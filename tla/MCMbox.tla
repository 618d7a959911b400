------------------------------ MODULE MCMbox ------------------------------
(* Three tasks on one mailbox of 4 bytes with a 1-byte header: payloads of *)
(* 0 to 2 bytes make messages of 1 to 3 bytes, so the buffer fills        *)
(* exactly, wraps, and makes senders wait.                                 *)
EXTENDS Mbox, TLC

CONSTANTS t1, t2, t3, a, b

MCTaskSeq == <<t1, t2, t3>>

=============================================================================
