------------------------------- MODULE Mbox -------------------------------
(***************************************************************************)
(* The mailboxes of src/mailbox/mbox.c: a fixed array Q[MAX_MBOX] of      *)
(* circular byte buffers, each a monitor built from a lock and the two    *)
(* conditions moreSpace and moreData of thread.c, on the cooperative      *)
(* scheduler.                                                              *)
(*                                                                         *)
(* The buffer is kept cell by cell.  A message is written as its header   *)
(* (sizeof(m) cells, the first holding the payload size and the rest      *)
(* zero, the bytes of the int size field) followed by its payload, whose  *)
(* cells all hold the message's identity.                                  *)
(*                                                                         *)
(* As in Sync.tla, only current_running takes steps.  A mailbox call that  *)
(* blocks keeps the rest of the call in pc[t]:                             *)
(*   phase "locked": it blocked in lock_acquire() and was handed the lock  *)
(*                   by lock_release(); it goes on with the call's body;   *)
(*   phase "reacq" : it blocked in condition_wait() and goes on with       *)
(*                   lock_acquire_helper() and the while loop's re-check.  *)
(* `inflight` is a history variable: the messages sent to each mailbox     *)
(* and not yet received or discarded by mbox_close().                      *)
(***************************************************************************)
EXTENDS Integers, Sequences, SequencesExt, FiniteSets

CONSTANTS
    TaskSeq, Threads,
    MAX_MBOX,       \* number of mailboxes; keys are 0..MAX_MBOX-1
    BUFFER_SIZE,    \* bytes in a mailbox buffer
    HDR,            \* sizeof(m): the header bytes stored before a payload
    Ids,            \* payload contents (model values)
    MaxPayload,     \* largest payload size a task sends
    MaxUsed         \* bound on Q[k].used, so the state space is finite

Keys == 0 .. MAX_MBOX - 1
CallKeys == Keys \cup {MAX_MBOX}    \* one key past the end: mbox_acquire's exit path

LockQ(k)  == <<k, "l">>
SpaceQ(k) == <<k, "moreSpace">>
DataQ(k)  == <<k, "moreData">>
Queues == {LockQ(k) : k \in Keys} \cup {SpaceQ(k) : k \in Keys} \cup {DataQ(k) : k \in Keys}

INSTANCE Thread

ASSUME /\ MAX_MBOX \in Nat \ {0}
       /\ HDR \in Nat \ {0} /\ BUFFER_SIZE > HDR
       /\ MaxPayload \in Nat /\ MaxUsed \in Nat

Msg == [size : 0 .. MaxPayload, id : Ids]
Cell == 0 .. MaxPayload \cup Ids

VARIABLES
    kern,           \* scheduler state (Scheduler.tla)
    lockStatus,     \* Q[k].l.status, by the lock's queue LockQ(k)
    mb,             \* Q[k]: used, count, head, tail, buffer
    pc,             \* the rest of a blocked mailbox call
    inflight        \* history: messages in each mailbox, oldest first

vars == <<kern, lockStatus, mb, pc, inflight>>

Idle == [op |-> "idle"]
Calls == [op : {"open", "close", "stat", "recv"}, key : Keys, phase : {"locked", "reacq"}]
         \cup [op : {"send"}, key : Keys, msg : Msg, phase : {"locked", "reacq"}]

EmptyBox == [used |-> 0, count |-> 0, head |-> 0, tail |-> 0,
             buffer |-> [i \in 0 .. BUFFER_SIZE - 1 |-> 0]]

TypeOK ==
    /\ kern \in KernRec
    /\ lockStatus \in [{LockQ(k) : k \in Keys} -> LockStatus]
    /\ mb \in [Keys -> [used : 0 .. MaxUsed, count : 0 .. BUFFER_SIZE,
                        head : 0 .. BUFFER_SIZE - 1, tail : 0 .. BUFFER_SIZE - 1,
                        buffer : [0 .. BUFFER_SIZE - 1 -> Cell]]]
    /\ pc \in [Tasks -> {Idle} \cup Calls]
    /\ inflight \in [Keys -> Seq(Msg)]

\* mbox_init(), on a zeroed Q[]
Init ==
    /\ kern = KernInit
    /\ lockStatus = [q \in {LockQ(k) : k \in Keys} |-> "UNLOCKED"]
    /\ mb = [k \in Keys |-> EmptyBox]
    /\ pc = [t \in Tasks |-> Idle]
    /\ inflight = [k \in Keys |-> <<>>]

-----------------------------------------------------------------------------
(* The bytes a message occupies in the buffer: sizeof(m) header bytes      *)
(* (the int size, low byte first) and the payload.                         *)
Encode(m) == <<m.size>> \o [i \in 1 .. HDR - 1 |-> 0] \o [i \in 1 .. m.size |-> m.id]

\* The n bytes of buf starting at start, wrapping modulo BUFFER_SIZE.
ReadRing(buf, start, n) == [i \in 1 .. n |-> buf[(start + i - 1) % BUFFER_SIZE]]

\* buf with the bytes of s copied in from start, wrapping modulo BUFFER_SIZE.
WriteRing(buf, start, s) ==
    [j \in DOMAIN buf |->
        LET off == (j - start) % BUFFER_SIZE
        IN  IF off < Len(s) THEN s[off + 1] ELSE buf[j]]

(* Mutant: space_available() without the first test, so a full buffer    *)
(* (head = tail, count > 0) looks empty.                                   *)
SpaceAvailableNoFullCheck(q) ==
    IF q.tail > q.head THEN q.tail - q.head
    ELSE q.tail + BUFFER_SIZE - q.head

(* space_available(q): the free bytes between head and tail; head = tail   *)
(* means empty when count is 0 and full otherwise.                         *)
SpaceAvailable(q) ==
    IF q.tail = q.head /\ q.count # 0 THEN 0
    ELSE IF q.tail > q.head THEN q.tail - q.head
    ELSE q.tail + BUFFER_SIZE - q.head

-----------------------------------------------------------------------------
(* The world the mailbox code changes, as one record, so that calls can be *)
(* composed as functions in the order of the code.                         *)
World == [k |-> kern, ls |-> lockStatus, mb |-> mb, pc |-> pc, infl |-> inflight]

SetWorld(w) ==
    /\ kern' = w.k /\ lockStatus' = w.ls /\ mb' = w.mb
    /\ pc' = w.pc /\ inflight' = w.infl

\* mbox_release(key): lock_release(&Q[key].l)
MboxRelease(w, key) ==
    LET r == LockReleaseOp(w.k, w.ls, LockQ(key))
    IN  [w EXCEPT !.k = r.k, !.ls = r.ls]

(* Mutant: the wait loop calling block() on the condition without         *)
(* releasing the slot lock first.                                          *)
MboxWaitNoRelease(w, me, c, cq) ==
    [w EXCEPT !.k = Block(w.k, cq), !.pc[me] = [c EXCEPT !.phase = "reacq"]]

(* condition_wait(&Q[key].l, c) by task me, up to block(); me goes on with *)
(* the call c in phase "reacq".                                            *)
MboxWait(w, me, c, cq) ==
    LET r == CondWaitOp(w.k, w.ls, LockQ(c.key), cq)
    IN  [w EXCEPT !.k = r.k, !.ls = r.ls,
                  !.pc[me] = [c EXCEPT !.phase = "reacq"]]

(* mbox_send, from the while loop on (lock held): wait on moreSpace while  *)
(* header and payload do not fit; else copy them in at head, advance head, *)
(* count the message, broadcast moreData and release the lock.             *)
SendLoop(w, me, c) ==
    LET q == w.mb[c.key]
        m == c.msg
    IN  IF HDR + m.size > SpaceAvailable(q)
        THEN MboxWait(w, me, c, SpaceQ(c.key))
        ELSE MboxRelease(
               [w EXCEPT
                  !.mb[c.key] = [q EXCEPT !.buffer = WriteRing(q.buffer, q.head, Encode(m)),
                                          !.head = (q.head + HDR + m.size) % BUFFER_SIZE,
                                          !.count = q.count + 1],
                  !.infl[c.key] = Append(@, m),
                  !.k = CondBroadcastOp(w.k, DataQ(c.key))],
               c.key)

(* Mutant: mbox_recv advancing tail without wrapping it modulo            *)
(* BUFFER_SIZE.                                                            *)
RecvLoopNoWrap(w, me, c) ==
    LET q    == w.mb[c.key]
        size == q.buffer[q.tail]
    IN  IF q.count <= 0
        THEN MboxWait(w, me, c, DataQ(c.key))
        ELSE MboxRelease(
               [w EXCEPT
                  !.mb[c.key] = [q EXCEPT !.tail = q.tail + HDR + size,
                                          !.count = q.count - 1],
                  !.infl[c.key] = Tail(@),
                  !.k = CondBroadcastOp(w.k, SpaceQ(c.key))],
               c.key)

(* Mutant: mbox_recv waking one sender with condition_signal instead of   *)
(* broadcasting moreSpace.                                                 *)
RecvLoopSignal(w, me, c) ==
    LET q    == w.mb[c.key]
        size == q.buffer[q.tail]
    IN  IF q.count <= 0
        THEN MboxWait(w, me, c, DataQ(c.key))
        ELSE MboxRelease(
               [w EXCEPT
                  !.mb[c.key] = [q EXCEPT !.tail = (q.tail + HDR + size) % BUFFER_SIZE,
                                          !.count = q.count - 1],
                  !.infl[c.key] = Tail(@),
                  !.k = CondSignalOp(w.k, SpaceQ(c.key))],
               c.key)

(* mbox_recv, from the while loop on (lock held): wait on moreData while   *)
(* count <= 0; else read the size from the header at tail, read header and *)
(* payload, advance tail, uncount the message, broadcast moreSpace and     *)
(* release the lock.                                                       *)
RecvLoop(w, me, c) ==
    LET q    == w.mb[c.key]
        size == q.buffer[q.tail]
    IN  IF q.count <= 0
        THEN MboxWait(w, me, c, DataQ(c.key))
        ELSE MboxRelease(
               [w EXCEPT
                  !.mb[c.key] = [q EXCEPT !.tail = (q.tail + HDR + size) % BUFFER_SIZE,
                                          !.count = q.count - 1],
                  !.infl[c.key] = Tail(@),
                  !.k = CondBroadcastOp(w.k, SpaceQ(c.key))],
               c.key)

(* Mutant: mbox_close re-initialising the conditions before broadcasting  *)
(* them, so their waiters are forgotten instead of woken.                  *)
CloseBodyInitFirst(w, key) ==
    LET used  == IF w.mb[key].used > 0 THEN w.mb[key].used - 1 ELSE w.mb[key].used
        reset == [w.k EXCEPT !.waitq[SpaceQ(key)] = <<>>, !.waitq[DataQ(key)] = <<>>,
                             !.waitq[LockQ(key)] = <<>>]
    IN  MboxRelease(
          IF used <= 0
          THEN [w EXCEPT !.k = CondBroadcastOp(CondBroadcastOp(reset, SpaceQ(key)), DataQ(key)),
                         !.ls[LockQ(key)] = "UNLOCKED",
                         !.mb[key] = EmptyBox,
                         !.infl[key] = <<>>]
          ELSE [w EXCEPT !.mb[key].used = used],
          key)

(* mbox_close, after mbox_acquire: drop one user; with no users left wake  *)
(* every waiter of both conditions and re-initialise the slot, its lock    *)
(* (lock_init: UNLOCKED with no waiters) and conditions included; then     *)
(* mbox_release.                                                           *)
CloseBody(w, key) ==
    LET used  == IF w.mb[key].used > 0 THEN w.mb[key].used - 1 ELSE w.mb[key].used
        woken == CondBroadcastOp(CondBroadcastOp(w.k, SpaceQ(key)), DataQ(key))
    IN  MboxRelease(
          IF used <= 0
          THEN [w EXCEPT !.k = [woken EXCEPT !.waitq[LockQ(key)] = <<>>],
                         !.ls[LockQ(key)] = "UNLOCKED",
                         !.mb[key] = EmptyBox,
                         !.infl[key] = <<>>]
          ELSE [w EXCEPT !.mb[key].used = used],
          key)

(* The body of a mailbox call, run by task me with the slot's lock held.   *)
(* mbox_stat only reads count and space_available and releases the lock.   *)
Body(w, me, c) ==
    CASE c.op = "open"  -> MboxRelease([w EXCEPT !.mb[c.key].used = @ + 1], c.key)
      [] c.op = "close" -> CloseBody(w, c.key)
      [] c.op = "stat"  -> MboxRelease(w, c.key)
      [] c.op = "send"  -> SendLoop(w, me, c)
      [] c.op = "recv"  -> RecvLoop(w, me, c)

(* mbox_acquire(key) and the call's body: a key out of range makes the     *)
(* caller exit(); otherwise lock_acquire(&Q[key].l), and the body runs at  *)
(* once when the lock was free, or after hand-off when it was not.         *)
MboxCall(c) ==
    LET w  == World
        me == kern.current
        r  == LockAcquireHelperOp(kern, lockStatus, LockQ(c.key))
    IN  SetWorld(
          IF c.key \notin Keys THEN [w EXCEPT !.k = Exit(w.k)]
          ELSE IF lockStatus[LockQ(c.key)] = "UNLOCKED"
          THEN Body([w EXCEPT !.ls = r.ls], me, c)
          ELSE [w EXCEPT !.k = r.k, !.pc[me] = [c EXCEPT !.phase = "locked"]])

MboxOpen(key) ==
    /\ key \in Keys => mb[key].used < MaxUsed
    /\ MboxCall([op |-> "open", key |-> key, phase |-> "locked"])

MboxClose(key) == MboxCall([op |-> "close", key |-> key, phase |-> "locked"])
MboxStat(key)  == MboxCall([op |-> "stat", key |-> key, phase |-> "locked"])
MboxRecv(key)  == MboxCall([op |-> "recv", key |-> key, phase |-> "locked"])
MboxSend(key, m) ==
    MboxCall([op |-> "send", key |-> key, msg |-> m, phase |-> "locked"])

(* A blocked mailbox call going on when its task is current_running        *)
(* again: after a lock hand-off, with the body; after condition_wait, with *)
(* lock_acquire_helper() and, if that got the lock, the loop's re-check.   *)
MboxResume ==
    LET w  == World
        me == kern.current
        c  == pc[me]
        w0 == [w EXCEPT !.pc[me] = Idle]
        r  == LockAcquireHelperOp(kern, lockStatus, LockQ(c.key))
    IN  /\ c # Idle
        /\ SetWorld(
             IF c.phase = "locked" THEN Body(w0, me, c)
             ELSE IF lockStatus[LockQ(c.key)] = "UNLOCKED"
             THEN Body([w0 EXCEPT !.ls = r.ls], me, c)
             ELSE [w EXCEPT !.k = r.k, !.pc[me] = [c EXCEPT !.phase = "locked"]])

DoYield == kern' = Yield(kern) /\ UNCHANGED <<lockStatus, mb, pc, inflight>>
DoExit  == kern' = Exit(kern) /\ UNCHANGED <<lockStatus, mb, pc, inflight>>

Call ==
    /\ pc[kern.current] = Idle
    /\ \/ DoYield
       \/ DoExit
       \/ \E key \in CallKeys :
            \/ MboxOpen(key) \/ MboxClose(key) \/ MboxStat(key) \/ MboxRecv(key)
            \/ \E m \in Msg : MboxSend(key, m)

Next == Running(kern) /\ (Call \/ MboxResume)

Spec == Init /\ [][Next]_vars

-----------------------------------------------------------------------------
(***************************************************************************)
(*                              Properties                                 *)
(***************************************************************************)

(* Every TCB stays on exactly one list (Scheduler.tla) while mailbox calls *)
(* block on the slot lock, wait on moreSpace/moreData, are woken by the    *)
(* broadcasts of send, recv and close, and close re-initialises the lock   *)
(* and both conditions with lock_init/condition_init.                      *)
MboxOneListPerTask == ListsWellFormed(kern)

\* The bytes the messages in a mailbox occupy.
UsedBytes(ms) == FoldSeq(LAMBDA m, acc : acc + HDR + m.size, 0, ms)

(* The ring holds exactly the unreceived messages, oldest at tail (spec    *)
(* invariant 5 and the send/recv round trip): count is their number, the  *)
(* bytes from tail are their encodings back to back, head is just past    *)
(* them, and space_available() is BUFFER_SIZE minus their bytes.  So recv  *)
(* reads back what send wrote, in order, across the wrap at the end of    *)
(* the buffer and when the buffer is exactly full.                         *)
BufferEncodesInflight ==
    \A k \in Keys :
       LET q == mb[k]
           n == UsedBytes(inflight[k])
       IN  /\ q.count = Len(inflight[k])
           /\ n <= BUFFER_SIZE
           /\ ReadRing(q.buffer, q.tail, n) = FlattenSeq([i \in DOMAIN inflight[k] |-> Encode(inflight[k][i])])
           /\ q.head = (q.tail + n) % BUFFER_SIZE
           /\ SpaceAvailable(q) = BUFFER_SIZE - n

(* No lost wake-up: a task still waiting on a mailbox condition has a     *)
(* reason to.  A sender on moreSpace holds a message that does not fit in *)
(* the space now available, and a receiver on moreData sees no message.   *)
(* Every step that frees space (mbox_recv, mbox_close's reset) must wake   *)
(* every sender, and every step that adds a message (mbox_send) every     *)
(* receiver, since several of them may wait with different needs.         *)
NoLostWakeup ==
    \A k \in Keys :
       /\ \A t \in Range(kern.waitq[SpaceQ(k)]) : HDR + pc[t].msg.size > SpaceAvailable(mb[k])
       /\ kern.waitq[DataQ(k)] # <<>> => mb[k].count <= 0

(* No mailbox lock is ever held across a switch to another task: every     *)
(* mailbox call releases Q[k].l before it blocks (condition_wait releases  *)
(* first) or returns.  Hence no task ever waits on a mailbox lock, which   *)
(* is what makes mbox_close's lock_init (which forgets the lock's waiting  *)
(* list) safe.                                                             *)
MboxLockFreeBetweenCalls ==
    \A k \in Keys : lockStatus[LockQ(k)] = "UNLOCKED" /\ kern.waitq[LockQ(k)] = <<>>

=============================================================================
