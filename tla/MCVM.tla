------------------------------- MODULE MCVM -------------------------------
(* Two processes, each with a 3-sector image over 2-sector pages, stored  *)
(* back to back on the disk, so the second page of an image is a partial  *)
(* page whose clamped write-back ends where the next image begins (the    *)
(* disk has two more sectors after the images); and two                   *)
(* pageable frames beyond those boot pins, so faults evict each other's    *)
(* pages.                                                                  *)
EXTENDS VM

CONSTANTS p1, p2

MCTaskSeq == <<p1, p2>>
MCSwapLoc == (p1 :> 0) @@ (p2 :> 3)
MCSwapSize == (p1 :> 3) @@ (p2 :> 3)
====
