------------------------------ MODULE EntrySet ------------------------------
(***************************************************************************)
(* What an allocation bitmap of fs.c promises, with the bytes left out: a  *)
(* set of used entries.  Allocation hands out the smallest free entry (the *)
(* file system relies on this only for reproducibility, but spec section   *)
(* "Bitmap byte layout" states it), freeing removes an entry, and an entry *)
(* outside the bitmap is never used.                                       *)
(***************************************************************************)
EXTENDS Integers, FiniteSets, FiniteSetsExt

CONSTANT Entries            \* the entry numbers the bitmap can hold

VARIABLE used               \* the entries currently allocated

TypeOK == used \subseteq Entries

Init == used = {}

\* Allocation takes the first free entry; a full bitmap changes nothing.
Allocate ==
    /\ used # Entries
    /\ used' = used \cup {Min(Entries \ used)}

\* Freeing an entry clears it, whether or not it was used.
Release(e) == used' = used \ {e}

Next == Allocate \/ \E e \in Entries : Release(e)

Spec == Init /\ [][Next]_used
=============================================================================
