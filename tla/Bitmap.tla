------------------------------- MODULE Bitmap -------------------------------
(***************************************************************************)
(* The allocation bitmaps of src/filesystem/fs.c: get_free_entry,          *)
(* free_bitmap_entry and check_bit over an array of bytes, entry i being  *)
(* bit 7 - (i % 8) of byte i / 8 (MSB first).  The                         *)
(* operators are pure; the file system module applies them to its two     *)
(* bitmaps.  The state machine below drives one bitmap through every       *)
(* sequence of allocations and frees, and is shown to implement EntrySet.  *)
(***************************************************************************)
EXTENDS Integers, FiniteSets, FiniteSetsExt

(* The entry count.  fs.c declares BITMAP_ENTRIES bytes, but only the     *)
(* first BITMAP_ENTRIES/8 of them hold entries get_free_entry and         *)
(* free_bitmap_entry touch; the bytes past them stay zero and are left   *)
(* out.                                                                    *)
CONSTANT BITMAP_ENTRIES

Bytes == 0 .. (BITMAP_ENTRIES \div 8) - 1
Byte  == 0 .. 255
Bits  == 0 .. BITMAP_ENTRIES - 1          \* the entries get_free_entry can return

\* The mask get_free_entry and free_bitmap_entry use for entry k of a byte:
\* 0x80 for k = 0 down to 0x01 for k = 7.
EntryMask(k) == 2^(7 - k)

\* b & m, b | m and b & ~m for a one-bit mask m, in arithmetic.
HasBit(b, m)   == (b \div m) % 2 = 1
SetBit(b, m)   == IF HasBit(b, m) THEN b ELSE b + m
ClearBitUnchecked(b, m) == b - m
ClearBit(b, m) == IF HasBit(b, m) THEN b - m ELSE b

GetFreeEntryLsbFirst(b) ==
    LET open == {i \in Bytes : b[i] # 255}
    IN  IF open = {}
        THEN [bitmap |-> b, entry |-> -1]
        ELSE LET i == Min(open)
                 k == Min({j \in 0 .. 7 : ~HasBit(b[i], 2^j)})
             IN  [bitmap |-> [b EXCEPT ![i] = SetBit(@, 2^k)], entry |-> i * 8 + k]

\* get_free_entry: the first byte that is not 0xff, its first zero bit from
\* the msb down; the bit is set and its entry number returned, or -1.
GetFreeEntry(b) ==
    LET open == {i \in Bytes : b[i] # 255}
    IN  IF open = {}
        THEN [bitmap |-> b, entry |-> -1]
        ELSE LET i == Min(open)
                 k == Min({j \in 0 .. 7 : ~HasBit(b[i], EntryMask(j))})
             IN  [bitmap |-> [b EXCEPT ![i] = SetBit(@, EntryMask(k))], entry |-> i * 8 + k]

FreeBitmapEntrySwappedCase(e, b) ==
    IF e >= BITMAP_ENTRIES
    THEN [bitmap |-> b, result |-> -1]
    ELSE [bitmap |-> [b EXCEPT ![e \div 8] = ClearBit(@, 2^(e % 8))], result |-> 0]

\* free_bitmap_entry: entries past BITMAP_ENTRIES are refused with -1,
\* otherwise the bit is cleared (*bme &= ~mask) and 0 returned.
FreeBitmapEntry(e, b) ==
    IF e >= BITMAP_ENTRIES
    THEN [bitmap |-> b, result |-> -1]
    ELSE [bitmap |-> [b EXCEPT ![e \div 8] = ClearBit(@, EntryMask(e % 8))],
          result |-> 0]

\* check_bit: bit 7 - (i % 8) of byte i / 8.
CheckBit(i, b) == HasBit(b[i \div 8], 2^(7 - (i % 8)))

-----------------------------------------------------------------------------
VARIABLE bitmap

TypeOK == bitmap \in [Bytes -> Byte]

\* fs_mkfs: bzero of the bitmap.
Init == bitmap = [i \in Bytes |-> 0]

GetFree == bitmap' = GetFreeEntry(bitmap).bitmap

\* Callers pass any entry number, including ones past the searched bytes.
FreeEntry(e) == bitmap' = FreeBitmapEntry(e, bitmap).bitmap

Next == GetFree \/ \E e \in 0 .. BITMAP_ENTRIES : FreeEntry(e)

Spec == Init /\ [][Next]_bitmap

\* The set of used entries the bytes stand for, as check_bit reads them.
UsedEntries == {i \in Bits : CheckBit(i, bitmap)}

Abstract == INSTANCE EntrySet WITH Entries <- Bits, used <- UsedEntries

\* The byte operations implement the set allocator: get_free_entry marks
\* exactly the smallest entry check_bit reports free, and free_bitmap_entry
\* clears exactly the bit check_bit reads for that entry.
AllocatorRefinement == Abstract!Spec

\* Spec round trip: free_bitmap_entry(get_free_entry(b), b) restores b, and
\* get_free_entry returns -1 exactly when every entry is used.
GetFreeRoundTrip ==
    LET r == GetFreeEntry(bitmap)
    IN  /\ r.entry = -1 <=> UsedEntries = Bits
        /\ r.entry # -1 => FreeBitmapEntry(r.entry, r.bitmap).bitmap = bitmap
=============================================================================
