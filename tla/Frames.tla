------------------------------- MODULE Frames -------------------------------
(***************************************************************************)
(* The physical memory manager (core/memory/pmm.c): one bit per frame, the *)
(* count of set bits, and the two first-fit searches.  owned is no         *)
(* variable of the code: it is what the callers hold.                      *)
(***************************************************************************)
EXTENDS Integers, FiniteSets, FiniteSetsExt, Sequences

CONSTANTS
    PageSize,       \* bytes per frame
    Maps,           \* the memory maps the boot loader may hand over
    Counts          \* what pmm_alloc_contiguous is asked for

\* The boot protocol promises usable entries of whole pages.
ASSUME FramesAssumption ==
    /\ PageSize \in Nat \ {0}
    /\ Counts \subseteq Nat \ {0}
    /\ Maps \subseteq Seq([base : Nat, length : Nat, usable : BOOLEAN])
    /\ \A m \in Maps : \A i \in DOMAIN m :
        m[i].usable => m[i].base % PageSize = 0 /\ m[i].length % PageSize = 0

\* It also promises that usable entries do not overlap.  Only the count of
\* used frames depends on it.
ASSUME EntriesApart ==
    \A m \in Maps : \A i, j \in DOMAIN m :
        i # j /\ m[i].usable /\ m[j].usable
            => m[i].base + m[i].length <= m[j].base \/ m[j].base + m[j].length <= m[i].base

VARIABLES
    memmap,         \* the memory map, a sequence of [base, length, usable]
    bits,           \* the frames whose bit is set in the bitmap
    used,           \* used_frames
    owned           \* handed out and not given back

vars == <<memmap, bits, used, owned>>

Ceil(x, d) == (x + d - 1) \div d

Usable(m) == {m[i] : i \in {j \in DOMAIN m : m[j].usable}}

total == Max({m.base + m.length : m \in {memmap[i] : i \in DOMAIN memmap}} \cup {0})
            \div PageSize

-----------------------------------------------------------------------------
(***************************************************************************)
(* pmm_init.  The bitmap itself lies at the end of the first usable entry  *)
(* that can hold it.                                                       *)
(***************************************************************************)
BitmapSize == Ceil(total, 8)

BitmapEntry ==
    memmap[Min({i \in DOMAIN memmap : memmap[i].usable /\ memmap[i].length >= BitmapSize})]

BitmapAddr ==
    ((BitmapEntry.base + BitmapEntry.length - BitmapSize) \div PageSize) * PageSize

\* (fault: only the frame the bitmap starts in is kept)
ClearedOfOnePage(e) ==
    {f \in 0..(total - 1) :
        f * PageSize \in e.base..(e.base + e.length - 1) /\ f * PageSize # BitmapAddr}

\* The pages that start in an entry and outside the bitmap.
Cleared(e) ==
    {f \in 0..(total - 1) :
        /\ f * PageSize \in e.base..(e.base + e.length - 1)
        /\ f * PageSize \notin BitmapAddr..(BitmapAddr + BitmapSize - 1)}

\* The turns of the loop that clear a bit, which each take one off the count:
\* a page of two entries would be taken off twice.
Clearings ==
    {c \in (DOMAIN memmap) \X (0..(total - 1)) :
        memmap[c[1]].usable /\ c[2] \in Cleared(memmap[c[1]])}

Spare == {c[2] : c \in Clearings}

\* The bitmap needs some usable entry large enough for it.
Init ==
    /\ memmap \in Maps
    /\ \E e \in Usable(memmap) : e.length >= BitmapSize
    /\ bits = 0..(total - 1) \ Spare
    /\ used = total - Cardinality(Clearings)
    /\ owned = {}

-----------------------------------------------------------------------------
\* Frame 0 is never looked at.
Free == 1..(total - 1) \ bits

Set(S) == bits' = bits \cup S /\ used' = used + Cardinality(S) /\ UNCHANGED memmap

\* (fault: the count is not taken back)
PutUncounted(S) == bits' = bits \ S /\ UNCHANGED <<used, memmap>>

\* pmm_free_frame for each frame of S; the log message for a frame that is
\* free already is all that happens to that one.
Put(S) ==
    /\ bits' = bits \ S
    /\ used' = used - Cardinality(S \cap bits)
    /\ UNCHANGED memmap

\* pmm_alloc_frame.
Take(f) ==
    /\ f \in Free
    /\ \A g \in Free : f <= g
    /\ Set({f})

\* (fault: a used frame does not end the run)
RunOverUsed ==
    LET run[i \in 0..(total - 1)] ==
            IF i = 0 THEN 0 ELSE IF i \in bits THEN run[i - 1] ELSE run[i - 1] + 1
    IN  run

\* The run counter of pmm_alloc_contiguous after it has looked at frame i.
Run ==
    LET run[i \in 0..(total - 1)] ==
            IF i = 0 \/ i \in bits THEN 0 ELSE run[i - 1] + 1
    IN  run

\* Where the scan for n frames starts its result; empty when it finds none.
Scan(n) ==
    LET ends == {i \in 0..(total - 1) : Run[i] = n}
    IN  IF ends = {} THEN {} ELSE {Min(ends) - n + 1}

\* What the scan is for: the lowest run of n free frames.
IsRun(n, f) == f..(f + n - 1) \subseteq Free

LowestRun(n) == {f \in Free : IsRun(n, f) /\ \A g \in Free : IsRun(n, g) => f <= g}

-----------------------------------------------------------------------------
AllocFrame == \E f \in Free : Take(f) /\ owned' = owned \cup {f}

AllocContiguous(n) ==
    \E f \in Scan(n) :
        /\ Set(f..(f + n - 1))
        /\ owned' = owned \cup f..(f + n - 1)

FreeFrames ==
    /\ owned' \in SUBSET owned
    /\ Put(owned \ owned')

Next == AllocFrame \/ FreeFrames \/ \E n \in Counts : AllocContiguous(n)

Spec == Init /\ [][Next]_vars

-----------------------------------------------------------------------------
\* used_frames, which every path counts up or down by itself, is the number
\* of set bits; it does not wrap below zero.
UsedExact == used = Cardinality(bits \cap 0..(total - 1)) /\ bits \subseteq 0..(total - 1)

\* Frames that lie in usable memory, and those the bitmap occupies.
RAM ==
    {f \in 0..(total - 1) : \E e \in Usable(memmap) :
        f * PageSize >= e.base /\ (f + 1) * PageSize <= e.base + e.length}
Storage == {b \div PageSize : b \in BitmapAddr..(BitmapAddr + BitmapSize - 1)}

\* A frame the next search may hand out is RAM, is not part of the bitmap
\* that records it, and is nobody's; and no usable frame is lost to the
\* searches except frame 0.
FreeIsSpare == Free = (RAM \ Storage) \ (owned \cup {0})

\* The one-pass run counter of pmm_alloc_contiguous finds the lowest run of
\* free frames whenever there is one, over any pattern of used ones.
ScanFindsLowestRun == \A n \in Counts : Scan(n) = LowestRun(n)
=============================================================================
