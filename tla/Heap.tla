-------------------------------- MODULE Heap --------------------------------
(***************************************************************************)
(* The kernel heap (core/memory/kmalloc.c): a list of blocks, first fit,   *)
(* split on allocation, merge on release.  The linked list is a sequence;  *)
(* sizes and addresses are bytes.                                          *)
(*                                                                         *)
(* The calls run with interrupts off, and are one step each, but for one:  *)
(* kfree(tmpbuf) at the end of the line input of int 0x80, behind the sti  *)
(* of input().  A tick can switch tasks inside it, so that its loop is one *)
(* step per store.  Nothing in the code keeps another task out of the heap *)
(* then; `overlapped' tells that one came in, and from there on nothing is *)
(* claimed of the list.                                                    *)
(***************************************************************************)
EXTENDS Integers, Sequences, SequencesExt

CONSTANTS
    HeapStart, HeapSize,
    BlockHeader,    \* sizeof(kmem_block_t)
    ChunkHeader,    \* sizeof(chunk_header_t)
    Alignment,
    Requests,       \* sizes the kernel asks for
    Readers         \* tasks that read lines with int 0x80

ASSUME HeapAssumption ==
    /\ {HeapStart, HeapSize, ChunkHeader} \subseteq Nat
    /\ {BlockHeader, Alignment} \subseteq Nat \ {0}
    /\ HeapStart % Alignment = 0
    /\ HeapSize > BlockHeader + Alignment
    /\ Requests \subseteq Nat

VARIABLES
    list,           \* free_list: blocks [at, size, free] in list order
    live,           \* chunk_header_t.size of the pointers in use
    walk,           \* where each reader is in its kfree(tmpbuf), and cur
    overlapped      \* some call ran while a reader was inside (no variable
                    \* of the code)

vars == <<list, live, walk, overlapped>>

heap_end == HeapStart + HeapSize

AlignUp(n) == ((n + Alignment - 1) \div Alignment) * Alignment

Block(at, size, free) == [at |-> at, size |-> size, free |-> free]

\* heap_init.
Init ==
    /\ list = <<Block(HeapStart, HeapSize - BlockHeader, TRUE)>>
    /\ live = [p \in {} |-> 0]
    /\ walk = [r \in Readers |-> [step |-> "none", cur |-> 0]]
    /\ overlapped = FALSE

Walking == {r \in Readers : walk[r].step # "none"}

\* A call enters the heap; with a reader inside, the two overlap.
Enter == overlapped' = (overlapped \/ Walking # {})

-----------------------------------------------------------------------------
\* (fault: the header of the new block is not counted)
SplitShort(b, size) ==
    IF b.size < size + Alignment
    THEN <<Block(b.at, b.size, FALSE)>>
    ELSE <<Block(b.at, size, FALSE),
           Block(b.at + BlockHeader + size, b.size - size, TRUE)>>

\* split_block, for the block that is taken.
Split(b, size) ==
    IF b.size < size + BlockHeader + Alignment
    THEN <<Block(b.at, b.size, FALSE)>>
    ELSE <<Block(b.at, size, FALSE),
           Block(b.at + BlockHeader + size, b.size - size - BlockHeader, TRUE)>>

\* The index of the first block that fits; none if the set is empty.
FirstFit(blocks, size) ==
    LET fitting == {i \in DOMAIN blocks : blocks[i].free /\ blocks[i].size >= size}
    IN  {i \in fitting : \A j \in fitting : i <= j}

Take(blocks, i, size) ==
    SubSeq(blocks, 1, i - 1) \o Split(blocks[i], size) \o SubSeq(blocks, i + 1, Len(blocks))

\* The loop at the end of _kfree.
Merge(blocks) ==
    LET Join(done, b) ==
            IF done = <<>> THEN <<b>>
            ELSE LET a == Last(done)
                 IN  IF a.free /\ b.free /\ a.at + BlockHeader + a.size = b.at
                     THEN Append(Front(done), Block(a.at, a.size + BlockHeader + b.size, TRUE))
                     ELSE Append(done, b)
        merged[i \in 0..Len(blocks)] ==
            IF i = 0 THEN <<>> ELSE Join(merged[i - 1], blocks[i])
    IN  merged[Len(blocks)]

\* (fault: only the block behind the released one is merged with it)
ReleaseForward(blocks, at) ==
    LET i == CHOOSE j \in DOMAIN blocks : blocks[j].at = at
        freed == [blocks EXCEPT ![i].free = TRUE]
    IN  SubSeq(freed, 1, i - 1) \o Merge(SubSeq(freed, i, Len(freed)))

\* _kfree of the block at this address.
Release(blocks, at) ==
    Merge([i \in DOMAIN blocks |->
              IF blocks[i].at = at THEN [blocks[i] EXCEPT !.free = TRUE] ELSE blocks[i]])

Pointer(b) == b.at + BlockHeader + ChunkHeader
BlockOf(p) == p - ChunkHeader - BlockHeader

Placed(pointers, b, n) ==
    [p \in pointers \cup {Pointer(b)} |-> IF p = Pointer(b) THEN n ELSE live[p]]

\* kmalloc; the request is served or refused, and a refusal changes nothing.
Kmalloc(n) ==
    /\ LET size == AlignUp(ChunkHeader + n)
       IN  \E i \in FirstFit(list, size) :
            /\ list' = Take(list, i, size)
            /\ live' = Placed(DOMAIN live, list[i], n)
    /\ Enter /\ UNCHANGED walk

Without(p) == [q \in DOMAIN live \ {p} |-> live[q]]

\* kfree of a pointer that carries the signature, with interrupts off.
Kfree(p) ==
    /\ list' = Release(list, BlockOf(p))
    /\ live' = Without(p)
    /\ Enter /\ UNCHANGED walk

\* (fault: the old block is released before the new one is taken)
ReallocFreeFirst(p, n) ==
    LET size == AlignUp(ChunkHeader + n)
        released == Release(list, BlockOf(p))
    IN  /\ n >= live[p]
        /\ \E i \in FirstFit(released, size) :
            /\ list' = Take(released, i, size)
            /\ live' = Placed(DOMAIN live \ {p}, released[i], n)
        /\ Enter /\ UNCHANGED walk

\* realloc, as tmpfs_write calls it: to a larger size.  The bytes are copied
\* while both blocks are there.  (A refusal is not checked for: the copy to
\* the null page ends in a panic.)
Realloc(p, n) ==
    LET size == AlignUp(ChunkHeader + n)
    IN  /\ n >= live[p]
        /\ \E i \in FirstFit(list, size) :
            /\ list' = Release(Take(list, i, size), BlockOf(p))
            /\ live' = Placed(DOMAIN live \ {p}, list[i], n)
        /\ Enter /\ UNCHANGED walk

-----------------------------------------------------------------------------
Goto(r, step, cur) == walk' = [walk EXCEPT ![r] = [step |-> step, cur |-> cur]]

\* The block in front of which the loop of the reader stands.  (None if an
\* overlapping call merged it away: the reader goes on in what was a header.)
Cursor(r, step) == {i \in DOMAIN list : walk[r] = [step |-> step, cur |-> list[i].at]}

\* The block and the one behind it are to be joined.
Joins(i) ==
    /\ i < Len(list) /\ list[i].free /\ list[i + 1].free
    /\ list[i].at + BlockHeader + list[i].size = list[i + 1].at

\* kfree(tmpbuf) of the line input: the block is marked free, and the loop
\* starts at the head of the list.
LineFree(r, p) ==
    /\ walk[r].step = "none"
    /\ list' = [i \in DOMAIN list |->
                   IF list[i].at = BlockOf(p) THEN [list[i] EXCEPT !.free = TRUE] ELSE list[i]]
    /\ live' = Without(p)
    /\ Goto(r, "look", HeapStart)
    /\ Enter

\* cur->size grows over the next block, which stays in the list.
Enlarge(r) ==
    \E i \in Cursor(r, "look") :
        /\ Joins(i)
        /\ list' = [list EXCEPT ![i].size = @ + BlockHeader + list[i + 1].size]
        /\ Goto(r, "unlink", list[i].at)
        /\ UNCHANGED <<live, overlapped>>

\* cur->next passes over the block that was joined.
Unlink(r) ==
    \E i \in Cursor(r, "unlink") :
        /\ i < Len(list)
        /\ list' = RemoveAt(list, i + 1)
        /\ Goto(r, "look", list[i].at)
        /\ UNCHANGED <<live, overlapped>>

Advance(r) ==
    \E i \in Cursor(r, "look") :
        /\ i < Len(list) /\ ~Joins(i)
        /\ Goto(r, "look", list[i + 1].at)
        /\ UNCHANGED <<list, live, overlapped>>

\* The loop ends at the last block, and with it the call.
FreeDone(r) ==
    /\ Len(list) \in Cursor(r, "look")
    /\ Goto(r, "none", 0)
    /\ UNCHANGED <<list, live, overlapped>>

WalkStep == \E r \in Readers : Enlarge(r) \/ Unlink(r) \/ Advance(r) \/ FreeDone(r)

Next ==
    \/ \E n \in Requests : Kmalloc(n)
    \/ \E p \in DOMAIN live : Kfree(p)
    \/ \E p \in DOMAIN live, n \in Requests : Realloc(p, n)
    \/ \E r \in Readers, p \in DOMAIN live : LineFree(r, p)
    \/ WalkStep

Spec == Init /\ [][Next]_vars

-----------------------------------------------------------------------------
BlockEnd(b) == b.at + BlockHeader + b.size

Tiles ==
    /\ list[1].at = HeapStart
    /\ BlockEnd(Last(list)) = heap_end
    /\ \A i \in 1..(Len(list) - 1) : BlockEnd(list[i]) = list[i + 1].at
    /\ {Pointer(list[i]) : i \in {j \in DOMAIN list : ~list[j].free}} = DOMAIN live
    /\ \A i \in DOMAIN list :
        ~list[i].free => Pointer(list[i]) + live[Pointer(list[i])] <= BlockEnd(list[i])

\* The blocks tile the heap: the list is in address order without holes or
\* overlaps, over any sequence of splits and merges, and the blocks in use are
\* exactly those of the live pointers, each long enough for its request.  So
\* it is after every call and at every turn of a reader's loop, except between
\* its two stores, as long as no call has come in while a reader was inside.
BlocksTile ==
    ~overlapped /\ (\A r \in Readers : walk[r].step # "unlink") => Tiles

\* Two neighbours are never both free, so no release order leaves the heap
\* in pieces: when the last pointer is freed it is one block again.  A reader
\* that is inside has not merged all; if nobody else came in meanwhile, it
\* has when it leaves.
FullyMerged ==
    ~overlapped /\ Walking = {}
        => \A i \in 1..(Len(list) - 1) : ~(list[i].free /\ list[i + 1].free)

A == INSTANCE Allocator WITH base <- HeapStart, top <- heap_end

\* No kmalloc or realloc hands out bytes that are in use, up to the first call
\* that comes in while a reader is inside.
ImplementsAllocator == A!Init /\ [][overlapped' \/ A!Next]_(A!vars)
=============================================================================
