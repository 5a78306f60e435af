----------------------------- MODULE UserMalloc -----------------------------
(***************************************************************************)
(* The heap of a user program (bomboclaat-os/lib/malloc.c) over sbrk: a    *)
(* list of blocks that are never split, and grows at its tail.  Nothing    *)
(* else in a program calls sbrk.                                           *)
(***************************************************************************)
EXTENDS Integers, Sequences, SequencesExt

CONSTANTS
    BrkStart,       \* mm.brk_start
    HeapMax,        \* USER_HEAP_MAX
    HeaderSize,     \* HEADER_SIZE
    Requests        \* sizes malloc is called with

ASSUME UserMallocAssumption ==
    /\ {BrkStart, HeapMax} \subseteq Nat
    /\ HeaderSize \in Nat \ {0}
    /\ Requests \subseteq Nat \ {0}

VARIABLES
    list,           \* free_list_start: blocks [at, size, free] in list order
    brk,            \* the program break
    live            \* bytes asked for at the pointers in use

vars == <<list, brk, live>>

Init == list = <<>> /\ brk = BrkStart /\ live = [p \in {} |-> 0]

-----------------------------------------------------------------------------
Block(at, size, free) == [at |-> at, size |-> size, free |-> free]

Pointer(b) == b.at + HeaderSize

AlignUp(n) == ((n + 7) \div 8) * 8

Placed(b, n) ==
    [p \in DOMAIN live \cup {Pointer(b)} |-> IF p = Pointer(b) THEN n ELSE live[p]]

\* (fault: the size of a free block is not compared)
FirstFree(size) ==
    LET free == {i \in DOMAIN list : list[i].free}
    IN  {i \in free : \A j \in free : i <= j}

\* find_free_block.
FirstFit(size) ==
    LET fitting == {i \in DOMAIN list : list[i].free /\ list[i].size >= size}
    IN  {i \in fitting : \A j \in fitting : i <= j}

\* malloc that finds a free block: all of it goes to the caller.
Reuse(n) ==
    \E i \in FirstFit(AlignUp(n)) :
        /\ list' = [list EXCEPT ![i].free = FALSE]
        /\ live' = Placed(list[i], n)
        /\ UNCHANGED brk

\* malloc that does not: sbrk, which fails above its limit (or for want of
\* frames), and a new block at the tail.
Extend(n) ==
    LET b == Block(brk, AlignUp(n), FALSE)
    IN  /\ FirstFit(AlignUp(n)) = {}
        /\ brk + HeaderSize + AlignUp(n) <= BrkStart + HeapMax
        /\ brk' = brk + HeaderSize + AlignUp(n)
        /\ list' = Append(list, b)
        /\ live' = Placed(b, n)

\* (fault: a free block is merged with whatever follows)
MergeUsed(blocks) ==
    LET Join(done, b) ==
            IF done # <<>> /\ Last(done).free
            THEN Append(Front(done),
                        Block(Last(done).at, Last(done).size + HeaderSize + b.size, TRUE))
            ELSE Append(done, b)
        merged[k \in 0..Len(blocks)] ==
            IF k = 0 THEN <<>> ELSE Join(merged[k - 1], blocks[k])
    IN  merged[Len(blocks)]

\* coalesce_free_blocks: neighbours in the list, wherever they lie in memory.
Merge(blocks) ==
    LET Join(done, b) ==
            IF done # <<>> /\ Last(done).free /\ b.free
            THEN Append(Front(done),
                        Block(Last(done).at, Last(done).size + HeaderSize + b.size, TRUE))
            ELSE Append(done, b)
        merged[k \in 0..Len(blocks)] ==
            IF k = 0 THEN <<>> ELSE Join(merged[k - 1], blocks[k])
    IN  merged[Len(blocks)]

Free(p) ==
    /\ list' = Merge([i \in DOMAIN list |->
                         IF Pointer(list[i]) = p
                         THEN [list[i] EXCEPT !.free = TRUE] ELSE list[i]])
    /\ live' = [q \in DOMAIN live \ {p} |-> live[q]]
    /\ UNCHANGED brk

Next ==
    \/ \E n \in Requests : Reuse(n) \/ Extend(n)
    \/ \E p \in DOMAIN live : Free(p)

Spec == Init /\ [][Next]_vars

-----------------------------------------------------------------------------
\* coalesce_free_blocks merges by list order and never looks at an address.
\* It may: the list is in memory order without gaps, from the start of the
\* heap to the break, so what it takes into a block is what lies behind it;
\* and the blocks in use are those of the live pointers.
ListIsMemory ==
    LET end(b) == Pointer(b) + b.size
    IN  /\ list # <<>> => list[1].at = BrkStart /\ end(Last(list)) = brk
        /\ \A i \in 1..(Len(list) - 1) : end(list[i]) = list[i + 1].at
        /\ {Pointer(list[i]) : i \in {j \in DOMAIN list : ~list[j].free}} = DOMAIN live

A == INSTANCE Allocator WITH base <- BrkStart, top <- brk

\* No malloc hands out bytes that are in use or lie behind the break.
ImplementsAllocator == A!Spec
=============================================================================
