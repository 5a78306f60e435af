----------------------------- MODULE HeapProofs -----------------------------
(* Proofs about the kernel heap, for any heap size, header sizes and requests, *)
(* and about the calls that use it, for any descriptor table and any number of *)
(* children.                                                                   *)
EXTENDS MCKernelHeap, DataLemmas

H == BlockHeader

(***************************************************************************)
(* The loop at the end of _kfree.                                          *)
(***************************************************************************)
Turn(done, b) ==
    IF done = <<>> THEN <<b>>
    ELSE IF /\ Last(done).free /\ b.free
            /\ Last(done).at + BlockHeader + Last(done).size = b.at
         THEN Append(Front(done),
                     [at |-> Last(done).at, size |-> Last(done).size + BlockHeader + b.size,
                      free |-> TRUE])
         ELSE Append(done, b)

Turns(s, f) == f = [i \in 0..Len(s) |-> IF i = 0 THEN <<>> ELSE Turn(f[i - 1], s[i])]

LEMMA MergeUnfolded ==
    ASSUME NEW s
    PROVE  Merge(s) = (CHOOSE f : Turns(s, f))[Len(s)]
BY DEF Merge, Turns, Turn, Block

LEMMA TurnType ==
    ASSUME NEW done \in Seq(Piece), NEW b \in Piece
    PROVE  Turn(done, b) \in Seq(Piece)
<1>1. CASE done = <<>>
    BY <1>1 DEF Turn
<1>2. CASE done # <<>>
  <2> DEFINE n == Len(done)
             c == [at |-> Last(done).at, size |-> Last(done).size + BlockHeader + b.size,
                   free |-> TRUE]
  <2>1. n \in Nat \ {0} /\ \A i \in 1..n : done[i] \in Piece
    BY <1>2, EmptySeq, ElementOfSeq
  <2>2. Last(done) \in Piece
    BY <2>1 DEF Last
  <2>3. c \in Piece
    BY <2>2, HeapAssumption DEF Piece
  <2>4. Front(done) \in Seq(Piece)
    <3>1. \A i \in 1..(n - 1) : done[i] \in Piece
      BY <2>1
    <3> QED
      BY <2>1, <3>1, SubSeqProperties DEF Front
  <2>5. Append(Front(done), c) \in Seq(Piece) /\ Append(done, b) \in Seq(Piece)
    <3> HIDE DEF c
    <3> QED
      BY <2>3, <2>4, AppendProperties
  <2>6. Turn(done, b) = Append(Front(done), c) \/ Turn(done, b) = Append(done, b)
    BY <1>2 DEF Turn
  <2> HIDE DEF c
  <2> QED
    BY <2>5, <2>6
<1> QED
    BY <1>1, <1>2

LEMMA TurnsExist ==
    ASSUME NEW s \in Seq(Piece)
    PROVE  \E f : Turns(s, f)
<1> DEFINE D == Seq(Piece)
           n == Len(s)
           step == [x \in D \X Piece |-> Turn(x[1], x[2])]
<1>1. n \in Nat /\ s \in [1..n -> Piece] /\ <<>> \in D
    BY LenProperties, EmptySeq
<1>2. step \in [D \X Piece -> D]
    BY TurnType
<1>3. \A d \in D, b \in Piece : step[<<d, b>>] = Turn(d, b)
    OBVIOUS
<1> HIDE DEF step, D, n
<1>4. PICK f \in [0..n -> D] : f[0] = <<>> /\ \A i \in 1..n : f[i] = step[<<f[i - 1], s[i]>>]
  <2>1. \E f \in [0..n -> D] : Loops(step, <<>>, s, n, f)
    BY <1>1, <1>2, LoopExists
  <2> QED
    BY <2>1 DEF Loops
<1>5. ASSUME NEW i \in 1..n
      PROVE  f[i] = Turn(f[i - 1], s[i])
  <2>1. i - 1 \in 0..n
    BY <1>1
  <2>2. f[i - 1] \in D /\ s[i] \in Piece
    BY <1>1, <2>1
  <2> QED
    BY <1>3, <1>4, <2>2
<1>6. f = [i \in 0..n |-> f[i]]
    OBVIOUS
<1>7. \A i \in 0..n : f[i] = IF i = 0 THEN <<>> ELSE Turn(f[i - 1], s[i])
    BY <1>1, <1>4, <1>5
<1>8. f = [i \in 0..n |-> IF i = 0 THEN <<>> ELSE Turn(f[i - 1], s[i])]
    BY <1>6, <1>7
<1> QED
    BY <1>8 DEF Turns, n

\* Merging keeps the memory and the blocks in use, and leaves no two free
\* blocks side by side.
LEMMA MergeMerges ==
    ASSUME NEW s, Tiled(H, s)
    PROVE  Merged(H, s, Merge(s))
<1> DEFINE n == Len(s)
           f == CHOOSE g : Turns(s, g)
<1>1. s \in Seq(Piece) /\ n \in Nat \ {0} /\ H \in Nat
    BY HeapAssumption, TiledType DEF Tiled, H
<1>2. Turns(s, f) /\ Merge(s) = f[n]
    BY <1>1, TurnsExist, MergeUnfolded
<1> HIDE DEF f
<1>3. f[0] = <<>> /\ \A i \in 1..n : f[i] = Turn(f[i - 1], s[i])
    BY <1>1, <1>2 DEF Turns
<1>4. ASSUME NEW i \in 1..n
      PROVE  /\ f[i - 1] = <<>> => f[i] = <<s[i]>>
             /\ f[i - 1] # <<>> /\ s[i].at = End(H, Last(f[i - 1]))
                   => f[i] = Joined(H, f[i - 1], s[i])
    BY <1>3 DEF Turn, Joined, End, H
<1> QED
    BY <1>1, <1>2, <1>3, <1>4, MergeTiled

-----------------------------------------------------------------------------
(***************************************************************************)
(* The invariant, of a list l and the pointers in use v.                   *)
(***************************************************************************)
Sound(l, v) ==
    /\ Tiled(H, l)
    /\ l[1].at = HeapStart /\ End(H, Last(l)) = heap_end
    /\ v \in [DOMAIN v -> Nat]
    /\ {Pointer(b) : b \in InUse(l)} = DOMAIN v
    /\ \A b \in InUse(l) : ChunkHeader + v[Pointer(b)] <= b.size

HeapOK(l, v) == Sound(l, v) /\ NoPair(l)

\* A reader is inside: the list is in order and merged up to its block; or the
\* block is enlarged, and the list in order without the next one.
WalkOK(r) ==
    \/ /\ walk[r].step = "look" /\ Sound(list, live)
       /\ \E i \in 1..Len(list) : walk[r].cur = list[i].at /\ NoPairUpTo(list, i)
    \/ /\ walk[r].step = "unlink"
       /\ \E i \in 1..(Len(list) - 1) :
            LET rest == RemoveAt(list, i + 1)
            IN  /\ walk[r].cur = list[i].at
                /\ \A j \in 1..Len(list) : list[j].at = list[i].at => j = i
                /\ Sound(rest, live) /\ Len(rest) = Len(list) - 1
                /\ rest[i].at = list[i].at /\ NoPairUpTo(rest, i)

Steps == {"none", "look", "unlink"}

\* Whoever is inside is alone.
Intact ==
    /\ walk \in [Readers -> [step : Steps, cur : Nat]]
    /\ Walking = {} => HeapOK(list, live)
    /\ \A r \in Walking : Walking = {r} /\ WalkOK(r)

\* Behind an overlap nothing is known.
HeapInv == overlapped \in BOOLEAN /\ (~overlapped => Intact)

\* Pointers in use lie inside the heap, and none reaches into another.
LEMMA PointersApart ==
    ASSUME NEW l, NEW v, Sound(l, v), NEW p \in DOMAIN v
    PROVE  /\ p \in Nat /\ v[p] \in Nat
           /\ HeapStart <= p /\ p + v[p] <= heap_end
           /\ \A q \in DOMAIN v : q # p => p + v[p] <= q \/ q + v[q] <= p
<1>1. /\ Tiled(H, l) /\ H \in Nat \ {0} /\ ChunkHeader \in Nat
      /\ l[1].at = HeapStart /\ End(H, Last(l)) = heap_end
      /\ v \in [DOMAIN v -> Nat]
    BY HeapAssumption DEF Sound, H
<1>2. ASSUME NEW q \in DOMAIN v
      PROVE  \E b \in InUse(l) : /\ q = Pointer(b) /\ b \in Piece
                                 /\ ChunkHeader + v[q] <= b.size /\ v[q] \in Nat
  <2>1. PICK b \in InUse(l) : q = Pointer(b)
    BY DEF Sound
  <2>2. b \in Piece
    BY <1>1, TiledType
  <2>3. ChunkHeader + v[q] <= b.size /\ v[q] \in Nat
    BY <1>1, <2>1 DEF Sound
  <2> QED
    BY <2>1, <2>2, <2>3
<1>3. PICK b \in InUse(l) : /\ p = Pointer(b) /\ b \in Piece
                            /\ ChunkHeader + v[p] <= b.size /\ v[p] \in Nat
    BY <1>2
<1>4. HeapStart <= b.at /\ End(H, b) <= heap_end
    BY <1>1, TiledInside
<1>5. b.at \in Nat /\ b.size \in Nat /\ heap_end \in Nat /\ HeapStart \in Nat
    BY <1>3, HeapAssumption DEF Piece, heap_end
<1>6. p = b.at + H + ChunkHeader /\ p \in Nat
    BY <1>1, <1>3, <1>5 DEF Pointer, H
<1>7. HeapStart <= p /\ p + v[p] <= heap_end
    BY <1>1, <1>3, <1>4, <1>5, <1>6 DEF End
<1>8. ASSUME NEW q \in DOMAIN v, q # p
      PROVE  p + v[p] <= q \/ q + v[q] <= p
  <2>1. PICK c \in InUse(l) : /\ q = Pointer(c) /\ c \in Piece
                              /\ ChunkHeader + v[q] <= c.size /\ v[q] \in Nat
    BY <1>2
  <2>2. End(H, b) <= c.at \/ End(H, c) <= b.at
    BY <1>1, <1>3, <1>8, <2>1, InUseApart
  <2>3. c.at \in Nat /\ c.size \in Nat /\ q = c.at + H + ChunkHeader
    BY <2>1 DEF Piece, Pointer, H
  <2> QED
    BY <1>1, <1>3, <1>5, <1>6, <2>1, <2>2, <2>3 DEF End
<1> QED
    BY <1>3, <1>6, <1>7, <1>8

-----------------------------------------------------------------------------
(***************************************************************************)
(* Taking a block, and releasing one.                                      *)
(***************************************************************************)
LEMMA AlignUpCovers ==
    ASSUME NEW n \in Nat
    PROVE  AlignUp(n) \in Nat /\ n <= AlignUp(n)
<1> DEFINE x == n + Alignment - 1
           q == x \div Alignment
<1>1. Alignment \in Nat \ {0} /\ x \in Nat
    BY HeapAssumption
<1> HIDE DEF x
<1>2. q \in Nat /\ x = q * Alignment + (x % Alignment) /\ x % Alignment \in 0..(Alignment - 1)
    BY <1>1
<1>3. q * Alignment \in Nat
    BY <1>1, <1>2
<1> HIDE DEF q
<1>4. n <= q * Alignment
    BY <1>1, <1>2, <1>3 DEF x
<1> QED
    BY <1>3, <1>4 DEF AlignUp, q, x

LEMMA SplitTiled ==
    ASSUME NEW b \in Piece, NEW size \in Nat, size <= b.size, NEW p, p = Split(b, size)
    PROVE  /\ Tiled(H, p) /\ NoPair(p)
           /\ p[1].at = b.at /\ End(H, Last(p)) = End(H, b)
           /\ \E u \in Piece : InUse(p) = {u} /\ u.at = b.at /\ size <= u.size
<1>1. /\ b.at \in Nat /\ b.size \in Nat /\ H \in Nat \ {0} /\ Alignment \in Nat \ {0}
    BY HeapAssumption DEF Piece, H
<1>2. CASE b.size < size + BlockHeader + Alignment
  <2> DEFINE u == [at |-> b.at, size |-> b.size, free |-> FALSE]
  <2>1. u \in Piece /\ p = <<u>> /\ u.at = b.at /\ u.size = b.size /\ ~u.free
    BY <1>1, <1>2 DEF Split, Block, Piece
  <2> HIDE DEF u
  <2>2. Single(H, u, p)
    BY <1>1, <2>1, SingleTiled
  <2> QED
    BY <2>1, <2>2 DEF Single, End
<1>3. CASE ~(b.size < size + BlockHeader + Alignment)
  <2> DEFINE u == [at |-> b.at, size |-> size, free |-> FALSE]
             w == [at |-> b.at + BlockHeader + size, size |-> b.size - size - BlockHeader,
                   free |-> TRUE]
  <2>1. p = <<u, w>>
    BY <1>3 DEF Split, Block
  <2>2. /\ u \in Piece /\ u.at = b.at /\ u.size = size /\ u.free = FALSE
    BY <1>1 DEF Piece
  <2>3. w.at = b.at + H + size /\ w.size = b.size - size - H /\ w.free = TRUE
    BY DEF H
  <2>4. w \in Piece
    BY <1>1, <1>3 DEF Piece, H
  <2> HIDE DEF u, w
  <2>5. /\ p \in Seq(Piece) /\ p # <<>> /\ Len(p) = 2 /\ DOMAIN p = 1..2
        /\ p[1] = u /\ p[2] = w
    BY <2>1, <2>2, <2>4
  <2>6. End(H, u) = w.at /\ End(H, w) = End(H, b)
    BY <1>1, <2>2, <2>3 DEF End
  <2>7. Tiled(H, p) /\ NoPair(p)
    BY <2>2, <2>5, <2>6 DEF Tiled, NoPair
  <2>8. InUse(p) = {u}
    BY <2>2, <2>3, <2>5 DEF InUse
  <2>9. size <= u.size
    BY <2>2
  <2> QED
    BY <2>2, <2>5, <2>6, <2>7, <2>8, <2>9 DEF Last
<1> QED
    BY <1>2, <1>3

\* The pointers in use when one more is placed.
WithPointer(v, p, n) == [q \in DOMAIN v \cup {p} |-> IF q = p THEN n ELSE v[q]]

LEMMA TakeOK ==
    ASSUME NEW l, NEW v, HeapOK(l, v), NEW n \in Nat,
           NEW i \in FirstFit(l, AlignUp(ChunkHeader + n))
    PROVE  /\ HeapOK(Take(l, i, AlignUp(ChunkHeader + n)), WithPointer(v, Pointer(l[i]), n))
           /\ Pointer(l[i]) \notin DOMAIN v
<1> DEFINE size == AlignUp(ChunkHeader + n)
           p == Split(l[i], size)
           r == Take(l, i, size)
           a == Pointer(l[i])
           w == WithPointer(v, a, n)
<1>1. /\ Tiled(H, l) /\ NoPair(l) /\ H \in Nat \ {0} /\ ChunkHeader \in Nat
      /\ DOMAIN l = 1..Len(l) /\ \A j \in 1..Len(l) : l[j] \in Piece
    BY HeapAssumption, TiledType DEF HeapOK, Sound, H
<1>2. size \in Nat /\ ChunkHeader + n <= size
    BY <1>1, AlignUpCovers
<1>3. i \in 1..Len(l) /\ l[i] \in Piece /\ l[i].free /\ size <= l[i].size
  <2>1. i \in DOMAIN l /\ l[i].free /\ l[i].size >= size
    BY DEF FirstFit
  <2>2. l[i] \in Piece
    BY <1>1, <2>1
  <2> HIDE DEF size
  <2> QED
    BY <1>1, <1>2, <2>1, <2>2 DEF Piece
<1> HIDE DEF size
<1>4. /\ Tiled(H, p) /\ NoPair(p)
      /\ p[1].at = l[i].at /\ End(H, Last(p)) = End(H, l[i])
      /\ \E u \in Piece : InUse(p) = {u} /\ u.at = l[i].at /\ size <= u.size
    BY <1>2, <1>3, SplitTiled
<1>5. PICK u \in Piece : InUse(p) = {u} /\ u.at = l[i].at /\ size <= u.size
    BY <1>4
<1>6. r = SubSeq(l, 1, i - 1) \o p \o SubSeq(l, i + 1, Len(l))
    BY DEF Take
<1> HIDE DEF p, r
<1>7. Replaced(H, l, i, p, r)
    BY <1>1, <1>3, <1>4, <1>6, ReplaceTiled
<1>8. InUse(l) = {l[j] : j \in {k \in 1..Len(l) : k # i /\ ~l[k].free}}
    BY <1>1, <1>3 DEF InUse
<1>9. /\ Tiled(H, r) /\ NoPair(r)
      /\ r[1].at = HeapStart /\ End(H, Last(r)) = heap_end
      /\ InUse(r) = InUse(l) \cup {u}
    BY <1>5, <1>7, <1>8 DEF Replaced, HeapOK, Sound
<1>10. Pointer(u) = a
    BY <1>5 DEF Pointer
<1>11. ASSUME NEW b \in InUse(l)
       PROVE  b.at # l[i].at /\ Pointer(b) # a /\ Pointer(b) \in DOMAIN v
  <2>1. PICK j \in 1..Len(l) : b = l[j] /\ j # i
    BY <1>8
  <2>2. b.at # l[i].at
    BY <1>1, <1>3, <2>1, TiledApart
  <2>3. b.at \in Nat /\ l[i].at \in Nat
    BY <1>1, <1>3, <2>1 DEF Piece
  <2>4. Pointer(b) # a
    BY <1>1, <2>2, <2>3 DEF Pointer, H
  <2>5. Pointer(b) \in DOMAIN v
    BY DEF HeapOK, Sound
  <2> QED
    BY <2>2, <2>4, <2>5
<1>12. a \notin DOMAIN v
  <2>1. DOMAIN v = {Pointer(b) : b \in InUse(l)}
    BY DEF HeapOK, Sound
  <2> HIDE DEF a
  <2> QED
    BY <2>1, <1>11
<1> HIDE DEF a
<1>13. /\ DOMAIN w = DOMAIN v \cup {a} /\ w[a] = n
       /\ \A q \in DOMAIN v : w[q] = v[q]
    BY <1>12 DEF WithPointer
<1>14. w \in [DOMAIN w -> Nat]
  <2>1. v \in [DOMAIN v -> Nat]
    BY DEF HeapOK, Sound
  <2> QED
    BY <2>1 DEF WithPointer
<1> HIDE DEF w
<1>15. {Pointer(b) : b \in InUse(r)} = DOMAIN w
  <2>1. {Pointer(b) : b \in InUse(l)} = DOMAIN v
    BY DEF HeapOK, Sound
  <2> QED
    BY <1>9, <1>10, <1>13, <2>1
<1>16. ASSUME NEW b \in InUse(r)
       PROVE  ChunkHeader + w[Pointer(b)] <= b.size
  <2>1. CASE b = u
    <3>1. u.size \in Nat
      BY DEF Piece
    <3> QED
      BY <2>1, <3>1, <1>1, <1>2, <1>5, <1>10, <1>13
  <2>2. CASE b # u
    <3>1. b \in InUse(l)
      BY <1>9, <2>2
    <3>2. w[Pointer(b)] = v[Pointer(b)]
      BY <3>1, <1>11, <1>13
    <3> QED
      BY <3>1, <3>2 DEF HeapOK, Sound
  <2> QED
    BY <2>1, <2>2
<1>17. HeapOK(r, w)
    BY <1>9, <1>14, <1>15, <1>16 DEF HeapOK, Sound
<1> QED
    BY <1>12, <1>17 DEF r, w, a, size

\* r is l with the block of the pointer p released.
LEMMA ReleasedSound ==
    ASSUME NEW l, NEW v, Sound(l, v), NEW p \in DOMAIN v, NEW r, Tiled(H, r),
           r[1].at = HeapStart, End(H, Last(r)) = heap_end,
           InUse(r) = {b \in InUse(l) : b.at # BlockOf(p)}
    PROVE  Sound(r, [q \in DOMAIN v \ {p} |-> v[q]])
<1> DEFINE a == BlockOf(p)
           w == [q \in DOMAIN v \ {p} |-> v[q]]
<1>1. /\ H \in Nat /\ ChunkHeader \in Nat
      /\ {Pointer(b) : b \in InUse(l)} = DOMAIN v
      /\ InUse(l) \subseteq Piece
    BY HeapAssumption, TiledType DEF Sound, H
<1>2. InUse(r) = {b \in InUse(l) : b.at # a}
    OBVIOUS
<1>3. ASSUME NEW b \in InUse(l)
      PROVE  b.at # a <=> Pointer(b) # p
  <2>1. b.at \in Nat
    BY <1>1 DEF Piece
  <2>2. p \in Nat
    BY PointersApart
  <2> QED
    BY <1>1, <2>1, <2>2 DEF BlockOf, Pointer, H
<1> HIDE DEF a
<1>4. DOMAIN w = DOMAIN v \ {p} /\ \A q \in DOMAIN v \ {p} : w[q] = v[q]
    OBVIOUS
<1>5. w \in [DOMAIN w -> Nat]
  <2>1. v \in [DOMAIN v -> Nat]
    BY DEF Sound
  <2> QED
    BY <2>1
<1> HIDE DEF w
<1>6. {Pointer(b) : b \in InUse(r)} = DOMAIN w
  <2>1. ASSUME NEW q
        PROVE  q \in {Pointer(b) : b \in InUse(r)} <=> q \in DOMAIN w
    BY <1>1, <1>2, <1>3, <1>4
  <2> QED
    BY <2>1
<1>7. ASSUME NEW b \in InUse(r)
      PROVE  ChunkHeader + w[Pointer(b)] <= b.size
  <2>1. b \in InUse(l) /\ Pointer(b) \in DOMAIN v \ {p}
    BY <1>1, <1>2, <1>3
  <2>2. w[Pointer(b)] = v[Pointer(b)]
    BY <2>1, <1>4
  <2> QED
    BY <2>1, <2>2 DEF Sound
<1>8. Sound(r, w)
    BY <1>5, <1>6, <1>7 DEF Sound
<1> QED
    BY <1>8 DEF w

LEMMA ReleaseOK ==
    ASSUME NEW l, NEW v, HeapOK(l, v), NEW p \in DOMAIN v
    PROVE  HeapOK(Release(l, BlockOf(p)), [q \in DOMAIN v \ {p} |-> v[q]])
<1> DEFINE a == BlockOf(p)
           t == [i \in DOMAIN l |->
                   IF l[i].at = a THEN [l[i] EXCEPT !.free = TRUE] ELSE l[i]]
           r == Merge(t)
<1>1. Sound(l, v) /\ Tiled(H, l) /\ H \in Nat
    BY HeapAssumption DEF HeapOK, Sound, H
<1>2. Release(l, a) = r
    BY DEF Release
<1>3. Freed(H, l, a, t)
  <2> HIDE DEF a
  <2> QED
    BY <1>1, FreeTiled
<1> HIDE DEF t
<1>4. Merged(H, t, r)
    BY <1>3, MergeMerges DEF Freed
<1> HIDE DEF r
<1>5. /\ Tiled(H, r) /\ NoPair(r)
      /\ r[1].at = HeapStart /\ End(H, Last(r)) = heap_end
      /\ InUse(r) = {b \in InUse(l) : b.at # a}
    BY <1>1, <1>3, <1>4 DEF Freed, Merged, Sound
<1>6. Sound(r, [q \in DOMAIN v \ {p} |-> v[q]])
    BY <1>1, <1>5, ReleasedSound
<1> QED
    BY <1>2, <1>5, <1>6 DEF HeapOK, a

-----------------------------------------------------------------------------
\* What a call finds that nobody overlaps with.
Settled == HeapOK(list, live)

LEMMA InitSettled == Init => Settled
<1> SUFFICES ASSUME Init
             PROVE  Settled
    OBVIOUS
<1> DEFINE b == [at |-> HeapStart, size |-> HeapSize - BlockHeader, free |-> TRUE]
<1>1. H \in Nat \ {0} /\ HeapStart \in Nat /\ HeapSize \in Nat /\ HeapSize > H
    BY HeapAssumption DEF H
<1>2. list = <<b>> /\ live = [p \in {} |-> 0]
    BY DEF Init, Block
<1>3. b \in Piece /\ b.at = HeapStart /\ b.size = HeapSize - H /\ b.free = TRUE
    BY <1>1 DEF Piece, H
<1> HIDE DEF b
<1>4. Single(H, b, list)
    BY <1>1, <1>2, <1>3, SingleTiled
<1>5. End(H, b) = heap_end
    BY <1>1, <1>3 DEF End, heap_end
<1>6. InUse(list) = {}
    BY <1>3, <1>4 DEF Single
<1>7. live \in [DOMAIN live -> Nat] /\ DOMAIN live = {}
    BY <1>2
<1> QED
    BY <1>3, <1>4, <1>5, <1>6, <1>7 DEF Settled, HeapOK, Sound, Single

LEMMA KmallocOK ==
    ASSUME Settled, NEW n \in Requests, Kmalloc(n)
    PROVE  Settled' /\ A!Alloc
<1>1. n \in Nat
    BY HeapAssumption
<1>2. PICK i \in FirstFit(list, AlignUp(ChunkHeader + n)) :
            /\ list' = Take(list, i, AlignUp(ChunkHeader + n))
            /\ live' = Placed(DOMAIN live, list[i], n)
    BY DEF Kmalloc
<1> DEFINE a == Pointer(list[i])
<1>3. live' = WithPointer(live, a, n)
    BY <1>2 DEF Placed, WithPointer
<1>4. HeapOK(list', live') /\ a \notin DOMAIN live
    BY <1>1, <1>2, <1>3, TakeOK DEF Settled
<1> HIDE DEF a
<1>5. DOMAIN live' = DOMAIN live \cup {a} /\ live'[a] = n /\ \A q \in DOMAIN live : live'[q] = live[q]
    BY <1>3, <1>4 DEF WithPointer
<1>6. /\ HeapStart <= a /\ a + live'[a] <= heap_end
      /\ \A q \in DOMAIN live : a + live'[a] <= q \/ q + live[q] <= a
  <2>1. a \in DOMAIN live'
    BY <1>5
  <2>2. /\ HeapStart <= a /\ a + live'[a] <= heap_end
        /\ \A q \in DOMAIN live' : q # a => a + live'[a] <= q \/ q + live'[q] <= a
    BY <1>4, <2>1, PointersApart DEF HeapOK
  <2> QED
    BY <1>4, <1>5, <2>2
<1>7. A!Alloc
  <2>1. a \in A!New
    BY <1>4, <1>5 DEF A!New
  <2>2. A!Fits(a, live'[a])
    BY <1>6 DEF A!Fits, heap_end
  <2>3. live' = [b \in DOMAIN live \cup {a} |-> IF b = a THEN live'[a] ELSE live[b]]
    BY <1>3, <1>5 DEF WithPointer
  <2> QED
    BY <2>1, <2>2, <2>3 DEF A!Alloc
<1> QED
    BY <1>4, <1>7 DEF Settled

LEMMA KfreeOK ==
    ASSUME Settled, NEW p \in DOMAIN live, Kfree(p)
    PROVE  Settled' /\ A!Free
<1>1. list' = Release(list, BlockOf(p)) /\ live' = [q \in DOMAIN live \ {p} |-> live[q]]
    BY DEF Kfree, Without
<1>2. HeapOK(list', live')
    BY <1>1, ReleaseOK DEF Settled
<1> QED
    BY <1>1, <1>2 DEF Settled, A!Free, A!Without, Without

LEMMA ReallocOK ==
    ASSUME Settled, NEW p \in DOMAIN live, NEW n \in Requests, Realloc(p, n)
    PROVE  Settled' /\ A!Move
<1>1. n \in Nat
    BY HeapAssumption
<1>2. n >= live[p]
    BY DEF Realloc
<1>3. PICK i \in FirstFit(list, AlignUp(ChunkHeader + n)) :
            /\ list' = Release(Take(list, i, AlignUp(ChunkHeader + n)), BlockOf(p))
            /\ live' = Placed(DOMAIN live \ {p}, list[i], n)
    BY DEF Realloc
<1> DEFINE a == Pointer(list[i])
           l == Take(list, i, AlignUp(ChunkHeader + n))
           w == WithPointer(live, a, n)
<1>4. HeapOK(l, w) /\ a \notin DOMAIN live
    BY <1>1, <1>3, TakeOK DEF Settled
<1>5. live' = [q \in (DOMAIN live \ {p}) \cup {a} |-> IF q = a THEN n ELSE live[q]]
    BY <1>3 DEF Placed
<1>6. list' = Release(l, BlockOf(p))
    BY <1>3
<1> HIDE DEF a, l
<1>7. /\ DOMAIN w = DOMAIN live \cup {a} /\ w[a] = n
      /\ \A q \in DOMAIN live : w[q] = live[q]
    BY <1>4 DEF WithPointer
<1>8. live' = [q \in DOMAIN w \ {p} |-> w[q]]
  <2>1. DOMAIN w \ {p} = (DOMAIN live \ {p}) \cup {a}
    BY <1>4, <1>7
  <2>2. \A q \in DOMAIN w \ {p} : w[q] = IF q = a THEN n ELSE live[q]
    BY <1>7
  <2> HIDE DEF w
  <2> QED
    BY <1>5, <2>1, <2>2
<1> HIDE DEF w
<1>9. HeapOK(list', live')
  <2>1. p \in DOMAIN w
    BY <1>7
  <2> QED
    BY <1>4, <1>6, <1>8, <2>1, ReleaseOK
<1>10. /\ DOMAIN live' = (DOMAIN live \ {p}) \cup {a} /\ live'[a] = n
    BY <1>5
<1>11. /\ HeapStart <= a /\ a + n <= heap_end
       /\ \A q \in DOMAIN live : a + n <= q \/ q + live[q] <= a
  <2>1. a \in DOMAIN w
    BY <1>7
  <2>2. /\ HeapStart <= a /\ a + w[a] <= heap_end
        /\ \A q \in DOMAIN w : q # a => a + w[a] <= q \/ q + w[q] <= a
    BY <1>4, <2>1, PointersApart DEF HeapOK
  <2> QED
    BY <1>4, <1>7, <2>2
<1>12. A!Move
  <2>1. a \in A!New
    BY <1>4, <1>10 DEF A!New
  <2>2. A!Fits(a, live'[a])
    BY <1>10, <1>11 DEF A!Fits, heap_end
  <2>3. live' = [c \in (DOMAIN live \ {p}) \cup {a} |-> IF c = a THEN live'[a] ELSE live[c]]
    BY <1>5, <1>10
  <2>4. live'[a] >= live[p]
    BY <1>2, <1>10
  <2> QED
    BY <2>1, <2>2, <2>3, <2>4 DEF A!Move
<1> QED
    BY <1>9, <1>12 DEF Settled

\* The calls that are one step: nothing changes for a reader, and if one is
\* inside, the calls overlap.
LEMMA CallIntact ==
    ASSUME Intact, Enter, ~overlapped', walk' = walk, Settled => Settled' /\ A!Next
    PROVE  Intact' /\ A!Next
<1>1. Walking = {} /\ Walking' = {}
    BY DEF Enter, Walking
<1>2. Settled' /\ A!Next
    BY <1>1 DEF Intact, Settled
<1> QED
    BY <1>1, <1>2 DEF Intact, Settled

LEMMA LineFreeOK ==
    ASSUME Intact, NEW r \in Readers, NEW p \in DOMAIN live, LineFree(r, p), ~overlapped'
    PROVE  Intact' /\ A!Free
<1>1. /\ Walking = {}
      /\ walk' = [walk EXCEPT ![r] = [step |-> "look", cur |-> HeapStart]]
      /\ live' = [q \in DOMAIN live \ {p} |-> live[q]]
      /\ list' = [i \in DOMAIN list |->
                    IF list[i].at = BlockOf(p) THEN [list[i] EXCEPT !.free = TRUE] ELSE list[i]]
    BY DEF LineFree, Enter, Goto, Without
<1>2. /\ walk' \in [Readers -> [step : Steps, cur : Nat]]
      /\ walk'[r].step = "look" /\ walk'[r].cur = HeapStart
      /\ \A q \in Readers \ {r} : walk'[q] = walk[q]
    BY <1>1, HeapAssumption DEF Intact, Steps
<1>3. Walking' = {r}
    BY <1>1, <1>2 DEF Walking
<1>4. Sound(list, live) /\ Tiled(H, list) /\ H \in Nat
    BY <1>1, HeapAssumption DEF Intact, HeapOK, Sound, H
<1>5. Freed(H, list, BlockOf(p), list')
    BY <1>1, <1>4, FreeTiled
<1>6. /\ Tiled(H, list') /\ list'[1].at = HeapStart /\ End(H, Last(list')) = heap_end
      /\ InUse(list') = {b \in InUse(list) : b.at # BlockOf(p)}
    BY <1>4, <1>5 DEF Freed, Sound
<1>7. Sound(list', live')
    BY <1>1, <1>4, <1>6, ReleasedSound
<1>8. (Sound(list, live))'
    BY <1>7 DEF Sound, heap_end, Pointer
<1>9. 1 \in 1..Len(list') /\ NoPairUpTo(list', 1)
    BY <1>4, <1>6, TiledType DEF NoPairUpTo
<1>10. WalkOK(r)'
    BY <1>2, <1>6, <1>8, <1>9 DEF WalkOK
<1>11. A!Free
    BY <1>1 DEF A!Free, A!Without
<1> QED
    BY <1>2, <1>3, <1>10, <1>11 DEF Intact

\* The reader that is inside moves on.
Moves(r, step, cur) ==
    /\ walk' = [walk EXCEPT ![r] = [step |-> step, cur |-> cur]]
    /\ live' = live

LEMMA ReaderMoves ==
    ASSUME Intact, NEW r \in Walking, NEW step \in Steps, NEW cur \in Nat, Moves(r, step, cur),
           step # "none" => WalkOK(r)', step = "none" => HeapOK(list, live)'
    PROVE  Intact'
<1>1. r \in Readers /\ walk \in [Readers -> [step : Steps, cur : Nat]]
    BY DEF Walking, Intact
<1>2. /\ walk' \in [Readers -> [step : Steps, cur : Nat]]
      /\ walk'[r].step = step
      /\ \A q \in Readers \ {r} : walk'[q] = walk[q]
    BY <1>1 DEF Moves
<1>3. Walking = {r}
    BY DEF Intact
<1>4. \A q \in Readers \ {r} : walk'[q].step = "none"
    BY <1>2, <1>3 DEF Walking
<1>5. CASE step = "none"
  <2>1. Walking' = {}
    BY <1>2, <1>4, <1>5 DEF Walking
  <2> QED
    BY <1>2, <1>5, <2>1 DEF Intact
<1>6. CASE step # "none"
  <2>1. Walking' = {r}
    BY <1>1, <1>2, <1>4, <1>6 DEF Walking
  <2> QED
    BY <1>2, <1>6, <2>1 DEF Intact
<1> QED
    BY <1>5, <1>6

\* The block the loop stands at is the one of its address.
LEMMA CursorAt ==
    ASSUME Intact, NEW r \in Readers, NEW step \in {"look", "unlink"}, NEW i \in Cursor(r, step)
    PROVE  /\ r \in Walking /\ walk[r].step = step
           /\ walk[r].cur = list[i].at /\ list[i].at \in Nat /\ i \in DOMAIN list
<1>1. i \in DOMAIN list /\ walk[r] = [step |-> step, cur |-> list[i].at]
    BY DEF Cursor
<1>2. walk[r].step = step /\ walk[r].cur = list[i].at
    BY <1>1
<1>3. walk[r].cur \in Nat
    BY DEF Intact
<1> QED
    BY <1>1, <1>2, <1>3 DEF Walking

\* In a list in order there is one block of each address.
LEMMA LookAt ==
    ASSUME Intact, NEW r \in Readers, NEW i \in Cursor(r, "look")
    PROVE  /\ Sound(list, live) /\ Tiled(H, list) /\ H \in Nat \ {0}
           /\ i \in 1..Len(list) /\ NoPairUpTo(list, i)
<1>1. r \in Walking /\ walk[r].step = "look" /\ walk[r].cur = list[i].at /\ i \in DOMAIN list
    BY CursorAt
<1>2. WalkOK(r)
    BY <1>1 DEF Intact
<1>3. PICK j \in 1..Len(list) : walk[r].cur = list[j].at /\ NoPairUpTo(list, j)
    BY <1>1, <1>2 DEF WalkOK
<1>4. Sound(list, live) /\ Tiled(H, list) /\ H \in Nat \ {0}
    BY <1>1, <1>2, HeapAssumption DEF WalkOK, Sound, H
<1>5. i \in 1..Len(list)
    BY <1>1, <1>4, TiledType
<1>6. i = j
    BY <1>1, <1>3, <1>4, <1>5, TiledApart
<1> QED
    BY <1>3, <1>4, <1>5, <1>6

LEMMA EnlargeOK ==
    ASSUME Intact, NEW r \in Readers, Enlarge(r)
    PROVE  Intact' /\ live' = live
<1>1. PICK i \in Cursor(r, "look") :
            /\ Joins(i)
            /\ list' = [list EXCEPT ![i].size = @ + BlockHeader + list[i + 1].size]
            /\ Goto(r, "unlink", list[i].at)
            /\ UNCHANGED <<live, overlapped>>
    BY DEF Enlarge
<1>2. r \in Walking /\ list[i].at \in Nat /\ Moves(r, "unlink", list[i].at)
    BY <1>1, CursorAt DEF Moves, Goto
<1>3. WalkOK(r)'
  <2> DEFINE rest == RemoveAt(list', i + 1)
  <2>1. /\ Sound(list, live) /\ Tiled(H, list) /\ H \in Nat \ {0}
        /\ i \in 1..Len(list) /\ NoPairUpTo(list, i)
    BY <1>1, LookAt
  <2>2. i \in 1..(Len(list) - 1) /\ list[i].free /\ list[i + 1].free
    BY <1>1, <2>1, TiledType DEF Joins
  <2>3. Enlarged(H, list, i, list')
    <3>1. list' = [list EXCEPT ![i].size = @ + H + list[i + 1].size]
      BY <1>1 DEF H
    <3> QED
      BY <2>1, <2>2, <3>1, EnlargedBlock
  <2>4. /\ list' \in Seq(Piece) /\ Len(list') = Len(list)
        /\ \A j \in 1..Len(list) : list'[j].at = list[j].at
    BY <2>3 DEF Enlarged
  <2>5. BlockDropped(Piece, list', i, rest)
    <3>1. rest = SubSeq(list', 1, i) \o SubSeq(list', i + 2, Len(list'))
      <4>1. (i + 1) - 1 = i /\ (i + 1) + 1 = i + 2
        BY <2>2
      <4> QED
        BY <4>1 DEF RemoveAt
    <3> HIDE DEF rest
    <3> QED
      BY <2>2, <2>4, <3>1, RemovedAt
  <2> HIDE DEF rest
  <2>6. OneOfTwo(H, list, i, rest)
    BY <2>1, <2>2, <2>3, <2>5, NeighboursTiled
  <2>7. Sound(rest, live)
    BY <2>1, <2>6 DEF Sound, OneOfTwo
  <2>8. \A j \in 1..Len(list) : list'[j].at = list[i].at => j = i
    BY <2>1, <2>4, TiledApart
  <2>9. walk'[r].step = "unlink" /\ walk'[r].cur = list[i].at
    <3>1. walk' = [walk EXCEPT ![r] = [step |-> "unlink", cur |-> list[i].at]]
      BY <1>2 DEF Moves
    <3>2. walk'[r] = [step |-> "unlink", cur |-> list[i].at]
      BY <3>1 DEF Intact
    <3> QED
      BY <3>2
  <2>10. (Sound(RemoveAt(list, i + 1), live))'
    BY <1>2, <2>7 DEF rest, Sound, Moves, heap_end, Pointer
  <2>11. /\ rest[i].at = list'[i].at /\ NoPairUpTo(rest, i) /\ Len(rest) = Len(list') - 1
         /\ i \in 1..(Len(list') - 1) /\ walk'[r].cur = list'[i].at
         /\ \A j \in 1..Len(list') : list'[j].at = list'[i].at => j = i
    BY <2>2, <2>4, <2>6, <2>8, <2>9 DEF OneOfTwo
  <2> QED
    BY <2>9, <2>10, <2>11 DEF WalkOK, rest
<1> QED
    BY <1>1, <1>2, <1>3, ReaderMoves DEF Steps

LEMMA UnlinkOK ==
    ASSUME Intact, NEW r \in Readers, Unlink(r)
    PROVE  Intact' /\ live' = live
<1>1. PICK i \in Cursor(r, "unlink") :
            /\ i < Len(list)
            /\ list' = RemoveAt(list, i + 1)
            /\ Goto(r, "look", list[i].at)
            /\ UNCHANGED <<live, overlapped>>
    BY DEF Unlink
<1>2. /\ r \in Walking /\ walk[r].step = "unlink" /\ walk[r].cur = list[i].at
      /\ list[i].at \in Nat /\ i \in DOMAIN list
      /\ Moves(r, "look", list[i].at)
    BY <1>1, CursorAt DEF Moves, Goto
<1>3. WalkOK(r)'
  <2>1. WalkOK(r)
    BY <1>2 DEF Intact
  <2>2. PICK k \in 1..(Len(list) - 1) :
            /\ walk[r].cur = list[k].at
            /\ \A j \in 1..Len(list) : list[j].at = list[k].at => j = k
            /\ Sound(RemoveAt(list, k + 1), live)
            /\ Len(RemoveAt(list, k + 1)) = Len(list) - 1
            /\ RemoveAt(list, k + 1)[k].at = list[k].at /\ NoPairUpTo(RemoveAt(list, k + 1), k)
    BY <1>2, <2>1 DEF WalkOK
  <2>3. i \in 1..Len(list)
    <3>1. i \in Nat \ {0} /\ Len(list) \in Nat
      BY <1>2, <2>2
    <3> QED
      BY <1>1, <3>1
  <2>4. i = k
    BY <1>2, <2>2, <2>3
  <2>5. /\ Sound(list', live) /\ Len(list') = Len(list) - 1
        /\ list'[i].at = list[i].at /\ NoPairUpTo(list', i)
        /\ i \in 1..Len(list')
    BY <1>1, <2>2, <2>4
  <2>6. (Sound(list, live))'
    BY <1>1, <2>5 DEF Sound, heap_end, Pointer
  <2>7. walk'[r].step = "look" /\ walk'[r].cur = list[i].at
    <3>1. walk' = [walk EXCEPT ![r] = [step |-> "look", cur |-> list[i].at]]
      BY <1>2 DEF Moves
    <3>2. walk'[r] = [step |-> "look", cur |-> list[i].at]
      BY <3>1 DEF Intact
    <3> QED
      BY <3>2
  <2> QED
    BY <2>5, <2>6, <2>7 DEF WalkOK
<1> QED
    BY <1>1, <1>2, <1>3, ReaderMoves DEF Steps

LEMMA AdvanceOK ==
    ASSUME Intact, NEW r \in Readers, Advance(r)
    PROVE  Intact' /\ live' = live
<1>1. PICK i \in Cursor(r, "look") :
            /\ i < Len(list) /\ ~Joins(i)
            /\ Goto(r, "look", list[i + 1].at)
            /\ UNCHANGED <<list, live, overlapped>>
    BY DEF Advance
<1>2. /\ r \in Walking /\ NoPairUpTo(list, i) /\ Sound(list, live) /\ Tiled(H, list)
      /\ i \in 1..Len(list)
    BY <1>1, CursorAt, LookAt
<1>3. i + 1 \in 1..Len(list) /\ i \in 1..(Len(list) - 1)
    BY <1>1, <1>2, HeapAssumption, TiledType DEF H
<1>4. list[i + 1].at \in Nat
    BY <1>2, <1>3, HeapAssumption, TiledType DEF Piece, H
<1>5. NoPairUpTo(list, i + 1)
  <2>1. list[i].at + BlockHeader + list[i].size = list[i + 1].at
    BY <1>2, <1>3 DEF Tiled, End, H
  <2>2. ~(list[i].free /\ list[i + 1].free)
    BY <1>1, <2>1 DEF Joins
  <2> QED
    BY <1>2, <1>3, <2>2 DEF NoPairUpTo
<1>6. walk'[r].step = "look" /\ walk'[r].cur = list'[i + 1].at
  <2>1. walk'[r] = [step |-> "look", cur |-> list[i + 1].at]
    BY <1>1, <1>2 DEF Goto, Intact, Walking
  <2> QED
    BY <1>1, <2>1
<1>7. (Sound(list, live))'
    BY <1>1, <1>2 DEF Sound, heap_end, Pointer
<1>8. WalkOK(r)'
    BY <1>1, <1>3, <1>5, <1>6, <1>7 DEF WalkOK
<1> QED
    BY <1>1, <1>2, <1>4, <1>8, ReaderMoves DEF Steps, Moves, Goto

LEMMA FreeDoneOK ==
    ASSUME Intact, NEW r \in Readers, FreeDone(r)
    PROVE  Intact' /\ live' = live
<1>1. /\ Len(list) \in Cursor(r, "look")
      /\ list' = list /\ Moves(r, "none", 0)
    BY DEF FreeDone, Moves, Goto
<1>2. r \in Walking /\ NoPairUpTo(list, Len(list)) /\ Sound(list, live)
    BY <1>1, CursorAt, LookAt
<1>3. (HeapOK(list, live))'
    BY <1>1, <1>2 DEF HeapOK, Sound, NoPair, NoPairUpTo, Moves, heap_end, Pointer
<1> QED
    BY <1>1, <1>2, <1>3, ReaderMoves DEF Steps, Moves

LEMMA StepHeapInv ==
    ASSUME HeapInv, [Next]_vars
    PROVE  HeapInv' /\ (overlapped' \/ A!Next)
<1>1. overlapped' \in BOOLEAN /\ (overlapped => overlapped')
    BY DEF HeapInv, Next, Kmalloc, Kfree, Realloc, LineFree, WalkStep, Enlarge, Unlink, Advance,
           FreeDone, Enter, vars
<1>2. SUFFICES ASSUME ~overlapped'
               PROVE  Intact' /\ A!Next
    BY <1>1 DEF HeapInv
<1>3. Intact
    BY <1>1, <1>2 DEF HeapInv
<1>4. HeapStart' = HeapStart /\ heap_end' = heap_end /\ heap_end >= heap_end
    BY HeapAssumption DEF heap_end
<1>5. ASSUME NEW n \in Requests, Kmalloc(n)
      PROVE  Intact' /\ A!Next
  <2>1. Enter /\ walk' = walk
    BY <1>5 DEF Kmalloc
  <2> QED
    BY <1>2, <1>3, <1>4, <1>5, <2>1, CallIntact, KmallocOK DEF A!Next
<1>6. ASSUME NEW p \in DOMAIN live, Kfree(p)
      PROVE  Intact' /\ A!Next
  <2>1. Enter /\ walk' = walk
    BY <1>6 DEF Kfree
  <2> QED
    BY <1>2, <1>3, <1>4, <1>6, <2>1, CallIntact, KfreeOK DEF A!Next
<1>7. ASSUME NEW p \in DOMAIN live, NEW n \in Requests, Realloc(p, n)
      PROVE  Intact' /\ A!Next
  <2>1. Enter /\ walk' = walk
    BY <1>7 DEF Realloc
  <2> QED
    BY <1>2, <1>3, <1>4, <1>7, <2>1, CallIntact, ReallocOK DEF A!Next
<1>8. ASSUME NEW r \in Readers, NEW p \in DOMAIN live, LineFree(r, p)
      PROVE  Intact' /\ A!Next
    BY <1>2, <1>3, <1>4, <1>8, LineFreeOK DEF A!Next
<1>9. ASSUME NEW r \in Readers, Enlarge(r) \/ Unlink(r) \/ Advance(r) \/ FreeDone(r)
      PROVE  Intact' /\ A!Next
    BY <1>3, <1>4, <1>9, EnlargeOK, UnlinkOK, AdvanceOK, FreeDoneOK DEF A!Next
<1>10. CASE UNCHANGED vars
  <2>1. list' = list /\ live' = live /\ walk' = walk
    BY <1>10 DEF vars
  <2>2. Intact'
    BY <1>3, <2>1 DEF Intact, HeapOK, Sound, WalkOK, Walking, heap_end, Pointer
  <2> QED
    BY <1>4, <2>1, <2>2 DEF A!Next
<1> QED
    BY <1>5, <1>6, <1>7, <1>8, <1>9, <1>10 DEF Next, WalkStep

LEMMA InitHeapInv == Init => HeapInv
<1> SUFFICES ASSUME Init
             PROVE  HeapInv
    OBVIOUS
<1>1. walk = [r \in Readers |-> [step |-> "none", cur |-> 0]] /\ overlapped = FALSE
    BY DEF Init
<1>2. walk \in [Readers -> [step : Steps, cur : Nat]] /\ Walking = {}
    BY <1>1 DEF Walking, Steps
<1> QED
    BY <1>1, <1>2, InitSettled DEF HeapInv, Intact, Settled

\* As long as no calls have overlapped, a reader that is inside is there alone,
\* and the list is in order but for the block that it joins.
THEOREM HeapInvariant == Spec => []HeapInv
<1>1. HeapInv /\ [Next]_vars => HeapInv'
    BY StepHeapInv
<1> QED
    BY <1>1, InitHeapInv, PTL DEF Spec

(***************************************************************************)
(* The blocks tile the heap, and those in use are those of the live        *)
(* pointers, each long enough for its request: after every call and at     *)
(* every turn of a reader's loop but between its two stores, as long as no *)
(* call has come in while a reader was inside.                             *)
(***************************************************************************)
THEOREM HeapTiled == Spec => []BlocksTile
<1>1. ASSUME Sound(list, live)
      PROVE  Tiles
  <2>1. /\ Tiled(H, list) /\ H \in Nat
        /\ {list[i] : i \in {j \in DOMAIN list : ~list[j].free}} = InUse(list)
    BY <1>1, HeapAssumption DEF Sound, InUse, H
  <2>2. {Pointer(list[i]) : i \in {j \in DOMAIN list : ~list[j].free}}
            = {Pointer(b) : b \in InUse(list)}
    BY DEF InUse
  <2>3. ASSUME NEW i \in DOMAIN list, ~list[i].free
        PROVE  Pointer(list[i]) + live[Pointer(list[i])] <= BlockEnd(list[i])
    <3>1. list[i] \in InUse(list) /\ list[i] \in Piece
      BY <2>1, <2>3, TiledType DEF InUse
    <3>2. Pointer(list[i]) \in DOMAIN live /\ live \in [DOMAIN live -> Nat]
          /\ ChunkHeader + live[Pointer(list[i])] <= list[i].size
      BY <1>1, <3>1 DEF Sound
    <3>3. live[Pointer(list[i])] \in Nat
      BY <3>2
    <3> QED
      BY <3>1, <3>2, <3>3, HeapAssumption DEF Pointer, BlockEnd, Piece
  <2> QED
    BY <1>1, <2>1, <2>2, <2>3 DEF Sound, Tiled, Tiles, BlockEnd, End, H
<1>2. HeapInv => BlocksTile
  <2> SUFFICES ASSUME HeapInv, ~overlapped, \A r \in Readers : walk[r].step # "unlink"
               PROVE  Sound(list, live)
    BY <1>1 DEF BlocksTile
  <2>1. Intact
    BY DEF HeapInv
  <2>2. CASE Walking = {}
    BY <2>1, <2>2 DEF Intact, HeapOK
  <2>3. ASSUME NEW r \in Walking
        PROVE  Sound(list, live)
    BY <2>1 DEF Intact, WalkOK, Walking
  <2> QED
    BY <2>2, <2>3
<1> QED
    BY <1>2, HeapInvariant, PTL

(***************************************************************************)
(* No order of releases leaves two free blocks side by side, the releases  *)
(* of readers included, unless a call comes in while a reader is inside.   *)
(***************************************************************************)
THEOREM HeapMerged == Spec => []FullyMerged
<1>1. HeapInv => FullyMerged
    BY DEF HeapInv, Intact, HeapOK, NoPair, FullyMerged
<1> QED
    BY <1>1, HeapInvariant, PTL

(***************************************************************************)
(* kmalloc and realloc never hand out bytes that are in use: the free list *)
(* implements Allocator, up to the first call that comes in while a reader *)
(* is inside.                                                              *)
(***************************************************************************)
THEOREM HeapAllocates == Spec => ImplementsAllocator
<1>1. Init => A!Init
    BY HeapAssumption DEF Init, A!Init, heap_end
<1>2. HeapInv /\ [Next]_vars => [overlapped' \/ A!Next]_A!vars
    BY StepHeapInv
<1> QED
    BY <1>1, <1>2, HeapInvariant, PTL DEF Spec, ImplementsAllocator

-----------------------------------------------------------------------------
(***************************************************************************)
(* CallMemory: the point a call has reached tells what it holds.           *)
(***************************************************************************)
Points ==
    {"user", "args", "open", "size", "read", "validate", "load", "push", "built", "unbuilt",
     "swap", "stack", "fork_stack", "clone", "io"}

HeldAt(p) ==
    CASE p = "user" -> {}
      [] p \in {"args", "open"} -> {"ka"}
      [] p = "size" -> {"ka", "file"}
      [] p = "read" -> {"ka", "file", "data"}
      [] p \in {"validate", "unbuilt"} -> {"ka", "data"}
      [] p \in {"load", "built"} -> {"ka", "data", "image"}
      [] p = "push" -> {"ka", "data", "image", "user_addrs"}
      [] p = "swap" -> {"ka", "image"}
      [] p = "stack" -> {"ka", "data", "image", "task"}
      [] p = "fork_stack" -> {"task"}
      [] p = "clone" -> {"task", "kstack"}
      [] p = "io" -> {"tmpbuf"}

\* The executable is open between load_file's vfs_open and its vfs_close.
Loading(p) == p \in {"size", "read"}

BlocksHeld == ~broken /\ (at = "panic" \/ (at \in Points /\ held = HeldAt(at)))

SlotsHeld ==
    IF Loading(at) THEN fd \notin opened /\ table = opened \cup {fd}
    ELSE fd = 0 /\ table = opened

CallInv == BlocksHeld /\ SlotsHeld

\* A step that takes and gives what its two points say.
Balanced(from, uses, frees, gives, takes, to) ==
    /\ from \in Points /\ to \in Points
    /\ (uses \cup frees \cup gives) \subseteq HeldAt(from)
    /\ HeldAt(from) \cap takes = {}
    /\ HeldAt(to) = (HeldAt(from) \ (frees \cup gives)) \cup takes

LEMMA BalancedStep ==
    ASSUME BlocksHeld, NEW from, NEW uses, NEW frees, NEW gives, NEW takes, NEW to,
           Balanced(from, uses, frees, gives, takes, to),
           C!Step(from, uses, frees, gives, takes, to)
    PROVE  BlocksHeld'
<1>1. from # "panic" /\ at = from /\ held = HeldAt(from)
    BY DEF BlocksHeld, Balanced, C!Step, Points
<1>2. at' = to /\ held' = HeldAt(to)
    BY <1>1 DEF Balanced, C!Step
<1>3. (uses \cup frees \cup gives) \subseteq held /\ held \cap takes = {} /\ ~broken
    BY <1>1 DEF BlocksHeld, Balanced
<1>4. ~broken'
    BY <1>3 DEF C!Step
<1> QED
    BY <1>2, <1>4 DEF BlocksHeld, Balanced

\* The steps that leave the descriptors alone.
LEMMA QuietCall ==
    ASSUME CallInv, UNCHANGED <<table, fd, opened>>, BlocksHeld', Loading(at') <=> Loading(at)
    PROVE  CallInv'
BY DEF CallInv, SlotsHeld

LEMMA CopyArgsHolds ==
    ASSUME CallInv, C!CopyArgs
    PROVE  CallInv'
<1> USE DEF CallInv
<1>1. Balanced("args", {"ka"}, {"ka"}, {}, {}, "user")
    BY DEF Balanced, HeldAt, Points
<1>2. Balanced("args", {"ka"}, {}, {}, {}, "open")
    BY DEF Balanced, HeldAt, Points
<1>3. ASSUME C!Step("args", {"ka"}, {"ka"}, {}, {}, "user")
      PROVE  BlocksHeld' /\ (Loading(at') <=> Loading(at))
    BY <1>1, <1>3, BalancedStep DEF C!Step, Loading
<1>4. ASSUME C!Step("args", {"ka"}, {}, {}, {}, "open")
      PROVE  BlocksHeld' /\ (Loading(at') <=> Loading(at))
    BY <1>2, <1>4, BalancedStep DEF C!Step, Loading
<1>5. BlocksHeld' /\ (Loading(at') <=> Loading(at))
    BY <1>3, <1>4 DEF C!CopyArgs
<1>6. UNCHANGED <<table, fd, opened>>
    BY DEF C!CopyArgs, C!Descriptors
<1> QED
    BY <1>5, <1>6, QuietCall

LEMMA BuildBeginHolds ==
    ASSUME CallInv, C!BuildBegin
    PROVE  CallInv'
<1> USE DEF CallInv
<1>1. Balanced("validate", {"data"}, {}, {}, {}, "unbuilt")
    BY DEF Balanced, HeldAt, Points
<1>2. Balanced("validate", {"data"}, {}, {}, {"image"}, "load")
    BY DEF Balanced, HeldAt, Points
<1>3. ASSUME C!Step("validate", {"data"}, {}, {}, {}, "unbuilt")
      PROVE  BlocksHeld' /\ (Loading(at') <=> Loading(at))
    BY <1>1, <1>3, BalancedStep DEF C!Step, Loading
<1>4. ASSUME C!Step("validate", {"data"}, {}, {}, {"image"}, "load")
      PROVE  BlocksHeld' /\ (Loading(at') <=> Loading(at))
    BY <1>2, <1>4, BalancedStep DEF C!Step, Loading
<1>5. BlocksHeld' /\ (Loading(at') <=> Loading(at))
    BY <1>3, <1>4 DEF C!BuildBegin
<1>6. UNCHANGED <<table, fd, opened>>
    BY DEF C!BuildBegin, C!Descriptors
<1> QED
    BY <1>5, <1>6, QuietCall

LEMMA BuildLoadHolds ==
    ASSUME CallInv, C!BuildLoad
    PROVE  CallInv'
<1> USE DEF CallInv
<1>1. Balanced("load", {"data", "image"}, {"image"}, {}, {}, "unbuilt")
    BY DEF Balanced, HeldAt, Points
<1>2. Balanced("load", {"data", "image"}, {}, {}, {"user_addrs"}, "push")
    BY DEF Balanced, HeldAt, Points
<1>3. ASSUME C!Step("load", {"data", "image"}, {"image"}, {}, {}, "unbuilt")
      PROVE  BlocksHeld' /\ (Loading(at') <=> Loading(at))
    BY <1>1, <1>3, BalancedStep DEF C!Step, Loading
<1>4. ASSUME C!Step("load", {"data", "image"}, {}, {}, {"user_addrs"}, "push")
      PROVE  BlocksHeld' /\ (Loading(at') <=> Loading(at))
    BY <1>2, <1>4, BalancedStep DEF C!Step, Loading
<1>5. BlocksHeld' /\ (Loading(at') <=> Loading(at))
    BY <1>3, <1>4 DEF C!BuildLoad
<1>6. UNCHANGED <<table, fd, opened>>
    BY DEF C!BuildLoad, C!Descriptors
<1> QED
    BY <1>5, <1>6, QuietCall

LEMMA BuildStackHolds ==
    ASSUME CallInv, C!BuildStack
    PROVE  CallInv'
<1> USE DEF CallInv
<1>1. Balanced("push", {"ka", "user_addrs", "image"}, {"user_addrs", "image"}, {}, {}, "unbuilt")
    BY DEF Balanced, HeldAt, Points
<1>2. Balanced("push", {"ka", "data", "user_addrs", "image"}, {"user_addrs"}, {}, {}, "built")
    BY DEF Balanced, HeldAt, Points
<1>3. ASSUME C!Step("push", {"ka", "user_addrs", "image"}, {"user_addrs", "image"}, {}, {}, "unbuilt")
      PROVE  BlocksHeld' /\ (Loading(at') <=> Loading(at))
    BY <1>1, <1>3, BalancedStep DEF C!Step, Loading
<1>4. ASSUME C!Step("push", {"ka", "data", "user_addrs", "image"}, {"user_addrs"}, {}, {}, "built")
      PROVE  BlocksHeld' /\ (Loading(at') <=> Loading(at))
    BY <1>2, <1>4, BalancedStep DEF C!Step, Loading
<1>5. BlocksHeld' /\ (Loading(at') <=> Loading(at))
    BY <1>3, <1>4 DEF C!BuildStack
<1>6. UNCHANGED <<table, fd, opened>>
    BY DEF C!BuildStack, C!Descriptors
<1> QED
    BY <1>5, <1>6, QuietCall

LEMMA UnbuiltHolds ==
    ASSUME CallInv, C!Unbuilt
    PROVE  CallInv'
<1> USE DEF CallInv
<1>1. Balanced("unbuilt", {}, {"data", "ka"}, {}, {}, "user")
    BY DEF Balanced, HeldAt, Points
<1>2. ASSUME C!Step("unbuilt", {}, {"data", "ka"}, {}, {}, "user")
      PROVE  BlocksHeld' /\ (Loading(at') <=> Loading(at))
    BY <1>1, <1>2, BalancedStep DEF C!Step, Loading
<1>3. BlocksHeld' /\ (Loading(at') <=> Loading(at))
    BY <1>2 DEF C!Unbuilt
<1>4. UNCHANGED <<table, fd, opened>>
    BY DEF C!Unbuilt, C!Descriptors
<1> QED
    BY <1>3, <1>4, QuietCall

LEMMA ExecHolds ==
    ASSUME CallInv, C!Exec
    PROVE  CallInv'
<1> USE DEF CallInv
<1>1. Balanced("built", {}, {"data"}, {}, {}, "swap")
    BY DEF Balanced, HeldAt, Points
<1>2. Balanced("swap", {"ka"}, {"ka"}, {"image"}, {}, "user")
    BY DEF Balanced, HeldAt, Points
<1>3. ASSUME C!Step("built", {}, {"data"}, {}, {}, "swap")
      PROVE  BlocksHeld' /\ (Loading(at') <=> Loading(at))
    BY <1>1, <1>3, BalancedStep DEF C!Step, Loading
<1>4. ASSUME C!Step("swap", {"ka"}, {"ka"}, {"image"}, {}, "user")
      PROVE  BlocksHeld' /\ (Loading(at') <=> Loading(at))
    BY <1>2, <1>4, BalancedStep DEF C!Step, Loading
<1>5. BlocksHeld' /\ (Loading(at') <=> Loading(at))
    BY <1>3, <1>4 DEF C!Exec
<1>6. UNCHANGED <<table, fd, opened>>
    BY DEF C!Exec, C!Descriptors
<1> QED
    BY <1>5, <1>6, QuietCall

LEMMA SpawnHolds ==
    ASSUME CallInv, C!Spawn
    PROVE  CallInv'
<1> USE DEF CallInv
<1>1. Balanced("built", {}, {"image", "data", "ka"}, {}, {}, "user")
    BY DEF Balanced, HeldAt, Points
<1>2. Balanced("built", {}, {}, {}, {"task"}, "stack")
    BY DEF Balanced, HeldAt, Points
<1>3. Balanced("stack", {}, {"task", "image", "data", "ka"}, {}, {}, "user")
    BY DEF Balanced, HeldAt, Points
<1>4. Balanced("stack", {"ka"}, {"data", "ka"}, {"task", "image"}, {}, "user")
    BY DEF Balanced, HeldAt, Points
<1>5. ASSUME C!Step("built", {}, {"image", "data", "ka"}, {}, {}, "user")
      PROVE  BlocksHeld' /\ (Loading(at') <=> Loading(at))
    BY <1>1, <1>5, BalancedStep DEF C!Step, Loading
<1>6. ASSUME C!Step("built", {}, {}, {}, {"task"}, "stack")
      PROVE  BlocksHeld' /\ (Loading(at') <=> Loading(at))
    BY <1>2, <1>6, BalancedStep DEF C!Step, Loading
<1>7. ASSUME C!Step("stack", {}, {"task", "image", "data", "ka"}, {}, {}, "user")
      PROVE  BlocksHeld' /\ (Loading(at') <=> Loading(at))
    BY <1>3, <1>7, BalancedStep DEF C!Step, Loading
<1>8. ASSUME C!Step("stack", {"ka"}, {"data", "ka"}, {"task", "image"}, {}, "user")
      PROVE  BlocksHeld' /\ (Loading(at') <=> Loading(at))
    BY <1>4, <1>8, BalancedStep DEF C!Step, Loading
<1>9. BlocksHeld' /\ (Loading(at') <=> Loading(at))
    BY <1>5, <1>6, <1>7, <1>8 DEF C!Spawn
<1>10. UNCHANGED <<table, fd, opened>>
    BY DEF C!Spawn, C!Descriptors
<1> QED
    BY <1>9, <1>10, QuietCall

LEMMA ForkHolds ==
    ASSUME CallInv, C!Fork
    PROVE  CallInv'
<1> USE DEF CallInv
<1>1. Balanced("user", {}, {}, {}, {"task"}, "fork_stack")
    BY DEF Balanced, HeldAt, Points
<1>2. Balanced("fork_stack", {}, {"task"}, {}, {}, "user")
    BY DEF Balanced, HeldAt, Points
<1>3. Balanced("fork_stack", {"task"}, {}, {}, {"kstack"}, "clone")
    BY DEF Balanced, HeldAt, Points
<1>4. Balanced("clone", {"task"}, {"kstack", "task"}, {}, {}, "user")
    BY DEF Balanced, HeldAt, Points
<1>5. Balanced("clone", {"task"}, {}, {"task", "kstack"}, {}, "user")
    BY DEF Balanced, HeldAt, Points
<1>6. ASSUME C!Step("user", {}, {}, {}, {"task"}, "fork_stack")
      PROVE  BlocksHeld' /\ (Loading(at') <=> Loading(at))
    BY <1>1, <1>6, BalancedStep DEF C!Step, Loading
<1>7. ASSUME C!Step("fork_stack", {}, {"task"}, {}, {}, "user")
      PROVE  BlocksHeld' /\ (Loading(at') <=> Loading(at))
    BY <1>2, <1>7, BalancedStep DEF C!Step, Loading
<1>8. ASSUME C!Step("fork_stack", {"task"}, {}, {}, {"kstack"}, "clone")
      PROVE  BlocksHeld' /\ (Loading(at') <=> Loading(at))
    BY <1>3, <1>8, BalancedStep DEF C!Step, Loading
<1>9. ASSUME C!Step("clone", {"task"}, {"kstack", "task"}, {}, {}, "user")
      PROVE  BlocksHeld' /\ (Loading(at') <=> Loading(at))
    BY <1>4, <1>9, BalancedStep DEF C!Step, Loading
<1>10. ASSUME C!Step("clone", {"task"}, {}, {"task", "kstack"}, {}, "user")
      PROVE  BlocksHeld' /\ (Loading(at') <=> Loading(at))
    BY <1>5, <1>10, BalancedStep DEF C!Step, Loading
<1>11. BlocksHeld' /\ (Loading(at') <=> Loading(at))
    BY <1>6, <1>7, <1>8, <1>9, <1>10 DEF C!Fork
<1>12. UNCHANGED <<table, fd, opened>>
    BY DEF C!Fork, C!Descriptors
<1> QED
    BY <1>11, <1>12, QuietCall

LEMMA ReadWriteHolds ==
    ASSUME CallInv, C!ReadWrite
    PROVE  CallInv'
<1> USE DEF CallInv
<1>1. Balanced("user", {}, {}, {}, {"tmpbuf"}, "io")
    BY DEF Balanced, HeldAt, Points
<1>2. Balanced("io", {"tmpbuf"}, {"tmpbuf"}, {}, {}, "user")
    BY DEF Balanced, HeldAt, Points
<1>3. ASSUME C!Step("user", {}, {}, {}, {"tmpbuf"}, "io")
      PROVE  BlocksHeld' /\ (Loading(at') <=> Loading(at))
    BY <1>1, <1>3, BalancedStep DEF C!Step, Loading
<1>4. ASSUME C!Step("io", {"tmpbuf"}, {"tmpbuf"}, {}, {}, "user")
      PROVE  BlocksHeld' /\ (Loading(at') <=> Loading(at))
    BY <1>2, <1>4, BalancedStep DEF C!Step, Loading
<1>5. BlocksHeld' /\ (Loading(at') <=> Loading(at))
    BY <1>3, <1>4 DEF C!ReadWrite
<1>6. UNCHANGED <<table, fd, opened>>
    BY DEF C!ReadWrite, C!Descriptors
<1> QED
    BY <1>5, <1>6, QuietCall

LEMMA BeginExecHolds ==
    ASSUME CallInv, NEW c, C!BeginExec(c)
    PROVE  CallInv'
<1>1. Balanced("user", {}, {}, {}, {"ka"}, "args")
    BY DEF Balanced, HeldAt, Points
<1>2. BlocksHeld' /\ (Loading(at') <=> Loading(at))
    BY <1>1, BalancedStep DEF CallInv, C!BeginExec, C!Step, Loading
<1> QED
    BY <1>2, QuietCall DEF C!BeginExec, C!Descriptors

LEMMA LoadOpenHolds ==
    ASSUME CallInv, C!LoadOpen
    PROVE  CallInv'
<1>1. /\ Balanced("open", {"ka"}, {"ka"}, {}, {}, "user")
      /\ Balanced("open", {"ka"}, {}, {}, {"file"}, "size")
    BY DEF Balanced, HeldAt, Points
<1>2. CASE C!LoadFails("open", {"ka"}, {}) /\ UNCHANGED C!Descriptors
  <2>1. C!Step("open", {"ka"}, {"ka"}, {}, {}, "user")
    <3>1. {} \cup {"ka"} = {"ka"}
      OBVIOUS
    <3> QED
      BY <1>2, <3>1 DEF C!LoadFails
  <2>2. BlocksHeld' /\ (Loading(at') <=> Loading(at))
    BY <1>1, <2>1, BalancedStep DEF CallInv, C!Step, Loading
  <2> QED
    BY <1>2, <2>2, QuietCall DEF C!Descriptors
<1>3. ASSUME NEW s \in C!Lowest, C!Step("open", {"ka"}, {}, {}, {"file"}, "size"),
             table' = table \cup {s}, fd' = s, opened' = opened
      PROVE  CallInv'
  <2>1. BlocksHeld'
    BY <1>1, <1>3, BalancedStep DEF CallInv
  <2>2. at = "open" /\ at' = "size"
    BY <1>3 DEF C!Step
  <2>3. table = opened /\ s \notin opened
    BY <2>2 DEF CallInv, SlotsHeld, Loading, C!Lowest
  <2> QED
    BY <1>3, <2>1, <2>2, <2>3 DEF CallInv, SlotsHeld, Loading
<1> QED
    BY <1>2, <1>3 DEF C!LoadOpen

\* vfs_close takes back the slot of the executable, and no other.
LEMMA ClosesSlot ==
    ASSUME CallInv, Loading(at), C!Closes, BlocksHeld', ~Loading(at')
    PROVE  CallInv'
<1>1. fd \notin opened /\ table = opened \cup {fd}
    BY DEF CallInv, SlotsHeld
<1>2. table' = opened /\ fd' = 0 /\ opened' = opened
    BY <1>1 DEF C!Closes
<1> QED
    BY <1>2 DEF CallInv, SlotsHeld

LEMMA LoadSizeHolds ==
    ASSUME CallInv, C!LoadSize
    PROVE  CallInv'
<1>1. /\ Balanced("size", {}, {"file", "ka"}, {}, {}, "user")
      /\ Balanced("size", {}, {}, {}, {"data"}, "read")
    BY DEF Balanced, HeldAt, Points
<1>2. CASE C!LoadFails("size", {}, {"file"}) /\ C!Closes
  <2>1. C!Step("size", {}, {"file", "ka"}, {}, {}, "user")
    <3>1. {"file"} \cup {"ka"} = {"file", "ka"}
      OBVIOUS
    <3> QED
      BY <1>2, <3>1 DEF C!LoadFails
  <2>2. BlocksHeld' /\ Loading(at) /\ ~Loading(at')
    BY <1>1, <2>1, BalancedStep DEF CallInv, C!Step, Loading
  <2> QED
    BY <1>2, <2>2, ClosesSlot
<1>3. CASE C!Step("size", {}, {}, {}, {"data"}, "read") /\ UNCHANGED C!Descriptors
  <2>1. BlocksHeld' /\ (Loading(at') <=> Loading(at))
    BY <1>1, <1>3, BalancedStep DEF CallInv, C!Step, Loading
  <2> QED
    BY <1>3, <2>1, QuietCall DEF C!Descriptors
<1> QED
    BY <1>2, <1>3 DEF C!LoadSize

LEMMA LoadReadHolds ==
    ASSUME CallInv, C!LoadRead
    PROVE  CallInv'
<1>1. /\ Balanced("read", {"data"}, {"file", "data", "ka"}, {}, {}, "user")
      /\ Balanced("read", {"data"}, {"file"}, {}, {}, "validate")
    BY DEF Balanced, HeldAt, Points
<1>2. \/ C!Step("read", {"data"}, {"file", "data", "ka"}, {}, {}, "user")
      \/ C!Step("read", {"data"}, {"file"}, {}, {}, "validate")
  <2>1. {"file", "data"} \cup {"ka"} = {"file", "data", "ka"}
    OBVIOUS
  <2> QED
    BY <2>1 DEF C!LoadRead, C!LoadFails
<1>3. BlocksHeld' /\ Loading(at) /\ ~Loading(at')
    BY <1>1, <1>2, BalancedStep DEF CallInv, C!Step, Loading
<1> QED
    BY <1>3, ClosesSlot DEF C!LoadRead

LEMMA OpenHolds ==
    ASSUME CallInv, C!Open
    PROVE  CallInv'
<1>1. BlocksHeld'
    BY DEF CallInv, BlocksHeld, C!Open
<1>2. at = "user" /\ at' = "user" /\ fd' = fd
    BY DEF C!Open
<1>3. fd = 0 /\ table = opened /\ table' = opened'
    BY <1>2 DEF CallInv, SlotsHeld, Loading, C!Open
<1> QED
    BY <1>1, <1>2, <1>3 DEF CallInv, SlotsHeld, Loading

LEMMA CloseHolds ==
    ASSUME CallInv, NEW s, C!Close(s)
    PROVE  CallInv'
<1>1. BlocksHeld'
    BY DEF CallInv, BlocksHeld, C!Close
<1>2. at = "user" /\ at' = "user" /\ fd' = fd
    BY DEF C!Close
<1>3. fd = 0 /\ table = opened /\ table' = opened'
    BY <1>2 DEF CallInv, SlotsHeld, Loading, C!Close
<1> QED
    BY <1>1, <1>2, <1>3 DEF CallInv, SlotsHeld, Loading

LEMMA ReapHolds ==
    ASSUME CallInv, C!Reap
    PROVE  CallInv'
<1>1. BlocksHeld'
    BY DEF CallInv, BlocksHeld, C!Reap
<1>2. at' = at /\ UNCHANGED <<table, fd, opened>>
    BY DEF C!Reap, C!Descriptors
<1> QED
    BY <1>1, <1>2, QuietCall

\* A panic ends everything.
LEMMA NoInodeHolds ==
    ASSUME CallInv, C!NoInode
    PROVE  CallInv'
<1>1. at \in {"open", "user"} /\ at' = "panic" /\ ~broken
    BY DEF CallInv, BlocksHeld, C!NoInode, C!Step
<1>2. ~broken'
    BY <1>1 DEF C!NoInode, C!Step
<1>3. BlocksHeld' /\ (Loading(at') <=> Loading(at))
    BY <1>1, <1>2 DEF BlocksHeld, Loading
<1> QED
    BY <1>3, QuietCall DEF C!NoInode, C!Descriptors

(***************************************************************************)
(* Whichever steps of execve, spawn, fork, read and write fail, a call     *)
(* uses and frees only what it holds and is back in the program with       *)
(* nothing left.                                                           *)
(***************************************************************************)
THEOREM CallsBalanced == C!Spec => []CallsGiveBack
<1>1. C!Init => CallInv
    BY DEF C!Init, CallInv, BlocksHeld, SlotsHeld, Loading, HeldAt, Points
<1>2. CallInv /\ [C!Next]_C!vars => CallInv'
  <2> SUFFICES ASSUME CallInv, [C!Next]_C!vars
               PROVE  CallInv'
      OBVIOUS
  <2>1. ASSUME NEW c, C!BeginExec(c)
        PROVE  CallInv'
    BY <2>1, BeginExecHolds
  <2>2. ASSUME NEW s, C!Close(s)
        PROVE  CallInv'
    BY <2>2, CloseHolds
  <2>3. CASE C!CopyArgs \/ C!LoadOpen \/ C!LoadSize \/ C!LoadRead
    BY <2>3, CopyArgsHolds, LoadOpenHolds, LoadSizeHolds, LoadReadHolds
  <2>4. CASE C!BuildBegin \/ C!BuildLoad \/ C!BuildStack \/ C!Unbuilt
    BY <2>4, BuildBeginHolds, BuildLoadHolds, BuildStackHolds, UnbuiltHolds
  <2>5. CASE C!Exec \/ C!Spawn \/ C!Fork \/ C!Reap
    BY <2>5, ExecHolds, SpawnHolds, ForkHolds, ReapHolds
  <2>6. CASE C!Open \/ C!ReadWrite \/ C!NoInode
    BY <2>6, OpenHolds, ReadWriteHolds, NoInodeHolds
  <2>7. CASE UNCHANGED C!vars
    BY <2>7 DEF C!vars, CallInv, BlocksHeld, SlotsHeld
  <2> QED
    BY <2>1, <2>2, <2>3, <2>4, <2>5, <2>6, <2>7 DEF C!Next
<1>3. CallInv => CallsGiveBack
    BY DEF CallInv, BlocksHeld, SlotsHeld, Loading, HeldAt, Points,
           CallsGiveBack, C!CallsGiveBack
<1> QED
    BY <1>1, <1>2, <1>3, PTL DEF C!Spec
=============================================================================
