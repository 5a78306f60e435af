------------------------- MODULE AddressSpaceProofs -------------------------
(* Proofs about AddressSpace, for every machine size, page layout, number of *)
(* tasks and depth of the page tables.                                       *)
EXTENDS MCAddressSpace, DataLemmas, FiniteSetTheorems

Runners == Task \cup {Kernel}

Kinds == {"idle", "fork", "spawn", "exec", "load", "free", "sbrk", "fault"}

Calls == [kind : Kinds, by : Runners, for : Runners, todo : Seq(Nat), leaf : Nat, brk : Nat]

Types ==
    /\ F!total \in Nat
    /\ life \in [Task -> {"none", "alive", "dead"}]
    /\ DOMAIN space = Ids
    /\ kstack \in [Task -> SUBSET Nat]
    /\ brk \in [Task -> Nat]
    /\ current \in Runners
    /\ op \in Calls

(***************************************************************************)
(* One space: the tree has a root unless it is empty, its pages are        *)
(* numbers, exactly the shared pages hold shared frames, and every other   *)
(* frame is used once.                                                     *)
(***************************************************************************)
SharedLeaves == {Leaf(v) : v \in DOMAIN Shared}

GoodSpace(s) ==
    /\ s = NoSpace \/ Root \in DOMAIN s
    /\ \A n \in DOMAIN s : s[n] \in Nat \ {0}
    /\ \A n \in DOMAIN s : n[1] = Levels => n[2] \in Nat /\ n = Leaf(n[2])
    /\ IsFiniteSet(Pages(s))
    /\ \A n \in DOMAIN s : s[n] \in SharedFrames <=> n \in SharedLeaves
    /\ \A n, m \in DOMAIN s : s[n] = s[m] /\ s[n] \notin SharedFrames => n = m

Spaces == \A t \in Ids : GoodSpace(space[t])

(***************************************************************************)
(* All the places that hold frames share out the set bits with the kernel: *)
(* the spaces, the kernel stacks and, as the "stack" of Img, the frame the *)
(* call in progress has not mapped yet.                                    *)
(***************************************************************************)
Places == Ids \X {"space", "stack"}

Part ==
    [x \in Places |->
        IF x[2] = "space" THEN Own(space[x[1]])
        ELSE IF x[1] = Img THEN TempLeaf ELSE kstack[x[1]]]

Splits(d, b) ==
    /\ \A x, y \in Places : x # y => d[x] \cap d[y] = {}
    /\ \A x \in Places : d[x] \cap Reserved = {}
    /\ b = Reserved \cup UNION {d[x] : x \in Places}

(***************************************************************************)
(* The call in progress.                                                   *)
(***************************************************************************)
\* The pages the space under construction will have.
Wanted == IF op.kind = "fork" THEN Pages(space[op.by]) ELSE Image

Caller ==
    /\ op.kind = "idle" => op = Idle
    /\ op.kind # "idle" => op.by = current
    /\ op.kind \notin {"idle", "spawn"} => op.by \in Task
    /\ op.kind # "idle" /\ op.by \in Task => life[op.by] = "alive"
    /\ op.kind = "fork" => op.for \in Task /\ life[op.for] = "none"

Construction ==
    /\ op.kind \in {"load", "free"} => Root \in DOMAIN space[Img] /\ op.todo = <<>>
    /\ op.kind \in {"idle", "sbrk", "fault"} => space[Img] = NoSpace
    /\ NeedsRoot => op.todo = <<>>
    /\ Building /\ ~NeedsRoot => Pages(space[Img]) \cup ToSet(op.todo) = Wanted
    /\ op.kind = "fork" =>
        /\ \A i, j \in DOMAIN op.todo : op.todo[i] = op.todo[j] => i = j
        /\ ToSet(op.todo) \cap Pages(space[Img]) = {}

Unmapped ==
    op.leaf # NoFrame =>
        /\ op.todo # <<>> /\ op.kind \in {"fork", "spawn", "exec", "sbrk", "fault"}
        /\ Leaf(Head(op.todo)) \notin DOMAIN space[Target]
        /\ Head(op.todo) \notin DOMAIN Shared

\* The page a growth maps next, and the end of the heap's pages.
Frontier == RoundUp(op.brk) - Len(op.todo)
HeapEnd(t) == IF op.kind = "sbrk" /\ op.by = t THEN Frontier ELSE RoundUp(brk[t])

Growth ==
    op.kind = "sbrk" =>
        /\ op.brk <= HeapTop /\ brk[op.by] < op.brk
        /\ RoundUp(brk[op.by]) <= Frontier
        /\ \A i \in 1..Len(op.todo) : op.todo[i] = Frontier + i - 1

Faulting ==
    op.kind = "fault" =>
        (op.todo = <<>> \/ \E v \in Stack \ Pages(space[op.by]) : op.todo = <<v>>)

(***************************************************************************)
(* The tasks between the calls.                                            *)
(***************************************************************************)
\* The break is in the heap, and the heap's pages are those below end.
Heaped(s, b, end) ==
    /\ HeapBase * PageSize <= b /\ b <= HeapTop
    /\ Pages(s) \cap HeapPages = HeapBase..(end - 1)

Heaps == \A t \in Task : life[t] = "alive" => Heaped(space[t], brk[t], HeapEnd(t))

Lives ==
    /\ \A t \in Task : life[t] # "none" => Root \in DOMAIN space[t]
    /\ \A t \in Task : life[t] = "none" =>
        /\ space[t] = NoSpace
        /\ kstack[t] = {} \/ (op.kind = "fork" /\ op.for = t)
    /\ current \in Task => life[current] # "none"
    /\ loaded = IF op.kind = "load" THEN space[Img][Root] ELSE Pml4(current)

AInv ==
    /\ Types /\ Spaces /\ Splits(Part, bits)
    /\ Caller /\ Construction /\ Unmapped /\ Growth /\ Faulting
    /\ Heaps /\ Lives

-----------------------------------------------------------------------------
(***************************************************************************)
(* Numbers and sequences.                                                  *)
(***************************************************************************)
\* Rounding up to pages: the pages below b are those that begin below it.
LEMMA CeilBound ==
    ASSUME NEW d \in Nat \ {0}, NEW b \in Nat
    PROVE  /\ F!Ceil(b, d) \in Nat
           /\ \A v \in Nat : v * d < b <=> v < F!Ceil(b, d)
<1> DEFINE c == (b + d - 1) \div d
<1>1. c \in Nat /\ c * d <= b + d - 1 /\ b + d - 1 < c * d + d
  <2>1. b + d - 1 \in Nat
    OBVIOUS
  <2>2. \A a \in Nat : a \div d \in Nat /\ (a \div d) * d <= a /\ a < (a \div d) * d + d
    BY Z3
  <2> QED
    BY <2>1, <2>2
<1> HIDE DEF c
<1>2. ASSUME NEW v \in Nat, v < c
      PROVE  v * d < b
  <2>1. c - (v + 1) \in Nat
    BY <1>1, <1>2
  <2>2. (c - (v + 1)) * d >= 0
    BY <2>1
  <2>3. c * d >= v * d + d
    BY <2>2, <1>1
  <2> QED
    BY <2>3, <1>1
<1>3. ASSUME NEW v \in Nat, ~(v < c)
      PROVE  ~(v * d < b)
  <2>1. v - c \in Nat
    BY <1>1, <1>3
  <2>2. (v - c) * d >= 0
    BY <2>1
  <2>3. v * d >= c * d
    BY <2>2, <1>1
  <2> QED
    BY <2>3, <1>1
<1> QED
    BY <1>1, <1>2, <1>3 DEF c, F!Ceil

LEMMA RoundUpBound ==
    ASSUME NEW b \in Nat
    PROVE  /\ RoundUp(b) \in Nat
           /\ \A v \in Nat : v * PageSize < b <=> v < RoundUp(b)
BY CeilBound, AddressSpaceAssumption DEF RoundUp

LEMMA RoundUpMonotone ==
    ASSUME NEW a \in Nat, NEW b \in Nat, a <= b
    PROVE  RoundUp(a) <= RoundUp(b)
<1>1. RoundUp(a) \in Nat /\ RoundUp(b) \in Nat
    BY RoundUpBound
<1>2. CASE RoundUp(b) < RoundUp(a)
  <2>1. RoundUp(b) * PageSize < a
    BY <1>1, <1>2, RoundUpBound
  <2>2. ~(RoundUp(b) * PageSize < b)
    BY <1>1, RoundUpBound
  <2>3. RoundUp(b) * PageSize \in Nat
    BY <1>1, AddressSpaceAssumption
  <2> QED
    BY <2>1, <2>2, <2>3
<1> QED
    BY <1>1, <1>2

\* The heap of a fresh program has no pages, and a break inside the heap ends
\* at one of its pages.
LEMMA HeapBounds ==
    /\ HeapBase * PageSize \in Nat /\ HeapTop \in Nat /\ HeapPages \subseteq Nat
    /\ HeapBase * PageSize <= HeapTop
    /\ RoundUp(HeapBase * PageSize) = HeapBase
    /\ \A b \in Nat : HeapBase * PageSize <= b => HeapBase <= RoundUp(b)
    /\ \A v \in Nat : v \in HeapPages <=> HeapBase <= v /\ v * PageSize < HeapTop
<1>1. HeapBase \in Nat /\ HeapMax \in Nat /\ PageSize \in Nat \ {0}
    BY AddressSpaceAssumption
<1>2. HeapBase * PageSize \in Nat /\ HeapTop \in Nat /\ HeapBase * PageSize <= HeapTop
    BY <1>1 DEF HeapTop
<1>3. RoundUp(HeapBase * PageSize) = HeapBase
  <2> DEFINE r == RoundUp(HeapBase * PageSize)
  <2>1. r \in Nat /\ \A v \in Nat : v * PageSize < HeapBase * PageSize <=> v < r
    BY <1>2, RoundUpBound
  <2>2. \A v \in Nat : v * PageSize < HeapBase * PageSize <=> v < HeapBase
    <3> SUFFICES ASSUME NEW v \in Nat
                 PROVE  v * PageSize < HeapBase * PageSize <=> v < HeapBase
        OBVIOUS
    <3>1. CASE v < HeapBase
      <4>1. HeapBase - (v + 1) \in Nat
        BY <1>1, <3>1
      <4>2. (HeapBase - (v + 1)) * PageSize >= 0
        BY <4>1, <1>1
      <4> QED
        BY <4>2, <3>1, <1>1
    <3>2. CASE ~(v < HeapBase)
      <4>1. v - HeapBase \in Nat
        BY <1>1, <3>2
      <4>2. (v - HeapBase) * PageSize >= 0
        BY <4>1, <1>1
      <4> QED
        BY <4>2, <3>2, <1>1
    <3> QED
      BY <3>1, <3>2
  <2> HIDE DEF r
  <2>3. ~(HeapBase < r) /\ ~(r < HeapBase)
    BY <1>1, <2>1, <2>2
  <2> QED
    BY <1>1, <2>1, <2>3 DEF r
<1>4. ASSUME NEW b \in Nat, HeapBase * PageSize <= b
      PROVE  HeapBase <= RoundUp(b)
  <2>1. RoundUp(HeapBase * PageSize) <= RoundUp(b)
    BY <1>2, <1>4, RoundUpMonotone
  <2> QED
    BY <1>3, <2>1
<1>5. ASSUME NEW v \in Nat, v * PageSize < HeapTop
      PROVE  v <= HeapTop
  <2>1. v <= v * PageSize
    <3>1. PageSize - 1 \in Nat
      BY <1>1
    <3>2. v * (PageSize - 1) >= 0
      BY <3>1
    <3> QED
      BY <3>2, <1>1
  <2>2. v * PageSize \in Nat
    BY <1>1
  <2> QED
    BY <2>1, <2>2, <1>2, <1>5
<1>6. \A v \in Nat : v \in HeapPages <=> HeapBase <= v /\ v * PageSize < HeapTop
    BY <1>1, <1>2, <1>5 DEF HeapPages
<1> QED
    BY <1>1, <1>2, <1>3, <1>4, <1>6 DEF HeapPages

\* The set of a sequence, of its rest, and of two sequences one after the other.
LEMMA SetOfSeq ==
    ASSUME NEW S, NEW s \in Seq(S)
    PROVE  ToSet(s) = {s[i] : i \in 1..Len(s)} /\ ToSet(s) \subseteq S
<1>1. DOMAIN s = 1..Len(s) /\ \A i \in 1..Len(s) : s[i] \in S
    BY LenProperties, ElementOfSeq
<1> QED
    BY <1>1 DEF ToSet

LEMMA SetOfTail ==
    ASSUME NEW S, NEW s \in Seq(S), s # <<>>
    PROVE  /\ Head(s) \in S /\ Tail(s) \in Seq(S) /\ Head(s) = s[1]
           /\ Len(s) \in Nat \ {0} /\ Len(Tail(s)) = Len(s) - 1
           /\ \A i \in 1..(Len(s) - 1) : Tail(s)[i] = s[i + 1]
           /\ ToSet(s) = {Head(s)} \cup ToSet(Tail(s))
<1>1. /\ Head(s) \in S /\ Tail(s) \in Seq(S) /\ Len(Tail(s)) = Len(s) - 1
      /\ \A i \in 1..Len(Tail(s)) : Tail(s)[i] = s[i + 1]
    BY HeadTailProperties
<1>2. Len(s) \in Nat \ {0} /\ Head(s) = s[1]
    BY EmptySeq
<1>3. ToSet(s) = {s[i] : i \in 1..Len(s)} /\ ToSet(Tail(s)) = {Tail(s)[i] : i \in 1..Len(Tail(s))}
    BY <1>1, SetOfSeq
<1> DEFINE n == Len(s)
           t == Tail(s)
<1>4. n \in Nat \ {0} /\ Len(t) = n - 1 /\ \A i \in 1..(n - 1) : t[i] = s[i + 1]
    BY <1>1, <1>2
<1> HIDE DEF n, t
<1>5. {s[i] : i \in 1..n} = {s[1]} \cup {t[i] : i \in 1..(n - 1)}
  <2>1. ASSUME NEW i \in 1..n
        PROVE  s[i] \in {s[1]} \cup {t[j] : j \in 1..(n - 1)}
    <3>1. CASE i = 1
      BY <3>1
    <3>2. CASE i # 1
      <4>1. i - 1 \in 1..(n - 1) /\ (i - 1) + 1 = i
        BY <3>2, <1>4
      <4>2. t[i - 1] = s[i]
        BY <4>1, <1>4
      <4> QED
        BY <4>1, <4>2
    <3> QED
      BY <3>1, <3>2
  <2>2. 1 \in 1..n
    BY <1>4
  <2>3. ASSUME NEW i \in 1..(n - 1)
        PROVE  t[i] \in {s[j] : j \in 1..n}
    <3>1. i + 1 \in 1..n
      BY <1>4
    <3> QED
      BY <3>1, <1>4
  <2> QED
    BY <2>1, <2>2, <2>3
<1> QED
    BY <1>1, <1>2, <1>3, <1>4, <1>5 DEF n, t

LEMMA SetOfConcat ==
    ASSUME NEW S, NEW s \in Seq(S), NEW t \in Seq(S)
    PROVE  s \o t \in Seq(S) /\ ToSet(s \o t) = ToSet(s) \cup ToSet(t)
<1> DEFINE c == s \o t
           n == Len(s)
           m == Len(t)
<1>1. /\ c \in Seq(S) /\ Len(c) = n + m /\ n \in Nat /\ m \in Nat
      /\ \A j \in 1..n : c[j] = s[j]
      /\ \A j \in 1..m : c[n + j] = t[j]
    BY ConcatAt, LenProperties
<1>2. /\ ToSet(s) = {s[i] : i \in 1..n} /\ ToSet(t) = {t[i] : i \in 1..m}
      /\ ToSet(c) = {c[i] : i \in 1..Len(c)}
    BY <1>1, SetOfSeq
<1> HIDE DEF c, n, m
<1>3. ASSUME NEW j \in 1..(n + m)
      PROVE  c[j] \in ToSet(s) \cup ToSet(t)
  <2>1. CASE j <= n
    <3>1. j \in 1..n
      BY <2>1, <1>1
    <3> QED
      BY <3>1, <1>1, <1>2
  <2>2. CASE ~(j <= n)
    <3>1. j - n \in 1..m /\ n + (j - n) = j
      BY <2>2, <1>1
    <3>2. c[j] = t[j - n]
      BY <3>1, <1>1
    <3> QED
      BY <3>1, <3>2, <1>2
  <2> QED
    BY <2>1, <2>2
<1>4. ASSUME NEW j \in 1..n
      PROVE  s[j] \in ToSet(c)
  <2>1. j \in 1..Len(c)
    BY <1>1
  <2> QED
    BY <2>1, <1>1, <1>2
<1>5. ASSUME NEW j \in 1..m
      PROVE  t[j] \in ToSet(c)
  <2>1. n + j \in 1..Len(c)
    BY <1>1
  <2> QED
    BY <2>1, <1>1, <1>2
<1>6. ToSet(c) = ToSet(s) \cup ToSet(t)
    BY <1>1, <1>2, <1>3, <1>4, <1>5
<1> QED
    BY <1>1, <1>6 DEF c

LEMMA SetOfReverse ==
    ASSUME NEW S, NEW s \in Seq(S)
    PROVE  Reverse(s) \in Seq(S) /\ ToSet(Reverse(s)) = ToSet(s)
<1> DEFINE n == Len(s)
           r == [i \in 1..n |-> s[(n - i) + 1]]
<1>1. n \in Nat /\ \A i \in 1..n : s[i] \in S
    BY LenProperties, ElementOfSeq
<1>2. \A i \in 1..n : (n - i) + 1 \in 1..n /\ (n - ((n - i) + 1)) + 1 = i
    BY <1>1
<1>3. r \in [1..n -> S]
    BY <1>1, <1>2
<1>4. r \in Seq(S)
    BY <1>1, <1>3, SeqDef
<1>5. DOMAIN r = 1..n /\ \A i \in 1..n : r[i] = s[(n - i) + 1]
    OBVIOUS
<1>6. ToSet(s) = {s[i] : i \in 1..n}
    BY SetOfSeq
<1> HIDE DEF n, r
<1>7. \A i \in 1..n : s[i] = r[(n - i) + 1]
    BY <1>2, <1>5
<1>8. ToSet(r) = {s[i] : i \in 1..n}
    BY <1>2, <1>5, <1>7 DEF ToSet
<1> QED
    BY <1>4, <1>6, <1>8 DEF Reverse, n, r

\* Ascending lists every number of a finite set once.
LEMMA AscendingLists ==
    ASSUME NEW S \in SUBSET Nat, IsFiniteSet(S)
    PROVE  /\ Ascending(S) \in Seq(Nat) /\ ToSet(Ascending(S)) = S
           /\ \A i, j \in DOMAIN Ascending(S) : Ascending(S)[i] = Ascending(S)[j] => i = j
<1> DEFINE n == Cardinality(S)
           below(v) == {u \in S : u < v}
           rank == [v \in S |-> Cardinality(below(v))]
           I == 0..(n - 1)
<1>1. n \in Nat
    BY FS_CardinalityType
<1>2. ASSUME NEW v \in S
      PROVE  /\ IsFiniteSet(below(v)) /\ Cardinality(below(v)) \in Nat
             /\ Cardinality(below(v)) < n
  <2>1. below(v) \in SUBSET S /\ v \notin below(v)
    OBVIOUS
  <2>2. /\ IsFiniteSet(below(v)) /\ Cardinality(below(v)) <= n
        /\ n = Cardinality(below(v)) => S = below(v)
    BY <2>1, FS_Subset
  <2>3. Cardinality(below(v)) \in Nat
    BY <2>2, FS_CardinalityType
  <2> QED
    BY <1>1, <2>1, <2>2, <2>3
<1>3. ASSUME NEW u \in S, NEW v \in S, u < v
      PROVE  Cardinality(below(u)) < Cardinality(below(v))
  <2>1. below(u) \in SUBSET below(v) /\ u \in below(v) /\ u \notin below(u)
    <3>1. \A w \in S : w < u => w < v
      BY <1>3
    <3>2. u \in Nat /\ v \in Nat /\ ~(u < u)
      OBVIOUS
    <3> QED
      BY <1>3, <3>1, <3>2
  <2>2. IsFiniteSet(below(v))
    BY <1>2
  <2>3. /\ Cardinality(below(u)) <= Cardinality(below(v))
        /\ Cardinality(below(v)) = Cardinality(below(u)) => below(v) = below(u)
    BY <2>1, <2>2, FS_Subset
  <2>4. Cardinality(below(u)) \in Nat /\ Cardinality(below(v)) \in Nat
    BY <1>2
  <2> QED
    BY <2>1, <2>3, <2>4
<1>4. rank \in [S -> I] /\ \A v \in S : rank[v] = Cardinality(below(v))
    BY <1>1, <1>2
<1>5. \A u, v \in S : rank[u] = rank[v] => u = v
  <2> SUFFICES ASSUME NEW u \in S, NEW v \in S, rank[u] = rank[v], u # v
               PROVE  FALSE
      OBVIOUS
  <2>1. u < v \/ v < u
    OBVIOUS
  <2>2. rank[u] \in Nat /\ rank[v] \in Nat
    BY <1>2, <1>4
  <2>3. rank[u] < rank[v] \/ rank[v] < rank[u]
    BY <2>1, <1>3, <1>4
  <2> QED
    BY <2>2, <2>3
<1>6. Cardinality(I) = n /\ IsFiniteSet(I)
    BY <1>1, FS_Interval
<1>7. \A i \in I : \E v \in S : rank[v] = i
  <2>1. rank \in Injection(S, I)
    BY <1>4, <1>5, Zenon DEF Injection, IsInjective
  <2>2. rank \in Surjection(S, I)
    BY <1>6, <2>1, FS_Injection
  <2> QED
    BY <2>2, Zenon DEF Surjection
<1> DEFINE A == Ascending(S)
<1>8. DOMAIN A = 1..n /\ \A i \in 1..n : A[i] = CHOOSE v \in S : Cardinality(below(v)) = i - 1
    BY DEF Ascending
<1> DEFINE T == {A[i] : i \in 1..n}
<1>14. A \in [1..n -> T]
  <2> DEFINE B == [i \in 1..n |-> CHOOSE v \in S : Cardinality(below(v)) = i - 1]
  <2>1. A = B
    BY DEF Ascending
  <2>2. \A i \in 1..n : B[i] \in {B[j] : j \in 1..n}
    OBVIOUS
  <2>3. B \in [1..n -> {B[j] : j \in 1..n}]
    BY <2>2
  <2> HIDE DEF B, A
  <2> QED
    BY <2>1, <2>3
<1> HIDE DEF A, I, rank, n
<1>9. ASSUME NEW i \in 1..n
      PROVE  A[i] \in S /\ rank[A[i]] = i - 1
  <2>1. i - 1 \in I
    BY <1>1 DEF I
  <2>2. PICK v \in S : rank[v] = i - 1
    BY <2>1, <1>7
  <2>3. Cardinality(below(v)) = i - 1
    BY <2>2, <1>4
  <2> DEFINE w == CHOOSE w \in S : Cardinality(below(w)) = i - 1
  <2>4. w \in S /\ Cardinality(below(w)) = i - 1
    BY <2>3
  <2> HIDE DEF w
  <2>5. A[i] = w
    BY <1>8 DEF w
  <2> QED
    BY <2>4, <2>5, <1>4
<1>10. A \in Seq(Nat)
  <2>1. A \in [1..n -> Nat]
    <3>1. T \subseteq Nat
      BY <1>9
    <3> HIDE DEF T
    <3> QED
      BY <3>1, <1>14
  <2> QED
    BY <2>1, <1>1, SeqDef
<1>11. ASSUME NEW v \in S
       PROVE  v \in ToSet(A)
  <2> DEFINE i == rank[v] + 1
  <2>1. i \in 1..n /\ i - 1 = rank[v]
    BY <1>1, <1>4 DEF I
  <2> HIDE DEF i
  <2>2. A[i] \in S /\ rank[A[i]] = rank[v]
    BY <2>1, <1>9
  <2>3. A[i] = v
    BY <2>2, <1>5
  <2> QED
    BY <2>1, <2>3, <1>8 DEF ToSet
<1>12. ToSet(A) \subseteq S
    BY <1>8, <1>9 DEF ToSet
<1>13. \A i, j \in 1..n : A[i] = A[j] => i = j
  <2> SUFFICES ASSUME NEW i \in 1..n, NEW j \in 1..n, A[i] = A[j]
               PROVE  i = j
      OBVIOUS
  <2>1. i - 1 = j - 1
    BY <1>9
  <2> QED
    BY <2>1, <1>1
<1> QED
    BY <1>8, <1>10, <1>11, <1>12, <1>13 DEF A

-----------------------------------------------------------------------------
(***************************************************************************)
(* One space.                                                              *)
(***************************************************************************)
LEMMA LeafFacts ==
    /\ \A v : Leaf(v)[1] = Levels /\ Leaf(v)[2] = v /\ Leaf(v) # Root
    /\ \A v, w : Leaf(v) = Leaf(w) => v = w
    /\ \A v : Leaf(v) \in SharedLeaves <=> v \in DOMAIN Shared
    /\ \A n : n \in SharedLeaves => n[1] = Levels
    /\ Root[1] = 0 /\ Root[1] # Levels
<1>1. Levels # 0
    BY AddressSpaceAssumption
<1> QED
    BY <1>1 DEF Leaf, Root, SharedLeaves

LEMMA TableFacts ==
    ASSUME NEW v, NEW n \in Tables(v)
    PROVE  n[1] # Levels /\ n # Root
<1>1. PICK depth \in 1..(Levels - 1) : n = Node(v, depth)
    BY DEF Tables
<1>2. n[1] = depth
    BY <1>1 DEF Node
<1>3. depth # Levels /\ depth # 0
    BY AddressSpaceAssumption
<1>4. Root[1] = 0
    BY DEF Root
<1> QED
    BY <1>2, <1>3, <1>4

LEMMA SharedFacts ==
    /\ SharedFrames \subseteq Reserved \ {0}
    /\ \A v \in DOMAIN Shared : Shared[v] \in SharedFrames
BY AddressSpaceAssumption DEF SharedFrames

LEMMA NoSpaceFacts ==
    /\ DOMAIN NoSpace = {} /\ Own(NoSpace) = {} /\ Pages(NoSpace) = {} /\ GoodSpace(NoSpace)
<1>1. DOMAIN NoSpace = {}
    BY DEF NoSpace
<1>2. Own(NoSpace) = {} /\ Pages(NoSpace) = {}
    BY <1>1 DEF Own, Pages
<1>3. IsFiniteSet(Pages(NoSpace))
    BY <1>2, FS_EmptySet
<1> QED
    BY <1>1, <1>2, <1>3 DEF GoodSpace

\* A page is a node of the tree.
LEMMA PageIsLeaf ==
    ASSUME NEW s, GoodSpace(s)
    PROVE  /\ \A v : v \in Pages(s) <=> Leaf(v) \in DOMAIN s
           /\ Pages(s) \in SUBSET Nat /\ IsFiniteSet(Pages(s))
           /\ s # NoSpace <=> Root \in DOMAIN s
<1>1. ASSUME NEW v \in Pages(s)
      PROVE  v \in Nat /\ Leaf(v) \in DOMAIN s
  <2>1. PICK n \in DOMAIN s : n[1] = Levels /\ v = n[2]
    BY DEF Pages
  <2> QED
    BY <2>1 DEF GoodSpace
<1>2. ASSUME NEW v, Leaf(v) \in DOMAIN s
      PROVE  v \in Pages(s)
  <2>1. Leaf(v)[1] = Levels /\ Leaf(v)[2] = v
    BY LeafFacts
  <2> QED
    BY <1>2, <2>1 DEF Pages
<1>3. IsFiniteSet(Pages(s)) /\ (s = NoSpace \/ Root \in DOMAIN s)
    BY DEF GoodSpace
<1> QED
    BY <1>1, <1>2, <1>3, NoSpaceFacts

\* A frame is owned when the node that holds it is not a shared page.
LEMMA OwnFacts ==
    ASSUME NEW s, GoodSpace(s)
    PROVE  /\ \A f : f \in Own(s) <=> \E n \in DOMAIN s : n \notin SharedLeaves /\ f = s[n]
           /\ Own(s) \subseteq Nat \ {0} /\ Own(s) \cap SharedFrames = {}
           /\ s # NoSpace => s[Root] \in Own(s)
<1>1. \A n \in DOMAIN s : s[n] \in SharedFrames <=> n \in SharedLeaves
    BY DEF GoodSpace
<1>2. \A n \in DOMAIN s : s[n] \in Nat \ {0}
    BY DEF GoodSpace
<1>3. \A f : f \in Own(s) <=> \E n \in DOMAIN s : n \notin SharedLeaves /\ f = s[n]
    BY <1>1 DEF Own
<1>4. Root \notin SharedLeaves
    BY LeafFacts
<1>5. s # NoSpace => s[Root] \in Own(s)
    BY <1>3, <1>4, PageIsLeaf
<1> QED
    BY <1>2, <1>3, <1>5 DEF Own

LEMMA LinkedAt ==
    ASSUME NEW s, NEW n, NEW f
    PROVE  /\ DOMAIN Linked(s, n, f) = DOMAIN s \cup {n}
           /\ Linked(s, n, f)[n] = f
           /\ \A m \in DOMAIN s : m # n => Linked(s, n, f)[m] = s[m]
BY DEF Linked

\* The pages of a space with one more node.
LEMMA LinkedPages ==
    ASSUME NEW s, NEW n, NEW f
    PROVE  Pages(Linked(s, n, f)) = IF n[1] = Levels THEN Pages(s) \cup {n[2]} ELSE Pages(s)
<1> DEFINE L == Linked(s, n, f)
<1>1. DOMAIN L = DOMAIN s \cup {n}
    BY LinkedAt
<1> HIDE DEF L
<1>2. CASE n[1] = Levels
  <2>1. \A v : v \in Pages(L) <=> v \in Pages(s) \/ v = n[2]
    BY <1>1, <1>2 DEF Pages
  <2> QED
    BY <1>2, <2>1 DEF L
<1>3. CASE n[1] # Levels
  <2>1. \A v : v \in Pages(L) <=> v \in Pages(s)
    BY <1>1, <1>3 DEF Pages
  <2> QED
    BY <1>3, <2>1 DEF L
<1> QED
    BY <1>2, <1>3

\* The node can become part of the space.
Fits(s, n) ==
    /\ n = Root \/ Root \in DOMAIN s
    /\ n[1] = Levels => n[2] \in Nat /\ n = Leaf(n[2])

\* A fresh node with a fresh frame.
LEMMA LinkNew ==
    ASSUME NEW s, GoodSpace(s), NEW n, Fits(s, n), n \notin DOMAIN s, n \notin SharedLeaves,
           NEW f \in Nat \ {0}, f \notin SharedFrames, f \notin Own(s)
    PROVE  GoodSpace(Linked(s, n, f)) /\ Own(Linked(s, n, f)) = Own(s) \cup {f}
<1> DEFINE L == Linked(s, n, f)
<1>1. DOMAIN L = DOMAIN s \cup {n} /\ L[n] = f /\ \A m \in DOMAIN s : L[m] = s[m]
    BY DEF Linked
<1>2. Pages(L) = IF n[1] = Levels THEN Pages(s) \cup {n[2]} ELSE Pages(s)
    BY LinkedPages
<1> HIDE DEF L
<1>3. IsFiniteSet(Pages(L))
    BY <1>2, FS_AddElement DEF GoodSpace
<1>4. Root \in DOMAIN L
    BY <1>1 DEF Fits
<1>5. \A m \in DOMAIN L : L[m] \in Nat \ {0}
    BY <1>1 DEF GoodSpace
<1>6. \A m \in DOMAIN L : m[1] = Levels => m[2] \in Nat /\ m = Leaf(m[2])
    BY <1>1 DEF GoodSpace, Fits
<1>7. \A m \in DOMAIN L : L[m] \in SharedFrames <=> m \in SharedLeaves
    BY <1>1 DEF GoodSpace
<1>8. \A m \in DOMAIN s : s[m] # f
  <2> SUFFICES ASSUME NEW m \in DOMAIN s, s[m] = f
               PROVE  FALSE
      OBVIOUS
  <2>1. m \notin SharedLeaves
    BY DEF GoodSpace
  <2> QED
    BY <2>1, OwnFacts
<1>9. \A m, k \in DOMAIN L : L[m] = L[k] /\ L[m] \notin SharedFrames => m = k
    BY <1>1, <1>8 DEF GoodSpace
<1>10. GoodSpace(L)
    BY <1>3, <1>4, <1>5, <1>6, <1>7, <1>9 DEF GoodSpace
<1>11. \A g : g \in Own(L) <=> g \in Own(s) \/ g = f
    BY <1>1 DEF Own
<1> QED
    BY <1>10, <1>11 DEF L

\* A shared page.
LEMMA LinkShared ==
    ASSUME NEW s, GoodSpace(s), Root \in DOMAIN s,
           NEW v \in DOMAIN Shared, NEW f \in SharedFrames
    PROVE  GoodSpace(Linked(s, Leaf(v), f)) /\ Own(Linked(s, Leaf(v), f)) = Own(s)
<1> DEFINE n == Leaf(v)
           L == Linked(s, n, f)
<1>0. v \in Nat /\ f \in Nat \ {0}
    BY SharedFacts, AddressSpaceAssumption
<1>1. /\ DOMAIN L = DOMAIN s \cup {n} /\ L[n] = f
      /\ \A m \in DOMAIN s : m # n => L[m] = s[m]
    BY DEF Linked
<1>2. n[1] = Levels /\ n[2] = v /\ n \in SharedLeaves /\ n = Leaf(n[2])
    BY LeafFacts
<1>3. Pages(L) = Pages(s) \cup {v}
    BY <1>2, LinkedPages
<1> HIDE DEF L, n
<1>4. IsFiniteSet(Pages(L))
    BY <1>3, FS_AddElement DEF GoodSpace
<1>5. \A m \in DOMAIN L : L[m] \in Nat \ {0}
    BY <1>0, <1>1 DEF GoodSpace
<1>6. \A m \in DOMAIN L : m[1] = Levels => m[2] \in Nat /\ m = Leaf(m[2])
    BY <1>0, <1>1, <1>2 DEF GoodSpace
<1>7. \A m \in DOMAIN L : L[m] \in SharedFrames <=> m \in SharedLeaves
    BY <1>1, <1>2 DEF GoodSpace
<1>8. \A m, k \in DOMAIN L : L[m] = L[k] /\ L[m] \notin SharedFrames => m = k
    BY <1>1 DEF GoodSpace
<1>9. GoodSpace(L)
    BY <1>1, <1>4, <1>5, <1>6, <1>7, <1>8 DEF GoodSpace
<1>10. \A g : g \in Own(L) <=> \E m \in DOMAIN L : m \notin SharedLeaves /\ g = L[m]
    BY <1>9, OwnFacts
<1>11. \A g : g \in Own(s) <=> \E m \in DOMAIN s : m \notin SharedLeaves /\ g = s[m]
    BY OwnFacts
<1>12. \A g : g \in Own(L) <=> g \in Own(s)
    BY <1>1, <1>2, <1>10, <1>11
<1> QED
    BY <1>9, <1>12 DEF L, n

\* A page that is there already, with the frame it has.
LEMMA LinkSame ==
    ASSUME NEW s, GoodSpace(s), Root \in DOMAIN s, NEW n \in DOMAIN s
    PROVE  /\ GoodSpace(Linked(s, n, s[n])) /\ Own(Linked(s, n, s[n])) = Own(s)
           /\ Pages(Linked(s, n, s[n])) = Pages(s)
<1> DEFINE L == Linked(s, n, s[n])
<1>1. DOMAIN L = DOMAIN s /\ \A m \in DOMAIN s : L[m] = s[m]
    BY DEF Linked
<1> HIDE DEF L
<1>2. Pages(L) = Pages(s)
    BY <1>1 DEF Pages
<1>3. GoodSpace(L)
    BY <1>1, <1>2 DEF GoodSpace
<1>4. \A f : f \in Own(L) <=> f \in Own(s)
    BY <1>1 DEF Own
<1> QED
    BY <1>2, <1>3, <1>4 DEF L

LEMMA UnmapFacts ==
    ASSUME NEW s, GoodSpace(s), NEW S, S \subseteq Pages(s), S \cap DOMAIN Shared = {}
    PROVE  /\ GoodSpace(Unmap(s, S)) /\ Pages(Unmap(s, S)) = Pages(s) \ S
           /\ {s[Leaf(v)] : v \in S} \subseteq Own(s)
           /\ Own(Unmap(s, S)) = Own(s) \ {s[Leaf(v)] : v \in S}
           /\ Root \in DOMAIN s => Root \in DOMAIN Unmap(s, S) /\ Unmap(s, S)[Root] = s[Root]
<1> DEFINE gone == {Leaf(v) : v \in S}
           taken == {s[Leaf(v)] : v \in S}
           u == Unmap(s, S)
<1>1. DOMAIN u = DOMAIN s \ gone /\ \A n \in DOMAIN u : u[n] = s[n]
    BY DEF Unmap
<1>2. \A v \in S : Leaf(v) \in DOMAIN s /\ Leaf(v) \notin SharedLeaves
    BY PageIsLeaf, LeafFacts
<1>3. \A n \in gone : n \in DOMAIN s /\ n # Root /\ s[n] \in taken
    BY <1>2, LeafFacts
<1>4. \A f \in taken : \E n \in gone : n \in DOMAIN s /\ n \notin SharedLeaves /\ f = s[n]
    BY <1>2
<1>5. \A v : Leaf(v) \in gone <=> v \in S
    BY LeafFacts
<1> HIDE DEF gone, taken, u
<1>6. taken \subseteq Own(s)
    BY <1>4, OwnFacts
<1>7. Root \in DOMAIN s => Root \in DOMAIN u /\ u[Root] = s[Root]
    BY <1>1, <1>3
<1>8. \A v : v \in Pages(u) <=> v \in Pages(s) \ S
  <2>1. ASSUME NEW v \in Pages(u)
        PROVE  v \in Pages(s) \ S
    <3>1. PICK n \in DOMAIN u : n[1] = Levels /\ v = n[2]
      BY DEF Pages
    <3>2. n \in DOMAIN s /\ n \notin gone /\ n = Leaf(v)
      BY <1>1, <3>1 DEF GoodSpace
    <3> QED
      BY <3>1, <3>2, <1>5 DEF Pages
  <2>2. ASSUME NEW v \in Pages(s) \ S
        PROVE  v \in Pages(u)
    <3>1. Leaf(v) \in DOMAIN u
      BY <1>1, <1>5, PageIsLeaf
    <3>2. Leaf(v)[1] = Levels /\ Leaf(v)[2] = v
      BY LeafFacts
    <3> QED
      BY <3>1, <3>2 DEF Pages
  <2> QED
    BY <2>1, <2>2
<1>9. Pages(u) = Pages(s) \ S
    BY <1>8
<1>10. IsFiniteSet(Pages(u))
  <2>1. IsFiniteSet(Pages(s))
    BY DEF GoodSpace
  <2>2. IsFiniteSet(Pages(s) \ S)
    BY <2>1, FS_Difference
  <2> QED
    BY <1>9, <2>2
<1>11. u = NoSpace \/ Root \in DOMAIN u
  <2>1. CASE s = NoSpace
    <3>1. DOMAIN u = {}
      BY <1>1, <2>1, NoSpaceFacts
    <3>2. u = [n \in {} |-> 0]
      <4>1. u = [n \in DOMAIN u |-> s[n]]
        BY <1>1 DEF u, Unmap, gone
      <4> QED
        BY <3>1, <4>1
    <3> QED
      BY <3>2 DEF NoSpace
  <2>2. CASE Root \in DOMAIN s
    BY <2>2, <1>7
  <2> QED
    BY <2>1, <2>2 DEF GoodSpace
<1>12. GoodSpace(u)
  <2>1. \A n \in DOMAIN u : u[n] \in Nat \ {0}
    BY <1>1 DEF GoodSpace
  <2>2. \A n \in DOMAIN u : n[1] = Levels => n[2] \in Nat /\ n = Leaf(n[2])
    BY <1>1 DEF GoodSpace
  <2>3. \A n \in DOMAIN u : u[n] \in SharedFrames <=> n \in SharedLeaves
    BY <1>1 DEF GoodSpace
  <2>4. \A n, m \in DOMAIN u : u[n] = u[m] /\ u[n] \notin SharedFrames => n = m
    BY <1>1 DEF GoodSpace
  <2> QED
    BY <1>10, <1>11, <2>1, <2>2, <2>3, <2>4 DEF GoodSpace
<1>13. ASSUME NEW f
       PROVE  f \in Own(u) <=> f \in Own(s) \ taken
  <2>1. f \in Own(u) <=> \E n \in DOMAIN u : n \notin SharedLeaves /\ f = u[n]
    BY <1>12, OwnFacts
  <2>2. f \in Own(s) <=> \E n \in DOMAIN s : n \notin SharedLeaves /\ f = s[n]
    BY OwnFacts
  <2>3. \A n, m \in DOMAIN s : n \notin SharedLeaves /\ s[n] = s[m] => n = m
    BY DEF GoodSpace
  <2>4. ASSUME f \in Own(u)
        PROVE  f \in Own(s) \ taken
    <3>1. PICK n \in DOMAIN u : n \notin SharedLeaves /\ f = u[n]
      BY <2>1, <2>4
    <3>2. n \in DOMAIN s /\ n \notin gone /\ f = s[n]
      BY <1>1, <3>1
    <3>3. f \notin taken
      BY <1>4, <2>3, <3>1, <3>2
    <3> QED
      BY <2>2, <3>1, <3>2, <3>3
  <2>5. ASSUME f \in Own(s), f \notin taken
        PROVE  f \in Own(u)
    <3>1. PICK n \in DOMAIN s : n \notin SharedLeaves /\ f = s[n]
      BY <2>2, <2>5
    <3>2. n \notin gone
      BY <1>3, <2>5, <3>1
    <3> QED
      BY <1>1, <2>1, <3>1, <3>2
  <2> QED
    BY <2>4, <2>5
<1>14. Own(u) = Own(s) \ taken
    BY <1>13
<1> QED
    BY <1>6, <1>7, <1>9, <1>12, <1>14 DEF u, taken

-----------------------------------------------------------------------------
(***************************************************************************)
(* Sharing out the frames: taking, giving back and handing over.           *)
(***************************************************************************)
\* Frames that were free go to one place.
LEMMA GiveSplits ==
    ASSUME NEW d, NEW e, NEW b, Splits(d, b), NEW x \in Places, NEW S, S \cap b = {},
           e[x] = d[x] \cup S, \A y \in Places : y # x => e[y] = d[y]
    PROVE  Splits(e, b \cup S)
<1>1. \A y \in Places : d[y] \subseteq b
    BY DEF Splits
<1>2. S \cap Reserved = {} /\ Reserved \subseteq b
    BY DEF Splits
<1>3. ASSUME NEW y \in Places, NEW z \in Places, y # z
      PROVE  e[y] \cap e[z] = {}
  <2>1. d[y] \cap d[z] = {} /\ d[y] \cap S = {} /\ d[z] \cap S = {}
    BY <1>1, <1>3 DEF Splits
  <2>2. (e[y] = d[y] \/ e[y] = d[y] \cup S) /\ (e[z] = d[z] \/ e[z] = d[z] \cup S)
        /\ (e[y] = d[y] \/ e[z] = d[z])
    BY <1>3
  <2> QED
    BY <2>1, <2>2
<1>4. ASSUME NEW y \in Places
      PROVE  e[y] \cap Reserved = {}
  <2>1. d[y] \cap Reserved = {}
    BY DEF Splits
  <2>2. e[y] = d[y] \/ e[y] = d[y] \cup S
    OBVIOUS
  <2> QED
    BY <1>2, <2>1, <2>2
<1>5. ASSUME NEW f
      PROVE  f \in b \cup S <=> f \in Reserved \cup UNION {e[y] : y \in Places}
  <2>1. f \in b <=> f \in Reserved \/ \E y \in Places : f \in d[y]
    BY DEF Splits
  <2>2. (\E y \in Places : f \in e[y]) <=> (\E y \in Places : f \in d[y]) \/ f \in S
    OBVIOUS
  <2> QED
    BY <2>1, <2>2
<1>6. b \cup S = Reserved \cup UNION {e[y] : y \in Places}
    BY <1>5
<1> QED
    BY <1>3, <1>4, <1>6 DEF Splits

\* Frames some places hold are given back.
LEMMA LoseSplits ==
    ASSUME NEW d, NEW e, NEW b, Splits(d, b), NEW S,
           \A f \in S : \E y \in Places : f \in d[y],
           \A y \in Places : e[y] = d[y] \ S
    PROVE  Splits(e, b \ S)
<1>1. ASSUME NEW y \in Places, NEW z \in Places, y # z
      PROVE  e[y] \cap e[z] = {}
    BY <1>1 DEF Splits
<1>2. ASSUME NEW y \in Places
      PROVE  e[y] \cap Reserved = {}
    BY DEF Splits
<1>3. S \cap Reserved = {}
    BY DEF Splits
<1>4. ASSUME NEW f
      PROVE  f \in b \ S <=> f \in Reserved \cup UNION {e[y] : y \in Places}
  <2>1. f \in b <=> f \in Reserved \/ \E y \in Places : f \in d[y]
    BY DEF Splits
  <2>2. (\E y \in Places : f \in e[y]) <=> (\E y \in Places : f \in d[y]) /\ f \notin S
    OBVIOUS
  <2> QED
    BY <1>3, <2>1, <2>2
<1>5. b \ S = Reserved \cup UNION {e[y] : y \in Places}
    BY <1>4
<1> QED
    BY <1>1, <1>2, <1>5 DEF Splits

\* Places give back all they hold.
LEMMA EmptySplits ==
    ASSUME NEW d, NEW e, NEW b, Splits(d, b), NEW X, X \subseteq Places,
           NEW S, \A f : f \in S <=> \E y \in X : f \in d[y],
           \A y \in X : e[y] = {}, \A y \in Places \ X : e[y] = d[y]
    PROVE  Splits(e, b \ S)
<1>1. \A f \in S : \E y \in Places : f \in d[y]
    OBVIOUS
<1>2. ASSUME NEW y \in Places
      PROVE  e[y] = d[y] \ S
  <2>1. CASE y \in X
    BY <2>1
  <2>2. CASE y \notin X
    <3>1. \A x \in X : d[x] \cap d[y] = {}
      BY <2>2 DEF Splits
    <3>2. d[y] \cap S = {}
      BY <3>1
    <3>3. e[y] = d[y]
      BY <2>2
    <3> QED
      BY <3>2, <3>3
  <2> QED
    BY <2>1, <2>2
<1> QED
    BY <1>1, <1>2, LoseSplits

\* One place hands frames over to another.
LEMMA ShiftSplits ==
    ASSUME NEW d, NEW e, NEW b, Splits(d, b), NEW x \in Places, NEW y \in Places, x # y,
           NEW S, S \subseteq d[x], e[x] = d[x] \ S, e[y] = d[y] \cup S,
           \A z \in Places : z # x /\ z # y => e[z] = d[z]
    PROVE  Splits(e, b)
<1>1. \A z, w \in Places : z # w => d[z] \cap d[w] = {}
    BY DEF Splits
<1>2. ASSUME NEW z \in Places, NEW w \in Places, z # w
      PROVE  e[z] \cap e[w] = {}
  <2>1. /\ z # x => d[z] \cap S = {}
        /\ w # x => d[w] \cap S = {}
    BY <1>1
  <2>2. d[z] \cap d[w] = {}
    BY <1>1, <1>2
  <2>3. /\ \/ (z = x /\ e[z] = d[z] \ S)
           \/ (z = y /\ e[z] = d[z] \cup S)
           \/ (z # x /\ z # y /\ e[z] = d[z])
        /\ \/ (w = x /\ e[w] = d[w] \ S)
           \/ (w = y /\ e[w] = d[w] \cup S)
           \/ (w # x /\ w # y /\ e[w] = d[w])
    OBVIOUS
  <2> QED
    BY <1>2, <2>1, <2>2, <2>3
<1>3. ASSUME NEW z \in Places
      PROVE  e[z] \cap Reserved = {}
    BY DEF Splits
<1>4. ASSUME NEW f
      PROVE  f \in b <=> f \in Reserved \cup UNION {e[z] : z \in Places}
  <2>1. f \in b <=> f \in Reserved \/ \E z \in Places : f \in d[z]
    BY DEF Splits
  <2>2. (\E z \in Places : f \in e[z]) <=> (\E z \in Places : f \in d[z])
    OBVIOUS
  <2> QED
    BY <2>1, <2>2
<1>5. b = Reserved \cup UNION {e[z] : z \in Places}
    BY <1>4
<1> QED
    BY <1>2, <1>3, <1>5 DEF Splits

\* Two places change what they hold.
LEMMA SwapSplits ==
    ASSUME NEW d, NEW e, NEW b, Splits(d, b), NEW x \in Places, NEW y \in Places,
           e[x] = d[y], e[y] = d[x],
           \A z \in Places : z # x /\ z # y => e[z] = d[z]
    PROVE  Splits(e, b)
<1>1. ASSUME NEW z \in Places, NEW w \in Places, z # w
      PROVE  e[z] \cap e[w] = {}
    BY <1>1 DEF Splits
<1>2. ASSUME NEW z \in Places
      PROVE  e[z] \cap Reserved = {}
    BY DEF Splits
<1>3. ASSUME NEW f
      PROVE  f \in b <=> f \in Reserved \cup UNION {e[z] : z \in Places}
  <2>1. f \in b <=> f \in Reserved \/ \E z \in Places : f \in d[z]
    BY DEF Splits
  <2>2. (\E z \in Places : f \in e[z]) <=> (\E z \in Places : f \in d[z])
    OBVIOUS
  <2> QED
    BY <2>1, <2>2
<1>4. b = Reserved \cup UNION {e[z] : z \in Places}
    BY <1>3
<1> QED
    BY <1>1, <1>2, <1>4 DEF Splits

LEMMA SameSplits ==
    ASSUME NEW d, NEW e, NEW b, Splits(d, b), \A z \in Places : e[z] = d[z]
    PROVE  Splits(e, b)
<1>1. \A f \in {} : \E z \in Places : f \in d[z]
    OBVIOUS
<1>2. \A z \in Places : e[z] = d[z] \ {}
    OBVIOUS
<1>3. Splits(e, b \ {})
    BY <1>1, <1>2, LoseSplits
<1>4. b \ {} = b
    OBVIOUS
<1> QED
    BY <1>3, <1>4

\* The places of this component.
Home(t) == <<t, "space">>
Stacks(t) == <<t, "stack">>

LEMMA PlaceFacts ==
    /\ \A t \in Ids : Home(t) \in Places /\ Stacks(t) \in Places
    /\ \A t, u : Home(t) # Stacks(u) /\ (Home(t) = Home(u) => t = u) /\ (Stacks(t) = Stacks(u) => t = u)
    /\ \A z \in Places : \E t \in Ids : z = Home(t) \/ z = Stacks(t)
BY DEF Home, Stacks, Places

LEMMA PartAt ==
    /\ \A t \in Ids : Part[Home(t)] = Own(space[t])
    /\ Part[Stacks(Img)] = TempLeaf
    /\ \A t \in Task : Part[Stacks(t)] = kstack[t]
<1>1. \A t \in Ids : Home(t) \in Places /\ Stacks(t) \in Places
    BY PlaceFacts
<1>2. Img \in Ids /\ Task \subseteq Ids /\ Img \notin Task
    BY AddressSpaceAssumption DEF Ids
<1>3. \A t \in Ids : Part[Home(t)] = Own(space[t])
    BY <1>1 DEF Part, Home
<1>4. \A t \in Ids : Part[Stacks(t)] = IF t = Img THEN TempLeaf ELSE kstack[t]
    BY <1>1 DEF Part, Stacks
<1> QED
    BY <1>2, <1>3, <1>4

LEMMA PartAtNext ==
    /\ \A t \in Ids : Part'[Home(t)] = Own(space'[t])
    /\ Part'[Stacks(Img)] = TempLeaf'
    /\ \A t \in Task : Part'[Stacks(t)] = kstack'[t]
<1>1. \A t \in Ids : Home(t) \in Places /\ Stacks(t) \in Places
    BY PlaceFacts
<1>2. Img \in Ids /\ Task \subseteq Ids /\ Img \notin Task
    BY AddressSpaceAssumption DEF Ids
<1>3. \A t \in Ids : Part'[Home(t)] = Own(space'[t])
    BY <1>1 DEF Part, Home
<1>4. \A t \in Ids : Part'[Stacks(t)] = IF t = Img THEN TempLeaf' ELSE kstack'[t]
    BY <1>1 DEF Part, Stacks
<1> QED
    BY <1>2, <1>3, <1>4

\* Whatever is free is in no place, no shared frame and not frame 0.
LEMMA FreeFrame ==
    ASSUME Types, Splits(Part, bits), NEW f \in F!Free
    PROVE  /\ f \in Nat \ {0} /\ f \notin bits /\ f \notin SharedFrames
           /\ \A t \in Ids : f \notin Own(space[t])
<1>1. f \in Nat \ {0} /\ f \notin bits
    BY DEF F!Free, Types
<1>2. Reserved \subseteq bits /\ \A x \in Places : Part[x] \subseteq bits
    BY DEF Splits
<1>3. f \notin SharedFrames
    BY <1>1, <1>2, SharedFacts
<1>4. \A t \in Ids : f \notin Own(space[t])
    BY <1>1, <1>2, PartAt, PlaceFacts
<1> QED
    BY <1>1, <1>3, <1>4

-----------------------------------------------------------------------------
(***************************************************************************)
(* Steps that end a call, or that no call is part of.                      *)
(***************************************************************************)
LEMMA IdleFacts ==
    /\ Idle \in Calls
    /\ Idle.kind = "idle" /\ Idle.leaf = 0 /\ Idle.todo = <<>>
BY DEF Idle, Calls, Kinds, Runners, NoFrame

LEMMA IdleStep ==
    ASSUME Types', Spaces', Splits(Part, bits)', Lives',
           op' = Idle, space'[Img] = NoSpace,
           \A t \in Task : life'[t] = "alive" => Heaped(space'[t], brk'[t], RoundUp(brk'[t]))
    PROVE  AInv'
<1>1. op'.kind = "idle" /\ op'.leaf = 0 /\ op'.todo = <<>>
    BY IdleFacts
<1>2. Caller'
    BY <1>1 DEF Caller
<1>3. Construction'
    BY <1>1 DEF Construction, NeedsRoot, Building
<1>4. Unmapped' /\ Growth' /\ Faulting'
    BY <1>1 DEF Unmapped, Growth, Faulting, NoFrame
<1>5. Heaps'
    BY <1>1 DEF Heaps, HeapEnd
<1> QED
    BY <1>2, <1>3, <1>4, <1>5 DEF AInv

\* What is so between two calls.
LEMMA WhenIdle ==
    ASSUME AInv, op = Idle
    PROVE  /\ op.kind = "idle" /\ TempLeaf = {} /\ space[Img] = NoSpace
           /\ loaded = Pml4(current)
           /\ \A t \in Task : life[t] = "none" => kstack[t] = {}
           /\ \A t \in Task : life[t] = "alive" => Heaped(space[t], brk[t], RoundUp(brk[t]))
<1>1. op.kind = "idle" /\ op.leaf = 0
    BY IdleFacts
<1> QED
    BY <1>1 DEF AInv, TempLeaf, NoFrame, Construction, Lives, Heaps, HeapEnd

\* A task dies.
LEMMA DieStep ==
    ASSUME AInv, NEW p \in Task, Die(p)
    PROVE  AInv'
<1>1. /\ op = Idle /\ op' = op /\ space' = space /\ kstack' = kstack /\ brk' = brk
      /\ current' = current /\ loaded' = loaded /\ memmap' = memmap /\ bits' = bits
      /\ life[p] = "alive" /\ life' = [life EXCEPT ![p] = "dead"]
    BY DEF Die, Runs, pmm, cpu
<1>2. life \in [Task -> {"none", "alive", "dead"}]
    BY DEF AInv, Types
<1>3. life' \in [Task -> {"none", "alive", "dead"}]
      /\ \A t \in Task : (life'[t] = "none" <=> life[t] = "none") /\ (life'[t] = "alive" => life[t] = "alive")
    BY <1>1, <1>2
<1>4. Types'
    BY <1>1, <1>3 DEF AInv, Types, F!total
<1>5. Spaces'
    BY <1>1 DEF AInv, Spaces
<1>6. Splits(Part, bits)'
  <2>1. Part' = Part
    BY <1>1 DEF Part, TempLeaf
  <2> QED
    BY <1>1, <2>1 DEF AInv, Splits
<1>7. Lives'
  <2>1. Pml4(current)' = Pml4(current)
    BY <1>1 DEF Pml4
  <2> QED
    BY <1>1, <1>3, <2>1 DEF AInv, Lives
<1>8. \A t \in Task : life'[t] = "alive" => Heaped(space'[t], brk'[t], RoundUp(brk'[t]))
    BY <1>1, <1>3, WhenIdle
<1> QED
    BY <1>1, <1>4, <1>5, <1>6, <1>7, <1>8, IdleStep, WhenIdle

LEMMA SchedStep ==
    ASSUME AInv, NEW q \in Task \cup {Kernel}, Sched(q)
    PROVE  AInv'
<1>1. /\ op = Idle /\ op' = op /\ space' = space /\ kstack' = kstack /\ brk' = brk
      /\ current' = q /\ memmap' = memmap /\ bits' = bits /\ life' = life
      /\ loaded' = IF Pml4(q) = Pml4(current) THEN loaded ELSE Pml4(q)
      /\ q # Kernel => life[q] = "alive"
    BY DEF Sched, pmm, tasks
<1>2. Types'
    BY <1>1 DEF AInv, Types, F!total, Runners
<1>3. Spaces'
    BY <1>1 DEF AInv, Spaces
<1>4. Splits(Part, bits)'
  <2>1. Part' = Part
    BY <1>1 DEF Part, TempLeaf
  <2> QED
    BY <1>1, <2>1 DEF AInv, Splits
<1>5. Lives'
  <2>1. loaded' = Pml4(q) /\ Pml4(current)' = Pml4(q)
    BY <1>1, WhenIdle DEF Pml4
  <2>2. q \in Task => life[q] # "none"
    BY <1>1, AddressSpaceAssumption
  <2>3. op.kind # "load"
    BY <1>1, WhenIdle
  <2> QED
    BY <1>1, <2>1, <2>2, <2>3 DEF AInv, Lives
<1>6. \A t \in Task : life'[t] = "alive" => Heaped(space'[t], brk'[t], RoundUp(brk'[t]))
    BY <1>1, WhenIdle
<1> QED
    BY <1>1, <1>2, <1>3, <1>4, <1>5, <1>6, IdleStep, WhenIdle

LEMMA ReapStep ==
    ASSUME AInv, NEW c \in Task, Reap(c)
    PROVE  AInv'
<1>1. /\ op = Idle /\ op' = op /\ life[c] = "dead" /\ (current # Kernel => life[current] = "alive")
      /\ space' = [space EXCEPT ![c] = NoSpace] /\ kstack' = [kstack EXCEPT ![c] = {}]
      /\ life' = [life EXCEPT ![c] = "none"] /\ brk' = [brk EXCEPT ![c] = 0]
      /\ current' = current /\ loaded' = loaded /\ memmap' = memmap
      /\ bits' = bits \ (Own(space[c]) \cup kstack[c])
    BY DEF Reap, Runs, cpu, F!Put
<1>2. Types /\ c \in Ids /\ Img \in Ids /\ c # Img
    BY AddressSpaceAssumption DEF AInv, Ids
<1>3. /\ DOMAIN space' = Ids /\ space'[c] = NoSpace /\ \A t \in Ids : t # c => space'[t] = space[t]
      /\ kstack' \in [Task -> SUBSET Nat] /\ kstack'[c] = {} /\ \A t \in Task : t # c => kstack'[t] = kstack[t]
      /\ life' \in [Task -> {"none", "alive", "dead"}] /\ life'[c] = "none"
      /\ \A t \in Task : t # c => life'[t] = life[t]
      /\ brk' \in [Task -> Nat] /\ \A t \in Task : t # c => brk'[t] = brk[t]
    BY <1>1, <1>2 DEF Types
<1>4. Types'
    BY <1>1, <1>2, <1>3 DEF Types, F!total
<1>5. Spaces'
    BY <1>3, NoSpaceFacts DEF AInv, Spaces
<1>6. Splits(Part, bits)'
  <2> DEFINE X == {Home(c), Stacks(c)}
             S == Own(space[c]) \cup kstack[c]
  <2>1. Splits(Part, bits) /\ X \subseteq Places
    BY <1>2, PlaceFacts DEF AInv
  <2>2. \A f : f \in S <=> \E y \in X : f \in Part[y]
    BY <1>2, PartAt
  <2>3. \A y \in X : Part'[y] = {}
    BY <1>2, <1>3, PartAtNext, NoSpaceFacts
  <2>4. ASSUME NEW y \in Places \ X
        PROVE  Part'[y] = Part[y]
    <3>1. PICK t \in Ids : y = Home(t) \/ y = Stacks(t)
      BY PlaceFacts
    <3>2. t # c
      BY <2>4, <3>1
    <3>3. CASE y = Home(t)
      BY <3>2, <3>3, <1>3, PartAt, PartAtNext
    <3>4. CASE y = Stacks(t) /\ t = Img
      <4>1. TempLeaf' = TempLeaf
        BY <1>1 DEF TempLeaf
      <4> QED
        BY <3>4, <4>1, PartAt, PartAtNext
    <3>5. CASE y = Stacks(t) /\ t \in Task
      BY <3>2, <3>5, <1>3, PartAt, PartAtNext
    <3> QED
      BY <3>1, <3>3, <3>4, <3>5 DEF Ids
  <2>5. bits' = bits \ S
    BY <1>1
  <2> HIDE DEF S, X
  <2>6. Splits(Part', bits \ S)
    BY <2>1, <2>2, <2>3, <2>4, EmptySplits
  <2> QED
    BY <2>5, <2>6 DEF Splits
<1>7. Lives'
  <2>1. current # c
    <3>1. life[c] # "alive" /\ c # Kernel
      BY <1>1, AddressSpaceAssumption
    <3> QED
      BY <1>1, <3>1
  <2>2. current \in Task => space'[current] = space[current]
    BY <2>1, <1>3 DEF Ids
  <2>3. Pml4(current)' = Pml4(current)
    <3>1. current \in Task \cup {Kernel}
      BY <1>2 DEF Types, Runners
    <3> QED
      BY <1>1, <2>2, <3>1 DEF Pml4
  <2>4. loaded' = Pml4(current)' /\ op'.kind = "idle"
    BY <1>1, <2>3, WhenIdle
  <2>5. current' \in Task => life'[current'] # "none"
    BY <1>1, <1>3, <2>1 DEF AInv, Lives
  <2>6. ASSUME NEW t \in Task
        PROVE  /\ life'[t] # "none" => Root \in DOMAIN space'[t]
               /\ life'[t] = "none" => space'[t] = NoSpace /\ kstack'[t] = {}
    <3>1. t \in Ids
      BY DEF Ids
    <3>2. CASE t = c
      BY <3>2, <1>3
    <3>3. CASE t # c
      <4>1. space'[t] = space[t] /\ kstack'[t] = kstack[t] /\ life'[t] = life[t]
        BY <3>1, <3>3, <1>3
      <4>2. /\ life[t] # "none" => Root \in DOMAIN space[t]
            /\ life[t] = "none" => space[t] = NoSpace /\ kstack[t] = {}
        BY <1>1, WhenIdle DEF AInv, Lives
      <4> QED
        BY <4>1, <4>2
    <3> QED
      BY <3>2, <3>3
  <2> QED
    BY <2>4, <2>5, <2>6 DEF Lives
<1>8. \A t \in Task : life'[t] = "alive" => Heaped(space'[t], brk'[t], RoundUp(brk'[t]))
  <2> SUFFICES ASSUME NEW t \in Task, life'[t] = "alive"
               PROVE  Heaped(space'[t], brk'[t], RoundUp(brk'[t]))
      OBVIOUS
  <2>1. t # c /\ t \in Ids
    BY <1>3 DEF Ids
  <2>2. life[t] = "alive" /\ space'[t] = space[t] /\ brk'[t] = brk[t]
    BY <2>1, <1>3
  <2> QED
    BY <1>1, <2>2, WhenIdle
<1>9. space'[Img] = NoSpace
    BY <1>1, <1>2, <1>3, WhenIdle
<1> QED
    BY <1>1, <1>4, <1>5, <1>6, <1>7, <1>8, <1>9, IdleStep

-----------------------------------------------------------------------------
(***************************************************************************)
(* Steps that begin a call.                                                *)
(***************************************************************************)
LEMMA BeginFields ==
    ASSUME NEW kind, NEW p, NEW c, NEW todo, NEW end, Begin(kind, p, c, todo, end)
    PROVE  /\ op'.kind = kind /\ op'.by = p /\ op'.for = c /\ op'.todo = todo
           /\ op'.leaf = 0 /\ op'.brk = end
           /\ op' = [kind |-> kind, by |-> p, for |-> c, todo |-> todo, leaf |-> 0, brk |-> end]
BY DEF Begin, NoFrame

LEMMA BeginStep ==
    ASSUME AInv, op = Idle, NEW p \in Task, current = p, life[p] = "alive",
           NEW kind \in {"fork", "spawn", "exec", "sbrk", "fault"}, NEW c \in Runners,
           NEW todo \in Seq(Nat), NEW end \in Nat, Begin(kind, p, c, todo, end),
           kind \in {"fork", "spawn", "exec"} => todo = <<>>,
           kind = "fork" => c \in Task /\ life[c] = "none",
           kind = "sbrk" => RoundUp(end) - Len(todo) = RoundUp(brk[p]),
           kstack' \in [Task -> SUBSET Nat],
           \A t \in Task : kstack'[t] = kstack[t] \/ (kind = "fork" /\ c = t),
           memmap' = memmap, space' = space, life' = life, brk' = brk,
           current' = current, loaded' = loaded,
           Splits(Part, bits)', Growth', Faulting'
    PROVE  AInv'
<1>1. /\ op'.kind = kind /\ op'.by = p /\ op'.for = c /\ op'.todo = todo
      /\ op'.leaf = 0 /\ op'.brk = end
    BY BeginFields
<1>2. op' \in Calls
    BY BeginFields DEF Calls, Kinds, Runners
<1>3. Types'
    BY <1>2 DEF AInv, Types, F!total
<1>4. Spaces'
    BY DEF AInv, Spaces
<1>5. Caller'
    BY <1>1 DEF Caller
<1>6. Construction'
  <2>1. space'[Img] = NoSpace
    BY WhenIdle
  <2>2. ToSet(<<>>) = {} /\ DOMAIN <<>> = {}
    BY DEF ToSet
  <2>3. op'.kind \notin {"load", "free"}
    BY <1>1
  <2>4. NeedsRoot' => op'.todo = <<>>
    BY <1>1 DEF NeedsRoot, Building
  <2>5. Building' => NeedsRoot'
    BY <2>1 DEF NeedsRoot
  <2>6. op'.kind = "fork" => op'.todo = <<>>
    BY <1>1
  <2> QED
    BY <2>1, <2>2, <2>3, <2>4, <2>5, <2>6 DEF Construction
<1>7. Unmapped'
    BY <1>1 DEF Unmapped, NoFrame
<1>8. Heaps'
  <2> SUFFICES ASSUME NEW t \in Task, life[t] = "alive"
               PROVE  Heaped(space[t], brk[t], HeapEnd(t)')
      BY DEF Heaps
  <2>1. Heaped(space[t], brk[t], RoundUp(brk[t]))
    BY WhenIdle
  <2>2. HeapEnd(t)' = RoundUp(brk[t])
    BY <1>1 DEF HeapEnd, Frontier
  <2> QED
    BY <2>1, <2>2
<1>9. Lives'
  <2>1. op'.kind # "load" /\ op.kind # "load"
    BY <1>1, WhenIdle
  <2>2. Pml4(current)' = Pml4(current)
    BY DEF Pml4
  <2>3. \A t \in Task : life[t] = "none" => kstack'[t] = {} \/ (op'.kind = "fork" /\ op'.for = t)
    BY <1>1, WhenIdle
  <2> QED
    BY <2>1, <2>2, <2>3 DEF AInv, Lives
<1> QED
    BY <1>3, <1>4, <1>5, <1>6, <1>7, <1>8, <1>9 DEF AInv

\* The calls that take nothing yet.
LEMMA SamePart ==
    ASSUME AInv, op = Idle, op'.leaf = 0, space' = space, kstack' = kstack, bits' = bits
    PROVE  Splits(Part, bits)'
<1>1. TempLeaf' = {} /\ TempLeaf = {}
    BY WhenIdle DEF TempLeaf, NoFrame
<1>2. Part' = Part
    BY <1>1 DEF Part
<1> QED
    BY <1>2 DEF AInv, Splits

LEMMA BeginForkStep ==
    ASSUME AInv, NEW p \in Task, NEW c \in Task, BeginFork(p, c)
    PROVE  AInv'
<1>1. /\ op = Idle /\ current = p /\ life[p] = "alive" /\ life[c] = "none"
      /\ life' = life /\ brk' = brk /\ space' = space /\ current' = current /\ loaded' = loaded
      /\ memmap' = memmap /\ Begin("fork", p, c, <<>>, 0)
    BY AddressSpaceAssumption DEF BeginFork, Runs, cpu, F!Set
<1>2. PICK f \in F!LowestRun(StackFrames) :
        /\ bits' = bits \cup f..(f + StackFrames - 1)
        /\ kstack' = [kstack EXCEPT ![c] = f..(f + StackFrames - 1)]
    BY DEF BeginFork, F!Set
<1> DEFINE S == f..(f + StackFrames - 1)
<1>3. S \subseteq F!Free
    BY DEF F!LowestRun, F!IsRun
<1>4. S \subseteq Nat /\ S \cap bits = {}
  <2>1. F!Free \subseteq Nat
    BY FreeFrame DEF AInv
  <2>2. F!Free \cap bits = {}
    BY FreeFrame DEF AInv
  <2> QED
    BY <1>3, <2>1, <2>2
<1> HIDE DEF S
<1>5. /\ kstack' \in [Task -> SUBSET Nat] /\ kstack'[c] = S
      /\ \A t \in Task : t # c => kstack'[t] = kstack[t]
  <2>1. kstack \in [Task -> SUBSET Nat] /\ kstack' = [kstack EXCEPT ![c] = S]
    BY <1>2 DEF AInv, Types, S
  <2> QED
    BY <2>1, <1>4
<1>6. op'.kind = "fork" /\ op'.leaf = 0
    BY <1>1, BeginFields
<1>7. Splits(Part, bits)'
  <2>1. kstack[c] = {} /\ TempLeaf = {} /\ TempLeaf' = {}
    BY <1>1, <1>6, WhenIdle DEF TempLeaf, NoFrame
  <2>2. c \in Ids /\ Stacks(c) \in Places
    BY PlaceFacts DEF Ids
  <2>3. Part'[Stacks(c)] = Part[Stacks(c)] \cup S
    BY <1>5, <2>1, PartAt, PartAtNext
  <2>4. ASSUME NEW y \in Places, y # Stacks(c)
        PROVE  Part'[y] = Part[y]
    <3>1. PICK t \in Ids : y = Home(t) \/ y = Stacks(t)
      BY PlaceFacts
    <3>2. CASE y = Home(t)
      BY <3>2, <1>1, PartAt, PartAtNext
    <3>3. CASE y = Stacks(t) /\ t = Img
      BY <3>3, <2>1, PartAt, PartAtNext
    <3>4. CASE y = Stacks(t) /\ t \in Task
      BY <2>4, <3>4, <1>5, PartAt, PartAtNext
    <3> QED
      BY <3>1, <3>2, <3>3, <3>4 DEF Ids
  <2>5. Splits(Part', bits \cup S)
    BY <1>4, <2>2, <2>3, <2>4, GiveSplits DEF AInv
  <2>6. bits' = bits \cup S
    BY <1>2 DEF S
  <2> QED
    BY <2>5, <2>6 DEF Splits
<1>8. Growth' /\ Faulting'
    BY <1>6 DEF Growth, Faulting
<1>9. <<>> \in Seq(Nat) /\ 0 \in Nat /\ c \in Runners
    BY DEF Runners
<1> QED
    BY <1>1, <1>5, <1>7, <1>8, <1>9, BeginStep

LEMMA BeginImageStep ==
    ASSUME AInv, NEW p \in Task, BeginSpawn(p) \/ BeginExec(p)
    PROVE  AInv'
<1>1. PICK kind \in {"spawn", "exec"} : Begin(kind, p, Kernel, <<>>, 0)
    BY DEF BeginSpawn, BeginExec
<1>2. /\ op = Idle /\ current = p /\ life[p] = "alive"
      /\ life' = life /\ brk' = brk /\ kstack' = kstack /\ space' = space
      /\ current' = current /\ loaded' = loaded /\ memmap' = memmap /\ bits' = bits
    BY AddressSpaceAssumption DEF BeginSpawn, BeginExec, Runs, cpu, pmm, tasks
<1>3. op'.kind = kind /\ op'.leaf = 0
    BY <1>1, BeginFields
<1>4. Splits(Part, bits)'
    BY <1>2, <1>3, SamePart
<1>5. Growth' /\ Faulting'
    BY <1>3 DEF Growth, Faulting
<1>6. <<>> \in Seq(Nat) /\ 0 \in Nat /\ Kernel \in Runners
    BY DEF Runners
<1>7. kstack' \in [Task -> SUBSET Nat]
    BY <1>2 DEF AInv, Types
<1> QED
    BY <1>1, <1>2, <1>4, <1>5, <1>6, <1>7, BeginStep

LEMMA BeginFaultStep ==
    ASSUME AInv, NEW p \in Task, NEW v \in Stack, BeginFault(p, v)
    PROVE  AInv'
<1>1. /\ op = Idle /\ current = p /\ life[p] = "alive" /\ v \in Stack \ Pages(space[p])
      /\ life' = life /\ brk' = brk /\ kstack' = kstack /\ space' = space
      /\ current' = current /\ loaded' = loaded /\ memmap' = memmap /\ bits' = bits
      /\ Begin("fault", p, Kernel, <<v>>, 0)
    BY AddressSpaceAssumption DEF BeginFault, Runs, cpu, pmm, tasks
<1>2. op'.kind = "fault" /\ op'.leaf = 0 /\ op'.by = p /\ op'.todo = <<v>>
    BY <1>1, BeginFields
<1>3. Splits(Part, bits)'
    BY <1>1, <1>2, SamePart
<1>4. Growth' /\ Faulting'
    BY <1>1, <1>2 DEF Growth, Faulting
<1>5. <<v>> \in Seq(Nat) /\ 0 \in Nat /\ Kernel \in Runners
    BY AddressSpaceAssumption DEF Runners
<1>6. kstack' \in [Task -> SUBSET Nat]
    BY <1>1 DEF AInv, Types
<1> QED
    BY <1>1, <1>3, <1>4, <1>5, <1>6, BeginStep

LEMMA BeginGrowStep ==
    ASSUME AInv, NEW p \in Task, NEW inc \in Increments, BeginGrow(p, inc)
    PROVE  AInv'
<1> DEFINE old == brk[p]
           end == brk[p] + inc
           n == RoundUp(end) - RoundUp(old)
           todo == [i \in 1..n |-> RoundUp(old) + i - 1]
<1>1. /\ op = Idle /\ current = p /\ life[p] = "alive" /\ inc \in 1..HeapMax /\ end <= HeapTop
      /\ life' = life /\ brk' = brk /\ kstack' = kstack /\ space' = space
      /\ current' = current /\ loaded' = loaded /\ memmap' = memmap /\ bits' = bits
      /\ Begin("sbrk", p, Kernel, todo, end)
    BY AddressSpaceAssumption DEF BeginGrow, Runs, cpu, pmm, tasks
<1>2. op'.kind = "sbrk" /\ op'.leaf = 0 /\ op'.by = p /\ op'.todo = todo /\ op'.brk = end
    BY <1>1, BeginFields
<1>3. old \in Nat /\ end \in Nat /\ old < end
    BY <1>1 DEF AInv, Types
<1>4. RoundUp(old) \in Nat /\ RoundUp(end) \in Nat /\ RoundUp(old) <= RoundUp(end)
    BY <1>3, RoundUpBound, RoundUpMonotone
<1>5. n \in Nat
    BY <1>4
<1>6. todo \in Seq(Nat) /\ Len(todo) = n /\ \A i \in 1..n : todo[i] = RoundUp(old) + i - 1
    BY <1>4, <1>5
<1>7. RoundUp(end) - Len(todo) = RoundUp(old)
    BY <1>4, <1>6
<1>8. old = brk[p]
    OBVIOUS
<1> HIDE DEF old, end, n, todo
<1>9. Splits(Part, bits)'
    BY <1>1, <1>2, SamePart
<1>10. Growth' /\ Faulting'
  <2>1. Frontier' = RoundUp(old)
    BY <1>2, <1>7 DEF Frontier
  <2>2. Len(op'.todo) = n
    BY <1>2, <1>6
  <2> QED
    BY <1>1, <1>2, <1>3, <1>4, <1>6, <1>8, <2>1, <2>2 DEF Growth, Faulting
<1>11. Kernel \in Runners
    BY DEF Runners
<1>12. kstack' \in [Task -> SUBSET Nat]
    BY <1>1 DEF AInv, Types
<1> QED
    BY <1>1, <1>3, <1>6, <1>7, <1>8, <1>9, <1>10, <1>11, <1>12, BeginStep

-----------------------------------------------------------------------------
(***************************************************************************)
(* Heap pages that go.                                                     *)
(***************************************************************************)
\* Without the heap pages from low on, the heap ends at low.
LEMMA UnmapHeap ==
    ASSUME NEW s, GoodSpace(s), NEW low \in Nat, NEW high \in Nat,
           HeapBase <= low, low <= high,
           Pages(s) \cap HeapPages = HeapBase..(high - 1),
           NEW S, S = (low..(high - 1)) \cap Pages(s)
    PROVE  /\ S \subseteq Pages(s) /\ S \cap DOMAIN Shared = {}
           /\ Pages(Unmap(s, S)) \cap HeapPages = HeapBase..(low - 1)
           /\ Pages(Unmap(s, S)) \ HeapPages = Pages(s) \ HeapPages
<1>1. HeapBase \in Nat /\ Image \cap HeapPages = {}
    BY AddressSpaceAssumption
<1>2. DOMAIN Shared \subseteq Image
    BY DEF Image
<1>3. low..(high - 1) \subseteq HeapBase..(high - 1)
    BY <1>1
<1>4. S = low..(high - 1) /\ S \subseteq HeapPages
    BY <1>3
<1>5. S \cap DOMAIN Shared = {}
    BY <1>1, <1>2, <1>4
<1>6. Pages(Unmap(s, S)) = Pages(s) \ S
    BY <1>5, UnmapFacts
<1>7. (HeapBase..(high - 1)) \ (low..(high - 1)) = HeapBase..(low - 1)
    BY <1>1
<1>8. (Pages(s) \ S) \cap HeapPages = (HeapBase..(high - 1)) \ S
    OBVIOUS
<1>9. (Pages(s) \ S) \ HeapPages = Pages(s) \ HeapPages
    BY <1>4
<1> QED
    BY <1>4, <1>5, <1>6, <1>7, <1>8, <1>9

LEMMA ShrinkStep ==
    ASSUME AInv, NEW p \in Task, NEW dec \in Increments, Shrink(p, dec)
    PROVE  AInv'
<1> DEFINE new == brk[p] - dec
           S == (RoundUp(new)..(RoundUp(brk[p]) - 1)) \cap Pages(space[p])
           taken == {space[p][Leaf(v)] : v \in S}
<1>1. /\ op = Idle /\ op' = op /\ current = p /\ life[p] = "alive"
      /\ dec > 0 /\ new >= HeapBase * PageSize
      /\ space' = [space EXCEPT ![p] = Unmap(@, S)] /\ brk' = [brk EXCEPT ![p] = new]
      /\ life' = life /\ kstack' = kstack /\ current' = current /\ loaded' = loaded
      /\ memmap' = memmap /\ bits' = bits \ taken
    BY AddressSpaceAssumption DEF Shrink, Runs, cpu, F!Put
<1>2. Types /\ p \in Ids /\ Img \in Ids /\ p # Img
    BY AddressSpaceAssumption DEF AInv, Ids
<1>3. brk[p] \in Nat /\ new \in Nat /\ new <= brk[p]
  <2>1. HeapBase * PageSize \in Nat /\ dec \in Nat /\ brk[p] \in Nat
    BY <1>2, HeapBounds, AddressSpaceAssumption DEF Types
  <2> QED
    BY <1>1, <2>1
<1>4. GoodSpace(space[p]) /\ Heaped(space[p], brk[p], RoundUp(brk[p])) /\ Root \in DOMAIN space[p]
    BY <1>1, <1>2, WhenIdle DEF AInv, Spaces, Lives
<1>5. /\ RoundUp(new) \in Nat /\ RoundUp(brk[p]) \in Nat /\ RoundUp(new) <= RoundUp(brk[p])
      /\ HeapBase <= RoundUp(new)
    BY <1>1, <1>3, RoundUpBound, RoundUpMonotone, HeapBounds
<1>6. S = (RoundUp(new)..(RoundUp(brk[p]) - 1)) \cap Pages(space[p])
    OBVIOUS
<1>7. taken = {space[p][Leaf(v)] : v \in S}
    OBVIOUS
<1>8. HeapBase * PageSize <= new /\ new <= HeapTop
    BY <1>1, <1>3, <1>4, HeapBounds DEF Heaped
<1> HIDE DEF new, S, taken
<1>9. /\ S \subseteq Pages(space[p]) /\ S \cap DOMAIN Shared = {}
      /\ Pages(Unmap(space[p], S)) \cap HeapPages = HeapBase..(RoundUp(new) - 1)
  <2>1. Pages(space[p]) \cap HeapPages = HeapBase..(RoundUp(brk[p]) - 1)
    BY <1>4 DEF Heaped
  <2> QED
    BY <1>4, <1>5, <1>6, <2>1, UnmapHeap
<1>10. /\ GoodSpace(Unmap(space[p], S)) /\ taken \subseteq Own(space[p])
       /\ Own(Unmap(space[p], S)) = Own(space[p]) \ taken
       /\ Root \in DOMAIN Unmap(space[p], S) /\ Unmap(space[p], S)[Root] = space[p][Root]
    BY <1>4, <1>7, <1>9, UnmapFacts
<1>11. /\ DOMAIN space' = Ids /\ space'[p] = Unmap(space[p], S)
       /\ \A t \in Ids : t # p => space'[t] = space[t]
       /\ brk' \in [Task -> Nat] /\ brk'[p] = new /\ \A t \in Task : t # p => brk'[t] = brk[t]
    BY <1>1, <1>2, <1>3 DEF Types
<1>12. Types'
    BY <1>1, <1>2, <1>11 DEF Types, F!total
<1>13. Spaces'
    BY <1>10, <1>11 DEF AInv, Spaces
<1>14. Splits(Part, bits)'
  <2>1. Splits(Part, bits) /\ Home(p) \in Places
    BY <1>2, PlaceFacts DEF AInv
  <2>2. \A f \in taken : \E y \in Places : f \in Part[y]
    BY <1>2, <1>10, <2>1, PartAt
  <2>3. ASSUME NEW y \in Places
        PROVE  Part'[y] = Part[y] \ taken
    <3>1. PICK t \in Ids : y = Home(t) \/ y = Stacks(t)
      BY PlaceFacts
    <3>2. CASE y = Home(p)
      BY <1>2, <1>10, <1>11, <3>2, PartAt, PartAtNext
    <3>3. CASE y # Home(p)
      <4>1. Part[y] \cap taken = {}
        <5>1. Part[y] \cap Part[Home(p)] = {}
          BY <2>1, <3>3 DEF Splits
        <5> QED
          BY <1>2, <1>10, <5>1, PartAt
      <4>2. Part'[y] = Part[y]
        <5>1. CASE y = Home(t)
          BY <3>3, <5>1, <1>11, PartAt, PartAtNext
        <5>2. CASE y = Stacks(t) /\ t = Img
          <6>1. TempLeaf' = TempLeaf
            BY <1>1 DEF TempLeaf
          <6> QED
            BY <5>2, <6>1, PartAt, PartAtNext
        <5>3. CASE y = Stacks(t) /\ t \in Task
          BY <1>1, <5>3, PartAt, PartAtNext
        <5> QED
          BY <3>1, <5>1, <5>2, <5>3 DEF Ids
      <4> QED
        BY <4>1, <4>2
    <3> QED
      BY <3>2, <3>3
  <2>4. Splits(Part', bits \ taken)
    BY <2>1, <2>2, <2>3, LoseSplits
  <2> QED
    BY <1>1, <2>4 DEF Splits
<1>15. Lives'
  <2>1. ASSUME NEW t \in Task
        PROVE  /\ life[t] # "none" => Root \in DOMAIN space'[t]
               /\ life[t] = "none" => space'[t] = NoSpace /\ kstack[t] = {}
               /\ Pml4(t)' = Pml4(t)
    <3>1. t \in Ids
      BY DEF Ids
    <3>2. CASE t = p
      BY <1>1, <1>10, <1>11, <3>2 DEF Pml4
    <3>3. CASE t # p
      <4>1. space'[t] = space[t]
        BY <3>1, <3>3, <1>11
      <4>2. /\ life[t] # "none" => Root \in DOMAIN space[t]
            /\ life[t] = "none" => space[t] = NoSpace /\ kstack[t] = {}
        BY <1>1, WhenIdle DEF AInv, Lives
      <4> QED
        BY <4>1, <4>2 DEF Pml4
    <3> QED
      BY <3>2, <3>3
  <2>2. loaded = Pml4(current) /\ op.kind = "idle" /\ (current \in Task => life[current] # "none")
    BY <1>1, WhenIdle DEF AInv, Lives
  <2>3. Pml4(p)' = Pml4(p)
    BY <2>1
  <2>4. loaded = Pml4(p) /\ Pml4(current)' = Pml4(p)'
    BY <1>1, <2>2 DEF Pml4
  <2> QED
    BY <1>1, <2>1, <2>2, <2>3, <2>4 DEF Lives
<1>16. \A t \in Task : life'[t] = "alive" => Heaped(space'[t], brk'[t], RoundUp(brk'[t]))
  <2> SUFFICES ASSUME NEW t \in Task, life'[t] = "alive"
               PROVE  Heaped(space'[t], brk'[t], RoundUp(brk'[t]))
      OBVIOUS
  <2>1. CASE t = p
    <3>1. Heaped(Unmap(space[p], S), new, RoundUp(new))
      BY <1>8, <1>9 DEF Heaped
    <3> QED
      BY <1>11, <2>1, <3>1
  <2>2. CASE t # p
    <3>1. life[t] = "alive" /\ space'[t] = space[t] /\ brk'[t] = brk[t]
      BY <1>1, <1>11, <2>2 DEF Ids
    <3> QED
      BY <1>1, <3>1, WhenIdle
  <2> QED
    BY <2>1, <2>2
<1>17. space'[Img] = NoSpace
    BY <1>1, <1>2, <1>11, WhenIdle
<1> QED
    BY <1>1, <1>12, <1>13, <1>14, <1>15, <1>16, <1>17, IdleStep

-----------------------------------------------------------------------------
(***************************************************************************)
(* Calls that fail, and the end of the calls that keep what they mapped.   *)
(***************************************************************************)
LEMMA NoLeafWhenDone ==
    ASSUME AInv, op.todo = <<>>
    PROVE  op.leaf = 0 /\ TempLeaf = {}
BY DEF AInv, Unmapped, TempLeaf, NoFrame

\* The space under construction is freed, with the stacks of the tasks in X.
LEMMA DropImage ==
    ASSUME AInv, op.kind \notin {"idle", "load", "sbrk"}, op' = Idle,
           NEW X \in SUBSET Task, op.kind = "fork" => op.for \in X,
           space' = [space EXCEPT ![Img] = NoSpace],
           kstack' = [t \in Task |-> IF t \in X THEN {} ELSE kstack[t]],
           life' = life, brk' = brk, current' = current, loaded' = loaded, memmap' = memmap,
           NEW S, bits' = bits \ S,
           \A f : f \in S <=>
                f \in TempLeaf \/ f \in Own(space[Img]) \/ \E t \in X : f \in kstack[t]
    PROVE  AInv'
<1>1. Types /\ Img \in Ids /\ Img \notin Task
    BY AddressSpaceAssumption DEF AInv, Ids
<1>2. /\ DOMAIN space' = Ids /\ space'[Img] = NoSpace
      /\ \A t \in Task : space'[t] = space[t]
    BY <1>1 DEF Types, Ids
<1>3. /\ kstack' \in [Task -> SUBSET Nat] /\ \A t \in X : kstack'[t] = {}
      /\ \A t \in Task : t \notin X => kstack'[t] = kstack[t]
    BY <1>1 DEF Types
<1>4. Types'
    BY <1>1, <1>2, <1>3, IdleFacts DEF Types, F!total
<1>5. Spaces'
  <2>1. \A t \in Ids : t = Img \/ t \in Task
    BY DEF Ids
  <2> QED
    BY <1>2, <2>1, NoSpaceFacts DEF AInv, Spaces, Ids
<1>6. Splits(Part, bits)'
  <2> DEFINE Y == {Home(Img), Stacks(Img)} \cup {Stacks(t) : t \in X}
  <2>1. Splits(Part, bits) /\ Y \subseteq Places
    BY <1>1, PlaceFacts DEF AInv, Ids
  <2>2. ASSUME NEW f
        PROVE  f \in S <=> \E y \in Y : f \in Part[y]
    <3>1. (\E y \in Y : f \in Part[y]) <=>
            f \in Part[Home(Img)] \/ f \in Part[Stacks(Img)] \/ \E t \in X : f \in Part[Stacks(t)]
      OBVIOUS
    <3>2. \A t \in X : Part[Stacks(t)] = kstack[t]
      BY PartAt
    <3> HIDE DEF Y
    <3> QED
      BY <1>1, <3>1, <3>2, PartAt
  <2>3. \A y \in Y : Part'[y] = {}
    <3>1. Part'[Home(Img)] = {}
      BY <1>1, <1>2, PartAtNext, NoSpaceFacts
    <3>2. Part'[Stacks(Img)] = {}
      BY IdleFacts, PartAtNext DEF TempLeaf, NoFrame
    <3>3. \A t \in X : Part'[Stacks(t)] = {}
      BY <1>3, PartAtNext
    <3> QED
      BY <3>1, <3>2, <3>3
  <2>4. \A t \in X : Stacks(t) \in Y
    OBVIOUS
  <2>5. Home(Img) \in Y /\ Stacks(Img) \in Y
    OBVIOUS
  <2> HIDE DEF Y
  <2>6. ASSUME NEW y \in Places \ Y
        PROVE  Part'[y] = Part[y]
    <3>1. PICK t \in Ids : y = Home(t) \/ y = Stacks(t)
      BY PlaceFacts
    <3>2. t \in Task
      BY <2>5, <2>6, <3>1 DEF Ids
    <3>3. CASE y = Home(t)
      BY <1>2, <3>2, <3>3, PartAt, PartAtNext DEF Ids
    <3>4. CASE y = Stacks(t)
      <4>1. t \notin X
        BY <2>4, <2>6, <3>4
      <4> QED
        BY <1>3, <3>2, <3>4, <4>1, PartAt, PartAtNext
    <3> QED
      BY <3>1, <3>3, <3>4
  <2>7. Splits(Part', bits \ S)
    BY <2>1, <2>2, <2>3, <2>6, EmptySplits
  <2> QED
    BY <2>7 DEF Splits
<1>7. Lives'
  <2>1. loaded = Pml4(current) /\ Pml4(current)' = Pml4(current)
    <3>1. loaded = Pml4(current)
      BY DEF AInv, Lives
    <3>2. current = Kernel \/ current \in Task
      BY <1>1 DEF Types, Runners
    <3> QED
      BY <1>2, <3>1, <3>2 DEF Pml4
  <2>2. op'.kind = "idle"
    BY IdleFacts
  <2>3. \A t \in Task : life[t] = "none" => kstack'[t] = {}
    <3> SUFFICES ASSUME NEW t \in Task, life[t] = "none", t \notin X
                 PROVE  kstack'[t] = {}
        BY <1>3
    <3>1. kstack[t] = {}
      BY DEF AInv, Lives
    <3> QED
      BY <1>3, <3>1
  <2> QED
    BY <1>2, <2>1, <2>2, <2>3 DEF AInv, Lives
<1>8. \A t \in Task : life'[t] = "alive" => Heaped(space'[t], brk'[t], RoundUp(brk'[t]))
    BY <1>2 DEF AInv, Heaps, HeapEnd
<1> QED
    BY <1>2, <1>4, <1>5, <1>6, <1>7, <1>8, IdleStep

LEMMA UndoForkStep ==
    ASSUME AInv, UndoFork, op' = Idle, UNCHANGED cpu
    PROVE  AInv'
<1>1. /\ op.kind = "fork" /\ space' = [space EXCEPT ![Img] = NoSpace]
      /\ kstack' = [kstack EXCEPT ![op.for] = {}]
      /\ life' = life /\ brk' = brk /\ current' = current /\ loaded' = loaded /\ memmap' = memmap
      /\ bits' = bits \ (TempLeaf \cup Own(space[Img]) \cup kstack[op.for])
    BY DEF UndoFork, cpu, F!Put
<1>2. op.for \in Task /\ kstack \in [Task -> SUBSET Nat]
    BY <1>1 DEF AInv, Caller, Types
<1> DEFINE X == {op.for}
<1>3. X \in SUBSET Task /\ op.for \in X
    BY <1>2
<1>4. kstack' = [t \in Task |-> IF t \in X THEN {} ELSE kstack[t]]
    BY <1>1, <1>2
<1> DEFINE S == TempLeaf \cup Own(space[Img]) \cup kstack[op.for]
<1>5. \A f : f \in S <=>
        f \in TempLeaf \/ f \in Own(space[Img]) \/ \E t \in X : f \in kstack[t]
    OBVIOUS
<1>6. bits' = bits \ S
    BY <1>1
<1>7. op.kind \notin {"idle", "load", "sbrk"}
    BY <1>1
<1>8. /\ space' = [space EXCEPT ![Img] = NoSpace] /\ life' = life /\ brk' = brk
      /\ current' = current /\ loaded' = loaded /\ memmap' = memmap
    BY <1>1
<1> HIDE DEF X, S
<1> QED
    BY <1>3, <1>4, <1>5, <1>6, <1>7, <1>8, DropImage

LEMMA FreeImage ==
    ASSUME AInv, op.kind \in {"spawn", "exec", "free"}, op' = Idle,
           UNCHANGED <<tasks, cpu>>,
           space' = [space EXCEPT ![Img] = NoSpace],
           NEW S, S = TempLeaf \cup Own(space[Img]), F!Put(S)
    PROVE  AInv'
<1>1. /\ life' = life /\ brk' = brk /\ kstack' = kstack /\ current' = current /\ loaded' = loaded
      /\ memmap' = memmap /\ bits' = bits \ S
    BY DEF tasks, cpu, F!Put
<1> DEFINE X == {}
<1>2. kstack \in [Task -> SUBSET Nat]
    BY DEF AInv, Types
<1>3. kstack' = [t \in Task |-> IF t \in X THEN {} ELSE kstack[t]]
    BY <1>1, <1>2
<1>4. \A f : f \in S <=>
        f \in TempLeaf \/ f \in Own(space[Img]) \/ \E t \in X : f \in kstack[t]
    OBVIOUS
<1>5. X \in SUBSET Task
    OBVIOUS
<1> HIDE DEF X
<1> QED
    BY <1>1, <1>3, <1>4, <1>5, DropImage

LEMMA UndoImageStep ==
    ASSUME AInv, UndoImage, op' = Idle, UNCHANGED cpu
    PROVE  AInv'
BY FreeImage DEF UndoImage

LEMMA ExecFreeStep ==
    ASSUME AInv, ExecFree
    PROVE  AInv'
<1>1. op.kind = "free" /\ op.todo = <<>>
    BY DEF ExecFree, AInv, Construction
<1>2. Own(space[Img]) = TempLeaf \cup Own(space[Img])
    BY <1>1, NoLeafWhenDone
<1> QED
    BY <1>1, <1>2, FreeImage DEF ExecFree

\* The task on a stack page that cannot be had.
LEMMA UndoFaultStep ==
    ASSUME AInv, UndoFault, op' = Idle, UNCHANGED cpu
    PROVE  AInv'
<1>1. /\ op.kind = "fault" /\ life' = [life EXCEPT ![op.by] = "dead"]
      /\ space' = space /\ kstack' = kstack /\ brk' = brk
      /\ current' = current /\ loaded' = loaded /\ memmap' = memmap
      /\ bits' = bits \ TempLeaf
    BY DEF UndoFault, cpu, F!Put
<1>2. Types /\ op.by \in Task /\ op.by = current /\ life[op.by] = "alive" /\ space[Img] = NoSpace
    BY <1>1 DEF AInv, Caller, Construction
<1>3. /\ life' \in [Task -> {"none", "alive", "dead"}]
      /\ \A t \in Task : (life'[t] = "none" <=> life[t] = "none")
            /\ (life'[t] = "alive" => life[t] = "alive")
    BY <1>1, <1>2 DEF Types
<1>4. Types'
    BY <1>1, <1>2, <1>3, IdleFacts DEF Types, F!total
<1>5. Spaces'
    BY <1>1 DEF AInv, Spaces
<1>6. Splits(Part, bits)'
  <2> DEFINE X == {Stacks(Img)}
  <2>1. Img \in Ids /\ X \subseteq Places /\ Splits(Part, bits)
    BY PlaceFacts DEF Ids, AInv
  <2>2. \A f : f \in TempLeaf <=> \E y \in X : f \in Part[y]
    BY PartAt
  <2>3. \A y \in X : Part'[y] = {}
    BY IdleFacts, PartAtNext DEF TempLeaf, NoFrame
  <2>4. ASSUME NEW y \in Places \ X
        PROVE  Part'[y] = Part[y]
    <3>1. PICK t \in Ids : y = Home(t) \/ y = Stacks(t)
      BY PlaceFacts
    <3>2. CASE y = Home(t)
      BY <1>1, <3>2, PartAt, PartAtNext
    <3>3. CASE y = Stacks(t)
      <4>1. t \in Task
        BY <2>4, <3>3 DEF Ids
      <4> QED
        BY <1>1, <3>3, <4>1, PartAt, PartAtNext
    <3> QED
      BY <3>1, <3>2, <3>3
  <2> HIDE DEF X
  <2>5. Splits(Part', bits \ TempLeaf)
    BY <2>1, <2>2, <2>3, <2>4, EmptySplits
  <2> QED
    BY <1>1, <2>5 DEF Splits
<1>7. Lives'
  <2>1. Pml4(current)' = Pml4(current) /\ op'.kind = "idle"
    BY <1>1, IdleFacts DEF Pml4
  <2> QED
    BY <1>1, <1>3, <2>1 DEF AInv, Lives
<1>8. \A t \in Task : life'[t] = "alive" => Heaped(space'[t], brk'[t], RoundUp(brk'[t]))
    BY <1>1, <1>3 DEF AInv, Heaps, HeapEnd
<1> QED
    BY <1>1, <1>2, <1>4, <1>5, <1>6, <1>7, <1>8, IdleStep

LEMMA FinishFaultStep ==
    ASSUME AInv, FinishFault
    PROVE  AInv'
<1>1. /\ op.kind = "fault" /\ op.todo = <<>> /\ op' = Idle /\ life' = life
      /\ space' = space /\ kstack' = kstack /\ brk' = brk
      /\ current' = current /\ loaded' = loaded /\ memmap' = memmap /\ bits' = bits
    BY DEF FinishFault, Done, pmm, tasks, cpu
<1>2. TempLeaf = {} /\ TempLeaf' = {}
    BY <1>1, NoLeafWhenDone, IdleFacts DEF TempLeaf, NoFrame
<1>3. Types'
    BY <1>1, IdleFacts DEF AInv, Types, F!total
<1>4. Spaces'
    BY <1>1 DEF AInv, Spaces
<1>5. Splits(Part, bits)'
  <2>1. Part' = Part
    BY <1>1, <1>2 DEF Part
  <2> QED
    BY <1>1, <2>1 DEF AInv, Splits
<1>6. Lives'
  <2>1. Pml4(current)' = Pml4(current) /\ op'.kind = "idle"
    BY <1>1, IdleFacts DEF Pml4
  <2> QED
    BY <1>1, <2>1 DEF AInv, Lives
<1>7. \A t \in Task : life'[t] = "alive" => Heaped(space'[t], brk'[t], RoundUp(brk'[t]))
    BY <1>1 DEF AInv, Heaps, HeapEnd
<1>8. space[Img] = NoSpace
    BY <1>1 DEF AInv, Construction
<1> QED
    BY <1>1, <1>3, <1>4, <1>5, <1>6, <1>7, <1>8, IdleStep

\* What a growth in progress is about.
LEMMA GrowthFacts ==
    ASSUME AInv, op.kind = "sbrk"
    PROVE  /\ op.by \in Task /\ op.by = current /\ life[op.by] = "alive"
           /\ Heaped(space[op.by], brk[op.by], Frontier)
           /\ op.brk \in Nat /\ op.brk <= HeapTop /\ brk[op.by] \in Nat /\ brk[op.by] < op.brk
           /\ Len(op.todo) \in Nat /\ Frontier \in Nat /\ RoundUp(op.brk) \in Nat
           /\ HeapBase <= RoundUp(brk[op.by]) /\ RoundUp(brk[op.by]) <= Frontier
           /\ Frontier = RoundUp(op.brk) - Len(op.todo)
           /\ \A i \in 1..Len(op.todo) : op.todo[i] = Frontier + i - 1
           /\ op.todo # <<>> => Frontier \in HeapPages /\ Head(op.todo) = Frontier
           /\ space[Img] = NoSpace /\ loaded = Pml4(op.by)
<1>1. /\ op.by \in Task /\ op.by = current /\ life[op.by] = "alive" /\ space[Img] = NoSpace
      /\ loaded = Pml4(op.by)
    BY DEF AInv, Caller, Construction, Lives
<1>2. /\ op.brk \in Nat /\ brk[op.by] \in Nat /\ op.todo \in Seq(Nat)
    BY <1>1 DEF AInv, Types, Calls
<1>3. /\ op.brk <= HeapTop /\ brk[op.by] < op.brk /\ RoundUp(brk[op.by]) <= Frontier
      /\ \A i \in 1..Len(op.todo) : op.todo[i] = Frontier + i - 1
    BY DEF AInv, Growth
<1>4. Heaped(space[op.by], brk[op.by], Frontier)
    BY <1>1 DEF AInv, Heaps, HeapEnd
<1>5. HeapBase <= RoundUp(brk[op.by])
    BY <1>2, <1>4, HeapBounds DEF Heaped
<1>6. Len(op.todo) \in Nat /\ RoundUp(op.brk) \in Nat /\ RoundUp(brk[op.by]) \in Nat
    BY <1>2, LenProperties, RoundUpBound
<1>7. Frontier \in Nat /\ Frontier = RoundUp(op.brk) - Len(op.todo)
  <2>1. Frontier = RoundUp(op.brk) - Len(op.todo)
    BY DEF Frontier
  <2>2. Frontier \in Int
    BY <1>6, <2>1
  <2> QED
    BY <1>3, <1>6, <2>1, <2>2
<1>8. ASSUME op.todo # <<>>
      PROVE  Frontier \in HeapPages /\ Head(op.todo) = Frontier
  <2>1. Len(op.todo) \in Nat \ {0} /\ Head(op.todo) = op.todo[1]
    BY <1>2, <1>8, SetOfTail
  <2>2. op.todo[1] = Frontier + 1 - 1
    BY <1>3, <2>1
  <2>3. Frontier < RoundUp(op.brk)
    BY <1>6, <1>7, <2>1
  <2>4. Frontier * PageSize < op.brk
    BY <1>2, <1>7, <2>3, RoundUpBound
  <2>5. HeapBase <= Frontier
    BY <1>3, <1>5, <1>6, <1>7, AddressSpaceAssumption
  <2>6. Frontier * PageSize < HeapTop
    <3>1. Frontier * PageSize \in Nat /\ HeapTop \in Nat
      BY <1>7, AddressSpaceAssumption, HeapBounds
    <3> QED
      BY <1>2, <1>3, <2>4, <3>1
  <2>7. Frontier \in HeapPages
    BY <1>7, <2>5, <2>6, HeapBounds
  <2>8. Head(op.todo) = Frontier
    BY <1>7, <2>1, <2>2
  <2> QED
    BY <2>7, <2>8
<1> QED
    BY <1>1, <1>2, <1>3, <1>4, <1>5, <1>6, <1>7, <1>8

\* The pages mapped so far go, and the frame that is not mapped yet.
LEMMA UndoGrowStep ==
    ASSUME AInv, UndoGrow, op.todo # <<>>, op' = Idle, UNCHANGED cpu
    PROVE  AInv'
<1> DEFINE p == op.by
           low == RoundUp(brk[op.by])
           S == (RoundUp(brk[op.by])..(Head(op.todo) - 1)) \cap Pages(space[op.by])
           taken == {space[op.by][Leaf(v)] : v \in S}
<1>1. /\ op.kind = "sbrk" /\ space' = [space EXCEPT ![p] = Unmap(@, S)]
      /\ life' = life /\ kstack' = kstack /\ brk' = brk
      /\ current' = current /\ loaded' = loaded /\ memmap' = memmap
      /\ bits' = bits \ (TempLeaf \cup taken)
    BY DEF UndoGrow, tasks, cpu, F!Put
<1>2. /\ p \in Task /\ p = current /\ life[p] = "alive" /\ space[Img] = NoSpace
      /\ loaded = Pml4(p) /\ Heaped(space[p], brk[p], Frontier)
      /\ low \in Nat /\ Frontier \in Nat /\ HeapBase <= low /\ low <= Frontier
      /\ Head(op.todo) = Frontier
  <2>1. brk[p] \in Nat
    BY <1>1, GrowthFacts
  <2> QED
    BY <1>1, <2>1, GrowthFacts, RoundUpBound
<1>3. S = (low..(Frontier - 1)) \cap Pages(space[p])
    BY <1>2
<1>4. taken = {space[p][Leaf(v)] : v \in S} /\ low = RoundUp(brk[p])
    OBVIOUS
<1> HIDE DEF p, low, S, taken
<1>5. Types /\ p \in Ids /\ Img \in Ids /\ p # Img
    BY <1>2, AddressSpaceAssumption DEF AInv, Ids
<1>6. GoodSpace(space[p]) /\ Root \in DOMAIN space[p]
    BY <1>2, <1>5 DEF AInv, Spaces, Lives
<1>7. /\ S \subseteq Pages(space[p]) /\ S \cap DOMAIN Shared = {}
      /\ Pages(Unmap(space[p], S)) \cap HeapPages = HeapBase..(low - 1)
  <2>1. Pages(space[p]) \cap HeapPages = HeapBase..(Frontier - 1)
    BY <1>2 DEF Heaped
  <2> QED
    BY <1>2, <1>3, <1>6, <2>1, UnmapHeap
<1>8. /\ GoodSpace(Unmap(space[p], S)) /\ taken \subseteq Own(space[p])
      /\ Own(Unmap(space[p], S)) = Own(space[p]) \ taken
      /\ Root \in DOMAIN Unmap(space[p], S) /\ Unmap(space[p], S)[Root] = space[p][Root]
    BY <1>4, <1>6, <1>7, UnmapFacts
<1>9. /\ DOMAIN space' = Ids /\ space'[p] = Unmap(space[p], S)
      /\ \A t \in Ids : t # p => space'[t] = space[t]
    BY <1>1, <1>5 DEF Types
<1>10. Types'
    BY <1>1, <1>5, <1>9, IdleFacts DEF Types, F!total
<1>11. Spaces'
    BY <1>8, <1>9 DEF AInv, Spaces
<1>12. Splits(Part, bits)'
  <2> DEFINE lost == TempLeaf \cup taken
  <2>1. Splits(Part, bits) /\ Home(p) \in Places /\ Stacks(Img) \in Places
    BY <1>5, PlaceFacts DEF AInv
  <2>2. Part[Home(p)] = Own(space[p]) /\ Part[Stacks(Img)] = TempLeaf
    BY <1>5, PartAt
  <2>3. \A f \in lost : \E y \in Places : f \in Part[y]
    BY <1>8, <2>1, <2>2
  <2>4. Home(p) # Stacks(Img)
    BY PlaceFacts
  <2>5. Part[Home(p)] \cap TempLeaf = {}
    BY <2>1, <2>2, <2>4 DEF Splits
  <2>6. ASSUME NEW y \in Places
        PROVE  Part'[y] = Part[y] \ lost
    <3>1. PICK t \in Ids : y = Home(t) \/ y = Stacks(t)
      BY PlaceFacts
    <3>2. CASE y = Home(p)
      <4>1. Part'[y] = Own(space[p]) \ taken
        BY <1>5, <1>8, <1>9, <3>2, PartAtNext
      <4> QED
        BY <2>2, <2>5, <3>2, <4>1
    <3>3. CASE y = Stacks(Img)
      <4>1. Part'[y] = {}
        BY <3>3, IdleFacts, PartAtNext DEF TempLeaf, NoFrame
      <4> QED
        BY <2>2, <3>3, <4>1
    <3>4. CASE y # Home(p) /\ y # Stacks(Img)
      <4>1. Part[y] \cap lost = {}
        <5>1. Part[y] \cap Part[Home(p)] = {} /\ Part[y] \cap Part[Stacks(Img)] = {}
          BY <2>1, <3>4 DEF Splits
        <5> QED
          BY <1>8, <2>2, <5>1
      <4>2. Part'[y] = Part[y]
        <5>1. CASE y = Home(t)
          BY <3>4, <5>1, <1>9, PartAt, PartAtNext
        <5>2. CASE y = Stacks(t)
          <6>1. t \in Task
            BY <3>4, <5>2 DEF Ids
          <6> QED
            BY <1>1, <5>2, <6>1, PartAt, PartAtNext
        <5> QED
          BY <3>1, <5>1, <5>2
      <4> QED
        BY <4>1, <4>2
    <3> QED
      BY <3>2, <3>3, <3>4
  <2>7. bits' = bits \ lost
    BY <1>1
  <2> HIDE DEF lost
  <2>8. Splits(Part', bits \ lost)
    BY <2>1, <2>3, <2>6, LoseSplits
  <2> QED
    BY <2>7, <2>8 DEF Splits
<1>13. Lives'
  <2>1. ASSUME NEW t \in Task
        PROVE  /\ life[t] # "none" => Root \in DOMAIN space'[t]
               /\ life[t] = "none" => space'[t] = NoSpace /\ kstack[t] = {}
    <3>1. t \in Ids
      BY DEF Ids
    <3>2. CASE t = p
      BY <1>2, <1>8, <1>9, <3>2
    <3>3. CASE t # p
      <4>1. space'[t] = space[t]
        BY <3>1, <3>3, <1>9
      <4>2. /\ life[t] # "none" => Root \in DOMAIN space[t]
            /\ life[t] = "none" => space[t] = NoSpace /\ kstack[t] = {}
        BY <1>1 DEF AInv, Lives
      <4> QED
        BY <4>1, <4>2
    <3> QED
      BY <3>2, <3>3
  <2>2. loaded = Pml4(current) /\ Pml4(current)' = Pml4(current)
    <3>1. current # Kernel /\ current' = current /\ p = current
      BY <1>1, <1>2, AddressSpaceAssumption
    <3>2. space'[p][Root] = space[p][Root]
      BY <1>8, <1>9
    <3>3. Pml4(current) = space[current][Root] /\ Pml4(current)' = space'[current][Root]
      BY <3>1 DEF Pml4
    <3> QED
      BY <1>2, <3>1, <3>2, <3>3
  <2>3. current \in Task => life[current] # "none"
    BY DEF AInv, Lives
  <2> QED
    BY <1>1, <2>1, <2>2, <2>3, IdleFacts DEF Lives
<1>14. \A t \in Task : life'[t] = "alive" => Heaped(space'[t], brk'[t], RoundUp(brk'[t]))
  <2> SUFFICES ASSUME NEW t \in Task, life'[t] = "alive"
               PROVE  Heaped(space'[t], brk'[t], RoundUp(brk'[t]))
      OBVIOUS
  <2>1. CASE t = p
    <3>1. Heaped(Unmap(space[p], S), brk[p], low)
      BY <1>2, <1>7 DEF Heaped
    <3> QED
      BY <1>1, <1>4, <1>9, <2>1, <3>1
  <2>2. CASE t # p
    <3>1. life[t] = "alive" /\ space'[t] = space[t] /\ brk'[t] = brk[t]
      BY <1>1, <1>9, <2>2 DEF Ids
    <3>2. HeapEnd(t) = RoundUp(brk[t])
      BY <2>2 DEF HeapEnd, p
    <3> QED
      BY <3>1, <3>2 DEF AInv, Heaps
  <2> QED
    BY <2>1, <2>2
<1>15. space'[Img] = NoSpace
    BY <1>2, <1>5, <1>9
<1> QED
    BY <1>10, <1>11, <1>12, <1>13, <1>14, <1>15, IdleStep

LEMMA FinishGrowStep ==
    ASSUME AInv, FinishGrow
    PROVE  AInv'
<1>1. /\ op.kind = "sbrk" /\ op.todo = <<>> /\ op' = Idle /\ life' = life
      /\ space' = space /\ kstack' = kstack /\ brk' = [brk EXCEPT ![op.by] = op.brk]
      /\ current' = current /\ loaded' = loaded /\ memmap' = memmap /\ bits' = bits
    BY DEF FinishGrow, Done, pmm, cpu
<1>2. TempLeaf = {} /\ TempLeaf' = {}
    BY <1>1, NoLeafWhenDone, IdleFacts DEF TempLeaf, NoFrame
<1>3. /\ op.by \in Task /\ op.brk \in Nat /\ op.brk <= HeapTop /\ brk[op.by] \in Nat
      /\ brk[op.by] < op.brk /\ Heaped(space[op.by], brk[op.by], Frontier)
      /\ Frontier = RoundUp(op.brk) /\ space[Img] = NoSpace
  <2>1. Len(op.todo) = 0
    BY <1>1, EmptySeq
  <2>2. RoundUp(op.brk) \in Nat /\ Frontier = RoundUp(op.brk) - Len(op.todo)
    BY <1>1, GrowthFacts
  <2> QED
    BY <1>1, <2>1, <2>2, GrowthFacts
<1>4. /\ brk' \in [Task -> Nat] /\ brk'[op.by] = op.brk
      /\ \A t \in Task : t # op.by => brk'[t] = brk[t]
    BY <1>1, <1>3 DEF AInv, Types
<1>5. Types'
    BY <1>1, <1>4, IdleFacts DEF AInv, Types, F!total
<1>6. Spaces'
    BY <1>1 DEF AInv, Spaces
<1>7. Splits(Part, bits)'
  <2>1. Part' = Part
    BY <1>1, <1>2 DEF Part
  <2> QED
    BY <1>1, <2>1 DEF AInv, Splits
<1>8. Lives'
  <2>1. Pml4(current)' = Pml4(current) /\ op'.kind = "idle"
    BY <1>1, IdleFacts DEF Pml4
  <2> QED
    BY <1>1, <2>1 DEF AInv, Lives
<1>9. \A t \in Task : life'[t] = "alive" => Heaped(space'[t], brk'[t], RoundUp(brk'[t]))
  <2> SUFFICES ASSUME NEW t \in Task, life'[t] = "alive"
               PROVE  Heaped(space'[t], brk'[t], RoundUp(brk'[t]))
      OBVIOUS
  <2>1. CASE t = op.by
    <3>1. HeapBase * PageSize \in Nat
      BY HeapBounds
    <3>2. Heaped(space[op.by], op.brk, RoundUp(op.brk))
      BY <1>3, <3>1 DEF Heaped
    <3> QED
      BY <1>1, <1>4, <2>1, <3>2
  <2>2. CASE t # op.by
    BY <1>1, <1>4, <2>2 DEF AInv, Heaps, HeapEnd
  <2> QED
    BY <2>1, <2>2
<1> QED
    BY <1>1, <1>3, <1>5, <1>6, <1>7, <1>8, <1>9, IdleStep

-----------------------------------------------------------------------------
(***************************************************************************)
(* A finished space goes to its task.                                      *)
(***************************************************************************)
LEMMA DoneFacts ==
    ASSUME AInv, op.todo = <<>>, Building, ~NeedsRoot
    PROVE  /\ space[Img] # NoSpace /\ Root \in DOMAIN space[Img] /\ GoodSpace(space[Img])
           /\ Pages(space[Img]) = Wanted
<1>1. GoodSpace(space[Img]) /\ space[Img] # NoSpace
    BY DEF AInv, Spaces, Ids, NeedsRoot
<1>2. ToSet(op.todo) = {}
    BY DEF ToSet
<1>3. Pages(space[Img]) \cup ToSet(op.todo) = Wanted
    BY DEF AInv, Construction
<1> QED
    BY <1>1, <1>2, <1>3, PageIsLeaf

\* A fresh program has no heap.
LEMMA FreshHeap ==
    ASSUME NEW s, Pages(s) = Image
    PROVE  Heaped(s, HeapBase * PageSize, RoundUp(HeapBase * PageSize))
<1>1. Image \cap HeapPages = {} /\ HeapBase \in Nat
    BY AddressSpaceAssumption
<1>2. HeapBase..(HeapBase - 1) = {}
    BY <1>1
<1>3. HeapBase * PageSize <= HeapBase * PageSize
    BY HeapBounds
<1> QED
    BY <1>1, <1>2, <1>3, HeapBounds DEF Heaped

LEMMA FinishForkStep ==
    ASSUME AInv, FinishFork
    PROVE  AInv'
<1> DEFINE c == op.for
<1>1. /\ op.kind = "fork" /\ op.todo = <<>> /\ Building /\ ~NeedsRoot /\ op' = Idle
      /\ space' = [space EXCEPT ![c] = space[Img], ![Img] = NoSpace]
      /\ brk' = [brk EXCEPT ![c] = brk[op.by]] /\ life' = [life EXCEPT ![c] = "alive"]
      /\ kstack' = kstack /\ current' = current /\ loaded' = loaded
      /\ memmap' = memmap /\ bits' = bits
    BY DEF FinishFork, Done, Building, pmm, cpu
<1>2. /\ Types /\ c \in Task /\ op.by \in Task /\ life[c] = "none" /\ life[op.by] = "alive"
      /\ c \in Ids /\ Img \in Ids /\ c # Img /\ op.by = current
    BY <1>1, AddressSpaceAssumption DEF AInv, Caller, Ids
<1>3. TempLeaf = {} /\ TempLeaf' = {}
    BY <1>1, NoLeafWhenDone, IdleFacts DEF TempLeaf, NoFrame
<1>4. /\ Root \in DOMAIN space[Img] /\ GoodSpace(space[Img])
      /\ Pages(space[Img]) = Pages(space[op.by])
    BY <1>1, DoneFacts DEF Wanted
<1>5. space[c] = NoSpace
    BY <1>2 DEF AInv, Lives
<1> HIDE DEF c
<1>6. /\ DOMAIN space' = Ids /\ space'[c] = space[Img] /\ space'[Img] = NoSpace
      /\ \A t \in Ids : t # c /\ t # Img => space'[t] = space[t]
    BY <1>1, <1>2 DEF Types
<1>7. /\ brk' \in [Task -> Nat] /\ brk'[c] = brk[op.by] /\ \A t \in Task : t # c => brk'[t] = brk[t]
      /\ life' \in [Task -> {"none", "alive", "dead"}] /\ life'[c] = "alive"
      /\ \A t \in Task : t # c => life'[t] = life[t]
    BY <1>1, <1>2 DEF Types
<1>8. Types'
    BY <1>1, <1>2, <1>6, <1>7, IdleFacts DEF Types, F!total
<1>9. Spaces'
    BY <1>4, <1>6, NoSpaceFacts DEF AInv, Spaces
<1>10. Splits(Part, bits)'
  <2>1. Splits(Part, bits) /\ Home(c) \in Places /\ Home(Img) \in Places
    BY <1>2, PlaceFacts DEF AInv
  <2>2. Part'[Home(c)] = Part[Home(Img)] /\ Part'[Home(Img)] = Part[Home(c)]
    BY <1>2, <1>5, <1>6, PartAt, PartAtNext
  <2>3. ASSUME NEW y \in Places, y # Home(c), y # Home(Img)
        PROVE  Part'[y] = Part[y]
    <3>1. PICK t \in Ids : y = Home(t) \/ y = Stacks(t)
      BY PlaceFacts
    <3>2. CASE y = Home(t)
      BY <1>6, <2>3, <3>2, PartAt, PartAtNext
    <3>3. CASE y = Stacks(t) /\ t = Img
      BY <1>3, <3>3, PartAt, PartAtNext
    <3>4. CASE y = Stacks(t) /\ t \in Task
      BY <1>1, <3>4, PartAt, PartAtNext
    <3> QED
      BY <3>1, <3>2, <3>3, <3>4 DEF Ids
  <2>4. Splits(Part', bits)
    BY <2>1, <2>2, <2>3, SwapSplits
  <2> QED
    BY <1>1, <2>4 DEF Splits
<1>11. Lives'
  <2>1. ASSUME NEW t \in Task
        PROVE  /\ life'[t] # "none" => Root \in DOMAIN space'[t]
               /\ life'[t] = "none" => space'[t] = NoSpace /\ kstack'[t] = {}
    <3>1. CASE t = c
      BY <1>4, <1>6, <1>7, <3>1
    <3>2. CASE t # c
      <4>1. space'[t] = space[t] /\ life'[t] = life[t] /\ kstack'[t] = kstack[t]
        BY <1>1, <1>6, <1>7, <3>2, AddressSpaceAssumption DEF Ids
      <4>2. /\ life[t] # "none" => Root \in DOMAIN space[t]
            /\ life[t] = "none" => space[t] = NoSpace /\ kstack[t] = {}
        BY <3>2 DEF AInv, Lives, c
      <4> QED
        BY <4>1, <4>2
    <3> QED
      BY <3>1, <3>2
  <2>2. loaded' = Pml4(current)' /\ (current' \in Task => life'[current'] # "none")
    <3>1. current \in Task /\ current # c /\ current' = current
      BY <1>1, <1>2
    <3>2. space'[current] = space[current] /\ life'[current] = "alive"
      BY <1>2, <1>6, <1>7, <3>1, AddressSpaceAssumption DEF Ids
    <3>3. Pml4(current)' = Pml4(current)
      BY <3>1, <3>2, AddressSpaceAssumption DEF Pml4
    <3>4. loaded = Pml4(current)
      BY <1>1 DEF AInv, Lives
    <3> QED
      BY <1>1, <3>1, <3>2, <3>3, <3>4
  <2> QED
    BY <2>1, <2>2, IdleFacts, <1>1 DEF Lives
<1>12. \A t \in Task : life'[t] = "alive" => Heaped(space'[t], brk'[t], RoundUp(brk'[t]))
  <2> SUFFICES ASSUME NEW t \in Task, life'[t] = "alive"
               PROVE  Heaped(space'[t], brk'[t], RoundUp(brk'[t]))
      OBVIOUS
  <2>0. \A u \in Task : life[u] = "alive" => Heaped(space[u], brk[u], RoundUp(brk[u]))
    BY <1>1 DEF AInv, Heaps, HeapEnd
  <2>1. CASE t = c
    <3>1. Heaped(space[op.by], brk[op.by], RoundUp(brk[op.by]))
      BY <1>2, <2>0
    <3>2. Heaped(space[Img], brk[op.by], RoundUp(brk[op.by]))
      BY <1>4, <3>1 DEF Heaped
    <3> QED
      BY <1>6, <1>7, <2>1, <3>2
  <2>2. CASE t # c
    <3>1. life[t] = "alive" /\ space'[t] = space[t] /\ brk'[t] = brk[t]
      BY <1>6, <1>7, <2>2, AddressSpaceAssumption DEF Ids
    <3> QED
      BY <2>0, <3>1
  <2> QED
    BY <2>1, <2>2
<1> QED
    BY <1>1, <1>6, <1>8, <1>9, <1>10, <1>11, <1>12, IdleStep

LEMMA FinishSpawnStep ==
    ASSUME AInv, NEW c \in Task, FinishSpawn(c)
    PROVE  AInv'
<1>1. /\ op.kind = "spawn" /\ op.todo = <<>> /\ Building /\ ~NeedsRoot /\ op' = Idle
      /\ space' = [space EXCEPT ![c] = space[Img], ![Img] = NoSpace]
      /\ brk' = [brk EXCEPT ![c] = HeapBase * PageSize] /\ life' = [life EXCEPT ![c] = "alive"]
      /\ current' = current /\ loaded' = loaded /\ memmap' = memmap /\ life[c] = "none"
    BY DEF FinishSpawn, Done, Building, cpu, F!Set
<1>2. Types /\ c \in Ids /\ Img \in Ids /\ c # Img
    BY AddressSpaceAssumption DEF AInv, Ids
<1>3. PICK f \in F!LowestRun(StackFrames) :
        /\ bits' = bits \cup f..(f + StackFrames - 1)
        /\ kstack' = [kstack EXCEPT ![c] = f..(f + StackFrames - 1)]
    BY DEF FinishSpawn, F!Set
<1> DEFINE S == f..(f + StackFrames - 1)
<1>4. S \subseteq Nat /\ S \cap bits = {}
  <2>1. S \subseteq F!Free
    BY DEF F!LowestRun, F!IsRun
  <2>2. F!Free \subseteq Nat
    BY FreeFrame DEF AInv
  <2>3. F!Free \cap bits = {}
    BY FreeFrame DEF AInv
  <2> QED
    BY <2>1, <2>2, <2>3
<1>5. kstack' = [kstack EXCEPT ![c] = S] /\ bits' = bits \cup S
    BY <1>3
<1> HIDE DEF S
<1>6. /\ kstack' \in [Task -> SUBSET Nat] /\ kstack'[c] = S
      /\ \A t \in Task : t # c => kstack'[t] = kstack[t]
    BY <1>2, <1>4, <1>5 DEF Types
<1>7. TempLeaf = {} /\ TempLeaf' = {}
    BY <1>1, NoLeafWhenDone, IdleFacts DEF TempLeaf, NoFrame
<1>8. /\ Root \in DOMAIN space[Img] /\ GoodSpace(space[Img]) /\ Pages(space[Img]) = Image
    BY <1>1, DoneFacts DEF Wanted
<1>9. space[c] = NoSpace /\ kstack[c] = {}
    BY <1>1 DEF AInv, Lives
<1>10. /\ DOMAIN space' = Ids /\ space'[c] = space[Img] /\ space'[Img] = NoSpace
       /\ \A t \in Ids : t # c /\ t # Img => space'[t] = space[t]
    BY <1>1, <1>2 DEF Types
<1>11. /\ brk' \in [Task -> Nat] /\ brk'[c] = HeapBase * PageSize
       /\ \A t \in Task : t # c => brk'[t] = brk[t]
       /\ life' \in [Task -> {"none", "alive", "dead"}] /\ life'[c] = "alive"
       /\ \A t \in Task : t # c => life'[t] = life[t]
    BY <1>1, <1>2, HeapBounds DEF Types
<1>12. Types'
    BY <1>1, <1>2, <1>6, <1>10, <1>11, IdleFacts DEF Types, F!total
<1>13. Spaces'
    BY <1>8, <1>10, NoSpaceFacts DEF AInv, Spaces
<1>14. Splits(Part, bits)'
  <2> DEFINE d == [y \in Places |-> IF y = Stacks(c) THEN Part[y] \cup S ELSE Part[y]]
  <2>1. /\ Splits(Part, bits) /\ Home(c) \in Places /\ Home(Img) \in Places
        /\ Stacks(c) \in Places /\ Home(c) # Stacks(c) /\ Home(Img) # Stacks(c)
    BY <1>2, PlaceFacts DEF AInv
  <2>2. /\ d[Stacks(c)] = Part[Stacks(c)] \cup S
        /\ \A y \in Places : y # Stacks(c) => d[y] = Part[y]
    BY <2>1
  <2> HIDE DEF d
  <2>3. Splits(d, bits \cup S)
    BY <1>4, <2>1, <2>2, GiveSplits
  <2>4. Part'[Home(c)] = d[Home(Img)] /\ Part'[Home(Img)] = d[Home(c)]
    BY <1>2, <1>9, <1>10, <2>1, <2>2, PartAt, PartAtNext
  <2>5. ASSUME NEW y \in Places, y # Home(c), y # Home(Img)
        PROVE  Part'[y] = d[y]
    <3>1. PICK t \in Ids : y = Home(t) \/ y = Stacks(t)
      BY PlaceFacts
    <3>2. CASE y = Home(t)
      <4>1. Part'[y] = Part[y] /\ y # Stacks(c)
        BY <1>10, <2>5, <3>2, PartAt, PartAtNext, PlaceFacts
      <4> QED
        BY <2>2, <4>1
    <3>3. CASE y = Stacks(c)
      BY <1>6, <1>9, <2>2, <3>3, PartAt, PartAtNext
    <3>4. CASE y = Stacks(t) /\ t = Img
      <4>1. Part'[y] = Part[y] /\ y # Stacks(c)
        BY <1>2, <1>7, <3>4, PartAt, PartAtNext, PlaceFacts
      <4> QED
        BY <2>2, <4>1
    <3>5. CASE y = Stacks(t) /\ t \in Task /\ t # c
      <4>1. Part'[y] = Part[y] /\ y # Stacks(c)
        BY <1>6, <3>5, PartAt, PartAtNext, PlaceFacts
      <4> QED
        BY <2>2, <4>1
    <3> QED
      BY <3>1, <3>2, <3>3, <3>4, <3>5 DEF Ids
  <2>6. Splits(Part', bits \cup S)
    BY <2>1, <2>3, <2>4, <2>5, SwapSplits
  <2> QED
    BY <1>5, <2>6 DEF Splits
<1>15. Lives'
  <2>1. ASSUME NEW t \in Task
        PROVE  /\ life'[t] # "none" => Root \in DOMAIN space'[t]
               /\ life'[t] = "none" => space'[t] = NoSpace /\ kstack'[t] = {}
    <3>1. CASE t = c
      BY <1>8, <1>10, <1>11, <3>1
    <3>2. CASE t # c
      <4>1. space'[t] = space[t] /\ life'[t] = life[t] /\ kstack'[t] = kstack[t]
        BY <1>6, <1>10, <1>11, <3>2, AddressSpaceAssumption DEF Ids
      <4>2. /\ life[t] # "none" => Root \in DOMAIN space[t]
            /\ life[t] = "none" => space[t] = NoSpace /\ kstack[t] = {}
        BY <1>1 DEF AInv, Lives
      <4> QED
        BY <4>1, <4>2
    <3> QED
      BY <3>1, <3>2
  <2>2. loaded' = Pml4(current)' /\ (current' \in Task => life'[current'] # "none")
    <3>1. current' = current /\ (current \in Task => life[current] # "none") /\ loaded = Pml4(current)
      BY <1>1 DEF AInv, Lives
    <3>2. current \in Task => current # c /\ current # Img
      BY <1>1, <3>1, AddressSpaceAssumption
    <3>3. current \in Task => space'[current] = space[current] /\ life'[current] # "none"
      BY <1>10, <1>11, <3>1, <3>2 DEF Ids
    <3>4. current = Kernel \/ current \in Task
      BY <1>2 DEF Types, Runners
    <3>5. Pml4(current)' = Pml4(current)
      BY <3>1, <3>3, <3>4 DEF Pml4
    <3> QED
      BY <1>1, <3>1, <3>3, <3>5
  <2> QED
    BY <1>1, <2>1, <2>2, IdleFacts DEF Lives
<1>16. \A t \in Task : life'[t] = "alive" => Heaped(space'[t], brk'[t], RoundUp(brk'[t]))
  <2> SUFFICES ASSUME NEW t \in Task, life'[t] = "alive"
               PROVE  Heaped(space'[t], brk'[t], RoundUp(brk'[t]))
      OBVIOUS
  <2>1. CASE t = c
    BY <1>8, <1>10, <1>11, <2>1, FreshHeap
  <2>2. CASE t # c
    <3>1. life[t] = "alive" /\ space'[t] = space[t] /\ brk'[t] = brk[t]
      BY <1>10, <1>11, <2>2, AddressSpaceAssumption DEF Ids
    <3> QED
      BY <1>1, <3>1 DEF AInv, Heaps, HeapEnd
  <2> QED
    BY <2>1, <2>2
<1> QED
    BY <1>1, <1>10, <1>12, <1>13, <1>14, <1>15, <1>16, IdleStep

LEMMA ExecSwapStep ==
    ASSUME AInv, ExecSwap
    PROVE  AInv'
<1> DEFINE p == op.by
<1>1. /\ op.kind = "exec" /\ op.todo = <<>> /\ Building /\ ~NeedsRoot
      /\ op' = [op EXCEPT !.kind = "load"]
      /\ space' = [space EXCEPT ![p] = space[Img], ![Img] = space[p]]
      /\ brk' = [brk EXCEPT ![p] = HeapBase * PageSize]
      /\ life' = life /\ kstack' = kstack /\ current' = current /\ loaded' = loaded
      /\ memmap' = memmap /\ bits' = bits
    BY DEF ExecSwap, Done, Building, pmm, cpu
<1>2. /\ Types /\ p \in Task /\ p = current /\ life[p] = "alive" /\ p \in Ids /\ Img \in Ids /\ p # Img
    BY <1>1, AddressSpaceAssumption DEF AInv, Caller, Ids
<1>3. op.leaf = 0 /\ TempLeaf = {}
    BY <1>1, NoLeafWhenDone
<1>4. /\ op' \in Calls /\ op'.kind = "load" /\ op'.by = p /\ op'.for = op.for /\ op'.todo = <<>>
      /\ op'.leaf = 0
    BY <1>1, <1>2, <1>3 DEF Types, Calls, Kinds
<1>5. /\ Root \in DOMAIN space[Img] /\ GoodSpace(space[Img]) /\ Pages(space[Img]) = Image
    BY <1>1, DoneFacts DEF Wanted
<1>6. Root \in DOMAIN space[p] /\ GoodSpace(space[p]) /\ loaded = space[p][Root]
  <2>1. p # Kernel
    BY <1>2, AddressSpaceAssumption
  <2>2. loaded = Pml4(p)
    BY <1>1, <1>2 DEF AInv, Lives
  <2> QED
    BY <1>2, <2>1, <2>2 DEF AInv, Lives, Spaces, Pml4
<1> HIDE DEF p
<1>7. /\ DOMAIN space' = Ids /\ space'[p] = space[Img] /\ space'[Img] = space[p]
      /\ \A t \in Ids : t # p /\ t # Img => space'[t] = space[t]
    BY <1>1, <1>2 DEF Types
<1>8. /\ brk' \in [Task -> Nat] /\ brk'[p] = HeapBase * PageSize
      /\ \A t \in Task : t # p => brk'[t] = brk[t]
    BY <1>1, <1>2, HeapBounds DEF Types
<1>9. Types'
    BY <1>1, <1>2, <1>4, <1>7, <1>8 DEF Types, F!total
<1>10. Spaces'
    BY <1>5, <1>6, <1>7 DEF AInv, Spaces
<1>11. Splits(Part, bits)'
  <2>1. Splits(Part, bits) /\ Home(p) \in Places /\ Home(Img) \in Places
    BY <1>2, PlaceFacts DEF AInv
  <2>2. Part'[Home(p)] = Part[Home(Img)] /\ Part'[Home(Img)] = Part[Home(p)]
    BY <1>2, <1>7, PartAt, PartAtNext
  <2>3. TempLeaf' = {}
    BY <1>4 DEF TempLeaf, NoFrame
  <2>4. ASSUME NEW y \in Places, y # Home(p), y # Home(Img)
        PROVE  Part'[y] = Part[y]
    <3>1. PICK t \in Ids : y = Home(t) \/ y = Stacks(t)
      BY PlaceFacts
    <3>2. CASE y = Home(t)
      BY <1>7, <2>4, <3>2, PartAt, PartAtNext
    <3>3. CASE y = Stacks(t) /\ t = Img
      BY <1>3, <2>3, <3>3, PartAt, PartAtNext
    <3>4. CASE y = Stacks(t) /\ t \in Task
      BY <1>1, <3>4, PartAt, PartAtNext
    <3> QED
      BY <3>1, <3>2, <3>3, <3>4 DEF Ids
  <2>5. Splits(Part', bits)
    BY <2>1, <2>2, <2>4, SwapSplits
  <2> QED
    BY <1>1, <2>5 DEF Splits
<1>12. Caller'
    BY <1>1, <1>2, <1>4 DEF Caller
<1>13. Construction'
    BY <1>4, <1>6, <1>7 DEF Construction, NeedsRoot, Building
<1>14. Unmapped' /\ Growth' /\ Faulting'
    BY <1>4 DEF Unmapped, Growth, Faulting, NoFrame
<1>15. Heaps'
  <2> SUFFICES ASSUME NEW t \in Task, life[t] = "alive"
               PROVE  Heaped(space'[t], brk'[t], HeapEnd(t)')
      BY <1>1 DEF Heaps
  <2>1. HeapEnd(t)' = RoundUp(brk'[t])
    BY <1>4 DEF HeapEnd
  <2>2. CASE t = p
    BY <1>5, <1>7, <1>8, <2>1, <2>2, FreshHeap
  <2>3. CASE t # p
    <3>1. space'[t] = space[t] /\ brk'[t] = brk[t]
      BY <1>7, <1>8, <2>3, AddressSpaceAssumption DEF Ids
    <3> QED
      BY <1>1, <2>1, <3>1 DEF AInv, Heaps, HeapEnd
  <2> QED
    BY <2>2, <2>3
<1>16. Lives'
  <2>1. ASSUME NEW t \in Task
        PROVE  /\ life[t] # "none" => Root \in DOMAIN space'[t]
               /\ life[t] = "none" => space'[t] = NoSpace /\ kstack[t] = {}
    <3>1. CASE t = p
      BY <1>2, <1>5, <1>7, <3>1
    <3>2. CASE t # p
      <4>1. space'[t] = space[t]
        BY <1>7, <3>2, AddressSpaceAssumption DEF Ids
      <4> QED
        BY <1>1, <4>1 DEF AInv, Lives
    <3> QED
      BY <3>1, <3>2
  <2>2. loaded' = space'[Img][Root]
    BY <1>1, <1>6, <1>7
  <2>3. current' \in Task => life'[current'] # "none"
    BY <1>1 DEF AInv, Lives
  <2> QED
    BY <1>1, <1>4, <2>1, <2>2, <2>3 DEF Lives
<1> QED
    BY <1>9, <1>10, <1>11, <1>12, <1>13, <1>14, <1>15, <1>16 DEF AInv

LEMMA ExecLoadStep ==
    ASSUME AInv, ExecLoad
    PROVE  AInv'
<1>1. /\ op.kind = "load" /\ loaded' = space[op.by][Root] /\ op' = [op EXCEPT !.kind = "free"]
      /\ space' = space /\ brk' = brk /\ life' = life /\ kstack' = kstack /\ current' = current
      /\ memmap' = memmap /\ bits' = bits
    BY DEF ExecLoad, pmm, tasks
<1>2. Types /\ op.todo = <<>> /\ op.by \in Task /\ op.by = current /\ life[op.by] = "alive"
    BY <1>1 DEF AInv, Caller, Construction
<1>3. op.leaf = 0 /\ TempLeaf = {}
    BY <1>2, NoLeafWhenDone
<1>4. /\ op' \in Calls /\ op'.kind = "free" /\ op'.by = op.by /\ op'.for = op.for
      /\ op'.todo = <<>> /\ op'.leaf = 0
    BY <1>1, <1>2, <1>3 DEF Types, Calls, Kinds
<1>5. Types' /\ Spaces'
    BY <1>1, <1>2, <1>4 DEF AInv, Types, Spaces, F!total
<1>6. Splits(Part, bits)'
  <2>1. TempLeaf' = {}
    BY <1>4 DEF TempLeaf, NoFrame
  <2>2. Part' = Part
    BY <1>1, <1>3, <2>1 DEF Part
  <2> QED
    BY <1>1, <2>2 DEF AInv, Splits
<1>7. Caller'
    BY <1>1, <1>2, <1>4 DEF Caller
<1>8. Construction'
    BY <1>1, <1>4 DEF AInv, Construction, NeedsRoot, Building
<1>9. Unmapped' /\ Growth' /\ Faulting'
    BY <1>4 DEF Unmapped, Growth, Faulting, NoFrame
<1>10. Heaps'
    BY <1>1, <1>4 DEF AInv, Heaps, HeapEnd
<1>11. Lives'
  <2>1. Pml4(current)' = space[op.by][Root]
    BY <1>1, <1>2, AddressSpaceAssumption DEF Pml4
  <2> QED
    BY <1>1, <1>4, <2>1 DEF AInv, Lives
<1> QED
    BY <1>5, <1>6, <1>7, <1>8, <1>9, <1>10, <1>11 DEF AInv

-----------------------------------------------------------------------------
(***************************************************************************)
(* Steps that map pages.                                                   *)
(***************************************************************************)
Growing == {"fork", "spawn", "exec", "sbrk", "fault"}

\* A step inside a call: the caller stays, and so do the roots of the tasks.
LEMMA SameCall ==
    ASSUME AInv, op.kind \in Growing, op' \in Calls,
           op'.kind = op.kind, op'.by = op.by, op'.for = op.for,
           DOMAIN space' = Ids,
           \A t \in Task :
                \/ space'[t] = space[t]
                \/ life[t] = "alive" /\ Root \in DOMAIN space'[t] /\ space'[t][Root] = space[t][Root],
           life' = life, kstack' = kstack, brk' = brk, current' = current, loaded' = loaded,
           memmap' = memmap
    PROVE  Types' /\ Caller' /\ Lives'
<1>1. op.kind \notin {"idle", "load"}
    BY DEF Growing
<1>2. Types'
    BY DEF AInv, Types, F!total
<1>3. Caller'
    BY <1>1 DEF AInv, Caller
<1>4. Lives'
  <2>1. loaded = Pml4(current) /\ (current \in Task => life[current] # "none")
    BY <1>1 DEF AInv, Lives
  <2>2. current = Kernel \/ current \in Task
    BY DEF AInv, Types, Runners
  <2>3. Pml4(current)' = Pml4(current)
    BY <2>2 DEF Pml4
  <2>4. ASSUME NEW t \in Task
        PROVE  /\ life[t] # "none" => Root \in DOMAIN space'[t]
               /\ life[t] = "none" => space'[t] = NoSpace
               /\ life[t] = "none" => kstack[t] = {} \/ (op.kind = "fork" /\ op.for = t)
    BY DEF AInv, Lives
  <2> QED
    BY <1>1, <2>1, <2>3, <2>4 DEF Lives
<1> QED
    BY <1>2, <1>3, <1>4

\* The space that grows.
LEMMA TargetFacts ==
    ASSUME AInv, Mapping
    PROVE  /\ op.kind \in Growing /\ op.todo \in Seq(Nat) /\ op.todo # <<>>
           /\ Head(op.todo) \in Nat /\ Head(op.todo) \in ToSet(op.todo)
           /\ Target \in Ids /\ Target # Kernel
           /\ GoodSpace(space[Target]) /\ Root \in DOMAIN space[Target]
           /\ Building => Target = Img
           /\ ~Building => /\ Target = op.by /\ op.by \in Task /\ life[op.by] = "alive"
                           /\ space[Img] = NoSpace /\ op.kind \in {"sbrk", "fault"}
<1>1. op.todo # <<>> /\ ~NeedsRoot
    BY DEF Mapping
<1>2. op.todo \in Seq(Nat) /\ op.kind \in Kinds
    BY DEF AInv, Types, Calls
<1>3. op.kind \in Growing
  <2>1. op.kind # "idle"
    BY <1>1, IdleFacts DEF AInv, Caller
  <2>2. op.kind \notin {"load", "free"}
    BY <1>1 DEF AInv, Construction
  <2> QED
    BY <1>2, <2>1, <2>2 DEF Growing, Kinds
<1>4. Head(op.todo) \in Nat /\ Head(op.todo) \in ToSet(op.todo)
    BY <1>1, <1>2, SetOfTail
<1>5. CASE Building
  <2>1. Target = Img /\ Img \in Ids /\ Img # Kernel
    BY <1>5, AddressSpaceAssumption DEF Target, Ids
  <2>2. GoodSpace(space[Img]) /\ space[Img] # NoSpace
    BY <1>1, <1>5, <2>1 DEF AInv, Spaces, NeedsRoot
  <2>3. Root \in DOMAIN space[Img]
    BY <2>2, PageIsLeaf
  <2> QED
    BY <1>1, <1>2, <1>3, <1>4, <1>5, <2>1, <2>2, <2>3
<1>6. CASE ~Building
  <2>1. op.kind \in {"sbrk", "fault"} /\ Target = op.by
    BY <1>3, <1>6 DEF Growing, Building, Target
  <2>2. op.by \in Task /\ life[op.by] = "alive" /\ space[Img] = NoSpace
    BY <2>1 DEF AInv, Caller, Construction
  <2>3. op.by \in Ids /\ op.by # Kernel
    BY <2>2, AddressSpaceAssumption DEF Ids
  <2>4. GoodSpace(space[op.by]) /\ Root \in DOMAIN space[op.by]
    BY <2>2, <2>3 DEF AInv, Spaces, Lives
  <2> QED
    BY <1>1, <1>2, <1>3, <1>4, <1>6, <2>1, <2>2, <2>3, <2>4
<1> QED
    BY <1>5, <1>6

\* A page that has no frame yet is a new page of the space, and not shared.
LEMMA FreshPage ==
    ASSUME AInv, NeedsLeaf
    PROVE  /\ op.leaf = 0
           /\ Leaf(Head(op.todo)) \notin DOMAIN space[Target]
           /\ Head(op.todo) \notin DOMAIN Shared
<1> DEFINE v == Head(op.todo)
<1>1. Mapping /\ Frame(v) = 0
    BY DEF NeedsLeaf, NoFrame
<1>2. /\ op.kind \in Growing /\ v \in Nat /\ v \in ToSet(op.todo) /\ op.todo # <<>>
      /\ Target \in Ids /\ GoodSpace(space[Target])
    BY <1>1, TargetFacts
<1>3. op.leaf = 0
    BY <1>1 DEF Frame, NoFrame
<1>4. CASE op.kind = "fork"
  <2>1. Building /\ ~NeedsRoot /\ Target = Img
    BY <1>1, <1>4, TargetFacts DEF Building, Mapping
  <2>2. /\ op.by \in Task
        /\ Pages(space[Img]) \cup ToSet(op.todo) = Pages(space[op.by])
        /\ ToSet(op.todo) \cap Pages(space[Img]) = {}
    BY <1>4, <2>1 DEF AInv, Caller, Construction, Wanted
  <2>3. GoodSpace(space[op.by]) /\ v \in Pages(space[op.by]) /\ v \notin Pages(space[Img])
    BY <1>2, <2>2 DEF AInv, Spaces, Ids
  <2>4. Leaf(v) \in DOMAIN space[op.by] /\ Leaf(v) \notin DOMAIN space[Target]
    BY <1>2, <2>1, <2>3, PageIsLeaf
  <2>5. space[op.by][Leaf(v)] \in Nat \ {0}
    BY <2>3, <2>4 DEF GoodSpace
  <2>6. space[op.by][Leaf(v)] \notin SharedFrames
    BY <1>1, <1>3, <1>4, <2>5 DEF Frame, NoFrame
  <2>7. Leaf(v) \notin SharedLeaves
    BY <2>3, <2>4, <2>6 DEF GoodSpace
  <2> QED
    BY <1>3, <2>4, <2>7, LeafFacts
<1>5. CASE op.kind \in {"spawn", "exec"}
  <2>1. Target = Img
    BY <1>1, <1>5, TargetFacts DEF Building
  <2>2. v \notin DOMAIN Shared
    <3> SUFFICES ASSUME v \in DOMAIN Shared
                 PROVE  FALSE
        OBVIOUS
    <3>1. Frame(v) = Shared[v]
      BY <1>3, <1>5 DEF Frame, NoFrame
    <3> QED
      BY <1>1, <3>1, SharedFacts
  <2>3. Leaf(v) \notin DOMAIN space[Img]
    <3> SUFFICES ASSUME Leaf(v) \in DOMAIN space[Img]
                 PROVE  FALSE
        OBVIOUS
    <3>1. Frame(v) = space[Img][Leaf(v)]
      BY <1>3, <1>5, <2>2 DEF Frame, NoFrame
    <3>2. space[Img][Leaf(v)] # 0
      BY <1>2, <2>1 DEF GoodSpace
    <3> QED
      BY <1>1, <3>1, <3>2
  <2> QED
    BY <1>3, <2>1, <2>2, <2>3
<1>6. CASE op.kind = "sbrk"
  <2>1. Target = op.by
    BY <1>1, <1>6, TargetFacts DEF Building
  <2>2. v = Frontier /\ v \in HeapPages /\ Heaped(space[op.by], brk[op.by], Frontier)
    BY <1>2, <1>6, GrowthFacts
  <2>3. v \notin Pages(space[op.by])
    BY <1>2, <2>2 DEF Heaped
  <2>4. v \notin DOMAIN Shared
    BY <2>2, AddressSpaceAssumption DEF Image
  <2> QED
    BY <1>2, <1>3, <2>1, <2>3, <2>4, PageIsLeaf
<1>7. CASE op.kind = "fault"
  <2>1. Target = op.by
    BY <1>1, <1>7, TargetFacts DEF Building
  <2>2. v \in Stack \ Pages(space[op.by])
    <3>1. PICK w \in Stack \ Pages(space[op.by]) : op.todo = <<w>>
      BY <1>2, <1>7 DEF AInv, Faulting
    <3> QED
      BY <3>1
  <2>3. v \notin DOMAIN Shared
    BY <2>2, AddressSpaceAssumption
  <2> QED
    BY <1>2, <1>3, <2>1, <2>2, <2>3, PageIsLeaf
<1> QED
    BY <1>2, <1>4, <1>5, <1>6, <1>7 DEF Growing

\* A page that has a frame: the frame the call took for it, a shared one, or
\* the one the page had when a segment before reached it.
LEMMA FramedPage ==
    ASSUME AInv, Mapping, ~NeedsLeaf
    PROVE  LET v == Head(op.todo)
               s == space[Target]
           IN  \/ /\ op.leaf # 0 /\ op.leaf \in Nat /\ Frame(v) = op.leaf
                  /\ Leaf(v) \notin DOMAIN s /\ v \notin DOMAIN Shared
               \/ op.leaf = 0 /\ v \in DOMAIN Shared /\ Frame(v) \in SharedFrames
               \/ op.leaf = 0 /\ Leaf(v) \in DOMAIN s /\ Frame(v) = s[Leaf(v)]
<1> DEFINE v == Head(op.todo)
<1>1. Frame(v) # 0
    BY DEF NeedsLeaf, NoFrame
<1>2. /\ op.kind \in Growing /\ v \in Nat /\ v \in ToSet(op.todo)
    BY TargetFacts
<1>3. CASE op.leaf # 0
  <2>1. op.leaf \in Nat
    BY DEF AInv, Types, Calls
  <2> QED
    BY <1>3, <2>1 DEF AInv, Unmapped, Frame, NoFrame
<1>4. CASE op.leaf = 0 /\ op.kind = "fork"
  <2>1. Building /\ ~NeedsRoot /\ op.by \in Task
    BY <1>4 DEF Building, Mapping, AInv, Caller
  <2>2. Pages(space[Img]) \cup ToSet(op.todo) = Pages(space[op.by])
    BY <1>4, <2>1 DEF AInv, Construction, Wanted
  <2>3. GoodSpace(space[op.by]) /\ v \in Pages(space[op.by])
    BY <1>2, <2>1, <2>2 DEF AInv, Spaces, Ids
  <2>4. Leaf(v) \in DOMAIN space[op.by]
    BY <2>3, PageIsLeaf
  <2>5. space[op.by][Leaf(v)] \in SharedFrames /\ Frame(v) = space[op.by][Leaf(v)]
    BY <1>1, <1>4 DEF Frame, NoFrame
  <2>6. Leaf(v) \in SharedLeaves
    BY <2>3, <2>4, <2>5 DEF GoodSpace
  <2> QED
    BY <1>4, <2>5, <2>6, LeafFacts
<1>5. CASE op.leaf = 0 /\ op.kind \in {"spawn", "exec"}
  <2>1. Target = Img
    BY <1>5, TargetFacts DEF Building
  <2>2. CASE v \in DOMAIN Shared
    BY <1>5, <2>2, SharedFacts DEF Frame, NoFrame
  <2>3. CASE v \notin DOMAIN Shared
    BY <1>1, <1>5, <2>1, <2>3 DEF Frame, NoFrame
  <2> QED
    BY <2>2, <2>3
<1>6. CASE op.leaf = 0 /\ op.kind \in {"sbrk", "fault"}
    BY <1>1, <1>6 DEF Frame, NoFrame
<1> QED
    BY <1>2, <1>3, <1>4, <1>5, <1>6 DEF Growing

\* A space takes a free frame.
LEMMA TakeFrame ==
    ASSUME AInv, NEW f \in F!Free, bits' = bits \cup {f}, NEW t \in Ids,
           Own(space'[t]) = Own(space[t]) \cup {f},
           \A u \in Ids : u # t => space'[u] = space[u],
           kstack' = kstack, op'.leaf = op.leaf
    PROVE  Splits(Part, bits)'
<1>1. Splits(Part, bits) /\ Home(t) \in Places /\ {f} \cap bits = {}
    BY FreeFrame, PlaceFacts DEF AInv
<1>2. Part'[Home(t)] = Part[Home(t)] \cup {f}
    BY PartAt, PartAtNext
<1>3. TempLeaf' = TempLeaf
    BY DEF TempLeaf
<1>4. ASSUME NEW y \in Places, y # Home(t)
      PROVE  Part'[y] = Part[y]
  <2>1. PICK u \in Ids : y = Home(u) \/ y = Stacks(u)
    BY PlaceFacts
  <2>2. CASE y = Home(u)
    BY <1>4, <2>2, PartAt, PartAtNext
  <2>3. CASE y = Stacks(u) /\ u = Img
    BY <1>3, <2>3, PartAt, PartAtNext
  <2>4. CASE y = Stacks(u) /\ u \in Task
    BY <2>4, PartAt, PartAtNext
  <2> QED
    BY <2>1, <2>2, <2>3, <2>4 DEF Ids
<1>5. Splits(Part', bits \cup {f})
    BY <1>1, <1>2, <1>4, GiveSplits
<1> QED
    BY <1>5 DEF Splits

LEMMA PlanFacts ==
    ASSUME AInv, NeedsRoot
    PROVE  /\ Plan \in Seq(Nat) /\ ToSet(Plan) = Wanted
           /\ op.kind = "fork" => \A i, j \in DOMAIN Plan : Plan[i] = Plan[j] => i = j
<1>1. CASE op.kind = "fork"
  <2>1. GoodSpace(space[op.by])
    BY <1>1 DEF AInv, Caller, Spaces, Ids
  <2>2. Pages(space[op.by]) \in SUBSET Nat /\ IsFiniteSet(Pages(space[op.by]))
    BY <2>1, PageIsLeaf
  <2>3. Plan = Ascending(Pages(space[op.by])) /\ Wanted = Pages(space[op.by])
    BY <1>1 DEF Plan, Wanted
  <2> QED
    BY <2>2, <2>3, AscendingLists
<1>2. CASE op.kind # "fork"
  <2> DEFINE a == Ascending(DOMAIN Shared)
  <2>1. a \in Seq(Nat) /\ ToSet(a) = DOMAIN Shared
    BY AscendingLists, AddressSpaceAssumption
  <2> HIDE DEF a
  <2> DEFINE b == ImagePages \o FirstStack
             c == Reverse(a)
  <2>2. c \in Seq(Nat) /\ ToSet(c) = DOMAIN Shared
    BY <2>1, SetOfReverse
  <2>3. b \in Seq(Nat) /\ ToSet(b) = ToSet(ImagePages) \cup ToSet(FirstStack)
    BY SetOfConcat, AddressSpaceAssumption
  <2>4. Plan = b \o c /\ Wanted = Image
    BY <1>2 DEF Plan, Wanted, a
  <2> HIDE DEF b, c
  <2>5. b \o c \in Seq(Nat) /\ ToSet(b \o c) = ToSet(b) \cup ToSet(c)
    BY <2>2, <2>3, SetOfConcat
  <2> QED
    BY <1>2, <2>2, <2>3, <2>4, <2>5 DEF Image
<1> QED
    BY <1>1, <1>2

LEMMA NewRootStep ==
    ASSUME AInv, NEW f \in F!Free, NewRoot(f)
    PROVE  AInv'
<1>1. /\ NeedsRoot /\ Building /\ space[Img] = NoSpace /\ bits' = bits \cup {f} /\ memmap' = memmap
      /\ space' = [space EXCEPT ![Img] = Linked(NoSpace, Root, f)]
      /\ op' = [op EXCEPT !.todo = Plan]
      /\ life' = life /\ kstack' = kstack /\ brk' = brk /\ current' = current /\ loaded' = loaded
    BY DEF NewRoot, NeedsRoot, F!Take, F!Set, tasks, cpu
<1>2. Types /\ Img \in Ids /\ Img \notin Task /\ op.kind \in {"fork", "spawn", "exec"}
    BY <1>1, AddressSpaceAssumption DEF AInv, Ids, Building
<1>3. Plan \in Seq(Nat) /\ ToSet(Plan) = Wanted
      /\ (op.kind = "fork" => \A i, j \in DOMAIN Plan : Plan[i] = Plan[j] => i = j)
    BY <1>1, PlanFacts
<1>4. op.todo = <<>> /\ op.leaf = 0
    BY <1>1, NoLeafWhenDone DEF AInv, Construction
<1>5. /\ op' \in Calls /\ op'.kind = op.kind /\ op'.by = op.by /\ op'.for = op.for
      /\ op'.todo = Plan /\ op'.leaf = 0 /\ op'.brk = op.brk
    BY <1>1, <1>2, <1>3, <1>4 DEF Types, Calls
<1> DEFINE new == Linked(NoSpace, Root, f)
<1>6. f \in Nat \ {0} /\ f \notin SharedFrames
    BY <1>2, FreeFrame DEF AInv
<1>7. GoodSpace(new) /\ Own(new) = {f} /\ Pages(new) = {} /\ Root \in DOMAIN new
  <2>1. Root \notin SharedLeaves /\ Fits(NoSpace, Root) /\ Root[1] # Levels
    BY LeafFacts DEF Fits
  <2>2. GoodSpace(new) /\ Own(new) = Own(NoSpace) \cup {f}
    BY <1>6, <2>1, NoSpaceFacts, LinkNew
  <2>3. Pages(new) = Pages(NoSpace)
    BY <2>1, LinkedPages
  <2>4. DOMAIN new = DOMAIN NoSpace \cup {Root}
    BY DEF Linked
  <2> QED
    BY <2>2, <2>3, <2>4, NoSpaceFacts
<1>8. /\ DOMAIN space' = Ids /\ space'[Img] = new
      /\ \A t \in Ids : t # Img => space'[t] = space[t]
    BY <1>1, <1>2 DEF Types
<1>9. \A t \in Task : space'[t] = space[t]
    BY <1>2, <1>8 DEF Ids
<1> HIDE DEF new
<1>10. Types' /\ Caller' /\ Lives'
  <2>1. op.kind \in Growing
    BY <1>2 DEF Growing
  <2> QED
    BY <1>1, <1>5, <1>8, <1>9, <2>1, SameCall
<1>11. Spaces'
    BY <1>7, <1>8 DEF AInv, Spaces
<1>12. Splits(Part, bits)'
  <2>1. Own(space'[Img]) = Own(space[Img]) \cup {f}
    BY <1>1, <1>7, <1>8, NoSpaceFacts
  <2>2. op'.leaf = op.leaf
    BY <1>4, <1>5
  <2> QED
    BY <1>1, <1>2, <1>8, <2>1, <2>2, TakeFrame
<1>13. Construction'
  <2>1. space'[Img] # NoSpace
    BY <1>7, <1>8, NoSpaceFacts
  <2>2. Wanted' = Wanted
    <3>1. op.kind = "fork" => op.by \in Task
      BY DEF AInv, Caller
    <3> QED
      BY <1>5, <1>9, <3>1 DEF Wanted
  <2>3. Pages(space'[Img]) \cup ToSet(op'.todo) = Wanted'
    BY <1>3, <1>5, <1>7, <1>8, <2>2
  <2>4. ToSet(op'.todo) \cap Pages(space'[Img]) = {}
    BY <1>7, <1>8
  <2>5. op'.kind \notin {"load", "free", "idle", "sbrk", "fault"} /\ ~NeedsRoot'
    BY <1>2, <1>5, <2>1 DEF NeedsRoot
  <2>6. op'.kind = "fork" => \A i, j \in DOMAIN op'.todo : op'.todo[i] = op'.todo[j] => i = j
    BY <1>3, <1>5
  <2> QED
    BY <2>3, <2>4, <2>5, <2>6 DEF Construction
<1>14. Unmapped' /\ Growth' /\ Faulting'
    BY <1>2, <1>5 DEF Unmapped, Growth, Faulting, NoFrame
<1>15. Heaps'
  <2>1. \A t \in Task : HeapEnd(t) = RoundUp(brk[t]) /\ HeapEnd(t)' = RoundUp(brk[t])
    BY <1>1, <1>2, <1>5 DEF HeapEnd
  <2> QED
    BY <1>1, <1>9, <2>1 DEF AInv, Heaps
<1> QED
    BY <1>10, <1>11, <1>12, <1>13, <1>14, <1>15 DEF AInv

LEMMA NewLeafStep ==
    ASSUME AInv, NEW f \in F!Free, NewLeaf(f)
    PROVE  AInv'
<1>1. /\ NeedsLeaf /\ bits' = bits \cup {f} /\ memmap' = memmap /\ space' = space
      /\ op' = [op EXCEPT !.leaf = f]
      /\ life' = life /\ kstack' = kstack /\ brk' = brk /\ current' = current /\ loaded' = loaded
    BY DEF NewLeaf, F!Take, F!Set, tasks, cpu
<1>2. Types /\ Img \in Ids
    BY DEF AInv, Ids
<1>3. op.kind \in Growing /\ op.todo # <<>>
    BY <1>1, TargetFacts DEF NeedsLeaf
<1>4. /\ op.leaf = 0 /\ Leaf(Head(op.todo)) \notin DOMAIN space[Target]
      /\ Head(op.todo) \notin DOMAIN Shared
    BY <1>1, FreshPage
<1>5. f \in Nat \ {0} /\ f \notin bits
    BY <1>2, FreeFrame DEF AInv
<1>6. /\ op' \in Calls /\ op'.kind = op.kind /\ op'.by = op.by /\ op'.for = op.for
      /\ op'.todo = op.todo /\ op'.leaf = f /\ op'.brk = op.brk
    BY <1>1, <1>2, <1>5 DEF Types, Calls
<1>7. Types' /\ Caller' /\ Lives'
  <2>1. DOMAIN space' = Ids
    BY <1>1, <1>2 DEF Types
  <2> QED
    BY <1>1, <1>3, <1>6, <2>1, SameCall
<1>8. Spaces'
    BY <1>1 DEF AInv, Spaces
<1>9. Splits(Part, bits)'
  <2>1. Splits(Part, bits) /\ Stacks(Img) \in Places /\ {f} \cap bits = {}
    BY <1>2, <1>5, PlaceFacts DEF AInv
  <2>2. TempLeaf = {} /\ TempLeaf' = {f}
    BY <1>4, <1>5, <1>6 DEF TempLeaf, NoFrame
  <2>3. Part'[Stacks(Img)] = Part[Stacks(Img)] \cup {f}
    BY <2>2, PartAt, PartAtNext
  <2>4. ASSUME NEW y \in Places, y # Stacks(Img)
        PROVE  Part'[y] = Part[y]
    <3>1. PICK u \in Ids : y = Home(u) \/ y = Stacks(u)
      BY PlaceFacts
    <3>2. CASE y = Home(u)
      BY <1>1, <3>2, PartAt, PartAtNext
    <3>3. CASE y = Stacks(u) /\ u \in Task
      BY <1>1, <3>3, PartAt, PartAtNext
    <3> QED
      BY <2>4, <3>1, <3>2, <3>3 DEF Ids
  <2>5. Splits(Part', bits \cup {f})
    BY <2>1, <2>3, <2>4, GiveSplits
  <2> QED
    BY <1>1, <2>5 DEF Splits
<1>10. Construction'
  <2>1. Wanted' = Wanted /\ NeedsRoot' = NeedsRoot /\ Building' = Building
    BY <1>1, <1>6 DEF Wanted, NeedsRoot, Building
  <2> QED
    BY <1>1, <1>6, <2>1 DEF AInv, Construction
<1>11. Unmapped'
  <2>1. Target' = Target
    BY <1>6 DEF Target, Building
  <2> QED
    BY <1>1, <1>3, <1>4, <1>6, <2>1 DEF Unmapped, Growing
<1>12. Growth' /\ Faulting' /\ Heaps'
  <2>1. Frontier' = Frontier
    BY <1>6 DEF Frontier
  <2>2. \A t \in Task : HeapEnd(t)' = HeapEnd(t)
    BY <1>1, <1>6, <2>1 DEF HeapEnd
  <2> QED
    BY <1>1, <1>6, <2>1, <2>2 DEF AInv, Growth, Faulting, Heaps
<1> QED
    BY <1>7, <1>8, <1>9, <1>10, <1>11, <1>12 DEF AInv

LEMMA NewTableStep ==
    ASSUME AInv, NEW f \in F!Free, NewTable(f)
    PROVE  AInv'
<1> DEFINE T == Target
<1>1. /\ Mapping /\ bits' = bits \cup {f} /\ memmap' = memmap /\ op' = op
      /\ life' = life /\ kstack' = kstack /\ brk' = brk /\ current' = current /\ loaded' = loaded
    BY DEF NewTable, NeedsTable, F!Take, F!Set, tasks, cpu
<1>2. PICK n \in Missing : space' = [space EXCEPT ![T] = Linked(@, n, f)]
    BY DEF NewTable
<1>3. /\ op.kind \in Growing /\ T \in Ids /\ GoodSpace(space[T]) /\ Root \in DOMAIN space[T]
      /\ Building => T = Img
      /\ ~Building => T = op.by /\ op.by \in Task /\ life[op.by] = "alive" /\ space[Img] = NoSpace
    BY <1>1, TargetFacts
<1>4. n \notin DOMAIN space[T] /\ n[1] # Levels /\ n # Root
    BY <1>2, TableFacts DEF Missing
<1> DEFINE new == Linked(space[T], n, f)
<1>5. f \in Nat \ {0} /\ f \notin SharedFrames /\ f \notin Own(space[T])
    BY <1>3, FreeFrame DEF AInv
<1>6. /\ GoodSpace(new) /\ Own(new) = Own(space[T]) \cup {f} /\ Pages(new) = Pages(space[T])
      /\ DOMAIN new = DOMAIN space[T] \cup {n} /\ new[Root] = space[T][Root]
  <2>1. n \notin SharedLeaves /\ Fits(space[T], n)
    BY <1>3, <1>4, LeafFacts DEF Fits
  <2>2. GoodSpace(new) /\ Own(new) = Own(space[T]) \cup {f}
    BY <1>3, <1>4, <1>5, <2>1, LinkNew
  <2>3. Pages(new) = Pages(space[T])
    BY <1>4, LinkedPages
  <2>4. DOMAIN new = DOMAIN space[T] \cup {n} /\ new[Root] = space[T][Root]
    BY <1>3, <1>4 DEF Linked
  <2> QED
    BY <2>2, <2>3, <2>4
<1> HIDE DEF T, new
<1>7. Types /\ Img \in Ids /\ Task \subseteq Ids /\ Img \notin Task
    BY AddressSpaceAssumption DEF AInv, Ids
<1>8. /\ DOMAIN space' = Ids /\ space'[T] = new
      /\ \A t \in Ids : t # T => space'[t] = space[t]
    BY <1>2, <1>3, <1>7 DEF Types, new
<1>9. /\ \A t \in Ids : Pages(space'[t]) = Pages(space[t])
      /\ \A t \in Ids : GoodSpace(space'[t])
      /\ space'[Img] = NoSpace <=> space[Img] = NoSpace
  <2>1. \A t \in Ids : Pages(space'[t]) = Pages(space[t])
    BY <1>6, <1>8
  <2>2. \A t \in Ids : GoodSpace(space'[t])
    BY <1>6, <1>8 DEF AInv, Spaces
  <2>3. space[T] # NoSpace /\ new # NoSpace
    BY <1>3, <1>6, NoSpaceFacts
  <2> QED
    BY <1>7, <1>8, <2>1, <2>2, <2>3
<1>10. Types' /\ Caller' /\ Lives'
  <2>1. op' \in Calls
    BY <1>1, <1>7 DEF Types
  <2>2. \A t \in Task :
            \/ space'[t] = space[t]
            \/ life[t] = "alive" /\ Root \in DOMAIN space'[t] /\ space'[t][Root] = space[t][Root]
    BY <1>3, <1>6, <1>7, <1>8
  <2> QED
    BY <1>1, <1>3, <1>8, <2>1, <2>2, SameCall
<1>11. Spaces'
    BY <1>9 DEF Spaces
<1>12. Splits(Part, bits)'
  <2>1. Own(space'[T]) = Own(space[T]) \cup {f}
    BY <1>6, <1>8
  <2> QED
    BY <1>1, <1>3, <1>8, <2>1, TakeFrame
<1>13. Construction'
  <2>1. op.kind \notin {"load", "free"}
    BY <1>3 DEF Growing
  <2>2. NeedsRoot' = NeedsRoot /\ Building' = Building
    BY <1>1, <1>9 DEF NeedsRoot, Building
  <2>3. Wanted' = Wanted
    <3>1. op.kind = "fork" => op.by \in Ids
      BY <1>7 DEF AInv, Caller
    <3> QED
      BY <1>1, <1>9, <3>1 DEF Wanted
  <2>4. Pages(space'[Img]) = Pages(space[Img])
    BY <1>7, <1>9
  <2> QED
    BY <1>1, <1>9, <2>1, <2>2, <2>3, <2>4 DEF AInv, Construction
<1>14. Unmapped'
  <2>1. Target' = T
    BY <1>1 DEF T, Target, Building
  <2>2. Leaf(Head(op.todo)) # n
    BY <1>4, LeafFacts
  <2>3. op.leaf # 0 =>
            /\ op.todo # <<>> /\ Leaf(Head(op.todo)) \notin DOMAIN space[T]
            /\ Head(op.todo) \notin DOMAIN Shared
    BY DEF AInv, Unmapped, NoFrame, T
  <2> QED
    BY <1>1, <1>3, <1>6, <1>8, <2>1, <2>2, <2>3 DEF Unmapped, NoFrame, Growing
<1>15. Growth' /\ Faulting' /\ Heaps'
  <2>1. Frontier' = Frontier
    BY <1>1 DEF Frontier
  <2>2. \A t \in Task : HeapEnd(t)' = HeapEnd(t)
    BY <1>1, <2>1 DEF HeapEnd
  <2>3. Growth'
    BY <1>1, <2>1 DEF AInv, Growth
  <2>4. Faulting'
    <3>1. op.kind = "fault" => op.by \in Ids
      BY <1>7 DEF AInv, Caller
    <3> QED
      BY <1>1, <1>9, <3>1 DEF AInv, Faulting
  <2>5. Heaps'
    BY <1>1, <1>7, <1>9, <2>2 DEF AInv, Heaps, Heaped
  <2> QED
    BY <2>3, <2>4, <2>5
<1> QED
    BY <1>10, <1>11, <1>12, <1>13, <1>14, <1>15 DEF AInv

\* The frames after a page is mapped: the frame taken for it is handed over.
LEMMA MappedFrames ==
    ASSUME AInv, Mapping, ~NeedsLeaf,
           NEW v, v = Head(op.todo), NEW s, s = space[Target],
           NEW new, new = Linked(s, Leaf(v), Frame(v))
    PROVE  /\ GoodSpace(new) /\ Own(new) = Own(s) \cup TempLeaf
           /\ Pages(new) = Pages(s) \cup {v}
           /\ Root \in DOMAIN new /\ new[Root] = s[Root]
<1>1. v \in Nat /\ Target \in Ids /\ GoodSpace(s) /\ Root \in DOMAIN s
    BY TargetFacts
<1>2. Leaf(v)[1] = Levels /\ Leaf(v)[2] = v /\ Leaf(v) # Root
    BY LeafFacts
<1>3. Pages(new) = Pages(s) \cup {v}
    BY <1>2, LinkedPages
<1>4. Root \in DOMAIN new /\ new[Root] = s[Root]
    BY <1>1, <1>2 DEF Linked
<1>5. CASE /\ op.leaf # 0 /\ op.leaf \in Nat /\ Frame(v) = op.leaf
           /\ Leaf(v) \notin DOMAIN s /\ v \notin DOMAIN Shared
  <2>1. TempLeaf = {op.leaf}
    BY <1>5 DEF TempLeaf, NoFrame
  <2>2. Splits(Part, bits) /\ Home(Target) \in Places /\ Stacks(Img) \in Places
        /\ Home(Target) # Stacks(Img)
    BY <1>1, PlaceFacts DEF AInv, Ids
  <2>3. op.leaf \in Part[Stacks(Img)] /\ Part[Home(Target)] = Own(s)
    BY <1>1, <2>1, PartAt
  <2>4. op.leaf \notin Own(s) /\ op.leaf \notin Reserved
    BY <2>2, <2>3 DEF Splits
  <2>5. op.leaf \notin SharedFrames
    BY <2>4, SharedFacts
  <2>6. Leaf(v) \notin SharedLeaves /\ Fits(s, Leaf(v))
    BY <1>1, <1>2, <1>5, LeafFacts DEF Fits
  <2>7. op.leaf \in Nat \ {0}
    BY <1>5
  <2>8. GoodSpace(Linked(s, Leaf(v), op.leaf)) /\ Own(Linked(s, Leaf(v), op.leaf)) = Own(s) \cup {op.leaf}
    BY <1>1, <1>5, <2>4, <2>5, <2>6, <2>7, LinkNew
  <2> QED
    BY <1>3, <1>4, <1>5, <2>1, <2>8
<1>6. CASE op.leaf = 0 /\ v \in DOMAIN Shared /\ Frame(v) \in SharedFrames
  <2>1. GoodSpace(new) /\ Own(new) = Own(s)
    BY <1>1, <1>6, LinkShared
  <2> QED
    BY <1>3, <1>4, <1>6, <2>1 DEF TempLeaf, NoFrame
<1>7. CASE op.leaf = 0 /\ Leaf(v) \in DOMAIN s /\ Frame(v) = s[Leaf(v)]
  <2>1. GoodSpace(new) /\ Own(new) = Own(s)
    BY <1>1, <1>7, LinkSame
  <2> QED
    BY <1>3, <1>4, <1>7, <2>1 DEF TempLeaf, NoFrame
<1> QED
    BY <1>5, <1>6, <1>7, FramedPage

LEMMA MapPageStep ==
    ASSUME AInv, MapPage
    PROVE  AInv'
<1> DEFINE T == Target
           v == Head(op.todo)
           rest == Tail(op.todo)
           new == Linked(space[T], Leaf(v), Frame(v))
<1>1. /\ Mapping /\ ~NeedsLeaf
      /\ space' = [space EXCEPT ![T] = Linked(@, Leaf(v), Frame(v))]
      /\ op' = [op EXCEPT !.todo = Tail(@), !.leaf = NoFrame]
      /\ life' = life /\ kstack' = kstack /\ brk' = brk /\ current' = current /\ loaded' = loaded
      /\ memmap' = memmap /\ bits' = bits
    BY DEF MapPage, pmm, tasks, cpu
<1>2. Types /\ Img \in Ids /\ Task \subseteq Ids /\ Img \notin Task
    BY AddressSpaceAssumption DEF AInv, Ids
<1>3. /\ op.kind \in Growing /\ op.todo \in Seq(Nat) /\ op.todo # <<>> /\ v \in Nat
      /\ T \in Ids /\ GoodSpace(space[T]) /\ Root \in DOMAIN space[T]
      /\ Building => T = Img
      /\ ~Building => /\ T = op.by /\ op.by \in Task /\ life[op.by] = "alive"
                      /\ space[Img] = NoSpace /\ op.kind \in {"sbrk", "fault"}
    BY <1>1, TargetFacts
<1>4. /\ rest \in Seq(Nat) /\ Len(op.todo) \in Nat \ {0} /\ Len(rest) = Len(op.todo) - 1
      /\ \A i \in 1..(Len(op.todo) - 1) : rest[i] = op.todo[i + 1]
      /\ ToSet(op.todo) = {v} \cup ToSet(rest) /\ v = op.todo[1]
    BY <1>3, SetOfTail
<1>5. /\ op' \in Calls /\ op'.kind = op.kind /\ op'.by = op.by /\ op'.for = op.for
      /\ op'.todo = rest /\ op'.leaf = 0 /\ op'.brk = op.brk
    BY <1>1, <1>2, <1>4 DEF Types, Calls, NoFrame
<1>6. /\ GoodSpace(new) /\ Own(new) = Own(space[T]) \cup TempLeaf
      /\ Pages(new) = Pages(space[T]) \cup {v}
      /\ Root \in DOMAIN new /\ new[Root] = space[T][Root]
    BY <1>1, MappedFrames
<1>7. /\ DOMAIN space' = Ids /\ space'[T] = new
      /\ \A t \in Ids : t # T => space'[t] = space[t]
    BY <1>1, <1>2, <1>3 DEF Types
<1>8. DOMAIN rest = 1..(Len(op.todo) - 1) /\ DOMAIN op.todo = 1..Len(op.todo)
    BY <1>3, <1>4, LenProperties
<1> HIDE DEF T, v, rest, new
<1>9. Types' /\ Caller' /\ Lives'
  <2>1. \A t \in Task :
            \/ space'[t] = space[t]
            \/ life[t] = "alive" /\ Root \in DOMAIN space'[t] /\ space'[t][Root] = space[t][Root]
    BY <1>2, <1>3, <1>6, <1>7
  <2> QED
    BY <1>1, <1>3, <1>5, <1>7, <2>1, SameCall
<1>10. Spaces'
    BY <1>6, <1>7 DEF AInv, Spaces
<1>11. Splits(Part, bits)'
  <2>1. /\ Splits(Part, bits) /\ Home(T) \in Places /\ Stacks(Img) \in Places
        /\ Home(T) # Stacks(Img)
    BY <1>2, <1>3, PlaceFacts DEF AInv
  <2>2. Part[Stacks(Img)] = TempLeaf /\ Part'[Stacks(Img)] = {}
    BY <1>5, PartAt, PartAtNext DEF TempLeaf, NoFrame
  <2>3. Part'[Home(T)] = Part[Home(T)] \cup TempLeaf
    BY <1>3, <1>6, <1>7, PartAt, PartAtNext
  <2>4. Part'[Stacks(Img)] = Part[Stacks(Img)] \ TempLeaf /\ TempLeaf \subseteq Part[Stacks(Img)]
    BY <2>2
  <2>5. ASSUME NEW y \in Places, y # Stacks(Img), y # Home(T)
        PROVE  Part'[y] = Part[y]
    <3>1. PICK u \in Ids : y = Home(u) \/ y = Stacks(u)
      BY PlaceFacts
    <3>2. CASE y = Home(u)
      BY <1>7, <2>5, <3>2, PartAt, PartAtNext
    <3>3. CASE y = Stacks(u) /\ u \in Task
      BY <1>1, <3>3, PartAt, PartAtNext
    <3> QED
      BY <2>5, <3>1, <3>2, <3>3 DEF Ids
  <2>6. Splits(Part', bits)
    BY <2>1, <2>3, <2>4, <2>5, ShiftSplits
  <2> QED
    BY <1>1, <2>6 DEF Splits
<1>12. Construction'
  <2>1. op'.kind \notin {"load", "free", "idle"} /\ Building' = Building
    BY <1>3, <1>5 DEF Growing, Building
  <2>2. CASE Building
    <3>1. T = Img /\ space'[Img] = new /\ space[Img] # NoSpace /\ new # NoSpace
      BY <1>2, <1>3, <1>6, <1>7, <2>2, NoSpaceFacts
    <3>2. Wanted' = Wanted
      <4>1. op.kind = "fork" => op.by \in Task
        BY DEF AInv, Caller
      <4> QED
        BY <1>2, <1>5, <1>7, <3>1, <4>1 DEF Wanted
    <3>3. Pages(space[Img]) \cup ToSet(op.todo) = Wanted
      BY <2>2, <3>1 DEF AInv, Construction, NeedsRoot
    <3>4. Pages(space'[Img]) \cup ToSet(op'.todo) = Wanted'
      BY <1>4, <1>5, <1>6, <3>1, <3>2, <3>3
    <3>5. ASSUME op.kind = "fork"
          PROVE  /\ \A i, j \in DOMAIN rest : rest[i] = rest[j] => i = j
                 /\ ToSet(rest) \cap Pages(new) = {}
      <4>1. /\ \A i, j \in DOMAIN op.todo : op.todo[i] = op.todo[j] => i = j
            /\ ToSet(op.todo) \cap Pages(space[Img]) = {}
        BY <3>5 DEF AInv, Construction
      <4>2. \A i \in DOMAIN rest : rest[i] = op.todo[i + 1] /\ i + 1 \in DOMAIN op.todo /\ i \in Int
        BY <1>4, <1>8
      <4>3. ASSUME NEW i \in DOMAIN rest, NEW j \in DOMAIN rest, rest[i] = rest[j]
            PROVE  i = j
        <5>1. i + 1 = j + 1
          BY <4>1, <4>2, <4>3
        <5> QED
          BY <4>2, <5>1
      <4>4. \A i \in DOMAIN rest : rest[i] # v
        <5> SUFFICES ASSUME NEW i \in DOMAIN rest, rest[i] = v
                     PROVE  FALSE
            OBVIOUS
        <5>1. 1 \in DOMAIN op.todo
          BY <1>4, <1>8
        <5>2. i + 1 = 1
          BY <1>4, <4>1, <4>2, <5>1
        <5> QED
          BY <1>8, <5>2
      <4>5. v \notin ToSet(rest)
        BY <4>4 DEF ToSet
      <4> QED
        BY <1>4, <1>6, <3>1, <4>1, <4>3, <4>5
    <3>6. op'.kind \notin {"sbrk", "fault"} /\ ~NeedsRoot'
      BY <1>5, <2>2, <3>1 DEF Building, NeedsRoot
    <3> QED
      BY <1>5, <2>1, <3>1, <3>4, <3>5, <3>6 DEF Construction
  <2>3. CASE ~Building
    <3>1. space'[Img] = NoSpace /\ op'.kind # "fork"
      BY <1>2, <1>3, <1>5, <1>7, <2>3
    <3> QED
      BY <2>1, <2>3, <3>1 DEF Construction, NeedsRoot
  <2> QED
    BY <2>2, <2>3
<1>13. Unmapped'
    BY <1>5 DEF Unmapped, NoFrame
<1>14. CASE op.kind = "sbrk"
  <2>1. /\ op.by \in Task /\ op.brk \in Nat /\ op.brk <= HeapTop /\ brk[op.by] < op.brk
        /\ RoundUp(brk[op.by]) <= Frontier /\ Frontier \in Nat /\ Frontier \in HeapPages
        /\ RoundUp(brk[op.by]) \in Nat /\ HeapBase \in Nat /\ HeapBase <= Frontier
        /\ Frontier = RoundUp(op.brk) - Len(op.todo) /\ RoundUp(op.brk) \in Nat
        /\ \A i \in 1..Len(op.todo) : op.todo[i] = Frontier + i - 1
        /\ v = Frontier /\ Heaped(space[op.by], brk[op.by], Frontier)
    <3>1. brk[op.by] \in Nat
      BY <1>14, GrowthFacts
    <3>2. RoundUp(brk[op.by]) \in Nat /\ HeapBase \in Nat
      BY <3>1, RoundUpBound, AddressSpaceAssumption
    <3> QED
      BY <1>3, <1>14, <3>1, <3>2, GrowthFacts DEF v
  <2>2. Frontier' = Frontier + 1
    BY <1>4, <1>5, <2>1 DEF Frontier
  <2>3. Growth'
    <3>1. ASSUME NEW i \in 1..Len(rest)
          PROVE  rest[i] = (Frontier + 1) + i - 1
      <4>1. i \in 1..(Len(op.todo) - 1) /\ i + 1 \in 1..Len(op.todo)
        BY <1>4
      <4>2. op.todo[i + 1] = Frontier + (i + 1) - 1
        BY <2>1, <4>1
      <4>3. rest[i] = op.todo[i + 1]
        BY <1>4, <4>1
      <4>4. Frontier \in Nat /\ i \in Int
        BY <2>1
      <4>5. (Frontier + 1) + i - 1 = Frontier + (i + 1) - 1
        BY <4>4
      <4> QED
        BY <4>2, <4>3, <4>5
    <3>2. RoundUp(brk[op.by]) <= Frontier + 1
      BY <2>1
    <3>3. \A i \in 1..Len(op'.todo) : op'.todo[i] = Frontier' + i - 1
      BY <1>5, <2>2, <3>1
    <3> QED
      BY <1>1, <1>5, <2>1, <2>2, <3>2, <3>3 DEF Growth
  <2>4. Heaps'
    <3> SUFFICES ASSUME NEW t \in Task, life[t] = "alive"
                 PROVE  Heaped(space'[t], brk[t], HeapEnd(t)')
        BY <1>1 DEF Heaps
    <3>1. T = op.by
      BY <1>3, <1>14 DEF Building
    <3>2. CASE t = op.by
      <4>1. HeapEnd(t)' = Frontier + 1
        BY <1>5, <1>14, <2>2, <3>2 DEF HeapEnd
      <4>2. HeapBase..((Frontier + 1) - 1) = (HeapBase..(Frontier - 1)) \cup {Frontier}
        BY <2>1
      <4>3. Pages(new) \cap HeapPages = (Pages(space[op.by]) \cap HeapPages) \cup {Frontier}
        BY <1>6, <2>1, <3>1
      <4> QED
        BY <1>7, <2>1, <3>1, <3>2, <4>1, <4>2, <4>3 DEF Heaped
    <3>3. CASE t # op.by
      BY <1>1, <1>2, <1>5, <1>7, <3>1, <3>3 DEF AInv, Heaps, HeapEnd
    <3> QED
      BY <3>2, <3>3
  <2>5. Faulting'
    BY <1>5, <1>14 DEF Faulting
  <2> QED
    BY <1>9, <1>10, <1>11, <1>12, <1>13, <2>3, <2>4, <2>5 DEF AInv
<1>15. CASE op.kind # "sbrk"
  <2>1. Growth'
    BY <1>5, <1>15 DEF Growth
  <2>2. op.kind = "fault" => v \in Stack /\ rest = <<>>
    <3> SUFFICES ASSUME op.kind = "fault"
                 PROVE  v \in Stack /\ rest = <<>>
        OBVIOUS
    <3>1. PICK w \in Stack : op.todo = <<w>>
      BY <1>3 DEF AInv, Faulting
    <3> QED
      BY <3>1 DEF v, rest
  <2>3. Faulting'
    BY <1>5, <2>2 DEF Faulting
  <2>4. Heaps'
    <3> SUFFICES ASSUME NEW t \in Task, life[t] = "alive"
                 PROVE  Heaped(space'[t], brk[t], HeapEnd(t)')
        BY <1>1 DEF Heaps
    <3>1. HeapEnd(t) = RoundUp(brk[t]) /\ HeapEnd(t)' = RoundUp(brk[t])
      BY <1>1, <1>5, <1>15 DEF HeapEnd
    <3>2. Heaped(space[t], brk[t], RoundUp(brk[t]))
      BY <3>1 DEF AInv, Heaps
    <3>3. CASE t = T
      <4>1. op.kind = "fault"
        BY <1>2, <1>3, <1>15, <3>3
      <4>2. v \notin HeapPages
        BY <2>2, <4>1, AddressSpaceAssumption
      <4>3. Pages(new) \cap HeapPages = Pages(space[t]) \cap HeapPages
        BY <1>6, <3>3, <4>2
      <4> QED
        BY <1>7, <3>1, <3>2, <3>3, <4>3 DEF Heaped
    <3>4. CASE t # T
      BY <1>2, <1>7, <3>1, <3>2, <3>4
    <3> QED
      BY <3>3, <3>4
  <2> QED
    BY <1>9, <1>10, <1>11, <1>12, <1>13, <2>1, <2>3, <2>4 DEF AInv
<1> QED
    BY <1>14, <1>15

-----------------------------------------------------------------------------
(***************************************************************************)
(* The invariant.                                                          *)
(***************************************************************************)
LEMMA UndoStep ==
    ASSUME AInv, Undo, op.kind = "sbrk" => op.todo # <<>>
    PROVE  AInv'
<1>1. op' = Idle /\ UNCHANGED cpu
    BY DEF Undo
<1>2. CASE UndoFork
    BY <1>1, <1>2, UndoForkStep
<1>3. CASE UndoImage
    BY <1>1, <1>3, UndoImageStep
<1>4. CASE UndoGrow
  <2>1. op.todo # <<>>
    BY <1>4 DEF UndoGrow
  <2> QED
    BY <1>1, <1>4, <2>1, UndoGrowStep
<1>5. CASE UndoFault
    BY <1>1, <1>5, UndoFaultStep
<1> QED
    BY <1>2, <1>3, <1>4, <1>5 DEF Undo

LEMMA FailStep ==
    ASSUME AInv, OutOfFrames \/ BadArguments \/ SpawnFails
    PROVE  AInv'
<1>1. Undo
    BY DEF OutOfFrames, BadArguments, SpawnFails
<1>2. op.kind = "sbrk" => op.todo # <<>>
    BY DEF OutOfFrames, BadArguments, SpawnFails, Done, NeedsRoot, NeedsLeaf, NeedsTable,
           Mapping, Building
<1> QED
    BY <1>1, <1>2, UndoStep

LEMMA StutterStep ==
    ASSUME AInv, UNCHANGED vars
    PROVE  AInv'
<1>1. /\ memmap' = memmap /\ bits' = bits /\ life' = life /\ kstack' = kstack /\ brk' = brk
      /\ space' = space /\ current' = current /\ loaded' = loaded /\ op' = op
    BY DEF vars, pmm, tasks, cpu
<1>2. Types' /\ Spaces'
    BY <1>1 DEF AInv, Types, Spaces, F!total
<1>3. Splits(Part, bits)'
    BY <1>1 DEF AInv, Splits, Part, TempLeaf
<1>4. Caller' /\ Construction'
    BY <1>1 DEF AInv, Caller, Construction, NeedsRoot, Building, Wanted
<1>5. Unmapped' /\ Growth' /\ Faulting'
    BY <1>1 DEF AInv, Unmapped, Target, Building, Growth, Frontier, Faulting
<1>6. Heaps' /\ Lives'
    BY <1>1 DEF AInv, Heaps, HeapEnd, Frontier, Lives, Pml4
<1> QED
    BY <1>2, <1>3, <1>4, <1>5, <1>6 DEF AInv

\* A machine with n frames.
LEMMA FlatTotal ==
    ASSUME NEW n \in Nat, memmap = Flat(n)
    PROVE  F!total = n
<1> DEFINE top == n * PageSize
           S == {m.base + m.length : m \in {memmap[i] : i \in DOMAIN memmap}} \cup {0}
<1>1. PageSize \in Nat \ {0} /\ top \in Nat
    BY AddressSpaceAssumption
<1>2. S = {top, 0}
  <2>1. DOMAIN memmap = {1} /\ memmap[1].base = 0 /\ memmap[1].length = n * PageSize
    BY DEF Flat
  <2>2. {m.base + m.length : m \in {memmap[i] : i \in DOMAIN memmap}} = {0 + n * PageSize}
    BY <2>1
  <2>3. 0 + n * PageSize = n * PageSize
    BY <1>1
  <2> QED
    BY <2>2, <2>3
<1>3. F!total = F!Max(S) \div PageSize
    BY DEF F!total
<1> HIDE DEF S, top
<1>4. F!Max(S) = top
  <2>1. top \in S /\ \A y \in S : top >= y
    BY <1>1, <1>2
  <2>2. F!Max(S) \in S /\ \A y \in S : F!Max(S) >= y
    BY <2>1 DEF F!Max
  <2>3. F!Max(S) \in Nat
    BY <1>1, <1>2, <2>2
  <2> QED
    BY <1>1, <2>1, <2>2, <2>3
<1>5. top \div PageSize = n
    BY <1>1, Z3 DEF top
<1> QED
    BY <1>3, <1>4, <1>5

\* The machine starts with every frame but the kernel's free.
LEMMA InitAInv == Init => AInv
<1> SUFFICES ASSUME Init
             PROVE  AInv
    OBVIOUS
<1>1. /\ op.kind = "spawn" /\ op.by = Kernel /\ op.for = Kernel /\ op.todo = <<>> /\ op.leaf = 0
      /\ op \in Calls
  <2>1. op = [kind |-> "spawn", by |-> Kernel, for |-> Kernel, todo |-> <<>>, leaf |-> 0, brk |-> 0]
    BY DEF Init, Idle, NoFrame
  <2>2. <<>> \in Seq(Nat) /\ "spawn" \in Kinds /\ Kernel \in Runners
    BY DEF Kinds, Runners
  <2> QED
    BY <2>1, <2>2 DEF Calls
<1>2. /\ bits = Reserved /\ life = [t \in Task |-> "none"] /\ space = [t \in Ids |-> NoSpace]
      /\ kstack = [t \in Task |-> {}] /\ brk = [t \in Task |-> 0]
      /\ current = Kernel /\ loaded = KernelRoot
    BY DEF Init
<1>3. Img \in Ids /\ Task \subseteq Ids /\ Kernel \notin Task
    BY AddressSpaceAssumption DEF Ids
<1>4. F!total \in Nat
  <2>1. PICK n \in Sizes : memmap = Flat(n)
    BY DEF Init
  <2>2. n \in Nat
    BY <2>1, AddressSpaceAssumption
  <2> QED
    BY <2>1, <2>2, FlatTotal
<1>5. Types
    BY <1>1, <1>2, <1>4 DEF Types, Runners
<1>6. Spaces
    BY <1>2, NoSpaceFacts DEF Spaces
<1>7. Splits(Part, bits)
  <2>1. ASSUME NEW y \in Places
        PROVE  Part[y] = {}
    <3>1. PICK u \in Ids : y = Home(u) \/ y = Stacks(u)
      BY PlaceFacts
    <3>2. CASE y = Home(u)
      BY <1>2, <3>2, PartAt, NoSpaceFacts
    <3>3. CASE y = Stacks(u) /\ u = Img
      BY <1>1, <3>3, PartAt DEF TempLeaf, NoFrame
    <3>4. CASE y = Stacks(u) /\ u \in Task
      BY <1>2, <3>4, PartAt
    <3> QED
      BY <3>1, <3>2, <3>3, <3>4 DEF Ids
  <2> QED
    BY <1>2, <2>1 DEF Splits
<1>8. Caller
    BY <1>1, <1>2, <1>3 DEF Caller
<1>9. Construction
    BY <1>1, <1>2, <1>3 DEF Construction, NeedsRoot, Building
<1>10. Unmapped /\ Growth /\ Faulting
    BY <1>1 DEF Unmapped, Growth, Faulting, NoFrame
<1>11. Heaps
    BY <1>2 DEF Heaps
<1>12. Lives
    BY <1>1, <1>2, <1>3 DEF Lives, Pml4
<1> QED
    BY <1>5, <1>6, <1>7, <1>8, <1>9, <1>10, <1>11, <1>12 DEF AInv

LEMMA StepAInv == AInv /\ [Next]_vars => AInv'
<1> SUFFICES ASSUME AInv, [Next]_vars
             PROVE  AInv'
    OBVIOUS
<1>1. ASSUME NEW f \in F!Free, NewRoot(f) \/ NewLeaf(f) \/ NewTable(f)
      PROVE  AInv'
    BY <1>1, NewRootStep, NewLeafStep, NewTableStep
<1>2. CASE MapPage
    BY <1>2, MapPageStep
<1>3. CASE OutOfFrames \/ BadArguments \/ SpawnFails
    BY <1>3, FailStep
<1>4. ASSUME NEW p \in Task, NEW c \in Task, BeginFork(p, c)
      PROVE  AInv'
    BY <1>4, BeginForkStep
<1>5. ASSUME NEW p \in Task, NEW v \in Stack, BeginFault(p, v)
      PROVE  AInv'
    BY <1>5, BeginFaultStep
<1>6. ASSUME NEW p \in Task, NEW i \in Increments, BeginGrow(p, i) \/ Shrink(p, i)
      PROVE  AInv'
    BY <1>6, BeginGrowStep, ShrinkStep
<1>7. ASSUME NEW t \in Task, BeginSpawn(t) \/ BeginExec(t)
      PROVE  AInv'
    BY <1>7, BeginImageStep
<1>8. ASSUME NEW t \in Task, FinishSpawn(t) \/ Die(t) \/ Reap(t)
      PROVE  AInv'
    BY <1>8, FinishSpawnStep, DieStep, ReapStep
<1>9. CASE FinishFork \/ FinishGrow \/ FinishFault
    BY <1>9, FinishForkStep, FinishGrowStep, FinishFaultStep
<1>10. CASE ExecSwap \/ ExecLoad \/ ExecFree
    BY <1>10, ExecSwapStep, ExecLoadStep, ExecFreeStep
<1>11. ASSUME NEW q \in Task \cup {Kernel}, Sched(q)
       PROVE  AInv'
    BY <1>11, SchedStep
<1>12. CASE UNCHANGED vars
    BY <1>12, StutterStep
<1> QED
    BY <1>1, <1>2, <1>3, <1>4, <1>5, <1>6, <1>7, <1>8, <1>9, <1>10, <1>11, <1>12 DEF Next

\* The invariant above holds in every state: spaces are trees that share only
\* the shared frames, and the set bits of the physical memory manager are
\* shared out among the kernel, the spaces, the stacks and the call in progress.
THEOREM AddressSpaceInvariant == Spec => []AInv
<1>1. Init => AInv
    BY InitAInv
<1>2. AInv /\ [Next]_vars => AInv'
    BY StepAInv
<1> QED
    BY <1>1, <1>2, PTL DEF Spec

\* cr3 always holds the root of a space whose frame is in use.
LEMMA LivesHolds == AInv => LoadedLives
<1> SUFFICES ASSUME AInv
             PROVE  LoadedLives
    OBVIOUS
<1>1. loaded = IF op.kind = "load" THEN space[Img][Root] ELSE Pml4(current)
    BY DEF AInv, Lives
<1>2. Splits(Part, bits)
    BY DEF AInv
<1>3. ASSUME NEW t \in Ids, Root \in DOMAIN space[t]
      PROVE  space[t][Root] \in bits
  <2>1. GoodSpace(space[t]) /\ space[t] # NoSpace
    BY <1>3, NoSpaceFacts DEF AInv, Spaces
  <2>2. space[t][Root] \in Own(space[t])
    BY <2>1, OwnFacts
  <2>3. space[t][Root] \in Part[Home(t)] /\ Home(t) \in Places
    BY <2>2, PartAt, PlaceFacts
  <2> QED
    BY <1>2, <2>3 DEF Splits
<1>4. CASE op.kind = "load"
  <2>1. Root \in DOMAIN space[Img] /\ Img \in Ids
    BY <1>4 DEF AInv, Construction, Ids
  <2> QED
    BY <1>1, <1>3, <1>4, <2>1 DEF LoadedLives
<1>5. CASE op.kind # "load" /\ current = Kernel
  <2>1. KernelRoot \in bits
    BY <1>2, AddressSpaceAssumption DEF Splits
  <2> QED
    BY <1>1, <1>5, <2>1 DEF LoadedLives, Pml4
<1>6. CASE op.kind # "load" /\ current \in Task
  <2>1. Root \in DOMAIN space[current] /\ current \in Ids /\ current # Kernel
    BY <1>6, AddressSpaceAssumption DEF AInv, Lives, Ids
  <2> QED
    BY <1>1, <1>3, <1>6, <2>1 DEF LoadedLives, Pml4
<1> QED
    BY <1>4, <1>5, <1>6 DEF AInv, Types, Runners

\* In every state cr3 holds the root of the running task's space, or in the
\* middle of execve that of the space it leaves, and its frame is not free.
THEOREM LoadedAlive == Spec => []LoadedLives
BY LivesHolds, AddressSpaceInvariant, PTL

\* The pages of a living task's heap are those that begin below its break.
LEMMA HeapHolds == AInv => HeapMapped
<1> SUFFICES ASSUME AInv, NEW t \in Task, life[t] = "alive", op.by # t
             PROVE  {v \in Pages(space[t]) : v >= HeapBase /\ v * PageSize < HeapBase * PageSize + HeapMax}
                        = {v \in HeapBase..brk[t] : v * PageSize < brk[t]}
    BY DEF HeapMapped
<1> DEFINE b == brk[t]
           P == Pages(space[t])
<1>1. Heaped(space[t], b, RoundUp(b)) /\ b \in Nat
    BY DEF AInv, Heaps, HeapEnd, Types
<1>2. P \in SUBSET Nat
    BY PageIsLeaf DEF AInv, Spaces, Ids
<1>3. HeapBase \in Nat /\ RoundUp(b) \in Nat /\ PageSize \in Nat \ {0}
    BY <1>1, RoundUpBound, AddressSpaceAssumption
<1>4. \A v \in Nat : v * PageSize < b <=> v < RoundUp(b)
    BY <1>1, RoundUpBound
<1>5. P \cap HeapPages = HeapBase..(RoundUp(b) - 1)
    BY <1>1 DEF Heaped
<1>6. \A v \in P : v \in HeapPages <=> v >= HeapBase /\ v * PageSize < HeapBase * PageSize + HeapMax
  <2> SUFFICES ASSUME NEW v \in P
               PROVE  v \in HeapPages <=> v >= HeapBase /\ v * PageSize < HeapBase * PageSize + HeapMax
      OBVIOUS
  <2>1. v \in Nat
    BY <1>2
  <2>2. v \in HeapPages <=> HeapBase <= v /\ v * PageSize < HeapTop
    BY <2>1, HeapBounds
  <2>3. HeapTop = HeapBase * PageSize + HeapMax
    BY DEF HeapTop
  <2>4. HeapBase <= v <=> v >= HeapBase
    BY <1>3, <2>1
  <2> QED
    BY <2>2, <2>3, <2>4
<1>7. ASSUME NEW v \in Nat, v * PageSize < b
      PROVE  v <= b
  <2>1. v <= v * PageSize
    <3>1. v * (PageSize - 1) >= 0
      <4>1. PageSize - 1 \in Nat
        BY <1>3
      <4> QED
        BY <4>1
    <3> QED
      BY <3>1, <1>3
  <2>2. v * PageSize \in Nat
    BY <1>3
  <2> QED
    BY <1>1, <1>7, <2>1, <2>2
<1> HIDE DEF P, b
<1>8. {v \in HeapBase..b : v * PageSize < b} = HeapBase..(RoundUp(b) - 1)
  <2>1. ASSUME NEW v \in HeapBase..b, v * PageSize < b
        PROVE  v \in HeapBase..(RoundUp(b) - 1)
    <3>1. v \in Nat /\ v < RoundUp(b)
      BY <1>1, <1>3, <1>4, <2>1
    <3> QED
      BY <1>3, <3>1
  <2>2. ASSUME NEW v \in HeapBase..(RoundUp(b) - 1)
        PROVE  v \in HeapBase..b /\ v * PageSize < b
    <3>1. v \in Nat /\ v < RoundUp(b)
      BY <1>3
    <3>2. v * PageSize < b
      BY <1>4, <3>1
    <3> QED
      BY <1>1, <1>3, <1>7, <3>1, <3>2
  <2> QED
    BY <2>1, <2>2
<1>9. {v \in P : v >= HeapBase /\ v * PageSize < HeapBase * PageSize + HeapMax} = P \cap HeapPages
    BY <1>6
<1> QED
    BY <1>5, <1>8, <1>9 DEF P, b

\* Between its calls a living task has a page for every heap address below its
\* break, and none above.
THEOREM HeapExact == Spec => []HeapMapped
BY HeapHolds, AddressSpaceInvariant, PTL

\* The holders of a frame, one kind after the other.
LEMMA HolderKinds ==
    ASSUME NEW f, NEW h
    PROVE  h \in Holders(f) <=>
            \/ \E t \in Ids : \E n \in DOMAIN space[t] : space[t][n] = f /\ h = <<t, n>>
            \/ \E t \in Task : f \in kstack[t] /\ h = <<t, "stack">>
            \/ op.leaf = f /\ h = <<"leaf">>
<1> DEFINE nodes == UNION {{t} \X DOMAIN space[t] : t \in Ids}
           inTree == {g \in nodes : space[g[1]][g[2]] = f}
           inStack == {<<t, "stack">> : t \in {u \in Task : f \in kstack[u]}}
           inCall == {<<"leaf">> : x \in {op.leaf} \cap {f}}
<1>1. h \in nodes <=> \E t \in Ids : \E n \in DOMAIN space[t] : h = <<t, n>>
    OBVIOUS
<1>2. h \in inTree <=> h \in nodes /\ space[h[1]][h[2]] = f
    OBVIOUS
<1>3. h \in inStack <=> \E t \in Task : f \in kstack[t] /\ h = <<t, "stack">>
    OBVIOUS
<1>4. h \in inCall <=> op.leaf = f /\ h = <<"leaf">>
    OBVIOUS
<1>5. Holders(f) = (inTree \cup inStack) \cup inCall
    BY DEF Holders
<1> HIDE DEF nodes, inTree, inStack, inCall
<1>6. h \in inTree <=> \E t \in Ids : \E n \in DOMAIN space[t] : space[t][n] = f /\ h = <<t, n>>
    BY <1>1, <1>2
<1> QED
    BY <1>3, <1>4, <1>5, <1>6

LEMMA OwnedHolds == AInv => OwnedExactly
<1> SUFFICES ASSUME AInv
             PROVE  OwnedExactly
    OBVIOUS
<1>1. Splits(Part, bits) /\ Types
    BY DEF AInv
<1>2. ASSUME NEW f \in 0..(F!total - 1) \ Reserved
      PROVE  Cardinality(Holders(f)) = IF f \in bits THEN 1 ELSE 0
  <2>1. f # 0 /\ f \notin SharedFrames
    BY SharedFacts, AddressSpaceAssumption
  <2> DEFINE InTree(t, n) == t \in Ids /\ n \in DOMAIN space[t] /\ space[t][n] = f
             InStack(t) == t \in Task /\ f \in kstack[t]
  <2>2. \A t, n : InTree(t, n) => Home(t) \in Places /\ f \in Part[Home(t)]
    BY <2>1, PartAt, PlaceFacts DEF Own
  <2>3. \A t : InStack(t) => Stacks(t) \in Places /\ f \in Part[Stacks(t)]
    BY PartAt, PlaceFacts DEF Ids
  <2>4. op.leaf = f <=> f \in Part[Stacks(Img)]
    BY <2>1, PartAt DEF TempLeaf, NoFrame
  <2>5. Stacks(Img) \in Places
    BY PlaceFacts DEF Ids
  <2>6. \A h : h \in Holders(f) <=>
            \/ \E t, n : InTree(t, n) /\ h = <<t, n>>
            \/ \E t : InStack(t) /\ h = <<t, "stack">>
            \/ op.leaf = f /\ h = <<"leaf">>
    BY HolderKinds
  <2>7. \A t, n, m : InTree(t, n) /\ InTree(t, m) => n = m
    BY <2>1 DEF AInv, Spaces, GoodSpace
  <2>8. ASSUME NEW x \in Places, f \in Part[x]
        PROVE  \/ \E t, n : InTree(t, n) /\ x = Home(t)
               \/ \E t : InStack(t) /\ x = Stacks(t)
               \/ op.leaf = f /\ x = Stacks(Img)
    <3>1. PICK t \in Ids : x = Home(t) \/ x = Stacks(t)
      BY PlaceFacts
    <3>2. CASE x = Home(t)
      <4>1. f \in Own(space[t])
        BY <2>8, <3>2, PartAt
      <4>2. \E n \in DOMAIN space[t] : space[t][n] = f
        BY <4>1 DEF Own
      <4> QED
        BY <3>2, <4>2
    <3>3. CASE x = Stacks(t) /\ t = Img
      BY <2>4, <2>8, <3>3
    <3>4. CASE x = Stacks(t) /\ t \in Task
      BY <2>8, <3>4, PartAt
    <3> QED
      BY <3>1, <3>2, <3>3, <3>4 DEF Ids
  <2>9. \A x, y \in Places : f \in Part[x] /\ f \in Part[y] => x = y
    BY <1>1 DEF Splits
  <2>10. Img \notin Task
    BY AddressSpaceAssumption
  <2>11. \A t : InStack(t) => t # Img
    BY <2>10
  <2> HIDE DEF InTree, InStack
  <2>12. CASE f \in bits
    <3>1. PICK x \in Places : f \in Part[x]
      BY <1>1, <2>12 DEF Splits
    <3>2. \E h : Holders(f) = {h}
      <4>1. CASE \E t, n : InTree(t, n) /\ x = Home(t)
        <5>1. PICK t, n : InTree(t, n) /\ x = Home(t)
          BY <4>1
        <5>2. \A u, m : InTree(u, m) => u = t /\ m = n
          BY <2>2, <2>7, <2>9, <5>1, PlaceFacts
        <5>3. \A u : ~InStack(u)
          BY <2>2, <2>3, <2>9, <5>1, PlaceFacts
        <5>4. op.leaf # f
          BY <2>2, <2>4, <2>5, <2>9, <5>1, PlaceFacts
        <5>5. \A g : g \in Holders(f) <=> g = <<t, n>>
          BY <2>6, <5>1, <5>2, <5>3, <5>4
        <5>6. Holders(f) = {<<t, n>>}
          BY <5>5
        <5> QED
          BY <5>6
      <4>2. CASE \E t : InStack(t) /\ x = Stacks(t)
        <5>1. PICK t : InStack(t) /\ x = Stacks(t)
          BY <4>2
        <5>2. \A u : InStack(u) => u = t
          BY <2>3, <2>9, <5>1, PlaceFacts
        <5>3. \A u, m : ~InTree(u, m)
          BY <2>2, <2>3, <2>9, <5>1, PlaceFacts
        <5>4. op.leaf # f
          BY <2>3, <2>4, <2>5, <2>9, <2>11, <5>1, PlaceFacts
        <5>5. \A g : g \in Holders(f) <=> g = <<t, "stack">>
          BY <2>6, <5>1, <5>2, <5>3, <5>4
        <5>6. Holders(f) = {<<t, "stack">>}
          BY <5>5
        <5> QED
          BY <5>6
      <4>3. CASE op.leaf = f /\ x = Stacks(Img)
        <5>1. \A u, m : ~InTree(u, m)
          BY <2>2, <2>4, <2>5, <2>9, <4>3, PlaceFacts
        <5>2. \A u : ~InStack(u)
          BY <2>3, <2>4, <2>5, <2>9, <2>11, <4>3, PlaceFacts
        <5>3. \A g : g \in Holders(f) <=> g = <<"leaf">>
          BY <2>6, <4>3, <5>1, <5>2
        <5>4. Holders(f) = {<<"leaf">>}
          BY <5>3
        <5> QED
          BY <5>4
      <4> QED
        BY <2>8, <3>1, <4>1, <4>2, <4>3
    <3>3. PICK h : Holders(f) = {h}
      BY <3>2
    <3>4. Cardinality(Holders(f)) = 1
      BY <3>3, FS_Singleton
    <3> QED
      BY <2>12, <3>4
  <2>13. CASE f \notin bits
    <3>1. \A x \in Places : f \notin Part[x]
      BY <1>1, <2>13 DEF Splits
    <3>2. \A g : g \notin Holders(f)
      BY <2>2, <2>3, <2>4, <2>5, <2>6, <3>1
    <3>3. Holders(f) = {}
      BY <3>2
    <3> QED
      BY <2>13, <3>3, FS_EmptySet
  <2> QED
    BY <2>12, <2>13
<1>3. Reserved \subseteq bits
    BY <1>1 DEF Splits
<1> QED
    BY <1>2, <1>3 DEF OwnedExactly

\* Every frame is free, or the kernel's, or held in exactly one place, after
\* every step of every call and wherever it runs out of memory.
THEOREM FramesOwned == Spec => []OwnedExactly
BY OwnedHolds, AddressSpaceInvariant, PTL

-----------------------------------------------------------------------------
(***************************************************************************)
(* What user programs see: AddressSpace implements UserMemory.             *)
(***************************************************************************)
Seen == [t \in Task |-> Visible(t)]

\* The heap pages of a task with the break b.
Below(b) == {v \in HeapPages : v * PageSize < b}

\* A heap that reaches its break, or further.
LEMMA HeapedPages ==
    ASSUME NEW s, NEW b \in Nat, NEW end \in Int, Heaped(s, b, end), RoundUp(b) <= end
    PROVE  /\ {v \in Pages(s) : v \in HeapPages => v * PageSize < b}
                = (Pages(s) \ HeapPages) \cup Below(b)
           /\ end = RoundUp(b) => Pages(s) = (Pages(s) \ HeapPages) \cup Below(b)
<1>1. HeapPages \subseteq Nat /\ HeapBase \in Nat /\ RoundUp(b) \in Nat
    BY HeapBounds, RoundUpBound, AddressSpaceAssumption
<1>2. \A v \in HeapPages : v >= HeapBase /\ (v * PageSize < b <=> v < RoundUp(b))
    BY <1>1, HeapBounds, RoundUpBound
<1>3. \A v \in HeapPages : v \in Pages(s) <=> v < end
  <2>1. Pages(s) \cap HeapPages = HeapBase..(end - 1)
    BY DEF Heaped
  <2>2. \A v \in HeapPages : v \in HeapBase..(end - 1) <=> v < end
    BY <1>1, <1>2
  <2> QED
    BY <2>1, <2>2
<1>4. \A v \in HeapPages : v * PageSize < b => v \in Pages(s)
    BY <1>1, <1>2, <1>3
<1>5. end = RoundUp(b) => \A v \in HeapPages : v * PageSize < b <=> v \in Pages(s)
    BY <1>2, <1>3
<1> HIDE DEF HeapPages
<1>6. {v \in Pages(s) : v \in HeapPages => v * PageSize < b} = (Pages(s) \ HeapPages) \cup Below(b)
    BY <1>4 DEF Below
<1>7. end = RoundUp(b) => Pages(s) = (Pages(s) \ HeapPages) \cup Below(b)
    BY <1>5 DEF Below
<1> QED
    BY <1>6, <1>7

\* A living task sees its break's worth of heap, in the middle of calls too.
SeenPages ==
    \A t \in Task :
        /\ life[t] = "alive" => Visible(t) = (Pages(space[t]) \ HeapPages) \cup Below(brk[t])
        /\ life[t] # "alive" => Visible(t) = Pages(space[t])
        /\ op.kind # "sbrk" => Visible(t) = Pages(space[t])

LEMMA VisibleFacts == AInv => SeenPages
<1> SUFFICES ASSUME AInv, NEW t \in Task
             PROVE  /\ life[t] = "alive" =>
                            Visible(t) = (Pages(space[t]) \ HeapPages) \cup Below(brk[t])
                    /\ life[t] # "alive" => Visible(t) = Pages(space[t])
                    /\ op.kind # "sbrk" => Visible(t) = Pages(space[t])
    BY DEF SeenPages
<1>1. op.kind # "sbrk" => Visible(t) = Pages(space[t])
    BY DEF Visible
<1>2. life[t] # "alive" => Visible(t) = Pages(space[t])
    BY DEF Visible, AInv, Caller
<1>3. ASSUME life[t] = "alive"
      PROVE  Visible(t) = (Pages(space[t]) \ HeapPages) \cup Below(brk[t])
  <2>1. brk[t] \in Nat /\ Heaped(space[t], brk[t], HeapEnd(t))
    BY <1>3 DEF AInv, Types, Heaps
  <2>2. CASE op.kind = "sbrk" /\ op.by = t
    <3>1. Frontier \in Int /\ RoundUp(brk[t]) <= Frontier
      BY <2>2, GrowthFacts
    <3>2. HeapEnd(t) = Frontier
      BY <2>2 DEF HeapEnd
    <3>3. Visible(t) = {v \in Pages(space[t]) : v \in HeapPages => v * PageSize < brk[t]}
      BY <2>2 DEF Visible
    <3> QED
      BY <2>1, <3>1, <3>2, <3>3, HeapedPages
  <2>3. CASE ~(op.kind = "sbrk" /\ op.by = t)
    <3>1. RoundUp(brk[t]) \in Int /\ RoundUp(brk[t]) <= RoundUp(brk[t])
      BY <2>1, RoundUpBound
    <3>2. HeapEnd(t) = RoundUp(brk[t]) /\ Visible(t) = Pages(space[t])
      BY <2>3 DEF HeapEnd, Visible
    <3> QED
      BY <2>1, <3>1, <3>2, HeapedPages
  <2> QED
    BY <2>2, <2>3
<1> QED
    BY <1>1, <1>2, <1>3

LEMMA VisibleNext == AInv' => SeenPages'
BY VisibleFacts, PTL

\* A step that changes no life, no break and no page outside the heaps, and
\* pages in the heap only of a living task, shows nothing.
LEMMA Unseen ==
    ASSUME AInv, AInv', life' = life, brk' = brk,
           \A t \in Task : \/ Pages(space'[t]) = Pages(space[t])
                           \/ /\ life[t] = "alive"
                              /\ Pages(space'[t]) \ HeapPages = Pages(space[t]) \ HeapPages
    PROVE  UNCHANGED U!vars
<1>1. ASSUME NEW t \in Task
      PROVE  Visible(t)' = Visible(t)
    BY VisibleFacts, VisibleNext DEF SeenPages
<1>2. Seen' = Seen
    BY <1>1 DEF Seen
<1> QED
    BY <1>2 DEF U!vars, Seen

\* What the calls in progress do to the spaces.
LEMMA BuildUnseen ==
    ASSUME AInv, AInv', NEW f \in F!Free, NewRoot(f) \/ NewLeaf(f)
    PROVE  UNCHANGED U!vars
<1>1. life' = life /\ brk' = brk
    BY DEF NewRoot, NewLeaf, tasks
<1>2. \A t \in Task : space'[t] = space[t]
    BY AddressSpaceAssumption DEF NewRoot, NewLeaf, AInv, Types, Ids
<1> QED
    BY <1>1, <1>2, Unseen

LEMMA TableUnseen ==
    ASSUME AInv, AInv', NEW f \in F!Free, NewTable(f)
    PROVE  UNCHANGED U!vars
<1>1. life' = life /\ brk' = brk
    BY DEF NewTable, tasks
<1>2. PICK n \in Missing : space' = [space EXCEPT ![Target] = Linked(@, n, f)]
    BY DEF NewTable
<1>3. n[1] # Levels
    BY TableFacts DEF Missing
<1>4. Pages(Linked(space[Target], n, f)) = Pages(space[Target])
    BY <1>3, LinkedPages
<1>5. \A t \in Task : Pages(space'[t]) = Pages(space[t])
    BY <1>2, <1>4 DEF AInv, Types, Ids
<1> QED
    BY <1>1, <1>5, Unseen

\* A page of a growth is not seen before sbrk returns; the page of a fault is
\* seen at once.
LEMMA MapPageSeen ==
    ASSUME AInv, AInv', MapPage
    PROVE  UNCHANGED U!vars \/ U!Next
<1> DEFINE T == Target
           v == Head(op.todo)
           new == Linked(space[T], Leaf(v), Frame(v))
<1>1. /\ Mapping /\ ~NeedsLeaf /\ life' = life /\ brk' = brk
      /\ space' = [space EXCEPT ![T] = Linked(@, Leaf(v), Frame(v))]
      /\ op' = [op EXCEPT !.todo = Tail(@), !.leaf = NoFrame]
    BY DEF MapPage, tasks
<1>2. Types /\ Img \in Ids /\ Task \subseteq Ids /\ Img \notin Task
    BY AddressSpaceAssumption DEF AInv, Ids
<1>3. /\ op.kind \in Growing /\ op.todo # <<>> /\ T \in Ids
      /\ Building => T = Img
      /\ ~Building => /\ T = op.by /\ op.by \in Task /\ life[op.by] = "alive"
                      /\ op.kind \in {"sbrk", "fault"}
    BY <1>1, TargetFacts
<1>4. Pages(new) = Pages(space[T]) \cup {v}
    BY <1>1, MappedFrames
<1>5. op'.kind = op.kind
    BY <1>1, <1>2 DEF Types, Calls
<1> HIDE DEF T, new
<1>6. space'[T] = new /\ \A t \in Ids : t # T => space'[t] = space[t]
    BY <1>1, <1>2, <1>3 DEF Types, new
<1>7. CASE Building
    BY <1>1, <1>2, <1>3, <1>6, <1>7, Unseen
<1>8. CASE op.kind = "sbrk"
  <2>1. T = op.by /\ v \in HeapPages /\ life[T] = "alive"
    BY <1>3, <1>8, GrowthFacts DEF Building
  <2>2. Pages(space'[T]) \ HeapPages = Pages(space[T]) \ HeapPages
    BY <1>4, <1>6, <2>1
  <2> HIDE DEF v
  <2> QED
    BY <1>1, <1>2, <1>6, <2>1, <2>2, Unseen
<1>9. CASE op.kind = "fault"
  <2>1. T = op.by /\ T \in Task /\ life[T] = "alive"
    BY <1>3, <1>9 DEF Building
  <2>2. v \in Stack
    BY <1>3, <1>9 DEF AInv, Faulting
  <2> HIDE DEF v
  <2>3. \A t \in Task : Visible(t) = Pages(space[t]) /\ Visible(t)' = Pages(space'[t])
    BY <1>5, <1>9, VisibleFacts, VisibleNext DEF SeenPages
  <2>4. Seen' = [Seen EXCEPT ![T] = Seen[T] \cup {v}]
    BY <1>2, <1>4, <1>6, <2>1, <2>3 DEF Seen
  <2>5. brk' = [brk EXCEPT ![T] = brk[T]]
    BY <1>1, <1>2 DEF Types
  <2>6. U!Touch(T, v)
    BY <1>1, <2>1, <2>4, <2>5 DEF U!Touch, U!Change, Seen
  <2> QED
    BY <2>1, <2>2, <2>6 DEF U!Next
<1> QED
    BY <1>3, <1>7, <1>8, <1>9

\* A call that fails shows nothing, or ends the task.
LEMMA UndoSeen ==
    ASSUME AInv, AInv', Undo, op.kind = "sbrk" => op.todo # <<>>
    PROVE  UNCHANGED U!vars \/ U!Next
<1>1. Types /\ Img \in Ids /\ Task \subseteq Ids /\ Img \notin Task
    BY AddressSpaceAssumption DEF AInv, Ids
<1>2. CASE UndoFork \/ UndoImage
  <2>1. life' = life /\ brk' = brk /\ space' = [space EXCEPT ![Img] = NoSpace]
    BY <1>2 DEF UndoFork, UndoImage, tasks
  <2>2. \A t \in Task : space'[t] = space[t]
    BY <1>1, <2>1 DEF Types
  <2> QED
    BY <2>1, <2>2, Unseen
<1>3. CASE UndoGrow
  <2> DEFINE p == op.by
             low == RoundUp(brk[op.by])
             S == (RoundUp(brk[op.by])..(Head(op.todo) - 1)) \cap Pages(space[op.by])
  <2>1. /\ life' = life /\ brk' = brk /\ op.kind = "sbrk" /\ op.todo # <<>>
        /\ space' = [space EXCEPT ![p] = Unmap(@, S)]
    BY <1>3 DEF UndoGrow, tasks
  <2>2. /\ p \in Task /\ life[p] = "alive" /\ Heaped(space[p], brk[p], Frontier)
        /\ low \in Nat /\ Frontier \in Nat /\ HeapBase <= low /\ low <= Frontier
        /\ Head(op.todo) = Frontier
    <3>1. brk[p] \in Nat
      BY <2>1, GrowthFacts
    <3> QED
      BY <2>1, <3>1, GrowthFacts, RoundUpBound
  <2>3. S = (low..(Frontier - 1)) \cap Pages(space[p])
    BY <2>2
  <2> HIDE DEF p, low, S
  <2>4. p \in Ids /\ GoodSpace(space[p])
    BY <1>1, <2>2 DEF AInv, Spaces
  <2>5. Pages(Unmap(space[p], S)) \ HeapPages = Pages(space[p]) \ HeapPages
    BY <2>2, <2>3, <2>4, UnmapHeap DEF Heaped
  <2>6. space'[p] = Unmap(space[p], S) /\ \A t \in Ids : t # p => space'[t] = space[t]
    BY <1>1, <2>1, <2>4 DEF Types
  <2> QED
    BY <1>1, <2>1, <2>2, <2>5, <2>6, Unseen
<1>4. CASE UndoFault
  <2>1. /\ op.kind = "fault" /\ life' = [life EXCEPT ![op.by] = "dead"] /\ space' = space
        /\ brk' = brk /\ op' = Idle
    BY <1>4 DEF UndoFault, Undo
  <2>2. op.by \in Task /\ life[op.by] = "alive" /\ op'.kind = "idle"
    BY <2>1, IdleFacts DEF AInv, Caller
  <2>3. \A t \in Task : Visible(t) = Pages(space[t]) /\ Visible(t)' = Pages(space'[t])
    BY <2>1, <2>2, VisibleFacts, VisibleNext DEF SeenPages
  <2>4. Seen' = Seen
    BY <2>1, <2>3 DEF Seen
  <2>5. U!Die(op.by)
    BY <2>1, <2>2, <2>4 DEF U!Die, Seen
  <2> QED
    BY <2>2, <2>5 DEF U!Next
<1> QED
    BY <1>2, <1>3, <1>4 DEF Undo

\* Calls that begin, steps that change no space, and the end of execve.
LEMMA QuietUnseen ==
    ASSUME AInv, AInv',
           \/ \E p, c \in Task : BeginFork(p, c)
           \/ \E p \in Task, v \in Stack : BeginFault(p, v)
           \/ \E p \in Task, i \in Increments : BeginGrow(p, i)
           \/ \E t \in Task : BeginSpawn(t) \/ BeginExec(t)
           \/ \E q \in Task \cup {Kernel} : Sched(q)
           \/ FinishFault \/ ExecLoad \/ ExecFree \/ UNCHANGED vars
    PROVE  UNCHANGED U!vars
<1>1. life' = life /\ brk' = brk /\ (space' = space \/ space' = [space EXCEPT ![Img] = NoSpace])
    BY DEF BeginFork, BeginFault, BeginGrow, BeginSpawn, BeginExec, Sched, FinishFault, ExecLoad,
           ExecFree, vars, tasks
<1>2. \A t \in Task : space'[t] = space[t]
    BY <1>1, AddressSpaceAssumption DEF AInv, Types, Ids
<1> QED
    BY <1>1, <1>2, Unseen

\* The end of a task.
LEMMA EndSeen ==
    ASSUME AInv, AInv', NEW c \in Task, Die(c) \/ Reap(c)
    PROVE  U!Next
<1>1. op = Idle /\ op' = op
    BY DEF Die, Reap, Runs
<1>2. \A t \in Task : Visible(t) = Pages(space[t]) /\ Visible(t)' = Pages(space'[t])
    BY <1>1, IdleFacts, VisibleFacts, VisibleNext DEF SeenPages
<1>3. CASE Die(c)
  <2>1. life[c] = "alive" /\ life' = [life EXCEPT ![c] = "dead"] /\ space' = space /\ brk' = brk
    BY <1>3 DEF Die
  <2>2. Seen' = Seen
    BY <1>2, <2>1 DEF Seen
  <2>3. U!Die(c)
    BY <2>1, <2>2 DEF U!Die, Seen
  <2> QED
    BY <2>3 DEF U!Next
<1>4. CASE Reap(c)
  <2>1. /\ life[c] = "dead" /\ life' = [life EXCEPT ![c] = "none"]
        /\ space' = [space EXCEPT ![c] = NoSpace] /\ brk' = [brk EXCEPT ![c] = 0]
    BY <1>4 DEF Reap
  <2>2. /\ Pages(space'[c]) = {}
        /\ \A t \in Task : t # c => space'[t] = space[t]
    BY <2>1, NoSpaceFacts DEF AInv, Types, Ids
  <2>3. Seen' = [Seen EXCEPT ![c] = {}]
    BY <1>2, <2>2 DEF Seen
  <2>4. U!Reap(c)
    BY <2>1, <2>3 DEF U!Reap, Seen
  <2> QED
    BY <2>4 DEF U!Next
<1> QED
    BY <1>3, <1>4

\* The calls that give a task a new space take effect as a whole.
LEMMA ForkSeen ==
    ASSUME AInv, AInv', FinishFork
    PROVE  U!Next
<1> DEFINE c == op.for
<1>1. /\ op.kind = "fork" /\ op.todo = <<>> /\ Building /\ ~NeedsRoot /\ op' = Idle
      /\ space' = [space EXCEPT ![c] = space[Img], ![Img] = NoSpace]
      /\ brk' = [brk EXCEPT ![c] = brk[op.by]] /\ life' = [life EXCEPT ![c] = "alive"]
    BY DEF FinishFork, Done, Building
<1>2. /\ c \in Task /\ op.by \in Task /\ life[c] = "none" /\ life[op.by] = "alive"
    BY <1>1 DEF AInv, Caller
<1>3. Pages(space[Img]) = Pages(space[op.by])
    BY <1>1, DoneFacts DEF Wanted
<1> HIDE DEF c
<1>4. space'[c] = space[Img] /\ \A t \in Task : t # c => space'[t] = space[t]
    BY <1>1, <1>2, AddressSpaceAssumption DEF AInv, Types, Ids
<1>5. \A t \in Task : Visible(t) = Pages(space[t]) /\ Visible(t)' = Pages(space'[t])
    BY <1>1, IdleFacts, VisibleFacts, VisibleNext DEF SeenPages
<1>6. Seen' = [Seen EXCEPT ![c] = Seen[op.by]]
    BY <1>2, <1>3, <1>4, <1>5 DEF Seen
<1>7. U!Fork(op.by, c)
    BY <1>1, <1>2, <1>6 DEF U!Fork, U!Start, Seen
<1> QED
    BY <1>2, <1>7 DEF U!Next

LEMMA SpawnSeen ==
    ASSUME AInv, AInv', NEW c \in Task, FinishSpawn(c)
    PROVE  U!Next
<1>1. /\ op.kind = "spawn" /\ op.todo = <<>> /\ Building /\ ~NeedsRoot /\ op' = Idle
      /\ space' = [space EXCEPT ![c] = space[Img], ![Img] = NoSpace]
      /\ brk' = [brk EXCEPT ![c] = HeapBase * PageSize] /\ life' = [life EXCEPT ![c] = "alive"]
      /\ life[c] = "none"
    BY DEF FinishSpawn, Done, Building
<1>2. Pages(space[Img]) = Image
    BY <1>1, DoneFacts DEF Wanted
<1>3. space'[c] = space[Img] /\ \A t \in Task : t # c => space'[t] = space[t]
    BY <1>1, AddressSpaceAssumption DEF AInv, Types, Ids
<1>4. \A t \in Task : Visible(t) = Pages(space[t]) /\ Visible(t)' = Pages(space'[t])
    BY <1>1, IdleFacts, VisibleFacts, VisibleNext DEF SeenPages
<1>5. Seen' = [Seen EXCEPT ![c] = Image]
    BY <1>2, <1>3, <1>4 DEF Seen
<1>6. U!Spawn(c)
    BY <1>1, <1>5 DEF U!Spawn, U!Start, Seen
<1> QED
    BY <1>6 DEF U!Next

LEMMA ExecSeen ==
    ASSUME AInv, AInv', ExecSwap
    PROVE  U!Next
<1> DEFINE p == op.by
<1>1. /\ op.kind = "exec" /\ op.todo = <<>> /\ Building /\ ~NeedsRoot
      /\ op' = [op EXCEPT !.kind = "load"] /\ life' = life
      /\ space' = [space EXCEPT ![p] = space[Img], ![Img] = space[p]]
      /\ brk' = [brk EXCEPT ![p] = HeapBase * PageSize]
    BY DEF ExecSwap, Done, Building
<1>2. p \in Task /\ life[p] = "alive" /\ op'.kind = "load"
    BY <1>1 DEF AInv, Caller, Types, Calls
<1>3. Pages(space[Img]) = Image
    BY <1>1, DoneFacts DEF Wanted
<1> HIDE DEF p
<1>4. space'[p] = space[Img] /\ \A t \in Task : t # p => space'[t] = space[t]
    BY <1>1, <1>2, AddressSpaceAssumption DEF AInv, Types, Ids
<1>5. \A t \in Task : Visible(t) = Pages(space[t]) /\ Visible(t)' = Pages(space'[t])
    BY <1>1, <1>2, VisibleFacts, VisibleNext DEF SeenPages
<1>6. Seen' = [Seen EXCEPT ![p] = Image]
    BY <1>2, <1>3, <1>4, <1>5 DEF Seen
<1>7. U!Exec(p)
    BY <1>1, <1>2, <1>6 DEF U!Exec, U!Change, Seen
<1> QED
    BY <1>2, <1>7 DEF U!Next

\* The heap of a task after sbrk: the pages that begin below its new break.
LEMMA BreakSeen ==
    ASSUME AInv, AInv', NEW p \in Task, life[p] = "alive", life' = life,
           NEW end, HeapBase * PageSize <= end, end <= HeapTop, end \in Nat,
           brk' = [brk EXCEPT ![p] = end],
           \A t \in Task : t # p => space'[t] = space[t],
           Pages(space'[p]) \ HeapPages = Pages(space[p]) \ HeapPages
    PROVE  U!Next
<1>1. brk'[p] = end /\ \A t \in Task : t # p => brk'[t] = brk[t]
    BY DEF AInv, Types
<1>2. \A t \in Task : t # p => Visible(t)' = Visible(t)
    BY <1>1, VisibleFacts, VisibleNext DEF SeenPages
<1>3. /\ Visible(p) = (Pages(space[p]) \ HeapPages) \cup Below(brk[p])
      /\ Visible(p)' = (Pages(space[p]) \ HeapPages) \cup Below(end)
    BY <1>1, VisibleFacts, VisibleNext DEF SeenPages
<1>4. Visible(p)' = (Visible(p) \ HeapPages) \cup {v \in HeapPages : v * PageSize < end}
    BY <1>3 DEF Below
<1>5. Seen' = [Seen EXCEPT ![p] = (Seen[p] \ HeapPages) \cup {v \in HeapPages : v * PageSize < end}]
    BY <1>2, <1>4 DEF Seen
<1>6. U!Break(p, end)
    BY <1>5 DEF U!Break, U!Change, Seen
<1>7. end \in (HeapBase * PageSize)..HeapTop
    BY HeapBounds
<1> QED
    BY <1>6, <1>7 DEF U!Next

LEMMA SbrkSeen ==
    ASSUME AInv, AInv', FinishGrow \/ \E p \in Task, i \in Increments : Shrink(p, i)
    PROVE  U!Next
<1>1. CASE FinishGrow
  <2>1. /\ op.kind = "sbrk" /\ life' = life /\ space' = space
        /\ brk' = [brk EXCEPT ![op.by] = op.brk]
    BY <1>1 DEF FinishGrow, Done
  <2>2. /\ op.by \in Task /\ life[op.by] = "alive" /\ op.brk \in Nat /\ op.brk <= HeapTop
        /\ brk[op.by] \in Nat /\ brk[op.by] < op.brk /\ HeapBase * PageSize <= brk[op.by]
    BY <2>1, GrowthFacts DEF Heaped
  <2>3. HeapBase * PageSize <= op.brk
    BY <2>2, HeapBounds
  <2> QED
    BY <2>1, <2>2, <2>3, BreakSeen
<1>2. ASSUME NEW p \in Task, NEW dec \in Increments, Shrink(p, dec)
      PROVE  U!Next
  <2> DEFINE new == brk[p] - dec
             S == (RoundUp(new)..(RoundUp(brk[p]) - 1)) \cap Pages(space[p])
  <2>1. /\ op = Idle /\ life[p] = "alive" /\ life' = life
        /\ dec > 0 /\ new >= HeapBase * PageSize
        /\ space' = [space EXCEPT ![p] = Unmap(@, S)] /\ brk' = [brk EXCEPT ![p] = new]
    BY <1>2, AddressSpaceAssumption DEF Shrink, Runs
  <2>2. p \in Ids /\ GoodSpace(space[p]) /\ Heaped(space[p], brk[p], RoundUp(brk[p]))
    BY <2>1, WhenIdle DEF AInv, Spaces, Ids
  <2>3. new \in Nat /\ brk[p] \in Nat /\ new <= brk[p] /\ new <= HeapTop
        /\ HeapBase * PageSize <= new
    <3>1. HeapBase * PageSize \in Nat /\ dec \in Nat /\ brk[p] \in Nat /\ HeapTop \in Nat
      BY HeapBounds, AddressSpaceAssumption DEF AInv, Types
    <3>2. brk[p] <= HeapTop
      BY <2>2 DEF Heaped
    <3> QED
      BY <2>1, <3>1, <3>2
  <2>4. /\ RoundUp(new) \in Nat /\ RoundUp(brk[p]) \in Nat /\ RoundUp(new) <= RoundUp(brk[p])
        /\ HeapBase <= RoundUp(new)
    BY <2>3, RoundUpBound, RoundUpMonotone, HeapBounds
  <2>5. S = (RoundUp(new)..(RoundUp(brk[p]) - 1)) \cap Pages(space[p])
    OBVIOUS
  <2> HIDE DEF new, S
  <2>6. Pages(Unmap(space[p], S)) \ HeapPages = Pages(space[p]) \ HeapPages
    BY <2>2, <2>4, <2>5, UnmapHeap DEF Heaped
  <2>7. space'[p] = Unmap(space[p], S) /\ \A t \in Task : t # p => space'[t] = space[t]
    BY <2>1, <2>2 DEF AInv, Types, Ids
  <2> QED
    BY <2>1, <2>3, <2>6, <2>7, BreakSeen
<1> QED
    BY <1>1, <1>2

LEMMA StepSeen == AInv /\ AInv' /\ [Next]_vars => [U!Next]_(U!vars)
<1> SUFFICES ASSUME AInv, AInv', [Next]_vars
             PROVE  UNCHANGED U!vars \/ U!Next
    OBVIOUS
<1>1. ASSUME NEW f \in F!Free, NewRoot(f) \/ NewLeaf(f) \/ NewTable(f)
      PROVE  UNCHANGED U!vars
    BY <1>1, BuildUnseen, TableUnseen
<1>2. CASE MapPage
    BY <1>2, MapPageSeen
<1>3. CASE OutOfFrames \/ BadArguments \/ SpawnFails
  <2>1. Undo
    BY <1>3 DEF OutOfFrames, BadArguments, SpawnFails
  <2>2. op.kind = "sbrk" => op.todo # <<>>
    BY <1>3 DEF OutOfFrames, BadArguments, SpawnFails, Done, NeedsRoot, NeedsLeaf, NeedsTable,
                Mapping, Building
  <2> QED
    BY <2>1, <2>2, UndoSeen
<1>4. CASE \/ \E p, c \in Task : BeginFork(p, c)
           \/ \E p \in Task, v \in Stack : BeginFault(p, v)
           \/ \E p \in Task, i \in Increments : BeginGrow(p, i)
           \/ \E t \in Task : BeginSpawn(t) \/ BeginExec(t)
           \/ \E q \in Task \cup {Kernel} : Sched(q)
           \/ FinishFault \/ ExecLoad \/ ExecFree \/ UNCHANGED vars
    BY <1>4, QuietUnseen
<1>5. CASE FinishGrow \/ \E p \in Task, i \in Increments : Shrink(p, i)
    BY <1>5, SbrkSeen
<1>6. ASSUME NEW t \in Task, FinishSpawn(t) \/ Die(t) \/ Reap(t)
      PROVE  U!Next
    BY <1>6, SpawnSeen, EndSeen
<1>7. CASE FinishFork \/ ExecSwap
    BY <1>7, ForkSeen, ExecSeen
<1> QED
    BY <1>1, <1>2, <1>3, <1>4, <1>5, <1>6, <1>7 DEF Next

LEMMA InitSeen == Init => U!Init
<1> SUFFICES ASSUME Init
             PROVE  U!Init
    OBVIOUS
<1>1. /\ op.kind = "spawn" /\ life = [t \in Task |-> "none"]
      /\ space = [t \in Ids |-> NoSpace] /\ brk = [t \in Task |-> 0]
    BY DEF Init, Idle
<1>2. \A t \in Task : Visible(t) = {}
    BY <1>1, NoSpaceFacts DEF Visible, Ids
<1>3. Seen = [t \in Task |-> {}]
    BY <1>2 DEF Seen
<1> QED
    BY <1>1, <1>3 DEF U!Init, Seen

\* Every memory call takes effect for the program as a whole or not at all, on
\* the pages of its own task or of the new one, wherever it runs out of frames.
THEOREM MemoryRefinement == Spec => ImplementsUserMemory
<1>1. Init => U!Init
    BY InitSeen
<1>2. AInv /\ AInv' /\ [Next]_vars => [U!Next]_(U!vars)
    BY StepSeen
<1>3. Spec => []AInv
    BY AddressSpaceInvariant
<1> QED
    BY <1>1, <1>2, <1>3, PTL DEF Spec, ImplementsUserMemory, U!Spec
=============================================================================
