--------------------------- MODULE ResourceProofs ---------------------------
(* Proofs about Frames and Descriptors: what the kernel counts, the frames   *)
(* of memory and the references to open files.                               *)
EXTENDS Frames, Descriptors, DataLemmas, FiniteSetTheorems, TLAPS

-----------------------------------------------------------------------------
(***************************************************************************)
(* Frames, for any memory maps, page size and request sizes.               *)
(***************************************************************************)
(***************************************************************************)
(* The size of the bitmap and its place are numbers.                       *)
(***************************************************************************)
Area == [base : Nat, length : Nat, usable : BOOLEAN]

EntryEnds(m) == {e.base + e.length : e \in {m[i] : i \in DOMAIN m}} \cup {0}

\* Some address is above every entry of a map.
LEMMA Bounded ==
    ASSUME NEW n \in Nat, NEW f \in [1..n -> Nat]
    PROVE  \E b \in Nat : \A i \in 1..n : f[i] <= b
<1> DEFINE bounded(k) == \E b \in Nat : \A i \in 1..k : f[i] <= b
           Bad == {k \in 0..n : ~bounded(k)}
<1>1. Bad = {}
  <2> SUFFICES ASSUME Bad # {}
               PROVE  FALSE
      OBVIOUS
  <2>1. PICK k \in Bad : \A j \in Bad : k <= j
    <3>1. Bad \subseteq Nat
      OBVIOUS
    <3> HIDE DEF Bad
    <3> QED
      BY <3>1, LeastNat
  <2>2. k \in 0..n /\ ~bounded(k)
    OBVIOUS
  <2>3. k # 0
    <3>1. \A i \in 1..0 : f[i] <= 0
      OBVIOUS
    <3> QED
      BY <3>1, <2>2
  <2>4. k - 1 \in 0..n /\ k - 1 \notin Bad
    <3> HIDE DEF Bad
    <3> QED
      BY <2>1, <2>2, <2>3
  <2>5. PICK b \in Nat : \A i \in 1..(k - 1) : f[i] <= b
    BY <2>4
  <2> HIDE DEF Bad, bounded
  <2>6. k \in 1..n /\ f[k] \in Nat
    <3>1. k \in 1..n
      BY <2>2, <2>3
    <3> QED
      BY <3>1
  <2>7. ASSUME NEW i \in 1..k
        PROVE  f[i] <= b + f[k]
    <3>1. CASE i = k
      BY <3>1, <2>6
    <3>2. CASE i # k
      <4>1. i \in 1..(k - 1) /\ i \in 1..n
        BY <3>2, <2>2
      <4>2. f[i] <= b /\ f[i] \in Nat
        BY <4>1, <2>5
      <4> QED
        BY <4>2, <2>6
    <3> QED
      BY <3>1, <3>2
  <2>8. b + f[k] \in Nat
    BY <2>6
  <2>9. bounded(k)
    BY <2>7, <2>8 DEF bounded
  <2> QED
    BY <2>9, <2>2
<1>2. n \notin Bad
    BY <1>1
<1> QED
    BY <1>2

LEMMA EndsBounded ==
    ASSUME NEW m \in Seq(Area)
    PROVE  /\ EntryEnds(m) \subseteq Nat
           /\ \E b \in Nat : \A x \in EntryEnds(m) : x <= b
<1> DEFINE n == Len(m)
           f == [i \in 1..n |-> m[i].base + m[i].length]
<1>1. n \in Nat /\ m \in [1..n -> Area] /\ DOMAIN m = 1..n
    OBVIOUS
<1>2. f \in [1..n -> Nat]
  <2> SUFFICES ASSUME NEW i \in 1..n
               PROVE  m[i].base + m[i].length \in Nat
      OBVIOUS
  <2>1. m[i] \in Area
    BY <1>1
  <2> QED
    BY <2>1 DEF Area
<1>3. EntryEnds(m) = {f[i] : i \in 1..n} \cup {0}
    BY <1>1 DEF EntryEnds
<1> HIDE DEF f, n
<1>4. PICK b \in Nat : \A i \in 1..n : f[i] <= b
    BY <1>1, <1>2, Bounded
<1> QED
    BY <1>2, <1>3, <1>4

LEMMA MaxNat ==
    ASSUME NEW S, S \subseteq Nat, S # {}, NEW b \in Nat, \A x \in S : x <= b
    PROVE  Max(S) \in S /\ \A x \in S : x <= Max(S)
<1> DEFINE D == {d \in Nat : b - d \in S}
<1>1. D # {}
  <2>1. PICK x \in S : TRUE
    OBVIOUS
  <2>2. b - x \in Nat /\ b - (b - x) = x
    BY <2>1
  <2> QED
    BY <2>2
<1>2. PICK d \in D : \A c \in D : d <= c
  <2>1. D \subseteq Nat
    OBVIOUS
  <2> HIDE DEF D
  <2> QED
    BY <1>1, <2>1, LeastNat
<1>3. ASSUME NEW x \in S
      PROVE  b - d >= x
  <2>1. x \in Nat /\ b - x \in Nat /\ b - (b - x) = x
    OBVIOUS
  <2>2. b - x \in D
    BY <2>1
  <2>3. d <= b - x /\ d \in Nat
    BY <2>2, <1>2
  <2> QED
    BY <2>1, <2>3
<1>4. \E y \in S : \A x \in S : y >= x
    BY <1>2, <1>3
<1>5. Max(S) \in S /\ \A x \in S : Max(S) >= x
    BY <1>4 DEF Max
<1> QED
    BY <1>5

LEMMA DivNat ==
    ASSUME NEW x \in Nat, NEW d \in Nat \ {0}
    PROVE  x \div d \in Nat
OBVIOUS

LEMMA TotalNat ==
    ASSUME memmap \in Maps
    PROVE  memmap \in Seq(Area) /\ total \in Nat
<1>1. memmap \in Seq(Area)
    BY FramesAssumption DEF Area
<1> DEFINE S == EntryEnds(memmap)
<1>2. S \subseteq Nat /\ S # {}
    BY <1>1, EndsBounded DEF EntryEnds
<1>3. Max(S) \in S
  <2> HIDE DEF S
  <2>1. PICK b \in Nat : \A x \in S : x <= b
    BY <1>1, EndsBounded DEF S
  <2> QED
    BY <1>2, <2>1, MaxNat
<1>4. total = Max(S) \div PageSize
    BY DEF total, EntryEnds
<1>5. Max(S) \in Nat
    BY <1>2, <1>3
<1>6. Max(S) \div PageSize \in Nat
  <2> HIDE DEF S
  <2> QED
    BY <1>5, FramesAssumption, DivNat
<1> QED
    BY <1>1, <1>4, <1>6

-----------------------------------------------------------------------------
(***************************************************************************)
(* The scan of pmm_alloc_contiguous.  The counter at frame i is the        *)
(* distance to the last used frame, or to frame 0, whichever is nearer.    *)
(***************************************************************************)
Stops(j) == j = 0 \/ j \in bits

Distance(i, d) ==
    /\ d \in 0..i /\ Stops(i - d)
    /\ \A j \in (i - d + 1)..i : ~Stops(j)

LEMMA DistanceExists ==
    ASSUME NEW i \in Nat
    PROVE  \E d \in Nat : Distance(i, d)
<1> DEFINE S == {d \in 0..i : Stops(i - d)}
<1>1. S \subseteq Nat /\ i \in S
    BY DEF Stops
<1>2. PICK d \in S : \A e \in S : d <= e
  <2> HIDE DEF S
  <2> QED
    BY <1>1, LeastNat
<1>3. d \in 0..i /\ Stops(i - d)
    OBVIOUS
<1>4. ASSUME NEW j \in (i - d + 1)..i
      PROVE  ~Stops(j)
  <2>1. i - j \in 0..i /\ i - (i - j) = j /\ i - j < d
    BY <1>3
  <2>2. i - j \notin S
    BY <1>2, <1>3, <2>1
  <2> QED
    BY <2>1, <2>2
<1> QED
    BY <1>1, <1>3, <1>4 DEF Distance

LEMMA DistanceUnique ==
    ASSUME NEW i \in Nat, NEW d \in Nat, NEW e \in Nat, Distance(i, d), Distance(i, e)
    PROVE  d = e
<1>1. ASSUME NEW x \in Nat, NEW y \in Nat, Distance(i, x), Distance(i, y), x < y
      PROVE  FALSE
  <2>1. i - x \in (i - y + 1)..i
    BY <1>1 DEF Distance
  <2> QED
    BY <1>1, <2>1 DEF Distance
<1> QED
    BY <1>1

LEMMA DistanceStep ==
    ASSUME NEW i \in Nat, NEW d \in Nat, Distance(i, d)
    PROVE  /\ Distance(i + 1, IF Stops(i + 1) THEN 0 ELSE d + 1)
           /\ Stops(i) => d = 0
<1>1. CASE Stops(i + 1)
    BY <1>1 DEF Distance
<1>2. CASE ~Stops(i + 1)
  <2>1. d + 1 \in 0..(i + 1) /\ (i + 1) - (d + 1) = i - d
    BY DEF Distance
  <2>2. ASSUME NEW j \in (i - d + 1)..(i + 1)
        PROVE  ~Stops(j)
    BY <1>2 DEF Distance
  <2> QED
    BY <1>2, <2>1, <2>2 DEF Distance
<1>3. Stops(i) => d = 0
  <2>1. d # 0 => i \in (i - d + 1)..i
    BY DEF Distance
  <2> QED
    BY <2>1 DEF Distance
<1> QED
    BY <1>1, <1>2, <1>3

\* The counter is what its recursive definition says.
LEMMA RunDefined ==
    ASSUME total \in Nat
    PROVE  Run = [i \in 0..(total - 1) |->
                    IF i = 0 \/ i \in bits THEN 0 ELSE Run[i - 1] + 1]
<1> DEFINE g == [i \in 0..(total - 1) |-> CHOOSE d \in Nat : Distance(i, d)]
<1>1. ASSUME NEW i \in 0..(total - 1)
      PROVE  g[i] \in Nat /\ Distance(i, g[i])
    BY DistanceExists
<1>2. ASSUME NEW i \in 0..(total - 1)
      PROVE  g[i] = IF i = 0 \/ i \in bits THEN 0 ELSE g[i - 1] + 1
  <2> HIDE DEF g
  <2>1. CASE Stops(i)
    <3>1. Distance(i, 0)
      BY <2>1 DEF Distance
    <3> QED
      BY <3>1, <1>1, <2>1, DistanceUnique DEF Stops
  <2>2. CASE ~Stops(i)
    <3>1. i - 1 \in 0..(total - 1) /\ (i - 1) + 1 = i
      BY <2>2 DEF Stops
    <3>2. g[i - 1] \in Nat /\ Distance(i - 1, g[i - 1])
      BY <3>1, <1>1
    <3>3. Distance((i - 1) + 1, g[i - 1] + 1)
      BY <3>1, <3>2, <2>2, DistanceStep
    <3> QED
      BY <3>1, <3>2, <3>3, <1>1, <2>2, DistanceUnique DEF Stops
  <2> QED
    BY <2>1, <2>2
<1>3. g = [i \in 0..(total - 1) |-> g[i]]
    OBVIOUS
<1> HIDE DEF g
<1>4. g = [i \in 0..(total - 1) |-> IF i = 0 \/ i \in bits THEN 0 ELSE g[i - 1] + 1]
    BY <1>2, <1>3
<1> QED
    BY <1>4 DEF Run

LEMMA RunIsDistance ==
    ASSUME total \in Nat, NEW i \in 0..(total - 1)
    PROVE  Run[i] \in Nat /\ Distance(i, Run[i])
<1> DEFINE Bad == {j \in 0..(total - 1) : ~(Run[j] \in Nat /\ Distance(j, Run[j]))}
<1>1. Bad = {}
  <2> SUFFICES ASSUME Bad # {}
               PROVE  FALSE
      OBVIOUS
  <2>1. PICK k \in Bad : \A j \in Bad : k <= j
    <3>1. Bad \subseteq Nat
      OBVIOUS
    <3> HIDE DEF Bad
    <3> QED
      BY <3>1, LeastNat
  <2>2. k \in 0..(total - 1)
    OBVIOUS
  <2>3. Run[k] = IF Stops(k) THEN 0 ELSE Run[k - 1] + 1
    <3> HIDE DEF Bad
    <3>1. Run[k] = IF k = 0 \/ k \in bits THEN 0 ELSE Run[k - 1] + 1
      BY <2>2, RunDefined
    <3> QED
      BY <3>1 DEF Stops
  <2>4. CASE Stops(k)
    <3>1. Run[k] \in Nat /\ Distance(k, Run[k])
      <4> HIDE DEF Bad
      <4> QED
        BY <2>2, <2>3, <2>4 DEF Distance
    <3> QED
      BY <3>1
  <2>5. CASE ~Stops(k)
    <3>1. k - 1 \in 0..(total - 1) /\ (k - 1) + 1 = k /\ k - 1 \notin Bad
      <4> HIDE DEF Bad
      <4> QED
        BY <2>1, <2>2, <2>5 DEF Stops
    <3>2. Run[k - 1] \in Nat /\ Distance(k - 1, Run[k - 1])
      BY <3>1
    <3>3. Run[k] \in Nat /\ Distance(k, Run[k])
      <4> HIDE DEF Bad
      <4> QED
        BY <2>2, <2>3, <2>5, <3>1, <3>2, DistanceStep
    <3> QED
      BY <3>3
  <2> QED
    BY <2>4, <2>5
<1> QED
    BY <1>1

\* A place where the counter reaches n is the end of a run of n free frames.
LEMMA RunEnds ==
    ASSUME total \in Nat, NEW n \in Nat \ {0}, NEW i \in 0..(total - 1), Run[i] = n
    PROVE  i - n + 1 \in Free /\ IsRun(n, i - n + 1) /\ (i - n + 1) + n - 1 = i
<1>1. Distance(i, n)
    BY RunIsDistance
<1>2. \A j \in (i - n + 1)..i : j \in Free
    BY <1>1 DEF Distance, Stops, Free
<1>3. (i - n + 1) + n - 1 = i
    OBVIOUS
<1> QED
    BY <1>2, <1>3 DEF IsRun

\* The lowest run of free frames is where the counter first reaches n.
LEMMA LowestRunIsScanned ==
    ASSUME total \in Nat, NEW n \in Nat \ {0}, NEW f \in LowestRun(n)
    PROVE  Scan(n) = {f}
<1> DEFINE i == f + n - 1
           ends == {j \in 0..(total - 1) : Run[j] = n}
<1>1. f \in Free /\ IsRun(n, f) /\ \A g \in Free : IsRun(n, g) => f <= g
    BY DEF LowestRun
<1>2. f \in Nat \ {0} /\ i \in 0..(total - 1) /\ i \in f..(f + n - 1)
  <2>1. f \in 1..(total - 1) /\ i \in f..(f + n - 1)
    BY <1>1 DEF Free
  <2>2. i \in 1..(total - 1)
    BY <1>1, <2>1 DEF IsRun, Free
  <2> QED
    BY <2>1, <2>2
<1>3. Stops(f - 1)
  <2> SUFFICES ASSUME ~Stops(f - 1)
               PROVE  FALSE
      OBVIOUS
  <2>1. f - 1 \in Free
    BY <1>1, <1>2 DEF Stops, Free
  <2>2. (f - 1)..((f - 1) + n - 1) \subseteq {f - 1} \cup f..(f + n - 1)
    BY <1>2
  <2>3. IsRun(n, f - 1)
    BY <1>1, <2>1, <2>2 DEF IsRun
  <2> QED
    BY <1>1, <1>2, <2>1, <2>3
<1>4. Distance(i, n)
  <2>1. n \in 0..i /\ i - n = f - 1 /\ i - n + 1 = f
    BY <1>2
  <2>2. \A j \in f..i : ~Stops(j)
    BY <1>1, <1>2 DEF IsRun, Free, Stops
  <2> QED
    BY <1>3, <2>1, <2>2 DEF Distance
<1>5. i \in ends
    BY <1>2, <1>4, RunIsDistance, DistanceUnique
<1>6. ASSUME NEW j \in ends
      PROVE  i <= j
  <2>1. j \in 0..(total - 1) /\ Run[j] = n
    OBVIOUS
  <2>2. j - n + 1 \in Free /\ IsRun(n, j - n + 1)
    BY <2>1, RunEnds
  <2>3. f <= j - n + 1
    BY <1>1, <2>2
  <2> QED
    BY <1>2, <2>1, <2>3
<1>7. Min(ends) = i
  <2>1. ends \subseteq Nat /\ ends # {}
    BY <1>5
  <2> HIDE DEF ends, i
  <2>2. Min(ends) \in ends /\ \A j \in ends : Min(ends) <= j
    BY <2>1, MinNat
  <2>3. Min(ends) \in Nat /\ i \in Nat
    BY <2>1, <2>2, <1>5
  <2> QED
    BY <1>5, <1>6, <2>2, <2>3
<1>8. Scan(n) = {Min(ends) - n + 1}
    BY <1>5 DEF Scan
<1> QED
  <2>1. i - n + 1 = f
    BY <1>2
  <2> HIDE DEF ends, i
  <2> QED
    BY <1>7, <1>8, <2>1

LEMMA LowestRunExists ==
    ASSUME NEW n \in Nat, NEW g \in Free, IsRun(n, g)
    PROVE  LowestRun(n) # {}
<1> DEFINE S == {f \in Free : IsRun(n, f)}
<1>1. S \subseteq Nat /\ g \in S
    BY DEF Free
<1>2. PICK f \in S : \A h \in S : f <= h
  <2> HIDE DEF S
  <2> QED
    BY <1>1, LeastNat
<1> QED
    BY <1>2 DEF LowestRun

LEMMA ScanIsLowestRun ==
    ASSUME total \in Nat, NEW n \in Nat \ {0}
    PROVE  Scan(n) = LowestRun(n)
<1>1. CASE LowestRun(n) # {}
  <2>1. PICK f \in LowestRun(n) : TRUE
    BY <1>1
  <2>2. Scan(n) = {f}
    BY LowestRunIsScanned
  <2>3. ASSUME NEW g \in LowestRun(n)
        PROVE  g = f
    <3>1. Scan(n) = {g}
      BY LowestRunIsScanned
    <3> QED
      BY <2>2, <3>1
  <2> QED
    BY <2>1, <2>2, <2>3
<1>2. CASE LowestRun(n) = {}
  <2>1. {i \in 0..(total - 1) : Run[i] = n} = {}
    <3> SUFFICES ASSUME NEW i \in 0..(total - 1), Run[i] = n
                 PROVE  FALSE
        OBVIOUS
    <3>1. i - n + 1 \in Free /\ IsRun(n, i - n + 1)
      BY RunEnds
    <3> QED
      BY <1>2, <3>1, LowestRunExists
  <2> QED
    BY <1>2, <2>1 DEF Scan
<1> QED
    BY <1>1, <1>2

-----------------------------------------------------------------------------
(***************************************************************************)
(* The set bits are the frames that were never spare and the owned ones.   *)
(***************************************************************************)
FramesInv ==
    /\ memmap \in Maps
    /\ \E e \in Usable(memmap) : e.length >= BitmapSize
    /\ owned \subseteq Spare \ {0}
    /\ bits = (0..(total - 1) \ Spare) \cup owned
    /\ used = Cardinality(bits)

LEMMA BitsFinite ==
    ASSUME total \in Nat, NEW S, S \subseteq 0..(total - 1)
    PROVE  IsFiniteSet(S) /\ Cardinality(S) \in Nat
<1>1. IsFiniteSet(0..(total - 1))
    BY FS_Interval
<1>2. IsFiniteSet(S)
    BY <1>1, FS_Subset
<1> QED
    BY <1>2, FS_CardinalityType

\* What the loop of pmm_init clears: pages of usable entries beside the bitmap.
LEMMA SpareIs ==
    /\ Spare \subseteq 0..(total - 1)
    /\ \A f \in 0..(total - 1) :
          f \in Spare <=>
            /\ \E e \in Usable(memmap) : f * PageSize \in e.base..(e.base + e.length - 1)
            /\ f * PageSize \notin BitmapAddr..(BitmapAddr + BitmapSize - 1)
<1>1. ASSUME NEW f
      PROVE  f \in Spare <=>
                \E i \in DOMAIN memmap :
                    f \in 0..(total - 1) /\ memmap[i].usable /\ f \in Cleared(memmap[i])
  <2>1. ASSUME f \in Spare
        PROVE  \E i \in DOMAIN memmap :
                    f \in 0..(total - 1) /\ memmap[i].usable /\ f \in Cleared(memmap[i])
    <3>1. PICK c \in Clearings : f = c[2]
      BY <2>1 DEF Spare
    <3>2. /\ c[1] \in DOMAIN memmap /\ c[2] \in 0..(total - 1)
          /\ memmap[c[1]].usable /\ c[2] \in Cleared(memmap[c[1]])
      BY DEF Clearings
    <3> QED
      BY <3>1, <3>2
  <2>2. ASSUME NEW i \in DOMAIN memmap, f \in 0..(total - 1), memmap[i].usable,
               f \in Cleared(memmap[i])
        PROVE  f \in Spare
    <3>1. <<i, f>> \in Clearings
      BY <2>2 DEF Clearings
    <3>2. f = <<i, f>>[2]
      OBVIOUS
    <3> QED
      BY <3>1, <3>2 DEF Spare
  <2> QED
    BY <2>1, <2>2
<1> QED
  BY <1>1 DEF Cleared, Usable

\* Two turns of the loop never clear the same page.
LEMMA ClearedApart ==
    ASSUME memmap \in Maps, NEW i \in DOMAIN memmap, NEW j \in DOMAIN memmap,
           memmap[i].usable, memmap[j].usable,
           NEW f \in Cleared(memmap[i]), f \in Cleared(memmap[j])
    PROVE  i = j
<1> SUFFICES ASSUME i # j
             PROVE  FALSE
    OBVIOUS
<1>1. memmap \in Seq(Area)
    BY FramesAssumption DEF Area
<1>2. memmap[i] \in Area /\ memmap[j] \in Area
    BY <1>1
<1>3. /\ memmap[i].base \in Nat /\ memmap[i].length \in Nat
      /\ memmap[j].base \in Nat /\ memmap[j].length \in Nat
    BY <1>2 DEF Area
<1>4. \/ memmap[i].base + memmap[i].length <= memmap[j].base
      \/ memmap[j].base + memmap[j].length <= memmap[i].base
    BY EntriesApart
<1>5. /\ f * PageSize \in memmap[i].base..(memmap[i].base + memmap[i].length - 1)
      /\ f * PageSize \in memmap[j].base..(memmap[j].base + memmap[j].length - 1)
    BY DEF Cleared
<1> DEFINE x == f * PageSize
<1>6. /\ x \in memmap[i].base..(memmap[i].base + memmap[i].length - 1)
      /\ x \in memmap[j].base..(memmap[j].base + memmap[j].length - 1)
    BY <1>5
<1> HIDE DEF x
<1> QED
    BY <1>3, <1>4, <1>6

\* So that the count is taken down once for each of them.
LEMMA ClearedOnce ==
    ASSUME memmap \in Maps, total \in Nat
    PROVE  Cardinality(Clearings) = Cardinality(Spare)
<1> DEFINE page == [c \in Clearings |-> c[2]]
<1>1. IsFiniteSet(Spare)
    BY SpareIs, BitsFinite
<1>2. page \in Surjection(Clearings, Spare)
    BY DEF Spare, Surjection
<1>3. ASSUME NEW c \in Clearings, NEW d \in Clearings, c[2] = d[2]
      PROVE  c = d
  <2>1. /\ c \in (DOMAIN memmap) \X (0..(total - 1)) /\ d \in (DOMAIN memmap) \X (0..(total - 1))
        /\ memmap[c[1]].usable /\ c[2] \in Cleared(memmap[c[1]])
        /\ memmap[d[1]].usable /\ d[2] \in Cleared(memmap[d[1]])
    BY DEF Clearings
  <2>2. c[1] = d[1]
    BY <1>3, <2>1, ClearedApart
  <2> QED
    BY <1>3, <2>1, <2>2
<1>4. page \in Injection(Clearings, Spare)
    BY <1>3 DEF Spare, Injection, IsInjective
<1>5. ExistsBijection(Clearings, Spare)
  <2> HIDE DEF page
  <2> QED
    BY <1>2, <1>4 DEF ExistsBijection, Bijection
<1>6. IsFiniteSet(Clearings)
  <2>1. IsFiniteSet(0..(total - 1))
    BY FS_Interval
  <2>2. IsFiniteSet(DOMAIN memmap)
    <3>1. memmap \in Seq(Area)
      BY FramesAssumption DEF Area
    <3>2. DOMAIN memmap = 1..Len(memmap) /\ Len(memmap) \in Nat
      BY <3>1, LenProperties
    <3> QED
      BY <3>2, FS_Interval
  <2>3. IsFiniteSet((DOMAIN memmap) \X (0..(total - 1)))
    BY <2>1, <2>2, FS_Product
  <2>4. Clearings \in SUBSET ((DOMAIN memmap) \X (0..(total - 1)))
    BY DEF Clearings
  <2> QED
    BY <2>3, <2>4, FS_Subset
<1> QED
    BY <1>5, <1>6, FS_Bijection

LEMMA InitFramesInv == Init => FramesInv
<1> SUFFICES ASSUME Init
             PROVE  FramesInv
    OBVIOUS
<1>1. total \in Nat
    BY TotalNat DEF Init
<1> DEFINE all == 0..(total - 1)
<1>2. Spare \subseteq all
    BY SpareIs
<1>3. IsFiniteSet(all) /\ Cardinality(all) = total
    BY <1>1, FS_Interval
<1>4. IsFiniteSet(Spare) /\ Cardinality(Spare) \in Nat
    BY <1>1, <1>2, BitsFinite
<1>5. Cardinality(all \ Spare) = total - Cardinality(Spare)
  <2>1. all \cap Spare = Spare
    BY <1>2
  <2> HIDE DEF all
  <2> QED
    BY <1>3, <2>1, FS_Difference
<1>6. Cardinality(Clearings) = Cardinality(Spare)
    BY <1>1, ClearedOnce DEF Init
<1> QED
    BY <1>5, <1>6 DEF Init, FramesInv

\* Setting the bits of free frames, and counting them.
LEMMA SetFree ==
    ASSUME FramesInv, NEW S, S \subseteq Free, Set(S), owned' = owned \cup S
    PROVE  FramesInv'
<1>1. total \in Nat
    BY TotalNat DEF FramesInv
<1>2. memmap' = memmap /\ bits' = bits \cup S /\ used' = used + Cardinality(S)
    BY DEF Set
<1>3. total' = total /\ Spare' = Spare /\ BitmapSize' = BitmapSize
    BY <1>2 DEF total, Spare, Clearings, Cleared, BitmapAddr, BitmapEntry,
       BitmapSize
<1>4. S \subseteq Spare \ {0} /\ S \cap bits = {} /\ S \subseteq 0..(total - 1)
  <2> SUFFICES ASSUME NEW f \in S
               PROVE  f \in Spare /\ f # 0 /\ f \notin bits /\ f \in 0..(total - 1)
      OBVIOUS
  <2>1. f \in 1..(total - 1) /\ f \notin bits
    BY DEF Free
  <2>2. f \in 0..(total - 1) /\ f # 0
    BY <1>1, <2>1
  <2> QED
    BY <2>1, <2>2 DEF FramesInv
<1>5. bits \subseteq 0..(total - 1)
    BY SpareIs DEF FramesInv
<1>6. Cardinality(bits \cup S) = Cardinality(bits) + Cardinality(S)
  <2>1. bits \cap S = {}
    BY <1>4
  <2>2. IsFiniteSet(bits) /\ IsFiniteSet(S)
    BY <1>1, <1>4, <1>5, BitsFinite
  <2>3. Cardinality(bits) \in Nat /\ Cardinality(S) \in Nat
    BY <1>1, <1>4, <1>5, BitsFinite
  <2>4. Cardinality(bits \cup S) = Cardinality(bits) + Cardinality(S) - Cardinality({})
    BY <2>1, <2>2, FS_Union
  <2> QED
    BY <2>3, <2>4, FS_EmptySet
<1> QED
    BY <1>2, <1>3, <1>4, <1>6 DEF FramesInv, Usable

\* Giving back frames that are owned.
LEMMA PutOwned ==
    ASSUME FramesInv, FreeFrames
    PROVE  FramesInv'
<1> DEFINE S == owned \ owned'
<1>1. total \in Nat
    BY TotalNat DEF FramesInv
<1>2. /\ owned' \subseteq owned /\ memmap' = memmap
      /\ bits' = bits \ S /\ used' = used - Cardinality(S \cap bits)
    BY DEF FreeFrames, Put
<1>3. total' = total /\ Spare' = Spare /\ BitmapSize' = BitmapSize
    BY <1>2 DEF total, Spare, Clearings, Cleared, BitmapAddr, BitmapEntry,
       BitmapSize
<1>4. bits \subseteq 0..(total - 1) /\ owned \subseteq Spare /\ S \subseteq bits
    BY SpareIs DEF FramesInv
<1>5. bits' = (0..(total - 1) \ Spare) \cup owned'
    BY <1>2, <1>4 DEF FramesInv
<1>6. Cardinality(bits \ S) = Cardinality(bits) - Cardinality(S \cap bits)
  <2>1. IsFiniteSet(bits)
    BY <1>1, <1>4, BitsFinite
  <2>2. S \cap bits = bits \cap S
    OBVIOUS
  <2> HIDE DEF S
  <2> QED
    BY <2>1, <2>2, FS_Difference
<1> QED
    BY <1>2, <1>3, <1>5, <1>6 DEF FramesInv, Usable

LEMMA NextFramesInv == FramesInv /\ [Next]_vars => FramesInv'
<1> SUFFICES ASSUME FramesInv, [Next]_vars
             PROVE  FramesInv'
    OBVIOUS
<1>1. total \in Nat
    BY TotalNat DEF FramesInv
<1>2. CASE AllocFrame
  <2>1. PICK f \in Free : Take(f) /\ owned' = owned \cup {f}
    BY <1>2 DEF AllocFrame
  <2>2. {f} \subseteq Free /\ Set({f})
    BY <2>1 DEF Take
  <2> QED
    BY <2>1, <2>2, SetFree
<1>3. CASE FreeFrames
    BY <1>3, PutOwned
<1>4. ASSUME NEW n \in Counts, AllocContiguous(n)
      PROVE  FramesInv'
  <2>1. PICK f \in Scan(n) : Set(f..(f + n - 1)) /\ owned' = owned \cup f..(f + n - 1)
    BY <1>4 DEF AllocContiguous
  <2>2. n \in Nat \ {0}
    BY FramesAssumption
  <2>3. f \in LowestRun(n)
    BY <1>1, <2>2, ScanIsLowestRun
  <2>4. f..(f + n - 1) \subseteq Free
    BY <2>3 DEF LowestRun, IsRun
  <2> QED
    BY <2>1, <2>4, SetFree
<1>5. CASE UNCHANGED vars
  <2>1. memmap' = memmap /\ bits' = bits /\ used' = used /\ owned' = owned
    BY <1>5 DEF vars
  <2>2. total' = total /\ Spare' = Spare /\ BitmapSize' = BitmapSize
    BY <2>1 DEF total, Spare, Clearings, Cleared, BitmapAddr, BitmapEntry,
       BitmapSize
  <2> QED
    BY <2>1, <2>2 DEF FramesInv, Usable
<1> QED
    BY <1>2, <1>3, <1>4, <1>5 DEF Next

THEOREM FramesInvariant == Spec => []FramesInv
BY InitFramesInv, NextFramesInv, PTL DEF Spec

(***************************************************************************)
(* used_frames, counted up and down by every path on its own, is the       *)
(* number of set bits after any sequence of calls.                         *)
(***************************************************************************)
THEOREM AccountsExact == Spec => []UsedExact
<1>1. FramesInv => UsedExact
  <2> SUFFICES ASSUME FramesInv
               PROVE  UsedExact
      OBVIOUS
  <2>1. bits \subseteq 0..(total - 1)
    BY SpareIs DEF FramesInv
  <2>2. bits \cap 0..(total - 1) = bits
    BY <2>1
  <2> QED
    BY <2>1, <2>2 DEF FramesInv, UsedExact
<1> QED
    BY <1>1, FramesInvariant, PTL

(***************************************************************************)
(* The one-pass scan of pmm_alloc_contiguous finds the lowest run of free  *)
(* frames whenever there is one, whatever the bitmap holds.                *)
(***************************************************************************)
THEOREM ScanCorrect == Spec => []ScanFindsLowestRun
<1>1. FramesInv => ScanFindsLowestRun
  <2> SUFFICES ASSUME FramesInv, NEW n \in Counts
               PROVE  Scan(n) = LowestRun(n)
      BY DEF ScanFindsLowestRun
  <2>1. total \in Nat
    BY TotalNat DEF FramesInv
  <2>2. n \in Nat \ {0}
    BY FramesAssumption
  <2> QED
    BY <2>1, <2>2, ScanIsLowestRun
<1> QED
    BY <1>1, FramesInvariant, PTL

-----------------------------------------------------------------------------
(***************************************************************************)
(* What pmm_init leaves spare: whole frames of RAM beside the bitmap.      *)
(***************************************************************************)
LEMMA MulOrder ==
    ASSUME NEW a \in Int, NEW b \in Int
    PROVE  /\ a <= b <=> a * PageSize <= b * PageSize
           /\ (a + 1) * PageSize = a * PageSize + PageSize
           /\ a * PageSize \in Int
<1> USE FramesAssumption
<1>1. (a + 1) * PageSize = a * PageSize + PageSize
    OBVIOUS
<1>2. a <= b => a * PageSize <= b * PageSize
    OBVIOUS
<1>3. b < a => b * PageSize < a * PageSize
    OBVIOUS
<1> QED
    BY <1>1, <1>2, <1>3

LEMMA MulBelow ==
    ASSUME NEW a \in Nat, NEW b \in Nat, a * PageSize < b * PageSize + PageSize
    PROVE  a <= b
<1> SUFFICES ASSUME b + 1 <= a
             PROVE  FALSE
    OBVIOUS
<1>1. (b + 1) * PageSize <= a * PageSize
    BY FramesAssumption
<1> QED
    BY <1>1, MulOrder, FramesAssumption

LEMMA DivMod ==
    ASSUME NEW x \in Nat
    PROVE  /\ x \div PageSize \in Nat /\ x % PageSize \in 0..(PageSize - 1)
           /\ x = (x \div PageSize) * PageSize + (x % PageSize)
BY FramesAssumption

\* A frame that starts in a usable entry ends in it.
LEMMA UsableWhole ==
    ASSUME memmap \in Maps, NEW e \in Usable(memmap), NEW f \in Nat
    PROVE  f * PageSize \in e.base..(e.base + e.length - 1) <=>
           f * PageSize >= e.base /\ (f + 1) * PageSize <= e.base + e.length
<1>1. memmap \in Seq(Area)
    BY FramesAssumption DEF Area
<1>2. PICK i \in DOMAIN memmap : e = memmap[i] /\ memmap[i].usable
    BY DEF Usable
<1>3. e \in Area
    BY <1>1, <1>2
<1>4. e.base \in Nat /\ e.length \in Nat /\ e.base % PageSize = 0 /\ e.length % PageSize = 0
    BY <1>2, <1>3, FramesAssumption DEF Area
<1> DEFINE a == e.base \div PageSize
           l == e.length \div PageSize
<1>5. e.base = a * PageSize /\ e.length = l * PageSize /\ a \in Nat /\ l \in Nat
  <2>1. ASSUME NEW x \in Nat, x % PageSize = 0
        PROVE  x = (x \div PageSize) * PageSize /\ x \div PageSize \in Nat
    <3>1. x = (x \div PageSize) * PageSize + (x % PageSize) /\ x \div PageSize \in Nat
      BY DivMod
    <3>2. (x \div PageSize) * PageSize \in Int
      BY <3>1, MulOrder
    <3> QED
      BY <2>1, <3>1, <3>2
  <2> QED
    BY <1>4, <2>1
<1> HIDE DEF a, l
<1>6. e.base + e.length = (a + l) * PageSize /\ PageSize \in Nat
    BY <1>5, FramesAssumption
<1>7. f * PageSize \in Nat /\ (f + 1) * PageSize = f * PageSize + PageSize
    BY FramesAssumption
<1>8. f * PageSize < (a + l) * PageSize <=> (f + 1) * PageSize <= (a + l) * PageSize
  <2> a + l \in Int /\ f + 1 \in Int
    BY <1>5
  <2>1. (a + l) * PageSize <= f * PageSize <=> a + l <= f
    BY MulOrder
  <2>2. (f + 1) * PageSize <= (a + l) * PageSize <=> f + 1 <= a + l
    BY MulOrder
  <2>3. (a + l) * PageSize \in Int
    BY <1>5, MulOrder
  <2> QED
    BY <1>5, <1>7, <2>1, <2>2, <2>3
<1> QED
    BY <1>4, <1>6, <1>7, <1>8

\* The bitmap starts on a page boundary.
LEMMA BitmapAligned ==
    ASSUME memmap \in Maps, \E e \in Usable(memmap) : e.length >= BitmapSize
    PROVE  BitmapSize \in Nat /\ \E k \in Nat : BitmapAddr = k * PageSize
<1>1. memmap \in Seq(Area) /\ total \in Nat
    BY TotalNat
<1>2. BitmapSize \in Nat
    BY <1>1 DEF BitmapSize, Ceil
<1> DEFINE S == {i \in DOMAIN memmap : memmap[i].usable /\ memmap[i].length >= BitmapSize}
<1>3. S \subseteq Nat /\ S # {}
    BY <1>1 DEF Usable
<1>4. Min(S) \in S
  <2> HIDE DEF S
  <2> QED
    BY <1>3, MinNat
<1>5. Min(S) \in DOMAIN memmap /\ BitmapEntry = memmap[Min(S)] /\ BitmapEntry.length >= BitmapSize
    BY <1>4 DEF BitmapEntry
<1> HIDE DEF S
<1>6. BitmapEntry \in Area
    BY <1>1, <1>5
<1> DEFINE x == BitmapEntry.base + BitmapEntry.length - BitmapSize
<1>7. x \in Nat
    BY <1>2, <1>5, <1>6 DEF Area
<1>8. BitmapAddr = (x \div PageSize) * PageSize
    BY DEF BitmapAddr
<1> HIDE DEF x
<1>9. x \div PageSize \in Nat
    BY <1>7, DivMod
<1> QED
    BY <1>2, <1>8, <1>9

\* A frame starts in the bitmap just when some byte of the bitmap is in it.
LEMMA StorageWhole ==
    ASSUME NEW k \in Nat, BitmapAddr = k * PageSize, BitmapSize \in Nat, NEW f \in Nat
    PROVE  f * PageSize \in BitmapAddr..(BitmapAddr + BitmapSize - 1) <=> f \in Storage
<1>1. k * PageSize \in Nat /\ f * PageSize \in Nat
    BY FramesAssumption
<1>2. ASSUME f * PageSize \in BitmapAddr..(BitmapAddr + BitmapSize - 1)
      PROVE  f \in Storage
  <2>1. (f * PageSize) \div PageSize = f
    BY FramesAssumption
  <2> QED
    BY <1>2, <2>1 DEF Storage
<1>3. ASSUME f \in Storage
      PROVE  f * PageSize \in BitmapAddr..(BitmapAddr + BitmapSize - 1)
  <2>1. PICK b \in BitmapAddr..(BitmapAddr + BitmapSize - 1) : f = b \div PageSize
    BY <1>3 DEF Storage
  <2>2. b \in Nat /\ k * PageSize <= b /\ b <= BitmapAddr + BitmapSize - 1
    BY <2>1, <1>1
  <2>3. b = f * PageSize + (b % PageSize) /\ b % PageSize \in 0..(PageSize - 1)
    BY <2>1, <2>2, DivMod
  <2>4. f * PageSize <= b
    BY <2>3, <1>1, FramesAssumption
  <2>5. k <= f
    BY <1>1, <2>2, <2>3, MulBelow, FramesAssumption
  <2>6. k * PageSize <= f * PageSize
    BY <2>5, MulOrder
  <2> QED
    BY <1>1, <2>2, <2>4, <2>6
<1> QED
    BY <1>2, <1>3

LEMMA SpareIsRAM ==
    ASSUME memmap \in Maps, \E e \in Usable(memmap) : e.length >= BitmapSize
    PROVE  Spare = RAM \ Storage
<1>1. BitmapSize \in Nat /\ \E k \in Nat : BitmapAddr = k * PageSize
    BY BitmapAligned
<1>2. ASSUME NEW f \in 0..(total - 1)
      PROVE  f \in Spare <=> f \in RAM \ Storage
  <2>1. f \in Nat
    OBVIOUS
  <2>2. (\E e \in Usable(memmap) : f * PageSize \in e.base..(e.base + e.length - 1)) <=> f \in RAM
    BY <2>1, UsableWhole DEF RAM
  <2>3. f * PageSize \in BitmapAddr..(BitmapAddr + BitmapSize - 1) <=> f \in Storage
    BY <1>1, <2>1, StorageWhole
  <2> QED
    BY <2>2, <2>3, SpareIs
<1>3. Spare \subseteq 0..(total - 1) /\ RAM \subseteq 0..(total - 1)
    BY SpareIs DEF RAM
<1> QED
    BY <1>2, <1>3

(***************************************************************************)
(* A frame the next search may hand out is RAM, no part of the bitmap, and *)
(* nobody's; and no frame of RAM is lost to the searches except frame 0    *)
(* and the bitmap's, whatever the memory map and the calls so far.         *)
(***************************************************************************)
THEOREM NothingLost == Spec => []FreeIsSpare
<1>1. FramesInv => FreeIsSpare
  <2> SUFFICES ASSUME FramesInv
               PROVE  Free = (RAM \ Storage) \ (owned \cup {0})
      BY DEF FreeIsSpare
  <2>1. Spare = RAM \ Storage
    BY SpareIsRAM DEF FramesInv
  <2>2. total \in Nat
    BY TotalNat DEF FramesInv
  <2>3. Spare \subseteq 0..(total - 1)
    BY SpareIs
  <2>4. ASSUME NEW f \in 0..(total - 1)
        PROVE  f \in Free <=> f \in Spare /\ f \notin owned /\ f # 0
    <3>1. f \in 1..(total - 1) <=> f # 0
      BY <2>2
    <3> QED
      BY <3>1 DEF Free, FramesInv
  <2>5. Free \subseteq 0..(total - 1)
    BY <2>2 DEF Free
  <2> QED
    BY <2>1, <2>3, <2>4, <2>5
<1> QED
    BY <1>1, FramesInvariant, PTL

-----------------------------------------------------------------------------
(***************************************************************************)
(* Descriptors, for any finite number of processes.                        *)
(***************************************************************************)
\* The row of descriptors in which p holds f.
Row(p, f) == {p} \X Slots(p, f)

LEMMA SlotsFinite ==
    ASSUME NEW p, NEW f
    PROVE  IsFiniteSet(Slots(p, f)) /\ Cardinality(Slots(p, f)) \in Nat
<1>1. IsFiniteSet(Fd)
    BY DescriptorsAssumption, FS_Interval DEF Fd
<1>2. Slots(p, f) \in SUBSET Fd
    BY DEF Slots
<1>3. IsFiniteSet(Slots(p, f))
    BY <1>1, <1>2, FS_Subset
<1> QED
    BY <1>3, FS_CardinalityType

LEMMA RowSize ==
    ASSUME NEW p, NEW c, NEW f
    PROVE  /\ IsFiniteSet({c} \X Slots(p, f))
           /\ Cardinality({c} \X Slots(p, f)) = Cardinality(Slots(p, f))
<1>1. IsFiniteSet({c}) /\ Cardinality({c}) = 1
    BY FS_Singleton
<1>2. /\ IsFiniteSet({c} \X Slots(p, f))
      /\ Cardinality({c} \X Slots(p, f)) = Cardinality({c}) * Cardinality(Slots(p, f))
    BY <1>1, SlotsFinite, FS_Product
<1> QED
    BY <1>1, <1>2, SlotsFinite

LEMMA HoldersFinite ==
    ASSUME NEW f
    PROVE  IsFiniteSet(Holders(f)) /\ Cardinality(Holders(f)) \in Nat
<1>1. IsFiniteSet(Fd)
    BY DescriptorsAssumption, FS_Interval DEF Fd
<1>2. IsFiniteSet(Proc \X Fd)
    BY <1>1, DescriptorsAssumption, FS_Product
<1>3. Holders(f) \in SUBSET (Proc \X Fd)
    BY DEF Holders
<1>4. IsFiniteSet(Holders(f))
    BY <1>2, <1>3, FS_Subset
<1> QED
    BY <1>4, FS_CardinalityType

LEMMA DescriptorsInitInv == DescriptorsInit => DescriptorsInv
<1> SUFFICES ASSUME DescriptorsInit PROVE DescriptorsInv
    OBVIOUS
<1> USE DescriptorsAssumption
<1>1. TypeOK
    BY DEF DescriptorsInit, P!Init, TypeOK, Empty
<1>2. \A f \in File : Holders(f) = {}
    BY DEF DescriptorsInit, Holders, Empty
<1>3. RefsExact
    BY <1>2, FS_EmptySet DEF DescriptorsInit, RefsExact
<1>4. OnlyAliveHold
    BY DEF DescriptorsInit, OnlyAliveHold
<1> QED
    BY <1>1, <1>3, <1>4 DEF DescriptorsInv

LEMMA OpenStep ==
    ASSUME DescriptorsInv, NEW p \in Proc, NEW f \in File, NEW i \in Inode, Open(p, f, i)
    PROVE  DescriptorsInv'
<1> USE DescriptorsAssumption DEF DescriptorsInv
<1>1. PICK fd \in Fd : fdTable[p][fd] = NoFile /\ fdTable' = [fdTable EXCEPT ![p][fd] = f]
    BY DEF Open, LowestFree, FreeFds
<1>2. /\ life[p] = "alive" /\ Holders(f) = {}
      /\ refCount' = [refCount EXCEPT ![f] = 1]
      /\ inode' = [inode EXCEPT ![f] = i]
      /\ allocated' = allocated \cup {f}
      /\ UNCHANGED life
    BY DEF Open, P!Active, RefsExact, processes
<1>3. TypeOK'
    BY <1>1, <1>2 DEF TypeOK
<1>4. Holders(f)' = {<<p, fd>>}
    BY <1>1, <1>2 DEF Holders, TypeOK
<1>5. Cardinality(Holders(f)') = 1
    BY <1>4, FS_Singleton
<1>6. \A g \in File \ {f} : Holders(g)' = Holders(g)
    BY <1>1 DEF Holders, TypeOK
<1>7. RefsExact'
    BY <1>2, <1>4, <1>5, <1>6 DEF RefsExact, TypeOK
<1>8. OnlyAliveHold'
    BY <1>1, <1>2 DEF OnlyAliveHold, TypeOK
<1> QED
    BY <1>3, <1>7, <1>8

LEMMA CloseStep ==
    ASSUME DescriptorsInv, NEW p \in Proc, NEW fd \in Fd, Close(p, fd)
    PROVE  DescriptorsInv'
<1> USE DescriptorsAssumption DEF DescriptorsInv
<1>1. PICK f \in File : f = fdTable[p][fd]
    BY DEF Close, TypeOK
<1>2. /\ life[p] = "alive"
      /\ fdTable' = [fdTable EXCEPT ![p][fd] = NoFile]
      /\ refCount' = [refCount EXCEPT ![f] = @ - 1]
      /\ allocated' = IF refCount[f] = 1 THEN allocated \ {f} ELSE allocated
      /\ UNCHANGED <<inode, life>>
    BY <1>1 DEF Close, P!Active, processes
<1>3. <<p, fd>> \in Holders(f)
    BY <1>1 DEF Holders
<1>4. Holders(f)' = Holders(f) \ {<<p, fd>>}
    BY <1>1, <1>2 DEF Holders, TypeOK
<1>5. \A g \in File \ {f} : Holders(g)' = Holders(g)
    BY <1>1, <1>2 DEF Holders, TypeOK
<1>6. /\ IsFiniteSet(Holders(f)) /\ IsFiniteSet(Holders(f)')
      /\ Cardinality(Holders(f)') = Cardinality(Holders(f)) - 1
      /\ Cardinality(Holders(f)) \in Nat
  <2>1. IsFiniteSet(Holders(f)) /\ Cardinality(Holders(f)) \in Nat
    BY HoldersFinite
  <2>2. /\ IsFiniteSet(Holders(f) \ {<<p, fd>>})
        /\ Cardinality(Holders(f) \ {<<p, fd>>}) = Cardinality(Holders(f)) - 1
    BY <1>3, <2>1, FS_RemoveElement
  <2> QED
    BY <1>4, <2>1, <2>2
<1>7. /\ Cardinality(Holders(f)') \in Nat
      /\ Cardinality(Holders(f)') = 0 <=> Holders(f)' = {}
    BY <1>6, FS_CardinalityType, FS_EmptySet
<1>8. refCount[f] = Cardinality(Holders(f)) /\ (f \in allocated <=> Holders(f) # {})
    BY DEF RefsExact
<1>9. TypeOK'
    BY <1>2, <1>6, <1>7, <1>8 DEF TypeOK
<1>10. RefsExact'
  <2> SUFFICES ASSUME NEW g \in File
               PROVE  /\ refCount'[g] = Cardinality(Holders(g)')
                      /\ g \in allocated' <=> Holders(g)' # {}
      BY DEF RefsExact
  <2>1. CASE g = f
      BY <1>2, <1>3, <1>6, <1>7, <1>8, <2>1 DEF TypeOK
  <2>2. CASE g # f
      BY <1>2, <1>5, <2>2 DEF RefsExact, TypeOK
  <2> QED
      BY <2>1, <2>2
<1>11. OnlyAliveHold'
    BY <1>2 DEF OnlyAliveHold, TypeOK
<1> QED
    BY <1>9, <1>10, <1>11

\* Closing everything of p, when it dies and again when it is reaped.
LEMMA CloseAllStep ==
    ASSUME DescriptorsInv, NEW p \in Proc, CloseAll(p),
           life' \in [Proc -> {"none", "alive", "dead"}],
           \A q \in Proc \ {p} : life'[q] = life[q]
    PROVE  DescriptorsInv'
<1> USE DescriptorsAssumption DEF DescriptorsInv
<1>1. /\ fdTable' = [fdTable EXCEPT ![p] = Empty]
      /\ refCount' = [f \in File |-> refCount[f] - Cardinality(Slots(p, f))]
      /\ allocated' = allocated \ {f \in File : refCount[f] \in 1..Cardinality(Slots(p, f))}
      /\ UNCHANGED inode
    BY DEF CloseAll
<1>2. \A f \in File : Holders(f)' = Holders(f) \ Row(p, f)
    BY <1>1 DEF Holders, Row, Slots, Empty, TypeOK
<1>3. \A f \in File : Row(p, f) \subseteq Holders(f)
    BY DEF Holders, Row, Slots
<1>4. ASSUME NEW f \in File
      PROVE  /\ Cardinality(Holders(f)') = Cardinality(Holders(f)) - Cardinality(Slots(p, f))
             /\ Cardinality(Holders(f)') \in Nat
             /\ Cardinality(Holders(f)') = 0 <=> Holders(f)' = {}
             /\ Cardinality(Holders(f)) \in Nat /\ Cardinality(Slots(p, f)) \in Nat
             /\ Cardinality(Holders(f)) = 0 <=> Holders(f) = {}
  <2>1. IsFiniteSet(Holders(f)) /\ Cardinality(Holders(f)) \in Nat
      BY HoldersFinite
  <2>2. Holders(f) \cap Row(p, f) = Row(p, f)
      BY <1>3
  <2>3. Cardinality(Row(p, f)) = Cardinality(Slots(p, f))
      BY RowSize DEF Row
  <2>4. /\ IsFiniteSet(Holders(f) \ Row(p, f))
        /\ Cardinality(Holders(f) \ Row(p, f))
              = Cardinality(Holders(f)) - Cardinality(Holders(f) \cap Row(p, f))
      BY <2>1, FS_Difference
  <2>5. /\ IsFiniteSet(Holders(f)')
        /\ Cardinality(Holders(f)') = Cardinality(Holders(f)) - Cardinality(Slots(p, f))
      BY <1>2, <2>2, <2>3, <2>4
  <2> QED
      BY <2>1, <2>5, SlotsFinite, FS_CardinalityType, FS_EmptySet
<1>5. RefsExact'
  <2> SUFFICES ASSUME NEW f \in File
               PROVE  /\ refCount'[f] = Cardinality(Holders(f)')
                      /\ f \in allocated' <=> Holders(f)' # {}
      BY DEF RefsExact
  <2>1. refCount[f] = Cardinality(Holders(f)) /\ (f \in allocated <=> Holders(f) # {})
      BY DEF RefsExact
  <2> QED
      BY <1>1, <1>4, <2>1
<1>6. TypeOK'
  <2>1. \A f \in File : refCount'[f] \in Nat
      BY <1>4, <1>5 DEF RefsExact
  <2> QED
      BY <1>1, <2>1 DEF TypeOK, Empty
<1>7. OnlyAliveHold'
    BY <1>1 DEF OnlyAliveHold, TypeOK
<1> QED
    BY <1>5, <1>6, <1>7

\* A new task c with the descriptors of p.
LEMMA InheritStep ==
    ASSUME DescriptorsInv, NEW p \in Proc, NEW c \in Proc, P!Create(p, c), Inherit(p, c)
    PROVE  DescriptorsInv'
<1> USE DescriptorsAssumption DEF DescriptorsInv
<1>1. /\ fdTable' = [fdTable EXCEPT ![c] = fdTable[p]]
      /\ refCount' = [f \in File |-> refCount[f] + Cardinality(Slots(p, f))]
      /\ UNCHANGED <<inode, allocated>>
      /\ life[p] = "alive" /\ life[c] = "none" /\ life' = [life EXCEPT ![c] = "alive"]
    BY DEF Inherit, P!Create, P!Active
<1>2. fdTable[c] = Empty
    BY <1>1 DEF OnlyAliveHold
<1>3. \A f \in File : /\ Holders(f)' = Holders(f) \cup ({c} \X Slots(p, f))
                      /\ Holders(f) \cap ({c} \X Slots(p, f)) = {}
  <2> TAKE f \in File
  <2>1. ASSUME NEW s \in Proc \X Fd
        PROVE  fdTable'[s[1]][s[2]] = f
                 <=> fdTable[s[1]][s[2]] = f \/ (s[1] = c /\ fdTable[p][s[2]] = f)
      BY <1>1, <1>2 DEF TypeOK, Empty
  <2>2. \A s \in Holders(f) : s[1] # c
      BY <1>2 DEF Holders, Empty
  <2> QED
      BY <2>1, <2>2 DEF Holders, Slots
<1>4. ASSUME NEW f \in File
      PROVE  /\ Cardinality(Holders(f)') = Cardinality(Holders(f)) + Cardinality(Slots(p, f))
             /\ Cardinality(Holders(f)) \in Nat /\ Cardinality(Slots(p, f)) \in Nat
             /\ Holders(f)' = {} <=> Holders(f) = {}
  <2>1. IsFiniteSet(Holders(f)) /\ Cardinality(Holders(f)) \in Nat
      BY HoldersFinite
  <2>2. Cardinality(Holders(f) \cup ({c} \X Slots(p, f)))
          = Cardinality(Holders(f)) + Cardinality({c} \X Slots(p, f))
              - Cardinality(Holders(f) \cap ({c} \X Slots(p, f)))
      BY <2>1, RowSize, FS_Union
  <2>3. Cardinality(Holders(f) \cap ({c} \X Slots(p, f))) = 0
      BY <1>3, FS_EmptySet
  <2>4. Holders(f)' = {} <=> Holders(f) = {}
    <3>1. ASSUME NEW fd \in Slots(p, f) PROVE <<p, fd>> \in Holders(f)
        BY DEF Slots, Holders
    <3>2. Holders(f) = {} => Slots(p, f) = {}
        BY <3>1
    <3> QED
        BY <1>3, <3>2
  <2>5. /\ Cardinality({c} \X Slots(p, f)) = Cardinality(Slots(p, f))
        /\ Cardinality(Slots(p, f)) \in Nat
      BY RowSize, SlotsFinite
  <2>6. Cardinality(Holders(f)')
          = Cardinality(Holders(f)) + Cardinality({c} \X Slots(p, f)) - 0
      BY <1>3, <2>2, <2>3
  <2> QED
      BY <2>1, <2>4, <2>5, <2>6
<1>5. RefsExact'
    BY <1>1, <1>4 DEF RefsExact
<1>6. TypeOK'
    BY <1>1, <1>4 DEF TypeOK
<1>7. OnlyAliveHold'
    BY <1>1 DEF OnlyAliveHold, TypeOK
<1> QED
    BY <1>5, <1>6, <1>7

LEMMA QuietStep ==
    ASSUME DescriptorsInv, UNCHANGED <<life, fdTable, refCount, inode, allocated>>
    PROVE  DescriptorsInv'
    BY DEF DescriptorsInv, TypeOK, RefsExact, OnlyAliveHold, Holders

LEMMA DescriptorsStepInv == DescriptorsInv /\ [DescriptorsNext]_descriptorsVars => DescriptorsInv'
<1> SUFFICES ASSUME DescriptorsInv, [DescriptorsNext]_descriptorsVars PROVE DescriptorsInv'
    OBVIOUS
<1>0. TypeOK
    BY DEF DescriptorsInv
<1>1. CASE \E p \in Proc, f \in File, i \in Inode : Open(p, f, i)
    BY <1>1, OpenStep
<1>2. CASE \E p \in Proc, fd \in Fd : Close(p, fd)
    BY <1>2, CloseStep
<1>3. ASSUME NEW p \in Proc, NEW c \in Proc, Fork(p, c) \/ Spawn(p, c) PROVE DescriptorsInv'
    BY <1>3, InheritStep DEF Fork, Spawn
<1>4. ASSUME NEW p \in Proc, NEW c \in Proc, Collect(p, c) PROVE DescriptorsInv'
  <2>1. life' = [life EXCEPT ![c] = "none"] /\ CloseAll(c)
    BY <1>4 DEF Collect, P!Collect
  <2>2. /\ life' \in [Proc -> {"none", "alive", "dead"}]
        /\ \A q \in Proc \ {c} : life'[q] = life[q]
    BY <1>0, <2>1 DEF TypeOK
  <2> QED
    BY <2>1, <2>2, CloseAllStep
<1>5. ASSUME NEW p \in Proc, NEW c \in Proc, Wait(p, c) PROVE DescriptorsInv'
    BY <1>5, QuietStep DEF Wait, P!BeginWait, files
<1>6. ASSUME NEW p \in Proc, Die(p) \/ Sweep(p) PROVE DescriptorsInv'
  <2>1. PICK l \in {"none", "dead"} : life' = [life EXCEPT ![p] = l]
    BY <1>6 DEF Die, P!Die, Sweep, P!Sweep
  <2>2. /\ CloseAll(p)
        /\ life' \in [Proc -> {"none", "alive", "dead"}]
        /\ \A q \in Proc \ {p} : life'[q] = life[q]
    BY <1>0, <1>6, <2>1 DEF TypeOK, Die, Sweep
  <2> QED
    BY <2>2, CloseAllStep
<1>7. ASSUME NEW p \in Proc, Interrupt(p) PROVE DescriptorsInv'
    BY <1>7, QuietStep DEF Interrupt, P!Interrupt, files
<1>8. CASE UNCHANGED descriptorsVars
    BY <1>8, QuietStep DEF descriptorsVars, processes, files
<1> QED
    BY <1>1, <1>2, <1>3, <1>4, <1>5, <1>6, <1>7, <1>8 DEF DescriptorsNext

\* The invariant, for any finite number of tasks, any number of files and
\* any length of the descriptor tables.
THEOREM DescriptorsInvariant == DescriptorsSpec => []DescriptorsInv
<1> QED
    BY DescriptorsInitInv, DescriptorsStepInv, PTL DEF DescriptorsSpec

\* ref_count counts the slots that hold the file, and a file is freed exactly
\* when the last of them goes: no use after kfree, no second kfree, no leak.
THEOREM RefsSound == DescriptorsSpec => []RefsExact
<1>1. DescriptorsInv => RefsExact
    BY DEF DescriptorsInv
<1> QED
    BY <1>1, DescriptorsInvariant, PTL

\* Dead tasks hold no open file, so that task_release has nothing to close.
THEOREM DeadHoldNothing == DescriptorsSpec => []OnlyAliveHold
<1>1. DescriptorsInv => OnlyAliveHold
    BY DEF DescriptorsInv
<1> QED
    BY <1>1, DescriptorsInvariant, PTL

\* A descriptor that is not closed keeps naming the same file.
THEOREM StableDescriptors == DescriptorsSpec => DescriptorStable
<1> DEFINE Same(p, fd) ==
        fdTable[p][fd] # NoFile /\ fdTable'[p][fd] = fdTable[p][fd]
           => /\ inode'[fdTable[p][fd]] = inode[fdTable[p][fd]]
              /\ fdTable[p][fd] \in allocated'
<1>1. ASSUME DescriptorsInv, [DescriptorsNext]_descriptorsVars, NEW p \in Proc, NEW fd \in Fd,
             fdTable[p][fd] # NoFile, fdTable'[p][fd] = fdTable[p][fd]
      PROVE  /\ inode'[fdTable[p][fd]] = inode[fdTable[p][fd]]
             /\ fdTable[p][fd] \in allocated'
  <2>0. DescriptorsInv' /\ TypeOK
    BY <1>1, DescriptorsStepInv DEF DescriptorsInv
  <2>1. PICK f \in File : f = fdTable[p][fd]
    BY <1>1, <2>0 DEF TypeOK
  <2>2. <<p, fd>> \in Holders(f) /\ <<p, fd>> \in Holders(f)'
    BY <1>1, <2>1 DEF Holders
  <2>3. f \in allocated /\ f \in allocated'
    BY <1>1, <2>0, <2>2 DEF DescriptorsInv, RefsExact
  <2>4. inode'[f] = inode[f]
    <3>1. CASE \E q \in Proc, g \in File, i \in Inode : Open(q, g, i)
      BY <2>0, <2>3, <3>1 DEF Open, TypeOK
    <3>2. CASE ~ \E q \in Proc, g \in File, i \in Inode : Open(q, g, i)
      BY <1>1, <3>2 DEF DescriptorsNext, Close, Fork, Spawn, Inherit, Collect, Wait, Die, Sweep,
                        Interrupt, CloseAll, descriptorsVars, files
    <3> QED
      BY <3>1, <3>2
  <2> QED
    BY <2>1, <2>3, <2>4
<1>2. DescriptorsInv /\ [DescriptorsNext]_descriptorsVars
        => [\A p \in Proc, fd \in Fd : Same(p, fd)]_descriptorsVars
    BY <1>1
<1> QED
    BY <1>2, DescriptorsInvariant, PTL DEF DescriptorsSpec, DescriptorStable
=============================================================================
