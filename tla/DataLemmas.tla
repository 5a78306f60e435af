----------------------------- MODULE DataLemmas -----------------------------
(* Facts about numbers, division, recursion and lists of blocks that the     *)
(* proofs of the other modules share.                                        *)
EXTENDS Integers, Sequences, SequencesExt, FiniteSetsExt, SequenceTheorems,
        WellFoundedInduction, TLAPS

(***************************************************************************)
(* Induction, as the existence of a least counterexample.                  *)
(***************************************************************************)
LEMMA LeastNat ==
    ASSUME NEW S, S \subseteq Nat, S # {}
    PROVE  \E n \in S : \A m \in S : n <= m
<1> DEFINE R == {p \in Nat \X Nat : p[1] < p[2]}
<1>1. IsWellFoundedOn(R, Nat)
  <2>1. IsWellFoundedOn(OpToRel(<, Nat), Nat)
    BY NatLessThanWellFounded
  <2>2. OpToRel(<, Nat) = R
    BY DEF OpToRel
  <2> QED
    BY <2>1, <2>2
<1>2. PICK n \in S : \A m \in S : <<m, n>> \notin R
  <2> HIDE DEF R
  <2> QED
    BY <1>1, WFMin
<1>3. ASSUME NEW m \in S
      PROVE  n <= m
  <2>1. m \in Nat /\ n \in Nat
    OBVIOUS
  <2>2. <<m, n>> \notin R
    BY <1>2
  <2>3. ~(m < n)
    BY <2>1, <2>2
  <2> QED
    BY <2>1, <2>3
<1> QED
    BY <1>3

LEMMA MinNat ==
    ASSUME NEW S, S \subseteq Nat, S # {}
    PROVE  Min(S) \in S /\ \A m \in S : Min(S) <= m
BY LeastNat DEF Min

\* A set that holds 0 and goes on from each number below n holds n.
LEMMA CountUp ==
    ASSUME NEW n \in Nat, NEW S, 0 \in S, \A k \in 1..n : k - 1 \in S => k \in S
    PROVE  n \in S
<1> DEFINE Bad == {k \in 0..n : k \notin S}
<1>1. Bad = {}
  <2> SUFFICES ASSUME Bad # {}
               PROVE  FALSE
      OBVIOUS
  <2>1. PICK k \in Bad : \A j \in Bad : k <= j
    <3>1. Bad \subseteq Nat
      OBVIOUS
    <3> HIDE DEF Bad
    <3> QED
      BY <3>1, LeastNat
  <2>2. k \in 1..n /\ k \notin S
    OBVIOUS
  <2>3. k - 1 \notin Bad
    <3>1. k - 1 < k
      BY <2>2
    <3> HIDE DEF Bad
    <3> QED
      BY <2>1, <2>2, <3>1
  <2>4. k - 1 \in S
    BY <2>2, <2>3
  <2> QED
    BY <2>2, <2>4
<1> QED
    BY <1>1

-----------------------------------------------------------------------------
(***************************************************************************)
(* A loop over a sequence computes something: for every step there is a    *)
(* function from the number of turns to the state of the loop.             *)
(***************************************************************************)
Loops(step, d, s, n, f) ==
    f[0] = d /\ \A i \in 1..n : f[i] = step[<<f[i - 1], s[i]>>]

LEMMA LoopExists ==
    ASSUME NEW D, NEW B, NEW step \in [D \X B -> D], NEW d \in D,
           NEW n \in Nat, NEW s \in [1..n -> B]
    PROVE  \E f \in [0..n -> D] : Loops(step, d, s, n, f)
<1> DEFINE Loop(k, f) == /\ f[0] = d
                         /\ \A i \in 1..k : f[i] = step[<<f[i - 1], s[i]>>]
           S == {k \in 0..n : \E f \in [0..k -> D] : Loop(k, f)}
<1>1. 0 \in S
  <2> DEFINE g == [i \in 0..0 |-> d]
  <2>1. g \in [0..0 -> D] /\ g[0] = d
    OBVIOUS
  <2> HIDE DEF g
  <2>2. Loop(0, g)
    BY <2>1
  <2> QED
    BY <2>1, <2>2
<1>2. ASSUME NEW k \in 1..n, k - 1 \in S
      PROVE  k \in S
  <2>1. PICK f \in [0..(k - 1) -> D] : Loop(k - 1, f)
    BY <1>2
  <2> DEFINE g == [i \in 0..k |-> IF i = k THEN step[<<f[k - 1], s[k]>>] ELSE f[i]]
  <2>2. f[k - 1] \in D /\ s[k] \in B
    OBVIOUS
  <2>3. g \in [0..k -> D]
    BY <2>2
  <2>4. \A i \in 0..(k - 1) : g[i] = f[i]
    OBVIOUS
  <2>5. g[k] = step[<<g[k - 1], s[k]>>]
    <3>1. k \in 0..k /\ k - 1 \in 0..(k - 1)
      OBVIOUS
    <3>2. g[k] = step[<<f[k - 1], s[k]>>]
      BY <3>1
    <3> HIDE DEF g
    <3> QED
      BY <3>1, <3>2, <2>4
  <2>6. ASSUME NEW i \in 1..k
        PROVE  g[i] = step[<<g[i - 1], s[i]>>]
    <3>1. CASE i = k
      BY <3>1, <2>5
    <3>2. CASE i # k
      <4>1. i \in 1..(k - 1) /\ i \in 0..(k - 1) /\ i - 1 \in 0..(k - 1)
        BY <3>2
      <4> QED
        BY <4>1, <2>1, <2>4
    <3> QED
      BY <3>1, <3>2
  <2> HIDE DEF g
  <2>7. g[0] = d
    <3>1. 0 \in 0..(k - 1)
      OBVIOUS
    <3> QED
      BY <3>1, <2>1, <2>4
  <2>8. Loop(k, g)
    BY <2>6, <2>7
  <2> QED
    BY <2>3, <2>8
<1> HIDE DEF S
<1>3. n \in S
    BY <1>1, <1>2, CountUp
<1> QED
    BY <1>3 DEF S, Loops

-----------------------------------------------------------------------------
(***************************************************************************)
(* Lists of blocks with headers of h bytes.                                *)
(***************************************************************************)
Piece == [at : Nat, size : Nat, free : BOOLEAN]

End(h, b) == b.at + h + b.size

\* Every block ends where the next one starts.
Tiled(h, s) ==
    /\ s \in Seq(Piece) /\ s # <<>>
    /\ \A i \in 1..(Len(s) - 1) : End(h, s[i]) = s[i + 1].at

NoPair(s) == \A i \in 1..(Len(s) - 1) : ~(s[i].free /\ s[i + 1].free)

InUse(s) == {s[i] : i \in {j \in DOMAIN s : ~s[j].free}}

LEMMA TiledType ==
    ASSUME NEW h \in Nat, NEW s, Tiled(h, s)
    PROVE  /\ Len(s) \in Nat \ {0} /\ DOMAIN s = 1..Len(s)
           /\ s[1] \in Piece /\ Last(s) \in Piece /\ Last(s) = s[Len(s)]
           /\ \A i \in 1..Len(s) : s[i] \in Piece /\ End(h, s[i]) \in Nat
           /\ InUse(s) \subseteq Piece
<1>1. Len(s) \in Nat \ {0} /\ DOMAIN s = 1..Len(s)
    BY EmptySeq, LenProperties DEF Tiled
<1>2. \A i \in 1..Len(s) : s[i] \in Piece
    BY ElementOfSeq DEF Tiled
<1>3. \A i \in 1..Len(s) : End(h, s[i]) \in Nat
    BY <1>2 DEF Piece, End
<1> QED
    BY <1>1, <1>2, <1>3 DEF Last, InUse

\* The blocks are in the order of their addresses.
LEMMA TiledOrder ==
    ASSUME NEW h \in Nat, NEW s, Tiled(h, s), NEW i \in 1..Len(s), NEW j \in 1..Len(s), i < j
    PROVE  End(h, s[i]) <= s[j].at
<1> DEFINE S == {k \in Nat : i + 1 + k <= Len(s) => End(h, s[i]) <= s[i + 1 + k].at}
<1>1. Len(s) \in Nat /\ \A k \in 1..Len(s) : s[k] \in Piece /\ End(h, s[k]) \in Nat
    BY TiledType
<1>2. 0 \in S
  <2>1. i \in 1..(Len(s) - 1) /\ i + 1 + 0 = i + 1 /\ i + 1 \in 1..Len(s)
    BY <1>1
  <2>2. End(h, s[i]) = s[i + 1].at
    BY <2>1 DEF Tiled
  <2>3. s[i + 1].at <= s[i + 1].at
    BY <1>1, <2>1 DEF Piece
  <2>4. End(h, s[i]) <= s[i + 1 + 0].at
    BY <2>1, <2>2, <2>3
  <2> QED
    BY <2>4
<1>3. ASSUME NEW k \in Nat \ {0}, k - 1 \in S
      PROVE  k \in S
  <2> DEFINE n == i + k
  <2>1. k \in Nat /\ i + 1 + k = n + 1 /\ i + 1 + (k - 1) = n
    OBVIOUS
  <2>2. SUFFICES ASSUME n + 1 <= Len(s)
                 PROVE  End(h, s[i]) <= s[n + 1].at
    BY <2>1
  <2>3. n \in 1..(Len(s) - 1) /\ n \in 1..Len(s) /\ n + 1 \in 1..Len(s)
    BY <1>1, <2>2
  <2>4. End(h, s[i]) <= s[n].at
    BY <1>3, <2>1, <2>3
  <2> HIDE DEF S, n
  <2>5. End(h, s[n]) = s[n + 1].at
    BY <2>3 DEF Tiled
  <2>6. s[n] \in Piece /\ s[n + 1] \in Piece /\ End(h, s[i]) \in Nat
    BY <1>1, <2>3
  <2>7. s[n].at <= End(h, s[n])
    BY <2>6 DEF Piece, End
  <2>8. s[n].at \in Nat /\ s[n + 1].at \in Nat
    BY <2>6 DEF Piece
  <2> QED
    BY <2>4, <2>5, <2>6, <2>7, <2>8
<1>4. j - i - 1 \in Nat /\ i + 1 + (j - i - 1) = j
    OBVIOUS
<1> HIDE DEF S
<1>5. j - i - 1 \in S
    BY <1>2, <1>3, <1>4, CountUp
<1> QED
    BY <1>4, <1>5 DEF S

\* Two blocks are apart, and have different addresses.
LEMMA TiledApart ==
    ASSUME NEW h \in Nat \ {0}, NEW s, Tiled(h, s),
           NEW i \in 1..Len(s), NEW j \in 1..Len(s), i # j
    PROVE  (End(h, s[i]) <= s[j].at \/ End(h, s[j]) <= s[i].at) /\ s[i].at # s[j].at
<1>1. i < j \/ j < i
    BY TiledType
<1>2. End(h, s[i]) <= s[j].at \/ End(h, s[j]) <= s[i].at
    BY <1>1, TiledOrder
<1>3. s[i] \in Piece /\ s[j] \in Piece
    BY TiledType
<1> QED
    BY <1>2, <1>3 DEF Piece, End

LEMMA InUseApart ==
    ASSUME NEW h \in Nat \ {0}, NEW s, Tiled(h, s),
           NEW b \in InUse(s), NEW c \in InUse(s), b # c
    PROVE  (End(h, b) <= c.at \/ End(h, c) <= b.at) /\ b.at # c.at
<1>1. PICK i \in 1..Len(s), j \in 1..Len(s) : b = s[i] /\ c = s[j]
    BY TiledType DEF InUse
<1> QED
    BY <1>1, TiledApart

\* The blocks lie between the first and the last.
LEMMA TiledInside ==
    ASSUME NEW h \in Nat, NEW s, Tiled(h, s), NEW b \in InUse(s)
    PROVE  s[1].at <= b.at /\ End(h, b) <= End(h, Last(s))
<1>1. PICK i \in 1..Len(s) : b = s[i]
    BY TiledType DEF InUse
<1>2. Len(s) \in Nat \ {0} /\ s[1] \in Piece /\ s[i] \in Piece /\ Last(s) \in Piece /\ Last(s) = s[Len(s)]
    BY <1>1, TiledType
<1>3. s[1].at <= s[i].at
  <2>1. CASE i = 1
    BY <2>1, <1>2 DEF Piece
  <2>2. CASE i # 1
    <3>1. End(h, s[1]) <= s[i].at
      BY <2>2, <1>2, TiledOrder
    <3> QED
      BY <3>1, <1>2 DEF Piece, End
  <2> QED
    BY <2>1, <2>2
<1>4. End(h, s[i]) <= End(h, Last(s))
  <2>1. CASE i = Len(s)
    BY <2>1, <1>2 DEF Piece, End
  <2>2. CASE i # Len(s)
    <3>1. End(h, s[i]) <= Last(s).at
      BY <2>2, <1>2, TiledOrder
    <3> QED
      BY <3>1, <1>2 DEF Piece, End
  <2> QED
    BY <2>1, <2>2
<1> QED
    BY <1>1, <1>3, <1>4

-----------------------------------------------------------------------------
(***************************************************************************)
(* Merging: one turn of the loop, and all of them.                         *)
(***************************************************************************)
Joined(h, done, b) ==
    IF Last(done).free /\ b.free
    THEN Append(Front(done),
                [at |-> Last(done).at, size |-> Last(done).size + h + b.size, free |-> TRUE])
    ELSE Append(done, b)

\* r is the list s and behind it the block b.
Grown(h, s, b, r) ==
    /\ Tiled(h, r) /\ NoPair(r)
    /\ r[1].at = s[1].at /\ End(h, Last(r)) = End(h, b)
    /\ InUse(r) = InUse(s) \cup (IF b.free THEN {} ELSE {b})

LEMMA AppendTiled ==
    ASSUME NEW h \in Nat, NEW s, Tiled(h, s), NoPair(s), NEW b \in Piece,
           b.at = End(h, Last(s)), ~(Last(s).free /\ b.free), NEW r, r = Append(s, b)
    PROVE  Grown(h, s, b, r)
<1> DEFINE n == Len(s)
<1>1. n \in Nat \ {0} /\ Last(s) = s[n] /\ s \in Seq(Piece)
    BY TiledType DEF Tiled
<1>2. /\ r \in Seq(Piece) /\ r # <<>> /\ Len(r) = n + 1
      /\ \A i \in 1..n : r[i] = s[i]
      /\ r[n + 1] = b
    BY <1>1, AppendProperties
<1> HIDE DEF n
<1>3. ASSUME NEW i \in 1..(Len(r) - 1)
      PROVE  End(h, r[i]) = r[i + 1].at
  <2>1. CASE i = n
    BY <2>1, <1>1, <1>2
  <2>2. CASE i # n
    <3>1. i \in 1..(n - 1) /\ i \in 1..n /\ i + 1 \in 1..n
      BY <2>2, <1>1, <1>2
    <3>2. End(h, s[i]) = s[i + 1].at
      BY <3>1 DEF Tiled, n
    <3> QED
      BY <3>1, <3>2, <1>2
  <2> QED
    BY <2>1, <2>2
<1>4. ASSUME NEW i \in 1..(Len(r) - 1)
      PROVE  ~(r[i].free /\ r[i + 1].free)
  <2>1. CASE i = n
    BY <2>1, <1>1, <1>2
  <2>2. CASE i # n
    <3>1. i \in 1..(n - 1) /\ i \in 1..n /\ i + 1 \in 1..n
      BY <2>2, <1>1, <1>2
    <3>2. ~(s[i].free /\ s[i + 1].free)
      BY <3>1 DEF NoPair, n
    <3> QED
      BY <3>1, <3>2, <1>2
  <2> QED
    BY <2>1, <2>2
<1>5. InUse(r) = InUse(s) \cup (IF b.free THEN {} ELSE {b})
  <2>1. DOMAIN r = 1..(n + 1) /\ DOMAIN s = 1..n
    BY <1>1, <1>2 DEF n
  <2>2. ASSUME NEW x \in InUse(r)
        PROVE  x \in InUse(s) \cup (IF b.free THEN {} ELSE {b})
    <3>1. PICK i \in 1..(n + 1) : x = r[i] /\ ~r[i].free
      BY <2>1 DEF InUse
    <3>2. CASE i = n + 1
      BY <3>1, <3>2, <1>2
    <3>3. CASE i # n + 1
      <4>1. i \in 1..n
        BY <3>3, <1>1
      <4> QED
        BY <4>1, <3>1, <1>2, <2>1 DEF InUse
    <3> QED
      BY <3>2, <3>3
  <2>3. ASSUME NEW x \in InUse(s)
        PROVE  x \in InUse(r)
    <3>1. PICK i \in 1..n : x = s[i] /\ ~s[i].free
      BY <2>1 DEF InUse
    <3>2. i \in 1..(n + 1) /\ r[i] = s[i]
      BY <1>1, <1>2
    <3> QED
      BY <3>1, <3>2, <2>1 DEF InUse
  <2>4. ASSUME ~b.free
        PROVE  b \in InUse(r)
    <3>1. n + 1 \in 1..(n + 1)
      BY <1>1
    <3> QED
      BY <3>1, <2>1, <2>4, <1>2 DEF InUse
  <2> QED
    BY <2>2, <2>3, <2>4
<1>6. r[1] = s[1] /\ Last(r) = b
  <2>1. 1 \in 1..n
    BY <1>1
  <2> QED
    BY <2>1, <1>2 DEF Last
<1> QED
    BY <1>2, <1>3, <1>4, <1>5, <1>6 DEF Tiled, NoPair, Grown

LEMMA JoinTiled ==
    ASSUME NEW h \in Nat, NEW s, Tiled(h, s), NoPair(s), NEW b \in Piece,
           b.at = End(h, Last(s)), NEW r, r = Joined(h, s, b)
    PROVE  Grown(h, s, b, r)
<1>1. CASE ~(Last(s).free /\ b.free)
  <2>1. r = Append(s, b)
    BY <1>1 DEF Joined
  <2> QED
    BY <1>1, <2>1, AppendTiled
<1>2. CASE Last(s).free /\ b.free
  <2> DEFINE n == Len(s)
             c == [at |-> Last(s).at, size |-> Last(s).size + h + b.size, free |-> TRUE]
  <2>1. /\ n \in Nat \ {0} /\ Last(s) = s[n] /\ s \in Seq(Piece) /\ DOMAIN s = 1..n
        /\ s[n] \in Piece /\ \A i \in 1..n : s[i] \in Piece
    BY TiledType DEF Tiled
  <2>2. c \in Piece /\ c.at = s[n].at /\ End(h, c) = End(h, b) /\ c.free = TRUE
    <3>1. /\ s[n].at \in Nat /\ s[n].size \in Nat /\ b.at \in Nat /\ b.size \in Nat
          /\ b.at = s[n].at + h + s[n].size
      BY <2>1 DEF Piece, End
    <3>2. c.at = s[n].at /\ c.size = s[n].size + h + b.size /\ c.free = TRUE
      BY <2>1
    <3>3. c \in Piece
      BY <2>1, <3>1 DEF Piece
    <3> HIDE DEF c, n
    <3>4. End(h, c) = End(h, b)
      BY <3>1, <3>2 DEF End
    <3> QED
      BY <3>2, <3>3, <3>4
  <2>3. /\ Front(s) \in Seq(Piece) /\ Len(Front(s)) = n - 1
        /\ \A i \in 1..(n - 1) : Front(s)[i] = s[i]
    <3>1. \A i \in 1..(n - 1) : s[i] \in Piece
      BY <2>1
    <3>2. /\ SubSeq(s, 1, n - 1) \in Seq(Piece)
          /\ Len(SubSeq(s, 1, n - 1)) = IF 1 <= n - 1 THEN (n - 1) - 1 + 1 ELSE 0
          /\ \A i \in 1..((n - 1) - 1 + 1) : SubSeq(s, 1, n - 1)[i] = s[1 + i - 1]
      BY <2>1, <3>1, SubSeqProperties
    <3>3. (n - 1) - 1 + 1 = n - 1 /\ \A i \in Int : 1 + i - 1 = i
      BY <2>1
    <3> QED
      BY <2>1, <3>2, <3>3 DEF Front
  <2>4. r = Append(Front(s), c)
    BY <1>2 DEF Joined
  <2> HIDE DEF n, c
  <2>5. /\ r \in Seq(Piece) /\ r # <<>> /\ Len(r) = n /\ DOMAIN r = 1..n
        /\ \A i \in 1..(n - 1) : r[i] = s[i]
        /\ r[n] = c
    <3>1. (n - 1) + 1 = n
      BY <2>1
    <3>2. /\ r \in Seq(Piece) /\ r # <<>> /\ Len(r) = (n - 1) + 1
          /\ \A i \in 1..(n - 1) : r[i] = Front(s)[i]
          /\ r[(n - 1) + 1] = c
      BY <2>2, <2>3, <2>4, AppendProperties
    <3>3. DOMAIN r = 1..Len(r)
      BY <3>2
    <3> QED
      BY <2>3, <3>1, <3>2, <3>3
  <2>6. ASSUME NEW i \in 1..n
        PROVE  r[i].at = s[i].at /\ r[i].free = s[i].free
    <3>1. CASE i = n
      BY <3>1, <1>2, <2>1, <2>2, <2>5 DEF Piece
    <3>2. CASE i # n
      <4>1. i \in 1..(n - 1)
        BY <3>2, <2>1
      <4> QED
        BY <4>1, <2>5
    <3> QED
      BY <3>1, <3>2
  <2>7. ASSUME NEW i \in 1..(n - 1)
        PROVE  /\ End(h, r[i]) = r[i + 1].at
               /\ ~(r[i].free /\ r[i + 1].free)
    <3>1. i \in 1..n /\ i + 1 \in 1..n
      BY <2>1
    <3>2. End(h, s[i]) = s[i + 1].at /\ ~(s[i].free /\ s[i + 1].free)
      BY DEF Tiled, NoPair, n
    <3> QED
      BY <3>1, <3>2, <2>5, <2>6
  <2>8. Tiled(h, r) /\ NoPair(r)
    BY <2>5, <2>7 DEF Tiled, NoPair
  <2>9. r[1].at = s[1].at /\ End(h, Last(r)) = End(h, b)
    BY <2>1, <2>2, <2>5, <2>6 DEF Last
  <2>10. InUse(r) = InUse(s)
    <3>1. ASSUME NEW i \in 1..n, ~s[i].free
          PROVE  r[i] = s[i]
      <4>1. i \in 1..(n - 1)
        BY <3>1, <1>2, <2>1
      <4> QED
        BY <4>1, <2>5
    <3>2. ASSUME NEW x
          PROVE  x \in InUse(r) <=> x \in InUse(s)
      BY <2>1, <2>5, <2>6, <3>1 DEF InUse
    <3> QED
      BY <3>2
  <2> QED
    BY <1>2, <2>8, <2>9, <2>10 DEF Grown
<1> QED
    BY <1>1, <1>2

\* r is the one block b.
Single(h, b, r) ==
    /\ Tiled(h, r) /\ NoPair(r) /\ Len(r) = 1 /\ r[1] = b /\ Last(r) = b
    /\ InUse(r) = (IF b.free THEN {} ELSE {b})

LEMMA SingleTiled ==
    ASSUME NEW h \in Nat, NEW b \in Piece, NEW r, r = <<b>>
    PROVE  Single(h, b, r)
<1>1. r \in Seq(Piece) /\ r # <<>> /\ Len(r) = 1 /\ DOMAIN r = 1..1 /\ r[1] = b
    OBVIOUS
<1>2. Tiled(h, r) /\ NoPair(r) /\ Last(r) = b
    BY <1>1 DEF Tiled, NoPair, Last
<1>3. InUse(r) = (IF b.free THEN {} ELSE {b})
    BY <1>1 DEF InUse
<1> QED
    BY <1>1, <1>2, <1>3 DEF Single

\* r holds the same memory and the same blocks in use as s.
Merged(h, s, r) ==
    /\ Tiled(h, r) /\ NoPair(r)
    /\ r[1].at = s[1].at /\ End(h, Last(r)) = End(h, Last(s))
    /\ InUse(r) = InUse(s)

LEMMA MergeTiled ==
    ASSUME NEW h \in Nat, NEW s, Tiled(h, s), NEW f, f[0] = <<>>,
           \A i \in 1..Len(s) :
              /\ f[i - 1] = <<>> => f[i] = <<s[i]>>
              /\ f[i - 1] # <<>> /\ s[i].at = End(h, Last(f[i - 1]))
                    => f[i] = Joined(h, f[i - 1], s[i])
    PROVE  Merged(h, s, f[Len(s)])
<1> DEFINE n == Len(s)
           Used(k) == {s[i] : i \in {j \in 1..k : ~s[j].free}}
           Sofar(k) == /\ Tiled(h, f[k]) /\ NoPair(f[k])
                       /\ f[k][1].at = s[1].at /\ End(h, Last(f[k])) = End(h, s[k])
                       /\ InUse(f[k]) = Used(k)
           S == {k \in 0..n : k # 0 => Sofar(k)}
<1>1. /\ n \in Nat \ {0} /\ \A i \in 1..n : s[i] \in Piece /\ End(h, s[i]) \in Nat
      /\ Last(s) = s[n] /\ DOMAIN s = 1..n
    BY TiledType
<1>2. 0 \in S
    BY <1>1
<1>3. ASSUME NEW k \in 1..n, k - 1 \in S
      PROVE  k \in S
  <2> k - 1 \in 0..n /\ k \in 0..n
    BY <1>1
  <2>1. k - 1 # 0 => Sofar(k - 1)
    BY <1>3
  <2> HIDE DEF S
  <2>2. ASSUME NEW x
        PROVE  x \in Used(k) <=> x \in Used(k - 1) \cup (IF s[k].free THEN {} ELSE {s[k]})
    <3>1. \A j : j \in 1..k <=> j \in 1..(k - 1) \/ j = k
      BY <1>1
    <3> QED
      BY <3>1
  <2>3. Used(k) = Used(k - 1) \cup (IF s[k].free THEN {} ELSE {s[k]})
    BY <2>2
  <2>4. CASE k = 1
    <3>1. f[1] = <<s[1]>> /\ s[1] \in Piece
      BY <1>1, <2>4
    <3>2. Used(k - 1) = {}
      BY <2>4
    <3> HIDE DEF Used
    <3>3. Single(h, s[1], f[1])
      BY <3>1, SingleTiled
    <3>4. InUse(f[1]) = Used(k)
      BY <2>3, <2>4, <3>2, <3>3 DEF Single
    <3>5. Sofar(1)
      BY <2>4, <3>3, <3>4 DEF Single
    <3> QED
      BY <2>4, <3>5 DEF S
  <2>5. CASE k # 1
    <3> HIDE DEF Used
    <3> DEFINE g == f[k - 1]
    <3> k - 1 \in 1..(n - 1) /\ (k - 1) + 1 = k
      BY <2>5, <1>1
    <3>1. /\ Tiled(h, g) /\ NoPair(g) /\ g[1].at = s[1].at
          /\ End(h, Last(g)) = End(h, s[k - 1]) /\ InUse(g) = Used(k - 1)
      <4>1. k - 1 # 0
        BY <2>5
      <4> QED
        BY <2>1, <4>1
    <3>2. s[k].at = End(h, s[k - 1]) /\ s[k] \in Piece
      BY <1>1 DEF Tiled
    <3>3. f[k] = Joined(h, g, s[k])
      <4>1. g # <<>>
        BY <3>1 DEF Tiled
      <4> QED
        BY <3>1, <3>2, <4>1
    <3> HIDE DEF g
    <3>4. Grown(h, g, s[k], f[k])
      BY <3>1, <3>2, <3>3, JoinTiled
    <3>5. Sofar(k)
      BY <2>3, <3>1, <3>4 DEF Grown
    <3> QED
      BY <3>5 DEF S
  <2> QED
    BY <2>4, <2>5
<1>4. n \in S
  <2> HIDE DEF S
  <2> QED
    BY <1>1, <1>2, <1>3, CountUp
<1>5. Sofar(n)
    BY <1>1, <1>4
<1>6. Used(n) = InUse(s)
    BY <1>1 DEF InUse
<1> HIDE DEF Used, S
<1> QED
    BY <1>1, <1>5, <1>6 DEF Merged

-----------------------------------------------------------------------------
(***************************************************************************)
(* Blocks freed or taken in their places, and one block split.             *)
(***************************************************************************)
LEMMA RetaggedTiled ==
    ASSUME NEW h \in Nat, NEW s, Tiled(h, s), NEW r \in Seq(Piece), Len(r) = Len(s),
           \A i \in 1..Len(s) : r[i].at = s[i].at /\ r[i].size = s[i].size
    PROVE  /\ Tiled(h, r) /\ r[1].at = s[1].at /\ End(h, Last(r)) = End(h, Last(s))
           /\ \A i \in 1..Len(s) : End(h, r[i]) = End(h, s[i])
<1>1. Len(s) \in Nat \ {0} /\ Last(s) = s[Len(s)] /\ Last(r) = r[Len(s)]
    BY TiledType DEF Last
<1>2. \A i \in 1..Len(s) : End(h, r[i]) = End(h, s[i])
    BY DEF End
<1>3. r # <<>>
    BY <1>1, EmptySeq
<1>4. ASSUME NEW i \in 1..(Len(s) - 1)
      PROVE  End(h, r[i]) = r[i + 1].at
  <2>1. i \in 1..Len(s) /\ i + 1 \in 1..Len(s)
    BY <1>1
  <2>2. End(h, s[i]) = s[i + 1].at
    BY DEF Tiled
  <2> QED
    BY <2>1, <2>2, <1>2
<1>5. Tiled(h, r)
    BY <1>3, <1>4 DEF Tiled
<1> QED
    BY <1>1, <1>2, <1>5

\* r is s with the block at a free.
Freed(h, s, a, r) ==
    /\ Tiled(h, r) /\ r[1].at = s[1].at /\ End(h, Last(r)) = End(h, Last(s))
    /\ InUse(r) = {b \in InUse(s) : b.at # a}

LEMMA FreeTiled ==
    ASSUME NEW h \in Nat, NEW s, Tiled(h, s), NEW a, NEW r,
           r = [i \in DOMAIN s |->
                  IF s[i].at = a THEN [s[i] EXCEPT !.free = TRUE] ELSE s[i]]
    PROVE  Freed(h, s, a, r)
<1> DEFINE n == Len(s)
<1>1. n \in Nat /\ DOMAIN s = 1..n /\ \A i \in 1..n : s[i] \in Piece
    BY TiledType
<1>2. ASSUME NEW i \in 1..n
      PROVE  /\ r[i] \in Piece /\ r[i].at = s[i].at /\ r[i].size = s[i].size
             /\ s[i].at = a => r[i].free = TRUE
             /\ s[i].at # a => r[i] = s[i]
    BY <1>1 DEF Piece
<1>3. r \in [1..n -> Piece]
    BY <1>1, <1>2
<1>4. r \in Seq(Piece) /\ Len(r) = n /\ DOMAIN r = 1..n
  <2>1. r \in Seq(Piece)
    BY <1>1, <1>3, SeqDef
  <2>2. DOMAIN r = 1..n
    BY <1>3
  <2>3. Len(r) \in Nat /\ DOMAIN r = 1..Len(r)
    BY <2>1, LenProperties
  <2> QED
    BY <1>1, <2>1, <2>2, <2>3
<1>5. Tiled(h, r) /\ r[1].at = s[1].at /\ End(h, Last(r)) = End(h, Last(s))
  <2>1. \A i \in 1..Len(s) : r[i].at = s[i].at /\ r[i].size = s[i].size
    BY <1>2
  <2>2. r \in Seq(Piece) /\ Len(r) = Len(s)
    BY <1>4
  <2> QED
    BY <2>1, <2>2, RetaggedTiled
<1>6. ASSUME NEW b
      PROVE  b \in InUse(r) <=> b \in InUse(s) /\ b.at # a
    BY <1>1, <1>2, <1>4 DEF InUse
<1> QED
    BY <1>5, <1>6 DEF Freed

LEMMA ConcatAt ==
    ASSUME NEW S, NEW s \in Seq(S), NEW t \in Seq(S)
    PROVE  /\ s \o t \in Seq(S) /\ Len(s \o t) = Len(s) + Len(t)
           /\ \A j \in 1..Len(s) : (s \o t)[j] = s[j]
           /\ \A j \in 1..Len(t) : (s \o t)[Len(s) + j] = t[j]
<1>1. Len(s) \in Nat /\ Len(t) \in Nat
    BY LenProperties
<1>2. /\ s \o t \in Seq(S) /\ Len(s \o t) = Len(s) + Len(t)
      /\ \A i \in 1..(Len(s) + Len(t)) :
            (s \o t)[i] = IF i <= Len(s) THEN s[i] ELSE t[i - Len(s)]
    BY ConcatProperties
<1>3. ASSUME NEW j \in 1..Len(s)
      PROVE  (s \o t)[j] = s[j]
  <2>1. j \in 1..(Len(s) + Len(t)) /\ j <= Len(s)
    BY <1>1
  <2> QED
    BY <1>2, <2>1
<1>4. ASSUME NEW j \in 1..Len(t)
      PROVE  (s \o t)[Len(s) + j] = t[j]
  <2> DEFINE i == Len(s) + j
  <2>1. i \in 1..(Len(s) + Len(t)) /\ ~(i <= Len(s)) /\ i - Len(s) = j
    BY <1>1
  <2> HIDE DEF i
  <2>2. (s \o t)[i] = t[j]
    BY <1>2, <2>1
  <2> QED
    BY <2>2 DEF i
<1> QED
    BY <1>2, <1>3, <1>4

\* r is s without its element i + 1.
BlockDropped(S, s, i, r) ==
    /\ r \in Seq(S) /\ Len(r) = Len(s) - 1
    /\ \A j \in 1..i : r[j] = s[j]
    /\ \A j \in (i + 1)..(Len(s) - 1) : r[j] = s[j + 1]

LEMMA RemovedAt ==
    ASSUME NEW S, NEW s \in Seq(S), NEW i \in 1..(Len(s) - 1),
           NEW r, r = SubSeq(s, 1, i) \o SubSeq(s, i + 2, Len(s))
    PROVE  BlockDropped(S, s, i, r)
<1> DEFINE n == Len(s)
           low == SubSeq(s, 1, i)
           high == SubSeq(s, i + 2, n)
<1>1. n \in Nat \ {0} /\ i \in 1..(n - 1) /\ \A j \in 1..n : s[j] \in S
    BY LenProperties, ElementOfSeq
<1> HIDE DEF n
<1>2. /\ low \in Seq(S) /\ Len(low) = i
      /\ \A j \in 1..i : low[j] = s[j]
  <2>1. \A j \in 1..i : s[j] \in S
    BY <1>1
  <2>2. /\ low \in Seq(S)
        /\ Len(low) = IF 1 <= i THEN i - 1 + 1 ELSE 0
        /\ \A j \in 1..(i - 1 + 1) : low[j] = s[1 + j - 1]
    BY <1>1, <2>1, SubSeqProperties
  <2>3. i - 1 + 1 = i /\ \A j \in Int : 1 + j - 1 = j
    BY <1>1
  <2> HIDE DEF low
  <2> QED
    BY <1>1, <2>2, <2>3
<1>3. /\ high \in Seq(S) /\ Len(high) = n - i - 1
      /\ \A j \in 1..(n - i - 1) : high[j] = s[i + 1 + j]
  <2>1. i + 2 \in Int /\ n \in Int /\ \A j \in (i + 2)..n : s[j] \in S
    BY <1>1
  <2>2. /\ high \in Seq(S)
        /\ Len(high) = IF i + 2 <= n THEN n - (i + 2) + 1 ELSE 0
        /\ \A j \in 1..(n - (i + 2) + 1) : high[j] = s[(i + 2) + j - 1]
    BY <2>1, SubSeqProperties
  <2>3. n - (i + 2) + 1 = n - i - 1 /\ \A j \in Int : (i + 2) + j - 1 = i + 1 + j
    BY <1>1
  <2> HIDE DEF high
  <2> QED
    BY <1>1, <2>2, <2>3
<1>4. r = low \o high
    BY DEF n
<1> HIDE DEF low, high
<1>5. /\ r \in Seq(S) /\ Len(r) = i + (n - i - 1)
      /\ \A j \in 1..i : r[j] = low[j]
      /\ \A j \in 1..(n - i - 1) : r[i + j] = high[j]
  <2> DEFINE c == low \o high
  <2>1. low \in Seq(S) /\ high \in Seq(S)
    BY <1>2, <1>3
  <2>2. /\ c \in Seq(S) /\ Len(c) = Len(low) + Len(high)
        /\ \A j \in 1..Len(low) : c[j] = low[j]
        /\ \A j \in 1..Len(high) : c[Len(low) + j] = high[j]
    BY ONLY <2>1, ConcatAt
  <2>3. r = c
    BY <1>4
  <2> HIDE DEF c
  <2> QED
    BY <1>2, <1>3, <2>2, <2>3
<1>6. ASSUME NEW j \in (i + 1)..(n - 1)
      PROVE  r[j] = s[j + 1]
  <2>1. j - i \in 1..(n - i - 1) /\ i + (j - i) = j /\ i + 1 + (j - i) = j + 1
    BY <1>1
  <2>2. r[i + (j - i)] = s[i + 1 + (j - i)]
    BY <1>3, <1>5, <2>1
  <2> QED
    BY <2>1, <2>2
<1> QED
    BY <1>1, <1>2, <1>5, <1>6 DEF n, BlockDropped

\* t is s with the block i grown over its neighbour.
Enlarged(h, s, i, t) ==
    /\ t \in Seq(Piece) /\ Len(t) = Len(s)
    /\ t[i].at = s[i].at /\ t[i].free = s[i].free /\ End(h, t[i]) = End(h, s[i + 1])
    /\ \A j \in 1..Len(s) : j # i => t[j] = s[j]

LEMMA EnlargedBlock ==
    ASSUME NEW h \in Nat, NEW s, Tiled(h, s), NEW i \in 1..(Len(s) - 1), NEW t,
           t = [s EXCEPT ![i].size = @ + h + s[i + 1].size]
    PROVE  Enlarged(h, s, i, t)
<1> DEFINE n == Len(s)
           size == s[i].size + h + s[i + 1].size
<1>1. /\ n \in Nat \ {0} /\ i \in 1..(n - 1) /\ DOMAIN s = 1..n /\ s \in Seq(Piece)
      /\ \A j \in 1..n : s[j] \in Piece
      /\ i \in 1..n /\ i + 1 \in 1..n
    BY TiledType DEF Tiled
<1>2. End(h, s[i]) = s[i + 1].at
    BY DEF Tiled
<1>3. s[i] \in Piece /\ s[i + 1] \in Piece
    BY <1>1
<1>4. s[i].size \in Nat /\ s[i + 1].size \in Nat /\ s[i].at \in Nat /\ s[i + 1].at \in Nat
    BY <1>3 DEF Piece
<1>5. size \in Nat
    BY <1>4
<1>6. /\ DOMAIN t = 1..n /\ \A j \in 1..n : j # i => t[j] = s[j]
      /\ t[i] = [s[i] EXCEPT !.size = size]
    BY <1>1
<1>7. s[i] = [at |-> s[i].at, size |-> s[i].size, free |-> s[i].free] /\ s[i].free \in BOOLEAN
    BY <1>3 DEF Piece
<1>8. t[i] = [at |-> s[i].at, size |-> size, free |-> s[i].free]
    BY <1>6, <1>7
<1>9. t[i] \in Piece /\ t[i].at = s[i].at /\ t[i].free = s[i].free /\ t[i].size = size
    BY <1>4, <1>5, <1>7, <1>8 DEF Piece
<1>10. End(h, t[i]) = End(h, s[i + 1])
  <2>1. s[i + 1].at = s[i].at + h + s[i].size
    BY <1>2 DEF End
  <2> HIDE DEF n
  <2>2. t[i].at = s[i].at /\ t[i].size = s[i].size + h + s[i + 1].size
    BY <1>9
  <2>3. ASSUME NEW a \in Nat, NEW m \in Nat, NEW k \in Nat
        PROVE  a + h + (m + h + k) = (a + h + m) + h + k
    OBVIOUS
  <2>4. s[i].at + h + (s[i].size + h + s[i + 1].size)
            = (s[i].at + h + s[i].size) + h + s[i + 1].size
    BY ONLY <1>4, <2>3
  <2> QED
    BY ONLY <2>1, <2>2, <2>4 DEF End
<1>11. t \in [1..n -> Piece]
  <2>1. t = [j \in 1..n |-> t[j]]
    BY <1>1
  <2>2. \A j \in 1..n : t[j] \in Piece
    BY <1>1, <1>6, <1>9
  <2> QED
    BY <2>1, <2>2
<1>12. t \in Seq(Piece) /\ Len(t) = n
  <2>1. t \in Seq(Piece)
    BY ONLY <1>1, <1>11, SeqDef
  <2>2. Len(t) \in Nat /\ DOMAIN t = 1..Len(t)
    BY ONLY <2>1, LenProperties
  <2> QED
    BY ONLY <1>1, <1>6, <2>1, <2>2
<1> QED
    BY <1>6, <1>9, <1>10, <1>12 DEF Enlarged

\* No two free neighbours among the first i blocks.
NoPairUpTo(s, i) == \A j \in 1..(i - 1) : ~(s[j].free /\ s[j + 1].free)

\* r is s with the free blocks i and i + 1 made one.
OneOfTwo(h, s, i, r) ==
    /\ Tiled(h, r) /\ Len(r) = Len(s) - 1
    /\ r[1].at = s[1].at /\ End(h, Last(r)) = End(h, Last(s))
    /\ InUse(r) = InUse(s)
    /\ r[i].at = s[i].at /\ NoPairUpTo(r, i)

LEMMA NeighboursTiled ==
    ASSUME NEW h \in Nat, NEW s, Tiled(h, s), NEW i \in 1..(Len(s) - 1),
           s[i].free, s[i + 1].free, NoPairUpTo(s, i),
           NEW t, Enlarged(h, s, i, t), NEW r, BlockDropped(Piece, t, i, r)
    PROVE  OneOfTwo(h, s, i, r)
<1> DEFINE n == Len(s)
<1>1. /\ n \in Nat \ {0} /\ i \in 1..(n - 1) /\ DOMAIN s = 1..n
      /\ Last(s) = s[n] /\ \A j \in 1..n : s[j] \in Piece
      /\ i \in 1..n /\ i + 1 \in 1..n
    BY TiledType
<1>2. \A j \in 1..(n - 1) : End(h, s[j]) = s[j + 1].at
    BY DEF Tiled
<1>3. t[i].at = s[i].at /\ t[i].free = s[i].free /\ End(h, t[i]) = End(h, s[i + 1])
    BY DEF Enlarged
<1>4. \A j \in 1..n : j # i => t[j] = s[j]
    BY DEF Enlarged
<1>5. /\ r \in Seq(Piece) /\ Len(r) = n - 1
      /\ \A j \in 1..i : r[j] = t[j]
      /\ \A j \in (i + 1)..(n - 1) : r[j] = t[j + 1]
    BY DEF BlockDropped, Enlarged
<1> HIDE DEF n
<1>6. r[i] = t[i] /\ \A j \in 1..(i - 1) : r[j] = s[j]
    BY <1>1, <1>4, <1>5
<1>7. ASSUME NEW j \in (i + 1)..(n - 1)
      PROVE  r[j] = s[j + 1]
  <2>1. j + 1 \in 1..n /\ j + 1 # i
    BY <1>1
  <2> QED
    BY <1>4, <1>5, <2>1
<1>8. DOMAIN r = 1..(n - 1) /\ r # <<>> /\ n - 1 \in Nat \ {0}
  <2>1. Len(r) \in Nat /\ DOMAIN r = 1..Len(r)
    BY <1>5, LenProperties
  <2> QED
    BY <1>1, <1>5, <2>1, EmptySeq
<1>9. ASSUME NEW j \in 1..(n - 2)
       PROVE  End(h, r[j]) = r[j + 1].at
  <2>1. CASE j < i - 1
    <3>1. j \in 1..(i - 1) /\ j + 1 \in 1..(i - 1) /\ j \in 1..(n - 1)
      BY <1>1, <2>1
    <3> QED
      BY <1>2, <1>6, <3>1
  <2>2. CASE j = i - 1
    <3>1. j \in 1..(i - 1) /\ j + 1 = i /\ j \in 1..(n - 1)
      BY <1>1, <2>2
    <3> QED
      BY <1>2, <1>3, <1>6, <3>1
  <2>3. CASE j = i
    <3>1. i + 1 \in (i + 1)..(n - 1) /\ i + 1 \in 1..(n - 1)
      BY <1>1, <2>3
    <3> QED
      BY <1>2, <1>3, <1>6, <1>7, <2>3, <3>1
  <2>4. CASE j > i
    <3>1. /\ j \in (i + 1)..(n - 1) /\ j + 1 \in (i + 1)..(n - 1)
          /\ j + 1 \in 1..(n - 1)
      BY <1>1, <2>4
    <3> QED
      BY <1>2, <1>7, <3>1
  <2> QED
    BY <1>1, <2>1, <2>2, <2>3, <2>4
<1>10. Tiled(h, r)
  <2>1. Len(r) - 1 = n - 2
    BY <1>1, <1>5
  <2> QED
    BY <1>5, <1>8, <1>9, <2>1 DEF Tiled
<1>11. r[1].at = s[1].at
  <2>1. CASE i = 1
    BY <1>3, <1>6, <2>1
  <2>2. CASE i # 1
    BY <1>1, <1>6, <2>2
  <2> QED
    BY <2>1, <2>2
<1>12. End(h, Last(r)) = End(h, Last(s))
  <2>1. Last(r) = r[n - 1]
    BY <1>5 DEF Last
  <2>2. CASE i = n - 1
    BY <1>1, <1>3, <1>6, <2>1, <2>2
  <2>3. CASE i # n - 1
    <3>1. n - 1 \in (i + 1)..(n - 1) /\ (n - 1) + 1 = n
      BY <1>1, <2>3
    <3> QED
      BY <1>1, <1>7, <2>1, <3>1
  <2> QED
    BY <2>2, <2>3
<1>13. ASSUME NEW b
       PROVE  b \in InUse(r) <=> b \in InUse(s)
  <2>1. ASSUME b \in InUse(r)
        PROVE  b \in InUse(s)
    <3>1. PICK j \in 1..(n - 1) : b = r[j] /\ ~r[j].free
      BY <1>8, <2>1 DEF InUse
    <3>2. CASE j < i
      BY <1>1, <1>6, <3>1, <3>2 DEF InUse
    <3>3. j # i
      BY <1>3, <1>6, <3>1
    <3>4. CASE j > i
      <4>1. j \in (i + 1)..(n - 1) /\ j + 1 \in 1..n
        BY <1>1, <3>4
      <4> QED
        BY <1>1, <1>7, <3>1, <4>1 DEF InUse
    <3> QED
      BY <1>1, <3>2, <3>3, <3>4
  <2>2. ASSUME b \in InUse(s)
        PROVE  b \in InUse(r)
    <3>1. PICK j \in 1..n : b = s[j] /\ ~s[j].free
      BY <1>1, <2>2 DEF InUse
    <3>2. j # i /\ j # i + 1
      BY <3>1
    <3>3. CASE j < i
      <4>1. j \in 1..(i - 1) /\ j \in 1..(n - 1)
        BY <1>1, <3>3
      <4> QED
        BY <1>6, <1>8, <3>1, <4>1 DEF InUse
    <3>4. CASE j > i + 1
      <4>1. j - 1 \in (i + 1)..(n - 1) /\ j - 1 \in 1..(n - 1) /\ (j - 1) + 1 = j
        BY <1>1, <3>4
      <4>2. r[j - 1] = s[j]
        BY <1>7, <4>1
      <4> QED
        BY <1>8, <3>1, <4>1, <4>2 DEF InUse
    <3> QED
      BY <1>1, <3>2, <3>3, <3>4
  <2> QED
    BY <2>1, <2>2
<1>14. NoPairUpTo(r, i)
  <2> SUFFICES ASSUME NEW j \in 1..(i - 1)
               PROVE  ~(r[j].free /\ r[j + 1].free)
    BY DEF NoPairUpTo
  <2>1. ~(s[j].free /\ s[j + 1].free)
    BY DEF NoPairUpTo
  <2>2. r[j].free = s[j].free
    BY <1>6
  <2>3. r[j + 1].free = s[j + 1].free
    <3>1. CASE j + 1 = i
      BY <1>3, <1>6, <3>1
    <3>2. CASE j + 1 # i
      <4>1. j + 1 \in 1..(i - 1)
        BY <1>1, <3>2
      <4> QED
        BY <1>6, <4>1
    <3> QED
      BY <3>1, <3>2
  <2> QED
    BY <2>1, <2>2, <2>3
<1> QED
    BY <1>3, <1>5, <1>6, <1>10, <1>11, <1>12, <1>13, <1>14 DEF OneOfTwo, n

\* r is s with the pieces p in the place of its block number i.
Replaced(h, s, i, p, r) ==
    /\ Tiled(h, r) /\ NoPair(r)
    /\ r[1].at = s[1].at /\ End(h, Last(r)) = End(h, Last(s))
    /\ InUse(r) = InUse(p) \cup {s[j] : j \in {k \in 1..Len(s) : k # i /\ ~s[k].free}}

LEMMA ReplaceTiled ==
    ASSUME NEW h \in Nat, NEW s, Tiled(h, s), NoPair(s), NEW i \in 1..Len(s), s[i].free,
           NEW p, Tiled(h, p), NoPair(p),
           p[1].at = s[i].at, End(h, Last(p)) = End(h, s[i]),
           NEW r, r = SubSeq(s, 1, i - 1) \o p \o SubSeq(s, i + 1, Len(s))
    PROVE  Replaced(h, s, i, p, r)
<1> DEFINE n == Len(s)
           m == Len(p)
           low == SubSeq(s, 1, i - 1)
           high == SubSeq(s, i + 1, n)
<1>1. /\ n \in Nat \ {0} /\ m \in Nat \ {0} /\ i \in 1..n
      /\ s \in Seq(Piece) /\ p \in Seq(Piece) /\ DOMAIN s = 1..n /\ DOMAIN p = 1..m
      /\ Last(s) = s[n] /\ Last(p) = p[m]
      /\ \A j \in 1..n : s[j] \in Piece
      /\ \A j \in 1..m : p[j] \in Piece
  <2>1. s \in Seq(Piece) /\ p \in Seq(Piece)
    BY DEF Tiled
  <2> QED
    BY <2>1, TiledType
<1>2. /\ low \in Seq(Piece) /\ Len(low) = i - 1
      /\ \A j \in 1..(i - 1) : low[j] = s[j]
  <2>1. \A j \in 1..(i - 1) : s[j] \in Piece
    BY <1>1
  <2>2. /\ low \in Seq(Piece)
        /\ Len(low) = IF 1 <= i - 1 THEN (i - 1) - 1 + 1 ELSE 0
        /\ \A j \in 1..((i - 1) - 1 + 1) : low[j] = s[1 + j - 1]
    BY <1>1, <2>1, SubSeqProperties
  <2>3. (i - 1) - 1 + 1 = i - 1 /\ \A j \in Int : 1 + j - 1 = j
    BY <1>1
  <2> HIDE DEF low, n
  <2> QED
    BY <1>1, <2>2, <2>3
<1>3. /\ high \in Seq(Piece) /\ Len(high) = n - i
      /\ \A j \in 1..(n - i) : high[j] = s[i + j]
  <2>1. i + 1 \in Int /\ n \in Int /\ \A j \in (i + 1)..n : s[j] \in Piece
    BY <1>1
  <2> HIDE DEF n
  <2>2. /\ high \in Seq(Piece)
        /\ Len(high) = IF i + 1 <= n THEN n - (i + 1) + 1 ELSE 0
        /\ \A j \in 1..(n - (i + 1) + 1) : high[j] = s[(i + 1) + j - 1]
    BY <2>1, SubSeqProperties
  <2>3. n - (i + 1) + 1 = n - i /\ \A j \in Int : (i + 1) + j - 1 = i + j
    BY <1>1
  <2> HIDE DEF high
  <2> QED
    BY <1>1, <2>2, <2>3
<1>4. r = (low \o p) \o high
    OBVIOUS
<1> DEFINE k == i - 1
<1>5. k \in Nat /\ i = k + 1 /\ Len(low) = k /\ Len(p) = m
    BY <1>1, <1>2
<1> HIDE DEF n, m, low, high, k
<1>6. /\ low \o p \in Seq(Piece) /\ Len(low \o p) = k + m
      /\ \A j \in 1..k : (low \o p)[j] = low[j]
      /\ \A j \in 1..m : (low \o p)[k + j] = p[j]
  <2>1. /\ low \o p \in Seq(Piece) /\ Len(low \o p) = Len(low) + Len(p)
        /\ \A j \in 1..Len(low) : (low \o p)[j] = low[j]
        /\ \A j \in 1..Len(p) : (low \o p)[Len(low) + j] = p[j]
    BY <1>1, <1>2, ConcatAt
  <2> QED
    BY <1>5, <2>1
<1>7. /\ r \in Seq(Piece) /\ Len(r) = (k + m) + (n - i) /\ DOMAIN r = 1..((k + m) + (n - i))
      /\ \A j \in 1..k : r[j] = s[j]
      /\ \A j \in 1..m : r[k + j] = p[j]
      /\ \A j \in 1..(n - i) : r[(k + m) + j] = s[i + j]
  <2>1. /\ r \in Seq(Piece) /\ Len(r) = (k + m) + (n - i)
        /\ \A j \in 1..(k + m) : r[j] = (low \o p)[j]
        /\ \A j \in 1..(n - i) : r[(k + m) + j] = high[j]
    <3> DEFINE lp == low \o p
    <3>1. lp \in Seq(Piece) /\ r = lp \o high /\ Len(lp) = k + m
      BY <1>4, <1>6
    <3> HIDE DEF lp
    <3> DEFINE c == lp \o high
    <3>2. /\ c \in Seq(Piece) /\ Len(c) = Len(lp) + Len(high)
          /\ \A j \in 1..Len(lp) : c[j] = lp[j]
          /\ \A j \in 1..Len(high) : c[Len(lp) + j] = high[j]
      <4>1. lp \in Seq(Piece) /\ high \in Seq(Piece)
        BY <1>3, <3>1
      <4>2. \A u, v \in Seq(Piece) :
              /\ u \o v \in Seq(Piece) /\ Len(u \o v) = Len(u) + Len(v)
              /\ \A j \in 1..Len(u) : (u \o v)[j] = u[j]
              /\ \A j \in 1..Len(v) : (u \o v)[Len(u) + j] = v[j]
        BY ONLY ConcatAt
      <4> QED
        BY <4>1, <4>2, Zenon
    <3>3. Len(high) = n - i
      BY <1>3
    <3> QED
      BY <3>1, <3>2, <3>3 DEF lp
  <2>2. DOMAIN r = 1..Len(r)
    BY <2>1
  <2>3. \A j \in 1..k : j \in 1..(k + m) /\ j \in 1..(i - 1)
    BY <1>1, <1>5
  <2>4. \A j \in 1..m : k + j \in 1..(k + m)
    BY <1>1, <1>5
  <2> QED
    BY <1>2, <1>3, <1>6, <2>1, <2>2, <2>3, <2>4
<1>8. ASSUME NEW q \in 1..(Len(r) - 1)
      PROVE  End(h, r[q]) = r[q + 1].at /\ ~(r[q].free /\ r[q + 1].free)
  <2>1. q \in Int /\ 1 <= q /\ q < (k + m) + (n - i)
    <3> DEFINE t == (k + m) + (n - i)
    <3>1. t \in Int
      BY <1>1, <1>5
    <3>2. Len(r) = t
      BY <1>7
    <3> HIDE DEF t
    <3>3. q \in 1..(t - 1)
      BY <3>2
    <3>4. q \in Int /\ 1 <= q /\ q < t
      BY <3>1, <3>3
    <3> QED
      BY <3>4 DEF t
  <2>2. CASE q < k
    <3>1. q \in 1..k /\ q + 1 \in 1..k /\ q \in 1..(Len(s) - 1)
      BY <1>1, <1>5, <2>1, <2>2 DEF n
    <3>2. End(h, s[q]) = s[q + 1].at /\ ~(s[q].free /\ s[q + 1].free)
      BY <3>1 DEF Tiled, NoPair
    <3> QED
      BY <3>1, <3>2, <1>7
  <2>3. CASE q = k
    <3>1. q \in 1..k /\ q \in 1..(Len(s) - 1) /\ q + 1 = i /\ 1 \in 1..m
      BY <1>1, <1>5, <2>1, <2>3 DEF n
    <3>2. End(h, s[q]) = s[i].at /\ ~(s[q].free /\ s[i].free)
      BY <3>1 DEF Tiled, NoPair
    <3>3. r[q] = s[q] /\ r[q + 1] = p[1]
      BY <2>3, <3>1, <1>7
    <3> QED
      BY <3>2, <3>3
  <2>4. CASE k < q /\ q < k + m
    <3> DEFINE j == q - k
    <3>1. j \in 1..m /\ j + 1 \in 1..m /\ j \in 1..(Len(p) - 1)
          /\ k + j = q /\ k + (j + 1) = q + 1
      BY <1>1, <1>5, <2>1, <2>4
    <3> HIDE DEF j
    <3>2. End(h, p[j]) = p[j + 1].at /\ ~(p[j].free /\ p[j + 1].free)
      BY <3>1 DEF Tiled, NoPair
    <3>3. r[q] = p[j]
      BY <3>1, <1>7
    <3>4. r[q + 1] = p[j + 1]
      BY <3>1, <1>7
    <3> QED
      BY <3>2, <3>3, <3>4
  <2>5. CASE q = k + m
    <3>1. m \in 1..m /\ 1 \in 1..(n - i) /\ i \in 1..(Len(s) - 1) /\ (k + m) + 1 = q + 1
      BY <1>1, <1>5, <2>1, <2>5 DEF n
    <3>2. End(h, s[i]) = s[i + 1].at /\ ~(s[i].free /\ s[i + 1].free)
      BY <3>1 DEF Tiled, NoPair
    <3>3. r[q] = p[m]
      BY <2>5, <3>1, <1>7
    <3>4. r[q + 1] = s[i + 1]
      BY <3>1, <1>7
    <3> QED
      BY <1>1, <3>2, <3>3, <3>4
  <2>6. CASE q > k + m
    <3> DEFINE j == q - (k + m)
    <3>1. j \in 1..(n - i) /\ j + 1 \in 1..(n - i) /\ i + j \in 1..(Len(s) - 1)
          /\ (k + m) + j = q /\ (k + m) + (j + 1) = q + 1 /\ i + (j + 1) = (i + j) + 1
      BY <1>1, <1>5, <2>1, <2>6 DEF n
    <3> HIDE DEF j
    <3>2. End(h, s[i + j]) = s[(i + j) + 1].at /\ ~(s[i + j].free /\ s[(i + j) + 1].free)
      BY <3>1 DEF Tiled, NoPair
    <3>3. r[q] = s[i + j]
      BY <3>1, <1>7
    <3>4. r[q + 1] = s[(i + j) + 1]
      BY <3>1, <1>7
    <3> QED
      BY <3>2, <3>3, <3>4
  <2>7. q < k \/ q = k \/ (k < q /\ q < k + m) \/ q = k + m \/ q > k + m
    BY <1>1, <1>5, <2>1
  <2> QED
    BY <2>2, <2>3, <2>4, <2>5, <2>6, <2>7
<1>9. Tiled(h, r) /\ NoPair(r)
  <2>1. r # <<>>
    BY <1>1, <1>5, <1>7, EmptySeq
  <2> QED
    BY <1>7, <1>8, <2>1 DEF Tiled, NoPair
<1>10. r[1].at = s[1].at
  <2>1. CASE k = 0
    <3>1. 1 \in 1..m /\ k + 1 = 1 /\ i = 1
      BY <1>1, <1>5, <2>1
    <3>2. r[1] = p[1]
      BY <3>1, <1>7
    <3> QED
      BY <3>1, <3>2
  <2>2. CASE k # 0
    <3>1. 1 \in 1..k
      BY <1>5, <2>2
    <3> QED
      BY <3>1, <1>7
  <2> QED
    BY <2>1, <2>2
<1>11. End(h, Last(r)) = End(h, Last(s))
  <2>1. Last(r) = r[(k + m) + (n - i)]
    BY <1>7 DEF Last
  <2>2. CASE i = n
    <3>1. m \in 1..m /\ (k + m) + (n - i) = k + m
      BY <1>1, <1>5, <2>2
    <3>2. r[k + m] = p[m]
      BY <3>1, <1>7
    <3>3. Last(r) = Last(p)
      BY <2>1, <3>1, <3>2, <1>1
    <3> QED
      BY <3>3, <1>1, <2>2
  <2>3. CASE i # n
    <3>1. n - i \in 1..(n - i) /\ i + (n - i) = n
      BY <1>1, <2>3
    <3>2. r[(k + m) + (n - i)] = s[i + (n - i)]
      BY <3>1, <1>7
    <3> QED
      BY <3>1, <3>2, <1>1, <2>1
  <2> QED
    BY <2>2, <2>3
<1> DEFINE rest == {s[j] : j \in {c \in 1..Len(s) : c # i /\ ~s[c].free}}
<1>12. InUse(r) \subseteq InUse(p) \cup rest
  <2> SUFFICES ASSUME NEW x \in InUse(r)
               PROVE  x \in InUse(p) \cup rest
      OBVIOUS
  <2>1. PICK q \in 1..((k + m) + (n - i)) : x = r[q] /\ ~r[q].free
    BY <1>7 DEF InUse
  <2>2. CASE q <= k
    <3>1. q \in 1..k /\ q \in 1..Len(s) /\ q # i
      BY <1>1, <1>5, <2>2 DEF n
    <3>2. x = s[q] /\ ~s[q].free
      BY <3>1, <2>1, <1>7
    <3> QED
      BY <3>1, <3>2
  <2>3. CASE k < q /\ q <= k + m
    <3> DEFINE j == q - k
    <3>1. j \in 1..m /\ k + j = q
      BY <1>1, <1>5, <2>3
    <3> HIDE DEF j
    <3>2. x = p[j] /\ ~p[j].free
      BY <3>1, <2>1, <1>7
    <3> QED
      BY <3>1, <3>2, <1>1 DEF InUse
  <2>4. CASE q > k + m
    <3> DEFINE j == q - (k + m)
    <3>1. j \in 1..(n - i) /\ (k + m) + j = q /\ i + j \in 1..Len(s) /\ i + j # i
      BY <1>1, <1>5, <2>4 DEF n
    <3> HIDE DEF j
    <3>2. x = s[i + j] /\ ~s[i + j].free
      BY <3>1, <2>1, <1>7
    <3> QED
      BY <3>1, <3>2
  <2> QED
    BY <1>1, <1>5, <2>2, <2>3, <2>4
<1>13. InUse(p) \subseteq InUse(r)
  <2> SUFFICES ASSUME NEW x \in InUse(p)
               PROVE  x \in InUse(r)
      OBVIOUS
  <2>1. PICK j \in 1..m : x = p[j] /\ ~p[j].free
    BY <1>1 DEF InUse
  <2>2. k + j \in DOMAIN r
    <3>1. k + j \in 1..((k + m) + (n - i))
      BY <1>1, <1>5
    <3> QED
      BY <3>1, <1>7
  <2>3. r[k + j] = x /\ ~r[k + j].free
    BY <2>1, <1>7
  <2> QED
    BY <2>2, <2>3 DEF InUse
<1>14. rest \subseteq InUse(r)
  <2> SUFFICES ASSUME NEW j \in 1..Len(s), j # i, ~s[j].free
               PROVE  s[j] \in InUse(r)
      OBVIOUS
  <2>1. j \in 1..n
    BY DEF n
  <2>2. CASE j < i
    <3>1. j \in 1..k /\ j \in 1..((k + m) + (n - i))
      BY <1>1, <1>5, <2>1, <2>2
    <3>2. r[j] = s[j]
      BY <3>1, <1>7
    <3> QED
      BY <3>1, <3>2, <1>7 DEF InUse
  <2>3. CASE j > i
    <3> DEFINE c == j - i
    <3>1. /\ c \in 1..(n - i) /\ i + c = j
          /\ (k + m) + c \in 1..((k + m) + (n - i))
      BY <1>1, <1>5, <2>1, <2>3
    <3> HIDE DEF c
    <3>2. r[(k + m) + c] = s[j]
      BY <3>1, <1>7
    <3> QED
      BY <3>1, <3>2, <1>7 DEF InUse
  <2> QED
    BY <2>1, <2>2, <2>3
<1>15. InUse(r) = InUse(p) \cup rest
    BY <1>12, <1>13, <1>14
<1> QED
    BY <1>9, <1>10, <1>11, <1>15 DEF Replaced

-----------------------------------------------------------------------------
(***************************************************************************)
(* Quotients and remainders.                                               *)
(***************************************************************************)
LEMMA DivisionNat ==
    ASSUME NEW d \in Nat \ {0}, NEW x \in Nat
    PROVE  /\ x \div d \in Nat /\ x % d \in 0..(d - 1) /\ (x \div d) * d \in Nat
           /\ x = (x \div d) * d + (x % d)
BY Z3

\* Multiples of d are at least d apart.
LEMMA MultipleBelow ==
    ASSUME NEW d \in Nat \ {0}, NEW p \in Int, NEW q \in Int, p * d < q * d + d
    PROVE  p <= q
<1> SUFFICES ASSUME q + 1 <= p
             PROVE  FALSE
    OBVIOUS
<1>1. p - (q + 1) \in Nat
    OBVIOUS
<1>2. (p - (q + 1)) * d >= 0
    BY <1>1
<1>3. p * d - (q * d + d) >= 0
    BY <1>2
<1> QED
    BY <1>3

LEMMA DivisionUnique ==
    ASSUME NEW d \in Nat \ {0}, NEW q \in Nat, NEW r \in 0..(d - 1)
    PROVE  (q * d + r) \div d = q /\ (q * d + r) % d = r
<1> DEFINE x == q * d + r
<1>0. q * d \in Nat /\ x \in Nat
    OBVIOUS
<1>1. /\ x \div d \in Nat /\ x % d \in 0..(d - 1) /\ (x \div d) * d \in Nat
      /\ x = (x \div d) * d + (x % d)
    BY <1>0, DivisionNat
<1>2. x = q * d + r
    OBVIOUS
<1> HIDE DEF x
<1>3. x \div d <= q
    BY <1>1, <1>2, MultipleBelow
<1>4. q <= x \div d
    BY <1>0, <1>1, <1>2, MultipleBelow
<1>5. x \div d = q
    BY <1>1, <1>3, <1>4
<1>6. x % d = r
    BY <1>0, <1>1, <1>2, <1>5
<1> QED
    BY <1>5, <1>6 DEF x

\* Within what is left of its block, a number's quotient stays.
LEMMA DivisionStep ==
    ASSUME NEW d \in Nat \ {0}, NEW x \in Nat, NEW j \in 0..(d - (x % d) - 1)
    PROVE  (x + j) \div d = x \div d /\ (x + j) % d = (x % d) + j
<1>1. /\ x \div d \in Nat /\ x % d \in 0..(d - 1) /\ (x \div d) * d \in Nat
      /\ x = (x \div d) * d + (x % d)
    BY DivisionNat
<1> DEFINE q == x \div d
           r == x % d
<1>2. x = q * d + r /\ q \in Nat /\ r \in 0..(d - 1) /\ j \in 0..(d - r - 1)
    BY <1>1
<1> HIDE DEF q, r
<1>3. r + j \in 0..(d - 1) /\ q * d \in Nat
    BY <1>2
<1>4. x + j = q * d + (r + j)
    BY <1>2, <1>3
<1>5. (q * d + (r + j)) \div d = q /\ (q * d + (r + j)) % d = r + j
    BY <1>2, <1>3, DivisionUnique
<1> QED
    BY <1>4, <1>5 DEF q, r

\* A number below a multiple of d lies in a block that ends by it.
LEMMA DivisionBelow ==
    ASSUME NEW d \in Nat \ {0}, NEW x \in Nat, NEW m \in Nat, m % d = 0, x < m
    PROVE  (x \div d) * d + d <= m
<1>1. /\ x \div d \in Nat /\ x % d \in 0..(d - 1) /\ (x \div d) * d \in Nat
      /\ x = (x \div d) * d + (x % d)
    BY DivisionNat
<1>2. m \div d \in Nat /\ (m \div d) * d \in Nat /\ m = (m \div d) * d
    BY DivisionNat
<1> DEFINE q == x \div d
           n == m \div d
<1>3. q \in Nat /\ n \in Nat /\ q * d <= x /\ m = n * d
    BY <1>1, <1>2
<1> HIDE DEF q, n
<1>4. ~(n <= q)
  <2>1. SUFFICES ASSUME n <= q
                 PROVE  FALSE
      OBVIOUS
  <2>2. (q - n) * d >= 0
    BY <1>3, <2>1
  <2> QED
    BY <1>3, <2>2
<1>5. (n - (q + 1)) * d >= 0
    BY <1>3, <1>4
<1>6. q * d + d <= m
    BY <1>3, <1>5
<1> QED
    BY <1>6 DEF q

-----------------------------------------------------------------------------
(***************************************************************************)
(* Functions that are defined by recursion on all numbers.                 *)
(***************************************************************************)
Recurs(f, d, step) == f[0] = d /\ \A k \in Nat : f[k + 1] = step[<<f[k], k + 1>>]

LEMMA RecursionExists ==
    ASSUME NEW D, NEW d \in D, NEW step \in [D \X Nat -> D]
    PROVE  \E f \in [Nat -> D] : Recurs(f, d, step)
<1> DEFINE loop(n, f) == f \in [0..n -> D] /\ f[0] = d
                         /\ \A i \in 1..n : f[i] = step[<<f[i - 1], i>>]
           part(n) == CHOOSE f : loop(n, f)
           whole == [n \in Nat |-> part(n)[n]]
<1>1. ASSUME NEW n \in Nat
      PROVE  loop(n, part(n))
  <2> DEFINE s == [i \in 1..n |-> i]
  <2>1. s \in [1..n -> Nat] /\ \A i \in 1..n : s[i] = i
      OBVIOUS
  <2> HIDE DEF s
  <2>2. PICK f \in [0..n -> D] : Loops(step, d, s, n, f)
      BY <2>1, LoopExists
  <2>3. loop(n, f)
      BY <2>1, <2>2 DEF Loops
  <2> HIDE DEF loop
  <2> QED
      BY <2>3
<1> HIDE DEF part
<1>2. ASSUME NEW n \in Nat, NEW m \in 0..n
      PROVE  part(n)[m] = part(m)[m]
  <2> DEFINE S == {k \in Nat : k <= m => part(n)[k] = part(m)[k]}
  <2>1. loop(n, part(n)) /\ loop(m, part(m))
    <3>1. m \in Nat
        OBVIOUS
    <3> HIDE DEF loop
    <3> QED
        BY <3>1, <1>1
  <2>2. 0 \in S
      BY <2>1
  <2>3. \A k \in 1..m : k - 1 \in S => k \in S
    <3> SUFFICES ASSUME NEW k \in 1..m, part(n)[k - 1] = part(m)[k - 1]
                 PROVE  part(n)[k] = part(m)[k]
        OBVIOUS
    <3>1. k \in 1..n
        OBVIOUS
    <3> QED
        BY <2>1, <3>1
  <2> HIDE DEF S
  <2>4. m \in S
      BY <2>2, <2>3, CountUp
  <2> QED
      BY <2>4 DEF S
<1>3. ASSUME NEW n \in Nat
      PROVE  whole[n] \in D
  <2>1. loop(n, part(n)) /\ n \in 0..n
      BY <1>1
  <2> QED
      BY <2>1
<1>4. whole[0] = d
  <2>1. loop(0, part(0))
      BY <1>1
  <2> QED
      BY <2>1
<1>5. ASSUME NEW k \in Nat
      PROVE  whole[k + 1] = step[<<whole[k], k + 1>>]
  <2>2. k + 1 \in 1..(k + 1) /\ (k + 1) - 1 = k /\ k + 1 \in Nat /\ k \in 0..(k + 1)
      OBVIOUS
  <2>1. loop(k + 1, part(k + 1)) /\ part(k + 1)[k] = part(k)[k]
    <3> HIDE DEF loop
    <3> QED
        BY <2>2, <1>1, <1>2
  <2>3. part(k + 1)[k + 1] = step[<<part(k + 1)[k], k + 1>>]
      BY <2>1, <2>2
  <2> QED
      BY <2>1, <2>2, <2>3
<1>6. whole \in [Nat -> D]
    BY <1>3
<1> HIDE DEF whole
<1> QED
    BY <1>4, <1>5, <1>6 DEF Recurs

RecursiveBy(f, d, step) == f = [n \in Nat |-> IF n = 0 THEN d ELSE step[<<f[n - 1], n>>]]

LEMMA RecursiveFunction ==
    ASSUME NEW D, NEW d \in D, NEW step \in [D \X Nat -> D]
    PROVE  \E f \in [Nat -> D] : RecursiveBy(f, d, step)
<1>1. PICK f \in [Nat -> D] : Recurs(f, d, step)
    BY RecursionExists
<1>2. ASSUME NEW n \in Nat
      PROVE  f[n] = IF n = 0 THEN d ELSE step[<<f[n - 1], n>>]
  <2>1. CASE n = 0
      BY <2>1, <1>1 DEF Recurs
  <2>2. CASE n # 0
    <3>1. n - 1 \in Nat /\ (n - 1) + 1 = n
        BY <2>2
    <3>2. f[(n - 1) + 1] = step[<<f[n - 1], (n - 1) + 1>>]
        BY <3>1, <1>1 DEF Recurs
    <3> QED
        BY <3>1, <3>2, <2>2
  <2> QED
      BY <2>1, <2>2
<1>3. f = [n \in Nat |-> f[n]]
    OBVIOUS
<1> QED
    BY <1>2, <1>3 DEF RecursiveBy

-----------------------------------------------------------------------------
(***************************************************************************)
(* Sequences that are put together from parts.                             *)
(***************************************************************************)
PrefixOf(C, parts, f) ==
    /\ f \in [0..Len(parts) -> Seq(C)]
    /\ f[0] = <<>>
    /\ \A k \in 1..Len(parts) : f[k] = f[k - 1] \o parts[k]
    /\ f[Len(parts)] = FlattenSeq(parts)

Upto(C, parts) == CHOOSE f : PrefixOf(C, parts, f)

LEMMA FlattenPrefix ==
    ASSUME NEW C, NEW parts \in Seq(Seq(C))
    PROVE  PrefixOf(C, parts, Upto(C, parts))
<1> DEFINE n == Len(parts)
<1>1. n \in Nat /\ DOMAIN parts = 1..n /\ \A k \in 1..n : parts[k] \in Seq(C)
    BY LenProperties, ElementOfSeq
<1> SUFFICES \E f : PrefixOf(C, parts, f)
    BY DEF Upto
<1>2. CASE n = 0
  <2> DEFINE f == [k \in 0..0 |-> <<>>]
  <2>1. parts = <<>>
      BY <1>2, EmptySeq
  <2>2. FlattenSeq(parts) = <<>>
      BY <2>1, <1>2 DEF FlattenSeq
  <2>3. f \in [0..n -> Seq(C)] /\ f[0] = <<>> /\ 1..n = {}
      BY <1>2
  <2> HIDE DEF f
  <2>4. PrefixOf(C, parts, f)
      BY <2>2, <2>3, <1>2 DEF PrefixOf
  <2> QED
      BY <2>4
<1>3. CASE n # 0
  <2> DEFINE body(h) == [i \in 1..n |-> IF i = 1 THEN parts[i] ELSE h[i - 1] \o parts[i]]
             h == CHOOSE h : h = body(h)
             f == [k \in 0..n |-> IF k = 0 THEN <<>> ELSE h[k]]
  <2>1. FlattenSeq(parts) = h[n]
      BY <1>3 DEF FlattenSeq
  <2>2. \E g : g = body(g)
    <3> DEFINE step == [a \in Seq(C) \X Seq(C) |-> a[1] \o a[2]]
    <3>1. step \in [Seq(C) \X Seq(C) -> Seq(C)]
        BY ConcatProperties
    <3>2. <<>> \in Seq(C)
        OBVIOUS
    <3>3. parts \in [1..n -> Seq(C)]
        BY <1>1, SeqDef
    <3> HIDE DEF step, n
    <3>4. PICK e \in [0..n -> Seq(C)] : Loops(step, <<>>, parts, n, e)
        BY <3>1, <3>2, <3>3, <1>1, LoopExists
    <3> DEFINE g == [i \in 1..n |-> e[i]]
    <3>5. ASSUME NEW i \in 1..n
          PROVE  e[i] = e[i - 1] \o parts[i] /\ i - 1 \in 0..n
      <4>0. i - 1 \in 0..n
          BY <1>1
      <4>1. e[i] = step[<<e[i - 1], parts[i]>>] /\ i - 1 \in 0..n
          BY <4>0, <3>4 DEF Loops
      <4>2. e[i - 1] \in Seq(C) /\ parts[i] \in Seq(C)
          BY <4>1, <3>3, <3>4
      <4> QED
          BY <4>1, <4>2 DEF step
    <3>6. e[0] = <<>>
        BY <3>4 DEF Loops
    <3>7. ASSUME NEW i \in 1..n
          PROVE  g[i] = IF i = 1 THEN parts[i] ELSE g[i - 1] \o parts[i]
      <4>1. CASE i = 1
        <5>1. e[1] = e[0] \o parts[1] /\ parts[1] \in Seq(C)
            BY <4>1, <3>5, <1>1
        <5>2. e[1] = parts[1]
            BY <5>1, <3>6, ConcatEmptySeq
        <5> QED
            BY <5>2, <4>1
      <4>2. CASE i # 1
        <5>1. i - 1 \in 1..n
            BY <4>2, <1>1
        <5> QED
            BY <5>1, <4>2, <3>5
      <4> QED
          BY <4>1, <4>2
    <3> HIDE DEF g
    <3>8. g = body(g)
        BY <3>7 DEF g
    <3> QED
        BY <3>8
  <2>3. h = body(h)
      BY <2>2
  <2> HIDE DEF h, n
  <2>4. h[1] = parts[1] /\ \A i \in 2..n : h[i] = h[i - 1] \o parts[i]
    <3>1. \A i \in 1..n : h[i] = IF i = 1 THEN parts[i] ELSE h[i - 1] \o parts[i]
        BY <2>3
    <3>2. 1 \in 1..n /\ \A i \in 2..n : i \in 1..n /\ i # 1
        BY <1>1, <1>3
    <3> HIDE DEF body
    <3> QED
        BY <3>1, <3>2, Zenon
  <2> DEFINE S == {k \in Nat : k = 0 \/ k > n \/ h[k] \in Seq(C)}
  <2>5. ASSUME NEW k \in 1..n
        PROVE  h[k] \in Seq(C)
    <3>1. 0 \in S
        OBVIOUS
    <3>2. \A j \in 1..k : j - 1 \in S => j \in S
      <4> SUFFICES ASSUME NEW j \in 1..k, j - 1 \in S
                   PROVE  h[j] \in Seq(C)
          BY <1>1
      <4>1. CASE j = 1
          BY <4>1, <2>4, <1>1
      <4>2. CASE j # 1
        <5>1. j \in 2..n /\ h[j - 1] \in Seq(C) /\ parts[j] \in Seq(C)
            BY <4>2, <1>1
        <5>2. h[j] = h[j - 1] \o parts[j]
            BY <5>1, <2>4
        <5> QED
            BY <5>1, <5>2, ConcatProperties
      <4> QED
          BY <4>1, <4>2
    <3> HIDE DEF S
    <3>3. k \in S
        BY <3>1, <3>2, <1>1, CountUp
    <3> QED
        BY <3>3, <1>1 DEF S
  <2>6. f \in [0..n -> Seq(C)] /\ f[0] = <<>> /\ f[n] = h[n]
      BY <2>5, <1>1, <1>3
  <2>7. ASSUME NEW k \in 1..n
        PROVE  f[k] = f[k - 1] \o parts[k]
    <3>1. CASE k = 1
      <4>1. f[k] = parts[1] /\ f[k - 1] = <<>> /\ parts[1] \in Seq(C)
          BY <3>1, <2>4, <1>1, <1>3
      <4> HIDE DEF f
      <4> QED
          BY <3>1, <4>1, ConcatEmptySeq
    <3>2. CASE k # 1
      <4>1. k \in 2..n /\ k - 1 \in 0..n /\ k - 1 # 0 /\ k \in 0..n /\ k # 0
          BY <3>2, <1>1
      <4>2. f[k] = h[k] /\ f[k - 1] = h[k - 1]
          BY <4>1
      <4> HIDE DEF f
      <4> QED
          BY <4>1, <4>2, <2>4
    <3> QED
        BY <3>1, <3>2
  <2> HIDE DEF f
  <2>8. PrefixOf(C, parts, f)
      BY <2>1, <2>6, <2>7 DEF PrefixOf, n
  <2> QED
      BY <2>8
<1> QED
    BY <1>2, <1>3

Stays(C, f, k, m) ==
    /\ f[k] \in Seq(C) /\ f[m] \in Seq(C) /\ Len(f[k]) <= Len(f[m])
    /\ \A j \in 1..Len(f[k]) : f[m][j] = f[k][j]

\* What has been put together stays in front of what follows.
LEMMA FlattenStays ==
    ASSUME NEW C, NEW parts \in Seq(Seq(C)),
           NEW k \in 0..Len(parts), NEW m \in 0..Len(parts), k <= m
    PROVE  Stays(C, Upto(C, parts), k, m)
<1> DEFINE f == Upto(C, parts)
           n == Len(parts)
           S == {q \in Nat : q < k \/ q > n \/
                    (Len(f[k]) <= Len(f[q]) /\ \A j \in 1..Len(f[k]) : f[q][j] = f[k][j])}
<1>1. /\ f \in [0..n -> Seq(C)] /\ n \in Nat
      /\ \A q \in 1..n : f[q] = f[q - 1] \o parts[q] /\ parts[q] \in Seq(C)
    BY FlattenPrefix, LenProperties, ElementOfSeq DEF PrefixOf
<1> HIDE DEF f, n
<1>2. \A q \in 0..n : f[q] \in Seq(C) /\ Len(f[q]) \in Nat
    BY <1>1, LenProperties
<1>3. 0 \in S
    BY <1>2 DEF n
<1>4. ASSUME NEW q \in 1..m, q - 1 \in S
      PROVE  q \in S
  <2>0. q \in Nat /\ q - 1 \in 0..n /\ q \in 1..n /\ q \in 0..n /\ k \in Nat /\ m \in Nat
      BY <1>1 DEF n
  <2>1. CASE q < k
      BY <2>0, <2>1
  <2>2. CASE q = k
      BY <2>0, <2>2, <1>2
  <2>3. CASE q > k
    <3>1. Len(f[k]) <= Len(f[q - 1]) /\ \A j \in 1..Len(f[k]) : f[q - 1][j] = f[k][j]
        BY <2>0, <2>3, <1>4, <1>1
    <3>2. /\ f[q] = f[q - 1] \o parts[q] /\ f[q - 1] \in Seq(C) /\ parts[q] \in Seq(C)
          /\ Len(f[q - 1]) \in Nat /\ Len(parts[q]) \in Nat /\ Len(f[k]) \in Nat
        BY <2>0, <1>1, <1>2, LenProperties DEF n
    <3> DEFINE x == f[q - 1]
               y == parts[q]
               z == f[k]
    <3>3. Len(f[q]) = Len(x) + Len(y) /\ \A j \in 1..Len(x) : f[q][j] = x[j]
      <4>1. x \in Seq(C) /\ y \in Seq(C) /\ f[q] = x \o y /\ Len(x) \in Nat /\ Len(y) \in Nat
          BY <3>2
      <4> HIDE DEF x, y
      <4> QED
          BY <4>1, ConcatProperties
    <3>4. Len(z) <= Len(f[q]) /\ \A j \in 1..Len(z) : f[q][j] = z[j]
      <4>1. /\ Len(x) \in Nat /\ Len(y) \in Nat /\ Len(z) \in Nat /\ Len(z) <= Len(x)
            /\ \A j \in 1..Len(z) : x[j] = z[j]
          BY <3>1, <3>2
      <4> HIDE DEF x, y, z
      <4> QED
          BY <4>1, <3>3
    <3> QED
        BY <2>0, <3>4
  <2> QED
      BY <2>0, <2>1, <2>2, <2>3
<1>5. m \in Nat /\ k \in 0..n /\ m \in 0..n /\ m >= k
    BY <1>1 DEF n
<1>6. m \in S
  <2> HIDE DEF S
  <2> QED
      BY <1>3, <1>4, <1>5, CountUp
<1> QED
    BY <1>2, <1>5, <1>6, <1>1 DEF f, Stays

\* The part k in the whole, behind the parts before it.
JoinedPart(C, parts, f, whole, k) ==
    /\ f[k] = f[k - 1] \o parts[k]
    /\ whole \in Seq(C) /\ f[k - 1] \in Seq(C) /\ parts[k] \in Seq(C)
    /\ Len(f[k]) = Len(f[k - 1]) + Len(parts[k])
    /\ Len(f[k]) <= Len(whole)
    /\ \A j \in 1..Len(parts[k]) : whole[Len(f[k - 1]) + j] = parts[k][j]

LEMMA FlattenAt ==
    ASSUME NEW C, NEW parts \in Seq(Seq(C)), NEW k \in 1..Len(parts)
    PROVE  JoinedPart(C, parts, Upto(C, parts), FlattenSeq(parts), k)
<1> DEFINE f == Upto(C, parts)
           n == Len(parts)
           whole == FlattenSeq(parts)
<1>1. /\ f \in [0..n -> Seq(C)] /\ n \in Nat /\ f[n] = whole
      /\ f[k] = f[k - 1] \o parts[k] /\ parts[k] \in Seq(C)
    BY FlattenPrefix, LenProperties, ElementOfSeq DEF PrefixOf
<1>2. k \in 1..n /\ k \in 0..n /\ k - 1 \in 0..n /\ n \in k..n
    BY <1>1
<1>3. /\ f[k] \in Seq(C) /\ Len(f[k]) <= Len(f[n])
      /\ \A j \in 1..Len(f[k]) : f[n][j] = f[k][j]
  <2>1. k \in 0..Len(parts) /\ Len(parts) \in 0..Len(parts) /\ k <= Len(parts)
      BY <1>2
  <2>2. Stays(C, Upto(C, parts), k, Len(parts))
      BY <2>1, FlattenStays
  <2> QED
      BY <2>2 DEF Stays
<1> HIDE DEF f, n, whole
<1>4. f[k - 1] \in Seq(C) /\ whole \in Seq(C)
    BY <1>1, <1>2
<1>5. Len(f[k - 1]) \in Nat /\ Len(parts[k]) \in Nat
    BY <1>1, <1>4, LenProperties
<1>6. /\ Len(f[k]) = Len(f[k - 1]) + Len(parts[k])
      /\ \A j \in 1..Len(f[k]) :
            f[k][j] = IF j <= Len(f[k - 1]) THEN f[k - 1][j] ELSE parts[k][j - Len(f[k - 1])]
  <2> DEFINE x == f[k - 1]
             y == parts[k]
  <2>1. x \in Seq(C) /\ y \in Seq(C) /\ f[k] = x \o y
      BY <1>1, <1>4
  <2>2. /\ Len(f[k]) = Len(x) + Len(y)
        /\ \A j \in 1..Len(f[k]) : f[k][j] = IF j <= Len(x) THEN x[j] ELSE y[j - Len(x)]
    <3> HIDE DEF x, y
    <3> QED
        BY <2>1, ConcatProperties
  <2> QED
      BY <2>2
<1>7. ASSUME NEW j \in 1..Len(parts[k])
      PROVE  whole[Len(f[k - 1]) + j] = parts[k][j]
  <2> DEFINE q == Len(f[k - 1]) + j
  <2>1. q \in 1..Len(f[k]) /\ ~(q <= Len(f[k - 1])) /\ q - Len(f[k - 1]) = j
    <3>1. Len(f[k]) = Len(f[k - 1]) + Len(parts[k])
        BY <1>6
    <3> DEFINE a == Len(f[k - 1])
               c == Len(parts[k])
    <3>2. a \in Nat /\ c \in Nat /\ j \in 1..c /\ Len(f[k]) = a + c /\ q = a + j
        BY <3>1, <1>5
    <3> HIDE DEF a, c, q
    <3>3. q \in 1..Len(f[k]) /\ ~(q <= a) /\ q - a = j
        BY <3>2
    <3> QED
        BY <3>3 DEF a
  <2>2. f[k][q] = parts[k][q - Len(f[k - 1])]
    <3> HIDE DEF q
    <3> QED
        BY <2>1, <1>6
  <2>3. f[n][q] = f[k][q]
    <3> HIDE DEF q
    <3> QED
        BY <2>1, <1>3
  <2> QED
      BY <2>1, <2>2, <2>3, <1>1
<1> QED
    BY <1>1, <1>3, <1>4, <1>6, <1>7 DEF f, whole, JoinedPart

LEMMA SubSeqGrows ==
    ASSUME NEW C, NEW v \in Seq(C), NEW t \in Nat, t < Len(v)
    PROVE  /\ SubSeq(v, 1, t) \in Seq(C) /\ v[t + 1] \in C
           /\ SubSeq(v, 1, t + 1) = Append(SubSeq(v, 1, t), v[t + 1])
OBVIOUS

LEMMA TextGrows ==
    ASSUME NEW C, NEW o \in Seq(C), NEW v \in Seq(C), NEW t \in Nat, t < Len(v)
    PROVE  Append(o \o SubSeq(v, 1, t), v[t + 1]) = o \o SubSeq(v, 1, t + 1)
<1> DEFINE x == SubSeq(v, 1, t)
           e == v[t + 1]
<1>1. x \in Seq(C) /\ e \in C /\ SubSeq(v, 1, t + 1) = Append(x, e)
    BY SubSeqGrows
<1> HIDE DEF x, e
<1>2. Append(o \o x, e) = o \o Append(x, e)
  <2>1. o \o x \in Seq(C) /\ <<e>> \in Seq(C)
      BY <1>1, ConcatProperties
  <2>2. Append(o \o x, e) = (o \o x) \o <<e>> /\ Append(x, e) = x \o <<e>>
      BY <1>1, <2>1, AppendIsConcat
  <2>3. (o \o x) \o <<e>> = o \o (x \o <<e>>)
      BY <1>1, <2>1, ConcatAssociative
  <2> QED
      BY <2>2, <2>3, Zenon
<1> QED
    BY <1>1, <1>2 DEF x, e
=============================================================================
