---------------------------- MODULE UserIOProofs ----------------------------
(* Proofs about UserCopy and Console: what passes between a program and the  *)
(* kernel, by copies of its memory and by the keyboard and the screen.       *)
EXTENDS UserCopy, Console, DataLemmas

-----------------------------------------------------------------------------
(***************************************************************************)
(* The copies between the kernel and a program, for any page size, range   *)
(* and page tables.                                                        *)
(***************************************************************************)
Byte(i) == call.addr + i - 1

\* What the check at the start of a call has found.
Admitted ==
    IF call.op = "string"
    THEN call.len # 0 /\ user_range_valid(call.addr, 1)
    ELSE user_range_valid(call.addr, call.len)

CopyTypes ==
    /\ call \in Calls
    /\ moved \in Seq(Nat) /\ Len(moved) <= call.len
    /\ va = call.addr + Len(moved)
    /\ result \in {"running", "ok", "failed"}

\* The bytes moved so far were the program's to access.
MovedRight ==
    \A i \in 1..Len(moved) : Accessible(Byte(i)) /\ moved[i] = Physical(Byte(i))

\* While a string is read, no zero byte has gone by.
NoEndYet ==
    call.op = "string" => \A i \in 1..Len(moved) : Physical(Byte(i)) \notin call.zeros

CopyInv ==
    /\ CopyTypes
    /\ CopyExact
    /\ result = "running" => Admitted /\ NoEndYet

LEMMA CopyData ==
    ASSUME CopyTypes
    PROVE  /\ PageSize \in Nat \ {0} /\ MinAddr \in Nat /\ Limit \in Nat
           /\ call.addr \in Nat /\ call.len \in Nat /\ Len(moved) \in Nat /\ va \in Nat
           /\ call.op \in {"to", "from", "string"}
           /\ \A p \in DOMAIN call.pages : call.pages[p].frame \in Nat
BY UserCopyAssumption DEF CopyTypes

LEMMA PhysicalNat ==
    ASSUME CopyTypes, NEW a \in Nat, PageOf(a) \in DOMAIN call.pages
    PROVE  Physical(a) \in Nat
<1>1. a % PageSize \in Nat
    BY CopyData, DivisionNat
<1>2. call.pages[PageOf(a)].frame \in Nat /\ PageSize \in Nat
    BY CopyData
<1> DEFINE f == call.pages[PageOf(a)].frame
<1> HIDE DEF f
<1>3. f * PageSize \in Nat
    BY <1>2 DEF f
<1> QED
    BY <1>1, <1>3 DEF Physical, f

\* A chunk is not empty, stays in the call and in the page of va.
LEMMA ChunkFits ==
    ASSUME CopyTypes, Left > 0
    PROVE  /\ Chunk \in Nat \ {0} /\ Chunk <= Left /\ Chunk <= PageSize - (va % PageSize)
           /\ Left \in Nat /\ Left = call.len - Len(moved)
<1>1. va % PageSize \in 0..(PageSize - 1)
    BY CopyData, DivisionNat
<1>2. Left \in Nat /\ Left = call.len - Len(moved)
    BY CopyData DEF Left, CopyTypes
<1> QED
    BY <1>1, <1>2, CopyData DEF Chunk

LEMMA ChunkAccessible ==
    ASSUME CopyTypes, Left > 0, Translates(va), Admitted, NEW j \in 0..(Chunk - 1),
           call.op = "string" => va < Limit
    PROVE  Accessible(va + j) /\ Physical(va + j) = Physical(va) + j
<1>1. /\ Chunk \in Nat \ {0} /\ Chunk <= Left /\ Chunk <= PageSize - (va % PageSize)
      /\ Left = call.len - Len(moved)
    BY ChunkFits
<1>2. /\ PageSize \in Nat \ {0} /\ MinAddr \in Nat /\ Limit \in Nat
      /\ call.addr \in Nat /\ call.len \in Nat /\ Len(moved) \in Nat /\ va \in Nat
      /\ va = call.addr + Len(moved)
    BY CopyData DEF CopyTypes
<1>3. va % PageSize \in 0..(PageSize - 1)
    BY <1>2, DivisionNat
<1>4. j \in 0..(PageSize - (va % PageSize) - 1)
    BY <1>1, <1>2, <1>3
<1>5. (va + j) \div PageSize = va \div PageSize /\ (va + j) % PageSize = (va % PageSize) + j
    BY <1>2, <1>4, DivisionStep
<1>6. PageOf(va + j) = PageOf(va)
    BY <1>5 DEF PageOf
<1>7. Physical(va + j) = Physical(va) + j
  <2> DEFINE f == call.pages[PageOf(va)].frame
  <2>1. f \in Nat
      BY CopyData DEF Translates
  <2> HIDE DEF f
  <2>2. f * PageSize \in Nat
      BY <2>1, <1>2
  <2>3. Physical(va + j) = f * PageSize + ((va % PageSize) + j)
      BY <1>5, <1>6 DEF Physical, f
  <2>4. Physical(va) = f * PageSize + (va % PageSize)
      BY DEF Physical, f
  <2> QED
      BY <2>2, <2>3, <2>4, <1>3, <1>4
<1>8. /\ call.addr >= MinAddr /\ call.addr < Limit
      /\ call.op # "string" => call.len <= Limit - call.addr
  <2>1. call.len # 0
      BY <1>1, <1>2
  <2> QED
      BY <2>1 DEF Admitted, user_range_valid
<1>9. va + j < Limit
  <2>1. CASE call.op # "string"
    <3>1. call.len <= Limit - call.addr /\ j < call.len - Len(moved)
        BY <2>1, <1>1, <1>2, <1>8
    <3> QED
        BY <3>1, <1>2
  <2>2. CASE call.op = "string"
    <3>1. Limit % PageSize = 0 /\ va < Limit
        BY <2>2, UserCopyAssumption
    <3>2. (va \div PageSize) * PageSize + PageSize <= Limit
        BY <3>1, <1>2, DivisionBelow
    <3>3. va = (va \div PageSize) * PageSize + (va % PageSize) /\ (va \div PageSize) * PageSize \in Nat
        BY <1>2, DivisionNat
    <3> DEFINE q == (va \div PageSize) * PageSize
    <3> HIDE DEF q
    <3>4. q + PageSize <= Limit /\ va = q + (va % PageSize) /\ q \in Nat
        BY <3>2, <3>3 DEF q
    <3> DEFINE r == va % PageSize
    <3> HIDE DEF r
    <3>5. va = q + r /\ r \in 0..(PageSize - 1) /\ j \in 0..(PageSize - r - 1)
        BY <3>4, <1>3, <1>4 DEF r
    <3> QED
        BY <3>4, <3>5, <1>2
  <2> QED
      BY <2>1, <2>2
<1>10. va + j >= MinAddr
    BY <1>2, <1>8
<1> QED
    BY <1>6, <1>7, <1>9, <1>10 DEF Accessible, Translates

\* Where nothing translates, the program has no access either.
LEMMA FaultInaccessible ==
    ASSUME va >= Limit \/ ~Translates(va), va \in Nat, Limit \in Nat
    PROVE  ~Accessible(va)
BY DEF Accessible, Translates

\* n more bytes of the page.
LEMMA MovedOn ==
    ASSUME CopyTypes, MovedRight, Left > 0, Translates(va), Admitted,
           call.op = "string" => va < Limit,
           NEW n \in 1..Chunk, call' = call,
           moved' = moved \o [i \in 1..n |-> Physical(va) + i - 1],
           va' = va + n
    PROVE  /\ moved' \in Seq(Nat) /\ Len(moved') = Len(moved) + n /\ Len(moved') <= call.len
           /\ va' = call.addr + Len(moved')
           /\ MovedRight'
           /\ \A i \in 1..Len(moved) : i \in 1..Len(moved')
           /\ \A i \in 1..n : Physical(Byte(Len(moved) + i)) = Physical(va) + i - 1
<1> DEFINE more == [i \in 1..n |-> Physical(va) + i - 1]
<1>1. /\ Chunk \in Nat \ {0} /\ Chunk <= Left /\ Left = call.len - Len(moved)
    BY ChunkFits
<1>2. /\ call.addr \in Nat /\ call.len \in Nat /\ Len(moved) \in Nat /\ va \in Nat
      /\ va = call.addr + Len(moved) /\ moved \in Seq(Nat)
    BY CopyData DEF CopyTypes
<1>3. n \in Nat \ {0} /\ n <= Left
    BY <1>1, <1>2
<1>4. Physical(va) \in Nat
    BY <1>2, PhysicalNat DEF Translates
<1>5. more \in Seq(Nat) /\ Len(more) = n /\ \A i \in 1..n : more[i] = Physical(va) + i - 1
  <2>1. more \in [1..n -> Nat]
      BY <1>3, <1>4
  <2> QED
      BY <2>1, <1>3
<1>6. moved' = moved \o more
    OBVIOUS
<1> HIDE DEF more
<1>7. /\ moved' \in Seq(Nat) /\ Len(moved') = Len(moved) + n
      /\ \A i \in 1..Len(moved) : moved'[i] = moved[i]
      /\ \A i \in 1..n : moved'[Len(moved) + i] = more[i]
  <2>0. moved \in Seq(Nat) /\ more \in Seq(Nat)
      BY <1>2, <1>5
  <2>1. /\ moved \o more \in Seq(Nat) /\ Len(moved \o more) = Len(moved) + Len(more)
        /\ \A i \in 1..Len(moved) : (moved \o more)[i] = moved[i]
        /\ \A i \in 1..Len(more) : (moved \o more)[Len(moved) + i] = more[i]
      BY ONLY <2>0, ConcatAt
  <2> QED
      BY <2>1, <1>5, <1>6
<1>8. \A i \in 1..n : /\ Byte(Len(moved) + i) = va + (i - 1)
                      /\ Accessible(Byte(Len(moved) + i))
                      /\ Physical(Byte(Len(moved) + i)) = Physical(va) + i - 1
  <2> SUFFICES ASSUME NEW i \in 1..n
               PROVE  /\ Byte(Len(moved) + i) = va + (i - 1)
                      /\ Accessible(Byte(Len(moved) + i))
                      /\ Physical(Byte(Len(moved) + i)) = Physical(va) + i - 1
      OBVIOUS
  <2>1. Byte(Len(moved) + i) = va + (i - 1)
      BY <1>2, <1>3 DEF Byte
  <2>2. i - 1 \in 0..(Chunk - 1)
      BY <1>1, <1>3
  <2>3. Accessible(va + (i - 1)) /\ Physical(va + (i - 1)) = Physical(va) + (i - 1)
      BY <2>2, ChunkAccessible
  <2>4. Physical(va) + (i - 1) = Physical(va) + i - 1
      BY <1>3, <1>4
  <2> QED
      BY <2>1, <2>3, <2>4
<1>9. MovedRight'
  <2> SUFFICES ASSUME NEW i \in 1..Len(moved')
               PROVE  Accessible(Byte(i)) /\ moved'[i] = Physical(Byte(i))
      BY DEF MovedRight, Byte, Accessible, Physical, PageOf
  <2>1. CASE i <= Len(moved)
      BY <2>1, <1>2, <1>7 DEF MovedRight
  <2>2. CASE i > Len(moved)
    <3>1. i - Len(moved) \in 1..n /\ i = Len(moved) + (i - Len(moved))
        BY <2>2, <1>2, <1>3, <1>7
    <3> DEFINE k == i - Len(moved)
    <3>2. k \in 1..n /\ i = Len(moved) + k
        BY <3>1
    <3> HIDE DEF k
    <3>3. moved'[i] = more[k] /\ more[k] = Physical(va) + k - 1
        BY <3>2, <1>5, <1>7
    <3>4. Accessible(Byte(i)) /\ Physical(Byte(i)) = Physical(va) + k - 1
        BY <3>2, <1>8
    <3> QED
        BY <3>3, <3>4
  <2> QED
      BY <2>1, <2>2, <1>2
<1>10. Len(moved') <= call.len /\ va' = call.addr + Len(moved')
    BY <1>1, <1>2, <1>3, <1>7
<1>11. \A i \in 1..Len(moved) : i \in 1..Len(moved')
    BY <1>2, <1>3, <1>7
<1> QED
    BY <1>7, <1>8, <1>9, <1>10, <1>11

LEMMA AccessibleStays ==
    ASSUME call' = call
    PROVE  /\ Ends' = Ends
           /\ \A a : Accessible(a)' = Accessible(a) /\ Physical(a)' = Physical(a)
           /\ \A n : Bytes(n)' = Bytes(n)
BY DEF Ends, Accessible, Physical, Bytes, PageOf

-----------------------------------------------------------------------------
LEMMA CopyInitInv == CopyInit => CopyInv
<1> SUFFICES ASSUME CopyInit
             PROVE  CopyInv
    OBVIOUS
<1>1. moved = <<>> /\ Len(moved) = 0 /\ moved \in Seq(Nat) /\ va = call.addr /\ call \in Calls
    BY DEF CopyInit
<1>2. CopyTypes
    BY <1>1, UserCopyAssumption DEF CopyTypes, CopyInit
<1>3. /\ call.addr \in Nat /\ call.len \in Nat /\ MinAddr \in Nat /\ Limit \in Nat
      /\ call.op \in {"to", "from", "string"}
    BY <1>2, CopyData
<1>4. result = IF Admitted THEN "running" ELSE "failed"
    BY DEF CopyInit, Admitted
<1>5. ASSUME ~Admitted, call.op # "string"
      PROVE  \E a \in Bytes(call.len) : ~Accessible(a)
  <2>1. /\ call.len # 0
        /\ call.addr < MinAddr \/ call.addr >= Limit \/ call.len > Limit - call.addr
      BY <1>5, <1>3 DEF Admitted, user_range_valid
  <2>2. CASE call.addr < MinAddr \/ call.addr >= Limit
      BY <2>1, <2>2, <1>3 DEF Bytes, Accessible
  <2>3. CASE call.addr >= MinAddr /\ call.addr < Limit
    <3>1. Limit \in Bytes(call.len)
        BY <2>1, <2>3, <1>3 DEF Bytes
    <3> QED
        BY <3>1, <1>3 DEF Accessible
  <2> QED
      BY <2>2, <2>3, <1>3
<1>6. ASSUME ~Admitted, call.op = "string"
      PROVE  Ends = {}
  <2>1. call.len = 0 \/ call.addr < MinAddr \/ call.addr >= Limit
      BY <1>6, <1>3 DEF Admitted, user_range_valid
  <2> SUFFICES ASSUME NEW n \in 1..call.len, \A a \in Bytes(n) : Accessible(a)
               PROVE  FALSE
      BY DEF Ends
  <2>2. call.addr \in Bytes(n)
      BY <1>3 DEF Bytes
  <2> QED
      BY <2>1, <2>2, <1>3 DEF Accessible
<1>7. CopyExact
    BY <1>1, <1>3, <1>4, <1>5, <1>6 DEF CopyExact
<1>8. NoEndYet
    BY <1>1 DEF NoEndYet
<1> QED
    BY <1>2, <1>4, <1>7, <1>8 DEF CopyInv

LEMMA CopyPageInv ==
    ASSUME CopyInv, CopyPage
    PROVE  CopyInv'
<1>1. /\ result = "running" /\ call.op # "string" /\ Left > 0 /\ Translates(va)
      /\ call' = call /\ result' = result /\ va' = va + Chunk
      /\ moved' = moved \o [i \in 1..Chunk |-> Physical(va) + i - 1]
    BY DEF CopyPage, Copying
<1>2. CopyTypes /\ MovedRight /\ Admitted
    BY <1>1 DEF CopyInv, CopyExact, MovedRight, Byte
<1>3. Chunk \in 1..Chunk
    BY <1>1, <1>2, ChunkFits
<1>4. /\ moved' \in Seq(Nat) /\ Len(moved') <= call.len /\ va' = call.addr + Len(moved')
      /\ MovedRight'
    BY <1>1, <1>2, <1>3, MovedOn
<1>5. CopyTypes'
    BY <1>1, <1>2, <1>4 DEF CopyTypes
<1>6. CopyExact'
    BY <1>1, <1>4 DEF CopyExact, MovedRight, Byte
<1>7. (Admitted /\ NoEndYet)'
    BY <1>1, <1>2 DEF Admitted, NoEndYet, user_range_valid
<1> QED
    BY <1>5, <1>6, <1>7 DEF CopyInv

\* A call that ends without moving anything more.
LEMMA CopyEndInv ==
    ASSUME CopyInv, UNCHANGED <<call, va, moved>>, result' \in {"ok", "failed"},
           call.op # "string" =>
               /\ result' = "ok" => Len(moved) = call.len
               /\ result' = "failed" => \E a \in Bytes(call.len) : ~Accessible(a),
           call.op = "string" => result' = "failed" /\ Ends = {}
    PROVE  CopyInv'
<1>1. CopyTypes'
    BY DEF CopyInv, CopyTypes
<1>2. /\ Ends' = Ends
      /\ \A a : Accessible(a)' = Accessible(a) /\ Physical(a)' = Physical(a)
      /\ \A n : Bytes(n)' = Bytes(n)
    BY AccessibleStays
<1>3. CopyExact'
    BY <1>2 DEF CopyInv, CopyExact, Accessible, Physical, PageOf, Bytes, Ends
<1> QED
    BY <1>1, <1>3 DEF CopyInv

LEMMA CopyFaultInv ==
    ASSUME CopyInv, CopyFault
    PROVE  CopyInv'
<1>1. /\ result = "running" /\ call.op # "string" /\ Left > 0 /\ ~Translates(va)
      /\ result' = "failed" /\ UNCHANGED <<call, va, moved>>
    BY DEF CopyFault, Copying
<1>2. /\ call.addr \in Nat /\ call.len \in Nat /\ Len(moved) \in Nat /\ va \in Nat
      /\ Limit \in Nat /\ va = call.addr + Len(moved)
    BY CopyData DEF CopyInv, CopyTypes
<1>3. va \in Bytes(call.len)
    BY <1>1, <1>2 DEF Left, Bytes
<1>4. ~Accessible(va)
    BY <1>1, <1>2, FaultInaccessible
<1> QED
    BY <1>1, <1>3, <1>4, CopyEndInv

LEMMA CopyDoneInv ==
    ASSUME CopyInv, CopyDone
    PROVE  CopyInv'
<1>1. /\ call.op # "string" /\ Left = 0
      /\ result' = "ok" /\ UNCHANGED <<call, va, moved>>
    BY DEF CopyDone, Copying
<1>2. call.len \in Nat /\ Len(moved) \in Nat
    BY CopyData DEF CopyInv
<1>3. Len(moved) = call.len
    BY <1>1, <1>2 DEF Left
<1> QED
    BY <1>1, <1>3, CopyEndInv

\* A string cannot end where no zero byte is, nor behind a byte without access.
LEMMA NoEnds ==
    ASSUME CopyTypes, call.op = "string", NoEndYet,
           Left = 0 \/ ~Accessible(va)
    PROVE  Ends = {}
<1>1. /\ call.addr \in Nat /\ call.len \in Nat /\ Len(moved) \in Nat /\ va \in Nat
      /\ va = call.addr + Len(moved)
    BY CopyData DEF CopyTypes
<1> SUFFICES ASSUME NEW n \in 1..call.len, \A a \in Bytes(n) : Accessible(a),
                    Physical(call.addr + n - 1) \in call.zeros
             PROVE  FALSE
    BY DEF Ends
<1>2. n > Len(moved)
    BY <1>1 DEF NoEndYet, Byte
<1>3. Left # 0
    BY <1>1, <1>2 DEF Left
<1>4. va \in Bytes(n)
    BY <1>1, <1>2 DEF Bytes
<1> QED
    BY <1>3, <1>4

LEMMA StringPageInv ==
    ASSUME CopyInv, StringPage
    PROVE  CopyInv'
<1> DEFINE ends == {i \in 1..Chunk : Physical(va) + i - 1 \in call.zeros}
           n == IF ends = {} THEN Chunk ELSE CHOOSE i \in ends : \A j \in ends : i <= j
<1>1. /\ result = "running" /\ call.op = "string" /\ Left > 0 /\ va < Limit /\ Translates(va)
      /\ call' = call /\ va' = va + n
      /\ moved' = moved \o [i \in 1..n |-> Physical(va) + i - 1]
      /\ result' = IF ends = {} THEN "running" ELSE "ok"
    BY DEF StringPage, Reading
<1>2. CopyTypes /\ MovedRight /\ Admitted /\ NoEndYet
    BY <1>1 DEF CopyInv, CopyExact, MovedRight, Byte
<1>3. Chunk \in Nat \ {0}
    BY <1>1, <1>2, ChunkFits
<1>4. /\ n \in 1..Chunk
      /\ ends # {} => n \in ends /\ \A j \in ends : n <= j
  <2>1. CASE ends = {}
      BY <2>1, <1>3
  <2>2. CASE ends # {}
    <3>1. ends \subseteq Nat /\ ends \subseteq 1..Chunk
        BY <1>3
    <3> HIDE DEF ends
    <3>2. \E i \in ends : \A j \in ends : i <= j
        BY <2>2, <3>1, LeastNat
    <3>3. n \in ends /\ \A j \in ends : n <= j
        BY <2>2, <3>2
    <3> QED
        BY <3>1, <3>3
  <2> QED
      BY <2>1, <2>2
<1>5. \A i \in 1..Chunk : i \in ends <=> Physical(va) + i - 1 \in call.zeros
    OBVIOUS
<1> HIDE DEF ends, n
<1>6. /\ moved' \in Seq(Nat) /\ Len(moved') = Len(moved) + n /\ Len(moved') <= call.len
      /\ va' = call.addr + Len(moved') /\ MovedRight'
      /\ \A i \in 1..n : Physical(Byte(Len(moved) + i)) = Physical(va) + i - 1
    BY <1>1, <1>2, <1>4, MovedOn
<1>7. CopyTypes'
    BY <1>1, <1>2, <1>6 DEF CopyTypes
<1>8. /\ call.addr \in Nat /\ call.len \in Nat /\ Len(moved) \in Nat /\ n \in Nat \ {0}
      /\ n <= Chunk
    BY <1>2, <1>3, <1>4, CopyData
<1>9. \A i \in 1..Len(moved') : Physical(Byte(i)) \in call.zeros => i = Len(moved') /\ ends # {}
  <2> SUFFICES ASSUME NEW i \in 1..Len(moved'), Physical(Byte(i)) \in call.zeros
               PROVE  i = Len(moved') /\ ends # {}
      OBVIOUS
  <2>1. i > Len(moved)
      BY <1>1, <1>2, <1>8 DEF NoEndYet
  <2> DEFINE k == i - Len(moved)
  <2>2. k \in 1..n /\ i = Len(moved) + k
      BY <2>1, <1>6, <1>8
  <2> HIDE DEF k
  <2>3. Physical(va) + k - 1 \in call.zeros
      BY <2>2, <1>6
  <2>4. k \in 1..Chunk
      BY <2>2, <1>3, <1>8
  <2>5. k \in ends
      BY <2>3, <2>4, <1>5
  <2>6. n <= k
      BY <2>5, <1>4
  <2> QED
      BY <2>2, <2>5, <2>6, <1>6, <1>8
<1>10. CASE ends = {}
  <2>1. result' = "running"
      BY <1>1, <1>10
  <2>2. NoEndYet'
      BY <1>1, <1>9, <1>10 DEF NoEndYet, Byte, Physical, PageOf
  <2>3. Admitted'
      BY <1>1, <1>2 DEF Admitted, user_range_valid
  <2>4. CopyExact'
      BY <1>1, <2>1, <1>6 DEF CopyExact, MovedRight, Byte
  <2> QED
      BY <1>7, <2>2, <2>3, <2>4 DEF CopyInv
<1>11. CASE ends # {}
  <2>1. result' = "ok"
      BY <1>1, <1>11
  <2>2. Physical(Byte(Len(moved'))) \in call.zeros
    <3>1. n \in ends /\ n \in 1..Chunk /\ n \in 1..n
        BY <1>4, <1>8, <1>11
    <3>2. Physical(va) + n - 1 \in call.zeros
        BY <3>1, <1>5
    <3>3. Physical(Byte(Len(moved) + n)) = Physical(va) + n - 1
        BY <3>1, <1>6
    <3> QED
        BY <3>2, <3>3, <1>6
  <2>3. \A i \in 1..Len(moved') : Accessible(Byte(i))
      BY <1>1, <1>6 DEF MovedRight, Byte, Accessible, Physical, PageOf
  <2>4. Len(moved') \in 1..call.len
      BY <1>6, <1>8
  <2>5. \A a \in Bytes(Len(moved')) : Accessible(a)
    <3> SUFFICES ASSUME NEW a \in Bytes(Len(moved'))
                 PROVE  Accessible(a)
        OBVIOUS
    <3>1. a - call.addr + 1 \in 1..Len(moved') /\ a = Byte(a - call.addr + 1)
        BY <2>4, <1>8 DEF Bytes, Byte
    <3> QED
        BY <3>1, <2>3
  <2>6. Len(moved') \in Ends
      BY <2>2, <2>4, <2>5 DEF Ends, Byte
  <2>7. \A m \in Ends : Len(moved') <= m
    <3> SUFFICES ASSUME NEW m \in Ends, m < Len(moved')
                 PROVE  FALSE
        BY <2>4, <1>8 DEF Ends
    <3>1. m \in 1..Len(moved') /\ Physical(Byte(m)) \in call.zeros
        BY <2>4, <1>8 DEF Ends, Byte
    <3> QED
        BY <3>1, <1>9, <2>4
  <2>8. Ends' = Ends
      BY <1>1, AccessibleStays
  <2>9. CopyExact'
      BY <1>1, <2>1, <1>6, <2>6, <2>7, <2>8 DEF CopyExact, MovedRight, Byte
  <2> QED
      BY <2>1, <1>7, <2>9 DEF CopyInv
<1> QED
    BY <1>10, <1>11

LEMMA StringFaultInv ==
    ASSUME CopyInv, StringFault
    PROVE  CopyInv'
<1>1. /\ result = "running" /\ call.op = "string"
      /\ va >= Limit \/ ~Translates(va)
      /\ result' = "failed" /\ UNCHANGED <<call, va, moved>>
    BY DEF StringFault, Reading
<1>2. CopyTypes /\ NoEndYet
    BY <1>1 DEF CopyInv
<1>3. ~Accessible(va)
    BY <1>1, <1>2, FaultInaccessible, CopyData
<1> QED
    BY <1>1, <1>2, <1>3, NoEnds, CopyEndInv

LEMMA StringTooLongInv ==
    ASSUME CopyInv, StringTooLong
    PROVE  CopyInv'
<1>1. /\ result = "running" /\ call.op = "string" /\ Left = 0
      /\ result' = "failed" /\ UNCHANGED <<call, va, moved>>
    BY DEF StringTooLong, Reading
<1>2. CopyTypes /\ NoEndYet
    BY <1>1 DEF CopyInv
<1> QED
    BY <1>1, <1>2, NoEnds, CopyEndInv

LEMMA CopyStutterInv ==
    ASSUME CopyInv, UNCHANGED copyVars
    PROVE  CopyInv'
BY DEF copyVars, CopyInv, CopyTypes, CopyExact, Admitted, NoEndYet, Byte, Accessible, Physical,
       PageOf, Bytes, Ends, user_range_valid

\* Whatever the range, its alignment and the page tables: a copy moves exactly
\* the bytes the program itself could access, each through its own page, and
\* succeeds if and only if that is all of them; a string is read up to its
\* first zero byte and no further.
THEOREM CopiesExactly == CopySpec => []CopyExact
<1>1. CopyInit => CopyInv
    BY CopyInitInv
<1>2. CopyInv /\ [CopyNext]_copyVars => CopyInv'
    BY CopyPageInv, CopyFaultInv, CopyDoneInv, StringPageInv, StringFaultInv, StringTooLongInv,
       CopyStutterInv DEF CopyNext
<1>3. CopyInv => CopyExact
    BY DEF CopyInv
<1> QED
    BY <1>1, <1>2, <1>3, PTL DEF CopySpec

-----------------------------------------------------------------------------
(***************************************************************************)
(* The console, for any screen, font, line length and keyboard.            *)
(***************************************************************************)
(***************************************************************************)
(* The ring of pixel rows, in lines of text: the line l of the screen is   *)
(* in the slot Slot(l, r) of the ring, when the ring has turned by r.      *)
(***************************************************************************)
F == FontRows
Lines == Height \div FontRows
Line == 0..(Lines - 1)
Column == 0..(Columns - 1)
Glyph == 0..(FontRows - 1)
Symbol == Chars \cup {Space}
Ink == Symbol \X Glyph
Pixels == [0..(Height - 1) -> [Column -> Ink]]
Texts == [Line -> [Column -> Symbol]]

Slot(l, r) == IF l + r < Lines THEN l + r ELSE l + r - Lines

Turned(off) == (off \div FontRows) % Lines
NextTurn(r) == IF r + 1 = Lines THEN 0 ELSE r + 1

Offset(off) == off \in 0..(Word - 1) /\ off = (off \div FontRows) * FontRows

LEMMA Dimensions ==
    /\ FontRows \in Nat \ {0} /\ Height \in Nat \ {0} /\ Word \in Nat \ {0}
    /\ Columns \in Nat \ {0}
    /\ Lines \in Nat \ {0} /\ Height = Lines * FontRows
    /\ Word \div Height \in Nat \ {0} /\ Word = (Word \div Height) * Height
<1>1. /\ FontRows \in Nat \ {0} /\ Height \in Nat \ {0} /\ Word \in Nat \ {0}
      /\ Columns \in Nat \ {0} /\ Height % FontRows = 0 /\ Word % Height = 0
    BY ScreenAssumption
<1>2. Lines \in Nat /\ Height = Lines * FontRows
    BY <1>1, DivisionNat DEF Lines
<1>3. Word \div Height \in Nat /\ Word = (Word \div Height) * Height
    BY <1>1, DivisionNat
<1>4. Lines # 0 /\ Word \div Height # 0
    BY <1>1, <1>2, <1>3
<1> QED
    BY <1>1, <1>2, <1>3, <1>4

\* Products stay natural numbers, and order follows the factor.
LEMMA Products ==
    ASSUME NEW d \in Nat \ {0}, NEW p \in Nat
    PROVE  /\ p * d \in Nat
           /\ \A q \in Nat : p < q => p * d + d <= q * d
<1>1. p * d \in Nat
    OBVIOUS
<1>2. ASSUME NEW q \in Nat, p < q
      PROVE  p * d + d <= q * d
  <2>1. (q - (p + 1)) * d >= 0
      BY <1>2
  <2> QED
      BY <2>1, <1>1
<1> QED
    BY <1>1, <1>2

LEMMA ModMod ==
    ASSUME NEW a \in Nat
    PROVE  (a % Word) % Height = a % Height
<1> DEFINE m == Word \div Height
           q == a \div Word
           b == a % Word
           c == b \div Height
           e == b % Height
<1>1. Height \in Nat \ {0} /\ Word \in Nat \ {0} /\ m \in Nat \ {0} /\ Word = m * Height
    BY Dimensions
<1>2. q \in Nat /\ b \in Nat /\ a = q * Word + b
    BY <1>1, DivisionNat
<1>3. c \in Nat /\ e \in 0..(Height - 1) /\ b = c * Height + e
    BY <1>1, <1>2, DivisionNat
<1> HIDE DEF m, q, b, c, e
<1>4. q * m \in Nat /\ q * m + c \in Nat
    BY <1>1, <1>2, <1>3
<1>5. (q * m + c) * Height = q * (m * Height) + c * Height
    BY <1>1, <1>2, <1>3
<1>6. c * Height \in Nat /\ q * (m * Height) \in Nat
    BY <1>1, <1>2, <1>3
<1>7. a = (q * m + c) * Height + e
    BY <1>1, <1>2, <1>3, <1>5, <1>6
<1>8. a % Height = e
    BY <1>1, <1>3, <1>4, <1>7, DivisionUnique
<1> QED
    BY <1>8 DEF e, b

\* Turning a line number by k.
LEMMA SlotIs ==
    ASSUME NEW k \in Nat, NEW l \in Line
    PROVE  /\ k % Lines \in 0..(Lines - 1)
           /\ Slot(l, k % Lines) \in Line
           /\ (l + k) % Lines = Slot(l, k % Lines)
<1> DEFINE q == k \div Lines
           r == k % Lines
<1>1. Lines \in Nat \ {0} /\ l \in Nat /\ l < Lines
    BY Dimensions DEF Line
<1>2. q \in Nat /\ r \in 0..(Lines - 1) /\ q * Lines \in Nat /\ k = q * Lines + r
    BY <1>1, DivisionNat
<1> HIDE DEF q, r
<1>3. Slot(l, r) \in Line
    BY <1>1, <1>2 DEF Slot, Line
<1>4. (l + k) % Lines = Slot(l, r)
  <2>1. CASE l + r < Lines
    <3>1. l + k = q * Lines + (l + r) /\ l + r \in 0..(Lines - 1)
        BY <2>1, <1>1, <1>2
    <3>2. (q * Lines + (l + r)) % Lines = l + r
        BY <3>1, <1>1, <1>2, DivisionUnique
    <3> QED
        BY <2>1, <3>1, <3>2 DEF Slot
  <2>2. CASE ~(l + r < Lines)
    <3>1. l + r - Lines \in 0..(Lines - 1) /\ q + 1 \in Nat
        BY <2>2, <1>1, <1>2
    <3>2. (q + 1) * Lines = q * Lines + Lines
        BY <1>1, <1>2
    <3>3. l + k = (q + 1) * Lines + (l + r - Lines)
        BY <3>2, <1>1, <1>2
    <3>4. ((q + 1) * Lines + (l + r - Lines)) % Lines = l + r - Lines
        BY <3>1, <1>1, DivisionUnique
    <3> QED
        BY <2>2, <3>3, <3>4 DEF Slot
  <2> QED
      BY <2>1, <2>2
<1> QED
    BY <1>2, <1>3, <1>4 DEF r

\* A slot is a whole number of lines, inside the framebuffer.
LEMMA SlotRows ==
    ASSUME NEW s \in Line, NEW g \in Glyph
    PROVE  /\ s * F \in Nat /\ s * F + g \in 0..(Height - 1)
           /\ s * F + F <= Height
           /\ \A t \in Line, h \in Glyph : s * F + g = t * F + h <=> s = t /\ g = h
<1>1. /\ F \in Nat \ {0} /\ Lines \in Nat \ {0} /\ Height = Lines * F /\ s \in Nat /\ s < Lines
      /\ g \in Nat /\ g < F
    BY Dimensions DEF Line, Glyph, F
<1>2. s * F \in Nat /\ s * F + F <= Lines * F
    BY <1>1, Products
<1>3. s * F + g \in 0..(Height - 1)
    BY <1>1, <1>2
<1>4. ASSUME NEW t \in Line, NEW h \in Glyph, s * F + g = t * F + h
      PROVE  s = t /\ g = h
  <2>1. t \in Nat /\ h \in Nat /\ h < F /\ t * F \in Nat
      BY <1>1 DEF Line, Glyph, F
  <2>2. s <= t /\ t <= s
      BY <2>1, <1>1, <1>2, <1>4, MultipleBelow
  <2> QED
      BY <2>1, <2>2, <1>1, <1>2, <1>4
<1> QED
    BY <1>1, <1>2, <1>3, <1>4

\* Where put_pixel finds the row g of the line l.
LEMMA RealRowIs ==
    ASSUME NEW off, Offset(off), NEW l \in Line, NEW g \in Glyph
    PROVE  /\ Turned(off) \in Line /\ Slot(l, Turned(off)) \in Line
           /\ RealRow(l * F + g, off) = Slot(l, Turned(off)) * F + g
<1> DEFINE k == off \div FontRows
           s == Slot(l, k % Lines)
<1>1. /\ F \in Nat \ {0} /\ Lines \in Nat \ {0} /\ Height = Lines * F /\ l \in Nat /\ g \in Nat
      /\ Height \in Nat \ {0}
    BY Dimensions DEF F, Line, Glyph
<1>2. off \in Nat /\ off = k * F
    BY Dimensions DEF Offset, F
<1>3. k \in Nat
    BY <1>1, <1>2, DivisionNat DEF F
<1>4. k % Lines \in Line /\ s \in Line /\ (l + k) % Lines = s
    BY <1>3, SlotIs DEF Line
<1> HIDE DEF k, s
<1> DEFINE q == (l + k) \div Lines
<1>5. l + k \in Nat
    BY <1>1, <1>3
<1>6. q \in Nat /\ l + k = q * Lines + s
  <2>1. q \in Nat /\ l + k = q * Lines + ((l + k) % Lines)
      BY <1>1, <1>5, DivisionNat
  <2> QED
      BY <2>1, <1>4
<1> HIDE DEF q
<1>7. s \in Nat /\ s * F + g \in 0..(Height - 1)
    BY <1>1, <1>4, SlotRows DEF Line
<1>8. l * F + g + off = q * Height + (s * F + g)
  <2>1. (l + k) * F = l * F + k * F
      BY <1>1, <1>3
  <2>2. (q * Lines + s) * F = q * (Lines * F) + s * F
      BY <1>1, <1>6, <1>7
  <2>3. l * F \in Nat /\ k * F \in Nat /\ q * (Lines * F) \in Nat /\ s * F \in Nat
      BY <1>1, <1>3, <1>6, <1>7
  <2> QED
      BY <2>1, <2>2, <2>3, <1>1, <1>2, <1>6
<1>9. l * F + g + off \in Nat
    BY <1>1, <1>2
<1>10. ((l * F + g + off) % Word) % Height = s * F + g
  <2>1. ((l * F + g + off) % Word) % Height = (l * F + g + off) % Height
      BY <1>9, ModMod
  <2>2. (q * Height + (s * F + g)) % Height = s * F + g
      BY <1>1, <1>6, <1>7, DivisionUnique
  <2> QED
      BY <2>1, <2>2, <1>8
<1> QED
    BY <1>4, <1>10 DEF RealRow, Turned, k, s

\* Moving fb_offset by a line turns the ring by one, also where it wraps.
LEMMA OffsetMoved ==
    ASSUME NEW off, Offset(off), NEW on, on = (off + FontRows) % Word
    PROVE  Offset(on) /\ Turned(on) = NextTurn(Turned(off))
<1> DEFINE k == off \div FontRows
           w == (Word \div Height) * Lines
           m == Word \div Height
<1>1. /\ F \in Nat \ {0} /\ Lines \in Nat \ {0} /\ Word \in Nat \ {0} /\ m \in Nat \ {0}
      /\ Height = Lines * F /\ Word = m * Height
    BY Dimensions DEF F
<1>2. off \in Nat /\ off < Word /\ off = k * F
    BY <1>1 DEF Offset, F
<1>3. k \in Nat
    BY <1>1, <1>2, DivisionNat DEF F
<1>4. w = m * Lines
    OBVIOUS
<1> HIDE DEF k, w, m
<1>5. w \in Nat /\ Word = w * F
  <2>1. m * (Lines * F) = (m * Lines) * F
      BY <1>1
  <2> QED
      BY <2>1, <1>1, <1>4
<1>6. k < w
  <2>1. SUFFICES ASSUME w <= k
                 PROVE  FALSE
      BY <1>3, <1>5
  <2>2. (k - w) * F >= 0
      BY <2>1, <1>1, <1>3, <1>5
  <2>3. k * F >= w * F
      BY <2>2, <1>1, <1>3, <1>5
  <2> QED
      BY <2>3, <1>1, <1>2, <1>5
<1>7. (k + 1) * F = off + F
    BY <1>1, <1>2, <1>3
<1> DEFINE r == k % Lines
<1>8. /\ r \in 0..(Lines - 1)
      /\ (k + 1) % Lines = NextTurn(r)
  <2>1. r \in 0..(Lines - 1) /\ k \div Lines \in Nat /\ k = (k \div Lines) * Lines + r
        /\ (k \div Lines) * Lines \in Nat
      BY <1>1, <1>3, DivisionNat
  <2> DEFINE q == k \div Lines
  <2>2. q \in Nat /\ k = q * Lines + r /\ q * Lines \in Nat /\ (q + 1) * Lines = q * Lines + Lines
      BY <2>1, <1>1
  <2> HIDE DEF q, r
  <2>3. CASE r + 1 = Lines
    <3>1. k + 1 = (q + 1) * Lines + 0 /\ q + 1 \in Nat
        BY <2>1, <2>2, <2>3, <1>1, <1>3
    <3>2. ((q + 1) * Lines + 0) % Lines = 0
        BY <3>1, <1>1, DivisionUnique
    <3> QED
        BY <2>1, <2>3, <3>1, <3>2 DEF NextTurn
  <2>4. CASE r + 1 # Lines
    <3>1. k + 1 = q * Lines + (r + 1) /\ r + 1 \in 0..(Lines - 1)
        BY <2>1, <2>2, <2>4, <1>1, <1>3
    <3>2. (q * Lines + (r + 1)) % Lines = r + 1
        BY <3>1, <2>2, <1>1, DivisionUnique
    <3> QED
        BY <2>1, <2>4, <3>1, <3>2 DEF NextTurn
  <2> QED
      BY <2>1, <2>3, <2>4
<1>9. Turned(off) = r
    BY DEF Turned, k
<1>10. CASE k + 1 < w
  <2>1. off + F \in 0..(Word - 1)
    <3>1. (k + 1) * F + F <= w * F
        BY <1>1, <1>3, <1>5, <1>10, Products
    <3> QED
        BY <3>1, <1>1, <1>2, <1>5, <1>7
  <2>2. on = off + F
    <3>1. (off + F) % Word = off + F
        BY <2>1, <1>1
    <3> QED
        BY <3>1 DEF F
  <2>3. on \div FontRows = k + 1
    <3>1. ((k + 1) * F + 0) \div F = k + 1
        BY <1>1, <1>3, DivisionUnique
    <3> QED
        BY <3>1, <2>2, <1>1, <1>2, <1>7 DEF F
  <2> QED
      BY <2>1, <2>2, <2>3, <1>7, <1>8, <1>9 DEF Offset, Turned, F
<1>11. CASE k + 1 = w
  <2>1. off + F = Word
      BY <1>5, <1>7, <1>11
  <2>2. on = 0
    <3>1. Word % Word = 0
        BY <1>1
    <3> QED
        BY <3>1, <2>1 DEF F
  <2>3. on \div FontRows = 0
      BY <2>2, <1>1 DEF F
  <2>4. NextTurn(r) = 0
    <3>1. (m * Lines + 0) % Lines = 0
        BY <1>1, DivisionUnique
    <3> QED
        BY <3>1, <1>1, <1>4, <1>5, <1>8, <1>11
  <2>5. 0 % Lines = 0
      BY <1>1
  <2> QED
      BY <2>2, <2>3, <2>4, <2>5, <1>1, <1>9 DEF Offset, Turned, F
<1> QED
    BY <1>3, <1>5, <1>6, <1>10, <1>11

-----------------------------------------------------------------------------
(***************************************************************************)
(* Pages of text, and the pixels that show them.                           *)
(***************************************************************************)
\* The ring f, turned by r, shows the page t.
Shows(f, r, t) ==
    \A l \in Line, x \in Column, g \in Glyph : f[Slot(l, r) * F + g][x] = GlyphRow(t[l][x], g)

ShownIn(f, off, l, x) ==
    LET at(g) == f[RealRow(l * FontRows + g, off)][x]
        c == at(0)[1]
    IN  IF \A g \in 0..(FontRows - 1) : at(g) = GlyphRow(c, g) THEN c ELSE "garbled"

PageIn(f, off) == [l \in Line |-> [x \in Column |-> ShownIn(f, off, l, x)]]

Page == PageIn(fb, fb_offset)

MovedUp(t) == [l \in Line |-> IF l + 1 < Lines THEN t[l + 1] ELSE [x \in Column |-> Space]]

Blanks == [l \in Line |-> [x \in Column |-> Space]]

\* Reading the pixels of a page gives the page.
LEMMA PageRead ==
    ASSUME NEW f, NEW off, Offset(off), NEW t \in Texts, Shows(f, Turned(off), t)
    PROVE  PageIn(f, off) = t
<1>1. ASSUME NEW l \in Line, NEW x \in Column
      PROVE  ShownIn(f, off, l, x) = t[l][x]
  <2> DEFINE at(g) == f[RealRow(l * FontRows + g, off)][x]
             c == t[l][x]
  <2>1. \A g \in Glyph : at(g) = GlyphRow(c, g)
    <3> SUFFICES ASSUME NEW g \in Glyph
                 PROVE  at(g) = GlyphRow(c, g)
        OBVIOUS
    <3>1. RealRow(l * F + g, off) = Slot(l, Turned(off)) * F + g
        BY RealRowIs
    <3> QED
        BY <3>1 DEF Shows, F
  <2>2. 0 \in Glyph
      BY Dimensions DEF Glyph
  <2>3. at(0)[1] = c
    <3>1. GlyphRow(c, 0)[1] = c
        BY DEF GlyphRow, Blank
    <3> QED
        BY <3>1, <2>1, <2>2
  <2>4. ShownIn(f, off, l, x) =
            IF \A g \in Glyph : at(g) = GlyphRow(at(0)[1], g) THEN at(0)[1] ELSE "garbled"
      BY DEF ShownIn, Glyph
  <2> HIDE DEF at, c
  <2>5. ShownIn(f, off, l, x) = c
      BY <2>1, <2>3, <2>4
  <2> QED
      BY <2>5 DEF c
<1>2. PageIn(f, off) = [l \in Line |-> [x \in Column |-> t[l][x]]]
    BY <1>1 DEF PageIn
<1>3. /\ t = [l \in Line |-> t[l]]
      /\ \A l \in Line : t[l] = [x \in Column |-> t[l][x]]
    BY DEF Texts
<1> QED
    BY <1>2, <1>3

\* Different lines are in different slots.
LEMMA SlotsApart ==
    ASSUME NEW r \in Line, NEW l \in Line, NEW m \in Line
    PROVE  /\ Slot(l, r) \in Line
           /\ Slot(l, r) = Slot(m, r) => l = m
           /\ NextTurn(r) \in Line
           /\ Slot(l, NextTurn(r)) = IF l + 1 < Lines THEN Slot(l + 1, r) ELSE r
           /\ Slot(l, r) = r <=> l = 0
BY Dimensions DEF Slot, Line, NextTurn

LEMMA GlyphRowInk ==
    ASSUME NEW c \in Symbol, NEW g \in Glyph
    PROVE  GlyphRow(c, g) \in Ink /\ Blank \in Ink
BY Dimensions DEF GlyphRow, Blank, Ink, Symbol, Glyph

\* draw_char puts one character in its place and leaves the others.
LEMMA DrawnShows ==
    ASSUME NEW f \in Pixels, NEW off, Offset(off), NEW t \in Texts, Shows(f, Turned(off), t),
           NEW c \in Symbol, NEW x \in Column, NEW l \in Line
    PROVE  /\ Drawn(f, c, x, l * FontRows, off) \in Pixels
           /\ [t EXCEPT ![l][x] = c] \in Texts
           /\ Shows(Drawn(f, c, x, l * FontRows, off), Turned(off), [t EXCEPT ![l][x] = c])
<1> DEFINE r == Turned(off)
           s == Slot(l, r)
           d == Drawn(f, c, x, l * FontRows, off)
           u == [t EXCEPT ![l][x] = c]
           chosen(row) == CHOOSE g \in Glyph : RealRow(l * F + g, off) = row
<1>0. 0 \in Glyph
    BY Dimensions DEF Glyph
<1>1. r \in Line /\ s \in Line
    BY <1>0, RealRowIs
<1>2. \A g \in Glyph : RealRow(l * F + g, off) = s * F + g
    BY RealRowIs
<1>3. d = [row \in 0..(Height - 1) |->
             IF \E g \in Glyph : RealRow(l * F + g, off) = row
             THEN [f[row] EXCEPT ![x] = GlyphRow(c, chosen(row))]
             ELSE f[row]]
    BY DEF Drawn, Glyph, F
<1> HIDE DEF r, s, d
<1>4. ASSUME NEW row \in 0..(Height - 1)
      PROVE  /\ f[row] \in [Column -> Ink]
             /\ (\E g \in Glyph : RealRow(l * F + g, off) = row) => chosen(row) \in Glyph
  <2>1. f[row] \in [Column -> Ink]
      BY DEF Pixels
  <2> QED
      BY <2>1
<1>5. ASSUME NEW g \in Glyph
      PROVE  chosen(s * F + g) = g
  <2>1. RealRow(l * F + g, off) = s * F + g
      BY <1>2
  <2>2. \A h \in Glyph : RealRow(l * F + h, off) = s * F + g => h = g
      BY <1>1, <1>2, SlotRows
  <2> QED
      BY <2>1, <2>2
<1>6. d \in Pixels
  <2>1. \A row \in 0..(Height - 1) : d[row] \in [Column -> Ink]
    <3> SUFFICES ASSUME NEW row \in 0..(Height - 1)
                 PROVE  d[row] \in [Column -> Ink]
        OBVIOUS
    <3>1. f[row] \in [Column -> Ink]
        BY <1>4
    <3>2. CASE \E g \in Glyph : RealRow(l * F + g, off) = row
      <4>1. chosen(row) \in Glyph
          BY <3>2, <1>4
      <4>2. d[row] = [f[row] EXCEPT ![x] = GlyphRow(c, chosen(row))]
          BY <3>2, <1>3
      <4> HIDE DEF chosen
      <4> QED
          BY <4>1, <4>2, <3>1, GlyphRowInk
    <3>3. CASE ~\E g \in Glyph : RealRow(l * F + g, off) = row
        BY <3>1, <3>3, <1>3
    <3> QED
        BY <3>2, <3>3
  <2> QED
      BY <2>1, <1>3 DEF Pixels
<1>7. u \in Texts /\ \A m \in Line, y \in Column :
                        u[m][y] = IF m = l /\ y = x THEN c ELSE t[m][y]
  <2>1. \A m \in Line : t[m] \in [Column -> Symbol]
      BY DEF Texts
  <2>2. u = [t EXCEPT ![l] = [t[l] EXCEPT ![x] = c]]
      OBVIOUS
  <2> QED
      BY <2>1, <2>2 DEF Texts
<1> HIDE DEF u, chosen
<1>8. Shows(d, r, u)
  <2> SUFFICES ASSUME NEW m \in Line, NEW y \in Column, NEW g \in Glyph
               PROVE  d[Slot(m, r) * F + g][y] = GlyphRow(u[m][y], g)
      BY DEF Shows
  <2> DEFINE row == Slot(m, r) * F + g
  <2>1. Slot(m, r) \in Line /\ (Slot(m, r) = s <=> m = l)
      BY <1>1, SlotsApart DEF s
  <2>2. row \in 0..(Height - 1) /\ \A h \in Glyph : s * F + h = row <=> s = Slot(m, r) /\ h = g
    <3>1. row \in 0..(Height - 1)
        BY <2>1, SlotRows
    <3>2. \A h \in Glyph : Slot(m, r) * F + g = s * F + h <=> Slot(m, r) = s /\ g = h
        BY <2>1, <1>1, SlotRows
    <3> QED
        BY <3>1, <3>2
  <2>3. f[row][y] = GlyphRow(t[m][y], g)
      BY DEF Shows, r
  <2>4. f[row] \in [Column -> Ink]
      BY <2>2, <1>4
  <2>5. row = Slot(m, r) * F + g
      OBVIOUS
  <2> HIDE DEF row
  <2>6. CASE m = l
    <3>1. RealRow(l * F + g, off) = row /\ chosen(row) = g
        BY <2>1, <2>5, <2>6, <1>2, <1>5
    <3>2. d[row] = [f[row] EXCEPT ![x] = GlyphRow(c, g)]
        BY <3>1, <2>2, <1>3
    <3> QED
        BY <3>2, <2>3, <2>4, <2>5, <2>6, <1>7
  <2>7. CASE m # l
    <3>1. ~\E h \in Glyph : RealRow(l * F + h, off) = row
        BY <2>1, <2>2, <2>7, <1>2
    <3>2. d[row] = f[row]
        BY <3>1, <2>2, <1>3
    <3> QED
        BY <3>2, <2>3, <2>5, <2>7, <1>7
  <2> QED
      BY <2>6, <2>7
<1> QED
    BY <1>6, <1>7, <1>8 DEF d, u, r

\* Turning the ring and clearing the slot that comes round moves the page up.
LEMMA ScrolledShows ==
    ASSUME NEW f \in Pixels, NEW off, Offset(off), NEW t \in Texts, Shows(f, Turned(off), t),
           NEW on, on = (off + FontRows) % Word
    PROVE  /\ Scrolled(f, on) \in Pixels /\ MovedUp(t) \in Texts
           /\ Offset(on) /\ Shows(Scrolled(f, on), Turned(on), MovedUp(t))
<1> DEFINE r == Turned(off)
           d == Scrolled(f, on)
           clear == (on + Height - FontRows) % Height
           last == Lines - 1
<1>0. 0 \in Glyph /\ last \in Line /\ F \in Nat \ {0} /\ Height = Lines * F /\ Lines \in Nat \ {0}
      /\ Height \in Nat
    BY Dimensions DEF Glyph, Line, F
<1>1. Offset(on) /\ Turned(on) = NextTurn(r)
    BY OffsetMoved
<1>2. r \in Line
    BY <1>0, RealRowIs
<1>3. on \in Nat
    BY <1>1, Dimensions DEF Offset
<1>4. clear = r * F
  <2>1. RealRow(last * F + 0, on) = Slot(last, Turned(on)) * F + 0
      BY <1>0, <1>1, RealRowIs
  <2>2. Slot(last, Turned(on)) = r
    <3>1. ~(last + 1 < Lines)
        BY <1>0
    <3> QED
        BY <3>1, <1>0, <1>1, <1>2, SlotsApart
  <2>3. last * F = Height - F /\ Height - F \in Nat
    <3>1. (Lines - 1) * F = Lines * F - F /\ (Lines - 1) * F \in Nat
        BY <1>0
    <3> QED
        BY <3>1, <1>0
  <2>4. last * F + 0 + on = on + Height - FontRows /\ on + Height - FontRows \in Nat
      BY <2>3, <1>0, <1>3 DEF F
  <2> HIDE DEF last
  <2>5. ((last * F + 0 + on) % Word) % Height = clear
      BY <2>4, ModMod
  <2>6. r * F \in Nat
      BY <1>0, <1>2 DEF Line
  <2> QED
      BY <2>1, <2>2, <2>5, <2>6 DEF RealRow
<1>5. d = [row \in 0..(Height - 1) |->
             IF row \in clear..(clear + F - 1) THEN [x \in Column |-> Blank] ELSE f[row]]
    BY DEF Scrolled, Column, F
<1> HIDE DEF r, d, clear, last
<1>6. Blank \in Ink
    BY Dimensions DEF Blank, Ink, Symbol, Glyph
<1>7. d \in Pixels
    BY <1>5, <1>6 DEF Pixels
<1> DEFINE u == MovedUp(t)
<1>8. u \in Texts /\ \A l \in Line, x \in Column :
                        u[l][x] = IF l + 1 < Lines THEN t[l + 1][x] ELSE Space
  <2>1. \A l \in Line : l + 1 < Lines => l + 1 \in Line
      BY <1>0 DEF Line
  <2>2. \A l \in Line : t[l] \in [Column -> Symbol]
      BY DEF Texts
  <2>3. [x \in Column |-> Space] \in [Column -> Symbol]
      BY DEF Symbol
  <2>4. \A l \in Line : u[l] = IF l + 1 < Lines THEN t[l + 1] ELSE [x \in Column |-> Space]
      BY DEF MovedUp
  <2>5. \A l \in Line : u[l] \in [Column -> Symbol]
      BY <2>1, <2>2, <2>3, <2>4
  <2>6. u \in Texts
      BY <2>5 DEF MovedUp, Texts
  <2> HIDE DEF u
  <2> QED
      BY <2>4, <2>6
<1> HIDE DEF u
<1>9. Shows(d, Turned(on), u)
  <2> SUFFICES ASSUME NEW l \in Line, NEW y \in Column, NEW g \in Glyph
               PROVE  d[Slot(l, Turned(on)) * F + g][y] = GlyphRow(u[l][y], g)
      BY DEF Shows
  <2>1. g \in Nat /\ g < F /\ r * F \in Nat
      BY <1>0, <1>2 DEF Glyph, Line, F
  <2>2. CASE l + 1 < Lines
    <3>1. l + 1 \in Line
        BY <2>2, <1>0 DEF Line
    <3> DEFINE s == Slot(l + 1, r)
    <3>2. s \in Line /\ s # r /\ Slot(l, Turned(on)) = s
        BY <3>1, <2>2, <1>1, <1>2, SlotsApart DEF Line
    <3>3. f[s * F + g][y] = GlyphRow(t[l + 1][y], g)
        BY <3>1 DEF Shows, r
    <3> HIDE DEF s
    <3>4. s * F + g \in 0..(Height - 1)
        BY <3>2, SlotRows
    <3>5. s * F + g \notin clear..(clear + F - 1)
      <4>1. SUFFICES ASSUME s * F + g \in clear..(clear + F - 1)
                     PROVE  FALSE
          OBVIOUS
      <4>2. s * F + g \in Nat /\ r * F <= s * F + g /\ s * F + g < r * F + F
          BY <4>1, <3>4, <2>1, <1>0, <1>4
      <4> DEFINE h == s * F + g - r * F
      <4>3. h \in Glyph /\ s * F + g = r * F + h
        <5>1. s * F \in Nat
            BY <3>2, SlotRows
        <5> QED
            BY <5>1, <4>2, <2>1, <1>0 DEF Glyph, F
      <4> HIDE DEF h
      <4> QED
          BY <4>3, <3>2, <1>2, SlotRows
    <3>6. d[s * F + g] = f[s * F + g]
        BY <3>4, <3>5, <1>5
    <3> QED
        BY <3>2, <3>3, <3>6, <2>2, <1>8
  <2>3. CASE ~(l + 1 < Lines)
    <3>1. Slot(l, Turned(on)) = r
        BY <2>3, <1>1, <1>2, SlotsApart
    <3>2. r * F + g \in 0..(Height - 1)
        BY <1>2, SlotRows
    <3>3. r * F + g \in clear..(clear + F - 1)
        BY <2>1, <1>0, <1>4
    <3>4. d[r * F + g][y] = Blank
        BY <3>2, <3>3, <1>5
    <3>5. GlyphRow(u[l][y], g) = Blank
        BY <2>3, <1>8 DEF GlyphRow
    <3> QED
        BY <3>1, <3>4, <3>5
  <2> QED
      BY <2>2, <2>3
<1> QED
    BY <1>1, <1>7, <1>8, <1>9 DEF d, u

LEMMA ClearedShows ==
    /\ Cleared \in Pixels /\ Blanks \in Texts /\ Offset(0)
    /\ Shows(Cleared, Turned(0), Blanks)
<1>1. Offset(0)
    BY Dimensions DEF Offset
<1>2. Blank \in Ink
    BY Dimensions DEF Blank, Ink, Symbol, Glyph
<1>3. Cleared \in Pixels
    BY <1>2 DEF Cleared, Pixels, Column
<1>4. Blanks \in Texts
    BY DEF Blanks, Texts, Symbol
<1>5. Shows(Cleared, Turned(0), Blanks)
  <2> SUFFICES ASSUME NEW l \in Line, NEW x \in Column, NEW g \in Glyph
               PROVE  Cleared[Slot(l, Turned(0)) * F + g][x] = GlyphRow(Blanks[l][x], g)
      BY DEF Shows
  <2>1. Slot(l, Turned(0)) * F + g \in 0..(Height - 1)
      BY <1>1, RealRowIs, SlotRows
  <2> DEFINE row == Slot(l, Turned(0)) * F + g
  <2> HIDE DEF row
  <2>2. row \in 0..(Height - 1)
      BY <2>1 DEF row
  <2>3. Cleared[row][x] = Blank
      BY <2>2 DEF Cleared, Column
  <2>4. GlyphRow(Blanks[l][x], g) = Blank
      BY DEF Blanks, GlyphRow
  <2> QED
      BY <2>3, <2>4 DEF row
<1> QED
    BY <1>1, <1>3, <1>4, <1>5

-----------------------------------------------------------------------------
(***************************************************************************)
(* putc and cls, against the page of text.                                 *)
(***************************************************************************)
ScreenInv ==
    /\ fb \in Pixels /\ Offset(fb_offset)
    /\ Page \in Texts /\ Shows(fb, Turned(fb_offset), Page)
    /\ cursor_x \in 0..Columns
    /\ cursor_y \div FontRows \in 0..Lines
    /\ cursor_y = (cursor_y \div FontRows) * FontRows
    /\ cursor_y \div FontRows = Lines => cursor_x = 0

\* The page as the refinement mapping reads it.
LEMMA PageIsText ==
    /\ Page = [l \in 0..(Height \div FontRows - 1) |->
                  [x \in 0..(Columns - 1) |-> Shown(l, x)]]
    /\ \A l \in Line, x \in Column : Page[l][x] = Shown(l, x)
<1>1. \A l \in Line, x \in Column : ShownIn(fb, fb_offset, l, x) = Shown(l, x)
    BY DEF ShownIn, Shown
<1> QED
    BY <1>1 DEF Page, PageIn, Line, Column, Lines

TextVars == <<Page, cursor_x, cursor_y \div FontRows>>

LEMMA TextIsMapped ==
    /\ T!Column = IF cursor_x = Columns THEN 0 ELSE cursor_x
    /\ T!Line = IF cursor_x = Columns THEN cursor_y \div FontRows + 1
                                      ELSE cursor_y \div FontRows
    /\ T!Row = IF T!Line < Lines THEN T!Line ELSE Lines - 1
    /\ T!Room = IF T!Line < Lines THEN Page ELSE MovedUp(Page)
<1>1. Page = [l \in 0..(Height \div FontRows - 1) |->
                 [x \in 0..(Columns - 1) |-> Shown(l, x)]]
    BY PageIsText
<1>2. T!EmptyLine = [x \in Column |-> Space]
    BY DEF T!EmptyLine, Column
<1>3. T!Up = MovedUp(Page)
    BY <1>1, <1>2 DEF T!Up, MovedUp, Line, Lines
<1> QED
    BY <1>1, <1>3 DEF T!Column, T!Line, T!Row, T!Room, Lines

\* putc's line, row, offset and pixels, once it has wrapped and scrolled.
WrappedY == IF cursor_x = Columns THEN cursor_y + FontRows ELSE cursor_y
IsFull == WrappedY + FontRows > Height
PutY == IF IsFull THEN WrappedY - FontRows ELSE WrappedY
PutOffset == IF IsFull THEN (fb_offset + FontRows) % Word ELSE fb_offset
PutPixels == IF IsFull THEN Scrolled(fb, PutOffset) ELSE fb

\* Wrapping and scrolling make room where the page of text makes it.
LEMMA MakeRoom ==
    ASSUME ScreenInv
    PROVE  /\ PutPixels \in Pixels /\ Offset(PutOffset) /\ T!Room \in Texts
           /\ Shows(PutPixels, Turned(PutOffset), T!Room)
           /\ T!Row \in Line /\ T!Column \in Column /\ PutY = T!Row * FontRows
<1> DEFINE cl == cursor_y \div FontRows
           tl == T!Line
<1>1. /\ F \in Nat \ {0} /\ Lines \in Nat \ {0} /\ Height = Lines * F /\ Columns \in Nat \ {0}
    BY Dimensions DEF F
<1>2. /\ cursor_x \in 0..Columns /\ cl \in 0..Lines /\ cursor_y = cl * F
      /\ cl = Lines => cursor_x = 0
    BY DEF ScreenInv, F
<1>3. /\ tl = IF cursor_x = Columns THEN cl + 1 ELSE cl
      /\ T!Column = IF cursor_x = Columns THEN 0 ELSE cursor_x
      /\ T!Row = IF tl < Lines THEN tl ELSE Lines - 1
      /\ T!Room = IF tl < Lines THEN Page ELSE MovedUp(Page)
    BY TextIsMapped
<1> HIDE DEF cl, tl
<1>4. tl \in 0..Lines
    BY <1>1, <1>2, <1>3
<1>5. WrappedY = tl * F
  <2>1. (cl + 1) * F = cl * F + F
      BY <1>1, <1>2
  <2> QED
      BY <2>1, <1>2, <1>3 DEF F, WrappedY
<1>6. IsFull <=> tl = Lines
  <2>1. CASE tl = Lines
      BY <2>1, <1>1, <1>5 DEF F, IsFull
  <2>2. CASE tl # Lines
    <3>1. tl * F + F <= Lines * F /\ tl * F \in Nat /\ Lines * F \in Nat
        BY <2>2, <1>1, <1>4, Products
    <3> QED
        BY <3>1, <2>2, <1>1, <1>4, <1>5 DEF F, IsFull
  <2> QED
      BY <2>1, <2>2
<1>7. T!Row \in Line /\ T!Column \in Column
    BY <1>1, <1>2, <1>3, <1>4 DEF Line, Column
<1>8. PutY = T!Row * F
  <2>1. CASE tl = Lines
    <3>1. (Lines - 1) * F = Lines * F - F
        BY <1>1
    <3>2. PutY = tl * F - F
        BY <2>1, <1>5, <1>6 DEF F, PutY
    <3>3. T!Row = Lines - 1
      <4>1. ~(tl < Lines)
          BY <2>1, <1>1
      <4> QED
          BY <4>1, <1>3
    <3> QED
        BY <2>1, <3>1, <3>2, <3>3
  <2>2. CASE tl # Lines
      BY <2>2, <1>1, <1>3, <1>4, <1>5, <1>6 DEF PutY
  <2> QED
      BY <2>1, <2>2
<1>9. /\ fb \in Pixels /\ Offset(fb_offset) /\ Page \in Texts
      /\ Shows(fb, Turned(fb_offset), Page)
    BY DEF ScreenInv
<1>10. /\ PutPixels \in Pixels /\ Offset(PutOffset) /\ T!Room \in Texts
       /\ Shows(PutPixels, Turned(PutOffset), T!Room)
  <2>1. CASE tl = Lines
    <3>1. /\ PutOffset = (fb_offset + FontRows) % Word
          /\ PutPixels = Scrolled(fb, PutOffset)
        BY <2>1, <1>6 DEF PutOffset, PutPixels
    <3>2. T!Room = MovedUp(Page)
      <4>1. ~(tl < Lines)
          BY <2>1, <1>1
      <4> QED
          BY <4>1, <1>3
    <3>3. /\ Scrolled(fb, PutOffset) \in Pixels /\ MovedUp(Page) \in Texts
          /\ Offset(PutOffset) /\ Shows(Scrolled(fb, PutOffset), Turned(PutOffset), MovedUp(Page))
        BY <1>9, <3>1, ScrolledShows
    <3> QED
        BY <3>1, <3>2, <3>3
  <2>2. CASE tl # Lines
    <3>1. PutOffset = fb_offset /\ PutPixels = fb
        BY <2>2, <1>6 DEF PutOffset, PutPixels
    <3>2. T!Room = Page
        BY <2>2, <1>1, <1>3, <1>4
    <3> QED
        BY <1>9, <3>1, <3>2
  <2> QED
      BY <2>1, <2>2
<1> QED
    BY <1>7, <1>8, <1>10 DEF F

\* The next screen, once its pixels are known to show a page.
LEMMA ScreenNext ==
    ASSUME NEW t \in Texts, fb' \in Pixels, Offset(fb_offset'),
           Shows(fb', Turned(fb_offset'), t),
           cursor_x' \in 0..Columns, NEW l \in 0..Lines, cursor_y' = l * FontRows,
           l = Lines => cursor_x' = 0
    PROVE  ScreenInv' /\ Page' = t /\ (cursor_y \div FontRows)' = l
<1>1. PageIn(fb', fb_offset') = t
    BY PageRead
<1>2. Page' = t
    BY <1>1 DEF Page, PageIn, ShownIn, RealRow, Line, Column, Lines
<1>3. (l * FontRows) \div FontRows = l
  <2>1. l \in Nat /\ FontRows \in Nat \ {0} /\ 0 \in 0..(FontRows - 1)
      BY Dimensions
  <2>2. (l * FontRows + 0) \div FontRows = l /\ l * FontRows \in Nat
      BY <2>1, DivisionUnique
  <2> QED
      BY <2>2
<1>4. (cursor_y \div FontRows)' = l
    BY <1>3
<1> QED
    BY <1>2, <1>4 DEF ScreenInv, Pixels, Offset, Texts, Shows, Turned, Slot, F, Lines, Line,
       Column, Glyph, GlyphRow, Ink, Symbol, Blank

\* What putc does to the page: one of the moves of Terminal.
LEMMA PutcMoves ==
    ASSUME ScreenInv, NEW c, Putc(c)
    PROVE  /\ ScreenInv'
           /\ \/ /\ c = "newline"
                 /\ Page' = T!Room /\ cursor_x' = 0
                 /\ (cursor_y \div FontRows)' = T!Row + 1
              \/ /\ c = "backspace"
                 /\ Page' = IF T!Column = 0 THEN T!Room
                            ELSE [T!Room EXCEPT ![T!Row][T!Column - 1] = Space]
                 /\ cursor_x' = (IF T!Column = 0 THEN 0 ELSE T!Column - 1)
                 /\ (cursor_y \div FontRows)' = T!Row
              \/ /\ c \in Symbol
                 /\ Page' = [T!Room EXCEPT ![T!Row][T!Column] = c]
                 /\ cursor_x' = T!Column + 1
                 /\ (cursor_y \div FontRows)' = T!Row
<1> DEFINE y == PutY
           off == PutOffset
           rows == PutPixels
           x == IF cursor_x = Columns THEN 0 ELSE cursor_x
<1>1. /\ fb_offset' = off
      /\ \/ /\ c = "newline"
            /\ cursor_x' = 0 /\ cursor_y' = y + FontRows
            /\ fb' = rows
         \/ /\ c = "backspace" /\ x = 0
            /\ cursor_x' = 0 /\ cursor_y' = y
            /\ fb' = rows
         \/ /\ c = "backspace" /\ x > 0
            /\ cursor_x' = x - 1 /\ cursor_y' = y
            /\ fb' = Drawn(rows, Space, x - 1, y, off)
         \/ /\ c \in Symbol
            /\ cursor_x' = x + 1 /\ cursor_y' = y
            /\ fb' = Drawn(rows, c, x, y, off)
    BY DEF Putc, Symbol, PutY, PutOffset, PutPixels, IsFull, WrappedY
<1>2. /\ rows \in Pixels /\ Offset(off) /\ T!Room \in Texts
      /\ Shows(rows, Turned(off), T!Room)
      /\ T!Row \in Line /\ T!Column \in Column /\ y = T!Row * FontRows
    BY MakeRoom
<1>3. x = T!Column
    BY TextIsMapped
<1> HIDE DEF y, off, rows, x
<1> DEFINE row == T!Row
           room == T!Room
<1>4. /\ FontRows \in Nat \ {0} /\ Lines \in Nat \ {0} /\ Columns \in Nat \ {0}
      /\ row \in Nat /\ row < Lines /\ x \in Nat /\ x < Columns
    BY <1>2, <1>3, Dimensions DEF Line, Column
<1>5. row \in Line /\ row \in 0..Lines /\ row # Lines /\ x \in Column /\ y = row * FontRows /\ room \in Texts
      /\ Shows(rows, Turned(off), room)
    BY <1>2, <1>3, <1>4 DEF Line
<1>6. /\ T!Row = row /\ T!Room = room /\ T!Column = x
    BY <1>3
<1> HIDE DEF row, room
<1>7. CASE c = "newline" /\ cursor_x' = 0 /\ cursor_y' = y + FontRows /\ fb' = rows
  <2>1. row + 1 \in 0..Lines /\ cursor_y' = (row + 1) * FontRows
    <3>1. (row + 1) * FontRows = row * FontRows + FontRows
        BY <1>4
    <3> QED
        BY <3>1, <1>4, <1>5, <1>7
  <2>2. cursor_x' \in 0..Columns
      BY <1>4, <1>7
  <2>3. ScreenInv' /\ Page' = room /\ (cursor_y \div FontRows)' = row + 1
      BY <1>1, <1>2, <1>5, <1>7, <2>1, <2>2, ScreenNext
  <2> QED
      BY <2>3, <1>6, <1>7
<1>8. CASE c = "backspace" /\ x = 0 /\ cursor_x' = 0 /\ cursor_y' = y /\ fb' = rows
  <2>1. cursor_x' \in 0..Columns
      BY <1>4, <1>8
  <2>2. ScreenInv' /\ Page' = room /\ (cursor_y \div FontRows)' = row
      BY <1>1, <1>2, <1>5, <1>8, <2>1, ScreenNext
  <2> QED
      BY <2>2, <1>6, <1>8
<1>9. CASE /\ c = "backspace" /\ x > 0 /\ cursor_x' = x - 1 /\ cursor_y' = y
           /\ fb' = Drawn(rows, Space, x - 1, y, off)
  <2>1. x - 1 \in Column /\ cursor_x' \in 0..Columns /\ Space \in Symbol
      BY <1>4, <1>9 DEF Column, Symbol
  <2> DEFINE u == [room EXCEPT ![row][x - 1] = Space]
  <2>2. fb' \in Pixels /\ u \in Texts /\ Shows(fb', Turned(off), u)
      BY <1>2, <1>5, <1>9, <2>1, DrawnShows
  <2> HIDE DEF u
  <2>3. ScreenInv' /\ Page' = u /\ (cursor_y \div FontRows)' = row
      BY <1>1, <1>2, <1>5, <1>9, <2>1, <2>2, ScreenNext
  <2> QED
      BY <2>3, <1>4, <1>6, <1>9 DEF u
<1>10. CASE /\ c \in Symbol /\ cursor_x' = x + 1 /\ cursor_y' = y
            /\ fb' = Drawn(rows, c, x, y, off)
  <2>1. cursor_x' \in 0..Columns
      BY <1>4, <1>10
  <2> DEFINE u == [room EXCEPT ![row][x] = c]
  <2>2. fb' \in Pixels /\ u \in Texts /\ Shows(fb', Turned(off), u)
      BY <1>2, <1>5, <1>10, DrawnShows
  <2> HIDE DEF u
  <2>3. ScreenInv' /\ Page' = u /\ (cursor_y \div FontRows)' = row
      BY <1>1, <1>2, <1>5, <1>10, <2>1, <2>2, ScreenNext
  <2> QED
      BY <2>3, <1>6, <1>10 DEF u
<1> QED
    BY <1>1, <1>7, <1>8, <1>9, <1>10

LEMMA ClsMoves ==
    ASSUME cls
    PROVE  /\ ScreenInv' /\ Page' = Blanks /\ cursor_x' = 0
           /\ (cursor_y \div FontRows)' = 0
<1>1. fb' = Cleared /\ cursor_x' = 0 /\ cursor_y' = 0 * FontRows /\ fb_offset' = 0
    BY Dimensions DEF cls
<1>2. 0 \in 0..Lines /\ cursor_x' \in 0..Columns
    BY <1>1, Dimensions
<1> QED
    BY <1>1, <1>2, ClearedShows, ScreenNext

LEMMA ScreenInitInv == ScreenInit => ScreenInv /\ Page = Blanks /\ cursor_y \div FontRows = 0
<1> SUFFICES ASSUME ScreenInit
             PROVE  ScreenInv /\ Page = Blanks /\ cursor_y \div FontRows = 0
    OBVIOUS
<1>1. fb = Cleared /\ cursor_x = 0 /\ cursor_y = 0 /\ fb_offset = 0
    BY DEF ScreenInit
<1>2. Page = Blanks
    BY <1>1, ClearedShows, PageRead DEF Page
<1>3. 0 \div FontRows = 0 /\ 0 * FontRows = 0 /\ 0 \in 0..Lines /\ 0 \in 0..Columns
    BY Dimensions
<1> QED
    BY <1>1, <1>2, <1>3, ClearedShows DEF ScreenInv

LEMMA ScreenStays ==
    ASSUME UNCHANGED screenVars
    PROVE  (ScreenInv => ScreenInv') /\ TextVars' = TextVars
<1>1. fb' = fb /\ cursor_x' = cursor_x /\ cursor_y' = cursor_y /\ fb_offset' = fb_offset
    BY DEF screenVars
<1>2. Page' = Page
    BY <1>1 DEF Page, PageIn, ShownIn, RealRow, Line, Column, Lines
<1>3. ScreenInv => ScreenInv'
    BY <1>1, <1>2 DEF ScreenInv, Pixels, Offset, Texts, Shows, Turned, Slot, F, Lines, Line,
       Column, Glyph, GlyphRow, Ink, Symbol, Blank
<1> QED
    BY <1>1, <1>2, <1>3 DEF TextVars

-----------------------------------------------------------------------------
(***************************************************************************)
(* /dev/kbd.                                                               *)
(***************************************************************************)
LEMMA KeyboardStep ==
    ASSUME KeyboardInside, keyboard_handler \/ keyboard_read \/ UNCHANGED keyboardVars
    PROVE  KeyboardInside'
<1>1. /\ MaxSize \in Nat /\ MaxSize >= 2 /\ PointerWord \in Nat /\ PointerWord > MaxSize
    BY KeyboardAssumption
<1>2. data_stack_size \in 0..MaxSize
    BY DEF KeyboardInside
<1>3. CASE keyboard_handler
  <2>1. CASE data_stack_size = MaxSize
      BY <1>1, <1>3, <2>1 DEF keyboard_handler, KeyboardInside, Pushed, isFull
  <2>2. CASE data_stack_size # MaxSize
      BY <1>1, <1>2, <1>3, <2>2 DEF keyboard_handler, KeyboardInside, Pushed, isFull
  <2> QED
      BY <2>1, <2>2
<1>4. CASE keyboard_read
  <2>1. data_stack_size > 0 /\ data_stack_size' = data_stack_size - 1 /\ top' = Popped(top)
      BY <1>4 DEF keyboard_read
  <2>2. CASE top = PointerWord - 1
    <3>1. top' = top
        BY <2>1, <2>2 DEF Popped, isEmpty
    <3> QED
        BY <1>1, <1>2, <2>1, <2>2, <3>1 DEF KeyboardInside
  <2>3. CASE top # PointerWord - 1 /\ top = 0
    <3>1. (0 - 1) % PointerWord = PointerWord - 1
      <4>1. ((-1) * PointerWord + (PointerWord - 1)) = 0 - 1
          BY <1>1
      <4> QED
          BY <4>1, <1>1, Z3
    <3>2. top' = PointerWord - 1
        BY <2>1, <2>3, <3>1 DEF Popped, isEmpty
    <3> QED
        BY <1>1, <1>2, <2>1, <3>2 DEF KeyboardInside
  <2>4. CASE top # PointerWord - 1 /\ top # 0
    <3>1. top \in 1..(MaxSize - 1) /\ data_stack_size - top \in {0, 1}
        BY <1>1, <2>4 DEF KeyboardInside
    <3>2. (top - 1) % PointerWord = top - 1
        BY <1>1, <3>1
    <3>3. top' = top - 1
        BY <2>1, <2>4, <3>2 DEF Popped, isEmpty
    <3> QED
        BY <1>1, <1>2, <2>1, <3>1, <3>3 DEF KeyboardInside
  <2> QED
      BY <2>2, <2>3, <2>4
<1>5. CASE UNCHANGED keyboardVars
    BY <1>5 DEF keyboardVars, KeyboardInside
<1> QED
    BY <1>3, <1>4, <1>5

\* The stack of scancodes never leaves its array, for any size of it, over any
\* sequence of keyboard interrupts and reads of /dev/kbd.
THEOREM ScancodesInside == Spec => []KeyboardInside
<1>1. Init => KeyboardInside
    BY KeyboardAssumption DEF Init, KeyboardInit, KeyboardInside
<1>2. KeyboardInside /\ [Next]_vars => KeyboardInside'
  <2> SUFFICES ASSUME KeyboardInside, [Next]_vars
               PROVE  KeyboardInside'
      OBVIOUS
  <2>1. keyboard_handler \/ keyboard_read \/ UNCHANGED keyboardVars
      BY DEF Next, vars, PrintText, ClearScreen, BeginInput, Key, Interrupt, ReadKbd
  <2> QED
      BY <2>1, KeyboardStep
<1> QED
    BY <1>1, <1>2, PTL DEF Spec

-----------------------------------------------------------------------------
(***************************************************************************)
(* The screen as a page of text.                                           *)
(***************************************************************************)
\* Every step of the console prints a character, clears the screen, or leaves
\* it alone.
LEMMA ScreenSteps ==
    ASSUME [Next]_vars
    PROVE  (\E c : Putc(c)) \/ cls \/ UNCHANGED screenVars
BY DEF Next, vars, PrintText, ClearScreen, BeginInput, Key, Erase, Interrupt, ReadKbd

LEMMA PutcIsTerminal ==
    ASSUME ScreenInv, NEW c, Putc(c)
    PROVE  T!Next
<1> DEFINE text == [l \in 0..(Height \div FontRows - 1) |->
                       [x \in 0..(Columns - 1) |-> Shown(l, x)]]
<1>1. Page = text /\ Page' = text'
    BY PageIsText DEF Page, PageIn, ShownIn, Shown, RealRow, Line, Column, Lines
<1>2. CASE /\ c = "newline" /\ Page' = T!Room /\ cursor_x' = 0
           /\ (cursor_y \div FontRows)' = T!Row + 1
    BY <1>1, <1>2 DEF T!Next, T!NewLine
<1>3. CASE /\ c = "backspace"
           /\ Page' = IF T!Column = 0 THEN T!Room
                      ELSE [T!Room EXCEPT ![T!Row][T!Column - 1] = Space]
           /\ cursor_x' = (IF T!Column = 0 THEN 0 ELSE T!Column - 1)
           /\ (cursor_y \div FontRows)' = T!Row
    BY <1>1, <1>3 DEF T!Next, T!Backspace
<1>4. CASE /\ c \in Symbol
           /\ Page' = [T!Room EXCEPT ![T!Row][T!Column] = c]
           /\ cursor_x' = T!Column + 1
           /\ (cursor_y \div FontRows)' = T!Row
    BY <1>1, <1>4 DEF T!Next, T!Write, Symbol
<1> QED
    BY <1>2, <1>3, <1>4, PutcMoves

LEMMA ScreenStep ==
    ASSUME ScreenInv, [Next]_vars
    PROVE  ScreenInv' /\ [T!Next]_(<<[l \in 0..(Height \div FontRows - 1) |->
                       [x \in 0..(Columns - 1) |-> Shown(l, x)]], cursor_x, cursor_y \div FontRows>>)
<1> DEFINE text == [l \in 0..(Height \div FontRows - 1) |->
                       [x \in 0..(Columns - 1) |-> Shown(l, x)]]
<1>1. Page = text /\ Page' = text'
    BY PageIsText DEF Page, PageIn, ShownIn, Shown, RealRow, Line, Column, Lines
<1>2. ASSUME NEW c, Putc(c)
      PROVE  ScreenInv' /\ T!Next
    BY <1>2, PutcMoves, PutcIsTerminal
<1>3. CASE cls
  <2>1. ScreenInv' /\ Page' = Blanks /\ cursor_x' = 0 /\ (cursor_y \div FontRows)' = 0
      BY <1>3, ClsMoves
  <2>2. Blanks = T!EmptyPage
      BY DEF Blanks, T!EmptyPage, T!EmptyLine, Line, Column, Lines
  <2> QED
      BY <1>1, <2>1, <2>2 DEF T!Next, T!Clear
<1>4. CASE UNCHANGED screenVars
  <2>1. ScreenInv' /\ TextVars' = TextVars
      BY <1>4, ScreenStays
  <2> QED
      BY <1>1, <2>1 DEF TextVars
<1> QED
    BY <1>2, <1>3, <1>4, ScreenSteps

LEMMA ScreenStart == Init => ScreenInv /\ T!Init
<1> SUFFICES ASSUME Init
             PROVE  ScreenInv /\ T!Init
    OBVIOUS
<1>1. /\ ScreenInv /\ Page = Blanks /\ cursor_y \div FontRows = 0
      /\ cursor_x = 0
    BY ScreenInitInv DEF Init, ScreenInit
<1>2. Blanks = T!EmptyPage
    BY DEF Blanks, T!EmptyPage, T!EmptyLine, Line, Column, Lines
<1> QED
    BY <1>1, <1>2, PageIsText DEF T!Init

\* For any screen, font and text: on the ring of pixel rows every character,
\* wrap, scroll, backspace and clear shows what it would on a plain page, over
\* any number of scrolls and turns of the ring.
THEOREM TerminalImplemented == Spec => ImplementsTerminal
<1>1. Init => ScreenInv /\ T!Init
    BY ScreenStart
<1>2. ScreenInv /\ [Next]_vars =>
          ScreenInv' /\ [T!Next]_(<<[l \in 0..(Height \div FontRows - 1) |->
                       [x \in 0..(Columns - 1) |-> Shown(l, x)]], cursor_x, cursor_y \div FontRows>>)
    BY ScreenStep
<1> QED
    BY <1>1, <1>2, PTL DEF Spec, ImplementsTerminal, T!Spec

-----------------------------------------------------------------------------
(***************************************************************************)
(* The line that is being typed.                                           *)
(***************************************************************************)
LineInv ==
    /\ max_len \in Nat /\ buf \in Seq(Symbol)
    /\ max_len # 0 => Len(buf) + 1 <= max_len

\* The line stands in front of the cursor on the page.
OnPage(page, x, y, line) ==
    x >= Len(line) => \A i \in 1..Len(line) : page[y][x - Len(line) + i - 1] = line[i]

ConsoleInv ==
    /\ ScreenInv /\ LineInv
    /\ max_len # 0 => OnPage(Page, cursor_x, cursor_y \div FontRows, buf)

\* LineShown reads the pixels, the invariant the page.
LEMMA LineOnPage ==
    ASSUME ScreenInv, LineInv
    PROVE  LineShown <=> (max_len # 0 => OnPage(Page, cursor_x, cursor_y \div FontRows, buf))
<1>1. /\ Lines \in Nat \ {0} /\ Columns \in Nat \ {0} /\ cursor_x \in 0..Columns
      /\ cursor_y \div FontRows \in 0..Lines
      /\ cursor_y \div FontRows = Lines => cursor_x = 0
    BY Dimensions DEF ScreenInv
<1>2. Len(buf) \in Nat /\ (max_len # 0 => Len(buf) + 1 <= max_len)
    BY DEF LineInv
<1>3. ASSUME cursor_x >= Len(buf), NEW i \in 1..Len(buf)
      PROVE  Shown(cursor_y \div FontRows, cursor_x - Len(buf) + i - 1)
                 = Page[cursor_y \div FontRows][cursor_x - Len(buf) + i - 1]
  <2>1. /\ cursor_x - Len(buf) + i - 1 \in Column
        /\ cursor_y \div FontRows \in Line
      BY <1>1, <1>2, <1>3 DEF Column, Line
  <2> QED
      BY <2>1, PageIsText
<1> QED
    BY <1>2, <1>3 DEF LineShown, OnPage

\* A character that is typed joins the line on the page.
LEMMA TypedOnPage ==
    ASSUME ScreenInv, LineInv, NEW c \in Symbol, Putc(c), buf' = Append(buf, c),
           OnPage(Page, cursor_x, cursor_y \div FontRows, buf), c \notin {"newline", "backspace"}
    PROVE  OnPage(Page', cursor_x', (cursor_y \div FontRows)', buf')
<1> DEFINE L == Len(buf)
           cy == cursor_y \div FontRows
<1>1. /\ Page' = [T!Room EXCEPT ![T!Row][T!Column] = c]
      /\ cursor_x' = T!Column + 1 /\ (cursor_y \div FontRows)' = T!Row
    BY PutcMoves
<1>2. /\ Lines \in Nat \ {0} /\ Columns \in Nat \ {0} /\ cursor_x \in 0..Columns
      /\ cy \in 0..Lines /\ (cy = Lines => cursor_x = 0)
    BY Dimensions DEF ScreenInv
<1>3. /\ buf \in Seq(Symbol) /\ L \in Nat /\ buf' \in Seq(Symbol) /\ Len(buf') = L + 1
      /\ \A i \in 1..L : buf'[i] = buf[i]
      /\ buf'[L + 1] = c
    BY AppendProperties DEF LineInv
<1>4. /\ T!Column = (IF cursor_x = Columns THEN 0 ELSE cursor_x)
      /\ T!Line = (IF cursor_x = Columns THEN cy + 1 ELSE cy)
      /\ T!Row = (IF T!Line < Lines THEN T!Line ELSE Lines - 1)
      /\ T!Room = (IF T!Line < Lines THEN Page ELSE MovedUp(Page))
    BY TextIsMapped
<1>5. T!Room \in Texts /\ T!Row \in Line /\ T!Column \in Column
    BY MakeRoom
<1> DEFINE room == T!Room
           row == T!Row
           col == T!Column
<1>6. /\ room \in Texts /\ row \in Line /\ col \in Column
      /\ Page' = [room EXCEPT ![row][col] = c]
    BY <1>1, <1>5
<1>7. col \in Nat /\ col < Columns
    BY <1>2, <1>5 DEF Column
<1>8. L >= 1 /\ col + 1 >= L + 1 => col = cursor_x /\ row = cy /\ room = Page
  <2> SUFFICES ASSUME L >= 1, col + 1 >= L + 1
               PROVE  col = cursor_x /\ row = cy /\ room = Page
      OBVIOUS
  <2>1. cursor_x # Columns /\ cursor_x # 0
      BY <1>2, <1>3, <1>4, <1>7
  <2>2. cy < Lines
      BY <2>1, <1>2
  <2> QED
      BY <2>1, <2>2, <1>4
<1> HIDE DEF room, row, col, cy, L
<1>9. \A x \in Column : Page'[row][x] = IF x = col THEN c ELSE room[row][x]
  <2>1. room[row] \in [Column -> Symbol]
      BY <1>6 DEF Texts
  <2>2. Page'[row] = [room[row] EXCEPT ![col] = c]
      BY <1>6 DEF Texts
  <2> QED
      BY <2>1, <2>2
<1>10. ASSUME col + 1 >= L + 1, NEW i \in 1..(L + 1)
       PROVE  Page'[row][col + 1 - (L + 1) + i - 1] = buf'[i]
  <2>1. CASE i = L + 1
    <3>1. col + 1 - (L + 1) + i - 1 = col
        BY <2>1, <1>3, <1>7
    <3> QED
        BY <3>1, <2>1, <1>3, <1>6, <1>9
  <2>2. CASE i # L + 1
    <3>1. i \in 1..L /\ L >= 1
        BY <2>2, <1>3
    <3> DEFINE x == col + 1 - (L + 1) + i - 1
    <3>2. x \in Column /\ x # col /\ x = col - L + i - 1
        BY <3>1, <1>2, <1>3, <1>7, <1>10 DEF Column
    <3> HIDE DEF x
    <3>3. col = cursor_x /\ row = cy /\ room = Page
        BY <3>1, <1>8, <1>10
    <3>4. cursor_x >= L
        BY <3>3, <1>3, <1>7, <1>10
    <3>5. Page[cy][cursor_x - L + i - 1] = buf[i]
        BY <3>1, <3>4 DEF OnPage, cy, L
    <3> QED
        BY <3>1, <3>2, <3>3, <3>5, <1>3, <1>9 DEF x
  <2> QED
      BY <2>1, <2>2
<1>11. cursor_x' = col + 1 /\ (cursor_y \div FontRows)' = row
    BY <1>1 DEF col, row
<1>12. Len(buf') = L + 1
    BY <1>3
<1>13. cursor_x' >= Len(buf') =>
          \A i \in 1..Len(buf') : Page'[row][cursor_x' - Len(buf') + i - 1] = buf'[i]
  <2> SUFFICES ASSUME cursor_x' >= Len(buf'), NEW i \in 1..Len(buf')
               PROVE  Page'[row][cursor_x' - Len(buf') + i - 1] = buf'[i]
      OBVIOUS
  <2>1. i \in 1..(L + 1) /\ col + 1 >= L + 1
      BY <1>11, <1>12
  <2>2. Page'[row][col + 1 - (L + 1) + i - 1] = buf'[i]
      BY <2>1, <1>10
  <2>3. cursor_x' - Len(buf') + i - 1 = col + 1 - (L + 1) + i - 1
      BY <2>1, <1>3, <1>7, <1>11, <1>12
  <2> QED
      BY <2>2, <2>3, Zenon
<1> QED
    BY <1>11, <1>13 DEF OnPage

\* A sequence without its last member.
LEMMA Shortened ==
    ASSUME NEW S, NEW s \in Seq(S), s # <<>>, NEW r, r = SubSeq(s, 1, Len(s) - 1)
    PROVE  /\ r \in Seq(S) /\ Len(s) \in Nat /\ Len(s) >= 1 /\ Len(r) = Len(s) - 1
           /\ \A i \in 1..(Len(s) - 1) : r[i] = s[i]
<1>1. Len(s) \in Nat /\ Len(s) # 0
    BY EmptySeq, LenProperties
<1> DEFINE n == Len(s) - 1
<1>2. n \in Nat
    BY <1>1
<1>3. \A i \in 1..n : s[i] \in S
    BY <1>1, ElementOfSeq
<1> HIDE DEF n
<1>4. r = SubSeq(s, 1, n)
    BY DEF n
<1>5. /\ r \in Seq(S) /\ Len(r) = IF 1 <= n THEN n - 1 + 1 ELSE 0
      /\ \A i \in 1..(n - 1 + 1) : r[i] = s[1 + i - 1]
    BY <1>2, <1>3, <1>4, SubSeqProperties
<1>6. Len(r) = n
    BY <1>2, <1>5
<1>7. ASSUME NEW i \in 1..n
      PROVE  r[i] = s[i]
  <2>1. i \in 1..(n - 1 + 1) /\ 1 + i - 1 = i
      BY <1>2
  <2> QED
      BY <2>1, <1>5
<1> QED
    BY <1>1, <1>5, <1>6, <1>7 DEF n

\* A backspace takes the last character from both.
LEMMA ErasedOnPage ==
    ASSUME ScreenInv, LineInv, buf # <<>>, Putc("backspace"),
           buf' = SubSeq(buf, 1, Len(buf) - 1), "backspace" \notin Symbol,
           OnPage(Page, cursor_x, cursor_y \div FontRows, buf)
    PROVE  OnPage(Page', cursor_x', (cursor_y \div FontRows)', buf')
<1> DEFINE L == Len(buf)
           cy == cursor_y \div FontRows
<1>1. /\ Page' = IF T!Column = 0 THEN T!Room
                 ELSE [T!Room EXCEPT ![T!Row][T!Column - 1] = Space]
      /\ cursor_x' = (IF T!Column = 0 THEN 0 ELSE T!Column - 1)
      /\ (cursor_y \div FontRows)' = T!Row
    BY PutcMoves
<1>2. /\ Lines \in Nat \ {0} /\ Columns \in Nat \ {0} /\ cursor_x \in 0..Columns
      /\ cy \in 0..Lines /\ (cy = Lines => cursor_x = 0)
    BY Dimensions DEF ScreenInv
<1>3. /\ L \in Nat /\ L >= 1 /\ Len(buf') = L - 1
      /\ \A i \in 1..(L - 1) : buf'[i] = buf[i]
    BY Shortened DEF LineInv
<1>4. /\ T!Column = (IF cursor_x = Columns THEN 0 ELSE cursor_x)
      /\ T!Line = (IF cursor_x = Columns THEN cy + 1 ELSE cy)
      /\ T!Row = (IF T!Line < Lines THEN T!Line ELSE Lines - 1)
      /\ T!Room = (IF T!Line < Lines THEN Page ELSE MovedUp(Page))
    BY TextIsMapped
<1>5. T!Room \in Texts /\ T!Row \in Line /\ T!Column \in Column
    BY MakeRoom
<1> DEFINE room == T!Room
           row == T!Row
           col == T!Column
<1>6. /\ room \in Texts /\ row \in Line /\ col \in Column
      /\ Page' = IF col = 0 THEN room ELSE [room EXCEPT ![row][col - 1] = Space]
      /\ cursor_x' = (IF col = 0 THEN 0 ELSE col - 1)
      /\ (cursor_y \div FontRows)' = row
    BY <1>1, <1>5
<1>7. col \in Nat /\ col < Columns
    BY <1>2, <1>5 DEF Column
<1>8. col # 0 => col = cursor_x /\ row = cy /\ room = Page
  <2> SUFFICES ASSUME col # 0
               PROVE  col = cursor_x /\ row = cy /\ room = Page
      OBVIOUS
  <2>1. cursor_x # Columns /\ cursor_x # 0
      BY <1>4
  <2>2. cy < Lines
      BY <2>1, <1>2
  <2> QED
      BY <2>1, <2>2, <1>4
<1> HIDE DEF room, row, col, cy, L
<1>9. ASSUME cursor_x' >= L - 1, NEW i \in 1..(L - 1)
      PROVE  Page'[row][cursor_x' - (L - 1) + i - 1] = buf'[i]
  <2>1. L - 1 >= 1 /\ i \in 1..L
      BY <1>3, <1>9
  <2>2. col # 0
      BY <2>1, <1>3, <1>6, <1>9
  <2>3. /\ col = cursor_x /\ row = cy /\ room = Page /\ cursor_x' = col - 1
        /\ Page' = [Page EXCEPT ![row][col - 1] = Space]
      BY <2>2, <1>6, <1>8
  <2> DEFINE x == cursor_x' - (L - 1) + i - 1
  <2>4. x \in Column /\ x # col - 1 /\ x = cursor_x - L + i - 1 /\ cursor_x >= L
      BY <2>1, <2>2, <2>3, <1>2, <1>3, <1>7, <1>9 DEF Column
  <2> HIDE DEF x
  <2>5. Page[cy][cursor_x - L + i - 1] = buf[i]
      BY <2>1, <2>4 DEF OnPage, cy, L
  <2>6. Page'[row][x] = Page[row][x]
    <3>1. Page[row] \in [Column -> Symbol] /\ Page \in Texts
        BY <2>3, <1>6 DEF Texts
    <3>2. Page'[row] = [Page[row] EXCEPT ![col - 1] = Space]
        BY <2>3, <3>1, <1>6 DEF Texts
    <3> QED
        BY <3>1, <3>2, <2>4
  <2> QED
      BY <2>3, <2>4, <2>5, <2>6, <1>3, <1>9 DEF x
<1> QED
    BY <1>3, <1>6, <1>9 DEF OnPage, L

\* Nothing is claimed of an empty line.
LEMMA EmptyOnPage ==
    ASSUME NEW page, NEW x, NEW y
    PROVE  OnPage(page, x, y, <<>>)
BY DEF OnPage

LEMMA LineStays ==
    ASSUME ConsoleInv, UNCHANGED <<screenVars, max_len, buf>>
    PROVE  ConsoleInv'
<1>1. ScreenInv' /\ TextVars' = TextVars
    BY ScreenStays DEF ConsoleInv
<1>2. Page' = Page /\ cursor_x' = cursor_x /\ (cursor_y \div FontRows)' = cursor_y \div FontRows
    BY <1>1 DEF TextVars
<1>3. LineInv'
    BY DEF ConsoleInv, LineInv, Symbol
<1>4. (max_len # 0 => OnPage(Page, cursor_x, cursor_y \div FontRows, buf))'
    BY <1>2 DEF ConsoleInv, OnPage
<1> QED
    BY <1>1, <1>3, <1>4 DEF ConsoleInv

\* Without a line, the screen may do what it likes.
LEMMA NoLine ==
    ASSUME ScreenInv', max_len' = 0, buf' \in Seq(Symbol)
    PROVE  ConsoleInv'
BY DEF ConsoleInv, LineInv, Symbol

LEMMA KeyInv ==
    ASSUME ConsoleInv, Key
    PROVE  ConsoleInv'
<1>0. /\ ScreenInv /\ LineInv /\ max_len # 0 /\ max_len \in Nat /\ buf \in Seq(Symbol)
      /\ Len(buf) \in Nat /\ Len(buf) + 1 <= max_len
      /\ OnPage(Page, cursor_x, cursor_y \div FontRows, buf)
  <2>1. max_len # 0
      BY DEF Key
  <2> QED
      BY <2>1, LenProperties DEF ConsoleInv, LineInv
<1>1. PICK key \in Keys :
        \/ UNCHANGED <<screenVars, max_len, buf>>
        \/ Putc("newline") /\ max_len' = 0 /\ buf' = <<>>
        \/ Erase /\ UNCHANGED max_len
        \/ /\ key.kind \in {"letter", "digit"} /\ Room
           /\ buf' = Append(buf, get_ascii(key))
           /\ Putc(get_ascii(key))
           /\ UNCHANGED max_len
    BY DEF Key
<1>2. CASE UNCHANGED <<screenVars, max_len, buf>>
    BY <1>2, LineStays
<1>3. CASE Putc("newline") /\ max_len' = 0 /\ buf' = <<>>
  <2>1. ScreenInv'
      BY <1>0, <1>3, PutcMoves
  <2>2. buf' \in Seq(Symbol)
      BY <1>3
  <2> QED
      BY <2>1, <2>2, <1>3, NoLine
<1>4. CASE Erase /\ UNCHANGED max_len
  <2>1. CASE buf = <<>>
      BY <1>4, <2>1, LineStays DEF Erase
  <2>2. CASE buf # <<>>
    <3>1. buf' = SubSeq(buf, 1, Len(buf) - 1) /\ Putc("backspace")
        BY <1>4, <2>2 DEF Erase
    <3>2. "backspace" \notin Symbol
        BY ConsoleAssumption DEF Symbol
    <3>3. OnPage(Page', cursor_x', (cursor_y \div FontRows)', buf')
        BY <1>0, <2>2, <3>1, <3>2, ErasedOnPage
    <3>4. ScreenInv'
        BY <1>0, <3>1, PutcMoves
    <3>5. buf' \in Seq(Symbol) /\ Len(buf') = Len(buf) - 1 /\ Len(buf) >= 1
        BY <3>1, <2>2, <1>0, Shortened
    <3>6. LineInv'
        BY <1>0, <1>4, <3>5 DEF LineInv, Symbol
    <3> QED
        BY <3>3, <3>4, <3>6 DEF ConsoleInv, OnPage
  <2> QED
      BY <2>1, <2>2
<1>5. CASE /\ key.kind \in {"letter", "digit"} /\ Room
           /\ buf' = Append(buf, get_ascii(key))
           /\ Putc(get_ascii(key))
           /\ UNCHANGED max_len
  <2> DEFINE c == get_ascii(key)
  <2>1. c \in Symbol /\ c \notin {"newline", "backspace"}
      BY <1>5, ConsoleAssumption DEF Symbol, get_ascii
  <2> HIDE DEF c
  <2>2. Putc(c) /\ buf' = Append(buf, c)
      BY <1>5 DEF c
  <2>3. OnPage(Page', cursor_x', (cursor_y \div FontRows)', buf')
      BY <1>0, <2>1, <2>2, TypedOnPage
  <2>4. ScreenInv'
      BY <1>0, <2>2, PutcMoves
  <2>5. buf' \in Seq(Symbol) /\ Len(buf') = Len(buf) + 1
      BY <1>0, <2>1, <2>2, AppendProperties
  <2>6. LineInv'
      BY <1>0, <1>5, <2>5 DEF LineInv, Symbol, Room
  <2> QED
      BY <2>3, <2>4, <2>6 DEF ConsoleInv, OnPage
<1> QED
    BY <1>1, <1>2, <1>3, <1>4, <1>5

LEMMA ConsoleStep ==
    ASSUME ConsoleInv, [Next]_vars
    PROVE  ConsoleInv'
<1>0. ScreenInv' /\ ScreenInv /\ LineInv
    BY ScreenStep DEF ConsoleInv
<1>1. CASE PrintText
    BY <1>0, <1>1, NoLine DEF PrintText, lineVars, LineInv
<1>2. CASE ClearScreen
    BY <1>0, <1>2, NoLine DEF ClearScreen, lineVars, LineInv
<1>3. CASE BeginInput
  <2>1. max_len' \in 1..MaxLine /\ buf' = <<>>
      BY <1>3 DEF BeginInput
  <2>2. max_len' \in Nat /\ Len(buf') + 1 <= max_len' /\ buf' \in Seq(Symbol)
      BY <2>1, ConsoleAssumption
  <2>3. LineInv'
      BY <2>2 DEF LineInv, Symbol
  <2>4. OnPage(Page', cursor_x', (cursor_y \div FontRows)', buf')
      BY <2>1, EmptyOnPage
  <2> QED
      BY <1>0, <2>3, <2>4 DEF ConsoleInv, OnPage
<1>4. CASE Key
    BY <1>4, KeyInv
<1>5. CASE Interrupt
    BY <1>5, LineStays DEF Interrupt
<1>6. CASE ReadKbd
    BY <1>6, LineStays DEF ReadKbd, lineVars
<1>7. CASE UNCHANGED vars
    BY <1>7, LineStays DEF vars, lineVars
<1> QED
    BY <1>1, <1>2, <1>3, <1>4, <1>5, <1>6, <1>7 DEF Next

\* The line a program reads fits its buffer with its terminator, and is what
\* stands in front of the cursor, for any screen, keyboard and length.
THEOREM LineAsTyped == Spec => []LineShown
<1>1. Init => ConsoleInv
  <2> SUFFICES ASSUME Init
               PROVE  ConsoleInv
      OBVIOUS
  <2>1. ScreenInv /\ max_len = 0 /\ buf = <<>>
      BY ScreenStart DEF Init
  <2>2. LineInv
      BY <2>1 DEF LineInv
  <2> QED
      BY <2>1, <2>2 DEF ConsoleInv
<1>2. ConsoleInv /\ [Next]_vars => ConsoleInv'
    BY ConsoleStep
<1>3. ConsoleInv => LineShown
    BY LineOnPage DEF ConsoleInv
<1> QED
    BY <1>1, <1>2, <1>3, PTL DEF Spec
=============================================================================
