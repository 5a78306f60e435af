--------------------------- MODULE ProgramProofs ----------------------------
(* Proofs about ExecImage, UserMalloc and Format: the memory a program       *)
(* starts with, the heap it then keeps in it, and what printf prints.        *)
EXTENDS ExecImage, UserMalloc, Format, DataLemmas

-----------------------------------------------------------------------------
(***************************************************************************)
(* The image and the arguments, for any file, page size and limits.        *)
(***************************************************************************)
Field == 0..(Word - 1)
Segment == [offset : Field, filesz : Field, vaddr : Field, memsz : Field, exec : BOOLEAN]

\* What elf_validate has established of a loadable segment.
Sound(s) ==
    /\ {s.offset, s.filesz, s.vaddr, s.memsz} \subseteq Nat
    /\ s.filesz <= s.memsz /\ s.offset + s.filesz <= FileSize
    /\ s.vaddr >= MinAddr /\ s.vaddr < Limit /\ s.vaddr + s.memsz <= Limit
    /\ SegEnd(s) = s.vaddr + s.memsz

\* The page at p has a part of the segment.
Touches(p, s) ==
    /\ p \in Nat /\ p % PageSize = 0
    /\ p < s.vaddr + s.memsz /\ p + PageSize > s.vaddr

\* The file has a byte for the address b in the segment.
Backs(s, b) == b \in Nat /\ b >= s.vaddr /\ b < s.vaddr + s.filesz

LEMMA Sizes ==
    /\ Word \in Nat \ {0} /\ PageSize \in Nat \ {0} /\ MinAddr \in Nat \ {0}
    /\ Limit \in Nat \ {0} /\ FileSize \in Nat \ {0} /\ StackAlign \in Nat \ {0}
    /\ StackPage \in Nat /\ PointerSize \in Nat
    /\ Limit + PageSize <= Word /\ FileSize < Word
    /\ Limit % PageSize = 0 /\ MinAddr % PageSize = 0
BY ExecImageAssumption

LEMMA FileTypes ==
    ASSUME file \in Files
    PROVE  /\ segs \in Seq(Segment) /\ file.entry \in Field /\ file.args \in Seq(Nat)
           /\ Loadable(segs) \subseteq 1..Len(segs) /\ Len(segs) \in Nat
           /\ Len(file.args) \in Nat
           /\ \A i \in Loadable(segs) : segs[i] \in Segment /\ segs[i].memsz # 0 /\ i \in Nat \ {0}
<1>1. segs \in Seq(Segment) /\ file.entry \in Field /\ file.args \in Seq(Nat)
    BY ExecImageAssumption DEF segs, Segment, Field
<1>2. /\ Len(segs) \in Nat /\ DOMAIN segs = 1..Len(segs) /\ Len(file.args) \in Nat
      /\ \A i \in 1..Len(segs) : segs[i] \in Segment
    BY <1>1, LenProperties, ElementOfSeq
<1> QED
    BY <1>1, <1>2 DEF Loadable

\* Without wrapping around, the words are numbers.
LEMMA NoWrap ==
    ASSUME NEW a \in Nat, NEW b \in Nat
    PROVE  /\ a + b < Word => Plus(a, b) = a + b
           /\ b <= a /\ a < Word => Minus(a, b) = a - b
<1>1. Word \in Nat \ {0}
    BY Sizes
<1>2. ASSUME NEW x \in Nat, x < Word
      PROVE  x % Word = x
    BY <1>1, <1>2
<1>3. ASSUME a + b < Word
      PROVE  Plus(a, b) = a + b
  <2>1. a + b \in Nat
      OBVIOUS
  <2> QED
      BY <2>1, <1>2, <1>3 DEF Plus
<1>4. ASSUME b <= a, a < Word
      PROVE  Minus(a, b) = a - b
  <2>1. a - b \in Nat /\ a - b < Word
      BY <1>1, <1>4
  <2> QED
      BY <2>1, <1>2 DEF Minus
<1> QED
    BY <1>3, <1>4

LEMMA CheckedIsSound ==
    ASSUME NEW s \in Segment, SegmentOK(s)
    PROVE  Sound(s)
<1>1. /\ s.offset \in Nat /\ s.filesz \in Nat /\ s.vaddr \in Nat /\ s.memsz \in Nat
      /\ Word \in Nat \ {0} /\ Limit \in Nat /\ FileSize \in Nat /\ PageSize \in Nat \ {0}
      /\ Limit + PageSize <= Word /\ FileSize < Word /\ MinAddr \in Nat
    BY Sizes DEF Segment, Field
<1>2. /\ s.filesz <= s.memsz /\ s.offset <= FileSize
      /\ s.filesz <= Minus(FileSize, s.offset)
      /\ s.vaddr >= MinAddr /\ s.vaddr < Limit /\ s.memsz <= Minus(Limit, s.vaddr)
    BY DEF SegmentOK
<1>3. Minus(FileSize, s.offset) = FileSize - s.offset
    BY <1>1, <1>2, NoWrap
<1>4. Limit < Word /\ s.vaddr <= Limit
    BY <1>1, <1>2
<1>5. Minus(Limit, s.vaddr) = Limit - s.vaddr
    BY <1>1, <1>4, NoWrap
<1>6. s.offset + s.filesz <= FileSize /\ s.vaddr + s.memsz <= Limit
    BY <1>1, <1>2, <1>3, <1>5
<1>7. SegEnd(s) = s.vaddr + s.memsz
    BY <1>1, <1>4, <1>6, NoWrap DEF SegEnd
<1> QED
    BY <1>1, <1>2, <1>6, <1>7 DEF Sound

LEMMA ValidIsSound ==
    ASSUME file \in Files, Valid(segs, file.entry)
    PROVE  \A i \in Loadable(segs) : Sound(segs[i])
BY FileTypes, CheckedIsSound DEF Valid

-----------------------------------------------------------------------------
(***************************************************************************)
(* Pages.                                                                  *)
(***************************************************************************)
LEMMA MultipleOf ==
    ASSUME NEW d \in Nat \ {0}, NEW q \in Nat
    PROVE  q * d \in Nat /\ (q * d) % d = 0 /\ (q * d) \div d = q
<1>1. q * d \in Nat /\ 0 \in 0..(d - 1)
    OBVIOUS
<1>2. (q * d + 0) % d = 0 /\ (q * d + 0) \div d = q
    BY <1>1, DivisionUnique
<1> QED
    BY <1>1, <1>2

LEMMA RoundDown ==
    ASSUME NEW a \in Nat
    PROVE  /\ PageOf(a) \in Nat /\ PageOf(a) % PageSize = 0
           /\ PageOf(a) <= a /\ a < PageOf(a) + PageSize
<1>1. PageSize \in Nat \ {0}
    BY Sizes
<1>2. /\ a \div PageSize \in Nat /\ a % PageSize \in 0..(PageSize - 1)
      /\ a = (a \div PageSize) * PageSize + (a % PageSize)
    BY <1>1, DivisionNat
<1>3. PageOf(a) \in Nat /\ PageOf(a) % PageSize = 0
    BY <1>1, <1>2, MultipleOf DEF PageOf
<1> DEFINE r == a % PageSize
<1>4. r \in 0..(PageSize - 1) /\ a = PageOf(a) + r
    BY <1>2 DEF PageOf
<1> HIDE DEF r
<1> QED
    BY <1>1, <1>3, <1>4

\* Pages are at least a page apart.
LEMMA PagesApart ==
    ASSUME NEW p \in Nat, p % PageSize = 0, NEW q \in Nat, q % PageSize = 0
    PROVE  /\ p < q => p + PageSize <= q
           /\ p < q + PageSize => p <= q
<1>1. PageSize \in Nat \ {0}
    BY Sizes
<1>2. ASSUME NEW x \in Nat, NEW y \in Nat, x % PageSize = 0, y % PageSize = 0, x < y
      PROVE  x + PageSize <= y
  <2>1. (x \div PageSize) * PageSize + PageSize <= y
      BY <1>1, <1>2, DivisionBelow
  <2>2. x = (x \div PageSize) * PageSize
    <3>1. x = (x \div PageSize) * PageSize + (x % PageSize) /\ (x \div PageSize) * PageSize \in Nat
        BY <1>1, DivisionNat
    <3> QED
        BY <3>1, <1>2
  <2> QED
      BY <2>1, <2>2
<1>3. p < q => p + PageSize <= q
    BY <1>2
<1>4. q < p => q + PageSize <= p
    BY <1>2
<1> QED
    BY <1>1, <1>3, <1>4

\* The page of an address is the only page it lies in.
LEMMA PageUnique ==
    ASSUME NEW p \in Nat, p % PageSize = 0, NEW b \in p..(p + PageSize - 1)
    PROVE  PageOf(b) = p
<1>1. PageSize \in Nat \ {0} /\ b \in Nat
    BY Sizes
<1>2. /\ PageOf(b) \in Nat /\ PageOf(b) % PageSize = 0
      /\ PageOf(b) <= b /\ b < PageOf(b) + PageSize
    BY <1>1, RoundDown
<1>3. PageOf(b) <= p /\ p <= PageOf(b)
    BY <1>1, <1>2, PagesApart
<1> QED
    BY <1>2, <1>3

LEMMA RoundUp ==
    ASSUME NEW e \in Nat, e <= Limit
    PROVE  LET top == PageOf(Plus(e, PageSize - 1))
           IN  /\ top \in Nat /\ top % PageSize = 0 /\ e <= top /\ top <= Limit
               /\ top < e + PageSize
<1> DEFINE top == PageOf(Plus(e, PageSize - 1))
<1>1. /\ PageSize \in Nat \ {0} /\ Limit \in Nat /\ Word \in Nat /\ Limit + PageSize <= Word
      /\ Limit % PageSize = 0
    BY Sizes
<1>2. Plus(e, PageSize - 1) = e + PageSize - 1
    BY <1>1, NoWrap
<1>3. e + PageSize - 1 \in Nat
    BY <1>1
<1>4. /\ top \in Nat /\ top % PageSize = 0
      /\ top <= e + PageSize - 1 /\ e + PageSize - 1 < top + PageSize
    BY <1>2, <1>3, RoundDown
<1> HIDE DEF top
<1>5. e <= top /\ top < e + PageSize
    BY <1>1, <1>4
<1>6. top <= Limit
    BY <1>1, <1>4, <1>5, PagesApart
<1> QED
    BY <1>4, <1>5, <1>6 DEF top

\* A page that has a part of a sound segment lies in the user's image area.
LEMMA TouchesInside ==
    ASSUME NEW s, Sound(s), NEW p, Touches(p, s)
    PROVE  p >= MinAddr /\ p + PageSize <= Limit /\ p < LastPage(s)
<1>1. /\ PageSize \in Nat \ {0} /\ Limit \in Nat /\ MinAddr \in Nat
      /\ Limit % PageSize = 0 /\ MinAddr % PageSize = 0
    BY Sizes
<1>2. /\ s.vaddr \in Nat /\ s.memsz \in Nat /\ s.vaddr >= MinAddr
      /\ s.vaddr + s.memsz <= Limit /\ SegEnd(s) = s.vaddr + s.memsz
    BY DEF Sound
<1>3. /\ p \in Nat /\ p % PageSize = 0
      /\ p < s.vaddr + s.memsz /\ p + PageSize > s.vaddr
    BY DEF Touches
<1>4. MinAddr < p + PageSize /\ p < Limit
    BY <1>1, <1>2, <1>3
<1>5. MinAddr <= p /\ p + PageSize <= Limit
    BY <1>1, <1>3, <1>4, PagesApart
<1>6. s.vaddr + s.memsz \in Nat /\ s.vaddr + s.memsz <= LastPage(s) /\ LastPage(s) \in Nat
    BY <1>2, RoundUp DEF LastPage
<1> QED
    BY <1>2, <1>3, <1>5, <1>6

\* The loop over the pages of a segment visits those that have a part of it.
LEMMA LoopTouches ==
    ASSUME NEW s, Sound(s), NEW p \in Nat, p % PageSize = 0, PageOf(s.vaddr) <= p
    PROVE  /\ p < LastPage(s) <=> Touches(p, s)
           /\ p < LastPage(s) => Plus(p, PageSize) = p + PageSize
<1>1. PageSize \in Nat \ {0} /\ Limit \in Nat /\ Word \in Nat /\ Limit + PageSize <= Word
    BY Sizes
<1>2. /\ s.vaddr \in Nat /\ s.memsz \in Nat
      /\ s.vaddr + s.memsz <= Limit /\ SegEnd(s) = s.vaddr + s.memsz
    BY DEF Sound
<1>3. /\ PageOf(s.vaddr) \in Nat /\ s.vaddr < PageOf(s.vaddr) + PageSize
    BY <1>2, RoundDown
<1> DEFINE e == s.vaddr + s.memsz
           top == LastPage(s)
<1>4. /\ top \in Nat /\ top % PageSize = 0 /\ e <= top /\ top <= Limit /\ top < e + PageSize
    BY <1>2, RoundUp DEF LastPage
<1>5. e \in Nat /\ p + PageSize > s.vaddr
    BY <1>1, <1>2, <1>3
<1>6. Touches(p, s) <=> p < e
    BY <1>5 DEF Touches
<1> HIDE DEF e, top
<1>7. p < top => p + PageSize <= top
    BY <1>4, PagesApart
<1>8. p < top <=> p < e
    BY <1>1, <1>4, <1>5, <1>7
<1>9. p < top => Plus(p, PageSize) = p + PageSize
  <2> SUFFICES ASSUME p < top
               PROVE  Plus(p, PageSize) = p + PageSize
      OBVIOUS
  <2>1. p + PageSize < Word
      BY <1>1, <1>4, <1>7
  <2> QED
      BY <2>1, <1>1, NoWrap
<1> QED
    BY <1>6, <1>8, <1>9 DEF top

LEMMA BacksTouches ==
    ASSUME NEW s, Sound(s), NEW b, Backs(s, b)
    PROVE  Touches(PageOf(b), s) /\ PageOf(b) <= b /\ b < SegEnd(s)
<1>1. /\ s.vaddr \in Nat /\ s.memsz \in Nat /\ s.filesz \in Nat /\ s.filesz <= s.memsz
      /\ SegEnd(s) = s.vaddr + s.memsz
    BY DEF Sound
<1>2. b \in Nat /\ b >= s.vaddr /\ b < s.vaddr + s.filesz
    BY DEF Backs
<1>3. /\ PageOf(b) \in Nat /\ PageOf(b) % PageSize = 0
      /\ PageOf(b) <= b /\ b < PageOf(b) + PageSize
    BY <1>2, RoundDown
<1> QED
    BY <1>1, <1>2, <1>3, Sizes DEF Touches

-----------------------------------------------------------------------------
(***************************************************************************)
(* The invariant of the loader: the pages mapped and the bytes copied are  *)
(* those of the segments before seg and, of seg, those below va; a byte    *)
(* comes from the last of the segments that have copied it.                *)
(***************************************************************************)
Reached(i, a) == seg = 0 \/ i < seg \/ (i = seg /\ a < va)

MappedBy(i, p) == i \in Loadable(segs) /\ Touches(p, segs[i]) /\ Reached(i, p)

CopiedBy(i, b) == i \in Loadable(segs) /\ Backs(segs[i], b) /\ Reached(i, b)

CopiedLast(i, b) == CopiedBy(i, b) /\ \A j \in Loadable(segs) : CopiedBy(j, b) => j <= i

LoopInside ==
    /\ Valid(segs, file.entry)
    /\ seg \in {0} \cup Loadable(segs)
    /\ phase # "load" => seg = 0
    /\ seg # 0 => va \in Nat /\ va % PageSize = 0 /\ PageOf(segs[seg].vaddr) <= va

Loaded ==
    /\ mapped = {p \in 0..Limit : \E i \in Loadable(segs) : MappedBy(i, p)}
    /\ DOMAIN content = {b \in 0..Limit : \E i \in Loadable(segs) : CopiedBy(i, b)}
    /\ \A b \in DOMAIN content : \E i \in Loadable(segs) :
        CopiedLast(i, b) /\ content[b] = segs[i].offset + (b - segs[i].vaddr)

Pushed ==
    /\ arg \in 0..Len(file.args) /\ offset \in 0..StackPage
    /\ DOMAIN strings = (arg + 1)..Len(file.args)
    /\ \A i \in DOMAIN strings :
        /\ strings[i].len = file.args[i]
        /\ strings[i].at \in Nat /\ strings[i].at >= offset
        /\ strings[i].at + strings[i].len <= StackPage
        /\ \A j \in DOMAIN strings : i < j => strings[i].at + strings[i].len <= strings[j].at

VectorPlaced ==
    /\ arg = 0 /\ offset >= Need
    /\ vector = ((offset - Need) \div StackAlign) * StackAlign

ExecInv ==
    /\ file \in Files /\ phase \in {"load", "args", "done", "refused"}
    /\ phase # "refused" => LoopInside /\ Loaded
    /\ Pushed
    /\ phase = "done" => VectorPlaced

\* What the invariant says of the segments, and of the one at work.
LEMMA SegmentFacts ==
    ASSUME file \in Files, LoopInside
    PROVE  /\ \A i \in Loadable(segs) : i \in Nat \ {0} /\ Sound(segs[i])
           /\ seg \in Nat
           /\ seg # 0 => seg \in Loadable(segs) /\ Sound(segs[seg])
<1>1. \A i \in Loadable(segs) : i \in Nat \ {0} /\ Sound(segs[i])
    BY ValidIsSound, FileTypes DEF LoopInside
<1> QED
    BY <1>1 DEF LoopInside

\* NextSegment goes through the loadable segments in their order.
LEMMA NextInOrder ==
    ASSUME file \in Files, NEW i \in Nat
    PROVE  /\ NextSegment(i) \in {0} \cup Loadable(segs)
           /\ \A j \in Loadable(segs) :
                /\ NextSegment(i) = 0 \/ j < NextSegment(i) <=> j <= i
                /\ j = NextSegment(i) => i < j
<1> DEFINE rest == {j \in Loadable(segs) : j > i}
<1>1. rest \subseteq Nat /\ \A j \in Loadable(segs) : j \in Nat \ {0}
    BY FileTypes
<1>2. CASE rest = {}
  <2>1. NextSegment(i) = 0
      BY <1>2 DEF NextSegment
  <2>2. \A j \in Loadable(segs) : j <= i
      BY <1>1, <1>2
  <2> QED
      BY <2>1, <2>2, <1>1
<1>3. CASE rest # {}
  <2>1. NextSegment(i) = Min(rest)
      BY <1>3 DEF NextSegment
  <2> DEFINE m == NextSegment(i)
  <2>2. m \in rest /\ \A j \in rest : m <= j
      BY <2>1, <1>1, <1>3, MinNat
  <2>3. m \in Loadable(segs) /\ i < m /\ m # 0
      BY <2>2, <1>1
  <2>4. ASSUME NEW j \in Loadable(segs)
        PROVE  (j < m <=> j <= i) /\ (j = m => i < j)
    <3>1. j > i => m <= j
        BY <2>2, <2>4
    <3> HIDE DEF m
    <3> QED
        BY <3>1, <2>3, <1>1
  <2> QED
      BY <2>3, <2>4
<1> QED
    BY <1>2, <1>3

\* The addresses of sound segments are those of the invariant's sets.
LEMMA Bounded ==
    ASSUME file \in Files, LoopInside
    PROVE  /\ \A i, p : MappedBy(i, p) => i \in Loadable(segs) /\ p \in 0..Limit
           /\ \A i, b : CopiedBy(i, b) => i \in Loadable(segs) /\ b \in 0..Limit
<1>1. Limit \in Nat /\ PageSize \in Nat \ {0}
    BY Sizes
<1>2. ASSUME NEW i, NEW p, MappedBy(i, p)
      PROVE  i \in Loadable(segs) /\ p \in 0..Limit
  <2>1. i \in Loadable(segs) /\ Sound(segs[i]) /\ Touches(p, segs[i]) /\ p \in Nat
      BY <1>2, SegmentFacts DEF MappedBy, Touches
  <2>2. p + PageSize <= Limit
      BY <2>1, TouchesInside
  <2> QED
      BY <2>1, <2>2, <1>1
<1>3. ASSUME NEW i, NEW b, CopiedBy(i, b)
      PROVE  i \in Loadable(segs) /\ b \in 0..Limit
  <2>1. i \in Loadable(segs) /\ Sound(segs[i]) /\ Backs(segs[i], b)
      BY <1>3, SegmentFacts DEF CopiedBy
  <2>2. b \in Nat /\ b < segs[i].vaddr + segs[i].memsz /\ segs[i].vaddr + segs[i].memsz <= Limit
      BY <2>1, BacksTouches DEF Sound, Backs
  <2>3. segs[i].vaddr \in Nat /\ segs[i].memsz \in Nat
      BY <2>1 DEF Sound
  <2> QED
      BY <2>1, <2>2, <2>3, <1>1
<1> QED
    BY <1>2, <1>3

\* Where a segment begins, nothing of it has been mapped or copied.
LEMMA NothingBelow ==
    ASSUME NEW s, Sound(s), NEW p, NEW b
    PROVE  /\ Touches(p, s) => ~(p < PageOf(s.vaddr))
           /\ Backs(s, b) => ~(b < PageOf(s.vaddr))
<1>1. s.vaddr \in Nat /\ PageSize \in Nat \ {0}
    BY Sizes DEF Sound
<1>2. PageOf(s.vaddr) \in Nat /\ PageOf(s.vaddr) % PageSize = 0 /\ PageOf(s.vaddr) <= s.vaddr
    BY <1>1, RoundDown
<1>3. ASSUME Touches(p, s), p < PageOf(s.vaddr)
      PROVE  FALSE
  <2>1. p \in Nat /\ p % PageSize = 0 /\ p + PageSize > s.vaddr
      BY <1>3 DEF Touches
  <2>2. p + PageSize <= PageOf(s.vaddr)
      BY <2>1, <1>2, <1>3, PagesApart
  <2> QED
      BY <2>1, <2>2, <1>1, <1>2
<1>4. ASSUME Backs(s, b), b < PageOf(s.vaddr)
      PROVE  FALSE
    BY <1>1, <1>2, <1>4 DEF Backs
<1> QED
    BY <1>3, <1>4

LEMMA ExecInitInv == ExecInit => ExecInv
<1> SUFFICES ASSUME ExecInit
             PROVE  ExecInv
    OBVIOUS
<1>1. file \in Files /\ phase \in {"load", "args", "done", "refused"} /\ phase # "done"
    BY DEF ExecInit
<1>2. Pushed
  <2>1. Len(file.args) \in Nat /\ StackPage \in Nat
      BY <1>1, FileTypes, Sizes
  <2>2. arg = Len(file.args) /\ offset = StackPage /\ DOMAIN strings = {}
      BY DEF ExecInit
  <2>3. (arg + 1)..Len(file.args) = {}
      BY <2>1, <2>2
  <2> QED
      BY <2>1, <2>2, <2>3 DEF Pushed
<1>3. ASSUME phase # "refused"
      PROVE  LoopInside /\ Loaded
  <2>1. /\ Valid(segs, file.entry) /\ phase = "load" /\ seg = NextSegment(0)
        /\ va = IF seg = 0 THEN 0 ELSE PageOf(segs[seg].vaddr)
        /\ mapped = {} /\ DOMAIN content = {}
      BY <1>3 DEF ExecInit
  <2>2. /\ seg \in {0} \cup Loadable(segs)
        /\ \A j \in Loadable(segs) : j \in Nat \ {0} /\ (seg = 0 \/ j < seg <=> j <= 0)
      BY <1>1, <2>1, NextInOrder, FileTypes
  <2>3. \A i \in Loadable(segs) : Sound(segs[i])
      BY <1>1, <2>1, ValidIsSound
  <2>4. LoopInside
    <3>1. ASSUME seg # 0
          PROVE  va \in Nat /\ va % PageSize = 0 /\ PageOf(segs[seg].vaddr) <= va
      <4>1. segs[seg].vaddr \in Nat /\ va = PageOf(segs[seg].vaddr)
          BY <3>1, <2>1, <2>2, <2>3 DEF Sound
      <4> QED
          BY <4>1, RoundDown
    <3> QED
        BY <3>1, <2>1, <2>2 DEF LoopInside
  <2>5. ASSUME NEW i \in Loadable(segs), NEW a, Reached(i, a)
        PROVE  i = seg /\ seg # 0 /\ a < PageOf(segs[i].vaddr)
      BY <2>1, <2>2, <2>5 DEF Reached
  <2>6. \A i \in Loadable(segs) : \A a : ~MappedBy(i, a) /\ ~CopiedBy(i, a)
      BY <2>3, <2>5, NothingBelow DEF MappedBy, CopiedBy
  <2> QED
      BY <2>1, <2>4, <2>6 DEF Loaded
<1> QED
    BY <1>1, <1>2, <1>3 DEF ExecInv

\* One page more of the segment at work.
LEMMA LoadPageStep ==
    ASSUME file \in Files, LoopInside, Loaded, LoadPage
    PROVE  LoopInside' /\ Loaded'
<1> DEFINE s == segs[seg]
           lo == Bigger(va, s.vaddr)
           hi == Smaller(Plus(va, PageSize), Plus(s.vaddr, s.filesz))
           new == lo..(hi - 1)
<1>1. /\ phase = "load" /\ seg # 0 /\ va < LastPage(s)
      /\ mapped' = mapped \cup {va} /\ va' = Plus(va, PageSize) /\ Copy(s)
      /\ file' = file /\ phase' = phase /\ seg' = seg
    BY DEF LoadPage
<1>2. /\ Sound(s) /\ seg \in Loadable(segs)
      /\ \A i \in Loadable(segs) : i \in Nat \ {0} /\ Sound(segs[i])
    BY <1>1, SegmentFacts
<1>3. /\ va \in Nat /\ va % PageSize = 0 /\ PageOf(s.vaddr) <= va
      /\ PageSize \in Nat \ {0} /\ Limit \in Nat /\ Word \in Nat /\ Limit + PageSize <= Word
    BY <1>1, Sizes DEF LoopInside
<1>4. Touches(va, s) /\ va' = va + PageSize
    BY <1>1, <1>2, <1>3, LoopTouches
<1>5. segs' = segs /\ Loadable(segs)' = Loadable(segs)
    BY <1>1 DEF segs, Loadable
<1>6. LoopInside'
  <2>1. va' \in Nat /\ va' % PageSize = 0 /\ PageOf(s.vaddr) <= va'
    <3>1. va' \in Nat /\ PageOf(s.vaddr) \in Nat
      <4>1. s.vaddr \in Nat
          BY <1>2 DEF Sound
      <4>2. PageOf(s.vaddr) \in Nat
          BY <4>1, RoundDown
      <4>3. va' \in Nat
          BY <1>3, <1>4
      <4> QED
          BY <4>2, <4>3
    <3>2. (va \div PageSize) * PageSize = va /\ va \div PageSize \in Nat
      <4>1. /\ va = (va \div PageSize) * PageSize + (va % PageSize)
            /\ va \div PageSize \in Nat /\ (va \div PageSize) * PageSize \in Nat
          BY <1>3, DivisionNat
      <4> QED
          BY <4>1, <1>3
    <3> DEFINE q == va \div PageSize
    <3>3. q \in Nat /\ q * PageSize = va
        BY <3>2
    <3> HIDE DEF q
    <3>4. (q + 1) * PageSize = va + PageSize
        BY <3>3, <1>3
    <3>5. va' % PageSize = 0
      <4>1. q + 1 \in Nat
          BY <3>3
      <4>2. ((q + 1) * PageSize) % PageSize = 0
          BY <4>1, <1>3, MultipleOf
      <4> QED
          BY <4>2, <3>4, <1>4
    <3> QED
        BY <3>1, <3>5, <1>3, <1>4
  <2>2. Valid(segs, file.entry)'
      BY <1>1, <1>5 DEF LoopInside, Valid, Loadable
  <2> QED
      BY <1>1, <1>5, <2>1, <2>2 DEF LoopInside
<1>7. \A b : b \in new <=> Backs(s, b) /\ va <= b /\ b < va + PageSize
  <2>1. s.vaddr \in Nat /\ s.filesz \in Nat /\ s.memsz \in Nat /\ s.filesz <= s.memsz
        /\ s.vaddr + s.memsz <= Limit
      BY <1>2 DEF Sound
  <2>2. s.vaddr + s.filesz < Word
      BY <2>1, <1>3
  <2>3. Plus(va, PageSize) = va + PageSize /\ Plus(s.vaddr, s.filesz) = s.vaddr + s.filesz
      BY <2>1, <2>2, <1>1, <1>4, NoWrap
  <2>4. lo = IF va > s.vaddr THEN va ELSE s.vaddr
      BY DEF Bigger
  <2>5. hi = IF va + PageSize < s.vaddr + s.filesz THEN va + PageSize ELSE s.vaddr + s.filesz
      BY <2>3 DEF Smaller
  <2> HIDE DEF lo, hi, s
  <2> QED
      BY <2>1, <2>4, <2>5, <1>3 DEF Backs
<1>8. \A i : \A p : MappedBy(i, p)' <=> MappedBy(i, p) \/ (i = seg /\ p = va)
  <2> SUFFICES ASSUME NEW i, NEW p
               PROVE  MappedBy(i, p)' <=> MappedBy(i, p) \/ (i = seg /\ p = va)
      OBVIOUS
  <2>1. Touches(p, s) => (p < va + PageSize <=> p < va \/ p = va)
    <3> SUFFICES ASSUME Touches(p, s)
                 PROVE  p < va + PageSize <=> p < va \/ p = va
        OBVIOUS
    <3>1. p \in Nat /\ p % PageSize = 0
        BY DEF Touches
    <3>2. p < va + PageSize => p <= va
        BY <3>1, <1>3, PagesApart
    <3> QED
        BY <3>1, <3>2, <1>3
  <2>2. MappedBy(i, p)' <=> /\ i \in Loadable(segs) /\ Touches(p, segs[i])
                            /\ i < seg \/ (i = seg /\ p < va + PageSize)
      BY <1>1, <1>4, <1>5 DEF MappedBy, Reached, Touches
  <2>3. MappedBy(i, p) <=> /\ i \in Loadable(segs) /\ Touches(p, segs[i])
                           /\ i < seg \/ (i = seg /\ p < va)
      BY <1>1 DEF MappedBy, Reached
  <2> QED
      BY <2>1, <2>2, <2>3, <1>2, <1>4
<1>9. \A i : \A b : CopiedBy(i, b)' <=> CopiedBy(i, b) \/ (i = seg /\ b \in new)
  <2> SUFFICES ASSUME NEW i, NEW b
               PROVE  CopiedBy(i, b)' <=> CopiedBy(i, b) \/ (i = seg /\ b \in new)
      OBVIOUS
  <2>1. Backs(s, b) => (b < va + PageSize <=> b < va \/ b \in new)
      BY <1>3, <1>7 DEF Backs
  <2>2. CopiedBy(i, b)' <=> /\ i \in Loadable(segs) /\ Backs(segs[i], b)
                            /\ i < seg \/ (i = seg /\ b < va + PageSize)
      BY <1>1, <1>4, <1>5 DEF CopiedBy, Reached, Backs
  <2>3. CopiedBy(i, b) <=> /\ i \in Loadable(segs) /\ Backs(segs[i], b)
                           /\ i < seg \/ (i = seg /\ b < va)
      BY <1>1 DEF CopiedBy, Reached
  <2> QED
      BY <2>1, <2>2, <2>3, <1>2, <1>7
<1>10. mapped' = {p \in 0..Limit : \E i \in Loadable(segs) : MappedBy(i, p)'}
  <2>1. va \in 0..Limit
    <3>1. va + PageSize <= Limit
        BY <1>2, <1>4, TouchesInside
    <3> QED
        BY <3>1, <1>3
  <2> QED
      BY <2>1, <1>1, <1>2, <1>8 DEF Loaded
<1>11. DOMAIN content' = {b \in 0..Limit : \E i \in Loadable(segs) : CopiedBy(i, b)'}
  <2>1. DOMAIN content' = DOMAIN content \cup new
      BY <1>1 DEF Copy
  <2>2. \A b \in new : b \in 0..Limit
    <3> SUFFICES ASSUME NEW b \in new
                 PROVE  b \in 0..Limit
        OBVIOUS
    <3>2. b \in Nat /\ b < va + PageSize
        BY <1>7 DEF Backs
    <3>3. va + PageSize <= Limit
        BY <1>2, <1>4, TouchesInside
    <3> QED
        BY <3>2, <3>3, <1>3
  <2> HIDE DEF new
  <2> QED
      BY <2>1, <2>2, <1>2, <1>9 DEF Loaded
<1>12. ASSUME NEW b \in DOMAIN content'
       PROVE  \E i \in Loadable(segs) :
                /\ CopiedBy(i, b)' /\ \A j \in Loadable(segs) : CopiedBy(j, b)' => j <= i
                /\ content'[b] = segs[i].offset + (b - segs[i].vaddr)
  <2>1. b \in DOMAIN content \cup new
      BY <1>1, <1>12 DEF Copy
  <2>2. content'[b] = IF b \in new THEN Plus(s.offset, b - s.vaddr) ELSE content[b]
      BY <2>1, <1>1 DEF Copy
  <2>3. CASE b \in new
    <3>0. PICK k \in Loadable(segs) : k = seg
        BY <1>2
    <3>1. CopiedBy(k, b)'
        BY <2>3, <3>0, <1>9
    <3>2. \A j \in Loadable(segs) : CopiedBy(j, b)' => j <= k
        BY <3>0, <1>1, <1>2, <1>9 DEF CopiedBy, Reached
    <3>3. Backs(s, b)
        BY <2>3, <1>7
    <3>4. /\ s.offset \in Nat /\ s.vaddr \in Nat /\ s.filesz \in Nat
          /\ s.offset + s.filesz <= FileSize
          /\ b \in Nat /\ b >= s.vaddr /\ b < s.vaddr + s.filesz
          /\ FileSize \in Nat /\ FileSize < Word
        BY <1>2, <3>3, Sizes DEF Sound, Backs
    <3>5. Plus(s.offset, b - s.vaddr) = s.offset + (b - s.vaddr)
      <4> DEFINE d == b - s.vaddr
      <4>1. d \in Nat /\ d < s.filesz
          BY <3>4
      <4> HIDE DEF d, s
      <4>2. s.offset + d < Word
          BY <4>1, <3>4, <1>3
      <4>3. Plus(s.offset, d) = s.offset + d
          BY <4>1, <4>2, <3>4, NoWrap
      <4> QED
          BY <4>3 DEF d
    <3> QED
        BY <3>0, <3>1, <3>2, <3>5, <2>2, <2>3
  <2>4. CASE b \notin new
    <3>1. b \in DOMAIN content /\ content'[b] = content[b]
        BY <2>1, <2>2, <2>4
    <3>2. PICK i \in Loadable(segs) :
            CopiedLast(i, b) /\ content[b] = segs[i].offset + (b - segs[i].vaddr)
        BY <3>1 DEF Loaded
    <3>3. \A j : CopiedBy(j, b)' <=> CopiedBy(j, b)
        BY <2>4, <1>9
    <3> HIDE DEF new
    <3> QED
        BY <3>1, <3>2, <3>3 DEF CopiedLast
  <2> QED
      BY <2>3, <2>4
<1>13. Loaded'
    BY <1>1, <1>5, <1>10, <1>11, <1>12 DEF Loaded, CopiedLast
<1> QED
    BY <1>6, <1>13

\* Behind the last page of a segment, all of it has been mapped and copied.
LEMMA LoadSegmentStep ==
    ASSUME file \in Files, LoopInside, Loaded, LoadSegment
    PROVE  LoopInside' /\ Loaded'
<1> DEFINE s == segs[seg]
<1>1. /\ phase = "load" /\ seg # 0 /\ va >= LastPage(s)
      /\ seg' = NextSegment(seg)
      /\ va' = IF seg' = 0 THEN 0 ELSE PageOf(segs[seg'].vaddr)
      /\ file' = file /\ phase' = phase /\ mapped' = mapped /\ content' = content
    BY DEF LoadSegment
<1>2. /\ Sound(s) /\ seg \in Loadable(segs) /\ seg \in Nat
      /\ \A i \in Loadable(segs) : i \in Nat \ {0} /\ Sound(segs[i])
    BY <1>1, SegmentFacts
<1>3. /\ seg' \in {0} \cup Loadable(segs)
      /\ \A j \in Loadable(segs) :
            (seg' = 0 \/ j < seg' <=> j <= seg) /\ (j = seg' => seg < j)
    BY <1>1, <1>2, NextInOrder
<1>4. segs' = segs /\ Loadable(segs)' = Loadable(segs)
    BY <1>1 DEF segs, Loadable
<1>5. LoopInside'
  <2>1. ASSUME seg' # 0
        PROVE  va' \in Nat /\ va' % PageSize = 0 /\ PageOf(segs[seg'].vaddr) <= va'
    <3>1. segs[seg'].vaddr \in Nat /\ va' = PageOf(segs[seg'].vaddr)
        BY <2>1, <1>1, <1>2, <1>3 DEF Sound
    <3> QED
        BY <3>1, RoundDown
  <2>2. Valid(segs, file.entry)'
      BY <1>1, <1>4 DEF LoopInside, Valid, Loadable
  <2> QED
      BY <1>1, <1>3, <1>4, <2>1, <2>2 DEF LoopInside
<1>6. /\ va \in Nat /\ LastPage(s) \in Nat /\ s.vaddr + s.memsz <= LastPage(s)
      /\ SegEnd(s) = s.vaddr + s.memsz /\ s.vaddr \in Nat /\ s.memsz \in Nat
  <2>1. s.vaddr + s.memsz \in Nat /\ s.vaddr + s.memsz <= Limit
        /\ SegEnd(s) = s.vaddr + s.memsz /\ s.vaddr \in Nat /\ s.memsz \in Nat
      BY <1>2 DEF Sound
  <2>2. LastPage(s) \in Nat /\ s.vaddr + s.memsz <= LastPage(s)
      BY <2>1, RoundUp DEF LastPage
  <2> QED
      BY <2>1, <2>2, <1>1 DEF LoopInside
<1>7. ASSUME NEW a
      PROVE  Touches(a, s) \/ Backs(s, a) => a < va
  <2>1. Touches(a, s) => a \in Nat /\ a < s.vaddr + s.memsz
      BY DEF Touches
  <2>2. Backs(s, a) => a \in Nat /\ a < s.vaddr + s.memsz
      BY <1>2, BacksTouches, <1>6 DEF Backs
  <2> HIDE DEF s
  <2> QED
      BY <2>1, <2>2, <1>1, <1>6
<1>8. ASSUME NEW i \in Loadable(segs), NEW a, Touches(a, segs[i]) \/ Backs(segs[i], a)
      PROVE  Reached(i, a)' <=> Reached(i, a)
  <2>1. Reached(i, a) <=> i <= seg
      BY <1>1, <1>2, <1>7, <1>8 DEF Reached
  <2>2. i = seg' => ~(a < va')
      BY <1>1, <1>2, <1>8, NothingBelow
  <2> QED
      BY <2>1, <2>2, <1>3 DEF Reached
<1>9. \A i, p : MappedBy(i, p)' <=> MappedBy(i, p)
    BY <1>4, <1>8 DEF MappedBy, Touches
<1>10. \A i, b : CopiedBy(i, b)' <=> CopiedBy(i, b)
    BY <1>4, <1>8 DEF CopiedBy, Backs
<1>11. Loaded'
    BY <1>1, <1>4, <1>9, <1>10 DEF Loaded, CopiedLast
<1> QED
    BY <1>5, <1>11

-----------------------------------------------------------------------------
(***************************************************************************)
(* The other steps.                                                        *)
(***************************************************************************)
\* What does not touch the loader's state keeps its part of the invariant.
LEMMA LoaderKept ==
    ASSUME LoopInside, Loaded, UNCHANGED <<file, seg, va, mapped, content>>,
           phase' # "load" => seg = 0
    PROVE  LoopInside' /\ Loaded'
<1>1. segs' = segs /\ Loadable(segs)' = Loadable(segs)
    BY DEF segs, Loadable
<1>2. LoopInside'
    BY <1>1 DEF LoopInside, Valid, Loadable
<1>3. \A i, p : (MappedBy(i, p)' <=> MappedBy(i, p)) /\ (CopiedBy(i, p)' <=> CopiedBy(i, p))
    BY <1>1 DEF MappedBy, CopiedBy, Reached, Touches, Backs
<1> QED
    BY <1>1, <1>2, <1>3 DEF Loaded, CopiedLast

LEMMA PushStringStep ==
    ASSUME file \in Files, Pushed, PushString
    PROVE  Pushed'
<1> DEFINE len == file.args[arg]
<1>1. /\ arg > 0 /\ file' = file
      /\ Len(file.args) \in Nat /\ arg \in 0..Len(file.args) /\ offset \in 0..StackPage
      /\ StackPage \in Nat
    BY FileTypes, Sizes DEF PushString, Pushed
<1>2. len \in Nat
    BY <1>1, FileTypes, ElementOfSeq
<1>3. CASE len > offset
    BY <1>3, <1>1 DEF PushString, Pushed
<1>4. CASE ~(len > offset)
  <2>1. /\ offset' = offset - len /\ arg' = arg - 1
        /\ strings' = [i \in DOMAIN strings \cup {arg} |->
                          IF i = arg THEN [at |-> offset', len |-> len] ELSE strings[i]]
      BY <1>4 DEF PushString
  <2>2. /\ DOMAIN strings = (arg + 1)..Len(file.args)
        /\ \A i \in DOMAIN strings :
            /\ strings[i].len = file.args[i]
            /\ strings[i].at \in Nat /\ strings[i].at >= offset
            /\ strings[i].at + strings[i].len <= StackPage
            /\ \A j \in DOMAIN strings :
                i < j => strings[i].at + strings[i].len <= strings[j].at
      BY DEF Pushed
  <2> HIDE DEF len
  <2>3. /\ offset' \in 0..StackPage /\ offset' <= offset /\ offset' + len = offset
        /\ arg' \in 0..Len(file.args)
      BY <2>1, <1>1, <1>2, <1>4
  <2>4. DOMAIN strings' = (arg' + 1)..Len(file.args)
    <3>1. DOMAIN strings' = DOMAIN strings \cup {arg}
        BY <2>1
    <3> QED
        BY <3>1, <2>1, <2>2, <1>1
  <2>5. strings'[arg] = [at |-> offset', len |-> len]
      BY <2>1
  <2>6. ASSUME NEW i \in DOMAIN strings
        PROVE  strings'[i] = strings[i] /\ i > arg /\ i \in Nat
    <3>1. i > arg /\ i \in Nat
        BY <2>2, <1>1
    <3> QED
        BY <3>1, <2>1, <1>1
  <2>7. DOMAIN strings' = DOMAIN strings \cup {arg}
      BY <2>1
  <2>8. ASSUME NEW i \in DOMAIN strings'
        PROVE  /\ strings'[i].len = file.args[i]
               /\ strings'[i].at \in Nat /\ strings'[i].at >= offset'
               /\ strings'[i].at + strings'[i].len <= StackPage
               /\ \A j \in DOMAIN strings' :
                    i < j => strings'[i].at + strings'[i].len <= strings'[j].at
    <3>1. CASE i = arg
      <4>1. strings'[i].len = len /\ strings'[i].at = offset'
          BY <3>1, <2>5
      <4>2. ASSUME NEW j \in DOMAIN strings', i < j
            PROVE  strings'[i].at + strings'[i].len <= strings'[j].at
        <5>1. j \in DOMAIN strings
            BY <4>2, <3>1, <2>7, <1>1
        <5>2. strings'[j].at \in Nat /\ strings'[j].at >= offset
            BY <5>1, <2>2, <2>6
        <5> QED
            BY <5>2, <4>1, <2>3
      <4>3. strings'[i].at \in Nat /\ strings'[i].at >= offset'
            /\ strings'[i].at + strings'[i].len <= StackPage
          BY <4>1, <2>3, <1>1
      <4>4. strings'[i].len = file.args[i]
          BY <4>1, <3>1 DEF len
      <4> QED
          BY <4>2, <4>3, <4>4
    <3>2. CASE i # arg
      <4>1. i \in DOMAIN strings /\ strings'[i] = strings[i] /\ i > arg /\ i \in Nat
          BY <3>2, <2>6, <2>7
      <4>2. ASSUME NEW j \in DOMAIN strings', i < j
            PROVE  strings'[i].at + strings'[i].len <= strings'[j].at
        <5>1. j \in DOMAIN strings /\ strings'[j] = strings[j]
          <6>1. j # arg
              BY <4>1, <4>2, <1>1
          <6> QED
              BY <6>1, <2>6, <2>7
        <5> QED
            BY <5>1, <4>1, <4>2, <2>2
      <4>3. strings[i].at \in Nat /\ strings[i].at >= offset
          BY <4>1, <2>2
      <4>4. strings[i].at >= offset'
          BY <4>3, <2>3, <1>1
      <4> QED
          BY <4>1, <4>2, <4>3, <4>4, <2>2
    <3> QED
        BY <3>1, <3>2
  <2> QED
      BY <2>3, <2>4, <2>8, <1>1 DEF Pushed
<1> QED
    BY <1>3, <1>4

LEMMA ExecStepInv == ExecInv /\ [ExecNext]_execVars => ExecInv'
<1> SUFFICES ASSUME ExecInv, [ExecNext]_execVars
             PROVE  ExecInv'
    OBVIOUS
<1>0. /\ file \in Files /\ phase \in {"load", "args", "done", "refused"} /\ Pushed
      /\ phase # "refused" => LoopInside /\ Loaded
      /\ phase = "done" => VectorPlaced
    BY DEF ExecInv
<1>1. CASE LoadPage
  <2>1. phase = "load" /\ UNCHANGED <<file, phase, arg, offset, strings, vector>>
      BY <1>1 DEF LoadPage
  <2>2. LoopInside' /\ Loaded'
      BY <1>0, <1>1, <2>1, LoadPageStep
  <2>3. Pushed'
      BY <1>0, <2>1 DEF Pushed
  <2> QED
      BY <1>0, <2>1, <2>2, <2>3 DEF ExecInv
<1>2. CASE LoadSegment
  <2>1. phase = "load" /\ UNCHANGED <<file, phase, arg, offset, strings, vector>>
      BY <1>2 DEF LoadSegment
  <2>2. LoopInside' /\ Loaded'
      BY <1>0, <1>2, <2>1, LoadSegmentStep
  <2>3. Pushed'
      BY <1>0, <2>1 DEF Pushed
  <2> QED
      BY <1>0, <2>1, <2>2, <2>3 DEF ExecInv
<1>3. CASE LoadDone
  <2>1. /\ phase = "load" /\ seg = 0 /\ phase' = "args"
        /\ UNCHANGED <<file, seg, va, mapped, content, arg, offset, strings, vector>>
      BY <1>3 DEF LoadDone
  <2>2. LoopInside' /\ Loaded'
      BY <1>0, <2>1, LoaderKept
  <2>3. Pushed'
      BY <1>0, <2>1 DEF Pushed
  <2> QED
      BY <1>0, <2>1, <2>2, <2>3 DEF ExecInv
<1>4. CASE PushString
  <2>1. /\ phase = "args" /\ phase' \in {"args", "refused"}
        /\ UNCHANGED <<file, seg, va, mapped, content>>
      BY <1>4 DEF PushString
  <2>2. seg = 0
      BY <1>0, <2>1 DEF LoopInside
  <2>3. LoopInside' /\ Loaded'
      BY <1>0, <2>1, <2>2, LoaderKept
  <2>4. Pushed'
      BY <1>0, <1>4, PushStringStep
  <2> QED
      BY <1>0, <2>1, <2>3, <2>4 DEF ExecInv
<1>5. CASE PushVector
  <2>1. /\ phase = "args" /\ arg = 0
        /\ UNCHANGED <<file, seg, va, mapped, content, arg, offset, strings>>
        /\ phase' \in {"refused", "done"}
      BY <1>5 DEF PushVector
  <2>2. seg = 0
      BY <1>0, <2>1 DEF LoopInside
  <2>3. LoopInside' /\ Loaded'
      BY <1>0, <2>1, <2>2, LoaderKept
  <2>4. Pushed'
      BY <1>0, <2>1 DEF Pushed
  <2>5. phase' = "done" => VectorPlaced'
    <3> SUFFICES ASSUME phase' = "done"
                 PROVE  VectorPlaced'
        OBVIOUS
    <3>1. /\ ~(offset < Need)
          /\ vector' = ((offset - Need) \div StackAlign) * StackAlign
        BY <1>5 DEF PushVector
    <3>2. Need \in Nat /\ offset \in Nat
      <4>1. Len(file.args) + 2 \in Nat /\ PointerSize \in Nat
          BY <1>0, FileTypes, Sizes
      <4> QED
          BY <4>1, <1>0, Sizes DEF Need, Pushed
    <3>3. Need' = Need
        BY <2>1 DEF Need
    <3> QED
        BY <2>1, <3>1, <3>2, <3>3 DEF VectorPlaced
  <2> QED
      BY <1>0, <2>1, <2>3, <2>4, <2>5 DEF ExecInv
<1>6. CASE UNCHANGED execVars
  <2>1. /\ UNCHANGED <<file, seg, va, mapped, content>>
        /\ UNCHANGED <<phase, arg, offset, strings, vector>>
      BY <1>6 DEF execVars
  <2>2. phase # "refused" => LoopInside' /\ Loaded'
    <3> SUFFICES ASSUME phase # "refused"
                 PROVE  LoopInside' /\ Loaded'
        OBVIOUS
    <3>1. phase' # "load" => seg = 0
        BY <1>0, <2>1 DEF LoopInside
    <3> QED
        BY <1>0, <2>1, <3>1, LoaderKept
  <2>3. Pushed'
      BY <1>0, <2>1 DEF Pushed
  <2>4. phase = "done" => VectorPlaced'
      BY <1>0, <2>1 DEF VectorPlaced, Need
  <2> QED
      BY <1>0, <2>1, <2>2, <2>3, <2>4 DEF ExecInv
<1> QED
    BY <1>1, <1>2, <1>3, <1>4, <1>5, <1>6 DEF ExecNext

-----------------------------------------------------------------------------
(***************************************************************************)
(* What the invariant gives.                                               *)
(***************************************************************************)
LEMMA InvInside == ExecInv => LoadStaysInside
<1> SUFFICES ASSUME ExecInv, phase # "refused"
             PROVE  /\ \A p \in mapped : p >= MinAddr /\ p + PageSize <= Limit
                    /\ \A b \in DOMAIN content : PageOf(b) \in mapped /\ content[b] < FileSize
    BY DEF LoadStaysInside
<1>1. file \in Files /\ LoopInside /\ Loaded
    BY DEF ExecInv
<1>2. \A i \in Loadable(segs) : Sound(segs[i])
    BY <1>1, SegmentFacts
<1>3. \A p \in mapped : p >= MinAddr /\ p + PageSize <= Limit
    BY <1>1, <1>2, TouchesInside DEF Loaded, MappedBy
<1>4. ASSUME NEW b \in DOMAIN content
      PROVE  PageOf(b) \in mapped /\ content[b] < FileSize
  <2>1. PICK i \in Loadable(segs) :
            CopiedBy(i, b) /\ content[b] = segs[i].offset + (b - segs[i].vaddr)
      BY <1>1, <1>4 DEF Loaded, CopiedLast
  <2>2. Sound(segs[i]) /\ Backs(segs[i], b) /\ Reached(i, b)
      BY <1>2, <2>1 DEF CopiedBy
  <2>3. Touches(PageOf(b), segs[i]) /\ PageOf(b) <= b /\ PageOf(b) \in Nat /\ b \in Nat
    <3>1. b \in Nat
        BY <2>2 DEF Backs
    <3> QED
        BY <3>1, <2>2, BacksTouches, RoundDown
  <2>4. Reached(i, PageOf(b))
      BY <2>1, <2>2, <2>3, <1>1, SegmentFacts DEF Reached, LoopInside
  <2>5. MappedBy(i, PageOf(b))
      BY <2>1, <2>3, <2>4 DEF MappedBy
  <2>6. PageOf(b) \in mapped
      BY <1>1, <2>5, Bounded DEF Loaded
  <2>7. content[b] < FileSize
    <3>1. /\ segs[i].offset \in Nat /\ segs[i].vaddr \in Nat /\ segs[i].filesz \in Nat
          /\ segs[i].offset + segs[i].filesz <= FileSize /\ FileSize \in Nat
          /\ b \in Nat /\ b < segs[i].vaddr + segs[i].filesz
        BY <2>2, Sizes DEF Sound, Backs
    <3> QED
        BY <3>1, <2>1
  <2> QED
      BY <2>6, <2>7
<1> QED
    BY <1>3, <1>4

LEMMA BoundedMax ==
    ASSUME NEW n \in Nat, NEW S, S \subseteq 0..n, S # {}
    PROVE  Max(S) \in S /\ \A x \in S : x <= Max(S)
<1> DEFINE R == {n - x : x \in S}
<1>1. R \subseteq Nat /\ R # {}
    OBVIOUS
<1>2. PICK m \in R : \A r \in R : m <= r
    BY <1>1, LeastNat
<1>3. PICK y \in S : m = n - y
    BY <1>2
<1>4. \A x \in S : y >= x
  <2> SUFFICES ASSUME NEW x \in S
               PROVE  y >= x
      OBVIOUS
  <2>1. n - x \in R
      OBVIOUS
  <2>2. m <= n - x
      BY <1>2, <2>1
  <2> HIDE DEF R
  <2> QED
      BY <2>2, <1>3
<1>5. Max(S) \in S /\ \A x \in S : Max(S) >= x
    BY <1>3, <1>4 DEF Max
<1> QED
    BY <1>5

\* An address is in the file's part of a segment when that segment backs it.
LEMMA PrescribedByLast ==
    ASSUME file \in Files, LoopInside, Loaded, seg = 0, NEW b \in Nat
    PROVE  Prescribed(b) = IF b \in DOMAIN content THEN content[b] ELSE FileSize
<1> DEFINE covering == {i \in Loadable(segs) :
                            b >= segs[i].vaddr /\ b < segs[i].vaddr + segs[i].filesz}
<1>1. \A i \in Loadable(segs) : i \in covering <=> CopiedBy(i, b)
    BY DEF CopiedBy, Backs, Reached
<1>2. CASE b \in DOMAIN content
  <2>1. PICK i \in Loadable(segs) :
            CopiedLast(i, b) /\ content[b] = segs[i].offset + (b - segs[i].vaddr)
      BY <1>2 DEF Loaded
  <2>2. i \in covering /\ \A j \in covering : j <= i
      BY <2>1, <1>1 DEF CopiedLast
  <2>3. covering \subseteq Nat
      BY SegmentFacts
  <2>4. Max(covering) \in covering /\ \A j \in covering : Max(covering) >= j
    <3>1. \A j \in covering : i >= j
        BY <2>2, <2>3
    <3> HIDE DEF covering
    <3> QED
        BY <2>2, <3>1 DEF Max
  <2>5. Max(covering) = i
    <3> DEFINE m == Max(covering)
    <3>1. m \in Nat /\ i \in Nat /\ m <= i /\ m >= i
        BY <2>2, <2>3, <2>4
    <3> HIDE DEF m
    <3> QED
        BY <3>1 DEF m
  <2>6. covering # {}
      BY <2>2
  <2>7. Prescribed(b) = segs[Max(covering)].offset + (b - segs[Max(covering)].vaddr)
      BY <2>6 DEF Prescribed
  <2> HIDE DEF covering
  <2> QED
      BY <1>2, <2>1, <2>5, <2>7
<1>3. CASE b \notin DOMAIN content
  <2>1. covering = {}
    <3> SUFFICES ASSUME NEW i \in covering
                 PROVE  FALSE
        OBVIOUS
    <3>1. i \in Loadable(segs) /\ CopiedBy(i, b)
        BY <1>1
    <3>2. b \in 0..Limit
        BY <3>1, Bounded
    <3> QED
        BY <3>1, <3>2, <1>3 DEF Loaded
  <2> QED
      BY <2>1, <1>3 DEF Prescribed
<1> QED
    BY <1>2, <1>3

LEMMA InvLoaded == ExecInv => LoadedExactly
<1> SUFFICES ASSUME ExecInv, phase \in {"args", "done"}
             PROVE  LoadedExactly
    BY DEF LoadedExactly
<1>1. file \in Files /\ LoopInside /\ Loaded /\ seg = 0
    BY DEF ExecInv, LoopInside
<1>2. \A i \in Loadable(segs) : Sound(segs[i]) /\ i \in Nat
    BY <1>1, SegmentFacts
<1>3. /\ PageSize \in Nat \ {0} /\ Limit \in Nat /\ Word \in Nat /\ Limit + PageSize <= Word
    BY Sizes
<1>4. \A i, p : MappedBy(i, p) <=> i \in Loadable(segs) /\ Touches(p, segs[i])
    BY <1>1 DEF MappedBy, Reached
<1>5. \A p : p \in mapped <=> \E i \in Loadable(segs) : Touches(p, segs[i])
    BY <1>1, <1>4, Bounded DEF Loaded
<1>6. mapped = {p \in {k * PageSize : k \in 0..(Limit \div PageSize)} :
                    \E i \in Loadable(segs) :
                        /\ p < segs[i].vaddr + segs[i].memsz
                        /\ p + PageSize > segs[i].vaddr}
  <2>1. ASSUME NEW p \in mapped
        PROVE  p \in {k * PageSize : k \in 0..(Limit \div PageSize)}
    <3>1. p \in Nat /\ p % PageSize = 0 /\ p <= Limit
        BY <2>1, <1>1, <1>5 DEF Touches, Loaded
    <3>2. /\ p \div PageSize \in Nat /\ Limit \div PageSize \in Nat
          /\ Limit % PageSize \in 0..(PageSize - 1)
          /\ (p \div PageSize) * PageSize \in Nat /\ (Limit \div PageSize) * PageSize \in Nat
          /\ p = (p \div PageSize) * PageSize + (p % PageSize)
          /\ Limit = (Limit \div PageSize) * PageSize + (Limit % PageSize)
        BY <3>1, <1>3, DivisionNat
    <3> DEFINE k == p \div PageSize
               q == Limit \div PageSize
               r == Limit % PageSize
    <3>3. /\ k \in Nat /\ q \in Nat /\ r \in 0..(PageSize - 1) /\ k * PageSize \in Nat
          /\ q * PageSize \in Nat /\ p = k * PageSize /\ Limit = q * PageSize + r
        BY <3>1, <3>2
    <3> HIDE DEF k, q, r
    <3>4. k * PageSize < q * PageSize + PageSize
        BY <3>1, <3>3, <1>3
    <3>5. k <= q
        BY <3>3, <3>4, <1>3, MultipleBelow
    <3> QED
        BY <3>3, <3>5 DEF q
  <2>2. ASSUME NEW k \in 0..(Limit \div PageSize)
        PROVE  k * PageSize \in Nat /\ (k * PageSize) % PageSize = 0
    <3>1. k \in Nat
        BY <1>3, DivisionNat
    <3> QED
        BY <3>1, <1>3, MultipleOf
  <2> QED
      BY <2>1, <2>2, <1>5 DEF Touches
<1>7. ASSUME NEW p \in mapped, NEW b \in p..(p + PageSize - 1)
      PROVE  Prescribed(b) = IF b \in DOMAIN content THEN content[b] ELSE FileSize
  <2>1. b \in Nat
      BY <1>1, <1>3 DEF Loaded
  <2> QED
      BY <2>1, <1>1, PrescribedByLast
<1> DEFINE ends == {0} \cup {SegEnd(segs[i]) : i \in Loadable(segs)}
<1>8. \A i \in Loadable(segs) : SegEnd(segs[i]) \in 0..Limit
  <2> SUFFICES ASSUME NEW i \in Loadable(segs)
               PROVE  SegEnd(segs[i]) \in 0..Limit
      OBVIOUS
  <2>1. /\ segs[i].vaddr \in Nat /\ segs[i].memsz \in Nat /\ segs[i].vaddr + segs[i].memsz <= Limit
        /\ SegEnd(segs[i]) = segs[i].vaddr + segs[i].memsz
      BY <1>2 DEF Sound
  <2> QED
      BY <2>1, <1>3
<1>9. Max(ends) \in 0..Limit /\ \A x \in ends : x <= Max(ends)
  <2>1. ends \subseteq 0..Limit /\ ends # {}
      BY <1>3, <1>8
  <2> HIDE DEF ends
  <2>2. Max(ends) \in ends /\ \A x \in ends : x <= Max(ends)
      BY <2>1, <1>3, BoundedMax
  <2> QED
      BY <2>1, <2>2
<1>10. /\ ImageBreak \in 0..Limit /\ ImageBreak % PageSize = 0
       /\ Max(ends) <= ImageBreak
  <2> DEFINE e == Max(ends)
  <2>1. e \in Nat /\ e <= Limit /\ ImageBreak = PageOf(Plus(e, PageSize - 1))
      BY <1>9 DEF ImageBreak
  <2> HIDE DEF e
  <2>2. /\ ImageBreak \in Nat /\ ImageBreak % PageSize = 0
        /\ e <= ImageBreak /\ ImageBreak <= Limit
      BY <2>1, RoundUp
  <2> QED
      BY <2>2, <1>3 DEF e
<1>11. ASSUME NEW p \in mapped
       PROVE  p < ImageBreak
  <2>1. PICK i \in Loadable(segs) : Touches(p, segs[i])
      BY <1>5
  <2>2. p \in Nat /\ p < SegEnd(segs[i])
      BY <2>1, <1>2 DEF Touches, Sound
  <2>3. SegEnd(segs[i]) <= Max(ends)
      BY <1>9
  <2> HIDE DEF ends
  <2> QED
      BY <2>2, <2>3, <1>8, <1>9, <1>10, <1>3
<1>12. PageOf(file.entry) \in mapped
  <2>1. PICK i \in Loadable(segs) :
            file.entry >= segs[i].vaddr /\ file.entry < SegEnd(segs[i])
      BY <1>1 DEF LoopInside, Valid, SegEnd
  <2>2. /\ segs[i].vaddr \in Nat /\ segs[i].memsz \in Nat
        /\ SegEnd(segs[i]) = segs[i].vaddr + segs[i].memsz
      BY <1>2 DEF Sound
  <2>3. file.entry \in Nat
      BY <1>1, FileTypes DEF Field
  <2>4. /\ PageOf(file.entry) \in Nat /\ PageOf(file.entry) % PageSize = 0
        /\ PageOf(file.entry) <= file.entry /\ file.entry < PageOf(file.entry) + PageSize
      BY <2>3, RoundDown
  <2>5. Touches(PageOf(file.entry), segs[i])
      BY <2>1, <2>2, <2>3, <2>4, <1>3 DEF Touches
  <2> QED
      BY <2>5, <1>5
<1> QED
    BY <1>6, <1>7, <1>10, <1>11, <1>12 DEF LoadedExactly

LEMMA InvArguments == ExecInv => ArgumentsFit
<1> SUFFICES ASSUME ExecInv, phase = "done"
             PROVE  ArgumentsFit
    BY DEF ArgumentsFit
<1>1. file \in Files /\ Pushed /\ VectorPlaced
    BY DEF ExecInv
<1>2. /\ Len(file.args) \in Nat /\ PointerSize \in Nat /\ StackAlign \in Nat \ {0}
      /\ StackPage \in Nat
    BY <1>1, FileTypes, Sizes
<1>3. /\ arg = 0 /\ offset \in 0..StackPage /\ offset >= Need
      /\ vector = ((offset - Need) \div StackAlign) * StackAlign
      /\ DOMAIN strings = 1..Len(file.args)
    BY <1>1 DEF Pushed, VectorPlaced
<1> DEFINE need == Need
           room == offset - need
<1>4. need \in Nat /\ room \in Nat
  <2>1. Len(file.args) + 2 \in Nat
      BY <1>2
  <2>2. need \in Nat
      BY <2>1, <1>2 DEF Need
  <2> HIDE DEF need
  <2> QED
      BY <2>2, <1>2, <1>3 DEF need
<1>5. vector \in Nat /\ vector % StackAlign = 0 /\ vector <= room
  <2>1. /\ room \div StackAlign \in Nat /\ room % StackAlign \in 0..(StackAlign - 1)
        /\ room = (room \div StackAlign) * StackAlign + (room % StackAlign)
      BY <1>2, <1>4, DivisionNat
  <2>2. /\ (room \div StackAlign) * StackAlign \in Nat
        /\ ((room \div StackAlign) * StackAlign) % StackAlign = 0
      BY <2>1, <1>2, MultipleOf
  <2>3. vector = (room \div StackAlign) * StackAlign
      BY <1>3
  <2> DEFINE r == room % StackAlign
  <2>4. r \in Nat /\ room = vector + r
      BY <2>1, <2>3
  <2> HIDE DEF room, r
  <2> QED
      BY <2>2, <2>3, <2>4, <1>4
<1> DEFINE end == vector + (Len(file.args) + 2) * PointerSize
<1>6. end <= offset /\ end \in Nat
  <2>1. end = vector + need
      BY DEF Need
  <2> HIDE DEF need, end
  <2>2. vector + need <= offset
      BY <1>3, <1>4, <1>5, <1>2
  <2> QED
      BY <2>1, <2>2, <1>4, <1>5
<1> HIDE DEF end
<1>7. end <= StackPage
    BY <1>2, <1>3, <1>6
<1>8. \A i \in DOMAIN strings :
        /\ strings[i].len = file.args[i]
        /\ strings[i].at >= end /\ strings[i].at + strings[i].len <= StackPage
        /\ \A j \in DOMAIN strings :
            i < j => strings[i].at + strings[i].len <= strings[j].at
  <2> SUFFICES ASSUME NEW i \in DOMAIN strings
               PROVE  /\ strings[i].len = file.args[i]
                      /\ strings[i].at >= end /\ strings[i].at + strings[i].len <= StackPage
                      /\ \A j \in DOMAIN strings :
                            i < j => strings[i].at + strings[i].len <= strings[j].at
      OBVIOUS
  <2>1. strings[i].at \in Nat /\ strings[i].at >= offset
      BY <1>1 DEF Pushed
  <2>2. strings[i].at >= end
      BY <2>1, <1>2, <1>3, <1>6
  <2> QED
      BY <2>2, <1>1 DEF Pushed
<1>9. vector >= 0
    BY <1>5
<1> QED
    BY <1>3, <1>5, <1>7, <1>8, <1>9 DEF ArgumentsFit, end

LEMMA ExecInvHolds == ExecSpec => []ExecInv
BY ExecInitInv, ExecStepInv, PTL DEF ExecSpec

\* elf_load reads inside the file and writes inside pages of the image area,
\* for every header that elf_validate accepts, of any number of segments.
THEOREM LoaderInside == ExecSpec => []LoadStaysInside
BY ExecInvHolds, InvInside, PTL

\* The image elf_load builds is the one the headers describe, with segments
\* that share pages, begin inside one, or write over each other.
THEOREM ImageAsPrescribed == ExecSpec => []LoadedExactly
BY ExecInvHolds, InvLoaded, PTL

\* task_setup_user_stack places the strings and the vector in the page, apart
\* from each other, for every list of arguments that it does not refuse.
THEOREM StackHoldsArguments == ExecSpec => []ArgumentsFit
BY ExecInvHolds, InvArguments, PTL

-----------------------------------------------------------------------------
(***************************************************************************)
(* The heap, for any break, limit, header size and requests.               *)
(***************************************************************************)
H == HeaderSize

(***************************************************************************)
(* The loop of coalesce_free_blocks.                                       *)
(***************************************************************************)
Turn(done, b) ==
    IF done # <<>> /\ Last(done).free /\ b.free
    THEN Append(Front(done),
                [at |-> Last(done).at, size |-> Last(done).size + HeaderSize + b.size,
                 free |-> TRUE])
    ELSE Append(done, b)

Turns(s, f) == f = [k \in 0..Len(s) |-> IF k = 0 THEN <<>> ELSE Turn(f[k - 1], s[k])]

LEMMA MergeUnfolded ==
    ASSUME NEW s
    PROVE  Merge(s) = (CHOOSE f : Turns(s, f))[Len(s)]
BY DEF Merge, Turns, Turn, Block

LEMMA TurnType ==
    ASSUME NEW done \in Seq(Piece), NEW b \in Piece
    PROVE  Turn(done, b) \in Seq(Piece)
<1>1. CASE done = <<>>
    BY <1>1, AppendProperties DEF Turn
<1>2. CASE done # <<>>
  <2> DEFINE n == Len(done)
             c == [at |-> Last(done).at, size |-> Last(done).size + HeaderSize + b.size,
                   free |-> TRUE]
  <2>1. n \in Nat \ {0} /\ \A i \in 1..n : done[i] \in Piece
    BY <1>2, EmptySeq, ElementOfSeq
  <2>2. Last(done) \in Piece
    BY <2>1 DEF Last
  <2>3. c \in Piece
    BY <2>2, UserMallocAssumption DEF Piece
  <2>4. Front(done) \in Seq(Piece)
    <3>1. \A i \in 1..(n - 1) : done[i] \in Piece
      BY <2>1
    <3> QED
      BY <2>1, <3>1, SubSeqProperties DEF Front
  <2>5. Append(Front(done), c) \in Seq(Piece) /\ Append(done, b) \in Seq(Piece)
    <3> HIDE DEF c
    <3> QED
      BY <2>3, <2>4, AppendProperties
  <2>6. Turn(done, b) = Append(Front(done), c) \/ Turn(done, b) = Append(done, b)
    BY <1>2 DEF Turn
  <2> HIDE DEF c
  <2> QED
    BY <2>5, <2>6
<1> QED
    BY <1>1, <1>2

LEMMA TurnsExist ==
    ASSUME NEW s \in Seq(Piece)
    PROVE  \E f : Turns(s, f)
<1> DEFINE D == Seq(Piece)
           n == Len(s)
           step == [x \in D \X Piece |-> Turn(x[1], x[2])]
<1>1. n \in Nat /\ s \in [1..n -> Piece] /\ <<>> \in D
    BY LenProperties, EmptySeq
<1>2. step \in [D \X Piece -> D]
    BY TurnType
<1>3. \A d \in D, b \in Piece : step[<<d, b>>] = Turn(d, b)
    OBVIOUS
<1> HIDE DEF step, D, n
<1>4. PICK f \in [0..n -> D] : f[0] = <<>> /\ \A i \in 1..n : f[i] = step[<<f[i - 1], s[i]>>]
  <2>1. \E f \in [0..n -> D] : Loops(step, <<>>, s, n, f)
    BY <1>1, <1>2, LoopExists
  <2> QED
    BY <2>1 DEF Loops
<1>5. ASSUME NEW i \in 1..n
      PROVE  f[i] = Turn(f[i - 1], s[i])
  <2>1. i - 1 \in 0..n
    BY <1>1
  <2>2. f[i - 1] \in D /\ s[i] \in Piece
    BY <1>1, <2>1
  <2> QED
    BY <1>3, <1>4, <2>2
<1>6. f = [i \in 0..n |-> f[i]]
    OBVIOUS
<1>7. \A i \in 0..n : f[i] = IF i = 0 THEN <<>> ELSE Turn(f[i - 1], s[i])
    BY <1>1, <1>4, <1>5
<1>8. f = [i \in 0..n |-> IF i = 0 THEN <<>> ELSE Turn(f[i - 1], s[i])]
    BY <1>6, <1>7
<1> QED
    BY <1>8 DEF Turns, n

\* Merging keeps the memory and the blocks in use, and leaves no two free
\* blocks side by side.
LEMMA MergeMerges ==
    ASSUME NEW s, Tiled(H, s)
    PROVE  Merged(H, s, Merge(s))
<1> DEFINE n == Len(s)
           f == CHOOSE g : Turns(s, g)
<1>1. s \in Seq(Piece) /\ n \in Nat \ {0} /\ H \in Nat
    BY UserMallocAssumption, TiledType DEF Tiled, H
<1>2. Turns(s, f) /\ Merge(s) = f[n]
    BY <1>1, TurnsExist, MergeUnfolded
<1> HIDE DEF f
<1>3. f[0] = <<>> /\ \A i \in 1..n : f[i] = Turn(f[i - 1], s[i])
    BY <1>1, <1>2 DEF Turns
<1>4. ASSUME NEW i \in 1..n
      PROVE  /\ f[i - 1] = <<>> => f[i] = <<s[i]>>
             /\ f[i - 1] # <<>> /\ s[i].at = End(H, Last(f[i - 1]))
                   => f[i] = Joined(H, f[i - 1], s[i])
  <2>1. Append(<<>>, s[i]) = <<s[i]>>
    OBVIOUS
  <2> QED
    BY <1>3, <2>1 DEF Turn, Joined, H
<1> QED
    BY <1>1, <1>2, <1>3, <1>4, MergeTiled

-----------------------------------------------------------------------------
(***************************************************************************)
(* The invariant, of a list l, the pointers in use v and the break t.      *)
(***************************************************************************)
ListOK(l, t) ==
    \/ l = <<>> /\ t = BrkStart
    \/ /\ Tiled(H, l) /\ NoPair(l)
       /\ l[1].at = BrkStart /\ End(H, Last(l)) = t

LiveOK(l, v) ==
    /\ v \in [DOMAIN v -> Nat]
    /\ {Pointer(b) : b \in InUse(l)} = DOMAIN v
    /\ \A b \in InUse(l) : v[Pointer(b)] <= b.size

UserOK(l, v, t) == ListOK(l, t) /\ LiveOK(l, v)

UserInv == UserOK(list, live, brk)

LEMMA InUseEmpty == InUse(<<>>) = {}
BY DEF InUse

LEMMA BreakType ==
    ASSUME NEW l, NEW t, ListOK(l, t)
    PROVE  t \in Nat /\ BrkStart <= t
<1>1. BrkStart \in Nat /\ H \in Nat
    BY UserMallocAssumption DEF H
<1>2. CASE l = <<>> /\ t = BrkStart
    BY <1>1, <1>2
<1>3. CASE Tiled(H, l) /\ l[1].at = BrkStart /\ End(H, Last(l)) = t
  <2>1. /\ Len(l) \in Nat \ {0} /\ l[1] \in Piece /\ Last(l) \in Piece /\ Last(l) = l[Len(l)]
        /\ End(H, l[1]) \in Nat /\ End(H, l[Len(l)]) \in Nat
    BY <1>1, <1>3, TiledType
  <2>2. l[1].at <= Last(l).at
    <3>1. CASE Len(l) = 1
      BY <2>1, <3>1 DEF Piece
    <3>2. CASE Len(l) # 1
      <4> DEFINE m == Len(l)
      <4>0. m \in Nat \ {0} /\ m # 1
        BY <2>1, <3>2
      <4> HIDE DEF m
      <4>1. 1 \in 1..m /\ m \in 1..m /\ 1 < m
        BY <4>0
      <4>2. End(H, l[1]) <= l[Len(l)].at
        BY <1>1, <1>3, <4>1, TiledOrder DEF m
      <4> QED
        BY <4>2, <2>1, <1>1 DEF Piece, End
    <3> QED
      BY <3>1, <3>2
  <2> QED
    BY <1>1, <1>3, <2>1, <2>2 DEF Piece, End
<1> QED
    BY <1>2, <1>3 DEF ListOK

\* Pointers in use lie below the break, and none reaches into another.
LEMMA PointersApart ==
    ASSUME NEW l, NEW v, NEW t, UserOK(l, v, t), NEW p \in DOMAIN v
    PROVE  /\ p \in Nat /\ v[p] \in Nat
           /\ BrkStart <= p /\ p + v[p] <= t
           /\ \A q \in DOMAIN v : q # p => p + v[p] <= q \/ q + v[q] <= p
           /\ Tiled(H, l)
<1>1. H \in Nat \ {0} /\ BrkStart \in Nat /\ t \in Nat /\ v \in [DOMAIN v -> Nat]
    BY UserMallocAssumption, BreakType DEF UserOK, LiveOK, H
<1>2. PICK b \in InUse(l) : p = Pointer(b)
    BY DEF UserOK, LiveOK
<1>3. Tiled(H, l) /\ l[1].at = BrkStart /\ End(H, Last(l)) = t
    BY <1>2, InUseEmpty DEF UserOK, ListOK
<1>4. ASSUME NEW c \in InUse(l)
      PROVE  c \in Piece /\ v[Pointer(c)] <= c.size /\ Pointer(c) = c.at + H
             /\ v[Pointer(c)] \in Nat
  <2>1. c \in Piece
    BY <1>1, <1>3, TiledType
  <2>2. Pointer(c) \in DOMAIN v /\ v[Pointer(c)] <= c.size
    BY DEF UserOK, LiveOK
  <2> QED
    BY <1>1, <2>1, <2>2 DEF Pointer, H
<1>5. BrkStart <= b.at /\ End(H, b) <= t
    BY <1>1, <1>3, TiledInside
<1>6. b \in Piece /\ v[p] <= b.size /\ p = b.at + H /\ v[p] \in Nat
    BY <1>2, <1>4
<1>7. p \in Nat /\ BrkStart <= p /\ p + v[p] <= t
    BY <1>1, <1>5, <1>6 DEF Piece, End
<1>8. ASSUME NEW q \in DOMAIN v, q # p
      PROVE  p + v[p] <= q \/ q + v[q] <= p
  <2>1. PICK c \in InUse(l) : q = Pointer(c)
    BY DEF UserOK, LiveOK
  <2>2. c \in Piece /\ v[q] <= c.size /\ q = c.at + H /\ v[q] \in Nat
    BY <2>1, <1>4
  <2>3. End(H, b) <= c.at \/ End(H, c) <= b.at
    BY <1>1, <1>2, <1>3, <1>8, <2>1, InUseApart
  <2> QED
    BY <1>1, <1>6, <2>2, <2>3 DEF Piece, End
<1> QED
    BY <1>3, <1>6, <1>7, <1>8

-----------------------------------------------------------------------------
LEMMA AlignUpCovers ==
    ASSUME NEW n \in Nat
    PROVE  AlignUp(n) \in Nat /\ n <= AlignUp(n)
BY DEF AlignUp

\* The pointers in use when one more is placed.
WithPointer(v, p, n) == [q \in DOMAIN v \cup {p} |-> IF q = p THEN n ELSE v[q]]

\* One more block in use.
LEMMA PlacedOK ==
    ASSUME NEW l, NEW v, LiveOK(l, v), NEW r, NEW u,
           InUse(r) = InUse(l) \cup {u}, Pointer(u) \notin DOMAIN v,
           NEW n \in Nat, n <= u.size
    PROVE  LiveOK(r, WithPointer(v, Pointer(u), n))
<1> DEFINE a == Pointer(u)
           w == WithPointer(v, a, n)
<1>1. /\ DOMAIN w = DOMAIN v \cup {a} /\ w[a] = n
      /\ \A q \in DOMAIN v : w[q] = v[q]
    BY DEF WithPointer
<1>2. w \in [DOMAIN w -> Nat]
  <2>1. v \in [DOMAIN v -> Nat]
    BY DEF LiveOK
  <2> QED
    BY <2>1 DEF WithPointer
<1> HIDE DEF w
<1>3. {Pointer(b) : b \in InUse(r)} = DOMAIN w
  <2>1. {Pointer(b) : b \in InUse(l)} = DOMAIN v
    BY DEF LiveOK
  <2> QED
    BY <1>1, <2>1
<1>4. ASSUME NEW b \in InUse(r)
      PROVE  w[Pointer(b)] <= b.size
  <2>1. CASE b = u
    BY <2>1, <1>1
  <2>2. CASE b # u
    <3>1. b \in InUse(l) /\ Pointer(b) \in DOMAIN v /\ v[Pointer(b)] <= b.size
      BY <2>2 DEF LiveOK
    <3> QED
      BY <3>1, <1>1
  <2> QED
    BY <2>1, <2>2
<1> QED
    BY <1>2, <1>3, <1>4 DEF LiveOK, w

LEMMA TakeOK ==
    ASSUME NEW l, NEW v, NEW t, UserOK(l, v, t), NEW n \in Nat,
           NEW i \in DOMAIN l, l[i].free, n <= l[i].size,
           NEW r, r = [l EXCEPT ![i].free = FALSE]
    PROVE  /\ UserOK(r, WithPointer(v, Pointer(l[i]), n), t)
           /\ Pointer(l[i]) \notin DOMAIN v
<1> DEFINE u == [l[i] EXCEPT !.free = FALSE]
<1>1. l # <<>>
    OBVIOUS
<1>2. /\ Tiled(H, l) /\ NoPair(l) /\ l[1].at = BrkStart /\ End(H, Last(l)) = t
      /\ H \in Nat \ {0}
    BY <1>1, UserMallocAssumption DEF UserOK, ListOK, H
<1>3. /\ Len(l) \in Nat \ {0} /\ DOMAIN l = 1..Len(l)
      /\ \A j \in 1..Len(l) : l[j] \in Piece
    BY <1>2, TiledType
<1>4. u \in Piece /\ u.at = l[i].at /\ u.size = l[i].size /\ u.free = FALSE
    BY <1>3 DEF Piece
<1>5. r[i] = u /\ \A j \in DOMAIN l : j # i => r[j] = l[j]
    OBVIOUS
<1>6. DOMAIN r = 1..Len(l)
    BY <1>3
<1> HIDE DEF u
<1>7. \A j \in 1..Len(l) : r[j] \in Piece /\ r[j].at = l[j].at /\ r[j].size = l[j].size
    BY <1>3, <1>4, <1>5
<1>8. r \in Seq(Piece) /\ Len(r) = Len(l)
  <2>1. r = [j \in 1..Len(l) |-> r[j]]
    BY <1>6
  <2>2. r \in [1..Len(l) -> Piece]
    BY <1>7, <2>1
  <2>3. r \in Seq(Piece)
    BY <1>3, <2>2, SeqDef
  <2>4. Len(r) \in Nat /\ DOMAIN r = 1..Len(r)
    BY <2>3, LenProperties
  <2> QED
    BY <1>3, <1>6, <2>3, <2>4
<1>9. Tiled(H, r) /\ r[1].at = l[1].at /\ End(H, Last(r)) = End(H, Last(l))
  <2> DEFINE Same(c) == /\ c \in Seq(Piece) /\ Len(c) = Len(l)
                        /\ \A j \in 1..Len(l) : c[j].at = l[j].at /\ c[j].size = l[j].size
             Good(c) == Tiled(H, c) /\ c[1].at = l[1].at /\ End(H, Last(c)) = End(H, Last(l))
  <2>1. \A c : Same(c) => Good(c)
    BY <1>2, RetaggedTiled
  <2>2. Same(r)
    BY <1>7, <1>8
  <2> HIDE DEF Same
  <2> QED
    BY <2>1, <2>2
<1>10. NoPair(r)
  <2> SUFFICES ASSUME NEW j \in 1..(Len(l) - 1)
               PROVE  ~(r[j].free /\ r[j + 1].free)
    BY <1>8 DEF NoPair
  <2>1. j \in 1..Len(l) /\ j + 1 \in 1..Len(l) /\ ~(l[j].free /\ l[j + 1].free)
    BY <1>2, <1>3 DEF NoPair
  <2> QED
    BY <2>1, <1>3, <1>4, <1>5
<1>11. InUse(r) = InUse(l) \cup {u}
  <2> SUFFICES ASSUME NEW x
               PROVE  x \in InUse(r) <=> x \in InUse(l) \cup {u}
      OBVIOUS
  <2> QED
    BY <1>3, <1>4, <1>5, <1>6 DEF InUse
<1>12. Pointer(u) = Pointer(l[i])
    BY <1>4 DEF Pointer
<1>13. Pointer(u) \notin DOMAIN v
  <2> SUFFICES ASSUME NEW b \in InUse(l)
               PROVE  Pointer(b) # Pointer(u)
    BY DEF UserOK, LiveOK
  <2>1. PICK j \in 1..Len(l) : b = l[j] /\ j # i
    BY <1>3 DEF InUse
  <2>2. b.at # l[i].at
    BY <1>2, <1>3, <2>1, TiledApart
  <2>3. b.at \in Nat /\ l[i].at \in Nat
    BY <1>3, <2>1 DEF Piece
  <2> QED
    BY <1>2, <1>12, <2>2, <2>3 DEF Pointer, H
<1>14. LiveOK(r, WithPointer(v, Pointer(u), n))
    BY <1>4, <1>11, <1>13, PlacedOK DEF UserOK
<1> QED
    BY <1>2, <1>9, <1>10, <1>12, <1>13, <1>14 DEF UserOK, ListOK

LEMMA GrowOK ==
    ASSUME NEW l, NEW v, NEW t, UserOK(l, v, t), NEW n \in Nat, NEW size \in Nat, n <= size,
           NEW b, b = [at |-> t, size |-> size, free |-> FALSE],
           NEW r, r = Append(l, b)
    PROVE  /\ UserOK(r, WithPointer(v, Pointer(b), n), (t + H) + size)
           /\ Pointer(b) \notin DOMAIN v
<1>1. H \in Nat \ {0} /\ t \in Nat /\ BrkStart \in Nat
    BY UserMallocAssumption, BreakType DEF UserOK, H
<1>2. b \in Piece /\ b.at = t /\ b.size = size /\ b.free = FALSE /\ Pointer(b) = t + H
    BY <1>1 DEF Piece, Pointer, H
<1>3. End(H, b) = (t + H) + size
    BY <1>1, <1>2 DEF End
<1>4. Pointer(b) \notin DOMAIN v
  <2> SUFFICES ASSUME NEW p \in DOMAIN v
               PROVE  p # Pointer(b)
      OBVIOUS
  <2>1. p \in Nat /\ v[p] \in Nat /\ p + v[p] <= t
    BY PointersApart
  <2> QED
    BY <1>1, <1>2, <2>1
<1>5. /\ Tiled(H, r) /\ NoPair(r) /\ r[1].at = BrkStart /\ End(H, Last(r)) = End(H, b)
      /\ InUse(r) = InUse(l) \cup {b}
  <2>1. CASE l = <<>> /\ t = BrkStart
    <3>1. r = <<b>>
      BY <2>1
    <3>2. Single(H, b, r)
      BY <1>1, <1>2, <3>1, SingleTiled
    <3> QED
      BY <1>2, <2>1, <3>2, InUseEmpty DEF Single
  <2>2. CASE Tiled(H, l) /\ NoPair(l) /\ l[1].at = BrkStart /\ End(H, Last(l)) = t
    <3>1. Grown(H, l, b, r)
      BY <1>1, <1>2, <2>2, AppendTiled
    <3> QED
      BY <1>2, <2>2, <3>1 DEF Grown
  <2> QED
    BY <2>1, <2>2 DEF UserOK, ListOK
<1>6. LiveOK(r, WithPointer(v, Pointer(b), n))
    BY <1>2, <1>4, <1>5, PlacedOK DEF UserOK
<1> QED
    BY <1>3, <1>4, <1>5, <1>6 DEF UserOK, ListOK

LEMMA ReleaseOK ==
    ASSUME NEW l, NEW v, NEW t, UserOK(l, v, t), NEW p \in DOMAIN v, NEW s,
           s = [i \in DOMAIN l |->
                  IF Pointer(l[i]) = p THEN [l[i] EXCEPT !.free = TRUE] ELSE l[i]]
    PROVE  UserOK(Merge(s), [q \in DOMAIN v \ {p} |-> v[q]], t)
<1> DEFINE a == p - H
           r == Merge(s)
           w == [q \in DOMAIN v \ {p} |-> v[q]]
<1>1. /\ Tiled(H, l) /\ p \in Nat /\ H \in Nat
      /\ {Pointer(b) : b \in InUse(l)} = DOMAIN v
    BY PointersApart, UserMallocAssumption DEF UserOK, LiveOK, H
<1>2. /\ l # <<>> /\ l[1].at = BrkStart /\ End(H, Last(l)) = t
    BY <1>1 DEF UserOK, ListOK, Tiled
<1>3. /\ DOMAIN l = 1..Len(l) /\ \A i \in 1..Len(l) : l[i] \in Piece
      /\ InUse(l) \subseteq Piece
    BY <1>1, TiledType
<1>4. \A b \in Piece : Pointer(b) = p <=> b.at = a
    BY <1>1 DEF Piece, Pointer, H
<1> HIDE DEF a
<1>5. s = [i \in DOMAIN l |-> IF l[i].at = a THEN [l[i] EXCEPT !.free = TRUE] ELSE l[i]]
    BY <1>3, <1>4
<1>6. Freed(H, l, a, s)
    BY <1>1, <1>5, FreeTiled
<1>7. Merged(H, s, r)
    BY <1>6, MergeMerges DEF Freed
<1> HIDE DEF r
<1>8. /\ Tiled(H, r) /\ NoPair(r) /\ r[1].at = BrkStart /\ End(H, Last(r)) = t
      /\ InUse(r) = {b \in InUse(l) : b.at # a}
    BY <1>2, <1>6, <1>7 DEF Freed, Merged
<1>9. DOMAIN w = DOMAIN v \ {p} /\ \A q \in DOMAIN v \ {p} : w[q] = v[q]
    OBVIOUS
<1>10. w \in [DOMAIN w -> Nat]
  <2>1. v \in [DOMAIN v -> Nat]
    BY DEF UserOK, LiveOK
  <2> QED
    BY <2>1
<1> HIDE DEF w
<1>11. {Pointer(b) : b \in InUse(r)} = DOMAIN w
  <2>1. ASSUME NEW q
        PROVE  q \in {Pointer(b) : b \in InUse(r)} <=> q \in DOMAIN w
    BY <1>1, <1>3, <1>4, <1>8, <1>9
  <2> QED
    BY <2>1
<1>12. ASSUME NEW b \in InUse(r)
       PROVE  w[Pointer(b)] <= b.size
  <2>1. b \in InUse(l) /\ Pointer(b) \in DOMAIN v \ {p}
    BY <1>1, <1>3, <1>4, <1>8
  <2>2. w[Pointer(b)] = v[Pointer(b)]
    BY <2>1, <1>9
  <2> QED
    BY <2>1, <2>2 DEF UserOK, LiveOK
<1>13. UserOK(r, w, t)
    BY <1>8, <1>10, <1>11, <1>12 DEF UserOK, ListOK, LiveOK
<1> QED
    BY <1>13 DEF r, w

-----------------------------------------------------------------------------
LEMMA InitUserInv == Init => UserInv
<1> SUFFICES ASSUME Init
             PROVE  UserInv
    OBVIOUS
<1>1. list = <<>> /\ brk = BrkStart /\ DOMAIN live = {} /\ live \in [DOMAIN live -> Nat]
    BY DEF Init
<1> QED
    BY <1>1, InUseEmpty DEF UserInv, UserOK, ListOK, LiveOK

\* A pointer more, apart from the others, is an allocation.
LEMMA AllocStep ==
    ASSUME UserInv, UserInv', NEW a, NEW n, a \notin DOMAIN live,
           live' = WithPointer(live, a, n)
    PROVE  A!Alloc
<1>1. /\ DOMAIN live' = DOMAIN live \cup {a} /\ live'[a] = n
      /\ \A q \in DOMAIN live : live'[q] = live[q]
    BY DEF WithPointer
<1>2. /\ BrkStart <= a /\ a + live'[a] <= brk'
      /\ \A q \in DOMAIN live' : q # a => a + live'[a] <= q \/ q + live'[q] <= a
  <2>1. a \in DOMAIN live'
    BY <1>1
  <2>2. UserOK(list', live', brk')
    BY DEF UserInv
  <2> QED
    BY <2>1, <2>2, PointersApart
<1>3. a \in A!New
    BY <1>1 DEF A!New
<1>4. A!Fits(a, live'[a])
    BY <1>1, <1>2 DEF A!Fits
<1>5. live' = [b \in DOMAIN live \cup {a} |-> IF b = a THEN live'[a] ELSE live[b]]
    BY <1>1 DEF WithPointer
<1> QED
    BY <1>3, <1>4, <1>5 DEF A!Alloc

LEMMA ReuseOK ==
    ASSUME UserInv, NEW n \in Requests, Reuse(n)
    PROVE  UserInv' /\ A!Alloc /\ brk' = brk
<1>1. n \in Nat
    BY UserMallocAssumption
<1>2. PICK i \in FirstFit(AlignUp(n)) :
            /\ list' = [list EXCEPT ![i].free = FALSE]
            /\ live' = Placed(list[i], n)
            /\ brk' = brk
    BY DEF Reuse
<1>3. i \in DOMAIN list /\ list[i].free /\ list[i].size >= AlignUp(n)
    BY <1>2 DEF FirstFit
<1>4. n <= list[i].size
  <2>1. list # <<>>
    BY <1>3
  <2>2. Tiled(H, list) /\ H \in Nat
    BY <2>1, UserMallocAssumption DEF UserInv, UserOK, ListOK, H
  <2>3. list[i] \in Piece
    BY <1>3, <2>2, TiledType
  <2>4. list[i].size \in Nat /\ AlignUp(n) \in Nat /\ n <= AlignUp(n)
    BY <1>1, <2>3, AlignUpCovers DEF Piece
  <2> QED
    BY <1>1, <1>3, <2>4
<1>5. live' = WithPointer(live, Pointer(list[i]), n)
    BY <1>2 DEF Placed, WithPointer
<1>6. UserOK(list', live', brk') /\ Pointer(list[i]) \notin DOMAIN live
    BY <1>1, <1>2, <1>3, <1>4, <1>5, TakeOK DEF UserInv
<1>7. UserInv'
    BY <1>6 DEF UserInv
<1>8. A!Alloc
    BY <1>5, <1>6, <1>7, AllocStep
<1> QED
    BY <1>2, <1>7, <1>8

LEMMA ExtendOK ==
    ASSUME UserInv, NEW n \in Requests, Extend(n)
    PROVE  UserInv' /\ A!Alloc /\ brk' >= brk
<1> DEFINE size == AlignUp(n)
           b == [at |-> brk, size |-> size, free |-> FALSE]
<1>1. n \in Nat /\ H \in Nat /\ brk \in Nat
    BY UserMallocAssumption, BreakType DEF UserInv, UserOK, H
<1>2. size \in Nat /\ n <= size
    BY <1>1, AlignUpCovers
<1>3. /\ brk' = (brk + H) + size
      /\ list' = Append(list, b)
      /\ live' = Placed(b, n)
    BY DEF Extend, Block, H
<1>4. live' = WithPointer(live, Pointer(b), n)
    BY <1>3 DEF Placed, WithPointer
<1> HIDE DEF size
<1>5. UserOK(list', live', brk') /\ Pointer(b) \notin DOMAIN live
    BY <1>1, <1>2, <1>3, <1>4, GrowOK DEF UserInv
<1>6. UserInv'
    BY <1>5 DEF UserInv
<1>7. A!Alloc
    BY <1>4, <1>5, <1>6, AllocStep
<1> QED
    BY <1>1, <1>2, <1>3, <1>6, <1>7

LEMMA FreeOK ==
    ASSUME UserInv, NEW p \in DOMAIN live, Free(p)
    PROVE  UserInv' /\ A!Free /\ brk' = brk
<1>1. /\ list' = Merge([i \in DOMAIN list |->
                          IF Pointer(list[i]) = p
                          THEN [list[i] EXCEPT !.free = TRUE] ELSE list[i]])
      /\ live' = [q \in DOMAIN live \ {p} |-> live[q]]
      /\ brk' = brk
    BY DEF Free
<1>2. UserOK(list', live', brk')
    BY <1>1, ReleaseOK DEF UserInv
<1> QED
    BY <1>1, <1>2 DEF UserInv, A!Free, A!Without

LEMMA StepUserInv ==
    ASSUME UserInv, [Next]_vars
    PROVE  UserInv' /\ A!Next
<1>1. brk \in Nat
    BY BreakType DEF UserInv, UserOK
<1>2. ASSUME NEW n \in Requests, Reuse(n)
      PROVE  UserInv' /\ A!Next
    BY <1>1, <1>2, ReuseOK DEF A!Next
<1>3. ASSUME NEW n \in Requests, Extend(n)
      PROVE  UserInv' /\ A!Next
    BY <1>3, ExtendOK DEF A!Next
<1>4. ASSUME NEW p \in DOMAIN live, Free(p)
      PROVE  UserInv' /\ A!Next
    BY <1>1, <1>4, FreeOK DEF A!Next
<1>5. CASE UNCHANGED vars
    BY <1>1, <1>5 DEF vars, UserInv, UserOK, ListOK, LiveOK, A!Next
<1> QED
    BY <1>2, <1>3, <1>4, <1>5 DEF Next

THEOREM UserInvariant == Spec => []UserInv
<1>1. UserInv /\ [Next]_vars => UserInv'
    BY StepUserInv
<1> QED
    BY <1>1, InitUserInv, PTL DEF Spec

(***************************************************************************)
(* After any sequence of malloc and free the list is the memory from the   *)
(* start of the heap to the break, in order: merging neighbours in the     *)
(* list merges neighbours in memory.                                       *)
(***************************************************************************)
THEOREM UserListIsMemory == Spec => []ListIsMemory
<1>1. UserInv => ListIsMemory
  <2> SUFFICES ASSUME UserInv
               PROVE  ListIsMemory
      OBVIOUS
  <2>1. {Pointer(list[i]) : i \in {j \in DOMAIN list : ~list[j].free}} = DOMAIN live
    BY DEF UserInv, UserOK, LiveOK, InUse
  <2>2. CASE list = <<>>
    BY <2>1, <2>2 DEF ListIsMemory
  <2>3. CASE /\ Tiled(H, list) /\ list[1].at = BrkStart /\ End(H, Last(list)) = brk
    BY <2>1, <2>3 DEF ListIsMemory, Tiled, End, Pointer, H
  <2> QED
    BY <2>2, <2>3 DEF UserInv, UserOK, ListOK
<1> QED
    BY <1>1, UserInvariant, PTL

(***************************************************************************)
(* malloc never hands out bytes that are in use or lie behind the break:   *)
(* the list implements Allocator.                                          *)
(***************************************************************************)
THEOREM UserAllocates == Spec => ImplementsAllocator
<1>1. Init => A!Init
    BY UserMallocAssumption DEF Init, A!Init
<1>2. UserInv /\ [Next]_vars => [A!Next]_A!vars
    BY StepUserInv
<1> QED
    BY <1>1, <1>2, UserInvariant, PTL DEF Spec, ImplementsAllocator, A!Spec

-----------------------------------------------------------------------------
(***************************************************************************)
(* The formatter: the digits of a number and how many there are, for any   *)
(* size of the words.                                                      *)
(***************************************************************************)
LEMMA PowerFacts ==
    ASSUME NEW base \in Nat \ {0}
    PROVE  /\ Power(base) \in [Nat -> Nat \ {0}] /\ Power(base)[0] = 1
           /\ \A k \in Nat : Power(base)[k + 1] = base * Power(base)[k]
<1> DEFINE D == Nat \ {0}
           step == [a \in D \X Nat |-> base * a[1]]
           body(p) == [n \in Nat |-> IF n = 0 THEN 1 ELSE base * p[n - 1]]
           P == CHOOSE p : p = body(p)
<1>1. step \in [D \X Nat -> D] /\ 1 \in D
    OBVIOUS
<1>2. PICK f \in [Nat -> D] : RecursiveBy(f, 1, step)
  <2> HIDE DEF step, D
  <2> QED
      BY <1>1, RecursiveFunction
<1>3. f = body(f)
  <2>1. \A n \in Nat : f[n] = IF n = 0 THEN 1 ELSE base * f[n - 1]
    <3> SUFFICES ASSUME NEW n \in Nat
                 PROVE  f[n] = IF n = 0 THEN 1 ELSE base * f[n - 1]
        OBVIOUS
    <3>1. n # 0 => n - 1 \in Nat
        OBVIOUS
    <3>2. n # 0 => f[n - 1] \in D
        BY <3>1
    <3>3. n # 0 => step[<<f[n - 1], n>>] = base * f[n - 1]
        BY <3>2
    <3> QED
        BY <3>3, <1>2 DEF RecursiveBy
  <2>2. f = [n \in Nat |-> f[n]]
      OBVIOUS
  <2> QED
      BY <2>1, <2>2
<1> DEFINE R == Power(base)
<1>4. R = body(R)
  <2>1. R = P
      BY DEF Power
  <2>2. P = body(P)
      BY <1>3
  <2> QED
      BY <2>1, <2>2
<1> HIDE DEF R
<1>5. R[0] = 1 /\ \A n \in Nat : R[n] = IF n = 0 THEN 1 ELSE base * R[n - 1]
  <2>1. \A n \in Nat : R[n] = IF n = 0 THEN 1 ELSE base * R[n - 1]
      BY <1>4
  <2> QED
      BY <2>1
<1>6. \A k \in Nat : R[k + 1] = base * R[k]
  <2> SUFFICES ASSUME NEW k \in Nat
               PROVE  R[k + 1] = base * R[k]
      OBVIOUS
  <2>1. k + 1 \in Nat /\ k + 1 # 0 /\ (k + 1) - 1 = k
      OBVIOUS
  <2> QED
      BY <2>1, <1>5
<1>7. \A k \in Nat : R[k] \in Nat \ {0}
  <2> SUFFICES ASSUME NEW k \in Nat
               PROVE  R[k] \in Nat \ {0}
      OBVIOUS
  <2> DEFINE S == {j \in Nat : R[j] \in Nat \ {0}}
  <2>1. 0 \in S
      BY <1>5
  <2>2. \A j \in 1..k : j - 1 \in S => j \in S
    <3> SUFFICES ASSUME NEW j \in 1..k, R[j - 1] \in Nat \ {0}
                 PROVE  R[j] \in Nat \ {0}
        OBVIOUS
    <3>1. R[j] = base * R[j - 1]
        BY <1>5
    <3> QED
        BY <3>1
  <2> HIDE DEF S
  <2>3. k \in S
      BY <2>1, <2>2, CountUp
  <2> QED
      BY <2>3 DEF S
<1>8. R = [n \in Nat |-> R[n]]
    BY <1>4
<1>9. R \in [Nat -> Nat \ {0}]
    BY <1>7, <1>8
<1> QED
    BY <1>5, <1>6, <1>9 DEF R

\* The bases of the conversions.
Bases == {10, 16}

LEMMA PowerGrows ==
    ASSUME NEW base \in Bases, NEW m \in Nat, NEW n \in Nat, m <= n
    PROVE  /\ Power(base)[m] <= Power(base)[n]
           /\ n < Power(base)[n]
           /\ m < n => base * Power(base)[m] <= Power(base)[n]
<1> DEFINE P == Power(base)
           S == {j \in Nat : j < P[j] /\ (m <= j => P[m] <= P[j])}
<1>0. base \in Nat \ {0} /\ base >= 10
    BY DEF Bases
<1>1. P \in [Nat -> Nat \ {0}] /\ P[0] = 1 /\ \A k \in Nat : P[k + 1] = base * P[k]
    BY <1>0, PowerFacts
<1> HIDE DEF P
<1>2. 0 \in S
    BY <1>1
<1>3. \A k \in Nat \ {0} : k - 1 \in S => k \in S
  <2> SUFFICES ASSUME NEW k \in Nat \ {0}, k - 1 \in S
               PROVE  k \in S
      OBVIOUS
  <2>1. k - 1 \in Nat /\ (k - 1) + 1 = k
      OBVIOUS
  <2>2. P[k] = base * P[k - 1] /\ P[k - 1] \in Nat \ {0}
      BY <2>1, <1>1
  <2>3. P[k - 1] < P[k] /\ P[k] \in Nat
      BY <2>2 DEF Bases
  <2>4. k - 1 < P[k - 1] /\ (m <= k - 1 => P[m] <= P[k - 1])
      OBVIOUS
  <2>5. k < P[k]
      BY <2>2, <2>3, <2>4
  <2>6. m <= k => P[m] <= P[k]
    <3>1. P[m] \in Nat
        BY <1>1
    <3>2. CASE m = k
        BY <3>1, <3>2
    <3>3. CASE m # k
        BY <3>1, <3>3, <2>2, <2>3, <2>4
    <3> QED
        BY <3>2, <3>3
  <2> QED
      BY <2>5, <2>6
<1>4. \A k \in Nat : k \in S
  <2> SUFFICES ASSUME NEW k \in Nat
               PROVE  k \in S
      OBVIOUS
  <2> HIDE DEF S
  <2> QED
      BY <1>2, <1>3, CountUp
<1>5. ASSUME m < n
      PROVE  base * P[m] <= P[n]
  <2>1. n - 1 \in Nat /\ (n - 1) + 1 = n /\ m <= n - 1
      BY <1>5
  <2>2. P[m] <= P[n - 1] /\ P[n] = base * P[n - 1] /\ P[m] \in Nat /\ P[n - 1] \in Nat
    <3>1. n - 1 \in S
        BY <2>1, <1>4
    <3> QED
        BY <3>1, <2>1, <1>1
  <2> QED
      BY <2>2 DEF Bases
<1>6. m \in S /\ n \in S
    BY <1>4
<1> QED
    BY <1>5, <1>6 DEF P

\* Dividing twice.
LEMMA DivisionTwice ==
    ASSUME NEW a \in Nat \ {0}, NEW base \in Bases, NEW v \in Nat
    PROVE  /\ v \div (base * a) = (v \div a) \div base
           /\ v \div a = base * (v \div (base * a)) + ((v \div a) % base)
<1> DEFINE q == v \div a
           r == v % a
           p == q \div base
           s == q % base
<1>1. q \in Nat /\ r \in 0..(a - 1) /\ v = q * a + r
    BY DivisionNat
<1>2. p \in Nat /\ s \in 0..(base - 1) /\ q = p * base + s
    BY <1>1, DivisionNat DEF Bases
<1> HIDE DEF q, r, p, s
<1>3. v = p * (base * a) + (s * a + r) /\ s * a + r \in 0..(base * a - 1)
    BY <1>1, <1>2 DEF Bases
<1>4. base * a \in Nat \ {0}
    BY DEF Bases
<1>5. (p * (base * a) + (s * a + r)) \div (base * a) = p
    BY <1>2, <1>3, <1>4, DivisionUnique
<1>6. v \div (base * a) = p
    BY <1>3, <1>5
<1>7. base * p + s = q
    BY <1>2 DEF Bases
<1> QED
    BY <1>6, <1>7 DEF q, p, s

LEMMA PlacesFacts ==
    ASSUME NEW base \in Bases, NEW v \in Nat
    PROVE  /\ Places(v, base) \in 1..(v + 1)
           /\ v < Power(base)[Places(v, base)]
           /\ \A m \in 1..(Places(v, base) - 1) : Power(base)[m] <= v
<1> DEFINE P == Power(base)
           S == {n \in Nat : n >= 1 /\ v < P[n]}
<1>0. base \in Nat \ {0}
    BY DEF Bases
<1>1. P \in [Nat -> Nat \ {0}]
    BY <1>0, PowerFacts
<1>2. v + 1 \in S
  <2>1. v + 1 \in Nat /\ v + 1 <= v + 1
      OBVIOUS
  <2>2. v + 1 < P[v + 1]
      BY <2>1, PowerGrows
  <2>3. P[v + 1] \in Nat
      BY <1>1
  <2> HIDE DEF P
  <2> QED
      BY <2>2, <2>3
<1>3. PICK n \in S : \A m \in S : n <= m
  <2>1. S \subseteq Nat /\ S # {}
      BY <1>2
  <2> HIDE DEF S
  <2> QED
      BY <2>1, LeastNat
<1>4. n \in 1..(v + 1) /\ v < P[n] /\ \A m \in 1..(n - 1) : P[m] <= v
  <2>1. n \in 1..(v + 1) /\ v < P[n]
      BY <1>2, <1>3
  <2>2. ASSUME NEW m \in 1..(n - 1)
        PROVE  P[m] <= v
    <3>1. m \in Nat /\ m >= 1 /\ ~(n <= m)
        BY <2>1
    <3>2. m \notin S
        BY <3>1, <1>3
    <3>3. P[m] \in Nat
        BY <3>1, <1>1
    <3> HIDE DEF P
    <3> QED
        BY <3>1, <3>2, <3>3
  <2> QED
      BY <2>1, <2>2
<1> HIDE DEF S
<1> QED
    BY <1>4 DEF Places

LEMMA PlacesAre ==
    ASSUME NEW base \in Bases, NEW v \in Nat, NEW n \in Nat \ {0},
           v < Power(base)[n], n = 1 \/ Power(base)[n - 1] <= v
    PROVE  Places(v, base) = n
<1> DEFINE P == Power(base)
           w == Places(v, base)
<1>0. base \in Nat \ {0}
    BY DEF Bases
<1>1. P \in [Nat -> Nat \ {0}]
    BY <1>0, PowerFacts
<1>2. w \in 1..(v + 1) /\ v < P[w] /\ \A m \in 1..(w - 1) : P[m] <= v
    BY PlacesFacts
<1>3. ~(n < w)
  <2> SUFFICES ASSUME n < w
               PROVE  FALSE
      OBVIOUS
  <2>1. n \in 1..(w - 1) /\ P[n] \in Nat
      BY <1>2, <1>1
  <2> HIDE DEF P, w
  <2>2. v < P[n]
      BY DEF P
  <2> QED
      BY <2>1, <2>2, <1>2
<1>4. ~(w < n)
  <2> SUFFICES ASSUME w < n
               PROVE  FALSE
      OBVIOUS
  <2>1. n # 1 /\ w \in Nat /\ n - 1 \in Nat /\ w <= n - 1
      BY <1>2
  <2>2. P[w] <= P[n - 1]
      BY <2>1, PowerGrows
  <2>3. P[w] \in Nat /\ P[n - 1] \in Nat /\ P[n - 1] <= v /\ v < P[w]
      BY <2>1, <1>1, <1>2
  <2> HIDE DEF P, w
  <2> QED
      BY <2>2, <2>3
<1>5. w \in Nat
    BY <1>2
<1> HIDE DEF w
<1>6. w = n
    BY <1>3, <1>4, <1>5
<1> QED
    BY <1>6 DEF w

\* Dividing off the digits one by one finds them.
LEMMA DigitsFromAre ==
    ASSUME NEW base \in Bases, NEW v \in Nat, NEW n \in Nat
    PROVE  DigitsFrom(v, base, n) = [k \in 1..n |-> Digit((v \div Power(base)[n - k]) % base)]
<1> DEFINE P == Power(base)
           body(f) == [k \in Nat |-> IF k = 0 THEN v ELSE f[k - 1] \div base]
           rest == CHOOSE f : f = body(f)
           step == [a \in Nat \X Nat |-> a[1] \div base]
<1>0. base \in Nat \ {0} /\ base > 0
    BY DEF Bases
<1>1. P \in [Nat -> Nat \ {0}] /\ P[0] = 1 /\ \A k \in Nat : P[k + 1] = base * P[k]
    BY <1>0, PowerFacts
<1>2. step \in [Nat \X Nat -> Nat]
  <2> SUFFICES ASSUME NEW a \in Nat \X Nat
               PROVE  a[1] \div base \in Nat
      OBVIOUS
  <2> QED
      BY <1>0, DivisionNat
<1>3. PICK f \in [Nat -> Nat] : RecursiveBy(f, v, step)
  <2> HIDE DEF step
  <2> QED
      BY <1>2, RecursiveFunction
<1>4. f = body(f)
  <2>1. \A k \in Nat : f[k] = IF k = 0 THEN v ELSE f[k - 1] \div base
    <3> SUFFICES ASSUME NEW k \in Nat
                 PROVE  f[k] = IF k = 0 THEN v ELSE f[k - 1] \div base
        OBVIOUS
    <3>1. k # 0 => f[k - 1] \in Nat
        OBVIOUS
    <3>2. k # 0 => step[<<f[k - 1], k>>] = f[k - 1] \div base
        BY <3>1
    <3> HIDE DEF step
    <3> QED
        BY <3>2, <1>3 DEF RecursiveBy
  <2>2. f = [k \in Nat |-> f[k]]
      OBVIOUS
  <2> QED
      BY <2>1, <2>2
<1>5. rest = body(rest)
    BY <1>4
<1>6. DigitsFrom(v, base, n) = [k \in 1..n |-> Digit(rest[n - k] % base)]
    BY DEF DigitsFrom
<1> HIDE DEF rest, P
<1>7. \A k \in Nat : rest[k] = IF k = 0 THEN v ELSE rest[k - 1] \div base
    BY <1>5
<1>8. ASSUME NEW m \in Nat
      PROVE  rest[m] = v \div P[m]
  <2> DEFINE S == {j \in Nat : rest[j] = v \div P[j]}
  <2>1. 0 \in S
    <3>1. v \div 1 = v
        OBVIOUS
    <3> QED
        BY <3>1, <1>1, <1>7
  <2>2. \A j \in 1..m : j - 1 \in S => j \in S
    <3> SUFFICES ASSUME NEW j \in 1..m, rest[j - 1] = v \div P[j - 1]
                 PROVE  rest[j] = v \div P[j]
        OBVIOUS
    <3>1. j \in Nat /\ j # 0 /\ j - 1 \in Nat /\ (j - 1) + 1 = j
        OBVIOUS
    <3>2. rest[j] = rest[j - 1] \div base
        BY <3>1, <1>7
    <3>3. P[j] = base * P[j - 1] /\ P[j - 1] \in Nat \ {0}
        BY <3>1, <1>1
    <3>4. v \div (base * P[j - 1]) = (v \div P[j - 1]) \div base
        BY <3>3, DivisionTwice
    <3> QED
        BY <3>2, <3>3, <3>4
  <2> HIDE DEF S
  <2>3. m \in S
      BY <2>1, <2>2, CountUp
  <2> QED
      BY <2>3 DEF S
<1>9. ASSUME NEW k \in 1..n
      PROVE  rest[n - k] = v \div P[n - k]
  <2>1. n - k \in Nat
      OBVIOUS
  <2> QED
      BY <2>1, <1>8
<1> QED
    BY <1>6, <1>9 DEF P

LEMMA UIntFacts ==
    /\ HexWidth \in Nat \ {0} /\ UInt \in Nat \ {0} /\ UInt >= 16
    /\ UInt = Power(16)[HexWidth]
<1>1. HexWidth \in Nat \ {0} /\ UInt \in Nat /\ UInt = Power(16)[HexWidth]
    BY FormatAssumption
<1>2. 16 \in Bases /\ 0 \in Nat /\ 0 < HexWidth
    BY <1>1 DEF Bases
<1>3. 16 * Power(16)[0] <= Power(16)[HexWidth]
    BY <1>1, <1>2, PowerGrows
<1>4. Power(16)[0] = 1
    BY PowerFacts
<1> QED
    BY <1>1, <1>3, <1>4

LEMMA FitsUInt ==
    ASSUME NEW x \in Nat, x < UInt
    PROVE  x % UInt = x
<1>1. UInt \in Nat \ {0} /\ x \in 0..(UInt - 1) /\ 0 * UInt + x = x
    BY UIntFacts
<1>2. (0 * UInt + x) % UInt = x
    BY <1>1, DivisionUnique
<1> QED
    BY <1>1, <1>2

LEMMA LargestFacts ==
    ASSUME NEW base \in Bases
    PROVE  /\ Largest(base) \in [Nat -> Nat] /\ Largest(base)[0] = base - 1
           /\ \A k \in Nat :
                 Largest(base)[k + 1] = (Largest(base)[k] * base + base - 1) % UInt
<1> DEFINE body(p) == [k \in Nat |-> IF k = 0 THEN base - 1 ELSE (p[k - 1] * base + base - 1) % UInt]
           step == [a \in Nat \X Nat |-> (a[1] * base + base - 1) % UInt]
           i == CHOOSE p : p = body(p)
<1>0. base \in Nat \ {0} /\ base >= 10 /\ UInt \in Nat \ {0}
    BY UIntFacts DEF Bases
<1>1. \A x \in Nat : (x * base + base - 1) % UInt \in Nat
  <2> SUFFICES ASSUME NEW x \in Nat
               PROVE  (x * base + base - 1) % UInt \in Nat
      OBVIOUS
  <2>1. x * base + base - 1 \in Nat
      BY DEF Bases
  <2> QED
      BY <2>1, <1>0, DivisionNat
<1>2. step \in [Nat \X Nat -> Nat] /\ base - 1 \in Nat
  <2>1. base - 1 \in Nat
      BY <1>0
  <2>2. \A a \in Nat \X Nat : (a[1] * base + base - 1) % UInt \in Nat
      BY <1>1
  <2> QED
      BY <2>1, <2>2
<1>3. PICK f \in [Nat -> Nat] : RecursiveBy(f, base - 1, step)
  <2> HIDE DEF step
  <2> QED
      BY <1>2, RecursiveFunction
<1>4. f = body(f)
  <2>1. \A k \in Nat : f[k] = IF k = 0 THEN base - 1 ELSE (f[k - 1] * base + base - 1) % UInt
    <3> SUFFICES ASSUME NEW k \in Nat
                 PROVE  f[k] = IF k = 0 THEN base - 1 ELSE (f[k - 1] * base + base - 1) % UInt
        OBVIOUS
    <3>1. k # 0 => f[k - 1] \in Nat
        OBVIOUS
    <3>2. k # 0 => step[<<f[k - 1], k>>] = (f[k - 1] * base + base - 1) % UInt
        BY <3>1
    <3> HIDE DEF step
    <3> QED
        BY <3>2, <1>3 DEF RecursiveBy
  <2>2. f = [k \in Nat |-> f[k]]
      OBVIOUS
  <2> QED
      BY <2>1, <2>2
<1>5. i = body(i)
    BY <1>4
<1>6. Largest(base) = i
    BY DEF Largest
<1> HIDE DEF i
<1>7. \A k \in Nat : i[k] = IF k = 0 THEN base - 1 ELSE (i[k - 1] * base + base - 1) % UInt
    BY <1>5
<1>8. \A k \in Nat : i[k + 1] = (i[k] * base + base - 1) % UInt
  <2> SUFFICES ASSUME NEW k \in Nat
               PROVE  i[k + 1] = (i[k] * base + base - 1) % UInt
      OBVIOUS
  <2>1. k + 1 \in Nat /\ k + 1 # 0 /\ (k + 1) - 1 = k
      OBVIOUS
  <2> QED
      BY <2>1, <1>7
<1>9. \A k \in Nat : i[k] \in Nat
  <2> SUFFICES ASSUME NEW k \in Nat
               PROVE  i[k] \in Nat
      OBVIOUS
  <2> DEFINE S == {j \in Nat : i[j] \in Nat}
  <2>1. 0 \in S
      BY <1>2, <1>7
  <2>2. \A j \in 1..k : j - 1 \in S => j \in S
    <3> SUFFICES ASSUME NEW j \in 1..k, i[j - 1] \in Nat
                 PROVE  i[j] \in Nat
        OBVIOUS
    <3>1. i[j] = (i[j - 1] * base + base - 1) % UInt
        BY <1>7
    <3> QED
        BY <3>1, <1>1
  <2> HIDE DEF S
  <2>3. k \in S
      BY <2>1, <2>2, CountUp
  <2> QED
      BY <2>3 DEF S
<1>10. i = [k \in Nat |-> i[k]]
    BY <1>5
<1>11. i \in [Nat -> Nat]
    BY <1>9, <1>10
<1> QED
    BY <1>6, <1>7, <1>8, <1>11

\* As long as the power before fits a word.
LEMMA LargestAre ==
    ASSUME NEW base \in Bases, NEW n \in Nat, Power(base)[n] <= UInt
    PROVE  Largest(base)[n] = (Power(base)[n + 1] - 1) % UInt
<1> DEFINE P == Power(base)
           L == Largest(base)
           S == {k \in Nat : P[k] <= UInt => L[k] = (P[k + 1] - 1) % UInt}
<1>0. base \in Nat \ {0} /\ base \in 10..16 /\ UInt \in Nat \ {0} /\ UInt >= 16
    BY UIntFacts DEF Bases
<1>1. P \in [Nat -> Nat \ {0}] /\ P[0] = 1 /\ \A k \in Nat : P[k + 1] = base * P[k]
    BY <1>0, PowerFacts
<1>2. /\ L \in [Nat -> Nat] /\ L[0] = base - 1
      /\ \A k \in Nat : L[k + 1] = (L[k] * base + base - 1) % UInt
    BY LargestFacts
<1> HIDE DEF P, L
<1>3. \A x \in Nat : x < UInt => x % UInt = x
    BY FitsUInt
<1>4. 0 \in S
  <2>1. P[0 + 1] = base
      BY <1>0, <1>1
  <2>2. (base - 1) % UInt = base - 1
      BY <1>0, <1>3
  <2>3. L[0] = (P[0 + 1] - 1) % UInt
      BY <2>1, <2>2, <1>2
  <2> QED
      BY <2>3
<1>5. ASSUME NEW k \in 1..n, k - 1 \in S
      PROVE  k \in S
  <2> SUFFICES ASSUME P[k] <= UInt
               PROVE  L[k] = (P[k + 1] - 1) % UInt
      BY DEF S
  <2>1. k \in Nat /\ k - 1 \in Nat /\ (k - 1) + 1 = k
      OBVIOUS
  <2>2. P[k] = base * P[k - 1] /\ P[k + 1] = base * P[k] /\ P[k] \in Nat \ {0} /\ P[k - 1] \in Nat \ {0}
      BY <2>1, <1>1
  <2>3. P[k - 1] <= UInt /\ P[k] - 1 \in Nat /\ P[k] - 1 < UInt
    <3>1. P[k - 1] <= P[k]
        BY <2>2 DEF Bases
    <3> QED
        BY <3>1, <2>2, <1>0
  <2>4. L[k - 1] = (P[k] - 1) % UInt
      BY <2>1, <2>3, <1>5 DEF S
  <2>5. L[k - 1] = P[k] - 1
      BY <2>3, <2>4, <1>3
  <2>6. L[k] = (L[k - 1] * base + base - 1) % UInt
    <3>1. L[(k - 1) + 1] = (L[k - 1] * base + base - 1) % UInt
        BY <2>1, <1>2
    <3> QED
        BY <2>1, <3>1
  <2>7. L[k - 1] * base + base - 1 = P[k + 1] - 1
      BY <2>2, <2>5 DEF Bases
  <2> QED
      BY <2>6, <2>7
<1>6. n \in S
  <2> HIDE DEF S
  <2> QED
      BY <1>4, <1>5, CountUp
<1> QED
    BY <1>6 DEF S, P, L

LEMMA WidthAre ==
    ASSUME NEW base \in Bases, NEW v \in Nat, v < UInt, v <= Largest(base)[Places(v, base) - 1]
    PROVE  Width(v, base) = Places(v, base)
<1> DEFINE P == Power(base)
           L == Largest(base)
           n == Places(v, base)
           ends(k) == ~(v > L[k] /\ L[k] < UInt - 1)
           first(k) == ends(k) /\ \A m \in 0..(k - 1) : ~ends(m)
<1>0. base \in Nat \ {0} /\ UInt \in Nat \ {0}
    BY UIntFacts DEF Bases
<1>1. P \in [Nat -> Nat \ {0}]
    BY <1>0, PowerFacts
<1>2. L \in [Nat -> Nat]
    BY LargestFacts
<1>3. n \in 1..(v + 1) /\ \A m \in 1..(n - 1) : P[m] <= v
    BY PlacesFacts
<1>4. ASSUME NEW m \in 0..(n - 2)
      PROVE  ~ends(m)
  <2>1. m \in Nat /\ m + 1 \in 1..(n - 1) /\ m + 1 \in Nat /\ m <= m + 1
      BY <1>3
  <2>2. P[m + 1] <= v /\ P[m + 1] \in Nat \ {0} /\ P[m] \in Nat \ {0}
      BY <2>1, <1>1, <1>3
  <2>3. P[m] <= P[m + 1]
      BY <2>1, PowerGrows
  <2> HIDE DEF P
  <2>4. P[m] <= UInt /\ P[m + 1] - 1 \in 0..(UInt - 1) /\ P[m + 1] - 1 < UInt - 1
      BY <2>2, <2>3, <1>0
  <2>5. L[m] = (P[m + 1] - 1) % UInt
      BY <2>1, <2>4, LargestAre DEF P
  <2>6. P[m + 1] - 1 \in Nat /\ P[m + 1] - 1 < UInt
      BY <2>2, <2>4, <1>0
  <2>7. (P[m + 1] - 1) % UInt = P[m + 1] - 1
      BY <2>6, FitsUInt
  <2>8. L[m] = P[m + 1] - 1
      BY <2>5, <2>7
  <2> HIDE DEF L
  <2> QED
      BY <2>2, <2>4, <2>8
<1>5. ends(n - 1)
  <2>1. L[n - 1] \in Nat /\ v <= L[n - 1]
      BY <1>2, <1>3
  <2> HIDE DEF L, n
  <2> QED
      BY <2>1
<1>6. n - 1 \in 0..UInt /\ first(n - 1)
  <2>1. n - 1 \in 0..UInt /\ (n - 1) - 1 = n - 2
      BY <1>0, <1>3
  <2> HIDE DEF n, ends
  <2> QED
      BY <2>1, <1>4, <1>5
<1>7. \A k \in 0..UInt : first(k) => k = n - 1
  <2> SUFFICES ASSUME NEW k \in 0..UInt, first(k)
               PROVE  k = n - 1
      OBVIOUS
  <2>1. ~(k < n - 1)
      BY <1>3, <1>4
  <2>2. ~(n - 1 < k)
    <3> SUFFICES ASSUME n - 1 < k
                 PROVE  FALSE
        OBVIOUS
    <3>1. n - 1 \in 0..(k - 1)
        BY <1>3
    <3> HIDE DEF ends, n
    <3> QED
        BY <3>1, <1>5
  <2> HIDE DEF n, first
  <2> QED
      BY <2>1, <2>2, <1>3
<1>8. CountTurns(v, base) = CHOOSE k \in 0..UInt : first(k)
    BY DEF CountTurns
<1> HIDE DEF n, first
<1>9. CountTurns(v, base) = n - 1
    BY <1>6, <1>7, <1>8
<1> QED
    BY <1>3, <1>9 DEF Width, n

LEMMA HexWidthAre ==
    ASSUME NEW v \in Nat, v < UInt
    PROVE  Width(v, 16) = Places(v, 16)
<1> DEFINE P == Power(16)
           n == Places(v, 16)
<1>0. 16 \in Bases /\ HexWidth \in Nat \ {0} /\ UInt \in Nat \ {0} /\ UInt = P[HexWidth]
    BY UIntFacts DEF Bases
<1>1. P \in [Nat -> Nat \ {0}]
    BY PowerFacts
<1>2. n \in 1..(v + 1) /\ v < P[n] /\ \A m \in 1..(n - 1) : P[m] <= v
    BY <1>0, PlacesFacts
<1>3. n <= HexWidth
  <2> SUFFICES ASSUME HexWidth < n
               PROVE  FALSE
      BY <1>0, <1>2
  <2>1. HexWidth \in 1..(n - 1)
      BY <1>0, <1>2
  <2>2. P[HexWidth] <= v
      BY <2>1, <1>2
  <2> HIDE DEF P, n
  <2> QED
      BY <2>2, <1>0
<1>4. n - 1 \in Nat /\ n \in Nat /\ n - 1 <= HexWidth /\ (n - 1) + 1 = n
    BY <1>0, <1>2, <1>3
<1>5. P[n - 1] <= UInt /\ P[n] <= UInt
    BY <1>0, <1>3, <1>4, PowerGrows
<1>6. Largest(16)[n - 1] = (P[(n - 1) + 1] - 1) % UInt
    BY <1>0, <1>4, <1>5, LargestAre
<1>7. P[n] \in Nat \ {0}
    BY <1>1, <1>4
<1> HIDE DEF P, n
<1>11. P[n] - 1 \in Nat /\ P[n] - 1 < UInt
    BY <1>0, <1>5, <1>7
<1>8. (P[n] - 1) % UInt = P[n] - 1
    BY <1>11, FitsUInt
<1>9. Largest(16)[n - 1] = P[n] - 1
    BY <1>4, <1>6, <1>8
<1>10. v <= Largest(16)[n - 1]
    BY <1>2, <1>7, <1>9
<1> QED
    BY <1>0, <1>10, WidthAre DEF n

LEMMA DecWidthAre ==
    ASSUME NEW v \in Nat, v <= DecLimit
    PROVE  v < UInt /\ Width(v, 10) = Places(v, 10)
<1> DEFINE P == Power(10)
           n == Places(v, 10)
           w == Places(UInt, 10)
<1>0. 10 \in Bases /\ UInt \in Nat \ {0} /\ UInt >= 16
    BY UIntFacts DEF Bases
<1>1. P \in [Nat -> Nat \ {0}] /\ P[0] = 1 /\ P[0 + 1] = 10 * P[0]
  <2>1. \A k \in Nat : P[k + 1] = 10 * P[k]
      BY PowerFacts
  <2>2. P[0 + 1] = 10 * P[0]
      BY <2>1
  <2>3. P \in [Nat -> Nat \ {0}] /\ P[0] = 1
      BY PowerFacts
  <2> HIDE DEF P
  <2> QED
      BY <2>2, <2>3
<1>2. n \in 1..(v + 1) /\ v < P[n] /\ \A m \in 1..(n - 1) : P[m] <= v
    BY <1>0, PlacesFacts
<1>3. w \in 1..(UInt + 1) /\ UInt < P[w] /\ \A m \in 1..(w - 1) : P[m] <= UInt
    BY <1>0, PlacesFacts
<1>4. w # 1
  <2>1. P[1] = 10
      BY <1>1
  <2> HIDE DEF P, w
  <2> QED
      BY <2>1, <1>0, <1>3
<1>5. P[w - 1] <= UInt /\ w - 1 \in Nat /\ w \in Nat /\ P[w] \in Nat \ {0}
  <2>1. w - 1 \in 1..(w - 1) /\ w - 1 \in Nat /\ w \in Nat
      BY <1>3, <1>4
  <2> QED
      BY <2>1, <1>1, <1>3
<1>6. DecLimit = (P[w] - 1) % UInt
    BY DEF DecLimit
<1> HIDE DEF P, w, n
<1>7. DecLimit \in 0..(UInt - 1)
  <2>1. P[w] - 1 \in Nat
      BY <1>5
  <2> QED
      BY <2>1, <1>0, <1>6, DivisionNat
<1>8. v < UInt
    BY <1>0, <1>7
<1>9. ~(w < n)
  <2> SUFFICES ASSUME w < n
               PROVE  FALSE
      OBVIOUS
  <2>1. w \in 1..(n - 1)
      BY <1>2, <1>3
  <2> QED
      BY <2>1, <1>2, <1>3, <1>5, <1>8, <1>0
<1>10. v <= Largest(10)[n - 1]
  <2>1. CASE n = w
    <3>1. Largest(10)[w - 1] = (P[(w - 1) + 1] - 1) % UInt
        BY <1>0, <1>5, LargestAre DEF P
    <3>2. (w - 1) + 1 = w
        BY <1>5
    <3> QED
        BY <3>1, <3>2, <2>1, <1>6
  <2>2. CASE n # w
    <3>1. n \in 1..(w - 1) /\ n \in Nat /\ n - 1 \in Nat /\ n - 1 <= n /\ (n - 1) + 1 = n
        BY <2>2, <1>2, <1>3, <1>9
    <3>2. P[n] <= UInt /\ P[n] \in Nat \ {0} /\ P[n - 1] \in Nat
        BY <3>1, <1>1, <1>3
    <3>3. P[n - 1] <= P[n]
        BY <3>1, <1>0, PowerGrows DEF P
    <3>4. P[n - 1] <= UInt
        BY <3>2, <3>3, <1>0
    <3>5. Largest(10)[n - 1] = (P[(n - 1) + 1] - 1) % UInt
        BY <3>1, <3>4, <1>0, LargestAre DEF P
    <3>6. P[n] - 1 \in Nat /\ P[n] - 1 < UInt
        BY <3>2, <1>0
    <3>7. (P[n] - 1) % UInt = P[n] - 1
        BY <3>6, FitsUInt
    <3> QED
        BY <3>1, <3>2, <3>5, <3>7, <1>2
  <2> QED
      BY <2>1, <2>2
<1> QED
    BY <1>0, <1>8, <1>10, WidthAre DEF n

-----------------------------------------------------------------------------
(***************************************************************************)
(* Characters and the two ways to print a number.                          *)
(***************************************************************************)
LEMMA OneCharacter ==
    ASSUME NEW c \in Characters
    PROVE  <<c>> \in Seq(Characters) /\ Len(<<c>>) = 1 /\ <<c>>[1] = c
OBVIOUS

LEMMA LetterFacts ==
    \A c \in {"%", "l", "s", "c", "x", "d", "u", " "} : c \in Characters
BY FormatAssumption

LEMMA DigitFacts ==
    /\ \A n \in 0..15 : Digit(n) \in Characters
    /\ \A n \in 0..9 : /\ IsDigit(Digit(n)) /\ DigitValue(Digit(n)) = n
                       /\ Digit(n) \notin {"%", "l", "s", "c", "x", "d", "u"}
    /\ \A n \in 1..9 : Digit(n) # Digit(0)
    /\ \A c \in {"%", "l", "s", "c", "x", "d", "u"} : ~IsDigit(c)
    /\ \A c : DigitValue(c) \in 0..9
<1>1. /\ Digits \in Seq(Characters) /\ Len(Digits) = 16
      /\ \A m, n \in 0..15 : Digit(m) = Digit(n) => m = n
      /\ \A n \in 0..9 : Digit(n) \notin {"%", "l", "s", "c", "x", "d", "u"}
    BY FormatAssumption
<1>2. \A n \in 0..15 : Digit(n) \in Characters
  <2> SUFFICES ASSUME NEW n \in 0..15
               PROVE  Digits[n + 1] \in Characters
      BY DEF Digit
  <2>1. n + 1 \in 1..Len(Digits)
      BY <1>1
  <2> QED
      BY <2>1, <1>1, ElementOfSeq
<1>3. ASSUME NEW n \in 0..9
      PROVE  IsDigit(Digit(n)) /\ DigitValue(Digit(n)) = n
  <2>1. IsDigit(Digit(n))
      BY DEF IsDigit
  <2>2. \A m \in 0..9 : (IsDigit(Digit(n)) => Digit(m) = Digit(n)) <=> m = n
    <3>1. \A m \in 0..9 : m \in 0..15
        OBVIOUS
    <3> QED
        BY <2>1, <3>1, <1>1
  <2>3. DigitValue(Digit(n)) = CHOOSE m \in 0..9 : IsDigit(Digit(n)) => Digit(m) = Digit(n)
      BY DEF DigitValue
  <2> QED
      BY <2>1, <2>2, <2>3
<1>4. \A n \in 1..9 : Digit(n) # Digit(0)
    BY <1>1
<1>5. \A c \in {"%", "l", "s", "c", "x", "d", "u"} : ~IsDigit(c)
    BY <1>1 DEF IsDigit
<1>6. ASSUME NEW c
      PROVE  DigitValue(c) \in 0..9
  <2>1. \E m \in 0..9 : IsDigit(c) => Digit(m) = c
      BY DEF IsDigit
  <2> QED
      BY <2>1 DEF DigitValue
<1> QED
    BY <1>1, <1>2, <1>3, <1>4, <1>5, <1>6

LEMMA NumeralFacts ==
    ASSUME NEW base \in Bases, NEW v \in Nat
    PROVE  /\ Places(v, base) \in Nat \ {0}
           /\ Numeral(v, base) \in Seq(Characters) /\ Len(Numeral(v, base)) = Places(v, base)
           /\ \A k \in 1..Places(v, base) :
                 /\ (v \div Power(base)[Places(v, base) - k]) % base \in 0..(base - 1)
                 /\ Numeral(v, base)[k] = Digit((v \div Power(base)[Places(v, base) - k]) % base)
<1> DEFINE n == Places(v, base)
           P == Power(base)
           s == Numeral(v, base)
<1>0. base \in Nat \ {0} /\ base - 1 \in 0..15
    BY DEF Bases
<1>1. n \in Nat \ {0}
    BY PlacesFacts
<1>2. P \in [Nat -> Nat \ {0}]
    BY <1>0, PowerFacts
<1>3. s = [k \in 1..n |-> Digit((v \div P[n - k]) % base)]
    BY DEF Numeral
<1> HIDE DEF n, P, s
<1>4. ASSUME NEW k \in 1..n
      PROVE  /\ (v \div P[n - k]) % base \in 0..(base - 1)
             /\ Digit((v \div P[n - k]) % base) \in Characters
  <2>1. n - k \in Nat
      BY <1>1
  <2>2. P[n - k] \in Nat \ {0}
      BY <2>1, <1>2
  <2>3. v \div P[n - k] \in Nat
      BY <2>2, DivisionNat
  <2>4. (v \div P[n - k]) % base \in 0..(base - 1)
      BY <2>3, <1>0, DivisionNat
  <2>5. (v \div P[n - k]) % base \in 0..15
      BY <2>4, <1>0
  <2> QED
      BY <2>4, <2>5, DigitFacts
<1>5. s \in [1..n -> Characters]
    BY <1>3, <1>4
<1>6. s \in Seq(Characters) /\ Len(s) = n
    BY <1>1, <1>5, SeqDef, LenProperties
<1> QED
    BY <1>1, <1>3, <1>4, <1>6 DEF n, P, s

\* No numeral begins with a zero.
LEMMA LeadingDigit ==
    ASSUME NEW v \in Nat \ {0}
    PROVE  \E m \in 1..9 : Numeral(v, 10)[1] = Digit(m)
<1> DEFINE n == Places(v, 10)
           P == Power(10)
           a == P[n - 1]
           q == v \div a
           r == v % a
<1>0. 10 \in Bases
    BY DEF Bases
<1>1. P \in [Nat -> Nat \ {0}] /\ P[0] = 1 /\ \A k \in Nat : P[k + 1] = 10 * P[k]
    BY PowerFacts
<1>2. n \in 1..(v + 1) /\ v < P[n] /\ \A m \in 1..(n - 1) : P[m] <= v
    BY <1>0, PlacesFacts
<1> HIDE DEF P, n
<1>3. n - 1 \in Nat /\ (n - 1) + 1 = n /\ a \in Nat \ {0} /\ P[n] = 10 * a
  <2>1. n - 1 \in Nat /\ (n - 1) + 1 = n
      BY <1>2
  <2>2. P[(n - 1) + 1] = 10 * P[n - 1] /\ P[n - 1] \in Nat \ {0}
      BY <2>1, <1>1
  <2> QED
      BY <2>1, <2>2
<1>4. a <= v
  <2>1. CASE n = 1
    <3>1. a = 1
        BY <2>1, <1>1
    <3> HIDE DEF a
    <3> QED
        BY <3>1
  <2>2. CASE n # 1
    <3>1. n - 1 \in 1..(n - 1)
        BY <2>2, <1>2
    <3> QED
        BY <3>1, <1>2
  <2> QED
      BY <2>1, <2>2
<1>5. q \in Nat /\ r \in 0..(a - 1) /\ q * a \in Nat /\ v = q * a + r
    BY <1>3, DivisionNat
<1>6. v < 10 * a
    BY <1>2, <1>3
<1> HIDE DEF a, q, r
<1>7. q * a < 9 * a + a
    BY <1>3, <1>5, <1>6
<1>8. q <= 9
    BY <1>3, <1>5, <1>7, MultipleBelow
<1>9. q # 0
    BY <1>3, <1>4, <1>5
<1>10. q \in 1..9 /\ q % 10 = q
    BY <1>5, <1>8, <1>9
<1>11. Numeral(v, 10)[1] = Digit(q % 10)
  <2>1. 1 \in 1..n
      BY <1>2
  <2>2. Numeral(v, 10)[1] = Digit((v \div P[n - 1]) % 10)
      BY <2>1, <1>0, NumeralFacts DEF n, P
  <2> QED
      BY <2>2 DEF q, a
<1> QED
    BY <1>10, <1>11

LEMMA PaddedFacts ==
    ASSUME NEW s \in Seq(Characters), NEW w \in Nat, NEW pad \in Characters
    PROVE  /\ Padded(s, w, pad) \in Seq(Characters)
           /\ Repeat(pad, IF Len(s) < w THEN w - Len(s) ELSE 0) \o s = Padded(s, w, pad)
<1>1. Len(s) \in Nat
    BY LenProperties
<1>2. \A m \in Nat : Repeat(pad, m) \in Seq(Characters)
  <2> SUFFICES ASSUME NEW m \in Nat
               PROVE  [k \in 1..m |-> pad] \in Seq(Characters)
      BY DEF Repeat
  <2> DEFINE f == [k \in 1..m |-> pad]
  <2>1. f \in [1..m -> Characters]
      OBVIOUS
  <2> HIDE DEF f
  <2>2. f \in Seq(Characters)
      BY <2>1, SeqDef
  <2> QED
      BY <2>2 DEF f
<1>3. CASE Len(s) < w
  <2>1. w - Len(s) \in Nat
      BY <1>1, <1>3
  <2>2. Repeat(pad, w - Len(s)) \in Seq(Characters)
      BY <2>1, <1>2
  <2>3. Padded(s, w, pad) = Repeat(pad, w - Len(s)) \o s
      BY <1>3 DEF Padded
  <2>4. Repeat(pad, w - Len(s)) \o s \in Seq(Characters)
      BY <2>2, ConcatProperties
  <2> QED
      BY <2>3, <2>4, <1>3
<1>4. CASE ~(Len(s) < w)
  <2>1. Repeat(pad, 0) = <<>>
      BY DEF Repeat
  <2>2. <<>> \o s = s
      BY ConcatEmptySeq
  <2>3. Padded(s, w, pad) = s
      BY <1>4 DEF Padded
  <2> QED
      BY <2>1, <2>2, <2>3, <1>4
<1> QED
    BY <1>3, <1>4

LEMMA PrintDecimal ==
    ASSUME NEW v \in Nat, v <= DecLimit, NEW w \in Nat, NEW pad \in Characters
    PROVE  /\ print_dec(v, w, pad) = Padded(Numeral(v, 10), w, pad)
           /\ print_dec(v, w, pad) \in Seq(Characters)
<1> DEFINE s == Numeral(v, 10)
           n == Places(v, 10)
<1>0. 10 \in Bases
    BY DEF Bases
<1>1. v < UInt /\ Width(v, 10) = n
    BY DecWidthAre
<1>2. v % UInt = v
    BY <1>1, FitsUInt
<1>3. n \in Nat \ {0} /\ s \in Seq(Characters) /\ Len(s) = n
    BY <1>0, NumeralFacts
<1>4. DigitsFrom(v, 10, n) = s
  <2>1. n \in Nat
      BY <1>3
  <2> QED
      BY <2>1, <1>0, DigitsFromAre DEF Numeral
<1>5. print_dec(v, w, pad) = Repeat(pad, IF n < w THEN w - n ELSE 0) \o DigitsFrom(v, 10, n)
    BY <1>1, <1>2 DEF print_dec
<1> HIDE DEF n, s
<1>6. print_dec(v, w, pad) = Repeat(pad, IF Len(s) < w THEN w - Len(s) ELSE 0) \o s
    BY <1>3, <1>4, <1>5
<1>7. Padded(s, w, pad) \in Seq(Characters) /\ print_dec(v, w, pad) = Padded(s, w, pad)
    BY <1>3, <1>6, PaddedFacts
<1> QED
    BY <1>7 DEF s

LEMMA PrintHexadecimal ==
    ASSUME NEW v \in Nat, v < UInt, NEW width \in Nat
    PROVE  /\ print_hex(v, width) =
                 Padded(Numeral(v, 16), IF width = 0 THEN HexWidth ELSE width, Digit(0))
           /\ print_hex(v, width) \in Seq(Characters)
<1> DEFINE s == Numeral(v, 16)
           n == Places(v, 16)
           w == IF width = 0 THEN HexWidth ELSE width
<1>0. 16 \in Bases
    BY DEF Bases
<1>1. Width(v, 16) = n
    BY HexWidthAre
<1>2. v % UInt = v
    BY FitsUInt
<1>3. n \in Nat \ {0} /\ s \in Seq(Characters) /\ Len(s) = n
    BY <1>0, NumeralFacts
<1>4. DigitsFrom(v, 16, n) = s
  <2>1. n \in Nat
      BY <1>3
  <2> QED
      BY <2>1, <1>0, DigitsFromAre DEF Numeral
<1>5. print_hex(v, width) = Repeat(Digit(0), IF n < w THEN w - n ELSE 0) \o DigitsFrom(v, 16, n)
    BY <1>1, <1>2 DEF print_hex
<1>6. w \in Nat /\ Digit(0) \in Characters
    BY UIntFacts, DigitFacts
<1> HIDE DEF n, s, w
<1>7. print_hex(v, width) = Repeat(Digit(0), IF Len(s) < w THEN w - Len(s) ELSE 0) \o s
    BY <1>3, <1>4, <1>5
<1>8. Padded(s, w, Digit(0)) \in Seq(Characters) /\ print_hex(v, width) = Padded(s, w, Digit(0))
    BY <1>3, <1>6, <1>7, PaddedFacts
<1> QED
    BY <1>8 DEF s, w

\* A conversion is written as a percent sign, a flag, a width, l and a letter.
ZeroOf(d) == IF d.zero THEN <<Digit(0)>> ELSE <<>>
WidthOf(d) == IF d.width = 0 THEN <<>> ELSE Numeral(d.width, 10)
LengthOf(d) == Repeat("l", d.long)

IsConversion(d) == IsDirective(d) /\ d.conv \in {"s", "c", "x", "d", "u"}

WrittenAs(d, s, z, n) ==
    /\ s \in Seq(Characters) /\ z = Len(ZeroOf(d)) /\ n = Len(WidthOf(d)) /\ z \in 0..1 /\ n \in Nat
    /\ z = 1 <=> d.zero
    /\ Len(s) = 1 + z + n + d.long + 1 /\ Len(s) \in Nat
    /\ s[1] = "%" /\ (z = 1 => s[2] = Digit(0))
    /\ \A j \in 1..n : s[1 + z + j] = Numeral(d.width, 10)[j]
    /\ n = IF d.width = 0 THEN 0 ELSE Places(d.width, 10)
    /\ \A j \in 1..d.long : s[1 + z + n + j] = "l"
    /\ s[1 + z + n + d.long + 1] = d.conv

LEMMA WrittenLayout ==
    ASSUME NEW d, IsConversion(d)
    PROVE  WrittenAs(d, Written(d), Len(ZeroOf(d)), Len(WidthOf(d)))
<1> DEFINE a == <<"%">>
           Z == ZeroOf(d)
           W == WidthOf(d)
           L == LengthOf(d)
           c == <<d.conv>>
           s2 == a \o Z
           s3 == s2 \o W
           s4 == s3 \o L
           s == s4 \o c
           z == Len(Z)
           n == Len(W)
           l == d.long
<1>1. d.conv \in {"s", "c", "x", "d", "u"} /\ d.zero \in BOOLEAN /\ d.width \in Nat /\ l \in 0..2
    BY DEF IsConversion, IsDirective
<1>2. Written(d) = s
    BY <1>1 DEF Written, ZeroOf, WidthOf, LengthOf
<1>3. a \in Seq(Characters) /\ Len(a) = 1 /\ a[1] = "%"
    BY LetterFacts, OneCharacter
<1>4. c \in Seq(Characters) /\ Len(c) = 1 /\ c[1] = d.conv
    BY <1>1, LetterFacts, OneCharacter
<1>5. /\ Z \in Seq(Characters) /\ z \in 0..1 /\ (z = 1 <=> d.zero)
      /\ z = 1 => Z[1] = Digit(0)
  <2>1. Digit(0) \in Characters
      BY DigitFacts
  <2>2. CASE d.zero
    <3>1. Z = <<Digit(0)>>
        BY <2>2 DEF ZeroOf
    <3> HIDE DEF Z
    <3> QED
        BY <3>1, <2>1, <2>2
  <2>3. CASE ~d.zero
    <3>1. Z = <<>>
        BY <2>3 DEF ZeroOf
    <3> HIDE DEF Z
    <3> QED
        BY <3>1, <2>3
  <2> QED
      BY <2>2, <2>3
<1>6. /\ W \in Seq(Characters) /\ n \in Nat /\ n = IF d.width = 0 THEN 0 ELSE Places(d.width, 10)
      /\ \A j \in 1..n : W[j] = Numeral(d.width, 10)[j]
  <2>1. CASE d.width = 0
    <3>1. W = <<>>
        BY <2>1 DEF WidthOf
    <3> HIDE DEF W
    <3> QED
        BY <3>1, <2>1
  <2>2. CASE d.width # 0
    <3>1. W = Numeral(d.width, 10)
        BY <2>2 DEF WidthOf
    <3>2. /\ Places(d.width, 10) \in Nat \ {0} /\ Numeral(d.width, 10) \in Seq(Characters)
          /\ Len(Numeral(d.width, 10)) = Places(d.width, 10)
      <4>1. 10 \in Bases
          BY DEF Bases
      <4> QED
          BY <4>1, <1>1, NumeralFacts
    <3> HIDE DEF W
    <3> QED
        BY <3>1, <3>2, <2>2
  <2> QED
      BY <2>1, <2>2
<1>7. L \in Seq(Characters) /\ Len(L) = l /\ \A j \in 1..l : L[j] = "l"
  <2>1. L = [k \in 1..l |-> "l"]
      BY DEF LengthOf, Repeat
  <2>2. L \in [1..l -> Characters] /\ \A j \in 1..l : L[j] = "l"
      BY <2>1, LetterFacts
  <2> HIDE DEF L
  <2>3. l \in Nat
      BY <1>1
  <2> QED
      BY <2>2, <2>3, SeqDef, LenProperties
<1> HIDE DEF a, Z, W, L, c, z, n, l
<1>8. /\ s2 \in Seq(Characters) /\ Len(s2) = 1 + z /\ s2[1] = "%"
      /\ z = 1 => s2[2] = Digit(0)
  <2>1. /\ a \o Z \in Seq(Characters) /\ Len(a \o Z) = Len(a) + Len(Z)
        /\ \A j \in 1..Len(a) : (a \o Z)[j] = a[j]
        /\ \A j \in 1..Len(Z) : (a \o Z)[Len(a) + j] = Z[j]
    <3>1. a \in Seq(Characters) /\ Z \in Seq(Characters)
        BY <1>3, <1>5
    <3> QED
        BY <3>1, ConcatAt
  <2>2. 1 \in 1..Len(a) /\ (z = 1 => 1 \in 1..Len(Z) /\ Len(a) + 1 = 2)
      BY <1>3 DEF z
  <2>3. z = 1 => (a \o Z)[Len(a) + 1] = Z[1]
      BY <2>1, <2>2
  <2> QED
      BY <2>1, <2>2, <2>3, <1>3, <1>5 DEF z
<1> HIDE DEF s2
<1>9. /\ s3 \in Seq(Characters) /\ Len(s3) = 1 + z + n /\ s3[1] = "%"
      /\ z = 1 => s3[2] = Digit(0)
      /\ \A j \in 1..n : s3[1 + z + j] = W[j]
  <2>1. /\ s2 \o W \in Seq(Characters) /\ Len(s2 \o W) = Len(s2) + Len(W)
        /\ \A j \in 1..Len(s2) : (s2 \o W)[j] = s2[j]
        /\ \A j \in 1..Len(W) : (s2 \o W)[Len(s2) + j] = W[j]
    <3>1. s2 \in Seq(Characters) /\ W \in Seq(Characters)
        BY <1>6, <1>8
    <3> QED
        BY <3>1, ConcatAt
  <2>2. 1 \in 1..Len(s2) /\ (z = 1 => 2 \in 1..Len(s2))
      BY <1>5, <1>8
  <2> QED
      BY <2>1, <2>2, <1>8 DEF n
<1> HIDE DEF s3
<1>10. /\ s4 \in Seq(Characters) /\ Len(s4) = 1 + z + n + l /\ s4[1] = "%"
       /\ z = 1 => s4[2] = Digit(0)
       /\ \A j \in 1..n : s4[1 + z + j] = W[j]
       /\ \A j \in 1..l : s4[1 + z + n + j] = "l"
  <2>1. /\ s3 \o L \in Seq(Characters) /\ Len(s3 \o L) = Len(s3) + Len(L)
        /\ \A j \in 1..Len(s3) : (s3 \o L)[j] = s3[j]
        /\ \A j \in 1..Len(L) : (s3 \o L)[Len(s3) + j] = L[j]
    <3>1. s3 \in Seq(Characters) /\ L \in Seq(Characters)
        BY <1>7, <1>9
    <3> QED
        BY <3>1, ConcatAt
  <2>2. /\ 1 \in 1..Len(s3) /\ (z = 1 => 2 \in 1..Len(s3))
        /\ \A j \in 1..n : 1 + z + j \in 1..Len(s3)
      BY <1>5, <1>6, <1>9
  <2>3. \A j \in 1..n : s4[1 + z + j] = s3[1 + z + j]
      BY <2>1, <2>2
  <2>4. \A j \in 1..l : s4[1 + z + n + j] = L[j]
      BY <2>1, <1>7, <1>9
  <2> QED
      BY <2>1, <2>2, <2>3, <2>4, <1>7, <1>9
<1> HIDE DEF s4
<1>11. /\ s \in Seq(Characters) /\ Len(s) = 1 + z + n + l + 1 /\ s[1] = "%"
       /\ z = 1 => s[2] = Digit(0)
       /\ \A j \in 1..n : s[1 + z + j] = W[j]
       /\ \A j \in 1..l : s[1 + z + n + j] = "l"
       /\ s[1 + z + n + l + 1] = d.conv
  <2>1. /\ s4 \o c \in Seq(Characters) /\ Len(s4 \o c) = Len(s4) + Len(c)
        /\ \A j \in 1..Len(s4) : (s4 \o c)[j] = s4[j]
        /\ \A j \in 1..Len(c) : (s4 \o c)[Len(s4) + j] = c[j]
    <3>1. s4 \in Seq(Characters) /\ c \in Seq(Characters)
        BY <1>4, <1>10
    <3> QED
        BY <3>1, ConcatAt
  <2>2. /\ 1 \in 1..Len(s4) /\ (z = 1 => 2 \in 1..Len(s4))
        /\ \A j \in 1..n : 1 + z + j \in 1..Len(s4)
        /\ \A j \in 1..l : 1 + z + n + j \in 1..Len(s4)
        /\ 1 \in 1..Len(c) /\ l \in 0..2
    <3>1. l \in 0..2 /\ z \in 0..1 /\ n \in Nat /\ Len(s4) = 1 + z + n + l /\ Len(c) = 1
        BY <1>1, <1>4, <1>5, <1>6, <1>10 DEF l
    <3> QED
        BY <3>1
  <2>3. \A j \in 1..n : s[1 + z + j] = s4[1 + z + j]
      BY <2>1, <2>2
  <2>4. \A j \in 1..l : s[1 + z + n + j] = s4[1 + z + n + j]
      BY <2>1, <2>2
  <2>5. s[Len(s4) + 1] = c[1]
      BY <2>1, <2>2
  <2> QED
      BY <2>1, <2>2, <2>3, <2>4, <2>5, <1>4, <1>10
<1> HIDE DEF s
<1>12. Len(s) \in Nat
    BY <1>11, LenProperties
<1> QED
    BY <1>2, <1>5, <1>6, <1>11, <1>12 DEF WrittenAs, z, n, l, Z, W

-----------------------------------------------------------------------------
(***************************************************************************)
(* What a turn of the loop reads of a directive.                           *)
(***************************************************************************)
LEMMA BehindIs ==
    ASSUME NEW k \in Nat, NEW n \in Nat, Len(fmt) \in Nat, k + n <= Len(fmt) + 1,
           ~IsDigit(At(k + n)), \A m \in k..(k + n - 1) : IsDigit(At(m))
    PROVE  Behind(k) = k + n
<1> DEFINE here(j) == ~IsDigit(At(j)) /\ \A m \in k..(j - 1) : IsDigit(At(m))
<1>1. k + n \in k..(Len(fmt) + 1) /\ here(k + n)
    OBVIOUS
<1>2. ASSUME NEW j \in k..(Len(fmt) + 1), here(j)
      PROVE  j = k + n
  <2>1. ~(j < k + n)
    <3>1. j < k + n => j \in k..(k + n - 1)
        OBVIOUS
    <3> QED
        BY <3>1, <1>2
  <2>2. ~(k + n < j)
    <3>1. k + n < j => k + n \in k..(j - 1)
        OBVIOUS
    <3> QED
        BY <3>1, <1>1, <1>2
  <2> QED
      BY <2>1, <2>2
<1>3. Behind(k) = CHOOSE j \in k..(Len(fmt) + 1) : here(j)
    BY DEF Behind
<1> HIDE DEF here
<1> QED
    BY <1>1, <1>2, <1>3

LEMMA NumberSteps ==
    ASSUME NEW k \in Nat
    PROVE  /\ NumberAt(k, 0) = 0
           /\ \A j \in Nat : /\ NumberAt(k, j) \in Nat
                             /\ NumberAt(k, j + 1) = 10 * NumberAt(k, j) + DigitValue(At(k + j))
<1> DEFINE val(j) == DigitValue(At(k + j - 1))
           body(f) == [j \in Nat |-> IF j = 0 THEN 0 ELSE 10 * f[j - 1] + val(j)]
           step == [a \in Nat \X Nat |-> 10 * a[1] + val(a[2])]
           g == CHOOSE f : f = body(f)
<1>0. \A j : val(j) \in 0..9
    BY DigitFacts
<1>1. NumberAt(k, 0) = g[0] /\ \A j \in Nat : NumberAt(k, j) = g[j]
    BY DEF NumberAt
<1>2. \A j \in Nat : val(j + 1) = DigitValue(At(k + j))
  <2> SUFFICES ASSUME NEW j \in Nat
               PROVE  val(j + 1) = DigitValue(At(k + j))
      OBVIOUS
  <2>1. k + (j + 1) - 1 = k + j
      OBVIOUS
  <2> QED
      BY <2>1
<1> HIDE DEF val
<1>3. step \in [Nat \X Nat -> Nat]
  <2> SUFFICES ASSUME NEW a \in Nat \X Nat
               PROVE  10 * a[1] + val(a[2]) \in Nat
      OBVIOUS
  <2>1. a[1] \in Nat /\ val(a[2]) \in 0..9
      BY <1>0
  <2> QED
      BY <2>1
<1>4. PICK f \in [Nat -> Nat] : RecursiveBy(f, 0, step)
  <2> HIDE DEF step
  <2> QED
      BY <1>3, RecursiveFunction
<1>5. f = body(f)
  <2>1. \A j \in Nat : f[j] = IF j = 0 THEN 0 ELSE 10 * f[j - 1] + val(j)
    <3> SUFFICES ASSUME NEW j \in Nat
                 PROVE  f[j] = IF j = 0 THEN 0 ELSE 10 * f[j - 1] + val(j)
        OBVIOUS
    <3>1. j # 0 => f[j - 1] \in Nat
        OBVIOUS
    <3>2. j # 0 => step[<<f[j - 1], j>>] = 10 * f[j - 1] + val(j)
        BY <3>1
    <3> HIDE DEF step
    <3> QED
        BY <3>2, <1>4 DEF RecursiveBy
  <2>2. f = [j \in Nat |-> f[j]]
      OBVIOUS
  <2> QED
      BY <2>1, <2>2
<1>6. g = body(g)
    BY <1>5
<1> HIDE DEF g
<1>7. \A j \in Nat : g[j] = IF j = 0 THEN 0 ELSE 10 * g[j - 1] + val(j)
    BY <1>6
<1>8. \A j \in Nat : g[j + 1] = 10 * g[j] + val(j + 1)
  <2> SUFFICES ASSUME NEW j \in Nat
               PROVE  g[j + 1] = 10 * g[j] + val(j + 1)
      OBVIOUS
  <2>1. j + 1 \in Nat /\ j + 1 # 0 /\ (j + 1) - 1 = j
      OBVIOUS
  <2> QED
      BY <2>1, <1>7
<1>9. \A j \in Nat : g[j] \in Nat
  <2> SUFFICES ASSUME NEW j \in Nat
               PROVE  g[j] \in Nat
      OBVIOUS
  <2> DEFINE S == {m \in Nat : g[m] \in Nat}
  <2>1. 0 \in S
      BY <1>7
  <2>2. \A m \in 1..j : m - 1 \in S => m \in S
    <3> SUFFICES ASSUME NEW m \in 1..j, g[m - 1] \in Nat
                 PROVE  g[m] \in Nat
        OBVIOUS
    <3>1. g[m] = 10 * g[m - 1] + val(m) /\ val(m) \in 0..9
        BY <1>0, <1>7
    <3> QED
        BY <3>1
  <2> HIDE DEF S
  <2>3. j \in S
      BY <2>1, <2>2, CountUp
  <2> QED
      BY <2>3 DEF S
<1>10. ASSUME NEW j \in Nat
       PROVE  NumberAt(k, j) \in Nat /\ NumberAt(k, j + 1) = 10 * NumberAt(k, j) + DigitValue(At(k + j))
  <2>1. j + 1 \in Nat
      OBVIOUS
  <2>2. NumberAt(k, j) = g[j] /\ NumberAt(k, j + 1) = g[j + 1]
      BY <2>1, <1>1
  <2> QED
      BY <2>2, <1>2, <1>8, <1>9
<1>11. NumberAt(k, 0) = 0
    BY <1>1, <1>7
<1> QED
    BY <1>10, <1>11

\* A numeral, and one behind a zero, spells its number.
Spelt(k, z, w, n) ==
    /\ k \in Nat /\ z \in 0..1 /\ w \in Nat /\ n \in Nat
    /\ n = IF w = 0 THEN 0 ELSE Places(w, 10)
    /\ z = 1 => At(k) = Digit(0)
    /\ \A j \in 1..n : At(k + z + j - 1) = Numeral(w, 10)[j]

LEMMA NumberIs ==
    ASSUME NEW k, NEW z, NEW w, NEW n, Spelt(k, z, w, n)
    PROVE  NumberAt(k, z + n) = w
<1> DEFINE P == Power(10)
           N(j) == NumberAt(k, j)
           S == {j \in Nat : j <= n => N(z + j) = w \div P[n - j]}
<1> USE DEF Spelt
<1>0. 10 \in Bases
    BY DEF Bases
<1>1. P \in [Nat -> Nat \ {0}] /\ P[0] = 1 /\ \A j \in Nat : P[j + 1] = 10 * P[j]
  <2>1. P \in [Nat -> Nat \ {0}] /\ P[0] = 1
      BY PowerFacts
  <2>2. \A j \in Nat : P[j + 1] = 10 * P[j]
      BY PowerFacts
  <2> HIDE DEF P
  <2> QED
      BY <2>1, <2>2
<1>2. N(0) = 0 /\ \A j \in Nat : N(j) \in Nat /\ N(j + 1) = 10 * N(j) + DigitValue(At(k + j))
    BY NumberSteps
<1>3. w < P[n]
  <2>1. CASE w = 0
    <3>1. P[0] = 1
        BY <1>1
    <3> HIDE DEF P
    <3> QED
        BY <2>1, <3>1
  <2>2. CASE w # 0
      BY <2>2, <1>0, PlacesFacts
  <2> QED
      BY <2>1, <2>2
<1>4. ASSUME NEW j \in 1..n
      PROVE  /\ (w \div P[n - j]) % 10 \in 0..9
             /\ DigitValue(At(k + z + j - 1)) = (w \div P[n - j]) % 10
  <2>1. n = Places(w, 10)
      OBVIOUS
  <2>2. /\ (w \div P[n - j]) % 10 \in 0..(10 - 1)
        /\ Numeral(w, 10)[j] = Digit((w \div P[n - j]) % 10)
      BY <2>1, <1>0, NumeralFacts
  <2>3. At(k + z + j - 1) = Numeral(w, 10)[j]
      OBVIOUS
  <2> DEFINE x == (w \div P[n - j]) % 10
  <2>4. x \in 0..9
      BY <2>2
  <2> HIDE DEF x, P
  <2>5. DigitValue(Digit(x)) = x
      BY <2>4, DigitFacts
  <2> QED
      BY <2>2, <2>3, <2>4, <2>5 DEF x
<1> HIDE DEF P, N
<1>5. 0 \in S
  <2>1. w \div P[n] = 0
    <3>1. P[n] \in Nat \ {0} /\ w \in 0..(P[n] - 1) /\ 0 * P[n] + w = w
        BY <1>1, <1>3
    <3>2. (0 * P[n] + w) \div P[n] = 0
        BY <3>1, DivisionUnique
    <3> QED
        BY <3>1, <3>2
  <2>2. N(z) = 0
    <3>1. CASE z = 0
        BY <3>1, <1>2
    <3>2. CASE z = 1
      <4>1. N(0 + 1) = 10 * N(0) + DigitValue(At(k + 0))
          BY <1>2
      <4>2. k + 0 = k /\ 0 + 1 = z
          BY <3>2
      <4>3. DigitValue(At(k)) = 0
          BY <3>2, DigitFacts
      <4> QED
          BY <4>1, <4>2, <4>3, <1>2
    <3> QED
        BY <3>1, <3>2
  <2>3. z + 0 = z /\ n - 0 = n
      OBVIOUS
  <2> QED
      BY <2>1, <2>2, <2>3
<1>6. ASSUME NEW j \in 1..n, j - 1 \in S
      PROVE  j \in S
  <2>1. /\ n - j \in Nat /\ (n - j) + 1 = n - (j - 1) /\ z + (j - 1) \in Nat
        /\ (z + (j - 1)) + 1 = z + j /\ k + (z + (j - 1)) = k + z + j - 1
      OBVIOUS
  <2>2. N(z + (j - 1)) = w \div P[n - (j - 1)]
      BY <1>6 DEF S
  <2>3. N(z + j) = 10 * N(z + (j - 1)) + DigitValue(At(k + (z + (j - 1))))
    <3>1. N((z + (j - 1)) + 1) = 10 * N(z + (j - 1)) + DigitValue(At(k + (z + (j - 1))))
        BY <2>1, <1>2
    <3> QED
        BY <3>1, <2>1
  <2>4. P[n - (j - 1)] = 10 * P[n - j] /\ P[n - j] \in Nat \ {0}
    <3>1. P[(n - j) + 1] = 10 * P[n - j] /\ P[n - j] \in Nat \ {0}
        BY <2>1, <1>1
    <3> QED
        BY <3>1, <2>1
  <2>5. w \div P[n - j] = 10 * (w \div (10 * P[n - j])) + ((w \div P[n - j]) % 10)
      BY <2>4, <1>0, DivisionTwice
  <2>6. DigitValue(At(k + (z + (j - 1)))) = (w \div P[n - j]) % 10
      BY <2>1, <1>4
  <2>7. N(z + j) = w \div P[n - j]
      BY <2>2, <2>3, <2>4, <2>5, <2>6
  <2> QED
      BY <2>7
<1>7. n \in S
  <2> HIDE DEF S
  <2> QED
      BY <1>5, <1>6, CountUp
<1>8. N(z + n) = w \div P[0]
  <2>1. n - n = 0 /\ n <= n
      OBVIOUS
  <2> QED
      BY <2>1, <1>7
<1>9. w \div 1 = w
    OBVIOUS
<1> QED
    BY <1>1, <1>8, <1>9 DEF N

\* What one turn of the loop reads behind the percent sign at i.
Flag(i) == lib = "kernel" /\ At(i + 1) = Digit(0)
From(i) == IF Flag(i) THEN i + 2 ELSE i + 1
Ells(b) == IF lib # "kernel" \/ At(b) # "l" THEN 0 ELSE IF At(b + 1) # "l" THEN 1 ELSE 2

LEMMA ReadsConversion ==
    ASSUME NEW d, IsConversion(d), lib \in {"kernel", "user"}, Offered(d), NEW i \in Nat \ {0},
           Len(fmt) \in Nat, i + Len(Written(d)) <= Len(fmt) + 1,
           \A j \in 1..Len(Written(d)) : At(i + j - 1) = Written(d)[j]
    PROVE  LET b == Behind(From(i))
           IN  /\ Flag(i) <=> lib = "kernel" /\ d.zero
               /\ NumberAt(From(i), b - From(i)) = d.width
               /\ b + Ells(b) + 1 = i + Len(Written(d))
               /\ At(b + Ells(b)) = d.conv
<1> DEFINE s == Written(d)
           z == Len(ZeroOf(d))
           n == Len(WidthOf(d))
           l == d.long
           q == i + 1 + z + n
<1>1. /\ s \in Seq(Characters) /\ z \in 0..1 /\ n \in Nat
      /\ z = 1 <=> d.zero
      /\ Len(s) = 1 + z + n + l + 1 /\ Len(s) \in Nat
      /\ s[1] = "%" /\ (z = 1 => s[2] = Digit(0))
      /\ \A j \in 1..n : s[1 + z + j] = Numeral(d.width, 10)[j]
      /\ n = IF d.width = 0 THEN 0 ELSE Places(d.width, 10)
      /\ \A j \in 1..l : s[1 + z + n + j] = "l"
      /\ s[1 + z + n + l + 1] = d.conv
    BY WrittenLayout DEF WrittenAs
<1>2. /\ d.conv \in {"s", "c", "x", "d", "u"} /\ d.zero \in BOOLEAN /\ d.width \in Nat /\ l \in 0..2
      /\ lib # "kernel" => l = 0
    BY DEF IsConversion, IsDirective, Offered
<1>3. \A j \in 1..Len(s) : At(i + j - 1) = s[j]
    OBVIOUS
<1>0. /\ z \in 0..1 /\ n \in Nat /\ l \in 0..2 /\ i \in Nat \ {0} /\ q = i + 1 + z + n
      /\ Len(s) \in Nat /\ Len(s) = 1 + z + n + l + 1 /\ Len(fmt) \in Nat
      /\ i + Len(s) <= Len(fmt) + 1
    BY <1>1, <1>2
<1> HIDE DEF s, z, n, l, q
<1>4. z = 1 => At(i + 1) = Digit(0)
  <2> SUFFICES ASSUME z = 1
               PROVE  At(i + 1) = Digit(0)
      OBVIOUS
  <2>1. 2 \in 1..Len(s) /\ i + 2 - 1 = i + 1
      BY <1>0
  <2>2. At(i + 2 - 1) = s[2]
      BY <2>1, <1>3
  <2> QED
      BY <2>1, <2>2, <1>1
<1>5. \A j \in 1..n : At(i + z + j) = Numeral(d.width, 10)[j]
  <2> SUFFICES ASSUME NEW j \in 1..n
               PROVE  At(i + z + j) = Numeral(d.width, 10)[j]
      OBVIOUS
  <2>1. 1 + z + j \in 1..Len(s) /\ i + (1 + z + j) - 1 = i + z + j
      BY <1>0
  <2>2. At(i + (1 + z + j) - 1) = s[1 + z + j]
      BY <2>1, <1>3
  <2> QED
      BY <2>1, <2>2, <1>1
<1>6. \A j \in 1..l : At(i + z + n + j) = "l"
  <2> SUFFICES ASSUME NEW j \in 1..l
               PROVE  At(i + z + n + j) = "l"
      OBVIOUS
  <2>1. 1 + z + n + j \in 1..Len(s) /\ i + (1 + z + n + j) - 1 = i + z + n + j
      BY <1>0
  <2>2. At(i + (1 + z + n + j) - 1) = s[1 + z + n + j]
      BY <2>1, <1>3
  <2> QED
      BY <2>1, <2>2, <1>1
<1>7. At(i + z + n + l + 1) = d.conv
  <2>1. 1 + z + n + l + 1 \in 1..Len(s) /\ i + (1 + z + n + l + 1) - 1 = i + z + n + l + 1
      BY <1>0
  <2>2. At(i + (1 + z + n + l + 1) - 1) = s[1 + z + n + l + 1]
      BY <2>1, <1>3
  <2> QED
      BY <2>1, <2>2, <1>1
<1>8. q \in Nat /\ q <= Len(fmt) /\ q + l + 1 = i + Len(s)
    BY <1>0
\* The letters behind the width are no digits.
<1>9. /\ At(q) \in {"l", d.conv} /\ ~IsDigit(At(q))
      /\ Ells(q) = l /\ At(q + l) = d.conv
  <2>1. d.conv \in {"%", "l", "s", "c", "x", "d", "u"} /\ d.conv # "l"
      BY <1>2
  <2>2. CASE l = 0
    <3>1. q = i + z + n + l + 1 /\ q + l = q
        BY <2>2, <1>0
    <3>2. At(q) = d.conv
        BY <3>1, <1>7
    <3> QED
        BY <2>1, <2>2, <3>1, <3>2, DigitFacts DEF Ells
  <2>3. CASE l = 1
    <3>1. q = i + z + n + 1 /\ q + l = i + z + n + l + 1 /\ q + 1 = q + l /\ 1 \in 1..l
        BY <2>3, <1>0
    <3>2. At(q) = "l" /\ At(q + 1) = d.conv
        BY <3>1, <1>6, <1>7
    <3>3. lib = "kernel"
        BY <2>3, <1>2
    <3> QED
        BY <2>1, <2>3, <3>1, <3>2, <3>3, DigitFacts DEF Ells
  <2>4. CASE l = 2
    <3>1. /\ q = i + z + n + 1 /\ q + 1 = i + z + n + 2 /\ q + l = i + z + n + l + 1
          /\ 1 \in 1..l /\ 2 \in 1..l
        BY <2>4, <1>0
    <3>2. At(q) = "l" /\ At(q + 1) = "l" /\ At(q + l) = d.conv
        BY <3>1, <1>6, <1>7
    <3>3. lib = "kernel"
        BY <2>4, <1>2
    <3> QED
        BY <2>1, <2>4, <3>2, <3>3, DigitFacts DEF Ells
  <2> QED
      BY <2>2, <2>3, <2>4, <1>2
<1>10. \A j \in 1..n : IsDigit(At(i + z + j))
  <2> SUFFICES ASSUME NEW j \in 1..n
               PROVE  IsDigit(At(i + z + j))
      OBVIOUS
  <2> DEFINE x == (d.width \div Power(10)[n - j]) % 10
  <2>1. n = Places(d.width, 10) /\ 10 \in Bases /\ d.width \in Nat
      BY <1>1, <1>2 DEF Bases
  <2>2. x \in 0..(10 - 1) /\ Numeral(d.width, 10)[j] = Digit(x)
      BY <2>1, NumeralFacts
  <2> HIDE DEF x
  <2>3. x \in 0..9
      BY <2>2
  <2> QED
      BY <2>2, <2>3, <1>5, DigitFacts
<1>11. Flag(i) <=> lib = "kernel" /\ d.zero
  <2>1. CASE d.zero
      BY <2>1, <1>1, <1>4 DEF Flag
  <2>2. CASE ~d.zero /\ n > 0
    <3>1. z = 0 /\ 1 \in 1..n /\ d.width \in Nat \ {0} /\ i + z + 1 = i + 1
      <4>1. z # 1 /\ d.width # 0
          BY <2>2, <1>1
      <4> QED
          BY <4>1, <2>2, <1>0, <1>2
    <3>2. PICK m \in 1..9 : Numeral(d.width, 10)[1] = Digit(m)
        BY <3>1, LeadingDigit
    <3>3. At(i + z + 1) = Digit(m) /\ Digit(m) # Digit(0)
        BY <3>1, <3>2, <1>5, DigitFacts
    <3>4. At(i + 1) # Digit(0)
        BY <3>1, <3>3
    <3> QED
        BY <3>4, <2>2 DEF Flag
  <2>3. CASE ~d.zero /\ n = 0
    <3>1. q = i + 1
      <4>1. z # 1
          BY <2>3, <1>1
      <4> QED
          BY <4>1, <2>3, <1>0
    <3>2. At(i + 1) # Digit(0)
        BY <3>1, <1>9, DigitFacts
    <3> QED
        BY <3>2, <2>3 DEF Flag
  <2> QED
      BY <2>1, <2>2, <2>3, <1>1, <1>2
\* The digits that are read as the width, a zero among them in the programs.
<1> DEFINE y == IF lib = "kernel" THEN 0 ELSE z
           k == i + 1 + z - y
<1>12. /\ y \in 0..1 /\ k \in Nat /\ From(i) = k /\ k + (y + n) = q /\ k + y = i + 1 + z
       /\ y = 1 => z = 1 /\ k = i + 1
  <2>1. z = 1 <=> d.zero
      BY <1>1
  <2>2. CASE lib = "kernel"
    <3>1. y = 0 /\ k = i + 1 + z
        BY <2>2, <1>0
    <3>2. From(i) = i + 1 + z
      <4>1. CASE d.zero
          BY <4>1, <2>1, <2>2, <1>0, <1>11 DEF From
      <4>2. CASE ~d.zero
        <5>1. z = 0
            BY <4>2, <2>1, <1>0
        <5> QED
            BY <5>1, <4>2, <2>2, <1>0, <1>11 DEF From
      <4> QED
          BY <4>1, <4>2
    <3> HIDE DEF y, k
    <3> QED
        BY <3>1, <3>2, <1>0
  <2>3. CASE lib # "kernel"
    <3>1. y = z /\ k = i + 1
        BY <2>3, <1>0
    <3>2. From(i) = i + 1
        BY <2>3, <1>11 DEF From
    <3> HIDE DEF y, k
    <3> QED
        BY <3>1, <3>2, <1>0
  <2> QED
      BY <2>2, <2>3
<1> HIDE DEF y, k
<1>13. Behind(k) = q
  <2>1. y + n \in Nat /\ k + (y + n) <= Len(fmt) + 1
      BY <1>0, <1>8, <1>12
  <2>2. \A m \in k..(k + (y + n) - 1) : IsDigit(At(m))
    <3> SUFFICES ASSUME NEW m \in k..(k + (y + n) - 1)
                 PROVE  IsDigit(At(m))
        OBVIOUS
    <3>1. CASE m < k + y
      <4>1. y = 1 /\ m = i + 1
          BY <3>1, <1>12
      <4> QED
          BY <4>1, <1>4, <1>12, DigitFacts
    <3>2. CASE ~(m < k + y)
      <4>1. m - (i + z) \in 1..n /\ i + z + (m - (i + z)) = m
          BY <3>2, <1>0, <1>12
      <4> QED
          BY <4>1, <1>10
    <3> QED
        BY <3>1, <3>2
  <2>3. ~IsDigit(At(k + (y + n)))
      BY <1>9, <1>12
  <2>4. Behind(k) = k + (y + n)
      BY <2>1, <2>2, <2>3, <1>12, BehindIs
  <2> QED
      BY <2>4, <1>12
<1>14. NumberAt(k, y + n) = d.width
  <2>1. \A j \in 1..n : At(k + y + j - 1) = Numeral(d.width, 10)[j]
    <3> SUFFICES ASSUME NEW j \in 1..n
                 PROVE  At(k + y + j - 1) = Numeral(d.width, 10)[j]
        OBVIOUS
    <3>1. k + y + j - 1 = i + z + j
        BY <1>0, <1>12
    <3> QED
        BY <3>1, <1>5
  <2>2. y = 1 => At(k) = Digit(0)
      BY <1>4, <1>12
  <2> QED
    <3>1. d.width \in Nat /\ n \in Nat /\ n = IF d.width = 0 THEN 0 ELSE Places(d.width, 10)
        BY <1>1, <1>2
    <3>2. k \in Nat /\ y \in 0..1
        BY <1>12
    <3>3. Spelt(k, y, d.width, n)
        BY <3>1, <3>2, <2>1, <2>2 DEF Spelt
    <3> QED
        BY <3>3, NumberIs
<1>15. q - k = y + n
    BY <1>0, <1>8, <1>12
<1> QED
    BY <1>8, <1>9, <1>11, <1>12, <1>13, <1>14, <1>15 DEF s

-----------------------------------------------------------------------------
(***************************************************************************)
(* How far the loop has come: between two directives, or inside a text.    *)
(***************************************************************************)
LEMMA WrittenType ==
    ASSUME NEW d, IsDirective(d)
    PROVE  Written(d) \in Seq(Characters) /\ Len(Written(d)) \in Nat \ {0}
<1>1. CASE d.conv = "text"
  <2>1. Written(d) = d.value /\ d.value \in Seq(Characters) /\ d.value # <<>>
      BY <1>1 DEF Written, IsDirective
  <2> DEFINE v == d.value
  <2>2. v \in Seq(Characters) /\ v # <<>>
      BY <2>1
  <2> HIDE DEF v
  <2>3. Len(v) \in Nat \ {0}
      BY <2>2, EmptySeq, LenProperties
  <2> QED
      BY <2>1, <2>3 DEF v
<1>2. CASE d.conv = "%"
  <2>1. Written(d) = <<"%", "%">> /\ "%" \in Characters
      BY <1>2, LetterFacts DEF Written
  <2> QED
      BY <2>1
<1>3. CASE d.conv \notin {"text", "%"}
  <2>1. IsConversion(d) /\ d.long \in 0..2
      BY <1>3 DEF IsConversion, IsDirective
  <2>2. WrittenAs(d, Written(d), Len(ZeroOf(d)), Len(WidthOf(d)))
      BY <2>1, WrittenLayout
  <2> DEFINE s == Written(d)
             z == Len(ZeroOf(d))
             n == Len(WidthOf(d))
  <2>3. s \in Seq(Characters) /\ Len(s) = 1 + z + n + d.long + 1 /\ z \in 0..1 /\ n \in Nat
      BY <2>2 DEF WrittenAs
  <2> HIDE DEF s, z, n
  <2>4. Len(s) \in Nat \ {0}
      BY <2>1, <2>3
  <2> QED
      BY <2>3, <2>4 DEF s
<1> QED
    BY <1>1, <1>2, <1>3

LEMMA MeantType ==
    ASSUME NEW d, IsDirective(d), Printable(d)
    PROVE  Meant(d) \in Seq(Characters)
<1>0. Digit(0) \in Characters /\ " " \in Characters /\ "%" \in Characters
  <2>1. Digit(0) \in Characters
      BY DigitFacts
  <2> QED
      BY <2>1, LetterFacts
<1>1. CASE d.conv \in {"text", "s"}
    BY <1>1 DEF Meant, IsDirective
<1>2. CASE d.conv = "c"
  <2>1. Meant(d) = <<d.value>> /\ d.value \in Characters
      BY <1>2 DEF Meant, IsDirective
  <2> QED
      BY <2>1, OneCharacter
<1>3. CASE d.conv = "%"
  <2>1. Meant(d) = <<"%">>
      BY <1>3 DEF Meant
  <2> QED
      BY <2>1, <1>0, OneCharacter
<1>4. CASE d.conv = "x"
  <2>1. d.value \in Nat /\ d.width \in Nat
      BY <1>4 DEF IsDirective
  <2> DEFINE w == IF d.width = 0 THEN HexWidth ELSE d.width
  <2>2. Meant(d) = Padded(Numeral(d.value, 16), w, Digit(0))
      BY <1>4 DEF Meant
  <2>3. w \in Nat /\ 16 \in Bases
      BY <2>1, UIntFacts DEF Bases
  <2> HIDE DEF w
  <2>4. Numeral(d.value, 16) \in Seq(Characters)
      BY <2>1, <2>3, NumeralFacts
  <2> QED
      BY <2>2, <2>3, <2>4, <1>0, PaddedFacts
<1>5. CASE d.conv \in {"d", "u"}
  <2>1. d.value \in Nat /\ d.width \in Nat
      BY <1>5 DEF IsDirective
  <2> DEFINE pad == IF d.zero \/ lib = "user" THEN Digit(0) ELSE " "
  <2>2. Meant(d) = Padded(Numeral(d.value, 10), d.width, pad)
      BY <1>5 DEF Meant
  <2>3. pad \in Characters /\ 10 \in Bases
      BY <1>0 DEF Bases
  <2> HIDE DEF pad
  <2>4. Numeral(d.value, 10) \in Seq(Characters)
      BY <2>1, <2>3, NumeralFacts
  <2> QED
      BY <2>1, <2>2, <2>3, <2>4, PaddedFacts
<1> QED
    BY <1>1, <1>2, <1>3, <1>4, <1>5 DEF IsDirective

-----------------------------------------------------------------------------
WrittenParts == [k \in DOMAIN input |-> Written(input[k])]
ArgumentParts == [k \in DOMAIN input |-> Argument(input[k])]
MeantParts == [k \in DOMAIN input |-> Meant(input[k])]
Values == {input[k].value : k \in DOMAIN input}
AllPrintable == \A k \in DOMAIN input : Printable(input[k])

\* The format, the arguments and the output up to the directive k.
FmtUpto == Upto(Characters, WrittenParts)
ArgsUpto == Upto(Values, ArgumentParts)
OutUpto == Upto(Characters, MeantParts)

FormatTyped ==
    /\ lib \in {"kernel", "user"} /\ input \in Inputs
    /\ \A k \in DOMAIN input : Offered(input[k])

\* Between two directives,
Between(k) ==
    index = Len(FmtUpto[k]) + 1 /\ taken = Len(ArgsUpto[k]) /\ out = OutUpto[k]

\* and inside one, which is plain text.
Inside(k, t) ==
    /\ input[k].conv = "text"
    /\ index = Len(FmtUpto[k - 1]) + t + 1
    /\ taken = Len(ArgsUpto[k - 1])
    /\ out = OutUpto[k - 1] \o SubSeq(input[k].value, 1, t)

Somewhere ==
    \/ \E k \in 0..Len(input) : Between(k)
    \/ \E k \in 1..Len(input) : \E t \in 1..(Len(input[k].value) - 1) : Inside(k, t)

FormatInv == FormatTyped /\ (AllPrintable => Somewhere)

LEMMA InputFacts ==
    ASSUME FormatTyped
    PROVE  /\ Len(input) \in Nat /\ DOMAIN input = 1..Len(input)
           /\ \A k \in 1..Len(input) : IsDirective(input[k]) /\ Offered(input[k])
<1>1. input \in Seq({input[k] : k \in DOMAIN input}) /\ \A k \in DOMAIN input : IsDirective(input[k])
    BY FormatAssumption DEF FormatTyped
<1> QED
    BY <1>1, LenProperties DEF FormatTyped

LEMMA PartsFacts ==
    ASSUME FormatTyped
    PROVE  /\ WrittenParts \in Seq(Seq(Characters)) /\ Len(WrittenParts) = Len(input)
           /\ ArgumentParts \in Seq(Seq(Values)) /\ Len(ArgumentParts) = Len(input)
           /\ AllPrintable => MeantParts \in Seq(Seq(Characters))
           /\ Len(MeantParts) = Len(input)
           /\ \A k \in 1..Len(input) : /\ WrittenParts[k] = Written(input[k])
                                       /\ ArgumentParts[k] = Argument(input[k])
                                       /\ MeantParts[k] = Meant(input[k])
           /\ fmt = FlattenSeq(WrittenParts) /\ args = FlattenSeq(ArgumentParts)
<1> DEFINE n == Len(input)
<1>1. n \in Nat /\ DOMAIN input = 1..n /\ \A k \in 1..n : IsDirective(input[k])
    BY InputFacts
<1> HIDE DEF n
<1>2. WrittenParts \in [1..n -> Seq(Characters)] /\ \A k \in 1..n : WrittenParts[k] = Written(input[k])
  <2>1. \A k \in 1..n : Written(input[k]) \in Seq(Characters)
      BY <1>1, WrittenType
  <2> QED
      BY <2>1, <1>1 DEF WrittenParts
<1>3. ArgumentParts \in [1..n -> Seq(Values)] /\ \A k \in 1..n : ArgumentParts[k] = Argument(input[k])
  <2>1. ASSUME NEW k \in 1..n
        PROVE  Argument(input[k]) \in Seq(Values)
    <3>1. input[k].value \in Values
        BY <1>1 DEF Values
    <3> DEFINE v == input[k].value
    <3> HIDE DEF v
    <3>2. <<v>> \in Seq(Values) /\ <<>> \in Seq(Values)
        BY <3>1 DEF v
    <3> QED
        BY <3>2 DEF Argument, v
  <2> QED
      BY <2>1, <1>1 DEF ArgumentParts
<1>4. MeantParts = [k \in 1..n |-> Meant(input[k])]
    BY <1>1 DEF MeantParts
<1>5. AllPrintable => MeantParts \in [1..n -> Seq(Characters)]
  <2>1. AllPrintable => \A k \in 1..n : Meant(input[k]) \in Seq(Characters)
      BY <1>1, MeantType DEF AllPrintable
  <2> QED
      BY <2>1, <1>4
<1>6. \A k \in 1..n : MeantParts[k] = Meant(input[k])
    BY <1>4
<1>7. /\ WrittenParts \in Seq(Seq(Characters)) /\ Len(WrittenParts) = n
      /\ ArgumentParts \in Seq(Seq(Values)) /\ Len(ArgumentParts) = n
  <2>1. WrittenParts \in Seq(Seq(Characters)) /\ ArgumentParts \in Seq(Seq(Values))
      BY <1>1, <1>2, <1>3, SeqDef
  <2> QED
      BY <2>1, <1>1, <1>2, <1>3, LenProperties
<1>8. AllPrintable => MeantParts \in Seq(Seq(Characters))
    BY <1>1, <1>5, SeqDef
<1>9. Len(MeantParts) = n
  <2> DEFINE f(k) == Meant(input[k])
  <2>1. MeantParts = [k \in 1..n |-> f(k)]
      BY <1>4
  <2> HIDE DEF f
  <2> QED
      BY <2>1, <1>1
<1> QED
    BY <1>2, <1>3, <1>6, <1>7, <1>8, <1>9 DEF n, fmt, args, WrittenParts, ArgumentParts

\* How the three go on at the directive k.
LEMMA DirectiveStep ==
    ASSUME FormatTyped, AllPrintable, NEW k \in 1..Len(input)
    PROVE  /\ Len(fmt) \in Nat /\ Len(FmtUpto[k - 1]) \in Nat
           /\ Len(FmtUpto[k]) = Len(FmtUpto[k - 1]) + Len(Written(input[k]))
           /\ Len(FmtUpto[k]) <= Len(fmt)
           /\ \A j \in 1..Len(Written(input[k])) :
                 At(Len(FmtUpto[k - 1]) + j) = Written(input[k])[j]
           /\ Len(ArgsUpto[k - 1]) \in Nat
           /\ Len(ArgsUpto[k]) = Len(ArgsUpto[k - 1]) + Len(Argument(input[k]))
           /\ \A j \in 1..Len(Argument(input[k])) :
                 args[Len(ArgsUpto[k - 1]) + j] = Argument(input[k])[j]
           /\ OutUpto[k] = OutUpto[k - 1] \o Meant(input[k])
           /\ OutUpto[k - 1] \in Seq(Characters)
<1>1. /\ WrittenParts \in Seq(Seq(Characters)) /\ Len(WrittenParts) = Len(input)
      /\ ArgumentParts \in Seq(Seq(Values)) /\ Len(ArgumentParts) = Len(input)
      /\ MeantParts \in Seq(Seq(Characters)) /\ Len(MeantParts) = Len(input)
      /\ WrittenParts[k] = Written(input[k])
      /\ ArgumentParts[k] = Argument(input[k])
      /\ MeantParts[k] = Meant(input[k])
      /\ fmt = FlattenSeq(WrittenParts) /\ args = FlattenSeq(ArgumentParts)
    BY PartsFacts
<1>2. /\ fmt \in Seq(Characters) /\ FmtUpto[k - 1] \in Seq(Characters)
      /\ Len(FmtUpto[k]) = Len(FmtUpto[k - 1]) + Len(Written(input[k]))
      /\ Len(FmtUpto[k]) <= Len(fmt)
      /\ Written(input[k]) \in Seq(Characters)
      /\ \A j \in 1..Len(Written(input[k])) : fmt[Len(FmtUpto[k - 1]) + j] = Written(input[k])[j]
  <2>1. k \in 1..Len(WrittenParts)
      BY <1>1
  <2>2. JoinedPart(Characters, WrittenParts, FmtUpto, fmt, k)
      BY <1>1, <2>1, FlattenAt DEF FmtUpto
  <2> QED
      BY <1>1, <2>2 DEF JoinedPart
<1>3. /\ ArgsUpto[k - 1] \in Seq(Values)
      /\ Len(ArgsUpto[k]) = Len(ArgsUpto[k - 1]) + Len(Argument(input[k]))
      /\ \A j \in 1..Len(Argument(input[k])) :
            args[Len(ArgsUpto[k - 1]) + j] = Argument(input[k])[j]
  <2>1. k \in 1..Len(ArgumentParts)
      BY <1>1
  <2>2. JoinedPart(Values, ArgumentParts, ArgsUpto, args, k)
      BY <1>1, <2>1, FlattenAt DEF ArgsUpto
  <2> QED
      BY <1>1, <2>2 DEF JoinedPart
<1>4. OutUpto[k] = OutUpto[k - 1] \o Meant(input[k]) /\ OutUpto[k - 1] \in Seq(Characters)
  <2>1. k \in 1..Len(MeantParts)
      BY <1>1
  <2>2. JoinedPart(Characters, MeantParts, OutUpto, FlattenSeq(MeantParts), k)
      BY <1>1, <2>1, FlattenAt DEF OutUpto
  <2> QED
      BY <1>1, <2>2 DEF JoinedPart
<1>5. Len(fmt) \in Nat /\ Len(FmtUpto[k - 1]) \in Nat /\ Len(ArgsUpto[k - 1]) \in Nat
      /\ Len(Written(input[k])) \in Nat
    BY <1>2, <1>3, LenProperties
<1>6. \A j \in 1..Len(Written(input[k])) : Len(FmtUpto[k - 1]) + j <= Len(fmt)
  <2> DEFINE a == Len(FmtUpto[k - 1])
             b == Len(Written(input[k]))
             c == Len(fmt)
  <2>1. a \in Nat /\ b \in Nat /\ c \in Nat /\ a + b <= c
      BY <1>2, <1>5
  <2> HIDE DEF a, b, c
  <2>2. \A j \in 1..b : a + j <= c
      BY <2>1
  <2> QED
      BY <2>2 DEF a, b, c
<1>7. \A j \in 1..Len(Written(input[k])) : At(Len(FmtUpto[k - 1]) + j) = Written(input[k])[j]
    BY <1>2, <1>6 DEF At
<1> QED
    BY <1>2, <1>3, <1>4, <1>5, <1>7

LEMMA FormatStart ==
    ASSUME FormatInit
    PROVE  FormatInv
<1>1. FormatTyped /\ index = 1 /\ taken = 0 /\ out = <<>>
    BY DEF FormatInit, FormatTyped
<1>2. ASSUME AllPrintable
      PROVE  Somewhere
  <2>1. Len(input) \in Nat
      BY <1>1, InputFacts
  <2>2. /\ WrittenParts \in Seq(Seq(Characters)) /\ ArgumentParts \in Seq(Seq(Values))
        /\ MeantParts \in Seq(Seq(Characters))
      BY <1>1, <1>2, PartsFacts
  <2>3. FmtUpto[0] = <<>> /\ ArgsUpto[0] = <<>> /\ OutUpto[0] = <<>>
      BY <2>2, FlattenPrefix DEF PrefixOf, FmtUpto, ArgsUpto, OutUpto
  <2>4. Between(0)
      BY <1>1, <2>3 DEF Between
  <2>5. 0 \in 0..Len(input)
      BY <2>1
  <2> QED
      BY <2>4, <2>5 DEF Somewhere
<1> QED
    BY <1>1, <1>2 DEF FormatInv

LEMMA FormatEnd ==
    ASSUME FormatInv
    PROVE  FormatExact
<1> SUFFICES ASSUME index > Len(fmt), AllPrintable
             PROVE  /\ out = FlattenSeq(MeantParts)
                    /\ taken = Len(args)
    BY DEF FormatExact, AllPrintable, MeantParts
<1>0. FormatTyped /\ Somewhere
    BY DEF FormatInv
<1>1. /\ Len(input) \in Nat /\ \A k \in 1..Len(input) : IsDirective(input[k])
    BY <1>0, InputFacts
<1>2. ASSUME NEW k \in 0..Len(input), Between(k)
      PROVE  out = FlattenSeq(MeantParts) /\ taken = Len(args)
  <2>1. CASE k = Len(input)
    <3>1. /\ WrittenParts \in Seq(Seq(Characters)) /\ ArgumentParts \in Seq(Seq(Values))
          /\ MeantParts \in Seq(Seq(Characters)) /\ args = FlattenSeq(ArgumentParts)
          /\ Len(ArgumentParts) = Len(input) /\ Len(MeantParts) = Len(input)
        BY <1>0, PartsFacts
    <3>2. /\ ArgsUpto[Len(input)] = FlattenSeq(ArgumentParts)
          /\ OutUpto[Len(input)] = FlattenSeq(MeantParts)
        BY <3>1, FlattenPrefix DEF PrefixOf, ArgsUpto, OutUpto
    <3> QED
        BY <2>1, <3>1, <3>2, <1>2 DEF Between
  <2>2. CASE k # Len(input)
    <3>1. k + 1 \in 1..Len(input) /\ (k + 1) - 1 = k
        BY <2>2, <1>1
    <3>2. /\ Len(fmt) \in Nat /\ Len(FmtUpto[(k + 1) - 1]) \in Nat
          /\ Len(FmtUpto[k + 1]) = Len(FmtUpto[(k + 1) - 1]) + Len(Written(input[k + 1]))
          /\ Len(FmtUpto[k + 1]) <= Len(fmt)
        BY <3>1, <1>0, DirectiveStep
    <3>3. Len(Written(input[k + 1])) \in Nat \ {0}
        BY <3>1, <1>1, WrittenType
    <3>4. index = Len(FmtUpto[(k + 1) - 1]) + 1
        BY <3>1, <1>2 DEF Between
    <3> DEFINE a == Len(FmtUpto[(k + 1) - 1])
               b == Len(Written(input[k + 1]))
               c == Len(fmt)
    <3>5. a \in Nat /\ b \in Nat \ {0} /\ c \in Nat /\ a + b <= c /\ index = a + 1 /\ index > c
        BY <3>2, <3>3, <3>4
    <3> HIDE DEF a, b, c
    <3>6. FALSE
        BY <3>5
    <3> QED
        BY <3>6
  <2> QED
      BY <2>1, <2>2
<1>3. ASSUME NEW k \in 1..Len(input), NEW t \in 1..(Len(input[k].value) - 1), Inside(k, t)
      PROVE  FALSE
  <2>1. /\ Len(fmt) \in Nat /\ Len(FmtUpto[k - 1]) \in Nat
        /\ Len(FmtUpto[k]) = Len(FmtUpto[k - 1]) + Len(Written(input[k]))
        /\ Len(FmtUpto[k]) <= Len(fmt)
      BY <1>0, DirectiveStep
  <2>2. Written(input[k]) = input[k].value /\ Len(Written(input[k])) \in Nat
    <3>1. Len(Written(input[k])) \in Nat \ {0}
        BY <1>1, WrittenType
    <3> QED
        BY <3>1, <1>3 DEF Inside, Written
  <2> DEFINE a == Len(FmtUpto[k - 1])
             b == Len(Written(input[k]))
             c == Len(FmtUpto[k])
  <2>3. /\ a \in Nat /\ b \in Nat /\ t \in 1..(b - 1) /\ c = a + b /\ index = a + t + 1
        /\ c <= Len(fmt)
      BY <2>1, <2>2, <1>3 DEF Inside
  <2> HIDE DEF a, b, c
  <2> QED
      BY <2>1, <2>3
<1> QED
    BY <1>0, <1>2, <1>3 DEF Somewhere

LEMMA WholeFormat ==
    ASSUME FormatTyped
    PROVE  FmtUpto[Len(input)] = fmt /\ fmt \in Seq(Characters)
<1>1. /\ WrittenParts \in Seq(Seq(Characters)) /\ Len(WrittenParts) = Len(input)
      /\ fmt = FlattenSeq(WrittenParts)
    BY PartsFacts
<1>2. PrefixOf(Characters, WrittenParts, FmtUpto)
    BY <1>1, FlattenPrefix DEF FmtUpto
<1>3. Len(input) \in 0..Len(input)
    BY InputFacts
<1> QED
    BY <1>1, <1>2, <1>3 DEF PrefixOf

\* A step changes neither the directives nor which library it is.
LEMMA DirectivesStay ==
    ASSUME UNCHANGED <<lib, input>>
    PROVE  /\ fmt' = fmt /\ args' = args
           /\ (FormatTyped <=> FormatTyped') /\ (AllPrintable <=> AllPrintable')
           /\ FmtUpto' = FmtUpto /\ ArgsUpto' = ArgsUpto /\ OutUpto' = OutUpto
<1>1. FormatTyped <=> FormatTyped'
    BY DEF FormatTyped, Offered
<1>2. AllPrintable <=> AllPrintable'
    BY DEF AllPrintable
<1>3. WrittenParts' = WrittenParts /\ ArgumentParts' = ArgumentParts /\ Values' = Values
    BY DEF WrittenParts, ArgumentParts, Values
<1>4. MeantParts' = MeantParts
    BY DEF MeantParts, Meant
<1>5. fmt' = fmt /\ args' = args
    BY DEF fmt, args
<1> QED
    BY <1>1, <1>2, <1>3, <1>4, <1>5 DEF FmtUpto, ArgsUpto, OutUpto

LEMMA LiteralMoves ==
    ASSUME FormatInv, Literal
    PROVE  FormatInv'
<1>1. UNCHANGED <<lib, input>> /\ taken' = taken /\ index' = index + 1
      /\ At(index) # "%" /\ out' = Append(out, At(index)) /\ index <= Len(fmt)
    BY DEF Literal
<1>2. /\ FormatTyped' /\ (AllPrintable <=> AllPrintable') /\ FormatTyped
      /\ FmtUpto' = FmtUpto /\ ArgsUpto' = ArgsUpto /\ OutUpto' = OutUpto
    BY <1>1, DirectivesStay DEF FormatInv
<1> SUFFICES ASSUME AllPrintable
             PROVE  Somewhere'
    BY <1>2 DEF FormatInv
<1>3. Somewhere
    BY DEF FormatInv
<1>4. /\ Len(input) \in Nat /\ \A k \in 1..Len(input) : IsDirective(input[k])
    BY <1>2, InputFacts
\* A turn at t places into the text k.
<1>5. ASSUME NEW k \in 1..Len(input), NEW t \in Nat, t < Len(input[k].value), input[k].conv = "text",
             index = Len(FmtUpto[k - 1]) + t + 1, taken = Len(ArgsUpto[k - 1]),
             out = OutUpto[k - 1] \o SubSeq(input[k].value, 1, t)
      PROVE  Somewhere'
  <2> DEFINE v == input[k].value
             o == OutUpto[k - 1]
             a == Len(FmtUpto[k - 1])
  <2>1. /\ Written(input[k]) = v /\ Meant(input[k]) = v /\ Argument(input[k]) = <<>>
        /\ v \in Seq(Characters) /\ Len(v) \in Nat
    <3>1. v \in Seq(Characters)
        BY <1>4, <1>5 DEF IsDirective
    <3> HIDE DEF v
    <3>2. Len(v) \in Nat
        BY <3>1, LenProperties
    <3> QED
        BY <1>5, <3>1, <3>2 DEF v, Written, Meant, Argument, TakesArgument
  <2>2. /\ a \in Nat /\ Len(FmtUpto[k]) = a + Len(v)
        /\ \A j \in 1..Len(v) : At(a + j) = v[j]
        /\ Len(ArgsUpto[k - 1]) \in Nat /\ Len(ArgsUpto[k]) = Len(ArgsUpto[k - 1]) + Len(<<>>)
        /\ OutUpto[k] = o \o v /\ o \in Seq(Characters)
    <3>1. /\ Len(FmtUpto[k - 1]) \in Nat
          /\ Len(FmtUpto[k]) = Len(FmtUpto[k - 1]) + Len(Written(input[k]))
          /\ \A j \in 1..Len(Written(input[k])) :
                At(Len(FmtUpto[k - 1]) + j) = Written(input[k])[j]
          /\ Len(ArgsUpto[k - 1]) \in Nat
          /\ Len(ArgsUpto[k]) = Len(ArgsUpto[k - 1]) + Len(Argument(input[k]))
          /\ OutUpto[k] = OutUpto[k - 1] \o Meant(input[k])
          /\ OutUpto[k - 1] \in Seq(Characters)
        BY <1>2, DirectiveStep
    <3> HIDE DEF v
    <3> QED
        BY <3>1, <2>1
  <2>3. index = a + t + 1 /\ out = o \o SubSeq(v, 1, t) /\ t < Len(v)
      BY <1>5
  <2> HIDE DEF v, o, a
  <2>4. t + 1 \in 1..Len(v) /\ At(index) = v[t + 1]
    <3>1. t + 1 \in 1..Len(v) /\ a + (t + 1) = index
        BY <2>1, <2>2, <2>3
    <3> QED
        BY <3>1, <2>2
  <2>5. out' = o \o SubSeq(v, 1, t + 1)
    <3>1. v[t + 1] \in Characters
        BY <2>1, <2>4, ElementOfSeq
    <3>2. Append(o \o SubSeq(v, 1, t), v[t + 1]) = o \o SubSeq(v, 1, t + 1)
      <4>1. o \in Seq(Characters) /\ v \in Seq(Characters) /\ t \in Nat /\ t < Len(v)
          BY <2>1, <2>2, <2>3
      <4> QED
          BY <4>1, TextGrows
    <3> QED
        BY <3>2, <2>3, <2>4, <1>1
  <2>6. CASE t + 1 = Len(v)
    <3>1. SubSeq(v, 1, t + 1) = v
        BY <2>6, <2>1
    <3>2. index' = Len(FmtUpto[k]) + 1 /\ taken' = Len(ArgsUpto[k]) /\ out' = OutUpto[k]
      <4>1. index' = Len(FmtUpto[k]) + 1
        <5> DEFINE b == Len(v)
        <5>1. /\ a \in Nat /\ b \in Nat /\ Len(FmtUpto[k]) = a + b /\ index = a + t + 1
              /\ t + 1 = b /\ index' = index + 1
            BY <2>1, <2>2, <2>3, <2>6, <1>1
        <5> HIDE DEF b
        <5> QED
            BY <5>1
      <4>2. taken' = Len(ArgsUpto[k])
          BY <2>2, <1>1, <1>5
      <4>3. out' = OutUpto[k]
          BY <3>1, <2>2, <2>5
      <4> QED
          BY <4>1, <4>2, <4>3
    <3>3. Between(k)'
        BY <3>2, <1>2 DEF Between
    <3>4. k \in 0..Len(input)
        BY <1>4
    <3> QED
        BY <3>3, <3>4, <1>1 DEF Somewhere
  <2>7. CASE t + 1 # Len(v)
    <3>1. t + 1 \in 1..(Len(v) - 1)
        BY <2>1, <2>3, <2>7
    <3>2. index' = a + (t + 1) + 1
        BY <2>2, <2>3, <1>1
    <3>3. Inside(k, t + 1)'
        BY <3>2, <2>5, <1>1, <1>2, <1>5 DEF Inside, v, o, a
    <3> QED
        BY <3>1, <3>3, <1>1 DEF Somewhere, v
  <2> QED
      BY <2>6, <2>7
<1>6. ASSUME NEW k \in 1..Len(input), NEW t \in 1..(Len(input[k].value) - 1), Inside(k, t)
      PROVE  Somewhere'
  <2>1. t \in Nat /\ t < Len(input[k].value)
    <3>1. Len(input[k].value) \in Nat
        BY <1>4, <1>6, LenProperties DEF Inside, IsDirective
    <3> QED
        BY <3>1
  <2> QED
      BY <2>1, <1>5, <1>6 DEF Inside
<1>7. ASSUME NEW k \in 0..Len(input), Between(k)
      PROVE  Somewhere'
  <2>1. k # Len(input)
    <3> SUFFICES ASSUME k = Len(input)
                 PROVE  FALSE
        OBVIOUS
    <3>2. FmtUpto[Len(input)] = fmt /\ fmt \in Seq(Characters)
        BY <1>2, WholeFormat
    <3>3. Len(fmt) \in Nat /\ index = Len(fmt) + 1
        BY <3>2, <1>7, LenProperties DEF Between
    <3> QED
        BY <3>3, <1>1
  <2> DEFINE m == k + 1
             d == input[m]
  <2>2. m \in 1..Len(input) /\ m - 1 = k
      BY <2>1, <1>4
  <2> HIDE DEF m
  <2>3. /\ Len(FmtUpto[m - 1]) \in Nat
        /\ \A j \in 1..Len(Written(d)) : At(Len(FmtUpto[m - 1]) + j) = Written(d)[j]
        /\ OutUpto[m - 1] \in Seq(Characters)
      BY <1>2, <2>2, DirectiveStep
  <2>4. Written(d) \in Seq(Characters) /\ Len(Written(d)) \in Nat \ {0} /\ IsDirective(d)
      BY <2>2, <1>4, WrittenType
  <2>5. At(index) = Written(d)[1]
    <3>1. 1 \in 1..Len(Written(d))
        BY <2>4
    <3> QED
        BY <3>1, <2>2, <2>3, <1>7 DEF Between
  <2>6. d.conv = "text"
    <3>1. CASE d.conv = "%"
      <4>1. Written(d)[1] = "%"
          BY <3>1 DEF Written
      <4> QED
          BY <4>1, <2>5, <1>1
    <3>2. CASE d.conv \notin {"text", "%"}
      <4>1. IsConversion(d)
          BY <3>2, <2>4 DEF IsConversion, IsDirective
      <4>2. Written(d)[1] = "%"
          BY <4>1, WrittenLayout DEF WrittenAs
      <4> QED
          BY <4>2, <2>5, <1>1
    <3> QED
        BY <3>1, <3>2
  <2>7. Written(d) = d.value
      BY <2>6 DEF Written
  <2>8. 0 < Len(d.value) /\ SubSeq(d.value, 1, 0) = <<>>
      BY <2>4, <2>7
  <2>9. OutUpto[m - 1] \o <<>> = OutUpto[m - 1]
      BY <2>3, ConcatEmptySeq
  <2>10. /\ index = Len(FmtUpto[m - 1]) + 0 + 1 /\ taken = Len(ArgsUpto[m - 1])
         /\ out = OutUpto[m - 1] \o SubSeq(d.value, 1, 0)
      BY <2>2, <2>3, <2>8, <2>9, <1>7 DEF Between
  <2> QED
      BY <2>2, <2>6, <2>8, <2>10, <1>5
<1> QED
    BY <1>3, <1>6, <1>7 DEF Somewhere

\* A turn that begins between two directives and takes the next one as it is
\* meant leads to the place behind it.
LEMMA TurnDone ==
    ASSUME FormatTyped, AllPrintable, UNCHANGED <<lib, input>>, NEW k \in 1..Len(input), Between(k - 1),
           index' = index + Len(Written(input[k])),
           taken' = taken + Len(Argument(input[k])),
           out' = out \o Meant(input[k])
    PROVE  Somewhere'
<1>1. FmtUpto' = FmtUpto /\ ArgsUpto' = ArgsUpto /\ OutUpto' = OutUpto
    BY DirectivesStay
<1>2. /\ Len(FmtUpto[k - 1]) \in Nat
      /\ Len(FmtUpto[k]) = Len(FmtUpto[k - 1]) + Len(Written(input[k]))
      /\ Len(ArgsUpto[k - 1]) \in Nat
      /\ Len(ArgsUpto[k]) = Len(ArgsUpto[k - 1]) + Len(Argument(input[k]))
      /\ OutUpto[k] = OutUpto[k - 1] \o Meant(input[k])
    BY DirectiveStep
<1>3. index = Len(FmtUpto[k - 1]) + 1 /\ taken = Len(ArgsUpto[k - 1]) /\ out = OutUpto[k - 1]
    BY DEF Between
<1>4. Len(Written(input[k])) \in Nat
    BY InputFacts, WrittenType
<1>5. index' = Len(FmtUpto[k]) + 1
  <2> DEFINE a == Len(FmtUpto[k - 1])
             b == Len(Written(input[k]))
             c == Len(FmtUpto[k])
  <2>1. a \in Nat /\ b \in Nat /\ index = a + 1 /\ index' = index + b /\ c = a + b
      BY <1>2, <1>3, <1>4
  <2> HIDE DEF a, b, c
  <2>2. (a + 1) + b = (a + b) + 1
      BY <2>1
  <2>3. index' = (a + 1) + b
      BY <2>1
  <2>4. index' = c + 1
      BY <2>1, <2>2, <2>3
  <2> QED
      BY <2>4 DEF c
<1>6. Between(k)'
    BY <1>1, <1>2, <1>3, <1>5 DEF Between
<1>7. k \in 0..Len(input)
    BY InputFacts
<1> QED
    BY <1>6, <1>7 DEF Somewhere

\* A conversion prints its argument.
LEMMA ConversionPrints ==
    ASSUME FormatTyped, AllPrintable, Conversion, NEW k \in 1..Len(input), Between(k - 1),
           IsConversion(input[k])
    PROVE  Somewhere'
<1> DEFINE d == input[k]
           b == Behind(From(index))
           width == NumberAt(From(index), b - From(index))
           c == At(b + Ells(b))
           pad == IF lib = "kernel" /\ ~Flag(index) THEN " " ELSE Digit(0)
           value == args[taken + 1]
<1>1. /\ index' = b + Ells(b) + 1
      /\ \/ c = "s" /\ out' = out \o value /\ taken' = taken + 1
         \/ c = "c" /\ out' = Append(out, value) /\ taken' = taken + 1
         \/ c = "x" /\ out' = out \o print_hex(value, width) /\ taken' = taken + 1
         \/ /\ c = "d" \/ (c = "u" /\ lib = "kernel")
            /\ out' = out \o print_dec(value, width, pad) /\ taken' = taken + 1
         \/ /\ c \notin {"s", "c", "x", "d"} /\ ~(c = "u" /\ lib = "kernel")
            /\ out' = Append(out, c) /\ UNCHANGED taken
      /\ UNCHANGED <<lib, input>>
    BY DEF Conversion, Flag, From, Ells
<1>2. /\ IsDirective(d) /\ Offered(d) /\ Printable(d) /\ lib \in {"kernel", "user"}
      /\ DOMAIN input = 1..Len(input)
    BY InputFacts DEF AllPrintable, FormatTyped
<1>3. /\ Len(fmt) \in Nat /\ Len(FmtUpto[k - 1]) \in Nat
      /\ Len(FmtUpto[k]) = Len(FmtUpto[k - 1]) + Len(Written(d))
      /\ Len(FmtUpto[k]) <= Len(fmt)
      /\ \A j \in 1..Len(Written(d)) : At(Len(FmtUpto[k - 1]) + j) = Written(d)[j]
      /\ Len(ArgsUpto[k - 1]) \in Nat
      /\ \A j \in 1..Len(Argument(d)) : args[Len(ArgsUpto[k - 1]) + j] = Argument(d)[j]
      /\ OutUpto[k - 1] \in Seq(Characters)
    BY DirectiveStep
<1>4. index = Len(FmtUpto[k - 1]) + 1 /\ taken = Len(ArgsUpto[k - 1]) /\ out = OutUpto[k - 1]
    BY DEF Between
<1>5. Written(d) \in Seq(Characters) /\ Len(Written(d)) \in Nat \ {0}
    BY <1>2, WrittenType
<1> HIDE DEF d
<1>6. /\ index \in Nat \ {0} /\ index + Len(Written(d)) <= Len(fmt) + 1
      /\ \A j \in 1..Len(Written(d)) : At(index + j - 1) = Written(d)[j]
  <2> DEFINE a == Len(FmtUpto[k - 1])
             w == Len(Written(d))
             f == Len(fmt)
  <2>1. a \in Nat /\ w \in Nat \ {0} /\ f \in Nat /\ a + w <= f /\ index = a + 1
      BY <1>3, <1>4, <1>5
  <2>2. \A j \in 1..w : At(a + j) = Written(d)[j]
      BY <1>3
  <2> HIDE DEF a, w, f
  <2>3. \A j \in 1..w : index + j - 1 = a + j
      BY <2>1
  <2>4. index \in Nat \ {0} /\ index + w <= f + 1
      BY <2>1
  <2> QED
      BY <2>2, <2>3, <2>4 DEF w, f
<1>7. /\ Flag(index) <=> lib = "kernel" /\ d.zero
      /\ width = d.width /\ b + Ells(b) + 1 = index + Len(Written(d)) /\ c = d.conv
  <2>1. IsConversion(d)
      BY DEF d
  <2> QED
      BY <2>1, <1>2, <1>3, <1>6, ReadsConversion
<1>8. Argument(d) = <<d.value>> /\ value = d.value
  <2>1. Argument(d) = <<d.value>>
      BY DEF d, IsConversion, Argument, TakesArgument
  <2>2. Len(Argument(d)) = 1 /\ Argument(d)[1] = d.value
      BY <2>1
  <2>3. args[Len(ArgsUpto[k - 1]) + 1] = Argument(d)[1]
      BY <2>2, <1>3
  <2> QED
      BY <2>1, <2>2, <2>3, <1>4
<1> HIDE DEF b, width, c, value, pad
<1>9. index' = index + Len(Written(d))
    BY <1>1, <1>7
<1>10. Len(Argument(d)) = 1 /\ d.conv \in {"s", "c", "x", "d", "u"} /\ (d.conv = "u" => lib = "kernel")
    BY <1>2, <1>8 DEF d, IsConversion, Offered
<1>11. taken' = taken + Len(Argument(d)) /\ out' = out \o Meant(d)
  <2>1. CASE d.conv = "s"
    <3>1. c = "s" /\ Meant(d) = d.value
        BY <2>1, <1>7 DEF Meant
    <3>2. out' = out \o value /\ taken' = taken + 1
        BY <3>1, <1>1
    <3> QED
        BY <3>1, <3>2, <1>8, <1>10
  <2>2. CASE d.conv = "c"
    <3>1. c = "c" /\ Meant(d) = <<d.value>> /\ d.value \in Characters
        BY <2>2, <1>2, <1>7 DEF Meant, IsDirective
    <3>2. out' = Append(out, value) /\ taken' = taken + 1
        BY <3>1, <1>1
    <3>3. Append(out, value) = out \o <<value>>
        BY <3>1, <1>3, <1>4, <1>8, AppendIsConcat
    <3> QED
        BY <3>1, <3>2, <3>3, <1>8, <1>10
  <2>3. CASE d.conv = "x"
    <3>1. c = "x"
        BY <2>3, <1>7
    <3>2. out' = out \o print_hex(value, width) /\ taken' = taken + 1
        BY <3>1, <1>1
    <3>3. d.value \in Nat /\ d.value < UInt /\ d.width \in Nat
        BY <2>3, <1>2 DEF IsDirective, Printable
    <3>4. print_hex(d.value, d.width) =
              Padded(Numeral(d.value, 16), IF d.width = 0 THEN HexWidth ELSE d.width, Digit(0))
        BY <3>3, PrintHexadecimal
    <3>5. Meant(d) = print_hex(d.value, d.width)
        BY <2>3, <3>4 DEF Meant
    <3> QED
        BY <3>2, <3>5, <1>7, <1>8, <1>10
  <2>4. CASE d.conv \in {"d", "u"}
    <3>1. c = "d" \/ (c = "u" /\ lib = "kernel")
        BY <2>4, <1>7, <1>10
    <3>2. out' = out \o print_dec(value, width, pad) /\ taken' = taken + 1
        BY <3>1, <1>1
    <3>3. d.value \in Nat /\ d.value <= DecLimit /\ d.width \in Nat
        BY <2>4, <1>2 DEF IsDirective, Printable
    <3>4. pad \in Characters /\ pad = IF d.zero \/ lib = "user" THEN Digit(0) ELSE " "
      <4>1. Digit(0) \in Characters
          BY DigitFacts
      <4>2. " " \in Characters
          BY LetterFacts
      <4> QED
          BY <4>1, <4>2, <1>2, <1>7 DEF pad
    <3>5. print_dec(d.value, d.width, pad) = Padded(Numeral(d.value, 10), d.width, pad)
        BY <3>3, <3>4, PrintDecimal
    <3>6. Meant(d) = print_dec(d.value, d.width, pad)
        BY <2>4, <3>4, <3>5 DEF Meant
    <3> QED
        BY <3>2, <3>6, <1>7, <1>8, <1>10
  <2> QED
      BY <2>1, <2>2, <2>3, <2>4, <1>10
<1> QED
    BY <1>1, <1>9, <1>11, TurnDone DEF d

\* Two percent signs print one.
LEMMA PercentPrints ==
    ASSUME FormatTyped, AllPrintable, Conversion, NEW k \in 1..Len(input), Between(k - 1),
           input[k].conv = "%"
    PROVE  Somewhere'
<1> DEFINE d == input[k]
           b == Behind(From(index))
           c == At(b + Ells(b))
<1>1. /\ index' = b + Ells(b) + 1 /\ UNCHANGED <<lib, input>>
      /\ c = "%" => out' = Append(out, "%") /\ UNCHANGED taken
  <2> DEFINE width == NumberAt(From(index), b - From(index))
             pad == IF lib = "kernel" /\ ~Flag(index) THEN " " ELSE Digit(0)
             value == args[taken + 1]
  <2>1. /\ index' = b + Ells(b) + 1
        /\ \/ c = "s" /\ out' = out \o value /\ taken' = taken + 1
           \/ c = "c" /\ out' = Append(out, value) /\ taken' = taken + 1
           \/ c = "x" /\ out' = out \o print_hex(value, width) /\ taken' = taken + 1
           \/ /\ c = "d" \/ (c = "u" /\ lib = "kernel")
              /\ out' = out \o print_dec(value, width, pad) /\ taken' = taken + 1
           \/ /\ c \notin {"s", "c", "x", "d"} /\ ~(c = "u" /\ lib = "kernel")
              /\ out' = Append(out, c) /\ UNCHANGED taken
        /\ UNCHANGED <<lib, input>>
      BY DEF Conversion, Flag, From, Ells
  <2> HIDE DEF b, c, width, pad, value
  <2> QED
      BY <2>1
<1>2. /\ Written(d) = <<"%", "%">> /\ Meant(d) = <<"%">> /\ Argument(d) = <<>>
    BY DEF Written, Meant, Argument, TakesArgument
<1>3. /\ Len(fmt) \in Nat /\ Len(FmtUpto[k - 1]) \in Nat
      /\ Len(FmtUpto[k]) = Len(FmtUpto[k - 1]) + Len(Written(d))
      /\ Len(FmtUpto[k]) <= Len(fmt)
      /\ \A j \in 1..Len(Written(d)) : At(Len(FmtUpto[k - 1]) + j) = Written(d)[j]
      /\ Len(ArgsUpto[k - 1]) \in Nat
      /\ OutUpto[k - 1] \in Seq(Characters)
    BY DirectiveStep
<1>4. index = Len(FmtUpto[k - 1]) + 1 /\ taken = Len(ArgsUpto[k - 1]) /\ out = OutUpto[k - 1]
    BY DEF Between
<1>5. Len(Written(d)) = 2 /\ Written(d)[2] = "%" /\ Len(Argument(d)) = 0
    BY <1>2
<1>6. index \in Nat /\ index + 1 <= Len(fmt) /\ At(index + 1) = "%"
  <2>1. Len(FmtUpto[k - 1]) + 2 <= Len(fmt) /\ At(Len(FmtUpto[k - 1]) + 2) = "%"
      BY <1>3, <1>5
  <2>2. index + 1 = Len(FmtUpto[k - 1]) + 2 /\ index \in Nat
      BY <1>3, <1>4
  <2> QED
      BY <2>1, <2>2
<1>7. ~IsDigit("%") /\ Digit(0) # "%"
    BY DigitFacts
<1>8. From(index) = index + 1
    BY <1>6, <1>7 DEF From, Flag
<1>9. Behind(index + 1) = index + 1
  <2>1. /\ index + 1 \in Nat /\ (index + 1) + 0 = index + 1 /\ (index + 1) + 0 <= Len(fmt) + 1
        /\ \A m \in (index + 1)..((index + 1) + 0 - 1) : IsDigit(At(m))
      BY <1>3, <1>6
  <2> DEFINE q == index + 1
  <2>2. /\ q \in Nat /\ Len(fmt) \in Nat /\ q + 0 <= Len(fmt) + 1 /\ q + 0 = q
        /\ \A m \in q..(q + 0 - 1) : IsDigit(At(m))
        /\ ~IsDigit(At(q))
      BY <2>1, <1>3, <1>6, <1>7
  <2> HIDE DEF q
  <2>3. ~IsDigit(At(q + 0))
      BY <2>2
  <2>4. Behind(q) = q + 0
      BY <2>2, <2>3, BehindIs
  <2> QED
      BY <2>2, <2>4 DEF q
<1>10. b = index + 1 /\ Ells(b) = 0 /\ c = "%" /\ index' = index + 2
  <2>1. b = index + 1
      BY <1>6, <1>8, <1>9
  <2> HIDE DEF b
  <2>2. Ells(b) = 0
      BY <2>1, <1>6 DEF Ells
  <2> QED
      BY <2>1, <2>2, <1>1, <1>6
<1> HIDE DEF b, c
<1>11. out' = out \o Meant(d)
  <2>1. out' = Append(out, "%")
      BY <1>1, <1>10
  <2>2. out \in Seq(Characters) /\ "%" \in Characters
      BY <1>3, <1>4, LetterFacts
  <2> QED
      BY <2>1, <2>2, <1>2, AppendIsConcat
<1>12. taken' = taken + Len(Argument(d)) /\ index' = index + Len(Written(d))
    BY <1>1, <1>3, <1>4, <1>5, <1>10
<1> QED
    BY <1>1, <1>11, <1>12, TurnDone

LEMMA ConversionMoves ==
    ASSUME FormatInv, Conversion
    PROVE  FormatInv'
<1>1. UNCHANGED <<lib, input>> /\ At(index) = "%" /\ index <= Len(fmt)
    BY DEF Conversion
<1>2. FormatTyped' /\ (AllPrintable <=> AllPrintable') /\ FormatTyped
    BY <1>1, DirectivesStay DEF FormatInv
<1> SUFFICES ASSUME AllPrintable
             PROVE  Somewhere'
    BY <1>2 DEF FormatInv
<1>3. /\ Len(input) \in Nat /\ \A k \in 1..Len(input) : IsDirective(input[k])
    BY <1>2, InputFacts
\* No text has a percent sign.
<1>4. ASSUME NEW k \in 1..Len(input), NEW t \in Nat, t < Len(input[k].value), input[k].conv = "text",
             index = Len(FmtUpto[k - 1]) + t + 1
      PROVE  FALSE
  <2> DEFINE v == input[k].value
  <2>1. /\ Written(input[k]) = v /\ v \in Seq(Characters) /\ \A j \in DOMAIN v : v[j] # "%"
      BY <1>3, <1>4 DEF Written, IsDirective
  <2>2. /\ Len(FmtUpto[k - 1]) \in Nat
        /\ \A j \in 1..Len(Written(input[k])) : At(Len(FmtUpto[k - 1]) + j) = Written(input[k])[j]
      BY <1>2, DirectiveStep
  <2>3. t < Len(v)
      BY <1>4
  <2> HIDE DEF v
  <2>4. DOMAIN v = 1..Len(v) /\ t + 1 \in 1..Len(v) /\ Len(FmtUpto[k - 1]) + (t + 1) = index
    <3>1. Len(v) \in Nat /\ DOMAIN v = 1..Len(v)
        BY <2>1, LenProperties
    <3> DEFINE a == Len(FmtUpto[k - 1])
               c == Len(v)
    <3>2. a \in Nat /\ c \in Nat /\ t < c /\ index = a + t + 1
        BY <2>2, <2>3, <3>1, <1>4
    <3> HIDE DEF a, c
    <3>3. t + 1 \in 1..c /\ a + (t + 1) = index
        BY <3>2
    <3> QED
        BY <3>1, <3>3 DEF a, c
  <2>5. At(Len(FmtUpto[k - 1]) + (t + 1)) = v[t + 1]
      BY <2>1, <2>2, <2>4
  <2> QED
      BY <2>1, <2>4, <2>5, <1>1
<1>5. ASSUME NEW k \in 1..Len(input), NEW t \in 1..(Len(input[k].value) - 1), Inside(k, t)
      PROVE  FALSE
  <2>1. t \in Nat /\ t < Len(input[k].value)
    <3>1. Len(input[k].value) \in Nat
        BY <1>3, <1>5, LenProperties DEF Inside, IsDirective
    <3> QED
        BY <3>1
  <2> QED
      BY <2>1, <1>4, <1>5 DEF Inside
<1>6. ASSUME NEW k \in 0..Len(input), Between(k)
      PROVE  Somewhere'
  <2>1. k # Len(input)
    <3> SUFFICES ASSUME k = Len(input)
                 PROVE  FALSE
        OBVIOUS
    <3>1. FmtUpto[Len(input)] = fmt /\ fmt \in Seq(Characters)
        BY <1>2, WholeFormat
    <3>2. Len(fmt) \in Nat /\ index = Len(fmt) + 1
        BY <3>1, <1>6, LenProperties DEF Between
    <3> QED
        BY <3>2, <1>1
  <2>2. k + 1 \in 1..Len(input) /\ (k + 1) - 1 = k
      BY <2>1, <1>3
  <2> DEFINE m == k + 1
  <2> HIDE DEF m
  <2>3. m \in 1..Len(input) /\ Between(m - 1) /\ IsDirective(input[m])
      BY <2>2, <1>3, <1>6 DEF m
  <2>4. CASE input[m].conv = "text"
    <3>1. input[m].value # <<>> /\ input[m].value \in Seq(Characters)
        BY <2>3, <2>4 DEF IsDirective
    <3> DEFINE v == input[m].value
    <3>2. v # <<>> /\ v \in Seq(Characters)
        BY <3>1
    <3> HIDE DEF v
    <3>3. 0 < Len(v)
        BY <3>2, EmptySeq, LenProperties
    <3>4. index = Len(FmtUpto[m - 1]) + 0 + 1
      <4>1. Len(FmtUpto[m - 1]) \in Nat
          BY <2>3, <1>2, DirectiveStep
      <4> QED
          BY <4>1, <2>3 DEF Between
    <3> QED
        BY <2>3, <2>4, <3>3, <3>4, <1>4 DEF v
  <2>5. CASE input[m].conv = "%"
      BY <2>3, <2>5, <1>2, PercentPrints
  <2>6. CASE input[m].conv \notin {"text", "%"}
    <3>1. IsConversion(input[m])
        BY <2>3, <2>6 DEF IsConversion, IsDirective
    <3> QED
        BY <3>1, <2>3, <1>2, ConversionPrints
  <2> QED
      BY <2>4, <2>5, <2>6
<1>7. Somewhere
    BY DEF FormatInv
<1> QED
    BY <1>5, <1>6, <1>7 DEF Somewhere

(***************************************************************************)
(* Whatever directives stand next to each other, the formatter prints what *)
(* each of them means and takes its own argument for it, in the kernel and *)
(* in the programs, for numbers it can count the digits of.                *)
(***************************************************************************)
THEOREM PrintsWhatIsMeant == FormatSpec => []FormatExact
<1>1. FormatInit => FormatInv
    BY FormatStart
<1>2. FormatInv /\ [FormatNext]_formatVars => FormatInv'
  <2> SUFFICES ASSUME FormatInv, [FormatNext]_formatVars
               PROVE  FormatInv'
      OBVIOUS
  <2>1. CASE Literal
      BY <2>1, LiteralMoves
  <2>2. CASE Conversion
      BY <2>2, ConversionMoves
  <2>3. CASE UNCHANGED formatVars
    <3>1. UNCHANGED <<lib, input>> /\ index' = index /\ taken' = taken /\ out' = out
        BY <2>3 DEF formatVars
    <3>2. /\ (FormatTyped <=> FormatTyped') /\ (AllPrintable <=> AllPrintable')
          /\ FmtUpto' = FmtUpto /\ ArgsUpto' = ArgsUpto /\ OutUpto' = OutUpto
        BY <3>1, DirectivesStay
    <3>3. Somewhere => Somewhere'
        BY <3>1, <3>2 DEF Somewhere, Between, Inside
    <3> QED
        BY <3>2, <3>3 DEF FormatInv
  <2> QED
      BY <2>1, <2>2, <2>3 DEF FormatNext
<1>3. FormatInv => FormatExact
    BY FormatEnd
<1> QED
    BY <1>1, <1>2, <1>3, PTL DEF FormatSpec
=============================================================================
