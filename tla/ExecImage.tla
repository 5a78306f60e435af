------------------------------ MODULE ExecImage ------------------------------
(***************************************************************************)
(* From a file to a program image: elf_validate and elf_load of            *)
(* core/tasks/exec.c, and the arguments task_setup_user_stack puts on the  *)
(* top page of the stack.  The fields of the program headers are unsigned  *)
(* words that may hold anything and wrap around at Word; frames are the    *)
(* subject of AddressSpace and never run out here.                         *)
(***************************************************************************)
EXTENDS Integers, Sequences, FiniteSetsExt

CONSTANTS
    Word,           \* 2^64
    PageSize,
    MinAddr,        \* USER_MIN_ADDR
    Limit,          \* USER_IMAGE_LIMIT
    MaxSegment,     \* EXEC_MAX_SEGMENT
    FileSize,
    Files,          \* [segs, entry, args]: a file and the arguments it gets
    StackPage,      \* PAGE_SIZE again, for the stack alone
    PointerSize,
    StackAlign      \* 16

ASSUME ExecImageAssumption ==
    /\ {Word, PageSize, MinAddr, Limit, MaxSegment, FileSize, StackAlign} \subseteq Nat \ {0}
    /\ {StackPage, PointerSize} \subseteq Nat
    /\ Limit + PageSize <= Word /\ FileSize < Word
    /\ Limit % PageSize = 0 /\ MinAddr % PageSize = 0
    /\ \A f \in Files :
        /\ f.segs \in Seq([offset : 0..(Word - 1), filesz : 0..(Word - 1), vaddr : 0..(Word - 1),
                          memsz : 0..(Word - 1), exec : BOOLEAN])
        /\ f.entry \in 0..(Word - 1) /\ f.args \in Seq(Nat)

VARIABLES
    file,           \* the input
    phase,          \* "load", "args", "done" or "refused"
    seg, va,        \* the two loops of elf_load: segment and page address
    mapped,         \* the pages mapped, by address
    content,        \* byte address |-> offset in the file, where one was copied
    arg, offset,    \* the loop over the arguments, and what is left of the page
    strings,        \* argument |-> [at, len] in the page
    vector          \* where argc and argv begin

execVars == <<file, phase, seg, va, mapped, content, arg, offset, strings, vector>>

\* Unsigned arithmetic.
Plus(a, b) == (a + b) % Word
Minus(a, b) == (a - b) % Word

PageOf(a) == (a \div PageSize) * PageSize

segs == file.segs

-----------------------------------------------------------------------------
\* (fault: the end in the file is a sum, which may wrap around)
SegmentOKByEnd(s) ==
    /\ s.filesz <= s.memsz /\ s.memsz <= MaxSegment
    /\ Plus(s.offset, s.filesz) <= FileSize
    /\ s.vaddr >= MinAddr /\ s.vaddr < Limit
    /\ s.memsz <= Minus(Limit, s.vaddr)

\* The checks of elf_validate on one loadable segment.
SegmentOK(s) ==
    /\ s.filesz <= s.memsz /\ s.memsz <= MaxSegment
    /\ s.offset <= FileSize /\ s.filesz <= Minus(FileSize, s.offset)
    /\ s.vaddr >= MinAddr /\ s.vaddr < Limit
    /\ s.memsz <= Minus(Limit, s.vaddr)

Loadable(ss) == {i \in DOMAIN ss : ss[i].memsz # 0}

Valid(ss, entry) ==
    /\ entry >= MinAddr /\ entry < Limit
    /\ \A i \in Loadable(ss) : SegmentOK(ss[i])
    /\ \E i \in Loadable(ss) :
        ss[i].exec /\ entry >= ss[i].vaddr /\ entry < Plus(ss[i].vaddr, ss[i].memsz)

NextSegment(i) == LET rest == {j \in Loadable(segs) : j > i}
                  IN  IF rest = {} THEN 0 ELSE Min(rest)

ExecInit ==
    /\ file \in Files
    /\ phase = IF Valid(segs, file.entry) THEN "load" ELSE "refused"
    /\ seg = NextSegment(0)
    /\ va = IF seg = 0 THEN 0 ELSE PageOf(segs[seg].vaddr)
    /\ mapped = {}
    /\ content = [b \in {} |-> 0]
    /\ arg = Len(file.args)
    /\ offset = StackPage
    /\ strings = [i \in {} |-> 0]
    /\ vector = 0

-----------------------------------------------------------------------------
Bigger(a, b) == IF a > b THEN a ELSE b
Smaller(a, b) == IF a < b THEN a ELSE b

SegEnd(s) == Plus(s.vaddr, s.memsz)

\* The first address behind the pages of the segment.
LastPage(s) == PageOf(Plus(SegEnd(s), PageSize - 1))

\* (fault: a page that is there already is mapped afresh)
CopyToFresh(s) ==
    LET lo == Bigger(va, s.vaddr)
        hi == Smaller(Plus(va, PageSize), Plus(s.vaddr, s.filesz))
    IN  content' = [b \in {c \in DOMAIN content : PageOf(c) # va} \cup lo..(hi - 1) |->
                        IF b \in lo..(hi - 1) THEN Plus(s.offset, b - s.vaddr) ELSE content[b]]

\* The part of the segment's file bytes that falls into this page.
Copy(s) ==
    LET lo == Bigger(va, s.vaddr)
        hi == Smaller(Plus(va, PageSize), Plus(s.vaddr, s.filesz))
    IN  content' = [b \in DOMAIN content \cup lo..(hi - 1) |->
                        IF b \in lo..(hi - 1) THEN Plus(s.offset, b - s.vaddr) ELSE content[b]]

\* One page of one segment: a new zeroed frame, or the one it has.
LoadPage ==
    /\ phase = "load" /\ seg # 0 /\ va < LastPage(segs[seg])
    /\ mapped' = mapped \cup {va}
    /\ Copy(segs[seg])
    /\ va' = Plus(va, PageSize)
    /\ UNCHANGED <<file, phase, seg, arg, offset, strings, vector>>

LoadSegment ==
    /\ phase = "load" /\ seg # 0 /\ va >= LastPage(segs[seg])
    /\ seg' = NextSegment(seg)
    /\ va' = IF seg' = 0 THEN 0 ELSE PageOf(segs[seg'].vaddr)
    /\ UNCHANGED <<file, phase, mapped, content, arg, offset, strings, vector>>

LoadDone ==
    /\ phase = "load" /\ seg = 0
    /\ phase' = "args"
    /\ UNCHANGED <<file, seg, va, mapped, content, arg, offset, strings, vector>>

\* mm.brk_start: the highest end of a segment, rounded up.
ImageBreak == PageOf(Plus(Max({0} \cup {SegEnd(segs[i]) : i \in Loadable(segs)}), PageSize - 1))

-----------------------------------------------------------------------------
(***************************************************************************)
(* The arguments, from the last to the first, below the top of the page;   *)
(* then argc and the pointers, aligned, below them.                        *)
(***************************************************************************)
PushString ==
    /\ phase = "args" /\ arg > 0
    /\ LET len == file.args[arg]
       IN  IF len > offset
           THEN phase' = "refused" /\ UNCHANGED <<arg, offset, strings>>
           ELSE /\ offset' = offset - len
                /\ strings' = [i \in DOMAIN strings \cup {arg} |->
                                   IF i = arg THEN [at |-> offset', len |-> len] ELSE strings[i]]
                /\ arg' = arg - 1
                /\ UNCHANGED phase
    /\ UNCHANGED <<file, seg, va, mapped, content, vector>>

\* (fault: argc and the null pointer at the end are not counted)
NeedShort == Len(file.args) * PointerSize

Need == (Len(file.args) + 2) * PointerSize

PushVector ==
    /\ phase = "args" /\ arg = 0
    /\ IF offset < Need
       THEN phase' = "refused" /\ UNCHANGED vector
       ELSE /\ vector' = ((offset - Need) \div StackAlign) * StackAlign
            /\ phase' = "done"
    /\ UNCHANGED <<file, seg, va, mapped, content, arg, offset, strings>>

ExecNext == LoadPage \/ LoadSegment \/ LoadDone \/ PushString \/ PushVector

ExecSpec == ExecInit /\ [][ExecNext]_execVars

-----------------------------------------------------------------------------
\* A header that passes elf_validate makes the loader read inside the file
\* and write inside pages of the user's image area, whatever its words are:
\* the sums in elf_load do not wrap around.
LoadStaysInside ==
    phase # "refused" =>
        /\ \A page \in mapped : page >= MinAddr /\ page + PageSize <= Limit
        /\ \A b \in DOMAIN content : PageOf(b) \in mapped /\ content[b] < FileSize

\* The bytes the file prescribes for an address: the last segment wins.
Prescribed(b) ==
    LET covering == {i \in Loadable(segs) :
                        b >= segs[i].vaddr /\ b < segs[i].vaddr + segs[i].filesz}
    IN  IF covering = {} THEN FileSize
        ELSE segs[Max(covering)].offset + (b - segs[Max(covering)].vaddr)

\* The loaded image is the file's, also where segments share a page or do not
\* begin or end at one; all other bytes are zero; nothing of it lies above the
\* break; and the entry point is in it.
LoadedExactly ==
    phase \in {"args", "done"} =>
        /\ mapped = {p \in {k * PageSize : k \in 0..(Limit \div PageSize)} :
                        \E i \in Loadable(segs) :
                            /\ p < segs[i].vaddr + segs[i].memsz
                            /\ p + PageSize > segs[i].vaddr}
        /\ \A p \in mapped : \A b \in p..(p + PageSize - 1) :
            Prescribed(b) = IF b \in DOMAIN content THEN content[b] ELSE FileSize
        /\ ImageBreak \in 0..Limit /\ ImageBreak % PageSize = 0
        /\ \A p \in mapped : p < ImageBreak
        /\ PageOf(file.entry) \in mapped

\* Strings and vector lie in the page, none overlaps another, and the stack
\* pointer is aligned, for every argument list that is not refused.
ArgumentsFit ==
    phase = "done" =>
        LET end == vector + (Len(file.args) + 2) * PointerSize
        IN  /\ DOMAIN strings = 1..Len(file.args)
            /\ \A i \in DOMAIN strings :
                /\ strings[i].len = file.args[i]
                /\ strings[i].at >= end /\ strings[i].at + strings[i].len <= StackPage
                /\ \A j \in DOMAIN strings :
                    i < j => strings[i].at + strings[i].len <= strings[j].at
            /\ vector >= 0 /\ end <= StackPage /\ vector % StackAlign = 0
=============================================================================
