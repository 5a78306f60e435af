---------------------------- MODULE MCExecImage ----------------------------
(* Inputs for ExecImage: headers of one segment with words of any size,      *)
(* pairs of segments that meet in a page, and argument lists up to the size  *)
(* of the page.                                                              *)
EXTENDS ExecImage

Header(o, f, v, m, x) ==
    [offset |-> o, filesz |-> f, vaddr |-> v, memsz |-> m, exec |-> x]

\* Every address, and offsets and sizes around the limits they are held to.
Single ==
    {[segs |-> <<Header(o, f, v, m, TRUE)>>, entry |-> e, args |-> <<>>] :
        o \in {0, 1, FileSize, Word - 1}, f \in {0, 2, FileSize, Word - 1},
        v \in 0..(Word - 1), m \in {1, 3, MaxSegment, MaxSegment + 1, Word - 1},
        e \in {MinAddr - 1, MinAddr, 9, Limit - 1, Limit}}

\* Two segments that may share a page.
Double ==
    {[segs |-> <<Header(0, f1, v1, m1, TRUE), Header(o, f2, v2, m2, FALSE)>>,
      entry |-> v1, args |-> <<>>] :
        f1 \in {0, 2}, v1 \in {5, 6}, m1 \in {2, 4},
        o \in {1, 2}, f2 \in {0, 1, 2}, v2 \in 4..9, m2 \in {0, 2, 5}}

OneFile == <<Header(0, FileSize, MinAddr, FileSize, TRUE)>>

Lengths == {1, 8, 40, 63, 100}

WithArguments ==
    {[segs |-> OneFile, entry |-> MinAddr, args |-> a] :
        a \in {<<>>} \cup {<<x>> : x \in Lengths} \cup (Lengths \X Lengths)
                \cup (Lengths \X Lengths \X Lengths)}

Inputs == Single \cup Double \cup WithArguments
=============================================================================
