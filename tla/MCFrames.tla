------------------------------ MODULE MCFrames ------------------------------
(* Memory maps for Frames: a reserved area at the bottom, two usable areas   *)
(* with a hole of any size between them, and a reserved tail.                *)
EXTENDS Frames

Entry(b, l, u) == [base |-> b, length |-> l, usable |-> u]

Layout(low, first, hole, second, tail) ==
    << Entry(0, low, FALSE),
       Entry(low, first, TRUE),
       Entry(low + first + hole, second, TRUE),
       Entry(low + first + hole + second, tail, FALSE) >>

Layouts ==
    {Layout(low, first, hole, second, tail) :
        low \in {0, 4}, first \in {2, 6}, hole \in {0, 4, 22}, second \in {6, 8},
        tail \in {0, 3}}
=============================================================================
