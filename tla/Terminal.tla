------------------------------ MODULE Terminal ------------------------------
(***************************************************************************)
(* What a reader of the screen sees: a page of text with a cursor, which   *)
(* moves up one line when there is no room below.                          *)
(***************************************************************************)
EXTENDS Integers

CONSTANTS Rows, Columns, Chars, Space

VARIABLES text, cx, cy      \* cy = Rows: the page moves up before the next character

EmptyLine == [x \in 0..(Columns - 1) |-> Space]
EmptyPage == [y \in 0..(Rows - 1) |-> EmptyLine]

Init == text = EmptyPage /\ cx = 0 /\ cy = 0

\* Where the next character goes, and the page once there is room for it.
Column == IF cx = Columns THEN 0 ELSE cx
Line == IF cx = Columns THEN cy + 1 ELSE cy
Up == [y \in 0..(Rows - 1) |-> IF y + 1 < Rows THEN text[y + 1] ELSE EmptyLine]
Room == IF Line < Rows THEN text ELSE Up
Row == IF Line < Rows THEN Line ELSE Rows - 1

Write == \E c \in Chars \cup {Space} :
    /\ text' = [Room EXCEPT ![Row][Column] = c]
    /\ cx' = Column + 1 /\ cy' = Row

NewLine == text' = Room /\ cx' = 0 /\ cy' = Row + 1

Backspace ==
    /\ text' = IF Column = 0 THEN Room ELSE [Room EXCEPT ![Row][Column - 1] = Space]
    /\ cx' = (IF Column = 0 THEN 0 ELSE Column - 1) /\ cy' = Row

Clear == text' = EmptyPage /\ cx' = 0 /\ cy' = 0

Next == Write \/ NewLine \/ Backspace \/ Clear

Spec == Init /\ [][Next]_<<text, cx, cy>>
=============================================================================
