----------------------------- MODULE MCConsole -----------------------------
(* A screen of two lines, one letter key and one digit key for Console.      *)
EXTENDS Console

MCChars == {"a", "A"}

K(kind, lower, upper) == [kind |-> kind, lower |-> lower, upper |-> upper]

MCKeys == {K("letter", "a", "A"), K("digit", "a", "A")}
          \cup {K(kind, "", "") : kind \in {"shift", "release shift", "caps", "enter",
                                           "backspace", "dead"}}
=============================================================================
