------------------------------ MODULE Allocator ------------------------------
(***************************************************************************)
(* What the kernel heap and the user heap promise: an address handed out   *)
(* names bytes inside the arena that belong to nobody else, until it is    *)
(* given back.                                                             *)
(***************************************************************************)
EXTENDS Integers

VARIABLES
    live,           \* address |-> bytes asked for
    base, top       \* the arena

vars == <<live, base, top>>

Init == live = [a \in {} |-> 0] /\ base <= top

\* n bytes at a touch neither the ends of the arena nor another allocation.
Fits(a, n) ==
    /\ base <= a /\ a + n <= top'
    /\ \A b \in DOMAIN live : a + n <= b \/ b + live[b] <= a

Without(S) == [a \in DOMAIN live \ S |-> live[a]]

New == DOMAIN live' \ DOMAIN live

Alloc ==
    \E a \in New :
        /\ Fits(a, live'[a])
        /\ live' = [b \in DOMAIN live \cup {a} |-> IF b = a THEN live'[a] ELSE live[b]]

Free == \E a \in DOMAIN live : live' = Without({a})

\* A block that grows moves; the old one counts until the new one is placed.
Move ==
    \E a \in DOMAIN live, b \in New :
        /\ Fits(b, live'[b]) /\ live'[b] >= live[a]
        /\ live' = [c \in (DOMAIN live \ {a}) \cup {b} |-> IF c = b THEN live'[b] ELSE live[c]]

\* The arena only grows, at its end.
Next ==
    /\ Alloc \/ Free \/ Move \/ live' = live
    /\ base' = base /\ top' >= top

Spec == Init /\ [][Next]_vars
=============================================================================
