----------------------------- MODULE Processes -----------------------------
(***************************************************************************)
(* What fork, spawn, exit, waitpid and the orphan scan promise a user      *)
(* program, with no scheduler, no run queue and no table: every process    *)
(* lives and dies on its own, always has a guardian that will collect it,  *)
(* and a waitpid ends with the death of the child it was called for, with  *)
(* a signal, or with the caller.                                           *)
(***************************************************************************)
CONSTANTS
    Proc,       \* what a pid can name
    Root,       \* the guardian of orphans, not in Proc
    Nobody      \* neither in Proc nor Root

VARIABLES
    life,       \* "none", "alive" or "dead" (and not yet collected)
    guardian,   \* who collects the process: its parent, or Root for an orphan
    waits       \* the child the process waits for, or Nobody

vars == <<life, guardian, waits>>

Init ==
    \E p \in Proc :
        /\ life = [q \in Proc |-> IF q = p THEN "alive" ELSE "none"]
        /\ guardian = [q \in Proc |-> IF q = p THEN Root ELSE Nobody]
        /\ waits = [q \in Proc |-> Nobody]

Active(p) == life[p] = "alive" /\ waits[p] = Nobody

Create(p, c) ==
    /\ Active(p)
    /\ life[c] = "none"
    /\ life' = [life EXCEPT ![c] = "alive"]
    /\ guardian' = [guardian EXCEPT ![c] = p]
    /\ UNCHANGED waits

\* p ends, by itself or by a signal; its children become orphans.
Die(p) ==
    /\ life[p] = "alive"
    /\ life' = [life EXCEPT ![p] = "dead"]
    /\ guardian' = [q \in Proc |-> IF guardian[q] = p THEN Root ELSE guardian[q]]
    /\ waits' = [waits EXCEPT ![p] = Nobody]

BeginWait(p, c) ==
    /\ Active(p)
    /\ guardian[c] = p /\ life[c] = "alive"
    /\ waits' = [waits EXCEPT ![p] = c]
    /\ UNCHANGED <<life, guardian>>

\* A signal ends the call; the child stays p's.
Interrupt(p) ==
    /\ waits[p] \in Proc /\ life[waits[p]] = "alive"
    /\ waits' = [waits EXCEPT ![p] = Nobody]
    /\ UNCHANGED <<life, guardian>>

\* p takes the status of its dead child c, sooner or later after the death.
Collect(p, c) ==
    /\ life[p] = "alive" /\ waits[p] \in {Nobody, c}
    /\ guardian[c] = p /\ life[c] = "dead"
    /\ life' = [life EXCEPT ![c] = "none"]
    /\ guardian' = [guardian EXCEPT ![c] = Nobody]
    /\ waits' = [waits EXCEPT ![p] = Nobody]

\* The kernel collects a dead orphan.
Sweep(c) ==
    /\ guardian[c] = Root /\ life[c] = "dead"
    /\ life' = [life EXCEPT ![c] = "none"]
    /\ guardian' = [guardian EXCEPT ![c] = Nobody]
    /\ UNCHANGED waits

Next ==
    \/ \E p, c \in Proc : Create(p, c) \/ BeginWait(p, c) \/ Collect(p, c)
    \/ \E p \in Proc : Die(p) \/ Interrupt(p) \/ Sweep(p)

Spec == Init /\ [][Next]_vars

\* A waiting process whose child is dead does return.
WaitsEnd == \A p \in Proc : WF_vars(waits[p] \in Proc /\ Collect(p, waits[p]))
=============================================================================
