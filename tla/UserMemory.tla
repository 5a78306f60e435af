----------------------------- MODULE UserMemory -----------------------------
(***************************************************************************)
(* What the memory calls promise a user program: each call takes effect as *)
(* a whole or not at all, and on nobody's pages but the caller's and the   *)
(* new task's.  There are no frames, no page tables and no half-done calls *)
(* here; a call that fails is no step at all.                              *)
(***************************************************************************)
EXTENDS Integers

CONSTANTS
    Task,
    PageSize,
    Image,          \* the pages every fresh program has
    Stack,          \* the pages the stack may grow into
    Heap,           \* the pages the heap may grow into
    FreshBreak,     \* the break of a fresh program
    Breaks          \* the breaks sbrk can set

VARIABLES
    life,           \* "none", "alive" or "dead" (and not yet reaped)
    pages,          \* the pages mapped in the space of each task
    brk             \* the end of each heap, in bytes

vars == <<life, pages, brk>>

Init ==
    /\ life = [t \in Task |-> "none"]
    /\ pages = [t \in Task |-> {}]
    /\ brk = [t \in Task |-> 0]

Start(c, mapped, end) ==
    /\ life[c] = "none"
    /\ life' = [life EXCEPT ![c] = "alive"]
    /\ pages' = [pages EXCEPT ![c] = mapped]
    /\ brk' = [brk EXCEPT ![c] = end]

Fork(p, c) == life[p] = "alive" /\ Start(c, pages[p], brk[p])

Spawn(c) == Start(c, Image, FreshBreak)

Change(p, mapped, end) ==
    /\ life[p] = "alive"
    /\ pages' = [pages EXCEPT ![p] = mapped]
    /\ brk' = [brk EXCEPT ![p] = end]
    /\ UNCHANGED life

Exec(p) == Change(p, Image, FreshBreak)

\* sbrk: the heap pages are those that begin below the break.
Break(p, end) ==
    Change(p, (pages[p] \ Heap) \cup {v \in Heap : v * PageSize < end}, end)

Touch(p, v) == Change(p, pages[p] \cup {v}, brk[p])

Die(p) ==
    /\ life[p] = "alive"
    /\ life' = [life EXCEPT ![p] = "dead"]
    /\ UNCHANGED <<pages, brk>>

Reap(c) ==
    /\ life[c] = "dead"
    /\ life' = [life EXCEPT ![c] = "none"]
    /\ pages' = [pages EXCEPT ![c] = {}]
    /\ brk' = [brk EXCEPT ![c] = 0]

Next ==
    \/ \E p, c \in Task : Fork(p, c)
    \/ \E t \in Task : Spawn(t) \/ Exec(t) \/ Die(t) \/ Reap(t)
    \/ \E t \in Task, v \in Stack : Touch(t, v)
    \/ \E t \in Task, end \in Breaks : Break(t, end)

Spec == Init /\ [][Next]_vars
=============================================================================
