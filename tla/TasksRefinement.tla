-------------------------- MODULE TasksRefinement --------------------------
(* Tasks, with its run queue and scheduler, implements Processes. *)
EXTENDS Tasks

Phase(s) == IF s = "FREE" THEN "none" ELSE IF s = "ZOMBIE" THEN "dead" ELSE "alive"

LifeOf(t) == Phase(state[t])

Abstract == INSTANCE Processes
    WITH Proc <- Task, Root <- Kernel, Nobody <- NoTask,
         life <- [t \in Task |-> LifeOf(t)],
         guardian <- [t \in Task |-> parent[t]],
         waits <- [t \in Task |-> waitFor[t]]

\* Every step of the kernel is a step of the process interface, or none of
\* its business: no interleaving of forks, exits, signals and switches shows
\* a program a child that vanished, came back or belongs to two parents.
ImplementsProcesses == Abstract!Spec

\* And a program that waits for a dead child gets its answer, whatever the
\* other tasks do with the CPU, unless one of them polls for a line for ever.
ImplementsProcessesFairly == LinesAreTyped => Abstract!WaitsEnd
=============================================================================
