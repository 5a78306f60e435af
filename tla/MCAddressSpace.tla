--------------------------- MODULE MCAddressSpace ---------------------------
(* An instance of AddressSpace: 16 pages below three levels of tables.  The  *)
(* program is page 2, reached by two segments; the heap may take pages 3 and *)
(* 4, the shared pages are 12 and 13, and the stack takes 15 and then 14.    *)
EXTENDS AddressSpace, TLC

OneProgram == <<2, 2>>
OnePage == <<15>>
SharedPages == 12 :> 2 @@ 13 :> 3

Symmetry == Permutations(Task)

\* Every sequence of up to MaxCalls memory calls.
CONSTANT MaxCalls
VARIABLE calls

MCInit == Init /\ calls = 0

MCNext ==
    /\ Next
    /\ calls' = IF op = Idle /\ (op' # op \/ brk' # brk) THEN calls + 1 ELSE calls
    /\ calls' <= MaxCalls

MCSpec == MCInit /\ [][MCNext]_<<vars, calls>>

-----------------------------------------------------------------------------
(***************************************************************************)
(* What user programs see of it.  A heap page counts when sbrk returns.    *)
(***************************************************************************)
Visible(t) ==
    IF op.kind = "sbrk" /\ op.by = t
    THEN {v \in Pages(space[t]) : v \in HeapPages => v * PageSize < brk[t]}
    ELSE Pages(space[t])

U == INSTANCE UserMemory WITH
        Heap <- HeapPages,
        FreshBreak <- HeapBase * PageSize,
        Breaks <- (HeapBase * PageSize)..HeapTop,
        pages <- [t \in Task |-> Visible(t)]

\* Every call that maps memory takes effect for the program as a whole or not
\* at all, on its own pages only, wherever it runs out of frames.
ImplementsUserMemory == U!Spec
=============================================================================
