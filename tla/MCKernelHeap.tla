---------------------------- MODULE MCKernelHeap ----------------------------
(* The kernel heap, or else the calls that use it. *)
EXTENDS Heap

CONSTANTS Slots, MaxChildren

VARIABLES at, call, held, table, fd, opened, children, broken

C == INSTANCE CallMemory

calls == <<at, call, held, table, fd, opened, children, broken>>

Symmetry == Permutations(Readers)

MCInit == Init /\ C!Init

\* (bound: a behaviour ends with the first call that comes in while a reader
\* is inside, for nothing is claimed behind it)
Blocks ==
    /\ calls = <<"user", "none", {}, {}, 0, {}, 0, FALSE>>
    /\ ~overlapped
    /\ Next /\ UNCHANGED calls

Calls ==
    /\ live = [p \in {} |-> 0] /\ Walking = {} /\ ~overlapped
    /\ C!Next /\ UNCHANGED vars

MCSpec == MCInit /\ [][Blocks \/ Calls]_<<vars, calls>>

\* CallMemory!CallsGiveBack.
CallsGiveBack == C!CallsGiveBack
=============================================================================
