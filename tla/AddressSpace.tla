---------------------------- MODULE AddressSpace ----------------------------
(***************************************************************************)
(* Frames, page tables and kernel stacks over the life of the tasks:       *)
(* vmm.c, and what fork, exec, spawn, sbrk, the page fault handler and     *)
(* reaping do with it.  Interrupts are off in all of them, so one call is  *)
(* in progress at a time; it is split where pmm_alloc_frame can fail.      *)
(*                                                                         *)
(* A space is the tree below a pml4: a function from its nodes to frames.  *)
(* A node is a depth and the index bits down to there; depth 0 is the      *)
(* pml4, and a page is a node of depth Levels.  Permission bits and the    *)
(* kernel half, the same in every space, are left out.                     *)
(***************************************************************************)
EXTENDS Integers, Sequences, SequencesExt

CONSTANTS
    Task,
    Kernel,         \* kernel_task
    Img,            \* holds the space under construction: a local of the call
    Levels,         \* 4: pml4, pdpt, pd, pt
    Fanout,         \* entries of the user part of a table
    PageSize,
    ImagePages,     \* pages in the order elf_load reaches them, some twice
    FirstStack,     \* pages task_setup_user_stack maps, ascending
    Stack,          \* pages from stack_limit to stack_start
    Shared,         \* page |-> frame: the frame buffer and the trampoline
    HeapBase, HeapMax,  \* brk_start as a page, USER_HEAP_MAX in bytes
    Increments,     \* what sbrk is called with
    KernelRoot,     \* the frame of kernel_pml4
    Reserved,       \* frames that belong to the kernel for good
    StackFrames,    \* KERNEL_STACK_FRAMES
    Sizes           \* numbers of frames the machine may have

HeapTop == HeapBase * PageSize + HeapMax

\* The pages the heap may take, and those every fresh program has.
HeapPages == {v \in HeapBase..HeapTop : v * PageSize < HeapTop}
Image == ToSet(ImagePages) \cup ToSet(FirstStack) \cup DOMAIN Shared

\* Frame 0 and the shared frames are the kernel's.  A program is linked low
\* enough for its heap to end below the trampoline and the stack.
ASSUME AddressSpaceAssumption ==
    /\ Kernel \notin Task /\ Img \notin Task \cup {Kernel}
    /\ Levels \in Nat \ {0} /\ PageSize \in Nat \ {0} /\ StackFrames \in Nat \ {0}
    /\ ImagePages \in Seq(Nat) /\ FirstStack \in Seq(Nat) /\ Stack \subseteq Nat
    /\ DOMAIN Shared \subseteq Nat /\ IsFiniteSet(DOMAIN Shared)
    /\ Reserved \subseteq Nat /\ {0, KernelRoot} \subseteq Reserved
    /\ \A v \in DOMAIN Shared : Shared[v] \in Reserved \ {0}
    /\ HeapBase \in Nat /\ HeapMax \in Nat
    /\ (Image \cup Stack) \cap HeapPages = {} /\ Stack \cap DOMAIN Shared = {}
    /\ Increments \subseteq Nat /\ Sizes \subseteq Nat

VARIABLES
    memmap, bits, used, \* the physical memory manager
    life,           \* "none" for a struct that is not allocated
    space,          \* task_t.pml4
    kstack,         \* task_t.kstack_frames
    brk,            \* mm.brk
    current,        \* current_task
    loaded,         \* the frame in cr3
    op              \* the call in progress

pmm == <<memmap, bits, used>>
tasks == <<life, kstack, brk>>
cpu == <<current, loaded>>
vars == <<pmm, tasks, space, cpu, op>>

NoSpace == [n \in {} |-> 0]
NoFrame == 0

Node(v, depth) == <<depth, v \div Fanout ^ (Levels - depth)>>
Root == <<0, 0>>
Leaf(v) == <<Levels, v>>
Tables(v) == {Node(v, depth) : depth \in 1..(Levels - 1)}

Pages(s) == {n[2] : n \in {m \in DOMAIN s : m[1] = Levels}}

SharedFrames == {Shared[v] : v \in DOMAIN Shared}

Unmap(s, S) == [n \in DOMAIN s \ {Leaf(v) : v \in S} |-> s[n]]

\* The frames vmm_free gives back: tables, root and all pages but shared ones.
Own(s) == {s[n] : n \in DOMAIN s} \ SharedFrames

Ids == Task \cup {Img}

\* The frame a call has taken for a page and not mapped yet.
TempLeaf == {op.leaf} \ {NoFrame}

Owned ==
    UNION {Own(space[t]) : t \in Ids} \cup UNION {kstack[t] : t \in Task}
        \cup TempLeaf

F == INSTANCE Frames WITH
        Maps <- {}, Counts <- {StackFrames}, owned <- Owned

Flat(n) == <<[base |-> 0, length |-> n * PageSize, usable |-> TRUE]>>

Idle == [kind |-> "idle", by |-> Kernel, for |-> Kernel, todo |-> <<>>, leaf |-> NoFrame, brk |-> 0]

\* The state in kinit when it builds the first program.
Init ==
    /\ memmap \in {Flat(n) : n \in Sizes}
    /\ bits = Reserved
    /\ used = Cardinality(Reserved)
    /\ life = [t \in Task |-> "none"]
    /\ space = [t \in Ids |-> NoSpace]
    /\ kstack = [t \in Task |-> {}]
    /\ brk = [t \in Task |-> 0]
    /\ current = Kernel
    /\ loaded = KernelRoot
    /\ op = [Idle EXCEPT !.kind = "spawn"]

-----------------------------------------------------------------------------
(***************************************************************************)
(* The steps shared by all calls that map pages.                           *)
(***************************************************************************)
Building == op.kind \in {"fork", "spawn", "exec"}

Target == IF Building THEN Img ELSE op.by

Frame(v) ==
    IF op.leaf # NoFrame THEN op.leaf
    ELSE IF op.kind = "fork" /\ space[op.by][Leaf(v)] \in SharedFrames
    THEN space[op.by][Leaf(v)]
    ELSE IF op.kind \in {"spawn", "exec"} /\ v \in DOMAIN Shared THEN Shared[v]
    ELSE IF op.kind \in {"spawn", "exec"} /\ Leaf(v) \in DOMAIN space[Img] THEN space[Img][Leaf(v)]
    ELSE NoFrame

NeedsRoot == Building /\ space[Img] = NoSpace

\* The page being mapped has no frame yet, or has one and lacks a table.
Mapping == op.todo # <<>> /\ ~NeedsRoot
NeedsLeaf == Mapping /\ Frame(Head(op.todo)) = NoFrame
Missing == Tables(Head(op.todo)) \ DOMAIN space[Target]
NeedsTable == Mapping /\ ~NeedsLeaf /\ Missing # {}

\* The numbers of S from the lowest up.
Ascending(S) ==
    [i \in 1..Cardinality(S) |->
        CHOOSE v \in S : Cardinality({u \in S : u < v}) = i - 1]

Linked(s, n, f) == [m \in DOMAIN s \cup {n} |-> IF m = n THEN f ELSE s[m]]

\* The pages of the new space in the order they are mapped.
Plan ==
    IF op.kind = "fork" THEN Ascending(Pages(space[op.by]))
    ELSE ImagePages \o FirstStack \o Reverse(Ascending(DOMAIN Shared))

\* vmm_init.
NewRoot(f) ==
    /\ NeedsRoot
    /\ F!Take(f)
    /\ space' = [space EXCEPT ![Img] = Linked(NoSpace, Root, f)]
    /\ op' = [op EXCEPT !.todo = Plan]
    /\ UNCHANGED <<tasks, cpu>>

\* The page's frame.
NewLeaf(f) ==
    /\ NeedsLeaf
    /\ F!Take(f)
    /\ op' = [op EXCEPT !.leaf = f]
    /\ UNCHANGED <<tasks, space, cpu>>

\* vmm_map_page: one of the tables on the way, from the top.
NewTable(f) ==
    /\ NeedsTable
    /\ F!Take(f)
    /\ \E n \in Missing :
        /\ \A m \in Missing : n[1] <= m[1]
        /\ space' = [space EXCEPT ![Target] = Linked(@, n, f)]
    /\ UNCHANGED <<tasks, cpu, op>>

\* vmm_map_page: the entry of the page, whatever it was before.
MapPage ==
    /\ Mapping /\ ~NeedsLeaf /\ ~NeedsTable
    /\ LET v == Head(op.todo)
       IN  space' = [space EXCEPT ![Target] = Linked(@, Leaf(v), Frame(v))]
    /\ op' = [op EXCEPT !.todo = Tail(@), !.leaf = NoFrame]
    /\ UNCHANGED <<pmm, tasks, cpu>>

-----------------------------------------------------------------------------
(***************************************************************************)
(* What a call does when it cannot go on.                                  *)
(***************************************************************************)
\* fork: vmm_clone_user_space frees the copy, task_release the kernel stack.
UndoFork ==
    /\ op.kind = "fork"
    /\ F!Put(TempLeaf \cup Own(space[Img]) \cup kstack[op.for])
    /\ space' = [space EXCEPT ![Img] = NoSpace]
    /\ kstack' = [kstack EXCEPT ![op.for] = {}]
    /\ UNCHANGED <<life, brk>>

\* exec and spawn: image_build or image_free.
UndoImage ==
    /\ op.kind \in {"spawn", "exec"}
    /\ F!Put(TempLeaf \cup Own(space[Img]))
    /\ space' = [space EXCEPT ![Img] = NoSpace]
    /\ UNCHANGED tasks

RoundUp(b) == F!Ceil(b, PageSize)

\* sbrk: the pages mapped so far.
UndoGrow ==
    LET S == (RoundUp(brk[op.by])..(Head(op.todo) - 1)) \cap Pages(space[op.by])
    IN  /\ op.kind = "sbrk"
        /\ F!Put(TempLeaf \cup {space[op.by][Leaf(v)] : v \in S})
        /\ space' = [space EXCEPT ![op.by] = Unmap(@, S)]
        /\ UNCHANGED tasks

\* A stack page that cannot be mapped ends the task.
UndoFault ==
    /\ op.kind = "fault"
    /\ F!Put(TempLeaf)
    /\ life' = [life EXCEPT ![op.by] = "dead"]
    /\ UNCHANGED <<space, kstack, brk>>

Undo ==
    /\ UndoFork \/ UndoImage \/ UndoGrow \/ UndoFault
    /\ op' = Idle
    /\ UNCHANGED cpu

OutOfFrames == F!Free = {} /\ (NeedsRoot \/ NeedsLeaf \/ NeedsTable) /\ Undo

\* The arguments do not fit the top page of the stack, or kmalloc fails.
BadArguments ==
    /\ op.kind \in {"spawn", "exec"}
    /\ Len(op.todo) = Cardinality(DOMAIN Shared)
    /\ ~NeedsRoot /\ op.leaf = NoFrame
    /\ Undo

-----------------------------------------------------------------------------
(***************************************************************************)
(* The calls.                                                              *)
(***************************************************************************)
Runs(p) == current = p /\ op = Idle /\ (p # Kernel => life[p] = "alive")

Begin(kind, p, c, todo, end) ==
    op' = [kind |-> kind, by |-> p, for |-> c, todo |-> todo, leaf |-> NoFrame, brk |-> end]

\* fork: task_alloc takes the child's kernel stack first.
BeginFork(p, c) ==
    /\ Runs(p) /\ life[c] = "none"
    /\ \E f \in F!LowestRun(StackFrames) :
        /\ F!Set(f..(f + StackFrames - 1))
        /\ kstack' = [kstack EXCEPT ![c] = f..(f + StackFrames - 1)]
    /\ Begin("fork", p, c, <<>>, 0)
    /\ UNCHANGED <<life, brk, space, cpu>>

\* spawn: the image is built first.
BeginSpawn(p) ==
    /\ Runs(p)
    /\ Begin("spawn", p, Kernel, <<>>, 0)
    /\ UNCHANGED <<pmm, tasks, space, cpu>>

BeginExec(p) ==
    /\ Runs(p)
    /\ Begin("exec", p, Kernel, <<>>, 0)
    /\ UNCHANGED <<pmm, tasks, space, cpu>>

\* user_pf for an address of the stack area that is not present.
BeginFault(p, v) ==
    /\ Runs(p)
    /\ v \in Stack \ Pages(space[p])
    /\ Begin("fault", p, Kernel, <<v>>, 0)
    /\ UNCHANGED <<pmm, tasks, space, cpu>>

\* task_sbrk, past its checks, to a higher break.
BeginGrow(p, inc) ==
    /\ Runs(p)
    /\ inc \in 1..HeapMax
    /\ brk[p] + inc <= HeapTop
    /\ Begin("sbrk", p, Kernel,
             [i \in 1..(RoundUp(brk[p] + inc) - RoundUp(brk[p])) |-> RoundUp(brk[p]) + i - 1],
             brk[p] + inc)
    /\ UNCHANGED <<pmm, tasks, space, cpu>>

\* (fault: the page that holds the new break is unmapped too)
ShrinkRoundingDown(p, dec) ==
    LET new == brk[p] - dec
        S == ((new \div PageSize)..(RoundUp(brk[p]) - 1)) \cap Pages(space[p])
    IN  /\ Runs(p)
        /\ dec > 0 /\ new >= HeapBase * PageSize
        /\ F!Put({space[p][Leaf(v)] : v \in S})
        /\ space' = [space EXCEPT ![p] = Unmap(@, S)]
        /\ brk' = [brk EXCEPT ![p] = new]
        /\ UNCHANGED <<life, kstack, cpu, op>>

\* task_sbrk to a lower break.
Shrink(p, dec) ==
    LET new == brk[p] - dec
        S == (RoundUp(new)..(RoundUp(brk[p]) - 1)) \cap Pages(space[p])
    IN  /\ Runs(p)
        /\ dec > 0 /\ new >= HeapBase * PageSize
        /\ F!Put({space[p][Leaf(v)] : v \in S})
        /\ space' = [space EXCEPT ![p] = Unmap(@, S)]
        /\ brk' = [brk EXCEPT ![p] = new]
        /\ UNCHANGED <<life, kstack, cpu, op>>

Done(kind) == op.kind = kind /\ op.todo = <<>> /\ ~NeedsRoot

\* (fault: the child's memory descriptor is not copied)
FinishForkNoBreak ==
    /\ Done("fork")
    /\ space' = [space EXCEPT ![op.for] = space[Img], ![Img] = NoSpace]
    /\ life' = [life EXCEPT ![op.for] = "alive"]
    /\ op' = Idle
    /\ UNCHANGED <<pmm, kstack, brk, cpu>>

FinishFork ==
    /\ Done("fork")
    /\ space' = [space EXCEPT ![op.for] = space[Img], ![Img] = NoSpace]
    /\ brk' = [brk EXCEPT ![op.for] = brk[op.by]]
    /\ life' = [life EXCEPT ![op.for] = "alive"]
    /\ op' = Idle
    /\ UNCHANGED <<pmm, kstack, cpu>>

\* task_from_image: the kernel stack comes last.
FinishSpawn(c) ==
    /\ Done("spawn") /\ life[c] = "none"
    /\ \E f \in F!LowestRun(StackFrames) :
        /\ F!Set(f..(f + StackFrames - 1))
        /\ kstack' = [kstack EXCEPT ![c] = f..(f + StackFrames - 1)]
    /\ space' = [space EXCEPT ![c] = space[Img], ![Img] = NoSpace]
    /\ brk' = [brk EXCEPT ![c] = HeapBase * PageSize]
    /\ life' = [life EXCEPT ![c] = "alive"]
    /\ op' = Idle
    /\ UNCHANGED cpu

\* No task slot, no memory for the struct or no kernel stack: image_free.
SpawnFails == Done("spawn") /\ Undo

\* execve: the new image goes in, cr3 is loaded, and the old one is freed.
ExecSwap ==
    /\ Done("exec")
    /\ space' = [space EXCEPT ![op.by] = space[Img], ![Img] = space[op.by]]
    /\ brk' = [brk EXCEPT ![op.by] = HeapBase * PageSize]
    /\ op' = [op EXCEPT !.kind = "load"]
    /\ UNCHANGED <<pmm, life, kstack, cpu>>

\* (fault: the old space is freed while cr3 still points at it)
ExecFreeEarly ==
    /\ op.kind = "load"
    /\ F!Put(Own(space[Img]))
    /\ space' = [space EXCEPT ![Img] = NoSpace]
    /\ op' = [op EXCEPT !.kind = "free"]
    /\ UNCHANGED <<tasks, cpu>>

ExecLoad ==
    /\ op.kind = "load"
    /\ loaded' = space[op.by][Root]
    /\ op' = [op EXCEPT !.kind = "free"]
    /\ UNCHANGED <<pmm, tasks, space, current>>

ExecFree ==
    /\ op.kind = "free"
    /\ F!Put(Own(space[Img]))
    /\ space' = [space EXCEPT ![Img] = NoSpace]
    /\ op' = Idle
    /\ UNCHANGED <<tasks, cpu>>

FinishGrow ==
    /\ Done("sbrk")
    /\ brk' = [brk EXCEPT ![op.by] = op.brk]
    /\ op' = Idle
    /\ UNCHANGED <<pmm, life, kstack, space, cpu>>

FinishFault == Done("fault") /\ op' = Idle /\ UNCHANGED <<pmm, tasks, space, cpu>>

-----------------------------------------------------------------------------
(***************************************************************************)
(* The end of a task.                                                      *)
(***************************************************************************)
Pml4(t) == IF t = Kernel THEN KernelRoot ELSE space[t][Root]

\* task_terminate, by exit, an exception or a signal: the memory stays.
Die(p) ==
    /\ Runs(current) /\ life[p] = "alive"
    /\ life' = [life EXCEPT ![p] = "dead"]
    /\ UNCHANGED <<pmm, kstack, brk, space, cpu, op>>

\* sched.  The kernel task gets the CPU when no user task can.
Sched(q) ==
    /\ op = Idle /\ q # current
    /\ IF q = Kernel THEN \A t \in Task : life[t] # "alive" ELSE life[q] = "alive"
    /\ current' = q
    /\ loaded' = IF Pml4(q) = Pml4(current) THEN loaded ELSE Pml4(q)
    /\ UNCHANGED <<pmm, tasks, space, op>>

\* (fault: the kernel stack of the dead task is forgotten)
ReapNoStack(c) ==
    /\ Runs(current) /\ life[c] = "dead"
    /\ F!Put(Own(space[c]))
    /\ space' = [space EXCEPT ![c] = NoSpace]
    /\ kstack' = [kstack EXCEPT ![c] = {}]
    /\ life' = [life EXCEPT ![c] = "none"]
    /\ brk' = [brk EXCEPT ![c] = 0]
    /\ UNCHANGED <<cpu, op>>

\* waitpid or the orphan scan: task_release.
Reap(c) ==
    /\ Runs(current) /\ life[c] = "dead"
    /\ F!Put(Own(space[c]) \cup kstack[c])
    /\ space' = [space EXCEPT ![c] = NoSpace]
    /\ kstack' = [kstack EXCEPT ![c] = {}]
    /\ life' = [life EXCEPT ![c] = "none"]
    /\ brk' = [brk EXCEPT ![c] = 0]
    /\ UNCHANGED <<cpu, op>>

Next ==
    \/ \E f \in F!Free : NewRoot(f) \/ NewLeaf(f) \/ NewTable(f)
    \/ MapPage \/ OutOfFrames \/ BadArguments
    \/ \E p, c \in Task : BeginFork(p, c)
    \/ \E p \in Task, v \in Stack : BeginFault(p, v)
    \/ \E p \in Task, i \in Increments : BeginGrow(p, i) \/ Shrink(p, i)
    \/ \E t \in Task : BeginSpawn(t) \/ BeginExec(t) \/ FinishSpawn(t) \/ Die(t) \/ Reap(t)
    \/ FinishFork \/ SpawnFails \/ FinishGrow \/ FinishFault
    \/ ExecSwap \/ ExecLoad \/ ExecFree
    \/ \E q \in Task \cup {Kernel} : Sched(q)

Spec == Init /\ [][Next]_vars

-----------------------------------------------------------------------------
\* The places that hold the frame f.
Holders(f) ==
    {h \in UNION {{t} \X DOMAIN space[t] : t \in Ids} : space[h[1]][h[2]] = f}
        \cup {<<t, "stack">> : t \in {u \in Task : f \in kstack[u]}}
        \cup {<<"leaf">> : x \in {op.leaf} \cap {f}}

\* Every frame is free, or the kernel's, or held in exactly one place: a page
\* table, a page, a kernel stack or the call in progress.  No call leaks a
\* frame or frees one that is in use, wherever it runs out of memory.
OwnedExactly ==
    /\ Reserved \subseteq bits
    /\ \A f \in 0..(F!total - 1) \ Reserved :
        Cardinality(Holders(f)) = IF f \in bits THEN 1 ELSE 0

\* Between calls a living task has a page for every heap address below its
\* break and none above, also after a growth that failed half-way and after
\* breaks inside a page.
HeapMapped ==
    \A t \in Task : life[t] = "alive" /\ op.by # t =>
        {v \in Pages(space[t]) : v >= HeapBase /\ v * PageSize < HeapBase * PageSize + HeapMax}
            = {v \in HeapBase..brk[t] : v * PageSize < brk[t]}

\* cr3 holds the root of the running task's space, which is not freed under
\* it; execve is the only call that changes the space first.
LoadedLives ==
    /\ loaded \in bits
    /\ loaded = IF op.kind = "load" THEN space[Img][Root] ELSE Pml4(current)
=============================================================================
