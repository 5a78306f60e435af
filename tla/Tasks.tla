------------------------------- MODULE Tasks -------------------------------
(***************************************************************************)
(* The life of a task of the Mierdux kernel: creation (fork, spawn), the   *)
(* round-robin scheduler, blocking in waitpid, termination (exit, faults,  *)
(* signals), reaping by the parent and by the kernel's idle loop.          *)
(*                                                                         *)
(* The machine has one CPU.  System calls, exceptions and interrupts run   *)
(* with interrupts disabled, so an action is what the kernel does between  *)
(* two points where another task can run: from a trap to the return to     *)
(* user mode or to the switch inside sched().  pc[t] is where the saved    *)
(* kernel stack of t resumes:                                              *)
(*   "fresh"   in ret_from_fork, which enters user mode at once            *)
(*   "user"    t runs in user mode (only the current task)                 *)
(*   "return"  on the way back to user mode, through the pending-signal    *)
(*             check of irq_handler or of syscall_handler                  *)
(*   "wait"    in waitpid, behind its call of sched()                      *)
(*   "poll"    in input(), which polls the keyboard with interrupts off,   *)
(*             for as long as nobody types Enter (only the current task)   *)
(*   "input"   in int128_handler behind input(), which enables interrupts  *)
(*             inside the kernel and returns without a signal check        *)
(*   "idle", "reap"  kernel_idle_loop, at hlt or inside task_reap_orphans  *)
(*   "gone"    never resumes: a zombie, or a struct that is not allocated  *)
(* A task stands for its task_t; a pid is never used twice, so it is       *)
(* identified with the struct for as long as the struct is in tasks[].     *)
(***************************************************************************)
EXTENDS Integers, FiniteSets

CONSTANTS
    Task,       \* task_t structures kmalloc can return (more than fit tasks[])
    Kernel,     \* kernel_task, pid 0
    NoTask,     \* the null pointer
    MaxTasks,   \* MAX_TASKS, the length of tasks[]
    SignalsUsed \* whether signal_send is called; nothing in the tree does yet

ASSUME TasksAssumption ==
    /\ Kernel \notin Task
    /\ NoTask \notin Task \cup {Kernel}
    /\ MaxTasks \in Nat /\ MaxTasks >= 2
    /\ SignalsUsed \in BOOLEAN

Node == Task \cup {Kernel}

VARIABLES
    current,    \* current_task
    state,      \* task_t.state; "FREE" when the struct is not allocated
    parent,     \* task_t.parent
    children,   \* task_t.children, as a set
    next,       \* task_t.next, the circular run queue through kernel_task
    table,      \* the entries of tasks[]
    pc,         \* where the kernel stack of the task resumes
    waitFor,    \* the local `child' of the task's waitpid
    pending,    \* whether pending_signal is SIGTERM (see SignalCatch)
    handler     \* whether sigterm_handler_rip is set

family == <<parent, children>>
queue  == <<next, table>>
signal == <<pending, handler>>
vars   == <<current, state, family, queue, pc, waitFor, signal>>

Allocated == {n \in Node : state[n] # "FREE"}

TypeOK ==
    /\ current \in Node
    /\ state \in [Node -> {"FREE", "READY", "RUNNING", "BLOCKED", "ZOMBIE"}]
    /\ parent \in [Node -> Node \cup {NoTask}]
    /\ children \in [Node -> SUBSET Task]
    /\ next \in [Node -> Node \cup {NoTask}]
    /\ table \in SUBSET Node
    /\ pc \in [Node -> {"fresh", "user", "return", "wait", "poll",
                        "input", "idle", "reap", "gone"}]
    /\ waitFor \in [Node -> Task \cup {NoTask}]
    /\ pending \in [Node -> BOOLEAN]
    /\ handler \in [Node -> BOOLEAN]

\* After boot: kernel_task runs kinit and init is the only other task.
Init ==
    \E init \in Task :
        /\ current = Kernel
        /\ state = [n \in Node |-> CASE n = Kernel -> "RUNNING"
                                     [] n = init -> "READY"
                                     [] OTHER -> "FREE"]
        /\ parent = [n \in Node |-> IF n \in {Kernel, init} THEN Kernel ELSE NoTask]
        /\ children = [n \in Node |-> IF n = Kernel THEN {init} ELSE {}]
        /\ next = [n \in Node |-> CASE n = Kernel -> init
                                    [] n = init -> Kernel
                                    [] OTHER -> NoTask]
        /\ table = {Kernel, init}
        /\ pc = [n \in Node |-> CASE n = Kernel -> "idle"
                                  [] n = init -> "fresh"
                                  [] OTHER -> "gone"]
        /\ waitFor = [n \in Node |-> NoTask]
        /\ pending = [n \in Node |-> FALSE]
        /\ handler \in {[n \in Node |-> n = init /\ h] : h \in BOOLEAN}

-----------------------------------------------------------------------------
(***************************************************************************)
(* The scheduler.                                                          *)
(***************************************************************************)
Follow(n) == IF n \in Node THEN next[n] ELSE NoTask

\* The i-th node pick_next_task looks at.
Walk[i \in 0..(MaxTasks + 1)] ==
    IF i = 0 THEN Follow(current) ELSE Follow(Walk[i - 1])

WalkFromKernel[i \in 0..(MaxTasks + 1)] ==
    IF i = 0 THEN Follow(Kernel) ELSE Follow(WalkFromKernel[i - 1])

WalkToKernel ==
    [i \in 0..(MaxTasks + 1) |->
        IF \E j \in 0..i : Walk[j] = Kernel THEN Kernel ELSE Walk[i]]

\* (fault: whoever does not sleep)
EligibleAwake(st, n) == n \in Task /\ st[n] # "BLOCKED"

Eligible(st, n) == n \in Task /\ st[n] = "READY"

\* The first READY user task of the walk, or else the given task.
FirstReady(walk, st, otherwise) ==
    LET First(i) == /\ Eligible(st, walk[i])
                    /\ \A j \in 0..(i - 1) : ~Eligible(st, walk[j])
    IN  IF \E i \in 0..(MaxTasks + 1) : First(i)
        THEN walk[CHOOSE i \in 0..(MaxTasks + 1) : First(i)]
        ELSE otherwise

\* (faults: the walk does not start behind the current task; it ends at
\* kernel_task instead of going round)
PickNextFromKernel(st) == FirstReady(WalkFromKernel, st, Kernel)
PickNextUpToKernel(st) == FirstReady(WalkToKernel, st, Kernel)

PickNext(st) == FirstReady(Walk, st, Kernel)

\* (fault: the current task is not demoted)
PreemptedNever(st) == st

\* What pick_next_task does to the state of the task that gives up the CPU.
Preempted(st) ==
    IF st[current] = "RUNNING" THEN [st EXCEPT ![current] = "READY"] ELSE st

\* sched(), called with the task states st and the resume points at.
Sched(st, at) ==
    LET n == PickNext(Preempted(st))
    IN  /\ current' = n
        /\ state' = [Preempted(st) EXCEPT ![n] = "RUNNING"]
        /\ pc' = [at EXCEPT ![n] = IF @ = "fresh" THEN "user" ELSE @]

\* The current task stays current and resumes at the point p.
Continue(p) ==
    /\ pc' = [pc EXCEPT ![current] = p]
    /\ UNCHANGED current

InUser == current \in Task /\ pc[current] = "user"

\* Interrupt 32: from user mode, from the tail of the int 0x80 line input
\* and from the idle loop, which are the places that run with IF set.
TimerTick ==
    /\ pc[current] \in {"user", "input", "idle"}
    /\ Sched(state, [pc EXCEPT ![current] = IF @ = "user" THEN "return" ELSE @])
    /\ UNCHANGED <<family, queue, waitFor, signal>>

\* The keyboard interrupt, or a system call that leaves the tasks alone:
\* the calls of other modules, and every error return (EAGAIN, ENOMEM,
\* ECHILD, a failed execve or spawn).
Trap ==
    /\ InUser
    /\ Continue("return")
    /\ UNCHANGED <<state, family, queue, waitFor, signal>>

\* int 0x80 with rax = 4: input() polls with interrupts off.
InputLine ==
    /\ InUser
    /\ Continue("poll")
    /\ UNCHANGED <<state, family, queue, waitFor, signal>>

\* Somebody types Enter: input() enables interrupts, and the rest of the
\* handler can be preempted.  Until then nothing else happens.
LineTyped ==
    /\ pc[current] = "poll"
    /\ Continue("input")
    /\ UNCHANGED <<state, family, queue, waitFor, signal>>

InputReturn ==
    /\ pc[current] = "input"
    /\ Continue("user")
    /\ UNCHANGED <<state, family, queue, waitFor, signal>>

-----------------------------------------------------------------------------
(***************************************************************************)
(* Creation.                                                               *)
(***************************************************************************)
HasSlot == Cardinality(table) < MaxTasks

\* task_link behind task_alloc: the new struct c becomes the last child of p
\* and the node behind kernel_task in the run queue.  The result of
\* task_insert is not looked at: without a free slot c is in no table entry.
Link(p, c) ==
    /\ parent' = [parent EXCEPT ![c] = p]
    /\ children' = [children EXCEPT ![p] = @ \cup {c}]
    /\ next' = [next EXCEPT ![c] = next[Kernel], ![Kernel] = c]
    /\ table' = IF HasSlot THEN table \cup {c} ELSE table

\* (fault: no look at find_free_slot before the struct is linked)
CreateUnchecked(c, catches) ==
    /\ state[c] = "FREE"
    /\ Link(current, c)
    /\ state' = [state EXCEPT ![c] = "READY"]
    /\ pc' = [pc EXCEPT ![c] = "fresh", ![current] = "return"]
    /\ handler' = [handler EXCEPT ![c] = catches]
    /\ UNCHANGED <<current, waitFor, pending>>

\* The part fork and task_from_image share: a free slot, a fresh struct and
\* kernel stack, the family and queue links, READY; the caller returns c's pid.
Create(c, catches) ==
    /\ HasSlot
    /\ state[c] = "FREE"
    /\ Link(current, c)
    /\ state' = [state EXCEPT ![c] = "READY"]
    /\ pc' = [pc EXCEPT ![c] = "fresh", ![current] = "return"]
    /\ handler' = [handler EXCEPT ![c] = catches]
    /\ UNCHANGED <<current, waitFor, pending>>

\* fork: the child inherits the handler, not the pending signal.
Fork ==
    /\ InUser
    /\ \E c \in Task : Create(c, handler[current])

\* spawn: the handler is the sigterm symbol of the image, if it has one.
Spawn ==
    /\ InUser
    /\ \E c \in Task, catches \in BOOLEAN : Create(c, catches)

\* execve that succeeds: straight back to user mode, with the new image's
\* handler and no pending signal.
Execve ==
    /\ InUser
    /\ \E catches \in BOOLEAN : handler' = [handler EXCEPT ![current] = catches]
    /\ pending' = [pending EXCEPT ![current] = FALSE]
    /\ UNCHANGED <<current, state, family, queue, pc, waitFor>>

-----------------------------------------------------------------------------
(***************************************************************************)
(* Termination.                                                            *)
(***************************************************************************)
\* (fault: the parent is not woken)
TerminatedSilently(t) == [state EXCEPT ![t] = "ZOMBIE"]

\* task_terminate, on the task states: t becomes a zombie and its parent,
\* if it sleeps, is made READY.
Terminated(t) ==
    LET dead == [state EXCEPT ![t] = "ZOMBIE"]
    IN  IF parent[t] # NoTask /\ dead[parent[t]] = "BLOCKED"
        THEN [dead EXCEPT ![parent[t]] = "READY"]
        ELSE dead

\* (faults: the children keep their parent pointer; they stay in t's list)
OrphanListOnly(t) ==
    /\ children' = [children EXCEPT ![t] = {}, ![Kernel] = @ \cup children[t]]
    /\ UNCHANGED parent
OrphanPointerOnly(t) ==
    /\ parent' = [n \in Node |-> IF n \in children[t] THEN Kernel ELSE parent[n]]
    /\ UNCHANGED children

\* task_terminate, on the family: every child goes to kernel_task.
Orphan(t) ==
    /\ parent' = [n \in Node |-> IF n \in children[t] THEN Kernel ELSE parent[n]]
    /\ children' = [children EXCEPT ![t] = {}, ![Kernel] = @ \cup children[t]]

\* The whole of task_terminate but the states, which the caller passes on.
Terminate(t) ==
    /\ t # Kernel
    /\ state[t] # "ZOMBIE"
    /\ Orphan(t)
    /\ waitFor' = [waitFor EXCEPT ![t] = NoTask]
    /\ pending' = [pending EXCEPT ![t] = FALSE]
    /\ UNCHANGED <<queue, handler>>

\* task_terminate(current_task) and sched(), which does not come back.
Die ==
    /\ Terminate(current)
    /\ Sched(Terminated(current), [pc EXCEPT ![current] = "gone"])

Exit == InUser /\ Die

\* A CPU exception or a page fault of user mode that cannot be resolved.
Fault == InUser /\ Die

\* task_reap: out of the run queue, the table and the parent's children,
\* and back to the allocator.
Reap(c) ==
    /\ next' = [n \in Node |-> IF n = c THEN NoTask
                               ELSE IF next[n] = c THEN next[c] ELSE next[n]]
    /\ table' = table \ {c}
    /\ children' = [n \in Node |-> children[n] \ {c}]
    /\ parent' = [parent EXCEPT ![c] = NoTask]
    /\ state' = [state EXCEPT ![c] = "FREE"]
    /\ handler' = [handler EXCEPT ![c] = FALSE]
    /\ UNCHANGED pending

-----------------------------------------------------------------------------
(***************************************************************************)
(* waitpid.  The loop is entered from user mode with the task of the given *)
(* pid and entered again behind sched() with the same local pointer.       *)
(***************************************************************************)
\* (fault: any pid can be waited for)
WaitingForAnyone(c) ==
    \/ InUser /\ c \in table
    \/ pc[current] = "wait" /\ waitFor[current] = c

Waiting(c) ==
    \/ InUser /\ c \in table /\ parent[c] = current
    \/ pc[current] = "wait" /\ waitFor[current] = c

\* The child still lives and no signal is pending: sleep.
WaitBlock ==
    /\ \E c \in Task :
        /\ Waiting(c)
        /\ state[c] # "ZOMBIE"
        /\ waitFor' = [waitFor EXCEPT ![current] = c]
    /\ ~pending[current]
    /\ Sched([state EXCEPT ![current] = "BLOCKED"],
             [pc EXCEPT ![current] = "wait"])
    /\ UNCHANGED <<family, queue, signal>>

\* (fault: the interrupted call uses the signal up)
WaitInterruptedOnce ==
    /\ \E c \in Task : Waiting(c) /\ state[c] # "ZOMBIE"
    /\ pending[current]
    /\ pending' = [pending EXCEPT ![current] = FALSE]
    /\ waitFor' = [waitFor EXCEPT ![current] = NoTask]
    /\ Continue("return")
    /\ UNCHANGED <<state, family, queue, handler>>

\* -EINTR.
WaitInterrupted ==
    /\ \E c \in Task : Waiting(c) /\ state[c] # "ZOMBIE"
    /\ pending[current]
    /\ waitFor' = [waitFor EXCEPT ![current] = NoTask]
    /\ Continue("return")
    /\ UNCHANGED <<state, family, queue, signal>>

\* The child is a zombie: take its status and reap it.
WaitCollect ==
    /\ \E c \in Task :
        /\ Waiting(c)
        /\ state[c] = "ZOMBIE"
        /\ Reap(c)
    /\ waitFor' = [waitFor EXCEPT ![current] = NoTask]
    /\ Continue("return")

-----------------------------------------------------------------------------
(***************************************************************************)
(* The idle loop of the kernel task.                                       *)
(***************************************************************************)
\* Behind hlt (or from kinit): task_reap_orphans with interrupts off.
IdleWake ==
    /\ current = Kernel /\ pc[Kernel] = "idle"
    /\ Continue("reap")
    /\ UNCHANGED <<state, family, queue, waitFor, signal>>

Orphans == {t \in table \ {Kernel} : state[t] = "ZOMBIE" /\ parent[t] = Kernel}

\* One iteration of its loop that finds an orphan.
ReapOrphan ==
    /\ current = Kernel /\ pc[Kernel] = "reap"
    /\ \E t \in Orphans : Reap(t)
    /\ UNCHANGED <<current, pc, waitFor>>

\* (fault: back to sleep without a look at the table)
IdleSleepAtOnce ==
    /\ current = Kernel /\ pc[Kernel] = "reap"
    /\ Continue("idle")
    /\ UNCHANGED <<state, family, queue, waitFor, signal>>

\* sti, hlt.
IdleSleep ==
    /\ current = Kernel /\ pc[Kernel] = "reap"
    /\ Orphans = {}
    /\ Continue("idle")
    /\ UNCHANGED <<state, family, queue, waitFor, signal>>

-----------------------------------------------------------------------------
(***************************************************************************)
(* Signals.  SIGKILL, and SIGTERM to a task without a handler, end in      *)
(* task_terminate at once, so that the only signal pending_signal keeps    *)
(* between two actions is a SIGTERM its task can catch.                    *)
(***************************************************************************)
CanSignal(t) ==
    /\ SignalsUsed
    /\ InUser
    /\ t \in table \ {Kernel}
    /\ state[t] # "ZOMBIE"

\* signal_send to another task that does not survive it.
SignalKill ==
    \E t \in Task \ {current} :
        /\ CanSignal(t)
        /\ Terminate(t)
        /\ state' = Terminated(t)
        /\ pc' = [pc EXCEPT ![t] = "gone", ![current] = "return"]
        /\ UNCHANGED current

\* signal_send to the caller itself: sched() inside execute_signal.
SignalSelf ==
    /\ CanSignal(current)
    /\ Die

\* SIGTERM with a handler: pending, and a sleeper is made READY.
SignalCatch ==
    \E t \in Task :
        /\ CanSignal(t)
        /\ handler[t]
        /\ pending' = [pending EXCEPT ![t] = TRUE]
        /\ state' = IF state[t] = "BLOCKED" THEN [state EXCEPT ![t] = "READY"]
                                            ELSE state
        /\ Continue("return")
        /\ UNCHANGED <<family, queue, waitFor, handler>>

\* signal_check_user with nothing pending.
ReturnToUser ==
    /\ pc[current] = "return"
    /\ ~pending[current]
    /\ Continue("user")
    /\ UNCHANGED <<state, family, queue, waitFor, signal>>

\* signal_check_user enters the handler, which is used up.
RunHandler ==
    /\ pc[current] = "return"
    /\ pending[current] /\ handler[current]
    /\ pending' = [pending EXCEPT ![current] = FALSE]
    /\ handler' = [handler EXCEPT ![current] = FALSE]
    /\ Continue("user")
    /\ UNCHANGED <<state, family, queue, waitFor>>

\* There is no handler, or its frame cannot be written to the user stack.
NoHandler ==
    /\ pc[current] = "return"
    /\ pending[current]
    /\ Die

-----------------------------------------------------------------------------
UserStep   == Trap \/ InputLine \/ Fork \/ Spawn \/ Execve \/ Exit \/ Fault
WaitStep   == WaitBlock \/ WaitInterrupted \/ WaitCollect
SignalStep == SignalKill \/ SignalSelf \/ SignalCatch
ReturnStep == InputReturn \/ ReturnToUser \/ RunHandler \/ NoHandler
IdleStep   == IdleWake \/ ReapOrphan \/ IdleSleep

Next == TimerTick \/ LineTyped \/ UserStep \/ WaitStep \/ SignalStep \/ ReturnStep \/ IdleStep

Spec == Init /\ [][Next]_vars

(***************************************************************************)
(* Fairness.  Kernel code that has started runs to its end (WF).  A timer  *)
(* interrupt that arrives while interrupts are off stays pending in the    *)
(* local APIC and is taken when they are enabled, and one pass of the idle *)
(* loop is far shorter than a timer period (SF).  Nothing is assumed of    *)
(* what user programs do, nor of whoever sits at the keyboard.             *)
(***************************************************************************)
KernelPath ==
    ReturnStep \/ ReapOrphan \/ IdleSleep \/ (pc[current] = "wait" /\ WaitStep)

FairSpec ==
    /\ Spec
    /\ WF_vars(KernelPath)
    /\ SF_vars(TimerTick)
    /\ SF_vars(IdleWake)

-----------------------------------------------------------------------------
(***************************************************************************)
(* What the component promises.                                            *)
(***************************************************************************)
\* Exactly one task is RUNNING, and it is the one current_task points at:
\* no path through sched(), a wake-up or a signal leaves a second one.
OneRunning == {n \in Node : state[n] = "RUNNING"} = {current}

\* The parent pointers and the children lists tell the same story, so that
\* task_reap and task_terminate, which each follow only one of them, agree.
FamilyConsistent ==
    \A p \in Node, c \in Task : c \in children[p] <=> state[c] # "FREE" /\ parent[c] = p

\* Nobody's parent is a zombie or a freed struct: every task always has
\* someone who will collect it, and task_terminate may follow t->parent.
ParentLive ==
    \A t \in Task : state[t] # "FREE" =>
        /\ parent[t] \in Allocated
        /\ state[parent[t]] # "ZOMBIE"

\* A task inside waitpid holds a pointer to a child that still exists and is
\* still its own, whatever ran while it was switched out; it sleeps only as
\* long as that child lives.  Together: no wake-up is lost.
WaitTargetOwned ==
    \A p \in Task : pc[p] = "wait" =>
        /\ waitFor[p] \in Task
        /\ waitFor[p] \in Allocated
        /\ parent[waitFor[p]] = p
NoLostWakeup ==
    \A p \in Task : state[p] = "BLOCKED" =>
        /\ state[waitFor[p]] # "ZOMBIE"
        /\ ~pending[p]

\* tasks[] holds exactly the allocated structs, and next permutes them: no
\* task is queued twice, and no walk of the queue touches a freed struct.
QueueClosed ==
    /\ table = Allocated
    /\ \A n \in Allocated : next[n] \in Allocated
    /\ \A m, n \in Allocated : next[m] = next[n] => m = n

\* Moreover the run queue is one cycle, short enough for the bounded walk of
\* pick_next_task to see everybody.
Reached == {Walk[i] : i \in 0..(MaxTasks + 1)}
QueueIsTable == QueueClosed /\ Reached = Allocated

\* Every task that may be given the CPU has a place to resume at, and only
\* the current one is in user mode or in the tail of a system call.
CanResume ==
    \A t \in Task :
        /\ state[t] = "READY" => pc[t] \in {"fresh", "return", "wait", "input"}
        /\ state[t] = "RUNNING" => pc[t] \in {"user", "return", "wait", "poll", "input"}
        /\ state[t] = "BLOCKED" => pc[t] = "wait"
        /\ state[t] \in {"ZOMBIE", "FREE"} => pc[t] = "gone"

\* The kernel task is never blocked, killed or reaped, and the orphan scan
\* is never switched out.
KernelStays ==
    /\ parent[Kernel] = Kernel
    /\ state[Kernel] \in {"READY", "RUNNING"}
    /\ pc[Kernel] \in {"idle", "reap"}
    /\ pc[Kernel] = "reap" => current = Kernel

\* The conjunction that every step preserves.
IInv ==
    /\ TypeOK
    /\ OneRunning
    /\ KernelStays
    /\ CanResume
    /\ FamilyConsistent
    /\ ParentLive
    /\ WaitTargetOwned
    /\ NoLostWakeup
    /\ QueueClosed

\* The kernel task gets the CPU only when no user task is alive, for a task
\* sleeps only for a living child, and some last child can run.  Nothing
\* else calls task_reap_orphans: an orphan keeps its slot until then.
IdleOnlyWhenAlone ==
    [][current # Kernel /\ current' = Kernel
          => \A t \in Task : state'[t] \in {"ZOMBIE", "FREE"}]_vars

\* A struct is freed only as a zombie and only by the task that is its
\* parent at that moment: an exit status is never thrown away while the
\* parent could still ask for it, and never handed out twice.
ReapedByParent ==
    [][\A t \in Task : state[t] # "FREE" /\ state'[t] = "FREE"
          => state[t] = "ZOMBIE" /\ parent[t] = current]_vars

\* The dead stay dead: no late wake-up, signal or switch revives a zombie.
DeadStayDead ==
    [][\A t \in Task : state[t] = "ZOMBIE" => state'[t] \in {"ZOMBIE", "FREE"}]_vars

\* A SIGTERM that was accepted is not forgotten: it leaves pending_signal
\* when the handler starts, with the task, or when execve replaces the image.
TermNotForgotten ==
    [][\A t \in Task : pending[t] /\ ~pending'[t]
          => \/ state'[t] = "ZOMBIE"
             \/ handler[t] /\ ~handler'[t]
             \/ Execve]_vars

\* No task stays in the polling loop of input() for ever.  This is the user's
\* to see to: as long as nobody types Enter, interrupts are off and the task
\* that reads the line keeps the CPU from all others.
LinesAreTyped == []<>(pc[current] # "poll")

\* Round robin: unless a reader polls for ever, a READY task gets the CPU (or
\* is killed), however often the others fork, exit, trap, read lines and wake
\* each other.
NoStarvation ==
    LinesAreTyped => \A t \in Task : state[t] = "READY" ~> state[t] # "READY"

\* When all user tasks are dead the idle loop gives every struct back: the
\* zombies left then are all orphans, whoever their parents were.
AllDeadReaped ==
    (\A t \in Task : state[t] \in {"ZOMBIE", "FREE"})
        ~> (\A t \in Task : state[t] = "FREE")

=============================================================================
