---------------------------- MODULE TasksProofs ----------------------------
(* Proofs about Tasks, for any number of structs and any table length: its   *)
(* inductive invariant, that it implements Processes, and its run queue.     *)
EXTENDS TasksRefinement, DataLemmas, FiniteSetTheorems, TLAPS

States == {"FREE", "READY", "RUNNING", "BLOCKED", "ZOMBIE"}
Points == {"fresh", "user", "return", "wait", "poll", "input", "idle", "reap", "gone"}

\* pick_next_task returns kernel_task or a user task that is READY.
LEMMA PickNextReady ==
    \A st : \/ PickNext(st) = Kernel
            \/ PickNext(st) \in Task /\ st[PickNext(st)] = "READY"
<1> TAKE st
<1> DEFINE I == 0..(MaxTasks + 1)
           First(i) == /\ Eligible(st, Walk[i])
                       /\ \A j \in 0..(i - 1) : ~Eligible(st, Walk[j])
<1>1. CASE \E i \in I : First(i)
    <2> DEFINE c == CHOOSE i \in I : First(i)
    <2>1. First(c)
        BY <1>1
    <2>2. Eligible(st, Walk[c])
        BY <2>1
    <2>3. PickNext(st) = Walk[c]
        BY <1>1 DEF PickNext, FirstReady
    <2> QED
        BY <2>2, <2>3 DEF Eligible
<1>2. CASE ~ \E i \in I : First(i)
    BY <1>2 DEF PickNext, FirstReady
<1> QED
    BY <1>1, <1>2

\* What sched() does, without the walk: the CPU goes to kernel_task or to a
\* READY user task, perhaps the one that had it.
LEMMA SchedEffect ==
    \A st \in [Node -> States], at \in [Node -> Points] :
        Sched(st, at) =>
            \E n \in Node :
                /\ n = Kernel \/ (n \in Task /\ Preempted(st)[n] = "READY")
                /\ current' = n
                /\ state' = [Preempted(st) EXCEPT ![n] = "RUNNING"]
                /\ pc' = [at EXCEPT ![n] = IF @ = "fresh" THEN "user" ELSE @]
<1> TAKE st \in [Node -> States], at \in [Node -> Points]
<1> HAVE Sched(st, at)
<1>1. PickNext(Preempted(st)) \in Node
    BY PickNextReady DEF Node
<1> WITNESS PickNext(Preempted(st)) \in Node
<1> QED
    BY PickNextReady DEF Sched

THEOREM InitIInv == Init => IInv
<1> SUFFICES ASSUME Init PROVE IInv
    OBVIOUS
<1> USE TasksAssumption DEF Node
<1>0. PICK init \in Task :
        /\ current = Kernel
        /\ state = [n \in Node |-> CASE n = Kernel -> "RUNNING"
                                     [] n = init -> "READY"
                                     [] OTHER -> "FREE"]
        /\ parent = [n \in Node |-> IF n \in {Kernel, init} THEN Kernel ELSE NoTask]
        /\ children = [n \in Node |-> IF n = Kernel THEN {init} ELSE {}]
        /\ next = [n \in Node |-> CASE n = Kernel -> init
                                    [] n = init -> Kernel
                                    [] OTHER -> NoTask]
        /\ table = {Kernel, init}
        /\ pc = [n \in Node |-> CASE n = Kernel -> "idle"
                                  [] n = init -> "fresh"
                                  [] OTHER -> "gone"]
        /\ waitFor = [n \in Node |-> NoTask]
        /\ pending = [n \in Node |-> FALSE]
        /\ handler \in {[n \in Node |-> n = init /\ h] : h \in BOOLEAN}
    BY DEF Init
<1>1. TypeOK
  <2>1. handler \in [Node -> BOOLEAN]
    BY <1>0, Zenon
  <2>2. pending \in [Node -> BOOLEAN]
    BY <1>0
  <2> QED
    BY <1>0, <2>1, <2>2 DEF TypeOK
<1>2. OneRunning
    BY <1>0 DEF OneRunning
<1>3. KernelStays
    BY <1>0 DEF KernelStays
<1>4. CanResume
    BY <1>0 DEF CanResume
<1>5. FamilyConsistent
    BY <1>0 DEF FamilyConsistent
<1>6. ParentLive
    BY <1>0 DEF ParentLive, Allocated
<1>7. WaitTargetOwned
    BY <1>0 DEF WaitTargetOwned
<1>8. NoLostWakeup
    BY <1>0 DEF NoLostWakeup
<1>9. QueueClosed
    BY <1>0 DEF QueueClosed, Allocated
<1> QED
    BY <1>1, <1>2, <1>3, <1>4, <1>5, <1>6, <1>7, <1>8, <1>9 DEF IInv

\* Steps that move only the resume point of the current task.
LEMMA QuietStep ==
    ASSUME IInv, UNCHANGED <<current, state, family, queue, waitFor>>,
           NEW p \in Points, pc' = [pc EXCEPT ![current] = p],
           pending' \in [Node -> BOOLEAN], handler' \in [Node -> BOOLEAN],
           \A t \in Task : pending'[t] => pending[t],
           current \in Task => p \in {"user", "return", "poll", "input"},
           current = Kernel => p \in {"idle", "reap"}
    PROVE  IInv'
<1> USE TasksAssumption DEF IInv, Node, Points, family, queue
<1>1. TypeOK'
    BY DEF TypeOK
<1>2. OneRunning'
    BY DEF OneRunning
<1>3. state[current] = "RUNNING"
    BY DEF OneRunning
<1>4. KernelStays'
    BY DEF KernelStays, TypeOK
<1>5. CanResume'
    BY <1>3 DEF CanResume, TypeOK
<1>6. FamilyConsistent'
    BY DEF FamilyConsistent
<1>7. ParentLive'
    BY DEF ParentLive, Allocated
<1>8. WaitTargetOwned'
    BY DEF WaitTargetOwned, Allocated, TypeOK
<1>9. NoLostWakeup'
    BY DEF NoLostWakeup
<1>10. QueueClosed'
    BY DEF QueueClosed, Allocated
<1> QED
    BY <1>1, <1>2, <1>4, <1>5, <1>6, <1>7, <1>8, <1>9, <1>10

LEMMA TimerTickStep ==
    ASSUME IInv, TimerTick
    PROVE  IInv'
<1> USE TasksAssumption DEF IInv, Node
<1> DEFINE at == [pc EXCEPT ![current] = IF @ = "user" THEN "return" ELSE @]
<1>0. state \in [Node -> States] /\ at \in [Node -> Points]
    BY DEF TypeOK, States, Points
<1>1. PICK n \in Node :
        /\ n = Kernel \/ (n \in Task /\ Preempted(state)[n] = "READY")
        /\ current' = n
        /\ state' = [Preempted(state) EXCEPT ![n] = "RUNNING"]
        /\ pc' = [at EXCEPT ![n] = IF @ = "fresh" THEN "user" ELSE @]
    BY <1>0, SchedEffect DEF TimerTick
<1>a. UNCHANGED <<parent, children, next, table, waitFor, pending, handler>>
    BY DEF TimerTick, family, queue, signal
<1>b. state[current] = "RUNNING" /\ Preempted(state) = [state EXCEPT ![current] = "READY"]
    BY DEF OneRunning, Preempted
<1>2. TypeOK'
    BY <1>0, <1>1, <1>a, <1>b DEF TypeOK, States, Points
<1>3. OneRunning'
    BY <1>1, <1>b DEF OneRunning, TypeOK
<1>4. KernelStays'
    BY <1>1, <1>a, <1>b DEF KernelStays, TypeOK, TimerTick
<1>5. CanResume'
    BY <1>1, <1>b DEF CanResume, TypeOK, TimerTick
<1>6. FamilyConsistent'
    BY <1>1, <1>a, <1>b DEF FamilyConsistent, TypeOK
<1>7. ParentLive'
    BY <1>1, <1>a, <1>b DEF ParentLive, Allocated, TypeOK
<1>8. WaitTargetOwned'
    BY <1>1, <1>a, <1>b DEF WaitTargetOwned, Allocated, TypeOK
<1>9. NoLostWakeup'
  <2>1. \A m \in Node : state'[m] \in {"BLOCKED", "ZOMBIE"} => state'[m] = state[m]
    BY <1>1, <1>b DEF TypeOK
  <2>2. \A p \in Task : state[p] = "BLOCKED" => waitFor[p] \in Task
    BY DEF CanResume, WaitTargetOwned
  <2> QED
    BY <1>a, <2>1, <2>2 DEF NoLostWakeup
<1>10. QueueClosed'
  <2>1. Allocated' = Allocated
    BY <1>1, <1>b DEF Allocated, TypeOK, KernelStays
  <2> QED
    BY <1>a, <2>1 DEF QueueClosed
<1> QED
    BY <1>2, <1>3, <1>4, <1>5, <1>6, <1>7, <1>8, <1>9, <1>10

\* waitpid goes to sleep: the child it waits for is its own and alive.
LEMMA WaitBlockStep ==
    ASSUME IInv, WaitBlock
    PROVE  IInv'
<1> USE TasksAssumption DEF IInv, Node
<1> DEFINE st == [state EXCEPT ![current] = "BLOCKED"]
           at == [pc EXCEPT ![current] = "wait"]
<1>0. st \in [Node -> States] /\ at \in [Node -> Points]
    BY DEF TypeOK, States, Points
<1>1. PICK n \in Node :
        /\ n = Kernel \/ (n \in Task /\ Preempted(st)[n] = "READY")
        /\ current' = n
        /\ state' = [Preempted(st) EXCEPT ![n] = "RUNNING"]
        /\ pc' = [at EXCEPT ![n] = IF @ = "fresh" THEN "user" ELSE @]
    BY <1>0, SchedEffect DEF WaitBlock
<1>2. PICK c \in Task :
        /\ Waiting(c)
        /\ state[c] # "ZOMBIE"
        /\ waitFor' = [waitFor EXCEPT ![current] = c]
    BY DEF WaitBlock
<1>a. UNCHANGED <<parent, children, next, table, pending, handler>> /\ ~pending[current]
    BY DEF WaitBlock, family, queue, signal
<1>b. state[current] = "RUNNING" /\ current \in Task /\ Preempted(st) = st
    BY <1>2 DEF OneRunning, Preempted, TypeOK, Waiting, InUser, KernelStays
<1>c. parent[c] = current /\ state[c] # "FREE"
    BY <1>2, <1>b DEF Waiting, WaitTargetOwned, QueueClosed, Allocated
<1>d. n # current
    BY <1>1, <1>b, <1>0 DEF TypeOK
<1>3. TypeOK'
    BY <1>0, <1>1, <1>2, <1>a, <1>b DEF TypeOK, States, Points
<1>4. OneRunning'
    BY <1>1, <1>b, <1>d DEF OneRunning, TypeOK
<1>5. KernelStays'
    BY <1>1, <1>a, <1>b, <1>d DEF KernelStays, TypeOK
<1>6. CanResume'
    BY <1>1, <1>b, <1>d DEF CanResume, TypeOK, KernelStays
<1>7. Allocated' = Allocated
    BY <1>1, <1>b DEF Allocated, TypeOK, KernelStays
<1>8. FamilyConsistent'
    BY <1>7, <1>a DEF FamilyConsistent, Allocated, TypeOK
<1>9. ParentLive'
    BY <1>1, <1>7, <1>a, <1>b DEF ParentLive, TypeOK, Allocated
<1>10. WaitTargetOwned'
    BY <1>1, <1>2, <1>7, <1>a, <1>b, <1>c, <1>d DEF WaitTargetOwned, Allocated, TypeOK
<1>11. NoLostWakeup'
  <2>1. \A m \in Node : m # current /\ state'[m] \in {"BLOCKED", "ZOMBIE"}
                            => state'[m] = state[m]
    BY <1>1, <1>b DEF TypeOK
  <2>2. \A p \in Task : state[p] = "BLOCKED" => waitFor[p] \in Task
    BY DEF CanResume, WaitTargetOwned
  <2>3. state'[current] = "BLOCKED"
    BY <1>1, <1>b, <1>d DEF TypeOK
  <2>4. state'[c] # "ZOMBIE"
    BY <1>2, <2>1, <2>3
  <2> QED
    BY <1>2, <1>a, <1>b, <2>1, <2>2, <2>3, <2>4 DEF NoLostWakeup, TypeOK
<1>12. QueueClosed'
    BY <1>7, <1>a DEF QueueClosed
<1> QED
    BY <1>3, <1>4, <1>5, <1>6, <1>8, <1>9, <1>10, <1>11, <1>12

\* task_reap of a child of the current task, in waitpid or in the idle loop.
LEMMA ReapStep ==
    ASSUME IInv, NEW c \in Task, state[c] = "ZOMBIE", parent[c] = current, Reap(c),
           UNCHANGED current,
           NEW q \in Points, pc' = [pc EXCEPT ![current] = q],
           current = Kernel => q \in {"idle", "reap"},
           current \in Task => q = "return",
           waitFor' \in [Node -> Task \cup {NoTask}],
           \A p \in Task \ {current} : waitFor'[p] = waitFor[p]
    PROVE  IInv'
<1> USE TasksAssumption DEF IInv, Node
<1>1. state[current] = "RUNNING" /\ current # c
    BY DEF OneRunning
<1>2. TypeOK'
    BY <1>1 DEF TypeOK, Reap, Points
<1>3. OneRunning'
    BY <1>1 DEF OneRunning, Reap, TypeOK
<1>4. KernelStays'
    BY <1>1 DEF KernelStays, Reap, TypeOK
<1>5. CanResume'
    BY <1>1 DEF CanResume, Reap, TypeOK
<1>6. Allocated' = Allocated \ {c}
    BY DEF Allocated, Reap, TypeOK
<1>7. FamilyConsistent'
    BY DEF FamilyConsistent, Reap, TypeOK
<1>8. ParentLive'
    BY <1>6 DEF ParentLive, Reap, TypeOK, Allocated
<1>9. \A p \in Task : pc'[p] = "wait" => pc[p] = "wait" /\ waitFor'[p] = waitFor[p]
    BY DEF TypeOK
<1>10. WaitTargetOwned'
  <2> SUFFICES ASSUME NEW p \in Task, pc'[p] = "wait"
               PROVE  /\ waitFor'[p] \in Task
                      /\ waitFor'[p] \in Allocated'
                      /\ parent'[waitFor'[p]] = p
    BY DEF WaitTargetOwned
  <2>1. pc[p] = "wait" /\ waitFor'[p] = waitFor[p] /\ p # current
    BY <1>9 DEF TypeOK
  <2>2. waitFor[p] \in Task /\ waitFor[p] # c /\ parent[waitFor[p]] = p
    BY <2>1 DEF WaitTargetOwned
  <2> QED
    BY <2>1, <2>2, <1>6 DEF WaitTargetOwned, Reap, TypeOK
<1>11. NoLostWakeup'
  <2> SUFFICES ASSUME NEW p \in Task, state'[p] = "BLOCKED"
               PROVE  state'[waitFor'[p]] # "ZOMBIE" /\ ~pending'[p]
    BY DEF NoLostWakeup
  <2>1. state[p] = "BLOCKED" /\ p # current /\ pc[p] = "wait" /\ ~pending[p]
    BY <1>1 DEF Reap, TypeOK, CanResume, NoLostWakeup
  <2>2. waitFor'[p] = waitFor[p] /\ waitFor[p] \in Task /\ state[waitFor[p]] # "ZOMBIE"
    BY <2>1 DEF WaitTargetOwned, NoLostWakeup
  <2> QED
    BY <2>1, <2>2 DEF Reap, TypeOK
<1>12. QueueClosed'
  <2>1. table' = Allocated'
    BY <1>6 DEF QueueClosed, Reap
  <2>2. \A n \in Allocated' : next'[n] = IF next[n] = c THEN next[c] ELSE next[n]
    BY <1>6 DEF Reap, Allocated
  <2>3. c \in Allocated
    BY DEF Allocated
  <2> QED
    BY <2>1, <2>2, <2>3, <1>6 DEF QueueClosed
<1> QED
    BY <1>2, <1>3, <1>4, <1>5, <1>7, <1>8, <1>10, <1>11, <1>12

\* fork and spawn.
LEMMA CreateStep ==
    ASSUME IInv, InUser, NEW c \in Task, NEW catches \in BOOLEAN, Create(c, catches)
    PROVE  IInv'
<1> USE TasksAssumption DEF IInv, Node
<1>1. /\ state[current] = "RUNNING" /\ current \in Task
      /\ state[c] = "FREE" /\ current # c
      /\ state' = [state EXCEPT ![c] = "READY"]
      /\ pc' = [pc EXCEPT ![c] = "fresh", ![current] = "return"]
      /\ handler' = [handler EXCEPT ![c] = catches]
      /\ UNCHANGED <<current, waitFor, pending>>
    BY DEF OneRunning, InUser, Create
<1>2. /\ parent' = [parent EXCEPT ![c] = current]
      /\ children' = [children EXCEPT ![current] = @ \cup {c}]
      /\ next' = [next EXCEPT ![c] = next[Kernel], ![Kernel] = c]
      /\ table' = table \cup {c}
    BY DEF Create, Link
<1>3. TypeOK'
    BY <1>1, <1>2 DEF TypeOK
<1>4. OneRunning'
    BY <1>1 DEF OneRunning, TypeOK
<1>5. KernelStays'
    BY <1>1, <1>2 DEF KernelStays, TypeOK
<1>6. CanResume'
    BY <1>1 DEF CanResume, TypeOK
<1>7. Allocated' = Allocated \cup {c}
    BY <1>1 DEF Allocated, TypeOK
<1>8. FamilyConsistent'
    BY <1>1, <1>2 DEF FamilyConsistent, TypeOK
<1>9. ParentLive'
    BY <1>1, <1>2, <1>7 DEF ParentLive, TypeOK, Allocated
<1>10. WaitTargetOwned'
  <2> SUFFICES ASSUME NEW p \in Task, pc'[p] = "wait"
               PROVE  /\ waitFor'[p] \in Task
                      /\ waitFor'[p] \in Allocated'
                      /\ parent'[waitFor'[p]] = p
    BY DEF WaitTargetOwned
  <2>1. pc[p] = "wait"
    BY <1>1 DEF TypeOK
  <2>2. waitFor[p] \in Task /\ waitFor[p] # c /\ parent[waitFor[p]] = p
    BY <2>1, <1>1 DEF WaitTargetOwned, Allocated
  <2> QED
    BY <2>1, <2>2, <1>1, <1>2, <1>7 DEF WaitTargetOwned, TypeOK
<1>11. NoLostWakeup'
  <2> SUFFICES ASSUME NEW p \in Task, state'[p] = "BLOCKED"
               PROVE  state'[waitFor'[p]] # "ZOMBIE" /\ ~pending'[p]
    BY DEF NoLostWakeup
  <2>1. state[p] = "BLOCKED" /\ pc[p] = "wait" /\ ~pending[p]
    BY <1>1 DEF TypeOK, CanResume, NoLostWakeup
  <2>2. waitFor[p] \in Task /\ state[waitFor[p]] # "ZOMBIE"
    BY <2>1 DEF WaitTargetOwned, NoLostWakeup
  <2> QED
    BY <2>1, <2>2, <1>1 DEF TypeOK
<1>12. QueueClosed'
  <2>1. Kernel \in Allocated /\ c \notin Allocated
    BY <1>1 DEF Allocated, KernelStays
  <2> QED
    BY <2>1, <1>1, <1>2, <1>7 DEF QueueClosed, TypeOK
<1> QED
    BY <1>3, <1>4, <1>5, <1>6, <1>8, <1>9, <1>10, <1>11, <1>12

\* task_terminate(t), by t itself or by another task; n is the task that has
\* the CPU behind it.
LEMMA TerminateStep ==
    ASSUME IInv, current \in Task, NEW t \in Task, Terminate(t), state[t] # "FREE",
           NEW n \in Node, n # t, t = current \/ n = current,
           Terminated(t)[n] \in {"READY", "RUNNING"},
           current' = n,
           state' = [Terminated(t) EXCEPT ![n] = "RUNNING"],
           pc' \in [Node -> Points], pc'[t] = "gone",
           \A m \in Node \ {t, n} : pc'[m] = pc[m],
           n = Kernel => pc'[n] = pc[n],
           n \in Task =>
               \/ pc'[n] \in {"user", "return", "input"}
               \/ pc'[n] = "wait" /\ pc[n] = "wait"
    PROVE  IInv'
<1> USE TasksAssumption DEF IInv, Node
<1>0. /\ state[current] = "RUNNING" /\ state[t] # "ZOMBIE"
      /\ Orphan(t)
      /\ waitFor' = [waitFor EXCEPT ![t] = NoTask]
      /\ pending' = [pending EXCEPT ![t] = FALSE]
      /\ UNCHANGED <<next, table, handler>>
    BY DEF OneRunning, Terminate, queue
<1>1. /\ Terminated(t) \in [Node -> States]
      /\ Terminated(t)[t] = "ZOMBIE"
      /\ \A m \in Node \ {t} :
            \/ Terminated(t)[m] = state[m] /\ (m = parent[t] => state[m] # "BLOCKED")
            \/ m = parent[t] /\ state[m] = "BLOCKED" /\ Terminated(t)[m] = "READY"
    BY DEF Terminated, TypeOK, States
<1>2. /\ state' \in [Node -> States]
      /\ state'[t] = "ZOMBIE" /\ state'[n] = "RUNNING"
      /\ state[n] \in {"READY", "RUNNING", "BLOCKED"}
      /\ \A m \in Node \ {t, n} :
            \/ state'[m] = state[m] /\ (m = parent[t] => state[m] # "BLOCKED")
            \/ m = parent[t] /\ state[m] = "BLOCKED" /\ state'[m] = "READY"
    BY <1>1 DEF TypeOK, States
<1>3. TypeOK'
    BY <1>0, <1>2 DEF TypeOK, Orphan, States, Points
<1>4. OneRunning'
    BY <1>2 DEF OneRunning, TypeOK
<1>5. KernelStays'
  <2>1. Kernel \notin children[t]
    BY DEF TypeOK
  <2> QED
    BY <1>0, <1>2, <2>1 DEF KernelStays, TypeOK, Orphan
<1>6. CanResume'
    BY <1>2 DEF CanResume, TypeOK
<1>7. Allocated' = Allocated
    BY <1>2 DEF Allocated
<1>8. FamilyConsistent'
  <2>1. \A u \in Task : (u \in children[t]) <=> (state[u] # "FREE" /\ parent[u] = t)
    BY DEF FamilyConsistent
  <2>2. \A u \in Task : (state'[u] # "FREE") <=> (state[u] # "FREE")
    BY <1>2
  <2> SUFFICES ASSUME NEW p \in Node, NEW u \in Task
               PROVE  u \in children'[p] <=> state'[u] # "FREE" /\ parent'[u] = p
    BY DEF FamilyConsistent
  <2>3. u \in children[p] <=> state[u] # "FREE" /\ parent[u] = p
    BY DEF FamilyConsistent
  <2>4. parent'[u] = IF u \in children[t] THEN Kernel ELSE parent[u]
    BY <1>0 DEF Orphan
  <2>5. CASE p = t
    BY <1>0, <2>1, <2>2, <2>4, <2>5 DEF Orphan, TypeOK
  <2>6. CASE p = Kernel
    BY <1>0, <2>1, <2>2, <2>3, <2>4, <2>6 DEF Orphan, TypeOK
  <2>7. CASE p \notin {t, Kernel}
    BY <1>0, <2>1, <2>2, <2>3, <2>4, <2>7 DEF Orphan, TypeOK
  <2> QED
    BY <2>5, <2>6, <2>7
<1>9. ParentLive'
  <2> SUFFICES ASSUME NEW u \in Task, state'[u] # "FREE"
               PROVE  parent'[u] \in Allocated' /\ state'[parent'[u]] # "ZOMBIE"
    BY DEF ParentLive
  <2>1. state[u] # "FREE" /\ parent[u] \in Allocated /\ state[parent[u]] # "ZOMBIE"
    BY <1>2 DEF ParentLive
  <2>2. CASE u \in children[t]
    <3>1. parent'[u] = Kernel
      BY <1>0, <2>2 DEF Orphan
    <3> QED
      BY <3>1, <1>5 DEF KernelStays, Allocated
  <2>3. CASE u \notin children[t]
    <3>1. parent'[u] = parent[u] /\ parent[u] # t
      BY <1>0, <2>1, <2>3 DEF Orphan, FamilyConsistent
    <3> QED
      BY <3>1, <2>1, <1>2, <1>7 DEF Allocated
  <2> QED
    BY <2>2, <2>3
<1>10. WaitTargetOwned'
  <2> SUFFICES ASSUME NEW p \in Task, pc'[p] = "wait"
               PROVE  /\ waitFor'[p] \in Task
                      /\ waitFor'[p] \in Allocated'
                      /\ parent'[waitFor'[p]] = p
    BY DEF WaitTargetOwned
  <2>1. p # t /\ pc[p] = "wait" /\ waitFor'[p] = waitFor[p]
    BY <1>0 DEF TypeOK
  <2>2. waitFor[p] \in Task /\ waitFor[p] \in Allocated /\ parent[waitFor[p]] = p
    BY <2>1 DEF WaitTargetOwned
  <2>3. waitFor[p] \notin children[t]
    BY <2>1, <2>2 DEF FamilyConsistent
  <2> QED
    BY <2>1, <2>2, <2>3, <1>0, <1>7 DEF Orphan
<1>11. NoLostWakeup'
  <2> SUFFICES ASSUME NEW p \in Task, state'[p] = "BLOCKED"
               PROVE  state'[waitFor'[p]] # "ZOMBIE" /\ ~pending'[p]
    BY DEF NoLostWakeup
  <2>1. p \notin {t, n} /\ state[p] = "BLOCKED" /\ p # parent[t]
    BY <1>2
  <2>2. pc[p] = "wait" /\ ~pending[p] /\ state[waitFor[p]] # "ZOMBIE"
    BY <2>1 DEF CanResume, NoLostWakeup
  <2>3. waitFor[p] \in Task /\ waitFor[p] # t
    BY <2>1, <2>2 DEF WaitTargetOwned
  <2> QED
    BY <2>1, <2>2, <2>3, <1>0, <1>2 DEF TypeOK
<1>12. QueueClosed'
    BY <1>0, <1>7 DEF QueueClosed
<1> QED
    BY <1>3, <1>4, <1>5, <1>6, <1>8, <1>9, <1>10, <1>11, <1>12

\* The current task ends itself: exit, a fault, a signal without a handler.
LEMMA DieStep ==
    ASSUME IInv, current \in Task, Die
    PROVE  IInv'
<1> USE TasksAssumption DEF IInv, Node
<1> DEFINE st == Terminated(current)
           at == [pc EXCEPT ![current] = "gone"]
<1>0. /\ st \in [Node -> States] /\ st[current] = "ZOMBIE"
      /\ at \in [Node -> Points]
      /\ state[current] = "RUNNING"
      /\ Preempted(st) = st
    BY DEF TypeOK, States, Points, Terminated, OneRunning, Preempted
<1>1. PICK n \in Node :
        /\ n = Kernel \/ (n \in Task /\ Preempted(st)[n] = "READY")
        /\ current' = n
        /\ state' = [Preempted(st) EXCEPT ![n] = "RUNNING"]
        /\ pc' = [at EXCEPT ![n] = IF @ = "fresh" THEN "user" ELSE @]
    BY <1>0, SchedEffect DEF Die
<1>2. n # current
    BY <1>0, <1>1
<1>3. st[n] \in {"READY", "RUNNING"}
    BY <1>0, <1>1 DEF KernelStays, Terminated, TypeOK
<1>4. n = Kernel => pc'[n] = pc[n]
    BY <1>1, <1>2 DEF KernelStays, TypeOK
<1>5. n \in Task => pc[n] \in {"fresh", "return", "wait", "input"}
  <2>1. n \in Task => st[n] = "READY"
    BY <1>0, <1>1
  <2>2. n \in Task => state[n] \in {"READY", "BLOCKED"}
    BY <2>1, <1>2 DEF Terminated, TypeOK
  <2> QED
    BY <2>2 DEF CanResume
<1>6. /\ pc' \in [Node -> Points] /\ pc'[current] = "gone"
      /\ \A m \in Node \ {current, n} : pc'[m] = pc[m]
      /\ n \in Task =>
            \/ pc'[n] \in {"user", "return", "input"}
            \/ pc'[n] = "wait" /\ pc[n] = "wait"
    BY <1>0, <1>1, <1>2, <1>5 DEF TypeOK, Points
<1>7. /\ Terminate(current) /\ state[current] # "FREE"
      /\ state' = [st EXCEPT ![n] = "RUNNING"] /\ current' = n
    BY <1>0, <1>1 DEF Die
<1>8. PICK t \in Task : t = current
    OBVIOUS
<1>9. Terminate(t)
    BY <1>7, <1>8 DEF Terminate, Orphan
<1>10. /\ state[t] # "FREE" /\ n # t
       /\ Terminated(t)[n] \in {"READY", "RUNNING"}
       /\ state' = [Terminated(t) EXCEPT ![n] = "RUNNING"] /\ current' = n
    BY <1>2, <1>3, <1>7, <1>8
<1>11. /\ pc' \in [Node -> Points] /\ pc'[t] = "gone"
       /\ \A m \in Node \ {t, n} : pc'[m] = pc[m]
    BY <1>6, <1>8
<1> HIDE DEF IInv, Node
<1> QED
    BY <1>4, <1>8, <1>9, <1>10, <1>11, <1>6, TerminateStep

\* signal_send ends another task.
LEMMA SignalKillStep ==
    ASSUME IInv, SignalKill
    PROVE  IInv'
<1> USE TasksAssumption DEF IInv, Node
<1>1. PICK t \in Task \ {current} :
        /\ CanSignal(t)
        /\ Terminate(t)
        /\ state' = Terminated(t)
        /\ pc' = [pc EXCEPT ![t] = "gone", ![current] = "return"]
        /\ UNCHANGED current
    BY DEF SignalKill
<1>2. current \in Task /\ state[current] = "RUNNING" /\ state[t] # "FREE"
    BY <1>1 DEF CanSignal, InUser, OneRunning, QueueClosed, Allocated
<1>3. Terminated(t)[current] = "RUNNING" /\ Terminated(t) \in [Node -> States]
    BY <1>1, <1>2 DEF Terminated, TypeOK, States
<1>4. state' = [Terminated(t) EXCEPT ![current] = "RUNNING"]
    BY <1>1, <1>3
<1>5. /\ pc' \in [Node -> Points] /\ pc'[t] = "gone" /\ pc'[current] = "return"
      /\ \A m \in Node \ {t, current} : pc'[m] = pc[m]
    BY <1>1 DEF TypeOK, Points
<1>6. PICK n \in Task : n = current
    BY <1>2
<1>7. n \in Node /\ n # Kernel /\ n # t
    BY <1>1, <1>6
<1> HIDE DEF IInv, Node
<1> QED
    BY <1>1, <1>2, <1>3, <1>4, <1>5, <1>6, <1>7, TerminateStep

\* signal_send to a task with a handler.
LEMMA SignalCatchStep ==
    ASSUME IInv, SignalCatch
    PROVE  IInv'
<1> USE TasksAssumption DEF IInv, Node
<1>1. PICK t \in Task :
        /\ CanSignal(t)
        /\ pending' = [pending EXCEPT ![t] = TRUE]
        /\ state' = IF state[t] = "BLOCKED" THEN [state EXCEPT ![t] = "READY"] ELSE state
        /\ Continue("return")
        /\ UNCHANGED <<parent, children, next, table, waitFor, handler>>
    BY DEF SignalCatch, family, queue
<1>2. /\ current \in Task /\ state[current] = "RUNNING"
      /\ current' = current /\ pc' = [pc EXCEPT ![current] = "return"]
    BY <1>1 DEF CanSignal, InUser, OneRunning, Continue
<1>3. TypeOK'
    BY <1>1, <1>2 DEF TypeOK
<1>4. OneRunning'
    BY <1>1, <1>2 DEF OneRunning, TypeOK
<1>5. KernelStays'
    BY <1>1, <1>2 DEF KernelStays, TypeOK
<1>6. CanResume'
    BY <1>1, <1>2 DEF CanResume, TypeOK
<1>7. Allocated' = Allocated
    BY <1>1 DEF Allocated, TypeOK
<1>8. FamilyConsistent'
    BY <1>1 DEF FamilyConsistent, TypeOK
<1>9. ParentLive'
    BY <1>1, <1>7 DEF ParentLive, Allocated, TypeOK
<1>10. WaitTargetOwned'
    BY <1>1, <1>2, <1>7 DEF WaitTargetOwned, TypeOK
<1>11. NoLostWakeup'
  <2> SUFFICES ASSUME NEW p \in Task, state'[p] = "BLOCKED"
               PROVE  state'[waitFor'[p]] # "ZOMBIE" /\ ~pending'[p]
    BY DEF NoLostWakeup
  <2>1. state[p] = "BLOCKED" /\ p # t
    BY <1>1 DEF TypeOK
  <2>2. waitFor[p] \in Task /\ state[waitFor[p]] # "ZOMBIE" /\ ~pending[p]
    BY <2>1 DEF CanResume, NoLostWakeup, WaitTargetOwned
  <2> QED
    BY <1>1, <2>1, <2>2 DEF TypeOK
<1>12. QueueClosed'
    BY <1>1, <1>7 DEF QueueClosed
<1> QED
    BY <1>3, <1>4, <1>5, <1>6, <1>8, <1>9, <1>10, <1>11, <1>12

\* waitpid gives up with -EINTR.
LEMMA WaitInterruptedStep ==
    ASSUME IInv, current \in Task, WaitInterrupted
    PROVE  IInv'
<1> USE TasksAssumption DEF IInv, Node
<1>1. /\ waitFor' = [waitFor EXCEPT ![current] = NoTask]
      /\ pc' = [pc EXCEPT ![current] = "return"]
      /\ UNCHANGED <<current, state, parent, children, next, table, pending, handler>>
    BY DEF WaitInterrupted, Continue, family, queue, signal
<1>2. state[current] = "RUNNING"
    BY DEF OneRunning
<1>3. TypeOK'
    BY <1>1 DEF TypeOK
<1>4. OneRunning' /\ FamilyConsistent' /\ ParentLive' /\ QueueClosed'
    BY <1>1 DEF OneRunning, FamilyConsistent, ParentLive, QueueClosed, Allocated
<1>5. KernelStays' /\ CanResume'
    BY <1>1, <1>2 DEF KernelStays, CanResume, TypeOK
<1>6. WaitTargetOwned' /\ NoLostWakeup'
    BY <1>1, <1>2 DEF WaitTargetOwned, NoLostWakeup, Allocated, TypeOK
<1> QED
    BY <1>3, <1>4, <1>5, <1>6

LEMMA StutterStep ==
    ASSUME IInv, UNCHANGED vars
    PROVE  IInv'
    BY DEF vars, family, queue, signal, IInv, TypeOK, OneRunning, KernelStays, CanResume,
           FamilyConsistent, ParentLive, WaitTargetOwned, NoLostWakeup, QueueClosed, Allocated

THEOREM StepIInv == IInv /\ [Next]_vars => IInv'
<1> SUFFICES ASSUME IInv, [Next]_vars PROVE IInv'
    OBVIOUS
<1> USE TasksAssumption
<1>0. TypeOK /\ KernelStays /\ current \in Node
    BY DEF IInv, TypeOK
<1>1. CASE TimerTick
    BY <1>1, TimerTickStep
<1>2. CASE UserStep
  <2>1. CASE Trap \/ InputLine
    <3>1. PICK p \in {"return", "poll"} : pc' = [pc EXCEPT ![current] = p]
      BY <2>1 DEF Trap, InputLine, Continue
    <3>2. UNCHANGED <<current, state, family, queue, waitFor, pending, handler>>
      BY <2>1 DEF Trap, InputLine, Continue, signal
    <3>3. current \in Task
      BY <2>1 DEF Trap, InputLine, InUser
    <3> QED
      BY <1>0, <3>1, <3>2, <3>3, QuietStep DEF Points, TypeOK
  <2>2. CASE Fork
    <3>1. PICK c \in Task : Create(c, handler[current])
      BY <2>2 DEF Fork
    <3>2. handler[current] \in BOOLEAN /\ InUser
      BY <1>0, <2>2 DEF TypeOK, Fork
    <3> QED
      BY <3>1, <3>2, CreateStep
  <2>3. CASE Spawn
    BY <2>3, CreateStep DEF Spawn
  <2>4. CASE Execve
    <3>1. pc' = [pc EXCEPT ![current] = "user"] /\ current \in Task
      BY <1>0, <2>4 DEF Execve, InUser, TypeOK
    <3>2. UNCHANGED <<current, state, family, queue, waitFor>>
      BY <2>4 DEF Execve
    <3>3. /\ pending' \in [Node -> BOOLEAN] /\ handler' \in [Node -> BOOLEAN]
          /\ \A t \in Task : pending'[t] => pending[t]
      BY <1>0, <2>4 DEF Execve, TypeOK, Node
    <3> QED
      BY <1>0, <3>1, <3>2, <3>3, QuietStep DEF Points
  <2>5. CASE Exit \/ Fault
    BY <2>5, DieStep DEF Exit, Fault, InUser
  <2> QED
    BY <1>2, <2>1, <2>2, <2>3, <2>4, <2>5 DEF UserStep
<1>3. CASE WaitStep
  <2>1. CASE WaitBlock
    BY <2>1, WaitBlockStep
  <2>2. CASE WaitInterrupted
    <3>1. PICK c \in Task : Waiting(c) /\ state[c] # "ZOMBIE"
      BY <2>2 DEF WaitInterrupted
    <3>2. current \in Task
      BY <1>0, <3>1 DEF Waiting, InUser, KernelStays, Node
    <3> QED
      BY <2>2, <3>2, WaitInterruptedStep
  <2>3. CASE WaitCollect
    <3>1. PICK c \in Task : Waiting(c) /\ state[c] = "ZOMBIE" /\ Reap(c)
      BY <2>3 DEF WaitCollect
    <3>2. current \in Task
      BY <1>0, <3>1 DEF Waiting, InUser, KernelStays, Node
    <3>3. parent[c] = current
      BY <3>1, <3>2 DEF Waiting, WaitTargetOwned, IInv
    <3>4. /\ waitFor' = [waitFor EXCEPT ![current] = NoTask]
          /\ pc' = [pc EXCEPT ![current] = "return"] /\ current' = current
      BY <2>3 DEF WaitCollect, Continue
    <3>5. /\ waitFor' \in [Node -> Task \cup {NoTask}]
          /\ \A p \in Task \ {current} : waitFor'[p] = waitFor[p]
      BY <1>0, <3>4 DEF TypeOK, Node
    <3> QED
      BY <1>0, <3>1, <3>2, <3>3, <3>4, <3>5, ReapStep DEF Points
  <2> QED
    BY <1>3, <2>1, <2>2, <2>3 DEF WaitStep
<1>4. CASE SignalStep
  <2>1. CASE SignalSelf
    BY <2>1, DieStep DEF SignalSelf, CanSignal, InUser
  <2> QED
    BY <1>4, <2>1, SignalKillStep, SignalCatchStep DEF SignalStep
<1>5. CASE ReturnStep
  <2>1. current \in Task
    BY <1>0, <1>5 DEF ReturnStep, InputReturn, ReturnToUser, RunHandler, NoHandler,
                      KernelStays, Node
  <2>2. CASE InputReturn \/ ReturnToUser \/ RunHandler
    <3>1. /\ pc' = [pc EXCEPT ![current] = "user"]
          /\ UNCHANGED <<current, state, family, queue, waitFor>>
      BY <2>2 DEF InputReturn, ReturnToUser, RunHandler, Continue
    <3>2. /\ pending' \in [Node -> BOOLEAN] /\ handler' \in [Node -> BOOLEAN]
          /\ \A t \in Task : pending'[t] => pending[t]
      BY <1>0, <2>2 DEF InputReturn, ReturnToUser, RunHandler, signal, TypeOK, Node
    <3> QED
      BY <1>0, <2>1, <3>1, <3>2, QuietStep DEF Points
  <2>3. CASE NoHandler
    BY <2>1, <2>3, DieStep DEF NoHandler
  <2> QED
    BY <1>5, <2>2, <2>3 DEF ReturnStep
<1>6. CASE IdleStep
  <2>1. current = Kernel
    BY <1>6 DEF IdleStep, IdleWake, ReapOrphan, IdleSleep
  <2>2. CASE IdleWake \/ IdleSleep
    <3>1. PICK p \in {"reap", "idle"} : pc' = [pc EXCEPT ![current] = p]
      BY <2>2 DEF IdleWake, IdleSleep, Continue
    <3>2. UNCHANGED <<current, state, family, queue, waitFor, pending, handler>>
      BY <2>2 DEF IdleWake, IdleSleep, Continue, signal
    <3> QED
      BY <1>0, <2>1, <3>1, <3>2, QuietStep DEF Points, TypeOK
  <2>3. CASE ReapOrphan
    <3>1. PICK t \in Orphans : Reap(t)
      BY <2>3 DEF ReapOrphan
    <3>2. t \in Task /\ state[t] = "ZOMBIE" /\ parent[t] = current
      BY <1>0, <2>1 DEF Orphans, TypeOK, Node
    <3>3. /\ pc' = [pc EXCEPT ![current] = "reap"]
          /\ UNCHANGED <<current, waitFor>>
      BY <1>0, <2>1, <2>3 DEF ReapOrphan, TypeOK
    <3>4. /\ waitFor' \in [Node -> Task \cup {NoTask}]
          /\ \A p \in Task \ {current} : waitFor'[p] = waitFor[p]
      BY <1>0, <3>3 DEF TypeOK
    <3> QED
      BY <1>0, <2>1, <3>1, <3>2, <3>3, <3>4, ReapStep DEF Points
  <2> QED
    BY <1>6, <2>2, <2>3 DEF IdleStep
<1>7. CASE LineTyped
  <2>1. /\ pc' = [pc EXCEPT ![current] = "input"] /\ current \in Task
        /\ UNCHANGED <<current, state, family, queue, waitFor, pending, handler>>
    BY <1>0, <1>7 DEF LineTyped, Continue, signal, KernelStays, Node
  <2> QED
    BY <1>0, <2>1, QuietStep DEF Points, TypeOK
<1>8. CASE UNCHANGED vars
    BY <1>8, StutterStep
<1> QED
    BY <1>1, <1>2, <1>3, <1>4, <1>5, <1>6, <1>7, <1>8 DEF Next

(***************************************************************************)
(* The theorems.                                                           *)
(***************************************************************************)
\* The inductive invariant holds in every reachable state of a kernel with
\* any number of structs and any length of tasks[], signals or not.
THEOREM Invariance == Spec => []IInv
<1>1. Init => IInv
    BY InitIInv
<1>2. IInv /\ [Next]_vars => IInv'
    BY StepIInv
<1> QED
    BY <1>1, <1>2, PTL DEF Spec

\* The variables keep their types.
THEOREM TypeCorrect == Spec => []TypeOK
<1>1. IInv => TypeOK
    BY DEF IInv
<1> QED
    BY <1>1, Invariance, PTL

\* current_task is the one RUNNING task, through every path of sched().
THEOREM OneTaskRuns == Spec => []OneRunning
<1>1. IInv => OneRunning
    BY DEF IInv
<1> QED
    BY <1>1, Invariance, PTL

\* Parent pointers and children lists agree, and parents are never dead.
THEOREM FamilySound == Spec => [](FamilyConsistent /\ ParentLive)
<1>1. IInv => FamilyConsistent /\ ParentLive
    BY DEF IInv
<1> QED
    BY <1>1, Invariance, PTL

\* The child a task waits for in waitpid still exists and is still its own
\* when sched() comes back, whatever ran in between.
THEOREM WaitTarget == Spec => []WaitTargetOwned
<1>1. IInv => WaitTargetOwned
    BY DEF IInv
<1> QED
    BY <1>1, Invariance, PTL

\* And a task that sleeps there waits for a child that still lives: no
\* wake-up by task_terminate is lost.
THEOREM WaitSound == Spec => []NoLostWakeup
<1>1. IInv => NoLostWakeup
    BY DEF IInv
<1> QED
    BY <1>1, Invariance, PTL

\* tasks[] holds the allocated structs and next permutes them.
THEOREM QueueSound == Spec => []QueueClosed
<1>1. IInv => QueueClosed
    BY DEF IInv
<1> QED
    BY <1>1, Invariance, PTL

\* A switch gives the CPU to nobody who is dead and frees nobody.
LEMMA SchedMoves ==
    ASSUME IInv, NEW st \in [Node -> States], NEW at \in [Node -> Points], Sched(st, at),
           st[Kernel] \in {"READY", "RUNNING"}
    PROVE  \A t \in Task : \/ st[t] \in {"ZOMBIE", "FREE"} /\ state'[t] = st[t]
                           \/ st[t] \notin {"ZOMBIE", "FREE"} /\ state'[t] \notin {"ZOMBIE", "FREE"}
<1> USE TasksAssumption DEF Node
<1>1. PICK n \in Node :
        /\ n = Kernel \/ (n \in Task /\ Preempted(st)[n] = "READY")
        /\ state' = [Preempted(st) EXCEPT ![n] = "RUNNING"]
    BY SchedEffect
<1> QED
    BY <1>1 DEF Preempted, States, IInv, TypeOK

\* What one step may do to the life of a task.
Lives(t) ==
    /\ state[t] # "FREE" /\ state'[t] = "FREE" => state[t] = "ZOMBIE" /\ parent[t] = current
    /\ state[t] = "ZOMBIE" => state'[t] \in {"ZOMBIE", "FREE"}

LEMMA LifeStep ==
    ASSUME IInv, [Next]_vars
    PROVE  \A t \in Task : Lives(t)
<1> USE TasksAssumption DEF Node
<1>0. TypeOK /\ KernelStays /\ state \in [Node -> States]
    BY DEF IInv, TypeOK, States
<1>1. CASE UNCHANGED state
    BY <1>1 DEF Lives
<1>2. CASE TimerTick
  <2> DEFINE at == [pc EXCEPT ![current] = IF @ = "user" THEN "return" ELSE @]
  <2>1. at \in [Node -> Points] /\ Sched(state, at)
    BY <1>0, <1>2 DEF TimerTick, TypeOK, Points
  <2> HIDE DEF at
  <2> QED
    BY <1>0, <2>1, SchedMoves DEF Lives, KernelStays
<1>3. CASE WaitBlock
  <2> DEFINE st == [state EXCEPT ![current] = "BLOCKED"]
             at == [pc EXCEPT ![current] = "wait"]
  <2>1. PICK c \in Task : Waiting(c)
    BY <1>3 DEF WaitBlock
  <2>2. current \in Task /\ state[current] = "RUNNING"
    BY <1>0, <2>1 DEF Waiting, InUser, KernelStays, IInv, OneRunning, TypeOK
  <2>3. /\ st \in [Node -> States] /\ at \in [Node -> Points] /\ Sched(st, at)
        /\ st[Kernel] \in {"READY", "RUNNING"}
    BY <1>0, <1>3, <2>2 DEF WaitBlock, TypeOK, Points, States, KernelStays
  <2>4. \A t \in Task : state[t] \in {"ZOMBIE", "FREE"} <=> st[t] \in {"ZOMBIE", "FREE"}
    BY <1>0, <2>2 DEF TypeOK
  <2>5. \A t \in Task : st[t] \in {"ZOMBIE", "FREE"} => st[t] = state[t]
    BY <1>0 DEF TypeOK
  <2> HIDE DEF st, at
  <2> QED
    BY <1>0, <2>3, <2>4, <2>5, SchedMoves DEF Lives
<1>4. ASSUME current \in Task, Die PROVE \A t \in Task : Lives(t)
  <2> DEFINE st == Terminated(current)
             at == [pc EXCEPT ![current] = "gone"]
  <2>1. state[current] = "RUNNING"
    BY DEF IInv, OneRunning
  <2>2. /\ st \in [Node -> States] /\ at \in [Node -> Points] /\ Sched(st, at)
        /\ st[Kernel] \in {"READY", "RUNNING"}
    BY <1>0, <1>4 DEF Die, Terminated, TypeOK, Points, States, KernelStays
  <2>3. \A t \in Task : /\ state[t] = "ZOMBIE" => st[t] = "ZOMBIE"
                        /\ state[t] # "FREE" => st[t] # "FREE"
    BY <1>0, <2>1 DEF Terminated, TypeOK
  <2> HIDE DEF st, at
  <2> QED
    BY <1>0, <2>2, <2>3, SchedMoves DEF Lives
<1>5. CASE SignalKill
  <2>1. PICK u \in Task : CanSignal(u) /\ state' = Terminated(u)
    BY <1>5 DEF SignalKill
  <2> QED
    BY <1>0, <2>1 DEF Lives, Terminated, TypeOK, CanSignal, IInv, QueueClosed, Allocated
<1>6. CASE SignalCatch
    BY <1>0, <1>6 DEF SignalCatch, Lives, TypeOK
<1>7. CASE Fork \/ Spawn
  <2>1. PICK c \in Task : state[c] = "FREE" /\ state' = [state EXCEPT ![c] = "READY"]
    BY <1>7 DEF Fork, Spawn, Create
  <2> QED
    BY <1>0, <2>1 DEF Lives, TypeOK
<1>8. CASE WaitCollect
  <2>1. PICK c \in Task : Waiting(c) /\ state[c] = "ZOMBIE" /\ Reap(c)
    BY <1>8 DEF WaitCollect
  <2>2. current \in Task /\ parent[c] = current
    BY <1>0, <2>1 DEF Waiting, InUser, KernelStays, IInv, WaitTargetOwned, TypeOK
  <2> QED
    BY <1>0, <2>1, <2>2 DEF Lives, Reap, TypeOK
<1>9. CASE ReapOrphan
  <2>1. PICK c \in Orphans : Reap(c)
    BY <1>9 DEF ReapOrphan
  <2>2. state[c] = "ZOMBIE" /\ parent[c] = current
    BY <1>9, <2>1 DEF Orphans, ReapOrphan
  <2> QED
    BY <1>0, <2>1, <2>2 DEF Lives, Reap, TypeOK
<1>10. CASE Exit \/ Fault \/ SignalSelf
    BY <1>4, <1>10 DEF Exit, Fault, SignalSelf, CanSignal, InUser
<1>11. CASE NoHandler
    BY <1>0, <1>4, <1>11 DEF NoHandler, KernelStays, TypeOK
<1>12. CASE Trap \/ InputLine \/ LineTyped \/ Execve \/ WaitInterrupted \/ InputReturn
            \/ ReturnToUser \/ RunHandler \/ IdleWake \/ IdleSleep
    BY <1>1, <1>12 DEF Trap, InputLine, LineTyped, Execve, WaitInterrupted, InputReturn,
                       ReturnToUser, RunHandler, IdleWake, IdleSleep
<1> QED
    BY <1>1, <1>2, <1>3, <1>5, <1>6, <1>7, <1>8, <1>9, <1>10, <1>11, <1>12
    DEF Next, UserStep, WaitStep, SignalStep, ReturnStep, IdleStep, vars

\* Only its parent frees a task, and only as a zombie: the exit status of a
\* child stays until the parent (or the kernel for an orphan) takes it.
THEOREM OnlyParentReaps == Spec => ReapedByParent
<1>1. IInv /\ [Next]_vars
        => [\A t \in Task : state[t] # "FREE" /\ state'[t] = "FREE"
              => state[t] = "ZOMBIE" /\ parent[t] = current]_vars
    BY LifeStep DEF Lives
<1> QED
    BY <1>1, Invariance, PTL DEF Spec, ReapedByParent

\* Nothing revives a zombie.
THEOREM NoRevival == Spec => DeadStayDead
<1>1. IInv /\ [Next]_vars
        => [\A t \in Task : state[t] = "ZOMBIE" => state'[t] \in {"ZOMBIE", "FREE"}]_vars
    BY LifeStep DEF Lives
<1> QED
    BY <1>1, Invariance, PTL DEF Spec, DeadStayDead

\* A task that dies by Die is a zombie behind the switch.
LEMMA DieLeavesZombie ==
    ASSUME IInv, current \in Task, Die, NEW t \in Task, t = current
    PROVE  state'[t] = "ZOMBIE"
<1> USE TasksAssumption DEF Node
<1> DEFINE st == Terminated(t)
           at == [pc EXCEPT ![t] = "gone"]
<1>1. /\ st \in [Node -> States] /\ at \in [Node -> Points] /\ Sched(st, at)
      /\ st[Kernel] \in {"READY", "RUNNING"} /\ st[t] = "ZOMBIE"
    BY DEF Die, Terminated, IInv, TypeOK, KernelStays, States, Points
<1> HIDE DEF st, at
<1> QED
    BY <1>1, SchedMoves

\* A pending SIGTERM goes with its task, with its handler or with an execve,
\* and with nothing else: not with a wait it interrupts, nor with a switch.
THEOREM TermKept == Spec => TermNotForgotten
<1> DEFINE Kept(t) == pending[t] /\ ~pending'[t]
                        => \/ state'[t] = "ZOMBIE"
                           \/ handler[t] /\ ~handler'[t]
                           \/ Execve
<1>1. ASSUME IInv, [Next]_vars, NEW t \in Task PROVE Kept(t)
  <2> USE <1>1, TasksAssumption DEF Node
  <2>0. TypeOK /\ KernelStays
    BY DEF IInv
  <2>1. CASE UNCHANGED pending
    BY <2>1
  <2>2. CASE Exit \/ Fault \/ SignalSelf \/ NoHandler
    <3>1. current \in Task /\ Die
      BY <2>0, <2>2 DEF Exit, Fault, SignalSelf, NoHandler, CanSignal, InUser,
                        KernelStays, TypeOK
    <3>2. pending' = [pending EXCEPT ![current] = FALSE]
      BY <3>1 DEF Die, Terminate
    <3>3. t = current => state'[t] = "ZOMBIE"
      BY <3>1, DieLeavesZombie
    <3>4. t # current => pending'[t] = pending[t]
      BY <2>0, <3>2 DEF TypeOK
    <3> QED
      BY <3>3, <3>4
  <2>3. CASE SignalKill
    <3>1. PICK u \in Task :
            state' = Terminated(u) /\ pending' = [pending EXCEPT ![u] = FALSE]
      BY <2>3 DEF SignalKill, Terminate
    <3>2. state'[u] = "ZOMBIE"
      BY <2>0, <3>1 DEF Terminated, TypeOK
    <3> QED
      BY <2>0, <3>1, <3>2 DEF TypeOK
  <2>4. CASE RunHandler
    BY <2>0, <2>4 DEF RunHandler, TypeOK
  <2>5. CASE SignalCatch
    BY <2>0, <2>5 DEF SignalCatch, TypeOK
  <2>6. CASE Execve
    BY <2>6
  <2> QED
    BY <2>1, <2>2, <2>3, <2>4, <2>5, <2>6
    DEF Next, TimerTick, LineTyped, UserStep, Trap, InputLine, Fork, Spawn, Create, WaitStep,
        WaitBlock, WaitInterrupted, WaitCollect, Reap, SignalStep, ReturnStep, InputReturn, ReturnToUser,
        IdleStep, IdleWake, ReapOrphan, IdleSleep, signal, vars
<1>2. IInv /\ [Next]_vars => [\A t \in Task : Kept(t)]_vars
    BY <1>1
<1> QED
    BY <1>2, Invariance, PTL DEF Spec, TermNotForgotten
-----------------------------------------------------------------------------
(***************************************************************************)
(* Tasks implements Processes.                                             *)
(***************************************************************************)
\* What the refinement needs beside IInv: only a task inside waitpid holds a
\* child pointer, and a freed struct has no parent.
NoLeftovers ==
    \A t \in Task :
        /\ pc[t] # "wait" => waitFor[t] = NoTask
        /\ state[t] = "FREE" => parent[t] = NoTask

RInv == IInv /\ NoLeftovers

AbstractStep == [Abstract!Next]_(Abstract!vars)

\* A step that ends no life, frees nothing and leaves the family and the
\* waits alone is none of the interface's business.
LEMMA Invisible ==
    ASSUME \A t \in Task : Phase(state'[t]) = Phase(state[t]),
           UNCHANGED <<parent, waitFor>>
    PROVE  UNCHANGED Abstract!vars
<1>1. \A t \in Task : LifeOf(t)' = LifeOf(t)
    BY DEF LifeOf
<1> QED
    BY <1>1 DEF Abstract!vars

\* sched() changes nobody's phase and takes no task out of waitpid.
LEMMA SchedPhase ==
    ASSUME NEW st \in [Node -> States], NEW at \in [Node -> Points], current \in Node,
           Sched(st, at)
    PROVE  \A t \in Task : /\ Phase(state'[t]) = Phase(st[t])
                           /\ state'[t] = "FREE" <=> st[t] = "FREE"
                           /\ pc'[t] = "wait" <=> at[t] = "wait"
<1> USE TasksAssumption DEF Node
<1>1. PICK n \in Node :
        /\ n = Kernel \/ (n \in Task /\ Preempted(st)[n] = "READY")
        /\ state' = [Preempted(st) EXCEPT ![n] = "RUNNING"]
        /\ pc' = [at EXCEPT ![n] = IF @ = "fresh" THEN "user" ELSE @]
    BY SchedEffect
<1>2. Preempted(st) \in [Node -> States]
    BY DEF Preempted, States
<1>3. \A t \in Task : Phase(Preempted(st)[t]) = Phase(st[t])
    BY DEF Preempted, Phase
<1>4. \A t \in Task : Preempted(st)[t] = "FREE" <=> st[t] = "FREE"
    BY DEF Preempted
<1>5. \A t \in Task : pc'[t] = "wait" <=> at[t] = "wait"
    BY <1>1
<1>6. \A t \in Task : state'[t] = Preempted(st)[t]
                      \/ (state'[t] = "RUNNING" /\ Preempted(st)[t] = "READY")
    BY <1>1, <1>2
<1> QED
    BY <1>3, <1>4, <1>5, <1>6 DEF Phase

\* The steps that neither switch nor touch a family.
LEMMA QuietRefines ==
    ASSUME RInv, UNCHANGED <<current, state, parent, waitFor>>,
           NEW q \in Points \ {"wait"}, pc' = [pc EXCEPT ![current] = q],
           pc[current] # "wait"
    PROVE  NoLeftovers' /\ AbstractStep
<1>1. UNCHANGED Abstract!vars
    BY Invisible
<1>2. NoLeftovers'
    BY DEF NoLeftovers, RInv, IInv, TypeOK, Node
<1> QED
    BY <1>1, <1>2 DEF AbstractStep

LEMMA TimerTickRefines ==
    ASSUME RInv, TimerTick
    PROVE  NoLeftovers' /\ AbstractStep
<1> USE TasksAssumption DEF Node, RInv
<1> DEFINE at == [pc EXCEPT ![current] = IF @ = "user" THEN "return" ELSE @]
<1>1. /\ state \in [Node -> States] /\ at \in [Node -> Points] /\ current \in Node
      /\ Sched(state, at) /\ UNCHANGED <<parent, waitFor>>
    BY DEF TimerTick, IInv, TypeOK, States, Points, family
<1>2. \A t \in Task : at[t] = "wait" <=> pc[t] = "wait"
    BY DEF IInv, TypeOK
<1> HIDE DEF at
<1>3. \A t \in Task : /\ Phase(state'[t]) = Phase(state[t])
                      /\ state'[t] = "FREE" <=> state[t] = "FREE"
                      /\ pc'[t] = "wait" <=> pc[t] = "wait"
    BY <1>1, <1>2, SchedPhase
<1>4. NoLeftovers'
    BY <1>1, <1>3 DEF NoLeftovers
<1> QED
    BY <1>1, <1>3, <1>4, Invisible DEF AbstractStep

\* Fork and spawn are Create.
LEMMA CreateRefines ==
    ASSUME RInv, InUser, NEW c \in Task, NEW catches \in BOOLEAN, Create(c, catches)
    PROVE  NoLeftovers' /\ AbstractStep
<1> USE TasksAssumption DEF Node, RInv
<1>1. /\ state[current] = "RUNNING" /\ current \in Task /\ state[c] = "FREE"
      /\ waitFor[current] = NoTask
      /\ state' = [state EXCEPT ![c] = "READY"]
      /\ pc' = [pc EXCEPT ![c] = "fresh", ![current] = "return"]
      /\ parent' = [parent EXCEPT ![c] = current]
      /\ UNCHANGED waitFor
    BY DEF IInv, OneRunning, InUser, NoLeftovers, Create, Link
<1>2. TypeOK /\ pc[c] = "gone"
    BY <1>1 DEF IInv, CanResume
<1>3. NoLeftovers'
    BY <1>1, <1>2 DEF NoLeftovers, TypeOK
<1>4. /\ \A t \in Task : LifeOf(t)' = IF t = c THEN "alive" ELSE LifeOf(t)
      /\ LifeOf(current) = "alive" /\ LifeOf(c) = "none"
    BY <1>1, <1>2 DEF LifeOf, Phase, TypeOK
<1>5. /\ [t \in Task |-> LifeOf(t)]' = [[t \in Task |-> LifeOf(t)] EXCEPT ![c] = "alive"]
      /\ [t \in Task |-> parent[t]]' = [[t \in Task |-> parent[t]] EXCEPT ![c] = current]
      /\ UNCHANGED [t \in Task |-> waitFor[t]]
    BY <1>1, <1>2, <1>4 DEF TypeOK
<1>6. Abstract!Create(current, c)
    BY <1>1, <1>4, <1>5 DEF Abstract!Create, Abstract!Active
<1>7. PICK p \in Task : p = current
    BY <1>1
<1>8. Abstract!Next
    BY <1>6, <1>7 DEF Abstract!Next
<1> QED
    BY <1>3, <1>8 DEF AbstractStep

\* The death of a task t, by whatever call, is Die.
LEMMA DeathRefines ==
    ASSUME RInv, NEW t \in Task, state[t] \notin {"FREE", "ZOMBIE"}, Terminate(t),
           \A u \in Task : /\ Phase(state'[u]) = Phase(Terminated(t)[u])
                           /\ state'[u] = "FREE" <=> Terminated(t)[u] = "FREE"
                           /\ u # t => (pc'[u] = "wait" <=> pc[u] = "wait")
    PROVE  NoLeftovers' /\ AbstractStep
<1> USE TasksAssumption DEF Node, RInv
<1>1. /\ TypeOK
      /\ parent' = [n \in Node |-> IF n \in children[t] THEN Kernel ELSE parent[n]]
      /\ waitFor' = [waitFor EXCEPT ![t] = NoTask]
    BY DEF IInv, Terminate, Orphan
<1>2. \A u \in Task : u \in children[t] <=> parent[u] = t
    BY DEF IInv, FamilyConsistent, NoLeftovers
<1>3. /\ \A u \in Task : LifeOf(u)' = IF u = t THEN "dead" ELSE LifeOf(u)
      /\ \A u \in Task : state'[u] = "FREE" <=> state[u] = "FREE"
      /\ LifeOf(t) = "alive"
    BY <1>1 DEF LifeOf, Phase, Terminated, TypeOK
<1>4. NoLeftovers'
    BY <1>1, <1>2, <1>3 DEF NoLeftovers, IInv, FamilyConsistent, TypeOK
<1>5. [u \in Task |-> LifeOf(u)]' = [[u \in Task |-> LifeOf(u)] EXCEPT ![t] = "dead"]
    BY <1>3
<1>6. \A u \in Task : parent'[u] = IF parent[u] = t THEN Kernel ELSE parent[u]
    BY <1>1, <1>2
<1>7. [u \in Task |-> parent[u]]'
        = [u \in Task |-> IF [v \in Task |-> parent[v]][u] = t
                          THEN Kernel ELSE [v \in Task |-> parent[v]][u]]
    BY <1>6
<1>8. [u \in Task |-> waitFor[u]]' = [[u \in Task |-> waitFor[u]] EXCEPT ![t] = NoTask]
    BY <1>1 DEF TypeOK
<1>9. Abstract!Die(t)
    BY <1>3, <1>5, <1>7, <1>8 DEF Abstract!Die
<1> QED
    BY <1>4, <1>9 DEF AbstractStep, Abstract!Next

LEMMA DieRefines ==
    ASSUME RInv, current \in Task, Die
    PROVE  NoLeftovers' /\ AbstractStep
<1> USE TasksAssumption DEF Node, RInv
<1>1. PICK t \in Task : t = current
    OBVIOUS
<1> DEFINE st == Terminated(t)
           at == [pc EXCEPT ![t] = "gone"]
<1>2. /\ st \in [Node -> States] /\ at \in [Node -> Points] /\ current \in Node
      /\ Sched(st, at) /\ Terminate(t) /\ state[t] = "RUNNING"
    BY <1>1 DEF Die, Terminated, IInv, TypeOK, OneRunning, States, Points
<1>3. \A u \in Task : u # t => at[u] = pc[u]
    BY DEF IInv, TypeOK
<1> HIDE DEF at
<1>4. \A u \in Task : /\ Phase(state'[u]) = Phase(st[u])
                      /\ state'[u] = "FREE" <=> st[u] = "FREE"
                      /\ u # t => (pc'[u] = "wait" <=> pc[u] = "wait")
    BY <1>2, <1>3, SchedPhase
<1> QED
    BY <1>2, <1>4, DeathRefines

LEMMA SignalKillRefines ==
    ASSUME RInv, SignalKill
    PROVE  NoLeftovers' /\ AbstractStep
<1> USE TasksAssumption DEF Node, RInv
<1>1. PICK t \in Task \ {current} :
        /\ CanSignal(t)
        /\ Terminate(t)
        /\ state' = Terminated(t)
        /\ pc' = [pc EXCEPT ![t] = "gone", ![current] = "return"]
    BY DEF SignalKill
<1>2. state[t] \notin {"FREE", "ZOMBIE"} /\ pc[current] = "user"
    BY <1>1 DEF CanSignal, InUser, IInv, QueueClosed, Allocated
<1>3. \A u \in Task : u # t => (pc'[u] = "wait" <=> pc[u] = "wait")
    BY <1>1, <1>2 DEF IInv, TypeOK
<1> QED
    BY <1>1, <1>2, <1>3, DeathRefines

\* Both reapers: the struct c goes back, and current, its parent, gets out of
\* its wait if it was in one.
LEMMA ReapRefines ==
    ASSUME RInv, NEW c \in Task, state[c] = "ZOMBIE", parent[c] = current, Reap(c),
           NEW q \in Points \ {"wait"}, pc' = [pc EXCEPT ![current] = q],
           \/ /\ current = Kernel /\ UNCHANGED waitFor
           \/ /\ current \in Task /\ waitFor[current] \in {NoTask, c}
              /\ waitFor' = [waitFor EXCEPT ![current] = NoTask]
    PROVE  NoLeftovers' /\ AbstractStep
<1> USE TasksAssumption DEF Node, RInv
<1>1. /\ TypeOK /\ state[current] = "RUNNING"
      /\ parent' = [parent EXCEPT ![c] = NoTask]
      /\ state' = [state EXCEPT ![c] = "FREE"]
    BY DEF IInv, OneRunning, Reap
<1>2. NoLeftovers'
    BY <1>1 DEF NoLeftovers, TypeOK
<1>3. /\ \A u \in Task : LifeOf(u)' = IF u = c THEN "none" ELSE LifeOf(u)
      /\ LifeOf(c) = "dead"
      /\ current \in Task => LifeOf(current) = "alive"
    BY <1>1 DEF LifeOf, Phase, TypeOK
<1>4. /\ [u \in Task |-> LifeOf(u)]' = [[u \in Task |-> LifeOf(u)] EXCEPT ![c] = "none"]
      /\ [u \in Task |-> parent[u]]' = [[u \in Task |-> parent[u]] EXCEPT ![c] = NoTask]
    BY <1>1, <1>3 DEF TypeOK
<1>5. CASE current = Kernel
  <2>1. UNCHANGED [u \in Task |-> waitFor[u]]
    BY <1>5
  <2>2. Abstract!Sweep(c)
    BY <1>3, <1>4, <1>5, <2>1 DEF Abstract!Sweep
  <2> QED
    BY <1>2, <2>2 DEF AbstractStep, Abstract!Next
<1>6. CASE current \in Task
  <2>1. PICK p \in Task : p = current
    BY <1>6
  <2>2. [u \in Task |-> waitFor[u]]' = [[u \in Task |-> waitFor[u]] EXCEPT ![p] = NoTask]
    BY <1>1, <2>1 DEF TypeOK
  <2>3. Abstract!Collect(p, c)
    BY <1>3, <1>4, <2>1, <2>2 DEF Abstract!Collect
  <2> QED
    BY <1>2, <2>3 DEF AbstractStep, Abstract!Next
<1> QED
    BY <1>5, <1>6

LEMMA WaitBlockRefines ==
    ASSUME RInv, WaitBlock
    PROVE  NoLeftovers' /\ AbstractStep
<1> USE TasksAssumption DEF Node, RInv
<1>1. PICK c \in Task :
        /\ Waiting(c)
        /\ state[c] # "ZOMBIE"
        /\ waitFor' = [waitFor EXCEPT ![current] = c]
    BY DEF WaitBlock
<1>2. /\ TypeOK /\ current \in Task /\ state[current] = "RUNNING"
      /\ state[c] # "FREE" /\ parent[c] = current
      /\ waitFor[current] \in {NoTask, c}
    BY <1>1 DEF Waiting, InUser, IInv, OneRunning, KernelStays, WaitTargetOwned, QueueClosed,
                Allocated, NoLeftovers, TypeOK
<1>3. PICK p \in Task : p = current
    BY <1>2
<1> DEFINE st == [state EXCEPT ![p] = "BLOCKED"]
           at == [pc EXCEPT ![p] = "wait"]
<1>4. /\ st \in [Node -> States] /\ at \in [Node -> Points]
      /\ Sched(st, at) /\ UNCHANGED parent
    BY <1>2, <1>3 DEF WaitBlock, TypeOK, States, Points, family
<1>5. \A t \in Task : /\ Phase(st[t]) = Phase(state[t])
                      /\ st[t] = "FREE" <=> state[t] = "FREE"
                      /\ at[t] = "wait" <=> (t = p \/ pc[t] = "wait")
    BY <1>2, <1>3 DEF TypeOK, Phase
<1> HIDE DEF st, at
<1>6. \A t \in Task : /\ Phase(state'[t]) = Phase(state[t])
                      /\ state'[t] = "FREE" <=> state[t] = "FREE"
                      /\ pc'[t] = "wait" <=> (t = p \/ pc[t] = "wait")
    BY <1>2, <1>4, <1>5, SchedPhase
<1>7. NoLeftovers'
    BY <1>1, <1>2, <1>3, <1>4, <1>6 DEF NoLeftovers, TypeOK
<1>8. CASE waitFor[p] = c
  <2>1. UNCHANGED waitFor
    BY <1>1, <1>2, <1>3, <1>8 DEF TypeOK
  <2> QED
    BY <1>4, <1>6, <1>7, <2>1, Invisible DEF AbstractStep
<1>9. CASE waitFor[p] = NoTask
  <2>1. /\ UNCHANGED [t \in Task |-> LifeOf(t)]
        /\ LifeOf(p) = "alive" /\ LifeOf(c) = "alive"
    BY <1>1, <1>2, <1>3, <1>6 DEF LifeOf, Phase
  <2>2. [t \in Task |-> waitFor[t]]' = [[t \in Task |-> waitFor[t]] EXCEPT ![p] = c]
    BY <1>1, <1>2, <1>3 DEF TypeOK
  <2>3. UNCHANGED [t \in Task |-> parent[t]]
    BY <1>4
  <2>4. Abstract!BeginWait(p, c)
    BY <1>2, <1>3, <1>9, <2>1, <2>2, <2>3 DEF Abstract!BeginWait, Abstract!Active
  <2> QED
    BY <1>7, <2>4 DEF AbstractStep, Abstract!Next
<1> QED
    BY <1>2, <1>3, <1>8, <1>9

LEMMA WaitInterruptedRefines ==
    ASSUME RInv, WaitInterrupted
    PROVE  NoLeftovers' /\ AbstractStep
<1> USE TasksAssumption DEF Node, RInv
<1>1. PICK c \in Task : Waiting(c) /\ state[c] # "ZOMBIE"
    BY DEF WaitInterrupted
<1>2. /\ TypeOK /\ current \in Task /\ state[c] # "FREE"
      /\ waitFor[current] \in {NoTask, c}
    BY <1>1 DEF Waiting, InUser, IInv, KernelStays, WaitTargetOwned, QueueClosed,
                Allocated, NoLeftovers, TypeOK
<1>3. PICK p \in Task : p = current
    BY <1>2
<1>4. /\ waitFor' = [waitFor EXCEPT ![p] = NoTask]
      /\ pc' = [pc EXCEPT ![p] = "return"]
      /\ UNCHANGED <<current, state, parent>>
    BY <1>3 DEF WaitInterrupted, Continue, family
<1>5. NoLeftovers'
    BY <1>2, <1>4 DEF NoLeftovers, TypeOK
<1>6. CASE waitFor[p] = NoTask
  <2>1. UNCHANGED waitFor
    BY <1>2, <1>4, <1>6 DEF TypeOK
  <2> QED
    BY <1>4, <1>5, <2>1, Invisible DEF AbstractStep
<1>7. CASE waitFor[p] = c
  <2>1. /\ UNCHANGED [t \in Task |-> LifeOf(t)]
        /\ LifeOf(c) = "alive"
    BY <1>1, <1>2, <1>4 DEF LifeOf, Phase
  <2>2. [t \in Task |-> waitFor[t]]' = [[t \in Task |-> waitFor[t]] EXCEPT ![p] = NoTask]
    BY <1>2, <1>4 DEF TypeOK
  <2>3. UNCHANGED [t \in Task |-> parent[t]]
    BY <1>4
  <2>4. Abstract!Interrupt(p)
    BY <1>7, <2>1, <2>2, <2>3 DEF Abstract!Interrupt
  <2> QED
    BY <1>5, <2>4 DEF AbstractStep, Abstract!Next
<1> QED
    BY <1>2, <1>3, <1>6, <1>7

LEMMA WaitCollectRefines ==
    ASSUME RInv, WaitCollect
    PROVE  NoLeftovers' /\ AbstractStep
<1> USE TasksAssumption DEF Node, RInv
<1>1. PICK c \in Task : Waiting(c) /\ state[c] = "ZOMBIE" /\ Reap(c)
    BY DEF WaitCollect
<1>2. current \in Task /\ parent[c] = current /\ waitFor[current] \in {NoTask, c}
    BY <1>1 DEF Waiting, InUser, IInv, KernelStays, WaitTargetOwned, NoLeftovers, TypeOK
<1>3. /\ pc' = [pc EXCEPT ![current] = "return"]
      /\ waitFor' = [waitFor EXCEPT ![current] = NoTask]
      /\ "return" \in Points \ {"wait"}
    BY DEF WaitCollect, Continue, Points
<1> QED
    BY <1>1, <1>2, <1>3, ReapRefines

LEMMA ReapOrphanRefines ==
    ASSUME RInv, ReapOrphan
    PROVE  NoLeftovers' /\ AbstractStep
<1> USE TasksAssumption DEF Node, RInv
<1>1. PICK t \in Orphans : Reap(t)
    BY DEF ReapOrphan
<1>2. t \in Task /\ state[t] = "ZOMBIE" /\ parent[t] = current /\ current = Kernel
    BY DEF Orphans, ReapOrphan, IInv, TypeOK
<1>3. /\ pc' = [pc EXCEPT ![current] = "reap"] /\ UNCHANGED waitFor
      /\ "reap" \in Points \ {"wait"}
    BY DEF ReapOrphan, IInv, TypeOK, Points
<1> QED
    BY <1>1, <1>2, <1>3, ReapRefines

LEMMA SignalCatchRefines ==
    ASSUME RInv, SignalCatch
    PROVE  NoLeftovers' /\ AbstractStep
<1> USE TasksAssumption DEF Node, RInv
<1>1. PICK t \in Task :
        state' = IF state[t] = "BLOCKED" THEN [state EXCEPT ![t] = "READY"] ELSE state
    BY DEF SignalCatch
<1>2. /\ pc' = [pc EXCEPT ![current] = "return"] /\ pc[current] = "user"
      /\ UNCHANGED <<parent, waitFor>>
    BY DEF SignalCatch, CanSignal, InUser, Continue, family
<1>3. \A u \in Task : Phase(state'[u]) = Phase(state[u]) /\ (state'[u] = "FREE" <=> state[u] = "FREE")
    BY <1>1 DEF Phase, IInv, TypeOK
<1>4. NoLeftovers'
    BY <1>2, <1>3 DEF NoLeftovers, IInv, TypeOK
<1> QED
    BY <1>2, <1>3, <1>4, Invisible DEF AbstractStep

LEMMA StepRefines ==
    ASSUME RInv, [Next]_vars
    PROVE  NoLeftovers' /\ AbstractStep
<1> USE TasksAssumption DEF RInv
<1>0. TypeOK /\ KernelStays
    BY DEF IInv
<1>1. CASE Fork \/ Spawn
  <2>1. handler[current] \in BOOLEAN
    BY <1>0 DEF TypeOK
  <2> QED
    BY <1>1, <2>1, CreateRefines DEF Fork, Spawn
<1>2. CASE Exit \/ Fault \/ SignalSelf \/ NoHandler
  <2>1. current \in Task /\ Die
    BY <1>0, <1>2 DEF Exit, Fault, SignalSelf, NoHandler, CanSignal, InUser,
                      KernelStays, TypeOK, Node
  <2> QED
    BY <2>1, DieRefines
<1>3. CASE Trap \/ InputLine \/ LineTyped \/ Execve \/ InputReturn \/ ReturnToUser \/ RunHandler
           \/ IdleWake \/ IdleSleep
  <2>1. PICK q \in Points \ {"wait"} : pc' = [pc EXCEPT ![current] = q]
    <3>1. CASE Execve
      <4>1. pc' = [pc EXCEPT ![current] = "user"]
        BY <1>0, <3>1 DEF Execve, InUser, TypeOK
      <4> QED
        BY <4>1 DEF Points
    <3>2. CASE ~Execve
      BY <1>3, <3>2 DEF Trap, InputLine, LineTyped, InputReturn, ReturnToUser, RunHandler, IdleWake,
                        IdleSleep, Continue, Points
    <3> QED
      BY <3>1, <3>2
  <2>2. UNCHANGED <<current, state, parent, waitFor>> /\ pc[current] # "wait"
    BY <1>3 DEF Trap, InputLine, LineTyped, Execve, InputReturn, ReturnToUser, RunHandler, IdleWake,
                IdleSleep, InUser, Continue, family
  <2> QED
    BY <2>1, <2>2, QuietRefines
<1>4. CASE UNCHANGED vars
  <2>1. UNCHANGED <<state, parent, waitFor, pc>>
    BY <1>4 DEF vars, family
  <2> QED
    BY <2>1, Invisible DEF AbstractStep, NoLeftovers
<1> QED
    BY <1>1, <1>2, <1>3, <1>4, TimerTickRefines, WaitBlockRefines, WaitInterruptedRefines,
       WaitCollectRefines, ReapOrphanRefines, SignalKillRefines, SignalCatchRefines
    DEF Next, UserStep, WaitStep, SignalStep, ReturnStep, IdleStep

LEMMA InitRefines == Init => NoLeftovers /\ Abstract!Init
<1> SUFFICES ASSUME Init PROVE NoLeftovers /\ Abstract!Init
    OBVIOUS
<1> USE TasksAssumption DEF Node
<1>1. PICK i \in Task :
        /\ state = [n \in Node |-> CASE n = Kernel -> "RUNNING"
                                     [] n = i -> "READY"
                                     [] OTHER -> "FREE"]
        /\ parent = [n \in Node |-> IF n \in {Kernel, i} THEN Kernel ELSE NoTask]
        /\ waitFor = [n \in Node |-> NoTask]
    BY DEF Init
<1>2. \A t \in Task : /\ state[t] = IF t = i THEN "READY" ELSE "FREE"
                      /\ parent[t] = IF t = i THEN Kernel ELSE NoTask
                      /\ waitFor[t] = NoTask
    BY <1>1
<1>3. \A t \in Task : LifeOf(t) = IF t = i THEN "alive" ELSE "none"
    BY <1>2 DEF LifeOf, Phase
<1>4. /\ [t \in Task |-> LifeOf(t)] = [t \in Task |-> IF t = i THEN "alive" ELSE "none"]
      /\ [t \in Task |-> parent[t]] = [t \in Task |-> IF t = i THEN Kernel ELSE NoTask]
      /\ [t \in Task |-> waitFor[t]] = [t \in Task |-> NoTask]
    BY <1>2, <1>3
<1> QED
    BY <1>2, <1>4 DEF NoLeftovers, Abstract!Init

\* The kernel, with its run queue, its switches and its table, shows user
\* programs nothing but the process interface: what fork, exit, waitpid and
\* the reapers do to a process is one step of the interface, and whatever
\* happens in between is none.
THEOREM Refinement == Spec => ImplementsProcesses
<1>1. Init => RInv /\ Abstract!Init
    BY InitIInv, InitRefines DEF RInv
<1>2. RInv /\ [Next]_vars => RInv'
    BY StepIInv, StepRefines DEF RInv
<1>3. RInv /\ [Next]_vars => [Abstract!Next]_(Abstract!vars)
    BY StepRefines DEF AbstractStep
<1> QED
    BY <1>1, <1>2, <1>3, PTL DEF Spec, ImplementsProcesses, Abstract!Spec

-----------------------------------------------------------------------------
(***************************************************************************)
(* The run queue of Tasks is one cycle, seen whole by the bounded walk of  *)
(* pick_next_task, and the families are rooted in kernel_task; therefore   *)
(* the idle loop runs only when no user task is alive.                     *)
(***************************************************************************)
\* A part of the nodes A that following nx never leaves is all of them.
OneCycle(A, nx) ==
    \A S \in SUBSET A : S # {} /\ (\A n \in S : nx[n] \in S) => S = A

\* No set of nodes is closed under up: whoever follows it gets out.
Rooted(A, up) ==
    \A S \in SUBSET A : S # {} => \E t \in S : up[t] \notin S

QueueFits == IsFiniteSet(table) /\ Cardinality(table) <= MaxTasks

\* What the queue needs beside IInv.
QInv ==
    /\ IInv
    /\ OneCycle(Allocated, next)
    /\ Rooted(Allocated \ {Kernel}, parent)
    /\ QueueFits

-----------------------------------------------------------------------------
(***************************************************************************)
(* task_link and task_reap on a circular list.                             *)
(***************************************************************************)
LEMMA CycleGrows ==
    ASSUME NEW A, NEW k \in A, NEW c, c \notin A, NEW nx, \A n \in A : nx[n] \in A,
           OneCycle(A, nx), NEW ny, ny[c] = nx[k], ny[k] = c,
           \A n \in A \ {k} : ny[n] = nx[n]
    PROVE  OneCycle(A \cup {c}, ny)
<1> SUFFICES ASSUME NEW S \in SUBSET (A \cup {c}), S # {}, \A n \in S : ny[n] \in S
             PROVE  S = A \cup {c}
    BY DEF OneCycle
<1> DEFINE T == S \ {c}
<1>1. T # {}
  <2>1. c \in S => nx[k] \in T
    OBVIOUS
  <2> QED
    BY <2>1
<1>2. \A n \in T : nx[n] \in T
  <2> TAKE n \in T
  <2>1. CASE n = k
    <3>1. c \in S
      BY <2>1
    <3>2. nx[k] \in S
      BY <3>1
    <3> QED
      BY <2>1, <3>2
  <2>2. CASE n # k
    BY <2>2
  <2> QED
    BY <2>1, <2>2
<1>3. T = A
    BY <1>1, <1>2 DEF OneCycle
<1> QED
    BY <1>3

LEMMA CycleShrinks ==
    ASSUME NEW A, NEW c \in A, NEW nx, OneCycle(A, nx), NEW ny,
           \A n \in A \ {c} : ny[n] = IF nx[n] = c THEN nx[c] ELSE nx[n]
    PROVE  OneCycle(A \ {c}, ny)
<1> SUFFICES ASSUME NEW S \in SUBSET (A \ {c}), S # {}, \A n \in S : ny[n] \in S
             PROVE  S = A \ {c}
    BY DEF OneCycle
<1>1. CASE \E n \in S : nx[n] = c
  <2> DEFINE T == S \cup {c}
  <2>1. nx[c] \in S
    BY <1>1
  <2>2. T \in SUBSET A /\ T # {} /\ \A n \in T : nx[n] \in T
    BY <2>1
  <2>3. T = A
    <3> HIDE DEF T
    <3> QED
      BY <2>2 DEF OneCycle
  <2> QED
    BY <2>3
<1>2. CASE \A n \in S : nx[n] # c
  <2>1. \A n \in S : nx[n] \in S
    BY <1>2
  <2>2. S = A
    BY <2>1 DEF OneCycle
  <2> QED
    BY <2>2
<1> QED
    BY <1>1, <1>2

\* What one step may do to the queue and to the families.
Unlinked ==
    /\ UNCHANGED <<next, table, Allocated>>
    /\ \A t \in Task : parent'[t] \in {parent[t], Kernel}
Linked(c) ==
    /\ state[c] = "FREE" /\ current \in Task /\ HasSlot
    /\ Link(current, c)
    /\ Allocated' = Allocated \cup {c}
Reaped(c) ==
    /\ state[c] = "ZOMBIE"
    /\ next' = [n \in Node |-> IF n = c THEN NoTask
                               ELSE IF next[n] = c THEN next[c] ELSE next[n]]
    /\ table' = table \ {c}
    /\ parent' = [parent EXCEPT ![c] = NoTask]
    /\ Allocated' = Allocated \ {c}

QueueStep == Unlinked \/ \E c \in Task : Linked(c) \/ Reaped(c)

LEMMA QueueSteps ==
    ASSUME IInv, [Next]_vars
    PROVE  QueueStep
<1> USE TasksAssumption DEF Node
<1>0. TypeOK /\ KernelStays /\ state \in [Node -> States]
    BY DEF IInv, TypeOK, States
<1>1. CASE UNCHANGED <<state, next, table, parent>>
    BY <1>1 DEF QueueStep, Unlinked, Allocated
<1>2. ASSUME NEW st \in [Node -> States], NEW at \in [Node -> Points], Sched(st, at),
             UNCHANGED <<next, table>>,
             \A t \in Task : parent'[t] \in {parent[t], Kernel},
             \A n \in Node : st[n] = "FREE" <=> state[n] = "FREE"
      PROVE  QueueStep
  <2>1. PICK n \in Node :
        /\ n = Kernel \/ (n \in Task /\ Preempted(st)[n] = "READY")
        /\ state' = [Preempted(st) EXCEPT ![n] = "RUNNING"]
    BY <1>2, SchedEffect
  <2>2. \A m \in Node : state'[m] = "FREE" <=> st[m] = "FREE"
    <3>1. Preempted(st) \in [Node -> States]
      BY DEF Preempted, States
    <3>2. \A m \in Node : Preempted(st)[m] = "FREE" <=> st[m] = "FREE"
      BY <1>0 DEF Preempted, TypeOK
    <3>3. st[Kernel] # "FREE"
      BY <1>0, <1>2 DEF KernelStays
    <3> HIDE DEF Node
    <3>4. Preempted(st)[n] # "FREE"
      BY <2>1, <3>2, <3>3
    <3> QED
      BY <2>1, <3>1, <3>2, <3>4
  <2>3. Allocated' = Allocated
    BY <1>2, <2>2 DEF Allocated
  <2> QED
    BY <1>2, <2>3 DEF QueueStep, Unlinked
<1>3. CASE TimerTick
  <2> DEFINE at == [pc EXCEPT ![current] = IF @ = "user" THEN "return" ELSE @]
  <2>1. at \in [Node -> Points] /\ Sched(state, at) /\ UNCHANGED <<next, table, parent>>
    BY <1>0, <1>3 DEF TimerTick, TypeOK, Points, family, queue
  <2> HIDE DEF at
  <2> QED
    BY <1>0, <1>2, <2>1
<1>4. CASE WaitBlock
  <2> DEFINE st == [state EXCEPT ![current] = "BLOCKED"]
             at == [pc EXCEPT ![current] = "wait"]
  <2>1. /\ at \in [Node -> Points] /\ st \in [Node -> States]
        /\ Sched(st, at) /\ UNCHANGED <<next, table, parent>>
    BY <1>0, <1>4 DEF WaitBlock, TypeOK, Points, States, family, queue
  <2>2. state[current] # "FREE"
    BY DEF IInv, OneRunning
  <2>3. \A n \in Node : st[n] = "FREE" <=> state[n] = "FREE"
    BY <1>0, <2>2
  <2> HIDE DEF at, st
  <2> QED
    BY <1>2, <2>1, <2>3
<1>5. ASSUME NEW t \in Node, Terminate(t), state[t] # "FREE"
      PROVE  /\ Terminated(t) \in [Node -> States]
             /\ \A n \in Node : Terminated(t)[n] = "FREE" <=> state[n] = "FREE"
             /\ UNCHANGED <<next, table>>
             /\ \A u \in Task : parent'[u] \in {parent[u], Kernel}
    BY <1>0, <1>5 DEF Terminate, Terminated, Orphan, queue, States
<1>6. ASSUME Die
      PROVE  QueueStep
  <2> DEFINE st == Terminated(current)
             at == [pc EXCEPT ![current] = "gone"]
  <2>1. at \in [Node -> Points] /\ Sched(st, at) /\ Terminate(current)
    BY <1>0, <1>6 DEF Die, TypeOK, Points
  <2>2. state[current] # "FREE" /\ current \in Node
    BY <1>0 DEF IInv, OneRunning, TypeOK
  <2>3. /\ st \in [Node -> States]
        /\ \A n \in Node : st[n] = "FREE" <=> state[n] = "FREE"
        /\ UNCHANGED <<next, table>>
        /\ \A u \in Task : parent'[u] \in {parent[u], Kernel}
    BY <1>5, <2>1, <2>2
  <2> HIDE DEF at, st
  <2> QED
    BY <1>2, <2>1, <2>3
<1>7. CASE SignalKill
  <2>1. PICK u \in Task : CanSignal(u) /\ Terminate(u) /\ state' = Terminated(u)
    BY <1>7 DEF SignalKill
  <2>2. state[u] # "FREE"
    BY <2>1 DEF CanSignal, IInv, QueueClosed, Allocated
  <2>3. /\ \A n \in Node : state'[n] = "FREE" <=> state[n] = "FREE"
        /\ UNCHANGED <<next, table>>
        /\ \A t \in Task : parent'[t] \in {parent[t], Kernel}
    BY <1>5, <2>1, <2>2
  <2> QED
    BY <2>3 DEF QueueStep, Unlinked, Allocated
<1>8. CASE SignalCatch
  <2>1. \A n \in Node : state'[n] = "FREE" <=> state[n] = "FREE"
    BY <1>0, <1>8 DEF SignalCatch
  <2>2. UNCHANGED <<next, table, parent>>
    BY <1>8 DEF SignalCatch, family, queue
  <2> QED
    BY <2>1, <2>2 DEF QueueStep, Unlinked, Allocated
<1>9. CASE Fork \/ Spawn
  <2>1. PICK c \in Task : /\ state[c] = "FREE" /\ HasSlot /\ Link(current, c)
                          /\ state' = [state EXCEPT ![c] = "READY"]
    BY <1>9 DEF Fork, Spawn, Create
  <2>2. current \in Task
    BY <1>9 DEF Fork, Spawn, InUser
  <2>3. Allocated' = Allocated \cup {c}
    BY <1>0, <2>1 DEF Allocated
  <2> QED
    BY <2>1, <2>2, <2>3 DEF QueueStep, Linked
<1>10. ASSUME NEW c \in Task, state[c] = "ZOMBIE", Reap(c)
       PROVE  QueueStep
  <2>1. Allocated' = Allocated \ {c}
    BY <1>0, <1>10 DEF Allocated, Reap
  <2> QED
    BY <1>10, <2>1 DEF QueueStep, Reaped, Reap
<1>11. CASE WaitCollect
    BY <1>10, <1>11 DEF WaitCollect
<1>12. CASE ReapOrphan
  <2>1. PICK t \in Orphans : Reap(t)
    BY <1>12 DEF ReapOrphan
  <2>2. t \in Task /\ state[t] = "ZOMBIE"
    BY <1>0 DEF Orphans, TypeOK
  <2> QED
    BY <1>10, <2>1, <2>2
<1>13. CASE Trap \/ InputLine \/ LineTyped \/ Execve \/ WaitInterrupted \/ InputReturn
            \/ ReturnToUser \/ RunHandler \/ IdleWake \/ IdleSleep
    BY <1>1, <1>13 DEF Trap, InputLine, LineTyped, Execve, WaitInterrupted, InputReturn,
                       ReturnToUser, RunHandler, IdleWake, IdleSleep, family, queue
<1>14. CASE Exit \/ Fault \/ SignalSelf \/ NoHandler
    BY <1>6, <1>14 DEF Exit, Fault, SignalSelf, NoHandler
<1>15. CASE UNCHANGED vars
    BY <1>1, <1>15 DEF vars, family, queue
<1> QED
    BY <1>3, <1>4, <1>7, <1>8, <1>9, <1>11, <1>12, <1>13, <1>14, <1>15
    DEF Next, UserStep, WaitStep, SignalStep, ReturnStep, IdleStep

LEMMA QInvStep ==
    ASSUME QInv, [Next]_vars
    PROVE  QInv'
<1> USE TasksAssumption DEF Node
<1>0. /\ IInv /\ IInv' /\ TypeOK /\ KernelStays /\ QueueClosed
      /\ Kernel \in Allocated /\ Allocated \subseteq Node
    BY StepIInv DEF QInv, IInv, KernelStays, Allocated
<1> DEFINE A == Allocated
           B == Allocated \ {Kernel}
<1>1. CASE Unlinked
  <2>1. OneCycle(A, next)' /\ QueueFits'
    BY <1>1 DEF QInv, Unlinked, QueueFits
  <2>2. Rooted(B, parent')
    <3> SUFFICES ASSUME NEW S \in SUBSET B, S # {}
                 PROVE  \E t \in S : parent'[t] \notin S
        BY DEF Rooted
    <3>1. PICK t \in S : parent[t] \notin S
      BY DEF QInv, Rooted
    <3>2. t \in Task /\ Kernel \notin S
      BY <1>0
    <3>3. parent'[t] \in {parent[t], Kernel}
      BY <1>1, <3>2 DEF Unlinked
    <3> QED
      BY <3>1, <3>2, <3>3
  <2>3. B' = B
    BY <1>1 DEF Unlinked
  <2> QED
    BY <1>0, <2>1, <2>2, <2>3 DEF QInv
<1>2. ASSUME NEW c \in Task, Linked(c)
      PROVE  QInv'
  <2>1. /\ c \notin A /\ current \in Task
        /\ parent' = [parent EXCEPT ![c] = current]
        /\ next' = [next EXCEPT ![c] = next[Kernel], ![Kernel] = c]
        /\ table' = table \cup {c} /\ Cardinality(table) < MaxTasks
        /\ A' = A \cup {c}
    BY <1>2 DEF Linked, Link, HasSlot, Allocated
  <2>2. OneCycle(A \cup {c}, next')
    <3>1. \A n \in A : next[n] \in A
      BY <1>0 DEF QueueClosed
    <3>2. /\ next'[c] = next[Kernel] /\ next'[Kernel] = c
          /\ \A n \in A \ {Kernel} : next'[n] = next[n]
      BY <1>0, <2>1 DEF TypeOK
    <3>3. Kernel \in A /\ c \notin A /\ OneCycle(A, next)
      BY <1>0, <2>1 DEF QInv
    <3> HIDE DEF A
    <3> QED
      BY <3>1, <3>2, <3>3, CycleGrows
  <2>3. Rooted(B \cup {c}, parent')
    <3> SUFFICES ASSUME NEW S \in SUBSET (B \cup {c}), S # {}
                 PROVE  \E t \in S : parent'[t] \notin S
        BY DEF Rooted
    <3>1. CASE S \ {c} = {}
      <4>1. S = {c} /\ parent'[c] = current
        BY <1>0, <2>1, <3>1 DEF TypeOK
      <4>2. current # c
        BY <1>0, <2>1 DEF IInv, OneRunning, Allocated
      <4> QED
        BY <4>1, <4>2
    <3>2. CASE S \ {c} # {}
      <4>1. PICK t \in S \ {c} : parent[t] \notin S \ {c}
        <5>1. S \ {c} \in SUBSET B
          OBVIOUS
        <5> QED
          BY <3>2, <5>1 DEF QInv, Rooted
      <4>2. t \in Task /\ state[t] # "FREE"
        BY <1>0 DEF Allocated
      <4>3. parent[t] # c
        BY <1>0, <2>1, <4>2 DEF IInv, ParentLive
      <4>4. parent'[t] = parent[t]
        BY <1>0, <2>1, <4>2 DEF TypeOK
      <4> QED
        BY <4>1, <4>3, <4>4
    <3> QED
      BY <3>1, <3>2
  <2>4. QueueFits'
    <3>1. IsFiniteSet(table) /\ Cardinality(table) \in Nat
      BY FS_CardinalityType DEF QInv, QueueFits
    <3>2. /\ IsFiniteSet(table \cup {c})
          /\ Cardinality(table \cup {c})
                = IF c \in table THEN Cardinality(table) ELSE Cardinality(table) + 1
      BY <3>1, FS_AddElement
    <3> QED
      BY <2>1, <3>1, <3>2 DEF QueueFits
  <2>5. B' = B \cup {c}
    BY <2>1
  <2> HIDE DEF A, B
  <2> QED
    BY <1>0, <2>1, <2>2, <2>3, <2>4, <2>5 DEF QInv, A, B
<1>3. ASSUME NEW c \in Task, Reaped(c)
      PROVE  QInv'
  <2>1. /\ c \in A /\ A' = A \ {c}
        /\ table' = table \ {c}
        /\ parent' = [parent EXCEPT ![c] = NoTask]
        /\ \A n \in A \ {c} : next'[n] = IF next[n] = c THEN next[c] ELSE next[n]
    BY <1>0, <1>3 DEF Reaped, Allocated
  <2>2. OneCycle(A \ {c}, next')
    <3>1. OneCycle(A, next)
      BY DEF QInv
    <3> HIDE DEF A
    <3> QED
      BY <2>1, <3>1, CycleShrinks
  <2>3. B' = B \ {c}
    BY <2>1
  <2>4. Rooted(B \ {c}, parent')
    <3> SUFFICES ASSUME NEW S \in SUBSET (B \ {c}), S # {}
                 PROVE  \E t \in S : parent'[t] \notin S
        BY DEF Rooted
    <3>1. PICK t \in S : parent[t] \notin S
      BY DEF QInv, Rooted
    <3>2. parent'[t] = parent[t]
      BY <1>0, <2>1 DEF TypeOK
    <3> QED
      BY <3>1, <3>2
  <2>5. QueueFits'
    <3>1. IsFiniteSet(table) /\ Cardinality(table) \in Nat /\ Cardinality(table) <= MaxTasks
      BY FS_CardinalityType DEF QInv, QueueFits
    <3>2. /\ IsFiniteSet(table \ {c})
          /\ Cardinality(table \ {c})
                = IF c \in table THEN Cardinality(table) - 1 ELSE Cardinality(table)
      BY <3>1, FS_RemoveElement
    <3> QED
      BY <2>1, <3>1, <3>2 DEF QueueFits
  <2> HIDE DEF A, B
  <2> QED
    BY <1>0, <2>1, <2>2, <2>3, <2>4, <2>5 DEF QInv, A, B
<1> QED
    BY <1>0, <1>1, <1>2, <1>3, QueueSteps DEF QueueStep

LEMMA QInvInit ==
    ASSUME Init
    PROVE  QInv
<1> USE TasksAssumption DEF Node
<1>1. PICK i \in Task :
        /\ state = [n \in Node |-> CASE n = Kernel -> "RUNNING"
                                     [] n = i -> "READY"
                                     [] OTHER -> "FREE"]
        /\ parent = [n \in Node |-> IF n \in {Kernel, i} THEN Kernel ELSE NoTask]
        /\ next = [n \in Node |-> CASE n = Kernel -> i
                                    [] n = i -> Kernel
                                    [] OTHER -> NoTask]
        /\ table = {Kernel, i}
    BY DEF Init
<1>2. /\ Allocated = {Kernel, i} /\ i # Kernel
      /\ next[Kernel] = i /\ next[i] = Kernel /\ parent[i] = Kernel
    BY <1>1 DEF Allocated
<1>3. OneCycle(Allocated, next)
  <2> SUFFICES ASSUME NEW S \in SUBSET {Kernel, i}, S # {}, \A n \in S : next[n] \in S
               PROVE  S = {Kernel, i}
      BY <1>2 DEF OneCycle
  <2>1. Kernel \in S <=> i \in S
    BY <1>2
  <2> QED
    BY <2>1
<1>4. Rooted(Allocated \ {Kernel}, parent)
    BY <1>2 DEF Rooted
<1>5. QueueFits
  <2>1. /\ IsFiniteSet({Kernel}) /\ Cardinality({Kernel}) = 1
    BY FS_Singleton
  <2>2. IsFiniteSet({Kernel} \cup {i}) /\ Cardinality({Kernel} \cup {i}) = 2
    BY <1>2, <2>1, FS_AddElement
  <2>3. table = {Kernel} \cup {i}
    BY <1>1
  <2> QED
    BY <2>2, <2>3 DEF QueueFits
<1> QED
    BY <1>3, <1>4, <1>5, InitIInv DEF QInv

\* The queue is one cycle through kernel_task that fits tasks[], and no task
\* is its own ancestor.
THEOREM QueueInvariance == Spec => []QInv
<1>1. Init => QInv
    BY QInvInit
<1>2. QInv /\ [Next]_vars => QInv'
    BY QInvStep
<1> QED
    BY <1>1, <1>2, PTL DEF Spec

-----------------------------------------------------------------------------
(***************************************************************************)
(* The walk of pick_next_task.                                             *)
(***************************************************************************)
\* The definition of Walk by recursion does define a function.
LEMMA WalkSteps ==
    ASSUME TypeOK
    PROVE  /\ Walk[0] = next[current]
           /\ \A i \in 1..(MaxTasks + 1) : Walk[i] = Follow(Walk[i - 1])
<1> USE TasksAssumption
<1> DEFINE n == MaxTasks + 1
           D == Node \cup {NoTask}
           step == [x \in D \X {0} |-> Follow(x[1])]
           s == [i \in 1..n |-> 0]
           Def(f) == f = [i \in 0..n |-> IF i = 0 THEN Follow(current) ELSE Follow(f[i - 1])]
<1>1. n \in Nat /\ step \in [D \X {0} -> D] /\ s \in [1..n -> {0}] /\ Follow(current) \in D
    BY DEF Follow, TypeOK
<1>2. PICK f \in [0..n -> D] : Loops(step, Follow(current), s, n, f)
  <2> HIDE DEF n, D, step, s
  <2> QED
    BY <1>1, LoopExists
<1>3. \A i \in 1..n : f[i] = Follow(f[i - 1])
  <2> TAKE i \in 1..n
  <2>1. i - 1 \in 0..n
    BY <1>1
  <2>2. f[i - 1] \in D
    BY <2>1
  <2>3. <<f[i - 1], s[i]>> \in D \X {0} /\ <<f[i - 1], s[i]>>[1] = f[i - 1]
    BY <2>2
  <2>4. step[<<f[i - 1], s[i]>>] = Follow(f[i - 1])
    BY <2>3
  <2> HIDE DEF step
  <2> QED
    BY <1>2, <2>4 DEF Loops
<1>4. f[0] = Follow(current)
    BY <1>2 DEF Loops
<1>5. \A i \in 0..n : i = 0 \/ i \in 1..n
    BY <1>1
<1>6. Def(f)
    BY <1>3, <1>4, <1>5
<1>7. Def(Walk)
  <2> HIDE DEF n
  <2>1. Walk = CHOOSE g : Def(g)
    BY DEF Walk, n
  <2> HIDE DEF Def
  <2> QED
    BY <1>6, <2>1
<1>8. 0 \in 0..n /\ \A i \in 1..n : i \in 0..n /\ i # 0
    BY <1>1
<1>9. Walk[0] = Follow(current) /\ \A i \in 1..n : Walk[i] = Follow(Walk[i - 1])
    BY <1>7, <1>8
<1> QED
    BY <1>9 DEF Follow, TypeOK

\* A walk of more turns than a closed set has nodes has been everywhere, if
\* the set is one cycle.
LEMMA WalkCovers ==
    ASSUME NEW A, IsFiniteSet(A), NEW m \in Nat, Cardinality(A) <= m,
           NEW nx, \A n \in A : nx[n] \in A, OneCycle(A, nx),
           NEW w, w[0] \in A, \A i \in 1..m : w[i] = nx[w[i - 1]]
    PROVE  {w[i] : i \in 0..m} = A
<1> DEFINE In == {i \in 0..m : w[i] \in A}
<1>1. ASSUME NEW i \in 0..m
      PROVE  w[i] \in A
  <2>1. 0 \in In
    OBVIOUS
  <2>2. \A k \in 1..m : k - 1 \in In => k \in In
    OBVIOUS
  <2>3. i \in Nat /\ \A k \in 1..i : k \in 1..m
    OBVIOUS
  <2> HIDE DEF In
  <2>4. \A k \in 1..i : k - 1 \in In => k \in In
    BY <2>2, <2>3
  <2>5. i \in In
    BY <2>1, <2>3, <2>4, CountUp
  <2> QED
    BY <2>5 DEF In
<1> DEFINE W == [i \in 0..m |-> w[i]]
<1>2. PICK i, j \in 0..m : i # j /\ w[i] = w[j]
  <2>1. W \in [0..m -> A]
    BY <1>1
  <2>2. IsFiniteSet(0..m) /\ Cardinality(0..m) = m + 1
    BY FS_Interval
  <2>3. Cardinality(A) \in Nat
    BY FS_CardinalityType
  <2>4. Cardinality(A) < Cardinality(0..m)
    BY <2>2, <2>3
  <2> HIDE DEF W
  <2>5. \E i, j \in 0..m : i # j /\ W[i] = W[j]
    BY <2>1, <2>2, <2>4, FS_PigeonHole
  <2> QED
    BY <2>5 DEF W
<1>3. PICK a, b \in 0..m : a < b /\ w[a] = w[b]
  <2>1. i < j \/ j < i
    BY <1>2
  <2> QED
    BY <1>2, <2>1
<1> DEFINE S == {w[k] : k \in a..(b - 1)}
<1>4. S \in SUBSET A /\ S # {}
  <2>1. a \in a..(b - 1) /\ \A k \in a..(b - 1) : k \in 0..m
    BY <1>3
  <2> QED
    BY <1>1, <2>1
<1>5. ASSUME NEW n \in S
      PROVE  nx[n] \in S
  <2>1. PICK k \in a..(b - 1) : n = w[k]
    OBVIOUS
  <2>2. k + 1 \in 1..m /\ (k + 1) - 1 = k
    BY <1>3
  <2>3. w[k + 1] = nx[n]
    BY <2>1, <2>2
  <2>4. CASE k + 1 = b
    <3>1. a \in a..(b - 1)
      BY <1>3
    <3> QED
      BY <1>3, <2>3, <2>4, <3>1
  <2>5. CASE k + 1 # b
    <3>1. k + 1 \in a..(b - 1)
      BY <1>3, <2>5
    <3> QED
      BY <2>3, <3>1
  <2> QED
    BY <2>4, <2>5
<1>6. S = A
  <2> HIDE DEF S
  <2> QED
    BY <1>4, <1>5 DEF OneCycle
<1>7. \A k \in a..(b - 1) : k \in 0..m
    BY <1>3
<1> QED
    BY <1>1, <1>6, <1>7

LEMMA WalkSeesAll ==
    ASSUME QInv
    PROVE  Reached = Allocated
<1> USE TasksAssumption
<1> DEFINE m == MaxTasks + 1
           A == Allocated
<1>1. /\ TypeOK /\ A = table /\ A \subseteq Node /\ current \in A
      /\ \A n \in A : next[n] \in A
    BY DEF QInv, IInv, QueueClosed, OneRunning, Allocated, TypeOK
<1>2. IsFiniteSet(A) /\ m \in Nat /\ Cardinality(A) <= m /\ OneCycle(A, next)
  <2>1. Cardinality(table) \in Nat
    BY FS_CardinalityType DEF QInv, QueueFits
  <2> QED
    BY <1>1, <2>1 DEF QInv, QueueFits
<1>3. Walk[0] \in A /\ \A i \in 1..m : Walk[i] = Follow(Walk[i - 1])
    BY <1>1, WalkSteps
<1> DEFINE nx == [n \in A |-> next[n]]
           w == [i \in 0..m |-> Walk[i]]
           In == {i \in 0..m : Walk[i] \in A}
<1>4. \A n \in A : Follow(n) = next[n]
    BY <1>1 DEF Follow
<1>5. ASSUME NEW i \in 0..m
      PROVE  Walk[i] \in A
  <2>1. 0 \in In
    BY <1>2, <1>3
  <2>2. \A k \in 1..m : k - 1 \in In => k \in In
    BY <1>1, <1>2, <1>3, <1>4
  <2>3. i \in Nat /\ \A k \in 1..i : k \in 1..m
    BY <1>2
  <2> HIDE DEF In
  <2>4. \A k \in 1..i : k - 1 \in In => k \in In
    BY <2>2, <2>3
  <2>5. i \in In
    BY <2>1, <2>3, <2>4, CountUp
  <2> QED
    BY <2>5 DEF In
<1>6. \A i \in 1..m : Walk[i] = next[Walk[i - 1]]
  <2> TAKE i \in 1..m
  <2>1. i - 1 \in 0..m
    BY <1>2
  <2> QED
    BY <1>3, <1>4, <1>5, <2>1
<1> HIDE DEF A, m
<1>7. {Walk[i] : i \in 0..m} = A
    BY <1>1, <1>2, <1>3, <1>6, WalkCovers
<1> QED
    BY <1>7 DEF Reached, A, m

\* The bounded walk of pick_next_task visits exactly the structs of tasks[],
\* wherever it starts and however the queue was built.
THEOREM WalkSound == Spec => []QueueIsTable
<1>1. QInv => QueueIsTable
    BY WalkSeesAll DEF QInv, IInv, QueueIsTable
<1> QED
    BY <1>1, QueueInvariance, PTL

-----------------------------------------------------------------------------
(***************************************************************************)
(* When the kernel task is chosen.                                         *)
(***************************************************************************)
\* A chain of sleepers that wait for sleepers would have to be a cycle of
\* parents.
Lonely ==
    (\A t \in Task : state[t] \notin {"READY", "RUNNING"})
        => \A t \in Task : state[t] \in {"ZOMBIE", "FREE"}

LEMMA NobodyWaitsAlone ==
    ASSUME QInv
    PROVE  Lonely
<1> USE TasksAssumption
<1> SUFFICES ASSUME \A t \in Task : state[t] \notin {"READY", "RUNNING"}
             PROVE  \A t \in Task : state[t] \in {"ZOMBIE", "FREE"}
    BY DEF Lonely
<1> DEFINE B == {t \in Task : state[t] = "BLOCKED"}
           f == [t \in B |-> waitFor[t]]
<1>1. \A t \in B : waitFor[t] \in B /\ parent[waitFor[t]] = t
  <2> TAKE t \in B
  <2>1. pc[t] = "wait" /\ state[waitFor[t]] # "ZOMBIE"
    BY DEF QInv, IInv, CanResume, NoLostWakeup
  <2>2. waitFor[t] \in Task /\ state[waitFor[t]] # "FREE" /\ parent[waitFor[t]] = t
    BY <2>1 DEF QInv, IInv, WaitTargetOwned, Allocated
  <2>3. state[waitFor[t]] \in {"FREE", "READY", "RUNNING", "BLOCKED", "ZOMBIE"}
    BY <2>2 DEF QInv, IInv, TypeOK, Node
  <2> QED
    BY <2>1, <2>2, <2>3
<1>2. f \in Injection(B, B)
    BY <1>1 DEF Injection, IsInjective
<1>3. B \in SUBSET (Allocated \ {Kernel})
    BY DEF Allocated, Node
<1>4. IsFiniteSet(B)
  <2>1. IsFiniteSet(Allocated) /\ B \in SUBSET Allocated
    BY <1>3 DEF QInv, QueueFits, IInv, QueueClosed
  <2> HIDE DEF B
  <2> QED
    BY <2>1, FS_Subset
<1>5. f \in Surjection(B, B)
  <2> HIDE DEF B, f
  <2> QED
    BY <1>2, <1>4, FS_Injection
<1>6. \A b \in B : parent[b] \in B
  <2> TAKE b \in B
  <2>1. PICK t \in B : f[t] = b
    <3> HIDE DEF B, f
    <3> QED
      BY <1>5 DEF Surjection
  <2> QED
    BY <1>1, <2>1
<1>7. B = {}
  <2> HIDE DEF B
  <2> QED
    BY <1>3, <1>6 DEF QInv, Rooted
<1>8. \A t \in Task : state[t] \in {"FREE", "READY", "RUNNING", "BLOCKED", "ZOMBIE"}
    BY DEF QInv, IInv, TypeOK, Node
<1> QED
    BY <1>7, <1>8

\* pick_next_task returns a READY user task if tasks[] holds one.
LEMMA PickNextFinds ==
    ASSUME QInv, NEW st, PickNext(st) = Kernel, NEW t \in Task, t \in Allocated
    PROVE  st[t] # "READY"
<1> USE TasksAssumption
<1> SUFFICES ASSUME st[t] = "READY" PROVE FALSE
    OBVIOUS
<1> DEFINE I == 0..(MaxTasks + 1)
           E == {i \in I : Eligible(st, Walk[i])}
           First(i) == /\ Eligible(st, Walk[i])
                       /\ \A j \in 0..(i - 1) : ~Eligible(st, Walk[j])
<1>1. E # {}
  <2>1. t \in Reached
    BY WalkSeesAll
  <2>2. PICK i \in I : Walk[i] = t
    BY <2>1 DEF Reached
  <2>3. Eligible(st, Walk[i])
    BY <2>2 DEF Eligible
  <2> QED
    BY <2>3
<1>2. PICK i \in E : \A j \in E : i <= j
  <2>1. E \subseteq Nat
    OBVIOUS
  <2> HIDE DEF E
  <2> QED
    BY <1>1, <2>1, LeastNat
<1>3. First(i)
  <2>1. \A j \in 0..(i - 1) : j \in I /\ ~(i <= j)
    OBVIOUS
  <2>2. \A j \in 0..(i - 1) : ~Eligible(st, Walk[j])
    BY <1>2, <2>1
  <2> QED
    BY <2>2
<1>4. i \in I
    OBVIOUS
<1> DEFINE c == CHOOSE k \in I : First(k)
<1>5. First(c) /\ PickNext(st) = Walk[c]
  <2>1. First(c)
    <3> HIDE DEF First, I
    <3> QED
      BY <1>3, <1>4
  <2>2. PickNext(st) = Walk[c]
    BY <1>3, <1>4 DEF PickNext, FirstReady
  <2> QED
    BY <2>1, <2>2
<1>6. Walk[c] \in Task
    BY <1>5 DEF Eligible
<1> QED
    BY <1>5, <1>6

\* sched() gives the CPU to kernel_task: behind it no user task can run.
LEMMA SchedToKernel ==
    ASSUME QInv, NEW st \in [Node -> States], NEW at \in [Node -> Points], Sched(st, at),
           current' = Kernel,
           \A t \in Task : state[t] = "FREE" => st[t] = "FREE",
           \A t \in Task : st[t] = "RUNNING" => state[t] = "RUNNING"
    PROVE  \A t \in Task : state'[t] \notin {"READY", "RUNNING"}
<1> USE TasksAssumption
<1> DEFINE P == Preempted(st)
<1> SUFFICES ASSUME NEW t \in Task
             PROVE  state'[t] \notin {"READY", "RUNNING"}
    OBVIOUS
<1>1. PickNext(P) = Kernel /\ state' = [P EXCEPT ![Kernel] = "RUNNING"]
    BY DEF Sched
<1>2. P \in [Node -> States] /\ t \in Node /\ t # Kernel
    BY DEF Preempted, States, Node
<1>3. P[t] # "RUNNING"
  <2>1. state[t] = "RUNNING" => t = current
    BY <1>2 DEF QInv, IInv, OneRunning
  <2> QED
    BY <1>2, <2>1 DEF Preempted
<1>4. P[t] # "READY"
  <2>1. CASE t \in Allocated
    <3> HIDE DEF P
    <3> QED
      BY <1>1, <2>1, PickNextFinds
  <2>2. CASE t \notin Allocated
    <3>1. state[t] = "FREE" /\ st[t] = "FREE"
      BY <1>2, <2>2 DEF Allocated
    <3> QED
      BY <1>2, <3>1 DEF Preempted
  <2> QED
    BY <2>1, <2>2
<1>5. state'[t] = P[t]
  <2> HIDE DEF P
  <2> QED
    BY <1>1, <1>2
<1> QED
    BY <1>3, <1>4, <1>5

LEMMA KernelChosen ==
    ASSUME QInv, [Next]_vars, current # Kernel, current' = Kernel
    PROVE  \A t \in Task : state'[t] \notin {"READY", "RUNNING"}
<1> USE TasksAssumption
<1>0. TypeOK /\ current \in Task /\ state[current] = "RUNNING"
    BY DEF QInv, IInv, TypeOK, OneRunning, Node
<1>1. CASE TimerTick
  <2> DEFINE at == [pc EXCEPT ![current] = IF @ = "user" THEN "return" ELSE @]
  <2>1. state \in [Node -> States] /\ at \in [Node -> Points] /\ Sched(state, at)
    BY <1>0, <1>1 DEF TimerTick, TypeOK, Points, States
  <2> HIDE DEF at
  <2> QED
    BY <2>1, SchedToKernel
<1>2. CASE WaitBlock
  <2> DEFINE st == [state EXCEPT ![current] = "BLOCKED"]
             at == [pc EXCEPT ![current] = "wait"]
  <2>1. /\ at \in [Node -> Points] /\ st \in [Node -> States] /\ Sched(st, at)
    BY <1>0, <1>2 DEF WaitBlock, TypeOK, Points, States
  <2>2. /\ \A t \in Task : state[t] = "FREE" => st[t] = "FREE"
        /\ \A t \in Task : st[t] = "RUNNING" => state[t] = "RUNNING"
    BY <1>0 DEF TypeOK, Node
  <2> HIDE DEF at, st
  <2> QED
    BY <2>1, <2>2, SchedToKernel
<1>3. CASE Exit \/ Fault \/ SignalSelf \/ NoHandler
  <2> DEFINE st == Terminated(current)
             at == [pc EXCEPT ![current] = "gone"]
  <2>1. Sched(st, at)
    BY <1>3 DEF Exit, Fault, SignalSelf, NoHandler, Die
  <2>2. at \in [Node -> Points] /\ st \in [Node -> States]
    BY <1>0 DEF Terminated, TypeOK, Points, States
  <2>3. /\ \A t \in Task : state[t] = "FREE" => st[t] = "FREE"
        /\ \A t \in Task : st[t] = "RUNNING" => state[t] = "RUNNING"
    BY <1>0 DEF Terminated, TypeOK, Node
  <2> HIDE DEF at, st
  <2> QED
    BY <2>1, <2>2, <2>3, SchedToKernel
<1>4. CASE UNCHANGED current
    BY <1>4
<1> QED
    BY <1>1, <1>2, <1>3, <1>4
    DEF Next, LineTyped, UserStep, Trap, InputLine, Fork, Spawn, Create, Execve, WaitStep,
        WaitInterrupted, WaitCollect, SignalStep, SignalKill, SignalCatch, ReturnStep,
        InputReturn, ReturnToUser, RunHandler, IdleStep, IdleWake, ReapOrphan, IdleSleep,
        Continue, vars

\* The kernel task gets the CPU from a user task only when every user task is
\* dead: as long as one lives, the walk finds one that can run, for a chain
\* of parents that wait for children ends at a child that does not wait.
THEOREM KernelIsLast == Spec => IdleOnlyWhenAlone
<1>1. QInv => Lonely
    BY NobodyWaitsAlone
<1>2. QInv /\ Lonely' /\ [Next]_vars
        => [current # Kernel /\ current' = Kernel
              => \A t \in Task : state'[t] \in {"ZOMBIE", "FREE"}]_vars
    BY KernelChosen DEF Lonely
<1> QED
    BY <1>1, <1>2, QueueInvariance, PTL DEF Spec, IdleOnlyWhenAlone
=============================================================================
