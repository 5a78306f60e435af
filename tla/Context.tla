------------------------------- MODULE Context -------------------------------
(***************************************************************************)
(* Registers on their way through the kernel: the entry stubs (isr.asm,    *)
(* sysentry.asm), cpu_switch_context, the frames fork and exec make up,    *)
(* and what a signal changes in them.  Who may run is the subject of       *)
(* Tasks; here sched may pick any task.                                    *)
(*                                                                         *)
(* A stack is a sequence of values, the top first, so that a C structure   *)
(* at its top is read by index.  The orders of the instructions and those  *)
(* of the structures are lists of their own: that they agree is what the   *)
(* properties show.                                                        *)
(***************************************************************************)
EXTENDS Registers

VARIABLES
    live,           \* the tasks there are
    current,        \* current_task
    at,             \* "user", a C function, or ret_from_fork
    cpu,            \* the registers
    stack,          \* kernel stacks; the boot stack for the kernel task
    fpu_raw,        \* task_t.fpu_raw
    rsp0,           \* tss.rsp0: the task whose stack it is the top of
    syscall_kernel_rsp,     \* likewise
    in_service,     \* the local APIC waits for the end of an interrupt
    handler,        \* tasks with sigterm_handler_rip
    pending         \* tasks with pending_signal (SIGTERM)

entries == <<rsp0, syscall_kernel_rsp>>
signals == <<handler, pending>>
vars == <<live, current, at, cpu, stack, fpu_raw, entries, in_service, signals>>

Owners == Task \cup {Kernel}

\* struct registers and syscall_ctx_t.
registers_t ==
    <<"r15", "r14", "r13", "r12", "r11", "r10", "r9", "r8", "rbp", "rdi", "rsi", "rdx",
      "rcx", "rbx", "rax", "int_no", "error_code", "rip", "cs", "rflags", "rsp", "ss">>

syscall_ctx_t ==
    <<"sys_num", "arg1", "arg2", "arg3", "arg4", "arg5", "arg6", "rip", "rflags",
      "rbx", "rbp", "r12", "r13", "r14", "r15", "user_rsp">>

\* Where each name of a list is.
Slots(list) == [f \in ToSet(list) |-> CHOOSE i \in DOMAIN list : list[i] = f]

registers_slot == Slots(registers_t)
syscall_slot == Slots(syscall_ctx_t)

\* The orders of the instructions.
StubPushes ==
    <<"rax", "rbx", "rcx", "rdx", "rsi", "rdi", "rbp", "r8", "r9", "r10", "r11",
      "r12", "r13", "r14", "r15">>

StubPops ==
    <<"r15", "r14", "r13", "r12", "r11", "r10", "r9", "r8", "rbp", "rdi", "rsi", "rdx",
      "rcx", "rbx", "rax">>

HardwarePushes == <<"ss", "rsp", "rflags", "cs", "rip">>

SyscallPushes ==
    <<"rsp", "r15", "r14", "r13", "r12", "rbp", "rbx", "r11", "rcx", "r9", "r8", "r10",
      "rdx", "rsi", "rdi", "rax">>

\* (fault: two arguments change places)
SyscallPopsSwapped ==
    <<"rdi", "rsi", "rdx", "r10", "r9", "r8", "rcx", "r11", "rbx", "rbp", "r12", "r13",
      "r14", "r15", "rsp">>

SyscallPops ==
    <<"rdi", "rsi", "rdx", "r10", "r8", "r9", "rcx", "r11", "rbx", "rbp", "r12", "r13",
      "r14", "r15", "rsp">>

SwitchPushes == <<"rbp", "rbx", "r12", "r13", "r14", "r15">>

\* (fault: in the order of the pushes)
SwitchPopsForward == <<"rbp", "rbx", "r12", "r13", "r14", "r15">>

SwitchPops == <<"r15", "r14", "r13", "r12", "rbx", "rbp">>

StubSlot == Slots(StubPops)
SyscallSlot == Slots(SyscallPops)
SwitchSlot == Slots(SwitchPops)

Pushed(names, file, s) == Reverse([i \in DOMAIN names |-> file[names[i]]]) \o s

Drop(s, n) == SubSeq(s, n + 1, Len(s))

\* The file after popping registers off s, from their slots.
Popped(slot, s, file) ==
    [r \in Names |-> IF r \in DOMAIN slot THEN s[slot[r]] ELSE file[r]]

-----------------------------------------------------------------------------
\* C functions below an entry stub, and those that run with interrupts on:
\* the end of int128_handler after the sti of input(), and the boot stack.
Handlers == {"irq_handler", "exception_handler", "int128_handler", "syscall_handler"}
Interruptible == {"int128_handler", "kinit", "kernel_idle_loop"}

\* The registers of C code on t's stack, with n values on it.
InCode(name, t, n, fpu) ==
    File(KERNEL_CS, KERNEL_SS,
         [r \in Names |->
            CASE r = "rip" -> Code(name)
              [] r = "rsp" -> <<"depth", Kernel, n>>
              [] r = "fpu" -> fpu
              [] OTHER -> <<name, t, r>>])

\* call name, from a stub that has left s on t's stack.
Called(name, t, s) ==
    LET below == <<Code(name)>> \o s
    IN  /\ stack' = [stack EXCEPT ![t] = below]
        /\ cpu' = InCode(name, t, Len(below), cpu["fpu"])
        /\ at' = name

\* build_kernel_frame: ret_from_fork and six zeros on top of cpu_ctx.
KernelFrame(cpu_ctx) ==
    [i \in 1..6 |-> Const("0")] \o <<Code("ret_from_fork")>> \o cpu_ctx

\* task_setup_user_context.
ImageContext ==
    [i \in DOMAIN registers_t |->
        LET field == registers_t[i]
        IN  CASE field = "rip" -> Const("entry")
              [] field = "rsp" -> Const("stack_top")
              [] field = "cs" -> USER_CS
              [] field = "ss" -> USER_SS
              [] field = "rflags" -> Const("0x202")
              [] field = "rdi" -> Const("argc")
              [] field = "rsi" -> Const("argv")
              [] OTHER -> Const("0")]

\* task_from_image: a new task with the entry state of a program.
NewTask(c) ==
    /\ live' = live \cup {c}
    /\ fpu_raw' = [fpu_raw EXCEPT ![c] = Const("fpu_default_image")]

\* kinit, in front of its sched(); the init task has been built.
Init ==
    /\ \E t \in Task :
        /\ live = {t}
        /\ stack = [u \in Owners |-> IF u = Kernel THEN <<Code("kinit")>>
                                     ELSE IF u = t THEN KernelFrame(ImageContext) ELSE <<>>]
        /\ handler \in SUBSET {t}
    /\ current = Kernel
    /\ at = "kinit"
    /\ cpu = InCode("kinit", Kernel, 1, Const("fninit"))
    /\ fpu_raw = [u \in Owners |-> Const("fpu_default_image")]
    /\ rsp0 = Kernel /\ syscall_kernel_rsp = Kernel
    /\ in_service = FALSE
    /\ pending = {}

-----------------------------------------------------------------------------
\* The program computes something.
Compute ==
    /\ at = "user"
    /\ cpu' = Own(current)
    /\ UNCHANGED <<live, current, at, stack, fpu_raw, entries, in_service, signals>>

\* rax is the number of a call, not the result of the last one.
Numbered == at = "user" => cpu["rax"] # Const("result")

\* What the CPU and a stub push for an interrupt or exception.
Frame(s) ==
    Pushed(StubPushes, cpu,
           <<Const("error_code"), Const("int_no")>> \o Pushed(HardwarePushes, cpu, s))

Interrupt(name) ==
    /\ name = "int128_handler" => Numbered
    /\ name = "irq_handler" => ~in_service
    /\ IF at = "user" THEN Called(name, rsp0, Frame(<<>>))
       ELSE /\ at \in Interruptible /\ name = "irq_handler"
            /\ Called(name, current, Frame(stack[current]))
    /\ in_service' = (in_service \/ name = "irq_handler")
    /\ UNCHANGED <<live, current, fpu_raw, entries, signals>>

\* apic_eoi, in the cases of the timer and of the keyboard.
Acknowledge ==
    /\ at = "irq_handler" /\ in_service
    /\ in_service' = FALSE
    /\ UNCHANGED <<live, current, at, cpu, stack, fpu_raw, entries, signals>>

\* syscall_entry.
SyscallEntry ==
    /\ at = "user" /\ Numbered
    /\ Called("syscall_handler", syscall_kernel_rsp,
              Pushed(SyscallPushes,
                     [cpu EXCEPT !["rcx"] = cpu["rip"], !["r11"] = cpu["rflags"]], <<>>))
    /\ UNCHANGED <<live, current, fpu_raw, entries, in_service, signals>>

\* What signal_check_user stores through its two pointers, for a task with
\* a handler; without one, or off the user stack, the task Exits.
SignalCheck(s, rip, rsp, p) ==
    IF current \in p THEN [s EXCEPT ![rip] = Const("sigterm_handler"), ![rsp] = SignalFrame(@)]
    ELSE s

\* After the check: mark and handler are gone, if there was a mark.
Checked(p, h) ==
    /\ current \in p => current \in h
    /\ pending' = p \ {current}
    /\ handler' = IF current \in p THEN h \ {current} ELSE h

\* The pops of a stub, error_code and int_no, and iretq.
Iretq(s) ==
    LET popped == Popped(StubSlot, s, cpu)
        frame == Drop(s, 17)
    IN  /\ cpu' = [popped EXCEPT !["rip"] = frame[1], !["cs"] = frame[2],
                                 !["rflags"] = frame[3], !["rsp"] = frame[4],
                                 !["ss"] = frame[5]]
        /\ at' = IF frame[2] = USER_CS THEN "user" ELSE frame[1][3]
        /\ stack' = [stack EXCEPT ![current] = Drop(frame, 5)]

\* irq_handler and exception_handler return.
InterruptReturn ==
    LET s == Drop(stack[current], 1)
        user == s[registers_slot["cs"]] = USER_CS
    IN  /\ at = "irq_handler" => ~in_service
        /\ \/ /\ at = "irq_handler" /\ user
              /\ Iretq(SignalCheck(s, registers_slot["rip"], registers_slot["rsp"],
                                   pending))
              /\ Checked(pending, handler)
           \/ /\ at = "exception_handler" \/ (at = "irq_handler" /\ ~user)
              /\ Iretq(s)
              /\ UNCHANGED signals
        /\ UNCHANGED <<live, current, fpu_raw, entries, in_service>>

\* int128_handler returns: mov [rsp + 112], rax.
Int128Return ==
    /\ at = "int128_handler"
    /\ Iretq([Drop(stack[current], 1) EXCEPT ![112 \div 8 + 1] = Const("result")])
    /\ UNCHANGED <<live, current, fpu_raw, entries, in_service, signals>>

\* syscall_handler returns: the rest of syscall_entry, with the segments
\* that sysret makes from STAR.  s is the context, p and h the signals the
\* call leaves.
SyscallReturn(others, p, h) ==
    LET s == SignalCheck(Drop(stack[current], 1), syscall_slot["rip"],
                         syscall_slot["user_rsp"], p)
        popped == Popped(SyscallSlot, Drop(s, 1), [cpu EXCEPT !["rax"] = Const("result")])
    IN  /\ Checked(p, h)
        /\ cpu' = [popped EXCEPT !["rip"] = popped["rcx"], !["rflags"] = popped["r11"],
                                 !["cs"] = KERNEL_SS + 16 + 3, !["ss"] = KERNEL_SS + 8 + 3]
        /\ at' = "user"
        /\ stack' = [others EXCEPT ![current] = <<>>]
        /\ UNCHANGED <<current, entries, in_service>>

\* A call that leaves the tasks alone.
Call ==
    /\ at = "syscall_handler"
    /\ SyscallReturn(stack, pending, handler)
    /\ UNCHANGED <<live, fpu_raw>>

-----------------------------------------------------------------------------
\* The part of sched between two tasks; s and fpu are what the one that
\* leaves keeps.  What C code has in the other registers it does not expect
\* to find after a call.
Switch(q, s, fpu) ==
    LET sp == stack[q]
        rest == Drop(sp, 7)
        name == rest[1][3]
    IN  /\ current' = q
        /\ rsp0' = q /\ syscall_kernel_rsp' = q
        /\ fpu_raw' = [fpu_raw EXCEPT ![current] = fpu]
        /\ IF sp[7] = Code("ret_from_fork")
           THEN /\ at' = "ret_from_fork"
                /\ cpu' = [Popped(SwitchSlot, sp, cpu) EXCEPT !["fpu"] = fpu_raw[q]]
           ELSE /\ at' = name
                /\ cpu' = Popped(SwitchSlot, sp, InCode(name, q, Len(rest), fpu_raw[q]))
        /\ stack' = [stack EXCEPT ![current] = s, ![q] = rest]

\* (fault: the timer interrupt is acknowledged behind sched)
SchedFirst(q) ==
    /\ at \in {"irq_handler", "syscall_handler", "kinit"}
    /\ q # current
    /\ Switch(q, Pushed(SwitchPushes, cpu, <<Code("sched")>> \o stack[current]), cpu["fpu"])
    /\ UNCHANGED <<live, in_service, signals>>

\* sched, from a timer interrupt once it is acknowledged, a call that waits,
\* or kinit.
Sched(q) ==
    /\ at \in {"irq_handler", "syscall_handler", "kinit"}
    /\ at = "irq_handler" => ~in_service
    /\ q # current
    /\ Switch(q, Pushed(SwitchPushes, cpu, <<Code("sched")>> \o stack[current]), cpu["fpu"])
    /\ UNCHANGED <<live, in_service, signals>>

\* ret_from_fork.
RetFromFork ==
    /\ at = "ret_from_fork"
    /\ Iretq(stack[current])
    /\ UNCHANGED <<live, current, fpu_raw, entries, in_service, signals>>

\* kinit goes on to kernel_idle_loop when sched returns.
Idle ==
    /\ at = "kinit"
    /\ Called("kernel_idle_loop", Kernel, <<>>)
    /\ UNCHANGED <<live, current, fpu_raw, entries, in_service, signals>>

\* fork: cpu_ctx field by field from the context of the call.
ForkContext(ctx) ==
    LET field(f) == ctx[syscall_slot[f]]
    IN  [i \in DOMAIN registers_t |->
            LET f == registers_t[i]
            IN  CASE f \in {"r15", "r14", "r13", "r12", "rbp", "rbx", "rip"} -> field(f)
                  [] f = "r11" -> field("rflags")
                  [] f = "r10" -> field("arg4")
                  [] f = "r9" -> field("arg6")
                  [] f = "r8" -> field("arg5")
                  [] f = "rdi" -> field("arg1")
                  [] f = "rsi" -> field("arg2")
                  [] f = "rdx" -> field("arg3")
                  [] f = "rcx" -> field("rip")
                  [] f = "rax" -> Const("0")
                  [] f = "cs" -> USER_CS
                  [] f = "ss" -> USER_SS
                  [] f = "rsp" -> field("user_rsp")
                  [] f = "rflags" -> UserFlags(field("rflags"))
                  [] OTHER -> Const("0")]

Fork(c) ==
    /\ at = "syscall_handler" /\ c \notin live
    /\ live' = live \cup {c}
    /\ fpu_raw' = [fpu_raw EXCEPT ![current] = cpu["fpu"], ![c] = cpu["fpu"]]
    /\ SyscallReturn([stack EXCEPT ![c] = KernelFrame(ForkContext(Drop(stack[current], 1)))],
                     pending, IF current \in handler THEN handler \cup {c} ELSE handler)

\* spawn; the image may come with a handler.
Spawn(c) ==
    /\ at = "syscall_handler" /\ c \notin live
    /\ NewTask(c)
    /\ \E new \in SUBSET {c} :
        SyscallReturn([stack EXCEPT ![c] = KernelFrame(ImageContext)], pending, handler \cup new)

\* execve and enter_user_context: cpu_ctx over the top of the own stack.
Exec ==
    /\ at = "syscall_handler"
    /\ pending' = pending \ {current}
    /\ \E new \in SUBSET {current} : handler' = (handler \ {current}) \cup new
    /\ fpu_raw' = [fpu_raw EXCEPT ![current] = Const("fpu_default_image")]
    /\ rsp0' = current /\ syscall_kernel_rsp' = current
    /\ stack' = [stack EXCEPT ![current] = ImageContext]
    /\ cpu' = [cpu EXCEPT !["fpu"] = fpu_raw'[current]]
    /\ at' = "ret_from_fork"
    /\ UNCHANGED <<live, current, in_service>>

\* signal_send(SIGTERM) to another task or to oneself, with a handler.
Send(t) ==
    /\ at = "syscall_handler" /\ t \in live \cap handler
    /\ SyscallReturn(stack, pending \cup {t}, handler)
    /\ UNCHANGED <<live, fpu_raw>>

\* signal_send to another task, which it terminates.
Kill(t) ==
    /\ at = "syscall_handler" /\ t \in live \ {current}
    /\ live' = live \ {t}
    /\ fpu_raw' = [fpu_raw EXCEPT ![t] = Const("fpu_default_image")]
    /\ SyscallReturn([stack EXCEPT ![t] = <<>>], pending \ {t}, handler \ {t})

\* exit, a fault or a signal ends the current task, and sched picks q.
\* What it leaves is freed, and is written again before it is read.
Exit(q) ==
    /\ at \in Handlers \ {"int128_handler"} /\ current # Kernel
    /\ UNCHANGED in_service
    /\ at = "irq_handler" =>
        /\ ~in_service
        /\ current \in pending /\ stack[current][1 + registers_slot["cs"]] = USER_CS
    /\ q \in Owners \ {current}
    /\ live' = live \ {current}
    /\ handler' = handler \ {current} /\ pending' = pending \ {current}
    /\ Switch(q, <<>>, Const("fpu_default_image"))

Next ==
    \/ Compute \/ SyscallEntry \/ InterruptReturn \/ Int128Return \/ Call
    \/ Acknowledge \/ RetFromFork \/ Idle \/ Exec
    \/ \E name \in Handlers \ {"syscall_handler"} : Interrupt(name)
    \/ \E q \in live \cup {Kernel} : Sched(q) \/ Exit(q)
    \/ \E t \in Task : Fork(t) \/ Spawn(t) \/ Send(t) \/ Kill(t)

Spec == Init /\ [][Next]_vars

-----------------------------------------------------------------------------
(***************************************************************************)
(* Properties.                                                             *)
(***************************************************************************)

\* C code of the kernel finds its registers, its place in the code and its
\* stack as it left them, whatever interrupted it and whoever ran since:
\* cpu_switch_context, iretq and the stubs take off exactly what they put.
KernelStateKept ==
    at \notin {"user", "ret_from_fork"}
        => cpu = InCode(at, current, Len(stack[current]), cpu["fpu"])

\* Whenever a program runs, and while the kernel idles, the next interrupt
\* can reach the CPU: no switch out of the interrupt handler leaves behind an
\* interrupt that only the switched-out task would acknowledge.
InterruptsHeard == at \in {"user", "kernel_idle_loop"} => ~in_service

\* The registers of a program: in the CPU, or at the bottom of its stack.
InSyscall(s) == Len(s) > 16 /\ s[Len(s) - 16] = Code("syscall_handler")

SavedSlot == Slots(Reverse(SyscallPushes))

Saved(r, s) ==
    IF InSyscall(s)
    THEN LET ctx == Drop(s, Len(s) - 16)
         IN  CASE r = "rip" -> ctx[syscall_slot["rip"]]
               [] r = "rflags" -> ctx[syscall_slot["rflags"]]
               [] r = "cs" -> USER_CS
               [] r = "ss" -> USER_SS
               [] OTHER -> ctx[SavedSlot[r]]
    ELSE Drop(s, Len(s) - 22)[registers_slot[r]]

UserFile(t) ==
    IF t = current /\ at = "user" THEN cpu
    ELSE [r \in Names |->
            IF r # "fpu" THEN Saved(r, stack[t])
            ELSE IF t = current THEN cpu["fpu"] ELSE fpu_raw[t]]

\* A program keeps its registers through interrupts, faults, calls, waits
\* and switches; fork copies them, exec and spawn set them, a signal and the
\* result of a call change what they should and nothing else.
User == INSTANCE UserContext WITH
    context <- [t \in Task |-> IF t \in live THEN UserFile(t) ELSE <<>>]

ImplementsUserContext == User!Spec
=============================================================================
