--------------------------- MODULE ContextProofs ---------------------------
(* Proofs about Context, for any number of tasks. *)
EXTENDS Context, SequenceTheorems, TLAPS

Registers == Names \ {"fpu"}

IsSeq(s) == Len(s) \in Nat /\ s = [i \in 1..Len(s) |-> s[i]]

(***************************************************************************)
(* What lies on a stack.  A program in a trap has a registers_t at the     *)
(* bottom, below the first k values, or the context of a system call.      *)
(***************************************************************************)
\* No value of a program is taken for a place in the kernel's code.
UserFrame(s, k) ==
    /\ Len(s) = k + 22
    /\ s[k + registers_slot["cs"]] = USER_CS /\ s[k + registers_slot["ss"]] = USER_SS
    /\ s[k + registers_slot["r10"]] # Code("syscall_handler")

UserCall(s) == Len(s) = 17 /\ s[1 + syscall_slot["arg4"]] # Code("syscall_handler")

\* The C function name runs at the top of the stack s of t, and is not an
\* interrupt's.
Entered(name, t, s) ==
    /\ s # <<>> /\ s[1] = Code(name)
    /\ \/ name \in {"kinit", "kernel_idle_loop"} /\ t = Kernel /\ Len(s) = 1
       \/ name = "syscall_handler" /\ t \in Task /\ UserCall(s)
       \/ name \in {"exception_handler", "int128_handler"} /\ t \in Task /\ UserFrame(s, 1)

\* irq_handler has interrupted the C function inner.
Interrupted(inner, t, s) ==
    /\ Len(s) > 23
    /\ Entered(inner, t, Drop(s, 23))
    /\ \A r \in Registers :
        s[1 + registers_slot[r]] = InCode(inner, t, Len(s) - 23, Const("0"))[r]

OnStack(name, t, s) ==
    \/ Entered(name, t, s)
    \/ /\ name = "irq_handler" /\ s # <<>> /\ s[1] = Code(name)
       /\ \/ t \in Task /\ UserFrame(s, 1)
          \/ \E inner \in Interruptible : Interrupted(inner, t, s)

\* What sched has left.
Fresh(t, s) == t \in Task /\ UserFrame(s, 7) /\ s[7] = Code("ret_from_fork")

SwitchedOut(t, s) ==
    /\ Len(s) > 7 /\ s[7] = Code("sched")
    /\ \E name \in {"irq_handler", "syscall_handler", "kinit"} :
        /\ OnStack(name, t, Drop(s, 7))
        /\ \A r \in DOMAIN SwitchSlot : s[SwitchSlot[r]] = <<name, t, r>>

Types ==
    /\ live \subseteq Task
    /\ current \in live \cup {Kernel}
    /\ at \in Handlers \cup {"user", "ret_from_fork", "kinit", "kernel_idle_loop"}
    /\ DOMAIN cpu = Names /\ cpu = [r \in Names |-> cpu[r]]
    /\ DOMAIN stack = Owners /\ stack = [t \in Owners |-> stack[t]]
    /\ \A t \in Owners : IsSeq(stack[t])
    /\ DOMAIN fpu_raw = Owners /\ fpu_raw = [t \in Owners |-> fpu_raw[t]]
    /\ rsp0 = current /\ syscall_kernel_rsp = current

Here ==
    /\ at = "user" =>
        /\ current \in live /\ stack[current] = <<>>
        /\ cpu["cs"] = USER_CS /\ cpu["ss"] = USER_SS
        /\ cpu["r10"] # Code("syscall_handler")
    /\ at = "ret_from_fork" => current \in live /\ UserFrame(stack[current], 0)
    /\ at \notin {"user", "ret_from_fork"} => OnStack(at, current, stack[current])

Elsewhere ==
    \A t \in (live \cup {Kernel}) \ {current} : Fresh(t, stack[t]) \/ SwitchedOut(t, stack[t])

CInv ==
    /\ Types /\ Here /\ Elsewhere
    /\ KernelStateKept
    /\ in_service => at = "irq_handler"

-----------------------------------------------------------------------------
(***************************************************************************)
(* Sequences.                                                              *)
(***************************************************************************)
\* c is a followed by b.
Joins(a, b, c) ==
    /\ IsSeq(c) /\ Len(c) = Len(a) + Len(b)
    /\ \A i \in 1..Len(a) : c[i] = a[i]
    /\ \A i \in 1..Len(b) : c[Len(a) + i] = b[i]

\* d is s without the n values on top.
Under(s, n, d) ==
    /\ IsSeq(d) /\ Len(d) = Len(s) - n
    /\ \A i \in 1..(Len(s) - n) : d[i] = s[n + i]

\* p is s with the registers names pushed in this order.
Holds(names, file, s, p) ==
    /\ IsSeq(p) /\ Len(p) = Len(names) + Len(s)
    /\ \A i \in 1..Len(names) : p[i] = file[names[Len(names) + 1 - i]]
    /\ \A i \in 1..Len(s) : p[Len(names) + i] = s[i]
    /\ Drop(p, Len(names)) = s

LEMMA SeqIsSeq ==
    ASSUME NEW S, NEW s \in Seq(S)
    PROVE  IsSeq(s)
BY LenProperties DEF IsSeq

LEMMA SeqTyped ==
    ASSUME NEW s, IsSeq(s), NEW S, \A i \in 1..Len(s) : s[i] \in S
    PROVE  s \in Seq(S)
BY DEF IsSeq

LEMMA DropFacts ==
    ASSUME NEW s, IsSeq(s), NEW n \in Nat, n <= Len(s)
    PROVE  Under(s, n, Drop(s, n))
<1> DEFINE S == {s[i] : i \in 1..Len(s)}
           d == SubSeq(s, n + 1, Len(s))
<1>1. Len(s) \in Nat
    BY DEF IsSeq
<1>2. \A i \in (n + 1)..Len(s) : s[i] \in S
    BY <1>1
<1> HIDE DEF S
<1>3. /\ d \in Seq(S)
      /\ Len(d) = IF n + 1 <= Len(s) THEN Len(s) - (n + 1) + 1 ELSE 0
      /\ \A i \in 1..(Len(s) - (n + 1) + 1) : d[i] = s[n + 1 + i - 1]
    BY <1>1, <1>2, SubSeqProperties
<1> HIDE DEF d
<1>4. IsSeq(d)
    BY <1>3, SeqIsSeq
<1>5. Len(d) = Len(s) - n
    BY <1>1, <1>3
<1>6. ASSUME NEW i \in 1..(Len(s) - n)
      PROVE  d[i] = s[n + i]
  <2>1. i \in 1..(Len(s) - (n + 1) + 1) /\ n + 1 + i - 1 = n + i
    BY <1>1
  <2> QED
    BY <1>3, <2>1
<1>7. Drop(s, n) = d
    BY DEF Drop, d
<1> QED
    BY <1>4, <1>5, <1>6, <1>7 DEF Under

LEMMA ConcatFacts ==
    ASSUME NEW a, IsSeq(a), NEW b, IsSeq(b)
    PROVE  Joins(a, b, a \o b)
<1> DEFINE S == {a[i] : i \in 1..Len(a)} \cup {b[i] : i \in 1..Len(b)}
<1>1. (\A i \in 1..Len(a) : a[i] \in S) /\ (\A i \in 1..Len(b) : b[i] \in S)
    OBVIOUS
<1> HIDE DEF S
<1>2. a \in Seq(S) /\ b \in Seq(S) /\ Len(a) \in Nat /\ Len(b) \in Nat
    BY <1>1, SeqTyped DEF IsSeq
<1>3. /\ a \o b \in Seq(S)
      /\ Len(a \o b) = Len(a) + Len(b)
      /\ \A i \in 1..(Len(a) + Len(b)) :
            (a \o b)[i] = IF i <= Len(a) THEN a[i] ELSE b[i - Len(a)]
    BY <1>2, ConcatProperties
<1>4. IsSeq(a \o b)
    BY <1>3, SeqIsSeq
<1>5. ASSUME NEW i \in 1..Len(a)
      PROVE  (a \o b)[i] = a[i]
    BY <1>2, <1>3
<1>6. ASSUME NEW i \in 1..Len(b)
      PROVE  (a \o b)[Len(a) + i] = b[i]
  <2>1. Len(a) + i \in 1..(Len(a) + Len(b)) /\ ~(Len(a) + i <= Len(a)) /\ Len(a) + i - Len(a) = i
    BY <1>2
  <2> QED
    BY <1>3, <2>1
<1> QED
    BY <1>3, <1>4, <1>5, <1>6 DEF Joins

LEMMA SameSeq ==
    ASSUME NEW a, IsSeq(a), NEW b, IsSeq(b), Len(a) = Len(b),
           \A i \in 1..Len(a) : a[i] = b[i]
    PROVE  a = b
BY DEF IsSeq

LEMMA DropConcat ==
    ASSUME NEW a, IsSeq(a), NEW b, IsSeq(b)
    PROVE  Drop(a \o b, Len(a)) = b
<1>1. /\ IsSeq(a \o b) /\ Len(a \o b) = Len(a) + Len(b)
      /\ \A i \in 1..Len(b) : (a \o b)[Len(a) + i] = b[i]
    BY ConcatFacts DEF Joins
<1>2. Len(a) \in Nat /\ Len(b) \in Nat
    BY DEF IsSeq
<1>3. Len(a) <= Len(a \o b) /\ Len(a \o b) - Len(a) = Len(b)
    BY <1>1, <1>2
<1>4. /\ IsSeq(Drop(a \o b, Len(a))) /\ Len(Drop(a \o b, Len(a))) = Len(b)
      /\ \A i \in 1..Len(b) : Drop(a \o b, Len(a))[i] = (a \o b)[Len(a) + i]
    BY <1>1, <1>2, <1>3, DropFacts DEF Under
<1> QED
    BY <1>1, <1>4, SameSeq

\* A list of names, pushed in order on s.
LEMMA PushedFacts ==
    ASSUME NEW names, IsSeq(names), NEW file, NEW s, IsSeq(s)
    PROVE  Holds(names, file, s, Pushed(names, file, s))
<1> DEFINE n == Len(names)
           values == [i \in DOMAIN names |-> file[names[i]]]
           top == Reverse(values)
<1>1. n \in Nat /\ DOMAIN names = 1..n
    BY DEF IsSeq
<1>2. Len(values) = n
  <2> DEFINE T == {values[i] : i \in 1..n}
  <2>1. values \in [1..n -> T]
    BY <1>1
  <2> HIDE DEF T, values
  <2>2. values \in Seq(T)
    BY <1>1, <2>1
  <2> QED
    BY <1>1, <2>1, <2>2
<1>3. top = [i \in 1..n |-> values[(n - i) + 1]]
    BY <1>2 DEF Reverse
<1>4. \A i \in 1..n : top[i] = file[names[n + 1 - i]]
    BY <1>1, <1>3
<1>5. IsSeq(top) /\ Len(top) = n
  <2> DEFINE T == {values[i] : i \in 1..n}
  <2>1. \A i \in 1..n : values[(n - i) + 1] \in T
    BY <1>1
  <2> HIDE DEF T, values
  <2>2. top \in [1..n -> T]
    BY <1>1, <1>3, <2>1
  <2> HIDE DEF top
  <2>3. top \in Seq(T)
    BY <1>1, <2>2
  <2>4. Len(top) = n
    BY <1>1, <2>2, <2>3
  <2> QED
    BY <2>3, <2>4, SeqIsSeq
<1>6. Pushed(names, file, s) = top \o s
    BY DEF Pushed
<1> HIDE DEF top, values, n
<1>7. /\ IsSeq(top \o s) /\ Len(top \o s) = n + Len(s)
      /\ \A i \in 1..n : (top \o s)[i] = top[i]
      /\ \A i \in 1..Len(s) : (top \o s)[n + i] = s[i]
  <2>1. Joins(top, s, top \o s)
    BY <1>5, ConcatFacts
  <2> QED
    BY <1>5, <2>1 DEF Joins
<1>8. Drop(top \o s, Len(top)) = s
    BY <1>5, DropConcat
<1> QED
    BY <1>4, <1>5, <1>6, <1>7, <1>8 DEF n, Holds

-----------------------------------------------------------------------------
(***************************************************************************)
(* The lists of names.                                                     *)
(***************************************************************************)
\* What an entry of a list of different names is found at.
LEMMA SlotAt ==
    ASSUME NEW list, NEW i \in DOMAIN list,
           \A j \in DOMAIN list : list[j] = list[i] => j = i
    PROVE  list[i] \in DOMAIN Slots(list) /\ Slots(list)[list[i]] = i
BY DEF Slots, ToSet

LEMMA RegistersTable ==
    /\ DOMAIN registers_slot = {"r15", "r14", "r13", "r12", "r11", "r10", "r9", "r8",
                "rbp", "rdi", "rsi", "rdx", "rcx", "rbx", "rax", "int_no",
                "error_code", "rip", "cs", "rflags", "rsp", "ss"}
    /\ registers_slot["r15"] = 1 /\ registers_slot["r14"] = 2 /\ registers_slot["r13"] = 3
    /\ registers_slot["r12"] = 4 /\ registers_slot["r11"] = 5 /\ registers_slot["r10"] = 6
    /\ registers_slot["r9"] = 7 /\ registers_slot["r8"] = 8 /\ registers_slot["rbp"] = 9
    /\ registers_slot["rdi"] = 10 /\ registers_slot["rsi"] = 11 /\ registers_slot["rdx"] = 12
    /\ registers_slot["rcx"] = 13 /\ registers_slot["rbx"] = 14 /\ registers_slot["rax"] = 15
    /\ registers_slot["int_no"] = 16 /\ registers_slot["error_code"] = 17 /\ registers_slot["rip"] = 18
    /\ registers_slot["cs"] = 19 /\ registers_slot["rflags"] = 20 /\ registers_slot["rsp"] = 21
    /\ registers_slot["ss"] = 22
<1>1. /\ DOMAIN registers_t = 1..22
      /\ \A i, j \in 1..22 : registers_t[i] = registers_t[j] => i = j
    BY DEF registers_t
<1>2. \A i \in 1..22 : registers_slot[registers_t[i]] = i
    BY <1>1, SlotAt DEF registers_slot
<1> QED
    BY <1>1, <1>2 DEF registers_slot, Slots, ToSet, registers_t

LEMMA SyscallTable ==
    /\ DOMAIN syscall_slot = {"sys_num", "arg1", "arg2", "arg3", "arg4", "arg5", "arg6", "rip",
                "rflags", "rbx", "rbp", "r12", "r13", "r14", "r15", "user_rsp"}
    /\ syscall_slot["sys_num"] = 1 /\ syscall_slot["arg1"] = 2 /\ syscall_slot["arg2"] = 3
    /\ syscall_slot["arg3"] = 4 /\ syscall_slot["arg4"] = 5 /\ syscall_slot["arg5"] = 6
    /\ syscall_slot["arg6"] = 7 /\ syscall_slot["rip"] = 8 /\ syscall_slot["rflags"] = 9
    /\ syscall_slot["rbx"] = 10 /\ syscall_slot["rbp"] = 11 /\ syscall_slot["r12"] = 12
    /\ syscall_slot["r13"] = 13 /\ syscall_slot["r14"] = 14 /\ syscall_slot["r15"] = 15
    /\ syscall_slot["user_rsp"] = 16
<1>1. /\ DOMAIN syscall_ctx_t = 1..16
      /\ \A i, j \in 1..16 : syscall_ctx_t[i] = syscall_ctx_t[j] => i = j
    BY DEF syscall_ctx_t
<1>2. \A i \in 1..16 : syscall_slot[syscall_ctx_t[i]] = i
    BY <1>1, SlotAt DEF syscall_slot
<1> QED
    BY <1>1, <1>2 DEF syscall_slot, Slots, ToSet, syscall_ctx_t

LEMMA StubTable ==
    /\ DOMAIN StubSlot = {"r15", "r14", "r13", "r12", "r11", "r10", "r9", "r8",
                "rbp", "rdi", "rsi", "rdx", "rcx", "rbx", "rax"}
    /\ StubSlot["r15"] = 1 /\ StubSlot["r14"] = 2 /\ StubSlot["r13"] = 3
    /\ StubSlot["r12"] = 4 /\ StubSlot["r11"] = 5 /\ StubSlot["r10"] = 6
    /\ StubSlot["r9"] = 7 /\ StubSlot["r8"] = 8 /\ StubSlot["rbp"] = 9
    /\ StubSlot["rdi"] = 10 /\ StubSlot["rsi"] = 11 /\ StubSlot["rdx"] = 12
    /\ StubSlot["rcx"] = 13 /\ StubSlot["rbx"] = 14 /\ StubSlot["rax"] = 15
<1>1. /\ DOMAIN StubPops = 1..15
      /\ \A i, j \in 1..15 : StubPops[i] = StubPops[j] => i = j
    BY DEF StubPops
<1>2. \A i \in 1..15 : StubSlot[StubPops[i]] = i
    BY <1>1, SlotAt DEF StubSlot
<1> QED
    BY <1>1, <1>2 DEF StubSlot, Slots, ToSet, StubPops

LEMMA PopsTable ==
    /\ DOMAIN SyscallSlot = {"rdi", "rsi", "rdx", "r10", "r8", "r9", "rcx", "r11",
                "rbx", "rbp", "r12", "r13", "r14", "r15", "rsp"}
    /\ SyscallSlot["rdi"] = 1 /\ SyscallSlot["rsi"] = 2 /\ SyscallSlot["rdx"] = 3
    /\ SyscallSlot["r10"] = 4 /\ SyscallSlot["r8"] = 5 /\ SyscallSlot["r9"] = 6
    /\ SyscallSlot["rcx"] = 7 /\ SyscallSlot["r11"] = 8 /\ SyscallSlot["rbx"] = 9
    /\ SyscallSlot["rbp"] = 10 /\ SyscallSlot["r12"] = 11 /\ SyscallSlot["r13"] = 12
    /\ SyscallSlot["r14"] = 13 /\ SyscallSlot["r15"] = 14 /\ SyscallSlot["rsp"] = 15
<1>1. /\ DOMAIN SyscallPops = 1..15
      /\ \A i, j \in 1..15 : SyscallPops[i] = SyscallPops[j] => i = j
    BY DEF SyscallPops
<1>2. \A i \in 1..15 : SyscallSlot[SyscallPops[i]] = i
    BY <1>1, SlotAt DEF SyscallSlot
<1> QED
    BY <1>1, <1>2 DEF SyscallSlot, Slots, ToSet, SyscallPops

LEMMA SwitchTable ==
    /\ DOMAIN SwitchSlot = {"r15", "r14", "r13", "r12", "rbx", "rbp"}
    /\ SwitchSlot["r15"] = 1 /\ SwitchSlot["r14"] = 2 /\ SwitchSlot["r13"] = 3
    /\ SwitchSlot["r12"] = 4 /\ SwitchSlot["rbx"] = 5 /\ SwitchSlot["rbp"] = 6
<1>1. /\ DOMAIN SwitchPops = 1..6
      /\ \A i, j \in 1..6 : SwitchPops[i] = SwitchPops[j] => i = j
    BY DEF SwitchPops
<1>2. \A i \in 1..6 : SwitchSlot[SwitchPops[i]] = i
    BY <1>1, SlotAt DEF SwitchSlot
<1> QED
    BY <1>1, <1>2 DEF SwitchSlot, Slots, ToSet, SwitchPops

LEMMA SavedTable ==
    /\ DOMAIN SavedSlot = {"rax", "rdi", "rsi", "rdx", "r10", "r8", "r9", "rcx", "r11", "rbx",
                           "rbp", "r12", "r13", "r14", "r15", "rsp"}
    /\ SavedSlot["rax"] = 1
    /\ \A r \in DOMAIN SyscallSlot : SavedSlot[r] = 1 + SyscallSlot[r]
<1> DEFINE list == Reverse(SyscallPushes)
<1>1. /\ DOMAIN list = 1..16 /\ list[1] = "rax" /\ list[2] = "rdi" /\ list[3] = "rsi"
      /\ list[4] = "rdx" /\ list[5] = "r10" /\ list[6] = "r8" /\ list[7] = "r9"
      /\ list[8] = "rcx" /\ list[9] = "r11" /\ list[10] = "rbx" /\ list[11] = "rbp"
      /\ list[12] = "r12" /\ list[13] = "r13" /\ list[14] = "r14" /\ list[15] = "r15"
      /\ list[16] = "rsp"
    BY DEF Reverse, SyscallPushes
<1> HIDE DEF list
<1>2. \A i, j \in 1..16 : list[i] = list[j] => i = j
    BY <1>1
<1>3. SavedSlot = Slots(list)
    BY DEF SavedSlot, list
<1>4. \A i \in 1..16 : SavedSlot[list[i]] = i
    BY <1>1, <1>2, <1>3, SlotAt
<1>5. DOMAIN SavedSlot = {list[i] : i \in 1..16}
    BY <1>1, <1>3 DEF Slots, ToSet
<1>6. DOMAIN SavedSlot = {"rax", "rdi", "rsi", "rdx", "r10", "r8", "r9", "rcx", "r11", "rbx",
                           "rbp", "r12", "r13", "r14", "r15", "rsp"}
    BY <1>1, <1>5
<1>7. \A r \in DOMAIN SyscallSlot : SavedSlot[r] = 1 + SyscallSlot[r]
    BY <1>1, <1>4, PopsTable
<1> QED
    BY <1>1, <1>4, <1>6, <1>7

LEMMA ListLengths ==
    /\ IsSeq(StubPushes) /\ Len(StubPushes) = 15
    /\ IsSeq(HardwarePushes) /\ Len(HardwarePushes) = 5
    /\ IsSeq(SyscallPushes) /\ Len(SyscallPushes) = 16
    /\ IsSeq(SwitchPushes) /\ Len(SwitchPushes) = 6
<1>1. /\ IsSeq(StubPushes) /\ IsSeq(HardwarePushes) /\ IsSeq(SyscallPushes) /\ IsSeq(SwitchPushes)
  <2>1. StubPushes \in Seq(Names)
    BY DEF StubPushes, Names, General
  <2>2. HardwarePushes \in Seq(Names)
    BY DEF HardwarePushes, Names, General
  <2>3. SyscallPushes \in Seq(Names)
    BY DEF SyscallPushes, Names, General
  <2>4. SwitchPushes \in Seq(Names)
    BY DEF SwitchPushes, Names, General
  <2> QED
    BY <2>1, <2>2, <2>3, <2>4, SeqIsSeq
<1>2. /\ Len(StubPushes) = 15 /\ Len(HardwarePushes) = 5
      /\ Len(SyscallPushes) = 16 /\ Len(SwitchPushes) = 6
    BY DEF StubPushes, HardwarePushes, SyscallPushes, SwitchPushes
<1> QED
    BY <1>1, <1>2

-----------------------------------------------------------------------------
(***************************************************************************)
(* What the pushes of the stubs build, and what the pops take off.         *)
(***************************************************************************)
\* A stub leaves a registers_t of the registers it found.
LEMMA FrameFacts ==
    ASSUME NEW s, IsSeq(s)
    PROVE  /\ IsSeq(Frame(s)) /\ Len(Frame(s)) = 22 + Len(s)
           /\ \A r \in Registers : Frame(s)[registers_slot[r]] = cpu[r]
           /\ \A i \in 1..Len(s) : Frame(s)[22 + i] = s[i]
           /\ Drop(Frame(s), 22) = s
<1> DEFINE hard == Pushed(HardwarePushes, cpu, s)
           two == <<Const("error_code"), Const("int_no")>>
           mid == two \o hard
<1>1. /\ IsSeq(hard) /\ Len(hard) = 5 + Len(s)
      /\ \A i \in 1..5 : hard[i] = cpu[HardwarePushes[6 - i]]
      /\ \A i \in 1..Len(s) : hard[5 + i] = s[i]
  <2> HIDE DEF hard
  <2>1. Holds(HardwarePushes, cpu, s, hard)
    BY ListLengths, PushedFacts DEF hard
  <2> QED
    BY <2>1, ListLengths DEF Holds
<1>2. /\ hard[1] = cpu["rip"] /\ hard[2] = cpu["cs"] /\ hard[3] = cpu["rflags"]
      /\ hard[4] = cpu["rsp"] /\ hard[5] = cpu["ss"]
  <2> HIDE DEF hard
  <2> QED
    BY <1>1 DEF HardwarePushes
<1> HIDE DEF hard
<1>3. IsSeq(two) /\ Len(two) = 2
  <2>1. two \in Seq({Const("error_code"), Const("int_no")})
    OBVIOUS
  <2> QED
    BY <2>1, SeqIsSeq
<1> HIDE DEF two
<1>4. /\ IsSeq(mid) /\ Len(mid) = 7 + Len(s)
      /\ \A i \in 1..Len(hard) : mid[2 + i] = hard[i]
  <2>1. Joins(two, hard, mid)
    BY <1>1, <1>3, ConcatFacts
  <2> HIDE DEF mid
  <2>2. Len(s) \in Nat
    BY DEF IsSeq
  <2> QED
    BY <1>1, <1>3, <2>1, <2>2 DEF Joins
<1> HIDE DEF mid
<1>5. Frame(s) = Pushed(StubPushes, cpu, mid)
    BY DEF Frame, mid, two, hard
<1>6. /\ IsSeq(Frame(s)) /\ Len(Frame(s)) = 15 + Len(mid)
      /\ \A i \in 1..15 : Frame(s)[i] = cpu[StubPushes[16 - i]]
      /\ \A i \in 1..Len(mid) : Frame(s)[15 + i] = mid[i]
  <2> DEFINE all == Pushed(StubPushes, cpu, mid)
  <2> HIDE DEF all
  <2>1. Holds(StubPushes, cpu, mid, all)
    BY <1>4, ListLengths, PushedFacts DEF all
  <2>2. all = Frame(s)
    BY <1>5 DEF all
  <2> QED
    BY <2>1, <2>2, ListLengths DEF Holds
<1>7. Len(s) \in Nat
    BY DEF IsSeq
<1>8. Len(Frame(s)) = 22 + Len(s)
    BY <1>4, <1>6, <1>7
<1>9. \A i \in 1..(5 + Len(s)) : Frame(s)[17 + i] = hard[i]
  <2> TAKE i \in 1..(5 + Len(s))
  <2>1. i \in 1..Len(hard) /\ 2 + i \in 1..Len(mid) /\ 15 + (2 + i) = 17 + i
    BY <1>1, <1>4, <1>7
  <2> QED
    BY <1>4, <1>6, <2>1
<1>10. \A i \in 1..Len(s) : Frame(s)[22 + i] = s[i]
  <2> TAKE i \in 1..Len(s)
  <2>1. 5 + i \in 1..(5 + Len(s)) /\ 17 + (5 + i) = 22 + i
    BY <1>7
  <2> QED
    BY <1>1, <1>9, <2>1
<1>11. /\ Frame(s)[18] = cpu["rip"] /\ Frame(s)[19] = cpu["cs"] /\ Frame(s)[20] = cpu["rflags"]
       /\ Frame(s)[21] = cpu["rsp"] /\ Frame(s)[22] = cpu["ss"]
  <2>1. \A i \in 1..5 : Frame(s)[17 + i] = hard[i]
    BY <1>7, <1>9
  <2> QED
    BY <1>2, <2>1
<1>12. /\ Frame(s)[1] = cpu["r15"] /\ Frame(s)[2] = cpu["r14"] /\ Frame(s)[3] = cpu["r13"]
       /\ Frame(s)[4] = cpu["r12"] /\ Frame(s)[5] = cpu["r11"] /\ Frame(s)[6] = cpu["r10"]
       /\ Frame(s)[7] = cpu["r9"] /\ Frame(s)[8] = cpu["r8"] /\ Frame(s)[9] = cpu["rbp"]
       /\ Frame(s)[10] = cpu["rdi"] /\ Frame(s)[11] = cpu["rsi"] /\ Frame(s)[12] = cpu["rdx"]
       /\ Frame(s)[13] = cpu["rcx"] /\ Frame(s)[14] = cpu["rbx"] /\ Frame(s)[15] = cpu["rax"]
    BY <1>6 DEF StubPushes
<1>13. \A r \in Registers : Frame(s)[registers_slot[r]] = cpu[r]
    BY <1>11, <1>12, RegistersTable DEF Registers, Names, General
<1>14. Drop(Frame(s), 22) = s
  <2>1. Under(Frame(s), 22, Drop(Frame(s), 22))
    BY <1>6, <1>7, <1>8, DropFacts
  <2> QED
    BY <1>7, <1>8, <1>10, <2>1, SameSeq DEF Under
<1> QED
    BY <1>6, <1>8, <1>10, <1>13, <1>14

LEMMA DropTwice ==
    ASSUME NEW s, IsSeq(s), NEW m \in Nat, NEW n \in Nat, m + n <= Len(s)
    PROVE  Drop(Drop(s, m), n) = Drop(s, m + n)
<1>1. Len(s) \in Nat
    BY DEF IsSeq
<1>2. Under(s, m, Drop(s, m))
    BY <1>1, DropFacts
<1>3. Under(s, m + n, Drop(s, m + n))
    BY <1>1, DropFacts
<1>4. IsSeq(Drop(s, m)) /\ n <= Len(Drop(s, m))
    BY <1>1, <1>2 DEF Under
<1>5. Under(Drop(s, m), n, Drop(Drop(s, m), n))
    BY <1>4, DropFacts
<1> DEFINE a == Drop(Drop(s, m), n)
           b == Drop(s, m + n)
           d == Drop(s, m)
<1>6. Under(s, m, d) /\ Under(s, m + n, b) /\ Under(d, n, a)
    BY <1>2, <1>3, <1>5
<1> HIDE DEF a, b, d
<1>7. Len(a) = Len(s) - m - n /\ Len(b) = Len(s) - (m + n) /\ IsSeq(a) /\ IsSeq(b)
    BY <1>6 DEF Under
<1>8. ASSUME NEW i \in 1..Len(a)
      PROVE  a[i] = b[i]
  <2>1. i \in 1..(Len(d) - n) /\ n + i \in 1..(Len(s) - m) /\ m + (n + i) = (m + n) + i
        /\ i \in 1..(Len(s) - (m + n))
    BY <1>1, <1>6, <1>7 DEF Under
  <2>2. a[i] = d[n + i] /\ d[n + i] = s[m + (n + i)] /\ b[i] = s[(m + n) + i]
    BY <1>6, <2>1 DEF Under
  <2> QED
    BY <2>1, <2>2
<1>9. a = b
    BY <1>1, <1>7, <1>8, SameSeq
<1> QED
    BY <1>9 DEF a, b, d

\* What iretq and the pops in front of it take from a registers_t.
LEMMA IretqFacts ==
    ASSUME NEW s, IsSeq(s), Len(s) >= 22, Iretq(s)
    PROVE  /\ cpu' = [r \in Names |-> IF r = "fpu" THEN cpu["fpu"] ELSE s[registers_slot[r]]]
           /\ at' = IF s[registers_slot["cs"]] = USER_CS THEN "user"
                    ELSE s[registers_slot["rip"]][3]
           /\ stack' = [stack EXCEPT ![current] = Drop(s, 22)]
<1> DEFINE popped == Popped(StubSlot, s, cpu)
           frame == Drop(s, 17)
<1>1. Len(s) \in Nat
    BY DEF IsSeq
<1>2. Under(s, 17, frame)
    BY <1>1, DropFacts
<1>3. /\ frame[1] = s[18] /\ frame[2] = s[19] /\ frame[3] = s[20]
      /\ frame[4] = s[21] /\ frame[5] = s[22]
  <2> HIDE DEF frame
  <2>1. \A i \in 1..5 : frame[i] = s[17 + i]
    BY <1>1, <1>2 DEF Under
  <2> QED
    BY <2>1
<1>4. Drop(frame, 5) = Drop(s, 22)
    BY <1>1, DropTwice
<1>5. /\ cpu' = [popped EXCEPT !["rip"] = frame[1], !["cs"] = frame[2],
                               !["rflags"] = frame[3], !["rsp"] = frame[4], !["ss"] = frame[5]]
      /\ at' = IF frame[2] = USER_CS THEN "user" ELSE frame[1][3]
      /\ stack' = [stack EXCEPT ![current] = Drop(frame, 5)]
    BY DEF Iretq
<1> HIDE DEF frame
<1>6. popped = [r \in Names |-> IF r \in DOMAIN StubSlot THEN s[StubSlot[r]] ELSE cpu[r]]
    BY DEF Popped
<1> HIDE DEF popped
<1>7. ASSUME NEW r \in Names
      PROVE  cpu'[r] = IF r = "fpu" THEN cpu["fpu"] ELSE s[registers_slot[r]]
  <2>1. r \in DOMAIN StubSlot => cpu'[r] = s[StubSlot[r]]
    BY <1>5, <1>6, StubTable
  <2>2. r \in DOMAIN StubSlot => StubSlot[r] = registers_slot[r] /\ r # "fpu"
    BY StubTable, RegistersTable
  <2>3. {"rip", "cs", "rflags", "rsp", "ss", "fpu"} \subseteq Names
    BY DEF Names
  <2>4. /\ cpu'["rip"] = s[18] /\ cpu'["cs"] = s[19] /\ cpu'["rflags"] = s[20]
        /\ cpu'["rsp"] = s[21] /\ cpu'["ss"] = s[22]
    BY <1>3, <1>5, <1>6, <2>3
  <2>5. cpu'["fpu"] = cpu["fpu"]
    BY <1>5, <1>6, <2>3, StubTable
  <2>6. r \in DOMAIN StubSlot \cup {"rip", "cs", "rflags", "rsp", "ss", "fpu"}
    BY StubTable DEF Names, General
  <2> QED
    BY <2>1, <2>2, <2>4, <2>5, <2>6, RegistersTable
<1>8. cpu' = [r \in Names |-> cpu'[r]]
    BY <1>5, <1>6
<1> QED
    BY <1>3, <1>4, <1>5, <1>7, <1>8, RegistersTable

\* A call on top of what a stub has left.
CalledOn(name, t, s, below) ==
    /\ Joins(<<Code(name)>>, s, below) /\ below[1] = Code(name)
    /\ Len(below) = 1 + Len(s) /\ Drop(below, 1) = s
    /\ stack' = [stack EXCEPT ![t] = below]
    /\ cpu' = InCode(name, t, Len(below), cpu["fpu"])
    /\ at' = name

LEMMA CalledFacts ==
    ASSUME NEW name, NEW t, NEW s, IsSeq(s), Called(name, t, s)
    PROVE  \E below : CalledOn(name, t, s, below)
<1> DEFINE one == <<Code(name)>>
           below == one \o s
<1>1. IsSeq(one) /\ Len(one) = 1 /\ one[1] = Code(name)
  <2>1. one \in Seq({Code(name)})
    OBVIOUS
  <2> QED
    BY <2>1, SeqIsSeq
<1>2. stack' = [stack EXCEPT ![t] = below] /\ cpu' = InCode(name, t, Len(below), cpu["fpu"])
      /\ at' = name
    BY DEF Called
<1> HIDE DEF one
<1>3. Joins(one, s, below) /\ Drop(below, Len(one)) = s
    BY <1>1, ConcatFacts, DropConcat
<1> HIDE DEF below
<1>4. below[1] = Code(name) /\ Len(below) = 1 + Len(s) /\ Drop(below, 1) = s
    BY <1>1, <1>3 DEF Joins
<1>5. CalledOn(name, t, s, below)
    BY <1>2, <1>3, <1>4 DEF one, CalledOn
<1> QED
    BY <1>5

\* What syscall_entry leaves.
LEMMA SyscallFacts ==
    ASSUME NEW file, NEW p, p = Pushed(SyscallPushes, file, <<>>)
    PROVE  /\ IsSeq(p) /\ Len(p) = 16
           /\ \A r \in DOMAIN SavedSlot : p[SavedSlot[r]] = file[r]
<1>1. IsSeq(<<>>) /\ Len(<<>>) = 0
  <2>1. <<>> \in Seq({})
    OBVIOUS
  <2> QED
    BY <2>1, SeqIsSeq
<1>2. Holds(SyscallPushes, file, <<>>, p)
    BY <1>1, ListLengths, PushedFacts
<1>3. IsSeq(p) /\ Len(p) = 16 /\ \A i \in 1..16 : p[i] = file[SyscallPushes[17 - i]]
    BY <1>1, <1>2, ListLengths DEF Holds
<1>4. /\ p[1] = file["rax"] /\ p[2] = file["rdi"] /\ p[3] = file["rsi"] /\ p[4] = file["rdx"]
      /\ p[5] = file["r10"] /\ p[6] = file["r8"] /\ p[7] = file["r9"] /\ p[8] = file["rcx"]
      /\ p[9] = file["r11"] /\ p[10] = file["rbx"] /\ p[11] = file["rbp"] /\ p[12] = file["r12"]
      /\ p[13] = file["r13"] /\ p[14] = file["r14"] /\ p[15] = file["r15"] /\ p[16] = file["rsp"]
    BY <1>3 DEF SyscallPushes
<1> QED
    BY <1>3, <1>4, SavedTable, PopsTable

\* What sched leaves on a stack s, and what it takes off again.
LEMMA SwitchFacts ==
    ASSUME NEW s, IsSeq(s), NEW file, NEW p,
           p = Pushed(SwitchPushes, file, <<Code("sched")>> \o s)
    PROVE  /\ IsSeq(p) /\ Len(p) = 7 + Len(s) /\ p[7] = Code("sched") /\ Drop(p, 7) = s
           /\ \A r \in DOMAIN SwitchSlot : p[SwitchSlot[r]] = file[r]
<1> DEFINE one == <<Code("sched")>>
           mid == one \o s
<1>1. IsSeq(one) /\ Len(one) = 1 /\ one[1] = Code("sched")
  <2>1. one \in Seq({Code("sched")})
    OBVIOUS
  <2> QED
    BY <2>1, SeqIsSeq
<1> HIDE DEF one
<1>2. Joins(one, s, mid) /\ Drop(mid, Len(one)) = s
    BY <1>1, ConcatFacts, DropConcat
<1> HIDE DEF mid
<1>3. IsSeq(mid) /\ Len(mid) = 1 + Len(s) /\ mid[1] = Code("sched") /\ Drop(mid, 1) = s
    BY <1>1, <1>2 DEF Joins
<1>4. p = Pushed(SwitchPushes, file, mid)
    BY DEF mid, one
<1>5. Holds(SwitchPushes, file, mid, p)
    BY <1>3, <1>4, ListLengths, PushedFacts
<1>6. Len(s) \in Nat
    BY DEF IsSeq
<1>7. /\ IsSeq(p) /\ Len(p) = 7 + Len(s) /\ p[7] = Code("sched") /\ Drop(p, 6) = mid
      /\ \A i \in 1..6 : p[i] = file[SwitchPushes[7 - i]]
    BY <1>3, <1>5, <1>6, ListLengths DEF Holds
<1>8. /\ p[1] = file["r15"] /\ p[2] = file["r14"] /\ p[3] = file["r13"]
      /\ p[4] = file["r12"] /\ p[5] = file["rbx"] /\ p[6] = file["rbp"]
    BY <1>7 DEF SwitchPushes
<1>9. Drop(p, 7) = s
  <2>1. Drop(Drop(p, 6), 1) = Drop(p, 6 + 1)
    BY <1>6, <1>7, DropTwice
  <2> QED
    BY <1>3, <1>7, <2>1
<1> QED
    BY <1>7, <1>8, <1>9, SwitchTable

-----------------------------------------------------------------------------
(***************************************************************************)
(* The inductive invariant.                                                *)
(***************************************************************************)
LEMMA InCodeFacts ==
    ASSUME NEW name, NEW t, NEW n, NEW f
    PROVE  /\ InCode(name, t, n, f) = [r \in Names |-> InCode(name, t, n, f)[r]]
           /\ InCode(name, t, n, f)["fpu"] = f
           /\ InCode(name, t, n, f)["cs"] = KERNEL_CS
           /\ InCode(name, t, n, f)["rip"] = Code(name)
           /\ \A g : \A r \in Registers : InCode(name, t, n, f)[r] = InCode(name, t, n, g)[r]
           /\ \A r \in DOMAIN SwitchSlot : InCode(name, t, n, f)[r] = <<name, t, r>>
<1> DEFINE value(x) == [r \in Names |->
                          CASE r = "rip" -> Code(name)
                            [] r = "rsp" -> <<"depth", Kernel, n>>
                            [] r = "fpu" -> x
                            [] OTHER -> <<name, t, r>>]
<1>1. \A x : InCode(name, t, n, x) =
            [r \in Names |-> IF r = "cs" THEN KERNEL_CS ELSE IF r = "ss" THEN KERNEL_SS
                             ELSE value(x)[r]]
    BY DEF InCode, File
<1>2. \A x : /\ value(x)["rip"] = Code(name) /\ value(x)["fpu"] = x
             /\ \A r \in Names \ {"rip", "rsp", "fpu"} : value(x)[r] = <<name, t, r>>
             /\ value(x)["rsp"] = <<"depth", Kernel, n>>
    BY DEF Names
<1> HIDE DEF value
<1>3. \A g : \A r \in Registers : InCode(name, t, n, f)[r] = InCode(name, t, n, g)[r]
  <2> TAKE g
  <2> TAKE r \in Registers
  <2>1. r \in Names /\ r # "fpu"
    BY DEF Registers
  <2>2. value(f)[r] = value(g)[r]
    BY <1>2, <2>1
  <2> QED
    BY <1>1, <2>1, <2>2
<1>4. \A r \in DOMAIN SwitchSlot : InCode(name, t, n, f)[r] = <<name, t, r>>
  <2> TAKE r \in DOMAIN SwitchSlot
  <2>1. r \in Names \ {"rip", "rsp", "fpu"} /\ r # "cs" /\ r # "ss"
    BY SwitchTable DEF Names, General
  <2> QED
    BY <1>1, <1>2, <2>1
<1>5. {"fpu", "cs", "rip"} \subseteq Names
    BY DEF Names
<1> QED
    BY <1>1, <1>2, <1>3, <1>4, <1>5

\* The values that tell where code goes on differ.
LEMMA CodeFacts ==
    /\ \A name : Code(name)[3] = name
    /\ Code("sched") # Code("ret_from_fork") /\ USER_CS # KERNEL_CS
    /\ \A t, r, x, y :
        /\ <<"user", t, r>> # Code(x) /\ Const(y) # Code(x)
BY DEF Code, Const, USER_CS, KERNEL_CS

LEMMA FrameSlots ==
    \A r \in Registers : registers_slot[r] \in 1..22
BY RegistersTable DEF Registers, Names, General

LEMMA EnteredOnTop ==
    ASSUME NEW name, NEW t, NEW s, OnStack(name, t, s)
    PROVE  s # <<>> /\ s[1] = Code(name)
BY DEF OnStack, Entered

\* The stacks of the tasks that do not run.
LEMMA ElsewhereStep ==
    ASSUME CInv, current' = current,
           \A t \in (live' \cup {Kernel}) \ {current} :
              Fresh(t, stack'[t]) \/ (t \in live \cup {Kernel} /\ stack'[t] = stack[t])
    PROVE  Elsewhere'
BY DEF CInv, Elsewhere

\* A function name is called on the stack of current.
LEMMA CalledStep ==
    ASSUME CInv, NEW name \in Handlers \cup {"kernel_idle_loop"},
           NEW s, IsSeq(s), Called(name, current, s),
           UNCHANGED <<live, current, fpu_raw, entries>>,
           in_service' => name = "irq_handler",
           \A below : Joins(<<Code(name)>>, s, below) /\ Drop(below, 1) = s
                      /\ below[1] = Code(name) /\ Len(below) = 1 + Len(s)
                         => OnStack(name, current, below)
    PROVE  CInv'
<1>0. PICK below : CalledOn(name, current, s, below)
    BY CalledFacts
<1>1. /\ Joins(<<Code(name)>>, s, below) /\ below[1] = Code(name)
      /\ Len(below) = 1 + Len(s) /\ Drop(below, 1) = s
      /\ stack' = [stack EXCEPT ![current] = below]
      /\ cpu' = InCode(name, current, Len(below), cpu["fpu"])
      /\ at' = name
    BY <1>0 DEF CalledOn
<1>2. Types /\ current \in Owners /\ IsSeq(below)
    BY <1>1 DEF CInv, Types, Owners, Joins
<1>3. /\ stack'[current] = below /\ \A t \in Owners : t # current => stack'[t] = stack[t]
      /\ stack' = [t \in Owners |-> stack'[t]]
    BY <1>1, <1>2 DEF Types
<1>4. cpu' = [r \in Names |-> cpu'[r]] /\ cpu'["fpu"] = cpu["fpu"] /\ DOMAIN cpu' = Names
    BY <1>1, InCodeFacts
<1>5. Types'
    BY <1>1, <1>2, <1>3, <1>4 DEF Types, entries
<1>6. name \notin {"user", "ret_from_fork"} /\ OnStack(name, current, below)
    BY <1>1 DEF Handlers
<1>7. Here'
    BY <1>1, <1>3, <1>6 DEF Here
<1>8. Elsewhere'
    BY <1>2, <1>3, ElsewhereStep DEF Types, Owners
<1>9. KernelStateKept'
    BY <1>1, <1>3, <1>4 DEF KernelStateKept
<1> QED
    BY <1>1, <1>5, <1>7, <1>8, <1>9 DEF CInv

\* iretq to a program, or to the kernel code an interrupt has met.
LEMMA IretqStep ==
    ASSUME CInv, NEW s, IsSeq(s), Iretq(s), Len(s) >= 22,
           UNCHANGED <<live, current, fpu_raw, entries>>, ~in_service',
           \/ current \in live /\ UserFrame(s, 0)
           \/ \E inner \in Interruptible :
                /\ Entered(inner, current, Drop(s, 22))
                /\ \A r \in Registers :
                    s[registers_slot[r]] = InCode(inner, current, Len(s) - 22, Const("0"))[r]
    PROVE  CInv'
<1>1. /\ cpu' = [r \in Names |-> IF r = "fpu" THEN cpu["fpu"] ELSE s[registers_slot[r]]]
      /\ at' = IF s[registers_slot["cs"]] = USER_CS THEN "user" ELSE s[registers_slot["rip"]][3]
      /\ stack' = [stack EXCEPT ![current] = Drop(s, 22)]
    BY IretqFacts
<1>2. Types /\ current \in Owners /\ Len(s) \in Nat
    BY DEF CInv, Types, Owners, IsSeq
<1>3. Under(s, 22, Drop(s, 22))
    BY <1>2, DropFacts
<1>4. IsSeq(Drop(s, 22)) /\ Len(Drop(s, 22)) = Len(s) - 22
    BY <1>3 DEF Under
<1>5. /\ stack'[current] = Drop(s, 22) /\ \A t \in Owners : t # current => stack'[t] = stack[t]
      /\ stack' = [t \in Owners |-> stack'[t]]
    BY <1>1, <1>2 DEF Types
<1>6. Elsewhere'
    BY <1>2, <1>5, ElsewhereStep DEF Types, Owners
<1>7. /\ cpu' = [r \in Names |-> cpu'[r]] /\ DOMAIN cpu' = Names
      /\ {"cs", "ss", "r10", "rip", "fpu"} \subseteq Names
    BY <1>1 DEF Names, General
<1>8. CASE current \in live /\ UserFrame(s, 0)
  <2>1. /\ s[registers_slot["cs"]] = USER_CS /\ s[registers_slot["ss"]] = USER_SS
        /\ s[registers_slot["r10"]] # Code("syscall_handler") /\ Len(s) = 22
    BY <1>8, RegistersTable DEF UserFrame
  <2>2. at' = "user" /\ cpu'["cs"] = USER_CS /\ cpu'["ss"] = USER_SS
        /\ cpu'["r10"] # Code("syscall_handler")
    BY <1>1, <1>7, <2>1
  <2>3. stack'[current] = <<>>
    BY <1>2, <1>4, <1>5, <2>1 DEF IsSeq
  <2>4. Types'
    BY <1>2, <1>4, <1>5, <1>7, <2>2 DEF Types, entries
  <2>5. Here' /\ KernelStateKept'
    BY <1>8, <2>2, <2>3 DEF Here, KernelStateKept
  <2> QED
    BY <1>6, <2>4, <2>5 DEF CInv
<1>9. CASE \E inner \in Interruptible :
                /\ Entered(inner, current, Drop(s, 22))
                /\ \A r \in Registers :
                    s[registers_slot[r]] = InCode(inner, current, Len(s) - 22, Const("0"))[r]
  <2>1. PICK inner \in Interruptible :
                /\ Entered(inner, current, Drop(s, 22))
                /\ \A r \in Registers :
                    s[registers_slot[r]] = InCode(inner, current, Len(s) - 22, Const("0"))[r]
    BY <1>9
  <2> DEFINE n == Len(s) - 22
  <2>2. {"cs", "rip"} \subseteq Registers
    BY DEF Registers, Names
  <2>3. s[registers_slot["cs"]] = KERNEL_CS /\ s[registers_slot["rip"]] = Code(inner)
    BY <2>1, <2>2, InCodeFacts
  <2>4. at' = inner
    BY <1>1, <2>3, CodeFacts
  <2>5. inner \in Handlers \cup {"kinit", "kernel_idle_loop"}
        /\ inner \notin {"user", "ret_from_fork"}
    BY DEF Handlers, Interruptible
  <2>6. cpu' = InCode(inner, current, n, cpu["fpu"])
    <3> DEFINE c == InCode(inner, current, n, cpu["fpu"])
    <3>1. c = [r \in Names |-> c[r]] /\ c["fpu"] = cpu["fpu"]
      BY InCodeFacts
    <3>2. \A r \in Registers : c[r] = InCode(inner, current, n, Const("0"))[r]
      BY InCodeFacts
    <3> HIDE DEF c
    <3>3. \A r \in Names : cpu'[r] = c[r]
      BY <1>1, <2>1, <3>1, <3>2 DEF Registers
    <3> QED
      BY <1>7, <3>1, <3>3 DEF c
  <2>7. cpu'["fpu"] = cpu["fpu"]
    BY <1>1, <1>7
  <2>8. Types'
    BY <1>2, <1>4, <1>5, <1>7, <2>4, <2>5 DEF Types, entries
  <2>9. Here'
    BY <1>5, <2>1, <2>4, <2>5 DEF Here, OnStack
  <2>10. KernelStateKept'
    BY <1>4, <1>5, <2>4, <2>6, <2>7 DEF KernelStateKept
  <2> QED
    BY <1>6, <2>8, <2>9, <2>10 DEF CInv
<1> QED
    BY <1>8, <1>9

Updated(s, i, x) == [s EXCEPT ![i] = x]

Stored(s, i, x, e) ==
    /\ IsSeq(e) /\ Len(e) = Len(s) /\ e[i] = x
    /\ \A j \in 1..Len(s) : j # i => e[j] = s[j]

LEMMA UpdatedFacts ==
    ASSUME NEW s, IsSeq(s), NEW i \in 1..Len(s), NEW x
    PROVE  Stored(s, i, x, Updated(s, i, x))
<1> DEFINE S == {s[j] : j \in 1..Len(s)} \cup {x}
           e == [s EXCEPT ![i] = x]
<1>1. \A j \in 1..Len(s) : s[j] \in S
    OBVIOUS
<1>2. x \in S
    OBVIOUS
<1> HIDE DEF S
<1>3. s \in Seq(S)
    BY <1>1, SeqTyped
<1>4. e \in Seq(S) /\ Len(e) = Len(s)
    BY <1>2, <1>3, ExceptSeq
<1>5. IsSeq(e)
    BY <1>4, SeqIsSeq
<1>6. e[i] = x /\ \A j \in 1..Len(s) : j # i => e[j] = s[j]
    BY DEF IsSeq
<1> QED
    BY <1>4, <1>5, <1>6 DEF Updated, Stored

\* The frame of a new task, in front of its registers.
LEMMA KernelFrameFacts ==
    ASSUME NEW ctx, IsSeq(ctx), Len(ctx) = 22
    PROVE  /\ IsSeq(KernelFrame(ctx)) /\ Len(KernelFrame(ctx)) = 29
           /\ KernelFrame(ctx)[7] = Code("ret_from_fork")
           /\ \A i \in 1..22 : KernelFrame(ctx)[7 + i] = ctx[i]
<1> DEFINE zeros == [i \in 1..6 |-> Const("0")]
           one == <<Code("ret_from_fork")>>
           top == zeros \o one
           all == top \o ctx
<1>1. IsSeq(zeros) /\ Len(zeros) = 6
  <2>1. zeros \in Seq({Const("0")})
    OBVIOUS
  <2>2. Len(zeros) = 6
    OBVIOUS
  <2> QED
    BY <2>1, <2>2, SeqIsSeq
<1>2. IsSeq(one) /\ Len(one) = 1 /\ one[1] = Code("ret_from_fork")
  <2>1. one \in Seq({Code("ret_from_fork")})
    OBVIOUS
  <2> QED
    BY <2>1, SeqIsSeq
<1> HIDE DEF zeros, one
<1>3. Joins(zeros, one, top)
    BY <1>1, <1>2, ConcatFacts
<1> HIDE DEF top
<1>4. IsSeq(top) /\ Len(top) = 7 /\ top[7] = Code("ret_from_fork")
  <2>1. IsSeq(top) /\ Len(top) = 7 /\ \A i \in 1..1 : top[6 + i] = one[i]
    BY <1>1, <1>2, <1>3 DEF Joins
  <2> QED
    BY <1>2, <2>1
<1>5. Joins(top, ctx, all)
    BY <1>4, ConcatFacts
<1>6. KernelFrame(ctx) = all
    BY DEF KernelFrame, all, top, zeros, one
<1> HIDE DEF all
<1> QED
    BY <1>4, <1>5, <1>6 DEF Joins

\* A list of the fields of registers_t.
LEMMA FieldsFacts ==
    ASSUME NEW f, f = [i \in DOMAIN registers_t |-> f[i]]
    PROVE  IsSeq(f) /\ Len(f) = 22
<1> DEFINE S == {f[i] : i \in 1..22}
<1>1. \A i \in 1..22 : f[i] \in S
    OBVIOUS
<1> HIDE DEF S
<1>2. DOMAIN registers_t = 1..22
    BY DEF registers_t
<1>3. f \in [1..22 -> S]
    BY <1>1, <1>2
<1>4. f \in Seq(S) /\ Len(f) = 22
    BY <1>3
<1> QED
    BY <1>4, SeqIsSeq

LEMMA ImageFacts ==
    /\ IsSeq(ImageContext) /\ Len(ImageContext) = 22
    /\ \A r \in Registers : ImageContext[registers_slot[r]] = ImageFile[r]
<1>1. ImageContext = [i \in DOMAIN registers_t |-> ImageContext[i]]
    BY DEF ImageContext
<1>2. IsSeq(ImageContext) /\ Len(ImageContext) = 22
    BY <1>1, FieldsFacts
<1>3. ASSUME NEW r \in Registers
      PROVE  ImageContext[registers_slot[r]] = ImageFile[r]
  <2>1. registers_slot[r] \in DOMAIN registers_t /\ registers_t[registers_slot[r]] = r
    <3>1. r \in Names \ {"fpu"}
      BY DEF Registers
    <3> QED
      BY <3>1, RegistersTable DEF registers_t, Names, General
  <2>2. ImageContext[registers_slot[r]] =
          CASE r = "rip" -> Const("entry")
            [] r = "rsp" -> Const("stack_top")
            [] r = "cs" -> USER_CS
            [] r = "ss" -> USER_SS
            [] r = "rflags" -> Const("0x202")
            [] r = "rdi" -> Const("argc")
            [] r = "rsi" -> Const("argv")
            [] OTHER -> Const("0")
    BY <2>1 DEF ImageContext
  <2>3. r \in Names /\ r # "fpu"
    BY DEF Registers
  <2>4. ImageFile[r] = IF r = "cs" THEN USER_CS ELSE IF r = "ss" THEN USER_SS
                       ELSE CASE r = "rip" -> Const("entry")
                              [] r = "rsp" -> Const("stack_top")
                              [] r = "rflags" -> Const("0x202")
                              [] r = "rdi" -> Const("argc")
                              [] r = "rsi" -> Const("argv")
                              [] r = "fpu" -> Const("fpu_default_image")
                              [] OTHER -> Const("0")
    BY <2>3 DEF ImageFile, File
  <2> QED
    BY <2>2, <2>3, <2>4
<1> QED
    BY <1>2, <1>3

\* fork builds the registers of the caller, with its own result.
LEMMA ForkFacts ==
    ASSUME NEW ctx
    PROVE  /\ IsSeq(ForkContext(ctx)) /\ Len(ForkContext(ctx)) = 22
           /\ \A r \in Registers : ForkContext(ctx)[registers_slot[r]] =
                CASE r = "rax" -> Const("0")
                  [] r = "cs" -> USER_CS
                  [] r = "ss" -> USER_SS
                  [] r = "rip" -> ctx[8]
                  [] r = "rflags" -> UserFlags(ctx[9])
                  [] OTHER -> ctx[SavedSlot[r]]
<1> DEFINE f == ForkContext(ctx)
<1>1. f = [i \in DOMAIN registers_t |-> f[i]]
    BY DEF ForkContext
<1>2. IsSeq(f) /\ Len(f) = 22
    BY <1>1, FieldsFacts
<1>3. ASSUME NEW r \in Registers
      PROVE  f[registers_slot[r]] =
                CASE r = "rax" -> Const("0")
                  [] r = "cs" -> USER_CS
                  [] r = "ss" -> USER_SS
                  [] r = "rip" -> ctx[8]
                  [] r = "rflags" -> UserFlags(ctx[9])
                  [] OTHER -> ctx[SavedSlot[r]]
  <2>1. registers_slot[r] \in DOMAIN registers_t /\ registers_t[registers_slot[r]] = r
    <3>1. r \in Names \ {"fpu"}
      BY DEF Registers
    <3> QED
      BY <3>1, RegistersTable DEF registers_t, Names, General
  <2>2. f[registers_slot[r]] =
          CASE r \in {"r15", "r14", "r13", "r12", "rbp", "rbx", "rip"} -> ctx[syscall_slot[r]]
            [] r = "r11" -> ctx[syscall_slot["rflags"]]
            [] r = "r10" -> ctx[syscall_slot["arg4"]]
            [] r = "r9" -> ctx[syscall_slot["arg6"]]
            [] r = "r8" -> ctx[syscall_slot["arg5"]]
            [] r = "rdi" -> ctx[syscall_slot["arg1"]]
            [] r = "rsi" -> ctx[syscall_slot["arg2"]]
            [] r = "rdx" -> ctx[syscall_slot["arg3"]]
            [] r = "rcx" -> ctx[syscall_slot["rip"]]
            [] r = "rax" -> Const("0")
            [] r = "cs" -> USER_CS
            [] r = "ss" -> USER_SS
            [] r = "rsp" -> ctx[syscall_slot["user_rsp"]]
            [] r = "rflags" -> UserFlags(ctx[syscall_slot["rflags"]])
            [] OTHER -> Const("0")
    BY <2>1 DEF ForkContext
  <2>3. r \in Names /\ r # "fpu"
    BY DEF Registers
  <2>4. r \in {"r15", "r14", "r13", "r12", "rbp", "rbx", "rip", "r11", "r10", "r9", "r8",
               "rdi", "rsi", "rdx", "rcx", "rax", "cs", "ss", "rsp", "rflags"}
    BY <2>3 DEF Names, General
  <2>5. /\ SavedSlot["r15"] = 15 /\ SavedSlot["r14"] = 14 /\ SavedSlot["r13"] = 13
        /\ SavedSlot["r12"] = 12 /\ SavedSlot["rbp"] = 11 /\ SavedSlot["rbx"] = 10
        /\ SavedSlot["r11"] = 9 /\ SavedSlot["rcx"] = 8 /\ SavedSlot["r9"] = 7
        /\ SavedSlot["r8"] = 6 /\ SavedSlot["r10"] = 5 /\ SavedSlot["rdx"] = 4
        /\ SavedSlot["rsi"] = 3 /\ SavedSlot["rdi"] = 2 /\ SavedSlot["rsp"] = 16
    BY SavedTable, PopsTable
  <2> HIDE DEF f
  <2>6. CASE r \in {"r15", "r14", "r13", "r12", "rbp", "rbx"}
    BY <2>2, <2>5, <2>6, SyscallTable
  <2>7. CASE r \in {"r11", "r10", "r9", "r8", "rdi", "rsi", "rdx", "rcx", "rsp"}
    BY <2>2, <2>5, <2>7, SyscallTable
  <2>8. CASE r \in {"rip", "rax", "cs", "ss", "rflags"}
    BY <2>2, <2>8, SyscallTable
  <2> QED
    BY <2>4, <2>6, <2>7, <2>8
<1> QED
    BY <1>2, <1>3

\* A signal with a handler changes two values of a saved context.
Signalled(s, rip, rsp, p, e) ==
    /\ IsSeq(e) /\ Len(e) = Len(s)
    /\ e[rip] = (IF current \in p THEN Const("sigterm_handler") ELSE s[rip])
    /\ e[rsp] = (IF current \in p THEN SignalFrame(s[rsp]) ELSE s[rsp])
    /\ \A i \in 1..Len(s) : i # rip /\ i # rsp => e[i] = s[i]

LEMMA SignalFacts ==
    ASSUME NEW s, IsSeq(s), NEW rip \in 1..Len(s), NEW rsp \in 1..Len(s), rip # rsp, NEW p
    PROVE  Signalled(s, rip, rsp, p, SignalCheck(s, rip, rsp, p))
<1> DEFINE x == Const("sigterm_handler")
           m == Updated(s, rip, x)
           y == SignalFrame(m[rsp])
           e == Updated(m, rsp, y)
<1>1. current \in p => SignalCheck(s, rip, rsp, p) = e
    BY DEF SignalCheck, Updated
<1> HIDE DEF x, y
<1>2. Stored(s, rip, x, m)
    BY UpdatedFacts
<1> HIDE DEF m
<1>3. IsSeq(m) /\ rsp \in 1..Len(m)
    BY <1>2 DEF Stored
<1>4. Stored(m, rsp, y, e)
    BY <1>3, UpdatedFacts
<1> HIDE DEF e
<1>5. /\ IsSeq(e) /\ Len(e) = Len(s) /\ e[rip] = x /\ e[rsp] = y /\ m[rsp] = s[rsp]
      /\ \A i \in 1..Len(s) : i # rip /\ i # rsp => e[i] = s[i]
    BY <1>2, <1>4 DEF Stored
<1>6. y = SignalFrame(s[rsp])
    BY <1>5 DEF y
<1>7. current \notin p => SignalCheck(s, rip, rsp, p) = s
    BY DEF SignalCheck
<1> QED
    BY <1>1, <1>5, <1>6, <1>7 DEF Signalled, x

\* What sysret and the pops in front of it take from the context of a call.
SysretFile(s, p, c) ==
    [r \in Names |->
        CASE r = "rax" -> Const("result")
          [] r = "cs" -> USER_CS
          [] r = "ss" -> USER_SS
          [] r = "fpu" -> c["fpu"]
          [] r \in {"rip", "rcx"} -> IF current \in p THEN Const("sigterm_handler") ELSE s[9]
          [] r = "rsp" -> IF current \in p THEN SignalFrame(s[17]) ELSE s[17]
          [] r \in {"rflags", "r11"} -> s[10]
          [] OTHER -> s[1 + SavedSlot[r]]]

LEMMA SysretFacts ==
    ASSUME NEW others, NEW p, NEW h, SyscallReturn(others, p, h),
           IsSeq(stack[current]), Len(stack[current]) = 17, cpu = [r \in Names |-> cpu[r]]
    PROVE  /\ cpu' = SysretFile(stack[current], p, cpu)
           /\ at' = "user" /\ stack' = [others EXCEPT ![current] = <<>>]
<1> DEFINE s == stack[current]
           d == Drop(s, 1)
           e == SignalCheck(d, syscall_slot["rip"], syscall_slot["user_rsp"], p)
           top == Drop(e, 1)
           file == [cpu EXCEPT !["rax"] = Const("result")]
           popped == Popped(SyscallSlot, top, file)
<1>1. IsSeq(s) /\ Len(s) = 17
    OBVIOUS
<1>2. /\ cpu' = [popped EXCEPT !["rip"] = popped["rcx"], !["rflags"] = popped["r11"],
                               !["cs"] = KERNEL_SS + 16 + 3, !["ss"] = KERNEL_SS + 8 + 3]
      /\ at' = "user" /\ stack' = [others EXCEPT ![current] = <<>>]
    BY DEF SyscallReturn
<1>3. popped = [r \in Names |-> IF r \in DOMAIN SyscallSlot THEN top[SyscallSlot[r]] ELSE file[r]]
    BY DEF Popped
<1> HIDE DEF popped
<1>4. IsSeq(d) /\ Len(d) = 16 /\ \A i \in 1..16 : d[i] = s[1 + i]
  <2> HIDE DEF s, e, top, file
  <2>0. 1 \in Nat /\ 1 <= Len(s)
    BY <1>1
  <2>1. Under(s, 1, d)
    BY <1>1, <2>0, DropFacts
  <2> QED
    BY <1>1, <2>1 DEF Under
<1> HIDE DEF d, s
<1>5. /\ IsSeq(e) /\ Len(e) = 16
      /\ e[8] = (IF current \in p THEN Const("sigterm_handler") ELSE s[9])
      /\ e[16] = (IF current \in p THEN SignalFrame(s[17]) ELSE s[17])
      /\ \A i \in 1..16 : i # 8 /\ i # 16 => e[i] = s[1 + i]
  <2>1. 8 \in 1..Len(d) /\ 16 \in 1..Len(d)
    BY <1>4
  <2>2. e = SignalCheck(d, 8, 16, p)
    BY SyscallTable
  <2> HIDE DEF e, top, file
  <2>3. Signalled(d, 8, 16, p, SignalCheck(d, 8, 16, p))
    <3>1. 8 # 16
      OBVIOUS
    <3> QED
      BY <1>4, <2>1, <3>1, SignalFacts
  <2> QED
    BY <1>4, <2>2, <2>3 DEF Signalled
<1> HIDE DEF e
<1>6. \A i \in 1..15 : top[i] = e[1 + i]
  <2>1. 1 \in Nat /\ 1 <= Len(e)
    BY <1>5
  <2>2. Under(e, 1, top)
    BY <1>5, <2>1, DropFacts
  <2> QED
    BY <1>5, <2>2 DEF Under
<1> HIDE DEF top
<1>7. \A r \in DOMAIN SyscallSlot : popped[r] = e[1 + SyscallSlot[r]] /\ r \in Names
    BY <1>3, <1>6, PopsTable DEF Names, General
<1>8. /\ popped["rcx"] = e[8] /\ popped["rsp"] = e[16] /\ popped["r11"] = s[10]
      /\ \A r \in DOMAIN SyscallSlot : r \notin {"rcx", "rsp"} =>
            popped[r] = s[1 + SavedSlot[r]]
    BY <1>5, <1>7, PopsTable, SavedTable
<1>9. popped["rax"] = Const("result") /\ popped["fpu"] = cpu["fpu"]
  <2>1. {"rax", "fpu"} \subseteq Names /\ {"rax", "fpu"} \cap DOMAIN SyscallSlot = {}
    BY PopsTable DEF Names, General
  <2>2. file["rax"] = Const("result") /\ file["fpu"] = cpu["fpu"]
    BY <2>1
  <2> QED
    BY <1>3, <2>1, <2>2
<1>10. /\ cpu' = [r \in Names |-> cpu'[r]]
       /\ cpu'["rip"] = popped["rcx"] /\ cpu'["rflags"] = popped["r11"]
       /\ cpu'["cs"] = USER_CS /\ cpu'["ss"] = USER_SS
       /\ \A r \in Names \ {"rip", "rflags", "cs", "ss"} : cpu'[r] = popped[r]
  <2>1. {"rip", "rflags", "cs", "ss"} \subseteq Names
    BY DEF Names
  <2>2. KERNEL_SS + 16 + 3 = USER_CS /\ KERNEL_SS + 8 + 3 = USER_SS
    BY DEF KERNEL_SS, USER_CS, USER_SS
  <2>3. cpu' = [popped EXCEPT !["rip"] = popped["rcx"], !["rflags"] = popped["r11"],
                              !["cs"] = USER_CS, !["ss"] = USER_SS]
    BY <1>2, <2>2
  <2>4. popped = [r \in Names |-> popped[r]]
    BY <1>3
  <2> QED
    BY <2>1, <2>3, <2>4
<1>11. ASSUME NEW r \in Names
       PROVE  cpu'[r] = SysretFile(s, p, cpu)[r]
  <2>1. CASE r \in {"rax", "cs", "ss", "fpu"}
    BY <1>9, <1>10, <2>1 DEF SysretFile
  <2>2. CASE r \in {"rip", "rcx"}
    BY <1>5, <1>8, <1>10, <2>2 DEF SysretFile
  <2>3. CASE r \in {"rflags", "r11", "rsp"}
    BY <1>5, <1>8, <1>10, <2>3 DEF SysretFile
  <2>4. CASE r \notin {"rax", "cs", "ss", "fpu", "rip", "rcx", "rflags", "r11", "rsp"}
    <3>1. r \in DOMAIN SyscallSlot
      BY <2>4, PopsTable DEF Names, General
    <3>2. cpu'[r] = s[1 + SavedSlot[r]]
      BY <1>8, <1>10, <2>4, <3>1
    <3> QED
      BY <2>4, <3>2 DEF SysretFile
  <2> QED
    BY <2>1, <2>2, <2>3, <2>4
<1>12. cpu' = SysretFile(s, p, cpu)
  <2>1. SysretFile(s, p, cpu) = [r \in Names |-> SysretFile(s, p, cpu)[r]]
    BY DEF SysretFile
  <2> QED
    BY <1>10, <1>11, <2>1
<1> QED
    BY <1>2, <1>12 DEF s

\* A call returns to its program.  It may add tasks that have never run.
LEMMA SysretStep ==
    ASSUME CInv, at = "syscall_handler",
           NEW others, NEW p, NEW h, SyscallReturn(others, p, h),
           live' \subseteq Task, current \in live',
           others = [t \in Owners |-> others[t]], \A t \in Owners : IsSeq(others[t]),
           DOMAIN fpu_raw' = Owners, fpu_raw' = [t \in Owners |-> fpu_raw'[t]],
           \A t \in (live' \cup {Kernel}) \ {current} :
              Fresh(t, others[t]) \/ (t \in live \cup {Kernel} /\ others[t] = stack[t])
    PROVE  CInv'
<1>1. Types /\ current \in Owners /\ IsSeq(stack[current])
    BY DEF CInv, Types, Owners
<1>2. UserCall(stack[current])
    BY DEF CInv, Here, OnStack, Entered
<1>3. Len(stack[current]) = 17 /\ stack[current][6] # Code("syscall_handler")
    BY <1>2, SyscallTable DEF UserCall
<1>4. /\ cpu' = SysretFile(stack[current], p, cpu)
      /\ at' = "user" /\ stack' = [others EXCEPT ![current] = <<>>]
    BY <1>1, <1>3, SysretFacts DEF Types
<1>5. UNCHANGED <<current, entries, in_service>>
    BY DEF SyscallReturn
<1>6. /\ stack'[current] = <<>> /\ \A t \in Owners : t # current => stack'[t] = others[t]
      /\ stack' = [t \in Owners |-> stack'[t]]
    BY <1>1, <1>4
<1>7. IsSeq(<<>>)
  <2>1. <<>> \in Seq({})
    OBVIOUS
  <2> QED
    BY <2>1, SeqIsSeq
<1>8. /\ cpu' = [r \in Names |-> cpu'[r]] /\ DOMAIN cpu' = Names
      /\ cpu'["cs"] = USER_CS /\ cpu'["ss"] = USER_SS
      /\ cpu'["r10"] # Code("syscall_handler")
  <2>1. {"cs", "ss", "r10"} \subseteq Names
    BY DEF Names, General
  <2>2. 1 + SavedSlot["r10"] = 6
    BY SavedTable, PopsTable
  <2> QED
    BY <1>3, <1>4, <2>1, <2>2 DEF SysretFile
<1>9. Types'
    BY <1>1, <1>4, <1>5, <1>6, <1>7, <1>8 DEF Types, entries
<1>10. Here' /\ KernelStateKept'
    BY <1>4, <1>5, <1>6, <1>8 DEF Here, KernelStateKept
<1>11. Elsewhere'
  <2>1. \A t \in (live' \cup {Kernel}) \ {current} :
            Fresh(t, stack'[t]) \/ (t \in live \cup {Kernel} /\ stack'[t] = stack[t])
    BY <1>6 DEF Owners
  <2> QED
    BY <1>5, <2>1, ElsewhereStep
<1>12. ~in_service'
    BY <1>5 DEF CInv
<1> QED
    BY <1>9, <1>10, <1>11, <1>12 DEF CInv

\* The part of sched between two tasks.
LEMMA SwitchStep ==
    ASSUME CInv, NEW q \in live \cup {Kernel}, q # current, NEW s, IsSeq(s), NEW fpu,
           Switch(q, s, fpu), ~in_service', live' \subseteq live, q \in live' \cup {Kernel},
           current \in live' \cup {Kernel} => SwitchedOut(current, s)
    PROVE  CInv'
<1> DEFINE sp == stack[q]
           rest == Drop(sp, 7)
<1>1. Types /\ current \in Owners /\ q \in Owners /\ IsSeq(sp)
    BY DEF CInv, Types, Owners
<1>2. Fresh(q, sp) \/ SwitchedOut(q, sp)
    BY DEF CInv, Elsewhere
<1>3. Len(sp) \in Nat /\ Len(sp) >= 7
    BY <1>1, <1>2 DEF Fresh, UserFrame, SwitchedOut, IsSeq
<1>4. IsSeq(rest) /\ Len(rest) = Len(sp) - 7 /\ \A i \in 1..(Len(sp) - 7) : rest[i] = sp[7 + i]
  <2>1. Under(sp, 7, rest)
    BY <1>1, <1>3, DropFacts
  <2> QED
    BY <2>1 DEF Under
<1>5. /\ current' = q /\ rsp0' = q /\ syscall_kernel_rsp' = q
      /\ fpu_raw' = [fpu_raw EXCEPT ![current] = fpu]
      /\ stack' = [stack EXCEPT ![current] = s, ![q] = rest]
    BY DEF Switch
<1>6. /\ stack'[q] = rest /\ stack'[current] = s
      /\ \A t \in Owners : t # current /\ t # q => stack'[t] = stack[t]
      /\ stack' = [t \in Owners |-> stack'[t]]
  <2> HIDE DEF rest
  <2> QED
    BY <1>1, <1>5 DEF Types
<1>7. /\ fpu_raw' = [t \in Owners |-> fpu_raw'[t]] /\ DOMAIN fpu_raw' = Owners
    BY <1>1, <1>5 DEF Types
<1>8. Elsewhere'
  <2>1. ASSUME NEW t \in (live' \cup {Kernel}) \ {q}
        PROVE  Fresh(t, stack'[t]) \/ SwitchedOut(t, stack'[t])
    <3>1. CASE t = current
      BY <1>6, <3>1
    <3>2. CASE t # current
      <4>1. t \in Owners /\ t \in (live \cup {Kernel}) \ {current}
        BY <1>1, <3>2 DEF Types, Owners
      <4>2. stack'[t] = stack[t]
        BY <1>6, <3>2, <4>1
      <4> QED
        BY <4>1, <4>2 DEF CInv, Elsewhere
    <3> QED
      BY <3>1, <3>2
  <2> QED
    BY <1>5, <2>1 DEF Elsewhere
<1>9. CASE Fresh(q, sp)
  <2>1. sp[7] = Code("ret_from_fork") /\ UserFrame(sp, 7) /\ q \in Task
    BY <1>9 DEF Fresh
  <2>2. /\ at' = "ret_from_fork"
        /\ cpu' = [Popped(SwitchSlot, sp, cpu) EXCEPT !["fpu"] = fpu_raw[q]]
    BY <2>1 DEF Switch
  <2>3. cpu' = [r \in Names |-> cpu'[r]] /\ DOMAIN cpu' = Names
    BY <2>2 DEF Popped
  <2>4. q \in live'
    BY <2>1, RegistersAssumption
  <2>5. UserFrame(rest, 0)
    <3>1. /\ registers_slot["cs"] = 19 /\ registers_slot["ss"] = 22 /\ registers_slot["r10"] = 6
      BY RegistersTable
    <3> HIDE DEF rest, sp
    <3>2. Len(sp) = 29 /\ rest[19] = sp[26] /\ rest[22] = sp[29] /\ rest[6] = sp[13]
      BY <1>4, <2>1 DEF UserFrame
    <3> QED
      BY <1>4, <2>1, <3>1, <3>2 DEF UserFrame
  <2>6. Types'
    BY <1>1, <1>4, <1>5, <1>6, <1>7, <2>2, <2>3, <2>4 DEF Types
  <2>7. Here' /\ KernelStateKept'
    BY <1>5, <1>6, <2>2, <2>4, <2>5 DEF Here, KernelStateKept
  <2> QED
    BY <1>8, <2>6, <2>7 DEF CInv
<1>10. CASE SwitchedOut(q, sp)
  <2>1. PICK name \in {"irq_handler", "syscall_handler", "kinit"} :
            /\ OnStack(name, q, rest)
            /\ \A r \in DOMAIN SwitchSlot : sp[SwitchSlot[r]] = <<name, q, r>>
    BY <1>10 DEF SwitchedOut
  <2>2. rest[1][3] = name
    BY <2>1, EnteredOnTop, CodeFacts
  <2> DEFINE c == InCode(name, q, Len(rest), fpu_raw[q])
  <2>3. at' = name /\ cpu' = Popped(SwitchSlot, sp, c)
    <3>1. sp[7] # Code("ret_from_fork")
      BY <1>10, CodeFacts DEF SwitchedOut
    <3> QED
      BY <2>2, <3>1 DEF Switch
  <2>4. c = [r \in Names |-> c[r]] /\ c["fpu"] = fpu_raw[q]
        /\ \A r \in DOMAIN SwitchSlot : c[r] = <<name, q, r>>
    BY InCodeFacts
  <2> HIDE DEF c
  <2>5. cpu' = c
    BY <2>1, <2>3, <2>4 DEF Popped
  <2>6. cpu' = [r \in Names |-> cpu'[r]] /\ DOMAIN cpu' = Names
    BY <2>4, <2>5
  <2>7. at' \in Handlers \cup {"kinit"} /\ at' \notin {"user", "ret_from_fork"}
    BY <2>3 DEF Handlers
  <2>8. Types'
    BY <1>1, <1>4, <1>5, <1>6, <1>7, <2>6, <2>7 DEF Types
  <2>9. Here'
    BY <1>5, <1>6, <2>1, <2>3, <2>7 DEF Here
  <2>10. KernelStateKept'
    BY <1>5, <1>6, <2>3, <2>4, <2>5 DEF KernelStateKept, c
  <2> QED
    BY <1>8, <2>8, <2>9, <2>10 DEF CInv
<1> QED
    BY <1>2, <1>9, <1>10

LEMMA OneSeq ==
    ASSUME NEW x
    PROVE  IsSeq(<<x>>) /\ Len(<<x>>) = 1 /\ <<x>>[1] = x
<1>1. <<x>> \in Seq({x})
    OBVIOUS
<1> QED
    BY <1>1, SeqIsSeq

LEMMA NonEmpty ==
    ASSUME NEW s, Len(s) # 0
    PROVE  s # <<>>
OBVIOUS

LEMMA EmptyIsSeq == IsSeq(<<>>) /\ Len(<<>>) = 0
<1>1. <<>> \in Seq({})
    OBVIOUS
<1> QED
    BY <1>1, SeqIsSeq

\* A task that has never run, from its registers.
LEMMA FreshFrame ==
    ASSUME NEW ctx, IsSeq(ctx), Len(ctx) = 22, NEW t \in Task,
           ctx[registers_slot["cs"]] = USER_CS, ctx[registers_slot["ss"]] = USER_SS,
           ctx[registers_slot["r10"]] # Code("syscall_handler")
    PROVE  Fresh(t, KernelFrame(ctx)) /\ IsSeq(KernelFrame(ctx))
<1> DEFINE k == KernelFrame(ctx)
<1>1. /\ IsSeq(k) /\ Len(k) = 29 /\ k[7] = Code("ret_from_fork")
      /\ \A i \in 1..22 : k[7 + i] = ctx[i]
    BY KernelFrameFacts
<1> HIDE DEF k
<1>2. /\ registers_slot["cs"] \in 1..22 /\ registers_slot["ss"] \in 1..22
      /\ registers_slot["r10"] \in 1..22
    BY RegistersTable
<1>3. UserFrame(k, 7)
    BY <1>1, <1>2 DEF UserFrame
<1>4. Fresh(t, k)
    BY <1>1, <1>3 DEF Fresh
<1> QED
    BY <1>1, <1>4 DEF k

LEMMA ImageFrame ==
    /\ ImageContext[registers_slot["cs"]] = USER_CS
    /\ ImageContext[registers_slot["ss"]] = USER_SS
    /\ ImageContext[registers_slot["r10"]] # Code("syscall_handler")
<1>1. {"cs", "ss", "r10"} \subseteq Registers /\ {"cs", "ss", "r10"} \subseteq Names
    BY DEF Registers, Names, General
<1>2. /\ ImageFile["cs"] = USER_CS /\ ImageFile["ss"] = USER_SS /\ ImageFile["r10"] = Const("0")
    BY <1>1 DEF ImageFile, File
<1> QED
    BY <1>1, <1>2, ImageFacts, CodeFacts

LEMMA FreshImage ==
    ASSUME NEW t \in Task
    PROVE  Fresh(t, KernelFrame(ImageContext)) /\ IsSeq(KernelFrame(ImageContext))
BY FreshFrame, ImageFacts, ImageFrame

LEMMA FreshFork ==
    ASSUME NEW ctx, ctx[5] # Code("syscall_handler"), NEW t \in Task
    PROVE  Fresh(t, KernelFrame(ForkContext(ctx))) /\ IsSeq(KernelFrame(ForkContext(ctx)))
<1> DEFINE f == ForkContext(ctx)
<1>1. {"cs", "ss", "r10"} \subseteq Registers
    BY DEF Registers, Names, General
<1>2. /\ IsSeq(f) /\ Len(f) = 22
      /\ f[registers_slot["cs"]] = USER_CS /\ f[registers_slot["ss"]] = USER_SS
      /\ f[registers_slot["r10"]] = ctx[SavedSlot["r10"]]
    BY <1>1, ForkFacts
<1>3. SavedSlot["r10"] = 5
    BY SavedTable, PopsTable
<1> HIDE DEF f
<1>4. Fresh(t, KernelFrame(f)) /\ IsSeq(KernelFrame(f))
    BY <1>2, <1>3, FreshFrame
<1> QED
    BY <1>4 DEF f

LEMMA CInvInit == Init => CInv
<1> SUFFICES ASSUME Init
             PROVE  CInv
    OBVIOUS
<1> USE RegistersAssumption
<1>1. PICK t \in Task :
        /\ live = {t}
        /\ stack = [u \in Owners |-> IF u = Kernel THEN <<Code("kinit")>>
                                     ELSE IF u = t THEN KernelFrame(ImageContext) ELSE <<>>]
    BY DEF Init
<1>2. /\ current = Kernel /\ at = "kinit"
      /\ cpu = InCode("kinit", Kernel, 1, Const("fninit"))
      /\ fpu_raw = [u \in Owners |-> Const("fpu_default_image")]
      /\ rsp0 = Kernel /\ syscall_kernel_rsp = Kernel /\ in_service = FALSE
    BY DEF Init
<1>3. Kernel \in Owners /\ t \in Owners /\ t # Kernel
    BY DEF Owners
<1>4. stack[Kernel] = <<Code("kinit")>> /\ stack[t] = KernelFrame(ImageContext)
    BY <1>1, <1>3
<1>5. \A u \in Owners : IsSeq(stack[u])
  <2> TAKE u \in Owners
  <2>1. CASE u = Kernel
    BY <1>4, <2>1, OneSeq
  <2>2. CASE u = t
    BY <1>4, <2>2, FreshImage
  <2>3. CASE u # Kernel /\ u # t
    BY <1>1, <2>3, EmptyIsSeq
  <2> QED
    BY <2>1, <2>2, <2>3
<1>6. cpu = [r \in Names |-> cpu[r]] /\ DOMAIN cpu = Names /\ cpu["fpu"] = Const("fninit")
    BY <1>2, InCodeFacts
<1>7. /\ stack = [u \in Owners |-> stack[u]] /\ DOMAIN stack = Owners
      /\ fpu_raw = [u \in Owners |-> fpu_raw[u]] /\ DOMAIN fpu_raw = Owners
    BY <1>1, <1>2
<1>8. Types
    BY <1>1, <1>2, <1>5, <1>6, <1>7 DEF Types
<1>9. Len(stack[Kernel]) = 1 /\ stack[Kernel][1] = Code("kinit") /\ stack[Kernel] # <<>>
    BY <1>4, OneSeq
<1>10. Here
    BY <1>2, <1>9 DEF Here, OnStack, Entered
<1>11. Elsewhere
    BY <1>1, <1>2, <1>4, FreshImage DEF Elsewhere
<1>12. KernelStateKept
    BY <1>2, <1>6, <1>9 DEF KernelStateKept
<1> QED
    BY <1>2, <1>8, <1>10, <1>11, <1>12 DEF CInv

\* Where the current task is.
LEMMA HereFacts ==
    ASSUME CInv
    PROVE  /\ current \in Owners /\ IsSeq(stack[current]) /\ Len(stack[current]) \in Nat
           /\ stack = [t \in Owners |-> stack[t]]
           /\ at \in {"user", "ret_from_fork", "syscall_handler", "exception_handler",
                      "int128_handler"}
                => current \in live /\ current \in Task
           /\ at = "syscall_handler" =>
                Len(stack[current]) = 17 /\ stack[current][6] # Code("syscall_handler")
           /\ at \in {"exception_handler", "int128_handler"} => UserFrame(stack[current], 1)
           /\ at \in {"kinit", "kernel_idle_loop"} => current = Kernel /\ Len(stack[current]) = 1
<1>1. Types /\ Here
    BY DEF CInv
<1>2. current \in Owners /\ IsSeq(stack[current]) /\ Len(stack[current]) \in Nat
    BY <1>1 DEF Types, Owners, IsSeq
<1>3. ASSUME at \notin {"user", "ret_from_fork", "irq_handler"}
      PROVE  Entered(at, current, stack[current])
    BY <1>1, <1>3 DEF Here, OnStack
<1>4. at = "syscall_handler" => current \in Task /\ UserCall(stack[current])
    BY <1>3 DEF Entered
<1>5. at \in {"exception_handler", "int128_handler"}
        => current \in Task /\ UserFrame(stack[current], 1)
    BY <1>3 DEF Entered
<1>6. at \in {"kinit", "kernel_idle_loop"} => current = Kernel /\ Len(stack[current]) = 1
    BY <1>3 DEF Entered
<1>7. current \in Task => current \in live
    BY <1>1, RegistersAssumption DEF Types
<1>8. at \in {"user", "ret_from_fork"} => current \in live /\ current \in Task
    BY <1>1 DEF Here, Types
<1>9. syscall_slot["arg4"] = 5
    BY SyscallTable
<1>10. at = "syscall_handler" =>
            Len(stack[current]) = 17 /\ stack[current][6] # Code("syscall_handler")
    BY <1>4, <1>9 DEF UserCall
<1> QED
    BY <1>1, <1>2, <1>4, <1>5, <1>6, <1>7, <1>8, <1>10 DEF Types

LEMMA ComputeStep ==
    ASSUME CInv, Compute
    PROVE  CInv'
<1>1. /\ at = "user" /\ cpu' = Own(current)
      /\ UNCHANGED <<live, current, at, stack, fpu_raw, entries, in_service>>
    BY DEF Compute
<1>2. {"cs", "ss", "r10"} \subseteq Names
    BY DEF Names, General
<1>3. /\ cpu' = [r \in Names |-> cpu'[r]] /\ DOMAIN cpu' = Names
      /\ cpu'["cs"] = USER_CS /\ cpu'["ss"] = USER_SS /\ cpu'["r10"] = <<"user", current, "r10">>
    BY <1>1, <1>2 DEF Own, File
<1>4. cpu'["r10"] # Code("syscall_handler")
    BY <1>3, CodeFacts
<1>5. Types'
    BY <1>1, <1>3 DEF CInv, Types, entries
<1>6. Here' /\ Elsewhere' /\ KernelStateKept'
    BY <1>1, <1>3, <1>4 DEF CInv, Here, Elsewhere, KernelStateKept
<1> QED
    BY <1>1, <1>5, <1>6 DEF CInv

LEMMA SyscallEntryStep ==
    ASSUME CInv, SyscallEntry
    PROVE  CInv'
<1> DEFINE file == [cpu EXCEPT !["rcx"] = cpu["rip"], !["r11"] = cpu["rflags"]]
           s == Pushed(SyscallPushes, file, <<>>)
<1>1. /\ at = "user" /\ Called("syscall_handler", syscall_kernel_rsp, s)
      /\ UNCHANGED <<live, current, fpu_raw, entries, in_service, signals>>
    BY DEF SyscallEntry
<1>2. syscall_kernel_rsp = current /\ cpu["r10"] # Code("syscall_handler")
    BY <1>1 DEF CInv, Types, Here
<1>3. file["r10"] = cpu["r10"]
  <2>1. DOMAIN cpu = Names /\ "r10" \in Names
    BY DEF CInv, Types, Names, General
  <2> QED
    BY <2>1
<1> HIDE DEF file
<1>4. IsSeq(s) /\ Len(s) = 16 /\ s[5] = cpu["r10"]
  <2>1. IsSeq(s) /\ Len(s) = 16 /\ \A r \in DOMAIN SavedSlot : s[SavedSlot[r]] = file[r]
    BY SyscallFacts
  <2>2. "r10" \in DOMAIN SavedSlot /\ SavedSlot["r10"] = 5
    BY SavedTable, PopsTable
  <2> QED
    BY <1>3, <2>1, <2>2
<1> HIDE DEF s
<1>5. ASSUME NEW below, Joins(<<Code("syscall_handler")>>, s, below),
             below[1] = Code("syscall_handler"), Len(below) = 1 + Len(s)
      PROVE  OnStack("syscall_handler", current, below)
  <2>1. Len(below) = 17
    BY <1>4, <1>5
  <2>2. below[6] = s[5]
    <3>1. Len(<<Code("syscall_handler")>>) = 1
      BY OneSeq
    <3>2. below[1 + 5] = s[5]
      BY <1>4, <1>5, <3>1 DEF Joins
    <3> QED
      BY <3>2
  <2>3. UserCall(below)
    BY <1>2, <1>4, <2>1, <2>2, SyscallTable DEF UserCall
  <2>4. current \in Task
    BY <1>1, HereFacts
  <2>5. below # <<>>
    BY <2>1, EmptyIsSeq
  <2> QED
    BY <1>5, <2>3, <2>4, <2>5 DEF OnStack, Entered
<1>6. ~in_service'
    BY <1>1 DEF CInv
<1> QED
    BY <1>1, <1>2, <1>4, <1>5, <1>6, CalledStep DEF Handlers

LEMMA InterruptStep ==
    ASSUME CInv, NEW name \in Handlers \ {"syscall_handler"}, Interrupt(name)
    PROVE  CInv'
<1>1. /\ in_service' = (in_service \/ name = "irq_handler")
      /\ UNCHANGED <<live, current, fpu_raw, entries>>
    BY DEF Interrupt
<1>2. name \in {"irq_handler", "exception_handler", "int128_handler"}
    BY DEF Handlers
<1>3. rsp0 = current
    BY DEF CInv, Types
<1>4. {"cs", "ss", "r10"} \subseteq Registers
    BY DEF Registers, Names, General
<1>5. CASE at = "user"
  <2> DEFINE s == Frame(<<>>)
  <2>1. Called(name, current, s)
    BY <1>3, <1>5 DEF Interrupt
  <2>2. /\ IsSeq(s) /\ Len(s) = 22 /\ \A r \in Registers : s[registers_slot[r]] = cpu[r]
    <3>1. \A e : IsSeq(e) => IsSeq(Frame(e)) /\ Len(Frame(e)) = 22 + Len(e)
                /\ \A r \in Registers : Frame(e)[registers_slot[r]] = cpu[r]
      BY FrameFacts
    <3>2. IsSeq(s) /\ Len(s) = 22 + 0 /\ \A r \in Registers : s[registers_slot[r]] = cpu[r]
      BY <3>1, EmptyIsSeq
    <3> HIDE DEF s
    <3> QED
      BY <3>2
  <2> HIDE DEF s
  <2>3. ASSUME NEW below, Joins(<<Code(name)>>, s, below),
               below[1] = Code(name), Len(below) = 1 + Len(s)
        PROVE  OnStack(name, current, below)
    <3>1. \A i \in 1..22 : below[1 + i] = s[i]
      BY <2>2, <2>3, OneSeq DEF Joins
    <3>2. UserFrame(below, 1)
      BY <1>4, <1>5, <2>2, <2>3, <3>1, FrameSlots DEF UserFrame, CInv, Here
    <3>3. current \in Task
      BY <1>5, HereFacts
    <3>4. below # <<>>
      <4>1. Len(below) = 23
        BY <2>2, <2>3
      <4>2. Len(below) # 0
        BY <4>1
      <4> QED
        BY <4>2, NonEmpty
    <3> QED
      BY <1>2, <2>3, <3>2, <3>3, <3>4 DEF OnStack, Entered
  <2>4. in_service' => name = "irq_handler"
    BY <1>1, <1>5 DEF CInv
  <2> QED
    BY <1>1, <2>1, <2>2, <2>3, <2>4, CalledStep
<1>6. CASE at # "user"
  <2> DEFINE n == Len(stack[current])
             s == Frame(stack[current])
  <2>1. at \in Interruptible /\ name = "irq_handler" /\ Called(name, current, s)
    BY <1>6 DEF Interrupt
  <2>2. n \in Nat /\ IsSeq(stack[current])
    BY HereFacts
  <2>3. /\ IsSeq(s) /\ Len(s) = 22 + n /\ \A r \in Registers : s[registers_slot[r]] = cpu[r]
        /\ Drop(s, 22) = stack[current]
    BY <2>2, FrameFacts
  <2>4. cpu = InCode(at, current, n, cpu["fpu"]) /\ Entered(at, current, stack[current])
    BY <1>6, <2>1 DEF CInv, KernelStateKept, Here, OnStack, Interruptible
  <2>5. n > 0
    BY <2>2, <2>4 DEF Entered, UserFrame
  <2> HIDE DEF s, n
  <2>6. ASSUME NEW below, Joins(<<Code(name)>>, s, below), Drop(below, 1) = s,
               below[1] = Code(name), Len(below) = 1 + Len(s)
        PROVE  OnStack(name, current, below)
    <3>1. \A i \in 1..22 : below[1 + i] = s[i]
      <4>1. \A i \in 1..Len(s) : below[1 + i] = s[i]
        BY <2>6, OneSeq DEF Joins
      <4> QED
        BY <2>2, <2>3, <4>1
    <3>2. IsSeq(below) /\ Len(below) > 23 /\ Len(below) - 23 = n
      BY <2>2, <2>3, <2>5, <2>6 DEF Joins
    <3>3. Drop(below, 23) = stack[current]
      <4>1. Drop(Drop(below, 1), 22) = Drop(below, 1 + 22)
        BY <3>2, DropTwice
      <4> QED
        BY <2>3, <2>6, <4>1
    <3>4. \A r \in Registers :
            below[1 + registers_slot[r]] = InCode(at, current, n, Const("0"))[r]
      <4> TAKE r \in Registers
      <4>1. below[1 + registers_slot[r]] = cpu[r]
        BY <2>3, <3>1, FrameSlots
      <4>2. InCode(at, current, n, cpu["fpu"])[r] = InCode(at, current, n, Const("0"))[r]
        BY InCodeFacts
      <4> QED
        BY <2>4, <4>1, <4>2
    <3>5. Interrupted(at, current, below)
      BY <2>4, <3>2, <3>3, <3>4 DEF Interrupted
    <3>6. below # <<>>
      BY <3>2, EmptyIsSeq
    <3> QED
      BY <2>1, <2>6, <3>5, <3>6 DEF OnStack
  <2> QED
    BY <1>1, <2>1, <2>3, <2>6, CalledStep
<1> QED
    BY <1>5, <1>6

\* Below the function that an interrupt or exception has called.
LEMMA TopFacts ==
    ASSUME NEW s, IsSeq(s), Len(s) >= 23, NEW d, d = Drop(s, 1)
    PROVE  /\ IsSeq(d) /\ Len(d) = Len(s) - 1 /\ Drop(d, 22) = Drop(s, 23)
           /\ \A r \in Registers : d[registers_slot[r]] = s[1 + registers_slot[r]]
           /\ UserFrame(s, 1) => UserFrame(d, 0)
<1>1. Len(s) \in Nat /\ 1 \in Nat /\ 1 <= Len(s) /\ 1 + 22 <= Len(s)
    BY DEF IsSeq
<1>2. Under(s, 1, d)
    BY <1>1, DropFacts
<1>3. IsSeq(d) /\ Len(d) = Len(s) - 1 /\ \A i \in 1..22 : d[i] = s[1 + i]
  <2>1. \A i \in 1..22 : i \in 1..(Len(s) - 1)
    BY <1>1
  <2> QED
    BY <1>2, <2>1 DEF Under
<1>4. Drop(d, 22) = Drop(s, 23)
  <2>1. Drop(Drop(s, 1), 22) = Drop(s, 1 + 22)
    BY <1>1, DropTwice
  <2> QED
    BY <2>1
<1>5. \A r \in Registers : d[registers_slot[r]] = s[1 + registers_slot[r]]
    BY <1>3, FrameSlots
<1>6. {"cs", "ss", "r10"} \subseteq Registers
    BY DEF Registers, Names, General
<1>7. ASSUME UserFrame(s, 1)
      PROVE  UserFrame(d, 0)
  <2>1. \A r \in Registers : 0 + registers_slot[r] = registers_slot[r]
    BY FrameSlots
  <2>2. Len(d) = 0 + 22
    BY <1>3, <1>7 DEF UserFrame
  <2> QED
    BY <1>5, <1>6, <1>7, <2>1, <2>2 DEF UserFrame
<1> QED
    BY <1>3, <1>4, <1>5, <1>7

\* What an interrupt has met.
LEMMA IrqFacts ==
    ASSUME CInv, at = "irq_handler"
    PROVE  /\ Len(stack[current]) >= 23
           /\ IF stack[current][1 + registers_slot["cs"]] = USER_CS
              THEN current \in live /\ current \in Task /\ UserFrame(stack[current], 1)
              ELSE \E inner \in Interruptible : Interrupted(inner, current, stack[current])
<1> DEFINE s == stack[current]
<1>1. \/ current \in Task /\ UserFrame(s, 1)
      \/ \E inner \in Interruptible : Interrupted(inner, current, s)
    BY DEF CInv, Here, OnStack, Entered
<1>2. current \in Task => current \in live
    BY RegistersAssumption DEF CInv, Types
<1>3. UserFrame(s, 1) => s[1 + registers_slot["cs"]] = USER_CS /\ Len(s) >= 23
    BY DEF UserFrame
<1>4. ASSUME NEW inner \in Interruptible, Interrupted(inner, current, s)
      PROVE  s[1 + registers_slot["cs"]] # USER_CS /\ Len(s) > 23
  <2>1. "cs" \in Registers
    BY DEF Registers, Names
  <2> QED
    BY <1>4, <2>1, InCodeFacts, CodeFacts DEF Interrupted
<1>5. Len(s) \in Nat
    BY HereFacts
<1> HIDE DEF s
<1>6. CASE current \in Task /\ UserFrame(s, 1)
  <2>1. s[1 + registers_slot["cs"]] = USER_CS /\ Len(s) >= 23 /\ current \in live
    BY <1>2, <1>3, <1>6
  <2> QED
    BY <1>6, <2>1 DEF s
<1>7. CASE \E inner \in Interruptible : Interrupted(inner, current, s)
  <2>1. s[1 + registers_slot["cs"]] # USER_CS /\ Len(s) > 23
    BY <1>4, <1>7
  <2>2. Len(s) >= 23
    BY <1>5, <2>1
  <2> QED
    BY <1>7, <2>1, <2>2 DEF s
<1> QED
    BY <1>1, <1>6, <1>7

LEMMA InterruptReturnStep ==
    ASSUME CInv, InterruptReturn
    PROVE  CInv'
<1> DEFINE st == stack[current]
           s == Drop(st, 1)
           e == SignalCheck(s, registers_slot["rip"], registers_slot["rsp"], pending)
<1>1. /\ UNCHANGED <<live, current, fpu_raw, entries, in_service>>
      /\ at = "irq_handler" => ~in_service
      /\ \/ at = "irq_handler" /\ s[registers_slot["cs"]] = USER_CS /\ Iretq(e)
         \/ /\ at = "exception_handler"
               \/ (at = "irq_handler" /\ s[registers_slot["cs"]] # USER_CS)
            /\ Iretq(s)
    BY DEF InterruptReturn
<1>2. IsSeq(st) /\ Len(st) \in Nat
    BY HereFacts
<1>3. Len(st) >= 23
  <2>1. at = "irq_handler" => Len(st) >= 23
    BY IrqFacts
  <2>2. at = "exception_handler" => UserFrame(st, 1)
    BY HereFacts
  <2>3. UserFrame(st, 1) => Len(st) >= 23
    BY DEF UserFrame
  <2>4. at \in {"irq_handler", "exception_handler"}
    BY <1>1
  <2> HIDE DEF st, s, e
  <2> QED
    BY <2>1, <2>2, <2>3, <2>4
<1>4. /\ IsSeq(s) /\ Len(s) = Len(st) - 1 /\ Drop(s, 22) = Drop(st, 23)
      /\ \A r \in Registers : s[registers_slot[r]] = st[1 + registers_slot[r]]
      /\ UserFrame(st, 1) => UserFrame(s, 0)
    BY <1>2, <1>3, TopFacts
<1> HIDE DEF s
<1>5. Len(s) >= 22 /\ ~in_service'
    BY <1>1, <1>2, <1>3, <1>4 DEF CInv
<1>6. s[registers_slot["cs"]] = st[1 + registers_slot["cs"]]
    BY <1>4 DEF Registers, Names
<1>7. CASE at = "irq_handler" /\ s[registers_slot["cs"]] = USER_CS /\ Iretq(e)
  <2>1. current \in live /\ UserFrame(s, 0)
    BY <1>4, <1>6, <1>7, IrqFacts
  <2>2. Len(s) = 22
    BY <2>1 DEF UserFrame
  <2>3. Signalled(s, 18, 21, pending, e)
    <3>1. e = SignalCheck(s, 18, 21, pending)
      BY RegistersTable
    <3>2. 18 \in 1..Len(s) /\ 21 \in 1..Len(s) /\ 18 # 21
      BY <2>2
    <3>3. Signalled(s, 18, 21, pending, SignalCheck(s, 18, 21, pending))
      BY <1>4, <3>2, SignalFacts
    <3> QED
      BY <3>1, <3>3
  <2> HIDE DEF e
  <2>4. IsSeq(e) /\ Len(e) = 22 /\ e[19] = s[19] /\ e[22] = s[22] /\ e[6] = s[6]
    BY <2>2, <2>3 DEF Signalled
  <2>5. UserFrame(e, 0) /\ Len(e) >= 22
    BY <2>1, <2>4, RegistersTable DEF UserFrame
  <2> QED
    BY <1>1, <1>5, <1>7, <2>1, <2>4, <2>5, IretqStep
<1>8. CASE at = "irq_handler" /\ s[registers_slot["cs"]] # USER_CS /\ Iretq(s)
  <2>1. PICK inner \in Interruptible : Interrupted(inner, current, st)
    BY <1>6, <1>8, IrqFacts
  <2>2. Len(s) - 22 = Len(st) - 23
    BY <1>2, <1>4
  <2>3. /\ Entered(inner, current, Drop(s, 22))
        /\ \A r \in Registers :
            s[registers_slot[r]] = InCode(inner, current, Len(s) - 22, Const("0"))[r]
    BY <1>4, <2>1, <2>2 DEF Interrupted
  <2> QED
    BY <1>1, <1>4, <1>5, <1>8, <2>3, IretqStep
<1>9. CASE at = "exception_handler" /\ Iretq(s)
  <2>1. current \in live /\ UserFrame(s, 0)
    BY <1>4, <1>9, HereFacts
  <2> QED
    BY <1>1, <1>4, <1>5, <1>9, <2>1, IretqStep
<1> QED
    BY <1>1, <1>7, <1>8, <1>9

LEMMA Int128ReturnStep ==
    ASSUME CInv, Int128Return
    PROVE  CInv'
<1> DEFINE s == Drop(stack[current], 1)
           e == Updated(s, 15, Const("result"))
<1>1. /\ at = "int128_handler" /\ Iretq(e)
      /\ UNCHANGED <<live, current, fpu_raw, entries, in_service>>
  <2>1. 112 \div 8 + 1 = 15
    OBVIOUS
  <2>2. Iretq([s EXCEPT ![112 \div 8 + 1] = Const("result")])
    BY DEF Int128Return
  <2> QED
    BY <2>1, <2>2 DEF Int128Return, Updated
<1>2. /\ IsSeq(stack[current]) /\ UserFrame(stack[current], 1) /\ current \in live
    BY <1>1, HereFacts
<1>3. IsSeq(s) /\ UserFrame(s, 0)
  <2>1. Len(stack[current]) >= 23
    BY <1>2 DEF UserFrame
  <2> QED
    BY <1>2, <2>1, TopFacts
<1> HIDE DEF s
<1>4. Len(s) = 22 /\ 15 \in 1..Len(s)
    BY <1>3 DEF UserFrame
<1>5. Stored(s, 15, Const("result"), e)
    BY <1>3, <1>4, UpdatedFacts
<1> HIDE DEF e
<1>6. IsSeq(e) /\ Len(e) = 22 /\ e[19] = s[19] /\ e[22] = s[22] /\ e[6] = s[6]
    BY <1>4, <1>5 DEF Stored
<1>7. UserFrame(e, 0) /\ Len(e) >= 22
    BY <1>3, <1>6, RegistersTable DEF UserFrame
<1>8. ~in_service'
    BY <1>1 DEF CInv
<1> QED
    BY <1>1, <1>2, <1>6, <1>7, <1>8, IretqStep

LEMMA RetFromForkStep ==
    ASSUME CInv, RetFromFork
    PROVE  CInv'
<1>1. /\ at = "ret_from_fork" /\ Iretq(stack[current])
      /\ UNCHANGED <<live, current, fpu_raw, entries, in_service>>
    BY DEF RetFromFork
<1>2. UserFrame(stack[current], 0) /\ current \in live /\ IsSeq(stack[current])
    BY <1>1, HereFacts DEF CInv, Here
<1>3. Len(stack[current]) >= 22
    BY <1>2 DEF UserFrame
<1>4. ~in_service'
    BY <1>1 DEF CInv
<1> QED
    BY <1>1, <1>2, <1>3, <1>4, IretqStep

LEMMA AcknowledgeStep ==
    ASSUME CInv, Acknowledge
    PROVE  CInv'
BY DEF CInv, Acknowledge, Types, Here, Elsewhere, KernelStateKept, entries

LEMMA IdleStep ==
    ASSUME CInv, Idle
    PROVE  CInv'
<1>1. /\ at = "kinit" /\ Called("kernel_idle_loop", Kernel, <<>>)
      /\ UNCHANGED <<live, current, fpu_raw, entries, in_service>>
    BY DEF Idle
<1>2. current = Kernel /\ ~in_service'
    BY <1>1, HereFacts DEF CInv
<1>3. ASSUME NEW below, below[1] = Code("kernel_idle_loop"), Len(below) = 1 + Len(<<>>)
      PROVE  OnStack("kernel_idle_loop", current, below)
  <2>1. Len(below) = 1 /\ Len(below) # 0
    BY <1>3, EmptyIsSeq
  <2>2. below # <<>>
    BY <2>1, NonEmpty
  <2> QED
    BY <1>2, <1>3, <2>1, <2>2 DEF OnStack, Entered
<1> DEFINE e == <<>>
<1>4. IsSeq(e) /\ Called("kernel_idle_loop", current, e)
      /\ \A below : below[1] = Code("kernel_idle_loop") /\ Len(below) = 1 + Len(e)
            => OnStack("kernel_idle_loop", current, below)
    BY <1>1, <1>2, <1>3, EmptyIsSeq
<1> HIDE DEF e
<1> QED
    BY <1>1, <1>2, <1>4, CalledStep

LEMMA SchedStep ==
    ASSUME CInv, NEW q \in live \cup {Kernel}, Sched(q)
    PROVE  CInv'
<1> DEFINE s == stack[current]
           p == Pushed(SwitchPushes, cpu, <<Code("sched")>> \o s)
<1>1. /\ at \in {"irq_handler", "syscall_handler", "kinit"} /\ q # current
      /\ at = "irq_handler" => ~in_service
      /\ Switch(q, p, cpu["fpu"]) /\ UNCHANGED <<live, in_service>>
    BY DEF Sched
<1>2. IsSeq(s) /\ Len(s) \in Nat
    BY HereFacts
<1>3. OnStack(at, current, s) /\ cpu = InCode(at, current, Len(s), cpu["fpu"])
    BY <1>1 DEF CInv, Here, KernelStateKept
<1>4. /\ IsSeq(p) /\ Len(p) = 7 + Len(s) /\ p[7] = Code("sched") /\ Drop(p, 7) = s
      /\ \A r \in DOMAIN SwitchSlot : p[SwitchSlot[r]] = cpu[r]
    BY <1>2, SwitchFacts
<1> HIDE DEF p
<1>5. \A r \in DOMAIN SwitchSlot : cpu[r] = <<at, current, r>>
  <2> DEFINE c == InCode(at, current, Len(s), cpu["fpu"])
  <2>1. \A r \in DOMAIN SwitchSlot : c[r] = <<at, current, r>>
    BY InCodeFacts
  <2>2. cpu = c
    BY <1>3
  <2> HIDE DEF c
  <2> QED
    BY <2>1, <2>2
<1>6. Len(s) > 0
  <2>1. ASSUME at = "syscall_handler"
        PROVE  Len(s) > 0
    <3>1. Len(s) = 17
      BY <2>1, HereFacts
    <3> QED
      BY <3>1
  <2>2. ASSUME at = "kinit"
        PROVE  Len(s) > 0
    <3>1. Len(s) = 1
      BY <2>2, HereFacts
    <3> QED
      BY <3>1
  <2>3. ASSUME at = "irq_handler"
        PROVE  Len(s) > 0
    <3>1. Len(s) >= 23
      BY <2>3, IrqFacts
    <3> QED
      BY <1>2, <3>1
  <2> QED
    BY <1>1, <2>1, <2>2, <2>3
<1>7. SwitchedOut(current, p)
  <2>1. Len(p) > 7
    BY <1>2, <1>4, <1>6
  <2> QED
    BY <1>1, <1>3, <1>4, <1>5, <2>1 DEF SwitchedOut
<1>8. ~in_service'
    BY <1>1 DEF CInv
<1>9. live' \subseteq live /\ q \in live' \cup {Kernel}
    BY <1>1
<1> QED
    BY <1>1, <1>4, <1>7, <1>8, <1>9, SwitchStep

LEMMA ExitStep ==
    ASSUME CInv, NEW q \in live \cup {Kernel}, Exit(q)
    PROVE  CInv'
<1> DEFINE e == <<>>
<1>1. /\ current # Kernel /\ UNCHANGED in_service
      /\ at \in Handlers \ {"int128_handler"} /\ (at = "irq_handler" => ~in_service)
      /\ q # current /\ live' = live \ {current}
      /\ Switch(q, e, Const("fpu_default_image"))
    BY DEF Exit
<1>2. IsSeq(e)
    BY EmptyIsSeq
<1> HIDE DEF e
<1>3. ~in_service'
    BY <1>1 DEF CInv
<1>4. live' \subseteq live /\ q \in live' \cup {Kernel} /\ current \notin live' \cup {Kernel}
    BY <1>1
<1> QED
    BY <1>1, <1>2, <1>3, <1>4, SwitchStep

LEMMA CallStep ==
    ASSUME CInv, Call
    PROVE  CInv'
<1>1. /\ at = "syscall_handler" /\ SyscallReturn(stack, pending, handler)
      /\ UNCHANGED <<live, fpu_raw>>
    BY DEF Call
<1>2. Types /\ current \in live
    BY <1>1, HereFacts DEF CInv
<1> QED
    BY <1>1, <1>2, SysretStep DEF Types

LEMMA SendStep ==
    ASSUME CInv, NEW t \in Task, Send(t)
    PROVE  CInv'
<1>1. /\ at = "syscall_handler" /\ SyscallReturn(stack, pending \cup {t}, handler)
      /\ UNCHANGED <<live, fpu_raw>>
    BY DEF Send
<1>2. Types /\ current \in live
    BY <1>1, HereFacts DEF CInv
<1> QED
    BY <1>1, <1>2, SysretStep DEF Types

LEMMA KillStep ==
    ASSUME CInv, NEW t \in Task, Kill(t)
    PROVE  CInv'
<1> DEFINE others == [stack EXCEPT ![t] = <<>>]
<1>1. /\ at = "syscall_handler" /\ SyscallReturn(others, pending \ {t}, handler \ {t})
      /\ t # current /\ live' = live \ {t}
      /\ fpu_raw' = [fpu_raw EXCEPT ![t] = Const("fpu_default_image")]
    BY DEF Kill
<1>2. Types /\ current \in live /\ t \in Owners /\ t # Kernel
    BY <1>1, HereFacts, RegistersAssumption DEF CInv, Owners
<1>3. /\ others = [u \in Owners |-> others[u]] /\ others[t] = <<>>
      /\ \A u \in Owners : u # t => others[u] = stack[u]
    BY <1>2 DEF Types
<1> HIDE DEF others
<1>4. \A u \in Owners : IsSeq(others[u])
    BY <1>2, <1>3, EmptyIsSeq DEF Types
<1>5. DOMAIN fpu_raw' = Owners /\ fpu_raw' = [u \in Owners |-> fpu_raw'[u]]
    BY <1>1, <1>2 DEF Types
<1>6. \A u \in (live' \cup {Kernel}) \ {current} : u \in live \cup {Kernel} /\ others[u] = stack[u]
    BY <1>1, <1>2, <1>3 DEF Types, Owners
<1>7. live' \subseteq Task /\ current \in live'
    BY <1>1, <1>2 DEF Types
<1> QED
    BY <1>1, <1>3, <1>4, <1>5, <1>6, <1>7, SysretStep

\* A call makes a task, with the frame new on its stack.
LEMMA NewStep ==
    ASSUME CInv, at = "syscall_handler", NEW t \in Task \ live, live' = live \cup {t},
           NEW new, Fresh(t, new), IsSeq(new), NEW p, NEW h,
           SyscallReturn([stack EXCEPT ![t] = new], p, h),
           DOMAIN fpu_raw' = Owners, fpu_raw' = [u \in Owners |-> fpu_raw'[u]]
    PROVE  CInv'
<1> DEFINE others == [stack EXCEPT ![t] = new]
<1>1. SyscallReturn(others, p, h)
    OBVIOUS
<1>2. Types /\ current \in live /\ t \in Owners /\ t # Kernel
    BY HereFacts, RegistersAssumption DEF CInv, Owners
<1>3. /\ others = [u \in Owners |-> others[u]] /\ others[t] = new
      /\ \A u \in Owners : u # t => others[u] = stack[u]
    BY <1>2 DEF Types
<1> HIDE DEF others
<1>4. \A u \in Owners : IsSeq(others[u])
    BY <1>2, <1>3 DEF Types
<1>5. \A u \in (live' \cup {Kernel}) \ {current} :
        Fresh(u, others[u]) \/ (u \in live \cup {Kernel} /\ others[u] = stack[u])
    BY <1>2, <1>3 DEF Types, Owners
<1>6. live' \subseteq Task /\ current \in live'
    BY <1>2 DEF Types
<1> QED
    BY <1>1, <1>3, <1>4, <1>5, <1>6, SysretStep

LEMMA ForkStep ==
    ASSUME CInv, NEW t \in Task, Fork(t)
    PROVE  CInv'
<1> DEFINE d == Drop(stack[current], 1)
           new == KernelFrame(ForkContext(d))
           h == IF current \in handler THEN handler \cup {t} ELSE handler
<1>1. /\ at = "syscall_handler" /\ t \notin live /\ live' = live \cup {t}
      /\ fpu_raw' = [fpu_raw EXCEPT ![current] = cpu["fpu"], ![t] = cpu["fpu"]]
      /\ SyscallReturn([stack EXCEPT ![t] = new], pending, h)
    BY DEF Fork
<1>2. d[5] # Code("syscall_handler")
  <2>1. IsSeq(stack[current]) /\ Len(stack[current]) = 17
        /\ stack[current][6] # Code("syscall_handler")
    BY <1>1, HereFacts
  <2>2. 1 \in Nat /\ 1 <= Len(stack[current]) /\ 5 \in 1..(Len(stack[current]) - 1)
    BY <2>1
  <2>3. Under(stack[current], 1, d)
    BY <2>1, <2>2, DropFacts
  <2>4. d[5] = stack[current][1 + 5]
    BY <2>2, <2>3 DEF Under
  <2> QED
    BY <2>1, <2>4
<1> HIDE DEF d
<1>3. Fresh(t, new) /\ IsSeq(new)
    BY <1>2, FreshFork
<1> HIDE DEF new, h
<1>4. DOMAIN fpu_raw' = Owners /\ fpu_raw' = [u \in Owners |-> fpu_raw'[u]]
    BY <1>1 DEF CInv, Types
<1> QED
    BY <1>1, <1>3, <1>4, NewStep

LEMMA SpawnStep ==
    ASSUME CInv, NEW t \in Task, Spawn(t)
    PROVE  CInv'
<1> DEFINE new == KernelFrame(ImageContext)
<1>1. PICK more \in SUBSET {t} : SyscallReturn([stack EXCEPT ![t] = new], pending, handler \cup more)
    BY DEF Spawn
<1>2. /\ at = "syscall_handler" /\ t \notin live /\ live' = live \cup {t}
      /\ fpu_raw' = [fpu_raw EXCEPT ![t] = Const("fpu_default_image")]
    BY DEF Spawn, NewTask
<1>3. Fresh(t, new) /\ IsSeq(new)
    BY FreshImage
<1> HIDE DEF new
<1>4. DOMAIN fpu_raw' = Owners /\ fpu_raw' = [u \in Owners |-> fpu_raw'[u]]
    BY <1>2 DEF CInv, Types
<1> QED
    BY <1>1, <1>2, <1>3, <1>4, NewStep

LEMMA ExecStep ==
    ASSUME CInv, Exec
    PROVE  CInv'
<1>1. /\ at = "syscall_handler" /\ at' = "ret_from_fork"
      /\ fpu_raw' = [fpu_raw EXCEPT ![current] = Const("fpu_default_image")]
      /\ rsp0' = current /\ syscall_kernel_rsp' = current
      /\ stack' = [stack EXCEPT ![current] = ImageContext]
      /\ cpu' = [cpu EXCEPT !["fpu"] = fpu_raw'[current]]
      /\ UNCHANGED <<live, current, in_service>>
    BY DEF Exec
<1>2. Types /\ current \in live /\ current \in Owners
    BY <1>1, HereFacts DEF CInv
<1>3. /\ IsSeq(ImageContext) /\ UserFrame(ImageContext, 0)
  <2>1. /\ registers_slot["cs"] = 19 /\ registers_slot["ss"] = 22 /\ registers_slot["r10"] = 6
    BY RegistersTable
  <2> QED
    BY <2>1, ImageFacts, ImageFrame DEF UserFrame
<1>4. /\ stack'[current] = ImageContext /\ \A t \in Owners : t # current => stack'[t] = stack[t]
      /\ stack' = [t \in Owners |-> stack'[t]]
    BY <1>1, <1>2 DEF Types
<1>5. /\ DOMAIN fpu_raw' = Owners /\ fpu_raw' = [t \in Owners |-> fpu_raw'[t]]
    BY <1>1, <1>2 DEF Types
<1>6. cpu' = [r \in Names |-> cpu'[r]] /\ DOMAIN cpu' = Names
    BY <1>1, <1>2 DEF Types
<1>7. Types'
    BY <1>1, <1>2, <1>3, <1>4, <1>5, <1>6 DEF Types
<1>8. Here' /\ KernelStateKept'
    BY <1>1, <1>2, <1>3, <1>4 DEF Here, KernelStateKept
<1>9. Elsewhere'
    BY <1>1, <1>2, <1>4, ElsewhereStep DEF Types, Owners
<1>10. ~in_service'
    BY <1>1 DEF CInv
<1> QED
    BY <1>7, <1>8, <1>9, <1>10 DEF CInv

LEMMA CInvStep == CInv /\ [Next]_vars => CInv'
<1> SUFFICES ASSUME CInv, [Next]_vars
             PROVE  CInv'
    OBVIOUS
<1>1. CASE UNCHANGED vars
    BY <1>1 DEF vars, entries, signals, CInv, Types, Here, Elsewhere, KernelStateKept
<1>2. CASE Compute
    BY <1>2, ComputeStep
<1>3. CASE SyscallEntry
    BY <1>3, SyscallEntryStep
<1>4. CASE InterruptReturn
    BY <1>4, InterruptReturnStep
<1>5. CASE Int128Return
    BY <1>5, Int128ReturnStep
<1>6. CASE Call
    BY <1>6, CallStep
<1>7. CASE Acknowledge
    BY <1>7, AcknowledgeStep
<1>8. CASE RetFromFork
    BY <1>8, RetFromForkStep
<1>9. CASE Idle
    BY <1>9, IdleStep
<1>10. CASE Exec
    BY <1>10, ExecStep
<1>11. ASSUME NEW name \in Handlers \ {"syscall_handler"}, Interrupt(name)
       PROVE  CInv'
    BY <1>11, InterruptStep
<1>12. ASSUME NEW q \in live \cup {Kernel}, Sched(q) \/ Exit(q)
       PROVE  CInv'
    BY <1>12, SchedStep, ExitStep
<1>13. ASSUME NEW t \in Task, Fork(t) \/ Spawn(t) \/ Send(t) \/ Kill(t)
       PROVE  CInv'
    BY <1>13, ForkStep, SpawnStep, SendStep, KillStep
<1> QED
    BY <1>1, <1>2, <1>3, <1>4, <1>5, <1>6, <1>7, <1>8, <1>9, <1>10, <1>11, <1>12, <1>13
       DEF Next

\* What lies on every stack, and where the current task is, in every
\* reachable state: a trap leaves a registers_t or a syscall_ctx_t and the
\* place of a C function on top of it, sched its six registers, fork, spawn
\* and exec a frame for ret_from_fork.
THEOREM ContextInvariant == Spec => []CInv
<1>1. Init => CInv
    BY CInvInit
<1>2. CInv /\ [Next]_vars => CInv'
    BY CInvStep
<1> QED
    BY <1>1, <1>2, PTL DEF Spec

\* The C code of the kernel finds its registers, its place in the code and
\* its stack as it left them (cpu_switch_context, the stubs of isr.asm and
\* sysentry.asm), for any number of tasks.
THEOREM KernelStateSound == Spec => []KernelStateKept
<1>1. CInv => KernelStateKept
    BY DEF CInv
<1> QED
    BY <1>1, ContextInvariant, PTL

\* No program runs, and the kernel does not idle, while the local APIC still
\* waits for the end of an interrupt: apic_eoi comes before sched.
THEOREM InterruptsAnswered == Spec => []InterruptsHeard
<1>1. CInv => InterruptsHeard
    BY DEF CInv, InterruptsHeard
<1> QED
    BY <1>1, ContextInvariant, PTL

-----------------------------------------------------------------------------
(***************************************************************************)
(* What the program of a task sees.                                        *)
(***************************************************************************)
\* The registers of a program that has s on its kernel stack.
Held(s, fpu) == [r \in Names |-> IF r # "fpu" THEN Saved(r, s) ELSE fpu]

\* Enough of a stack to hold them.
Deep(s) == InSyscall(s) \/ Len(s) >= 22

Seen == [t \in Task |-> IF t \in live THEN UserFile(t) ELSE <<>>]

LEMMA FileIsHeld ==
    ASSUME NEW t
    PROVE  UserFile(t) = IF t = current /\ at = "user" THEN cpu
                         ELSE Held(stack[t], IF t = current THEN cpu["fpu"] ELSE fpu_raw[t])
BY DEF UserFile, Held

LEMMA HeldFrame ==
    ASSUME NEW s, IsSeq(s), NEW k \in Nat, UserFrame(s, k), NEW f
    PROVE  Held(s, f) = [r \in Names |-> IF r # "fpu" THEN s[k + registers_slot[r]] ELSE f]
<1>1. Len(s) = k + 22 /\ s[k + 6] # Code("syscall_handler")
    BY RegistersTable DEF UserFrame
<1>2. Len(s) - 16 = k + 6 /\ Len(s) - 22 = k /\ k <= Len(s)
    BY <1>1
<1>3. ~InSyscall(s)
    BY <1>1, <1>2 DEF InSyscall
<1>4. Under(s, k, Drop(s, k))
    BY <1>2, DropFacts
<1>5. \A i \in 1..22 : Drop(s, k)[i] = s[k + i]
  <2>1. \A i \in 1..22 : i \in 1..(Len(s) - k)
    BY <1>1
  <2> QED
    BY <1>4, <2>1 DEF Under
<1>6. \A r \in Registers : Saved(r, s) = s[k + registers_slot[r]]
    BY <1>2, <1>3, <1>5, FrameSlots DEF Saved
<1> QED
    BY <1>6 DEF Held, Registers

\* The registers in a syscall_ctx_t below its handler.
CallFile(s, f) ==
    [r \in Names |->
        CASE r = "fpu" -> f
          [] r = "rip" -> s[9]
          [] r = "rflags" -> s[10]
          [] r = "cs" -> USER_CS
          [] r = "ss" -> USER_SS
          [] OTHER -> s[1 + SavedSlot[r]]]

LEMMA HeldCall ==
    ASSUME NEW s, IsSeq(s), Len(s) = 17, s[1] = Code("syscall_handler"), NEW f
    PROVE  Held(s, f) = CallFile(s, f)
<1>1. InSyscall(s) /\ Len(s) - 16 = 1
  <2>1. Len(s) > 16 /\ Len(s) - 16 = 1
    OBVIOUS
  <2> QED
    BY <2>1 DEF InSyscall
<1>2. 1 \in Nat /\ 1 <= Len(s)
    OBVIOUS
<1>3. Under(s, 1, Drop(s, 1))
    BY <1>2, DropFacts
<1>4. \A i \in 1..16 : Drop(s, 1)[i] = s[1 + i]
  <2>1. \A i \in 1..16 : i \in 1..(Len(s) - 1)
    OBVIOUS
  <2> QED
    BY <1>3, <2>1 DEF Under
<1>5. \A r \in Registers :
        Saved(r, s) = CASE r = "rip" -> Drop(s, 1)[8]
                        [] r = "rflags" -> Drop(s, 1)[9]
                        [] r = "cs" -> USER_CS
                        [] r = "ss" -> USER_SS
                        [] OTHER -> Drop(s, 1)[SavedSlot[r]]
    BY <1>1, SyscallTable DEF Saved
<1>6. \A r \in Registers \ {"rip", "rflags", "cs", "ss"} : SavedSlot[r] \in 1..16
    BY SavedTable, PopsTable DEF Registers, Names, General
<1>7. Drop(s, 1)[8] = s[9] /\ Drop(s, 1)[9] = s[10]
  <2>1. Drop(s, 1)[8] = s[1 + 8] /\ Drop(s, 1)[9] = s[1 + 9]
    BY <1>4
  <2> QED
    BY <2>1
<1>8. \A r \in Registers \ {"rip", "rflags", "cs", "ss"} :
        Drop(s, 1)[SavedSlot[r]] = s[1 + SavedSlot[r]]
    BY <1>4, <1>6
<1>9. ASSUME NEW r \in Registers
      PROVE  Saved(r, s) = CASE r = "rip" -> s[9]
                             [] r = "rflags" -> s[10]
                             [] r = "cs" -> USER_CS
                             [] r = "ss" -> USER_SS
                             [] OTHER -> s[1 + SavedSlot[r]]
    BY <1>5, <1>7, <1>8
<1> QED
    BY <1>9 DEF Held, Registers, CallFile

\* Nothing the kernel puts on top changes them.
LEMMA HeldUnder ==
    ASSUME NEW y, IsSeq(y), NEW n \in Nat, n <= Len(y), NEW s, s = Drop(y, n), Deep(s), NEW f
    PROVE  Held(y, f) = Held(s, f) /\ Deep(y)
<1>1. Len(y) \in Nat
    BY DEF IsSeq
<1>2. Under(y, n, s)
    BY DropFacts
<1>3. IsSeq(s) /\ Len(s) = Len(y) - n /\ Len(s) \in Nat
    BY <1>1, <1>2 DEF Under
<1>4. Len(s) > 16
    BY <1>3 DEF Deep, InSyscall
<1>5. s[Len(s) - 16] = y[Len(y) - 16]
  <2>1. Len(s) - 16 \in 1..(Len(y) - n) /\ n + (Len(s) - 16) = Len(y) - 16
    BY <1>1, <1>3, <1>4
  <2> QED
    BY <1>2, <2>1 DEF Under
<1>6. InSyscall(s) <=> InSyscall(y)
    BY <1>1, <1>3, <1>4, <1>5 DEF InSyscall
<1>7. Drop(s, Len(s) - 16) = Drop(y, Len(y) - 16)
  <2>1. Len(s) - 16 \in Nat /\ n + (Len(s) - 16) <= Len(y) /\ n + (Len(s) - 16) = Len(y) - 16
    BY <1>1, <1>3, <1>4
  <2>2. Drop(Drop(y, n), Len(s) - 16) = Drop(y, n + (Len(s) - 16))
    BY <2>1, DropTwice
  <2> QED
    BY <2>1, <2>2
<1>8. Len(s) >= 22 => Drop(s, Len(s) - 22) = Drop(y, Len(y) - 22)
  <2> SUFFICES ASSUME Len(s) >= 22
               PROVE  Drop(s, Len(s) - 22) = Drop(y, Len(y) - 22)
    OBVIOUS
  <2>1. Len(s) - 22 \in Nat /\ n + (Len(s) - 22) <= Len(y) /\ n + (Len(s) - 22) = Len(y) - 22
    BY <1>1, <1>3
  <2>2. Drop(Drop(y, n), Len(s) - 22) = Drop(y, n + (Len(s) - 22))
    BY <2>1, DropTwice
  <2> QED
    BY <2>1, <2>2
<1>9. \A r \in Registers : Saved(r, y) = Saved(r, s)
  <2>1. CASE InSyscall(s)
    BY <1>6, <1>7, <2>1 DEF Saved
  <2>2. CASE ~InSyscall(s) /\ Len(s) >= 22
    BY <1>6, <1>8, <2>2 DEF Saved
  <2> QED
    BY <2>1, <2>2 DEF Deep
<1>10. Deep(y)
    BY <1>1, <1>3, <1>6 DEF Deep
<1> QED
    BY <1>9, <1>10 DEF Held, Registers

\* The stack of a program in the kernel is deep enough.
LEMMA EnteredDeep ==
    ASSUME NEW name, NEW t \in Task, NEW s, IsSeq(s), Entered(name, t, s)
    PROVE  Deep(s)
<1>1. t # Kernel
    BY RegistersAssumption
<1>2. CASE name = "syscall_handler" /\ UserCall(s)
  <2>1. Len(s) = 17 /\ s[1] = Code("syscall_handler")
    BY <1>2 DEF Entered, UserCall
  <2>2. Len(s) > 16 /\ Len(s) - 16 = 1
    BY <2>1
  <2> QED
    BY <2>1, <2>2 DEF Deep, InSyscall
<1>3. CASE UserFrame(s, 1)
  <2>1. Len(s) >= 22
    BY <1>3 DEF UserFrame
  <2> QED
    BY <2>1 DEF Deep
<1> QED
    BY <1>1, <1>2, <1>3 DEF Entered

LEMMA OnStackDeep ==
    ASSUME NEW name, NEW t \in Task, NEW s, IsSeq(s), OnStack(name, t, s)
    PROVE  Deep(s)
<1>1. CASE Entered(name, t, s)
    BY <1>1, EnteredDeep
<1>2. CASE UserFrame(s, 1)
  <2>1. Len(s) >= 22
    BY <1>2 DEF UserFrame
  <2> QED
    BY <2>1 DEF Deep
<1>3. CASE \E inner \in Interruptible : Interrupted(inner, t, s)
  <2>1. Len(s) > 23 /\ Len(s) \in Nat
    BY <1>3 DEF Interrupted, IsSeq
  <2>2. Len(s) >= 22
    BY <2>1
  <2> QED
    BY <2>2 DEF Deep
<1> QED
    BY <1>1, <1>2, <1>3 DEF OnStack

\* What sched has left is as deep as what it found.
LEMMA RestDeep ==
    ASSUME NEW t \in Task, NEW s, IsSeq(s), Fresh(t, s) \/ SwitchedOut(t, s)
    PROVE  Len(s) >= 7 /\ Deep(Drop(s, 7))
<1>1. Len(s) \in Nat
    BY DEF IsSeq
<1>2. Len(s) >= 7
    BY <1>1 DEF Fresh, UserFrame, SwitchedOut
<1>3. IsSeq(Drop(s, 7)) /\ Len(Drop(s, 7)) = Len(s) - 7
  <2>1. Under(s, 7, Drop(s, 7))
    BY <1>1, <1>2, DropFacts
  <2> QED
    BY <2>1 DEF Under
<1>4. CASE Fresh(t, s)
  <2>1. Len(s) = 29
    BY <1>4 DEF Fresh, UserFrame
  <2>2. Len(s) - 7 >= 22
    BY <2>1
  <2>3. Len(Drop(s, 7)) >= 22
    BY <1>3, <2>2
  <2> QED
    BY <1>2, <2>3 DEF Deep
<1>5. CASE SwitchedOut(t, s)
    BY <1>2, <1>3, <1>5, OnStackDeep DEF SwitchedOut
<1> QED
    BY <1>4, <1>5

\* A task made of a program starts with its registers.
LEMMA HeldImage ==
    /\ Held(KernelFrame(ImageContext), Const("fpu_default_image")) = ImageFile
    /\ Held(ImageContext, Const("fpu_default_image")) = ImageFile
<1> DEFINE k == KernelFrame(ImageContext)
           f == Const("fpu_default_image")
<1>1. /\ IsSeq(ImageContext) /\ Len(ImageContext) = 22
      /\ \A r \in Registers : ImageContext[registers_slot[r]] = ImageFile[r]
    BY ImageFacts
<1>2. /\ ImageContext[19] = USER_CS /\ ImageContext[22] = USER_SS
      /\ ImageContext[6] # Code("syscall_handler")
    BY ImageFrame, RegistersTable
<1>3. UserFrame(ImageContext, 0)
    BY <1>1, <1>2, RegistersTable DEF UserFrame
<1>4. IsSeq(k) /\ Len(k) = 29 /\ \A i \in 1..22 : k[7 + i] = ImageContext[i]
    BY <1>1, KernelFrameFacts
<1> HIDE DEF k
<1>5. UserFrame(k, 7)
  <2>1. /\ k[7 + 19] = ImageContext[19] /\ k[7 + 22] = ImageContext[22]
        /\ k[7 + 6] = ImageContext[6] /\ Len(k) = 7 + 22
    BY <1>4
  <2> QED
    BY <1>2, <2>1, RegistersTable DEF UserFrame
<1>6. ImageFile["fpu"] = f /\ ImageFile = [r \in Names |-> ImageFile[r]]
    BY DEF ImageFile, File, Names
<1> HIDE DEF f
<1>7. Held(ImageContext, f) = ImageFile
  <2>1. Held(ImageContext, f) =
            [r \in Names |-> IF r # "fpu" THEN ImageContext[0 + registers_slot[r]] ELSE f]
    BY <1>1, <1>3, HeldFrame
  <2>2. \A r \in Registers : 0 + registers_slot[r] = registers_slot[r]
    BY FrameSlots
  <2>3. \A r \in Names : Held(ImageContext, f)[r] = ImageFile[r]
    BY <1>1, <1>6, <2>1, <2>2 DEF Registers
  <2> QED
    BY <1>6, <2>1, <2>3
<1>8. Held(k, f) = ImageFile
  <2>1. Held(k, f) = [r \in Names |-> IF r # "fpu" THEN k[7 + registers_slot[r]] ELSE f]
    BY <1>4, <1>5, HeldFrame
  <2>2. \A r \in Registers : k[7 + registers_slot[r]] = ImageFile[r]
    BY <1>1, <1>4, FrameSlots
  <2>3. \A r \in Names : Held(k, f)[r] = ImageFile[r]
    BY <1>6, <2>1, <2>2 DEF Registers
  <2> QED
    BY <1>6, <2>1, <2>3
<1> QED
    BY <1>7, <1>8 DEF k, f

LEMMA FilesPresent ==
    ASSUME Types
    PROVE  \A t : UserFile(t) # <<>> /\ UserFile(t) = [r \in Names |-> UserFile(t)[r]]
<1> TAKE t
<1>1. UserFile(t) = [r \in Names |-> UserFile(t)[r]] /\ DOMAIN UserFile(t) = Names
  <2>1. CASE t = current /\ at = "user"
    BY <2>1, FileIsHeld DEF Types
  <2>2. CASE ~(t = current /\ at = "user")
    BY <2>2, FileIsHeld DEF Held
  <2> QED
    BY <2>1, <2>2
<1>2. "rax" \in Names /\ "rax" \notin DOMAIN <<>>
    BY DEF Names, General
<1> QED
    BY <1>1, <1>2

\* The tasks of the abstract specification, and of the code.
LEMMA PresentIsLive ==
    ASSUME Types
    PROVE  /\ User!Present = live
           /\ \A t \in live : Seen[t] = UserFile(t)
           /\ Seen = [t \in Task |-> Seen[t]]
<1>1. \A t \in Task : Seen[t] # <<>> <=> t \in live
    BY FilesPresent DEF Seen
<1>2. User!Present = {t \in Task : Seen[t] # <<>>}
    BY DEF User!Present, User!Absent, Seen
<1>3. live \subseteq Task
    BY DEF Types
<1>4. \A t \in live : Seen[t] = UserFile(t)
    BY <1>3 DEF Seen
<1>5. Seen = [t \in Task |-> Seen[t]]
    BY DEF Seen
<1>6. \A t : t \in User!Present <=> t \in live
    BY <1>1, <1>2, <1>3
<1> QED
    BY <1>4, <1>5, <1>6

\* No program notices a step that keeps the registers of each.
LEMMA Unseen ==
    ASSUME live' = live, live \subseteq Task, \A t \in live : UserFile(t)' = UserFile(t)
    PROVE  Seen' = Seen
BY DEF Seen

\* A step that changes the registers of one.
LEMMA SeenOne ==
    ASSUME live' = live, live \subseteq Task, NEW u \in live,
           NEW file, UserFile(u)' = file,
           \A t \in live : t # u => UserFile(t)' = UserFile(t)
    PROVE  Seen' = [Seen EXCEPT ![u] = file]
BY DEF Seen

\* The registers of the others stay where they are.
LEMMA OthersKept ==
    ASSUME current' = current, NEW t, t # current, stack'[t] = stack[t], fpu_raw'[t] = fpu_raw[t]
    PROVE  UserFile(t)' = UserFile(t)
BY FileIsHeld DEF UserFile

\* The names of the abstract specification mean the same.
LEMMA UserNames ==
    /\ User!Names = Names /\ User!Absent = <<>>
    /\ \A name : User!Const(name) = Const(name)
    /\ \A v : User!UserFlags(v) = UserFlags(v) /\ User!SignalFrame(v) = SignalFrame(v)
    /\ \A t : User!Own(t) = Own(t)
    /\ User!ImageFile = ImageFile
<1>1. User!Names = Names
    BY DEF User!Names, User!General, Names, General
<1>2. User!Absent = <<>>
    BY DEF User!Absent
<1>3. \A name : User!Const(name) = Const(name)
    BY DEF User!Const, Const
<1>4. \A v : User!UserFlags(v) = UserFlags(v) /\ User!SignalFrame(v) = SignalFrame(v)
    BY DEF User!UserFlags, UserFlags, User!SignalFrame, SignalFrame
<1>5. \A cs, ss, value : User!File(cs, ss, value) = File(cs, ss, value)
    BY <1>1 DEF User!File, File
<1>6. User!USER_CS = USER_CS /\ User!USER_SS = USER_SS
    BY DEF User!USER_CS, User!USER_SS, USER_CS, USER_SS
<1>7. \A t : User!Own(t) = Own(t)
    BY <1>1, <1>5, <1>6 DEF User!Own, Own
<1>8. User!ImageFile = ImageFile
    BY <1>1, <1>3, <1>5, <1>6 DEF User!ImageFile, ImageFile
<1> QED
    BY <1>1, <1>2, <1>3, <1>4, <1>7, <1>8

LEMMA InitSeen ==
    ASSUME Init
    PROVE  User!Init
<1>1. PICK t \in Task :
        /\ live = {t}
        /\ stack = [u \in Owners |-> IF u = Kernel THEN <<Code("kinit")>>
                                     ELSE IF u = t THEN KernelFrame(ImageContext) ELSE <<>>]
    BY DEF Init
<1>2. /\ current = Kernel /\ fpu_raw = [u \in Owners |-> Const("fpu_default_image")]
      /\ t # Kernel /\ t \in Owners
    BY RegistersAssumption DEF Init, Owners
<1>3. stack[t] = KernelFrame(ImageContext) /\ fpu_raw[t] = Const("fpu_default_image")
    BY <1>1, <1>2
<1>4. UserFile(t) = Held(KernelFrame(ImageContext), Const("fpu_default_image"))
    BY <1>2, <1>3, FileIsHeld
<1>5. Held(KernelFrame(ImageContext), Const("fpu_default_image")) = ImageFile
    BY HeldImage
<1>6. Seen = [u \in Task |-> IF u = t THEN ImageFile ELSE <<>>]
    BY <1>1, <1>4, <1>5 DEF Seen
<1> QED
    BY <1>6, UserNames DEF User!Init, Seen

\* No task but the current one: kinit and the idle loop are the kernel's.
LEMMA KernelUnseen ==
    ASSUME Types, current = Kernel, live' = live, current' = current,
           \A t \in live : stack'[t] = stack[t], fpu_raw' = fpu_raw
    PROVE  Seen' = Seen
<1>1. live \subseteq Task /\ Kernel \notin live
    BY RegistersAssumption DEF Types
<1>2. \A t \in live : UserFile(t)' = UserFile(t)
    BY <1>1, OthersKept
<1> QED
    BY <1>1, <1>2, Unseen

\* A step of the current task that keeps its registers.
LEMMA CurrentUnseen ==
    ASSUME Types, live' = live, current' = current, fpu_raw' = fpu_raw,
           \A t \in live : t # current => stack'[t] = stack[t],
           current \in live => UserFile(current)' = UserFile(current)
    PROVE  Seen' = Seen
<1>1. live \subseteq Task
    BY DEF Types
<1>2. \A t \in live : UserFile(t)' = UserFile(t)
    BY OthersKept
<1> QED
    BY <1>1, <1>2, Unseen

\* And one that changes them to file.
LEMMA CurrentSeen ==
    ASSUME Types, current \in live, live' = live, current' = current,
           \A t \in live : t # current => stack'[t] = stack[t] /\ fpu_raw'[t] = fpu_raw[t],
           NEW file, UserFile(current)' = file
    PROVE  Seen' = [Seen EXCEPT ![current] = file] /\ Seen[current] = UserFile(current)
<1>1. live \subseteq Task
    BY DEF Types
<1>2. \A t \in live : t # current => UserFile(t)' = UserFile(t)
    BY OthersKept
<1>3. Seen' = [Seen EXCEPT ![current] = file]
    BY <1>1, <1>2, SeenOne
<1> QED
    BY <1>3, PresentIsLive

LEMMA ComputeSeen ==
    ASSUME CInv, Compute
    PROVE  current \in User!Present /\ User!Compute(current)
<1>1. /\ at = "user" /\ cpu' = Own(current)
      /\ UNCHANGED <<live, current, at, stack, fpu_raw>>
    BY DEF Compute
<1>2. Types /\ current \in live
    BY <1>1, HereFacts DEF CInv
<1>3. UserFile(current)' = Own(current)
    BY <1>1 DEF UserFile
<1>4. Seen' = [Seen EXCEPT ![current] = Own(current)]
  <2>1. \A t \in live : t # current => stack'[t] = stack[t] /\ fpu_raw'[t] = fpu_raw[t]
    BY <1>1
  <2>2. live' = live /\ current' = current
    BY <1>1
  <2> QED
    BY <1>2, <1>3, <2>1, <2>2, CurrentSeen
<1> QED
    BY <1>2, <1>4, PresentIsLive, UserNames DEF User!Compute, User!Becomes, Seen

\* What syscall_entry saves is what SYSCALL has left.
LEMMA SyscallEntrySeen ==
    ASSUME CInv, SyscallEntry
    PROVE  current \in User!Present /\ User!Call(current)
<1> DEFINE file == [cpu EXCEPT !["rcx"] = cpu["rip"], !["r11"] = cpu["rflags"]]
           s == Pushed(SyscallPushes, file, <<>>)
<1>1. /\ at = "user" /\ Called("syscall_handler", current, s)
      /\ UNCHANGED <<live, current, fpu_raw>>
    BY DEF SyscallEntry, CInv, Types
<1>2. Types /\ current \in live /\ current \in Owners /\ cpu["cs"] = USER_CS /\ cpu["ss"] = USER_SS
    BY <1>1, HereFacts DEF CInv, Here
<1>3. /\ file = [r \in Names |-> file[r]] /\ file["rcx"] = cpu["rip"] /\ file["r11"] = cpu["rflags"]
      /\ \A r \in Names : r # "rcx" /\ r # "r11" => file[r] = cpu[r]
    BY <1>2 DEF Types, Names, General
<1>4. UserFile(current) = cpu
    BY <1>1 DEF UserFile
<1>5. file = [UserFile(current) EXCEPT !["rcx"] = UserFile(current)["rip"],
                                       !["r11"] = UserFile(current)["rflags"]]
    BY <1>4
<1> HIDE DEF file
<1>6. IsSeq(s) /\ Len(s) = 16 /\ \A r \in DOMAIN SavedSlot : s[SavedSlot[r]] = file[r]
    BY SyscallFacts
<1> HIDE DEF s
<1>7a. PICK below : CalledOn("syscall_handler", current, s, below)
    BY <1>1, <1>6, CalledFacts
<1>7. /\ Joins(<<Code("syscall_handler")>>, s, below)
      /\ below[1] = Code("syscall_handler") /\ Len(below) = 1 + Len(s)
      /\ stack' = [stack EXCEPT ![current] = below]
      /\ cpu' = InCode("syscall_handler", current, Len(below), cpu["fpu"])
      /\ at' = "syscall_handler"
    BY <1>7a DEF CalledOn
<1>8. /\ stack'[current] = below /\ \A t \in Owners : t # current => stack'[t] = stack[t]
    BY <1>2, <1>7 DEF Types
<1>9. cpu'["fpu"] = cpu["fpu"]
    BY <1>7, InCodeFacts
<1>10. UserFile(current)' = Held(below, cpu["fpu"])
    BY <1>1, <1>7, <1>8, <1>9 DEF UserFile, Held
<1>11. IsSeq(below) /\ Len(below) = 17 /\ \A i \in 1..16 : below[1 + i] = s[i]
    BY <1>6, <1>7, OneSeq DEF Joins
<1>12. Held(below, cpu["fpu"]) = CallFile(below, cpu["fpu"])
    BY <1>7, <1>11, HeldCall
<1>13. \A r \in DOMAIN SavedSlot : below[1 + SavedSlot[r]] = file[r]
    BY <1>6, <1>11, SavedTable, PopsTable
<1>14. below[9] = cpu["rip"] /\ below[10] = cpu["rflags"]
  <2>1. /\ {"rcx", "r11"} \subseteq DOMAIN SavedSlot
        /\ 1 + SavedSlot["rcx"] = 9 /\ 1 + SavedSlot["r11"] = 10
    BY SavedTable, PopsTable
  <2> QED
    BY <1>3, <1>13, <2>1
<1>15. ASSUME NEW r \in Names
       PROVE  Held(below, cpu["fpu"])[r] = file[r]
  <2>1. CASE r \in {"fpu", "rip", "rflags", "cs", "ss"}
    BY <1>2, <1>3, <1>12, <1>14, <2>1 DEF CallFile
  <2>2. CASE r \notin {"fpu", "rip", "rflags", "cs", "ss"}
    <3>1. r \in DOMAIN SavedSlot
      BY <2>2, SavedTable DEF Names, General
    <3> QED
      BY <1>12, <1>13, <2>2, <3>1 DEF CallFile
  <2> QED
    BY <2>1, <2>2
<1>16. UserFile(current)' = file
    BY <1>3, <1>10, <1>12, <1>15 DEF CallFile
<1>17. Seen' = [Seen EXCEPT ![current] = file] /\ Seen[current] = UserFile(current)
  <2>1. \A t \in live : t # current => stack'[t] = stack[t] /\ fpu_raw'[t] = fpu_raw[t]
    BY <1>1, <1>2, <1>8 DEF Types, Owners
  <2>2. live' = live /\ current' = current
    BY <1>1
  <2> QED
    BY <1>2, <1>16, <2>1, <2>2, CurrentSeen
<1>18. User!Call(current)
    BY <1>5, <1>17 DEF User!Call, User!Becomes, Seen
<1> QED
    BY <1>2, <1>18, PresentIsLive

\* s holds the registers file.
Holding(s, file, fpu) ==
    /\ file = [r \in Names |-> file[r]] /\ file["fpu"] = fpu
    /\ \A r \in Registers : s[registers_slot[r]] = file[r]

\* iretq to a program: it goes on with what s holds.
LEMMA IretqSeen ==
    ASSUME CInv, current \in live, at # "user",
           live' = live, current' = current, fpu_raw' = fpu_raw,
           NEW s, IsSeq(s), Len(s) >= 22, Iretq(s), s[registers_slot["cs"]] = USER_CS,
           NEW file, Holding(s, file, cpu["fpu"])
    PROVE  Seen' = [Seen EXCEPT ![current] = file] /\ Seen[current] = UserFile(current)
<1>1. /\ cpu' = [r \in Names |-> IF r = "fpu" THEN cpu["fpu"] ELSE s[registers_slot[r]]]
      /\ at' = "user" /\ stack' = [stack EXCEPT ![current] = Drop(s, 22)]
    BY IretqFacts
<1>2. cpu' = file
    BY <1>1 DEF Registers, Holding
<1>3. UserFile(current)' = file
    BY <1>1, <1>2 DEF UserFile
<1>4. \A t \in live : t # current => stack'[t] = stack[t] /\ fpu_raw'[t] = fpu_raw[t]
    BY <1>1 DEF CInv, Types, Owners
<1>5. live' = live /\ current' = current /\ Types
    BY DEF CInv
<1> QED
    BY <1>3, <1>4, <1>5, CurrentSeen

\* The registers of a program below an interrupt, exception or int 128.
LEMMA TrapFile ==
    ASSUME CInv, at # "user", UserFrame(stack[current], 1), current \in live
    PROVE  /\ UserFile(current) = [r \in Names |-> UserFile(current)[r]]
           /\ UserFile(current)["fpu"] = cpu["fpu"]
           /\ \A r \in Registers :
                UserFile(current)[r] = Drop(stack[current], 1)[registers_slot[r]]
           /\ IsSeq(Drop(stack[current], 1)) /\ UserFrame(Drop(stack[current], 1), 0)
           /\ Len(Drop(stack[current], 1)) = 22
           /\ Drop(stack[current], 1)[registers_slot["cs"]] = USER_CS
<1> DEFINE s == stack[current]
           d == Drop(s, 1)
<1>1. IsSeq(s) /\ UserFile(current) = Held(s, cpu["fpu"])
    BY HereFacts, FileIsHeld
<1>2. Len(s) >= 23 /\ Len(s) = 23
    BY DEF UserFrame
<1>3. /\ IsSeq(d) /\ Len(d) = Len(s) - 1
      /\ \A r \in Registers : d[registers_slot[r]] = s[1 + registers_slot[r]]
      /\ UserFrame(d, 0)
    BY <1>1, <1>2, TopFacts
<1>4. Held(s, cpu["fpu"]) =
        [r \in Names |-> IF r # "fpu" THEN s[1 + registers_slot[r]] ELSE cpu["fpu"]]
    BY <1>1, HeldFrame
<1>5. Len(d) = 22
    BY <1>2, <1>3
<1>6. "fpu" \in Names /\ "cs" \in Registers
    BY DEF Names, Registers
<1>7. d[registers_slot["cs"]] = USER_CS
    BY <1>3, <1>6 DEF UserFrame
<1> HIDE DEF d, s
<1> QED
    BY <1>1, <1>3, <1>4, <1>5, <1>6, <1>7 DEF Registers, d, s

LEMMA InterruptReturnSeen ==
    ASSUME CInv, InterruptReturn
    PROVE  Seen' = Seen \/ (current \in User!Present /\ User!Interrupted(current))
<1> DEFINE st == stack[current]
           s == Drop(st, 1)
           e == SignalCheck(s, registers_slot["rip"], registers_slot["rsp"], pending)
           file == UserFile(current)
<1>1. /\ UNCHANGED <<live, current, fpu_raw>>
      /\ \/ at = "irq_handler" /\ s[registers_slot["cs"]] = USER_CS /\ Iretq(e)
         \/ /\ at = "exception_handler"
               \/ (at = "irq_handler" /\ s[registers_slot["cs"]] # USER_CS)
            /\ Iretq(s)
    BY DEF InterruptReturn
<1>2. IsSeq(st) /\ Types
    BY HereFacts DEF CInv
<1>3. Len(st) >= 23
  <2>1. at = "irq_handler" => Len(st) >= 23
    BY IrqFacts
  <2>2. at = "exception_handler" => UserFrame(st, 1)
    BY HereFacts
  <2>3. UserFrame(st, 1) => Len(st) >= 23
    BY DEF UserFrame
  <2>4. at \in {"irq_handler", "exception_handler"}
    BY <1>1
  <2> HIDE DEF st, s, e, file
  <2> QED
    BY <2>1, <2>2, <2>3, <2>4
<1>4. s[registers_slot["cs"]] = st[1 + registers_slot["cs"]]
  <2>1. "cs" \in Registers
    BY DEF Registers, Names
  <2> QED
    BY <1>2, <1>3, <2>1, TopFacts
<1>5. CASE at = "irq_handler" /\ s[registers_slot["cs"]] = USER_CS /\ Iretq(e)
  <2>1. current \in live /\ UserFrame(st, 1)
    BY <1>4, <1>5, IrqFacts
  <2>2. /\ file = [r \in Names |-> file[r]] /\ file["fpu"] = cpu["fpu"]
        /\ \A r \in Registers : file[r] = s[registers_slot[r]]
        /\ IsSeq(s) /\ Len(s) = 22
    BY <1>5, <2>1, TrapFile
  <2>3. Signalled(s, 18, 21, pending, e)
    <3>1. e = SignalCheck(s, 18, 21, pending)
      BY RegistersTable
    <3> HIDE DEF e, s, file
    <3>2. 18 \in 1..Len(s) /\ 21 \in 1..Len(s) /\ 18 # 21
      BY <2>2
    <3>3. Signalled(s, 18, 21, pending, SignalCheck(s, 18, 21, pending))
      BY <2>2, <3>2, SignalFacts
    <3> QED
      BY <3>1, <3>3
  <2> HIDE DEF e
  <2> DEFINE new == IF current \in pending THEN User!Handled(file) ELSE file
  <2>4. /\ IsSeq(e) /\ Len(e) = 22
        /\ e[18] = (IF current \in pending THEN Const("sigterm_handler") ELSE s[18])
        /\ e[21] = (IF current \in pending THEN SignalFrame(s[21]) ELSE s[21])
        /\ \A i \in 1..22 : i # 18 /\ i # 21 => e[i] = s[i]
    BY <2>2, <2>3 DEF Signalled
  <2>5. \A r \in Registers : r # "rip" /\ r # "rsp" => e[registers_slot[r]] = file[r]
    <3>1. \A r \in Registers : r # "rip" /\ r # "rsp"
            => registers_slot[r] # 18 /\ registers_slot[r] # 21
      BY RegistersTable DEF Registers, Names, General
    <3> QED
      BY <2>2, <2>4, <3>1, FrameSlots
  <2>6. /\ registers_slot["rip"] = 18 /\ registers_slot["rsp"] = 21
        /\ {"rip", "rsp", "cs"} \subseteq Registers /\ {"rip", "rsp", "fpu"} \subseteq Names
    BY RegistersTable DEF Registers, Names
  <2>7. file["rip"] = s[18] /\ file["rsp"] = s[21]
    BY <2>2, <2>6
  <2> HIDE DEF file, s
  <2>8. User!Handled(file) =
            [file EXCEPT !["rip"] = Const("sigterm_handler"), !["rsp"] = SignalFrame(file["rsp"])]
    BY UserNames DEF User!Handled
  <2>9. new = [r \in Names |-> new[r]] /\ new["fpu"] = cpu["fpu"]
    BY <2>2, <2>6, <2>8
  <2>10. \A r \in Registers : e[registers_slot[r]] = new[r]
    <3> TAKE r \in Registers
    <3>1. CASE r = "rip"
      BY <2>2, <2>4, <2>6, <2>7, <2>8, <3>1
    <3>2. CASE r = "rsp"
      BY <2>2, <2>4, <2>6, <2>7, <2>8, <3>2
    <3>3. CASE r # "rip" /\ r # "rsp"
      BY <2>2, <2>5, <2>8, <3>3 DEF Registers
    <3> QED
      BY <3>1, <3>2, <3>3
  <2>11. e[registers_slot["cs"]] = USER_CS /\ Len(e) >= 22
    BY <1>5, <2>2, <2>4, <2>5, <2>6
  <2> HIDE DEF new
  <2>12. Seen' = [Seen EXCEPT ![current] = new] /\ Seen[current] = UserFile(current)
    <3>1. at # "user" /\ Iretq(e) /\ live' = live /\ current' = current /\ fpu_raw' = fpu_raw
      BY <1>1, <1>5
    <3>2. Holding(e, new, cpu["fpu"])
      BY <2>9, <2>10 DEF Holding
    <3> QED
      BY <2>1, <2>4, <2>11, <3>1, <3>2, IretqSeen
  <2>13. CASE current \in pending
    <3>1. new = User!Handled(UserFile(current))
      BY <2>13 DEF new, file
    <3> QED
      BY <1>2, <2>1, <2>12, <3>1, PresentIsLive DEF User!Interrupted, User!Becomes, Seen
  <2>14. CASE current \notin pending
    <3>1. new = Seen[current]
      BY <2>12, <2>14 DEF new, file
    <3> QED
      BY <1>2, <2>12, <3>1, PresentIsLive
  <2> QED
    BY <2>13, <2>14
<1>6. CASE at = "exception_handler" /\ Iretq(s)
  <2>1. current \in live /\ UserFrame(st, 1)
    BY <1>6, HereFacts
  <2>2. /\ file = [r \in Names |-> file[r]] /\ file["fpu"] = cpu["fpu"]
        /\ \A r \in Registers : s[registers_slot[r]] = file[r]
        /\ IsSeq(s) /\ Len(s) = 22 /\ s[registers_slot["cs"]] = USER_CS
    BY <1>6, <2>1, TrapFile
  <2> HIDE DEF s, file
  <2>3. Len(s) >= 22 /\ at # "user" /\ live' = live /\ current' = current /\ fpu_raw' = fpu_raw
    BY <1>1, <1>6, <2>2
  <2>4. Holding(s, file, cpu["fpu"])
    BY <2>2 DEF Holding
  <2>5. Seen' = [Seen EXCEPT ![current] = file] /\ Seen[current] = UserFile(current)
    BY <1>6, <2>1, <2>2, <2>3, <2>4, IretqSeen
  <2> QED
    BY <1>2, <2>5, PresentIsLive DEF file
<1>7. CASE at = "irq_handler" /\ s[registers_slot["cs"]] # USER_CS /\ Iretq(s)
  <2>1. PICK inner \in Interruptible : Interrupted(inner, current, st)
    BY <1>4, <1>7, IrqFacts
  <2>2. /\ IsSeq(s) /\ Len(s) = Len(st) - 1 /\ Drop(s, 22) = Drop(st, 23)
        /\ \A r \in Registers : s[registers_slot[r]] = st[1 + registers_slot[r]]
    BY <1>2, <1>3, TopFacts
  <2> HIDE DEF s
  <2>3. Len(s) >= 22 /\ Len(st) \in Nat
    BY <1>2, <1>3, <2>2 DEF IsSeq
  <2>4. /\ cpu' = [r \in Names |-> IF r = "fpu" THEN cpu["fpu"] ELSE s[registers_slot[r]]]
        /\ at' = s[registers_slot["rip"]][3]
        /\ stack' = [stack EXCEPT ![current] = Drop(st, 23)]
    BY <1>7, <2>2, <2>3, IretqFacts
  <2>5. at' = inner /\ inner # "user" /\ cpu'["fpu"] = cpu["fpu"]
    <3>1. "rip" \in Registers /\ "fpu" \in Names
      BY DEF Registers, Names
    <3>2. s[registers_slot["rip"]] = Code(inner)
      BY <2>1, <2>2, <3>1, InCodeFacts DEF Interrupted
    <3> QED
      BY <2>4, <3>1, <3>2, CodeFacts DEF Interruptible
  <2>6. /\ \A t \in live : t # current => stack'[t] = stack[t]
        /\ current \in live => stack'[current] = Drop(st, 23)
    BY <1>2, <2>4 DEF Types, Owners
  <2>7. ASSUME current \in live
        PROVE  UserFile(current)' = UserFile(current)
    <3>1. current \in Task /\ 23 \in Nat /\ 23 <= Len(st)
      BY <1>2, <1>3, <2>3, <2>7 DEF Types
    <3>2. IsSeq(Drop(st, 23))
      BY <1>2, <3>1, DropFacts DEF Under
    <3>3. Deep(Drop(st, 23))
      BY <2>1, <3>1, <3>2, EnteredDeep DEF Interrupted
    <3>4. Held(st, cpu["fpu"]) = Held(Drop(st, 23), cpu["fpu"])
      BY <1>2, <3>1, <3>3, HeldUnder
    <3>5. UserFile(current) = Held(st, cpu["fpu"])
      BY <1>7, FileIsHeld
    <3>6. UserFile(current)' = Held(Drop(st, 23), cpu["fpu"])
      BY <1>1, <2>5, <2>6, <2>7 DEF UserFile, Held
    <3> QED
      BY <3>4, <3>5, <3>6
  <2>8. live' = live /\ current' = current /\ fpu_raw' = fpu_raw
    BY <1>1
  <2> QED
    BY <1>2, <2>6, <2>7, <2>8, CurrentUnseen
<1> QED
    BY <1>1, <1>5, <1>6, <1>7

LEMMA Int128ReturnSeen ==
    ASSUME CInv, Int128Return
    PROVE  current \in User!Present /\ User!Return(current)
<1> DEFINE s == Drop(stack[current], 1)
           e == Updated(s, 15, Const("result"))
           file == UserFile(current)
           new == User!Result(file)
<1>1. /\ at = "int128_handler" /\ Iretq(e)
      /\ UNCHANGED <<live, current, fpu_raw>>
  <2>1. 112 \div 8 + 1 = 15
    OBVIOUS
  <2>2. Iretq([s EXCEPT ![112 \div 8 + 1] = Const("result")])
    BY DEF Int128Return
  <2> QED
    BY <2>1, <2>2 DEF Int128Return, Updated
<1>2. UserFrame(stack[current], 1) /\ current \in live /\ Types
    BY <1>1, HereFacts DEF CInv
<1>3. /\ file = [r \in Names |-> file[r]] /\ file["fpu"] = cpu["fpu"]
      /\ \A r \in Registers : file[r] = s[registers_slot[r]]
      /\ IsSeq(s) /\ Len(s) = 22 /\ s[registers_slot["cs"]] = USER_CS
    BY <1>1, <1>2, TrapFile
<1> HIDE DEF s, file
<1>4. 15 \in 1..Len(s)
    BY <1>3
<1>5. Stored(s, 15, Const("result"), e)
    BY <1>3, <1>4, UpdatedFacts
<1> HIDE DEF e
<1>6. /\ IsSeq(e) /\ Len(e) = 22 /\ e[15] = Const("result")
      /\ \A i \in 1..22 : i # 15 => e[i] = s[i]
    BY <1>3, <1>5 DEF Stored
<1>7. new = [file EXCEPT !["rax"] = Const("result")] /\ {"rax", "fpu"} \subseteq Names
    BY UserNames DEF User!Result, Names, General
<1> HIDE DEF new
<1>8. \A r \in Registers : e[registers_slot[r]] = new[r]
  <2>1. \A r \in Registers : r # "rax" => registers_slot[r] # 15
    BY RegistersTable DEF Registers, Names, General
  <2>2. \A r \in Registers : r # "rax" => e[registers_slot[r]] = new[r]
    BY <1>3, <1>6, <1>7, <2>1, FrameSlots DEF Registers
  <2>3. e[registers_slot["rax"]] = new["rax"]
    BY <1>3, <1>6, <1>7, RegistersTable
  <2> QED
    BY <2>2, <2>3
<1>9. Holding(e, new, cpu["fpu"])
    BY <1>3, <1>7, <1>8 DEF Holding
<1>10. e[registers_slot["cs"]] = USER_CS /\ Len(e) >= 22
    BY <1>3, <1>6, RegistersTable
<1>11. at # "user" /\ live' = live /\ current' = current /\ fpu_raw' = fpu_raw
    BY <1>1
<1>12. Seen' = [Seen EXCEPT ![current] = new] /\ Seen[current] = UserFile(current)
    BY <1>1, <1>2, <1>6, <1>9, <1>10, <1>11, IretqSeen
<1>13. new \in User!Outcomes(Seen[current])
    BY <1>12 DEF User!Outcomes, new, file
<1>14. User!Return(current)
    BY <1>12, <1>13 DEF User!Return, User!Becomes, Seen
<1> QED
    BY <1>2, <1>14, PresentIsLive

LEMMA RetFromForkSeen ==
    ASSUME CInv, RetFromFork
    PROVE  Seen' = Seen
<1> DEFINE s == stack[current]
           file == UserFile(current)
<1>1. /\ at = "ret_from_fork" /\ Iretq(s) /\ at # "user"
      /\ live' = live /\ current' = current /\ fpu_raw' = fpu_raw
    BY DEF RetFromFork
<1>2. UserFrame(s, 0) /\ current \in live /\ IsSeq(s) /\ Types
    BY <1>1, HereFacts DEF CInv, Here
<1>3. Len(s) >= 22 /\ s[registers_slot["cs"]] = USER_CS
    BY <1>2, RegistersTable DEF UserFrame
<1>4. file = Held(s, cpu["fpu"])
    BY <1>1, FileIsHeld
<1>5. Held(s, cpu["fpu"]) =
        [r \in Names |-> IF r # "fpu" THEN s[0 + registers_slot[r]] ELSE cpu["fpu"]]
    BY <1>2, HeldFrame
<1>6. Holding(s, file, cpu["fpu"])
  <2>1. \A r \in Registers : 0 + registers_slot[r] = registers_slot[r]
    BY FrameSlots
  <2>2. "fpu" \in Names
    BY DEF Names
  <2> HIDE DEF s, file
  <2> QED
    BY <1>4, <1>5, <2>1, <2>2 DEF Holding, Registers
<1> HIDE DEF s, file
<1>7. Seen' = [Seen EXCEPT ![current] = file] /\ Seen[current] = UserFile(current)
    BY <1>1, <1>2, <1>3, <1>6, IretqSeen
<1> QED
    BY <1>2, <1>7, PresentIsLive DEF file

\* An interrupt or exception, whatever it meets.
LEMMA InterruptSeen ==
    ASSUME CInv, NEW name \in Handlers \ {"syscall_handler"}, Interrupt(name)
    PROVE  Seen' = Seen
<1>1. /\ live' = live /\ current' = current /\ fpu_raw' = fpu_raw
      /\ Types /\ IsSeq(stack[current]) /\ rsp0 = current /\ current \in Owners
      /\ name # "user"
    BY HereFacts DEF Interrupt, CInv, Types, Handlers
<1>2. CASE at = "user"
  <2> DEFINE s == Frame(<<>>)
  <2>1. Called(name, current, s)
    BY <1>1, <1>2 DEF Interrupt
  <2>2. /\ IsSeq(s) /\ Len(s) = 22 /\ \A r \in Registers : s[registers_slot[r]] = cpu[r]
    <3>1. \A e : IsSeq(e) => IsSeq(Frame(e)) /\ Len(Frame(e)) = 22 + Len(e)
                /\ \A r \in Registers : Frame(e)[registers_slot[r]] = cpu[r]
      BY FrameFacts
    <3>2. IsSeq(s) /\ Len(s) = 22 + 0 /\ \A r \in Registers : s[registers_slot[r]] = cpu[r]
      BY <3>1, EmptyIsSeq
    <3> HIDE DEF s
    <3> QED
      BY <3>2
  <2> HIDE DEF s
  <2>3. PICK below : CalledOn(name, current, s, below)
    BY <2>1, <2>2, CalledFacts
  <2>4. /\ Joins(<<Code(name)>>, s, below) /\ Len(below) = 1 + Len(s)
        /\ stack' = [stack EXCEPT ![current] = below] /\ at' = name
        /\ cpu' = InCode(name, current, Len(below), cpu["fpu"])
    BY <2>3 DEF CalledOn
  <2>5. IsSeq(below) /\ Len(below) = 23 /\ \A i \in 1..22 : below[1 + i] = s[i]
    BY <2>2, <2>4, OneSeq DEF Joins
  <2>6. cpu["cs"] = USER_CS /\ cpu["ss"] = USER_SS /\ cpu["r10"] # Code("syscall_handler")
    BY <1>2 DEF CInv, Here
  <2>7. \A r \in Registers : below[1 + registers_slot[r]] = cpu[r]
    BY <2>2, <2>5, FrameSlots
  <2>8. UserFrame(below, 1)
    <3>1. {"cs", "ss", "r10"} \subseteq Registers
      BY DEF Registers, Names, General
    <3> QED
      BY <2>5, <2>6, <2>7, <3>1 DEF UserFrame
  <2>9. Held(below, cpu["fpu"]) =
            [r \in Names |-> IF r # "fpu" THEN below[1 + registers_slot[r]] ELSE cpu["fpu"]]
    BY <2>5, <2>8, HeldFrame
  <2>10. Held(below, cpu["fpu"]) = cpu
    BY <1>1, <2>7, <2>9 DEF Types, Registers
  <2>11. cpu'["fpu"] = cpu["fpu"]
    BY <2>4, InCodeFacts
  <2>12. stack'[current] = below /\ \A t \in Owners : t # current => stack'[t] = stack[t]
    BY <1>1, <2>4 DEF Types
  <2>13. UserFile(current)' = Held(below, cpu["fpu"])
    BY <1>1, <2>4, <2>11, <2>12 DEF UserFile, Held
  <2>14. UserFile(current) = cpu
    BY <1>2, FileIsHeld
  <2>15. \A t \in live : t # current => stack'[t] = stack[t]
    BY <1>1, <2>12 DEF Types, Owners
  <2> QED
    BY <1>1, <2>10, <2>13, <2>14, <2>15, CurrentUnseen
<1>3. CASE at # "user"
  <2> DEFINE st == stack[current]
             s == Frame(st)
  <2>1. at \in Interruptible /\ Called(name, current, s)
    BY <1>3 DEF Interrupt
  <2>2. Len(st) \in Nat /\ Entered(at, current, st)
    BY <1>3, <2>1, HereFacts DEF CInv, Here, OnStack, Interruptible
  <2>3. IsSeq(s) /\ Len(s) = 22 + Len(st) /\ Drop(s, 22) = st
    BY <1>1, FrameFacts
  <2> HIDE DEF s
  <2>4. PICK below : CalledOn(name, current, s, below)
    BY <2>1, <2>3, CalledFacts
  <2>5. /\ Joins(<<Code(name)>>, s, below) /\ Len(below) = 1 + Len(s) /\ Drop(below, 1) = s
        /\ stack' = [stack EXCEPT ![current] = below] /\ at' = name
        /\ cpu' = InCode(name, current, Len(below), cpu["fpu"])
    BY <2>4 DEF CalledOn
  <2>6. IsSeq(below) /\ 23 \in Nat /\ 23 <= Len(below) /\ 1 + 22 <= Len(below)
    BY <2>2, <2>3, <2>5 DEF Joins
  <2>7. Drop(below, 23) = st
    <3>1. Drop(Drop(below, 1), 22) = Drop(below, 1 + 22)
      BY <2>6, DropTwice
    <3> QED
      BY <2>3, <2>5, <3>1
  <2>8. cpu'["fpu"] = cpu["fpu"]
    BY <2>5, InCodeFacts
  <2>9. stack'[current] = below /\ \A t \in Owners : t # current => stack'[t] = stack[t]
    BY <1>1, <2>5 DEF Types
  <2>10. UserFile(current)' = Held(below, cpu["fpu"])
    BY <1>1, <2>5, <2>8, <2>9 DEF UserFile, Held
  <2>11. UserFile(current) = Held(st, cpu["fpu"])
    BY <1>3, FileIsHeld
  <2>12. current \in live => Held(below, cpu["fpu"]) = Held(st, cpu["fpu"])
    <3> SUFFICES ASSUME current \in live
                 PROVE  Held(below, cpu["fpu"]) = Held(st, cpu["fpu"])
      OBVIOUS
    <3>1. current \in Task
      BY <1>1 DEF Types
    <3>2. Deep(st)
      BY <1>1, <2>2, <3>1, EnteredDeep
    <3> HIDE DEF st
    <3> QED
      BY <2>6, <2>7, <3>2, HeldUnder
  <2>13. \A t \in live : t # current => stack'[t] = stack[t]
    BY <1>1, <2>9 DEF Types, Owners
  <2> HIDE DEF st
  <2> QED
    BY <1>1, <2>10, <2>11, <2>12, <2>13, CurrentUnseen
<1> QED
    BY <1>2, <1>3

LEMMA AcknowledgeSeen ==
    ASSUME CInv, Acknowledge
    PROVE  Seen' = Seen
BY DEF Acknowledge, Seen, UserFile

LEMMA IdleSeen ==
    ASSUME CInv, Idle
    PROVE  Seen' = Seen
<1>1. /\ at = "kinit" /\ Called("kernel_idle_loop", Kernel, <<>>)
      /\ live' = live /\ current' = current /\ fpu_raw' = fpu_raw
    BY DEF Idle
<1>2. current = Kernel /\ Types
    BY <1>1, HereFacts DEF CInv
<1>3. \A t \in live : stack'[t] = stack[t]
    BY <1>1, <1>2, RegistersAssumption DEF Called, Types, Owners
<1> QED
    BY <1>1, <1>2, <1>3, KernelUnseen

\* The registers of the others, when one task leaves the CPU to another.
LEMMA SwitchSeen ==
    ASSUME CInv, at # "user", NEW q \in live \cup {Kernel}, q # current,
           NEW s, NEW fpu, Switch(q, s, fpu)
    PROVE  /\ \A t \in live \ {current} : UserFile(t)' = UserFile(t)
           /\ \A t \in live : t = current => UserFile(t)' = Held(s, fpu)
<1> DEFINE sp == stack[q]
           rest == Drop(sp, 7)
           name == rest[1][3]
<1>1. Types /\ current \in Owners /\ q \in Owners /\ IsSeq(sp)
    BY DEF CInv, Types, Owners
<1>2. Fresh(q, sp) \/ SwitchedOut(q, sp)
    BY DEF CInv, Elsewhere
<1>3. /\ current' = q /\ fpu_raw' = [fpu_raw EXCEPT ![current] = fpu]
      /\ stack' = [stack EXCEPT ![current] = s, ![q] = rest]
    BY DEF Switch
<1>4. at' # "user" /\ cpu'["fpu"] = fpu_raw[q]
  <2>0. "fpu" \in Names /\ "fpu" \notin DOMAIN SwitchSlot
    BY SwitchTable DEF Names
  <2>1. CASE sp[7] = Code("ret_from_fork")
    <3>1. at' = "ret_from_fork" /\ cpu' = [Popped(SwitchSlot, sp, cpu) EXCEPT !["fpu"] = fpu_raw[q]]
      BY <2>1 DEF Switch
    <3> QED
      BY <2>0, <3>1 DEF Popped
  <2>2. CASE sp[7] # Code("ret_from_fork")
    <3>1. at' = name /\ cpu' = Popped(SwitchSlot, sp, InCode(name, q, Len(rest), fpu_raw[q]))
      BY <2>2 DEF Switch
    <3>2. InCode(name, q, Len(rest), fpu_raw[q])["fpu"] = fpu_raw[q]
      BY InCodeFacts
    <3>3. name # "user"
      <4>1. SwitchedOut(q, sp)
        BY <1>2, <2>2 DEF Fresh
      <4>2. PICK n \in {"irq_handler", "syscall_handler", "kinit"} : OnStack(n, q, rest)
        BY <4>1 DEF SwitchedOut
      <4>3. rest[1] = Code(n)
        BY <4>2, EnteredOnTop
      <4> QED
        BY <4>2, <4>3, CodeFacts
    <3> QED
      BY <2>0, <3>1, <3>2, <3>3 DEF Popped
  <2> QED
    BY <2>1, <2>2
<1> HIDE DEF name
<1>5. /\ stack'[q] = rest /\ stack'[current] = s /\ fpu_raw'[current] = fpu
      /\ \A t \in Owners : t # current /\ t # q => stack'[t] = stack[t]
      /\ \A t \in Owners : t # current => fpu_raw'[t] = fpu_raw[t]
  <2> HIDE DEF rest
  <2> QED
    BY <1>1, <1>3 DEF Types
<1>6. \A t : UserFile(t)' =
                Held(stack'[t], IF t = q THEN cpu'["fpu"] ELSE fpu_raw'[t])
    BY <1>3, <1>4 DEF UserFile, Held
<1>7. ASSUME NEW t \in live, t # current
      PROVE  UserFile(t)' = UserFile(t)
  <2>1. t \in Owners /\ t \in Task
    BY <1>1, <1>7 DEF Types, Owners
  <2>2. UserFile(t) = Held(stack[t], fpu_raw[t])
    BY <1>7, FileIsHeld
  <2>3. CASE t = q
    <3>1. Len(sp) >= 7 /\ Deep(rest)
      BY <1>1, <1>2, <2>1, <2>3, RestDeep
    <3>2. 7 \in Nat /\ 7 <= Len(sp)
      BY <1>1, <3>1 DEF IsSeq
    <3>3. Held(sp, fpu_raw[t]) = Held(rest, fpu_raw[t])
      BY <1>1, <3>1, <3>2, HeldUnder
    <3>4. UserFile(t)' = Held(rest, fpu_raw[t])
      BY <1>4, <1>5, <1>6, <2>3
    <3> QED
      BY <2>2, <2>3, <3>3, <3>4
  <2>4. CASE t # q
    BY <1>5, <1>6, <1>7, <2>1, <2>2, <2>4
  <2> QED
    BY <2>3, <2>4
<1>8. \A t \in live : t = current => UserFile(t)' = Held(s, fpu)
  <2> HIDE DEF rest, sp
  <2> QED
    BY <1>5, <1>6
<1> QED
    BY <1>7, <1>8

LEMMA SchedSeen ==
    ASSUME CInv, NEW q \in live \cup {Kernel}, Sched(q)
    PROVE  Seen' = Seen
<1> DEFINE s == stack[current]
           p == Pushed(SwitchPushes, cpu, <<Code("sched")>> \o s)
<1>1. /\ at \in {"irq_handler", "syscall_handler", "kinit"} /\ q # current
      /\ Switch(q, p, cpu["fpu"]) /\ live' = live
    BY DEF Sched
<1>2. IsSeq(s) /\ Len(s) \in Nat /\ Types
    BY HereFacts DEF CInv
<1>3. OnStack(at, current, s)
    BY <1>1 DEF CInv, Here
<1>4. IsSeq(p) /\ Len(p) = 7 + Len(s) /\ Drop(p, 7) = s
    BY <1>2, SwitchFacts
<1> HIDE DEF p
<1>5. /\ \A t \in live \ {current} : UserFile(t)' = UserFile(t)
      /\ \A t \in live : t = current => UserFile(t)' = Held(p, cpu["fpu"])
    BY <1>1, SwitchSeen
<1>6. ASSUME NEW t \in live, t = current
      PROVE  UserFile(t)' = UserFile(t)
  <2>1. current \in Task
    BY <1>2, <1>6 DEF Types
  <2>2. Deep(s)
    BY <1>2, <1>3, <2>1, OnStackDeep
  <2>3. 7 \in Nat /\ 7 <= Len(p)
    BY <1>2, <1>4
  <2> HIDE DEF s
  <2>4. Held(p, cpu["fpu"]) = Held(s, cpu["fpu"])
    BY <1>4, <2>2, <2>3, HeldUnder
  <2>5. UserFile(t) = Held(s, cpu["fpu"])
    BY <1>1, <1>6, FileIsHeld DEF s
  <2> QED
    BY <1>5, <1>6, <2>4, <2>5
<1>7. live \subseteq Task
    BY <1>2 DEF Types
<1>8. \A t \in live : UserFile(t)' = UserFile(t)
    BY <1>5, <1>6
<1> QED
    BY <1>1, <1>7, <1>8, Unseen

LEMMA ExitSeen ==
    ASSUME CInv, NEW q \in live \cup {Kernel}, Exit(q)
    PROVE  current \in User!Present /\ User!Exit(current)
<1> DEFINE e == <<>>
<1>1. /\ current # Kernel /\ at \in Handlers /\ q # current /\ live' = live \ {current}
      /\ Switch(q, e, Const("fpu_default_image"))
    BY DEF Exit
<1> HIDE DEF e
<1>2. Types /\ current \in live /\ live \subseteq Task /\ at # "user"
    BY <1>1 DEF CInv, Types, Handlers
<1>3. \A t \in live \ {current} : UserFile(t)' = UserFile(t)
    BY <1>1, <1>2, SwitchSeen
<1>4. Seen' = [Seen EXCEPT ![current] = <<>>]
    BY <1>1, <1>2, <1>3 DEF Seen
<1> QED
    BY <1>2, <1>4, PresentIsLive, UserNames DEF User!Exit, User!Becomes, Seen

LEMMA ExecSeen ==
    ASSUME CInv, Exec
    PROVE  current \in User!Present /\ User!Exec(current)
<1>1. /\ at = "syscall_handler" /\ at' = "ret_from_fork"
      /\ fpu_raw' = [fpu_raw EXCEPT ![current] = Const("fpu_default_image")]
      /\ stack' = [stack EXCEPT ![current] = ImageContext]
      /\ cpu' = [cpu EXCEPT !["fpu"] = fpu_raw'[current]]
      /\ live' = live /\ current' = current
    BY DEF Exec
<1>2. Types /\ current \in live /\ current \in Owners
    BY <1>1, HereFacts DEF CInv
<1>3. /\ stack'[current] = ImageContext /\ \A t \in Owners : t # current => stack'[t] = stack[t]
      /\ fpu_raw'[current] = Const("fpu_default_image")
      /\ \A t \in Owners : t # current => fpu_raw'[t] = fpu_raw[t]
    BY <1>1, <1>2 DEF Types
<1>4. cpu'["fpu"] = Const("fpu_default_image")
  <2>1. "fpu" \in Names
    BY DEF Names
  <2> QED
    BY <1>1, <1>2, <1>3, <2>1 DEF Types
<1>5. UserFile(current)' = Held(ImageContext, Const("fpu_default_image"))
    BY <1>1, <1>3, <1>4 DEF UserFile, Held
<1>6. UserFile(current)' = ImageFile
    BY <1>5, HeldImage
<1>7. \A t \in live : t # current => stack'[t] = stack[t] /\ fpu_raw'[t] = fpu_raw[t]
    BY <1>2, <1>3 DEF Types, Owners
<1>8. Seen' = [Seen EXCEPT ![current] = ImageFile]
    BY <1>1, <1>2, <1>6, <1>7, CurrentSeen
<1> QED
    BY <1>2, <1>8, PresentIsLive, UserNames DEF User!Exec, User!Becomes, Seen

\* A call returns to its caller with a result, or to the handler of a signal.
LEMMA SysretSeen ==
    ASSUME CInv, at = "syscall_handler", NEW others, NEW p, NEW h,
           SyscallReturn(others, p, h), others = [t \in Owners |-> others[t]]
    PROVE  /\ current' = current /\ current \in live
           /\ UserFile(current)' \in User!Outcomes(UserFile(current))
           /\ \A t \in Owners : t # current => UserFile(t)' = Held(others[t], fpu_raw'[t])
<1> DEFINE s == stack[current]
           file == UserFile(current)
           new == SysretFile(s, p, cpu)
           result == User!Result(file)
           caught == User!Handled(result)
<1>1. Types /\ IsSeq(s) /\ Len(s) = 17 /\ current \in live /\ current \in Owners
    BY HereFacts DEF CInv
<1>2. s[1] = Code("syscall_handler")
    BY EnteredOnTop DEF CInv, Here
<1>3. cpu' = new /\ at' = "user" /\ stack' = [others EXCEPT ![current] = <<>>]
    BY <1>1, SysretFacts DEF Types
<1>4. current' = current
    BY DEF SyscallReturn
<1>5. \A t \in Owners : t # current => stack'[t] = others[t]
    BY <1>1, <1>3
<1>6. \A t \in Owners : t # current => UserFile(t)' = Held(others[t], fpu_raw'[t])
    BY <1>4, <1>5 DEF UserFile, Held
<1>7. UserFile(current)' = new
    BY <1>3, <1>4 DEF UserFile
<1>8. file = CallFile(s, cpu["fpu"])
  <2>1. file = Held(s, cpu["fpu"])
    BY FileIsHeld
  <2> HIDE DEF file, s
  <2> QED
    BY <1>1, <1>2, <2>1, HeldCall
<1> HIDE DEF s, file
<1>9. /\ file = [r \in Names |-> file[r]] /\ file["fpu"] = cpu["fpu"] /\ file["rip"] = s[9]
      /\ file["rflags"] = s[10] /\ file["cs"] = USER_CS /\ file["ss"] = USER_SS
      /\ \A r \in Names \ {"fpu", "rip", "rflags", "cs", "ss"} : file[r] = s[1 + SavedSlot[r]]
    BY <1>8 DEF CallFile, Names
<1>10. file["rcx"] = s[9] /\ file["r11"] = s[10] /\ file["rsp"] = s[17]
  <2>1. /\ {"rcx", "r11", "rsp"} \subseteq Names \ {"fpu", "rip", "rflags", "cs", "ss"}
        /\ 1 + SavedSlot["rcx"] = 9 /\ 1 + SavedSlot["r11"] = 10 /\ 1 + SavedSlot["rsp"] = 17
    BY SavedTable, PopsTable DEF Names, General
  <2> QED
    BY <1>9, <2>1
<1>11. result = [file EXCEPT !["rax"] = Const("result")]
    BY UserNames DEF User!Result
<1> HIDE DEF result
<1>12. {"rax", "rip", "rsp", "rcx"} \subseteq Names
    BY DEF Names, General
<1>13. new = [r \in Names |-> new[r]]
    BY DEF SysretFile
<1>14. CASE current \notin p
  <2>1. ASSUME NEW r \in Names
        PROVE  new[r] = result[r]
    <3>1. CASE r = "rax"
      BY <1>9, <1>11, <3>1 DEF SysretFile
    <3>2. CASE r \in {"cs", "ss", "fpu", "rip", "rcx", "rsp", "rflags", "r11"}
      BY <1>9, <1>10, <1>11, <1>14, <3>2 DEF SysretFile
    <3>3. CASE r \notin {"rax", "cs", "ss", "fpu", "rip", "rcx", "rsp", "rflags", "r11"}
      BY <1>9, <1>11, <3>3 DEF SysretFile
    <3> QED
      BY <3>1, <3>2, <3>3
  <2>2. new = result
    BY <1>9, <1>11, <1>13, <2>1
  <2>3. new \in User!Outcomes(file)
    BY <2>2 DEF User!Outcomes, result
  <2> QED
    BY <1>1, <1>4, <1>6, <1>7, <2>3 DEF file
<1>15. CASE current \in p
  <2> DEFINE last == [caught EXCEPT !["rcx"] = Const("sigterm_handler")]
  <2>1. caught = [result EXCEPT !["rip"] = Const("sigterm_handler"),
                                !["rsp"] = SignalFrame(result["rsp"])]
    BY UserNames DEF User!Handled
  <2> HIDE DEF caught
  <2>2. result["rsp"] = file["rsp"]
    BY <1>9, <1>11
  <2>3. ASSUME NEW r \in Names
        PROVE  new[r] = last[r]
    <3>1. CASE r = "rax"
      BY <1>9, <1>11, <2>1, <3>1 DEF SysretFile
    <3>2. CASE r \in {"rip", "rcx", "rsp"}
      BY <1>9, <1>10, <1>11, <1>15, <2>1, <2>2, <3>2 DEF SysretFile
    <3>3. CASE r \in {"cs", "ss", "fpu", "rflags", "r11"}
      BY <1>9, <1>10, <1>11, <2>1, <3>3 DEF SysretFile
    <3>4. CASE r \notin {"rax", "cs", "ss", "fpu", "rip", "rcx", "rsp", "rflags", "r11"}
      BY <1>9, <1>11, <2>1, <3>4 DEF SysretFile
    <3> QED
      BY <3>1, <3>2, <3>3, <3>4
  <2>4. new = last
    BY <1>9, <1>11, <1>13, <2>1, <2>3
  <2>5. new \in User!Outcomes(file)
    BY <2>4, UserNames DEF User!Outcomes, result, caught
  <2> QED
    BY <1>1, <1>4, <1>6, <1>7, <2>5 DEF file
<1> QED
    BY <1>14, <1>15

LEMMA CallSeen ==
    ASSUME CInv, Call \/ \E t \in Task : Send(t)
    PROVE  current \in User!Present /\ User!Return(current)
<1>1. /\ at = "syscall_handler" /\ \E p, h : SyscallReturn(stack, p, h)
      /\ live' = live /\ fpu_raw' = fpu_raw
    BY DEF Call, Send
<1>2. Types /\ stack = [t \in Owners |-> stack[t]]
    BY DEF CInv, Types
<1>3. /\ current' = current /\ current \in live
      /\ UserFile(current)' \in User!Outcomes(UserFile(current))
      /\ \A t \in Owners : t # current => UserFile(t)' = Held(stack[t], fpu_raw'[t])
    BY <1>1, <1>2, SysretSeen
<1>4. live \subseteq Task /\ live \subseteq Owners
    BY <1>2 DEF Types, Owners
<1>5. \A t \in live : t # current => UserFile(t)' = UserFile(t)
    BY <1>1, <1>3, <1>4, FileIsHeld
<1> DEFINE file == UserFile(current)'
<1>6. Seen' = [Seen EXCEPT ![current] = file] /\ Seen[current] = UserFile(current)
    BY <1>1, <1>2, <1>3, <1>4, <1>5, SeenOne, PresentIsLive
<1>7. file \in User!Outcomes(Seen[current])
    BY <1>3, <1>6
<1> HIDE DEF file
<1>8. User!Return(current)
    BY <1>6, <1>7 DEF User!Return, User!Becomes, Seen
<1> QED
    BY <1>2, <1>3, <1>8, PresentIsLive

LEMMA KillSeen ==
    ASSUME CInv, NEW t \in Task, Kill(t)
    PROVE  current \in User!Present /\ t \in User!Present /\ User!Kill(current, t)
<1> DEFINE others == [stack EXCEPT ![t] = <<>>]
           file == UserFile(current)'
<1>1. /\ at = "syscall_handler" /\ \E p, h : SyscallReturn(others, p, h)
      /\ t # current /\ t \in live /\ live' = live \ {t}
      /\ fpu_raw' = [fpu_raw EXCEPT ![t] = Const("fpu_default_image")]
    BY DEF Kill
<1>2. Types /\ t \in Owners
    BY DEF CInv, Owners
<1>3. /\ others = [u \in Owners |-> others[u]]
      /\ \A u \in Owners : u # t => others[u] = stack[u] /\ fpu_raw'[u] = fpu_raw[u]
    BY <1>1, <1>2 DEF Types
<1> HIDE DEF others
<1>4. /\ current' = current /\ current \in live
      /\ UserFile(current)' \in User!Outcomes(UserFile(current))
      /\ \A u \in Owners : u # current => UserFile(u)' = Held(others[u], fpu_raw'[u])
    BY <1>1, <1>3, SysretSeen
<1>5. live \subseteq Task /\ live \subseteq Owners
    BY <1>2 DEF Types, Owners
<1>6. \A u \in live : u # current /\ u # t => UserFile(u)' = UserFile(u)
    BY <1>3, <1>4, <1>5, FileIsHeld
<1>7. Seen' = [Seen EXCEPT ![current] = file, ![t] = <<>>]
    BY <1>1, <1>4, <1>5, <1>6 DEF Seen
<1>8. file \in User!Outcomes(Seen[current])
    BY <1>2, <1>4, PresentIsLive
<1> HIDE DEF file
<1>9. User!Kill(current, t)
    BY <1>1, <1>7, <1>8, UserNames DEF User!Kill, Seen
<1> QED
    BY <1>1, <1>2, <1>4, <1>9, PresentIsLive

\* A call makes task t with the frame new.
LEMMA NewSeen ==
    ASSUME CInv, at = "syscall_handler", NEW t \in Task \ live, live' = live \cup {t},
           NEW new, NEW p, NEW h, SyscallReturn([stack EXCEPT ![t] = new], p, h),
           \A u \in live : u # current => fpu_raw'[u] = fpu_raw[u],
           NEW child, Held(new, fpu_raw'[t]) = child
    PROVE  /\ current \in User!Present /\ t \in Task \ User!Present
           /\ Seen[current] = UserFile(current)
           /\ \E file \in User!Outcomes(Seen[current]) :
                Seen' = [Seen EXCEPT ![current] = file, ![t] = child]
<1> DEFINE others == [stack EXCEPT ![t] = new]
           file == UserFile(current)'
<1>1. SyscallReturn(others, p, h)
    OBVIOUS
<1>2. Types /\ t \in Owners /\ t \notin live
    BY DEF CInv, Owners
<1>3. /\ others = [u \in Owners |-> others[u]] /\ others[t] = new
      /\ \A u \in Owners : u # t => others[u] = stack[u]
    BY <1>2 DEF Types
<1> HIDE DEF others
<1>4. /\ current' = current /\ current \in live
      /\ UserFile(current)' \in User!Outcomes(UserFile(current))
      /\ \A u \in Owners : u # current => UserFile(u)' = Held(others[u], fpu_raw'[u])
    BY <1>1, <1>3, SysretSeen
<1>5. live \subseteq Task /\ live \subseteq Owners
    BY <1>2 DEF Types, Owners
<1>6. \A u \in live : u # current => UserFile(u)' = UserFile(u)
    BY <1>2, <1>3, <1>4, <1>5, FileIsHeld
<1>7. UserFile(t)' = child
    BY <1>2, <1>3, <1>4
<1>8. Seen' = [Seen EXCEPT ![current] = file, ![t] = child]
    BY <1>2, <1>4, <1>5, <1>6, <1>7 DEF Seen
<1>9. Seen[current] = UserFile(current)
    BY <1>2, <1>4, PresentIsLive
<1>10. file \in User!Outcomes(Seen[current])
    BY <1>4, <1>9
<1> HIDE DEF file
<1> QED
    BY <1>2, <1>4, <1>8, <1>9, <1>10, PresentIsLive

LEMMA SpawnSeen ==
    ASSUME CInv, NEW t \in Task, Spawn(t)
    PROVE  current \in User!Present /\ t \in Task \ User!Present /\ User!Spawn(current, t)
<1> DEFINE new == KernelFrame(ImageContext)
<1>1. PICK more \in SUBSET {t} : SyscallReturn([stack EXCEPT ![t] = new], pending, handler \cup more)
    BY DEF Spawn
<1>2. /\ at = "syscall_handler" /\ t \in Task \ live /\ live' = live \cup {t}
      /\ fpu_raw' = [fpu_raw EXCEPT ![t] = Const("fpu_default_image")]
    BY DEF Spawn, NewTask
<1>3. /\ fpu_raw'[t] = Const("fpu_default_image")
      /\ \A u \in live : u # current => fpu_raw'[u] = fpu_raw[u]
    BY <1>2 DEF CInv, Types, Owners
<1>4. Held(new, fpu_raw'[t]) = ImageFile
    BY <1>3, HeldImage
<1> HIDE DEF new
<1>5. /\ current \in User!Present /\ t \in Task \ User!Present
      /\ \E file \in User!Outcomes(Seen[current]) :
            Seen' = [Seen EXCEPT ![current] = file, ![t] = ImageFile]
    BY <1>1, <1>2, <1>3, <1>4, NewSeen
<1>6. User!Spawn(current, t)
    BY <1>5, UserNames DEF User!Spawn, Seen
<1> QED
    BY <1>5, <1>6

\* The registers of a child are its parent's, but for the result.
LEMMA ForkChild ==
    ASSUME NEW s, IsSeq(s), Len(s) = 17, s[6] # Code("syscall_handler"), NEW f
    PROVE  Held(KernelFrame(ForkContext(Drop(s, 1))), f) =
                [CallFile(s, f) EXCEPT !["rax"] = Const("0"),
                                       !["rflags"] = UserFlags(CallFile(s, f)["rflags"])]
<1> DEFINE d == Drop(s, 1)
           c == ForkContext(d)
           k == KernelFrame(c)
           file == CallFile(s, f)
           child == [file EXCEPT !["rax"] = Const("0"), !["rflags"] = UserFlags(file["rflags"])]
<1>1. \A i \in 1..16 : d[i] = s[1 + i]
  <2>1. 1 \in Nat /\ 1 <= Len(s) /\ \A i \in 1..16 : i \in 1..(Len(s) - 1)
    OBVIOUS
  <2>2. Under(s, 1, d)
    BY <2>1, DropFacts
  <2> QED
    BY <2>1, <2>2 DEF Under
<1> HIDE DEF d
<1>2. /\ IsSeq(c) /\ Len(c) = 22
      /\ \A r \in Registers : c[registers_slot[r]] =
            CASE r = "rax" -> Const("0")
              [] r = "cs" -> USER_CS
              [] r = "ss" -> USER_SS
              [] r = "rip" -> d[8]
              [] r = "rflags" -> UserFlags(d[9])
              [] OTHER -> d[SavedSlot[r]]
    BY ForkFacts
<1> HIDE DEF c
<1>3. /\ IsSeq(k) /\ Len(k) = 29 /\ \A i \in 1..22 : k[7 + i] = c[i]
    BY <1>2, KernelFrameFacts
<1> HIDE DEF k
<1>4. /\ file = [r \in Names |-> file[r]] /\ file["fpu"] = f /\ file["rip"] = s[9]
      /\ file["rflags"] = s[10] /\ file["cs"] = USER_CS /\ file["ss"] = USER_SS
      /\ \A r \in Names \ {"fpu", "rip", "rflags", "cs", "ss"} : file[r] = s[1 + SavedSlot[r]]
    BY DEF CallFile, Names
<1> HIDE DEF file
<1>5. {"rax", "rflags", "fpu"} \subseteq Names
    BY DEF Names, General
<1>6. d[8] = s[9] /\ d[9] = s[10]
  <2>1. d[8] = s[1 + 8] /\ d[9] = s[1 + 9]
    BY <1>1
  <2> QED
    BY <2>1
<1>7. ASSUME NEW r \in Registers
      PROVE  c[registers_slot[r]] = child[r]
  <2>1. r \in Names /\ r # "fpu"
    BY DEF Registers
  <2>2. CASE r = "rax"
    BY <1>2, <1>4, <1>5, <2>2
  <2>3. CASE r \in {"cs", "ss", "rip", "rflags"}
    BY <1>2, <1>4, <1>5, <1>6, <2>1, <2>3
  <2>4. CASE r \notin {"rax", "cs", "ss", "rip", "rflags"}
    <3>1. SavedSlot[r] \in 1..16
      BY <2>1, <2>4, SavedTable, PopsTable DEF Names, General
    <3>2. c[registers_slot[r]] = d[SavedSlot[r]]
      BY <1>2, <2>4
    <3>3. d[SavedSlot[r]] = s[1 + SavedSlot[r]]
      BY <1>1, <3>1
    <3>4. child[r] = file[r]
      BY <1>4, <2>1, <2>4
    <3> QED
      BY <1>4, <2>1, <2>4, <3>2, <3>3, <3>4
  <2> QED
    BY <2>2, <2>3, <2>4
<1>8. child = [r \in Names |-> child[r]] /\ child["fpu"] = f
    BY <1>4, <1>5
<1> HIDE DEF child
<1>9. UserFrame(k, 7)
  <2>2. {"cs", "ss", "r10"} \subseteq Registers /\ SavedSlot["r10"] = 5
    BY SavedTable, PopsTable DEF Registers, Names, General
  <2>3. /\ c[registers_slot["cs"]] = USER_CS /\ c[registers_slot["ss"]] = USER_SS
        /\ c[registers_slot["r10"]] = d[5]
    BY <1>2, <2>2
  <2>4. d[5] = s[6]
    <3>1. d[5] = s[1 + 5]
      BY <1>1
    <3> QED
      BY <3>1
  <2>5. \A r \in Registers : k[7 + registers_slot[r]] = c[registers_slot[r]]
    BY <1>3, FrameSlots
  <2> QED
    BY <1>3, <2>2, <2>3, <2>4, <2>5 DEF UserFrame
<1>10. Held(k, f) = [r \in Names |-> IF r # "fpu" THEN k[7 + registers_slot[r]] ELSE f]
    BY <1>3, <1>9, HeldFrame
<1>11. \A r \in Registers : k[7 + registers_slot[r]] = child[r]
    BY <1>3, <1>7, FrameSlots
<1>12. Held(k, f) = child
    BY <1>8, <1>10, <1>11 DEF Registers
<1> QED
    BY <1>12 DEF k, c, d, child, file

LEMMA ForkSeen ==
    ASSUME CInv, NEW t \in Task, Fork(t)
    PROVE  current \in User!Present /\ t \in Task \ User!Present /\ User!Fork(current, t)
<1> DEFINE s == stack[current]
           new == KernelFrame(ForkContext(Drop(s, 1)))
           h == IF current \in handler THEN handler \cup {t} ELSE handler
           file == UserFile(current)
           child == [file EXCEPT !["rax"] = Const("0"), !["rflags"] = UserFlags(file["rflags"])]
<1>1. /\ at = "syscall_handler" /\ t \in Task \ live /\ live' = live \cup {t}
      /\ fpu_raw' = [fpu_raw EXCEPT ![current] = cpu["fpu"], ![t] = cpu["fpu"]]
      /\ SyscallReturn([stack EXCEPT ![t] = new], pending, h)
    BY DEF Fork
<1>2. /\ IsSeq(s) /\ Len(s) = 17 /\ s[6] # Code("syscall_handler") /\ s[1] = Code("syscall_handler")
    BY <1>1, HereFacts, EnteredOnTop DEF CInv, Here
<1>3. /\ fpu_raw'[t] = cpu["fpu"]
      /\ \A u \in live : u # current => fpu_raw'[u] = fpu_raw[u]
    BY <1>1 DEF CInv, Types, Owners
<1>4. file = CallFile(s, cpu["fpu"])
  <2>1. file = Held(s, cpu["fpu"])
    BY <1>1, FileIsHeld
  <2> HIDE DEF file, s
  <2> QED
    BY <1>2, <2>1, HeldCall
<1> HIDE DEF s, file
<1>5. Held(new, cpu["fpu"]) = child
  <2> DEFINE f == cpu["fpu"]
  <2> HIDE DEF f
  <2>1. Held(new, f) =
            [CallFile(s, f) EXCEPT !["rax"] = Const("0"),
                                   !["rflags"] = UserFlags(CallFile(s, f)["rflags"])]
    BY <1>2, ForkChild
  <2> QED
    BY <1>4, <2>1 DEF f
<1> HIDE DEF new, h, child
<1>6. Held(new, fpu_raw'[t]) = child
    BY <1>3, <1>5
<1>7. /\ current \in User!Present /\ t \in Task \ User!Present
      /\ Seen[current] = file
      /\ \E outcome \in User!Outcomes(Seen[current]) :
            Seen' = [Seen EXCEPT ![current] = outcome, ![t] = child]
    BY <1>1, <1>3, <1>6, NewSeen DEF file
<1>8. child = [Seen[current] EXCEPT !["rax"] = User!Const("0"),
                                    !["rflags"] = User!UserFlags(Seen[current]["rflags"])]
    BY <1>7, UserNames DEF child
<1>9. User!Fork(current, t)
    BY <1>7, <1>8 DEF User!Fork, Seen
<1> QED
    BY <1>7, <1>9

\* One step of the code is a step of UserContext, or none.
LEMMA StepSeen ==
    ASSUME CInv, [Next]_vars
    PROVE  User!Next \/ Seen' = Seen
<1>1. CASE UNCHANGED vars
    BY <1>1 DEF vars, entries, Seen, UserFile
<1>2. CASE Compute
    BY <1>2, ComputeSeen DEF User!Next, User!Compute, User!Becomes
<1>3. CASE SyscallEntry
    BY <1>3, SyscallEntrySeen DEF User!Next, User!Call, User!Becomes
<1>4. CASE InterruptReturn
    BY <1>4, InterruptReturnSeen DEF User!Next, User!Interrupted, User!Becomes
<1>5. CASE Int128Return
    BY <1>5, Int128ReturnSeen DEF User!Next, User!Return, User!Becomes
<1>6. CASE Call \/ \E t \in Task : Send(t)
    BY <1>6, CallSeen DEF User!Next, User!Return, User!Becomes
<1>7. CASE Acknowledge
    BY <1>7, AcknowledgeSeen
<1>8. CASE RetFromFork
    BY <1>8, RetFromForkSeen
<1>9. CASE Idle
    BY <1>9, IdleSeen
<1>10. CASE Exec
    BY <1>10, ExecSeen DEF User!Next, User!Exec, User!Becomes
<1>11. ASSUME NEW name \in Handlers \ {"syscall_handler"}, Interrupt(name)
       PROVE  Seen' = Seen
    BY <1>11, InterruptSeen
<1>12. ASSUME NEW q \in live \cup {Kernel}, Sched(q)
       PROVE  Seen' = Seen
    BY <1>12, SchedSeen
<1>13. ASSUME NEW q \in live \cup {Kernel}, Exit(q)
       PROVE  User!Next
  <2>1. current \in User!Present /\ User!Exit(current)
    BY <1>13, ExitSeen
  <2>2. \E t \in User!Present : User!Exit(t)
    BY <2>1 DEF User!Exit, User!Becomes
  <2> QED
    BY <2>2 DEF User!Next
<1>14. ASSUME NEW t \in Task, Fork(t)
       PROVE  User!Next
  <2>1. current \in User!Present /\ t \in Task \ User!Present /\ User!Fork(current, t)
    BY <1>14, ForkSeen
  <2>2. \E u \in User!Present : User!Fork(u, t)
    BY <2>1 DEF User!Fork
  <2> QED
    BY <2>1, <2>2 DEF User!Next
<1>15. ASSUME NEW t \in Task, Spawn(t)
       PROVE  User!Next
    BY <1>15, SpawnSeen DEF User!Next, User!Spawn
<1>16. ASSUME NEW t \in Task, Kill(t)
       PROVE  User!Next
    BY <1>16, KillSeen DEF User!Next, User!Kill
<1> QED
    BY <1>1, <1>2, <1>3, <1>4, <1>5, <1>6, <1>7, <1>8, <1>9, <1>10, <1>11, <1>12, <1>13,
       <1>14, <1>15, <1>16 DEF Next

\* A program keeps its registers (UserContext) through the stubs, the
\* switches, fork, exec and signals of the code, for any number of tasks.
THEOREM UserContextImplemented == Spec => ImplementsUserContext
<1>1. Init => User!Init
    BY InitSeen
<1>2. CInv /\ [Next]_vars => [User!Next]_Seen
    BY StepSeen
<1> QED
    BY <1>1, <1>2, ContextInvariant, PTL DEF Spec, ImplementsUserContext, User!Spec, Seen
=============================================================================
