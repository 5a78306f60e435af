------------------------------ MODULE Registers ------------------------------
(***************************************************************************)
(* The registers of a user program and the values in them.  A value is a   *)
(* triple <<kind, owner, name>>: where it was made, by whom, and for which *)
(* register, so that two values are equal only where the code copies one.  *)
(* ds and es are left out: nothing reads them in 64-bit mode.              *)
(***************************************************************************)
EXTENDS Integers, Sequences, SequencesExt

CONSTANTS Task, Kernel

ASSUME RegistersAssumption == Kernel \notin Task

General == {"rax", "rbx", "rcx", "rdx", "rsi", "rdi", "rbp", "r8", "r9", "r10", "r11",
            "r12", "r13", "r14", "r15"}

Names == General \cup {"rip", "cs", "rflags", "rsp", "ss", "fpu"}

Const(name) == <<"const", Kernel, name>>
Code(name) == <<"code", Kernel, name>>

USER_CS == 67
USER_SS == 59
KERNEL_CS == 40
KERNEL_SS == 48

\* Registers with cs and ss fixed and the others by Value.
File(cs, ss, value) ==
    [r \in Names |-> IF r = "cs" THEN cs ELSE IF r = "ss" THEN ss ELSE value[r]]

\* What task t computes for itself.
Own(t) == File(USER_CS, USER_SS, [r \in Names |-> <<"user", t, r>>])

\* (rflags & USER_RFLAGS_MASK) | 0x202, twice as good as once.
UserFlags(v) == <<"masked", v[2], v[3]>>

\* A program at its entry: argc and argv in rdi and rsi, the rest zero.
ImageFile ==
    File(USER_CS, USER_SS,
         [r \in Names |->
            CASE r = "rip" -> Const("entry")
              [] r = "rsp" -> Const("stack_top")
              [] r = "rflags" -> Const("0x202")
              [] r = "rdi" -> Const("argc")
              [] r = "rsi" -> Const("argv")
              [] r = "fpu" -> Const("fpu_default_image")
              [] OTHER -> Const("0")])

\* signal_check_user: to the handler, on a frame below the red zone.
SignalFrame(v) == <<"signal_frame", v[2], v[3]>>
=============================================================================
