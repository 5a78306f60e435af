----------------------------- MODULE UserContext -----------------------------
(***************************************************************************)
(* What a program may rely on of its registers.  Nothing changes them but  *)
(* the program itself, the system calls it makes and the signals it asked  *)
(* for, whatever runs in between.                                          *)
(***************************************************************************)
EXTENDS Registers

VARIABLE context    \* the registers of each task, <<>> when there is none

Absent == <<>>
Present == {t \in Task : context[t] # Absent}

Init == \E t \in Task : context = [u \in Task |-> IF u = t THEN ImageFile ELSE Absent]

Becomes(t, file) == context' = [context EXCEPT ![t] = file]

Compute(t) == Becomes(t, Own(t))

\* SYSCALL keeps rip and rflags in rcx and r11.
Call(t) ==
    Becomes(t, [context[t] EXCEPT !["rcx"] = context[t]["rip"], !["r11"] = context[t]["rflags"]])

Result(file) == [file EXCEPT !["rax"] = Const("result")]

Handled(file) ==
    [file EXCEPT !["rip"] = Const("sigterm_handler"), !["rsp"] = SignalFrame(file["rsp"])]

\* What a call returns to: its caller, or the handler of a signal; SYSRET
\* too keeps rip in rcx.
Outcomes(file) ==
    {Result(file), [Handled(Result(file)) EXCEPT !["rcx"] = Const("sigterm_handler")]}

Return(t) == \E file \in Outcomes(context[t]) : Becomes(t, file)

Interrupted(t) == Becomes(t, Handled(context[t]))

\* Only the result tells the child from its parent, and the masked flags.
Fork(t, c) ==
    \E file \in Outcomes(context[t]) :
        context' = [context EXCEPT
            ![t] = file,
            ![c] = [context[t] EXCEPT !["rax"] = Const("0"),
                                      !["rflags"] = UserFlags(context[t]["rflags"])]]

Spawn(t, c) ==
    \E file \in Outcomes(context[t]) : context' = [context EXCEPT ![t] = file, ![c] = ImageFile]

\* A signal that meets no handler ends its target; its sender goes on.
Kill(t, u) ==
    /\ t # u
    /\ \E file \in Outcomes(context[t]) :
        context' = [context EXCEPT ![t] = file, ![u] = Absent]

Exec(t) == Becomes(t, ImageFile)

Exit(t) == Becomes(t, Absent)

Next ==
    \E t \in Present :
        \/ Compute(t) \/ Call(t) \/ Return(t) \/ Interrupted(t) \/ Exec(t) \/ Exit(t)
        \/ \E c \in Task \ Present : Fork(t, c) \/ Spawn(t, c)
        \/ \E u \in Present : Kill(t, u)

Spec == Init /\ [][Next]_context
=============================================================================
