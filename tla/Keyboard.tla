------------------------------ MODULE Keyboard ------------------------------
(***************************************************************************)
(* /dev/kbd: the handler of the keyboard interrupt pushes scancodes on a   *)
(* bounded stack and read pops them (core/drivers/keyboard.c,              *)
(* core/memory/stack.c).  The bytes are counted apart from the stack's     *)
(* pointer, which is unsigned and starts at 0.                             *)
(***************************************************************************)
EXTENDS Integers

CONSTANTS MaxSize, PointerWord      \* MAX_SIZE; 2^64

ASSUME KeyboardAssumption ==
    MaxSize \in Nat \ {0, 1} /\ PointerWord \in Nat /\ PointerWord > MaxSize

VARIABLES top, data_stack_size

keyboardVars == <<top, data_stack_size>>

KeyboardInit == top = 0 /\ data_stack_size = 0

isFull(t) == t >= MaxSize - 1
isEmpty(t) == t = PointerWord - 1

\* (fault: the last place counts as free)
PushedTooFar(t) == IF t >= MaxSize THEN t ELSE t + 1

\* push and pop as far as the pointer goes.
Pushed(t) == IF isFull(t) THEN t ELSE t + 1
Popped(t) == IF isEmpty(t) THEN t ELSE (t - 1) % PointerWord

\* keyboard_handler: a stack that has counted MAX_SIZE bytes is emptied first.
keyboard_handler ==
    LET reset == data_stack_size = MaxSize
    IN  /\ top' = Pushed(IF reset THEN 0 ELSE top)
        /\ data_stack_size' = (IF reset THEN 0 ELSE data_stack_size) + 1

\* keyboard_read, one byte at a time.
keyboard_read ==
    /\ data_stack_size > 0
    /\ top' = Popped(top)
    /\ data_stack_size' = data_stack_size - 1

-----------------------------------------------------------------------------
\* The stack never leaves its array, in either direction, over any sequence of
\* interrupts and reads.  Its pointer and the separate count differ by no more
\* than the one byte a full stack drops, until a full stack has been drained:
\* then every byte is dropped, and read makes up 0xFF, until the count fills up.
KeyboardInside ==
    /\ data_stack_size \in 0..MaxSize
    /\ \/ top \in 0..(MaxSize - 1)
          /\ data_stack_size - top \in {0, 1}
       \/ top = PointerWord - 1
=============================================================================
