------------------------------ MODULE Console ------------------------------
(***************************************************************************)
(* The console: programs print (int 0x80, call 1) and clear the screen,    *)
(* and one at a time reads a line (call 4), while the keyboard also feeds  *)
(* /dev/kbd.  input() of lib/string.c holds interrupts off and polls the   *)
(* controller, so the interrupt of the last key it took is still pending   *)
(* when it ends, and the handler reads that key once more.                 *)
(***************************************************************************)
EXTENDS Screen, Keyboard, Sequences

CONSTANTS
    Keys,           \* [kind, lower, upper]: what a key can do
    MaxLine         \* bound: the largest max_len

\* A key that stands for a character stands for one the screen can show.
ASSUME ConsoleAssumption ==
    /\ MaxLine \in Nat
    /\ {"newline", "backspace"} \cap (Chars \cup {Space}) = {}
    /\ \A key \in Keys : key.kind \in {"letter", "digit"} =>
            {key.lower, key.upper} \subseteq Chars \cup {Space}

VARIABLES
    max_len,        \* of the line being read; 0 when none is
    buf,            \* buf[0..buf_idx-1]
    shift_pressed, caps_lock,
    irq             \* a keyboard interrupt is pending

lineVars == <<max_len, buf, shift_pressed, caps_lock, irq>>
vars == <<screenVars, keyboardVars, lineVars>>

Init ==
    /\ ScreenInit
    /\ KeyboardInit
    /\ max_len = 0
    /\ buf = <<>>
    /\ shift_pressed = FALSE /\ caps_lock = FALSE
    /\ irq = FALSE

-----------------------------------------------------------------------------
\* kprintf of a program's text, character by character.
PrintText ==
    /\ max_len = 0
    /\ \E c \in Chars \cup {Space, "newline", "backspace"} : Putc(c)
    /\ UNCHANGED <<keyboardVars, lineVars>>

ClearScreen ==
    /\ max_len = 0
    /\ cls
    /\ UNCHANGED <<keyboardVars, lineVars>>

BeginInput ==
    /\ max_len = 0 /\ ~irq
    /\ max_len' \in 1..MaxLine
    /\ buf' = <<>>
    /\ UNCHANGED <<screenVars, keyboardVars, shift_pressed, caps_lock, irq>>

\* get_ascii: caps lock turns letters alone.
get_ascii(key) ==
    LET up == IF key.kind = "letter" THEN shift_pressed # caps_lock ELSE shift_pressed
    IN  IF up THEN key.upper ELSE key.lower

Erase ==
    IF buf = <<>>
    THEN UNCHANGED <<buf, screenVars>>
    ELSE /\ buf' = SubSeq(buf, 1, Len(buf) - 1)
         /\ Putc("backspace")

\* (fault: the terminator is forgotten)
RoomWithoutEnd == Len(buf) < max_len

\* There is room for one more and the terminator.
Room == Len(buf) < max_len - 1

\* One turn of the loop of input.
Key ==
    /\ max_len # 0
    /\ irq' = TRUE
    /\ \E key \in Keys :
        \/ /\ key.kind = "shift"
           /\ shift_pressed' = TRUE
           /\ UNCHANGED <<max_len, buf, caps_lock, screenVars>>
        \/ /\ key.kind = "release shift"
           /\ shift_pressed' = FALSE
           /\ UNCHANGED <<max_len, buf, caps_lock, screenVars>>
        \/ /\ key.kind = "caps"
           /\ caps_lock' = ~caps_lock
           /\ UNCHANGED <<max_len, buf, shift_pressed, screenVars>>
        \/ /\ key.kind = "enter"
           /\ Putc("newline")
           /\ max_len' = 0 /\ buf' = <<>>
           /\ UNCHANGED <<shift_pressed, caps_lock>>
        \/ /\ key.kind = "backspace"
           /\ Erase
           /\ UNCHANGED <<max_len, shift_pressed, caps_lock>>
        \/ /\ key.kind \in {"letter", "digit"} /\ Room
           /\ buf' = Append(buf, get_ascii(key))
           /\ Putc(get_ascii(key))
           /\ UNCHANGED <<max_len, shift_pressed, caps_lock>>
        \/ /\ \/ key.kind = "dead"
              \/ key.kind \in {"letter", "digit"} /\ ~Room
           /\ UNCHANGED <<max_len, buf, shift_pressed, caps_lock, screenVars>>
    /\ UNCHANGED keyboardVars

\* A key when no line is read, or the one left over from it.
Interrupt ==
    /\ max_len = 0
    /\ keyboard_handler
    /\ irq' = FALSE
    /\ UNCHANGED <<screenVars, max_len, buf, shift_pressed, caps_lock>>

ReadKbd ==
    /\ max_len = 0
    /\ keyboard_read
    /\ UNCHANGED <<screenVars, lineVars>>

Next == PrintText \/ ClearScreen \/ BeginInput \/ Key \/ Interrupt \/ ReadKbd

Spec == Init /\ [][Next]_vars

-----------------------------------------------------------------------------
\* On the ring of pixel rows every character, wrap, scroll, backspace and
\* clear shows what it would on a plain page of text, over any number of
\* scrolls and turns of the ring: nothing that left the screen comes back.
ImplementsTerminal == T!Spec

\* The line in the buffer, its terminator included, fits, and it is what
\* stands in front of the cursor, however it was typed and corrected, as long
\* as it began on this row (behind a row's end putc takes nothing back).
LineShown ==
    max_len # 0 =>
        /\ Len(buf) + 1 <= max_len
        /\ cursor_x >= Len(buf) =>
            \A i \in 1..Len(buf) :
                Shown(cursor_y \div FontRows, cursor_x - Len(buf) + i - 1) = buf[i]
=============================================================================
