------------------------------- MODULE Screen -------------------------------
(***************************************************************************)
(* The text console of core/drivers/screen.c.  Scrolling moves no pixel:   *)
(* the framebuffer is a ring of pixel rows that begins at fb_offset, and   *)
(* scroll clears the rows that come round.  Columns are counted in         *)
(* characters, rows in pixels; a glyph is FontRows high.                   *)
(***************************************************************************)
EXTENDS Integers

CONSTANTS
    Height,         \* pixel rows of the framebuffer
    FontRows,       \* FONT_ROWS
    Columns,        \* width / FONT_COLS
    Chars, Space,
    Word            \* 2^32: fb_offset only grows

\* Other heights than multiples of FONT_ROWS make scroll clear memory behind
\* the framebuffer; heights that do not divide 2^32 make the picture jump when
\* fb_offset wraps around.
ASSUME ScreenAssumption ==
    /\ {Height, FontRows, Columns, Word} \subseteq Nat \ {0}
    /\ Height % FontRows = 0 /\ Word % Height = 0
    /\ Space \notin Chars

VARIABLES
    fb,             \* pixel row |-> column |-> the row of a glyph shown there
    cursor_x, cursor_y,
    fb_offset

screenVars == <<fb, cursor_x, cursor_y, fb_offset>>

Blank == <<Space, 0>>

\* A space has no ink.
GlyphRow(c, g) == IF c = Space THEN Blank ELSE <<c, g>>

Cleared == [r \in 0..(Height - 1) |-> [x \in 0..(Columns - 1) |-> Blank]]

ScreenInit ==
    /\ fb = Cleared
    /\ cursor_x = 0 /\ cursor_y = 0 /\ fb_offset = 0

-----------------------------------------------------------------------------
\* put_pixel: where a row on the screen is in the ring.
RealRow(y, off) == ((y + off) % Word) % Height

\* draw_char
Drawn(f, c, x, y, off) ==
    [r \in 0..(Height - 1) |->
        IF \E g \in 0..(FontRows - 1) : RealRow(y + g, off) = r
        THEN [f[r] EXCEPT ![x] =
                GlyphRow(c, CHOOSE g \in 0..(FontRows - 1) : RealRow(y + g, off) = r)]
        ELSE f[r]]

\* (fault: the rows that have just left the screen stay as they are)
ScrolledUncleared(f, off) == f

\* The memset of scroll, which comes after fb_offset has moved to off.
Scrolled(f, off) ==
    LET clear_row == (off + Height - FontRows) % Height
    IN  [r \in 0..(Height - 1) |->
            IF r \in clear_row..(clear_row + FontRows - 1)
            THEN [x \in 0..(Columns - 1) |-> Blank]
            ELSE f[r]]

\* putc: wrap, scroll, then the character.
Putc(c) ==
    LET wrap == cursor_x = Columns
        x == IF wrap THEN 0 ELSE cursor_x
        line == IF wrap THEN cursor_y + FontRows ELSE cursor_y
        full == line + FontRows > Height
        y == IF full THEN line - FontRows ELSE line
        off == IF full THEN (fb_offset + FontRows) % Word ELSE fb_offset
        rows == IF full THEN Scrolled(fb, off) ELSE fb
    IN  /\ fb_offset' = off
        /\ \/ /\ c = "newline"
              /\ cursor_x' = 0 /\ cursor_y' = y + FontRows
              /\ fb' = rows
           \/ /\ c = "backspace" /\ x = 0
              /\ cursor_x' = 0 /\ cursor_y' = y
              /\ fb' = rows
           \/ /\ c = "backspace" /\ x > 0
              /\ cursor_x' = x - 1 /\ cursor_y' = y
              /\ fb' = Drawn(rows, Space, x - 1, y, off)
           \/ /\ c \in Chars \cup {Space}
              /\ cursor_x' = x + 1 /\ cursor_y' = y
              /\ fb' = Drawn(rows, c, x, y, off)

cls ==
    /\ fb' = Cleared
    /\ cursor_x' = 0 /\ cursor_y' = 0 /\ fb_offset' = 0

-----------------------------------------------------------------------------
\* The character whose glyph stands at a place of the screen, if any does.
Shown(line, x) ==
    LET at(g) == fb[RealRow(line * FontRows + g, fb_offset)][x]
        c == at(0)[1]
    IN  IF \A g \in 0..(FontRows - 1) : at(g) = GlyphRow(c, g) THEN c ELSE "garbled"

T == INSTANCE Terminal WITH
        Rows <- Height \div FontRows,
        text <- [l \in 0..(Height \div FontRows - 1) |-> [x \in 0..(Columns - 1) |-> Shown(l, x)]],
        cx <- cursor_x,
        cy <- cursor_y \div FontRows
=============================================================================
