------------------------------ MODULE Terminal ------------------------------
(***************************************************************************)
(* The VGA text terminal (init/kernel.c): boot messages and whatever is    *)
(* displayed go to it a character at a time; it wraps long lines and       *)
(* scrolls when they run off the bottom.  Modules Syscall and Boot say who *)
(* prints and when.                                                        *)
(*                                                                         *)
(* Colours are left out, and so are the ten rows below the screen that     *)
(* terminal_initialize clears too.                                         *)
(***************************************************************************)
EXTENDS Integers, SequencesExt

CONSTANTS VGA_WIDTH, VGA_HEIGHT,
          Strings,    \* the strings that are printed
          MaxLog      \* bound: characters printed since the screen was cleared

Blank == " "
NL == "\n"

ASSUME TerminalAssumption == /\ VGA_WIDTH \in Nat \ {0} /\ VGA_HEIGHT \in Nat \ {0}
                             /\ \A s \in Strings : s \in Seq(Range(s))

VARIABLES terminal,   \* video_mem, terminal_row and terminal_col
          log         \* auxiliary: what was printed since the screen was cleared

terminalVars == <<terminal, log>>

Rows == 0 .. VGA_HEIGHT - 1
Cols == 0 .. VGA_WIDTH - 1

Cleared == [mem |-> [y \in Rows |-> [x \in Cols |-> Blank]], row |-> 0, col |-> 0]

\* FirstTimeBootInit is the first terminal_initialize.
TerminalInit == terminal = Cleared /\ log = <<>>

terminal_initialize == terminal' = Cleared /\ log' = <<>>

terminal_putchar(t, c) == [t EXCEPT !.mem[t.row][t.col] = c]

\* Slip: the last row is not cleared.
terminal_scroll_KeepsLast(mem) ==
    [y \in Rows |-> IF y < VGA_HEIGHT - 1 THEN mem[y + 1] ELSE mem[y]]

terminal_scroll(mem) ==
    [y \in Rows |-> IF y < VGA_HEIGHT - 1 THEN mem[y + 1] ELSE [x \in Cols |-> Blank]]

NextRow(t) == [t EXCEPT !.row = @ + 1, !.col = 0]

ScrollIfBelow(t) ==
    IF t.row >= VGA_HEIGHT
    THEN [t EXCEPT !.mem = terminal_scroll(@), !.row = VGA_HEIGHT - 1]
    ELSE t

terminal_writechar(t, c) ==
    LET put == terminal_putchar(t, c) IN
    ScrollIfBelow(IF c = NL THEN NextRow(t)
                  ELSE IF put.col + 1 >= VGA_WIDTH THEN NextRow(put)
                  ELSE [put EXCEPT !.col = @ + 1])

\* The terminal once the characters of str are written.
Written(t, str) ==
    LET Writing[i \in 0 .. Len(str)] ==
            IF i = 0 THEN t ELSE terminal_writechar(Writing[i - 1], str[i])
    IN  Writing[Len(str)]

print(str) == /\ Len(log) + Len(str) <= MaxLog
              /\ terminal' = Written(terminal, str)
              /\ log' = log \o str

-----------------------------------------------------------------------------
(* Properties *)

\* On a page without an end, where the text goes on behind a character c at p.
NextPlace(p, c) == IF c = NL \/ p[2] = VGA_WIDTH - 1 THEN <<p[1] + 1, 0>> ELSE <<p[1], p[2] + 1>>

\* Where the text stands after its first i characters: there the next one goes.
Places(text) == LET Place[i \in 0 .. Len(text)] ==
                        IF i = 0 THEN <<0, 0>> ELSE NextPlace(Place[i - 1], text[i])
                IN  Place

\* What the page has at a place.
OnPage(text, place) ==
    LET At == {i \in DOMAIN text : text[i] # NL /\ Places(text)[i - 1] = place}
    IN  IF At = {} THEN Blank ELSE text[CHOOSE i \in At : TRUE]

\* The line of the page that is the screen's first, once the text goes on in row.
TopLine(row) == IF row < VGA_HEIGHT THEN 0 ELSE row - (VGA_HEIGHT - 1)

Shows(t, text) ==
    LET next == Places(text)[Len(text)]
        top  == TopLine(next[1])
    IN  /\ <<t.row + top, t.col>> = next
        /\ \A y \in Rows, x \in Cols : t.mem[y][x] = OnPage(text, <<top + y, x>>)

\* The screen is the page's last VGA_HEIGHT lines: wrapping and scrolling lose
\* nothing that is not above them, leave nothing behind, and the next character
\* goes where the page has it.
ScreenShowsTail == Shows(terminal, log)
=============================================================================
