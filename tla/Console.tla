------------------------------ MODULE Console -------------------------------
(***************************************************************************)
(* The cursor of the framebuffer console (init/kernel.c): the keyboard     *)
(* interrupt echoes what is typed with PrintChar, the shell writes with    *)
(* Print, a system call that runs with interrupts off, and the command cls *)
(* moves the cursor itself, from user mode, where a key may interrupt it   *)
(* between its two assignments.                                            *)
(*                                                                         *)
(* Pixels are left out: a glyph is known by where it is drawn.  Print      *)
(* draws a string with RenderString, which keeps a position of its own,    *)
(* and then moves the cursor over the same string; here both go over it    *)
(* together, a character a step, since nothing can see one without the     *)
(* other.  What the shell prints for a command is one of Outputs.          *)
(***************************************************************************)
EXTENDS Integers, Sequences

CONSTANTS CharWidth, CharHeight,   \* 8 and 16
          Width,                   \* w, as the unsigned number it is compared as
          Word,                    \* 2^32: columns are unsigned ints
          Outputs,                 \* what commands print: sequences of strings
          Prompt,                  \* "0:/> "
          InputSize,               \* sizeof(input_buffer)
          LastRow                  \* bound: below this row only cls is entered

NL == "nl"
BS == "bs"
Key == "key"       \* any other character

ASSUME ConsoleAssumption ==
    /\ CharWidth \in Nat \ {0} /\ CharHeight \in Nat \ {0}
    /\ Word \in Nat \ {0} /\ Width \in 0 .. Word - 1 /\ CharWidth < Word
    /\ InputSize \in Nat \ {0} /\ LastRow \in Nat
    /\ Prompt \in Seq({NL, Key}) /\ Outputs \subseteq Seq(Seq({NL, Key}))

VARIABLES cursor,    \* global_cursor_x, global_cursor_y
          drawn,     \* where the last glyph drawn ends: cursor_x, cursor_y
          margin,    \* where RenderString was told to begin
          input,     \* input_buffer up to input_pos
          exec,
          pc,        \* what the shell is doing
          text,      \* the rest of the string in Print
          back,      \* where Print returns to
          todo,      \* the strings the command has yet to print
          start,     \* auxiliary: where the prompt of this line ended
          clean,     \* auxiliary: nothing but the line was drawn since then
          eaten      \* auxiliary: the cells in front of start that '\b' blanked

aux == <<start, clean, eaten>>
vars == <<cursor, drawn, margin, input, exec, pc, text, back, todo, aux>>

Position == [x : 0 .. Word - 1, y : Nat]
Home == [x |-> 0, y |-> 0]

\* The cells of the screen in reading order.
Cell(p) == (p.y \div CharHeight) * (Width \div CharWidth) + (p.x \div CharWidth)

\* KiUserInit has cleared the screen and prints its first prompt.
Init == /\ cursor = Home /\ drawn = Home /\ margin = 0 /\ start = Home
        /\ input = <<>> /\ exec = FALSE /\ clean = TRUE /\ eaten = 0
        /\ pc = "print" /\ text = Prompt /\ back = "poll" /\ todo = <<>>

-----------------------------------------------------------------------------
(* Moving over a character *)

\* Slip: the column is tested before it is moved.
Advance_LateWrap(p, c, left) ==
    IF c = NL \/ (p.x + CharWidth) % Word > Width
    THEN [x |-> left, y |-> p.y + CharHeight]
    ELSE [x |-> (p.x + CharWidth) % Word, y |-> p.y]

\* From position p, with lines that begin at column left.
Advance(p, c, left) ==
    LET x == (p.x + CharWidth) % Word
    IN  IF c = NL \/ (x + CharWidth) % Word > Width
        THEN [x |-> left, y |-> p.y + CharHeight]
        ELSE [x |-> x, y |-> p.y]

\* Slips: the first row is not told apart, or no row is left.
Retreat_NoFirstRow(p) ==
    IF p.x >= CharWidth THEN [x |-> p.x - CharWidth, y |-> p.y]
    ELSE [x |-> (Width - CharWidth) % Word, y |-> p.y - CharHeight]

Retreat_InRow(p) == IF p.x >= CharWidth THEN [x |-> p.x - CharWidth, y |-> p.y] ELSE p

\* On a screen narrower than a glyph the end of the row is a column near 2^32.
Retreat(p) ==
    IF p.x >= CharWidth THEN [x |-> p.x - CharWidth, y |-> p.y]
    ELSE IF p.y >= CharHeight THEN [x |-> (Width - CharWidth) % Word, y |-> p.y - CharHeight]
    ELSE p

\* The cell that '\b' blanks and the glyph of any other character are drawn at
\* the cursor.
PrintChar(c) ==
    /\ cursor' = IF c = BS THEN Retreat(cursor) ELSE Advance(cursor, c, 0)
    /\ drawn' = cursor'

-----------------------------------------------------------------------------
(* The keyboard interrupt *)

\* Print runs inside a system call.
Interruptible == pc # "print"

\* A '\b' that goes back from where the line began blanks a cell of the prompt.
Stray == IF eaten < Cell(start) THEN eaten + 1 ELSE eaten

Backspace ==
    /\ input # <<>>
    /\ input' = SubSeq(input, 1, Len(input) - 1)
    /\ PrintChar(BS)
    /\ eaten' = IF input = <<BS>> THEN Stray ELSE eaten
    /\ UNCHANGED <<exec, start, clean>>

Enter == /\ exec' = TRUE
         /\ input' = <<>>
         /\ UNCHANGED <<cursor, drawn, aux>>

\* On an empty line '\b' is kept and echoed like a character.
Type(c) ==
    /\ c = BS => input = <<>>
    /\ Len(input) < InputSize - 1 /\ cursor.y <= LastRow
    /\ input' = Append(input, c)
    /\ PrintChar(c)
    /\ eaten' = IF c = BS THEN Stray ELSE eaten
    /\ UNCHANGED <<exec, start, clean>>

int21h_handler == /\ Interruptible
                  /\ Backspace \/ Enter \/ \E c \in {Key, BS} : Type(c)
                  /\ UNCHANGED <<margin, pc, text, back, todo>>

-----------------------------------------------------------------------------
(* The shell *)

\* The system call: Print enters RenderString with the cursor's position.
PrintString(string, return) ==
    /\ pc' = "print"
    /\ text' = string
    /\ back' = return
    /\ margin' = cursor.x
    /\ drawn' = cursor
    /\ clean' = (input = <<>>)
    /\ UNCHANGED <<cursor, input, start, eaten>>

PrintStep == /\ pc = "print" /\ text # <<>>
             /\ cursor' = Advance(cursor, Head(text), 0)
             /\ drawn' = Advance(drawn, Head(text), margin)
             /\ text' = Tail(text)
             /\ UNCHANGED <<margin, input, exec, pc, back, todo, aux>>

PrintReturns == /\ pc = "print" /\ text = <<>>
                /\ pc' = back
                /\ start' = IF input = <<>> THEN cursor ELSE start
                /\ eaten' = IF input = <<>> THEN 0 ELSE eaten
                /\ UNCHANGED <<cursor, drawn, margin, input, exec, text, back, todo, clean>>

NsExec == /\ pc = "poll" /\ exec /\ cursor.y <= LastRow
          /\ pc' = "show"
          /\ \E out \in Outputs : todo' = out
          /\ UNCHANGED <<cursor, drawn, margin, input, exec, text, back, aux>>

\* cls, once the buffer is cleared: two assignments.
ClsColumn == /\ pc = "poll" /\ exec
             /\ pc' = "cls"
             /\ cursor' = [cursor EXCEPT !.x = 0]
             /\ UNCHANGED <<drawn, margin, input, exec, text, back, todo, aux>>

ClsRow == /\ pc = "cls"
          /\ pc' = "show"
          /\ cursor' = [cursor EXCEPT !.y = 0]
          /\ drawn' = cursor'
          /\ UNCHANGED <<margin, input, exec, text, back, todo, aux>>

Show == /\ pc = "show" /\ todo # <<>>
        /\ PrintString(Head(todo), "show")
        /\ todo' = Tail(todo)
        /\ UNCHANGED exec

\* exec = 0, then the prompt: a key may come between the two.
ClearExec == /\ pc = "show" /\ todo = <<>>
             /\ exec' = FALSE
             /\ pc' = "prompt"
             /\ UNCHANGED <<cursor, drawn, margin, input, text, back, todo, aux>>

ShowPrompt == /\ pc = "prompt"
              /\ PrintString(Prompt, "poll")
              /\ UNCHANGED <<exec, todo>>

Next == \/ int21h_handler
        \/ NsExec \/ ClsColumn \/ ClsRow \/ Show \/ ClearExec
        \/ ShowPrompt \/ PrintStep \/ PrintReturns

Spec == Init /\ [][Next]_vars
-----------------------------------------------------------------------------
(* Properties *)

TypeOK == /\ cursor \in Position /\ drawn \in Position /\ start \in Position
          /\ margin \in 0 .. Word - 1 /\ eaten \in Nat
          /\ input \in Seq({Key, BS}) /\ Len(input) < InputSize
          /\ exec \in BOOLEAN /\ clean \in BOOLEAN
          /\ pc \in {"poll", "show", "print", "cls", "prompt"}
          /\ back \in {"poll", "show"}
          /\ text \in Seq({NL, Key}) /\ todo \in Seq(Seq({NL, Key}))

\* A row has a place for a glyph, and columns beyond it do not wrap.  fetchwh may
\* leave any width, 0 among them: such a screen has no place for a cursor.
HasColumns == CharWidth <= Width /\ Width + CharWidth < Word

\* The cursor leaves room for a glyph to its right, on every screen that has room
\* for one: typing and printing wrap in time, '\b' at the left edge goes to the
\* end of the row above and stays put in the corner (the columns are unsigned),
\* and a key that comes between the two assignments of cls does no harm.
CursorInColumns == HasColumns => cursor.x + CharWidth <= Width

\* What the line shows: a '\b' kept at its front shows as nothing.
Shown == IF input # <<>> /\ Head(input) = BS THEN Tail(input) ELSE input

\* While a line is typed at its prompt the cursor stands as many cells behind the
\* prompt's end as the line has characters, over the wrapping of rows and back:
\* what '\b' blanks is the character it removes from input_buffer.  The only
\* exceptions are a '\b' kept on an empty line and the one that removes it: each
\* of those blanks one cell of the prompt, or of what is above it, for good.
CursorTracksInput ==
    HasColumns /\ pc = "poll" /\ ~exec /\ clean =>
        Cell(cursor) = Cell(start) - eaten + Len(Shown)

\* Every glyph Print draws is in the cell that Print then moves the cursor over
\* ("Update global cursor position", init/kernel.c:452): what comes next, a
\* prompt or a key, goes behind the text.
CursorFollowsText ==
    pc = "print" /\ text # <<>> /\ Head(text) = Key => drawn = cursor
=============================================================================
