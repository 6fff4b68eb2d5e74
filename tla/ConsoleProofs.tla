---------------------------- MODULE ConsoleProofs ---------------------------
(***************************************************************************)
(* The console's cursor stays on the screen and on the cells of the line   *)
(* that is typed, for every text and every width that has a column; the    *)
(* types need no such width.  Every move of the cursor is an Advance, a    *)
(* Retreat or one of the two assignments of cls.                           *)
(* That the cursor follows the line needs more than the types: it stands   *)
(* at a multiple of a glyph's width from the left or from the right edge,  *)
(* so that the width need not be one, and Print is not under a line that   *)
(* counts as undisturbed.                                                  *)
(***************************************************************************)
EXTENDS Console, NumberLemmas, TLAPS

Inv == TypeOK /\ CursorInColumns

\* On a screen with columns the unsigned sums do not wrap.
LEMMA AdvanceIs ==
    ASSUME HasColumns, NEW p \in Position, p.x + CharWidth <= Width, NEW c, NEW left
    PROVE  Advance(p, c, left) = IF c = NL \/ p.x + CharWidth + CharWidth > Width
                                 THEN [x |-> left, y |-> p.y + CharHeight]
                                 ELSE [x |-> p.x + CharWidth, y |-> p.y]
  <1>1. /\ p.x + CharWidth \in Nat /\ p.x + CharWidth < Word
        /\ (p.x + CharWidth) + CharWidth \in Nat /\ (p.x + CharWidth) + CharWidth < Word
        /\ Word \in Nat \ {0}
    BY ConsoleAssumption DEF HasColumns, Position
  <1>2. (p.x + CharWidth) % Word = p.x + CharWidth
    BY <1>1, Small
  <1>3. ((p.x + CharWidth) + CharWidth) % Word = p.x + CharWidth + CharWidth
    BY <1>1, Small
  <1> QED
    BY <1>2, <1>3 DEF Advance

\* Nor does the last column.
LEMMA RetreatIs ==
    ASSUME HasColumns, NEW p \in Position
    PROVE  Retreat(p) = IF p.x >= CharWidth THEN [x |-> p.x - CharWidth, y |-> p.y]
                        ELSE IF p.y >= CharHeight
                             THEN [x |-> Width - CharWidth, y |-> p.y - CharHeight]
                             ELSE p
  <1>1. Width - CharWidth \in Nat /\ Width - CharWidth < Word /\ Word \in Nat \ {0}
    BY ConsoleAssumption DEF HasColumns
  <1>2. (Width - CharWidth) % Word = Width - CharWidth
    BY <1>1, Small
  <1> QED
    BY <1>2 DEF Retreat

\* A position moved over a character is a position, and has room for a glyph if
\* the left margin has.
LEMMA AdvanceStays ==
    ASSUME NEW p \in Position, NEW c, NEW left \in 0 .. Word - 1
    PROVE  /\ Advance(p, c, left) \in Position
           /\ HasColumns /\ left + CharWidth <= Width /\ p.x + CharWidth <= Width
                 => Advance(p, c, left).x + CharWidth <= Width
  <1> DEFINE x == (p.x + CharWidth) % Word
  <1>1. Advance(p, c, left) \in Position
    <2>1. x \in 0 .. Word - 1
      <3>1. p.x + CharWidth \in Int /\ Word \in Nat \ {0}
        BY ConsoleAssumption DEF Position
      <3>2. x \in Nat /\ x < Word
        BY <3>1, IntDivided
      <3> QED
        BY <3>1, <3>2
    <2> HIDE DEF x
    <2>2. Advance(p, c, left) = IF c = NL \/ (x + CharWidth) % Word > Width
                                THEN [x |-> left, y |-> p.y + CharHeight]
                                ELSE [x |-> x, y |-> p.y]
      BY DEF Advance, x
    <2> QED
      BY <2>1, <2>2, ConsoleAssumption DEF Position
  <1>2. ASSUME HasColumns, left + CharWidth <= Width, p.x + CharWidth <= Width
        PROVE  Advance(p, c, left).x + CharWidth <= Width
    <2>1. Advance(p, c, left) = IF c = NL \/ p.x + CharWidth + CharWidth > Width
                                THEN [x |-> left, y |-> p.y + CharHeight]
                                ELSE [x |-> p.x + CharWidth, y |-> p.y]
      BY <1>2, AdvanceIs
    <2> QED
      BY <1>2, <2>1, ConsoleAssumption DEF Position
  <1> QED
    BY <1>1, <1>2

\* So has the cell that '\b' goes back to.
LEMMA RetreatStays ==
    ASSUME NEW p \in Position
    PROVE  /\ Retreat(p) \in Position
           /\ HasColumns /\ p.x + CharWidth <= Width => Retreat(p).x + CharWidth <= Width
  <1>1. (Width - CharWidth) % Word \in 0 .. Word - 1
    BY ConsoleAssumption, IntDivided
  <1>2. Retreat(p) \in Position
    BY <1>1, ConsoleAssumption DEF Position, Retreat
  <1>3. ASSUME HasColumns, p.x + CharWidth <= Width PROVE Retreat(p).x + CharWidth <= Width
    <2>1. Retreat(p) = IF p.x >= CharWidth THEN [x |-> p.x - CharWidth, y |-> p.y]
                       ELSE IF p.y >= CharHeight
                            THEN [x |-> Width - CharWidth, y |-> p.y - CharHeight]
                            ELSE p
      BY <1>3, RetreatIs
    <2> QED
      BY <1>3, <2>1, ConsoleAssumption DEF Position
  <1> QED
    BY <1>2, <1>3

\* PrintChar keeps the cursor in place for a glyph.
LEMMA PrintCharStays ==
    ASSUME Inv, NEW c, PrintChar(c)
    PROVE  cursor' \in Position /\ drawn' \in Position /\ CursorInColumns'
  <1>1. cursor \in Position /\ 0 \in 0 .. Word - 1 /\ (HasColumns => 0 + CharWidth <= Width)
    BY ConsoleAssumption DEF Inv, TypeOK, HasColumns
  <1>2. /\ Advance(cursor, c, 0) \in Position /\ Retreat(cursor) \in Position
        /\ HasColumns => /\ Advance(cursor, c, 0).x + CharWidth <= Width
                         /\ Retreat(cursor).x + CharWidth <= Width
    BY <1>1, AdvanceStays, RetreatStays DEF Inv, CursorInColumns
  <1> QED
    BY <1>2 DEF PrintChar, CursorInColumns, HasColumns

\* A stray '\b' is counted.
LEMMA StrayIsNumber == TypeOK => Stray \in Nat
  BY DEF TypeOK, Stray

\* The keyboard interrupt: it changes the line, the cursor and exec.
LEMMA KeyInv == Inv /\ int21h_handler => Inv'
  <1> SUFFICES ASSUME Inv, int21h_handler PROVE Inv'
    OBVIOUS
  <1> USE DEF Inv, TypeOK
  <1>1. CASE Backspace
    <2>1. cursor' \in Position /\ drawn' \in Position /\ CursorInColumns'
      BY <1>1, PrintCharStays DEF Backspace
    <2>2. input' \in Seq({Key, BS}) /\ Len(input') < InputSize
      BY <1>1, ConsoleAssumption DEF Backspace
    <2>3. start' \in Position /\ eaten' \in Nat
      BY <1>1, StrayIsNumber DEF Backspace
    <2> QED
      BY <1>1, <2>1, <2>2, <2>3 DEF Backspace, int21h_handler
  <1>2. CASE Enter
    BY <1>2, ConsoleAssumption DEF Enter, int21h_handler, CursorInColumns, aux
  <1>3. ASSUME NEW c \in {Key, BS}, Type(c) PROVE Inv'
    <2>1. cursor' \in Position /\ drawn' \in Position /\ CursorInColumns'
      BY <1>3, PrintCharStays DEF Type
    <2>2. input' \in Seq({Key, BS}) /\ Len(input') < InputSize
      BY <1>3, ConsoleAssumption DEF Type
    <2>3. start' \in Position /\ eaten' \in Nat
      BY <1>3, StrayIsNumber DEF Type
    <2> QED
      BY <1>3, <2>1, <2>2, <2>3 DEF Type, int21h_handler
  <1> QED
    BY <1>1, <1>2, <1>3 DEF int21h_handler

\* The shell's steps.
LEMMA ShellInv == Inv /\ [Next]_vars => Inv'
  <1> SUFFICES ASSUME Inv, [Next]_vars PROVE Inv'
    OBVIOUS
  <1> USE DEF Inv, TypeOK
  <1>1. CASE int21h_handler
    BY <1>1, KeyInv
  <1>2. CASE NsExec
    BY <1>2, ConsoleAssumption DEF NsExec, CursorInColumns, aux
  <1>3. CASE ClsColumn
    <2>1. cursor' \in Position /\ cursor'.x = 0
      <3>1. 0 \in 0 .. Word - 1 /\ cursor' = [x |-> 0, y |-> cursor.y] /\ cursor.y \in Nat
        <4>1. cursor = [x |-> cursor.x, y |-> cursor.y] /\ cursor.y \in Nat
          BY DEF Position
        <4>2. cursor' = [x |-> 0, y |-> cursor.y]
          BY <1>3, <4>1 DEF ClsColumn
        <4> QED
          BY <4>1, <4>2, ConsoleAssumption
      <3> QED
        BY <3>1 DEF Position
    <2>2. CursorInColumns'
      BY <2>1, ConsoleAssumption DEF CursorInColumns, HasColumns
    <2> QED
      BY <1>3, <2>1, <2>2 DEF ClsColumn, aux
  <1>4. CASE ClsRow
    BY <1>4, ConsoleAssumption DEF ClsRow, CursorInColumns, Position, aux
  <1>5. CASE Show
    <2>1. Head(todo) \in Seq({NL, Key}) /\ Tail(todo) \in Seq(Seq({NL, Key}))
      BY <1>5 DEF Show
    <2> QED
      BY <1>5, <2>1 DEF Show, PrintString, CursorInColumns, Position
  <1>6. CASE ClearExec
    BY <1>6 DEF ClearExec, CursorInColumns, aux
  <1>7. CASE ShowPrompt
    BY <1>7, ConsoleAssumption DEF ShowPrompt, PrintString, CursorInColumns, Position
  <1>8. CASE PrintStep
    <2>1. 0 \in 0 .. Word - 1 /\ (HasColumns => 0 + CharWidth <= Width)
      BY ConsoleAssumption DEF HasColumns
    <2>2. cursor' \in Position /\ CursorInColumns'
      BY <1>8, <2>1, AdvanceStays DEF PrintStep, CursorInColumns, HasColumns
    <2>3. drawn' \in Position
      BY <1>8, AdvanceStays DEF PrintStep
    <2>4. text' \in Seq({NL, Key})
      BY <1>8 DEF PrintStep
    <2> QED
      BY <1>8, <2>2, <2>3, <2>4 DEF PrintStep, aux
  <1>9. CASE PrintReturns
    BY <1>9 DEF PrintReturns, CursorInColumns
  <1>10. CASE UNCHANGED vars
    BY <1>10 DEF vars, aux, CursorInColumns
  <1> QED
    BY <1>1, <1>2, <1>3, <1>4, <1>5, <1>6, <1>7, <1>8, <1>9, <1>10 DEF Next

\* The invariant holds at first,
LEMMA InitInv == Init => Inv
  <1> SUFFICES ASSUME Init PROVE Inv
    OBVIOUS
  <1>1. Home \in Position /\ Home.x = 0
    BY ConsoleAssumption DEF Home, Position
  <1>2. CursorInColumns
    BY <1>1, ConsoleAssumption DEF Init, CursorInColumns, HasColumns
  <1>3. input \in Seq({Key, BS}) /\ Len(input) = 0 /\ 0 < InputSize
    BY ConsoleAssumption DEF Init
  <1>4. text \in Seq({NL, Key}) /\ todo \in Seq(Seq({NL, Key}))
    BY ConsoleAssumption DEF Init
  <1> QED
    <2>1. margin \in 0 .. Word - 1 /\ eaten \in Nat
      BY ConsoleAssumption DEF Init
    <2> QED
      BY <1>1, <1>2, <1>3, <1>4, <2>1 DEF Init, Inv, TypeOK

\* and so throughout.
LEMMA Invariance == Spec => []Inv
  BY InitInv, ShellInv, PTL DEF Spec

\* Cursor, line and text have their types, for every width, one that fetchwh left
\* at 0 included: no row above the first is ever stored in global_cursor_y, and
\* the line fits input_buffer with its NUL.
THEOREM ConsoleTypeOK == Spec => []TypeOK
  BY Invariance, PTL DEF Inv

\* On every screen that has room for a glyph the cursor never leaves the columns,
\* whatever is typed, and whenever: global_cursor_x is below w by the width of a
\* glyph after every PrintChar, Print and cls.
THEOREM CursorOnScreen == Spec => []CursorInColumns
  BY Invariance, PTL DEF Inv

-----------------------------------------------------------------------------
(* The cells of the screen *)

Columns == Width \div CharWidth

\* Where the cursor can stand: whole glyphs from the left edge, or from the
\* right edge, where Retreat goes at the end of a row; and whole rows.
OnGrid(p) == /\ HasColumns /\ p \in Position /\ p.x + CharWidth <= Width
             /\ p.x % CharWidth \in {0, Width % CharWidth}
             /\ p.y % CharHeight = 0

\* The column of a position on the grid, and where the last column is.
LEMMA ColumnOf ==
  ASSUME NEW x \in Nat, x + CharWidth <= Width, x % CharWidth \in {0, Width % CharWidth}
  PROVE  /\ Columns \in Nat \ {0} /\ x \div CharWidth \in 0 .. Columns - 1
         /\ x + CharWidth + CharWidth > Width <=> x \div CharWidth = Columns - 1
  <1> DEFINE a == x \div CharWidth
             s == x % CharWidth
             r == Width % CharWidth
             w == CharWidth
  <1>1. w \in Nat \ {0} /\ Width \in Nat
    BY ConsoleAssumption
  <1>2. a \in Nat /\ s \in Nat /\ s < w /\ x = a * w + s
    BY <1>1, Divided
  <1>3. Columns \in Nat /\ r \in Nat /\ r < w /\ Width = Columns * w + r
    BY <1>1, Divided DEF Columns
  <1>4. s \in {0, r}
    OBVIOUS
  <1>5. Width < (Columns + 1) * w /\ x + w = (a + 1) * w + s /\ x + w + w = (a + 2) * w + s
    BY <1>1, <1>2, <1>3
  <1>6. PICK C \in Nat : C = Columns
    BY <1>3
  <1> HIDE DEF a, s, r, w
  <1>7. a + 1 <= C
    <2> SUFFICES ASSUME a + 1 > C PROVE FALSE
      BY <1>2, <1>6
    <2>1. (C + 1) * w <= (a + 1) * w
      BY <1>1, <1>2, <1>6, Monotone
    <2> QED
      BY <1>1, <1>2, <1>5, <1>6, <2>1 DEF w
  <1>8. CASE a = C - 1
    BY <1>1, <1>2, <1>5, <1>6, <1>8 DEF a, w
  <1>9. CASE a + 2 <= C
    <2>1. (a + 2) * w <= C * w
      BY <1>1, <1>2, <1>6, <1>9, Monotone
    <2>2. ~(x + w + w > Width)
      BY <1>1, <1>2, <1>3, <1>4, <1>5, <1>6, <2>1
    <2> QED
      BY <1>2, <1>6, <1>7, <1>9, <2>2 DEF a, w
  <1> QED
    BY <1>2, <1>6, <1>7, <1>8, <1>9

\* A position of whole glyphs and whole rows is on the grid.
LEMMA GridPoint ==
  ASSUME HasColumns, NEW x \in Nat, NEW y \in Nat, x + CharWidth <= Width,
         x % CharWidth \in {0, Width % CharWidth}, y % CharHeight = 0
  PROVE  OnGrid([x |-> x, y |-> y])
  <1>1. x \in 0 .. Word - 1
    BY ConsoleAssumption
  <1>2. [x |-> x, y |-> y] \in Position
    BY <1>1 DEF Position
  <1> QED
    BY <1>2 DEF OnGrid

\* A character further is a cell further, over the end of a row too.
LEMMA AdvanceCell ==
  ASSUME NEW p, OnGrid(p), NEW c
  PROVE  /\ OnGrid(Advance(p, c, 0))
         /\ c # NL => Cell(Advance(p, c, 0)) = Cell(p) + 1
  <1> DEFINE n == Advance(p, c, 0)
  <1>1. /\ CharWidth \in Nat \ {0} /\ CharHeight \in Nat \ {0} /\ Width \in Nat
        /\ p.x \in Nat /\ p.y \in Nat /\ p = [x |-> p.x, y |-> p.y]
        /\ CharWidth <= Width
    BY ConsoleAssumption DEF OnGrid, Position, HasColumns
  <1>2. /\ Columns \in Nat \ {0} /\ p.x \div CharWidth \in 0 .. Columns - 1
        /\ p.x + CharWidth + CharWidth > Width <=> p.x \div CharWidth = Columns - 1
    BY <1>1, ColumnOf DEF OnGrid
  <1>3. /\ (p.y + CharHeight) \div CharHeight = p.y \div CharHeight + 1
        /\ (p.y + CharHeight) % CharHeight = p.y % CharHeight
        /\ p.y \div CharHeight \in Nat
    BY <1>1, Shifted, Divided
  <1>4. /\ (p.x + CharWidth) \div CharWidth = p.x \div CharWidth + 1
        /\ (p.x + CharWidth) % CharWidth = p.x % CharWidth
    BY <1>1, Shifted
  <1>5. 0 \div CharWidth = 0 /\ 0 % CharWidth = 0
    BY <1>1
  <1>6. CASE c = NL \/ p.x + CharWidth + CharWidth > Width
    <2>1. n = [x |-> 0, y |-> p.y + CharHeight]
      BY <1>6, AdvanceIs DEF OnGrid
    <2>2. OnGrid(n)
      <3>1. p.y + CharHeight \in Nat /\ (p.y + CharHeight) % CharHeight = 0 /\ HasColumns
        BY <1>1, <1>3 DEF OnGrid
      <3> QED
        BY <1>1, <1>5, <2>1, <3>1, GridPoint
    <2>3. ASSUME c # NL PROVE Cell(n) = Cell(p) + 1
      <3>1. p.x \div CharWidth = Columns - 1
        BY <1>2, <1>6, <2>3
      <3>2. Cell(n) = (p.y \div CharHeight + 1) * Columns + 0
        BY <1>3, <1>5, <2>1 DEF Cell, Columns
      <3>3. Cell(p) = (p.y \div CharHeight) * Columns + (Columns - 1)
        BY <3>1 DEF Cell, Columns
      <3> QED
        BY <1>2, <1>3, <3>2, <3>3
    <2> QED
      BY <2>2, <2>3
  <1>7. CASE ~(c = NL \/ p.x + CharWidth + CharWidth > Width)
    <2>1. n = [x |-> p.x + CharWidth, y |-> p.y]
      BY <1>1, <1>7, AdvanceIs DEF OnGrid
    <2>2. OnGrid(n)
      <3>1. /\ p.x + CharWidth \in Nat /\ p.x + CharWidth + CharWidth <= Width /\ HasColumns
            /\ (p.x + CharWidth) % CharWidth \in {0, Width % CharWidth} /\ p.y % CharHeight = 0
        BY <1>1, <1>4, <1>7 DEF OnGrid
      <3> QED
        BY <1>1, <2>1, <3>1, GridPoint
    <2>3. Cell(n) = (p.y \div CharHeight) * Columns + (p.x \div CharWidth + 1)
      BY <1>4, <2>1 DEF Cell, Columns
    <2>4. Cell(p) = (p.y \div CharHeight) * Columns + (p.x \div CharWidth)
      BY DEF Cell, Columns
    <2> QED
      BY <1>2, <1>3, <2>2, <2>3, <2>4
  <1> QED
    BY <1>6, <1>7

\* '\b' goes a cell back, except from the first.
LEMMA RetreatCell ==
  ASSUME NEW p, OnGrid(p)
  PROVE  /\ OnGrid(Retreat(p))
         /\ Cell(Retreat(p)) = IF Cell(p) > 0 THEN Cell(p) - 1 ELSE 0
  <1> DEFINE n == Retreat(p)
  <1>1. /\ CharWidth \in Nat \ {0} /\ CharHeight \in Nat \ {0} /\ Width \in Nat
        /\ p.x \in Nat /\ p.y \in Nat /\ p = [x |-> p.x, y |-> p.y]
        /\ CharWidth <= Width /\ p.x + CharWidth <= Width /\ Width < Word
    BY ConsoleAssumption DEF OnGrid, Position, HasColumns
  <1>2. Columns \in Nat \ {0} /\ p.x \div CharWidth \in Nat /\ p.y \div CharHeight \in Nat
    BY <1>1, ColumnOf, Divided DEF OnGrid
  <1>3. /\ p.y >= CharHeight => /\ (p.y - CharHeight) \div CharHeight = p.y \div CharHeight - 1
                                /\ (p.y - CharHeight) % CharHeight = p.y % CharHeight
        /\ p.y < CharHeight <=> p.y \div CharHeight = 0
    BY <1>1, Shifted
  <1>4. /\ p.x >= CharWidth => /\ (p.x - CharWidth) \div CharWidth = p.x \div CharWidth - 1
                               /\ (p.x - CharWidth) % CharWidth = p.x % CharWidth
        /\ p.x < CharWidth <=> p.x \div CharWidth = 0
    BY <1>1, Shifted
  <1>5. /\ (Width - CharWidth) \div CharWidth = Columns - 1
        /\ (Width - CharWidth) % CharWidth = Width % CharWidth
    BY <1>1, Shifted DEF Columns
  <1>6. Cell(p) = (p.y \div CharHeight) * Columns + (p.x \div CharWidth)
    BY DEF Cell, Columns
  <1>7. CASE p.x >= CharWidth
    <2>1. n = [x |-> p.x - CharWidth, y |-> p.y]
      BY <1>7, RetreatIs DEF OnGrid
    <2>2. OnGrid(n)
      <3>1. /\ p.x - CharWidth \in Nat /\ p.x - CharWidth + CharWidth <= Width /\ HasColumns
            /\ (p.x - CharWidth) % CharWidth \in {0, Width % CharWidth} /\ p.y % CharHeight = 0
        BY <1>1, <1>4, <1>7 DEF OnGrid
      <3> QED
        BY <1>1, <2>1, <3>1, GridPoint
    <2>3. Cell(n) = (p.y \div CharHeight) * Columns + (p.x \div CharWidth - 1)
      BY <1>4, <1>7, <2>1 DEF Cell, Columns
    <2>4. (p.y \div CharHeight) * Columns \in Nat /\ p.x \div CharWidth > 0
      BY <1>1, <1>2, <1>4, <1>7
    <2> QED
      BY <1>2, <1>6, <2>2, <2>3, <2>4
  <1>8. CASE p.x < CharWidth /\ p.y >= CharHeight
    <2>1. n = [x |-> Width - CharWidth, y |-> p.y - CharHeight]
      BY <1>1, <1>8, RetreatIs DEF OnGrid
    <2>2. OnGrid(n)
      <3>1. /\ Width - CharWidth \in Nat /\ p.y - CharHeight \in Nat /\ HasColumns
            /\ (p.y - CharHeight) % CharHeight = 0 /\ Width - CharWidth + CharWidth <= Width
        BY <1>1, <1>3, <1>8 DEF OnGrid
      <3> QED
        BY <1>5, <2>1, <3>1, GridPoint
    <2>3. Cell(n) = (p.y \div CharHeight - 1) * Columns + (Columns - 1)
      BY <1>3, <1>5, <1>8, <2>1 DEF Cell, Columns
    <2>4. Cell(p) = (p.y \div CharHeight) * Columns + 0
      BY <1>4, <1>6, <1>8
    <2>5. /\ (p.y \div CharHeight - 1) * Columns \in Nat
          /\ (p.y \div CharHeight) * Columns = (p.y \div CharHeight - 1) * Columns + Columns
      <3>1. PICK y \in Nat : p.y \div CharHeight = y + 1
        <4>1. p.y \div CharHeight # 0
          BY <1>1, <1>3, <1>8
        <4>2. p.y \div CharHeight - 1 \in Nat /\ p.y \div CharHeight = (p.y \div CharHeight - 1) + 1
          BY <1>2, <4>1
        <4> QED
          BY <4>2
      <3>2. y * Columns \in Nat /\ (y + 1) * Columns = y * Columns + Columns
        BY <1>2
      <3>3. y + 1 - 1 = y
        OBVIOUS
      <3> QED
        BY <3>1, <3>2, <3>3
    <2> QED
      BY <1>2, <2>2, <2>3, <2>4, <2>5
  <1>9. CASE p.x < CharWidth /\ p.y < CharHeight
    <2>1. n = p
      BY <1>1, <1>9, RetreatIs DEF OnGrid
    <2>2. Cell(p) = 0 * Columns + 0
      BY <1>3, <1>4, <1>6, <1>9
    <2> QED
      BY <1>2, <2>1, <2>2
  <1> QED
    BY <1>1, <1>7, <1>8, <1>9

\* Cells are numbered.
LEMMA CellIsNumber ==
  ASSUME NEW p \in Position
  PROVE  Cell(p) \in Nat
  <1>1. CharWidth \in Nat \ {0} /\ CharHeight \in Nat \ {0} /\ Width \in Nat
        /\ p.x \in Nat /\ p.y \in Nat
    BY ConsoleAssumption DEF Position
  <1>2. Width \div CharWidth \in Nat /\ p.x \div CharWidth \in Nat /\ p.y \div CharHeight \in Nat
    BY <1>1, Divided
  <1> QED
    BY <1>2 DEF Cell

-----------------------------------------------------------------------------
(* The line that is typed *)

\* Print is not under a line that counts as undisturbed.
CleanPrint == pc = "print" /\ clean => input = <<>>

TrackInv == /\ Inv /\ CleanPrint /\ CursorTracksInput
            /\ HasColumns => OnGrid(cursor)
            /\ eaten <= Cell(start)

\* The characters the line shows, after a key.
LEMMA ShownAfter ==
  ASSUME TypeOK
  PROVE  /\ Len(Shown) \in Nat
         /\ input = <<>> => Len(Shown) = 0
         /\ input' = Append(input, Key) => Len(Shown') = Len(Shown) + 1
         /\ input' = <<BS>> => Len(Shown') = 0
         /\ input = <<BS>> => Len(Shown) = 0
         /\ input # <<>> /\ input' = SubSeq(input, 1, Len(input) - 1)
               => /\ input = <<BS>> => Len(Shown') = 0
                  /\ input # <<BS>> => Len(Shown') = Len(Shown) - 1 /\ Len(Shown) > 0
  <1>1. input \in Seq({Key, BS}) /\ Len(input) \in Nat /\ Key # BS
    BY DEF TypeOK, Key, BS
  <1>2. Len(Shown) = IF input # <<>> /\ input[1] = BS THEN Len(input) - 1 ELSE Len(input)
    BY <1>1 DEF Shown
  <1>3. Len(Shown) \in Nat /\ (input = <<>> => Len(Shown) = 0)
    BY <1>1, <1>2
  <1>4. ASSUME input' = Append(input, Key) PROVE Len(Shown') = Len(Shown) + 1
    <2>1. /\ input' \in Seq({Key, BS}) /\ Len(input') = Len(input) + 1 /\ input' # <<>>
          /\ input'[1] = IF input = <<>> THEN Key ELSE input[1]
      BY <1>1, <1>4
    <2>2. Len(Shown') = IF input'[1] = BS THEN Len(input') - 1 ELSE Len(input')
      BY <2>1 DEF Shown
    <2> QED
      BY <1>1, <1>2, <2>1, <2>2
  <1>5. ASSUME input' = <<BS>> PROVE Len(Shown') = 0
    BY <1>5 DEF Shown
  <1>6. input = <<BS>> => Len(Shown) = 0
    BY <1>1, <1>2
  <1>7. ASSUME input # <<>>, input' = SubSeq(input, 1, Len(input) - 1)
        PROVE  /\ input = <<BS>> => Len(Shown') = 0
               /\ input # <<BS>> => Len(Shown') = Len(Shown) - 1 /\ Len(Shown) > 0
    <2>1. input' \in Seq({Key, BS}) /\ Len(input') = Len(input) - 1 /\ Len(input) > 0
      <3>1. Len(input) > 0
        BY <1>1, <1>7
      <3>2. Len(input) - 1 \in 0 .. Len(input)
        BY <1>1, <3>1
      <3> QED
        <4> DEFINE n == Len(input) - 1
        <4>1. SubSeq(input, 1, n) \in Seq({Key, BS}) /\ Len(SubSeq(input, 1, n)) = n
          <5> HIDE DEF n
          <5>1. n \in 0 .. Len(input)
            BY <3>2 DEF n
          <5> QED
            BY <1>1, <5>1
        <4> QED
          BY <1>7, <3>1, <4>1
    <2>2. CASE Len(input) = 1
      <3>1. input' = <<>> /\ Len(Shown') = 0
        BY <2>1, <2>2 DEF Shown
      <3>2. input[1] = BS => input = <<BS>>
        BY <1>1, <2>2
      <3> QED
        BY <1>2, <1>6, <2>2, <3>1, <3>2
    <2>3. CASE Len(input) > 1
      <3>1. input'[1] = input[1] /\ input' # <<>> /\ input # <<BS>>
        BY <1>1, <1>7, <2>1, <2>3
      <3>2. Len(Shown') = IF input'[1] = BS THEN Len(input') - 1 ELSE Len(input')
        BY <2>1, <3>1 DEF Shown
      <3> QED
        BY <1>1, <1>2, <1>7, <2>1, <2>3, <3>1, <3>2
    <2> QED
      BY <1>1, <2>1, <2>2, <2>3
  <1> QED
    BY <1>3, <1>4, <1>5, <1>6, <1>7

\* A key moves the cursor by the cells it adds to the line or takes from it.
LEMMA KeyTracks ==
  ASSUME TrackInv, int21h_handler
  PROVE  /\ HasColumns => OnGrid(cursor')
         /\ CleanPrint' /\ CursorTracksInput' /\ eaten' <= Cell(start')
  <1>1. /\ TypeOK /\ pc # "print" /\ pc' = pc /\ eaten \in Nat /\ eaten <= Cell(start)
        /\ Cell(cursor) \in Nat /\ Cell(start) \in Nat
    BY CellIsNumber DEF TrackInv, Inv, TypeOK, int21h_handler, Interruptible
  <1>2. CleanPrint' /\ start' = start /\ clean' = clean /\ Cell(start') = Cell(start)
    BY <1>1 DEF CleanPrint, int21h_handler, Backspace, Enter, Type, aux, Cell
  <1>3. eaten' <= Cell(start')
    BY <1>1, <1>2 DEF int21h_handler, Backspace, Enter, Type, aux, Stray
  <1> SUFFICES ASSUME HasColumns PROVE OnGrid(cursor') /\ CursorTracksInput'
    BY <1>2, <1>3 DEF CursorTracksInput, HasColumns
  <1>4. OnGrid(cursor)
    BY DEF TrackInv
  <1>5. ASSUME pc = "poll", ~exec, clean PROVE Cell(cursor) = Cell(start) - eaten + Len(Shown)
    BY <1>5 DEF TrackInv, CursorTracksInput
  <1>6. CASE Backspace
    <2>1. /\ cursor' = Retreat(cursor) /\ exec' = exec /\ input # <<>>
          /\ input' = SubSeq(input, 1, Len(input) - 1)
          /\ eaten' = IF input = <<BS>> THEN Stray ELSE eaten
      BY <1>6 DEF Backspace, PrintChar
    <2>2. OnGrid(cursor') /\ Cell(cursor') = IF Cell(cursor) > 0 THEN Cell(cursor) - 1 ELSE 0
      BY <1>4, <2>1, RetreatCell
    <2>3. /\ Len(Shown) \in Nat
          /\ input = <<BS>> => Len(Shown) = 0 /\ Len(Shown') = 0
          /\ input # <<BS>> => Len(Shown') = Len(Shown) - 1 /\ Len(Shown) > 0
      BY <1>1, <2>1, ShownAfter
    <2>4. ASSUME pc = "poll", ~exec, clean
          PROVE  Cell(cursor') = Cell(start') - eaten' + Len(Shown')
      <3>1. Cell(cursor) = Cell(start) - eaten + Len(Shown)
        BY <1>5, <2>4
      <3>2. CASE input = <<BS>>
        BY <1>1, <1>2, <2>1, <2>2, <2>3, <3>1, <3>2 DEF Stray
      <3>3. CASE input # <<BS>>
        BY <1>1, <1>2, <2>1, <2>2, <2>3, <3>1, <3>3
      <3> QED
        BY <3>2, <3>3
    <2> QED
      BY <1>1, <1>2, <2>1, <2>2, <2>4 DEF CursorTracksInput, Cell
  <1>7. CASE Enter
    BY <1>1, <1>4, <1>7 DEF Enter, CursorTracksInput
  <1>8. ASSUME NEW c \in {Key, BS}, Type(c) PROVE OnGrid(cursor') /\ CursorTracksInput'
    <2>1. CASE c = BS
      <3>1. /\ cursor' = Retreat(cursor) /\ input = <<>> /\ input' = <<BS>> /\ exec' = exec
            /\ eaten' = Stray
        BY <1>1, <1>8, <2>1 DEF Type, PrintChar
      <3>2. OnGrid(cursor') /\ Cell(cursor') = IF Cell(cursor) > 0 THEN Cell(cursor) - 1 ELSE 0
        BY <1>4, <3>1, RetreatCell
      <3>3. Len(Shown) = 0 /\ Len(Shown') = 0
        BY <1>1, <3>1, ShownAfter
      <3>4. ASSUME pc = "poll", ~exec, clean
            PROVE  Cell(cursor') = Cell(start') - eaten' + Len(Shown')
        BY <1>1, <1>2, <1>5, <3>1, <3>2, <3>3, <3>4 DEF Stray
      <3> QED
        BY <1>1, <1>2, <3>1, <3>2, <3>4 DEF CursorTracksInput, Cell
    <2>2. CASE c = Key
      <3>1. c # BS /\ c # NL
        BY <2>2 DEF Key, BS, NL
      <3>2. /\ cursor' = Advance(cursor, c, 0) /\ eaten' = eaten
            /\ exec' = exec /\ input' = Append(input, Key)
        BY <1>1, <1>8, <2>2, <3>1 DEF Type, PrintChar, TypeOK
      <3>3. OnGrid(cursor') /\ Cell(cursor') = Cell(cursor) + 1
        BY <1>4, <3>1, <3>2, AdvanceCell
      <3>4. Len(Shown') = Len(Shown) + 1 /\ Len(Shown) \in Nat
        BY <1>1, <3>2, ShownAfter
      <3>5. ASSUME pc = "poll", ~exec, clean
            PROVE  Cell(cursor') = Cell(start') - eaten' + Len(Shown')
        BY <1>1, <1>2, <1>5, <3>2, <3>3, <3>4, <3>5
      <3> QED
        BY <1>1, <1>2, <3>2, <3>3, <3>5 DEF CursorTracksInput, Cell
    <2> QED
      BY <2>1, <2>2
  <1> QED
    BY <1>6, <1>7, <1>8 DEF int21h_handler

\* Every step keeps the cursor where the line says.
LEMMA TrackStep == TrackInv /\ [Next]_vars => TrackInv'
  <1> SUFFICES ASSUME TrackInv, [Next]_vars PROVE TrackInv'
    OBVIOUS
  <1>1. Inv' /\ Inv /\ TypeOK
    BY ShellInv DEF TrackInv, Inv
  <1>2. /\ cursor = [x |-> cursor.x, y |-> cursor.y] /\ cursor.x \in Nat /\ cursor.y \in Nat
        /\ HasColumns => OnGrid(cursor)
        /\ Cell(cursor) \in Nat /\ Cell(start) \in Nat /\ eaten <= Cell(start)
    BY <1>1, CellIsNumber DEF TrackInv, TypeOK, Position
  <1>3. 0 % CharWidth = 0 /\ 0 % CharHeight = 0 /\ 0 + CharWidth = CharWidth
    BY ConsoleAssumption
  <1> SUFFICES /\ HasColumns => OnGrid(cursor')
               /\ CleanPrint' /\ CursorTracksInput' /\ eaten' <= Cell(start')
    BY <1>1 DEF TrackInv, HasColumns
  <1>4. CASE int21h_handler
    BY <1>4, KeyTracks
  <1>5. CASE NsExec \/ ClearExec \/ UNCHANGED vars
    BY <1>2, <1>5
       DEF NsExec, ClearExec, vars, aux, TrackInv, CleanPrint, CursorTracksInput, Cell, Shown
  <1>6. CASE ClsColumn
    <2>1. cursor' = [x |-> 0, y |-> cursor.y] /\ pc' = "cls"
      BY <1>2, <1>6 DEF ClsColumn
    <2>2. HasColumns => OnGrid(cursor')
      BY <1>2, <1>3, <2>1, GridPoint DEF OnGrid, HasColumns
    <2> QED
      BY <1>2, <1>6, <2>1, <2>2 DEF ClsColumn, aux, CleanPrint, CursorTracksInput, Cell
  <1>7. CASE ClsRow
    <2>1. cursor' = [x |-> cursor.x, y |-> 0] /\ pc' = "show"
      BY <1>2, <1>7 DEF ClsRow
    <2>2. HasColumns => OnGrid(cursor')
      BY <1>2, <1>3, <2>1, GridPoint DEF OnGrid
    <2> QED
      BY <1>2, <1>7, <2>1, <2>2 DEF ClsRow, aux, CleanPrint, CursorTracksInput, Cell
  <1>8. CASE Show \/ ShowPrompt
    BY <1>2, <1>8 DEF Show, ShowPrompt, PrintString, CleanPrint, CursorTracksInput, Cell
  <1>9. CASE PrintStep
    <2>1. HasColumns => OnGrid(cursor')
      BY <1>2, <1>9, AdvanceCell DEF PrintStep
    <2> QED
      BY <1>2, <1>9, <2>1 DEF PrintStep, aux, TrackInv, CleanPrint, CursorTracksInput, Cell
  <1>10. CASE PrintReturns
    <2>1. /\ pc' \in {"poll", "show"} /\ cursor' = cursor /\ input' = input /\ clean' = clean
          /\ pc = "print"
      BY <1>1, <1>10 DEF PrintReturns, TypeOK
    <2>2. CleanPrint'
      BY <2>1 DEF CleanPrint
    <2>3. CASE input = <<>>
      <3>1. start' = cursor /\ eaten' = 0 /\ Cell(start') = Cell(cursor) /\ Len(Shown') = 0
        BY <1>10, <2>1, <2>3 DEF PrintReturns, Cell, Shown
      <3> QED
        BY <1>2, <2>1, <2>2, <3>1 DEF CursorTracksInput, Cell
    <2>4. CASE input # <<>>
      <3>1. ~clean' /\ start' = start /\ eaten' = eaten
        BY <1>10, <2>1, <2>4 DEF PrintReturns, TrackInv, CleanPrint
      <3> QED
        BY <1>2, <2>1, <2>2, <3>1 DEF CursorTracksInput, Cell
    <2> QED
      BY <2>3, <2>4
  <1> QED
    BY <1>4, <1>5, <1>6, <1>7, <1>8, <1>9, <1>10 DEF Next

\* At the prompt the cursor stands behind as many cells as the line has
\* characters: what '\b' blanks is what it takes from input_buffer
\* (int21h_handler, PrintChar), but for the stray '\b's of an empty line, each of
\* which blanks one cell in front of the line; for every width that has columns.
THEOREM LineIsTracked == Spec => []CursorTracksInput
  <1>1. Init => TrackInv
    <2> SUFFICES ASSUME Init PROVE TrackInv
      OBVIOUS
    <2>1. HasColumns => OnGrid(cursor)
      <3>1. 0 % CharWidth = 0 /\ 0 % CharHeight = 0 /\ 0 + CharWidth = CharWidth
        BY ConsoleAssumption
      <3> QED
        BY <3>1, GridPoint DEF Init, Home, HasColumns
    <2>2. Inv /\ start \in Position /\ Cell(start) \in Nat
      BY InitInv, CellIsNumber DEF Inv, TypeOK
    <2> QED
      BY <2>1, <2>2 DEF Init, TrackInv, CleanPrint, CursorTracksInput
  <1> QED
    BY <1>1, TrackStep, PTL DEF Spec, TrackInv
=============================================================================
