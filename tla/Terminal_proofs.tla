--------------------------- MODULE Terminal_proofs ---------------------------
(***************************************************************************)
(* The terminal and the shell's line on it, for a screen of any size.       *)
(* A character may leave the cursor one column behind the line or one row   *)
(* below the screen (Loose), never both, and the check that follows every   *)
(* character brings it back (Placed); the type of the screen goes along     *)
(* because the cursor's cell is read and written at each step.  A character *)
(* that can be seen moves all of the text before it up with it, if at all   *)
(* (CharacterShown), and so what has been printed of a line stays together  *)
(* before the cursor (Shows), between any two characters of what a key      *)
(* prints.                                                                  *)
(***************************************************************************)
EXTENDS Console, FiniteSetTheorems, SequenceTheorems, WellFoundedInduction, TLAPS

\* What a cell of the screen may hold.
Shown == Chars \cup {Space, Cursor, 64}
Cell == [ch : Shown, colour : Colours]
Area == [0 .. Size - 1 -> Cell]

Placed == [row : 0 .. TERM_ROWS - 1, col : 0 .. TERM_COLS - 1, screen : Area]
Loose  == {p \in [row : 0 .. TERM_ROWS, col : 0 .. TERM_COLS, screen : Area] :
             p.col = TERM_COLS => p.row < TERM_ROWS}

TermInv ==
  /\ row \in 0 .. TERM_ROWS - 1 /\ col \in 0 .. TERM_COLS - 1
  /\ screen \in Area
  /\ term_colour \in Colours
  /\ videomode = "TEXT_80" => term_cursor_save \in Shown
  /\ escape_buf \in Seq(0 .. 255) /\ Len(escape_buf) = 4
-----------------------------------------------------------------------------
\* A cell of the grid is a cell of the video memory.
LEMMA CellInArea ==
  ASSUME NEW r \in 0 .. TERM_ROWS - 1, NEW c \in 0 .. TERM_COLS - 1
  PROVE  r * TERM_COLS + c \in 0 .. Size - 1
<1>1. TERM_COLS \in Nat \ {0} /\ TERM_ROWS \in Nat \ {0}
  BY TerminalAssumption
<1>2. (TERM_ROWS - 1 - r) * TERM_COLS >= 0 /\ r * TERM_COLS >= 0
  BY <1>1
<1>3. (TERM_ROWS - 1 - r) * TERM_COLS = TERM_ROWS * TERM_COLS - TERM_COLS - r * TERM_COLS
  BY <1>1
<1>4. TERM_COLS * TERM_ROWS = TERM_ROWS * TERM_COLS
  BY <1>1
<1> DEFINE x == r * TERM_COLS  y == TERM_ROWS * TERM_COLS
<1>5. x \in Int /\ y \in Int
  BY <1>1
<1>6. y - TERM_COLS - x >= 0 /\ x >= 0
  BY <1>2, <1>3
<1> HIDE DEF x, y
<1>7. x + c \in 0 .. y - 1
  BY <1>1, <1>5, <1>6
<1> QED
  BY <1>4, <1>7 DEF Size, x, y

\* A cleared screen is a screen with the cursor on it.
LEMMA ClearPlaces ==
  ASSUME NEW colour \in Colours
  PROVE  softterm_clear(colour) \in Placed
<1>1. TERM_COLS \in Nat \ {0} /\ TERM_ROWS \in Nat \ {0}
  BY TerminalAssumption
<1>2. [i \in 0 .. Size - 1 |-> Blank(colour)] \in Area
  BY DEF Area, Cell, Blank, Shown
<1> QED
  BY <1>1, <1>2 DEF softterm_clear, Placed

\* Scrolling keeps the area.
LEMMA ScrollKeepsArea ==
  ASSUME NEW p, NEW n \in Nat, NEW colour \in Colours, p.screen \in Area
  PROVE  [i \in 0 .. Size - 1 |->
            IF i + n * TERM_COLS < Size
            THEN p.screen[i + n * TERM_COLS] ELSE Blank(colour)] \in Area
<1>1. TERM_COLS \in Nat /\ Size \in Int
  BY TerminalAssumption DEF Size
<1>2. n * TERM_COLS \in Nat
  BY <1>1
<1>3. Blank(colour) \in Cell
  BY DEF Blank, Shown, Cell
<1> DEFINE k == n * TERM_COLS
<1>4. k \in Nat
  BY <1>2
<1> HIDE DEF k
<1>5. ASSUME NEW i \in 0 .. Size - 1
      PROVE  (IF i + k < Size THEN p.screen[i + k] ELSE Blank(colour)) \in Cell
  <2>1. CASE i + k < Size
    <3>1. i + k \in 0 .. Size - 1
      BY <1>1, <1>4, <2>1
    <3> QED
      BY <2>1, <3>1 DEF Area
  <2>2. CASE ~(i + k < Size)
    BY <1>3, <2>2
  <2> QED
    BY <2>1, <2>2
<1>6. [i \in 0 .. Size - 1 |->
         IF i + k < Size THEN p.screen[i + k] ELSE Blank(colour)] \in Area
  BY <1>5 DEF Area
<1> QED
  BY <1>6 DEF k

\* An update of a place changes the types of what it updates and no other.
LEMMA MoveTypes ==
  ASSUME NEW A, NEW B, NEW C, NEW p \in [row : A, col : B, screen : C],
         NEW AA, NEW BB, NEW r \in AA, NEW c \in BB, NEW s \in C
  PROVE  /\ [p EXCEPT !.row = r, !.col = c] \in [row : AA, col : BB, screen : C]
         /\ [p EXCEPT !.col = c] \in [row : A, col : BB, screen : C]
         /\ [p EXCEPT !.row = r, !.screen = s] \in [row : AA, col : B, screen : C]
         /\ [p EXCEPT !.screen = s, !.col = c] \in [row : A, col : BB, screen : C]
  OBVIOUS

\* The check after every character brings the cursor back onto the screen.
LEMMA CheckPlaces ==
  ASSUME NEW p \in Loose, NEW colour \in Colours
  PROVE  softterm_check_cursor(p, colour) \in Placed
<1>1. TERM_COLS \in Nat \ {0} /\ TERM_ROWS \in Nat \ {0}
  BY TerminalAssumption
<1> DEFINE q == IF p.col >= TERM_COLS THEN [p EXCEPT !.row = @ + 1, !.col = 0] ELSE p
<1>2. q \in [row : 0 .. TERM_ROWS, col : 0 .. TERM_COLS - 1, screen : Area]
  <2>1. CASE p.col >= TERM_COLS
    <3>1. p.row + 1 \in 0 .. TERM_ROWS /\ 0 \in 0 .. TERM_COLS - 1
      BY <1>1, <2>1 DEF Loose
    <3>2. q = [p EXCEPT !.row = p.row + 1, !.col = 0]
      BY <2>1
    <3>3. p \in [row : 0 .. TERM_ROWS, col : 0 .. TERM_COLS, screen : Area]
      BY DEF Loose
    <3> QED
      <4>1. p.screen \in Area
        BY <3>3
      <4>2. [p EXCEPT !.row = p.row + 1, !.col = 0]
              \in [row : 0 .. TERM_ROWS, col : 0 .. TERM_COLS - 1, screen : Area]
        BY <3>1, <3>3, <4>1, MoveTypes
      <4> QED
        BY <3>2, <4>2
  <2>2. CASE ~(p.col >= TERM_COLS)
    BY <1>1, <2>2 DEF Loose
  <2> QED
    BY <2>1, <2>2
<1>3. softterm_check_cursor(p, colour) =
        IF q.row >= TERM_ROWS THEN softterm_scroll(q, q.row - TERM_ROWS + 1, colour) ELSE q
  BY DEF softterm_check_cursor
<1> HIDE DEF q
<1>4. CASE q.row >= TERM_ROWS
  <2> DEFINE s == [i \in 0 .. Size - 1 |->
                     IF i + 1 * TERM_COLS < Size
                     THEN q.screen[i + 1 * TERM_COLS] ELSE Blank(colour)]
  <2>1. q.row - TERM_ROWS + 1 = 1 /\ q.row = TERM_ROWS
    BY <1>1, <1>2, <1>4
  <2>2. s \in Area
    <3>1. q.screen \in Area /\ 1 \in Nat
      BY <1>2
    <3> QED
      BY <3>1, ScrollKeepsArea
  <2>3. softterm_scroll(q, q.row - TERM_ROWS + 1, colour) =
          [q EXCEPT !.row = @ - 1, !.screen = s]
    BY <2>1 DEF softterm_scroll
  <2> HIDE DEF s
  <2>4. [q EXCEPT !.row = @ - 1, !.screen = s] \in Placed
    <3>1. q.row - 1 \in 0 .. TERM_ROWS - 1
      BY <1>1, <2>1
    <3>2. [q EXCEPT !.row = q.row - 1, !.screen = s]
            \in [row : 0 .. TERM_ROWS - 1, col : 0 .. TERM_COLS - 1, screen : Area]
      BY <1>2, <2>2, <3>1, MoveTypes
    <3> QED
      BY <3>2 DEF Placed
  <2> QED
    BY <1>3, <1>4, <2>3, <2>4
<1>5. CASE ~(q.row >= TERM_ROWS)
  BY <1>1, <1>2, <1>3, <1>5 DEF Placed
<1> QED
  BY <1>4, <1>5

\* A character outside an escape sequence leaves the cursor where the check
\* can bring it back from.
LEMMA WrittenLoose ==
  ASSUME NEW p \in Placed, NEW c \in Chars, term_colour \in Colours
  PROVE  Written(p, c) \in Loose
<1>1. TERM_COLS \in Nat \ {0} /\ TERM_ROWS \in Nat \ {0}
  BY TerminalAssumption
<1>2. p \in Loose
  BY <1>1 DEF Placed, Loose
<1>3. CASE c = 27
  BY <1>2, <1>3 DEF Written
<1>4. CASE c = 10
  <2>1. Written(p, c) = [p EXCEPT !.row = @ + 1, !.col = 0]
    BY <1>4 DEF Written
  <2>2. p.row + 1 \in 0 .. TERM_ROWS /\ 0 \in {0}
    BY <1>1 DEF Placed
  <2>3. Written(p, c) \in [row : 0 .. TERM_ROWS, col : {0}, screen : Area]
    <3>1. p \in [row : 0 .. TERM_ROWS - 1, col : 0 .. TERM_COLS - 1, screen : Area]
      BY DEF Placed
    <3>2. p.screen \in Area
      BY <3>1
    <3>3. [p EXCEPT !.row = p.row + 1, !.col = 0]
            \in [row : 0 .. TERM_ROWS, col : {0}, screen : Area]
      BY <2>2, <3>1, <3>2, MoveTypes
    <3> QED
      BY <2>1, <3>3
  <2> QED
    BY <1>1, <2>3 DEF Loose
<1>5. CASE c = 13
  <2>1. Written(p, c) = [p EXCEPT !.col = 0]
    BY <1>5 DEF Written
  <2> QED
    BY <1>1, <2>1 DEF Placed, Loose
<1>6. CASE c = 8
  <2>1. Written(p, c) = Back(p)
    BY <1>6 DEF Written
  <2>2. Back(p) \in Loose
    <3>1. CASE p.col > 0
      BY <1>1, <3>1 DEF Back, Placed, Loose
    <3>2. CASE p.col = 0 /\ p.row > 0
      <4>1. p.row - 1 \in 0 .. TERM_ROWS - 1 /\ TERM_COLS - 1 \in 0 .. TERM_COLS - 1
        BY <1>1, <3>2 DEF Placed
      <4>2. Back(p) = [p EXCEPT !.row = p.row - 1, !.col = TERM_COLS - 1]
        BY <3>2 DEF Back
      <4>3. Back(p) \in Placed
        <5>1. p \in [row : 0 .. TERM_ROWS - 1, col : 0 .. TERM_COLS - 1, screen : Area]
          BY DEF Placed
        <5>2. p.screen \in Area
          BY <5>1
        <5>3. [p EXCEPT !.row = p.row - 1, !.col = TERM_COLS - 1]
                \in [row : 0 .. TERM_ROWS - 1, col : 0 .. TERM_COLS - 1, screen : Area]
          BY <4>1, <5>1, <5>2, MoveTypes
        <5> QED
          BY <4>2, <5>3 DEF Placed
      <4> QED
        BY <1>1, <4>3 DEF Placed, Loose
    <3>3. CASE ~(p.col > 0) /\ ~(p.col = 0 /\ p.row > 0)
      BY <1>2, <3>3 DEF Back
    <3> QED
      BY <3>1, <3>2, <3>3
  <2> QED
    BY <2>1, <2>2
<1>7. CASE c \notin {27, 10, 13, 8}
  <2> DEFINE cell == [ch |-> c, colour |-> term_colour]
  <2>1. Written(p, c) = [p EXCEPT !.screen[At(p)] = cell, !.col = @ + 1]
    BY <1>7 DEF Written
  <2>2. cell \in Cell
    BY DEF Cell, Shown
  <2> HIDE DEF cell
  <2>3. [p EXCEPT !.screen[At(p)] = cell, !.col = @ + 1] \in Loose
    <3>1. [p.screen EXCEPT ![At(p)] = cell] \in Area /\ p.screen \in Area
      BY <2>2 DEF Placed, Area
    <3>2. p.col + 1 \in 0 .. TERM_COLS
      BY <1>1 DEF Placed
    <3>3. [p EXCEPT !.screen = [p.screen EXCEPT ![At(p)] = cell], !.col = p.col + 1]
            \in [row : 0 .. TERM_ROWS - 1, col : 0 .. TERM_COLS, screen : Area]
      BY <3>1, <3>2, MoveTypes DEF Placed
    <3>4. [p EXCEPT !.screen[At(p)] = cell, !.col = @ + 1]
            = [p EXCEPT !.screen = [p.screen EXCEPT ![At(p)] = cell], !.col = p.col + 1]
      OBVIOUS
    <3> QED
      BY <1>1, <3>3, <3>4 DEF Loose
  <2> QED
    BY <2>1, <2>3
<1> QED
  BY <1>3, <1>4, <1>5, <1>6, <1>7
-----------------------------------------------------------------------------
\* The terminal is set up with a cleared screen.
LEMMA InitKeeps ==
  ASSUME TermInv, softterm_init
  PROVE  TermInv'
<1>1. TERM_COLS \in Nat \ {0} /\ TERM_ROWS \in Nat \ {0}
  BY TerminalAssumption
<1>2. TERM_DEFAULT_COLOUR \in Colours
  BY DEF TERM_DEFAULT_COLOUR, Colours
<1>3. softterm_clear(TERM_DEFAULT_COLOUR).screen \in Area
  BY <1>2, ClearPlaces DEF Placed
<1> QED
  <2>1. row' = 0 /\ col' = 0 /\ term_cursor_save' \in Shown
    BY DEF softterm_init, Shown
  <2>2. screen' \in Area /\ term_colour' \in Colours
    BY <1>2, <1>3 DEF softterm_init
  <2>3. escape_buf' \in Seq(0 .. 255) /\ Len(escape_buf') = 4
    BY DEF softterm_init, TermInv
  <2> QED
    BY <1>1, <2>1, <2>2, <2>3 DEF TermInv

\* The colours an escape sequence sets are colours.
LEMMA ColoursSet ==
  ASSUME NEW buf \in Seq(0 .. 255), Len(buf) = 4, term_colour \in Colours
  PROVE  softterm_change_colours(buf) \in Colours
<1>1. (buf[3] - 48) % 8 \in 0 .. 7
  <2>1. buf[3] \in 0 .. 255
    <3>1. 3 \in 1 .. Len(buf)
      OBVIOUS
    <3> QED
      BY <3>1, ElementOfSeq
  <2>2. ASSUME NEW x \in 0 .. 255 PROVE (x - 48) % 8 \in 0 .. 7
    OBVIOUS
  <2> QED
    BY <2>1, <2>2
<1>2. TERM_DEFAULT_COLOUR \in Colours
  BY DEF TERM_DEFAULT_COLOUR, Colours
<1> QED
  BY <1>1, <1>2 DEF softterm_change_colours, Colours

\* The bytes kept of an escape sequence are always the last four.
LEMMA LastFour ==
  ASSUME NEW buf \in Seq(0 .. 255), Len(buf) = 4, NEW c \in 0 .. 255
  PROVE  Append(Tail(buf), c) \in Seq(0 .. 255) /\ Len(Append(Tail(buf), c)) = 4
<1>1. Tail(buf) \in Seq(0 .. 255) /\ Len(Tail(buf)) = 3
  <2>1. buf # << >>
    <3>1. Len(<< >>) = 0
      BY EmptySeq
    <3>2. 4 # 0
      OBVIOUS
    <3> QED
      BY <3>1, <3>2, Zenon
  <2> QED
    BY <2>1, HeadTailProperties
<1> QED
  BY <1>1, AppendProperties

\* A character put into a cell leaves a screen.
LEMMA CellWritten ==
  ASSUME NEW f \in Area, NEW i \in 0 .. Size - 1, NEW k \in Shown
  PROVE  [f EXCEPT ![i].ch = k] \in Area /\ f[i].ch \in Shown
<1>1. f[i] \in Cell
  BY DEF Area
<1>2. [f[i] EXCEPT !.ch = k] \in Cell /\ f[i].ch \in Shown
  BY <1>1 DEF Cell
<1>3. [f EXCEPT ![i] = [f[i] EXCEPT !.ch = k]] \in Area
  BY <1>2 DEF Area
<1> QED
  BY <1>2, <1>3

\* A character is written: the cursor off the screen, the character, the
\* check, the cursor drawn.
LEMMA WriteKeeps ==
  ASSUME TermInv, videomode = "TEXT_80", NEW c \in Chars, softterm_write_char(c)
  PROVE  TermInv'
<1>1. TERM_COLS \in Nat \ {0} /\ TERM_ROWS \in Nat \ {0} /\ c \in 0 .. 255
  BY TerminalAssumption
<1> DEFINE here == [row |-> row, col |-> col,
                    screen |-> [screen EXCEPT ![row * TERM_COLS + col].ch = term_cursor_save]]
           p == CASE ~escape         -> Written(here, c)
                  [] escape /\ c = 74 -> softterm_clear(term_colour)
                  [] escape /\ c = 72 -> [here EXCEPT !.row = 0, !.col = 0]
                  [] OTHER            -> here
<1>2. here \in Placed
  <2>1. row * TERM_COLS + col \in 0 .. Size - 1
    BY CellInArea DEF TermInv
  <2>2. [screen EXCEPT ![row * TERM_COLS + col].ch = term_cursor_save] \in Area
    BY <2>1, CellWritten DEF TermInv
  <2> QED
    BY <2>2 DEF TermInv, Placed
<1>3. Placed \subseteq Loose
  BY <1>1 DEF Placed, Loose
<1> HIDE DEF here
<1>4. p \in Loose
  <2>1. CASE ~escape
    BY <1>1, <1>2, <2>1, WrittenLoose DEF TermInv
  <2>2. CASE escape /\ c = 74
    BY <1>3, <2>2, ClearPlaces DEF TermInv
  <2>3. CASE escape /\ c = 72
    <3>1. here \in [row : 0 .. TERM_ROWS - 1, col : 0 .. TERM_COLS - 1, screen : Area]
      BY <1>2 DEF Placed
    <3>2. here.screen \in Area /\ 0 \in 0 .. TERM_ROWS - 1 /\ 0 \in 0 .. TERM_COLS - 1
      BY <1>1, <3>1
    <3>3. [here EXCEPT !.row = 0, !.col = 0]
            \in [row : 0 .. TERM_ROWS - 1, col : 0 .. TERM_COLS - 1, screen : Area]
      BY <3>1, <3>2, MoveTypes
    <3>4. p = [here EXCEPT !.row = 0, !.col = 0]
      BY <2>3
    <3> QED
      BY <1>3, <3>3, <3>4 DEF Placed
  <2>4. CASE escape /\ c # 74 /\ c # 72
    BY <1>2, <1>3, <2>4
  <2> QED
    BY <2>1, <2>2, <2>3, <2>4 DEF TermInv
<1> HIDE DEF p
<1>5. /\ escape_buf' = IF escape THEN Append(Tail(escape_buf), c) ELSE escape_buf
      /\ term_colour' = IF escape /\ c = 109 THEN softterm_change_colours(escape_buf')
                        ELSE term_colour
  BY Zenon DEF softterm_write_char
<1>6. escape_buf' \in Seq(0 .. 255) /\ Len(escape_buf') = 4
  BY <1>1, <1>5, LastFour DEF TermInv
<1>7. term_colour' \in Colours
  BY <1>5, <1>6, ColoursSet DEF TermInv
<1> DEFINE q == softterm_check_cursor(p, term_colour')
<1>8. q \in Placed
  BY <1>4, <1>7, CheckPlaces
<1>9. /\ row' = q.row /\ col' = q.col
      /\ term_cursor_save' = q.screen[At(q)].ch
      /\ screen' = [q.screen EXCEPT ![At(q)].ch = Cursor]
  <2>1. \E z \in {softterm_check_cursor(p, term_colour')} :
          /\ row' = z.row /\ col' = z.col
          /\ term_cursor_save' = z.screen[At(z)].ch
          /\ screen' = [z.screen EXCEPT ![At(z)].ch = Cursor]
    BY Zenon DEF softterm_write_char, here, p
  <2> QED
    BY <2>1, Zenon
<1> HIDE DEF q
<1>10. At(q) \in 0 .. Size - 1 /\ q.screen \in Area
  BY <1>8, CellInArea DEF At, Placed
<1>11. term_cursor_save' \in Shown
  <2>1. q.screen[At(q)].ch \in Shown
    <3>1. Space \in Shown
      BY DEF Shown
    <3> QED
      BY <1>10, <3>1, CellWritten
  <2> QED
    BY <1>9, <2>1
<1>12. screen' \in Area
  <2>1. Cursor \in Shown
    BY DEF Shown
  <2> QED
    BY <1>9, <1>10, <2>1, CellWritten
<1>13. row' \in 0 .. TERM_ROWS - 1 /\ col' \in 0 .. TERM_COLS - 1
  BY <1>8, <1>9 DEF Placed
<1> QED
  BY <1>6, <1>7, <1>11, <1>12, <1>13 DEF TermInv

\* Zeroes in the variables and a screen nobody has cleared are a start.
LEMMA StartTyped == TerminalInit => TermInv
<1>1. TERM_COLS \in Nat \ {0} /\ TERM_ROWS \in Nat \ {0}
  BY TerminalAssumption
<1> QED
  <2> SUFFICES ASSUME TerminalInit PROVE TermInv
    OBVIOUS
  <2>1. TERM_DEFAULT_COLOUR \in Colours /\ term_colour \in Colours
    BY DEF TerminalInit, Colours, TERM_DEFAULT_COLOUR
  <2>2. screen \in Area
    BY <2>1 DEF TerminalInit, Area, Cell, Shown
  <2>3. escape_buf \in Seq(0 .. 255) /\ Len(escape_buf) = 4
    BY DEF TerminalInit
  <2> QED
    BY <1>1, <2>1, <2>2, <2>3 DEF TerminalInit, TermInv

\* Every step of the terminal keeps its types.
LEMMA StepTyped == TermInv /\ [TerminalNext]_term_vars => TermInv'
<1> SUFFICES ASSUME TermInv, [TerminalNext]_term_vars PROVE TermInv'
  OBVIOUS
<1>1. ASSUME NEW m \in Modes, bios_video_set_mode(m) PROVE TermInv'
  <2>1. CASE m = "TEXT_80"
    BY <1>1, <2>1, InitKeeps DEF bios_video_set_mode
  <2>2. CASE m # "TEXT_80"
    BY <1>1, <2>2 DEF bios_video_set_mode, TermInv
  <2> QED
    BY <2>1, <2>2
<1>2. ASSUME NEW c \in Chars, bios_video_write(c) PROVE TermInv'
  <2>1. CASE videomode = "TEXT_80"
    BY <1>2, <2>1, WriteKeeps DEF bios_video_write
  <2>2. CASE videomode # "TEXT_80"
    BY <1>2, <2>2 DEF bios_video_write, TermInv, term_vars
  <2> QED
    BY <2>1, <2>2
<1>3. CASE UNCHANGED term_vars
  BY <1>3 DEF TermInv, term_vars
<1> QED
  BY <1>1, <1>2, <1>3 DEF TerminalNext

\* The terminal's variables keep their types: the row and column of the
\* cursor, the screen, the colours, the last bytes of an escape sequence.
THEOREM TermTyped == TerminalSpec => []TermInv
  BY StartTyped, StepTyped, PTL DEF TerminalSpec

\* The cursor never leaves the screen (bios_video.c:58-129), for a screen of
\* any size, any sequence of characters and any changes of the mode.
THEOREM CursorStays == TerminalSpec => []CursorOnScreen
<1>1. TermInv => CursorOnScreen
  BY DEF TermInv, CursorOnScreen, Area
<1> QED
  BY <1>1, TermTyped, PTL
-----------------------------------------------------------------------------
(* What a character does to the text. *)

Here == row * TERM_COLS + col
Control == {27, 10, 13, 8}

\* The screen without the cursor, as softterm_write_char begins with it.
Bare == [row |-> row, col |-> col,
         screen |-> [screen EXCEPT ![row * TERM_COLS + col].ch = term_cursor_save]]

LEMMA BarePlaced ==
  ASSUME TermInv, videomode = "TEXT_80"
  PROVE  /\ Bare \in Placed /\ Here \in 0 .. Size - 1 /\ At(Bare) = Here
         /\ \A j \in 0 .. Size - 1 : Text[j] = Bare.screen[j].ch
<1>1. Here \in 0 .. Size - 1
  BY CellInArea DEF TermInv, Here
<1>2. [screen EXCEPT ![Here].ch = term_cursor_save] \in Area
  BY <1>1, CellWritten DEF TermInv
<1>3. Bare \in Placed
  BY <1>2 DEF TermInv, Placed, Bare, Here
<1>4. ASSUME NEW j \in 0 .. Size - 1 PROVE Text[j] = Bare.screen[j].ch
  <2>1. Text[j] = IF j = Here THEN term_cursor_save ELSE screen[j].ch
    BY DEF Text, Here
  <2>2. Bare.screen = [screen EXCEPT ![Here].ch = term_cursor_save]
    BY DEF Bare, Here
  <2>3. screen \in [0 .. Size - 1 -> Cell]
    BY DEF TermInv, Area
  <2> HIDE DEF Here
  <2>4. screen[Here] \in Cell
    BY <1>1, <2>3
  <2>5. [screen[Here] EXCEPT !.ch = term_cursor_save].ch = term_cursor_save
    BY <2>4 DEF Cell
  <2>6. CASE j = Here
    <3>1. Bare.screen[j] = [screen[Here] EXCEPT !.ch = term_cursor_save]
      BY <1>1, <2>2, <2>3, <2>6
    <3> QED
      BY <2>1, <2>5, <2>6, <3>1
  <2>7. CASE j # Here
    <3>1. Bare.screen[j] = screen[j]
      BY <2>2, <2>3, <2>7
    <3> QED
      BY <2>1, <2>7, <3>1
  <2> QED
    BY <2>6, <2>7
<1> QED
  BY <1>1, <1>3, <1>4 DEF At, Bare, Here

\* Outside an escape sequence the text afterwards is that of the place the
\* check leaves.
LEMMA TextAfter ==
  ASSUME TermInv, videomode = "TEXT_80", ~escape, NEW c \in Chars,
         softterm_write_char(c), NEW q, q = softterm_check_cursor(Written(Bare, c), term_colour)
  PROVE  /\ q \in Placed /\ Here' = At(q) /\ At(q) \in 0 .. Size - 1
         /\ \A j \in 0 .. Size - 1 : Text'[j] = q.screen[j].ch
         /\ escape' = (c = 27)
<1>1. Bare \in Placed
  BY BarePlaced
<1>2. Written(Bare, c) \in Loose
  BY <1>1, WrittenLoose DEF TermInv
<1>3. q \in Placed
  BY <1>2, CheckPlaces DEF TermInv
<1>4. At(q) \in 0 .. Size - 1 /\ q.screen \in Area
  BY <1>3, CellInArea DEF At, Placed
<1>5. escape' = (c = 27) /\ term_colour' = term_colour
  BY Zenon DEF softterm_write_char
<1>6. /\ row' = q.row /\ col' = q.col
      /\ term_cursor_save' = q.screen[At(q)].ch
      /\ screen' = [q.screen EXCEPT ![At(q)].ch = Cursor]
  <2>1. \E z \in {softterm_check_cursor(Written(Bare, c), term_colour')} :
          /\ row' = z.row /\ col' = z.col
          /\ term_cursor_save' = z.screen[At(z)].ch
          /\ screen' = [z.screen EXCEPT ![At(z)].ch = Cursor]
    <3>1. (CASE ~escape         -> Written(Bare, c)
             [] escape /\ c = 74 -> softterm_clear(term_colour)
             [] escape /\ c = 72 -> [Bare EXCEPT !.row = 0, !.col = 0]
             [] OTHER            -> Bare) = Written(Bare, c)
      OBVIOUS
    <3>2. \E z \in {softterm_check_cursor((CASE ~escape         -> Written(Bare, c)
             [] escape /\ c = 74 -> softterm_clear(term_colour)
             [] escape /\ c = 72 -> [Bare EXCEPT !.row = 0, !.col = 0]
             [] OTHER            -> Bare), term_colour')} :
          /\ row' = z.row /\ col' = z.col
          /\ term_cursor_save' = z.screen[At(z)].ch
          /\ screen' = [z.screen EXCEPT ![At(z)].ch = Cursor]
      BY Zenon DEF softterm_write_char, Bare
    <3> QED
      BY <3>1, <3>2, Zenon
  <2> QED
    BY <1>5, <2>1, Zenon
<1>7. Here' = At(q)
  BY <1>6 DEF Here, At
<1>8. ASSUME NEW j \in 0 .. Size - 1 PROVE Text'[j] = q.screen[j].ch
  <2>1. Text'[j] = IF j = Here' THEN term_cursor_save' ELSE screen'[j].ch
    BY DEF Text, Here
  <2>2. CASE j = At(q)
    BY <1>6, <1>7, <2>1, <2>2
  <2>3. CASE j # At(q)
    <3>1. screen'[j] = q.screen[j]
      BY <1>4, <1>6, <2>3 DEF Area
    <3> QED
      BY <1>7, <2>1, <2>3, <3>1
  <2> QED
    BY <2>2, <2>3
<1> QED
  BY <1>3, <1>4, <1>5, <1>7, <1>8

\* A character that can be seen is at the cursor and the cursor behind it; if
\* it was in the last cell, all of the text is one row higher.
LEMMA CharacterShown ==
  ASSUME TermInv, videomode = "TEXT_80", ~escape, NEW c \in Chars \ Control,
         softterm_write_char(c)
  PROVE  /\ ~escape' /\ Here' \in 0 .. Size - 1
         /\ \E up \in {0, TERM_COLS} :
              /\ Here' = Here + 1 - up
              /\ up = TERM_COLS => Here' = (TERM_ROWS - 1) * TERM_COLS
              /\ \A j \in 0 .. Here' - 1 :
                   Text'[j] = IF j + up = Here THEN c ELSE Text[j + up]
<1> DEFINE p == Written(Bare, c)
           q == softterm_check_cursor(p, term_colour)
<1>1. TERM_COLS \in Nat \ {0} /\ TERM_ROWS \in Nat \ {0} /\ c \notin {27, 10, 13, 8} /\ c \in Chars
  BY TerminalAssumption DEF Control
<1>2. /\ q \in Placed /\ Here' = At(q) /\ At(q) \in 0 .. Size - 1
      /\ \A j \in 0 .. Size - 1 : Text'[j] = q.screen[j].ch
      /\ escape' = (c = 27)
  BY <1>1, TextAfter
<1>3. /\ Bare \in Placed /\ Here \in 0 .. Size - 1 /\ At(Bare) = Here
      /\ \A j \in 0 .. Size - 1 : Text[j] = Bare.screen[j].ch
  BY BarePlaced
<1>4. p = [Bare EXCEPT !.screen = [Bare.screen EXCEPT ![Here] = [ch |-> c, colour |-> term_colour]],
                       !.col = col + 1]
  <2>1. p = [Bare EXCEPT !.screen[At(Bare)] = [ch |-> c, colour |-> term_colour], !.col = @ + 1]
    BY <1>1 DEF Written
  <2>2. Bare.col = col
    BY DEF Bare
  <2> QED
    BY <1>3, <2>1, <2>2
<1>5. p.row = row /\ p.col = col + 1
      /\ p.screen = [Bare.screen EXCEPT ![Here] = [ch |-> c, colour |-> term_colour]]
  <2>1. Bare.row = row /\ Bare \in [row : 0 .. TERM_ROWS - 1, col : 0 .. TERM_COLS - 1, screen : Area]
    BY <1>3 DEF Bare, Placed
  <2> QED
    BY <1>4, <2>1
<1>6. ASSUME NEW j \in 0 .. Size - 1 PROVE p.screen[j].ch = IF j = Here THEN c ELSE Text[j]
  <2>1. Bare.screen \in [0 .. Size - 1 -> Cell]
    BY <1>3 DEF Placed, Area
  <2> HIDE DEF p
  <2>2. CASE j = Here
    <3>1. p.screen[j] = [ch |-> c, colour |-> term_colour]
      BY <1>3, <1>5, <2>1, <2>2
    <3> QED
      BY <2>2, <3>1
  <2>3. CASE j # Here
    <3>1. p.screen[j] = Bare.screen[j]
      BY <1>5, <2>1, <2>3
    <3> QED
      BY <1>3, <2>3, <3>1
  <2> QED
    BY <2>2, <2>3
<1>7. row \in 0 .. TERM_ROWS - 1 /\ col \in 0 .. TERM_COLS - 1
  BY DEF TermInv
<1> HIDE DEF p
<1>7a. Size \in Int /\ Here \in Nat /\ 0 .. Here' - 1 \subseteq 0 .. Size - 1
  <2>1. Size \in Int
    BY <1>1 DEF Size
  <2> HIDE DEF q
  <2>2. Here' \in 0 .. Size - 1
    BY <1>2
  <2>3. PICK n, g : n = Size /\ g = Here'
    OBVIOUS
  <2>4. n \in Int /\ g \in 0 .. n - 1
    BY <2>1, <2>2, <2>3
  <2>5. 0 .. g - 1 \subseteq 0 .. n - 1
    BY <2>4
  <2> QED
    BY <1>3, <2>1, <2>3, <2>5
<1>7b. ASSUME Here' = Here + 1, \A j \in 0 .. Size - 1 : Text'[j] = p.screen[j].ch
       PROVE  \E up \in {0, TERM_COLS} :
                /\ Here' = Here + 1 - up
                /\ up = TERM_COLS => Here' = (TERM_ROWS - 1) * TERM_COLS
                /\ \A j \in 0 .. Here' - 1 :
                     Text'[j] = IF j + up = Here THEN c ELSE Text[j + up]
  <2>1. ASSUME NEW j \in 0 .. Here' - 1 PROVE Text'[j] = IF j + 0 = Here THEN c ELSE Text[j + 0]
    <3>1. j \in 0 .. Size - 1 /\ j + 0 = j
      BY <1>7a, <2>1
    <3> QED
      BY <1>6, <1>7b, <3>1
  <2>2. Here' = Here + 1 - 0 /\ 0 # TERM_COLS
    BY <1>1, <1>7a, <1>7b
  <2>3. \E up \in {0} :
          /\ Here' = Here + 1 - up /\ up # TERM_COLS
          /\ \A j \in 0 .. Here' - 1 : Text'[j] = IF j + up = Here THEN c ELSE Text[j + up]
    BY <2>1, <2>2
  <2> QED
    BY <2>3, Zenon
<1>7c. ~escape' /\ Here' \in 0 .. Size - 1
  BY <1>1, <1>2
<1>8. CASE col + 1 < TERM_COLS
  <2>1. q = p
    BY <1>1, <1>5, <1>7, <1>8 DEF softterm_check_cursor
  <2>2. At(q) = Here + 1
    <3>1. row * TERM_COLS \in Int
      BY <1>1, <1>7
    <3>2. At(q) = row * TERM_COLS + (col + 1)
      BY <1>5, <2>1 DEF At
    <3> QED
      BY <1>7, <3>1, <3>2 DEF Here
  <2>3. Here' = Here + 1 /\ \A j \in 0 .. Size - 1 : Text'[j] = p.screen[j].ch
    BY <1>2, <2>1, <2>2
  <2> QED
    BY <1>7b, <1>7c, <2>3
<1>9. CASE col + 1 = TERM_COLS
  <2> DEFINE w == [p EXCEPT !.row = @ + 1, !.col = 0]
  <2>1. w.row = row + 1 /\ w.col = 0 /\ w.screen = p.screen
    <3>1. p.row = row
      BY <1>5
    <3>2. p \in Loose
      BY <1>1, <1>3, WrittenLoose DEF TermInv, p
    <3> QED
      BY <3>1, <3>2 DEF Loose
  <2>2. q = IF w.row >= TERM_ROWS THEN softterm_scroll(w, w.row - TERM_ROWS + 1, term_colour) ELSE w
    BY <1>1, <1>5, <1>9 DEF softterm_check_cursor
  <2>3. (row + 1) * TERM_COLS = Here + 1
    BY <1>1, <1>7, <1>9 DEF Here
  <2>4. CASE row + 1 < TERM_ROWS
    <3>1. q = w
      BY <1>1, <1>7, <2>1, <2>2, <2>4
    <3>2. At(q) = (row + 1) * TERM_COLS + 0
      BY <2>1, <3>1 DEF At
    <3>3. At(q) = Here + 1
      <4>1. (row + 1) * TERM_COLS + 0 = Here + 1
        BY <1>7a, <2>3
      <4> QED
        BY <3>2, <4>1
    <3>4. Here' = Here + 1 /\ \A j \in 0 .. Size - 1 : Text'[j] = p.screen[j].ch
      BY <1>2, <2>1, <3>1, <3>3
    <3> QED
      BY <1>7b, <1>7c, <3>4
  <2>5. CASE row + 1 = TERM_ROWS
    <3>1. q = softterm_scroll(w, 1, term_colour)
      <4>1. w.row >= TERM_ROWS /\ w.row - TERM_ROWS + 1 = 1
        BY <1>1, <2>1, <2>5
      <4> QED
        BY <2>2, <4>1
    <3> HIDE DEF q
    <3> DEFINE s == [i \in 0 .. Size - 1 |->
                       IF i + 1 * TERM_COLS < Size
                       THEN w.screen[i + 1 * TERM_COLS] ELSE Blank(term_colour)]
    <3>2. q = [w EXCEPT !.row = @ - 1, !.screen = s]
      BY <3>1 DEF softterm_scroll
    <3>3. q.row = TERM_ROWS - 1 /\ q.col = 0 /\ q.screen = s
      <4>1. w.row - 1 = TERM_ROWS - 1
        BY <1>1, <2>1, <2>5
      <4>2. p \in Loose
        BY <1>1, <1>3, WrittenLoose DEF TermInv, p
      <4> HIDE DEF s
      <4> QED
        BY <2>1, <3>2, <4>1, <4>2 DEF Loose
    <3>4. At(q) = (TERM_ROWS - 1) * TERM_COLS
      <4>1. (TERM_ROWS - 1) * TERM_COLS \in Int
        BY <1>1
      <4> QED
        BY <3>3, <4>1 DEF At
    <3>5. (TERM_ROWS - 1) * TERM_COLS = Here + 1 - TERM_COLS
      BY <1>1, <1>7, <2>5, <1>9 DEF Here
    <3> DEFINE h == Here  n == Size
    <3>6. n \in Int /\ h \in 0 .. n - 1 /\ h + 1 = n
      <4>1. TERM_ROWS * TERM_COLS = Here + 1
        BY <2>3, <2>5
      <4> QED
        BY <1>1, <1>3, <4>1 DEF Size
    <3>7. ASSUME NEW j \in 0 .. Here' - 1
          PROVE  Text'[j] = IF j + TERM_COLS = Here THEN c ELSE Text[j + TERM_COLS]
      <4>1. Here' = h + 1 - TERM_COLS
        BY <1>2, <3>4, <3>5
      <4> HIDE DEF h, n
      <4>2. j + TERM_COLS \in 0 .. n - 1 /\ j \in 0 .. n - 1 /\ j + TERM_COLS < n
        BY <1>1, <3>6, <3>7, <4>1
      <4>3. s[j] = w.screen[j + TERM_COLS]
        BY <1>1, <4>2 DEF n
      <4>4. Text'[j] = w.screen[j + TERM_COLS].ch
        BY <1>2, <3>3, <4>2, <4>3 DEF n
      <4> QED
        BY <1>6, <2>1, <4>2, <4>4 DEF n
    <3>8. Here' = Here + 1 - TERM_COLS /\ Here' = (TERM_ROWS - 1) * TERM_COLS
      BY <1>2, <3>4, <3>5
    <3> HIDE DEF h, n
    <3> QED
      BY <1>7c, <3>7, <3>8, Zenon
  <2> QED
    BY <1>1, <1>7, <2>4, <2>5
<1> QED
  BY <1>1, <1>7, <1>8, <1>9

\* A backspace steps back by a cell, also over the start of a row, and leaves
\* the text as it is.
LEMMA BackspaceSteps ==
  ASSUME TermInv, videomode = "TEXT_80", ~escape, 8 \in Chars, Here > 0,
         softterm_write_char(8)
  PROVE  /\ ~escape' /\ Here' = Here - 1
         /\ \A j \in 0 .. Size - 1 : Text'[j] = Text[j]
<1> DEFINE p == Written(Bare, 8)
           q == softterm_check_cursor(p, term_colour)
<1>1. TERM_COLS \in Nat \ {0} /\ TERM_ROWS \in Nat \ {0}
  BY TerminalAssumption
<1>2. /\ Here' = At(q) /\ \A j \in 0 .. Size - 1 : Text'[j] = q.screen[j].ch
      /\ escape' = (8 = 27)
  BY TextAfter
<1>3. /\ Bare \in Placed /\ At(Bare) = Here
      /\ \A j \in 0 .. Size - 1 : Text[j] = Bare.screen[j].ch
  BY BarePlaced
<1>4. row \in 0 .. TERM_ROWS - 1 /\ col \in 0 .. TERM_COLS - 1 /\ Bare.row = row /\ Bare.col = col
  BY DEF TermInv, Bare
<1>5. p = Back(Bare)
  BY DEF Written
<1>6. p.row \in 0 .. TERM_ROWS - 1 /\ p.col \in 0 .. TERM_COLS - 1 /\ p.screen = Bare.screen
      /\ At(p) = Here - 1
  <2> HIDE DEF p
  <2>1. Bare \in [row : 0 .. TERM_ROWS - 1, col : 0 .. TERM_COLS - 1, screen : Area]
    BY <1>3 DEF Placed
  <2>2. CASE col > 0
    <3>1. p = [Bare EXCEPT !.col = col - 1]
      BY <1>4, <1>5, <2>2 DEF Back
    <3>2. p.row = row /\ p.col = col - 1 /\ p.screen = Bare.screen
      BY <1>4, <2>1, <3>1
    <3>3. row * TERM_COLS \in Int
      BY <1>1, <1>4
    <3> QED
      BY <1>1, <1>4, <2>2, <3>2, <3>3 DEF At, Here
  <2>3. CASE col = 0
    <3>1. row > 0
      BY <1>1, <1>4, <2>3 DEF Here
    <3>2. p = [Bare EXCEPT !.row = row - 1, !.col = TERM_COLS - 1]
      BY <1>4, <1>5, <2>3, <3>1 DEF Back
    <3>3. p.row = row - 1 /\ p.col = TERM_COLS - 1 /\ p.screen = Bare.screen
      BY <1>4, <2>1, <3>2
    <3>4. (row - 1) * TERM_COLS = row * TERM_COLS - TERM_COLS /\ row * TERM_COLS \in Int
      BY <1>1, <1>4
    <3> QED
      BY <1>1, <1>4, <2>3, <3>1, <3>3, <3>4 DEF At, Here
  <2> QED
    BY <1>4, <2>2, <2>3
<1> HIDE DEF p
<1>7. q = p
  BY <1>1, <1>6 DEF softterm_check_cursor
<1> HIDE DEF q
<1>8. 8 # 27
  OBVIOUS
<1> QED
  BY <1>2, <1>3, <1>6, <1>7, <1>8, Zenon
-----------------------------------------------------------------------------
(* The line on the screen. *)

\* What of the terminal is written to.
Printing == bios_stdout_device = "VIDEO" /\ videomode = "TEXT_80"

\* The character number i of what the prompt and the line are.
Line(i) == IF i <= Len(Prompt) THEN Prompt[i] ELSE inputbuf[i - Len(Prompt)]
Length  == Len(Prompt) + bufidx

\* The first n of them are on the screen, d cells before the cursor.
Shows(n, d) == n + d <= Here /\ \A i \in 1 .. n : Text[Here - d - n + i - 1] = Line(i)

\* What is still to be printed is the rest of the line, or what wipes out the
\* character behind it.
ToShow  == /\ Len(out) <= Length /\ \A i \in 1 .. Len(out) : out[i] = Line(Length - Len(out) + i)
           /\ Shows(Length - Len(out), 0)
Rubbing == /\ bufidx < BUFLEN - 1
           /\ \/ out = <<8, 32, 8>> /\ Shows(Length, 1)
              \/ out = <<32, 8>> /\ Shows(Length, 0)
              \/ out = << 8 >> /\ Shows(Length, 1)
LineInv == shell = "reading" /\ Printing => ~escape /\ (ToShow \/ Rubbing)

\* The line ends behind its last character, and all of them can be seen.
BufInv ==
  /\ inputbuf \in [1 .. BUFLEN -> Keys \cup {NUL}] /\ bufidx \in 0 .. BUFLEN - 1
  /\ shell \in {"reading", "execute"} =>
       inputbuf[bufidx + 1] = NUL /\ \A i \in 1 .. bufidx : inputbuf[i] \in Plain

\* Escape sequences are complete where nothing is being printed.
EscapeInv == IF Printing THEN Completes(out, escape) ELSE escape = FALSE

ModeInv ==
  /\ shell = "start" => out = << >> /\ lines = 0
  /\ ModeRestored

ShellTyped ==
  /\ bios_stdout_device \in {"UART", "VIDEO"} /\ videomode \in Modes /\ oldmode \in Modes
  /\ shell \in {"start", "prompt", "reading", "execute", "program", "return"}
  /\ out \in Seq(Chars)

ConsoleInv == TermInv /\ ShellTyped /\ BufInv /\ EscapeInv /\ ModeInv /\ LineInv
-----------------------------------------------------------------------------
\* A character that can be seen steers nothing.
LEMMA PlainSeen == Plain \subseteq Chars \ Control /\ 27 \notin Plain
<1>1. Chars \subseteq 0 .. 255
  BY TerminalAssumption
<1> QED
  BY <1>1 DEF Plain, Control

\* Every character of the line can be seen.
LEMMA LinePlain ==
  ASSUME ConsoleAssumption, BufInv, shell = "reading"
  PROVE  Length \in Nat /\ Len(Prompt) \in Nat /\ \A i \in 1 .. Length : Line(i) \in Plain
<1>1. Prompt \in Seq(Plain) /\ Len(Prompt) \in Nat
  <2>1. Prompt \in Seq(Plain)
    BY DEF ConsoleAssumption
  <2> QED
    BY <2>1, LenProperties, Zenon
<1>2. BUFLEN \in Nat /\ bufidx \in Nat /\ \A i \in 1 .. bufidx : inputbuf[i] \in Plain
  BY DEF ConsoleAssumption, BufInv
<1>3. ASSUME NEW i \in 1 .. Length PROVE Line(i) \in Plain
  <2>1. CASE i <= Len(Prompt)
    <3>1. i \in 1 .. Len(Prompt)
      BY <1>1, <1>2, <1>3, <2>1 DEF Length
    <3>2. Prompt[i] \in Plain
      BY <1>1, <3>1, ElementOfSeq
    <3> QED
      BY <2>1, <3>2 DEF Line
  <2>2. CASE ~(i <= Len(Prompt))
    <3>1. i - Len(Prompt) \in 1 .. bufidx
      BY <1>1, <1>2, <1>3, <2>2 DEF Length
    <3> QED
      BY <1>2, <2>2, <3>1 DEF Line
  <2> QED
    BY <2>1, <2>2
<1> QED
  BY <1>1, <1>2, <1>3 DEF Length

\* The line never fills the screen.
LEMMA LineFits ==
  ASSUME ConsoleAssumption, BufInv
  PROVE  Length <= (TERM_ROWS - 1) * TERM_COLS /\ (TERM_ROWS - 1) * TERM_COLS \in Int
         /\ (bufidx < BUFLEN - 1 => Length + 1 <= (TERM_ROWS - 1) * TERM_COLS)
<1>1. TERM_COLS \in Nat /\ TERM_ROWS \in Nat /\ (TERM_ROWS - 1) * TERM_COLS \in Int
  BY TerminalAssumption
<1>2. Len(Prompt) \in Nat
  <2>1. Prompt \in Seq(Plain)
    BY DEF ConsoleAssumption
  <2> QED
    BY <2>1, LenProperties, Zenon
<1> DEFINE z == (TERM_ROWS - 1) * TERM_COLS
<1>3. z \in Int /\ Len(Prompt) + BUFLEN <= z + 1 /\ BUFLEN \in Nat
  BY <1>1 DEF ConsoleAssumption
<1>4. bufidx \in 0 .. BUFLEN - 1
  BY DEF BufInv
<1> HIDE DEF z
<1>5. Length <= z /\ (bufidx < BUFLEN - 1 => Length + 1 <= z)
  BY <1>2, <1>3, <1>4 DEF Length
<1> QED
  BY <1>1, <1>5 DEF z

\* A character that can be seen comes behind what is shown, also where the
\* line wraps and the screen scrolls.
LEMMA ShowsMore ==
  ASSUME TermInv, videomode = "TEXT_80", ~escape, NEW c \in Plain, softterm_write_char(c),
         NEW n \in Nat, n + 1 <= (TERM_ROWS - 1) * TERM_COLS,
         Shows(n, 0), UNCHANGED inputbuf
  PROVE  ~escape' /\ Shows(n, 1)' /\ Text'[Here' - 1] = c /\ Here' \in Nat
<1>1. c \in Chars \ Control
  BY PlainSeen
<1>2. PICK up \in {0, TERM_COLS} :
        /\ ~escape' /\ Here' \in 0 .. Size - 1
        /\ Here' = Here + 1 - up
        /\ up = TERM_COLS => Here' = (TERM_ROWS - 1) * TERM_COLS
        /\ \A j \in 0 .. Here' - 1 : Text'[j] = IF j + up = Here THEN c ELSE Text[j + up]
  BY <1>1, CharacterShown
<1>3. TERM_COLS \in Nat \ {0} /\ TERM_ROWS \in Nat \ {0} /\ up \in Nat
  BY TerminalAssumption
<1>4. Size \in Int /\ (TERM_ROWS - 1) * TERM_COLS \in Int
  BY <1>3 DEF Size
<1>5. Here \in Nat
  BY BarePlaced, <1>4
<1>6. n <= Here /\ \A i \in 1 .. n : Text[Here - 0 - n + i - 1] = Line(i)
  BY <1>5 DEF Shows
<1> DEFINE h == Here  g == Here'  z == (TERM_ROWS - 1) * TERM_COLS
<1>7. h \in Nat /\ g \in Nat /\ z \in Int /\ g = h + 1 - up /\ n <= h /\ n + 1 <= z
      /\ (up = 0 \/ g = z)
  BY <1>2, <1>4, <1>5, <1>6
<1>8. n + 1 <= g
  <2> HIDE DEF h, g, z
  <2> QED
    BY <1>7
<1>9. ASSUME NEW i \in 1 .. n PROVE Text'[g - 1 - n + i - 1] = Line(i)'
  <2> HIDE DEF h, g, z
  <2>1. PICK j : j = g - 1 - n + i - 1
    OBVIOUS
  <2>2. j \in 0 .. g - 1 /\ j + up # h /\ j + up = h - 0 - n + i - 1
    BY <1>3, <1>7, <1>8, <2>1
  <2>3. Text'[j] = Text[j + up]
    BY <1>2, <2>2 DEF g, h
  <2>4. Text[h - 0 - n + i - 1] = Line(i)
    BY <1>6 DEF h
  <2>5. Line(i)' = Line(i)
    BY DEF Line
  <2> QED
    BY <2>1, <2>2, <2>3, <2>4, <2>5
<1>10. Text'[g - 1] = c
  <2> HIDE DEF h, g, z
  <2>1. PICK j : j = g - 1
    OBVIOUS
  <2>2. j \in 0 .. g - 1 /\ j + up = h
    BY <1>3, <1>7, <1>8, <2>1
  <2>3. Text'[j] = c
    BY <1>2, <2>2 DEF g, h
  <2> QED
    BY <2>1, <2>3
<1> QED
  BY <1>2, <1>7, <1>8, <1>9, <1>10 DEF Shows

\* A backspace takes the cursor to the end of what is shown.
LEMMA ShowsBack ==
  ASSUME TermInv, videomode = "TEXT_80", ~escape, 8 \in Chars, softterm_write_char(8),
         NEW n \in Nat, Shows(n, 1), UNCHANGED inputbuf
  PROVE  ~escape' /\ Shows(n, 0)'
<1>1. Here \in Nat /\ Here \in 0 .. Size - 1 /\ Size \in Int
  <2>1. Size \in Int
    BY TerminalAssumption DEF Size
  <2> QED
    BY <2>1, BarePlaced
<1>2. n + 1 <= Here /\ \A i \in 1 .. n : Text[Here - 1 - n + i - 1] = Line(i)
  BY DEF Shows
<1>3. Here > 0
  BY <1>1, <1>2
<1>4. ~escape' /\ Here' = Here - 1 /\ \A j \in 0 .. Size - 1 : Text'[j] = Text[j]
  BY <1>3, BackspaceSteps
<1> DEFINE h == Here  s == Size
<1>5. ASSUME NEW i \in 1 .. n PROVE Text'[h - 1 - 0 - n + i - 1] = Line(i)'
  <2>1. h \in 0 .. s - 1 /\ n + 1 <= h /\ s \in Int
    BY <1>1, <1>2
  <2> HIDE DEF h, s
  <2>2. PICK j : j = h - 1 - n + i - 1
    OBVIOUS
  <2>3. j \in 0 .. s - 1 /\ j = h - 1 - 0 - n + i - 1
    BY <2>1, <2>2
  <2>4. Text'[j] = Text[j]
    BY <1>4, <2>3 DEF s
  <2>5. Text[h - 1 - n + i - 1] = Line(i)
    BY <1>2 DEF h
  <2>6. Line(i)' = Line(i)
    BY DEF Line
  <2> QED
    BY <2>2, <2>3, <2>4, <2>5, <2>6
<1>6. n + 0 <= h - 1
  BY <1>1, <1>2
<1> QED
  BY <1>4, <1>5, <1>6 DEF Shows
-----------------------------------------------------------------------------
(* Escape sequences in what is printed. *)

\* Where no escape character is, nothing is left open.
LEMMA PlainCompletes ==
  ASSUME NEW s \in Seq(Chars), \A i \in 1 .. Len(s) : s[i] # 27
  PROVE  Completes(s, FALSE)
<1>1. Len(s) \in Nat
  BY LenProperties, Zenon
<1> DEFINE e == [i \in 1 .. Len(s) + 1 |-> FALSE]
<1>2. e \in [1 .. Len(s) + 1 -> BOOLEAN] /\ e[1] = FALSE /\ e[Len(s) + 1] = FALSE
  BY <1>1
<1>3. ASSUME NEW i \in 1 .. Len(s) PROVE e[i + 1] = Follows(e[i], s[i])
  <2>1. e[i] = FALSE /\ e[i + 1] = FALSE
    BY <1>1
  <2> HIDE DEF e
  <2> QED
    BY <2>1 DEF Follows
<1> HIDE DEF e
<1> QED
  BY <1>2, <1>3 DEF Completes

\* With a character printed the rest completes what it leaves open.
LEMMA TailCompletes ==
  ASSUME NEW s \in Seq(Chars), s # << >>, NEW inside, Completes(s, inside)
  PROVE  inside \in BOOLEAN /\ Completes(Tail(s), Follows(inside, Head(s)))
<1>1. /\ Len(s) \in Nat /\ Len(Tail(s)) = Len(s) - 1 /\ Head(s) = s[1] /\ Len(s) # 0
      /\ \A i \in 1 .. Len(Tail(s)) : Tail(s)[i] = s[i + 1]
  <2>1. Len(s) \in Nat
    BY LenProperties, Zenon
  <2> QED
    BY <2>1, HeadTailProperties
<1>2. PICK e \in [1 .. Len(s) + 1 -> BOOLEAN] :
        /\ e[1] = inside /\ e[Len(s) + 1] = FALSE
        /\ \A i \in 1 .. Len(s) : e[i + 1] = Follows(e[i], s[i])
  BY DEF Completes
<1>3. PICK n : n = Len(s)
  OBVIOUS
<1> DEFINE d == [i \in 1 .. n |-> e[i + 1]]
<1>4. n \in Nat \ {0} /\ e \in [1 .. n + 1 -> BOOLEAN]
  BY <1>1, <1>2, <1>3
<1>5. d \in [1 .. n -> BOOLEAN] /\ d[n] = e[n + 1] /\ d[1] = e[2]
  BY <1>4
<1>6. ASSUME NEW i \in 1 .. n - 1 PROVE d[i + 1] = Follows(d[i], Tail(s)[i])
  <2>1. d[i] = e[i + 1] /\ d[i + 1] = e[i + 1 + 1] /\ i + 1 \in 1 .. n /\ i \in 1 .. n - 1
    BY <1>4
  <2> HIDE DEF d
  <2>2. Tail(s)[i] = s[i + 1]
    BY <1>1, <1>3, <2>1
  <2>3. e[i + 1 + 1] = Follows(e[i + 1], s[i + 1])
    BY <1>2, <1>3, <2>1
  <2> QED
    BY <2>1, <2>2, <2>3
<1>7. inside \in BOOLEAN
  BY <1>2, <1>4
<1>8. e[2] = Follows(inside, Head(s))
  <2>1. 1 \in 1 .. n /\ 1 + 1 = 2
    BY <1>4
  <2>2. e[1 + 1] = Follows(e[1], s[1])
    BY <1>2, <1>3, <2>1
  <2> QED
    BY <1>1, <1>2, <2>1, <2>2
<1> HIDE DEF d
<1>9. Len(Tail(s)) = n - 1 /\ n - 1 + 1 = n
  BY <1>1, <1>3, <1>4
<1>10. Completes(Tail(s), d[1])
  <2>1. d \in [1 .. n - 1 + 1 -> BOOLEAN] /\ d[n - 1 + 1] = FALSE
    BY <1>2, <1>3, <1>5, <1>9
  <2> QED
    BY <1>6, <1>9, <2>1 DEF Completes
<1> QED
  BY <1>5, <1>7, <1>8, <1>10

\* With nothing left to print no sequence is open.
LEMMA IdleCompletes == Completes(<< >>, escape) => escape = FALSE
<1> SUFFICES ASSUME Completes(<< >>, escape) PROVE escape = FALSE
  OBVIOUS
<1>1. Len(<< >>) = 0 /\ 0 + 1 = 1
  BY EmptySeq
<1>2. PICK e \in [1 .. Len(<< >>) + 1 -> BOOLEAN] : e[1] = escape /\ e[Len(<< >>) + 1] = FALSE
  BY DEF Completes
<1> QED
  BY <1>1, <1>2
-----------------------------------------------------------------------------
(* The words of the line. *)

LEMMA SmallestOf ==
  ASSUME NEW T, T \subseteq Nat, T # {}
  PROVE  \E x \in T : \A y \in T : x <= y
<1>1. PICK x \in T : \A y \in T : ~ (<<y, x>> \in OpToRel(<, Nat))
  BY NatLessThanWellFounded, WFMin, Zenon
<1>2. \A y \in T : ~ (y < x)
  BY <1>1 DEF OpToRel
<1> QED
  BY <1>2

\* The end of the line is behind its last character.
LEMMA EndIsEnd ==
  ASSUME ConsoleAssumption, BufInv, shell = "execute"
  PROVE  End = bufidx + 1 /\ bufidx + 1 \in 1 .. BUFLEN
<1>1. BUFLEN \in Nat /\ bufidx \in 0 .. BUFLEN - 1
  BY DEF ConsoleAssumption, BufInv
<1>2. inputbuf[bufidx + 1] = 0 /\ \A i \in 1 .. bufidx : inputbuf[i] # 0
  BY TerminalAssumption DEF BufInv, NUL, Plain
<1> DEFINE Ends(i) == inputbuf[i] = NUL /\ \A j \in 1 .. i - 1 : inputbuf[j] # NUL
<1>3. bufidx + 1 \in 1 .. BUFLEN /\ Ends(bufidx + 1)
  BY <1>1, <1>2 DEF NUL
<1>4. End \in 1 .. BUFLEN /\ Ends(End)
  <2>1. End = CHOOSE i \in 1 .. BUFLEN : Ends(i)
    BY DEF End
  <2> HIDE DEF Ends
  <2> QED
    BY <1>3, <2>1
<1>5. End = bufidx + 1
  <2>1. ~ (End < bufidx + 1)
    BY <1>1, <1>2, <1>4 DEF NUL
  <2>2. ~ (bufidx + 1 < End)
    BY <1>1, <1>2, <1>4 DEF NUL
  <2> QED
    BY <1>1, <1>4, <2>1, <2>2
<1> QED
  BY <1>3, <1>5

\* The first word is printed without an escape sequence or a control.
LEMMA ArgumentPlain ==
  ASSUME ConsoleAssumption, BufInv, shell = "execute", count_arguments > 0
  PROVE  get_argument(ARG0LEN, 0) \in Seq(Plain)
<1>1. BUFLEN \in Nat /\ bufidx \in 0 .. BUFLEN - 1 /\ ARG0LEN \in Nat
      /\ inputbuf[bufidx + 1] = 0 /\ \A i \in 1 .. bufidx : inputbuf[i] \in Plain
  BY DEF ConsoleAssumption, BufInv, NUL
<1>2. End = bufidx + 1
  BY EndIsEnd
<1> DEFINE starts == {i \in 1 .. End - 1 : Begins(i)}
<1>3. starts \subseteq 1 .. bufidx
  BY <1>1, <1>2
<1>4. starts # {}
  <2>1. count_arguments = Cardinality(starts)
    BY DEF count_arguments
  <2>2. Cardinality({}) = 0
    BY FS_EmptySet
  <2> HIDE DEF starts
  <2> QED
    BY <2>1, <2>2
<1> DEFINE Nth(i) == Cardinality({j \in starts : j < i}) = 0
<1>5. find_argument(0) = IF \E i \in starts : Nth(i) THEN CHOOSE i \in starts : Nth(i) ELSE 0
  BY DEF find_argument
<1> HIDE DEF starts
<1>6. \E i \in starts : Nth(i)
  <2>1. starts \subseteq Nat
    BY <1>1, <1>3
  <2>2. PICK m \in starts : \A y \in starts : m <= y
    BY <1>4, <2>1, SmallestOf
  <2>3. {j \in starts : j < m} = {}
    <3>1. m \in Nat /\ \A j \in starts : j \in Nat /\ m <= j
      BY <2>1, <2>2
    <3>2. \A j \in starts : ~ (j < m)
      BY <3>1
    <3> QED
      BY <3>2, Zenon
  <2>4. Cardinality({}) = 0
    BY FS_EmptySet
  <2>5. Nth(m)
    BY <2>3, <2>4
  <2> QED
    BY <2>2, <2>5
<1> HIDE DEF Nth
<1>7. find_argument(0) \in starts
  BY <1>5, <1>6
<1>8. PICK start \in 1 .. bufidx : start = find_argument(0)
  BY <1>3, <1>7
<1> DEFINE Stops(j) == /\ inputbuf[j] \in {NUL, 32}
                       /\ \A k \in start .. j - 1 : inputbuf[k] \notin {NUL, 32}
           stop == CHOOSE j \in start .. BUFLEN : Stops(j)
           word == SubSeq(inputbuf, start, stop - 1)
<1>9. get_argument(ARG0LEN, 0) = IF Len(word) < ARG0LEN THEN word ELSE SubSeq(word, 1, ARG0LEN - 1)
  BY <1>8 DEF get_argument
<1>10. \E j \in start .. BUFLEN : Stops(j)
  <2> DEFINE T == {j \in start .. BUFLEN : inputbuf[j] \in {NUL, 32}}
  <2>1. T \subseteq Nat /\ bufidx + 1 \in T
    BY <1>1 DEF NUL
  <2>2. PICK m \in T : \A y \in T : m <= y
    <3> HIDE DEF T
    <3> QED
      BY <2>1, SmallestOf
  <2>3. m \in start .. BUFLEN /\ inputbuf[m] \in {NUL, 32}
    BY <2>2
  <2>4. ASSUME NEW k \in start .. m - 1 PROVE inputbuf[k] \notin {NUL, 32}
    <3>1. k \in start .. BUFLEN /\ k < m
      BY <1>1, <2>3
    <3>2. k \notin T
      <4>1. T \subseteq Nat /\ m \in Nat /\ k \in Nat
        BY <1>1, <2>1, <2>2, <3>1
      <4> HIDE DEF T
      <4> QED
        BY <2>2, <3>1, <4>1
    <3> QED
      BY <3>1, <3>2
  <2> QED
    BY <2>3, <2>4
<1>11. stop \in start .. BUFLEN /\ Stops(stop)
  <2> HIDE DEF Stops
  <2> QED
    BY <1>10
<1> HIDE DEF stop
<1>12. stop <= bufidx + 1
  <2>1. CASE bufidx + 1 < stop
    <3>1. bufidx + 1 \in start .. stop - 1
      BY <1>1, <1>11, <2>1
    <3> QED
      BY <1>1, <1>11, <3>1 DEF NUL
  <2> QED
    BY <1>1, <1>11, <2>1
<1>13. word \in Seq(Plain)
  <2>1. start \in Int /\ stop - 1 \in Int /\ \A i \in start .. stop - 1 : inputbuf[i] \in Plain
    BY <1>1, <1>11, <1>12
  <2> QED
    BY <2>1, SubSeqProperties
<1> HIDE DEF word
<1>14. CASE Len(word) < ARG0LEN
  BY <1>9, <1>13, <1>14
<1>15. CASE ~ (Len(word) < ARG0LEN)
  <2>1. Len(word) \in Nat
    BY <1>13, LenProperties, Zenon
  <2>2. 1 \in Int /\ ARG0LEN - 1 \in Int /\ \A i \in 1 .. ARG0LEN - 1 : i \in 1 .. Len(word)
    BY <1>1, <1>15, <2>1
  <2>3. \A i \in 1 .. ARG0LEN - 1 : word[i] \in Plain
    BY <1>13, <2>2, ElementOfSeq
  <2>4. SubSeq(word, 1, ARG0LEN - 1) \in Seq(Plain)
    BY <2>2, <2>3, SubSeqProperties
  <2> QED
    BY <1>9, <1>15, <2>4
<1> QED
  BY <1>14, <1>15
-----------------------------------------------------------------------------
(* The steps of the shell. *)

\* A step of the shell is one of the terminal, or the terminal rests.
LEMMA TerminalSteps == ShellTyped /\ [ConsoleNext]_shell_vars => [TerminalNext]_term_vars
<1> SUFFICES ASSUME ShellTyped, [ConsoleNext]_shell_vars PROVE [TerminalNext]_term_vars
  OBVIOUS
<1>1. CASE Start
  <2>1. "TEXT_80" \in Modes
    BY DEF Modes
  <2> QED
    BY <1>1, <2>1 DEF Start, TerminalNext
<1>2. CASE PrintChar
  <2>1. Head(out) \in Chars
    BY <1>2, HeadTailProperties DEF PrintChar, ShellTyped
  <2>2. bios_video_write(Head(out)) \/ UNCHANGED term_vars
    BY <1>2 DEF PrintChar, bios_stream_write
  <2> QED
    BY <2>1, <2>2 DEF TerminalNext
<1>3. CASE ProgramSets
  BY <1>3 DEF ProgramSets, TerminalNext
<1>4. CASE Restore
  <2>1. oldmode \in Modes
    BY DEF ShellTyped
  <2> QED
    BY <1>4, <2>1 DEF Restore, TerminalNext
<1>5. CASE ShowPrompt \/ Execute \/ ProgramRedirects \/ ProgramEnds \/ \E c \in Keys : Key(c)
  BY <1>5 DEF ShowPrompt, Execute, ProgramRedirects, ProgramEnds, Key
<1>6. CASE UNCHANGED shell_vars
  BY <1>6 DEF shell_vars
<1> QED
  BY <1>1, <1>2, <1>3, <1>4, <1>5, <1>6 DEF ConsoleNext

\* Nothing is printed where no character is left.
LEMMA NothingOpen == ShellTyped /\ EscapeInv /\ out = << >> => escape = FALSE
  BY IdleCompletes DEF EscapeInv

\* A mode set closes an escape sequence or leaves it closed.
LEMMA ModeSet ==
  ASSUME NEW m \in Modes, bios_video_set_mode(m), escape = FALSE
  PROVE  escape' = FALSE /\ videomode' = m
BY DEF bios_video_set_mode, softterm_init

\* What is put out when nothing is open keeps every sequence complete.
LEMMA OpensNothing ==
  ASSUME escape' = FALSE, Completes(out', FALSE)
  PROVE  EscapeInv'
<1>1. CASE Printing'
  <2>1. Completes(out', escape')
    BY Zenon
  <2> QED
    BY <1>1, <2>1 DEF EscapeInv
<1>2. CASE ~Printing'
  BY <1>2 DEF EscapeInv
<1> QED
  BY <1>1, <1>2

\* Short texts.
LEMMA TextComplete ==
  ASSUME ConsoleAssumption
  PROVE  /\ << >> \in Seq(Chars) /\ Completes(<< >>, FALSE)
         /\ Newline \in Seq(Chars) /\ Completes(Newline, FALSE)
         /\ <<8, 32, 8>> \in Seq(Chars) /\ Completes(<<8, 32, 8>>, FALSE)
         /\ <<10, 49, 10>> \in Seq(Chars) /\ Completes(<<10, 49, 10>>, FALSE)
         /\ \A c \in Plain : << c >> \in Seq(Chars) /\ Completes(<< c >>, FALSE)
         /\ \A s \in Seq(Plain) : s \in Seq(Chars) /\ Completes(s, FALSE)
                                  /\ s \o Newline \in Seq(Chars) /\ Completes(s \o Newline, FALSE)
<1>1. 8 \in Chars /\ 10 \in Chars /\ 13 \in Chars /\ 32 \in Chars /\ 49 \in Chars
  BY DEF ConsoleAssumption
<1>2. << >> \in Seq(Chars) /\ Completes(<< >>, FALSE)
  <2>1. << >> \in Seq(Chars) /\ \A i \in 1 .. Len(<< >>) : << >>[i] # 27
    BY EmptySeq
  <2> QED
    BY <2>1, PlainCompletes
<1>3. Newline \in Seq(Chars) /\ Len(Newline) = 2 /\ \A i \in 1 .. 2 : Newline[i] # 27
  BY <1>1 DEF Newline
<1>4. Completes(Newline, FALSE)
  BY <1>3, PlainCompletes
<1>5. <<8, 32, 8>> \in Seq(Chars) /\ \A i \in 1 .. Len(<<8, 32, 8>>) : <<8, 32, 8>>[i] # 27
  BY <1>1
<1>6. Completes(<<8, 32, 8>>, FALSE)
  BY <1>5, PlainCompletes
<1>7. <<10, 49, 10>> \in Seq(Chars) /\ \A i \in 1 .. Len(<<10, 49, 10>>) : <<10, 49, 10>>[i] # 27
  BY <1>1
<1>8. Completes(<<10, 49, 10>>, FALSE)
  BY <1>7, PlainCompletes
<1>9. ASSUME NEW s \in Seq(Plain)
      PROVE  s \in Seq(Chars) /\ Completes(s, FALSE)
             /\ s \o Newline \in Seq(Chars) /\ Completes(s \o Newline, FALSE)
  <2>1. s \in Seq(Chars) /\ Len(s) \in Nat
    <3>1. Plain \subseteq Chars
      BY DEF Plain
    <3>2. Len(s) \in Nat
      BY LenProperties, Zenon
    <3> QED
      BY <3>1, <3>2
  <2>2. \A i \in 1 .. Len(s) : s[i] # 27
    BY PlainSeen, ElementOfSeq
  <2>3. Completes(s, FALSE)
    BY <2>1, <2>2, PlainCompletes
  <2>4. s \o Newline \in Seq(Chars) /\ Len(s \o Newline) = Len(s) + 2
        /\ \A i \in 1 .. Len(s) + 2 : (s \o Newline)[i] = IF i <= Len(s) THEN s[i] ELSE Newline[i - Len(s)]
    <3>1. Newline \in Seq(Chars)
      BY <1>3
    <3>2. /\ s \o Newline \in Seq(Chars) /\ Len(s \o Newline) = Len(s) + Len(Newline)
          /\ \A i \in 1 .. Len(s) + Len(Newline) :
               (s \o Newline)[i] = IF i <= Len(s) THEN s[i] ELSE Newline[i - Len(s)]
      BY <2>1, <3>1, ConcatProperties, Zenon
    <3> HIDE DEF Newline
    <3> QED
      BY <1>3, <3>2, Zenon
  <2>5. ASSUME NEW i \in 1 .. Len(s \o Newline) PROVE (s \o Newline)[i] # 27
    <3>1. CASE i <= Len(s)
      BY <2>1, <2>2, <2>4, <3>1
    <3>2. CASE ~ (i <= Len(s))
      <4>1. i - Len(s) \in 1 .. 2
        BY <2>1, <2>4, <3>2
      <4> QED
        BY <1>3, <2>1, <2>4, <3>2, <4>1
    <3> QED
      BY <3>1, <3>2
  <2> QED
    BY <2>1, <2>3, <2>4, <2>5, PlainCompletes
<1>10. ASSUME NEW c \in Plain PROVE << c >> \in Seq(Plain)
  OBVIOUS
<1> QED
  BY <1>2, <1>3, <1>4, <1>5, <1>6, <1>7, <1>8, <1>9, <1>10

\* The shell comes up.
LEMMA StartKeeps ==
  ASSUME ConsoleAssumption, ConsoleInv, Start
  PROVE  (ShellTyped /\ BufInv /\ EscapeInv /\ ModeInv /\ LineInv)'
<1>1. out = << >> /\ lines = 0 /\ escape = FALSE
  BY NothingOpen DEF ConsoleInv, ModeInv, Start
<1>2. "TEXT_80" \in Modes
  BY DEF Modes
<1>3. escape' = FALSE /\ videomode' \in Modes
  <2>1. CASE bios_video_set_mode("TEXT_80")
    BY <1>1, <1>2, <2>1, ModeSet
  <2>2. CASE UNCHANGED <<term_vars, bios_stdout_device>>
    BY <1>1, <2>2 DEF term_vars, ConsoleInv, ShellTyped
  <2> QED
    BY <2>1, <2>2 DEF Start
<1>4. bios_stdout_device' \in {"UART", "VIDEO"}
  BY DEF Start, bios_set_stdout, ConsoleInv, ShellTyped
<1>5. out' = Newline /\ shell' = "prompt" /\ UNCHANGED <<inputbuf, bufidx, oldmode, lines>>
  BY DEF Start
<1>6. EscapeInv'
  BY <1>3, <1>5, TextComplete, OpensNothing
<1>7. ShellTyped'
  BY <1>3, <1>4, <1>5, TextComplete DEF ConsoleInv, ShellTyped
<1>8. BufInv'
  BY <1>5 DEF ConsoleInv, BufInv
<1>9. ModeInv' /\ LineInv'
  BY <1>1, <1>5 DEF ModeInv, ModeRestored, LineInv
<1> QED
  BY <1>6, <1>7, <1>8, <1>9

\* The prompt: the line is empty and nothing of it needs to be there yet.
LEMMA PromptKeeps ==
  ASSUME ConsoleAssumption, ConsoleInv, ShowPrompt
  PROVE  (ShellTyped /\ BufInv /\ EscapeInv /\ ModeInv /\ LineInv)'
<1>1. out = << >> /\ escape = FALSE
  BY NothingOpen DEF ConsoleInv, ShowPrompt, Idle
<1>2. UNCHANGED <<videomode, row, col, escape, term_cursor_save, screen, bios_stdout_device, oldmode, lines>>
      /\ out' = Prompt /\ shell' = "reading" /\ bufidx' = 0 /\ inputbuf' = [inputbuf EXCEPT ![1] = NUL]
      /\ shell = "prompt"
  BY DEF ShowPrompt, term_vars
<1>3. Prompt \in Seq(Plain) /\ Len(Prompt) \in Nat
  <2>1. Prompt \in Seq(Plain)
    BY DEF ConsoleAssumption
  <2> QED
    BY <2>1, LenProperties, Zenon
<1>4. EscapeInv'
  BY <1>1, <1>2, <1>3, TextComplete, OpensNothing
<1>5. ShellTyped'
  BY <1>2, <1>3, TextComplete DEF ConsoleInv, ShellTyped
<1>6. BufInv'
  BY <1>2 DEF ConsoleInv, BufInv, ConsoleAssumption
<1>7. ModeInv'
  BY <1>2 DEF ConsoleInv, ModeInv, ModeRestored
<1>8. LineInv'
  <2>1. ASSUME Printing' PROVE ToShow'
    <3>1. Length' = Len(Prompt) + 0 /\ Len(out') = Len(Prompt)
      BY <1>2 DEF Length
    <3>2. ASSUME NEW i \in 1 .. Len(Prompt) PROVE out'[i] = Line(Len(Prompt) + 0 - Len(Prompt) + i)'
      <4>1. Len(Prompt) + 0 - Len(Prompt) + i = i /\ i <= Len(Prompt)
        BY <1>3
      <4> QED
        BY <1>2, <4>1 DEF Line
    <3>3. Len(Prompt) + 0 - Len(Prompt) = 0
      BY <1>3
    <3>4. Here' \in Nat
      <4>1. Here \in 0 .. Size - 1 /\ Size \in Int
        <5>1. row \in 0 .. TERM_ROWS - 1 /\ col \in 0 .. TERM_COLS - 1
          BY DEF ConsoleInv, TermInv
        <5> QED
          BY <5>1, CellInArea, TerminalAssumption DEF Here, Size
      <4>2. Here' = Here
        BY <1>2 DEF Here
      <4> QED
        BY <4>1, <4>2
    <3>5. Shows(0, 0)'
      BY <3>4 DEF Shows
    <3> QED
      BY <1>3, <3>1, <3>2, <3>3, <3>5 DEF ToShow
  <2> QED
    BY <1>1, <1>2, <2>1 DEF LineInv
<1> QED
  BY <1>4, <1>5, <1>6, <1>7, <1>8

\* A character is printed: one more of the line is there, or the one rubbed out
\* is gone after a step back, a space and a step back.
LEMMA PrintKeeps ==
  ASSUME ConsoleAssumption, ConsoleInv, PrintChar
  PROVE  (ShellTyped /\ BufInv /\ EscapeInv /\ ModeInv /\ LineInv)'
<1>1. /\ out # << >> /\ out' = Tail(out) /\ bios_stream_write("STDOUT", Head(out))
      /\ UNCHANGED <<bios_stdout_device, inputbuf, bufidx, shell, oldmode, lines>>
  BY DEF PrintChar
<1>2. /\ out \in Seq(Chars) /\ Head(out) \in Chars /\ Tail(out) \in Seq(Chars)
      /\ Len(out) \in Nat /\ Len(Tail(out)) = Len(out) - 1 /\ Len(out) # 0
      /\ Head(out) = out[1] /\ \A i \in 1 .. Len(Tail(out)) : Tail(out)[i] = out[i + 1]
  <2>1. out \in Seq(Chars)
    BY DEF ConsoleInv, ShellTyped
  <2>2. Len(out) \in Nat
    BY <2>1, LenProperties, Zenon
  <2> QED
    BY <1>1, <2>1, <2>2, HeadTailProperties
<1>3. CASE ~Printing
  <2>1. UNCHANGED term_vars
    BY <1>1, <1>3 DEF bios_stream_write, bios_video_write, Device, Printing
  <2>2. ~Printing' /\ escape' = escape /\ videomode' = videomode
    BY <1>1, <1>3, <2>1 DEF Printing, term_vars
  <2>3. EscapeInv'
    BY <1>3, <2>2 DEF ConsoleInv, EscapeInv
  <2>4. ShellTyped'
    BY <1>1, <1>2, <2>2 DEF ConsoleInv, ShellTyped
  <2>5. BufInv'
    BY <1>1 DEF ConsoleInv, BufInv
  <2>6. ModeInv' /\ LineInv'
    BY <1>1, <2>2 DEF ConsoleInv, ModeInv, ModeRestored, LineInv
  <2> QED
    BY <2>3, <2>4, <2>5, <2>6
<1>4. CASE Printing
  <2>1. softterm_write_char(Head(out)) /\ videomode = "TEXT_80"
    BY <1>1, <1>4 DEF bios_stream_write, bios_video_write, Device, Printing
  <2>2. videomode' = videomode
    BY <2>1, Zenon DEF softterm_write_char
  <2>3. Printing'
    BY <1>1, <1>4, <2>2 DEF Printing
  <2>4. EscapeInv'
    <3>1. Completes(out, escape)
      BY <1>4 DEF ConsoleInv, EscapeInv
    <3>2. Completes(Tail(out), Follows(escape, Head(out)))
      BY <1>1, <1>2, <3>1, TailCompletes
    <3>3. escape' = IF escape THEN Head(out) \notin {109, 74, 72} ELSE Head(out) = 27
      BY <2>1, Zenon DEF softterm_write_char
    <3>4. escape' = Follows(escape, Head(out))
      BY <3>3, Zenon DEF Follows
    <3> QED
      BY <1>1, <2>3, <3>2, <3>4 DEF EscapeInv
  <2>5. ShellTyped'
    BY <1>1, <1>2, <2>2 DEF ConsoleInv, ShellTyped
  <2>6. BufInv'
    BY <1>1 DEF ConsoleInv, BufInv
  <2>7. ModeInv'
    BY <1>1, <2>2 DEF ConsoleInv, ModeInv, ModeRestored
  <2>8. ASSUME shell = "reading" PROVE ~escape' /\ (ToShow' \/ Rubbing')
    <3>1. ~escape /\ (ToShow \/ Rubbing)
      BY <1>4, <2>8 DEF ConsoleInv, LineInv
    <3>2. Length \in Nat /\ \A i \in 1 .. Length : Line(i) \in Plain
      BY <2>8, LinePlain DEF ConsoleInv
    <3>3. Length <= (TERM_ROWS - 1) * TERM_COLS /\ (TERM_ROWS - 1) * TERM_COLS \in Int
          /\ (bufidx < BUFLEN - 1 => Length + 1 <= (TERM_ROWS - 1) * TERM_COLS)
      BY LineFits DEF ConsoleInv
    <3>4. Length' = Length /\ \A i : Line(i)' = Line(i)
      BY <1>1 DEF Length, Line
    <3>5. TermInv
      BY DEF ConsoleInv
    <3>6. CASE ToShow
      <4>1. PICK n : n = Length - Len(out)
        OBVIOUS
      <4>2. n \in Nat /\ n + 1 <= Length /\ n + 1 \in 1 .. Length /\ n + 1 = Length - Len(out) + 1
            /\ Len(out') = Len(out) - 1 /\ Length - Len(out') = n + 1
        BY <1>1, <1>2, <3>2, <3>6, <4>1 DEF ToShow
      <4>3. Shows(n, 0) /\ out[1] = Line(n + 1)
        BY <1>2, <3>6, <4>1 DEF ToShow
      <4>4. Head(out) \in Plain
        BY <1>2, <3>2, <4>2, <4>3
      <4>5. n + 1 <= (TERM_ROWS - 1) * TERM_COLS
        <5> DEFINE z == (TERM_ROWS - 1) * TERM_COLS
        <5>1. z \in Int /\ Length <= z
          BY <3>3
        <5> HIDE DEF z
        <5>2. n + 1 <= z
          BY <3>2, <4>2, <5>1
        <5> QED
          BY <5>2 DEF z
      <4>6. ~escape' /\ Shows(n, 1)' /\ Text'[Here' - 1] = Head(out) /\ Here' \in Nat
        BY <1>1, <2>1, <3>1, <3>5, <4>2, <4>3, <4>4, <4>5, ShowsMore
      <4>7. Shows(n + 1, 0)'
        <5>1. PICK h : h = Here'
          OBVIOUS
        <5>2. h \in Nat /\ n + 1 <= h /\ \A i \in 1 .. n : Text'[h - 1 - n + i - 1] = Line(i)'
          BY <4>6, <5>1 DEF Shows
        <5>3. ASSUME NEW i \in 1 .. n + 1 PROVE Text'[h - 0 - (n + 1) + i - 1] = Line(i)'
          <6>1. CASE i = n + 1
            <7>1. h - 0 - (n + 1) + i - 1 = h - 1
              BY <4>2, <5>2, <6>1
            <7>2. Text'[h - 1] = Line(n + 1)'
              BY <1>2, <3>4, <4>3, <4>6, <5>1
            <7> QED
              BY <6>1, <7>1, <7>2
          <6>2. CASE i # n + 1
            <7>1. h - 0 - (n + 1) + i - 1 = h - 1 - n + i - 1 /\ i \in 1 .. n
              BY <4>2, <5>2, <5>3, <6>2
            <7> QED
              BY <5>2, <7>1
          <6> QED
            BY <6>1, <6>2
        <5>4. n + 1 + 0 <= h
          BY <4>2, <5>2
        <5> QED
          BY <5>1, <5>3, <5>4 DEF Shows
      <4>8. ASSUME NEW i \in 1 .. Len(out') PROVE (out[i] = Line(Length - Len(out) + i))'
        <5>1. i \in 1 .. Len(Tail(out)) /\ i + 1 \in 1 .. Len(out)
          BY <1>1, <1>2, <4>8
        <5>2. out'[i] = out[i + 1]
          BY <1>1, <1>2, <5>1
        <5>3. out[i + 1] = Line(Length - Len(out) + (i + 1))
          BY <3>6, <5>1 DEF ToShow
        <5>4. PICK k : k = n + 1 + i
          OBVIOUS
        <5>5. Length - Len(out) + (i + 1) = k /\ (Length - Len(out) + i)' = k
          BY <1>2, <3>2, <3>4, <4>1, <4>2, <5>1, <5>4
        <5>6. out'[i] = Line(k)'
          BY <3>4, <5>2, <5>3, <5>5
        <5> QED
          BY <5>5, <5>6 DEF Line
      <4>9. Len(out') <= Length /\ Len(out') \in Nat
        BY <1>2, <3>2, <4>2
      <4>10. Shows(Length - Len(out), 0)'
        <5>1. (Length - Len(out))' = n + 1
          BY <3>4, <4>2
        <5> QED
          BY <4>7, <5>1 DEF Shows
      <4> QED
        BY <3>4, <4>6, <4>8, <4>9, <4>10 DEF ToShow
    <3>7. CASE Rubbing
      <4>1. 8 \in Chars /\ 32 \in Plain
        BY DEF ConsoleAssumption, Plain
      <4>2. PICK n : n = Length
        OBVIOUS
      <4>3. n \in Nat /\ Length' = n /\ (Shows(n, 0)' => Shows(Length, 0)') /\ (Shows(n, 1)' => Shows(Length, 1)')
        BY <3>2, <3>4, <4>2 DEF Shows
      <4>4. CASE out = <<8, 32, 8>> /\ Shows(Length, 1)
        <5>1. Head(out) = 8 /\ out' = <<32, 8>> /\ Shows(n, 1)
          BY <1>1, <4>2, <4>4
        <5>2. ~escape' /\ Shows(n, 0)'
          BY <1>1, <2>1, <3>1, <3>5, <4>1, <4>3, <5>1, ShowsBack
        <5> QED
          BY <1>1, <3>7, <4>3, <5>1, <5>2 DEF Rubbing
      <4>5. CASE out = <<32, 8>> /\ Shows(Length, 0)
        <5>1. Head(out) = 32 /\ out' = << 8 >> /\ Shows(n, 0)
          BY <1>1, <4>2, <4>5
        <5>2. n + 1 <= (TERM_ROWS - 1) * TERM_COLS
          BY <3>3, <3>7, <4>2 DEF Rubbing
        <5>3. ~escape' /\ Shows(n, 1)'
          BY <1>1, <2>1, <3>1, <3>5, <4>1, <4>3, <5>1, <5>2, ShowsMore
        <5> QED
          BY <1>1, <3>7, <4>3, <5>1, <5>3 DEF Rubbing
      <4>6. CASE out = << 8 >> /\ Shows(Length, 1)
        <5>1. Head(out) = 8 /\ out' = << >> /\ Len(out') = 0 /\ Shows(n, 1)
          BY <1>1, <1>2, <4>2, <4>6
        <5>2. ~escape' /\ Shows(n, 0)'
          BY <1>1, <2>1, <3>1, <3>5, <4>1, <4>3, <5>1, ShowsBack
        <5>3. Length' - 0 = Length' /\ 0 <= Length'
          BY <4>3
        <5>4. Shows(Length - Len(out), 0)'
          <6>1. (Length - Len(out))' = n
            BY <4>3, <5>1
          <6> QED
            BY <5>2, <6>1 DEF Shows
        <5> QED
          BY <5>1, <5>2, <5>3, <5>4 DEF ToShow
      <4> QED
        BY <3>7, <4>4, <4>5, <4>6 DEF Rubbing
    <3> QED
      BY <3>1, <3>6, <3>7
  <2>9. LineInv'
    BY <1>1, <2>8 DEF LineInv
  <2> QED
    BY <2>4, <2>5, <2>6, <2>7, <2>9
<1> QED
  BY <1>3, <1>4

\* A key: it is put into the line and printed, or rubs out the last one.
LEMMA KeyKeeps ==
  ASSUME ConsoleAssumption, ConsoleInv, NEW c \in Keys, Key(c)
  PROVE  (ShellTyped /\ BufInv /\ EscapeInv /\ ModeInv /\ LineInv)'
<1>1. out = << >> /\ escape = FALSE /\ shell = "reading" /\ Len(out) = 0
  BY NothingOpen, EmptySeq DEF ConsoleInv, Key, Idle
<1>2. UNCHANGED <<videomode, row, col, escape, term_cursor_save, screen, bios_stdout_device, oldmode>>
  BY DEF Key, term_vars
<1>3. BUFLEN \in Nat \ {0} /\ bufidx \in 0 .. BUFLEN - 1 /\ inputbuf \in [1 .. BUFLEN -> Keys \cup {NUL}]
      /\ inputbuf[bufidx + 1] = NUL /\ \A i \in 1 .. bufidx : inputbuf[i] \in Plain
  BY <1>1 DEF ConsoleAssumption, ConsoleInv, BufInv
<1>4. Length \in Nat /\ Len(Prompt) \in Nat
  BY <1>1, LinePlain DEF ConsoleInv
<1>5. Printing' = Printing /\ Text' = Text /\ Here' = Here
  BY <1>2 DEF Printing, Text, Here
<1>6. Here \in Int
  <2>1. row \in 0 .. TERM_ROWS - 1 /\ col \in 0 .. TERM_COLS - 1
    BY DEF ConsoleInv, TermInv
  <2> QED
    BY <2>1, CellInArea, TerminalAssumption DEF Here, Size
<1>7. ASSUME Printing PROVE Shows(Length, 0)
  <2>1. ToShow \/ Rubbing
    BY <1>1, <1>7 DEF ConsoleInv, LineInv
  <2>2. ~Rubbing
    BY <1>1 DEF Rubbing
  <2>3. Length - 0 = Length
    BY <1>4
  <2> QED
    BY <1>1, <2>1, <2>2, <2>3 DEF ToShow
<1>8. CASE c \in {10, 13}
  <2>1. shell' = "execute" /\ out' = Newline /\ UNCHANGED <<inputbuf, bufidx>>
    BY <1>8 DEF Key
  <2>2. EscapeInv'
    BY <1>1, <1>2, <2>1, TextComplete, OpensNothing
  <2>3. ShellTyped'
    BY <1>2, <2>1, TextComplete DEF ConsoleInv, ShellTyped
  <2>4. BufInv'
    BY <1>1, <2>1 DEF ConsoleInv, BufInv
  <2>5. ModeInv' /\ LineInv'
    BY <2>1 DEF ModeInv, ModeRestored, LineInv
  <2> QED
    BY <2>2, <2>3, <2>4, <2>5
<1>9. CASE c = 127 /\ bufidx > 0
  <2>1. /\ shell' = shell /\ lines' = lines /\ out' = <<8, 32, 8>>
        /\ bufidx' = bufidx - 1 /\ inputbuf' = [inputbuf EXCEPT ![bufidx] = NUL]
    BY <1>9 DEF Key
  <2>2. EscapeInv'
    BY <1>1, <1>2, <2>1, TextComplete, OpensNothing
  <2>3. ShellTyped'
    BY <1>2, <2>1, TextComplete DEF ConsoleInv, ShellTyped
  <2>4. BufInv'
    <3>1. bufidx' \in 0 .. BUFLEN - 1 /\ bufidx' + 1 = bufidx /\ bufidx \in 1 .. BUFLEN
      BY <1>3, <1>9, <2>1
    <3>2. inputbuf' \in [1 .. BUFLEN -> Keys \cup {NUL}] /\ inputbuf'[bufidx' + 1] = NUL
      BY <1>3, <2>1, <3>1
    <3>3. ASSUME NEW i \in 1 .. bufidx' PROVE inputbuf'[i] \in Plain
      <4>1. i \in 1 .. bufidx /\ i # bufidx /\ i \in 1 .. BUFLEN
        BY <1>3, <1>9, <2>1, <3>3
      <4> QED
        BY <1>3, <2>1, <4>1
    <3> QED
      BY <3>1, <3>2, <3>3 DEF BufInv
  <2>5. ModeInv'
    BY <1>1, <1>2, <2>1 DEF ConsoleInv, ModeInv, ModeRestored
  <2>6. ASSUME Printing PROVE Rubbing'
    <3>1. bufidx' < BUFLEN - 1 /\ Length' = Length - 1 /\ Length' \in Nat
      BY <1>3, <1>4, <1>9, <2>1 DEF Length
    <3>2. Length + 0 <= Here /\ \A i \in 1 .. Length : Text[Here - 0 - Length + i - 1] = Line(i)
      BY <1>7, <2>6 DEF Shows
    <3>3. ASSUME NEW i \in 1 .. Length - 1 PROVE Text'[Here' - 1 - (Length - 1) + i - 1] = Line(i)'
      <4>1. Here - 1 - (Length - 1) + i - 1 = Here - 0 - Length + i - 1 /\ i \in 1 .. Length
        BY <1>4, <1>6, <3>3
      <4>2. Line(i)' = Line(i)
        <5>1. CASE i <= Len(Prompt)
          BY <5>1 DEF Line
        <5>2. CASE ~ (i <= Len(Prompt))
          <6>1. i - Len(Prompt) # bufidx /\ i - Len(Prompt) \in 1 .. BUFLEN
            BY <1>3, <1>4, <3>3, <5>2 DEF Length
          <6> QED
            BY <1>3, <2>1, <5>2, <6>1 DEF Line
        <5> QED
          BY <5>1, <5>2
      <4>3. Text[Here - 0 - Length + i - 1] = Line(i)
        BY <3>2, <4>1
      <4> QED
        BY <1>5, <4>1, <4>2, <4>3
    <3>4. Length - 1 + 1 <= Here'
      BY <1>4, <1>5, <1>6, <3>2
    <3>5. Shows(Length, 1)'
      <4>1. PICK n : n = Length - 1
        OBVIOUS
      <4>2. Length' = n /\ n + 1 <= Here' /\ \A i \in 1 .. n : Text'[Here' - 1 - n + i - 1] = Line(i)'
        BY <3>1, <3>3, <3>4, <4>1
      <4> QED
        BY <4>2 DEF Shows
    <3> QED
      BY <2>1, <3>1, <3>5 DEF Rubbing
  <2>7. LineInv'
    BY <1>1, <1>2, <1>5, <2>6 DEF LineInv
  <2> QED
    BY <2>2, <2>3, <2>4, <2>5, <2>7
<1>10. CASE c >= 32 /\ c # 127 /\ Room
  <2>1. /\ shell' = shell /\ lines' = lines /\ out' = << c >>
        /\ bufidx' = bufidx + 1 /\ inputbuf' = [inputbuf EXCEPT ![bufidx + 1] = c, ![bufidx + 2] = NUL]
    BY <1>10 DEF Key
  <2>2. c \in Plain /\ bufidx + 1 < BUFLEN
    <3>1. BUFLEN - 1 > bufidx
      BY <1>10 DEF Room
    <3> QED
      BY <1>3, <1>10, <3>1 DEF ConsoleAssumption, Plain
  <2>3. EscapeInv'
    BY <1>1, <1>2, <2>1, <2>2, TextComplete, OpensNothing
  <2>4. ShellTyped'
    BY <1>2, <2>1, <2>2, TextComplete DEF ConsoleInv, ShellTyped
  <2>5. /\ inputbuf' \in [1 .. BUFLEN -> Keys \cup {NUL}]
        /\ inputbuf'[bufidx + 1] = c /\ inputbuf'[bufidx + 2] = NUL
        /\ \A i \in 1 .. bufidx : inputbuf'[i] = inputbuf[i]
    BY <1>3, <2>1, <2>2
  <2>6. BufInv'
    <3>1. bufidx' \in 0 .. BUFLEN - 1 /\ bufidx' + 1 = bufidx + 2
      BY <1>3, <2>1, <2>2
    <3>2. \A i \in 1 .. bufidx' : inputbuf'[i] \in Plain
      BY <1>3, <2>1, <2>2, <2>5
    <3> QED
      BY <2>5, <3>1, <3>2 DEF BufInv
  <2>7. ModeInv'
    BY <1>1, <1>2, <2>1 DEF ConsoleInv, ModeInv, ModeRestored
  <2>8. ASSUME Printing PROVE ToShow'
    <3>1. PICK n : n = Length
      OBVIOUS
    <3>2. n \in Nat /\ Length' = n + 1 /\ Len(out') = 1 /\ out'[1] = c
      BY <1>3, <1>4, <2>1, <3>1 DEF Length
    <3>3. \A i \in 1 .. n : Line(i)' = Line(i)
      <4>1. ASSUME NEW i \in 1 .. n, ~ (i <= Len(Prompt)) PROVE i - Len(Prompt) \in 1 .. bufidx
        BY <1>3, <1>4, <3>1, <4>1 DEF Length
      <4>2. ASSUME NEW i \in 1 .. n, i <= Len(Prompt) PROVE Line(i)' = Line(i)
        BY <4>2 DEF Line
      <4>3. ASSUME NEW i \in 1 .. n, ~ (i <= Len(Prompt)) PROVE Line(i)' = Line(i)
        BY <2>5, <4>1, <4>3 DEF Line
      <4> QED
        BY <4>2, <4>3
    <3>4. Line(n + 1)' = c
      <4>1. PICK k : k = n + 1
        OBVIOUS
      <4>2. ~ (k <= Len(Prompt)) /\ k - Len(Prompt) = bufidx + 1
        BY <1>3, <1>4, <3>1, <4>1 DEF Length
      <4>3. Line(k)' = c
        BY <2>5, <4>2 DEF Line
      <4> QED
        BY <4>1, <4>3
    <3>5. n + 0 <= Here /\ \A i \in 1 .. n : Text[Here - 0 - n + i - 1] = Line(i)
      BY <1>7, <2>8, <3>1 DEF Shows
    <3>6. Shows(n, 0)'
      BY <1>5, <3>3, <3>5 DEF Shows
    <3>7. (Length - Len(out))' = n
      BY <3>2
    <3>8. Shows(Length - Len(out), 0)'
      BY <3>6, <3>7 DEF Shows
    <3>9. ASSUME NEW i \in 1 .. Len(out') PROVE (out[i] = Line(Length - Len(out) + i))'
      <4>1. i = 1 /\ (Length - Len(out) + i)' = n + 1
        BY <3>2, <3>9
      <4> QED
        BY <3>2, <3>4, <4>1 DEF Line
    <3>10. Len(out') <= Length'
      BY <3>2
    <3> QED
      BY <3>8, <3>9, <3>10 DEF ToShow
  <2>9. LineInv'
    BY <1>1, <1>2, <1>5, <2>8 DEF LineInv
  <2> QED
    BY <2>3, <2>4, <2>6, <2>7, <2>9
<1>11. CASE /\ c \notin {10, 13} /\ ~ (c = 127 /\ bufidx > 0) /\ ~ (c >= 32 /\ c # 127 /\ Room)
  <2>1. UNCHANGED <<inputbuf, bufidx, out, shell, lines>>
    BY <1>11 DEF Key
  <2>2. ShellTyped' /\ BufInv' /\ ModeInv'
    BY <1>2, <2>1 DEF ConsoleInv, ShellTyped, BufInv, ModeInv, ModeRestored
  <2>3. EscapeInv'
    BY <1>1, <1>2, <2>1, TextComplete, OpensNothing
  <2>4. ASSUME Printing PROVE ToShow'
    <3>1. PICK n : n = Length
      OBVIOUS
    <3>2. n \in Nat /\ Length' = n /\ Len(out') = 0 /\ (Length - Len(out))' = n
      BY <1>1, <1>4, <2>1, <3>1 DEF Length
    <3>3. Shows(n, 0)'
      <4>1. Shows(n, 0)
        BY <1>7, <2>4, <3>1
      <4> QED
        BY <1>5, <2>1, <4>1 DEF Shows, Line
    <3>4. Shows(Length - Len(out), 0)'
      BY <3>2, <3>3 DEF Shows
    <3> QED
      BY <3>2, <3>4 DEF ToShow
  <2>5. LineInv'
    BY <1>1, <1>2, <1>5, <2>4 DEF LineInv
  <2> QED
    BY <2>2, <2>3, <2>5
<1> QED
  BY <1>8, <1>9, <1>10, <1>11

\* A line entered: a program runs, or none is found and that is said.
LEMMA ExecuteKeeps ==
  ASSUME ConsoleAssumption, ConsoleInv, Execute
  PROVE  (ShellTyped /\ BufInv /\ EscapeInv /\ ModeInv /\ LineInv)'
<1>1. out = << >> /\ escape = FALSE /\ shell = "execute"
  BY NothingOpen DEF ConsoleInv, Execute, Idle
<1>2. UNCHANGED <<videomode, escape, bios_stdout_device, bufidx, lines>> /\ oldmode' = videomode
  BY DEF Execute, term_vars
<1>3. shell' \in {"program", "return"}
  BY DEF Execute, Runs, NotFound
<1>4. ModeInv' /\ LineInv'
  BY <1>3 DEF ModeInv, ModeRestored, LineInv
<1>5. CASE Runs
  <2>1. out' = out /\ inputbuf' = Ended
    BY <1>5 DEF Runs
  <2>2. Ended \in [1 .. BUFLEN -> Keys \cup {NUL}]
    BY DEF Ended, ConsoleInv, BufInv
  <2>3. BufInv'
    BY <1>2, <1>3, <2>1, <2>2 DEF ConsoleInv, BufInv
  <2>4. EscapeInv'
    BY <1>1, <1>2, <2>1, TextComplete, OpensNothing
  <2>5. ShellTyped'
    BY <1>2, <1>3, <2>1 DEF ConsoleInv, ShellTyped
  <2> QED
    BY <1>4, <2>3, <2>4, <2>5
<1>6. CASE NotFound
  <2>1. out' \in Seq(Chars) /\ Completes(out', FALSE)
    <3>1. CASE count_arguments > 0
      <4>1. get_argument(ARG0LEN, 0) \in Seq(Plain)
        BY <1>1, <3>1, ArgumentPlain DEF ConsoleInv
      <4>2. out' = get_argument(ARG0LEN, 0) \o Newline
        BY <1>6, <3>1 DEF NotFound
      <4> QED
        BY <4>1, <4>2, TextComplete
    <3>2. CASE ~ (count_arguments > 0)
      <4>1. out' = << >>
        BY <1>6, <3>2 DEF NotFound
      <4> QED
        BY <4>1, TextComplete
    <3> QED
      BY <3>1, <3>2
  <2>2. BufInv'
    BY <1>2, <1>3, <1>6 DEF ConsoleInv, BufInv, NotFound
  <2>3. EscapeInv'
    BY <1>1, <1>2, <2>1, OpensNothing
  <2>4. ShellTyped'
    BY <1>2, <1>3, <2>1 DEF ConsoleInv, ShellTyped
  <2> QED
    BY <1>4, <2>2, <2>3, <2>4
<1> QED
  BY <1>5, <1>6 DEF Execute

\* What a program does, and the shell behind it.
LEMMA ProgramKeeps ==
  ASSUME ConsoleAssumption, ConsoleInv, ProgramSets \/ ProgramRedirects \/ ProgramEnds
  PROVE  (ShellTyped /\ BufInv /\ EscapeInv /\ ModeInv /\ LineInv)'
<1>1. out = << >> /\ escape = FALSE /\ shell = "program"
  BY NothingOpen DEF ConsoleInv, ProgramSets, ProgramRedirects, ProgramEnds, Idle
<1>2. UNCHANGED <<inputbuf, bufidx, oldmode, lines>> /\ shell' \in {"program", "return"}
  BY <1>1 DEF ProgramSets, ProgramRedirects, ProgramEnds, console_vars
<1>3. ModeInv' /\ LineInv' /\ BufInv'
  BY <1>2 DEF ModeInv, ModeRestored, LineInv, BufInv, ConsoleInv
<1>4. escape' = FALSE /\ videomode' \in Modes /\ bios_stdout_device' \in {"UART", "VIDEO"}
  <2>1. CASE ProgramSets
    <3>1. PICK m \in Modes : bios_video_set_mode(m)
      BY <2>1 DEF ProgramSets
    <3>2. bios_stdout_device' = bios_stdout_device
      BY <2>1 DEF ProgramSets, console_vars
    <3> QED
      BY <1>1, <3>1, <3>2, ModeSet DEF ConsoleInv, ShellTyped
  <2>2. CASE ProgramRedirects
    BY <1>1, <2>2 DEF ProgramRedirects, bios_set_stdout, term_vars, ConsoleInv, ShellTyped
  <2>3. CASE ProgramEnds
    BY <1>1, <2>3 DEF ProgramEnds, term_vars, ConsoleInv, ShellTyped
  <2> QED
    BY <2>1, <2>2, <2>3
<1>5. out' \in Seq(Chars) /\ Completes(out', FALSE)
  <2>1. CASE ProgramEnds
    BY <2>1 DEF ProgramEnds, ConsoleAssumption
  <2>2. CASE ProgramSets \/ ProgramRedirects
    BY <1>1, <2>2, TextComplete DEF ProgramSets, ProgramRedirects, console_vars
  <2> QED
    BY <2>1, <2>2
<1>6. EscapeInv'
  BY <1>4, <1>5, OpensNothing
<1>7. ShellTyped'
  BY <1>2, <1>4, <1>5 DEF ConsoleInv, ShellTyped
<1> QED
  BY <1>3, <1>6, <1>7

LEMMA RestoreKeeps ==
  ASSUME ConsoleAssumption, ConsoleInv, Restore
  PROVE  (ShellTyped /\ BufInv /\ EscapeInv /\ ModeInv /\ LineInv)'
<1>1. out = << >> /\ escape = FALSE /\ oldmode \in Modes
  BY NothingOpen DEF ConsoleInv, Restore, Idle, ShellTyped
<1>2. UNCHANGED <<inputbuf, bufidx, oldmode, lines, bios_stdout_device>> /\ shell' = "prompt"
      /\ out' \in {<< >>, <<10, 49, 10>>}
  BY DEF Restore
<1>3. escape' = FALSE /\ videomode' = oldmode
  <2>1. CASE OtherMode
    BY <1>1, <2>1, ModeSet DEF Restore
  <2>2. CASE ~OtherMode
    BY <1>1, <2>2 DEF Restore, OtherMode, term_vars
  <2> QED
    BY <2>1, <2>2
<1>4. EscapeInv'
  BY <1>2, <1>3, TextComplete, OpensNothing
<1>5. ShellTyped'
  BY <1>1, <1>2, <1>3, TextComplete DEF ConsoleInv, ShellTyped
<1>6. BufInv' /\ ModeInv' /\ LineInv'
  BY <1>2, <1>3 DEF ConsoleInv, BufInv, ModeInv, ModeRestored, LineInv
<1> QED
  BY <1>4, <1>5, <1>6
-----------------------------------------------------------------------------
(* The shell as a whole. *)

LEMMA ConsoleStarts ==
  ASSUME ConsoleAssumption, ConsoleInit
  PROVE  ConsoleInv
<1>1. TermInv
  BY StartTyped DEF ConsoleInit
<1>2. escape = FALSE /\ videomode = "OFF"
  BY DEF ConsoleInit, TerminalInit
<1>3. ShellTyped
  BY <1>2, TextComplete DEF ConsoleInit, ShellTyped, Modes
<1>4. BufInv
  BY DEF ConsoleInit, BufInv, ConsoleAssumption
<1>5. EscapeInv /\ ModeInv /\ LineInv
  BY <1>2 DEF ConsoleInit, EscapeInv, Printing, ModeInv, ModeRestored, LineInv
<1> QED
  BY <1>1, <1>3, <1>4, <1>5 DEF ConsoleInv

LEMMA ConsoleRests ==
  ASSUME ConsoleInv, UNCHANGED shell_vars
  PROVE  (ShellTyped /\ BufInv /\ EscapeInv /\ ModeInv /\ LineInv)'
<1>1. /\ UNCHANGED <<videomode, row, col, escape, term_cursor_save, screen>>
      /\ UNCHANGED <<bios_stdout_device, inputbuf, bufidx, out, shell, oldmode, lines>>
  BY DEF shell_vars, term_vars, console_vars
<1>2. Text' = Text /\ Here' = Here /\ Printing' = Printing /\ Length' = Length /\ \A i : Line(i)' = Line(i)
  BY <1>1 DEF Text, Here, Printing, Length, Line
<1>3. ASSUME NEW n, NEW d PROVE Shows(n, d)' = Shows(n, d)
  BY <1>2 DEF Shows
<1>4. PICK n : n = Length
  OBVIOUS
<1>5. PICK m : m = Length - Len(out)
  OBVIOUS
<1>6. /\ Shows(Length, 0)' = Shows(n, 0)' /\ Shows(Length, 1)' = Shows(n, 1)'
      /\ Shows(Length - Len(out), 0)' = Shows(m, 0)'
  <2>1. Length' = n /\ (Length - Len(out))' = m
    BY <1>1, <1>2, <1>4, <1>5
  <2> QED
    BY <2>1 DEF Shows
<1>7. ToShow' = ToShow /\ Rubbing' = Rubbing
  BY <1>1, <1>2, <1>3, <1>4, <1>5, <1>6 DEF ToShow, Rubbing
<1>8. LineInv'
  BY <1>1, <1>2, <1>7 DEF ConsoleInv, LineInv
<1> QED
  BY <1>1, <1>2, <1>8 DEF ConsoleInv, ShellTyped, BufInv, EscapeInv, ModeInv, ModeRestored

LEMMA ConsoleSteps ==
  ASSUME ConsoleAssumption, ConsoleInv, [ConsoleNext]_shell_vars
  PROVE  ConsoleInv'
<1>1. TermInv'
  BY TerminalSteps, StepTyped DEF ConsoleInv
<1>2. (ShellTyped /\ BufInv /\ EscapeInv /\ ModeInv /\ LineInv)'
  BY StartKeeps, PrintKeeps, PromptKeeps, KeyKeeps, ExecuteKeeps, ProgramKeeps, RestoreKeeps,
     ConsoleRests, Zenon DEF ConsoleNext
<1> QED
  BY <1>1, <1>2 DEF ConsoleInv

\* Nothing left to print: the line is there.
LEMMA LineThere ==
  ASSUME ConsoleAssumption, ConsoleInv
  PROVE  ScreenShowsInput
<1>1. ConsoleTypeOK
  <2>1. CursorOnScreen
    BY DEF ConsoleInv, TermInv, CursorOnScreen, Area
  <2>2. Shown = Chars \cup {Cursor, 64}
    BY DEF Shown, Space, ConsoleAssumption
  <2>3. screen \in [0 .. Size - 1 -> [ch : Chars \cup {Cursor, 64}, colour : Colours]]
    BY <2>2 DEF ConsoleInv, TermInv, Area, Cell
  <2> QED
    BY <2>1, <2>3 DEF ConsoleInv, ShellTyped, BufInv, ConsoleTypeOK
<1>2. ModeRestored
  BY DEF ConsoleInv, ModeInv
<1>3. LineShown
  <2> SUFFICES ASSUME shell = "reading", Idle, Printing
               PROVE  LET shown == Prompt \o SubSeq(inputbuf, 1, bufidx)
                          here  == row * TERM_COLS + col
                      IN /\ Len(shown) <= here
                         /\ \A i \in 1 .. Len(shown) : Text[here - Len(shown) + i - 1] = shown[i]
    BY DEF LineShown, Printing
  <2>1. Len(out) = 0 /\ out = << >>
    BY EmptySeq DEF Idle
  <2>2. Length \in Nat /\ Len(Prompt) \in Nat
    BY LinePlain DEF ConsoleInv
  <2>3. Shows(Length, 0)
    <3>1. ToShow \/ Rubbing
      BY DEF ConsoleInv, LineInv
    <3>2. ~Rubbing
      BY <2>1 DEF Rubbing
    <3>3. Length - 0 = Length
      BY <2>2
    <3> QED
      BY <2>1, <3>1, <3>2, <3>3 DEF ToShow
  <2> DEFINE line == SubSeq(inputbuf, 1, bufidx)
             shown == Prompt \o line
  <2>4. bufidx \in Nat /\ \A i \in 1 .. bufidx : inputbuf[i] \in Plain
    BY DEF ConsoleInv, BufInv
  <2>5. line \in Seq(Plain) /\ Len(line) = bufidx /\ \A i \in 1 .. bufidx : line[i] = inputbuf[i]
    <3>1. 1 \in Int /\ bufidx \in Int
      BY <2>4
    <3>2. /\ SubSeq(inputbuf, 1, bufidx) \in Seq(Plain)
          /\ Len(SubSeq(inputbuf, 1, bufidx)) = IF 1 <= bufidx THEN bufidx - 1 + 1 ELSE 0
          /\ \A i \in 1 .. bufidx - 1 + 1 : SubSeq(inputbuf, 1, bufidx)[i] = inputbuf[1 + i - 1]
      BY <2>4, <3>1, SubSeqProperties
    <3>3. bufidx - 1 + 1 = bufidx /\ (~ (1 <= bufidx) => bufidx = 0) /\ \A i \in 1 .. bufidx : 1 + i - 1 = i
      BY <2>4
    <3> QED
      BY <3>2, <3>3
  <2>6. Prompt \in Seq(Plain)
    BY DEF ConsoleAssumption
  <2> HIDE DEF line
  <2>7. Len(shown) = Length
        /\ \A i \in 1 .. Length : shown[i] = IF i <= Len(Prompt) THEN Prompt[i] ELSE line[i - Len(Prompt)]
    BY <2>5, <2>6, ConcatProperties DEF Length
  <2> HIDE DEF shown
  <2>8. ASSUME NEW i \in 1 .. Length PROVE shown[i] = Line(i)
    <3>1. CASE i <= Len(Prompt)
      BY <2>7, <3>1 DEF Line
    <3>2. CASE ~ (i <= Len(Prompt))
      <4>1. i - Len(Prompt) \in 1 .. bufidx
        BY <2>2, <2>4, <3>2 DEF Length
      <4> QED
        BY <2>5, <2>7, <3>2, <4>1 DEF Line
    <3> QED
      BY <3>1, <3>2
  <2>9. Here \in Int
    <3>1. row \in 0 .. TERM_ROWS - 1 /\ col \in 0 .. TERM_COLS - 1
      BY DEF ConsoleInv, TermInv
    <3> QED
      BY <3>1, CellInArea, TerminalAssumption DEF Here, Size
  <2>10. Length + 0 <= Here /\ \A i \in 1 .. Length : Text[Here - 0 - Length + i - 1] = Line(i)
    BY <2>3 DEF Shows
  <2>11. Length <= Here /\ \A i \in 1 .. Length : Text[Here - Length + i - 1] = shown[i]
    <3>1. Length <= Here /\ Here - 0 = Here
      BY <2>2, <2>9, <2>10
    <3> QED
      BY <2>8, <2>10, <3>1
  <2> QED
    BY <2>7, <2>11 DEF Here, shown, line
<1> QED
  BY <1>1, <1>2, <1>3 DEF ScreenShowsInput

\* What has been typed and not rubbed out is on the screen behind the prompt
\* (shell.c:42-75, bios_video.c:90-149), wherever the line wraps and the screen
\* scrolls, whatever programs printed before, and the shell reads in the mode
\* it was in: for a screen of any size that holds the line and a row.
THEOREM LineIsShown ==
  ASSUME ConsoleAssumption
  PROVE  ConsoleSpec => []ScreenShowsInput
<1>1. ConsoleInit => ConsoleInv
  BY ConsoleStarts
<1>2. ConsoleInv /\ [ConsoleNext]_shell_vars => ConsoleInv'
  BY ConsoleSteps
<1>3. ConsoleInv => ScreenShowsInput
  BY LineThere
<1> QED
  BY <1>1, <1>2, <1>3, PTL DEF ConsoleSpec
=============================================================================
