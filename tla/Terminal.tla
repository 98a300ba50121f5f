------------------------------- MODULE Terminal ------------------------------
(***************************************************************************)
(* The text terminal of the BIOS (software/spu32-system/bios/bios_video.c): *)
(* a screen of characters and colours in video memory, with the cursor      *)
(* drawn over one of them and the character beneath it kept aside.          *)
(* Characters are their codes.                                              *)
(***************************************************************************)
EXTENDS Integers, Sequences

CONSTANTS TERM_COLS, TERM_ROWS,    \* 80 and 30
          Chars                    \* codes that are written

ASSUME TerminalAssumption ==
  /\ TERM_COLS \in Nat \ {0} /\ TERM_ROWS \in Nat \ {0} /\ Chars \subseteq 0 .. 255

VARIABLES videomode,               \* mode of the video controller
          row, col,                \* the cursor
          escape, escape_buf,      \* inside an escape sequence, its last bytes
          term_colour,             \* colours of what is written next
          term_cursor_save,        \* the character the cursor overwrites
          screen                   \* video memory

term_vars == <<videomode, row, col, escape, escape_buf, term_colour,
               term_cursor_save, screen>>

Modes   == {"OFF", "TEXT_40", "GRAPHICS_640", "GRAPHICS_320", "TEXT_80"}
Size    == TERM_COLS * TERM_ROWS
Colours == [fg : 0 .. 7, bg : 0 .. 7]
TERM_DEFAULT_COLOUR == [fg |-> 7, bg |-> 0]
Space  == 32
Cursor == 219

Blank(colour) == [ch |-> Space, colour |-> colour]

\* A place is a cursor and a screen; the colour is that of a cleared cell.
At(p) == p.row * TERM_COLS + p.col
softterm_clear(colour) ==
  [row |-> 0, col |-> 0, screen |-> [i \in 0 .. Size - 1 |-> Blank(colour)]]

\* The rows move up n times, as often as the cursor is below the last one.
softterm_scroll(p, n, colour) ==
  [p EXCEPT !.row = @ - n,
            !.screen = [i \in 0 .. Size - 1 |->
                          IF i + n * TERM_COLS < Size
                          THEN p.screen[i + n * TERM_COLS] ELSE Blank(colour)]]

softterm_check_cursor_NoWrap(p, colour) ==
  IF p.row >= TERM_ROWS THEN softterm_scroll(p, p.row - TERM_ROWS + 1, colour) ELSE p
softterm_check_cursor(p, colour) ==
  LET q == IF p.col >= TERM_COLS THEN [p EXCEPT !.row = @ + 1, !.col = 0] ELSE p
  IN IF q.row >= TERM_ROWS THEN softterm_scroll(q, q.row - TERM_ROWS + 1, colour) ELSE q

\* What an escape sequence that ends in m does, from its last bytes.
softterm_change_colours(buf) ==
  LET colour == (buf[3] - 48) % 8
  IN CASE buf[2] = 51 -> [term_colour EXCEPT !.fg = colour]
       [] buf[2] = 52 -> [term_colour EXCEPT !.bg = colour]
       [] OTHER       -> TERM_DEFAULT_COLOUR

\* A backspace steps to the row above, up to the first cell of the screen.
Back_InRowOnly(p) == IF p.col > 0 THEN [p EXCEPT !.col = @ - 1] ELSE p
Back(p) == CASE p.col > 0              -> [p EXCEPT !.col = @ - 1]
             [] p.col = 0 /\ p.row > 0 -> [p EXCEPT !.row = @ - 1, !.col = TERM_COLS - 1]
             [] OTHER                  -> p

\* Where a character outside an escape sequence leaves cursor and screen.
Written(p, c) ==
  CASE c = 27 -> p
    [] c = 10 -> [p EXCEPT !.row = @ + 1, !.col = 0]
    [] c = 13 -> [p EXCEPT !.col = 0]
    [] c = 8  -> Back(p)
    [] OTHER  -> [p EXCEPT !.screen[At(p)] = [ch |-> c, colour |-> term_colour],
                           !.col = @ + 1]

\* The cursor is taken off the screen, the character written, the cursor drawn.
softterm_write_char(c) ==
  LET here == [row |-> row, col |-> col,
               screen |-> [screen EXCEPT ![row * TERM_COLS + col].ch = term_cursor_save]]
      p    == CASE ~escape         -> Written(here, c)
                [] escape /\ c = 74 -> softterm_clear(term_colour)
                [] escape /\ c = 72 -> [here EXCEPT !.row = 0, !.col = 0]
                [] OTHER            -> here
  IN /\ escape' = IF escape THEN c \notin {109, 74, 72} ELSE c = 27
     /\ escape_buf' = IF escape THEN Append(Tail(escape_buf), c) ELSE escape_buf
     /\ term_colour' = IF escape /\ c = 109 THEN softterm_change_colours(escape_buf')
                       ELSE term_colour
     /\ \E q \in {softterm_check_cursor(p, term_colour')} :
          /\ row' = q.row /\ col' = q.col
          /\ term_cursor_save' = q.screen[At(q)].ch
          /\ screen' = [q.screen EXCEPT ![At(q)].ch = Cursor]
     /\ UNCHANGED videomode

softterm_init ==
  /\ escape' = FALSE /\ term_colour' = TERM_DEFAULT_COLOUR
  /\ term_cursor_save' = Space
  /\ row' = 0 /\ col' = 0 /\ screen' = softterm_clear(TERM_DEFAULT_COLOUR).screen
  /\ UNCHANGED escape_buf

bios_video_set_mode(mode) ==
  /\ videomode' = mode
  /\ IF mode = "TEXT_80" THEN softterm_init
     ELSE UNCHANGED <<row, col, escape, escape_buf, term_colour,
                      term_cursor_save, screen>>

bios_video_write(c) ==
  IF videomode = "TEXT_80" THEN softterm_write_char(c) ELSE UNCHANGED term_vars

\* Before the first mode is set the terminal's variables are zero.
TerminalInit ==
  /\ videomode = "OFF" /\ row = 0 /\ col = 0 /\ escape = FALSE
  /\ escape_buf = <<0, 0, 0, 0>> /\ term_colour = [fg |-> 0, bg |-> 0]
  /\ term_cursor_save = 0
  /\ screen = [i \in 0 .. Size - 1 |-> [ch |-> 64, colour |-> TERM_DEFAULT_COLOUR]]

TerminalNext == \/ \E m \in Modes : bios_video_set_mode(m)
                \/ \E c \in Chars : bios_video_write(c)
TerminalSpec == TerminalInit /\ [][TerminalNext]_term_vars
-----------------------------------------------------------------------------
\* The cursor never leaves the screen, so every character goes to the video
\* memory and none beside it: not at the end of a line, not when the screen
\* scrolls, not when the cursor steps back over the start of a line.
CursorOnScreen ==
  /\ row \in 0 .. TERM_ROWS - 1 /\ col \in 0 .. TERM_COLS - 1
  /\ DOMAIN screen = 0 .. Size - 1

\* What is on the screen, the cursor taken off it.
Text == [i \in 0 .. Size - 1 |->
           IF i = row * TERM_COLS + col THEN term_cursor_save ELSE screen[i].ch]
=============================================================================
