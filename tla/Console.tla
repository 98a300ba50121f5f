------------------------------- MODULE Console -------------------------------
(***************************************************************************)
(* The shell at the text terminal: the line the user edits                  *)
(* (software/spu32-system/shell/shell.c), printed a character at a time by  *)
(* requests to the BIOS (libtinyc/libtinyc.c, bios_calls/bios_calls.c,      *)
(* bios/bios.c), and the programs it runs.  A program is external: it may   *)
(* set the video mode and the output device and print before it ends.       *)
(***************************************************************************)
EXTENDS Terminal, SequencesExt

CONSTANTS BUFLEN,        \* sizeof inputbuf, 128
          ARG0LEN,       \* sizeof arg0, 16
          Keys,          \* codes of the keys
          Prompt,        \* the working directory and " $ "
          Outputs,       \* what programs print
          MaxKeys,       \* keys typed before a line is entered
          MaxLines       \* lines entered

VARIABLES bios_stdout_device,
          inputbuf, bufidx,
          out,           \* characters still to be printed
          shell,         \* where the shell is
          oldmode,       \* video mode before the program
          argv,          \* what the program run was given, name first
          typed,         \* the keys of the line
          lines

console_vars == <<bios_stdout_device, inputbuf, bufidx, out, shell, oldmode,
                  argv, typed, lines>>
shell_vars == <<term_vars, console_vars>>

NUL == 0
Newline == <<10, 13>>
-----------------------------------------------------------------------------
(* Requests to the BIOS. *)

\* Anything else is refused.
Device(d) == IF d = "STDOUT" THEN bios_stdout_device ELSE d
bios_stream_write(device, c) ==
  IF Device(device) = "VIDEO" THEN bios_video_write(c) ELSE UNCHANGED term_vars

bios_set_stdout(device) == bios_stdout_device' = device
-----------------------------------------------------------------------------
(* The line. *)

\* find_argument: where the word number n begins, or 0; words are counted from 0.
Begins(i) == inputbuf[i] # 32 /\ (i = 1 \/ inputbuf[i - 1] = 32)
\* a line ends with its first zero
End == CHOOSE i \in 1 .. BUFLEN : inputbuf[i] = NUL /\ \A j \in 1 .. i - 1 : inputbuf[j] # NUL
find_argument(n) ==
  LET starts == {i \in 1 .. End - 1 : Begins(i)}
      Nth(i) == Cardinality({j \in starts : j < i}) = n
  IN IF \E i \in starts : Nth(i) THEN CHOOSE i \in starts : Nth(i) ELSE 0
count_arguments == Cardinality({i \in 1 .. End - 1 : Begins(i)})

\* The string at a place of a buffer.
StringAt(buf, i) ==
  LET end == CHOOSE j \in i .. BUFLEN : buf[j] = NUL /\ \A k \in i .. j - 1 : buf[k] # NUL
  IN SubSeq(buf, i, end - 1)

\* get_argument: the word, cut to the buffer.
get_argument(len, n) ==
  LET start == find_argument(n)
      stop  == CHOOSE j \in start .. BUFLEN :
                 /\ inputbuf[j] \in {NUL, 32}
                 /\ \A k \in start .. j - 1 : inputbuf[k] \notin {NUL, 32}
      word  == SubSeq(inputbuf, start, stop - 1)
  IN IF Len(word) < len THEN word ELSE SubSeq(word, 1, len - 1)

\* The spaces of the line become the ends of the words argv points to.
Ended_Forgotten == inputbuf
Ended == [i \in 1 .. BUFLEN |-> IF inputbuf[i] = 32 THEN NUL ELSE inputbuf[i]]
-----------------------------------------------------------------------------
ConsoleInit ==
  /\ TerminalInit
  /\ bios_stdout_device = "UART" /\ inputbuf = [i \in 1 .. BUFLEN |-> NUL] /\ bufidx = 0
  /\ out = <<>> /\ shell = "start" /\ oldmode = "OFF"
  /\ argv = <<>> /\ typed = <<>> /\ lines = 0

\* main: text mode and the screen, if the font could be read.
Start ==
  /\ shell = "start"
  /\ \/ bios_video_set_mode("TEXT_80") /\ bios_set_stdout("VIDEO")
     \/ UNCHANGED <<term_vars, bios_stdout_device>>
  /\ shell' = "prompt" /\ out' = Newline
  /\ UNCHANGED <<inputbuf, bufidx, oldmode, argv, typed, lines>>

PrintChar ==
  /\ out # <<>> /\ bios_stream_write("STDOUT", Head(out)) /\ out' = Tail(out)
  /\ UNCHANGED <<bios_stdout_device, inputbuf, bufidx, shell, oldmode, argv,
                 typed, lines>>

Idle == out = <<>>

\* read_input.
ShowPrompt ==
  /\ shell = "prompt" /\ Idle
  /\ shell' = "reading" /\ out' = Prompt
  /\ inputbuf' = [inputbuf EXCEPT ![1] = NUL] /\ bufidx' = 0 /\ typed' = <<>>
  /\ argv' = <<>>
  /\ UNCHANGED <<term_vars, bios_stdout_device, oldmode, lines>>

Room == bufidx < BUFLEN - 1

Key(c) ==
  /\ shell = "reading" /\ Idle /\ typed' = Append(typed, c)
  /\ IF c \in {10, 13} THEN lines < MaxLines ELSE Len(typed) < MaxKeys
  /\ CASE c \in {10, 13} ->
            /\ shell' = "execute" /\ out' = Newline /\ lines' = lines + 1
            /\ UNCHANGED <<inputbuf, bufidx>>
       [] c = 127 /\ bufidx > 0 ->
            /\ bufidx' = bufidx - 1 /\ inputbuf' = [inputbuf EXCEPT ![bufidx] = NUL]
            /\ out' = <<8, 32, 8>> /\ UNCHANGED <<shell, lines>>
       [] c >= 32 /\ c # 127 /\ Room ->
            /\ inputbuf' = [inputbuf EXCEPT ![bufidx + 1] = c, ![bufidx + 2] = NUL]
            /\ bufidx' = bufidx + 1 /\ out' = <<c>> /\ UNCHANGED <<shell, lines>>
       [] OTHER -> UNCHANGED <<inputbuf, bufidx, out, shell, lines>>
  /\ UNCHANGED <<term_vars, bios_stdout_device, oldmode, argv>>

\* execute_input: the program is looked for here and then in /bin, and may be
\* in neither; a line without a word runs nothing.
Runs ==
  /\ argv' = <<get_argument(ARG0LEN, 0)>>
             \o [n \in 1 .. count_arguments |-> StringAt(Ended, find_argument(n - 1))]
  /\ inputbuf' = Ended /\ shell' = "program" /\ UNCHANGED out
NotFound ==
  /\ out' = IF count_arguments > 0 THEN get_argument(ARG0LEN, 0) \o Newline ELSE <<>>
  /\ shell' = "return" /\ UNCHANGED <<inputbuf, argv>>
Execute ==
  /\ shell = "execute" /\ Idle /\ oldmode' = videomode
  /\ (count_arguments > 0 /\ Runs) \/ NotFound
  /\ UNCHANGED <<term_vars, bios_stdout_device, bufidx, typed, lines>>

\* The program, external.
ProgramSets ==
  /\ shell = "program" /\ Idle
  /\ \E m \in Modes : bios_video_set_mode(m)
  /\ UNCHANGED console_vars
ProgramRedirects ==
  /\ shell = "program" /\ Idle
  /\ \E d \in {"UART", "VIDEO"} : bios_set_stdout(d)
  /\ UNCHANGED <<term_vars, inputbuf, bufidx, out, shell, oldmode, argv, typed, lines>>
ProgramEnds ==
  /\ shell = "program" /\ Idle
  /\ out' \in Outputs /\ shell' = "return"
  /\ UNCHANGED <<term_vars, bios_stdout_device, inputbuf, bufidx, oldmode, argv, typed, lines>>

\* main, after execute_input.
OtherMode == videomode # oldmode
Restore ==
  /\ shell = "return" /\ Idle
  /\ IF OtherMode THEN bios_video_set_mode(oldmode) ELSE UNCHANGED term_vars
  /\ shell' = "prompt" /\ out' \in {<<>>, <<10, 49, 10>>}      \* an exit code
  /\ UNCHANGED <<bios_stdout_device, inputbuf, bufidx, oldmode, argv, typed, lines>>

ConsoleNext ==
  \/ Start \/ PrintChar \/ ShowPrompt \/ Execute \/ Restore
  \/ ProgramSets \/ ProgramRedirects \/ ProgramEnds
  \/ \E c \in Keys : Key(c)
ConsoleSpec == ConsoleInit /\ [][ConsoleNext]_shell_vars
-----------------------------------------------------------------------------
\* What the constants are: characters that can be seen can be typed, printed
\* and named; what a program prints leaves no escape sequence open; the prompt
\* and a full line (66 and 127 characters) leave a row of the screen (of 80 by
\* 30) free.
Plain == {c \in Chars : c >= 32}
Follows(inside, c) == IF inside THEN c \notin {109, 74, 72} ELSE c = 27
Completes(s, inside) ==
  \E e \in [1 .. Len(s) + 1 -> BOOLEAN] :
    /\ e[1] = inside /\ e[Len(s) + 1] = FALSE
    /\ \A i \in 1 .. Len(s) : e[i + 1] = Follows(e[i], s[i])
ConsoleAssumption ==
  /\ BUFLEN \in Nat \ {0} /\ ARG0LEN \in Nat \ {0}
  /\ Keys \subseteq 0 .. 255 /\ {c \in Keys : c >= 32 /\ c # 127} \subseteq Chars
  /\ {8, 10, 13, 32, 49} \subseteq Chars
  /\ Prompt \in Seq(Plain) /\ Len(Prompt) + BUFLEN <= (TERM_ROWS - 1) * TERM_COLS + 1
  /\ Outputs \subseteq Seq(Chars) /\ \A o \in Outputs : Completes(o, FALSE)
-----------------------------------------------------------------------------
ConsoleTypeOK ==
  /\ CursorOnScreen
  /\ screen \in [0 .. Size - 1 -> [ch : Chars \cup {Cursor, 64}, colour : Colours]]
  /\ bios_stdout_device \in {"UART", "VIDEO"} /\ bufidx \in 0 .. BUFLEN - 1
  /\ inputbuf \in [1 .. BUFLEN -> Keys \cup {NUL}]
  /\ shell \in {"start", "prompt", "reading", "execute", "program", "return"}

\* Whatever mode a program leaves the video in, the shell's next prompt
\* appears in the mode the program was started in.
ModeRestored == shell \in {"prompt", "reading"} => videomode = oldmode \/ lines = 0

\* What the user has typed and not rubbed out is on the screen behind the
\* prompt, before the cursor, also where the line wraps and the screen scrolls.
LineShown ==
  shell = "reading" /\ Idle /\ videomode = "TEXT_80" /\ bios_stdout_device = "VIDEO" =>
    LET shown == Prompt \o SubSeq(inputbuf, 1, bufidx)
        here  == row * TERM_COLS + col
    IN /\ Len(shown) <= here
       /\ \A i \in 1 .. Len(shown) : Text[here - Len(shown) + i - 1] = shown[i]

\* The shell's line, in the mode it is read in.
ScreenShowsInput == ConsoleTypeOK /\ ModeRestored /\ LineShown

\* A program gets the words of the line as it was typed and edited, and the
\* one run is the one named first, cut to the length a name may have.
Edit(line, c) == CASE c = 127 -> IF line = <<>> THEN line ELSE Front(line)
                   [] c >= 32 /\ Len(line) < BUFLEN - 1 -> Append(line, c)
                   [] OTHER -> line
Words(line) ==
  LET Split(w, c) == IF c = 32 THEN Append(w, <<>>)
                     ELSE [w EXCEPT ![Len(w)] = Append(@, c)]
  IN SelectSeq(FoldLeft(Split, <<<<>>>>, line), LAMBDA w : w # <<>>)
RunsWhatWasTyped ==
  argv # <<>> =>
    LET words == Words(FoldLeft(Edit, <<>>, typed))
    IN /\ Tail(argv) = words
       /\ argv[1] = SubSeq(words[1], 1, IF Len(words[1]) < ARG0LEN
                                        THEN Len(words[1]) ELSE ARG0LEN - 1)
=============================================================================
