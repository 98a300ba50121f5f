------------------------------- MODULE BootRom -------------------------------
(***************************************************************************)
(* The monitor in the boot ROM (software/asm/bootrom.s) and the host program *)
(* that talks to it (software/serial-uploader/uploader.c): a file is sent   *)
(* into RAM and called, or written to the flash by way of the monitor's     *)
(* byte exchange.  A command byte, a number of 32 bits, an address of 24    *)
(* bits and a data byte are one item each of the serial line, which loses   *)
(* nothing (module Uart).  When no item comes for two seconds the monitor   *)
(* loads the first page of the image in the flash and starts it.  The flash *)
(* is external; it may fail to take a byte, and the host may be unable to    *)
(* read its file to the end or to tell its size.                             *)
(***************************************************************************)
EXTENDS Integers, Sequences

CONSTANTS Files,        \* files the host is given; it may fail to read the end of one
          Tasks,        \* what it does with them: "upload", "program"
          FlashBase,    \* where the image begins in the flash, 0x300000
          FlashSize,    \* bytes of the flash
          BLOCK,        \* bytes erased at a time, 64 KB
          UPLOADSIZE,   \* bytes of an upload command at most, 256
          CHUNKSIZE,    \* bytes written to the flash at a time, 64
          LOADSIZE,     \* bytes loaded from the flash, 4096
          BusyPolls,    \* how long the flash is busy
          Pauses        \* where the host may be slow for two seconds:
                        \* "between" commands to the monitor, or "anywhere"

VARIABLES rom,          \* the monitor: its place, s0 to s2, what it started
          ram,
          flash,
          up, down,     \* the serial line to and from the board
          host          \* the uploader: its place, the part of its file that can be
                        \* read, the size of the whole, how much it has done

vars == <<rom, ram, flash, up, down, host>>

U == 85   C == 67   S == 83                                 \* commands to the monitor
READ_STATUS  == 5     FASTREAD    == 11    WRITE_ENABLE == 6   \* to the flash
PAGE_PROGRAM == 2     BLOCK_ERASE == 216
Erased == 255
Addresses == 0 .. FlashSize - 1
-----------------------------------------------------------------------------
(* The flash. *)

Select(f) == [f EXCEPT !.sel = TRUE]

\* One item exchanged: f.out comes back.  While it is busy it answers only a
\* question for its status.
Exchange(f, b) ==
  LET cmd  == IF f.got = <<>> THEN b ELSE f.got[1]
      n    == Len(f.got)
      from == f.got[2] + n - 3
      deaf == n = 0 /\ f.busy > 0 /\ b # READ_STATUS
  IN IF ~f.sel THEN [f EXCEPT !.out = 255]
     ELSE [f EXCEPT
             !.got  = Append(@, IF deaf THEN 0 ELSE b),
             !.busy = IF cmd = READ_STATUS /\ n > 0 /\ @ > 0 THEN @ - 1 ELSE @,
             !.out  = CASE cmd = READ_STATUS /\ n > 0 -> IF f.busy > 0 THEN 1 ELSE 0
                        [] cmd = FASTREAD /\ n > 2 /\ from \in Addresses -> f.mem[from]
                        [] OTHER -> 255]

\* A command takes effect when the flash is deselected.
Programmed(f, good) ==
  [a \in Addresses |->
     LET i == a - f.got[2] + 3
     IN IF i \in 3 .. Len(f.got) /\ f.mem[a] # f.got[i]
        THEN IF f.mem[a] = Erased /\ good THEN f.got[i] ELSE 0 ELSE f.mem[a]]
Deselect(f) ==
  LET done == [f EXCEPT !.sel = FALSE, !.got = <<>>]
      Changed(mem) == [done EXCEPT !.mem = mem, !.wel = FALSE, !.busy = BusyPolls]
  IN CASE f.got = <<WRITE_ENABLE>> -> {[done EXCEPT !.wel = TRUE]}
       [] Len(f.got) = 2 /\ f.got[1] = BLOCK_ERASE /\ f.wel ->
            {Changed([a \in Addresses |->
                        IF a \div BLOCK = f.got[2] \div BLOCK THEN Erased ELSE f.mem[a]])}
       [] Len(f.got) > 2 /\ f.got[1] = PAGE_PROGRAM /\ f.wel ->
            {Changed(Programmed(f, good)) : good \in BOOLEAN}
       [] OTHER -> {done}
-----------------------------------------------------------------------------
(* The monitor. *)

Start == [at |-> "main", s0 |-> 0, s1 |-> 0, s2 |-> 0, by |-> "none"]

Begins(a) == CASE a = U -> "uaddr" [] a = C -> "caddr" [] a = S -> "slen" [] OTHER -> "main"

Command ==
  /\ rom.at = "main" /\ up # <<>>
  /\ rom' = [rom EXCEPT !.at = Begins(Head(up))] /\ up' = Tail(up)
  /\ flash' = IF Head(up) = S THEN Select(flash) ELSE flash
  /\ UNCHANGED <<ram, down, host>>

\* load_from_uart.
LoadFromUart ==
  /\ rom.at \in {"uaddr", "ulen", "ubytes"} /\ up # <<>> /\ up' = Tail(up)
  /\ LET a == Head(up)
         next == CASE rom.at = "uaddr"  -> [rom EXCEPT !.at = "ulen", !.s0 = a]
                   [] rom.at = "ulen"   -> [rom EXCEPT !.s1 = a, !.s2 = 0]
                   [] rom.at = "ubytes" -> [rom EXCEPT !.s2 = @ + 1]
     IN /\ rom' = IF rom.at = "uaddr" THEN next
                  ELSE [next EXCEPT !.at = IF next.s2 >= next.s1 THEN "main" ELSE "ubytes"]
        /\ ram' = IF rom.at = "ubytes" THEN [ram EXCEPT ![rom.s0 + rom.s2] = a] ELSE ram
  /\ UNCHANGED <<flash, down, host>>

\* call: what is called may come back.
Call ==
  /\ rom.at = "caddr" /\ up # <<>>
  /\ rom' = [rom EXCEPT !.at = "run", !.by = "call"] /\ up' = Tail(up)
  /\ UNCHANGED <<ram, flash, down, host>>
Return ==
  /\ rom.at = "run" /\ rom.by = "call" /\ rom' = [rom EXCEPT !.at = "main"]
  /\ UNCHANGED <<ram, flash, up, down, host>>

\* uart_to_spi.
UartToSpi ==
  /\ rom.at \in {"slen", "sbytes"} /\ up # <<>> /\ up' = Tail(up)
  /\ LET a    == Head(up)
         f    == Exchange(flash, a)
         next == IF rom.at = "slen" THEN [rom EXCEPT !.at = "sbytes", !.s0 = a, !.s1 = 0]
                 ELSE [rom EXCEPT !.s1 = @ + 1]
         last == next.s1 >= next.s0
     IN /\ rom' = IF last THEN [next EXCEPT !.at = "main"] ELSE next
        /\ down' = IF rom.at = "sbytes" THEN Append(down, f.out) ELSE down
        /\ LET g == IF rom.at = "sbytes" THEN f ELSE flash
           IN flash' \in IF last THEN Deselect(g) ELSE {g}
  /\ UNCHANGED <<ram, host>>

\* load_from_spi, when the monitor has waited two seconds; the flash has long
\* done what it was busy with.
LoadFromSpi ==
  /\ rom.at # "run" /\ up = <<>>
  /\ Pauses = "between" => rom.at = "main"
  /\ LET ready == Select([flash EXCEPT !.busy = 0])
         asked == Exchange(Exchange(Exchange(ready, FASTREAD), FlashBase), 0)
         copied[i \in 0 .. LOADSIZE] ==
           IF i = 0 THEN [f |-> asked, ram |-> ram]
           ELSE LET g == Exchange(copied[i - 1].f, 0)
                IN [f |-> g, ram |-> [copied[i - 1].ram EXCEPT ![i - 1] = g.out]]
     IN ram' = copied[LOADSIZE].ram /\ flash' \in Deselect(copied[LOADSIZE].f)
  /\ rom' = [rom EXCEPT !.at = "run", !.by = "flash"]
  /\ UNCHANGED <<up, down, host>>
-----------------------------------------------------------------------------
(* The uploader.  Its writes reach the line an item at a time. *)

Smaller(a, b) == IF a < b THEN a ELSE b
Chunk(from, size) == SubSeq(host.file, from + 1, Smaller(from + size, Len(host.file)))
Sends(at, items, n) == [host EXCEPT !.at = at, !.send = items, !.wait = n]

\* main: the board is reset, what it has sent is drained.  programFile erases
\* nothing if ftell does not know the size.
FirstPlaces ==
  IF host.task = "upload" THEN {"upload"}
  ELSE {"program enable"} \cup IF host.size > 0 THEN {"erase enable"} ELSE {}

ToggleReset ==
  /\ host.at = "start"
  /\ rom' = Start /\ flash' = [flash EXCEPT !.sel = FALSE, !.got = <<>>]
  /\ up' = <<>> /\ down' = <<>>
  /\ \E at \in FirstPlaces : host' = [host EXCEPT !.at = at]
  /\ UNCHANGED ram

HostSends ==
  /\ host.send # <<>>
  /\ up' = Append(up, Head(host.send)) /\ host' = [host EXCEPT !.send = Tail(@)]
  /\ UNCHANGED <<rom, ram, flash, down>>

Ready == host.send = <<>> /\ host.wait = 0

\* uploadFile and callAddress.  A read that fails ends the program, but the first
\* one is taken for the end of the file.
ReadFails == host.pos > 0 /\ host.pos < host.size
UploadFile ==
  /\ host.at = "upload" /\ Ready
  /\ LET part == Chunk(host.pos, UPLOADSIZE)
     IN host' = IF part = <<>> THEN Sends("end", IF ReadFails THEN <<>> ELSE <<C, 0>>, 0)
                ELSE [Sends("upload", <<U, host.pos, Len(part)>> \o part, 0)
                        EXCEPT !.pos = @ + Len(part)]
  /\ UNCHANGED <<rom, ram, flash, up, down>>

\* What the uploader has the flash do next: eraseBlocks, then programChunk and
\* readChunk for every part of the file, the last of which is empty; fread that
\* fails is the end of the file.
Message ==
  LET addr == FlashBase + host.pos
      part == Chunk(host.pos, CHUNKSIZE)
  IN CASE host.at \in {"erase enable", "program enable"} -> <<WRITE_ENABLE>>
       [] host.at = "erase"   -> <<BLOCK_ERASE, addr>>
       [] host.at = "program" -> <<PAGE_PROGRAM, addr>> \o part
       [] host.at = "read"    -> <<FASTREAD, addr, FASTREAD>> \o part
       [] OTHER               -> <<READ_STATUS, READ_STATUS>>

\* writeToSPI: what is on the line is drained, then as much is awaited as is sent.
WriteToSPI ==
  /\ host.at \notin {"start", "upload", "end"} /\ Ready
  /\ down' = <<>>
  /\ host' = Sends(host.at, <<S, Len(Message)>> \o Message, Len(Message))
  /\ UNCHANGED <<rom, ram, flash, up>>

Compares_Never(response, part) == TRUE
Compares(response, part) == SubSeq(response, 4, Len(response)) = part

After(response) ==
  LET busy == response[2] = 1
      part == Chunk(host.pos, CHUNKSIZE)
      To(at) == [host EXCEPT !.at = at, !.wait = 0]
  IN CASE host.at = "erase enable"   -> To("erase")
       [] host.at = "erase"          -> To("erase busy")
       [] host.at = "erase busy"     ->
            IF busy THEN To("erase busy")
            ELSE IF host.pos + BLOCK < host.size
            THEN [To("erase enable") EXCEPT !.pos = @ + BLOCK]
            ELSE [To("program enable") EXCEPT !.pos = 0]
       [] host.at = "program enable" -> To("program")
       [] host.at = "program"        -> To("program busy")
       [] host.at = "program busy"   -> To(IF busy THEN "program busy" ELSE "read busy")
       [] host.at = "read busy"      -> To(IF busy THEN "read busy" ELSE "read")
       [] host.at = "read"           ->
            [To(IF part = <<>> THEN "end" ELSE "program enable") EXCEPT
               !.pos = @ + Len(part),
               !.mismatch = @ \/ ~Compares(response, part)]

Receive ==
  /\ host.wait > 0 /\ host.send = <<>> /\ Len(down) >= host.wait
  /\ host' = After(SubSeq(down, 1, host.wait)) /\ down' = <<>>
  /\ UNCHANGED <<rom, ram, flash, up>>
-----------------------------------------------------------------------------
Init ==
  /\ rom = Start /\ up = <<>> /\ down = <<>>
  /\ ram = [a \in 0 .. FlashSize - 1 |-> 0]
  /\ flash = [mem |-> [a \in Addresses |-> 7], sel |-> FALSE, got |-> <<>>,
              wel |-> FALSE, busy |-> 0, out |-> 255]
  /\ \E f \in Files, t \in Tasks : \E n \in 0 .. Len(f) :
       host = [at |-> "start", file |-> SubSeq(f, 1, n), size |-> Len(f), task |-> t,
               pos |-> 0, send |-> <<>>, wait |-> 0, mismatch |-> FALSE]

Monitor == Command \/ LoadFromUart \/ Call \/ UartToSpi
Uploader == ToggleReset \/ HostSends \/ UploadFile \/ WriteToSPI \/ Receive
Next == Monitor \/ Return \/ LoadFromSpi \/ Uploader
Spec == Init /\ [][Next]_vars /\ WF_vars(Monitor) /\ WF_vars(Uploader)
-----------------------------------------------------------------------------
\* Whatever the monitor starts is whole: the file, if it was told to call it,
\* or else the first page of the image in the flash, as a two-second pause
\* between any two commands makes it load.  A file that cannot be read to its
\* end is not called; but one of which the first read fails is, with nothing
\* uploaded (uploader.c does not look at that read's result).
RunsWhatWasLoaded ==
  rom.at = "run" =>
    \/ /\ rom.by = "call" /\ (Len(host.file) = host.size \/ host.file = <<>>)
       /\ \A i \in 1 .. Len(host.file) : ram[i - 1] = host.file[i]
    \/ rom.by = "flash" /\ \A i \in 0 .. LOADSIZE - 1 : ram[i] = flash.mem[FlashBase + i]

\* An uploader that has reported no mismatch has left in the flash all of the
\* file that could be read, even if the flash takes a byte wrong (a file that
\* could not be read to its end it does not report); and it has touched only
\* the blocks the file is in.
FlashHoldsFile ==
  /\ host.at = "end" /\ host.task = "program" /\ ~host.mismatch =>
       \A i \in 1 .. Len(host.file) : flash.mem[FlashBase + i - 1] = host.file[i]
  /\ \A a \in Addresses :
       a < FlashBase \/ (a - FlashBase) \div BLOCK > (host.size - 1) \div BLOCK
         => flash.mem[a] = 7

\* The uploader comes to its end, or the board has given up waiting for it.
UploadEnds == <>(host.at = "end" \/ rom.by = "flash")
=============================================================================
