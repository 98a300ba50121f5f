-------------------------------- MODULE Uart ---------------------------------
(***************************************************************************)
(* Two serial ports (uart/uart_wb8.v) and the BIOS streams on them          *)
(* (bios_uart.c): the transmitter of one system, the line, and the receiver *)
(* of another.                                                             *)
(*                                                                         *)
(* A step is a clock of the transmitter, of the receiver, or of both: their *)
(* clocks may slip against each other by one clock in every bit.  While the *)
(* line is idle it suffers short glitches.                                 *)
(***************************************************************************)
EXTENDS Naturals, Sequences

CONSTANTS Bits,         \* data bits of a byte
          baudclocks,   \* clocks per bit
          MaxGlitch     \* clocks the longest glitch lasts

\* Over a byte the receiver falls behind by the clocks of a start bit, by one
\* in every bit of its own and by one for every slip, and it stays within the
\* half of the bit that follows its middle.
UartAssumption ==
    /\ Bits \in Nat \ {0} /\ baudclocks \in Nat
    /\ 2 * Bits + 6 <= baudclocks - (baudclocks \div 2)
    /\ MaxGlitch \in 0..3

Byte == [1..Bits -> {0, 1}]         \* the least significant bit first

VARIABLES
    (* transmitter *)
    writing,                \* writestate is WRITE_WRITE
    writebuf, writebitcnt, writeclkcnt, do_write, O_tx,
    sender,                 \* where bios_uart_write is
    (* line *)
    glitch,                 \* clocks a glitch has lasted
    slipped,                \* the clocks have just slipped
    (* receiver *)
    reading,                \* readstate is READ_READ
    edgefilter, inputbuf, readbuf, readbitcnt, readclkcnt, read_ready,
    receiver,               \* where bios_uart_read is
    (* history *)
    pending                 \* bytes written and not read, the oldest first

writeVars == <<writing, writebuf, writebitcnt, writeclkcnt, do_write, O_tx, sender>>
readVars  == <<reading, edgefilter, inputbuf, readbuf, readbitcnt, readclkcnt,
               read_ready, receiver, glitch>>
vars == <<writeVars, readVars, slipped, pending>>

High == <<1, 1, 1>>
-----------------------------------------------------------------------------
(* The transmitter, without and with a write of the program. *)

\* Output is high on idle; the start bit is low.
Start ==
    /\ ~writing
    /\ O_tx' = IF do_write THEN 0 ELSE 1
    /\ writing' = do_write
    /\ IF do_write THEN writeclkcnt' = 0 /\ writebitcnt' = 0
       ELSE UNCHANGED <<writeclkcnt, writebitcnt>>

WithinBit ==
    /\ writing /\ writeclkcnt < baudclocks - 1
    /\ writeclkcnt' = writeclkcnt + 1
    /\ UNCHANGED <<writing, writebitcnt, O_tx>>

EndsBit  == writing /\ writeclkcnt = baudclocks - 1

EndsByte == EndsBit /\ writebitcnt = Bits + 1

NextBit ==
    /\ EndsBit
    /\ writeclkcnt' = 0 /\ writebitcnt' = writebitcnt + 1
    /\ O_tx' = Head(writebuf) /\ writing' = ~EndsByte

Transmitter == Start \/ WithinBit \/ NextBit

\* What becomes of the buffer and the request when the program does not write.
KeepSending ==
    /\ writebuf' = IF EndsBit THEN Append(Tail(writebuf), 1) ELSE writebuf
    /\ do_write' = (do_write /\ ~EndsByte)

\* while(!UART_WREADY)
PollWrite ==
    /\ sender = "poll" /\ ~do_write
    /\ sender' = "write"
    /\ KeepSending

\* UART_DATA = buffer[i]
WriteByte ==
    /\ sender = "write"
    /\ writebuf' \in Byte /\ do_write' = TRUE
    /\ sender' = "poll"

SenderElsewhere == KeepSending /\ UNCHANGED sender

SenderClock == Transmitter /\ (PollWrite \/ WriteByte \/ SenderElsewhere)
-----------------------------------------------------------------------------
(* The receiver at a clock, with the level of the line. *)

\* A start bit is four low clocks in a row.
IsStart(rx) == rx = 0 /\ edgefilter = <<0, 0, 0>>

Listen(rx) ==
    /\ ~reading
    /\ IF IsStart(rx)
         THEN /\ reading' = TRUE /\ readclkcnt' = 0 /\ readbitcnt' = 0
              /\ edgefilter' = High
         ELSE /\ edgefilter' = Append(Tail(edgefilter), rx)
              /\ UNCHANGED <<reading, readclkcnt, readbitcnt>>
    /\ UNCHANGED <<inputbuf, readbuf>>

\* Bits are sampled in their middle.
Samples == reading /\ readclkcnt = baudclocks \div 2

\* The stop bit is waited for but not looked at.
Completes == Samples /\ readbitcnt = Bits + 1

\* A bit of the receiver is a clock longer than one of the transmitter.
CountClock == readclkcnt' = IF readclkcnt = baudclocks THEN 0 ELSE readclkcnt + 1

Collect(rx) ==
    /\ reading
    /\ CountClock
    /\ inputbuf' = IF Samples /\ ~Completes THEN Append(Tail(inputbuf), rx) ELSE inputbuf
    /\ readbitcnt' = IF Samples THEN readbitcnt + 1 ELSE readbitcnt
    /\ readbuf' = IF Completes THEN inputbuf ELSE readbuf
    /\ reading' = ~Completes
    /\ UNCHANGED edgefilter

\* A glitch may pull down the line while it is idle and nothing is received.
Line ==
    \/ O_tx = 1 /\ ~reading /\ glitch < MaxGlitch /\ glitch' = glitch + 1 /\ Listen(0)
    \/ glitch' = 0 /\ (Listen(O_tx) \/ Collect(O_tx))

\* The program reads a byte before the stop bit of the next one.
Urgent == read_ready /\ reading /\ readbitcnt = Bits + 1

\* while(!UART_RREADY)
PollRead ==
    /\ receiver = "poll" /\ read_ready
    /\ receiver' = "read"
    /\ read_ready' = (read_ready \/ Completes)

\* buffer[i] = UART_DATA: the flag is cleared, whatever completes in this clock.
ReadByte ==
    /\ receiver = "read"
    /\ receiver' = "poll"
    /\ read_ready' = FALSE

ReceiverElsewhere ==
    /\ ~Urgent
    /\ read_ready' = (read_ready \/ Completes)
    /\ UNCHANGED receiver

ReceiverClock == Line /\ (PollRead \/ ReadByte \/ ReceiverElsewhere)
-----------------------------------------------------------------------------
Init ==
    /\ writing = FALSE /\ writebuf \in Byte /\ writebitcnt = 0 /\ writeclkcnt = 0
    /\ do_write = FALSE /\ O_tx = 1 /\ sender = "poll"
    /\ glitch = 0 /\ slipped = FALSE
    /\ reading = FALSE /\ edgefilter = High /\ readbitcnt = 0 /\ readclkcnt = 0
    /\ inputbuf \in Byte /\ readbuf \in Byte /\ read_ready = FALSE
    /\ receiver = "poll" /\ pending = << >>

Written == IF sender = "write" /\ sender' = "poll" THEN <<writebuf'>> ELSE << >>
Left    == IF receiver = "read" /\ receiver' = "poll" THEN Tail(pending) ELSE pending

History == pending' = Left \o Written

BothClocks == SenderClock /\ ReceiverClock /\ slipped' = FALSE

\* The clocks slip by at most one while a bit begins.
MaySlip == writing /\ writeclkcnt = 0 /\ ~slipped /\ slipped' = TRUE

SenderAhead   == MaySlip /\ SenderClock /\ UNCHANGED readVars
ReceiverAhead == MaySlip /\ ReceiverClock /\ UNCHANGED writeVars

Next == (BothClocks \/ SenderAhead \/ ReceiverAhead) /\ History

\* The clocks run, and each program goes on once its port is ready.
FairSpec ==
    /\ Init /\ [][Next]_vars
    /\ WF_vars(BothClocks /\ History)
    /\ WF_vars(BothClocks /\ receiver' # receiver /\ History)
    /\ WF_vars(BothClocks /\ sender = "write" /\ sender' = "poll" /\ History)
-----------------------------------------------------------------------------
TypeOK ==
    /\ writing \in BOOLEAN /\ writebuf \in Byte /\ writebitcnt \in 0 .. Bits + 2
    /\ writeclkcnt \in 0 .. baudclocks - 1 /\ do_write \in BOOLEAN /\ O_tx \in {0, 1}
    /\ sender \in {"poll", "write"} /\ receiver \in {"poll", "read"}
    /\ glitch \in 0..MaxGlitch /\ slipped \in BOOLEAN
    /\ reading \in BOOLEAN /\ edgefilter \in [1..3 -> {0, 1}]
    /\ inputbuf \in Byte /\ readbuf \in Byte
    /\ readbitcnt \in 0 .. Bits + 2 /\ readclkcnt \in 0..baudclocks
    /\ read_ready \in BOOLEAN
    /\ Len(pending) <= 2

\* Whenever the receiver reports a byte it is the oldest one written and not
\* yet read: none is lost, doubled, damaged or made up of a glitch, although a
\* bit of the receiver is longer than one of the transmitter and their clocks
\* slip.
ReceivesInOrder == read_ready => pending # << >> /\ readbuf = Head(pending)

\* Every byte written arrives.
EveryByteArrives == pending # << >> ~> read_ready
=============================================================================
