--------------------------------- MODULE Spi ---------------------------------
(***************************************************************************)
(* The SPI port: the register interface spi/spi_wb8.v, the shifter          *)
(* spi/spicontroller.v, the BIOS that exchanges bytes through them          *)
(* (bios_spi.c, bios_spi.h) and a mode-0 device on the second chip select,  *)
(* where the boards have the SD card.                                      *)
(*                                                                         *)
(* One step is one clock; the BIOS puts at most one access into it.         *)
(***************************************************************************)
EXTENDS Naturals, Sequences

CONSTANTS Bits,         \* bits of a byte
          Delay         \* clocks the device takes to put out its next bit

\* Half a period of the bus clock is two clocks.
SpiAssumption == Bits \in Nat \ {0} /\ Delay \in 0..2

Bit    == {0, 1}
Byte   == [1..Bits -> Bit]          \* the most significant bit first
Device == 2                         \* the chip select the device answers to

VARIABLES
    (* spi_wb8 *)
    cs, txstart, txdata, state,
    (* spicontroller *)
    active,                 \* its own state is STATE_ACTIVE
    busy, txbuffer, rxbuffer, bitcounter,
    clkcounter, spiclk, lastspiclk, risingclk, fallingclk, O_spi_clk,
    (* device *)
    outgoing,               \* the bits it has still to put out
    incoming,               \* the bits it has taken in of the byte under way
    settling,               \* clocks until it puts out the next bit, 0 for none
    (* BIOS *)
    pc, byte,
    (* history, of the transfer under way *)
    said, heard             \* the device's byte and the one it got

wbVars     == <<cs, txstart, txdata, state>>
clockVars  == <<clkcounter, spiclk, lastspiclk, risingclk, fallingclk>>
shiftVars  == <<active, busy, txbuffer, rxbuffer, bitcounter, O_spi_clk>>
deviceVars == <<outgoing, incoming, settling>>
biosVars   == <<pc, byte>>
vars == <<wbVars, clockVars, shiftVars, deviceVars, biosVars, said, heard>>

Shift(w, b) == Append(Tail(w), b)
Zeros       == [i \in 1..Bits |-> 0]
MOSI        == Head(txbuffer)
Selected    == cs = Device

\* What the controller reads from the device: a line nobody drives may be read
\* as anything, and so may one that is still settling.
MISO == IF Selected /\ settling = 0 THEN {Head(outgoing)} ELSE Bit
-----------------------------------------------------------------------------
(* spicontroller, at every clock. *)

\* The divided clock and its edges, each a clock after the other.
DivideClock ==
    /\ clkcounter' = (clkcounter + 1) % 4
    /\ spiclk' = (clkcounter >= 2)
    /\ lastspiclk' = spiclk
    /\ risingclk' = (~lastspiclk /\ spiclk)
    /\ fallingclk' = (lastspiclk /\ ~spiclk)

\* Mutant of StartShifting: it does not wait for the falling clock.
StartShifting_AnyTime ==
    /\ ~active /\ busy
    /\ bitcounter' = Bits /\ txbuffer' = txdata /\ active' = TRUE
    /\ O_spi_clk' = FALSE
    /\ busy' = TRUE
    /\ UNCHANGED rxbuffer

StartShifting ==
    /\ ~active /\ busy /\ fallingclk
    /\ bitcounter' = Bits /\ txbuffer' = txdata /\ active' = TRUE
    /\ O_spi_clk' = FALSE
    /\ busy' = TRUE
    /\ UNCHANGED rxbuffer

Rest ==
    /\ ~active /\ ~(busy /\ fallingclk)
    /\ txbuffer' = Zeros /\ O_spi_clk' = FALSE
    /\ busy' = (busy \/ txstart)
    /\ UNCHANGED <<active, rxbuffer, bitcounter>>

\* Data comes in with the rising clock ...
ShiftIn ==
    /\ active
    /\ IF risingclk
         THEN /\ \E b \in MISO : rxbuffer' = Shift(rxbuffer, b)
              /\ bitcounter' = bitcounter - 1
         ELSE UNCHANGED <<rxbuffer, bitcounter>>

\* Mutant of ShiftOut: the end of the byte does not clear busy.
ShiftOut_StaysBusy ==
    /\ active
    /\ O_spi_clk' = spiclk
    /\ txbuffer' = IF fallingclk THEN Shift(txbuffer, 0) ELSE txbuffer
    /\ active' = ~(fallingclk /\ bitcounter = 0)
    /\ busy' = (busy \/ txstart)

\* ... and goes out with the falling clock, which also ends the byte.
ShiftOut ==
    /\ active
    /\ O_spi_clk' = spiclk
    /\ txbuffer' = IF fallingclk THEN Shift(txbuffer, 0) ELSE txbuffer
    /\ IF fallingclk /\ bitcounter = 0
         THEN active' = FALSE /\ busy' = FALSE
         ELSE UNCHANGED active /\ busy' = (busy \/ txstart)

Controller ==
    /\ DivideClock
    /\ \/ StartShifting
       \/ Rest
       \/ ShiftIn /\ ShiftOut
-----------------------------------------------------------------------------
(* spi_wb8: the states of a transmission, when the BIOS does not write. *)

Proceed ==
    CASE state = "WAIT_BUSY" ->
            txstart' = TRUE /\ state' = IF busy THEN "WAIT_READY" ELSE state
      [] state = "WAIT_READY" ->
            txstart' = FALSE /\ state' = IF busy THEN state ELSE "IDLE"
      [] OTHER -> UNCHANGED <<txstart, state>>

NoWrite == Proceed /\ UNCHANGED <<cs, txdata>>

SelectDevice(n) == Proceed /\ cs' = n /\ UNCHANGED txdata

\* A write while a transmission is under way is dropped.
WriteData(w) ==
    /\ IF state = "IDLE"
         THEN txdata' = w /\ state' = "WAIT_BUSY" /\ UNCHANGED txstart
         ELSE Proceed /\ UNCHANGED txdata
    /\ UNCHANGED cs
-----------------------------------------------------------------------------
(* The device: it takes a bit with every rising edge of the bus clock, puts  *)
(* one out after every falling edge, and begins a new byte when it is        *)
(* selected and after every Bits edges.                                      *)

RisingEdge  == ~O_spi_clk /\ O_spi_clk'
FallingEdge == O_spi_clk /\ ~O_spi_clk'

\* A bit that changes at the very edge may be taken for either.
Sample ==
    \E b \in {MOSI, MOSI'} :
        IF Len(incoming) = Bits - 1
          THEN heard' = Append(incoming, b) /\ incoming' = << >>
          ELSE incoming' = Append(incoming, b) /\ UNCHANGED heard

PutOut ==
    IF Len(outgoing) > 1 THEN outgoing' = Tail(outgoing) ELSE outgoing' \in Byte

DeviceListens ==
    /\ IF RisingEdge THEN Sample ELSE UNCHANGED <<incoming, heard>>
    /\ IF FallingEdge THEN PutOut /\ settling' \in 0..Delay
       ELSE /\ UNCHANGED outgoing
            /\ settling' = IF settling > 0 THEN settling - 1 ELSE 0

DeviceRestarts ==
    /\ incoming' = << >> /\ outgoing' \in Byte /\ settling' \in 0..Delay
    /\ UNCHANGED heard

Follow == IF Selected THEN DeviceListens ELSE UNCHANGED <<deviceVars, heard>>
-----------------------------------------------------------------------------
(* The BIOS. *)

Init ==
    /\ cs = 0 /\ txstart = FALSE /\ txdata = Zeros /\ state = "IDLE"
    /\ active = FALSE /\ busy = FALSE /\ bitcounter = 0 /\ clkcounter = 0
    /\ txbuffer \in Byte /\ rxbuffer \in Byte
    /\ spiclk \in BOOLEAN /\ lastspiclk \in BOOLEAN
    /\ risingclk \in BOOLEAN /\ fallingclk \in BOOLEAN /\ O_spi_clk \in BOOLEAN
    /\ outgoing = Zeros /\ incoming = << >> /\ settling = 0
    /\ said = Zeros /\ heard = << >>
    /\ pc = "called" /\ byte = Zeros


\* bios_spi_select
Select ==
    /\ pc = "called"
    /\ \E n \in 0..3 :
         /\ SelectDevice(n)
         /\ IF n = Device /\ ~Selected THEN DeviceRestarts ELSE Follow
    /\ UNCHANGED <<biosVars, said>>

\* A clock in which the BIOS does not use the port.
Elsewhere == NoWrite /\ Follow /\ UNCHANGED <<biosVars, said>>

\* A call of bios_spi_transmit
Transmit ==
    /\ pc = "called"
    /\ byte' \in Byte /\ pc' = "ready"
    /\ NoWrite /\ Follow /\ UNCHANGED said

\* while(!*DEV_SPI_READY)
PollReady ==
    /\ pc = "ready"
    /\ pc' = IF state = "IDLE" THEN "write" ELSE pc
    /\ NoWrite /\ Follow /\ UNCHANGED <<byte, said>>

\* *DEV_SPI_DATA = txdata; the device's byte is the one it has ready now.
Write ==
    /\ pc = "write"
    /\ WriteData(byte)
    /\ pc' = "finish" /\ said' = outgoing
    /\ Follow /\ UNCHANGED byte

\* while(!*DEV_SPI_READY)
PollFinished ==
    /\ pc = "finish"
    /\ pc' = IF state = "IDLE" THEN "read" ELSE pc
    /\ NoWrite /\ Follow /\ UNCHANGED <<byte, said>>

\* return *DEV_SPI_DATA
Read ==
    /\ pc = "read"
    /\ NoWrite /\ UNCHANGED deviceVars
    /\ pc' = "called" /\ byte' = Zeros /\ said' = Zeros /\ heard' = << >>

Next ==
    /\ Controller
    /\ \/ Select
       \/ Elsewhere
       \/ Transmit
       \/ PollReady
       \/ Write
       \/ PollFinished
       \/ Read

\* The clock runs, and the BIOS goes on with what it does.
FairSpec ==
    /\ Init /\ [][Next]_vars
    /\ WF_vars(Next)
    /\ WF_vars(Controller /\ PollReady) /\ WF_vars(Controller /\ Write)
    /\ WF_vars(Controller /\ PollFinished) /\ WF_vars(Controller /\ Read)
-----------------------------------------------------------------------------
TypeOK ==
    /\ cs \in 0..3 /\ txstart \in BOOLEAN /\ txdata \in Byte
    /\ state \in {"IDLE", "WAIT_BUSY", "WAIT_READY"}
    /\ active \in BOOLEAN /\ busy \in BOOLEAN
    /\ txbuffer \in Byte /\ rxbuffer \in Byte /\ bitcounter \in 0..Bits
    /\ clkcounter \in 0..3 /\ spiclk \in BOOLEAN /\ lastspiclk \in BOOLEAN
    /\ risingclk \in BOOLEAN /\ fallingclk \in BOOLEAN /\ O_spi_clk \in BOOLEAN
    /\ Len(outgoing) \in 1..Bits /\ Len(incoming) < Bits /\ settling \in 0..Delay
    /\ pc \in {"called", "ready", "write", "finish", "read"} /\ byte \in Byte
    /\ Len(said) \in 1..Bits /\ Len(heard) \in {0, Bits}

\* When bios_spi_transmit finds the port ready again, the selected device has
\* got exactly the byte that was sent and the data register holds exactly the
\* byte the device sent; both are at the beginning of their next byte, whatever
\* the phase of the divided clock was and however late the device puts out its
\* bits.
ByteExchanged ==
    pc = "read" /\ Selected =>
        /\ heard = byte /\ rxbuffer = said
        /\ incoming = << >> /\ Len(outgoing) = Bits

\* Every call of bios_spi_transmit returns.
TransmitEnds == pc = "ready" ~> pc = "read"
=============================================================================
