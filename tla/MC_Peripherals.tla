--------------------------- MODULE MC_Peripherals ---------------------------
(***************************************************************************)
(* The four devices that keep a program waiting, each below the code that   *)
(* waits for it: the ALU below the control logic, the timer below its       *)
(* library, the SPI port and the serial line below the BIOS.  They share    *)
(* nothing, so a behaviour is of one of them, the active one, and the       *)
(* others rest.  Words of four bits for the ALU, of both signs and on both  *)
(* sides of the ends of the range; bits for bytes in the timer, so that its *)
(* 16 values wrap; bytes of two bits on the SPI and of three on the serial  *)
(* line.                                                                    *)
(***************************************************************************)
EXTENDS Integers, Sequences

CONSTANTS Cycles, Base, Offset, MaxGap,     \* of the timer
          SpiBits, Delay,                   \* of the SPI port
          UartBits, baudclocks, MaxGlitch   \* of the serial line

VARIABLES active,
          edge, reset, parked, dsp, alu_en, op, dataS1, dataS2, issued, clocks,
          mul, div, result,
          wide, patient, cycles, milliseconds, milliseconds_interrupt, bufferedval,
          interrupt_latched, interrupt_armed, beat, gap, now, snapshot, age, due,
          cs, txstart, txdata, state, shifting, busy, txbuffer, rxbuffer, bitcounter,
          clkcounter, spiclk, lastspiclk, risingclk, fallingclk, O_spi_clk,
          outgoing, incoming, settling, pc, byte, said, heard,
          writing, writebuf, writebitcnt, writeclkcnt, do_write, O_tx, sender,
          glitch, slipped, reading, edgefilter, inputbuf, readbuf, readbitcnt,
          readclkcnt, read_ready, receiver, pending

Alu == INSTANCE Alu WITH W <- 4, Levels <- 2, MaxOps <- 2, Operands <- {0, 1, 7, 8, 15},
                         Earlier <- {<<"ADD", 0, 0>>, <<"MULHSU", 15, 9>>, <<"DIV", 8, 15>>}
Timer == INSTANCE Timer
Spi == INSTANCE Spi WITH Bits <- SpiBits, active <- shifting
Uart == INSTANCE Uart WITH Bits <- UartBits

ASSUME TimerSetup == Timer!TimerAssumption
ASSUME SpiSetup == Spi!SpiAssumption
ASSUME UartSetup == Uart!UartAssumption
ASSUME AluSetup == Alu!WidthAssumption

\* The variables of each device; the timer and the SPI port share pc.
aluVars   == <<edge, reset, parked, dsp, alu_en, op, dataS1, dataS2, issued, clocks,
               mul, div, result>>
timerVars == <<wide, patient, cycles, milliseconds, milliseconds_interrupt, bufferedval,
               interrupt_latched, interrupt_armed, beat, gap, now, snapshot, age, due>>
spiVars   == <<cs, txstart, txdata, state, shifting, busy, txbuffer, rxbuffer, bitcounter,
               clkcounter, spiclk, lastspiclk, risingclk, fallingclk, O_spi_clk,
               outgoing, incoming, settling, byte, said, heard>>
uartVars  == <<writing, writebuf, writebitcnt, writeclkcnt, do_write, O_tx, sender,
               glitch, slipped, reading, edgefilter, inputbuf, readbuf, readbitcnt,
               readclkcnt, read_ready, receiver, pending>>
vars == <<active, pc, aluVars, timerVars, spiVars, uartVars>>

\* A device at rest.
AluRests ==
    /\ edge = 0 /\ reset = 0 /\ parked = 0 /\ dsp = 0 /\ alu_en = 0
    /\ op = 0 /\ dataS1 = 0 /\ dataS2 = 0 /\ issued = 0 /\ clocks = 0
    /\ mul = 0 /\ div = 0 /\ result = 0
TimerRests ==
    /\ wide = 0 /\ patient = 0 /\ cycles = 0 /\ milliseconds = 0
    /\ milliseconds_interrupt = 0 /\ bufferedval = 0
    /\ interrupt_latched = 0 /\ interrupt_armed = 0 /\ beat = 0 /\ gap = 0
    /\ now = 0 /\ snapshot = 0 /\ age = 0 /\ due = 0
SpiRests ==
    /\ cs = 0 /\ txstart = 0 /\ txdata = 0 /\ state = 0 /\ shifting = 0
    /\ busy = 0 /\ txbuffer = 0 /\ rxbuffer = 0 /\ bitcounter = 0
    /\ clkcounter = 0 /\ spiclk = 0 /\ lastspiclk = 0 /\ risingclk = 0
    /\ fallingclk = 0 /\ O_spi_clk = 0 /\ outgoing = 0 /\ incoming = 0
    /\ settling = 0 /\ byte = 0 /\ said = 0 /\ heard = 0
UartRests ==
    /\ writing = 0 /\ writebuf = 0 /\ writebitcnt = 0 /\ writeclkcnt = 0
    /\ do_write = 0 /\ O_tx = 0 /\ sender = 0 /\ glitch = 0 /\ slipped = 0
    /\ reading = 0 /\ edgefilter = 0 /\ inputbuf = 0 /\ readbuf = 0
    /\ readbitcnt = 0 /\ readclkcnt = 0 /\ read_ready = 0 /\ receiver = 0
    /\ pending = 0

Init ==
    \/ active = "alu"   /\ Alu!Init   /\ TimerRests /\ SpiRests /\ UartRests /\ pc = 0
    \/ active = "timer" /\ Timer!Init /\ AluRests /\ SpiRests /\ UartRests
    \/ active = "spi"   /\ Spi!Init   /\ AluRests /\ TimerRests /\ UartRests
    \/ active = "uart"  /\ Uart!Init  /\ AluRests /\ TimerRests /\ SpiRests /\ pc = 0

Next ==
    /\ UNCHANGED active
    /\ \/ active = "alu"   /\ Alu!Next   /\ UNCHANGED <<pc, timerVars, spiVars, uartVars>>
       \/ active = "timer" /\ Timer!Next /\ UNCHANGED <<aluVars, spiVars, uartVars>>
       \/ active = "spi"   /\ Spi!Next   /\ UNCHANGED <<aluVars, timerVars, uartVars>>
       \/ active = "uart"  /\ Uart!Next  /\ UNCHANGED <<pc, aluVars, timerVars, spiVars>>

\* The fairness of each device, see Timer, Spi and Uart.
TimerStep   == active = "timer" /\ Timer!Next
SpiStep(A)  == active = "spi" /\ Spi!Controller /\ A
UartStep(A) == active = "uart" /\ Uart!BothClocks /\ A /\ Uart!History

Spec ==
    /\ Init /\ [][Next]_vars
    /\ WF_<<pc, timerVars>>(TimerStep)
    /\ WF_<<pc, spiVars>>(active = "spi" /\ Spi!Next)
    /\ WF_<<pc, spiVars>>(SpiStep(Spi!PollReady)) /\ WF_<<pc, spiVars>>(SpiStep(Spi!Write))
    /\ WF_<<pc, spiVars>>(SpiStep(Spi!PollFinished)) /\ WF_<<pc, spiVars>>(SpiStep(Spi!Read))
    /\ WF_uartVars(UartStep(TRUE)) /\ WF_uartVars(UartStep(receiver' # receiver))
    /\ WF_uartVars(UartStep(sender = "write" /\ sender' = "poll"))
-----------------------------------------------------------------------------
\* The ALU's answers are the mathematical ones, and come in time.
ResultCorrect == active = "alu" => Alu!TypeOK /\ Alu!ResultCorrect /\ Alu!EndsInTime

\* The time read byte by byte is the time at the first byte, and an interrupt
\* asked for comes no later than its millisecond,
TimeIsRight ==
    active = "timer" => Timer!TypeOK /\ Timer!TimeReadIsSnapshot /\ Timer!AlarmOnTime

\* and no other is raised than the one asked for, except by the byte-wide timer
\* while its target is overwritten under an earlier request that has not come.
InterruptMeansDue ==
    [][active = "timer" /\ ~interrupt_latched /\ interrupt_latched' =>
         \/ due # -1 /\ milliseconds = due
         \/ Timer!HalfWritten]_vars

\* The BIOS and the device on the SPI exchange exactly the bytes they sent, and
\* the serial line delivers each byte once, in order and undamaged.
BytesExchanged ==
    /\ active = "spi"  => Spi!TypeOK /\ Spi!ByteExchanged
    /\ active = "uart" => Uart!TypeOK /\ Uart!ReceivesInOrder

\* The program that asks for the next interrupt in the handler of the last is
\* interrupted for ever, and every byte given to the SPI or to the serial line
\* gets through.
NothingWaitsForever ==
    /\ active = "timer" /\ patient
         => []<>(active = "timer" /\ interrupt_latched /\ pc = "wait")
    /\ (IF active = "spi" THEN pc = "ready" ELSE active = "uart" /\ pending # << >>)
         ~> IF active = "spi" THEN pc = "read" ELSE active = "uart" /\ read_ready
=============================================================================
