------------------------------ MODULE Wishbone8 ------------------------------
(***************************************************************************)
(* The path of an access on the hx8k-breakout-sram16 board: the bus unit   *)
(* of the CPU, the byte-wide Wishbone master spu32_bus_wishbone8           *)
(* (bus/wishbone8.v), which splits an access into one to four pipelined    *)
(* byte beats, and the SRAM chip behind sram256kx16_wb8_vga_ice40, which   *)
(* the video reads through the same pins.                                  *)
(*                                                                         *)
(* The RAM starts a read or write pulse of half a clock at the rising edge *)
(* and samples the chip's data pins at the falling one.                    *)
(***************************************************************************)
EXTENDS CpuPort

CONSTANTS NumBytes,     \* bytes of RAM
          InitMem,      \* RAM contents at power-up
          Junk          \* what the data pins carry when the CPU reads nothing

SizeAssumption ==
    /\ NumBytes \in Nat \ {0}
    /\ InitMem \in [0 .. NumBytes - 1 -> Byte]
    /\ StoreData \subseteq Word
    /\ Junk \in Byte

Addr == 0 .. NumBytes - 1

Requests == {r \in Access(Addr, StoreData) : r.addr + Width(r.op) <= NumBytes}

VARIABLES
    (* Wishbone master *)
    stb, we, adr, dat, ackcnt, addrcnt,
    (* RAM: the half-clock pulse on the chip's control pins, its address and *)
    (* data pins, the byte sampled last, and the acknowledge                 *)
    mem, pulse, chipAdr, chipDat, sample, ack

masterVars == <<busy, stb, we, adr, dat, ackcnt, addrcnt, buffer>>
ramVars    == <<mem, pulse, chipAdr, chipDat, sample, ack>>
vars == <<edge, rst, vgaRun, cpuVars, unitVars, masterVars, ramVars>>

Init ==
    /\ InitPort
    /\ stb = FALSE /\ we = FALSE /\ adr = 0 /\ dat = 0
    /\ ackcnt = 0 /\ addrcnt = 0
    /\ mem = InitMem /\ pulse = "none" /\ chipAdr = 0 /\ chipDat = 0
    /\ sample = Junk /\ ack = FALSE
-----------------------------------------------------------------------------
(* The falling edge: the CPU moves on, the RAM's pulse ends. *)

\* The chip at the end of a pulse: a write is stored, a read is sampled.
PulseEnds ==
    /\ pulse' = "none"
    /\ mem' = IF pulse = "write" THEN [mem EXCEPT ![chipAdr] = chipDat] ELSE mem
    /\ sample' = IF pulse = "read" THEN mem[chipAdr] ELSE Junk
    /\ UNCHANGED <<chipAdr, chipDat, ack>>

Negedge ==
    /\ edge = "neg" /\ edge' = "pos"
    /\ parked' = (rst > 0)
    /\ Reissue \/ Rest \/ Park \/ \E r \in Requests : Issue(r)
    /\ PulseEnds
    /\ UNCHANGED <<rst, vgaRun, unitVars, masterVars>>
-----------------------------------------------------------------------------
(* The Wishbone master, at the rising edge. *)

Stall == stb /\ VgaReq

\* byte_target
Target == Width(req.op)

\* The next byte's address goes out.
NextBeat == strobe /\ ackcnt # Target /\ addrcnt # Target /\ ~Stall

Acked == strobe /\ ackcnt # Target /\ ack

Complete == Acked /\ (ackcnt + 1) % 8 = Target

\* Mutant of Beat: every beat carries the lowest byte of the store data.
Beat_NotAdvanced == /\ adr' = req.addr + addrcnt
                    /\ dat' = req.data[0]

\* busaddr and DAT_O of the beat that goes out.
Beat == /\ adr' = req.addr + addrcnt
        /\ dat' = req.data[addrcnt % 4]

\* Mutant of Strobe: the strobe drops when the last byte is stalled.
Strobe_NotHeld == strobe /\ addrcnt # Target

\* STB_O at the next clock.
Strobe == strobe /\ (addrcnt # Target \/ Stall)

Master ==
    /\ busy' = (strobe /\ ~Complete)
    /\ stb' = Strobe
    /\ we' = (strobe /\ IsStore(req.op))
    /\ IF NextBeat THEN Beat ELSE UNCHANGED <<adr, dat>>
    /\ addrcnt' = IF rst > 0 \/ Complete THEN 0
                  ELSE IF NextBeat THEN (addrcnt + 1) % 8 ELSE addrcnt
    /\ ackcnt' = IF rst > 0 \/ Complete THEN 0
                 ELSE IF Acked THEN (ackcnt + 1) % 8 ELSE ackcnt
    /\ buffer' = IF Acked THEN [buffer EXCEPT ![ackcnt % 4] = sample] ELSE buffer
-----------------------------------------------------------------------------
(* The RAM at the same edge: the video goes first, the CPU is stalled. *)

Ram ==
    /\ ack' = (stb /\ ~VgaReq)
    /\ pulse' = IF VgaReq THEN "vga" ELSE IF ~stb THEN "none"
                ELSE IF we THEN "write" ELSE "read"
    /\ chipAdr' = IF stb /\ ~VgaReq THEN adr ELSE chipAdr
    /\ chipDat' = dat
    /\ UNCHANGED <<mem, sample>>

Posedge ==
    /\ edge = "pos" /\ edge' = "neg"
    /\ Master /\ Ram /\ BusUnit /\ Disturb
    /\ UNCHANGED cpuVars

Next == Negedge \/ Posedge

Spec == Init /\ [][Next]_vars

FairSpec == Spec /\ WF_vars(Next)
-----------------------------------------------------------------------------
TypeOK ==
    /\ edge \in {"pos", "neg"} /\ rst \in 0..ResetCycles /\ vgaRun \in 0..MaxVgaRun
    /\ strobe \in BOOLEAN /\ parked \in BOOLEAN /\ capture \in BOOLEAN
    /\ issued \in 0..MaxAccesses
    /\ req \in Access(Addr, Word) /\ req.addr + Width(req.op) <= NumBytes
    /\ lastOp \in BusOp /\ result \in Word
    /\ busy \in BOOLEAN /\ stb \in BOOLEAN /\ we \in BOOLEAN
    /\ adr \in Addr /\ dat \in Byte
    /\ ackcnt \in 0..7 /\ addrcnt \in 0..7 /\ buffer \in Word
    /\ mem \in [Addr -> Byte] /\ pulse \in {"none", "read", "write", "vga"}
    /\ chipAdr \in Addr /\ chipDat \in Byte /\ sample \in Byte /\ ack \in BOOLEAN

Count(b) == IF b THEN 1 ELSE 0

\* The bytes sent and the acknowledges received stay matched: the ones not yet
\* acknowledged are on the bus or their acknowledge is, at most two at a time,
\* and a served access leaves both counters clear.  wishbone8.v counts them in
\* two registers that only agree if no stall or reset separates them.
BeatsAccounted ==
    rst = 0 => /\ addrcnt = ackcnt + Count(ack) + Count(stb)
               /\ addrcnt <= Target
               /\ ~busy => addrcnt = 0

Served      == edge = "neg" /\ strobe /\ ~busy /\ ~parked
Outstanding == (strobe \/ stb \/ pulse = "write") /\ ~Served

\* While the RAM stalls a byte the master keeps it on the bus unchanged; STB_O
\* and ADR_O are decided by different conditions in wishbone8.v.
StalledBeatHeld ==
    [][edge = "pos" /\ Stall /\ strobe => UNCHANGED <<stb, we, adr, dat>>]_vars

\* A requested access is served, unless a reset drops it: no byte is forgotten
\* when the video takes the RAM between any two of them.
EveryAccessServed == Outstanding ~> (Served \/ rst > 0)
-----------------------------------------------------------------------------
\* A store takes effect in the abstract memory when it is asked for.
AbstractMemory ==
    [a \in Addr |-> IF Outstanding /\ IsStore(req.op) /\ a \in Footprint(req)
                    THEN req.data[a - req.addr]
                    ELSE IF pulse = "write" /\ chipAdr = a THEN chipDat ELSE mem[a]]

AbstractResult ==
    IF (Served /\ ~IsStore(req.op)) \/ (edge = "pos" /\ capture)
    THEN Extend(lastOp, buffer) ELSE result

Abstract == INSTANCE ByteMemory
              WITH memory  <- AbstractMemory,
                   pending <- IF Outstanding THEN req ELSE None,
                   result  <- AbstractResult,
                   resetting <- rst > 0

\* The byte-wide adapter and the SRAM are the memory the CPU is promised: a
\* store of up to four separate byte writes is one atomic store to the CPU.
ImplementsByteMemory == Abstract!Spec
=============================================================================
