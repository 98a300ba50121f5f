------------------------------ MODULE Wishbone32 ------------------------------
(***************************************************************************)
(* The path of a load, a store or an instruction fetch on the iCEBreaker   *)
(* board: the bus unit of the CPU (cpu/bus.v), the pipelined Wishbone      *)
(* master spu32_bus_wishbone32 (bus/wishbone32.v) and the single-ported    *)
(* SPRAM it shares with the video output                                   *)
(* (ram/ice40_spram_1mbit_wb32_vga.v).                                     *)
(*                                                                         *)
(* The CPU changes its outputs on the falling clock edge, the adapter and  *)
(* the RAM on the rising one, so the two edges alternate as two actions.   *)
(* Video requests come at any rising edge, the reset button is pressed at  *)
(* any time.                                                               *)
(***************************************************************************)
EXTENDS CpuPort

CONSTANTS NumWords,     \* words of RAM
          BankWords,    \* words per SPRAM bank (2^14 on the chip)
          InitMem,      \* RAM contents at power-up
          VgaByte       \* what the RAM outputs while it serves the video

ASSUME SizeAssumption ==
    /\ NumWords \in Nat \ {0}
    /\ BankWords \in Nat \ {0}
    /\ InitMem \in [0 .. NumWords - 1 -> Word]
    /\ StoreData \subseteq Word
    /\ VgaByte \in Byte

WordAdr == 0 .. NumWords - 1
Bank    == 0 .. (NumWords - 1) \div BankWords
Addr    == 0 .. 4 * NumWords - 1

\* "No access is pending" is no access.
ASSUME NoneAssumption == None \notin Access(Addr, Word)

\* The accesses that stay inside this RAM.
Requests == {r \in Access(Addr, StoreData) : r.addr + Width(r.op) <= 4 * NumWords}

VARIABLES
    (* Wishbone master *)
    stb, we, adr, sel, dat, ackCount, addrCount,
    (* RAM *)
    mem, dout, readbuf, ack

masterVars == <<busy, stb, we, adr, sel, dat, ackCount, addrCount, buffer>>
ramVars    == <<mem, dout, ack>>
vars == <<edge, rst, vgaRun, cpuVars, unitVars, masterVars, ramVars, readbuf>>

VgaWord  == [l \in Lane |-> VgaByte]

Init ==
    /\ InitPort
    /\ stb = FALSE /\ we = FALSE /\ adr = 0 /\ sel = {}
    /\ dat = ZeroWord /\ ackCount = 0 /\ addrCount = 0
    /\ mem = InitMem /\ dout = [b \in Bank |-> ZeroWord]
    /\ readbuf = ZeroWord /\ ack = FALSE
-----------------------------------------------------------------------------
Negedge ==
    /\ edge = "neg" /\ edge' = "pos"
    /\ parked' = (rst > 0)
    /\ Reissue \/ Rest \/ Park \/ \E r \in Requests : Issue(r)
    /\ readbuf' = dout[adr \div BankWords]
    /\ UNCHANGED <<rst, vgaRun, unitVars, masterVars, ramVars>>
-----------------------------------------------------------------------------
(* The Wishbone master, at the rising edge. *)

Stall  == stb /\ VgaReq

\* Mutants of NextBeat: a beat is sent although the bus stalls; a beat is sent
\* past the last word of the access.
NextBeat_IgnoringStall ==
    strobe /\ ackCount # WordTarget(req) /\ addrCount # WordTarget(req)
NextBeat_Unbounded == strobe /\ ~Stall /\ ackCount # WordTarget(req)

\* The next beat's address goes out.
NextBeat == /\ strobe /\ ~Stall
            /\ ackCount # WordTarget(req) /\ addrCount # WordTarget(req)

Acked    == strobe /\ ack

\* Mutant of Complete: the first acknowledge ends the access.
Complete_FirstAck == Acked

Complete == Acked /\ (ackCount + 1) % 4 = WordTarget(req)

\* Mutant of BeatData: the second beat of a store repeats the first.
BeatData_NotAdvanced(r, n) ==
    [l \in Lane |-> r.data[IF l < Offset(r) THEN 0 ELSE l - Offset(r)]]

\* The word put on the bus in beat n: the store data shifted to its lanes, the
\* lanes that are not enabled repeating the nearest byte.
BeatData(r, n) ==
    LET at(l) == l + 4 * n - Offset(r)
    IN  [l \in Lane |-> r.data[IF at(l) < 0 THEN 0 ELSE IF at(l) > 3 THEN 3 ELSE at(l)]]

\* The buffer after beat n of a load brought the word w.
Merged(buf, r, n, w) ==
    [i \in Lane |-> LET l == i + Offset(r) - 4 * n
                    IN  IF l \in Lane THEN w[l] ELSE buf[i]]

Master ==
    /\ busy' = (strobe /\ ~Complete)
    /\ stb' = (strobe /\ (addrCount # WordTarget(req) \/ Stall))
    /\ we' = (strobe /\ IsStore(req.op))
    /\ IF NextBeat
       THEN /\ adr' = req.addr \div 4 + addrCount
            /\ sel' = ByteEnables(req, addrCount % 2)
            /\ dat' = BeatData(req, addrCount % 2)
       ELSE UNCHANGED <<adr, sel, dat>>
    /\ addrCount' = IF rst > 0 \/ Complete THEN 0
                    ELSE IF NextBeat THEN (addrCount + 1) % 4 ELSE addrCount
    /\ ackCount' = IF rst > 0 \/ Complete THEN 0
                   ELSE IF Acked THEN (ackCount + 1) % 4 ELSE ackCount
    /\ buffer' = IF Acked /\ ~IsStore(req.op)
                 THEN Merged(buffer, req, ackCount % 2, readbuf) ELSE buffer
-----------------------------------------------------------------------------
(* The RAM at the same edge: the video goes first, the CPU is stalled.  Both *)
(* banks are read at the address within the bank; the falling edge then      *)
(* selects one bank's output by the bus address it finds (Negedge above).    *)

\* Mutant of Acknowledge: the RAM acknowledges no beat right after another.
Acknowledge_OnceIdle == stb /\ ~VgaReq /\ ~ack

Acknowledge == stb /\ ~VgaReq

Ram ==
    /\ ack' = Acknowledge
    /\ mem' = IF stb /\ we /\ ~VgaReq
              THEN [mem EXCEPT ![adr] = [l \in Lane |-> IF l \in sel THEN dat[l] ELSE @[l]]]
              ELSE mem
    /\ dout' = IF VgaReq THEN [b \in Bank |-> VgaWord]
               ELSE IF stb /\ ~we
               THEN [b \in Bank |-> LET w == (b * BankWords) + (adr % BankWords)
                                    IN  IF w \in WordAdr THEN mem[w] ELSE ZeroWord]
               ELSE dout

Posedge ==
    /\ edge = "pos" /\ edge' = "neg"
    /\ Master /\ Ram /\ BusUnit /\ Disturb
    /\ UNCHANGED <<cpuVars, readbuf>>

Next == Negedge \/ Posedge

Spec == Init /\ [][Next]_vars

FairSpec == Spec /\ WF_vars(Next)
-----------------------------------------------------------------------------
TypeOK ==
    /\ edge \in {"pos", "neg"} /\ rst \in 0..ResetCycles /\ vgaRun \in 0..MaxVgaRun
    /\ strobe \in BOOLEAN /\ parked \in BOOLEAN /\ capture \in BOOLEAN
    /\ issued \in 0..MaxAccesses
    /\ req \in Access(Addr, Word) /\ req.addr + Width(req.op) <= 4 * NumWords
    /\ lastOp \in BusOp /\ result \in Word
    /\ busy \in BOOLEAN /\ stb \in BOOLEAN /\ we \in BOOLEAN
    /\ adr \in WordAdr /\ sel \in SUBSET Lane /\ dat \in Word
    /\ ackCount \in 0..3 /\ addrCount \in 0..3 /\ buffer \in Word
    /\ mem \in [WordAdr -> Word] /\ dout \in [Bank -> Word]
    /\ readbuf \in Word /\ ack \in BOOLEAN

Count(b) == IF b THEN 1 ELSE 0

\* Every beat the master has sent is either counted as acknowledged, or its
\* acknowledge is on the bus, or the beat itself still is: with stalls and two
\* beats in flight no acknowledge is missed, invented or credited to another
\* access, and once the CPU is served the counters, the strobe and the
\* acknowledge are all clear for the next access, also after a reset cut one
\* short (wishbone32.v counts beats and acknowledges separately and never
\* checks that they belong together).
BeatsAccounted ==
    rst = 0 => /\ addrCount = ackCount + Count(ack) + Count(stb)
               /\ addrCount <= WordTarget(req)
               /\ ~busy => addrCount = 0

Served      == edge = "neg" /\ strobe /\ ~busy /\ ~parked
Outstanding == (strobe \/ stb) /\ ~Served  \* a beat may outlive a reset strobe

\* The bytes memory m holds at the address of access r.
LoadedBytes(m, r) ==
    [i \in Lane |-> IF i < Width(r.op)
                    THEN m[(r.addr + i) \div 4][(r.addr + i) % 4] ELSE 0]

\* When the wait ends, the value on O_data is the one in memory, whatever the
\* alignment and however often the video stalled the beats or reused the RAM's
\* output register in between (bus/tests/wishbone32_tb.v, "read between words":
\* the two halves of an unaligned load are the bytes of the two words).
LoadReturnsMemory ==
    Served /\ ~IsStore(req.op)
        => Extend(lastOp, buffer) = Extend(req.op, LoadedBytes(mem, req))

\* While the RAM stalls a beat the master keeps it on the bus unchanged
\* (the adapter tests I_wb_stall in two places that must agree).
StalledBeatHeld ==
    [][edge = "pos" /\ Stall /\ strobe => UNCHANGED <<stb, we, adr, sel, dat>>]_vars

\* A requested access is served, unless a reset drops it: the RAM gives the
\* CPU its turn between video requests and no beat is forgotten.
EveryAccessServed == Outstanding ~> (Served \/ rst > 0)

-----------------------------------------------------------------------------
(* Refinement: a store takes effect in the abstract memory when it is asked *)
(* for, so the abstract memory is the RAM with the store in flight applied. *)

AbstractMemory ==
    [a \in Addr |-> IF Outstanding /\ IsStore(req.op) /\ a \in Footprint(req)
                    THEN req.data[a - req.addr] ELSE mem[a \div 4][a % 4]]

AbstractResult ==
    IF (Served /\ ~IsStore(req.op)) \/ (edge = "pos" /\ capture) THEN Extend(lastOp, buffer) ELSE result

Abstract == INSTANCE ByteMemory
              WITH memory  <- AbstractMemory,
                   pending <- IF Outstanding THEN req ELSE None,
                   result  <- AbstractResult,
                   resetting <- rst > 0

\* The adapter and the shared RAM are the memory the CPU is promised
\* (ByteMemory): stores take effect once and touch no other byte, loads
\* return what was stored, one access at a time.
ImplementsByteMemory == Abstract!Spec
=============================================================================
