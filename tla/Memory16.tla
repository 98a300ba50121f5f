------------------------------- MODULE Memory16 -------------------------------
(***************************************************************************)
(* The direct memory path of the hx8k-breakout-sram16 board (its FASTMEM   *)
(* option): the adapter spu32_bus_memory16 (bus/memory16.v), which splits  *)
(* an access into one to three 16-bit words, and the SRAM controller       *)
(* sram256kx16_membus_vga_ice40, which returns the code of each request as *)
(* its acknowledge together with a stall flag when the video took the turn.*)
(*                                                                         *)
(* Unlike the Wishbone masters the adapter works on both clock edges: it    *)
(* fills its buffer on the rising one and moves to the next word on the    *)
(* falling one, at which the CPU changes its request too.                  *)
(***************************************************************************)
EXTENDS CpuPort

CONSTANTS NumBytes,     \* bytes of RAM, an even number
          InitMem,      \* RAM contents at power-up
          Junk          \* what the data pins carry when the CPU reads nothing

SizeAssumption ==
    /\ NumBytes \in Nat \ {0} /\ NumBytes % 2 = 0
    /\ InitMem \in [0 .. NumBytes - 1 -> Byte]
    /\ StoreData \subseteq Word
    /\ Junk \in Byte
\* A reset outlasts any run of video claims (2047 clocks against two).
ResetAssumption == ResetCycles >= MaxVgaRun + 2

Addr     == 0 .. NumBytes - 1
Half     == 0..1                        \* the byte lanes of a 16-bit word
WordAdr  == 0 .. NumBytes \div 2 - 1

Requests == {r \in Access(Addr, StoreData) : r.addr + Width(r.op) <= NumBytes}

VARIABLES
    (* adapter *)
    wordcnt, requestpause,
    (* SRAM controller: the acknowledge and the registered pins *)
    ack, stall, pinAdr, pinDat, pinLanes, pinWe, sample,
    mem         \* the chip

adapterVars == <<busy, buffer>>
ramVars     == <<ack, stall, pinAdr, pinDat, pinLanes, pinWe>>
vars == <<edge, rst, vgaRun, cpuVars, unitVars, adapterVars,
          wordcnt, requestpause, ramVars, sample, mem>>
-----------------------------------------------------------------------------
(* Requests to the SRAM.  A code such as HALF_U_0 or FULL_A_1 names the      *)
(* width of the access, whether it starts at an odd address, and the number *)
(* of the word within it; bit 3 says that more words follow.                *)

NoRequest == [width |-> 0, odd |-> 0, n |-> 0]

WordCount(c) == (c.odd + c.width - 1) \div 2 + 1
More(c)      == c.n + 1 < WordCount(c)

\* The code of word n of access r; no word is requested past its last.
Code(r, n) == LET c == [width |-> Width(r.op), odd |-> r.addr % 2, n |-> n]
              IN  IF n < WordCount(c) THEN c ELSE NoRequest

\* Mutant of Request: the acknowledge of the last word does not pause requests.
Request_Unpaused == IF strobe THEN Code(req, wordcnt) ELSE NoRequest

Request == IF requestpause \/ ~strobe THEN NoRequest ELSE Code(req, wordcnt)

\* Byte i of an access is in lane LaneOf of word WordOf.
WordOf(c, i) == (c.odd + i) \div 2
LaneOf(c, i) == (c.odd + i) % 2

\* byte_enables
Enables(c) == {LaneOf(c, i) : i \in {j \in Lane : j < c.width /\ WordOf(c, j) = c.n}}

\* outdat: byte lane l carries the byte of the store data that belongs there.
Outdat(r, n) ==
    [l \in Half |-> LET i == 2 * n + l - (r.addr % 2)
                    IN  r.data[IF i \in Lane THEN i ELSE 0]]

\* The buffer once the word answering c has arrived.
Filled(buf, c, w) ==
    [i \in Lane |-> IF i < c.width /\ WordOf(c, i) = c.n THEN w[LaneOf(c, i)] ELSE buf[i]]

LastAck == ack # NoRequest /\ ~More(ack) /\ ~stall
-----------------------------------------------------------------------------
JunkHalf == [l \in Half |-> Junk]

Init ==
    /\ InitPort
    /\ wordcnt = 0 /\ requestpause = TRUE
    /\ ack = NoRequest /\ stall = FALSE
    /\ pinAdr = 0 /\ pinDat = JunkHalf /\ pinLanes = {} /\ pinWe = FALSE
    /\ sample = JunkHalf
    /\ mem = InitMem

\* The adapter at the falling edge.
WordCounter ==
    wordcnt' = IF stall THEN wordcnt ELSE IF More(ack) THEN (wordcnt + 1) % 4 ELSE 0

\* The chip: written and read while its byte strobes are low, from a quarter
\* to three quarters of the clock, its data pins sampled at the falling edge.
Chip ==
    /\ mem' = [a \in Addr |-> IF pinWe /\ a \div 2 = pinAdr /\ a % 2 \in pinLanes
                              THEN pinDat[a % 2] ELSE mem[a]]
    /\ sample' = [l \in Half |-> IF ~pinWe /\ l \in pinLanes
                                 THEN mem[2 * pinAdr + l] ELSE Junk]

Negedge ==
    /\ edge = "neg" /\ edge' = "pos"
    /\ parked' = (rst > 0)
    /\ Reissue \/ Rest \/ Park \/ \E r \in Requests : Issue(r)
    /\ WordCounter
    /\ requestpause' = LastAck
    /\ Chip
    /\ UNCHANGED <<rst, vgaRun, unitVars, adapterVars, ramVars>>

\* The adapter at the rising edge: the word is buffered even if it is stalled,
\* its repetition overwrites it.
Adapter ==
    /\ busy' = (strobe /\ ~LastAck)
    /\ buffer' = IF strobe THEN Filled(buffer, ack, sample) ELSE buffer

\* The SRAM controller at the same edge.  The word the video reads in its turn
\* is of no interest here: the CPU's lanes are off then.
Controller ==
    /\ ack' = Request
    /\ stall' = VgaReq
    /\ pinWe' = (Request # NoRequest /\ ~VgaReq /\ IsStore(req.op))
    /\ pinLanes' = IF VgaReq THEN {} ELSE Enables(Request)
    /\ pinAdr' = IF Request # NoRequest THEN req.addr \div 2 + wordcnt ELSE pinAdr
    /\ pinDat' = Outdat(req, wordcnt)

Posedge ==
    /\ edge = "pos" /\ edge' = "neg"
    /\ Adapter /\ Controller /\ BusUnit /\ Disturb
    /\ UNCHANGED <<cpuVars, wordcnt, requestpause, sample, mem>>

Next == Negedge \/ Posedge

Spec == Init /\ [][Next]_vars

FairSpec == Spec /\ WF_vars(Next)
-----------------------------------------------------------------------------
Codes == {NoRequest} \cup [width : {1, 2, 4}, odd : 0..1, n : 0..2]

TypeOK ==
    /\ edge \in {"pos", "neg"} /\ rst \in 0..ResetCycles /\ vgaRun \in 0..MaxVgaRun
    /\ strobe \in BOOLEAN /\ parked \in BOOLEAN /\ capture \in BOOLEAN
    /\ issued \in 0..MaxAccesses
    /\ req \in Access(Addr, Word) /\ req.addr + Width(req.op) <= NumBytes
    /\ lastOp \in BusOp /\ result \in Word
    /\ busy \in BOOLEAN /\ buffer \in Word
    /\ wordcnt \in 0..2 /\ requestpause \in BOOLEAN
    /\ ack \in Codes /\ stall \in BOOLEAN
    /\ pinAdr \in WordAdr /\ pinDat \in [Half -> Byte] /\ pinLanes \subseteq Half
    /\ pinWe \in BOOLEAN /\ sample \in [Half -> Byte]
    /\ mem \in [Addr -> Byte]

\* An acknowledge always answers the access the CPU has on the bus, and on the
\* falling edge the very word it is at: the code travels through the SRAM
\* controller for a clock, and between two accesses only requestpause keeps the
\* last word from being asked for once more and answered into the next access.
\* After a reset the counter is back at the first word.
AckBelongsToRequest ==
    rst = 0 =>
        /\ ack # NoRequest => /\ strobe /\ busy
                              /\ ack = Code(req, ack.n)
                              /\ edge = "neg" => ack.n = wordcnt
        /\ ~busy /\ edge = "pos" => wordcnt = 0

Served      == edge = "neg" /\ strobe /\ ~busy /\ ~parked
Outstanding == strobe /\ ~Served

\* A requested access is served, unless a reset drops it.
EveryAccessServed == Outstanding ~> (Served \/ rst > 0)
-----------------------------------------------------------------------------
\* A store takes effect in the abstract memory when it is asked for; a word of
\* it on the pins when a reset withdraws the request is still written.
AbstractMemory ==
    [a \in Addr |-> IF Outstanding /\ IsStore(req.op) /\ a \in Footprint(req)
                    THEN req.data[a - req.addr]
                    ELSE IF edge = "neg" /\ pinWe /\ a \div 2 = pinAdr /\ a % 2 \in pinLanes
                    THEN pinDat[a % 2] ELSE mem[a]]

AbstractResult ==
    IF (Served /\ ~IsStore(req.op)) \/ (edge = "pos" /\ capture)
    THEN Extend(lastOp, buffer) ELSE result

Abstract == INSTANCE ByteMemory
              WITH memory  <- AbstractMemory,
                   pending <- IF Outstanding THEN req ELSE None,
                   result  <- AbstractResult,
                   resetting <- rst > 0

\* The 16-bit path is the memory the CPU is promised.
ImplementsByteMemory == Abstract!Spec
=============================================================================
