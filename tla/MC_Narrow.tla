----------------------------- MODULE MC_Narrow ------------------------------
(***************************************************************************)
(* The two memories of the boards whose RAM is narrower than a word: the    *)
(* byte-wide bus of Wishbone8 and the 16-bit path of Memory16, below the    *)
(* same CPU port.  A behaviour is of the one or of the other board; what    *)
(* the other adapter has of its own rests.  The RAM of five bytes lets      *)
(* four-byte accesses overlap, that of six lets an unaligned one span       *)
(* three 16-bit words.                                                      *)
(***************************************************************************)
EXTENDS CpuPort

CONSTANTS ByteRam, WordRam,     \* bytes of RAM of the one board and of the other
          ByteInit, WordInit,   \* their contents at power-up
          Junk                  \* what idle data pins carry

VARIABLES board, mem, sample, ack,
          stb, we, adr, dat, ackcnt, addrcnt, pulse, chipAdr, chipDat,
          wordcnt, requestpause, stall, pinAdr, pinDat, pinLanes, pinWe

byteVars == <<stb, we, adr, dat, ackcnt, addrcnt, pulse, chipAdr, chipDat>>
wordVars == <<wordcnt, requestpause, stall, pinAdr, pinDat, pinLanes, pinWe>>
vars == <<board, edge, rst, vgaRun, cpuVars, unitVars, busy, buffer, mem, sample, ack,
          byteVars, wordVars>>

Start(size) == [a \in 0 .. size - 1 |-> 10 + a + (IF a % 2 = 1 THEN 128 ELSE 0)]
MCByteInit == Start(ByteRam)
MCWordInit == Start(WordRam)
MCStoreData == {[l \in Lane |-> <<201, 42, 203, 44>>[l + 1]]}
\* Any operation, after a load or a store of different widths.
MCMayIssue == [n \in 1..MaxAccesses |->
                 IF n < MaxAccesses THEN {"READH", "WRITEW"} ELSE BusOp]

B == INSTANCE Wishbone8 WITH NumBytes <- ByteRam, InitMem <- ByteInit
H == INSTANCE Memory16  WITH NumBytes <- WordRam, InitMem <- WordInit

ASSUME NarrowAssumption == B!SizeAssumption /\ H!SizeAssumption /\ H!ResetAssumption

\* "No access is pending" is no access.
ASSUME NoneAssumption == None \notin Access(B!Addr \cup H!Addr, Word)

Init ==
    \/ /\ board = "bytes" /\ B!Init
       /\ wordcnt = 0 /\ requestpause = FALSE /\ stall = FALSE /\ pinAdr = 0
       /\ pinDat = <<>> /\ pinLanes = {} /\ pinWe = FALSE
    \/ /\ board = "words" /\ H!Init
       /\ stb = FALSE /\ we = FALSE /\ adr = 0 /\ dat = 0 /\ ackcnt = 0 /\ addrcnt = 0
       /\ pulse = "none" /\ chipAdr = 0 /\ chipDat = 0

Next == /\ UNCHANGED board
        /\ \/ board = "bytes" /\ B!Next /\ UNCHANGED wordVars
           \/ board = "words" /\ H!Next /\ UNCHANGED byteVars

Spec == Init /\ [][Next]_vars /\ WF_vars(Next)
-----------------------------------------------------------------------------
\* Answers stay matched to requests: the two counters of wishbone8.v count the
\* same bytes, and the acknowledge code of the 16-bit path is always of the
\* word the CPU is at, whatever stall or reset comes between.
AnswersMatch ==
    IF board = "bytes" THEN B!TypeOK /\ B!BeatsAccounted
                       ELSE H!TypeOK /\ H!AckBelongsToRequest

\* Either path is the memory the CPU is promised: a store of several separate
\* writes is one atomic store to the CPU.
ImplementsByteMemory ==
    /\ IF board = "bytes" THEN B!Abstract!Init ELSE H!Abstract!Init
    /\ [][IF board = "bytes" THEN [B!Abstract!Next]_(B!Abstract!vars)
                             ELSE [H!Abstract!Next]_(H!Abstract!vars)]_vars

\* A requested access is served, unless a reset drops it.
EveryAccessServed ==
    (IF board = "bytes" THEN B!Outstanding ELSE H!Outstanding) ~>
    (rst > 0 \/ IF board = "bytes" THEN B!Served ELSE H!Served)
=============================================================================
