----------------------------- MODULE Narrow_proofs -----------------------------
(***************************************************************************)
(* The two memories narrower than a word, for every RAM size, any length   *)
(* of the video's claims, any number of accesses and a reset at any moment:*)
(* answers stay matched to requests, and each board is the memory the CPU  *)
(* is promised (ByteMemory).                                               *)
(***************************************************************************)
EXTENDS MC_Narrow, TLAPS

-----------------------------------------------------------------------------
(* The board with the byte-wide bus.  A reset is followed clock by clock    *)
(* down to an idle bus, as on the 32-bit bus; the RAM adds a stage of its   *)
(* own, the half-clock pulse between a beat and its acknowledge.            *)

ByteReset ==
    /\ (edge = "pos" /\ rst > 0) \/ rst \in 1 .. ResetCycles - 1 => parked
    /\ addrcnt <= B!Target
    /\ parked /\ rst < ResetCycles => addrcnt = 0 /\ ackcnt = 0
    /\ parked /\ rst < ResetCycles /\ edge = "pos" => ~strobe
    /\ parked /\ rst <= ResetCycles - 2 => ~strobe /\ ~busy /\ ~stb
    /\ parked /\ rst <= ResetCycles - 3 => ~ack

\* The pulse of a beat is on the chip's pins while its acknowledge comes up.
BytePulse == IF edge = "pos" THEN pulse = "none"
             ELSE ack <=> pulse \in {"read", "write"}

ByteBeats ==
    ~parked => /\ addrcnt = ackcnt + B!Count(ack) + B!Count(stb)
               /\ ~busy => addrcnt = 0
               /\ ~strobe => ~busy

ByteInv == B!TypeOK /\ ByteReset /\ BytePulse /\ ByteBeats

LEMMA ByteWidth == \A op : B!Width(op) \in 1..4
BY DEF B!Width

LEMMA ByteSizes == B!SizeAssumption /\ BoundAssumption
BY NarrowAssumption, BoundAssumption

LEMMA ByteInit_ == B!Init => ByteInv
<1> SUFFICES ASSUME B!Init PROVE ByteInv
  OBVIOUS
<1> USE ByteSizes DEF B!SizeAssumption, BoundAssumption
<1>1. B!ZeroWord \in B!Word /\ 0 \in B!Addr
  BY DEF B!ZeroWord, B!Word, B!Byte, B!Addr
<1>2. B!TypeOK
  <2>1. req \in B!Access(B!Addr, B!Word) /\ req.addr + B!Width(req.op) <= ByteRam
    BY <1>1 DEF B!Init, B!InitPort, B!Access, B!BusOp, B!Width
  <2>2. mem \in [B!Addr -> B!Byte]
    BY DEF B!Init, B!Addr
  <2>3. /\ edge \in {"pos", "neg"} /\ rst \in 0..ResetCycles /\ vgaRun \in 0..MaxVgaRun
        /\ issued \in 0..MaxAccesses /\ ackcnt \in 0..7 /\ addrcnt \in 0..7
        /\ adr \in B!Addr /\ chipAdr \in B!Addr /\ lastOp \in B!BusOp
        /\ dat \in B!Byte /\ chipDat \in B!Byte /\ sample \in B!Byte
        /\ pulse \in {"none", "read", "write", "vga"}
    BY <1>1 DEF B!Init, B!InitPort, B!BusOp, B!Byte
  <2>4. /\ strobe \in BOOLEAN /\ parked \in BOOLEAN /\ capture \in BOOLEAN
        /\ busy \in BOOLEAN /\ stb \in BOOLEAN /\ we \in BOOLEAN /\ ack \in BOOLEAN
        /\ buffer \in B!Word /\ result \in B!Word
    BY <1>1, Zenon DEF B!Init, B!InitPort
  <2> QED BY <2>1, <2>2, <2>3, <2>4, Zenon DEF B!TypeOK
<1>3. ByteReset
  BY ByteWidth DEF B!Init, B!InitPort, ByteReset, B!Target
<1>4. BytePulse /\ ByteBeats
  BY DEF B!Init, B!InitPort, BytePulse, ByteBeats, B!Count
<1> QED BY <1>2, <1>3, <1>4 DEF ByteInv

LEMMA ByteRequests ==
    ASSUME NEW r \in B!Requests
    PROVE  r \in B!Access(B!Addr, B!Word) /\ r.addr + B!Width(r.op) <= ByteRam
BY ByteSizes DEF B!SizeAssumption, B!Requests, B!Access

LEMMA ByteNegedge == ASSUME ByteInv, B!Negedge PROVE ByteInv'
<1> USE ByteSizes DEF B!SizeAssumption, BoundAssumption
<1>1. /\ edge = "neg" /\ edge' = "pos" /\ (parked' <=> rst > 0)
      /\ UNCHANGED <<rst, vgaRun, lastOp, result, busy, stb, we, adr, dat, ackcnt, addrcnt,
                     buffer, chipAdr, chipDat, ack>>
      /\ pulse' = "none"
  BY DEF B!Negedge, B!PulseEnds, B!unitVars, B!masterVars
<1>2. B!TypeOK
  BY DEF ByteInv
<1>3. B!TypeOK'
  <2>1. req' \in B!Access(B!Addr, B!Word) /\ req'.addr + B!Width(req'.op) <= ByteRam
    <3>1. CASE \E r \in B!Requests : B!Issue(r)
      BY <3>1, ByteRequests DEF B!Issue
    <3>2. CASE B!Reissue \/ B!Rest \/ B!Park
      BY <1>2, <3>2 DEF B!Reissue, B!Rest, B!Park, B!TypeOK
    <3> QED BY <3>1, <3>2 DEF B!Negedge
  <2>2. strobe' \in BOOLEAN /\ capture' \in BOOLEAN
    BY <1>2, Zenon DEF B!Negedge, B!Issue, B!Reissue, B!Rest, B!Park, B!ReadServed, B!TypeOK
  <2>3. issued' \in 0..MaxAccesses /\ parked' \in BOOLEAN
    BY <1>2 DEF B!Negedge, B!Issue, B!Reissue, B!Rest, B!Park, B!TypeOK
  <2>4. mem' \in [B!Addr -> B!Byte]
    BY <1>2 DEF B!Negedge, B!PulseEnds, B!TypeOK
  <2>5. sample' \in B!Byte
    BY <1>2 DEF B!Negedge, B!PulseEnds, B!TypeOK
  <2> QED BY <1>1, <1>2, <2>1, <2>2, <2>3, <2>4, <2>5 DEF B!TypeOK
<1>4. ByteReset'
  <2>1. ~parked => addrcnt' <= B!Target'
    BY <1>1, ByteWidth
       DEF B!Negedge, B!Reissue, B!Rest, B!Park, B!Issue, ByteInv, B!TypeOK, ByteReset,
           ByteBeats, B!Target
  <2>2. CASE parked
    <3>1. ~strobe' /\ req' = req
      BY <2>2 DEF B!Negedge, B!Reissue, B!Rest, B!Park, B!Issue
    <3> QED BY <1>1, <2>2, <3>1 DEF ByteInv, B!TypeOK, ByteReset, B!Target
  <2>3. CASE ~parked
    <3>1. rst \in {0, ResetCycles}
      BY <1>1, <2>3 DEF ByteInv, B!TypeOK, ByteReset
    <3> QED BY <1>1, <2>1, <2>3, <3>1 DEF ByteReset
  <2> QED BY <2>2, <2>3, <1>2 DEF B!TypeOK
<1>5. BytePulse'
  BY <1>1 DEF BytePulse
<1>6. ByteBeats'
  BY <1>1 DEF B!Negedge, B!Reissue, B!Rest, B!Park, B!Issue, ByteInv, B!TypeOK, ByteReset,
     ByteBeats, B!Count
<1> QED BY <1>3, <1>4, <1>5, <1>6 DEF ByteInv

LEMMA ByteExtend ==
    ASSUME NEW op \in B!BusOp, NEW buf \in B!Word
    PROVE  B!Extend(op, buf) \in B!Word
<1>1. \A b : B!SignFill(b) \in B!Byte
  BY DEF B!SignFill, B!Byte
<1>2. 0 \in B!Byte /\ 0 \in B!Lane /\ 1 \in B!Lane
  BY DEF B!Byte, B!Lane
<1>3. CASE op \in {"READB", "READBU"}
  BY <1>1, <1>2, <1>3 DEF B!Extend, B!Word
<1>4. CASE op \in {"READH", "READHU"}
  BY <1>1, <1>2, <1>4 DEF B!Extend, B!Word
<1>5. CASE op \in {"READW", "WRITEB", "WRITEH", "WRITEW"}
  BY <1>5 DEF B!Extend
<1> QED BY <1>3, <1>4, <1>5 DEF B!BusOp

\* What a rising edge does to the counters of an access no reset has cut.
LEMMA ByteCounters ==
    ASSUME ByteInv, B!Posedge, ~parked
    PROVE  /\ addrcnt' = IF B!Complete THEN 0
                         ELSE IF B!NextBeat THEN addrcnt + 1 ELSE addrcnt
           /\ ackcnt' = IF B!Complete THEN 0
                        ELSE IF B!Acked THEN ackcnt + 1 ELSE ackcnt
           /\ strobe => /\ addrcnt = ackcnt + B!Count(ack) + B!Count(stb)
                        /\ B!Acked <=> ack
                        /\ B!Complete <=> ack /\ ackcnt + 1 = B!Target
           /\ ~strobe => addrcnt = 0 /\ ackcnt = 0 /\ ~stb /\ ~ack
<1>1. /\ edge = "pos" /\ rst = 0 /\ B!Target \in 1..4 /\ addrcnt <= B!Target
      /\ addrcnt = ackcnt + B!Count(ack) + B!Count(stb)
      /\ addrcnt \in 0..7 /\ ackcnt \in 0..7
      /\ ~busy => addrcnt = 0
      /\ ~strobe => ~busy
  BY ByteWidth, ByteSizes
     DEF B!Posedge, ByteInv, B!TypeOK, ByteReset, ByteBeats, B!Target, BoundAssumption
<1>2. \A b : B!Count(b) = IF b THEN 1 ELSE 0
  BY DEF B!Count
<1>3. ack => ackcnt # B!Target
  BY <1>1 DEF B!Count
<1>4. (addrcnt + 1) % 8 = addrcnt + 1 /\ (ackcnt + 1) % 8 = ackcnt + 1
  BY <1>1, <1>2
<1>5. strobe => (B!Acked <=> ack) /\ (B!Complete <=> ack /\ ackcnt + 1 = B!Target)
  BY <1>3, <1>4 DEF B!Acked, B!Complete
<1>6. /\ addrcnt' = IF rst > 0 \/ B!Complete THEN 0
                    ELSE IF B!NextBeat THEN (addrcnt + 1) % 8 ELSE addrcnt
      /\ ackcnt' = IF rst > 0 \/ B!Complete THEN 0
                   ELSE IF B!Acked THEN (ackcnt + 1) % 8 ELSE ackcnt
  BY DEF B!Posedge, B!Master
<1>7. ~(rst > 0)
  BY <1>1
<1>8. ~strobe => addrcnt = 0 /\ ackcnt = 0 /\ ~stb /\ ~ack
  BY <1>1, <1>2
<1> QED BY <1>1, <1>4, <1>5, <1>6, <1>7, <1>8

LEMMA BytePosedge == ASSUME ByteInv, B!Posedge PROVE ByteInv'
<1> USE ByteSizes DEF B!SizeAssumption, BoundAssumption
<1>1. /\ edge = "pos" /\ edge' = "neg"
      /\ UNCHANGED <<strobe, req, parked, capture, issued, mem, sample>>
      /\ rst' \in {ResetCycles, IF rst > 0 THEN rst - 1 ELSE 0}
      /\ (busy' <=> strobe /\ ~B!Complete)
      /\ (stb' <=> strobe /\ (addrcnt # B!Target \/ B!Stall))
      /\ (ack' <=> stb /\ ~B!VgaReq)
  BY DEF B!Posedge, B!Master, B!Ram, B!Disturb, B!cpuVars, B!Strobe
<1>2. B!TypeOK /\ B!Target \in 1..4 /\ ByteReset /\ BytePulse /\ ByteBeats
  BY ByteWidth DEF ByteInv, B!Target
<1>3. rst \in 0..ResetCycles /\ addrcnt \in 0..7 /\ ackcnt \in 0..7
  BY <1>2 DEF B!TypeOK
<1>4. /\ addrcnt' = IF rst > 0 \/ B!Complete THEN 0
                    ELSE IF B!NextBeat THEN (addrcnt + 1) % 8 ELSE addrcnt
      /\ ackcnt' = IF rst > 0 \/ B!Complete THEN 0
                   ELSE IF B!Acked THEN (ackcnt + 1) % 8 ELSE ackcnt
  BY DEF B!Posedge, B!Master
<1>5. B!TypeOK'
  <2>1. edge' \in {"pos", "neg"} /\ rst' \in 0..ResetCycles /\ vgaRun' \in 0..MaxVgaRun
    BY <1>1, <1>2 DEF B!Posedge, B!Disturb, B!TypeOK
  <2>2. /\ strobe' \in BOOLEAN /\ parked' \in BOOLEAN /\ capture' \in BOOLEAN
        /\ issued' \in 0..MaxAccesses /\ req' \in B!Access(B!Addr, B!Word)
        /\ req'.addr + B!Width(req'.op) <= ByteRam
        /\ mem' \in [B!Addr -> B!Byte] /\ sample' \in B!Byte
    BY <1>1, <1>2, Zenon DEF B!TypeOK
  <2>3. busy' \in BOOLEAN /\ stb' \in BOOLEAN /\ we' \in BOOLEAN /\ ack' \in BOOLEAN
    BY Zenon DEF B!Posedge, B!Master, B!Ram, B!Strobe
  <2>4. adr' \in B!Addr /\ dat' \in B!Byte
    <3>1. CASE B!NextBeat
      <4>1. addrcnt \in 0 .. B!Width(req.op) - 1
        BY <3>1, <1>2, <1>3 DEF B!NextBeat, ByteReset, B!Target
      <4>2. req.addr \in 0 .. ByteRam - 1 /\ req.addr + B!Width(req.op) <= ByteRam
            /\ req.data \in B!Word
        BY <1>2 DEF B!TypeOK, B!Access, B!Addr
      <4>3. adr' = req.addr + addrcnt /\ dat' = req.data[addrcnt % 4]
        BY <3>1 DEF B!Posedge, B!Master, B!Beat
      <4>4. req.data[addrcnt % 4] \in B!Byte
        BY <4>1, <4>2 DEF B!Word, B!Lane
      <4> QED BY <4>1, <4>2, <4>3, <4>4, <1>2 DEF B!Addr, B!Target
    <3>2. CASE ~B!NextBeat
      BY <1>2, <3>2 DEF B!Posedge, B!Master, B!TypeOK
    <3> QED BY <3>1, <3>2
  <2>5. ackcnt' \in 0..7 /\ addrcnt' \in 0..7
    BY <1>3, <1>4
  <2>6. buffer' \in B!Word
    BY <1>2 DEF B!Posedge, B!Master, B!TypeOK, B!Word
  <2>7. /\ pulse' \in {"none", "read", "write", "vga"} /\ chipAdr' \in B!Addr
        /\ chipDat' \in B!Byte
    BY <1>2 DEF B!Posedge, B!Ram, B!TypeOK
  <2>8. lastOp' \in B!BusOp /\ result' \in B!Word
    BY <1>2, ByteExtend DEF B!Posedge, B!BusUnit, B!TypeOK, B!Access
  <2> QED BY <2>1, <2>2, <2>3, <2>4, <2>5, <2>6, <2>7, <2>8, Zenon DEF B!TypeOK
<1>6. ByteReset'
  <2>1. addrcnt' <= B!Target /\ B!Target' = B!Target
    BY <1>1, <1>2, <1>3, <1>4 DEF ByteReset, B!NextBeat, B!Target
  <2>2. CASE ~parked
    <3>1. rst = 0 /\ rst' \in {0, ResetCycles}
      BY <1>1, <1>2, <1>3, <2>2 DEF ByteReset
    <3> QED BY <1>1, <2>1, <2>2, <3>1 DEF ByteReset
  <2>3. CASE parked
    <3>1. rst > 0 => addrcnt' = 0 /\ ackcnt' = 0
      BY <1>3, <1>4
    <3>2. rst = 0 => ~strobe /\ ~busy /\ ~stb /\ ~ack /\ addrcnt = 0 /\ ackcnt = 0
      BY <1>2, <2>3 DEF ByteReset
    <3>3. ~strobe => /\ ~busy' /\ ~stb'
                     /\ addrcnt' \in {0, addrcnt} /\ ackcnt' \in {0, ackcnt}
      BY <1>1, <1>4 DEF B!Complete, B!Acked, B!NextBeat
    <3>4. ~stb => ~ack'
      BY <1>1
    <3>5. rst' < ResetCycles => addrcnt' = 0 /\ ackcnt' = 0
      BY <3>1, <3>2, <3>3, <1>3
    <3>6. rst' <= ResetCycles - 2 => ~strobe' /\ ~busy' /\ ~stb'
      <4>1. rst' <= ResetCycles - 2 => ~strobe
        BY <1>1, <1>2, <1>3, <2>3 DEF ByteReset
      <4> QED BY <4>1, <3>3, <1>1
    <3>7. rst' <= ResetCycles - 3 => ~ack'
      <4>1. rst' <= ResetCycles - 3 => ~stb
        BY <1>1, <1>2, <1>3, <2>3 DEF ByteReset
      <4> QED BY <4>1, <3>4
    <3> QED BY <1>1, <2>1, <2>3, <3>5, <3>6, <3>7 DEF ByteReset
  <2> QED BY <2>2, <2>3
<1>7. BytePulse'
  BY <1>1 DEF BytePulse, B!Posedge, B!Ram
<1>8. ByteBeats'
  <2> SUFFICES ASSUME ~parked
               PROVE  /\ addrcnt' = ackcnt' + B!Count(ack') + B!Count(stb')
                      /\ ~busy' => addrcnt' = 0
                      /\ ~strobe => ~busy'
    BY <1>1 DEF ByteBeats
  <2>1. /\ addrcnt' = IF B!Complete THEN 0
                      ELSE IF B!NextBeat THEN addrcnt + 1 ELSE addrcnt
        /\ ackcnt' = IF B!Complete THEN 0
                     ELSE IF B!Acked THEN ackcnt + 1 ELSE ackcnt
        /\ addrcnt <= B!Target
    BY <1>2, ByteCounters DEF ByteReset
  <2>2. \A b : B!Count(b) = IF b THEN 1 ELSE 0
    BY DEF B!Count
  <2>3. CASE ~strobe
    <3>1. addrcnt = 0 /\ ackcnt = 0 /\ ~stb /\ ~ack
      BY <2>3, ByteCounters
    <3>2. ~busy' /\ ~stb' /\ ~ack' /\ addrcnt' = 0 /\ ackcnt' = 0
      BY <2>1, <2>3, <3>1, <1>1 DEF B!Complete, B!Acked, B!NextBeat
    <3> QED BY <2>2, <3>2
  <2>4. CASE strobe
    <3>1. /\ addrcnt = ackcnt + B!Count(ack) + B!Count(stb)
          /\ B!Acked <=> ack
          /\ B!Complete <=> ack /\ ackcnt + 1 = B!Target
      BY <2>4, ByteCounters
    <3>2. CASE B!Complete
      <4>1. addrcnt = B!Target /\ ~stb
        BY <1>2, <1>3, <2>1, <3>1, <3>2 DEF B!Count
      <4>2. ~stb' /\ ~ack' /\ addrcnt' = 0 /\ ackcnt' = 0
        BY <1>1, <2>1, <3>2, <4>1 DEF B!Stall
      <4> QED BY <2>2, <2>4, <4>2, <1>1
    <3>3. CASE ~B!Complete /\ B!NextBeat
      <4>1. busy' /\ stb' /\ (ack' <=> stb) /\ addrcnt' = addrcnt + 1
        BY <1>1, <2>1, <2>4, <3>3 DEF B!NextBeat, B!Stall
      <4>2. ackcnt' = ackcnt + B!Count(ack)
        BY <1>3, <2>1, <2>2, <3>1, <3>3
      <4> QED BY <1>3, <2>2, <2>4, <3>1, <4>1, <4>2
    <3>4. CASE ~B!Complete /\ ~B!NextBeat
      <4>1. busy' /\ addrcnt' = addrcnt /\ ackcnt' = ackcnt + B!Count(ack)
        BY <1>1, <1>3, <2>1, <2>2, <2>4, <3>1, <3>4
      <4>2. CASE B!Stall
        <5>1. stb /\ stb' /\ ~ack'
          BY <1>1, <2>4, <4>2 DEF B!Stall
        <5>2. B!Count(stb) = 1 /\ B!Count(stb') = 1 /\ B!Count(ack') = 0
          BY <5>1 DEF B!Count
        <5> QED BY <1>3, <2>4, <3>1, <4>1, <5>2
      <4>3. CASE ~B!Stall
        <5>1. addrcnt = B!Target
          BY <1>3, <2>1, <2>2, <2>4, <3>1, <3>4, <4>3 DEF B!NextBeat
        <5>2. ~stb' /\ (ack' <=> stb)
          BY <1>1, <4>3, <5>1 DEF B!Stall
        <5> QED BY <1>3, <2>2, <2>4, <3>1, <4>1, <5>2
      <4> QED BY <4>2, <4>3
    <3> QED BY <3>2, <3>3, <3>4
  <2> QED BY <2>3, <2>4
<1> QED BY <1>5, <1>6, <1>7, <1>8 DEF ByteInv

LEMMA ByteAccounted == ByteInv => B!TypeOK /\ B!BeatsAccounted
<1> SUFFICES ASSUME ByteInv, rst = 0
             PROVE  /\ addrcnt = ackcnt + B!Count(ack) + B!Count(stb)
                    /\ addrcnt <= B!Target
                    /\ ~busy => addrcnt = 0
  BY DEF ByteInv, B!BeatsAccounted
<1>1. CASE parked
  <2>1. addrcnt = 0 /\ ackcnt = 0 /\ ~stb /\ ~ack
    BY <1>1, ByteSizes DEF ByteInv, ByteReset, BoundAssumption
  <2> QED BY <2>1 DEF ByteInv, ByteReset, B!Count
<1>2. CASE ~parked
  BY <1>2 DEF ByteInv, ByteReset, ByteBeats
<1> QED BY <1>1, <1>2
-----------------------------------------------------------------------------
(* What the byte beats carry.  The byte on the bus is one of the access's,  *)
(* in an access no reset has cut the last one sent; a byte the RAM is       *)
(* writing counts as written.                                               *)

ByteIndex == 0 .. B!Width(req.op) - 1

ByteOnBus(n) == adr = req.addr + n /\ dat = req.data[n]

ByteSeen(a) == IF pulse = "write" /\ chipAdr = a THEN chipDat ELSE mem[a]

\* The beats the RAM has taken.
ByteLanded == addrcnt - B!Count(stb)

ByteCounted == edge = "pos" /\ strobe => addrcnt = ackcnt + B!Count(ack) + B!Count(stb)

ByteBeat == stb => /\ we <=> B!IsStore(req.op)
                   /\ \E n \in ByteIndex : ByteOnBus(n) /\ (~parked => n = addrcnt - 1)

ByteWriting == pulse = "write" =>
                  /\ B!IsStore(req.op)
                  /\ \E n \in ByteIndex : chipAdr = req.addr + n /\ chipDat = req.data[n]

ByteStored ==
    ~parked /\ strobe /\ B!IsStore(req.op) =>
        \A i \in ByteIndex : i < ByteLanded => ByteSeen(req.addr + i) = req.data[i]

ByteStoreInv == ByteCounted /\ ByteBeat /\ ByteWriting /\ ByteStored

ByteTaken == IF edge = "neg" /\ ~busy THEN 4 ELSE ackcnt

ByteLoadInv ==
    ~parked /\ strobe /\ ~B!IsStore(req.op) =>
      /\ ack => IF edge = "neg" THEN pulse = "read" /\ chipAdr = req.addr + ackcnt
                ELSE sample = mem[req.addr + ackcnt]
      /\ edge = "neg" => lastOp = req.op
      /\ \A i \in ByteIndex : i < ByteTaken => buffer[i] = mem[req.addr + i]

LEMMA ByteRange ==
    ASSUME ByteInv
    PROVE  /\ req.addr \in Nat /\ B!Width(req.op) \in 1..4 /\ B!Target = B!Width(req.op)
           /\ req.op \in B!BusOp /\ req.data \in B!Word
           /\ \A i \in ByteIndex : i \in B!Lane /\ req.addr + i \in B!Addr
           /\ B!Footprint(req) \subseteq B!Addr
           /\ \A a \in B!Footprint(req) : a - req.addr \in ByteIndex /\ req.addr + (a - req.addr) = a
<1>1. /\ req.addr \in 0 .. ByteRam - 1 /\ req.addr + B!Width(req.op) <= ByteRam
      /\ req.op \in B!BusOp /\ req.data \in B!Word /\ ByteRam \in Nat
  BY ByteSizes DEF ByteInv, B!TypeOK, B!Access, B!Addr, B!SizeAssumption
<1>2. B!Width(req.op) \in 1..4
  BY ByteWidth
<1>3. \A i \in ByteIndex : i \in B!Lane /\ req.addr + i \in B!Addr
  BY <1>1, <1>2 DEF ByteIndex, B!Lane, B!Addr
<1>4. \A a \in B!Footprint(req) :
        a \in B!Addr /\ a - req.addr \in ByteIndex /\ req.addr + (a - req.addr) = a
  BY <1>1, <1>2 DEF ByteIndex, B!Addr, B!Footprint
<1> QED BY <1>1, <1>2, <1>3, <1>4 DEF B!Target

\* A rising edge writes the byte on the bus or none.
LEMMA ByteWrites ==
    ASSUME ByteInv, ByteStoreInv, B!Posedge, NEW a \in B!Addr
    PROVE  IF stb /\ ~B!VgaReq /\ B!IsStore(req.op) /\ a = adr
           THEN ByteSeen(a)' = dat ELSE ByteSeen(a)' = ByteSeen(a)
<1>1. pulse = "none" /\ mem' = mem
  BY DEF B!Posedge, B!Ram, ByteInv, BytePulse
<1>2. pulse' = "write" <=> stb /\ ~B!VgaReq /\ B!IsStore(req.op)
  BY DEF B!Posedge, B!Ram, ByteStoreInv, ByteBeat
<1>3. stb /\ ~B!VgaReq => chipAdr' = adr /\ chipDat' = dat
  BY DEF B!Posedge, B!Ram
<1>4. ByteSeen(a) = mem[a]
  BY <1>1 DEF ByteSeen
<1>5. ByteSeen(a)' = IF pulse' = "write" /\ chipAdr' = a THEN chipDat' ELSE mem'[a]
  BY DEF ByteSeen
<1> QED BY <1>1, <1>2, <1>3, <1>4, <1>5

LEMMA ByteNegedgeSeen ==
    ASSUME ByteInv, B!Negedge, NEW a \in B!Addr
    PROVE  ByteSeen(a)' = ByteSeen(a) /\ mem'[a] = ByteSeen(a)
<1>1. pulse' = "none" /\ mem' = IF pulse = "write" THEN [mem EXCEPT ![chipAdr] = chipDat] ELSE mem
  BY DEF B!Negedge, B!PulseEnds
<1>2. mem \in [B!Addr -> B!Byte]
  BY DEF ByteInv, B!TypeOK
<1>3. mem'[a] = ByteSeen(a)
  BY <1>1, <1>2 DEF ByteSeen
<1>4. ByteSeen(a)' = IF pulse' = "write" /\ chipAdr' = a THEN chipDat' ELSE mem'[a]
  BY DEF ByteSeen
<1> QED BY <1>1, <1>3, <1>4

LEMMA ByteStoreNegedge == ASSUME ByteInv, ByteStoreInv, B!Negedge PROVE ByteStoreInv'
<1>1. /\ edge = "neg" /\ edge' = "pos" /\ (parked' <=> rst > 0) /\ pulse' = "none"
      /\ UNCHANGED <<stb, we, adr, dat, addrcnt, ackcnt, ack, busy>>
  BY DEF B!Negedge, B!PulseEnds, B!masterVars
<1>2. B!TypeOK /\ ByteBeats /\ ByteReset
  BY DEF ByteInv
<1>3. ByteWriting'
  BY <1>1 DEF ByteWriting
<1>4. ~parked /\ ~busy => ackcnt = 0 /\ addrcnt = 0 /\ ~stb /\ ~ack
  BY <1>2 DEF B!TypeOK, ByteBeats, B!Count
<1>5. CASE \E r \in B!Requests : B!Issue(r)
  <2>1. ~parked /\ ~busy
    BY <1>5 DEF B!Issue
  <2>2. ~stb' /\ ~ack' /\ addrcnt' = 0 /\ ackcnt' = 0
    BY <1>1, <1>4, <2>1
  <2>3. B!Count(stb') = 0 /\ B!Count(ack') = 0
    BY <2>2 DEF B!Count
  <2>4. ByteLanded' = 0
    BY <2>2, <2>3 DEF ByteLanded
  <2>5. \A i \in ByteIndex' : ~(i < 0)
    BY ByteWidth DEF ByteIndex
  <2>6. ByteCounted' /\ ByteBeat' /\ ByteStored'
    BY <2>2, <2>3, <2>4, <2>5 DEF ByteCounted, ByteBeat, ByteStored
  <2> QED BY <1>3, <2>6 DEF ByteStoreInv
<1>6. CASE B!Rest \/ B!Park
  <2>1. ~strobe' /\ req' = req
    BY <1>6 DEF B!Rest, B!Park
  <2>2. ByteBeat'
    <3>1. CASE B!Rest
      <4>1. ~stb'
        BY <1>1, <1>4, <3>1 DEF B!Rest
      <4> QED BY <4>1 DEF ByteBeat
    <3>2. CASE B!Park
      <4>1. parked
        BY <3>2 DEF B!Park
      <4>2. rst = 0 => ~stb
        BY <1>2, <4>1, ByteSizes DEF ByteReset, BoundAssumption
      <4>3. stb => parked'
        BY <1>1, <1>2, <4>2 DEF B!TypeOK
      <4> QED BY <1>1, <2>1, <4>3 DEF ByteStoreInv, ByteBeat, ByteOnBus, ByteIndex
    <3> QED BY <1>6, <3>1, <3>2
  <2> QED BY <1>3, <2>1, <2>2 DEF ByteStoreInv, ByteCounted, ByteStored
<1>7. CASE B!Reissue
  <2>1. ~parked /\ busy /\ UNCHANGED <<strobe, req>>
    BY <1>7 DEF B!Reissue
  <2>2. ByteCounted'
    BY <1>1, <1>2, <2>1 DEF ByteBeats, ByteCounted
  <2>3. ByteBeat'
    BY <1>1, <2>1 DEF ByteStoreInv, ByteBeat, ByteOnBus, ByteIndex
  <2>4. ByteStored'
    <3> SUFFICES ASSUME strobe, B!IsStore(req.op), NEW i \in ByteIndex, i < ByteLanded
                 PROVE  ByteSeen(req.addr + i)' = req.data[i]
      BY <1>1, <2>1 DEF ByteStored, ByteIndex, ByteLanded, ByteSeen
    <3>1. ByteSeen(req.addr + i) = req.data[i]
      BY <2>1 DEF ByteStoreInv, ByteStored
    <3>2. mem'[req.addr + i] = ByteSeen(req.addr + i)
      BY ByteRange, ByteNegedgeSeen
    <3> QED BY <1>1, <2>1, <3>1, <3>2 DEF ByteSeen
  <2> QED BY <1>3, <2>2, <2>3, <2>4 DEF ByteStoreInv
<1> QED BY <1>5, <1>6, <1>7 DEF B!Negedge

\* The beats an access no reset has cut has put into the RAM.
LEMMA ByteLanding ==
    ASSUME ByteInv, B!Posedge, ~parked, strobe
    PROVE  /\ stb => ByteLanded = addrcnt - 1
           /\ B!Complete => addrcnt = B!Target /\ ~stb /\ ByteLanded = B!Target
                            /\ ByteLanded' = 0 /\ ~stb'
           /\ ~B!Complete =>
                /\ addrcnt' = IF B!NextBeat THEN addrcnt + 1 ELSE addrcnt
                /\ ByteLanded' = IF stb /\ ~B!VgaReq THEN addrcnt ELSE ByteLanded
<1>1. /\ addrcnt' = IF B!Complete THEN 0 ELSE IF B!NextBeat THEN addrcnt + 1 ELSE addrcnt
      /\ addrcnt = ackcnt + B!Count(ack) + B!Count(stb)
      /\ B!Complete <=> ack /\ ackcnt + 1 = B!Target
      /\ addrcnt <= B!Target /\ addrcnt \in 0..7 /\ ackcnt \in 0..7 /\ B!Target \in 1..4
      /\ ByteInv'
  BY ByteCounters, ByteRange, BytePosedge DEF ByteInv, ByteReset, B!TypeOK
<1>2. stb' <=> addrcnt # B!Target \/ B!Stall
  BY DEF B!Posedge, B!Master, B!Strobe
<1>3. stb => ByteLanded = addrcnt - 1
  BY DEF ByteLanded, B!Count
<1>4. B!Complete => addrcnt = B!Target /\ ~stb
  BY <1>1 DEF B!Count
<1>5. B!Complete => ~stb'
  BY <1>2, <1>4 DEF B!Stall
<1>6. ~stb => ByteLanded = addrcnt
  BY <1>1 DEF ByteLanded, B!Count
<1>7. /\ stb' => ByteLanded' = addrcnt' - 1
      /\ ~stb' => ByteLanded' = addrcnt'
  BY <1>1 DEF ByteLanded, B!Count, ByteInv, B!TypeOK
<1>8. CASE B!Complete
  BY <1>1, <1>3, <1>4, <1>5, <1>6, <1>7, <1>8
<1>9. CASE ~B!Complete /\ B!NextBeat
  <2>1. stb' /\ addrcnt' = addrcnt + 1 /\ (stb => ~B!VgaReq)
    BY <1>1, <1>2, <1>9 DEF B!NextBeat, B!Stall
  <2>2. ByteLanded' = addrcnt
    BY <1>1, <1>7, <2>1
  <2> QED BY <1>3, <1>6, <1>9, <2>1, <2>2, <1>1
<1>10. CASE ~B!Complete /\ ~B!NextBeat
  <2>1. addrcnt' = addrcnt
    BY <1>1, <1>10
  <2>2. stb /\ B!VgaReq => stb'
    BY <1>2 DEF B!Stall
  <2>3. ~(stb /\ B!VgaReq) => addrcnt = B!Target /\ ~stb'
    <3> SUFFICES ASSUME ~B!Stall PROVE addrcnt = B!Target /\ ~stb'
      BY DEF B!Stall
    <3>1. ackcnt = B!Target \/ addrcnt = B!Target
      BY <1>10 DEF B!NextBeat
    <3>2. addrcnt = B!Target
      BY <1>1, <3>1 DEF B!Count
    <3> QED BY <1>2, <3>2
  <2> QED BY <1>1, <1>3, <1>6, <1>7, <1>10, <2>1, <2>2, <2>3
<1> QED BY <1>8, <1>9, <1>10

LEMMA ByteStorePosedge == ASSUME ByteInv, ByteStoreInv, B!Posedge PROVE ByteStoreInv'
<1>1. /\ edge = "pos" /\ edge' = "neg" /\ UNCHANGED <<strobe, req, parked>>
      /\ (stb' <=> strobe /\ (addrcnt # B!Target \/ B!Stall))
      /\ (we' <=> strobe /\ B!IsStore(req.op))
      /\ ByteIndex' = ByteIndex
  BY DEF B!Posedge, B!Master, B!Strobe, B!cpuVars, ByteIndex
<1>2. /\ addrcnt <= B!Target /\ addrcnt \in 0..7 /\ ackcnt \in 0..7
      /\ B!Target = B!Width(req.op) /\ B!Target \in 1..4
  BY ByteRange DEF ByteInv, B!TypeOK, ByteReset
<1>3. ByteCounted'
  BY <1>1 DEF ByteCounted
<1>4. ByteWriting'
  <2> SUFFICES ASSUME pulse' = "write"
               PROVE  /\ B!IsStore(req.op)
                      /\ \E n \in ByteIndex : chipAdr' = req.addr + n /\ chipDat' = req.data[n]
    BY <1>1 DEF ByteWriting
  <2>1. stb /\ we /\ chipAdr' = adr /\ chipDat' = dat
    BY DEF B!Posedge, B!Ram
  <2> QED BY <2>1 DEF ByteStoreInv, ByteBeat, ByteOnBus
<1>5. ByteBeat'
  <2> SUFFICES ASSUME stb'
               PROVE  \E n \in ByteIndex : ByteOnBus(n)' /\ (~parked => n = addrcnt' - 1)
    BY <1>1 DEF ByteBeat
  <2>1. strobe
    BY <1>1
  <2>2. CASE B!NextBeat
    <3>1. addrcnt \in ByteIndex /\ addrcnt % 4 = addrcnt
      BY <1>2, <2>2 DEF B!NextBeat, ByteIndex
    <3>3. adr' = req.addr + addrcnt /\ dat' = req.data[addrcnt]
      BY <2>2, <3>1 DEF B!Posedge, B!Master, B!Beat
    <3>4. ~parked => addrcnt = addrcnt' - 1
      BY <1>1, <1>2, <2>1, <2>2, ByteLanding
    <3> QED BY <1>1, <3>1, <3>3, <3>4 DEF ByteOnBus
  <2>3. CASE ~B!NextBeat
    <3>1. stb
      <4> SUFFICES ASSUME ~B!Stall PROVE stb
        BY DEF B!Stall
      <4>1. addrcnt # B!Target /\ ackcnt = B!Target
        BY <1>1, <2>3 DEF B!NextBeat
      <4>2. addrcnt = ackcnt + B!Count(ack) + B!Count(stb)
        BY <1>1, <2>1 DEF ByteStoreInv, ByteCounted
      <4> QED BY <4>1, <4>2, <1>2 DEF B!Count
    <3>2. ~parked => addrcnt' = addrcnt
      BY <1>1, <2>1, <2>3, ByteLanding
    <3>3. UNCHANGED <<adr, dat, req>>
      BY <1>1, <2>3 DEF B!Posedge, B!Master
    <3> QED BY <3>1, <3>2, <3>3 DEF ByteStoreInv, ByteBeat, ByteOnBus
  <2> QED BY <2>2, <2>3
<1>6. ByteStored'
  <2> SUFFICES ASSUME ~parked, strobe, B!IsStore(req.op), NEW i \in ByteIndex, i < ByteLanded'
               PROVE  ByteSeen(req.addr + i)' = req.data[i]
    BY <1>1 DEF ByteStored, ByteSeen
  <2>1. ~B!Complete
    BY ByteLanding DEF ByteIndex
  <2>2. req.addr + i \in B!Addr /\ req.addr \in Nat /\ i \in Nat
    BY ByteRange DEF ByteIndex
  <2>0. PICK a \in B!Addr : a = req.addr + i
    BY <2>2
  <2> SUFFICES ByteSeen(a)' = req.data[i]
    BY <1>1, <2>0 DEF ByteSeen
  <2>3. i < ByteLanded => ByteSeen(a) = req.data[i]
    BY <2>0 DEF ByteStoreInv, ByteStored
  <2>4. CASE stb /\ ~B!VgaReq
    <3>1. ByteOnBus(addrcnt - 1)
      BY <2>4 DEF ByteStoreInv, ByteBeat
    <3>2. IF a = adr THEN ByteSeen(a)' = dat ELSE ByteSeen(a)' = ByteSeen(a)
      BY <2>4, ByteWrites
    <3>3. ByteLanded = addrcnt - 1 /\ ByteLanded' = addrcnt
      BY <2>1, <2>4, ByteLanding
    <3>4. i < addrcnt - 1 \/ i = addrcnt - 1
      BY <1>2, <2>2, <3>3
    <3>5. a = adr <=> i = addrcnt - 1
      BY <1>2, <2>0, <2>2, <3>1 DEF ByteOnBus
    <3> QED BY <2>3, <3>1, <3>2, <3>3, <3>4, <3>5 DEF ByteOnBus
  <2>5. CASE ~(stb /\ ~B!VgaReq)
    <3>1. ByteSeen(a)' = ByteSeen(a)
      BY <2>5, ByteWrites
    <3>2. ByteLanded' = ByteLanded
      BY <2>1, <2>5, ByteLanding
    <3> QED BY <2>3, <3>1, <3>2
  <2> QED BY <2>4, <2>5
<1> QED BY <1>3, <1>4, <1>5, <1>6 DEF ByteStoreInv

LEMMA ByteLoadNegedge ==
    ASSUME ByteInv, ByteLoadInv, B!Negedge PROVE ByteLoadInv'
<1>1. /\ edge = "neg" /\ edge' = "pos" /\ (parked' <=> rst > 0)
      /\ UNCHANGED <<addrcnt, ackcnt, ack, busy, buffer, lastOp>>
  BY DEF B!Negedge, B!PulseEnds, B!masterVars, B!unitVars
<1>2. B!TypeOK /\ ByteBeats
  BY DEF ByteInv
<1>3. CASE \E r \in B!Requests : B!Issue(r)
  <2>1. ~parked /\ ~busy
    BY <1>3 DEF B!Issue
  <2>2. ~ack' /\ ackcnt' = 0
    BY <1>1, <1>2, <2>1 DEF B!TypeOK, ByteBeats, B!Count
  <2>3. \A i \in ByteIndex' : ~(i < ByteTaken')
    BY <1>1, <2>2, ByteWidth DEF ByteIndex, ByteTaken
  <2> QED BY <1>1, <2>2, <2>3 DEF ByteLoadInv
<1>4. CASE B!Rest \/ B!Park
  BY <1>4 DEF B!Rest, B!Park, ByteLoadInv
<1>5. CASE B!Reissue
  <2>1. ~parked /\ busy /\ UNCHANGED <<strobe, req>>
    BY <1>5 DEF B!Reissue
  <2> SUFFICES ASSUME strobe, ~B!IsStore(req.op)
               PROVE  /\ ack => sample' = mem'[req.addr + ackcnt]
                      /\ \A i \in ByteIndex : i < ackcnt => buffer[i] = mem'[req.addr + i]
    BY <1>1, <2>1 DEF ByteLoadInv, ByteIndex, ByteTaken
  <2>2. \A i \in ByteIndex : i < ackcnt => buffer[i] = mem[req.addr + i]
    BY <1>1, <2>1 DEF ByteLoadInv, ByteTaken
  <2>3. pulse # "write"
    <3>1. ack => pulse = "read"
      BY <1>1, <2>1 DEF ByteLoadInv
    <3> QED BY <1>1, <3>1 DEF ByteInv, BytePulse
  <2>4. mem' = mem
    BY <2>3 DEF B!Negedge, B!PulseEnds
  <2>5. ack => sample' = mem[req.addr + ackcnt]
    BY <1>1, <2>1 DEF ByteLoadInv, B!Negedge, B!PulseEnds
  <2> QED BY <2>2, <2>4, <2>5
<1> QED BY <1>3, <1>4, <1>5 DEF B!Negedge

LEMMA ByteLoadPosedge ==
    ASSUME ByteInv, ByteStoreInv, ByteLoadInv, B!Posedge PROVE ByteLoadInv'
<1>1. /\ edge = "pos" /\ edge' = "neg" /\ UNCHANGED <<strobe, req, parked, mem, sample>>
      /\ ByteIndex' = ByteIndex
  BY DEF B!Posedge, B!Ram, B!cpuVars, ByteIndex
<1> SUFFICES ASSUME ~parked, strobe, ~B!IsStore(req.op)
             PROVE  /\ ack' => pulse' = "read" /\ chipAdr' = req.addr + ackcnt'
                    /\ lastOp' = req.op
                    /\ \A i \in ByteIndex : i < ByteTaken' => buffer'[i] = mem[req.addr + i]
  BY <1>1 DEF ByteLoadInv
<1>2. /\ ackcnt' = IF B!Complete THEN 0 ELSE IF B!Acked THEN ackcnt + 1 ELSE ackcnt
      /\ addrcnt = ackcnt + B!Count(ack) + B!Count(stb)
      /\ B!Acked <=> ack
      /\ B!Complete <=> ack /\ ackcnt + 1 = B!Target
      /\ addrcnt <= B!Target /\ addrcnt \in 0..7 /\ ackcnt \in 0..7
      /\ B!Target = B!Width(req.op) /\ B!Target \in 1..4 /\ req.addr \in Nat
      /\ buffer \in B!Word
      /\ (busy' <=> ~B!Complete)
  BY ByteCounters, ByteRange DEF ByteInv, ByteReset, B!TypeOK, B!Posedge, B!Master
<1>3. lastOp' = req.op
  BY DEF B!Posedge, B!BusUnit
<1>4. ASSUME ack' PROVE pulse' = "read" /\ chipAdr' = req.addr + ackcnt'
  <2>1. stb /\ ~B!VgaReq
    BY <1>4 DEF B!Posedge, B!Ram
  <2>2. ~we /\ adr = req.addr + (addrcnt - 1)
    BY <2>1 DEF ByteStoreInv, ByteBeat, ByteOnBus
  <2>3. pulse' = "read" /\ chipAdr' = adr
    BY <2>1, <2>2 DEF B!Posedge, B!Ram
  <2>4. ackcnt' = addrcnt - 1
    <3>1. ~B!Complete
      BY <1>2, <2>1 DEF B!Count
    <3>2. addrcnt - 1 = ackcnt + B!Count(ack)
      BY <1>2, <2>1 DEF B!Count
    <3> QED BY <1>2, <3>1, <3>2 DEF B!Count
  <2> QED BY <2>2, <2>3, <2>4
<1>5. ASSUME NEW i \in ByteIndex, i < ByteTaken' PROVE buffer'[i] = mem[req.addr + i]
  <2>1. i \in 0..3 /\ i < B!Target
    BY <1>2 DEF ByteIndex
  <2>2. i < ackcnt => buffer[i] = mem[req.addr + i]
    BY <1>1 DEF ByteLoadInv, ByteTaken
  <2>3. CASE ack
    <3>1. ackcnt \in 0..3 /\ ackcnt % 4 = ackcnt
      BY <1>2, <2>3 DEF B!Count
    <3>2. buffer' = [buffer EXCEPT ![ackcnt] = sample] /\ sample = mem[req.addr + ackcnt]
      BY <1>1, <1>2, <2>3, <3>1 DEF B!Posedge, B!Master, ByteLoadInv
    <3>3. i <= ackcnt
      <4>1. CASE B!Complete
        BY <1>2, <2>1, <4>1
      <4>2. CASE ~B!Complete
        BY <1>1, <1>2, <1>5, <2>1, <2>3, <4>2 DEF ByteTaken
      <4> QED BY <4>1, <4>2
    <3>4. buffer'[i] = IF i = ackcnt THEN sample ELSE buffer[i]
      BY <1>2, <2>1, <3>1, <3>2 DEF B!Word, B!Lane
    <3>5. i = ackcnt \/ i < ackcnt
      BY <2>1, <3>1, <3>3
    <3> QED BY <2>2, <3>2, <3>4, <3>5
  <2>4. CASE ~ack
    <3>1. buffer' = buffer /\ ~B!Complete /\ ackcnt' = ackcnt
      BY <1>2, <2>4 DEF B!Posedge, B!Master
    <3>2. i < ackcnt
      BY <1>1, <1>2, <1>5, <3>1 DEF ByteTaken
    <3> QED BY <2>2, <3>1, <3>2
  <2> QED BY <2>3, <2>4
<1> QED BY <1>3, <1>4, <1>5
-----------------------------------------------------------------------------
(* The byte-wide board is the promised memory, step by step. *)

LEMMA ByteAbstractWords ==
    /\ \A op : B!Abstract!IsStore(op) <=> B!IsStore(op)
    /\ \A op : B!Abstract!Width(op) = B!Width(op)
    /\ \A op, b : B!Abstract!Extend(op, b) = B!Extend(op, b)
    /\ \A r : B!Abstract!Footprint(r) = B!Footprint(r)
    /\ B!Abstract!Lane = B!Lane
BY DEF B!Abstract!IsStore, B!IsStore, B!Abstract!Width, B!Width, B!Abstract!Extend, B!Extend,
   B!Abstract!Footprint, B!Footprint, B!Abstract!SignFill, B!SignFill, B!Abstract!Lane, B!Lane

LEMMA ByteNone == \A r \in B!Access(B!Addr, B!Word) : r # None
BY NoneAssumption DEF Access, B!Access, BusOp, B!BusOp, Word, B!Word, Lane, B!Lane, Byte, B!Byte

BytePending == IF B!Outstanding THEN req ELSE None

LEMMA ByteRequest ==
    ASSUME ~B!Outstanding, B!Outstanding', req' \in B!Requests,
           \A a \in B!Addr : ByteSeen(a)' = ByteSeen(a),
           B!AbstractResult' = B!AbstractResult
    PROVE  B!Abstract!Next
<1>1. BytePending = None /\ BytePending' = req'
  BY DEF BytePending
<1>2. B!AbstractMemory' = IF B!Abstract!IsStore(req'.op)
                          THEN B!Abstract!Stored(B!AbstractMemory, req') ELSE B!AbstractMemory
  BY ByteAbstractWords DEF B!AbstractMemory, ByteSeen, B!Abstract!Stored
<1>3. B!Abstract!Request
  BY <1>1, <1>2 DEF B!Abstract!Request, BytePending
<1> QED BY <1>3 DEF B!Abstract!Next

LEMMA ByteAbort ==
    ASSUME B!Outstanding, ~B!Outstanding', rst > 0, req \in B!Access(B!Addr, B!Word),
           \A a \in B!Addr : ByteSeen(a)' = ByteSeen(a),
           B!AbstractResult' = B!AbstractResult
    PROVE  B!Abstract!Next
<1>1. BytePending = req /\ BytePending' = None /\ BytePending # None
  BY ByteNone DEF BytePending
<1>2. DOMAIN B!AbstractMemory' = B!Addr
  BY DEF B!AbstractMemory
<1>3. ASSUME NEW a \in B!Addr, B!AbstractMemory'[a] # B!AbstractMemory[a]
      PROVE  B!Abstract!IsStore(req.op) /\ a \in B!Abstract!Footprint(req)
  BY <1>3, ByteAbstractWords DEF B!AbstractMemory, ByteSeen
<1>4. B!Abstract!Abort
  BY <1>1, <1>2, <1>3 DEF B!Abstract!Abort, BytePending
<1> QED BY <1>4 DEF B!Abstract!Next

LEMMA ByteStutter ==
    ASSUME (B!Outstanding \/ B!Outstanding') => req' = req,
           B!Outstanding' <=> B!Outstanding,
           B!AbstractResult' = B!AbstractResult,
           \A a \in B!Addr : ByteSeen(a)' # ByteSeen(a)
                               => B!Outstanding /\ B!IsStore(req.op) /\ a \in B!Footprint(req)
    PROVE  B!Abstract!Next
<1>1. BytePending' = BytePending
  BY DEF BytePending
<1>2. B!AbstractMemory' = B!AbstractMemory
  BY DEF B!AbstractMemory, ByteSeen
<1> QED BY <1>1, <1>2 DEF B!Abstract!Next, BytePending

LEMMA ByteRespond ==
    ASSUME ByteInv, B!Outstanding, ~B!Outstanding',
           \A a \in B!Addr : ByteSeen(a)' = ByteSeen(a),
           B!IsStore(req.op) =>
               /\ B!AbstractResult' = B!AbstractResult
               /\ \A i \in ByteIndex : ByteSeen(req.addr + i) = req.data[i],
           ~B!IsStore(req.op) =>
               \E buf \in B!Word :
                   /\ B!AbstractResult' = B!Extend(req.op, buf)
                   /\ \A i \in ByteIndex : buf[i] = ByteSeen(req.addr + i)
    PROVE  B!Abstract!Next
<1>1. BytePending = req /\ BytePending' = None /\ BytePending # None
  BY ByteNone DEF BytePending, ByteInv, B!TypeOK
<1>2. B!AbstractMemory' = B!AbstractMemory
  <2>1. ASSUME NEW a \in B!Addr, B!IsStore(req.op), a \in B!Footprint(req)
        PROVE  ByteSeen(a) = req.data[a - req.addr]
    <3>1. a - req.addr \in ByteIndex /\ req.addr + (a - req.addr) = a
      BY <2>1, ByteRange
    <3> QED BY <2>1, <3>1
  <2> QED BY <2>1 DEF B!AbstractMemory, ByteSeen
<1>3. ASSUME ~B!IsStore(req.op)
      PROVE  B!AbstractResult' = B!Extend(req.op, B!Abstract!Loaded(B!AbstractMemory, req))
  <2>1. PICK buf \in B!Word : /\ B!AbstractResult' = B!Extend(req.op, buf)
                              /\ \A i \in ByteIndex : buf[i] = ByteSeen(req.addr + i)
    BY <1>3
  <2> DEFINE got == B!Abstract!Loaded(B!AbstractMemory, req)
  <2>2. \A i \in B!Lane : got[i] = IF i < B!Width(req.op) THEN buf[i] ELSE 0
    <3> SUFFICES ASSUME NEW i \in B!Lane
                 PROVE  got[i] = IF i < B!Width(req.op) THEN buf[i] ELSE 0
      OBVIOUS
    <3>1. got[i] = IF i < B!Width(req.op) THEN B!AbstractMemory[req.addr + i] ELSE 0
      BY ByteAbstractWords DEF B!Abstract!Loaded
    <3>2. CASE i < B!Width(req.op)
      <4>1. i \in ByteIndex /\ req.addr + i \in B!Addr
        BY <3>2, ByteRange DEF ByteIndex, B!Lane
      <4>2. B!AbstractMemory[req.addr + i] = ByteSeen(req.addr + i)
        BY <1>3, <4>1 DEF B!AbstractMemory, ByteSeen
      <4> QED BY <2>1, <3>1, <3>2, <4>1, <4>2
    <3> QED BY <3>1, <3>2
  <2>3. got = [i \in B!Lane |-> IF i < B!Width(req.op) THEN buf[i] ELSE 0]
    BY <2>2, ByteAbstractWords DEF B!Abstract!Loaded
  <2>4. B!Extend(req.op, got) = B!Extend(req.op, buf)
    <3>1. req.op \in {"READB", "READBU", "READH", "READHU", "READW"}
      BY <1>3, ByteRange DEF B!BusOp, B!IsStore
    <3>2. CASE req.op \in {"READB", "READBU"}
      BY <2>3, <3>2 DEF B!Extend, B!Width, B!Lane
    <3>3. CASE req.op \in {"READH", "READHU"}
      BY <2>3, <3>3 DEF B!Extend, B!Width, B!Lane
    <3>4. CASE req.op = "READW"
      BY <2>3, <3>4 DEF B!Extend, B!Width, B!Lane, B!Word
    <3> QED BY <3>1, <3>2, <3>3, <3>4
  <2> QED BY <2>1, <2>4
<1>4. B!Abstract!Respond
  BY <1>1, <1>2, <1>3, ByteAbstractWords DEF B!Abstract!Respond, BytePending
<1> QED BY <1>4 DEF B!Abstract!Next

LEMMA ByteRefineNegedge == ASSUME ByteInv, B!Negedge PROVE B!Abstract!Next
<1>1. /\ edge = "neg" /\ edge' = "pos" /\ (parked' <=> rst > 0) /\ pulse' = "none"
      /\ UNCHANGED <<stb, busy, buffer, lastOp, result, rst>>
  BY DEF B!Negedge, B!PulseEnds, B!masterVars, B!unitVars
<1>2. /\ B!TypeOK /\ req \in B!Access(B!Addr, B!Word)
      /\ pulse = "write" => ack
  BY <1>1 DEF ByteInv, B!TypeOK, BytePulse
<1>3. ~B!Served' /\ (B!Outstanding' <=> strobe' \/ stb)
  BY <1>1 DEF B!Served, B!Outstanding
<1>4. B!AbstractResult' = B!AbstractResult
  <2>1. capture' <=> B!Served /\ ~B!IsStore(req.op)
    BY <1>1, <1>2
       DEF B!Negedge, B!Issue, B!Reissue, B!Rest, B!Park, B!ReadServed, B!Served, B!TypeOK
  <2> QED BY <1>1, <1>3, <2>1 DEF B!AbstractResult
<1>5. \A a \in B!Addr : ByteSeen(a)' = ByteSeen(a)
  BY ByteNegedgeSeen
<1>6. ~parked /\ ~busy => ~stb /\ ~ack /\ ~B!Outstanding
  <2>1. ~parked /\ ~busy => ~stb /\ ~ack
    BY <1>2 DEF B!TypeOK, ByteInv, ByteBeats, B!Count
  <2> QED BY <1>1, <1>2, <2>1 DEF B!Outstanding, B!Served
<1>7. CASE \E r \in B!Requests : B!Issue(r)
  <2>1. ~parked /\ ~busy /\ strobe' /\ req' \in B!Requests
    BY <1>7 DEF B!Issue
  <2>2. ~B!Outstanding /\ B!Outstanding'
    BY <1>3, <1>6, <2>1
  <2> QED BY <1>4, <1>5, <2>1, <2>2, ByteRequest
<1>8. CASE B!Reissue
  <2>1. UNCHANGED <<strobe, req>> /\ ~B!Served /\ busy /\ ~parked
    BY <1>8 DEF B!Reissue, B!Served
  <2>2. strobe
    BY <2>1 DEF ByteInv, ByteBeats
  <2>3. B!Outstanding' <=> B!Outstanding
    BY <1>1, <1>3, <2>1, <2>2 DEF B!Outstanding
  <2> QED BY <1>4, <1>5, <2>1, <2>3, ByteStutter
<1>9. CASE B!Rest
  <2>1. ~parked /\ ~busy /\ strobe' = FALSE /\ req' = req
    BY <1>9 DEF B!Rest
  <2>2. ~B!Outstanding /\ ~B!Outstanding'
    BY <1>3, <1>6, <2>1
  <2> QED BY <1>4, <1>5, <2>1, <2>2, ByteStutter
<1>10. CASE B!Park
  <2>1. parked /\ strobe' = FALSE /\ req' = req
    BY <1>10 DEF B!Park
  <2>2. B!Outstanding <=> strobe \/ stb \/ pulse = "write"
    BY <2>1 DEF B!Outstanding, B!Served
  <2>3. CASE stb \/ (~strobe /\ pulse # "write")
    <3>1. B!Outstanding' <=> B!Outstanding
      BY <1>3, <2>1, <2>2, <2>3
    <3> QED BY <1>4, <1>5, <2>1, <3>1, ByteStutter
  <2>4. CASE ~stb /\ (strobe \/ pulse = "write")
    <3>1. rst > 0
      BY <1>2, <2>1, <2>4, ByteSizes DEF ByteInv, B!TypeOK, ByteReset, BoundAssumption
    <3>2. B!Outstanding /\ ~B!Outstanding'
      BY <1>3, <2>1, <2>2, <2>4
    <3> QED BY <1>2, <1>4, <1>5, <3>1, <3>2, ByteAbort
  <2> QED BY <2>3, <2>4
<1> QED BY <1>7, <1>8, <1>9, <1>10 DEF B!Negedge

LEMMA ByteRefinePosedge ==
    ASSUME ByteInv, ByteStoreInv, ByteLoadInv, ByteInv', ByteLoadInv', B!Posedge
    PROVE  B!Abstract!Next
<1>1. /\ edge = "pos" /\ edge' = "neg" /\ UNCHANGED <<strobe, req, parked, capture, mem>>
      /\ (busy' <=> strobe /\ ~B!Complete)
      /\ (stb' <=> strobe /\ (addrcnt # B!Target \/ B!Stall))
      /\ pulse = "none" /\ (pulse' = "write" <=> stb /\ we /\ ~B!VgaReq)
      /\ result' = IF capture THEN B!Extend(lastOp, buffer) ELSE result
  BY DEF B!Posedge, B!Master, B!Ram, B!Strobe, B!BusUnit, B!cpuVars, ByteInv, BytePulse
<1>2. B!TypeOK /\ req \in B!Access(B!Addr, B!Word)
  BY DEF ByteInv, B!TypeOK
<1>3. ~B!Served /\ (B!Outstanding <=> strobe \/ stb)
  BY <1>1 DEF B!Served, B!Outstanding
<1>4. B!Served' <=> strobe /\ B!Complete /\ ~parked
  BY <1>1 DEF B!Served
<1>5. B!Outstanding' <=> (strobe \/ pulse' = "write") /\ ~B!Served'
  BY <1>1 DEF B!Outstanding
<1>6. B!AbstractResult' = IF B!Served' /\ ~B!IsStore(req.op) THEN B!Extend(lastOp', buffer')
                          ELSE B!AbstractResult
  BY <1>1, <1>3, <1>4 DEF B!AbstractResult
<1>7. ASSUME NEW a \in B!Addr, ByteSeen(a)' # ByteSeen(a)
      PROVE  pulse' = "write" /\ stb /\ B!IsStore(req.op) /\ a \in B!Footprint(req)
  <2>1. stb /\ ~B!VgaReq /\ B!IsStore(req.op) /\ a = adr
    BY <1>7, ByteWrites
  <2>2. PICK n \in ByteIndex : adr = req.addr + n
    BY <2>1 DEF ByteStoreInv, ByteBeat, ByteOnBus
  <2>3. a \in B!Footprint(req)
    BY <2>1, <2>2, ByteRange DEF B!Footprint, ByteIndex
  <2>4. we
    BY <2>1 DEF ByteStoreInv, ByteBeat
  <2> QED BY <1>1, <2>1, <2>3, <2>4
<1>8. CASE ~strobe
  <2>1. ~B!Served' /\ B!AbstractResult' = B!AbstractResult
    BY <1>4, <1>6, <1>8
  <2>2. CASE pulse' = "write"
    <3>1. B!Outstanding /\ B!Outstanding'
      BY <1>1, <1>3, <1>5, <2>1, <2>2
    <3> QED BY <1>1, <1>7, <2>1, <3>1, ByteStutter
  <2>3. CASE pulse' # "write"
    <3>1. ~B!Outstanding' /\ \A a \in B!Addr : ByteSeen(a)' = ByteSeen(a)
      BY <1>5, <1>7, <1>8, <2>3
    <3>2. CASE stb
      <4>1. rst > 0
        <5>1. parked
          BY <1>2, <1>8, <3>2 DEF ByteInv, B!TypeOK, ByteBeats, B!Count
        <5> QED BY <1>2, <3>2, <5>1, ByteSizes DEF ByteInv, B!TypeOK, ByteReset, BoundAssumption
      <4>2. B!Outstanding
        BY <1>3, <3>2
      <4> QED BY <1>2, <2>1, <3>1, <4>1, <4>2, ByteAbort
    <3>3. CASE ~stb
      <4>1. ~B!Outstanding
        BY <1>3, <1>8, <3>3
      <4> QED BY <2>1, <3>1, <4>1, ByteStutter
    <3> QED BY <3>2, <3>3
  <2> QED BY <2>2, <2>3
<1>9. CASE strobe /\ ~B!Served'
  <2>1. B!Outstanding /\ B!Outstanding'
    BY <1>3, <1>5, <1>9
  <2> QED BY <1>1, <1>6, <1>7, <1>9, <2>1, ByteStutter
<1>10. CASE B!Served'
  <2>1. strobe /\ B!Complete /\ ~parked /\ ~busy'
    BY <1>1, <1>4, <1>10
  <2>2. B!Outstanding /\ ~B!Outstanding'
    BY <1>3, <1>5, <1>10, <2>1
  <2>3. ~stb /\ ByteLanded = B!Target
    BY <2>1, ByteLanding
  <2>4. \A a \in B!Addr : ByteSeen(a)' = ByteSeen(a)
    BY <1>7, <2>3
  <2>5. ASSUME B!IsStore(req.op)
        PROVE  /\ B!AbstractResult' = B!AbstractResult
               /\ \A i \in ByteIndex : ByteSeen(req.addr + i) = req.data[i]
    <3>1. \A i \in ByteIndex : i < ByteLanded
      BY <2>3, ByteRange DEF ByteIndex
    <3> QED BY <1>6, <2>1, <2>5, <3>1 DEF ByteStoreInv, ByteStored
  <2>6. ASSUME ~B!IsStore(req.op)
        PROVE  /\ buffer' \in B!Word /\ B!AbstractResult' = B!Extend(req.op, buffer')
               /\ \A i \in ByteIndex : buffer'[i] = ByteSeen(req.addr + i)
    <3>1. lastOp' = req.op /\ buffer' \in B!Word
      BY <2>1 DEF B!Posedge, B!BusUnit, ByteInv, B!TypeOK
    <3>2. \A i \in ByteIndex : i < ByteTaken'
      BY <1>1, <2>1, ByteRange DEF ByteTaken, ByteIndex
    <3>3. \A i \in ByteIndex : i < ByteTaken' => buffer'[i] = mem'[req.addr + i]
      BY <1>1, <2>1, <2>6 DEF ByteLoadInv, ByteIndex
    <3> QED BY <1>1, <1>6, <1>10, <2>6, <3>1, <3>2, <3>3 DEF ByteSeen
  <2> QED BY <2>2, <2>4, <2>5, <2>6, ByteRespond
<1> QED BY <1>8, <1>9, <1>10
-----------------------------------------------------------------------------
(* The board with the 16-bit path.  The acknowledge is the code of the word  *)
(* it answers; the word counter may lag behind a reset while the video      *)
(* stalls it, for no longer than the video's claim lasts (PairStuck).       *)

PairGone == ResetCycles - rst

PairReset ==
    /\ (edge = "pos" /\ rst > 0) \/ rst \in 1 .. ResetCycles - 1 => parked
    /\ parked /\ rst < ResetCycles /\ edge = "pos" => ~strobe
    /\ parked /\ rst <= ResetCycles - 2 => ~strobe /\ ~busy /\ ack = H!NoRequest

PairStuck ==
    parked /\ rst <= ResetCycles - 2 /\ wordcnt # 0 /\ (edge = "pos" \/ stall) =>
        (vgaRun = 0 \/ vgaRun >= PairGone) /\ PairGone <= MaxVgaRun + 1

\* An acknowledge is of a word of the request, and the counter is at that word
\* or past it.
PairCodes ==
    /\ ack # H!NoRequest => /\ ack = H!Code(req, ack.n)
                            /\ edge = "neg" \/ ~parked => strobe /\ busy
    /\ edge = "neg" => ack = H!NoRequest \/ ack.n = wordcnt
    /\ edge = "pos" /\ H!LastAck => requestpause
    /\ edge = "pos" /\ requestpause /\ ~parked => wordcnt = 0
    /\ ~parked =>
         /\ ~strobe => ~busy
         /\ ack = H!NoRequest => wordcnt = 0
         /\ edge = "pos" /\ ack # H!NoRequest =>
              wordcnt = IF stall THEN ack.n ELSE IF H!More(ack) THEN ack.n + 1 ELSE 0

PairInv == H!TypeOK /\ PairReset /\ PairStuck /\ PairCodes

LEMMA PairSizes == H!SizeAssumption /\ H!ResetAssumption /\ BoundAssumption
BY NarrowAssumption, BoundAssumption

LEMMA PairWidth == \A op : H!Width(op) \in {1, 2, 4}
BY DEF H!Width

LEMMA NoMore == ~H!More(H!NoRequest)
<1>1. H!NoRequest.odd = 0 /\ H!NoRequest.width = 0 /\ H!NoRequest.n = 0
  BY DEF H!NoRequest
<1>2. \A x \in Int : x < 0 => x \div 2 \in Int /\ x \div 2 < 0
  OBVIOUS
<1>3. ~(0 + 1 < (0 + 0 - 1) \div 2 + 1)
  BY <1>2
<1> QED BY <1>1, <1>3 DEF H!More, H!WordCount

\* What a code says: it names a word of the access, and there are at most three.
LEMMA CodeWord ==
    ASSUME NEW r, r.addr \in Nat, NEW n \in Nat
    PROVE  /\ H!Code(r, n) \in {H!NoRequest,
                                [width |-> H!Width(r.op), odd |-> r.addr % 2, n |-> n]}
           /\ H!Code(r, n) # H!NoRequest =>
                /\ H!Code(r, n).n = n /\ H!Code(r, n).width = H!Width(r.op)
                /\ H!Code(r, n).odd = r.addr % 2
                /\ 2 * n <= (r.addr % 2) + H!Width(r.op) - 1
                /\ n \in 0..2
                /\ H!Code(r, n) \in H!Codes
                /\ H!More(H!Code(r, n)) => H!Code(r, n + 1) # H!NoRequest /\ n + 1 \in 0..2
                /\ ~H!More(H!Code(r, n)) => (r.addr % 2) + H!Width(r.op) - 1 < 2 * n + 2
           /\ H!Code(r, 0) # H!NoRequest
<1> DEFINE w == H!Width(r.op)  o == r.addr % 2
           c(k) == [width |-> w, odd |-> o, n |-> k]
<1>1. w \in {1, 2, 4} /\ o \in 0..1
  BY PairWidth
<1>2. \A k : H!Code(r, k) = IF k < (o + w - 1) \div 2 + 1 THEN c(k) ELSE H!NoRequest
  BY DEF H!Code, H!WordCount
<1>3. \A k : c(k) # H!NoRequest /\ c(k).n = k /\ c(k).width = w /\ c(k).odd = o
  BY <1>1 DEF H!NoRequest
<1>4. \A k : H!More(c(k)) <=> k + 1 < (o + w - 1) \div 2 + 1
  BY DEF H!More, H!WordCount
<1> HIDE DEF w, o, c
<1>5. \A k \in Nat : k < (o + w - 1) \div 2 + 1 <=> 2 * k <= o + w - 1
  BY <1>1
<1>6. H!Code(r, n) # H!NoRequest =>
        /\ H!Code(r, n) = c(n) /\ n < (o + w - 1) \div 2 + 1
        /\ 2 * n <= o + w - 1 /\ n \in 0..2
  BY <1>1, <1>2, <1>3, <1>5
<1>7. c(n) \in H!Codes <=>
        \/ w \in {1, 2, 4} /\ o \in 0..1 /\ n \in 0..2
        \/ c(n) = H!NoRequest
  BY DEF H!Codes, c
<1>8. H!Code(r, n) # H!NoRequest /\ H!More(c(n)) =>
        H!Code(r, n + 1) # H!NoRequest /\ n + 1 \in 0..2
  BY <1>1, <1>2, <1>3, <1>4, <1>5, <1>6
<1>9. ~H!More(c(n)) => o + w - 1 < 2 * n + 2
  BY <1>1, <1>4, <1>5
<1>10. H!Code(r, 0) # H!NoRequest
  BY <1>1, <1>2, <1>3, <1>5
<1>11. H!Code(r, n) \in {H!NoRequest, c(n)}
  BY <1>2
<1> QED BY <1>1, <1>3, <1>6, <1>7, <1>8, <1>9, <1>10, <1>11 DEF w, o, c

\* A word an access touches is a word of the RAM.
LEMMA PairInRam ==
    ASSUME NEW r, r.addr \in H!Addr, r.addr + H!Width(r.op) <= WordRam,
           NEW n \in Nat, H!Code(r, n) # H!NoRequest
    PROVE  r.addr \div 2 + n \in H!WordAdr
<1>1. WordRam \in Nat \ {0} /\ WordRam % 2 = 0 /\ r.addr \in Nat
  BY PairSizes DEF H!SizeAssumption, H!Addr
<1>2. 2 * n <= (r.addr % 2) + H!Width(r.op) - 1
  BY <1>1, CodeWord
<1>3. \A x \in Nat : x = 2 * (x \div 2) + (x % 2) /\ x \div 2 \in Nat /\ x % 2 \in 0..1
  OBVIOUS
<1>4. H!Width(r.op) \in Nat
  BY PairWidth
<1> DEFINE q == r.addr \div 2  o == r.addr % 2  h == WordRam \div 2
<1>5. /\ r.addr = 2 * q + o /\ q \in Nat /\ o \in 0..1
      /\ WordRam = 2 * h /\ h \in Nat
  BY <1>1, <1>3
<1>6. 2 * n <= o + H!Width(r.op) - 1
  BY <1>2
<1> HIDE DEF q, o, h
<1>7. 2 * (q + n) < 2 * h
  BY <1>4, <1>5, <1>6
<1>8. q + n \in 0 .. h - 1
  BY <1>5, <1>7
<1> QED BY <1>8 DEF q, h, H!WordAdr

LEMMA PairStart == H!Init => PairInv
<1> SUFFICES ASSUME H!Init PROVE PairInv
  OBVIOUS
<1> USE PairSizes DEF H!SizeAssumption, H!ResetAssumption, BoundAssumption
<1>1. H!ZeroWord \in H!Word /\ 0 \in H!Addr /\ H!NoRequest \in H!Codes
  BY DEF H!ZeroWord, H!Word, H!Byte, H!Addr, H!Codes
<1>2. H!TypeOK
  <2>1. req \in H!Access(H!Addr, H!Word)
    BY <1>1 DEF H!Init, H!InitPort, H!Access, H!BusOp
  <2>2. req.addr + H!Width(req.op) <= WordRam
    BY DEF H!Init, H!InitPort, H!Width
  <2>3. mem \in [H!Addr -> H!Byte]
    BY DEF H!Init, H!Addr
  <2>4. /\ edge \in {"pos", "neg"} /\ rst \in 0..ResetCycles /\ vgaRun \in 0..MaxVgaRun
        /\ issued \in 0..MaxAccesses /\ wordcnt \in 0..2 /\ lastOp \in H!BusOp
        /\ ack \in H!Codes
    BY <1>1 DEF H!Init, H!InitPort, H!BusOp
  <2>5. pinAdr \in H!WordAdr
    BY DEF H!Init, H!WordAdr
  <2>6. pinDat \in [H!Half -> H!Byte] /\ sample \in [H!Half -> H!Byte] /\ pinLanes \subseteq H!Half
    BY DEF H!Init, H!JunkHalf
  <2>7. /\ strobe \in BOOLEAN /\ parked \in BOOLEAN /\ capture \in BOOLEAN
        /\ busy \in BOOLEAN /\ stall \in BOOLEAN /\ pinWe \in BOOLEAN
        /\ requestpause \in BOOLEAN
        /\ buffer \in H!Word /\ result \in H!Word
    BY <1>1, Zenon DEF H!Init, H!InitPort
  <2> QED BY <2>1, <2>2, <2>3, <2>4, <2>5, <2>6, <2>7, Zenon DEF H!TypeOK
<1>3. PairReset
  BY DEF H!Init, H!InitPort, PairReset
<1>4. PairStuck
  BY DEF H!Init, H!InitPort, PairStuck
<1>5. PairCodes
  BY DEF H!Init, H!InitPort, PairCodes, H!LastAck
<1> QED BY <1>2, <1>3, <1>4, <1>5 DEF PairInv

LEMMA PairRequests ==
    ASSUME NEW r \in H!Requests
    PROVE  r \in H!Access(H!Addr, H!Word) /\ r.addr + H!Width(r.op) <= WordRam
BY PairSizes DEF H!SizeAssumption, H!Requests, H!Access

LEMMA PairRange ==
    ASSUME PairInv
    PROVE  /\ H!TypeOK /\ req \in H!Access(H!Addr, H!Word)
           /\ req.addr \in H!Addr /\ req.addr \in Nat /\ req.op \in H!BusOp /\ req.data \in H!Word
           /\ req.addr + H!Width(req.op) <= WordRam
BY PairSizes DEF H!SizeAssumption, PairInv, H!TypeOK, H!Access, H!Addr

\* The acknowledge on the lines and the counter, when it answers a word.
LEMMA PairAck ==
    ASSUME PairInv, ack # H!NoRequest
    PROVE  /\ ack = H!Code(req, ack.n) /\ ack.n \in 0..2
           /\ ack.width = H!Width(req.op) /\ ack.odd = req.addr % 2
           /\ H!More(ack) => H!Code(req, ack.n + 1) # H!NoRequest /\ ack.n + 1 \in 0..2
           /\ ~H!More(ack) => (req.addr % 2) + H!Width(req.op) - 1 < 2 * ack.n + 2
<1>1. ack = H!Code(req, ack.n) /\ req.addr \in Nat /\ ack \in H!Codes
  BY PairRange DEF PairInv, PairCodes, H!TypeOK
<1>2. ack.n \in Nat
  BY <1>1 DEF H!Codes
<1> QED BY <1>1, <1>2, CodeWord

LEMMA PairNegedge == ASSUME PairInv, H!Negedge PROVE PairInv'
<1> USE PairSizes DEF H!SizeAssumption, H!ResetAssumption, BoundAssumption
<1>1. /\ edge = "neg" /\ edge' = "pos" /\ (parked' <=> rst > 0)
      /\ UNCHANGED <<rst, vgaRun, lastOp, result, busy, buffer, ack, stall, pinAdr, pinDat,
                     pinLanes, pinWe>>
      /\ requestpause' = H!LastAck
      /\ wordcnt' = IF stall THEN wordcnt ELSE IF H!More(ack) THEN (wordcnt + 1) % 4 ELSE 0
  BY DEF H!Negedge, H!WordCounter, H!unitVars, H!adapterVars, H!ramVars
<1>2. H!TypeOK /\ PairReset /\ PairStuck /\ PairCodes
  BY DEF PairInv
<1>3. rst \in 0..ResetCycles /\ wordcnt \in 0..2 /\ vgaRun \in 0..MaxVgaRun
  BY <1>2 DEF H!TypeOK
<1>4. /\ ack = H!NoRequest => wordcnt' = IF stall THEN wordcnt ELSE 0
      /\ ack # H!NoRequest =>
           /\ ack.n = wordcnt
           /\ wordcnt' = IF stall THEN ack.n ELSE IF H!More(ack) THEN ack.n + 1 ELSE 0
           /\ wordcnt' \in 0..2
  <2>1. CASE ack = H!NoRequest
    BY <1>1, <2>1, NoMore
  <2>2. CASE ack # H!NoRequest
    <3>1. ack.n = wordcnt
      BY <1>1, <1>2, <2>2 DEF PairCodes
    <3>2. H!More(ack) => (wordcnt + 1) % 4 = ack.n + 1 /\ ack.n + 1 \in 0..2
      BY <1>3, <2>2, <3>1, PairAck
    <3> QED BY <1>1, <1>3, <2>2, <3>1, <3>2
  <2> QED BY <2>1, <2>2
<1>5. H!TypeOK'
  <2>1. req' \in H!Access(H!Addr, H!Word) /\ req'.addr + H!Width(req'.op) <= WordRam
    <3>1. CASE \E r \in H!Requests : H!Issue(r)
      BY <3>1, PairRequests DEF H!Issue
    <3>2. CASE H!Reissue \/ H!Rest \/ H!Park
      BY <1>2, <3>2 DEF H!Reissue, H!Rest, H!Park, H!TypeOK
    <3> QED BY <3>1, <3>2 DEF H!Negedge
  <2>2. strobe' \in BOOLEAN /\ capture' \in BOOLEAN
    BY <1>2, Zenon DEF H!Negedge, H!Issue, H!Reissue, H!Rest, H!Park, H!ReadServed, H!TypeOK
  <2>3. issued' \in 0..MaxAccesses /\ parked' \in BOOLEAN
    BY <1>2 DEF H!Negedge, H!Issue, H!Reissue, H!Rest, H!Park, H!TypeOK
  <2>4. wordcnt' \in 0..2 /\ requestpause' \in BOOLEAN
    BY <1>1, <1>3, <1>4 DEF H!LastAck
  <2>5. mem' \in [H!Addr -> H!Byte]
    BY <1>2 DEF H!Negedge, H!Chip, H!TypeOK, H!Addr, H!Half
  <2>6. sample' \in [H!Half -> H!Byte]
    <3>1. \A x \in Nat : x = 2 * (x \div 2) + (x % 2) /\ x \div 2 \in Nat /\ x % 2 \in 0..1
      OBVIOUS
    <3>2. pinAdr \in 0 .. WordRam \div 2 - 1 /\ WordRam = 2 * (WordRam \div 2) /\ WordRam \in Nat
          /\ WordRam \div 2 \in Nat
      BY <1>2, <3>1 DEF H!TypeOK, H!WordAdr
    <3>3. \A l \in H!Half : 2 * pinAdr + l \in H!Addr
      BY <3>2 DEF H!Half, H!Addr
    <3>4. \A l \in H!Half : mem[2 * pinAdr + l] \in H!Byte
      BY <1>2, <3>3 DEF H!TypeOK
    <3> QED BY <3>4 DEF H!Negedge, H!Chip
  <2> QED BY <1>1, <1>2, <2>1, <2>2, <2>3, <2>4, <2>5, <2>6 DEF H!TypeOK
<1>6. PairReset'
  <2>1. CASE parked
    <3>1. ~strobe'
      BY <2>1 DEF H!Negedge, H!Reissue, H!Rest, H!Park, H!Issue
    <3> QED BY <1>1, <1>2, <2>1, <3>1, <1>3 DEF PairReset
  <2>2. CASE ~parked
    <3>1. rst \in {0, ResetCycles}
      BY <1>1, <1>2, <1>3, <2>2 DEF PairReset
    <3> QED BY <1>1, <2>2, <3>1 DEF PairReset
  <2> QED BY <2>1, <2>2
<1>7. PairStuck'
  <2> SUFFICES ASSUME parked', rst <= ResetCycles - 2, wordcnt' # 0
               PROVE  (vgaRun = 0 \/ vgaRun >= PairGone) /\ PairGone <= MaxVgaRun + 1
    BY <1>1 DEF PairStuck, PairGone
  <2>1. parked
    BY <1>1, <1>2, <1>3 DEF PairReset
  <2>2. stall /\ wordcnt # 0
    BY <1>2, <1>4, <2>1 DEF PairReset
  <2> QED BY <1>2, <2>1, <2>2 DEF PairStuck
<1>8. PairCodes'
  <2>1. ack # H!NoRequest /\ (rst = 0 \/ ~parked) => strobe' /\ busy /\ req' = req
    <3> SUFFICES ASSUME ack # H!NoRequest, rst = 0 \/ ~parked PROVE strobe' /\ busy /\ req' = req
      OBVIOUS
    <3>1. strobe /\ busy
      BY <1>1, <1>2 DEF PairCodes
    <3>2. ~parked
      BY <1>2, <3>1 DEF PairReset
    <3> QED BY <3>1, <3>2 DEF H!Negedge, H!Reissue, H!Issue, H!Rest, H!Park
  <2>2. ack # H!NoRequest => req' = req
    <3>1. ack # H!NoRequest => busy
      BY <1>1, <1>2 DEF PairCodes
    <3> QED BY <3>1 DEF H!Negedge, H!Reissue, H!Issue, H!Rest, H!Park
  <2>3. requestpause' <=> H!LastAck'
    BY <1>1 DEF H!LastAck
  <2>4. ~parked' /\ requestpause' => wordcnt' = 0
    BY <1>1, <1>4 DEF H!LastAck
  <2>5. ~parked' => rst = 0
    BY <1>1, <1>3
  <2>6. ~parked' /\ ~strobe' => ~busy'
    BY <1>1, <1>2, <2>5 DEF H!Negedge, H!Reissue, H!Issue, H!Rest, H!Park, PairReset, PairCodes
  <2>7. ~parked' /\ ack = H!NoRequest => wordcnt' = 0
    <3> SUFFICES ASSUME rst = 0, ack = H!NoRequest, stall PROVE wordcnt = 0
      BY <1>4, <2>5
    <3>1. CASE parked
      BY <1>2, <1>3, <3>1 DEF PairStuck, PairGone
    <3>2. CASE ~parked
      BY <1>2, <3>2 DEF PairCodes
    <3> QED BY <3>1, <3>2
  <2>8. ack # H!NoRequest => ack' = H!Code(req', ack'.n)
    BY <1>1, <1>2, <2>2 DEF PairCodes
  <2>9. ack # H!NoRequest =>
          wordcnt' = IF stall' THEN ack'.n ELSE IF H!More(ack') THEN ack'.n + 1 ELSE 0
    BY <1>1, <1>4
  <2> QED BY <1>1, <2>1, <2>3, <2>4, <2>5, <2>6, <2>7, <2>8, <2>9 DEF PairCodes
<1> QED BY <1>5, <1>6, <1>7, <1>8 DEF PairInv

LEMMA PairExtend ==
    ASSUME NEW op \in H!BusOp, NEW buf \in H!Word
    PROVE  H!Extend(op, buf) \in H!Word
<1>1. \A b : H!SignFill(b) \in H!Byte
  BY DEF H!SignFill, H!Byte
<1>2. 0 \in H!Byte /\ 0 \in H!Lane /\ 1 \in H!Lane
  BY DEF H!Byte, H!Lane
<1>3. CASE op \in {"READB", "READBU"}
  BY <1>1, <1>2, <1>3 DEF H!Extend, H!Word
<1>4. CASE op \in {"READH", "READHU"}
  BY <1>1, <1>2, <1>4 DEF H!Extend, H!Word
<1>5. CASE op \in {"READW", "WRITEB", "WRITEH", "WRITEW"}
  BY <1>5 DEF H!Extend
<1> QED BY <1>3, <1>4, <1>5 DEF H!BusOp

\* A request on the lines is for the word the counter is at.
LEMMA PairRequest ==
    ASSUME PairInv, H!Posedge
    PROVE  /\ H!Request # H!NoRequest =>
                /\ strobe /\ ~requestpause /\ ~H!LastAck
                /\ H!Request = H!Code(req, wordcnt) /\ H!Request.n = wordcnt
                /\ H!Request \in H!Codes
                /\ req.addr \div 2 + wordcnt \in H!WordAdr
           /\ ~parked /\ strobe /\ ~requestpause => H!Request # H!NoRequest
           /\ ~parked /\ H!Request = H!NoRequest => wordcnt = 0
<1>1. edge = "pos" /\ wordcnt \in 0..2 /\ wordcnt \in Nat /\ wordcnt + 1 \in Nat
  BY DEF H!Posedge, PairInv, H!TypeOK
<1>2. H!Request # H!NoRequest =>
        strobe /\ ~requestpause /\ H!Request = H!Code(req, wordcnt)
  BY DEF H!Request
<1>3. ~requestpause => ~H!LastAck
  BY <1>1 DEF PairInv, PairCodes
<1>4. H!Request # H!NoRequest => H!Request.n = wordcnt /\ H!Request \in H!Codes
  BY <1>1, <1>2, CodeWord, PairRange
<1>5. H!Request # H!NoRequest => req.addr \div 2 + wordcnt \in H!WordAdr
  BY <1>1, <1>2, PairInRam, PairRange
<1>6. ASSUME ~parked, strobe, ~requestpause PROVE H!Request # H!NoRequest
  <2>1. H!Request = H!Code(req, wordcnt)
    BY <1>6 DEF H!Request
  <2>2. CASE ack = H!NoRequest
    <3>1. wordcnt = 0
      BY <1>6, <2>2 DEF PairInv, PairCodes
    <3> QED BY <2>1, <3>1, CodeWord, PairRange
  <2>3. CASE ack # H!NoRequest
    <3>1. /\ ack = H!Code(req, ack.n) /\ ack.n \in 0..2
          /\ H!More(ack) => H!Code(req, ack.n + 1) # H!NoRequest
      BY <2>3, PairAck
    <3>2. wordcnt = IF stall THEN ack.n ELSE IF H!More(ack) THEN ack.n + 1 ELSE 0
      BY <1>1, <1>6, <2>3 DEF PairInv, PairCodes
    <3>3. H!Code(req, 0) # H!NoRequest
      BY CodeWord, PairRange
    <3> QED BY <2>1, <2>3, <3>1, <3>2, <3>3
  <2> QED BY <2>2, <2>3
<1>7. ASSUME ~parked, H!Request = H!NoRequest PROVE wordcnt = 0
  <2>1. CASE requestpause
    BY <1>1, <1>7, <2>1 DEF PairInv, PairCodes
  <2>2. CASE ~strobe
    BY <1>7, <2>2 DEF PairInv, PairCodes
  <2> QED BY <1>6, <1>7, <2>1, <2>2
<1> QED BY <1>2, <1>3, <1>4, <1>5, <1>6, <1>7

LEMMA PairPosedge == ASSUME PairInv, H!Posedge PROVE PairInv'
<1> USE PairSizes DEF H!SizeAssumption, H!ResetAssumption, BoundAssumption
<1>1. /\ edge = "pos" /\ edge' = "neg"
      /\ UNCHANGED <<strobe, req, parked, capture, issued, wordcnt, requestpause, sample, mem>>
      /\ rst' \in {ResetCycles, IF rst > 0 THEN rst - 1 ELSE 0}
      /\ vgaRun' \in {0} \cup {n \in {vgaRun + 1} : n <= MaxVgaRun}
      /\ (busy' <=> strobe /\ ~H!LastAck)
      /\ ack' = H!Request /\ (stall' <=> vgaRun > 0)
  BY DEF H!Posedge, H!Adapter, H!Controller, H!Disturb, H!cpuVars, H!VgaReq
<1>2. H!TypeOK /\ PairReset /\ PairStuck /\ PairCodes
  BY DEF PairInv
<1>3. rst \in 0..ResetCycles /\ wordcnt \in 0..2 /\ vgaRun \in 0..MaxVgaRun
  BY <1>2 DEF H!TypeOK
<1>4. H!TypeOK'
  <2>1. rst' \in 0..ResetCycles /\ vgaRun' \in 0..MaxVgaRun
    BY <1>1, <1>3
  <2>2. busy' \in BOOLEAN /\ stall' \in BOOLEAN /\ pinWe' \in BOOLEAN
    <3>1. stall' \in BOOLEAN
      BY DEF H!Posedge, H!Controller, H!VgaReq
    <3>2. busy' \in BOOLEAN /\ pinWe' \in BOOLEAN
      BY Zenon DEF H!Posedge, H!Adapter, H!Controller
    <3> QED BY <3>1, <3>2
  <2>3. ack' \in H!Codes
    BY <1>1, PairRequest DEF H!Codes
  <2>4. buffer' \in H!Word
    <3>1. ack.odd \in 0..1
      BY <1>2 DEF H!TypeOK, H!Codes, H!NoRequest
    <3>2. \A i \in H!Lane : H!LaneOf(ack, i) \in H!Half
      BY <3>1 DEF H!LaneOf, H!Half, H!Lane
    <3>3. H!Filled(buffer, ack, sample) \in H!Word
      BY <1>2, <3>2 DEF H!Filled, H!TypeOK, H!Word
    <3> QED BY <1>2, <3>3 DEF H!Posedge, H!Adapter, H!TypeOK
  <2>5. pinAdr' \in H!WordAdr
    BY <1>2, PairRequest DEF H!Posedge, H!Controller, H!TypeOK
  <2>6. pinDat' \in [H!Half -> H!Byte]
    BY PairRange DEF H!Posedge, H!Controller, H!Outdat, H!Word, H!Lane
  <2>7. pinLanes' \subseteq H!Half
    <3>1. H!Request.odd \in 0..1
      BY <1>1, <2>3 DEF H!Codes, H!NoRequest
    <3>2. \A i \in H!Lane : H!LaneOf(H!Request, i) \in H!Half
      BY <3>1 DEF H!LaneOf, H!Half, H!Lane
    <3> QED BY <3>2 DEF H!Posedge, H!Controller, H!Enables
  <2>8. lastOp' \in H!BusOp /\ result' \in H!Word
    BY <1>2, PairRange, PairExtend DEF H!Posedge, H!BusUnit, H!TypeOK
  <2> QED BY <1>1, <1>2, <2>1, <2>2, <2>3, <2>4, <2>5, <2>6, <2>7, <2>8 DEF H!TypeOK
<1>5. PairReset'
  <2>1. CASE ~parked
    <3>1. rst = 0 /\ rst' \in {0, ResetCycles}
      BY <1>1, <1>2, <1>3, <2>1 DEF PairReset
    <3> QED BY <1>1, <2>1, <3>1 DEF PairReset
  <2>2. CASE parked
    <3>1. rst' <= ResetCycles - 2 => ~strobe
      BY <1>1, <1>2, <1>3, <2>2 DEF PairReset
    <3>2. ~strobe => ~busy' /\ ack' = H!NoRequest
      BY <1>1 DEF H!Request
    <3> QED BY <1>1, <2>2, <3>1, <3>2 DEF PairReset
  <2> QED BY <2>1, <2>2
<1>6. PairStuck'
  <2> SUFFICES ASSUME parked, rst' <= ResetCycles - 2, wordcnt # 0, vgaRun > 0
               PROVE  /\ vgaRun' = 0 \/ vgaRun' >= ResetCycles - rst'
                      /\ ResetCycles - rst' <= MaxVgaRun + 1
    BY <1>1 DEF PairStuck, PairGone
  <2>1. rst' = IF rst > 0 THEN rst - 1 ELSE 0
    BY <1>1, <1>3
  <2>2. CASE rst <= ResetCycles - 2
    <3>1. vgaRun >= ResetCycles - rst /\ ResetCycles - rst <= MaxVgaRun + 1
      BY <1>1, <1>2, <1>3, <2>2 DEF PairStuck, PairGone
    <3>2. rst > 0
      BY <1>3, <3>1
    <3> QED BY <1>1, <1>3, <2>1, <3>1, <3>2
  <2>3. CASE ~(rst <= ResetCycles - 2)
    <3>1. rst = ResetCycles - 1
      BY <1>3, <2>1, <2>3
    <3> QED BY <1>1, <1>3, <2>1, <3>1
  <2> QED BY <2>2, <2>3
<1>7. PairCodes'
  <2>1. ack' # H!NoRequest => ack' = H!Code(req, ack'.n) /\ strobe /\ busy' /\ ack'.n = wordcnt
    BY <1>1, PairRequest
  <2>2. ~parked => /\ ~strobe => ~busy'
                   /\ ack' = H!NoRequest => wordcnt = 0
    BY <1>1, PairRequest
  <2> QED BY <1>1, <2>1, <2>2 DEF PairCodes
<1> QED BY <1>4, <1>5, <1>6, <1>7 DEF PairInv

LEMMA PairMatched == PairInv => H!TypeOK /\ H!AckBelongsToRequest
<1> SUFFICES ASSUME PairInv, rst = 0 PROVE H!TypeOK /\ H!AckBelongsToRequest
  BY DEF PairInv, H!AckBelongsToRequest
<1>1. PairReset /\ PairStuck /\ PairCodes /\ H!TypeOK
  BY DEF PairInv
<1>2. 0 <= ResetCycles - 2 /\ ~(ResetCycles - 0 <= MaxVgaRun + 1)
  BY PairSizes DEF H!ResetAssumption, BoundAssumption
<1>3. CASE parked
  <2>1. ack = H!NoRequest
    BY <1>1, <1>2, <1>3 DEF PairReset
  <2>2. edge = "pos" => wordcnt = 0
    BY <1>1, <1>2, <1>3 DEF PairStuck, PairGone
  <2> QED BY <1>1, <2>1, <2>2 DEF H!AckBelongsToRequest
<1>4. CASE ~parked
  <2>1. ~busy => ack = H!NoRequest
    BY <1>1, <1>4 DEF PairCodes
  <2> QED BY <1>1, <1>4, <2>1 DEF H!AckBelongsToRequest, PairCodes
<1> QED BY <1>3, <1>4
-----------------------------------------------------------------------------
(* What the words carry.  Byte i of an access lies in word PairWord(i) of    *)
(* it; the words before the one in progress are in the buffer, or in the    *)
(* RAM.  A word on the pins at the falling edge counts as written.          *)

PairIndex   == 0 .. H!Width(req.op) - 1
PairWord(i) == ((req.addr % 2) + i) \div 2
PairAt(n)   == req.addr \div 2 + n

PairSeen(a) == IF edge = "neg" /\ pinWe /\ a \div 2 = pinAdr /\ a % 2 \in pinLanes
               THEN pinDat[a % 2] ELSE mem[a]

PairTaken  == IF edge = "neg" THEN IF busy THEN wordcnt ELSE 4
              ELSE IF ack = H!NoRequest THEN 0 ELSE ack.n

PairLanded == IF edge = "neg" THEN IF busy THEN wordcnt ELSE 4
              ELSE IF H!LastAck THEN 4 ELSE wordcnt

PairReading ==
    ack # H!NoRequest /\ ~stall =>
        IF edge = "neg" THEN ~pinWe /\ pinAdr = PairAt(ack.n) /\ pinLanes = H!Enables(ack)
        ELSE \A l \in H!Enables(ack) : sample[l] = mem[2 * PairAt(ack.n) + l]

PairLoadInv ==
    ~parked /\ strobe /\ ~H!IsStore(req.op) =>
      /\ PairReading
      /\ edge = "neg" => lastOp = req.op
      /\ \A i \in PairIndex : PairWord(i) < PairTaken => buffer[i] = mem[req.addr + i]

PairWriting ==
    edge = "neg" =>
      /\ pinWe => /\ strobe /\ H!IsStore(req.op) /\ ack # H!NoRequest /\ ~stall
                  /\ pinAdr = PairAt(ack.n) /\ pinLanes = H!Enables(ack)
                  /\ pinDat = H!Outdat(req, ack.n)
      /\ ack # H!NoRequest /\ ~stall /\ H!IsStore(req.op) => pinWe

PairStored ==
    ~parked /\ strobe /\ H!IsStore(req.op) =>
        \A i \in PairIndex : PairWord(i) < PairLanded => mem[req.addr + i] = req.data[i]

PairStoreInv == PairWriting /\ PairStored

LEMMA HalfSplit ==
    \A x \in Nat : x = 2 * (x \div 2) + (x % 2) /\ x \div 2 \in Nat /\ x % 2 \in {0, 1}
OBVIOUS

\* Byte i of the access and its place: the word and the lane.
LEMMA PairPlace ==
    ASSUME PairInv, NEW i \in PairIndex
    PROVE  /\ req.addr + i \in H!Addr /\ req.addr + i \in Nat /\ i \in H!Lane
           /\ PairWord(i) \in 0..2
           /\ (req.addr + i) \div 2 = PairAt(PairWord(i))
           /\ (req.addr + i) % 2 = ((req.addr % 2) + i) % 2
           /\ req.addr + i = 2 * PairAt(PairWord(i)) + (((req.addr % 2) + i) % 2)
           /\ req.addr + i \in H!Footprint(req) /\ (req.addr + i) - req.addr = i
<1> DEFINE q == req.addr \div 2  o == req.addr % 2  p == (o + i) \div 2  l == (o + i) % 2
<1>1. /\ req.addr \in Nat /\ i \in 0..3 /\ i < H!Width(req.op) /\ H!Width(req.op) \in {1, 2, 4}
      /\ req.addr + H!Width(req.op) <= WordRam /\ WordRam \in Nat
  BY PairRange, PairWidth, PairSizes DEF PairIndex, H!SizeAssumption
<1>2. req.addr = 2 * q + o /\ q \in Nat /\ o \in {0, 1}
  BY <1>1, HalfSplit
<1>3. o + i \in Nat
  BY <1>1, <1>2
<1>4. o + i = 2 * p + l /\ p \in Nat /\ l \in {0, 1}
  BY <1>3, HalfSplit
<1>5. \A x \in Nat, y \in {0, 1} : (2 * x + y) \div 2 = x /\ (2 * x + y) % 2 = y
  OBVIOUS
<1> HIDE DEF q, o, p, l
<1>6. req.addr + i = 2 * (q + p) + l /\ q + p \in Nat /\ p \in 0..2
  BY <1>1, <1>2, <1>4
<1>7. (req.addr + i) \div 2 = q + p /\ (req.addr + i) % 2 = l
  BY <1>4, <1>5, <1>6
<1>8. i \in H!Lane /\ (req.addr + i) - req.addr = i /\ req.addr + i \in Nat
  BY <1>1 DEF H!Lane
<1>9. req.addr + i \in H!Addr
  BY <1>1 DEF H!Addr
<1>10. req.addr + i \in H!Footprint(req)
  BY <1>1 DEF H!Footprint
<1> QED BY <1>1, <1>6, <1>7, <1>8, <1>9, <1>10 DEF q, o, p, l, PairWord, PairAt

\* The lanes a word's code enables are those of the bytes that lie in it, and
\* the data on them is theirs.
LEMMA PairLanes ==
    ASSUME PairInv, NEW n \in Nat, H!Code(req, n) # H!NoRequest
    PROVE  /\ \A i \in PairIndex :
                PairWord(i) = n => (req.addr + i) % 2 \in H!Enables(H!Code(req, n))
           /\ \A a \in H!Addr :
                a \div 2 = PairAt(n) /\ a % 2 \in H!Enables(H!Code(req, n)) =>
                  \E i \in PairIndex : /\ a = req.addr + i /\ PairWord(i) = n
                                       /\ H!Outdat(req, n)[a % 2] = req.data[i]
<1> DEFINE c == H!Code(req, n)
<1>1. /\ c.n = n /\ c.width = H!Width(req.op) /\ c.odd = req.addr % 2 /\ req.addr \in Nat
      /\ H!Width(req.op) \in {1, 2, 4}
  BY CodeWord, PairRange, PairWidth
<1>2. H!Enables(c) = {((req.addr % 2) + i) % 2 :
                        i \in {j \in H!Lane : j < H!Width(req.op) /\ PairWord(j) = n}}
  BY <1>1 DEF H!Enables, H!LaneOf, H!WordOf, PairWord
<1>3. ASSUME NEW i \in PairIndex, PairWord(i) = n
      PROVE  (req.addr + i) % 2 \in H!Enables(c)
  <2>1. (req.addr + i) % 2 = ((req.addr % 2) + i) % 2 /\ i \in H!Lane /\ i < H!Width(req.op)
    BY <1>1, PairPlace DEF PairIndex
  <2> QED BY <1>2, <1>3, <2>1
<1>4. ASSUME NEW a \in H!Addr, a \div 2 = PairAt(n), a % 2 \in H!Enables(c)
      PROVE  \E i \in PairIndex : /\ a = req.addr + i /\ PairWord(i) = n
                                  /\ H!Outdat(req, n)[a % 2] = req.data[i]
  <2>1. PICK i \in H!Lane : /\ i < H!Width(req.op) /\ PairWord(i) = n
                            /\ a % 2 = ((req.addr % 2) + i) % 2
    BY <1>2, <1>4
  <2>2. i \in PairIndex /\ i \in 0..3
    BY <1>1, <2>1 DEF PairIndex, H!Lane
  <2>3. req.addr + i = 2 * PairAt(n) + (a % 2)
    BY <2>1, <2>2, PairPlace
  <2>4. a \in Nat /\ a = 2 * (a \div 2) + (a % 2) /\ a % 2 \in {0, 1}
    BY HalfSplit, PairSizes DEF H!Addr, H!SizeAssumption
  <2>5. a = req.addr + i
    BY <1>4, <2>3, <2>4
  <2>6. i = 2 * n + (a % 2) - (req.addr % 2)
    <3>1. (req.addr % 2) + i \in Nat
      BY <1>1, <2>2
    <3>2. (req.addr % 2) + i = 2 * n + (a % 2)
      BY <2>1, <3>1, HalfSplit DEF PairWord
    <3> QED BY <1>1, <2>2, <2>4, <3>2
  <2>7. H!Outdat(req, n)[a % 2] = req.data[i]
    BY <2>1, <2>4, <2>6 DEF H!Outdat, H!Half
  <2> QED BY <2>1, <2>2, <2>5, <2>7
<1> QED BY <1>3, <1>4

\* At the falling edge the word on the pins reaches the chip, and that is all.
LEMMA PairNegedgeSeen ==
    ASSUME PairInv, H!Negedge, NEW a \in H!Addr
    PROVE  PairSeen(a)' = PairSeen(a) /\ mem'[a] = PairSeen(a)
<1>1. edge = "neg" /\ edge' = "pos"
  BY DEF H!Negedge
<1>2. mem'[a] = PairSeen(a)
  BY <1>1 DEF H!Negedge, H!Chip, PairSeen
<1>3. PairSeen(a)' = mem'[a]
  BY <1>1 DEF PairSeen
<1> QED BY <1>2, <1>3

\* At the rising edge a word of the store in progress comes up on the pins,
\* or none.
LEMMA PairPosedgeSeen ==
    ASSUME PairInv, H!Posedge, NEW a \in H!Addr
    PROVE  PairSeen(a) = mem[a]
           /\ (PairSeen(a)' # PairSeen(a) =>
                 /\ H!Request # H!NoRequest /\ strobe /\ H!IsStore(req.op)
                 /\ a \in H!Footprint(req))
<1>1. edge = "pos" /\ edge' = "neg" /\ mem' = mem
  BY DEF H!Posedge
<1>2. PairSeen(a) = mem[a]
  BY <1>1 DEF PairSeen
<1>3. ASSUME PairSeen(a)' # PairSeen(a)
      PROVE  /\ H!Request # H!NoRequest /\ strobe /\ H!IsStore(req.op)
             /\ a \in H!Footprint(req)
  <2>1. pinWe' /\ a \div 2 = pinAdr' /\ a % 2 \in pinLanes'
    BY <1>1, <1>2, <1>3 DEF PairSeen
  <2>2. H!Request # H!NoRequest /\ ~H!VgaReq /\ H!IsStore(req.op)
    BY <2>1 DEF H!Posedge, H!Controller
  <2>3. pinAdr' = PairAt(wordcnt) /\ pinLanes' = H!Enables(H!Request)
    BY <2>2 DEF H!Posedge, H!Controller, PairAt
  <2>4. strobe /\ H!Request = H!Code(req, wordcnt) /\ wordcnt \in Nat
    BY <2>2, PairRequest, PairRange DEF H!TypeOK
  <2>5. PICK i \in PairIndex : a = req.addr + i
    BY <2>1, <2>2, <2>3, <2>4, PairLanes
  <2> QED BY <2>2, <2>4, <2>5, PairPlace
<1> QED BY <1>2, <1>3

LEMMA PairCounter ==
    ASSUME PairInv, H!Negedge
    PROVE  /\ wordcnt' = IF stall THEN wordcnt
                         ELSE IF ack # H!NoRequest /\ H!More(ack) THEN ack.n + 1 ELSE 0
           /\ ack # H!NoRequest => ack.n = wordcnt /\ busy
<1>1. /\ edge = "neg" /\ wordcnt \in 0..2
      /\ wordcnt' = IF stall THEN wordcnt ELSE IF H!More(ack) THEN (wordcnt + 1) % 4 ELSE 0
  BY DEF H!Negedge, H!WordCounter, PairInv, H!TypeOK
<1>2. ack # H!NoRequest => ack.n = wordcnt /\ busy
  BY <1>1 DEF PairInv, PairCodes
<1>3. CASE ack = H!NoRequest
  BY <1>1, <1>3, NoMore
<1>4. CASE ack # H!NoRequest
  <2>1. H!More(ack) => (wordcnt + 1) % 4 = ack.n + 1
    BY <1>1, <1>2, <1>4, PairAck
  <2> QED BY <1>1, <1>2, <1>4, <2>1
<1> QED BY <1>3, <1>4

\* No byte of an access lies past its last word.
LEMMA PairLast ==
    ASSUME PairInv, ack # H!NoRequest, ~H!More(ack), NEW i \in PairIndex
    PROVE  PairWord(i) <= ack.n
<1>1. /\ (req.addr % 2) + H!Width(req.op) - 1 < 2 * ack.n + 2 /\ ack.n \in 0..2
      /\ H!Width(req.op) \in {1, 2, 4} /\ req.addr % 2 \in {0, 1}
  BY PairAck, PairWidth, PairRange, HalfSplit
<1>2. i \in Nat /\ i <= H!Width(req.op) - 1
  BY <1>1 DEF PairIndex
<1>3. (req.addr % 2) + i \in Nat /\ (req.addr % 2) + i < 2 * ack.n + 2
  BY <1>1, <1>2
<1>4. \A x \in Nat, n \in 0..2 : x < 2 * n + 2 => x \div 2 <= n
  OBVIOUS
<1> QED BY <1>1, <1>3, <1>4 DEF PairWord

\* A freshly issued access has nothing written or read yet.
LEMMA PairFresh ==
    ASSUME PairInv, H!Negedge, NEW r \in H!Requests, H!Issue(r)
    PROVE  /\ ack = H!NoRequest /\ ack' = H!NoRequest
           /\ ~parked' => wordcnt' = 0 /\ PairTaken' = 0 /\ PairLanded' = 0
           /\ \A i \in PairIndex' : ~(PairWord(i)' < 0)
<1>1. edge' = "pos" /\ ack' = ack /\ ~busy
  BY DEF H!Negedge, H!ramVars, H!Issue
<1>2. ack = H!NoRequest
  BY <1>1, PairCounter
<1>3. ~parked' => wordcnt' = 0
  BY <1>1, <1>2, PairNegedge DEF PairInv, PairCodes
<1>4. PairTaken' = 0 /\ PairLanded' = wordcnt'
  BY <1>1, <1>2 DEF PairTaken, PairLanded, H!LastAck
<1>5. ASSUME NEW i \in PairIndex' PROVE ~(PairWord(i)' < 0)
  <2>1. req'.addr \in Nat /\ i \in Nat
    BY PairRequests, PairSizes, PairWidth
       DEF H!Issue, H!Access, H!Addr, H!SizeAssumption, PairIndex
  <2>2. (req'.addr % 2) + i \in Nat
    BY <2>1, HalfSplit
  <2> QED BY <2>2, HalfSplit DEF PairWord
<1> QED BY <1>1, <1>2, <1>3, <1>4, <1>5

LEMMA PairStoreNegedge == ASSUME PairInv, PairStoreInv, H!Negedge PROVE PairStoreInv'
<1>1. /\ edge = "neg" /\ edge' = "pos" /\ (parked' <=> rst > 0)
      /\ UNCHANGED <<ack, stall, busy>>
  BY DEF H!Negedge, H!ramVars, H!adapterVars
<1>2. PairWriting'
  BY <1>1 DEF PairWriting
<1>3. CASE \E r \in H!Requests : H!Issue(r)
  BY <1>2, <1>3, PairFresh DEF PairStoreInv, PairStored
<1>4. CASE H!Rest \/ H!Park
  BY <1>2, <1>4 DEF H!Rest, H!Park, PairStoreInv, PairStored
<1>5. CASE H!Reissue
  <2>1. ~parked /\ busy /\ UNCHANGED <<strobe, req>>
    BY <1>5 DEF H!Reissue
  <2> SUFFICES ASSUME ~parked', strobe, H!IsStore(req.op), NEW i \in PairIndex,
                      PairWord(i) < PairLanded'
               PROVE  mem'[req.addr + i] = req.data[i]
    BY <1>2, <2>1 DEF PairStoreInv, PairStored, PairIndex, PairWord
  <2>2. PICK a \in H!Addr : a = req.addr + i
    BY PairPlace
  <2> SUFFICES PairSeen(a) = req.data[i]
    BY <2>2, PairNegedgeSeen
  <2>3. PairWord(i) \in 0..2 /\ a \div 2 = PairAt(PairWord(i))
    BY <2>2, PairPlace
  <2>4. PairWord(i) < wordcnt => mem[a] = req.data[i]
    BY <1>1, <2>1, <2>2 DEF PairStoreInv, PairStored, PairLanded
  <2>5. PairLanded' = IF ack # H!NoRequest /\ ~H!More(ack) /\ ~stall THEN 4
                      ELSE IF stall THEN wordcnt
                      ELSE IF ack # H!NoRequest THEN ack.n + 1 ELSE 0
    BY <1>1, PairCounter DEF PairLanded, H!LastAck
  <2>6. CASE pinWe
    <3>1. /\ ack # H!NoRequest /\ ~stall /\ pinAdr = PairAt(ack.n)
          /\ pinLanes = H!Enables(ack) /\ pinDat = H!Outdat(req, ack.n)
      BY <1>1, <2>6 DEF PairStoreInv, PairWriting
    <3>2. ack = H!Code(req, ack.n) /\ ack.n \in 0..2 /\ ack.n = wordcnt
      BY <3>1, PairAck, PairCounter
    <3>3. PairWord(i) <= ack.n
      BY <2>3, <2>5, <3>1, <3>2, PairLast
    <3>4. CASE PairWord(i) = ack.n
      <4>1. a \div 2 = pinAdr /\ a % 2 \in pinLanes
        BY <2>2, <2>3, <3>1, <3>2, <3>4, PairLanes
      <4>2. PICK j \in PairIndex : a = req.addr + j /\ H!Outdat(req, ack.n)[a % 2] = req.data[j]
        BY <3>1, <3>2, <4>1, PairLanes
      <4>3. j = i
        BY <2>2, <4>2, PairRange, PairPlace DEF H!Lane
      <4> QED BY <1>1, <2>6, <3>1, <4>1, <4>2, <4>3 DEF PairSeen
    <3>5. CASE PairWord(i) # ack.n
      <4>1. a \div 2 # pinAdr
        <5>1. req.addr \div 2 \in Nat
          BY PairRange, HalfSplit
        <5> QED BY <2>3, <3>1, <3>2, <3>5, <5>1 DEF PairAt
      <4> QED BY <2>3, <2>4, <3>2, <3>3, <3>5, <4>1 DEF PairSeen
    <3> QED BY <3>4, <3>5
  <2>7. CASE ~pinWe
    <3>1. ack = H!NoRequest \/ stall
      BY <1>1, <2>7 DEF PairStoreInv, PairWriting
    <3>2. PairWord(i) < wordcnt
      BY <2>3, <2>5, <3>1, PairNegedge, <1>1 DEF PairInv, PairCodes
    <3> QED BY <2>4, <2>7, <3>2 DEF PairSeen
  <2> QED BY <2>6, <2>7
<1> QED BY <1>3, <1>4, <1>5 DEF H!Negedge

LEMMA PairStorePosedge == ASSUME PairInv, PairStoreInv, H!Posedge PROVE PairStoreInv'
<1>1. /\ edge = "pos" /\ edge' = "neg"
      /\ UNCHANGED <<strobe, req, parked, wordcnt, mem>>
      /\ (busy' <=> strobe /\ ~H!LastAck)
      /\ ack' = H!Request /\ (stall' <=> H!VgaReq)
      /\ (pinWe' <=> H!Request # H!NoRequest /\ ~H!VgaReq /\ H!IsStore(req.op))
  BY DEF H!Posedge, H!Adapter, H!Controller, H!cpuVars
<1>2. ASSUME pinWe' PROVE /\ strobe /\ H!IsStore(req.op) /\ ack' # H!NoRequest /\ ~stall'
                          /\ pinAdr' = PairAt(ack'.n) /\ pinLanes' = H!Enables(ack')
                          /\ pinDat' = H!Outdat(req, ack'.n)
  <2>1. strobe /\ H!Request.n = wordcnt
    BY <1>1, <1>2, PairRequest
  <2> QED BY <1>1, <1>2, <2>1 DEF H!Posedge, H!Controller, PairAt
<1>3. PairWriting'
  BY <1>1, <1>2 DEF PairWriting, PairAt
<1>4. strobe => PairLanded' = PairLanded
  BY <1>1 DEF PairLanded
<1>5. PairStored'
  BY <1>1, <1>4 DEF PairStoreInv, PairStored, PairIndex, PairWord
<1> QED BY <1>3, <1>5 DEF PairStoreInv

LEMMA PairLoadNegedge ==
    ASSUME PairInv, PairStoreInv, PairLoadInv, H!Negedge PROVE PairLoadInv'
<1>1. /\ edge = "neg" /\ edge' = "pos" /\ UNCHANGED <<ack, stall, busy, buffer>>
  BY DEF H!Negedge, H!ramVars, H!adapterVars
<1>2. CASE \E r \in H!Requests : H!Issue(r)
  BY <1>1, <1>2, PairFresh DEF PairLoadInv, PairReading
<1>3. CASE H!Rest \/ H!Park
  BY <1>3 DEF H!Rest, H!Park, PairLoadInv
<1>4. CASE H!Reissue
  <2>1. ~parked /\ busy /\ UNCHANGED <<strobe, req>>
    BY <1>4 DEF H!Reissue
  <2> SUFFICES ASSUME strobe, ~H!IsStore(req.op)
               PROVE  /\ PairReading'
                      /\ \A i \in PairIndex : PairWord(i) < PairTaken'
                                                => buffer[i] = mem'[req.addr + i]
    BY <1>1, <2>1 DEF PairLoadInv, PairIndex, PairWord
  <2>2. ~pinWe
    BY <1>1 DEF PairStoreInv, PairWriting
  <2>3. mem' = mem
    BY <2>2 DEF H!Negedge, H!Chip, PairInv, H!TypeOK
  <2>4. PairReading'
    <3> SUFFICES ASSUME ack # H!NoRequest, ~stall, NEW l \in H!Enables(ack)
                 PROVE  sample'[l] = mem[2 * PairAt(ack.n) + l]
      BY <1>1, <2>1, <2>3 DEF PairReading, PairAt
    <3>1. pinAdr = PairAt(ack.n) /\ pinLanes = H!Enables(ack) /\ pinLanes \subseteq H!Half
      BY <1>1, <2>1 DEF PairLoadInv, PairReading, PairInv, H!TypeOK
    <3> QED BY <2>2, <3>1 DEF H!Negedge, H!Chip
  <2>5. ASSUME NEW i \in PairIndex, PairWord(i) < PairTaken' PROVE buffer[i] = mem[req.addr + i]
    <3>1. PairTaken' = IF ack = H!NoRequest THEN 0 ELSE wordcnt
      BY <1>1, PairCounter DEF PairTaken
    <3>2. PairWord(i) < wordcnt
      BY <2>5, <3>1, PairPlace
    <3> QED BY <1>1, <2>1, <3>2 DEF PairLoadInv, PairTaken
  <2> QED BY <2>3, <2>4, <2>5
<1> QED BY <1>2, <1>3, <1>4 DEF H!Negedge

LEMMA PairLoadPosedge == ASSUME PairInv, PairLoadInv, H!Posedge PROVE PairLoadInv'
<1>1. /\ edge = "pos" /\ edge' = "neg"
      /\ UNCHANGED <<strobe, req, parked, wordcnt, mem>>
      /\ (busy' <=> strobe /\ ~H!LastAck)
      /\ ack' = H!Request /\ (stall' <=> H!VgaReq)
      /\ (pinWe' <=> H!Request # H!NoRequest /\ ~H!VgaReq /\ H!IsStore(req.op))
  BY DEF H!Posedge, H!Adapter, H!Controller, H!cpuVars
<1> SUFFICES ASSUME ~parked, strobe, ~H!IsStore(req.op)
             PROVE  /\ PairReading' /\ lastOp' = req.op
                    /\ \A i \in PairIndex : PairWord(i) < PairTaken'
                                              => buffer'[i] = mem[req.addr + i]
  BY <1>1 DEF PairLoadInv, PairIndex, PairWord
<1>2. lastOp' = req.op
  BY DEF H!Posedge, H!BusUnit
<1>3. PairReading'
  <2> SUFFICES ASSUME ack' # H!NoRequest, ~stall'
               PROVE  ~pinWe' /\ pinAdr' = PairAt(ack'.n) /\ pinLanes' = H!Enables(ack')
    BY <1>1 DEF PairReading, PairAt
  <2>1. H!Request.n = wordcnt
    BY <1>1, PairRequest
  <2> QED BY <1>1, <2>1 DEF H!Posedge, H!Controller, PairAt
<1>4. ASSUME NEW i \in PairIndex, PairWord(i) < PairTaken'
      PROVE  buffer'[i] = mem[req.addr + i]
  <2>1. /\ i \in H!Lane /\ i < H!Width(req.op) /\ PairWord(i) \in 0..2
        /\ (req.addr + i) % 2 = ((req.addr % 2) + i) % 2
        /\ req.addr + i = 2 * PairAt(PairWord(i)) + ((req.addr + i) % 2)
    <3>1. i < H!Width(req.op)
      BY PairWidth DEF PairIndex
    <3> QED BY <3>1, PairPlace
  <2>2. buffer' = H!Filled(buffer, ack, sample)
    BY DEF H!Posedge, H!Adapter
  <2>3. PairTaken' = IF H!LastAck THEN 4 ELSE wordcnt
    BY <1>1 DEF PairTaken
  <2>4. ack # H!NoRequest
    <3>1. ack = H!NoRequest => wordcnt = 0
      BY DEF PairInv, PairCodes
    <3> QED BY <1>4, <2>1, <2>3, <3>1 DEF H!LastAck
  <2>5. /\ ack.width = H!Width(req.op) /\ ack.odd = req.addr % 2 /\ ack.n \in 0..2
        /\ ack = H!Code(req, ack.n)
    BY <2>4, PairAck
  <2>6. buffer'[i] = IF PairWord(i) = ack.n THEN sample[(req.addr + i) % 2] ELSE buffer[i]
    BY <2>1, <2>2, <2>5 DEF H!Filled, H!WordOf, H!LaneOf, PairWord
  <2>7. PairWord(i) < ack.n => buffer[i] = mem[req.addr + i]
    BY <1>1, <2>4 DEF PairLoadInv, PairTaken
  <2>8. wordcnt = IF stall THEN ack.n ELSE IF H!More(ack) THEN ack.n + 1 ELSE 0
    BY <1>1, <2>4 DEF PairInv, PairCodes
  <2>9. PairWord(i) <= ack.n /\ (PairWord(i) = ack.n => ~stall)
    <3>1. CASE stall \/ H!More(ack)
      BY <1>4, <2>1, <2>3, <2>5, <2>8, <3>1 DEF H!LastAck
    <3>2. CASE ~stall /\ ~H!More(ack)
      BY <2>4, <3>2, PairLast
    <3> QED BY <3>1, <3>2
  <2>10. ASSUME PairWord(i) = ack.n PROVE sample[(req.addr + i) % 2] = mem[req.addr + i]
    <3>1. (req.addr + i) % 2 \in H!Enables(ack)
      BY <2>4, <2>5, <2>10, PairLanes
    <3>2. \A l \in H!Enables(ack) : sample[l] = mem[2 * PairAt(ack.n) + l]
      BY <1>1, <2>4, <2>9, <2>10 DEF PairLoadInv, PairReading
    <3> QED BY <2>1, <2>10, <3>1, <3>2
  <2> QED BY <2>1, <2>5, <2>6, <2>7, <2>9, <2>10
<1> QED BY <1>2, <1>3, <1>4
-----------------------------------------------------------------------------
(* The board with the 16-bit path is the promised memory, step by step. *)

LEMMA PairAbstractWords ==
    /\ \A op : H!Abstract!IsStore(op) <=> H!IsStore(op)
    /\ \A op : H!Abstract!Width(op) = H!Width(op)
    /\ \A op, b : H!Abstract!Extend(op, b) = H!Extend(op, b)
    /\ \A r : H!Abstract!Footprint(r) = H!Footprint(r)
    /\ H!Abstract!Lane = H!Lane
BY DEF H!Abstract!IsStore, H!IsStore, H!Abstract!Width, H!Width, H!Abstract!Extend, H!Extend,
   H!Abstract!Footprint, H!Footprint, H!Abstract!SignFill, H!SignFill, H!Abstract!Lane, H!Lane

LEMMA PairNone == \A r \in H!Access(H!Addr, H!Word) : r # None
BY NoneAssumption DEF Access, H!Access, BusOp, H!BusOp, Word, H!Word, Lane, H!Lane, Byte, H!Byte

PairPending == IF H!Outstanding THEN req ELSE None

LEMMA PairRequested ==
    ASSUME ~H!Outstanding, H!Outstanding', req' \in H!Requests,
           \A a \in H!Addr : PairSeen(a)' = PairSeen(a),
           H!AbstractResult' = H!AbstractResult
    PROVE  H!Abstract!Next
<1>1. PairPending = None /\ PairPending' = req'
  BY DEF PairPending
<1>2. H!AbstractMemory' = IF H!Abstract!IsStore(req'.op)
                          THEN H!Abstract!Stored(H!AbstractMemory, req') ELSE H!AbstractMemory
  BY PairAbstractWords DEF H!AbstractMemory, PairSeen, H!Abstract!Stored
<1>3. H!Abstract!Request
  BY <1>1, <1>2 DEF H!Abstract!Request, PairPending
<1> QED BY <1>3 DEF H!Abstract!Next

LEMMA PairAbort ==
    ASSUME H!Outstanding, ~H!Outstanding', rst > 0, req \in H!Access(H!Addr, H!Word),
           \A a \in H!Addr : PairSeen(a)' = PairSeen(a),
           H!AbstractResult' = H!AbstractResult
    PROVE  H!Abstract!Next
<1>1. PairPending = req /\ PairPending' = None /\ PairPending # None
  BY PairNone DEF PairPending
<1>2. DOMAIN H!AbstractMemory' = H!Addr
  BY DEF H!AbstractMemory
<1>3. ASSUME NEW a \in H!Addr, H!AbstractMemory'[a] # H!AbstractMemory[a]
      PROVE  H!Abstract!IsStore(req.op) /\ a \in H!Abstract!Footprint(req)
  BY <1>3, PairAbstractWords DEF H!AbstractMemory, PairSeen
<1>4. H!Abstract!Abort
  BY <1>1, <1>2, <1>3 DEF H!Abstract!Abort, PairPending
<1> QED BY <1>4 DEF H!Abstract!Next

LEMMA PairStutter ==
    ASSUME (H!Outstanding \/ H!Outstanding') => req' = req,
           H!Outstanding' <=> H!Outstanding,
           H!AbstractResult' = H!AbstractResult,
           \A a \in H!Addr : PairSeen(a)' # PairSeen(a)
                               => H!Outstanding /\ H!IsStore(req.op) /\ a \in H!Footprint(req)
    PROVE  H!Abstract!Next
<1>1. PairPending' = PairPending
  BY DEF PairPending
<1>2. H!AbstractMemory' = H!AbstractMemory
  BY DEF H!AbstractMemory, PairSeen
<1> QED BY <1>1, <1>2 DEF H!Abstract!Next, PairPending

LEMMA PairFootprint ==
    ASSUME PairInv, NEW a \in H!Footprint(req)
    PROVE  a - req.addr \in PairIndex /\ req.addr + (a - req.addr) = a
<1>1. req.addr \in Nat /\ H!Width(req.op) \in {1, 2, 4}
  BY PairRange, PairWidth
<1> QED BY <1>1 DEF H!Footprint, PairIndex

LEMMA PairRespond ==
    ASSUME PairInv, H!Outstanding, ~H!Outstanding',
           \A a \in H!Addr : PairSeen(a)' = PairSeen(a),
           H!IsStore(req.op) =>
               /\ H!AbstractResult' = H!AbstractResult
               /\ \A i \in PairIndex : PairSeen(req.addr + i) = req.data[i],
           ~H!IsStore(req.op) =>
               \E buf \in H!Word :
                   /\ H!AbstractResult' = H!Extend(req.op, buf)
                   /\ \A i \in PairIndex : buf[i] = PairSeen(req.addr + i)
    PROVE  H!Abstract!Next
<1>1. PairPending = req /\ PairPending' = None /\ PairPending # None
  BY PairNone DEF PairPending, PairInv, H!TypeOK
<1>2. H!AbstractMemory' = H!AbstractMemory
  <2>1. ASSUME NEW a \in H!Addr, H!IsStore(req.op), a \in H!Footprint(req)
        PROVE  PairSeen(a) = req.data[a - req.addr]
    <3>1. a - req.addr \in PairIndex /\ req.addr + (a - req.addr) = a
      BY <2>1, PairFootprint
    <3> QED BY <2>1, <3>1
  <2> QED BY <2>1 DEF H!AbstractMemory, PairSeen
<1>3. ASSUME ~H!IsStore(req.op)
      PROVE  H!AbstractResult' = H!Extend(req.op, H!Abstract!Loaded(H!AbstractMemory, req))
  <2>1. PICK buf \in H!Word : /\ H!AbstractResult' = H!Extend(req.op, buf)
                              /\ \A i \in PairIndex : buf[i] = PairSeen(req.addr + i)
    BY <1>3
  <2> DEFINE got == H!Abstract!Loaded(H!AbstractMemory, req)
  <2>2. \A i \in H!Lane : got[i] = IF i < H!Width(req.op) THEN buf[i] ELSE 0
    <3> SUFFICES ASSUME NEW i \in H!Lane
                 PROVE  got[i] = IF i < H!Width(req.op) THEN buf[i] ELSE 0
      OBVIOUS
    <3>1. got[i] = IF i < H!Width(req.op) THEN H!AbstractMemory[req.addr + i] ELSE 0
      BY PairAbstractWords DEF H!Abstract!Loaded
    <3>2. CASE i < H!Width(req.op)
      <4>1. i \in PairIndex /\ req.addr + i \in H!Addr
        BY <3>2, PairWidth, PairPlace DEF PairIndex, H!Lane
      <4>2. H!AbstractMemory[req.addr + i] = PairSeen(req.addr + i)
        BY <1>3, <4>1 DEF H!AbstractMemory, PairSeen
      <4> QED BY <2>1, <3>1, <3>2, <4>1, <4>2
    <3> QED BY <3>1, <3>2
  <2>3. got = [i \in H!Lane |-> IF i < H!Width(req.op) THEN buf[i] ELSE 0]
    BY <2>2, PairAbstractWords DEF H!Abstract!Loaded
  <2>4. H!Extend(req.op, got) = H!Extend(req.op, buf)
    <3>1. req.op \in {"READB", "READBU", "READH", "READHU", "READW"}
      BY <1>3, PairRange DEF H!BusOp, H!IsStore
    <3>2. CASE req.op \in {"READB", "READBU"}
      BY <2>3, <3>2 DEF H!Extend, H!Width, H!Lane
    <3>3. CASE req.op \in {"READH", "READHU"}
      BY <2>3, <3>3 DEF H!Extend, H!Width, H!Lane
    <3>4. CASE req.op = "READW"
      BY <2>3, <3>4 DEF H!Extend, H!Width, H!Lane, H!Word
    <3> QED BY <3>1, <3>2, <3>3, <3>4
  <2> QED BY <2>1, <2>4
<1>4. H!Abstract!Respond
  BY <1>1, <1>2, <1>3, PairAbstractWords DEF H!Abstract!Respond, PairPending
<1> QED BY <1>4 DEF H!Abstract!Next

LEMMA PairRefineNegedge == ASSUME PairInv, H!Negedge PROVE H!Abstract!Next
<1>1. /\ edge = "neg" /\ edge' = "pos" /\ (parked' <=> rst > 0)
      /\ UNCHANGED <<busy, buffer, lastOp, result, rst>>
  BY DEF H!Negedge, H!unitVars, H!adapterVars
<1>2. H!TypeOK /\ req \in H!Access(H!Addr, H!Word) /\ (~parked /\ ~strobe => ~busy)
  BY DEF PairInv, H!TypeOK, PairCodes
<1>3. ~H!Served' /\ (H!Outstanding' <=> strobe')
  BY <1>1 DEF H!Served, H!Outstanding
<1>4. H!AbstractResult' = H!AbstractResult
  <2>1. capture' <=> H!Served /\ ~H!IsStore(req.op)
    BY <1>1, <1>2
       DEF H!Negedge, H!Issue, H!Reissue, H!Rest, H!Park, H!ReadServed, H!Served, H!TypeOK
  <2> QED BY <1>1, <1>3, <2>1 DEF H!AbstractResult
<1>5. \A a \in H!Addr : PairSeen(a)' = PairSeen(a)
  BY PairNegedgeSeen
<1>6. ~parked /\ ~busy => ~H!Outstanding
  BY <1>1 DEF H!Outstanding, H!Served
<1>7. CASE \E r \in H!Requests : H!Issue(r)
  <2>1. ~parked /\ ~busy /\ strobe' /\ req' \in H!Requests
    BY <1>7 DEF H!Issue
  <2>2. ~H!Outstanding /\ H!Outstanding'
    BY <1>3, <1>6, <2>1
  <2> QED BY <1>4, <1>5, <2>1, <2>2, PairRequested
<1>8. CASE H!Reissue
  <2>1. UNCHANGED <<strobe, req>> /\ ~H!Served
    BY <1>8 DEF H!Reissue, H!Served
  <2>2. H!Outstanding' <=> H!Outstanding
    BY <1>3, <2>1 DEF H!Outstanding
  <2> QED BY <1>4, <1>5, <2>1, <2>2, PairStutter
<1>9. CASE H!Rest
  <2>1. ~parked /\ ~busy /\ strobe' = FALSE /\ req' = req
    BY <1>9 DEF H!Rest
  <2>2. ~H!Outstanding /\ ~H!Outstanding'
    BY <1>3, <1>6, <2>1
  <2> QED BY <1>4, <1>5, <2>1, <2>2, PairStutter
<1>10. CASE H!Park
  <2>1. parked /\ strobe' = FALSE /\ req' = req
    BY <1>10 DEF H!Park
  <2>2. ~H!Outstanding' /\ (H!Outstanding <=> strobe)
    BY <1>3, <2>1 DEF H!Outstanding, H!Served
  <2>3. CASE ~strobe
    BY <1>4, <1>5, <2>1, <2>2, <2>3, PairStutter
  <2>4. CASE strobe
    <3>1. rst > 0
      BY <1>2, <2>1, <2>4, PairSizes DEF PairInv, H!TypeOK, PairReset, BoundAssumption
    <3> QED BY <1>2, <1>4, <1>5, <2>2, <2>4, <3>1, PairAbort
  <2> QED BY <2>3, <2>4
<1> QED BY <1>7, <1>8, <1>9, <1>10 DEF H!Negedge

LEMMA PairRefinePosedge ==
    ASSUME PairInv, PairStoreInv, PairInv', PairLoadInv', H!Posedge
    PROVE  H!Abstract!Next
<1>1. /\ edge = "pos" /\ edge' = "neg" /\ UNCHANGED <<strobe, req, parked, capture, mem>>
      /\ (busy' <=> strobe /\ ~H!LastAck)
      /\ result' = IF capture THEN H!Extend(lastOp, buffer) ELSE result
  BY DEF H!Posedge, H!Adapter, H!BusUnit, H!cpuVars
<1>2. H!TypeOK /\ req \in H!Access(H!Addr, H!Word)
  BY DEF PairInv, H!TypeOK
<1>3. ~H!Served /\ (H!Outstanding <=> strobe)
  BY <1>1 DEF H!Served, H!Outstanding
<1>4. H!Served' <=> strobe /\ H!LastAck /\ ~parked
  BY <1>1 DEF H!Served
<1>5. H!Outstanding' <=> strobe /\ ~H!Served'
  BY <1>1 DEF H!Outstanding
<1>6. H!AbstractResult' = IF H!Served' /\ ~H!IsStore(req.op) THEN H!Extend(lastOp', buffer')
                          ELSE H!AbstractResult
  BY <1>1, <1>3 DEF H!AbstractResult
<1>7. CASE ~H!Served'
  <2>1. H!Outstanding' <=> H!Outstanding
    BY <1>3, <1>5, <1>7
  <2>2. H!AbstractResult' = H!AbstractResult
    BY <1>6, <1>7
  <2>3. \A a \in H!Addr : PairSeen(a)' # PairSeen(a)
                            => H!Outstanding /\ H!IsStore(req.op) /\ a \in H!Footprint(req)
    BY <1>3, PairPosedgeSeen
  <2> QED BY <1>1, <2>1, <2>2, <2>3, PairStutter
<1>8. CASE H!Served'
  <2>1. strobe /\ H!LastAck /\ ~parked /\ ~busy'
    BY <1>1, <1>4, <1>8
  <2>2. H!Outstanding /\ ~H!Outstanding'
    BY <1>3, <1>5, <1>8, <2>1
  <2>3. \A a \in H!Addr : PairSeen(a)' = PairSeen(a) /\ PairSeen(a) = mem[a]
    BY <2>1, PairPosedgeSeen, PairRequest
  <2>4. \A i \in PairIndex : PairWord(i) < 4 /\ req.addr + i \in H!Addr
    BY PairPlace
  <2>5. ASSUME H!IsStore(req.op)
        PROVE  /\ H!AbstractResult' = H!AbstractResult
               /\ \A i \in PairIndex : PairSeen(req.addr + i) = req.data[i]
    <3>1. PairLanded = 4
      BY <1>1, <2>1 DEF PairLanded
    <3> QED BY <1>6, <2>1, <2>3, <2>4, <2>5, <3>1 DEF PairStoreInv, PairStored
  <2>6. ASSUME ~H!IsStore(req.op)
        PROVE  /\ buffer' \in H!Word /\ H!AbstractResult' = H!Extend(req.op, buffer')
               /\ \A i \in PairIndex : buffer'[i] = PairSeen(req.addr + i)
    <3>1. lastOp' = req.op /\ buffer' \in H!Word
      BY <2>1 DEF H!Posedge, H!BusUnit, PairInv, H!TypeOK
    <3>2. PairTaken' = 4
      BY <1>1, <2>1 DEF PairTaken
    <3>3. \A i \in PairIndex : PairWord(i) < PairTaken' => buffer'[i] = mem'[req.addr + i]
      BY <1>1, <2>1, <2>6 DEF PairLoadInv, PairIndex, PairWord
    <3> QED BY <1>1, <1>6, <1>8, <2>3, <2>4, <2>6, <3>1, <3>2, <3>3
  <2> QED BY <2>2, <2>3, <2>5, <2>6, PairRespond
<1> QED BY <1>7, <1>8
-----------------------------------------------------------------------------
(* The two boards together. *)

BytesInv == ByteInv /\ ByteStoreInv /\ ByteLoadInv
WordsInv == PairInv /\ PairStoreInv /\ PairLoadInv

NarrowInv == IF board = "bytes" THEN BytesInv ELSE board = "words" /\ WordsInv

LEMMA BytesStart == B!Init => BytesInv /\ B!Abstract!Init
<1> SUFFICES ASSUME B!Init PROVE BytesInv /\ B!Abstract!Init
  OBVIOUS
<1>1. ~strobe /\ ~stb /\ pulse = "none" /\ edge = "pos"
  BY DEF B!Init, B!InitPort
<1>2. ByteStoreInv /\ ByteLoadInv
  BY <1>1 DEF ByteStoreInv, ByteCounted, ByteBeat, ByteWriting, ByteStored, ByteLoadInv
<1>3. B!Abstract!Init
  BY <1>1 DEF B!Abstract!Init, B!Outstanding
<1> QED BY <1>2, <1>3, ByteInit_ DEF BytesInv

LEMMA WordsStart == H!Init => WordsInv /\ H!Abstract!Init
<1> SUFFICES ASSUME H!Init PROVE WordsInv /\ H!Abstract!Init
  OBVIOUS
<1>1. ~strobe /\ edge = "pos"
  BY DEF H!Init, H!InitPort
<1>2. PairStoreInv /\ PairLoadInv
  BY <1>1 DEF PairStoreInv, PairWriting, PairStored, PairLoadInv
<1>3. H!Abstract!Init
  BY <1>1 DEF H!Abstract!Init, H!Outstanding
<1> QED BY <1>2, <1>3, PairStart DEF WordsInv

LEMMA BytesRest ==
    UNCHANGED vars => (BytesInv => BytesInv') /\ UNCHANGED B!Abstract!vars
<1> SUFFICES ASSUME UNCHANGED vars
             PROVE  (BytesInv => BytesInv') /\ UNCHANGED B!Abstract!vars
  OBVIOUS
<1>1. ByteInv => ByteInv'
  BY DEF vars, cpuVars, unitVars, byteVars, ByteInv, B!TypeOK, ByteReset, BytePulse, ByteBeats,
     B!Target
<1>2. ByteStoreInv => ByteStoreInv'
  BY DEF vars, cpuVars, unitVars, byteVars, ByteStoreInv, ByteCounted, ByteBeat, ByteOnBus,
     ByteWriting, ByteStored, ByteSeen, ByteIndex, ByteLanded
<1>3. ByteLoadInv => ByteLoadInv'
  BY DEF vars, cpuVars, unitVars, byteVars, ByteLoadInv, ByteIndex, ByteTaken
<1>4. UNCHANGED B!Abstract!vars
  BY DEF vars, cpuVars, unitVars, byteVars, B!Abstract!vars, B!AbstractMemory, B!AbstractResult,
     B!Outstanding, B!Served
<1> QED BY <1>1, <1>2, <1>3, <1>4 DEF BytesInv

LEMMA WordsRest ==
    UNCHANGED vars => (WordsInv => WordsInv') /\ UNCHANGED H!Abstract!vars
<1> SUFFICES ASSUME UNCHANGED vars
             PROVE  (WordsInv => WordsInv') /\ UNCHANGED H!Abstract!vars
  OBVIOUS
<1>1. PairInv => PairInv'
  BY DEF vars, cpuVars, unitVars, wordVars, PairInv, H!TypeOK, PairReset, PairStuck, PairGone,
     PairCodes, H!LastAck
<1>2. PairStoreInv => PairStoreInv'
  BY DEF vars, cpuVars, unitVars, wordVars, PairStoreInv, PairWriting, PairStored, PairIndex,
     PairWord, PairAt, PairLanded, H!LastAck
<1>3. PairLoadInv => PairLoadInv'
  BY DEF vars, cpuVars, unitVars, wordVars, PairLoadInv, PairReading, PairIndex, PairWord,
     PairAt, PairTaken
<1>4. UNCHANGED H!Abstract!vars
  BY DEF vars, cpuVars, unitVars, wordVars, H!Abstract!vars, H!AbstractMemory,
     H!AbstractResult, H!Outstanding, H!Served
<1> QED BY <1>1, <1>2, <1>3, <1>4 DEF WordsInv

LEMMA BytesStep == ASSUME BytesInv, B!Next PROVE BytesInv' /\ B!Abstract!Next
<1>1. CASE B!Negedge
  BY <1>1, ByteNegedge, ByteStoreNegedge, ByteLoadNegedge, ByteRefineNegedge DEF BytesInv
<1>2. CASE B!Posedge
  BY <1>2, BytePosedge, ByteStorePosedge, ByteLoadPosedge, ByteRefinePosedge DEF BytesInv
<1> QED BY <1>1, <1>2 DEF B!Next

LEMMA WordsStep == ASSUME WordsInv, H!Next PROVE WordsInv' /\ H!Abstract!Next
<1>1. CASE H!Negedge
  BY <1>1, PairNegedge, PairStoreNegedge, PairLoadNegedge, PairRefineNegedge DEF WordsInv
<1>2. CASE H!Posedge
  BY <1>2, PairPosedge, PairStorePosedge, PairLoadPosedge, PairRefinePosedge DEF WordsInv
<1> QED BY <1>1, <1>2 DEF H!Next

LEMMA NarrowStep ==
    ASSUME NarrowInv, [Next]_vars
    PROVE  /\ NarrowInv'
           /\ [IF board = "bytes" THEN [B!Abstract!Next]_(B!Abstract!vars)
                                  ELSE [H!Abstract!Next]_(H!Abstract!vars)]_vars
<1>1. board' = board
  BY DEF Next, vars
<1>2. CASE board = "bytes"
  <2>1. BytesInv
    BY <1>2 DEF NarrowInv
  <2>2. B!Next \/ UNCHANGED vars
    BY <1>2 DEF Next
  <2>3. BytesInv' /\ [B!Abstract!Next]_(B!Abstract!vars)
    BY <2>1, <2>2, BytesStep, BytesRest
  <2> QED BY <1>1, <1>2, <2>3 DEF NarrowInv
<1>3. CASE board # "bytes"
  <2>1. WordsInv /\ board = "words"
    BY <1>3 DEF NarrowInv
  <2>2. H!Next \/ UNCHANGED vars
    BY <1>3 DEF Next
  <2>3. WordsInv' /\ [H!Abstract!Next]_(H!Abstract!vars)
    BY <2>1, <2>2, WordsStep, WordsRest
  <2> QED BY <1>1, <1>3, <2>1, <2>3 DEF NarrowInv
<1> QED BY <1>2, <1>3

LEMMA NarrowStart ==
    Init => /\ NarrowInv
            /\ IF board = "bytes" THEN B!Abstract!Init ELSE H!Abstract!Init
BY BytesStart, WordsStart DEF Init, NarrowInv

LEMMA NarrowInvariant == Spec => []NarrowInv
BY NarrowStart, NarrowStep, PTL DEF Spec

\* On either narrow board the answers stay matched to the requests, whatever
\* stalls and resets come between (wishbone8.v: the counters of sent and of
\* acknowledged bytes; memory16.v: the code that comes back as acknowledge).
THEOREM AnswersAreMatched == Spec => []AnswersMatch
<1>1. NarrowInv => AnswersMatch
  BY ByteAccounted, PairMatched DEF NarrowInv, BytesInv, WordsInv, AnswersMatch
<1> QED BY <1>1, NarrowInvariant, PTL

\* Either narrow board is the memory the CPU is promised: loads return the
\* bytes at their address and a store of up to four beats is one atomic store,
\* unless a reset cuts it short.
THEOREM NarrowBusIsAMemory == Spec => ImplementsByteMemory
BY NarrowStart, NarrowStep, NarrowInvariant, PTL DEF Spec, ImplementsByteMemory
==============================================================================
