--------------------------- MODULE Wishbone32_proofs ---------------------------
(***************************************************************************)
(* What holds of the CPU's bus path for every RAM size, every pattern of   *)
(* video stalls and any number of accesses, with a reset at any moment.    *)
(***************************************************************************)
EXTENDS Wishbone32, TLAPS

ReqOK(r) == r \in Access(Addr, Word) /\ r.addr + Width(r.op) <= 4 * NumWords

LEMMA WidthType == \A op : Width(op) \in 1..4
BY DEF Width

LEMMA RequestsOK == ASSUME NEW r \in Requests PROVE ReqOK(r)
BY SizeAssumption DEF Requests, ReqOK, Access

LEMMA TargetType == \A r : WordTarget(r) \in 1..2
BY DEF WordTarget

\* Beat n of an access inside the RAM addresses a word of the RAM.
LEMMA BeatInRam ==
    ASSUME NEW r, ReqOK(r), NEW n \in Nat, n < WordTarget(r)
    PROVE  r.addr \div 4 + n \in WordAdr
<1> DEFINE a == r.addr  w == Width(r.op)
<1>1. a \in 0 .. 4 * NumWords - 1 /\ w \in 1..4 /\ a + w <= 4 * NumWords
  BY WidthType DEF ReqOK, Access, Addr
<1>2. NumWords \in Nat \ {0}
  BY SizeAssumption
<1>3. CASE n = 0
  BY <1>1, <1>2, <1>3 DEF WordAdr
<1>4. CASE n # 0
  <2>1. n = 1 /\ ByteEnables(r, 1) # {}
    BY <1>4 DEF WordTarget
  <2>2. PICK l \in Lane : l + 4 < (a % 4) + w
    BY <2>1 DEF ByteEnables, Offset
  <2>3. 4 < (a % 4) + w
    BY <2>2, <1>1 DEF Lane
  <2>4. a = 4 * (a \div 4) + (a % 4) /\ a \div 4 \in Nat
    BY <1>1
  <2> HIDE DEF a, w
  <2>5. 4 * (a \div 4) + 4 < 4 * NumWords
    BY <2>3, <2>4, <1>1, <1>2
  <2>6. a \div 4 + 1 \in WordAdr
    BY <2>4, <2>5, <1>2 DEF WordAdr
  <2> QED BY <2>1, <2>6 DEF a
<1> QED BY <1>3, <1>4
-----------------------------------------------------------------------------
(* The inductive invariant of the handshake.  A reset cuts it: `parked`     *)
(* says that the control logic sits in STATE_RESET, and ResetInv follows    *)
(* what is still in flight down to an idle bus, clock by clock.             *)

ResetInv ==
    /\ (edge = "pos" /\ rst > 0) \/ rst \in 1 .. ResetCycles - 1 => parked
    /\ addrCount <= WordTarget(req)
    /\ parked /\ rst < ResetCycles => addrCount = 0 /\ ackCount = 0
    /\ parked /\ rst < ResetCycles /\ edge = "pos" => ~strobe
    /\ parked /\ rst <= ResetCycles - 2 => ~strobe /\ ~busy /\ ~stb
    /\ parked /\ rst <= ResetCycles - 3 => ~ack

BeatInv ==
    ~parked => /\ addrCount = ackCount + Count(ack) + Count(stb)
               /\ ~busy => addrCount = 0
               /\ ~strobe => ~busy

IInv == TypeOK /\ ResetInv /\ BeatInv

LEMMA InitIInv == Init => IInv
<1> SUFFICES ASSUME Init PROVE IInv
  OBVIOUS
<1> USE SizeAssumption, BoundAssumption
<1>1. ZeroWord \in Word /\ 0 \in WordAdr /\ 0 \in Addr
  BY DEF ZeroWord, Word, Byte, WordAdr, Addr
<1>2. TypeOK
  <2>1. req \in Access(Addr, Word) /\ req.addr + Width(req.op) <= 4 * NumWords
    BY <1>1 DEF Init, InitPort, Access, BusOp, Width
  <2>2. mem \in [WordAdr -> Word] /\ dout \in [Bank -> Word]
    BY <1>1 DEF Init, InitPort, WordAdr
  <2>3. /\ edge \in {"pos", "neg"} /\ rst \in 0..ResetCycles /\ vgaRun \in 0..MaxVgaRun
        /\ issued \in 0..MaxAccesses /\ ackCount \in 0..3 /\ addrCount \in 0..3
        /\ adr \in WordAdr /\ lastOp \in BusOp
    BY <1>1 DEF Init, InitPort, BusOp
  <2>4. /\ strobe \in BOOLEAN /\ parked \in BOOLEAN /\ capture \in BOOLEAN
        /\ busy \in BOOLEAN /\ stb \in BOOLEAN /\ we \in BOOLEAN /\ ack \in BOOLEAN
        /\ sel \in SUBSET Lane
        /\ dat \in Word /\ buffer \in Word /\ result \in Word /\ readbuf \in Word
    BY <1>1, Zenon DEF Init, InitPort
  <2> QED BY <2>1, <2>2, <2>3, <2>4, Zenon DEF TypeOK
<1>3. ResetInv
  BY TargetType DEF Init, InitPort, ResetInv
<1>4. BeatInv
  BY DEF Init, InitPort, BeatInv, Count
<1> QED BY <1>2, <1>3, <1>4 DEF IInv

LEMMA NegedgeIInv == ASSUME IInv, Negedge PROVE IInv'
<1> USE SizeAssumption, BoundAssumption
<1>1. TypeOK'
  <2>1. req' \in Access(Addr, Word) /\ req'.addr + Width(req'.op) <= 4 * NumWords
    <3>1. CASE \E r \in Requests : Issue(r)
      BY <3>1, RequestsOK DEF Issue, ReqOK
    <3>2. CASE Reissue \/ Rest \/ Park
      BY <3>2 DEF Reissue, Rest, Park, IInv, TypeOK
    <3> QED BY <3>1, <3>2 DEF Negedge
  <2>2. /\ strobe' \in BOOLEAN /\ parked' \in BOOLEAN /\ capture' \in BOOLEAN
        /\ issued' \in 0..MaxAccesses
    <3>1. parked' \in BOOLEAN
      BY DEF Negedge
    <3>2. CASE Reissue \/ Rest \/ Park
      BY <3>1, <3>2, Zenon DEF Reissue, Rest, Park, ReadServed, IInv, TypeOK
    <3>3. CASE \E r \in Requests : Issue(r)
      <4>1. strobe' \in BOOLEAN /\ capture' \in BOOLEAN
        BY <3>3, Zenon DEF Issue, ReadServed
      <4>2. issued' \in 0..MaxAccesses
        BY <3>3 DEF Issue, IInv, TypeOK
      <4> QED BY <3>1, <4>1, <4>2
    <3> QED BY <3>2, <3>3 DEF Negedge
  <2>3. readbuf' \in Word
    <3>1. adr \div BankWords \in Bank
      BY DEF IInv, TypeOK, WordAdr, Bank
    <3> QED BY <3>1 DEF Negedge, IInv, TypeOK
  <2> QED BY <2>1, <2>2, <2>3
          DEF Negedge, IInv, TypeOK, unitVars, masterVars, ramVars
<1>2. ResetInv'
  <2>1. /\ edge = "neg" /\ edge' = "pos" /\ (parked' <=> rst > 0)
        /\ UNCHANGED <<rst, addrCount, ackCount, busy, stb, ack>>
    BY DEF Negedge, masterVars, ramVars
  <2>2. ~parked => addrCount' <= WordTarget(req')
    BY <2>1, TargetType
       DEF Negedge, Reissue, Rest, Park, Issue, IInv, TypeOK, ResetInv, BeatInv
  <2>3. CASE parked
    <3>1. ~strobe' /\ req' = req
      BY <2>3 DEF Negedge, Reissue, Rest, Park, Issue
    <3> QED BY <2>1, <2>3, <3>1 DEF IInv, TypeOK, ResetInv
  <2>4. CASE ~parked
    <3>1. rst \in {0, ResetCycles}
      BY <2>1, <2>4 DEF IInv, TypeOK, ResetInv
    <3> QED BY <2>1, <2>2, <2>4, <3>1 DEF ResetInv
  <2> QED BY <2>3, <2>4 DEF IInv, TypeOK
<1>3. BeatInv'
  BY DEF Negedge, Reissue, Rest, Park, Issue, IInv, TypeOK, ResetInv, BeatInv,
     unitVars, masterVars, ramVars, Count
<1> QED BY <1>1, <1>2, <1>3 DEF IInv
-----------------------------------------------------------------------------
(* What the word operators return. *)

LEMMA BeatDataType ==
    ASSUME NEW r, r.data \in Word, NEW n \in Nat, r.addr \in Nat
    PROVE  BeatData(r, n) \in Word
<1> DEFINE at(l) == l + 4 * n - Offset(r)
<1>1. \A l \in Lane : (IF at(l) < 0 THEN 0 ELSE IF at(l) > 3 THEN 3 ELSE at(l)) \in Lane
  BY DEF Lane, Offset
<1> HIDE DEF at
<1>2. \A l \in Lane :
        r.data[IF at(l) < 0 THEN 0 ELSE IF at(l) > 3 THEN 3 ELSE at(l)] \in Byte
  BY <1>1 DEF Word
<1> QED BY <1>2 DEF BeatData, Word, at

LEMMA MergedType ==
    ASSUME NEW buf \in Word, NEW w \in Word, NEW r, NEW n
    PROVE  Merged(buf, r, n, w) \in Word
BY DEF Merged, Word

LEMMA ExtendType ==
    ASSUME NEW op \in BusOp, NEW buf \in Word
    PROVE  Extend(op, buf) \in Word
<1>1. \A b : SignFill(b) \in Byte
  BY DEF SignFill, Byte
<1>2. 0 \in Byte /\ 0 \in Lane /\ 1 \in Lane
  BY DEF Byte, Lane
<1>3. CASE op = "READB"
  BY <1>1, <1>2, <1>3 DEF Extend, Word
<1>4. CASE op = "READBU"
  BY <1>2, <1>4 DEF Extend, Word
<1>5. CASE op = "READH"
  BY <1>1, <1>2, <1>5 DEF Extend, Word
<1>6. CASE op = "READHU"
  BY <1>2, <1>6 DEF Extend, Word
<1>7. CASE op \in {"READW", "WRITEB", "WRITEH", "WRITEW"}
  BY <1>7 DEF Extend
<1> QED BY <1>3, <1>4, <1>5, <1>6, <1>7 DEF BusOp

LEMMA PosedgeTypeOK == ASSUME IInv, Posedge PROVE TypeOK'
<1> USE SizeAssumption, BoundAssumption
<1>1. TypeOK /\ ReqOK(req) /\ req.data \in Word /\ req.addr \in Nat /\ req.op \in BusOp
  BY DEF IInv, TypeOK, ReqOK, Access, Addr
<1>2. /\ edge' \in {"pos", "neg"} /\ rst' \in 0..ResetCycles
      /\ vgaRun' \in 0..MaxVgaRun
  BY <1>1 DEF Posedge, Disturb, TypeOK
<1>3. /\ strobe' \in BOOLEAN /\ parked' \in BOOLEAN /\ capture' \in BOOLEAN
      /\ issued' \in 0..MaxAccesses
      /\ req' \in Access(Addr, Word) /\ req'.addr + Width(req'.op) <= 4 * NumWords
      /\ readbuf' \in Word
  BY <1>1, Zenon DEF Posedge, TypeOK, cpuVars
<1>4. busy' \in BOOLEAN /\ stb' \in BOOLEAN /\ we' \in BOOLEAN /\ ack' \in BOOLEAN
  BY Zenon DEF Posedge, Master, Ram, Acknowledge
<1>5. adr' \in WordAdr /\ sel' \in SUBSET Lane /\ dat' \in Word
  <2>1. CASE NextBeat
    <3>1. addrCount \in Nat /\ addrCount < WordTarget(req)
      BY <2>1, <1>1, TargetType DEF NextBeat, IInv, ResetInv, TypeOK
    <3>2. adr' = req.addr \div 4 + addrCount
      BY <2>1 DEF Posedge, Master
    <3>3. sel' = ByteEnables(req, addrCount % 2) /\ dat' = BeatData(req, addrCount % 2)
      BY <2>1 DEF Posedge, Master
    <3>4. addrCount % 2 \in Nat
      BY <3>1
    <3>5. sel' \in SUBSET Lane
      BY <3>3 DEF ByteEnables
    <3> QED BY <1>1, <3>1, <3>2, <3>3, <3>4, <3>5, BeatInRam, BeatDataType
  <2>2. CASE ~NextBeat
    BY <1>1, <2>2 DEF Posedge, Master, TypeOK
  <2> QED BY <2>1, <2>2
<1>6. ackCount' \in 0..3 /\ addrCount' \in 0..3
  BY <1>1 DEF Posedge, Master, TypeOK
<1>7. buffer' \in Word
  BY <1>1, MergedType DEF Posedge, Master, TypeOK
<1>8. mem' \in [WordAdr -> Word]
  <2>1. \A w \in WordAdr : [l \in Lane |-> IF l \in sel THEN dat[l] ELSE mem[w][l]] \in Word
    BY <1>1 DEF TypeOK, Word
  <2>2. adr \in WordAdr /\ mem \in [WordAdr -> Word]
    BY <1>1 DEF TypeOK
  <2>3. \/ mem' = mem
        \/ mem' = [mem EXCEPT ![adr] = [l \in Lane |-> IF l \in sel THEN dat[l] ELSE @[l]]]
    BY DEF Posedge, Ram
  <2> QED BY <2>1, <2>2, <2>3
<1>9. dout' \in [Bank -> Word]
  <2>1. VgaWord \in Word /\ ZeroWord \in Word
    BY DEF VgaWord, ZeroWord, Word, Byte
  <2> QED BY <1>1, <2>1 DEF Posedge, Ram, TypeOK
<1>10. lastOp' \in BusOp /\ result' \in Word
  BY <1>1, ExtendType DEF Posedge, BusUnit, TypeOK
<1> QED BY <1>2, <1>3, <1>4, <1>5, <1>6, <1>7, <1>8, <1>9, <1>10, Zenon DEF TypeOK
LEMMA PosedgeIInv == ASSUME IInv, Posedge PROVE IInv'
<1> USE SizeAssumption, BoundAssumption
<1>1. TypeOK'
  BY PosedgeTypeOK
<1>2. /\ TypeOK /\ ResetInv /\ BeatInv /\ WordTarget(req) \in 1..2
      /\ edge = "pos" /\ edge' = "neg" /\ UNCHANGED <<strobe, req, parked>>
      /\ rst' \in {ResetCycles, IF rst > 0 THEN rst - 1 ELSE 0}
  BY TargetType DEF IInv, Posedge, Disturb, cpuVars
<1>3. /\ busy' <=> strobe /\ ~Complete
      /\ stb' <=> strobe /\ (addrCount # WordTarget(req) \/ Stall)
      /\ ack' <=> stb /\ ~VgaReq
  BY DEF Posedge, Master, Ram, Acknowledge
<1>4. /\ addrCount' = IF rst > 0 \/ Complete THEN 0
                      ELSE IF NextBeat THEN (addrCount + 1) % 4 ELSE addrCount
      /\ ackCount' = IF rst > 0 \/ Complete THEN 0
                     ELSE IF Acked THEN (ackCount + 1) % 4 ELSE ackCount
  BY DEF Posedge, Master
<1>5. rst \in 0..ResetCycles /\ addrCount \in 0..3 /\ ackCount \in 0..3
  BY <1>2 DEF TypeOK
<1>6. ResetInv'
  <2>1. addrCount' <= WordTarget(req)
    BY <1>2, <1>4, <1>5 DEF ResetInv, NextBeat
  <2>2. CASE ~parked
    <3>1. rst = 0 /\ rst' \in {0, ResetCycles}
      BY <1>2, <1>5, <2>2 DEF ResetInv
    <3> QED BY <1>2, <2>1, <2>2, <3>1 DEF ResetInv
  <2>3. CASE parked
    <3>1. rst > 0 => addrCount' = 0 /\ ackCount' = 0
      BY <1>4, <1>5
    <3>2. rst = 0 => ~strobe /\ ~busy /\ ~stb /\ ~ack /\ addrCount = 0 /\ ackCount = 0
      BY <1>2, <2>3 DEF ResetInv
    <3>3. ~strobe => ~busy' /\ ~stb' /\ addrCount' \in {0, addrCount} /\ ackCount' \in {0, ackCount}
      BY <1>3, <1>4 DEF Complete, Acked, NextBeat
    <3>4. ~stb => ~ack'
      BY <1>3
    <3>5. rst' < ResetCycles => addrCount' = 0 /\ ackCount' = 0
      BY <3>1, <3>2, <3>3, <1>5
    <3>6. rst' <= ResetCycles - 2 => ~strobe' /\ ~busy' /\ ~stb'
      <4>1. rst' <= ResetCycles - 2 => ~strobe
        BY <1>2, <1>5, <2>3 DEF ResetInv
      <4> QED BY <4>1, <3>3, <1>2
    <3>7. rst' <= ResetCycles - 3 => ~ack'
      <4>1. rst' <= ResetCycles - 3 => ~stb
        BY <1>2, <1>5, <2>3 DEF ResetInv
      <4> QED BY <4>1, <3>4
    <3> QED BY <1>2, <2>1, <2>3, <3>5, <3>6, <3>7 DEF ResetInv
  <2> QED BY <2>2, <2>3
<1>7. BeatInv'
  <2> SUFFICES ASSUME ~parked
               PROVE  /\ addrCount' = ackCount' + Count(ack') + Count(stb')
                      /\ ~busy' => addrCount' = 0
                      /\ ~strobe => ~busy'
    BY <1>2 DEF BeatInv
  <2>1. /\ rst = 0
        /\ addrCount = ackCount + Count(ack) + Count(stb)
        /\ addrCount <= WordTarget(req)
        /\ ~busy => addrCount = 0
        /\ ~strobe => ~busy
    BY <1>2, <1>5 DEF BeatInv, ResetInv
  <2>2. \A b : Count(b) = IF b THEN 1 ELSE 0
    BY DEF Count
  <2>3. CASE ~strobe
    <3>1. addrCount = 0 /\ ackCount = 0 /\ ~stb /\ ~ack
      BY <2>1, <2>3, <1>5 DEF Count
    <3>2. ~busy' /\ ~stb' /\ ~ack' /\ addrCount' = 0 /\ ackCount' = 0
      BY <2>1, <2>3, <3>1, <1>3, <1>4 DEF Complete, Acked, NextBeat
    <3> QED BY <2>2, <3>2
  <2>4. CASE strobe /\ Complete
    <3>1. ack /\ ackCount + 1 = WordTarget(req)
      BY <2>1, <2>2, <2>4, <1>2, <1>5 DEF Complete, Acked
    <3>2. addrCount = WordTarget(req) /\ ~stb
      BY <2>1, <3>1, <1>2, <1>5 DEF Count
    <3>3. ~stb' /\ ~ack' /\ addrCount' = 0 /\ ackCount' = 0
      BY <2>1, <2>4, <3>2, <1>3, <1>4 DEF Stall
    <3> QED BY <2>2, <2>4, <3>3, <1>3
  <2>5. CASE strobe /\ ~Complete
    <3>1. busy'
      BY <2>5, <1>3
    <3>2. ackCount' = ackCount + Count(ack)
      BY <2>1, <2>2, <2>5, <1>2, <1>4, <1>5 DEF Acked
    <3>3. ackCount # WordTarget(req) \/ addrCount = WordTarget(req)
      BY <2>1, <2>2, <1>2, <1>5
    <3>4. CASE NextBeat
      <4>1. addrCount' = addrCount + 1 /\ stb' /\ (ack' <=> stb)
        BY <2>1, <2>5, <3>4, <1>2, <1>3, <1>4, <1>5 DEF NextBeat, Stall
      <4>2. Count(ack') = Count(stb) /\ Count(stb') = 1
        BY <2>2, <4>1, <1>2 DEF TypeOK, Count
      <4> QED BY <2>1, <2>5, <3>1, <3>2, <4>1, <4>2, <1>5, <2>2
    <3>5. CASE ~NextBeat
      <4>1. addrCount' = addrCount
        BY <2>1, <2>5, <3>5, <1>4
      <4>2. CASE Stall
        <5>1. stb /\ stb' /\ ~ack'
          BY <2>5, <4>2, <1>3 DEF Stall
        <5>2. Count(stb') = 1 /\ Count(ack') = 0 /\ Count(stb) = 1
          BY <5>1 DEF Count
        <5> QED BY <2>1, <2>5, <3>1, <3>2, <4>1, <5>2, <1>5
      <4>3. CASE ~Stall
        <5>1. addrCount = WordTarget(req)
          BY <2>5, <3>3, <3>5, <4>3 DEF NextBeat
        <5>2. ~stb' /\ (ack' <=> stb)
          BY <4>3, <5>1, <1>3 DEF Stall
        <5>3. Count(stb') = 0 /\ Count(ack') = Count(stb)
          BY <5>2 DEF Count
        <5> QED BY <2>1, <2>2, <2>5, <3>1, <3>2, <4>1, <5>3, <1>5
      <4> QED BY <4>2, <4>3
    <3> QED BY <3>4, <3>5
  <2> QED BY <2>3, <2>4, <2>5
<1> QED BY <1>1, <1>6, <1>7 DEF IInv

LEMMA IInvInvariant == Spec => []IInv
<1>1. IInv /\ UNCHANGED vars => IInv'
  BY DEF vars, cpuVars, unitVars, masterVars, ramVars, IInv, TypeOK, ResetInv, BeatInv
<1>2. IInv /\ [Next]_vars => IInv'
  BY <1>1, NegedgeIInv, PosedgeIInv DEF Next
<1> QED BY InitIInv, <1>2, PTL DEF Spec
-----------------------------------------------------------------------------
\* Type correctness of the bus path: in particular every address the master
\* puts on the bus lies in the RAM and no beat counter passes its two bits.
THEOREM TypeCorrect == Spec => []TypeOK
BY IInvInvariant, PTL DEF IInv

\* No acknowledge is lost, invented or credited to another access, whatever
\* the video stalls and whenever a reset of at least three clocks comes.
THEOREM BeatsAreAccounted == Spec => []BeatsAccounted
<1>1. IInv => BeatsAccounted
  <2> SUFFICES ASSUME IInv, rst = 0 PROVE BeatsAccounted
    BY DEF BeatsAccounted
  <2>1. CASE parked
    BY <2>1, BoundAssumption DEF IInv, TypeOK, ResetInv, BeatsAccounted, Count
  <2>2. CASE ~parked
    BY <2>2 DEF IInv, ResetInv, BeatInv, BeatsAccounted
  <2> QED BY <2>1, <2>2
<1> QED BY IInvInvariant, <1>1, PTL

-----------------------------------------------------------------------------
(* What the beats carry.  The direction of a beat on the bus is the         *)
(* request's; in a RAM of one bank the word an acknowledge announces is in   *)
(* the output register, then in readbuf, until the master has taken it.     *)

DirectionInv == stb /\ strobe => (we <=> IsStore(req.op))

\* The words of the access whose bytes the buffer must hold.
WordsTaken == IF edge = "neg" /\ ~busy THEN 2 ELSE ackCount

BeatWord == mem[req.addr \div 4 + ackCount]

LoadInv ==
    ~parked /\ strobe /\ ~IsStore(req.op) =>
      /\ stb => adr = req.addr \div 4 + addrCount - 1
      /\ ack => IF edge = "neg" THEN dout[0] = BeatWord ELSE readbuf = BeatWord
      /\ edge = "neg" => lastOp = req.op
      /\ \A i \in 0 .. Width(req.op) - 1 :
           Offset(req) + i < 4 * WordsTaken
             => buffer[i] = mem[(req.addr + i) \div 4][(req.addr + i) % 4]

LEMMA DirectionStep == ASSUME IInv, DirectionInv, [Next]_vars PROVE DirectionInv'
<1>1. CASE Negedge
  <2>1. UNCHANGED <<stb, we>>
    BY <1>1 DEF Negedge, masterVars
  <2>2. CASE Reissue \/ Rest \/ Park
    BY <2>1, <2>2 DEF Reissue, Rest, Park, DirectionInv
  <2>3. CASE \E r \in Requests : Issue(r)
    <3>1. ~parked /\ ~busy
      BY <2>3 DEF Issue
    <3>2. ~stb
      BY <3>1 DEF IInv, TypeOK, BeatInv, Count
    <3> QED BY <2>1, <3>2 DEF DirectionInv
  <2> QED BY <1>1, <2>2, <2>3 DEF Negedge
<1>2. CASE Posedge
  <2>1. UNCHANGED <<strobe, req>> /\ (stb' => strobe)
    BY <1>2 DEF Posedge, Master, cpuVars
  <2>2. we' <=> strobe /\ IsStore(req.op)
    BY <1>2 DEF Posedge, Master
  <2> QED BY <2>1, <2>2 DEF DirectionInv
<1>3. CASE UNCHANGED vars
  BY <1>3 DEF vars, cpuVars, masterVars, DirectionInv
<1> QED BY <1>1, <1>2, <1>3 DEF Next

LEMMA DirectionInvariant == Spec => []DirectionInv
<1>1. Init => DirectionInv
  BY DEF Init, InitPort, DirectionInv
<1> QED BY <1>1, IInvInvariant, DirectionStep, PTL DEF Spec

\* A beat the RAM stalls stays on the bus as it is.
THEOREM StalledBeatIsHeld == Spec => StalledBeatHeld
<1>1. ASSUME IInv, DirectionInv, Posedge, Stall, strobe
      PROVE  UNCHANGED <<stb, we, adr, sel, dat>>
  <2>1. stb /\ ~NextBeat
    BY <1>1 DEF NextBeat, Stall
  <2>2. UNCHANGED <<adr, sel, dat>>
    BY <1>1, <2>1 DEF Posedge, Master
  <2>3. stb' = TRUE /\ (we' <=> IsStore(req.op))
    BY <1>1 DEF Posedge, Master
  <2>4. we \in BOOLEAN /\ we' \in BOOLEAN /\ stb \in BOOLEAN
    BY <1>1, PosedgeTypeOK DEF IInv, TypeOK
  <2> QED BY <1>1, <2>1, <2>2, <2>3, <2>4 DEF DirectionInv
<1>2. IInv /\ DirectionInv /\ [Next]_vars
      => [edge = "pos" /\ Stall /\ strobe => UNCHANGED <<stb, we, adr, sel, dat>>]_vars
  BY <1>1 DEF Next, Negedge
<1> QED BY IInvInvariant, DirectionInvariant, <1>2, PTL DEF Spec, StalledBeatHeld
-----------------------------------------------------------------------------
\* Byte i of an access lies in word n of it, at the lane the shift says.
LEMMA BytePosition ==
    ASSUME NEW a \in Nat, NEW i \in 0..3, NEW n \in {0, 1},
           4 * n <= (a % 4) + i, (a % 4) + i < 4 * n + 4
    PROVE  (a + i) \div 4 = a \div 4 + n /\ (a + i) % 4 = (a % 4) + i - 4 * n
<1> DEFINE q == a \div 4  o == a % 4
<1>1. a = 4 * q + o /\ q \in Nat /\ o \in 0..3
  OBVIOUS
<1> HIDE DEF q, o
<1>2. a + i = 4 * (q + n) + (o + i - 4 * n)
  BY <1>1
<1>3. o + i - 4 * n \in 0..3 /\ q + n \in Nat
  BY <1>1 DEF o
<1>4. \A x \in Nat, y \in 0..3 : (4 * x + y) \div 4 = x /\ (4 * x + y) % 4 = y
  OBVIOUS
<1> QED BY <1>2, <1>3, <1>4 DEF q, o

\* An access of one word does not reach the second.
LEMMA OneWordReach ==
    ASSUME NEW r, r.addr \in Nat, WordTarget(r) = 1
    PROVE  Offset(r) + Width(r.op) <= 4
<1>1. Offset(r) \in 0..3 /\ Width(r.op) \in 1..4
  BY WidthType DEF Offset
<1>2. 0 \notin ByteEnables(r, 1)
  BY DEF WordTarget
<1> QED BY <1>1, <1>2 DEF ByteEnables, Lane

\* The loaded value depends on the bytes of the access only.
LEMMA ExtendDepends ==
    ASSUME NEW op \in BusOp, ~IsStore(op), NEW b \in Word, NEW c \in Word,
           \A i \in 0 .. Width(op) - 1 : b[i] = c[i]
    PROVE  Extend(op, b) = Extend(op, c)
<1>1. b[0] = c[0]
  BY WidthType
<1>2. CASE op \in {"READB", "READBU"}
  BY <1>1, <1>2 DEF Extend, Lane
<1>3. CASE op \in {"READH", "READHU"}
  <2>1. b[1] = c[1]
    BY <1>3 DEF Width
  <2> QED BY <1>1, <2>1, <1>3 DEF Extend, Lane
<1>4. CASE op = "READW"
  <2>1. \A i \in Lane : b[i] = c[i]
    BY <1>4 DEF Width, Lane
  <2> QED BY <2>1, <1>4 DEF Extend, Word
<1> QED BY <1>2, <1>3, <1>4 DEF BusOp, IsStore
LEMMA OneBank ==
    ASSUME NumWords <= BankWords, NEW w \in WordAdr
    PROVE  0 \in Bank /\ w \div BankWords = 0 /\ w % BankWords = w
BY SizeAssumption DEF WordAdr, Bank

LEMMA LoadNegedge ==
    ASSUME NumWords <= BankWords, IInv, LoadInv, Negedge
    PROVE  LoadInv'
<1>1. /\ edge = "neg" /\ edge' = "pos" /\ readbuf' = dout[adr \div BankWords]
      /\ UNCHANGED <<lastOp, stb, adr, ackCount, addrCount, buffer, mem, ack, busy>>
  BY DEF Negedge, unitVars, masterVars, ramVars
<1>2. TypeOK
  BY DEF IInv
<1>3. CASE \E r \in Requests : Issue(r)
  <2>1. ~parked /\ ~busy
    BY <1>3 DEF Issue
  <2>2. ackCount = 0 /\ ~stb /\ ~ack
    BY <1>2, <2>1 DEF IInv, TypeOK, BeatInv, Count
  <2>3. Offset(req') \in 0..3
    <3>1. req'.addr \in Nat
      BY <1>3, RequestsOK, SizeAssumption DEF Issue, ReqOK, Access, Addr
    <3> QED BY <3>1 DEF Offset
  <2>4. WordsTaken' = 0
    BY <1>1, <2>2 DEF WordsTaken
  <2>5. ~(\E i \in 0 .. Width(req'.op) - 1 : Offset(req') + i < 4 * WordsTaken')
    BY <2>3, <2>4, WidthType
  <2> QED BY <1>1, <2>2, <2>5 DEF LoadInv
<1>4. CASE Rest \/ Park
  BY <1>4 DEF Rest, Park, LoadInv
<1>5. CASE Reissue
  <2>1. ~parked /\ busy /\ UNCHANGED <<strobe, req>>
    BY <1>5 DEF Reissue
  <2>2. WordsTaken' = WordsTaken
    BY <1>1, <2>1 DEF WordsTaken
  <2>3. readbuf' = dout[0]
    BY <1>1, <1>2, OneBank DEF TypeOK
  <2> QED BY <1>1, <2>1, <2>2, <2>3 DEF LoadInv, BeatWord
<1> QED BY <1>3, <1>4, <1>5 DEF Negedge

LEMMA LoadPosedge ==
    ASSUME NumWords <= BankWords, IInv, DirectionInv, LoadInv, Posedge
    PROVE  LoadInv'
<1> SUFFICES ASSUME ~parked, strobe, ~IsStore(req.op) PROVE LoadInv'
  BY DEF Posedge, cpuVars, LoadInv
<1> DEFINE q == req.addr \div 4
           o == Offset(req)
           Right(buf, i) == buf[i] = mem[(req.addr + i) \div 4][(req.addr + i) % 4]
<1>1. /\ edge = "pos" /\ edge' = "neg" /\ UNCHANGED <<strobe, req, parked, readbuf>>
      /\ (busy' <=> ~Complete) /\ lastOp' = req.op
  BY DEF Posedge, Master, BusUnit, cpuVars
<1>2. TypeOK /\ WordTarget(req) \in 1..2 /\ req.op \in BusOp /\ ReqOK(req)
      /\ req.addr \in Nat /\ o \in 0..3
  BY TargetType, SizeAssumption DEF IInv, TypeOK, ReqOK, Access, Addr, Offset
<1>3. /\ rst = 0
      /\ addrCount = ackCount + Count(ack) + Count(stb)
      /\ addrCount <= WordTarget(req)
      /\ addrCount \in 0..3 /\ ackCount \in 0..3
  BY <1>1, <1>2 DEF IInv, TypeOK, BeatInv, ResetInv
<1>4. mem' = mem
  BY DEF Posedge, Ram, DirectionInv
<1>5. /\ addrCount' = IF Complete THEN 0
                      ELSE IF NextBeat THEN (addrCount + 1) % 4 ELSE addrCount
      /\ ackCount' = IF Complete THEN 0
                     ELSE IF Acked THEN (ackCount + 1) % 4 ELSE ackCount
      /\ (stb' <=> addrCount # WordTarget(req) \/ Stall)
      /\ (ack' <=> stb /\ ~VgaReq)
  <2>1. ~(rst > 0)
    BY <1>3
  <2>2. /\ (stb' <=> addrCount # WordTarget(req) \/ Stall)
        /\ (ack' <=> stb /\ ~VgaReq)
    BY DEF Posedge, Master, Ram, Acknowledge
  <2> QED BY <2>1, <2>2, Zenon DEF Posedge, Master
<1>6. Complete => ~stb' /\ ~ack'
  <2> SUFFICES ASSUME Complete PROVE ~stb' /\ ~ack'
    OBVIOUS
  <2>1. ack /\ ackCount + 1 = WordTarget(req)
    BY <1>2, <1>3 DEF Complete, Acked
  <2>2. addrCount = WordTarget(req) /\ ~stb
    BY <1>2, <1>3, <2>1 DEF Count
  <2> QED BY <1>5, <2>2 DEF Stall
<1>7. ~Complete => ackCount' = ackCount + Count(ack)
  BY <1>2, <1>3, <1>5 DEF Acked, Count
<1>8. stb' => adr' = q + addrCount' - 1
  <2> SUFFICES ASSUME stb', ~Complete PROVE adr' = q + addrCount' - 1
    BY <1>6
  <2>1. CASE NextBeat
    <3>1. adr' = q + addrCount
      BY <2>1 DEF Posedge, Master
    <3>2. addrCount' = addrCount + 1
      BY <2>1, <1>2, <1>3, <1>5 DEF NextBeat
    <3> QED BY <1>2, <1>3, <3>1, <3>2
  <2>2. CASE ~NextBeat
    <3>1. adr' = adr /\ addrCount' = addrCount
      BY <2>2, <1>5 DEF Posedge, Master
    <3>2. stb
      <4>1. CASE Stall
        BY <4>1 DEF Stall
      <4>2. CASE ~Stall
        <5>1. addrCount # WordTarget(req) /\ ackCount = WordTarget(req)
          BY <1>5, <2>2, <4>2 DEF NextBeat
        <5> QED BY <5>1, <1>2, <1>3 DEF Count
      <4> QED BY <4>1, <4>2
    <3> QED BY <3>1, <3>2 DEF LoadInv
  <2> QED BY <2>1, <2>2
<1>9. ack' => dout'[0] = BeatWord'
  <2> SUFFICES ASSUME ack' PROVE dout'[0] = BeatWord'
    OBVIOUS
  <2>1. stb /\ ~VgaReq /\ ~Complete /\ ~we
    BY <1>5, <1>6 DEF DirectionInv
  <2>2. adr = q + ackCount + Count(ack)
    <3>1. adr = q + addrCount - 1
      BY <2>1 DEF LoadInv
    <3>2. Count(stb) = 1 /\ Count(ack) \in {0, 1}
      BY <2>1 DEF Count
    <3> QED BY <3>1, <3>2, <1>2, <1>3
  <2>3. dout' = [b \in Bank |-> LET w == (b * BankWords) + (adr % BankWords)
                                IN  IF w \in WordAdr THEN mem[w] ELSE ZeroWord]
    BY <2>1 DEF Posedge, Ram
  <2>4. adr \in WordAdr /\ 0 \in Bank /\ (0 * BankWords) + (adr % BankWords) = adr
    <3>1. adr \in WordAdr
      BY <1>2 DEF TypeOK
    <3>2. adr \in Nat
      BY <3>1, SizeAssumption DEF WordAdr
    <3>3. 0 \in Bank /\ adr % BankWords = adr
      BY <3>1, OneBank
    <3>4. 0 * BankWords = 0
      BY SizeAssumption
    <3> QED BY <3>1, <3>2, <3>3, <3>4
  <2>5. dout'[0] = mem[adr]
    BY <2>3, <2>4
  <2>6. BeatWord' = mem[q + (ackCount + Count(ack))]
    BY <1>1, <1>4, <1>7, <2>1 DEF BeatWord
  <2>7. q + (ackCount + Count(ack)) = adr
    BY <2>2, <1>2, <1>3 DEF Count
  <2> QED BY <2>5, <2>6, <2>7
<1>10. ASSUME NEW i \in 0 .. Width(req.op) - 1, o + i < 4 * WordsTaken'
       PROVE  Right(buffer', i)
  <2>1. i \in Lane
    BY WidthType DEF Lane
  <2>2. CASE ~Acked
    <3>1. buffer' = buffer /\ ~Complete
      BY <2>2 DEF Posedge, Master, Complete
    <3>2. ~ack /\ ackCount' = ackCount /\ WordsTaken' = ackCount
      BY <2>2, <3>1, <1>1, <1>3, <1>5 DEF Acked, WordsTaken
    <3>3. WordsTaken = ackCount
      BY <1>1 DEF WordsTaken
    <3> QED BY <1>10, <3>1, <3>2, <3>3 DEF LoadInv
  <2>3. CASE Acked
    <3>1. ack /\ ackCount \in {0, 1} /\ ackCount % 2 = ackCount
      BY <2>3, <1>2, <1>3 DEF Acked, Count
    <3>2. buffer' = Merged(buffer, req, ackCount, readbuf) /\ readbuf = mem[q + ackCount]
      BY <2>3, <3>1, <1>1 DEF Posedge, Master, LoadInv, BeatWord
    <3>3. buffer'[i] = LET l == i + o - 4 * ackCount
                       IN  IF l \in Lane THEN readbuf[l] ELSE buffer[i]
      BY <3>2, <2>1 DEF Merged
    <3>4. o + i < 4 * ackCount + 4
      <4>1. CASE Complete
        <5>1. ackCount + 1 = WordTarget(req)
          BY <4>1, <3>1, <1>2 DEF Complete
        <5>2. CASE WordTarget(req) = 1
          <6>1. o + Width(req.op) <= 4
            BY <5>2, <1>2, OneWordReach
          <6> QED BY <5>1, <5>2, <6>1, <1>2, <3>1, WidthType
        <5>3. CASE WordTarget(req) = 2
          BY <5>1, <5>3, <1>2, <2>1, <3>1 DEF Lane
        <5> QED BY <5>2, <5>3, <1>2
      <4>2. CASE ~Complete
        <5>1. WordsTaken' = ackCount + 1
          BY <4>2, <3>1, <1>1, <1>7 DEF WordsTaken, Count
        <5> QED BY <5>1, <1>10, <3>1
      <4> QED BY <4>1, <4>2
    <3>5. CASE 4 * ackCount <= o + i
      <4>1. i + o - 4 * ackCount \in Lane
        BY <3>1, <3>4, <3>5, <1>2, <2>1 DEF Lane
      <4>2. buffer'[i] = mem[q + ackCount][o + i - 4 * ackCount]
        <5>1. i + o - 4 * ackCount = o + i - 4 * ackCount
          BY <3>1, <1>2, <2>1 DEF Lane
        <5> QED BY <3>2, <3>3, <4>1, <5>1
      <4>3. /\ (req.addr + i) \div 4 = q + ackCount
            /\ (req.addr + i) % 4 = o + i - 4 * ackCount
        BY <1>2, <2>1, <3>1, <3>4, <3>5, BytePosition DEF Offset, Lane
      <4> QED BY <4>2, <4>3
    <3>6. CASE ~(4 * ackCount <= o + i)
      <4>1. i + o - 4 * ackCount \notin Lane
        BY <3>1, <3>6, <1>2, <2>1 DEF Lane
      <4>2. buffer'[i] = buffer[i]
        BY <3>3, <4>1
      <4>3. o + i < 4 * WordsTaken
        BY <3>6, <1>1, <1>2, <2>1, <3>1 DEF WordsTaken, Lane
      <4> QED BY <4>2, <4>3 DEF LoadInv
    <3> QED BY <3>5, <3>6
  <2> QED BY <2>2, <2>3
<1> QED BY <1>1, <1>4, <1>8, <1>9, <1>10 DEF LoadInv
LEMMA LoadInvariant == NumWords <= BankWords => (Spec => []LoadInv)
<1> SUFFICES ASSUME NumWords <= BankWords PROVE Spec => []LoadInv
  OBVIOUS
<1>1. Init => LoadInv
  BY DEF Init, InitPort, LoadInv
<1>2. LoadInv /\ UNCHANGED vars => LoadInv'
  BY DEF vars, cpuVars, unitVars, masterVars, ramVars, LoadInv, WordsTaken, BeatWord
<1>3. IInv /\ DirectionInv /\ LoadInv /\ [Next]_vars => LoadInv'
  BY <1>2, LoadNegedge, LoadPosedge DEF Next
<1> QED BY <1>1, <1>3, IInvInvariant, DirectionInvariant, PTL DEF Spec

LEMMA LoadedNow == ASSUME IInv, LoadInv PROVE LoadReturnsMemory
<1> SUFFICES ASSUME Served, ~IsStore(req.op)
             PROVE  Extend(lastOp, buffer) = Extend(req.op, LoadedBytes(mem, req))
  BY DEF LoadReturnsMemory
<1>1. /\ TypeOK /\ req.op \in BusOp /\ ReqOK(req) /\ req.addr \in Nat
      /\ Offset(req) \in 0..3 /\ WordsTaken = 2 /\ lastOp = req.op
  BY SizeAssumption
     DEF IInv, TypeOK, ReqOK, Access, Addr, Offset, Served, WordsTaken, LoadInv
<1>2. \A i \in 0 .. Width(req.op) - 1 :
        buffer[i] = mem[(req.addr + i) \div 4][(req.addr + i) % 4]
  BY <1>1, WidthType DEF Served, LoadInv
<1>3. \A i \in 0 .. Width(req.op) - 1 :
        i \in Lane /\ buffer[i] = LoadedBytes(mem, req)[i]
  BY <1>2, WidthType DEF LoadedBytes, Lane
<1>4. LoadedBytes(mem, req) \in Word
  <2>1. ASSUME NEW i \in Lane, i < Width(req.op)
        PROVE  mem[(req.addr + i) \div 4][(req.addr + i) % 4] \in Byte
    <3>1. req.addr + i \in 0 .. 4 * NumWords - 1
      BY <1>1, <2>1, SizeAssumption, WidthType DEF ReqOK, Lane
    <3>2. (req.addr + i) \div 4 \in WordAdr /\ (req.addr + i) % 4 \in Lane
      BY <3>1, SizeAssumption DEF WordAdr, Lane
    <3>3. mem[(req.addr + i) \div 4] \in Word
      BY <1>1, <3>2 DEF TypeOK
    <3> QED BY <3>2, <3>3 DEF Word
  <2>2. 0 \in Byte
    BY DEF Byte
  <2>3. \A i \in Lane : (IF i < Width(req.op)
                         THEN mem[(req.addr + i) \div 4][(req.addr + i) % 4] ELSE 0) \in Byte
    BY <2>1, <2>2
  <2> QED BY <2>3 DEF LoadedBytes, Word
<1> QED BY <1>1, <1>3, <1>4, ExtendDepends DEF TypeOK

\* In a RAM of one bank every load and every fetch, aligned or not, returns
\* the bytes in memory at its address, whatever beats the video stalled.
THEOREM LoadsReturnMemory ==
    NumWords <= BankWords => (Spec => []LoadReturnsMemory)
<1> SUFFICES ASSUME NumWords <= BankWords PROVE Spec => []LoadReturnsMemory
  OBVIOUS
<1> QED BY LoadedNow, IInvInvariant, LoadInvariant, PTL
-----------------------------------------------------------------------------
(* What the stores have done.  A beat on the bus is one of the request's    *)
(* two; in an access no reset has cut it is the last one sent, and the      *)
(* beats sent before it are in the RAM.                                     *)

BeatOn(n) == /\ adr = req.addr \div 4 + n
             /\ sel = ByteEnables(req, n)
             /\ dat = BeatData(req, n)

\* The beats the RAM has taken.
Landed == addrCount - Count(stb)

ByteOf(m, a) == m[a \div 4][a % 4]

BeatsCounted == edge = "pos" /\ strobe => addrCount = ackCount + Count(ack) + Count(stb)

BeatOnBus == stb => /\ we <=> IsStore(req.op)
                    /\ BeatOn(0) \/ BeatOn(1)
                    /\ ~parked => BeatOn(addrCount - 1)

BytesLanded ==
    ~parked /\ strobe /\ IsStore(req.op) =>
        \A i \in 0 .. Width(req.op) - 1 :
            Offset(req) + i < 4 * Landed => ByteOf(mem, req.addr + i) = req.data[i]

StoreInv == BeatsCounted /\ BeatOnBus /\ BytesLanded

\* Memory m after beat n of store r.
Written(m, r, n) ==
    [m EXCEPT ![r.addr \div 4 + n] =
        [l \in Lane |-> IF l \in ByteEnables(r, n) THEN BeatData(r, n)[l] ELSE @[l]]]

\* A beat of a store writes the bytes of the access in its word and no other.
LEMMA BeatWrite ==
    ASSUME NEW r, ReqOK(r), NEW n \in {0, 1}, NEW m \in [WordAdr -> Word],
           r.addr \div 4 + n \in WordAdr, NEW a \in Addr
    PROVE  ByteOf(Written(m, r, n), a)
           = IF a \in Footprint(r) /\ a \div 4 = r.addr \div 4 + n
             THEN r.data[a - r.addr] ELSE ByteOf(m, a)
<1> DEFINE q == r.addr \div 4  l == a % 4
           m2 == Written(m, r, n)
<1>1. /\ r.addr \in Nat /\ a \in Nat /\ Offset(r) = r.addr % 4 /\ Width(r.op) \in 1..4
      /\ a \div 4 \in WordAdr
  BY SizeAssumption, WidthType DEF ReqOK, Access, Addr, Offset, WordAdr
<1>2. /\ r.addr = 4 * q + Offset(r) /\ a = 4 * (a \div 4) + l
      /\ q \in Nat /\ Offset(r) \in 0..3 /\ l \in 0..3 /\ a \div 4 \in Nat
  <2>1. \A x \in Nat : x = 4 * (x \div 4) + (x % 4) /\ x \div 4 \in Nat /\ x % 4 \in 0..3
    OBVIOUS
  <2> QED BY <1>1, <2>1
<1>3. CASE a \div 4 # q + n
  BY <1>1, <1>3 DEF ByteOf, Written
<1>4. CASE a \div 4 = q + n
  <2>1. m2[a \div 4][l] = IF l \in ByteEnables(r, n) THEN BeatData(r, n)[l] ELSE m[a \div 4][l]
    BY <1>1, <1>2, <1>4 DEF Lane, Written
  <2>2. l + 4 * n - Offset(r) = a - r.addr
    <3> HIDE DEF q, l
    <3> QED BY <1>1, <1>2, <1>4
  <2>3. l \in ByteEnables(r, n) <=> a \in Footprint(r)
    <3>1. l \in ByteEnables(r, n) <=> Offset(r) <= l + 4 * n /\ l + 4 * n < Offset(r) + Width(r.op)
      BY <1>2 DEF ByteEnables, Lane
    <3>2. a \in Footprint(r) <=> 0 <= a - r.addr /\ a - r.addr < Width(r.op)
      BY <1>1 DEF Footprint
    <3> HIDE DEF q, l
    <3> QED BY <1>1, <1>2, <2>2, <3>1, <3>2
  <2>4. a \in Footprint(r) => BeatData(r, n)[l] = r.data[a - r.addr]
    <3>1. a \in Footprint(r) => a - r.addr \in 0..3
      BY <1>1 DEF Footprint
    <3>2. a - r.addr \in 0..3 => ~(a - r.addr < 0) /\ ~(a - r.addr > 3)
      OBVIOUS
    <3>3. l \in Lane
      BY <1>2 DEF Lane
    <3> HIDE DEF q, l
    <3>4. BeatData(r, n)[l] = LET at == l + 4 * n - Offset(r)
                              IN  r.data[IF at < 0 THEN 0 ELSE IF at > 3 THEN 3 ELSE at]
      BY <3>3 DEF BeatData
    <3> QED BY <2>2, <3>1, <3>2, <3>4
  <2> QED BY <1>4, <2>1, <2>3, <2>4 DEF ByteOf
<1> QED BY <1>3, <1>4

\* What a rising edge does to the RAM: nothing, or the write of one beat of
\* the store in progress.
LEMMA RamWrites ==
    ASSUME IInv, StoreInv, Posedge, NEW a \in Addr
    PROVE  /\ ~stb \/ VgaReq \/ ~IsStore(req.op) => ByteOf(mem', a) = ByteOf(mem, a)
           /\ stb /\ ~VgaReq /\ IsStore(req.op) =>
                \A n \in {0, 1} : BeatOn(n) =>
                  ByteOf(mem', a) = IF a \in Footprint(req) /\ a \div 4 = req.addr \div 4 + n
                                    THEN req.data[a - req.addr] ELSE ByteOf(mem, a)
<1>1. CASE ~stb \/ VgaReq \/ ~IsStore(req.op)
  <2>1. mem' = mem
    BY <1>1 DEF Posedge, Ram, StoreInv, BeatOnBus
  <2> QED BY <1>1, <2>1
<1>2. CASE stb /\ ~VgaReq /\ IsStore(req.op)
  <2>1. we
    BY <1>2 DEF StoreInv, BeatOnBus
  <2>2. mem' = [mem EXCEPT ![adr] = [l \in Lane |-> IF l \in sel THEN dat[l] ELSE @[l]]]
    BY <1>2, <2>1 DEF Posedge, Ram
  <2>3. ASSUME NEW n \in {0, 1}, BeatOn(n)
        PROVE  ByteOf(mem', a) = IF a \in Footprint(req) /\ a \div 4 = req.addr \div 4 + n
                                 THEN req.data[a - req.addr] ELSE ByteOf(mem, a)
    <3>1. ReqOK(req) /\ mem \in [WordAdr -> Word] /\ adr \in WordAdr
      BY DEF IInv, TypeOK, ReqOK
    <3>2. adr = req.addr \div 4 + n /\ sel = ByteEnables(req, n) /\ dat = BeatData(req, n)
      BY <2>3 DEF BeatOn
    <3>3. mem' = Written(mem, req, n)
      BY <2>2, <3>2 DEF Written
    <3>4. req.addr \div 4 + n \in WordAdr
      BY <3>1, <3>2
    <3> QED BY <3>1, <3>3, <3>4, BeatWrite
  <2> QED BY <1>2, <2>3
<1> QED BY <1>1, <1>2

LEMMA StoreNegedge == ASSUME IInv, StoreInv, Negedge PROVE StoreInv'
<1>1. /\ edge = "neg" /\ edge' = "pos" /\ (parked' <=> rst > 0)
      /\ UNCHANGED <<stb, we, adr, sel, dat, addrCount, ackCount, mem, ack>>
  BY DEF Negedge, masterVars, ramVars
<1>2. TypeOK
  BY DEF IInv
<1>3. CASE \E r \in Requests : Issue(r)
  <2>1. ~parked /\ ~busy
    BY <1>3 DEF Issue
  <2>2. ackCount = 0 /\ addrCount = 0 /\ ~stb /\ ~ack
    BY <1>2, <2>1 DEF IInv, TypeOK, BeatInv, Count
  <2>3. Landed' = 0
    <3>1. addrCount' = 0 /\ ~stb'
      BY <1>1, <2>2
    <3>2. Count(stb') = 0
      BY <3>1 DEF Count
    <3> QED BY <3>1, <3>2 DEF Landed
  <2>4. Offset(req') \in 0..3
    <3>1. req'.addr \in Nat
      BY <1>3, RequestsOK, SizeAssumption DEF Issue, ReqOK, Access, Addr
    <3> QED BY <3>1 DEF Offset
  <2>5. ~(\E i \in 0 .. Width(req'.op) - 1 : Offset(req') + i < 4 * Landed')
    BY <2>3, <2>4, WidthType
  <2>6. BeatsCounted'
    BY <1>1, <2>2 DEF BeatsCounted, Count
  <2>7. BeatOnBus'
    BY <1>1, <2>2 DEF BeatOnBus
  <2>8. BytesLanded'
    BY <2>5 DEF BytesLanded
  <2> QED BY <2>6, <2>7, <2>8 DEF StoreInv
<1>4. CASE Rest \/ Park
  <2>1. ~strobe' /\ UNCHANGED req
    BY <1>4 DEF Rest, Park
  <2>2. BeatOnBus'
    <3>1. CASE Rest
      <4>1. ~stb
        BY <1>2, <3>1 DEF Rest, IInv, TypeOK, BeatInv, Count
      <4> QED BY <1>1, <4>1 DEF BeatOnBus
    <3>2. CASE Park
      <4>1. parked
        BY <3>2 DEF Park
      <4>2. rst = 0 => ~stb
        BY <1>2, <4>1, BoundAssumption DEF IInv, ResetInv
      <4> QED BY <1>1, <1>2, <2>1, <4>2 DEF TypeOK, StoreInv, BeatOnBus, BeatOn
    <3> QED BY <1>4, <3>1, <3>2
  <2> QED BY <2>1, <2>2 DEF StoreInv, BeatsCounted, BytesLanded
<1>5. CASE Reissue
  <2>1. ~parked /\ busy /\ UNCHANGED <<strobe, req>>
    BY <1>5 DEF Reissue
  <2>2. BeatsCounted'
    BY <1>1, <2>1 DEF IInv, BeatInv, BeatsCounted
  <2>3. BeatOnBus'
    BY <1>1, <2>1 DEF StoreInv, BeatOnBus, BeatOn
  <2>4. BytesLanded'
    BY <1>1, <2>1 DEF StoreInv, BytesLanded, Landed
  <2> QED BY <2>2, <2>3, <2>4 DEF StoreInv
<1> QED BY <1>3, <1>4, <1>5 DEF Negedge

LEMMA StorePosedge == ASSUME IInv, StoreInv, Posedge PROVE StoreInv'
<1>1. /\ edge = "pos" /\ edge' = "neg" /\ UNCHANGED <<strobe, req, parked>>
      /\ (stb' <=> strobe /\ (addrCount # WordTarget(req) \/ Stall))
      /\ (we' <=> strobe /\ IsStore(req.op))
  BY DEF Posedge, Master, cpuVars
<1>2. TypeOK /\ WordTarget(req) \in 1..2 /\ ReqOK(req) /\ req.addr \in Nat /\ Offset(req) \in 0..3
  BY TargetType, SizeAssumption DEF IInv, TypeOK, ReqOK, Access, Addr, Offset
<1>3. addrCount <= WordTarget(req) /\ addrCount \in 0..3 /\ ackCount \in 0..3
  BY <1>2 DEF IInv, TypeOK, ResetInv
<1>4. /\ NextBeat => \E n \in {0, 1} : n = addrCount /\ BeatOn(n)'
      /\ ~NextBeat => UNCHANGED <<adr, sel, dat>>
  <2>1. CASE NextBeat
    <3>1. addrCount \in {0, 1} /\ addrCount % 2 = addrCount
      BY <1>2, <1>3, <2>1 DEF NextBeat
    <3> QED BY <1>1, <2>1, <3>1 DEF Posedge, Master, BeatOn
  <2>2. CASE ~NextBeat
    BY <2>2 DEF Posedge, Master
  <2> QED BY <2>1, <2>2
<1>5. ASSUME strobe
      PROVE  addrCount = ackCount + Count(ack) + Count(stb)
  BY <1>1, <1>5 DEF StoreInv, BeatsCounted
<1>6. ASSUME strobe, ~NextBeat, stb' PROVE stb
  <2>1. CASE Stall
    BY <2>1 DEF Stall
  <2>2. CASE ~Stall
    <3>1. addrCount # WordTarget(req) /\ ackCount = WordTarget(req)
      BY <1>1, <1>6, <2>2 DEF NextBeat
    <3> QED BY <3>1, <1>2, <1>3, <1>5, <1>6 DEF Count
  <2> QED BY <2>1, <2>2
<1>7. ASSUME ~parked, strobe
      PROVE  /\ Complete => Landed' = 0
             /\ ~Complete => /\ addrCount' = IF NextBeat THEN addrCount + 1 ELSE addrCount
                             /\ Landed' = IF stb /\ ~VgaReq THEN addrCount ELSE Landed
             /\ stb => Landed = addrCount - 1
             /\ Complete => ~stb'
  <2>1. rst = 0
    BY <1>1, <1>2, <1>7 DEF IInv, ResetInv, TypeOK
  <2>2. addrCount' = IF Complete THEN 0
                     ELSE IF NextBeat THEN (addrCount + 1) % 4 ELSE addrCount
    BY <2>1 DEF Posedge, Master
  <2>3. NextBeat => (addrCount + 1) % 4 = addrCount + 1
    BY <1>2, <1>3 DEF NextBeat
  <2>4. Complete => addrCount = WordTarget(req) /\ ~stb
    <3> SUFFICES ASSUME Complete PROVE addrCount = WordTarget(req) /\ ~stb
      OBVIOUS
    <3>1. ack /\ ackCount + 1 = WordTarget(req)
      BY <1>2, <1>3 DEF Complete, Acked
    <3> QED BY <1>2, <1>3, <1>5, <1>7, <3>1 DEF Count
  <2>5. Complete => ~stb'
    BY <1>1, <2>4 DEF Stall
  <2>6. Complete => Landed' = 0
    BY <2>2, <2>5 DEF Landed, Count
  <2>7. ~Complete => Landed' = IF stb /\ ~VgaReq THEN addrCount ELSE Landed
    <3> SUFFICES ASSUME ~Complete PROVE Landed' = IF stb /\ ~VgaReq THEN addrCount ELSE Landed
      OBVIOUS
    <3>1. CASE NextBeat
      <4>1. stb' /\ addrCount' = addrCount + 1 /\ (stb => ~VgaReq)
        BY <1>1, <1>7, <2>2, <2>3, <3>1 DEF NextBeat, Stall
      <4> QED BY <1>3, <4>1 DEF Landed, Count
    <3>2. CASE ~NextBeat
      <4>1. addrCount' = addrCount /\ (stb' => stb) /\ (stb /\ VgaReq => stb')
        BY <1>1, <1>6, <1>7, <2>2, <3>2 DEF Stall
      <4>2. stb /\ ~VgaReq => ~stb'
        <5> SUFFICES ASSUME stb, ~VgaReq, stb' PROVE FALSE
          OBVIOUS
        <5>1. addrCount # WordTarget(req) /\ ackCount = WordTarget(req)
          BY <1>1, <1>7, <3>2 DEF NextBeat, Stall
        <5> QED BY <5>1, <1>2, <1>3, <1>5, <1>7 DEF Count
      <4> QED BY <1>3, <4>1, <4>2 DEF Landed, Count
    <3> QED BY <3>1, <3>2
  <2> QED BY <2>2, <2>3, <2>5, <2>6, <2>7 DEF Landed, Count
<1>8. BeatOnBus'
  <2> SUFFICES ASSUME stb'
               PROVE  (we' <=> IsStore(req.op)) /\ (BeatOn(0) \/ BeatOn(1))'
                      /\ (~parked => BeatOn(addrCount - 1)')
    BY <1>1 DEF BeatOnBus
  <2>1. strobe /\ (we' <=> IsStore(req.op))
    BY <1>1
  <2>2. CASE NextBeat
    <3>1. ~parked => addrCount' - 1 = addrCount
      BY <1>3, <1>7, <2>1, <2>2
    <3>2. ~parked => BeatOn(addrCount - 1)'
      BY <1>4, <2>2, <3>1 DEF BeatOn
    <3> QED BY <1>4, <2>1, <2>2, <3>2
  <2>3. CASE ~NextBeat
    <3>1. stb
      BY <1>6, <2>1, <2>3
    <3>2. ~parked => addrCount' = addrCount
      BY <1>7, <2>1, <2>3
    <3>3. UNCHANGED <<adr, sel, dat, req>>
      BY <1>1, <1>4, <2>3
    <3> QED BY <2>1, <3>1, <3>2, <3>3 DEF StoreInv, BeatOnBus, BeatOn
  <2> QED BY <2>2, <2>3
<1>9. BytesLanded'
  <2> SUFFICES ASSUME ~parked, strobe, IsStore(req.op),
                      NEW i \in 0 .. Width(req.op) - 1, Offset(req) + i < 4 * Landed'
               PROVE  ByteOf(mem', req.addr + i) = req.data[i]
    BY <1>1 DEF BytesLanded
  <2>1. ~Complete
    BY <1>2, <1>7
  <2>2. /\ i \in 0..3 /\ req.addr + i \in Addr /\ req.addr + i \in Footprint(req)
        /\ (req.addr + i) - req.addr = i
    BY <1>2, WidthType, SizeAssumption DEF ReqOK, Addr, Footprint
  <2>3. Offset(req) + i < 4 * Landed => ByteOf(mem, req.addr + i) = req.data[i]
    BY DEF StoreInv, BytesLanded
  <2>4. CASE stb /\ ~VgaReq
    <3>1. BeatOn(addrCount - 1) /\ addrCount - 1 \in {0, 1}
      BY <1>2, <1>3, <1>5, <2>4 DEF StoreInv, BeatOnBus, Count
    <3>2. ByteOf(mem', req.addr + i)
          = IF (req.addr + i) \div 4 = req.addr \div 4 + (addrCount - 1)
            THEN req.data[i] ELSE ByteOf(mem, req.addr + i)
      BY <2>2, <2>4, <3>1, RamWrites
    <3>3. Landed = addrCount - 1 /\ Landed' = addrCount
      BY <1>7, <2>1, <2>4
    <3>4. CASE Offset(req) + i < 4 * Landed
      BY <2>3, <3>2, <3>4
    <3>5. CASE ~(Offset(req) + i < 4 * Landed)
      <4>1. /\ 4 * (addrCount - 1) <= (req.addr % 4) + i
            /\ (req.addr % 4) + i < 4 * (addrCount - 1) + 4
        BY <1>2, <1>3, <2>2, <3>3, <3>5 DEF Offset
      <4>2. (req.addr + i) \div 4 = req.addr \div 4 + (addrCount - 1)
        BY <1>2, <2>2, <3>1, <4>1, BytePosition
      <4> QED BY <3>2, <4>2
    <3> QED BY <3>4, <3>5
  <2>5. CASE ~(stb /\ ~VgaReq)
    <3>1. ByteOf(mem', req.addr + i) = ByteOf(mem, req.addr + i)
      BY <2>2, <2>5, RamWrites
    <3> QED BY <1>7, <2>1, <2>3, <2>5, <3>1
  <2> QED BY <2>4, <2>5
<1> QED BY <1>1, <1>8, <1>9 DEF StoreInv, BeatsCounted

LEMMA StoreInvariant == Spec => []StoreInv
<1>1. Init => StoreInv
  BY DEF Init, InitPort, StoreInv, BeatsCounted, BeatOnBus, BytesLanded
<1>2. IInv /\ StoreInv /\ [Next]_vars => StoreInv'
  <2>1. StoreInv /\ UNCHANGED vars => StoreInv'
    BY DEF vars, cpuVars, masterVars, ramVars, StoreInv, BeatsCounted, BeatOnBus, BeatOn,
       BytesLanded, Landed
  <2> QED BY <2>1, StoreNegedge, StorePosedge DEF Next
<1> QED BY <1>1, <1>2, IInvInvariant, PTL DEF Spec
-----------------------------------------------------------------------------
(* The refinement, step by step. *)

LEMMA AbstractWords ==
    /\ \A op : Abstract!IsStore(op) <=> IsStore(op)
    /\ \A op : Abstract!Width(op) = Width(op)
    /\ \A op, b : Abstract!Extend(op, b) = Extend(op, b)
    /\ \A r : Abstract!Footprint(r) = Footprint(r)
BY DEF Abstract!IsStore, IsStore, Abstract!Width, Width, Abstract!Extend, Extend,
   Abstract!Footprint, Footprint, Abstract!SignFill, SignFill, Abstract!Lane, Lane

\* The memory the CPU sees: the RAM, with the store of access r done when
\* there is one under way.
Seen(m, busyWith, r) ==
    [a \in Addr |-> IF busyWith /\ IsStore(r.op) /\ a \in Footprint(r)
                    THEN r.data[a - r.addr] ELSE ByteOf(m, a)]

LEMMA SeenNow == AbstractMemory = Seen(mem, Outstanding, req)
BY DEF AbstractMemory, Seen, ByteOf

Pending == IF Outstanding THEN req ELSE None

\* Each step of the abstract memory, in the terms of the bus.
LEMMA AbstractRequest ==
    ASSUME ~Outstanding, Outstanding', req' \in Requests, mem' = mem,
           AbstractResult' = AbstractResult
    PROVE  Abstract!Next
<1>1. Pending = None /\ Pending' = req'
  BY DEF Pending
<1>2. AbstractMemory' = IF Abstract!IsStore(req'.op)
                        THEN Abstract!Stored(AbstractMemory, req') ELSE AbstractMemory
  BY SeenNow, AbstractWords DEF Seen, Abstract!Stored, AbstractMemory, ByteOf
<1>3. Abstract!Request
  BY <1>1, <1>2 DEF Abstract!Request, Pending
<1> QED BY <1>3 DEF Abstract!Next

LEMMA AbstractAbort ==
    ASSUME Outstanding, ~Outstanding', rst > 0, req \in Access(Addr, Word),
           AbstractResult' = AbstractResult,
           \A a \in Addr : ByteOf(mem', a) # ByteOf(mem, a)
                             => IsStore(req.op) /\ a \in Footprint(req)
    PROVE  Abstract!Next
<1>1. Pending = req /\ Pending' = None /\ Pending # None
  BY NoneAssumption DEF Pending
<1>2. DOMAIN AbstractMemory' = Addr
  BY DEF AbstractMemory
<1>3. ASSUME NEW a \in Addr, AbstractMemory'[a] # AbstractMemory[a]
      PROVE  Abstract!IsStore(req.op) /\ a \in Abstract!Footprint(req)
  BY <1>3, AbstractWords DEF AbstractMemory, ByteOf
<1>4. Abstract!Abort
  BY <1>1, <1>2, <1>3 DEF Abstract!Abort, Pending
<1> QED BY <1>4 DEF Abstract!Next

LEMMA AbstractStutter ==
    ASSUME (Outstanding \/ Outstanding') => req' = req,
           Outstanding' <=> Outstanding,
           AbstractResult' = AbstractResult,
           \A a \in Addr : ByteOf(mem', a) # ByteOf(mem, a)
                             => Outstanding /\ IsStore(req.op) /\ a \in Footprint(req)
    PROVE  Abstract!Next
<1>1. Pending' = Pending
  BY DEF Pending
<1>2. AbstractMemory' = AbstractMemory
  BY DEF AbstractMemory, ByteOf
<1> QED BY <1>1, <1>2 DEF Abstract!Next, Pending

LEMMA AbstractRespond ==
    ASSUME Outstanding, ~Outstanding', req \in Access(Addr, Word), mem' = mem,
           IsStore(req.op) =>
               /\ AbstractResult' = AbstractResult
               /\ \A a \in Footprint(req) : ByteOf(mem, a) = req.data[a - req.addr],
           ~IsStore(req.op) =>
               AbstractResult' = Extend(req.op, LoadedBytes(mem, req)),
           req.addr + Width(req.op) <= 4 * NumWords
    PROVE  Abstract!Next
<1>1. Pending = req /\ Pending' = None /\ Pending # None
  BY NoneAssumption DEF Pending
<1>2. AbstractMemory' = AbstractMemory
  BY DEF AbstractMemory, ByteOf
<1>3. ~IsStore(req.op) => Abstract!Loaded(AbstractMemory, req) = LoadedBytes(mem, req)
  <2> SUFFICES ASSUME ~IsStore(req.op)
               PROVE  Abstract!Loaded(AbstractMemory, req) = LoadedBytes(mem, req)
    OBVIOUS
  <2>1. \A i \in Lane : i < Width(req.op)
          => AbstractMemory[req.addr + i] = mem[(req.addr + i) \div 4][(req.addr + i) % 4]
    <3>1. ASSUME NEW i \in Lane, i < Width(req.op) PROVE req.addr + i \in Addr
      BY <3>1, SizeAssumption, WidthType DEF Access, Addr, Lane
    <3> QED BY <3>1 DEF AbstractMemory
  <2> QED BY <2>1, AbstractWords DEF Abstract!Loaded, LoadedBytes, Abstract!Lane, Lane
<1>4. Abstract!Respond
  BY <1>1, <1>2, <1>3, AbstractWords DEF Abstract!Respond, Pending
<1> QED BY <1>4 DEF Abstract!Next

LEMMA RefineNegedge == ASSUME IInv, Negedge PROVE Abstract!Next
<1>1. /\ edge = "neg" /\ edge' = "pos" /\ (parked' <=> rst > 0)
      /\ UNCHANGED <<stb, mem, busy, buffer, lastOp, result, rst>>
  BY DEF Negedge, masterVars, ramVars, unitVars
<1>2. TypeOK
  BY DEF IInv
<1>3. ~Served' /\ (Outstanding' <=> strobe' \/ stb)
  BY <1>1 DEF Served, Outstanding
<1>4. AbstractResult' = AbstractResult
  <2>1. capture' <=> Served /\ ~IsStore(req.op)
    BY <1>1, <1>2 DEF Negedge, Issue, Reissue, Rest, Park, ReadServed, Served, TypeOK
  <2> QED BY <1>1, <1>3, <2>1 DEF AbstractResult
<1>5. CASE \E r \in Requests : Issue(r)
  <2>1. ~parked /\ ~busy /\ strobe' /\ req' \in Requests
    BY <1>5 DEF Issue
  <2>2. ~stb
    BY <1>2, <2>1 DEF IInv, TypeOK, BeatInv, Count
  <2>3. ~Outstanding /\ Outstanding'
    BY <1>1, <1>3, <2>1, <2>2 DEF Outstanding, Served
  <2> QED BY <1>1, <1>4, <2>1, <2>3, AbstractRequest
<1>6. CASE Reissue
  <2>1. UNCHANGED <<strobe, req>> /\ ~Served
    BY <1>6 DEF Reissue, Served
  <2>2. Outstanding' <=> Outstanding
    BY <1>1, <1>3, <2>1 DEF Outstanding
  <2> QED BY <1>1, <1>4, <2>1, <2>2, AbstractStutter
<1>7. CASE Rest
  <2>1. ~parked /\ ~busy /\ strobe' = FALSE /\ req' = req
    BY <1>7 DEF Rest
  <2>2. ~stb
    BY <1>2, <2>1 DEF IInv, TypeOK, BeatInv, Count
  <2>3. ~Outstanding /\ ~Outstanding'
    BY <1>1, <1>2, <1>3, <2>1, <2>2 DEF Outstanding, Served, TypeOK
  <2> QED BY <1>1, <1>4, <2>1, <2>3, AbstractStutter
<1>8. CASE Park
  <2>1. parked /\ strobe' = FALSE /\ req' = req
    BY <1>8 DEF Park
  <2>2. Outstanding <=> strobe \/ stb
    BY <2>1 DEF Outstanding, Served
  <2>3. CASE strobe /\ ~stb
    <3>1. rst > 0
      BY <1>2, <2>1, <2>3, BoundAssumption DEF IInv, TypeOK, ResetInv
    <3>2. Outstanding /\ ~Outstanding'
      BY <1>3, <2>1, <2>2, <2>3
    <3>3. req \in Access(Addr, Word)
      BY <1>2 DEF TypeOK
    <3> QED BY <1>1, <1>4, <3>1, <3>2, <3>3, AbstractAbort
  <2>4. CASE ~(strobe /\ ~stb)
    <3>1. Outstanding' <=> Outstanding
      BY <1>1, <1>2, <1>3, <2>1, <2>2, <2>4 DEF TypeOK
    <3> QED BY <1>1, <1>4, <2>1, <3>1, AbstractStutter
  <2> QED BY <2>3, <2>4
<1> QED BY <1>5, <1>6, <1>7, <1>8 DEF Negedge

LEMMA RefinePosedge ==
    ASSUME IInv, StoreInv, LoadReturnsMemory', Posedge
    PROVE  Abstract!Next
<1>1. /\ edge = "pos" /\ edge' = "neg" /\ UNCHANGED <<strobe, req, parked, capture>>
      /\ (busy' <=> strobe /\ ~Complete)
      /\ (stb' <=> strobe /\ (addrCount # WordTarget(req) \/ Stall))
      /\ result' = IF capture THEN Extend(lastOp, buffer) ELSE result
  BY DEF Posedge, Master, BusUnit, cpuVars
<1>2. /\ TypeOK /\ WordTarget(req) \in 1..2 /\ ReqOK(req) /\ req \in Access(Addr, Word)
      /\ req.addr \in Nat /\ Offset(req) \in 0..3 /\ req.op \in BusOp
      /\ req.addr + Width(req.op) <= 4 * NumWords
  BY TargetType, SizeAssumption DEF IInv, TypeOK, ReqOK, Access, Addr, Offset
<1>3. ~Served /\ (Outstanding <=> strobe \/ stb)
  BY <1>1 DEF Served, Outstanding
<1>4. Served' <=> strobe /\ Complete /\ ~parked
  BY <1>1 DEF Served
<1>5. Outstanding' <=> (strobe \/ stb') /\ ~Served'
  BY <1>1 DEF Outstanding
<1>6. AbstractResult' = IF Served' /\ ~IsStore(req.op) THEN Extend(lastOp', buffer')
                        ELSE AbstractResult
  BY <1>1, <1>3, <1>4 DEF AbstractResult
<1>7. ASSUME NEW a \in Addr, ByteOf(mem', a) # ByteOf(mem, a)
      PROVE  stb /\ IsStore(req.op) /\ a \in Footprint(req)
  BY <1>7, RamWrites DEF StoreInv, BeatOnBus
<1>8. CASE ~strobe
  <2>1. ~Outstanding' /\ ~Served' /\ AbstractResult' = AbstractResult
    BY <1>1, <1>4, <1>5, <1>6, <1>8
  <2>2. CASE stb
    <3>1. rst > 0
      <4>1. parked
        BY <1>2, <1>8, <2>2 DEF IInv, TypeOK, BeatInv, Count
      <4> QED BY <1>2, <2>2, <4>1, BoundAssumption DEF IInv, TypeOK, ResetInv
    <3>2. Outstanding
      BY <1>3, <2>2
    <3> QED BY <1>2, <1>7, <2>1, <3>1, <3>2, AbstractAbort
  <2>3. CASE ~stb
    <3>1. ~Outstanding /\ ~Outstanding'
      BY <1>3, <1>5, <1>8, <2>1, <2>3 DEF Outstanding
    <3> QED BY <1>7, <2>1, <2>3, <3>1, AbstractStutter
  <2> QED BY <2>2, <2>3
<1>9. CASE strobe /\ ~Served'
  <2>1. Outstanding /\ Outstanding'
    BY <1>2, <1>3, <1>5, <1>9 DEF TypeOK
  <2> QED BY <1>1, <1>6, <1>7, <1>9, <2>1, AbstractStutter
<1>10. CASE Served'
  <2>1. strobe /\ Complete /\ ~parked
    BY <1>4, <1>10
  <2>2. Outstanding /\ ~Outstanding'
    BY <1>3, <1>5, <1>10, <2>1
  <2>3. addrCount = WordTarget(req) /\ ~stb
    <3>1. addrCount = ackCount + Count(ack) + Count(stb) /\ addrCount <= WordTarget(req)
          /\ addrCount \in 0..3 /\ ackCount \in 0..3
      BY <1>1, <1>2, <2>1 DEF StoreInv, BeatsCounted, IInv, ResetInv, TypeOK
    <3>2. ack /\ ackCount + 1 = WordTarget(req)
      BY <1>2, <2>1, <3>1 DEF Complete, Acked
    <3> QED BY <1>2, <3>1, <3>2 DEF Count
  <2>4. mem' = mem
    BY <2>3 DEF Posedge, Ram
  <2>5. ASSUME IsStore(req.op)
        PROVE  /\ AbstractResult' = AbstractResult
               /\ \A a \in Footprint(req) : ByteOf(mem, a) = req.data[a - req.addr]
    <3>1. ASSUME NEW a \in Footprint(req) PROVE ByteOf(mem, a) = req.data[a - req.addr]
      <4>1. a - req.addr \in 0 .. Width(req.op) - 1 /\ req.addr + (a - req.addr) = a
        BY <1>2, WidthType DEF Footprint
      <4>2. Landed = WordTarget(req)
        BY <1>2, <2>3 DEF Landed, Count
      <4>3. Offset(req) + (a - req.addr) < 4 * Landed
        <5>1. CASE WordTarget(req) = 1
          BY <1>2, <4>1, <4>2, <5>1, OneWordReach, WidthType
        <5>2. CASE WordTarget(req) = 2
          BY <1>2, <4>1, <4>2, <5>2, WidthType
        <5> QED BY <1>2, <5>1, <5>2
      <4> QED BY <2>1, <2>5, <4>1, <4>3 DEF StoreInv, BytesLanded
    <3> QED BY <1>6, <2>5, <3>1
  <2>6. ASSUME ~IsStore(req.op)
        PROVE  AbstractResult' = Extend(req.op, LoadedBytes(mem, req))
    <3>1. LoadedBytes(mem', req') = LoadedBytes(mem, req)
      BY <1>1, <2>4
    <3> QED BY <1>1, <1>6, <1>10, <2>6, <3>1 DEF LoadReturnsMemory
  <2> QED BY <1>2, <2>2, <2>4, <2>5, <2>6, AbstractRespond
<1> QED BY <1>8, <1>9, <1>10

\* The CPU's bus unit, the adapter and the RAM it shares with the video are
\* the memory the CPU is promised (ByteMemory): every store takes effect once
\* and touches no other byte, every load returns what was stored, and a reset
\* disturbs no byte but those of the store it cuts.
THEOREM BusIsAMemory == NumWords <= BankWords => (Spec => ImplementsByteMemory)
<1> SUFFICES ASSUME NumWords <= BankWords PROVE Spec => ImplementsByteMemory
  OBVIOUS
<1>1. Init => Abstract!Init
  BY DEF Init, InitPort, Abstract!Init, Outstanding
<1>2. UNCHANGED vars => UNCHANGED Abstract!vars
  BY DEF vars, cpuVars, unitVars, masterVars, ramVars, Abstract!vars, AbstractMemory,
     AbstractResult, Outstanding, Served
<1>3. IInv /\ StoreInv /\ LoadReturnsMemory' /\ [Next]_vars => [Abstract!Next]_(Abstract!vars)
  BY <1>2, RefineNegedge, RefinePosedge DEF Next
<1> QED BY <1>1, <1>3, IInvInvariant, LoadsReturnMemory, StoreInvariant, PTL
       DEF Spec, ImplementsByteMemory, Abstract!Spec
=============================================================================
