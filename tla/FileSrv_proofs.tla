--------------------------- MODULE FileSrv_proofs ---------------------------
(***************************************************************************)
(* Proofs about the file transfer, for files of any content, any number of *)
(* commands, any failures of the card and any damage on the line: as long  *)
(* as no damage was one the protocol cannot survive, both sides agree on   *)
(* where the next packet begins whenever the user is asked for a command,  *)
(* and a command leaves at most as many handles behind as there were       *)
(* failures.                                                               *)
(*                                                                         *)
(* The invariant says where the one request is that can be under way       *)
(* (Phase), counts the bytes on both directions of the line, and says which *)
(* handle the running command holds (Opened).  The layer of packets is     *)
(* reasoned about by what its steps do to both ends and the line, for      *)
(* either side; the checksum only by its being a byte.                     *)
(***************************************************************************)
EXTENDS FileSrv, FiniteSetTheorems, SequenceTheorems, WellFoundedInduction, TLAPS

-----------------------------------------------------------------------------
(* The checksum. *)

\* Induction over data, by way of the smallest counterexample.
LEMMA SmallestExists ==
    ASSUME NEW T, T \subseteq Nat, T # {}
    PROVE  \E x \in T : \A y \in T : x <= y
<1>1. PICK x \in T : \A y \in T : ~ (<<y, x>> \in OpToRel(<, Nat))
    BY NatLessThanWellFounded, WFMin, Zenon
<1>2. \A y \in T : ~ (y < x)
    BY <1>1 DEF OpToRel
<1> QED
    BY <1>2

\* One byte of the sum.
AddByte(sum, b) == (sum \div 2 + (sum % 2) * 128 + b) % 256

LEMMA ByteAdded ==
    ASSUME NEW sum \in Byte, NEW b \in Nat
    PROVE  AddByte(sum, b) \in Byte
BY DEF AddByte, Byte

\* The recursion defines a function, and the sum is a byte.
LEMMA SumsExist ==
    ASSUME NEW bytes \in Seq(Nat), NEW m \in 0 .. Len(bytes)
    PROVE  \E f : /\ f = [n \in 0 .. m |-> IF n = 0 THEN 0 ELSE AddByte(f[n - 1], bytes[n])]
                  /\ \A n \in 0 .. m : f[n] \in Byte
<1> DEFINE Good(k) == \E f : /\ f = [n \in 0 .. k |-> IF n = 0 THEN 0 ELSE AddByte(f[n - 1], bytes[n])]
                             /\ \A n \in 0 .. k : f[n] \in Byte
           Bad == {k \in 0 .. Len(bytes) : ~Good(k)}
<1>1. Bad = {}
    <2> SUFFICES ASSUME Bad # {} PROVE FALSE
        OBVIOUS
    <2>0. Bad \subseteq Nat
        OBVIOUS
    <2>1. PICK k \in Bad : \A n \in Bad : k <= n
        BY <2>0, SmallestExists
    <2>2. CASE k = 0
        <3> DEFINE f == [n \in 0 .. 0 |-> 0]
        <3>1. f = [n \in 0 .. 0 |-> IF n = 0 THEN 0 ELSE AddByte(f[n - 1], bytes[n])]
            OBVIOUS
        <3>2. \A n \in 0 .. 0 : f[n] \in Byte
            BY DEF Byte
        <3> QED
            BY <2>1, <2>2, <3>1, <3>2
    <2>3. CASE k # 0
        <3>0. k \in 1 .. Len(bytes) /\ Len(bytes) \in Nat
            BY <2>1, <2>3
        <3>1. k - 1 \in 0 .. Len(bytes) /\ k - 1 \notin Bad
            <4> HIDE DEF Bad
            <4> QED
                BY <2>1, <3>0
        <3>2. PICK f : /\ f = [n \in 0 .. k - 1 |-> IF n = 0 THEN 0 ELSE AddByte(f[n - 1], bytes[n])]
                       /\ \A n \in 0 .. k - 1 : f[n] \in Byte
            BY <3>1
        <3> DEFINE g == [n \in 0 .. k |-> IF n = k THEN AddByte(f[k - 1], bytes[k]) ELSE f[n]]
        <3>3. \A n \in 0 .. k - 1 : g[n] = f[n]
            BY <3>0
        <3>4. g[k] = AddByte(f[k - 1], bytes[k]) /\ bytes[k] \in Nat
            BY <3>0
        <3>5. \A n \in 0 .. k : g[n] \in Byte
            BY <3>0, <3>2, <3>3, <3>4, ByteAdded
        <3>6. ASSUME NEW n \in 0 .. k
              PROVE  g[n] = IF n = 0 THEN 0 ELSE AddByte(g[n - 1], bytes[n])
            <4>1. CASE n = k
                BY <4>1, <3>0, <3>3, <3>4
            <4>2. CASE n # k
                <5>1. n \in 0 .. k - 1
                    BY <4>2, <3>0
                <5>2. f[n] = IF n = 0 THEN 0 ELSE AddByte(f[n - 1], bytes[n])
                    BY <3>2, <5>1
                <5>3. n # 0 => n - 1 \in 0 .. k - 1
                    BY <5>1, <3>0
                <5> QED
                    BY <3>3, <5>1, <5>2, <5>3
            <4> QED
                BY <4>1, <4>2
        <3>7. g = [n \in 0 .. k |-> IF n = 0 THEN 0 ELSE AddByte(g[n - 1], bytes[n])]
            <4>1. \A n \in 0 .. k : g[n] = IF n = 0 THEN 0 ELSE AddByte(g[n - 1], bytes[n])
                BY <3>6
            <4> QED
                BY <4>1
        <3> QED
            BY <2>1, <3>5, <3>7
    <2> QED
        BY <2>2, <2>3
<1> QED
    BY <1>1

LEMMA ChecksumIsByte ==
    ASSUME NEW bytes \in Seq(Nat)
    PROVE  checksum8(bytes) \in Byte
<1> DEFINE after == CHOOSE f : f = [n \in 0 .. Len(bytes) |->
                                      IF n = 0 THEN 0 ELSE AddByte(f[n - 1], bytes[n])]
<1>1. checksum8(bytes) = after[Len(bytes)]
    BY DEF checksum8, AddByte
<1>2. Len(bytes) \in Nat
    OBVIOUS
<1>3. after = [n \in 0 .. Len(bytes) |-> IF n = 0 THEN 0 ELSE AddByte(after[n - 1], bytes[n])]
    <2>1. \E f : f = [n \in 0 .. Len(bytes) |-> IF n = 0 THEN 0 ELSE AddByte(f[n - 1], bytes[n])]
        <3>1. Len(bytes) \in 0 .. Len(bytes)
            BY <1>2
        <3> QED
            BY <3>1, SumsExist
    <2> QED
        BY <2>1, Zenon
<1> HIDE DEF after
<1> DEFINE Bad == {n \in 0 .. Len(bytes) : after[n] \notin Byte}
<1>4. Bad = {}
    <2> SUFFICES ASSUME Bad # {} PROVE FALSE
        OBVIOUS
    <2>0. Bad \subseteq Nat
        OBVIOUS
    <2>1. PICK k \in Bad : \A n \in Bad : k <= n
        BY <2>0, SmallestExists
    <2>2. k # 0
        <3>1. after[k] \notin Byte
            BY <2>1
        <3>2. 0 \in Byte
            BY DEF Byte
        <3>3. after[0] = 0
            <4>1. 0 \in 0 .. Len(bytes)
                BY <1>2
            <4>2. \A n \in 0 .. Len(bytes) : after[n] = IF n = 0 THEN 0 ELSE AddByte(after[n - 1], bytes[n])
                BY <1>3, Zenon
            <4> QED
                BY <4>1, <4>2
        <3> QED
            BY <3>1, <3>2, <3>3, Zenon
    <2>3. k - 1 \in 0 .. Len(bytes) /\ k - 1 \notin Bad
        <3>1. k \in 0 .. Len(bytes)
            OBVIOUS
        <3> HIDE DEF Bad
        <3> QED
            BY <2>1, <2>2, <3>1, <1>2
    <2>4. after[k] = AddByte(after[k - 1], bytes[k]) /\ bytes[k] \in Nat
        <3>1. k \in 1 .. Len(bytes)
            BY <1>2, <2>1, <2>2
        <3>2. k \in 0 .. Len(bytes)
            BY <1>2, <3>1
        <3> HIDE DEF Bad
        <3>3. after[k] = IF k = 0 THEN 0 ELSE AddByte(after[k - 1], bytes[k])
            BY <1>3, <3>2, Zenon
        <3> QED
            BY <3>1, <3>3, <2>2
    <2>5. after[k - 1] \in Byte
        BY <2>3
    <2>6. after[k] \in Byte
        BY <2>4, <2>5, ByteAdded
    <2> QED
        BY <2>1, <2>6
<1> QED
    BY <1>1, <1>2, <1>4
-----------------------------------------------------------------------------
(* Headers. *)

\* A header as it was made for a command and a payload.
IsHead(h, cmd, data) ==
    /\ h \in Seq(Nat) /\ Len(h) = 6 /\ check_baseheader(h)
    /\ Cmd(h) = cmd /\ PayloadLen(h) = Len(data) /\ PayloadSum(h) = checksum8(data)
    /\ HeadSum(h) \in Byte

LEMMA ItemReplaced ==
    ASSUME NEW s \in Seq(Nat), NEW i \in 1 .. Len(s), NEW e \in Nat
    PROVE  [s EXCEPT ![i] = e] \in Seq(Nat) /\ Len([s EXCEPT ![i] = e]) = Len(s)
BY ExceptSeq

LEMMA HeaderMade ==
    ASSUME NEW cmd \in Nat, NEW data \in Seq(Nat)
    PROVE  IsHead(prepare_baseheader(cmd, data), cmd, data)
<1> DEFINE n == Len(data)
           g == <<cmd % 256, cmd \div 256, n % 256, n \div 256, 0, checksum8(data)>>
           h == [g EXCEPT ![5] = checksum8(g)]
<1>1. n \in Nat /\ checksum8(data) \in Nat
    <2>1. checksum8(data) \in Byte
        BY ChecksumIsByte
    <2>2. \A x \in Byte : x \in Nat
        BY DEF Byte
    <2>3. n \in Nat
        OBVIOUS
    <2> QED
        BY <2>1, <2>2, <2>3, Zenon
<1>2. \A x \in Nat : x % 256 \in Nat /\ x \div 256 \in Nat /\ (x % 256) + 256 * (x \div 256) = x
    OBVIOUS
<1>3. g \in Seq(Nat) /\ Len(g) = 6 /\ g[5] = 0
    BY <1>1, <1>2
<1>4. checksum8(g) \in Byte
    BY <1>3, ChecksumIsByte
<1>5. h = prepare_baseheader(cmd, data)
    BY DEF prepare_baseheader
<1>6. h[1] = cmd % 256 /\ h[2] = cmd \div 256 /\ h[3] = n % 256 /\ h[4] = n \div 256
    BY <1>3
<1>6a. h[5] = checksum8(g) /\ h[6] = checksum8(data)
    BY <1>3
<1> HIDE DEF g
<1>7. h \in Seq(Nat) /\ Len(h) = 6
    <2>1. \A x \in Byte : x \in Nat
        BY DEF Byte
    <2>2. checksum8(g) \in Nat
        BY <1>4, <2>1, Zenon
    <2>3. 5 \in 1 .. Len(g)
        BY <1>3
    <2>4. ASSUME NEW e \in Nat
          PROVE  [g EXCEPT ![5] = e] \in Seq(Nat) /\ Len([g EXCEPT ![5] = e]) = 6
        BY <1>3, <2>3, ItemReplaced
    <2> QED
        BY <2>2, <2>4, Zenon
<1>8. [h EXCEPT ![5] = 0] = g
    <2>1. DOMAIN g = 1 .. 6 /\ g = [i \in 1 .. 6 |-> g[i]]
        BY <1>3
    <2> QED
        BY <1>3, <2>1
<1> HIDE DEF h
<1>9. check_baseheader(h)
    BY <1>6a, <1>8 DEF check_baseheader, HeadSum
<1>10. Cmd(h) = cmd /\ PayloadLen(h) = n
    BY <1>1, <1>2, <1>6 DEF Cmd, PayloadLen
<1>11. PayloadSum(h) = checksum8(data) /\ HeadSum(h) \in Byte
    BY <1>4, <1>6a DEF PayloadSum, HeadSum
<1> QED
    BY <1>5, <1>7, <1>9, <1>10, <1>11 DEF IsHead

-----------------------------------------------------------------------------
(* The line. *)

\* Items of the line: m is l without its first n items, and l ends with a
\* header behind n items.
Dropped(l, n, m) ==
    /\ m \in Seq(Nat) /\ Len(m) = Len(l) - n
    /\ \A i \in 1 .. Len(m) : m[i] = l[n + i]
Carries(l, n, h) == Len(l) = n + 6 /\ \A i \in 1 .. 6 : l[n + i] = h[i]

LEMMA NothingDropped ==
    ASSUME NEW l \in Seq(Nat), NEW m, Dropped(l, 0, m)
    PROVE  m = l
BY SeqEqual DEF Dropped

LEMMA AllDropped ==
    ASSUME NEW l \in Seq(Nat), NEW m, Dropped(l, Len(l), m)
    PROVE  m = <<>>
BY DEF Dropped

LEMMA HeaderMoves ==
    ASSUME NEW l \in Seq(Nat), NEW n \in Nat, NEW k \in Nat, NEW m, NEW h,
           Dropped(l, n, m), Carries(l, n + k, h)
    PROVE  Carries(m, k, h)
<1>1. Len(l) = n + k + 6 /\ Len(m) = k + 6
    BY DEF Dropped, Carries
<1>2. ASSUME NEW i \in 1 .. 6 PROVE m[k + i] = h[i]
    <2>1. k + i \in 1 .. Len(m)
        BY <1>1
    <2>2. m[k + i] = l[n + (k + i)]
        BY <2>1 DEF Dropped
    <2>3. n + (k + i) = (n + k) + i
        OBVIOUS
    <2> QED
        BY <2>2, <2>3 DEF Carries
<1> QED
    BY <1>1, <1>2 DEF Carries

LEMMA HeaderAppended ==
    ASSUME NEW l \in Seq(Nat), NEW h \in Seq(Nat), Len(h) = 6
    PROVE  Carries(l \o h, Len(l), h)
<1>1. Len(l) \in Nat /\ Len(l \o h) = Len(l) + 6
    <2>1. Len(l \o h) = Len(l) + Len(h)
        BY ConcatProperties
    <2> QED
        BY <2>1
<1>2. ASSUME NEW i \in 1 .. 6 PROVE (l \o h)[Len(l) + i] = h[i]
    BY <1>1, ConcatProperties
<1> QED
    BY <1>1, <1>2 DEF Carries

LEMMA HeaderRead ==
    ASSUME NEW l \in Seq(Nat), NEW h \in Seq(Nat), Len(h) = 6, Carries(l, 0, h)
    PROVE  SubSeq(l, 1, 6) = h /\ Len(l) = 6
<1>1. Len(l) = 6 /\ \A i \in 1 .. 6 : l[i] = h[i]
    BY DEF Carries
<1>2. SubSeq(l, 1, 6) = l
    BY <1>1, SubSeqFull
<1> QED
    BY <1>1, <1>2, SeqEqual

LEMMA FirstItems ==
    ASSUME NEW l \in Seq(Nat), NEW n \in 0 .. Len(l)
    PROVE  /\ SubSeq(l, 1, n) \in Seq(Nat) /\ Len(SubSeq(l, 1, n)) = n
           /\ n = 0 => SubSeq(l, 1, n) = <<>>
BY SubSeqEmpty

LEMMA ItemsDropped ==
    ASSUME NEW l \in Seq(Nat), NEW n \in 0 .. Len(l)
    PROVE  Dropped(l, n, SubSeq(l, n + 1, Len(l)))
<1>1. Len(l) \in Nat /\ \A i \in n + 1 .. Len(l) : l[i] \in Nat
    OBVIOUS
<1>2. /\ SubSeq(l, n + 1, Len(l)) \in Seq(Nat)
      /\ Len(SubSeq(l, n + 1, Len(l))) = Len(l) - n
      /\ \A i \in 1 .. Len(l) - n : SubSeq(l, n + 1, Len(l))[i] = l[n + i]
    <2>1. n + 1 \in Int /\ Len(l) \in Int
        OBVIOUS
    <2>2. /\ SubSeq(l, n + 1, Len(l)) \in Seq(Nat)
          /\ Len(SubSeq(l, n + 1, Len(l))) = IF n + 1 <= Len(l) THEN Len(l) - (n + 1) + 1 ELSE 0
          /\ \A i \in 1 .. Len(l) - (n + 1) + 1 : SubSeq(l, n + 1, Len(l))[i] = l[(n + 1) + i - 1]
        BY <1>1, <2>1, SubSeqProperties
    <2> QED
        BY <2>2, <1>1
<1> QED
    BY <1>2 DEF Dropped

\* What Exchange does to the two directions.
Moved(p, q, n, bytes) ==
    /\ line' \in [Side -> Seq(Nat)]
    /\ Dropped(line[p], n, line'[p])
    /\ line'[q] = line[q] \o bytes

LineTyped == line \in [Side -> Seq(Nat)]
EndPoint == [at : {"ready", "headAck", "payAck", "header", "payload"},
             head : Seq(Nat), data : Seq(Nat), err : Nat]
EpTyped == ep \in [Side -> EndPoint]

LEMMA Exchanged ==
    ASSUME LineTyped, NEW p \in Side, NEW q \in Side, q # p,
           NEW n \in 0 .. Len(line[p]), NEW bytes \in Seq(Nat), Exchange(p, n, bytes)
    PROVE  Moved(p, q, n, bytes)
<1>1. Peer(p) = q
    BY DEF Peer, Side
<1>2. line[p] \in Seq(Nat) /\ line[q] \in Seq(Nat)
    BY DEF LineTyped
<1> DEFINE m == SubSeq(line[p], n + 1, Len(line[p]))
           o == line[q] \o bytes
<1>3. m \in Seq(Nat) /\ Dropped(line[p], n, m)
    BY <1>2, ItemsDropped DEF Dropped
<1>4. o \in Seq(Nat)
    BY <1>2
<1>5. line' = [line EXCEPT ![p] = m, ![q] = o]
    BY <1>1 DEF Exchange
<1> HIDE DEF m, o
<1>6. line'[p] = m /\ line'[q] = o /\ line' \in [Side -> Seq(Nat)]
    BY <1>3, <1>4, <1>5 DEF LineTyped
<1> QED
    BY <1>3, <1>6 DEF Moved, o

\* Where side p is after a step, the other being where it was.
EpIs(p, q, at, head, data, err) ==
    /\ ep'[p].at = at /\ ep'[p].head = head /\ ep'[p].data = data /\ ep'[p].err = err
    /\ ep'[q] = ep[q] /\ EpTyped'

\* Side p returns from the packet layer or goes on in it: the other is as before.
LEMMA EpSet ==
    ASSUME EpTyped, NEW p \in Side, NEW q \in Side, q # p,
           NEW at \in {"ready", "headAck", "payAck", "header", "payload"},
           NEW head \in Seq(Nat), NEW data \in Seq(Nat), NEW err \in Nat,
           ep' = [ep EXCEPT ![p] = [at |-> at, head |-> head, data |-> data, err |-> err]]
    PROVE  EpIs(p, q, at, head, data, err)
BY DEF EpTyped, EndPoint, EpIs

\* The same, where only some of the fields are set.
LEMMA EpChanged ==
    ASSUME EpTyped, NEW p \in Side, NEW q \in Side, q # p,
           NEW at \in {"ready", "headAck", "payAck", "header", "payload"},
           NEW head \in Seq(Nat), NEW err \in Nat,
           \/ ep' = [ep EXCEPT ![p].at = at, ![p].err = err] /\ head = ep[p].head
           \/ ep' = [ep EXCEPT ![p].at = at, ![p].head = head] /\ err = ep[p].err
    PROVE  EpIs(p, q, at, head, ep[p].data, err)
<1>1. ep[p] \in EndPoint /\ ep[q] \in EndPoint
    BY DEF EpTyped
<1>2. CASE ep' = [ep EXCEPT ![p].at = at, ![p].err = err] /\ head = ep[p].head
    BY <1>1, <1>2 DEF EpTyped, EndPoint, EpIs
<1>3. CASE ep' = [ep EXCEPT ![p].at = at, ![p].head = head] /\ err = ep[p].err
    BY <1>1, <1>3 DEF EpTyped, EndPoint, EpIs
<1> QED
    BY <1>2, <1>3

-----------------------------------------------------------------------------
(* What the packet layer of side p does, the other side being q. *)

Others(p, q) == p \in Side /\ q \in Side /\ q # p
PacketTyped == LineTyped /\ EpTyped

SentHeader(p, q, cmd, data) ==
    /\ PacketTyped' /\ ep'[q] = ep[q]
    /\ ep'[p].at = "headAck" /\ ep'[p].data = data /\ ep'[p].err = 0
    /\ IsHead(ep'[p].head, cmd, data)
    /\ line'[p] = line[p] /\ Carries(line'[q], Len(line[q]), ep'[p].head)
    /\ \A i \in 1 .. Len(line[q]) : line'[q][i] = line[q][i]

LEMMA SendHeaderEffect ==
    ASSUME PacketTyped, NEW p, NEW q, Others(p, q), NEW cmd \in Nat, NEW data \in Seq(Nat),
           SendHeader(p, cmd, data)
    PROVE  SentHeader(p, q, cmd, data)
<1> DEFINE h == prepare_baseheader(cmd, data)
           r == [at |-> "headAck", head |-> h, data |-> data, err |-> 0]
<1>1. IsHead(h, cmd, data)
    BY HeaderMade
<1>2. ep' = [ep EXCEPT ![p] = r] /\ Exchange(p, 0, h)
    BY DEF SendHeader
<1> HIDE DEF h
<1>3. h \in Seq(Nat) /\ Len(h) = 6
    BY <1>1 DEF IsHead
<1>4. EpIs(p, q, "headAck", h, data, 0)
    BY <1>2, <1>3, EpSet DEF Others, PacketTyped
<1>5. line[p] \in Seq(Nat) /\ line[q] \in Seq(Nat)
    BY DEF PacketTyped, LineTyped, Others
<1>6. Moved(p, q, 0, h)
    <2>1. 0 \in 0 .. Len(line[p])
        BY <1>5
    <2> QED
        BY <2>1, <1>2, <1>3, <1>5, Exchanged DEF Others, PacketTyped
<1>7. line'[p] = line[p]
    BY <1>5, <1>6, NothingDropped DEF Moved
<1>8. Carries(line'[q], Len(line[q]), h)
    BY <1>3, <1>5, <1>6, HeaderAppended DEF Moved
<1>9. PacketTyped'
    BY <1>4, <1>6 DEF PacketTyped, Moved, LineTyped, EpIs
<1>10. \A i \in 1 .. Len(line[q]) : line'[q][i] = line[q][i]
    <2>1. line'[q] = line[q] \o h /\ Len(line[q]) \in Nat
        BY <1>5, <1>6 DEF Moved
    <2> QED
        BY <1>3, <1>5, <2>1, ConcatProperties
<1> QED
    BY <1>1, <1>4, <1>7, <1>8, <1>9, <1>10 DEF SentHeader, EpIs

SentPayload(p, q) ==
    /\ PacketTyped' /\ ep'[q] = ep[q] /\ Len(line[p]) >= 1
    /\ ep[p].at = "headAck" /\ ep'[p].at = "payAck"
    /\ ep'[p].head = ep[p].head /\ ep'[p].data = ep[p].data
    /\ line[p][1] = HeadSum(ep[p].head) => ep'[p].err = 0
    /\ Dropped(line[p], 1, line'[p])
    /\ line'[q] = line[q] \o ep[p].data

LEMMA SendPayloadEffect ==
    ASSUME PacketTyped, NEW p, NEW q, Others(p, q), SendPayload(p)
    PROVE  SentPayload(p, q)
<1> DEFINE e == IF line[p][1] # HeadSum(ep[p].head) THEN 1 ELSE 0
<1>1. ep[p].head \in Seq(Nat) /\ ep[p].data \in Seq(Nat) /\ e \in Nat
    BY DEF PacketTyped, EpTyped, EndPoint, Others
<1>2. ep' = [ep EXCEPT ![p].at = "payAck", ![p].err = e]
    BY DEF SendPayload
<1> HIDE DEF e
<1>3. EpIs(p, q, "payAck", ep[p].head, ep[p].data, e)
    BY <1>1, <1>2, EpChanged DEF Others, PacketTyped
<1>4. line[p] \in Seq(Nat) /\ line[q] \in Seq(Nat)
    BY DEF PacketTyped, LineTyped, Others
<1>5. Len(line[p]) >= 1 /\ Exchange(p, 1, ep[p].data) /\ ep[p].at = "headAck"
    BY DEF SendPayload, Arrived
<1>6. Moved(p, q, 1, ep[p].data)
    BY <1>1, <1>4, <1>5, Exchanged DEF Others, PacketTyped
<1>7. PacketTyped'
    BY <1>3, <1>6 DEF PacketTyped, Moved, LineTyped, EpIs
<1> QED
    BY <1>3, <1>5, <1>6, <1>7 DEF SentPayload, Moved, e, EpIs

EndedSend(p, q) ==
    /\ PacketTyped' /\ ep'[q] = ep[q] /\ Len(line[p]) >= 1
    /\ ep[p].at = "payAck" /\ ep'[p].at = "ready" /\ ep'[p].head = ep[p].head
    /\ line[p][1] = PayloadSum(ep[p].head) => ep'[p].err = ep[p].err
    /\ Dropped(line[p], 1, line'[p])
    /\ line'[q] = line[q]

LEMMA EndSendEffect ==
    ASSUME PacketTyped, NEW p, NEW q, Others(p, q), EndSend(p)
    PROVE  EndedSend(p, q)
<1> DEFINE e == IF line[p][1] # PayloadSum(ep[p].head) THEN 2 ELSE ep[p].err
<1>1. ep[p].head \in Seq(Nat) /\ e \in Nat /\ <<>> \in Seq(Nat)
    BY DEF PacketTyped, EpTyped, EndPoint, Others
<1>2. ep' = [ep EXCEPT ![p] = [at |-> "ready", head |-> ep[p].head, data |-> <<>>, err |-> e]]
    BY DEF EndSend, Returns, Ready
<1> HIDE DEF e
<1>3. EpIs(p, q, "ready", ep[p].head, <<>>, e)
    BY <1>1, <1>2, EpSet DEF Others, PacketTyped
<1>4. line[p] \in Seq(Nat) /\ line[q] \in Seq(Nat)
    BY DEF PacketTyped, LineTyped, Others
<1>5. Len(line[p]) >= 1 /\ Exchange(p, 1, <<>>) /\ ep[p].at = "payAck"
    BY DEF EndSend, Arrived
<1>6. Moved(p, q, 1, <<>>)
    <2>1. 1 \in 0 .. Len(line[p]) /\ <<>> \in Seq(Nat)
        BY <1>4, <1>5
    <2> QED
        BY <2>1, <1>5, Exchanged DEF Others, PacketTyped
<1>7. PacketTyped'
    BY <1>3, <1>6 DEF PacketTyped, Moved, LineTyped, EpIs
<1>8. line'[q] = line[q]
    BY <1>4, <1>6, ConcatEmptySeq DEF Moved
<1> QED
    BY <1>3, <1>5, <1>6, <1>7, <1>8 DEF EndedSend, Moved, e, EpIs

Listens(p, q) ==
    /\ PacketTyped' /\ ep'[q] = ep[q] /\ line' = line
    /\ ep[p].at = "ready" /\ ep'[p].at = "header" /\ ep'[p].err = 0

LEMMA ReceiveEffect ==
    ASSUME PacketTyped, NEW p, NEW q, Others(p, q), Receive(p)
    PROVE  Listens(p, q)
<1>1. ep' = [ep EXCEPT ![p] = [at |-> "header", head |-> NoHead, data |-> <<>>, err |-> 0]]
    <2>1. [Ready(NoHead, <<>>, 0) EXCEPT !.at = "header"]
            = [at |-> "header", head |-> NoHead, data |-> <<>>, err |-> 0]
        BY DEF Ready
    <2> QED
        BY <2>1, Zenon DEF Receive
<1>2. NoHead \in Seq(Nat) /\ <<>> \in Seq(Nat)
    BY DEF NoHead
<1>3. EpIs(p, q, "header", NoHead, <<>>, 0)
    BY <1>1, <1>2, EpSet DEF Others, PacketTyped
<1> QED
    BY <1>3 DEF Receive, PacketTyped, LineTyped, Listens, EpIs

\* A header that is on the line as it was made is taken and answered.
TookHeader(p, q, h) ==
    /\ PacketTyped' /\ ep'[q] = ep[q]
    /\ ep[p].at = "header" /\ ep'[p].at = "payload" /\ ep'[p].head = h
    /\ line'[p] = <<>> /\ line'[q] = line[q] \o <<HeadSum(h)>>

LEMMA ReceiveHeaderEffect ==
    ASSUME PacketTyped, NEW p, NEW q, Others(p, q), NEW h, NEW cmd, NEW data,
           IsHead(h, cmd, data), Len(data) <= BufLen,
           Carries(line[p], 0, h), ReceiveHeader(p)
    PROVE  TookHeader(p, q, h)
<1>1. line[p] \in Seq(Nat) /\ line[q] \in Seq(Nat)
    BY DEF PacketTyped, LineTyped, Others
<1>2. h \in Seq(Nat) /\ Len(h) = 6
    BY DEF IsHead
<1>3. SubSeq(line[p], 1, 6) = h /\ Len(line[p]) = 6
    BY <1>1, <1>2, HeaderRead
<1>4. ep[p].at = "header" /\ check_baseheader(h) /\ ~(PayloadLen(h) > BufLen)
    <2>1. h[3] \in Nat /\ h[4] \in Nat
        <3>1. 3 \in 1 .. Len(h) /\ 4 \in 1 .. Len(h)
            BY <1>2
        <3> QED
            BY <1>2, <3>1, ElementOfSeq
    <2>2. PayloadLen(h) \in Nat
        BY <2>1 DEF PayloadLen
    <2> QED
        BY <2>2, BufferAssumption DEF ReceiveHeader, IsHead
<1>5. /\ ep' = [ep EXCEPT ![p].at = "payload", ![p].head = h]
      /\ Exchange(p, 6, <<HeadSum(h)>>)
    BY <1>3, <1>4, Zenon DEF ReceiveHeader
<1>7. ep[p].err \in Nat
    BY DEF PacketTyped, EpTyped, EndPoint, Others
<1>8. EpIs(p, q, "payload", h, ep[p].data, ep[p].err)
    BY <1>2, <1>5, <1>7, EpChanged DEF Others, PacketTyped
<1>9. <<HeadSum(h)>> \in Seq(Nat)
    <2>1. h[5] \in Nat /\ h[5] = HeadSum(h)
        <3>1. 5 \in 1 .. Len(h)
            BY <1>2
        <3>2. h[5] \in Nat
            BY <1>2, <3>1, ElementOfSeq
        <3> QED
            BY <3>2 DEF HeadSum
    <2> QED
        BY <2>1
<1>10. 6 \in 0 .. Len(line[p])
    BY <1>3
<1>11. Moved(p, q, 6, <<HeadSum(h)>>)
    BY <1>5, <1>9, <1>10, Exchanged DEF Others, PacketTyped
<1>12. line'[p] = <<>>
    BY <1>1, <1>3, <1>11, AllDropped DEF Moved
<1>13. PacketTyped'
    BY <1>8, <1>11 DEF PacketTyped, Moved, LineTyped, EpIs
<1> QED
    BY <1>4, <1>8, <1>11, <1>12, <1>13 DEF TookHeader, Moved, EpIs

\* A payload is taken with error e, and answered with x.
TookPayload(p, q, e, x) ==
    /\ PacketTyped' /\ ep'[q] = ep[q]
    /\ ep[p].at = "payload" /\ PayloadLen(ep[p].head) <= Len(line[p])
    /\ ep'[p].at = "ready" /\ ep'[p].head = ep[p].head /\ ep'[p].err = e
    /\ ep'[p].data = Payload(p) /\ Payload(p) \in Seq(Nat)
    /\ Dropped(line[p], PayloadLen(ep[p].head), line'[p])
    /\ x \in Nat /\ line'[q] = line[q] \o <<x>>

LEMMA PayloadTaken ==
    ASSUME PacketTyped, NEW p, NEW q, Others(p, q), NEW e \in Nat, NEW x \in Nat,
           PayloadHere(p), PayloadLen(ep[p].head) \in Nat,
           Returns(p, ep[p].head, Payload(p), e), Exchange(p, Len(Payload(p)), <<x>>)
    PROVE  TookPayload(p, q, e, x)
<1> DEFINE n == PayloadLen(ep[p].head)
<1>1. line[p] \in Seq(Nat) /\ line[q] \in Seq(Nat) /\ ep[p].head \in Seq(Nat)
    BY DEF PacketTyped, LineTyped, EpTyped, EndPoint, Others
<1>2. ep[p].at = "payload" /\ n \in 0 .. Len(line[p])
    BY <1>1 DEF PayloadHere, Arrived
<1>3. Payload(p) \in Seq(Nat) /\ Len(Payload(p)) = n
    BY <1>1, <1>2, FirstItems DEF Payload
<1>4. ep' = [ep EXCEPT ![p] = [at |-> "ready", head |-> ep[p].head, data |-> Payload(p), err |-> e]]
    BY DEF Returns, Ready
<1>5. EpIs(p, q, "ready", ep[p].head, Payload(p), e)
    BY <1>1, <1>3, <1>4, EpSet DEF Others, PacketTyped
<1>6. <<x>> \in Seq(Nat)
    OBVIOUS
<1>7. Moved(p, q, n, <<x>>)
    BY <1>2, <1>3, <1>6, Exchanged DEF Others, PacketTyped
<1>8. PacketTyped'
    BY <1>5, <1>7 DEF PacketTyped, Moved, LineTyped, EpIs
<1> QED
    BY <1>2, <1>3, <1>5, <1>7, <1>8 DEF TookPayload, Moved, EpIs

LEMMA RejectPayloadEffect ==
    ASSUME PacketTyped, NEW p, NEW q, Others(p, q), PayloadLen(ep[p].head) \in Nat, RejectPayload(p)
    PROVE  TookPayload(p, q, 3, checksum8(Payload(p)))
<1>1. line[p] \in Seq(Nat)
    BY DEF PacketTyped, LineTyped, Others
<1>2. PayloadHere(p) /\ Returns(p, ep[p].head, Payload(p), 3)
      /\ Exchange(p, Len(Payload(p)), <<checksum8(Payload(p))>>)
    BY DEF RejectPayload
<1>3. PayloadLen(ep[p].head) \in 0 .. Len(line[p])
    BY <1>1, <1>2 DEF PayloadHere, Arrived
<1>4. Payload(p) \in Seq(Nat)
    BY <1>1, <1>3, FirstItems DEF Payload
<1>5. checksum8(Payload(p)) \in Byte
    BY <1>4, ChecksumIsByte
<1>6. \A x \in Byte : x \in Nat
    BY DEF Byte
<1>7. checksum8(Payload(p)) \in Nat
    BY <1>5, <1>6, Zenon
<1> QED
    BY <1>2, <1>7, PayloadTaken

AcceptSum(p, error) == (PayloadSum(ep[p].head) + (IF error # 0 THEN 1 ELSE 0)) % 256

LEMMA AcceptPayloadEffect ==
    ASSUME PacketTyped, NEW p, NEW q, Others(p, q), NEW error, PayloadLen(ep[p].head) \in Nat,
           PayloadSum(ep[p].head) \in Nat, AcceptPayload(p, error)
    PROVE  TookPayload(p, q, 0, AcceptSum(p, error))
<1>1. AcceptSum(p, error) \in Nat
    BY DEF AcceptSum
<1>2. PayloadHere(p) /\ Returns(p, ep[p].head, Payload(p), 0)
      /\ Exchange(p, Len(Payload(p)), <<AcceptSum(p, error)>>)
    BY DEF AcceptPayload, AcceptSum
<1> QED
    BY <1>1, <1>2, PayloadTaken

-----------------------------------------------------------------------------
(* The two sides together. *)

C == ep["client"]
S == ep["server"]
lc == line["client"]
ls == line["server"]

\* What the client may be asking for.
Requests ==
    CASE pc = "put" -> {FSERV_OPENWRITE, FSERV_WRITE}
      [] pc = "get" -> {FSERV_OPENREAD}
      [] pc = "get read" -> {FSERV_READ}
      [] pc \in {"put close", "get close"} -> {FSERV_CLOSE}
      [] OTHER -> {}

\* The packet the client sends: only a path and the bytes of a file are payload.
IsRequest(h, data) ==
    /\ IsHead(h, Cmd(h), data) /\ Cmd(h) \in Requests
    /\ data \in Seq(Nat) /\ Len(data) <= BufLen
    /\ Cmd(h) \in {FSERV_OPENREAD, FSERV_OPENWRITE} => data # <<>>
    /\ Cmd(h) \in {FSERV_READ, FSERV_CLOSE} => data = <<>>

Requesting == IsRequest(C.head, C.data)

ClientInv ==
    /\ pc \in {"prompt", "put", "put close", "get", "get read", "get data", "get close"}
    /\ pc = "prompt" => C.at = "ready"
    /\ pc = "get data" => C.at \in {"header", "payload", "ready"}
    /\ pc # "get data" => C.at \in {"headAck", "payAck", "ready"}
    /\ C.at \in {"headAck", "payAck"} => Requesting
    /\ pc = "put" => source \in Seq(Byte) /\ pos \in Nat

ServerInv ==
    /\ serving \in {"receive", "respond", "answered"}
    /\ serving = "receive" => S.at \in {"ready", "header", "payload"}
    /\ serving = "respond" => S.at = "ready"
    /\ serving = "answered" => S.at \in {"ready", "headAck", "payAck"}
    /\ S.at \in {"headAck", "payAck"} =>
         /\ IsHead(S.head, Cmd(S.head), S.data) /\ Cmd(S.head) \in {FSERV_DATA, FSERV_ERROR}
         /\ S.data \in Seq(Nat) /\ Len(S.data) <= BufLen

\* Acknowledges a side that sends still waits for.
Owes(at) == IF at = "headAck" THEN 2 ELSE IF at = "payAck" THEN 1 ELSE 0

\* The server has nothing to do, or nothing but to take acknowledges.
Idle == \/ S.at = "header"
        \/ S.at = "ready" /\ (serving = "respond" => Cmd(S.head) \notin {FSERV_READ, FSERV_EXIT})
Quiet == Idle \/ (serving = "answered" /\ (S.at = "headAck" => S.data = <<>>))

\* Where a request is: on the line, behind acknowledges the server has not
\* taken; taken by the server; answered; or, READ, taken, to be answered by data.
Offered == /\ C.at = "headAck" /\ lc = <<>> /\ Carries(ls, Owes(S.at), C.head) /\ Quiet
Taken ==
    /\ C.at \in {"headAck", "payAck"} /\ S.at = "payload" /\ S.head = C.head
    /\ C.at = "headAck" => Len(lc) = 1 /\ ls = <<>>
    /\ C.at = "payAck"  => lc = <<>> /\ Len(ls) = Len(C.data)
    /\ pc = "get read" => /\ C.at = "headAck" => lc[1] = HeadSum(C.head)
                          /\ C.at = "payAck" => C.err = 0
Answered ==
    /\ pc \notin {"get read", "get data"}
    /\ ls = <<>> /\ Len(lc) = Owes(C.at)
    /\ C.at = "headAck" => C.data = <<>>
    /\ Idle /\ serving # "answered"
Asked ==
    /\ pc = "get read" \/ (pc = "get data" /\ C.at = "header")
    /\ ls = <<>>
    /\ C.at # "headAck" => C.err = 0
    /\ C.at = "headAck" => lc[1] = HeadSum(C.head) /\ lc[2] = PayloadSum(C.head)
    /\ C.at = "payAck" => lc[1] = PayloadSum(C.head)
    /\ \/ serving = "respond" /\ Cmd(S.head) = FSERV_READ /\ Len(lc) = Owes(C.at)
       \/ S.at = "headAck" /\ Carries(lc, Owes(C.at), S.head)
\* The client takes the data of READ, and has taken it.
Receiving ==
    /\ pc = "get data" /\ C.at = "payload" /\ C.head = S.head
    /\ \/ S.at = "headAck" /\ Len(ls) = 1 /\ lc = <<>>
       \/ S.at = "payAck" /\ ls = <<>> /\ Len(lc) = Len(S.data)
Received ==
    /\ pc = "get data" /\ C.at = "ready" /\ lc = <<>> /\ Len(ls) = Owes(S.at) /\ Quiet

Phase == Offered \/ Taken \/ Answered \/ Asked \/ Receiving \/ Received

LinkInv == PacketTyped /\ ClientInv /\ ServerInv /\ Phase

LEMMA NoItems ==
    ASSUME NEW l \in Seq(Nat)
    PROVE  Len(l) = 0 <=> l = <<>>
OBVIOUS

LEMMA TwoEnds == Others("client", "server") /\ Others("server", "client")
BY DEF Others, Side

LEMMA LinesTyped ==
    ASSUME PacketTyped
    PROVE  /\ lc \in Seq(Nat) /\ ls \in Seq(Nat) /\ C \in EndPoint /\ S \in EndPoint
           /\ Len(lc) \in Nat /\ Len(ls) \in Nat
           /\ C.head \in Seq(Nat) /\ C.data \in Seq(Nat) /\ C.err \in Nat
           /\ S.head \in Seq(Nat) /\ S.data \in Seq(Nat) /\ S.err \in Nat
<1>1. lc \in Seq(Nat) /\ ls \in Seq(Nat) /\ C \in EndPoint /\ S \in EndPoint
    BY DEF PacketTyped, LineTyped, EpTyped, lc, ls, C, S, Side
<1> QED
    BY <1>1 DEF EndPoint

LEMMA Commands ==
    /\ FSERV_DATA = 0 /\ FSERV_OPENREAD = 1 /\ FSERV_OPENWRITE = 2 /\ FSERV_CLOSE = 3
    /\ FSERV_READ = 4 /\ FSERV_WRITE = 5 /\ FSERV_EXIT = 8 /\ FSERV_ERROR = 9
BY DEF FSERV_DATA, FSERV_OPENREAD, FSERV_OPENWRITE, FSERV_CLOSE, FSERV_READ, FSERV_WRITE,
       FSERV_EXIT, FSERV_ERROR
-----------------------------------------------------------------------------
(* The client. *)

\* The client is outside of the packet layer and what it sends next is taken.
ClientFree == C.at = "ready" /\ lc = <<>> /\ Len(ls) = Owes(S.at) /\ Quiet

LEMMA ReadyIsFree ==
    ASSUME LinkInv, C.at = "ready", pc # "get read"
    PROVE  ClientFree /\ (pc # "get data" => Answered)
<1>1. Answered \/ Received
    BY DEF LinkInv, ClientInv, Phase, Offered, Taken, Asked, Receiving
<1>2. CASE Answered
    <2>1. Len(lc) = 0 /\ lc \in Seq(Nat)
        BY <1>2, LinesTyped DEF LinkInv, Answered, Owes
    <2>2. lc = <<>>
        BY <2>1, NoItems
    <2>3. Len(ls) = Owes(S.at)
        BY <1>2 DEF Answered, Idle, Owes
    <2> QED
        BY <1>2, <2>2, <2>3 DEF ClientFree, Answered, Quiet
<1>3. CASE Received
    BY <1>3 DEF Received, ClientFree
<1> QED
    BY <1>1, <1>2, <1>3

\* The next request.
LEMMA RequestSent ==
    ASSUME LinkInv, ClientFree, UNCHANGED serving,
           NEW cmd \in Nat, NEW data \in Seq(Nat), Len(data) <= BufLen, cmd \in Requests',
           cmd \in {FSERV_OPENREAD, FSERV_OPENWRITE} => data # <<>>,
           cmd \in {FSERV_READ, FSERV_CLOSE} => data = <<>>,
           SendHeader("client", cmd, data),
           pc' \in {"put", "put close", "get", "get read", "get close"},
           pc' = "put" => source' \in Seq(Byte) /\ pos' \in Nat
    PROVE  LinkInv' /\ Offered' /\ S' = S /\ Cmd(C'.head) = cmd
<1>1. PacketTyped
    BY DEF LinkInv
<1>2. SentHeader("client", "server", cmd, data)
    BY <1>1, TwoEnds, SendHeaderEffect
<1>3. /\ PacketTyped' /\ S' = S /\ C'.at = "headAck" /\ C'.data = data /\ IsHead(C'.head, cmd, data)
      /\ lc' = lc /\ Carries(ls', Len(ls), C'.head)
    BY <1>2 DEF SentHeader, C, S, lc, ls
<1>4. Requesting'
    BY <1>3 DEF Requesting, IsRequest, IsHead
<1>5. ClientInv'
    BY <1>3, <1>4 DEF ClientInv
<1>6. ServerInv'
    BY <1>3 DEF LinkInv, ServerInv
<1>7. Offered'
    BY <1>3 DEF ClientFree, Offered, Quiet, Idle
<1> QED
    BY <1>3, <1>5, <1>6, <1>7 DEF LinkInv, Phase, IsHead

-----------------------------------------------------------------------------
LEMMA MinOfTwo ==
    ASSUME NEW a \in Int, NEW b \in Int
    PROVE  Min({a, b}) \in {a, b} /\ Min({a, b}) <= a /\ Min({a, b}) <= b
<1>1. \E x \in {a, b} : \A y \in {a, b} : x <= y
    OBVIOUS
<1> QED
    BY <1>1 DEF Min

\* A part of a sequence that is not longer than a buffer.
LEMMA PartFits ==
    ASSUME NEW s \in Seq(Nat), NEW k \in Nat
    PROVE  /\ SubSeq(s, k + 1, Min({k + BufLen, Len(s)})) \in Seq(Nat)
           /\ Len(SubSeq(s, k + 1, Min({k + BufLen, Len(s)}))) <= BufLen
<1>1. Len(s) \in Nat /\ k + BufLen \in Nat
    BY BufferAssumption
<1>2. PICK n \in Nat : n = Min({k + BufLen, Len(s)}) /\ n <= k + BufLen /\ n <= Len(s)
    <2> DEFINE a == k + BufLen
               b == Len(s)
    <2>1. a \in Nat /\ b \in Nat /\ a \in Int /\ b \in Int
        BY <1>1
    <2> HIDE DEF a, b
    <2>2. Min({a, b}) \in {a, b} /\ Min({a, b}) <= a /\ Min({a, b}) <= b
        BY <2>1, MinOfTwo, Zenon
    <2>3. Min({a, b}) \in Nat
        BY <2>1, <2>2
    <2> QED
        BY <2>2, <2>3 DEF a, b
<1>3. \A i \in k + 1 .. n : s[i] \in Nat
    BY <1>1, <1>2
<1>4. /\ SubSeq(s, k + 1, n) \in Seq(Nat)
      /\ Len(SubSeq(s, k + 1, n)) = IF k + 1 <= n THEN n - (k + 1) + 1 ELSE 0
    BY <1>3, SubSeqProperties
<1>5. Len(SubSeq(s, k + 1, n)) <= BufLen
    BY <1>2, <1>4, BufferAssumption
<1> QED
    BY <1>2, <1>4, <1>5

LEMMA BytesAreItems ==
    ASSUME NEW s, s \in Seq(Byte)
    PROVE  s \in Seq(Nat)
<1>1. Byte \subseteq Nat
    BY DEF Byte
<1> QED
    BY <1>1, SeqMonotonic

LEMMA PathFits == Path \in Seq(Nat) /\ Path # <<>> /\ Len(Path) <= BufLen
<1>1. Byte \ {0} \subseteq Nat
    BY DEF Byte
<1>2. Path \in Seq(Nat)
    BY <1>1, SetupAssumption, SeqMonotonic
<1> QED
    BY <1>2, SetupAssumption, BufferAssumption

LEMMA PutLinks ==
    ASSUME LinkInv, Put, UNCHANGED serverVars
    PROVE  LinkInv' /\ Offered' /\ S' = S /\ pc' = "put"
<1>1. /\ pc = "prompt" /\ C.at = "ready" /\ pc' = "put" /\ SendHeader("client", FSERV_OPENWRITE, Path)
      /\ source' \in Contents /\ pos' = 0 /\ UNCHANGED serving
    BY DEF Put, Done, Sends, C, serverVars
<1>2. ClientFree
    BY <1>1, ReadyIsFree
<1>3. FSERV_OPENWRITE \in Requests' /\ FSERV_OPENWRITE \in Nat
    BY <1>1, Commands DEF Requests
<1>4. source' \in Seq(Byte)
    BY <1>1, SetupAssumption
<1> QED
    BY <1>1, <1>2, <1>3, <1>4, PathFits, Commands, RequestSent

LEMMA GetLinks ==
    ASSUME LinkInv, Get, UNCHANGED serverVars
    PROVE  LinkInv' /\ Offered' /\ S' = S /\ pc' = "get"
<1>1. /\ pc = "prompt" /\ C.at = "ready" /\ pc' = "get" /\ SendHeader("client", FSERV_OPENREAD, Path)
      /\ UNCHANGED serving
    BY DEF Get, Done, Sends, C, serverVars
<1>2. ClientFree
    BY <1>1, ReadyIsFree
<1>3. FSERV_OPENREAD \in Requests' /\ FSERV_OPENREAD \in Nat
    BY <1>1, Commands DEF Requests
<1> QED
    BY <1>1, <1>2, <1>3, PathFits, Commands, RequestSent

\* Requests without payload.
LEMMA EmptyFits == <<>> \in Seq(Nat) /\ Len(<<>>) <= BufLen
<1>1. <<>> \in Seq(Nat) /\ Len(<<>>) = 0
    BY EmptySeq
<1> QED
    BY <1>1, BufferAssumption

LEMMA NoPaths ==
    /\ FSERV_CLOSE # FSERV_OPENREAD /\ FSERV_CLOSE # FSERV_OPENWRITE
    /\ FSERV_READ # FSERV_OPENREAD /\ FSERV_READ # FSERV_OPENWRITE
BY Commands

LEMMA CloseLinks ==
    ASSUME LinkInv, ClientFree, UNCHANGED serving, NEW next \in {"put close", "get close"}, Close(next)
    PROVE  LinkInv' /\ Offered' /\ S' = S /\ pc' = next /\ Cmd(C'.head) = FSERV_CLOSE
<1>1. SendHeader("client", FSERV_CLOSE, <<>>) /\ pc' = next
    BY DEF Close, Sends
<1>2. FSERV_CLOSE \in Requests' /\ FSERV_CLOSE \in Nat
    BY <1>1, Commands DEF Requests
<1>3. FSERV_CLOSE \notin {FSERV_OPENREAD, FSERV_OPENWRITE}
    BY NoPaths, Zenon
<1> QED
    BY <1>1, <1>2, <1>3, EmptyFits, RequestSent

LEMMA ReadLinks ==
    ASSUME LinkInv, ClientFree, UNCHANGED serving, Sends(FSERV_READ, <<>>, "get read")
    PROVE  LinkInv' /\ Offered' /\ S' = S /\ pc' = "get read"
<1>1. SendHeader("client", FSERV_READ, <<>>) /\ pc' = "get read"
    BY DEF Sends
<1>2. FSERV_READ \in Requests' /\ FSERV_READ \in Nat
    BY <1>1, Commands DEF Requests
<1>3. FSERV_READ \notin {FSERV_OPENREAD, FSERV_OPENWRITE}
    BY NoPaths, Zenon
<1> QED
    BY <1>1, <1>2, <1>3, EmptyFits, RequestSent

LEMMA PutNextLinks ==
    ASSUME LinkInv, PutNext, UNCHANGED serverVars
    PROVE  /\ LinkInv' /\ Offered' /\ S' = S /\ pc' \in {"put", "put close"}
           /\ Cmd(C'.head) \in {FSERV_WRITE, FSERV_CLOSE}
<1>1. pc = "put" /\ C.at = "ready" /\ UNCHANGED <<serving, source>>
    BY DEF PutNext, Done, C, serverVars
<1>2. ClientFree
    BY <1>1, ReadyIsFree
<1>3. source \in Seq(Byte) /\ pos \in Nat
    BY <1>1 DEF LinkInv, ClientInv
<1>4. NextChunk \in Seq(Nat) /\ Len(NextChunk) <= BufLen
    BY <1>3, BytesAreItems, PartFits DEF NextChunk
<1>5. CASE Sends(FSERV_WRITE, NextChunk, "put") /\ pos' = pos + Len(NextChunk)
    <2>1. SendHeader("client", FSERV_WRITE, NextChunk) /\ pc' = "put"
        BY <1>5 DEF Sends
    <2>2. FSERV_WRITE \in Requests' /\ FSERV_WRITE \in Nat
        BY <2>1, Commands DEF Requests
    <2>3. pos' \in Nat /\ source' \in Seq(Byte)
        BY <1>1, <1>3, <1>4, <1>5
    <2> QED
        BY <1>1, <1>2, <1>4, <2>1, <2>2, <2>3, Commands, RequestSent
<1>6. CASE Close("put close")
    BY <1>1, <1>2, <1>6, CloseLinks
<1> QED
    BY <1>5, <1>6 DEF PutNext

\* The client is where it was in the packet layer.
LEMMA ReturnLinks ==
    ASSUME LinkInv, pc # "get read", pc # "get data", pc' = "prompt", C.at = "ready",
           UNCHANGED <<serving, line, ep>>
    PROVE  LinkInv' /\ Answered' /\ C' = C /\ S' = S
<1>1. Answered
    BY ReadyIsFree
<1>2. C' = C /\ S' = S /\ lc' = lc /\ ls' = ls /\ PacketTyped'
    BY DEF C, S, lc, ls, LinkInv, PacketTyped, LineTyped, EpTyped
<1>3. Answered'
    BY <1>1, <1>2 DEF Answered, Idle
<1>4. ClientInv' /\ ServerInv'
    BY <1>2 DEF LinkInv, ClientInv, ServerInv
<1> QED
    BY <1>2, <1>3, <1>4 DEF LinkInv, Phase

LEMMA GetOpenedLinks ==
    ASSUME LinkInv, GetOpened, UNCHANGED serverVars
    PROVE  LinkInv' /\ (Fails \/ (Offered' /\ pc' \in {"get read", "get close"}))
<1>1. pc = "get" /\ C.at = "ready" /\ UNCHANGED serving
    BY DEF GetOpened, Done, C, serverVars
<1>2. ClientFree
    BY <1>1, ReadyIsFree
<1>3. CASE GetFails(2)
    BY <1>1, <1>2, <1>3, CloseLinks DEF GetFails
<1>4. CASE Fails /\ pc' = "prompt" /\ UNCHANGED packetVars
    BY <1>1, <1>4, ReturnLinks DEF packetVars
<1>5. CASE Sends(FSERV_READ, <<>>, "get read")
    BY <1>1, <1>2, <1>5, ReadLinks
<1> QED
    BY <1>3, <1>4, <1>5 DEF GetOpened

LEMMA GetReceivedLinks ==
    ASSUME LinkInv, GetReceived, UNCHANGED serverVars
    PROVE  LinkInv' /\ Offered' /\ S' = S /\ pc' \in {"get read", "get close"}
<1>1. pc = "get data" /\ C.at = "ready" /\ UNCHANGED serving
    BY DEF GetReceived, Done, C, serverVars
<1>2. ClientFree
    BY <1>1, ReadyIsFree
<1>3. CASE Close("get close")
    BY <1>1, <1>2, <1>3, CloseLinks
<1>4. CASE Sends(FSERV_READ, <<>>, "get read")
    BY <1>1, <1>2, <1>4, ReadLinks
<1> QED
    BY <1>3, <1>4 DEF GetReceived, GetFails

\* READ has been acknowledged as it was sent.
LEMMA GetRequestedLinks ==
    ASSUME LinkInv, GetRequested, UNCHANGED serverVars
    PROVE  LinkInv' /\ S' = S /\ pc' = "get data" /\ C'.at = "header"
<1>1. pc = "get read" /\ C.at = "ready" /\ UNCHANGED serving
    BY DEF GetRequested, Done, C, serverVars
<1>2. Asked
    BY <1>1 DEF LinkInv, Phase, Offered, Taken, Answered, Receiving, Received
<1>3. Err("client") = 0
    BY <1>1, <1>2 DEF Asked, Err, C
<1>4. Receive("client") /\ pc' = "get data"
    BY <1>3 DEF GetRequested
<1>5. Listens("client", "server")
    BY <1>4, TwoEnds, ReceiveEffect DEF LinkInv
<1>6. PacketTyped' /\ C'.at = "header" /\ C'.err = 0 /\ S' = S /\ lc' = lc /\ ls' = ls
    BY <1>5 DEF Listens, C, S, lc, ls
<1>7. Asked'
    BY <1>1, <1>2, <1>4, <1>6 DEF Asked, Owes
<1>8. ClientInv' /\ ServerInv'
    BY <1>1, <1>4, <1>6 DEF LinkInv, ClientInv, ServerInv
<1> QED
    BY <1>4, <1>6, <1>7, <1>8 DEF LinkInv, Phase

-----------------------------------------------------------------------------
(* The client in the packet layer. *)

LEMMA NextItem ==
    ASSUME NEW l, NEW m, Dropped(l, 1, m), Len(m) >= 1
    PROVE  m[1] = l[2]
<1>1. 1 \in 1 .. Len(m)
    BY DEF Dropped
<1> QED
    BY <1>1 DEF Dropped

\* The server has not done what is asked yet.
Pending == Offered \/ Taken

\* A step that leaves open whether the server has done it.
SameRequest == /\ Pending' <=> Pending
               /\ Pending => C'.head = C.head

LEMMA NotPending ==
    PacketTyped /\ ServerInv /\ (Answered \/ Asked \/ Receiving \/ Received) => ~Pending
<1> SUFFICES ASSUME PacketTyped, ServerInv, Answered \/ Asked \/ Receiving \/ Received
             PROVE  ~Pending
    OBVIOUS
<1>1. ls \in Seq(Nat) /\ Len(ls) \in Nat
    BY LinesTyped
<1>2. C.at = "headAck" => S.at # "payload" /\ ~Carries(ls, Owes(S.at), C.head)
    <2>1. CASE ls = <<>> /\ S.at # "payload"
        BY <1>1, <2>1 DEF Carries, Owes
    <2>2. (Answered \/ Asked) => ls = <<>> /\ S.at # "payload"
        BY DEF Answered, Asked, Idle, ServerInv
    <2> QED
        BY <2>1, <2>2 DEF Receiving, Received
<1>3. C.at = "payAck" => S.at # "payload"
    BY DEF Answered, Asked, Idle, Receiving, Received, ServerInv
<1> QED
    BY <1>2, <1>3 DEF Pending, Offered, Taken

\* What is done already stays so.
LEMMA StaysDone ==
    ASSUME LinkInv, PacketTyped', ServerInv',
           Answered \/ Asked \/ Receiving \/ Received,
           Answered' \/ Asked' \/ Receiving' \/ Received'
    PROVE  SameRequest
<1>1. ~Pending
    BY NotPending DEF LinkInv
<1>2. (PacketTyped /\ ServerInv /\ (Answered \/ Asked \/ Receiving \/ Received) => ~Pending)'
    BY NotPending, PTL
<1> QED
    BY <1>1, <1>2 DEF SameRequest

LEMMA ClientSendsPayload ==
    ASSUME LinkInv, SendPayload("client"), UNCHANGED <<clientVars, serverVars>>
    PROVE  LinkInv' /\ SameRequest
<1>1. SentPayload("client", "server")
    BY TwoEnds, SendPayloadEffect DEF LinkInv
<1>2. /\ PacketTyped' /\ S' = S /\ Len(lc) >= 1 /\ C.at = "headAck" /\ C'.at = "payAck"
      /\ C'.head = C.head /\ C'.data = C.data
      /\ lc[1] = HeadSum(C.head) => C'.err = 0
      /\ Dropped(lc, 1, lc') /\ ls' = ls \o C.data
    BY <1>1 DEF SentPayload, C, S, lc, ls
<1>3. /\ lc \in Seq(Nat) /\ ls \in Seq(Nat) /\ Len(lc) \in Nat /\ C.data \in Seq(Nat)
      /\ lc' \in Seq(Nat) /\ Len(lc') = Len(lc) - 1
    BY <1>2, LinesTyped DEF LinkInv, Dropped
<1>4. UNCHANGED <<pc, source, pos, serving>>
    BY DEF clientVars, serverVars
<1>5. ClientInv' /\ ServerInv'
    <2>1. Requesting' /\ pc # "get data"
        BY <1>2, <1>4 DEF LinkInv, ClientInv, Requesting, IsRequest, Requests
    <2> QED
        BY <1>2, <1>4, <2>1 DEF LinkInv, ClientInv, ServerInv
<1>6. CASE Taken
    <2>1. Len(lc) = 1 /\ ls = <<>>
        BY <1>2, <1>6 DEF Taken
    <2>1b. Len(lc') = 0
        BY <1>3, <2>1
    <2>1c. lc' = <<>>
        BY <1>3, <2>1b, NoItems
    <2>1a. ls' = C.data
        BY <1>2, <1>3, <2>1, ConcatEmptySeq
    <2>2. Taken'
        BY <1>2, <1>4, <1>6, <2>1c, <2>1a DEF Taken
    <2> QED
        BY <1>2, <1>5, <1>6, <2>2 DEF LinkInv, Phase, SameRequest, Pending
<1>7. CASE Answered
    <2>1. ls' = <<>>
        BY <1>2, <1>3, <1>7, ConcatEmptySeq DEF Answered
    <2>3. Len(lc) = 2
        BY <1>2, <1>7 DEF Answered, Owes
    <2>4. Len(lc') = 1
        BY <1>3, <2>3
    <2>5. Idle'
        BY <1>2, <1>4, <1>7 DEF Answered, Idle
    <2>2. Answered'
        BY <1>2, <1>4, <1>7, <2>1, <2>4, <2>5 DEF Answered, Owes
    <2>8. SameRequest
        BY <1>2, <1>5, <1>7, <2>2, StaysDone
    <2> QED
        BY <1>2, <1>5, <1>7, <2>2, <2>8 DEF LinkInv, Phase
<1>8. CASE Asked
    <2>1. pc = "get read" /\ Cmd(C.head) = FSERV_READ /\ C.data = <<>>
        BY <1>2, <1>8 DEF Asked, LinkInv, ClientInv, Requesting, IsRequest, Requests
    <2>2. ls' = <<>>
        BY <1>2, <1>3, <1>8, <2>1, ConcatEmptySeq DEF Asked
    <2>3. C'.err = 0 /\ lc[2] = PayloadSum(C.head)
        BY <1>2, <1>8 DEF Asked
    <2>4. ASSUME serving = "respond" /\ Cmd(S.head) = FSERV_READ /\ Len(lc) = Owes(C.at)
           PROVE  Asked'
        <3>1. Len(lc') = 1 /\ lc'[1] = PayloadSum(C'.head)
            <4>1. Len(lc) = 2
                BY <1>2, <2>4 DEF Owes
            <4>2. Len(lc') = 1 /\ Len(lc') >= 1
                BY <1>3, <4>1
            <4>3. lc'[1] = lc[2]
                BY <1>2, <4>2, NextItem
            <4> QED
                BY <1>2, <2>3, <4>2, <4>3 DEF PayloadSum
        <3> QED
            BY <1>2, <1>4, <2>1, <2>2, <2>3, <2>4, <3>1 DEF Asked, Owes, PayloadSum
    <2>5. ASSUME S.at = "headAck" /\ Carries(lc, Owes(C.at), S.head)
           PROVE  Asked'
        <3>1. Carries(lc, 1 + 1, S.head)
            BY <1>2, <2>5 DEF Owes
        <3>2. Carries(lc', 1, S'.head)
            BY <1>2, <1>3, <3>1, HeaderMoves
        <3>3. lc'[1] = PayloadSum(C'.head)
            <4>1. Len(lc') = 7
                BY <3>2 DEF Carries
            <4>2. lc'[1] = lc[2]
                BY <1>2, <4>1, NextItem
            <4> QED
                BY <1>2, <2>3, <4>2 DEF PayloadSum
        <3> QED
            BY <1>2, <1>4, <2>1, <2>2, <2>3, <2>5, <3>2, <3>3 DEF Asked, Owes, PayloadSum
    <2>6. Asked'
        BY <1>8, <2>4, <2>5 DEF Asked
    <2>8. SameRequest
        BY <1>2, <1>5, <1>8, <2>6, StaysDone
    <2> QED
        BY <1>2, <1>5, <1>8, <2>6, <2>8 DEF LinkInv, Phase
<1> QED
    <2>1. ~Offered /\ ~Receiving /\ ~Received
        BY <1>2 DEF Offered, Receiving, Received
    <2> QED
        BY <1>6, <1>7, <1>8, <2>1 DEF LinkInv, Phase

LEMMA ClientEndsSend ==
    ASSUME LinkInv, EndSend("client"), UNCHANGED <<clientVars, serverVars>>
    PROVE  LinkInv' /\ SameRequest
<1>1. EndedSend("client", "server")
    BY TwoEnds, EndSendEffect DEF LinkInv
<1>2. /\ PacketTyped' /\ S' = S /\ Len(lc) >= 1 /\ C.at = "payAck" /\ C'.at = "ready"
      /\ C'.head = C.head
      /\ lc[1] = PayloadSum(C.head) => C'.err = C.err
      /\ Dropped(lc, 1, lc') /\ ls' = ls
    BY <1>1 DEF EndedSend, C, S, lc, ls
<1>3. /\ lc \in Seq(Nat) /\ Len(lc) \in Nat /\ lc' \in Seq(Nat) /\ Len(lc') = Len(lc) - 1
    BY <1>2, LinesTyped DEF LinkInv, Dropped
<1>4. UNCHANGED <<pc, source, pos, serving>>
    BY DEF clientVars, serverVars
<1>5. ClientInv' /\ ServerInv'
    BY <1>2, <1>4 DEF LinkInv, ClientInv, ServerInv
<1>6. CASE Answered
    <2>2. Len(lc) = 1
        BY <1>2, <1>6 DEF Answered, Owes
    <2>3. Len(lc') = 0
        BY <1>3, <2>2
    <2>4. Idle'
        BY <1>2, <1>4, <1>6 DEF Answered, Idle
    <2>1. Answered'
        BY <1>2, <1>4, <1>6, <2>3, <2>4 DEF Answered, Owes
    <2>8. SameRequest
        BY <1>2, <1>5, <1>6, <2>1, StaysDone
    <2> QED
        BY <1>2, <1>5, <1>6, <2>1, <2>8 DEF LinkInv, Phase
<1>7. CASE Asked
    <2>1. pc = "get read" /\ C'.err = 0 /\ ls' = <<>>
        BY <1>2, <1>7 DEF Asked
    <2>2. ASSUME serving = "respond" /\ Cmd(S.head) = FSERV_READ /\ Len(lc) = Owes(C.at)
           PROVE  Asked'
        <3>1. Len(lc) = 1
            BY <1>2, <2>2 DEF Owes
        <3>2. Len(lc') = 0
            BY <1>3, <3>1
        <3> QED
            BY <1>2, <1>4, <2>1, <2>2, <3>2 DEF Asked, Owes, PayloadSum
    <2>3. ASSUME S.at = "headAck" /\ Carries(lc, Owes(C.at), S.head)
           PROVE  Asked'
        <3>1. Carries(lc, 1 + 0, S.head)
            BY <1>2, <2>3 DEF Owes
        <3>2. Carries(lc', 0, S'.head)
            BY <1>2, <1>3, <3>1, HeaderMoves
        <3> QED
            BY <1>2, <1>4, <2>1, <2>3, <3>2 DEF Asked, Owes, PayloadSum
    <2>4. Asked'
        BY <1>7, <2>2, <2>3 DEF Asked
    <2>8. SameRequest
        BY <1>2, <1>5, <1>7, <2>4, StaysDone
    <2> QED
        BY <1>2, <1>5, <1>7, <2>4, <2>8 DEF LinkInv, Phase
<1> QED
    <2>1. ~Offered /\ ~Receiving /\ ~Received
        BY <1>2 DEF Offered, Receiving, Received
    <2>2. ~Taken
        <3>1. lc # <<>>
            BY <1>2, <1>3, NoItems
        <3> QED
            BY <1>2, <3>1 DEF Taken
    <2> QED
        BY <1>6, <1>7, <2>1, <2>2 DEF LinkInv, Phase

LEMMA ClientTakesHeader ==
    ASSUME LinkInv, ReceiveHeader("client"), UNCHANGED <<clientVars, serverVars>>
    PROVE  LinkInv' /\ SameRequest
<1>1. C.at = "header" /\ Len(lc) >= 6
    BY DEF ReceiveHeader, Arrived, C, lc
<1>2. pc = "get data" /\ Asked
    BY <1>1 DEF LinkInv, ClientInv, Phase, Offered, Taken, Answered, Receiving, Received
<1>3. S.at = "headAck" /\ Carries(lc, 0, S.head) /\ ls = <<>>
    <2>1. Len(lc) # 0
        BY <1>1
    <2>2. Owes(C.at) = 0
        BY <1>1 DEF Owes
    <2> QED
        BY <1>2, <2>1, <2>2 DEF Asked
<1>4. IsHead(S.head, Cmd(S.head), S.data) /\ Len(S.data) <= BufLen
    BY <1>3 DEF LinkInv, ServerInv
<1>5. TookHeader("client", "server", S.head)
    BY <1>3, <1>4, TwoEnds, ReceiveHeaderEffect DEF LinkInv, lc
<1>6. /\ PacketTyped' /\ S' = S /\ C'.at = "payload" /\ C'.head = S.head /\ lc' = <<>>
      /\ ls' = ls \o <<HeadSum(S.head)>>
    BY <1>5 DEF TookHeader, C, S, lc, ls
<1>7. Len(ls') = 1
    BY <1>3, <1>6
<1>8. UNCHANGED <<pc, source, pos, serving>>
    BY DEF clientVars, serverVars
<1>9. Receiving'
    BY <1>2, <1>3, <1>6, <1>7, <1>8 DEF Receiving
<1>10. ClientInv' /\ ServerInv'
    BY <1>2, <1>6, <1>8 DEF LinkInv, ClientInv, ServerInv
<1>20. SameRequest
    BY <1>2, <1>6, <1>9, <1>10, StaysDone
<1> QED
    BY <1>2, <1>6, <1>9, <1>10, <1>20 DEF LinkInv, Phase

LEMMA ClientTakesPayload ==
    ASSUME LinkInv, UNCHANGED <<clientVars, serverVars>>,
           RejectPayload("client") \/ \E error \in {0, 1} : AcceptPayload("client", error)
    PROVE  LinkInv' /\ SameRequest
<1>1. C.at = "payload" /\ Len(lc) >= PayloadLen(C.head)
    BY DEF RejectPayload, AcceptPayload, PayloadHere, Arrived, C, lc
<1>2. pc = "get data" /\ Receiving
    BY <1>1 DEF LinkInv, ClientInv, Phase, Offered, Taken, Answered, Asked, Received
<1>3. S.at \in {"headAck", "payAck"} /\ C.head = S.head /\ IsHead(S.head, Cmd(S.head), S.data)
    BY <1>2 DEF Receiving, LinkInv, ServerInv
<1>4. PayloadLen(C.head) = Len(S.data) /\ PayloadSum(C.head) = checksum8(S.data) /\ S.data \in Seq(Nat)
    BY <1>3 DEF IsHead, LinkInv, ServerInv
<1>5. PayloadLen(C.head) \in Nat /\ PayloadSum(C.head) \in Nat
    <2>1. \A b \in Byte : b \in Nat
        BY DEF Byte
    <2>2. checksum8(S.data) \in Byte
        BY <1>4, ChecksumIsByte
    <2>3. PayloadLen(C.head) \in Nat
        BY <1>4
    <2> QED
        BY <1>4, <2>1, <2>2, <2>3, Zenon
<1>6. PICK e, x : TookPayload("client", "server", e, x)
    BY <1>5, TwoEnds, RejectPayloadEffect, AcceptPayloadEffect DEF LinkInv, C
<1>7. /\ PacketTyped' /\ S' = S /\ C'.at = "ready"
      /\ Dropped(lc, PayloadLen(C.head), lc') /\ x \in Nat /\ ls' = ls \o <<x>>
    BY <1>6 DEF TookPayload, C, S, lc, ls
<1>8. lc' = <<>>
    <2>1. lc \in Seq(Nat) /\ lc' \in Seq(Nat) /\ Len(lc) \in Nat
        BY <1>7, LinesTyped DEF LinkInv, Dropped
    <2>2. Len(lc) = PayloadLen(C.head)
        <3>1. CASE lc = <<>>
            <4>1. Len(lc) = 0
                BY <3>1
            <4> QED
                BY <1>1, <1>5, <4>1
        <3>2. CASE Len(lc) = Len(S.data)
            BY <1>4, <3>2
        <3> QED
            BY <1>2, <3>1, <3>2 DEF Receiving
    <2>3. Dropped(lc, Len(lc), lc')
        BY <1>7, <2>2, Zenon
    <2> QED
        BY <2>1, <2>3, AllDropped
<1>9. Len(ls') = Owes(S.at) /\ (S.at = "headAck" => S.data = <<>>)
    <2>1. ls \in Seq(Nat) /\ lc \in Seq(Nat) /\ Len(ls) \in Nat
        BY LinesTyped DEF LinkInv
    <2>2. Len(ls') = Len(ls) + 1
        BY <1>7, <2>1
    <2>3. CASE S.at = "headAck"
        <3>1. Len(ls) = 1 /\ lc = <<>>
            BY <1>2, <2>3 DEF Receiving
        <3> QED
            BY <1>1, <1>4, <1>5, <2>2, <2>3, <3>1 DEF Owes
    <2>4. CASE S.at = "payAck"
        <3>1. ls = <<>>
            BY <1>2, <2>4 DEF Receiving
        <3> QED
            BY <2>2, <2>4, <3>1 DEF Owes
    <2> QED
        BY <1>3, <2>3, <2>4
<1>10. UNCHANGED <<pc, source, pos, serving>>
    BY DEF clientVars, serverVars
<1>11. serving = "answered"
    BY <1>3 DEF LinkInv, ServerInv
<1>12. Received'
    BY <1>2, <1>7, <1>8, <1>9, <1>10, <1>11 DEF Received, Quiet
<1>13. ClientInv' /\ ServerInv'
    BY <1>2, <1>7, <1>10 DEF LinkInv, ClientInv, ServerInv
<1>20. SameRequest
    BY <1>2, <1>7, <1>12, <1>13, StaysDone
<1> QED
    BY <1>2, <1>7, <1>12, <1>13, <1>20 DEF LinkInv, Phase

-----------------------------------------------------------------------------
(* The server. *)

\* What may be sent: the bytes of a file, no more than a buffer of them.
Sendable(data) == data \in Seq(Nat) /\ Len(data) <= BufLen

LEMMA ItemAdded ==
    ASSUME NEW l \in Seq(Nat), Len(l) = 1, NEW x \in Nat
    PROVE  (l \o <<x>>)[1] = l[1] /\ (l \o <<x>>)[2] = x
<1> DEFINE t == <<x>>
<1>1. t \in Seq(Nat) /\ Len(t) = 1 /\ t[1] = x
    OBVIOUS
<1> HIDE DEF t
<1>2. \A i \in 1 .. Len(l) + Len(t) : (l \o t)[i] = IF i <= Len(l) THEN l[i] ELSE t[i - Len(l)]
    BY <1>1, ConcatProperties
<1>3. /\ 1 \in 1 .. Len(l) + Len(t) /\ 2 \in 1 .. Len(l) + Len(t)
      /\ 1 <= Len(l) /\ ~(2 <= Len(l)) /\ 2 - Len(l) = 1
    BY <1>1
<1>4. (l \o t)[1] = l[1] /\ (l \o t)[2] = t[1]
    BY <1>2, <1>3, Zenon
<1> QED
    BY <1>1, <1>4 DEF t

LEMMA ServeHeaderLinks ==
    ASSUME LinkInv, ServeHeader, UNCHANGED clientVars
    PROVE  LinkInv' /\ SameRequest
<1>1. S.at = "header" /\ Len(ls) >= 6 /\ serving = "receive" /\ ReceiveHeader("server")
    BY DEF ServeHeader, Listen, ReceiveHeader, Arrived, S, ls
<1>2. Offered
    <2>1. Owes(S.at) = 0 /\ Len(ls) # 0
        BY <1>1 DEF Owes
    <2>2. ls # <<>>
        BY <2>1
    <2> QED
        BY <1>1, <2>1, <2>2 DEF LinkInv, Phase, Taken, Answered, Asked, Receiving, Received
<1>3. C.at = "headAck" /\ lc = <<>> /\ Carries(ls, 0, C.head) /\ Requesting
    BY <1>1, <1>2 DEF Offered, Owes, LinkInv, ClientInv
<1>4. IsHead(C.head, Cmd(C.head), C.data) /\ Len(C.data) <= BufLen
    BY <1>3 DEF Requesting, IsRequest
<1>5. TookHeader("server", "client", C.head)
    BY <1>1, <1>3, <1>4, TwoEnds, ReceiveHeaderEffect DEF LinkInv, ls
<1>6. /\ PacketTyped' /\ C' = C /\ S'.at = "payload" /\ S'.head = C.head /\ ls' = <<>>
      /\ lc' = lc \o <<HeadSum(C.head)>>
    BY <1>5 DEF TookHeader, C, S, lc, ls
<1>7. lc' = <<HeadSum(C.head)>>
    BY <1>3, <1>6
<1>8. UNCHANGED <<pc, source, pos>> /\ serving' = "receive"
    BY <1>1, <1>6 DEF clientVars, ServeHeader, S
<1>9. Taken'
    <2>1. Len(lc') = 1 /\ lc'[1] = HeadSum(C.head)
        BY <1>7
    <2> QED
        BY <1>3, <1>6, <1>8, <2>1 DEF Taken, HeadSum
<1>10. ClientInv'
    BY <1>3, <1>6, <1>8 DEF LinkInv, ClientInv, Requesting, IsRequest, Requests
<1>11. ServerInv'
    BY <1>6, <1>8 DEF ServerInv
<1> QED
    BY <1>2, <1>6, <1>9, <1>10, <1>11 DEF LinkInv, Phase, SameRequest, Pending

LEMMA ServePayloadLinks ==
    ASSUME LinkInv, ServePayload, UNCHANGED clientVars
    PROVE  /\ LinkInv' /\ Pending /\ ~Pending' /\ C' = C
           /\ Cmd(S.head) = Cmd(C.head) /\ Cmd(C.head) \in Requests /\ Payload("server") \in Seq(Nat)
           /\ Cmd(C.head) \in {FSERV_READ, FSERV_CLOSE} => Intact("server")
<1>1. S.at = "payload" /\ Len(ls) >= PayloadLen(S.head) /\ serving' = "respond"
    BY DEF ServePayload, RejectPayload, AcceptPayload, PayloadHere, Arrived, S, ls
<1>2. Taken /\ ServerInv
    BY <1>1 DEF LinkInv, Phase, ServerInv, Offered, Quiet, Idle, Answered, Asked, Receiving, Received, Owes
<1>3. S.head = C.head /\ Requesting /\ C.at \in {"headAck", "payAck"}
    BY <1>2 DEF Taken, LinkInv, ClientInv
<1>4. /\ PayloadLen(S.head) = Len(C.data) /\ PayloadSum(S.head) = checksum8(C.data)
      /\ C.data \in Seq(Nat) /\ Cmd(C.head) \in Requests
      /\ Cmd(C.head) \in {FSERV_READ, FSERV_CLOSE} => C.data = <<>>
    BY <1>3 DEF Requesting, IsRequest, IsHead
<1>5. PayloadLen(S.head) \in Nat /\ PayloadSum(S.head) \in Byte /\ PayloadSum(S.head) \in Nat
    <2>1. \A b \in Byte : b \in Nat
        BY DEF Byte
    <2>2. checksum8(C.data) \in Byte
        BY <1>4, ChecksumIsByte
    <2>3. PayloadLen(S.head) \in Nat
        BY <1>4
    <2> QED
        BY <1>4, <2>1, <2>2, <2>3, Zenon
<1>5a. ASSUME C.data = <<>>
       PROVE  Intact("server")
    <2>1. PayloadLen(S.head) = 0
        BY <1>4, <1>5a
    <2>2. ls \in Seq(Nat) /\ 0 \in 0 .. Len(ls)
        BY LinesTyped DEF LinkInv
    <2>3. SubSeq(ls, 1, 0) = <<>>
        BY <2>2, FirstItems
    <2>4. Payload("server") = C.data
        BY <1>5a, <2>1, <2>3 DEF Payload, S, ls
    <2> QED
        BY <1>4, <2>4 DEF Intact, S
<1>6. PICK e, x : /\ TookPayload("server", "client", e, x)
                  /\ pc = "get read" => x = PayloadSum(S.head)
    <2>1. CASE pc = "get read"
        <3>1. Cmd(S.head) = FSERV_READ /\ C.data = <<>>
            BY <1>3, <1>4, <2>1 DEF Requests
        <3>4. Intact("server")
            BY <1>5a, <3>1
        <3>5. PICK error \in {0, 1} : /\ AcceptPayload("server", error)
                                      /\ payload_callback(Cmd(S.head), Payload("server"), error)
            BY <3>4 DEF ServePayload, RejectPayload, S
        <3>6. error = 0
            BY <3>1, <3>5, Commands DEF payload_callback
        <3>7. AcceptSum("server", error) = PayloadSum(S.head)
            <4>1. \A b \in Byte : (b + 0) % 256 = b
                BY DEF Byte
            <4>2. AcceptSum("server", error) = (PayloadSum(S.head) + 0) % 256
                BY <3>6 DEF AcceptSum, S
            <4> QED
                BY <1>5, <4>1, <4>2
        <3>8. TookPayload("server", "client", 0, AcceptSum("server", error))
            BY <1>5, <3>5, TwoEnds, AcceptPayloadEffect DEF LinkInv, S
        <3> QED
            BY <3>7, <3>8
    <2>2. CASE pc # "get read"
        BY <1>5, <2>2, TwoEnds, RejectPayloadEffect, AcceptPayloadEffect DEF ServePayload, LinkInv, S
    <2> QED
        BY <2>1, <2>2
<1>7. /\ PacketTyped' /\ C' = C /\ S'.at = "ready" /\ S'.head = C.head /\ Payload("server") \in Seq(Nat)
      /\ Dropped(ls, PayloadLen(S.head), ls') /\ x \in Nat /\ lc' = lc \o <<x>>
    BY <1>3, <1>6 DEF TookPayload, C, S, lc, ls
<1>8. ls' = <<>> /\ (C.at = "headAck" => C.data = <<>>)
    <2>1. ls \in Seq(Nat) /\ ls' \in Seq(Nat) /\ Len(ls) \in Nat
        BY <1>7, LinesTyped DEF LinkInv, Dropped
    <2>2. Len(ls) = PayloadLen(S.head) /\ (C.at = "headAck" => C.data = <<>>)
        <3>1. CASE C.at = "headAck"
            <4>1. ls = <<>>
                BY <1>2, <3>1 DEF Taken
            <4>2. Len(ls) = 0
                BY <4>1
            <4>3. PayloadLen(S.head) = 0
                BY <1>1, <1>5, <4>2
            <4>4. C.data = <<>>
                BY <1>4, <4>3, NoItems
            <4> QED
                BY <4>2, <4>3, <4>4
        <3>2. CASE C.at = "payAck"
            BY <1>2, <1>4, <3>2 DEF Taken
        <3> QED
            BY <1>3, <3>1, <3>2
    <2>3. Dropped(ls, Len(ls), ls')
        BY <1>7, <2>2, Zenon
    <2> QED
        BY <2>1, <2>2, <2>3, AllDropped
<1>9. lc \in Seq(Nat) /\ Len(lc) \in Nat
    BY LinesTyped DEF LinkInv
<1>10. Len(lc') = Owes(C.at)
    <2>1. Len(lc') = Len(lc) + 1
        BY <1>7, <1>9
    <2>2. CASE C.at = "headAck"
        <3>1. Len(lc) = 1
            BY <1>2, <2>2 DEF Taken
        <3> QED
            BY <2>1, <2>2, <3>1 DEF Owes
    <2>3. CASE C.at = "payAck"
        <3>1. lc = <<>>
            BY <1>2, <2>3 DEF Taken
        <3> QED
            BY <2>1, <2>3, <3>1 DEF Owes
    <2> QED
        BY <1>3, <2>2, <2>3
<1>11. UNCHANGED <<pc, source, pos>>
    BY DEF clientVars
<1>12. pc # "get data"
    BY <1>3 DEF LinkInv, ClientInv
<1>13. ClientInv' /\ ServerInv'
    <2>1. Requesting'
        BY <1>3, <1>7, <1>11 DEF Requesting, IsRequest, Requests
    <2> QED
        BY <1>1, <1>7, <1>11, <2>1 DEF LinkInv, ClientInv, ServerInv
<1>14. ASSUME pc # "get read"
       PROVE  Answered'
    <2>1. Cmd(C.head) \notin {FSERV_READ, FSERV_EXIT}
        <3>1. Cmd(C.head) \in {FSERV_OPENREAD, FSERV_OPENWRITE, FSERV_CLOSE, FSERV_WRITE}
            BY <1>4, <1>14 DEF Requests
        <3>2. Cmd(C.head) \in {1, 2, 3, 5}
            BY <3>1, Commands
        <3> QED
            BY <3>2, Commands
    <2>2. Idle'
        BY <1>1, <1>7, <2>1 DEF Idle, Cmd
    <2> QED
        BY <1>1, <1>7, <1>8, <1>10, <1>11, <1>12, <1>14, <2>2 DEF Answered
<1>15. ASSUME pc = "get read"
       PROVE  Asked'
    <2>1. Cmd(C.head) = FSERV_READ
        BY <1>4, <1>15 DEF Requests
    <2>2. x = PayloadSum(C.head)
        BY <1>3, <1>6, <1>15
    <2>3. ASSUME C.at = "headAck"
          PROVE  lc'[1] = HeadSum(C.head) /\ lc'[2] = PayloadSum(C.head)
        <3>1. Len(lc) = 1 /\ lc[1] = HeadSum(C.head)
            BY <1>2, <1>15, <2>3 DEF Taken
        <3>2. (lc \o <<x>>)[1] = lc[1] /\ (lc \o <<x>>)[2] = x
            BY <1>7, <1>9, <3>1, ItemAdded
        <3> QED
            BY <1>7, <2>2, <3>1, <3>2
    <2>4. ASSUME C.at = "payAck"
          PROVE  lc'[1] = PayloadSum(C.head) /\ C.err = 0
        <3>1. lc = <<>> /\ C.err = 0
            BY <1>2, <1>15, <2>4 DEF Taken
        <3>2. (lc \o <<x>>)[1] = x
            BY <1>7, <1>9, <3>1
        <3> QED
            BY <1>7, <2>2, <3>1, <3>2
    <2> QED
        BY <1>1, <1>3, <1>7, <1>8, <1>10, <1>11, <1>15, <2>1, <2>3, <2>4 DEF Asked, Cmd, PayloadSum, HeadSum
<1>16. Answered' \/ Asked'
    BY <1>14, <1>15
<1>17. ~Pending'
    <2>1. (PacketTyped /\ ServerInv /\ (Answered \/ Asked \/ Receiving \/ Received) => ~Pending)'
        BY NotPending, PTL
    <2> QED
        BY <1>7, <1>13, <1>16, <2>1
<1> QED
    BY <1>2, <1>3, <1>4, <1>5a, <1>7, <1>13, <1>16, <1>17 DEF LinkInv, Phase, Pending

LEMMA ServeReadLinks ==
    ASSUME LinkInv, ServeRead, UNCHANGED clientVars,
           Readable(fh) => Sendable(Chunk(fh, BufLen))
    PROVE  LinkInv' /\ SameRequest
<1>1. /\ serving = "respond" /\ S.at = "ready" /\ Cmd(S.head) = FSERV_READ
      /\ serving' = "answered"
    BY DEF ServeRead, Answers, Done, S
<1>2. Asked
    BY <1>1 DEF LinkInv, Phase, Offered, Quiet, Idle, Taken, Answered, Receiving, Received
<1>3. PICK cmd, data : /\ cmd \in {FSERV_DATA, FSERV_ERROR} /\ Sendable(data)
                       /\ SendHeader("server", cmd, data)
    <2>1. CASE bios_fatfs_read(fh, BufLen) /\ SendHeader("server", FSERV_DATA, Chunk(fh, BufLen))
        BY <2>1 DEF bios_fatfs_read
    <2>2. CASE SendHeader("server", FSERV_ERROR, <<>>)
        BY <2>2, EmptyFits DEF Sendable
    <2> QED
        BY <2>1, <2>2 DEF ServeRead
<1>4. cmd \in Nat /\ data \in Seq(Nat) /\ Len(data) <= BufLen
    BY <1>3, Commands DEF Sendable
<1>5. SentHeader("server", "client", cmd, data)
    BY <1>3, <1>4, TwoEnds, SendHeaderEffect DEF LinkInv
<1>6. /\ PacketTyped' /\ C' = C /\ S'.at = "headAck" /\ S'.data = data
      /\ IsHead(S'.head, cmd, data) /\ ls' = ls /\ Carries(lc', Len(lc), S'.head)
      /\ \A i \in 1 .. Len(lc) : lc'[i] = lc[i]
    BY <1>5 DEF SentHeader, C, S, lc, ls
<1>7. UNCHANGED <<pc, source, pos>>
    BY DEF clientVars
<1>8. ServerInv'
    <2>1. IsHead(S'.head, Cmd(S'.head), S'.data) /\ Cmd(S'.head) \in {FSERV_DATA, FSERV_ERROR}
        BY <1>3, <1>6 DEF IsHead
    <2>2. (IsHead(S.head, Cmd(S.head), S.data) /\ Cmd(S.head) \in {FSERV_DATA, FSERV_ERROR})'
        BY <2>1
    <2> QED
        BY <1>1, <1>4, <1>6, <2>2 DEF ServerInv
<1>9. ClientInv'
    BY <1>6, <1>7 DEF LinkInv, ClientInv, Requesting, IsRequest, Requests
<1>10. Len(lc) = Owes(C.at)
    BY <1>1, <1>2 DEF Asked
<1>11. /\ C.at = "headAck" => lc'[1] = lc[1] /\ lc'[2] = lc[2]
       /\ C.at = "payAck" => lc'[1] = lc[1]
    BY <1>6, <1>10 DEF Owes
<1>12. Carries(lc', Owes(C.at), S'.head)
    BY <1>6, <1>10
<1>13. Asked'
    BY <1>2, <1>6, <1>7, <1>11, <1>12 DEF Asked, HeadSum, PayloadSum
<1>14. SameRequest
    BY <1>2, <1>6, <1>8, <1>13, StaysDone
<1> QED
    BY <1>6, <1>8, <1>9, <1>13, <1>14 DEF LinkInv, Phase

-----------------------------------------------------------------------------
LEMMA ServerSendsPayload ==
    ASSUME LinkInv, SendPayload("server"), UNCHANGED <<clientVars, serverVars>>
    PROVE  LinkInv' /\ SameRequest
<1>1. SentPayload("server", "client")
    BY TwoEnds, SendPayloadEffect DEF LinkInv
<1>2. /\ PacketTyped' /\ C' = C /\ Len(ls) >= 1 /\ S.at = "headAck" /\ S'.at = "payAck"
      /\ S'.head = S.head /\ S'.data = S.data
      /\ Dropped(ls, 1, ls') /\ lc' = lc \o S.data
    BY <1>1 DEF SentPayload, C, S, lc, ls
<1>3. /\ lc \in Seq(Nat) /\ ls \in Seq(Nat) /\ Len(ls) \in Nat /\ S.data \in Seq(Nat)
      /\ ls' \in Seq(Nat) /\ Len(ls') = Len(ls) - 1 /\ ls # <<>>
    BY <1>2, LinesTyped, NoItems DEF LinkInv, Dropped
<1>4. UNCHANGED <<pc, source, pos, serving>> /\ serving = "answered"
    BY <1>2 DEF clientVars, serverVars, LinkInv, ServerInv
<1>5. ServerInv'
    <2>1. (IsHead(S.head, Cmd(S.head), S.data) /\ Cmd(S.head) \in {FSERV_DATA, FSERV_ERROR}
           /\ S.data \in Seq(Nat) /\ Len(S.data) <= BufLen)'
        BY <1>2 DEF LinkInv, ServerInv, IsHead, Cmd
    <2> QED
        BY <1>2, <1>4, <2>1 DEF ServerInv
<1>6. ClientInv'
    BY <1>2, <1>4 DEF LinkInv, ClientInv, Requesting, IsRequest, Requests
<1>7. ASSUME S.data = <<>>
      PROVE  lc' = lc
    BY <1>2, <1>3, <1>7, ConcatEmptySeq
<1>8. CASE Offered
    <2>1. S.data = <<>> /\ Carries(ls, 1 + 1, C.head) /\ lc = <<>>
        BY <1>2, <1>8 DEF Offered, Quiet, Idle, Owes
    <2>2. Carries(ls', 1, C.head)
        BY <1>2, <1>3, <2>1, HeaderMoves
    <2>3. Offered'
        BY <1>2, <1>4, <1>7, <1>8, <2>1, <2>2 DEF Offered, Quiet, Owes
    <2> QED
        BY <1>2, <1>5, <1>6, <1>8, <2>3 DEF LinkInv, Phase, SameRequest, Pending
<1>9. CASE Receiving
    <2>1. Len(ls) = 1 /\ lc = <<>>
        BY <1>2, <1>9 DEF Receiving
    <2>2. Len(ls') = 0
        BY <1>3, <2>1
    <2>3. ls' = <<>>
        BY <1>3, <2>2, NoItems
    <2>4. lc' = S.data
        BY <1>2, <1>3, <2>1, ConcatEmptySeq
    <2>5. Receiving'
        BY <1>2, <1>4, <1>9, <2>3, <2>4 DEF Receiving
    <2>6. SameRequest
        BY <1>2, <1>5, <1>9, <2>5, StaysDone
    <2> QED
        BY <1>2, <1>5, <1>6, <2>5, <2>6 DEF LinkInv, Phase
<1>10. CASE Received
    <2>1. S.data = <<>> /\ Len(ls) = 2 /\ lc = <<>>
        BY <1>2, <1>10 DEF Received, Quiet, Idle, Owes
    <2>2. Len(ls') = 1
        BY <1>3, <2>1
    <2>3. Received'
        BY <1>2, <1>4, <1>7, <1>10, <2>1, <2>2 DEF Received, Quiet, Owes
    <2>4. SameRequest
        BY <1>2, <1>5, <1>10, <2>3, StaysDone
    <2> QED
        BY <1>2, <1>5, <1>6, <2>3, <2>4 DEF LinkInv, Phase
<1> QED
    <2>1. ~Taken /\ ~Answered /\ ~Asked
        BY <1>2, <1>3 DEF Taken, Answered, Asked
    <2> QED
        BY <1>8, <1>9, <1>10, <2>1 DEF LinkInv, Phase

LEMMA ServerEndsSend ==
    ASSUME LinkInv, EndSend("server"), UNCHANGED <<clientVars, serverVars>>
    PROVE  LinkInv' /\ SameRequest
<1>1. EndedSend("server", "client")
    BY TwoEnds, EndSendEffect DEF LinkInv
<1>2. /\ PacketTyped' /\ C' = C /\ Len(ls) >= 1 /\ S.at = "payAck" /\ S'.at = "ready"
      /\ Dropped(ls, 1, ls') /\ lc' = lc
    BY <1>1 DEF EndedSend, C, S, lc, ls
<1>3. /\ ls \in Seq(Nat) /\ Len(ls) \in Nat
      /\ ls' \in Seq(Nat) /\ Len(ls') = Len(ls) - 1 /\ ls # <<>>
    BY <1>2, LinesTyped, NoItems DEF LinkInv, Dropped
<1>4. UNCHANGED <<pc, source, pos, serving>> /\ serving = "answered"
    BY <1>2 DEF clientVars, serverVars, LinkInv, ServerInv
<1>5. ServerInv' /\ ClientInv'
    BY <1>2, <1>4 DEF LinkInv, ServerInv, ClientInv, Requesting, IsRequest, Requests
<1>6. Quiet'
    BY <1>2, <1>4 DEF Quiet
<1>7. CASE Offered
    <2>1. Carries(ls, 1 + 0, C.head) /\ lc = <<>>
        BY <1>2, <1>7 DEF Offered, Owes
    <2>2. Carries(ls', 0, C.head)
        BY <1>2, <1>3, <2>1, HeaderMoves
    <2>3. Offered'
        BY <1>2, <1>6, <1>7, <2>1, <2>2 DEF Offered, Owes
    <2> QED
        BY <1>2, <1>5, <1>7, <2>3 DEF LinkInv, Phase, SameRequest, Pending
<1>8. CASE Received
    <2>1. Len(ls) = 1
        BY <1>2, <1>8 DEF Received, Owes
    <2>2. Len(ls') = 0
        BY <1>3, <2>1
    <2>3. Received'
        BY <1>2, <1>4, <1>6, <1>8, <2>2 DEF Received, Owes
    <2>4. SameRequest
        BY <1>2, <1>5, <1>8, <2>3, StaysDone
    <2> QED
        BY <1>2, <1>5, <2>3, <2>4 DEF LinkInv, Phase
<1> QED
    <2>1. ~Taken /\ ~Answered /\ ~Asked /\ ~Receiving
        BY <1>2, <1>3 DEF Taken, Answered, Asked, Receiving
    <2> QED
        BY <1>7, <1>8, <2>1 DEF LinkInv, Phase

\* The client never sends FSERV_EXIT.
LEMMA NeverExits ==
    ASSUME LinkInv
    PROVE  ~ServeExit
<1> SUFFICES ASSUME ServeExit
             PROVE  FALSE
    OBVIOUS
<1>1. serving = "respond" /\ S.at = "ready" /\ Cmd(S.head) = FSERV_EXIT /\ FSERV_EXIT # FSERV_READ
    BY Commands DEF ServeExit, Answers, Done, S
<1> QED
    BY <1>1 DEF LinkInv, Phase, Offered, Quiet, Idle, Taken, Answered, Asked, Receiving, Received

LEMMA ServeNextLinks ==
    ASSUME LinkInv, ServeNext, UNCHANGED clientVars
    PROVE  LinkInv' /\ SameRequest
<1>1. Listens("server", "client")
    BY TwoEnds, ReceiveEffect DEF LinkInv, ServeNext
<1>2. /\ PacketTyped' /\ C' = C /\ S.at = "ready" /\ S'.at = "header" /\ lc' = lc /\ ls' = ls
    BY <1>1 DEF Listens, C, S, lc, ls
<1>3. UNCHANGED <<pc, source, pos>> /\ serving' = "receive"
    BY DEF clientVars, ServeNext
<1>4. ServerInv' /\ ClientInv'
    BY <1>2, <1>3 DEF LinkInv, ServerInv, ClientInv, Requesting, IsRequest, Requests
<1>5. Quiet' /\ Idle'
    BY <1>2 DEF Quiet, Idle
<1>6. CASE Offered
    <2>1. Offered'
        BY <1>2, <1>5, <1>6 DEF Offered, Owes
    <2> QED
        BY <1>2, <1>4, <1>6, <2>1 DEF LinkInv, Phase, SameRequest, Pending
<1>7. CASE Answered
    <2>1. Answered'
        BY <1>2, <1>3, <1>5, <1>7 DEF Answered
    <2>2. SameRequest
        BY <1>2, <1>4, <1>7, <2>1, StaysDone
    <2> QED
        BY <1>2, <1>4, <2>1, <2>2 DEF LinkInv, Phase
<1>8. CASE Received
    <2>1. Received'
        BY <1>2, <1>3, <1>5, <1>8 DEF Received, Owes
    <2>2. SameRequest
        BY <1>2, <1>4, <1>8, <2>1, StaysDone
    <2> QED
        BY <1>2, <1>4, <2>1, <2>2 DEF LinkInv, Phase
<1> QED
    <2>1. ~Asked
        BY <1>2 DEF Asked, ServeNext, Answers, Done, S
    <2>2. ~Taken /\ ~Receiving
        BY <1>2 DEF Taken, Receiving
    <2> QED
        BY <1>6, <1>7, <1>8, <2>1, <2>2 DEF LinkInv, Phase
-----------------------------------------------------------------------------
\* A byte changes on a line that carries no header, and not the acknowledge of
\* READ: as many bytes are on their way as before.
LEMMA DamageLinks ==
    ASSUME LinkInv, Damage, ~derailed'
    PROVE  LinkInv' /\ SameRequest
<1>1. PICK p \in Side :
         /\ ~Derails(p)
         /\ \E i \in DOMAIN line[p], b \in NoiseBytes : line' = [line EXCEPT ![p][i] = b]
    BY DEF Damage
<1>2. PICK i \in DOMAIN line[p], b \in NoiseBytes : line' = [line EXCEPT ![p][i] = b]
    BY <1>1
<1>3. ep' = ep /\ C' = C /\ S' = S /\ UNCHANGED <<pc, source, pos, serving>>
    BY DEF Damage, clientVars, serverVars, C, S
<1>4. line \in [Side -> Seq(Nat)] /\ line[p] \in Seq(Nat) /\ b \in Nat
    BY SetupAssumption DEF LinkInv, PacketTyped, LineTyped, Byte
<1>5. line[p] # <<>> /\ i \in 1 .. Len(line[p])
    BY <1>4
<1>6. [line[p] EXCEPT ![i] = b] \in Seq(Nat) /\ Len([line[p] EXCEPT ![i] = b]) = Len(line[p])
    BY <1>4, <1>5, ItemReplaced
<1>7. line' = [line EXCEPT ![p] = [line[p] EXCEPT ![i] = b]]
    BY <1>2
<1>8. /\ line' \in [Side -> Seq(Nat)] /\ Len(line'[p]) = Len(line[p])
      /\ \A q \in Side : q # p => line'[q] = line[q]
    BY <1>4, <1>6, <1>7
<1>9. PacketTyped'
    BY <1>3, <1>8 DEF LinkInv, PacketTyped, LineTyped, EpTyped
<1>10. ServerInv' /\ ClientInv'
    BY <1>3 DEF LinkInv, ServerInv, ClientInv, Requesting, IsRequest, Requests
<1>11. Idle' = Idle /\ Quiet' = Quiet
    BY <1>3 DEF Quiet, Idle
<1>12. CASE p = "server"
    <2>1. C.at # "headAck" /\ ls # <<>> /\ Len(ls') = Len(ls) /\ lc' = lc
        BY <1>1, <1>5, <1>8, <1>12 DEF Derails, Peer, Side, C, ls, lc
    <2>2. CASE Taken
        <3>1. Taken'
            BY <1>3, <2>1, <2>2 DEF Taken
        <3> QED
            BY <1>3, <1>9, <1>10, <2>2, <3>1 DEF LinkInv, Phase, SameRequest, Pending
    <2>3. CASE Receiving
        <3>1. Receiving'
            BY <1>3, <2>1, <2>3 DEF Receiving
        <3>2. SameRequest
            BY <1>9, <1>10, <2>3, <3>1, StaysDone
        <3> QED
            BY <1>9, <1>10, <3>1, <3>2 DEF LinkInv, Phase
    <2>4. CASE Received
        <3>1. Received'
            BY <1>3, <1>11, <2>1, <2>4 DEF Received, Quiet, Idle
        <3>2. SameRequest
            BY <1>9, <1>10, <2>4, <3>1, StaysDone
        <3> QED
            BY <1>9, <1>10, <3>1, <3>2 DEF LinkInv, Phase
    <2> QED
        <3>1. ~Offered /\ ~Answered /\ ~Asked
            BY <2>1 DEF Offered, Answered, Asked
        <3> QED
            BY <2>2, <2>3, <2>4, <3>1 DEF LinkInv, Phase
<1>13. CASE p = "client"
    <2>1. S.at # "headAck" /\ lc # <<>> /\ Len(lc') = Len(lc) /\ ls' = ls
        BY <1>1, <1>5, <1>8, <1>13 DEF Derails, Peer, Side, S, ls, lc
    <2>2. C.at \in {"headAck", "payAck"} => Cmd(C.head) # FSERV_READ /\ pc # "get read"
        BY <1>1, <1>13 DEF Derails, C, LinkInv, ClientInv, Requesting, IsRequest, Requests
    <2>3. CASE Taken
        <3>1. Taken'
            BY <1>3, <2>1, <2>2, <2>3 DEF Taken
        <3> QED
            BY <1>3, <1>9, <1>10, <2>3, <3>1 DEF LinkInv, Phase, SameRequest, Pending
    <2>4. CASE Answered
        <3>1. Answered'
            BY <1>3, <1>11, <2>1, <2>4 DEF Answered, Idle
        <3>2. SameRequest
            BY <1>9, <1>10, <2>4, <3>1, StaysDone
        <3> QED
            BY <1>9, <1>10, <3>1, <3>2 DEF LinkInv, Phase
    <2>5. CASE Receiving
        <3>1. Receiving'
            BY <1>3, <2>1, <2>5 DEF Receiving
        <3>2. SameRequest
            BY <1>9, <1>10, <2>5, <3>1, StaysDone
        <3> QED
            BY <1>9, <1>10, <3>1, <3>2 DEF LinkInv, Phase
    <2>6. ~Asked
        <3>1. SUFFICES ASSUME Asked
                       PROVE  FALSE
            OBVIOUS
        <3>2. C.at \notin {"headAck", "payAck"}
            BY <2>2, <3>1 DEF Asked
        <3>3. Len(lc) = 0
            BY <2>1, <3>1, <3>2 DEF Asked, Owes
        <3> QED
            BY <2>1, <3>3, LinesTyped, NoItems DEF LinkInv
    <2> QED
        <3>1. ~Offered /\ ~Received
            BY <2>1 DEF Offered, Received
        <3> QED
            BY <2>3, <2>4, <2>5, <2>6, <3>1 DEF LinkInv, Phase
<1> QED
    BY <1>12, <1>13 DEF Side

-----------------------------------------------------------------------------
(* The files of the card and the handles. *)

DiskInv ==
    /\ \A path \in DOMAIN disk : disk[path] \in Seq(Nat)
    /\ handle_used \in [Handle -> BOOLEAN]
    /\ file \in [Handle -> [path : Seq(Nat), pos : Nat, write : BOOLEAN]]
    /\ \A h \in Handle : handle_used[h] => file[h].path \in DOMAIN disk
    /\ fh \in Handle

LEMMA MinOfMany ==
    ASSUME NEW T, T \subseteq Nat, T # {}
    PROVE  Min(T) \in T
<1>1. \E x \in T : \A y \in T : x <= y
    BY SmallestExists
<1> QED
    BY <1>1 DEF Min

LEMMA BeginningTyped ==
    ASSUME NEW s \in Seq(Nat), NEW n \in 0 .. Len(s)
    PROVE  SubSeq(s, 1, n) \in Seq(Nat)
BY FirstItems

LEMMA CStringTyped ==
    ASSUME NEW bytes \in Seq(Nat)
    PROVE  CString(bytes) \in Seq(Nat)
<1> DEFINE T == {i - 1 : i \in {j \in DOMAIN bytes : bytes[j] = 0}} \cup {Len(bytes)}
<1>1. T \subseteq 0 .. Len(bytes) /\ T \subseteq Nat /\ T # {}
    OBVIOUS
<1> HIDE DEF T
<1>2. Min(T) \in 0 .. Len(bytes)
    BY <1>1, MinOfMany
<1>3. SubSeq(bytes, 1, Min(T)) \in Seq(Nat)
    BY <1>2, BeginningTyped
<1> QED
    BY <1>3 DEF CString, T

LEMMA FreeHandle ==
    ASSUME DiskInv, find_free_filehandle # -1
    PROVE  find_free_filehandle \in Handle /\ ~handle_used[find_free_filehandle]
<1> DEFINE T == {h \in Handle : ~handle_used[h]}
<1>1. T \subseteq Nat /\ T # {}
    BY DEF find_free_filehandle, Handle
<1>2. find_free_filehandle = Min(T)
    BY DEF find_free_filehandle
<1> HIDE DEF T
<1>3. find_free_filehandle \in T
    BY <1>1, <1>2, MinOfMany
<1> QED
    BY <1>3 DEF T

LEMMA ChunkFits ==
    ASSUME DiskInv, Readable(fh)
    PROVE  Sendable(Chunk(fh, BufLen))
<1>1. file[fh].path \in DOMAIN disk /\ file[fh].pos \in Nat
    BY DEF DiskInv, Readable, check_filehandle
<1>2. Content(file[fh].path) \in Seq(Nat)
    BY <1>1 DEF Content, DiskInv
<1> QED
    BY <1>1, <1>2, PartFits DEF Chunk, Sendable

\* What the operations do to the table.
Opens  == /\ fh' \in Handle /\ ~handle_used[fh']
          /\ handle_used' = [handle_used EXCEPT ![fh'] = TRUE]
          /\ failures' = failures
Closes == /\ handle_used[fh]
          /\ handle_used' = [handle_used EXCEPT ![fh] = FALSE]
          /\ UNCHANGED <<fh, failures>>
Keeps  == UNCHANGED <<handle_used, fh>> /\ failures' \in {failures, failures + 1}

LEMMA OpenEffect ==
    ASSUME DiskInv, NEW path \in Seq(Nat), NEW write \in BOOLEAN, NEW error, OpenFile(path, write, error)
    PROVE  DiskInv' /\ (Opens \/ Keeps)
<1>1. /\ DOMAIN Emptied(path) = DOMAIN disk \cup {path}
      /\ \A q \in DOMAIN Emptied(path) : Emptied(path)[q] \in Seq(Nat)
    BY EmptySeq DEF Emptied, DiskInv
<1>2. CASE /\ bios_fatfs_open(path, write)
           /\ fh' = find_free_filehandle /\ UNCHANGED failures
    <2> DEFINE n == find_free_filehandle
    <2>1. /\ n # -1 /\ Openable(path, write)
          /\ handle_used' = [handle_used EXCEPT ![n] = TRUE]
          /\ file' = [file EXCEPT ![n] = [path |-> path, pos |-> 0, write |-> write]]
          /\ disk' = IF write THEN Emptied(path) ELSE disk
          /\ fh' = n
        BY <1>2 DEF bios_fatfs_open
    <2>2. n \in Handle /\ ~handle_used[n]
        BY <2>1, FreeHandle
    <2> HIDE DEF n
    <2>3. Opens
        BY <1>2, <2>1, <2>2 DEF Opens
    <2>4. DOMAIN disk \subseteq DOMAIN disk' /\ path \in DOMAIN disk'
        <3>1. CASE write
            BY <1>1, <2>1, <3>1
        <3>2. CASE ~write
            BY <2>1, <3>2 DEF Openable, Content
        <3> QED
            BY <3>1, <3>2
    <2>5. \A q \in DOMAIN disk' : disk'[q] \in Seq(Nat)
        BY <1>1, <2>1 DEF DiskInv
    <2>6. /\ handle_used' \in [Handle -> BOOLEAN]
          /\ file' \in [Handle -> [path : Seq(Nat), pos : Nat, write : BOOLEAN]]
        BY <2>1, <2>2 DEF DiskInv
    <2>7. \A h \in Handle : handle_used'[h] => file'[h].path \in DOMAIN disk'
        BY <2>1, <2>2, <2>4 DEF DiskInv
    <2> QED
        BY <2>1, <2>2, <2>3, <2>5, <2>6, <2>7 DEF DiskInv
<1>3. CASE Refused(error)
    BY <1>3 DEF Refused, Keeps, DiskInv, filesVars
<1>4. CASE CardFails(error, {disk} \cup IF write THEN {Emptied(path)} ELSE {})
    <2>1. Keeps /\ UNCHANGED file /\ (disk' = disk \/ disk' = Emptied(path))
        BY <1>4 DEF CardFails, Fails, Keeps
    <2> QED
        BY <1>1, <2>1 DEF DiskInv, Keeps
<1> QED
    BY <1>2, <1>3, <1>4 DEF OpenFile

\* The bytes go to the end of a file that is open.
LEMMA Appended ==
    ASSUME DiskInv, handle_used[fh], NEW bytes \in Seq(Nat), UNCHANGED <<handle_used, file, fh>>,
           disk' = [disk EXCEPT ![file[fh].path] = @ \o bytes]
    PROVE  DiskInv'
<1>1. file[fh].path \in DOMAIN disk
    BY DEF DiskInv
<1>2. disk[file[fh].path] \o bytes \in Seq(Nat)
    BY <1>1, ConcatProperties DEF DiskInv
<1>3. DOMAIN disk' = DOMAIN disk /\ \A q \in DOMAIN disk' : disk'[q] \in Seq(Nat)
    BY <1>1, <1>2 DEF DiskInv
<1> QED
    BY <1>3 DEF DiskInv

LEMMA WriteEffect ==
    ASSUME DiskInv, NEW bytes \in Seq(Nat), NEW error, WriteFile(bytes, error)
    PROVE  DiskInv' /\ Keeps
<1>1. CASE bios_fatfs_write(fh, bytes) /\ UNCHANGED <<fh, failures>>
    BY <1>1, Appended DEF bios_fatfs_write, Writable, check_filehandle, Keeps
<1>2. CASE Refused(error)
    BY <1>2 DEF Refused, Keeps, DiskInv, filesVars
<1>3. CASE /\ Writable(fh)
           /\ CardFails(error, {[disk EXCEPT ![file[fh].path] = @ \o SubSeq(bytes, 1, n)] :
                                   n \in 0 .. Len(bytes) - 1})
    <2>1. PICK n \in 0 .. Len(bytes) - 1 :
             disk' = [disk EXCEPT ![file[fh].path] = @ \o SubSeq(bytes, 1, n)]
        BY <1>3 DEF CardFails
    <2>2. SubSeq(bytes, 1, n) \in Seq(Nat)
        <3>1. n \in 0 .. Len(bytes)
            BY <2>1
        <3> QED
            BY <3>1, BeginningTyped
    <2>3. Keeps /\ UNCHANGED file /\ handle_used[fh]
        BY <1>3 DEF CardFails, Fails, Keeps, Writable, check_filehandle
    <2> QED
        BY <2>1, <2>2, <2>3, Appended DEF Keeps
<1> QED
    BY <1>1, <1>2, <1>3 DEF WriteFile

LEMMA CloseEffect ==
    ASSUME DiskInv, NEW error, CloseFile(error)
    PROVE  /\ DiskInv'
           /\ \/ Closes
              \/ ~handle_used[fh] /\ UNCHANGED <<handle_used, fh, failures>>
              \/ UNCHANGED <<handle_used, fh>> /\ failures' = failures + 1
<1>1. CASE bios_fatfs_close(fh) /\ UNCHANGED <<fh, failures>>
    BY <1>1 DEF bios_fatfs_close, check_filehandle, Closes, DiskInv
<1>2. CASE ~check_filehandle(fh) /\ Refused(error)
    BY <1>2 DEF Refused, check_filehandle, DiskInv, filesVars
<1>3. CASE CardFails(error, {disk})
    BY <1>3 DEF CardFails, Fails, DiskInv
<1> QED
    BY <1>1, <1>2, <1>3 DEF CloseFile
-----------------------------------------------------------------------------
Used(u) == Cardinality({h \in Handle : u[h]})

LEMMA UsedIsNat ==
    ASSUME NEW u
    PROVE  IsFiniteSet({h \in Handle : u[h]}) /\ Used(u) \in Nat
<1>1. IsFiniteSet(Handle)
    BY FS_Interval, HandleAssumption DEF Handle
<1>2. IsFiniteSet({h \in Handle : u[h]})
    BY <1>1, FS_Subset
<1> QED
    BY <1>2, FS_CardinalityType DEF Used

LEMMA OneMore ==
    ASSUME NEW u \in [Handle -> BOOLEAN], NEW n \in Handle, ~u[n]
    PROVE  Used([u EXCEPT ![n] = TRUE]) = Used(u) + 1
<1>1. {h \in Handle : [u EXCEPT ![n] = TRUE][h]} = {h \in Handle : u[h]} \cup {n}
    OBVIOUS
<1>2. n \notin {h \in Handle : u[h]} /\ IsFiniteSet({h \in Handle : u[h]})
    BY UsedIsNat
<1>3. Cardinality({h \in Handle : u[h]} \cup {n}) = Cardinality({h \in Handle : u[h]}) + 1
    BY <1>2, FS_AddElement
<1> QED
    BY <1>1, <1>3 DEF Used

LEMMA OneLess ==
    ASSUME NEW u \in [Handle -> BOOLEAN], NEW n \in Handle, u[n]
    PROVE  Used([u EXCEPT ![n] = FALSE]) = Used(u) - 1
<1>1. {h \in Handle : [u EXCEPT ![n] = FALSE][h]} = {h \in Handle : u[h]} \ {n}
    OBVIOUS
<1>2. n \in {h \in Handle : u[h]} /\ IsFiniteSet({h \in Handle : u[h]})
    BY UsedIsNat
<1>3. Cardinality({h \in Handle : u[h]} \ {n}) = Cardinality({h \in Handle : u[h]}) - 1
    BY <1>2, FS_RemoveElement
<1> QED
    BY <1>1, <1>3 DEF Used

\* The command that runs holds a handle: the one it opened, until CLOSE is done.
Opened ==
    /\ handle_used[fh] /\ pc # "prompt"
    /\ Pending => Cmd(C.head) \notin {FSERV_OPENREAD, FSERV_OPENWRITE}
    /\ ~Pending => pc \notin {"put close", "get close"}

HandleInv ==
    /\ failures \in Nat /\ Used(handle_used) <= failures + 1
    /\ Used(handle_used) <= failures \/ Opened

LEMMA KeepsHandles ==
    ASSUME HandleInv, Keeps, Opened => Opened' \/ failures' # failures
    PROVE  HandleInv'
<1>1. Used(handle_used) \in Nat
    BY UsedIsNat
<1>2. Used(handle_used') = Used(handle_used)
    BY DEF Keeps
<1> QED
    BY <1>1, <1>2 DEF HandleInv, Keeps

LEMMA ServePayloadHandles ==
    ASSUME LinkInv, DiskInv, HandleInv, ServePayload, UNCHANGED clientVars
    PROVE  DiskInv' /\ HandleInv'
<1>1. /\ LinkInv' /\ Pending /\ ~Pending' /\ C' = C /\ pc' = pc
      /\ Cmd(S.head) = Cmd(C.head) /\ Cmd(C.head) \in Requests /\ Payload("server") \in Seq(Nat)
      /\ Cmd(C.head) \in {FSERV_READ, FSERV_CLOSE} => Intact("server")
    BY ServePayloadLinks DEF clientVars
<1>2. Used(handle_used) \in Nat /\ failures \in Nat
    BY UsedIsNat DEF HandleInv
<1>3. CASE Cmd(C.head) = FSERV_CLOSE
    <2>1. Intact("server")
        BY <1>1, <1>3
    <2>2. PICK error \in {0, 1} : payload_callback(FSERV_CLOSE, Payload("server"), error)
        BY <1>1, <1>3, <2>1 DEF ServePayload, RejectPayload, S
    <2>3. CloseFile(error)
        BY <2>2, Commands DEF payload_callback
    <2>4. DiskInv'
        BY <2>3, CloseEffect
    <2>5. CASE Closes
        <3>1. Used(handle_used') = Used(handle_used) - 1
            BY <2>5, OneLess DEF Closes, DiskInv
        <3> QED
            BY <1>2, <2>4, <2>5, <3>1 DEF HandleInv, Closes
    <2>6. CASE ~handle_used[fh] /\ UNCHANGED <<handle_used, fh, failures>>
        <3>1. Used(handle_used') = Used(handle_used) /\ ~Opened
            BY <2>6 DEF Opened
        <3> QED
            BY <1>2, <2>4, <2>6, <3>1 DEF HandleInv
    <2>7. CASE UNCHANGED <<handle_used, fh>> /\ failures' = failures + 1
        <3>1. Used(handle_used') = Used(handle_used)
            BY <2>7
        <3> QED
            BY <1>2, <2>4, <2>7, <3>1 DEF HandleInv
    <2> QED
        BY <2>3, <2>5, <2>6, <2>7, CloseEffect
<1>4. CASE Cmd(C.head) # FSERV_CLOSE
    <2>1. pc \notin {"prompt", "put close", "get close"}
        BY <1>1, <1>4 DEF Requests
    <2>2. DiskInv' /\ (Keeps \/ (Opens /\ Cmd(C.head) \in {FSERV_OPENREAD, FSERV_OPENWRITE}))
        <3>1. CASE UNCHANGED <<filesVars, fh, failures>>
            BY <3>1 DEF DiskInv, filesVars, Keeps
        <3>2. CASE \E error \in {0, 1} : payload_callback(Cmd(C.head), Payload("server"), error)
            <4>1. PICK error \in {0, 1} : payload_callback(Cmd(C.head), Payload("server"), error)
                BY <3>2
            <4>2. CASE Cmd(C.head) \in {FSERV_OPENREAD, FSERV_OPENWRITE}
                <5>1. OpenFile(CString(Payload("server")), Cmd(C.head) = FSERV_OPENWRITE, error)
                    BY <4>1, <4>2, Commands DEF payload_callback
                <5>2. CString(Payload("server")) \in Seq(Nat)
                    BY <1>1, CStringTyped
                <5>3. (Cmd(C.head) = FSERV_OPENWRITE) \in BOOLEAN
                    OBVIOUS
                <5> QED
                    BY <4>2, <5>1, <5>2, <5>3, OpenEffect
            <4>3. CASE Cmd(C.head) = FSERV_WRITE
                <5>1. WriteFile(Payload("server"), error)
                    BY <4>1, <4>3, Commands DEF payload_callback
                <5> QED
                    BY <1>1, <5>1, WriteEffect
            <4>4. CASE Cmd(C.head) \notin {FSERV_OPENREAD, FSERV_OPENWRITE, FSERV_WRITE}
                <5>1. UNCHANGED <<filesVars, fh, failures>>
                    BY <1>4, <4>1, <4>4 DEF payload_callback
                <5> QED
                    BY <5>1 DEF DiskInv, filesVars, Keeps
            <4> QED
                BY <4>2, <4>3, <4>4
        <3> QED
            BY <1>1, <3>1, <3>2 DEF ServePayload, S
    <2>3. CASE Keeps
        <3>1. Opened => Opened'
            BY <1>1, <2>1, <2>3 DEF Opened, Keeps
        <3> QED
            BY <2>2, <2>3, <3>1, KeepsHandles
    <2>4. CASE Opens /\ Cmd(C.head) \in {FSERV_OPENREAD, FSERV_OPENWRITE}
        <3>1. ~Opened /\ Used(handle_used') = Used(handle_used) + 1
            BY <1>1, <2>4, OneMore DEF Opened, Opens, DiskInv
        <3>2. Opened'
            BY <1>1, <2>1, <2>4 DEF Opened, Opens, DiskInv
        <3> QED
            BY <1>2, <2>2, <2>4, <3>1, <3>2 DEF HandleInv, Opens
    <2> QED
        BY <2>2, <2>3, <2>4
<1> QED
    BY <1>3, <1>4

-----------------------------------------------------------------------------
(* Every step. *)

FInv == ~derailed => LinkInv /\ DiskInv /\ HandleInv

\* Neither the handles nor the request are touched.
LEMMA SameHandles ==
    ASSUME HandleInv, Keeps, SameRequest, UNCHANGED pc
    PROVE  HandleInv'
<1>1. Opened => Opened'
    BY DEF Opened, Keeps, SameRequest
<1> QED
    BY <1>1, KeepsHandles

LEMMA FInvAtFirst ==
    ASSUME Init
    PROVE  FInv
<1>1. /\ C = [at |-> "ready", head |-> NoHead, data |-> <<>>, err |-> 0] /\ S = C
      /\ lc = <<>> /\ ls = <<>> /\ pc = "prompt" /\ serving = "receive" /\ fh = 0 /\ failures = 0
    BY DEF Init, InitPacket, Ready, C, S, lc, ls, Side
<1>2. <<>> \in Seq(Nat) /\ Len(<<>>) = 0
    BY EmptySeq
<1>3. PacketTyped
    <2>1. NoHead \in Seq(Nat)
        BY DEF NoHead
    <2> QED
        BY <1>2, <2>1 DEF Init, InitPacket, Ready, PacketTyped, LineTyped, EpTyped, EndPoint
<1>4. ClientInv /\ ServerInv
    BY <1>1 DEF ClientInv, ServerInv
<1>5. Answered
    BY <1>1, <1>2 DEF Answered, Idle, Owes
<1>6. DiskInv
    <2>1. PICK before \in Contents \cup {NoFile} :
             InitFiles(IF before = NoFile THEN <<>> ELSE [path \in {Path} |-> before])
        BY DEF Init
    <2>2. \A path \in DOMAIN disk : disk[path] \in Seq(Nat)
        <3>1. CASE disk = <<>>
            <4>1. DOMAIN <<>> = 1 .. 0
                BY <1>2
            <4> QED
                BY <3>1, <4>1
        <3>2. CASE before \in Contents /\ disk = [path \in {Path} |-> before]
            <4>1. before \in Seq(Nat)
                BY <3>2, BytesAreItems, SetupAssumption
            <4> QED
                BY <3>2, <4>1
        <3> QED
            BY <2>1, <3>1, <3>2 DEF InitFiles
    <2>3. 0 \in Handle
        BY HandleAssumption DEF Handle
    <2> QED
        BY <1>1, <1>2, <2>1, <2>2, <2>3 DEF DiskInv, InitFiles
<1>7. HandleInv
    <2>1. {h \in Handle : handle_used[h]} = {}
        BY DEF Init, InitFiles
    <2>2. Used(handle_used) = 0
        BY <2>1, FS_EmptySet DEF Used
    <2> QED
        BY <1>1, <2>2 DEF HandleInv
<1> QED
    BY <1>3, <1>4, <1>5, <1>6, <1>7 DEF FInv, LinkInv, Phase

LEMMA CommandStep ==
    ASSUME LinkInv, DiskInv, HandleInv, Command
    PROVE  LinkInv' /\ DiskInv' /\ HandleInv'
<1>1. Keeps /\ UNCHANGED failures /\ pc = "prompt"
    BY DEF Command, Keeps, serverVars, filesVars, Put, Get
<1>2. DiskInv'
    BY DEF Command, DiskInv, serverVars, filesVars
<1>3. LinkInv'
    BY PutLinks, GetLinks DEF Command
<1>4. ~Opened
    BY <1>1 DEF Opened
<1> QED
    BY <1>1, <1>2, <1>3, <1>4, KeepsHandles

LEMMA ClientPacketStep ==
    ASSUME LinkInv, ClientPacket, UNCHANGED serverVars
    PROVE  LinkInv' /\ SameRequest /\ UNCHANGED pc
<1>1. UNCHANGED <<clientVars, serverVars>> /\ UNCHANGED pc
    BY DEF ClientPacket, clientVars
<1> QED
    BY <1>1, ClientSendsPayload, ClientEndsSend, ClientTakesHeader, ClientTakesPayload
       DEF ClientPacket

\* A command that has come back to the prompt holds no handle.
LEMMA ReturnStep ==
    ASSUME LinkInv, HandleInv, Keeps, UNCHANGED <<serving, line, ep>>,
           pc \in {"put close", "get close"}, C.at = "ready", pc' = "prompt"
    PROVE  LinkInv' /\ HandleInv'
<1>1. LinkInv'
    BY ReturnLinks
<1>2. Answered
    BY ReadyIsFree
<1>3. ~Opened
    BY <1>2, NotPending DEF LinkInv, Opened
<1> QED
    BY <1>1, <1>3, KeepsHandles

LEMMA ClientKeeps ==
    ASSUME ClientStep
    PROVE  Keeps /\ UNCHANGED serverVars
<1>1. UNCHANGED <<handle_used, fh>> /\ UNCHANGED serverVars
    BY DEF ClientStep, serverVars, filesVars
<1>2. failures' \in {failures, failures + 1}
    <2>1. GetOpened => failures' \in {failures, failures + 1}
        BY DEF GetOpened, Fails
    <2> QED
        BY <2>1 DEF ClientStep
<1> QED
    BY <1>1, <1>2 DEF Keeps

LEMMA ClientStepKeeps ==
    ASSUME LinkInv, DiskInv, HandleInv, ClientStep
    PROVE  LinkInv' /\ DiskInv' /\ HandleInv'
<1>1. Keeps /\ UNCHANGED serverVars /\ UNCHANGED serving /\ handle_used' = handle_used /\ fh' = fh
    BY ClientKeeps DEF serverVars, Keeps
<1>2. DiskInv'
    BY DEF ClientStep, DiskInv, serverVars, filesVars
<1>3. ASSUME Offered', Cmd(C'.head) \notin {FSERV_OPENREAD, FSERV_OPENWRITE}, pc' # "prompt"
      PROVE  HandleInv'
    <2>1. Pending'
        BY <1>3 DEF Pending
    <2>2. (Cmd(C.head) \notin {FSERV_OPENREAD, FSERV_OPENWRITE})'
        BY <1>3
    <2>3. Opened => Opened'
        BY <1>1, <1>3, <2>1, <2>2 DEF Opened
    <2> QED
        BY <1>1, <2>3, KeepsHandles
<1>4. ASSUME LinkInv', Offered', pc' \in {"get read", "get close"}
      PROVE  HandleInv'
    <2>1. (Cmd(C.head) \in Requests)'
        BY <1>4 DEF LinkInv, ClientInv, Offered, Requesting, IsRequest
    <2>2. Cmd(C'.head) \in {FSERV_READ, FSERV_CLOSE}
        BY <1>4, <2>1 DEF Requests
    <2>3. Cmd(C'.head) \notin {FSERV_OPENREAD, FSERV_OPENWRITE}
        BY <2>2, NoPaths
    <2> QED
        BY <1>3, <1>4, <2>3
<1>5. CASE PutNext
    <2>1. /\ LinkInv' /\ Offered' /\ pc' # "prompt"
          /\ Cmd(C'.head) \in {FSERV_WRITE, FSERV_CLOSE}
        BY <1>1, <1>5, PutNextLinks
    <2>2. Cmd(C'.head) \notin {FSERV_OPENREAD, FSERV_OPENWRITE}
        BY <2>1, Commands
    <2> QED
        BY <1>2, <1>3, <2>1, <2>2
<1>6. CASE PutReturns
    BY <1>1, <1>2, <1>6, ReturnStep DEF PutReturns, Done, C, packetVars
<1>7. CASE GetOpened
    <2>1. LinkInv' /\ (Fails \/ (Offered' /\ pc' \in {"get read", "get close"}))
        BY <1>1, <1>7, GetOpenedLinks
    <2>2. CASE Fails
        <3>1. failures' # failures
            BY <2>2 DEF Fails, HandleInv
        <3> QED
            BY <1>1, <1>2, <2>1, <3>1, KeepsHandles
    <2>3. CASE Offered' /\ pc' \in {"get read", "get close"}
        BY <1>2, <1>4, <2>1, <2>3
    <2> QED
        BY <2>1, <2>2, <2>3
<1>8. CASE GetRequested
    <2>1. LinkInv' /\ pc' = "get data" /\ C'.at = "header"
        BY <1>1, <1>8, GetRequestedLinks
    <2>2. ~Pending'
        BY <2>1 DEF Pending, Offered, Taken
    <2>3. Opened => Opened'
        BY <1>1, <2>1, <2>2 DEF Opened
    <2> QED
        BY <1>1, <1>2, <2>1, <2>3, KeepsHandles
<1>9. CASE GetReceived
    BY <1>1, <1>2, <1>4, <1>9, GetReceivedLinks
<1>10. CASE GetReturns
    BY <1>1, <1>2, <1>10, ReturnStep DEF GetReturns, Done, C, packetVars
<1>11. CASE ClientPacket
    BY <1>1, <1>2, <1>11, ClientPacketStep, SameHandles
<1> QED
    BY <1>5, <1>6, <1>7, <1>8, <1>9, <1>10, <1>11 DEF ClientStep

LEMMA ServerStepKeeps ==
    ASSUME LinkInv, DiskInv, HandleInv, ServerStep
    PROVE  LinkInv' /\ DiskInv' /\ HandleInv'
<1>1. UNCHANGED clientVars /\ UNCHANGED pc
    BY DEF ServerStep, clientVars
<1>2. ASSUME UNCHANGED <<fh, filesVars, failures>>
      PROVE  DiskInv' /\ Keeps
    BY <1>2 DEF DiskInv, filesVars, Keeps
<1>3. CASE ServeHeader
    BY <1>1, <1>2, <1>3, ServeHeaderLinks, SameHandles DEF ServeHeader
<1>4. CASE ServePayload
    BY <1>1, <1>4, ServePayloadLinks, ServePayloadHandles
<1>5. CASE ServeRead
    <2>1. LinkInv' /\ SameRequest
        BY <1>1, <1>5, ChunkFits, ServeReadLinks
    <2>2. Keeps /\ DiskInv'
        <3>1. CASE UNCHANGED <<filesVars, fh>> /\ failures' \in {failures, failures + 1}
            BY <3>1 DEF DiskInv, filesVars, Keeps
        <3>2. CASE bios_fatfs_read(fh, BufLen) /\ UNCHANGED <<fh, failures>>
            <4>1. Sendable(Chunk(fh, BufLen)) /\ fh \in Handle
                BY <3>2, ChunkFits DEF bios_fatfs_read, DiskInv
            <4>2. file[fh].pos + Len(Chunk(fh, BufLen)) \in Nat
                BY <4>1 DEF Sendable, DiskInv
            <4>3. file' \in [Handle -> [path : Seq(Nat), pos : Nat, write : BOOLEAN]]
                BY <3>2, <4>1, <4>2 DEF bios_fatfs_read, DiskInv
            <4>4. \A h \in Handle : file'[h].path = file[h].path
                BY <3>2, <4>1 DEF bios_fatfs_read, DiskInv
            <4> QED
                BY <3>2, <4>3, <4>4 DEF bios_fatfs_read, DiskInv, Keeps
        <3> QED
            BY <1>5, <3>1, <3>2 DEF ServeRead, Fails
    <2> QED
        BY <1>1, <2>1, <2>2, SameHandles
<1>6. CASE ServerPacket
    BY <1>1, <1>2, <1>6, ServerSendsPayload, ServerEndsSend, SameHandles DEF ServerPacket, serverVars
<1>7. CASE ServeNext
    BY <1>1, <1>2, <1>7, ServeNextLinks, SameHandles DEF ServeNext
<1> QED
    BY <1>3, <1>4, <1>5, <1>6, <1>7, NeverExits DEF ServerStep

LEMMA Stutters ==
    ASSUME FInv, UNCHANGED vars
    PROVE  FInv'
<1>1. /\ UNCHANGED <<line, ep, pc, source, pos, serving, fh, handle_used, file, disk, failures, derailed>>
      /\ C' = C /\ S' = S /\ lc' = lc /\ ls' = ls
    BY DEF vars, clientVars, serverVars, packetVars, filesVars, C, S, lc, ls
<1>2. PacketTyped' = PacketTyped /\ ClientInv' = ClientInv /\ ServerInv' = ServerInv
    BY <1>1 DEF PacketTyped, LineTyped, EpTyped, ClientInv, ServerInv, Requesting, IsRequest, Requests
<1>3. Idle' = Idle /\ Quiet' = Quiet
    BY <1>1 DEF Idle, Quiet
<1>4. Offered' = Offered /\ Taken' = Taken /\ Answered' = Answered
    BY <1>1, <1>3 DEF Offered, Taken, Answered
<1>5. Asked' = Asked /\ Receiving' = Receiving /\ Received' = Received
    BY <1>1, <1>3 DEF Asked, Receiving, Received
<1>6. DiskInv' = DiskInv
    BY <1>1 DEF DiskInv
<1>7. Opened' = Opened
    BY <1>1, <1>4 DEF Opened, Pending
<1>8. HandleInv' = HandleInv
    BY <1>1, <1>7 DEF HandleInv
<1> QED
    BY <1>1, <1>2, <1>4, <1>5, <1>6, <1>8 DEF FInv, LinkInv, Phase

LEMMA FInvKept ==
    ASSUME FInv, [Next]_vars
    PROVE  FInv'
<1>1. CASE ClientStep
    BY <1>1, ClientStepKeeps DEF FInv, ClientStep
<1>2. CASE Command
    BY <1>2, CommandStep DEF FInv, Command
<1>3. CASE ServerStep
    BY <1>3, ServerStepKeeps DEF FInv, ServerStep
<1>4. CASE Damage
    <2>1. SUFFICES ASSUME ~derailed'
                   PROVE  FInv'
        BY DEF FInv
    <2>2. ~derailed
        BY <1>4, <2>1 DEF Damage
    <2>3. Keeps /\ UNCHANGED pc
        BY <1>4 DEF Damage, Keeps, filesVars, serverVars, clientVars
    <2>4. LinkInv' /\ SameRequest
        BY <1>4, <2>1, <2>2, DamageLinks DEF FInv
    <2>5. DiskInv'
        BY <1>4, <2>2 DEF FInv, DiskInv, Damage, filesVars, serverVars
    <2> QED
        BY <2>2, <2>3, <2>4, <2>5, SameHandles DEF FInv
<1>5. CASE UNCHANGED vars
    BY <1>5, Stutters
<1> QED
    BY <1>1, <1>2, <1>3, <1>4, <1>5 DEF Next
-----------------------------------------------------------------------------
LEMMA AtThePrompt ==
    ASSUME FInv, pc = "prompt", ~derailed
    PROVE  Answered /\ C.at = "ready" /\ PacketTyped /\ ~Opened /\ HandleInv
<1>1. LinkInv /\ HandleInv /\ C.at = "ready"
    BY DEF FInv, LinkInv, ClientInv
<1>2. Answered
    BY <1>1, ReadyIsFree
<1> QED
    BY <1>1, <1>2 DEF LinkInv, Opened

LEMMA FInvGivesInStep ==
    ASSUME FInv
    PROVE  InStep
<1> SUFFICES ASSUME pc = "prompt", ~derailed
             PROVE  /\ \A p \in Side : line[p] = <<>>
                    /\ ep["server"].at \in {"ready", "header"} /\ serving # "answered"
    BY DEF InStep
<1>1. Answered /\ C.at = "ready" /\ PacketTyped
    BY AtThePrompt
<1>2. lc = <<>>
    <2>1. Len(lc) = 0
        BY <1>1 DEF Answered, Owes
    <2> QED
        BY <1>1, <2>1, LinesTyped, NoItems
<1> QED
    BY <1>1, <1>2 DEF Answered, Idle, lc, ls, S, Side

LEMMA FInvGivesHandlesReturned ==
    ASSUME FInv
    PROVE  HandlesReturned
<1> SUFFICES ASSUME pc = "prompt", ~derailed
             PROVE  Quantify(Handle, LAMBDA h : handle_used[h]) <= failures
    BY DEF HandlesReturned
<1>1. Used(handle_used) <= failures
    BY AtThePrompt DEF HandleInv
<1>2. Quantify(Handle, LAMBDA h : handle_used[h]) = Used(handle_used)
    BY DEF Quantify, Used
<1> QED
    BY <1>1, <1>2

\* Whatever failed before, a command ends with nothing on the line and the server
\* ready for the header of the next: InStep holds in every behaviour.
THEOREM Synchronised == FairSpec => []InStep
<1>1. Init => FInv
    BY FInvAtFirst
<1>2. FInv /\ [Next]_vars => FInv'
    BY FInvKept
<1>3. FInv => InStep
    BY FInvGivesInStep
<1> QED
    BY <1>1, <1>2, <1>3, PTL DEF FairSpec

\* No command costs a handle unless the card or the client's file system failed:
\* HandlesReturned holds in every behaviour.
THEOREM HandlesNotLost == FairSpec => []HandlesReturned
<1>1. Init => FInv
    BY FInvAtFirst
<1>2. FInv /\ [Next]_vars => FInv'
    BY FInvKept
<1>3. FInv => HandlesReturned
    BY FInvGivesHandlesReturned
<1> QED
    BY <1>1, <1>2, <1>3, PTL DEF FairSpec
=============================================================================
