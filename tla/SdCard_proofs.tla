---------------------------- MODULE SdCard_proofs ----------------------------
(***************************************************************************)
(* Proof that the driver of the SD card keeps the promise of BlockDevice,   *)
(* for blocks of any size, any delay of the card and any number of polls.   *)
(* The invariant says, for a card that is still there, what it has yet to   *)
(* send at every place of the driver: the byte that announces a block and   *)
(* the block, the rest of it, or the verdict on a block written.            *)
(***************************************************************************)
EXTENDS MC_Software, TLAPS

Byte == 0 .. 255
CardStates ==
    [in : BOOLEAN, sel : BOOLEAN, kind : Kinds, ready : BOOLEAN, out : Seq(Byte),
     job : {"none", "token", "data"}, got : Seq(Byte), then : Seq(Byte),
     stored : BOOLEAN, blocks : [Blocks -> Contents]]
CardStages == {"reset", "if_cond", "ocr", "app", "op_cond", "capacity", "csd", "read", "write"}

\* The card will send a token and then these data, or no token; the answer to
\* the command comes before the token.
TokenAt(bytes, n, data) ==
    /\ \A i \in 1 .. n : bytes[i] # 254
    /\ n < Len(bytes) =>
          /\ bytes[n + 1] = 254 /\ Len(bytes) > n + Len(data)
          /\ \A i \in 1 .. Len(data) : bytes[n + 1 + i] = data[i]
Announced(bytes, data) == \E n \in 0 .. Len(bytes) : TokenAt(bytes, n, data)
Answered(bytes, data) ==
    \E n \in 0 .. Len(bytes) :
        /\ TokenAt(bytes, n, data)
        /\ n < Len(bytes) => \E k \in 1 .. n : bytes[k] < 128
\* What has been read and what the card will send are these data.
Delivered(read, bytes, data) ==
    \A i \in 1 .. Len(data) :
        IF i <= Len(read) THEN read[i] = data[i]
        ELSE i - Len(read) <= Len(bytes) /\ bytes[i - Len(read)] = data[i]
\* The card will say whether it has accepted a block.
Verdict(bytes, accepted) ==
    \E n \in 0 .. Len(bytes) - 1 :
        /\ \A i \in 1 .. n : bytes[i] = 255
        /\ bytes[n + 1] \in IF accepted THEN {5, 229} ELSE {11, 13}

DriverTyped ==
    /\ card \in CardStates /\ op \in Card!Requests /\ usable \in BOOLEAN /\ stage \in CardStages
    /\ pc \in {"idle", "poll", "judge", "begin", "token", "data", "response", "busy"}
    /\ count \in Nat /\ retries \in Nat /\ response \in Byte /\ buf \in Seq(Nat)
    /\ result \in {"none", "OK", "ERR"}
Bounds ==
    /\ pc = "poll" => count = 0 \/ count < CmdPolls
    /\ pc \in {"judge", "begin"} => count <= CmdPolls + 1
    /\ pc \in {"token", "data"} => count <= TokenPolls + CsdPolls + 1
    /\ pc \in {"idle", "response", "busy"} => count = 0
    /\ stage = "reset" => retries <= ResetTries + 1
    /\ stage \in {"app", "op_cond"} => retries <= ReadyTries
    /\ stage \notin {"reset", "app", "op_cond"} => retries = 0
\* Where each request can be, and what the card is then busy with.
Progress ==
    /\ op.kind = "none" <=> pc = "idle"
    /\ pc \notin {"idle", "judge"} => card.sel
    /\ pc \in {"idle", "judge"} => ~card.sel /\ card.out = <<>>
    /\ op.kind # "write" => card.job = "none"
    /\ op.kind = "init" => /\ pc \in {"poll", "judge", "token", "data"}
                           /\ stage \notin {"read", "write"} /\ ~card.stored
                           /\ stage = "csd" <=> pc \in {"token", "data"}
    /\ op.kind = "read" => /\ pc \in {"poll", "begin", "token", "data"}
                           /\ stage = "read" /\ usable /\ ~card.stored
    /\ op.kind = "write" => /\ pc \in {"poll", "begin", "response", "busy"}
                            /\ stage = "write" /\ usable
                            /\ pc \in {"poll", "begin"} => ~card.stored
    /\ usable => card.kind = "blocks"
    /\ pc \in {"poll", "judge", "begin", "token"} => buf = <<>>
    /\ stage = "csd" /\ pc = "data" /\ buf # <<>> /\ buf[1] = 64 => card.kind = "blocks"
\* What the card has to send, if it is there.
Block == IF op.kind = "read" THEN card.blocks[op.nr] ELSE Card!CSD(card.kind)
Reads ==
    /\ op.kind = "read" /\ pc = "poll" => Answered(card.out, Block)
    /\ op.kind = "read" /\ pc \in {"begin", "token"} => Announced(card.out, Block)
    /\ stage = "csd" /\ pc = "token" => Announced(card.out, Block)
    /\ pc = "data" => Delivered(buf, card.out, Block)
NothingButLast(bytes) == \A i \in 1 .. Len(bytes) - 1 : bytes[i] = 255
NoZero(bytes) == \A i \in 1 .. Len(bytes) : bytes[i] # 0
Asked(c) ==
    \/ c.job = "token" /\ Verdict(c.then, Card!Accepts(c)) /\ NothingButLast(c.out)
    \/ c.job = "none" /\ NoZero(c.out)
Accepted(c) ==
    c.job = "token" /\ Verdict(c.then, Card!Accepts(c)) /\ c.out = <<>>
Filling(c) ==
    \/ /\ c.job = "data" /\ Verdict(c.then, Card!Accepts(c)) /\ ~c.stored
       /\ c.out = <<>> /\ c.got \in {op.data, Append(op.data, 255)}
    \/ c.job = "none" /\ Verdict(c.out, c.stored)
Writes ==
    op.kind = "write" =>
        /\ pc = "poll" => Asked(card)
        /\ pc = "begin" => card.job # "data" /\ (response = 0 => Accepted(card))
        /\ pc = "response" => Filling(card)
        /\ pc = "busy" => card.job = "none" /\ card.stored
CardInv ==
    /\ DriverTyped /\ Bounds /\ Progress
    /\ card.in => Reads /\ Writes

\* A step of the promised device, or none.
Keeps == [Card!Promised!Next]_(Card!Promised!vars)
-----------------------------------------------------------------------------
(* What the card sends, a byte further. *)

LEMMA BytesAreNumbers == Byte \subseteq Nat /\ 255 \in Byte /\ 254 \in Byte
    BY DEF Byte

LEMMA OneByteOn ==
    ASSUME NEW s \in Seq(Byte), s # <<>>
    PROVE  /\ Len(s) \in Nat \ {0} /\ Head(s) = s[1] /\ Head(s) \in Byte
           /\ Tail(s) \in Seq(Byte) /\ Len(Tail(s)) = Len(s) - 1
           /\ \A i \in 1 .. Len(s) - 1 : Tail(s)[i] = s[i + 1]
    OBVIOUS

\* Bytes that come late.
Delayed(d, bytes) == Card!Late(d) \o bytes
IsDelayed(s, d, bytes) ==
    /\ s \in Seq(Byte) /\ Len(s) = d + Len(bytes)
    /\ \A i \in 1 .. d : s[i] = 255
    /\ \A i \in 1 .. Len(bytes) : s[d + i] = bytes[i]

LEMMA LateBytes ==
    ASSUME NEW d \in Nat, NEW bytes \in Seq(Byte)
    PROVE  IsDelayed(Delayed(d, bytes), d, bytes)
<1>1. Card!Late(d) \in Seq(Byte) /\ Len(Card!Late(d)) = d /\ \A i \in 1 .. d : Card!Late(d)[i] = 255
    BY DEF Card!Late, Byte
<1> QED
    BY <1>1 DEF Delayed, IsDelayed

LEMMA TokenOn ==
    ASSUME NEW s \in Seq(Byte), s # <<>>, NEW data \in Seq(Byte), NEW n \in 1 .. Len(s),
           TokenAt(s, n, data)
    PROVE  n - 1 \in 0 .. Len(Tail(s)) /\ TokenAt(Tail(s), n - 1, data)
<1> DEFINE t == Tail(s)
<1>t. t \in Seq(Byte) /\ Len(t) = Len(s) - 1 /\ \A i \in 1 .. Len(s) - 1 : t[i] = s[i + 1]
    BY OneByteOn
<1> HIDE DEF t
<1>1. PICK m \in 0 .. Len(t) : n = m + 1
    BY <1>t
<1>2. \A i \in 1 .. m : t[i] # 254
    BY <1>1, <1>t DEF TokenAt
<1>3. ASSUME m < Len(t)
      PROVE  /\ t[m + 1] = 254 /\ Len(t) > m + Len(data)
             /\ \A i \in 1 .. Len(data) : t[m + 1 + i] = data[i]
    <2>1. Len(s) \in Nat /\ Len(data) \in Nat /\ n < Len(s)
        BY <1>1, <1>t, <1>3
    <2>2. s[n + 1] = 254 /\ Len(s) > n + Len(data) /\ \A i \in 1 .. Len(data) : s[n + 1 + i] = data[i]
        BY <2>1 DEF TokenAt
    <2>3. t[m + 1] = 254 /\ Len(t) > m + Len(data)
        BY <1>1, <1>t, <2>1, <2>2
    <2>4. ASSUME NEW i \in 1 .. Len(data) PROVE t[m + 1 + i] = data[i]
        <3>1. m + 1 + i \in 1 .. Len(s) - 1
            BY <1>1, <2>1, <2>3, <1>t
        <3>2. t[m + 1 + i] = s[n + 1 + i]
            BY <3>1, <1>1, <1>t
        <3> QED
            BY <3>2, <2>2
    <2> QED
        BY <2>3, <2>4
<1>4. TokenAt(t, m, data)
    BY <1>2, <1>3 DEF TokenAt
<1>5. n - 1 = m
    BY <1>1, <1>t
<1> QED
    BY <1>1, <1>4, <1>5 DEF t

LEMMA AnnouncedOn ==
    ASSUME NEW s \in Seq(Byte), s # <<>>, NEW data \in Seq(Byte), Announced(s, data)
    PROVE  /\ s[1] # 254 => Announced(Tail(s), data)
           /\ s[1] = 254 => Delivered(<<>>, Tail(s), data)
<1>1. PICK n \in 0 .. Len(s) : TokenAt(s, n, data)
    BY DEF Announced
<1>2. CASE n = 0
    <2>1. s[1] = 254 /\ Len(s) > Len(data) /\ \A i \in 1 .. Len(data) : s[1 + i] = data[i]
        BY <1>1, <1>2, OneByteOn DEF TokenAt
    <2>2. Len(Tail(s)) = Len(s) - 1 /\ \A i \in 1 .. Len(s) - 1 : Tail(s)[i] = s[i + 1]
        BY OneByteOn
    <2> QED
        BY <2>1, <2>2 DEF Delivered
<1>3. CASE n # 0
    <2>1. n \in 1 .. Len(s) /\ s[1] # 254
        BY <1>1, <1>3 DEF TokenAt
    <2> QED
        BY <1>1, <2>1, TokenOn DEF Announced
<1> QED
    BY <1>2, <1>3

LEMMA AnsweredOn ==
    ASSUME NEW s \in Seq(Byte), s # <<>>, NEW data \in Seq(Byte), Answered(s, data)
    PROVE  Announced(Tail(s), data) /\ (s[1] >= 128 => Answered(Tail(s), data))
<1>1. PICK n \in 0 .. Len(s) :
            TokenAt(s, n, data) /\ (n < Len(s) => \E k \in 1 .. n : s[k] < 128)
    BY DEF Answered
<1>2. n \in 1 .. Len(s)
    BY <1>1, OneByteOn
<1>3. n - 1 \in 0 .. Len(Tail(s)) /\ TokenAt(Tail(s), n - 1, data)
    BY <1>1, <1>2, TokenOn
<1>4. ASSUME s[1] >= 128, n - 1 < Len(Tail(s)) PROVE \E k \in 1 .. n - 1 : Tail(s)[k] < 128
    <2>1. PICK k \in 1 .. n : s[k] < 128
        BY <1>1, <1>2, <1>4, OneByteOn
    <2>4. k # 1
        <3>1. PICK b \in Byte : b = s[1]
            BY OneByteOn
        <3>2. ASSUME b >= 128, b < 128 PROVE FALSE
            BY <3>2 DEF Byte
        <3>3. ASSUME k = 1 PROVE FALSE
            <4>1. b < 128
                BY <2>1, <3>1, <3>3, Zenon
            <4>2. b >= 128
                BY <1>4, <3>1, Zenon
            <4> QED
                BY <3>2, <4>1, <4>2, Zenon
        <3> QED
            BY <3>3
    <2>2. k - 1 \in 1 .. n - 1 /\ k - 1 \in 1 .. Len(s) - 1
        BY <1>2, <2>1, <2>4
    <2>3. Tail(s)[k - 1] = s[k]
        BY <2>2, OneByteOn
    <2> QED
        BY <2>1, <2>2, <2>3
<1> QED
    BY <1>3, <1>4 DEF Announced, Answered

LEMMA AnsweredAnnounces ==
    ASSUME NEW s, NEW data, Answered(s, data)
    PROVE  Announced(s, data)
    BY DEF Answered, Announced

LEMMA DeliveredOn ==
    ASSUME NEW read \in Seq(Nat), NEW s \in Seq(Byte), NEW data \in Seq(Byte),
           Delivered(read, s, data)
    PROVE  /\ s # <<>> => Delivered(Append(read, Head(s)), Tail(s), data)
           /\ s = <<>> => \A b \in Byte : Delivered(Append(read, b), s, data)
           /\ Len(read) >= Len(data) => \A i \in 1 .. Len(data) : read[i] = data[i]
<1>1. ASSUME s # <<>> PROVE Delivered(Append(read, Head(s)), Tail(s), data)
    <2>1. Append(read, Head(s)) \in Seq(Nat) /\ Len(Append(read, Head(s))) = Len(read) + 1
          /\ Append(read, Head(s))[Len(read) + 1] = s[1]
          /\ \A i \in 1 .. Len(read) : Append(read, Head(s))[i] = read[i]
        <3>1. Head(s) \in Nat /\ Head(s) = s[1]
            BY <1>1, OneByteOn, BytesAreNumbers
        <3> QED
            BY <3>1
    <2> SUFFICES ASSUME NEW i \in 1 .. Len(data)
                 PROVE  IF i <= Len(read) + 1 THEN Append(read, Head(s))[i] = data[i]
                        ELSE i - (Len(read) + 1) <= Len(Tail(s))
                             /\ Tail(s)[i - (Len(read) + 1)] = data[i]
        BY <2>1 DEF Delivered
    <2>2. CASE i <= Len(read)
        BY <2>1, <2>2 DEF Delivered
    <2>3. CASE i = Len(read) + 1
        BY <2>1, <2>3 DEF Delivered
    <2>4. CASE i > Len(read) + 1
        <3>1. i - Len(read) <= Len(s) /\ s[i - Len(read)] = data[i]
            BY <2>4 DEF Delivered
        <3>2. i - Len(read) - 1 \in 1 .. Len(s) - 1
            BY <2>4, <3>1, <1>1, OneByteOn
        <3>3. Tail(s)[i - Len(read) - 1] = s[i - Len(read)]
            BY <3>2, <1>1, OneByteOn
        <3> QED
            BY <2>4, <3>1, <3>2, <3>3, <1>1, OneByteOn
    <2> QED
        BY <2>2, <2>3, <2>4
<1>2. ASSUME s = <<>>, NEW b \in Byte PROVE Delivered(Append(read, b), s, data)
    BY <1>2 DEF Delivered, Byte
<1>3. Len(read) >= Len(data) => \A i \in 1 .. Len(data) : read[i] = data[i]
    BY DEF Delivered
<1> QED
    BY <1>1, <1>2, <1>3

LEMMA VerdictOn ==
    ASSUME NEW s \in Seq(Byte), NEW accepted \in BOOLEAN, Verdict(s, accepted)
    PROVE  /\ s # <<>>
           /\ \/ s[1] = 255 /\ Verdict(Tail(s), accepted)
              \/ s[1] \in IF accepted THEN {5, 229} ELSE {11, 13}
<1>1. PICK n \in 0 .. Len(s) - 1 :
            /\ \A i \in 1 .. n : s[i] = 255
            /\ s[n + 1] \in IF accepted THEN {5, 229} ELSE {11, 13}
    BY DEF Verdict
<1>2. s # <<>>
    BY <1>1
<1>3. CASE n = 0
    BY <1>1, <1>2, <1>3
<1>4. CASE n >= 1
    <2>1. s[1] = 255 /\ n - 1 \in 0 .. Len(Tail(s)) - 1
        BY <1>1, <1>2, <1>4, OneByteOn
    <2>2. /\ \A i \in 1 .. n - 1 : Tail(s)[i] = 255
          /\ Tail(s)[(n - 1) + 1] \in IF accepted THEN {5, 229} ELSE {11, 13}
        BY <1>1, <1>2, <1>4, OneByteOn
    <2> QED
        BY <1>2, <2>1, <2>2 DEF Verdict
<1> QED
    BY <1>1, <1>3, <1>4
-----------------------------------------------------------------------------
(* The card. *)

\* Two states of the card that differ in what they send only.
SameCard(c, d) ==
    /\ d.in = c.in /\ d.kind = c.kind /\ d.stored = c.stored /\ d.blocks = c.blocks

LEMMA CardTyped ==
    ASSUME NEW c \in CardStates
    PROVE  /\ c.in \in BOOLEAN /\ c.sel \in BOOLEAN /\ c.kind \in Kinds /\ c.ready \in BOOLEAN
           /\ c.out \in Seq(Byte) /\ c.job \in {"none", "token", "data"} /\ c.got \in Seq(Byte)
           /\ c.then \in Seq(Byte) /\ c.stored \in BOOLEAN /\ c.blocks \in [Blocks -> Contents]
    BY DEF CardStates

\* A byte exchanged while the card is not filled.
LEMMA ClockReads ==
    ASSUME NEW c \in CardStates, NEW b, c.job # "data" \/ c.out # <<>> \/ ~c.in
    PROVE  /\ Card!Clock(c, b) \in CardStates /\ SameCard(c, Card!Clock(c, b))
           /\ Card!Clock(c, b).sel = c.sel /\ Card!Clock(c, b).job = c.job
           /\ Card!Clock(c, b).then = c.then /\ Card!Clock(c, b).got = c.got
           /\ c.in /\ c.sel /\ c.out # <<>> => Card!Clock(c, b).out = Tail(c.out)
           /\ c.in /\ c.sel /\ c.out = <<>> => Card!Clock(c, b).out = <<>>
           /\ c.out = <<>> => Card!Clock(c, b).out = <<>>
<1>1. CASE c.in /\ c.sel /\ c.out # <<>>
    <2>1. Card!Clock(c, b) = [c EXCEPT !.out = Tail(c.out)]
        BY <1>1 DEF Card!Clock
    <2>2. Tail(c.out) \in Seq(Byte)
        BY <1>1, CardTyped, OneByteOn
    <2> QED
        BY <1>1, <2>1, <2>2 DEF CardStates, SameCard
<1>2. CASE ~(c.in /\ c.sel /\ c.out # <<>>)
    <2>1. Card!Clock(c, b) = c
        BY <1>2 DEF Card!Clock
    <2> QED
        BY <1>2, <2>1 DEF SameCard
<1> QED
    BY <1>1, <1>2

LEMMA OutIsByte ==
    ASSUME NEW c \in CardStates
    PROVE  /\ Card!Out(c) \in Byte
           /\ c.in /\ c.sel /\ c.out # <<>> => Card!Out(c) = c.out[1]
           /\ ~(c.in /\ c.sel /\ c.out # <<>>) => Card!Out(c) = 255
    BY CardTyped, OneByteOn, BytesAreNumbers DEF Card!Out

LEMMA SelectTyped ==
    ASSUME NEW c \in CardStates
    PROVE  /\ Card!bios_sd_select(c) \in CardStates /\ SameCard(c, Card!bios_sd_select(c))
           /\ Card!bios_sd_select(c).sel /\ Card!bios_sd_select(c).out = c.out
           /\ Card!bios_sd_select(c).job = c.job /\ Card!bios_sd_select(c).got = c.got
           /\ Card!bios_sd_select(c).then = c.then
    BY DEF Card!bios_sd_select, CardStates, SameCard

LEMMA DeselectTyped ==
    ASSUME NEW c \in CardStates
    PROVE  /\ Card!bios_sd_deselect(c) \in CardStates /\ SameCard(c, Card!bios_sd_deselect(c))
           /\ ~Card!bios_sd_deselect(c).sel /\ Card!bios_sd_deselect(c).out = <<>>
           /\ Card!bios_sd_deselect(c).job = "none" /\ Card!bios_sd_deselect(c).got = <<>>
<1>1. <<>> \in Seq(Byte)
    OBVIOUS
<1>2. Card!bios_sd_deselect(c) \in CardStates
    BY <1>1 DEF Card!bios_sd_deselect, CardStates
<1>3. SameCard(c, Card!bios_sd_deselect(c))
    BY DEF Card!bios_sd_deselect, CardStates, SameCard
<1>4. /\ ~Card!bios_sd_deselect(c).sel /\ Card!bios_sd_deselect(c).out = <<>>
      /\ Card!bios_sd_deselect(c).job = "none" /\ Card!bios_sd_deselect(c).got = <<>>
    BY DEF Card!bios_sd_deselect, CardStates
<1> QED
    BY <1>2, <1>3, <1>4

\* Answers that differ in their delay only.
LEMMA SaysTyped ==
    ASSUME NEW c \in CardStates, NEW bytes \in Seq(Byte), NEW x \in Card!Says(c, bytes)
    PROVE  \E d \in Nat : /\ x.out = Delayed(d, bytes) /\ x \in CardStates /\ SameCard(c, x)
                         /\ x.sel = c.sel /\ x.job = c.job /\ x.got = c.got
<1>1. PICK d \in Delays : x = [c EXCEPT !.out = Delayed(d, bytes)]
    BY DEF Card!Says, Delayed
<1>2. d \in Nat /\ Delayed(d, bytes) \in Seq(Byte)
    BY CardAssumption, LateBytes DEF IsDelayed
<1> QED
    BY <1>1, <1>2 DEF CardStates, SameCard

\* Bytes without a token announce nothing.
LEMMA NothingAnnounced ==
    ASSUME NEW d \in Nat, NEW bytes \in Seq(Byte), NEW data,
           \A i \in 1 .. Len(bytes) : bytes[i] # 254
    PROVE  Answered(Delayed(d, bytes), data)
<1> DEFINE s == Delayed(d, bytes)
<1>0. IsDelayed(s, d, bytes)
    BY LateBytes
<1> HIDE DEF s
<1>1. /\ s \in Seq(Byte) /\ Len(s) = d + Len(bytes) /\ \A i \in 1 .. d : s[i] = 255
      /\ \A i \in 1 .. Len(bytes) : s[d + i] = bytes[i]
    BY <1>0 DEF IsDelayed
<1>2. ASSUME NEW i \in 1 .. Len(s) PROVE s[i] # 254
    <2>1. CASE i <= d
        BY <1>1, <2>1
    <2>2. CASE i > d
        <3>1. i - d \in 1 .. Len(bytes) /\ i = d + (i - d)
            BY <1>1, <2>2
        <3>2. s[d + (i - d)] = bytes[i - d] /\ bytes[i - d] # 254
            BY <3>1, <1>1
        <3> QED
            BY <3>1, <3>2
    <2> QED
        BY <2>1, <2>2
<1>3. Answered(s, data)
    BY <1>1, <1>2 DEF Answered, TokenAt
<1> QED
    BY <1>3 DEF s

IsJoin(s, a, b) ==
    /\ s \in Seq(Byte) /\ Len(s) = Len(a) + Len(b)
    /\ \A i \in 1 .. Len(a) : s[i] = a[i]
    /\ \A i \in 1 .. Len(b) : s[Len(a) + i] = b[i]
LEMMA Joined ==
    ASSUME NEW a \in Seq(Byte), NEW b \in Seq(Byte)
    PROVE  IsJoin(a \o b, a, b)
    BY DEF IsJoin

\* Data with the token before them.
LEMMA DataBytes ==
    ASSUME NEW data \in Seq(Byte)
    PROVE  /\ Card!WithToken(data) \in Seq(Byte) /\ Len(Card!WithToken(data)) = Len(data) + 5
           /\ Card!WithToken(data)[1] = 0 /\ Card!WithToken(data)[2] = 255 /\ Card!WithToken(data)[3] = 254
           /\ \A i \in 1 .. Len(data) : Card!WithToken(data)[3 + i] = data[i]
<1> DEFINE head == <<0, 255, 254>>
<1>1. /\ head \in Seq(Byte) /\ Len(head) = 3
      /\ head[1] = 0 /\ head[2] = 255 /\ head[3] = 254
      /\ Card!Crc \in Seq(Byte) /\ Len(Card!Crc) = 2
    BY DEF Byte, Card!Crc
<1> HIDE DEF head
<1> DEFINE a == head \o data
<1>2. IsJoin(a, head, data)
    BY <1>1, Joined
<1> HIDE DEF a
<1> DEFINE t == a \o Card!Crc
<1>3. IsJoin(t, a, Card!Crc)
    <2>1. a \in Seq(Byte)
        BY <1>2 DEF IsJoin
    <2> QED
        BY <1>1, <2>1, Joined
<1> HIDE DEF t
<1>4. /\ t \in Seq(Byte) /\ Len(t) = Len(data) + 5
      /\ t[1] = 0 /\ t[2] = 255 /\ t[3] = 254
      /\ \A i \in 1 .. Len(data) : t[3 + i] = data[i]
    BY <1>1, <1>2, <1>3 DEF IsJoin
<1> QED
    BY <1>4 DEF t, a, head, Card!WithToken

LEMMA DataAnnounced ==
    ASSUME NEW d \in Nat, NEW data \in Seq(Byte)
    PROVE  Answered(Delayed(d, Card!WithToken(data)), data)
<1> DEFINE bytes == Card!WithToken(data)
           s == Delayed(d, bytes)
<1>1. /\ bytes \in Seq(Byte) /\ Len(bytes) = Len(data) + 5
      /\ bytes[1] = 0 /\ bytes[2] = 255 /\ bytes[3] = 254
      /\ \A i \in 1 .. Len(data) : bytes[3 + i] = data[i]
    BY DataBytes
<1> HIDE DEF bytes
<1>2. IsDelayed(s, d, bytes)
    BY <1>1, LateBytes
<1> HIDE DEF s
<1>3. /\ s \in Seq(Byte) /\ Len(s) = d + Len(data) + 5 /\ (\A i \in 1 .. d : s[i] = 255)
      /\ \A i \in 1 .. Len(bytes) : s[d + i] = bytes[i]
    BY <1>1, <1>2 DEF IsDelayed
<1>4. PICK n \in 0 .. Len(s) : n = d + 2
    BY <1>3
<1>5. \A i \in 1 .. n : s[i] # 254
    <2> SUFFICES ASSUME NEW i \in 1 .. n PROVE s[i] # 254
        OBVIOUS
    <2>1. i \in 1 .. d \/ i = d + 1 \/ i = d + 2
        BY <1>4
    <2>2. s[d + 1] = 0 /\ s[d + 2] = 255
        BY <1>1, <1>3
    <2> QED
        BY <2>1, <2>2, <1>3
<1>6. s[n + 1] = 254 /\ Len(s) > n + Len(data)
    <2>1. s[d + 3] = 254
        BY <1>1, <1>3
    <2> QED
        BY <2>1, <1>3, <1>4
<1>7. ASSUME NEW i \in 1 .. Len(data) PROVE s[n + 1 + i] = data[i]
    <2>1. 3 + i \in 1 .. Len(bytes) /\ n + 1 + i = d + (3 + i)
        BY <1>1, <1>4
    <2>2. s[d + (3 + i)] = bytes[3 + i] /\ bytes[3 + i] = data[i]
        BY <2>1, <1>1, <1>3
    <2> QED
        BY <2>1, <2>2
<1>8. TokenAt(s, n, data)
    BY <1>5, <1>6, <1>7 DEF TokenAt
<1>9. s[d + 1] < 128 /\ d + 1 \in 1 .. n
    BY <1>1, <1>3, <1>4
<1>10. Answered(s, data)
    BY <1>8, <1>9 DEF Answered
<1> QED
    BY <1>10 DEF s, bytes

LEMMA BytesInRow ==
    ASSUME NEW n \in Nat, NEW s \in [1 .. n -> Byte]
    PROVE  s \in Seq(Byte) /\ Len(s) = n
    OBVIOUS

LEMMA BlocksAreBytes ==
    ASSUME NEW c \in CardStates, NEW nr \in Blocks
    PROVE  c.blocks[nr] \in Seq(Byte) /\ Len(c.blocks[nr]) = BlockBytes
<1>1. c.blocks[nr] \in [1 .. BlockBytes -> Byte] /\ BlockBytes \in Nat
    BY CardTyped, CardAssumption DEF Byte
<1> QED
    BY <1>1

LEMMA CsdIsBytes ==
    ASSUME NEW kind
    PROVE  /\ Card!CSD(kind) \in Seq(Byte) /\ Len(Card!CSD(kind)) = 16
           /\ Card!CSD(kind)[1] = IF kind = "blocks" THEN 64 ELSE 0
           /\ Card!CSD(kind)[8] = 1 /\ Card!CSD(kind)[9] = 2 /\ Card!CSD(kind)[10] = 3
<1>1. \A i \in 1 .. 16 : Card!CSD(kind)[i] \in Byte
    BY DEF Card!CSD, Card!csize, Byte
<1>2. Card!CSD(kind) = [i \in 1 .. 16 |-> Card!CSD(kind)[i]]
    BY DEF Card!CSD
<1>3. Card!CSD(kind) \in [1 .. 16 -> Byte]
    BY <1>1, <1>2
<1>4. /\ Card!CSD(kind)[1] = IF kind = "blocks" THEN 64 ELSE 0
      /\ Card!CSD(kind)[8] = 1 /\ Card!CSD(kind)[9] = 2 /\ Card!CSD(kind)[10] = 3
    BY DEF Card!CSD, Card!csize
<1>5. Card!CSD(kind) \in Seq(Byte) /\ Len(Card!CSD(kind)) = 16
    BY <1>3, BytesInRow
<1> QED
    BY <1>4, <1>5

\* What a card may say of a block it is given.
LEMMA VerdictGiven ==
    ASSUME NEW d \in Nat, NEW a \in Card!Verdicts, NEW x, x.then = Delayed(d, a)
    PROVE  /\ x.then \in Seq(Byte) /\ Card!Accepts(x) \in BOOLEAN
           /\ Verdict(x.then, Card!Accepts(x))
<1> DEFINE s == Delayed(d, a)
<1>1. a \in Seq(Byte) /\ Len(a) >= 1 /\ a[1] \in {5, 229, 11, 13}
      /\ (a[1] \in {11, 13} => Len(a) = 1)
    <2>1. CASE a = <<229, 0, 0, 1>>
        BY <2>1 DEF Byte
    <2>2. CASE a = <<5>>
        BY <2>2 DEF Byte
    <2>3. CASE a = <<11>>
        BY <2>3 DEF Byte
    <2>4. CASE a = <<13>>
        BY <2>4 DEF Byte
    <2> QED
        BY <2>1, <2>2, <2>3, <2>4 DEF Card!Verdicts
<1>2. IsDelayed(s, d, a)
    BY <1>1, LateBytes
<1>3. x.then = s
    OBVIOUS
<1> HIDE DEF s
<1>4. /\ s \in Seq(Byte) /\ Len(s) = d + Len(a) /\ Len(a) \in Nat /\ \A i \in 1 .. d : s[i] = 255
      /\ s[d + 1] = a[1]
    <2>1. s[d + 1] = a[1]
        BY <1>1, <1>2 DEF IsDelayed
    <2> QED
        BY <1>1, <1>2, <2>1 DEF IsDelayed
<1>5. Card!Accepts(x) <=> \E i \in 1 .. Len(s) : s[i] \in {5, 229}
    BY <1>3, <1>4 DEF Card!Accepts
<1>6. CASE a[1] \in {5, 229}
    <2>1. d + 1 \in 1 .. Len(s) /\ s[d + 1] \in {5, 229}
        BY <1>1, <1>4, <1>6
    <2>2. Card!Accepts(x)
        BY <2>1, <1>5
    <2>3. Verdict(s, TRUE)
        BY <1>1, <1>4, <2>1 DEF Verdict
    <2> QED
        BY <2>2, <2>3, <1>3, <1>4 DEF Card!Accepts
<1>7. CASE a[1] \in {11, 13}
    <2>0. Len(s) = d + 1
        BY <1>1, <1>4, <1>7
    <2>1. \A i \in 1 .. Len(s) : i \in 1 .. d \/ i = d + 1
        BY <2>0
    <2>2. \A i \in 1 .. Len(s) : s[i] \notin {5, 229}
        BY <2>1, <1>4, <1>7
    <2>3. Card!Accepts(x) = FALSE
        BY <2>2, <1>5 DEF Card!Accepts
    <2>4. Verdict(s, FALSE)
        BY <1>1, <1>4, <1>7 DEF Verdict
    <2> QED
        BY <2>3, <2>4, <1>3, <1>4
<1> QED
    BY <1>1, <1>6, <1>7

\* An answer changes what the card sends, not what it is.
Answers(c, x) == x \in CardStates /\ SameCard(c, x) /\ x.sel = c.sel /\ x.got = c.got

\* What an answer is like at the end of each command.
LEMMA SaysAnswers ==
    ASSUME NEW c \in CardStates, NEW bytes \in Seq(Byte), NEW x \in Card!Says(c, bytes)
    PROVE  Answers(c, x) /\ x.job = c.job
    BY SaysTyped DEF Answers

\* The short answers.
Short == {<<0>>, <<1>>, <<5>>, <<0, 8>>, <<64>>, <<0, 0, 0, 1, 170>>, <<1, 0, 0, 1, 170>>,
          <<0, 0, 0, 0, 0>>, <<1, 0, 0, 0, 0>>}

LEMMA ShortBytes ==
    ASSUME NEW bytes \in Short
    PROVE  bytes \in Seq(Byte) /\ \A i \in 1 .. Len(bytes) : bytes[i] # 254
<1>1. ASSUME NEW b \in {0, 1, 5, 64}, bytes = <<b>>
      PROVE  bytes \in Seq(Byte) /\ \A i \in 1 .. Len(bytes) : bytes[i] # 254
    BY <1>1 DEF Byte
<1>2. CASE bytes = <<0, 8>>
    BY <1>2 DEF Byte
<1>3. CASE bytes = <<0, 0, 0, 1, 170>>
    BY <1>3 DEF Byte
<1>4. CASE bytes = <<1, 0, 0, 1, 170>>
    BY <1>4 DEF Byte
<1>5. CASE bytes = <<0, 0, 0, 0, 0>>
    BY <1>5 DEF Byte
<1>6. CASE bytes = <<1, 0, 0, 0, 0>>
    BY <1>6 DEF Byte
<1> QED
    BY <1>1, <1>2, <1>3, <1>4, <1>5, <1>6 DEF Short

LEMMA SaysSilently ==
    ASSUME NEW c \in CardStates, NEW bytes \in Seq(Byte), NEW x \in Card!Says(c, bytes), NEW data,
           \A i \in 1 .. Len(bytes) : bytes[i] # 254
    PROVE  Answered(x.out, data)
<1>1. PICK d \in Nat : x.out = Delayed(d, bytes)
    BY SaysTyped
<1>2. Answered(Delayed(d, bytes), data)
    BY NothingAnnounced
<1> QED
    BY <1>1, <1>2, Zenon

LEMMA SaysData ==
    ASSUME NEW c \in CardStates, NEW data \in Seq(Byte), NEW x \in Card!Says(c, Card!WithToken(data))
    PROVE  Answers(c, x) /\ x.job = c.job /\ Answered(x.out, data)
<1>1. Card!WithToken(data) \in Seq(Byte)
    BY DataBytes
<1>2. PICK d \in Nat : x.out = Delayed(d, Card!WithToken(data))
    BY <1>1, SaysTyped
<1>3. Answered(Delayed(d, Card!WithToken(data)), data)
    BY DataAnnounced
<1>4. Answered(x.out, data)
    BY <1>2, <1>3, Zenon
<1> QED
    BY <1>1, <1>4, SaysAnswers

LEMMA ReadAnswer ==
    ASSUME NEW c \in CardStates, NEW nr \in Blocks, card.kind = "blocks",
           NEW x \in Card!Answer(c, 17, nr)
    PROVE  Answers(c, x) /\ x.job = c.job /\ Answered(x.out, c.blocks[nr])
<1>1. \/ x \in Card!Says(c, <<5>>) \/ x \in Card!Says(c, <<0, 8>>) \/ x \in Card!Says(c, <<64>>)
      \/ x \in Card!Says(c, Card!WithToken(c.blocks[nr]))
    <2>1. Card!Addressed(nr) = nr
        BY DEF Card!Addressed
    <2>2. CASE ~c.ready
        BY <2>2 DEF Card!Answer
    <2>3. CASE c.ready
        BY <2>1, <2>3 DEF Card!Answer
    <2> QED
        BY <2>2, <2>3
<1>2. ASSUME NEW bytes \in {<< 5 >>, <<0, 8>>, << 64 >>}, x \in Card!Says(c, bytes)
      PROVE  Answers(c, x) /\ x.job = c.job /\ Answered(x.out, c.blocks[nr])
    <2>1. bytes \in Short
        BY DEF Short
    <2> QED
        BY <1>2, <2>1, ShortBytes, SaysAnswers, SaysSilently
<1>3. c.blocks[nr] \in Seq(Byte)
    BY BlocksAreBytes
<1> QED
    BY <1>1, <1>2, <1>3, SaysData

LEMMA CsdAnswer ==
    ASSUME NEW c \in CardStates, NEW nr, NEW x \in Card!Answer(c, 9, nr)
    PROVE  Answers(c, x) /\ x.job = c.job /\ Answered(x.out, Card!CSD(c.kind))
<1>1. x \in Card!Says(c, <<5>>) \/ x \in Card!Says(c, Card!WithToken(Card!CSD(c.kind)))
    BY DEF Card!Answer
<1>2. ASSUME NEW bytes \in {<< 5 >>}, x \in Card!Says(c, bytes)
      PROVE  Answers(c, x) /\ x.job = c.job /\ Answered(x.out, Card!CSD(c.kind))
    <2>1. bytes \in Seq(Byte) /\ \A i \in 1 .. Len(bytes) : bytes[i] # 254
        <3>1. bytes \in Short
            BY DEF Short
        <3> QED
            BY <3>1, ShortBytes
    <2>2. Answers(c, x) /\ x.job = c.job
        BY <1>2, <2>1, SaysAnswers
    <2>3. Answered(x.out, Card!CSD(c.kind))
        BY <1>2, <2>1, SaysSilently
    <2> QED
        BY <2>2, <2>3
<1> QED
    BY <1>1, <1>2, CsdIsBytes, SaysData

LEMMA ShortAnswer ==
    ASSUME NEW c \in CardStates, NEW bytes \in Short, NEW y \in Card!Says(c, bytes),
           NEW r \in BOOLEAN
    PROVE  /\ Answers(c, y) /\ y.job = c.job
           /\ Answers(c, [y EXCEPT !.ready = r]) /\ [y EXCEPT !.ready = r].job = c.job
<1>1. Answers(c, y) /\ y.job = c.job
    BY ShortBytes, SaysAnswers
<1> QED
    BY <1>1 DEF Answers, SameCard, CardStates

LEMMA OtherAnswer ==
    ASSUME NEW c \in CardStates, NEW cmd \in {0, 8, 58, 55, 41}, NEW nr,
           NEW x \in Card!Answer(c, cmd, nr)
    PROVE  Answers(c, x) /\ x.job = c.job
<1>1. Answers(c, c) /\ TRUE \in BOOLEAN /\ FALSE \in BOOLEAN
    BY DEF Answers, SameCard
<1>2. CASE cmd = 0
    <2>1. x = c \/ \E y \in Card!Says(c, <<1>>) : x = [y EXCEPT !.ready = FALSE]
        BY <1>2 DEF Card!Answer
    <2>2. <<1>> \in Short
        BY DEF Short
    <2>3. ASSUME NEW y \in Card!Says(c, << 1 >>), x = [y EXCEPT !.ready = FALSE]
          PROVE  Answers(c, x) /\ x.job = c.job
        BY <1>1, <2>2, <2>3, ShortAnswer
    <2> QED
        BY <1>1, <2>1, <2>3
<1>3. CASE cmd = 8
    <2>1. x \in Card!Says(c, IF c.kind = "v1" THEN <<5>> ELSE <<Card!R1(c), 0, 0, 1, 170>>)
        BY <1>3 DEF Card!Answer
    <2>2. (IF c.kind = "v1" THEN <<5>> ELSE <<Card!R1(c), 0, 0, 1, 170>>) \in Short
        BY DEF Short, Card!R1
    <2> QED
        BY <1>1, <2>1, <2>2, ShortAnswer
<1>4. CASE cmd = 58
    <2>1. x \in Card!Says(c, <<Card!R1(c), 0, 0, 0, 0>>)
        BY <1>4 DEF Card!Answer
    <2>2. <<Card!R1(c), 0, 0, 0, 0>> \in Short
        BY DEF Short, Card!R1
    <2> QED
        BY <1>1, <2>1, <2>2, ShortAnswer
<1>5. CASE cmd = 55
    <2>1. x \in Card!Says(c, <<Card!R1(c)>>)
        BY <1>5 DEF Card!Answer
    <2>2. <<Card!R1(c)>> \in Short
        BY DEF Short, Card!R1
    <2> QED
        BY <1>1, <2>1, <2>2, ShortAnswer
<1>6. CASE cmd = 41
    <2>1. x \in Card!Says(c, <<1>>) \/ \E y \in Card!Says(c, <<0>>) : x = [y EXCEPT !.ready = TRUE]
        BY <1>6 DEF Card!Answer
    <2>2. <<1>> \in Short /\ <<0>> \in Short
        BY DEF Short
    <2>3. ASSUME NEW y \in Card!Says(c, << 0 >>), x = [y EXCEPT !.ready = TRUE]
          PROVE  Answers(c, x) /\ x.job = c.job
        BY <1>1, <2>2, <2>3, ShortAnswer
    <2> QED
        BY <1>1, <2>1, <2>2, <2>3, ShortAnswer
<1> QED
    BY <1>2, <1>3, <1>4, <1>5, <1>6

\* A late single byte is the last of the answer.
LEMMA LateByte ==
    ASSUME NEW d \in Nat, NEW b \in Byte
    PROVE  NothingButLast(Delayed(d, <<b>>)) /\ (b # 0 => NoZero(Delayed(d, <<b>>)))
<1> DEFINE s == Delayed(d, <<b>>)
<1>0. <<b>> \in Seq(Byte)
    OBVIOUS
<1>1. IsDelayed(s, d, <<b>>)
    BY <1>0, LateBytes
<1> HIDE DEF s
<1>2. Len(s) = d + 1 /\ (\A i \in 1 .. d : s[i] = 255) /\ s[d + 1] = b
    BY <1>1 DEF IsDelayed
<1>3. NothingButLast(s)
    BY <1>2 DEF NothingButLast
<1>4. b # 0 => NoZero(s)
    <2>1. \A i \in 1 .. Len(s) : i \in 1 .. d \/ i = d + 1
        BY <1>2
    <2> QED
        BY <1>2, <2>1 DEF NoZero
<1> QED
    BY <1>3, <1>4 DEF s

LEMMA WriteAnswer ==
    ASSUME NEW c \in CardStates, c.job = "none", NEW nr, NEW x \in Card!Answer(c, 24, nr)
    PROVE  Answers(c, x) /\ Asked(x)
<1>1. \/ x \in Card!Says(c, <<5>>) \/ x \in Card!Says(c, <<64>>)
      \/ \E y \in Card!Says(c, <<0>>), d \in Delays, a \in Card!Verdicts :
            x = [y EXCEPT !.job = "token", !.then = Delayed(d, a)]
    <2>1. ASSUME ~c.ready PROVE x \in Card!Says(c, <<5>>)
        BY <2>1 DEF Card!Answer
    <2>2. ASSUME c.ready
          PROVE  x \in Card!Takes(c) \/ x \in Card!Says(c, <<64>>)
        BY <2>2 DEF Card!Answer
    <2>3. ASSUME x \in Card!Takes(c)
          PROVE  \E y \in Card!Says(c, <<0>>), d \in Delays, a \in Card!Verdicts :
                    x = [y EXCEPT !.job = "token", !.then = Delayed(d, a)]
        <3>1. \E y \in Card!Says(c, <<0>>), d \in Delays, a \in Card!Verdicts :
                  x = Card!Taking(y, d, a)
            BY <2>3 DEF Card!Takes
        <3> QED
            BY <3>1 DEF Card!Taking, Delayed
    <2> QED
        BY <2>1, <2>2, <2>3
<1>2. ASSUME NEW b \in {5, 64}, x \in Card!Says(c, <<b>>) PROVE Answers(c, x) /\ Asked(x)
    <2>1. <<b>> \in Short /\ b \in Byte /\ b # 0
        BY DEF Short, Byte
    <2>2. Answers(c, x) /\ x.job = "none"
        BY <1>2, <2>1, ShortBytes, SaysAnswers
    <2>3. PICK d \in Nat : x.out = Delayed(d, <<b>>)
        BY <1>2, <2>1, ShortBytes, SaysTyped
    <2>4. NoZero(x.out)
        BY <2>1, <2>3, LateByte, Zenon
    <2> QED
        BY <2>2, <2>4 DEF Asked
<1>3. ASSUME NEW y \in Card!Says(c, << 0 >>), NEW d \in Delays, NEW a \in Card!Verdicts,
             x = [y EXCEPT !.job = "token", !.then = Delayed(d, a)]
      PROVE  Answers(c, x) /\ Asked(x)
    <2>1. <<0>> \in Short /\ 0 \in Byte /\ d \in Nat
        BY CardAssumption DEF Short, Byte
    <2>2. Answers(c, y)
        BY <2>1, ShortBytes, SaysAnswers
    <2>3. PICK e \in Nat : y.out = Delayed(e, <<0>>)
        BY <2>1, ShortBytes, SaysTyped
    <2>4. NothingButLast(y.out)
        BY <2>1, <2>3, LateByte, Zenon
    <2>5. /\ x.then = Delayed(d, a) /\ x.out = y.out /\ x.job = "token" /\ x.sel = y.sel
          /\ x.got = y.got /\ SameCard(c, x)
        BY <1>3, <2>2 DEF Answers, CardStates, SameCard
    <2>6. x.then \in Seq(Byte) /\ Verdict(x.then, Card!Accepts(x))
        BY <2>1, <2>5, VerdictGiven
    <2>7. x \in CardStates
        BY <1>3, <2>2, <2>5, <2>6 DEF Answers, CardStates
    <2> QED
        BY <2>2, <2>4, <2>5, <2>6, <2>7 DEF Asked, Answers
<1> QED
    BY <1>1, <1>2, <1>3

\* The card after a command, and what it will then send.
LEMMA CommandSent ==
    ASSUME NEW c \in CardStates, c.job = "none", NEW s \in CardStages, Card!Command(c, s),
           s = "read" => card.kind = "blocks" /\ op'.nr \in Blocks
    PROVE  /\ card' \in CardStates /\ SameCard(c, card') /\ card'.sel
           /\ s # "write" => card'.job = "none"
           /\ c.in => /\ s = "read" => Answered(card'.out, c.blocks[op'.nr])
                      /\ s = "csd" => Announced(card'.out, Card!CSD(c.kind))
                      /\ s = "write" => Asked(card')
           /\ stage' = s /\ pc' = (IF s = "csd" THEN "token" ELSE "poll") /\ count' = 0
<1> DEFINE on == Card!bios_sd_select(c)
<1>1. /\ on \in CardStates /\ SameCard(c, on) /\ on.sel /\ on.out = c.out /\ on.job = "none"
      /\ on.in = c.in /\ on.kind = c.kind /\ on.blocks = c.blocks
    BY SelectTyped DEF SameCard
<1>2. /\ stage' = s /\ pc' = (IF s = "csd" THEN "token" ELSE "poll") /\ count' = 0
      /\ card' \in IF on.in THEN Card!Answer(on, Card!CMD[s], op'.nr) ELSE {on}
    BY DEF Card!Command
<1> HIDE DEF on
<1> SUFFICES /\ card' \in CardStates /\ SameCard(c, card') /\ card'.sel
             /\ s # "write" => card'.job = "none"
             /\ c.in => /\ s = "read" => Answered(card'.out, c.blocks[op'.nr])
                        /\ s = "csd" => Announced(card'.out, Card!CSD(c.kind))
                        /\ s = "write" => Asked(card')
    BY <1>2
<1>3. CASE ~c.in
    <2>1. card' = on
        BY <1>1, <1>2, <1>3
    <2> QED
        BY <1>1, <1>3, <2>1
<1>4. ASSUME c.in PROVE card' \in Card!Answer(on, Card!CMD[s], op'.nr)
    BY <1>1, <1>2, <1>4
<1>5. ASSUME NEW x, Answers(on, x) PROVE x \in CardStates /\ SameCard(c, x) /\ x.sel
    BY <1>1, <1>5 DEF Answers, SameCard
<1>6. CASE c.in /\ s = "read"
    <2>1. Card!CMD[s] = 17
        BY <1>6 DEF Card!CMD
    <2>2. card' \in Card!Answer(on, 17, op'.nr) /\ card.kind = "blocks" /\ op'.nr \in Blocks
        BY <1>4, <1>6, <2>1
    <2>3. Answers(on, card') /\ card'.job = "none" /\ Answered(card'.out, c.blocks[op'.nr])
        BY <1>1, <2>2, ReadAnswer
    <2> QED
        BY <1>5, <1>6, <2>3
<1>7. CASE c.in /\ s = "csd"
    <2>1. Card!CMD[s] = 9
        BY <1>7 DEF Card!CMD
    <2>2. card' \in Card!Answer(on, 9, op'.nr)
        BY <1>4, <1>7, <2>1
    <2>3. Answers(on, card') /\ card'.job = "none" /\ Answered(card'.out, Card!CSD(c.kind))
        BY <1>1, <2>2, CsdAnswer
    <2> QED
        BY <1>5, <1>7, <2>3, AnsweredAnnounces
<1>8. CASE c.in /\ s = "write"
    <2>1. Card!CMD[s] = 24
        BY <1>8 DEF Card!CMD
    <2>2. card' \in Card!Answer(on, 24, op'.nr)
        BY <1>4, <1>8, <2>1
    <2>3. Answers(on, card') /\ Asked(card')
        BY <1>1, <2>2, WriteAnswer
    <2> QED
        BY <1>5, <1>8, <2>3
<1>9. CASE c.in /\ s \notin {"read", "csd", "write"}
    <2>1. Card!CMD[s] \in {0, 8, 58, 55, 41}
        BY <1>9 DEF Card!CMD, CardStages
    <2>2. Answers(on, card') /\ card'.job = "none"
        BY <1>1, <1>4, <1>9, <2>1, OtherAnswer
    <2> QED
        BY <1>5, <1>9, <2>2
<1> QED
    BY <1>3, <1>6, <1>7, <1>8, <1>9
-----------------------------------------------------------------------------
(* The calls. *)

LEMMA NoOpIsNone ==
    ASSUME NEW r \in Card!Requests
    PROVE  /\ r = Card!NoOp <=> r.kind = "none"
           /\ r.kind \in {"none", "init", "read", "write"}
           /\ r.kind \in {"read", "write"} => r.nr \in Blocks
           /\ r.kind = "write" => r.data \in Contents
    BY DEF Card!Requests, Card!NoOp

\* What the device promises of a call that returns.
Kept(res, b) ==
    IF res = "ERR" THEN ~card.stored
    ELSE /\ op.kind = "init"  => b = <<Card!Blocks1K>>
         /\ op.kind = "read"  => b = card.blocks[op.nr]
         /\ op.kind = "write" => card.stored

LEMMA CallReturns ==
    ASSUME DriverTyped, usable => card.kind = "blocks", op.kind # "none",
           NEW c \in CardStates, SameCard(card, c), NEW res \in {"OK", "ERR"},
           NEW b \in Seq(Nat), Card!Return(c, res, b), card.in => Kept(res, b),
           op.kind = "init" /\ res = "OK" => card.kind = "blocks"
    PROVE  CardInv' /\ Keeps
<1> DEFINE d == Card!bios_sd_deselect(c)
<1>1. /\ d \in CardStates /\ SameCard(card, d) /\ ~d.sel /\ d.out = <<>> /\ d.job = "none"
    BY DeselectTyped DEF SameCard
<1>2. /\ card' = d /\ op' = Card!NoOp /\ pc' = "idle" /\ result' = res /\ buf' = b /\ count' = 0
      /\ retries' = 0 /\ response' = 0 /\ stage' = stage
      /\ usable' = IF op.kind = "init" THEN res = "OK" ELSE usable
    BY DEF Card!Return
<1> HIDE DEF d
<1>3. Card!NoOp \in Card!Requests /\ Card!NoOp.kind = "none"
    BY DEF Card!Requests, Card!NoOp
<1>4. DriverTyped'
    <2>1. usable' \in BOOLEAN
        BY <1>2 DEF DriverTyped
    <2>2. card' \in CardStates /\ op' \in Card!Requests /\ response' \in Byte
        BY <1>1, <1>2, <1>3 DEF Byte
    <2>3. stage' \in CardStages
        BY <1>2 DEF DriverTyped
    <2> QED
        BY <1>2, <2>1, <2>2, <2>3 DEF DriverTyped
<1>5. usable' => card'.kind = "blocks"
    BY <1>1, <1>2 DEF SameCard, DriverTyped
<1>6. Bounds'
    BY <1>2, CardAssumption DEF Bounds
<1>7. Progress'
    BY <1>1, <1>2, <1>3, <1>5 DEF Progress
<1>8. Reads' /\ Writes'
    BY <1>2, <1>3 DEF Reads, Writes
<1>9. Keeps
    <2>1. op # Card!NoOp /\ op \in Card!Requests
        BY NoOpIsNone DEF DriverTyped
    <2>2. op.kind \in {"init", "read", "write"}
        BY <2>1, NoOpIsNone
    <2>3. (IF op' = Card!NoOp THEN buf' ELSE <<>>) = b
        BY <1>2
    <2>4. card.in => Card!Promised!Promised(res, b)
        BY <2>2 DEF Kept, Card!Promised!Promised
    <2>5. /\ card'.blocks = card.blocks /\ card'.in = card.in /\ card'.stored = card.stored
        BY <1>1, <1>2 DEF SameCard
    <2>6. Card!Promised!Return(res, b)
        BY <1>2, <2>1, <2>3, <2>4, <2>5 DEF Card!Promised!Return, Card!Promised!NoOp, Card!NoOp
    <2>7. Card!Promised!Next
        BY <1>2, <2>1, <2>3, <2>6 DEF Card!Promised!Next, Card!Promised!NoOp, Card!NoOp
    <2> QED
        BY <2>7 DEF Keeps
<1> QED
    BY <1>4, <1>6, <1>7, <1>8, <1>9 DEF CardInv

\* A step within a call that leaves the card's blocks as they are.
LEMMA CallGoesOn ==
    ASSUME op # Card!NoOp, op' = op, result' = result, SameCard(card, card')
    PROVE  Keeps
    BY DEF Keeps, Card!Promised!vars, SameCard

LEMMA CardStarts ==
    ASSUME Card!Init
    PROVE  CardInv /\ Card!Promised!Init
<1>1. DriverTyped
    <2>1. <<>> \in Seq(Byte) /\ <<>> \in Seq(Nat) /\ 0 \in Byte
        BY DEF Byte
    <2>2. card \in CardStates
        BY <2>1 DEF Card!Init, CardStates
    <2> QED
        BY <2>1, <2>2 DEF Card!Init, DriverTyped, CardStages, Card!Requests
<1>2. Bounds /\ Progress /\ Reads /\ Writes
    <2>1. /\ op.kind = "none" /\ pc = "idle" /\ stage = "reset" /\ usable = FALSE
          /\ count = 0 /\ retries = 0 /\ buf = <<>>
        BY DEF Card!Init, Card!NoOp
    <2>2. card.sel = FALSE /\ card.out = <<>> /\ card.job = "none"
        BY DEF Card!Init
    <2>3. Bounds
        BY <2>1, CardAssumption DEF Bounds
    <2>4. Progress
        BY <2>1, <2>2 DEF Progress
    <2>5. Reads /\ Writes
        BY <2>1 DEF Reads, Writes
    <2> QED
        BY <2>3, <2>4, <2>5
<1>3. Card!Promised!Init
    BY DEF Card!Init, Card!Promised!Init, Card!NoOp, Card!Promised!NoOp
<1> QED
    BY <1>1, <1>2, <1>3 DEF CardInv

LEMMA CardQuiet ==
    ASSUME CardInv, UNCHANGED <<pc, result, cardVars>>
    PROVE  CardInv' /\ Keeps
<1>1. DriverTyped' /\ Bounds' /\ Progress'
    BY DEF CardInv, cardVars, DriverTyped, Bounds, Progress
<1>2. card'.in => Reads' /\ Writes'
    BY DEF CardInv, cardVars, Reads, Writes, Block, Asked, Accepted, Filling, Card!Accepts
<1>3. Keeps
    BY DEF cardVars, Keeps, Card!Promised!vars
<1> QED
    BY <1>1, <1>2, <1>3 DEF CardInv

LEMMA PullStep ==
    ASSUME CardInv, Card!Pull
    PROVE  CardInv' /\ Keeps
<1>1. /\ card.in /\ card' \in CardStates /\ card'.in = FALSE /\ card'.sel = card.sel
      /\ card'.kind = card.kind /\ card'.out = card.out /\ card'.job = card.job
      /\ card'.stored = card.stored /\ card'.blocks = card.blocks
    BY DEF CardInv, DriverTyped, CardStates, Card!Pull
<1>2. DriverTyped' /\ Bounds'
    BY <1>1 DEF CardInv, DriverTyped, Bounds, Card!Pull
<1>3. Progress'
    BY <1>1 DEF CardInv, Progress, Card!Pull
<1>4. Keeps
    BY <1>1 DEF Card!Pull, Keeps, Card!Promised!Next, Card!Promised!Remove
<1> QED
    BY <1>1, <1>2, <1>3, <1>4 DEF CardInv

LEMMA CallStep ==
    ASSUME CardInv, NEW r \in Card!Requests, Card!Call(r)
    PROVE  CardInv' /\ Keeps
<1>1. /\ op = Card!NoOp /\ r # Card!NoOp /\ (r.kind # "init" => usable)
      /\ op' = r /\ buf' = <<>> /\ retries' = 0 /\ response' = 0 /\ result' = "none"
      /\ usable' = usable
    BY DEF Card!Call
<1>2. r.kind \in {"init", "read", "write"} /\ (r.kind \in {"read", "write"} => r.nr \in Blocks)
    BY <1>1, NoOpIsNone
<1>3. card \in CardStates /\ op \in Card!Requests /\ pc = "idle" /\ ~card.sel
      /\ card.out = <<>> /\ card.job = "none" /\ (usable => card.kind = "blocks")
    BY <1>1, NoOpIsNone DEF CardInv, DriverTyped, Progress
<1> DEFINE c == [card EXCEPT !.stored = FALSE]
           d == Card!bios_sd_deselect(Card!bios_sd_select(Card!bios_sd_deselect(c)))
           s == IF r.kind = "init" THEN "reset" ELSE r.kind
           sent == IF r.kind = "init" THEN d ELSE c
<1>4. /\ c \in CardStates /\ c.job = "none" /\ c.in = card.in /\ c.kind = card.kind
      /\ c.stored = FALSE /\ c.blocks = card.blocks
    BY <1>3 DEF CardStates
<1> HIDE DEF c
<1>5. d \in CardStates /\ d.job = "none" /\ SameCard(c, d)
    <2>1. Card!bios_sd_deselect(c) \in CardStates /\ SameCard(c, Card!bios_sd_deselect(c))
        BY <1>4, DeselectTyped
    <2>2. /\ Card!bios_sd_select(Card!bios_sd_deselect(c)) \in CardStates
          /\ SameCard(Card!bios_sd_deselect(c), Card!bios_sd_select(Card!bios_sd_deselect(c)))
        BY <2>1, SelectTyped
    <2> QED
        BY <2>1, <2>2, DeselectTyped DEF SameCard
<1>6. Card!Command(sent, s)
    <2>1. CASE r.kind = "init"
        BY <2>1 DEF Card!Call, c
    <2>2. CASE r.kind # "init"
        BY <2>2 DEF Card!Call, c
    <2> QED
        BY <2>1, <2>2
<1> HIDE DEF d
<1>7. /\ sent \in CardStates /\ sent.job = "none" /\ s \in CardStages
      /\ sent.in = card.in /\ sent.kind = card.kind /\ ~sent.stored /\ sent.blocks = card.blocks
    BY <1>2, <1>4, <1>5 DEF SameCard, CardStages
<1>8. s = "read" => card.kind = "blocks" /\ op'.nr \in Blocks
    BY <1>1, <1>2, <1>3
<1>s. /\ s \notin {"csd", "app", "op_cond"} /\ (s = "read" <=> r.kind = "read")
      /\ (s = "write" <=> r.kind = "write")
    BY <1>2
<1> HIDE DEF s, sent
<1>9. /\ card' \in CardStates /\ SameCard(sent, card') /\ card'.sel
      /\ s # "write" => card'.job = "none"
      /\ sent.in => /\ s = "read" => Answered(card'.out, sent.blocks[op'.nr])
                    /\ s = "write" => Asked(card')
      /\ stage' = s /\ pc' = "poll" /\ count' = 0
    BY <1>6, <1>7, <1>8, <1>s, CommandSent
<1>10. /\ card'.in = card.in /\ card'.kind = card.kind /\ ~card'.stored
       /\ card'.blocks = card.blocks
    BY <1>7, <1>9 DEF SameCard
<1>11. DriverTyped'
    <2>1. <<>> \in Seq(Nat) /\ 0 \in Byte
        BY DEF Byte
    <2> QED
        BY <1>1, <1>7, <1>9, <2>1 DEF CardInv, DriverTyped
<1>12. Bounds'
    BY <1>1, <1>9, CardAssumption DEF Bounds
<1>13. Progress'
    <2>1. s \notin {"read", "write"} <=> r.kind = "init"
        BY <1>2, <1>s
    <2> QED
        BY <1>1, <1>2, <1>3, <1>9, <1>10, <1>s, <2>1 DEF Progress, s
<1>14. card'.in => Reads' /\ Writes'
    BY <1>1, <1>7, <1>9, <1>10, <1>s DEF Reads, Writes, Block
<1>15. Keeps
    <2>1. op' # Card!NoOp
        BY <1>1
    <2>2. Card!Promised!Request(r)
        BY <1>1, <1>10, <2>1 DEF Card!Promised!Request, Card!Promised!NoOp, Card!NoOp
    <2> QED
        BY <2>2 DEF Keeps, Card!Promised!Next
<1> QED
    BY <1>11, <1>12, <1>13, <1>14, <1>15 DEF CardInv

LEMMA ZeroIsLast ==
    ASSUME NEW s \in Seq(Byte), s # <<>>, NothingButLast(s), s[1] = 0
    PROVE  Tail(s) = <<>>
<1>1. PICK n \in Nat : n = Len(s)
    OBVIOUS
<1>2. n < 2
    <2>1. n >= 2 => s[1] = 255
        BY <1>1 DEF NothingButLast
    <2> QED
        BY <1>1, <2>1
<1>3. Len(Tail(s)) = n - 1 /\ n # 0 /\ Tail(s) \in Seq(Byte)
    BY <1>1, OneByteOn
<1> DEFINE t == Tail(s)
<1> HIDE DEF t
<1>4. t \in Seq(Byte) /\ Len(t) = 0
    BY <1>2, <1>3 DEF t
<1>5. t = <<>>
    BY <1>4
<1> QED
    BY <1>5 DEF t

\* The bytes of the answer.
LEMMA PollStep ==
    ASSUME CardInv, Card!Poll
    PROVE  CardInv' /\ Keeps
<1> DEFINE c == Card!Clock(card, 255)
<1>1. /\ pc = "poll" /\ response' = Card!Out(card) /\ count' = count + 1
      /\ op' = op /\ usable' = usable /\ stage' = stage /\ retries' = retries /\ buf' = buf
      /\ result' = result
      /\ IF response' >= 128 /\ count' < CmdPolls
         THEN card' = c /\ pc' = pc
         ELSE IF op.kind = "init" THEN card' = Card!bios_sd_deselect(c) /\ pc' = "judge"
              ELSE card' = c /\ pc' = "begin"
    BY DEF Card!Poll
<1>2. /\ card \in CardStates /\ op \in Card!Requests /\ op.kind \in {"init", "read", "write"}
      /\ op # Card!NoOp /\ card.sel /\ count \in Nat /\ buf = <<>>
      /\ (count = 0 \/ count < CmdPolls)
    BY <1>1, NoOpIsNone DEF CardInv, DriverTyped, Progress, Bounds
<1>3. card.in /\ card.job = "data" => FALSE
    BY <1>1, <1>2 DEF CardInv, Progress, Writes, Asked
<1>4. /\ c \in CardStates /\ SameCard(card, c) /\ c.sel /\ c.job = card.job /\ c.then = card.then
      /\ card.in /\ card.out # <<>> => c.out = Tail(card.out)
      /\ card.out = <<>> => c.out = <<>>
    BY <1>2, <1>3, ClockReads
<1>5. /\ response' \in Byte
      /\ card.in /\ card.out # <<>> => response' = card.out[1]
      /\ card.out = <<>> => response' = 255
    BY <1>1, <1>2, OutIsByte
<1> HIDE DEF c
<1>6. card' \in CardStates /\ SameCard(card, card') /\ (op.kind # "init" => card' = c)
      /\ (pc' = "judge" <=> pc' # "poll" /\ op.kind = "init") /\ pc' \in {"poll", "judge", "begin"}
      /\ (pc' = "poll" => card' = c /\ count' < CmdPolls)
      /\ (pc' = "judge" => card'.out = <<>> /\ ~card'.sel /\ card'.job = "none")
    BY <1>1, <1>4, DeselectTyped DEF SameCard
<1>7. DriverTyped'
    BY <1>1, <1>5, <1>6 DEF CardInv, DriverTyped
<1>8. Bounds'
    BY <1>1, <1>2, <1>6, CardAssumption DEF CardInv, Bounds
<1>9. Progress'
    BY <1>1, <1>2, <1>4, <1>6 DEF CardInv, Progress, SameCard
<1>10. ASSUME card'.in PROVE Reads'
    <2>1. card.in /\ card.blocks = card'.blocks /\ pc' # "data" /\ stage' = stage
          /\ op' = op /\ (pc' = "token" => FALSE)
        BY <1>1, <1>6, <1>10 DEF SameCard
    <2> SUFFICES ASSUME op.kind = "read"
                 PROVE  /\ pc' = "poll" => Answered(card'.out, card.blocks[op.nr])
                        /\ pc' = "begin" => Announced(card'.out, card.blocks[op.nr])
        BY <2>1 DEF Reads, Block
    <2>2. Answered(card.out, card.blocks[op.nr]) /\ card.blocks[op.nr] \in Seq(Byte)
          /\ card.out \in Seq(Byte)
        BY <1>1, <1>2, <2>1, NoOpIsNone, BlocksAreBytes, CardTyped DEF CardInv, Reads, Block
    <2>3. card' = c
        BY <1>6
    <2>4. CASE card.out = <<>>
        BY <1>4, <2>2, <2>3, <2>4, AnsweredAnnounces
    <2>5. CASE card.out # <<>>
        <3>1. card'.out = Tail(card.out) /\ response' = card.out[1]
            BY <1>4, <1>5, <2>1, <2>3, <2>5
        <3>2. pc' = "poll" => card.out[1] >= 128
            BY <1>1, <1>6, <3>1
        <3> QED
            BY <2>2, <2>5, <3>1, <3>2, AnsweredOn
    <2> QED
        BY <2>4, <2>5
<1>11. ASSUME card'.in PROVE Writes'
    <2>1. card.in /\ op' = op
        BY <1>1, <1>6, <1>11 DEF SameCard
    <2> SUFFICES ASSUME op.kind = "write"
                 PROVE  /\ pc' = "poll" => Asked(card')
                        /\ pc' = "begin" => card'.job # "data" /\ (response' = 0 => Accepted(card'))
        BY <1>6, <2>1 DEF Writes
    <2>2. card' = c /\ Asked(card) /\ card.out \in Seq(Byte)
        BY <1>1, <1>2, <1>6, <2>1, CardTyped DEF CardInv, Writes
    <2>3. Card!Accepts(card') = Card!Accepts(card) /\ card'.then = card.then /\ card'.job = card.job
        BY <1>4, <2>2 DEF Card!Accepts
    <2>4. CASE card.out = <<>>
        BY <1>4, <1>5, <2>2, <2>3, <2>4 DEF Asked
    <2>5. CASE card.out # <<>>
        <3>1. /\ card'.out = Tail(card.out) /\ response' = card.out[1]
              /\ Len(card.out) \in Nat \ {0} /\ Len(card'.out) = Len(card.out) - 1
              /\ card'.out \in Seq(Byte)
              /\ \A i \in 1 .. Len(card.out) - 1 : card'.out[i] = card.out[i + 1]
            BY <1>4, <1>5, <2>1, <2>2, <2>5, OneByteOn
        <3>2. CASE card.job = "token" /\ Verdict(card.then, Card!Accepts(card))
                   /\ NothingButLast(card.out)
            <4>1. NothingButLast(card'.out)
                BY <3>1, <3>2 DEF NothingButLast
            <4>2. response' = 0 => card'.out = <<>>
                BY <2>2, <2>5, <3>1, <3>2, ZeroIsLast
            <4> QED
                BY <3>2, <4>1, <4>2, <2>3 DEF Asked, Accepted
        <3>3. CASE card.job = "none" /\ NoZero(card.out)
            <4>1. NoZero(card'.out) /\ response' # 0
                BY <3>1, <3>3 DEF NoZero
            <4> QED
                BY <3>3, <4>1, <2>3 DEF Asked
        <3> QED
            BY <2>2, <3>2, <3>3 DEF Asked
    <2> QED
        BY <2>4, <2>5
<1>12. Keeps
    BY <1>1, <1>2, <1>6, CallGoesOn
<1> QED
    BY <1>7, <1>8, <1>9, <1>10, <1>11, <1>12 DEF CardInv

\* The next command of a card set up, or the end of it.
LEMMA JudgeStep ==
    ASSUME CardInv, Card!Judge
    PROVE  CardInv' /\ Keeps
<1>1. /\ pc = "judge" /\ card \in CardStates /\ op \in Card!Requests /\ op.kind = "init"
      /\ op # Card!NoOp /\ card.job = "none" /\ ~card.stored /\ buf = <<>>
      /\ stage \in {"reset", "if_cond", "ocr", "app", "op_cond", "capacity"}
      /\ usable \in BOOLEAN /\ (usable => card.kind = "blocks") /\ response \in Byte
      /\ result \in {"none", "OK", "ERR"} /\ retries \in Nat
    <2>1. pc = "judge"
        BY DEF Card!Judge
    <2>2. op.kind = "init"
        BY <2>1, NoOpIsNone DEF CardInv, DriverTyped, Progress
    <2> QED
        BY <2>1, <2>2, NoOpIsNone DEF CardInv, DriverTyped, Progress, CardStages
<1> DEFINE Go(s, n) ==
             Card!Command(card, s) /\ retries' = n /\ UNCHANGED <<op, usable, response, buf, result>>
<1>2. ASSUME NEW s \in CardStages, s \notin {"read", "write"}, NEW n \in Nat, Go(s, n),
             (s = "reset" => n <= ResetTries + 1) /\ (s \in {"app", "op_cond"} => n <= ReadyTries)
             /\ (s \notin {"reset", "app", "op_cond"} => n = 0)
      PROVE  CardInv' /\ Keeps
    <2>1. /\ card' \in CardStates /\ SameCard(card, card') /\ card'.sel /\ card'.job = "none"
          /\ card.in => (s = "csd" => Announced(card'.out, Card!CSD(card.kind)))
          /\ stage' = s /\ pc' = (IF s = "csd" THEN "token" ELSE "poll") /\ count' = 0
        BY <1>1, <1>2, CommandSent
    <2>2. /\ op' = op /\ usable' = usable /\ response' = response /\ buf' = buf /\ result' = result
          /\ retries' = n
        BY <1>2
    <2> HIDE DEF Go
    <2>3. DriverTyped'
        BY <1>1, <1>2, <2>1, <2>2 DEF CardInv, DriverTyped
    <2>4. Bounds'
        BY <1>2, <2>1, <2>2, CardAssumption DEF Bounds
    <2>5. Progress'
        BY <1>1, <1>2, <2>1, <2>2 DEF Progress, SameCard
    <2>6. card'.in => Reads' /\ Writes'
        BY <1>1, <1>2, <2>1, <2>2 DEF Reads, Writes, Block, SameCard
    <2>7. Keeps
        BY <1>1, <2>1, <2>2, CallGoesOn
    <2> QED
        BY <2>3, <2>4, <2>5, <2>6, <2>7 DEF CardInv
<1>3. ASSUME Card!bios_sd_error(card) PROVE CardInv' /\ Keeps
    <2>1. SameCard(card, card) /\ <<>> \in Seq(Nat) /\ Card!Return(card, "ERR", <<>>)
        BY <1>3 DEF SameCard, Card!bios_sd_error
    <2> QED
        BY <1>1, <2>1, CallReturns DEF CardInv, Kept
<1>4. CASE stage = "reset"
    <2>1. Go("if_cond", 0) \/ (retries <= ResetTries /\ Go("reset", retries + 1))
          \/ Card!bios_sd_error(card)
        BY <1>4 DEF Card!Judge, Card!Retried
    <2> HIDE DEF Go
    <2> QED
        BY <1>1, <1>2, <1>3, <2>1, CardAssumption DEF CardStages
<1>5. CASE stage = "if_cond"
    <2>1. Go("ocr", 0) \/ Card!bios_sd_error(card)
        BY <1>5 DEF Card!Judge
    <2> HIDE DEF Go
    <2> QED
        BY <1>1, <1>2, <1>3, <2>1 DEF CardStages
<1>6. CASE stage = "ocr"
    <2>1. Go("app", 0) \/ Card!bios_sd_error(card)
        BY <1>6 DEF Card!Judge
    <2> HIDE DEF Go
    <2> QED
        BY <1>1, <1>2, <1>3, <2>1, CardAssumption DEF CardStages
<1>7. CASE stage = "app"
    <2>1. Go("op_cond", retries) \/ Card!bios_sd_error(card)
        BY <1>7 DEF Card!Judge
    <2>2. retries <= ReadyTries
        BY <1>7 DEF CardInv, Bounds
    <2> HIDE DEF Go
    <2> QED
        BY <1>1, <1>2, <1>3, <2>1, <2>2 DEF CardStages
<1>8. CASE stage = "op_cond"
    <2>1. Go("capacity", 0) \/ (retries < ReadyTries /\ Go("app", retries + 1))
          \/ Card!bios_sd_error(card)
        BY <1>8 DEF Card!Judge, Card!Retried
    <2> HIDE DEF Go
    <2> QED
        BY <1>1, <1>2, <1>3, <2>1, CardAssumption DEF CardStages
<1>9. CASE stage = "capacity"
    <2>1. Go("csd", 0) \/ Card!bios_sd_error(card)
        BY <1>9 DEF Card!Judge
    <2> HIDE DEF Go
    <2> QED
        BY <1>1, <1>2, <1>3, <2>1 DEF CardStages
<1> QED
    BY <1>1, <1>4, <1>5, <1>6, <1>7, <1>8, <1>9

\* Reading or writing, once the command is answered.
LEMMA BeginStep ==
    ASSUME CardInv, Card!Begin
    PROVE  CardInv' /\ Keeps
<1>1. /\ pc = "begin" /\ card \in CardStates /\ op \in Card!Requests
      /\ op.kind \in {"read", "write"} /\ op # Card!NoOp /\ ~card.stored /\ card.sel /\ buf = <<>>
      /\ (usable => card.kind = "blocks") /\ (op.kind = "read" => card.job = "none")
      /\ (op.kind = "write" => op.data \in Contents)
    <2>1. pc = "begin"
        BY DEF Card!Begin
    <2> QED
        BY <2>1, NoOpIsNone DEF CardInv, DriverTyped, Progress
<1>2. CASE response # 0
    <2>1. SameCard(card, card) /\ <<>> \in Seq(Nat) /\ Card!Return(card, "ERR", <<>>)
        BY <1>2 DEF SameCard, Card!bios_sd_error, Card!Begin
    <2> QED
        BY <1>1, <2>1, CallReturns DEF CardInv, Kept
<1>3. CASE response = 0 /\ op.kind = "read"
    <2>1. /\ pc' = "token" /\ card' = card /\ count' = 0 /\ op' = op /\ usable' = usable
          /\ stage' = stage /\ retries' = retries /\ response' = response /\ buf' = buf
          /\ result' = result
        BY <1>3 DEF Card!Begin
    <2>2. DriverTyped' /\ Bounds' /\ Progress'
        BY <1>1, <1>3, <2>1, CardAssumption DEF CardInv, DriverTyped, Bounds, Progress
    <2>3. card'.in => Reads' /\ Writes'
        BY <1>1, <1>3, <2>1 DEF CardInv, Reads, Writes, Block
    <2>4. Keeps
        BY <1>1, <2>1, CallGoesOn DEF SameCard
    <2> QED
        BY <2>2, <2>3, <2>4 DEF CardInv
<1>4. CASE response = 0 /\ op.kind = "write"
    <2>1. /\ pc' = "response" /\ card' = Card!Filled(card, op.data) /\ count' = 0 /\ op' = op
          /\ usable' = usable /\ stage' = stage /\ retries' = retries /\ response' = response
          /\ buf' = buf /\ result' = result
        BY <1>4 DEF Card!Begin
    <2>2. op.data \in Seq(Byte)
        <3>1. op.data \in [1 .. BlockBytes -> Byte] /\ BlockBytes \in Nat
            BY <1>1, <1>4, CardAssumption DEF Byte
        <3> QED
            BY <3>1, BytesInRow
    <2>3. /\ card' \in CardStates /\ SameCard(card, card') /\ card'.sel
          /\ card'.then = card.then /\ card'.out = card.out
          /\ card.in /\ card.job = "token" => card'.job = "data" /\ card'.got = op.data
        <3>1. CASE card.in /\ card.job = "token"
            <4>1. card' = [card EXCEPT !.job = "data", !.got = op.data]
                BY <2>1, <3>1 DEF Card!Filled
            <4> QED
                BY <1>1, <2>2, <4>1 DEF CardStates, SameCard
        <3>2. CASE ~(card.in /\ card.job = "token")
            BY <1>1, <2>1, <3>2 DEF Card!Filled, SameCard
        <3> QED
            BY <3>1, <3>2
    <2>4. DriverTyped' /\ Bounds' /\ Progress'
        BY <1>1, <1>4, <2>1, <2>3, CardAssumption
        DEF CardInv, DriverTyped, Bounds, Progress, SameCard
    <2>5. card'.in => Reads' /\ Writes'
        <3>1. SUFFICES ASSUME card'.in PROVE Reads' /\ Writes'
            OBVIOUS
        <3>2. card.in /\ Accepted(card)
            BY <1>1, <1>4, <2>3, <3>1 DEF SameCard, CardInv, Writes
        <3>3. card'.job = "data" /\ card'.got = op.data /\ card'.out = <<>> /\ ~card'.stored
              /\ Verdict(card'.then, Card!Accepts(card'))
            BY <1>1, <2>3, <3>2 DEF Accepted, SameCard, Card!Accepts
        <3> QED
            BY <1>1, <1>4, <2>1, <3>3 DEF Reads, Writes, Filling, CardInv, Progress
    <2>6. Keeps
        BY <1>1, <2>1, <2>3, CallGoesOn
    <2> QED
        BY <2>4, <2>5, <2>6 DEF CardInv
<1> QED
    BY <1>1, <1>2, <1>3, <1>4

\* The byte that announces a block.
LEMMA TokenStep ==
    ASSUME CardInv, Card!Token
    PROVE  CardInv' /\ Keeps
<1> DEFINE c == Card!Clock(card, 255)
<1>1. /\ pc = "token" /\ card \in CardStates /\ op \in Card!Requests
      /\ op.kind \in {"init", "read"} /\ op # Card!NoOp /\ ~card.stored /\ card.sel /\ buf = <<>>
      /\ (usable => card.kind = "blocks") /\ card.job = "none" /\ count \in Nat
      /\ (op.kind = "init" <=> stage = "csd") /\ (op.kind = "read" <=> stage = "read")
    <2>1. pc = "token"
        BY DEF Card!Token
    <2> QED
        BY <2>1, NoOpIsNone DEF CardInv, DriverTyped, Progress
<1>2. /\ c \in CardStates /\ SameCard(card, c) /\ c.sel /\ c.job = "none"
      /\ card.in /\ card.out # <<>> => c.out = Tail(card.out)
      /\ card.out = <<>> => c.out = <<>>
    BY <1>1, ClockReads
<1>3. /\ Card!Out(card) \in Byte
      /\ card.in /\ card.out # <<>> => Card!Out(card) = card.out[1]
      /\ card.out = <<>> => Card!Out(card) = 255
    BY <1>1, OutIsByte
<1> DEFINE most == IF stage = "csd" THEN CsdPolls ELSE TokenPolls
<1>4. CASE count > most
    <2>1. <<>> \in Seq(Nat) /\ Card!Return(c, "ERR", <<>>)
        BY <1>4 DEF Card!bios_sd_error, Card!Token
    <2> HIDE DEF c
    <2> QED
        BY <1>1, <1>2, <2>1, CallReturns DEF CardInv, Kept
<1>5. CASE ~(count > most)
    <2>1. /\ card' = c /\ count' = count + 1 /\ response' = Card!Out(card)
          /\ pc' = (IF response' = 254 THEN "data" ELSE "token") /\ op' = op /\ usable' = usable
          /\ stage' = stage /\ retries' = retries /\ buf' = buf /\ result' = result
        BY <1>5 DEF Card!Token
    <2> HIDE DEF c
    <2>2. DriverTyped'
        BY <1>1, <1>2, <1>3, <2>1 DEF CardInv, DriverTyped
    <2>3. Bounds'
        BY <1>1, <1>5, <2>1, CardAssumption DEF CardInv, Bounds
    <2>4. Progress'
        BY <1>1, <1>2, <2>1 DEF CardInv, Progress, SameCard
    <2>5. ASSUME card'.in PROVE Reads' /\ Writes'
        <3>1. card.in /\ card.kind = card'.kind /\ card.blocks = card'.blocks
            BY <1>2, <2>1, <2>5 DEF SameCard
        <3>2. Block \in Seq(Byte) /\ Block' = Block
            BY <1>1, <2>1, <3>1, BlocksAreBytes, CsdIsBytes, NoOpIsNone DEF Block
        <3>3. Announced(card.out, Block) /\ card.out \in Seq(Byte)
            BY <1>1, <3>1, CardTyped DEF CardInv, Reads
        <3>4. CASE card.out = <<>>
            BY <1>1, <1>2, <1>3, <2>1, <3>2, <3>3, <3>4 DEF Reads, Writes
        <3>5. CASE card.out # <<>>
            <4>1. card'.out = Tail(card.out) /\ response' = card.out[1]
                BY <1>2, <1>3, <2>1, <3>1, <3>5
            <4>2. /\ response' # 254 => Announced(card'.out, Block)
                  /\ response' = 254 => Delivered(<<>>, card'.out, Block)
                BY <3>2, <3>3, <3>5, <4>1, AnnouncedOn
            <4> QED
                BY <1>1, <2>1, <3>2, <4>2 DEF Reads, Writes
        <3> QED
            BY <3>4, <3>5
    <2>6. Keeps
        BY <1>1, <1>2, <2>1, CallGoesOn
    <2> QED
        BY <2>2, <2>3, <2>4, <2>5, <2>6 DEF CardInv
<1> QED
    BY <1>4, <1>5

LEMMA SameBytes ==
    ASSUME NEW s \in Seq(Nat), NEW t \in Seq(Byte), Len(s) = Len(t),
           \A i \in 1 .. Len(t) : s[i] = t[i]
    PROVE  s = t
    BY DEF Byte

LEMMA ReadBytes ==
    ASSUME NEW read \in Seq(Nat)
    PROVE  \A i \in 1 .. Len(read) : read[i] \in Nat
    OBVIOUS

LEMMA CsdRead ==
    ASSUME NEW read \in Seq(Nat), Len(read) = 24
    PROVE  read # <<>> /\ read[8] \in Nat /\ read[9] \in Nat /\ read[10] \in Nat
<1>3. \A i \in 1 .. 24 : read[i] \in Nat
    BY ReadBytes, Zenon
<1>4. 8 \in 1 .. 24 /\ 9 \in 1 .. 24 /\ 10 \in 1 .. 24
    OBVIOUS
<1>5. read # <<>>
    <2>1. Len(<<>>) # 24
        OBVIOUS
    <2> QED
        BY <2>1, Zenon
<1> QED
    BY <1>3, <1>4, <1>5, Zenon

LEMMA NumberOfBlocks == (1 * 65536 + 2 * 256 + 3 + 1) % 4194304 = Card!Blocks1K
    BY DEF Card!Blocks1K

\* A block or the CSD, a byte at a time.
LEMMA ReadDataStep ==
    ASSUME CardInv, Card!ReadData
    PROVE  CardInv' /\ Keeps
<1> DEFINE c == Card!Clock(card, 255)
<1>1. /\ pc = "data" /\ card \in CardStates /\ op \in Card!Requests
      /\ op.kind \in {"init", "read"} /\ op # Card!NoOp /\ ~card.stored /\ card.sel
      /\ (usable => card.kind = "blocks") /\ card.job = "none" /\ buf \in Seq(Nat)
      /\ (op.kind = "init" <=> stage = "csd") /\ (op.kind = "read" <=> stage = "read")
      /\ (op.kind = "read" => op.nr \in Blocks)
      /\ (stage = "csd" /\ buf # <<>> /\ buf[1] = 64 => card.kind = "blocks")
    <2>1. pc = "data"
        BY DEF Card!ReadData
    <2> QED
        BY <2>1, NoOpIsNone DEF CardInv, DriverTyped, Progress
<1>2. /\ c \in CardStates /\ SameCard(card, c) /\ c.sel /\ c.job = "none"
      /\ card.in /\ card.out # <<>> => c.out = Tail(card.out)
      /\ card.out = <<>> => c.out = <<>>
    BY <1>1, ClockReads
<1>3. /\ Card!Out(card) \in Byte
      /\ card.in /\ card.out # <<>> => Card!Out(card) = Head(card.out)
      /\ ~(card.in /\ card.out # <<>>) => Card!Out(card) = 255
    BY <1>1, OutIsByte, OneByteOn, CardTyped
<1>4. Block \in Seq(Byte)
    BY <1>1, BlocksAreBytes, CsdIsBytes DEF Block
<1>5. card.in => Delivered(buf, card.out, Block)
    BY <1>1 DEF CardInv, Reads
<1>6. card.in /\ Len(buf) >= Len(Block) => \A i \in 1 .. Len(Block) : buf[i] = Block[i]
    BY <1>1, <1>4, <1>5, DeliveredOn, CardTyped
<1>7. CASE stage = "csd" /\ Len(buf) = 24 /\ ~Card!IsVersion2(buf)
    <2>1. SameCard(card, card) /\ <<>> \in Seq(Nat) /\ Card!Return(card, "ERR", <<>>)
        BY <1>7 DEF SameCard, Card!bios_sd_error, Card!ReadData
    <2> QED
        BY <1>1, <2>1, CallReturns DEF CardInv, Kept
<1>8. CASE stage = "csd" /\ Len(buf) = 24 /\ Card!IsVersion2(buf)
    <2> DEFINE n == (buf[8] * 65536 + buf[9] * 256 + buf[10] + 1) % 4194304
    <2>1. Card!Return(card, "OK", <<n>>)
        BY <1>8 DEF Card!ReadData
    <2>2. n \in Nat
        <3>1. buf[8] \in Nat /\ buf[9] \in Nat /\ buf[10] \in Nat
            BY <1>1, <1>8, CsdRead
        <3> QED
            BY <3>1
    <2>3. ASSUME card.in PROVE n = Card!Blocks1K
        <3>1. Block = Card!CSD(card.kind) /\ op.kind = "init"
            BY <1>1, <1>8 DEF Block
        <3>2. Len(Block) = 16 /\ Block[8] = 1 /\ Block[9] = 2 /\ Block[10] = 3
            BY <3>1, CsdIsBytes
        <3>3. \A i \in 1 .. 16 : buf[i] = Block[i]
            BY <1>6, <1>8, <2>3, <3>2
        <3>4. buf[8] = 1 /\ buf[9] = 2 /\ buf[10] = 3
            BY <3>2, <3>3
        <3>5. n = (1 * 65536 + 2 * 256 + 3 + 1) % 4194304
            BY <3>4
        <3> QED
            BY <3>5, NumberOfBlocks
    <2>4. buf[1] = 64 /\ buf # <<>>
        <3>1. buf[1] = 64
            BY <1>8, Zenon DEF Card!IsVersion2
        <3> QED
            BY <1>1, <1>8, <3>1, CsdRead
    <2>5. card.kind = "blocks"
        BY <1>1, <1>8, <2>4
    <2> HIDE DEF n
    <2>6. <<n>> \in Seq(Nat) /\ SameCard(card, card) /\ op.kind = "init"
        BY <1>1, <1>8, <2>2 DEF SameCard
    <2>7. card.in => Kept("OK", <<n>>)
        BY <2>3, <2>6 DEF Kept
    <2> QED
        BY <1>1, <2>1, <2>5, <2>6, <2>7, CallReturns DEF CardInv
<1>9. CASE stage = "read" /\ Len(buf) = BlockBytes
    <2>1. Card!Return(card, "OK", buf)
        BY <1>9 DEF Card!ReadData
    <2>2. ASSUME card.in PROVE Kept("OK", buf)
        <3>1. Block = card.blocks[op.nr] /\ op.kind = "read" /\ Len(Block) = BlockBytes
            BY <1>1, <1>9, BlocksAreBytes DEF Block
        <3>2. \A i \in 1 .. Len(Block) : buf[i] = Block[i]
            BY <1>6, <1>9, <2>2, <3>1, CardAssumption
        <3>3. buf = Block
            BY <1>1, <1>4, <1>9, <3>1, <3>2, SameBytes
        <3> QED
            BY <3>1, <3>3 DEF Kept
    <2>3. op.kind = "read" /\ SameCard(card, card)
        BY <1>1, <1>9 DEF SameCard
    <2> QED
        BY <1>1, <2>1, <2>2, <2>3, CallReturns DEF CardInv
<1>10. CASE ~(stage = "csd" /\ Len(buf) = 24) /\ ~(stage = "read" /\ Len(buf) = BlockBytes)
    <2> DEFINE b == Card!Out(card)
    <2>1. /\ buf' = Append(buf, b) /\ card' = c /\ op' = op /\ usable' = usable /\ stage' = stage
          /\ pc' = pc /\ count' = count /\ retries' = retries /\ response' = response
          /\ result' = result
        BY <1>10 DEF Card!ReadData
    <2> HIDE DEF c, b
    <2>2. b \in Byte /\ b \in Nat
        BY <1>3, BytesAreNumbers DEF b
    <2>3. DriverTyped'
        BY <1>1, <1>2, <2>1, <2>2 DEF CardInv, DriverTyped
    <2>4. Bounds'
        BY <1>1, <2>1 DEF CardInv, Bounds
    <2>5. ASSUME stage = "csd", buf'[1] = 64 PROVE card.kind = "blocks"
        <3>1. CASE buf # <<>>
            BY <1>1, <2>1, <2>2, <2>5, <3>1
        <3>2. CASE buf = <<>>
            <4>1. b = 64
                BY <2>1, <2>2, <2>5, <3>2
            <4>2. card.in /\ card.out # <<>> /\ Head(card.out) = 64
                BY <1>3, <4>1 DEF b
            <4>3. Block = Card!CSD(card.kind)
                BY <1>1, <2>5 DEF Block
            <4>4. Len(Block) = 16 /\ Block[1] = IF card.kind = "blocks" THEN 64 ELSE 0
                BY <4>3, CsdIsBytes
            <4>5. card.out[1] = Block[1]
                <5>1. Delivered(buf, card.out, Block)
                    BY <1>5, <4>2
                <5>2. Len(buf) = 0 /\ 1 \in 1 .. Len(Block)
                    BY <3>2, <4>4
                <5>3. IF 1 <= Len(buf) THEN buf[1] = Block[1]
                      ELSE 1 - Len(buf) <= Len(card.out) /\ card.out[1 - Len(buf)] = Block[1]
                    BY <5>1, <5>2, Zenon DEF Delivered
                <5> QED
                    BY <5>2, <5>3
            <4>6. card.out[1] = 64
                BY <1>1, <4>2, OneByteOn, CardTyped
            <4> QED
                BY <4>4, <4>5, <4>6
        <3> QED
            BY <3>1, <3>2
    <2>6. Progress'
        BY <1>1, <1>2, <2>1, <2>5 DEF CardInv, Progress, SameCard
    <2>7. ASSUME card'.in PROVE Reads' /\ Writes'
        <3>1. card.in /\ card.kind = card'.kind /\ card.blocks = card'.blocks
            BY <1>2, <2>1, <2>7 DEF SameCard
        <3>2. Block' = Block
            BY <2>1, <3>1 DEF Block
        <3>3. Delivered(buf', card'.out, Block)
            <4>1. card.out \in Seq(Byte)
                BY <1>1, CardTyped
            <4>2. CASE card.out # <<>>
                BY <1>1, <1>2, <1>3, <1>4, <1>5, <2>1, <3>1, <4>1, <4>2, DeliveredOn DEF b
            <4>3. CASE card.out = <<>>
                BY <1>1, <1>2, <1>4, <1>5, <2>1, <2>2, <3>1, <4>1, <4>3, DeliveredOn
            <4> QED
                BY <4>2, <4>3
        <3> QED
            BY <1>1, <2>1, <3>2, <3>3 DEF Reads, Writes
    <2>8. Keeps
        BY <1>1, <1>2, <2>1, CallGoesOn
    <2> QED
        BY <2>3, <2>4, <2>6, <2>7, <2>8 DEF CardInv
<1> QED
    BY <1>7, <1>8, <1>9, <1>10

\* The two bytes behind a block, the second of which ends it.
LEMMA FirstBehind ==
    ASSUME NEW data \in Contents, NEW s, s = Append(data, 255)
    PROVE  /\ data \in Seq(Byte) /\ Len(data) = BlockBytes /\ BlockBytes \in Nat \ {0}
           /\ s \in Seq(Byte) /\ Len(s) = BlockBytes + 1
           /\ \A i \in 1 .. BlockBytes : s[i] = data[i]
<1>1. data \in [1 .. BlockBytes -> Byte] /\ BlockBytes \in Nat \ {0}
    BY CardAssumption DEF Byte
<1>2. data \in Seq(Byte) /\ Len(data) = BlockBytes
    BY <1>1, BytesInRow
<1> QED
    BY <1>1, <1>2, BytesAreNumbers

GotAll(t, data) == Len(t) = BlockBytes + 2 /\ SubSeq(t, 1, BlockBytes) = data

LEMMA SecondBehind ==
    ASSUME NEW data \in Contents, NEW s, s = Append(data, 255), NEW t, t = Append(s, 255)
    PROVE  GotAll(t, data)
<1>1. /\ data \in Seq(Byte) /\ Len(data) = BlockBytes /\ BlockBytes \in Nat \ {0}
      /\ s \in Seq(Byte) /\ Len(s) = BlockBytes + 1
      /\ \A i \in 1 .. BlockBytes : s[i] = data[i]
    BY FirstBehind
<1>2. t \in Seq(Byte) /\ Len(t) = BlockBytes + 2 /\ \A i \in 1 .. BlockBytes : t[i] = s[i]
    BY <1>1, BytesAreNumbers
<1>3. SubSeq(t, 1, BlockBytes) \in Seq(Byte) /\ Len(SubSeq(t, 1, BlockBytes)) = BlockBytes
      /\ \A i \in 1 .. BlockBytes : SubSeq(t, 1, BlockBytes)[i] = t[i]
    BY <1>1, <1>2
<1> DEFINE u == SubSeq(t, 1, BlockBytes)
<1> HIDE DEF u
<1>4. u \in Seq(Byte) /\ Len(u) = Len(data) /\ \A i \in 1 .. Len(data) : u[i] = data[i]
    BY <1>1, <1>2, <1>3 DEF u
<1>5. u = data
    BY <1>1, <1>4
<1> QED
    BY <1>2, <1>5 DEF u, GotAll

\* What a step changes of the card.
WithGot(x, g) == [x EXCEPT !.got = g]
JobEnded(x) == [x EXCEPT !.job = "none", !.got = <<>>, !.out = x.then]
WithBlocks(x, b) == [x EXCEPT !.blocks = b, !.stored = TRUE]

GotIs(c, x, g) ==
    /\ c \in CardStates /\ c.in = x.in /\ c.sel = x.sel /\ c.kind = x.kind
    /\ c.job = x.job /\ c.got = g /\ c.out = x.out /\ c.then = x.then
    /\ c.stored = x.stored /\ c.blocks = x.blocks
StoredIs(c, x, b) ==
    /\ c \in CardStates /\ c.in = x.in /\ c.sel = x.sel /\ c.kind = x.kind
    /\ c.job = x.job /\ c.out = x.out /\ c.stored = TRUE /\ c.blocks = b

LEMMA GotSet ==
    ASSUME NEW x \in CardStates, NEW g \in Seq(Byte)
    PROVE  GotIs(WithGot(x, g), x, g)
    BY DEF CardStates, WithGot, GotIs

LEMMA JobDone ==
    ASSUME NEW x \in CardStates, NEW c, c = JobEnded(x)
    PROVE  /\ c \in CardStates /\ c.in = x.in /\ c.sel = x.sel /\ c.kind = x.kind
           /\ c.job = "none" /\ c.out = x.then /\ c.stored = x.stored /\ c.blocks = x.blocks
<1>1. <<>> \in Seq(Byte) /\ x.then \in Seq(Byte)
    BY CardTyped
<1> QED
    BY <1>1 DEF CardStates, JobEnded

LEMMA BlockStored ==
    ASSUME NEW x \in CardStates, NEW blocks \in [Blocks -> Contents]
    PROVE  StoredIs(WithBlocks(x, blocks), x, blocks)
    BY DEF CardStates, WithBlocks, StoredIs

\* The card is given a byte of the block it fills, or the last behind it.
Fills ==
    /\ DriverTyped /\ op.kind = "write" /\ card.kind = "blocks" /\ card.in /\ card.sel
    /\ card.out = <<>> /\ card.job = "data" /\ card.got \in {op.data, Append(op.data, 255)}
    /\ ~card.stored /\ Verdict(card.then, Card!Accepts(card))
StillFills(c) ==
    /\ c.job = "data" /\ c.got = Append(op.data, 255) /\ c.out = <<>>
    /\ c.then = card.then /\ ~c.stored /\ c.blocks = card.blocks
HasFilled(c) ==
    /\ c.job = "none" /\ Verdict(c.out, c.stored)
    /\ ~c.stored => c.blocks = card.blocks
    /\ c.stored => c.blocks = [card.blocks EXCEPT ![op.nr] = op.data]

LEMMA CardFilled ==
    ASSUME Fills, NEW c, c = Card!Clock(card, 255)
    PROVE  /\ c \in CardStates /\ c.in /\ c.sel /\ c.kind = card.kind
           /\ StillFills(c) \/ HasFilled(c)
<1>1. op.data \in Contents /\ op.nr \in Blocks /\ card \in CardStates
    BY NoOpIsNone DEF DriverTyped, Fills
<1>a. card.in /\ card.sel /\ card.out = <<>> /\ card.job = "data" /\ card.stored = FALSE
    BY <1>1, CardTyped DEF Fills
<1>2. c = Card!Given(card, 255)
    BY <1>a DEF Card!Clock
<1>3. PICK got : got = Append(card.got, 255)
    OBVIOUS
<1>4. CASE card.got = op.data
    <2>0. got = Append(op.data, 255)
        BY <1>3, <1>4
    <2>1. got \in Seq(Byte) /\ Len(got) = BlockBytes + 1 /\ BlockBytes \in Nat \ {0}
        BY <1>1, <2>0, FirstBehind, Zenon
    <2>2. Len(got) < BlockBytes + 2 => c = WithGot(card, got)
        BY <1>2, <1>3 DEF Card!Given, WithGot
    <2>3. c = WithGot(card, got)
        BY <2>1, <2>2
    <2>4. /\ c \in CardStates /\ c.in = card.in /\ c.sel = card.sel /\ c.kind = card.kind
          /\ c.job = card.job /\ c.got = got /\ c.out = card.out /\ c.then = card.then
          /\ c.stored = card.stored /\ c.blocks = card.blocks
        <3>1. GotIs(c, card, got)
            BY <1>1, <2>1, <2>3, GotSet, Zenon
        <3> QED
            BY <3>1 DEF GotIs
    <2>5. StillFills(c)
        <3>1. c.got = Append(op.data, 255)
            BY <2>0, <2>4, Zenon
        <3>2. /\ c.job = "data" /\ c.out = <<>> /\ c.then = card.then /\ c.blocks = card.blocks
              /\ ~c.stored
            BY <1>a, <2>4
        <3> QED
            BY <3>1, <3>2, Zenon DEF StillFills
    <2> QED
        BY <1>a, <2>4, <2>5
<1>5. CASE card.got = Append(op.data, 255)
    <2>1. Len(got) = BlockBytes + 2 /\ SubSeq(got, 1, BlockBytes) = op.data
        <3>1. GotAll(got, op.data)
            BY <1>1, <1>3, <1>5, SecondBehind, Zenon
        <3> QED
            BY <3>1 DEF GotAll
    <2>2. Card!Addressed(op.nr) = op.nr
        BY DEF Card!Addressed, Fills
    <2>3. PICK d : d = JobEnded(card)
        OBVIOUS
    <2>4. PICK blocks : blocks = [d.blocks EXCEPT ![op.nr] = op.data]
        OBVIOUS
    <2>5. /\ d \in CardStates /\ d.in = card.in /\ d.sel = card.sel /\ d.kind = card.kind
          /\ d.job = "none" /\ d.out = card.then /\ d.blocks = card.blocks
          /\ d.stored = card.stored
        BY <1>1, <2>3, JobDone, Zenon
    <2>6. c = IF ~Card!Accepts(card) THEN d ELSE WithBlocks(d, blocks)
        <3>1. ~(Len(got) < BlockBytes + 2)
            BY <2>1, CardAssumption
        <3>2. c = IF ~Card!Accepts(card) THEN JobEnded(card)
                  ELSE WithBlocks(JobEnded(card), [JobEnded(card).blocks EXCEPT
                           ![Card!Addressed(op.nr)] = SubSeq(got, 1, BlockBytes)])
            BY <1>2, <1>3, <3>1 DEF Card!Given, JobEnded, WithBlocks
        <3> QED
            BY <2>1, <2>2, <2>3, <2>4, <3>2, Zenon
    <2>7. Verdict(card.then, Card!Accepts(card))
        BY DEF Fills
    <2>8. CASE ~Card!Accepts(card)
        <3>1. c = d
            BY <2>6, <2>8, Zenon
        <3>2. Card!Accepts(card) = FALSE
            BY <2>8 DEF Card!Accepts
        <3>3. Verdict(c.out, c.stored)
            BY <1>a, <2>5, <2>7, <3>1, <3>2, Zenon
        <3>4. HasFilled(c)
            BY <1>a, <2>5, <3>1, <3>3, Zenon DEF HasFilled
        <3> QED
            BY <1>a, <2>5, <3>1, <3>4, Zenon
    <2>9. CASE Card!Accepts(card)
        <3>1. blocks \in [Blocks -> Contents] /\ blocks = [card.blocks EXCEPT ![op.nr] = op.data]
            BY <1>1, <2>4, <2>5, CardTyped
        <3>2. c = WithBlocks(d, blocks)
            BY <2>6, <2>9, Zenon
        <3>3. Card!Accepts(card) = TRUE
            BY <2>9 DEF Card!Accepts
        <3>4. /\ c \in CardStates /\ c.in = d.in /\ c.sel = d.sel /\ c.kind = d.kind
              /\ c.job = d.job /\ c.out = d.out /\ c.stored = TRUE /\ c.blocks = blocks
            <4>1. StoredIs(c, d, blocks)
                BY <2>5, <3>1, <3>2, BlockStored, Zenon
            <4> QED
                BY <4>1 DEF StoredIs
        <3>5. Verdict(c.out, c.stored)
            BY <2>5, <2>7, <3>3, <3>4, Zenon
        <3>6. HasFilled(c)
            BY <2>5, <3>1, <3>4, <3>5, Zenon DEF HasFilled
        <3> QED
            BY <1>a, <2>5, <3>4, <3>6, Zenon
    <2> QED
        BY <2>8, <2>9
<1> QED
    BY <1>4, <1>5 DEF Fills

\* What a card that has been given its block says.
LEMMA VerdictByte ==
    ASSUME NEW b \in Byte, NEW stored \in BOOLEAN
    PROVE  /\ b = 255 => b % 2 = 1 /\ (b \div 16) % 2 = 1
           /\ b \in {5, 229} => b % 2 = 1 /\ (b \div 16) % 2 = 0 /\ (b \div 2) % 8 = 2
           /\ b \in {11, 13} => b % 2 = 1 /\ (b \div 16) % 2 = 0 /\ (b \div 2) % 8 \in {5, 6}
    OBVIOUS

LEMMA StoreOrNone ==
    ASSUME DriverTyped, op.kind = "write", card.in, ~card.stored, op' = op, buf' = buf,
           result' = result, NEW c, card' = c, c.in, StillFills(c) \/ HasFilled(c),
           c \in CardStates
    PROVE  Keeps
<1>1. op # Card!NoOp
    BY NoOpIsNone DEF DriverTyped
<1>2. CASE c.blocks = card.blocks /\ c.stored = card.stored
    BY <1>1, <1>2 DEF Keeps, Card!Promised!vars, CardStates, DriverTyped
<1>3. CASE c.stored = TRUE /\ c.blocks = [card.blocks EXCEPT ![op.nr] = op.data]
    <2>1. Card!Promised!Store
        BY <1>1, <1>3 DEF Card!Promised!Store, CardStates, DriverTyped
    <2> QED
        BY <2>1 DEF Keeps, Card!Promised!Next
<1> QED
    BY <1>2, <1>3, CardTyped DEF StillFills, HasFilled, DriverTyped

\* The answer to a block written.
LEMMA DataResponseStep ==
    ASSUME CardInv, Card!DataResponse
    PROVE  CardInv' /\ Keeps
<1> DEFINE c == Card!Clock(card, 255)
           r == Card!Out(card)
           code == (r \div 2) % 8
<1>1. /\ pc = "response" /\ card \in CardStates /\ op \in Card!Requests /\ op.kind = "write"
      /\ op # Card!NoOp /\ card.sel /\ usable /\ card.kind = "blocks" /\ stage = "write"
      /\ r \in Byte
    <2>1. pc = "response"
        BY DEF Card!DataResponse
    <2>2. op.kind = "write"
        BY <2>1, NoOpIsNone DEF CardInv, DriverTyped, Progress
    <2> QED
        BY <2>1, <2>2, NoOpIsNone, OutIsByte DEF CardInv, DriverTyped, Progress
<1>2. \/ /\ r % 2 = 0 \/ (r \div 16) % 2 = 1
         /\ card' = c /\ response' = r /\ pc' = pc /\ op' = op /\ usable' = usable
         /\ stage' = stage /\ count' = count /\ retries' = retries /\ buf' = buf
         /\ result' = result
      \/ /\ ~(r % 2 = 0 \/ (r \div 16) % 2 = 1) /\ code \in {5, 6} /\ Card!bios_sd_error(c)
      \/ /\ ~(r % 2 = 0 \/ (r \div 16) % 2 = 1) /\ code \notin {5, 6}
         /\ card' = c /\ response' = r /\ pc' = "busy" /\ op' = op /\ usable' = usable
         /\ stage' = stage /\ count' = count /\ retries' = retries /\ buf' = buf
         /\ result' = result
    BY DEF Card!DataResponse
\* A step that goes on: the card may be anything it is after the byte.
<1>3. ASSUME card' = c, response' = r, pc' \in {"response", "busy"}, op' = op, usable' = usable,
             stage' = stage, count' = count, retries' = retries, buf' = buf, result' = result,
             c \in CardStates, c.sel, c.kind = card.kind, pc' = "busy" => c.job = "none" /\ c.stored
      PROVE  DriverTyped' /\ Bounds' /\ Progress'
    <2> HIDE DEF c, r
    <2>1. DriverTyped'
        BY <1>1, <1>3 DEF CardInv, DriverTyped
    <2>2. Bounds'
        BY <1>1, <1>3 DEF CardInv, Bounds
    <2>3. Progress'
        BY <1>1, <1>3 DEF CardInv, Progress
    <2> QED
        BY <2>1, <2>2, <2>3
<1>4. CASE ~card.in
    <2>1. c = card /\ r = 255
        BY <1>1, <1>4, OutIsByte DEF Card!Clock
    <2> HIDE DEF c, r
    <2>2. r % 2 = 1 /\ (r \div 16) % 2 = 1
        BY <2>1
    <2>3. CardInv'
        BY <1>1, <1>2, <1>3, <1>4, <2>1, <2>2 DEF CardInv
    <2>4. Keeps
        BY <1>1, <1>2, <2>1, <2>2, CallGoesOn DEF SameCard
    <2> QED
        BY <2>3, <2>4
<1>5. CASE card.in /\ Fills
    <2>1. c \in CardStates /\ c.in /\ c.sel /\ c.kind = card.kind /\ (StillFills(c) \/ HasFilled(c))
        BY <1>5, CardFilled
    <2>2. r = 255
        BY <1>1, <1>5, OutIsByte DEF Fills
    <2> HIDE DEF c, r
    <2>3. r % 2 = 1 /\ (r \div 16) % 2 = 1
        BY <2>2
    <2>4. /\ card' = c /\ response' = r /\ pc' = pc /\ op' = op /\ usable' = usable
          /\ stage' = stage /\ count' = count /\ retries' = retries /\ buf' = buf
          /\ result' = result
        BY <1>2, <2>3
    <2>5. DriverTyped' /\ Bounds' /\ Progress'
        BY <1>1, <1>3, <2>1, <2>4
    <2>6. Filling(card)'
        <3>1. CASE StillFills(c)
            <4>1. Card!Accepts(c) = Card!Accepts(card)
                BY <3>1 DEF StillFills, Card!Accepts
            <4>2. (Card!Accepts(card))' = Card!Accepts(card)
                BY <2>4, <4>1 DEF Card!Accepts
            <4>3. /\ c.job = "data" /\ c.then = card.then /\ ~c.stored /\ c.out = <<>>
                  /\ c.got = Append(op.data, 255) /\ Verdict(card.then, Card!Accepts(card))
                BY <1>5, <3>1 DEF StillFills, Fills
            <4> QED
                BY <2>4, <4>2, <4>3 DEF Filling
        <3>2. CASE HasFilled(c)
            BY <2>4, <3>2 DEF HasFilled, Filling
        <3> QED
            BY <2>1, <3>1, <3>2
    <2>7. Reads' /\ Writes'
        BY <1>1, <2>4, <2>6 DEF Reads, Writes
    <2>8. DriverTyped /\ ~card.stored
        BY <1>5 DEF Fills
    <2>9. Keeps
        BY <1>1, <1>5, <2>1, <2>4, <2>8, StoreOrNone
    <2> QED
        BY <2>5, <2>7, <2>9 DEF CardInv
<1>6. CASE card.in /\ card.job = "none" /\ Verdict(card.out, card.stored)
    <2>1. card.out \in Seq(Byte) /\ card.stored \in BOOLEAN
        BY <1>1, CardTyped
    <2>2. /\ card.out # <<>>
          /\ \/ card.out[1] = 255 /\ Verdict(Tail(card.out), card.stored)
             \/ card.out[1] \in IF card.stored THEN {5, 229} ELSE {11, 13}
        BY <1>6, <2>1, VerdictOn
    <2>3. /\ c \in CardStates /\ SameCard(card, c) /\ c.sel /\ c.job = "none"
          /\ c.out = Tail(card.out) /\ r = card.out[1]
        BY <1>1, <1>6, <2>2, ClockReads, OutIsByte
    <2> HIDE DEF c, r
    <2>4. CASE r = 255
        <3>1. r % 2 = 1 /\ (r \div 16) % 2 = 1
            BY <2>4
        <3>2. /\ card' = c /\ response' = r /\ pc' = pc /\ op' = op /\ usable' = usable
              /\ stage' = stage /\ count' = count /\ retries' = retries /\ buf' = buf
              /\ result' = result
            BY <1>2, <3>1
        <3>3. DriverTyped' /\ Bounds' /\ Progress'
            BY <1>1, <1>3, <2>3, <3>2 DEF SameCard
        <3>4. Verdict(card'.out, card'.stored) /\ card'.job = "none"
            BY <2>2, <2>3, <2>4, <3>2 DEF SameCard
        <3>5. Reads' /\ Writes'
            BY <1>1, <3>2, <3>4 DEF Reads, Writes, Filling
        <3>6. Keeps
            BY <1>1, <2>3, <3>2, CallGoesOn
        <3> QED
            BY <3>3, <3>5, <3>6 DEF CardInv
    <2>5. CASE card.stored /\ r \in {5, 229}
        <3>1. ~(r % 2 = 0 \/ (r \div 16) % 2 = 1) /\ code \notin {5, 6}
            BY <1>1, <2>5, VerdictByte
        <3>2. /\ card' = c /\ response' = r /\ pc' = "busy" /\ op' = op /\ usable' = usable
              /\ stage' = stage /\ count' = count /\ retries' = retries /\ buf' = buf
              /\ result' = result
            BY <1>2, <3>1
        <3>3. DriverTyped' /\ Bounds' /\ Progress'
            BY <1>1, <1>3, <2>3, <2>5, <3>2 DEF SameCard
        <3>4. Reads' /\ Writes'
            BY <1>1, <2>3, <2>5, <3>2 DEF Reads, Writes, SameCard
        <3>5. Keeps
            BY <1>1, <2>3, <3>2, CallGoesOn
        <3> QED
            BY <3>3, <3>4, <3>5 DEF CardInv
    <2>6. CASE ~card.stored /\ r \in {11, 13}
        <3>1. ~(r % 2 = 0 \/ (r \div 16) % 2 = 1) /\ code \in {5, 6}
            BY <1>1, <2>6, VerdictByte
        <3>2. Card!Return(c, "ERR", <<>>) /\ <<>> \in Seq(Nat)
            BY <1>2, <3>1 DEF Card!bios_sd_error
        <3> QED
            BY <1>1, <2>3, <2>6, <3>2, CallReturns DEF CardInv, Kept
    <2> QED
        BY <2>1, <2>2, <2>3, <2>4, <2>5, <2>6
<1> QED
    <2>1. card.in => Fills \/ (card.job = "none" /\ Verdict(card.out, card.stored))
        BY <1>1 DEF CardInv, Writes, Filling, Fills
    <2> QED
        BY <1>4, <1>5, <1>6, <2>1

\* The card is busy until it has stored the block.
LEMMA BusyStep ==
    ASSUME CardInv, Card!Busy
    PROVE  CardInv' /\ Keeps
<1> DEFINE c == Card!Clock(card, 255)
<1>1. /\ pc = "busy" /\ card \in CardStates /\ op \in Card!Requests /\ op.kind = "write"
      /\ op # Card!NoOp /\ card.sel /\ usable /\ card.kind = "blocks" /\ stage = "write"
      /\ (card.in => card.job = "none" /\ card.stored)
    <2>1. pc = "busy"
        BY DEF Card!Busy
    <2>2. op.kind = "write"
        BY <2>1, NoOpIsNone DEF CardInv, DriverTyped, Progress
    <2> QED
        BY <2>1, <2>2, NoOpIsNone DEF CardInv, DriverTyped, Progress, Writes
<1>2. /\ c \in CardStates /\ SameCard(card, c) /\ c.sel /\ c.job = card.job
    BY <1>1, ClockReads
<1>3. CASE Card!Out(card) # 0
    <2>1. Card!Return(c, "OK", <<>>) /\ <<>> \in Seq(Nat)
        BY <1>3 DEF Card!Busy
    <2> HIDE DEF c
    <2> QED
        BY <1>1, <1>2, <2>1, CallReturns DEF CardInv, Kept
<1>4. CASE Card!Out(card) = 0
    <2>1. /\ card' = c /\ op' = op /\ usable' = usable /\ stage' = stage /\ pc' = pc
          /\ count' = count /\ retries' = retries /\ response' = response /\ buf' = buf
          /\ result' = result
        BY <1>4 DEF Card!Busy
    <2> HIDE DEF c
    <2>2. DriverTyped'
        BY <1>1, <1>2, <2>1 DEF CardInv, DriverTyped
    <2>3. Bounds' /\ Progress'
        BY <1>1, <1>2, <2>1 DEF CardInv, Bounds, Progress, SameCard
    <2>4. card'.in => Reads' /\ Writes'
        BY <1>1, <1>2, <2>1 DEF Reads, Writes, SameCard
    <2>5. Keeps
        BY <1>1, <1>2, <2>1, CallGoesOn
    <2> QED
        BY <2>2, <2>3, <2>4, <2>5 DEF CardInv
<1> QED
    BY <1>3, <1>4

LEMMA CardStep ==
    ASSUME CardInv, Card!Next
    PROVE  CardInv' /\ Keeps
<1>1. CASE Card!Driver
    BY <1>1, PollStep, JudgeStep, BeginStep, TokenStep, ReadDataStep, DataResponseStep, BusyStep
    DEF Card!Driver
<1> QED
    BY <1>1, PullStep, CallStep DEF Card!Next

LEMMA CardTypes ==
    ASSUME CardInv
    PROVE  Card!TypeOK
<1>1. /\ op \in Card!Requests /\ usable \in BOOLEAN /\ stage \in DOMAIN Card!CMD
      /\ pc \in {"idle", "poll", "judge", "begin", "token", "data", "response", "busy"}
      /\ result \in {"none", "OK", "ERR"}
    BY DEF CardInv, DriverTyped, CardStages, Card!CMD
<1>2. count \in 0 .. CmdPolls + TokenPolls + CsdPolls + 2
    BY CardAssumption DEF CardInv, DriverTyped, Bounds
<1>3. retries \in 0 .. ResetTries + ReadyTries + 1
    BY CardAssumption DEF CardInv, DriverTyped, Bounds
<1>4. card.blocks \in [Blocks -> Contents]
    BY CardTyped DEF CardInv, DriverTyped
<1>5. (pc = "idle") = (op = Card!NoOp)
    BY NoOpIsNone DEF CardInv, DriverTyped, Progress
<1>6. op = Card!NoOp => ~card.sel
    BY NoOpIsNone DEF CardInv, DriverTyped, Progress
<1> QED
    BY <1>1, <1>2, <1>3, <1>4, <1>5, <1>6 DEF Card!TypeOK

\* The driver of the card keeps the promise of BlockDevice: whatever the card
\* answers, however late, and whenever it is pulled out, a block read is the
\* card's block, a block written is on the card when the call says OK and
\* unchanged when it reports an error, and no card that numbers bytes is taken
\* for one that numbers blocks (bios_sdcard.c).
THEOREM DriverKeepsPromise == Spec => ImplementsBlockDevice
<1> DEFINE Inv == active = "card" => CardInv
           Promise == active = "card" => Keeps
<1>1. Init => Inv /\ (active = "card" => Card!Promised!Init)
    BY CardStarts DEF Init
<1>2. ASSUME Inv, [Next]_vars
      PROVE  Inv' /\ Promise
    <2>1. CASE UNCHANGED vars
        BY <1>2, <2>1, CardQuiet DEF vars
    <2>2. CASE Alone("card") /\ Card!Next
        BY <1>2, <2>2, CardStep DEF Alone
    <2>3. CASE Next /\ active # "card"
        BY <2>3 DEF Next, Alone
    <2> QED
        BY <1>2, <2>1, <2>2, <2>3 DEF Next, Alone
<1>3. Inv => (active = "card" => Card!TypeOK)
    BY CardTypes
<1>4. Promise => [active = "card" => [Card!Promised!Next]_(Card!Promised!vars)]_vars
    BY DEF Keeps
<1> QED
    BY <1>1, <1>2, <1>3, <1>4, PTL DEF Spec, ImplementsBlockDevice
=============================================================================
