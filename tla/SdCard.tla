------------------------------- MODULE SdCard --------------------------------
(***************************************************************************)
(* The driver of the SD card (software/spu32-system/bios/bios_sdcard.c), a   *)
(* byte exchanged with the card at a time.  The six bytes of a command are  *)
(* one step, and so are the bytes the driver sends without looking at what  *)
(* comes back.  The card is external: it answers as the driver expects of   *)
(* it, late, with an error or not at all, and may be pulled out at any time.*)
(***************************************************************************)
EXTENDS Integers, Sequences

CONSTANTS BlockBytes,   \* bytes of a block, 512
          CmdPolls,     \* bytes waited for the answer to a command, 100
          ResetTries,   \* CMD0 sent again, 100
          ReadyTries,   \* ACMD41 sent again, 1000
          TokenPolls,   \* bytes waited for a block read, 10000
          CsdPolls,     \* bytes waited for the card's data, 1000
          Blocks,       \* block numbers of the card
          Contents,     \* what a block may hold
          Kinds,        \* kinds of card: "v1", "bytes", "blocks"
          Delays        \* bytes a card may be late

VARIABLES card,      \* the card
          op,        \* request served: kind, block number, data
          usable,    \* the last bios_sd_init returned OK
          stage,     \* which command of the request
          pc,        \* where in it
          count, retries, response, buf,   \* locals of the driver
          result     \* result of the last call

vars == <<card, op, usable, stage, pc, count, retries, response, buf, result>>

NoOp  == [kind |-> "none", nr |-> 0, data |-> <<>>]
-----------------------------------------------------------------------------
(* The card. *)

Late(n)  == [i \in 1 .. n |-> 255]
csize    == <<1, 2, 3>>                     \* C_SIZE of its CSD, highest first
Blocks1K == 1 * 65536 + 2 * 256 + 3 + 1      \* its size in 1024 blocks
CSD(kind) == [i \in 1 .. 16 |-> CASE i = 1 -> IF kind = "blocks" THEN 64 ELSE 0
                                  [] i \in 8 .. 10 -> csize[i - 7]
                                  [] OTHER -> 0]
Crc == <<1, 1>>                             \* two bytes nobody looks at

\* The block a number stands for: older cards count bytes.
Addressed(nr) == IF card.kind = "blocks" THEN nr ELSE nr \div BlockBytes

\* The same answer after any delay, and data after their token.
Says(c, bytes) == {[c EXCEPT !.out = Late(d) \o bytes] : d \in Delays}
WithToken(data) == <<0, 255, 254>> \o data \o Crc
R1(c) == IF c.ready THEN 0 ELSE 1

\* A card that is given a block to write answers after it: its answer is drawn
\* here.
Verdicts == {<<229, 0, 0, 1>>, <<5>>, <<11>>, <<13>>}
Taking(c, d, a) == [c EXCEPT !.job = "token", !.then = Late(d) \o a]
Takes(c) == {Taking(x, d, a) : x \in Says(c, <<0>>), d \in Delays, a \in Verdicts}

\* What the card may answer to a command, and how it is then.
Answer(c, cmd, nr) ==
  CASE cmd = 0  -> {c} \cup {[x EXCEPT !.ready = FALSE] : x \in Says(c, <<1>>)}
    [] cmd = 8  -> Says(c, IF c.kind = "v1" THEN <<5>> ELSE <<R1(c), 0, 0, 1, 170>>)
    [] cmd = 58 -> Says(c, <<R1(c), 0, 0, 0, 0>>)
    [] cmd = 55 -> Says(c, <<R1(c)>>)
    [] cmd = 41 -> Says(c, <<1>>)
                   \cup {[x EXCEPT !.ready = TRUE] : x \in Says(c, <<0>>)}
    [] cmd \in {9, 17, 24} /\ ~c.ready -> Says(c, <<5>>)
    [] cmd = 9 /\ c.ready  -> Says(c, WithToken(CSD(c.kind)))
    [] cmd = 17 /\ c.ready -> Says(c, WithToken(c.blocks[Addressed(nr)]))
                              \cup Says(c, <<0, 8>>) \cup Says(c, <<64>>)
    [] cmd = 24 /\ c.ready -> Takes(c) \cup Says(c, <<64>>)

\* One byte exchanged: what comes back, and the card after it.
Out(c) == IF c.in /\ c.sel /\ c.out # <<>> THEN Head(c.out) ELSE 255

Accepts(c) == \E i \in DOMAIN c.then : c.then[i] \in {5, 229}
Given(c, b) ==
  LET got == Append(c.got, b)
  IN IF Len(got) < BlockBytes + 2 THEN [c EXCEPT !.got = got]
     ELSE LET d == [c EXCEPT !.job = "none", !.got = <<>>, !.out = c.then]
          IN IF ~Accepts(c) THEN d
             ELSE [d EXCEPT !.blocks = [@ EXCEPT ![Addressed(op.nr)] = SubSeq(got, 1, BlockBytes)],
                            !.stored = TRUE]

\* The token, and the bytes of a block.
Filled(c, bytes) == IF c.in /\ c.job = "token"
                    THEN [c EXCEPT !.job = "data", !.got = bytes] ELSE c

Clock(c, b) ==
  IF ~(c.in /\ c.sel) THEN c
  ELSE IF c.out # <<>> THEN [c EXCEPT !.out = Tail(@)]
  ELSE IF c.job = "data" THEN Given(c, b) ELSE c

Pull == card.in /\ card' = [card EXCEPT !.in = FALSE]
        /\ UNCHANGED <<op, usable, stage, pc, count, retries, response, buf, result>>
-----------------------------------------------------------------------------
(* The driver. *)

Init ==
  /\ card \in [in : {TRUE}, sel : {FALSE}, kind : Kinds, ready : {FALSE},
               out : {<<>>}, job : {"none"}, got : {<<>>}, then : {<<>>},
               stored : {FALSE}, blocks : [Blocks -> Contents]]
  /\ op = NoOp /\ usable = FALSE /\ stage = "reset" /\ pc = "idle"
  /\ count = 0 /\ retries = 0 /\ response = 0 /\ buf = <<>> /\ result = "none"

CMD == [reset |-> 0, if_cond |-> 8, ocr |-> 58, app |-> 55, op_cond |-> 41,
        capacity |-> 58, csd |-> 9, read |-> 17, write |-> 24]

\* The bytes sent around them tell the card nothing.
bios_sd_select(c)   == [c EXCEPT !.sel = TRUE]
bios_sd_deselect(c) == [c EXCEPT !.sel = FALSE, !.out = <<>>, !.job = "none",
                                 !.got = <<>>]

\* bios_sd_assemble_cmd and the six bytes; the card's data is waited for at
\* once, every other answer is polled.
Command(c, s) ==
  LET on == bios_sd_select(c)
  IN /\ card' \in IF on.in THEN Answer(on, CMD[s], op'.nr) ELSE {on}
     /\ stage' = s /\ pc' = IF s = "csd" THEN "token" ELSE "poll"
     /\ count' = 0

Return(c, res, b) ==
  /\ card' = bios_sd_deselect(c)
  /\ op' = NoOp /\ pc' = "idle" /\ result' = res /\ buf' = b
  /\ count' = 0 /\ retries' = 0 /\ response' = 0
  /\ usable' = IF op.kind = "init" THEN res = "OK" ELSE usable
  /\ UNCHANGED stage
bios_sd_error(c) == Return(c, "ERR", <<>>)

\* The disk layer reads and writes only what it could set up.
Requests == {NoOp} \cup [kind : {"init"}, nr : {0}, data : {<<>>}]
            \cup [kind : {"read"}, nr : Blocks, data : {<<>>}]
            \cup [kind : {"write"}, nr : Blocks, data : Contents]
Call(r) ==
  /\ op = NoOp /\ r # NoOp /\ (r.kind # "init" => usable)
  /\ op' = r /\ buf' = <<>> /\ retries' = 0 /\ response' = 0 /\ result' = "none"
  /\ LET c == [card EXCEPT !.stored = FALSE]
     IN CASE r.kind = "init" ->
               Command(bios_sd_deselect(bios_sd_select(bios_sd_deselect(c))), "reset")
          [] OTHER -> Command(c, r.kind)
  /\ UNCHANGED usable

\* The answer to a command.  bios_sd_send_cmd takes four more bytes and
\* deselects the card.
Poll ==
  /\ pc = "poll" /\ response' = Out(card) /\ count' = count + 1
  /\ LET c == Clock(card, 255)
     IN IF response' >= 128 /\ count' < CmdPolls
        THEN card' = c /\ UNCHANGED pc
        ELSE IF op.kind = "init"
             THEN card' = bios_sd_deselect(c) /\ pc' = "judge"
             ELSE card' = c /\ pc' = "begin"
  /\ UNCHANGED <<op, usable, stage, retries, buf, result>>

Retried_NotCounted == retries
Retried == retries + 1

Judge ==
  /\ pc = "judge"
  /\ LET Go(s, n) == Command(card, s) /\ retries' = n
                     /\ UNCHANGED <<op, usable, response, buf, result>>
         Check(good, s, n) == IF good THEN Go(s, n) ELSE bios_sd_error(card)
     IN CASE stage = "reset"    -> IF response = 1 THEN Go("if_cond", 0)
                                   ELSE Check(retries <= ResetTries, "reset", Retried)
          [] stage = "if_cond"  -> Check(response # 0, "ocr", 0)
          [] stage = "ocr"      -> Check(response # 0, "app", 0)
          [] stage = "app"      -> Check(response = 1, "op_cond", retries)
          [] stage = "op_cond"  -> IF response = 0 THEN Go("capacity", 0)
                                   ELSE Check(retries < ReadyTries, "app", Retried)
          [] stage = "capacity" -> Check(response = 0, "csd", 0)

\* bios_sd_read_block and bios_sd_write_block, once the command is answered.
Begin ==
  /\ pc = "begin"
  /\ IF response # 0 THEN bios_sd_error(card)
     ELSE /\ IF op.kind = "read" THEN pc' = "token" /\ UNCHANGED card
             ELSE pc' = "response" /\ card' = Filled(card, op.data)
          /\ count' = 0
          /\ UNCHANGED <<op, usable, stage, retries, response, buf, result>>

\* The token before a block or the CSD.
Token ==
  /\ pc = "token"
  /\ LET c == Clock(card, 255)
     IN IF count > (IF stage = "csd" THEN CsdPolls ELSE TokenPolls)
        THEN bios_sd_error(c)
        ELSE /\ card' = c /\ count' = count + 1 /\ response' = Out(card)
             /\ pc' = IF response' = 254 THEN "data" ELSE "token"
             /\ UNCHANGED <<op, usable, stage, retries, buf, result>>

\* CSD version 2: a card that numbers blocks.
IsVersion2_Always(csd) == TRUE
IsVersion2(csd) == csd[1] = 64

ReadData ==
  /\ pc = "data"
  /\ IF stage = "csd" /\ Len(buf) = 24
     THEN IF ~IsVersion2(buf) THEN bios_sd_error(card)
          ELSE Return(card, "OK",   \* in 1024 blocks: << 10 in 32 bits
                      <<(buf[8] * 65536 + buf[9] * 256 + buf[10] + 1) % 4194304>>)
     ELSE IF stage = "read" /\ Len(buf) = BlockBytes
     THEN Return(card, "OK", buf)
     ELSE /\ buf' = Append(buf, Out(card)) /\ card' = Clock(card, 255)
          /\ UNCHANGED <<op, usable, stage, pc, count, retries, response, result>>

\* The data response xxx0xxx1 has no bound, nor has the wait while the card is
\* busy.
DataResponse ==
  /\ pc = "response" /\ LET r == Out(card)
                            c == Clock(card, 255)
                            code == (r \div 2) % 8
     IN IF r % 2 = 0 \/ (r \div 16) % 2 = 1
        THEN card' = c /\ response' = r
             /\ UNCHANGED <<op, usable, stage, pc, count, retries, buf, result>>
        ELSE IF code \in {5, 6} THEN bios_sd_error(c)
        ELSE card' = c /\ response' = r /\ pc' = "busy"
             /\ UNCHANGED <<op, usable, stage, count, retries, buf, result>>

Busy ==
  /\ pc = "busy"
  /\ IF Out(card) # 0 THEN Return(Clock(card, 255), "OK", <<>>)
     ELSE card' = Clock(card, 255)
          /\ UNCHANGED <<op, usable, stage, pc, count, retries, response, buf, result>>

Driver == Poll \/ Judge \/ Begin \/ Token \/ ReadData \/ DataResponse \/ Busy
Next == Driver \/ Pull \/ \E r \in Requests : Call(r)
Spec == Init /\ [][Next]_vars /\ WF_vars(Driver)
-----------------------------------------------------------------------------
\* Types of the driver's variables, and the card's number of bytes.
TypeOK ==
  /\ op \in Requests /\ usable \in BOOLEAN /\ stage \in DOMAIN CMD
  /\ pc \in {"idle", "poll", "judge", "begin", "token", "data", "response", "busy"}
  /\ count \in 0 .. CmdPolls + TokenPolls + CsdPolls + 2
  /\ retries \in 0 .. ResetTries + ReadyTries + 1
  /\ result \in {"none", "OK", "ERR"} /\ card.blocks \in [Blocks -> Contents]
  /\ (pc = "idle") = (op = NoOp) /\ (op = NoOp => ~card.sel)

Promised == INSTANCE BlockDevice WITH
  blocks <- card.blocks, present <- card.in, capacity <- <<Blocks1K>>,
  stored <- card.stored, data <- IF op = NoOp THEN buf ELSE <<>>

\* A block read is the card's block, a block written is on the card when the
\* call says OK and unchanged when it reports an error, and no card that
\* numbers bytes is taken for one that numbers blocks, whatever the card
\* answers and however late: the driver keeps the promise of BlockDevice.
ImplementsBlockDevice == Promised!Spec

\* Setting up and reading always return, even without a card, and so does a
\* write unless the card is pulled out while it is written to: the waits for
\* its answer and for its end have no bound.
CallsEnd == op # NoOp ~> (op = NoOp \/ (op.kind = "write" /\ ~card.in))
=============================================================================
