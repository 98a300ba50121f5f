----------------------------- MODULE BlockDevice -----------------------------
(***************************************************************************)
(* What the disk layer of FatFS expects of the card's driver: one call at a *)
(* time, a block read is the block, a block written is on the card when the *)
(* call returns OK and not when it returns an error, and the card is set up *)
(* only as one that numbers blocks.  Once the card is gone anything may be  *)
(* returned, but a block still changes by a write of it only.               *)
(***************************************************************************)
CONSTANTS Blocks,     \* block numbers
          Contents,   \* what a block may hold
          Requests    \* init, read and write requests

VARIABLES blocks,     \* contents of each block
          present,    \* the card is there
          capacity,   \* number of blocks of the card
          op,         \* request served, or NoOp
          stored,     \* the write served has reached the card
          result,     \* result of the last call
          data        \* what it returned: a block, or a number of blocks

vars == <<blocks, present, capacity, op, stored, result, data>>

NoOp == [kind |-> "none", nr |-> 0, data |-> <<>>]

Init ==
  /\ blocks \in [Blocks -> Contents] /\ present = TRUE
  /\ op = NoOp /\ stored = FALSE /\ result = "none" /\ data = <<>>

Request(r) ==
  /\ op = NoOp /\ op' = r /\ stored' = FALSE /\ data' = <<>>
  /\ result' = "none"
  /\ UNCHANGED <<blocks, present, capacity>>

Store ==
  /\ op.kind = "write" /\ present /\ ~stored
  /\ blocks' = [blocks EXCEPT ![op.nr] = op.data] /\ stored' = TRUE
  /\ UNCHANGED <<present, capacity, op, result, data>>

Promised(res, d) ==
  IF res = "ERR" THEN ~stored
  ELSE CASE op.kind = "init" -> d = capacity
         [] op.kind = "read" -> d = blocks[op.nr]
         [] OTHER            -> stored

Return(res, d) ==
  /\ op # NoOp /\ op' = NoOp /\ result' = res /\ data' = d
  /\ present => Promised(res, d)
  /\ UNCHANGED <<blocks, present, capacity, stored>>

Remove ==
  /\ present /\ present' = FALSE
  /\ UNCHANGED <<blocks, capacity, op, stored, result, data>>

Next == \/ \E r \in Requests : Request(r)
        \/ Store \/ Remove
        \/ op # NoOp /\ op' = NoOp /\ Return(result', data')

Spec == Init /\ [][Next]_vars
=============================================================================
