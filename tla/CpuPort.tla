------------------------------ MODULE CpuPort ------------------------------
(***************************************************************************)
(* The CPU's side of its bus port, common to every bus adapter: the request *)
(* the control logic puts up (cpu/cpu.v, cpu/bus.v), the wait line and data *)
(* the adapter answers with, and the two disturbances every memory of the   *)
(* boards lives with, a reset and the video's claims on the RAM.            *)
(***************************************************************************)
EXTENDS BusAccess

CONSTANTS StoreData,    \* the words the CPU may store
          MaxVgaRun,    \* clocks in a row the video may claim the RAM
          ResetCycles,  \* clocks a reset lasts (2^11 - 1 in boards/icebreaker/top.v)
          MaxAccesses,  \* bound on the accesses of a behaviour
          MayIssue,     \* the operations the n-th of them may be
          None

ASSUME BoundAssumption ==
    /\ MaxVgaRun \in Nat
    /\ ResetCycles \in Nat /\ ResetCycles >= 3
    /\ MaxAccesses \in Nat

VARIABLES
    edge,       \* the clock edge that comes next
    rst,        \* clocks of reset left, 0 when the system runs
    vgaRun,     \* how many clocks in a row the video has claimed the RAM
    (* CPU control and bus unit *)
    strobe,     \* bus_en: an access is requested
    req,        \* operation, address and data of the access
    parked,     \* the control logic was forced to STATE_RESET
    capture,    \* a register (or the decoder) takes O_data at the rising edge
    lastOp,     \* last_busop
    result,     \* what was taken
    issued,     \* accesses so far
    (* the adapter's answer *)
    busy, buffer

cpuVars    == <<strobe, req, parked, capture, issued>>
unitVars   == <<lastOp, result>>

ZeroWord == [l \in Lane |-> 0]

\* Power-up: the reset counter holds the CPU parked.
InitPort ==
    /\ edge = "pos" /\ rst = ResetCycles /\ vgaRun = 0
    /\ strobe = FALSE /\ parked = TRUE /\ capture = FALSE /\ issued = 0
    /\ req = [op |-> "READB", addr |-> 0, data |-> ZeroWord]
    /\ lastOp = "READB" /\ result = ZeroWord
    /\ busy = FALSE /\ buffer = ZeroWord

VgaReq == vgaRun > 0
-----------------------------------------------------------------------------
(* The CPU, at the falling edge.  `state = busy ? prevstate : nextstate`:   *)
(* while the bus waits, the state that asked for the access is executed     *)
(* again, so the request stands; once the wait is over the following state  *)
(* either asks for another access or leaves the bus alone, and a load or a  *)
(* fetch that just ended is taken at the next rising edge.                  *)

ReadServed == strobe /\ ~busy /\ ~IsStore(req.op)

Reissue ==
    /\ ~parked /\ busy
    /\ capture' = FALSE
    /\ UNCHANGED <<strobe, req, issued>>

Issue(r) ==
    /\ ~parked /\ ~busy
    /\ issued < MaxAccesses
    /\ r.op \in MayIssue[issued + 1]
    /\ issued' = issued + 1
    /\ strobe' = TRUE
    /\ req' = r
    /\ capture' = ReadServed

Rest ==
    /\ ~parked /\ ~busy
    /\ strobe' = FALSE
    /\ capture' = ReadServed
    /\ UNCHANGED <<req, issued>>

Park ==
    /\ parked
    /\ strobe' = FALSE
    /\ capture' = FALSE
    /\ UNCHANGED <<req, issued>>

-----------------------------------------------------------------------------
\* cpu/bus.v and the register that takes its output.
BusUnit ==
    /\ lastOp' = IF strobe THEN req.op ELSE lastOp
    /\ result' = IF capture THEN Extend(lastOp, buffer) ELSE result

\* The video claims the RAM and the reset button is pressed whenever they will.
Disturb ==
    /\ vgaRun' \in {0} \cup {n \in {vgaRun + 1} : n <= MaxVgaRun}
    /\ rst' \in {ResetCycles, IF rst > 0 THEN rst - 1 ELSE 0}
=============================================================================
