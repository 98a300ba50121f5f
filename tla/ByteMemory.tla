----------------------------- MODULE ByteMemory -----------------------------
(***************************************************************************)
(* What the CPU of SPU32 is promised by the bus, whatever adapter and RAM  *)
(* stand behind it: a byte-addressed memory that serves one access at a    *)
(* time.  A store takes effect as a whole and a load returns the bytes at  *)
(* its address, extended as the operation asks.  Only a reset may cut an   *)
(* access short, and then it can disturb no byte the access did not touch. *)
(***************************************************************************)
EXTENDS Integers, BusAccess

CONSTANTS Addr,        \* the byte addresses of the memory
          Requests,    \* the accesses the CPU may ask for
          None         \* "no access is pending"

VARIABLES memory,      \* the byte at each address
          pending,     \* the access being served, or None
          result,      \* the last value the CPU loaded
          resetting    \* the reset line

vars == <<memory, pending, result, resetting>>

\* The four byte lanes a load returns before extension: lanes past the
\* access are not defined by it, Extend discards them.
Loaded(m, r) == [i \in Lane |-> IF i < Width(r.op) THEN m[r.addr + i] ELSE 0]

Stored(m, r) ==
    [a \in Addr |-> IF a \in Footprint(r) THEN r.data[a - r.addr] ELSE m[a]]

Request ==
    /\ pending = None
    /\ \E r \in Requests :
         /\ pending' = r
         /\ memory' = IF IsStore(r.op) THEN Stored(memory, r) ELSE memory
    /\ UNCHANGED result

Respond ==
    /\ pending # None
    /\ pending' = None
    /\ result' = IF IsStore(pending.op) THEN result
                 ELSE Extend(pending.op, Loaded(memory, pending))
    /\ UNCHANGED memory

\* A reset drops the access; the bytes a store was about to write are in doubt.
Abort ==
    /\ resetting
    /\ pending # None
    /\ pending' = None
    /\ DOMAIN memory' = Addr
    /\ \A a \in Addr :
         memory'[a] # memory[a] => IsStore(pending.op) /\ a \in Footprint(pending)
    /\ UNCHANGED result

Init == pending = None /\ resetting \in BOOLEAN

\* The reset line changes at any time.
Next ==
    /\ Request \/ Respond \/ Abort \/ UNCHANGED <<memory, pending, result>>
    /\ resetting' \in BOOLEAN

Spec == Init /\ [][Next]_vars
=============================================================================
