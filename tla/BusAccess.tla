------------------------------ MODULE BusAccess ------------------------------
(***************************************************************************)
(* The vocabulary of a CPU bus access: the eight bus operations of         *)
(* cpu/busdefs.vh, what cpu/bus.v derives from them (width, direction,     *)
(* extension of the loaded value), and the split of an access into beats   *)
(* on a 32-bit bus.                                                        *)
(***************************************************************************)
EXTENDS Integers

Byte == 0..255
Lane == 0..3                        \* byte lanes of a word, 0 the least significant
Word == [Lane -> Byte]

BusOp == {"READB", "READBU", "READH", "READHU", "READW",
          "WRITEB", "WRITEH", "WRITEW"}

IsStore(op) == op \in {"WRITEB", "WRITEH", "WRITEW"}

Width(op) == CASE op \in {"READH", "READHU", "WRITEH"} -> 2
               [] op \in {"READW", "WRITEW"}           -> 4
               [] OTHER                                -> 1

\* The byte that fills the lanes above a value whose top byte is b.
SignFill(b) == IF b >= 128 THEN 255 ELSE 0

\* A loaded value as the CPU sees it.
Extend(op, buf) ==
    CASE op = "READB"  -> [i \in Lane |-> IF i < 1 THEN buf[i] ELSE SignFill(buf[0])]
      [] op = "READBU" -> [i \in Lane |-> IF i < 1 THEN buf[i] ELSE 0]
      [] op = "READH"  -> [i \in Lane |-> IF i < 2 THEN buf[i] ELSE SignFill(buf[1])]
      [] op = "READHU" -> [i \in Lane |-> IF i < 2 THEN buf[i] ELSE 0]
      [] OTHER         -> buf

\* An access is a record: operation, byte address, store data.
Access(addrs, datas) == [op : BusOp, addr : addrs, data : datas]

Footprint(r) == r.addr .. r.addr + Width(r.op) - 1

Offset(r) == r.addr % 4

\* The lanes beat n (0 or 1) of access r touches.
ByteEnables(r, n) ==
    {l \in Lane : Offset(r) <= l + 4 * n /\ l + 4 * n < Offset(r) + Width(r.op)}

\* Number of words the access touches.
WordTarget(r) == IF ByteEnables(r, 1) = {} THEN 1 ELSE 2
=============================================================================
