---------------------------- MODULE MC_Wishbone32 ----------------------------
(* Wishbone32 on a RAM of two words, so that every alignment of every width *)
(* occurs, with one store word whose bytes differ from each other and from  *)
(* the initial contents, and bytes of both signs.                           *)
EXTENDS Wishbone32

MCInitMem == [w \in 0 .. NumWords - 1 |->
                [l \in Lane |-> 10 + 4 * w + l + (IF l % 2 = 1 THEN 128 ELSE 0)]]

MCStoreData == {[l \in Lane |-> <<201, 42, 203, 44>>[l + 1]]}

\* Any operation, after a load or a store.
MCMayIssue == [n \in 1..MaxAccesses |->
                 IF n < MaxAccesses THEN {"READH", "WRITEW"} ELSE BusOp]
=============================================================================
