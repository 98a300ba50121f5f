----------------------------- MODULE MC_BootRom ------------------------------
(* Files of two parts and of one and a half, one with bytes that look like   *)
(* commands to the monitor.                                                  *)
EXTENDS BootRom
TwoFiles == {<<1, 83, 2>>, <<67, 85>>}
=============================================================================
