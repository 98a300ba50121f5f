-------------------------------- MODULE Arith --------------------------------
(***************************************************************************)
(* What RV32IM asks of the arithmetic unit, as mathematics on words of W    *)
(* bits: the reference the ALU of SPU32 is compared with.                   *)
(***************************************************************************)
EXTENDS Integers

CONSTANT W              \* bits of a word

Modulus == 2^W
Value   == 0 .. Modulus - 1

\* A word read as a two's complement number, and back.
Signed(x)  == IF x >= Modulus \div 2 THEN x - Modulus ELSE x
Wrapped(n) == n % Modulus

Abs(n) == IF n < 0 THEN -n ELSE n

\* Division that truncates towards zero and the remainder that goes with it.
Quot(n, d) == LET q == Abs(n) \div Abs(d) IN IF (n < 0) # (d < 0) THEN -q ELSE q
Rem(n, d)  == n - d * Quot(n, d)

Ops == {"ADD", "SUB", "SLT", "SLTU", "SLL", "SRL", "SRA",
        "MUL", "MULH", "MULHSU", "MULHU", "DIV", "DIVU", "REM", "REMU"}

\* The result of every operation; division by zero gives all ones and the
\* dividend as remainder, and the overflowing division wraps.
Result(op, a, b) ==
    LET s == b % W
        flag(p) == IF p THEN 1 ELSE 0
    IN  CASE op = "ADD"    -> Wrapped(a + b)
          [] op = "SUB"    -> Wrapped(a - b)
          [] op = "SLT"    -> flag(Signed(a) < Signed(b))
          [] op = "SLTU"   -> flag(a < b)
          [] op = "SLL"    -> Wrapped(a * 2^s)
          [] op = "SRL"    -> a \div 2^s
          [] op = "SRA"    -> Wrapped(Signed(a) \div 2^s)
          [] op = "MUL"    -> Wrapped(a * b)
          [] op = "MULH"   -> Wrapped((Signed(a) * Signed(b)) \div Modulus)
          [] op = "MULHSU" -> Wrapped((Signed(a) * b) \div Modulus)
          [] op = "MULHU"  -> (a * b) \div Modulus
          [] op = "DIV"    -> IF b = 0 THEN Modulus - 1 ELSE Wrapped(Quot(Signed(a), Signed(b)))
          [] op = "DIVU"   -> IF b = 0 THEN Modulus - 1 ELSE a \div b
          [] op = "REM"    -> IF b = 0 THEN a ELSE Wrapped(Rem(Signed(a), Signed(b)))
          [] op = "REMU"   -> IF b = 0 THEN a ELSE a % b
=============================================================================
