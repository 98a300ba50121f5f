--------------------------------- MODULE Alu ---------------------------------
(***************************************************************************)
(* The arithmetic unit of the CPU (cpu/alu.v) with its iterative multiplier *)
(* (cpu/mul.v) and divider (cpu/div.v) and its shifter (cpu/shifter.v), and *)
(* the handshake with the control logic (cpu/cpu.v): the EXEC state holds   *)
(* the operation until the unit is no longer busy and takes the result.     *)
(*                                                                         *)
(* The control logic acts on the falling clock edge, the unit on the        *)
(* rising one.  AND, OR and XOR, which the code leaves to the bit operators *)
(* of Verilog, are left out.                                                *)
(***************************************************************************)
EXTENDS Arith

LOCAL INSTANCE FiniteSetsExt

CONSTANTS Levels,       \* stages of the shifter: a word has 2^Levels bits
          Operands,     \* the words the last operation is tried on
          Earlier,      \* the operations, with their operands, before it
          MaxOps        \* bound on the operations of a behaviour

WidthAssumption ==
    /\ Levels \in Nat \ {0} /\ W = 2^Levels
    /\ Operands \subseteq Value
    /\ Earlier \subseteq Ops \X Value \X Value
    /\ MaxOps \in Nat

Double == 2^(2 * W)         \* the range of the multiplier's registers
Top    == 2^(W - 1)         \* the sign bit

VARIABLES
    edge,           \* the clock edge that comes next
    reset, parked,  \* the reset line, and the control logic having seen it
    dsp,            \* ALU_MULDSP: the multiplier is a DSP block
    (* control logic *)
    alu_en, op, dataS1, dataS2, issued,
    clocks,         \* falling edges the operation has waited for the unit
    (* the registers of the multiplier, the divider and the unit *)
    mul, div, result

cpuVars == <<alu_en, op, dataS1, dataS2, issued, clocks>>
vars == <<edge, reset, parked, dsp, cpuVars, mul, div, result>>

Sign(x)    == x >= Top
\* What the decoder makes of the operation: ALUOP_MUL or MULH, DIV, REM and
\* aluop_signed.
IsMul      == op \in {"MUL", "MULH", "MULHSU", "MULHU"}
IsDivide   == op \in {"DIV", "DIVU"}
IsDivRem   == op \in {"DIV", "DIVU", "REM", "REMU"}
S1Signed   == op \in {"MULH", "MULHSU", "DIV", "REM"}
S2Signed   == op \in {"MULH", "DIV", "REM"}

Init ==
    /\ edge = "pos" /\ reset = TRUE /\ parked = TRUE /\ dsp \in BOOLEAN
    /\ alu_en = FALSE /\ op = "ADD" /\ dataS1 = 0 /\ dataS2 = 0 /\ issued = 0 /\ clocks = 0
    /\ mul = [busy |-> FALSE, s1 |-> 0, s2 |-> 0, acc |-> 0]
    /\ div = [state |-> "idle", quotient |-> 0, mask |-> 0, dividend |-> 0,
              divisor |-> 0, notzero |-> FALSE, finished |-> FALSE, result |-> 0]
    /\ result = 0
-----------------------------------------------------------------------------
(* The multiplier: shift and add until no bit of the second factor is left. *)

\* A factor as it enters the registers: sign-extended where the operation asks.
Factor(x, signed) == IF signed /\ Sign(x) THEN x + Double - Modulus ELSE x

\* Mutant of MulStart: the last product is added to.
MulStart_KeepsSum == [busy |-> TRUE, acc |-> mul.acc,
                      s1 |-> Factor(dataS1, S1Signed), s2 |-> Factor(dataS2, S2Signed)]

MulStart == [busy |-> TRUE, acc |-> 0,
             s1 |-> Factor(dataS1, S1Signed), s2 |-> Factor(dataS2, S2Signed)]

MulStep ==
    IF mul.s2 = 0 THEN [mul EXCEPT !.busy = FALSE]
    ELSE [mul EXCEPT !.acc = IF mul.s2 % 2 = 1 THEN (@ + mul.s1) % Double ELSE @,
                     !.s1 = (2 * @) % Double,
                     !.s2 = @ \div 2]

MulNext == IF mul.busy THEN MulStep
           ELSE IF alu_en /\ IsMul /\ ~dsp THEN MulStart
           ELSE mul

Multiplier == mul' = IF reset THEN [MulNext EXCEPT !.busy = FALSE, !.acc = 0] ELSE MulNext

\* The product either multiplier offers.
Product == IF dsp THEN (Factor(dataS1, S1Signed) * Factor(dataS2, S2Signed)) % Double
           ELSE mul.acc
-----------------------------------------------------------------------------
(* The divider: the divisor slides down over the dividend, a bit per clock. *)

Negated(x) == Wrapped(-x)

\* The operand without its sign if the operation is signed.
Magnitude(x, signed) == IF signed /\ Sign(x) THEN Negated(x) ELSE x

DivIdle ==
    LET idle == [div EXCEPT !.quotient = 0, !.mask = Top,
                            !.finished = FALSE, !.notzero = FALSE]
    IN  IF alu_en /\ IsDivRem
        THEN [idle EXCEPT !.dividend = Magnitude(dataS1, S1Signed),
                          !.divisor = Magnitude(dataS2, S2Signed) * Top,
                          !.state = "busy"]
        ELSE idle

\* Decided from the operands still held by the CPU when the result is taken.
NegResult == \/ op = "DIV" /\ Sign(dataS1) # Sign(dataS2) /\ div.notzero
             \/ op = "REM" /\ Sign(dataS1)

DivResult == LET r == IF IsDivide THEN div.quotient ELSE div.dividend
             IN  IF NegResult THEN Negated(r) ELSE r

\* The bit quot_mask stands for is not set in the quotient yet.
DivStep ==
    LET fits == div.divisor <= div.dividend
    IN  [div EXCEPT !.dividend = IF fits THEN @ - div.divisor ELSE @,
                    !.quotient = IF fits THEN @ + div.mask ELSE @,
                    !.notzero  = @ \/ (div.divisor \div Top) % 2 = 1,
                    !.finished = (div.mask % 2 = 1),
                    !.divisor  = @ \div 2,
                    !.mask     = @ \div 2,
                    !.result   = IF div.finished THEN DivResult ELSE @,
                    !.state    = IF div.finished THEN "delay" ELSE "busy"]

DivNext == CASE div.state = "idle"  -> DivIdle
             [] div.state = "busy"  -> DivStep
             [] div.state = "delay" -> [div EXCEPT !.state = "idle"]

Divider == div' = IF reset THEN [DivNext EXCEPT !.state = "idle"] ELSE DivNext
-----------------------------------------------------------------------------
(* The shifter: one stage per bit of the shift count, the highest first; a  *)
(* left shift is a right shift of the reversed word.                        *)

Bit(x, i) == (x \div 2^i) % 2

Reversed(x) == MapThenSumSet(LAMBDA i : Bit(x, i) * 2^(W - 1 - i), 0 .. W - 1)

Stage(x, k, sign) ==
    IF Bit(dataS2, k) = 0 THEN x
    ELSE x \div 2^(2^k) + IF sign THEN Modulus - 2^(W - 2^k) ELSE 0

Shifted(x, sign) ==
    LET after[k \in 0..Levels] == IF k = Levels THEN x ELSE Stage(after[k + 1], k, sign)
    IN  after[0]

ShifterOut == CASE op = "SLL" -> Reversed(Shifted(Reversed(dataS1), FALSE))
                [] op = "SRL" -> Shifted(dataS1, FALSE)
                [] op = "SRA" -> Shifted(dataS1, Sign(dataS1))

\* The comparisons: the underflow of an unsigned subtraction, and for signed
\* words its opposite if the signs differ.
Ltu == dataS1 - dataS2 < 0
Lt  == (dataS1 - dataS2 < 0) # (Sign(dataS1) # Sign(dataS2))
-----------------------------------------------------------------------------
Busy == mul.busy \/ div.state # "idle"

AluOut ==
    CASE op = "ADD"  -> Wrapped(dataS1 + dataS2)
      [] op = "SUB"  -> Wrapped(dataS1 - dataS2)
      [] op = "SLT"  -> IF Lt THEN 1 ELSE 0
      [] op = "SLTU" -> IF Ltu THEN 1 ELSE 0
      [] op \in {"SLL", "SRL", "SRA"} -> ShifterOut
      [] op = "MUL"  -> Product % Modulus
      [] op \in {"MULH", "MULHSU", "MULHU"} -> Product \div Modulus
      [] IsDivRem    -> div.result

\* The units step and the result register takes what the operation selects.
Posedge ==
    /\ edge = "pos" /\ edge' = "neg"
    /\ Multiplier /\ Divider
    /\ result' = IF alu_en /\ ~reset THEN AluOut ELSE result
    /\ parked' = reset
    /\ reset' \in BOOLEAN
    /\ UNCHANGED <<dsp, cpuVars>>

\* What the control logic may ask for.
Jobs == IF issued + 1 < MaxOps THEN Earlier ELSE Ops \X Operands \X Operands

\* The control logic: EXEC is repeated while the unit is busy, the operation is
\* over at the first falling edge at which it is not.
Exec ==
    /\ ~alu_en /\ issued < MaxOps
    /\ alu_en' = TRUE /\ issued' = issued + 1 /\ clocks' = 0
    /\ \E j \in Jobs : op' = j[1] /\ dataS1' = j[2] /\ dataS2' = j[3]

Reexecute == /\ alu_en /\ Busy /\ clocks' = clocks + 1
             /\ UNCHANGED <<alu_en, op, dataS1, dataS2, issued>>

Leave == /\ alu_en => ~Busy
         /\ alu_en' = FALSE /\ clocks' = 0
         /\ UNCHANGED <<op, dataS1, dataS2, issued>>

Park == /\ alu_en' = FALSE /\ clocks' = 0
        /\ UNCHANGED <<op, dataS1, dataS2, issued>>

Negedge ==
    /\ edge = "neg" /\ edge' = "pos"
    /\ IF parked THEN Park ELSE Exec \/ Reexecute \/ Leave
    /\ UNCHANGED <<reset, parked, dsp, mul, div, result>>

Next == Posedge \/ Negedge

Spec == Init /\ [][Next]_vars
-----------------------------------------------------------------------------
TypeOK ==
    /\ edge \in {"pos", "neg"} /\ reset \in BOOLEAN /\ parked \in BOOLEAN
    /\ dsp \in BOOLEAN /\ alu_en \in BOOLEAN /\ op \in Ops
    /\ dataS1 \in Value /\ dataS2 \in Value /\ issued \in 0..MaxOps /\ clocks \in Nat
    /\ DOMAIN mul = {"busy", "s1", "s2", "acc"} /\ mul.busy \in BOOLEAN
    /\ \A r \in {"s1", "s2", "acc"} : mul[r] \in 0 .. Double - 1
    /\ div.state \in {"idle", "busy", "delay"}
    /\ div.quotient \in Value /\ div.mask \in 0..Top /\ div.dividend \in Value
    /\ div.divisor \in 0 .. Double \div 2 - 1
    /\ div.notzero \in BOOLEAN /\ div.finished \in BOOLEAN /\ div.result \in Value
    /\ result \in Value

\* When the unit is free again its result is the mathematical one, for every
\* sign, division by zero, overflow and shift count, and after an operation
\* that a reset cut short (the assertions of cpu/mul.v:131-148 and
\* cpu/alu.v:216-234, extended to the divider, which has none).
ResultCorrect ==
    edge = "neg" /\ alu_en /\ ~Busy /\ ~parked
        => result = Result(op, dataS1, dataS2)

\* Every operation ends, the multiplication by a negative factor last: a bit of
\* the doubled word per clock, and one clock to start.
EndsInTime == alu_en => clocks <= 2 * W + 1
=============================================================================
