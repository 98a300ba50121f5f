--------------------------------- MODULE Rv32 ---------------------------------
(***************************************************************************)
(* The instructions of SPU32 and the words they work on, as much of them   *)
(* as the control flow of cpu/cpu.v tells apart: an instruction class per  *)
(* opcode, one ADD for the single-cycle operations of the ALU, one MUL for *)
(* those that keep the ALU busy.  A word has a few bits instead of 32,     *)
(* but it is cut and sign-interpreted where the code cuts 32 bits.         *)
(***************************************************************************)
EXTENDS Integers

CONSTANTS WordSize,     \* 2^32 in the code
          Reg,          \* the registers in use, 0 is x0
          CauseExternal, CauseInvalid, CauseBreak, CauseEcall

ASSUME WordAssumption ==
    /\ WordSize \in Nat /\ WordSize >= 8 /\ WordSize % 4 = 0
    /\ Reg \subseteq Nat /\ 0 \in Reg

Word == 0 .. WordSize - 1

ASSUME CauseAssumption ==
    /\ CauseExternal \in Word /\ CauseInvalid \in Word
    /\ CauseBreak \in Word /\ CauseEcall \in Word

Sum(a, b)  == (a + b) % WordSize
Prod(a, b) == (a * b) % WordSize
Signed(v)  == IF 2 * v >= WordSize THEN v - WordSize ELSE v

\* pc, epc and evect hold bits 31:2 of an address, the low two bits are dropped.
PcWord == 0 .. (WordSize \div 4) - 1

\* Mutant of Bits31_2: the address is taken as it is.
Bits31_2_Whole(v) == v

Bits31_2(v) == v \div 4
Address(p)  == 4 * p

Opcode == {"OP", "MUL", "OPIMM", "LUI", "AUIPC", "LOAD", "STORE", "JAL", "JALR",
           "BRANCH", "MISCMEM", "SYSTEM", "INVALID"}
BranchFn == {"BEQ", "BNE", "BLT", "BGE", "BLTU", "BGEU", "RESERVED"}
SystemFn == {"ECALL", "EBREAK", "MRET", "CSRRW", "UNSUPPORTED"}
Msr      == {"STATUS", "CAUSE", "EPC", "EVECT"}

\* csr and readonly are bits 1:0 and 11 of the immediate of a CSRRW.
Instruction == [op : Opcode, fn : BranchFn \cup SystemFn \cup {"-"},
                rd : Reg, rs1 : Reg, rs2 : Reg, imm : Word,
                csr : Msr, readonly : BOOLEAN]

Taken(fn, a, b) ==
    CASE fn = "BEQ"  -> a = b
      [] fn = "BNE"  -> a # b
      [] fn = "BLT"  -> Signed(a) < Signed(b)
      [] fn = "BGE"  -> Signed(a) >= Signed(b)
      [] fn = "BLTU" -> a < b
      [] fn = "BGEU" -> a >= b
      [] OTHER       -> FALSE

\* MSR_CAUSE keeps bits 31 and 3:0 of what is written to it.
CauseBits(v) ==
    LET top == WordSize \div 2
    IN  (v % 16) + (IF v >= top THEN top - (top % 16) ELSE 0)

Bit(b) == IF b THEN 1 ELSE 0

\* MSR_STATUS as it is read.
StatusWord(irq, prev, enabled) == (4 * Bit(irq)) + (2 * Bit(prev)) + Bit(enabled)

\* A register file never changes x0.
Written(regs, rd, v) == [r \in Reg |-> IF r = rd /\ r # 0 THEN v ELSE regs[r]]
=============================================================================
