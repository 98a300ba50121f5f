---------------------------------- MODULE Isa ----------------------------------
(***************************************************************************)
(* What SPU32 promises to the software it runs: instructions are executed  *)
(* one after the other, each exactly once and as a whole; a load or store  *)
(* performs exactly one access; a trap saves the address of the            *)
(* instruction it stops and leaves no other trace of it; an external       *)
(* interrupt comes between two instructions and only while enabled; a      *)
(* reset starts over at the reset vector with interrupts disabled.         *)
(*                                                                         *)
(* One thing of README.md is not promised, because the code does not keep  *)
(* it: an undefined opcode traps with the cause register as it was.        *)
(***************************************************************************)
EXTENDS Rv32, Sequences

CONSTANTS VectorReset, VectorException,
          None          \* "no instruction is in flight"

VARIABLES arch,         \* the state software sees
          instr,        \* the instruction fetched, or None
          accesses,     \* data accesses of this instruction
          restarting    \* a reset has been asked for

vars == <<arch, instr, accesses, restarting>>

Arch == [pc : PcWord, regs : [Reg -> Word], meie : BOOLEAN, meiePrev : BOOLEAN,
         epc : PcWord, evect : PcWord, mcause : Word]

NextPc(a) == Bits31_2(Sum(Address(a.pc), 4))
Effective(a, i) == Sum(a.regs[i.rs1], i.imm)

Trapped(a, cause) ==
    [a EXCEPT !.pc = a.evect, !.epc = a.pc, !.mcause = cause,
              !.meie = FALSE, !.meiePrev = a.meie]

MsrValue(a, m, irq) ==
    CASE m = "STATUS" -> StatusWord(irq, a.meiePrev, a.meie)
      [] m = "CAUSE"  -> a.mcause
      [] m = "EPC"    -> Address(a.epc)
      [] OTHER        -> Address(a.evect)

MsrUpdated(a, m, v) ==
    CASE m = "STATUS" -> [a EXCEPT !.meie = v % 2 = 1, !.meiePrev = (v \div 2) % 2 = 1]
      [] m = "CAUSE"  -> [a EXCEPT !.mcause = CauseBits(v)]
      [] m = "EPC"    -> [a EXCEPT !.epc = Bits31_2(v)]
      [] OTHER        -> [a EXCEPT !.evect = Bits31_2(v)]

\* What a SYSTEM instruction leaves behind.
System(a, i, irq) ==
    CASE i.fn = "ECALL"  -> Trapped(a, CauseEcall)
      [] i.fn = "EBREAK" -> Trapped(a, CauseBreak)
      [] i.fn = "MRET"   -> [a EXCEPT !.pc = a.epc, !.meie = a.meiePrev, !.mcause = 0]
      [] i.fn = "CSRRW"  ->
            LET read == [a EXCEPT !.pc = NextPc(a),
                                  !.regs = Written(@, i.rd, MsrValue(a, i.csr, irq))]
            IN  IF i.readonly THEN read ELSE MsrUpdated(read, i.csr, a.regs[i.rs1])
      [] OTHER -> Trapped(a, CauseInvalid)

\* The value an instruction writes to rd.
Value(a, i, loaded) ==
    CASE i.op = "OP"    -> Sum(a.regs[i.rs1], a.regs[i.rs2])
      [] i.op = "MUL"   -> Prod(a.regs[i.rs1], a.regs[i.rs2])
      [] i.op = "OPIMM" -> Effective(a, i)
      [] i.op = "LUI"   -> i.imm
      [] i.op = "AUIPC" -> Sum(Address(a.pc), i.imm)
      [] i.op = "LOAD"  -> loaded
      [] OTHER          -> Address(NextPc(a))    \* JAL, JALR

HasResult(i) == i.op \in {"OP", "MUL", "OPIMM", "LUI", "AUIPC", "LOAD", "JAL", "JALR"}

\* Where execution goes on after an instruction that does not trap.
Successor(a, i) ==
    CASE i.op = "JAL"  -> Bits31_2(Sum(Address(a.pc), i.imm))
      [] i.op = "JALR" -> Bits31_2(Effective(a, i))
      [] i.op = "BRANCH" /\ Taken(i.fn, a.regs[i.rs1], a.regs[i.rs2])
                       -> Bits31_2(Sum(Address(a.pc), i.imm))
      [] OTHER         -> NextPc(a)

Executed(a, i, loaded, irq) ==
    CASE i.op = "SYSTEM"  -> System(a, i, irq)
      [] i.op = "INVALID" -> Trapped(a, a.mcause)
      [] OTHER -> [a EXCEPT !.pc = Successor(a, i),
                            !.regs = IF HasResult(i) THEN Written(@, i.rd, Value(a, i, loaded))
                                     ELSE @]

UsesMemory(i) == i.op \in {"LOAD", "STORE"}
-----------------------------------------------------------------------------
Init == /\ arch \in Arch /\ instr = None /\ accesses = <<>> /\ restarting = TRUE

Fetch ==
    /\ instr = None
    /\ instr' \in Instruction
    /\ UNCHANGED <<arch, accesses>>

DataAccess ==
    /\ instr # None /\ UsesMemory(instr) /\ accesses = <<>>
    /\ \E d \in IF instr.op = "STORE" THEN {arch.regs[instr.rs2]} ELSE Word :
         accesses' = << [op |-> instr.op, addr |-> Effective(arch, instr), data |-> d] >>
    /\ UNCHANGED <<arch, instr>>

Retire ==
    /\ instr # None
    /\ UsesMemory(instr) => accesses # <<>>
    /\ \E irq \in BOOLEAN :
         arch' = Executed(arch, instr, IF UsesMemory(instr) THEN accesses[1].data ELSE 0, irq)
    /\ instr' = None /\ accesses' = <<>>

Interrupt ==
    /\ instr # None /\ accesses = <<>> /\ arch.meie
    /\ arch' = Trapped(arch, CauseExternal)
    /\ instr' = None /\ accesses' = <<>>

\* The instruction a reset cuts short may have written its register, and what
\* it wrote to the trap registers a reset does not clear is in doubt.
Restart ==
    /\ restarting
    /\ arch' \in Arch
    /\ arch'.pc = VectorReset /\ arch'.evect = VectorException /\ ~arch'.meie
    /\ \A r \in Reg : arch'.regs[r] # arch.regs[r] => instr # None /\ r = instr.rd /\ r # 0
    /\ instr' = None /\ accesses' = <<>>

Next ==
    \/ /\ Fetch \/ DataAccess \/ Retire \/ Interrupt \/ UNCHANGED <<arch, instr, accesses>>
       /\ restarting' \in {restarting, TRUE}
    \/ Restart /\ restarting' \in BOOLEAN

Spec == Init /\ [][Next]_vars
=============================================================================
