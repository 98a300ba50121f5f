---------------------------- MODULE MC_CpuControl ----------------------------
(* CpuControl with words of four bits (four instruction addresses), two      *)
(* registers besides x0, and one or two instructions of every class, chosen  *)
(* so that each reads and writes a register another one uses.                *)
EXTENDS CpuControl

I(op, fn, rd, rs1, rs2, imm) ==
    [op |-> op, fn |-> fn, rd |-> rd, rs1 |-> rs1, rs2 |-> rs2, imm |-> imm,
     csr |-> "STATUS", readonly |-> FALSE]

Csr(m, ro, rd, rs1) ==
    [I("SYSTEM", "CSRRW", rd, rs1, 0, 0) EXCEPT !.csr = m, !.readonly = ro]

MCReg == 0..2
MCInitRegs == [r \in MCReg |-> <<0, 5, 3>>[r + 1]]

MCHalt == I("JAL", "-", 0, 0, 0, 0)
MCZeroInstr == I("LOAD", "-", 0, 0, 0, 0)

Computing == {I("OP", "-", 2, 1, 2, 0), I("MUL", "-", 1, 1, 2, 0), I("OPIMM", "-", 0, 1, 0, 1),
              I("LUI", "-", 1, 2, 0, 8), I("AUIPC", "-", 2, 0, 0, 8)}
Memory    == {I("LOAD", "-", 1, 2, 0, 4), I("STORE", "-", 0, 1, 2, 2)}
Jumps     == {I("JAL", "-", 1, 0, 0, 8), I("JALR", "-", 2, 1, 0, 3)}
Branches  == {I("BRANCH", fn, 0, 1, 2, 8) : fn \in BranchFn}
Traps     == {I("SYSTEM", fn, 0, 0, 0, 0) : fn \in SystemFn \ {"CSRRW"}}
                \cup {I("INVALID", "-", 1, 0, 0, 0)}
Msrs      == {Csr("STATUS", FALSE, 1, 2), Csr("STATUS", TRUE, 2, 1), Csr("EPC", FALSE, 1, 1),
              Csr("EVECT", FALSE, 0, 1), Csr("CAUSE", TRUE, 1, 2), Csr("CAUSE", FALSE, 2, 1)}

Anything == Computing \cup Memory \cup Jumps \cup Branches \cup Traps \cup Msrs
                \cup {I("MISCMEM", "-", 1, 0, 0, 0)}
Trapping == {Csr("STATUS", FALSE, 1, 2), Csr("EPC", FALSE, 1, 2), I("INVALID", "-", 1, 0, 0, 0),
             I("SYSTEM", "MRET", 0, 0, 0, 0)}
Slow     == {I("MUL", "-", 1, 1, 2, 0), I("LOAD", "-", 1, 2, 0, 4), I("MISCMEM", "-", 1, 0, 0, 0),
             Csr("STATUS", FALSE, 1, 2), I("SYSTEM", "MRET", 0, 0, 0, 0)}

\* Any two instructions, then one that enters, leaves or rearranges a trap.
MCProgram     == [n \in 1..MaxInstr |-> IF n <= 2 THEN Anything ELSE Trapping]
MCProgramSlow == [n \in 1..MaxInstr |-> Slow]
MCProgramTraps == [n \in 1..MaxInstr |-> Trapping]
MCLoadData == {14}
=============================================================================
