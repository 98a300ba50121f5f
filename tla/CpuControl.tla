------------------------------ MODULE CpuControl ------------------------------
(***************************************************************************)
(* The control of the CPU (cpu/cpu.v) with the parts it steers: decoder,   *)
(* register file, branch unit, ALU with its multi-cycle unit, and bus.     *)
(*                                                                         *)
(* The state machine works on the falling clock edge and sets enables; the *)
(* parts act on them at the rising edge.  While the ALU or the bus is busy *)
(* the state machine repeats the state it is in, so every state has to     *)
(* bear being executed more than once.                                     *)
(*                                                                         *)
(* The program is whatever the memory answers: each fetch returns any      *)
(* instruction of Program, each load any word of LoadData.  After MaxInstr *)
(* instructions the memory holds only Halt.                                *)
(***************************************************************************)
EXTENDS Rv32, Sequences

CONSTANTS VectorReset, VectorException,
          Program,      \* the instructions the n-th fetch may return
          Halt,         \* what fetches return after MaxInstr instructions
          LoadData,     \* the words a load may return
          ZeroInstr,    \* what the all-zero word decodes to, on the data lines at power-up
          InitRegs,     \* register contents at power-up
          MaxInstr,     \* bound on the instructions of a behaviour
          None

ASSUME ProgramAssumption ==
    /\ VectorReset \in PcWord /\ VectorException \in PcWord
    /\ \A n \in 1..MaxInstr : Program[n] \subseteq Instruction
    /\ Halt \in Instruction /\ ZeroInstr \in Instruction
    /\ LoadData \subseteq Word
    /\ InitRegs \in [Reg -> Word] /\ InitRegs[0] = 0
    /\ MaxInstr \in Nat
    /\ None \notin Instruction /\ None \notin Word

State  == {"RESET", "FETCH", "DECODE", "EXEC", "TRAP1", "SYSTEM", "CSRRW"}
Enable == {"alu", "bru", "branch", "bus", "dec", "re", "we"}

VARIABLES
    edge, reset, interrupt,
    (* set on the falling edge *)
    prevstate, nextstate, enables,
    pc, pcnext, epc, evect, meie, meiePrev, mcause,
    nextpcFromAlu, nextpcFromBru, writebackInFetch,
    busOp,              \* the bus operation, and with it who gives the address
    (* set on the rising edge *)
    pcAlu, dec, regfile, regval1, regval2, aluOut, bruNextpc,
    unit, unitArg, unitOut,     \* the multi-cycle unit: phase, its operation, output
    busBusy,
    busInstr, busData,  \* O_data read as an instruction and as data; until an access is
                        \* answered, what the one before left there
    (* history: what software has seen so far *)
    arch,               \* when the fetch in progress began
    instr,              \* the instruction that fetch returned, or None
    accesses,           \* data accesses since
    restarting,         \* a reset was sampled and nothing fetched since
    fetched             \* number of instructions fetched, up to MaxInstr

fsmVars    == <<prevstate, nextstate, enables>>
trapVars   == <<epc, evect, meie, meiePrev, mcause>>
nextpcVars == <<pcnext, nextpcFromAlu, nextpcFromBru>>
cpuVars    == <<fsmVars, pc, trapVars, nextpcVars, writebackInFetch, busOp>>
aluVars    == <<pcAlu, aluOut, unit, unitArg, unitOut>>
partVars   == <<dec, regfile, regval1, regval2, bruNextpc, busBusy, busInstr, busData, aluVars>>
historyVars == <<arch, instr, accesses, fetched>>
vars == <<edge, reset, interrupt, cpuVars, partVars, historyVars, restarting>>

ArchNow(regs) == [pc |-> pc, regs |-> regs, meie |-> meie, meiePrev |-> meiePrev,
                  epc |-> epc, evect |-> evect, mcause |-> mcause]

Init ==
    /\ edge = "pos" /\ reset \in BOOLEAN /\ interrupt = FALSE
    /\ prevstate = "RESET" /\ nextstate = "RESET" /\ enables = {}
    /\ pc = 0 /\ pcnext = 0 /\ epc = 0 /\ evect = VectorException
    /\ meie = FALSE /\ meiePrev = FALSE /\ mcause = 0
    /\ nextpcFromAlu = FALSE /\ nextpcFromBru = FALSE /\ writebackInFetch = FALSE
    /\ busOp = "FETCH"
    /\ pcAlu = 0 /\ dec = ZeroInstr /\ regfile = InitRegs /\ regval1 = 0 /\ regval2 = 0
    /\ aluOut = 0 /\ bruNextpc = 0 /\ unit = "idle" /\ unitArg = 0 /\ unitOut = 0
    /\ busBusy = FALSE /\ busInstr = ZeroInstr /\ busData = 0
    /\ arch = ArchNow(InitRegs) /\ instr = None /\ accesses = <<>>
    /\ restarting = TRUE /\ fetched = 0
-----------------------------------------------------------------------------
(* The state machine, at the falling edge. *)

busy == busBusy \/ unit # "idle"

\* Mutant of state: the state machine does not wait.
state_NotRepeated == nextstate

state == IF busy THEN prevstate ELSE nextstate

\* The next state and the state to repeat while busy; a reset overrides both.
Goto(s) ==
    /\ prevstate' = IF reset THEN "RESET" ELSE state
    /\ nextstate' = IF reset THEN "RESET" ELSE s

\* Mutant of Restart: interrupts stay enabled.
Restart_MeieKept ==
    /\ state = "RESET"
    /\ enables' = {}
    /\ pcnext' = VectorReset /\ evect' = VectorException
    /\ nextpcFromAlu' = FALSE /\ nextpcFromBru' = FALSE /\ writebackInFetch' = FALSE
    /\ Goto("FETCH")
    /\ UNCHANGED <<pc, epc, meie, meiePrev, mcause, busOp>>

Restart ==
    /\ state = "RESET"
    /\ enables' = {}
    /\ pcnext' = VectorReset /\ evect' = VectorException /\ meie' = FALSE
    /\ nextpcFromAlu' = FALSE /\ nextpcFromBru' = FALSE /\ writebackInFetch' = FALSE
    /\ Goto("FETCH")
    /\ UNCHANGED <<pc, epc, meiePrev, mcause, busOp>>

\* The result of the instruction before is written while the next is fetched.
Fetch ==
    /\ state = "FETCH"
    /\ enables' = {"bus"} \cup (IF writebackInFetch THEN {"we"} ELSE {})
    /\ writebackInFetch' = FALSE
    /\ pc' = IF nextpcFromBru THEN Bits31_2(bruNextpc)
             ELSE IF nextpcFromAlu THEN Bits31_2(aluOut) ELSE pcnext
    /\ busOp' = "FETCH"
    /\ Goto("DECODE")
    /\ UNCHANGED <<trapVars, nextpcVars>>

Decode ==
    /\ state = "DECODE"
    /\ enables' = {"dec", "re", "bru"}
    /\ nextpcFromAlu' = FALSE /\ nextpcFromBru' = FALSE
    /\ IF meie /\ interrupt
       THEN mcause' = CauseExternal /\ Goto("TRAP1")
       ELSE mcause' = mcause /\ Goto("EXEC")
    /\ UNCHANGED <<pc, pcnext, epc, evect, meie, meiePrev, writebackInFetch, busOp>>

WritesBack(i) == i.op \in {"OP", "MUL", "OPIMM", "LUI", "AUIPC", "LOAD", "JAL", "JALR"}

\* Mutant of AfterExec: no case for the fences, the state stays what it is.
AfterExec_NoMiscmem(i) ==
    CASE i.op = "SYSTEM"  -> "SYSTEM"
      [] i.op = "INVALID" -> "TRAP1"
      [] i.op = "MISCMEM" -> "EXEC"
      [] OTHER            -> "FETCH"

AfterExec(i)  == CASE i.op = "SYSTEM"  -> "SYSTEM"
                   [] i.op = "INVALID" -> "TRAP1"
                   [] OTHER            -> "FETCH"

Exec ==
    /\ state = "EXEC"
    /\ enables' = {"alu"} \cup (IF dec.op \in {"LOAD", "STORE"} THEN {"bus"} ELSE {})
                          \cup (IF dec.op = "BRANCH" THEN {"bru", "branch"} ELSE {})
    /\ pcnext' = Bits31_2(bruNextpc)
    /\ writebackInFetch' = WritesBack(dec)
    /\ busOp' = IF dec.op \in {"LOAD", "STORE"} THEN dec.op ELSE busOp
    /\ nextpcFromAlu' = (nextpcFromAlu \/ dec.op \in {"JAL", "JALR"})
    /\ nextpcFromBru' = (nextpcFromBru \/ dec.op = "BRANCH")
    /\ Goto(AfterExec(dec))
    /\ UNCHANGED <<pc, trapVars>>

System ==
    /\ state = "SYSTEM"
    /\ enables' = IF dec.fn = "CSRRW" THEN {"we"} ELSE {}
    /\ mcause' = CASE dec.fn = "ECALL"  -> CauseEcall
                   [] dec.fn = "EBREAK" -> CauseBreak
                   [] dec.fn = "MRET"   -> 0
                   [] dec.fn = "CSRRW"  -> mcause
                   [] OTHER             -> CauseInvalid
    /\ IF dec.fn = "MRET" THEN meie' = meiePrev /\ pcnext' = epc
                          ELSE UNCHANGED <<meie, pcnext>>
    /\ Goto(CASE dec.fn = "MRET"  -> "FETCH"
              [] dec.fn = "CSRRW" -> "CSRRW"
              [] OTHER            -> "TRAP1")
    /\ UNCHANGED <<pc, epc, evect, meiePrev, nextpcFromAlu, nextpcFromBru,
                   writebackInFetch, busOp>>

\* Mutant of Trap1: interrupts are not disabled.
Trap1_StillEnabled ==
    /\ state = "TRAP1"
    /\ enables' = {}
    /\ meiePrev' = meie
    /\ epc' = pc /\ pcnext' = evect
    /\ Goto("FETCH")
    /\ UNCHANGED <<pc, evect, meie, mcause, nextpcFromAlu, nextpcFromBru, writebackInFetch, busOp>>

Trap1 ==
    /\ state = "TRAP1"
    /\ enables' = {}
    /\ meiePrev' = meie /\ meie' = FALSE
    /\ epc' = pc /\ pcnext' = evect
    /\ Goto("FETCH")
    /\ UNCHANGED <<pc, evect, mcause, nextpcFromAlu, nextpcFromBru, writebackInFetch, busOp>>

\* A CSRRW to a read-only address only reads.
Csrrw ==
    /\ state = "CSRRW"
    /\ enables' = {}
    /\ LET writes(m) == dec.csr = m /\ ~dec.readonly
       IN  /\ mcause' = IF writes("CAUSE") THEN CauseBits(regval1) ELSE mcause
           /\ epc'    = IF writes("EPC") THEN Bits31_2(regval1) ELSE epc
           /\ evect'  = IF writes("EVECT") THEN Bits31_2(regval1) ELSE evect
           /\ meie'   = IF writes("STATUS") THEN regval1 % 2 = 1 ELSE meie
           /\ meiePrev' = IF writes("STATUS") THEN (regval1 \div 2) % 2 = 1 ELSE meiePrev
    /\ Goto("FETCH")
    /\ UNCHANGED <<pc, nextpcVars, writebackInFetch, busOp>>

Negedge ==
    /\ edge = "neg" /\ edge' = "pos"
    /\ Restart \/ Fetch \/ Decode \/ Exec \/ System \/ Trap1 \/ Csrrw
    /\ restarting' = (restarting \/ reset)
    /\ UNCHANGED <<reset, interrupt, partVars, historyVars>>
-----------------------------------------------------------------------------
(* The parts, at the rising edge. *)

On(e) == e \in enables

aluDataS1 == IF dec.op \in {"JAL", "AUIPC"} THEN Address(pcAlu) ELSE regval1
aluDataS2 == IF dec.op \in {"OP", "MUL", "BRANCH"} THEN regval2 ELSE dec.imm

Alu ==
    /\ pcAlu' = pc
    /\ aluOut' = IF ~On("alu") \/ reset THEN aluOut
                 ELSE IF dec.op = "MUL" THEN unitOut ELSE Sum(aluDataS1, aluDataS2)

\* Mutant of MultiCycle: busy ends with the result, not one clock later.
MultiCycle_LateResult ==
    /\ unit' \in IF reset THEN {"idle"}
                 ELSE CASE unit = "idle" -> {IF On("alu") /\ dec.op = "MUL" THEN "run" ELSE "idle"}
                        [] unit = "run"  -> {"run", "idle"}
                        [] OTHER         -> {"idle"}
    /\ unitArg' = IF unit = "idle" THEN Prod(aluDataS1, aluDataS2) ELSE unitArg
    /\ unitOut' = IF unit = "run" /\ unit' # "run" THEN unitArg ELSE unitOut

\* The multiplier or divider: it takes its operands when idle, runs for a number
\* of clocks that depends on them, and signals busy for one clock more once the
\* result is there, so that the ALU, still enabled, registers it.
MultiCycle ==
    /\ unit' \in IF reset THEN {"idle"}
                 ELSE CASE unit = "idle" -> {IF On("alu") /\ dec.op = "MUL" THEN "run" ELSE "idle"}
                        [] unit = "run"  -> {"run", "done"}
                        [] OTHER         -> {"idle"}
    /\ unitArg' = IF unit = "idle" THEN Prod(aluDataS1, aluDataS2) ELSE unitArg
    /\ unitOut' = IF unit' = "done" THEN unitArg ELSE unitOut

Decoder == dec' = IF On("dec") THEN busInstr ELSE dec

msrData == CASE dec.csr = "STATUS" -> StatusWord(interrupt, meiePrev, meie)
             [] dec.csr = "CAUSE"  -> mcause
             [] dec.csr = "EPC"    -> Address(epc)
             [] OTHER              -> Address(evect)

regDatain == CASE dec.op = "LOAD"            -> busData
               [] dec.op \in {"JAL", "JALR"} -> bruNextpc
               [] dec.op = "SYSTEM"          -> msrData
               [] OTHER                      -> aluOut

\* rs1 and rs2 are taken from the instruction as it leaves the bus, LUI reads x0.
Registers ==
    /\ regfile' = IF On("we") THEN Written(regfile, dec.rd, regDatain) ELSE regfile
    /\ IF On("re")
       THEN /\ regval1' = regfile[IF busInstr.op = "LUI" THEN 0 ELSE busInstr.rs1]
            /\ regval2' = regfile[busInstr.rs2]
       ELSE UNCHANGED <<regval1, regval2>>

BranchUnit ==
    bruNextpc' =
        IF ~On("bru") THEN bruNextpc
        ELSE IF On("branch") /\ Taken(dec.fn, aluDataS1, aluDataS2)
             THEN Sum(Address(pc), dec.imm) ELSE Sum(Address(pc), 4)

busAddr == IF busOp = "FETCH" THEN Address(pc) ELSE Sum(aluDataS1, aluDataS2)

FetchBegins == On("bus") /\ ~busBusy /\ busOp = "FETCH"

\* An access is in progress: it goes on or is answered.
Serve ==
    /\ On("bus") /\ busBusy
    /\ \/ UNCHANGED <<busBusy, busInstr, busData, instr, accesses, fetched>>
       \/ /\ busBusy' = FALSE /\ busOp = "FETCH"
          /\ busInstr' \in IF fetched < MaxInstr THEN Program[fetched + 1] ELSE {Halt}
          /\ instr' = busInstr'
          /\ fetched' = IF fetched < MaxInstr THEN fetched + 1 ELSE fetched
          /\ UNCHANGED <<busData, accesses>>
       \/ /\ busBusy' = FALSE /\ busOp # "FETCH"
          /\ busData' \in IF busOp = "LOAD" THEN LoadData ELSE {busData}
          /\ accesses' = Append(accesses,
                [op |-> busOp, addr |-> busAddr,
                 data |-> IF busOp = "LOAD" THEN busData' ELSE regval2])
          /\ UNCHANGED <<busInstr, instr, fetched>>

\* An access begins, or none is asked for.
BeginOrRest ==
    /\ ~(On("bus") /\ busBusy)
    /\ busBusy' = On("bus")
    /\ UNCHANGED <<busInstr, busData, fetched>>
    /\ IF FetchBegins THEN instr' = None /\ accesses' = <<>>
                      ELSE UNCHANGED <<instr, accesses>>

Posedge ==
    /\ edge = "pos" /\ edge' = "neg"
    /\ Alu /\ MultiCycle /\ Decoder /\ Registers /\ BranchUnit
    /\ Serve \/ BeginOrRest
    /\ arch' = IF FetchBegins THEN ArchNow(regfile') ELSE arch
    /\ restarting' = (restarting /\ ~(FetchBegins /\ prevstate = "FETCH"))
    /\ interrupt' \in BOOLEAN /\ reset' \in BOOLEAN
    /\ UNCHANGED cpuVars

Next == Negedge \/ Posedge

Spec == Init /\ [][Next]_vars

\* The clock runs, and the bus and the multi-cycle unit do not wait forever.
Answered == Posedge /\ busBusy /\ ~busBusy'
UnitEnds == Posedge /\ unit = "run" /\ unit' # "run"

FairSpec == Spec /\ WF_vars(Next) /\ SF_vars(Answered) /\ SF_vars(UnitEnds)
-----------------------------------------------------------------------------
TypeOK ==
    /\ edge \in {"pos", "neg"} /\ reset \in BOOLEAN /\ interrupt \in BOOLEAN
    /\ prevstate \in State /\ nextstate \in State /\ enables \subseteq Enable
    /\ pc \in PcWord /\ pcnext \in PcWord /\ epc \in PcWord /\ evect \in PcWord
    /\ meie \in BOOLEAN /\ meiePrev \in BOOLEAN /\ mcause \in Word
    /\ nextpcFromAlu \in BOOLEAN /\ nextpcFromBru \in BOOLEAN
    /\ writebackInFetch \in BOOLEAN /\ busOp \in {"FETCH", "LOAD", "STORE"}
    /\ pcAlu \in PcWord /\ dec \in Instruction /\ regfile \in [Reg -> Word]
    /\ regval1 \in Word /\ regval2 \in Word /\ aluOut \in Word /\ bruNextpc \in Word
    /\ unit \in {"idle", "run", "done"} /\ unitArg \in Word /\ unitOut \in Word
    /\ busBusy \in BOOLEAN
    /\ busInstr \in Instruction /\ busData \in Word
    /\ instr \in Instruction \cup {None} /\ fetched \in 0..MaxInstr
    /\ restarting \in BOOLEAN

Software == INSTANCE Isa

\* The state machine with its repeated states, late write-back and multi-cycle
\* units executes instructions as the ISA says: each once, in order, traps
\* between instructions, one access per load or store (cpu/cpu.v:257-443).
ImplementsIsa == Software!Spec

\* While an access waits, its operation, address and data stay on the bus:
\* that is what the Wishbone masters rely on, which sample them beat by beat.
RequestHeld ==
    [][busBusy /\ busBusy' => UNCHANGED <<busOp, busAddr, regval2>>]_vars

\* Every fetched instruction comes to an end, unless a reset comes.
InstructionEnds == instr # None ~> (instr = None \/ reset)

\* An interrupt line that stays up is served: the CPU does not go on forever
\* with interrupts enabled (the line is sampled in DECODE only).
InterruptServed == ~ <>[](meie /\ interrupt)

\* MSR_CAUSE in README.md: an invalid instruction reports cause 2 (unless an
\* interrupt or a reset comes first).
InvalidCauseReported ==
    [][instr # None /\ instr.op = "INVALID" /\ instr' = None /\ ~restarting
         => arch'.mcause \in {CauseInvalid, CauseExternal}]_vars
=============================================================================
