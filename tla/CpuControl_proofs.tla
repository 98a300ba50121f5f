--------------------------- MODULE CpuControl_proofs ---------------------------
(***************************************************************************)
(* What holds of the CPU's control for every word size, register file,     *)
(* program and length of waits, with interrupts and resets at any moment.  *)
(***************************************************************************)
EXTENDS CpuControl, TLAPS

LEMMA ModInWord == ASSUME NEW n \in Int PROVE n % WordSize \in Word
BY WordAssumption DEF Word

LEMMA SumType == ASSUME NEW a \in Word, NEW b \in Word PROVE Sum(a, b) \in Word
<1>1. a + b \in Int
  BY WordAssumption DEF Word
<1> QED BY <1>1, ModInWord DEF Sum

LEMMA ProdType == ASSUME NEW a \in Word, NEW b \in Word PROVE Prod(a, b) \in Word
<1>1. a \in Int /\ b \in Int
  BY WordAssumption DEF Word
<1>2. a * b \in Int
  BY <1>1
<1> QED BY <1>2, ModInWord DEF Prod

LEMMA PcType == ASSUME NEW v \in Word PROVE Bits31_2(v) \in PcWord
<1> DEFINE k == WordSize \div 4
<1>1. WordSize = 4 * k /\ k \in Nat
  BY WordAssumption
<1> HIDE DEF k
<1>2. v \in 0 .. (4 * k) - 1
  BY <1>1 DEF Word
<1>3. v \div 4 \in 0 .. k - 1
  BY <1>1, <1>2
<1> QED BY <1>3 DEF Bits31_2, PcWord, k

LEMMA CauseType == ASSUME NEW v \in Word PROVE CauseBits(v) \in Word
<1> PICK top : top = WordSize \div 2
  OBVIOUS
<1>1. top \in Nat /\ WordSize = 2 * top /\ v \in 0 .. (2 * top) - 1
  BY WordAssumption DEF Word
<1>2. /\ v % 16 \in 0 .. 15 /\ v % 16 <= v
      /\ top % 16 \in 0 .. 15 /\ (top < 16 => top % 16 = top) /\ top % 16 <= top
  BY <1>1
<1> PICK c, d : c = v % 16 /\ d = top % 16
  OBVIOUS
<1>3. /\ c \in 0 .. 15 /\ c <= v /\ d \in 0 .. 15 /\ (top < 16 => d = top) /\ d <= top
  BY <1>2
<1>4. c + (IF v >= top THEN top - d ELSE 0) \in 0 .. (2 * top) - 1
  BY <1>1, <1>3
<1> QED BY <1>1, <1>4 DEF CauseBits, Word

LEMMA AddressType == ASSUME NEW p \in PcWord PROVE Address(p) \in Word
<1> DEFINE k == WordSize \div 4
<1>1. WordSize = 4 * k /\ k \in Nat
  BY WordAssumption
<1> HIDE DEF k
<1>2. p \in 0 .. k - 1
  BY DEF PcWord, k
<1> QED BY <1>1, <1>2 DEF Address, Word

LEMMA FourType == 4 \in Word /\ 0 \in Word /\ 0 \in PcWord
BY WordAssumption DEF Word, PcWord

LEMMA StatusType ==
    ASSUME NEW i \in BOOLEAN, NEW p \in BOOLEAN, NEW e \in BOOLEAN
    PROVE  StatusWord(i, p, e) \in Word
BY WordAssumption DEF StatusWord, Bit, Word

LEMMA WrittenType ==
    ASSUME NEW regs \in [Reg -> Word], NEW rd \in Reg, NEW v \in Word
    PROVE  Written(regs, rd, v) \in [Reg -> Word]
BY DEF Written

LEMMA InstructionFields ==
    ASSUME NEW i \in Instruction
    PROVE  /\ i.op \in Opcode /\ i.rd \in Reg /\ i.rs1 \in Reg /\ i.rs2 \in Reg
           /\ i.imm \in Word /\ i.csr \in Msr /\ i.readonly \in BOOLEAN
BY DEF Instruction
-----------------------------------------------------------------------------
(* Type correctness. *)

\* TypeOK in two parts: the Boolean registers of the state machine, and all else.
FlagType ==
    /\ meie \in BOOLEAN /\ meiePrev \in BOOLEAN
    /\ nextpcFromAlu \in BOOLEAN /\ nextpcFromBru \in BOOLEAN
    /\ writebackInFetch \in BOOLEAN

ControlType ==
    /\ prevstate \in State /\ nextstate \in State /\ enables \subseteq Enable
    /\ pc \in PcWord /\ pcnext \in PcWord /\ epc \in PcWord /\ evect \in PcWord
    /\ mcause \in Word /\ busOp \in {"FETCH", "LOAD", "STORE"}

PartType ==
    /\ pcAlu \in PcWord /\ dec \in Instruction /\ regfile \in [Reg -> Word]
    /\ regval1 \in Word /\ regval2 \in Word /\ aluOut \in Word /\ bruNextpc \in Word
    /\ unit \in {"idle", "run", "done"} /\ unitArg \in Word /\ unitOut \in Word
    /\ busInstr \in Instruction /\ busData \in Word
    /\ instr \in Instruction \cup {None} /\ fetched \in 0..MaxInstr

WireType ==
    /\ edge \in {"pos", "neg"} /\ reset \in BOOLEAN /\ interrupt \in BOOLEAN
    /\ busBusy \in BOOLEAN /\ restarting \in BOOLEAN

LEMMA TypeParts == TypeOK <=> FlagType /\ ControlType /\ PartType /\ WireType
BY Zenon DEF TypeOK, FlagType, ControlType, PartType, WireType

LEMMA InitType == Init => TypeOK
<1> SUFFICES ASSUME Init PROVE TypeOK
  OBVIOUS
<1>1. ZeroInstr \in Instruction /\ VectorException \in PcWord
      /\ InitRegs \in [Reg -> Word] /\ MaxInstr \in Nat
  BY ProgramAssumption
<1>2. FlagType
  BY DEF Init, FlagType
<1>3. ControlType
  BY <1>1, FourType DEF Init, ControlType, State
<1>4. PartType
  BY <1>1, FourType DEF Init, PartType
<1>5. WireType
  BY DEF Init, WireType
<1> QED BY <1>2, <1>3, <1>4, <1>5, TypeParts

\* The state to execute is one of the states.
LEMMA StateType == TypeOK => state \in State
BY DEF TypeOK, state

LEMMA GotoType ==
    ASSUME TypeOK, NEW s \in State, Goto(s)
    PROVE  prevstate' \in State /\ nextstate' \in State
<1>1. "RESET" \in State
  BY DEF State
<1> QED BY <1>1, StateType DEF Goto

LEMMA NegedgeType == TypeOK /\ Negedge => TypeOK'
<1> SUFFICES ASSUME TypeOK, Negedge PROVE TypeOK'
  OBVIOUS
<1>a. FlagType /\ ControlType /\ PartType /\ WireType
  BY TypeParts
<1>0. /\ "FETCH" \in State /\ "DECODE" \in State /\ "EXEC" \in State
      /\ "TRAP1" \in State /\ "SYSTEM" \in State /\ "CSRRW" \in State
  BY DEF State
<1>1. ASSUME Restart PROVE FlagType' /\ ControlType'
  <2>1. prevstate' \in State /\ nextstate' \in State
    BY <1>1, <1>0, GotoType DEF Restart
  <2>2. FlagType'
    BY <1>1, <1>a, Zenon DEF Restart, FlagType
  <2>3. ControlType'
    BY <1>1, <1>a, <2>1, ProgramAssumption DEF Restart, ControlType
  <2> QED BY <2>2, <2>3
<1>2. ASSUME Fetch PROVE FlagType' /\ ControlType'
  <2>1. Bits31_2(bruNextpc) \in PcWord /\ Bits31_2(aluOut) \in PcWord
    BY <1>a, PcType DEF PartType
  <2>2. prevstate' \in State /\ nextstate' \in State
    BY <1>2, <1>0, GotoType DEF Fetch
  <2>3. FlagType'
    BY <1>2, <1>a, Zenon DEF Fetch, FlagType, trapVars, nextpcVars
  <2>4. ControlType'
    BY <1>2, <1>a, <2>1, <2>2 DEF Fetch, ControlType, Enable, trapVars, nextpcVars
  <2> QED BY <2>3, <2>4
<1>3. ASSUME Decode PROVE FlagType' /\ ControlType'
  <2>1. prevstate' \in State /\ nextstate' \in State
    BY <1>3, <1>0, GotoType DEF Decode
  <2>2. FlagType'
    BY <1>3, <1>a, Zenon DEF Decode, FlagType
  <2>3. ControlType'
    BY <1>3, <1>a, <2>1, CauseAssumption DEF Decode, ControlType, Enable
  <2> QED BY <2>2, <2>3
<1>4. ASSUME Exec PROVE FlagType' /\ ControlType'
  <2>1. AfterExec(dec) \in State
    BY <1>0 DEF AfterExec
  <2>2. prevstate' \in State /\ nextstate' \in State
    BY <1>4, <2>1, GotoType DEF Exec
  <2>3. Bits31_2(bruNextpc) \in PcWord
    BY <1>a, PcType DEF PartType
  <2>4. /\ writebackInFetch' \in BOOLEAN
        /\ nextpcFromAlu' \in BOOLEAN /\ nextpcFromBru' \in BOOLEAN
    BY <1>4 DEF Exec, WritesBack
  <2>5. FlagType'
    BY <1>4, <1>a, <2>4, Zenon DEF Exec, FlagType, trapVars
  <2>6. busOp' \in {"FETCH", "LOAD", "STORE"} /\ enables' \subseteq Enable
    BY <1>4, <1>a DEF Exec, Enable, ControlType
  <2>7. ControlType'
    BY <1>4, <1>a, <2>2, <2>3, <2>6 DEF Exec, ControlType, trapVars
  <2> QED BY <2>5, <2>7
<1>5. ASSUME System PROVE FlagType' /\ ControlType'
  <2>1. prevstate' \in State /\ nextstate' \in State
    BY <1>5, <1>0, GotoType DEF System
  <2>2. mcause' \in Word
    BY <1>5, <1>a, CauseAssumption, FourType DEF System, ControlType
  <2>3. FlagType'
    BY <1>5, <1>a, Zenon DEF System, FlagType
  <2>4. ControlType'
    BY <1>5, <1>a, <2>1, <2>2 DEF System, ControlType, Enable
  <2> QED BY <2>3, <2>4
<1>6. ASSUME Trap1 PROVE FlagType' /\ ControlType'
  <2>1. prevstate' \in State /\ nextstate' \in State
    BY <1>6, <1>0, GotoType DEF Trap1
  <2>2. FlagType'
    BY <1>6, <1>a, Zenon DEF Trap1, FlagType
  <2>3. ControlType'
    BY <1>6, <1>a, <2>1 DEF Trap1, ControlType
  <2> QED BY <2>2, <2>3
<1>7. ASSUME Csrrw PROVE FlagType' /\ ControlType'
  <2>1. prevstate' \in State /\ nextstate' \in State
    BY <1>7, <1>0, GotoType DEF Csrrw
  <2>2. Bits31_2(regval1) \in PcWord /\ CauseBits(regval1) \in Word
    BY <1>a, PcType, CauseType DEF PartType
  <2>3. meie' \in BOOLEAN /\ meiePrev' \in BOOLEAN
    BY <1>7, <1>a DEF Csrrw, FlagType
  <2>4. FlagType'
    BY <1>7, <1>a, <2>3, Zenon DEF Csrrw, FlagType, nextpcVars
  <2>5. ControlType'
    BY <1>7, <1>a, <2>1, <2>2 DEF Csrrw, ControlType, nextpcVars
  <2> QED BY <2>4, <2>5
<1>8. FlagType' /\ ControlType'
  BY <1>1, <1>2, <1>3, <1>4, <1>5, <1>6, <1>7 DEF Negedge
<1>9. PartType'
  BY <1>a DEF Negedge, PartType, partVars, aluVars, historyVars
<1>10. WireType'
  <2>1. restarting' \in BOOLEAN
    BY DEF Negedge
  <2>2. UNCHANGED <<reset, interrupt, busBusy>> /\ edge' = "pos"
    BY DEF Negedge, partVars
  <2> QED BY <1>a, <2>1, <2>2, Zenon DEF WireType
<1> QED BY <1>8, <1>9, <1>10, Zenon DEF TypeOK, FlagType, ControlType, PartType, WireType

LEMMA OperandTypes == TypeOK => aluDataS1 \in Word /\ aluDataS2 \in Word
<1> SUFFICES ASSUME TypeOK PROVE aluDataS1 \in Word /\ aluDataS2 \in Word
  OBVIOUS
<1>1. Address(pcAlu) \in Word /\ dec.imm \in Word
  BY AddressType, InstructionFields DEF TypeOK
<1> QED BY <1>1 DEF TypeOK, aluDataS1, aluDataS2

LEMMA PosedgeType == TypeOK /\ Posedge => TypeOK'
<1> SUFFICES ASSUME TypeOK, Posedge PROVE TypeOK'
  OBVIOUS
<1> USE DEF TypeOK
<1>0. aluDataS1 \in Word /\ aluDataS2 \in Word
  BY OperandTypes
<1>1. pcAlu' \in PcWord /\ aluOut' \in Word
  BY <1>0, SumType DEF Posedge, Alu
<1>2. unit' \in {"idle", "run", "done"} /\ unitArg' \in Word /\ unitOut' \in Word
  BY <1>0, ProdType DEF Posedge, MultiCycle
<1>3. dec' \in Instruction
  BY DEF Posedge, Decoder
<1>4. regfile' \in [Reg -> Word]
  <2>1. Address(epc) \in Word /\ Address(evect) \in Word
    BY AddressType
  <2>2. StatusWord(interrupt, meiePrev, meie) \in Word
    BY StatusType
  <2>3. msrData \in Word
    BY <2>1, <2>2 DEF msrData
  <2>4. regDatain \in Word
    BY <2>3 DEF regDatain
  <2>5. dec.rd \in Reg
    BY InstructionFields
  <2>6. Written(regfile, dec.rd, regDatain) \in [Reg -> Word]
    BY <2>4, <2>5, WrittenType
  <2> QED BY <2>6 DEF Posedge, Registers
<1>5. regval1' \in Word /\ regval2' \in Word
  <2>1. busInstr.rs1 \in Reg /\ busInstr.rs2 \in Reg /\ 0 \in Reg
    BY InstructionFields, WordAssumption
  <2> QED BY <2>1 DEF Posedge, Registers
<1>6. bruNextpc' \in Word
  <2>1. Address(pc) \in Word /\ dec.imm \in Word
    BY AddressType, InstructionFields
  <2>2. Sum(Address(pc), dec.imm) \in Word /\ Sum(Address(pc), 4) \in Word
    BY <2>1, FourType, SumType
  <2> QED BY <2>2 DEF Posedge, BranchUnit
<1>7. /\ busBusy' \in BOOLEAN /\ busInstr' \in Instruction /\ busData' \in Word
      /\ instr' \in Instruction \cup {None} /\ fetched' \in 0..MaxInstr
  <2>1. CASE BeginOrRest
    <3>1. busBusy' \in BOOLEAN
      BY <2>1 DEF BeginOrRest, On
    <3> QED BY <2>1, <3>1 DEF BeginOrRest
  <2>2. CASE Serve
    <3>1. MaxInstr \in Nat /\ fetched \in 0..MaxInstr
      BY ProgramAssumption
    <3>1a. /\ \A n \in 1..MaxInstr : Program[n] \subseteq Instruction
          /\ Halt \in Instruction
          /\ LoadData \subseteq Word
      BY ProgramAssumption
    <3>2. CASE UNCHANGED <<busBusy, busInstr, busData, instr, accesses, fetched>>
      BY <3>2
    <3>3. CASE /\ busBusy' = FALSE
               /\ busInstr' \in IF fetched < MaxInstr THEN Program[fetched + 1] ELSE {Halt}
               /\ instr' = busInstr'
               /\ fetched' = IF fetched < MaxInstr THEN fetched + 1 ELSE fetched
               /\ UNCHANGED busData
      <4>1. busInstr' \in Instruction
        BY <3>1, <3>1a, <3>3
      <4>2. fetched' \in 0..MaxInstr
        BY <3>1, <3>3
      <4> QED BY <3>3, <4>1, <4>2
    <3>4. CASE /\ busBusy' = FALSE
               /\ busData' \in IF busOp = "LOAD" THEN LoadData ELSE {busData}
               /\ UNCHANGED <<busInstr, instr, fetched>>
      <4>1. busData' \in Word
        BY <3>1a, <3>4
      <4> QED BY <3>4, <4>1
    <3> QED BY <2>2, <3>2, <3>3, <3>4, Zenon DEF Serve
  <2> QED BY <2>1, <2>2 DEF Posedge
<1>8. restarting' \in BOOLEAN
  <2>1. restarting' = (restarting /\ ~(FetchBegins /\ prevstate = "FETCH"))
    BY DEF Posedge
  <2> QED BY <2>1
<1>9. edge' \in {"pos", "neg"} /\ reset' \in BOOLEAN /\ interrupt' \in BOOLEAN
  BY DEF Posedge
<1>10. UNCHANGED cpuVars
  BY DEF Posedge
<1> QED BY <1>1, <1>2, <1>3, <1>4, <1>5, <1>6, <1>7, <1>8, <1>9, <1>10
        DEF cpuVars, fsmVars, trapVars, nextpcVars

LEMMA StutterType == TypeOK /\ UNCHANGED vars => TypeOK'
BY DEF TypeOK, vars, cpuVars, fsmVars, trapVars, nextpcVars, partVars, aluVars, historyVars

\* Every register of the CPU stays in its range, for any program: addresses and
\* sums wrap at the word size, the unit and the state machine have no state but
\* the listed ones (TypeOK, cpu/cpu.v).
THEOREM TypeCorrect == Spec => []TypeOK
<1>1. TypeOK /\ [Next]_vars => TypeOK'
  BY NegedgeType, PosedgeType, StutterType DEF Next
<1> QED BY InitType, <1>1, PTL DEF Spec
-----------------------------------------------------------------------------
(* The bus request.  The state machine that waits for the bus repeats the   *)
(* state it is in, so what that state assigns must come out the same again:  *)
(* RequestInv says what makes it so.                                         *)

NextAddress == IF nextpcFromBru THEN Bits31_2(bruNextpc)
               ELSE IF nextpcFromAlu THEN Bits31_2(aluOut) ELSE pcnext

RequestInv ==
    /\ edge = "neg" /\ busBusy => On("bus")
    /\ On("bus") =>
        /\ ~On("re") /\ ~On("dec")
        /\ busOp \in {"FETCH", dec.op} /\ busOp \in {"FETCH", "LOAD", "STORE"}
        /\ \/ prevstate = "FETCH" /\ busOp = "FETCH" /\ pc = NextAddress
              /\ ~On("alu") /\ ~On("bru")
           \/ prevstate = "EXEC" /\ busOp = dec.op /\ busOp \in {"LOAD", "STORE"}
           \/ prevstate = "RESET"

LEMMA InitRequest == Init => RequestInv
BY DEF Init, RequestInv, On

LEMMA NegedgeRequest == RequestInv /\ Negedge => RequestInv'
<1> SUFFICES ASSUME RequestInv, Negedge PROVE RequestInv'
  OBVIOUS
<1>1. edge' = "pos" /\ UNCHANGED <<dec, aluOut, bruNextpc>>
  BY DEF Negedge, partVars, aluVars
<1>2. ASSUME Fetch PROVE RequestInv'
  <2>1. /\ busOp' = "FETCH" /\ prevstate' \in {"FETCH", "RESET"}
        /\ ~On("re")' /\ ~On("dec")' /\ ~On("alu")' /\ ~On("bru")'
    BY <1>2 DEF Fetch, Goto, On
  <2>2. UNCHANGED <<pcnext, nextpcFromAlu, nextpcFromBru>>
    BY <1>2 DEF Fetch, nextpcVars
  <2>3. pc' = NextAddress'
    BY <1>1, <1>2, <2>2 DEF Fetch, NextAddress
  <2> QED BY <1>1, <2>1, <2>3 DEF RequestInv
<1>3. ASSUME Exec PROVE RequestInv'
  <2>1. prevstate' \in {"EXEC", "RESET"}
    BY <1>3 DEF Exec, Goto
  <2>2. On("bus")' => dec.op \in {"LOAD", "STORE"} /\ busOp' = dec.op
    BY <1>3 DEF Exec, On
  <2>3. ~On("re")' /\ ~On("dec")'
    BY <1>3 DEF Exec, On
  <2> QED BY <1>1, <2>1, <2>2, <2>3 DEF RequestInv
<1>4. ASSUME Restart \/ Decode \/ System \/ Trap1 \/ Csrrw PROVE RequestInv'
  <2>1. ~On("bus")'
    BY <1>4 DEF Restart, Decode, System, Trap1, Csrrw, On
  <2> QED BY <1>1, <2>1 DEF RequestInv
<1> QED BY <1>2, <1>3, <1>4 DEF Negedge

LEMMA PosedgeRequest == RequestInv /\ Posedge => RequestInv'
<1> SUFFICES ASSUME RequestInv, Posedge PROVE RequestInv'
  OBVIOUS
<1>1. UNCHANGED <<prevstate, enables, pc, pcnext, nextpcFromAlu, nextpcFromBru, busOp>>
  BY DEF Posedge, cpuVars, fsmVars, nextpcVars
<1>2. busBusy' => On("bus")
  BY DEF Posedge, Serve, BeginOrRest
<1>3. ~On("dec") => UNCHANGED dec
  BY DEF Posedge, Decoder
<1>4. ~On("alu") => UNCHANGED aluOut
  BY DEF Posedge, Alu
<1>5. ~On("bru") => UNCHANGED bruNextpc
  BY DEF Posedge, BranchUnit
<1>6. \A e \in Enable : On(e)' <=> On(e)
  BY <1>1 DEF On
<1>7. CASE ~On("bus")
  BY <1>2, <1>6, <1>7 DEF RequestInv, Enable
<1>8. CASE On("bus")
  <2>1. UNCHANGED dec
    BY <1>3, <1>8 DEF RequestInv
  <2>2. pc = NextAddress /\ ~On("alu") /\ ~On("bru") => pc' = NextAddress'
    BY <1>1, <1>4, <1>5 DEF NextAddress
  <2> QED BY <1>1, <1>2, <1>6, <1>8, <2>1, <2>2 DEF RequestInv, Enable
<1> QED BY <1>7, <1>8

LEMMA StutterRequest == RequestInv /\ UNCHANGED vars => RequestInv'
BY DEF RequestInv, NextAddress, On, vars, cpuVars, fsmVars, nextpcVars, partVars, aluVars

HeldStep == busBusy /\ busBusy' => UNCHANGED <<busOp, busAddr, regval2>>

LEMMA RequestHeldStep == RequestInv /\ [Next]_vars => HeldStep
<1> SUFFICES ASSUME RequestInv, [Next]_vars, busBusy, busBusy'
             PROVE  UNCHANGED <<busOp, busAddr, regval2>>
  BY DEF HeldStep
<1>1. ASSUME Negedge PROVE UNCHANGED <<busOp, busAddr, regval2>>
  <2>1. UNCHANGED <<dec, pcAlu, regval1, regval2>>
    BY <1>1 DEF Negedge, partVars, aluVars
  <2>2. On("bus") /\ state = prevstate
    BY <1>1 DEF Negedge, RequestInv, state, busy
  <2>3. UNCHANGED <<busOp, pc>>
    <3>1. ASSUME Restart \/ Decode \/ System \/ Trap1 \/ Csrrw
          PROVE  UNCHANGED <<busOp, pc>>
      BY <3>1 DEF Restart, Decode, System, Trap1, Csrrw
    <3>2. ASSUME Fetch PROVE UNCHANGED <<busOp, pc>>
      <4>1. prevstate = "FETCH"
        BY <2>2, <3>2 DEF Fetch
      <4>2. busOp = "FETCH" /\ pc = NextAddress
        BY <2>2, <4>1 DEF RequestInv
      <4> QED BY <3>2, <4>2 DEF Fetch, NextAddress
    <3>3. ASSUME Exec PROVE UNCHANGED <<busOp, pc>>
      <4>1. prevstate = "EXEC"
        BY <2>2, <3>3 DEF Exec
      <4>2. busOp = dec.op /\ busOp \in {"LOAD", "STORE"}
        BY <2>2, <4>1 DEF RequestInv
      <4> QED BY <3>3, <4>2 DEF Exec
    <3> QED BY <1>1, <3>1, <3>2, <3>3 DEF Negedge
  <2> QED BY <2>1, <2>3 DEF busAddr, aluDataS1, aluDataS2
<1>2. ASSUME Posedge PROVE UNCHANGED <<busOp, busAddr, regval2>>
  <2>1. On("bus")
    BY <1>2 DEF Posedge, BeginOrRest, Serve
  <2>2. UNCHANGED <<busOp, pc, dec, regval1, regval2>>
    <3>1. ~On("re") /\ ~On("dec")
      BY <2>1 DEF RequestInv
    <3> QED BY <1>2, <3>1 DEF Posedge, cpuVars, Decoder, Registers
  <2>3. busOp \in {"FETCH", dec.op} /\ (busOp # "FETCH" => dec.op \in {"LOAD", "STORE"})
    BY <2>1 DEF RequestInv
  <2> QED BY <2>2, <2>3 DEF busAddr, aluDataS1, aluDataS2
<1>3. ASSUME UNCHANGED vars PROVE UNCHANGED <<busOp, busAddr, regval2>>
  BY <1>3 DEF vars, cpuVars, partVars, aluVars, busAddr, aluDataS1, aluDataS2
<1> QED BY <1>1, <1>2, <1>3 DEF Next

\* While an access waits, operation, address and store data do not change, for
\* waits of any length: the repeated FETCH computes the same pc, the repeated
\* EXEC asks for the same access, and a reset touches none of the lines (the
\* Wishbone masters sample them for every beat, bus/wishbone32.v:104-115).
THEOREM RequestIsHeld == Spec => RequestHeld
<1>1. RequestInv /\ [Next]_vars => RequestInv'
  BY NegedgeRequest, PosedgeRequest, StutterRequest DEF Next
<1>2. RequestInv /\ [Next]_vars => HeldStep
  BY RequestHeldStep
<1>3. HeldStep => [HeldStep]_vars
  OBVIOUS
<1>4. Spec => [][HeldStep]_vars
  BY InitRequest, <1>1, <1>2, PTL DEF Spec
<1> QED BY <1>4 DEF HeldStep, RequestHeld
-----------------------------------------------------------------------------
(* The CPU executes instructions as Isa says.  At each edge the invariant     *)
(* says how far the instruction in flight has come: BeforeX what the state    *)
(* machine finds when it is to execute state X at the falling edge, for the   *)
(* first time or again, and ToldX what it has told the parts to do.          *)

ArchRecord(p, rg, m, mp, e, ev, mc) ==
    [pc |-> p, regs |-> rg, meie |-> m, meiePrev |-> mp, epc |-> e, evect |-> ev, mcause |-> mc]

Loaded == IF Software!UsesMemory(instr) THEN accesses[1].data ELSE 0

\* What the instruction in flight may leave behind, now that it has done its access.
Outcome(b) ==
    /\ instr # None
    /\ \/ /\ Software!UsesMemory(instr) => accesses # <<>>
          /\ \E irq \in BOOLEAN : b = Software!Executed(arch, instr, Loaded, irq)
       \/ accesses = <<>> /\ arch.meie = TRUE /\ b = Software!Trapped(arch, CauseExternal)

\* Only the register of the instruction in flight may have been written.
RegsClose(regs) ==
    \A r \in Reg : regs[r] # arch.regs[r] => instr # None /\ r = instr.rd /\ r # 0

Ready == /\ pcnext = VectorReset /\ evect = VectorException /\ meie = FALSE
         /\ nextpcFromAlu = FALSE /\ nextpcFromBru = FALSE /\ writebackInFetch = FALSE

Sequential == nextpcFromAlu = FALSE /\ nextpcFromBru = FALSE /\ writebackInFetch = FALSE

Untouched == arch = ArchNow(regfile) /\ accesses = <<>>

Idle == busBusy = FALSE /\ unit = "idle"

OperandsRead ==
    /\ instr # None /\ dec = instr
    /\ regval1 = arch.regs[IF instr.op = "LUI" THEN 0 ELSE instr.rs1]
    /\ regval2 = arch.regs[instr.rs2]

WrittenBack(wb) == IF wb THEN Written(regfile, dec.rd, regDatain) ELSE regfile

\* What software will see when the next fetch begins.
NextArch == ArchRecord(NextAddress, WrittenBack(writebackInFetch),
                       meie, meiePrev, epc, evect, mcause)

ProductHeld ==
    /\ unit # "idle" => unitArg = Prod(aluDataS1, aluDataS2)
    /\ unit = "done" => unitOut = Prod(aluDataS1, aluDataS2)

\* A trap is on its way: nothing but the cause is changed yet.
TrapDue ==
    /\ arch.pc = pc /\ arch.regs = regfile /\ arch.meie = meie /\ arch.evect = evect
    /\ Outcome(Software!Trapped(arch, mcause))

BeforeReset == state = "RESET" /\ restarting = TRUE /\ prevstate = "RESET" /\ unit = "idle"

BeforeFetch ==
    /\ state = "FETCH" /\ unit = "idle"
    /\ \/ restarting = TRUE /\ prevstate = "RESET" /\ busBusy = FALSE /\ Ready
       \/ restarting = FALSE /\ busBusy = FALSE /\ Outcome(NextArch)
       \/ /\ restarting = FALSE /\ busBusy = TRUE /\ busOp = "FETCH"
          /\ Untouched /\ instr = None /\ writebackInFetch = FALSE

BeforeDecode ==
    /\ state = "DECODE" /\ restarting = FALSE /\ Idle /\ Untouched /\ writebackInFetch = FALSE
    /\ instr # None /\ instr = busInstr

BeforeExec ==
    /\ state = "EXEC" /\ restarting = FALSE /\ Untouched /\ OperandsRead
    /\ nextpcFromAlu = FALSE /\ nextpcFromBru = FALSE
    /\ pcAlu = pc /\ bruNextpc = Sum(Address(pc), 4)
    /\ busBusy = TRUE => Software!UsesMemory(dec)
    /\ unit # "idle" => dec.op = "MUL"
    /\ ProductHeld

BeforeSystem ==
    /\ state = "SYSTEM" /\ restarting = FALSE /\ Idle /\ Sequential /\ Untouched
    /\ OperandsRead /\ instr.op = "SYSTEM" /\ pcnext = Software!NextPc(arch)

BeforeTrap1 == state = "TRAP1" /\ restarting = FALSE /\ Idle /\ Sequential /\ TrapDue

BeforeCsrrw ==
    /\ state = "CSRRW" /\ restarting = FALSE /\ Idle /\ Sequential
    /\ OperandsRead /\ instr.op = "SYSTEM" /\ instr.fn = "CSRRW" /\ accesses = <<>>
    /\ pcnext = Software!NextPc(arch)
    /\ arch = [ArchNow(regfile) EXCEPT !.regs = arch.regs]
    /\ \E irq \in BOOLEAN :
          regfile = Written(arch.regs, instr.rd, Software!MsrValue(arch, instr.csr, irq))

\* Either a reset was sampled, or the state machine goes on as p says.
Leads(s, p) == nextstate = "RESET" \/ (prevstate = s /\ p)

ToldReset ==
    /\ enables = {} /\ unit = "idle" /\ prevstate = "RESET" /\ restarting = TRUE
    /\ nextstate = "RESET" \/ (nextstate = "FETCH" /\ Ready)

FetchNow == ArchNow(WrittenBack(On("we")))

ToldFetch ==
    /\ On("bus") /\ enables \subseteq {"bus", "we"}
    /\ busOp = "FETCH" /\ unit = "idle" /\ writebackInFetch = FALSE
    /\ \/ busBusy = TRUE /\ ~On("we") /\ Untouched /\ instr = None
       \/ busBusy = FALSE /\ restarting = TRUE /\ ~On("we") /\ Ready /\ pc = VectorReset
       \/ busBusy = FALSE /\ ~(restarting /\ prevstate = "FETCH") /\ Outcome(FetchNow)
    /\ Leads("FETCH", nextstate = "DECODE")

ToldDecode ==
    /\ enables = {"dec", "re", "bru"} /\ Idle /\ Sequential
    /\ instr # None /\ instr = busInstr /\ accesses = <<>>
    /\ Leads("DECODE", \/ nextstate = "EXEC" /\ Untouched
                       \/ nextstate = "TRAP1" /\ TrapDue)

ToldExec ==
    /\ On("alu") /\ enables \subseteq {"alu", "bus", "bru", "branch"}
    /\ On("bus") <=> Software!UsesMemory(dec)
    /\ On("bru") <=> dec.op = "BRANCH"
    /\ On("branch") <=> dec.op = "BRANCH"
    /\ OperandsRead /\ Untouched
    /\ nextpcFromAlu <=> dec.op \in {"JAL", "JALR"}
    /\ nextpcFromBru <=> dec.op = "BRANCH"
    /\ writebackInFetch <=> WritesBack(dec)
    /\ pcAlu = pc /\ bruNextpc = Sum(Address(pc), 4) /\ pcnext = Software!NextPc(arch)
    /\ IF On("bus") THEN busOp = dec.op ELSE busBusy = FALSE
    /\ unit # "idle" => dec.op = "MUL"
    /\ ProductHeld
    /\ Leads("EXEC", nextstate = AfterExec(dec))

ToldSystem ==
    /\ enables \subseteq {"we"} /\ Idle /\ Sequential /\ OperandsRead /\ instr.op = "SYSTEM"
    /\ accesses = <<>>
    /\ Leads("SYSTEM", \/ /\ nextstate = "CSRRW" /\ enables = {"we"} /\ instr.fn = "CSRRW"
                          /\ Untouched /\ pcnext = Software!NextPc(arch)
                       \/ nextstate = "TRAP1" /\ enables = {} /\ TrapDue
                       \/ nextstate = "FETCH" /\ enables = {} /\ Outcome(NextArch))

ToldTrap ==
    /\ enables = {} /\ Idle /\ Sequential /\ Outcome(NextArch)
    /\ \E s \in {"TRAP1", "CSRRW"} : Leads(s, nextstate = "FETCH")

NegInv == BeforeReset \/ BeforeFetch \/ BeforeDecode \/ BeforeExec
          \/ BeforeSystem \/ BeforeTrap1 \/ BeforeCsrrw

PosInv ==
    /\ ToldReset \/ ToldFetch \/ ToldDecode \/ ToldExec \/ ToldSystem \/ ToldTrap
    /\ reset = TRUE => nextstate = "RESET"
    /\ nextstate = "RESET" => prevstate = "RESET" /\ restarting = TRUE
                               /\ (reset = TRUE \/ ToldReset)
    /\ restarting = TRUE => prevstate = "RESET" \/ (ToldFetch /\ busBusy = FALSE)

IsaInv ==
    /\ arch \in Software!Arch /\ regfile[0] = 0 /\ RegsClose(regfile)
    /\ edge = "pos" => PosInv
    /\ edge = "neg" => NegInv
-----------------------------------------------------------------------------
LEMMA AlignedNext ==
    ASSUME NEW p \in PcWord
    PROVE  Address(Bits31_2(Sum(Address(p), 4))) = Sum(Address(p), 4)
<1> DEFINE k == WordSize \div 4
<1>1. WordSize = 4 * k /\ k \in Nat /\ k >= 2
  BY WordAssumption
<1> HIDE DEF k
<1>2. p \in 0 .. k - 1
  BY DEF PcWord, k
<1>3. CASE p + 1 < k
  <2>1. (4 * p + 4) % WordSize = 4 * p + 4
    BY <1>1, <1>2, <1>3
  <2>2. (4 * p + 4) \div 4 = p + 1
    BY <1>2
  <2> QED BY <1>2, <2>1, <2>2 DEF Address, Bits31_2, Sum
<1>4. CASE p + 1 = k
  <2>1. (4 * p + 4) % WordSize = 0
    BY <1>1, <1>2, <1>4
  <2> QED BY <2>1 DEF Address, Bits31_2, Sum
<1> QED BY <1>1, <1>2, <1>3, <1>4

LEMMA SumZero == ASSUME NEW v \in Word PROVE Sum(0, v) = v
BY WordAssumption DEF Sum, Word

\* Isa extends Rv32 as this module does: its operators are the same.
LEMMA SameWords ==
    /\ Software!Word = Word /\ Software!PcWord = PcWord /\ Software!Msr = Msr
    /\ Software!Instruction = Instruction
BY DEF Software!Word, Word, Software!PcWord, PcWord, Software!Msr, Msr, Software!Instruction,
       Instruction, Software!Opcode, Opcode, Software!BranchFn, BranchFn, Software!SystemFn, SystemFn

LEMMA SameOperators ==
    /\ \A x, y : Software!Sum(x, y) = Sum(x, y)
    /\ \A x, y : Software!Prod(x, y) = Prod(x, y)
    /\ \A x : Software!Bits31_2(x) = Bits31_2(x)
    /\ \A x : Software!Address(x) = Address(x)
    /\ \A x : Software!CauseBits(x) = CauseBits(x)
BY DEF Software!Sum, Sum, Software!Prod, Prod, Software!Bits31_2, Bits31_2,
       Software!Address, Address, Software!CauseBits, CauseBits

LEMMA SameTaken == ASSUME NEW fn, NEW x, NEW y PROVE Software!Taken(fn, x, y) <=> Taken(fn, x, y)
BY DEF Software!Taken, Taken, Software!Signed, Signed

LEMMA SameWritten ==
    ASSUME NEW regs, NEW rd, NEW v PROVE Software!Written(regs, rd, v) = Written(regs, rd, v)
BY DEF Software!Written, Written

LEMMA SameStatus ==
    ASSUME NEW i, NEW p, NEW e PROVE Software!StatusWord(i, p, e) = StatusWord(i, p, e)
BY DEF Software!StatusWord, StatusWord, Software!Bit, Bit

LEMMA ArchRecordFields ==
    ASSUME NEW p, NEW rg, NEW m, NEW mp, NEW e, NEW ev, NEW mc
    PROVE  LET a == ArchRecord(p, rg, m, mp, e, ev, mc)
           IN  /\ a.pc = p /\ a.regs = rg /\ a.meie = m /\ a.meiePrev = mp
               /\ a.epc = e /\ a.evect = ev /\ a.mcause = mc
BY DEF ArchRecord

LEMMA ArchSelf ==
    ASSUME NEW a \in Software!Arch
    PROVE  /\ a = ArchRecord(a.pc, a.regs, a.meie, a.meiePrev, a.epc, a.evect, a.mcause)
           /\ a.pc \in PcWord /\ a.regs \in [Reg -> Word] /\ a.meie \in BOOLEAN
           /\ a.meiePrev \in BOOLEAN /\ a.epc \in PcWord /\ a.evect \in PcWord
           /\ a.mcause \in Word
BY SameWords DEF ArchRecord, Software!Arch

LEMMA ArchRecordType ==
    ASSUME NEW p \in PcWord, NEW rg \in [Reg -> Word], NEW m \in BOOLEAN, NEW mp \in BOOLEAN,
           NEW e \in PcWord, NEW ev \in PcWord, NEW mc \in Word
    PROVE  ArchRecord(p, rg, m, mp, e, ev, mc) \in Software!Arch
BY SameWords DEF ArchRecord, Software!Arch

LEMMA ArchNowForm ==
    ASSUME NEW rg
    PROVE  ArchNow(rg) = ArchRecord(pc, rg, meie, meiePrev, epc, evect, mcause)
BY DEF ArchNow, ArchRecord

LEMMA TrappedForm ==
    ASSUME NEW a \in Software!Arch, NEW c
    PROVE  Software!Trapped(a, c) = ArchRecord(a.evect, a.regs, FALSE, a.meie, a.pc, a.evect, c)
<1> DEFINE t == Software!Trapped(a, c)
<1>1. t = [a EXCEPT !.pc = a.evect, !.epc = a.pc, !.mcause = c, !.meie = FALSE, !.meiePrev = a.meie]
  BY DEF Software!Trapped
<1>2. t = [pc |-> t.pc, regs |-> t.regs, meie |-> t.meie, meiePrev |-> t.meiePrev,
           epc |-> t.epc, evect |-> t.evect, mcause |-> t.mcause]
  BY <1>1 DEF Software!Arch
<1>3. /\ t.pc = a.evect /\ t.regs = a.regs /\ t.meie = FALSE /\ t.meiePrev = a.meie
      /\ t.epc = a.pc /\ t.evect = a.evect /\ t.mcause = c
  BY <1>1 DEF Software!Arch
<1> QED BY <1>2, <1>3, Zenon DEF ArchRecord

LEMMA InvalidForm ==
    ASSUME NEW a, NEW i, NEW l, NEW irq, i.op = "INVALID"
    PROVE  Software!Executed(a, i, l, irq) = Software!Trapped(a, a.mcause)
BY DEF Software!Executed

LEMMA SystemForm ==
    ASSUME NEW a, NEW i, NEW l, NEW irq, i.op = "SYSTEM"
    PROVE  Software!Executed(a, i, l, irq) = Software!System(a, i, irq)
BY DEF Software!Executed

LEMMA MretForm ==
    ASSUME NEW a \in Software!Arch, NEW i, NEW irq, i.fn = "MRET"
    PROVE  Software!System(a, i, irq)
             = ArchRecord(a.epc, a.regs, a.meiePrev, a.meiePrev, a.epc, a.evect, 0)
<1>1. Software!System(a, i, irq) = [a EXCEPT !.pc = a.epc, !.meie = a.meiePrev, !.mcause = 0]
  BY DEF Software!System
<1> QED BY <1>1 DEF ArchRecord, Software!Arch

LEMMA ReadOnlyForm ==
    ASSUME NEW a \in Software!Arch, NEW i, NEW irq, i.fn = "CSRRW", i.readonly = TRUE
    PROVE  Software!System(a, i, irq)
             = ArchRecord(Software!NextPc(a), Written(a.regs, i.rd, Software!MsrValue(a, i.csr, irq)),
                          a.meie, a.meiePrev, a.epc, a.evect, a.mcause)
<1> DEFINE w == Written(a.regs, i.rd, Software!MsrValue(a, i.csr, irq))
<1>1. Software!System(a, i, irq) = [a EXCEPT !.pc = Software!NextPc(a), !.regs = w]
  BY SameWritten DEF Software!System
<1> HIDE DEF w
<1>2. Software!System(a, i, irq) = ArchRecord(Software!NextPc(a), w, a.meie, a.meiePrev, a.epc, a.evect, a.mcause)
  BY <1>1 DEF ArchRecord, Software!Arch
<1> QED BY <1>2 DEF w

LEMMA WriteForm ==
    ASSUME NEW a \in Software!Arch, NEW i, NEW irq, i.fn = "CSRRW", i.readonly = FALSE,
           i.csr \in Msr
    PROVE  LET v == a.regs[i.rs1]
               k == i.csr
           IN  Software!System(a, i, irq)
             = ArchRecord(Software!NextPc(a), Written(a.regs, i.rd, Software!MsrValue(a, i.csr, irq)),
                          IF k = "STATUS" THEN v % 2 = 1 ELSE a.meie,
                          IF k = "STATUS" THEN (v \div 2) % 2 = 1 ELSE a.meiePrev,
                          IF k = "EPC" THEN Bits31_2(v) ELSE a.epc,
                          IF k = "EVECT" THEN Bits31_2(v) ELSE a.evect,
                          IF k = "CAUSE" THEN CauseBits(v) ELSE a.mcause)
<1> DEFINE w == Written(a.regs, i.rd, Software!MsrValue(a, i.csr, irq))
<1> DEFINE v == a.regs[i.rs1]
<1> DEFINE read == [a EXCEPT !.pc = Software!NextPc(a), !.regs = w]
<1>1. Software!System(a, i, irq) = Software!MsrUpdated(read, i.csr, v)
  BY SameWritten DEF Software!System
<1> HIDE DEF w, v
<1>2. CASE i.csr = "STATUS"
  <2>1. Software!MsrUpdated(read, i.csr, v)
          = [read EXCEPT !.meie = v % 2 = 1, !.meiePrev = (v \div 2) % 2 = 1]
    BY <1>2 DEF Software!MsrUpdated
  <2> QED BY <1>1, <1>2, <2>1 DEF ArchRecord, Software!Arch, w, v
<1>3. CASE i.csr = "CAUSE"
  <2>1. Software!MsrUpdated(read, i.csr, v) = [read EXCEPT !.mcause = CauseBits(v)]
    BY <1>3, SameOperators DEF Software!MsrUpdated
  <2> QED BY <1>1, <1>3, <2>1 DEF ArchRecord, Software!Arch, w, v
<1>4. CASE i.csr = "EPC"
  <2>1. Software!MsrUpdated(read, i.csr, v) = [read EXCEPT !.epc = Bits31_2(v)]
    BY <1>4, SameOperators DEF Software!MsrUpdated
  <2> QED BY <1>1, <1>4, <2>1 DEF ArchRecord, Software!Arch, w, v
<1>5. CASE i.csr = "EVECT"
  <2>1. Software!MsrUpdated(read, i.csr, v) = [read EXCEPT !.evect = Bits31_2(v)]
    BY <1>5, SameOperators DEF Software!MsrUpdated
  <2> QED BY <1>1, <1>5, <2>1 DEF ArchRecord, Software!Arch, w, v
<1> QED BY <1>2, <1>3, <1>4, <1>5 DEF Msr

LEMMA PlainForm ==
    ASSUME NEW a \in Software!Arch, NEW i, NEW l, NEW irq, i.op \notin {"SYSTEM", "INVALID"}
    PROVE  Software!Executed(a, i, l, irq)
             = ArchRecord(Software!Successor(a, i),
                          IF Software!HasResult(i)
                          THEN Written(a.regs, i.rd, Software!Value(a, i, l)) ELSE a.regs,
                          a.meie, a.meiePrev, a.epc, a.evect, a.mcause)
<1> DEFINE s == Software!Successor(a, i)
<1> DEFINE r == IF Software!HasResult(i)
                THEN Written(a.regs, i.rd, Software!Value(a, i, l)) ELSE a.regs
<1>1. Software!Executed(a, i, l, irq) = [a EXCEPT !.pc = s, !.regs = r]
  BY SameWritten DEF Software!Executed
<1> HIDE DEF s, r
<1>2. Software!Executed(a, i, l, irq) = ArchRecord(s, r, a.meie, a.meiePrev, a.epc, a.evect, a.mcause)
  BY <1>1 DEF ArchRecord, Software!Arch
<1> QED BY <1>2 DEF s, r
-----------------------------------------------------------------------------
(* The operands and results of an instruction, as the CPU has them and as Isa *)
(* has them.                                                                  *)

LEMMA SameMsr ==
    ASSUME NEW a, NEW m, NEW irq,
           a.meie = meie, a.meiePrev = meiePrev, a.epc = epc, a.evect = evect,
           a.mcause = mcause, m = dec.csr, irq = interrupt
    PROVE  Software!MsrValue(a, m, irq) = msrData
BY SameStatus, SameOperators DEF Software!MsrValue, msrData

LEMMA NextPcForm ==
    ASSUME NEW a PROVE Software!NextPc(a) = Bits31_2(Sum(Address(a.pc), 4))
BY SameOperators DEF Software!NextPc

LEMMA EffectiveForm ==
    ASSUME NEW a, NEW i PROVE Software!Effective(a, i) = Sum(a.regs[i.rs1], i.imm)
BY SameOperators DEF Software!Effective

\* How Untouched reads, field by field.
LEMMA UntouchedFields ==
    Untouched => /\ arch.pc = pc /\ arch.regs = regfile /\ arch.meie = meie
                 /\ arch.meiePrev = meiePrev /\ arch.epc = epc /\ arch.evect = evect
                 /\ arch.mcause = mcause /\ accesses = <<>>
<1> SUFFICES ASSUME Untouched
             PROVE  /\ arch.pc = pc /\ arch.regs = regfile /\ arch.meie = meie
                    /\ arch.meiePrev = meiePrev /\ arch.epc = epc /\ arch.evect = evect
                    /\ arch.mcause = mcause /\ accesses = <<>>
  OBVIOUS
<1>1. arch = ArchRecord(pc, regfile, meie, meiePrev, epc, evect, mcause) /\ accesses = <<>>
  BY ArchNowForm, Zenon DEF Untouched
<1> QED BY <1>1, ArchRecordFields
-----------------------------------------------------------------------------
LEMMA InitIsa == Init => IsaInv
<1> SUFFICES ASSUME Init PROVE IsaInv
  OBVIOUS
<1>1. TypeOK
  BY InitType
<1>2. arch = ArchRecord(pc, InitRegs, meie, meiePrev, epc, evect, mcause)
  BY ArchNowForm DEF Init
<1>3. regfile = InitRegs /\ InitRegs[0] = 0
  BY ProgramAssumption DEF Init
<1>4. arch \in Software!Arch
  BY <1>1, <1>2, <1>3, ArchRecordType DEF TypeOK
<1>5. RegsClose(regfile)
  BY <1>2, <1>3, ArchRecordFields DEF RegsClose
<1>6. ToldReset /\ reset \in BOOLEAN /\ nextstate = "RESET" /\ unit = "idle" /\ edge = "pos"
  BY DEF Init, ToldReset
<1>7. PosInv
  BY <1>6 DEF PosInv, ToldReset
<1> QED BY <1>3, <1>4, <1>5, <1>6, <1>7 DEF IsaInv
-----------------------------------------------------------------------------
(* The falling edge. *)

NegFrame ==
    /\ edge' = "pos" /\ restarting' = (restarting \/ reset)
    /\ UNCHANGED <<reset, interrupt, dec, regfile, regval1, regval2, bruNextpc, busBusy, busInstr,
                   busData, pcAlu, aluOut, unit, unitArg, unitOut, arch, instr, accesses>>

LEMMA NegedgeFrame == Negedge => NegFrame
BY DEF Negedge, NegFrame, partVars, aluVars, historyVars

LEMMA NegedgeGoes ==
    TypeOK /\ Negedge => /\ prevstate' = IF reset = TRUE THEN "RESET" ELSE state
                         /\ nextstate' = "RESET" <=> reset = TRUE
<1> SUFFICES ASSUME TypeOK, Negedge
             PROVE  /\ prevstate' = IF reset = TRUE THEN "RESET" ELSE state
                    /\ nextstate' = "RESET" <=> reset = TRUE
  OBVIOUS
<1>1. \E s \in State : s # "RESET" /\ Goto(s)
  <2>1. CASE Restart
    BY <2>1 DEF Restart, State
  <2>2. CASE Fetch
    BY <2>2 DEF Fetch, State
  <2>3. CASE Decode
    BY <2>3 DEF Decode, State
  <2>4. CASE Exec
    BY <2>4 DEF Exec, State, AfterExec
  <2>5. CASE System
    BY <2>5 DEF System, State
  <2>6. CASE Trap1
    BY <2>6 DEF Trap1, State
  <2>7. CASE Csrrw
    BY <2>7 DEF Csrrw, State
  <2> QED BY <2>1, <2>2, <2>3, <2>4, <2>5, <2>6, <2>7 DEF Negedge
<1> QED BY <1>1 DEF Goto, TypeOK

\* The outcomes of an instruction do not depend on the CPU's own registers.
LEMMA OutcomeKept ==
    ASSUME UNCHANGED <<arch, instr, accesses>>, NEW b, Outcome(b), NEW c, c = b
    PROVE  /\ instr' # None
           /\ \/ /\ Software!UsesMemory(instr') => accesses' # <<>>
                 /\ \E irq \in BOOLEAN : c = Software!Executed(arch', instr', Loaded', irq)
              \/ accesses' = <<>> /\ arch'.meie = TRUE /\ c = Software!Trapped(arch', CauseExternal)
BY DEF Outcome, Loaded

LEMMA NegReset ==
    ASSUME TypeOK, BeforeReset, NegFrame, Restart PROVE ToldReset'
<1>1. enables' = {} /\ Ready' /\ restarting' = TRUE /\ unit' = "idle"
  BY DEF NegFrame, BeforeReset, Restart, Ready, TypeOK
<1>2. prevstate' = "RESET" /\ nextstate' \in {"RESET", "FETCH"}
  BY DEF BeforeReset, Restart, Goto
<1> QED BY <1>1, <1>2 DEF ToldReset

LEMMA NegFetch ==
    ASSUME TypeOK, RequestInv, edge = "neg", arch \in Software!Arch,
           BeforeFetch, NegFrame, Fetch
    PROVE  ToldFetch' /\ (restarting = TRUE => busBusy' = FALSE)
<1>0. state = "FETCH"
  BY DEF BeforeFetch
<1>1. /\ On("bus")' /\ enables' \subseteq {"bus", "we"}
      /\ busOp' = "FETCH" /\ unit' = "idle" /\ writebackInFetch' = FALSE
      /\ pc' = NextAddress
      /\ On("we")' <=> writebackInFetch = TRUE
  BY DEF TypeOK, BeforeFetch, NegFrame, Fetch, On, NextAddress
<1>2. /\ UNCHANGED <<epc, evect, meie, meiePrev, mcause>>
      /\ UNCHANGED <<pcnext, nextpcFromAlu, nextpcFromBru>>
  BY DEF Fetch, trapVars, nextpcVars
<1>3. Leads("FETCH", nextstate = "DECODE")'
  BY <1>0 DEF Fetch, Goto, Leads
<1>4. CASE restarting = TRUE /\ prevstate = "RESET" /\ busBusy = FALSE /\ Ready
  <2>1. pc' = VectorReset /\ ~On("we")' /\ Ready'
    BY <1>1, <1>2, <1>4 DEF NextAddress, Ready
  <2>2. busBusy' = FALSE /\ restarting' = TRUE
    BY <1>4 DEF NegFrame
  <2> QED BY <1>1, <1>3, <2>1, <2>2 DEF ToldFetch
<1>5. CASE restarting = FALSE /\ busBusy = FALSE /\ Outcome(NextArch)
  <2>1. FetchNow' = NextArch
    <3>1. /\ WrittenBack(On("we"))' = WrittenBack(writebackInFetch)
      <4>1. regDatain' = regDatain
        BY <1>2 DEF NegFrame, regDatain, msrData
      <4> QED BY <1>1, <4>1 DEF NegFrame, WrittenBack
    <3> QED BY <1>1, <1>2, <3>1 DEF FetchNow, NextArch, ArchNow, ArchRecord
  <2>2. Outcome(FetchNow)'
    BY <1>5, <2>1, OutcomeKept DEF NegFrame, Outcome
  <2>3. busBusy' = FALSE /\ ~(restarting /\ prevstate = "FETCH")'
    BY <1>0, <1>5 DEF NegFrame, Fetch, Goto
  <2> QED BY <1>1, <1>3, <1>5, <2>2, <2>3 DEF ToldFetch
<1>6. CASE /\ restarting = FALSE /\ busBusy = TRUE /\ busOp = "FETCH"
           /\ Untouched /\ instr = None /\ writebackInFetch = FALSE
  <2>1. prevstate = "FETCH" /\ On("bus")
    BY <1>0, <1>6 DEF state, busy, RequestInv
  <2>2. pc' = pc
    BY <1>1, <2>1 DEF RequestInv
  <2>3. Untouched'
    BY <1>2, <1>6, <2>2 DEF Untouched, ArchNow, NegFrame
  <2>4. busBusy' = TRUE /\ ~On("we")' /\ instr' = None
    BY <1>1, <1>6 DEF NegFrame
  <2> QED BY <1>1, <1>3, <1>6, <2>3, <2>4 DEF ToldFetch
<1> QED BY <1>4, <1>5, <1>6 DEF BeforeFetch

LEMMA NegDecode ==
    ASSUME TypeOK, BeforeDecode, NegFrame, Decode PROVE ToldDecode'
<1>0. state = "DECODE" /\ Untouched
  BY DEF BeforeDecode
<1>1. /\ enables' = {"dec", "re", "bru"} /\ Idle' /\ Sequential'
      /\ instr' # None /\ instr' = busInstr' /\ accesses' = <<>>
  BY DEF BeforeDecode, NegFrame, Decode, Idle, Sequential, Untouched
<1>2. UNCHANGED <<pc, pcnext, epc, evect, meie, meiePrev>>
  BY DEF Decode
<1>3. CASE meie /\ interrupt
  <2>1. /\ mcause' = CauseExternal
        /\ nextstate' = "RESET" \/ (prevstate' = "DECODE" /\ nextstate' = "TRAP1")
    BY <1>0, <1>3 DEF Decode, Goto
  <2>2. /\ arch.pc = pc /\ arch.regs = regfile /\ arch.meie = meie /\ arch.evect = evect
    BY <1>0, UntouchedFields
  <2>3. arch'.meie = TRUE
    BY <1>3, <2>2 DEF NegFrame, TypeOK
  <2>4. Outcome(Software!Trapped(arch, mcause))'
    BY <1>1, <2>1, <2>3 DEF Outcome
  <2>5. TrapDue'
    BY <1>2, <2>2, <2>4 DEF TrapDue, NegFrame
  <2> QED BY <1>1, <2>1, <2>5 DEF ToldDecode, Leads
<1>4. CASE ~(meie /\ interrupt)
  <2>1. /\ mcause' = mcause
        /\ nextstate' = "RESET" \/ (prevstate' = "DECODE" /\ nextstate' = "EXEC")
    BY <1>0, <1>4 DEF Decode, Goto
  <2>2. Untouched'
    BY <1>0, <1>2, <2>1 DEF Untouched, ArchNow, NegFrame
  <2> QED BY <1>1, <2>1, <2>2 DEF ToldDecode, Leads
<1> QED BY <1>3, <1>4

LEMMA NegExec ==
    ASSUME TypeOK, BeforeExec, NegFrame, Exec PROVE ToldExec'
<1>0. state = "EXEC" /\ Untouched /\ OperandsRead
  BY DEF BeforeExec
<1>1. UNCHANGED <<pc, epc, evect, meie, meiePrev, mcause>>
  BY DEF Exec, trapVars
<1>2. OperandsRead' /\ Untouched' /\ ProductHeld'
  <2>1. OperandsRead' /\ Untouched'
    BY <1>0, <1>1 DEF OperandsRead, Untouched, ArchNow, NegFrame
  <2>2. ProductHeld'
    BY DEF BeforeExec, ProductHeld, aluDataS1, aluDataS2, NegFrame
  <2> QED BY <2>1, <2>2
<1>3. /\ On("alu")' /\ enables' \subseteq {"alu", "bus", "bru", "branch"}
      /\ On("bus")' <=> Software!UsesMemory(dec')
      /\ On("bru")' <=> dec'.op = "BRANCH"
      /\ On("branch")' <=> dec'.op = "BRANCH"
  BY DEF Exec, On, NegFrame, Software!UsesMemory
<1>4. /\ nextpcFromAlu' <=> dec'.op \in {"JAL", "JALR"}
      /\ nextpcFromBru' <=> dec'.op = "BRANCH"
      /\ writebackInFetch' <=> WritesBack(dec')
  BY DEF Exec, BeforeExec, NegFrame
<1>5. pcAlu' = pc' /\ bruNextpc' = Sum(Address(pc'), 4) /\ pcnext' = Software!NextPc(arch')
  <2>1. pcAlu = pc /\ bruNextpc = Sum(Address(pc), 4) /\ arch.pc = pc
    BY <1>0, UntouchedFields DEF BeforeExec
  <2>2. pcnext' = Software!NextPc(arch')
    BY <2>1, NextPcForm DEF Exec, NegFrame
  <2> QED BY <1>1, <2>1, <2>2 DEF NegFrame
<1>6. IF On("bus")' THEN busOp' = dec'.op ELSE busBusy' = FALSE
  BY <1>3 DEF Exec, BeforeExec, NegFrame, Software!UsesMemory, TypeOK
<1>7. unit' # "idle" => dec'.op = "MUL"
  BY DEF BeforeExec, NegFrame
<1>8. Leads("EXEC", nextstate = AfterExec(dec))'
  BY <1>0 DEF Exec, Goto, Leads, NegFrame
<1> QED BY <1>2, <1>3, <1>4, <1>5, <1>6, <1>7, <1>8 DEF ToldExec

LEMMA NegSystem ==
    ASSUME TypeOK, arch \in Software!Arch, BeforeSystem, NegFrame, System PROVE ToldSystem'
<1>0. /\ state = "SYSTEM" /\ Untouched /\ OperandsRead /\ instr.op = "SYSTEM"
      /\ pcnext = Software!NextPc(arch) /\ dec = instr /\ Idle /\ Sequential
  BY DEF BeforeSystem, OperandsRead
<1>1. UNCHANGED <<pc, epc, evect, meiePrev, nextpcFromAlu, nextpcFromBru, writebackInFetch>>
  BY DEF System
<1>2. /\ OperandsRead' /\ Idle' /\ Sequential' /\ instr'.op = "SYSTEM" /\ accesses' = <<>>
      /\ enables' = IF instr.fn = "CSRRW" THEN {"we"} ELSE {}
  BY <1>0, <1>1 DEF OperandsRead, Idle, Sequential, Untouched, NegFrame, System, On
<1>3. /\ arch.pc = pc /\ arch.regs = regfile /\ arch.meie = meie /\ arch.meiePrev = meiePrev
      /\ arch.epc = epc /\ arch.evect = evect /\ arch.mcause = mcause /\ accesses = <<>>
  BY <1>0, UntouchedFields
<1>4. /\ instr # None /\ ~Software!UsesMemory(instr)
  BY <1>0 DEF OperandsRead, Software!UsesMemory
<1>5. /\ instr' # None /\ ~Software!UsesMemory(instr')
      /\ Software!System(arch, instr, FALSE) = Software!Executed(arch', instr', Loaded', FALSE)
  BY <1>0, <1>4, SystemForm DEF NegFrame
<1>6. CASE instr.fn = "MRET"
  <2>1. /\ nextstate' = "RESET" \/ (prevstate' = "SYSTEM" /\ nextstate' = "FETCH")
        /\ meie' = meiePrev /\ pcnext' = epc /\ mcause' = 0 /\ enables' = {}
    BY <1>0, <1>2, <1>6 DEF System, Goto
  <2>2. NextArch' = ArchRecord(epc, regfile, meiePrev, meiePrev, epc, evect, 0)
    BY <1>0, <1>1, <2>1 DEF NextArch, NextAddress, WrittenBack, Sequential, NegFrame
  <2>3. NextArch' = Software!System(arch, instr, FALSE)
    BY <1>3, <1>6, <2>2, MretForm
  <2>4. Outcome(NextArch)'
    BY <1>5, <2>3 DEF Outcome
  <2> QED BY <1>2, <2>1, <2>4 DEF ToldSystem, Leads
<1>7. CASE instr.fn = "CSRRW"
  <2>1. /\ nextstate' = "RESET" \/ (prevstate' = "SYSTEM" /\ nextstate' = "CSRRW")
        /\ meie' = meie /\ pcnext' = pcnext /\ mcause' = mcause
    BY <1>0, <1>7 DEF System, Goto
  <2>2. Untouched' /\ pcnext' = Software!NextPc(arch') /\ instr'.fn = "CSRRW"
    BY <1>0, <1>1, <1>7, <2>1 DEF Untouched, ArchNow, NegFrame
  <2> QED BY <1>2, <1>7, <2>1, <2>2 DEF ToldSystem, Leads
<1>8. CASE instr.fn \notin {"MRET", "CSRRW"}
  <2>1. /\ nextstate' = "RESET" \/ (prevstate' = "SYSTEM" /\ nextstate' = "TRAP1")
        /\ meie' = meie /\ pcnext' = pcnext
    BY <1>0, <1>8 DEF System, Goto
  <2>2. Software!Trapped(arch', mcause') = Software!System(arch, instr, FALSE)
    <3>1. mcause' = CASE instr.fn = "ECALL"  -> CauseEcall
                      [] instr.fn = "EBREAK" -> CauseBreak
                      [] OTHER               -> CauseInvalid
      BY <1>0, <1>8 DEF System
    <3> QED BY <1>8, <3>1 DEF NegFrame, Software!System
  <2>3. Outcome(Software!Trapped(arch, mcause))'
    BY <1>5, <2>2 DEF Outcome
  <2>4. TrapDue'
    BY <1>1, <1>3, <2>1, <2>3 DEF TrapDue, NegFrame
  <2> QED BY <1>2, <1>8, <2>1, <2>4 DEF ToldSystem, Leads
<1> QED BY <1>6, <1>7, <1>8

LEMMA NegTrap1 ==
    ASSUME TypeOK, arch \in Software!Arch, BeforeTrap1, NegFrame, Trap1 PROVE ToldTrap'
<1>0. state = "TRAP1" /\ TrapDue /\ Idle /\ Sequential
  BY DEF BeforeTrap1
<1>1. /\ meiePrev' = meie /\ meie' = FALSE /\ epc' = pc /\ pcnext' = evect
      /\ UNCHANGED <<pc, evect, mcause, nextpcFromAlu, nextpcFromBru, writebackInFetch>>
      /\ enables' = {}
  BY DEF Trap1
<1>2. Idle' /\ Sequential'
  BY <1>0, <1>1 DEF Idle, Sequential, NegFrame
<1>3. NextArch' = ArchRecord(evect, regfile, FALSE, meie, pc, evect, mcause)
  BY <1>0, <1>1 DEF NextArch, NextAddress, WrittenBack, Sequential, NegFrame
<1>4. NextArch' = Software!Trapped(arch, mcause)
  BY <1>0, <1>3, TrappedForm DEF TrapDue
<1>5. Outcome(NextArch)'
  <2>1. Outcome(Software!Trapped(arch, mcause)) /\ UNCHANGED <<arch, instr, accesses>>
    BY <1>0 DEF TrapDue, NegFrame
  <2> QED BY <1>4, <2>1, OutcomeKept DEF Outcome
<1>6. nextstate' = "RESET" \/ (prevstate' = "TRAP1" /\ nextstate' = "FETCH")
  BY <1>0 DEF Trap1, Goto
<1> QED BY <1>1, <1>2, <1>5, <1>6 DEF ToldTrap, Leads

LEMMA NegCsrrw ==
    ASSUME TypeOK, arch \in Software!Arch, BeforeCsrrw, NegFrame, Csrrw PROVE ToldTrap'
<1>0. /\ state = "CSRRW" /\ Idle /\ Sequential /\ dec = instr /\ instr # None
      /\ instr.op = "SYSTEM" /\ instr.fn = "CSRRW" /\ regval1 = arch.regs[instr.rs1]
      /\ accesses = <<>> /\ pcnext = Software!NextPc(arch)
  BY DEF BeforeCsrrw, OperandsRead
<1>1. /\ UNCHANGED <<pc, pcnext, nextpcFromAlu, nextpcFromBru, writebackInFetch>>
      /\ enables' = {}
  BY DEF Csrrw, nextpcVars
<1>2. Idle' /\ Sequential'
  BY <1>0, <1>1 DEF Idle, Sequential, NegFrame
<1>3. NextArch' = ArchRecord(pcnext, regfile, meie', meiePrev', epc', evect', mcause')
  BY <1>0, <1>1 DEF NextArch, NextAddress, WrittenBack, Sequential, NegFrame
<1>4. /\ arch.pc = pc /\ arch.meie = meie /\ arch.meiePrev = meiePrev
      /\ arch.epc = epc /\ arch.evect = evect /\ arch.mcause = mcause
  BY DEF BeforeCsrrw, ArchNow
<1>5. PICK irq \in BOOLEAN :
          regfile = Written(arch.regs, instr.rd, Software!MsrValue(arch, instr.csr, irq))
  BY DEF BeforeCsrrw
<1>6. instr.csr \in Msr /\ instr.readonly \in BOOLEAN
  BY <1>0, InstructionFields DEF TypeOK
<1>7. NextArch' = Software!System(arch, instr, irq)
  <2>1. CASE instr.readonly = TRUE
    <3>1. UNCHANGED <<meie, meiePrev, epc, evect, mcause>>
      BY <1>0, <2>1 DEF Csrrw
    <3> QED BY <1>0, <1>3, <1>4, <1>5, <2>1, <3>1, ReadOnlyForm
  <2>2. CASE instr.readonly = FALSE
    <3> DEFINE v == arch.regs[instr.rs1]
               k == instr.csr
    <3>1. /\ mcause' = IF k = "CAUSE" THEN CauseBits(v) ELSE mcause
          /\ epc' = IF k = "EPC" THEN Bits31_2(v) ELSE epc
          /\ evect' = IF k = "EVECT" THEN Bits31_2(v) ELSE evect
          /\ meie' = IF k = "STATUS" THEN v % 2 = 1 ELSE meie
          /\ meiePrev' = IF k = "STATUS" THEN (v \div 2) % 2 = 1 ELSE meiePrev
      BY <1>0, <2>2 DEF Csrrw
    <3>2. Software!System(arch, instr, irq)
            = ArchRecord(Software!NextPc(arch), regfile,
                         IF k = "STATUS" THEN v % 2 = 1 ELSE arch.meie,
                         IF k = "STATUS" THEN (v \div 2) % 2 = 1 ELSE arch.meiePrev,
                         IF k = "EPC" THEN Bits31_2(v) ELSE arch.epc,
                         IF k = "EVECT" THEN Bits31_2(v) ELSE arch.evect,
                         IF k = "CAUSE" THEN CauseBits(v) ELSE arch.mcause)
      BY <1>0, <1>5, <1>6, <2>2, WriteForm
    <3> QED BY <1>0, <1>3, <1>4, <3>1, <3>2
  <2> QED BY <1>6, <2>1, <2>2
<1>8. Outcome(NextArch)'
  <2>1. NextArch' = Software!Executed(arch, instr, Loaded, irq) /\ ~Software!UsesMemory(instr)
    BY <1>0, <1>7, SystemForm DEF Software!UsesMemory
  <2>2. NextArch' = Software!Executed(arch', instr', Loaded', irq) /\ ~Software!UsesMemory(instr')
    BY <2>1 DEF NegFrame, Loaded
  <2> QED BY <1>0, <2>2 DEF NegFrame, Outcome
<1>9. nextstate' = "RESET" \/ (prevstate' = "CSRRW" /\ nextstate' = "FETCH")
  BY <1>0 DEF Csrrw, Goto
<1> QED BY <1>1, <1>2, <1>8, <1>9 DEF ToldTrap, Leads

LEMMA NegedgeIsa == TypeOK /\ RequestInv /\ IsaInv /\ Negedge => IsaInv'
<1> SUFFICES ASSUME TypeOK, RequestInv, IsaInv, Negedge PROVE IsaInv'
  OBVIOUS
<1>1. NegFrame /\ edge = "neg" /\ NegInv /\ arch \in Software!Arch
      /\ regfile[0] = 0 /\ RegsClose(regfile)
  BY NegedgeFrame DEF Negedge, IsaInv
<1>2. arch' \in Software!Arch /\ regfile'[0] = 0 /\ RegsClose(regfile)'
  <2>1. arch' = arch /\ regfile' = regfile /\ instr' = instr
    BY <1>1 DEF NegFrame
  <2>2. RegsClose(regfile)'
    BY <1>1, <2>1 DEF RegsClose
  <2> QED BY <1>1, <2>1, <2>2
<1>3. \/ BeforeReset /\ Restart
      \/ BeforeFetch /\ Fetch
      \/ BeforeDecode /\ Decode
      \/ BeforeExec /\ Exec
      \/ BeforeSystem /\ System
      \/ BeforeTrap1 /\ Trap1
      \/ BeforeCsrrw /\ Csrrw
  <2>1. /\ BeforeReset => state = "RESET"
        /\ BeforeFetch => state = "FETCH"
        /\ BeforeDecode => state = "DECODE"
        /\ BeforeExec => state = "EXEC"
        /\ BeforeSystem => state = "SYSTEM"
        /\ BeforeTrap1 => state = "TRAP1"
        /\ BeforeCsrrw => state = "CSRRW"
    BY DEF BeforeReset, BeforeFetch, BeforeDecode, BeforeExec, BeforeSystem, BeforeTrap1, BeforeCsrrw
  <2>2. /\ Restart => state = "RESET"
        /\ Fetch => state = "FETCH"
        /\ Decode => state = "DECODE"
        /\ Exec => state = "EXEC"
        /\ System => state = "SYSTEM"
        /\ Trap1 => state = "TRAP1"
        /\ Csrrw => state = "CSRRW"
    BY DEF Restart, Fetch, Decode, Exec, System, Trap1, Csrrw
  <2>3. Restart \/ Fetch \/ Decode \/ Exec \/ System \/ Trap1 \/ Csrrw
    BY DEF Negedge
  <2> QED BY <1>1, <2>1, <2>2, <2>3 DEF NegInv
<1>4. /\ (ToldReset \/ ToldFetch \/ ToldDecode \/ ToldExec \/ ToldSystem \/ ToldTrap)'
      /\ restarting = TRUE => state = "RESET" \/ (ToldFetch /\ busBusy = FALSE)'
  <2>1. CASE BeforeReset /\ Restart
    BY <1>1, <2>1, NegReset DEF BeforeReset
  <2>2. CASE BeforeFetch /\ Fetch
    BY <1>1, <2>2, NegFetch
  <2>3. CASE BeforeDecode /\ Decode
    BY <1>1, <2>3, NegDecode DEF BeforeDecode
  <2>4. CASE BeforeExec /\ Exec
    BY <1>1, <2>4, NegExec DEF BeforeExec
  <2>5. CASE BeforeSystem /\ System
    BY <1>1, <2>5, NegSystem DEF BeforeSystem
  <2>6. CASE BeforeTrap1 /\ Trap1
    BY <1>1, <2>6, NegTrap1 DEF BeforeTrap1
  <2>7. CASE BeforeCsrrw /\ Csrrw
    BY <1>1, <2>7, NegCsrrw DEF BeforeCsrrw
  <2> QED BY <1>3, <2>1, <2>2, <2>3, <2>4, <2>5, <2>6, <2>7
<1>5. /\ prevstate' = IF reset = TRUE THEN "RESET" ELSE state
      /\ nextstate' = "RESET" <=> reset = TRUE
  BY NegedgeGoes
<1>6. reset' = reset /\ reset \in BOOLEAN /\ restarting \in BOOLEAN
      /\ restarting' = (restarting \/ reset)
  BY <1>1 DEF NegFrame, TypeOK
<1>7. PosInv'
  BY <1>4, <1>5, <1>6 DEF PosInv
<1> QED BY <1>1, <1>2, <1>7 DEF IsaInv, NegFrame
-----------------------------------------------------------------------------
(* The rising edge: what software sees. *)

LEMMA PosedgeFrame ==
    Posedge => /\ edge = "pos" /\ edge' = "neg"
               /\ UNCHANGED <<prevstate, nextstate, enables, pc, epc, evect, meie, meiePrev, mcause,
                              pcnext, nextpcFromAlu, nextpcFromBru, writebackInFetch, busOp>>
BY DEF Posedge, cpuVars, fsmVars, trapVars, nextpcVars

LEMMA NoFetchBegins ==
    TypeOK /\ TypeOK' /\ Posedge /\ ~FetchBegins => arch' = arch /\ restarting' = restarting
<1> SUFFICES ASSUME TypeOK, TypeOK', Posedge, ~FetchBegins
             PROVE  arch' = arch /\ restarting' = restarting
  OBVIOUS
<1>1. restarting' <=> (restarting /\ ~(FetchBegins /\ prevstate = "FETCH"))
  BY DEF Posedge
<1>2. restarting \in BOOLEAN /\ restarting' \in BOOLEAN
  BY DEF TypeOK
<1>3. arch' = arch
  BY DEF Posedge
<1> QED BY <1>1, <1>2, <1>3

LEMMA NoAccess ==
    TypeOK /\ TypeOK' /\ Posedge /\ ~On("bus")
      => UNCHANGED <<arch, instr, accesses, restarting, busInstr, busData>> /\ busBusy' = FALSE
<1> SUFFICES ASSUME TypeOK, TypeOK', Posedge, ~On("bus")
             PROVE  UNCHANGED <<arch, instr, accesses, restarting, busInstr, busData>>
                    /\ busBusy' = FALSE
  OBVIOUS
<1>1. ~FetchBegins /\ BeginOrRest
  BY DEF Posedge, FetchBegins, Serve
<1>2. UNCHANGED <<arch, instr, accesses, busInstr, busData>> /\ busBusy' = FALSE
  BY <1>1 DEF Posedge, BeginOrRest
<1>3. restarting' = restarting
  BY <1>1, NoFetchBegins
<1> QED BY <1>2, <1>3

LEMMA FetchGoesOn ==
    ASSUME TypeOK, TypeOK', ToldFetch, busBusy = TRUE, Posedge
    PROVE  /\ UNCHANGED <<arch, accesses, restarting, regfile>> /\ accesses = <<>> /\ instr = None
           /\ Untouched
           /\ \/ UNCHANGED <<instr, busBusy>>
              \/ busBusy' = FALSE /\ instr' \in Instruction /\ instr' = busInstr'
<1>1. /\ On("bus") /\ ~On("we") /\ busOp = "FETCH" /\ Untouched /\ instr = None
  BY DEF ToldFetch
<1>2. Serve /\ ~FetchBegins
  BY <1>1 DEF Posedge, BeginOrRest, FetchBegins
<1>3. restarting' = restarting
  BY <1>2, NoFetchBegins
<1>4. arch' = arch /\ regfile' = regfile
  BY <1>1, <1>2 DEF Posedge, Registers
<1>5. /\ accesses' = accesses
      /\ \/ UNCHANGED <<instr, busBusy>>
         \/ busBusy' = FALSE /\ instr' = busInstr'
  BY <1>1, <1>2 DEF Serve
<1>6. busInstr' \in Instruction
  BY DEF TypeOK
<1> QED BY <1>1, <1>3, <1>4, <1>5, <1>6 DEF Untouched

LEMMA FetchStarts ==
    ASSUME ToldFetch, busBusy = FALSE, Posedge
    PROVE  /\ arch' = ArchNow(regfile') /\ regfile' = WrittenBack(On("we"))
           /\ instr' = None /\ accesses' = <<>> /\ busBusy' = TRUE
           /\ restarting' <=> (restarting /\ prevstate # "FETCH")
           /\ UNCHANGED busInstr
<1>1. On("bus") /\ busOp = "FETCH"
  BY DEF ToldFetch
<1>2. BeginOrRest /\ FetchBegins
  BY <1>1 DEF Posedge, Serve, FetchBegins
<1>3. regfile' = WrittenBack(On("we"))
  BY DEF Posedge, Registers, WrittenBack
<1> QED BY <1>1, <1>2, <1>3 DEF Posedge, BeginOrRest

LEMMA StepFetch ==
    ASSUME TypeOK, TypeOK', arch \in Software!Arch, RegsClose(regfile), ToldFetch, Posedge
    PROVE  Software!Next \/ UNCHANGED <<arch, instr, accesses, restarting>>
<1>1. CASE busBusy = TRUE
  <2>1. CASE UNCHANGED <<instr, busBusy>>
    BY <1>1, <2>1, FetchGoesOn
  <2>2. CASE busBusy' = FALSE /\ instr' \in Instruction
    <3>1. Software!Fetch /\ restarting' = restarting
      BY <1>1, <2>2, FetchGoesOn, SameWords DEF Software!Fetch
    <3> QED BY <3>1 DEF Software!Next
  <2> QED BY <1>1, <2>1, <2>2, FetchGoesOn
<1>2. CASE busBusy = FALSE
  <2>1. /\ arch' = ArchNow(regfile') /\ regfile' = WrittenBack(On("we"))
        /\ instr' = None /\ accesses' = <<>>
        /\ restarting' <=> (restarting /\ prevstate # "FETCH")
        /\ restarting \in BOOLEAN /\ restarting' \in BOOLEAN
    BY <1>2, FetchStarts DEF TypeOK
  <2>2. CASE restarting = TRUE /\ ~On("we") /\ Ready /\ pc = VectorReset
    <3>1. arch' = ArchRecord(VectorReset, regfile, FALSE, meiePrev, epc, VectorException, mcause)
      BY <2>1, <2>2, ArchNowForm DEF Ready, WrittenBack
    <3>2. arch' \in Software!Arch
      BY <3>1, ArchRecordType, ProgramAssumption DEF TypeOK
    <3>3. arch'.pc = VectorReset /\ arch'.evect = VectorException /\ arch'.meie = FALSE
          /\ arch'.regs = regfile
      BY <3>1 DEF ArchRecord
    <3>4. \A r \in Reg : arch'.regs[r] # arch.regs[r] => instr # None /\ r = instr.rd /\ r # 0
      BY <3>3 DEF RegsClose
    <3>5. Software!Restart
      BY <2>1, <2>2, <3>2, <3>3, <3>4 DEF Software!Restart
    <3> QED BY <2>1, <3>5 DEF Software!Next
  <2>3. CASE ~(restarting /\ prevstate = "FETCH") /\ Outcome(FetchNow)
    <3>1. arch' = FetchNow
      BY <2>1 DEF FetchNow
    <3>2. restarting' = restarting
      BY <2>1, <2>3
    <3>3. CASE /\ Software!UsesMemory(instr) => accesses # <<>>
               /\ \E irq \in BOOLEAN : FetchNow = Software!Executed(arch, instr, Loaded, irq)
      <4>1. Software!Retire
        BY <2>1, <2>3, <3>1, <3>3 DEF Software!Retire, Outcome, Loaded
      <4> QED BY <3>2, <4>1 DEF Software!Next
    <3>4. CASE accesses = <<>> /\ arch.meie = TRUE /\ FetchNow = Software!Trapped(arch, CauseExternal)
      <4>1. Software!Interrupt
        BY <2>1, <2>3, <3>1, <3>4 DEF Software!Interrupt, Outcome
      <4> QED BY <3>2, <4>1 DEF Software!Next
    <3> QED BY <2>3, <3>3, <3>4 DEF Outcome
  <2> QED BY <1>2, <2>2, <2>3 DEF ToldFetch
<1> QED BY <1>1, <1>2 DEF TypeOK

\* The access of a load or store, while it goes on and when it is answered.
LEMMA AccessStep ==
    ASSUME TypeOK, TypeOK', ToldExec, On("bus"), Posedge
    PROVE  /\ UNCHANGED <<arch, instr, restarting, busInstr>> /\ Software!UsesMemory(instr)
           /\ \/ accesses' = <<>> /\ busBusy' = TRUE
              \/ /\ busBusy' = FALSE /\ Software!DataAccess
                 /\ accesses' # <<>> /\ (instr.op = "LOAD" => accesses'[1].data = busData')
<1>1. /\ OperandsRead /\ Untouched /\ busOp = dec.op /\ dec = instr /\ instr # None
      /\ Software!UsesMemory(instr) /\ accesses = <<>>
  BY DEF ToldExec, OperandsRead, Untouched
<1>2. instr.op \in {"LOAD", "STORE"} /\ busOp = instr.op
  BY <1>1 DEF Software!UsesMemory
<1>3. ~FetchBegins
  BY <1>2 DEF FetchBegins
<1>4. restarting' = restarting /\ arch' = arch
  BY <1>3, NoFetchBegins
<1>5. CASE BeginOrRest
  BY <1>1, <1>3, <1>4, <1>5 DEF BeginOrRest
<1>6. CASE Serve
  <2>1. CASE UNCHANGED <<busBusy, busInstr, busData, instr, accesses, fetched>>
    BY <1>1, <1>4, <1>6, <2>1 DEF Serve, TypeOK
  <2>2. CASE ~UNCHANGED <<busBusy, busInstr, busData, instr, accesses, fetched>>
    <3>1. /\ busBusy' = FALSE /\ UNCHANGED <<busInstr, instr>>
          /\ accesses' = Append(accesses,
                [op |-> busOp, addr |-> busAddr,
                 data |-> IF busOp = "LOAD" THEN busData' ELSE regval2])
      BY <1>2, <1>6, <2>2 DEF Serve
    <3>2. busAddr = Software!Effective(arch, instr)
      <4>1. busAddr = Sum(regval1, instr.imm)
        BY <1>1, <1>2 DEF busAddr, aluDataS1, aluDataS2
      <4>2. regval1 = arch.regs[instr.rs1]
        BY <1>1, <1>2 DEF OperandsRead
      <4> QED BY <4>1, <4>2, EffectiveForm
    <3> DEFINE d == IF busOp = "LOAD" THEN busData' ELSE regval2
    <3>3. accesses' = << [op |-> instr.op, addr |-> Software!Effective(arch, instr), data |-> d] >>
      BY <1>1, <1>2, <3>1, <3>2
    <3>4. d \in IF instr.op = "STORE" THEN {arch.regs[instr.rs2]} ELSE Software!Word
      BY <1>1, <1>2, SameWords DEF OperandsRead, TypeOK
    <3>5. Software!DataAccess
      BY <1>1, <1>4, <3>1, <3>3, <3>4 DEF Software!DataAccess
    <3>6. accesses' # <<>> /\ (instr.op = "LOAD" => accesses'[1].data = busData')
      BY <1>2, <3>3
    <3> QED BY <1>1, <1>4, <3>1, <3>5, <3>6
  <2> QED BY <2>1, <2>2
<1> QED BY <1>5, <1>6 DEF Posedge

LEMMA PosedgeStep ==
    TypeOK /\ TypeOK' /\ IsaInv /\ Posedge
      => Software!Next \/ UNCHANGED <<arch, instr, accesses, restarting>>
<1> SUFFICES ASSUME TypeOK, TypeOK', IsaInv, Posedge
             PROVE  Software!Next \/ UNCHANGED <<arch, instr, accesses, restarting>>
  OBVIOUS
<1>1. PosInv /\ arch \in Software!Arch /\ RegsClose(regfile)
  BY PosedgeFrame DEF IsaInv
<1>2. CASE ToldFetch
  BY <1>1, <1>2, StepFetch
<1>3. CASE ToldExec /\ On("bus")
  <2>1. CASE accesses' = <<>> /\ busBusy' = TRUE
    <3>1. accesses = <<>>
      BY <1>3 DEF ToldExec, Untouched
    <3> QED BY <1>3, <2>1, <3>1, AccessStep
  <2>2. CASE Software!DataAccess
    BY <1>3, <2>2, AccessStep DEF Software!Next
  <2> QED BY <1>3, <2>1, <2>2, AccessStep
<1>4. CASE ToldReset \/ ToldDecode \/ (ToldExec /\ ~On("bus")) \/ ToldSystem \/ ToldTrap
  <2>1. /\ ToldReset \/ ToldTrap => enables = {}
        /\ ToldDecode => enables = {"dec", "re", "bru"}
        /\ ToldSystem => enables \subseteq {"we"}
    BY DEF ToldReset, ToldDecode, ToldSystem, ToldTrap
  <2>2. ~On("bus")
    BY <1>4, <2>1 DEF On
  <2> QED BY <2>2, NoAccess
<1> QED BY <1>1, <1>2, <1>3, <1>4 DEF PosInv
-----------------------------------------------------------------------------
(* The rising edge: the invariant. *)

LEMMA PosedgeRegs ==
    TypeOK /\ TypeOK' /\ IsaInv /\ Posedge
      => arch' \in Software!Arch /\ regfile'[0] = 0 /\ RegsClose(regfile)'
<1> SUFFICES ASSUME TypeOK, TypeOK', IsaInv, Posedge
             PROVE  arch' \in Software!Arch /\ regfile'[0] = 0 /\ RegsClose(regfile)'
  OBVIOUS
<1>1. PosInv /\ arch \in Software!Arch /\ RegsClose(regfile) /\ regfile[0] = 0
  BY PosedgeFrame DEF IsaInv
<1>2. /\ ~On("we") => regfile' = regfile
      /\ On("we") => regfile' = Written(regfile, dec.rd, regDatain)
      /\ arch' = IF FetchBegins THEN ArchNow(regfile') ELSE arch
  BY DEF Posedge, Registers
<1>3. arch' \in Software!Arch
  <2>1. CASE FetchBegins
    <3>1. arch' = ArchRecord(pc, regfile', meie, meiePrev, epc, evect, mcause)
      BY <1>2, <2>1, ArchNowForm
    <3> QED BY <3>1, ArchRecordType DEF TypeOK
  <2> QED BY <1>1, <1>2, <2>1
<1>4. regfile'[0] = 0
  BY <1>1, <1>2, WordAssumption DEF Written
<1>5. ASSUME ToldFetch /\ busBusy = FALSE PROVE RegsClose(regfile)'
  <2>1. arch'.regs = regfile'
    <3>1. arch' = ArchNow(regfile')
      BY <1>5, FetchStarts
    <3> QED BY <3>1 DEF ArchNow
  <2> QED BY <2>1 DEF RegsClose
<1>6. ASSUME ToldFetch /\ busBusy = TRUE PROVE RegsClose(regfile)'
  <2>1. Untouched /\ UNCHANGED <<arch, regfile>>
    BY <1>6, FetchGoesOn
  <2> QED BY <2>1, UntouchedFields DEF RegsClose
<1>7. ASSUME ToldExec PROVE RegsClose(regfile)'
  <2>1. ~On("we") /\ UNCHANGED <<arch, instr>>
    BY <1>7, NoAccess, AccessStep DEF ToldExec, On
  <2> QED BY <1>1, <1>2, <2>1 DEF RegsClose
<1>8. ASSUME ToldReset \/ ToldDecode \/ ToldTrap PROVE RegsClose(regfile)'
  <2>1. enables = {} \/ enables = {"dec", "re", "bru"}
    BY <1>8 DEF ToldReset, ToldDecode, ToldTrap
  <2>2. ~On("we") /\ ~On("bus")
    BY <2>1 DEF On
  <2> QED BY <1>1, <1>2, <2>2, NoAccess DEF RegsClose
<1>9. ASSUME ToldSystem PROVE RegsClose(regfile)'
  <2>1. ~On("bus") /\ instr # None /\ dec = instr
    BY <1>9 DEF ToldSystem, OperandsRead, On
  <2>2. UNCHANGED <<arch, instr>>
    BY <2>1, NoAccess
  <2>3. CASE On("we")
    <3>1. \A r \in Reg : regfile'[r] # regfile[r] => r = instr.rd /\ r # 0
      BY <1>2, <2>1, <2>3 DEF Written
    <3>2. SUFFICES ASSUME NEW r \in Reg, regfile'[r] # arch'.regs[r]
                   PROVE  instr' # None /\ r = instr'.rd /\ r # 0
      BY DEF RegsClose
    <3> QED BY <1>1, <2>1, <2>2, <3>1, <3>2 DEF RegsClose
  <2> QED BY <1>1, <1>2, <2>2, <2>3 DEF RegsClose
<1> QED BY <1>1, <1>3, <1>4, <1>5, <1>6, <1>7, <1>8, <1>9 DEF PosInv, TypeOK

LEMMA StateAfter ==
    TypeOK' /\ Posedge => state' = IF busBusy' = TRUE \/ unit' # "idle" THEN prevstate ELSE nextstate
BY PosedgeFrame DEF state, busy, TypeOK

\* After a reset the state machine is in RESET.
LEMMA PosedgeResets ==
    ASSUME TypeOK, TypeOK', PosInv, nextstate = "RESET", Posedge PROVE BeforeReset'
<1>1. prevstate = "RESET" /\ restarting = TRUE /\ (reset = TRUE \/ ToldReset)
  BY DEF PosInv
<1>2. prevstate' = "RESET" /\ nextstate' = "RESET"
  BY <1>1, PosedgeFrame
<1>3. state' = "RESET"
  BY <1>2, StateAfter, PosedgeFrame
<1>4. unit' = "idle"
  BY <1>1 DEF Posedge, MultiCycle, ToldReset, On
<1>5. restarting' = TRUE
  <2>1. restarting' <=> (restarting /\ ~(FetchBegins /\ prevstate = "FETCH"))
    BY DEF Posedge
  <2> QED BY <1>1, <2>1 DEF TypeOK
<1> QED BY <1>2, <1>3, <1>4, <1>5 DEF BeforeReset

\* The result of the instruction that EXEC completes.
LEMMA ExecResult ==
    ASSUME TypeOK, arch \in Software!Arch, regfile[0] = 0, ToldExec, Posedge, reset = FALSE,
           UNCHANGED <<arch, instr>>, instr.op \notin {"SYSTEM", "INVALID"},
           instr.op = "MUL" => unit = "done",
           Software!UsesMemory(instr)
             => accesses' # <<>> /\ (instr.op = "LOAD" => accesses'[1].data = busData')
    PROVE  Outcome(NextArch)'
<1> DEFINE s1 == arch.regs[instr.rs1]
           s2 == arch.regs[instr.rs2]
<1>1. /\ dec = instr /\ instr # None /\ instr \in Instruction
      /\ regval1 = arch.regs[IF instr.op = "LUI" THEN 0 ELSE instr.rs1] /\ regval2 = s2
      /\ Untouched /\ pcAlu = pc /\ bruNextpc = Sum(Address(pc), 4)
      /\ pcnext = Software!NextPc(arch) /\ On("alu")
  BY DEF ToldExec, OperandsRead, TypeOK
<1>2. /\ arch.pc = pc /\ arch.regs = regfile /\ arch.meie = meie
      /\ arch.meiePrev = meiePrev /\ arch.epc = epc /\ arch.evect = evect
      /\ arch.mcause = mcause
  BY <1>1, UntouchedFields
<1>3. /\ instr.op \in Opcode /\ instr.imm \in Word
  BY <1>1, InstructionFields
<1>4. dec' = dec /\ regfile' = regfile
  <2>1. ~On("dec") /\ ~On("we")
    BY DEF ToldExec, On
  <2> QED BY <2>1 DEF Posedge, Decoder, Registers
<1>5. aluOut' = CASE instr.op = "OP" -> Sum(s1, s2)
                  [] instr.op = "MUL" -> Prod(s1, s2)
                  [] instr.op = "LUI" -> instr.imm
                  [] instr.op \in {"JAL", "AUIPC"} -> Sum(Address(arch.pc), instr.imm)
                  [] instr.op = "BRANCH" -> Sum(s1, s2)
                  [] OTHER -> Sum(s1, instr.imm)
  <2>1. aluOut' = IF dec.op = "MUL" THEN unitOut ELSE Sum(aluDataS1, aluDataS2)
    BY <1>1 DEF Posedge, Alu
  <2>2. CASE instr.op = "MUL"
    <3>1. unitOut = Prod(aluDataS1, aluDataS2)
      BY <2>2 DEF ToldExec, ProductHeld
    <3> QED BY <1>1, <2>1, <2>2, <3>1 DEF aluDataS1, aluDataS2
  <2>3. CASE instr.op = "LUI"
    <3>1. aluOut' = Sum(arch.regs[0], instr.imm) /\ arch.regs[0] = 0
      BY <1>1, <1>2, <2>1, <2>3 DEF aluDataS1, aluDataS2
    <3> QED BY <1>3, <2>3, <3>1, SumZero
  <2>4. CASE instr.op \notin {"MUL", "LUI"}
    BY <1>1, <1>2, <2>1, <2>4 DEF aluDataS1, aluDataS2
  <2> QED BY <2>2, <2>3, <2>4
<1>6. bruNextpc' = IF instr.op = "BRANCH" /\ Taken(instr.fn, s1, s2)
                   THEN Sum(Address(arch.pc), instr.imm) ELSE Sum(Address(arch.pc), 4)
  <2>1. CASE instr.op = "BRANCH"
    <3>1. On("bru") /\ On("branch") /\ aluDataS1 = s1 /\ aluDataS2 = s2
      BY <1>1, <2>1 DEF ToldExec, aluDataS1, aluDataS2
    <3> QED BY <1>1, <1>2, <2>1, <3>1 DEF Posedge, BranchUnit
  <2>2. CASE instr.op # "BRANCH"
    <3>1. ~On("bru")
      BY <1>1, <2>2 DEF ToldExec
    <3> QED BY <1>1, <1>2, <2>2, <3>1 DEF Posedge, BranchUnit
  <2> QED BY <2>1, <2>2
<1>7. NextAddress' = Software!Successor(arch, instr)
  <2>1. NextAddress' = IF instr.op = "BRANCH" THEN Bits31_2(bruNextpc')
                       ELSE IF instr.op \in {"JAL", "JALR"} THEN Bits31_2(aluOut')
                       ELSE Software!NextPc(arch)
    BY <1>1, PosedgeFrame DEF NextAddress, ToldExec
  <2>2. Software!Successor(arch, instr) =
          CASE instr.op = "JAL"  -> Bits31_2(Sum(Address(arch.pc), instr.imm))
            [] instr.op = "JALR" -> Bits31_2(Sum(s1, instr.imm))
            [] instr.op = "BRANCH" /\ Taken(instr.fn, s1, s2)
                                 -> Bits31_2(Sum(Address(arch.pc), instr.imm))
            [] OTHER             -> Software!NextPc(arch)
    BY SameOperators, SameTaken, EffectiveForm DEF Software!Successor
  <2>3. Software!NextPc(arch) = Bits31_2(Sum(Address(arch.pc), 4))
    BY NextPcForm
  <2> QED BY <1>5, <1>6, <2>1, <2>2, <2>3
<1>8. ASSUME Software!HasResult(instr)
      PROVE  regDatain' = Software!Value(arch, instr, Loaded')
  <2>1. regDatain' = CASE instr.op = "LOAD" -> busData'
                       [] instr.op \in {"JAL", "JALR"} -> bruNextpc'
                       [] OTHER -> aluOut'
    BY <1>1, <1>4 DEF regDatain
  <2>2. instr.op = "LOAD" => Loaded' = busData'
    BY DEF Loaded, Software!UsesMemory
  <2>3. instr.op \in {"JAL", "JALR"} => bruNextpc' = Address(Software!NextPc(arch))
    <3>1. arch.pc \in PcWord
      BY ArchSelf
    <3> QED BY <1>6, <3>1, AlignedNext, NextPcForm
  <2>4. Software!Value(arch, instr, Loaded') =
          CASE instr.op = "OP"    -> Sum(s1, s2)
            [] instr.op = "MUL"   -> Prod(s1, s2)
            [] instr.op = "OPIMM" -> Sum(s1, instr.imm)
            [] instr.op = "LUI"   -> instr.imm
            [] instr.op = "AUIPC" -> Sum(Address(arch.pc), instr.imm)
            [] instr.op = "LOAD"  -> Loaded'
            [] OTHER              -> Address(Software!NextPc(arch))
    BY SameOperators, EffectiveForm DEF Software!Value
  <2>5. instr.op \in {"OP", "MUL", "OPIMM", "LUI", "AUIPC", "LOAD", "JAL", "JALR"}
    BY <1>8 DEF Software!HasResult
  <2> QED BY <1>5, <2>1, <2>2, <2>3, <2>4, <2>5
<1>9. WrittenBack(writebackInFetch)'
        = IF Software!HasResult(instr)
          THEN Written(arch.regs, instr.rd, Software!Value(arch, instr, Loaded')) ELSE arch.regs
  <2>1. writebackInFetch' <=> Software!HasResult(instr)
    BY <1>1, PosedgeFrame DEF ToldExec, WritesBack, Software!HasResult
  <2> QED BY <1>1, <1>2, <1>4, <1>8, <2>1 DEF WrittenBack
<1>10. NextArch' = Software!Executed(arch, instr, Loaded', FALSE)
  <2>1. NextArch' = ArchRecord(NextAddress', WrittenBack(writebackInFetch)', arch.meie, arch.meiePrev,
                               arch.epc, arch.evect, arch.mcause)
    BY <1>2, PosedgeFrame DEF NextArch
  <2> QED BY <1>7, <1>9, <2>1, PlainForm
<1> QED BY <1>1, <1>10 DEF Outcome

LEMMA PosReset ==
    ASSUME TypeOK, TypeOK', ToldReset, nextstate # "RESET", Posedge PROVE BeforeFetch'
<1>1. /\ enables = {} /\ unit = "idle" /\ prevstate = "RESET" /\ restarting = TRUE
      /\ nextstate = "FETCH" /\ Ready
  BY DEF ToldReset
<1>2. ~On("bus") /\ ~On("alu")
  BY <1>1 DEF On
<1>3. unit' = "idle"
  BY <1>1, <1>2 DEF Posedge, MultiCycle
<1>4. busBusy' = FALSE /\ restarting' = TRUE
  BY <1>1, <1>2, NoAccess
<1>5. state' = "FETCH"
  BY <1>1, <1>3, <1>4, StateAfter
<1>6. Ready' /\ prevstate' = "RESET"
  BY <1>1, PosedgeFrame DEF Ready
<1> QED BY <1>3, <1>4, <1>5, <1>6 DEF BeforeFetch

LEMMA PosFetch ==
    ASSUME TypeOK, TypeOK', PosInv, ToldFetch, nextstate # "RESET", Posedge
    PROVE  BeforeFetch' \/ BeforeDecode'
<1>1. /\ prevstate = "FETCH" /\ nextstate = "DECODE" /\ unit = "idle" /\ busOp = "FETCH"
      /\ writebackInFetch = FALSE
  BY DEF ToldFetch, Leads
<1>2. UNCHANGED <<pc, epc, evect, meie, meiePrev, mcause, writebackInFetch, busOp>>
  BY PosedgeFrame
<1>3. unit' = "idle"
  <2>1. ~On("alu")
    BY DEF ToldFetch, On
  <2> QED BY <1>1, <2>1 DEF Posedge, MultiCycle
<1>4. CASE busBusy = FALSE
  <2>1. /\ arch' = ArchNow(regfile') /\ accesses' = <<>> /\ busBusy' = TRUE /\ instr' = None
        /\ restarting' = FALSE
    BY <1>1, <1>4, FetchStarts DEF TypeOK
  <2>2. Untouched'
    BY <1>2, <2>1 DEF Untouched, ArchNow
  <2>3. state' = "FETCH"
    BY <1>1, <2>1, StateAfter
  <2> QED BY <1>1, <1>2, <1>3, <2>1, <2>2, <2>3 DEF BeforeFetch
<1>5. CASE busBusy = TRUE
  <2>1. restarting = FALSE
    BY <1>1, <1>5 DEF PosInv, TypeOK
  <2>2. /\ UNCHANGED <<arch, accesses, restarting, regfile>> /\ accesses = <<>> /\ instr = None
        /\ Untouched
    BY <1>5, FetchGoesOn
  <2>3. Untouched'
    BY <1>2, <2>2 DEF Untouched, ArchNow
  <2>4. CASE UNCHANGED <<instr, busBusy>>
    <3>1. state' = "FETCH"
      BY <1>1, <1>5, <2>4, StateAfter
    <3> QED BY <1>1, <1>2, <1>3, <1>5, <2>1, <2>2, <2>3, <2>4, <3>1 DEF BeforeFetch
  <2>5. CASE busBusy' = FALSE /\ instr' \in Instruction /\ instr' = busInstr'
    <3>1. state' = "DECODE"
      BY <1>1, <1>3, <2>5, StateAfter
    <3>2. instr' # None
      BY <2>5, ProgramAssumption
    <3> QED BY <1>1, <1>2, <1>3, <2>1, <2>2, <2>3, <2>5, <3>1, <3>2 DEF BeforeDecode, Idle
  <2> QED BY <1>5, <2>4, <2>5, FetchGoesOn
<1> QED BY <1>4, <1>5 DEF TypeOK

\* TrapDue says nothing that the parts could change but the registers.
LEMMA TrapStaysDue ==
    ASSUME TrapDue, Posedge, UNCHANGED <<arch, instr, accesses, regfile>> PROVE TrapDue'
<1>1. Outcome(Software!Trapped(arch, mcause))'
  BY PosedgeFrame DEF TrapDue, Outcome, Loaded
<1> QED BY <1>1, PosedgeFrame DEF TrapDue

LEMMA PosDecode ==
    ASSUME TypeOK, TypeOK', PosInv, ToldDecode, nextstate # "RESET", Posedge
    PROVE  BeforeExec' \/ BeforeTrap1'
<1>1. /\ enables = {"dec", "re", "bru"} /\ Idle /\ Sequential
      /\ instr # None /\ instr = busInstr /\ accesses = <<>> /\ prevstate = "DECODE"
      /\ (nextstate = "EXEC" /\ Untouched) \/ (nextstate = "TRAP1" /\ TrapDue)
  BY DEF ToldDecode, Leads
<1>2. restarting = FALSE
  BY <1>1 DEF PosInv, TypeOK, ToldFetch, Leads
<1>3. On("dec") /\ On("re") /\ On("bru") /\ ~On("branch") /\ ~On("alu") /\ ~On("we") /\ ~On("bus")
  BY <1>1 DEF On
<1>4. UNCHANGED <<arch, instr, accesses, restarting, busInstr>> /\ busBusy' = FALSE
  BY <1>3, NoAccess
<1>5. /\ dec' = busInstr /\ regfile' = regfile /\ pcAlu' = pc
      /\ regval1' = regfile[IF busInstr.op = "LUI" THEN 0 ELSE busInstr.rs1]
      /\ regval2' = regfile[busInstr.rs2] /\ bruNextpc' = Sum(Address(pc), 4)
      /\ unit' = "idle"
  BY <1>1, <1>3 DEF Posedge, Decoder, Registers, Alu, BranchUnit, MultiCycle, Idle
<1>6. Idle' /\ Sequential'
  BY <1>1, <1>4, <1>5, PosedgeFrame DEF Idle, Sequential
<1>7. CASE nextstate = "EXEC" /\ Untouched
  <2>1. state' = "EXEC"
    BY <1>4, <1>5, <1>7, StateAfter
  <2>2. arch.regs = regfile
    BY <1>7, UntouchedFields
  <2>3. Untouched'
    BY <1>4, <1>5, <1>7, PosedgeFrame DEF Untouched, ArchNow
  <2>4. OperandsRead'
    BY <1>1, <1>4, <1>5, <2>2 DEF OperandsRead
  <2>5. ProductHeld'
    BY <1>5 DEF ProductHeld
  <2> QED BY <1>2, <1>4, <1>5, <1>6, <2>1, <2>3, <2>4, <2>5, PosedgeFrame DEF BeforeExec, Sequential
<1>8. CASE nextstate = "TRAP1" /\ TrapDue
  <2>1. state' = "TRAP1"
    BY <1>4, <1>5, <1>8, StateAfter
  <2>2. TrapDue'
    BY <1>4, <1>5, <1>8, TrapStaysDue
  <2> QED BY <1>2, <1>4, <1>6, <2>1, <2>2 DEF BeforeTrap1
<1> QED BY <1>1, <1>7, <1>8

LEMMA PosExec ==
    ASSUME TypeOK, TypeOK', arch \in Software!Arch, regfile[0] = 0, PosInv, ToldExec,
           nextstate # "RESET", Posedge
    PROVE  BeforeExec' \/ BeforeFetch' \/ BeforeSystem' \/ BeforeTrap1'
<1>1. /\ prevstate = "EXEC" /\ nextstate = AfterExec(dec) /\ reset = FALSE
      /\ OperandsRead /\ Untouched /\ dec = instr /\ instr # None /\ On("alu")
      /\ pcAlu = pc /\ bruNextpc = Sum(Address(pc), 4) /\ pcnext = Software!NextPc(arch)
  BY DEF ToldExec, Leads, PosInv, TypeOK, OperandsRead
<1>2. restarting = FALSE
  BY <1>1 DEF PosInv, TypeOK, ToldFetch, Leads
<1>3. ~On("dec") /\ ~On("re") /\ ~On("we")
  BY DEF ToldExec, On
<1>4. UNCHANGED <<arch, instr, restarting>>
  BY NoAccess, AccessStep
<1>5. UNCHANGED <<dec, regfile, regval1, regval2>> /\ pcAlu' = pc
  BY <1>3 DEF Posedge, Decoder, Registers, Alu
<1>6. OperandsRead'
  BY <1>1, <1>4, <1>5 DEF OperandsRead
<1>7. accesses' = <<>> => Untouched'
  BY <1>1, <1>4, <1>5, PosedgeFrame DEF Untouched, ArchNow
<1>8. aluDataS1' = aluDataS1 /\ aluDataS2' = aluDataS2
  BY <1>1, <1>5 DEF aluDataS1, aluDataS2
<1>9. CASE instr.op = "MUL"
  <2>1. ~On("bus") /\ ~On("bru")
    BY <1>1, <1>9 DEF ToldExec, Software!UsesMemory
  <2>2. UNCHANGED accesses /\ busBusy' = FALSE /\ accesses = <<>>
    BY <1>1, <2>1, NoAccess DEF Untouched
  <2>3. CASE unit = "done"
    <3>1. unit' = "idle"
      BY <1>1, <2>3 DEF Posedge, MultiCycle
    <3>2. state' = "FETCH"
      BY <1>1, <1>9, <2>2, <3>1, StateAfter DEF AfterExec
    <3>3. Outcome(NextArch)'
      BY <1>1, <1>4, <1>9, <2>3, ExecResult DEF Software!UsesMemory
    <3> QED BY <1>2, <1>4, <2>2, <3>1, <3>2, <3>3 DEF BeforeFetch
  <2>4. CASE unit # "done"
    <3>1. /\ unit' \in {"run", "done"}
          /\ unitArg' = Prod(aluDataS1, aluDataS2)
          /\ unit' = "done" => unitOut' = Prod(aluDataS1, aluDataS2)
      BY <1>1, <1>9, <2>4 DEF Posedge, MultiCycle, ToldExec, ProductHeld, TypeOK
    <3>2. state' = "EXEC"
      BY <1>1, <3>1, StateAfter
    <3>3. ProductHeld'
      BY <1>8, <3>1 DEF ProductHeld
    <3>4. bruNextpc' = bruNextpc
      BY <2>1 DEF Posedge, BranchUnit
    <3>5. nextpcFromAlu' = FALSE /\ nextpcFromBru' = FALSE
      BY <1>1, <1>9, PosedgeFrame DEF ToldExec, TypeOK
    <3> QED BY <1>1, <1>2, <1>4, <1>5, <1>6, <1>7, <1>9, <2>2, <3>2, <3>3, <3>4, <3>5, PosedgeFrame
            DEF BeforeExec
  <2> QED BY <2>3, <2>4
<1>10. CASE Software!UsesMemory(instr)
  <2>1. On("bus") /\ ~On("bru") /\ instr.op \in {"LOAD", "STORE"}
    BY <1>1, <1>10 DEF ToldExec, Software!UsesMemory
  <2>2. unit' = "idle"
    BY <1>1, <2>1 DEF Posedge, MultiCycle, ToldExec, TypeOK
  <2>3. CASE accesses' = <<>> /\ busBusy' = TRUE
    <3>1. state' = "EXEC"
      BY <1>1, <2>3, StateAfter
    <3>2. bruNextpc' = bruNextpc
      BY <2>1 DEF Posedge, BranchUnit
    <3>3. nextpcFromAlu' = FALSE /\ nextpcFromBru' = FALSE
      BY <1>1, <2>1, PosedgeFrame DEF ToldExec, TypeOK
    <3>4. ProductHeld'
      BY <2>2 DEF ProductHeld
    <3>5. Software!UsesMemory(dec')
      BY <1>1, <1>5, <1>10
    <3> QED BY <1>1, <1>2, <1>4, <1>5, <1>6, <1>7, <2>2, <2>3, <3>1, <3>2, <3>3, <3>4, <3>5,
               PosedgeFrame
            DEF BeforeExec
  <2>4. CASE /\ busBusy' = FALSE
             /\ accesses' # <<>> /\ (instr.op = "LOAD" => accesses'[1].data = busData')
    <3>1. state' = "FETCH"
      BY <1>1, <2>1, <2>2, <2>4, StateAfter DEF AfterExec
    <3>2. Outcome(NextArch)'
      BY <1>1, <1>4, <2>1, <2>4, ExecResult
    <3> QED BY <1>2, <1>4, <2>2, <2>4, <3>1, <3>2 DEF BeforeFetch
  <2> QED BY <2>1, <2>3, <2>4, AccessStep
<1>11. CASE instr.op # "MUL" /\ ~Software!UsesMemory(instr)
  <2>1. ~On("bus")
    BY <1>1, <1>11 DEF ToldExec
  <2>2. UNCHANGED accesses /\ busBusy' = FALSE /\ accesses = <<>>
    BY <1>1, <2>1, NoAccess DEF Untouched
  <2>3. unit' = "idle"
    BY <1>1, <1>11 DEF Posedge, MultiCycle, ToldExec
  <2>4. state' = AfterExec(dec)
    BY <1>1, <2>2, <2>3, StateAfter
  <2>5. Idle' /\ Untouched'
    BY <1>7, <2>2, <2>3 DEF Idle
  <2>6. CASE instr.op = "SYSTEM"
    <3>1. state' = "SYSTEM"
      BY <1>1, <2>4, <2>6 DEF AfterExec
    <3>2. Sequential'
      BY <1>1, <2>6, PosedgeFrame DEF ToldExec, Sequential, WritesBack, TypeOK
    <3>3. pcnext' = Software!NextPc(arch') /\ instr'.op = "SYSTEM"
      BY <1>1, <1>4, <2>6, PosedgeFrame
    <3> QED BY <1>2, <1>4, <1>6, <2>5, <3>1, <3>2, <3>3 DEF BeforeSystem
  <2>7. CASE instr.op = "INVALID"
    <3>1. state' = "TRAP1"
      BY <1>1, <2>4, <2>7 DEF AfterExec
    <3>2. Sequential'
      BY <1>1, <2>7, PosedgeFrame DEF ToldExec, Sequential, WritesBack, TypeOK
    <3>3. /\ arch.pc = pc /\ arch.regs = regfile /\ arch.meie = meie /\ arch.evect = evect
          /\ arch.mcause = mcause
      BY <1>1, UntouchedFields
    <3>4. Software!Trapped(arch, mcause) = Software!Executed(arch, instr, Loaded, FALSE)
      BY <2>7, <3>3, InvalidForm
    <3>5. Outcome(Software!Trapped(arch, mcause))
      BY <1>1, <1>11, <3>4 DEF Outcome
    <3>6. TrapDue'
      BY <1>4, <1>5, <2>2, <3>3, <3>5, TrapStaysDue DEF TrapDue
    <3> QED BY <1>2, <1>4, <2>5, <3>1, <3>2, <3>6 DEF BeforeTrap1
  <2>8. CASE instr.op \notin {"SYSTEM", "INVALID"}
    <3>1. state' = "FETCH"
      BY <1>1, <2>4, <2>8 DEF AfterExec
    <3>2. Outcome(NextArch)'
      BY <1>1, <1>4, <1>11, <2>8, ExecResult
    <3> QED BY <1>2, <1>4, <2>2, <2>3, <3>1, <3>2 DEF BeforeFetch
  <2> QED BY <2>6, <2>7, <2>8
<1> QED BY <1>9, <1>10, <1>11

\* A result that is there stays there while the parts rest.
LEMMA OutcomeStays ==
    ASSUME Outcome(NextArch), Sequential, ~On("we"), Posedge, UNCHANGED <<arch, instr, accesses>>
    PROVE  Outcome(NextArch)'
<1>1. regfile' = regfile
  BY DEF Posedge, Registers
<1>2. NextArch' = NextArch
  BY <1>1, PosedgeFrame DEF NextArch, NextAddress, WrittenBack, Sequential
<1> QED BY <1>2 DEF Outcome, Loaded

LEMMA PosSystem ==
    ASSUME TypeOK, TypeOK', PosInv, ToldSystem, nextstate # "RESET", Posedge
    PROVE  BeforeCsrrw' \/ BeforeTrap1' \/ BeforeFetch'
<1>1. /\ enables \subseteq {"we"} /\ Idle /\ Sequential /\ OperandsRead /\ instr.op = "SYSTEM"
      /\ accesses = <<>> /\ prevstate = "SYSTEM" /\ dec = instr
  BY DEF ToldSystem, Leads, OperandsRead
<1>2. restarting = FALSE
  BY <1>1 DEF PosInv, TypeOK, ToldFetch, Leads
<1>3. ~On("dec") /\ ~On("re") /\ ~On("bru") /\ ~On("alu") /\ ~On("bus")
  BY <1>1 DEF On
<1>4. UNCHANGED <<arch, instr, accesses, restarting>> /\ busBusy' = FALSE
  BY <1>3, NoAccess
<1>5. UNCHANGED <<dec, regval1, regval2>> /\ unit' = "idle"
  BY <1>1, <1>3 DEF Posedge, Decoder, Registers, MultiCycle, Idle
<1>6. Idle' /\ Sequential' /\ OperandsRead' /\ state' = nextstate /\ accesses' = <<>>
  <2>1. Idle' /\ Sequential' /\ OperandsRead'
    BY <1>1, <1>4, <1>5, PosedgeFrame DEF Idle, Sequential, OperandsRead
  <2> QED BY <1>1, <1>4, <1>5, <2>1, StateAfter
<1>7. CASE /\ nextstate = "CSRRW" /\ enables = {"we"} /\ instr.fn = "CSRRW"
           /\ Untouched /\ pcnext = Software!NextPc(arch)
  <2>1. /\ arch.pc = pc /\ arch.regs = regfile /\ arch.meie = meie /\ arch.meiePrev = meiePrev
        /\ arch.epc = epc /\ arch.evect = evect /\ arch.mcause = mcause
        /\ arch = ArchNow(regfile)
    BY <1>7, UntouchedFields DEF Untouched
  <2>2. arch' = [ArchNow(regfile) EXCEPT !.regs = arch.regs]'
    BY <1>4, <2>1, PosedgeFrame DEF ArchNow
  <2>3. regfile' = Written(arch.regs, instr.rd, Software!MsrValue(arch, instr.csr, interrupt))
    <3>1. On("we") /\ regDatain = msrData
      BY <1>1, <1>7 DEF On, regDatain
    <3>2. msrData = Software!MsrValue(arch, instr.csr, interrupt)
      BY <1>1, <2>1, SameMsr
    <3> QED BY <1>1, <2>1, <3>1, <3>2 DEF Posedge, Registers
  <2> QED BY <1>1, <1>2, <1>4, <1>6, <1>7, <2>2, <2>3, PosedgeFrame DEF BeforeCsrrw, TypeOK
<1>8. CASE nextstate = "TRAP1" /\ enables = {} /\ TrapDue
  <2>1. regfile' = regfile
    BY <1>8 DEF On, Posedge, Registers
  <2> QED BY <1>2, <1>4, <1>6, <1>8, <2>1, TrapStaysDue DEF BeforeTrap1
<1>9. CASE nextstate = "FETCH" /\ enables = {} /\ Outcome(NextArch)
  <2>1. Outcome(NextArch)'
    BY <1>1, <1>4, <1>9, OutcomeStays DEF On
  <2> QED BY <1>2, <1>4, <1>5, <1>6, <1>9, <2>1 DEF BeforeFetch
<1> QED BY <1>7, <1>8, <1>9 DEF ToldSystem, Leads

LEMMA PosTrap ==
    ASSUME TypeOK, TypeOK', PosInv, ToldTrap, nextstate # "RESET", Posedge PROVE BeforeFetch'
<1>1. /\ enables = {} /\ Idle /\ Sequential /\ Outcome(NextArch)
      /\ prevstate \in {"TRAP1", "CSRRW"} /\ nextstate = "FETCH"
  BY DEF ToldTrap, Leads
<1>2. restarting = FALSE
  BY <1>1 DEF PosInv, TypeOK, ToldFetch, Leads
<1>3. ~On("alu") /\ ~On("bus") /\ ~On("we")
  BY <1>1 DEF On
<1>4. UNCHANGED <<arch, instr, accesses, restarting>> /\ busBusy' = FALSE
  BY <1>3, NoAccess
<1>5. unit' = "idle"
  BY <1>1, <1>3 DEF Posedge, MultiCycle, Idle
<1>6. Outcome(NextArch)'
  BY <1>1, <1>3, <1>4, OutcomeStays
<1>7. state' = "FETCH"
  BY <1>1, <1>4, <1>5, StateAfter
<1> QED BY <1>2, <1>4, <1>5, <1>6, <1>7 DEF BeforeFetch

LEMMA PosedgeIsa == TypeOK /\ TypeOK' /\ IsaInv /\ Posedge => IsaInv'
<1> SUFFICES ASSUME TypeOK, TypeOK', IsaInv, Posedge PROVE IsaInv'
  OBVIOUS
<1>1. PosInv /\ arch \in Software!Arch /\ regfile[0] = 0
  BY PosedgeFrame DEF IsaInv
<1>2. arch' \in Software!Arch /\ regfile'[0] = 0 /\ RegsClose(regfile)'
  BY PosedgeRegs
<1>3. NegInv'
  <2>1. CASE nextstate = "RESET"
    BY <1>1, <2>1, PosedgeResets DEF NegInv
  <2>2. CASE nextstate # "RESET"
    BY <1>1, <2>2, PosReset, PosFetch, PosDecode, PosExec, PosSystem, PosTrap DEF NegInv, PosInv
  <2> QED BY <2>1, <2>2
<1> QED BY <1>2, <1>3, PosedgeFrame DEF IsaInv
-----------------------------------------------------------------------------
LEMMA StutterIsa == TypeOK /\ TypeOK' /\ IsaInv /\ UNCHANGED vars => IsaInv'
<1> SUFFICES ASSUME IsaInv, UNCHANGED vars PROVE IsaInv'
  OBVIOUS
<1> USE DEF vars, cpuVars, fsmVars, trapVars, nextpcVars, partVars, aluVars, historyVars
<1>1. /\ ArchNow(regfile)' = ArchNow(regfile) /\ state' = state /\ aluDataS1' = aluDataS1
      /\ aluDataS2' = aluDataS2 /\ NextAddress' = NextAddress /\ regDatain' = regDatain
      /\ Loaded' = Loaded
  BY DEF ArchNow, state, busy, aluDataS1, aluDataS2, NextAddress, regDatain, msrData, Loaded
<1>2. NextArch' = NextArch /\ FetchNow' = FetchNow
  BY <1>1 DEF NextArch, FetchNow, WrittenBack, ArchNow, On
<1>3. (Untouched' <=> Untouched) /\ (OperandsRead' <=> OperandsRead) /\ (Idle' <=> Idle)
      /\ (Sequential' <=> Sequential) /\ (Ready' <=> Ready) /\ (ProductHeld' <=> ProductHeld)
  BY <1>1 DEF Untouched, OperandsRead, Idle, Sequential, Ready, ProductHeld
<1>4. /\ Outcome(NextArch)' <=> Outcome(NextArch)
      /\ Outcome(FetchNow)' <=> Outcome(FetchNow)
      /\ TrapDue' <=> TrapDue
  BY <1>1, <1>2 DEF Outcome, TrapDue
<1>5. NegInv => NegInv'
  BY <1>1, <1>3, <1>4
     DEF NegInv, BeforeReset, BeforeFetch, BeforeDecode, BeforeExec, BeforeSystem, BeforeTrap1,
         BeforeCsrrw
<1>6. PosInv => PosInv'
  BY <1>1, <1>3, <1>4
     DEF PosInv, ToldReset, ToldFetch, ToldDecode, ToldExec, ToldSystem, ToldTrap, Leads, On
<1>7. RegsClose(regfile)'
  BY DEF IsaInv, RegsClose
<1> QED BY <1>5, <1>6, <1>7 DEF IsaInv

LEMMA InitSoftware == Init => Software!Init
<1> SUFFICES ASSUME Init PROVE Software!Init
  OBVIOUS
<1>1. arch \in Software!Arch
  BY InitIsa DEF IsaInv
<1> QED BY <1>1 DEF Init, Software!Init

LEMMA StepSoftware ==
    TypeOK /\ TypeOK' /\ IsaInv /\ [Next]_vars => [Software!Next]_(Software!vars)
<1> SUFFICES ASSUME TypeOK, TypeOK', IsaInv, [Next]_vars
             PROVE  [Software!Next]_(Software!vars)
  OBVIOUS
<1>1. CASE Posedge
  BY <1>1, PosedgeStep DEF Software!vars
<1>2. CASE Negedge
  <2>1. UNCHANGED <<arch, instr, accesses>> /\ restarting' \in {restarting, TRUE}
    <3>1. NegFrame
      BY <1>2, NegedgeFrame
    <3>2. restarting' <=> (restarting \/ reset)
      BY <3>1 DEF NegFrame
    <3> QED BY <3>1, <3>2 DEF NegFrame, TypeOK
  <2>2. Software!Next
    BY <2>1 DEF Software!Next
  <2> QED BY <2>2
<1>3. CASE UNCHANGED vars
  BY <1>3 DEF vars, historyVars, Software!vars
<1> QED BY <1>1, <1>2, <1>3 DEF Next

\* The CPU executes instructions as Isa says, for every word size, register
\* file, program, operands and waits, with interrupts and resets at any moment:
\* each fetched instruction once and as a whole, one access per load or store,
\* traps that leave no other trace, interrupts only between instructions and
\* while enabled (cpu/cpu.v:257-443 with its decoder, registers, branch unit,
\* ALU and bus).
THEOREM CpuImplementsIsa == Spec => ImplementsIsa
<1>1. TypeOK /\ TypeOK' /\ RequestInv /\ IsaInv /\ [Next]_vars => IsaInv'
  BY NegedgeIsa, PosedgeIsa, StutterIsa DEF Next
<1>2. TypeOK /\ [Next]_vars => TypeOK'
  BY NegedgeType, PosedgeType, StutterType DEF Next
<1>3. RequestInv /\ [Next]_vars => RequestInv'
  BY NegedgeRequest, PosedgeRequest, StutterRequest DEF Next
<1>4. Spec => Software!Init /\ [][Software!Next]_(Software!vars)
  BY InitType, InitRequest, InitIsa, InitSoftware, <1>1, <1>2, <1>3, StepSoftware, PTL DEF Spec
<1> QED BY <1>4 DEF ImplementsIsa, Software!Spec
=============================================================================
