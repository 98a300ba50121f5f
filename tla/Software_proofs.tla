--------------------------- MODULE Software_proofs ---------------------------
(***************************************************************************)
(* Proofs about the parts of the software in MC_Software, for every value   *)
(* of their constants.  A step of one part leaves the others alone, so an   *)
(* invariant of a part is one of the whole: each is stated for the          *)
(* behaviours in which its part is the active one.                          *)
(***************************************************************************)
EXTENDS MC_Software, FiniteSetTheorems, SequenceTheorems, WellFoundedInduction, TLAPS

-----------------------------------------------------------------------------
(* A request to the BIOS. *)

\* Between the caller's steps and inside the routine: what interrupted which
\* step, and that the request has been served once the call is executed.
BiosInv ==
    /\ pc \in 0..3 /\ isr \in BOOLEAN
    /\ isr => /\ epc = pc
              /\ cause \in {"ecall", "ebreak", "invalid", "interrupt"}
              /\ cause = "ecall" => pc = 1
              /\ cause \in {"ebreak", "invalid"} => pc = 2
    /\ pc = 1 => served = 0
    /\ pc \in {2, 3} => served = 1 /\ (result = "unset" => request.command = "28")

\* Only a number that is no command is left without an answer.
LEMMA AnswerGiven ==
    ASSUME NEW r, "unset" \in Bios!Answer(r)
    PROVE  r.command = "28"
    BY BiosAssumption DEF Bios!Answer

LEMMA BiosInit == Bios!Init => BiosInv
<1> SUFFICES ASSUME Bios!Init PROVE BiosInv
    OBVIOUS
<1>1. ~isr /\ isr \in BOOLEAN
    BY DEF Bios!Init
<1> QED
    BY <1>1 DEF BiosInv, Bios!Init

LEMMA BiosNext == BiosInv /\ Bios!Next => BiosInv'
<1> SUFFICES ASSUME BiosInv, Bios!Next PROVE BiosInv'
    OBVIOUS
<1> USE DEF BiosInv
<1>1. ASSUME NEW r \in Bios!Requests, Bios!SetUp(r) PROVE BiosInv'
    BY <1>1 DEF Bios!SetUp
<1>2. ASSUME NEW c \in {"ecall", "ebreak", "invalid", "interrupt"}, Bios!Trap(c)
      PROVE  BiosInv'
    BY <1>2 DEF Bios!Trap
<1>3. CASE Bios!bios_isr
    <2>1. isr /\ ~isr' /\ isr' \in BOOLEAN
        BY <1>3 DEF Bios!bios_isr
    <2>2. CASE cause = "ecall"
        BY <1>3, <2>1, <2>2, AnswerGiven DEF Bios!bios_isr, Bios!Resume
    <2>3. CASE cause # "ecall"
        BY <1>3, <2>1, <2>3 DEF Bios!bios_isr, Bios!Resume
    <2> QED
        BY <2>2, <2>3
<1>4. CASE Bios!ReadResult
    BY <1>4 DEF Bios!ReadResult
<1> QED
    BY <1>1, <1>2, <1>3, <1>4 DEF Bios!Next

\* A request is served exactly once before the caller reads its result, and
\* what it reads is an answer to it, whatever interrupts come between the steps
\* of bios_calls: the routine resumes an interrupted step and goes on behind an
\* executed one.
THEOREM RequestsServedOnce == Spec => []ServedOnce
<1>1. Init => (active = "bios" => BiosInv)
    BY BiosInit DEF Init
<1>2. (active = "bios" => BiosInv) /\ [Next]_vars => (active = "bios" => BiosInv)'
    <2> SUFFICES ASSUME active = "bios" => BiosInv, [Next]_vars, active' = "bios"
                 PROVE  BiosInv'
        OBVIOUS
    <2>1. CASE UNCHANGED vars
        BY <2>1 DEF BiosInv, vars, biosVars
    <2>2. CASE Next
        BY <2>2, BiosNext DEF Next, Alone
    <2> QED
        BY <2>1, <2>2
<1>3. (active = "bios" => BiosInv) => ServedOnce
    BY DEF BiosInv, ServedOnce, Bios!ServedOnce
<1> QED
    BY <1>1, <1>2, <1>3, PTL DEF Spec
-----------------------------------------------------------------------------
(* The boot stages. *)

\* Whoever runs is whole, the shell fits its page, what it started fits below
\* its stack, and no file is open unless the second stage has halted.
BootInv ==
    /\ Stages!CodeIntact
    /\ files \in [{"shell.bin", "here", "bin"} -> Sizes \cup {-1}]
    /\ runs \in {"rom", "stage1", "stage2", "shell", "program", "halted"}
    /\ runs # "halted" => ~fh
    /\ runs \in {"shell", "program"} => files["shell.bin"] \in {0, 1}
    /\ runs = "program" => whole \in 0 .. RAMPAGES - 16

LEMMA BootInit == Stages!Init => BootInv
<1> SUFFICES ASSUME Stages!Init PROVE BootInv
    OBVIOUS
<1>1. ~fh
    BY DEF Stages!Init
<1> QED
    BY <1>1 DEF BootInv, Stages!Init, Stages!CodeIntact, Stages!None

\* The first stage leaves the BIOS and the second stage in their pages.
LEMMA CopiedFromFlash ==
    ASSUME Stages!RunStage1
    PROVE  /\ \A i \in 0 .. BIOS_PAGES - 1 : ram'[Stages!BIOS_PAGE + i] = <<"bios", i>>
           /\ ram'[STAGE2_PAGE] = <<"stage2", 0>>
<1> DEFINE copied == Stages!FromFlash(ram, Stages!BIOS_PAGE, 2, BIOS_PAGES)
<1>1. \A i \in 0 .. BIOS_PAGES - 1 : copied[Stages!BIOS_PAGE + i] = <<"bios", i>>
    BY LayoutAssumption DEF Stages!FromFlash, Stages!Flash, Stages!BIOS_PAGE
<1>2. ram' = Stages!FromFlash(copied, STAGE2_PAGE, 1, 1)
    BY DEF Stages!RunStage1
<1> HIDE DEF copied
<1>3. \A i \in 0 .. BIOS_PAGES - 1 : ram'[Stages!BIOS_PAGE + i] = copied[Stages!BIOS_PAGE + i]
    BY <1>2, LayoutAssumption DEF Stages!FromFlash, Stages!BIOS_PAGE
<1>4. ram'[STAGE2_PAGE] = <<"stage2", 0>>
    BY <1>2, LayoutAssumption DEF Stages!FromFlash, Stages!Flash
<1> QED
    BY <1>1, <1>3, <1>4

\* The second stage leaves the BIOS alone, and the shell it starts is whole
\* above its stack.
LEMMA ShellRead ==
    ASSUME BootInv, Stages!RunStage2
    PROVE  /\ \A i \in 0 .. BIOS_PAGES - 1 :
                 ram'[Stages!BIOS_PAGE + i] = ram[Stages!BIOS_PAGE + i]
           /\ runs' = "shell" =>
                 /\ files["shell.bin"] \in {0, 1}
                 /\ \A i \in 0 .. files["shell.bin"] - 1 :
                       ram'[Stages!SHELL_PAGE + i] = <<"shell.bin", i>>
                 /\ \A i \in 1 .. SHELL_STACK :
                       ram'[Stages!SHELL_PAGE - i] = <<"stack", Stages!SHELL_PAGE - i>>
<1> DEFINE read == Stages!FromFile("shell.bin", Stages!SHELL_PAGE, 1)
<1> USE LayoutAssumption DEF Stages!BIOS_PAGE, Stages!SHELL_PAGE
<1>1. \A p \in 0 .. RAMPAGES - 1 : p # Stages!SHELL_PAGE => read[p] = ram[p]
    BY DEF Stages!FromFile
<1>2. files["shell.bin"] \in {0, 1} =>
        \A i \in 0 .. files["shell.bin"] - 1 : read[Stages!SHELL_PAGE + i] = <<"shell.bin", i>>
    BY DEF Stages!FromFile
<1> HIDE DEF read
<1>3. \A p \in 0 .. RAMPAGES - 1 :
        p >= Stages!SHELL_PAGE => Stages!Stacked(read)[p] = read[p]
    BY DEF Stages!Stacked
<1>4. \A i \in 1 .. SHELL_STACK :
        Stages!Stacked(read)[Stages!SHELL_PAGE - i] = <<"stack", Stages!SHELL_PAGE - i>>
    BY DEF Stages!Stacked
<1>5. \/ runs' = "halted" /\ ram' \in {ram, read}
      \/ runs' = "shell" /\ ram' = Stages!Stacked(read) /\ files["shell.bin"] \in {0, 1}
    BY DEF Stages!RunStage2, Stages!Halt, read
<1> QED
    BY <1>1, <1>2, <1>3, <1>4, <1>5

\* What the shell and its programs do stays below the shell's stack.
LEMMA HighPagesKept ==
    ASSUME BootInv, Stages!do_run \/ Stages!ProgramWrites \/ Stages!ProgramReturns
    PROVE  \A p \in RAMPAGES - 16 .. RAMPAGES - 1 : ram'[p] = ram[p]
<1> SUFFICES ASSUME NEW p \in RAMPAGES - 16 .. RAMPAGES - 1 PROVE ram'[p] = ram[p]
    OBVIOUS
<1> USE LayoutAssumption
<1>1. p \in 0 .. RAMPAGES - 1
    OBVIOUS
<1>2. \A n \in Int : n <= RAMPAGES - 16 => Stages!Spoilt(n)[p] = ram[p]
    BY <1>1 DEF Stages!Spoilt
<1>3. \A name : Stages!FromFile(name, 0, Stages!PROGRAM_PAGES)[p] = ram[p]
    BY <1>1 DEF Stages!FromFile, Stages!PROGRAM_PAGES
<1>4. CASE Stages!do_run
    <2>1. ASSUME NEW name \in {"here", "bin"}, Stages!Loads(name) PROVE ram'[p] = ram[p]
        BY <2>1, <1>3 DEF Stages!Loads
    <2>2. ASSUME NEW name \in {"here", "bin"}, Stages!Fails(name) PROVE ram'[p] = ram[p]
        <3>1. files[name] \in Int
            <4>1. files[name] \in Sizes \cup {-1}
                BY DEF BootInv
            <4>2. Sizes \cup {-1} \subseteq Int
                OBVIOUS
            <4> QED
                BY <4>1, <4>2
        <3>2. Stages!Smaller(files[name], Stages!PROGRAM_PAGES) \in Int
              /\ Stages!Smaller(files[name], Stages!PROGRAM_PAGES) <= RAMPAGES - 16
            BY <3>1 DEF Stages!Smaller, Stages!PROGRAM_PAGES
        <3> QED
            BY <2>2, <3>2, <1>2 DEF Stages!Fails
    <2> QED
        BY <1>4, <2>1, <2>2 DEF Stages!do_run
<1>5. CASE Stages!ProgramWrites
    BY <1>5, <1>2 DEF Stages!ProgramWrites, BootInv
<1>6. CASE Stages!ProgramReturns
    BY <1>6 DEF Stages!ProgramReturns
<1> QED
    BY <1>4, <1>5, <1>6

\* A program starts with all of its file in memory, and no more of it than fits.
LEMMA ProgramLoaded ==
    ASSUME BootInv, Stages!do_run, runs' = "program"
    PROVE  /\ whole' \in 0 .. RAMPAGES - 16
           /\ Stages!Loaded'
<1>1. PICK name \in {"here", "bin"} : Stages!Loads(name)
    BY DEF Stages!do_run
<1>2. files[name] \in 0 .. RAMPAGES - 16 /\ files' = files
    BY <1>1, LayoutAssumption
    DEF BootInv, Stages!Loads, Stages!Opens, Stages!TooBig, Stages!None, Stages!do_run,
        Stages!PROGRAM_PAGES
<1>3. \A i \in 0 .. files[name] - 1 : ram'[0 + i] = <<name, i>>
    BY <1>1, <1>2, LayoutAssumption
    DEF Stages!Loads, Stages!FromFile, Stages!PROGRAM_PAGES
<1> QED
    BY <1>1, <1>2, <1>3 DEF Stages!Loads, Stages!Loaded, Stages!Has

LEMMA BootNext == BootInv /\ Stages!Next => BootInv'
<1> SUFFICES ASSUME BootInv, Stages!Next PROVE BootInv'
    OBVIOUS
<1> USE LayoutAssumption DEF BootInv, Stages!CodeIntact, Stages!Has
<1>1. CASE Stages!LoadStage1
    BY <1>1 DEF Stages!LoadStage1, Stages!FromFlash, Stages!Flash
<1>2. CASE Stages!RunStage1
    BY <1>2, CopiedFromFlash DEF Stages!RunStage1
<1>3. CASE Stages!RunStage2
    <2>1. files' = files /\ runs' \in {"shell", "halted"} /\ (runs' = "shell" => ~fh')
        BY <1>3 DEF Stages!RunStage2, Stages!Halt
    <2> QED
        BY <1>3, <2>1, ShellRead DEF Stages!RunStage2
<1>4. CASE Stages!do_run \/ Stages!ProgramWrites \/ Stages!ProgramReturns
    <2>1. /\ runs \in {"shell", "program"} /\ runs' \in {"shell", "program"}
          /\ files' = files /\ fh' = fh
        BY <1>4 DEF Stages!do_run, Stages!Loads, Stages!ProgramWrites, Stages!ProgramReturns
    <2>2. runs' = "program" => whole' \in 0 .. RAMPAGES - 16
        BY <1>4, ProgramLoaded DEF Stages!ProgramWrites, Stages!ProgramReturns
    <2>3. /\ \A i \in 0 .. BIOS_PAGES - 1 :
                ram'[Stages!BIOS_PAGE + i] = ram[Stages!BIOS_PAGE + i]
          /\ ram'[Stages!SHELL_PAGE + 0] = ram[Stages!SHELL_PAGE + 0]
          /\ \A i \in 1 .. SHELL_STACK : ram'[Stages!SHELL_PAGE - i] = ram[Stages!SHELL_PAGE - i]
        BY <1>4, HighPagesKept DEF Stages!BIOS_PAGE, Stages!SHELL_PAGE
    <2> QED
        BY <2>1, <2>2, <2>3
<1>5. CASE Stages!Stopped
    BY <1>5 DEF Stages!Stopped, Stages!vars
<1> QED
    BY <1>1, <1>2, <1>3, <1>4, <1>5 DEF Stages!Next

\* Every stage, the shell under its programs and the BIOS below them all stay
\* whole in memory, whatever size the files on the card are and wherever a read
\* fails, and a program starts with all of its file.
THEOREM CodeStaysWhole == Spec => StartsWhole
<1> DEFINE Inv == active = "stages" => BootInv
           Starts == active = "stages" /\ runs' = "program" /\ runs # "program" => Stages!Loaded'
<1>1. Init => Inv
    BY BootInit DEF Init
<1>2. Inv /\ [Next]_vars => Inv'
    <2> SUFFICES ASSUME Inv, [Next]_vars, active' = "stages" PROVE BootInv'
        OBVIOUS
    <2>1. CASE UNCHANGED vars
        BY <2>1 DEF BootInv, vars, bootVars, Stages!CodeIntact, Stages!Has
    <2>2. CASE Next
        BY <2>2, BootNext DEF Next, Alone
    <2> QED
        BY <2>1, <2>2
<1>3. Inv /\ [Next]_vars => [Starts]_vars
    <2> SUFFICES ASSUME Inv, Next, active = "stages", runs' = "program", runs # "program"
                 PROVE  Stages!Loaded'
        OBVIOUS
    <2>1. Stages!Next
        BY DEF Next, Alone
    <2>2. Stages!do_run
        BY <2>1 DEF Stages!Next, Stages!LoadStage1, Stages!RunStage1, Stages!RunStage2,
                    Stages!Halt, Stages!ProgramWrites, Stages!ProgramReturns,
                    Stages!Stopped, Stages!vars
    <2> QED
        BY <2>2, ProgramLoaded
<1>4. Inv => (active = "stages" => Stages!CodeIntact)
    BY DEF BootInv
<1> QED
    BY <1>1, <1>2, <1>3, <1>4, PTL DEF Spec, StartsWhole
-----------------------------------------------------------------------------
(* Sums over finite sets: what getOwnerCount counts. *)

\* Induction over data, by way of the smallest counterexample.
LEMMA SmallestExists ==
    ASSUME NEW T, T \subseteq Nat, T # {}
    PROVE  \E x \in T : \A y \in T : x <= y
<1>1. PICK x \in T : \A y \in T : ~ (<<y, x>> \in OpToRel(<, Nat))
    BY NatLessThanWellFounded, WFMin, Zenon
<1>2. \A y \in T : ~ (y < x)
    BY <1>1 DEF OpToRel
<1> QED
    BY <1>2

\* One step of the recursion that adds the atoms of the cells of a set up.
Next1(g, h, s) == IF s = {} THEN 0
                  ELSE LET x == CHOOSE x \in s : TRUE IN g[x].atoms + h[s \ {x}]

\* The recursion defines a function on the subsets of a finite set.
LEMMA SumExists ==
    ASSUME NEW g, NEW S, IsFiniteSet(S)
    PROVE  \E h : h = [s \in SUBSET S |-> Next1(g, h, s)]
<1> DEFINE D(n) == {s \in SUBSET S : Cardinality(s) <= n}
           Good(n) == \E h : h = [s \in D(n) |-> Next1(g, h, s)]
           Bad == {n \in Nat : ~Good(n)}
<1>1. \A s \in SUBSET S : /\ Cardinality(s) \in Nat /\ Cardinality(s) <= Cardinality(S)
                          /\ Cardinality(s) = 0 <=> s = {}
                          /\ \A x \in s : Cardinality(s \ {x}) = Cardinality(s) - 1
    BY FS_Subset, FS_CardinalityType, FS_EmptySet, FS_RemoveElement
<1>2. Bad = {}
    <2> SUFFICES ASSUME Bad # {} PROVE FALSE
        OBVIOUS
    <2>1. PICK m \in Bad : \A n \in Bad : m <= n
        BY SmallestExists
    <2>2. CASE m = 0
        <3> DEFINE h == [s \in D(0) |-> 0]
        <3>1. \A s \in D(0) : s = {}
            BY <1>1
        <3>2. h = [s \in D(0) |-> Next1(g, h, s)]
            BY <3>1 DEF Next1
        <3> QED
            BY <3>2, <2>1, <2>2
    <2>3. CASE m # 0
        <3>1. m - 1 \in Nat /\ m - 1 \notin Bad
            <4>1. m \in Nat
                BY <2>1
            <4> HIDE DEF Bad
            <4> QED
                BY <4>1, <2>1, <2>3
        <3>2. PICK h : h = [s \in D(m - 1) |-> Next1(g, h, s)]
            BY <3>1
        <3> DEFINE k == [s \in D(m) |-> Next1(g, h, s)]
        <3>3. \A s \in D(m - 1) : s \in D(m) /\ k[s] = h[s]
            BY <3>1, <3>2, <1>1
        <3>4. ASSUME NEW s \in D(m) PROVE Next1(g, h, s) = Next1(g, k, s)
            <4>1. CASE s = {}
                BY <4>1 DEF Next1
            <4>2. CASE s # {}
                <5> DEFINE x == CHOOSE x \in s : TRUE
                <5>1. x \in s
                    BY <4>2
                <5>2. s \ {x} \in D(m - 1)
                    BY <5>1, <1>1, <3>1
                <5>3. k[s \ {x}] = h[s \ {x}]
                    BY <5>2, <3>3
                <5> QED
                    BY <4>2, <5>3 DEF Next1
            <4> QED
                BY <4>1, <4>2
        <3>5. k = [s \in D(m) |-> Next1(g, k, s)]
            BY <3>4
        <3> QED
            BY <3>5, <2>1
    <2> QED
        BY <2>2, <2>3
<1>3. Cardinality(S) \in Nat /\ D(Cardinality(S)) = SUBSET S
    BY <1>1
<1>4. Good(Cardinality(S))
    BY <1>2, <1>3
<1> QED
    BY <1>3, <1>4

\* The atoms of a set of cells that have some: none, if it is empty, and then only.
LEMMA SumPositive ==
    ASSUME NEW g, NEW p, IsFiniteSet(Game!Owned(g, p)),
           \A c \in Game!Owned(g, p) : g[c].atoms \in Nat \ {0}
    PROVE  Game!getOwnerCount(g, p) = 0 <=> Game!Owned(g, p) = {}
<1> DEFINE S == Game!Owned(g, p)
           iter == CHOOSE h : h = [s \in SUBSET S |-> Next1(g, h, s)]
           Bad == {n \in Nat : \E s \in SUBSET S : /\ Cardinality(s) = n
                                               /\ ~(iter[s] \in Nat /\ (iter[s] = 0 <=> s = {}))}
<1>1. Game!getOwnerCount(g, p) = iter[S]
    BY DEF Game!getOwnerCount, Game!MapThenSumSet, Game!MapThenFoldSet, Next1
<1>2. iter = [s \in SUBSET S |-> Next1(g, iter, s)]
    <2> HIDE DEF S
    <2> QED
        BY SumExists
<1>3. \A s \in SUBSET S : /\ Cardinality(s) \in Nat
                          /\ \A x \in s : Cardinality(s \ {x}) = Cardinality(s) - 1
    BY FS_Subset, FS_CardinalityType, FS_RemoveElement
<1> HIDE DEF iter
<1>4. Bad = {}
    <2> SUFFICES ASSUME Bad # {} PROVE FALSE
        OBVIOUS
    <2>1. PICK m \in Bad : \A n \in Bad : m <= n
        BY SmallestExists
    <2>2. PICK s \in SUBSET S : /\ Cardinality(s) = m
                               /\ ~(iter[s] \in Nat /\ (iter[s] = 0 <=> s = {}))
        BY <2>1
    <2>3. iter[s] = Next1(g, iter, s)
        BY <1>2
    <2>4. s # {}
        BY <2>2, <2>3 DEF Next1
    <2> DEFINE x == CHOOSE x \in s : TRUE
    <2>5. x \in s
        BY <2>4
    <2>6. iter[s \ {x}] \in Nat
        <3>1. s \ {x} \in SUBSET S
            OBVIOUS
        <3>2. Cardinality(s \ {x}) \in Nat /\ Cardinality(s \ {x}) = m - 1
            BY <3>1, <2>5, <2>2, <1>3
        <3>3. m \in Nat
            BY <2>1
        <3>4. m - 1 \notin Bad
            <4> HIDE DEF Bad
            <4> QED
                BY <3>2, <3>3, <2>1
        <3> QED
            BY <3>1, <3>2, <3>4
    <2>7. iter[s] = g[x].atoms + iter[s \ {x}]
        BY <2>3, <2>4 DEF Next1
    <2> QED
        BY <2>2, <2>4, <2>5, <2>6, <2>7
<1>5. iter[S] \in Nat /\ (iter[S] = 0 <=> S = {})
    BY <1>4, <1>3
<1> QED
    BY <1>1, <1>5
-----------------------------------------------------------------------------
(* The game of chain reactions. *)

\* Quotient and remainder are the only numbers that make a number up.
LEMMA DivisionUnique ==
    ASSUME NEW m \in Nat \ {0}, NEW a \in Nat, NEW b \in 0 .. m - 1
    PROVE  (a * m + b) \div m = a /\ (a * m + b) % m = b
<1> DEFINE q == (a * m + b) \div m
           r == (a * m + b) % m
<1>1. q \in Nat /\ r \in 0 .. m - 1 /\ a * m + b = m * q + r
    <2>1. \A x \in Nat : x \div m \in Nat /\ x % m \in 0 .. m - 1 /\ x = m * (x \div m) + (x % m)
        OBVIOUS
    <2>2. a * m + b \in Nat
        OBVIOUS
    <2> QED
        BY <2>1, <2>2
<1> HIDE DEF q, r
<1>2. m * (q - a) = b - r /\ m * (a - q) = r - b
    BY <1>1
<1>3. ASSUME NEW d \in Nat, d >= 1 PROVE m * d >= m
    BY <1>3
<1>4. ~(q - a >= 1) /\ ~(a - q >= 1)
    BY <1>1, <1>2, <1>3
<1> QED
    BY <1>1, <1>2, <1>4 DEF q, r

\* The loops of react visit every cell of the field.
LEMMA EveryCellVisited ==
    /\ Game!Count \in Nat
    /\ \A c \in Game!Cells : \E i \in 0 .. Game!Count - 1 : Game!Nth(i) = c
    /\ \A i \in 0 .. Game!Count - 1 : Game!Nth(i) \in Game!Cells
<1> DEFINE m == MAXY + 1
<1>1. m \in Nat \ {0} /\ Game!Count = (MAXX + 1) * m /\ Game!Count \in Nat
    BY FieldAssumption DEF Game!Count
<1>2. ASSUME NEW c \in Game!Cells PROVE \E i \in 0 .. Game!Count - 1 : Game!Nth(i) = c
    <2>1. c[1] \in 0 .. MAXX /\ c[2] \in 0 .. m - 1 /\ c = <<c[1], c[2]>>
        BY FieldAssumption DEF Game!Cells
    <2>2. c[1] * m <= MAXX * m
        BY <1>1, <2>1, FieldAssumption
    <2>3. c[1] * m + c[2] \in 0 .. Game!Count - 1
        BY <1>1, <2>1, <2>2, FieldAssumption
    <2>4. Game!Nth(c[1] * m + c[2]) = c
        BY <1>1, <2>1, DivisionUnique, FieldAssumption DEF Game!Nth
    <2> QED
        BY <2>3, <2>4
<1>3. ASSUME NEW i \in 0 .. Game!Count - 1 PROVE Game!Nth(i) \in Game!Cells
    <2> DEFINE q == i \div m
               r == i % m
    <2>1. q \in Nat /\ r \in 0 .. m - 1 /\ i = m * q + r
        BY <1>1
    <2>2. Game!Nth(i) = <<q, r>>
        BY DEF Game!Nth
    <2> HIDE DEF q, r
    <2>3. ~(q >= MAXX + 1)
        <3> SUFFICES ASSUME q >= MAXX + 1 PROVE FALSE
            OBVIOUS
        <3>1. m * q >= m * (MAXX + 1)
            BY <1>1, <2>1, FieldAssumption
        <3> QED
            BY <1>1, <2>1, <3>1, FieldAssumption
    <2> QED
        BY <2>1, <2>2, <2>3, FieldAssumption DEF Game!Cells
<1> QED
    BY <1>1, <1>2, <1>3

\* Every cell has a neighbour, and there are at least two cells.
LEMMA FieldShape ==
    /\ \A c \in Game!Cells : /\ Game!Near(c) \subseteq Game!Cells \ {c}
                             /\ Game!Near(c) # {}
                             /\ Game!getCapacity(c) \in 1 .. 3
    /\ \A c \in Game!Cells : \E d \in Game!Cells : d # c
    /\ IsFiniteSet(Game!Cells)
<1>1. ASSUME NEW c \in Game!Cells
      PROVE  /\ Game!Near(c) \subseteq Game!Cells \ {c} /\ Game!Near(c) # {}
             /\ Game!getCapacity(c) \in 1 .. 3
    <2>1. c[1] \in 0 .. MAXX /\ c[2] \in 0 .. MAXY /\ c = <<c[1], c[2]>>
        BY DEF Game!Cells
    <2>2. Game!Near(c) \subseteq Game!Cells \ {c}
        BY <2>1, FieldAssumption DEF Game!Near, Game!Cells
    <2>3. Game!Near(c) # {}
        <3>1. CASE c[2] < MAXY
            <4>1. <<c[1], c[2] + 1>> \in Game!Near(c)
                BY <2>1, <3>1, FieldAssumption DEF Game!Near, Game!Cells
            <4> QED
                BY <4>1
        <3>2. CASE c[2] = MAXY
            <4>1. <<c[1], c[2] - 1>> \in Game!Near(c)
                BY <2>1, <3>2, FieldAssumption DEF Game!Near, Game!Cells
            <4> QED
                BY <4>1
        <3> QED
            BY <2>1, <3>1, <3>2, FieldAssumption
    <2>4. Game!getCapacity(c) \in 1 .. 3
        BY DEF Game!getCapacity
    <2> QED
        BY <2>2, <2>3, <2>4
<1>2. IsFiniteSet(Game!Cells)
    <2>1. IsFiniteSet(0 .. MAXX) /\ IsFiniteSet(0 .. MAXY)
        BY FS_Interval, FieldAssumption
    <2> QED
        BY <2>1, FS_Product DEF Game!Cells
<1> QED
    BY <1>1, <1>2

\* What the field is between the steps of a game.  Cells may be critical while
\* the atoms spread, but only cells of the player whose move it was; a cell
\* visited by the pass is as the pass has recorded it; and as long as only one
\* has moved there is one atom.
Rests(g, c) == g[c].atoms <= Game!getCapacity(c)
OneAtom(g) ==
    \E d \in Game!Cells : g[d].atoms = 1 /\ \A c \in Game!Cells \ {d} : g[c] = Game!Empty
FieldOK(g) ==
    /\ g \in [Game!Cells -> [owner : 0 .. 2, atoms : 0 .. 4]]
    /\ \A c \in Game!Cells : g[c].owner = 0 <=> g[c].atoms = 0
MoveInv ==
    /\ winner = 0 /\ \A c \in Game!Cells : Rests(f, c)
    /\ \/ playerplayed = {} /\ player = 1 /\ \A c \in Game!Cells : f[c] = Game!Empty
       \/ playerplayed = {1} /\ player = 2 /\ OneAtom(f) /\ Game!Owned(f, 1) # {}
       \/ playerplayed = {1, 2} /\ Game!Owned(f, 1) # {} /\ Game!Owned(f, 2) # {}
ReactInv ==
    /\ winner = 0 /\ player \in playerplayed /\ Game!Owned(f, player) # {}
    /\ \/ playerplayed = {1} /\ OneAtom(f)
       \/ playerplayed = {1, 2}
    /\ \A c \in Game!Cells : Rests(f, c) \/ f[c].owner = player
    /\ \A i \in 0 .. pass.at - 1 : /\ pass.stable => Rests(f, Game!Nth(i))
                                   /\ f[Game!Nth(i)].owner \in pass.players \cup {0}
    /\ ~pass.stable => player \in pass.players /\ playerplayed = {1, 2}
OverInv ==
    /\ winner \in {1, 2} /\ player = winner
    /\ Game!Owned(f, Game!Other(winner)) = {} /\ Game!Other(winner) \in playerplayed
GameInv ==
    /\ FieldOK(f) /\ player \in {1, 2} /\ playerplayed \in SUBSET {1, 2}
    /\ pass \in Game!Passes
    /\ \/ phase = "move"  /\ MoveInv
       \/ phase = "react" /\ ReactInv
       \/ phase = "over"  /\ OverInv

LEMMA PassTyped ==
    ASSUME NEW a \in Game!Passes
    PROVE  a.at \in 0 .. Game!Count /\ a.stable \in BOOLEAN /\ a.players \in SUBSET {1, 2}
    BY DEF Game!Passes

LEMMA StartsAfresh ==
    /\ Game!Start \in Game!Passes /\ Game!Start.at = 0
    /\ Game!Start.stable /\ Game!Start.players = {}
    BY EveryCellVisited DEF Game!Start, Game!Passes

LEMMA CountsOwners ==
    ASSUME NEW g, FieldOK(g), NEW p \in {1, 2}
    PROVE  Game!getOwnerCount(g, p) = 0 <=> Game!Owned(g, p) = {}
<1>1. IsFiniteSet(Game!Owned(g, p))
    BY FieldShape, FS_Subset DEF Game!Owned
<1>2. \A c \in Game!Owned(g, p) : g[c].atoms \in Nat \ {0}
    BY DEF Game!Owned, FieldOK
<1> QED
    BY <1>1, <1>2, SumPositive

\* One more atom in a cell.
LEMMA GainsAtom ==
    ASSUME NEW cell \in [owner : 0 .. 2, atoms : 0 .. 4], NEW p \in {1, 2}
    PROVE  /\ Game!Gains(cell, p) \in [owner : 0 .. 2, atoms : 0 .. 4]
           /\ Game!Gains(cell, p).owner = p /\ Game!Gains(cell, p).atoms \in 1 .. 4
           /\ cell.atoms = 0 => Game!Gains(cell, p).atoms = 1
    BY DEF Game!Gains

LEMMA GameInit == Game!Init => GameInv
<1> SUFFICES ASSUME Game!Init PROVE GameInv
    OBVIOUS
<1>1. FieldOK(f) /\ \A c \in Game!Cells : f[c] = Game!Empty
    BY DEF Game!Init, FieldOK, Game!Empty
<1>2. \A c \in Game!Cells : Rests(f, c)
    BY <1>1, FieldShape DEF Rests, Game!Empty
<1> QED
    BY <1>1, <1>2, StartsAfresh DEF Game!Init, GameInv, MoveInv

\* An atom put on a cell that is free or the player's own.
LEMMA MoveStep ==
    ASSUME GameInv, NEW c \in Game!Cells, Game!Move(c)
    PROVE  GameInv'
<1>1. phase = "move" /\ MoveInv /\ phase' = "react"
    BY DEF GameInv, Game!Move
<1>2. f[c].owner \in {0, player}
    BY DEF Game!Move, Game!thinkAI, Game!Usable, GameInv
<1>3. f[c] \in [owner : 0 .. 2, atoms : 0 .. 4]
    BY DEF GameInv, FieldOK
<1>4. f' = [f EXCEPT ![c] = Game!Gains(f[c], player)]
    BY <1>2 DEF Game!Move, Game!putAtom
<1>5. /\ f'[c] \in [owner : 0 .. 2, atoms : 0 .. 4]
      /\ f'[c].owner = player /\ f'[c].atoms \in 1 .. 4
      /\ f[c].atoms = 0 => f'[c].atoms = 1
      /\ \A d \in Game!Cells \ {c} : f'[d] = f[d]
    BY <1>3, <1>4, GainsAtom DEF GameInv, FieldOK
<1>6. FieldOK(f')
    BY <1>4, <1>5 DEF GameInv, FieldOK
<1>7. player' = player /\ winner' = winner /\ pass' = Game!Start
      /\ playerplayed' = playerplayed \cup {player}
    BY DEF Game!Move
<1>8. Game!Owned(f', player) # {}
    BY <1>5 DEF Game!Owned
<1>9. \A d \in Game!Cells : Rests(f', d) \/ f'[d].owner = player
    BY <1>1, <1>5 DEF MoveInv, Rests
<1>10. \/ playerplayed' = {1} /\ OneAtom(f')
       \/ playerplayed' = {1, 2}
    <2>1. CASE playerplayed = {} /\ player = 1 /\ \A d \in Game!Cells : f[d] = Game!Empty
        BY <1>5, <1>7, <2>1 DEF OneAtom, Game!Empty
    <2>2. CASE (player \notin playerplayed /\ playerplayed # {}) \/ playerplayed = {1, 2}
        BY <1>7, <2>2 DEF GameInv
    <2> QED
        BY <1>1, <2>1, <2>2 DEF MoveInv
<1>11. ReactInv'
    BY <1>1, <1>7, <1>8, <1>9, <1>10, StartsAfresh DEF ReactInv, MoveInv
<1> QED
    BY <1>1, <1>6, <1>7, <1>11, StartsAfresh DEF GameInv

\* A cell at rest is only recorded; a critical one gives its atoms away.
LEMMA ReactStep ==
    ASSUME GameInv, Game!React
    PROVE  GameInv'
<1> DEFINE c == Game!Nth(pass.at)
           explodes == f[c].atoms > Game!getCapacity(c)
<1>1. /\ phase = "react" /\ ReactInv /\ phase' = "react" /\ player' = player
      /\ playerplayed' = playerplayed /\ winner' = winner /\ player \in {1, 2}
      /\ pass \in Game!Passes /\ FieldOK(f)
    BY DEF GameInv, Game!React
<1>2. pass.at \in 0 .. Game!Count - 1 /\ c \in Game!Cells
    BY <1>1, PassTyped, EveryCellVisited DEF Game!React
<1>3. /\ pass.stable \in BOOLEAN /\ pass.players \in SUBSET {1, 2}
      /\ f[c] \in [owner : 0 .. 2, atoms : 0 .. 4]
    BY <1>1, <1>2, PassTyped DEF FieldOK
<1>4. /\ f' = IF explodes THEN Game!spreadAtoms(f, c) ELSE f
      /\ pass' = [at |-> pass.at + 1, stable |-> pass.stable /\ ~explodes,
                  players |-> pass.players \cup ({f[c].owner} \ {0})]
    BY DEF Game!React, Game!Visit
<1> HIDE DEF c
<1>5. /\ pass'.at = pass.at + 1 /\ pass'.stable = (pass.stable /\ ~explodes)
      /\ pass'.players = pass.players \cup ({f[c].owner} \ {0})
      /\ pass' \in Game!Passes
    BY <1>2, <1>3, <1>4, EveryCellVisited DEF Game!Passes
<1>6. ASSUME NEW i \in 0 .. pass.at PROVE i \in 0 .. pass.at - 1 \/ Game!Nth(i) = c
    BY <1>2 DEF c
<1>7. CASE ~explodes
    <2>1. f' = f /\ Rests(f, c)
        BY <1>2, <1>3, <1>4, <1>7, FieldShape DEF Rests
    <2>2. pass'.stable <=> pass.stable
        BY <1>3, <1>5, <1>7
    <2>3. \A i \in 0 .. pass.at : /\ pass.stable => Rests(f, Game!Nth(i))
                                  /\ f[Game!Nth(i)].owner \in pass'.players \cup {0}
        BY <1>1, <1>5, <1>6, <2>1 DEF ReactInv
    <2>4. ReactInv'
        BY <1>1, <1>2, <1>5, <2>1, <2>2, <2>3 DEF ReactInv
    <2> QED
        BY <1>1, <1>5, <2>1, <2>4 DEF GameInv
<1>8. CASE explodes
    <2>1. f[c].owner = player
        BY <1>1, <1>2, <1>3, <1>8, FieldShape DEF ReactInv, Rests
    <2>2. playerplayed = {1, 2}
        <3>1. ~OneAtom(f)
            <4>1. OneAtom(f) => f[c].atoms \in {0, 1}
                BY <1>2 DEF OneAtom, Game!Empty
            <4> QED
                BY <4>1, <1>2, <1>8, FieldShape
        <3> QED
            BY <3>1, <1>1 DEF ReactInv
    <2>3. \A d \in Game!Cells : \/ d = c /\ f'[d] = Game!Empty
                                \/ d \in Game!Near(c) /\ d # c /\ f'[d] = Game!Gains(f[d], player)
                                \/ d \notin Game!Near(c) /\ d # c /\ f'[d] = f[d]
        BY <1>2, <1>4, <1>8, <2>1, FieldShape DEF Game!spreadAtoms
    <2>4. ASSUME NEW d \in Game!Cells
          PROVE  /\ f'[d] \in [owner : 0 .. 2, atoms : 0 .. 4]
                 /\ f'[d].owner = 0 <=> f'[d].atoms = 0
                 /\ f'[d].owner \in {0, f[d].owner, player}
                 /\ Rests(f', d) \/ f'[d].owner = player
                 /\ d = c => f'[d].owner = 0
        <3>1. CASE d = c
            BY <2>3, <3>1, <1>2, FieldShape DEF Game!Empty, Rests
        <3>2. CASE d \in Game!Near(c) /\ d # c
            BY <2>3, <3>2, <1>1, GainsAtom DEF FieldOK
        <3>3. CASE d \notin Game!Near(c) /\ d # c
            BY <2>3, <3>3, <1>1 DEF FieldOK, ReactInv, Rests
        <3> QED
            BY <3>1, <3>2, <3>3
    <2>5. FieldOK(f')
        <3>1. f' = [n \in Game!Cells |-> f'[n]]
            BY <1>4, <1>8 DEF Game!spreadAtoms
        <3> QED
            BY <2>4, <3>1 DEF FieldOK
    <2>6. Game!Owned(f', player) # {}
        <3>1. PICK d : d \in Game!Near(c) /\ d \in Game!Cells /\ d # c
            BY <1>2, FieldShape
        <3>2. f'[d].owner = player
            BY <2>3, <3>1, <1>1, GainsAtom DEF FieldOK
        <3> QED
            BY <3>1, <3>2 DEF Game!Owned
    <2>7. ~pass'.stable /\ player \in pass'.players
        <3>1. ~pass'.stable
            BY <1>5, <1>8
        <3> QED
            BY <3>1, <1>1, <1>5, <2>1
    <2>8. \A i \in 0 .. pass.at : f'[Game!Nth(i)].owner \in pass'.players \cup {0}
        <3> SUFFICES ASSUME NEW i \in 0 .. pass.at
                     PROVE  f'[Game!Nth(i)].owner \in pass'.players \cup {0}
            OBVIOUS
        <3>1. Game!Nth(i) \in Game!Cells
            BY <1>2, EveryCellVisited
        <3>2. f'[Game!Nth(i)].owner \in {0, f[Game!Nth(i)].owner, player}
              /\ (Game!Nth(i) = c => f'[Game!Nth(i)].owner = 0)
            BY <2>4, <3>1
        <3> QED
            BY <3>2, <1>1, <1>5, <1>6, <2>7 DEF ReactInv
    <2>9. ReactInv'
        BY <1>1, <1>2, <1>5, <2>2, <2>4, <2>6, <2>7, <2>8 DEF ReactInv
    <2> QED
        BY <1>1, <1>5, <2>5, <2>9 DEF GameInv
<1> QED
    BY <1>7, <1>8

LEMMA AgainStep ==
    ASSUME GameInv, Game!Again
    PROVE  GameInv'
<1>1. /\ phase = "react" /\ phase' = "react" /\ ReactInv /\ pass' = Game!Start
      /\ f' = f /\ player' = player /\ playerplayed' = playerplayed /\ winner' = winner
    BY DEF GameInv, Game!Again
<1>2. ReactInv'
    BY <1>1, StartsAfresh DEF ReactInv
<1> QED
    BY <1>1, <1>2, StartsAfresh DEF GameInv

\* The reaction ends with the field at rest or all of it the mover's; only the
\* other can have lost.
LEMMA DoneStep ==
    ASSUME GameInv, Game!Done
    PROVE  GameInv'
<1>1. /\ phase = "react" /\ ReactInv /\ FieldOK(f) /\ player \in {1, 2}
      /\ playerplayed \in {{1}, {1, 2}} /\ pass \in Game!Passes
      /\ f' = f /\ playerplayed' = playerplayed /\ pass' = Game!Start
      /\ winner' = Game!checkWinner(f, playerplayed)
    BY DEF GameInv, ReactInv, Game!Done
<1>2. \A p \in {1, 2} : Game!getOwnerCount(f, p) = 0 <=> Game!Owned(f, p) = {}
    BY <1>1, CountsOwners
<1>3. Game!Owned(f, player) # {}
    BY <1>1 DEF ReactInv
<1>4. \/ /\ winner' = 0 /\ \A p \in playerplayed : Game!Owned(f, p) # {}
      \/ /\ winner' = player /\ playerplayed = {1, 2}
         /\ Game!Owned(f, Game!Other(player)) = {}
    <2>1. player \in playerplayed
        BY <1>1 DEF ReactInv
    <2>2. CASE player = 1
        BY <1>1, <1>2, <1>3, <2>1, <2>2 DEF Game!checkWinner, Game!Other
    <2>3. CASE player = 2
        BY <1>1, <1>2, <1>3, <2>1, <2>3 DEF Game!checkWinner, Game!Other
    <2> QED
        BY <1>1, <2>2, <2>3
<1>5. Game!Other(player) \in {1, 2} /\ Game!Other(player) # player
    BY <1>1 DEF Game!Other
<1>6. CASE winner' # 0
    <2>1. winner' = player /\ playerplayed = {1, 2} /\ Game!Owned(f, Game!Other(player)) = {}
        BY <1>1, <1>4, <1>6
    <2>2. phase' = "over" /\ player' = player
        BY <1>6 DEF Game!Done
    <2>3. OverInv'
        BY <1>1, <1>5, <2>1, <2>2 DEF OverInv
    <2> QED
        BY <1>1, <2>2, <2>3, StartsAfresh DEF GameInv
<1>7. CASE winner' = 0
    <2>1. phase' = "move" /\ player' = Game!Other(player)
        BY <1>7 DEF Game!Done
    <2>2. \A p \in playerplayed : Game!Owned(f, p) # {}
        BY <1>1, <1>4, <1>7
    <2>3. pass.stable
        <3> SUFFICES ASSUME ~pass.stable PROVE FALSE
            OBVIOUS
        <3>1. playerplayed = {1, 2} /\ player \in pass.players /\ pass.players # {1, 2}
            BY <1>1, PassTyped DEF ReactInv, Game!Done, Game!Ends
        <3>2. pass.players = {player}
            BY <3>1, <1>1, PassTyped
        <3>3. \A d \in Game!Cells : f[d].owner \in {0, player}
            BY <1>1, <3>2, EveryCellVisited DEF ReactInv, Game!Done
        <3>4. Game!Owned(f, Game!Other(player)) = {}
            BY <3>3, <1>5 DEF Game!Owned
        <3> QED
            BY <3>1, <3>4, <1>5, <2>2
    <2>4. \A d \in Game!Cells : Rests(f, d)
        BY <1>1, <2>3, EveryCellVisited DEF ReactInv, Game!Done
    <2>5. CASE playerplayed = {1}
        <3>1. OneAtom(f) /\ player = 1
            BY <1>1, <2>5 DEF ReactInv
        <3>2. MoveInv'
            BY <1>1, <1>7, <2>1, <2>2, <2>4, <2>5, <3>1 DEF MoveInv, Game!Other, OneAtom, Rests
        <3> QED
            BY <1>1, <1>5, <2>1, <3>2, StartsAfresh DEF GameInv
    <2>6. CASE playerplayed = {1, 2}
        <3>1. MoveInv'
            BY <1>1, <1>7, <2>1, <2>2, <2>4, <2>6 DEF MoveInv, Rests
        <3> QED
            BY <1>1, <1>5, <2>1, <3>1, StartsAfresh DEF GameInv
    <2> QED
        BY <1>1, <2>5, <2>6
<1> QED
    BY <1>6, <1>7

LEMMA OverStep ==
    ASSUME GameInv, Game!Over
    PROVE  GameInv'
<1>1. CASE UNCHANGED Game!vars
    BY <1>1 DEF Game!vars, GameInv, MoveInv, ReactInv, OverInv, FieldOK, OneAtom, Rests
<1>2. CASE ~UNCHANGED Game!vars
    <2>1. /\ f' = [c \in Game!Cells |-> Game!Empty] /\ player' = 1 /\ playerplayed' = {}
          /\ phase' = "move" /\ winner' = 0 /\ pass' = pass
        BY <1>2 DEF Game!Over
    <2>2. FieldOK(f') /\ \A c \in Game!Cells : f'[c] = Game!Empty
        BY <2>1 DEF FieldOK, Game!Empty
    <2>3. \A c \in Game!Cells : Rests(f', c)
        BY <2>2, FieldShape DEF Rests, Game!Empty
    <2> QED
        BY <2>1, <2>2, <2>3 DEF GameInv, MoveInv, Rests, FieldOK
<1> QED
    BY <1>1, <1>2

LEMMA GameNext == GameInv /\ Game!Next => GameInv'
    BY MoveStep, ReactStep, AgainStep, DoneStep, OverStep DEF Game!Next

\* What the invariant says of a game at rest and of one that is over.
LEMMA GameAsStated == GameInv => Game!TurnPossible /\ Game!WinnerTakesAll
<1> SUFFICES ASSUME GameInv PROVE Game!TurnPossible /\ Game!WinnerTakesAll
    OBVIOUS
<1>1. ASSUME phase = "move" PROVE Game!TurnPossible
    <2>1. MoveInv /\ FieldOK(f) /\ player \in {1, 2}
        BY <1>1 DEF GameInv
    <2>2. Game!Usable(player) # {}
        <3>1. <<0, 0>> \in Game!Cells
            BY FieldAssumption DEF Game!Cells
        <3>2. CASE \A d \in Game!Cells : f[d] = Game!Empty
            BY <3>1, <3>2 DEF Game!Usable, Game!Empty
        <3>3. CASE OneAtom(f)
            <4>1. PICK d \in Game!Cells : \A c \in Game!Cells \ {d} : f[c] = Game!Empty
                BY <3>3 DEF OneAtom
            <4>2. PICK c \in Game!Cells : c # d
                BY FieldShape
            <4>3. f[c].owner = 0
                BY <4>1, <4>2 DEF Game!Empty
            <4> QED
                BY <4>3 DEF Game!Usable
        <3>4. CASE Game!Owned(f, 1) # {} /\ Game!Owned(f, 2) # {}
            BY <3>4, <2>1 DEF Game!Usable, Game!Owned
        <3> QED
            BY <2>1, <3>2, <3>3, <3>4 DEF MoveInv
    <2>3. \A c \in Game!Cells : (f[c].owner = 0) = (f[c].atoms = 0)
        BY <2>1 DEF FieldOK
    <2> QED
        BY <2>1, <2>2, <2>3 DEF Game!TurnPossible, MoveInv, Rests
<1>2. Game!TurnPossible
    BY <1>1 DEF Game!TurnPossible
<1>3. Game!WinnerTakesAll
    BY DEF Game!WinnerTakesAll, GameInv, MoveInv, ReactInv, OverInv
<1> QED
    BY <1>2, <1>3

\* A turn begins on a field at rest, with a cell for the player whose turn it
\* is, and the winner is the one whose move it was and has it all, on a field
\* of any size: react may stop before the field is at rest only when checkWinner
\* then finds that the game is over.
THEOREM TurnsPossible == Spec => []TurnPossible
<1> DEFINE Inv == active = "game" => GameInv
<1>1. Init => Inv
    BY GameInit DEF Init
<1>2. Inv /\ [Next]_vars => Inv'
    <2> SUFFICES ASSUME Inv, [Next]_vars, active' = "game" PROVE GameInv'
        OBVIOUS
    <2>1. CASE UNCHANGED vars
        BY <2>1 DEF vars, gameVars, GameInv, MoveInv, ReactInv, OverInv, FieldOK, OneAtom, Rests
    <2>2. CASE Next
        BY <2>2, GameNext DEF Next, Alone
    <2> QED
        BY <2>1, <2>2
<1>3. Inv => TurnPossible
    BY GameAsStated DEF TurnPossible
<1> QED
    BY <1>1, <1>2, <1>3, PTL DEF Spec

-----------------------------------------------------------------------------
(* The monitor in the boot ROM and the uploader. *)

\* The page in the flash has been loaded and runs.
Lost == rom.at = "run" /\ rom.by = "flash"

\* What is under way to the monitor.
Rest == up \o host.send

ErasePlaces   == {"erase enable", "erase", "erase busy"}
ProgramPlaces == {"program enable", "program", "program busy", "read busy", "read"}
Polls         == {"erase busy", "program busy", "read busy"}

FlashTyped(g) ==
    g \in [mem : [Monitor!Addresses -> Nat], sel : BOOLEAN, got : Seq(Nat),
           wel : BOOLEAN, busy : Nat, out : Nat]

Places == [at : {"main", "uaddr", "ulen", "ubytes", "caddr", "run", "slen", "sbytes"},
           s0 : Nat, s1 : Nat, s2 : Nat, by : {"none", "call", "flash"}]
Hosts  == [at : ErasePlaces \cup ProgramPlaces \cup {"start", "upload", "end"},
           file : Seq(0 .. 255), size : Nat, task : {"upload", "program"}, pos : Nat,
           send : Seq(Nat), wait : Nat, mismatch : BOOLEAN]

\* What can be read of the file is no more than all of it, which fits into the
\* flash; the erasing goes on to its end.
Reaches(h) ==
    /\ Len(h.file) <= h.size /\ FlashBase + h.size <= FlashSize
    /\ IF h.at \in ErasePlaces THEN h.pos <= h.size ELSE h.pos <= Len(h.file)

\* The flash is selected only while the monitor hands bytes on to it.
RomTyped ==
    /\ rom \in Places
    /\ DOMAIN ram = 0 .. FlashSize - 1 /\ FlashTyped(flash)
    /\ up \in Seq(Nat) /\ down \in Seq(Nat)
    /\ host \in Hosts /\ Reaches(host)
    /\ host.at \in ErasePlaces \cup ProgramPlaces \/ host.wait = 0
    /\ IF rom.at \in {"slen", "sbytes"} THEN flash.sel ELSE ~flash.sel /\ flash.got = <<>>
    /\ Lost => \A i \in 0 .. LOADSIZE - 1 : ram[i] = flash.mem[FlashBase + i]

Untouched == \A a \in Monitor!Addresses : flash.mem[a] = 7

\* Only the blocks the file is in are touched.
InBlocks(a) == a >= FlashBase /\ (a - FlashBase) \div BLOCK <= (host.size - 1) \div BLOCK
BlocksKept  == \A a \in Monitor!Addresses : flash.mem[a] # 7 => InBlocks(a)

StartInv ==
    /\ up = <<>> /\ host.send = <<>> /\ host.wait = 0 /\ host.pos = 0 /\ ~host.mismatch
    /\ Untouched
    /\ rom.at = "main" \/ Lost

-----------------------------------------------------------------------------
(* The flash. *)

\* What one item exchanged with a flash that is selected does to it.
Takes(g, b, h) ==
    /\ FlashTyped(h) /\ h.mem = g.mem /\ h.sel
    /\ Len(h.got) = Len(g.got) + 1
    /\ \A i \in 1 .. Len(g.got) : h.got[i] = g.got[i]
    /\ \/ h.got[Len(g.got) + 1] = b
       \/ g.got = <<>> /\ g.busy # 0 /\ b # Monitor!READ_STATUS /\ h.got[Len(g.got) + 1] = 0
    /\ g.busy = 0 => h.busy = 0
    /\ g.got # <<>> /\ g.got[1] = Monitor!READ_STATUS => h.out = 1 \/ h.busy = 0
    /\ Len(g.got) > 2 /\ g.got[1] = Monitor!FASTREAD
         /\ g.got[2] + Len(g.got) - 3 \in Monitor!Addresses
         => h.out = g.mem[g.got[2] + Len(g.got) - 3]

LEMMA ItemExchanged ==
    ASSUME NEW g, FlashTyped(g), g.sel, NEW b \in Nat
    PROVE  Takes(g, b, Monitor!Exchange(g, b))
<1> DEFINE h    == Monitor!Exchange(g, b)
           n    == Len(g.got)
           cmd  == IF g.got = <<>> THEN b ELSE g.got[1]
           deaf == n = 0 /\ g.busy > 0 /\ b # Monitor!READ_STATUS
           item == IF deaf THEN 0 ELSE b
           busy == IF cmd = Monitor!READ_STATUS /\ n > 0 /\ g.busy > 0 THEN g.busy - 1 ELSE g.busy
           from == g.got[2] + n - 3
           said  == CASE cmd = Monitor!READ_STATUS /\ n > 0 -> IF g.busy > 0 THEN 1 ELSE 0
                     [] cmd = Monitor!FASTREAD /\ n > 2 /\ from \in Monitor!Addresses -> g.mem[from]
                     [] OTHER -> 255
<1>1. h = [g EXCEPT !.got = Append(@, item), !.busy = busy, !.out = said]
    BY DEF Monitor!Exchange
<1>2. /\ g.got \in Seq(Nat) /\ n \in Nat /\ g.busy \in Nat /\ g.mem \in [Monitor!Addresses -> Nat]
      /\ g.sel \in BOOLEAN /\ g.wel \in BOOLEAN
    BY DEF FlashTyped
<1>3. item \in Nat /\ busy \in Nat /\ said \in Nat
    <2>1. item \in Nat /\ busy \in Nat
        BY <1>2
    <2>2. from \in Monitor!Addresses => g.mem[from] \in Nat
        BY <1>2
    <2>3. said \in Nat
        BY <2>2 DEF Monitor!READ_STATUS, Monitor!FASTREAD
    <2> QED
        BY <2>1, <2>3
<1>4. /\ h.mem = g.mem /\ h.sel = g.sel /\ h.wel = g.wel /\ h.got = Append(g.got, item)
      /\ h.busy = busy /\ h.out = said /\ FlashTyped(h)
    <2> HIDE DEF item, busy, said, h
    <2> QED
        BY <1>1, <1>3, Append(g.got, item) \in Seq(Nat) DEF FlashTyped
<1>5. /\ Append(g.got, item) \in Seq(Nat) /\ Len(h.got) = n + 1
      /\ \A i \in 1 .. n : h.got[i] = g.got[i]
      /\ h.got[n + 1] = item
    <2> HIDE DEF item, busy, said, h
    <2> QED
        BY <1>2, <1>3, <1>4
<1>6. item = b \/ (g.got = <<>> /\ g.busy # 0 /\ b # Monitor!READ_STATUS /\ item = 0)
    BY <1>2
<1>7. g.busy = 0 => busy = 0
    BY <1>2
<1>8. g.got # <<>> /\ g.got[1] = Monitor!READ_STATUS => said = 1 \/ busy = 0
    <2> SUFFICES ASSUME g.got # <<>>, g.got[1] = Monitor!READ_STATUS PROVE said = 1 \/ busy = 0
        OBVIOUS
    <2>1. n > 0 /\ cmd = Monitor!READ_STATUS
        BY <1>2
    <2>2. CASE g.busy > 0
        BY <2>1, <2>2 DEF Monitor!READ_STATUS, Monitor!FASTREAD
    <2>3. CASE g.busy = 0
        BY <2>3, <1>2
    <2> QED
        BY <2>2, <2>3, <1>2
<1>9. n > 2 /\ g.got[1] = Monitor!FASTREAD /\ from \in Monitor!Addresses => said = g.mem[from]
    <2> SUFFICES ASSUME n > 2, g.got[1] = Monitor!FASTREAD, from \in Monitor!Addresses
                 PROVE  said = g.mem[from]
        OBVIOUS
    <2>1. cmd = Monitor!FASTREAD /\ cmd # Monitor!READ_STATUS
        BY <1>2 DEF Monitor!FASTREAD, Monitor!READ_STATUS
    <2> HIDE DEF cmd, from
    <2> QED
        BY <2>1
<1>10. h.got[n + 1] = b \/ (g.got = <<>> /\ g.busy # 0 /\ b # Monitor!READ_STATUS /\ h.got[n + 1] = 0)
    <2> HIDE DEF h, item, n
    <2> QED
        BY <1>5, <1>6, Zenon
<1>11. FlashTyped(h) /\ h.mem = g.mem /\ h.sel /\ Len(h.got) = n + 1 /\ \A i \in 1 .. n : h.got[i] = g.got[i]
    <2> HIDE DEF h, item, n
    <2> QED
        BY <1>4, <1>5, Zenon
<1>12. /\ g.busy = 0 => h.busy = 0
       /\ g.got # <<>> /\ g.got[1] = Monitor!READ_STATUS => h.out = 1 \/ h.busy = 0
       /\ n > 2 /\ g.got[1] = Monitor!FASTREAD /\ from \in Monitor!Addresses => h.out = g.mem[from]
    <2> HIDE DEF h, item, busy, said, from, n
    <2> QED
        BY <1>4, <1>7, <1>8, <1>9
<1> QED
    BY <1>10, <1>11, <1>12, Zenon DEF Takes

\* A command takes effect when the flash is deselected: which it was, and
\* where it may have changed a byte.
EndedAt(g, h) ==
    /\ FlashTyped(h) /\ ~h.sel /\ h.got = <<>>
    /\ \/ h.mem = g.mem /\ h.busy = g.busy
       \/ /\ g.got # <<>> /\ g.got[1] = Monitor!BLOCK_ERASE
          /\ \A a \in Monitor!Addresses :
               h.mem[a] # g.mem[a] => a \div BLOCK = g.got[2] \div BLOCK
       \/ /\ g.got # <<>> /\ g.got[1] = Monitor!PAGE_PROGRAM
          /\ \A a \in Monitor!Addresses :
               h.mem[a] # g.mem[a] => a - g.got[2] + 3 \in 3 .. Len(g.got)

LEMMA CommandEnded ==
    ASSUME NEW g, FlashTyped(g), NEW h \in Monitor!Deselect(g)
    PROVE  EndedAt(g, h)
<1> DEFINE done == [g EXCEPT !.sel = FALSE, !.got = <<>>]
           Changed(mem) == [done EXCEPT !.mem = mem, !.wel = FALSE, !.busy = BusyPolls]
           erased == [a \in Monitor!Addresses |->
                        IF a \div BLOCK = g.got[2] \div BLOCK THEN Monitor!Erased ELSE g.mem[a]]
<1>1. /\ g.got \in Seq(Nat) /\ g.busy \in Nat /\ g.mem \in [Monitor!Addresses -> Nat]
      /\ g.wel \in BOOLEAN /\ g.out \in Nat
    BY DEF FlashTyped
<1>2. /\ FlashTyped(done) /\ ~done.sel /\ done.got = <<>> /\ done.mem = g.mem
      /\ done.busy = g.busy
    <2>1. <<>> \in Seq(Nat)
        OBVIOUS
    <2>2. FlashTyped(done)
        BY <2>1 DEF FlashTyped
    <2>3. done.sel = FALSE /\ done.got = <<>> /\ done.mem = g.mem /\ done.busy = g.busy
        BY DEF FlashTyped
    <2> QED
        BY <2>2, <2>3
<1>3. ASSUME NEW mem \in [Monitor!Addresses -> Nat]
      PROVE  /\ FlashTyped(Changed(mem)) /\ ~Changed(mem).sel /\ Changed(mem).got = <<>>
             /\ Changed(mem).mem = mem
    <2> HIDE DEF done
    <2>1. BusyPolls \in Nat
        BY UploadAssumption
    <2>2. FlashTyped(Changed(mem))
        BY <1>2, <2>1 DEF FlashTyped
    <2>3. Changed(mem).sel = done.sel /\ Changed(mem).got = done.got /\ Changed(mem).mem = mem
        BY <1>2 DEF FlashTyped
    <2> QED
        BY <1>2, <2>2, <2>3
<1>4. \/ h = done \/ h = [done EXCEPT !.wel = TRUE]
      \/ Len(g.got) = 2 /\ g.got[1] = Monitor!BLOCK_ERASE /\ h = Changed(erased)
      \/ /\ Len(g.got) > 2 /\ g.got[1] = Monitor!PAGE_PROGRAM
         /\ \E good \in BOOLEAN : h = Changed(Monitor!Programmed(g, good))
    BY DEF Monitor!Deselect
<1>5. CASE h = done \/ h = [done EXCEPT !.wel = TRUE]
    <2> HIDE DEF done
    <2>1. h.mem = g.mem /\ ~h.sel /\ h.got = <<>> /\ h.busy = g.busy /\ FlashTyped(h)
        BY <1>2, <1>5 DEF FlashTyped
    <2> QED
        BY <2>1 DEF EndedAt
<1>6. CASE Len(g.got) = 2 /\ g.got[1] = Monitor!BLOCK_ERASE /\ h = Changed(erased)
    <2>1. erased \in [Monitor!Addresses -> Nat]
        BY <1>1 DEF Monitor!Erased
    <2>2. \A a \in Monitor!Addresses : erased[a] # g.mem[a] => a \div BLOCK = g.got[2] \div BLOCK
        OBVIOUS
    <2> HIDE DEF erased
    <2>3. FlashTyped(Changed(erased)) /\ ~Changed(erased).sel /\ Changed(erased).got = <<>>
          /\ Changed(erased).mem = erased
        BY <2>1, <1>3
    <2>4. FlashTyped(h) /\ ~h.sel /\ h.got = <<>> /\ h.mem = erased
        BY <2>3, <1>6, Zenon
    <2> QED
        BY <2>2, <2>4, <1>6 DEF EndedAt
<1>7. ASSUME Len(g.got) > 2, g.got[1] = Monitor!PAGE_PROGRAM, NEW good \in BOOLEAN,
             h = Changed(Monitor!Programmed(g, good))
      PROVE  EndedAt(g, h)
    <2> DEFINE new == Monitor!Programmed(g, good)
    <2>1. new \in [Monitor!Addresses -> Nat]
        BY <1>1 DEF Monitor!Programmed
    <2>2. \A a \in Monitor!Addresses : new[a] # g.mem[a] => a - g.got[2] + 3 \in 3 .. Len(g.got)
        BY DEF Monitor!Programmed
    <2> HIDE DEF new
    <2>3. FlashTyped(Changed(new)) /\ ~Changed(new).sel /\ Changed(new).got = <<>>
          /\ Changed(new).mem = new
        BY <2>1, <1>3
    <2>4. FlashTyped(h) /\ ~h.sel /\ h.got = <<>> /\ h.mem = new
        BY <2>3, <1>7, Zenon DEF new
    <2> QED
        BY <2>2, <2>4, <1>7 DEF EndedAt
<1> QED
    BY <1>4, <1>5, <1>6, <1>7

\* One byte of the page loaded.
Load(x, i) ==
    LET h == Monitor!Exchange(x.f, 0)
    IN  [f |-> h, ram |-> [x.ram EXCEPT ![i - 1] = h.out]]

\* The first i bytes are loaded.
PageLoaded(x, i, mem) ==
    /\ FlashTyped(x.f) /\ x.f.mem = mem /\ x.f.sel /\ x.f.busy = 0
    /\ Len(x.f.got) = 3 + i /\ x.f.got[1] = Monitor!FASTREAD /\ x.f.got[2] = FlashBase
    /\ DOMAIN x.ram = 0 .. FlashSize - 1
    /\ \A j \in 0 .. i - 1 : x.ram[j] = mem[FlashBase + j]

LEMMA ByteLoaded ==
    ASSUME NEW x, NEW mem, NEW i \in 1 .. LOADSIZE, PageLoaded(x, i - 1, mem)
    PROVE  PageLoaded(Load(x, i), i, mem)
<1> DEFINE h == Monitor!Exchange(x.f, 0)
           r == [x.ram EXCEPT ![i - 1] = h.out]
<1>1. Takes(x.f, 0, h)
    BY ItemExchanged DEF PageLoaded
<1>2. Load(x, i).f = h /\ Load(x, i).ram = r
    BY DEF Load
<1> HIDE DEF h
<1>3. /\ x.f.got \in Seq(Nat) /\ Len(x.f.got) = 2 + i /\ x.f.got[2] \in Nat /\ x.f.got[1] \in Nat
      /\ x.f.got[2] = FlashBase /\ x.f.got[1] = Monitor!FASTREAD /\ x.f.mem = mem
    BY UploadAssumption DEF PageLoaded, FlashTyped, Monitor!FASTREAD
<1>4. h.got[1] = Monitor!FASTREAD /\ h.got[2] = FlashBase /\ Len(h.got) = 3 + i
    <2>1. Len(h.got) = Len(x.f.got) + 1 /\ \A j \in 1 .. Len(x.f.got) : h.got[j] = x.f.got[j]
        BY <1>1, Zenon DEF Takes
    <2>2. 1 \in 1 .. Len(x.f.got) /\ 2 \in 1 .. Len(x.f.got)
        <3>1. 1 \in 1 .. 2 + i /\ 2 \in 1 .. 2 + i
            BY UploadAssumption
        <3>2. Len(x.f.got) = 2 + i
            BY <1>3, Zenon
        <3> QED
            BY <3>1, <3>2, Zenon
    <2>3. h.got[1] = x.f.got[1] /\ h.got[2] = x.f.got[2]
        BY <2>1, <2>2, Zenon
    <2> QED
        BY <1>3, <2>1, <2>2, <2>3
<1>5. h.out = mem[FlashBase + i - 1]
    <2>1. x.f.got[2] + Len(x.f.got) - 3 = FlashBase + i - 1
        BY <1>3, UploadAssumption
    <2>2. FlashBase + i - 1 \in Monitor!Addresses
        BY UploadAssumption DEF Monitor!Addresses
    <2> QED
        BY <1>1, <1>3, <2>1, <2>2 DEF Takes
<1>6. \A j \in 0 .. i - 1 : r[j] = mem[FlashBase + j]
    <2> SUFFICES ASSUME NEW j \in 0 .. i - 1 PROVE r[j] = mem[FlashBase + j]
        OBVIOUS
    <2>1. DOMAIN x.ram = 0 .. FlashSize - 1 /\ j \in 0 .. FlashSize - 1
        BY UploadAssumption DEF PageLoaded
    <2>2. CASE j = i - 1
        BY <2>1, <2>2, <1>5
    <2>3. CASE j # i - 1
        BY <2>1, <2>3 DEF PageLoaded
    <2> QED
        BY <2>2, <2>3
<1>7. DOMAIN r = 0 .. FlashSize - 1
    BY DEF PageLoaded
<1> HIDE DEF r
<1> QED
    BY <1>1, <1>2, <1>4, <1>6, <1>7 DEF PageLoaded, Takes

\* The recursion of load_from_spi defines a function, and loads the page.
LEMMA LoadsExist ==
    ASSUME NEW x, NEW mem, PageLoaded(x, 0, mem), NEW m \in 0 .. LOADSIZE
    PROVE  \E c : /\ c = [i \in 0 .. m |-> IF i = 0 THEN x ELSE Load(c[i - 1], i)]
                  /\ \A i \in 0 .. m : PageLoaded(c[i], i, mem)
<1> DEFINE Good(k) == \E c : /\ c = [i \in 0 .. k |-> IF i = 0 THEN x ELSE Load(c[i - 1], i)]
                             /\ \A i \in 0 .. k : PageLoaded(c[i], i, mem)
           Bad == {k \in 0 .. LOADSIZE : ~Good(k)}
<1>1. Bad = {}
    <2> SUFFICES ASSUME Bad # {} PROVE FALSE
        OBVIOUS
    <2>0. Bad \subseteq Nat
        BY UploadAssumption
    <2>1. PICK k \in Bad : \A n \in Bad : k <= n
        BY <2>0, SmallestExists
    <2>2. CASE k = 0
        <3> DEFINE c == [i \in 0 .. 0 |-> x]
        <3>1. c = [i \in 0 .. 0 |-> IF i = 0 THEN x ELSE Load(c[i - 1], i)]
            OBVIOUS
        <3>2. \A i \in 0 .. 0 : PageLoaded(c[i], i, mem)
            OBVIOUS
        <3> QED
            BY <2>1, <2>2, <3>1, <3>2
    <2>3. CASE k # 0
        <3>0. k \in 1 .. LOADSIZE /\ LOADSIZE \in Nat
            BY <2>1, <2>3, UploadAssumption
        <3>1. k - 1 \in 0 .. LOADSIZE /\ k - 1 \notin Bad
            <4> HIDE DEF Bad
            <4> QED
                BY <2>1, <3>0
        <3>2. PICK c : /\ c = [i \in 0 .. k - 1 |-> IF i = 0 THEN x ELSE Load(c[i - 1], i)]
                       /\ \A i \in 0 .. k - 1 : PageLoaded(c[i], i, mem)
            BY <3>1
        <3> DEFINE d == [i \in 0 .. k |-> IF i = k THEN Load(c[k - 1], k) ELSE c[i]]
        <3>3. \A i \in 0 .. k - 1 : d[i] = c[i]
            BY <3>0
        <3>4. d[k] = Load(c[k - 1], k)
            BY <3>0
        <3>5. PageLoaded(d[k], k, mem)
            <4>1. PageLoaded(c[k - 1], k - 1, mem)
                BY <3>0, <3>2
            <4> QED
                BY <4>1, <3>0, <3>4, ByteLoaded
        <3>6. \A i \in 0 .. k : PageLoaded(d[i], i, mem)
            <4> HIDE DEF d
            <4> QED
                BY <3>0, <3>2, <3>3, <3>5
        <3>7. ASSUME NEW i \in 0 .. k
              PROVE  d[i] = IF i = 0 THEN x ELSE Load(d[i - 1], i)
            <4>1. CASE i = k
                BY <4>1, <3>0, <3>3, <3>4
            <4>2. CASE i # k
                <5>1. i \in 0 .. k - 1
                    BY <4>2, <3>0
                <5>2. c[i] = IF i = 0 THEN x ELSE Load(c[i - 1], i)
                    BY <3>2, <5>1
                <5>3. i # 0 => i - 1 \in 0 .. k - 1
                    BY <5>1, <3>0
                <5> QED
                    BY <3>3, <5>1, <5>2, <5>3
            <4> QED
                BY <4>1, <4>2
        <3>8. d = [i \in 0 .. k |-> IF i = 0 THEN x ELSE Load(d[i - 1], i)]
            <4>1. \A i \in 0 .. k : d[i] = IF i = 0 THEN x ELSE Load(d[i - 1], i)
                BY <3>7
            <4> QED
                BY <4>1
        <3> QED
            BY <2>1, <3>6, <3>8
    <2> QED
        BY <2>2, <2>3
<1> QED
    BY <1>1

\* The page is loaded from a flash that is not selected, whatever it was last
\* asked to do, and stays what the flash holds.
LEMMA PageRuns ==
    ASSUME RomTyped, Monitor!LoadFromSpi
    PROVE  /\ Lost' /\ RomTyped' /\ flash'.mem = flash.mem /\ flash'.busy = 0
           /\ UNCHANGED <<up, down, host>> /\ rom.at = "main"
<1> DEFINE ready == Monitor!Select([flash EXCEPT !.busy = 0])
           f1    == Monitor!Exchange(ready, Monitor!FASTREAD)
           f2    == Monitor!Exchange(f1, FlashBase)
           asked == Monitor!Exchange(f2, 0)
           x     == [f |-> asked, ram |-> ram]
           copied == CHOOSE c : c = [i \in 0 .. LOADSIZE |-> IF i = 0 THEN x ELSE Load(c[i - 1], i)]
<1>1. /\ rom.at = "main" /\ UNCHANGED <<up, down, host>>
      /\ rom' = [rom EXCEPT !.at = "run", !.by = "flash"]
      /\ ram' = copied[LOADSIZE].ram /\ flash' \in Monitor!Deselect(copied[LOADSIZE].f)
    BY DEF Monitor!LoadFromSpi, Load
<1>2. /\ FlashTyped(ready) /\ ready.sel /\ ready.got = <<>> /\ ready.mem = flash.mem /\ ready.busy = 0
    <2>1. FlashTyped(flash) /\ flash.got = <<>>
        BY <1>1 DEF RomTyped
    <2>2. FlashTyped(ready)
        BY <2>1 DEF FlashTyped, Monitor!Select
    <2>3. ready.sel = TRUE /\ ready.got = flash.got /\ ready.mem = flash.mem /\ ready.busy = 0
        BY <2>1 DEF FlashTyped, Monitor!Select
    <2> QED
        BY <2>1, <2>2, <2>3
<1>3. PageLoaded(x, 0, flash.mem)
    <2> HIDE DEF ready
    <2>1. Takes(ready, Monitor!FASTREAD, f1)
        BY <1>2, ItemExchanged DEF Monitor!FASTREAD
    <2> HIDE DEF f1
    <2>2. FlashTyped(f1) /\ f1.sel /\ f1.mem = flash.mem /\ f1.busy = 0 /\ Len(f1.got) = 1
          /\ f1.got[1] = Monitor!FASTREAD
        BY <1>2, <2>1 DEF Takes
    <2>3. Takes(f1, FlashBase, f2)
        BY <2>2, UploadAssumption, ItemExchanged
    <2> HIDE DEF f2
    <2>4. f1.got # <<>>
        BY <2>2
    <2>5. FlashTyped(f2) /\ f2.sel /\ f2.mem = flash.mem /\ f2.busy = 0 /\ Len(f2.got) = 2
          /\ f2.got[1] = Monitor!FASTREAD /\ f2.got[2] = FlashBase
        BY <2>2, <2>3, <2>4 DEF Takes
    <2>6. Takes(f2, 0, asked)
        BY <2>5, ItemExchanged
    <2> HIDE DEF asked
    <2>7. FlashTyped(asked) /\ asked.sel /\ asked.mem = flash.mem /\ asked.busy = 0
          /\ Len(asked.got) = 3 /\ asked.got[1] = Monitor!FASTREAD /\ asked.got[2] = FlashBase
        BY <2>5, <2>6 DEF Takes
    <2> QED
        BY <2>7 DEF PageLoaded, RomTyped
<1> HIDE DEF x, asked
<1>4. PageLoaded(copied[LOADSIZE], LOADSIZE, flash.mem)
    <2>1. copied = [i \in 0 .. LOADSIZE |-> IF i = 0 THEN x ELSE Load(copied[i - 1], i)]
        <3>1. LOADSIZE \in 0 .. LOADSIZE
            BY UploadAssumption
        <3>2. \E c : c = [i \in 0 .. LOADSIZE |-> IF i = 0 THEN x ELSE Load(c[i - 1], i)]
            BY <1>3, <3>1, LoadsExist
        <3> QED
            BY <3>2, Zenon
    <2> HIDE DEF copied
    <2> DEFINE Bad == {i \in 0 .. LOADSIZE : ~PageLoaded(copied[i], i, flash.mem)}
    <2>2. Bad = {}
        <3> SUFFICES ASSUME Bad # {} PROVE FALSE
            OBVIOUS
        <3>1. Bad \subseteq Nat
            BY UploadAssumption
        <3>2. PICK k \in Bad : \A i \in Bad : k <= i
            BY <3>1, SmallestExists
        <3>3. k # 0
            BY <3>2, <2>1, <1>3
        <3>4. k \in 1 .. LOADSIZE /\ k - 1 \in 0 .. LOADSIZE /\ k - 1 \notin Bad
            <4>1. k \in 0 .. LOADSIZE
                OBVIOUS
            <4> HIDE DEF Bad
            <4> QED
                BY <3>2, <3>3, <4>1, UploadAssumption
        <3>5. copied[k] = Load(copied[k - 1], k)
            BY <2>1, <3>4
        <3>6. PageLoaded(copied[k - 1], k - 1, flash.mem)
            BY <3>4
        <3>7. PageLoaded(copied[k], k, flash.mem)
            BY <3>4, <3>5, <3>6, ByteLoaded
        <3> QED
            BY <3>2, <3>7
    <2>3. LOADSIZE \in 0 .. LOADSIZE
        BY UploadAssumption
    <2> QED
        BY <2>2, <2>3
<1> HIDE DEF copied
<1> DEFINE g == copied[LOADSIZE].f
<1>5. /\ FlashTyped(g) /\ g.mem = flash.mem /\ g.busy = 0 /\ g.got[1] = Monitor!FASTREAD
      /\ DOMAIN ram' = 0 .. FlashSize - 1
      /\ \A j \in 0 .. LOADSIZE - 1 : ram'[j] = flash.mem[FlashBase + j]
    BY <1>1, <1>4 DEF PageLoaded
<1> HIDE DEF g
<1>6. EndedAt(g, flash')
    BY <1>1, <1>5, CommandEnded DEF g
<1>7. FlashTyped(flash') /\ ~flash'.sel /\ flash'.got = <<>> /\ flash'.mem = flash.mem /\ flash'.busy = 0
    BY <1>5, <1>6 DEF EndedAt, Monitor!FASTREAD, Monitor!BLOCK_ERASE, Monitor!PAGE_PROGRAM
<1>8. rom'.at = "run" /\ rom'.by = "flash" /\ rom' \in Places
    BY <1>1 DEF RomTyped, Places
<1> QED
    BY <1>1, <1>5, <1>7, <1>8 DEF RomTyped, Lost

-----------------------------------------------------------------------------
(* Blocks of the flash, parts of the file, and what the flash is told. *)

LEMMA QuotientsOrdered ==
    ASSUME NEW m \in Nat \ {0}, NEW a \in Nat, NEW b \in Nat, a <= b
    PROVE  a \div m <= b \div m /\ a \div m \in Nat
<1> DEFINE p == a \div m
           q == b \div m
           r == a % m
           s == b % m
<1>1. p \in Nat /\ q \in Nat /\ r \in 0 .. m - 1 /\ s \in 0 .. m - 1 /\ a = m * p + r /\ b = m * q + s
    <2>1. \A x \in Nat : x \div m \in Nat /\ x % m \in 0 .. m - 1 /\ x = m * (x \div m) + (x % m)
        OBVIOUS
    <2> QED
        BY <2>1
<1> HIDE DEF p, q, r, s
<1>2. ASSUME p >= q + 1 PROVE FALSE
    <2>1. m * p >= m * (q + 1)
        BY <1>1, <1>2
    <2>2. m * (q + 1) = m * q + m
        BY <1>1
    <2>3. m * p \in Nat /\ m * q \in Nat
        BY <1>1
    <2> QED
        BY <1>1, <2>1, <2>2, <2>3
<1> QED
    BY <1>1, <1>2 DEF p, q

LEMMA BlockStarts ==
    ASSUME NEW a \in Nat, a % BLOCK = 0
    PROVE  a \div BLOCK \in Nat /\ a = (a \div BLOCK) * BLOCK
<1>1. BLOCK \in Nat \ {0}
    BY UploadAssumption
<1>2. \A m \in Nat \ {0} : a \div m \in Nat /\ a = m * (a \div m) + (a % m)
    OBVIOUS
<1> QED
    BY <1>1, <1>2

LEMMA NextBlock ==
    ASSUME NEW a \in Nat, a % BLOCK = 0
    PROVE  (a + BLOCK) % BLOCK = 0
<1> DEFINE q == a \div BLOCK
<1>1. q \in Nat /\ a = q * BLOCK
    BY BlockStarts
<1> HIDE DEF q
<1>2. BLOCK \in Nat \ {0} /\ 0 \in 0 .. BLOCK - 1
    BY UploadAssumption
<1>3. ((q + 1) * BLOCK + 0) % BLOCK = 0
    BY <1>1, <1>2, DivisionUnique
<1>4. (q + 1) * BLOCK + 0 = a + BLOCK
    BY <1>1, <1>2
<1> QED
    BY <1>3, <1>4

\* What eraseBlocks erases.
LEMMA BlockOfFile ==
    ASSUME RomTyped, host.pos < host.size, host.pos % BLOCK = 0,
           NEW a \in Monitor!Addresses, a \div BLOCK = (FlashBase + host.pos) \div BLOCK
    PROVE  InBlocks(a)
<1> DEFINE k == FlashBase \div BLOCK
           j == host.pos \div BLOCK
           r == a % BLOCK
<1>1. /\ host.pos \in Nat /\ FlashBase \in Nat /\ BLOCK \in Nat \ {0} /\ a \in Nat
      /\ host.size \in Nat
    BY UploadAssumption DEF RomTyped, Hosts, Monitor!Addresses
<1>2. k \in Nat /\ FlashBase = k * BLOCK /\ j \in Nat /\ host.pos = j * BLOCK
    BY <1>1, BlockStarts, UploadAssumption
<1>3. r \in 0 .. BLOCK - 1 /\ a = BLOCK * (a \div BLOCK) + r
    <2>1. \A m \in Nat \ {0} : a % m \in 0 .. m - 1 /\ a = m * (a \div m) + (a % m)
        BY <1>1
    <2> QED
        BY <1>1, <2>1
<1>4. j <= (host.size - 1) \div BLOCK
    <2>1. host.size - 1 \in Nat /\ host.pos <= host.size - 1
        BY <1>1
    <2> QED
        BY <1>1, <2>1, QuotientsOrdered, Zenon
<1> HIDE DEF k, j, r
<1>5. (FlashBase + host.pos) \div BLOCK = k + j
    <2>1. FlashBase + host.pos = (k + j) * BLOCK + 0 /\ k + j \in Nat /\ 0 \in 0 .. BLOCK - 1
        BY <1>1, <1>2
    <2> QED
        BY <1>1, <2>1, DivisionUnique
<1>6. a = BLOCK * (k + j) + r
    BY <1>3, <1>5
<1>7. a >= FlashBase /\ a - FlashBase = j * BLOCK + r
    <2>1. BLOCK * (k + j) = k * BLOCK + j * BLOCK /\ k * BLOCK \in Nat /\ j * BLOCK \in Nat
        BY <1>1, <1>2
    <2> QED
        BY <1>2, <1>3, <1>6, <2>1
<1>8. (a - FlashBase) \div BLOCK = j
    <2>1. (j * BLOCK + r) \div BLOCK = j
        BY <1>1, <1>2, <1>3, DivisionUnique
    <2> QED
        BY <1>7, <2>1, Zenon
<1> QED
    BY <1>4, <1>7, <1>8 DEF InBlocks

\* Where programChunk writes.
LEMMA FileInBlocks ==
    ASSUME NEW a \in Nat, a >= FlashBase, a - FlashBase < Len(host.file), RomTyped
    PROVE  InBlocks(a)
<1>1. host.size - 1 \in Nat /\ a - FlashBase \in Nat /\ a - FlashBase <= host.size - 1
    <2>1. Len(host.file) \in Nat /\ host.size \in Nat /\ Len(host.file) <= host.size /\ FlashBase \in Nat
        BY UploadAssumption DEF RomTyped, Hosts, Reaches
    <2> QED
        BY <2>1
<1> QED
    BY <1>1, QuotientsOrdered, UploadAssumption DEF InBlocks

LEMMA ItemsBetween ==
    ASSUME NEW s \in Seq(Nat), NEW m \in Nat, NEW n \in Nat, m <= n, n <= Len(s)
    PROVE  /\ SubSeq(s, m + 1, n) \in Seq(Nat) /\ Len(SubSeq(s, m + 1, n)) = n - m
           /\ \A i \in 1 .. Len(SubSeq(s, m + 1, n)) : SubSeq(s, m + 1, n)[i] = s[m + i]
<1>1. m + 1 \in Int /\ n \in Int /\ \A i \in m + 1 .. n : s[i] \in Nat
    OBVIOUS
<1>2. /\ SubSeq(s, m + 1, n) \in Seq(Nat)
      /\ Len(SubSeq(s, m + 1, n)) = IF m + 1 <= n THEN n - (m + 1) + 1 ELSE 0
      /\ \A i \in 1 .. n - (m + 1) + 1 : SubSeq(s, m + 1, n)[i] = s[(m + 1) + i - 1]
    BY <1>1, SubSeqProperties
<1> QED
    BY <1>2

\* A part of the file is what follows in it, and none is left at its end.
IsPart(part) ==
    /\ part \in Seq(Nat) /\ host.pos + Len(part) <= Len(host.file)
    /\ \A i \in 1 .. Len(part) : part[i] = host.file[host.pos + i]
    /\ part = <<>> <=> host.pos = Len(host.file)

LEMMA PartOfFile ==
    ASSUME RomTyped, NEW size \in Nat \ {0}, host.at \notin ErasePlaces
    PROVE  IsPart(Monitor!Chunk(host.pos, size))
<1> DEFINE last == Monitor!Smaller(host.pos + size, Len(host.file))
           part == SubSeq(host.file, host.pos + 1, last)
<1>1. host.pos \in Nat /\ host.file \in Seq(0 .. 255) /\ Len(host.file) \in Nat /\ host.pos <= Len(host.file)
    BY UploadAssumption DEF RomTyped, Hosts, Reaches
<1>2. last \in Nat /\ host.pos <= last /\ last <= Len(host.file) /\ (last = host.pos <=> host.pos = Len(host.file))
    BY <1>1 DEF Monitor!Smaller
<1> HIDE DEF last
<1>3. /\ part \in Seq(Nat) /\ Len(part) = last - host.pos
      /\ \A i \in 1 .. Len(part) : part[i] = host.file[host.pos + i]
    <2>1. host.file \in Seq(Nat)
        <3>1. \A i \in 1 .. Len(host.file) : host.file[i] \in Nat
            <4>1. \A i \in 1 .. Len(host.file) : host.file[i] \in 0 .. 255
                BY <1>1, ElementOfSeq, Zenon
            <4>2. \A b \in 0 .. 255 : b \in Nat
                OBVIOUS
            <4> QED
                BY <4>1, <4>2, Zenon
        <3> QED
            BY <1>1, <3>1
    <2> QED
        BY <1>1, <1>2, <2>1, ItemsBetween
<1> HIDE DEF part
<1>4. part = <<>> <=> Len(part) = 0
    BY <1>3
<1>5. IsPart(part)
    <2> PICK n, p, e : n = Len(part) /\ p = host.pos /\ e = Len(host.file)
        OBVIOUS
    <2> PICK b : b = last
        OBVIOUS
    <2>1. p \in Nat /\ e \in Nat /\ b \in Nat /\ n = b - p /\ p <= b /\ b <= e /\ (b = p <=> p = e)
        BY <1>1, <1>2, <1>3
    <2>2. p + n <= e /\ (n = 0 <=> p = e)
        BY <2>1
    <2>3. host.pos + Len(part) <= Len(host.file)
        BY <2>2
    <2>4. part = <<>> <=> host.pos = Len(host.file)
        BY <1>4, <2>2
    <2> QED
        BY <1>3, <2>3, <2>4, Zenon DEF IsPart
<1> QED
    BY <1>5 DEF Monitor!Chunk, part, last

\* Also beyond the end of what can be read a chunk is a sequence of bytes, empty.
LEMMA ChunkOfBytes ==
    ASSUME RomTyped
    PROVE  /\ Monitor!Chunk(host.pos, CHUNKSIZE) \in Seq(Nat)
           /\ Len(Monitor!Chunk(host.pos, CHUNKSIZE)) \in Nat
<1> DEFINE last == Monitor!Smaller(host.pos + CHUNKSIZE, Len(host.file))
<1>1. /\ host.pos \in Nat /\ host.file \in Seq(0 .. 255) /\ Len(host.file) \in Nat
      /\ CHUNKSIZE \in Nat
    BY UploadAssumption DEF RomTyped, Hosts
<1>2. last \in Nat /\ last <= Len(host.file)
    BY <1>1 DEF Monitor!Smaller
<1> HIDE DEF last
<1>3. \A i \in host.pos + 1 .. last : host.file[i] \in Nat
    <2> SUFFICES ASSUME NEW i \in host.pos + 1 .. last PROVE host.file[i] \in Nat
        OBVIOUS
    <2>1. i \in 1 .. Len(host.file)
        BY <1>1, <1>2
    <2>2. host.file[i] \in 0 .. 255
        BY <1>1, <2>1, ElementOfSeq, Zenon
    <2> QED
        BY <2>2
<1>4. host.pos + 1 \in Int /\ last \in Int
    BY <1>1, <1>2
<1> PICK part : part = SubSeq(host.file, host.pos + 1, last)
    OBVIOUS
<1>5. part \in Seq(Nat)
    BY <1>3, <1>4, SubSeqProperties, Zenon
<1>6. Len(part) \in Nat
    BY <1>5
<1> QED
    BY <1>5, <1>6 DEF Monitor!Chunk, last

\* The command the flash is told at each place of the uploader.
Told ==
    LET M    == Monitor!Message
        addr == FlashBase + host.pos
        n    == Len(Monitor!Chunk(host.pos, CHUNKSIZE))
    IN /\ M \in Seq(Nat) /\ Len(M) \in Nat /\ Len(M) >= 1
       /\ host.at \in {"erase enable", "program enable"} => M[1] = Monitor!WRITE_ENABLE
       /\ host.at = "erase" => M[1] = Monitor!BLOCK_ERASE /\ M[2] = addr /\ Len(M) = 2
       /\ host.at = "program" => M[1] = Monitor!PAGE_PROGRAM /\ M[2] = addr /\ Len(M) = 2 + n
       /\ host.at = "read" => M[1] = Monitor!FASTREAD /\ M[2] = addr /\ Len(M) = 3 + n
       /\ host.at \in Polls => M[1] = Monitor!READ_STATUS /\ Len(M) = 2

LEMMA MessageTold ==
    ASSUME RomTyped, host.at \in ErasePlaces \cup ProgramPlaces
    PROVE  Told
<1> DEFINE part == Monitor!Chunk(host.pos, CHUNKSIZE)
           addr == FlashBase + host.pos
<1>1. part \in Seq(Nat) /\ Len(part) \in Nat /\ addr \in Nat
    <2>2. part \in Seq(Nat)
        BY ChunkOfBytes
    <2>3. host.pos \in Nat /\ FlashBase \in Nat
        BY UploadAssumption DEF RomTyped, Hosts
    <2> HIDE DEF part
    <2> QED
        BY <2>2, <2>3
<1> HIDE DEF part, addr
<1> USE DEF Monitor!WRITE_ENABLE, Monitor!BLOCK_ERASE, Monitor!PAGE_PROGRAM, Monitor!FASTREAD,
            Monitor!READ_STATUS
<1>2. CASE host.at \in {"erase enable", "program enable"}
    <2>1. Monitor!Message = << 6 >>
        BY <1>2 DEF Monitor!Message
    <2>2. << 6 >> \in Seq(Nat) /\ Len(<< 6 >>) = 1 /\ Len(<< 6 >>) >= 1 /\ Len(<< 6 >>) \in Nat /\ << 6 >>[1] = 6
        OBVIOUS
    <2> QED
        BY <1>2, <2>1, <2>2 DEF Told, Polls
<1>3. CASE host.at = "erase"
    <2>1. Monitor!Message = <<216, addr>>
        BY <1>3 DEF Monitor!Message, addr
    <2> QED
        BY <1>1, <1>3, <2>1 DEF Told, Polls, addr
<1>4. CASE host.at = "program"
    <2>1. Monitor!Message = <<2, addr>> \o part
        BY <1>4 DEF Monitor!Message, addr, part
    <2> QED
        BY <1>1, <1>4, <2>1 DEF Told, Polls, addr, part
<1>5. CASE host.at = "read"
    <2>1. Monitor!Message = <<11, addr, 11>> \o part
        BY <1>5 DEF Monitor!Message, addr, part
    <2> QED
        BY <1>1, <1>5, <2>1 DEF Told, Polls, addr, part
<1>6. CASE host.at \in Polls
    <2>1. Monitor!Message = <<5, 5>>
        BY <1>6 DEF Monitor!Message, Polls
    <2>2. <<5, 5>> \in Seq(Nat) /\ Len(<<5, 5>>) = 2 /\ Len(<<5, 5>>) >= 1 /\ Len(<<5, 5>>) \in Nat /\ <<5, 5>>[1] = 5
        OBVIOUS
    <2> QED
        BY <1>6, <2>1, <2>2 DEF Told, Polls
<1> QED
    BY <1>2, <1>3, <1>4, <1>5, <1>6 DEF ErasePlaces, ProgramPlaces, Polls

-----------------------------------------------------------------------------
(* Types. *)

\* What one item handed on to the flash does.
HandedOn ==
    /\ up # <<>> /\ up' = Tail(up) /\ UNCHANGED <<ram, host>>
    /\ \/ /\ rom.at = "slen" /\ Head(up) > 0 /\ flash' = flash /\ down' = down
          /\ rom' = [rom EXCEPT !.at = "sbytes", !.s0 = Head(up), !.s1 = 0]
       \/ /\ rom.at = "slen" /\ ~(Head(up) > 0) /\ EndedAt(flash, flash') /\ down' = down
          /\ rom' = [rom EXCEPT !.at = "main", !.s0 = Head(up), !.s1 = 0]
       \/ /\ rom.at = "sbytes" /\ ~(rom.s1 + 1 >= rom.s0)
          /\ rom' = [rom EXCEPT !.s1 = rom.s1 + 1]
          /\ Takes(flash, Head(up), flash') /\ down' = Append(down, flash'.out)
       \/ /\ rom.at = "sbytes" /\ rom.s1 + 1 >= rom.s0
          /\ rom' = [rom EXCEPT !.at = "main", !.s1 = rom.s1 + 1]
          /\ \E g : /\ Takes(flash, Head(up), g) /\ EndedAt(g, flash')
                    /\ down' = Append(down, g.out) /\ g.out \in Nat

LEMMA ItemHandedOn ==
    ASSUME RomTyped, Monitor!UartToSpi
    PROVE  HandedOn
<1> DEFINE a == Head(up)
           g == Monitor!Exchange(flash, a)
<1>1. /\ up # <<>> /\ a \in Nat /\ FlashTyped(flash) /\ flash.sel
      /\ rom.at \in {"slen", "sbytes"} /\ rom \in Places
    BY DEF RomTyped, Monitor!UartToSpi
<1>2. Takes(flash, a, g)
    BY <1>1, ItemExchanged
<1>3. up' = Tail(up) /\ UNCHANGED <<ram, host>>
    BY DEF Monitor!UartToSpi
<1> HIDE DEF g
<1>4. CASE rom.at = "slen"
    <2>1. /\ rom' = IF 0 >= a THEN [[rom EXCEPT !.at = "sbytes", !.s0 = a, !.s1 = 0] EXCEPT !.at = "main"]
                    ELSE [rom EXCEPT !.at = "sbytes", !.s0 = a, !.s1 = 0]
          /\ down' = down
          /\ flash' \in IF 0 >= a THEN Monitor!Deselect(flash) ELSE {flash}
        BY <1>1, <1>4 DEF Monitor!UartToSpi, Places
    <2>2. CASE 0 >= a
        <3>1. rom' = [rom EXCEPT !.at = "main", !.s0 = a, !.s1 = 0]
            BY <1>1, <2>1, <2>2 DEF Places
        <3>2. EndedAt(flash, flash')
            BY <1>1, <2>1, <2>2, CommandEnded
        <3> QED
            BY <1>1, <1>3, <1>4, <2>1, <2>2, <3>1, <3>2 DEF HandedOn
    <2>3. CASE ~(0 >= a)
        BY <1>1, <1>3, <1>4, <2>1, <2>3 DEF HandedOn
    <2> QED
        BY <2>2, <2>3
<1>5. CASE rom.at = "sbytes"
    <2>1. /\ rom' = IF rom.s1 + 1 >= rom.s0 THEN [[rom EXCEPT !.s1 = rom.s1 + 1] EXCEPT !.at = "main"]
                    ELSE [rom EXCEPT !.s1 = rom.s1 + 1]
          /\ down' = Append(down, g.out)
          /\ flash' \in IF rom.s1 + 1 >= rom.s0 THEN Monitor!Deselect(g) ELSE {g}
        BY <1>1, <1>5 DEF Monitor!UartToSpi, g, Places
    <2>2. FlashTyped(g) /\ g.out \in Nat
        BY <1>2 DEF Takes, FlashTyped
    <2>3. CASE rom.s1 + 1 >= rom.s0
        <3>1. rom' = [rom EXCEPT !.at = "main", !.s1 = rom.s1 + 1]
            BY <1>1, <2>1, <2>3 DEF Places
        <3>2. EndedAt(g, flash')
            BY <2>1, <2>2, <2>3, CommandEnded
        <3> QED
            BY <1>1, <1>2, <1>3, <1>5, <2>1, <2>2, <2>3, <3>1, <3>2, Zenon DEF HandedOn
    <2>4. CASE ~(rom.s1 + 1 >= rom.s0)
        BY <1>1, <1>2, <1>3, <1>5, <2>1, <2>4 DEF HandedOn
    <2> QED
        BY <2>3, <2>4
<1> QED
    BY <1>1, <1>4, <1>5

\* What one item loaded into the RAM does.
LoadedItem ==
    /\ up # <<>> /\ up' = Tail(up) /\ UNCHANGED <<flash, down, host>>
    /\ \/ /\ rom.at = "uaddr" /\ rom'.at = "ulen" /\ rom'.s0 = Head(up) /\ ram' = ram
       \/ /\ rom.at = "ulen" /\ rom'.at = (IF 0 >= Head(up) THEN "main" ELSE "ubytes")
          /\ rom'.s0 = rom.s0 /\ rom'.s1 = Head(up) /\ rom'.s2 = 0 /\ ram' = ram
       \/ /\ rom.at = "ubytes" /\ rom'.at = (IF rom.s2 + 1 >= rom.s1 THEN "main" ELSE "ubytes")
          /\ rom'.s0 = rom.s0 /\ rom'.s1 = rom.s1 /\ rom'.s2 = rom.s2 + 1
          /\ ram' = [ram EXCEPT ![rom.s0 + rom.s2] = Head(up)]

LEMMA ItemLoaded ==
    ASSUME RomTyped, Monitor!LoadFromUart
    PROVE  LoadedItem /\ rom' \in Places
<1> DEFINE a == Head(up)
<1>1. /\ up # <<>> /\ a \in Nat /\ rom.at \in {"uaddr", "ulen", "ubytes"} /\ rom \in Places
      /\ up' = Tail(up) /\ UNCHANGED <<flash, down, host>>
    BY DEF RomTyped, Monitor!LoadFromUart
<1>2. CASE rom.at = "uaddr"
    <2>1. rom' = [rom EXCEPT !.at = "ulen", !.s0 = a] /\ ram' = ram
        BY <1>2 DEF Monitor!LoadFromUart
    <2> QED
        BY <1>1, <1>2, <2>1 DEF LoadedItem, Places
<1>3. CASE rom.at = "ulen"
    <2> DEFINE next == [rom EXCEPT !.s1 = a, !.s2 = 0]
    <2>1. rom' = [next EXCEPT !.at = IF next.s2 >= next.s1 THEN "main" ELSE "ubytes"] /\ ram' = ram
        BY <1>3 DEF Monitor!LoadFromUart
    <2>2. next \in Places /\ next.s1 = a /\ next.s2 = 0 /\ next.s0 = rom.s0
        BY <1>1 DEF Places
    <2> HIDE DEF next
    <2> QED
        BY <1>1, <1>3, <2>1, <2>2 DEF LoadedItem, Places
<1>4. CASE rom.at = "ubytes"
    <2> DEFINE next == [rom EXCEPT !.s2 = rom.s2 + 1]
    <2>1. /\ rom' = [next EXCEPT !.at = IF next.s2 >= next.s1 THEN "main" ELSE "ubytes"]
          /\ ram' = [ram EXCEPT ![rom.s0 + rom.s2] = a]
        BY <1>4 DEF Monitor!LoadFromUart
    <2>2. next \in Places /\ next.s1 = rom.s1 /\ next.s2 = rom.s2 + 1 /\ next.s0 = rom.s0
        BY <1>1 DEF Places
    <2> HIDE DEF next
    <2> QED
        BY <1>1, <1>4, <2>1, <2>2 DEF LoadedItem, Places
<1> QED
    BY <1>1, <1>2, <1>3, <1>4

\* What has been loaded stays what the flash holds until something is written.
LEMMA TypesKeptByMonitor ==
    ASSUME RomTyped, Monitor!Monitor \/ Monitor!Return
    PROVE  RomTyped'
<1>0. /\ rom \in Places /\ DOMAIN ram = 0 .. FlashSize - 1 /\ FlashTyped(flash) /\ up \in Seq(Nat)
      /\ down \in Seq(Nat) /\ host \in Hosts /\ Reaches(host)
      /\ host.at \in ErasePlaces \cup ProgramPlaces \/ host.wait = 0
    BY DEF RomTyped
<1>1. CASE Monitor!Command
    <2>1. up # <<>> /\ Head(up) \in Nat /\ up' = Tail(up) /\ up' \in Seq(Nat) /\ UNCHANGED <<ram, down, host>>
        BY <1>0, <1>1 DEF Monitor!Command
    <2>2. rom' \in Places /\ rom'.at = Monitor!Begins(Head(up)) /\ rom.at = "main"
        BY <1>0, <1>1 DEF Monitor!Command, Monitor!Begins, Places
    <2>3. ~flash.sel /\ flash.got = <<>>
        BY <2>2 DEF RomTyped
    <2>4. CASE Head(up) = Monitor!S
        <3>1. rom'.at = "slen"
            BY <2>2, <2>4 DEF Monitor!Begins, Monitor!S, Monitor!U, Monitor!C
        <3>2. flash' = [flash EXCEPT !.sel = TRUE]
            BY <1>1, <2>4 DEF Monitor!Command, Monitor!Select
        <3>3. FlashTyped(flash') /\ flash'.sel
            BY <1>0, <3>2 DEF FlashTyped
        <3> QED
            BY <1>0, <2>1, <2>2, <3>1, <3>3 DEF RomTyped, Lost
    <2>5. CASE Head(up) # Monitor!S
        <3>1. rom'.at \in {"uaddr", "caddr", "main"}
            BY <2>2, <2>5 DEF Monitor!Begins
        <3>2. flash' = flash
            BY <1>1, <2>5 DEF Monitor!Command
        <3> QED
            BY <1>0, <2>1, <2>2, <2>3, <3>1, <3>2 DEF RomTyped, Lost
    <2> QED
        BY <2>4, <2>5
<1>2. CASE Monitor!LoadFromUart
    <2>1. LoadedItem /\ rom' \in Places
        BY <1>2, ItemLoaded
    <2>2. rom.at \in {"uaddr", "ulen", "ubytes"} /\ UNCHANGED <<flash, down, host>> /\ up' \in Seq(Nat)
        BY <1>0, <2>1 DEF LoadedItem
    <2>3. rom'.at \in {"ulen", "ubytes", "main"}
        BY <2>1 DEF LoadedItem
    <2>4. DOMAIN ram' = 0 .. FlashSize - 1
        BY <1>0, <2>1 DEF LoadedItem
    <2>5. ~flash.sel /\ flash.got = <<>>
        BY <2>2 DEF RomTyped
    <2> QED
        BY <1>0, <2>1, <2>2, <2>3, <2>4, <2>5 DEF RomTyped, Lost
<1>3. CASE Monitor!Call
    <2>1. up' \in Seq(Nat) /\ UNCHANGED <<ram, flash, down, host>> /\ rom.at = "caddr"
        BY <1>0, <1>3 DEF Monitor!Call
    <2>2. rom' = [rom EXCEPT !.at = "run", !.by = "call"]
        BY <1>3 DEF Monitor!Call
    <2>3. rom' \in Places /\ rom'.at = "run" /\ rom'.by = "call"
        BY <1>0, <2>2 DEF Places
    <2> QED
        BY <1>0, <2>1, <2>3 DEF RomTyped, Lost
<1>4. CASE Monitor!Return
    <2>1. UNCHANGED <<ram, flash, up, down, host>> /\ rom.at = "run" /\ rom' \in Places /\ rom'.at = "main"
        BY <1>0, <1>4 DEF Monitor!Return, Places
    <2> QED
        BY <1>0, <2>1 DEF RomTyped, Lost
<1>5. CASE Monitor!UartToSpi
    <2>1. HandedOn
        BY <1>5, ItemHandedOn
    <2>2. up' \in Seq(Nat) /\ Head(up) \in Nat /\ UNCHANGED <<ram, host>>
        BY <1>0, <2>1 DEF HandedOn
    <2>3. rom.at \in {"slen", "sbytes"} /\ flash.sel
        BY <2>1 DEF HandedOn, RomTyped
    <2>4. /\ rom' \in Places /\ FlashTyped(flash')
          /\ \/ rom'.at = "sbytes" /\ flash'.sel
             \/ rom'.at = "main" /\ ~flash'.sel /\ flash'.got = <<>>
        <3>1. CASE rom.at = "slen" /\ Head(up) > 0
            <4>1. flash' = flash /\ rom' = [rom EXCEPT !.at = "sbytes", !.s0 = Head(up), !.s1 = 0]
                BY <2>1, <3>1 DEF HandedOn
            <4> QED
                BY <1>0, <2>2, <2>3, <4>1 DEF Places
        <3>2. CASE rom.at = "slen" /\ ~(Head(up) > 0)
            <4>1. EndedAt(flash, flash') /\ rom' = [rom EXCEPT !.at = "main", !.s0 = Head(up), !.s1 = 0]
                BY <2>1, <3>2 DEF HandedOn
            <4> QED
                BY <1>0, <2>2, <4>1 DEF Places, EndedAt
        <3>3. CASE rom.at = "sbytes" /\ ~(rom.s1 + 1 >= rom.s0)
            <4>1. Takes(flash, Head(up), flash') /\ rom' = [rom EXCEPT !.s1 = rom.s1 + 1]
                BY <2>1, <3>3 DEF HandedOn
            <4>2. rom' \in Places /\ rom'.at = "sbytes"
                <5>1. rom.s1 + 1 \in Nat
                    BY <1>0 DEF Places
                <5> QED
                    BY <1>0, <3>3, <4>1, <5>1 DEF Places
            <4>3. FlashTyped(flash') /\ flash'.sel
                BY <4>1 DEF Takes
            <4> QED
                BY <4>2, <4>3
        <3>4. CASE rom.at = "sbytes" /\ rom.s1 + 1 >= rom.s0
            <4>1. /\ \E g : EndedAt(g, flash')
                  /\ rom' = [rom EXCEPT !.at = "main", !.s1 = rom.s1 + 1]
                BY <2>1, <3>4 DEF HandedOn
            <4>2. rom' \in Places /\ rom'.at = "main"
                <5>1. rom.s1 + 1 \in Nat
                    BY <1>0 DEF Places
                <5> QED
                    BY <1>0, <4>1, <5>1 DEF Places
            <4>3. FlashTyped(flash') /\ ~flash'.sel /\ flash'.got = <<>>
                BY <4>1 DEF EndedAt
            <4> QED
                BY <4>2, <4>3
        <3> QED
            BY <2>3, <3>1, <3>2, <3>3, <3>4
    <2>5. down' \in Seq(Nat)
        <3>1. down' = down \/ \E b \in Nat : down' = Append(down, b)
            <4>1. CASE rom.at = "slen"
                BY <2>1, <4>1 DEF HandedOn
            <4>2. CASE rom.at = "sbytes" /\ ~(rom.s1 + 1 >= rom.s0)
                <5>1. FlashTyped(flash') /\ down' = Append(down, flash'.out)
                    BY <2>1, <2>4, <4>2 DEF HandedOn
                <5>2. flash'.out \in Nat
                    BY <5>1 DEF FlashTyped
                <5> QED
                    BY <5>1, <5>2
            <4>3. CASE rom.at = "sbytes" /\ rom.s1 + 1 >= rom.s0
                BY <2>1, <4>3 DEF HandedOn
            <4> QED
                BY <2>3, <4>1, <4>2, <4>3
        <3>2. down \in Seq(Nat) /\ \A b \in Nat : Append(down, b) \in Seq(Nat)
            BY <1>0
        <3> QED
            BY <3>1, <3>2, Zenon
    <2> QED
        BY <1>0, <2>2, <2>4, <2>5 DEF RomTyped, Lost
<1> QED
    BY <1>1, <1>2, <1>3, <1>4, <1>5 DEF Monitor!Monitor

\* Where an answer of the flash takes the uploader.
AnswerTaken ==
    LET part   == Monitor!Chunk(host.pos, CHUNKSIZE)
        answer == SubSeq(down, 1, host.wait)
        On(from, to) == host.at = from /\ host'.at = to
    IN /\ host' \in Hosts /\ host'.file = host.file /\ host'.size = host.size /\ host'.task = host.task
       /\ host'.send = host.send /\ host'.wait = 0
       /\ \/ /\ host.at # "read" /\ host'.mismatch = host.mismatch
             /\ \/ /\ host'.pos = host.pos
                   /\ \/ On("erase enable", "erase") \/ On("erase", "erase busy")
                      \/ On("erase busy", "erase busy") \/ On("program enable", "program")
                      \/ On("program", "program busy") \/ On("program busy", "program busy")
                      \/ On("program busy", "read busy") \/ On("read busy", "read busy")
                      \/ On("read busy", "read") /\ answer[2] # 1
                \/ /\ On("erase busy", "erase enable") /\ host'.pos = host.pos + BLOCK
                   /\ host.pos + BLOCK < host.size
                \/ On("erase busy", "program enable") /\ host'.pos = 0
          \/ /\ host.at = "read" /\ host'.pos = host.pos + Len(part)
             /\ host'.at = (IF part = <<>> THEN "end" ELSE "program enable")
             /\ ~host'.mismatch => ~host.mismatch /\ Monitor!Compares(answer, part)

LEMMA SumInNat == \A m \in Nat, n \in Nat : m + n \in Nat
OBVIOUS

LEMMA ReceiveTaken ==
    ASSUME RomTyped, Monitor!Receive
    PROVE  AnswerTaken
<1> DEFINE answer == SubSeq(down, 1, host.wait)
           part   == Monitor!Chunk(host.pos, CHUNKSIZE)
           To(at) == [host EXCEPT !.at = at, !.wait = 0]
<1>1. /\ host \in Hosts /\ host.pos \in Nat /\ BLOCK \in Nat /\ Len(part) \in Nat /\ host.mismatch \in BOOLEAN
      /\ host.at \in ErasePlaces \cup ProgramPlaces
    BY ChunkOfBytes, UploadAssumption DEF RomTyped, Hosts, Monitor!Receive
<1>2. host' = Monitor!After(answer)
    BY DEF Monitor!Receive
<1>3. ASSUME NEW at \in ErasePlaces \cup ProgramPlaces \cup {"end"}
      PROVE  /\ To(at) \in Hosts /\ To(at).at = at /\ To(at).wait = 0 /\ To(at).pos = host.pos
             /\ To(at).file = host.file /\ To(at).size = host.size /\ To(at).task = host.task /\ To(at).send = host.send
             /\ To(at).mismatch = host.mismatch
    BY <1>1 DEF Hosts
<1> HIDE DEF answer, part, To
<1> USE DEF ErasePlaces, ProgramPlaces
<1>4. CASE host.at = "erase enable"
    <2>1. host' = To("erase")
        BY <1>2, <1>4 DEF Monitor!After, To
    <2> QED
        BY <1>3, <1>4, <2>1 DEF AnswerTaken
<1>5. CASE host.at = "erase"
    <2>1. host' = To("erase busy")
        BY <1>2, <1>5 DEF Monitor!After, To
    <2> QED
        BY <1>3, <1>5, <2>1 DEF AnswerTaken
<1>6. CASE host.at = "erase busy"
    <2>1. CASE answer[2] = 1
        <3>1. host' = To("erase busy")
            BY <1>2, <1>6, <2>1 DEF Monitor!After, To
        <3> QED
            BY <1>3, <1>6, <3>1 DEF AnswerTaken
    <2>2. CASE answer[2] # 1 /\ host.pos + BLOCK < host.size
        <3>1. host' = [To("erase enable") EXCEPT !.pos = @ + BLOCK]
            BY <1>2, <1>6, <2>2 DEF Monitor!After, To
        <3>2. host.pos + BLOCK \in Nat
            BY <1>1, SumInNat, Zenon
        <3>3. /\ host' \in Hosts /\ host'.at = "erase enable" /\ host'.wait = 0 /\ host'.pos = host.pos + BLOCK
              /\ host'.file = host.file /\ host'.size = host.size /\ host'.task = host.task /\ host'.send = host.send
              /\ host'.mismatch = host.mismatch
            <4> DEFINE old == To("erase enable")
            <4>1. old \in Hosts /\ host' = [old EXCEPT !.pos = host.pos + BLOCK]
                BY <1>3, <3>1
            <4>2. host' \in Hosts /\ host'.pos = host.pos + BLOCK /\ host'.at = old.at /\ host'.wait = old.wait
                  /\ host'.file = old.file /\ host'.size = old.size /\ host'.task = old.task /\ host'.send = old.send
                  /\ host'.mismatch = old.mismatch
                <5> HIDE DEF old
                <5> QED
                    BY <3>2, <4>1 DEF Hosts
            <4> QED
                BY <1>3, <4>2
        <3> QED
            BY <1>6, <2>2, <3>3 DEF AnswerTaken
    <2>3. CASE answer[2] # 1 /\ ~(host.pos + BLOCK < host.size)
        <3>1. host' = [To("program enable") EXCEPT !.pos = 0]
            BY <1>2, <1>6, <2>3 DEF Monitor!After, To
        <3>2. /\ host' \in Hosts /\ host'.at = "program enable" /\ host'.wait = 0 /\ host'.pos = 0
              /\ host'.file = host.file /\ host'.size = host.size /\ host'.task = host.task /\ host'.send = host.send
              /\ host'.mismatch = host.mismatch
            <4> DEFINE old == To("program enable")
            <4>1. old \in Hosts /\ host' = [old EXCEPT !.pos = 0]
                BY <1>3, <3>1
            <4>2. host' \in Hosts /\ host'.pos = 0 /\ host'.at = old.at /\ host'.wait = old.wait
                  /\ host'.file = old.file /\ host'.size = old.size /\ host'.task = old.task /\ host'.send = old.send
                  /\ host'.mismatch = old.mismatch
                <5> HIDE DEF old
                <5> QED
                    BY <4>1 DEF Hosts
            <4> QED
                BY <1>3, <4>2
        <3> QED
            BY <1>6, <3>2 DEF AnswerTaken
    <2> QED
        BY <2>1, <2>2, <2>3
<1>7. CASE host.at = "program enable"
    <2>1. host' = To("program")
        BY <1>2, <1>7 DEF Monitor!After, To
    <2> QED
        BY <1>3, <1>7, <2>1 DEF AnswerTaken
<1>8. CASE host.at = "program"
    <2>1. host' = To("program busy")
        BY <1>2, <1>8 DEF Monitor!After, To
    <2> QED
        BY <1>3, <1>8, <2>1 DEF AnswerTaken
<1>9. CASE host.at = "program busy"
    <2>1. CASE host' = To("program busy")
        BY <1>3, <1>9, <2>1 DEF AnswerTaken
    <2>2. CASE host' = To("read busy")
        BY <1>3, <1>9, <2>2 DEF AnswerTaken
    <2>3. host' = To("program busy") \/ host' = To("read busy")
        BY <1>2, <1>9 DEF Monitor!After, To
    <2> QED
        BY <2>1, <2>2, <2>3
<1>10. CASE host.at = "read busy"
    <2>1. CASE host' = To("read busy")
        BY <1>3, <1>10, <2>1 DEF AnswerTaken
    <2>2. CASE host' = To("read") /\ answer[2] # 1
        BY <1>3, <1>10, <2>2 DEF AnswerTaken, answer
    <2>3. host' = To("read busy") \/ (host' = To("read") /\ answer[2] # 1)
        BY <1>2, <1>10 DEF Monitor!After, To
    <2> QED
        BY <2>1, <2>2, <2>3
<1>11. CASE host.at = "read"
    <2> DEFINE next == IF part = <<>> THEN "end" ELSE "program enable"
               bad  == host.mismatch \/ ~Monitor!Compares(answer, part)
    <2>1. host' = [To(next) EXCEPT !.pos = host.pos + Len(part), !.mismatch = bad]
        BY <1>1, <1>2, <1>11 DEF Monitor!After, To, part, Hosts
    <2>2. host.pos + Len(part) \in Nat /\ bad \in BOOLEAN
        BY <1>1, SumInNat, Zenon
    <2> HIDE DEF bad
    <2>3. /\ host' \in Hosts /\ host'.at = next /\ host'.wait = 0 /\ host'.pos = host.pos + Len(part)
          /\ host'.file = host.file /\ host'.size = host.size /\ host'.task = host.task /\ host'.send = host.send
          /\ host'.mismatch = bad
        <3> DEFINE old == To(next)
        <3>1. old \in Hosts /\ host' = [old EXCEPT !.pos = host.pos + Len(part), !.mismatch = bad]
            BY <1>3, <2>1
        <3>2. host' \in Hosts /\ host'.pos = host.pos + Len(part) /\ host'.at = old.at /\ host'.wait = old.wait
              /\ host'.file = old.file /\ host'.size = old.size /\ host'.task = old.task /\ host'.send = old.send
              /\ host'.mismatch = bad
            <4> HIDE DEF old
            <4> QED
                BY <2>2, <3>1 DEF Hosts
        <3> QED
            BY <1>3, <3>2
    <2>4. ~bad => ~host.mismatch /\ Monitor!Compares(answer, part)
        BY DEF bad
    <2> QED
        BY <1>11, <2>3, <2>4 DEF AnswerTaken, answer, part
<1> QED
    BY <1>1, <1>4, <1>5, <1>6, <1>7, <1>8, <1>9, <1>10, <1>11

\* The uploader's steps leave the monitor and what it has loaded alone.
LEMMA TypesKeptByUploader ==
    ASSUME RomTyped, Monitor!Uploader
    PROVE  RomTyped'
<1>0. /\ rom \in Places /\ DOMAIN ram = 0 .. FlashSize - 1 /\ FlashTyped(flash) /\ up \in Seq(Nat)
      /\ down \in Seq(Nat) /\ host \in Hosts /\ Reaches(host) /\ host.pos \in Nat
      /\ <<>> \in Seq(Nat) /\ Len(host.file) \in Nat /\ host.size \in Nat /\ host.send \in Seq(Nat)
      /\ host.at \in ErasePlaces \cup ProgramPlaces \/ host.wait = 0
    BY UploadAssumption DEF RomTyped, Hosts
<1>1. CASE Monitor!ToggleReset
    <2>1. rom' = Monitor!Start /\ UNCHANGED ram /\ up' = <<>> /\ down' = <<>>
          /\ flash' = [flash EXCEPT !.sel = FALSE, !.got = <<>>]
        BY <1>1 DEF Monitor!ToggleReset
    <2>2. FlashTyped(flash') /\ flash'.sel = FALSE /\ flash'.got = <<>>
        BY <1>0, <2>1 DEF FlashTyped
    <2>3. rom' \in Places /\ rom'.at = "main"
        BY <2>1 DEF Places, Monitor!Start
    <2>4. /\ host' \in Hosts /\ host'.pos = host.pos /\ host'.file = host.file /\ host'.wait = host.wait
          /\ host'.size = host.size /\ host.at = "start"
        <3>1. PICK at \in {"upload", "program enable", "erase enable"} : host' = [host EXCEPT !.at = at]
            BY <1>1 DEF Monitor!ToggleReset, Monitor!FirstPlaces
        <3> QED
            BY <1>0, <1>1, <3>1 DEF Monitor!ToggleReset, Hosts, ErasePlaces, ProgramPlaces
    <2>5. Reaches(host')
        <3>1. host.pos <= Len(host.file) /\ Len(host.file) <= host.size /\ FlashBase + host.size <= FlashSize
            BY <1>0, <2>4 DEF Reaches, ErasePlaces
        <3>2. host.pos <= host.size
            BY <1>0, <3>1
        <3> QED
            BY <2>4, <3>1, <3>2 DEF Reaches
    <2> QED
        BY <1>0, <2>1, <2>2, <2>3, <2>4, <2>5 DEF RomTyped, Lost, ErasePlaces, ProgramPlaces
<1> DEFINE Still == UNCHANGED <<rom, ram, flash>>
<1>2. ASSUME Still, up' \in Seq(Nat), down' \in Seq(Nat), host' \in Hosts, Reaches(host'),
             host'.at \in ErasePlaces \cup ProgramPlaces \/ host'.wait = 0
      PROVE  RomTyped'
    BY <1>0, <1>2 DEF RomTyped, Lost
<1>3. CASE Monitor!HostSends
    <2>1. Still /\ down' = down /\ up' = Append(up, Head(host.send)) /\ host.send # <<>>
          /\ host' = [host EXCEPT !.send = Tail(host.send)]
        BY <1>3 DEF Monitor!HostSends
    <2>2. Head(host.send) \in Nat /\ Tail(host.send) \in Seq(Nat) /\ up' \in Seq(Nat)
        BY <1>0, <2>1
    <2>3. host' \in Hosts /\ host'.pos = host.pos /\ host'.file = host.file
          /\ host'.size = host.size /\ host'.at = host.at /\ host'.wait = host.wait
        BY <1>0, <2>1, <2>2 DEF Hosts
    <2>4. Reaches(host')
        BY <1>0, <2>3 DEF Reaches
    <2> QED
        BY <1>0, <1>2, <2>1, <2>2, <2>3, <2>4
<1>4. CASE Monitor!UploadFile
    <2> DEFINE part == Monitor!Chunk(host.pos, UPLOADSIZE)
               items == <<Monitor!U, host.pos, Len(part)>> \o part
    <2>1. IsPart(part) /\ Len(part) \in Nat /\ part \in Seq(Nat) /\ host.pos + Len(part) <= Len(host.file)
        <3>1. IsPart(part)
            BY <1>4, PartOfFile, UploadAssumption DEF Monitor!UploadFile, ErasePlaces
        <3> HIDE DEF part
        <3> QED
            BY <3>1 DEF IsPart
    <2>2. Still /\ up' = up /\ down' = down
        BY <1>4 DEF Monitor!UploadFile
    <2>2a. PICK last : last = IF Monitor!ReadFails THEN <<>> ELSE <<Monitor!C, 0>>
        OBVIOUS
    <2>3. \/ host' = [host EXCEPT !.at = "end", !.send = last, !.wait = 0]
          \/ host' = [[host EXCEPT !.at = "upload", !.send = items, !.wait = 0]
                        EXCEPT !.pos = host.pos + Len(part)]
        BY <1>0, <1>4, <2>2a DEF Monitor!UploadFile, Monitor!Sends, Hosts
    <2> HIDE DEF part
    <2>4. items \in Seq(Nat) /\ last \in Seq(Nat)
        BY <1>0, <2>1, <2>2a DEF Monitor!U, Monitor!C
    <2> HIDE DEF items
    <2>5. host' \in Hosts /\ host'.file = host.file /\ host'.pos \in {host.pos, host.pos + Len(part)}
          /\ host'.wait = 0 /\ host'.size = host.size /\ host'.at \in {"upload", "end"}
        <3>1. host.pos + Len(part) \in Nat
            BY <1>0, <2>1
        <3>2. CASE host' = [host EXCEPT !.at = "end", !.send = last, !.wait = 0]
            <4> DEFINE old == [host EXCEPT !.at = "end", !.send = last, !.wait = 0]
            <4>1. old \in Hosts /\ old.file = host.file /\ old.wait = 0 /\ old.size = host.size
                  /\ old.at = "end" /\ old.pos = host.pos
                BY <1>0, <2>4 DEF Hosts
            <4> HIDE DEF old
            <4>2. host' = old
                BY <3>2 DEF old
            <4> QED
                BY <4>1, <4>2
        <3>3. CASE host' = [[host EXCEPT !.at = "upload", !.send = items, !.wait = 0]
                        EXCEPT !.pos = host.pos + Len(part)]
            <4> DEFINE old == [host EXCEPT !.at = "upload", !.send = items, !.wait = 0]
            <4>1. old \in Hosts /\ old.file = host.file /\ old.wait = 0 /\ old.size = host.size
                  /\ old.at = "upload"
                BY <1>0, <2>4 DEF Hosts
            <4> HIDE DEF old
            <4>2. host' = [old EXCEPT !.pos = host.pos + Len(part)]
                BY <3>3 DEF old
            <4>3. /\ host' \in Hosts /\ host'.at = "upload" /\ host'.wait = 0
                  /\ host'.pos = host.pos + Len(part) /\ host'.file = host.file /\ host'.size = host.size
                BY <3>1, <4>1, <4>2 DEF Hosts
            <4> QED
                BY <4>3
        <3> QED
            BY <2>3, <3>2, <3>3
    <2>6. Reaches(host')
        <3>1. host.at = "upload"
            BY <1>4 DEF Monitor!UploadFile
        <3>2. host'.pos <= Len(host'.file)
            BY <1>0, <2>1, <2>5, <3>1 DEF Reaches, ErasePlaces
        <3> QED
            BY <1>0, <2>5, <3>2 DEF Reaches, ErasePlaces
    <2> QED
        BY <1>0, <1>2, <2>2, <2>5, <2>6
<1>5. CASE Monitor!WriteToSPI
    <2> DEFINE M == Monitor!Message
    <2>1. Still /\ up' = up /\ down' = <<>>
          /\ host' = [host EXCEPT !.at = host.at, !.send = <<Monitor!S, Len(M)>> \o M, !.wait = Len(M)]
        BY <1>5 DEF Monitor!WriteToSPI, Monitor!Sends
    <2>2. host.at \in ErasePlaces \cup ProgramPlaces
        BY <1>0, <1>5 DEF Monitor!WriteToSPI, Hosts
    <2>3. M \in Seq(Nat) /\ Len(M) \in Nat
        BY <2>2, MessageTold DEF Told
    <2> HIDE DEF M
    <2>4. <<Monitor!S, Len(M)>> \o M \in Seq(Nat)
        BY <2>3 DEF Monitor!S
    <2>5. host' \in Hosts /\ host'.pos = host.pos /\ host'.file = host.file
          /\ host'.at = host.at /\ host'.size = host.size
        BY <1>0, <2>1, <2>3, <2>4 DEF Hosts
    <2>6. Reaches(host')
        BY <1>0, <2>5 DEF Reaches
    <2> QED
        BY <1>0, <1>2, <2>1, <2>2, <2>5, <2>6
<1>6. CASE Monitor!Receive
    <2> DEFINE part == Monitor!Chunk(host.pos, CHUNKSIZE)
    <2>1. Still /\ up' = up /\ down' = <<>>
        BY <1>6 DEF Monitor!Receive
    <2>2. host.at = "read" => host.pos + Len(part) <= Len(host.file)
        <3> SUFFICES ASSUME host.at = "read" PROVE host.pos + Len(part) <= Len(host.file)
            OBVIOUS
        <3>1. IsPart(part)
            BY PartOfFile, UploadAssumption DEF ErasePlaces
        <3> QED
            BY <3>1 DEF IsPart
    <2>3. AnswerTaken
        BY <1>6, ReceiveTaken
    <2> HIDE DEF part
    <2>4. /\ host' \in Hosts /\ host'.file = host.file /\ host'.size = host.size /\ host'.wait = 0
          /\ \/ host'.pos = host.pos /\ (host'.at \in ErasePlaces <=> host.at \in ErasePlaces)
             \/ host'.pos = 0 /\ host'.at \notin ErasePlaces
             \/ /\ host'.pos = host.pos + Len(part) /\ host.at = "read"
                /\ host'.at \notin ErasePlaces
             \/ /\ host'.pos = host.pos + BLOCK /\ host.pos + BLOCK < host.size
                /\ host'.at \in ErasePlaces
        BY <2>3 DEF AnswerTaken, part, ErasePlaces
    <2>5. Reaches(host')
        <3>1. /\ IF host.at \in ErasePlaces THEN host.pos <= host.size ELSE host.pos <= Len(host.file)
              /\ 0 <= Len(host.file) /\ BLOCK \in Nat /\ host.pos + BLOCK \in Nat
            BY <1>0, UploadAssumption DEF Reaches
        <3>2. IF host'.at \in ErasePlaces THEN host'.pos <= host'.size ELSE host'.pos <= Len(host'.file)
            BY <1>0, <2>2, <2>4, <3>1
        <3> QED
            BY <1>0, <2>4, <3>2 DEF Reaches
    <2> QED
        BY <1>0, <1>2, <2>1, <2>4, <2>5
<1> QED
    BY <1>1, <1>3, <1>4, <1>5, <1>6 DEF Monitor!Uploader

-----------------------------------------------------------------------------
(* A file sent into RAM. *)

\* The file can be read, but not to its end.
Broken == host.file # <<>> /\ Len(host.file) # host.size

\* What an item on its way to the monitor is to it: a command, its address or
\* its length, a byte of the file, the address to call, or nothing more; how
\* much of the file comes before it, and where the part ends that it is of.
Marks == [kind : {"command", "address", "length", "byte", "call", "over"}, pos : Nat, end : Nat]

Says(x, i) ==
    /\ x.kind = "command" => Rest[i] = IF x.pos < Len(host.file) THEN Monitor!U ELSE Monitor!C
    /\ x.kind = "address" => Rest[i] = x.pos
    /\ x.kind = "length" => Rest[i] = x.end - x.pos
    /\ x.kind = "byte" => Rest[i] = host.file[x.pos + 1]

Precedes(x, y) ==
    /\ x.kind # "over"
    /\ x.kind = "command" => y.pos = x.pos /\ y.kind = IF x.pos < Len(host.file) THEN "address" ELSE "call"
    /\ x.kind = "address" => y.pos = x.pos /\ y.end = x.end /\ y.kind = "length"
    /\ x.kind = "length" => y.pos = x.pos /\ y.end = x.end /\ y.kind = "byte"
    /\ x.kind = "byte" => /\ y.pos = x.pos + 1
                          /\ IF y.pos < x.end THEN y.kind = "byte" /\ y.end = x.end
                             ELSE y.kind = "command"
    /\ x.kind = "call" => y.pos = x.pos /\ y.kind = "over"

Sound(x) ==
    /\ x.pos <= Len(host.file)
    /\ x.kind \in {"address", "length", "byte"} => x.pos < x.end /\ x.end <= Len(host.file)
    /\ x.kind \in {"call", "over"} => x.pos = Len(host.file) /\ ~Broken

\* What the monitor is waiting for.
Expects(x) ==
    /\ x.kind = "command" => rom.at = "main"
    /\ x.kind = "address" => rom.at = "uaddr"
    /\ x.kind = "length" => rom.at = "ulen" /\ rom.s0 = x.pos
    /\ x.kind = "byte" => rom.at = "ubytes" /\ rom.s0 + rom.s2 = x.pos /\ rom.s0 + rom.s1 = x.end
    /\ x.kind = "call" => rom.at = "caddr"
    /\ x.kind = "over" => rom.at \in {"main", "run"}

\* What the uploader sends next, if it has not come upon a read that fails.
SendsNext(x) ==
    IF host.at = "end" /\ ~Broken THEN x.kind = "over" ELSE x.kind = "command" /\ x.pos = host.pos

Loaded(n) == \A i \in 1 .. n : ram[i - 1] = host.file[i]

Marked(l) ==
    /\ \A i \in 1 .. Len(Rest) + 1 : l[i] \in Marks /\ Sound(l[i])
    /\ \A i \in 1 .. Len(Rest) : Says(l[i], i) /\ Precedes(l[i], l[i + 1])
    /\ Expects(l[1]) /\ SendsNext(l[Len(Rest) + 1]) /\ Loaded(l[1].pos)

InOrder == \E l : Marked(l)

UploadInv ==
    /\ host.at \in {"upload", "end"} /\ host.wait = 0 /\ Untouched
    /\ ~Lost => InOrder

LEMMA Joined ==
    ASSUME NEW s \in Seq(Nat), NEW t \in Seq(Nat)
    PROVE  /\ Len(s \o t) = Len(s) + Len(t) /\ \A i \in 1 .. Len(s) : (s \o t)[i] = s[i]
           /\ \A i \in 1 .. Len(t) : (s \o t)[Len(s) + i] = t[i]
OBVIOUS

LEMMA TailJoined ==
    ASSUME NEW s \in Seq(Nat), NEW t \in Seq(Nat), s # <<>>, NEW n, n = Len(s \o t)
    PROVE  /\ n \in Nat /\ n >= 1 /\ (s \o t)[1] = Head(s)
           /\ Len(Tail(s) \o t) = n - 1
           /\ \A i \in 1 .. n - 1 : (Tail(s) \o t)[i] = (s \o t)[i + 1]
<1> PICK r : r = Tail(s)
    OBVIOUS
<1> PICK j, k : j = Len(s) /\ k = Len(t)
    OBVIOUS
<1>1. /\ j \in Nat /\ j >= 1 /\ Head(s) = s[1] /\ r \in Seq(Nat) /\ Len(r) = j - 1 /\ k \in Nat
      /\ \A i \in 1 .. j - 1 : r[i] = s[i + 1]
    OBVIOUS
<1>2. /\ Len(s \o t) = j + k /\ \A i \in 1 .. j : (s \o t)[i] = s[i]
      /\ \A i \in 1 .. k : (s \o t)[j + i] = t[i]
    BY Joined, Zenon
<1>3. /\ Len(r \o t) = j - 1 + k /\ \A i \in 1 .. j - 1 : (r \o t)[i] = r[i]
      /\ \A i \in 1 .. k : (r \o t)[j - 1 + i] = t[i]
    <2>1. r \in Seq(Nat) /\ t \in Seq(Nat)
        BY <1>1
    <2>2. /\ Len(r \o t) = Len(r) + Len(t) /\ \A i \in 1 .. Len(r) : (r \o t)[i] = r[i]
          /\ \A i \in 1 .. Len(t) : (r \o t)[Len(r) + i] = t[i]
        BY <2>1, Joined, Zenon
    <2>3. Len(r) = j - 1 /\ Len(t) = k
        BY <1>1
    <2> QED
        BY <2>2, <2>3, Zenon
<1>4. n \in Nat /\ n = j + k /\ n >= 1 /\ Len(r \o t) = n - 1
    BY <1>1, <1>2, <1>3
<1>5. (s \o t)[1] = Head(s)
    BY <1>1, <1>2
<1>6. ASSUME NEW i \in 1 .. n - 1 PROVE (r \o t)[i] = (s \o t)[i + 1]
    <2>1. CASE i <= j - 1
        <3>1. i \in 1 .. j - 1 /\ i + 1 \in 1 .. j
            BY <1>1, <2>1
        <3> QED
            BY <1>1, <1>2, <1>3, <3>1, Zenon
    <2>2. CASE ~(i <= j - 1)
        <3>1. i - (j - 1) \in 1 .. k /\ j - 1 + (i - (j - 1)) = i /\ j + (i - (j - 1)) = i + 1
            BY <1>1, <1>4, <2>2
        <3>2. (r \o t)[j - 1 + (i - (j - 1))] = t[i - (j - 1)] /\ (s \o t)[j + (i - (j - 1))] = t[i - (j - 1)]
            BY <1>2, <1>3, <3>1, Zenon
        <3> QED
            BY <3>1, <3>2, Zenon
    <2> QED
        BY <2>1, <2>2
<1> QED
    BY <1>4, <1>5, <1>6, Zenon

\* The first item under way is the next to be received.
LEMMA FirstItem ==
    ASSUME RomTyped, up # <<>>, up' = Tail(up), host' = host
    PROVE  /\ Len(Rest) \in Nat /\ Len(Rest) >= 1 /\ Rest[1] = Head(up)
           /\ Len(Rest') = Len(Rest) - 1 /\ \A i \in 1 .. Len(Rest') : Rest'[i] = Rest[i + 1]
<1>1. up \in Seq(Nat) /\ host.send \in Seq(Nat)
    BY DEF RomTyped, Hosts
<1>2. Rest = up \o host.send /\ Rest' = Tail(up) \o host.send
    BY DEF Rest
<1> PICK s, t : s = up /\ t = host.send
    OBVIOUS
<1> PICK n : n = Len(s \o t)
    OBVIOUS
<1>3. s \in Seq(Nat) /\ t \in Seq(Nat) /\ s # <<>>
    BY <1>1
<1>4. /\ n \in Nat /\ n >= 1 /\ (s \o t)[1] = Head(s)
      /\ Len(Tail(s) \o t) = n - 1
      /\ \A i \in 1 .. n - 1 : (Tail(s) \o t)[i] = (s \o t)[i + 1]
    BY <1>3, TailJoined
<1>5. Rest = s \o t /\ Rest' = Tail(s) \o t /\ Head(s) = Head(up)
    BY <1>2
<1> QED
    BY <1>4, <1>5, Zenon

LEMMA ItemReceived ==
    ASSUME RomTyped, up # <<>>, up' = Tail(up), host' = host,
           NEW l, Marked(l), Expects(l[2])', Loaded(l[2].pos)'
    PROVE  InOrder'
<1>0. PICK m : m = [i \in 1 .. Len(Rest) |-> l[i + 1]]
    OBVIOUS
<1> PICK n : n = Len(Rest)
    OBVIOUS
<1>1. /\ Len(Rest) \in Nat /\ Len(Rest) >= 1
      /\ Len(Rest') = Len(Rest) - 1 /\ \A i \in 1 .. Len(Rest') : Rest'[i] = Rest[i + 1]
    BY FirstItem
<1>2. m[1] = l[2] /\ m[Len(Rest)] = l[Len(Rest) + 1] /\ \A i \in 1 .. Len(Rest) : m[i] = l[i + 1]
    BY <1>0, <1>1
<1>3. \A i \in 1 .. Len(Rest) : m[i] \in Marks /\ Sound(m[i])'
    <2> SUFFICES ASSUME NEW i \in 1 .. Len(Rest) PROVE m[i] \in Marks /\ Sound(m[i])'
        OBVIOUS
    <2>1. i + 1 \in 1 .. Len(Rest) + 1
        BY <1>1
    <2>2. l[i + 1] \in Marks /\ Sound(l[i + 1])
        BY <2>1 DEF Marked
    <2> QED
        BY <1>2, <2>2 DEF Sound, Broken
<1>4. \A i \in 1 .. Len(Rest) - 1 : Says(m[i], i)' /\ Precedes(m[i], m[i + 1])'
    <2> SUFFICES ASSUME NEW i \in 1 .. Len(Rest) - 1
                 PROVE  Says(m[i], i)' /\ Precedes(m[i], m[i + 1])'
        OBVIOUS
    <2>1. i + 1 \in 1 .. Len(Rest) /\ i \in 1 .. Len(Rest) /\ i \in 1 .. Len(Rest')
        BY <1>1
    <2>2. Says(l[i + 1], i + 1) /\ Precedes(l[i + 1], l[i + 1 + 1])
        BY <2>1 DEF Marked
    <2>3. m[i] = l[i + 1] /\ m[i + 1] = l[i + 1 + 1] /\ Rest'[i] = Rest[i + 1]
        BY <1>1, <1>2, <2>1
    <2> QED
        BY <2>2, <2>3 DEF Says, Precedes
<1>5. Expects(m[1])' /\ Loaded(m[1].pos)'
    BY <1>2
<1>6. SendsNext(m[n])'
    <2>1. SendsNext(l[n + 1]) /\ m[n] = l[n + 1]
        BY <1>2 DEF Marked
    <2> QED
        BY <2>1 DEF SendsNext, Broken
<1>7. Marked(m)'
    <2>1. Len(Rest') + 1 = Len(Rest) /\ Len(Rest') = Len(Rest) - 1
        BY <1>1
    <2>2. \A i \in 1 .. Len(Rest') + 1 : m[i] \in Marks /\ Sound(m[i])'
        BY <2>1, <1>3
    <2>3. \A i \in 1 .. Len(Rest') : Says(m[i], i)' /\ Precedes(m[i], m[i + 1])'
        BY <2>1, <1>4
    <2>4. SendsNext(m[Len(Rest) + 1])'
        BY <2>1, <1>6
    <2> QED
        BY <1>5, <2>2, <2>3, <2>4, Zenon DEF Marked
<1> QED
    BY <1>7 DEF InOrder

\* The mark of the item received, and of the one behind it.
LEMMA MarksOfFirst ==
    ASSUME RomTyped, up # <<>>, up' = Tail(up), host' = host, NEW l, Marked(l)
    PROVE  /\ l[1] \in Marks /\ l[2] \in Marks /\ Sound(l[1]) /\ Sound(l[2])
           /\ Says(l[1], 1) /\ Precedes(l[1], l[2]) /\ Expects(l[1]) /\ Loaded(l[1].pos)
           /\ Rest[1] = Head(up)
<1>1. Len(Rest) \in Nat /\ Len(Rest) >= 1 /\ Rest[1] = Head(up)
    BY FirstItem
<1>2. 1 \in 1 .. Len(Rest) + 1 /\ 2 \in 1 .. Len(Rest) + 1 /\ 1 \in 1 .. Len(Rest) /\ 1 + 1 = 2
    BY <1>1
<1>3. Precedes(l[1], l[1 + 1]) /\ Says(l[1], 1)
    BY <1>2 DEF Marked
<1> QED
    BY <1>1, <1>2, <1>3 DEF Marked

\* The monitor takes each item for what it is.
LEMMA MonitorFollows ==
    ASSUME RomTyped, UploadInv, Monitor!Monitor \/ Monitor!Return
    PROVE  UploadInv'
<1>0. /\ rom \in Places /\ DOMAIN ram = 0 .. FlashSize - 1 /\ up \in Seq(Nat) /\ host \in Hosts
      /\ FlashSize \in Nat /\ FlashBase \in Nat /\ FlashBase + Len(host.file) <= FlashSize
      /\ Len(host.file) \in Nat
    <2>1. /\ FlashSize \in Nat /\ FlashBase \in Nat /\ Len(host.file) \in Nat /\ host.size \in Nat
          /\ Len(host.file) <= host.size /\ FlashBase + host.size <= FlashSize
        BY UploadAssumption DEF RomTyped, Hosts, Reaches
    <2>2. FlashBase + Len(host.file) <= FlashSize
        BY <2>1
    <2> QED
        BY <2>1, <2>2 DEF RomTyped
<1>1. ~Lost /\ host' = host
    BY DEF Monitor!Monitor, Monitor!Command, Monitor!LoadFromUart, Monitor!Call, Monitor!UartToSpi,
           Monitor!Return, Lost
<1>2. PICK l : Marked(l)
    BY <1>1 DEF UploadInv, InOrder
<1>3. CASE Monitor!Command
    <2>1. up # <<>> /\ up' = Tail(up) /\ rom.at = "main" /\ ram' = ram
          /\ rom' = [rom EXCEPT !.at = Monitor!Begins(Head(up))]
        BY <1>3 DEF Monitor!Command
    <2>2. /\ l[1] \in Marks /\ l[2] \in Marks /\ Sound(l[1]) /\ Sound(l[2])
          /\ Says(l[1], 1) /\ Precedes(l[1], l[2]) /\ Expects(l[1]) /\ Loaded(l[1].pos)
          /\ Rest[1] = Head(up)
        BY <1>1, <1>2, <2>1, MarksOfFirst
    <2>3. l[1].kind = "command" /\ l[2].pos = l[1].pos
        BY <2>1, <2>2 DEF Precedes, Expects, Marks
    <2>4. \/ Head(up) = Monitor!U /\ l[2].kind = "address"
          \/ Head(up) = Monitor!C /\ l[2].kind = "call"
        BY <2>2, <2>3 DEF Says, Precedes
    <2>5. Expects(l[2])' /\ flash' = flash
        <3>1. /\ rom'.at = Monitor!Begins(Head(up))
              /\ flash' = IF Head(up) = Monitor!S THEN Monitor!Select(flash) ELSE flash
            BY <1>0, <1>3, <2>1 DEF Monitor!Command, Places
        <3>2. CASE Head(up) = Monitor!U /\ l[2].kind = "address"
            BY <3>1, <3>2 DEF Expects, Monitor!Begins, Monitor!U, Monitor!C, Monitor!S
        <3>3. CASE Head(up) = Monitor!C /\ l[2].kind = "call"
            BY <3>1, <3>3 DEF Expects, Monitor!Begins, Monitor!U, Monitor!C, Monitor!S
        <3> QED
            BY <2>4, <3>2, <3>3
    <2>6. Loaded(l[2].pos)'
        BY <1>1, <2>1, <2>2, <2>3 DEF Loaded
    <2>7. InOrder'
        BY <1>1, <1>2, <2>1, <2>5, <2>6, ItemReceived
    <2> QED
        BY <1>1, <2>5, <2>7 DEF UploadInv, Untouched
<1>4. CASE Monitor!LoadFromUart
    <2>1. LoadedItem
        BY <1>4, ItemLoaded
    <2>2. up # <<>> /\ up' = Tail(up) /\ rom.at \in {"uaddr", "ulen", "ubytes"} /\ flash' = flash
        BY <2>1 DEF LoadedItem
    <2>3. /\ l[1] \in Marks /\ l[2] \in Marks /\ Sound(l[1]) /\ Sound(l[2])
          /\ Says(l[1], 1) /\ Precedes(l[1], l[2]) /\ Expects(l[1]) /\ Loaded(l[1].pos)
          /\ Rest[1] = Head(up)
        BY <1>1, <1>2, <2>2, MarksOfFirst
    <2>4. /\ l[1].pos \in Nat /\ l[1].end \in Nat /\ l[2].pos \in Nat /\ l[2].end \in Nat
          /\ rom.s0 \in Nat /\ rom.s1 \in Nat /\ rom.s2 \in Nat
        BY <1>0, <2>3 DEF Marks, Places
    <2>5. Expects(l[2])' /\ Loaded(l[2].pos)'
        <3>1. CASE rom.at = "uaddr"
            <4>1. l[1].kind = "address" /\ l[2].kind = "length" /\ l[2].pos = l[1].pos /\ Head(up) = l[1].pos
                BY <2>3, <3>1 DEF Expects, Marks, Precedes, Says
            <4>2. Expects(l[2])'
                BY <2>1, <3>1, <4>1 DEF LoadedItem, Expects
            <4>3. Loaded(l[2].pos)'
                BY <1>1, <2>1, <2>3, <3>1, <4>1 DEF LoadedItem, Loaded
            <4> QED
                BY <4>2, <4>3
        <3>2. CASE rom.at = "ulen"
            <4>1. l[1].kind = "length" /\ l[2].kind = "byte" /\ l[2].pos = l[1].pos /\ l[2].end = l[1].end
                  /\ Head(up) = l[1].end - l[1].pos /\ l[1].pos < l[1].end /\ rom.s0 = l[1].pos
                BY <2>3, <3>2 DEF Expects, Marks, Precedes, Says, Sound
            <4>2. ~(0 >= Head(up)) /\ rom.s0 + 0 = l[2].pos /\ rom.s0 + Head(up) = l[2].end
                BY <2>4, <4>1
            <4>3. Expects(l[2])'
                BY <2>1, <3>2, <4>1, <4>2 DEF LoadedItem, Expects
            <4>4. Loaded(l[2].pos)'
                BY <1>1, <2>1, <2>3, <3>2, <4>1 DEF LoadedItem, Loaded
            <4> QED
                BY <4>3, <4>4
        <3>3. CASE rom.at = "ubytes"
            <4>1. /\ l[1].kind = "byte" /\ rom.s0 + rom.s2 = l[1].pos /\ rom.s0 + rom.s1 = l[1].end
                  /\ Head(up) = host.file[l[1].pos + 1] /\ l[2].pos = l[1].pos + 1
                  /\ l[1].pos < l[1].end /\ l[1].end <= Len(host.file)
                  /\ IF l[2].pos < l[1].end THEN l[2].kind = "byte" /\ l[2].end = l[1].end
                     ELSE l[2].kind = "command"
                BY <2>3, <3>3 DEF Expects, Marks, Precedes, Says, Sound
            <4>2. /\ rom'.at = (IF rom.s2 + 1 >= rom.s1 THEN "main" ELSE "ubytes")
                  /\ rom'.s0 = rom.s0 /\ rom'.s1 = rom.s1 /\ rom'.s2 = rom.s2 + 1
                  /\ ram' = [ram EXCEPT ![rom.s0 + rom.s2] = Head(up)]
                BY <2>1, <3>3 DEF LoadedItem
            <4>3. (rom.s2 + 1 >= rom.s1) <=> ~(l[2].pos < l[1].end)
                <5>1. rom.s0 + rom.s2 = l[1].pos /\ rom.s0 + rom.s1 = l[1].end /\ l[2].pos = l[1].pos + 1
                    BY <4>1
                <5> QED
                    BY <2>4, <5>1
            <4>4. Expects(l[2])'
                <5>1. CASE l[2].pos < l[1].end
                    <6>1. rom'.at = "ubytes" /\ rom'.s0 + rom'.s2 = l[2].pos /\ rom'.s0 + rom'.s1 = l[2].end
                        BY <2>4, <4>1, <4>2, <4>3, <5>1
                    <6> QED
                        BY <4>1, <5>1, <6>1 DEF Expects
                <5>2. CASE ~(l[2].pos < l[1].end)
                    BY <4>1, <4>2, <4>3, <5>2 DEF Expects
                <5> QED
                    BY <5>1, <5>2
            <4>5. Loaded(l[2].pos)'
                <5> SUFFICES ASSUME NEW i \in 1 .. l[2].pos PROVE ram'[i - 1] = host.file[i]
                    BY <1>1 DEF Loaded
                <5>1. l[1].pos \in DOMAIN ram /\ ram' = [ram EXCEPT ![l[1].pos] = host.file[l[1].pos + 1]]
                    <6>1. l[1].pos < Len(host.file) /\ rom.s0 + rom.s2 = l[1].pos
                          /\ Head(up) = host.file[l[1].pos + 1]
                        <7>1. l[1].pos < l[1].end /\ l[1].end <= Len(host.file)
                            BY <4>1
                        <7>2. l[1].pos < Len(host.file)
                            <8>1. \A a \in Nat, b \in Nat, c \in Nat : a < b /\ b <= c => a < c
                                OBVIOUS
                            <8> QED
                                BY <1>0, <2>4, <7>1, <8>1, Zenon
                        <7> QED
                            BY <4>1, <7>2, Zenon
                    <6>2. l[1].pos \in 0 .. FlashSize - 1
                        BY <1>0, <2>4, <6>1
                    <6> QED
                        BY <1>0, <4>2, <6>1, <6>2
                <5>2. CASE i = l[1].pos + 1
                    <6>1. i - 1 = l[1].pos
                        BY <2>4, <5>2
                    <6> QED
                        BY <5>1, <5>2, <6>1
                <5>3. CASE i # l[1].pos + 1
                    <6>1. i \in 1 .. l[1].pos /\ i - 1 # l[1].pos
                        BY <2>4, <4>1, <5>3
                    <6>2. ram'[i - 1] = ram[i - 1]
                        BY <5>1, <6>1
                    <6> QED
                        BY <2>3, <6>1, <6>2 DEF Loaded
                <5> QED
                    BY <5>2, <5>3
            <4> QED
                BY <4>4, <4>5
        <3> QED
            BY <2>2, <3>1, <3>2, <3>3
    <2>6. InOrder'
        BY <1>1, <1>2, <2>2, <2>5, ItemReceived
    <2> QED
        BY <1>1, <2>2, <2>6 DEF UploadInv, Untouched
<1>5. CASE Monitor!Call
    <2>1. up # <<>> /\ up' = Tail(up) /\ rom.at = "caddr" /\ ram' = ram /\ flash' = flash
          /\ rom' = [rom EXCEPT !.at = "run", !.by = "call"]
        BY <1>5 DEF Monitor!Call
    <2>2. /\ l[1] \in Marks /\ l[2] \in Marks /\ Precedes(l[1], l[2]) /\ Expects(l[1]) /\ Loaded(l[1].pos)
        BY <1>1, <1>2, <2>1, MarksOfFirst
    <2>3. l[1].kind = "call" /\ l[2].kind = "over" /\ l[2].pos = l[1].pos
        BY <2>1, <2>2 DEF Expects, Marks, Precedes
    <2>4. Expects(l[2])'
        BY <1>0, <2>1, <2>3 DEF Expects, Places
    <2>5. Loaded(l[2].pos)'
        BY <1>1, <2>1, <2>2, <2>3 DEF Loaded
    <2>6. InOrder'
        BY <1>1, <1>2, <2>1, <2>4, <2>5, ItemReceived
    <2> QED
        BY <1>1, <2>1, <2>6 DEF UploadInv, Untouched
<1>6. CASE Monitor!Return
    <2>1. UNCHANGED <<ram, flash, up, host>> /\ rom.at = "run" /\ rom' = [rom EXCEPT !.at = "main"]
        BY <1>6 DEF Monitor!Return
    <2>2. l[1] \in Marks /\ Expects(l[1])
        <3>1. 1 \in 1 .. Len(Rest) + 1
            <4>1. Len(up \o host.send) \in Nat
                BY <1>0 DEF Hosts
            <4> QED
                BY <4>1 DEF Rest
        <3> QED
            BY <1>2, <3>1 DEF Marked
    <2>3. l[1].kind = "over" /\ rom'.at = "main"
        BY <1>0, <2>1, <2>2 DEF Expects, Marks, Places
    <2>4. Rest' = Rest /\ Expects(l[1])'
        BY <2>1, <2>3 DEF Rest, Expects
    <2>5. Marked(l)'
        BY <1>2, <2>1, <2>4 DEF Marked, Sound, Says, Precedes, SendsNext, Loaded, Broken
    <2> QED
        BY <2>1, <2>5 DEF UploadInv, Untouched, InOrder
<1>7. CASE Monitor!UartToSpi
    <2>1. up # <<>> /\ up' = Tail(up) /\ rom.at \in {"slen", "sbytes"}
        BY <1>7 DEF Monitor!UartToSpi
    <2>2. l[1] \in Marks /\ Expects(l[1]) /\ Precedes(l[1], l[2])
        BY <1>1, <1>2, <2>1, MarksOfFirst
    <2> QED
        BY <2>1, <2>2 DEF Expects, Marks
<1> QED
    BY <1>3, <1>4, <1>5, <1>6, <1>7 DEF Monitor!Monitor

LEMMA ItemMoved ==
    ASSUME NEW s \in Seq(Nat), NEW t \in Seq(Nat), t # <<>>
    PROVE  Append(s, Head(t)) \o Tail(t) = s \o t
<1>1. /\ Head(t) = t[1] /\ Tail(t) \in Seq(Nat) /\ Len(t) \in Nat /\ Len(t) >= 1 /\ Len(Tail(t)) = Len(t) - 1
      /\ \A i \in 1 .. Len(t) - 1 : Tail(t)[i] = t[i + 1]
    OBVIOUS
<1>2. Append(s, Head(t)) \in Seq(Nat) /\ Len(Append(s, Head(t))) = Len(s) + 1 /\ Len(s) \in Nat
      /\ \A i \in 1 .. Len(s) + 1 : Append(s, Head(t))[i] = IF i <= Len(s) THEN s[i] ELSE t[1]
    BY <1>1
<1> DEFINE a == Append(s, Head(t)) \o Tail(t)
           b == s \o t
<1>3. a \in Seq(Nat) /\ b \in Seq(Nat) /\ Len(a) = Len(s) + Len(t) /\ Len(b) = Len(s) + Len(t)
    BY <1>1, <1>2
<1>4. ASSUME NEW i \in 1 .. Len(a) PROVE a[i] = b[i]
    <2>1. CASE i <= Len(s)
        BY <1>1, <1>2, <1>3, <2>1
    <2>2. CASE i = Len(s) + 1
        BY <1>1, <1>2, <1>3, <2>2
    <2>3. CASE i > Len(s) + 1
        <3>1. a[i] = Tail(t)[i - (Len(s) + 1)]
            BY <1>1, <1>2, <1>3, <2>3
        <3>2. i - (Len(s) + 1) \in 1 .. Len(t) - 1 /\ (i - (Len(s) + 1)) + 1 = i - Len(s)
            BY <1>1, <1>2, <1>3, <2>3
        <3>3. Tail(t)[i - (Len(s) + 1)] = t[i - Len(s)]
            BY <1>1, <3>2
        <3>4. b[i] = t[i - Len(s)]
            BY <1>1, <1>2, <1>3, <2>3
        <3> QED
            BY <3>1, <3>3, <3>4
    <2>4. i <= Len(s) \/ i = Len(s) + 1 \/ i > Len(s) + 1
        BY <1>2
    <2> QED
        BY <2>1, <2>2, <2>3, <2>4, Zenon
<1> HIDE DEF a, b
<1>5. a = b
    BY <1>3, <1>4, SeqEqual
<1> QED
    BY <1>5 DEF a, b

\* More items put on the line, with marks that fit those before.
LEMMA MarksExtended ==
    ASSUME NEW l, Marked(l), NEW m, NEW k \in Nat, k = Len(Rest), NEW j \in Nat \ {0},
           UNCHANGED <<rom, ram>>, host'.file = host.file, host'.size = host.size,
           Len(Rest') = k + j,
           \A i \in 1 .. k : Rest'[i] = Rest[i],
           \A i \in 1 .. k + 1 : m[i] = l[i],
           \A i \in k + 2 .. k + j + 1 : m[i] \in Marks /\ Sound(m[i]),
           \A i \in k + 1 .. k + j : Says(m[i], i)' /\ Precedes(m[i], m[i + 1]),
           SendsNext(m[k + j + 1])'
    PROVE  Marked(m)'
<1>1. \A i \in 1 .. k + j + 1 : m[i] \in Marks /\ Sound(m[i])'
    <2> SUFFICES ASSUME NEW i \in 1 .. k + j + 1 PROVE m[i] \in Marks /\ Sound(m[i])'
        OBVIOUS
    <2>1. m[i] \in Marks /\ Sound(m[i])
        <3>1. CASE i \in 1 .. k + 1
            BY <3>1 DEF Marked
        <3>2. CASE i \in k + 2 .. k + j + 1
            BY <3>2
        <3> QED
            BY <3>1, <3>2
    <2> QED
        BY <2>1 DEF Sound, Broken
<1>2. \A i \in 1 .. k + j : Says(m[i], i)' /\ Precedes(m[i], m[i + 1])'
    <2> SUFFICES ASSUME NEW i \in 1 .. k + j PROVE Says(m[i], i)' /\ Precedes(m[i], m[i + 1])'
        OBVIOUS
    <2>1. CASE i \in 1 .. k
        <3>1. Says(l[i], i) /\ Precedes(l[i], l[i + 1]) /\ Rest'[i] = Rest[i] /\ i + 1 \in 1 .. k + 1
              /\ i \in 1 .. k + 1
            BY <2>1 DEF Marked
        <3>2. m[i] = l[i] /\ m[i + 1] = l[i + 1]
            BY <3>1
        <3> QED
            BY <3>1, <3>2 DEF Says, Precedes
    <2>2. CASE i \in k + 1 .. k + j
        <3>1. Says(m[i], i)' /\ Precedes(m[i], m[i + 1])
            BY <2>2
        <3> QED
            BY <3>1 DEF Precedes
    <2> QED
        BY <2>1, <2>2
<1>3. Expects(m[1])' /\ Loaded(m[1].pos)'
    <2>1. m[1] = l[1]
        OBVIOUS
    <2> QED
        BY <2>1 DEF Marked, Expects, Loaded
<1> QED
    BY <1>1, <1>2, <1>3, Zenon DEF Marked

\* What the uploader sends next is marked as it is put on the line.
LEMMA UploaderFollows ==
    ASSUME RomTyped, UploadInv, Monitor!Uploader
    PROVE  UploadInv'
<1>0. /\ rom \in Places /\ up \in Seq(Nat) /\ host \in Hosts /\ host.send \in Seq(Nat) /\ host.pos \in Nat
      /\ Len(host.file) \in Nat /\ host.at \in {"upload", "end"} /\ host.wait = 0
      /\ host.pos <= Len(host.file) /\ host.size \in Nat /\ Len(host.file) <= host.size
      /\ host.at \notin ErasePlaces /\ host.file \in Seq(0 .. 255)
    <2>1. /\ rom \in Places /\ up \in Seq(Nat) /\ host \in Hosts /\ Reaches(host)
          /\ host.at \in {"upload", "end"} /\ host.wait = 0
        BY DEF RomTyped, UploadInv
    <2>2. /\ host.send \in Seq(Nat) /\ host.pos \in Nat /\ host.size \in Nat
          /\ host.file \in Seq(0 .. 255) /\ Len(host.file) \in Nat
        BY <2>1 DEF Hosts
    <2>3. host.at \notin ErasePlaces
        BY <2>1 DEF ErasePlaces
    <2>4. host.pos <= Len(host.file) /\ Len(host.file) <= host.size
        BY <2>1, <2>3 DEF Reaches
    <2> QED
        BY <2>1, <2>2, <2>3, <2>4
<1>1. CASE Monitor!ToggleReset \/ Monitor!WriteToSPI \/ Monitor!Receive
    <2>1. ~Monitor!ToggleReset /\ ~Monitor!WriteToSPI
        BY <1>0 DEF Monitor!ToggleReset, Monitor!WriteToSPI
    <2>2. ~Monitor!Receive
        BY <1>0 DEF Monitor!Receive
    <2> QED
        BY <1>1, <2>1, <2>2
<1>2. CASE Monitor!HostSends
    <2>1. /\ host.send # <<>> /\ up' = Append(up, Head(host.send)) /\ UNCHANGED <<rom, ram, flash>>
          /\ host' = [host EXCEPT !.send = Tail(host.send)]
        BY <1>2 DEF Monitor!HostSends
    <2>2. /\ host'.send = Tail(host.send) /\ host'.at = host.at /\ host'.pos = host.pos
          /\ host'.file = host.file /\ host'.size = host.size /\ host'.wait = host.wait
        BY <1>0, <2>1 DEF Hosts
    <2>3. Rest' = Rest
        <3>1. Rest' = Append(up, Head(host.send)) \o Tail(host.send)
            BY <2>1, <2>2 DEF Rest
        <3>2. Append(up, Head(host.send)) \o Tail(host.send) = up \o host.send
            BY <1>0, <2>1, ItemMoved
        <3> QED
            BY <3>1, <3>2 DEF Rest
    <2>4. ASSUME NEW l, Marked(l) PROVE Marked(l)'
        BY <2>1, <2>2, <2>3, <2>4
           DEF Marked, Sound, Says, Precedes, Expects, SendsNext, Loaded, Broken
    <2>5. Lost' = Lost /\ Untouched' = Untouched
        BY <2>1 DEF Lost, Untouched
    <2> QED
        BY <1>0, <2>2, <2>4, <2>5 DEF UploadInv, InOrder
<1>3. CASE Monitor!UploadFile
    <2> DEFINE part == Monitor!Chunk(host.pos, UPLOADSIZE)
               n    == Len(part)
               items == <<Monitor!U, host.pos, n>> \o part
               last == IF Monitor!ReadFails THEN <<>> ELSE <<Monitor!C, 0>>
    <2>1. /\ host.at = "upload" /\ host.send = <<>> /\ UNCHANGED <<rom, ram, flash, up>>
          /\ IF part = <<>> THEN host' = [host EXCEPT !.at = "end", !.send = last, !.wait = 0]
             ELSE host' = [[host EXCEPT !.at = "upload", !.send = items, !.wait = 0]
                             EXCEPT !.pos = host.pos + n]
        BY <1>0, <1>3 DEF Monitor!UploadFile, Monitor!Ready, Monitor!Sends, Hosts
    <2>2. IsPart(part)
        BY <1>0, PartOfFile, UploadAssumption
    <2> HIDE DEF part
    <2>3. /\ part \in Seq(Nat) /\ n \in Nat /\ host.pos + n <= Len(host.file)
          /\ \A i \in 1 .. n : part[i] = host.file[host.pos + i]
          /\ part = <<>> <=> host.pos = Len(host.file)
        BY <2>2 DEF IsPart
    <2>4. Lost' = Lost /\ Untouched' = Untouched /\ Rest = up
        <3>1. up \o <<>> = up
            BY <1>0
        <3> QED
            BY <2>1, <3>1 DEF Lost, Untouched, Rest
    <2>5. host'.at \in {"upload", "end"} /\ host'.wait = 0 /\ host'.file = host.file
          /\ host'.size = host.size
        <3>1. CASE part = <<>>
            <4>1. host' = [host EXCEPT !.at = "end", !.send = last, !.wait = 0]
                BY <2>1, <3>1
            <4> HIDE DEF last
            <4> QED
                BY <1>0, <4>1 DEF Hosts
        <3>2. CASE part # <<>>
            <4>1. host' = [[host EXCEPT !.at = "upload", !.send = items, !.wait = 0]
                             EXCEPT !.pos = host.pos + n]
                BY <2>1, <3>2
            <4> QED
                BY <1>0, <4>1 DEF Hosts
        <3> QED
            BY <3>1, <3>2
    <2>5a. part = <<>> => (Monitor!ReadFails <=> Broken)
        <3> SUFFICES ASSUME part = <<>> PROVE Monitor!ReadFails <=> Broken
            OBVIOUS
        <3>1. host.pos = Len(host.file)
            BY <2>3
        <3>2. host.file = <<>> <=> Len(host.file) = 0
            BY <1>0
        <3> QED
            BY <1>0, <3>1, <3>2 DEF Monitor!ReadFails, Broken
    <2>6. ASSUME ~Lost PROVE InOrder'
        <3>1. PICK l : Marked(l)
            BY <2>6 DEF UploadInv, InOrder
        <3> PICK k : k = Len(up)
            OBVIOUS
        <3>2. k \in Nat /\ k = Len(Rest)
            BY <1>0, <2>4
        <3>3. l[k + 1] \in Marks /\ l[k + 1].kind = "command" /\ l[k + 1].pos = host.pos
            BY <2>1, <3>1, <3>2 DEF Marked, SendsNext
        <3>4a. CASE part = <<>> /\ Monitor!ReadFails
            <4>1. host' = [host EXCEPT !.at = "end", !.send = <<>>, !.wait = 0]
                BY <2>1, <3>4a
            <4>2. host'.at = "end" /\ host'.send = <<>> /\ host'.pos = host.pos
                BY <1>0, <4>1 DEF Hosts
            <4>3. Broken /\ Broken' /\ Rest' = Rest
                <5>1. Rest' = up' \o <<>> /\ up' = up /\ up \o <<>> = up
                    BY <1>0, <2>1, <4>2 DEF Rest
                <5> QED
                    BY <2>4, <2>5, <2>5a, <3>4a, <5>1 DEF Broken
            <4>4. SendsNext(l[k + 1])'
                BY <3>3, <4>2, <4>3 DEF SendsNext
            <4>5. Marked(l)'
                <5>1. \A i \in 1 .. Len(Rest) + 1 : l[i] \in Marks /\ Sound(l[i])'
                    BY <2>5, <3>1, <4>3 DEF Marked, Sound
                <5>2. \A i \in 1 .. Len(Rest) : Says(l[i], i)' /\ Precedes(l[i], l[i + 1])'
                    BY <2>5, <3>1, <4>3 DEF Marked, Says, Precedes
                <5>3. Expects(l[1])' /\ Loaded(l[1].pos)'
                    BY <2>1, <2>5, <3>1 DEF Marked, Expects, Loaded
                <5> QED
                    BY <3>2, <4>3, <4>4, <5>1, <5>2, <5>3 DEF Marked
            <4> QED
                BY <4>5 DEF InOrder
        <3>4. CASE part = <<>> /\ ~Monitor!ReadFails
            <4>1. host' = [host EXCEPT !.at = "end", !.send = <<Monitor!C, 0>>, !.wait = 0]
                BY <2>1, <3>4
            <4>2. host'.at = "end" /\ host'.send = <<Monitor!C, 0>> /\ host'.file = host.file
                  /\ ~Broken /\ ~Broken'
                <5>1. host'.at = "end" /\ host'.send = <<Monitor!C, 0>> /\ host'.file = host.file
                    BY <1>0, <4>1 DEF Hosts
                <5> QED
                    BY <2>5, <2>5a, <3>4, <5>1 DEF Broken
            <4>3. PICK m : m = [i \in 1 .. k + 3 |->
                                  IF i <= k + 1 THEN l[i]
                                  ELSE [kind |-> IF i = k + 2 THEN "call" ELSE "over",
                                        pos |-> host.pos, end |-> host.pos]]
                OBVIOUS
            <4>4. /\ Rest' = up \o <<Monitor!C, 0>> /\ Len(Rest') = k + 2
                  /\ \A i \in 1 .. k : Rest'[i] = Rest[i]
                  /\ Rest'[k + 1] = Monitor!C /\ Rest'[k + 2] = 0
                <5>1. Rest' = up \o <<Monitor!C, 0>>
                    BY <2>1, <4>2 DEF Rest
                <5>2. <<Monitor!C, 0>> \in Seq(Nat) /\ Len(<<Monitor!C, 0>>) = 2
                    BY DEF Monitor!C
                <5> QED
                    BY <1>0, <2>4, <3>2, <5>1, <5>2
            <4>5. /\ \A i \in 1 .. k + 1 : m[i] = l[i]
                  /\ m[k + 2] = [kind |-> "call", pos |-> host.pos, end |-> host.pos]
                  /\ m[k + 3] = [kind |-> "over", pos |-> host.pos, end |-> host.pos]
                BY <3>2, <4>3
            <4>6. Says(m[k + 1], k + 1)' /\ Precedes(m[k + 1], m[k + 1 + 1])
                <5>1. m[k + 1] = l[k + 1] /\ k + 1 + 1 = k + 2 /\ ~(host.pos < Len(host.file))
                    BY <1>0, <2>3, <3>2, <3>4, <4>5
                <5> QED
                    BY <3>3, <4>2, <4>4, <4>5, <5>1 DEF Says, Precedes
            <4>7. Says(m[k + 2], k + 2)' /\ Precedes(m[k + 2], m[k + 2 + 1])
                <5>1. k + 2 + 1 = k + 3
                    BY <3>2
                <5> QED
                    BY <4>5, <5>1 DEF Says, Precedes
            <4>8. \A i \in {k + 2, k + 3} : m[i] \in Marks /\ Sound(m[i])
                BY <1>0, <2>3, <3>4, <4>2, <4>5 DEF Marks, Sound
            <4>9. SendsNext(m[k + 3])'
                BY <4>2, <4>5 DEF SendsNext
            <4>10. Marked(m)'
                <5>1. /\ \A i \in k + 1 .. k + 2 : i \in {k + 1, k + 2}
                      /\ \A i \in k + 2 .. k + 2 + 1 : i \in {k + 2, k + 3}
                      /\ k + 2 + 1 = k + 3
                    BY <3>2
                <5>2. \A i \in k + 1 .. k + 2 : Says(m[i], i)' /\ Precedes(m[i], m[i + 1])
                    BY <4>6, <4>7, <5>1
                <5>3. \A i \in k + 2 .. k + 2 + 1 : m[i] \in Marks /\ Sound(m[i])
                    BY <4>8, <5>1
                <5>4. SendsNext(m[k + 2 + 1])'
                    BY <4>9, <5>1
                <5>5. /\ 2 \in Nat \ {0} /\ UNCHANGED <<rom, ram>> /\ host'.file = host.file /\ host'.size = host.size
                      /\ Len(Rest') = k + 2 /\ \A i \in 1 .. k : Rest'[i] = Rest[i]
                      /\ \A i \in 1 .. k + 1 : m[i] = l[i]
                    BY <2>1, <2>5, <4>2, <4>4, <4>5
                <5> QED
                    BY <3>1, <3>2, <5>2, <5>3, <5>4, <5>5, MarksExtended, Zenon
            <4> QED
                BY <4>10 DEF InOrder
        <3>5. CASE part # <<>>
            <4>1. host' = [[host EXCEPT !.at = "upload", !.send = items, !.wait = 0] EXCEPT !.pos = host.pos + n]
                BY <2>1, <3>5
            <4>2. host'.at = "upload" /\ host'.send = items /\ host'.file = host.file /\ host'.pos = host.pos + n
                BY <1>0, <4>1 DEF Hosts
            <4> PICK p : p = host.pos
                OBVIOUS
            <4> PICK q : q = n
                OBVIOUS
            <4>3. p \in Nat /\ q \in Nat /\ q >= 1 /\ p + q <= Len(host.file) /\ p < Len(host.file)
                BY <1>0, <2>3, <3>5
            <4>4. PICK m : m = [i \in 1 .. k + 4 + q |->
                                  IF i <= k + 1 THEN l[i]
                                  ELSE [kind |-> IF i = k + 2 THEN "address" ELSE IF i = k + 3 THEN "length"
                                                 ELSE IF i < k + 4 + q THEN "byte" ELSE "command",
                                        pos |-> IF i <= k + 3 THEN p ELSE p + i - (k + 4), end |-> p + q]]
                OBVIOUS
            <4>5. /\ Len(Rest') = k + 3 + q /\ \A i \in 1 .. k : Rest'[i] = Rest[i]
                  /\ Rest'[k + 1] = Monitor!U /\ Rest'[k + 2] = p /\ Rest'[k + 3] = q
                  /\ \A i \in 1 .. q : Rest'[k + 3 + i] = host.file[p + i]
                <5>1. Rest' = up \o items
                    BY <2>1, <4>2 DEF Rest
                <5>2. /\ items \in Seq(Nat) /\ Len(items) = 3 + q
                      /\ items[1] = Monitor!U /\ items[2] = p /\ items[3] = q
                      /\ \A i \in 1 .. q : items[3 + i] = part[i]
                    BY <2>3, <4>3 DEF Monitor!U
                <5> HIDE DEF items
                <5>3a. 3 + q \in Nat /\ k + (3 + q) = k + 3 + q
                    BY <3>2, <4>3
                <5>3b. /\ Len(Rest') = k + (3 + q) /\ \A i \in 1 .. k : Rest'[i] = up[i]
                       /\ \A i \in 1 .. 3 + q : Rest'[k + i] = items[i]
                    <6>1. up \in Seq(Nat) /\ k \in Nat /\ k = Len(up) /\ items \in Seq(Nat) /\ 3 + q = Len(items)
                        BY <1>0, <2>4, <3>2, <5>2
                    <6> PICK r : r = Rest'
                        OBVIOUS
                    <6> PICK t : t = items
                        OBVIOUS
                    <6> PICK z : z = up
                        OBVIOUS
                    <6> PICK h : h = 3 + q
                        OBVIOUS
                    <6>2. z \in Seq(Nat) /\ t \in Seq(Nat) /\ k = Len(z) /\ h = Len(t) /\ h \in Nat /\ r = z \o t
                        BY <5>1, <5>3a, <6>1
                    <6>3. Len(r) = k + h /\ (\A i \in 1 .. k : r[i] = z[i]) /\ \A i \in 1 .. h : r[k + i] = t[i]
                        <7>1. /\ Len(z \o t) = Len(z) + Len(t) /\ \A i \in 1 .. Len(z) : (z \o t)[i] = z[i]
                              /\ \A i \in 1 .. Len(t) : (z \o t)[Len(z) + i] = t[i]
                            <8>1. z \in Seq(Nat) /\ t \in Seq(Nat)
                                BY <6>2
                            <8> QED
                                BY <8>1, Joined, Zenon
                        <7>2. k = Len(z) /\ h = Len(t) /\ r = z \o t
                            BY <6>2
                        <7> QED
                            BY <7>1, <7>2, Zenon
                    <6> QED
                        BY <6>3
                <5>3. Len(Rest') = k + 3 + q /\ \A i \in 1 .. k : Rest'[i] = Rest[i]
                    BY <2>4, <5>3a, <5>3b, Zenon
                <5>4. \A i \in 1 .. 3 + q : Rest'[k + i] = items[i]
                    BY <5>3b, Zenon
                <5>5. Rest'[k + 1] = items[1] /\ Rest'[k + 2] = items[2] /\ Rest'[k + 3] = items[3]
                    BY <4>3, <5>4
                <5>6. \A i \in 1 .. q : Rest'[k + 3 + i] = items[3 + i]
                    <6> SUFFICES ASSUME NEW i \in 1 .. q PROVE Rest'[k + 3 + i] = items[3 + i]
                        OBVIOUS
                    <6>1. 3 + i \in 1 .. 3 + q /\ k + (3 + i) = k + 3 + i
                        BY <3>2, <4>3
                    <6> QED
                        BY <5>4, <6>1
                <5> QED
                    BY <2>3, <5>2, <5>3, <5>5, <5>6
            <4>6. /\ \A i \in 1 .. k + 1 : m[i] = l[i]
                  /\ m[k + 2] = [kind |-> "address", pos |-> p, end |-> p + q]
                  /\ m[k + 3] = [kind |-> "length", pos |-> p, end |-> p + q]
                  /\ \A i \in 1 .. q : m[k + 3 + i] = [kind |-> "byte", pos |-> p + i - 1, end |-> p + q]
                  /\ m[k + 4 + q] = [kind |-> "command", pos |-> p + q, end |-> p + q]
                <5>1. \A i \in 1 .. k + 1 : m[i] = l[i]
                    BY <3>2, <4>3, <4>4
                <5>2. /\ m[k + 2] = [kind |-> "address", pos |-> p, end |-> p + q]
                      /\ m[k + 3] = [kind |-> "length", pos |-> p, end |-> p + q]
                    BY <3>2, <4>3, <4>4
                <5>3. \A i \in 1 .. q : m[k + 3 + i] = [kind |-> "byte", pos |-> p + i - 1, end |-> p + q]
                    <6> SUFFICES ASSUME NEW i \in 1 .. q
                                 PROVE  m[k + 3 + i] = [kind |-> "byte", pos |-> p + i - 1, end |-> p + q]
                        OBVIOUS
                    <6>1. /\ k + 3 + i \in 1 .. k + 4 + q /\ ~(k + 3 + i <= k + 3) /\ ~(k + 3 + i <= k + 1)
                          /\ k + 3 + i # k + 2 /\ k + 3 + i # k + 3 /\ k + 3 + i < k + 4 + q
                          /\ p + (k + 3 + i) - (k + 4) = p + i - 1
                        BY <3>2, <4>3
                    <6> QED
                        BY <4>4, <6>1
                <5>4. m[k + 4 + q] = [kind |-> "command", pos |-> p + q, end |-> p + q]
                    <6>1. /\ k + 4 + q \in 1 .. k + 4 + q /\ ~(k + 4 + q <= k + 3) /\ ~(k + 4 + q <= k + 1)
                          /\ k + 4 + q # k + 2 /\ k + 4 + q # k + 3 /\ ~(k + 4 + q < k + 4 + q)
                          /\ p + (k + 4 + q) - (k + 4) = p + q
                        BY <3>2, <4>3
                    <6> QED
                        BY <4>4, <6>1
                <5> QED
                    BY <5>1, <5>2, <5>3, <5>4
            <4>7. Says(m[k + 1], k + 1)' /\ Precedes(m[k + 1], m[k + 1 + 1])
                <5>1. m[k + 1] = l[k + 1] /\ k + 1 + 1 = k + 2
                    BY <3>2, <4>6
                <5>2. /\ m[k + 1].kind = "command" /\ m[k + 1].pos = p
                      /\ m[k + 2].kind = "address" /\ m[k + 2].pos = p
                    BY <3>3, <4>6, <5>1
                <5>3. Says(m[k + 1], k + 1)'
                    BY <4>2, <4>3, <4>5, <5>2 DEF Says
                <5>4. Precedes(m[k + 1], m[k + 2])
                    BY <4>3, <5>2 DEF Precedes
                <5> QED
                    BY <5>1, <5>3, <5>4
            <4>8. Says(m[k + 2], k + 2)' /\ Precedes(m[k + 2], m[k + 2 + 1])
                <5>1. k + 2 + 1 = k + 3
                    BY <3>2
                <5> QED
                    BY <4>5, <4>6, <5>1 DEF Says, Precedes
            <4>9. Says(m[k + 3], k + 3)' /\ Precedes(m[k + 3], m[k + 3 + 1])
                <5>1. 1 \in 1 .. q /\ p + 1 - 1 = p /\ (p + q) - p = q
                    BY <4>3
                <5>2. m[k + 3 + 1] = [kind |-> "byte", pos |-> p + 1 - 1, end |-> p + q]
                    BY <4>6, <5>1, Zenon
                <5>3. /\ m[k + 3].kind = "length" /\ m[k + 3].pos = p /\ m[k + 3].end = p + q
                      /\ m[k + 3 + 1].kind = "byte" /\ m[k + 3 + 1].pos = p /\ m[k + 3 + 1].end = p + q
                    BY <4>6, <5>1, <5>2
                <5>4. Rest'[k + 3] = q
                    BY <4>5
                <5>5. Says(m[k + 3], k + 3)'
                    BY <5>1, <5>3, <5>4 DEF Says
                <5>6. Precedes(m[k + 3], m[k + 3 + 1])
                    BY <5>3 DEF Precedes
                <5> QED
                    BY <5>5, <5>6
            <4>10. ASSUME NEW i \in 1 .. q
                   PROVE  Says(m[k + 3 + i], k + 3 + i)' /\ Precedes(m[k + 3 + i], m[k + 3 + i + 1])
                <5>0. m[k + 3 + i] = [kind |-> "byte", pos |-> p + i - 1, end |-> p + q]
                    BY <4>6, Zenon
                <5>1. m[k + 3 + i].kind = "byte" /\ m[k + 3 + i].pos = p + i - 1 /\ m[k + 3 + i].end = p + q
                    BY <5>0
                <5>2. p + i - 1 + 1 = p + i /\ Rest'[k + 3 + i] = host.file[p + i]
                    <6>1. p \in Nat /\ i \in Nat
                        BY <4>3
                    <6>2. p + i - 1 + 1 = p + i
                        BY <6>1
                    <6>3. Rest'[k + 3 + i] = host.file[p + i]
                        BY <4>5, Zenon
                    <6> QED
                        BY <6>2, <6>3, Zenon
                <5>3. Says(m[k + 3 + i], k + 3 + i)'
                    BY <4>2, <5>1, <5>2 DEF Says
                <5>4. CASE i = q
                    <6>1. k + 3 + i + 1 = k + 4 + q
                        BY <3>2, <4>3, <5>4
                    <6>2. m[k + 3 + i + 1].kind = "command" /\ m[k + 3 + i + 1].pos = p + q
                        BY <4>6, <6>1
                    <6>3. ~(p + q < p + q)
                        BY <4>3
                    <6> QED
                        BY <5>1, <5>2, <5>3, <5>4, <6>2, <6>3 DEF Precedes
                <5>5. CASE i # q
                    <6>1. i + 1 \in 1 .. q /\ k + 3 + (i + 1) = k + 3 + i + 1 /\ p + (i + 1) - 1 = p + i /\ p + i < p + q
                        BY <3>2, <4>3, <5>5
                    <6>2a. m[k + 3 + (i + 1)] = [kind |-> "byte", pos |-> p + (i + 1) - 1, end |-> p + q]
                        BY <4>6, <6>1, Zenon
                    <6>2. /\ m[k + 3 + i + 1].kind = "byte" /\ m[k + 3 + i + 1].pos = p + i
                          /\ m[k + 3 + i + 1].end = p + q
                        BY <6>1, <6>2a
                    <6> QED
                        BY <5>1, <5>2, <5>3, <6>1, <6>2 DEF Precedes
                <5> QED
                    BY <5>4, <5>5
            <4>11. ASSUME NEW i \in k + 2 .. k + (3 + q) + 1 PROVE m[i] \in Marks /\ Sound(m[i])
                <5>1. CASE i = k + 2 \/ i = k + 3
                    BY <1>0, <4>3, <4>6, <5>1 DEF Marks, Sound
                <5>2. CASE i \in k + 4 .. k + 3 + q
                    <6>1. i - (k + 3) \in 1 .. q /\ k + 3 + (i - (k + 3)) = i
                        BY <3>2, <4>3, <5>2
                    <6>2. m[i] = [kind |-> "byte", pos |-> p + (i - (k + 3)) - 1, end |-> p + q]
                        BY <4>6, <6>1
                    <6>3. p + (i - (k + 3)) - 1 \in Nat /\ p + (i - (k + 3)) - 1 < p + q /\ p + q \in Nat
                        BY <4>3, <6>1
                    <6> QED
                        BY <1>0, <4>3, <6>2, <6>3 DEF Marks, Sound
                <5>3. CASE i = k + 4 + q
                    BY <1>0, <4>3, <4>6, <5>3 DEF Marks, Sound
                <5> QED
                    BY <3>2, <4>3, <5>1, <5>2, <5>3
            <4>12. SendsNext(m[k + 4 + q])'
                BY <4>2, <4>6 DEF SendsNext
            <4>13. Marked(m)'
                <5> PICK j : j = 3 + q
                    OBVIOUS
                <5>1. j \in Nat \ {0} /\ k + 3 + q = k + j /\ k + 4 + q = k + j + 1
                    BY <3>2, <4>3
                <5>2. \A i \in k + 1 .. k + j : Says(m[i], i)' /\ Precedes(m[i], m[i + 1])
                    <6> SUFFICES ASSUME NEW i \in k + 1 .. k + j
                                 PROVE  Says(m[i], i)' /\ Precedes(m[i], m[i + 1])
                        OBVIOUS
                    <6>1. CASE i \in {k + 1, k + 2, k + 3}
                        BY <4>7, <4>8, <4>9, <6>1
                    <6>2. CASE i \notin {k + 1, k + 2, k + 3}
                        <7>1. PICK d \in 1 .. q : i = k + 3 + d
                            <8>1. i - (k + 3) \in 1 .. q /\ i = k + 3 + (i - (k + 3))
                                BY <3>2, <4>3, <6>2
                            <8> QED
                                BY <8>1
                        <7> QED
                            BY <4>10, <7>1
                    <6> QED
                        BY <6>1, <6>2
                <5>3. \A i \in k + 2 .. k + j + 1 : m[i] \in Marks /\ Sound(m[i])
                    BY <4>11
                <5>4. SendsNext(m[k + j + 1])'
                    BY <4>12, <5>1
                <5>5. /\ UNCHANGED <<rom, ram>> /\ host'.file = host.file /\ host'.size = host.size
                      /\ Len(Rest') = k + j /\ \A i \in 1 .. k : Rest'[i] = Rest[i]
                      /\ \A i \in 1 .. k + 1 : m[i] = l[i]
                    BY <2>1, <2>5, <4>2, <4>5, <4>6, <5>1, Zenon
                <5> QED
                    BY <3>1, <3>2, <5>1, <5>2, <5>3, <5>4, <5>5, MarksExtended, Zenon
            <4> QED
                BY <4>13 DEF InOrder
        <3> QED
            BY <3>4, <3>4a, <3>5
    <2> QED
        BY <2>4, <2>5, <2>6 DEF UploadInv
<1> QED
    BY <1>1, <1>2, <1>3 DEF Monitor!Uploader

-----------------------------------------------------------------------------
(* A file written to the flash. *)

\* What goes over the line for a message M to the flash.
ItemOf(M, i) == IF i = 1 THEN Monitor!S ELSE IF i = 2 THEN Len(M) ELSE M[i - 2]

\* The monitor has taken t of the items: those left, what it waits for, and
\* what the flash has been given and has answered.
Under(M, t) ==
    /\ t \in 0 .. Len(M) + 2 /\ Len(Rest) = Len(M) + 2 - t
    /\ \A i \in 1 .. Len(Rest) : Rest[i] = ItemOf(M, t + i)
    /\ t = 0 => rom.at = "main" /\ down = <<>>
    /\ t = 1 => rom.at = "slen" /\ flash.got = <<>> /\ down = <<>>
    /\ t >= 2 => Len(down) = t - 2
    /\ t >= 2 /\ t < Len(M) + 2 =>
         /\ rom.at = "sbytes" /\ rom.s0 = Len(M) /\ rom.s1 = t - 2 /\ Len(flash.got) = t - 2
         /\ \A i \in 1 .. t - 2 :
              flash.got[i] = M[i] \/ (i = 1 /\ flash.got[i] = 0 /\ host.at \notin Polls \cup {"read"})
    /\ t = Len(M) + 2 => rom.at = "main"

InFlight == \E t \in Nat : Under(Monitor!Message, t)

\* What the answer says so far is so.
AnswerInv ==
    /\ host.wait \in {0, Len(Monitor!Message)} /\ Len(down) <= host.wait
    /\ host.at \in Polls /\ Len(down) >= 2 /\ down[2] # 1 => flash.busy = 0
    /\ host.at = "read" =>
         /\ flash.busy = 0
         /\ \A i \in 4 .. Len(down) : down[i] = flash.mem[FlashBase + host.pos + i - 4]

Verified == ~host.mismatch => \A i \in 1 .. host.pos : flash.mem[FlashBase + i - 1] = host.file[i]

\* What is in the flash, and how far the uploader is.
FlashSound ==
    /\ BlocksKept
    /\ IF host.at \in ErasePlaces THEN host.pos < host.size /\ host.pos % BLOCK = 0 ELSE Verified

ProgramInv ==
    /\ host.at \in ErasePlaces \cup ProgramPlaces \cup {"end"} /\ FlashSound
    /\ host.at = "end" => host.pos = Len(host.file)
    /\ host.at # "end" => AnswerInv
    /\ ~Lost => IF host.wait = 0 THEN Rest = <<>> /\ rom.at = "main" ELSE InFlight

\* While something is under way, the uploader waits for the answer to it.
LEMMA Underway ==
    ASSUME RomTyped, ProgramInv, up # <<>>, ~Lost
    PROVE  /\ host.wait # 0 /\ host.at \in ErasePlaces \cup ProgramPlaces /\ Told /\ AnswerInv
           /\ \E t \in Nat : Under(Monitor!Message, t) /\ t < Len(Monitor!Message) + 2
<1>1. Len(Rest) >= 1 /\ Len(Rest) \in Nat /\ Rest # <<>>
    <2>1. up \in Seq(Nat) /\ host.send \in Seq(Nat)
        BY DEF RomTyped, Hosts
    <2>2. Len(up \o host.send) >= 1 /\ Len(up \o host.send) \in Nat /\ up \o host.send # <<>>
        BY <2>1
    <2> QED
        BY <2>2 DEF Rest
<1>2. host.wait # 0 /\ InFlight
    BY <1>1 DEF ProgramInv
<1>3. host.at \in ErasePlaces \cup ProgramPlaces
    BY <1>2 DEF RomTyped
<1>4. Told
    BY <1>3, MessageTold
<1>5. AnswerInv
    BY <1>3 DEF ProgramInv, ErasePlaces, ProgramPlaces
<1>6. ASSUME NEW t \in Nat, Under(Monitor!Message, t) PROVE t < Len(Monitor!Message) + 2
    <2>1. Len(Monitor!Message) \in Nat /\ Len(Rest) = Len(Monitor!Message) + 2 - t
        BY <1>4, <1>6 DEF Told, Under
    <2> QED
        BY <1>1, <2>1
<1> QED
    BY <1>2, <1>3, <1>4, <1>5, <1>6 DEF InFlight

LEMMA NextItem ==
    ASSUME RomTyped, NEW M \in Seq(Nat), NEW t \in Nat, Under(M, t), up # <<>>, up' = Tail(up), host' = host
    PROVE  /\ Head(up) = ItemOf(M, t + 1) /\ t + 1 \in 0 .. Len(M) + 2
           /\ Len(Rest') = Len(M) + 2 - (t + 1)
           /\ \A i \in 1 .. Len(Rest') : Rest'[i] = ItemOf(M, t + 1 + i)
<1>1. /\ Len(Rest) \in Nat /\ Len(Rest) >= 1 /\ Rest[1] = Head(up)
      /\ Len(Rest') = Len(Rest) - 1 /\ \A i \in 1 .. Len(Rest') : Rest'[i] = Rest[i + 1]
    BY FirstItem
<1>2. /\ Len(M) \in Nat /\ t \in 0 .. Len(M) + 2 /\ Len(Rest) = Len(M) + 2 - t
      /\ \A i \in 1 .. Len(Rest) : Rest[i] = ItemOf(M, t + i)
    BY DEF Under
<1>3. 1 \in 1 .. Len(Rest) /\ t + 1 \in 0 .. Len(M) + 2 /\ Len(Rest') = Len(M) + 2 - (t + 1)
    BY <1>1, <1>2
<1>4. ASSUME NEW i \in 1 .. Len(Rest') PROVE Rest'[i] = ItemOf(M, t + 1 + i)
    <2>1. i + 1 \in 1 .. Len(Rest) /\ t + (i + 1) = t + 1 + i
        BY <1>1, <1>2
    <2>2. Rest[i + 1] = ItemOf(M, t + (i + 1))
        BY <1>2, <2>1, Zenon
    <2> QED
        BY <1>1, <2>1, <2>2
<1> QED
    BY <1>1, <1>2, <1>3, <1>4

\* A cell of what is written lies within the file.
Within(a, d, k, p, e, b) ==
    /\ a \in Nat /\ d \in Nat /\ k \in Nat /\ p \in Nat /\ e \in Nat /\ b \in Nat
    /\ a >= d /\ a <= d + k - 1 /\ p + k <= e /\ d = b + p
LEMMA WithinFile ==
    ASSUME NEW a, NEW d, NEW k, NEW p, NEW e, NEW b, Within(a, d, k, p, e, b)
    PROVE  a - b < e /\ a >= b
BY DEF Within

LEMMA BehindStays ==
    ASSUME NEW b \in Nat, NEW s \in Nat, NEW p \in Nat, NEW e \in Nat, NEW i \in 1 .. p,
           p <= e, b + e <= s
    PROVE  b + i - 1 \in 0 .. s - 1 /\ ~(b + i - 1 >= b + p)
OBVIOUS

\* What a message does to the flash when it ends.
LEMMA MessageEnds ==
    ASSUME RomTyped, FlashSound, Told, host.at \in ErasePlaces \cup ProgramPlaces, host' = host,
           NEW g, FlashTyped(g), g.mem = flash.mem, EndedAt(g, flash'), Len(g.got) = Len(Monitor!Message),
           \A i \in 1 .. Len(g.got) :
              g.got[i] = Monitor!Message[i] \/ (i = 1 /\ g.got[i] = 0 /\ host.at \notin Polls \cup {"read"})
    PROVE  /\ FlashSound'
           /\ host.at \in Polls \cup {"read"} => flash'.mem = flash.mem /\ flash'.busy = g.busy
<1> USE DEF Monitor!WRITE_ENABLE, Monitor!BLOCK_ERASE, Monitor!PAGE_PROGRAM, Monitor!FASTREAD,
            Monitor!READ_STATUS
<1> DEFINE n == Len(Monitor!Chunk(host.pos, CHUNKSIZE))
           addr == FlashBase + host.pos
<1>1. /\ host.pos \in Nat /\ Len(host.file) \in Nat /\ FlashBase \in Nat /\ n \in Nat
      /\ host.size \in Nat /\ Len(host.file) <= host.size /\ FlashBase + host.size <= FlashSize
    BY ChunkOfBytes, UploadAssumption DEF RomTyped, Hosts, Reaches
<1>1a. host.at = "program" => host.pos <= Len(host.file) /\ host.pos + n <= Len(host.file)
    <2> SUFFICES ASSUME host.at = "program"
                 PROVE  host.pos <= Len(host.file) /\ host.pos + n <= Len(host.file)
        OBVIOUS
    <2> PICK part : part = Monitor!Chunk(host.pos, CHUNKSIZE)
        OBVIOUS
    <2>1. IsPart(part) /\ Len(part) = n
        BY PartOfFile, UploadAssumption DEF ErasePlaces
    <2>2. host.pos + Len(part) <= Len(host.file)
        BY <2>1 DEF IsPart
    <2> HIDE DEF n
    <2> QED
        BY <1>1, <2>1, <2>2
<1> HIDE DEF n
<1>2. /\ g.got \in Seq(Nat) /\ Len(g.got) \in Nat /\ Len(g.got) >= 1
      /\ g.got[1] = Monitor!Message[1] \/ (g.got[1] = 0 /\ host.at \notin Polls \cup {"read"})
      /\ Len(g.got) >= 2 => g.got[2] = Monitor!Message[2]
    <2>1. g.got \in Seq(Nat) /\ Len(g.got) >= 1 /\ Len(g.got) \in Nat
        BY DEF FlashTyped, Told
    <2>2. 1 \in 1 .. Len(g.got) /\ (Len(g.got) >= 2 => 2 \in 1 .. Len(g.got))
        BY <2>1
    <2> QED
        BY <2>1, <2>2
<1> PICK c : c = g.got[1]
    OBVIOUS
<1>2a. /\ host.at \in Polls => Monitor!Message[1] = 5
       /\ host.at = "read" => Monitor!Message[1] = 11
       /\ host.at \in {"erase enable", "program enable"} => Monitor!Message[1] = 6
       /\ host.at = "erase" =>
            Monitor!Message[1] = 216 /\ Monitor!Message[2] = addr /\ Len(Monitor!Message) = 2
       /\ host.at = "program" =>
            Monitor!Message[1] = 2 /\ Monitor!Message[2] = addr /\ Len(Monitor!Message) = 2 + n
    BY DEF Told, n
<1>2b. /\ c = 216 => host.at = "erase"
       /\ c = 2 => host.at = "program"
    <2>1. c = Monitor!Message[1] \/ c = 0
        BY <1>2
    <2>2. host.at \in Polls \cup {"read", "erase enable", "program enable", "erase", "program"}
        BY DEF ErasePlaces, ProgramPlaces, Polls
    <2> PICK b : b = Monitor!Message[1]
        OBVIOUS
    <2>3. /\ host.at \in Polls => b = 5
          /\ host.at = "read" => b = 11
          /\ host.at \in {"erase enable", "program enable"} => b = 6
          /\ host.at = "erase" => b = 216
          /\ host.at = "program" => b = 2
        BY <1>2a, Zenon
    <2> PICK at : at = host.at
        OBVIOUS
    <2>4. at \in Polls \/ at \in {"read", "erase enable", "program enable", "erase", "program"}
        BY <2>2
    <2>5. /\ at \in Polls => b = 5
          /\ at = "read" => b = 11
          /\ at \in {"erase enable", "program enable"} => b = 6
          /\ at = "erase" => b = 216
          /\ at = "program" => b = 2
        BY <2>3, Zenon
    <2>6. \/ b = 5 \/ b = 11 \/ b = 6
          \/ b = 216 /\ at = "erase"
          \/ b = 2 /\ at = "program"
        BY <2>4, <2>5, Zenon
    <2>7. c = b \/ c = 0
        BY <2>1
    <2> QED
        BY <2>6, <2>7
<1>3. host.at \in Polls \cup {"read"} => c # 216 /\ c # 2
    BY <1>2b DEF Polls
<1>4. host.at \in Polls \cup {"read"} => flash'.mem = flash.mem /\ flash'.busy = g.busy
    BY <1>3 DEF EndedAt
<1>4a. Len(g.got) = Len(Monitor!Message)
    OBVIOUS
<1>5. CASE flash'.mem = flash.mem
    BY <1>4, <1>5 DEF FlashSound, BlocksKept, InBlocks, Verified
<1>6. CASE /\ g.got[1] = Monitor!BLOCK_ERASE
           /\ \A a \in Monitor!Addresses :
                flash'.mem[a] # flash.mem[a] => a \div BLOCK = g.got[2] \div BLOCK
    <2>1. host.at = "erase"
        BY <1>2b, <1>6
    <2>2. g.got[2] = addr /\ host.pos < host.size /\ host.pos % BLOCK = 0
        <3>1. Len(g.got) = 2 /\ Monitor!Message[2] = addr
            BY <1>2a, <1>4a, <2>1
        <3> QED
            BY <1>2, <2>1, <3>1 DEF FlashSound, ErasePlaces
    <2>3. BlocksKept'
        <3> SUFFICES ASSUME NEW a \in Monitor!Addresses, flash'.mem[a] # 7 PROVE InBlocks(a)
            BY DEF BlocksKept, InBlocks
        <3>1. CASE flash'.mem[a] = flash.mem[a]
            BY <3>1 DEF FlashSound, BlocksKept
        <3>2. CASE flash'.mem[a] # flash.mem[a]
            BY <1>6, <2>2, <3>2, BlockOfFile
        <3> QED
            BY <3>1, <3>2
    <2> QED
        BY <1>4, <2>1, <2>2, <2>3 DEF FlashSound, ErasePlaces
<1>7. CASE /\ g.got[1] = Monitor!PAGE_PROGRAM
           /\ \A a \in Monitor!Addresses :
                flash'.mem[a] # flash.mem[a] => a - g.got[2] + 3 \in 3 .. Len(g.got)
    <2>1. host.at = "program"
        BY <1>2b, <1>7
    <2>2. g.got[2] = addr /\ Len(g.got) = 2 + n /\ addr \in Nat
        <3>1. Len(g.got) = 2 + n /\ Monitor!Message[2] = addr
            BY <1>2a, <1>4a, <2>1
        <3> QED
            BY <1>1, <1>2, <3>1
    <2>3. ASSUME NEW a \in Monitor!Addresses, flash'.mem[a] # flash.mem[a]
          PROVE  a \in Nat /\ a >= addr /\ a - FlashBase < Len(host.file) /\ a >= FlashBase
        <3>1. a - addr + 3 \in 3 .. 2 + n
            BY <1>7, <2>2, <2>3
        <3>2. a \in Nat
            BY UploadAssumption DEF Monitor!Addresses
        <3> PICK d : d = addr
            OBVIOUS
        <3>3. d = FlashBase + host.pos /\ a - d + 3 \in 3 .. 2 + n
            BY <3>1
        <3> PICK k : k = n
            OBVIOUS
        <3>4. d \in Nat /\ k \in Nat /\ a - d + 3 \in 3 .. 2 + k
            BY <1>1, <3>3
        <3>5. a >= d /\ a <= d + k - 1
            BY <3>2, <3>4
        <3> PICK p, e : p = host.pos /\ e = Len(host.file)
            OBVIOUS
        <3>6. p \in Nat /\ e \in Nat /\ p + k <= e /\ d = FlashBase + p /\ FlashBase \in Nat
            BY <1>1, <1>1a, <2>1, <3>3
        <3>7. a - FlashBase < e /\ a >= FlashBase
            <4>1. Within(a, d, k, p, e, FlashBase)
                BY <3>2, <3>4, <3>5, <3>6, Zenon DEF Within
            <4> QED
                BY <4>1, WithinFile, Zenon
        <3> QED
            BY <3>2, <3>5, <3>7
    <2>4. BlocksKept'
        <3> SUFFICES ASSUME NEW a \in Monitor!Addresses, flash'.mem[a] # 7 PROVE InBlocks(a)
            BY DEF BlocksKept, InBlocks
        <3>1. CASE flash'.mem[a] = flash.mem[a]
            BY <3>1 DEF FlashSound, BlocksKept
        <3>2. CASE flash'.mem[a] # flash.mem[a]
            BY <2>3, <3>2, FileInBlocks
        <3> QED
            BY <3>1, <3>2
    <2>5. Verified'
        <3> SUFFICES ASSUME ~host.mismatch, NEW i \in 1 .. host.pos
                     PROVE  flash'.mem[FlashBase + i - 1] = host.file[i]
            BY DEF Verified
        <3>1. flash.mem[FlashBase + i - 1] = host.file[i]
            BY <2>1 DEF FlashSound, Verified, ErasePlaces
        <3>2. FlashBase + i - 1 \in Monitor!Addresses /\ ~(FlashBase + i - 1 >= addr)
            <4>1. FlashBase + Len(host.file) <= FlashSize /\ FlashSize \in Nat
                BY <1>1, UploadAssumption
            <4>2. /\ host.pos \in Nat /\ Len(host.file) \in Nat /\ host.pos <= Len(host.file)
                  /\ FlashBase \in Nat
                BY <1>1, <1>1a, <2>1
            <4> QED
                BY <4>1, <4>2, BehindStays, Zenon DEF Monitor!Addresses
        <3> QED
            BY <2>3, <3>1, <3>2
    <2> QED
        BY <1>4, <2>1, <2>4, <2>5 DEF FlashSound, ErasePlaces
<1> QED
    BY <1>5, <1>6, <1>7 DEF EndedAt

LEMMA PlaceUnder ==
    ASSUME NEW M \in Seq(Nat), NEW t \in Nat, Under(M, t)
    PROVE  /\ rom.at \in {"main", "slen", "sbytes"}
           /\ t < Len(M) + 2 =>
                /\ rom.at = "main" => t = 0
                /\ rom.at = "slen" => t = 1
                /\ rom.at = "sbytes" => t >= 2
<1>1. Len(M) \in Nat /\ t \in 0 .. Len(M) + 2
    BY DEF Under
<1>2. t = 0 \/ t = 1 \/ (t >= 2 /\ t < Len(M) + 2) \/ t = Len(M) + 2
    BY <1>1
<1> QED
    BY <1>1, <1>2 DEF Under

LEMMA InFlash ==
    ASSUME NEW b \in Nat, NEW p \in Nat, NEW n \in Nat, NEW e \in Nat, NEW s \in Nat, NEW i \in Nat,
           p + n <= e, b + e <= s, i >= 4, i - 4 < n
    PROVE  b + p + i - 4 \in 0 .. s - 1
OBVIOUS

\* A step of the monitor takes one more item.
LEMMA ItemTaken ==
    ASSUME RomTyped, NEW M \in Seq(Nat), M = Monitor!Message, NEW t \in Nat, Under(M, t), t < Len(M) + 2,
           Told, AnswerInv, FlashSound, host.at \in ErasePlaces \cup ProgramPlaces, up # <<>>,
           Monitor!Monitor, host' = host, host.wait # 0
    PROVE  Under(M, t + 1)' /\ FlashSound' /\ AnswerInv'
<1>0. /\ Len(M) \in Nat /\ Len(M) >= 1 /\ rom \in Places /\ FlashTyped(flash) /\ down \in Seq(Nat)
      /\ host.wait = Len(M) /\ Monitor!Message' = M
    <2>1. Len(M) \in Nat /\ Len(M) >= 1
        BY DEF Told
    <2>2. Monitor!Message' = Monitor!Message
        BY DEF Monitor!Message, Monitor!Chunk, Monitor!Smaller
    <2> QED
        BY <2>1, <2>2 DEF RomTyped, AnswerInv
<1>1. up' = Tail(up)
    BY DEF Monitor!Monitor, Monitor!Command, Monitor!LoadFromUart, Monitor!Call, Monitor!UartToSpi
<1>2. /\ Head(up) = ItemOf(M, t + 1) /\ t + 1 \in 0 .. Len(M) + 2
      /\ Len(Rest') = Len(M) + 2 - (t + 1)
      /\ \A i \in 1 .. Len(Rest') : Rest'[i] = ItemOf(M, t + 1 + i)
    BY <1>1, NextItem
<1>3. /\ rom.at \in {"main", "slen", "sbytes"} /\ (rom.at = "main" => t = 0) /\ (rom.at = "slen" => t = 1)
      /\ (rom.at = "sbytes" => t >= 2)
    BY PlaceUnder
<1>4. ASSUME flash'.mem = flash.mem PROVE FlashSound'
    BY <1>4 DEF FlashSound, BlocksKept, InBlocks, Verified
<1>5. CASE Monitor!Command
    <2>1. rom.at = "main" /\ t = 0 /\ down' = down /\ rom' = [rom EXCEPT !.at = Monitor!Begins(Head(up))]
        BY <1>3, <1>5 DEF Monitor!Command
    <2>2. Head(up) = Monitor!S /\ flash' = [flash EXCEPT !.sel = TRUE] /\ down = <<>>
        BY <1>2, <1>5, <2>1 DEF Monitor!Command, ItemOf, Under, Monitor!Select
    <2>3. rom'.at = "slen"
        BY <1>0, <2>1, <2>2 DEF Places, Monitor!Begins, Monitor!S, Monitor!U, Monitor!C
    <2>4. flash'.mem = flash.mem /\ flash'.got = flash.got /\ flash.got = <<>> /\ flash'.busy = flash.busy
        BY <1>0, <2>1, <2>2 DEF FlashTyped, RomTyped
    <2>5. Under(M, t + 1)'
        <3>1. t + 1 = 1 /\ ~(t + 1 >= 2) /\ t + 1 # Len(M) + 2
            BY <1>0, <2>1
        <3> QED
            BY <1>2, <2>1, <2>2, <2>3, <2>4, <3>1 DEF Under
    <2>6. AnswerInv'
        <3>1. Len(down') = 0
            BY <2>1, <2>2
        <3> QED
            BY <1>0, <2>1, <2>4, <3>1 DEF AnswerInv
    <2> QED
        BY <1>4, <2>4, <2>5, <2>6
<1>6. CASE Monitor!LoadFromUart \/ Monitor!Call
    BY <1>3, <1>6 DEF Monitor!LoadFromUart, Monitor!Call
<1>7. CASE Monitor!UartToSpi /\ rom.at = "slen"
    <2>1. HandedOn
        BY <1>7, ItemHandedOn
    <2>2. t = 1 /\ Head(up) = Len(M)
        BY <1>2, <1>3, <1>7 DEF ItemOf
    <2>3. /\ flash' = flash /\ down' = down /\ rom' = [rom EXCEPT !.at = "sbytes", !.s0 = Head(up), !.s1 = 0]
        BY <1>0, <1>7, <2>1, <2>2 DEF HandedOn
    <2>4. rom'.at = "sbytes" /\ rom'.s0 = Len(M) /\ rom'.s1 = 0
        BY <1>0, <2>2, <2>3 DEF Places
    <2>5. flash.got = <<>> /\ down = <<>>
        BY <2>2 DEF Under
    <2>6. Under(M, t + 1)'
        <3>1. /\ t + 1 = 2 /\ t + 1 # 0 /\ t + 1 # 1 /\ t + 1 # Len(M) + 2
              /\ t + 1 - 2 = 0 /\ Len(flash') = Len(flash) /\ Len(flash'.got) = 0 /\ Len(down') = 0
              /\ \A i \in 1 .. t + 1 - 2 : FALSE
            BY <1>0, <2>2, <2>3, <2>5
        <3> QED
            BY <1>2, <2>4, <3>1 DEF Under
    <2>7. AnswerInv'
        <3>1. Len(down') = 0
            BY <2>3, <2>5
        <3> QED
            BY <1>0, <2>3, <3>1 DEF AnswerInv
    <2> QED
        BY <1>4, <2>3, <2>6, <2>7
<1>8. CASE Monitor!UartToSpi /\ rom.at = "sbytes"
    <2>1. HandedOn
        BY <1>8, ItemHandedOn
    <2>2. /\ t >= 2 /\ Head(up) = M[t - 1] /\ rom.s0 = Len(M) /\ rom.s1 = t - 2 /\ Len(flash.got) = t - 2
          /\ Len(down) = t - 2
          /\ \A i \in 1 .. t - 2 : \/ flash.got[i] = M[i]
                                   \/ i = 1 /\ flash.got[i] = 0 /\ host.at \notin Polls \cup {"read"}
        <3>1. t >= 2 /\ t + 1 # 1 /\ t + 1 # 2 /\ t + 1 - 2 = t - 1
            BY <1>3, <1>8
        <3>2. Head(up) = M[t - 1]
            BY <1>2, <3>1 DEF ItemOf
        <3>3. /\ t >= 2 => Len(down) = t - 2
              /\ t >= 2 /\ t < Len(M) + 2 =>
                   /\ rom.s0 = Len(M) /\ rom.s1 = t - 2 /\ Len(flash.got) = t - 2
                   /\ \A i \in 1 .. t - 2 : \/ flash.got[i] = M[i]
                                            \/ i = 1 /\ flash.got[i] = 0 /\ host.at \notin Polls \cup {"read"}
            BY Zenon DEF Under
        <3> QED
            BY <3>1, <3>2, <3>3, Zenon
    <2>3. PICK g : /\ Takes(flash, M[t - 1], g) /\ down' = Append(down, g.out) /\ g.out \in Nat
                   /\ \/ ~(rom.s1 + 1 >= rom.s0) /\ flash' = g /\ rom' = [rom EXCEPT !.s1 = rom.s1 + 1]
                      \/ rom.s1 + 1 >= rom.s0 /\ EndedAt(g, flash') /\ rom' = [rom EXCEPT !.at = "main", !.s1 = rom.s1 + 1]
        <3>1. CASE ~(rom.s1 + 1 >= rom.s0)
            <4>1. Takes(flash, M[t - 1], flash') /\ down' = Append(down, flash'.out) /\ rom' = [rom EXCEPT !.s1 = rom.s1 + 1]
                BY <1>8, <2>1, <2>2, <3>1 DEF HandedOn
            <4>2. flash'.out \in Nat
                BY <4>1 DEF Takes, FlashTyped
            <4> QED
                BY <3>1, <4>1, <4>2
        <3>2. CASE rom.s1 + 1 >= rom.s0
            BY <1>8, <2>1, <2>2, <3>2 DEF HandedOn
        <3> QED
            BY <3>1, <3>2
    \* What the flash has been given, and has answered.
    <2>4. /\ FlashTyped(g) /\ g.mem = flash.mem /\ Len(g.got) = t - 1
          /\ \A i \in 1 .. t - 2 : g.got[i] = flash.got[i]
          /\ g.got[t - 1] = M[t - 1] \/ (/\ flash.got = <<>> /\ flash.busy # 0
                                         /\ M[t - 1] # Monitor!READ_STATUS /\ g.got[t - 1] = 0)
        <3>1. Len(flash.got) + 1 = t - 1
            BY <2>2
        <3> QED
            BY <2>2, <2>3, <3>1 DEF Takes
    <2>5. ASSUME NEW i \in 1 .. t - 1
          PROVE  g.got[i] = M[i] \/ (i = 1 /\ g.got[i] = 0 /\ host.at \notin Polls \cup {"read"})
        <3>1. CASE i = t - 1
            <4>1. CASE g.got[t - 1] = M[t - 1]
                BY <3>1, <4>1
            <4>2. CASE /\ flash.got = <<>> /\ flash.busy # 0
                       /\ M[t - 1] # Monitor!READ_STATUS /\ g.got[t - 1] = 0
                <5>1. i = 1
                    BY <2>2, <3>1, <4>2
                <5>2. host.at \notin Polls
                    BY <3>1, <4>2, <5>1 DEF Told
                <5>3. host.at # "read"
                    BY <4>2 DEF AnswerInv
                <5> QED
                    BY <3>1, <4>2, <5>1, <5>2, <5>3
            <4> QED
                BY <2>4, <4>1, <4>2
        <3>2. CASE i # t - 1
            <4>1. i \in 1 .. t - 2
                BY <2>2, <3>2
            <4> QED
                BY <2>2, <2>4, <4>1
        <3> QED
            BY <3>1, <3>2
    <2>6. /\ down' \in Seq(Nat) /\ Len(down') = t - 1 /\ down'[t - 1] = g.out
          /\ \A i \in 1 .. t - 2 : down'[i] = down[i]
        BY <1>0, <2>2, <2>3
    <2>7. \A i \in 1 .. t - 1 : host.at \in Polls \cup {"read"} => g.got[i] = M[i]
        BY <2>5
    <2>8. host.at \in Polls /\ Len(down') >= 2 /\ down'[2] # 1 => g.busy = 0
        <3> SUFFICES ASSUME host.at \in Polls, Len(down') >= 2, down'[2] # 1 PROVE g.busy = 0
            OBVIOUS
        <3>1. Len(M) = 2 /\ M[1] = Monitor!READ_STATUS
            BY DEF Told
        <3>2. t - 1 = 2
            BY <1>2, <2>6, <3>1
        <3>3. flash.got # <<>> /\ flash.got[1] = Monitor!READ_STATUS
            <4>1. Len(flash.got) = 1 /\ 1 \in 1 .. t - 2
                BY <2>2, <3>2
            <4>2. flash.got[1] = M[1]
                BY <2>2, <4>1
            <4> QED
                BY <3>1, <4>1, <4>2
        <3>4. g.out # 1
            BY <2>6, <3>2
        <3> QED
            BY <2>3, <3>3, <3>4 DEF Takes
    <2>8a. Len(down') <= Len(M)
        BY <1>0, <1>2, <2>6
    <2>9. host.at = "read" =>
            /\ g.busy = 0
            /\ \A i \in 4 .. Len(down') : down'[i] = flash.mem[FlashBase + host.pos + i - 4]
        <3> SUFFICES ASSUME host.at = "read"
                     PROVE  /\ g.busy = 0
                            /\ \A i \in 4 .. Len(down') : down'[i] = flash.mem[FlashBase + host.pos + i - 4]
            OBVIOUS
        <3>1. /\ flash.busy = 0
              /\ \A i \in 4 .. Len(down) : down[i] = flash.mem[FlashBase + host.pos + i - 4]
            BY DEF AnswerInv
        <3>2. g.busy = 0
            BY <2>3, <3>1 DEF Takes
        <3>3. ASSUME NEW i \in 4 .. Len(down') PROVE down'[i] = flash.mem[FlashBase + host.pos + i - 4]
            <4>1. CASE i # t - 1
                <5>1. i \in 4 .. Len(down) /\ i \in 1 .. t - 2
                    BY <2>2, <2>6, <4>1
                <5> QED
                    BY <2>6, <3>1, <5>1
            <4>2. CASE i = t - 1
                <5>1. Len(flash.got) = i - 1 /\ i - 1 >= 3 /\ 1 \in 1 .. t - 2 /\ 2 \in 1 .. t - 2
                    <6>1. i \in Nat /\ i >= 4 /\ t - 2 = i - 1 /\ t \in Nat
                        BY <2>6, <4>2
                    <6> QED
                        BY <2>2, <6>1
                <5>2. flash.got[1] = M[1] /\ flash.got[2] = M[2]
                    BY <2>2, <5>1
                <5>3. M[1] = Monitor!FASTREAD /\ M[2] = FlashBase + host.pos
                      /\ Len(M) = 3 + Len(Monitor!Chunk(host.pos, CHUNKSIZE))
                    BY DEF Told
                <5>4. FlashBase + host.pos + i - 4 \in Monitor!Addresses
                      /\ M[2] + Len(flash.got) - 3 = FlashBase + host.pos + i - 4
                    <6>1. PICK part : part = Monitor!Chunk(host.pos, CHUNKSIZE)
                        OBVIOUS
                    <6>2. IsPart(part)
                        BY <6>1, PartOfFile, UploadAssumption DEF ErasePlaces
                    <6>3. part \in Seq(Nat) /\ host.pos + Len(part) <= Len(host.file)
                        BY <6>2 DEF IsPart
                    <6>4. /\ FlashBase \in Nat /\ FlashSize \in Nat /\ Len(host.file) \in Nat
                          /\ FlashBase + Len(host.file) <= FlashSize /\ host.pos \in Nat
                        <7>1. /\ Len(host.file) \in Nat /\ host.size \in Nat /\ Len(host.file) <= host.size
                              /\ FlashBase + host.size <= FlashSize /\ host.pos \in Nat
                            BY DEF RomTyped, Hosts, Reaches
                        <7> QED
                            BY <7>1, UploadAssumption
                    <6> PICK n : n = Len(part)
                        OBVIOUS
                    <6>5. n \in Nat /\ i \in Nat /\ i - 4 < n /\ i >= 4
                        <7>1. n \in Nat /\ Len(M) = 3 + n
                            BY <5>3, <6>1, <6>3
                        <7>2. i <= Len(M) /\ i \in Nat /\ i >= 4
                            BY <1>0, <2>6, <2>8a
                        <7> QED
                            BY <7>1, <7>2
                    <6>6. FlashBase + host.pos + i - 4 \in 0 .. FlashSize - 1
                        <7> PICK p, e : p = host.pos /\ e = Len(host.file)
                            OBVIOUS
                        <7>1. p \in Nat /\ e \in Nat /\ p + n <= e /\ FlashBase + e <= FlashSize
                              /\ FlashBase \in Nat /\ FlashSize \in Nat
                            BY <6>3, <6>4
                        <7>2. FlashBase + p + i - 4 \in 0 .. FlashSize - 1
                            BY <6>5, <7>1, InFlash, Zenon
                        <7> QED
                            BY <7>2
                    <6>7. M[2] + Len(flash.got) - 3 = FlashBase + host.pos + i - 4
                        BY <5>1, <5>3, <6>4, <6>5
                    <6> QED
                        BY <6>6, <6>7 DEF Monitor!Addresses
                <5>5. flash.got[2] + Len(flash.got) - 3 \in Monitor!Addresses /\ Len(flash.got) > 2
                      /\ flash.got[1] = Monitor!FASTREAD
                    BY <5>1, <5>2, <5>3, <5>4
                <5>6. g.out = flash.mem[flash.got[2] + Len(flash.got) - 3]
                    BY <2>3, <5>5 DEF Takes
                <5> QED
                    BY <2>6, <4>2, <5>2, <5>4, <5>6
            <4> QED
                BY <4>1, <4>2
        <3> QED
            BY <3>2, <3>3
    <2>11. CASE ~(rom.s1 + 1 >= rom.s0) /\ flash' = g /\ rom' = [rom EXCEPT !.s1 = rom.s1 + 1]
        <3>1. rom'.at = "sbytes" /\ rom'.s0 = Len(M) /\ rom'.s1 = t - 1
            BY <1>0, <1>8, <2>2, <2>11 DEF Places
        <3>2. Under(M, t + 1)'
            <4>0. t - 2 + 1 = t - 1 /\ ~(t - 1 >= Len(M))
                <5>1. t - 2 + 1 = t - 1
                    OBVIOUS
                <5> QED
                    BY <2>2, <2>11, <5>1
            <4>1. /\ t + 1 # 0 /\ t + 1 # 1 /\ t + 1 >= 2 /\ t + 1 - 2 = t - 1 /\ t + 1 # Len(M) + 2
                  /\ t + 1 < Len(M) + 2
                <5> PICK k : k = Len(M)
                    OBVIOUS
                <5>1. k \in Nat /\ t >= 2 /\ ~(t - 1 >= k)
                    BY <1>0, <2>2, <4>0
                <5>2. /\ t + 1 # 0 /\ t + 1 # 1 /\ t + 1 >= 2 /\ t + 1 - 2 = t - 1 /\ t + 1 # k + 2
                      /\ t + 1 < k + 2
                    BY <5>1
                <5> QED
                    BY <5>2
            <4>2. /\ Len(flash'.got) = t + 1 - 2 /\ Len(down') = t + 1 - 2
                  /\ \A i \in 1 .. t + 1 - 2 :
                       \/ flash'.got[i] = M[i]
                       \/ i = 1 /\ flash'.got[i] = 0 /\ host'.at \notin Polls \cup {"read"}
                BY <2>4, <2>5, <2>6, <2>11, <4>1, Zenon
            <4>3. rom'.s1 = t + 1 - 2 /\ rom'.at = "sbytes" /\ rom'.s0 = Len(M)
                BY <3>1, <4>1
            <4> QED
                BY <1>2, <4>1, <4>2, <4>3 DEF Under
        <3>3. AnswerInv'
            BY <1>0, <2>4, <2>8, <2>9, <2>8a, <2>11 DEF AnswerInv
        <3> QED
            BY <1>4, <2>4, <2>11, <3>2, <3>3
    <2>12. CASE rom.s1 + 1 >= rom.s0 /\ EndedAt(g, flash') /\ rom' = [rom EXCEPT !.at = "main", !.s1 = rom.s1 + 1]
        <3>1. t + 1 = Len(M) + 2 /\ t - 1 = Len(M)
            <4> PICK k : k = Len(M)
                OBVIOUS
            <4>1. k \in Nat /\ t + 1 \in 0 .. k + 2 /\ t - 2 + 1 >= k
                BY <1>0, <1>2, <2>2, <2>12, Zenon
            <4>2. t + 1 = k + 2 /\ t - 1 = k
                BY <4>1
            <4> QED
                BY <4>2
        <3>2. rom'.at = "main"
            BY <1>0, <2>12 DEF Places
        <3>3. Under(M, t + 1)'
            <4>1. /\ t + 1 # 0 /\ t + 1 # 1 /\ t + 1 - 2 = t - 1 /\ ~(t + 1 < Len(M) + 2)
                BY <1>0, <2>2, <3>1
            <4> QED
                BY <1>2, <2>6, <3>1, <3>2, <4>1 DEF Under
        <3>4. Len(g.got) = Len(Monitor!Message)
              /\ \A i \in 1 .. Len(g.got) :
                   g.got[i] = Monitor!Message[i] \/ (i = 1 /\ g.got[i] = 0 /\ host.at \notin Polls \cup {"read"})
            BY <2>4, <2>5, <3>1
        <3>5. /\ FlashSound'
              /\ host.at \in Polls \cup {"read"} => flash'.mem = flash.mem /\ flash'.busy = g.busy
            BY <2>4, <2>12, <3>4, MessageEnds
        <3>6. AnswerInv'
            BY <1>0, <2>8, <2>9, <2>8a, <3>5 DEF AnswerInv
        <3> QED
            BY <3>3, <3>5, <3>6
    <2> QED
        BY <2>3, <2>11, <2>12
<1> QED
    BY <1>3, <1>5, <1>6, <1>7, <1>8 DEF Monitor!Monitor, Monitor!UartToSpi

LEMMA MonitorPrograms ==
    ASSUME RomTyped, ProgramInv, Monitor!Monitor \/ Monitor!Return
    PROVE  ProgramInv'
<1>1. ~Lost /\ host' = host
    BY DEF Monitor!Monitor, Monitor!Command, Monitor!LoadFromUart, Monitor!Call, Monitor!UartToSpi,
           Monitor!Return, Lost
<1>2. CASE Monitor!Return
    <2>1. rom.at = "run"
        BY <1>2 DEF Monitor!Return
    <2>2. host.wait # 0 /\ InFlight
        BY <1>1, <2>1 DEF ProgramInv
    <2>3. host.at \in ErasePlaces \cup ProgramPlaces
        BY <2>2 DEF RomTyped
    <2>4. Monitor!Message \in Seq(Nat)
        BY <2>3, MessageTold DEF Told
    <2>5. rom.at \in {"main", "slen", "sbytes"}
        <3>1. PICK t \in Nat : Under(Monitor!Message, t)
            BY <2>2 DEF InFlight
        <3> PICK M : M = Monitor!Message
            OBVIOUS
        <3> QED
            BY <2>4, <3>1, PlaceUnder
    <2> QED
        BY <2>1, <2>5
<1>3. CASE Monitor!Monitor
    <2>1. up # <<>>
        BY <1>3 DEF Monitor!Monitor, Monitor!Command, Monitor!LoadFromUart, Monitor!Call, Monitor!UartToSpi
    <2>2. /\ host.wait # 0 /\ host.at \in ErasePlaces \cup ProgramPlaces /\ Told /\ AnswerInv
          /\ \E t \in Nat : Under(Monitor!Message, t) /\ t < Len(Monitor!Message) + 2
        BY <1>1, <2>1, Underway
    <2> PICK M : M = Monitor!Message
        OBVIOUS
    <2>3. PICK t \in Nat : Under(M, t) /\ t < Len(M) + 2
        BY <2>2
    <2>4. M \in Seq(Nat) /\ FlashSound
        BY <2>2 DEF Told, ProgramInv
    <2>5. Under(M, t + 1)' /\ FlashSound' /\ AnswerInv'
        BY <1>1, <1>3, <2>1, <2>2, <2>3, <2>4, ItemTaken
    <2>6. InFlight'
        <3>1. Monitor!Message' = M
            BY <1>1 DEF Monitor!Message, Monitor!Chunk, Monitor!Smaller
        <3>2. t + 1 \in Nat
            OBVIOUS
        <3> QED
            BY <2>5, <3>1, <3>2 DEF InFlight
    <2> QED
        BY <1>1, <2>2, <2>5, <2>6 DEF ProgramInv
<1> QED
    BY <1>2, <1>3

\* Nothing more is under way once the uploader has all of an answer.
LEMMA AnswerWhole ==
    ASSUME RomTyped, ProgramInv, Monitor!Receive
    PROVE  /\ host.at \in ErasePlaces \cup ProgramPlaces /\ Told /\ AnswerInv
           /\ Len(down) = host.wait /\ host.wait = Len(Monitor!Message)
           /\ ~Lost => Rest = <<>> /\ rom.at = "main"
<1>1. host.wait \in Nat /\ host.wait > 0 /\ host.wait # 0 /\ Len(down) >= host.wait /\ down \in Seq(Nat)
    BY DEF RomTyped, Hosts, Monitor!Receive
<1>2. host.at \in ErasePlaces \cup ProgramPlaces
    BY <1>1 DEF RomTyped
<1>3. Told /\ AnswerInv
    BY <1>2, MessageTold DEF ProgramInv, ErasePlaces, ProgramPlaces
<1> PICK M : M = Monitor!Message
    OBVIOUS
<1>4. Len(down) = host.wait /\ host.wait = Len(M) /\ Len(M) \in Nat /\ Len(M) >= 1 /\ M \in Seq(Nat)
    <2>1. M \in Seq(Nat) /\ Len(M) \in Nat /\ Len(M) >= 1
        BY <1>3 DEF Told
    <2>2. host.wait = Len(M) /\ Len(down) <= host.wait
        BY <1>1, <1>3 DEF AnswerInv
    <2>3. Len(down) \in Nat
        BY <1>1
    <2> QED
        BY <1>1, <2>1, <2>2, <2>3
<1>5. ASSUME ~Lost PROVE Rest = <<>> /\ rom.at = "main"
    <2>1. PICK t \in Nat : Under(M, t)
        BY <1>1, <1>5 DEF ProgramInv, InFlight
    <2>2. Len(down) = Len(M) /\ Len(M) >= 1 /\ Len(M) \in Nat /\ down # <<>>
        BY <1>1, <1>4
    <2>3. /\ t \in 0 .. Len(M) + 2 /\ Len(Rest) = Len(M) + 2 - t /\ t # 0 /\ t # 1
          /\ t >= 2 => Len(down) = t - 2
          /\ t = Len(M) + 2 => rom.at = "main"
        BY <2>1, <2>2 DEF Under
    <2>4. t = Len(M) + 2
        BY <2>2, <2>3
    <2>5. Len(Rest) = 0
        BY <2>2, <2>3, <2>4
    <2>6. Rest \in Seq(Nat)
        <3>1. up \in Seq(Nat) /\ host.send \in Seq(Nat)
            BY DEF RomTyped, Hosts
        <3> QED
            BY <3>1 DEF Rest
    <2> QED
        BY <2>3, <2>4, <2>5, <2>6
<1> QED
    BY <1>2, <1>3, <1>4, <1>5

\* What has been read back and compared is in the flash.
LEMMA ReadVerifies ==
    ASSUME RomTyped, ProgramInv, Monitor!Receive, AnswerTaken, host.at = "read"
    PROVE  Verified'
<1> SUFFICES ASSUME ~host'.mismatch, NEW i \in 1 .. host'.pos
             PROVE  flash.mem[FlashBase + i - 1] = host.file[i]
    BY DEF Verified, AnswerTaken, Monitor!Receive
<1> PICK part : part = Monitor!Chunk(host.pos, CHUNKSIZE)
    OBVIOUS
<1> PICK answer : answer = SubSeq(down, 1, host.wait)
    OBVIOUS
<1>1. /\ part \in Seq(Nat) /\ \A j \in 1 .. Len(part) : part[j] = host.file[host.pos + j]
    <2>1. IsPart(part)
        BY PartOfFile, UploadAssumption DEF ErasePlaces
    <2> QED
        BY <2>1 DEF IsPart
<1>2. host'.pos = host.pos + Len(part) /\ ~host.mismatch /\ Monitor!Compares(answer, part)
    BY DEF AnswerTaken
<1>3. Told /\ AnswerInv /\ Len(down) = host.wait /\ host.wait = Len(Monitor!Message)
    BY AnswerWhole
<1> PICK n, p : n = Len(part) /\ p = host.pos
    OBVIOUS
<1>4. n \in Nat /\ p \in Nat /\ Len(down) = 3 + n /\ down \in Seq(Nat) /\ host.wait = 3 + n
    BY <1>1, <1>3 DEF Told, RomTyped, Hosts
<1>5. answer \in Seq(Nat) /\ Len(answer) = 3 + n /\ \A j \in 1 .. 3 + n : answer[j] = down[j]
    <2>1. answer = SubSeq(down, 1, 3 + n)
        BY <1>4
    <2> QED
        BY <1>4, <2>1
<1>6. \A j \in 1 .. n : part[j] = answer[3 + j]
    <2>1. part = SubSeq(answer, 4, 3 + n)
        BY <1>2, <1>5 DEF Monitor!Compares
    <2>2. 3 + 1 = 4 /\ 3 <= 3 + n /\ 3 + n <= Len(answer) /\ 3 + n \in Nat /\ 3 \in Nat
        BY <1>4, <1>5
    <2>3. \A j \in 1 .. Len(SubSeq(answer, 3 + 1, 3 + n)) : SubSeq(answer, 3 + 1, 3 + n)[j] = answer[3 + j]
        BY <1>5, <2>2, ItemsBetween, Zenon
    <2> QED
        BY <2>1, <2>2, <2>3, Zenon
<1>7. CASE i <= p
    <2>1. i \in 1 .. host.pos
        BY <1>4, <1>7
    <2> QED
        BY <1>2, <2>1 DEF ProgramInv, FlashSound, Verified, ErasePlaces
<1>8. CASE i > p
    <2>1. i \in 1 .. p + n
        BY <1>2
    <2>2. PICK j \in 1 .. n : i = p + j
        <3>1. i - p \in 1 .. n /\ i = p + (i - p)
            BY <1>4, <1>8, <2>1
        <3> QED
            BY <3>1
    <2>3. part[j] = host.file[i] /\ part[j] = answer[3 + j]
        BY <1>1, <1>6, <2>2
    <2>4. 3 + j \in 1 .. 3 + n /\ 3 + j \in 4 .. Len(down)
        BY <1>4
    <2>5. answer[3 + j] = down[3 + j] /\ down[3 + j] = flash.mem[FlashBase + host.pos + (3 + j) - 4]
        BY <1>3, <1>5, <2>4 DEF AnswerInv
    <2>6. FlashBase + p + (3 + j) - 4 = FlashBase + i - 1
        <3>1. j \in Nat /\ p \in Nat /\ FlashBase \in Nat /\ i = p + j
            BY <1>4, <2>2, UploadAssumption
        <3>2. \A a \in Nat, b \in Nat, c \in Nat : a + b + (3 + c) - 4 = a + (b + c) - 1
            OBVIOUS
        <3> QED
            BY <3>1, <3>2, Zenon
    <2> QED
        BY <2>3, <2>5, <2>6
<1> QED
    BY <1>2, <1>4, <1>7, <1>8

LEMMA UploaderPrograms ==
    ASSUME RomTyped, ProgramInv, Monitor!Uploader
    PROVE  ProgramInv'
<1>0. /\ host.at \in ErasePlaces \cup ProgramPlaces \cup {"end"} /\ host \in Hosts /\ up \in Seq(Nat)
      /\ host.send \in Seq(Nat) /\ down \in Seq(Nat)
    BY DEF ProgramInv, RomTyped, Hosts
<1>1. CASE Monitor!ToggleReset \/ Monitor!UploadFile
    BY <1>0, <1>1 DEF Monitor!ToggleReset, Monitor!UploadFile, ErasePlaces, ProgramPlaces
<1>2. CASE Monitor!HostSends
    <2>1. /\ host.send # <<>> /\ up' = Append(up, Head(host.send)) /\ UNCHANGED <<rom, ram, flash, down>>
          /\ host' = [host EXCEPT !.send = Tail(host.send)]
        BY <1>2 DEF Monitor!HostSends
    <2>2. /\ host'.send = Tail(host.send) /\ host'.at = host.at /\ host'.pos = host.pos
          /\ host'.file = host.file /\ host'.size = host.size /\ host'.wait = host.wait
          /\ host'.mismatch = host.mismatch
        BY <1>0, <2>1 DEF Hosts
    <2>3. Rest' = Rest
        <3>1. Rest' = Append(up, Head(host.send)) \o Tail(host.send)
            BY <2>1, <2>2 DEF Rest
        <3>2. Append(up, Head(host.send)) \o Tail(host.send) = up \o host.send
            BY <1>0, <2>1, ItemMoved
        <3> QED
            BY <3>1, <3>2 DEF Rest
    <2>4. Monitor!Message' = Monitor!Message
        BY <2>2 DEF Monitor!Message, Monitor!Chunk, Monitor!Smaller
    <2>5. ASSUME NEW M, NEW t, Under(M, t) PROVE Under(M, t)'
        BY <2>1, <2>2, <2>3, <2>5 DEF Under
    <2>6. InFlight => InFlight'
        BY <2>4, <2>5 DEF InFlight
    <2>7. FlashSound' /\ (AnswerInv => AnswerInv') /\ Lost' = Lost
        BY <2>1, <2>2, <2>4 DEF ProgramInv, FlashSound, BlocksKept, InBlocks, Verified, AnswerInv, Lost
    <2> QED
        BY <1>0, <2>1, <2>2, <2>3, <2>6, <2>7 DEF ProgramInv
<1>3. CASE Monitor!WriteToSPI
    <2> PICK M : M = Monitor!Message
        OBVIOUS
    <2>1. /\ host.send = <<>> /\ host.wait = 0 /\ UNCHANGED <<rom, ram, flash, up>> /\ down' = <<>>
          /\ host.at \in ErasePlaces \cup ProgramPlaces
          /\ host' = [host EXCEPT !.at = host.at, !.send = <<Monitor!S, Len(M)>> \o M, !.wait = Len(M)]
        BY <1>0, <1>3 DEF Monitor!WriteToSPI, Monitor!Sends, Monitor!Ready
    <2>2. M \in Seq(Nat) /\ Len(M) \in Nat /\ Len(M) >= 1
        BY <2>1, MessageTold DEF Told
    <2> PICK n : n = Len(M)
        OBVIOUS
    <2> PICK items : items = <<Monitor!S, n>> \o M
        OBVIOUS
    <2>3. /\ host'.send = items /\ host'.wait = n /\ host'.at = host.at /\ host'.pos = host.pos
          /\ host'.file = host.file /\ host'.size = host.size /\ host'.mismatch = host.mismatch
          /\ items \in Seq(Nat)
        <3>1. items \in Seq(Nat)
            BY <2>2 DEF Monitor!S
        <3> QED
            BY <1>0, <2>1, <2>2, <3>1 DEF Hosts
    <2>4. Monitor!Message' = M
        BY <2>3 DEF Monitor!Message, Monitor!Chunk, Monitor!Smaller
    <2>5. /\ Len(items) = n + 2 /\ \A i \in 1 .. n + 2 : items[i] = ItemOf(M, i)
        BY <2>2 DEF ItemOf, Monitor!S
    <2>6. ASSUME ~Lost PROVE InFlight'
        <3>1. Rest = <<>> /\ rom.at = "main"
            BY <2>1, <2>6 DEF ProgramInv
        <3>2. up = <<>>
            <4>1. up \o <<>> = up
                BY <1>0
            <4> QED
                BY <2>1, <3>1, <4>1 DEF Rest
        <3>3. Rest' = items
            <4>1. <<>> \o items = items
                BY <2>3
            <4> QED
                BY <2>1, <2>3, <3>2, <4>1 DEF Rest
        <3>4. Under(M, 0)'
            <4>1. /\ 0 \in 0 .. n + 2 /\ n + 2 - 0 = n + 2 /\ \A i \in 1 .. n + 2 : 0 + i = i
                  /\ 0 # n + 2 /\ n = Len(M)
                BY <2>2
            <4>2. \A i \in 1 .. Len(Rest') : Rest'[i] = ItemOf(M, 0 + i)
                BY <2>5, <3>3, <4>1
            <4> QED
                BY <2>1, <2>5, <3>1, <3>3, <4>1, <4>2 DEF Under
        <3> QED
            BY <2>4, <3>4 DEF InFlight
    <2>7. AnswerInv'
        <3>1. Len(down') = 0 /\ n = Len(M) /\ n \in Nat /\ \A i \in 4 .. 0 : FALSE
            BY <2>1, <2>2
        <3>2. host.at = "read" => flash.busy = 0
            BY <2>1 DEF ProgramInv, AnswerInv
        <3> QED
            BY <2>1, <2>3, <2>4, <3>1, <3>2 DEF AnswerInv
    <2>8. FlashSound' /\ Lost' = Lost
        BY <2>1, <2>3 DEF ProgramInv, FlashSound, BlocksKept, InBlocks, Verified, Lost
    <2>9. host'.wait # 0 /\ host.at # "end"
        <3>1. host'.wait # 0
            BY <2>2, <2>3
        <3>2. host.at # "end"
            BY <2>1 DEF ErasePlaces, ProgramPlaces
        <3> QED
            BY <3>1, <3>2
    <2> QED
        BY <2>1, <2>3, <2>6, <2>7, <2>8, <2>9 DEF ProgramInv
<1>4. CASE Monitor!Receive
    <2>1. /\ host.at \in ErasePlaces \cup ProgramPlaces /\ Told /\ AnswerInv
          /\ Len(down) = host.wait /\ host.wait = Len(Monitor!Message)
          /\ ~Lost => Rest = <<>> /\ rom.at = "main"
        BY <1>4, AnswerWhole
    <2>2. AnswerTaken
        BY <1>4, ReceiveTaken
    <2>3. UNCHANGED <<rom, ram, flash, up>> /\ down' = <<>> /\ host'.send = host.send /\ host'.wait = 0
          /\ host'.file = host.file /\ host'.size = host.size
        BY <1>4, <2>2 DEF Monitor!Receive, AnswerTaken
    <2>4. Rest' = Rest /\ Lost' = Lost
        BY <2>3 DEF Rest, Lost
    <2>5. BlocksKept'
        BY <2>3 DEF ProgramInv, FlashSound, BlocksKept, InBlocks
    <2> PICK answer : answer = SubSeq(down, 1, host.wait)
        OBVIOUS
    <2> PICK part : part = Monitor!Chunk(host.pos, CHUNKSIZE)
        OBVIOUS
    <2>6. \/ /\ host.at \in ErasePlaces /\ host'.pos = host.pos /\ host'.at \in ErasePlaces
          \/ /\ host.at \in ErasePlaces /\ host'.pos = host.pos + BLOCK /\ host'.at \in ErasePlaces
             /\ host.pos + BLOCK < host.size
          \/ host'.pos = 0 /\ host'.at = "program enable"
          \/ /\ host.at \notin ErasePlaces \cup {"read"} /\ host'.pos = host.pos
             /\ host'.mismatch = host.mismatch /\ host'.at \in ProgramPlaces
             /\ host'.at = "read" => host.at = "read busy" /\ answer[2] # 1
          \/ /\ host.at = "read" /\ host'.pos = host.pos + Len(part)
             /\ host'.at = (IF part = <<>> THEN "end" ELSE "program enable")
        BY <2>2 DEF AnswerTaken, ErasePlaces, ProgramPlaces
    <2>7. host'.at = "read" => flash.busy = 0
        <3> SUFFICES ASSUME host'.at = "read" PROVE flash.busy = 0
            OBVIOUS
        <3>1. host.at = "read busy" /\ answer[2] # 1
            BY <2>6 DEF ErasePlaces
        <3>2. Len(Monitor!Message) = 2
            BY <2>1, <3>1 DEF Told, Polls
        <3>3. answer[2] = down[2]
            BY <1>0, <2>1, <3>2
        <3> QED
            BY <2>1, <3>1, <3>2, <3>3 DEF AnswerInv, Polls
    <2>8. AnswerInv'
        <3>1. Len(down') = 0 /\ \A i \in 4 .. 0 : FALSE
            BY <2>3
        <3> QED
            BY <2>3, <2>7, <3>1 DEF AnswerInv
    <2>9. IF host'.at \in ErasePlaces THEN host'.pos < host'.size /\ host'.pos % BLOCK = 0
          ELSE Verified'
        <3>1. CASE host.at \in ErasePlaces /\ host'.pos = host.pos /\ host'.at \in ErasePlaces
            BY <2>3, <3>1 DEF ProgramInv, FlashSound
        <3>2. CASE /\ host.at \in ErasePlaces /\ host'.pos = host.pos + BLOCK /\ host'.at \in ErasePlaces
                   /\ host.pos + BLOCK < host.size
            <4>1. host.pos \in Nat /\ host.pos % BLOCK = 0
                BY <1>0, <3>2 DEF Hosts, ProgramInv, FlashSound
            <4>2. (host.pos + BLOCK) % BLOCK = 0
                BY <4>1, NextBlock
            <4> QED
                BY <2>3, <3>2, <4>2, Zenon
        <3>3. CASE host'.pos = 0 /\ host'.at = "program enable"
            <4>1. Verified'
                <5>1. \A i \in 1 .. 0 : FALSE
                    OBVIOUS
                <5>2. \A i \in 1 .. host'.pos : FALSE
                    BY <3>3, <5>1, Zenon
                <5> QED
                    BY <5>2 DEF Verified
            <4> QED
                BY <3>3, <4>1 DEF ErasePlaces
        <3>4. CASE /\ host.at \notin ErasePlaces \cup {"read"} /\ host'.pos = host.pos
                   /\ host'.mismatch = host.mismatch /\ host'.at \in ProgramPlaces
            <4>1. Verified'
                BY <2>3, <3>4 DEF ProgramInv, FlashSound, Verified
            <4> QED
                BY <3>4, <4>1 DEF ErasePlaces, ProgramPlaces
        <3>5. CASE host.at = "read" /\ host'.at \in {"end", "program enable"}
            <4>1. Verified'
                BY <1>4, <2>2, <3>5, ReadVerifies
            <4> QED
                BY <3>5, <4>1 DEF ErasePlaces
        <3> QED
            BY <2>6, <3>1, <3>2, <3>3, <3>4, <3>5
    <2>10. host'.at = "end" => host'.pos = Len(host'.file)
        <3> SUFFICES ASSUME host'.at = "end" PROVE host'.pos = Len(host.file)
            BY <2>3
        <3>1. part = <<>> /\ host'.pos = host.pos + Len(part)
            BY <2>6 DEF ErasePlaces, ProgramPlaces
        <3>2. IsPart(part)
            <4>1. host.at = "read"
                BY <2>6 DEF ErasePlaces, ProgramPlaces
            <4> QED
                BY <4>1, PartOfFile, UploadAssumption DEF ErasePlaces
        <3>3. host.pos = Len(host.file) /\ Len(part) = 0 /\ host.pos \in Nat
            BY <1>0, <3>1, <3>2 DEF IsPart, Hosts
        <3> QED
            BY <3>1, <3>3
    <2>11. host'.at \in ErasePlaces \cup ProgramPlaces \cup {"end"}
        BY <2>6 DEF ErasePlaces, ProgramPlaces
    <2> QED
        BY <2>1, <2>3, <2>4, <2>5, <2>8, <2>9, <2>10, <2>11 DEF ProgramInv, FlashSound
<1> QED
    BY <1>1, <1>2, <1>3, <1>4 DEF Monitor!Uploader

-----------------------------------------------------------------------------
(* The monitor and the uploader together. *)

RunsBy == rom.at = "run" => rom.by \in {"call", "flash"}

RomInv ==
    /\ RomTyped /\ RunsBy
    /\ host.at = "start" => StartInv
    /\ host.at # "start" /\ host.task = "upload" => UploadInv
    /\ host.at # "start" /\ host.task = "program" => ProgramInv

LEMMA RomInit == Monitor!Init => RomInv
<1> SUFFICES ASSUME Monitor!Init PROVE RomInv
    OBVIOUS
<1>1. rom \in Places /\ rom.at = "main" /\ up = <<>> /\ down = <<>> /\ <<>> \in Seq(Nat)
    BY DEF Monitor!Init, Monitor!Start, Places
<1>2. /\ host.at = "start" /\ host.pos = 0 /\ host.send = <<>> /\ host.wait = 0 /\ ~host.mismatch
      /\ host \in Hosts /\ Reaches(host)
    <2>1. PICK all \in Files, task \in {"upload", "program"} : \E n \in 0 .. Len(all) :
             host = [at |-> "start", file |-> SubSeq(all, 1, n), size |-> Len(all), task |-> task,
                     pos |-> 0, send |-> <<>>, wait |-> 0, mismatch |-> FALSE]
        BY DEF Monitor!Init
    <2>2. all \in Seq(0 .. 255) /\ Len(all) \in Nat /\ FlashBase + Len(all) <= FlashSize
        BY UploadAssumption
    <2>3. PICK n \in 0 .. Len(all) :
             host = [at |-> "start", file |-> SubSeq(all, 1, n), size |-> Len(all), task |-> task,
                     pos |-> 0, send |-> <<>>, wait |-> 0, mismatch |-> FALSE]
        BY <2>1
    <2> PICK part : part = SubSeq(all, 1, n)
        OBVIOUS
    <2>4. part \in Seq(0 .. 255) /\ Len(part) = n
        <3>1. n \in Nat /\ 1 \in Int /\ n \in Int /\ n - 1 + 1 = n /\ (1 <= n \/ n = 0)
            BY <2>2
        <3>2. \A i \in 1 .. n : all[i] \in 0 .. 255
            <4>1. \A i \in 1 .. n : i \in 1 .. Len(all)
                BY <2>2
            <4> QED
                BY <2>2, <4>1, ElementOfSeq, Zenon
        <3>3. part \in Seq(0 .. 255) /\ Len(part) = IF 1 <= n THEN n - 1 + 1 ELSE 0
            BY <3>1, <3>2, SubSeqProperties
        <3> QED
            BY <3>1, <3>3
    <2>5. /\ host \in Hosts /\ host.file = part /\ host.size = Len(all) /\ host.pos = 0
          /\ host.at = "start"
        BY <1>1, <2>2, <2>3, <2>4 DEF Hosts
    <2>6. n \in Nat /\ 0 <= n /\ n <= Len(all)
        BY <2>2
    <2>7. Reaches(host)
        BY <2>2, <2>4, <2>5, <2>6 DEF Reaches, ErasePlaces
    <2> QED
        BY <2>3, <2>5, <2>7
<1>3. FlashTyped(flash) /\ ~flash.sel /\ flash.got = <<>> /\ Untouched
    BY <1>1 DEF Monitor!Init, FlashTyped, Untouched
<1>4. DOMAIN ram = 0 .. FlashSize - 1
    BY DEF Monitor!Init
<1> QED
    BY <1>1, <1>2, <1>3, <1>4 DEF RomInv, RomTyped, RunsBy, StartInv, Lost

LEMMA PlacesKept ==
    ASSUME RomInv, Monitor!Next
    PROVE  RomTyped' /\ RunsBy'
<1>0. RomTyped /\ RunsBy
    BY DEF RomInv
<1>1. CASE Monitor!LoadFromSpi
    BY <1>0, <1>1, PageRuns DEF RunsBy, Lost
<1>2. CASE Monitor!Uploader
    <2>1. rom' = rom \/ rom'.at = "main"
        <3>1. CASE Monitor!ToggleReset
            BY <3>1 DEF Monitor!ToggleReset, Monitor!Start
        <3>2. CASE Monitor!HostSends \/ Monitor!UploadFile \/ Monitor!WriteToSPI \/ Monitor!Receive
            BY <3>2 DEF Monitor!HostSends, Monitor!UploadFile, Monitor!WriteToSPI, Monitor!Receive
        <3> QED
            BY <1>2, <3>1, <3>2 DEF Monitor!Uploader
    <2> QED
        BY <1>0, <1>2, <2>1, TypesKeptByUploader DEF RunsBy
<1>3. CASE Monitor!Monitor \/ Monitor!Return
    <2>1. RomTyped' /\ rom \in Places
        BY <1>0, <1>3, TypesKeptByMonitor DEF RomTyped
    <2>2. RunsBy'
        <3>1. CASE Monitor!Command
            <4>1. rom' = [rom EXCEPT !.at = Monitor!Begins(Head(up))]
                BY <3>1 DEF Monitor!Command
            <4>2. Monitor!Begins(Head(up)) # "run"
                BY DEF Monitor!Begins
            <4> QED
                BY <2>1, <4>1, <4>2 DEF Places, RunsBy
        <3>2. CASE Monitor!LoadFromUart
            BY <1>0, <3>2, ItemLoaded DEF LoadedItem, RunsBy
        <3>3. CASE Monitor!Call
            BY <2>1, <3>3 DEF Monitor!Call, Places, RunsBy
        <3>4. CASE Monitor!Return
            BY <2>1, <3>4 DEF Monitor!Return, Places, RunsBy
        <3>5. CASE Monitor!UartToSpi
            <4>1. HandedOn
                BY <1>0, <3>5, ItemHandedOn
            <4>2. rom'.at \in {"sbytes", "main"}
                BY <2>1, <4>1 DEF HandedOn, Places
            <4> QED
                BY <4>2 DEF RunsBy
        <3> QED
            BY <1>3, <3>1, <3>2, <3>3, <3>4, <3>5 DEF Monitor!Monitor
    <2> QED
        BY <2>1, <2>2
<1> QED
    BY <1>1, <1>2, <1>3 DEF Monitor!Next

\* The board is reset, and the uploader begins.
LEMMA ResetStep ==
    ASSUME RomTyped, StartInv, Monitor!ToggleReset
    PROVE  /\ host'.at # "start"
           /\ host'.task = "upload" => UploadInv'
           /\ host'.task = "program" => ProgramInv'
<1>1. /\ rom' = Monitor!Start /\ rom'.at = "main" /\ up' = <<>> /\ down' = <<>>
      /\ flash' = [flash EXCEPT !.sel = FALSE, !.got = <<>>]
      /\ \E at \in Monitor!FirstPlaces : host' = [host EXCEPT !.at = at]
    BY DEF Monitor!ToggleReset, Monitor!Start
<1>2. /\ host'.file = host.file /\ host'.size = host.size /\ host'.task = host.task /\ host'.pos = 0
      /\ host'.send = <<>> /\ host'.wait = 0 /\ host'.mismatch = host.mismatch /\ Len(host.file) \in Nat
      /\ host'.at \in {"upload", "program enable", "erase enable"}
      /\ host'.task = "upload" => host'.at = "upload"
      /\ host'.task = "program" => host'.at # "upload"
      /\ host'.at = "erase enable" => host.size > 0
    <2>1. PICK at \in Monitor!FirstPlaces : host' = [host EXCEPT !.at = at]
        BY <1>1
    <2>2. /\ at \in {"upload", "program enable", "erase enable"}
          /\ host.task = "upload" => at = "upload"
          /\ host.task = "program" => at # "upload"
          /\ at = "erase enable" => host.size > 0
        BY DEF Monitor!FirstPlaces
    <2>3. host \in Hosts
        BY DEF RomTyped
    <2>4. /\ host'.file = host.file /\ host'.size = host.size /\ host'.task = host.task
          /\ host'.pos = host.pos /\ host'.send = host.send /\ host'.wait = host.wait
          /\ host'.mismatch = host.mismatch /\ host'.at = at
        BY <2>1, <2>3 DEF Hosts
    <2>5. Len(host.file) \in Nat
        <3>1. host.file \in Seq(0 .. 255)
            BY <2>3 DEF Hosts
        <3> QED
            BY <3>1, LenProperties, Zenon
    <2> QED
        BY <2>2, <2>4, <2>5 DEF StartInv
<1>3. flash'.mem = flash.mem /\ Untouched'
    <2>1. flash'.mem = flash.mem
        BY <1>1 DEF RomTyped, FlashTyped
    <2> QED
        BY <2>1 DEF StartInv, Untouched
<1>4. Rest' = <<>> /\ Len(Rest') = 0
    <2>1. Rest' = <<>> \o <<>>
        BY <1>1, <1>2 DEF Rest
    <2>2. <<>> \o <<>> = <<>> /\ Len(<<>>) = 0
        OBVIOUS
    <2> QED
        BY <2>1, <2>2
<1>5. host'.at # "start"
    BY <1>2
<1>6. ASSUME host'.task = "upload" PROVE UploadInv'
    <2> PICK l : l = [i \in 1 .. 1 |-> [kind |-> "command", pos |-> 0, end |-> 0]]
        OBVIOUS
    <2>1. l[1] = [kind |-> "command", pos |-> 0, end |-> 0]
        OBVIOUS
    <2>2. l[1] \in Marks /\ l[1].kind = "command" /\ l[1].pos = 0
        BY <2>1 DEF Marks
    <2>3. host'.at = "upload"
        BY <1>2, <1>6
    <2>4. Sound(l[1])' /\ Expects(l[1])' /\ SendsNext(l[1])' /\ Loaded(l[1].pos)'
        <3>0. \A i \in 1 .. 0 : FALSE
            OBVIOUS
        <3>1. 0 <= Len(host.file) /\ \A i \in 1 .. 0 : FALSE
            <4>1. Len(host.file) \in Nat
                BY <1>2, Zenon
            <4>2. 0 <= Len(host.file)
                BY <4>1
            <4> QED
                BY <3>0, <4>2, Zenon
        <3>2. Sound(l[1])'
            BY <1>2, <2>2, <3>1 DEF Sound, Broken
        <3>3. Expects(l[1])' /\ SendsNext(l[1])'
            BY <1>1, <1>2, <2>2, <2>3 DEF Expects, SendsNext
        <3>4. Loaded(l[1].pos)'
            BY <2>2, <3>1 DEF Loaded
        <3> QED
            BY <3>2, <3>3, <3>4
    <2>5. Marked(l)'
        <3>1. Len(Rest') + 1 = 1 /\ (\A i \in 1 .. 1 : i = 1) /\ \A i \in 1 .. Len(Rest') : FALSE
            BY <1>4
        <3>2. \A i \in 1 .. Len(Rest') + 1 : l[i] \in Marks /\ Sound(l[i])'
            BY <2>2, <2>4, <3>1
        <3>3. SendsNext(l[1])' /\ 1 = Len(Rest') + 1
            BY <2>4, <3>1
        <3> QED
            BY <2>4, <3>1, <3>2, <3>3 DEF Marked
    <2> QED
        BY <1>2, <1>3, <2>3, <2>5 DEF UploadInv, InOrder
<1>7. ASSUME host'.task = "program" PROVE ProgramInv'
    <2>1. host'.at \in {"program enable", "erase enable"} /\ (host'.at = "erase enable" => host.size > 0)
        BY <1>2, <1>7
    <2>2. BlocksKept'
        BY <1>3 DEF BlocksKept, Untouched
    <2>3. FlashSound'
        <3>1. CASE host'.at = "program enable"
            <4>1. \A i \in 1 .. 0 : FALSE
                OBVIOUS
            <4>2. \A i \in 1 .. host'.pos : FALSE
                BY <1>2, <4>1, Zenon
            <4>3. Verified'
                BY <4>2 DEF Verified
            <4> QED
                BY <2>2, <3>1, <4>3 DEF FlashSound, ErasePlaces
        <3>2. CASE host'.at = "erase enable"
            <4>1. 0 < host.size
                <5>1. host.size \in Nat /\ host.size > 0
                    BY <2>1, <3>2 DEF RomTyped, Hosts
                <5> QED
                    BY <5>1
            <4>2. 0 % BLOCK = 0
                BY UploadAssumption
            <4> QED
                BY <1>2, <2>2, <3>2, <4>1, <4>2 DEF FlashSound, ErasePlaces
        <3> QED
            BY <2>1, <3>1, <3>2
    <2>4. AnswerInv'
        <3>1. Len(down') = 0
            BY <1>1
        <3>2. host'.wait = 0 /\ host'.at # "read"
            BY <1>2, <2>1
        <3> QED
            BY <3>1, <3>2 DEF AnswerInv
    <2> QED
        BY <1>1, <1>2, <1>4, <2>1, <2>3, <2>4 DEF ProgramInv, ErasePlaces, ProgramPlaces
<1> QED
    BY <1>5, <1>6, <1>7

\* A page loaded leaves all that matters as it is.
LEMMA PageStep ==
    ASSUME RomTyped, Monitor!LoadFromSpi
    PROVE  /\ StartInv => StartInv'
           /\ UploadInv => UploadInv'
           /\ ProgramInv => ProgramInv'
<1>1. /\ Lost' /\ RomTyped' /\ flash'.mem = flash.mem /\ flash'.busy = 0
      /\ UNCHANGED <<up, down, host>>
    BY PageRuns
<1>2. StartInv => StartInv'
    BY <1>1 DEF StartInv, Untouched
<1>3. UploadInv => UploadInv'
    BY <1>1 DEF UploadInv, Untouched
<1>4. ProgramInv => ProgramInv'
    <2>1. Monitor!Message' = Monitor!Message
        BY <1>1 DEF Monitor!Message, Monitor!Chunk, Monitor!Smaller
    <2>2. FlashSound => FlashSound'
        BY <1>1 DEF FlashSound, BlocksKept, InBlocks, Verified
    <2>3. AnswerInv => AnswerInv'
        BY <1>1, <2>1 DEF AnswerInv
    <2> QED
        BY <1>1, <2>2, <2>3 DEF ProgramInv
<1> QED
    BY <1>2, <1>3, <1>4

LEMMA TaskKept ==
    ASSUME RomTyped, Monitor!Next, host.at # "start"
    PROVE  host'.at # "start" /\ host'.task = host.task
<1>1. host \in Hosts
    BY DEF RomTyped
<1>2. CASE Monitor!Monitor \/ Monitor!Return \/ Monitor!LoadFromSpi
    <2>1. host' = host
        BY <1>2 DEF Monitor!Monitor, Monitor!Command, Monitor!LoadFromUart, Monitor!Call,
                    Monitor!UartToSpi, Monitor!Return, Monitor!LoadFromSpi
    <2> QED
        BY <2>1
<1>3. CASE Monitor!HostSends
    BY <1>1, <1>3 DEF Monitor!HostSends, Hosts
<1>4. CASE Monitor!UploadFile
    <2> PICK part : part = Monitor!Chunk(host.pos, UPLOADSIZE)
        OBVIOUS
    <2>1. CASE part = <<>>
        <3> PICK last : last = IF Monitor!ReadFails THEN <<>> ELSE <<Monitor!C, 0>>
            OBVIOUS
        <3>1. host' = [host EXCEPT !.at = "end", !.send = last, !.wait = 0]
            BY <1>4, <2>1 DEF Monitor!UploadFile, Monitor!Sends
        <3> QED
            BY <1>1, <3>1 DEF Hosts
    <2>2. CASE part # <<>>
        <3> PICK items : items = <<Monitor!U, host.pos, Len(part)>> \o part
            OBVIOUS
        <3>1. host' = [[host EXCEPT !.at = "upload", !.send = items, !.wait = 0] EXCEPT !.pos = @ + Len(part)]
            BY <1>4, <2>2 DEF Monitor!UploadFile, Monitor!Sends
        <3> QED
            BY <1>1, <3>1 DEF Hosts
    <2> QED
        BY <2>1, <2>2
<1>5. CASE Monitor!WriteToSPI
    BY <1>1, <1>5 DEF Monitor!WriteToSPI, Monitor!Sends, Hosts
<1>6. CASE Monitor!Receive
    <2>1. AnswerTaken
        BY <1>6, ReceiveTaken
    <2> QED
        BY <2>1 DEF AnswerTaken
<1>7. CASE Monitor!ToggleReset
    BY <1>7 DEF Monitor!ToggleReset
<1> QED
    BY <1>2, <1>3, <1>4, <1>5, <1>6, <1>7 DEF Monitor!Next, Monitor!Uploader

LEMMA RomNext == RomInv /\ Monitor!Next => RomInv'
<1> SUFFICES ASSUME RomInv, Monitor!Next PROVE RomInv'
    OBVIOUS
<1>1. RomTyped' /\ RunsBy' /\ RomTyped
    BY PlacesKept DEF RomInv
<1>2. CASE host.at = "start"
    <2>1. StartInv
        BY <1>2 DEF RomInv
    <2>2. CASE Monitor!ToggleReset
        BY <1>1, <2>1, <2>2, ResetStep DEF RomInv
    <2>3. CASE Monitor!LoadFromSpi
        <3>1. StartInv' /\ host' = host
            BY <1>1, <2>1, <2>3, PageStep DEF Monitor!LoadFromSpi
        <3> QED
            BY <1>1, <1>2, <3>1 DEF RomInv
    <2>4. CASE Monitor!Monitor \/ Monitor!Return
        <3>1. up = <<>> /\ (rom.at # "run" \/ rom.by # "call")
            BY <2>1 DEF StartInv, Lost
        <3> QED
            BY <2>4, <3>1 DEF Monitor!Monitor, Monitor!Command, Monitor!LoadFromUart, Monitor!Call,
                              Monitor!UartToSpi, Monitor!Return
    <2>5. CASE Monitor!Uploader /\ ~Monitor!ToggleReset
        <3>1. host.send = <<>> /\ host.wait = 0
            BY <2>1 DEF StartInv
        <3>2. ~Monitor!HostSends /\ ~Monitor!UploadFile /\ ~Monitor!WriteToSPI
            BY <1>2, <3>1 DEF Monitor!HostSends, Monitor!UploadFile, Monitor!WriteToSPI
        <3>3. ~Monitor!Receive
            BY <3>1 DEF Monitor!Receive
        <3> QED
            BY <2>5, <3>2, <3>3 DEF Monitor!Uploader
    <2> QED
        BY <2>2, <2>3, <2>4, <2>5 DEF Monitor!Next
<1>3. CASE host.at # "start"
    <2>1. host'.at # "start" /\ host'.task = host.task
        BY <1>1, <1>3, TaskKept
    <2>2. UploadInv => UploadInv'
        BY <1>1, MonitorFollows, UploaderFollows, PageStep DEF Monitor!Next
    <2>3. ProgramInv => ProgramInv'
        BY <1>1, MonitorPrograms, UploaderPrograms, PageStep DEF Monitor!Next
    <2> QED
        BY <1>1, <1>3, <2>1, <2>2, <2>3 DEF RomInv
<1> QED
    BY <1>2, <1>3

LEMMA RomAsStated == RomInv => Monitor!RunsWhatWasLoaded /\ Monitor!FlashHoldsFile
<1> SUFFICES ASSUME RomInv PROVE Monitor!RunsWhatWasLoaded /\ Monitor!FlashHoldsFile
    OBVIOUS
<1>0. RomTyped /\ RunsBy /\ host.task \in {"upload", "program"} /\ up \in Seq(Nat) /\ host.send \in Seq(Nat)
    BY DEF RomInv, RomTyped, Hosts
<1>1. Monitor!RunsWhatWasLoaded
    <2> SUFFICES ASSUME rom.at = "run"
                 PROVE  \/ /\ rom.by = "call" /\ (Len(host.file) = host.size \/ host.file = <<>>)
                           /\ \A i \in 1 .. Len(host.file) : ram[i - 1] = host.file[i]
                        \/ rom.by = "flash" /\ \A i \in 0 .. LOADSIZE - 1 : ram[i] = flash.mem[FlashBase + i]
        BY DEF Monitor!RunsWhatWasLoaded
    <2>1. CASE rom.by = "flash"
        BY <1>0, <2>1 DEF RomTyped, Lost
    <2>2. CASE rom.by # "flash"
        <3>1. rom.by = "call" /\ ~Lost
            BY <1>0, <2>2 DEF RunsBy, Lost
        <3>2. host.at # "start"
            BY <3>1 DEF RomInv, StartInv
        <3>3. CASE host.task = "upload"
            <4>1. PICK l : Marked(l)
                BY <3>1, <3>2, <3>3 DEF RomInv, UploadInv, InOrder
            <4>2. 1 \in 1 .. Len(Rest) + 1
                <5>1. Len(up \o host.send) \in Nat
                    BY <1>0
                <5> QED
                    BY <5>1 DEF Rest
            <4>3. l[1] \in Marks /\ Sound(l[1]) /\ Expects(l[1]) /\ Loaded(l[1].pos)
                BY <4>1, <4>2 DEF Marked
            <4>4. l[1].kind = "over"
                BY <4>3 DEF Expects, Marks
            <4>5. Loaded(Len(host.file)) /\ ~Broken
                BY <4>3, <4>4 DEF Sound
            <4> QED
                BY <3>1, <4>5 DEF Loaded, Broken
        <3>4. CASE host.task = "program"
            <4>1. host.wait # 0 /\ InFlight
                BY <3>1, <3>2, <3>4 DEF RomInv, ProgramInv
            <4>2. Monitor!Message \in Seq(Nat)
                BY <1>0, <4>1, MessageTold DEF Told, RomTyped
            <4>3. PICK t \in Nat : Under(Monitor!Message, t)
                BY <4>1 DEF InFlight
            <4> PICK M : M = Monitor!Message
                OBVIOUS
            <4>4. rom.at \in {"main", "slen", "sbytes"}
                BY <4>2, <4>3, PlaceUnder
            <4> QED
                BY <4>4
        <3> QED
            BY <1>0, <3>3, <3>4
    <2> QED
        BY <2>1, <2>2
<1>2. host.at = "end" /\ host.task = "program" /\ ~host.mismatch =>
        \A i \in 1 .. Len(host.file) : flash.mem[FlashBase + i - 1] = host.file[i]
    <2> SUFFICES ASSUME host.at = "end", host.task = "program", ~host.mismatch
                 PROVE  \A i \in 1 .. Len(host.file) : flash.mem[FlashBase + i - 1] = host.file[i]
        OBVIOUS
    <2>1. Verified /\ host.pos = Len(host.file)
        BY DEF RomInv, ProgramInv, FlashSound, ErasePlaces
    <2> QED
        BY <2>1 DEF Verified
<1>3. BlocksKept
    <2>1. CASE host.at = "start"
        BY <2>1 DEF RomInv, StartInv, Untouched, BlocksKept
    <2>2. CASE host.at # "start" /\ host.task = "upload"
        BY <2>2 DEF RomInv, UploadInv, Untouched, BlocksKept
    <2>3. CASE host.at # "start" /\ host.task = "program"
        BY <2>3 DEF RomInv, ProgramInv, FlashSound
    <2> QED
        BY <1>0, <2>1, <2>2, <2>3
<1>4. ASSUME NEW a \in Monitor!Addresses,
             a < FlashBase \/ (a - FlashBase) \div BLOCK > (host.size - 1) \div BLOCK
      PROVE  flash.mem[a] = 7
    <2> SUFFICES ASSUME flash.mem[a] # 7 PROVE FALSE
        OBVIOUS
    <2>1. a >= FlashBase /\ (a - FlashBase) \div BLOCK <= (host.size - 1) \div BLOCK
        BY <1>3 DEF BlocksKept, InBlocks
    <2>2. a \in Nat /\ FlashBase \in Nat /\ BLOCK \in Nat \ {0} /\ host.size \in Nat
        BY <1>0, UploadAssumption DEF Monitor!Addresses, RomTyped, Hosts
    <2>3. (a - FlashBase) \div BLOCK \in Int /\ (host.size - 1) \div BLOCK \in Int
        <3>1. \A m \in Int, n \in Nat \ {0} : m \div n \in Int
            OBVIOUS
        <3>2. a - FlashBase \in Int /\ host.size - 1 \in Int
            BY <2>2
        <3> QED
            BY <2>2, <3>1, <3>2, Zenon
    <2> PICK x, y : x = (a - FlashBase) \div BLOCK /\ y = (host.size - 1) \div BLOCK
        OBVIOUS
    <2>4. x \in Int /\ y \in Int /\ x <= y /\ (a < FlashBase \/ x > y)
        BY <1>4, <2>1, <2>3
    <2>5. ~(a < FlashBase) /\ ~(x > y)
        <3>1. ~(a < FlashBase)
            BY <2>1, <2>2
        <3>2. ~(x > y)
            BY <2>4
        <3> QED
            BY <3>1, <3>2
    <2> QED
        BY <2>4, <2>5
<1> QED
    BY <1>1, <1>2, <1>4 DEF Monitor!FlashHoldsFile

\* What the monitor starts is whole: the file it was told to call, or the page
\* in the flash as it still is there.  A file that breaks off while the uploader
\* reads it is not called, except one that cannot be read at all.  And an uploader
\* that has written a file to the flash and reported no mismatch has left there
\* all of it that could be read, whatever bytes the flash took wrong and however
\* long it was busy, and has touched only the blocks the file is in.
THEOREM UploadIsKept == Spec => []UploadKept
<1> DEFINE Inv == active = "monitor" => RomInv
<1>1. Init => Inv
    BY RomInit DEF Init
<1>2. Inv /\ [Next]_vars => Inv'
    <2> SUFFICES ASSUME Inv, [Next]_vars, active' = "monitor" PROVE RomInv'
        OBVIOUS
    <2>1. CASE UNCHANGED vars
        <3>1. UNCHANGED <<rom, ram, flash, up, down, host>> /\ RomInv
            BY <2>1 DEF vars, romVars
        <3>2. RomTyped' /\ RunsBy'
            BY <3>1 DEF RomInv, RomTyped, RunsBy, Lost
        <3>3. StartInv => StartInv'
            BY <3>1 DEF StartInv, Untouched, Lost
        <3>4. UploadInv => UploadInv'
            <4>1. ASSUME NEW l, Marked(l) PROVE Marked(l)'
                BY <3>1, <4>1 DEF Marked, Sound, Says, Precedes, Expects, SendsNext, Loaded, Rest, Broken
            <4> QED
                BY <3>1, <4>1 DEF UploadInv, InOrder, Untouched, Lost
        <3>5. ProgramInv => ProgramInv'
            <4>1. Monitor!Message' = Monitor!Message
                BY <3>1 DEF Monitor!Message, Monitor!Chunk, Monitor!Smaller
            <4>2. ASSUME NEW M, NEW t, Under(M, t) PROVE Under(M, t)'
                BY <3>1, <4>2 DEF Under, Rest
            <4>3. InFlight => InFlight'
                BY <4>1, <4>2 DEF InFlight
            <4>4. (FlashSound => FlashSound') /\ (AnswerInv => AnswerInv') /\ Rest' = Rest /\ Lost' = Lost
                BY <3>1, <4>1 DEF FlashSound, BlocksKept, InBlocks, Verified, AnswerInv, Rest, Lost
            <4> QED
                BY <3>1, <4>3, <4>4 DEF ProgramInv
        <3> QED
            BY <3>1, <3>2, <3>3, <3>4, <3>5 DEF RomInv
    <2>2. CASE Next
        BY <2>2, RomNext DEF Next, Alone
    <2> QED
        BY <2>1, <2>2
<1>3. Inv => UploadKept
    BY RomAsStated DEF UploadKept
<1> QED
    BY <1>1, <1>2, <1>3, PTL DEF Spec
=============================================================================
