-------------------------------- MODULE Timer --------------------------------
(***************************************************************************)
(* The millisecond timer in both of its forms, timer/timer_wb32.v (a word   *)
(* per bus beat) and timer/timer_wb8.v (a byte per beat), with the program *)
(* that lives off it: request_milli_time_interrupt and its handler          *)
(* (software/spu32-system/libspu32/libspu32.c, the same sequence of bus     *)
(* accesses as software/asm/timer-interrupt-test.s).                        *)
(*                                                                         *)
(* One step is one clock.  The timer counts in every step; the program puts *)
(* at most one bus beat into it.                                            *)
(***************************************************************************)
EXTENDS Integers

CONSTANTS Cycles,       \* clocks per millisecond (MILLICYCLES + 1)
          Base,         \* values of a byte
          Offset,       \* timeoffset, in milliseconds
          MaxGap        \* clocks between two accesses of the program

\* Base^i
Weight(i) == <<1, Base, Base * Base, Base * Base * Base, Base * Base * Base * Base>>[i + 1]
Round     == Weight(4)
Time      == 0 .. Round - 1         \* a 32-bit count that wraps

\* The program that reads the time has armed the timer, in eight clocks and a gap
\* at most, before the time it asks for.
TimerAssumption ==
    /\ Cycles \in Nat \ {0} /\ Base \in Nat \ {0, 1} /\ MaxGap \in Nat
    /\ Offset \in 1 .. Round - 1
    /\ MaxGap + 8 <= Offset * Cycles

VARIABLES
    wide,                   \* timer_wb32, not timer_wb8
    patient,                \* the program never asks twice, see Rerequest
    (* timer *)
    cycles, milliseconds, milliseconds_interrupt,
    bufferedval,            \* the upper bytes of the time, kept for their beats
    interrupt_latched, interrupt_armed,
    (* program *)
    pc,                     \* what it is doing
    beat,                   \* the beat of the access it is in
    gap,                    \* clocks it has let pass
    now,                    \* the time it reads
    (* history *)
    snapshot,               \* the time when it began to read
    age,                    \* clocks since then, up to a bound
    due                     \* the time asked for last, -1 once it has come

timerVars   == <<cycles, milliseconds, milliseconds_interrupt, bufferedval,
                 interrupt_latched, interrupt_armed>>
programVars == <<pc, beat, gap, now, snapshot, age, due>>
vars == <<wide, patient, timerVars, programVars>>

Beats == IF wide THEN 1 ELSE 4      \* bus beats of a word access

\* Byte i of a word, the least significant first.
Digit(v, i)       == (v \div Weight(i)) % Base
SetDigit(v, i, d) == v + (d - Digit(v, i)) * Weight(i)

\* No request has been waiting for longer than this.
Bound == (Offset + 2) * Cycles
-----------------------------------------------------------------------------
(* The timer, at every clock. *)

Count ==
    /\ cycles' = (cycles + 1) % Cycles
    /\ milliseconds' = IF cycles = Cycles - 1 THEN (milliseconds + 1) % Round
                       ELSE milliseconds

\* Mutant of Fires: also when nothing is armed.
Fires_Unarmed == milliseconds = milliseconds_interrupt

Fires == interrupt_armed /\ milliseconds = milliseconds_interrupt

\* A clock in which the interrupt target is neither read nor armed.
Latch ==
    /\ interrupt_latched' = (interrupt_latched \/ Fires)
    /\ interrupt_armed' = (interrupt_armed /\ ~Fires)

\* Mutant of TimeByte: the upper bytes come from the running counter.
TimeByte_Live(i) == Digit(milliseconds, i)

\* Byte i of a byte-wise read of the time.
TimeByte(i) == IF i = 0 THEN Digit(milliseconds, 0) ELSE Digit(bufferedval, i)

ReadTimeBeat ==
    /\ now' = IF wide THEN milliseconds ELSE SetDigit(now, beat, TimeByte(beat))
    /\ bufferedval' = IF ~wide /\ beat = 0 THEN milliseconds ELSE bufferedval
    /\ Latch
    /\ UNCHANGED milliseconds_interrupt

\* The write that completes the target arms the interrupt, whatever fires.
Arm == /\ interrupt_armed' = TRUE
       /\ interrupt_latched' = (interrupt_latched \/ Fires)

WriteTargetBeat(t) ==
    /\ milliseconds_interrupt' =
         IF wide THEN t ELSE SetDigit(milliseconds_interrupt, beat, Digit(t, beat))
    /\ IF beat = Beats - 1 THEN Arm ELSE Latch
    /\ UNCHANGED bufferedval

\* Reading the target (its lowest byte) resets the interrupt request, also the
\* one that fires at this very clock.
ReadTarget ==
    /\ interrupt_latched' = FALSE
    /\ interrupt_armed' = (interrupt_armed /\ ~Fires)
    /\ UNCHANGED <<milliseconds_interrupt, bufferedval>>

NoAccess == Latch /\ UNCHANGED <<milliseconds_interrupt, bufferedval>>
-----------------------------------------------------------------------------
(* The program. *)

Init ==
    /\ wide \in BOOLEAN /\ patient \in BOOLEAN
    /\ cycles = 0 /\ milliseconds \in Time /\ milliseconds_interrupt = 0
    /\ bufferedval = 0 /\ interrupt_latched = FALSE /\ interrupt_armed = FALSE
    /\ pc = "time" /\ beat = 0 /\ gap = 0 /\ now = 0
    /\ snapshot = 0 /\ age = 0 /\ due = -1

\* A request is answered at its time.
Expire == due' = IF milliseconds = due THEN -1 ELSE due

Older == age' = IF age < Bound THEN age + 1 ELSE age

\* The beats of an access follow one another without a gap.
NextBeat == beat' = (beat + 1) % Beats

\* int now = *dev;
ReadTime ==
    /\ pc = "time"
    /\ ReadTimeBeat /\ NextBeat
    /\ pc' = IF beat = Beats - 1 THEN "arm" ELSE pc
    /\ IF beat = 0 THEN snapshot' = milliseconds /\ age' = 0
       ELSE UNCHANGED snapshot /\ Older
    /\ gap' = 0
    /\ Expire

\* now += timeoffset; *dev = now;
WriteTarget ==
    /\ pc = "arm"
    /\ LET t == (now + Offset) % Round
       IN  /\ WriteTargetBeat(t)
           /\ IF beat = Beats - 1 THEN due' = t ELSE Expire
    /\ NextBeat
    /\ pc' = IF beat = Beats - 1 THEN "wait" ELSE pc
    /\ gap' = 0
    /\ Older
    /\ UNCHANGED <<now, snapshot>>

\* The handler is entered and acknowledges the interrupt.
Acknowledge ==
    /\ pc = "wait" /\ interrupt_latched
    /\ ReadTarget
    /\ pc' = "time" /\ gap' = 0
    /\ Older /\ Expire
    /\ UNCHANGED <<beat, now, snapshot>>

\* A new request is made while one is pending.  The timer stays armed while its
\* target is overwritten, on the byte-wide one byte by byte.
Rerequest ==
    /\ ~patient
    /\ pc = "wait" /\ ~interrupt_latched
    /\ NoAccess
    /\ pc' = "time" /\ gap' = 0
    /\ Older /\ Expire
    /\ UNCHANGED <<beat, now, snapshot>>

\* The program does something else for a clock, or the CPU is between two
\* instructions; it takes the interrupt within MaxGap clocks.
Elsewhere ==
    /\ beat = 0
    /\ \/ gap < MaxGap /\ gap' = gap + 1
       \/ pc = "wait" /\ ~interrupt_latched /\ gap' = 0
    /\ NoAccess
    /\ Older /\ Expire
    /\ UNCHANGED <<pc, beat, now, snapshot>>

Clock(step) == Count /\ step /\ UNCHANGED <<wide, patient>>

Next == \/ Clock(ReadTime)
        \/ Clock(WriteTarget)
        \/ Clock(Acknowledge)
        \/ Clock(Rerequest)
        \/ Clock(Elsewhere)

Spec == Init /\ [][Next]_vars

FairSpec == Spec /\ WF_vars(Next)
-----------------------------------------------------------------------------
TypeOK ==
    /\ wide \in BOOLEAN /\ patient \in BOOLEAN
    /\ cycles \in 0 .. Cycles - 1
    /\ milliseconds \in Time /\ milliseconds_interrupt \in Time
    /\ bufferedval \in Time
    /\ interrupt_latched \in BOOLEAN /\ interrupt_armed \in BOOLEAN
    /\ pc \in {"time", "arm", "wait"} /\ beat \in 0 .. Beats - 1 /\ gap \in 0..MaxGap
    /\ now \in Time /\ snapshot \in Time /\ age \in 0..Bound /\ due \in Time \cup {-1}

\* The time the program reads byte by byte is the time at its first beat, also
\* when a carry runs through the counter between two bytes (timer_wb8.v keeps
\* the upper bytes in bufferedval).
TimeReadIsSnapshot == pc = "arm" /\ beat = 0 => now = snapshot

\* The upper bytes of the target are those of an earlier request, under which the
\* byte-wide timer is still armed.
HalfWritten == ~wide /\ ~patient /\ pc = "arm" /\ beat > 0

\* An interrupt is raised only at the time last asked for, and only once per
\* request; but the byte-wide timer may raise one at a time nobody asked for
\* while a request that does not wait for the last one overwrites its target
\* (timer_wb8.v does not disarm at the first byte).
InterruptMeansDue ==
    [][~interrupt_latched /\ interrupt_latched' =>
         \/ due # -1 /\ milliseconds = due
         \/ HalfWritten]_vars

\* A requested interrupt is on its way or raised: it is armed until it fires,
\* it comes no later than its millisecond although the count wraps, and never
\* waits for another round of the counter.
AlarmOnTime ==
    pc = "wait" => /\ interrupt_armed \/ interrupt_latched
                   /\ ~interrupt_latched => age <= Offset * Cycles + 1

\* The program that requests the next interrupt in the handler of the last is
\* interrupted for ever.
InterruptsKeepComing == patient => []<>(interrupt_latched /\ pc = "wait")
=============================================================================
