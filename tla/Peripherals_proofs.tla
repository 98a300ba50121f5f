------------------------- MODULE Peripherals_proofs -------------------------
(***************************************************************************)
(* Proofs about the devices of MC_Peripherals: the timer and the program    *)
(* that lives off it, for every clock rate, word size, offset and pace of   *)
(* the program that TimerAssumption allows, the SPI port with the BIOS above *)
(* and a device below it, for bytes of every length, and the serial line    *)
(* with the BIOS at both ends, for every rate that UartAssumption allows.   *)
(***************************************************************************)
EXTENDS MC_Peripherals, SequenceTheorems, TLAPS

-----------------------------------------------------------------------------
(* Words and their bytes. *)

LEMMA Division ==
    ASSUME NEW a \in Nat, NEW m \in Nat \ {0}
    PROVE  a \div m \in Nat /\ a % m \in 0 .. m - 1 /\ a = (a \div m) * m + (a % m)
    OBVIOUS

LEMMA DivisionUnique ==
    ASSUME NEW m \in Nat \ {0}, NEW a \in Nat, NEW b \in 0 .. m - 1
    PROVE  (a * m + b) \div m = a /\ (a * m + b) % m = b
<1> DEFINE q == (a * m + b) \div m
           r == (a * m + b) % m
<1>1. q \in Nat /\ r \in 0 .. m - 1 /\ a * m + b = q * m + r
    BY Division, a * m + b \in Nat
<1> HIDE DEF q, r
<1>2. m * (q - a) = b - r /\ m * (a - q) = r - b
    BY <1>1
<1>3. ASSUME NEW d \in Nat, d >= 1 PROVE m * d >= m
    BY <1>3
<1>4. ~(q - a >= 1) /\ ~(a - q >= 1)
    BY <1>1, <1>2, <1>3
<1> QED
    BY <1>1, <1>2, <1>4 DEF q, r

\* A word w, cut below and above its byte of weight n.
LEMMA ByteOf ==
    ASSUME NEW w \in Nat, NEW n \in Nat \ {0}, NEW b \in Nat \ {0}
    PROVE  /\ (w \div n) % b \in 0 .. b - 1
           /\ w % n \in 0 .. n - 1
           /\ \E above \in Nat : w = above * (n * b) + (((w \div n) % b) * n + (w % n))
           /\ w % (n * b) = ((w \div n) % b) * n + (w % n)
<1> DEFINE q == w \div n
           r == w % n
           d == q % b
           above == q \div b
<1>1. q \in Nat /\ r \in 0 .. n - 1 /\ w = q * n + r
    BY Division
<1>2. d \in 0 .. b - 1 /\ above \in Nat /\ q = above * b + d
    BY <1>1, Division
<1> HIDE DEF q, r, d, above
<1>3. n * b \in Nat \ {0}
    BY SMT
<1>4. d * n + r \in 0 .. n * b - 1
    <2>1. d * n <= (b - 1) * n
        BY <1>2
    <2>2. d * n + r <= (b - 1) * n + n - 1 /\ d * n + r \in Nat
        BY <1>1, <1>2, <2>1
    <2> QED
        BY <2>2, <1>3
<1>5. w = above * (n * b) + (d * n + r)
    BY <1>1, <1>2
<1>6. w % (n * b) = d * n + r
    BY <1>2, <1>3, <1>4, <1>5, DivisionUnique
<1> QED
    BY <1>1, <1>2, <1>5, <1>6 DEF q, r, d

\* The same word with e for that byte.
LEMMA ByteSet ==
    ASSUME NEW w \in Nat, NEW n \in Nat \ {0}, NEW b \in Nat \ {0}, NEW e \in 0 .. b - 1,
           NEW c \in Nat, w < (n * b) * c
    PROVE  LET s == w + (e - ((w \div n) % b)) * n
           IN  s \in 0 .. (n * b) * c - 1 /\ s % (n * b) = e * n + (w % n)
<1> DEFINE d == (w \div n) % b
           r == w % n
           s == w + (e - d) * n
           m == n * b
<1>1. d \in 0 .. b - 1 /\ r \in 0 .. n - 1
    BY ByteOf
<1>2. PICK above \in Nat : w = above * m + (d * n + r)
    BY ByteOf, Zenon
<1>3. m \in Nat \ {0} /\ w < m * c
    BY SMT
<1> HIDE DEF d, r
<1>4. e * n + r \in 0 .. m - 1
    <2>1. e * n <= (b - 1) * n
        OBVIOUS
    <2>2. e * n + r <= (b - 1) * n + n - 1 /\ e * n + r \in Nat
        BY <1>1, <2>1
    <2> QED
        BY <2>2, <1>3
<1>5. s = above * m + (e * n + r)
    BY <1>1, <1>2
<1>6. s % m = e * n + r
    BY <1>3, <1>4, <1>5, DivisionUnique
<1>7. above < c
    <2> SUFFICES ASSUME above >= c PROVE FALSE
        BY <1>2
    <2>1. d * n + r \in Nat
        BY <1>1
    <2> HIDE DEF m
    <2>2. above * m >= m * c /\ above * m \in Nat /\ m * c \in Nat
        BY <1>3
    <2> QED
        BY <1>2, <1>3, <2>1, <2>2
<1>8. s \in 0 .. m * c - 1
    <2>1. (above + 1) * m <= c * m
        BY <1>3, <1>7
    <2> HIDE DEF m
    <2>2. above * m + m <= c * m /\ above * m \in Nat
        BY <1>3, <2>1
    <2> QED
        BY <1>3, <1>4, <1>5, <2>2
<1> QED
    BY <1>6, <1>8 DEF d, r
-----------------------------------------------------------------------------
(* The timer. *)

LEMMA Constants ==
    /\ Cycles \in Nat \ {0} /\ Base \in Nat \ {0, 1} /\ MaxGap \in Nat
    /\ Timer!Round \in Nat \ {0} /\ Offset \in 1 .. Timer!Round - 1
    /\ MaxGap + 8 <= Offset * Cycles
    BY TimerSetup DEF Timer!TimerAssumption, Timer!Round, Timer!Weight

LEMMA Weights ==
    /\ Timer!Weight(0) = 1
    /\ Timer!Round = Timer!Weight(4)
    /\ \A i \in 0..3 : /\ Timer!Weight(i) \in Nat \ {0}
                       /\ Timer!Weight(i + 1) = Timer!Weight(i) * Base
                       /\ \E c \in Nat : Timer!Round = (Timer!Weight(i) * Base) * c
<1> USE Constants
<1>0. Base \in Nat \ {0} /\ Base * Base \in Nat \ {0} /\ Base * Base * Base \in Nat \ {0}
    BY SMT
<1>1. /\ Timer!Weight(0) = 1
      /\ Timer!Weight(1) = Base
      /\ Timer!Weight(2) = Base * Base
      /\ Timer!Weight(3) = Base * Base * Base
      /\ Timer!Weight(4) = Base * Base * Base * Base
    BY DEF Timer!Weight
<1>2. ASSUME NEW i \in 0..3 PROVE \E c \in Nat : Timer!Round = (Timer!Weight(i) * Base) * c
    <2>1. CASE i = 0
        <3>1. Timer!Round = (Timer!Weight(0) * Base) * (Base * Base * Base)
            BY <1>0, <1>1 DEF Timer!Round
        <3> QED
            BY <1>0, <2>1, <3>1
    <2>2. CASE i = 1
        <3>1. Timer!Round = (Timer!Weight(1) * Base) * (Base * Base)
            BY <1>0, <1>1 DEF Timer!Round
        <3> QED
            BY <1>0, <2>2, <3>1
    <2>3. CASE i = 2
        <3>1. Timer!Round = (Timer!Weight(2) * Base) * Base
            BY <1>0, <1>1 DEF Timer!Round
        <3> QED
            BY <1>0, <2>3, <3>1
    <2>4. CASE i = 3
        <3>1. Timer!Round = (Timer!Weight(3) * Base) * 1
            BY <1>0, <1>1 DEF Timer!Round
        <3> QED
            BY <1>0, <2>4, <3>1
    <2> QED
        BY <2>1, <2>2, <2>3, <2>4
<1>3. ASSUME NEW i \in 0..3
      PROVE  Timer!Weight(i) \in Nat \ {0} /\ Timer!Weight(i + 1) = Timer!Weight(i) * Base
    <2>1. i \in {0, 1, 2, 3}
        OBVIOUS
    <2> QED
        BY <1>0, <1>1, <2>1
<1> QED
    BY <1>1, <1>2, <1>3 DEF Timer!Round

LEMMA DigitRead ==
    ASSUME NEW v \in Timer!Time, NEW i \in 0..3
    PROVE  /\ Timer!Digit(v, i) \in 0 .. Base - 1
           /\ v % Timer!Weight(i + 1)
                = Timer!Digit(v, i) * Timer!Weight(i) + (v % Timer!Weight(i))
<1>1. v \in Nat /\ Timer!Weight(i) \in Nat \ {0} /\ Base \in Nat \ {0}
    BY Constants, Weights DEF Timer!Time
<1>2. Timer!Weight(i + 1) = Timer!Weight(i) * Base
    BY Weights
<1>3. /\ (v \div Timer!Weight(i)) % Base \in 0 .. Base - 1
      /\ v % (Timer!Weight(i) * Base)
           = ((v \div Timer!Weight(i)) % Base) * Timer!Weight(i) + (v % Timer!Weight(i))
    BY <1>1, ByteOf, Zenon
<1> QED
    BY <1>2, <1>3, Zenon DEF Timer!Digit

LEMMA DigitSet ==
    ASSUME NEW v \in Timer!Time, NEW i \in 0..3, NEW e \in 0 .. Base - 1
    PROVE  /\ Timer!SetDigit(v, i, e) \in Timer!Time
           /\ Timer!SetDigit(v, i, e) % Timer!Weight(i + 1)
                = e * Timer!Weight(i) + (v % Timer!Weight(i))
<1>1. v \in Nat /\ Timer!Weight(i) \in Nat \ {0} /\ Base \in Nat \ {0}
    BY Constants, Weights DEF Timer!Time
<1>2. Timer!Weight(i + 1) = Timer!Weight(i) * Base
    BY Weights
<1>3. PICK c \in Nat : Timer!Round = (Timer!Weight(i) * Base) * c
    BY Weights
<1>4. v < (Timer!Weight(i) * Base) * c
    BY <1>3, Constants DEF Timer!Time
<1>5. /\ Timer!SetDigit(v, i, e) \in 0 .. (Timer!Weight(i) * Base) * c - 1
      /\ Timer!SetDigit(v, i, e) % (Timer!Weight(i) * Base)
            = e * Timer!Weight(i) + (v % Timer!Weight(i))
    BY <1>1, <1>4, ByteSet DEF Timer!Digit, Timer!SetDigit
<1> QED
    BY <1>2, <1>3, <1>5, Zenon DEF Timer!Time

\* Two words have the same lower i bytes.
Agree(a, b, i) == a % Timer!Weight(i) = b % Timer!Weight(i)

\* Copying byte after byte copies the word.
LEMMA CopyByte ==
    ASSUME NEW a \in Timer!Time, NEW b \in Timer!Time, NEW i \in 0..3, i > 0 => Agree(a, b, i)
    PROVE  LET s == Timer!SetDigit(a, i, Timer!Digit(b, i))
           IN  s \in Timer!Time /\ Agree(s, b, i + 1)
<1>1. a % Timer!Weight(i) = b % Timer!Weight(i)
    <2>1. CASE i = 0
        <3>1. a % 1 = 0 /\ b % 1 = 0
            BY Constants DEF Timer!Time
        <3> QED
            BY <2>1, <3>1, Weights
    <2>2. CASE i > 0
        BY <2>2 DEF Agree
    <2> QED
        BY <2>1, <2>2
<1>2. Timer!Digit(b, i) \in 0 .. Base - 1
    BY DigitRead
<1>3. b % Timer!Weight(i + 1)
        = Timer!Digit(b, i) * Timer!Weight(i) + (b % Timer!Weight(i))
    BY DigitRead
<1> QED
    BY <1>1, <1>2, <1>3, DigitSet, Zenon DEF Agree

LEMMA CopyEnds ==
    ASSUME NEW a \in Timer!Time, NEW b \in Timer!Time, Agree(a, b, 4)
    PROVE  a = b
<1>1. a % Timer!Round = b % Timer!Round
    BY Weights DEF Agree
<1>2. \A v \in 0 .. Timer!Round - 1 : v % Timer!Round = v
    BY Constants
<1> QED
    BY <1>1, <1>2 DEF Timer!Time

\* The time asked for by a program that read snapshot.
Target == (snapshot + Offset) % Timer!Round

\* The request in the timer's registers is the one that is due, unless a new one
\* is half written over it.  The program that never asks twice has none under way
\* when it reads the time and arms the timer.
LatchInv ==
    /\ patient => ~(interrupt_armed /\ interrupt_latched)
    /\ patient /\ pc # "wait" => ~interrupt_armed /\ ~interrupt_latched
    /\ ~Timer!HalfWritten =>
         IF interrupt_armed THEN due = milliseconds_interrupt ELSE due = -1

\* Of a word that is read or written byte by byte the lower bytes are there.
CopyInv ==
    /\ pc = "time" /\ beat > 0 => bufferedval = snapshot /\ Agree(now, snapshot, beat)
    /\ pc = "arm" => now = snapshot
    /\ pc = "arm" /\ beat > 0 => Agree(milliseconds_interrupt, Target, beat)
    /\ pc = "wait" => beat = 0

\* age clocks have passed since the program began to read the time, in the c-th
\* clock of a millisecond, k milliseconds ago.
Elapsed ==
    \E k \in Nat, c \in 1..Cycles : /\ c + age = k * Cycles + cycles
                                    /\ milliseconds = (snapshot + k) % Timer!Round

ElapsedInv ==
    beat > 0 \/ pc = "arm" \/ (pc = "wait" /\ ~interrupt_latched) => Elapsed

\* How much time the program takes, and that it is over before the target comes.
PaceInv ==
    /\ pc = "time" /\ beat > 0 => age <= beat - 1
    /\ pc = "arm" => age <= 3 + beat + (IF beat > 0 THEN MaxGap ELSE gap)
    /\ pc = "wait" /\ ~interrupt_latched =>
         interrupt_armed /\ due = Target /\ age < Offset * Cycles

TimerInv == Timer!TypeOK /\ LatchInv /\ CopyInv /\ ElapsedInv /\ PaceInv

LEMMA TimerInit == Timer!Init => TimerInv
<1> SUFFICES ASSUME Timer!Init PROVE TimerInv
    OBVIOUS
<1>1. Timer!TypeOK
    <2>1. 0 \in Timer!Time /\ Timer!Bound \in Nat
        BY Constants DEF Timer!Time, Timer!Bound
    <2>2. Timer!Beats \in {1, 4} /\ 0 \in 0 .. Timer!Beats - 1
        BY DEF Timer!Beats
    <2>3. wide \in BOOLEAN /\ patient \in BOOLEAN
        BY DEF Timer!Init
    <2>4. 0 \in 0 .. Cycles - 1 /\ 0 \in 0..MaxGap /\ 0 \in 0 .. Timer!Bound
        BY <2>1, Constants
    <2> QED
        BY <2>1, <2>2, <2>3, <2>4 DEF Timer!Init, Timer!TypeOK
<1>2. beat = 0 /\ pc = "time" /\ ~interrupt_armed /\ ~interrupt_latched /\ due = -1
    BY DEF Timer!Init
<1> QED
    BY <1>1, <1>2 DEF TimerInv, LatchInv, CopyInv, ElapsedInv, PaceInv

\* One clock of the counter.
LEMMA Counted ==
    ASSUME Timer!TypeOK, Timer!Count
    PROVE  /\ cycles' \in 0 .. Cycles - 1 /\ milliseconds' \in Timer!Time
           /\ cycles # Cycles - 1 => cycles' = cycles + 1 /\ milliseconds' = milliseconds
           /\ cycles = Cycles - 1 =>
                cycles' = 0 /\ milliseconds' = (milliseconds + 1) % Timer!Round
<1>1. cycles \in 0 .. Cycles - 1 /\ milliseconds \in 0 .. Timer!Round - 1
    BY DEF Timer!TypeOK, Timer!Time
<1>2. cycles # Cycles - 1 => (cycles + 1) % Cycles = cycles + 1
    BY <1>1, Constants
<1>3. cycles = Cycles - 1 => (cycles + 1) % Cycles = 0
    BY <1>1, Constants
<1>4. (milliseconds + 1) % Timer!Round \in 0 .. Timer!Round - 1
    BY <1>1, Constants
<1> QED
    BY <1>1, <1>2, <1>3, <1>4, Constants DEF Timer!Count, Timer!Time

LEMMA ElapsedStarts ==
    ASSUME Timer!TypeOK, Timer!Count, snapshot' = milliseconds, age' = 0
    PROVE  Elapsed'
<1>1. cycles \in 0 .. Cycles - 1 /\ milliseconds \in 0 .. Timer!Round - 1
    BY DEF Timer!TypeOK, Timer!Time
<1>2. CASE cycles # Cycles - 1
    <2>1. cycles + 1 \in 1..Cycles /\ (cycles + 1) + age' = 0 * Cycles + cycles'
        BY <1>1, <1>2, Counted, Constants
    <2>2. milliseconds' = (snapshot' + 0) % Timer!Round
        BY <1>1, <1>2, Counted, Constants
    <2> QED
        BY <2>1, <2>2 DEF Elapsed
<1>3. CASE cycles = Cycles - 1
    <2>1. Cycles \in 1..Cycles /\ Cycles + age' = 1 * Cycles + cycles'
        BY <1>1, <1>3, Counted, Constants
    <2>2. milliseconds' = (snapshot' + 1) % Timer!Round
        BY <1>1, <1>3, Counted, Constants
    <2> QED
        BY <2>1, <2>2 DEF Elapsed
<1> QED
    BY <1>2, <1>3

\* The count goes on modulo its range.
LEMMA Successor ==
    ASSUME NEW m \in Nat \ {0}, NEW a \in Nat
    PROVE  ((a % m) + 1) % m = (a + 1) % m
<1> DEFINE q == a \div m
           r == a % m
<1>1. q \in Nat /\ r \in 0 .. m - 1 /\ a = q * m + r
    BY Division
<1> HIDE DEF q, r
<1>2. CASE r + 1 < m
    <2>1. a + 1 = q * m + (r + 1)
        BY <1>1
    <2>2. r + 1 \in 0 .. m - 1 /\ (r + 1) % m = r + 1
        BY <1>1, <1>2
    <2>3. (q * m + (r + 1)) % m = r + 1
        BY <1>1, <2>2, DivisionUnique
    <2> QED
        BY <2>1, <2>2, <2>3 DEF r
<1>3. CASE r + 1 = m
    <2>1. a + 1 = (q + 1) * m + 0
        BY <1>1, <1>3
    <2>2. ((q + 1) * m + 0) % m = 0
        BY <1>1, DivisionUnique
    <2>3. (r + 1) % m = 0
        BY <1>3
    <2> QED
        BY <2>1, <2>2, <2>3 DEF r
<1> QED
    BY <1>1, <1>2, <1>3

LEMMA ElapsedGoesOn ==
    ASSUME Timer!TypeOK, Elapsed, Timer!Count, snapshot' = snapshot, age' = age + 1
    PROVE  Elapsed'
<1>1. /\ cycles \in 0 .. Cycles - 1 /\ snapshot \in 0 .. Timer!Round - 1
      /\ age \in Nat
    BY DEF Timer!TypeOK, Timer!Time
<1>2. PICK k \in Nat, c \in 1..Cycles : /\ c + age = k * Cycles + cycles
                                        /\ milliseconds = (snapshot + k) % Timer!Round
    BY DEF Elapsed
<1>3. CASE cycles # Cycles - 1
    <2>1. c + age' = k * Cycles + cycles'
        BY <1>1, <1>2, <1>3, Counted, Constants
    <2>2. milliseconds' = (snapshot' + k) % Timer!Round
        BY <1>2, <1>3, Counted
    <2> QED
        BY <2>1, <2>2 DEF Elapsed
<1>4. CASE cycles = Cycles - 1
    <2>1. c + age' = (k + 1) * Cycles + cycles'
        BY <1>1, <1>2, <1>4, Counted, Constants
    <2>2. milliseconds' = (((snapshot + k) % Timer!Round) + 1) % Timer!Round
        BY <1>2, <1>4, Counted
    <2> DEFINE t == snapshot + k
    <2>3. ((t % Timer!Round) + 1) % Timer!Round = (t + 1) % Timer!Round
        <3>1. t \in Nat
            BY <1>1
        <3> QED
            BY <3>1, Successor, Constants
    <2>4. (snapshot + k) + 1 = snapshot' + (k + 1) /\ k + 1 \in Nat
        BY <1>1
    <2> QED
        BY <2>1, <2>2, <2>3, <2>4 DEF Elapsed
<1> QED
    BY <1>3, <1>4

\* The bound on age is beyond what the invariant speaks of.
LEMMA Limits ==
    /\ Offset * Cycles \in Nat /\ Timer!Bound \in Nat
    /\ Offset * Cycles + 1 <= Timer!Bound
<1>1. Offset \in Nat /\ Cycles \in Nat \ {0}
    BY Constants
<1>2. Timer!Bound = Offset * Cycles + 2 * Cycles
    BY <1>1 DEF Timer!Bound
<1>3. Offset * Cycles \in Nat
    BY <1>1
<1> QED
    BY <1>1, <1>2, <1>3

LEMMA Aging ==
    ASSUME Timer!TypeOK, Timer!Older
    PROVE  age' \in 0 .. Timer!Bound /\ (age < Offset * Cycles => age' = age + 1)
    BY Limits DEF Timer!TypeOK, Timer!Older

\* The request in the registers stays the one that is due.
LEMMA Latching ==
    ASSUME Timer!TypeOK, LatchInv, Timer!Latch, Timer!Expire
    PROVE  /\ interrupt_armed' \in BOOLEAN /\ interrupt_latched' \in BOOLEAN
           /\ due' \in Timer!Time \cup {-1}
           /\ /\ ~Timer!HalfWritten
              /\ interrupt_armed => milliseconds_interrupt' = milliseconds_interrupt
              => IF interrupt_armed' THEN due' = milliseconds_interrupt' ELSE due' = -1
           /\ interrupt_armed' => interrupt_armed
           /\ ~interrupt_latched' => ~interrupt_latched
           /\ patient => ~(interrupt_armed' /\ interrupt_latched')
           /\ ~interrupt_armed => interrupt_latched' = interrupt_latched
<1>1. milliseconds \in Nat /\ interrupt_armed \in BOOLEAN /\ interrupt_latched \in BOOLEAN
    BY Constants DEF Timer!TypeOK, Timer!Time
<1>2. CASE interrupt_armed
    <2>1. ~Timer!HalfWritten => due = milliseconds_interrupt
        BY <1>2 DEF LatchInv
    <2> QED
        BY <1>1, <1>2, <2>1 DEF Timer!TypeOK, Timer!Latch, Timer!Expire, Timer!Fires, LatchInv
<1>3. CASE ~interrupt_armed
    <2>1. ~Timer!HalfWritten => due = -1
        BY <1>3 DEF LatchInv
    <2> QED
        BY <1>1, <1>3, <2>1 DEF Timer!TypeOK, Timer!Latch, Timer!Expire, Timer!Fires, LatchInv
<1> QED
    BY <1>2, <1>3

\* Before the target has come there is time left.
LEMMA NotYet ==
    ASSUME Timer!TypeOK, Elapsed, age < Offset * Cycles, milliseconds # Target
    PROVE  age + 1 < Offset * Cycles
<1>1. cycles \in 0 .. Cycles - 1 /\ age \in Nat
    BY DEF Timer!TypeOK
<1>2. PICK k \in Nat, c \in 1..Cycles : /\ c + age = k * Cycles + cycles
                                        /\ milliseconds = (snapshot + k) % Timer!Round
    BY DEF Elapsed
<1>3. k # Offset
    BY <1>2 DEF Target
<1>4. ~(k >= Offset + 1)
    <2> SUFFICES ASSUME k >= Offset + 1 PROVE FALSE
        OBVIOUS
    <2>1. k * Cycles >= (Offset + 1) * Cycles
        BY Constants
    <2>2. (Offset + 1) * Cycles = Offset * Cycles + Cycles
        BY Constants
    <2> QED
        BY <1>1, <1>2, <2>1, <2>2, Constants, Limits
<1>5. (k + 1) * Cycles <= Offset * Cycles
    BY <1>3, <1>4, Constants
<1>6. (k + 1) * Cycles = k * Cycles + Cycles /\ k * Cycles \in Nat
    BY Constants
<1> QED
    BY <1>1, <1>2, <1>5, <1>6, Constants, Limits

\* The beats of an access.
LEMMA BeatSteps ==
    ASSUME Timer!TypeOK, Timer!NextBeat, wide' = wide
    PROVE  /\ beat' \in 0 .. Timer!Beats' - 1 /\ Timer!Beats' = Timer!Beats
           /\ beat \in 0..3
           /\ beat = Timer!Beats - 1 => beat' = 0
           /\ beat # Timer!Beats - 1 => ~wide /\ beat < 3 /\ beat' = beat + 1
           /\ wide => beat = 0 /\ Timer!Beats = 1
           /\ ~wide => Timer!Beats = 4
<1>1. CASE wide
    BY <1>1 DEF Timer!TypeOK, Timer!NextBeat, Timer!Beats
<1>2. CASE ~wide
    <2>1. beat \in {0, 1, 2, 3} /\ Timer!Beats = 4 /\ Timer!Beats' = 4
        BY <1>2 DEF Timer!TypeOK, Timer!Beats
    <2> QED
        BY <1>2, <2>1 DEF Timer!NextBeat
<1> QED
    BY <1>1, <1>2

LEMMA ReadTimeStep == TimerInv /\ Timer!Clock(Timer!ReadTime) => TimerInv'
<1> SUFFICES ASSUME TimerInv, Timer!Clock(Timer!ReadTime) PROVE TimerInv'
    OBVIOUS
<1>1. /\ Timer!TypeOK /\ LatchInv /\ CopyInv /\ ElapsedInv /\ PaceInv
      /\ Timer!Count /\ wide' = wide /\ patient' = patient
      /\ pc = "time" /\ Timer!Latch /\ Timer!NextBeat /\ Timer!Expire
      /\ milliseconds_interrupt' = milliseconds_interrupt /\ gap' = 0
      /\ pc' = IF beat = Timer!Beats - 1 THEN "arm" ELSE pc
      /\ IF beat = 0 THEN snapshot' = milliseconds /\ age' = 0
         ELSE snapshot' = snapshot /\ Timer!Older
    BY DEF TimerInv, Timer!Clock, Timer!ReadTime, Timer!ReadTimeBeat
<1>2. /\ now' = IF wide THEN milliseconds ELSE Timer!SetDigit(now, beat, Timer!TimeByte(beat))
      /\ bufferedval' = IF ~wide /\ beat = 0 THEN milliseconds ELSE bufferedval
    BY DEF Timer!Clock, Timer!ReadTime, Timer!ReadTimeBeat
<1>3. /\ now \in Timer!Time /\ milliseconds \in Timer!Time /\ bufferedval \in Timer!Time
      /\ snapshot \in Timer!Time /\ age \in Nat
    BY <1>1 DEF Timer!TypeOK
<1>4. snapshot' \in Timer!Time /\ bufferedval' \in Timer!Time
    BY <1>1, <1>2, <1>3
\* What the byte read is one of.
<1>5. ~wide => /\ Timer!TimeByte(beat) = Timer!Digit(snapshot', beat)
               /\ bufferedval' = snapshot'
    <2>1. CASE beat = 0
        BY <1>1, <1>2, <2>1 DEF Timer!TimeByte
    <2>2. CASE beat # 0
        <3>1. beat > 0
            BY <1>1, <2>2, BeatSteps
        <3> QED
            BY <1>1, <1>2, <2>2, <3>1 DEF Timer!TimeByte, CopyInv
    <2> QED
        BY <2>1, <2>2
<1>6. now' \in Timer!Time /\ (~wide => Agree(now', snapshot', beat + 1))
    <2>1. CASE wide
        BY <1>2, <1>3, <2>1
    <2>2. CASE ~wide
        <3>1. beat > 0 => Agree(now, snapshot', beat)
            BY <1>1 DEF CopyInv
        <3>2. now' = Timer!SetDigit(now, beat, Timer!Digit(snapshot', beat))
            BY <1>2, <1>5, <2>2
        <3> QED
            BY <1>1, <1>3, <1>4, <3>1, <3>2, CopyByte, BeatSteps
    <2> QED
        BY <2>1, <2>2
<1>7. age' \in 0 .. Timer!Bound /\ age' <= beat
    <2>1. CASE beat = 0
        BY <1>1, <2>1, Limits
    <2>2. CASE beat # 0
        <3>1. beat \in 1..3 /\ beat > 0
            BY <1>1, <2>2, BeatSteps
        <3>2. age <= beat - 1
            BY <1>1, <3>1 DEF PaceInv
        <3>3. age < Offset * Cycles
            BY <1>3, <3>1, <3>2, Constants, Limits
        <3> QED
            BY <1>1, <1>3, <2>2, <3>1, <3>2, <3>3, Aging
    <2> QED
        BY <2>1, <2>2
<1>8. Elapsed'
    <2>1. CASE beat = 0
        BY <1>1, <2>1, ElapsedStarts
    <2>2. CASE beat # 0
        <3>1. beat \in 1..3 /\ beat > 0
            BY <1>1, <2>2, BeatSteps
        <3>2. age <= beat - 1 /\ Elapsed
            BY <1>1, <3>1 DEF PaceInv, ElapsedInv
        <3>3. age' = age + 1
            BY <1>1, <1>3, <2>2, <3>1, <3>2, Constants, Limits, Aging
        <3> QED
            BY <1>1, <2>2, <3>2, <3>3, ElapsedGoesOn
    <2> QED
        BY <2>1, <2>2
<1>9. Timer!TypeOK'
    <2>1. milliseconds_interrupt' \in Timer!Time /\ wide' \in BOOLEAN /\ patient' \in BOOLEAN
        BY <1>1 DEF Timer!TypeOK
    <2>2. cycles' \in 0 .. Cycles - 1 /\ milliseconds' \in Timer!Time
        BY <1>1, Counted
    <2>3. pc' \in {"time", "arm"} /\ gap' \in 0..MaxGap
        BY <1>1, Constants
    <2>4. beat' \in 0 .. Timer!Beats' - 1
        BY <1>1, BeatSteps
    <2>5. /\ interrupt_armed' \in BOOLEAN /\ interrupt_latched' \in BOOLEAN
          /\ due' \in Timer!Time \cup {-1}
        BY <1>1, Latching
    <2> QED
        BY <1>4, <1>6, <1>7, <2>1, <2>2, <2>3, <2>4, <2>5 DEF Timer!TypeOK
<1>10. LatchInv'
    <2>1. patient => ~interrupt_armed /\ ~interrupt_latched
        BY <1>1 DEF LatchInv
    <2>2. ~Timer!HalfWritten
        BY <1>1 DEF Timer!HalfWritten
    <2> QED
        BY <1>1, <2>1, <2>2, Latching DEF LatchInv
<1>11. CopyInv'
    <2>1. CASE beat = Timer!Beats - 1
        <3>1. pc' = "arm" /\ beat' = 0
            BY <1>1, <2>1, BeatSteps
        <3>2. now' = snapshot'
            <4>1. CASE wide
                BY <1>1, <1>2, <4>1, BeatSteps
            <4>2. CASE ~wide
                <5>1. beat + 1 = 4
                    BY <1>1, <2>1, <4>2, BeatSteps
                <5> QED
                    BY <1>4, <1>6, <4>2, <5>1, CopyEnds
            <4> QED
                BY <4>1, <4>2
        <3> QED
            BY <3>1, <3>2 DEF CopyInv
    <2>2. CASE beat # Timer!Beats - 1
        <3>1. pc' = "time" /\ ~wide /\ beat' = beat + 1
            BY <1>1, <2>2, BeatSteps
        <3> QED
            BY <1>5, <1>6, <3>1 DEF CopyInv
    <2> QED
        BY <2>1, <2>2
<1>12. ElapsedInv'
    BY <1>8 DEF ElapsedInv
<1>13. PaceInv'
    <2>1. CASE beat = Timer!Beats - 1
        <3>1. pc' = "arm" /\ beat' = 0 /\ gap' = 0 /\ beat <= 3
            BY <1>1, <2>1, BeatSteps
        <3> QED
            BY <1>1, <1>7, <3>1, BeatSteps DEF PaceInv
    <2>2. CASE beat # Timer!Beats - 1
        <3>1. pc' = "time" /\ beat' = beat + 1
            BY <1>1, <2>2, BeatSteps
        <3> QED
            BY <1>1, <1>7, <3>1, BeatSteps DEF PaceInv
    <2> QED
        BY <2>1, <2>2
<1> QED
    BY <1>9, <1>10, <1>11, <1>12, <1>13 DEF TimerInv

LEMMA WriteTargetStep == TimerInv /\ Timer!Clock(Timer!WriteTarget) => TimerInv'
<1> SUFFICES ASSUME TimerInv, Timer!Clock(Timer!WriteTarget) PROVE TimerInv'
    OBVIOUS
<1> DEFINE t == (now + Offset) % Timer!Round
<1>1. /\ Timer!TypeOK /\ LatchInv /\ CopyInv /\ ElapsedInv /\ PaceInv
      /\ Timer!Count /\ wide' = wide /\ patient' = patient
      /\ pc = "arm" /\ Timer!NextBeat /\ Timer!Older /\ gap' = 0
      /\ pc' = IF beat = Timer!Beats - 1 THEN "wait" ELSE pc
      /\ now' = now /\ snapshot' = snapshot /\ bufferedval' = bufferedval
      /\ IF beat = Timer!Beats - 1 THEN due' = t ELSE Timer!Expire
      /\ IF beat = Timer!Beats - 1 THEN Timer!Arm ELSE Timer!Latch
      /\ milliseconds_interrupt' =
           IF wide THEN t ELSE Timer!SetDigit(milliseconds_interrupt, beat, Timer!Digit(t, beat))
    BY DEF TimerInv, Timer!Clock, Timer!WriteTarget, Timer!WriteTargetBeat
<1>2. /\ now \in Timer!Time /\ milliseconds \in Timer!Time /\ bufferedval \in Timer!Time
      /\ snapshot \in Timer!Time /\ age \in Nat /\ milliseconds_interrupt \in Timer!Time
      /\ gap \in 0..MaxGap
    BY <1>1 DEF Timer!TypeOK
<1>3. t = Target /\ t = Target' /\ t \in Timer!Time
    <2>1. now = snapshot
        BY <1>1 DEF CopyInv
    <2>2. now + Offset \in Nat
        BY <1>2, Constants DEF Timer!Time
    <2>3. t \in Timer!Time
        BY <2>2, Division, Constants DEF Timer!Time
    <2> QED
        BY <1>1, <2>1, <2>3 DEF Target
<1> HIDE DEF t
<1>4. /\ milliseconds_interrupt' \in Timer!Time
      /\ ~wide => Agree(milliseconds_interrupt', Target', beat + 1)
    <2>1. CASE wide
        BY <1>1, <1>3, <2>1
    <2>2. CASE ~wide
        <3>1. beat > 0 => Agree(milliseconds_interrupt, Target', beat)
            BY <1>1, <1>3 DEF CopyInv
        <3>2. milliseconds_interrupt'
                = Timer!SetDigit(milliseconds_interrupt, beat, Timer!Digit(Target', beat))
            BY <1>1, <1>3, <2>2
        <3>3. beat \in 0..3 /\ Target' \in Timer!Time
            BY <1>1, <1>3, BeatSteps
        <3> QED
            BY <1>2, <3>1, <3>2, <3>3, CopyByte
    <2> QED
        BY <2>1, <2>2
<1>5. age <= 3 + beat + MaxGap /\ beat \in 0..3
    <2>1. beat \in 0..3
        BY <1>1, BeatSteps
    <2> QED
        BY <1>1, <1>2, <2>1, Constants DEF PaceInv
<1>6. age' \in 0 .. Timer!Bound /\ age' = age + 1 /\ age + 1 < Offset * Cycles
    <2>1. age + 1 < Offset * Cycles
        BY <1>2, <1>5, Constants, Limits
    <2> QED
        BY <1>1, <1>2, <2>1, Aging, Limits
<1>7. Elapsed'
    BY <1>1, <1>6, ElapsedGoesOn DEF ElapsedInv
<1>8. patient => ~interrupt_armed /\ ~interrupt_latched /\ ~Timer!HalfWritten
    BY <1>1 DEF LatchInv, Timer!HalfWritten
<1>9. interrupt_armed \in BOOLEAN /\ interrupt_latched \in BOOLEAN
    BY <1>1 DEF Timer!TypeOK
<1>10. beat # Timer!Beats - 1 =>
          /\ interrupt_armed' \in BOOLEAN /\ interrupt_latched' \in BOOLEAN
          /\ due' \in Timer!Time \cup {-1}
          /\ patient =>
               IF interrupt_armed' THEN due' = milliseconds_interrupt' ELSE due' = -1
          /\ interrupt_armed' => interrupt_armed
          /\ ~interrupt_armed => interrupt_latched' = interrupt_latched
    BY <1>1, <1>8, Latching
<1>11. beat = Timer!Beats - 1 =>
          /\ interrupt_armed' = TRUE /\ interrupt_latched' \in BOOLEAN
          /\ due' = t /\ milliseconds_interrupt' = t
          /\ ~interrupt_armed => interrupt_latched' = interrupt_latched
    <2> SUFFICES ASSUME beat = Timer!Beats - 1
                 PROVE  /\ interrupt_armed' = TRUE /\ interrupt_latched' \in BOOLEAN
                        /\ due' = t /\ milliseconds_interrupt' = t
                        /\ ~interrupt_armed => interrupt_latched' = interrupt_latched
        OBVIOUS
    <2>1. milliseconds_interrupt' = t
        <3>1. CASE wide
            BY <1>1, <3>1
        <3>2. CASE ~wide
            <4>1. beat + 1 = 4
                BY <1>1, <3>2, BeatSteps
            <4> QED
                BY <1>3, <1>4, <3>2, <4>1, CopyEnds
        <3> QED
            BY <3>1, <3>2
    <2> QED
        BY <1>1, <1>9, <2>1 DEF Timer!Arm, Timer!Fires
<1>12. Timer!TypeOK'
    <2>1. bufferedval' \in Timer!Time /\ wide' \in BOOLEAN /\ patient' \in BOOLEAN
        BY <1>1 DEF Timer!TypeOK
    <2>2. cycles' \in 0 .. Cycles - 1 /\ milliseconds' \in Timer!Time
        BY <1>1, Counted
    <2>3. pc' \in {"wait", "arm"} /\ gap' \in 0..MaxGap
        BY <1>1, Constants
    <2>4. beat' \in 0 .. Timer!Beats' - 1
        BY <1>1, BeatSteps
    <2>5. /\ interrupt_armed' \in BOOLEAN /\ interrupt_latched' \in BOOLEAN
          /\ due' \in Timer!Time \cup {-1}
        BY <1>3, <1>10, <1>11
    <2>6. now' \in Timer!Time /\ snapshot' \in Timer!Time
        BY <1>1, <1>2
    <2> QED
        BY <1>4, <1>6, <2>1, <2>2, <2>3, <2>4, <2>5, <2>6 DEF Timer!TypeOK
<1>13. LatchInv'
    <2>1. patient => ~interrupt_armed /\ ~interrupt_latched
        BY <1>1 DEF LatchInv
    <2>2. CASE beat = Timer!Beats - 1
        BY <1>1, <1>11, <2>1, <2>2 DEF LatchInv
    <2>3. CASE beat # Timer!Beats - 1
        <3>1. ~patient => Timer!HalfWritten'
            BY <1>1, <2>3, BeatSteps DEF Timer!HalfWritten
        <3> QED
            BY <1>1, <1>10, <2>1, <2>3, <3>1 DEF LatchInv
    <2> QED
        BY <2>2, <2>3
<1>14. CopyInv'
    <2>1. now' = snapshot'
        BY <1>1 DEF CopyInv
    <2>2. CASE beat = Timer!Beats - 1
        <3>1. pc' = "wait" /\ beat' = 0
            BY <1>1, <2>2, BeatSteps
        <3> QED
            BY <3>1 DEF CopyInv
    <2>3. CASE beat # Timer!Beats - 1
        <3>1. pc' = "arm" /\ ~wide /\ beat' = beat + 1
            BY <1>1, <2>3, BeatSteps
        <3> QED
            BY <1>4, <2>1, <3>1 DEF CopyInv
    <2> QED
        BY <2>2, <2>3
<1>15. ElapsedInv'
    BY <1>7 DEF ElapsedInv
<1>16. PaceInv'
    <2>1. CASE beat = Timer!Beats - 1
        <3>1. pc' = "wait" /\ beat' = 0
            BY <1>1, <2>1, BeatSteps
        <3> QED
            BY <1>3, <1>6, <1>11, <2>1, <3>1 DEF PaceInv
    <2>2. CASE beat # Timer!Beats - 1
        <3>1. pc' = "arm" /\ beat' = beat + 1 /\ beat' > 0
            BY <1>1, <1>5, <2>2, BeatSteps
        <3>2. age' <= 3 + beat' + MaxGap
            BY <1>2, <1>5, <1>6, <3>1, Constants
        <3> QED
            BY <3>1, <3>2 DEF PaceInv
    <2> QED
        BY <2>1, <2>2
<1> QED
    BY <1>12, <1>13, <1>14, <1>15, <1>16 DEF TimerInv

\* A clock in which the program does not read or write the time.
LEMMA OtherStep ==
    ASSUME TimerInv, Timer!Count, wide' = wide, patient' = patient,
           Timer!Older, Timer!Expire, beat' = beat, now' = now, snapshot' = snapshot,
           milliseconds_interrupt' = milliseconds_interrupt, bufferedval' = bufferedval,
           gap' \in 0..MaxGap, pc' \in {"time", "arm", "wait"},
           interrupt_armed' \in BOOLEAN, interrupt_latched' \in BOOLEAN
    PROVE  /\ Timer!TypeOK'
           /\ CopyInv /\ pc' = pc => CopyInv'
           /\ Elapsed /\ age < Offset * Cycles => Elapsed' /\ age' = age + 1
<1>1. Timer!TypeOK
    BY DEF TimerInv
<1>2. Timer!TypeOK'
    <2>1. /\ milliseconds_interrupt' \in Timer!Time /\ wide' \in BOOLEAN
          /\ patient' \in BOOLEAN /\ bufferedval' \in Timer!Time
          /\ now' \in Timer!Time /\ snapshot' \in Timer!Time
        BY <1>1 DEF Timer!TypeOK
    <2>2. cycles' \in 0 .. Cycles - 1 /\ milliseconds' \in Timer!Time
        BY <1>1, Counted
    <2>3. beat' \in 0 .. Timer!Beats' - 1
        BY <1>1 DEF Timer!TypeOK, Timer!Beats
    <2>4. age' \in 0 .. Timer!Bound
        BY <1>1, Aging
    <2>5. due' \in Timer!Time \cup {-1}
        BY <1>1 DEF Timer!TypeOK, Timer!Expire
    <2> QED
        BY <2>1, <2>2, <2>3, <2>4, <2>5 DEF Timer!TypeOK
<1>3. CopyInv /\ pc' = pc => CopyInv'
    BY DEF CopyInv, Target, Agree
<1>4. ASSUME Elapsed, age < Offset * Cycles PROVE Elapsed' /\ age' = age + 1
    BY <1>1, <1>4, Aging, ElapsedGoesOn
<1> QED
    BY <1>2, <1>3, <1>4

LEMMA AcknowledgeStep == TimerInv /\ Timer!Clock(Timer!Acknowledge) => TimerInv'
<1> SUFFICES ASSUME TimerInv, Timer!Clock(Timer!Acknowledge) PROVE TimerInv'
    OBVIOUS
<1>1. /\ Timer!TypeOK /\ LatchInv /\ CopyInv
      /\ Timer!Count /\ wide' = wide /\ patient' = patient
      /\ pc = "wait" /\ interrupt_latched /\ pc' = "time" /\ gap' = 0
      /\ ~interrupt_latched' /\ interrupt_latched' \in BOOLEAN
      /\ interrupt_armed' = (interrupt_armed /\ ~Timer!Fires)
      /\ Timer!Older /\ Timer!Expire
      /\ beat' = beat /\ now' = now /\ snapshot' = snapshot
      /\ milliseconds_interrupt' = milliseconds_interrupt /\ bufferedval' = bufferedval
    BY DEF TimerInv, Timer!Clock, Timer!Acknowledge, Timer!ReadTarget
<1>2. beat = 0
    BY <1>1 DEF CopyInv
<1>3. interrupt_armed \in BOOLEAN /\ interrupt_armed' \in BOOLEAN /\ milliseconds \in Nat
    BY <1>1, Constants DEF Timer!TypeOK, Timer!Time
<1>4. Timer!TypeOK'
    BY <1>1, <1>3, Constants, OtherStep
<1>5. LatchInv'
    <2>1. patient => ~interrupt_armed'
        BY <1>1, <1>3 DEF LatchInv
    <2>2. IF interrupt_armed' THEN due' = milliseconds_interrupt' ELSE due' = -1
        <3>1. CASE interrupt_armed
            BY <1>1, <1>3, <3>1 DEF LatchInv, Timer!HalfWritten, Timer!Fires, Timer!Expire
        <3>2. CASE ~interrupt_armed
            BY <1>1, <1>3, <3>2 DEF LatchInv, Timer!HalfWritten, Timer!Expire
        <3> QED
            BY <3>1, <3>2
    <2> QED
        BY <1>1, <2>1, <2>2 DEF LatchInv
<1>6. CopyInv' /\ ElapsedInv' /\ PaceInv'
    BY <1>1, <1>2 DEF CopyInv, ElapsedInv, PaceInv
<1> QED
    BY <1>4, <1>5, <1>6 DEF TimerInv

LEMMA RerequestStep == TimerInv /\ Timer!Clock(Timer!Rerequest) => TimerInv'
<1> SUFFICES ASSUME TimerInv, Timer!Clock(Timer!Rerequest) PROVE TimerInv'
    OBVIOUS
<1>1. /\ Timer!TypeOK /\ LatchInv /\ CopyInv
      /\ Timer!Count /\ wide' = wide /\ patient' = patient
      /\ ~patient /\ pc = "wait" /\ pc' = "time" /\ gap' = 0
      /\ Timer!Latch /\ Timer!Older /\ Timer!Expire
      /\ beat' = beat /\ now' = now /\ snapshot' = snapshot
      /\ milliseconds_interrupt' = milliseconds_interrupt /\ bufferedval' = bufferedval
    BY DEF TimerInv, Timer!Clock, Timer!Rerequest, Timer!NoAccess
<1>2. beat = 0
    BY <1>1 DEF CopyInv
<1>3. /\ interrupt_armed' \in BOOLEAN /\ interrupt_latched' \in BOOLEAN
      /\ IF interrupt_armed' THEN due' = milliseconds_interrupt' ELSE due' = -1
    BY <1>1, Latching DEF Timer!HalfWritten
<1>4. Timer!TypeOK'
    BY <1>1, <1>3, Constants, OtherStep
<1>5. LatchInv'
    BY <1>1, <1>3 DEF LatchInv
<1>6. CopyInv' /\ ElapsedInv' /\ PaceInv'
    BY <1>1, <1>2 DEF CopyInv, ElapsedInv, PaceInv
<1> QED
    BY <1>4, <1>5, <1>6 DEF TimerInv

LEMMA ElsewhereStep == TimerInv /\ Timer!Clock(Timer!Elsewhere) => TimerInv'
<1> SUFFICES ASSUME TimerInv, Timer!Clock(Timer!Elsewhere) PROVE TimerInv'
    OBVIOUS
<1>1. /\ Timer!TypeOK /\ LatchInv /\ CopyInv /\ ElapsedInv /\ PaceInv
      /\ Timer!Count /\ wide' = wide /\ patient' = patient
      /\ Timer!Latch /\ Timer!Older /\ Timer!Expire
      /\ beat = 0 /\ beat' = beat /\ now' = now /\ snapshot' = snapshot /\ pc' = pc
      /\ milliseconds_interrupt' = milliseconds_interrupt /\ bufferedval' = bufferedval
      /\ \/ gap < MaxGap /\ gap' = gap + 1
         \/ pc = "wait" /\ gap' = 0
    BY DEF TimerInv, Timer!Clock, Timer!Elsewhere, Timer!NoAccess
<1>2. /\ interrupt_armed' \in BOOLEAN /\ interrupt_latched' \in BOOLEAN
      /\ IF interrupt_armed' THEN due' = milliseconds_interrupt' ELSE due' = -1
      /\ ~interrupt_latched' => ~interrupt_latched
      /\ patient => ~(interrupt_armed' /\ interrupt_latched')
      /\ interrupt_armed' => interrupt_armed
      /\ ~interrupt_armed => interrupt_latched' = interrupt_latched
    BY <1>1, Latching DEF Timer!HalfWritten
<1>3. gap' \in 0..MaxGap /\ gap \in Nat /\ pc' \in {"time", "arm", "wait"} /\ age \in Nat
    BY <1>1, Constants DEF Timer!TypeOK
<1>4. /\ Timer!TypeOK' /\ CopyInv'
      /\ Elapsed /\ age < Offset * Cycles => Elapsed' /\ age' = age + 1
    BY <1>1, <1>2, <1>3, OtherStep
<1>5. LatchInv'
    BY <1>1, <1>2 DEF LatchInv
<1>6. CASE pc = "wait" /\ ~interrupt_latched'
    <2>1. /\ Elapsed /\ age < Offset * Cycles /\ interrupt_armed /\ due = Target
        BY <1>1, <1>2, <1>6 DEF ElapsedInv, PaceInv
    <2>2. milliseconds # Target
        BY <1>1, <1>6, <2>1 DEF Timer!Latch, Timer!Fires, LatchInv, Timer!HalfWritten
    <2>3. age' < Offset * Cycles /\ Elapsed'
        BY <1>1, <1>4, <2>1, <2>2, NotYet
    <2>4. interrupt_armed' /\ due' = Target'
        BY <1>1, <1>6, <2>1, <2>2 DEF Timer!Latch, Timer!Fires, Timer!Expire, LatchInv, Target,
                                         Timer!HalfWritten
    <2> QED
        BY <1>1, <1>4, <1>5, <1>6, <2>3, <2>4 DEF TimerInv, ElapsedInv, PaceInv
<1>7. CASE pc = "wait" /\ interrupt_latched'
    BY <1>1, <1>4, <1>5, <1>7 DEF TimerInv, ElapsedInv, PaceInv
<1>8. CASE pc = "arm"
    <2>1. Elapsed /\ age <= 3 + gap /\ gap < MaxGap /\ gap' = gap + 1
        BY <1>1, <1>3, <1>8 DEF ElapsedInv, PaceInv
    <2>2. age < Offset * Cycles
        BY <1>3, <2>1, Constants, Limits
    <2>3. Elapsed' /\ age' <= 3 + gap'
        BY <1>3, <1>4, <2>1, <2>2
    <2> QED
        BY <1>1, <1>3, <1>4, <1>5, <1>8, <2>3 DEF TimerInv, ElapsedInv, PaceInv
<1>9. CASE pc = "time"
    BY <1>1, <1>4, <1>5, <1>9 DEF TimerInv, ElapsedInv, PaceInv
<1> QED
    BY <1>1, <1>3, <1>6, <1>7, <1>8, <1>9

LEMMA TimerNext == TimerInv /\ Timer!Next => TimerInv'
    BY ReadTimeStep, WriteTargetStep, AcknowledgeStep, RerequestStep, ElsewhereStep
       DEF Timer!Next

LEMMA TimerStands ==
    /\ Init => (active = "timer" => TimerInv)
    /\ (active = "timer" => TimerInv) /\ [Next]_vars => (active = "timer" => TimerInv)'
<1>1. Init => (active = "timer" => TimerInv)
    BY TimerInit DEF Init
<1>2. (active = "timer" => TimerInv) /\ [Next]_vars => (active = "timer" => TimerInv)'
    <2> SUFFICES ASSUME active = "timer" => TimerInv, [Next]_vars, active' = "timer"
                 PROVE  TimerInv'
        OBVIOUS
    <2>1. CASE UNCHANGED vars
        BY <2>1 DEF vars, timerVars, TimerInv, LatchInv, CopyInv, ElapsedInv, Elapsed, PaceInv,
                    Target, Agree, Timer!TypeOK, Timer!Beats, Timer!HalfWritten
    <2>2. CASE Next
        BY <2>2, TimerNext DEF Next
    <2> QED
        BY <2>1, <2>2
<1> QED
    BY <1>1, <1>2

\* The time that is read byte by byte is the time at the first byte, also when a
\* carry runs through the counter in between, and the interrupt that
\* request_milli_time_interrupt asks for is under way or raised and comes no
\* later than its millisecond, also across the wrap of the count.
THEOREM AlarmsComeInTime == Spec => []TimeIsRight
<1>1. (active = "timer" => TimerInv) => TimeIsRight
    <2> SUFFICES ASSUME active = "timer", TimerInv PROVE TimeIsRight
        BY DEF TimeIsRight
    <2>1. Timer!TimeReadIsSnapshot
        BY DEF TimerInv, CopyInv, Timer!TimeReadIsSnapshot
    <2>2. Timer!AlarmOnTime
        <3> SUFFICES ASSUME pc = "wait"
                     PROVE  /\ interrupt_armed \/ interrupt_latched
                            /\ ~interrupt_latched => age <= Offset * Cycles + 1
            BY DEF Timer!AlarmOnTime
        <3>1. age \in Nat
            BY DEF TimerInv, Timer!TypeOK
        <3> QED
            BY <3>1, Limits DEF TimerInv, PaceInv
    <2> QED
        BY <2>1, <2>2 DEF TimeIsRight, TimerInv
<1> QED
    BY <1>1, TimerStands, PTL DEF Spec

\* No other interrupt is raised than the one asked for last, and that one once.
\* The only exception is the byte-wide timer while its target is half overwritten
\* under an earlier request, so there is none for a program that never asks twice.
THEOREM AlarmsAreDue == Spec => InterruptMeansDue
<1>1. ASSUME active = "timer" => TimerInv, [Next]_vars
      PROVE  [active = "timer" /\ ~interrupt_latched /\ interrupt_latched'
                => (due # -1 /\ milliseconds = due) \/ Timer!HalfWritten]_vars
    <2> SUFFICES ASSUME Next, active = "timer", ~interrupt_latched, interrupt_latched',
                        ~Timer!HalfWritten
                 PROVE  due # -1 /\ milliseconds = due
        BY <1>1
    <2>1. Timer!Next /\ Timer!TypeOK /\ LatchInv
        BY <1>1 DEF Next, TimerInv
    <2>2. Timer!Fires
        <3>1. CASE Timer!Clock(Timer!ReadTime)
            BY <3>1 DEF Timer!Clock, Timer!ReadTime, Timer!ReadTimeBeat, Timer!Latch
        <3>2. CASE Timer!Clock(Timer!WriteTarget)
            BY <3>2 DEF Timer!Clock, Timer!WriteTarget, Timer!WriteTargetBeat, Timer!Latch,
                        Timer!Arm
        <3>3. CASE Timer!Clock(Timer!Acknowledge)
            BY <3>3 DEF Timer!Clock, Timer!Acknowledge, Timer!ReadTarget
        <3>4. CASE Timer!Clock(Timer!Rerequest)
            BY <3>4 DEF Timer!Clock, Timer!Rerequest, Timer!NoAccess, Timer!Latch
        <3>5. CASE Timer!Clock(Timer!Elsewhere)
            BY <3>5 DEF Timer!Clock, Timer!Elsewhere, Timer!NoAccess, Timer!Latch
        <3> QED
            BY <2>1, <3>1, <3>2, <3>3, <3>4, <3>5 DEF Timer!Next
    <2>3. milliseconds \in Nat
        BY <2>1, Constants DEF Timer!TypeOK, Timer!Time
    <2> QED
        BY <2>1, <2>2, <2>3 DEF Timer!Fires, LatchInv
<1> QED
    BY <1>1, TimerStands, PTL DEF Spec, InterruptMeansDue

-----------------------------------------------------------------------------
(* The exchange of bytes on the SPI.                                        *)

LEMMA SpiConstants == SpiBits \in Nat \ {0} /\ Delay \in 0..2
    BY SpiSetup DEF Spi!SpiAssumption

\* A byte is a sequence of bits.
LEMMA ByteIsSeq ==
    ASSUME NEW w \in Spi!Byte
    PROVE  /\ w \in Seq(Spi!Bit) /\ Len(w) = SpiBits /\ w # << >>
           /\ Head(w) = w[1] /\ Head(w) \in Spi!Bit
    BY SpiConstants DEF Spi!Byte

LEMMA SeqIsByte ==
    ASSUME NEW w \in Seq(Spi!Bit), Len(w) = SpiBits
    PROVE  w \in Spi!Byte
    BY SpiConstants, LenProperties DEF Spi!Byte

LEMMA ShiftedByte ==
    ASSUME NEW w \in Spi!Byte, NEW b \in Spi!Bit
    PROVE  /\ Spi!Shift(w, b) \in Spi!Byte
           /\ \A i \in 1 .. SpiBits - 1 : Spi!Shift(w, b)[i] = w[i + 1]
           /\ Spi!Shift(w, b)[SpiBits] = b
<1>1. Tail(w) \in Seq(Spi!Bit) /\ Len(Tail(w)) = SpiBits - 1
      /\ \A i \in 1 .. SpiBits - 1 : Tail(w)[i] = w[i + 1]
    BY ByteIsSeq, HeadTailProperties
<1>2. /\ Spi!Shift(w, b) \in Seq(Spi!Bit) /\ Len(Spi!Shift(w, b)) = SpiBits
      /\ \A i \in 1 .. SpiBits - 1 : Spi!Shift(w, b)[i] = Tail(w)[i]
      /\ Spi!Shift(w, b)[SpiBits] = b
    BY <1>1, SpiConstants DEF Spi!Shift
<1> QED
    BY <1>1, <1>2, SeqIsByte

\* The divided clock and its edges as functions of the counter: one, two and
\* three clocks after the start.
ClockSet == spiclk = (clkcounter \in {3, 0})
LastSet  == lastspiclk = (clkcounter \in {0, 1})
EdgesSet == risingclk = (clkcounter = 0) /\ fallingclk = (clkcounter = 2)

DividerInv ==
    /\ pc # "called" => ClockSet
    /\ pc \notin {"called", "ready"} => LastSet
    /\ pc \in {"finish", "read"} => EdgesSet

\* No transmission is under way.
Idle == state = "IDLE" /\ ~txstart /\ ~busy /\ ~shifting

\* The one that was is over.
Over == pc = "finish" /\ (state = "IDLE" \/ (state = "WAIT_READY" /\ ~busy))

\* How the port's states follow each other.
HandshakeInv ==
    /\ pc \in {"called", "ready", "write", "read"} => Idle
    /\ pc = "finish" =>
         /\ txdata = byte /\ Len(said) = SpiBits
         /\ \/ Idle
            \/ state = "WAIT_BUSY" /\ ~shifting /\ (busy => txstart)
            \/ state = "WAIT_READY" /\ busy /\ (txstart /\ shifting => clkcounter = 3)
            \/ state = "WAIT_READY" /\ ~busy /\ ~txstart /\ ~shifting

\* Both ends of the line are at the beginning of a byte.
AtByte == incoming = << >> /\ Len(outgoing) = SpiBits

\* The device while no byte is exchanged with it.
DeviceInv ==
    /\ pc \in {"called", "ready", "write"} \/ cs # 2 => AtByte /\ heard = << >>
    /\ cs = 2 /\ ~shifting => ~O_spi_clk
    /\ cs = 2 /\ pc = "ready" => settling <= 1
    /\ cs = 2 /\ pc = "write" => settling = 0
    /\ cs = 2 /\ pc = "finish" /\ ~shifting /\ ~Over =>
         AtByte /\ heard = << >> /\ outgoing = said /\ settling = 0
    /\ cs = 2 /\ (Over \/ pc = "read") => AtByte /\ heard = byte /\ rxbuffer = said

\* The registers of both ends in the middle of a byte: the port has n bits, the
\* device had m and put out p, and the port's buffer was shifted q times.
HasReceived(n) == \A i \in 1..n : rxbuffer[SpiBits - n + i] = said[i]
HasHeard(m) ==
    IF m < SpiBits
      THEN Len(incoming) = m /\ heard = << >> /\ \A i \in 1..m : incoming[i] = byte[i]
      ELSE incoming = << >> /\ heard = byte
HasPutOut(p) ==
    IF p < SpiBits
      THEN Len(outgoing) = SpiBits - p /\ \A i \in 1 .. SpiBits - p : outgoing[i] = said[p + i]
      ELSE Len(outgoing) = SpiBits
HasSent(q) == \A i \in 1 .. SpiBits - q : txbuffer[i] = byte[q + i]

MidByte(n) ==
    /\ O_spi_clk <=> clkcounter \in {0, 1}
    /\ HasReceived(n)
    /\ clkcounter = 3 => n < SpiBits /\ HasHeard(n) /\ HasPutOut(n) /\ HasSent(n)
                         /\ settling <= 1
    /\ clkcounter = 0 => n < SpiBits /\ HasHeard(n + 1) /\ HasPutOut(n) /\ HasSent(n)
                         /\ settling = 0
    /\ clkcounter = 1 => n >= 1 /\ HasHeard(n) /\ HasPutOut(n - 1) /\ HasSent(n - 1)
    /\ clkcounter = 2 => n >= 1 /\ HasHeard(n) /\ HasPutOut(n) /\ HasSent(n - 1)

ShiftInv == cs = 2 /\ shifting => MidByte(SpiBits - bitcounter)

\* The count of bits, also when no device listens.
CountInv == shifting => /\ pc = "finish"
                        /\ clkcounter \in {3, 0} => bitcounter > 0

SpiTyped == /\ Spi!TypeOK
            /\ outgoing \in Seq(Spi!Bit) /\ incoming \in Seq(Spi!Bit)
            /\ said \in Seq(Spi!Bit) /\ heard \in Seq(Spi!Bit)

SpiInv == SpiTyped /\ DividerInv /\ HandshakeInv /\ DeviceInv /\ ShiftInv /\ CountInv

LEMMA SpiInit == Spi!Init => SpiInv
<1> SUFFICES ASSUME Spi!Init PROVE SpiInv
    OBVIOUS
<1> USE SpiConstants
<1>1. Spi!Zeros \in Spi!Byte /\ Len(Spi!Zeros) = SpiBits /\ Spi!Zeros \in Seq(Spi!Bit)
    <2>1. Spi!Zeros \in Spi!Byte
        BY DEF Spi!Zeros, Spi!Byte, Spi!Bit
    <2> QED
        BY <2>1, ByteIsSeq
<1>2. SpiTyped
    <2>1. << >> \in Seq(Spi!Bit) /\ Len(<< >>) = 0
        OBVIOUS
    <2>2. /\ txbuffer \in Spi!Byte /\ rxbuffer \in Spi!Byte
          /\ spiclk \in BOOLEAN /\ lastspiclk \in BOOLEAN
          /\ risingclk \in BOOLEAN /\ fallingclk \in BOOLEAN /\ O_spi_clk \in BOOLEAN
        BY DEF Spi!Init
    <2>3. /\ cs = 0 /\ txstart = FALSE /\ txdata = Spi!Zeros /\ state = "IDLE"
          /\ shifting = FALSE /\ busy = FALSE /\ bitcounter = 0 /\ clkcounter = 0
          /\ outgoing = Spi!Zeros /\ incoming = << >> /\ settling = 0
          /\ said = Spi!Zeros /\ heard = << >> /\ pc = "called" /\ byte = Spi!Zeros
        BY DEF Spi!Init
    <2>4. Spi!TypeOK
        <3>1. /\ Len(outgoing) \in 1..SpiBits /\ Len(incoming) < SpiBits
              /\ Len(said) \in 1..SpiBits /\ Len(heard) \in {0, SpiBits}
            BY <1>1, <2>1, <2>3
        <3>2. cs \in 0..3 /\ bitcounter \in 0..SpiBits /\ clkcounter \in 0..3 /\ settling \in 0..Delay
            BY <2>3
        <3>3. txdata \in Spi!Byte /\ byte \in Spi!Byte
            BY <1>1, <2>3
        <3>4. txstart \in BOOLEAN /\ shifting \in BOOLEAN /\ busy \in BOOLEAN
            BY <2>3
        <3> QED
            BY <2>2, <2>3, <3>1, <3>2, <3>3, <3>4 DEF Spi!TypeOK
    <2> QED
        BY <1>1, <2>1, <2>3, <2>4 DEF SpiTyped
<1>3. pc = "called" /\ cs = 0 /\ Idle /\ incoming = << >> /\ heard = << >> /\ Len(outgoing) = SpiBits
    BY <1>1 DEF Spi!Init, Idle
<1> QED
    BY <1>2, <1>3 DEF SpiInv, DividerInv, HandshakeInv, DeviceInv, ShiftInv, CountInv, AtByte,
                      Idle, Over

\* The divider settles clock by clock.
LEMMA Divided ==
    ASSUME clkcounter \in 0..3, spiclk \in BOOLEAN, lastspiclk \in BOOLEAN, Spi!DivideClock
    PROVE  /\ clkcounter' \in 0..3
           /\ clkcounter = 3 => clkcounter' = 0
           /\ clkcounter # 3 => clkcounter' = clkcounter + 1
           /\ spiclk' \in BOOLEAN /\ lastspiclk' \in BOOLEAN
           /\ risingclk' \in BOOLEAN /\ fallingclk' \in BOOLEAN
           /\ ClockSet'
           /\ ClockSet => LastSet'
           /\ ClockSet /\ LastSet => EdgesSet'
<1>1. clkcounter \in {0, 1, 2, 3}
    OBVIOUS
<1>2. /\ clkcounter' \in 0..3
      /\ clkcounter = 3 => clkcounter' = 0
      /\ clkcounter # 3 => clkcounter' = clkcounter + 1
    BY <1>1 DEF Spi!DivideClock
<1> QED
    BY <1>1, <1>2 DEF Spi!DivideClock, ClockSet, LastSet, EdgesSet

\* The port between two transmissions.
LEMMA Resting ==
    ASSUME SpiTyped, ~busy, ~shifting, ~txstart, Spi!Controller
    PROVE  /\ Spi!DivideClock
           /\ ~busy' /\ busy' \in BOOLEAN /\ ~shifting' /\ shifting' \in BOOLEAN
           /\ rxbuffer' = rxbuffer /\ txbuffer' \in Spi!Byte
           /\ bitcounter' = bitcounter
           /\ ~O_spi_clk' /\ O_spi_clk' \in BOOLEAN
<1>1. Spi!Zeros \in Spi!Byte
    BY SpiConstants DEF Spi!Zeros, Spi!Byte, Spi!Bit
<1>2. busy \in BOOLEAN /\ shifting \in BOOLEAN /\ txstart \in BOOLEAN
    BY DEF SpiTyped, Spi!TypeOK
<1>3. Spi!DivideClock /\ Spi!Rest
    BY DEF Spi!Controller, Spi!StartShifting, Spi!ShiftIn
<1>4. /\ busy' = (busy \/ txstart) /\ shifting' = shifting /\ rxbuffer' = rxbuffer
      /\ txbuffer' = Spi!Zeros /\ bitcounter' = bitcounter /\ O_spi_clk' = FALSE
    BY <1>3 DEF Spi!Rest
<1> QED
    BY <1>1, <1>2, <1>3, <1>4

\* A device that sees no edge.
LEMMA NothingHappens ==
    ASSUME SpiTyped, cs = 2 => ~O_spi_clk, ~O_spi_clk', Spi!Follow
    PROVE  /\ incoming' = incoming /\ outgoing' = outgoing /\ heard' = heard
           /\ settling' \in 0..Delay
           /\ cs = 2 => settling' = (IF settling > 0 THEN settling - 1 ELSE 0)
<1>1. settling \in 0..Delay
    BY DEF SpiTyped, Spi!TypeOK
<1> QED
    BY <1>1, SpiConstants DEF Spi!Follow, Spi!Selected, Spi!Device, Spi!DeviceListens,
        Spi!RisingEdge, Spi!FallingEdge, Spi!deviceVars

\* The types of the port, of the device and of the BIOS.
PortTyped ==
    /\ txstart \in BOOLEAN /\ state \in {"IDLE", "WAIT_BUSY", "WAIT_READY"}
    /\ shifting \in BOOLEAN /\ busy \in BOOLEAN
    /\ txbuffer \in Spi!Byte /\ rxbuffer \in Spi!Byte /\ bitcounter \in 0..SpiBits
    /\ clkcounter \in 0..3 /\ spiclk \in BOOLEAN /\ lastspiclk \in BOOLEAN
    /\ risingclk \in BOOLEAN /\ fallingclk \in BOOLEAN /\ O_spi_clk \in BOOLEAN
DeviceTyped ==
    /\ outgoing \in Seq(Spi!Bit) /\ Len(outgoing) \in 1..SpiBits
    /\ incoming \in Seq(Spi!Bit) /\ Len(incoming) < SpiBits
    /\ heard \in Seq(Spi!Bit) /\ Len(heard) \in {0, SpiBits}
    /\ settling \in 0..Delay
BiosTyped ==
    /\ cs \in 0..3 /\ txdata \in Spi!Byte /\ byte \in Spi!Byte
    /\ pc \in {"called", "ready", "write", "finish", "read"}
    /\ said \in Seq(Spi!Bit) /\ Len(said) \in 1..SpiBits

LEMMA SpiTypes ==
    /\ SpiTyped <=> PortTyped /\ DeviceTyped /\ BiosTyped
    /\ SpiTyped' <=> PortTyped' /\ DeviceTyped' /\ BiosTyped'
<1>1. SpiTyped <=> PortTyped /\ DeviceTyped /\ BiosTyped
    BY Zenon DEF SpiTyped, Spi!TypeOK, PortTyped, DeviceTyped, BiosTyped
<1>2. SpiTyped' <=> PortTyped' /\ DeviceTyped' /\ BiosTyped'
    BY Zenon DEF SpiTyped, Spi!TypeOK, PortTyped, DeviceTyped, BiosTyped
<1> QED
    BY <1>1, <1>2

LEMMA DividerStep ==
    ASSUME SpiTyped, DividerInv, Spi!DivideClock,
           pc' \notin {"called", "ready"} => pc # "called",
           pc' \in {"finish", "read"} => pc \notin {"called", "ready"}
    PROVE  DividerInv'
<1>1. clkcounter \in 0..3 /\ spiclk \in BOOLEAN /\ lastspiclk \in BOOLEAN
    BY SpiTypes DEF PortTyped
<1>2. ClockSet' /\ (ClockSet => LastSet') /\ (ClockSet /\ LastSet => EdgesSet')
    BY <1>1, Divided
<1> QED
    BY <1>2 DEF DividerInv

\* The port has nothing to do.
LEMMA PortRests ==
    ASSUME SpiTyped, Idle, Spi!Controller, Spi!Proceed
    PROVE  /\ Idle' /\ PortTyped' /\ Spi!DivideClock
           /\ ~O_spi_clk' /\ rxbuffer' = rxbuffer
<1>1. PortTyped
    BY SpiTypes
<1>2. state' = "IDLE" /\ txstart' = txstart /\ ~txstart
    BY DEF Idle, Spi!Proceed
<1>3. /\ Spi!DivideClock
      /\ ~busy' /\ busy' \in BOOLEAN /\ ~shifting' /\ shifting' \in BOOLEAN
      /\ rxbuffer' = rxbuffer /\ txbuffer' \in Spi!Byte
      /\ bitcounter' = bitcounter
      /\ ~O_spi_clk' /\ O_spi_clk' \in BOOLEAN
    BY Resting DEF Idle
<1>4. /\ clkcounter' \in 0..3
      /\ spiclk' \in BOOLEAN /\ lastspiclk' \in BOOLEAN
      /\ risingclk' \in BOOLEAN /\ fallingclk' \in BOOLEAN
    BY <1>1, <1>3, Divided DEF PortTyped
<1> QED
    BY <1>1, <1>2, <1>3, <1>4 DEF Idle, PortTyped

\* The device while the port rests.
LEMMA DeviceRests ==
    ASSUME SpiTyped, DeviceInv, Idle, ~O_spi_clk', Spi!Follow
    PROVE  /\ DeviceTyped'
           /\ incoming' = incoming /\ outgoing' = outgoing /\ heard' = heard
           /\ cs = 2 => settling' = (IF settling > 0 THEN settling - 1 ELSE 0)
<1>1. DeviceTyped
    BY SpiTypes
<1>2. cs = 2 => ~O_spi_clk
    BY DEF Idle, DeviceInv
<1> QED
    BY <1>1, <1>2, NothingHappens DEF DeviceTyped

LEMMA SelectStep == SpiInv /\ Spi!Controller /\ Spi!Select => SpiInv'
<1> SUFFICES ASSUME SpiInv, Spi!Controller, Spi!Select PROVE SpiInv'
    OBVIOUS
<1>1. /\ SpiTyped /\ DividerInv /\ HandshakeInv /\ DeviceInv
      /\ pc = "called" /\ pc' = pc /\ byte' = byte /\ said' = said
    BY DEF SpiInv, Spi!Select, Spi!biosVars
<1>2. PICK n \in 0..3 :
         /\ Spi!Proceed /\ cs' = n /\ txdata' = txdata
         /\ IF n = 2 /\ cs # 2 THEN Spi!DeviceRestarts ELSE Spi!Follow
    BY DEF Spi!Select, Spi!SelectDevice, Spi!Device, Spi!Selected
<1>3. Idle /\ AtByte /\ heard = << >>
    BY <1>1 DEF HandshakeInv, DeviceInv
<1>4. Idle' /\ PortTyped' /\ Spi!DivideClock /\ ~O_spi_clk'
    BY <1>1, <1>2, <1>3, PortRests
<1>5. DeviceTyped' /\ AtByte' /\ heard' = << >>
    <2>1. CASE n = 2 /\ cs # 2
        <3>1. /\ incoming' = << >> /\ outgoing' \in Spi!Byte /\ settling' \in 0..Delay
              /\ heard' = heard
            BY <1>2, <2>1 DEF Spi!DeviceRestarts
        <3>2. outgoing' \in Seq(Spi!Bit) /\ Len(outgoing') = SpiBits
            BY <3>1, ByteIsSeq
        <3> QED
            BY <1>3, <3>1, <3>2, SpiConstants DEF DeviceTyped, AtByte
    <2>2. CASE ~(n = 2 /\ cs # 2)
        BY <1>1, <1>2, <1>3, <1>4, <2>2, DeviceRests DEF AtByte
    <2> QED
        BY <2>1, <2>2
<1>6. BiosTyped'
    BY <1>1, <1>2, SpiTypes DEF BiosTyped
<1>7. DividerInv'
    BY <1>1, <1>4, DividerStep
<1> QED
    BY <1>1, <1>4, <1>5, <1>6, <1>7, SpiTypes
       DEF SpiInv, HandshakeInv, DeviceInv, ShiftInv, CountInv, Idle, Over

\* A clock between two transmissions in which the BIOS does not use the port.
LEMMA QuietStep ==
    ASSUME SpiInv, Idle, Spi!Controller, Spi!NoWrite, Spi!Follow, said' = said, byte' \in Spi!Byte,
           \/ pc \in {"called", "ready", "write", "read"} /\ pc' = pc /\ byte' = byte
           \/ pc = "called" /\ pc' = "ready"
           \/ pc = "ready" /\ pc' = "write"
    PROVE  SpiInv'
<1>1. /\ SpiTyped /\ DividerInv /\ HandshakeInv /\ DeviceInv
      /\ Spi!Proceed /\ cs' = cs /\ txdata' = txdata
    BY DEF SpiInv, Spi!NoWrite
<1>2. Idle' /\ PortTyped' /\ Spi!DivideClock /\ ~O_spi_clk' /\ rxbuffer' = rxbuffer
    BY <1>1, PortRests
<1>3. /\ DeviceTyped'
      /\ incoming' = incoming /\ outgoing' = outgoing /\ heard' = heard
      /\ cs = 2 => settling' = (IF settling > 0 THEN settling - 1 ELSE 0)
    BY <1>1, <1>2, DeviceRests
<1>4. BiosTyped'
    BY <1>1, SpiTypes DEF BiosTyped
<1>5. DividerInv'
    BY <1>1, <1>2, DividerStep
<1>6. HandshakeInv' /\ ShiftInv' /\ CountInv' /\ pc' # "finish" /\ ~Over'
    BY <1>2 DEF HandshakeInv, ShiftInv, CountInv, Idle, Over
<1>7. settling \in 0..2
    BY <1>1, SpiTypes, SpiConstants DEF DeviceTyped
<1>8. DeviceInv'
    <2>1. cs' = 2 /\ pc' = "ready" => settling' <= 1
        BY <1>1, <1>3, <1>7
    <2>2. cs' = 2 /\ pc' = "write" => settling' = 0
        BY <1>1, <1>3, <1>7 DEF DeviceInv
    <2>3. pc' \in {"called", "ready", "write"} \/ cs' # 2 => AtByte' /\ heard' = << >>
        BY <1>1, <1>3 DEF DeviceInv, AtByte
    <2>4. cs' = 2 /\ (Over' \/ pc' = "read") => AtByte' /\ heard' = byte' /\ rxbuffer' = said'
        BY <1>1, <1>2, <1>3, <1>6 DEF DeviceInv, AtByte
    <2> QED
        BY <1>2, <1>6, <2>1, <2>2, <2>3, <2>4 DEF DeviceInv
<1> QED
    BY <1>2, <1>3, <1>4, <1>5, <1>6, <1>8, SpiTypes DEF SpiInv

LEMMA WriteStep == SpiInv /\ Spi!Controller /\ Spi!Write => SpiInv'
<1> SUFFICES ASSUME SpiInv, Spi!Controller, Spi!Write PROVE SpiInv'
    OBVIOUS
<1>1. /\ SpiTyped /\ DividerInv /\ HandshakeInv /\ DeviceInv
      /\ pc = "write" /\ pc' = "finish" /\ said' = outgoing /\ byte' = byte /\ cs' = cs
      /\ Spi!Follow
    BY DEF SpiInv, Spi!Write, Spi!WriteData
<1>2. Idle /\ AtByte /\ heard = << >>
    BY <1>1 DEF HandshakeInv, DeviceInv
<1>3. txdata' = byte /\ state' = "WAIT_BUSY" /\ txstart' = txstart
    BY <1>2 DEF Spi!Write, Spi!WriteData, Idle
<1>4. /\ Spi!DivideClock
      /\ ~busy' /\ busy' \in BOOLEAN /\ ~shifting' /\ shifting' \in BOOLEAN
      /\ rxbuffer' = rxbuffer /\ txbuffer' \in Spi!Byte
      /\ bitcounter' = bitcounter
      /\ ~O_spi_clk' /\ O_spi_clk' \in BOOLEAN
    BY <1>1, <1>2, Resting DEF Idle
<1>5. /\ DeviceTyped'
      /\ incoming' = incoming /\ outgoing' = outgoing /\ heard' = heard
      /\ cs = 2 => settling' = (IF settling > 0 THEN settling - 1 ELSE 0)
    BY <1>1, <1>2, <1>4, DeviceRests
<1>6. PortTyped'
    <2>1. PortTyped
        BY <1>1, SpiTypes
    <2>2. /\ clkcounter' \in 0..3
          /\ spiclk' \in BOOLEAN /\ lastspiclk' \in BOOLEAN
          /\ risingclk' \in BOOLEAN /\ fallingclk' \in BOOLEAN
        BY <1>4, <2>1, Divided DEF PortTyped
    <2> QED
        BY <1>3, <1>4, <2>1, <2>2 DEF PortTyped
<1>7. BiosTyped'
    <2>1. BiosTyped /\ DeviceTyped
        BY <1>1, SpiTypes
    <2> QED
        BY <1>1, <1>3, <2>1 DEF BiosTyped, DeviceTyped
<1>8. DividerInv'
    BY <1>1, <1>4, DividerStep
<1>9. HandshakeInv' /\ ShiftInv' /\ CountInv' /\ ~Over'
    <2>1. Len(said') = SpiBits
        BY <1>1, <1>2 DEF AtByte
    <2> QED
        BY <1>1, <1>3, <1>4, <2>1 DEF HandshakeInv, ShiftInv, CountInv, Over
<1>10. DeviceInv'
    <2>1. cs = 2 => settling' = 0
        BY <1>1, <1>5 DEF DeviceInv
    <2>2. AtByte' /\ heard' = << >> /\ outgoing' = said'
        BY <1>1, <1>2, <1>5 DEF AtByte
    <2> QED
        BY <1>1, <1>4, <1>9, <2>1, <2>2 DEF DeviceInv
<1> QED
    BY <1>5, <1>6, <1>7, <1>8, <1>9, <1>10, SpiTypes DEF SpiInv

LEMMA ReadStep == SpiInv /\ Spi!Controller /\ Spi!Read => SpiInv'
<1> SUFFICES ASSUME SpiInv, Spi!Controller, Spi!Read PROVE SpiInv'
    OBVIOUS
<1> USE SpiConstants
<1>1. /\ SpiTyped /\ DividerInv /\ HandshakeInv /\ DeviceInv
      /\ pc = "read" /\ pc' = "called" /\ byte' = Spi!Zeros /\ said' = Spi!Zeros /\ heard' = << >>
      /\ incoming' = incoming /\ outgoing' = outgoing /\ settling' = settling
      /\ Spi!Proceed /\ cs' = cs /\ txdata' = txdata
    BY DEF SpiInv, Spi!Read, Spi!NoWrite, Spi!deviceVars
<1>2. Idle /\ AtByte
    BY <1>1 DEF HandshakeInv, DeviceInv
<1>3. Idle' /\ PortTyped' /\ Spi!DivideClock /\ ~O_spi_clk'
    BY <1>1, <1>2, PortRests
<1>4. DeviceTyped' /\ AtByte'
    <2>1. DeviceTyped
        BY <1>1, SpiTypes
    <2> QED
        BY <1>1, <1>2, <2>1 DEF DeviceTyped, AtByte
<1>5. BiosTyped'
    <2>1. Spi!Zeros \in Spi!Byte
        BY DEF Spi!Zeros, Spi!Byte, Spi!Bit
    <2>2. Spi!Zeros \in Seq(Spi!Bit) /\ Len(Spi!Zeros) = SpiBits
        BY <2>1, ByteIsSeq
    <2>3. BiosTyped
        BY <1>1, SpiTypes
    <2> QED
        BY <1>1, <2>1, <2>2, <2>3 DEF BiosTyped
<1>6. DividerInv'
    BY <1>1, <1>3, DividerStep
<1> QED
    BY <1>1, <1>3, <1>4, <1>5, <1>6, SpiTypes
       DEF SpiInv, HandshakeInv, DeviceInv, ShiftInv, CountInv, Idle, Over

\* The port in the middle of a byte.
LEMMA PortShifts ==
    ASSUME SpiInv, pc = "finish", shifting, Spi!Controller
    PROVE  /\ Spi!DivideClock
           /\ O_spi_clk' \in BOOLEAN /\ (O_spi_clk' <=> clkcounter \in {3, 0})
           /\ clkcounter = 0 => /\ \E b \in Spi!MISO : rxbuffer' = Spi!Shift(rxbuffer, b)
                                /\ bitcounter' = bitcounter - 1
           /\ clkcounter # 0 => rxbuffer' = rxbuffer /\ bitcounter' = bitcounter
           /\ clkcounter = 2 => txbuffer' = Spi!Shift(txbuffer, 0)
           /\ clkcounter # 2 => txbuffer' = txbuffer
           /\ clkcounter = 2 /\ bitcounter = 0 => ~shifting' /\ ~busy'
           /\ ~(clkcounter = 2 /\ bitcounter = 0) => shifting' /\ busy'
           /\ shifting' \in BOOLEAN /\ busy' \in BOOLEAN
           /\ txbuffer' \in Spi!Byte /\ rxbuffer' \in Spi!Byte /\ bitcounter' \in 0..SpiBits
<1> USE SpiConstants
<1>1. /\ PortTyped /\ DeviceTyped /\ EdgesSet /\ ClockSet /\ busy /\ CountInv
    <2>1. busy
        BY DEF SpiInv, HandshakeInv, Idle
    <2> QED
        BY <2>1, SpiTypes DEF SpiInv, DividerInv
<1>2. /\ Spi!DivideClock /\ Spi!ShiftIn /\ Spi!ShiftOut
    BY DEF Spi!Controller, Spi!StartShifting, Spi!Rest
<1>3. risingclk = (clkcounter = 0) /\ fallingclk = (clkcounter = 2) /\ spiclk = (clkcounter \in {3, 0})
    BY <1>1 DEF EdgesSet, ClockSet
<1>4. /\ clkcounter = 0 => /\ \E b \in Spi!MISO : rxbuffer' = Spi!Shift(rxbuffer, b)
                           /\ bitcounter' = bitcounter - 1
      /\ clkcounter # 0 => rxbuffer' = rxbuffer /\ bitcounter' = bitcounter
    BY <1>2, <1>3 DEF Spi!ShiftIn
<1>5. /\ clkcounter = 2 => txbuffer' = Spi!Shift(txbuffer, 0)
      /\ clkcounter # 2 => txbuffer' = txbuffer
      /\ clkcounter = 2 /\ bitcounter = 0 => shifting' = FALSE /\ busy' = FALSE
      /\ ~(clkcounter = 2 /\ bitcounter = 0) => shifting' = shifting /\ busy' = (busy \/ txstart)
      /\ O_spi_clk' = spiclk
    BY <1>2, <1>3 DEF Spi!ShiftOut
<1>6. Spi!MISO \subseteq Spi!Bit
    <2>1. outgoing \in Seq(Spi!Bit) /\ Len(outgoing) \in 1..SpiBits
        BY <1>1 DEF DeviceTyped
    <2>2. Head(outgoing) \in Spi!Bit
        BY <2>1
    <2> QED
        BY <2>2 DEF Spi!MISO
<1>7. rxbuffer \in Spi!Byte /\ txbuffer \in Spi!Byte /\ bitcounter \in 0..SpiBits /\ 0 \in Spi!Bit
    BY <1>1 DEF PortTyped, Spi!Bit
<1>8. txbuffer' \in Spi!Byte
    BY <1>5, <1>7, ShiftedByte
<1>9. rxbuffer' \in Spi!Byte
    BY <1>4, <1>6, <1>7, ShiftedByte
<1>10. bitcounter' \in 0..SpiBits
    BY <1>1, <1>4, <1>7 DEF CountInv
<1>11. (O_spi_clk' <=> clkcounter \in {3, 0}) /\ O_spi_clk' \in BOOLEAN
    BY <1>1, <1>3, <1>5 DEF PortTyped
<1>12. /\ clkcounter = 2 /\ bitcounter = 0 => ~shifting' /\ ~busy'
       /\ ~(clkcounter = 2 /\ bitcounter = 0) => shifting' /\ busy'
       /\ shifting' \in BOOLEAN /\ busy' \in BOOLEAN
    <2>1. shifting \in BOOLEAN /\ busy \in BOOLEAN /\ txstart \in BOOLEAN
        BY <1>1 DEF PortTyped
    <2> QED
        BY <1>1, <1>5, <2>1
<1> QED
    BY <1>2, <1>4, <1>5, <1>8, <1>9, <1>10, <1>11, <1>12

\* A clock of the port while the BIOS waits for the end of the byte.
WaitClock ==
    /\ SpiInv /\ pc = "finish" /\ Spi!Controller /\ Spi!NoWrite /\ Spi!Follow
    /\ said' = said /\ byte' = byte
    /\ pc' = pc \/ (state = "IDLE" /\ pc' = "read")

LEMMA WaitTypes ==
    ASSUME WaitClock
    PROVE  /\ PortTyped /\ DeviceTyped /\ BiosTyped /\ BiosTyped' /\ DividerInv'
           /\ SpiTyped /\ HandshakeInv /\ DeviceInv /\ ShiftInv /\ CountInv
           /\ Spi!Proceed /\ cs' = cs /\ txdata' = txdata
           /\ EdgesSet /\ ClockSet
<1>1. /\ SpiTyped /\ DividerInv /\ HandshakeInv /\ DeviceInv /\ ShiftInv /\ CountInv
      /\ Spi!Proceed /\ cs' = cs /\ txdata' = txdata /\ pc = "finish" /\ Spi!DivideClock
      /\ pc' \in {"finish", "read"} /\ said' = said /\ byte' = byte
    BY DEF WaitClock, SpiInv, Spi!NoWrite, Spi!Controller
<1>2. PortTyped /\ DeviceTyped /\ BiosTyped
    BY <1>1, SpiTypes
<1>3. BiosTyped'
    BY <1>1, <1>2 DEF BiosTyped
<1>4. DividerInv'
    BY <1>1, DividerStep
<1>5. EdgesSet /\ ClockSet
    BY <1>1 DEF DividerInv
<1> QED
    BY <1>1, <1>2, <1>3, <1>4, <1>5

LEMMA WaitPort ==
    ASSUME WaitClock
    PROVE  txstart' \in BOOLEAN /\ state' \in {"IDLE", "WAIT_BUSY", "WAIT_READY"}
           /\ clkcounter' \in 0..3
           /\ spiclk' \in BOOLEAN /\ lastspiclk' \in BOOLEAN
           /\ risingclk' \in BOOLEAN /\ fallingclk' \in BOOLEAN
           /\ (clkcounter = 3 => clkcounter' = 0)
           /\ (clkcounter # 3 => clkcounter' = clkcounter + 1)
<1>1. PortTyped /\ Spi!Proceed /\ Spi!DivideClock
    BY WaitTypes DEF WaitClock, Spi!Controller
<1>2. txstart' \in BOOLEAN /\ state' \in {"IDLE", "WAIT_BUSY", "WAIT_READY"}
    BY <1>1 DEF PortTyped, Spi!Proceed
<1> QED
    BY <1>1, <1>2, Divided DEF PortTyped

\* No byte is on the line, and none is begun.
LEMMA LineRests ==
    ASSUME WaitClock, ~shifting, ~(busy /\ fallingclk)
    PROVE  SpiInv'
<1>1. /\ PortTyped /\ DeviceTyped /\ BiosTyped /\ BiosTyped' /\ DividerInv'
      /\ SpiTyped /\ HandshakeInv /\ DeviceInv /\ Spi!Proceed /\ cs' = cs /\ txdata' = txdata
      /\ Spi!Follow /\ pc = "finish" /\ byte' = byte /\ said' = said
      /\ (pc' = pc \/ (state = "IDLE" /\ pc' = "read"))
    BY WaitTypes DEF WaitClock
<1>2. /\ busy' = (busy \/ txstart) /\ shifting' = shifting /\ rxbuffer' = rxbuffer
      /\ txbuffer' = Spi!Zeros /\ bitcounter' = bitcounter /\ O_spi_clk' = FALSE
    BY DEF WaitClock, Spi!Controller, Spi!StartShifting, Spi!ShiftIn, Spi!Rest
<1>3. PortTyped'
    <2>1. Spi!Zeros \in Spi!Byte
        BY SpiConstants DEF Spi!Zeros, Spi!Byte, Spi!Bit
    <2>2. busy' \in BOOLEAN /\ shifting' \in BOOLEAN /\ O_spi_clk' \in BOOLEAN
        BY <1>1, <1>2 DEF PortTyped
    <2> QED
        BY <1>1, <1>2, <2>1, <2>2, WaitPort DEF PortTyped
<1>4. /\ incoming' = incoming /\ outgoing' = outgoing /\ heard' = heard
      /\ settling' \in 0..Delay
      /\ cs = 2 => settling' = (IF settling > 0 THEN settling - 1 ELSE 0)
    BY <1>1, <1>2, NothingHappens DEF DeviceInv
<1>5. DeviceTyped'
    BY <1>1, <1>4 DEF DeviceTyped
<1>6. CASE Over
    <2>1. ~txstart /\ ~busy
        BY <1>1, <1>6 DEF HandshakeInv, Over, Idle
    <2>2. /\ state = "IDLE" \/ state = "WAIT_READY"
          /\ state' = "IDLE" /\ ~txstart'
        BY <1>1, <1>6, <2>1 DEF Over, Spi!Proceed
    <2>3. Idle'
        BY <1>2, <2>1, <2>2 DEF Idle
    <2>4. HandshakeInv'
        BY <1>1, <2>3 DEF HandshakeInv
    <2>5. /\ cs = 2 => AtByte' /\ heard' = byte' /\ rxbuffer' = said'
          /\ cs # 2 => AtByte' /\ heard' = << >>
        BY <1>1, <1>2, <1>4, <1>6 DEF DeviceInv, AtByte
    <2>6. Over' \/ pc' = "read"
        BY <1>1, <2>2 DEF Over
    <2>7. DeviceInv'
        BY <1>1, <1>2, <2>5, <2>6 DEF DeviceInv
    <2> QED
        BY <1>1, <1>2, <1>3, <1>5, <2>4, <2>7, SpiTypes DEF SpiInv, ShiftInv, CountInv
<1>7. CASE ~Over
    <2>1. /\ pc' = "finish" /\ Len(said') = SpiBits /\ txdata' = byte'
          /\ \/ state = "WAIT_BUSY" /\ (busy => txstart)
             \/ state = "WAIT_READY" /\ busy
        BY <1>1, <1>7 DEF HandshakeInv, Over, Idle
    <2>2. \/ state' = "WAIT_BUSY" /\ txstart'
          \/ state' = "WAIT_READY" /\ busy'
        BY <1>1, <1>2, <2>1 DEF Spi!Proceed
    <2>3. HandshakeInv' /\ ~Over'
        BY <1>2, <2>1, <2>2 DEF HandshakeInv, Over
    <2>4. /\ cs = 2 => AtByte' /\ heard' = << >> /\ outgoing' = said' /\ settling' = 0
          /\ cs # 2 => AtByte' /\ heard' = << >>
        BY <1>1, <1>4, <1>7 DEF DeviceInv, AtByte
    <2>5. DeviceInv'
        BY <1>1, <1>2, <2>1, <2>3, <2>4 DEF DeviceInv
    <2> QED
        BY <1>1, <1>2, <1>3, <1>5, <2>3, <2>5, SpiTypes DEF SpiInv, ShiftInv, CountInv
<1> QED
    BY <1>6, <1>7

LEMMA MidByteNext ==
    ASSUME NEW n, SpiBits - bitcounter' = n, cs' = 2 /\ shifting' => MidByte(n)'
    PROVE  ShiftInv'
    BY Zenon DEF ShiftInv

\* The port begins a byte.
LEMMA ByteBegins ==
    ASSUME WaitClock, ~shifting, busy, fallingclk
    PROVE  SpiInv'
<1> USE SpiConstants
<1>1. /\ PortTyped /\ DeviceTyped /\ BiosTyped /\ BiosTyped' /\ DividerInv'
      /\ SpiTyped /\ HandshakeInv /\ DeviceInv /\ Spi!Proceed /\ cs' = cs /\ txdata' = txdata
      /\ Spi!Follow /\ pc = "finish" /\ byte' = byte /\ said' = said
      /\ (pc' = pc \/ (state = "IDLE" /\ pc' = "read")) /\ EdgesSet
    BY WaitTypes DEF WaitClock
<1>2. /\ bitcounter' = SpiBits /\ txbuffer' = txdata /\ shifting' = TRUE /\ O_spi_clk' = FALSE
      /\ busy' = TRUE /\ rxbuffer' = rxbuffer
    BY DEF WaitClock, Spi!Controller, Spi!StartShifting, Spi!ShiftIn, Spi!Rest
<1>3. clkcounter' = 3
    <2>1. clkcounter = 2
        BY <1>1 DEF EdgesSet, PortTyped
    <2> QED
        BY <2>1, WaitPort
<1>4. PortTyped'
    <2>1. txdata \in Spi!Byte /\ SpiBits \in 0..SpiBits
        BY <1>1 DEF BiosTyped
    <2>2. shifting' \in BOOLEAN /\ O_spi_clk' \in BOOLEAN /\ busy' \in BOOLEAN
        BY <1>2
    <2>3. rxbuffer' \in Spi!Byte /\ txbuffer' \in Spi!Byte /\ bitcounter' \in 0..SpiBits
        BY <1>1, <1>2, <2>1 DEF PortTyped
    <2> QED
        BY <2>2, <2>3, WaitPort DEF PortTyped
<1>5. /\ incoming' = incoming /\ outgoing' = outgoing /\ heard' = heard
      /\ settling' \in 0..Delay
      /\ cs = 2 => settling' = (IF settling > 0 THEN settling - 1 ELSE 0)
    BY <1>1, <1>2, NothingHappens DEF DeviceInv
<1>6. DeviceTyped'
    BY <1>1, <1>5 DEF DeviceTyped
<1>7. /\ ~Over /\ pc' = "finish" /\ Len(said') = SpiBits /\ txdata' = byte'
      /\ state' = "WAIT_READY"
    BY <1>1 DEF HandshakeInv, Over, Idle, Spi!Proceed
<1>8. HandshakeInv' /\ ~Over' /\ CountInv'
    BY <1>2, <1>3, <1>7 DEF HandshakeInv, Over, CountInv
<1>9. DeviceInv'
    <2>1. cs # 2 => AtByte' /\ heard' = << >>
        BY <1>1, <1>5 DEF DeviceInv, AtByte
    <2> QED
        BY <1>1, <1>2, <1>7, <1>8, <2>1 DEF DeviceInv
<1>10. ShiftInv'
    <2>1. cs = 2 => AtByte' /\ heard' = << >> /\ outgoing' = said' /\ settling' = 0
        BY <1>1, <1>5, <1>7 DEF DeviceInv, AtByte
    <2>2. txbuffer' = byte'
        BY <1>2, <1>7, <1>1
    <2>3. ASSUME cs = 2
          PROVE  (HasReceived(0) /\ HasHeard(0) /\ HasPutOut(0) /\ HasSent(0))'
        BY <2>1, <2>2, <2>3 DEF HasReceived, HasHeard, HasPutOut, HasSent, AtByte
    <2>4. ASSUME cs = 2
          PROVE  MidByte(0)'
        <3>1. ~O_spi_clk' /\ ~(clkcounter' \in {0, 1})
            BY <1>2, <1>3
        <3> QED
            BY <1>3, <2>1, <2>3, <2>4, <3>1 DEF MidByte
    <2>5. SpiBits - bitcounter' = 0
        BY <1>2
    <2> QED
        BY <1>1, <2>4, <2>5, MidByteNext
<1> QED
    BY <1>1, <1>4, <1>6, <1>8, <1>9, <1>10, SpiTypes DEF SpiInv

\* The port's side of a clock in the middle of a byte.
LEMMA ByteGoesOn ==
    ASSUME WaitClock, shifting
    PROVE  /\ PortTyped' /\ HandshakeInv' /\ CountInv' /\ busy
           /\ pc' = "finish" /\ state' = "WAIT_READY"
<1> USE SpiConstants
<1>1. /\ PortTyped /\ DeviceTyped /\ BiosTyped /\ SpiInv
      /\ HandshakeInv /\ CountInv /\ Spi!Proceed /\ txdata' = txdata
      /\ pc = "finish" /\ byte' = byte /\ said' = said /\ Spi!Controller
      /\ (pc' = pc \/ (state = "IDLE" /\ pc' = "read"))
    BY WaitTypes DEF WaitClock
<1>2. /\ O_spi_clk' \in BOOLEAN
      /\ clkcounter # 0 => bitcounter' = bitcounter
      /\ clkcounter = 2 /\ bitcounter = 0 => ~shifting' /\ ~busy'
      /\ ~(clkcounter = 2 /\ bitcounter = 0) => shifting' /\ busy'
      /\ shifting' \in BOOLEAN /\ busy' \in BOOLEAN
      /\ txbuffer' \in Spi!Byte /\ rxbuffer' \in Spi!Byte /\ bitcounter' \in 0..SpiBits
    BY <1>1, PortShifts
<1>3. PortTyped'
    BY <1>2, WaitPort DEF PortTyped
<1>4. state = "WAIT_READY" /\ busy
    BY <1>1 DEF HandshakeInv, Idle
<1>5. pc' = "finish" /\ state' = "WAIT_READY" /\ ~txstart'
    BY <1>1, <1>4 DEF Spi!Proceed
<1>6. HandshakeInv'
    <2>1. txdata' = byte' /\ Len(said') = SpiBits
        BY <1>1 DEF HandshakeInv
    <2>2. busy' \/ (~busy' /\ ~shifting')
        BY <1>2
    <2> QED
        BY <1>5, <2>1, <2>2 DEF HandshakeInv
<1>7. CountInv'
    <2>1. ASSUME shifting', clkcounter' \in {3, 0} PROVE bitcounter' > 0
        <3>1. bitcounter \in 0..SpiBits /\ clkcounter \in 0..3
            BY <1>1 DEF PortTyped
        <3>2. clkcounter \in {2, 3}
            BY <2>1, <3>1, WaitPort
        <3>3. clkcounter = 2 => bitcounter # 0
            BY <1>2, <2>1
        <3>4. clkcounter = 3 => bitcounter > 0
            BY <1>1 DEF CountInv
        <3> QED
            BY <1>2, <3>1, <3>2, <3>3, <3>4
    <2> QED
        BY <1>5, <2>1 DEF CountInv
<1> QED
    BY <1>3, <1>4, <1>5, <1>6, <1>7

\* The device takes a bit: the byte it has heard is a bit longer.
LEMMA BitHeard ==
    ASSUME DeviceTyped, BiosTyped, PortTyped, NEW n \in 0 .. SpiBits - 1, HasHeard(n), HasSent(n),
           txbuffer' = txbuffer, byte' = byte, Spi!Sample
    PROVE  /\ HasHeard(n + 1)'
           /\ incoming' \in Seq(Spi!Bit) /\ Len(incoming') < SpiBits
           /\ heard' \in Seq(Spi!Bit) /\ Len(heard') \in {0, SpiBits}
<1> USE SpiConstants
<1>1. /\ incoming \in Seq(Spi!Bit) /\ Len(incoming) = n /\ heard = << >>
      /\ \A i \in 1..n : incoming[i] = byte[i]
    BY DEF HasHeard, DeviceTyped
<1>2. /\ byte \in Spi!Byte /\ byte \in Seq(Spi!Bit) /\ Len(byte) = SpiBits
      /\ txbuffer \in Spi!Byte /\ Head(txbuffer) = txbuffer[1] /\ Head(txbuffer) \in Spi!Bit
    BY ByteIsSeq DEF BiosTyped, PortTyped
<1>3. Spi!MOSI = byte[n + 1] /\ Spi!MOSI' = Spi!MOSI /\ Spi!MOSI \in Spi!Bit
    BY <1>2 DEF Spi!MOSI, HasSent
<1>4. IF Len(incoming) = SpiBits - 1
        THEN heard' = Append(incoming, Spi!MOSI) /\ incoming' = << >>
        ELSE incoming' = Append(incoming, Spi!MOSI) /\ heard' = heard
    BY <1>3 DEF Spi!Sample
<1>5. PICK w : w = Append(incoming, Spi!MOSI)
    OBVIOUS
<1>6. /\ w \in Seq(Spi!Bit) /\ Len(w) = n + 1
      /\ \A i \in 1 .. n + 1 : w[i] = byte[i]
    BY <1>1, <1>3, <1>5
<1>7. CASE n = SpiBits - 1
    <2>1. w = byte
        BY <1>2, <1>6, <1>7, SeqEqual
    <2>2. heard' = byte /\ incoming' = << >>
        BY <1>1, <1>4, <1>5, <1>7, <2>1
    <2>3. HasHeard(n + 1)'
        BY <1>7, <2>2 DEF HasHeard
    <2> QED
        BY <1>2, <2>2, <2>3
<1>8. CASE n < SpiBits - 1
    <2>1. incoming' = w /\ heard' = << >>
        BY <1>1, <1>4, <1>5, <1>8
    <2>2. HasHeard(n + 1)'
        BY <1>6, <1>8, <2>1 DEF HasHeard
    <2> QED
        BY <1>6, <1>8, <2>1, <2>2
<1> QED
    BY <1>7, <1>8

\* The port takes a bit.
LEMMA BitReceived ==
    ASSUME PortTyped, DeviceTyped, NEW n \in 0 .. SpiBits - 1, HasReceived(n), HasPutOut(n),
           rxbuffer' = Spi!Shift(rxbuffer, Head(outgoing)), said' = said
    PROVE  HasReceived(n + 1)'
<1> USE SpiConstants
<1>1. /\ outgoing \in Seq(Spi!Bit) /\ Len(outgoing) = SpiBits - n
      /\ outgoing[1] = said[n + 1]
    BY DEF HasPutOut, DeviceTyped
<1>2. Head(outgoing) = said[n + 1] /\ Head(outgoing) \in Spi!Bit
    BY <1>1
<1>3. /\ \A i \in 1 .. SpiBits - 1 : rxbuffer'[i] = rxbuffer[i + 1]
      /\ rxbuffer'[SpiBits] = said[n + 1]
    BY <1>2, ShiftedByte DEF PortTyped
<1>4. ASSUME NEW i \in 1 .. n + 1
      PROVE  rxbuffer'[SpiBits - (n + 1) + i] = said'[i]
    <2>1. CASE i = n + 1
        BY <1>3, <2>1
    <2>2. CASE i \in 1..n
        <3>1. /\ SpiBits - (n + 1) + i \in 1 .. SpiBits - 1
              /\ SpiBits - (n + 1) + i + 1 = SpiBits - n + i
            BY <2>2
        <3>2. rxbuffer'[SpiBits - (n + 1) + i] = rxbuffer[SpiBits - n + i]
            BY <1>3, <3>1
        <3> QED
            BY <2>2, <3>2 DEF HasReceived
    <2> QED
        BY <2>1, <2>2
<1> QED
    BY <1>4 DEF HasReceived

\* The device puts out its next bit.
LEMMA BitPutOut ==
    ASSUME DeviceTyped, NEW n \in 1..SpiBits, HasPutOut(n - 1), Spi!PutOut, said' = said
    PROVE  /\ HasPutOut(n)'
           /\ outgoing' \in Seq(Spi!Bit) /\ Len(outgoing') \in 1..SpiBits
<1> USE SpiConstants
<1>1. /\ outgoing \in Seq(Spi!Bit) /\ Len(outgoing) = SpiBits - (n - 1)
      /\ \A i \in 1 .. SpiBits - (n - 1) : outgoing[i] = said[n - 1 + i]
    BY DEF HasPutOut, DeviceTyped
<1>2. CASE n = SpiBits
    <2>1. outgoing' \in Spi!Byte
        BY <1>1, <1>2 DEF Spi!PutOut
    <2>2. outgoing' \in Seq(Spi!Bit) /\ Len(outgoing') = SpiBits
        BY <2>1, ByteIsSeq
    <2> QED
        BY <1>2, <2>2 DEF HasPutOut
<1>3. CASE n < SpiBits
    <2>1. outgoing' = Tail(outgoing) /\ outgoing # << >>
        BY <1>1, <1>3 DEF Spi!PutOut
    <2>2. /\ outgoing' \in Seq(Spi!Bit) /\ Len(outgoing') = SpiBits - n
          /\ \A i \in 1 .. SpiBits - n : outgoing'[i] = outgoing[i + 1]
        BY <1>1, <2>1, HeadTailProperties
    <2>3. ASSUME NEW i \in 1 .. SpiBits - n PROVE outgoing'[i] = said'[n + i]
        <3>1. outgoing'[i] = outgoing[i + 1] /\ i + 1 \in 1 .. SpiBits - (n - 1)
              /\ n - 1 + (i + 1) = n + i
            BY <2>2
        <3> QED
            BY <1>1, <3>1
    <2> QED
        BY <1>3, <2>2, <2>3 DEF HasPutOut
<1> QED
    BY <1>2, <1>3

\* The port puts out its next bit.
LEMMA BitSent ==
    ASSUME PortTyped, NEW n \in 1..SpiBits, HasSent(n - 1),
           txbuffer' = Spi!Shift(txbuffer, 0), byte' = byte
    PROVE  HasSent(n)'
<1> USE SpiConstants
<1>1. \A i \in 1 .. SpiBits - 1 : txbuffer'[i] = txbuffer[i + 1]
    <2>1. txbuffer \in Spi!Byte /\ 0 \in Spi!Bit
        BY DEF PortTyped, Spi!Bit
    <2> QED
        BY <2>1, ShiftedByte
<1>2. ASSUME NEW i \in 1 .. SpiBits - n PROVE txbuffer'[i] = byte'[n + i]
    <2>1. i \in 1 .. SpiBits - 1 /\ i + 1 \in 1 .. SpiBits - (n - 1) /\ n - 1 + (i + 1) = n + i
        OBVIOUS
    <2>2. txbuffer[i + 1] = byte[n - 1 + (i + 1)]
        BY <2>1 DEF HasSent
    <2> QED
        BY <1>1, <2>1, <2>2
<1> QED
    BY <1>2 DEF HasSent

\* The rising edge of the bus clock: the device takes a bit.
LEMMA ClockRises ==
    ASSUME WaitClock, shifting, cs = 2, clkcounter = 3
    PROVE  DeviceTyped' /\ ShiftInv'
<1> USE SpiConstants
<1>1. /\ PortTyped /\ DeviceTyped /\ BiosTyped /\ SpiInv /\ ShiftInv /\ cs' = cs
      /\ pc = "finish" /\ byte' = byte /\ said' = said /\ Spi!Controller /\ Spi!Follow
      /\ bitcounter \in 0..SpiBits /\ clkcounter' = 0
    BY WaitTypes, WaitPort DEF WaitClock, PortTyped
<1>2. PICK n \in 0..SpiBits : n = SpiBits - bitcounter
    BY <1>1
<1>3. MidByte(n)
    BY <1>1, <1>2 DEF ShiftInv
<1>4. /\ O_spi_clk' /\ bitcounter' = bitcounter
      /\ txbuffer' = txbuffer /\ rxbuffer' = rxbuffer /\ shifting'
    BY <1>1, PortShifts
<1>5. /\ n \in 0 .. SpiBits - 1 /\ HasReceived(n) /\ HasHeard(n) /\ HasPutOut(n) /\ HasSent(n)
      /\ settling <= 1 /\ ~O_spi_clk
    BY <1>3 DEF MidByte
<1>6. /\ Spi!Sample /\ outgoing' = outgoing
      /\ settling' = IF settling > 0 THEN settling - 1 ELSE 0
    BY <1>1, <1>4, <1>5 DEF Spi!Follow, Spi!Selected, Spi!Device, Spi!DeviceListens,
                            Spi!RisingEdge, Spi!FallingEdge
<1>7. /\ HasHeard(n + 1)'
      /\ incoming' \in Seq(Spi!Bit) /\ Len(incoming') < SpiBits
      /\ heard' \in Seq(Spi!Bit) /\ Len(heard') \in {0, SpiBits}
    BY <1>1, <1>4, <1>5, <1>6, BitHeard
<1>8. settling' = 0
    BY <1>1, <1>5, <1>6 DEF DeviceTyped
<1>9. DeviceTyped'
    BY <1>1, <1>6, <1>7, <1>8 DEF DeviceTyped
<1>10. HasReceived(n)' /\ HasPutOut(n)' /\ HasSent(n)'
    BY <1>1, <1>4, <1>5, <1>6 DEF HasReceived, HasPutOut, HasSent
<1>11. MidByte(n)'
    BY <1>1, <1>4, <1>5, <1>7, <1>8, <1>10 DEF MidByte
<1> QED
    BY <1>2, <1>4, <1>9, <1>11, MidByteNext

\* The port takes a bit, a clock later.
LEMMA ClockIsHigh ==
    ASSUME WaitClock, shifting, cs = 2, clkcounter = 0
    PROVE  DeviceTyped' /\ ShiftInv'
<1> USE SpiConstants
<1>1. /\ PortTyped /\ DeviceTyped /\ BiosTyped /\ SpiInv /\ ShiftInv /\ cs' = cs
      /\ pc = "finish" /\ byte' = byte /\ said' = said /\ Spi!Controller /\ Spi!Follow
      /\ bitcounter \in 0..SpiBits /\ clkcounter' = 1
    BY WaitTypes, WaitPort DEF WaitClock, PortTyped
<1>2. PICK n \in 0..SpiBits : n = SpiBits - bitcounter
    BY <1>1
<1>3. MidByte(n)
    BY <1>1, <1>2 DEF ShiftInv
<1>4. /\ O_spi_clk' /\ bitcounter' = bitcounter - 1 /\ shifting'
      /\ txbuffer' = txbuffer
      /\ \E b \in Spi!MISO : rxbuffer' = Spi!Shift(rxbuffer, b)
    BY <1>1, PortShifts
<1>5. /\ n \in 0 .. SpiBits - 1 /\ HasReceived(n) /\ HasHeard(n + 1) /\ HasPutOut(n) /\ HasSent(n)
      /\ settling = 0 /\ O_spi_clk
    BY <1>3 DEF MidByte
<1>6. rxbuffer' = Spi!Shift(rxbuffer, Head(outgoing))
    BY <1>4, <1>5 DEF Spi!MISO, Spi!Selected, Spi!Device
<1>7. HasReceived(n + 1)'
    BY <1>1, <1>5, <1>6, BitReceived
<1>8. /\ outgoing' = outgoing /\ incoming' = incoming /\ heard' = heard
      /\ settling' = 0
    BY <1>1, <1>4, <1>5 DEF Spi!Follow, Spi!Selected, Spi!Device, Spi!DeviceListens,
                            Spi!RisingEdge, Spi!FallingEdge
<1>9. DeviceTyped'
    BY <1>1, <1>8 DEF DeviceTyped
<1>10. HasHeard(n + 1)' /\ HasPutOut(n)' /\ HasSent(n)'
    BY <1>1, <1>4, <1>5, <1>8 DEF HasHeard, HasPutOut, HasSent
<1>11. /\ (n + 1) - 1 = n /\ n + 1 >= 1 /\ SpiBits - bitcounter' = n + 1
    BY <1>1, <1>2, <1>4
<1>12. MidByte(n + 1)'
    BY <1>1, <1>4, <1>5, <1>7, <1>10, <1>11 DEF MidByte
<1> QED
    BY <1>9, <1>11, <1>12, MidByteNext

\* The falling edge: the device puts out its next bit.
LEMMA ClockFalls ==
    ASSUME WaitClock, shifting, cs = 2, clkcounter = 1
    PROVE  DeviceTyped' /\ ShiftInv'
<1> USE SpiConstants
<1>1. /\ PortTyped /\ DeviceTyped /\ BiosTyped /\ SpiInv /\ ShiftInv /\ cs' = cs
      /\ pc = "finish" /\ byte' = byte /\ said' = said /\ Spi!Controller /\ Spi!Follow
      /\ bitcounter \in 0..SpiBits /\ clkcounter' = 2
    BY WaitTypes, WaitPort DEF WaitClock, PortTyped
<1>2. PICK n \in 0..SpiBits : n = SpiBits - bitcounter
    BY <1>1
<1>3. MidByte(n)
    BY <1>1, <1>2 DEF ShiftInv
<1>4. /\ ~O_spi_clk' /\ bitcounter' = bitcounter
      /\ txbuffer' = txbuffer /\ rxbuffer' = rxbuffer
    BY <1>1, PortShifts
<1>5. /\ n \in 1..SpiBits /\ HasReceived(n) /\ HasHeard(n) /\ HasPutOut(n - 1) /\ HasSent(n - 1)
      /\ O_spi_clk
    BY <1>3 DEF MidByte
<1>6. /\ Spi!PutOut /\ incoming' = incoming /\ heard' = heard /\ settling' \in 0..Delay
    BY <1>1, <1>4, <1>5 DEF Spi!Follow, Spi!Selected, Spi!Device, Spi!DeviceListens,
                            Spi!RisingEdge, Spi!FallingEdge
<1>7. /\ HasPutOut(n)'
      /\ outgoing' \in Seq(Spi!Bit) /\ Len(outgoing') \in 1..SpiBits
    BY <1>1, <1>5, <1>6, BitPutOut
<1>8. DeviceTyped'
    BY <1>1, <1>6, <1>7 DEF DeviceTyped
<1>9. HasReceived(n)' /\ HasHeard(n)' /\ HasSent(n - 1)'
    BY <1>1, <1>4, <1>5, <1>6 DEF HasReceived, HasHeard, HasSent
<1>10. MidByte(n)'
    BY <1>1, <1>4, <1>5, <1>7, <1>9 DEF MidByte
<1> QED
    BY <1>2, <1>4, <1>8, <1>10, MidByteNext

\* The port puts out its next bit, or ends the byte.
LEMMA ClockIsLow ==
    ASSUME WaitClock, shifting, cs = 2, clkcounter = 2
    PROVE  /\ DeviceTyped' /\ ShiftInv'
           /\ ~shifting' => ~O_spi_clk' /\ AtByte' /\ heard' = byte' /\ rxbuffer' = said'
<1> USE SpiConstants
<1>1. /\ PortTyped /\ DeviceTyped /\ BiosTyped /\ SpiInv /\ ShiftInv /\ cs' = cs
      /\ pc = "finish" /\ byte' = byte /\ said' = said /\ Spi!Controller /\ Spi!Follow
      /\ bitcounter \in 0..SpiBits /\ clkcounter' = 3 /\ HandshakeInv
    BY WaitTypes, WaitPort DEF WaitClock, PortTyped
<1>2. PICK n \in 0..SpiBits : n = SpiBits - bitcounter
    BY <1>1
<1>3. MidByte(n)
    BY <1>1, <1>2 DEF ShiftInv
<1>4. /\ ~O_spi_clk' /\ bitcounter' = bitcounter
      /\ txbuffer' = Spi!Shift(txbuffer, 0) /\ rxbuffer' = rxbuffer
      /\ shifting' <=> bitcounter # 0
    BY <1>1, PortShifts
<1>5. /\ n \in 1..SpiBits /\ HasReceived(n) /\ HasHeard(n) /\ HasPutOut(n) /\ HasSent(n - 1)
      /\ ~O_spi_clk
    BY <1>3 DEF MidByte
<1>6. /\ outgoing' = outgoing /\ incoming' = incoming /\ heard' = heard
      /\ settling' = IF settling > 0 THEN settling - 1 ELSE 0
    BY <1>1, <1>4, <1>5 DEF Spi!Follow, Spi!Selected, Spi!Device, Spi!DeviceListens,
                            Spi!RisingEdge, Spi!FallingEdge
<1>7. settling' \in 0..Delay /\ settling' <= 1
    BY <1>1, <1>6 DEF DeviceTyped
<1>8. DeviceTyped'
    BY <1>1, <1>6, <1>7 DEF DeviceTyped
<1>9. HasReceived(n)' /\ HasHeard(n)' /\ HasPutOut(n)'
    BY <1>1, <1>4, <1>5, <1>6 DEF HasReceived, HasHeard, HasPutOut
<1>10. HasSent(n)'
    BY <1>1, <1>4, <1>5, BitSent
<1>11. ShiftInv'
    <2>1. shifting' => n < SpiBits
        BY <1>1, <1>2, <1>4
    <2>2. shifting' => MidByte(n)'
        BY <1>1, <1>4, <1>7, <1>9, <1>10, <2>1 DEF MidByte
    <2> QED
        BY <1>2, <1>4, <2>2, MidByteNext
<1>12. ASSUME ~shifting' PROVE AtByte' /\ heard' = byte' /\ rxbuffer' = said'
    <2>1. n = SpiBits
        BY <1>1, <1>2, <1>4, <1>12
    <2>2. incoming' = << >> /\ heard' = byte' /\ Len(outgoing') = SpiBits
        BY <1>1, <1>5, <1>6, <2>1 DEF HasHeard, HasPutOut
    <2>3. rxbuffer = said
        <3>1. \A i \in 1..SpiBits : rxbuffer[i] = said[i]
            BY <1>5, <2>1 DEF HasReceived
        <3>2. rxbuffer \in Seq(Spi!Bit) /\ Len(rxbuffer) = SpiBits
            BY <1>1, ByteIsSeq DEF PortTyped
        <3>3. said \in Seq(Spi!Bit) /\ Len(said) = SpiBits
            BY <1>1 DEF BiosTyped, HandshakeInv
        <3> QED
            BY <3>1, <3>2, <3>3, SeqEqual
    <2> QED
        BY <1>1, <1>4, <2>2, <2>3 DEF AtByte
<1> QED
    BY <1>4, <1>8, <1>11, <1>12

\* A clock in the middle of a byte.
LEMMA LineShifts ==
    ASSUME WaitClock, shifting
    PROVE  SpiInv'
<1>1. /\ BiosTyped' /\ DividerInv' /\ PortTyped /\ DeviceTyped /\ DeviceInv /\ cs' = cs
      /\ pc = "finish" /\ SpiInv /\ Spi!Controller /\ Spi!Follow
    BY WaitTypes DEF WaitClock
<1>2. /\ PortTyped' /\ HandshakeInv' /\ CountInv'
      /\ pc' = "finish" /\ state' = "WAIT_READY"
    BY ByteGoesOn
<1>3. /\ ~(clkcounter = 2 /\ bitcounter = 0) => shifting' /\ busy'
      /\ clkcounter = 2 /\ bitcounter = 0 => ~shifting' /\ ~busy'
    BY <1>1, PortShifts
<1>4. DeviceTyped' /\ DeviceInv' /\ ShiftInv'
    <2>1. CASE cs # 2
        <3>1. /\ incoming' = incoming /\ outgoing' = outgoing /\ heard' = heard
              /\ settling' = settling
            BY <1>1, <2>1 DEF Spi!Follow, Spi!Selected, Spi!Device, Spi!deviceVars
        <3> QED
            BY <1>1, <2>1, <3>1 DEF DeviceTyped, DeviceInv, AtByte, ShiftInv
    <2>2. CASE cs = 2
        <3>1. clkcounter \in {0, 1, 2, 3}
            BY <1>1 DEF PortTyped
        <3>2. DeviceTyped' /\ ShiftInv'
            BY <2>2, <3>1, ClockRises, ClockIsHigh, ClockFalls, ClockIsLow
        <3>3. CASE shifting'
            <4>1. busy' /\ ~Over'
                BY <1>2, <1>3, <3>3 DEF Over
            <4> QED
                BY <1>1, <1>2, <2>2, <3>2, <3>3, <4>1 DEF DeviceInv
        <3>4. CASE ~shifting'
            <4>1. Over'
                BY <1>2, <1>3, <3>4 DEF Over
            <4>2. ~O_spi_clk' /\ AtByte' /\ heard' = byte' /\ rxbuffer' = said'
                BY <1>3, <2>2, <3>4, ClockIsLow
            <4> QED
                BY <1>1, <1>2, <2>2, <3>2, <4>1, <4>2 DEF DeviceInv
        <3> QED
            BY <3>3, <3>4
    <2> QED
        BY <2>1, <2>2
<1> QED
    BY <1>1, <1>2, <1>4, SpiTypes DEF SpiInv

LEMMA WaitStep == WaitClock => SpiInv'
    BY LineRests, ByteBegins, LineShifts

LEMMA SpiNext == SpiInv /\ Spi!Next => SpiInv'
<1> SUFFICES ASSUME SpiInv, Spi!Next PROVE SpiInv'
    OBVIOUS
<1>1. /\ Spi!Controller /\ byte \in Spi!Byte
      /\ pc \in {"called", "ready", "write", "read"} => Idle
      /\ pc \in {"called", "ready", "write", "finish", "read"}
    BY SpiTypes DEF Spi!Next, SpiInv, BiosTyped, HandshakeInv
<1>2. CASE Spi!Select
    BY <1>1, <1>2, SelectStep
<1>3. CASE Spi!Elsewhere
    <2>1. Spi!NoWrite /\ Spi!Follow /\ said' = said /\ pc' = pc /\ byte' = byte
        BY <1>3 DEF Spi!Elsewhere, Spi!biosVars
    <2>2. CASE pc = "finish"
        BY <1>1, <2>1, <2>2, WaitStep DEF WaitClock
    <2>3. CASE pc # "finish"
        BY <1>1, <2>1, <2>3, QuietStep
    <2> QED
        BY <2>2, <2>3
<1>4. CASE Spi!Transmit
    BY <1>1, <1>4, QuietStep DEF Spi!Transmit
<1>5. CASE Spi!PollReady
    BY <1>1, <1>5, QuietStep DEF Spi!PollReady
<1>6. CASE Spi!Write
    BY <1>1, <1>6, WriteStep
<1>7. CASE Spi!PollFinished
    BY <1>1, <1>7, WaitStep DEF Spi!PollFinished, WaitClock
<1>8. CASE Spi!Read
    BY <1>1, <1>8, ReadStep
<1> QED
    BY <1>2, <1>3, <1>4, <1>5, <1>6, <1>7, <1>8 DEF Spi!Next

LEMMA SpiStands ==
    /\ Init => (active = "spi" => SpiInv)
    /\ (active = "spi" => SpiInv) /\ [Next]_vars => (active = "spi" => SpiInv)'
<1>1. Init => (active = "spi" => SpiInv)
    BY SpiInit DEF Init
<1>2. (active = "spi" => SpiInv) /\ [Next]_vars => (active = "spi" => SpiInv)'
    <2> SUFFICES ASSUME active = "spi" => SpiInv, [Next]_vars, active' = "spi"
                 PROVE  SpiInv'
        OBVIOUS
    <2>1. CASE UNCHANGED vars
        BY <2>1 DEF vars, spiVars, SpiInv, SpiTyped, Spi!TypeOK, DividerInv, ClockSet, LastSet,
                    EdgesSet, HandshakeInv, Idle, DeviceInv, Over, AtByte, ShiftInv, MidByte,
                    HasReceived, HasHeard, HasPutOut, HasSent, CountInv
    <2>2. CASE Next
        BY <2>2, SpiNext DEF Next
    <2> QED
        BY <2>1, <2>2
<1> QED
    BY <1>1, <1>2

LEMMA SpiExchanges == SpiInv => Spi!TypeOK /\ Spi!ByteExchanged
    BY DEF SpiInv, SpiTyped, DeviceInv, AtByte, Spi!ByteExchanged, Spi!Selected, Spi!Device

-----------------------------------------------------------------------------
(* The serial line: a byte is under way in the sender, on the line and in    *)
(* the receiver at once, and the two keep their own time.                    *)

\* The middle of a bit.
Half == baudclocks \div 2

\* The clocks by which the receiver, and by which the sender, may have got
\* ahead: one in every bit.
ReceiverSlips == IF writeclkcnt = 0 /\ ~slipped THEN writebitcnt ELSE writebitcnt + 1
SenderSlips   == IF writeclkcnt = 0 THEN writebitcnt ELSE writebitcnt + 1

\* The bit the receiver is in; it counts a bit in its middle.
Cell == IF readclkcnt <= Half THEN readbitcnt ELSE readbitcnt - 1

\* How far the receiver is behind, also when the two are in adjacent bits.
Drift == writeclkcnt - readclkcnt
           + (IF writebitcnt = Cell THEN 0 ELSE IF writebitcnt > Cell THEN baudclocks ELSE 0 - baudclocks)

\* The low levels at the end of the receiver's filter.
Lows == IF edgefilter[3] = 1 THEN 0 ELSE IF edgefilter[2] = 1 THEN 1
        ELSE IF edgefilter[1] = 1 THEN 2 ELSE 3

\* How far bios_uart_write is with its next byte.
Stage == IF do_write THEN 2 ELSE IF sender = "write" THEN 1 ELSE 0

SenderInv ==
    /\ writing => do_write /\ writebitcnt <= UartBits + 1
    /\ do_write => sender = "poll"
    /\ ~writing => O_tx = 1

\* The receiver listens, and a byte that begins is not yet seen.
ListenInv ==
    /\ ~reading /\ O_tx = 1 => Lows <= glitch
    /\ ~reading /\ writing => \/ writebitcnt = UartBits + 1
                              \/ writebitcnt = 0 /\ writeclkcnt <= Lows + 1
    /\ reading => edgefilter = Uart!High /\ glitch = 0

\* The receiver is in a byte.
PhaseInv ==
    /\ reading => readbitcnt <= UartBits + 1 /\ Cell >= 0
    /\ reading /\ writing => /\ writebitcnt \in Cell - 1 .. Cell + 1
                             /\ 1 - ReceiverSlips <= Drift /\ Drift <= 4 + Cell + SenderSlips
    /\ reading /\ ~writing => /\ readbitcnt = UartBits + 1 /\ readclkcnt <= Half
                              /\ readclkcnt >= baudclocks - (2 * UartBits + 7) + Stage

\* The bytes under way: one that waits to be read, one that is received, and
\* one the receiver has not seen.
Unread == IF read_ready THEN 1 ELSE 0
Queued == do_write /\ (~writing \/ (writebitcnt = 0 /\ ~reading))
Last   == pending[Len(pending)]

UrgentInv ==
    /\ receiver = "read" => read_ready
    /\ read_ready /\ reading /\ readbitcnt = UartBits + 1 =>
         readclkcnt = Half + 1 \/ (readclkcnt = Half + 2 /\ receiver = "read")

PendingInv ==
    /\ pending \in Seq(Uart!Byte)
    /\ Len(pending) = Unread + (IF reading THEN 1 ELSE 0) + (IF Queued THEN 1 ELSE 0)
    /\ read_ready => pending[1] = readbuf
    
SendInv ==
    /\ Queued => writebuf = Last
    /\ writing => \A i \in 1..UartBits : i > UartBits - writebitcnt => writebuf[i] = 1
    /\ writing /\ writebitcnt = 0 => O_tx = 0 /\ writebuf = Last
    /\ writing /\ writebitcnt \in 1..UartBits =>
          /\ O_tx = Last[writebitcnt]
          /\ \A i \in 1 .. UartBits - writebitcnt : writebuf[i] = Last[writebitcnt + i]
    /\ writing /\ writebitcnt = UartBits + 1 => O_tx = 1

CollectInv ==
    reading => \A j \in 1 .. readbitcnt - 1 :
                  inputbuf[UartBits - (readbitcnt - 1) + j] = pending[Unread + 1][j]

UInv == Uart!TypeOK /\ SenderInv /\ ListenInv /\ PhaseInv /\ UrgentInv /\ PendingInv /\ SendInv /\ CollectInv

LEMMA UartConstants ==
    /\ UartBits \in Nat \ {0} /\ baudclocks \in Nat /\ Half \in Nat
    /\ 2 * Half <= baudclocks /\ baudclocks <= 2 * Half + 1
    /\ 2 * UartBits + 6 <= baudclocks - Half /\ MaxGlitch \in 0..3
    /\ 2 * UartBits + 5 <= Half /\ baudclocks > 12
<1>1. /\ UartBits \in Nat \ {0} /\ baudclocks \in Nat /\ Half \in Nat
      /\ 2 * Half <= baudclocks /\ baudclocks <= 2 * Half + 1
      /\ 2 * UartBits + 6 <= baudclocks - Half /\ MaxGlitch \in 0..3
    BY UartSetup DEF Uart!UartAssumption, Half
<1> QED
    BY <1>1

\* A buffer that takes a bit at its end.
LEMMA ShiftedBits ==
    ASSUME NEW n \in Nat \ {0}, NEW w \in [1..n -> {0, 1}], NEW b \in {0, 1}
    PROVE  /\ Append(Tail(w), b) \in [1..n -> {0, 1}]
           /\ \A i \in 1 .. n - 1 : Append(Tail(w), b)[i] = w[i + 1]
           /\ Append(Tail(w), b)[n] = b
           /\ Head(w) = w[1] /\ w[1] \in {0, 1}
<1>1. w \in Seq({0, 1}) /\ Len(w) = n /\ w # << >>
    OBVIOUS
<1>2. /\ Tail(w) \in Seq({0, 1}) /\ Len(Tail(w)) = n - 1
      /\ \A i \in 1 .. n - 1 : Tail(w)[i] = w[i + 1]
    BY <1>1, HeadTailProperties
<1>3. PICK t \in Seq({0, 1}) : t = Tail(w)
    BY <1>2
<1>4. /\ Append(t, b) \in Seq({0, 1}) /\ Len(Append(t, b)) = n
      /\ \A i \in 1 .. n - 1 : Append(t, b)[i] = t[i]
      /\ Append(t, b)[n] = b
    BY <1>2, <1>3
<1>5. Append(t, b) \in [1..n -> {0, 1}]
    BY <1>4, LenProperties
<1> QED
    BY <1>1, <1>2, <1>3, <1>4, <1>5

LEMMA ShiftedUartByte ==
    ASSUME NEW w \in Uart!Byte, NEW b \in {0, 1}
    PROVE  /\ Append(Tail(w), b) \in Uart!Byte
           /\ \A i \in 1 .. UartBits - 1 : Append(Tail(w), b)[i] = w[i + 1]
           /\ Append(Tail(w), b)[UartBits] = b
           /\ Head(w) = w[1] /\ w[1] \in {0, 1}
    BY UartConstants, ShiftedBits DEF Uart!Byte

\* The types of the sender, of the receiver, and of what is between them.
SenderTyped ==
    /\ writing \in BOOLEAN /\ writebuf \in Uart!Byte /\ writebitcnt \in 0 .. UartBits + 2
    /\ writeclkcnt \in 0 .. baudclocks - 1 /\ do_write \in BOOLEAN /\ O_tx \in {0, 1}
    /\ sender \in {"poll", "write"} /\ slipped \in BOOLEAN
ReceiverTyped ==
    /\ receiver \in {"poll", "read"}
    /\ glitch \in 0..MaxGlitch
    /\ reading \in BOOLEAN /\ edgefilter \in [1..3 -> {0, 1}]
    /\ inputbuf \in Uart!Byte /\ readbuf \in Uart!Byte
    /\ readbitcnt \in 0 .. UartBits + 2 /\ readclkcnt \in 0..baudclocks
    /\ read_ready \in BOOLEAN

LEMMA UartTypes ==
    /\ Uart!TypeOK <=> SenderTyped /\ ReceiverTyped /\ Len(pending) <= 2
    /\ Uart!TypeOK' <=> SenderTyped' /\ ReceiverTyped' /\ Len(pending') <= 2
<1>1. Uart!TypeOK <=> SenderTyped /\ ReceiverTyped /\ Len(pending) <= 2
    BY Zenon DEF Uart!TypeOK, SenderTyped, ReceiverTyped
<1>2. Uart!TypeOK' <=> SenderTyped' /\ ReceiverTyped' /\ Len(pending') <= 2
    BY Zenon DEF Uart!TypeOK, SenderTyped, ReceiverTyped
<1> QED
    BY <1>1, <1>2

-----------------------------------------------------------------------------
\* What a clock of the sender does: it waits for a byte, begins one, is in the
\* middle of a bit, goes on to the next bit, or ends the byte.
SenderWaits ==
    /\ ~writing /\ ~do_write /\ writing' = FALSE /\ O_tx' = 1
    /\ \/ sender = "poll" /\ sender' = "write" /\ do_write' = FALSE /\ writebuf' = writebuf
       \/ sender = "write" /\ sender' = "poll" /\ do_write' = TRUE /\ writebuf' \in Uart!Byte
       \/ sender' = sender /\ do_write' = FALSE /\ writebuf' = writebuf
    /\ writeclkcnt' = writeclkcnt /\ writebitcnt' = writebitcnt
SenderBegins ==
    /\ ~writing /\ do_write /\ writing' = TRUE /\ do_write' = TRUE
    /\ O_tx' = 0 /\ writeclkcnt' = 0 /\ writebitcnt' = 0
    /\ writebuf' = writebuf /\ sender' = sender
SenderCounts ==
    /\ writing /\ writing' = TRUE /\ do_write' = TRUE /\ writeclkcnt < baudclocks - 1
    /\ writeclkcnt' = writeclkcnt + 1 /\ writebitcnt' = writebitcnt
    /\ O_tx' = O_tx /\ writebuf' = writebuf /\ sender' = sender
SenderShifts ==
    /\ writing /\ writing' = TRUE /\ do_write' = TRUE /\ writeclkcnt = baudclocks - 1 /\ writebitcnt <= UartBits
    /\ writeclkcnt' = 0 /\ writebitcnt' = writebitcnt + 1
    /\ O_tx' = writebuf[1] /\ writebuf' = Append(Tail(writebuf), 1) /\ sender' = sender
SenderEnds ==
    /\ writing /\ writing' = FALSE /\ do_write' = FALSE
    /\ writeclkcnt = baudclocks - 1 /\ writebitcnt = UartBits + 1
    /\ writeclkcnt' = 0 /\ writebitcnt' = UartBits + 2
    /\ O_tx' = 1 /\ writebuf' = Append(Tail(writebuf), 1) /\ sender' = sender

SenderMoves == SenderWaits \/ SenderBegins \/ SenderCounts \/ SenderShifts \/ SenderEnds

LEMMA SenderClocks ==
    ASSUME SenderTyped, SenderInv, SendInv, Uart!SenderClock
    PROVE  SenderMoves
<1> USE UartConstants
<1>1. /\ writing \in BOOLEAN /\ do_write \in BOOLEAN /\ writebuf \in Uart!Byte
      /\ writeclkcnt \in Nat /\ writebitcnt \in Nat /\ writeclkcnt <= baudclocks - 1
    BY DEF SenderTyped
<1>2. /\ Uart!Transmitter
      /\ \/ Uart!PollWrite \/ Uart!WriteByte \/ Uart!SenderElsewhere
      /\ writing => do_write /\ writebitcnt <= UartBits + 1
      /\ do_write => sender = "poll"
    BY DEF Uart!SenderClock, SenderInv
<1>3. CASE ~writing
    <2>1. /\ O_tx' = (IF do_write THEN 0 ELSE 1) /\ writing' = do_write
          /\ IF do_write THEN writeclkcnt' = 0 /\ writebitcnt' = 0
             ELSE writeclkcnt' = writeclkcnt /\ writebitcnt' = writebitcnt
        BY <1>2, <1>3 DEF Uart!Transmitter, Uart!Start, Uart!WithinBit, Uart!NextBit, Uart!EndsBit
    <2>2. Uart!KeepSending => writebuf' = writebuf /\ do_write' = do_write
        BY <1>1, <1>3 DEF Uart!KeepSending, Uart!EndsBit, Uart!EndsByte
    <2>3. CASE do_write
        <3>1. writebuf' = writebuf /\ do_write' = do_write /\ sender' = sender
            BY <1>2, <2>2, <2>3 DEF Uart!PollWrite, Uart!WriteByte, Uart!SenderElsewhere
        <3> QED
            BY <1>3, <2>1, <2>3, <3>1 DEF SenderMoves, SenderBegins
    <2>4. CASE ~do_write
        <3>1. \/ sender = "poll" /\ sender' = "write" /\ do_write' = FALSE /\ writebuf' = writebuf
              \/ sender = "write" /\ sender' = "poll" /\ do_write' = TRUE /\ writebuf' \in Uart!Byte
              \/ sender' = sender /\ do_write' = FALSE /\ writebuf' = writebuf
            BY <1>2, <2>2, <2>4 DEF Uart!PollWrite, Uart!WriteByte, Uart!SenderElsewhere
        <3> QED
            BY <1>3, <2>1, <2>4, <3>1 DEF SenderMoves, SenderWaits
    <2> QED
        BY <2>3, <2>4
<1>4. CASE writing
    <2>1. Uart!KeepSending /\ sender' = sender /\ do_write
        BY <1>2, <1>4 DEF Uart!PollWrite, Uart!WriteByte, Uart!SenderElsewhere
    <2>2. CASE writeclkcnt < baudclocks - 1
        <3>1. ~Uart!EndsBit /\ ~Uart!EndsByte
            BY <1>1, <2>2 DEF Uart!EndsBit, Uart!EndsByte
        <3>2. /\ writeclkcnt' = writeclkcnt + 1
              /\ writing' = writing /\ writebitcnt' = writebitcnt /\ O_tx' = O_tx
            BY <1>2, <1>4, <3>1 DEF Uart!Transmitter, Uart!Start, Uart!WithinBit, Uart!NextBit
        <3>3. writebuf' = writebuf /\ do_write' = do_write
            BY <1>1, <2>1, <3>1 DEF Uart!KeepSending
        <3> QED
            BY <1>4, <2>1, <2>2, <3>2, <3>3 DEF SenderMoves, SenderCounts
    <2>3. CASE writeclkcnt = baudclocks - 1
        <3>1. Uart!EndsBit /\ (Uart!EndsByte <=> writebitcnt = UartBits + 1)
            BY <1>4, <2>3 DEF Uart!EndsBit, Uart!EndsByte
        <3>2. /\ writeclkcnt' = 0 /\ writebitcnt' = writebitcnt + 1
              /\ O_tx' = Head(writebuf) /\ writing' = ~Uart!EndsByte
            <4>1. ~Uart!Start
                BY <1>4 DEF Uart!Start
            <4>2. ~Uart!WithinBit
                BY <1>1, <2>3 DEF Uart!WithinBit
            <4> QED
                BY <1>2, <4>1, <4>2 DEF Uart!Transmitter, Uart!NextBit
        <3>3. writebuf' = Append(Tail(writebuf), 1) /\ do_write' = (do_write /\ ~Uart!EndsByte)
            BY <2>1, <3>1 DEF Uart!KeepSending
        <3>4. O_tx' = writebuf[1]
            BY <1>1, <3>2, ShiftedUartByte
        <3>5. CASE writebitcnt = UartBits + 1
            <4>1. writebuf[1] = 1
                BY <1>4, <3>5 DEF SendInv
            <4>2. writing' = FALSE /\ do_write' = FALSE
                BY <3>1, <3>2, <3>3, <3>5
            <4> QED
                BY <1>4, <2>1, <2>3, <3>2, <3>3, <3>4, <3>5, <4>1, <4>2 DEF SenderMoves, SenderEnds
        <3>6. CASE writebitcnt <= UartBits
            <4>1. ~Uart!EndsByte
                BY <1>1, <3>1, <3>6
            <4> QED
                BY <1>4, <2>1, <2>3, <3>2, <3>3, <3>4, <3>6, <4>1 DEF SenderMoves, SenderShifts
        <3> QED
            BY <1>1, <1>2, <1>4, <3>5, <3>6
    <2> QED
        BY <1>1, <2>2, <2>3
<1> QED
    BY <1>3, <1>4

LEMMA SenderStays ==
    ASSUME SenderTyped, SenderInv, SendInv, SenderMoves, slipped' \in BOOLEAN
    PROVE  SenderTyped' /\ SenderInv'
<1> USE UartConstants
<1>1. /\ writing \in BOOLEAN /\ do_write \in BOOLEAN /\ writebuf \in Uart!Byte
      /\ writeclkcnt \in 0 .. baudclocks - 1 /\ writebitcnt \in 0 .. UartBits + 2
      /\ O_tx \in {0, 1} /\ sender \in {"poll", "write"}
      /\ writing => do_write /\ writebitcnt <= UartBits + 1
      /\ do_write => sender = "poll"
      /\ ~writing => O_tx = 1
    BY DEF SenderTyped, SenderInv
<1>2. writebuf[1] \in {0, 1} /\ Append(Tail(writebuf), 1) \in Uart!Byte
    BY <1>1, ShiftedUartByte
<1>3. SenderInv'
    BY <1>1, <1>2 DEF SenderInv, SenderMoves, SenderWaits, SenderBegins, SenderCounts,
                      SenderShifts, SenderEnds
<1>4. /\ writeclkcnt' \in 0 .. baudclocks - 1 /\ writebitcnt' \in 0 .. UartBits + 2
    BY <1>1 DEF SenderMoves, SenderWaits, SenderBegins, SenderCounts, SenderShifts, SenderEnds
<1>5. /\ O_tx' \in {0, 1} /\ sender' \in {"poll", "write"} /\ writebuf' \in Uart!Byte
    BY <1>1, <1>2 DEF SenderMoves, SenderWaits, SenderBegins, SenderCounts, SenderShifts, SenderEnds
<1>6. writing' \in BOOLEAN /\ do_write' \in BOOLEAN
    BY <1>1 DEF SenderMoves, SenderWaits, SenderBegins, SenderCounts, SenderShifts, SenderEnds
<1> QED
    BY <1>3, <1>4, <1>5, <1>6 DEF SenderTyped

-----------------------------------------------------------------------------
\* What a clock of the receiver does: it listens, sees a start bit, counts,
\* takes a bit, or has the byte.
ReceiverListens ==
    /\ ~reading /\ reading' = FALSE /\ edgefilter' \in [1..3 -> {0, 1}]
    /\ \/ O_tx = 0 /\ Lows' = Lows + 1 /\ glitch' = 0
       \/ O_tx = 1 /\ Lows' = 0 /\ glitch' = 0
       \/ O_tx = 1 /\ Lows' <= Lows + 1 /\ glitch < MaxGlitch /\ glitch' = glitch + 1
    /\ readclkcnt' = readclkcnt /\ readbitcnt' = readbitcnt
    /\ inputbuf' = inputbuf /\ readbuf' = readbuf
ReceiverDetects ==
    /\ ~reading /\ reading' = TRUE /\ edgefilter' = Uart!High
    /\ O_tx = 0 /\ Lows = 3 /\ glitch' = 0
    /\ readclkcnt' = 0 /\ readbitcnt' = 0
    /\ inputbuf' = inputbuf /\ readbuf' = readbuf
ReceiverCounts ==
    /\ reading /\ reading' = TRUE /\ edgefilter' = edgefilter /\ glitch' = 0
    /\ readclkcnt # Half
    /\ readclkcnt = baudclocks => readclkcnt' = 0
    /\ readclkcnt # baudclocks => readclkcnt' = readclkcnt + 1
    /\ readbitcnt' = readbitcnt
    /\ inputbuf' = inputbuf /\ readbuf' = readbuf
ReceiverSamples ==
    /\ reading /\ reading' = TRUE /\ edgefilter' = edgefilter /\ glitch' = 0
    /\ readclkcnt = Half /\ readbitcnt # UartBits + 1
    /\ readclkcnt' = Half + 1 /\ readbitcnt' = readbitcnt + 1
    /\ inputbuf' = Append(Tail(inputbuf), O_tx) /\ readbuf' = readbuf
ReceiverCompletes ==
    /\ reading /\ reading' = FALSE /\ edgefilter' = edgefilter /\ glitch' = 0
    /\ readclkcnt = Half /\ readbitcnt = UartBits + 1
    /\ readclkcnt' = Half + 1 /\ readbitcnt' = UartBits + 2
    /\ inputbuf' = inputbuf /\ readbuf' = inputbuf

ReceiverMoves == ReceiverListens \/ ReceiverDetects \/ ReceiverCounts \/ ReceiverSamples
                   \/ ReceiverCompletes

\* What the program does in it: it finds the port ready, reads, or waits.
ReaderPolls == receiver = "poll" /\ receiver' = "read" /\ read_ready /\ read_ready' = TRUE
ReaderReads == receiver = "read" /\ receiver' = "poll" /\ read_ready' = FALSE
ReaderWaits ==
    /\ receiver' = receiver
    /\ ~(read_ready /\ reading /\ readbitcnt = UartBits + 1)
    /\ read_ready' \in BOOLEAN
    /\ read_ready' <=> read_ready \/ ReceiverCompletes

LEMMA LowsCount ==
    /\ edgefilter \in [1..3 -> {0, 1}] => Lows \in 0..3
    /\ edgefilter' \in [1..3 -> {0, 1}] => Lows' \in Nat /\ Lows' \in 0..3
    BY DEF Lows

LEMMA FilterMoves ==
    ASSUME edgefilter \in [1..3 -> {0, 1}], NEW rx \in {0, 1},
           edgefilter' = Append(Tail(edgefilter), rx)
    PROVE  /\ edgefilter' \in [1..3 -> {0, 1}]
           /\ rx = 1 => Lows' = 0
           /\ rx = 0 => Lows' <= Lows + 1
           /\ rx = 0 /\ Lows # 3 => Lows' = Lows + 1
<1>1. /\ edgefilter' \in [1..3 -> {0, 1}]
      /\ edgefilter'[1] = edgefilter[2] /\ edgefilter'[2] = edgefilter[3] /\ edgefilter'[3] = rx
    <2>1. PICK n \in Nat \ {0} : n = 3
        OBVIOUS
    <2>2. /\ edgefilter' \in [1..n -> {0, 1}] /\ edgefilter'[n] = rx
          /\ \A i \in 1 .. n - 1 : edgefilter'[i] = edgefilter[i + 1]
        <3>1. edgefilter \in [1..n -> {0, 1}]
            BY <2>1
        <3> QED
            BY <3>1, ShiftedBits
    <2>3. PICK t \in [1..3 -> {0, 1}] : t = edgefilter'
        BY <2>1, <2>2
    <2>4. PICK f \in [1..3 -> {0, 1}] : f = edgefilter
        OBVIOUS
    <2>5. \A i \in 1..2 : t[i] = f[i + 1]
        BY <2>1, <2>2, <2>3, <2>4
    <2>6. t[1] = f[2] /\ t[2] = f[3]
        BY <2>5, 1 \in 1..2, 2 \in 1..2, 1 + 1 = 2, 2 + 1 = 3
    <2> QED
        BY <2>1, <2>2, <2>3, <2>4, <2>6
<1>2. edgefilter[1] \in {0, 1} /\ edgefilter[2] \in {0, 1} /\ edgefilter[3] \in {0, 1}
    OBVIOUS
<1> QED
    BY <1>1, <1>2 DEF Lows

LEMMA StartIsLow ==
    ASSUME edgefilter \in [1..3 -> {0, 1}]
    PROVE  edgefilter = <<0, 0, 0>> <=> Lows = 3
<1>1. Lows = 3 <=> edgefilter[1] = 0 /\ edgefilter[2] = 0 /\ edgefilter[3] = 0
    BY DEF Lows
<1>2. edgefilter[1] = 0 /\ edgefilter[2] = 0 /\ edgefilter[3] = 0 => edgefilter = <<0, 0, 0>>
    <2> SUFFICES ASSUME edgefilter[1] = 0, edgefilter[2] = 0, edgefilter[3] = 0
                 PROVE  edgefilter = <<0, 0, 0>>
        OBVIOUS
    <2>1. edgefilter \in Seq({0, 1}) /\ Len(edgefilter) = 3
        <3>1. PICK n \in Nat : n = 3
            OBVIOUS
        <3>2. edgefilter \in [1..n -> {0, 1}]
            BY <3>1
        <3>3. edgefilter \in Seq({0, 1}) /\ Len(edgefilter) = n
            BY <3>2
        <3> QED
            BY <3>1, <3>3
    <2>2. <<0, 0, 0>> \in Seq({0, 1}) /\ Len(<<0, 0, 0>>) = 3
        OBVIOUS
    <2>3. \A i \in 1 .. Len(edgefilter) : edgefilter[i] = <<0, 0, 0>>[i]
        BY <2>1
    <2> QED
        BY <2>1, <2>2, <2>3, SeqEqual
<1> QED
    BY <1>1, <1>2

LEMMA ReceiverClocks ==
    ASSUME ReceiverTyped, SenderTyped, ListenInv, Uart!ReceiverClock
    PROVE  ReceiverMoves
<1> USE UartConstants
<1>1. /\ edgefilter \in [1..3 -> {0, 1}] /\ O_tx \in {0, 1} /\ reading \in BOOLEAN
      /\ glitch \in 0..MaxGlitch /\ readclkcnt \in 0..baudclocks /\ readbitcnt \in Nat
    BY DEF ReceiverTyped, SenderTyped
<1>2. \/ O_tx = 1 /\ ~reading /\ glitch < MaxGlitch /\ glitch' = glitch + 1 /\ Uart!Listen(0)
      \/ glitch' = 0 /\ (Uart!Listen(O_tx) \/ Uart!Collect(O_tx))
    BY DEF Uart!ReceiverClock, Uart!Line
<1>3. CASE ~reading
    <2>1. PICK rx \in {0, 1} :
             /\ \/ rx = O_tx /\ glitch' = 0
                \/ O_tx = 1 /\ rx = 0 /\ glitch < MaxGlitch /\ glitch' = glitch + 1
             /\ Uart!Listen(rx)
        BY <1>1, <1>2, <1>3 DEF Uart!Collect
    <2>2. inputbuf' = inputbuf /\ readbuf' = readbuf
        BY <2>1 DEF Uart!Listen
    <2>3. Uart!IsStart(rx) <=> rx = 0 /\ Lows = 3
        BY <1>1, StartIsLow DEF Uart!IsStart
    <2>4. CASE rx = 0 /\ Lows = 3
        <3>1. O_tx = 0
            <4>1. ASSUME O_tx = 1 PROVE Lows <= glitch
                BY <1>3, <4>1 DEF ListenInv
            <4> QED
                BY <1>1, <2>1, <2>4, <4>1
        <3>2. glitch' = 0
            BY <2>1, <3>1
        <3>3. /\ reading' = TRUE /\ readclkcnt' = 0 /\ readbitcnt' = 0
              /\ edgefilter' = Uart!High
            BY <2>1, <2>3, <2>4 DEF Uart!Listen
        <3> QED
            BY <1>3, <2>2, <2>4, <3>1, <3>2, <3>3 DEF ReceiverMoves, ReceiverDetects
    <2>5. CASE ~(rx = 0 /\ Lows = 3)
        <3>1. /\ edgefilter' = Append(Tail(edgefilter), rx)
              /\ reading' = reading /\ readclkcnt' = readclkcnt /\ readbitcnt' = readbitcnt
            BY <2>1, <2>3, <2>5 DEF Uart!Listen
        <3>2. /\ edgefilter' \in [1..3 -> {0, 1}]
              /\ rx = 1 => Lows' = 0
              /\ rx = 0 => Lows' <= Lows + 1
              /\ rx = 0 /\ Lows # 3 => Lows' = Lows + 1
            BY <1>1, <3>1, FilterMoves
        <3>3. /\ \/ O_tx = 0 /\ Lows' = Lows + 1 /\ glitch' = 0
                 \/ O_tx = 1 /\ Lows' = 0 /\ glitch' = 0
                 \/ O_tx = 1 /\ Lows' <= Lows + 1 /\ glitch < MaxGlitch /\ glitch' = glitch + 1
            BY <1>1, <2>1, <2>5, <3>2
        <3>4. reading' = FALSE
            BY <1>1, <1>3, <3>1
        <3> QED
            BY <1>3, <2>2, <3>1, <3>2, <3>3, <3>4 DEF ReceiverMoves, ReceiverListens
    <2> QED
        BY <2>4, <2>5
<1>4. CASE reading
    <2>1. glitch' = 0 /\ Uart!Collect(O_tx)
        BY <1>2, <1>4 DEF Uart!Listen
    <2>2. /\ Uart!Samples <=> readclkcnt = Half
          /\ Uart!Completes <=> readclkcnt = Half /\ readbitcnt = UartBits + 1
        BY <1>4 DEF Uart!Samples, Uart!Completes, Half
    <2>3. /\ readclkcnt' = (IF readclkcnt = baudclocks THEN 0 ELSE readclkcnt + 1)
          /\ inputbuf' = (IF Uart!Samples /\ ~Uart!Completes
                            THEN Append(Tail(inputbuf), O_tx) ELSE inputbuf)
          /\ readbitcnt' = (IF Uart!Samples THEN readbitcnt + 1 ELSE readbitcnt)
          /\ readbuf' = (IF Uart!Completes THEN inputbuf ELSE readbuf)
          /\ reading' = ~Uart!Completes
          /\ edgefilter' = edgefilter
        BY <2>1 DEF Uart!Collect, Uart!CountClock
    <2>4. CASE readclkcnt # Half
        <3>1. ~Uart!Samples /\ ~Uart!Completes
            BY <2>2, <2>4
        <3>2. reading' = TRUE
            BY <2>3, <3>1
        <3> QED
            BY <1>4, <2>1, <2>3, <2>4, <3>1, <3>2 DEF ReceiverMoves, ReceiverCounts
    <2>5. Half # baudclocks
        OBVIOUS
    <2>6. CASE readclkcnt = Half /\ readbitcnt # UartBits + 1
        <3>1. Uart!Samples /\ ~Uart!Completes
            BY <2>2, <2>6
        <3>2. reading' = TRUE
            BY <2>3, <3>1
        <3> QED
            BY <1>4, <2>1, <2>3, <2>5, <2>6, <3>1, <3>2 DEF ReceiverMoves, ReceiverSamples
    <2>7. CASE readclkcnt = Half /\ readbitcnt = UartBits + 1
        <3>1. Uart!Samples /\ Uart!Completes
            BY <2>2, <2>7
        <3>2. reading' = FALSE
            BY <2>3, <3>1
        <3>3. readbitcnt' = UartBits + 2
            BY <2>3, <2>7, <3>1
        <3> QED
            BY <1>4, <2>1, <2>3, <2>5, <2>7, <3>1, <3>2, <3>3 DEF ReceiverMoves, ReceiverCompletes
    <2> QED
        BY <2>4, <2>6, <2>7
<1> QED
    BY <1>3, <1>4

LEMMA ReaderClocks ==
    ASSUME ReceiverTyped, Uart!ReceiverClock, ReceiverMoves
    PROVE  ReaderPolls \/ ReaderReads \/ ReaderWaits
<1>1. Uart!PollRead \/ Uart!ReadByte \/ Uart!ReceiverElsewhere
    BY DEF Uart!ReceiverClock
<1>2. Uart!Completes <=> ReceiverCompletes
    BY DEF Uart!Completes, Uart!Samples, Half, ReceiverMoves, ReceiverListens, ReceiverDetects,
           ReceiverCounts, ReceiverSamples, ReceiverCompletes
<1>3. CASE Uart!PollRead
    BY <1>3 DEF Uart!PollRead, ReaderPolls
<1>4. CASE Uart!ReadByte
    BY <1>4 DEF Uart!ReadByte, ReaderReads
<1>5. CASE Uart!ReceiverElsewhere
    <2>1. receiver' = receiver /\ ~(read_ready /\ reading /\ readbitcnt = UartBits + 1)
        BY <1>5 DEF Uart!ReceiverElsewhere, Uart!Urgent
    <2>2. read_ready' = (read_ready \/ Uart!Completes)
        BY <1>5 DEF Uart!ReceiverElsewhere
    <2>3. read_ready' \in BOOLEAN /\ (read_ready' <=> read_ready \/ Uart!Completes)
        BY <2>2 DEF ReceiverTyped
    <2> QED
        BY <1>2, <2>1, <2>3 DEF ReaderWaits
<1> QED
    BY <1>1, <1>3, <1>4, <1>5

LEMMA ReceiverStays ==
    ASSUME ReceiverTyped, SenderTyped, ListenInv, PhaseInv, ReceiverMoves,
           ReaderPolls \/ ReaderReads \/ ReaderWaits
    PROVE  ReceiverTyped'
<1> USE UartConstants
<1>1. /\ edgefilter \in [1..3 -> {0, 1}] /\ O_tx \in {0, 1} /\ reading \in BOOLEAN
      /\ inputbuf \in Uart!Byte /\ readbuf \in Uart!Byte
      /\ glitch \in 0..MaxGlitch /\ readclkcnt \in 0..baudclocks /\ readbitcnt \in 0 .. UartBits + 2
      /\ reading => readbitcnt <= UartBits + 1
    BY DEF ReceiverTyped, SenderTyped, PhaseInv
<1>2. Append(Tail(inputbuf), O_tx) \in Uart!Byte
    BY <1>1, ShiftedUartByte
<1>3. Uart!High \in [1..3 -> {0, 1}]
    BY DEF Uart!High
<1>4. /\ edgefilter' \in [1..3 -> {0, 1}] /\ reading' \in BOOLEAN
      /\ inputbuf' \in Uart!Byte /\ readbuf' \in Uart!Byte
    BY <1>1, <1>2, <1>3 DEF ReceiverMoves, ReceiverListens, ReceiverDetects,
           ReceiverCounts, ReceiverSamples, ReceiverCompletes
<1>5. /\ glitch' \in 0..MaxGlitch /\ readclkcnt' \in 0..baudclocks
      /\ readbitcnt' \in 0 .. UartBits + 2
    BY <1>1 DEF ReceiverMoves, ReceiverListens, ReceiverDetects,
           ReceiverCounts, ReceiverSamples, ReceiverCompletes
<1>6. receiver' \in {"poll", "read"} /\ read_ready' \in BOOLEAN
    BY DEF ReceiverTyped, ReaderPolls, ReaderReads, ReaderWaits
<1> QED
    BY <1>4, <1>5, <1>6 DEF ReceiverTyped

-----------------------------------------------------------------------------
(* The time between the two ends. *)

\* One end may stand still for a clock while a bit begins.
SenderRests ==
    /\ writing /\ writeclkcnt = 0 /\ ~slipped /\ slipped' = TRUE
    /\ writing' = writing /\ writebuf' = writebuf /\ writebitcnt' = writebitcnt
    /\ writeclkcnt' = writeclkcnt /\ do_write' = do_write /\ O_tx' = O_tx /\ sender' = sender
ReceiverRests ==
    /\ reading' = reading /\ edgefilter' = edgefilter /\ inputbuf' = inputbuf
    /\ readbuf' = readbuf /\ readbitcnt' = readbitcnt /\ readclkcnt' = readclkcnt
    /\ read_ready' = read_ready /\ receiver' = receiver /\ glitch' = glitch

SenderClock == SenderMoves /\ slipped' = FALSE

\* The numbers the two ends keep time with.
Timed ==
    /\ SenderTyped /\ ReceiverTyped /\ SenderInv /\ ListenInv /\ PhaseInv
    /\ writing /\ writebitcnt = UartBits + 1 => O_tx = 1
    /\ writing /\ writebitcnt = 0 => O_tx = 0

LEMMA TimedNumbers ==
    ASSUME Timed
    PROVE  /\ writing \in BOOLEAN /\ reading \in BOOLEAN /\ slipped \in BOOLEAN
           /\ do_write \in BOOLEAN /\ sender \in {"poll", "write"}
           /\ writebitcnt \in Nat /\ writeclkcnt \in Nat /\ writeclkcnt <= baudclocks - 1
           /\ readbitcnt \in Nat /\ readclkcnt \in Nat /\ readclkcnt <= baudclocks
           /\ writing => writebitcnt <= UartBits + 1 /\ do_write /\ sender = "poll"
           /\ do_write => sender = "poll"
           /\ O_tx \in {0, 1} /\ (~writing => O_tx = 1)
           /\ edgefilter \in [1..3 -> {0, 1}] /\ Lows \in 0..3 /\ glitch \in Nat
    BY UartConstants, LowsCount DEF Timed, SenderTyped, ReceiverTyped, SenderInv

\* The receiver listens.
LEMMA ListenTime ==
    ASSUME Timed, ReceiverListens, SenderClock \/ SenderRests
    PROVE  ListenInv' /\ PhaseInv'
<1> USE UartConstants
<1>1. /\ ~reading /\ reading' = FALSE /\ PhaseInv'
    BY DEF ReceiverListens, PhaseInv
<1>2. Lows' \in Nat
    BY LowsCount DEF ReceiverListens
<1>3. ASSUME O_tx' = 1 PROVE Lows' <= glitch'
    <2>1. CASE O_tx = 1
        <3>1. Lows <= glitch
            BY <1>1, <2>1 DEF Timed, ListenInv
        <3> QED
            BY <1>2, <2>1, <3>1, TimedNumbers DEF ReceiverListens
    <2>2. CASE O_tx = 0
        <3>1. writing /\ writebitcnt # UartBits + 1
            BY <2>2, TimedNumbers DEF Timed
        <3>2. writebitcnt = 0 /\ writeclkcnt <= 4
            BY <1>1, <3>1, TimedNumbers DEF Timed, ListenInv
        <3>3. SenderRests \/ SenderCounts
            BY <3>1, <3>2 DEF SenderClock, SenderMoves, SenderWaits, SenderBegins,
                              SenderShifts, SenderEnds
        <3> QED
            BY <1>3, <2>2, <3>3 DEF SenderRests, SenderCounts
    <2> QED
        BY <2>1, <2>2, TimedNumbers
<1>4. ASSUME writing'
      PROVE  \/ writebitcnt' = UartBits + 1
             \/ writebitcnt' = 0 /\ writeclkcnt' <= Lows' + 1
    <2>1. CASE SenderBegins
        <3>1. writebitcnt' = 0 /\ writeclkcnt' = 0
            BY <2>1 DEF SenderBegins
        <3>2. PICK n \in Nat : n = Lows'
            BY <1>2
        <3>3. 0 <= n + 1
            OBVIOUS
        <3> QED
            BY <3>1, <3>2, <3>3, Zenon
    <2>2. CASE SenderRests \/ SenderCounts
        <3>1. writing /\ writebitcnt' = writebitcnt
            BY <2>2 DEF SenderRests, SenderCounts
        <3>2. CASE writebitcnt = UartBits + 1
            BY <3>1, <3>2
        <3>3. CASE writebitcnt = 0
            <4>1. writeclkcnt <= Lows + 1
                BY <1>1, <3>1, <3>3 DEF Timed, ListenInv
            <4>2. O_tx = 0 => Lows' = Lows + 1
                BY DEF ReceiverListens
            <4>3. O_tx = 0
                BY <3>1, <3>3 DEF Timed
            <4>4. writeclkcnt' \in Nat /\ writeclkcnt' <= writeclkcnt + 1
                BY <2>2, TimedNumbers DEF SenderRests, SenderCounts
            <4> QED
                BY <3>1, <3>3, <4>1, <4>2, <4>3, <4>4, TimedNumbers
        <3> QED
            BY <1>1, <3>1, <3>2, <3>3 DEF Timed, ListenInv
    <2>3. ~SenderWaits /\ ~SenderEnds
        BY <1>4 DEF SenderWaits, SenderEnds
    <2>4. ~SenderShifts
        BY <1>1, TimedNumbers DEF SenderShifts, Timed, ListenInv
    <2> QED
        BY <2>1, <2>2, <2>3, <2>4 DEF SenderClock, SenderMoves
<1> QED
    BY <1>1, <1>3, <1>4 DEF ListenInv

\* A start bit is seen.
LEMMA DetectTime ==
    ASSUME Timed, ReceiverDetects, SenderClock \/ SenderRests
    PROVE  ListenInv' /\ PhaseInv'
<1> USE UartConstants
<1>1. /\ ~reading /\ reading' = TRUE /\ readclkcnt' = 0 /\ readbitcnt' = 0 /\ O_tx = 0
      /\ Lows = 3
    BY DEF ReceiverDetects
<1>2. writing /\ writebitcnt = 0 /\ writeclkcnt <= 4
    BY <1>1, TimedNumbers DEF Timed, ListenInv
<1>3. SenderRests \/ (SenderCounts /\ slipped' = FALSE)
    BY <1>2 DEF SenderClock, SenderMoves, SenderWaits, SenderBegins, SenderShifts, SenderEnds
<1>4. /\ writing' = TRUE /\ writebitcnt' = 0
      /\ \/ writeclkcnt' = 0 /\ slipped' = TRUE
         \/ writeclkcnt' >= 1 /\ writeclkcnt' <= 5 /\ writeclkcnt' \in Nat
    <2>1. CASE SenderRests
        BY <1>2, <2>1, TimedNumbers DEF SenderRests
    <2>2. CASE SenderCounts
        BY <1>2, <2>2, TimedNumbers DEF SenderCounts
    <2> QED
        BY <1>3, <2>1, <2>2
<1>5. Cell' = 0
    BY <1>1 DEF Cell
<1>6. Drift' = writeclkcnt'
    BY <1>1, <1>4, <1>5 DEF Drift
<1>7. ReceiverSlips' \in 0..1 /\ SenderSlips' \in 0..1 /\ (writeclkcnt' = 0 => ReceiverSlips' = 1)
      /\ (writeclkcnt' # 0 => SenderSlips' = 1)
    BY <1>4 DEF ReceiverSlips, SenderSlips
<1>8. PhaseInv'
    BY <1>1, <1>4, <1>5, <1>6, <1>7 DEF PhaseInv
<1>9. ListenInv'
    BY <1>1 DEF ListenInv, ReceiverDetects
<1> QED
    BY <1>8, <1>9

\* The receiver in a byte, a clock further.
ReceiverTicks ==
    /\ reading /\ reading' = TRUE /\ edgefilter' = edgefilter /\ glitch' = 0
    /\ \/ Cell' = Cell /\ readclkcnt' = readclkcnt + 1
       \/ Cell' = Cell + 1 /\ readclkcnt = baudclocks /\ readclkcnt' = 0
    /\ readbitcnt' \in Nat /\ readbitcnt' <= UartBits + 1
    /\ readclkcnt = Half => readbitcnt # UartBits + 1

LEMMA Cells ==
    ASSUME Timed, reading
    PROVE  /\ Cell \in Nat /\ Cell <= UartBits + 1
           /\ writing => /\ writebitcnt \in Cell - 1 .. Cell + 1
                         /\ 1 - ReceiverSlips <= Drift /\ Drift <= 4 + Cell + SenderSlips
                         /\ ReceiverSlips \in Nat /\ SenderSlips \in Nat
                         /\ ReceiverSlips <= UartBits + 2 /\ SenderSlips <= UartBits + 2
                         /\ Drift \in Int
<1> USE UartConstants
<1>1. /\ readbitcnt <= UartBits + 1 /\ Cell >= 0
      /\ writing => /\ writebitcnt \in Cell - 1 .. Cell + 1
                    /\ 1 - ReceiverSlips <= Drift /\ Drift <= 4 + Cell + SenderSlips
    BY DEF Timed, PhaseInv
<1>2. Cell \in Nat /\ Cell <= UartBits + 1
    BY <1>1, TimedNumbers DEF Cell
<1>3. Drift \in Int
    BY <1>2, TimedNumbers DEF Drift
<1>4. /\ ReceiverSlips \in Nat /\ SenderSlips \in Nat
      /\ writing => ReceiverSlips <= UartBits + 2 /\ SenderSlips <= UartBits + 2
    BY TimedNumbers DEF ReceiverSlips, SenderSlips
<1> QED
    BY <1>1, <1>2, <1>3, <1>4

LEMMA ReceiverTime ==
    ASSUME Timed, ReceiverCounts \/ ReceiverSamples
    PROVE  ReceiverTicks /\ ListenInv'
<1> USE UartConstants
<1>1. reading /\ readbitcnt <= UartBits + 1 /\ Cell >= 0
    BY DEF ReceiverCounts, ReceiverSamples, Timed, PhaseInv
<1>2. CASE ReceiverCounts
    <2>1. /\ readclkcnt # Half /\ readbitcnt' = readbitcnt
          /\ reading' = TRUE /\ edgefilter' = edgefilter /\ glitch' = 0
        BY <1>2 DEF ReceiverCounts
    <2>4. ListenInv'
        BY <1>1, <2>1 DEF ListenInv, Timed
    <2>2. CASE readclkcnt = baudclocks
        <3>1. readclkcnt' = 0
            BY <1>2, <2>2 DEF ReceiverCounts
        <3>2. Cell' = Cell + 1
            BY <2>1, <2>2, <3>1, TimedNumbers DEF Cell
        <3> QED
            BY <1>1, <2>1, <2>2, <2>4, <3>1, <3>2, TimedNumbers DEF ReceiverTicks
    <2>3. CASE readclkcnt # baudclocks
        <3>1. readclkcnt' = readclkcnt + 1
            BY <1>2, <2>3 DEF ReceiverCounts
        <3>2. Cell' = Cell
            BY <2>1, <2>3, <3>1, TimedNumbers DEF Cell
        <3> QED
            BY <1>1, <2>1, <2>3, <2>4, <3>1, <3>2, TimedNumbers DEF ReceiverTicks
    <2> QED
        BY <2>2, <2>3
<1>3. CASE ReceiverSamples
    <2>1. /\ readclkcnt = Half /\ readclkcnt' = Half + 1
          /\ readbitcnt' = readbitcnt + 1 /\ readbitcnt # UartBits + 1
          /\ reading' = TRUE /\ edgefilter' = edgefilter /\ glitch' = 0
        BY <1>3 DEF ReceiverSamples
    <2>2. Cell' = Cell
        BY <2>1, TimedNumbers DEF Cell
    <2>3. ListenInv'
        BY <1>1, <2>1 DEF ListenInv, Timed
    <2> QED
        BY <1>1, <2>1, <2>2, <2>3, TimedNumbers DEF ReceiverTicks
<1> QED
    BY <1>2, <1>3

\* Both go on: the receiver falls behind by a clock with every bit of its own.
LEMMA TickTogether ==
    ASSUME Timed, ReceiverTicks, SenderCounts \/ SenderShifts, slipped' = FALSE
    PROVE  PhaseInv'
<1>1. /\ reading /\ writing /\ reading' = TRUE /\ writing' = TRUE
    BY DEF ReceiverTicks, SenderCounts, SenderShifts
<1>2. /\ Cell \in Nat /\ Cell <= UartBits + 1 /\ Cell' \in Nat
      /\ writebitcnt \in Cell - 1 .. Cell + 1
      /\ 1 - ReceiverSlips <= Drift /\ Drift <= 4 + Cell + SenderSlips
      /\ ReceiverSlips \in Nat /\ SenderSlips \in Nat
      /\ ReceiverSlips <= UartBits + 2 /\ SenderSlips <= UartBits + 2
      /\ Drift \in Int
    BY <1>1, Cells DEF ReceiverTicks
<1>3. Drift < baudclocks - 1 /\ Drift > 1 - baudclocks
    BY <1>2, UartConstants
<1>4. /\ \/ writebitcnt' = writebitcnt /\ writeclkcnt' = writeclkcnt + 1
         \/ writebitcnt' = writebitcnt + 1 /\ writeclkcnt = baudclocks - 1 /\ writeclkcnt' = 0
      /\ \/ Cell' = Cell /\ readclkcnt' = readclkcnt + 1
         \/ Cell' = Cell + 1 /\ readclkcnt = baudclocks /\ readclkcnt' = 0
    BY DEF SenderCounts, SenderShifts, ReceiverTicks
<1>5. /\ writebitcnt' \in Cell' - 1 .. Cell' + 1
      /\ Drift' = Drift + (Cell' - Cell)
    <2>1. CASE writebitcnt = Cell
        BY <1>2, <1>3, <1>4, <2>1, UartConstants, TimedNumbers DEF Drift
    <2>2. CASE writebitcnt = Cell + 1
        BY <1>2, <1>3, <1>4, <2>2, UartConstants, TimedNumbers DEF Drift
    <2>3. CASE writebitcnt = Cell - 1
        BY <1>2, <1>3, <1>4, <2>3, UartConstants, TimedNumbers DEF Drift
    <2> QED
        BY <1>2, <2>1, <2>2, <2>3, TimedNumbers
<1>6. /\ ReceiverSlips' \in Nat /\ SenderSlips' \in Nat
      /\ ReceiverSlips' >= ReceiverSlips /\ SenderSlips' >= SenderSlips
    BY <1>4, UartConstants, TimedNumbers DEF ReceiverSlips, SenderSlips
<1>7. 1 - ReceiverSlips' <= Drift' /\ Drift' <= 4 + Cell' + SenderSlips'
    <2>1. PICK d \in Int, c \in Nat, rs \in Nat, ss \in Nat :
             d = Drift /\ c = Cell /\ rs = ReceiverSlips /\ ss = SenderSlips
        BY <1>2
    <2>2. PICK e \in Nat, rt \in Nat, st \in Nat :
             e = Cell' /\ rt = ReceiverSlips' /\ st = SenderSlips'
        BY <1>2, <1>6
    <2>3. 1 - rs <= d /\ d <= 4 + c + ss /\ rt >= rs /\ st >= ss
        BY <1>2, <1>6, <2>1, <2>2, Zenon
    <2>4. e = c \/ e = c + 1
        BY <1>4, <2>1, <2>2, Zenon
    <2>5. 1 - rt <= d + (e - c) /\ d + (e - c) <= 4 + e + st
        BY <2>3, <2>4
    <2> QED
        BY <1>5, <2>1, <2>2, <2>5, Zenon
<1>8. Cell' >= 0
    BY <1>2
<1> QED
    BY <1>1, <1>5, <1>7, <1>8 DEF PhaseInv, ReceiverTicks

\* The receiver gets ahead by a clock.
LEMMA ReceiverAheadTime ==
    ASSUME Timed, ReceiverTicks, SenderRests
    PROVE  PhaseInv'
<1>1. /\ reading /\ writing /\ reading' = TRUE /\ writing' = writing
      /\ writeclkcnt = 0 /\ ~slipped /\ slipped' = TRUE
      /\ writebitcnt' = writebitcnt /\ writeclkcnt' = 0
    BY DEF ReceiverTicks, SenderRests
<1>2. /\ Cell \in Nat /\ Cell <= UartBits + 1 /\ Cell' \in Nat
      /\ writebitcnt \in Cell - 1 .. Cell + 1
      /\ 1 - ReceiverSlips <= Drift /\ Drift <= 4 + Cell + SenderSlips
      /\ ReceiverSlips \in Nat /\ SenderSlips \in Nat
      /\ ReceiverSlips <= UartBits + 2 /\ SenderSlips <= UartBits + 2
      /\ Drift \in Int
    BY <1>1, Cells DEF ReceiverTicks
<1>3. Drift < baudclocks - 1 /\ Drift > 1 - baudclocks
    BY <1>2, UartConstants
<1>4. \/ Cell' = Cell /\ readclkcnt' = readclkcnt + 1
      \/ Cell' = Cell + 1 /\ readclkcnt = baudclocks /\ readclkcnt' = 0
    BY DEF ReceiverTicks
<1>5. /\ writebitcnt' \in Cell' - 1 .. Cell' + 1
      /\ Drift' = Drift - 1 + (Cell' - Cell)
    <2>1. PICK c \in Nat : c = Cell'
        BY <1>2
    <2>2. \/ c = Cell /\ readclkcnt' = readclkcnt + 1
          \/ c = Cell + 1 /\ readclkcnt = baudclocks /\ readclkcnt' = 0
        BY <1>4, <2>1
    <2>3. Drift' = 0 - readclkcnt' + (IF writebitcnt = c THEN 0
                                      ELSE IF writebitcnt > c THEN baudclocks ELSE 0 - baudclocks)
        BY <1>1, <2>1, <2>2, UartConstants, TimedNumbers DEF Drift
    <2>4. Drift = 0 - readclkcnt + (IF writebitcnt = Cell THEN 0
                                    ELSE IF writebitcnt > Cell THEN baudclocks ELSE 0 - baudclocks)
        BY <1>1, <1>2, UartConstants, TimedNumbers DEF Drift
    <2>5. writebitcnt \in c - 1 .. c + 1 /\ Drift' = Drift - 1 + (c - Cell)
        <3>1. CASE writebitcnt = Cell
            BY <1>2, <1>3, <2>2, <2>3, <2>4, <3>1, UartConstants, TimedNumbers
        <3>2. CASE writebitcnt = Cell + 1
            BY <1>2, <1>3, <2>2, <2>3, <2>4, <3>2, UartConstants, TimedNumbers
        <3>3. CASE writebitcnt = Cell - 1
            BY <1>2, <1>3, <2>2, <2>3, <2>4, <3>3, UartConstants, TimedNumbers
        <3> QED
            BY <1>2, <3>1, <3>2, <3>3, UartConstants, TimedNumbers
    <2> QED
        BY <1>1, <2>1, <2>5, Zenon
<1>6. /\ ReceiverSlips' = ReceiverSlips + 1 /\ SenderSlips' = SenderSlips
    BY <1>1, UartConstants, TimedNumbers DEF ReceiverSlips, SenderSlips
<1>7. 1 - ReceiverSlips' <= Drift' /\ Drift' <= 4 + Cell' + SenderSlips'
    <2>1. PICK d \in Int, c \in Nat, rs \in Nat, ss \in Nat :
             d = Drift /\ c = Cell /\ rs = ReceiverSlips /\ ss = SenderSlips
        BY <1>2
    <2>2. PICK e \in Nat : e = Cell'
        BY <1>2
    <2>3. 1 - rs <= d /\ d <= 4 + c + ss
        BY <1>2, <2>1, Zenon
    <2>4. e = c \/ e = c + 1
        BY <1>4, <2>1, <2>2, Zenon
    <2>5. 1 - (rs + 1) <= d - 1 + (e - c) /\ d - 1 + (e - c) <= 4 + e + ss
        BY <2>3, <2>4
    <2> QED
        BY <1>5, <1>6, <2>1, <2>2, <2>5, Zenon
<1>8. Cell' >= 0
    BY <1>2
<1> QED
    BY <1>1, <1>5, <1>7, <1>8 DEF PhaseInv, ReceiverTicks

\* The sender gets ahead by a clock.
LEMMA SenderAheadTime ==
    ASSUME Timed, ReceiverRests, writing, writeclkcnt = 0, SenderMoves, slipped' = TRUE
    PROVE  ListenInv' /\ PhaseInv'
<1>1. SenderCounts
    BY UartConstants DEF SenderMoves, SenderWaits, SenderBegins, SenderShifts, SenderEnds
<1>2. /\ writing' = TRUE /\ writebitcnt' = writebitcnt /\ writeclkcnt' = 1 /\ O_tx' = O_tx
      /\ reading' = reading /\ edgefilter' = edgefilter /\ glitch' = glitch
      /\ readbitcnt' = readbitcnt /\ readclkcnt' = readclkcnt
    BY <1>1 DEF SenderCounts, ReceiverRests
<1>3. Lows' = Lows /\ Cell' = Cell
    BY <1>2 DEF Lows, Cell
<1>4. ListenInv'
    BY <1>2, <1>3, TimedNumbers DEF Timed, ListenInv
<1>5. ASSUME reading
      PROVE  /\ writebitcnt' \in Cell' - 1 .. Cell' + 1
             /\ 1 - ReceiverSlips' <= Drift' /\ Drift' <= 4 + Cell' + SenderSlips'
    <2>1. /\ Cell \in Nat /\ writebitcnt \in Cell - 1 .. Cell + 1
          /\ 1 - ReceiverSlips <= Drift /\ Drift <= 4 + Cell + SenderSlips
          /\ ReceiverSlips \in Nat /\ SenderSlips \in Nat /\ Drift \in Int
        BY <1>5, Cells
    <2>2. Drift' = Drift + 1
        BY <1>2, <1>3, <2>1, UartConstants, TimedNumbers DEF Drift
    <2>3. /\ SenderSlips' = SenderSlips + 1 /\ ReceiverSlips' \in Nat
          /\ ReceiverSlips' >= ReceiverSlips
        BY <1>2, UartConstants, TimedNumbers DEF ReceiverSlips, SenderSlips
    <2>4. PICK d \in Int, c \in Nat, rs \in Nat, ss \in Nat, rt \in Nat :
             /\ d = Drift /\ c = Cell /\ rs = ReceiverSlips /\ ss = SenderSlips
             /\ rt = ReceiverSlips'
        BY <2>1, <2>3
    <2>8. 1 - rs <= d /\ d <= 4 + c + ss /\ rt >= rs
        BY <2>1, <2>3, <2>4, Zenon
    <2>5. 1 - rt <= d + 1 /\ d + 1 <= 4 + c + (ss + 1)
        BY <2>8
    <2>6. 1 - ReceiverSlips' <= Drift' /\ Drift' <= 4 + Cell' + SenderSlips'
        BY <1>3, <2>2, <2>3, <2>4, <2>5, Zenon
    <2>7. writebitcnt' \in Cell' - 1 .. Cell' + 1
        BY <1>2, <1>3, <2>1, Zenon
    <2> QED
        BY <2>6, <2>7
<1>6. PhaseInv'
    BY <1>2, <1>3, <1>5, TimedNumbers DEF Timed, PhaseInv
<1> QED
    BY <1>4, <1>6

\* The stop bit is over and the receiver is still in it: it is done before the
\* next byte can begin.
LEMMA EndTime ==
    ASSUME Timed, ReceiverTicks, SenderWaits \/ SenderBegins \/ SenderEnds
    PROVE  PhaseInv'
<1> USE UartConstants
<1>1. reading /\ reading' = TRUE /\ readbitcnt' \in Nat /\ readbitcnt' <= UartBits + 1
      /\ Cell \in Nat /\ Cell' \in Nat
    BY Cells DEF ReceiverTicks
<1>2. CASE SenderEnds
    <2>1. /\ writing /\ writing' = FALSE /\ do_write' = FALSE /\ sender' = sender
          /\ writeclkcnt = baudclocks - 1 /\ writebitcnt = UartBits + 1
        BY <1>2 DEF SenderEnds
    <2>2. /\ Cell <= UartBits + 1 /\ writebitcnt \in Cell - 1 .. Cell + 1
          /\ Drift <= 4 + Cell + SenderSlips /\ SenderSlips = UartBits + 2
        BY <1>1, <2>1, Cells, TimedNumbers DEF SenderSlips
    <2>3. Cell = UartBits + 1
        <3>1. ASSUME writebitcnt > Cell PROVE FALSE
            BY <1>1, <2>1, <2>2, <3>1, TimedNumbers DEF Drift
        <3> QED
            BY <1>1, <2>1, <2>2, <3>1
    <2>4. readclkcnt >= baudclocks - 1 - (2 * UartBits + 7)
        BY <2>1, <2>2, <2>3, TimedNumbers DEF Drift
    <2>5. /\ Cell' = Cell /\ readclkcnt' = readclkcnt + 1
          /\ readclkcnt < Half /\ readbitcnt' = UartBits + 1 /\ readclkcnt' <= Half
        <3>1. readbitcnt = UartBits + 1 /\ readclkcnt <= Half
            <4>1. readbitcnt <= UartBits + 1
                BY <1>1 DEF Timed, PhaseInv
            <4> QED
                BY <2>3, <4>1, TimedNumbers DEF Cell
        <3>2. readclkcnt < Half
            BY <3>1, TimedNumbers DEF ReceiverTicks
        <3>3. readclkcnt' = readclkcnt + 1 /\ Cell' = Cell
            BY <3>2, TimedNumbers DEF ReceiverTicks
        <3>4. readclkcnt' <= Half
            BY <3>2, <3>3, TimedNumbers
        <3>5. readbitcnt' = Cell'
            BY <3>4 DEF Cell
        <3> QED
            BY <2>3, <3>2, <3>3, <3>4, <3>5
    <2>6. Stage' = 0
        BY <2>1, TimedNumbers DEF Stage
    <2> QED
        BY <1>1, <2>1, <2>4, <2>5, <2>6, TimedNumbers DEF PhaseInv
<1>3. CASE SenderWaits \/ SenderBegins
    <2>1. /\ ~writing /\ readbitcnt = UartBits + 1 /\ readclkcnt <= Half
          /\ readclkcnt >= baudclocks - (2 * UartBits + 7) + Stage
        BY <1>1, <1>3 DEF SenderWaits, SenderBegins, Timed, PhaseInv
    <2>2. readclkcnt < Half /\ readclkcnt' = readclkcnt + 1 /\ Cell' = Cell
        <3>1. readclkcnt < Half
            BY <2>1, TimedNumbers DEF ReceiverTicks
        <3> QED
            BY <3>1, TimedNumbers DEF ReceiverTicks
    <2>3. readclkcnt' <= Half /\ readbitcnt' = UartBits + 1
        <3>1. Cell = UartBits + 1 /\ readclkcnt' <= Half
            BY <2>1, <2>2, TimedNumbers DEF Cell
        <3>2. Cell' = readbitcnt'
            BY <3>1 DEF Cell
        <3> QED
            BY <2>2, <3>1, <3>2
    <2>4. ~do_write
        BY <2>1, <2>2, TimedNumbers DEF Stage
    <2>5. SenderWaits
        BY <1>3, <2>4 DEF SenderBegins
    <2>6. Stage \in 0..2 /\ Stage' \in 0..2 /\ Stage' <= Stage + 1 /\ writing' = FALSE
        BY <2>4, <2>5, TimedNumbers DEF SenderWaits, Stage
    <2> QED
        BY <1>1, <2>1, <2>2, <2>3, <2>6, TimedNumbers DEF PhaseInv
<1> QED
    BY <1>2, <1>3

\* The receiver has the byte, and the line is high.
LEMMA CompleteTime ==
    ASSUME Timed, ReceiverCompletes, SenderClock \/ SenderRests
    PROVE  /\ ListenInv' /\ PhaseInv'
           /\ writing => writebitcnt = UartBits + 1
<1> USE UartConstants
<1>1. /\ reading /\ reading' = FALSE /\ readclkcnt = Half /\ readbitcnt = UartBits + 1
      /\ edgefilter' = Uart!High /\ glitch' = 0 /\ Cell = UartBits + 1
    <2>1. /\ reading /\ reading' = FALSE /\ readclkcnt = Half /\ readbitcnt = UartBits + 1
          /\ edgefilter' = edgefilter /\ glitch' = 0
        BY DEF ReceiverCompletes
    <2>2. Cell = UartBits + 1
        BY <2>1, TimedNumbers DEF Cell
    <2> QED
        BY <2>1, <2>2 DEF Timed, ListenInv
<1>2. ASSUME writing PROVE writebitcnt = UartBits + 1
    <2>1. /\ writebitcnt \in Cell - 1 .. Cell + 1 /\ writebitcnt <= UartBits + 1
          /\ 1 - ReceiverSlips <= Drift /\ ReceiverSlips \in Nat /\ ReceiverSlips <= UartBits + 2
        BY <1>1, <1>2, Cells, TimedNumbers
    <2>2. ASSUME writebitcnt = Cell - 1 PROVE FALSE
        BY <1>1, <2>1, <2>2, TimedNumbers DEF Drift
    <2> QED
        BY <1>1, <2>1, <2>2, TimedNumbers
<1>3. Lows' = 0
    BY <1>1 DEF Lows, Uart!High
<1>4. ASSUME writing'
      PROVE  \/ writebitcnt' = UartBits + 1
             \/ writebitcnt' = 0 /\ writeclkcnt' <= Lows' + 1
    <2>1. CASE SenderBegins
        <3>1. writebitcnt' = 0 /\ writeclkcnt' = 0
            BY <2>1 DEF SenderBegins
        <3> QED
            BY <1>3, <3>1
    <2>2. CASE SenderCounts \/ SenderRests
        BY <1>2, <2>2 DEF SenderCounts, SenderRests
    <2>3. ~SenderWaits /\ ~SenderEnds /\ ~SenderShifts
        BY <1>2, <1>4 DEF SenderWaits, SenderEnds, SenderShifts
    <2> QED
        BY <2>1, <2>2, <2>3 DEF SenderClock, SenderMoves
<1> QED
    BY <1>1, <1>2, <1>3, <1>4 DEF ListenInv, PhaseInv

-----------------------------------------------------------------------------
(* A step of the two ends. *)
ReaderMoves == ReaderPolls \/ ReaderReads \/ ReaderWaits

Moves ==
    \/ SenderMoves /\ slipped' = FALSE /\ ReceiverMoves /\ ReaderMoves
    \/ SenderRests /\ ReceiverMoves /\ ReaderMoves
    \/ SenderMoves /\ slipped' = TRUE /\ writing /\ writeclkcnt = 0 /\ ReceiverRests

LEMMA TimingStep ==
    ASSUME Timed, Moves
    PROVE  ListenInv' /\ PhaseInv'
<1>1. CASE ReceiverMoves /\ (SenderClock \/ SenderRests)
    <2>1. CASE ReceiverListens
        BY <1>1, <2>1, ListenTime
    <2>2. CASE ReceiverDetects
        BY <1>1, <2>2, DetectTime
    <2>3. CASE ReceiverCompletes
        BY <1>1, <2>3, CompleteTime
    <2>4. CASE ReceiverCounts \/ ReceiverSamples
        <3>1. ReceiverTicks /\ ListenInv'
            BY <2>4, ReceiverTime
        <3>2. CASE SenderRests
            BY <3>1, <3>2, ReceiverAheadTime
        <3>3. CASE SenderClock
            <4>1. CASE SenderCounts \/ SenderShifts
                BY <3>1, <3>3, <4>1, TickTogether DEF SenderClock
            <4>2. CASE SenderWaits \/ SenderBegins \/ SenderEnds
                BY <3>1, <4>2, EndTime
            <4> QED
                BY <3>3, <4>1, <4>2 DEF SenderClock, SenderMoves
        <3> QED
            BY <1>1, <3>1, <3>2, <3>3
    <2> QED
        BY <1>1, <2>1, <2>2, <2>3, <2>4 DEF ReceiverMoves
<1>2. CASE SenderMoves /\ slipped' = TRUE /\ writing /\ writeclkcnt = 0 /\ ReceiverRests
    BY <1>2, SenderAheadTime
<1> QED
    BY <1>1, <1>2 DEF Moves, SenderClock

\* Where the bytes go: a byte is written, the receiver sees it begin, it has
\* it, the program reads it.
ByteWritten == sender = "write" /\ sender' = "poll"
ByteRead  == receiver = "read" /\ receiver' = "poll"

\* While the receiver is in a byte, none waits that it has not seen.
LEMMA OneByteAtATime ==
    ASSUME Timed, reading
    PROVE  ~Queued
<1>1. CASE writing
    BY <1>1 DEF Queued
<1>2. CASE ~writing
    <2>1. readclkcnt <= Half /\ readclkcnt >= baudclocks - (2 * UartBits + 7) + Stage
        BY <1>2 DEF Timed, PhaseInv
    <2>2. ~do_write
        BY <2>1, UartConstants, TimedNumbers DEF Stage
    <2> QED
        BY <2>2 DEF Queued
<1> QED
    BY <1>1, <1>2

\* A byte that begins is seen in its start bit.
LEMMA SeenEarly ==
    ASSUME Timed, SenderShifts
    PROVE  reading
<1>1. writing /\ writeclkcnt = baudclocks - 1 /\ writebitcnt <= UartBits
    BY DEF SenderShifts
<1> QED
    BY <1>1, UartConstants, TimedNumbers DEF Timed, ListenInv

LEMMA QueueMoves ==
    ASSUME Timed, Moves
    PROVE  /\ Queued' <=> ByteWritten \/ (Queued /\ ~ReceiverDetects)
           /\ ReceiverDetects => Queued /\ ~ByteWritten
           /\ ByteWritten => ~Queued /\ SenderWaits /\ writebuf' \in Uart!Byte
           /\ ReceiverCompletes => ~Queued
<1> USE TimedNumbers
<1>1. ASSUME ReceiverDetects PROVE Queued /\ ~ByteWritten /\ writing
    <2>1. ~reading /\ O_tx = 0
        BY <1>1 DEF ReceiverDetects
    <2>2. writing /\ writebitcnt # UartBits + 1 /\ do_write /\ sender = "poll"
        BY <2>1 DEF Timed
    <2>3. writebitcnt = 0
        BY <2>1, <2>2 DEF Timed, ListenInv
    <2> QED
        BY <2>1, <2>2, <2>3 DEF Queued, ByteWritten
<1>2. ASSUME ReceiverCompletes PROVE ~Queued /\ reading
    BY <1>2, OneByteAtATime DEF ReceiverCompletes
<1>3. ASSUME ByteWritten PROVE ~Queued /\ SenderWaits /\ writebuf' \in Uart!Byte
    <2>1. ~SenderRests /\ ~SenderBegins /\ ~SenderCounts /\ ~SenderShifts /\ ~SenderEnds
        BY <1>3 DEF ByteWritten, SenderRests, SenderBegins, SenderCounts, SenderShifts, SenderEnds
    <2>2. SenderWaits
        BY <2>1 DEF Moves, SenderMoves
    <2> QED
        BY <1>3, <2>2 DEF SenderWaits, ByteWritten, Queued
<1>4. reading' <=> (reading \/ ReceiverDetects) /\ ~ReceiverCompletes
    <2>1. CASE ReceiverRests
        BY <2>1 DEF ReceiverRests, ReceiverDetects, ReceiverCompletes
    <2>2. CASE ReceiverMoves
        BY <2>2 DEF ReceiverMoves, ReceiverListens, ReceiverDetects, ReceiverCounts,
                    ReceiverSamples, ReceiverCompletes
    <2> QED
        BY <2>1, <2>2 DEF Moves
<1>5. Queued' <=> ByteWritten \/ (Queued /\ ~ReceiverDetects)
    <2>1. CASE SenderWaits
        BY <1>1, <2>1 DEF SenderWaits, ByteWritten, Queued
    <2>2. CASE SenderBegins
        <3>1. Queued /\ ~reading /\ ~ReceiverDetects
            BY <1>1, <2>2, OneByteAtATime DEF SenderBegins, Queued
        <3> QED
            BY <1>4, <2>2, <3>1 DEF SenderBegins, Queued
    <2>3. CASE SenderCounts \/ SenderRests
        <3>1. /\ writing /\ writing' /\ do_write /\ do_write' /\ writebitcnt' = writebitcnt
              /\ ~ByteWritten
            BY <2>3 DEF SenderCounts, SenderRests, ByteWritten
        <3>2. /\ Queued <=> writebitcnt = 0 /\ ~reading
              /\ Queued' <=> writebitcnt = 0 /\ ~reading'
            BY <3>1 DEF Queued
        <3>3. ASSUME ReceiverCompletes PROVE writebitcnt # 0
            <4>1. ~ReceiverRests
                BY <3>3 DEF ReceiverRests, ReceiverCompletes
            <4>2. SenderClock \/ SenderRests
                BY <4>1 DEF Moves, SenderClock
            <4>3. writebitcnt = UartBits + 1
                BY <3>1, <3>3, <4>2, CompleteTime
            <4> QED
                BY <4>3, UartConstants
        <3> QED
            BY <1>1, <1>4, <3>1, <3>2, <3>3
    <2>4. CASE SenderShifts
        <3>1. reading /\ ~Queued
            BY <2>4, SeenEarly, OneByteAtATime
        <3> QED
            BY <2>4, <3>1 DEF SenderShifts, Queued, ByteWritten
    <2>5. CASE SenderEnds
        <3>1. ~Queued
            BY <2>5, UartConstants DEF SenderEnds, Queued
        <3> QED
            BY <2>5, <3>1 DEF SenderEnds, Queued, ByteWritten
    <2> QED
        BY <2>1, <2>2, <2>3, <2>4, <2>5 DEF Moves, SenderMoves
<1> QED
    BY <1>1, <1>2, <1>3, <1>5

LEMMA ReaderStep ==
    ASSUME Timed, UrgentInv, Moves
    PROVE  /\ reading' <=> (reading \/ ReceiverDetects) /\ ~ReceiverCompletes
           /\ read_ready' <=> (read_ready \/ ReceiverCompletes) /\ ~ByteRead
           /\ ByteRead => read_ready
           /\ ReceiverCompletes => ~read_ready /\ ~ByteRead
           /\ ~ReceiverCompletes => readbuf' = readbuf
           /\ UrgentInv'
<1> USE TimedNumbers
<1>1. read_ready \in BOOLEAN /\ receiver \in {"poll", "read"}
    BY DEF Timed, ReceiverTyped
<1>2. ByteRead => read_ready
    BY DEF ByteRead, UrgentInv
<1>3. ASSUME ReceiverCompletes PROVE ~read_ready /\ ~ByteRead
    <2>1. reading /\ readbitcnt = UartBits + 1 /\ readclkcnt = Half
        BY <1>3 DEF ReceiverCompletes
    <2>2. ~read_ready
        BY <2>1, UartConstants DEF UrgentInv
    <2> QED
        BY <1>2, <2>2
<1>4. CASE ReceiverRests
    <2>1. reading' = reading /\ read_ready' = read_ready /\ readbuf' = readbuf
        BY <1>4 DEF ReceiverRests
    <2>2. ~ByteRead /\ ~ReceiverDetects /\ ~ReceiverCompletes
        BY <1>4 DEF ReceiverRests, ByteRead, ReceiverDetects, ReceiverCompletes
    <2>3. UrgentInv'
        BY <1>4 DEF ReceiverRests, UrgentInv
    <2> QED
        BY <1>1, <2>1, <2>2, <2>3
<1>5. CASE ReceiverMoves /\ ReaderMoves
    <2>1. /\ reading' <=> (reading \/ ReceiverDetects) /\ ~ReceiverCompletes
          /\ ~ReceiverCompletes => readbuf' = readbuf
        BY <1>5 DEF ReceiverMoves, ReceiverListens, ReceiverDetects, ReceiverCounts,
                    ReceiverSamples, ReceiverCompletes
    <2>2. read_ready' <=> (read_ready \/ ReceiverCompletes) /\ ~ByteRead
        BY <1>1, <1>5 DEF ReaderMoves, ReaderPolls, ReaderReads, ReaderWaits, ByteRead
    <2>3. receiver' = "read" => read_ready'
        <3>1. CASE ReaderWaits
            BY <3>1 DEF ReaderWaits, UrgentInv
        <3> QED
            BY <1>5, <3>1 DEF ReaderMoves, ReaderPolls, ReaderReads
    <2>4. ASSUME read_ready', reading', readbitcnt' = UartBits + 1
          PROVE  readclkcnt' = Half + 1 \/ (readclkcnt' = Half + 2 /\ receiver' = "read")
        <3>1. CASE ReceiverSamples
            BY <3>1 DEF ReceiverSamples
        <3>2. CASE ReceiverCounts
            <4>1. reading /\ readbitcnt = UartBits + 1 /\ ~ReceiverCompletes
                BY <2>4, <3>2 DEF ReceiverCounts, ReceiverCompletes
            <4>2. read_ready /\ ~ReaderReads
                BY <1>1, <2>2, <2>4, <4>1 DEF ReaderReads
            <4>3. ReaderPolls
                BY <1>5, <4>1, <4>2 DEF ReaderMoves, ReaderWaits
            <4>4. readclkcnt = Half + 1 /\ receiver' = "read"
                BY <4>1, <4>2, <4>3 DEF ReaderPolls, UrgentInv
            <4>5. readclkcnt # baudclocks
                BY <4>4, UartConstants
            <4>6. readclkcnt' = readclkcnt + 1
                BY <3>2, <4>5 DEF ReceiverCounts
            <4> QED
                BY <4>4, <4>6, UartConstants
        <3>3. ~ReceiverListens /\ ~ReceiverDetects /\ ~ReceiverCompletes
            BY <2>4, UartConstants DEF ReceiverListens, ReceiverDetects, ReceiverCompletes
        <3> QED
            BY <1>5, <3>1, <3>2, <3>3 DEF ReceiverMoves
    <2>5. UrgentInv'
        BY <2>3, <2>4 DEF UrgentInv
    <2> QED
        BY <1>2, <1>3, <2>1, <2>2, <2>5
<1> QED
    BY <1>2, <1>3, <1>4, <1>5 DEF Moves

-----------------------------------------------------------------------------
\* A queue of which the first element may be taken while one is added.
Handed(p, d, g, w) == (IF d = 1 THEN Tail(p) ELSE p) \o (IF g = 1 THEN << w >> ELSE << >>)

HandedOver(S, p, d, g, w, q) ==
    /\ q \in Seq(S) /\ Len(q) = Len(p) - d + g
    /\ \A i \in 1 .. Len(p) - d : q[i] = p[i + d]
    /\ g = 1 => q[Len(q)] = w

LEMMA TakenAndGiven ==
    ASSUME NEW S, NEW p \in Seq(S), NEW w \in S, NEW d \in {0, 1}, NEW g \in {0, 1},
           d = 1 => p # << >>
    PROVE  HandedOver(S, p, d, g, w, Handed(p, d, g, w))
<1> DEFINE l == IF d = 1 THEN Tail(p) ELSE p
           r == IF g = 1 THEN << w >> ELSE << >>
<1>1. /\ l \in Seq(S) /\ Len(l) = Len(p) - d /\ Len(l) \in Nat
      /\ \A i \in 1 .. Len(p) - d : l[i] = p[i + d]
    <2>1. CASE d = 1
        BY <2>1, HeadTailProperties
    <2>2. CASE d = 0
        BY <2>2
    <2> QED
        BY <2>1, <2>2
<1>2. /\ r \in Seq(S) /\ Len(r) = g /\ (g = 1 => r[1] = w)
    BY << w >> \in Seq(S), Len(<< w >>) = 1, << w >>[1] = w, << >> \in Seq(S), Len(<< >>) = 0
<1> DEFINE q == Handed(p, d, g, w)
<1>3. q = l \o r
    BY DEF Handed
<1> HIDE DEF l, r, q
<1>4. q \in Seq(S) /\ Len(q) = Len(l) + Len(r)
      /\ \A i \in 1 .. Len(l) + Len(r) : q[i] = IF i <= Len(l) THEN l[i] ELSE r[i - Len(l)]
    <2>1. l \in Seq(S) /\ r \in Seq(S)
        BY <1>1, <1>2
    <2>2. /\ l \o r \in Seq(S) /\ Len(l \o r) = Len(l) + Len(r)
          /\ \A i \in 1 .. Len(l) + Len(r) :
                (l \o r)[i] = IF i <= Len(l) THEN l[i] ELSE r[i - Len(l)]
        BY <2>1, ConcatProperties, Zenon
    <2> QED
        BY <1>3, <2>2, Zenon
<1>5. Len(q) = Len(p) - d + g
    BY <1>1, <1>2, <1>4
<1>6. \A i \in 1 .. Len(p) - d : q[i] = p[i + d]
    <2> TAKE i \in 1 .. Len(p) - d
    <2>1. i \in 1 .. Len(l) + Len(r) /\ i <= Len(l)
        BY <1>1, <1>2
    <2>2. q[i] = l[i]
        BY <1>4, <2>1
    <2> QED
        BY <1>1, <2>2
<1>7. ASSUME g = 1 PROVE q[Len(q)] = w
    <2>1. Len(q) = Len(l) + 1 /\ Len(q) \in 1 .. Len(l) + Len(r) /\ Len(q) - Len(l) = 1
        BY <1>1, <1>2, <1>4, <1>7
    <2> QED
        BY <1>1, <1>2, <1>4, <1>7, <2>1
<1> QED
    BY <1>4, <1>5, <1>6, <1>7 DEF q, HandedOver

LEMMA TimedHolds ==
    ASSUME UInv
    PROVE  Timed
    BY UartTypes DEF UInv, Timed, SendInv

Taken == IF ByteRead THEN 1 ELSE 0
Given == IF ByteWritten THEN 1 ELSE 0

LEMMA PendingMoves ==
    ASSUME UInv, Moves, Uart!History
    PROVE  /\ pending' \in Seq(Uart!Byte) /\ Len(pending') = Len(pending) - Taken + Given
           /\ \A i \in 1 .. Len(pending) - Taken : pending'[i] = pending[i + Taken]
           /\ ByteWritten => Last' = writebuf'
           /\ ~ByteWritten /\ Len(pending') # 0 => Last' = Last
           /\ ByteRead => Len(pending) # 0
<1>1. /\ pending \in Seq(Uart!Byte) /\ Len(pending) \in Nat
      /\ Len(pending) = Unread + (IF reading THEN 1 ELSE 0) + (IF Queued THEN 1 ELSE 0)
    BY DEF UInv, PendingInv
<1>2. ByteRead => read_ready
    BY DEF ByteRead, UInv, UrgentInv
<1>3. ByteRead => Len(pending) # 0 /\ pending # << >>
    BY <1>1, <1>2 DEF Unread
<1>4. PICK w \in Uart!Byte : ByteWritten => w = writebuf'
    <2>1. ByteWritten => writebuf' \in Uart!Byte
        BY QueueMoves, TimedHolds
    <2>2. writebuf \in Uart!Byte
        BY DEF UInv, Uart!TypeOK
    <2> QED
        BY <2>1, <2>2, Zenon
<1>5. PICK d \in {0, 1}, g \in {0, 1} : d = Taken /\ g = Given
    BY DEF Taken, Given
<1>6. /\ d = 1 <=> ByteRead
      /\ g = 1 <=> ByteWritten
    BY <1>5 DEF Taken, Given
<1>7. PICK q : q = pending'
    OBVIOUS
<1>8. q = Handed(pending, d, g, w)
    <2>1. pending' = (IF ByteRead THEN Tail(pending) ELSE pending)
                        \o (IF ByteWritten THEN << writebuf' >> ELSE << >>)
        BY DEF Uart!History, Uart!Left, Uart!Written, ByteRead, ByteWritten
    <2> QED
        BY <1>4, <1>6, <1>7, <2>1, Zenon DEF Handed
<1>9. /\ q \in Seq(Uart!Byte) /\ Len(q) = Len(pending) - d + g
      /\ \A i \in 1 .. Len(pending) - d : q[i] = pending[i + d]
      /\ g = 1 => q[Len(q)] = w
    <2>1. pending \in Seq(Uart!Byte) /\ (d = 1 => pending # << >>)
        BY <1>1, <1>3, <1>6
    <2>2. HandedOver(Uart!Byte, pending, d, g, w, q)
        BY <1>8, <2>1, TakenAndGiven, Zenon
    <2> QED
        BY <2>2, Zenon DEF HandedOver
<1>10. ASSUME ~ByteWritten, Len(q) # 0 PROVE q[Len(q)] = pending[Len(pending)]
    <2>1. g = 0 /\ Len(q) = Len(pending) - d /\ Len(q) \in 1 .. Len(pending) - d
        BY <1>1, <1>6, <1>9, <1>10
    <2>2. q[Len(q)] = pending[Len(q) + d] /\ Len(q) + d = Len(pending)
        BY <1>1, <1>9, <2>1
    <2> QED
        BY <2>2
<1>11. ByteWritten => Last' = writebuf'
    BY <1>4, <1>6, <1>7, <1>9, Zenon DEF Last
<1>12. ~ByteWritten /\ Len(pending') # 0 => Last' = Last
    BY <1>7, <1>10, Zenon DEF Last
<1> QED
    BY <1>3, <1>5, <1>7, <1>9, <1>11, <1>12, Zenon

\* How many bytes are under way, and which of them is the last.
LEMMA PendingCounts ==
    ASSUME UInv, Moves, Uart!History
    PROVE  /\ Len(pending') = Unread' + (IF reading' THEN 1 ELSE 0) + (IF Queued' THEN 1 ELSE 0)
           /\ Len(pending') <= 2
           /\ Queued' => ~reading'
           /\ (Queued' \/ reading') /\ ~ByteWritten => Last' = Last
<1> USE TimedHolds
<1>1. /\ Len(pending) = Unread + (IF reading THEN 1 ELSE 0) + (IF Queued THEN 1 ELSE 0)
      /\ UrgentInv /\ reading \in BOOLEAN /\ read_ready \in BOOLEAN /\ (Queued => ~reading)
    BY OneByteAtATime DEF UInv, PendingInv, Uart!TypeOK
<1>2. /\ Queued' <=> ByteWritten \/ (Queued /\ ~ReceiverDetects)
      /\ ReceiverDetects => Queued /\ ~ByteWritten
      /\ ByteWritten => ~Queued
      /\ ReceiverCompletes => ~Queued
    BY QueueMoves
<1>3. /\ reading' <=> (reading \/ ReceiverDetects) /\ ~ReceiverCompletes
      /\ read_ready' <=> (read_ready \/ ReceiverCompletes) /\ ~ByteRead
      /\ ByteRead => read_ready
      /\ ReceiverCompletes => ~read_ready /\ ~ByteRead
    BY <1>1, ReaderStep
<1>4. ReceiverCompletes => reading
    BY DEF ReceiverCompletes
<1>5. Len(pending') = Len(pending) - Taken + Given
    BY PendingMoves
<1>6. Queued' => ~reading'
    <2>1. ASSUME ByteWritten PROVE Queued' => ~reading'
        <3>1. ASSUME reading' PROVE FALSE
            <4>1. ListenInv' /\ PhaseInv'
                BY TimingStep
            <4>2. SenderWaits /\ writing' = FALSE /\ do_write' = TRUE
                BY <2>1, QueueMoves DEF SenderWaits, ByteWritten
            <4>3. /\ readclkcnt' <= Half /\ readclkcnt' >= baudclocks - (2 * UartBits + 7) + Stage'
                BY <3>1, <4>1, <4>2 DEF PhaseInv
            <4>4. Stage' = 2
                BY <4>2 DEF Stage
            <4>5. readclkcnt' \in Nat
                <5>1. ReceiverMoves
                    BY <2>1 DEF Moves, SenderMoves, SenderWaits, SenderCounts, SenderRests,
                                SenderBegins, SenderShifts, SenderEnds, ByteWritten
                <5> QED
                    BY <5>1, UartConstants, TimedNumbers DEF ReceiverMoves, ReceiverListens,
                        ReceiverDetects, ReceiverCounts, ReceiverSamples, ReceiverCompletes
            <4> QED
                BY <4>3, <4>4, <4>5, UartConstants
        <3> QED
            BY <3>1
    <2> QED
        BY <1>1, <1>2, <1>3, <2>1
<1>7. Len(pending') = Unread' + (IF reading' THEN 1 ELSE 0) + (IF Queued' THEN 1 ELSE 0)
    BY <1>1, <1>2, <1>3, <1>4, <1>5 DEF Taken, Given, Unread
<1>8. Len(pending') <= 2
    BY <1>6, <1>7 DEF Unread
<1>9. (Queued' \/ reading') /\ ~ByteWritten => Last' = Last
    <2>1. Queued' \/ reading' => Len(pending') # 0
        BY <1>7 DEF Unread
    <2> QED
        BY <2>1, PendingMoves
<1> QED
    BY <1>6, <1>7, <1>8, <1>9

LEMMA SameBits ==
    ASSUME NEW D, NEW v \in [D -> {0, 1}], NEW w \in [D -> {0, 1}], \A j \in D : v[j] = w[j]
    PROVE  v = w
    OBVIOUS

LEMMA PendingStep ==
    ASSUME UInv, Moves, Uart!History
    PROVE  PendingInv'
<1>1. /\ pending \in Seq(Uart!Byte) /\ Len(pending) \in Nat
      /\ Len(pending) = Unread + (IF reading THEN 1 ELSE 0) + (IF Queued THEN 1 ELSE 0)
      /\ UrgentInv /\ (read_ready => pending[1] = readbuf)
    BY DEF UInv, PendingInv
<1>2. /\ read_ready' <=> (read_ready \/ ReceiverCompletes) /\ ~ByteRead
      /\ ReceiverCompletes => ~read_ready /\ ~ByteRead
      /\ ~ReceiverCompletes => readbuf' = readbuf
    BY <1>1, TimedHolds, ReaderStep
<1>3. /\ pending' \in Seq(Uart!Byte)
      /\ \A i \in 1 .. Len(pending) - Taken : pending'[i] = pending[i + Taken]
    BY PendingMoves
<1>4. ASSUME read_ready' PROVE pending'[1] = readbuf'
    <2>1. Taken = 0
        BY <1>2, <1>4 DEF Taken
    <2>2. ASSUME Len(pending) # 0 PROVE pending'[1] = pending[1]
        BY <1>1, <1>3, <2>1, <2>2
    <2>3. CASE ReceiverCompletes
        <3>1. reading /\ readbitcnt = UartBits + 1 /\ readbuf' = inputbuf
            BY <2>3 DEF ReceiverCompletes
        <3>2. Unread = 0 /\ Len(pending) # 0
            <4>1. Unread = 0
                BY <1>2, <2>3 DEF Unread
            <4>2. reading
                BY <3>1
            <4>3. Len(pending) = 0 + 1 + (IF Queued THEN 1 ELSE 0)
                BY <1>1, <4>1, <4>2, Zenon
            <4> QED
                BY <4>1, <4>3
        <3>3. inputbuf \in [1..UartBits -> {0, 1}] /\ pending[1] \in [1..UartBits -> {0, 1}]
            <4>1. 1 \in 1 .. Len(pending)
                BY <1>1, <3>2
            <4>2. pending[1] \in Uart!Byte
                BY <1>1, <4>1, ElementOfSeq
            <4> QED
                BY <4>2 DEF UInv, Uart!TypeOK, Uart!Byte
        <3>4. \A j \in 1 .. UartBits : inputbuf[j] = pending[1][j]
            <4>1. \A j \in 1 .. readbitcnt - 1 :
                     inputbuf[UartBits - (readbitcnt - 1) + j] = pending[Unread + 1][j]
                BY <3>1 DEF UInv, CollectInv
            <4>2. readbitcnt - 1 = UartBits /\ UartBits - (readbitcnt - 1) = 0 /\ Unread + 1 = 1
                BY <3>1, <3>2, UartConstants
            <4>3. \A j \in 1 .. UartBits : inputbuf[0 + j] = pending[1][j]
                BY <4>1, <4>2
            <4> QED
                BY <4>3, UartConstants
        <3>5. inputbuf = pending[1]
            BY <3>3, <3>4, SameBits, Zenon
        <3> QED
            BY <2>2, <3>1, <3>2, <3>5
    <2>4. CASE ~ReceiverCompletes
        <3>1. read_ready /\ readbuf' = readbuf
            BY <1>2, <1>4, <2>4
        <3>2. Len(pending) # 0
            BY <1>1, <3>1 DEF Unread
        <3> QED
            BY <1>1, <2>2, <3>1, <3>2
    <2> QED
        BY <2>3, <2>4
<1>5. Len(pending') = Unread' + (IF reading' THEN 1 ELSE 0) + (IF Queued' THEN 1 ELSE 0)
    BY PendingCounts
<1> QED
    BY <1>3, <1>4, <1>5 DEF PendingInv

LEMMA SendStep ==
    ASSUME UInv, Moves, Uart!History
    PROVE  SendInv'
<1> USE UartConstants, TimedHolds
<1>1. SendInv /\ writebuf \in Uart!Byte /\ writebitcnt \in Nat /\ writeclkcnt \in Nat
    BY TimedNumbers DEF UInv, Uart!TypeOK
<1>2. /\ Queued' <=> ByteWritten \/ (Queued /\ ~ReceiverDetects)
      /\ ByteWritten => ~Queued /\ SenderWaits
    BY QueueMoves
<1>3. /\ (Queued' \/ reading') /\ ~ByteWritten => Last' = Last
      /\ ByteWritten => Last' = writebuf'
    BY PendingCounts, PendingMoves
<1>4. ListenInv'
    BY TimingStep
<1>5. ASSUME writing', writebitcnt' # UartBits + 1 PROVE Last' = Last
    <2>1. ~ByteWritten
        BY <1>2, <1>5 DEF SenderWaits
    <2>2. Queued' \/ reading'
        <3>1. ~reading' => writebitcnt' = 0
            BY <1>4, <1>5 DEF ListenInv
        <3>2. do_write'
            <4>1. CASE SenderRests
                BY <1>5, <4>1, TimedNumbers DEF SenderRests
            <4>2. CASE SenderMoves
                BY <1>5, <4>2 DEF SenderMoves, SenderWaits, SenderBegins, SenderCounts,
                                  SenderShifts, SenderEnds
            <4> QED
                BY <4>1, <4>2 DEF Moves
        <3> QED
            BY <3>1, <3>2, <1>5 DEF Queued
    <2> QED
        BY <1>3, <2>1, <2>2
<1>6. Queued' => writebuf' = Last'
    <2>1. CASE ByteWritten
        BY <1>3, <2>1
    <2>2. CASE ~ByteWritten
        <3>1. Queued' => Queued /\ Last' = Last
            BY <1>2, <1>3, <2>2
        <3>2. ASSUME Queued PROVE writebuf' = writebuf
            <4>1. ~SenderShifts
                BY <3>2, SeenEarly, OneByteAtATime
            <4>2. ~SenderEnds
                BY <3>2 DEF SenderEnds, Queued
            <4>3. ~SenderWaits
                BY <3>2 DEF SenderWaits, Queued
            <4> QED
                BY <4>1, <4>2, <4>3 DEF Moves, SenderMoves, SenderBegins, SenderCounts, SenderRests
        <3> QED
            BY <1>1, <3>1, <3>2 DEF SendInv
    <2> QED
        BY <2>1, <2>2
<1>7. CASE SenderWaits \/ SenderEnds
    <2>1. ~writing'
        BY <1>7 DEF SenderWaits, SenderEnds
    <2> QED
        BY <1>6, <2>1 DEF SendInv
<1>8. CASE SenderBegins
    <2>1. /\ writing' = TRUE /\ O_tx' = 0 /\ writebitcnt' = 0 /\ writebuf' = writebuf
          /\ Queued
        BY <1>8 DEF SenderBegins, Queued
    <2>2. writebuf = Last /\ Last' = Last
        BY <1>1, <1>5, <2>1 DEF SendInv
    <2>3. \A i \in 1..UartBits : i > UartBits - writebitcnt' => writebuf'[i] = 1
        BY <2>1
    <2>4. ~(writebitcnt' \in 1..UartBits) /\ writebitcnt' # UartBits + 1
        BY <2>1
    <2>5. writebuf' = Last'
        BY <2>1, <2>2
    <2> QED
        BY <1>6, <2>1, <2>3, <2>4, <2>5 DEF SendInv
<1>9. CASE SenderCounts \/ SenderRests
    <2>1. /\ writing /\ writing' /\ O_tx' = O_tx /\ writebitcnt' = writebitcnt /\ writebuf' = writebuf
        BY <1>9 DEF SenderCounts, SenderRests
    <2>2. CASE writebitcnt # UartBits + 1
        <3>1. Last' = Last
            BY <1>5, <2>1, <2>2
        <3> QED
            BY <1>1, <1>6, <2>1, <2>2, <3>1, Zenon DEF SendInv
    <2>3. CASE writebitcnt = UartBits + 1
        <3>1. ~(writebitcnt' \in 1..UartBits) /\ writebitcnt' # 0
            BY <2>1, <2>3
        <3> QED
            BY <1>1, <1>6, <2>1, <3>1, Zenon DEF SendInv
    <2> QED
        BY <2>2, <2>3
<1>10. CASE SenderShifts
    <2>1. /\ writing /\ writing' = TRUE /\ writebitcnt <= UartBits
          /\ writebitcnt' = writebitcnt + 1
          /\ O_tx' = writebuf[1] /\ writebuf' = Append(Tail(writebuf), 1)
        BY <1>10 DEF SenderShifts
    <2>2. /\ \A i \in 1 .. UartBits - 1 : writebuf'[i] = writebuf[i + 1]
          /\ writebuf'[UartBits] = 1
        BY <1>1, <2>1, ShiftedUartByte
    <2>3. PICK k \in Nat : k = writebitcnt
        BY <1>1
    <2>4. PICK v \in Uart!Byte : v = writebuf
        BY <1>1
    <2>5. PICK w : w = writebuf'
        OBVIOUS
    <2>6. /\ \A i \in 1 .. UartBits - 1 : w[i] = v[i + 1]
          /\ w[UartBits] = 1
        BY <2>2, <2>4, <2>5, Zenon
    <2>7. \A i \in 1..UartBits : i > UartBits - k => v[i] = 1
        BY <1>1, <2>1, <2>3, <2>4, Zenon DEF SendInv
    <2>8. \A i \in 1..UartBits : i > UartBits - (k + 1) => w[i] = 1
        BY <2>6, <2>7
    <2>9. \A i \in 1..UartBits : i > UartBits - writebitcnt' => writebuf'[i] = 1
        BY <2>1, <2>3, <2>5, <2>8, Zenon
    <2>10. ASSUME k + 1 = UartBits + 1 PROVE O_tx' = 1
        <3>1. v[1] = 1
            BY <2>7, <2>10
        <3> QED
            BY <2>1, <2>4, <3>1
    <2>11. ASSUME k + 1 \in 1..UartBits
           PROVE  /\ O_tx' = Last'[k + 1]
                  /\ \A i \in 1 .. UartBits - (k + 1) : w[i] = Last'[k + 1 + i]
        <3>1. Last' = Last
            BY <1>5, <2>1, <2>3, <2>11
        <3>2. PICK l : l = Last
            OBVIOUS
        <3>3. \A i \in 1 .. UartBits - k : v[i] = l[k + i]
            <4>1. CASE k = 0
                <5>1. v = l
                    BY <1>1, <2>1, <2>3, <2>4, <3>2, <4>1 DEF SendInv
                <5> QED
                    BY <4>1, <5>1
            <4>2. CASE k \in 1..UartBits
                BY <1>1, <2>1, <2>3, <2>4, <3>2, <4>2, Zenon DEF SendInv
            <4> QED
                BY <2>11, <4>1, <4>2
        <3>4. v[1] = l[k + 1]
            BY <2>11, <3>3
        <3>5. \A i \in 1 .. UartBits - (k + 1) : w[i] = l[k + 1 + i]
            <4> TAKE i \in 1 .. UartBits - (k + 1)
            <4>1. i \in 1 .. UartBits - 1 /\ i + 1 \in 1 .. UartBits - k /\ k + (i + 1) = k + 1 + i
                BY <2>11
            <4>2. v[i + 1] = l[k + (i + 1)]
                BY <3>3, <4>1
            <4> QED
                BY <2>6, <4>1, <4>2
        <3> QED
            BY <2>1, <2>4, <3>1, <3>2, <3>4, <3>5, Zenon
    <2>12. writebitcnt' = k + 1 /\ k + 1 # 0
        BY <2>1, <2>3
    <2> QED
        BY <1>6, <2>1, <2>5, <2>9, <2>10, <2>11, <2>12, Zenon DEF SendInv
<1> QED
    BY <1>7, <1>8, <1>9, <1>10 DEF Moves, SenderMoves

\* A bit is taken while the sender holds it.
LEMMA TakenInItsBit ==
    ASSUME UInv, ReceiverSamples, readbitcnt # 0
    PROVE  /\ writing /\ writebitcnt = readbitcnt /\ readbitcnt \in 1..UartBits
           /\ O_tx = pending[Unread + 1][readbitcnt]
<1> USE UartConstants, TimedHolds
<1>1. reading /\ readclkcnt = Half /\ readbitcnt # UartBits + 1 /\ Cell = readbitcnt
    <2>1. reading /\ readclkcnt = Half /\ readbitcnt # UartBits + 1
        BY DEF ReceiverSamples
    <2> QED
        BY <2>1 DEF Cell
<1>2. readbitcnt \in 1..UartBits
    BY <1>1, TimedNumbers DEF Timed, PhaseInv
<1>3. writing
    BY <1>1 DEF Timed, PhaseInv
<1>4. writebitcnt = readbitcnt
    <2>1. PICK r \in 1..UartBits, b \in Nat, c \in Nat, d \in Int, rs \in Nat, ss \in Nat :
             /\ r = readbitcnt /\ b = writebitcnt /\ c = writeclkcnt /\ d = Drift
             /\ rs = ReceiverSlips /\ ss = SenderSlips
        BY <1>1, <1>2, <1>3, Cells, TimedNumbers
    <2>2. b \in r - 1 .. r + 1 /\ 1 - rs <= d /\ d <= 4 + r + ss /\ c <= baudclocks - 1
        <3>1. writebitcnt \in Cell - 1 .. Cell + 1 /\ 1 - ReceiverSlips <= Drift
              /\ Drift <= 4 + Cell + SenderSlips
            BY <1>1, <1>3, Cells
        <3> QED
            BY <1>1, <2>1, <3>1, TimedNumbers, Zenon
    <2>3. rs <= b + 1 /\ ss = (IF c = 0 THEN b ELSE b + 1)
        BY <2>1 DEF ReceiverSlips, SenderSlips
    <2>4. d = c - Half + (IF b = r THEN 0 ELSE IF b > r THEN baudclocks ELSE 0 - baudclocks)
        BY <1>1, <2>1 DEF Drift
    <2>5. ASSUME b = r - 1 PROVE FALSE
        BY <2>2, <2>3, <2>4, <2>5
    <2>6. ASSUME b = r + 1 PROVE FALSE
        BY <2>2, <2>3, <2>4, <2>6
    <2>7. b = r
        BY <2>2, <2>5, <2>6
    <2> QED
        BY <2>1, <2>7
<1>5. O_tx = Last[readbitcnt]
    BY <1>2, <1>3, <1>4 DEF UInv, SendInv
<1>6. Len(pending) = Unread + 1
    <2>1. Len(pending) = Unread + (IF reading THEN 1 ELSE 0) + (IF Queued THEN 1 ELSE 0)
        BY DEF UInv, PendingInv
    <2>2. ~Queued
        BY <1>1, OneByteAtATime
    <2> QED
        BY <1>1, <2>1, <2>2 DEF Unread
<1> QED
    BY <1>2, <1>3, <1>4, <1>5, <1>6 DEF Last

LEMMA CollectedBits ==
    ASSUME NEW n \in Nat \ {0}, NEW r \in 1..n, NEW v, NEW w, NEW p, NEW b,
           \A i \in 1 .. n - 1 : w[i] = v[i + 1], w[n] = b,
           \A j \in 1 .. r - 1 : v[n - (r - 1) + j] = p[j], b = p[r]
    PROVE  \A j \in 1 .. r : w[n - r + j] = p[j]
<1> TAKE j \in 1..r
<1>1. CASE j = r
    BY <1>1
<1>2. CASE j < r
    <2>1. PICK x \in 1 .. n - 1 : x = n - r + j /\ x + 1 = n - (r - 1) + j
        BY <1>2
    <2>2. w[x] = v[x + 1]
        BY <2>1
    <2>3. v[n - (r - 1) + j] = p[j]
        BY <1>2
    <2> QED
        BY <2>1, <2>2, <2>3
<1> QED
    BY <1>1, <1>2

LEMMA CollectStep ==
    ASSUME UInv, Moves, Uart!History
    PROVE  CollectInv'
<1> USE UartConstants, TimedHolds
<1> SUFFICES ASSUME reading'
             PROVE  \A j \in 1 .. readbitcnt' - 1 :
                       inputbuf'[UartBits - (readbitcnt' - 1) + j] = pending'[Unread' + 1][j]
    BY DEF CollectInv
<1>1. ~ReceiverListens /\ ~ReceiverCompletes
    BY DEF ReceiverListens, ReceiverCompletes
<1>2. CASE ReceiverDetects
    BY <1>2 DEF ReceiverDetects
<1>3. CASE ReceiverRests \/ ReceiverCounts \/ ReceiverSamples
    <2>1. reading
        BY <1>3 DEF ReceiverRests, ReceiverCounts, ReceiverSamples
    <2>2. \A j \in 1 .. readbitcnt - 1 :
             inputbuf[UartBits - (readbitcnt - 1) + j] = pending[Unread + 1][j]
        BY <2>1 DEF UInv, CollectInv
    <2>3. pending'[Unread' + 1] = pending[Unread + 1]
        <3>1. /\ read_ready' <=> read_ready /\ ~ByteRead
              /\ ByteRead => read_ready
            BY <1>1, ReaderStep DEF UInv
        <3>2. PICK u \in Nat, d \in {0, 1} : u = Unread' /\ d = Taken /\ u + d = Unread
            BY <3>1 DEF Unread, Taken
        <3>3. Len(pending) = Unread + (IF reading THEN 1 ELSE 0) + (IF Queued THEN 1 ELSE 0)
            BY DEF UInv, PendingInv
        <3>4. u + 1 \in 1 .. Len(pending) - d
            <4>1. Len(pending) = Unread + 1 + (IF Queued THEN 1 ELSE 0)
                BY <2>1, <3>3, Zenon
            <4>2. PICK n \in Nat, q \in {0, 1} :
                     n = Len(pending) /\ q = (IF Queued THEN 1 ELSE 0)
                BY DEF UInv, PendingInv
            <4>3. n = u + d + 1 + q
                BY <3>2, <4>1, <4>2, Zenon
            <4>4. u + 1 \in 1 .. n - d
                BY <4>3
            <4> QED
                BY <4>2, <4>4, Zenon
        <3>5. \A i \in 1 .. Len(pending) - d : pending'[i] = pending[i + d]
            BY <3>2, PendingMoves
        <3>6. pending'[u + 1] = pending[u + 1 + d] /\ u + 1 + d = Unread + 1
            BY <3>2, <3>4, <3>5
        <3> QED
            BY <3>2, <3>6, Zenon
    <2>4. CASE ReceiverRests \/ ReceiverCounts
        <3>1. readbitcnt' = readbitcnt /\ inputbuf' = inputbuf
            BY <2>4 DEF ReceiverRests, ReceiverCounts
        <3> QED
            BY <2>2, <2>3, <3>1, Zenon
    <2>5. CASE ReceiverSamples
        <3>1. /\ readbitcnt' = readbitcnt + 1 /\ inputbuf' = Append(Tail(inputbuf), O_tx)
            BY <2>5 DEF ReceiverSamples
        <3>2. CASE readbitcnt = 0
            BY <3>1, <3>2
        <3>3. CASE readbitcnt # 0
            <4>1. O_tx = pending[Unread + 1][readbitcnt] /\ readbitcnt \in 1..UartBits
                BY <2>5, <3>3, TakenInItsBit
            <4>8. PICK r \in 1..UartBits, v \in Uart!Byte : r = readbitcnt /\ v = inputbuf
                BY <4>1 DEF UInv, Uart!TypeOK
            <4>9. PICK w, p, b : w = inputbuf' /\ p = pending[Unread + 1] /\ b = O_tx
                OBVIOUS
            <4>2. /\ r = readbitcnt /\ v = inputbuf /\ w = inputbuf'
                  /\ p = pending[Unread + 1] /\ b = O_tx
                BY <4>8, <4>9
            <4>3. /\ \A i \in 1 .. UartBits - 1 : w[i] = v[i + 1]
                  /\ w[UartBits] = b
                <5>1. b \in {0, 1} /\ w = Append(Tail(v), b)
                    BY <3>1, <4>2, TimedNumbers
                <5> QED
                    BY <5>1, ShiftedUartByte
            <4>4. \A j \in 1 .. r - 1 : v[UartBits - (r - 1) + j] = p[j]
                BY <2>2, <4>2, Zenon
            <4>5. b = p[r]
                BY <4>1, <4>2, Zenon
            <4>6. \A j \in 1 .. r : w[UartBits - r + j] = p[j]
                <5> HIDE UartConstants
                <5>1. PICK n \in Nat \ {0} : n = UartBits
                    BY UartConstants
                <5>2. r \in 1..n /\ (\A i \in 1 .. n - 1 : w[i] = v[i + 1]) /\ w[n] = b
                    BY <4>3, <5>1, Zenon
                <5>3. (\A j \in 1 .. r - 1 : v[n - (r - 1) + j] = p[j]) /\ b = p[r]
                    BY <4>4, <4>5, <5>1, Zenon
                <5>4. \A j \in 1 .. r : w[n - r + j] = p[j]
                    BY <5>2, <5>3, CollectedBits
                <5> QED
                    BY <5>1, <5>4, Zenon
            <4>7. readbitcnt' - 1 = r
                BY <3>1, <4>2
            <4> QED
                BY <2>3, <4>2, <4>6, <4>7, Zenon
        <3> QED
            BY <3>2, <3>3
    <2> QED
        BY <1>3, <2>4, <2>5
<1> QED
    BY <1>1, <1>2, <1>3 DEF Moves, ReceiverMoves

-----------------------------------------------------------------------------
LEMMA UartInit == Uart!Init => UInv
<1> SUFFICES ASSUME Uart!Init PROVE UInv
    OBVIOUS
<1> USE UartConstants
<1>1. /\ writing = FALSE /\ writebuf \in Uart!Byte /\ writebitcnt = 0 /\ writeclkcnt = 0
      /\ do_write = FALSE /\ O_tx = 1 /\ sender = "poll"
      /\ glitch = 0 /\ slipped = FALSE
      /\ reading = FALSE /\ edgefilter = Uart!High /\ readbitcnt = 0 /\ readclkcnt = 0
      /\ inputbuf \in Uart!Byte /\ readbuf \in Uart!Byte /\ read_ready = FALSE
      /\ receiver = "poll" /\ pending = << >>
    BY DEF Uart!Init
<1>2. edgefilter \in [1..3 -> {0, 1}] /\ Lows = 0
    BY <1>1 DEF Uart!High, Lows
<1>10. /\ 0 \in 0 .. UartBits + 2 /\ 0 \in 0 .. baudclocks - 1 /\ 0 \in 0..baudclocks
       /\ 0 \in 0..MaxGlitch
    OBVIOUS
<1>3. SenderTyped
    BY <1>1, <1>10, Zenon DEF SenderTyped
<1>4. ReceiverTyped
    BY <1>1, <1>2, <1>10, Zenon DEF ReceiverTyped
<1>5. Len(pending) = 0 /\ pending \in Seq(Uart!Byte)
    BY <1>1
<1>6. Uart!TypeOK
    BY <1>3, <1>4, <1>5, UartTypes
<1>7. SenderInv /\ ListenInv /\ PhaseInv /\ UrgentInv
    BY <1>1, <1>2 DEF SenderInv, ListenInv, PhaseInv, UrgentInv
<1>8. PendingInv
    BY <1>1, <1>5 DEF PendingInv, Unread, Queued
<1>9. SendInv /\ CollectInv
    BY <1>1 DEF SendInv, CollectInv, Queued
<1> QED
    BY <1>6, <1>7, <1>8, <1>9 DEF UInv

LEMMA UartMoves ==
    ASSUME UInv, Uart!Next
    PROVE  Moves
<1>1. /\ SenderTyped /\ ReceiverTyped /\ SenderInv /\ SendInv /\ ListenInv
    BY UartTypes DEF UInv
<1>2. Uart!SenderClock => SenderMoves
    BY <1>1, SenderClocks
<1>3. Uart!ReceiverClock => ReceiverMoves /\ ReaderMoves
    BY <1>1, ReceiverClocks, ReaderClocks DEF ReaderMoves
<1>4. CASE Uart!BothClocks
    BY <1>2, <1>3, <1>4 DEF Uart!BothClocks, Moves
<1>5. CASE Uart!SenderAhead
    <2>1. writing /\ writeclkcnt = 0 /\ slipped' = TRUE /\ SenderMoves
        BY <1>2, <1>5 DEF Uart!SenderAhead, Uart!MaySlip
    <2>2. ReceiverRests
        BY <1>5 DEF Uart!SenderAhead, Uart!readVars, ReceiverRests
    <2> QED
        BY <2>1, <2>2 DEF Moves
<1>6. CASE Uart!ReceiverAhead
    <2>1. SenderRests
        BY <1>6 DEF Uart!ReceiverAhead, Uart!MaySlip, Uart!writeVars, SenderRests
    <2>2. ReceiverMoves /\ ReaderMoves
        BY <1>3, <1>6 DEF Uart!ReceiverAhead
    <2> QED
        BY <2>1, <2>2 DEF Moves
<1> QED
    BY <1>4, <1>5, <1>6 DEF Uart!Next

LEMMA UartTyped ==
    ASSUME UInv, Moves
    PROVE  SenderTyped' /\ ReceiverTyped' /\ SenderInv'
<1>1. /\ SenderTyped /\ ReceiverTyped /\ SenderInv /\ SendInv /\ ListenInv /\ PhaseInv
    BY UartTypes DEF UInv
<1>2. SenderTyped' /\ SenderInv'
    <2>1. CASE SenderMoves
        <3>1. slipped' \in BOOLEAN
            BY <2>1 DEF Moves, SenderRests
        <3> QED
            BY <1>1, <2>1, <3>1, SenderStays
    <2>2. CASE SenderRests
        BY <1>1, <2>2 DEF SenderRests, SenderTyped, SenderInv
    <2> QED
        BY <2>1, <2>2 DEF Moves
<1>3. ReceiverTyped'
    <2>1. CASE ReceiverMoves /\ ReaderMoves
        BY <1>1, <2>1, ReceiverStays DEF ReaderMoves
    <2>2. CASE ReceiverRests
        BY <1>1, <2>2 DEF ReceiverRests, ReceiverTyped
    <2> QED
        BY <2>1, <2>2 DEF Moves
<1> QED
    BY <1>2, <1>3

LEMMA UartNext == UInv /\ Uart!Next => UInv'
<1> SUFFICES ASSUME UInv, Uart!Next PROVE UInv'
    OBVIOUS
<1>1. Moves /\ Uart!History /\ Timed /\ UrgentInv
    BY UartMoves, TimedHolds DEF Uart!Next, UInv
<1>2. SenderTyped' /\ ReceiverTyped' /\ SenderInv'
    BY <1>1, UartTyped
<1>3. Len(pending') <= 2
    BY <1>1, PendingCounts
<1>4. Uart!TypeOK'
    BY <1>2, <1>3, UartTypes
<1>5. ListenInv' /\ PhaseInv'
    BY <1>1, TimingStep
<1>6. UrgentInv'
    BY <1>1, ReaderStep
<1>7. PendingInv' /\ SendInv' /\ CollectInv'
    BY <1>1, PendingStep, SendStep, CollectStep
<1> QED
    BY <1>2, <1>4, <1>5, <1>6, <1>7 DEF UInv

LEMMA UartStands ==
    /\ Init => (active = "uart" => UInv)
    /\ (active = "uart" => UInv) /\ [Next]_vars => (active = "uart" => UInv)'
<1>1. Init => (active = "uart" => UInv)
    BY UartInit DEF Init
<1>2. (active = "uart" => UInv) /\ [Next]_vars => (active = "uart" => UInv)'
    <2> SUFFICES ASSUME active = "uart" => UInv, [Next]_vars, active' = "uart"
                 PROVE  UInv'
        OBVIOUS
    <2>1. CASE UNCHANGED vars
        <3>1. UInv
            BY <2>1 DEF vars
        <3> QED
            BY <2>1, <3>1 DEF vars, uartVars, UInv, Uart!TypeOK, SenderInv, ListenInv, PhaseInv,
                UrgentInv, PendingInv, SendInv, CollectInv, Lows, Cell, Drift, ReceiverSlips,
                SenderSlips, Stage, Unread, Queued, Last
    <2>2. CASE Next
        BY <2>2, UartNext DEF Next
    <2> QED
        BY <2>1, <2>2
<1> QED
    BY <1>1, <1>2

LEMMA UartDelivers == UInv => Uart!TypeOK /\ Uart!ReceivesInOrder
<1> SUFFICES ASSUME UInv PROVE Uart!TypeOK /\ Uart!ReceivesInOrder
    OBVIOUS
<1>1. /\ pending \in Seq(Uart!Byte) /\ (read_ready => pending[1] = readbuf)
      /\ Len(pending) = Unread + (IF reading THEN 1 ELSE 0) + (IF Queued THEN 1 ELSE 0)
    BY DEF UInv, PendingInv
<1>2. ASSUME read_ready PROVE pending # << >> /\ Head(pending) = pending[1]
    <2>1. Len(pending) # 0
        BY <1>1, <1>2 DEF Unread
    <2> QED
        BY <1>1, <2>1
<1> QED
    BY <1>1, <1>2 DEF UInv, Uart!ReceivesInOrder

\* When bios_spi_transmit finds the port ready again, the selected device has
\* exactly the byte that was sent and the data register exactly the device's,
\* and both are at the beginning of their next byte: for bytes of every length,
\* whatever the phase of the divided clock and however late, within half a
\* period, the device puts out its bits.  And whenever the receiver of the serial
\* line reports a byte, it is the oldest one written by bios_uart_write and not
\* yet read: for bytes of every length and every rate that leaves the time
\* UartAssumption names, with clocks that slip in every bit, a receiver whose
\* bits are a clock too long, and glitches on the idle line.
THEOREM BytesAreExchanged == Spec => []BytesExchanged
<1>1. (active = "spi" => SpiInv) /\ (active = "uart" => UInv) => BytesExchanged
    BY SpiExchanges, UartDelivers DEF BytesExchanged
<1> QED
    BY <1>1, SpiStands, UartStands, PTL DEF Spec
=============================================================================
