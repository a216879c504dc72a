------------------------------- MODULE Millis -------------------------------
(***************************************************************************)
(* The time base of the program.  Utils::millis() folds CLOCK_REALTIME      *)
(* into 32 bits; the callers keep what it returned in an unsigned long and  *)
(* subtract, so the difference is taken modulo 2^32 on a 32-bit build and   *)
(* modulo 2^64 on a 64-bit one, where a difference across the wrap is not   *)
(* the time that passed but almost 2^64.                                    *)
(***************************************************************************)
EXTENDS Integers, TLAPS

CONSTANTS
    Wrap,       \* how many values millis() has: 2^32 in the code
    LongWrap    \* how many values an unsigned long has: Wrap, or more than it

ASSUME MillisAssumption ==
    /\ Wrap \in Nat \ {0}
    /\ LongWrap \in Nat
    /\ LongWrap >= Wrap

Instant == 0 .. Wrap - 1

\* What millis() returns when the system clock stands at t.
Millis(t) == t % Wrap

\* millis() - last in unsigned long arithmetic.
Elapsed(ms, last) == IF ms >= last THEN ms - last ELSE ms - last + LongWrap

-----------------------------------------------------------------------------
(***************************************************************************)
(* What the subtraction of two values of millis() says about the time that  *)
(* passed between them, for every width of millis() and of unsigned long.   *)
(***************************************************************************)

\* Millis() is a remainder of the division by Wrap: its range and a quotient.
LEMMA MillisDivision ==
    ASSUME NEW t \in Nat
    PROVE  /\ Millis(t) \in Instant
           /\ \E q \in Int : t = q * Wrap + Millis(t)
<1>1. Wrap \in Nat \ {0}
    BY MillisAssumption
<1>2. t % Wrap \in 0 .. Wrap - 1
    BY <1>1
<1>3. t = ((t \div Wrap) * Wrap) + (t % Wrap) /\ t \div Wrap \in Int
    BY <1>1
<1> QED
    BY <1>2, <1>3 DEF Millis, Instant

\* Multiples of Wrap: one that is below Wrap is at most 0, one above -Wrap at
\* least 0.
LEMMA Multiples ==
    ASSUME NEW k \in Int
    PROVE  /\ k * Wrap \in Int
           /\ k >= 1 => k * Wrap >= Wrap
           /\ k <= 0 => k * Wrap <= 0
           /\ k >= 2 => k * Wrap >= Wrap + Wrap
           /\ k <= -1 => k * Wrap <= -Wrap
<1>1. Wrap \in Nat \ {0}
    BY MillisAssumption
<1>2. k * Wrap \in Int
    BY <1>1
<1>3. k >= 1 => k * Wrap >= Wrap
    BY <1>1
<1>4. k <= 0 => k * Wrap <= 0
    BY <1>1
<1>5. k >= 2 => k * Wrap >= Wrap + Wrap
    BY <1>1
<1>6. k <= -1 => k * Wrap <= -Wrap
    BY <1>1
<1> QED
    BY <1>2, <1>3, <1>4, <1>5, <1>6

\* Below the wrap millis() is the time itself, and at it, 0.
LEMMA MillisWithinWrap ==
    ASSUME NEW t \in Nat
    PROVE  /\ t < Wrap => Millis(t) = t
           /\ t = Wrap => Millis(t) = 0
<1>1. Wrap \in Nat \ {0}
    BY MillisAssumption
<1>2. Millis(t) \in Int /\ 0 <= Millis(t) /\ Millis(t) < Wrap
    BY <1>1, MillisDivision DEF Instant
<1>3. PICK q \in Int : t = q * Wrap + Millis(t)
    BY MillisDivision
<1>4. /\ q * Wrap \in Int
      /\ q >= 1 => q * Wrap >= Wrap
      /\ q >= 2 => q * Wrap >= Wrap + Wrap
      /\ q <= 0 => q * Wrap <= 0
      /\ q <= -1 => q * Wrap <= -Wrap
    BY Multiples
<1>5. (q = 0 => q * Wrap = 0) /\ (q = 1 => q * Wrap = Wrap)
    BY <1>1
<1>6. CASE t < Wrap
    <2>1. q = 0
        BY <1>1, <1>2, <1>3, <1>4, <1>6
    <2> QED
        BY <1>1, <1>2, <1>3, <1>5, <1>6, <2>1
<1>7. CASE t = Wrap
    <2>1. q = 1
        BY <1>1, <1>2, <1>3, <1>4, <1>7
    <2> QED
        BY <1>1, <1>2, <1>3, <1>5, <1>7, <2>1
<1> QED
    BY <1>1, <1>6, <1>7

\* The time between two instants is a number of wraps and the difference of
\* what millis() showed.
LEMMA WrapsBetween ==
    ASSUME NEW t \in Nat, NEW s \in Nat
    PROVE  \E k \in Int : t - s = k * Wrap + (Millis(t) - Millis(s))
<1>1. Millis(t) \in Int /\ Millis(s) \in Int
    BY MillisDivision DEF Instant
<1>2. PICK q \in Int : t = q * Wrap + Millis(t)
    BY MillisDivision
<1>3. PICK r \in Int : s = r * Wrap + Millis(s)
    BY MillisDivision
<1> DEFINE qw == q * Wrap
           rw == r * Wrap
<1>4. /\ (q - r) \in Int /\ (q - r) * Wrap = qw - rw
      /\ qw \in Int /\ rw \in Int
    BY MillisAssumption
<1>5. t = qw + Millis(t) /\ s = rw + Millis(s)
    BY <1>2, <1>3
<1> HIDE DEF qw, rw
<1>6. t - s = (qw - rw) + (Millis(t) - Millis(s))
    BY <1>1, <1>4, <1>5
<1>7. t - s = (q - r) * Wrap + (Millis(t) - Millis(s))
    BY <1>4, <1>6
<1> QED
    BY <1>4, <1>7

\* Two instants less than one wrap apart: the subtraction never shows less time
\* than has passed (it shows far more on a 64-bit build, across the wrap).
LEMMA ElapsedCoversGap ==
    ASSUME NEW t \in Nat, NEW s \in Nat, t - s < Wrap
    PROVE  /\ Elapsed(Millis(t), Millis(s)) \in Nat
           /\ t - s <= Elapsed(Millis(t), Millis(s))
<1> DEFINE a == Millis(t)
           b == Millis(s)
<1>1. a \in Instant /\ b \in Instant
    BY MillisDivision
<1>4. Wrap \in Nat \ {0}
    BY MillisAssumption
<1>5. PICK k \in Int : t - s = k * Wrap + (a - b)
    BY WrapsBetween
<1> HIDE DEF a, b
<1>6. CASE a >= b
    <2>1. k <= 0
        BY <1>1, <1>4, <1>5, <1>6, Multiples DEF Instant
    <2> QED
        BY <2>1, <1>1, <1>4, <1>5, <1>6, Multiples DEF Elapsed, Instant, a, b
<1>7. CASE a < b
    <2>1. ~(k >= 2)
        BY <1>1, <1>4, <1>5, <1>7, Multiples DEF Instant
    <2>2. k <= 1
        BY <2>1, <1>4
    <2>3. k * Wrap <= Wrap
        BY <2>2, <1>4, Multiples
    <2> QED
        BY <2>3, <1>1, <1>4, <1>5, <1>7, Multiples, MillisAssumption
        DEF Elapsed, Instant, a, b
<1> QED
    BY <1>1, <1>6, <1>7 DEF Instant

\* Where unsigned long has the 32 bits of millis(), the subtraction never shows
\* more time than has passed.
LEMMA ElapsedWithinGap ==
    ASSUME NEW t \in Nat, NEW s \in Nat, s <= t, LongWrap = Wrap
    PROVE  Elapsed(Millis(t), Millis(s)) <= t - s
<1> DEFINE a == Millis(t)
           b == Millis(s)
<1>1. a \in Instant /\ b \in Instant
    BY MillisDivision
<1>4. Wrap \in Nat \ {0}
    BY MillisAssumption
<1>5. PICK k \in Int : t - s = k * Wrap + (a - b)
    BY WrapsBetween
<1> HIDE DEF a, b
<1>6. CASE a >= b
    <2>1. ~(k <= -1)
        BY <1>1, <1>4, <1>5, <1>6, Multiples DEF Instant
    <2>2. k * Wrap >= 0
        BY <2>1, <1>4, Multiples
    <2> QED
        BY <2>2, <1>1, <1>4, <1>5, <1>6, Multiples DEF Elapsed, Instant, a, b
<1>7. CASE a < b
    <2>1. ~(k <= 0)
        BY <1>1, <1>4, <1>5, <1>7, Multiples DEF Instant
    <2>2. k * Wrap >= Wrap
        BY <2>1, <1>4, Multiples
    <2> QED
        BY <2>2, <1>1, <1>4, <1>5, <1>7, Multiples DEF Elapsed, Instant, a, b
<1> QED
    BY <1>1, <1>6, <1>7 DEF Instant
=============================================================================
