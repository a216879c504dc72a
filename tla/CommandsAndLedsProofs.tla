------------------------ MODULE CommandsAndLedsProofs ------------------------
(***************************************************************************)
(* Theorems of the LEDs and of the command interface, which makes the main   *)
(* thread change them and shares no variable with them: first Leds, for      *)
(* every number of rounds of startupBlink() and every length of a frame and  *)
(* of a blink; then CommandInterface and Config, for every set of positions  *)
(* and of stored identities, and any number of commands, crashes, power      *)
(* losses and saves that fail.                                               *)
(***************************************************************************)
EXTENDS Leds, CommandInterface, SequenceTheorems, NaturalsInduction, WellFoundedInduction, TLAPS

-----------------------------------------------------------------------------
(***************************************************************************)
(* LEDs: lists of statements.                                               *)
(***************************************************************************)

USE LedsAssumption

\* Statements, by what they do: change a flag, write a LED or its variable,
\* test a flag, wait - or, with Active, anything but wait.
Animations == {x \in Statement : x.op = "animation"}
BlinkFlags(led) == {x \in Statement : x.op = "blinking" /\ x.led = led}
Flags == {x \in Statement : x.op \in {"animation", "blinking"}}
Pins(led) == {x \in Statement : x.op = "pin" /\ x.led = led}
Statuses(led) == {x \in Statement : x.op = "status" /\ x.led = led}
Tests == {x \in Statement : x.op = "ifblinking"}
Delays == {x \in Statement : x.op = "delay"}
Active == Statement \ Delays

\* What the crash report thread has no statement of.
Foreign ==
    {x \in Statement : ~(x.op = "delay" \/ (x.op \in {"status", "pin", "blinking"} /\ x.led = "red"))}

\* List q has no, or has a, statement of M.
Without(q, M) == \A i \in 1 .. Len(q) : q[i] \notin M
Meets(q, M) == \E i \in 1 .. Len(q) : q[i] \in M

\* The last statement of M in q writes the value on.
LastIs(q, M, on) ==
    \E i \in 1 .. Len(q) : /\ q[i] \in M /\ q[i].on = on
                           /\ \A j \in i + 1 .. Len(q) : q[j] \notin M

\* Once q is done, what the statements of M write is on, unless another thread
\* writes it; it is current now.
Settled(q, M, on, current) == LastIs(q, M, on) \/ (Without(q, M) /\ current = on)

\* Every LED and variable is still to be written, and no flag changed.
WritesAll(q) ==
    /\ Without(q, Flags)
    /\ \A led \in Led : Meets(q, Pins(led)) /\ Meets(q, Statuses(led))

\* There is a delay in q after which that holds.
Guarded(q) ==
    \E d \in 1 .. Len(q) :
        /\ q[d].op = "delay" /\ q[d].units > 0
        /\ \A j \in d + 1 .. Len(q) : q[j] \notin Flags
        /\ \A led \in Led : /\ \E j \in d + 1 .. Len(q) : q[j] \in Pins(led)
                            /\ \E j \in d + 1 .. Len(q) : q[j] \in Statuses(led)

\* A turn of the LED thread: no delay but at its end.
DelayLast(q) == \A i \in 1 .. Len(q) - 1 : q[i].op # "delay"

-----------------------------------------------------------------------------
(***************************************************************************)
(* What joining lists and doing a statement make of that.                   *)
(***************************************************************************)

\* Two lists joined, member by member.
LEMMA Joined ==
    ASSUME NEW S, NEW X \in Seq(S), NEW Y \in Seq(S)
    PROVE  /\ X \o Y \in Seq(S)
           /\ Len(X) \in Nat /\ Len(Y) \in Nat
           /\ Len(X \o Y) = Len(X) + Len(Y)
           /\ \A i \in 1 .. Len(X) : (X \o Y)[i] = X[i]
           /\ \A i \in 1 .. Len(Y) : (X \o Y)[Len(X) + i] = Y[i]
<1>1. /\ X \o Y \in Seq(S)
      /\ Len(X \o Y) = Len(X) + Len(Y)
      /\ \A i \in 1 .. Len(X) + Len(Y) :
             (X \o Y)[i] = IF i <= Len(X) THEN X[i] ELSE Y[i - Len(X)]
    BY ConcatProperties
<1>2. Len(X) \in Nat /\ Len(Y) \in Nat
    BY LenProperties
<1> QED
    BY <1>1, <1>2

\* A list without its first statement.
LEMMA Rest ==
    ASSUME NEW S, NEW q \in Seq(S), q # <<>>
    PROVE  /\ Tail(q) \in Seq(S)
           /\ Len(q) \in Nat /\ Len(q) >= 1
           /\ Len(Tail(q)) = Len(q) - 1
           /\ \A i \in 1 .. Len(Tail(q)) : Tail(q)[i] = q[i + 1]
           /\ Head(q) = q[1] /\ Head(q) \in S
<1>1. Len(q) \in Nat \ {0}
    BY EmptySeq
<1> QED
    BY <1>1, HeadTailProperties

\* The joined list has of M what the two have.
LEMMA JoinedWithout ==
    ASSUME NEW S, NEW X \in Seq(S), NEW Y \in Seq(S), NEW M
    PROVE  Without(X \o Y, M) <=> Without(X, M) /\ Without(Y, M)
<1> DEFINE C == X \o Y
           m == Len(X)
           n == Len(Y)
<1>1. /\ m \in Nat /\ n \in Nat /\ Len(C) = m + n
      /\ \A i \in 1 .. m : C[i] = X[i]
      /\ \A i \in 1 .. n : C[m + i] = Y[i]
    BY Joined
<1> HIDE DEF C, m, n
<1>2. ASSUME NEW i \in 1 .. Len(C), i > m PROVE \E k \in 1 .. n : i = m + k
    <2>1. i - m \in 1 .. n /\ i = m + (i - m)
        BY <1>1, <1>2
    <2> QED
        BY <2>1
<1>3. \A i \in 1 .. m : i \in 1 .. Len(C)
    BY <1>1
<1>4. \A i \in 1 .. n : m + i \in 1 .. Len(C)
    BY <1>1
<1>5. \A i \in 1 .. Len(C) : i \in 1 .. m \/ i > m
    BY <1>1
<1>6. (\A i \in 1 .. Len(C) : C[i] \notin M)
          <=> (\A i \in 1 .. m : X[i] \notin M) /\ (\A i \in 1 .. n : Y[i] \notin M)
    BY <1>1, <1>2, <1>3, <1>4, <1>5
<1> QED
    BY <1>6 DEF Without, C, m, n

\* The last statement of M is the second list's, if it has one.
LEMMA JoinedLast ==
    ASSUME NEW S, NEW X \in Seq(S), NEW Y \in Seq(S), NEW M, NEW on
    PROVE  /\ LastIs(Y, M, on) => LastIs(X \o Y, M, on)
           /\ LastIs(X, M, on) /\ Without(Y, M) => LastIs(X \o Y, M, on)
<1> DEFINE C == X \o Y
           m == Len(X)
           n == Len(Y)
<1>1. /\ m \in Nat /\ n \in Nat /\ Len(C) = m + n
      /\ \A i \in 1 .. m : C[i] = X[i]
      /\ \A i \in 1 .. n : C[m + i] = Y[i]
    BY Joined
<1> HIDE DEF C, m, n
<1>2. ASSUME NEW i \in 1 .. Len(C), i > m PROVE \E k \in 1 .. n : i = m + k
    <2>1. i - m \in 1 .. n /\ i = m + (i - m)
        BY <1>1, <1>2
    <2> QED
        BY <2>1
<1>3. ASSUME LastIs(Y, M, on) PROVE LastIs(C, M, on)
    <2>1. PICK i \in 1 .. n : /\ Y[i] \in M /\ Y[i].on = on
                              /\ \A j \in i + 1 .. n : Y[j] \notin M
        BY <1>3 DEF LastIs, n
    <2>2. m + i \in 1 .. Len(C) /\ C[m + i] = Y[i]
        BY <1>1
    <2>3. ASSUME NEW j \in m + i + 1 .. Len(C) PROVE C[j] \notin M
        <3>1. j \in 1 .. Len(C) /\ j > m
            BY <1>1
        <3>2. PICK k \in 1 .. n : j = m + k
            BY <1>2, <3>1
        <3>3. k \in i + 1 .. n
            BY <1>1, <3>2
        <3> QED
            BY <1>1, <2>1, <3>2, <3>3
    <2> QED
        BY <2>1, <2>2, <2>3 DEF LastIs
<1>4. ASSUME LastIs(X, M, on), Without(Y, M) PROVE LastIs(C, M, on)
    <2>1. PICK i \in 1 .. m : /\ X[i] \in M /\ X[i].on = on
                              /\ \A j \in i + 1 .. m : X[j] \notin M
        BY <1>4 DEF LastIs, m
    <2>2. i \in 1 .. Len(C) /\ C[i] = X[i]
        BY <1>1
    <2>3. ASSUME NEW j \in i + 1 .. Len(C) PROVE C[j] \notin M
        <3>1. CASE j <= m
            <4>1. j \in i + 1 .. m /\ j \in 1 .. m
                BY <1>1, <3>1
            <4> QED
                BY <1>1, <2>1, <4>1
        <3>2. CASE j > m
            <4>1. j \in 1 .. Len(C)
                BY <1>1
            <4>2. PICK k \in 1 .. n : j = m + k
                BY <1>2, <3>2, <4>1
            <4> QED
                BY <1>1, <1>4, <4>2 DEF Without, n
        <3> QED
            BY <1>1, <3>1, <3>2
    <2> QED
        BY <2>1, <2>2, <2>3 DEF LastIs
<1> QED
    BY <1>3, <1>4 DEF C

\* What follows a guarding delay may change no flag; what precedes it, may.
LEMMA JoinedGuarded ==
    ASSUME NEW S, NEW X \in Seq(S), NEW Y \in Seq(S)
    PROVE  /\ Guarded(Y) => Guarded(X \o Y)
           /\ Guarded(X) /\ Without(Y, Flags) => Guarded(X \o Y)
<1> DEFINE C == X \o Y
           m == Len(X)
           n == Len(Y)
<1>1. /\ m \in Nat /\ n \in Nat /\ Len(C) = m + n
      /\ \A i \in 1 .. m : C[i] = X[i]
      /\ \A i \in 1 .. n : C[m + i] = Y[i]
    BY Joined
<1> HIDE DEF C, m, n
<1>2. ASSUME NEW i \in 1 .. Len(C), i > m PROVE \E k \in 1 .. n : i = m + k
    <2>1. i - m \in 1 .. n /\ i = m + (i - m)
        BY <1>1, <1>2
    <2> QED
        BY <2>1
<1>3. ASSUME Guarded(Y) PROVE Guarded(C)
    <2>1. PICK d \in 1 .. n :
              /\ Y[d].op = "delay" /\ Y[d].units > 0
              /\ \A j \in d + 1 .. n : Y[j] \notin Flags
              /\ \A led \in Led : /\ \E j \in d + 1 .. n : Y[j] \in Pins(led)
                                  /\ \E j \in d + 1 .. n : Y[j] \in Statuses(led)
        BY <1>3 DEF Guarded, n
    <2>2. m + d \in 1 .. Len(C) /\ C[m + d] = Y[d]
        BY <1>1
    <2>3. ASSUME NEW j \in m + d + 1 .. Len(C) PROVE C[j] \notin Flags
        <3>1. j \in 1 .. Len(C) /\ j > m
            BY <1>1
        <3>2. PICK k \in 1 .. n : j = m + k
            BY <1>2, <3>1
        <3>3. k \in d + 1 .. n
            BY <1>1, <3>2
        <3> QED
            BY <1>1, <2>1, <3>2, <3>3
    <2>4. ASSUME NEW M, \E j \in d + 1 .. n : Y[j] \in M
          PROVE  \E j \in m + d + 1 .. Len(C) : C[j] \in M
        <3>1. PICK k \in d + 1 .. n : Y[k] \in M
            BY <2>4
        <3>2. k \in 1 .. n /\ m + k \in m + d + 1 .. Len(C)
            BY <1>1
        <3> QED
            BY <1>1, <3>1, <3>2
    <2>5. \A led \in Led : /\ \E j \in m + d + 1 .. Len(C) : C[j] \in Pins(led)
                           /\ \E j \in m + d + 1 .. Len(C) : C[j] \in Statuses(led)
        BY <2>1, <2>4
    <2> QED
        BY <2>1, <2>2, <2>3, <2>5 DEF Guarded
<1>4. ASSUME Guarded(X), Without(Y, Flags) PROVE Guarded(C)
    <2>1. PICK d \in 1 .. m :
              /\ X[d].op = "delay" /\ X[d].units > 0
              /\ \A j \in d + 1 .. m : X[j] \notin Flags
              /\ \A led \in Led : /\ \E j \in d + 1 .. m : X[j] \in Pins(led)
                                  /\ \E j \in d + 1 .. m : X[j] \in Statuses(led)
        BY <1>4 DEF Guarded, m
    <2>2. d \in 1 .. Len(C) /\ C[d] = X[d]
        BY <1>1
    <2>3. ASSUME NEW j \in d + 1 .. Len(C) PROVE C[j] \notin Flags
        <3>1. CASE j <= m
            <4>1. j \in d + 1 .. m /\ j \in 1 .. m
                BY <1>1, <3>1
            <4> QED
                BY <1>1, <2>1, <4>1
        <3>2. CASE j > m
            <4>1. j \in 1 .. Len(C)
                BY <1>1
            <4>2. PICK k \in 1 .. n : j = m + k
                BY <1>2, <3>2, <4>1
            <4> QED
                BY <1>1, <1>4, <4>2 DEF Without, n
        <3> QED
            BY <1>1, <3>1, <3>2
    <2>4. ASSUME NEW M, \E j \in d + 1 .. m : X[j] \in M
          PROVE  \E j \in d + 1 .. Len(C) : C[j] \in M
        <3>1. PICK k \in d + 1 .. m : X[k] \in M
            BY <2>4
        <3>2. k \in 1 .. m /\ k \in d + 1 .. Len(C)
            BY <1>1
        <3> QED
            BY <1>1, <3>1, <3>2
    <2>5. \A led \in Led : /\ \E j \in d + 1 .. Len(C) : C[j] \in Pins(led)
                           /\ \E j \in d + 1 .. Len(C) : C[j] \in Statuses(led)
        BY <2>1, <2>4
    <2> QED
        BY <2>1, <2>2, <2>3, <2>5 DEF Guarded
<1> QED
    BY <1>3, <1>4 DEF C

\* The first statement is of M, or one of the rest is.
LEMMA RestWithout ==
    ASSUME NEW S, NEW q \in Seq(S), q # <<>>, NEW M
    PROVE  Without(q, M) <=> Head(q) \notin M /\ Without(Tail(q), M)
<1> DEFINE T == Tail(q)
           n == Len(q)
<1>1. /\ n \in Nat /\ n >= 1 /\ Len(T) = n - 1
      /\ \A i \in 1 .. Len(T) : T[i] = q[i + 1]
      /\ Head(q) = q[1]
    BY Rest
<1> HIDE DEF T, n
<1>2. \A i \in 1 .. Len(T) : i + 1 \in 1 .. n
    BY <1>1
<1>3. \A i \in 1 .. n : i # 1 => i - 1 \in 1 .. Len(T) /\ T[i - 1] = q[i]
    BY <1>1
<1>4. 1 \in 1 .. n
    BY <1>1
<1>5. (\A i \in 1 .. n : q[i] \notin M)
          <=> q[1] \notin M /\ (\A i \in 1 .. Len(T) : T[i] \notin M)
    BY <1>1, <1>2, <1>3, <1>4
<1> QED
    BY <1>1, <1>5 DEF Without, T, n

\* The last statement of M stays so, or was the first one.
LEMMA RestSettled ==
    ASSUME NEW S, NEW q \in Seq(S), q # <<>>, NEW M, NEW on
    PROVE  LastIs(q, M, on) =>
               \/ LastIs(Tail(q), M, on)
               \/ Head(q) \in M /\ Head(q).on = on /\ Without(Tail(q), M)
<1> DEFINE T == Tail(q)
           n == Len(q)
<1>1. /\ n \in Nat /\ n >= 1 /\ Len(T) = n - 1
      /\ \A i \in 1 .. Len(T) : T[i] = q[i + 1]
      /\ Head(q) = q[1]
    BY Rest
<1> HIDE DEF T, n
<1> SUFFICES ASSUME LastIs(q, M, on)
             PROVE  \/ LastIs(T, M, on)
                    \/ Head(q) \in M /\ Head(q).on = on /\ Without(T, M)
    BY DEF T
<1>2. PICK i \in 1 .. n : /\ q[i] \in M /\ q[i].on = on
                          /\ \A j \in i + 1 .. n : q[j] \notin M
    BY DEF LastIs, n
<1>3. CASE i = 1
    <2>1. \A j \in 1 .. Len(T) : j + 1 \in i + 1 .. n
        BY <1>1, <1>3
    <2> QED
        BY <1>1, <1>2, <1>3, <2>1 DEF Without
<1>4. CASE i # 1
    <2>1. i - 1 \in 1 .. Len(T) /\ T[i - 1] = q[i]
        BY <1>1, <1>4
    <2>2. ASSUME NEW j \in (i - 1) + 1 .. Len(T) PROVE T[j] \notin M
        <3>1. j \in 1 .. Len(T) /\ j + 1 \in i + 1 .. n
            BY <1>1
        <3> QED
            BY <1>1, <1>2, <3>1
    <2>3. LastIs(T, M, on)
        BY <1>2, <2>1, <2>2 DEF LastIs
    <2> QED
        BY <2>3
<1> QED
    BY <1>3, <1>4

\* The delay is the next statement or not.
LEMMA RestGuarded ==
    ASSUME NEW S, NEW q \in Seq(S), q # <<>>, Guarded(q)
    PROVE  \/ Guarded(Tail(q))
           \/ Head(q).op = "delay" /\ Head(q).units > 0 /\ WritesAll(Tail(q))
<1> DEFINE T == Tail(q)
           n == Len(q)
<1>1. /\ n \in Nat /\ n >= 1 /\ Len(T) = n - 1
      /\ \A i \in 1 .. Len(T) : T[i] = q[i + 1]
      /\ Head(q) = q[1]
    BY Rest
<1> HIDE DEF T, n
<1>2. PICK d \in 1 .. n :
          /\ q[d].op = "delay" /\ q[d].units > 0
          /\ \A j \in d + 1 .. n : q[j] \notin Flags
          /\ \A led \in Led : /\ \E j \in d + 1 .. n : q[j] \in Pins(led)
                              /\ \E j \in d + 1 .. n : q[j] \in Statuses(led)
    BY DEF Guarded, n
<1>3. \A j \in (d - 1) + 1 .. Len(T) : T[j] \notin Flags
    <2>1. ASSUME NEW j \in (d - 1) + 1 .. Len(T) PROVE T[j] \notin Flags
        <3>1. j \in 1 .. Len(T) /\ j + 1 \in d + 1 .. n
            BY <1>1
        <3> QED
            BY <1>1, <1>2, <3>1
    <2> QED
        BY <2>1
<1>4. ASSUME NEW M, \E j \in d + 1 .. n : q[j] \in M
      PROVE  \E j \in (d - 1) + 1 .. Len(T) : T[j] \in M
    <2>1. PICK k \in d + 1 .. n : q[k] \in M
        BY <1>4
    <2>2. k - 1 \in (d - 1) + 1 .. Len(T) /\ k - 1 \in 1 .. Len(T) /\ (k - 1) + 1 = k
        BY <1>1
    <2>3. T[k - 1] = q[k]
        BY <1>1, <2>2
    <2> QED
        BY <2>1, <2>2, <2>3
<1>5. \A led \in Led : /\ \E j \in (d - 1) + 1 .. Len(T) : T[j] \in Pins(led)
                       /\ \E j \in (d - 1) + 1 .. Len(T) : T[j] \in Statuses(led)
    BY <1>2, <1>4
<1>6. CASE d = 1
    <2>1. (d - 1) + 1 = 1
        BY <1>6
    <2>2. WritesAll(T)
        BY <1>3, <1>5, <2>1 DEF WritesAll, Without, Meets
    <2> QED
        BY <1>1, <1>2, <1>6, <2>2 DEF T
<1>7. CASE d # 1
    <2>1. d - 1 \in 1 .. Len(T) /\ (d - 1) + 1 = d
        BY <1>1, <1>7
    <2>2. T[d - 1] = q[d]
        BY <1>1, <2>1
    <2>3. Guarded(T)
        BY <1>2, <1>3, <1>5, <2>1, <2>2 DEF Guarded
    <2> QED
        BY <2>3 DEF T
<1> QED
    BY <1>6, <1>7

\* A list that writes everything, now or after a delay, settles it whatever the
\* LED thread does until then.
LEMMA SettledAnyway ==
    ASSUME NEW q, Guarded(q) \/ WritesAll(q), NEW led \in Led, NEW on, NEW current, NEW other,
           Len(q) \in Nat
    PROVE  /\ Settled(q, Pins(led), on, current) => Settled(q, Pins(led), on, other)
           /\ Settled(q, Statuses(led), on, current) => Settled(q, Statuses(led), on, other)
<1>1. \E i \in 1 .. Len(q) : q[i] \in Pins(led)
    BY DEF Guarded, WritesAll, Meets
<1>2. \E i \in 1 .. Len(q) : q[i] \in Statuses(led)
    BY DEF Guarded, WritesAll, Meets
<1> QED
    BY <1>1, <1>2 DEF Settled, Without

-----------------------------------------------------------------------------
(***************************************************************************)
(* What the operations of LED are made of.                                  *)
(***************************************************************************)

\* No statement of M is no statement of a part of M.
LEMMA Narrower ==
    ASSUME NEW q, NEW M, NEW N, N \subseteq M, Without(q, M)
    PROVE  Without(q, N)
BY DEF Without

\* Which kinds of statements are among which.
LEMMA Kinds ==
    /\ Animations \subseteq Flags
    /\ \A led \in Led : BlinkFlags(led) \subseteq Flags
    /\ Flags \subseteq Active /\ Tests \subseteq Active
    /\ \A led \in Led : Pins(led) \subseteq Active /\ Statuses(led) \subseteq Active
BY DEF Animations, BlinkFlags, Flags, Active, Delays, Tests, Pins, Statuses

\* An empty list.
LEMMA NoneIsWithout ==
    ASSUME NEW M
    PROVE  Without(<<>>, M) /\ <<>> \in Seq(Statement)
BY DEF Without

\* set(): one LED and its variable, nothing else.
LEMMA SetIs ==
    ASSUME NEW led \in Led, NEW on \in BOOLEAN
    PROVE  /\ Set(led, on) \in Seq(Statement)
           /\ Without(Set(led, on), Flags)
           /\ Without(Set(led, on), Tests)
           /\ Without(Set(led, on), Delays)
           /\ LastIs(Set(led, on), Pins(led), on)
           /\ LastIs(Set(led, on), Statuses(led), on)
           /\ \A other \in Led \ {led} : Without(Set(led, on), Pins(other) \cup Statuses(other))
<1> DEFINE a == [op |-> "status", led |-> led, on |-> on]
           b == [op |-> "pin", led |-> led, on |-> on]
<1>1. /\ a \in Statement /\ a.op = "status" /\ a.led = led /\ a.on = on
      /\ b \in Statement /\ b.op = "pin" /\ b.led = led /\ b.on = on
    BY DEF Statement
<1>2. /\ <<a, b>> \in Seq(Statement) /\ Len(<<a, b>>) = 2
      /\ <<a, b>>[1] = a /\ <<a, b>>[2] = b
    BY <1>1
<1>3. Set(led, on) = <<a, b>>
    BY DEF Set
<1> HIDE DEF a, b
<1> DEFINE q == Set(led, on)
<1>4. /\ q \in Seq(Statement) /\ Len(q) = 2 /\ q[1] = a /\ q[2] = b
    BY <1>2, <1>3
<1> HIDE DEF q
<1>5. \A i \in 1 .. Len(q) : q[i] = a \/ q[i] = b
    BY <1>4
<1>6. Without(q, Flags) /\ Without(q, Tests) /\ Without(q, Delays)
    BY <1>1, <1>5 DEF Without, Flags, Tests, Delays
<1>7. LastIs(q, Pins(led), on)
    <2>1. 2 \in 1 .. Len(q) /\ q[2] \in Pins(led) /\ q[2].on = on
        BY <1>1, <1>4 DEF Pins
    <2>2. \A j \in 2 + 1 .. Len(q) : q[j] \notin Pins(led)
        BY <1>4
    <2> QED
        BY <2>1, <2>2 DEF LastIs
<1>8. LastIs(q, Statuses(led), on)
    <2>1. 1 \in 1 .. Len(q) /\ q[1] \in Statuses(led) /\ q[1].on = on
        BY <1>1, <1>4 DEF Statuses
    <2>2. \A j \in 1 + 1 .. Len(q) : q[j] = b
        BY <1>4
    <2>3. b \notin Statuses(led)
        BY <1>1 DEF Statuses
    <2> QED
        BY <2>1, <2>2, <2>3 DEF LastIs
<1>9. \A other \in Led \ {led} : Without(q, Pins(other) \cup Statuses(other))
    BY <1>1, <1>5 DEF Without, Pins, Statuses
<1> QED
    BY <1>4, <1>6, <1>7, <1>8, <1>9 DEF q

\* A delay changes nothing.
LEMMA DelayIs ==
    ASSUME NEW units \in Nat
    PROVE  /\ Delay(units) \in Seq(Statement)
           /\ Without(Delay(units), Active)
           /\ Len(Delay(units)) = 1
           /\ Delay(units)[1].op = "delay" /\ Delay(units)[1].units = units
<1> DEFINE a == [op |-> "delay", units |-> units]
<1>1. a \in Statement /\ a.op = "delay" /\ a.units = units
    BY DEF Statement
<1>2. <<a>> \in Seq(Statement) /\ Len(<<a>>) = 1 /\ <<a>>[1] = a
    BY <1>1
<1>3. Delay(units) = <<a>>
    BY DEF Delay
<1> QED
    BY <1>1, <1>2, <1>3 DEF Without, Active, Delays

\* One statement that is not a delay.
LEMMA OneIs ==
    ASSUME NEW a \in Statement
    PROVE  /\ <<a>> \in Seq(Statement)
           /\ \A M : a \notin M => Without(<<a>>, M)
           /\ \A M : a \in M => LastIs(<<a>>, M, a.on)
<1>1. <<a>> \in Seq(Statement) /\ Len(<<a>>) = 1 /\ <<a>>[1] = a
    OBVIOUS
<1>2. 1 \in 1 .. Len(<<a>>) /\ \A j \in 1 + 1 .. Len(<<a>>) : FALSE
    BY <1>1
<1>3. \A M : a \in M => LastIs(<<a>>, M, a.on)
    BY <1>1, <1>2 DEF LastIs
<1> QED
    BY <1>1, <1>3 DEF Without

\* The flag of the animation is not one of blinking.
LEMMA AnimationIs ==
    ASSUME NEW on \in BOOLEAN
    PROVE  LET a == [op |-> "animation", on |-> on]
           IN  /\ a \in Animations /\ a.on = on
               /\ a \notin Tests
               /\ \A led \in Led : a \notin BlinkFlags(led)
BY DEF Statement, Animations, Tests, BlinkFlags

\* The flag of one LED's blinking is no other's.
LEMMA BlinkingIs ==
    ASSUME NEW led \in Led, NEW on \in BOOLEAN
    PROVE  LET a == [op |-> "blinking", led |-> led, on |-> on]
           IN  /\ a \in BlinkFlags(led) /\ a.on = on
               /\ a \notin Tests
               /\ a \notin Animations
               /\ \A other \in Led \ {led} : a \notin BlinkFlags(other)
BY DEF Statement, Animations, Tests, BlinkFlags

\* A test writes nothing itself.
LEMMA IfBlinkingIs ==
    ASSUME NEW led \in Led, NEW on \in BOOLEAN
    PROVE  /\ IfBlinking(led, on) \in Seq(Statement)
           /\ Without(IfBlinking(led, on), Flags)
           /\ Without(IfBlinking(led, on), Delays)
           /\ \A other \in Led : Without(IfBlinking(led, on), Pins(other) \cup Statuses(other))
<1> DEFINE a == [op |-> "ifblinking", led |-> led, on |-> on]
<1>1. a \in Statement /\ a.op = "ifblinking"
    BY DEF Statement
<1>2. a \notin Flags /\ a \notin Delays /\ \A other \in Led : a \notin Pins(other) \cup Statuses(other)
    BY <1>1 DEF Flags, Delays, Pins, Statuses
<1>3. IfBlinking(led, on) = <<a>>
    BY DEF IfBlinking
<1> HIDE DEF a
<1> QED
    BY <1>1, <1>2, <1>3, OneIs

\* set() of the three LEDs.
LEMMA SetAllIs ==
    ASSUME NEW green \in BOOLEAN, NEW red \in BOOLEAN, NEW yellow \in BOOLEAN
    PROVE  LET q == SetAll(green, red, yellow)
           IN  /\ q \in Seq(Statement)
               /\ Without(q, Flags) /\ Without(q, Tests) /\ Without(q, Delays)
               /\ LastIs(q, Pins("green"), green) /\ LastIs(q, Statuses("green"), green)
               /\ LastIs(q, Pins("red"), red) /\ LastIs(q, Statuses("red"), red)
               /\ LastIs(q, Pins("yellow"), yellow) /\ LastIs(q, Statuses("yellow"), yellow)
<1> DEFINE G == Set("green", green)
           R == Set("red", red)
           Y == Set("yellow", yellow)
<1>1. "green" \in Led /\ "red" \in Led /\ "yellow" \in Led
    BY DEF Led
<1>2. /\ G \in Seq(Statement)
      /\ Without(G, Flags) /\ Without(G, Tests) /\ Without(G, Delays)
      /\ LastIs(G, Pins("green"), green) /\ LastIs(G, Statuses("green"), green)
    BY <1>1, SetIs
<1>3. /\ R \in Seq(Statement)
      /\ Without(R, Flags) /\ Without(R, Tests) /\ Without(R, Delays)
      /\ LastIs(R, Pins("red"), red) /\ LastIs(R, Statuses("red"), red)
      /\ Without(R, Pins("green") \cup Statuses("green"))
    BY <1>1, SetIs
<1>4. /\ Y \in Seq(Statement)
      /\ Without(Y, Flags) /\ Without(Y, Tests) /\ Without(Y, Delays)
      /\ LastIs(Y, Pins("yellow"), yellow) /\ LastIs(Y, Statuses("yellow"), yellow)
      /\ Without(Y, Pins("green") \cup Statuses("green"))
      /\ Without(Y, Pins("red") \cup Statuses("red"))
    BY <1>1, SetIs
<1> HIDE DEF G, R, Y
<1>5. /\ Without(R, Pins("green")) /\ Without(R, Statuses("green"))
      /\ Without(Y, Pins("green")) /\ Without(Y, Statuses("green"))
      /\ Without(Y, Pins("red")) /\ Without(Y, Statuses("red"))
    BY <1>3, <1>4 DEF Without
<1>6. /\ G \o R \in Seq(Statement)
      /\ Without(G \o R, Flags) /\ Without(G \o R, Tests) /\ Without(G \o R, Delays)
      /\ LastIs(G \o R, Pins("green"), green) /\ LastIs(G \o R, Statuses("green"), green)
      /\ LastIs(G \o R, Pins("red"), red) /\ LastIs(G \o R, Statuses("red"), red)
    BY <1>2, <1>3, <1>5, Joined, JoinedWithout, JoinedLast
<1> DEFINE Q == G \o R
<1> HIDE DEF Q
<1>7. /\ Q \o Y \in Seq(Statement)
      /\ Without(Q \o Y, Flags) /\ Without(Q \o Y, Tests) /\ Without(Q \o Y, Delays)
      /\ LastIs(Q \o Y, Pins("green"), green) /\ LastIs(Q \o Y, Statuses("green"), green)
      /\ LastIs(Q \o Y, Pins("red"), red) /\ LastIs(Q \o Y, Statuses("red"), red)
      /\ LastIs(Q \o Y, Pins("yellow"), yellow) /\ LastIs(Q \o Y, Statuses("yellow"), yellow)
    <2>1. /\ Q \in Seq(Statement)
          /\ Without(Q, Flags) /\ Without(Q, Tests) /\ Without(Q, Delays)
          /\ LastIs(Q, Pins("green"), green) /\ LastIs(Q, Statuses("green"), green)
          /\ LastIs(Q, Pins("red"), red) /\ LastIs(Q, Statuses("red"), red)
        BY <1>6 DEF Q
    <2> QED
        BY <2>1, <1>4, <1>5, Joined, JoinedWithout, JoinedLast
<1>8. SetAll(green, red, yellow) = Q \o Y
    BY DEF SetAll, Q, G, R, Y
<1> QED
    BY <1>7, <1>8

\* A delay, then everything is written.
LEMMA DelayGuards ==
    ASSUME NEW X \in Seq(Statement), NEW Y \in Seq(Statement), WritesAll(Y)
    PROVE  Guarded((X \o Delay(1)) \o Y)
<1> DEFINE P == X \o Delay(1)
           C == P \o Y
           m == Len(P)
           n == Len(Y)
<1>1. /\ P \in Seq(Statement) /\ m = Len(X) + 1 /\ Len(X) \in Nat
      /\ P[m].op = "delay" /\ P[m].units = 1
    BY Joined, DelayIs
<1> HIDE DEF P, m
<1>2. /\ n \in Nat /\ Len(C) = m + n
      /\ \A i \in 1 .. m : C[i] = P[i]
      /\ \A i \in 1 .. n : C[m + i] = Y[i]
    <2>1. P \in Seq(Statement)
        BY <1>1
    <2>2. /\ Len(Y) \in Nat /\ Len(P \o Y) = Len(P) + Len(Y)
          /\ \A i \in 1 .. Len(P) : (P \o Y)[i] = P[i]
          /\ \A i \in 1 .. Len(Y) : (P \o Y)[Len(P) + i] = Y[i]
        BY ONLY <2>1, Y \in Seq(Statement), Joined
    <2> QED
        BY ONLY <2>2 DEF m, n, C
<1> HIDE DEF C, n
<1>3. m \in 1 .. Len(C) /\ C[m].op = "delay" /\ C[m].units > 0
    BY <1>1, <1>2
<1>4. ASSUME NEW j \in m + 1 .. Len(C) PROVE C[j] \notin Flags
    <2>1. j - m \in 1 .. n /\ m + (j - m) = j
        BY <1>1, <1>2
    <2>2. C[j] = Y[j - m]
        BY <1>2, <2>1
    <2> QED
        BY <2>1, <2>2 DEF WritesAll, Without, n
<1>5. ASSUME NEW M, Meets(Y, M)
      PROVE  \E j \in m + 1 .. Len(C) : C[j] \in M
    <2>1. PICK k \in 1 .. n : Y[k] \in M
        BY <1>5 DEF Meets, n
    <2>2. m + k \in m + 1 .. Len(C)
        BY <1>1, <1>2
    <2> QED
        BY <1>2, <2>1, <2>2
<1>6. \A led \in Led : /\ \E j \in m + 1 .. Len(C) : C[j] \in Pins(led)
                       /\ \E j \in m + 1 .. Len(C) : C[j] \in Statuses(led)
    BY <1>5 DEF WritesAll
<1>7. Guarded(C)
    BY <1>3, <1>4, <1>6 DEF Guarded
<1> QED
    BY <1>7 DEF C, P

-----------------------------------------------------------------------------
(***************************************************************************)
(* startupBlink().                                                          *)
(***************************************************************************)

\* Nothing but writes, and whoever has a list of them writes every LED.
LEMMA LastIsMeets ==
    ASSUME NEW q, NEW M, NEW on, LastIs(q, M, on)
    PROVE  Meets(q, M)
BY DEF LastIs, Meets

Round == SetAll(TRUE, TRUE, TRUE) \o Delay(1) \o SetAll(FALSE, FALSE, FALSE) \o Delay(1)

\* One round of startupBlink().
LEMMA RoundIs ==
    /\ Round \in Seq(Statement)
    /\ Without(Round, Flags) /\ Without(Round, Tests)
    /\ Guarded(Round)
    /\ \A led \in Led : LastIs(Round, Pins(led), FALSE) /\ LastIs(Round, Statuses(led), FALSE)
<1> DEFINE A == SetAll(TRUE, TRUE, TRUE)
           B == SetAll(FALSE, FALSE, FALSE)
           D == Delay(1)
<1>1. /\ A \in Seq(Statement) /\ Without(A, Flags) /\ Without(A, Tests)
    BY SetAllIs
<1>2. /\ B \in Seq(Statement) /\ Without(B, Flags) /\ Without(B, Tests)
      /\ \A led \in Led : LastIs(B, Pins(led), FALSE) /\ LastIs(B, Statuses(led), FALSE)
    BY SetAllIs DEF Led
<1>3. /\ D \in Seq(Statement) /\ Without(D, Flags) /\ Without(D, Tests)
      /\ \A led \in Led : Without(D, Pins(led)) /\ Without(D, Statuses(led))
    <2>1. D \in Seq(Statement) /\ Without(D, Active)
        BY DelayIs
    <2> HIDE DEF D
    <2> QED
        BY <2>1, Kinds, Narrower
<1>4. WritesAll(B)
    BY <1>2, LastIsMeets DEF WritesAll
<1> HIDE DEF A, B
<1>5. Guarded((A \o D) \o B)
    BY <1>1, <1>2, <1>4, DelayGuards
<1> HIDE DEF D
<1> DEFINE P == A \o D
<1>6. P \in Seq(Statement) /\ Without(P, Flags) /\ Without(P, Tests)
    BY <1>1, <1>3, Joined, JoinedWithout
<1> HIDE DEF P
<1> DEFINE Q == P \o B
<1>7. /\ Q \in Seq(Statement) /\ Without(Q, Flags) /\ Without(Q, Tests)
      /\ \A led \in Led : LastIs(Q, Pins(led), FALSE) /\ LastIs(Q, Statuses(led), FALSE)
    BY <1>2, <1>6, Joined, JoinedWithout, JoinedLast
<1>8. Guarded(Q)
    BY <1>5 DEF P
<1> HIDE DEF Q
<1>9. /\ Q \o D \in Seq(Statement) /\ Without(Q \o D, Flags) /\ Without(Q \o D, Tests)
      /\ Guarded(Q \o D)
      /\ \A led \in Led : LastIs(Q \o D, Pins(led), FALSE) /\ LastIs(Q \o D, Statuses(led), FALSE)
    BY <1>3, <1>7, <1>8, Joined, JoinedWithout, JoinedLast, JoinedGuarded
<1> QED
    BY <1>9 DEF Round, Q, P, A, B, D

\* Induction, by the least number that is not in the set.
LEMMA NatSetInduction ==
    ASSUME NEW S, 0 \in S, \A n \in Nat : n \in S => n + 1 \in S
    PROVE  \A n \in Nat : n \in S
<1> SUFFICES ASSUME NEW b \in Nat, b \notin S PROVE FALSE
    OBVIOUS
<1> DEFINE T == Nat \ S
<1>1. T \subseteq Nat /\ T # {}
    OBVIOUS
<1> HIDE DEF T
<1>2. PICK x \in T : \A y \in T : ~(<<y, x>> \in OpToRel(<, Nat))
    BY <1>1, NatLessThanWellFounded, WFMin
<1>3. \A y \in T : ~(y < x)
    BY <1>1, <1>2 DEF OpToRel
<1> QED
    <2>1. x \in Nat /\ x # 0
        BY <1>1 DEF T
    <2>2. x - 1 \in Nat /\ x - 1 < x
        BY <2>1
    <2>3. x - 1 \notin T
        BY <1>3, <2>2
    <2> QED
        BY <2>1, <2>2, <2>3 DEF T

\* f[n] is q, n times.
Repeats(f, q, k) == f = [n \in 0 .. k |-> IF n = 0 THEN <<>> ELSE f[n - 1] \o q]

\* The recursion defines a function.
LEMMA RepeatExists ==
    ASSUME NEW q, NEW last \in Nat
    PROVE  \E f : Repeats(f, q, last)
<1> DEFINE S == {k \in Nat : \E f : Repeats(f, q, k)}
<1>1. 0 \in S
    <2> DEFINE f == [n \in 0 .. 0 |-> <<>>]
    <2>1. f = [n \in 0 .. 0 |-> IF n = 0 THEN <<>> ELSE f[n - 1] \o q]
        OBVIOUS
    <2>2. Repeats(f, q, 0)
        BY <2>1 DEF Repeats
    <2> QED
        BY <2>2
<1>2. ASSUME NEW k \in Nat, k \in S PROVE k + 1 \in S
    <2>1. PICK f : Repeats(f, q, k)
        BY <1>2
    <2> DEFINE g == [n \in 0 .. k + 1 |-> IF n = k + 1 THEN f[k] \o q ELSE f[n]]
    <2>2. \A n \in 0 .. k : f[n] = IF n = 0 THEN <<>> ELSE f[n - 1] \o q
        BY <2>1 DEF Repeats
    <2>3. ASSUME NEW n \in 0 .. k + 1
          PROVE  g[n] = IF n = 0 THEN <<>> ELSE g[n - 1] \o q
        <3>1. CASE n = k + 1
            <4>1. n # 0 /\ n - 1 = k /\ k # k + 1 /\ k \in 0 .. k + 1
                BY <3>1
            <4>2. g[n] = f[k] \o q /\ g[k] = f[k]
                BY <3>1, <4>1
            <4> QED
                BY <4>1, <4>2
        <3>2. CASE n # k + 1 /\ n # 0
            <4>1. n \in 0 .. k /\ n - 1 \in 0 .. k
                BY <3>2
            <4>2. g[n] = f[n] /\ g[n - 1] = f[n - 1]
                BY <4>1
            <4>3. f[n] = f[n - 1] \o q
                BY <2>2, <4>1, <3>2
            <4> QED
                BY <3>2, <4>2, <4>3
        <3>3. CASE n = 0
            <4>1. g[0] = f[0] /\ f[0] = <<>>
                BY <2>2
            <4> QED
                BY <3>3, <4>1
        <3> QED
            BY <3>1, <3>2, <3>3
    <2>4. Repeats(g, q, k + 1)
        <3>1. g = [n \in 0 .. k + 1 |-> g[n]]
            OBVIOUS
        <3> HIDE DEF g
        <3> QED
            BY <2>3, <3>1 DEF Repeats
    <2> HIDE DEF g
    <2>5. \E e : Repeats(e, q, k + 1)
        BY <2>4
    <2> QED
        BY <2>5
<1>3. \A k \in Nat : k \in S
    <2> HIDE DEF S
    <2> QED
        BY <1>1, <1>2, NatSetInduction
<1>4. last \in S
    <2> HIDE DEF S
    <2> QED
        BY <1>3
<1> QED
    BY <1>4

\* startupBlink() writes statuses and LEDs only, turns everything off last,
\* and waits before it does.
LEMMA StartupBlinkIs ==
    /\ StartupBlink \in Seq(Statement)
    /\ Without(StartupBlink, Flags) /\ Without(StartupBlink, Tests)
    /\ Guarded(StartupBlink)
    /\ \A led \in Led : /\ LastIs(StartupBlink, Pins(led), FALSE)
                        /\ LastIs(StartupBlink, Statuses(led), FALSE)
<1>1. PICK f : Repeats(f, Round, Rounds) /\ StartupBlink = f[Rounds]
    <2>1. Repeats(CHOOSE f : Repeats(f, Round, Rounds), Round, Rounds)
        BY RepeatExists
    <2>2. StartupBlink = (CHOOSE f : Repeats(f, Round, Rounds))[Rounds]
        BY DEF StartupBlink, Repeats, Round
    <2> QED
        BY <2>1, <2>2
<1>2. \A n \in 0 .. Rounds : f[n] = IF n = 0 THEN <<>> ELSE f[n - 1] \o Round
    BY <1>1 DEF Repeats
<1> DEFINE Fine(q) == q \in Seq(Statement) /\ Without(q, Flags) /\ Without(q, Tests)
           S == {n \in Nat : n <= Rounds => Fine(f[n])}
<1>3. 0 \in S
    <2>1. f[0] = <<>>
        BY <1>2
    <2>2. Fine(<<>>)
        BY NoneIsWithout
    <2> QED
        BY <2>1, <2>2
<1>4. ASSUME NEW k \in Nat, k \in S PROVE k + 1 \in S
    <2>1. ASSUME k + 1 <= Rounds PROVE Fine(f[k + 1])
        <3>1. k \in 0 .. Rounds /\ k + 1 \in 0 .. Rounds /\ k + 1 # 0 /\ k + 1 - 1 = k
            BY <2>1
        <3>2. f[k + 1] = f[k] \o Round
            <4> DEFINE n == k + 1
            <4>1. n \in 0 .. Rounds /\ n # 0 /\ n - 1 = k
                BY <3>1
            <4> HIDE DEF n
            <4>2. f[n] = f[n - 1] \o Round
                BY ONLY <1>2, <4>1
            <4> QED
                BY ONLY <4>1, <4>2 DEF n
        <3>3. Fine(f[k])
            BY <1>4, <3>1
        <3> DEFINE X == f[k]
        <3>4. X \in Seq(Statement) /\ Without(X, Flags) /\ Without(X, Tests)
            BY <3>3
        <3> HIDE DEF X
        <3>5. Fine(X \o Round)
            BY <3>4, RoundIs, Joined, JoinedWithout
        <3> HIDE DEF Fine
        <3> QED
            BY <3>2, <3>5 DEF X
    <2> HIDE DEF Fine
    <2> QED
        BY <2>1
<1>5. \A k \in Nat : k \in S
    <2> HIDE DEF S
    <2> QED
        BY <1>3, <1>4, NatSetInduction
<1>6. Fine(f[Rounds - 1])
    <2>1. Rounds - 1 \in Nat /\ Rounds - 1 <= Rounds
        OBVIOUS
    <2> HIDE DEF Fine
    <2> QED
        BY <1>5, <2>1
<1>7. StartupBlink = f[Rounds - 1] \o Round
    <2>1. Rounds \in 0 .. Rounds /\ Rounds # 0
        OBVIOUS
    <2> QED
        BY <1>1, <1>2, <2>1
<1> DEFINE X == f[Rounds - 1]
<1> HIDE DEF X
<1>8. X \in Seq(Statement) /\ Without(X, Flags) /\ Without(X, Tests)
    BY <1>6 DEF X
<1>9. StartupBlink = X \o Round
    BY <1>7 DEF X
<1> QED
    BY <1>8, <1>9, RoundIs, Joined, JoinedWithout, JoinedLast, JoinedGuarded

-----------------------------------------------------------------------------
(***************************************************************************)
(* What the threads put on their lists.                                     *)
(***************************************************************************)

\* setLedAnimation(): its flag, and no flag of blinking.
LEMMA SetLedAnimationIs ==
    ASSUME NEW on \in BOOLEAN
    PROVE  LET q == SetLedAnimation(on)
           IN  /\ q \in Seq(Statement) /\ Without(q, Tests)
               /\ LastIs(q, Animations, on)
               /\ \A led \in Led : Without(q, BlinkFlags(led))
<1> DEFINE a == [op |-> "animation", on |-> on]
           B == SetAll(FALSE, FALSE, FALSE)
           Y == IF on THEN <<>> ELSE B
<1>1. a \in Statement
    BY DEF Statement
<1>2. /\ a \in Animations /\ a.on = on /\ a \notin Tests
      /\ \A led \in Led : a \notin BlinkFlags(led)
    BY AnimationIs
<1>3. SetLedAnimation(on) = <<a>> \o Y
    BY DEF SetLedAnimation
<1> HIDE DEF a
<1>4. B \in Seq(Statement) /\ Without(B, Flags) /\ Without(B, Tests)
    BY SetAllIs
<1> HIDE DEF B
<1>5. /\ Y \in Seq(Statement) /\ Without(Y, Tests) /\ Without(Y, Animations)
      /\ \A led \in Led : Without(Y, BlinkFlags(led))
    BY <1>4, NoneIsWithout, Kinds, Narrower
<1> HIDE DEF Y
<1>6. /\ <<a>> \in Seq(Statement) /\ Without(<<a>>, Tests) /\ LastIs(<<a>>, Animations, on)
      /\ \A led \in Led : Without(<<a>>, BlinkFlags(led))
    <2>1. LastIs(<<a>>, Animations, a.on)
        BY <1>1, <1>2, OneIs
    <2> QED
        BY <1>1, <1>2, <2>1, OneIs
<1> DEFINE X == <<a>>
<1> HIDE DEF X
<1>7. /\ X \o Y \in Seq(Statement) /\ Without(X \o Y, Tests)
      /\ LastIs(X \o Y, Animations, on)
      /\ \A led \in Led : Without(X \o Y, BlinkFlags(led))
    <2>1. /\ X \in Seq(Statement) /\ Without(X, Tests) /\ LastIs(X, Animations, on)
          /\ \A led \in Led : Without(X, BlinkFlags(led))
        BY <1>6 DEF X
    <2> QED
        BY <1>5, <2>1, Joined, JoinedWithout, JoinedLast
<1> QED
    BY <1>3, <1>7 DEF X

\* setLedBlinking(): the flag of that LED.
LEMMA SetLedBlinkingIs ==
    ASSUME NEW led \in Led
    PROVE  LET q == SetLedBlinking(led)
           IN  /\ q \in Seq(Statement) /\ Without(q, Tests)
               /\ \A other \in Led \ {led} : Without(q, BlinkFlags(other))
<1> DEFINE a == [op |-> "blinking", led |-> led, on |-> TRUE]
<1>1. a \in Statement
    BY DEF Statement
<1>2. /\ a \notin Tests /\ \A other \in Led \ {led} : a \notin BlinkFlags(other)
    BY BlinkingIs
<1>3. SetLedBlinking(led) = <<a>>
    BY DEF SetLedBlinking
<1> HIDE DEF a
<1> QED
    BY <1>1, <1>2, <1>3, OneIs

\* clearLedBlinking(): the same.
LEMMA ClearLedBlinkingIs ==
    ASSUME NEW led \in Led
    PROVE  LET q == ClearLedBlinking(led)
           IN  /\ q \in Seq(Statement) /\ Without(q, Tests)
               /\ LastIs(q, BlinkFlags(led), FALSE)
               /\ \A other \in Led \ {led} : Without(q, BlinkFlags(other))
<1> DEFINE a == [op |-> "blinking", led |-> led, on |-> FALSE]
           Y == Set(led, FALSE)
<1>1. a \in Statement
    BY DEF Statement
<1>2. /\ a \in BlinkFlags(led) /\ a.on = FALSE /\ a \notin Tests
      /\ \A other \in Led \ {led} : a \notin BlinkFlags(other)
    BY BlinkingIs
<1>3. ClearLedBlinking(led) = <<a>> \o Y
    BY DEF ClearLedBlinking
<1> HIDE DEF a
<1>4. Y \in Seq(Statement) /\ Without(Y, Flags) /\ Without(Y, Tests)
    BY SetIs
<1> HIDE DEF Y
<1>5. \A other \in Led : Without(Y, BlinkFlags(other))
    BY <1>4, Kinds, Narrower
<1> DEFINE X == <<a>>
<1>6. /\ X \in Seq(Statement) /\ Without(X, Tests)
      /\ \A other \in Led \ {led} : Without(X, BlinkFlags(other))
    BY <1>1, <1>2, OneIs
<1>7. LastIs(X, BlinkFlags(led), FALSE)
    <2>1. LastIs(X, BlinkFlags(led), a.on)
        BY <1>1, <1>2, OneIs
    <2> QED
        BY <1>2, <2>1
<1> HIDE DEF X
<1>8. /\ X \o Y \in Seq(Statement) /\ Without(X \o Y, Tests)
      /\ LastIs(X \o Y, BlinkFlags(led), FALSE)
      /\ \A other \in Led \ {led} : Without(X \o Y, BlinkFlags(other))
    BY <1>4, <1>5, <1>6, <1>7, Joined, JoinedWithout, JoinedLast
<1> QED
    BY <1>3, <1>8 DEF X

\* What completes setup(), with or without a position from the start.
Ending == SetLedAnimation(FALSE) \o StartupBlink \o Set("green", TRUE)

LEMMA EndingIs ==
    /\ Ending \in Seq(Statement) /\ Without(Ending, Tests)
    /\ LastIs(Ending, Animations, FALSE)
    /\ \A led \in Led : Without(Ending, BlinkFlags(led))
    /\ Guarded(Ending)
    /\ \A led \in Led : /\ LastIs(Ending, Pins(led), Ready[led])
                        /\ LastIs(Ending, Statuses(led), Ready[led])
<1> DEFINE A == SetLedAnimation(FALSE)
           B == StartupBlink
           G == Set("green", TRUE)
<1>1. /\ A \in Seq(Statement) /\ Without(A, Tests)
      /\ LastIs(A, Animations, FALSE)
      /\ \A led \in Led : Without(A, BlinkFlags(led))
    BY SetLedAnimationIs
<1>2. /\ B \in Seq(Statement) /\ Without(B, Flags) /\ Without(B, Tests)
      /\ Guarded(B)
      /\ \A led \in Led : LastIs(B, Pins(led), FALSE) /\ LastIs(B, Statuses(led), FALSE)
    BY StartupBlinkIs
<1>3. /\ G \in Seq(Statement) /\ Without(G, Flags) /\ Without(G, Tests)
      /\ LastIs(G, Pins("green"), TRUE) /\ LastIs(G, Statuses("green"), TRUE)
      /\ \A led \in Led \ {"green"} : Without(G, Pins(led) \cup Statuses(led))
    BY SetIs DEF Led
<1> HIDE DEF A, B, G
<1>4. /\ Without(B, Animations) /\ \A led \in Led : Without(B, BlinkFlags(led))
      /\ Without(G, Animations) /\ \A led \in Led : Without(G, BlinkFlags(led))
    BY <1>2, <1>3, Kinds, Narrower
<1>5. \A led \in Led \ {"green"} : Without(G, Pins(led)) /\ Without(G, Statuses(led))
    BY <1>3 DEF Without
<1> DEFINE P == A \o B
<1>6. /\ P \in Seq(Statement) /\ Without(P, Tests)
      /\ LastIs(P, Animations, FALSE)
      /\ \A led \in Led : Without(P, BlinkFlags(led))
    BY <1>1, <1>2, <1>4, Joined, JoinedWithout, JoinedLast
<1>7. /\ Guarded(P)
      /\ \A led \in Led : LastIs(P, Pins(led), FALSE) /\ LastIs(P, Statuses(led), FALSE)
    BY <1>1, <1>2, JoinedLast, JoinedGuarded
<1> HIDE DEF P
<1>8. /\ P \o G \in Seq(Statement) /\ Without(P \o G, Tests)
      /\ LastIs(P \o G, Animations, FALSE)
      /\ \A led \in Led : Without(P \o G, BlinkFlags(led))
    BY <1>3, <1>4, <1>6, Joined, JoinedWithout, JoinedLast
<1>9. Guarded(P \o G)
    BY <1>3, <1>6, <1>7, JoinedGuarded
<1>10. ASSUME NEW led \in Led
       PROVE  LastIs(P \o G, Pins(led), Ready[led]) /\ LastIs(P \o G, Statuses(led), Ready[led])
    <2>1. CASE led = "green"
        <3>1. Ready[led] = TRUE
            BY <2>1 DEF Ready, Dark
        <3>2. LastIs(P \o G, Pins("green"), TRUE) /\ LastIs(P \o G, Statuses("green"), TRUE)
            BY <1>3, <1>6, JoinedLast
        <3> QED
            BY <2>1, <3>1, <3>2
    <2>2. CASE led # "green"
        <3>1. Ready[led] = FALSE
            BY <2>2 DEF Ready, Dark
        <3>2. LastIs(P \o G, Pins(led), FALSE) /\ LastIs(P \o G, Statuses(led), FALSE)
            BY <2>2, <1>3, <1>5, <1>6, <1>7, JoinedLast
        <3> QED
            BY <3>1, <3>2
    <2> QED
        BY <2>1, <2>2
<1>11. Ending = P \o G
    BY DEF Ending, P, A, B, G
<1> QED
    BY <1>8, <1>9, <1>10, <1>11

\* The same after the wait for a position.
LEMMA LateEndingIs ==
    LET q == ClearLedBlinking("yellow") \o SetLedAnimation(TRUE) \o Ending
    IN  /\ q \in Seq(Statement) /\ Without(q, Tests)
        /\ LastIs(q, Animations, FALSE)
        /\ LastIs(q, BlinkFlags("yellow"), FALSE)
        /\ \A led \in {"green", "red"} : Without(q, BlinkFlags(led))
        /\ Guarded(q)
        /\ \A led \in Led : LastIs(q, Pins(led), Ready[led]) /\ LastIs(q, Statuses(led), Ready[led])
<1> DEFINE A == ClearLedBlinking("yellow")
           B == SetLedAnimation(TRUE)
<1>1. /\ A \in Seq(Statement) /\ Without(A, Tests)
      /\ LastIs(A, BlinkFlags("yellow"), FALSE)
      /\ \A led \in {"green", "red"} : Without(A, BlinkFlags(led))
    BY ClearLedBlinkingIs DEF Led
<1>2. /\ B \in Seq(Statement) /\ Without(B, Tests)
      /\ \A led \in Led : Without(B, BlinkFlags(led))
    BY SetLedAnimationIs
<1> HIDE DEF A, B
<1> DEFINE P == A \o B
<1>3. /\ P \in Seq(Statement) /\ Without(P, Tests)
      /\ LastIs(P, BlinkFlags("yellow"), FALSE)
      /\ \A led \in {"green", "red"} : Without(P, BlinkFlags(led))
    BY <1>1, <1>2, Joined, JoinedWithout, JoinedLast DEF Led
<1> HIDE DEF P
<1>4. /\ P \o Ending \in Seq(Statement) /\ Without(P \o Ending, Tests)
      /\ LastIs(P \o Ending, Animations, FALSE)
      /\ LastIs(P \o Ending, BlinkFlags("yellow"), FALSE)
      /\ \A led \in {"green", "red"} : Without(P \o Ending, BlinkFlags(led))
    BY <1>3, EndingIs, Joined, JoinedWithout, JoinedLast DEF Led
<1>5. /\ Guarded(P \o Ending)
      /\ \A led \in Led : /\ LastIs(P \o Ending, Pins(led), Ready[led])
                          /\ LastIs(P \o Ending, Statuses(led), Ready[led])
    BY <1>3, EndingIs, JoinedLast, JoinedGuarded
<1> QED
    BY <1>4, <1>5 DEF P, A, B

\* A LED of the loop.
LEMMA ShowIs ==
    ASSUME NEW led \in Led, NEW on \in BOOLEAN
    PROVE  LET q == Set(led, on) \o Delay(1)
           IN  /\ q \in Seq(Statement) /\ Without(q, Flags) /\ Without(q, Tests)
               /\ LastIs(q, Pins(led), on) /\ LastIs(q, Statuses(led), on)
               /\ \A other \in Led \ {led} : Without(q, Pins(other)) /\ Without(q, Statuses(other))
<1> DEFINE X == Set(led, on)
           D == Delay(1)
<1>1. /\ X \in Seq(Statement) /\ Without(X, Flags) /\ Without(X, Tests)
      /\ LastIs(X, Pins(led), on) /\ LastIs(X, Statuses(led), on)
      /\ \A other \in Led \ {led} : Without(X, Pins(other) \cup Statuses(other))
    BY SetIs
<1>2. D \in Seq(Statement) /\ Without(D, Active)
    BY DelayIs
<1> HIDE DEF X, D
<1>3. /\ Without(D, Flags) /\ Without(D, Tests)
      /\ \A other \in Led : Without(D, Pins(other)) /\ Without(D, Statuses(other))
    BY <1>2, Kinds, Narrower
<1>4. \A other \in Led \ {led} : Without(X, Pins(other)) /\ Without(X, Statuses(other))
    BY <1>1 DEF Without
<1>5. /\ X \o D \in Seq(Statement) /\ Without(X \o D, Flags) /\ Without(X \o D, Tests)
      /\ LastIs(X \o D, Pins(led), on) /\ LastIs(X \o D, Statuses(led), on)
    BY <1>1, <1>2, <1>3, Joined, JoinedWithout, JoinedLast
<1>6. \A other \in Led \ {led} : Without(X \o D, Pins(other)) /\ Without(X \o D, Statuses(other))
    BY <1>1, <1>2, <1>3, <1>4, JoinedWithout
<1> QED
    BY <1>5, <1>6 DEF X, D

\* The red LED of a reboot, or the LEDs of an upgrade.
LEMMA ThreeIs ==
    ASSUME NEW on \in BOOLEAN
    PROVE  LET q == Set("green", FALSE) \o Set("yellow", FALSE) \o Set("red", on)
               shown == [Dark EXCEPT !["red"] = on]
           IN  /\ q \in Seq(Statement) /\ Without(q, Flags) /\ Without(q, Tests)
               /\ \A led \in Led : LastIs(q, Pins(led), shown[led]) /\ LastIs(q, Statuses(led), shown[led])
<1> DEFINE G == Set("green", FALSE)
           Y == Set("yellow", FALSE)
           R == Set("red", on)
           shown == [Dark EXCEPT !["red"] = on]
<1>0. "green" \in Led /\ "red" \in Led /\ "yellow" \in Led
    BY DEF Led
<1>1. /\ G \in Seq(Statement) /\ Without(G, Flags) /\ Without(G, Tests)
      /\ LastIs(G, Pins("green"), FALSE) /\ LastIs(G, Statuses("green"), FALSE)
    BY <1>0, SetIs
<1>2. /\ Y \in Seq(Statement) /\ Without(Y, Flags) /\ Without(Y, Tests)
      /\ LastIs(Y, Pins("yellow"), FALSE) /\ LastIs(Y, Statuses("yellow"), FALSE)
      /\ Without(Y, Pins("green") \cup Statuses("green"))
    BY <1>0, SetIs
<1>3. /\ R \in Seq(Statement) /\ Without(R, Flags) /\ Without(R, Tests)
      /\ LastIs(R, Pins("red"), on) /\ LastIs(R, Statuses("red"), on)
      /\ Without(R, Pins("green") \cup Statuses("green"))
      /\ Without(R, Pins("yellow") \cup Statuses("yellow"))
    BY <1>0, SetIs
<1>4. shown["green"] = FALSE /\ shown["yellow"] = FALSE /\ shown["red"] = on
    BY <1>0 DEF Dark
<1> HIDE DEF G, Y, R, shown
<1>5. /\ Without(Y, Pins("green")) /\ Without(Y, Statuses("green"))
      /\ Without(R, Pins("green")) /\ Without(R, Statuses("green"))
      /\ Without(R, Pins("yellow")) /\ Without(R, Statuses("yellow"))
    BY <1>2, <1>3 DEF Without
<1> DEFINE P == G \o Y
<1>6. /\ P \in Seq(Statement) /\ Without(P, Flags) /\ Without(P, Tests)
      /\ LastIs(P, Pins("green"), FALSE) /\ LastIs(P, Statuses("green"), FALSE)
      /\ LastIs(P, Pins("yellow"), FALSE) /\ LastIs(P, Statuses("yellow"), FALSE)
    BY <1>1, <1>2, <1>5, Joined, JoinedWithout, JoinedLast
<1> HIDE DEF P
<1>7. /\ P \o R \in Seq(Statement) /\ Without(P \o R, Flags) /\ Without(P \o R, Tests)
      /\ LastIs(P \o R, Pins("green"), FALSE) /\ LastIs(P \o R, Statuses("green"), FALSE)
      /\ LastIs(P \o R, Pins("yellow"), FALSE) /\ LastIs(P \o R, Statuses("yellow"), FALSE)
      /\ LastIs(P \o R, Pins("red"), on) /\ LastIs(P \o R, Statuses("red"), on)
    BY <1>3, <1>5, <1>6, Joined, JoinedWithout, JoinedLast
<1>8. \A led \in Led : LastIs(P \o R, Pins(led), shown[led]) /\ LastIs(P \o R, Statuses(led), shown[led])
    BY <1>4, <1>7 DEF Led
<1> QED
    BY <1>7, <1>8 DEF shown, P, G, Y, R

\* A turn of the LED thread ends with its delay, and changes no flag.
LEMMA TurnIs ==
    ASSUME NEW X \in Seq(Statement), Without(X, Flags), Without(X, Delays), NEW units \in Nat
    PROVE  LET q == X \o Delay(units)
           IN  /\ q \in Seq(Statement) /\ Without(q, Flags) /\ DelayLast(q)
               /\ \A M : M \subseteq Active /\ Without(X, M) => Without(q, M)
<1> DEFINE D == Delay(units)
<1>1. D \in Seq(Statement) /\ Without(D, Active) /\ Len(D) = 1
    BY DelayIs
<1> HIDE DEF D
<1>2. Without(D, Flags) /\ \A M : M \subseteq Active => Without(D, M)
    BY <1>1, Kinds, Narrower
<1>3. /\ X \o D \in Seq(Statement) /\ Without(X \o D, Flags)
      /\ \A M : M \subseteq Active /\ Without(X, M) => Without(X \o D, M)
    BY <1>1, <1>2, Joined, JoinedWithout
<1>4. DelayLast(X \o D)
    <2>1. /\ Len(X) \in Nat /\ Len(X \o D) = Len(X) + 1
          /\ \A i \in 1 .. Len(X) : (X \o D)[i] = X[i]
        <3>1. D \in Seq(Statement) /\ Len(D) = 1
            BY <1>1
        <3>2. /\ Len(X) \in Nat /\ Len(X \o D) = Len(X) + Len(D)
              /\ \A i \in 1 .. Len(X) : (X \o D)[i] = X[i]
            BY ONLY <3>1, X \in Seq(Statement), Joined
        <3> QED
            BY ONLY <3>1, <3>2
    <2>2. \A i \in 1 .. Len(X) : X[i] \in Statement /\ X[i] \notin Delays
        BY ElementOfSeq DEF Without
    <2>3. \A i \in 1 .. Len(X) : X[i].op # "delay"
        BY <2>2 DEF Delays
    <2> QED
        BY <2>1, <2>3 DEF DelayLast
<1> QED
    BY <1>3, <1>4 DEF D

\* A frame of the animation.
LEMMA FrameIs ==
    ASSUME NEW green \in BOOLEAN, NEW red \in BOOLEAN, NEW yellow \in BOOLEAN
    PROVE  LET q == SetAll(green, red, yellow) \o Delay(FrameDelay)
           IN  q \in Seq(Statement) /\ Without(q, Flags) /\ DelayLast(q)
<1> DEFINE X == SetAll(green, red, yellow)
<1>1. X \in Seq(Statement) /\ Without(X, Flags) /\ Without(X, Delays)
    BY SetAllIs
<1> HIDE DEF X
<1>2. FrameDelay \in Nat
    OBVIOUS
<1> QED
    BY <1>1, <1>2, TurnIs DEF X

\* A turn of blinking writes nothing by itself.
LEMMA BlinkIs ==
    ASSUME NEW on \in BOOLEAN
    PROVE  LET q == IfBlinking("green", on) \o IfBlinking("red", on)
                        \o IfBlinking("yellow", on) \o Delay(BlinkDelay)
           IN  /\ q \in Seq(Statement) /\ Without(q, Flags) /\ DelayLast(q)
               /\ \A led \in Led : Without(q, Pins(led) \cup Statuses(led))
<1> DEFINE G == IfBlinking("green", on)
           R == IfBlinking("red", on)
           Y == IfBlinking("yellow", on)
           W(led) == Pins(led) \cup Statuses(led)
<1>1. /\ G \in Seq(Statement) /\ Without(G, Flags) /\ Without(G, Delays)
      /\ R \in Seq(Statement) /\ Without(R, Flags) /\ Without(R, Delays)
      /\ Y \in Seq(Statement) /\ Without(Y, Flags) /\ Without(Y, Delays)
      /\ \A led \in Led : Without(G, W(led)) /\ Without(R, W(led)) /\ Without(Y, W(led))
    BY IfBlinkingIs DEF Led
<1>2. \A led \in Led : W(led) \subseteq Active
    BY Kinds
<1> HIDE DEF G, R, Y, W
<1> DEFINE P == G \o R
<1>3. /\ P \in Seq(Statement) /\ Without(P, Flags) /\ Without(P, Delays)
      /\ \A led \in Led : Without(P, W(led))
    BY <1>1, Joined, JoinedWithout
<1> HIDE DEF P
<1> DEFINE X == P \o Y
<1>4. /\ X \in Seq(Statement) /\ Without(X, Flags) /\ Without(X, Delays)
      /\ \A led \in Led : Without(X, W(led))
    BY <1>1, <1>3, Joined, JoinedWithout
<1> HIDE DEF X
<1> DEFINE q == X \o Delay(BlinkDelay)
<1>5. BlinkDelay \in Nat
    OBVIOUS
<1>6. /\ q \in Seq(Statement) /\ Without(q, Flags) /\ DelayLast(q)
      /\ \A M : M \subseteq Active /\ Without(X, M) => Without(q, M)
    BY <1>4, <1>5, TurnIs
<1> HIDE DEF q
<1>7. \A led \in Led : Without(q, W(led))
    BY <1>2, <1>4, <1>6
<1> QED
    BY <1>6, <1>7 DEF q, X, P, G, R, Y, W

\* A turn with nothing to show.
LEMMA LookIs ==
    LET q == Delay(FrameDelay)
    IN  /\ q \in Seq(Statement) /\ Without(q, Flags) /\ DelayLast(q)
        /\ \A led \in Led : Without(q, Pins(led) \cup Statuses(led))
<1> DEFINE q == Delay(FrameDelay)
<1>1. FrameDelay \in Nat
    OBVIOUS
<1>2. q \in Seq(Statement) /\ Without(q, Active) /\ Len(q) = 1
    BY <1>1, DelayIs
<1> HIDE DEF q
<1>3. Without(q, Flags) /\ \A led \in Led : Without(q, Pins(led) \cup Statuses(led))
    <2>1. \A led \in Led : Pins(led) \cup Statuses(led) \subseteq Active
        BY Kinds
    <2> QED
        BY <1>2, <2>1, Kinds, Narrower
<1>4. DelayLast(q)
    BY <1>2 DEF DelayLast
<1> QED
    BY <1>2, <1>3, <1>4 DEF q

-----------------------------------------------------------------------------
(***************************************************************************)
(* The invariant.  What the main thread has told a LED is true or still on   *)
(* its list.  The LED thread may undo what is done already, as long as a     *)
(* delay and another write of everything are to come (Guarded, Waiting).     *)
(* Time passes only when the LED thread has finished its turn, so once the   *)
(* delay is over with all flags off, it writes nothing more (Calm).          *)
(***************************************************************************)

\* The LED that crash reports may use.
Spared == IF reporter = "absent" THEN {} ELSE {"red"}

\* What each thread may have on its list.
Shapes ==
    /\ wake["leds"] > 0 => todo["leds"] = <<>>
    /\ Without(todo["leds"], Flags)
    /\ DelayLast(todo["leds"])
    /\ Without(todo["main"], Tests)
    /\ Without(todo["reporter"], Foreign)
    /\ reporter = "absent" => todo["reporter"] = <<>>
    /\ reporter # "absent" => place \in {"loop", "reboot", "gone"}

\* The LED thread has nothing to write, and no reason to.
Calm ==
    /\ animation = FALSE
    /\ blinking \subseteq Spared
    /\ Without(todo["main"], Flags)
    /\ \A led \in Led \ Spared : Without(todo["leds"], Pins(led) \cup Statuses(led))

\* The main thread is in the delay, with every flag off.
Waiting ==
    /\ wake["main"] > 0
    /\ animation = FALSE /\ blinking = {}
    /\ WritesAll(todo["main"])

\* The main thread's last word on a LED is what it shows, or is on the list.
Told(led) ==
    /\ Settled(todo["main"], Pins(led), wanted[led], pin[led])
    /\ Settled(todo["main"], Statuses(led), wanted[led], status[led])

\* A LED does not blink, or will not.
Cleared(led) ==
    \/ LastIs(todo["main"], BlinkFlags(led), FALSE)
    \/ Without(todo["main"], BlinkFlags(led)) /\ led \notin blinking

\* In setup() no LED blinks but yellow, which waits for a position.
Before ==
    /\ place = "setup" => /\ blinking = {}
                          /\ \A led \in Led : Without(todo["main"], BlinkFlags(led))
    /\ place = "position" =>
          /\ blinking \subseteq {"yellow"}
          /\ \A led \in {"green", "red"} : Without(todo["main"], BlinkFlags(led))

\* setup() is in its last list.
Starting ==
    place = "ready" =>
        /\ wanted = Ready
        /\ Settled(todo["main"], Animations, FALSE, animation)
        /\ \A led \in Led : Cleared(led)
        /\ \A led \in Led : Told(led)
        /\ Guarded(todo["main"]) \/ Waiting \/ Calm

\* The loop.
Running == place \in {"loop", "reboot"} => Calm /\ \A led \in Led \ Spared : Told(led)

LedsInv == LedsTypeOK /\ Shapes /\ Before /\ Starting /\ Running

-----------------------------------------------------------------------------
(***************************************************************************)
(* The threads' steps.                                                      *)
(***************************************************************************)

\* What thread t does when its next statement is not a test.
Effect(t) ==
    LET h == Head(todo[t])
    IN  /\ wake[t] = 0 /\ todo[t] # <<>> /\ h.op # "ifblinking"
        /\ todo' = [todo EXCEPT ![t] = Tail(@)]
        /\ wake' = IF h.op = "delay" THEN [wake EXCEPT ![t] = h.units] ELSE wake
        /\ animation' = IF h.op = "animation" THEN h.on ELSE animation
        /\ blinking' = IF h.op = "blinking"
                       THEN IF h.on THEN blinking \cup {h.led} ELSE blinking \ {h.led}
                       ELSE blinking
        /\ pin' = IF h.op = "pin" THEN [pin EXCEPT ![h.led] = h.on] ELSE pin
        /\ status' = IF h.op = "status" THEN [status EXCEPT ![h.led] = h.on] ELSE status
        /\ UNCHANGED threadVars

\* The statements, in one formula.
LEMMA DoesIs ==
    ASSUME NEW t \in Thread, Does(t)
    PROVE  Effect(t) \/ TestBlinkFlag(t)
<1>1. CASE SetStatus(t)
    BY <1>1 DEF SetStatus, Comes, Done, Effect, flagVars, threadVars
<1>2. CASE DigitalWrite(t)
    BY <1>2 DEF DigitalWrite, Comes, Done, Effect, flagVars, threadVars
<1>3. CASE SetAnimationFlag(t)
    BY <1>3 DEF SetAnimationFlag, Comes, Done, Effect, pinVars, threadVars
<1>4. CASE SetBlinkFlag(t)
    BY <1>4 DEF SetBlinkFlag, Comes, Done, Effect, pinVars, threadVars
<1>5. CASE StartDelay(t)
    BY <1>5 DEF StartDelay, Comes, Done, Effect, flagVars, pinVars, threadVars
<1> QED
    BY <1>1, <1>2, <1>3, <1>4, <1>5 DEF Does

\* The fields of a statement.
LEMMA Fields ==
    ASSUME NEW h \in Statement
    PROVE  /\ h.op \in {"status", "pin", "blinking", "ifblinking", "animation", "delay"}
           /\ h.op \in {"status", "pin", "blinking", "ifblinking"} => h.led \in Led /\ h.on \in BOOLEAN
           /\ h.op = "animation" => h.on \in BOOLEAN
           /\ h.op = "delay" => h.units \in Nat
BY DEF Statement

\* A thread's first statement and those after it.
LEMMA FirstIs ==
    ASSUME LedsTypeOK, NEW t \in Thread, todo[t] # <<>>
    PROVE  /\ todo[t] \in Seq(Statement)
           /\ Head(todo[t]) \in Statement
           /\ Tail(todo[t]) \in Seq(Statement)
<1>1. todo[t] \in Seq(Statement)
    BY DEF LedsTypeOK
<1> QED
    BY <1>1, Rest

\* A statement keeps the types.
LEMMA EffectTyped ==
    ASSUME LedsTypeOK, NEW t \in Thread, Effect(t)
    PROVE  LedsTypeOK'
<1> DEFINE h == Head(todo[t])
           r == Tail(todo[t])
<1>1. h \in Statement /\ r \in Seq(Statement)
    BY FirstIs DEF Effect
<1>2. todo' = [todo EXCEPT ![t] = r]
    BY DEF Effect
<1>3. todo' \in [Thread -> Seq(Statement)]
    BY <1>1, <1>2 DEF LedsTypeOK
<1>4. /\ wake' = IF h.op = "delay" THEN [wake EXCEPT ![t] = h.units] ELSE wake
      /\ animation' = IF h.op = "animation" THEN h.on ELSE animation
      /\ blinking' = IF h.op = "blinking"
                     THEN IF h.on THEN blinking \cup {h.led} ELSE blinking \ {h.led}
                     ELSE blinking
      /\ pin' = IF h.op = "pin" THEN [pin EXCEPT ![h.led] = h.on] ELSE pin
      /\ status' = IF h.op = "status" THEN [status EXCEPT ![h.led] = h.on] ELSE status
      /\ UNCHANGED threadVars
    BY DEF Effect
<1> HIDE DEF h, r
<1>5. /\ h.op \in {"status", "pin", "blinking"} => h.led \in Led /\ h.on \in BOOLEAN
      /\ h.op = "animation" => h.on \in BOOLEAN
      /\ h.op = "delay" => h.units \in Nat
    BY <1>1, Fields
<1>6. wake' \in [Thread -> Nat]
    BY <1>4, <1>5 DEF LedsTypeOK
<1>7. animation' \in BOOLEAN /\ blinking' \subseteq Led
    BY <1>4, <1>5 DEF LedsTypeOK
<1>8. pin' \in [Led -> BOOLEAN] /\ status' \in [Led -> BOOLEAN]
    BY <1>4, <1>5 DEF LedsTypeOK
<1> QED
    BY <1>3, <1>4, <1>6, <1>7, <1>8 DEF LedsTypeOK, threadVars

\* A test that finds its LED blinking puts a write in its place.
LEMMA TestIs ==
    ASSUME LedsTypeOK, NEW t \in Thread, TestBlinkFlag(t)
    PROVE  \E write \in Seq(Statement), led \in Led :
               /\ Head(todo[t]).op = "ifblinking"
               /\ todo[t] # <<>> /\ wake[t] = 0
               /\ todo' = [todo EXCEPT ![t] = write \o Tail(todo[t])]
               /\ write \o Tail(todo[t]) \in Seq(Statement)
               /\ Without(write, Flags) /\ Without(write, Tests) /\ Without(write, Delays)
               /\ \A other \in Led :
                      other # led \/ led \notin blinking
                          => Without(write, Pins(other) \cup Statuses(other))
               /\ UNCHANGED <<flagVars, pinVars, wake, threadVars>>
<1> DEFINE h == Head(todo[t])
           write == IF h.led \in blinking THEN Set(h.led, h.on) ELSE <<>>
<1>1. todo[t] # <<>> /\ wake[t] = 0 /\ h.op = "ifblinking"
    BY DEF TestBlinkFlag, Comes
<1>2. h \in Statement /\ Tail(todo[t]) \in Seq(Statement)
    BY <1>1, FirstIs
<1>3. todo' = [todo EXCEPT ![t] = write \o Tail(todo[t])]
    BY DEF TestBlinkFlag
<1>4. UNCHANGED <<flagVars, pinVars, wake, threadVars>>
    BY DEF TestBlinkFlag
<1>5. h.led \in Led /\ h.on \in BOOLEAN
    BY <1>1, <1>2, Fields
<1> DEFINE led == h.led
<1>6. /\ write \in Seq(Statement)
      /\ Without(write, Flags) /\ Without(write, Tests) /\ Without(write, Delays)
      /\ \A other \in Led : other # led \/ led \notin blinking
                                => Without(write, Pins(other) \cup Statuses(other))
    <2>1. CASE led \in blinking
        <3> HIDE DEF h
        <3> QED
            BY <1>5, <2>1, SetIs
    <2>2. CASE led \notin blinking
        <3> HIDE DEF h
        <3> QED
            BY <2>2, NoneIsWithout
    <2> QED
        BY <2>1, <2>2
<1> HIDE DEF write, led
<1>7. write \o Tail(todo[t]) \in Seq(Statement)
    BY <1>2, <1>6, Joined
<1>8. led \in Led
    BY <1>5 DEF led
<1> QED
    BY <1>1, <1>3, <1>4, <1>6, <1>7, <1>8

\* So does a test.
LEMMA TestTyped ==
    ASSUME LedsTypeOK, NEW t \in Thread, TestBlinkFlag(t)
    PROVE  LedsTypeOK'
<1>1. PICK q \in Seq(Statement) : /\ todo' = [todo EXCEPT ![t] = q]
                                  /\ UNCHANGED <<flagVars, pinVars, wake, threadVars>>
    BY TestIs
<1>2. todo' \in [Thread -> Seq(Statement)]
    BY <1>1 DEF LedsTypeOK
<1> QED
    BY <1>1, <1>2 DEF LedsTypeOK, flagVars, pinVars, threadVars

\* A decision.
LEMMA DecidesTyped ==
    ASSUME LedsTypeOK, NEW t \in Thread, NEW q \in Seq(Statement), Decides(t, q)
    PROVE  /\ todo' \in [Thread -> Seq(Statement)]
           /\ todo'[t] = q
           /\ \A other \in Thread \ {t} : todo'[other] = todo[other]
           /\ todo[t] = <<>> /\ wake[t] = 0
           /\ UNCHANGED <<animation, blinking, pin, status, wake>>
BY DEF LedsTypeOK, Decides, flagVars, pinVars

\* The last write of a list decides, or, once it is done, what it wrote.
LEMMA RestNow ==
    ASSUME NEW S, NEW q \in Seq(S), q # <<>>, NEW M, NEW on, NEW current, NEW next,
           Settled(q, M, on, current),
           Head(q) \in M => next = Head(q).on,
           Head(q) \notin M => next = current
    PROVE  Settled(Tail(q), M, on, next)
BY RestSettled, RestWithout DEF Settled

\* A statement of the main thread.
LEMMA MainEffect ==
    ASSUME LedsInv, Effect("main")
    PROVE  LedsInv'
<1> DEFINE q == todo["main"]
           r == Tail(q)
           h == Head(q)
<1>0. "main" \in Thread /\ "leds" \in Thread /\ "reporter" \in Thread
    BY DEF Thread
<1>1. /\ LedsTypeOK /\ Shapes /\ Before /\ Starting /\ Running
    BY DEF LedsInv
<1>2. /\ q # <<>> /\ q \in Seq(Statement) /\ h \in Statement /\ r \in Seq(Statement)
      /\ wake["main"] = 0 /\ h.op # "ifblinking"
    BY <1>0, <1>1, FirstIs DEF Effect
<1>3. /\ todo'["main"] = r /\ todo'["leds"] = todo["leds"] /\ todo'["reporter"] = todo["reporter"]
      /\ wake'["leds"] = wake["leds"]
      /\ h.op = "delay" => wake'["main"] = h.units
    BY <1>0, <1>1 DEF Effect, LedsTypeOK
<1>4. /\ animation' = IF h.op = "animation" THEN h.on ELSE animation
      /\ blinking' = IF h.op = "blinking"
                     THEN IF h.on THEN blinking \cup {h.led} ELSE blinking \ {h.led}
                     ELSE blinking
      /\ pin' = IF h.op = "pin" THEN [pin EXCEPT ![h.led] = h.on] ELSE pin
      /\ status' = IF h.op = "status" THEN [status EXCEPT ![h.led] = h.on] ELSE status
      /\ place' = place /\ reporter' = reporter /\ wanted' = wanted
    BY DEF Effect, threadVars
<1> HIDE DEF q, r, h
<1>5. /\ h.op \in {"status", "pin", "blinking"} => h.led \in Led /\ h.on \in BOOLEAN
      /\ h.op = "animation" => h.on \in BOOLEAN
    BY <1>2, Fields
<1>6. \A M : Without(q, M) <=> h \notin M /\ Without(r, M)
    BY <1>2, RestWithout DEF r, h
<1>7. Spared' = Spared
    BY <1>4 DEF Spared
<1>8. Shapes'
    <2>1. Without(q, Tests)
        BY <1>1 DEF Shapes, q
    <2>2. Without(todo'["main"], Tests)
        BY <2>1, <1>3, <1>6
    <2> QED
        BY <2>2, <1>1, <1>3, <1>4 DEF Shapes
<1>9. ASSUME NEW led \in Led, Without(q, BlinkFlags(led))
      PROVE  led \in blinking' <=> led \in blinking
    <2>1. h \notin BlinkFlags(led)
        BY <1>6, <1>9
    <2>2. h.op = "blinking" => h.led # led
        BY <1>2, <2>1 DEF BlinkFlags
    <2> QED
        BY <1>4, <2>2
<1>10. blinking \subseteq Led /\ blinking' \subseteq Led
    BY <1>1, <1>4, <1>5 DEF LedsTypeOK
<1>11. Before'
    <2>1. ASSUME place = "setup"
          PROVE  blinking' = {} /\ \A led \in Led : Without(r, BlinkFlags(led))
        <3>1. blinking = {} /\ \A led \in Led : Without(q, BlinkFlags(led))
            BY <1>1, <2>1 DEF Before, q
        <3> QED
            BY <3>1, <1>6, <1>9, <1>10
    <2>2. ASSUME place = "position"
          PROVE  /\ blinking' \subseteq {"yellow"}
                 /\ \A led \in {"green", "red"} : Without(r, BlinkFlags(led))
        <3>1. /\ blinking \subseteq {"yellow"}
              /\ \A led \in {"green", "red"} : Without(q, BlinkFlags(led))
            BY <1>1, <2>2 DEF Before, q
        <3>2. \A led \in {"green", "red"} : led \notin blinking'
            BY <3>1, <1>9 DEF Led
        <3> QED
            BY <3>1, <3>2, <1>6, <1>10 DEF Led
    <2> QED
        BY <2>1, <2>2, <1>3, <1>4 DEF Before
<1>12. ASSUME NEW led \in Led, Told(led)
       PROVE  Told(led)'
    <2>1. /\ Settled(q, Pins(led), wanted[led], pin[led])
          /\ Settled(q, Statuses(led), wanted[led], status[led])
        BY <1>12 DEF Told, q
    <2>2. Settled(r, Pins(led), wanted[led], pin'[led])
        <3>1. h \in Pins(led) => pin'[led] = h.on
            BY <1>1, <1>2, <1>4, <1>5 DEF Pins, LedsTypeOK
        <3>2. h \notin Pins(led) => pin'[led] = pin[led]
            BY <1>1, <1>2, <1>4, <1>5 DEF Pins, LedsTypeOK
        <3> QED
            BY <1>2, <2>1, <3>1, <3>2, RestNow DEF r, h
    <2>3. Settled(r, Statuses(led), wanted[led], status'[led])
        <3>1. h \in Statuses(led) => status'[led] = h.on
            BY <1>1, <1>2, <1>4, <1>5 DEF Statuses, LedsTypeOK
        <3>2. h \notin Statuses(led) => status'[led] = status[led]
            BY <1>1, <1>2, <1>4, <1>5 DEF Statuses, LedsTypeOK
        <3> QED
            BY <1>2, <2>1, <3>1, <3>2, RestNow DEF r, h
    <2> QED
        BY <2>2, <2>3, <1>3, <1>4 DEF Told
<1>13. ASSUME Calm PROVE Calm'
    <2>1. Without(q, Flags)
        BY <1>13 DEF Calm, q
    <2>2. h \notin Flags /\ Without(r, Flags)
        BY <1>6, <2>1
    <2>3. animation' = animation /\ blinking' = blinking
        BY <1>2, <1>4, <2>2 DEF Flags
    <2> QED
        BY <1>3, <1>7, <1>13, <2>2, <2>3 DEF Calm
<1>14. ASSUME NEW led \in Led, Cleared(led)
       PROVE  Cleared(led)'
    <2>1. \/ LastIs(q, BlinkFlags(led), FALSE)
          \/ Without(q, BlinkFlags(led)) /\ led \notin blinking
        BY <1>14 DEF Cleared, q
    <2>2. CASE LastIs(q, BlinkFlags(led), FALSE)
        <3>1. \/ LastIs(r, BlinkFlags(led), FALSE)
              \/ h \in BlinkFlags(led) /\ h.on = FALSE /\ Without(r, BlinkFlags(led))
            BY <1>2, <2>2, RestSettled DEF r, h
        <3>2. h \in BlinkFlags(led) /\ h.on = FALSE => led \notin blinking'
            BY <1>4 DEF BlinkFlags
        <3> QED
            BY <3>1, <3>2, <1>3 DEF Cleared
    <2>3. CASE Without(q, BlinkFlags(led)) /\ led \notin blinking
        BY <2>3, <1>3, <1>6, <1>9 DEF Cleared
    <2> QED
        BY <2>1, <2>2, <2>3
<1>15. ASSUME place = "ready", Guarded(q)
       PROVE  Guarded(r) \/ Waiting'
    <2>1. \/ Guarded(r)
          \/ h.op = "delay" /\ h.units > 0 /\ WritesAll(r)
        BY <1>2, <1>15, RestGuarded DEF r, h
    <2>2. ASSUME h.op = "delay", h.units > 0, WritesAll(r)
          PROVE  Waiting'
        <3>1. Without(r, Flags)
            BY <2>2 DEF WritesAll
        <3>2. /\ h \notin Flags
            BY <2>2 DEF Flags
        <3>3. Without(q, Flags)
            BY <1>6, <3>1, <3>2
        <3>4. Without(q, Animations) /\ \A led \in Led : Without(q, BlinkFlags(led))
            BY <3>3, Kinds, Narrower
        <3>5. Settled(q, Animations, FALSE, animation) /\ \A led \in Led : Cleared(led)
            BY <1>1, <1>15 DEF Starting, q
        <3>6. animation = FALSE
            BY <3>4, <3>5 DEF Settled, LastIs, Without
        <3>7. blinking = {}
            BY <3>4, <3>5, <1>10 DEF Cleared, LastIs, Without, q
        <3>8. animation' = FALSE /\ blinking' = {}
            BY <3>6, <3>7, <2>2, <1>4
        <3> QED
            BY <2>2, <3>8, <1>3 DEF Waiting
    <2> QED
        BY <2>1, <2>2
<1>16. Starting'
    <2> SUFFICES ASSUME place = "ready" PROVE Starting'
        BY <1>4 DEF Starting
    <2>1. /\ wanted = Ready
          /\ Settled(q, Animations, FALSE, animation)
          /\ \A led \in Led : Cleared(led)
          /\ \A led \in Led : Told(led)
          /\ Guarded(q) \/ Waiting \/ Calm
        BY <1>1 DEF Starting, q
    <2>2. Settled(r, Animations, FALSE, animation')
        <3>1. h \in Animations => animation' = h.on
            BY <1>4 DEF Animations
        <3>2. h \notin Animations => animation' = animation
            BY <1>2, <1>4 DEF Animations
        <3> QED
            BY <1>2, <2>1, <3>1, <3>2, RestNow DEF r, h
    <2>3. ~Waiting
        BY <1>2 DEF Waiting
    <2>4. Guarded(r) \/ Waiting' \/ Calm'
        BY <2>1, <2>3, <1>13, <1>15
    <2>5. (\A led \in Led : Cleared(led)') /\ (\A led \in Led : Told(led)')
        BY <2>1, <1>12, <1>14
    <2> QED
        BY <2>1, <2>2, <2>4, <2>5, <1>3, <1>4 DEF Starting
<1>17. Running'
    BY <1>1, <1>4, <1>7, <1>12, <1>13 DEF Running
<1>18. LedsTypeOK'
    BY <1>0, <1>1, EffectTyped
<1> QED
    BY <1>8, <1>11, <1>16, <1>17, <1>18 DEF LedsInv

\* While the main thread has everything still to write, or waits before it, it
\* does not matter what the LED thread writes.
LEMMA ToldAnyway ==
    ASSUME LedsInv, NEW led \in Led, Told(led),
           Guarded(todo["main"]) \/ Waiting,
           todo'["main"] = todo["main"], wanted' = wanted
    PROVE  Told(led)'
<1>1. Guarded(todo["main"]) \/ WritesAll(todo["main"])
    BY DEF Waiting
<1>2. Len(todo["main"]) \in Nat
    <2>1. todo["main"] \in Seq(Statement)
        BY DEF LedsInv, LedsTypeOK, Thread
    <2> QED
        BY <2>1, LenProperties
<1> DEFINE q == todo["main"]
<1>3. /\ Settled(q, Pins(led), wanted[led], pin[led])
      /\ Settled(q, Statuses(led), wanted[led], status[led])
    BY DEF Told
<1>4. /\ Settled(q, Pins(led), wanted[led], pin'[led])
      /\ Settled(q, Statuses(led), wanted[led], status'[led])
    <2>1. (Guarded(q) \/ WritesAll(q)) /\ Len(q) \in Nat
        BY <1>1, <1>2
    <2> HIDE DEF q
    <2> QED
        BY ONLY <1>3, <2>1, led \in Led, SettledAnyway
<1> QED
    BY <1>4 DEF Told

\* A step of the LED thread that changes no flag, and in the calm writes only
\* the LED of the crash reports.
LEMMA LedsKeeps ==
    ASSUME LedsInv,
           todo'["main"] = todo["main"], todo'["reporter"] = todo["reporter"],
           wake'["main"] = wake["main"],
           animation' = animation, blinking' = blinking,
           place' = place, reporter' = reporter, wanted' = wanted,
           wake'["leds"] > 0 => todo'["leds"] = <<>>,
           Without(todo'["leds"], Flags),
           DelayLast(todo'["leds"]),
           Calm => \A led \in Led \ Spared :
                       /\ Without(todo'["leds"], Pins(led) \cup Statuses(led))
                       /\ pin'[led] = pin[led] /\ status'[led] = status[led]
    PROVE  Shapes' /\ Before' /\ Starting' /\ Running'
<1>1. /\ LedsTypeOK /\ Shapes /\ Before /\ Starting /\ Running
    BY DEF LedsInv
<1>2. Spared' = Spared
    BY DEF Spared
<1>3. Shapes'
    BY <1>1 DEF Shapes
<1>4. Before'
    BY <1>1 DEF Before
<1>5. ASSUME Calm PROVE Calm' /\ \A led \in Led \ Spared : Told(led) => Told(led)'
    BY <1>2, <1>5 DEF Calm, Told
<1>6. Running'
    BY <1>1, <1>2, <1>5 DEF Running
<1>7. Starting'
    <2> SUFFICES ASSUME place = "ready" PROVE Starting'
        BY DEF Starting
    <2>1. /\ wanted = Ready
          /\ Settled(todo["main"], Animations, FALSE, animation)
          /\ \A led \in Led : Cleared(led)
          /\ \A led \in Led : Told(led)
          /\ Guarded(todo["main"]) \/ Waiting \/ Calm
        BY <1>1 DEF Starting
    <2>2. Spared = {}
        BY <1>1 DEF Shapes, Spared
    <2>3. /\ wanted' = Ready
          /\ Settled(todo'["main"], Animations, FALSE, animation')
          /\ \A led \in Led : Cleared(led)'
        BY <2>1 DEF Cleared
    <2>4. CASE Calm
        BY <1>5, <2>2, <2>3, <2>1, <2>4 DEF Starting
    <2>5. CASE Guarded(todo["main"]) \/ Waiting
        <3>1. \A led \in Led : Told(led)'
            BY <2>1, <2>5, ToldAnyway
        <3>2. Guarded(todo'["main"]) \/ Waiting'
            BY <2>5 DEF Waiting
        <3> QED
            BY <2>3, <3>1, <3>2 DEF Starting
    <2> QED
        BY <2>1, <2>4, <2>5
<1> QED
    BY <1>3, <1>4, <1>6, <1>7

\* A statement of the LED thread that is not a test.
LEMMA LedsEffect ==
    ASSUME LedsInv, Effect("leds")
    PROVE  LedsInv'
<1> DEFINE q == todo["leds"]
           r == Tail(q)
           h == Head(q)
<1>0. "main" \in Thread /\ "leds" \in Thread /\ "reporter" \in Thread
    BY DEF Thread
<1>1. LedsTypeOK /\ Shapes
    BY DEF LedsInv
<1>2. /\ q # <<>> /\ q \in Seq(Statement) /\ h \in Statement /\ r \in Seq(Statement)
      /\ wake["leds"] = 0
    BY <1>0, <1>1, FirstIs DEF Effect
<1>3. /\ todo'["leds"] = r /\ todo'["main"] = todo["main"] /\ todo'["reporter"] = todo["reporter"]
      /\ wake'["main"] = wake["main"]
      /\ h.op # "delay" => wake' = wake
    BY <1>0, <1>1 DEF Effect, LedsTypeOK
<1>4. /\ animation' = IF h.op = "animation" THEN h.on ELSE animation
      /\ blinking' = IF h.op = "blinking"
                     THEN IF h.on THEN blinking \cup {h.led} ELSE blinking \ {h.led}
                     ELSE blinking
      /\ pin' = IF h.op = "pin" THEN [pin EXCEPT ![h.led] = h.on] ELSE pin
      /\ status' = IF h.op = "status" THEN [status EXCEPT ![h.led] = h.on] ELSE status
      /\ place' = place /\ reporter' = reporter /\ wanted' = wanted
    BY DEF Effect, threadVars
<1>5. Without(q, Flags) /\ DelayLast(q)
    BY <1>1 DEF Shapes
<1> HIDE DEF q, r, h
<1>6. \A M : Without(q, M) <=> h \notin M /\ Without(r, M)
    BY <1>2, RestWithout DEF r, h
<1>7. animation' = animation /\ blinking' = blinking
    BY <1>2, <1>4, <1>5, <1>6 DEF Flags
<1>8. /\ Len(q) \in Nat /\ Len(q) >= 1 /\ Len(r) = Len(q) - 1
      /\ \A i \in 1 .. Len(r) : r[i] = q[i + 1]
      /\ h = q[1]
    BY <1>2, Rest DEF r, h
<1>9. DelayLast(r)
    BY <1>5, <1>8 DEF DelayLast
<1>10. wake'["leds"] > 0 => r = <<>>
    <2>1. CASE h.op = "delay"
        <3>1. ~(1 \in 1 .. Len(q) - 1)
            BY <1>5, <1>8, <2>1 DEF DelayLast
        <3>2. Len(r) = 0
            BY <1>8, <3>1
        <3> QED
            BY <1>2, <3>2, EmptySeq
    <2>2. CASE h.op # "delay"
        BY <1>2, <1>3, <2>2
    <2> QED
        BY <2>1, <2>2
<1>11. ASSUME Calm, NEW led \in Led \ Spared
       PROVE  /\ Without(r, Pins(led) \cup Statuses(led))
              /\ pin'[led] = pin[led] /\ status'[led] = status[led]
    <2>1. Without(q, Pins(led) \cup Statuses(led))
        BY <1>11 DEF Calm, q
    <2>2. h \notin Pins(led) \cup Statuses(led) /\ Without(r, Pins(led) \cup Statuses(led))
        BY <1>6, <2>1
    <2>3. h.op \in {"pin", "status"} => h.led # led
        BY <1>2, <2>2 DEF Pins, Statuses
    <2> QED
        BY <2>2, <2>3, <1>4, <1>1 DEF LedsTypeOK
<1>12. Without(r, Flags)
    BY <1>5, <1>6
<1>13. Shapes' /\ Before' /\ Starting' /\ Running'
    BY <1>3, <1>4, <1>7, <1>9, <1>10, <1>11, <1>12, LedsKeeps
<1>14. LedsTypeOK'
    BY <1>0, <1>1, EffectTyped
<1> QED
    BY <1>13, <1>14 DEF LedsInv

\* A test of the LED thread: in the calm nothing blinks but the red LED of the
\* crash reports.
LEMMA LedsTest ==
    ASSUME LedsInv, TestBlinkFlag("leds")
    PROVE  LedsInv'
<1> DEFINE q == todo["leds"]
           r == Tail(q)
<1>0. "main" \in Thread /\ "leds" \in Thread /\ "reporter" \in Thread
    BY DEF Thread
<1>1. LedsTypeOK /\ Shapes
    BY DEF LedsInv
<1>2. PICK write \in Seq(Statement), led \in Led :
               /\ Head(todo["leds"]).op = "ifblinking"
               /\ todo["leds"] # <<>> /\ wake["leds"] = 0
               /\ todo' = [todo EXCEPT !["leds"] = write \o Tail(todo["leds"])]
               /\ write \o Tail(todo["leds"]) \in Seq(Statement)
               /\ Without(write, Flags) /\ Without(write, Tests) /\ Without(write, Delays)
               /\ \A other \in Led :
                      other # led \/ led \notin blinking
                          => Without(write, Pins(other) \cup Statuses(other))
               /\ UNCHANGED <<flagVars, pinVars, wake, threadVars>>
    BY <1>0, <1>1, TestIs
<1>3. q # <<>> /\ q \in Seq(Statement) /\ r \in Seq(Statement)
    BY <1>0, <1>1, <1>2, FirstIs
<1>4. /\ todo'["leds"] = write \o r
      /\ todo'["main"] = todo["main"] /\ todo'["reporter"] = todo["reporter"]
      /\ wake' = wake /\ animation' = animation /\ blinking' = blinking
      /\ place' = place /\ reporter' = reporter /\ wanted' = wanted
      /\ pin' = pin /\ status' = status
    BY <1>0, <1>1, <1>2 DEF LedsTypeOK, flagVars, pinVars, threadVars
<1>5. Without(q, Flags) /\ DelayLast(q)
    BY <1>1 DEF Shapes
<1> HIDE DEF q, r
<1>6. \A M : Without(q, M) => Without(r, M)
    BY <1>3, RestWithout DEF r
<1>7. \A M : Without(write, M) /\ Without(r, M) => Without(write \o r, M)
    BY <1>3, JoinedWithout
<1>8. Without(write \o r, Flags)
    BY <1>2, <1>5, <1>6, <1>7
<1>9. DelayLast(write \o r)
    <2>1. /\ Len(q) \in Nat /\ Len(q) >= 1 /\ Len(r) = Len(q) - 1
          /\ \A i \in 1 .. Len(r) : r[i] = q[i + 1]
        BY <1>3, Rest DEF r
    <2> DEFINE m == Len(write)
               C == write \o r
    <2>2. /\ m \in Nat /\ Len(C) = m + Len(r)
          /\ \A i \in 1 .. m : C[i] = write[i]
          /\ \A i \in 1 .. Len(r) : C[m + i] = r[i]
        BY <1>3, Joined
    <2>3. \A i \in 1 .. m : write[i].op # "delay"
        <3>1. \A i \in 1 .. m : write[i] \in Statement /\ write[i] \notin Delays
            BY <1>2, ElementOfSeq DEF Without
        <3> QED
            BY <3>1 DEF Delays
    <2> HIDE DEF m, C
    <2>4. ASSUME NEW i \in 1 .. Len(C) - 1 PROVE C[i].op # "delay"
        <3>1. CASE i <= m
            <4>1. i \in 1 .. m
                BY <2>2, <3>1
            <4> QED
                BY <2>2, <2>3, <4>1
        <3>2. CASE i > m
            <4> DEFINE k == i - m
            <4>1. k \in 1 .. Len(r) /\ i = m + k /\ k + 1 \in 1 .. Len(q) - 1
                BY <2>1, <2>2, <3>2
            <4> HIDE DEF k
            <4>2. C[i] = q[k + 1]
                BY <2>1, <2>2, <4>1
            <4> QED
                BY <1>5, <4>1, <4>2 DEF DelayLast
        <3> QED
            BY <2>2, <3>1, <3>2
    <2> QED
        BY <2>4 DEF DelayLast, C
<1>10. ASSUME Calm, NEW other \in Led \ Spared
       PROVE  Without(write \o r, Pins(other) \cup Statuses(other))
    <2>1. Without(q, Pins(other) \cup Statuses(other)) /\ blinking \subseteq Spared
        BY <1>10 DEF Calm, q
    <2>2. other # led \/ led \notin blinking
        BY <2>1
    <2> QED
        BY <1>2, <1>6, <1>7, <2>1, <2>2
<1>11. ~(wake["leds"] > 0)
    BY <1>2
<1>12. Shapes' /\ Before' /\ Starting' /\ Running'
    BY <1>4, <1>8, <1>9, <1>10, <1>11, LedsKeeps
<1>13. LedsTypeOK'
    BY <1>0, <1>1, TestTyped
<1> QED
    BY <1>12, <1>13 DEF LedsInv

\* One turn of the LED thread's loop.
LEMMA LedThreadTurn ==
    ASSUME LedsInv, LedThread
    PROVE  LedsInv'
<1>0. "main" \in Thread /\ "leds" \in Thread /\ "reporter" \in Thread
    BY DEF Thread
<1>1. LedsTypeOK /\ Shapes
    BY DEF LedsInv
<1>2. place' = place /\ reporter' = reporter /\ wanted' = wanted
    BY DEF LedThread
<1> DEFINE Allowed(q) == \A led \in Led : Without(q, Pins(led) \cup Statuses(led))
<1>3. \E q \in Seq(Statement) :
          /\ Decides("leds", q) /\ Without(q, Flags) /\ DelayLast(q)
          /\ animation = FALSE => Allowed(q)
          /\ frame' \in 0 .. 2 /\ lastBlinkStatus' \in BOOLEAN
    <2>1. CASE /\ animation
               /\ frame' = (frame + 1) % 3
               /\ Decides("leds", SetAll(frame' = 0, frame' = 1, frame' = 2) \o Delay(FrameDelay))
               /\ UNCHANGED lastBlinkStatus
        <3> DEFINE q == SetAll(frame' = 0, frame' = 1, frame' = 2) \o Delay(FrameDelay)
        <3>1. (frame' = 0) \in BOOLEAN /\ (frame' = 1) \in BOOLEAN /\ (frame' = 2) \in BOOLEAN
            OBVIOUS
        <3>2. q \in Seq(Statement) /\ Without(q, Flags) /\ DelayLast(q)
            BY <3>1, FrameIs
        <3>3. frame' \in 0 .. 2 /\ lastBlinkStatus' \in BOOLEAN
            BY <2>1, <1>1 DEF LedsTypeOK
        <3>4. animation # FALSE
            BY <2>1
        <3>5. Decides("leds", q)
            BY <2>1
        <3> HIDE DEF q, Allowed
        <3> QED
            BY <3>2, <3>3, <3>4, <3>5
    <2>2. CASE /\ ~animation /\ blinking # {}
               /\ lastBlinkStatus' = ~lastBlinkStatus
               /\ Decides("leds", IfBlinking("green", lastBlinkStatus')
                                      \o IfBlinking("red", lastBlinkStatus')
                                      \o IfBlinking("yellow", lastBlinkStatus') \o Delay(BlinkDelay))
               /\ UNCHANGED frame
        <3> DEFINE q == IfBlinking("green", lastBlinkStatus')
                            \o IfBlinking("red", lastBlinkStatus')
                            \o IfBlinking("yellow", lastBlinkStatus') \o Delay(BlinkDelay)
        <3>1. lastBlinkStatus' \in BOOLEAN
            BY <2>2, <1>1 DEF LedsTypeOK
        <3>2. q \in Seq(Statement) /\ Without(q, Flags) /\ DelayLast(q) /\ Allowed(q)
            BY <3>1, BlinkIs
        <3>3. frame' \in 0 .. 2
            BY <2>2, <1>1 DEF LedsTypeOK
        <3>4. Decides("leds", q)
            BY <2>2
        <3> HIDE DEF q, Allowed
        <3> QED
            BY <3>1, <3>2, <3>3, <3>4
    <2>3. CASE /\ ~animation /\ blinking = {}
               /\ Decides("leds", Delay(FrameDelay))
               /\ UNCHANGED <<frame, lastBlinkStatus>>
        <3> DEFINE q == Delay(FrameDelay)
        <3>1. q \in Seq(Statement) /\ Without(q, Flags) /\ DelayLast(q) /\ Allowed(q)
            BY LookIs
        <3>2. frame' \in 0 .. 2 /\ lastBlinkStatus' \in BOOLEAN
            BY <2>3, <1>1 DEF LedsTypeOK
        <3>3. Decides("leds", q)
            BY <2>3
        <3> HIDE DEF q, Allowed
        <3> QED
            BY <3>1, <3>2, <3>3
    <2> QED
        BY <2>1, <2>2, <2>3 DEF LedThread
<1>4. PICK q \in Seq(Statement) :
          /\ Decides("leds", q) /\ Without(q, Flags) /\ DelayLast(q)
          /\ animation = FALSE => Allowed(q)
          /\ frame' \in 0 .. 2 /\ lastBlinkStatus' \in BOOLEAN
    BY <1>3
<1>5. /\ todo' \in [Thread -> Seq(Statement)]
      /\ todo'["leds"] = q
      /\ todo'["main"] = todo["main"] /\ todo'["reporter"] = todo["reporter"]
      /\ wake["leds"] = 0
      /\ UNCHANGED <<animation, blinking, pin, status, wake>>
    BY <1>0, <1>1, <1>4, DecidesTyped
<1>6. LedsTypeOK'
    BY <1>1, <1>2, <1>4, <1>5 DEF LedsTypeOK
<1>7. ~(wake'["leds"] > 0)
    BY <1>5
<1>8. Calm => Allowed(q)
    BY <1>4 DEF Calm
<1>9. Shapes' /\ Before' /\ Starting' /\ Running'
    BY <1>2, <1>4, <1>5, <1>7, <1>8, LedsKeeps
<1> QED
    BY <1>6, <1>9 DEF LedsInv

\* The crash report thread has statements of its own only once it is there, and
\* then the main thread is past setup().
LEMMA ReporterThere ==
    ASSUME LedsInv, reporter # "absent"
    PROVE  Spared = {"red"} /\ place \in {"loop", "reboot", "gone"}
BY DEF LedsInv, Shapes, Spared

\* A step of the crash report thread touches the red LED only.
LEMMA ReporterKeeps ==
    ASSUME LedsInv, reporter # "absent", reporter' # "absent",
           todo'["main"] = todo["main"], todo'["leds"] = todo["leds"],
           wake'["main"] = wake["main"], wake'["leds"] = wake["leds"],
           place' = place, wanted' = wanted,
           Without(todo'["reporter"], Foreign),
           animation' = animation, blinking' \subseteq blinking \cup {"red"},
           \A led \in Led \ {"red"} : pin'[led] = pin[led] /\ status'[led] = status[led]
    PROVE  Shapes' /\ Before' /\ Starting' /\ Running'
<1>1. /\ Shapes /\ Running
    BY DEF LedsInv
<1>2. Spared = {"red"} /\ Spared' = {"red"} /\ place \in {"loop", "reboot", "gone"}
    BY ReporterThere DEF Spared
<1>3. Shapes'
    BY <1>1, <1>2 DEF Shapes
<1>4. Before' /\ Starting'
    BY <1>2 DEF Before, Starting
<1>5. Calm => Calm'
    BY <1>2 DEF Calm
<1>6. \A led \in Led \ Spared : Told(led) => Told(led)'
    BY <1>2 DEF Told
<1>7. Running'
    BY <1>1, <1>2, <1>5, <1>6 DEF Running
<1> QED
    BY <1>3, <1>4, <1>7

\* A statement of the crash report thread.
LEMMA ReporterEffect ==
    ASSUME LedsInv, Effect("reporter")
    PROVE  LedsInv'
<1> DEFINE q == todo["reporter"]
           r == Tail(q)
           h == Head(q)
<1>0. "main" \in Thread /\ "leds" \in Thread /\ "reporter" \in Thread
    BY DEF Thread
<1>1. LedsTypeOK /\ Shapes
    BY DEF LedsInv
<1>2. /\ q # <<>> /\ q \in Seq(Statement) /\ h \in Statement /\ r \in Seq(Statement)
      /\ h.op # "ifblinking"
    BY <1>0, <1>1, FirstIs DEF Effect
<1>3. /\ todo'["reporter"] = r /\ todo'["main"] = todo["main"] /\ todo'["leds"] = todo["leds"]
      /\ wake'["main"] = wake["main"] /\ wake'["leds"] = wake["leds"]
    BY <1>0, <1>1 DEF Effect, LedsTypeOK
<1>4. /\ animation' = IF h.op = "animation" THEN h.on ELSE animation
      /\ blinking' = IF h.op = "blinking"
                     THEN IF h.on THEN blinking \cup {h.led} ELSE blinking \ {h.led}
                     ELSE blinking
      /\ pin' = IF h.op = "pin" THEN [pin EXCEPT ![h.led] = h.on] ELSE pin
      /\ status' = IF h.op = "status" THEN [status EXCEPT ![h.led] = h.on] ELSE status
      /\ place' = place /\ reporter' = reporter /\ wanted' = wanted
    BY DEF Effect, threadVars
<1>5. Without(q, Foreign) /\ reporter # "absent"
    BY <1>1, <1>2 DEF Shapes
<1> HIDE DEF q, r, h
<1>6. h \notin Foreign /\ Without(r, Foreign)
    BY <1>2, <1>5, RestWithout DEF r, h
<1>7. h.op = "delay" \/ (h.op \in {"status", "pin", "blinking"} /\ h.led = "red")
    BY <1>2, <1>6 DEF Foreign
<1>8. animation' = animation /\ blinking' \subseteq blinking \cup {"red"}
    BY <1>4, <1>7
<1>9. \A led \in Led \ {"red"} : pin'[led] = pin[led] /\ status'[led] = status[led]
    BY <1>1, <1>4, <1>7 DEF LedsTypeOK
<1>10. Shapes' /\ Before' /\ Starting' /\ Running'
    BY <1>3, <1>4, <1>5, <1>6, <1>8, <1>9, ReporterKeeps
<1>11. LedsTypeOK'
    BY <1>0, <1>1, EffectTyped
<1> QED
    BY <1>10, <1>11 DEF LedsInv

\* The other two threads test no flag.
LEMMA OnlyLedsTest ==
    ASSUME LedsInv, NEW t \in {"main", "reporter"}, TestBlinkFlag(t)
    PROVE  FALSE
<1>1. t \in Thread
    BY DEF Thread
<1>2. todo[t] # <<>> /\ Head(todo[t]).op = "ifblinking"
    BY DEF TestBlinkFlag, Comes
<1>3. todo[t] \in Seq(Statement) /\ Head(todo[t]) \in Statement
    BY <1>1, <1>2, FirstIs DEF LedsInv
<1>4. Head(todo[t]) \in Tests /\ Head(todo[t]) \in Foreign
    BY <1>2, <1>3 DEF Tests, Foreign
<1>5. Without(todo[t], Tests) \/ Without(todo[t], Foreign)
    BY DEF LedsInv, Shapes
<1> QED
    BY <1>2, <1>3, <1>4, <1>5, RestWithout

\* A statement of any thread.
LEMMA DoesKeeps ==
    ASSUME LedsInv, NEW t \in Thread, Does(t)
    PROVE  LedsInv'
<1>1. Effect(t) \/ TestBlinkFlag(t)
    BY DoesIs
<1>2. CASE t = "main"
    BY <1>1, <1>2, MainEffect, OnlyLedsTest
<1>3. CASE t = "leds"
    BY <1>1, <1>3, LedsEffect, LedsTest
<1>4. CASE t = "reporter"
    BY <1>1, <1>4, ReporterEffect, OnlyLedsTest
<1> QED
    BY <1>2, <1>3, <1>4 DEF Thread

\* A decision of the crash report thread.
LEMMA ReporterTurn ==
    ASSUME LedsInv, Reporter
    PROVE  LedsInv'
<1>0. "main" \in Thread /\ "leds" \in Thread /\ "reporter" \in Thread
    BY DEF Thread
<1>1. LedsTypeOK
    BY DEF LedsInv
<1>2. PICK q \in Seq(Statement), from \in {"started", "posting"}, to \in {"posting", "done"} :
          Reports(from, q, to) /\ Without(q, Foreign)
    <2>1. "red" \in Led
        BY DEF Led
    <2>2. Without(<<>>, Foreign) /\ <<>> \in Seq(Statement)
        BY NoneIsWithout
    <2>3. Without(SetLedBlinking("red"), Foreign) /\ SetLedBlinking("red") \in Seq(Statement)
        <3> DEFINE a == [op |-> "blinking", led |-> "red", on |-> TRUE]
        <3>1. a \in Statement /\ a \notin Foreign
            BY <2>1 DEF Statement, Foreign
        <3>2. SetLedBlinking("red") = <<a>>
            BY DEF SetLedBlinking
        <3> HIDE DEF a
        <3> QED
            BY <3>1, <3>2, OneIs
    <2>4. Without(Delay(1), Foreign) /\ Delay(1) \in Seq(Statement)
        <3>1. Foreign \subseteq Active
            BY DEF Foreign, Active, Delays
        <3> QED
            BY <3>1, DelayIs, Narrower
    <2>5. Without(ClearLedBlinking("red"), Foreign) /\ ClearLedBlinking("red") \in Seq(Statement)
        <3> DEFINE a == [op |-> "blinking", led |-> "red", on |-> FALSE]
                   b == [op |-> "status", led |-> "red", on |-> FALSE]
                   c == [op |-> "pin", led |-> "red", on |-> FALSE]
        <3>1. /\ a \in Statement /\ a \notin Foreign
              /\ b \in Statement /\ b \notin Foreign
              /\ c \in Statement /\ c \notin Foreign
            BY <2>1 DEF Statement, Foreign
        <3>2. ClearLedBlinking("red") = <<a>> \o <<b, c>>
            BY DEF ClearLedBlinking, Set
        <3> HIDE DEF a, b, c
        <3>3. <<b, c>> \in Seq(Statement) /\ Without(<<b, c>>, Foreign)
            BY <3>1 DEF Without
        <3>4. <<a>> \in Seq(Statement) /\ Without(<<a>>, Foreign)
            BY <3>1, OneIs
        <3> DEFINE A == <<a>>
                   B == <<b, c>>
        <3>5. A \in Seq(Statement) /\ Without(A, Foreign) /\ B \in Seq(Statement) /\ Without(B, Foreign)
            BY <3>3, <3>4
        <3>6. ClearLedBlinking("red") = A \o B
            BY <3>2
        <3> HIDE DEF A, B
        <3> QED
            BY <3>5, <3>6, Joined, JoinedWithout
    <2> QED
        BY <2>2, <2>3, <2>4, <2>5 DEF Reporter
<1>3. /\ reporter = from /\ reporter' = to /\ Decides("reporter", q)
      /\ UNCHANGED <<frame, lastBlinkStatus, place, wanted>>
    BY <1>2 DEF Reports
<1>4. /\ todo' \in [Thread -> Seq(Statement)]
      /\ todo'["reporter"] = q
      /\ todo'["main"] = todo["main"] /\ todo'["leds"] = todo["leds"]
      /\ UNCHANGED <<animation, blinking, pin, status, wake>>
    BY <1>0, <1>1, <1>3, DecidesTyped
<1>5. reporter # "absent" /\ reporter' # "absent"
    BY <1>3
<1>6. Shapes' /\ Before' /\ Starting' /\ Running'
    BY <1>2, <1>3, <1>4, <1>5, ReporterKeeps
<1>7. LedsTypeOK'
    BY <1>1, <1>3, <1>4 DEF LedsTypeOK
<1> QED
    BY <1>6, <1>7 DEF LedsInv

-----------------------------------------------------------------------------
(***************************************************************************)
(* The main thread's decisions.                                             *)
(***************************************************************************)

\* What the decisions of the main thread have in common.
LEMMA MainDecides ==
    ASSUME LedsInv, NEW q \in Seq(Statement), Decides("main", q), Without(q, Tests),
           place' \in {"setup", "position", "ready", "loop", "reboot", "gone"},
           wanted' \in [Led -> BOOLEAN],
           frame' = frame, lastBlinkStatus' = lastBlinkStatus,
           \/ reporter' = reporter
           \/ reporter = "absent" /\ reporter' = "started",
           reporter' # "absent" => place' \in {"loop", "reboot", "gone"}
    PROVE  /\ LedsTypeOK' /\ Shapes'
           /\ todo'["main"] = q /\ todo'["leds"] = todo["leds"]
           /\ todo["main"] = <<>> /\ wake["main"] = 0
           /\ UNCHANGED <<animation, blinking, pin, status, wake>>
<1>0. "main" \in Thread /\ "leds" \in Thread /\ "reporter" \in Thread
    BY DEF Thread
<1>1. LedsTypeOK /\ Shapes
    BY DEF LedsInv
<1>2. /\ todo' \in [Thread -> Seq(Statement)]
      /\ todo'["main"] = q /\ todo'["leds"] = todo["leds"] /\ todo'["reporter"] = todo["reporter"]
      /\ todo["main"] = <<>> /\ wake["main"] = 0
      /\ UNCHANGED <<animation, blinking, pin, status, wake>>
    BY <1>0, <1>1, DecidesTyped
<1>3. Shapes'
    BY <1>1, <1>2, NoneIsWithout DEF Shapes
<1>4. LedsTypeOK'
    BY <1>1, <1>2 DEF LedsTypeOK
<1> QED
    BY <1>2, <1>3, <1>4

\* The wait for a position turns the animation off and makes yellow blink.
LEMMA AwaitPositionKeeps ==
    ASSUME LedsInv, AwaitPosition
    PROVE  LedsInv'
<1> DEFINE A == SetLedAnimation(FALSE)
           B == SetLedBlinking("yellow")
           q == A \o B
<1>1. /\ A \in Seq(Statement) /\ Without(A, Tests)
      /\ \A led \in {"green", "red"} : Without(A, BlinkFlags(led))
    BY SetLedAnimationIs DEF Led
<1>2. /\ B \in Seq(Statement) /\ Without(B, Tests)
      /\ \A led \in {"green", "red"} : Without(B, BlinkFlags(led))
    BY SetLedBlinkingIs DEF Led
<1>3. /\ place = "setup" /\ place' = "position" /\ Decides("main", q)
      /\ UNCHANGED <<frame, lastBlinkStatus, reporter, wanted>>
    BY DEF AwaitPosition, Main
<1> HIDE DEF A, B
<1>4. /\ q \in Seq(Statement) /\ Without(q, Tests)
      /\ \A led \in {"green", "red"} : Without(q, BlinkFlags(led))
    BY <1>1, <1>2, Joined, JoinedWithout
<1> HIDE DEF q
<1>5. reporter = "absent" /\ blinking = {} /\ wanted \in [Led -> BOOLEAN]
    BY <1>3 DEF LedsInv, Shapes, Before, LedsTypeOK
<1>6. /\ LedsTypeOK' /\ Shapes' /\ todo'["main"] = q
      /\ UNCHANGED <<animation, blinking, pin, status, wake>>
    BY <1>3, <1>4, <1>5, MainDecides
<1>7. Before' /\ Starting' /\ Running'
    BY <1>3, <1>4, <1>5, <1>6 DEF Before, Starting, Running
<1> QED
    BY <1>6, <1>7 DEF LedsInv

\* The end of setup() clears the flags first, and writes every LED after a delay.
LEMMA CompleteSetupKeeps ==
    ASSUME LedsInv, CompleteSetup
    PROVE  LedsInv'
<1>1. /\ wanted' = Ready /\ reporter' = reporter /\ place' = "ready"
      /\ frame' = frame /\ lastBlinkStatus' = lastBlinkStatus
      /\ place \in {"setup", "position"}
      /\ \/ place = "setup" /\ Decides("main", Ending)
         \/ /\ place = "position"
            /\ Decides("main", ClearLedBlinking("yellow") \o SetLedAnimation(TRUE) \o Ending)
    BY DEF CompleteSetup, Main, Ending
<1>2. reporter = "absent" /\ Before
    BY <1>1 DEF LedsInv, Shapes
<1>3. Ready \in [Led -> BOOLEAN]
    BY DEF Ready, Dark
<1>4. PICK q \in Seq(Statement) :
          /\ Decides("main", q) /\ Without(q, Tests)
          /\ LastIs(q, Animations, FALSE)
          /\ \A led \in Led : \/ LastIs(q, BlinkFlags(led), FALSE)
                              \/ Without(q, BlinkFlags(led)) /\ led \notin blinking
          /\ Guarded(q)
          /\ \A led \in Led : LastIs(q, Pins(led), Ready[led]) /\ LastIs(q, Statuses(led), Ready[led])
    <2>1. CASE place = "setup" /\ Decides("main", Ending)
        <3>1. blinking = {}
            BY <1>2, <2>1 DEF Before
        <3> QED
            BY <2>1, <3>1, EndingIs
    <2>2. CASE /\ place = "position"
               /\ Decides("main", ClearLedBlinking("yellow") \o SetLedAnimation(TRUE) \o Ending)
        <3> DEFINE q == ClearLedBlinking("yellow") \o SetLedAnimation(TRUE) \o Ending
        <3>1. blinking \subseteq {"yellow"}
            BY <1>2, <2>2 DEF Before
        <3>2. /\ q \in Seq(Statement) /\ Without(q, Tests)
              /\ LastIs(q, Animations, FALSE)
              /\ LastIs(q, BlinkFlags("yellow"), FALSE)
              /\ \A led \in {"green", "red"} : Without(q, BlinkFlags(led))
              /\ Guarded(q)
              /\ \A led \in Led : LastIs(q, Pins(led), Ready[led]) /\ LastIs(q, Statuses(led), Ready[led])
            BY LateEndingIs
        <3>3. Decides("main", q)
            BY <2>2
        <3> HIDE DEF q
        <3> QED
            BY <3>1, <3>2, <3>3 DEF Led
    <2> QED
        BY <1>1, <2>1, <2>2
<1>5. /\ LedsTypeOK' /\ Shapes' /\ todo'["main"] = q
      /\ UNCHANGED <<animation, blinking, pin, status, wake>>
    BY <1>1, <1>2, <1>3, <1>4, MainDecides
<1>6. Before' /\ Running'
    BY <1>1 DEF Before, Running
<1>7. /\ Settled(todo'["main"], Animations, FALSE, animation')
      /\ \A led \in Led : Cleared(led)'
      /\ \A led \in Led : Told(led)'
      /\ Guarded(todo'["main"])
    BY <1>1, <1>4, <1>5 DEF Settled, Cleared, Told
<1>8. Starting'
    BY <1>1, <1>7 DEF Starting
<1> QED
    BY <1>5, <1>6, <1>8 DEF LedsInv

\* By then the delay is over, and the LED thread quiet.
LEMMA EnterLoopKeeps ==
    ASSUME LedsInv, EnterLoop
    PROVE  LedsInv'
<1>1. /\ place = "ready" /\ place' = "loop" /\ Decides("main", <<>>)
      /\ UNCHANGED <<frame, lastBlinkStatus, wanted>>
      /\ reporter' \in {"absent", "started"}
    BY DEF EnterLoop, Main
<1>2. /\ reporter = "absent" /\ Spared = {} /\ wanted \in [Led -> BOOLEAN]
    BY <1>1 DEF LedsInv, Shapes, LedsTypeOK, Spared
<1>3. /\ \A led \in Led : Told(led)
      /\ Guarded(todo["main"]) \/ Waiting \/ Calm
    BY <1>1 DEF LedsInv, Starting
<1>4. <<>> \in Seq(Statement) /\ Without(<<>>, Tests)
    BY NoneIsWithout
<1>5. /\ LedsTypeOK' /\ Shapes' /\ todo'["main"] = <<>> /\ todo'["leds"] = todo["leds"]
      /\ todo["main"] = <<>> /\ wake["main"] = 0
      /\ UNCHANGED <<animation, blinking, pin, status, wake>>
    BY <1>1, <1>2, <1>4, MainDecides
<1>6. Calm
    <2>1. ~Guarded(<<>>)
        BY DEF Guarded
    <2>2. ~Waiting
        BY <1>5 DEF Waiting
    <2> QED
        BY <1>3, <1>5, <2>1, <2>2
<1>7. Calm'
    BY <1>2, <1>5, <1>6 DEF Calm
<1>8. \A led \in Led : Told(led)'
    BY <1>1, <1>3, <1>5 DEF Told
<1>9. Before' /\ Starting' /\ Running'
    BY <1>1, <1>7, <1>8 DEF Before, Starting, Running
<1> QED
    BY <1>5, <1>9 DEF LedsInv

\* What was told before and is not told otherwise now.
LEMMA StillTold ==
    ASSUME NEW q, NEW led, Told(led), todo["main"] = <<>>,
           Without(q, Pins(led)), Without(q, Statuses(led))
    PROVE  /\ Settled(q, Pins(led), wanted[led], pin[led])
           /\ Settled(q, Statuses(led), wanted[led], status[led])
<1>1. Len(<<>>) = 0
    OBVIOUS
<1> QED
    BY <1>1 DEF Told, Settled, LastIs

\* The loop writes one LED; the others keep what they were told.
LEMMA ShowNetworkOrEventKeeps ==
    ASSUME LedsInv, ShowNetworkOrEvent
    PROVE  LedsInv'
<1>1. PICK led \in {"yellow", "red"}, on \in BOOLEAN :
          /\ Main({"loop"}, Set(led, on) \o Delay(1), "loop")
          /\ wanted' = [wanted EXCEPT ![led] = on]
          /\ UNCHANGED reporter
    BY DEF ShowNetworkOrEvent
<1> DEFINE q == Set(led, on) \o Delay(1)
<1>2. led \in Led
    BY DEF Led
<1>3. /\ q \in Seq(Statement) /\ Without(q, Flags) /\ Without(q, Tests)
      /\ LastIs(q, Pins(led), on) /\ LastIs(q, Statuses(led), on)
      /\ \A other \in Led \ {led} : Without(q, Pins(other)) /\ Without(q, Statuses(other))
    BY <1>2, ShowIs
<1>4. /\ place = "loop" /\ place' = "loop" /\ Decides("main", q)
      /\ UNCHANGED <<frame, lastBlinkStatus>>
    BY <1>1 DEF Main
<1> HIDE DEF q
<1>5. wanted \in [Led -> BOOLEAN] /\ Calm /\ \A other \in Led \ Spared : Told(other)
    BY <1>4 DEF LedsInv, LedsTypeOK, Running
<1>6. wanted' \in [Led -> BOOLEAN]
    BY <1>1, <1>2, <1>5
<1>7. /\ LedsTypeOK' /\ Shapes' /\ todo'["main"] = q /\ todo'["leds"] = todo["leds"]
      /\ todo["main"] = <<>> /\ wake["main"] = 0
      /\ UNCHANGED <<animation, blinking, pin, status, wake>>
    BY <1>1, <1>3, <1>4, <1>6, MainDecides
<1>8. Spared' = Spared
    BY <1>1 DEF Spared
<1>9. Calm'
    BY <1>3, <1>5, <1>7, <1>8 DEF Calm
<1>10. ASSUME NEW other \in Led \ Spared
       PROVE  Told(other)'
    <2>1. CASE other = led
        <3>1. wanted'[other] = on
            BY <1>1, <1>2, <1>5, <2>1
        <3> QED
            BY <1>3, <1>7, <2>1, <3>1 DEF Told, Settled
    <2>2. CASE other # led
        <3>1. wanted'[other] = wanted[other]
            BY <1>1, <1>2, <1>5, <2>2
        <3>2. Without(q, Pins(other)) /\ Without(q, Statuses(other)) /\ Told(other)
            BY <1>3, <1>5, <2>2
        <3>3. /\ Settled(q, Pins(other), wanted[other], pin[other])
              /\ Settled(q, Statuses(other), wanted[other], status[other])
            BY <1>7, <3>2, StillTold
        <3> QED
            BY <1>7, <3>1, <3>3 DEF Told
    <2> QED
        BY <2>1, <2>2
<1>11. Before' /\ Starting' /\ Running'
    BY <1>4, <1>8, <1>9, <1>10 DEF Before, Starting, Running
<1> QED
    BY <1>7, <1>11 DEF LedsInv

\* A reboot ordered in the loop writes all three.
LEMMA ShowRebootKeeps ==
    ASSUME LedsInv, ShowReboot
    PROVE  LedsInv'
<1> DEFINE q == Set("green", FALSE) \o Set("yellow", FALSE) \o Set("red", TRUE)
           shown == [Dark EXCEPT !["red"] = TRUE]
<1>1. /\ q \in Seq(Statement) /\ Without(q, Flags) /\ Without(q, Tests)
      /\ \A led \in Led : LastIs(q, Pins(led), shown[led]) /\ LastIs(q, Statuses(led), shown[led])
    BY ThreeIs
<1>2. /\ Decides("main", q) /\ UNCHANGED <<frame, lastBlinkStatus, reporter>>
      /\ wanted' = shown
      /\ \/ place = "loop" /\ place' = "reboot"
         \/ place = "position" /\ place' = "gone"
    BY DEF ShowReboot, Main
<1>3. shown \in [Led -> BOOLEAN]
    BY DEF Dark
<1> HIDE DEF q, shown
<1>4. /\ LedsTypeOK' /\ Shapes' /\ todo'["main"] = q /\ todo'["leds"] = todo["leds"]
      /\ todo["main"] = <<>> /\ wake["main"] = 0
      /\ UNCHANGED <<animation, blinking, pin, status, wake>>
    BY <1>1, <1>2, <1>3, MainDecides
<1>5. Spared' = Spared
    BY <1>2 DEF Spared
<1>6. \A led \in Led : Told(led)'
    BY <1>1, <1>2, <1>4 DEF Told, Settled
<1>7. place = "loop" => Calm'
    <2>1. place = "loop" => Calm
        BY DEF LedsInv, Running
    <2> QED
        BY <2>1, <1>1, <1>4, <1>5 DEF Calm
<1>8. Before' /\ Starting' /\ Running'
    BY <1>2, <1>6, <1>7 DEF Before, Starting, Running
<1> QED
    BY <1>4, <1>8 DEF LedsInv

\* Of a process that goes nothing more is said.
LEMMA GoneKeeps ==
    ASSUME LedsInv, PlatformUpgrade \/ RebootUnseen
    PROVE  LedsInv'
<1>1. /\ UNCHANGED <<frame, lastBlinkStatus, reporter>> /\ place' = "gone"
      /\ wanted' \in [Led -> BOOLEAN]
    BY DEF PlatformUpgrade, RebootUnseen, Main, LedsInv, LedsTypeOK, Dark
<1>2. \E q \in Seq(Statement) : Decides("main", q) /\ Without(q, Tests)
    <2> DEFINE A == Set("green", FALSE) \o Set("yellow", FALSE) \o Set("red", FALSE)
               B == SetLedBlinking("red")
    <2>1. A \in Seq(Statement) /\ Without(A, Tests)
        BY ThreeIs
    <2>2. B \in Seq(Statement) /\ Without(B, Tests)
        BY SetLedBlinkingIs DEF Led
    <2>3. Decides("main", A \o B) \/ Decides("main", <<>>)
        BY DEF PlatformUpgrade, RebootUnseen, Main
    <2> HIDE DEF A, B
    <2>4. A \o B \in Seq(Statement) /\ Without(A \o B, Tests)
        BY <2>1, <2>2, Joined, JoinedWithout
    <2> QED
        BY <2>3, <2>4, NoneIsWithout
<1>3. LedsTypeOK' /\ Shapes'
    BY <1>1, <1>2, MainDecides
<1>4. Before' /\ Starting' /\ Running'
    BY <1>1 DEF Before, Starting, Running
<1> QED
    BY <1>3, <1>4 DEF LedsInv

\* A wait changes nothing.
LEMMA MainWaitsKeeps ==
    ASSUME LedsInv, MainWaits
    PROVE  LedsInv'
<1> DEFINE q == Delay(1)
<1>1. q \in Seq(Statement) /\ Without(q, Active)
    BY DelayIs
<1>2. /\ Decides("main", q) /\ UNCHANGED <<frame, lastBlinkStatus, reporter, place, wanted>>
      /\ place \in {"setup", "position", "loop"}
    BY DEF MainWaits, threadVars
<1> HIDE DEF q
<1>3. /\ Without(q, Tests) /\ Without(q, Flags)
      /\ \A led \in Led : Without(q, Pins(led)) /\ Without(q, Statuses(led))
      /\ \A led \in Led : Without(q, BlinkFlags(led))
    BY <1>1, Kinds, Narrower
<1>4. LedsTypeOK /\ Shapes /\ Before /\ Running
    BY DEF LedsInv
<1>5. /\ LedsTypeOK' /\ Shapes' /\ todo'["main"] = q /\ todo'["leds"] = todo["leds"]
      /\ todo["main"] = <<>> /\ wake["main"] = 0
      /\ UNCHANGED <<animation, blinking, pin, status, wake>>
    <2>1. wanted' \in [Led -> BOOLEAN]
        BY <1>2, <1>4 DEF LedsTypeOK
    <2>2. reporter' # "absent" => place' \in {"loop", "reboot", "gone"}
        BY <1>2, <1>4 DEF Shapes
    <2> QED
        BY <1>1, <1>2, <1>3, <2>1, <2>2, MainDecides
<1>6. Spared' = Spared
    BY <1>2 DEF Spared
<1>7. Before'
    BY <1>2, <1>3, <1>4, <1>5 DEF Before, Led
<1>8. Starting'
    BY <1>2 DEF Starting
<1>9. Running'
    <2> SUFFICES ASSUME place = "loop" PROVE Calm' /\ \A led \in Led \ Spared : Told(led)'
        BY <1>2, <1>6 DEF Running
    <2>1. Calm /\ \A led \in Led \ Spared : Told(led)
        BY <1>4 DEF Running
    <2>2. Calm'
        BY <2>1, <1>3, <1>5, <1>6 DEF Calm
    <2>3. ASSUME NEW led \in Led \ Spared PROVE Told(led)'
        <3>1. /\ Settled(q, Pins(led), wanted[led], pin[led])
              /\ Settled(q, Statuses(led), wanted[led], status[led])
            BY <1>3, <1>5, <2>1, StillTold
        <3> QED
            BY <1>2, <1>5, <3>1 DEF Told
    <2> QED
        BY <2>2, <2>3
<1> QED
    BY <1>5, <1>7, <1>8, <1>9 DEF LedsInv

\* The first list of a process.
LEMMA FirstList ==
    LET first == [t \in Thread |-> IF t = "main" THEN SetLedAnimation(TRUE) ELSE <<>>]
    IN  /\ first \in [Thread -> Seq(Statement)]
        /\ first["leds"] = <<>> /\ first["reporter"] = <<>>
        /\ Without(first["main"], Tests)
        /\ \A led \in Led : Without(first["main"], BlinkFlags(led))
<1> DEFINE A == SetLedAnimation(TRUE)
<1>1. /\ A \in Seq(Statement) /\ Without(A, Tests)
      /\ \A led \in Led : Without(A, BlinkFlags(led))
    BY SetLedAnimationIs
<1> HIDE DEF A
<1> DEFINE first == [t \in Thread |-> IF t = "main" THEN A ELSE <<>>]
<1>2. first["main"] = A /\ first["leds"] = <<>> /\ first["reporter"] = <<>>
    BY DEF Thread
<1>3. first \in [Thread -> Seq(Statement)]
    BY <1>1
<1> QED
    BY <1>1, <1>2, <1>3 DEF A

\* An empty list is the end of a turn.
LEMMA NoneDelayLast == DelayLast(<<>>)
BY DEF DelayLast

\* A new process begins as the first one did.
LEMMA RestartKeeps ==
    ASSUME LedsInv, Restart
    PROVE  LedsInv'
<1> DEFINE first == [t \in Thread |-> IF t = "main" THEN SetLedAnimation(TRUE) ELSE <<>>]
<1>1. /\ first \in [Thread -> Seq(Statement)]
      /\ first["leds"] = <<>> /\ first["reporter"] = <<>>
      /\ Without(first["main"], Tests)
      /\ \A led \in Led : Without(first["main"], BlinkFlags(led))
    BY FirstList
<1>2. todo' = first
    BY DEF Restart
<1> HIDE DEF first
<1>3. /\ pin' \in {pin, Dark} /\ status' = Dark
      /\ animation' = FALSE /\ blinking' = {}
      /\ wake' = [t \in Thread |-> 0]
      /\ frame' = 0 /\ lastBlinkStatus' = FALSE
      /\ place' = "setup" /\ reporter' = "absent" /\ wanted' = Dark
    BY DEF Restart
<1>4. wake'["leds"] = 0
    BY <1>3 DEF Thread
<1>5. Dark \in [Led -> BOOLEAN]
    BY DEF Dark
<1>6. LedsTypeOK'
    <2>1. wake' \in [Thread -> Nat]
        BY <1>3
    <2>2. pin' \in [Led -> BOOLEAN] /\ status' \in [Led -> BOOLEAN] /\ wanted' \in [Led -> BOOLEAN]
        BY <1>3, <1>5 DEF LedsInv, LedsTypeOK
    <2>3. frame' \in 0 .. 2 /\ todo' \in [Thread -> Seq(Statement)]
        BY <1>1, <1>2, <1>3
    <2> QED
        BY <1>3, <2>1, <2>2, <2>3 DEF LedsTypeOK
<1>7. Shapes'
    BY <1>1, <1>2, <1>3, <1>4, NoneIsWithout, NoneDelayLast DEF Shapes
<1>8. Before' /\ Starting' /\ Running'
    BY <1>1, <1>2, <1>3 DEF Before, Starting, Running
<1> QED
    BY <1>6, <1>7, <1>8 DEF LedsInv

\* The invariant holds at the start.
LEMMA InitIs ==
    ASSUME LedsInit
    PROVE  LedsInv
<1> DEFINE first == [t \in Thread |-> IF t = "main" THEN SetLedAnimation(TRUE) ELSE <<>>]
<1>1. /\ first \in [Thread -> Seq(Statement)]
      /\ first["leds"] = <<>> /\ first["reporter"] = <<>>
      /\ Without(first["main"], Tests)
      /\ \A led \in Led : Without(first["main"], BlinkFlags(led))
    BY FirstList
<1>2. todo = first
    BY DEF LedsInit
<1> HIDE DEF first
<1>3. /\ pin \in [Led -> BOOLEAN] /\ status = Dark
      /\ animation = FALSE /\ blinking = {}
      /\ wake = [t \in Thread |-> 0]
      /\ frame = 0 /\ lastBlinkStatus = FALSE
      /\ place = "setup" /\ reporter = "absent" /\ wanted = Dark
    BY DEF LedsInit
<1>4. wake["leds"] = 0
    BY <1>3 DEF Thread
<1>5. Dark \in [Led -> BOOLEAN]
    BY DEF Dark
<1>6. LedsTypeOK
    <2>1. wake \in [Thread -> Nat]
        BY <1>3
    <2>2. pin \in [Led -> BOOLEAN] /\ status \in [Led -> BOOLEAN] /\ wanted \in [Led -> BOOLEAN]
        BY <1>3, <1>5
    <2>3. frame \in 0 .. 2 /\ todo \in [Thread -> Seq(Statement)]
        BY <1>1, <1>2, <1>3
    <2> QED
        BY <1>3, <2>1, <2>2, <2>3 DEF LedsTypeOK
<1>7. Shapes
    BY <1>1, <1>2, <1>3, <1>4, NoneIsWithout, NoneDelayLast DEF Shapes
<1>8. Before /\ Starting /\ Running
    BY <1>1, <1>2, <1>3 DEF Before, Starting, Running
<1> QED
    BY <1>6, <1>7, <1>8 DEF LedsInv

\* Time passes only while the LED thread waits, so that it has done its turn.
LEMMA TickKeeps ==
    ASSUME LedsInv, Tick
    PROVE  LedsInv'
<1>0. "main" \in Thread /\ "leds" \in Thread
    BY DEF Thread
<1>1. LedsTypeOK /\ Shapes /\ Before /\ Starting /\ Running
    BY DEF LedsInv
<1>2. /\ wake' = [t \in Thread |-> IF wake[t] = 0 THEN 0 ELSE wake[t] - 1]
      /\ UNCHANGED <<animation, blinking, pin, status, todo, frame, lastBlinkStatus, place,
                     reporter, wanted>>
    BY DEF Tick, flagVars, pinVars, threadVars
<1>3. wake["leds"] > 0
    BY <1>0 DEF Tick, Idle
<1>4. todo["leds"] = <<>>
    BY <1>1, <1>3 DEF Shapes
<1>5. wake' \in [Thread -> Nat]
    BY <1>1, <1>2 DEF LedsTypeOK
<1>6. LedsTypeOK'
    BY <1>1, <1>2, <1>5 DEF LedsTypeOK
<1>7. Shapes'
    BY <1>1, <1>2, <1>4 DEF Shapes
<1>8. Before'
    BY <1>1, <1>2 DEF Before
<1>9. Spared' = Spared
    BY <1>2 DEF Spared
<1>10. Calm => Calm'
    BY <1>2, <1>9 DEF Calm
<1>11. \A led \in Led : Told(led) => Told(led)'
    BY <1>2 DEF Told
<1>12. Running'
    BY <1>1, <1>2, <1>9, <1>10, <1>11 DEF Running
<1>13. Waiting => Calm'
    BY <1>2, <1>4, NoneIsWithout DEF Waiting, Calm, WritesAll
<1>14. \A led \in Led : Cleared(led) => Cleared(led)'
    BY <1>2 DEF Cleared
<1>15. Starting'
    <2> SUFFICES ASSUME place = "ready" PROVE Starting'
        BY <1>2 DEF Starting
    <2>1. /\ wanted = Ready
          /\ Settled(todo["main"], Animations, FALSE, animation)
          /\ \A led \in Led : Cleared(led)
          /\ \A led \in Led : Told(led)
          /\ Guarded(todo["main"]) \/ Waiting \/ Calm
        BY <1>1 DEF Starting
    <2> QED
        BY <2>1, <1>2, <1>10, <1>11, <1>13, <1>14 DEF Starting
<1> QED
    BY <1>6, <1>7, <1>8, <1>12, <1>15 DEF LedsInv

\* Every step keeps the invariant.
LEMMA NextKeeps ==
    ASSUME LedsInv, [LedsNext]_ledsVars
    PROVE  LedsInv'
<1>1. CASE \E t \in Thread : Does(t)
    BY <1>1, DoesKeeps
<1>2. CASE LedThread
    BY <1>2, LedThreadTurn
<1>3. CASE AwaitPosition
    BY <1>3, AwaitPositionKeeps
<1>4. CASE CompleteSetup
    BY <1>4, CompleteSetupKeeps
<1>5. CASE EnterLoop
    BY <1>5, EnterLoopKeeps
<1>6. CASE ShowNetworkOrEvent
    BY <1>6, ShowNetworkOrEventKeeps
<1>7. CASE ShowReboot
    BY <1>7, ShowRebootKeeps
<1>8. CASE PlatformUpgrade \/ RebootUnseen
    BY <1>8, GoneKeeps
<1>9. CASE Restart
    BY <1>9, RestartKeeps
<1>10. CASE MainWaits
    BY <1>10, MainWaitsKeeps
<1>11. CASE Reporter
    BY <1>11, ReporterTurn
<1>12. CASE Tick
    BY <1>12, TickKeeps
<1>13. CASE UNCHANGED ledsVars
    <2>1. UNCHANGED <<animation, blinking, pin, status, todo, wake, frame, lastBlinkStatus, place,
                      reporter, wanted>>
        BY <1>13 DEF ledsVars, flagVars, pinVars, threadVars
    <2>2. LedsTypeOK'
        BY <2>1 DEF LedsInv, LedsTypeOK
    <2>3. Spared' = Spared /\ (Calm => Calm') /\ (Waiting => Waiting')
        BY <2>1 DEF Spared, Calm, Waiting
    <2>4. \A led \in Led : (Told(led) => Told(led)') /\ (Cleared(led) => Cleared(led)')
        BY <2>1 DEF Told, Cleared
    <2>5. Shapes' /\ Before'
        BY <2>1 DEF LedsInv, Shapes, Before
    <2>6. Starting' /\ Running'
        BY <2>1, <2>3, <2>4 DEF LedsInv, Starting, Running
    <2> QED
        BY <2>2, <2>5, <2>6 DEF LedsInv
<1> QED
    BY <1>1, <1>2, <1>3, <1>4, <1>5, <1>6, <1>7, <1>8, <1>9, <1>10, <1>11, <1>12, <1>13
    DEF LedsNext

\* Statements, delays and flags keep their types, for every number of rounds
\* and every length of a frame and of a blink.
THEOREM LedsTypeCorrect == LedsSpec => []LedsTypeOK
<1>1. LedsInit => LedsInv
    BY InitIs
<1>2. LedsInv /\ [LedsNext]_ledsVars => LedsInv'
    BY NextKeeps
<1>3. LedsInv => LedsTypeOK
    BY DEF LedsInv
<1> QED
    BY <1>1, <1>2, <1>3, PTL DEF LedsSpec

\* setup() and loop(): no race of the LED thread with setup() leaves a wrong
\* LED in the loop.
THEOREM ShowsWhatWasToldHolds == LedsSpec => []ShowsWhatWasTold
<1>1. LedsInit => LedsInv
    BY InitIs
<1>2. LedsInv /\ [LedsNext]_ledsVars => LedsInv'
    BY NextKeeps
<1>3. LedsInv => ShowsWhatWasTold
    <2> SUFFICES ASSUME LedsInv, place \in {"loop", "reboot"}, todo["main"] = <<>>,
                        NEW led \in Led, led = "red" => reporter = "absent"
                 PROVE  pin[led] = wanted[led] /\ status[led] = wanted[led]
        BY DEF ShowsWhatWasTold
    <2>1. led \in Led \ Spared
        BY DEF Spared
    <2>2. Told(led)
        BY <2>1 DEF LedsInv, Running
    <2>3. Len(<<>>) = 0
        OBVIOUS
    <2> QED
        BY <2>2, <2>3 DEF Told, Settled, LastIs
<1> QED
    BY <1>1, <1>2, <1>3, PTL DEF LedsSpec

-----------------------------------------------------------------------------
(***************************************************************************)
(* The command interface and the configuration.                             *)
(***************************************************************************)

USE ConfigAssumption, CommandAssumption

-----------------------------------------------------------------------------
(***************************************************************************)
(* A coordinate through the file.                                           *)
(***************************************************************************)

\* A number without its last digits.
LEMMA Cut ==
    ASSUME NEW m \in Nat, NEW u \in Nat \ {0}
    PROVE  /\ m \div u \in Nat
           /\ (m \div u) * u <= m
           /\ m < (m \div u) * u + u
           /\ (m * u) \div u = m
OBVIOUS

\* Cutting off digits twice is once, and spares whole thousands.
LEMMA CutTwice ==
    ASSUME NEW m \in Nat, NEW u \in {1, 10, 100, 1000}
    PROVE  LET kept == (m \div u) * u
           IN  /\ kept \in Nat /\ kept <= m
               /\ (kept \div u) * u = kept
               /\ \A k \in Nat : m >= k * 1000 => kept >= k * 1000
<1> DEFINE q == m \div u
<1>1. u \in Nat \ {0}
    OBVIOUS
<1>2. q \in Nat /\ q * u <= m /\ m < q * u + u
    BY <1>1, Cut
<1> HIDE DEF q
<1>3. (q * u) \div u = q
    BY <1>1, <1>2, Cut
<1>4. q * u \in Nat
    BY <1>1, <1>2
<1>5. ASSUME NEW k \in Nat, m >= k * 1000
      PROVE  q * u >= k * 1000
    <2>1. CASE u = 1
        BY <1>2, <1>5, <2>1
    <2>2. CASE u = 10
        BY <1>2, <1>5, <2>2
    <2>3. CASE u = 100
        BY <1>2, <1>5, <2>3
    <2>4. CASE u = 1000
        BY <1>2, <1>5, <2>4
    <2> QED
        BY <2>1, <2>2, <2>3, <2>4
<1> QED
    BY <1>2, <1>3, <1>4, <1>5 DEF q

LEMMA Degrees ==
    /\ TenDegrees \in Nat /\ HundredDegrees \in Nat /\ 0 < TenDegrees
    /\ TenDegrees < HundredDegrees
    /\ \E k \in Nat : TenDegrees = k * 1000
    /\ \E k \in Nat : HundredDegrees = k * 1000
<1>1. /\ TenDegrees \in Nat /\ HundredDegrees \in Nat /\ 0 < TenDegrees
      /\ TenDegrees < HundredDegrees
    BY SMT DEF TenDegrees, HundredDegrees
<1>2. 10000 \in Nat /\ TenDegrees = 10000 * 1000
    BY SMT DEF TenDegrees
<1>3. 100000 \in Nat /\ HundredDegrees = 100000 * 1000
    BY SMT DEF HundredDegrees
<1> QED
    BY <1>1, <1>2, <1>3, SMT

\* What the file gives back is an integer, and another time through the file it
\* loses nothing more: a restart after a restart changes no position.
LEMMA ReadBackOnce ==
    ASSUME NEW c \in Int
    PROVE  ReadBack(c) \in Int /\ ReadBack(ReadBack(c)) = ReadBack(c)
<1> DEFINE m == Magnitude(c)
           u == FileUnit(c)
           kept == (m \div u) * u
<1>1. m \in Nat /\ (c < 0 => c = -m) /\ (~(c < 0) => c = m)
    BY DEF Magnitude
<1>2. u \in {1, 10, 100, 1000}
    BY <1>1 DEF FileUnit
<1>3. /\ kept \in Nat /\ kept <= m
      /\ (kept \div u) * u = kept
    BY <1>1, <1>2, CutTwice
<1>4. /\ m >= TenDegrees => kept >= TenDegrees
      /\ m >= HundredDegrees => kept >= HundredDegrees
    <2>1. \A k \in Nat : m >= k * 1000 => kept >= k * 1000
        BY <1>1, <1>2, CutTwice
    <2>2. PICK k \in Nat : TenDegrees = k * 1000
        BY Degrees
    <2>3. PICK j \in Nat : HundredDegrees = j * 1000
        BY Degrees
    <2> QED
        BY <2>1, <2>2, <2>3
<1>5. ReadBack(c) = IF c < 0 THEN -kept ELSE kept
    BY DEF ReadBack
<1>6. Magnitude(ReadBack(c)) = kept
    BY <1>3, <1>5 DEF Magnitude
<1>7. CASE kept = 0
    <2>1. ReadBack(c) = 0
        BY <1>5, <1>7
    <2>2. Magnitude(0) = 0 /\ FileUnit(0) \in {1, 10, 100, 1000}
        BY Degrees DEF FileUnit, Magnitude
    <2>3. (0 \div FileUnit(0)) * FileUnit(0) = 0
        BY <2>2, CutTwice
    <2>4. ReadBack(0) = 0
        BY <2>2, <2>3 DEF ReadBack
    <2> QED
        BY <2>1, <2>4
<1>8. CASE kept # 0
    <2>1. ReadBack(c) < 0 <=> c < 0
        BY <1>3, <1>5, <1>8
    <2>2. /\ kept >= TenDegrees <=> m >= TenDegrees
          /\ kept >= HundredDegrees <=> m >= HundredDegrees
        BY <1>1, <1>3, <1>4, Degrees
    <2>3. FileUnit(ReadBack(c)) = u
        BY <1>6, <2>1, <2>2 DEF FileUnit
    <2>4. ReadBack(ReadBack(c)) = IF c < 0 THEN -kept ELSE kept
        BY <1>3, <1>6, <2>1, <2>3 DEF ReadBack
    <2> QED
        BY <1>3, <1>5, <2>4
<1> QED
    BY <1>7, <1>8

\* The coordinates of the model: those the app sends, and what a file makes of them.
LEMMA CoordinatesClosed ==
    /\ Coordinates \subseteq Int
    /\ 0 \in Coordinates
    /\ \A c \in Coordinates : ReadBack(c) \in Coordinates
    /\ \A p \in Positions : p[1] \in Coordinates /\ p[2] \in Coordinates
<1> DEFINE sent == {0} \cup {p[1] : p \in Positions} \cup {p[2] : p \in Positions}
<1>1. sent \subseteq Int
    OBVIOUS
<1>2. Coordinates = sent \cup {ReadBack(c) : c \in sent}
    BY DEF Coordinates
<1>3. \A p \in Positions : p[1] \in sent /\ p[2] \in sent
    OBVIOUS
<1>4. 0 \in sent
    OBVIOUS
<1> HIDE DEF sent
<1>5. \A c \in sent : ReadBack(c) \in Int /\ ReadBack(ReadBack(c)) = ReadBack(c)
    BY <1>1, ReadBackOnce
<1> QED
    BY <1>1, <1>2, <1>3, <1>4, <1>5

-----------------------------------------------------------------------------
(***************************************************************************)
(* Types: those of the file and its copy on the disk, and those of the rest. *)
(***************************************************************************)

Files == {Absent, Empty} \cup [kind : {"saved"}, mac : StoredMACs \cup {InterfaceMAC},
                               lat : Coordinates, lon : Coordinates]

LEMMA FilesOK == \A f : FileOK(f, Coordinates) <=> f \in Files
BY DEF FileOK, Files

LEMMA SavedTyped ==
    ASSUME NEW f \in Files, f.kind = "saved"
    PROVE  /\ f.mac \in StoredMACs \cup {InterfaceMAC}
           /\ f.lat \in Coordinates /\ f.lon \in Coordinates
           /\ f # Absent /\ f # Empty
BY DEF Files, Absent, Empty

\* A file is written only with an address: a boot finds or stores one first.
Addressed == pc # "down" => macAddress # NoMAC

TypeInv == TypeOK /\ Addressed /\ (saving = "lon" => packet \in Positions)

LEMMA InitTypes == Init => TypeInv
<1> SUFFICES ASSUME Init PROVE TypeInv
    OBVIOUS
<1>1. file \in Files /\ identity \in StoredMACs \cup {InterfaceMAC}
    <2>1. CASE file = Absent
        BY <2>1 DEF Init, InitConfig, Files
    <2>2. CASE file # Absent
        <3>1. PICK m \in StoredMACs : file = Saved(m, 0, 0)
            BY <2>2 DEF Init, InitConfig
        <3> QED
            BY <2>2, <3>1, CoordinatesClosed DEF Init, InitConfig, Files, Saved
    <2> QED
        BY <2>1, <2>2
<1>2. FileOK(file, Coordinates) /\ FileOK(disk, Coordinates)
    BY <1>1, FilesOK DEF Init, InitConfig
<1> QED
    BY <1>1, <1>2, CoordinatesClosed DEF Init, InitConfig, TypeInv, TypeOK, Addressed

LEMMA TypesInductive == TypeInv /\ [Next]_vars => TypeInv'
<1> SUFFICES ASSUME TypeInv, [Next]_vars PROVE TypeInv'
    OBVIOUS
<1>f. file \in Files /\ disk \in Files
    BY FilesOK DEF TypeInv, TypeOK
<1> SUFFICES file' \in Files /\ disk' \in Files /\ (TypeInv' \/ ~FileOK(file', Coordinates)
                                                           \/ ~FileOK(disk', Coordinates))
    BY FilesOK
<1> USE DEF TypeInv, TypeOK, Addressed, configVars
<1>1. CASE HandleQuery
    BY <1>1, <1>f DEF HandleQuery
<1>2. CASE HandleSendGPS
    BY <1>2, <1>f, CoordinatesClosed DEF HandleSendGPS
<1>3. CASE Save
    <2>1. CASE OpenFile /\ UNCHANGED <<packet, acked>>
        <3>1. file' \in Files
            BY <2>1 DEF OpenFile, Files
        <3> QED
            BY <1>3, <2>1, <3>1, <1>f DEF Save, OpenFile
    <2>2. ASSUME AfterSave, pc \in {"open", "write"}
          PROVE  /\ lat' \in Coordinates /\ lon' \in Coordinates
                 /\ pc' \in {"ready", "open"} /\ saving' \in {"none", "lat"}
                 /\ (pc' = "open") <=> (saving' # "none")
                 /\ packet' \in Positions \cup {NoPosition}
                 /\ acked' \in Positions \cup {NoPosition}
        BY <2>2, CoordinatesClosed DEF AfterSave
    <2>3. CASE WriteFile(AfterSave)
        <3>1. file' \in Files
            <4>1. file' = Saved(macAddress, lat, lon) /\ pc = "write"
                BY <2>3 DEF WriteFile
            <4>2. macAddress \in StoredMACs \cup {InterfaceMAC}
                BY <4>1
            <4> QED
                BY <4>1, <4>2 DEF Saved, Files
        <3> QED
            BY <1>3, <2>2, <2>3, <3>1, <1>f DEF Save, WriteFile
    <2>4. CASE SaveFails(AfterSave)
        BY <1>3, <2>2, <2>4, <1>f DEF Save, SaveFails
    <2> QED
        BY <1>3, <2>1, <2>3, <2>4 DEF Save
<1>4. CASE HandleSetSyslog
    BY <1>4, <1>f DEF HandleSetSyslog
<1>5. CASE HandleReboot
    BY <1>5, <1>f, CoordinatesClosed DEF HandleReboot, Down, Forget
<1>6. CASE HandleReset \/ HandleGetInfo
    <2>1. CASE RemoveAndReboot
        BY <2>1, CoordinatesClosed DEF RemoveAndReboot, Down, Forget, Files
    <2>2. CASE UNCHANGED vars
        BY <2>2, <1>f DEF vars
    <2> QED
        BY <1>6, <2>1, <2>2 DEF HandleReset, HandleGetInfo, vars
<1>7. CASE CrashAnywhere
    BY <1>7, <1>f, CoordinatesClosed DEF CrashAnywhere, Crash, PowerLoss, Forget
<1>8. CASE Background
    <2>1. CASE WriteBack
        BY <1>8, <2>1, <1>f DEF Background, WriteBack
    <2>2. CASE Boot
        <3>1. CASE file = Absent \/ file = Empty
            BY <1>8, <2>2, <3>1, <1>f, CoordinatesClosed
            DEF Background, Boot, Absent, Empty
        <3>2. CASE file.kind = "saved"
            BY <1>8, <2>2, <3>2, <1>f, CoordinatesClosed, SavedTyped DEF Background, Boot
        <3> QED
            BY <2>2, <3>1, <3>2 DEF Boot
    <2> QED
        BY <1>8, <2>1, <2>2 DEF Background
<1>9. CASE UNCHANGED vars
    BY <1>9, <1>f DEF vars
<1> QED
    BY <1>1, <1>2, <1>3, <1>4, <1>5, <1>6, <1>7, <1>8, <1>9 DEF Next

\* Every reachable state has the declared types: in particular a file is absent,
\* empty or whole, and a save is under way exactly while a setter is.
THEOREM TypeCorrect == Spec => []TypeOK
<1>1. TypeInv => TypeOK
    BY DEF TypeInv
<1> QED
    BY <1>1, InitTypes, TypesInductive, PTL DEF Spec

-----------------------------------------------------------------------------
(***************************************************************************)
(* What survives, through the three states the program can be in: down,     *)
(* when only the file counts; in service; and within a save, when nothing is *)
(* known of the file but everything of what will be written to it.          *)
(***************************************************************************)

\* The file says what p says, to the digits it keeps.
FileSays(p) == ReadBack(file.lat) = ReadBack(p[1]) /\ ReadBack(file.lon) = ReadBack(p[2])

\* In service or booting, the sensor is who it should be.
OwnIdentity == pc # "down" => macAddress = identity

WhileDown ==
    (pc = "down" /\ ~torn)
        => \/ file = Absent /\ identity = InterfaceMAC /\ acked = NoPosition
           \/ /\ file.kind = "saved"
              /\ file.mac = identity
              /\ acked # NoPosition => FileSays(acked)

InService ==
    (pc = "ready" /\ ~torn)
        => /\ FileMatchesMemory
           /\ acked # NoPosition => file.kind = "saved" /\ AckedSurvives

\* A SENDGPS has set what it will save; only a torn file lacks the MAC address.
WithinSave ==
    /\ saving = "mac" => torn
    /\ saving = "lon" => packet \in Positions /\ lon = packet[2]
    /\ saving = "lat" => packet \in Positions /\ lat = packet[1] /\ lon = packet[2]

CommandInv ==
    /\ OwnIdentity
    /\ WhileDown
    /\ InService
    /\ WithinSave

\* What the sensor worked with is what its file would bring back: a program that
\* ends in service, with the file as it was, leaves all there is.
LEMMA EndsInService ==
    ASSUME TypeOK, CommandInv, pc = "ready", ~torn
    PROVE  \/ file = Absent /\ identity = InterfaceMAC /\ acked = NoPosition
           \/ /\ file.kind = "saved"
              /\ file.mac = identity
              /\ acked # NoPosition => FileSays(acked)
<1>1. FileMatchesMemory /\ macAddress = identity
    BY DEF CommandInv, InService, OwnIdentity
<1>2. CASE file = Absent /\ macAddress = InterfaceMAC
    BY <1>1, <1>2 DEF CommandInv, InService, Absent
<1>3. CASE /\ file.kind = "saved" /\ file.mac = macAddress
           /\ ReadBack(file.lat) = ReadBack(lat) /\ ReadBack(file.lon) = ReadBack(lon)
    <2>1. ASSUME acked # NoPosition
          PROVE  FileSays(acked)
        <3>1. /\ acked[1] \in Int /\ acked[2] \in Int
              /\ \/ lat = acked[1] /\ lon = acked[2]
                 \/ lat = ReadBack(acked[1]) /\ lon = ReadBack(acked[2])
            BY <2>1 DEF TypeOK, CommandInv, InService, AckedSurvives
        <3> QED
            BY <1>3, <3>1, ReadBackOnce DEF FileSays
    <2> QED
        BY <1>1, <1>3, <2>1
<1> QED
    BY <1>1, <1>2, <1>3 DEF FileMatchesMemory

LEMMA CommandInductive == TypeOK /\ TypeOK' /\ CommandInv /\ [Next]_vars => CommandInv'
<1> SUFFICES ASSUME TypeOK, TypeOK', CommandInv, [Next]_vars PROVE CommandInv'
    OBVIOUS
<1> USE DEF CommandInv, OwnIdentity, WithinSave, configVars
<1>f. file \in Files /\ disk \in Files
    BY FilesOK DEF TypeOK
<1>1. CASE HandleQuery \/ HandleSetSyslog \/ UNCHANGED vars
    BY <1>1 DEF HandleQuery, HandleSetSyslog, vars, WhileDown, InService, AckedSurvives,
                FileMatchesMemory, FileSays, HasPosition
<1>2. CASE HandleSendGPS
    BY <1>2 DEF HandleSendGPS, TypeOK, WhileDown, InService
<1>3. CASE Save
    <2>1. CASE OpenFile /\ UNCHANGED <<packet, acked>>
        BY <2>1 DEF OpenFile, WhileDown, InService
    <2>2. CASE WriteFile(AfterSave)
        <3>1. /\ file' = Saved(macAddress, lat, lon) /\ AfterSave
              /\ macAddress' = macAddress /\ torn' = torn /\ identity' = identity
              /\ pc = "write"
            BY <2>2 DEF WriteFile
        <3>2. CASE saving = "lon"
            BY <3>1, <3>2 DEF AfterSave, WhileDown, InService
        <3>3. CASE saving = "lat"
            <4>1. /\ acked' = packet /\ packet \in Positions /\ packet = <<lat, lon>>
                  /\ pc' = "ready" /\ saving' = "none" /\ lat' = lat /\ lon' = lon
                BY <3>1, <3>3 DEF AfterSave
            <4> QED
                BY <3>1, <4>1 DEF WhileDown, InService, AckedSurvives, FileMatchesMemory, Saved
        <3>4. CASE saving = "mac"
            BY <3>1, <3>4 DEF AfterSave, WhileDown, InService
        <3> QED
            BY <3>1, <3>2, <3>3, <3>4 DEF AfterSave
    <2>3. CASE SaveFails(AfterSave)
        BY <2>3 DEF SaveFails, AfterSave, WhileDown, InService
    <2> QED
        BY <1>3, <2>1, <2>2, <2>3 DEF Save
<1>4. CASE HandleReboot
    <2>1. ~torn => \/ file = Absent /\ identity = InterfaceMAC /\ acked = NoPosition
                   \/ /\ file.kind = "saved" /\ file.mac = identity
                      /\ acked # NoPosition => FileSays(acked)
        BY <1>4, EndsInService DEF HandleReboot
    <2> QED
        BY <1>4, <2>1 DEF HandleReboot, Down, Forget, WhileDown, InService, FileSays
<1>5. CASE RemoveAndReboot
    BY <1>5 DEF RemoveAndReboot, Down, Forget, WhileDown, InService
<1>6. CASE CrashAnywhere
    <2>1. (~torn /\ pc \notin {"open", "write"})
              => \/ file = Absent /\ identity = InterfaceMAC /\ acked = NoPosition
                 \/ /\ file.kind = "saved" /\ file.mac = identity
                    /\ acked # NoPosition => FileSays(acked)
        BY EndsInService DEF WhileDown, TypeOK
    <2>2. /\ pc' = "down" /\ saving' = "none" /\ acked' = acked /\ identity' = identity
          /\ ~torn' => ~torn /\ pc \notin {"open", "write"} /\ file' = file
        BY <1>6 DEF CrashAnywhere, Crash, PowerLoss, Forget, TypeOK
    <2> QED
        BY <2>1, <2>2 DEF WhileDown, InService, FileSays
<1>7. CASE Background /\ WriteBack
    BY <1>7 DEF Background, WriteBack, WhileDown, InService, AckedSurvives,
                FileMatchesMemory, FileSays, HasPosition
<1>8. CASE Background /\ Boot
    <2>1. CASE file = Absent
        BY <1>8, <2>1 DEF Background, Boot, WhileDown, InService, FileMatchesMemory,
                          HasPosition, Absent, Empty
    <2>2. CASE file = Empty
        BY <1>8, <2>2 DEF Background, Boot, WhileDown, InService, Absent, Empty
    <2>3. CASE file.kind = "saved"
        <3>1. /\ macAddress' = file.mac
              /\ lat' = ReadBack(file.lat) /\ lon' = ReadBack(file.lon)
              /\ pc' = "ready" /\ saving' = "none"
              /\ identity' = IF torn THEN macAddress' ELSE identity
              /\ UNCHANGED <<file, torn, acked>> /\ pc = "down"
            BY <1>8, <2>3, <1>f, SavedTyped DEF Background, Boot, Absent, Empty
        <3>2. file.lat \in Int /\ file.lon \in Int
            BY <1>f, <2>3, SavedTyped, CoordinatesClosed
        <3>3. ~torn => file.mac = identity /\ (acked # NoPosition => FileSays(acked))
            BY <2>3, <3>1 DEF WhileDown, Absent
        <3>4. FileMatchesMemory'
            BY <2>3, <3>1, <3>2, ReadBackOnce DEF FileMatchesMemory
        <3>5. ~torn /\ acked # NoPosition => AckedSurvives'
            BY <3>1, <3>3 DEF FileSays, AckedSurvives
        <3> QED
            BY <2>3, <3>1, <3>3, <3>4, <3>5 DEF WhileDown, InService
    <2> QED
        BY <1>8, <2>1, <2>2, <2>3 DEF Background, Boot
<1> QED
    BY <1>1, <1>2, <1>3, <1>4, <1>5, <1>6, <1>7, <1>8
    DEF Next, HandleReset, HandleGetInfo, Background, vars

LEMMA InitCommand == Init => CommandInv
<1> SUFFICES ASSUME Init PROVE CommandInv
    OBVIOUS
<1>1. \/ file = Absent /\ identity = InterfaceMAC
      \/ file.kind = "saved" /\ file.mac = identity
    BY DEF Init, InitConfig, Saved, Absent
<1> QED
    BY <1>1 DEF Init, InitConfig, CommandInv, OwnIdentity, WhileDown, InService, WithinSave

\* A position the app got an OK for is what the sensor in service works with and
\* what every restart brings back, until a reset or a torn file.
THEOREM AckedSurvivesHolds == Spec => []AckedSurvives
<1>1. CommandInv => AckedSurvives
    BY DEF CommandInv, InService, AckedSurvives
<1> QED
    BY <1>1, InitCommand, CommandInductive, TypeCorrect, PTL DEF Spec

\* The sensor in service has the identity of its installation.
THEOREM IdentityStableHolds == Spec => []IdentityStable
<1>1. CommandInv => IdentityStable
    BY DEF CommandInv, OwnIdentity, IdentityStable
<1> QED
    BY <1>1, InitCommand, CommandInductive, TypeCorrect, PTL DEF Spec

\* An untorn file and the memory of the sensor in service say the same.
THEOREM FileMatchesMemoryHolds == Spec => []FileMatchesMemory
<1>1. CommandInv => FileMatchesMemory
    BY DEF CommandInv, InService, FileMatchesMemory
<1> QED
    BY <1>1, InitCommand, CommandInductive, TypeCorrect, PTL DEF Spec
=============================================================================
