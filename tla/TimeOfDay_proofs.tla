--------------------------- MODULE TimeOfDay_proofs ---------------------------
(***************************************************************************)
(* Theorems about the time of day and its display, for every length of a   *)
(* minute, of an hour and of a day, and lemmas about the timer as the      *)
(* firmware sees it.                                                       *)
(***************************************************************************)
EXTENDS TimeOfDay, IntervalTimer, TLAPS

-----------------------------------------------------------------------------
(* The clock. *)

\* A counted second leads from a time of day to a time of day.
LEMMA AdvanceType == \A t \in Times : Advance(t) \in Times
  BY TimeOfDayAssumption DEF Times, Advance

\* So does a step of any set of fields in set mode.
LEMMA AdjustedType ==
  ASSUME NEW t \in Times, NEW keys
  PROVE  Adjusted(t, keys) \in Times
  BY TimeOfDayAssumption DEF Times, Adjusted

\* A two-digit number in a mixed radix is below the product of the radices.
LEMMA MixedRadix ==
  ASSUME NEW n \in Nat, NEW k \in Nat, NEW a \in 0 .. n - 1, NEW b \in 0 .. k - 1
  PROVE  a * k + b \in 0 .. n * k - 1
<1>1. a * k \in Nat /\ n * k \in Nat
  OBVIOUS
<1>2. (a + 1) * k <= n * k
  <2>1. a + 1 <= n
    OBVIOUS
  <2> QED BY <2>1
<1>3. (a + 1) * k = a * k + k
  OBVIOUS
<1> QED BY <1>1, <1>2, <1>3

\* The remainder of a number does not change when multiples are added to it.
LEMMA RemainderIsUnique ==
  ASSUME NEW d \in Nat \ {0}, NEW k \in Nat, NEW l \in 0 .. d - 1
  PROVE  (k * d + l) % d = l
<1>1. k * d \in Nat
  OBVIOUS
<1>2. PICK m \in Nat, s \in 0 .. d - 1 : k * d + l = m * d + s /\ s = (k * d + l) % d
  <2> PICK n \in Nat : n = k * d + l
    BY <1>1
  <2>1. n = (n \div d) * d + (n % d) /\ n \div d \in Nat /\ n % d \in 0 .. d - 1
    OBVIOUS
  <2> QED BY <2>1
<1>3. CASE m = k
  BY <1>1, <1>2, <1>3
<1>4. CASE m > k
  <2>1. m * d >= (k + 1) * d /\ (k + 1) * d = k * d + d
    BY <1>4
  <2> QED BY <1>1, <1>2, <2>1
<1>5. CASE m < k
  <2>1. k * d >= (m + 1) * d /\ (m + 1) * d = m * d + d
    BY <1>5
  <2> QED BY <1>1, <1>2, <2>1
<1> QED BY <1>2, <1>3, <1>4, <1>5

\* Adding one may be done before or after a remainder is taken.
LEMMA SuccessorModulo ==
  ASSUME NEW d \in Nat \ {0}, NEW n \in Nat
  PROVE  ((n % d) + 1) % d = (n + 1) % d
<1>1. PICK q \in Nat, r \in 0 .. d - 1 : n = q * d + r /\ r = n % d
  <2>1. n = (n \div d) * d + (n % d) /\ n \div d \in Nat /\ n % d \in 0 .. d - 1
    OBVIOUS
  <2> QED BY <2>1
<1>2. q * d \in Nat /\ (q + 1) * d = q * d + d
  OBVIOUS
<1>3. CASE r + 1 < d
  <2>1. r + 1 \in 0 .. d - 1
    BY <1>3
  <2>2. (q * d + (r + 1)) % d = r + 1 /\ (r + 1) % d = r + 1
    <3>1. (q * d + (r + 1)) % d = r + 1
      BY <2>1, RemainderIsUnique
    <3>2. (0 * d + (r + 1)) % d = r + 1
      BY <2>1, RemainderIsUnique
    <3> QED BY <2>1, <3>1, <3>2
  <2>3. n + 1 = q * d + (r + 1)
    BY <1>1, <1>2
  <2> QED BY <1>1, <2>2, <2>3
<1>4. CASE r + 1 = d
  <2>1. ((q + 1) * d + 0) % d = 0 /\ (1 * d + 0) % d = 0
    <3>1. 0 \in 0 .. d - 1
      OBVIOUS
    <3> QED BY <3>1, RemainderIsUnique
  <2>2. n + 1 = (q + 1) * d + 0 /\ r + 1 = 1 * d + 0
    BY <1>1, <1>2, <1>4
  <2> QED BY <1>1, <2>1, <2>2
<1> QED BY <1>3, <1>4

\* The seconds since midnight number the times of a day.
LEMMA SecondOfDayType ==
  ASSUME NEW t \in Times
  PROVE  /\ SecondsInDay \in Nat
         /\ SecondOfDay(t) \in 0 .. SecondsInDay - 1
         /\ t.horas * MINUTOS + t.minutos \in 0 .. HORAS * MINUTOS - 1
<1> DEFINE m == t.horas * MINUTOS + t.minutos
           M == HORAS * MINUTOS
<1>1. /\ HORAS \in Nat /\ MINUTOS \in Nat /\ SEGUNDOS \in Nat
      /\ t.horas \in 0 .. HORAS - 1
      /\ t.minutos \in 0 .. MINUTOS - 1
      /\ t.segundos \in 0 .. SEGUNDOS - 1
  BY TimeOfDayAssumption DEF Times
<1>2. m \in 0 .. M - 1
  BY <1>1, MixedRadix
<1>3. M \in Nat
  BY <1>1
<1> HIDE DEF m, M
<1>4. m * SEGUNDOS + t.segundos \in 0 .. M * SEGUNDOS - 1
  BY <1>1, <1>2, <1>3, MixedRadix
<1>5. M * SEGUNDOS \in Nat
  BY <1>1, <1>3
<1> QED BY <1>2, <1>4, <1>5 DEF m, M, SecondOfDay, SecondsInDay

\* Counting a second is adding one to the seconds since midnight, modulo the
\* day: the nested carries of the code, for all its 24 * 60 * 60 times.
THEOREM AdvanceIsSuccessor ==
  ASSUME NEW t \in Times
  PROVE  SecondOfDay(Advance(t)) = (SecondOfDay(t) + 1) % SecondsInDay
<1> DEFINE h == t.horas
           m == t.minutos
           s == t.segundos
           H == HORAS
           M == MINUTOS
           S == SEGUNDOS
<1>1. /\ H \in 1 .. 100 /\ M \in 1 .. 100 /\ S \in 1 .. 100
      /\ h \in 0 .. H - 1 /\ m \in 0 .. M - 1 /\ s \in 0 .. S - 1
  BY TimeOfDayAssumption DEF Times
<1>2. SecondsInDay \in Nat /\ SecondOfDay(t) \in 0 .. SecondsInDay - 1
  BY SecondOfDayType
<1>3. SecondOfDay(Advance(t)) \in 0 .. SecondsInDay - 1
  BY AdvanceType, SecondOfDayType
<1>4. SUFFICES \/ SecondOfDay(Advance(t)) = SecondOfDay(t) + 1
               \/ SecondOfDay(Advance(t)) = 0 /\ SecondOfDay(t) + 1 = SecondsInDay
  <2>1. \A n \in Nat : n > 0 => n % n = 0
    OBVIOUS
  <2>2. \A n \in Nat : \A k \in 0 .. n - 1 : k % n = k
    OBVIOUS
  <2> QED BY <1>2, <1>3, <2>1, <2>2
<1>5. CASE s + 1 < S
  <2>1. Advance(t) = [horas |-> h, minutos |-> m, segundos |-> s + 1]
    BY <1>1, <1>5 DEF Advance
  <2>2. SecondOfDay(Advance(t)) = (h * M + m) * S + (s + 1)
    BY <2>1 DEF SecondOfDay
  <2> QED BY <1>1, <2>2 DEF SecondOfDay
<1>6. CASE s + 1 >= S /\ m + 1 < M
  <2>1. Advance(t) = [horas |-> h, minutos |-> m + 1, segundos |-> 0]
    BY <1>1, <1>6 DEF Advance
  <2>2. SecondOfDay(Advance(t)) = (h * M + (m + 1)) * S + 0
    BY <2>1 DEF SecondOfDay
  <2>3. s = S - 1
    BY <1>1, <1>6
  <2> QED BY <1>1, <2>2, <2>3 DEF SecondOfDay
<1>7. CASE s + 1 >= S /\ m + 1 >= M /\ h + 1 < H
  <2>1. Advance(t) = [horas |-> h + 1, minutos |-> 0, segundos |-> 0]
    BY <1>1, <1>7 DEF Advance
  <2>2. SecondOfDay(Advance(t)) = ((h + 1) * M + 0) * S + 0
    BY <2>1 DEF SecondOfDay
  <2>3. s = S - 1 /\ m = M - 1
    BY <1>1, <1>7
  <2> QED BY <1>1, <2>2, <2>3 DEF SecondOfDay
<1>8. CASE s + 1 >= S /\ m + 1 >= M /\ h + 1 >= H
  <2>1. Advance(t) = [horas |-> 0, minutos |-> 0, segundos |-> 0]
    BY <1>1, <1>8 DEF Advance
  <2>2. SecondOfDay(Advance(t)) = 0
    BY <1>1, <2>1 DEF SecondOfDay
  <2>3. s = S - 1 /\ m = M - 1 /\ h = H - 1
    BY <1>1, <1>8
  <2>4. SecondOfDay(t) + 1 = SecondsInDay
    BY <1>1, <2>3 DEF SecondOfDay, SecondsInDay
  <2> QED BY <2>2, <2>4
<1> QED BY <1>1, <1>5, <1>6, <1>7, <1>8

\* The number with the digits a and b, b in radix k; it determines them.
InRadix(k, a, b) == a * k + b

LEMMA DigitsAreUnique ==
  ASSUME NEW k \in Nat \ {0}, NEW a \in Nat, NEW c \in Nat,
         NEW b \in 0 .. k - 1, NEW d \in 0 .. k - 1, InRadix(k, a, b) = InRadix(k, c, d)
  PROVE  a = c /\ b = d
<1>1. (a * k + b) % k = b /\ (c * k + d) % k = d
  BY RemainderIsUnique
<1>2. b = d
  BY <1>1 DEF InRadix
<1>3. a * k \in Nat /\ c * k \in Nat
  OBVIOUS
<1>4. a * k = c * k
  BY <1>2, <1>3 DEF InRadix
<1>5. CASE a < c
  <2>1. (a + 1) * k <= c * k /\ (a + 1) * k = a * k + k
    BY <1>5
  <2> QED BY <1>3, <1>4, <2>1
<1>6. CASE c < a
  <2>1. (c + 1) * k <= a * k /\ (c + 1) * k = c * k + k
    BY <1>6
  <2> QED BY <1>3, <1>4, <2>1
<1> QED BY <1>2, <1>5, <1>6

\* No two times of a day have the same second.
LEMMA SecondIdentifies ==
  ASSUME NEW t \in Times, NEW u \in Times, SecondOfDay(t) = SecondOfDay(u)
  PROVE  t = u
<1> DEFINE p == InRadix(MINUTOS, t.horas, t.minutos)
           q == InRadix(MINUTOS, u.horas, u.minutos)
<1>1. /\ MINUTOS \in Nat \ {0} /\ SEGUNDOS \in Nat \ {0}
      /\ t.horas \in Nat /\ t.minutos \in 0 .. MINUTOS - 1 /\ t.segundos \in 0 .. SEGUNDOS - 1
      /\ u.horas \in Nat /\ u.minutos \in 0 .. MINUTOS - 1 /\ u.segundos \in 0 .. SEGUNDOS - 1
  BY TimeOfDayAssumption DEF Times
<1>2. p \in Nat /\ q \in Nat
  BY <1>1 DEF InRadix
<1>3. InRadix(SEGUNDOS, p, t.segundos) = InRadix(SEGUNDOS, q, u.segundos)
  BY DEF SecondOfDay, InRadix
<1>4. p = q => t.horas = u.horas /\ t.minutos = u.minutos
  BY <1>1, DigitsAreUnique
<1> HIDE DEF p, q
<1>5. p = q /\ t.segundos = u.segundos
  BY <1>1, <1>2, <1>3, DigitsAreUnique
<1> QED BY <1>4, <1>5 DEF Times

\* Seconds from time t to time a, going forward through midnight if need be.
ToGo(t, a) ==
    IF SecondOfDay(t) <= SecondOfDay(a)
    THEN SecondOfDay(a) - SecondOfDay(t)
    ELSE SecondsInDay - SecondOfDay(t) + SecondOfDay(a)

\* A counted second brings the clock one second closer to any other time: it
\* passes none of the times of a day, and reaches each within a day.
THEOREM AdvanceApproaches ==
  ASSUME NEW t \in Times, NEW a \in Times
  PROVE  /\ ToGo(t, a) \in 0 .. SecondsInDay - 1
         /\ (ToGo(t, a) = 0) <=> (t = a)
         /\ t # a => ToGo(Advance(t), a) = ToGo(t, a) - 1
<1>0. PICK d \in Nat : d = SecondsInDay
  BY SecondOfDayType
<1>1. PICK x \in 0 .. d - 1, y \in 0 .. d - 1 : x = SecondOfDay(t) /\ y = SecondOfDay(a)
  BY <1>0, SecondOfDayType
<1>2. (t = a) <=> (x = y)
  BY <1>1, SecondIdentifies
<1>3. SecondOfDay(Advance(t)) = IF x + 1 = d THEN 0 ELSE x + 1
  <2>1. SecondOfDay(Advance(t)) = (x + 1) % d
    BY <1>0, <1>1, AdvanceIsSuccessor
  <2>2. CASE x + 1 = d
    BY <1>1, <2>1, <2>2
  <2>3. CASE x + 1 # d
    BY <1>1, <2>1, <2>3
  <2> QED BY <2>2, <2>3
<1> QED BY <1>0, <1>1, <1>2, <1>3 DEF ToGo

-----------------------------------------------------------------------------
(* The display. *)

\* The ten digits light ten different sets of segments, so a port that shows
\* a digit shows only that one.
LEMMA DigitIsLegible ==
  ASSUME NEW port, NEW digit \in 0 .. 9
  PROVE  /\ display_digit(port, digit) \in Ports
         /\ DigitOn(display_digit(port, digit)) = digit
<1>1. \A i, j \in 0 .. 9 : num_to_seven_seg(i) = num_to_seven_seg(j) => i = j
  BY DEF num_to_seven_seg, Patterns
<1>2. display_digit(port, digit) = num_to_seven_seg(digit)
  BY DEF display_digit
<1>3. num_to_seven_seg(digit) \in Ports
  BY DEF num_to_seven_seg, Patterns, Ports
<1> QED BY <1>1, <1>2, <1>3 DEF DigitOn

\* A field of the display shows any number of two digits.
LEMMA FieldIsLegible ==
  ASSUME NEW ports, NEW n \in 0 .. 99
  PROVE  /\ ShowField(ports, n) \in [tens : Ports, units : Ports]
         /\ FieldOn(ShowField(ports, n)) = n
<1>1. n \div 10 \in 0 .. 9 /\ n % 10 \in 0 .. 9 /\ 10 * (n \div 10) + (n % 10) = n
  OBVIOUS
<1> QED BY <1>1, DigitIsLegible DEF ShowField, FieldOn

\* Redrawing some fields keeps the others.
LEMMA UpdateIsLegible ==
  ASSUME NEW d \in Displays, NEW t \in Times, NEW fields
  PROVE  /\ update(d, t, fields) \in Displays
         /\ TimeOn(update(d, t, fields)) =
               [horas    |-> IF "horas" \in fields THEN t.horas ELSE TimeOn(d).horas,
                minutos  |-> IF "minutos" \in fields THEN t.minutos ELSE TimeOn(d).minutos,
                segundos |-> IF "segundos" \in fields THEN t.segundos ELSE TimeOn(d).segundos]
<1>1. t.horas \in 0 .. 99 /\ t.minutos \in 0 .. 99 /\ t.segundos \in 0 .. 99
  BY TimeOfDayAssumption DEF Times
<1>2. update(d, t, fields) \in Displays
  BY <1>1, FieldIsLegible DEF update, Displays
<1>3. TimeOn(update(d, t, fields)).horas =
        IF "horas" \in fields THEN t.horas ELSE TimeOn(d).horas
  BY <1>1, FieldIsLegible DEF TimeOn, update
<1>4. TimeOn(update(d, t, fields)).minutos =
        IF "minutos" \in fields THEN t.minutos ELSE TimeOn(d).minutos
  BY <1>1, FieldIsLegible DEF TimeOn, update
<1>5. TimeOn(update(d, t, fields)).segundos =
        IF "segundos" \in fields THEN t.segundos ELSE TimeOn(d).segundos
  BY <1>1, FieldIsLegible DEF TimeOn, update
<1> QED BY <1>2, <1>3, <1>4, <1>5 DEF TimeOn

\* After all three updates a person reads the time that was written.
THEOREM DisplayIsLegible ==
  ASSUME NEW d \in Displays, NEW t \in Times
  PROVE  update_all(d, t) \in Displays /\ TimeOn(update_all(d, t)) = t
<1>1. /\ update_all(d, t) \in Displays
      /\ TimeOn(update_all(d, t)) =
            [horas |-> t.horas, minutos |-> t.minutos, segundos |-> t.segundos]
  BY UpdateIsLegible DEF update_all
<1> QED BY <1>1 DEF Times

\* In set mode it is enough to redraw the fields that were stepped.
LEMMA AdjustIsLegible ==
  ASSUME NEW d \in Displays, NEW t \in Times, TimeOn(d) = t, NEW keys
  PROVE  LET u == Adjusted(t, keys)
         IN  update(d, u, keys) \in Displays /\ TimeOn(update(d, u, keys)) = u
<1> DEFINE u == Adjusted(t, keys)
<1>1. u \in Times
  BY AdjustedType
<1>2. /\ "horas" \notin keys => u.horas = t.horas
      /\ "minutos" \notin keys => u.minutos = t.minutos
      /\ "segundos" \notin keys => u.segundos = t.segundos
  BY DEF Adjusted
<1> HIDE DEF u
<1>3. u = [horas |-> u.horas, minutos |-> u.minutos, segundos |-> u.segundos]
  BY <1>1 DEF Times
<1>4. /\ update(d, u, keys) \in Displays
      /\ TimeOn(update(d, u, keys)) =
            [horas |-> u.horas, minutos |-> u.minutos, segundos |-> u.segundos]
  <2>1. /\ update(d, u, keys) \in Displays
        /\ TimeOn(update(d, u, keys)) =
              [horas    |-> IF "horas" \in keys THEN u.horas ELSE TimeOn(d).horas,
               minutos  |-> IF "minutos" \in keys THEN u.minutos ELSE TimeOn(d).minutos,
               segundos |-> IF "segundos" \in keys THEN u.segundos ELSE TimeOn(d).segundos]
    BY <1>1, UpdateIsLegible
  <2> QED BY <1>2, <2>1
<1> QED BY <1>3, <1>4 DEF u

-----------------------------------------------------------------------------
(* The timer as the drivers see it, whatever periods it is given. *)

\* Whatever the timer was doing, the driver sequence leaves it ticking.
LEMMA ReprogrammedTicks ==
  ASSUME NEW periods, NEW t \in Timers(periods), NEW p \in periods
  PROVE  /\ Reprogrammed(t, p) \in Timers(periods)
         /\ Reprogrammed(t, p).mode = "running"
         /\ Reprogrammed(t, p).continuous
         /\ Reprogrammed(t, p).period = p
<1> DEFINE a == AfterControl(t, FALSE, FALSE, FALSE)
           b == AfterPeriod(a, p)
           c == AfterControl(b, TRUE, FALSE, TRUE)
<1>1. a \in Timers(periods)
  BY DEF AfterControl, Timers
<1> HIDE DEF a
<1>2. b \in Timers(periods) /\ b.period = p
  BY <1>1 DEF AfterPeriod, Timers
<1> HIDE DEF b
<1>3. c \in Timers(periods) /\ c.mode = "running" /\ c.continuous /\ c.period = p
  BY <1>2 DEF AfterControl, Timers
<1> QED BY <1>3 DEF Reprogrammed, a, b

\* Neither clearing TO nor an expiry takes a ticking timer out of its period.
LEMMA TickingGoesOn ==
  ASSUME NEW periods, NEW t \in Timers(periods)
  PROVE  /\ AfterStatus(t) \in Timers(periods) /\ Expired(t) \in Timers(periods)
         /\ AfterStatus(t).mode = t.mode
         /\ AfterStatus(t).continuous = t.continuous /\ Expired(t).continuous = t.continuous
         /\ AfterStatus(t).period = t.period /\ Expired(t).period = t.period
         /\ t.mode = "running" /\ t.continuous => Expired(t).mode = "running"
  BY DEF Timers, AfterStatus, Expired

LEMMA ControlType ==
  ASSUME NEW periods, NEW t \in Timers(periods)
  PROVE  AfterControl(t, FALSE, FALSE, FALSE) \in Timers(periods)
  BY DEF Timers, AfterControl
=============================================================================
