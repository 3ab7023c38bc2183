------------------------ MODULE DriversHistory_proofs ------------------------
(***************************************************************************)
(* Proof that the input and output functions of the firmware, one bus      *)
(* access at a time, behave as if each took effect at one instant, for     *)
(* every day, every pair of loads and every width of the timer.            *)
(***************************************************************************)
EXTENDS DriversHistory, TimeOfDay_proofs, SequenceTheorems

Fields == {"horas", "minutos", "segundos"}
Parts  == {"tens", "units"}

\* The reads of the keys: each turn so far has seen them change.
Debouncing ==
    /\ bounces \in 0 .. READS
    /\ pc = "debounce" =>
          /\ turn \in 0 .. READS - 1
          /\ bounces >= turn
          /\ buttons # last_state => bounces >= turn + 1

\* The timer in the midst of the four writes: it no longer repeats, it has
\* stopped if the one the call has found has, and its halves are those written.
Programming ==
    /\ timer \in Timers(Nat) /\ found \in Timers(Nat)
    /\ Reprogramming =>
          /\ load \in LOADS
          /\ timer.continuous = FALSE
          /\ timer.mode # "stopped" => found.mode # "stopped"
    /\ pc = "periodH" => LowHalf(timer.period) = LowHalf(load)
    /\ pc = "start" => timer.period = load
    /\ pc = "clear" => timer.to = TRUE

\* A call that draws the fields of F has found the time told.
Told(F) ==
    \/ F = Fields /\ (clock = told \/ clock = Advance(told))
    \/ \E field \in Fields : F = {field} /\ clock = Adjusted(told, {field})

New(field, part) == num_to_seven_seg(Digit(clock[field], part))

Waiting(field, part) == \E i \in 1 .. Len(todo) : todo[i] = <<field, part>>

\* Each port of F shows its new digit or waits for it; the others are as found.
Drawn(F) ==
    /\ todo \in Seq(F \X Parts)
    /\ \A field \in Fields, part \in Parts :
          \/ field \in F /\ display[field][part] = New(field, part)
          \/ /\ display[field][part] = shown[field][part]
             /\ field \in F => Waiting(field, part)

Drawing ==
    /\ clock \in Times /\ told \in Times
    /\ display \in Displays /\ shown \in Displays
    /\ pc # "draw" => told = clock /\ shown = display
    /\ pc = "draw" => todo # <<>> /\ \E F \in SUBSET Fields : Told(F) /\ Drawn(F)


-----------------------------------------------------------------------------
(* debounce_buttons() *)

LEMMA DebouncingInit == HistoryInit => Debouncing
  BY DriversAssumption DEF HistoryInit, Init, Debouncing

\* What a step that is no read of the keys does to what they are about.
LEMMA OtherSteps ==
  ASSUME Next, ~FirstRead, ~NextRead
  PROVE  /\ UNCHANGED debounceVars
         /\ pc' = "debounce" <=> pc = "debounce"
         /\ pc = "debounce" => pc' = pc
         /\ buttons' = buttons \/ pc' = pc
  BY DEF Next, Begins, GoesOn, FirstRead, NextRead, StopTimer, SilenceTimer, SeeTimeout,
         StartDrawing, WritePeriodL, WritePeriodH, StartTimer, ClearTimeout, WriteDigit,
         TimerExpires, KeyBounces

LEMMA DebouncingStep == Debouncing /\ [HistoryNext]_historyVars => Debouncing'
<1> SUFFICES ASSUME Debouncing, [HistoryNext]_historyVars PROVE Debouncing'
  OBVIOUS
<1>0. READS \in Nat \ {0} /\ bounces \in 0 .. READS
  BY DriversAssumption DEF Debouncing
<1>1. CASE UNCHANGED historyVars
  BY <1>1 DEF historyVars, vars, debounceVars, Debouncing
<1>2. CASE HistoryNext
  <2>1. bounces' = IF pc' # "debounce" \/ pc = "idle" THEN 0
                   ELSE IF buttons' # buttons /\ bounces < READS THEN bounces + 1 ELSE bounces
    BY <1>2 DEF HistoryNext, Record
  <2> PICK b : b = bounces'
    OBVIOUS
  <2>2. b \in 0 .. READS
    BY <1>0, <2>1
  <2>3. CASE FirstRead
    BY <1>0, <2>1, <2>3 DEF FirstRead, Debouncing
  <2>4. CASE NextRead
    <3> PICK t : t = turn'
      OBVIOUS
    <3>1. /\ pc = "debounce" /\ last_state' = buttons /\ buttons' = buttons
          /\ t = turn + 1
          /\ pc' = IF buttons = last_state \/ t = READS THEN "idle" ELSE pc
      BY <2>4 DEF NextRead
    <3>2. CASE pc' # "debounce"
      BY <2>2, <3>2 DEF Debouncing
    <3>3. CASE pc' = "debounce"
      <4>1. buttons # last_state /\ t # READS /\ b = bounces
        BY <2>1, <3>1, <3>3
      <4>2. t \in 0 .. READS - 1 /\ b >= t
        BY <1>0, <3>1, <4>1 DEF Debouncing
      <4> QED BY <2>2, <3>1, <4>2 DEF Debouncing
    <3> QED BY <3>2, <3>3
  <2>5. CASE ~FirstRead /\ ~NextRead
    <3>1. /\ UNCHANGED <<turn, last_state>>
          /\ pc' = "debounce" <=> pc = "debounce"
      BY <1>2, <2>5, OtherSteps DEF HistoryNext, debounceVars
    <3>2. CASE pc' # "debounce"
      BY <2>2, <3>2 DEF Debouncing
    <3>3. CASE pc' = "debounce"
      <4>1. /\ turn \in 0 .. READS - 1 /\ bounces >= turn
            /\ buttons # last_state => bounces >= turn + 1
        BY <3>1, <3>3 DEF Debouncing
      <4>2. b = IF buttons' # buttons /\ bounces < READS THEN bounces + 1 ELSE bounces
        BY <2>1, <3>1, <3>3
      <4>3. b >= turn
        BY <1>0, <4>1, <4>2
      <4>4. buttons' # last_state => b >= turn + 1
        BY <1>0, <4>1, <4>2
      <4> QED BY <2>2, <3>1, <4>1, <4>3, <4>4 DEF Debouncing
    <3> QED BY <3>2, <3>3
  <2> QED BY <2>3, <2>4, <2>5
<1> QED BY <1>1, <1>2

\* A level that debounce_buttons() has not read twice in a row is returned only
\* if the keys have changed between each two of its reads.
THEOREM GivesUpLast == HistorySpec => GivesUpOnlyIfBouncing
<1>1. Debouncing /\ [HistoryNext]_historyVars =>
          [pc = "debounce" /\ pc' = "idle" =>
               buttons = last_state \/ bounces >= READS]_historyVars
  <2> SUFFICES ASSUME Debouncing, HistoryNext, pc = "debounce", pc' = "idle",
                      buttons # last_state
               PROVE  bounces >= READS
    OBVIOUS
  <2>1. NextRead
    BY OtherSteps DEF HistoryNext, FirstRead
  <2>2. turn + 1 = READS
    BY <2>1 DEF NextRead
  <2> QED BY <2>2 DEF Debouncing
<1> QED BY <1>1, DebouncingInit, DebouncingStep, PTL DEF HistorySpec, GivesUpOnlyIfBouncing

-----------------------------------------------------------------------------
(* The writes to the timer, field by field. *)

LEMMA SameTimer ==
  ASSUME NEW t \in Timers(Nat), NEW u \in Timers(Nat),
         t.mode = u.mode, t.continuous = u.continuous, t.to = u.to, t.period = u.period
  PROVE  t = u
  BY DEF Timers

LEMMA ExpiredFields ==
  ASSUME NEW t \in Timers(Nat)
  PROVE  /\ Expired(t) \in Timers(Nat)
         /\ Expired(t).mode = IF t.mode = "running" /\ t.continuous THEN "running" ELSE "stopped"
         /\ Expired(t).continuous = t.continuous
         /\ Expired(t).to = TRUE
         /\ Expired(t).period = t.period
  BY DEF Expired, Timers

LEMMA AfterStatusFields ==
  ASSUME NEW t \in Timers(Nat)
  PROVE  AfterStatus(t) \in Timers(Nat)
  BY DEF AfterStatus, Timers

LEMMA AfterPeriodFields ==
  ASSUME NEW t \in Timers(Nat), NEW q \in Nat
  PROVE  /\ AfterPeriod(t, q) \in Timers(Nat)
         /\ AfterPeriod(t, q).mode = IF t.mode = "stopped" THEN "stopped" ELSE "last"
         /\ AfterPeriod(t, q).continuous = t.continuous
         /\ AfterPeriod(t, q).to = t.to
         /\ AfterPeriod(t, q).period = q
  BY DEF AfterPeriod, Timers

\* The two writes of the control register the firmware makes.
LEMMA AfterZeroFields ==
  ASSUME NEW t \in Timers(Nat)
  PROVE  /\ AfterControl(t, FALSE, FALSE, FALSE) \in Timers(Nat)
         /\ AfterControl(t, FALSE, FALSE, FALSE).mode = t.mode
         /\ AfterControl(t, FALSE, FALSE, FALSE).continuous = FALSE
         /\ AfterControl(t, FALSE, FALSE, FALSE).to = t.to
         /\ AfterControl(t, FALSE, FALSE, FALSE).period = t.period
  BY DEF AfterControl, Timers

LEMMA AfterStartFields ==
  ASSUME NEW t \in Timers(Nat)
  PROVE  /\ AfterControl(t, TRUE, FALSE, TRUE) \in Timers(Nat)
         /\ AfterControl(t, TRUE, FALSE, TRUE).mode = "running"
         /\ AfterControl(t, TRUE, FALSE, TRUE).continuous = TRUE
         /\ AfterControl(t, TRUE, FALSE, TRUE).to = t.to
         /\ AfterControl(t, TRUE, FALSE, TRUE).period = t.period
  BY DEF AfterControl, Timers

LEMMA WithToFields ==
  ASSUME NEW t \in Timers(Nat), NEW b \in BOOLEAN
  PROVE  /\ [t EXCEPT !.to = b] \in Timers(Nat)
         /\ [t EXCEPT !.to = b].mode = t.mode
         /\ [t EXCEPT !.to = b].continuous = t.continuous
         /\ [t EXCEPT !.to = b].to = b
         /\ [t EXCEPT !.to = b].period = t.period
  BY DEF Timers

\* A half that is written leaves the other one.
LEMMA Halves ==
  ASSUME NEW p \in Nat, NEW q \in Nat
  PROVE  /\ LowHalf(p) \in 0 .. HALF - 1 /\ HighHalf(p) \in Nat
         /\ HighHalf(p) + LowHalf(p) = p
         /\ LowHalf(HighHalf(p) + LowHalf(q)) = LowHalf(q)
<1>1. HALF \in Nat \ {0}
  BY DriversAssumption
<1>2. PICK k \in Nat, r \in 0 .. HALF - 1 : k = p \div HALF /\ r = p % HALF /\ k * HALF + r = p
  BY <1>1
<1>3. PICK l \in 0 .. HALF - 1 : l = q % HALF
  BY <1>1
<1>4. k * HALF \in Nat
  BY <1>1
<1>5. (k * HALF + l) % HALF = l
  BY <1>1, RemainderIsUnique
<1> QED BY <1>2, <1>3, <1>4, <1>5 DEF LowHalf, HighHalf

LEMMA LoadsAreNat == \A l \in LOADS \cup {RESET_PERIOD} : l \in Nat
<1>1. HALF * HALF \in Nat
  BY DriversAssumption
<1> QED BY <1>1, DriversAssumption

LEMMA ProgrammingInit == HistoryInit => Programming
<1> SUFFICES ASSUME HistoryInit PROVE Programming
  OBVIOUS
<1>1. timer = [mode |-> "stopped", continuous |-> FALSE, to |-> FALSE, period |-> RESET_PERIOD]
  BY DEF HistoryInit, Init, TimerInit
<1>2. timer \in Timers(Nat)
  BY <1>1, LoadsAreNat DEF Timers
<1> QED BY <1>2 DEF HistoryInit, Init, Programming, Reprogramming

\* A step that touches neither the timer nor pc, or leads from a place outside
\* the four writes to another.
LEMMA ProgrammingElsewhere ==
  ASSUME Programming, Record, timer' = timer,
         \/ UNCHANGED <<pc, load>>
         \/ ~Reprogramming /\ ~Reprogramming' /\ (pc' = "clear" => timer.to = TRUE)
  PROVE  Programming'
<1>1. found' = IF ~Reprogramming' THEN timer' ELSE IF ~Reprogramming THEN timer
               ELSE IF pc' = pc /\ timer' # timer THEN Expired(found) ELSE found
  BY DEF Record
<1>2. CASE UNCHANGED <<pc, load>>
  <2>1. found' \in {timer, found} /\ (Reprogramming => found' = found)
    BY <1>1, <1>2 DEF Reprogramming
  <2> QED BY <1>2, <2>1 DEF Programming, Reprogramming
<1>3. CASE ~Reprogramming /\ ~Reprogramming' /\ (pc' = "clear" => timer.to = TRUE)
  BY <1>1, <1>3 DEF Programming, Reprogramming
<1> QED BY <1>2, <1>3

\* The four writes, one by one.
LEMMA StopsTimer ==
  ASSUME Programming, Record, StopTimer
  PROVE  Programming' /\ found' = timer
<1> PICK t : t = AfterControl(timer, FALSE, FALSE, FALSE)
  OBVIOUS
<1>1. /\ t \in Timers(Nat) /\ t.mode = timer.mode /\ t.continuous = FALSE
  BY AfterZeroFields DEF Programming
<1>2. timer' = t /\ load' \in LOADS /\ pc' = "periodL" /\ found' = timer
  BY DEF StopTimer, Record, Reprogramming
<1> QED BY <1>1, <1>2 DEF Programming, Reprogramming

LEMMA PeriodWrite ==
  ASSUME Programming, Record, Reprogramming, Reprogramming', pc' # pc, load' = load,
         NEW q \in Nat, timer' = AfterPeriod(timer, q),
         pc' = "periodH" => LowHalf(q) = LowHalf(load),
         pc' = "start" => q = load
  PROVE  Programming' /\ found' = found
<1> PICK t : t = AfterPeriod(timer, q)
  OBVIOUS
<1>1. /\ t \in Timers(Nat) /\ t.continuous = timer.continuous /\ t.period = q
      /\ t.mode # "stopped" => timer.mode # "stopped"
  BY AfterPeriodFields DEF Programming
<1>2. timer' = t /\ found' = found
  BY DEF Record
<1> QED BY <1>1, <1>2 DEF Programming, Reprogramming

LEMMA WritesPeriodL ==
  ASSUME Programming, Record, WritePeriodL
  PROVE  Programming' /\ found' = found
<1> PICK q : q = HighHalf(timer.period) + LowHalf(load)
  OBVIOUS
<1>1. load \in Nat /\ timer.period \in Nat
  BY LoadsAreNat DEF Programming, Timers, WritePeriodL, Reprogramming
<1>2. q \in Nat /\ LowHalf(q) = LowHalf(load)
  BY <1>1, Halves
<1> QED BY <1>2, PeriodWrite DEF WritePeriodL, Reprogramming

LEMMA WritesPeriodH ==
  ASSUME Programming, Record, WritePeriodH
  PROVE  Programming' /\ found' = found
<1>1. load \in Nat /\ LowHalf(timer.period) = LowHalf(load)
  BY LoadsAreNat DEF Programming, WritePeriodH, Reprogramming
<1>2. timer' = AfterPeriod(timer, load)
  BY <1>1, Halves DEF WritePeriodH
<1> QED BY <1>1, <1>2, PeriodWrite DEF WritePeriodH, Reprogramming

LEMMA TimerWrite ==
  ASSUME Programming, Record, pc' = "idle", NEW t \in Timers(Nat), timer' = t
  PROVE  Programming'
<1>1. found' = t
  BY DEF Record, Reprogramming
<1> QED BY <1>1 DEF Programming, Reprogramming

LEMMA Expires ==
  ASSUME Programming, Record, TimerExpires
  PROVE  /\ Programming'
         /\ Reprogramming => found' = Expired(found)
<1> PICK t : t = Expired(timer)
  OBVIOUS
<1>1. /\ t \in Timers(Nat) /\ t.to = TRUE /\ t.continuous = timer.continuous
      /\ t.period = timer.period
      /\ t.mode = IF timer.mode = "running" /\ timer.continuous THEN "running" ELSE "stopped"
  BY ExpiredFields DEF Programming
<1>2. timer' = t /\ timer.mode # "stopped" /\ UNCHANGED <<pc, load>>
  BY DEF TimerExpires
<1>3. CASE Reprogramming
  <2>1. t.mode = "stopped"
    BY <1>1, <1>3 DEF Programming
  <2>2. found' = Expired(found)
    BY <1>2, <1>3, <2>1 DEF Record, Reprogramming
  <2>3. found' \in Timers(Nat)
    BY <2>2, ExpiredFields DEF Programming
  <2> QED BY <1>1, <1>2, <1>3, <2>1, <2>2, <2>3 DEF Programming, Reprogramming
<1>4. CASE ~Reprogramming
  <2>1. found' = t
    BY <1>2, <1>4 DEF Record, Reprogramming
  <2> QED BY <1>1, <1>2, <1>4, <2>1 DEF Programming, Reprogramming
<1> QED BY <1>3, <1>4

LEMMA ProgrammingStep == Programming /\ [HistoryNext]_historyVars => Programming'
<1> SUFFICES ASSUME Programming, [HistoryNext]_historyVars PROVE Programming'
  OBVIOUS
<1>1. CASE UNCHANGED historyVars
  BY <1>1 DEF historyVars, vars, Programming, Reprogramming
<1>2. CASE HistoryNext
  <2>1. Record /\ timer \in Timers(Nat)
    BY <1>2 DEF HistoryNext, Programming
  <2>2. CASE FirstRead \/ NextRead \/ StartDrawing \/ WriteDigit \/ SeeTimeout
    <3>1. /\ timer' = timer /\ ~Reprogramming /\ ~Reprogramming'
          /\ pc' = "clear" => timer.to
      BY <2>2 DEF FirstRead, NextRead, StartDrawing, WriteDigit, SeeTimeout, Reprogramming
    <3>2. timer.to \in BOOLEAN
      BY <2>1 DEF Timers
    <3> QED BY <2>1, <3>1, <3>2, ProgrammingElsewhere
  <2>3. CASE \E key \in KEYS : KeyBounces(key)
    BY <2>1, <2>3, ProgrammingElsewhere DEF KeyBounces
  <2>4. CASE StopTimer
    BY <2>1, <2>4, StopsTimer
  <2>5. CASE WritePeriodL
    BY <2>1, <2>5, WritesPeriodL
  <2>6. CASE WritePeriodH
    BY <2>1, <2>6, WritesPeriodH
  <2>7. CASE StartTimer
    BY <2>1, <2>7, TimerWrite, AfterStartFields DEF StartTimer
  <2>8. CASE SilenceTimer
    BY <2>1, <2>8, TimerWrite, AfterZeroFields DEF SilenceTimer
  <2>9. CASE ClearTimeout
    BY <2>1, <2>9, TimerWrite, AfterStatusFields DEF ClearTimeout
  <2>10. CASE TimerExpires
    BY <2>1, <2>10, Expires
  <2> QED BY <1>2, <2>2, <2>3, <2>4, <2>5, <2>6, <2>7, <2>8, <2>9, <2>10
          DEF HistoryNext, Next, Begins, GoesOn
<1> QED BY <1>1, <1>2

-----------------------------------------------------------------------------
(* The display, port by port. *)

LEMMA SameDisplay ==
  ASSUME NEW d \in Displays, NEW e \in Displays,
         \A field \in Fields, part \in Parts : d[field][part] = e[field][part]
  PROVE  d = e
<1>1. /\ d.horas.tens = e.horas.tens /\ d.horas.units = e.horas.units
      /\ d.minutos.tens = e.minutos.tens /\ d.minutos.units = e.minutos.units
      /\ d.segundos.tens = e.segundos.tens /\ d.segundos.units = e.segundos.units
  BY DEF Fields, Parts
<1>2. d.horas = e.horas /\ d.minutos = e.minutos /\ d.segundos = e.segundos
  BY <1>1 DEF Displays
<1> QED BY <1>2 DEF Displays

Written(d, f, p, v) == [d EXCEPT ![f][p] = v]

LEMMA WritePort ==
  ASSUME NEW d \in Displays, NEW f \in Fields, NEW p \in Parts, NEW v \in Ports
  PROVE  /\ Written(d, f, p, v) \in Displays
         /\ \A field \in Fields, part \in Parts :
               Written(d, f, p, v)[field][part] = IF field = f /\ part = p THEN v ELSE d[field][part]
<1> PICK pair : pair = [d[f] EXCEPT ![p] = v]
  OBVIOUS
<1>1. d[f] \in [tens : Ports, units : Ports]
  BY DEF Displays, Fields
<1>2. /\ pair \in [tens : Ports, units : Ports]
      /\ \A part \in Parts : pair[part] = IF part = p THEN v ELSE d[f][part]
  BY <1>1 DEF Parts
<1> PICK e : e = Written(d, f, p, v)
  OBVIOUS
<1>3. e = [d EXCEPT ![f] = pair]
  BY DEF Written
<1>4. /\ e \in Displays
      /\ \A field \in Fields : e[field] = IF field = f THEN pair ELSE d[field]
  BY <1>2, <1>3 DEF Displays, Fields
<1> QED BY <1>2, <1>4

LEMMA DigitFits ==
  ASSUME NEW t \in Times, NEW field \in Fields, NEW part \in Parts
  PROVE  Digit(t[field], part) \in 0 .. 9
<1>1. t[field] \in 0 .. 99
  BY TimeOfDayAssumption DEF Times, Fields
<1> PICK n \in 0 .. 99 : n = t[field]
  BY <1>1
<1>2. n \div 10 \in 0 .. 9 /\ n % 10 \in 0 .. 9
  OBVIOUS
<1> QED BY <1>2 DEF Digit

LEMMA DigitShown ==
  ASSUME NEW port, NEW digit \in 0 .. 9
  PROVE  /\ display_digit(port, digit) = num_to_seven_seg(digit)
         /\ num_to_seven_seg(digit) \in Ports
<1>1. display_digit(port, digit) = num_to_seven_seg(digit)
  BY DEF display_digit
<1> QED BY <1>1, DigitIsLegible

LEMMA UpdatedPort ==
  ASSUME NEW d \in Displays, NEW t \in Times, NEW F \in SUBSET Fields,
         NEW field \in Fields, NEW part \in Parts
  PROVE  update(d, t, F)[field][part] =
             IF field \in F THEN num_to_seven_seg(Digit(t[field], part)) ELSE d[field][part]
<1>1. update(d, t, F)[field] = IF field \in F THEN ShowField(d[field], t[field]) ELSE d[field]
  BY DEF update, Fields
<1>2. ShowField(d[field], t[field])[part] = num_to_seven_seg(Digit(t[field], part))
  <2>1. ShowField(d[field], t[field])[part] =
            display_digit(d[field][part], Digit(t[field], part))
    BY DEF ShowField, Digit, Parts
  <2> QED BY <2>1, DigitFits, DigitShown
<1> QED BY <1>1, <1>2

LEMMA PortsOfAField ==
  ASSUME NEW field \in Fields
  PROVE  /\ PortsOf(field) \in Seq({field} \X Parts) /\ Len(PortsOf(field)) = 2
         /\ PortsOf(field)[1] = <<field, "tens">> /\ PortsOf(field)[2] = <<field, "units">>
  BY DEF PortsOf, Parts

LEMMA AllPortsAreThere ==
  /\ AllPorts \in Seq(Fields \X Parts) /\ AllPorts # <<>>
  /\ \A field \in Fields, part \in Parts :
        \E i \in 1 .. Len(AllPorts) : AllPorts[i] = <<field, part>>
<1> DEFINE S == Fields \X Parts
<1> PICK a, b, c : a = PortsOf("horas") /\ b = PortsOf("minutos") /\ c = PortsOf("segundos")
  OBVIOUS
<1>1. /\ a \in Seq(S) /\ Len(a) = 2 /\ a[1] = <<"horas", "tens">> /\ a[2] = <<"horas", "units">>
      /\ b \in Seq(S) /\ Len(b) = 2 /\ b[1] = <<"minutos", "tens">> /\ b[2] = <<"minutos", "units">>
      /\ c \in Seq(S) /\ Len(c) = 2 /\ c[1] = <<"segundos", "tens">>
      /\ c[2] = <<"segundos", "units">>
  BY DEF PortsOf, Parts, Fields
<1> HIDE DEF S
<1>2. Len(a) = 2 /\ Len(b) = 2 /\ Len(c) = 2
  BY <1>1
<1> PICK ab : ab = a \o b
  OBVIOUS
<1>3. /\ ab \in Seq(S) /\ Len(ab) = 4
      /\ ab[1] = a[1] /\ ab[2] = a[2] /\ ab[3] = b[1] /\ ab[4] = b[2]
  <2>1. /\ ab \in Seq(S) /\ Len(ab) = Len(a) + Len(b)
        /\ \A i \in 1 .. Len(a) + Len(b) :
              ab[i] = IF i <= Len(a) THEN a[i] ELSE b[i - Len(a)]
    BY <1>1, ConcatProperties
  <2> QED BY <1>2, <2>1
<1> PICK abc : abc = ab \o c
  OBVIOUS
<1>4. /\ abc \in Seq(S) /\ Len(abc) = 6
      /\ abc[1] = ab[1] /\ abc[2] = ab[2] /\ abc[3] = ab[3] /\ abc[4] = ab[4]
      /\ abc[5] = c[1] /\ abc[6] = c[2]
  <2>1. /\ abc \in Seq(S) /\ Len(abc) = Len(ab) + Len(c)
        /\ \A i \in 1 .. Len(ab) + Len(c) :
              abc[i] = IF i <= Len(ab) THEN ab[i] ELSE c[i - Len(ab)]
    BY <1>1, <1>3, ConcatProperties
  <2>2. Len(ab) = 4
    BY <1>3
  <2> QED BY <1>2, <2>1, <2>2
<1> PICK all : all = AllPorts
  OBVIOUS
<1>5. /\ all \in Seq(S) /\ Len(all) = 6
      /\ all[1] = <<"horas", "tens">> /\ all[2] = <<"horas", "units">>
      /\ all[3] = <<"minutos", "tens">> /\ all[4] = <<"minutos", "units">>
      /\ all[5] = <<"segundos", "tens">> /\ all[6] = <<"segundos", "units">>
  BY <1>1, <1>3, <1>4 DEF AllPorts
<1>6. ASSUME NEW field \in Fields, NEW part \in Parts
      PROVE  \E i \in 1 .. 6 : all[i] = <<field, part>>
  BY <1>5 DEF Fields, Parts
<1>7. all # <<>>
  BY <1>5, EmptySeq
<1> QED BY <1>5, <1>6, <1>7 DEF S

LEMMA DrawingInit == HistoryInit => Drawing
<1> SUFFICES ASSUME HistoryInit PROVE Drawing
  OBVIOUS
<1>1. /\ pc = "draw" /\ todo = AllPorts /\ clock = Midnight /\ told = Midnight
      /\ display = ResetDisplay /\ shown = ResetDisplay
  BY DEF HistoryInit, Init
<1>2. Midnight \in Times /\ ResetDisplay \in Displays
  BY TimeOfDayAssumption DEF Midnight, Times, ResetDisplay, Displays, Ports
<1>3. Drawn(Fields)
  BY <1>1, AllPortsAreThere DEF Drawn, Waiting
<1>4. Told(Fields)
  BY <1>1 DEF Told
<1> QED BY <1>1, <1>2, <1>3, <1>4, AllPortsAreThere DEF Drawing

\* A step of another call, of the timer or of a key.
LEMMA DrawingElsewhere ==
  ASSUME Next, ~StartDrawing, ~WriteDigit
  PROVE  UNCHANGED drawVars /\ (pc' = "draw" <=> pc = "draw")
  BY DEF Next, Begins, GoesOn, FirstRead, NextRead, StopTimer, SilenceTimer, SeeTimeout,
         StartDrawing, WritePeriodL, WritePeriodH, StartTimer, ClearTimeout, WriteDigit,
         TimerExpires, KeyBounces

LEMMA StartsDrawing ==
  ASSUME Drawing, Record, StartDrawing
  PROVE  Drawing'
<1>1. /\ pc' = "draw" /\ told' = clock /\ shown' = display /\ display' = display
      /\ clock \in Times /\ display \in Displays
  BY DEF StartDrawing, Record, Drawing
<1>2. CASE clock' = Advance(clock) /\ todo' = AllPorts
  <2>1. Drawn(Fields)'
    BY <1>1, <1>2, AllPortsAreThere DEF Drawn, Waiting
  <2>2. Told(Fields)'
    BY <1>1, <1>2 DEF Told
  <2>3. clock' \in Times /\ todo' # <<>>
    BY <1>1, <1>2, AdvanceType, AllPortsAreThere
  <2> QED BY <1>1, <2>1, <2>2, <2>3 DEF Drawing
<1>3. CASE \E field \in Fields : clock' = Adjusted(clock, {field}) /\ todo' = PortsOf(field)
  <2> PICK f \in Fields : clock' = Adjusted(clock, {f}) /\ todo' = PortsOf(f)
    BY <1>3
  <2>1. /\ todo' \in Seq({f} \X Parts) /\ Len(todo') = 2
        /\ todo'[1] = <<f, "tens">> /\ todo'[2] = <<f, "units">>
    BY PortsOfAField
  <2>2. \A part \in Parts : \E i \in 1 .. Len(todo') : todo'[i] = <<f, part>>
    BY <2>1 DEF Parts
  <2>3. Drawn({f})'
    BY <1>1, <2>1, <2>2 DEF Drawn, Waiting
  <2>4. Told({f})'
    BY <1>1 DEF Told
  <2>5. clock' \in Times /\ todo' # <<>>
    BY <1>1, <2>1, AdjustedType
  <2> QED BY <1>1, <2>3, <2>4, <2>5 DEF Drawing
<1> QED BY <1>2, <1>3 DEF StartDrawing, Moved, Fields

\* A write puts the digit it has to on its port, and leaves the others waiting.
LEMMA WritesOne ==
  ASSUME Drawing, WriteDigit, todo # <<>>, NEW F \in SUBSET Fields, Drawn(F)
  PROVE  /\ display' \in Displays
         /\ shown' = shown => Drawn(F)'
         /\ pc' # "draw" =>
               \A field \in Fields, part \in Parts :
                  display'[field][part] = IF field \in F THEN New(field, part)
                                          ELSE shown[field][part]
<1>1. todo \in Seq(F \X Parts) /\ todo # <<>> /\ clock' = clock
  BY DEF WriteDigit, Drawn
<1> PICK rest : rest = Tail(todo)
  OBVIOUS
<1>2. /\ Head(todo) = todo[1] /\ todo[1] \in F \X Parts /\ Len(todo) \in Nat \ {0}
      /\ rest \in Seq(F \X Parts) /\ Len(rest) = Len(todo) - 1
      /\ \A i \in 1 .. Len(rest) : rest[i] = todo[i + 1]
  BY <1>1, HeadTailProperties, ElementOfSeq, EmptySeq
<1> PICK f \in F, p \in Parts : todo[1] = <<f, p>>
  BY <1>2
<1>3. /\ Digit(clock[f], p) \in 0 .. 9 /\ New(f, p) \in Ports
      /\ display_digit(display[f][p], Digit(clock[f], p)) = New(f, p)
  BY DigitFits, DigitShown DEF Drawing, New
<1>4. display' = [display EXCEPT ![f][p] = New(f, p)]
  <2>1. Head(todo)[1] = f /\ Head(todo)[2] = p
    BY <1>2
  <2>2. display' = [display EXCEPT ![f][p] = display_digit(display[f][p], Digit(clock[f], p))]
    BY <2>1 DEF WriteDigit
  <2> QED BY <1>3, <2>2
<1>5. /\ display' \in Displays
      /\ \A field \in Fields, part \in Parts :
            display'[field][part] = IF field = f /\ part = p THEN New(f, p)
                                    ELSE display[field][part]
  <2>1. display \in Displays /\ f \in Fields /\ display' = Written(display, f, p, New(f, p))
    BY <1>4 DEF Drawing, Written
  <2> QED BY <1>3, <2>1, WritePort
<1>6. ASSUME NEW field \in Fields, NEW part \in Parts, ~(field = f /\ part = p),
             Waiting(field, part)
      PROVE  \E i \in 1 .. Len(rest) : rest[i] = <<field, part>>
  <2> PICK i \in 1 .. Len(todo) : todo[i] = <<field, part>>
    BY <1>6 DEF Waiting
  <2>1. i # 1
    BY <1>6
  <2>2. i - 1 \in 1 .. Len(rest) /\ rest[i - 1] = todo[i]
    BY <1>2, <2>1
  <2> QED BY <2>2
<1>7. ASSUME NEW field \in Fields, NEW part \in Parts
      PROVE  \/ field \in F /\ display'[field][part] = New(field, part)
             \/ /\ display'[field][part] = shown[field][part]
                /\ field \in F => \E i \in 1 .. Len(rest) : rest[i] = <<field, part>>
  <2>1. CASE field = f /\ part = p
    BY <1>5, <2>1
  <2>2. CASE ~(field = f /\ part = p)
    BY <1>5, <1>6, <2>2 DEF Drawn
  <2> QED BY <2>1, <2>2
<1>8. todo' = rest /\ (pc' # "draw" => Len(rest) = 0)
  BY <1>2, EmptySeq DEF WriteDigit
<1>9. ASSUME shown' = shown PROVE Drawn(F)'
  <2>1. \A field \in Fields, part \in Parts : New(field, part)' = New(field, part)
    BY <1>1 DEF New
  <2> QED BY <1>2, <1>7, <1>8, <1>9, <2>1 DEF Drawn, Waiting
<1>10. ASSUME NEW field \in Fields, NEW part \in Parts, pc' # "draw"
       PROVE  display'[field][part] = IF field \in F THEN New(field, part)
                                      ELSE shown[field][part]
  <2>1. 1 .. Len(rest) = {}
    <3> PICK n : n = Len(rest)
      OBVIOUS
    <3>1. n = 0
      BY <1>8, <1>10
    <3>2. 1 .. 0 = {}
      OBVIOUS
    <3> QED BY <3>1, <3>2, Zenon
  <2> QED BY <1>7, <2>1
<1> QED BY <1>5, <1>9, <1>10

LEMMA DrawingStep == Drawing /\ [HistoryNext]_historyVars => Drawing'
<1> SUFFICES ASSUME Drawing, [HistoryNext]_historyVars PROVE Drawing'
  OBVIOUS
<1>1. CASE UNCHANGED historyVars
  BY <1>1 DEF historyVars, vars, drawVars, Drawing, Told, Drawn, New, Waiting
<1>2. CASE HistoryNext
  <2>1. CASE StartDrawing
    BY <1>2, <2>1, StartsDrawing DEF HistoryNext
  <2>2. CASE WriteDigit
    <3>1. PICK F \in SUBSET Fields : Told(F) /\ Drawn(F)
      BY <2>2 DEF WriteDigit, Drawing
    <3>2. /\ todo # <<>> /\ pc = "draw" /\ clock' = clock
          /\ display' \in Displays /\ (shown' = shown => Drawn(F)')
      BY <2>2, <3>1, WritesOne DEF WriteDigit, Drawing
    <3>3. CASE pc' = "draw"
      <4>1. told' = told /\ shown' = shown /\ todo' # <<>>
        BY <1>2, <2>2, <3>2, <3>3 DEF HistoryNext, Record, WriteDigit
      <4>2. Told(F)'
        BY <3>1, <3>2, <4>1 DEF Told
      <4> QED BY <3>2, <3>3, <4>1, <4>2 DEF Drawing
    <3>4. CASE pc' # "draw"
      <4>1. told' = clock' /\ shown' = display'
        BY <1>2, <3>4 DEF HistoryNext, Record
      <4> QED BY <3>2, <3>4, <4>1 DEF Drawing
    <3> QED BY <3>3, <3>4
  <2>3. CASE ~StartDrawing /\ ~WriteDigit
    <3>1. UNCHANGED <<clock, todo, display>> /\ (pc' = "draw" <=> pc = "draw")
      BY <1>2, <2>3, DrawingElsewhere DEF HistoryNext, drawVars
    <3>2. CASE pc = "draw"
      <4>1. told' = told /\ shown' = shown
        BY <1>2, <3>1, <3>2 DEF HistoryNext, Record
      <4> QED BY <3>1, <3>2, <4>1 DEF Drawing, Told, Drawn, New, Waiting
    <3>3. CASE pc # "draw"
      <4>1. told' = clock' /\ shown' = display'
        BY <1>2, <3>1, <3>3 DEF HistoryNext, Record
      <4> QED BY <3>1, <3>3, <4>1 DEF Drawing
    <3> QED BY <3>2, <3>3
  <2> QED BY <2>1, <2>2, <2>3
<1> QED BY <1>1, <1>2

\* In the midst of a redrawing each port shows its digit of the time before or
\* of the time after.
THEOREM OldOrNewHolds == HistorySpec => []OldOrNew
<1>1. Drawing => OldOrNew
  <2> SUFFICES ASSUME Drawing, NEW field \in Fields, NEW part \in Parts
               PROVE  \/ display[field][part] = shown[field][part]
                      \/ display[field][part] = update_all(display, clock)[field][part]
    BY DEF OldOrNew, Fields, Parts
  <2>1. update_all(display, clock)[field][part] = New(field, part)
    BY UpdatedPort DEF Drawing, update_all, New, Fields
  <2> QED BY <2>1 DEF Drawing, Drawn
<1> QED BY <1>1, DrawingInit, DrawingStep, PTL DEF HistorySpec

-----------------------------------------------------------------------------
(* Every call takes effect at one instant.  What module DriverCalls sees: *)

SeenTimer   == IF Reprogramming THEN [found EXCEPT !.to = timer.to] ELSE timer
SeenClock   == IF pc = "draw" THEN told ELSE clock
SeenDisplay == IF pc = "draw" THEN shown ELSE display
seenVars    == <<SeenTimer, buttons, stable_state, SeenClock, SeenDisplay>>

LEMMA SameOperators ==
  /\ \A t : Calls!Expired(t) = Expired(t)
  /\ \A t : Calls!AfterStatus(t) = AfterStatus(t)
  /\ \A t : Calls!AfterControl(t, FALSE, FALSE, FALSE) = AfterControl(t, FALSE, FALSE, FALSE)
  /\ \A t, l : Calls!Reprogrammed(t, l) = Reprogrammed(t, l)
<1>1. \A t, start, stop, cont :
          Calls!AfterControl(t, start, stop, cont) = AfterControl(t, start, stop, cont)
  BY DEF Calls!AfterControl, AfterControl
<1>2. \A t, l : Calls!AfterPeriod(t, l) = AfterPeriod(t, l)
  BY DEF Calls!AfterPeriod, AfterPeriod
<1>3. \A t, l : Calls!Reprogrammed(t, l) = Reprogrammed(t, l)
  BY <1>1, <1>2 DEF Calls!Reprogrammed, Reprogrammed
<1>4. \A t : Calls!Expired(t) = Expired(t) /\ Calls!AfterStatus(t) = AfterStatus(t)
  BY DEF Calls!Expired, Expired, Calls!AfterStatus, AfterStatus
<1> QED BY <1>1, <1>3, <1>4

LEMMA SameDrawing ==
  /\ \A t : Calls!Advance(t) = Advance(t)
  /\ \A t, F : Calls!Adjusted(t, F) = Adjusted(t, F)
  /\ \A d, t, F : Calls!update(d, t, F) = update(d, t, F)
<1>1. \A t : Calls!Advance(t) = Advance(t)
  BY DEF Calls!Advance, Advance
<1>2. \A t, F : Calls!Adjusted(t, F) = Adjusted(t, F)
  BY DEF Calls!Adjusted, Adjusted
<1>3. \A ports, n : Calls!ShowField(ports, n) = ShowField(ports, n)
  BY DEF Calls!ShowField, ShowField, Calls!display_digit, display_digit,
         Calls!num_to_seven_seg, num_to_seven_seg, Calls!Patterns, Patterns
<1>4. \A d, t, F : Calls!update(d, t, F) = update(d, t, F)
  BY <1>3 DEF Calls!update, update
<1> QED BY <1>1, <1>2, <1>4

\* A step of the calls, in terms of what they see.
LEMMA KeysRead ==
  ASSUME stable_state' = buttons, UNCHANGED <<SeenTimer, buttons, SeenClock, SeenDisplay>>
  PROVE  Calls!Next
<1>1. Calls!debounce_buttons
  BY DEF Calls!debounce_buttons, SeenTimer, SeenClock, SeenDisplay
<1> QED BY <1>1 DEF Calls!Next

LEMMA TimerTouched ==
  ASSUME \/ \E l \in LOADS : SeenTimer' = Reprogrammed(SeenTimer, l)
         \/ SeenTimer' = AfterControl(SeenTimer, FALSE, FALSE, FALSE)
         \/ SeenTimer.to /\ SeenTimer' = AfterStatus(SeenTimer)
         \/ SeenTimer.mode # "stopped" /\ SeenTimer' = Expired(SeenTimer),
         UNCHANGED <<buttons, stable_state, SeenClock, SeenDisplay>>
  PROVE  Calls!Next
<1>1. ASSUME NEW l \in LOADS, SeenTimer' = Reprogrammed(SeenTimer, l)
      PROVE  Calls!program_timer(l)
  BY <1>1, SameOperators DEF Calls!program_timer, SeenTimer, SeenClock, SeenDisplay
<1>2. ASSUME SeenTimer' = AfterControl(SeenTimer, FALSE, FALSE, FALSE)
      PROVE  Calls!silence_timer
  <2>1. SeenTimer' = Calls!AfterControl(SeenTimer, FALSE, FALSE, FALSE)
    BY <1>2, SameOperators
  <2> QED BY <2>1 DEF Calls!silence_timer, SeenTimer, SeenClock, SeenDisplay
<1>3. ASSUME SeenTimer.to, SeenTimer' = AfterStatus(SeenTimer)
      PROVE  Calls!wait_for_timer
  BY <1>3, SameOperators DEF Calls!wait_for_timer, SeenTimer, SeenClock, SeenDisplay
<1>4. ASSUME SeenTimer.mode # "stopped", SeenTimer' = Expired(SeenTimer)
      PROVE  Calls!Outside
  BY <1>4, SameOperators DEF Calls!Outside, SeenTimer, SeenClock, SeenDisplay
<1> QED BY <1>1, <1>2, <1>3, <1>4 DEF Calls!Next

LEMMA KeysMoved ==
  ASSUME buttons' \in SUBSET KEYS, UNCHANGED <<SeenTimer, stable_state, SeenClock, SeenDisplay>>
  PROVE  Calls!Next
<1>1. Calls!Outside
  BY DEF Calls!Outside, SeenTimer, SeenClock, SeenDisplay
<1> QED BY <1>1 DEF Calls!Next

LEMMA Redrawn ==
  ASSUME NEW F, \/ F = Fields /\ SeenClock' \in {SeenClock, Advance(SeenClock)}
                \/ \E field \in Fields : F = {field} /\ SeenClock' = Adjusted(SeenClock, {field}),
         SeenDisplay' = update(SeenDisplay, SeenClock', F),
         UNCHANGED <<SeenTimer, buttons, stable_state>>
  PROVE  Calls!Next
<1>1. ASSUME NEW time, SeenClock' = time
      PROVE  Calls!Redraw(time, F)
  <2>1. SeenDisplay' = update(SeenDisplay, time, F)
    BY <1>1
  <2> QED BY <1>1, <2>1, SameDrawing DEF Calls!Redraw, SeenTimer, SeenClock, SeenDisplay
<1>2. CASE F = Fields /\ SeenClock' = SeenClock
  <2>1. Calls!Redraw(SeenClock, F)
    BY <1>1, <1>2
  <2> QED BY <1>2, <2>1 DEF Calls!Next, SeenClock, Fields
<1>3. CASE F = Fields /\ SeenClock' = Advance(SeenClock)
  <2>1. Calls!Redraw(Calls!Advance(SeenClock), F)
    BY <1>1, <1>3, SameDrawing
  <2> QED BY <1>3, <2>1 DEF Calls!Next, SeenClock, Fields
<1>4. CASE \E field \in Fields : F = {field} /\ SeenClock' = Adjusted(SeenClock, {field})
  <2> PICK field \in Fields : F = {field} /\ SeenClock' = Adjusted(SeenClock, {field})
    BY <1>4
  <2>1. Calls!Redraw(Calls!Adjusted(SeenClock, {field}), {field})
    BY <1>1, SameDrawing
  <2> QED BY <2>1 DEF Calls!Next, SeenClock, Fields
<1> QED BY <1>2, <1>3, <1>4

\* What each step is to the calls.
LEMMA SeenTimerFields ==
  ASSUME Programming, Reprogramming
  PROVE  /\ SeenTimer \in Timers(Nat)
         /\ SeenTimer.mode = found.mode /\ SeenTimer.continuous = found.continuous
         /\ SeenTimer.to = timer.to /\ SeenTimer.period = found.period
<1>1. found \in Timers(Nat) /\ timer.to \in BOOLEAN
  BY DEF Programming, Timers
<1>2. SeenTimer = [found EXCEPT !.to = timer.to]
  BY DEF SeenTimer
<1> QED BY <1>1, <1>2, WithToFields

LEMMA ReprogrammedFields ==
  ASSUME NEW t \in Timers(Nat), NEW l \in Nat
  PROVE  /\ Reprogrammed(t, l) \in Timers(Nat)
         /\ Reprogrammed(t, l).mode = "running" /\ Reprogrammed(t, l).continuous = TRUE
         /\ Reprogrammed(t, l).to = t.to /\ Reprogrammed(t, l).period = l
<1> PICK u : u = AfterControl(t, FALSE, FALSE, FALSE)
  OBVIOUS
<1>1. u \in Timers(Nat) /\ u.to = t.to
  BY AfterZeroFields
<1> PICK v : v = AfterPeriod(u, l)
  OBVIOUS
<1>2. v \in Timers(Nat) /\ v.to = t.to /\ v.period = l
  BY <1>1, AfterPeriodFields
<1>3. Reprogrammed(t, l) = AfterControl(v, TRUE, FALSE, TRUE)
  BY DEF Reprogrammed
<1> QED BY <1>2, <1>3, AfterStartFields

LEMMA SeenTimerStays ==
  ASSUME Record, timer' = timer, Reprogramming' <=> Reprogramming
  PROVE  SeenTimer' = SeenTimer
<1>1. CASE Reprogramming
  <2>1. found' = found
    BY <1>1 DEF Record
  <2> QED BY <1>1, <2>1 DEF SeenTimer
<1>2. CASE ~Reprogramming
  BY <1>2 DEF SeenTimer
<1> QED BY <1>1, <1>2

\* Until the last of the four writes, the timer is seen as the call has found it.
LEMMA SeenTimerWaits ==
  ASSUME Programming, Programming', Record, StopTimer \/ WritePeriodL \/ WritePeriodH
  PROVE  SeenTimer' = SeenTimer
<1>1. CASE StopTimer
  <2>1. found' = timer /\ Reprogramming' /\ SeenTimer = timer /\ timer \in Timers(Nat)
    BY <1>1, StopsTimer DEF StopTimer, Reprogramming, SeenTimer, Programming
  <2>2. timer'.to = timer.to
    BY <1>1, AfterZeroFields DEF StopTimer, Programming
  <2>3. SeenTimer' = [timer EXCEPT !.to = timer.to]
    BY <2>1, <2>2 DEF SeenTimer
  <2> QED BY <2>1, <2>3 DEF Timers
<1>2. CASE WritePeriodL \/ WritePeriodH
  <2>1. found' = found /\ Reprogramming /\ Reprogramming'
    BY <1>2, WritesPeriodL, WritesPeriodH DEF WritePeriodL, WritePeriodH, Reprogramming
  <2>2. timer'.to = timer.to
    BY <1>2 DEF WritePeriodL, WritePeriodH, AfterPeriod, Programming, Timers
  <2> QED BY <2>1, <2>2 DEF SeenTimer
<1> QED BY <1>1, <1>2

LEMMA SeenTimerStarts ==
  ASSUME Programming, StartTimer
  PROVE  load \in LOADS /\ SeenTimer' = Reprogrammed(SeenTimer, load)
<1>1. Reprogramming /\ ~Reprogramming' /\ load \in LOADS /\ timer.period = load
  BY DEF StartTimer, Reprogramming, Programming
<1>2. SeenTimer' = AfterControl(timer, TRUE, FALSE, TRUE)
  BY <1>1 DEF StartTimer, SeenTimer
<1>3. /\ SeenTimer' \in Timers(Nat)
      /\ SeenTimer'.mode = "running" /\ SeenTimer'.continuous = TRUE
      /\ SeenTimer'.to = timer.to /\ SeenTimer'.period = load
  BY <1>1, <1>2, AfterStartFields DEF Programming
<1>4. /\ Reprogrammed(SeenTimer, load) \in Timers(Nat)
      /\ Reprogrammed(SeenTimer, load).mode = "running"
      /\ Reprogrammed(SeenTimer, load).continuous = TRUE
      /\ Reprogrammed(SeenTimer, load).to = timer.to
      /\ Reprogrammed(SeenTimer, load).period = load
  BY <1>1, SeenTimerFields, ReprogrammedFields, LoadsAreNat
<1> QED BY <1>1, <1>3, <1>4, SameTimer

LEMMA SeenTimerExpires ==
  ASSUME Programming, Record, TimerExpires
  PROVE  SeenTimer.mode # "stopped" /\ SeenTimer' = Expired(SeenTimer)
<1>1. timer.mode # "stopped" /\ timer' = Expired(timer) /\ (Reprogramming' <=> Reprogramming)
  BY DEF TimerExpires, Reprogramming
<1>2. CASE ~Reprogramming
  BY <1>1, <1>2 DEF SeenTimer
<1>3. CASE Reprogramming
  <2>1. found' = Expired(found) /\ found.mode # "stopped" /\ timer'.to = TRUE
    BY <1>1, <1>3, Expires, ExpiredFields DEF Programming
  <2>2. SeenTimer' = [Expired(found) EXCEPT !.to = TRUE]
    BY <1>1, <1>3, <2>1 DEF SeenTimer
  <2>3. SeenTimer = [found EXCEPT !.to = timer.to] /\ found \in Timers(Nat)
    BY <1>3 DEF SeenTimer, Programming
  <2>4. [Expired(found) EXCEPT !.to = TRUE] = Expired([found EXCEPT !.to = timer.to])
    BY <2>3 DEF Expired, Timers
  <2>5. SeenTimer.mode = found.mode
    BY <1>3, SeenTimerFields
  <2> QED BY <2>1, <2>2, <2>3, <2>4, <2>5
<1> QED BY <1>2, <1>3

LEMMA SeenDisplayStays ==
  ASSUME Next, Record, ~WriteDigit
  PROVE  UNCHANGED <<SeenClock, SeenDisplay>>
<1>1. CASE StartDrawing
  BY <1>1 DEF StartDrawing, Record, SeenClock, SeenDisplay
<1>2. CASE ~StartDrawing
  <2>1. UNCHANGED <<clock, display>> /\ (pc' = "draw" <=> pc = "draw")
    BY <1>2, DrawingElsewhere DEF drawVars
  <2> QED BY <2>1 DEF Record, SeenClock, SeenDisplay
<1> QED BY <1>1, <1>2

\* The last write of a redrawing is the redrawing.
LEMMA SeenDisplayChanges ==
  ASSUME Drawing, Drawing', Record, WriteDigit
  PROVE  \/ UNCHANGED <<SeenClock, SeenDisplay>>
         \/ \E F \in SUBSET Fields :
               /\ \/ F = Fields /\ SeenClock' \in {SeenClock, Advance(SeenClock)}
                  \/ \E field \in Fields :
                        F = {field} /\ SeenClock' = Adjusted(SeenClock, {field})
               /\ SeenDisplay' = update(SeenDisplay, SeenClock', F)
<1>1. PICK F \in SUBSET Fields : Told(F) /\ Drawn(F)
  BY DEF WriteDigit, Drawing
<1>2. /\ pc = "draw" /\ todo # <<>> /\ clock' = clock
      /\ SeenClock = told /\ SeenDisplay = shown
  BY DEF WriteDigit, SeenClock, SeenDisplay, Drawing
<1>3. CASE pc' = "draw"
  BY <1>2, <1>3 DEF Record, SeenClock, SeenDisplay
<1>4. CASE pc' # "draw"
  <2>1. SeenClock' = clock /\ SeenDisplay' = display'
    BY <1>2, <1>4 DEF SeenClock, SeenDisplay
  <2>2. \A field \in Fields, part \in Parts :
           display'[field][part] = IF field \in F THEN New(field, part)
                                   ELSE shown[field][part]
    BY <1>1, <1>2, <1>4, WritesOne
  <2>3. /\ shown \in Displays /\ clock \in Times /\ display' \in Displays
        /\ update(shown, clock, F) \in Displays
    BY UpdateIsLegible DEF Drawing
  <2>4. \A field \in Fields, part \in Parts :
           display'[field][part] = update(shown, clock, F)[field][part]
    BY <2>2, <2>3, UpdatedPort DEF New
  <2>5. display' = update(shown, clock, F)
    BY <2>3, <2>4, SameDisplay
  <2> QED BY <1>1, <1>2, <2>1, <2>5 DEF Told
<1> QED BY <1>3, <1>4

LEMMA CallsInit == HistoryInit => Calls!Init
<1> SUFFICES ASSUME HistoryInit PROVE Calls!Init
  OBVIOUS
<1>1. /\ pc = "draw" /\ ~Reprogramming /\ told = Midnight /\ shown = ResetDisplay
      /\ stable_state = {} /\ buttons \in SUBSET KEYS
      /\ timer = [mode |-> "stopped", continuous |-> FALSE, to |-> FALSE,
                  period |-> RESET_PERIOD]
  BY DEF HistoryInit, Init, TimerInit, Reprogramming
<1> QED BY <1>1 DEF Calls!Init, Calls!TimerInit, Calls!Midnight, Midnight,
                    Calls!ResetDisplay, ResetDisplay

KeysInv == buttons \in SUBSET KEYS

LEMMA KeysStep == KeysInv /\ [HistoryNext]_historyVars => KeysInv'
  BY DEF KeysInv, HistoryNext, historyVars, vars, Next, Begins, GoesOn, FirstRead, NextRead,
         StopTimer, SilenceTimer, SeeTimeout, StartDrawing, WritePeriodL, WritePeriodH,
         StartTimer, ClearTimeout, WriteDigit, TimerExpires, KeyBounces

\* Every step is a call at one instant, or nothing to the calls.
LEMMA StepSeen ==
  ASSUME Programming, Programming', Drawing, Drawing', KeysInv, KeysInv', HistoryNext
  PROVE  Calls!Next \/ UNCHANGED seenVars
<1>0. Record /\ Next
  BY DEF HistoryNext
<1>1. CASE FirstRead \/ SeeTimeout \/ StartDrawing
  <2>1. /\ timer' = timer /\ (Reprogramming' <=> Reprogramming) /\ ~WriteDigit
        /\ UNCHANGED <<buttons, stable_state>>
    BY <1>1 DEF FirstRead, SeeTimeout, StartDrawing, WriteDigit, Reprogramming, debounceVars
  <2> QED BY <1>0, <2>1, SeenTimerStays, SeenDisplayStays DEF seenVars
<1>2. CASE NextRead
  <2>1. /\ timer' = timer /\ (Reprogramming' <=> Reprogramming) /\ ~WriteDigit
        /\ stable_state' = buttons /\ buttons' = buttons
    BY <1>2 DEF NextRead, WriteDigit, Reprogramming
  <2> QED BY <1>0, <2>1, SeenTimerStays, SeenDisplayStays, KeysRead
<1>3. CASE StopTimer \/ WritePeriodL \/ WritePeriodH
  <2>1. ~WriteDigit /\ UNCHANGED <<buttons, stable_state>>
    BY <1>3 DEF StopTimer, WritePeriodL, WritePeriodH, WriteDigit, debounceVars
  <2> QED BY <1>0, <1>3, <2>1, SeenTimerWaits, SeenDisplayStays DEF seenVars
<1>4. CASE StartTimer
  <2>1. ~WriteDigit /\ UNCHANGED <<buttons, stable_state>>
    BY <1>4 DEF StartTimer, WriteDigit, debounceVars
  <2> QED BY <1>0, <1>4, <2>1, SeenTimerStarts, SeenDisplayStays, TimerTouched
<1>5. CASE SilenceTimer
  <2>1. /\ ~WriteDigit /\ UNCHANGED <<buttons, stable_state>>
        /\ SeenTimer = timer /\ SeenTimer' = AfterControl(timer, FALSE, FALSE, FALSE)
    BY <1>5 DEF SilenceTimer, WriteDigit, debounceVars, SeenTimer, Reprogramming
  <2> QED BY <1>0, <2>1, SeenDisplayStays, TimerTouched
<1>6. CASE ClearTimeout
  <2>1. /\ ~WriteDigit /\ UNCHANGED <<buttons, stable_state>>
        /\ SeenTimer = timer /\ SeenTimer' = AfterStatus(timer) /\ timer.to
    BY <1>6 DEF ClearTimeout, WriteDigit, debounceVars, SeenTimer, Reprogramming, Programming
  <2> QED BY <1>0, <2>1, SeenDisplayStays, TimerTouched
<1>7. CASE WriteDigit
  <2>1. /\ timer' = timer /\ (Reprogramming' <=> Reprogramming)
        /\ UNCHANGED <<buttons, stable_state>>
    BY <1>7 DEF WriteDigit, Reprogramming, debounceVars
  <2>2. SeenTimer' = SeenTimer
    BY <1>0, <2>1, SeenTimerStays
  <2>3. CASE UNCHANGED <<SeenClock, SeenDisplay>>
    BY <2>1, <2>2, <2>3 DEF seenVars
  <2>4. CASE ~UNCHANGED <<SeenClock, SeenDisplay>>
    BY <1>0, <1>7, <2>1, <2>2, <2>4, SeenDisplayChanges, Redrawn
  <2> QED BY <2>3, <2>4
<1>8. CASE TimerExpires /\ ~WriteDigit
  <2>1. UNCHANGED <<buttons, stable_state>>
    BY <1>8 DEF TimerExpires, debounceVars
  <2> QED BY <1>0, <1>8, <2>1, SeenTimerExpires, SeenDisplayStays, TimerTouched
<1>9. CASE \E key \in KEYS : KeyBounces(key)
  <2>1. /\ timer' = timer /\ (Reprogramming' <=> Reprogramming) /\ ~WriteDigit
        /\ stable_state' = stable_state /\ buttons' \in SUBSET KEYS
    BY <1>9 DEF KeyBounces, WriteDigit, Reprogramming, debounceVars, KeysInv
  <2> QED BY <1>0, <2>1, SeenTimerStays, SeenDisplayStays, KeysMoved
<1> QED BY <1>0, <1>1, <1>2, <1>3, <1>4, <1>5, <1>6, <1>7, <1>8, <1>9
        DEF Next, Begins, GoesOn

\* The functions of the firmware, one bus access at a time, with the timer and
\* the keys moving between two of them, implement functions that take effect at
\* one instant.
THEOREM CallsAreAtomic == HistorySpec => ImplementsCalls
<1> DEFINE Inv == Programming /\ Drawing /\ KeysInv
<1>1. HistoryInit => Inv /\ Calls!Init
  BY ProgrammingInit, DrawingInit, CallsInit DEF HistoryInit, Init, KeysInv
<1>2. Inv /\ [HistoryNext]_historyVars => Inv'
  BY ProgrammingStep, DrawingStep, KeysStep
<1>3. Inv /\ Inv' /\ [HistoryNext]_historyVars => [Calls!Next]_Calls!callVars
  <2>1. (UNCHANGED seenVars) => UNCHANGED Calls!callVars
    BY DEF seenVars, SeenTimer, SeenClock, SeenDisplay, Calls!callVars
  <2>2. (UNCHANGED historyVars) => UNCHANGED seenVars
    BY DEF historyVars, vars, debounceVars, drawVars, seenVars, SeenTimer, SeenClock,
           SeenDisplay, Reprogramming
  <2> QED BY <2>1, <2>2, StepSeen
<1> HIDE DEF Inv
<1>4. HistorySpec => []Inv
  BY <1>1, <1>2, PTL DEF HistorySpec
<1> QED BY <1>1, <1>3, <1>4, PTL DEF HistorySpec, ImplementsCalls, Calls!Spec

-----------------------------------------------------------------------------
(* The types.  A period half of whose bits are new fits the registers too,  *)
(* and at most the six ports wait to be written.                            *)

Fitting == 0 .. HALF * HALF - 1

LEMMA HalvesFit ==
  ASSUME NEW p \in Fitting, NEW q \in Fitting
  PROVE  HighHalf(p) + LowHalf(q) \in Fitting
<1>1. HALF \in Nat \ {0} /\ HALF * HALF \in Nat
  BY DriversAssumption
<1>2. p \in Nat /\ q \in Nat /\ p < HALF * HALF
  BY <1>1 DEF Fitting
<1>3. PICK k \in Nat, r \in 0 .. HALF - 1 : k = p \div HALF /\ k * HALF + r = p
  <2>1. p \div HALF \in Nat /\ p % HALF \in 0 .. HALF - 1 /\ (p \div HALF) * HALF + (p % HALF) = p
    BY <1>1, <1>2
  <2> QED BY <2>1
<1>4. PICK l \in 0 .. HALF - 1 : l = q % HALF
  BY <1>1, <1>2
<1>5. k \in 0 .. HALF - 1
  <2>1. CASE k >= HALF
    <3>1. k * HALF >= HALF * HALF /\ k * HALF \in Nat
      BY <1>1, <2>1
    <3> QED BY <1>1, <1>2, <1>3, <3>1
  <2> QED BY <1>1, <2>1
<1>6. k * HALF + l \in 0 .. HALF * HALF - 1
  BY <1>1, <1>4, <1>5, MixedRadix
<1> QED BY <1>3, <1>4, <1>6 DEF HighHalf, LowHalf, Fitting

LEMMA TimerFits ==
  ASSUME NEW t \in Timers(Fitting), NEW p \in Fitting
  PROVE  /\ AfterStatus(t) \in Timers(Fitting) /\ Expired(t) \in Timers(Fitting)
         /\ AfterControl(t, FALSE, FALSE, FALSE) \in Timers(Fitting)
         /\ AfterControl(t, TRUE, FALSE, TRUE) \in Timers(Fitting)
         /\ AfterPeriod(t, p) \in Timers(Fitting)
<1>1. AfterStatus(t) \in Timers(Fitting) /\ Expired(t) \in Timers(Fitting)
  BY TickingGoesOn
<1>2. AfterControl(t, FALSE, FALSE, FALSE) \in Timers(Fitting)
  BY ControlType
<1>3. AfterControl(t, TRUE, FALSE, TRUE) \in Timers(Fitting)
  BY DEF Timers, AfterControl
<1>4. AfterPeriod(t, p) \in Timers(Fitting)
  BY DEF Timers, AfterPeriod
<1> QED BY <1>1, <1>2, <1>3, <1>4

LEMMA TimerTypeStep ==
  ASSUME timer \in Timers(Fitting), load \in LOADS \cup {0}, Next
  PROVE  timer' \in Timers(Fitting) /\ load' \in LOADS \cup {0}
<1>1. load \in Fitting /\ timer.period \in Fitting
  <2>1. HALF * HALF \in Nat \ {0}
    BY DriversAssumption
  <2>2. 0 \in Fitting /\ LOADS \subseteq Fitting
    BY <2>1, DriversAssumption DEF Fitting
  <2> QED BY <2>2 DEF Timers
<1>2. CASE WritePeriodL
  BY <1>1, <1>2, HalvesFit, TimerFits DEF WritePeriodL
<1>3. CASE WritePeriodH
  BY <1>1, <1>3, HalvesFit, TimerFits DEF WritePeriodH
<1>4. CASE StopTimer
  BY <1>1, <1>4, TimerFits DEF StopTimer
<1>5. CASE StartTimer
  BY <1>1, <1>5, TimerFits DEF StartTimer
<1>6. CASE SilenceTimer
  BY <1>1, <1>6, TimerFits DEF SilenceTimer
<1>7. CASE ClearTimeout
  BY <1>1, <1>7, TimerFits DEF ClearTimeout
<1>8. CASE TimerExpires
  BY <1>1, <1>8, TimerFits DEF TimerExpires
<1>9. CASE FirstRead \/ NextRead \/ SeeTimeout \/ StartDrawing \/ WriteDigit
           \/ \E key \in KEYS : KeyBounces(key)
  BY <1>9 DEF FirstRead, NextRead, SeeTimeout, StartDrawing, WriteDigit, KeyBounces
<1> QED BY <1>2, <1>3, <1>4, <1>5, <1>6, <1>7, <1>8, <1>9 DEF Next, Begins, GoesOn

Queue == todo \in Seq(Fields \X Parts) /\ Len(todo) \in 0 .. 6

LEMMA QueueLengths ==
  /\ AllPorts \in Seq(Fields \X Parts) /\ Len(AllPorts) = 6
  /\ \A field \in Fields :
        PortsOf(field) \in Seq(Fields \X Parts) /\ Len(PortsOf(field)) = 2
<1>1. \A field \in Fields :
         PortsOf(field) \in Seq(Fields \X Parts) /\ Len(PortsOf(field)) = 2
  BY DEF PortsOf, Parts
<1>2. /\ PortsOf("horas") \in Seq(Fields \X Parts) /\ Len(PortsOf("horas")) = 2
      /\ PortsOf("minutos") \in Seq(Fields \X Parts) /\ Len(PortsOf("minutos")) = 2
      /\ PortsOf("segundos") \in Seq(Fields \X Parts) /\ Len(PortsOf("segundos")) = 2
  BY <1>1 DEF Fields
<1> PICK a : a = PortsOf("horas")
  OBVIOUS
<1> PICK b : b = PortsOf("minutos")
  OBVIOUS
<1> PICK s : s = a \o b
  OBVIOUS
<1>3. s \in Seq(Fields \X Parts) /\ Len(s) = 4
  <2>1. a \in Seq(Fields \X Parts) /\ b \in Seq(Fields \X Parts) /\ Len(a) = 2 /\ Len(b) = 2
    BY <1>2
  <2>2. a \o b \in Seq(Fields \X Parts) /\ Len(a \o b) = Len(a) + Len(b)
    BY <2>1, ConcatProperties
  <2>3. s \in Seq(Fields \X Parts) /\ Len(s) = 2 + 2
    BY <2>1, <2>2, Zenon
  <2>4. 2 + 2 = 4
    OBVIOUS
  <2> QED BY <2>3, <2>4, Zenon
<1>4. AllPorts = s \o PortsOf("segundos")
  BY DEF AllPorts
<1>5. AllPorts \in Seq(Fields \X Parts) /\ Len(AllPorts) = 6
  BY <1>2, <1>3, <1>4, ConcatProperties
<1> QED BY <1>1, <1>5

LEMMA QueueStep == Queue /\ Next /\ Drawing => Queue'
<1> SUFFICES ASSUME Queue, Next, Drawing PROVE Queue'
  OBVIOUS
<1>1. CASE StartDrawing
  <2>1. todo' = AllPorts \/ \E field \in Fields : todo' = PortsOf(field)
    BY <1>1 DEF StartDrawing, Moved, Fields
  <2> QED BY <2>1, QueueLengths DEF Queue
<1>2. CASE WriteDigit
  <2> PICK s : s = todo
    OBVIOUS
  <2> PICK rest : rest = Tail(s)
    OBVIOUS
  <2>1. s \in Seq(Fields \X Parts) /\ s # <<>> /\ Len(s) \in 0 .. 6
    BY <1>2 DEF Queue, Drawing, WriteDigit
  <2>2. rest \in Seq(Fields \X Parts) /\ Len(rest) = Len(s) - 1 /\ Len(rest) \in Nat
    BY <2>1, HeadTailProperties, LenProperties
  <2>3. todo' = rest
    BY <1>2 DEF WriteDigit
  <2> QED BY <2>1, <2>2, <2>3 DEF Queue
<1>3. CASE ~StartDrawing /\ ~WriteDigit
  BY <1>3, DrawingElsewhere DEF Queue, drawVars
<1> QED BY <1>1, <1>2, <1>3

LEMMA ReadsTypeStep ==
  ASSUME pc \in {"idle", "debounce", "periodL", "periodH", "start", "clear", "draw"},
         last_state \subseteq KEYS, stable_state \subseteq KEYS, buttons \subseteq KEYS,
         turn \in 0 .. READS, Debouncing, Next
  PROVE  /\ pc' \in {"idle", "debounce", "periodL", "periodH", "start", "clear", "draw"}
         /\ last_state' \subseteq KEYS /\ stable_state' \subseteq KEYS /\ buttons' \subseteq KEYS
         /\ turn' \in 0 .. READS
<1>1. CASE FirstRead
  BY <1>1, DriversAssumption DEF FirstRead
<1>2. CASE NextRead
  BY <1>2, DriversAssumption DEF NextRead, Debouncing
<1>3. CASE \E key \in KEYS : KeyBounces(key)
  BY <1>3 DEF KeyBounces, debounceVars
<1>4. CASE StopTimer \/ SilenceTimer \/ SeeTimeout \/ StartDrawing
  BY <1>4 DEF StopTimer, SilenceTimer, SeeTimeout, StartDrawing, debounceVars
<1>5. CASE WritePeriodL \/ WritePeriodH \/ StartTimer \/ ClearTimeout \/ WriteDigit
           \/ TimerExpires
  BY <1>5 DEF WritePeriodL, WritePeriodH, StartTimer, ClearTimeout, WriteDigit, TimerExpires,
              debounceVars
<1> QED BY <1>1, <1>2, <1>3, <1>4, <1>5 DEF Next, Begins, GoesOn

CallsInv == TypeOK /\ Queue /\ Debouncing /\ Drawing

LEMMA CallsInvariant == HistorySpec => []CallsInv
<1>1. HistoryInit => CallsInv
  <2> SUFFICES ASSUME HistoryInit PROVE CallsInv
    OBVIOUS
  <2> USE DEF CallsInv
  <2>1. Debouncing /\ Drawing
    BY DebouncingInit, DrawingInit
  <2>2. Queue
    BY QueueLengths DEF HistoryInit, Init, Queue
  <2>3. timer \in Timers(Fitting)
    BY DriversAssumption DEF HistoryInit, Init, TimerInit, Timers, Fitting
  <2>4. turn \in 0 .. READS
    BY DriversAssumption DEF HistoryInit, Init
  <2> QED BY <2>1, <2>2, <2>3, <2>4 DEF HistoryInit, Init, TypeOK, Queue, Drawing, Fitting
<1>2. CallsInv /\ [HistoryNext]_historyVars => CallsInv'
  <2> SUFFICES ASSUME CallsInv, [HistoryNext]_historyVars PROVE CallsInv'
    OBVIOUS
  <2> USE DEF CallsInv
  <2>1. Debouncing' /\ Drawing'
    BY DebouncingStep, DrawingStep
  <2>2. CASE HistoryNext
    <3>1. Next
      BY <2>2 DEF HistoryNext
    <3>2. timer' \in Timers(Fitting) /\ load' \in LOADS \cup {0}
      BY <3>1, TimerTypeStep DEF TypeOK, Fitting
    <3>3. Queue'
      BY <3>1, QueueStep
    <3>4. /\ pc' \in {"idle", "debounce", "periodL", "periodH", "start", "clear", "draw"}
          /\ last_state' \subseteq KEYS /\ stable_state' \subseteq KEYS /\ buttons' \subseteq KEYS
          /\ turn' \in 0 .. READS
      BY <3>1, ReadsTypeStep DEF TypeOK
    <3> QED BY <2>1, <3>2, <3>3, <3>4 DEF TypeOK, Queue, Drawing, Fitting
  <2>3. CASE UNCHANGED historyVars
    BY <2>1, <2>3 DEF historyVars, vars, debounceVars, drawVars, TypeOK, Queue
  <2> QED BY <2>2, <2>3
<1> QED BY <1>1, <1>2, PTL DEF HistorySpec

\* Every call keeps the types: the period that is half written fits the
\* registers, and no more than the six ports ever wait to be written.
THEOREM CallsKeepTypes == HistorySpec => []TypeOK
<1>1. CallsInv => TypeOK
  BY DEF CallsInv
<1> QED BY <1>1, CallsInvariant, PTL

-----------------------------------------------------------------------------
(* How far a call is: with the fairness of the specification, what            *)
(* CallsReturn rests on.                                                      *)

\* The accesses a call still makes, at the most.
AccessesLeft ==
    IF pc = "debounce" THEN READS - turn
    ELSE IF pc = "draw" THEN Len(todo)
    ELSE [idle |-> 0, periodL |-> 3, periodH |-> 2, start |-> 1, clear |-> 1][pc]

\* A call has accesses left until it returns, each access leaves it fewer, and
\* neither an expiry of the timer nor a bouncing key gives it any more: a
\* call is over after as many accesses as it began with.
THEOREM CallsAreBounded ==
  HistorySpec => /\ [](AccessesLeft \in Nat /\ (AccessesLeft = 0 <=> pc = "idle"))
                 /\ [][pc # "idle" => IF GoesOn THEN AccessesLeft' < AccessesLeft
                                                ELSE AccessesLeft' = AccessesLeft]_vars
<1>1. CallsInv => AccessesLeft \in Nat /\ (AccessesLeft = 0 <=> pc = "idle")
  <2> SUFFICES ASSUME CallsInv PROVE AccessesLeft \in Nat /\ (AccessesLeft = 0 <=> pc = "idle")
    OBVIOUS
  <2>1. pc = "debounce" => READS - turn \in Nat \ {0}
    BY DriversAssumption DEF CallsInv, Debouncing
  <2>2. pc = "draw" => Len(todo) \in Nat \ {0}
    BY EmptySeq, LenProperties DEF CallsInv, Queue, Drawing
  <2>3. pc \in {"idle", "debounce", "periodL", "periodH", "start", "clear", "draw"}
    BY DEF CallsInv, TypeOK
  <2> QED BY <2>1, <2>2, <2>3 DEF AccessesLeft
<1>2. CallsInv /\ [HistoryNext]_historyVars =>
          [pc # "idle" => IF GoesOn THEN AccessesLeft' < AccessesLeft
                                    ELSE AccessesLeft' = AccessesLeft]_vars
  <2> SUFFICES ASSUME CallsInv, Next, pc # "idle"
               PROVE  IF GoesOn THEN AccessesLeft' < AccessesLeft
                                ELSE AccessesLeft' = AccessesLeft
    BY DEF HistoryNext, historyVars
  <2>1. CASE NextRead
    <3>1. turn \in 0 .. READS - 1 /\ READS \in Nat
      BY <2>1, DriversAssumption DEF CallsInv, Debouncing, NextRead
    <3>2. AccessesLeft = READS - turn
      BY <2>1 DEF NextRead, AccessesLeft
    <3>3. AccessesLeft' = IF pc' = "idle" THEN 0 ELSE READS - (turn + 1)
      BY <2>1 DEF NextRead, AccessesLeft
    <3> QED BY <2>1, <3>1, <3>2, <3>3 DEF GoesOn
  <2>2. CASE WriteDigit
    <3> PICK s : s = todo
      OBVIOUS
    <3> PICK rest : rest = Tail(s)
      OBVIOUS
    <3>1. s \in Seq(Fields \X Parts) /\ s # <<>>
      BY <2>2 DEF CallsInv, Queue, Drawing, WriteDigit
    <3>2. rest \in Seq(Fields \X Parts) /\ Len(rest) = Len(s) - 1 /\ Len(s) \in Nat \ {0}
      BY <3>1, HeadTailProperties, EmptySeq, LenProperties
    <3>3. AccessesLeft = Len(s)
      BY <2>2 DEF WriteDigit, AccessesLeft
    <3>4. AccessesLeft' = IF pc' = "idle" THEN 0 ELSE Len(rest)
      BY <2>2 DEF WriteDigit, AccessesLeft
    <3> QED BY <2>2, <3>2, <3>3, <3>4 DEF GoesOn
  <2>3. CASE WritePeriodL \/ WritePeriodH \/ StartTimer \/ ClearTimeout
    <3>1. \/ pc = "periodL" /\ pc' = "periodH"
          \/ pc = "periodH" /\ pc' = "start"
          \/ pc \in {"start", "clear"} /\ pc' = "idle"
      BY <2>3 DEF WritePeriodL, WritePeriodH, StartTimer, ClearTimeout
    <3>2. AccessesLeft' < AccessesLeft
      BY <3>1 DEF AccessesLeft
    <3> QED BY <2>3, <3>2 DEF GoesOn
  <2>4. CASE ~GoesOn
    <3>1. UNCHANGED <<pc, turn, todo>>
      BY <2>4 DEF Next, Begins, FirstRead, StopTimer, SilenceTimer, SeeTimeout, StartDrawing,
                  TimerExpires, KeyBounces, debounceVars, drawVars
    <3>2. AccessesLeft' = AccessesLeft
      BY <3>1 DEF AccessesLeft
    <3> QED BY <2>4, <3>2
  <2> QED BY <2>1, <2>2, <2>3, <2>4 DEF GoesOn
<1> QED BY <1>1, <1>2, CallsInvariant, PTL DEF HistorySpec
=============================================================================
