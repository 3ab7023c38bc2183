------------------------------ MODULE TimeOfDay ------------------------------
(***************************************************************************)
(* The time of day the firmware keeps in the globals horas, minutos and    *)
(* segundos, the two ways it moves (one counted second, one key in set     *)
(* mode) and the six seven-segment ports that show it.                     *)
(*                                                                         *)
(* The limits 24, 60 and 60 of the code are constants, so that TLC can run *)
(* through a whole day of a small clock.                                   *)
(***************************************************************************)
EXTENDS Integers

CONSTANTS
    HORAS,     \* hours of a day       (24 in the code)
    MINUTOS,   \* minutes of an hour   (60 in the code)
    SEGUNDOS   \* seconds of a minute  (60 in the code)

\* The three globals are uint8_t and have two digits on the display.
ASSUME TimeOfDayAssumption ==
    /\ HORAS \in 1 .. 100
    /\ MINUTOS \in 1 .. 100
    /\ SEGUNDOS \in 1 .. 100

Times == [horas : 0 .. HORAS - 1, minutos : 0 .. MINUTOS - 1, segundos : 0 .. SEGUNDOS - 1]

Midnight == [horas |-> 0, minutos |-> 0, segundos |-> 0]

\* The alarm before it is first set: three uint8_t initialised with -1.
NoTime == [horas |-> 255, minutos |-> 255, segundos |-> 255]

-----------------------------------------------------------------------------
(* The two ways the time moves. *)

\* Mistakes: a full hour does not reset the minutes; the day has one more hour;
\* nothing carries into the hours.
Advance_MinutesStay(t) ==
    LET fullMinute == t.segundos + 1 >= SEGUNDOS
        fullHour   == fullMinute /\ t.minutos + 1 >= MINUTOS
    IN  [horas    |-> IF fullHour THEN (t.horas + 1) % HORAS ELSE t.horas,
         minutos  |-> IF fullMinute /\ ~fullHour THEN t.minutos + 1 ELSE t.minutos,
         segundos |-> IF fullMinute THEN 0 ELSE t.segundos + 1]

Advance_LateMidnight(t) ==
    LET fullMinute == t.segundos + 1 >= SEGUNDOS
        fullHour   == fullMinute /\ t.minutos + 1 >= MINUTOS
    IN  [horas    |-> IF fullHour THEN (t.horas + 1) % (HORAS + 1) ELSE t.horas,
         minutos  |-> IF fullMinute THEN (t.minutos + 1) % MINUTOS ELSE t.minutos,
         segundos |-> IF fullMinute THEN 0 ELSE t.segundos + 1]

Advance_HoursStay(t) ==
    LET fullMinute == t.segundos + 1 >= SEGUNDOS
    IN  [t EXCEPT !.minutos  = IF fullMinute THEN (@ + 1) % MINUTOS ELSE @,
                  !.segundos = IF fullMinute THEN 0 ELSE @ + 1]

\* One more second, carried into the minutes and the hours.
Advance(t) ==
    LET fullMinute == t.segundos + 1 >= SEGUNDOS
        fullHour   == fullMinute /\ t.minutos + 1 >= MINUTOS
        fullDay    == fullHour /\ t.horas + 1 >= HORAS
    IN  [horas    |-> IF fullDay THEN 0 ELSE IF fullHour THEN t.horas + 1 ELSE t.horas,
         minutos  |-> IF fullHour THEN 0 ELSE IF fullMinute THEN t.minutos + 1 ELSE t.minutos,
         segundos |-> IF fullMinute THEN 0 ELSE t.segundos + 1]

\* Mistake: the minutes are stepped without their modulus.
Adjusted_NoModulus(t, keys) ==
    [horas    |-> IF "horas" \in keys THEN (t.horas + 1) % HORAS ELSE t.horas,
     minutos  |-> IF "minutos" \in keys THEN t.minutos + 1 ELSE t.minutos,
     segundos |-> IF "segundos" \in keys THEN (t.segundos + 1) % SEGUNDOS ELSE t.segundos]

\* Set mode: every field whose key is in keys is stepped, and nothing carries.
Adjusted(t, keys) ==
    [horas    |-> IF "horas" \in keys THEN (t.horas + 1) % HORAS ELSE t.horas,
     minutos  |-> IF "minutos" \in keys THEN (t.minutos + 1) % MINUTOS ELSE t.minutos,
     segundos |-> IF "segundos" \in keys THEN (t.segundos + 1) % SEGUNDOS ELSE t.segundos]

\* Reference definitions: a time as a number of seconds since midnight.
SecondsInDay == HORAS * MINUTOS * SEGUNDOS

SecondOfDay(t) == (t.horas * MINUTOS + t.minutos) * SEGUNDOS + t.segundos

-----------------------------------------------------------------------------
(* The display: for each field the ports of its tens and of its units.  A  *)
(* port is 7 bits wide and drives the segments active-low.                 *)

Patterns == <<63, 6, 91, 79, 102, 109, 125, 7, 127, 111>>

num_to_seven_seg(num) == 127 - Patterns[num + 1]

display_digit(port, digit) == IF digit < 10 THEN num_to_seven_seg(digit) ELSE port

ShowField(ports, n) == [tens  |-> display_digit(ports.tens, n \div 10),
                        units |-> display_digit(ports.units, n % 10)]

\* update_hours(), update_minutes() and update_seconds(), those that are called.
update(d, t, fields) ==
    [horas    |-> IF "horas" \in fields THEN ShowField(d.horas, t.horas) ELSE d.horas,
     minutos  |-> IF "minutos" \in fields THEN ShowField(d.minutos, t.minutos) ELSE d.minutos,
     segundos |-> IF "segundos" \in fields THEN ShowField(d.segundos, t.segundos)
                                           ELSE d.segundos]

\* Mistake: the hours are redrawn in set mode only.
update_all_NoHours(d, t) == update(d, t, {"minutos", "segundos"})

update_all(d, t) == update(d, t, {"horas", "minutos", "segundos"})

Ports    == 0 .. 127
Displays == LET Pair == [tens : Ports, units : Ports]
            IN  [horas : Pair, minutos : Pair, segundos : Pair]

\* The reset value of a PIO port is 0: every segment lit.
ResetDisplay == LET Pair == [tens |-> 0, units |-> 0]
               IN  [horas |-> Pair, minutos |-> Pair, segundos |-> Pair]

\* What a person reads: the digit whose segments are lit.
DigitOn(port) == CHOOSE digit \in 0 .. 9 : num_to_seven_seg(digit) = port

FieldOn(ports) == 10 * DigitOn(ports.tens) + DigitOn(ports.units)

TimeOn(d) == [horas    |-> FieldOn(d.horas),
              minutos  |-> FieldOn(d.minutos),
              segundos |-> FieldOn(d.segundos)]
=============================================================================
