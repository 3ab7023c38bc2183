---------------------------- MODULE DriversHistory ----------------------------
(***************************************************************************)
(* The functions of module Drivers with a record of how the call found     *)
(* things: the instant at which a call takes effect is stated over it.     *)
(***************************************************************************)
EXTENDS Drivers

VARIABLES
    found,     \* the timer as the call that reprograms it sees it
    told,      \* the time before the call that draws
    shown,     \* the display before the call that draws
    bounces    \* changes of the keys since the first read of debounce_buttons()

historyVars == <<vars, found, told, shown, bounces>>

Reprogramming == pc \in {"periodL", "periodH", "start"}

HistoryInit == Init /\ found = timer /\ told = Midnight /\ shown = display /\ bounces = 0

Record ==
    /\ found' = IF ~Reprogramming' THEN timer'
                ELSE IF ~Reprogramming THEN timer
                ELSE IF pc' = pc /\ timer' # timer THEN Expired(found) ELSE found
    /\ told'  = IF pc' # "draw" THEN clock' ELSE IF pc # "draw" THEN clock ELSE told
    /\ shown' = IF pc' # "draw" THEN display' ELSE IF pc # "draw" THEN display ELSE shown
    /\ bounces' = IF pc' # "debounce" \/ pc = "idle" THEN 0
                  ELSE IF buttons' # buttons /\ bounces < READS THEN bounces + 1 ELSE bounces

HistoryNext == Next /\ Record

HistorySpec == HistoryInit /\ [][HistoryNext]_historyVars /\ WF_vars(GoesOn)

-----------------------------------------------------------------------------

Calls ==
    INSTANCE DriverCalls WITH
        timer   <- IF Reprogramming THEN [found EXCEPT !.to = timer.to] ELSE timer,
        clock   <- IF pc = "draw" THEN told ELSE clock,
        display <- IF pc = "draw" THEN shown ELSE display

\* Every call behaves as if it took effect at one instant, its last access: an
\* expiry that comes between the four writes, or between the read of STATUS
\* and its write, and a key that moves between two reads, are as good as one
\* that comes before or after the call.  This is what lets module AlarmClock
\* make each call a part of one action.
ImplementsCalls == Calls!Spec

\* debounce_buttons() returns a level it has read twice in a row, unless the
\* keys have changed between each two of its READS + 1 reads.
GivesUpOnlyIfBouncing ==
    [][pc = "debounce" /\ pc' = "idle" =>
          buttons = last_state \/ bounces >= READS]_historyVars

\* While the display is redrawn, port by port, a port shows its digit of the
\* time before or of the time after and nothing else.
OldOrNew ==
    \A field \in {"horas", "minutos", "segundos"}, part \in {"tens", "units"} :
        \/ display[field][part] = shown[field][part]
        \/ display[field][part] = update_all(display, clock)[field][part]
=============================================================================
