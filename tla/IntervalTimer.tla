---------------------------- MODULE IntervalTimer ----------------------------
(***************************************************************************)
(* The Avalon interval timer as software sees it: no counter, only the     *)
(* status and control bits and the period registers.  An expiry may come   *)
(* at any moment while the counter runs.  Module AvalonTimer is the        *)
(* register-level hardware and implements this one; module AlarmClock is   *)
(* the program that drives it.                                             *)
(*                                                                         *)
(* A timer is a record:                                                    *)
(*   mode        "running"; "last": stopped, with the event of its last    *)
(*               zero still on its way to the TO bit; "stopped"            *)
(*   continuous  bit 1 of the control register                             *)
(*   to          the TO bit of the status register                         *)
(*   period      the value of the two period registers                     *)
(***************************************************************************)
EXTENDS Naturals

VARIABLE timer

Timers(periods) == [mode       : {"stopped", "running", "last"},
                    continuous : BOOLEAN,
                    to         : BOOLEAN,
                    period     : periods]

\* The counter has reached zero.
Expired(t) == [t EXCEPT !.to = TRUE,
                        !.mode = IF @ = "running" /\ t.continuous THEN "running" ELSE "stopped"]

\* A write to the control register: START wins over STOP.
AfterControl(t, start, stop, cont) ==
    [t EXCEPT !.continuous = cont,
              !.mode = CASE start          -> "running"
                         [] ~start /\ stop -> IF @ = "stopped" THEN "stopped" ELSE "last"
                         [] OTHER          -> @]

\* A write to a period register stops the counter and reloads it.
AfterPeriod(t, p) == [t EXCEPT !.period = p,
                               !.mode = IF @ = "stopped" THEN "stopped" ELSE "last"]

\* A write to the status register clears TO.
AfterStatus(t) == [t EXCEPT !.to = FALSE]

\* The driver sequence CONTROL <- 0, PERIODL, PERIODH, CONTROL <- 7.
Reprogrammed(t, p) ==
    AfterControl(AfterPeriod(AfterControl(t, FALSE, FALSE, FALSE), p), TRUE, FALSE, TRUE)

-----------------------------------------------------------------------------
(* One clock edge, with what the bus master does at it.  The counter may   *)
(* reach zero at the very edge of a write, whose effect is then the later. *)

\* A counter that is started at zero lapses: it stops with no event.
AfterCount(t) ==
    CASE t.mode = "stopped" -> {t}
      [] t.mode = "last"    -> {Expired(t)}
      [] t.mode = "running" ->
            {t, Expired(t)} \cup (IF t.continuous THEN {} ELSE {[t EXCEPT !.mode = "stopped"]})

\* A counter stopped by a write may or may not have an event on its way.
AfterStop(t) == {t} \cup (IF t.mode = "last" THEN {[t EXCEPT !.mode = "stopped"]} ELSE {})

Counts == timer' \in AfterCount(timer)

StatusWritten == \E t \in AfterCount(timer) : timer' = AfterStatus(t)

ControlWritten(start, stop, cont) ==
    \E t \in AfterCount(timer) : timer' \in AfterStop(AfterControl(t, start, stop, cont))

PeriodWritten(p) == \E t \in AfterCount(timer) : timer' \in AfterStop(AfterPeriod(t, p))

TimerInit(p) == timer = [mode |-> "stopped", continuous |-> FALSE, to |-> FALSE, period |-> p]
=============================================================================
