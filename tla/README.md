# Verification of the FPGA alarm clock

TLA+ models, TLC runs and TLAPS proofs for the alarm clock of this repository:
a Nios II program on a DE1-SoC board that keeps the time of day on six
seven-segment displays, is set with four keys and a switch, and rings with LEDs
and a buzzer. Paths below are relative to the repository (`src/`).

## 1. The system

| Component | Source | State | Operations |
|---|---|---|---|
| Final firmware | `software/Final2/hello_world_small.c`, 233-505 | time, alarm time, `counting`, `alarma_activa`, its age, buzzer counters, `prev_buttons_state`, last samples | start-up, one turn of the loop (read keys, read switch, set mode, wait and count a second, compare the alarm), ring (`handle_pwm_buzzer`) |
| Its input and output functions | the same, 282-333 | locals of a call | debounce the keys, program the timer, wait for it, draw the time |
| Interval timer | `TimerWithClock/synthesis/submodules/TimerWithClock_TIMER.v` | counter, period, control and status registers, one-cycle delays | count, write status / control / period |
| Ports | `..._BUTTONS.v`, `_SWITCH.v`, `_LEDS.v`, `_BUZZER.v`, `_SSEG_*.v` | one data register each | sample, write |
| Processor (Nios II/e) | `..._TimerWithClock_cpu.v` | one instruction in one of five stages, requests of two bus masters | fetch, load, store, shift, others |
| Interconnect | `..._mm_interconnect_0.v` and the `altera_merlin_*` it instantiates | accepted flags of the masters, arbiters, response FIFOs, wait counters | carry a read or a write to its slave, carry the answer back |
| Address map and memory | `..._mm_interconnect_0_router.sv`, `Final2.objdump` | 4 KB of program and data | decode, overwrite, reset |
| JTAG UART and driver | `..._DEBUG.v`, `altera_avalon_jtag_uart_{write,read}.c` of the BSP | two FIFOs of characters, bus flags | write and read characters; the host takes and types |
| Earlier firmwares | `software/{Test,TimerWithClock,TimeWithClock,buzzer,TimerWithC,Final}` | as the final one without, or with another, buzzer | |
| Vendor software | seven copies of the HAL | | runs from the reset vector to `main()`, and never again |

Lines 1-232 of `software/Final2` are a commented-out copy of an earlier firmware.

**How they interact.** There are no interrupts and no threads. The processor
polls: keys and switch through input ports, and the TO bit of the timer, which
it spins on. The concurrency is with the outside: the counter of the timer runs
freely, contacts bounce, a person presses keys and flips the switch between any
two reads, and a host is at the other end of the JTAG UART. Below the program,
the two masters of the processor (instructions and data) share the memory over
an interconnect in which a read waits a clock or more for its answer.
The key pins are plain levels (two of them are GPIO pins), so the models speak
of keys that are 1 and keys that are 0.

**What is hard.** Values sampled before a wait of a second and used after it;
`prev_buttons_state`, which is only kept up to date in set mode; one timer with
two users, the second and the half PWM period; a TO bit that is sticky and is
not cleared when the timer is reprogrammed; a buzzer loop with three exits of
which two silence the alarm; an age compared by equality; six ports that must
follow three variables through two copies of the carry code; calls of several
bus accesses in the midst of which the timer may run out; a bus on which a strobe
that is held too long is a second access and answers of all slaves are merged
without an arbiter; a FIFO counter that reads 0 when the FIFO is full; registers and
program text in one address space. `PROJECT.json` lists these hazards with their
lines and the properties that cover them.

**What makes each part correct.** The clock moves one second at a time and is
what the displays show; a press steps a field once; the alarm starts exactly
when counting reaches it, sounds with light, can be silenced by a key, ends
within its time and leaves everything off; every busy wait ends; every call is as good
as one that takes effect at an instant; the timer keeps its period and its
interface; a load or a store is one access, in program order, and its answer
is its own; characters arrive once and in order.

## 2. The modules

| Module | Models | Kind |
|---|---|---|
| `TimeOfDay` | the carries, the set-mode steps, the digits and their segments | operators, constants `HORAS`, `MINUTOS`, `SEGUNDOS` |
| `IntervalTimer` | the timer as software sees it: mode, continuous bit, TO, period | operators, and the abstract effect of a clock edge with or without a bus write |
| `AvalonTimer` | the Verilog of the timer, a step per clock edge | specification, refines `IntervalTimer` |
| `AvalonTimerHistory` | the same with a stopwatch | history variable |
| `AlarmClock` | the final firmware, its timer, the pins and the person | specification, uses `TimeOfDay` and `IntervalTimer` |
| `AlarmClockHistory` | the same with what has happened (length of the alarm, keys held, keys risen) | history variables, refines `AlarmDevice` |
| `AlarmDevice` | what the owner is promised, without keys, polls or timers | abstract specification |
| `AlarmClockClaims` | what comments of the source say and the code does not do | properties of violation runs |
| `DriverCalls` | the input and output functions as `AlarmClock` uses them, each at one instant | abstract specification |
| `Drivers` | the same functions one bus access at a time, with bouncing keys and a timer that runs on | specification, uses `TimeOfDay` and `IntervalTimer` |
| `DriversHistory` | `Drivers` with how the call found things | history variables, refines `DriverCalls` |
| `ClockPanel` | the keys, the switch, the timer and the time in the firmwares before the final one | state and actions that the firmwares below share |
| `LedAlarmClock` | `software/Test` and its copies: ten LEDs, an alarm that ages by the turns of the loop | specification, uses `ClockPanel` |
| `SwitchEdges` | how `software/TimerWithC` follows its switch: counting by its edges | operators and a property, on top of `ClockPanel` |
| `FirstAlarmClock` | `software/TimerWithC`, with the alarm of that program | specification, uses `SwitchEdges` |
| `SoundPrototype` | `software/Final`: the first buzzer | specification, uses `ClockPanel` |
| `Processor` | the stages of an instruction and the requests of the two masters | registers and their next values |
| `Interconnect` | translators, agents, arbiters and response FIFOs between masters and slaves | registers and their next values |
| `SystemBus` | the two above, wired, with slaves that make accesses wait | composition, refines `InstructionMachine` |
| `InstructionMachine` | instructions one after the other, with one access for a load or a store | abstract specification |
| `JtagUart` | the JTAG UART's registers and FIFOs | registers and their next values |
| `PolledUart` | the polled driver and a host on a `JtagUart` | composition |
| `StartUp` | reset vector, `_start`, the direction writes of `main()`, the address decoder | specification |
| `MC_AlarmClockHistory`, `MC_SystemBus` | values for TLC; the assumptions at the numbers of the code | instances |
| `TimeOfDay_proofs` | theorems about the time of day, lemmas about `IntervalTimer` | proofs |
| `AlarmClock_proofs`, `LedAlarmClock_proofs`, `SoundPrototype_proofs` | theorems about `AlarmClock` and `AlarmClockHistory`, about `LedAlarmClock` and `FirstAlarmClock`, about `SoundPrototype` | proofs |
| `DriversHistory_proofs`, `AvalonTimer_proofs`, `PolledUart_proofs` | theorems about `DriversHistory`, `AvalonTimerHistory`, `PolledUart` | proofs |
| `SystemBus_proofs` | theorems about `SystemBus` and about `StartUp` in the memory behind it | proofs |

**`AlarmClock` and the code.** The variables are the globals and locals of the
program under their own names (`clock` and `alarm` stand for the three bytes
each, `poll` for the locals of a turn, forgotten when the code no longer reads
them), the output ports `LEDS`, `BUZZER` and `display`, the `timer`, and the
pins `buttons` and `switch`. `pc` says which read comes next:

    boot -> poll -> act -> wait -> check -> pwmStart -> pwmPoll -> pwmRead -> pwmWait -> pwmStop -> restore -> poll
                      \-----------^   \-> poll            ^------------------------'

An action runs from one read of the outside world to just before the next, with
every write on the way: `ReadButtons` (421, 303-314), `Act` (the read of the
switch, 425-470), `CountSecond` (472-490), `CheckAlarm` (492-498), `StartBuzzer`
(337-345), `PwmReadButtons` (346), `PwmReadSwitch` (347-348), `PwmHalfPeriod`
(350-392), `StopBuzzer` (395), `Restore` (499-500). This granularity loses
nothing: between two reads the program only touches its own variables and its output
ports, of which it reads back LEDS alone (348, 423), and gets what it last wrote there: that
read is no read of the outside. `wait_for_timer` is one action enabled by TO; an expiry
between the read of TO and the write that clears it is lost in the code, and in
the model it is an expiry that finds TO already set. Programming the timer is
four bus writes in the code and the operator `Reprogrammed` here. That this is
sound, and that `debounce_buttons()`, `wait_for_timer()` and the update functions may
take effect at one instant as well, is what `ImplementsCalls` shows of `Drivers`.
The lines that can never do anything (451-453 and 463-470: the alarm is never
active at the head of the loop) are modelled all the same; `SilentAtRest` is why
they are dead.

Operators whose comment begins with "Mistake" are variants with a plausible
bug. No specification uses them; they show that each property can fail.

**The earlier firmwares** share their `main()` up to the alarm. `ClockPanel` has
what is common, with the lines of `Test`; each of the three modules adds the
alarm of its program and conjoins it to the shared actions (`Start`, `Read`,
`Act`, `Count`, and what follows). The granularity is that of `AlarmClock`.
`SoundPrototype` keeps the control write at the end of its sound in an action of
its own, `SoundEnd`, because the timer may expire just before it, and that
decides how many more waits succeed.

**`Drivers` and the code.** A call begins with its first bus access, from
`pc = "idle"`, and `main()` may make any call next: `FirstRead` and `NextRead`
(303-314), `StopTimer`, `WritePeriodL`, `WritePeriodH`, `StartTimer` (322-326 and, in
the buzzer, 339-343), `SilenceTimer` (395), `SeeTimeout` and `ClearTimeout` (330-333),
`StartDrawing` and `WriteDigit` (282-301). The refinement mapping gives the abstract
call the timer, the time and the display as the call found them, until its last
access. An expiry in the midst of the four writes becomes one before the call, whose TO
bit is the same; that is why `DriversHistory` lets `found` expire too.

**`SystemBus` and the Verilog.** A step is a rising edge of the clock for all three
modules. Every register is a variable under its own name and every wire an
operator of the registers and of the inputs, so that the combinational paths
through the interconnect (a wait request comes back from the slave in the same
clock) need no order. The parameters are those of the generated top level: one
outstanding answer per slave, write responses and bursts off. A slave is one of three
kinds, by what its translator is configured for: no wait, one wait before a read, or
its own wait request, which the environment raises at will up to `STALL` clocks. Any
instruction may be fetched at any time.

**`PolledUart` and the code.** A driver access stays on the bus for two clocks: the
UART answers in the second. The host may take or type a character at every edge.
A character is its number modulo `CHARS`, so that a lost, doubled or overtaken
one is told from the right one as long as fewer than `CHARS` are under way.

**`StartUp` and the code.** The decoder's ranges are those of the router; a
memory word that is overwritten is `call 0`. The loop over `.bss` and `main()` before
its first writes are run through in one step a line.

**`AvalonTimer` and the Verilog.** One operator, `Edge`, gives the next value of
each register from the old ones and the strobes; an action per bus write
supplies the strobes. The refinement mapping calls the timer "running" when its
counter runs and is not about to be reloaded, and "last" when it has stopped
with the event of its last zero still pending. `ImplementsInterface` is stated
edge by edge: an edge without a write must look to software like `Counts`, a write
of a status, control or period register like `StatusWritten`, `ControlWritten` or
`PeriodWritten` of the same data. The environment writes anything
at any time, except a low period half of 0: no program does (61567, 61568, 7183 and 50000 are
loaded), and loading a counter with 0 raises an event even when it is stopped.

## 3. The runs

| Run | Instance | Shows |
|---|---|---|
| `clock` | day of 2x2x3 s, alarm of 2 s, half period of 2 turns, 3 PWM cycles, minute and alarm key | `TypeOK`; `SilentAtRest`: LEDs, buzzer, flag and age at the head of the loop; `DisplayShowsTime`; `WaitsOnItsTimer`; `SoundWithLight`; `CountsForward` |
| `clock_history` | day of 2x1x3 s, hour and alarm key | `ImplementsDevice`, `OnePressOneStep`, `DismissedPromptly`, `LoopAlive`, `AlarmRings`; evaluates the assumptions at the numbers of the code (30 <= 69 among them) |
| `drivers` | day of 1x2x11 s, 3 reads of the keys, 2 keys, timer halves of 3 values, loads 5 and 7 | `TypeOK`, `ImplementsCalls`, `OldOrNew`, `GivesUpOnlyIfBouncing`, `CallsReturn` |
| `system_bus` | a slave of each kind, two of them shared by both masters, waits of up to 2 clocks, loads of every width, stores, shifts and others | `TypeOK`, `OneMasterAtATime`, `AnsweredByItsSlave`, `ImplementsInstructionMachine` |
| `jtag_uart` | FIFOs of 2, calls of up to 3 characters, 4 characters to tell apart | `TypeOK`, `NeverOverflows`, `HostHearsEverything`, `ProgramReadsEverything`, `WritesReturn` |
| `timer` | register halves of 3 values (a counter of 0..8), module `AvalonTimerHistory` | `TypeOK`, `ImplementsInterface`, `KeepsExpiring`, `PeriodIsLoadPlusOne` |
| `led_alarm` | day of 1x2x3 s, alarm of 3 turns, second and alarm key | `TypeOK`, `LightIsAlarm`, `EveryArrivalRings`, `AlarmEnds` |
| `first_clock` | day of 1x2x3 s, minute and alarm key | `FrozenOnlyAtStart`, `AlarmRings` |
| `sound_prototype` | day of 1x2x3 s, alarm of 2 turns, sound of 7 ticks, second and alarm key | `TypeOK`, `LightIsAlarm`, `WaitsUntilAlarm`, `SecondsRunOut`, `SoundMovesTime` |
| `alarm_full_length`, `dismiss_needs_touch` | the instance of `clock_history` | section 6 |
| `start_up` | one reset | section 6 |

**Bounds and why they are enough.** Every counter of the program is already
bounded by its own code; the instances only make the constants small. Two
seconds of alarm is the least that has a second to be dismissed in and an age
left over; three PWM cycles is one more than the alarm needs, so that an age
left over changes which exit is near; a half period of two turns separates turns
that end a second from turns that do not. The day is long enough for the alarm
to end before it comes round, as in the code. Two keys at a time, a field and
the alarm key, give every combination of press, release and `prev_buttons_state`
that the comparisons tell apart; the three runs use the three field keys in turn.
In `led_alarm` the alarm lasts as many turns as a minute has seconds, the
longest that `EveryArrivalRings` allows (30 and 60 in the code); with one more it
is violated. The sound of 7 ticks is longer than the day of 6 seconds, so that the clock passes the alarm again while it sounds (3000 in the code).
In `drivers` three turns of the debouncing loop are the least in which a level may be
seen, lost and seen again; the loads 5 and 7 differ in both halves, so that every
mixed period is neither; eleven seconds reach a digit that is written without a carry
and one with it. In `system_bus` the address of an access matters only by its slave, and
slaves only by their kind and by whether the instruction master reaches them, so
that one of each stands for the fourteen. In `jtag_uart` a call of three characters fills
a FIFO of two and waits; the width of its counter is kept: it wraps at `DEPTH`, as 6 bits
do at 64.
For the timer, periods 1..8 include the shortest, where the event, the reload
and a bus write meet at one edge.

**Time** is not measured in `AlarmClock`: the timer may expire at any moment while
it runs, or late. So the safety properties hold whatever the speed of the program,
and what depends on speed (drift, how long a press must last) is not stated.

**Fairness.** `WF_vars(Firmware)`: the processor executes its next statement; a
busy wait is an action that is enabled when TO is set. `WF_vars(TimerExpires)`: a
running counter reaches zero; `KeepsExpiring` shows this of the Verilog, where the
only fairness is that the clock does not stop. `Drivers` has `WF_vars(GoesOn)`: a call that
has begun makes its next access; no call has to be begun. `SystemBus` only asks that the clock
does not stop (the bound `STALL` is what keeps a slave from waiting for ever).
`PolledUart` has `WF_vars(HostListens)`: again and again the host takes what there is,
at an edge; without it `WritesReturn` is false of the code, which waits without a limit.
Nothing is assumed of the person, nor of what the host types.

**The abstract specifications.** `AlarmDevice` has a time, an alarm time, whether
it rings and for how many seconds it has. It rings from the second that reaches
the alarm; at most `ALARM_SECONDS`; the time can be set only in silence; ringing
ends (weak fairness of `Stop`). Under the mapping "rings = the LEDs are lit, or
counting has just reached the alarm", `AlarmClockHistory` implements it.
`DriverCalls` has an atomic step per call of the input and output functions, and
`DriversHistory` implements it: this is the seam between `AlarmClock`, whose actions contain
whole calls, and the bus. `InstructionMachine` is the seam below: a load or a
store is one access, made before the next instruction is fetched, and `SystemBus`
implements it, its fairness included. `IntervalTimer` is the seam to the timer, which
`AvalonTimer` implements.

## 4. The proofs

Every safety invariant and action property of a passing run is a theorem, and so is the
safety of both refinements that also promise something of the future. For each
liveness property there is a theorem that says how far it is from what is promised: a
natural number that every step of the process brings down and no step of its
surroundings brings up. With the fairness of the specification such a measure is the
argument for the property; what stays with TLC is the use of fairness itself.

`TimeOfDay_proofs`: `Advance` is the successor modulo the day, in `AdvanceIsSuccessor`
(four cases, one per carry, over the lemma `MixedRadix`), and the display can be
read, in `DisplayIsLegible` (the ten patterns differ; a number below 100 is its two
digits). `AdvanceApproaches` is about the way to an alarm: `ToGo`, the seconds from one time
forward to another, falls by one with each `Advance`. Assumed: each limit is in 1..100, as the fields have two digits. What the
proofs of all firmwares need of the timer is here too: a timer that is programmed runs and goes
on, whatever it did before (`ReprogrammedTicks`), and neither an expiry nor a clearing of
TO stops it (`TickingGoesOn`).

`AlarmClock_proofs`: `TypeOK`, `SilentAtRest`, `DisplayShowsTime`, `WaitsOnItsTimer`,
`SoundWithLight` and `CountsForward` for every constant that satisfies
`AlarmClockAssumption`: an alarm of 1..255 seconds, a half period that is not 0,
and no more alarm seconds than PWM cycles (30 and 69 in the code).

None of these is inductive alone. `IInv` adds two parts:

- `Phases`: where the alarm is on and where it is off, and, inside the buzzer
  loop, `ALARM_SECONDS <= segundos_alarma_activa + buzzer_pwm_cycles`. A second
  of the loop adds one to the age and takes one cycle, so the sum never falls;
  when the last cycle is taken the age has reached its limit, and the loop ends
  by the exit that silences the alarm. This holds for every age the alarm may
  start with, including one left over by a dismissed alarm.
- `TimerPhases`: what the timer is programmed for at each place. It is the reason
  why what `StopBuzzer` really does to the timer is harmless: nothing is claimed
  between it and `Restore`.

There is a lemma per action (`PwmHalfPeriodKeeps` is the one with content), and
`InductiveInvariant` puts them together. `HistoryIsASpec` carries it over to
`AlarmClockHistory`, of which three things are proved:

- `PressStepsOnce` (`OnePressOneStep`), by `Rising`: a key that is 1 without being in
  `prev_buttons_state` has gone from 0 to 1 since it last stepped something, and so has one
  sampled in this turn.
- `DismissalIsPrompt` (`DismissedPromptly`), by `Answering`: after one half period with
  the keys away, the samples of the next one are of keys that are away.
- `DeviceIsSafe`: the first state and every step of the firmware map to `AlarmDevice`,
  with a lemma per action. `RingAge` says that the alarm has rung for no longer than
  its age; an age left over by a dismissal only makes it stop earlier, which the device allows.
  By the same invariant no alarm rings for longer than its seconds (`RingsNoLonger`).

What the liveness of the firmware rests on is proved too. `LoopIsBounded` counts the statements to the
head of the loop (`StepsToHead`): the half periods that the alarm has left, three reads each, and the way out. Every step
of `main()` brings it down, within a bound that the length of the alarm and of the half
period give; with `WaitsOnItsTimer`, by which the timer of every wait is running, this is
`LoopAlive`. `AlarmComesCloser` is the same for `AlarmRings`, with `ToGo` as the measure.

`LedAlarmClock_proofs`: `TypeOK`, `LightIsAlarm` and `EveryArrivalRings` for every day and every
alarm of 1..255 turns that is no longer than a minute has seconds
(`LedAlarmClockAssumption`). A dismissed alarm stays active in the dark, and an active
alarm ignores the alarm time; what has to be shown is that it cannot be active
when the clock comes round. The invariant is `Pace`: going forward from the
alarm, the seconds field is never further away than the alarm has aged, because
a turn adds one to the age and moves that field by one at most, whether by
counting or by a key, and setting the alarm brings it back to 0. In a
turn that counts the distance is at least 1 by the time of the comparison, and
less than a minute, so the two are not equal. `LightRunsOut` is the measure for `AlarmEnds`: the turns of
the loop that an active alarm has left.

`FirstAlarmClock` has the same panel, and its theorems `FirstKeepsTypes` (`TypeOK`, which no run
checks on its own) and `FirstIsNeverFrozen` (`FrozenOnlyAtStart`) are in the same module, about an instance of it. `FirstInv` says
that `counting` and the last level of the switch only differ while nothing has been set:
whatever sets something has seen the switch off, and from then on every edge is followed.
Hence `FirstArrivalsRing`: the comparison asks the switch where counting asks `counting`, and yet every alarm that
counting reaches is lit; `FirstAlarmComesCloser` is the measure for its `AlarmRings`.

`SoundPrototype_proofs`: `TypeOK`, `LightIsAlarm`, `WaitsUntilAlarm`, `SecondsRunOut` and
`SoundMovesTime`, for every day, every length of the alarm and of the sound and every
half period but that of a second (`SoundPrototypeAssumption`), which is how `WaitsUntilAlarm`
knows that the sound has taken the timer. `OneOwner` says what the timer is programmed for: the second
until the first alarm, the sound ever after, and back in the loop without the continuous mode. From there
an expiry stops the timer and a counted second clears TO, so that `WaitsLeft`, two at most, only falls (`HangsAfterAlarm`). `Counted` says that the sound begins in a turn that
counts and with an alarm that has been set; each tick is then one `Advance`, which
`AdvanceIsSuccessor` and `SuccessorModulo` turn into one more than the ticks so far.

`AvalonTimer_proofs`: `CounterInRange`, `PeriodOfTheTimer` and `TimerImplementsInterface`,
for every width of the period registers and every period after reset whose low half
is not 0 (`AvalonTimerAssumption`). `Stopwatch` is what the period needs: while
the stopwatch runs, the counter and the clocks since the last event add up to the period + 1,
and the counter is never at 0 for two clocks. The refinement is proved edge by edge: `Mode` of the
next state is computed from the strobes (`EdgeMode`), then each field of the abstract
timer is compared with what `Counts`, `StatusWritten`, `ControlWritten` and
`PeriodWritten` give it. `EventComesCloser` is the measure for `KeepsExpiring`: `ClocksLeft`, at most
the period + 1, falls by one at every edge that leaves the timer running. It needs `LoadIsCounted`: a
counter that is not about to be reloaded is never above its period, because a new
period forces a reload.

`DriversHistory_proofs`: `CallsAreAtomic` (`ImplementsCalls`), `OldOrNewHolds`, `GivesUpLast` and
`CallsKeepTypes` (`TypeOK`), for every day, every number of reads, every width of the timer and
all loads and periods that
fit it (`DriversAssumption`). A call that reprograms the timer takes effect at its last write:
`Programming` says that until then the timer no longer repeats, has stopped if the one the call
found has, and has the halves that were written, so that an expiry in between is one of the
timer that was found, and nothing of that timer but TO outlives the call. `Drawing` says that
each port a redrawing writes shows its new digit or still waits for it, so that the last write
leaves what `update` says. `Debouncing` says that every turn of the loop so far has seen a change.
For the types, the high half of one period and the low half of another fit the registers
(`HalvesFit`). `CallsAreBounded` is the measure for `CallsReturn`: the accesses that a call has left.

`SystemBus_proofs`: `OneMaster`, `AnswersReachTheirMaster` and `BusTypes` (`TypeOK`), for every set
of slaves, every instruction set and every number of waits. `StageInv` says that an instruction is in one
stage at a time and that the data master asks only for the instruction in `E`, while that
stage waits; so the next fetch cannot begin. `AnswersInv` says that a response FIFO
holds exactly the answer that is on the lines, for the one master whose read of that slave
has been accepted and which still holds its strobe. `WaitInv` is what bounds the wait counters: a
slave that counts one wait before a read is asked for that read until the count is over,
because neither the master nor the grant of the arbiter moves while it waits.

`BusIsSafe` is the refinement of `InstructionMachine`: every edge is a fetch, an access, the end of an instruction,
or nothing to it. `AccessIsAcceptance` identifies an access of a slave with the clock in which the
agent of the data master stops waiting, and `AccessInv` says that the number of accesses of
the instruction is what the accepted flags remember, until its stage ends with all of them made.

`FetchIsBounded` gives the time in which it does so: from any state the next fetch is at most
2 * `STALL` + 46 clocks away (a shift of 31 places between two slow transfers). `ClocksToFetch` adds up what is left of the
stages and of the transfer that is on the bus: the clock after reset, the arbiter, the waits of the slave, the answer. That it falls at every
edge needs two invariants. `TransferInv` says that an accepted read is answered in the same clock, and that an arbiter or a wait
counter that is busy is so with a command that is still let through; hence neither starts again from the beginning.
`ExecuteInv` says what a stage `E` that goes on waiting waits for.

`LossIsStartUp` and `LostIsLost` are about `StartUp`, whatever the number of resets: the two words that
`start_up` (section 6) shows to be overwritten are the only ones, and once one is, a
program in its start-up never leaves it. Both are behind
the program when they go, so that a running clock is not harmed.

`PolledUart_proofs`: `FifosHold`, `RoomIsKept`, `HostHears` and `ProgramReads`, for every depth of the
FIFOs and every length of a call. `UartInv` has the two clocks of an access (`Access`),
the room that was seen and cannot be taken by anybody else (`Room`), and, for each direction,
that the FIFO is an unbroken run of characters from the one the reader expects to the
one the writer sends next (`InOrder`); a character leaves the run at one end, in `Popped`, and
joins it at the other, in `Pushed`. `WriteComesCloser` is the measure for `WritesReturn`. `Burden` weighs the
characters still to be written and those in the FIFO, and the clocks of the access; a clock in which the host takes what there
is brings it down even when the FIFO is full and the driver only asks again.

**Only model-checked:** liveness (`LoopAlive`, `AlarmRings` of both firmwares, `KeepsExpiring`, `WritesReturn`,
`CallsReturn`, `AlarmEnds`), and of `ImplementsDevice` and `ImplementsInstructionMachine` the
fairness: each rests on weak fairness, hence on `ENABLED`, and on an induction over its measure, and the prover
can treat neither. The measures are theorems; no run checks them on their own. The two comments that the
code contradicts in `AlarmClockClaims` and `StartsAgain` are refuted by TLC.

## 5. Not modelled

- Time: how long a press must last, the drift of the second. Between two accesses anything may happen.
- What an instruction computes, and the compiled program as a whole. The models
  of the firmware are of its C source; `SystemBus` is of the machine below it for
  any instructions.
- The snapshot and interrupt parts of the timer, the interrupt logic and activity bit of the JTAG UART
  and its fast driver, the debugger inside the processor: not used, not
  connected or not compiled.
- Bursts, locks, width adaption and write responses of the interconnect, which the
  generated configuration turns off; an instance would never reach them.
- The HAL. Most lines of the repository are seven vendor copies of it, generated
  wrappers, simulation libraries and reports. After `alt_main()` nothing of it
  runs: no system clock is configured, no interrupt is registered, no file is
  opened and nothing is printed. Modelling it would say nothing about this
  system, and this is why the models stand for a small share of the repository's lines.
- Other restarts than that of `StartUp`: configuring the FPGA and loading the
  program start from the initial data, and nothing is kept for the next start.

## 6. Where the code and its comments disagree

Each of these is a property of `AlarmClockClaims` or `StartUp` that TLC refutes.

- `AlarmFullLength`: a dismissal (Final2:388-392) keeps the age of the alarm, so
  the next alarm, if nobody dismisses it, ends early. Test:189 promises 30 seconds.
- `DismissNeedsTouch`: a key released after set mode was left differs for ever
  from `prev_buttons_state`, and silences every later alarm in its first half
  period. Test:170 speaks of a press.
- `StartsAgain`: the writes that are meant to make inputs of the keys and the switch
  (Final2:401-402) reach no port, because the decoder claims those addresses for
  reads only (router.sv:234 and 252). They reach the default slave, the memory, at the offsets
  of two instructions of `_start` (Final2.objdump:200 and 248). After a reset by the debugger,
  which does not load the program again, `main()` is never reached. A running clock is
  not harmed, by `OnlyStartUpIsLost`; and no number of resets changes it, by `LostIsLost` (section 4).

Met on the way, without a run of their own:

- The first second after set mode is counted at once: the timer has usually expired
  while the clock was being set (Final2:328, "Espera una ...").
- After its first alarm the prototype counts at most two seconds more, those of TO and of the
  timer's last zero, and then waits for ever for a stopped timer (Final:360 and 437), by `SecondsRunOut`;
  only one that is the alarm again starts the sound, and with it the timer, anew. The final firmware programs the timer again (Final2:500), which is what
  `LoopAlive` and `WaitsOnItsTimer` depend on.
- 0x00 in the control register does not stop the counter, as Final2:337 and 394
  say; harmless, as `TimerPhases` (section 4) shows.
- A loaded 50 000 000 is a second of 50 000 001 clocks, by `PeriodIsLoadPlusOne`;
  the BSP's own constant is 49 999 999.
- The alarm of the LED generation ages in set mode too, where a turn takes no time
  (Test:187), though Test:25 calls its age a count of seconds.
- With the switch on at power-up the first firmware does not count
  (TimerWithC:178-180) until the switch has been off; nothing has been set by
  then, by `FrozenOnlyAtStart`.
- Every half period of the prototype's sound, a millisecond, moves the clock a second
  (Final:337): an alarm moves the time by 50 minutes, by `SoundMovesTime`.
- The prototype's display ports get digits instead of segments (Final:297).
- The buzzer loop's "cycles in one second" (Final2:342) are 69 seconds, and that
  is what keeps its third exit from being taken.

## 7. Plan

1. Done: the final firmware, its functions and its timer down to the clock edge, the earlier
   firmwares, the processor's bus, the JTAG UART, start-up, and the theorems of section 4.
2. Done: a proof of every safety invariant and action property that a passing run checks, and of the safety of
   `ImplementsDevice` and `ImplementsInstructionMachine`, and a measure for every liveness property. What is left
   to the runs is the step from a measure to its property, which needs fairness.
3. A timed clock, if a bound on the speed of the program is ever needed.
