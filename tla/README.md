# A formal model of fanctl

fanctl is a Go daemon that reads temperatures over IPMI, turns them into a fan
duty, and writes that duty to a server's BMC, which it takes out of its own
thermal control to do so. What can go wrong is rarely one wrong line: it is a
command that fails half-way, a belief about the BMC that has become false, a
reload in the middle of a step, a signal while a command is out. This directory
holds TLA+ modules of those parts, the TLC configurations that check them on
small instances, and proofs for all instances that TLAPS checks.

To check: `tlc -config controller.cfg MCController.tla` (and likewise for the
other configurations below), `tlapm ControllerProofs.tla` (and the other
`*Proofs` modules). `PROJECT.json` lists the components, the runs, which source
lines each definition models, the hazards, the findings and the theorems.

## Inventory

| Component | Source | State it keeps | Operations | What is hard, and what makes it correct |
|---|---|---|---|---|
| Curve | `internal/fan/curve.go` | none | `Validate`, `Duty`, `ReclaimBelow` | Interpolation and rounding stay within the anchors; a duty is always one the BMC accepts. |
| Governor | `internal/fan/curve.go` | `State`: duty, auto, init, hold | `Next`, `SameCommand` | Long sequences: jitter absorbed, decreases bounded, yet every lasting target reached. |
| Predictor | `internal/fan/predict.go` | a window of samples | `Observe`, `Boost`, `Reset` | Slopes over short windows; no boost survives a reset. |
| Control loop | `cmd/fanctl/run.go` | `controller`: tunables, state, verification, last write | `step`, `runStep`, `fallbackAuto`, `handBackToAuto`, `setTunables` | Stale state across unlocked gaps; partial failure; a hot or blind host is handed to the BMC; a reverted BMC is brought back; shutdown hands back. |
| BMC, IPMI client | `internal/ipmi/ipmi.go` | mode and duty (external) | `SetManual`, `SetAuto`, `SetPercent`, reads | Fails, answers late, reverts on its own. |
| Command runner | `internal/runcmd/runcmd.go` | a child process | `CombinedOutput` | A child outlives the deadline of its call. |
| Reload | `cmd/fanctl/run.go` | `*cfg`, `intervalCh` | the `reload` closure, SIGHUP goroutine | Overlapping reloads; no wake-up lost; nothing bound at startup changes. |
| Config watcher | `cmd/fanctl/watch.go` | the debounce timer | `run` | Bursts, a timer that has expired when it is stopped; the last edit takes effect. |
| Configuration | `internal/config/*.go` | `Config` | `LoadFile`, `Validate`, `EffectiveStepTimeout` | Boundaries between timeouts and cadences. |
| Watchdog | `cmd/fanctl/watchdog.go` | the probe channel | `runWatchdog`, `loopIsLive` | A busy loop is not wedged, a wedged one is restarted. |
| Unit, restore-auto | `systemd/fanctl.service`, `cmd/fanctl/restore.go` | the unit's state | start, crash, `ExecStopPost`, restart | Crash at any point; the connection edited in between. |
| Sweep, probe | `cmd/fanctl/sweep.go`, `probe.go` | the samples | `sweep`, `measure`, `probe`, `analyseSweep` | Every exit restores; the analysis at its boundaries. |
| Metrics | `cmd/fanctl/metrics.go` | `Snapshot` | `/metrics` | Tells the truth after a fallback. |
| Install, command line, packaging | `cmd/fanctl/install.go`, `main.go`, `packaging/` | the file, the unit | write the file, start the unit, restore on removal | What they do to a unit that runs. |
| GPU reader | `internal/gpu/gpu.go` | none | `Temperatures`, `Max` | A failure is never taken for a cool GPU. |
| Doctor | `cmd/fanctl/doctor.go` | none | reads and prints | Pure I/O. |

How they interact: the loop calls the IPMI client and the GPU reader (each call
through the command runner), the curve and the governor. The SIGHUP goroutine
and the expiries of the watcher's timer call `reload` on goroutines of their
own, which swaps tunables and state under the controller's mutex, replaces
`*cfg` without it, and wakes the loop through a channel of capacity one. The
metrics server reads the snapshot under the mutex. The watchdog probes the loop
through an unbuffered channel. The unit runs `restore-auto` whenever the daemon
has ended.

## Modules

| Module | Models | Notes |
|---|---|---|
| `FanPolicy` | curve and governor as pure operators | one operator per case of `Governor.Next`; a `Slip...` operator is a faulty variant for mutation checks and is used by no specification |
| `Governor` | the governor as a machine of decisions and resets | history variables `asked` and `streak` record what really was asked |
| `Bmc` | the BMC and the three raw commands (external) | from what `ipmi.go` sends and its comment that a duty "requires manual mode first" |
| `Controller` | the loop, one step in up to nine actions, against the BMC | composes `FanPolicy` and `Bmc` |
| `Reload` | watcher, timer, SIGHUP, reload closure, the loop's ticker | any number of timer goroutines |
| `SweepAnalysis` | the samples of sweep and `analyseSweep`, round by round | with a definition without a loop of what it looks for |
| `Custody` | abstract: who has the fans, and whether fanctl owes them back | implemented by `Controller`, and by `Unit` where its restores reach |
| `ConfigFile` | the merge of a file onto the defaults, validation, effective step timeout | pure operators, for `Watchdog` and `Unit` |
| `Sensing` | sensor selection, predictors, decision, over time | composes `FanPolicy`; proves what `Controller` abstracts |
| `Watchdog` | the loop in time, the prober, systemd's watchdog | discrete time |
| `Unit` | the systemd unit: start, crash, wedge, `restore-auto`, restart, edits, install, removal | one abstract daemon, several BMCs |
| `Tools` | sweep and probe against the BMC, a user who interrupts, others who write | composes `Bmc` and `SweepAnalysis` |
| `MC...` | the small instances | |
| `PolicyProofs`, `GovernorProofs`, `ControllerProofs`, `ReloadProofs`, `ToolsProofs`, `WatchdogProofs`, `UnitProofs`, `SensingProofs` | the theorems | |

### Controller

`step` holds the mutex in four sections and talks to the BMC in between. Each
action of `Controller` ends where the mutex is released or a command returns, so
that a reload, a signal, an iDRAC reset or a late command can fall into every
gap: `StartStep` (the copies), `Read` or `ReadFails` (both reads, and the
decision), `Fans` (the fan read, the verdict of the verification, whether to
write), `SetManual`, `SetPercent`, `SetAuto` (`applyState`), `Record` (time
stamp, arming the verification), `Commit`, and `Fallback`, `Shutdown`,
`HandBack`. `prev`, `ltun`, `next` and `rpm` are the step's locals.

A command returns "ok"; "lost" (an error, no effect); "done" (an error, though
it took effect); or "late" (cut off at its deadline, with a child that lives on
and may yet take effect, which is what `CombinedOutput` allows). The constant
`Faults` says at which sites things go wrong. After a termination signal every
command on the loop's context fails whatever `Faults` says, the hand-back's
excepted, which has a context of its own.

What is abstracted: a temperature is an integer together with an effective one
(`raw`, `eff`), since all the predictor does is to add a boost; sensor selection
is its result, a reading or none (`Sensing` has both); the fans' speed is "none",
"flat" or "moved" against the base of the pending verification; time since the
last write is counted in steps and held at `MaxAge`, which must reach the
re-assert interval. At most `MaxLate` different commands are late at a time, where
the code sets no limit. A signal between the two temperature reads, which fails
the GPU's only, is in the model a failed GPU read that the signal follows.
Rounding happens per curve instead of once after the maximum, which is the same
since rounding is monotone. A dry run is a flag of the start, as in the code.
`-once` is not modelled: it is one step whose state nobody sees again.

`Custody` says what all this is for, in two variables: `holder` of the fans, and
`owed`, that fanctl has to give them back. fanctl never takes what it owes, and a
debt is settled only by the BMC having the fans. The refinement maps `holder` to
the BMC's mode and `owed` to `Owes`: a step has decided for the BMC, or has failed
and comes to its fallback, or a termination signal has reached a loop without a
decision, which from there on only reads and comes to its hand-back. A fan read
that fails owes nothing: the code calls it best-effort (run.go:449), against the
repository's README (see the divergences below). An iDRAC that takes the fans back
on its own is a `Return`. A dry run promises nothing: it never takes the fans and
so never owes them (`Owes` is false).

### Reload

One reload is `Load`, `SetTunables`, `Pin`, `Assign`, `Notify`; several may be
at it at once, one of the SIGHUP goroutine and one for each expiry of the timer.
A configuration is its tunables (here the two cadences), what is bound at
startup (connection, ipmitool and step timeout as one value), and gpu.enabled.
The fields that a reload reads while another one replaces `*cfg` are equal
before and after, so the unsynchronised copy can show no other value in them.
A file is a configuration, "bad" (does not parse or validate) or absent; an
absent file loads the defaults, as `fs.ErrNotExist` is tolerated. The watcher
notices a file that is moved away (a rename event), not one that is deleted.

### Tools

Both subcommands go through the same program points: `args`, `baseline` (the
first measurement), `setManual`, `setPercent`, `settle`, `measure`, `restore`,
`exited`. They differ in what a return does (`Leave`: the deferred restore of
sweep runs on every return past its `defer`, probe's restore is one statement
before its verdict) and in what a signal does (sweep's context is cancelled,
which fails every command but the restore; probe is killed, and the command it
had out may have taken effect). A command has no deadline, so it may hang:
nothing but the settling time, the restore and what follows a cancellation is
sure to happen. `daemonActive` can miss a daemon, and one may start later; while
it runs it writes any command. `disturbed` records that somebody else has
written since the tool took, or gave back, control.

A measurement is one of a set of [avg, min, max, temp, gpu]; the fans' list,
sensor selection and the inlet temperature are abstracted to it. The limits of
the baseline measurement are not looked at, in the model as in the code.

### Sensing

A step is `Begin` (the copies, the time, both reads), `Decide` (selection, the
predictors, the decision) and `Commit` or `StepFails`; a `Reload` falls in
between. A sensor is its id, the patterns that its name contains, and a reading,
which may be none ("ns" in the listing) or below zero. A sample carries its age
instead of its time, and ages stop growing one tick beyond the window: `Observe`
drops such a sample whatever its age, and a predictor that is not observed keeps
it only as a sample that the next one drops. A boost is an exact fraction; the
curve is scaled by its denominator, so that nothing is rounded. (The code
computes in floating point. The readings are integers and the window is short,
so the two can differ in the last bits of a temperature only, never by an
anchor.) The monotonic clock of Go's `time.Now` makes gaps non-negative. GPUs are
taken to report no negative temperatures. `Controller` has the commands; here
they succeed or the step fails.

### ConfigFile, Watchdog, Unit

`ConfigFile` merges a file as `LoadFile` does, field by field, with the early
return at the first duration that does not parse and what was merged so far left
in place. Fields that no property tells apart are one field, `rest`.

`Watchdog`: time passes only when nobody has anything to do at once, and a step
or fallback is over at its deadline at the latest, but may end at any time before.
The loop's `select` takes a tick, a wake-up or the prober's probe when one is
ready; the prober ticks every half `WatchdogSec` and offers its probe for the
grace. A reload changes the cadences, never the step timeout; which of two
cadences the loop then chooses is left open, since that depends on temperatures.
`tight` records that a cadence no longer than a busy spell has been in use: the
loop may then find a tick ready each time it comes back, and Go's random choice
alone decides whether the probe is taken in time. The model starts with READY=1
and ends with the kill.

`Unit`: the daemon is a loop that is busy with a step, waits in `select`, or has
wedged; its commands take or hand over the BMC that it bound at its start. It
dies of an exit, a crash, the watchdog or a timeout of systemd's; then
`ExecStopPost` runs `restore-auto` with the file as it is by then, and
`Restart=always` starts the daemon again unless the operator has stopped the
unit. `missed` records the BMCs that a restore did not reach. Faults are counted
over a whole behaviour. The start limit cannot be met (`RestartSec=10`).

`UnitKeepsCustody` maps the unit to `Custody` once more, one level up: fanctl is
the `holder` while some BMC is pinned, and the unit `owes` what a process that has
ended left pinned, until `restore-auto` has run. Where every file loads and
describes the same BMC and no restore fails, that is a refinement: no daemon is
started over fans that an earlier one still owes.

## What the runs check

| Run | Bounds | Shows |
|---|---|---|
| `governor` | 4 governors, 5 duties, history of 4 | types; jitter absorbed; decreases bounded; lasting targets reached |
| `controller` | 2 configurations, 5 readings, faults at reads and commands, iDRAC resets | types; hand-over completed; belief sound; verification only under manual control; metrics never flatter; reloads not overwritten; dry run; implements `Custody` |
| `controller_live` | 1 configuration, 2 readings, faults also of the fallback, and late commands, one at a time | re-assert recovers a reverted BMC; every signal ends with the BMC in control |
| `controller_stale_belief` | faults of commands and fallback | **violation**: hand-over suppressed by a stale belief |
| `controller_stale_commit` | no faults | **violation**: a reload during a first step is lost |
| `reload` | 2 configurations, 2 edits, 1 SIGHUP, 1 timer goroutine next to SIGHUP's | types, with a period for the ticker; no wake-up lost; bound fields pinned; agreement; no edit forgotten; edits take effect |
| `tools` | 4 lists of steps, 2 duties of probe, 9 measurements, with and without GPU and restore, failing reads and commands, late commands, a daemon | types; restore on every path; honest samples; the way down; exit codes; the suggested floor; an interrupt ends a sweep |
| `tools_probe` | failing reads | **violation**: probe returns without its restore |
| `sensing` | 2 selections, 3 boards, 2 lists of GPUs or none, ticks of 30 s, 3 samples at a time | types and order of samples; too hot hands over; no hand-over far below the top or due to a sensor that is ruled out; old rises and reloads leave nothing behind |
| `watchdog` | 3 files, units of 5 s, `WatchdogSec` 90 s, slack 10 s | types; a working loop survives; a wedged one is caught in one period and killed |
| `unit` | 10 files, 3 BMCs, 2 faults of 5 kinds | types; what can be left pinned; the daemon comes back; a stop completes |
| `unit_restore` | 2 files that name the same BMC, 1 crash | **violation**: a mistyped duration makes `restore-auto` talk to the wrong BMC |

Why the bounds are enough for the questions asked: the governor's behaviour
depends on a duty only by its order and its distance to the next ones, against the
deadband and the cap; the five duties give equal, below, at and above each for the
governors chosen, and a move of several capped steps. The readings of `controller`
lie at the floor, within the deadband of it, at the top, above it, and below the
reclaim threshold while heading above it, and the way down from the top is no
multiple of the step cap. Two configurations suffice to tell an old from a new
one. Two edits and a SIGHUP let reloads overlap and let an edit fall into a
running one. `controller_live` has one configuration since liveness under reload
is a question about reloads that stop, and two duties a verified change apart; its
governor has no step cap, since the cap only delays. The measurements of `tools`
give each verdict of the analysis on a list of three duties (a slope exactly at a
quarter of the steepest and one just below it, none, a spread that is too wide
after an even baseline but not after a wide one) and one reading at each limit.
The board of `sensing` has a die and an inlet that the defaults exclude and an id
selects, readings at, between and over the anchors, and one that does not count;
the curves' tops are such that a rise over one, two or three ticks gives a boost
below, at and above its cap. Gaps of 0 and 1 tick give samples at the same
instant, a full window and one that drops samples; three samples bound the two
histories together. The files of `watchdog` are the defaults, a hot cadence that
caps the step timeout and that a busy spell outlasts, and a step timeout that
reaches the cap of the grace. The files of `unit` load or do not for each reason
(absent, not YAML, mistyped at the first and at the last duration, refused for a
cadence, for a missing host and for an interface that `restore-auto` would use),
in-band and for two hosts; two faults let the restore fail after a crash, or two
daemons in a row crash. What holds beyond the bounds is the proofs' matter.

Five more configurations beside the project's runs check what theorems say that no
run states, or beyond a run's bounds; each passes:

- `governor_hold.cfg` (`MCGovernor`): `HoldIsEarned`, `CoolingKeepsUp`, `ClosesIn`.
- `controller_exit.cfg` (`MCController`): `ExitedHandedBack`, with faults of the
  fallback too.
- `controller_late.cfg` (`MCController`): `controller_live` with two late commands
  at a time; it takes some minutes.
- `tools_verdict.cfg` (`MCTools`): `ProbeVerdictStands`.
- `unit_custody.cfg` (`MCUnit`): `DownMeansHandedBack` and `UnitKeepsCustody`, on
  files that all load and describe the same BMC.

The runs of `Controller`, `Reload`, `Tools`, `Watchdog` and `Unit` do not check for
deadlock: these programs do exit, the killed daemon of `Watchdog` too, and a unit
that is down with a file that nobody edits may stay so. `sensing` checks it.

### Fairness

`Controller`: weak fairness of `StartStep` (the ticker goes on) and of each
step's actions (every command is bounded by a deadline, so it returns), and
strong fairness of `Shutdown`: Go's `select` picks at random among the ready
cases, so one that stays ready whenever the loop comes to it is taken in the
end. Faults, reloads, signals, late commands and resets have none.
`RevertRecovered` speaks of behaviours in which, from some point on, nothing goes
wrong any more (`calm`) and manual control goes on. `Reload`: weak fairness of
goroutines that can run, strong fairness of the wake-up's case in the loop's
`select`. `Governor`: the ticker keeps the decisions coming, also the same one
again and again: weak fairness of a decision with each input that lasts, since
weak fairness of "some decision" would be owed a step that changes something and
would rule out an input that lasts. `Tools`: weak fairness of the settling
timer, of sweep's restore (15 s at most), and of whatever comes next once sweep's
context is cancelled (`CombinedOutput` returns then, whatever the child does).
`Watchdog`: weak fairness of loop, prober, systemd and clock together, since each
step of theirs that is enabled has a deadline or comes at once; none of wedges and
reloads, so `WedgedIsKilled` holds although reloads may go on for ever. `Unit`:
weak fairness of systemd, of a step's end (its deadline) and of the loop's exit
after a signal; none of commands, faults or what the operator does.
`SelfHeals` speaks of behaviours in which the unit stays wanted and the file
stays good from some point on; faults are bounded, as they must be for that.

### Findings

1. `fallbackAuto` leaves the believed state alone when its own command fails
   (`controller_stale_belief`). Trace: hand-over; reclaim with `SetManual` done
   and `SetPercent` failed; the fallback fails too. The belief is still the
   hand-over. Too hot again: "unchanged", no command, fans pinned. Without fault
   of the fallback the belief is sound, which is proved (`BeliefSound`); and
   whatever the fallback did, the exit hands back (`ExitedHandedBack`).
2. The commit's test `c.state == prev` cannot tell a reset from a copy that was
   zero itself (`controller_stale_commit`). From any other copy the reset is
   safe, which is proved.
3. probe returns without its restore when the duty cannot be set (always so for
   a `-percent` above 100) or the second fan read fails (`tools_probe`).
   Where neither a reading nor a command fails and the duty is in range, the
   restore is reached, which is proved (`ProbeRestoresIfAllGoesWell`).
4. `loadConfigOrDefault` goes on with a half-merged configuration
   (`unit_restore`). The durations are merged before the connection, so with a
   mistyped duration `restore-auto` commands the local BMC although the file
   describes an out-of-band one. If the daemon crashes after such an edit, the
   fans stay pinned, and the daemon refuses to start on that file. That nothing
   else leaves a BMC pinned, but for restores that fail and files that describe
   another one, is proved (`PinnedOrMissed`), and so is that with files which load
   and describe one BMC the sentence is true (`DownIsHandedBack`).

Five further divergences, of less consequence, have configurations of their own
beside the project's runs; each ends with a counterexample:

- `governor_increase.cfg` (`MCGovernor`, `IncreasesNeverGated`): the repository says
  two things of small increases. "Increases are never gated: responsiveness upward
  is safety" (curve.go:107), "increases always apply immediately" (config.go:40 and
  the example configuration), "Upward moves are immediate" (README.md:161). But
  `DeadbandHoldPolls` "debounces in BOTH directions" (curve.go:113), and the code
  does that: with the default of 3 polls (config.go:158) an increase below the
  deadband waits until it has been asked for three times in a row.
  `JitterAbsorbed` states the second; how far the fans can fall behind is
  `CoolingKeepsUp`, less than the deadband.
- `controller_fan_read.cfg` (`MCController`, `FanReadFailureHandsBack`): "fanctl
  returns control to it when: [...] a temperature or fan read fails"
  (README.md:220-224 of the repository), but the fan read is "Best-effort [...];
  never fails the step" (run.go:449-453): the step goes on, under manual control
  too. `Custody` is refined with the code's notion of failure (`Owes`).
- `controller_metrics.cfg` (`MCController`, `MetricsTellMode`): `/metrics` is not
  updated by the fallback and goes on showing the manual duty (metrics.go:58).
  It errs on the safe side only, which is proved (`MetricsNeverFlatter`).
- `governor_step_cap.cfg` (`MCGovernor`, `StepDownCapped`): `MaxStepDown` does not
  cap held moves below a deadband larger than it (curve.go:161, against
  curve.go:109). With a deadband of at most the cap plus one it does, which is
  proved.
- `reload_in_effect.cfg` (`MCReload`, `InEffect`): a reload takes gpu.enabled into
  the configuration in memory although the reader is bound at startup
  (run.go:113-119).

More observations that no document contradicts and no run shows:

- The grace is meant for "one full control step" (watchdog.go:60), but a step
  that times out is followed by a fallback with a deadline of its own. At the
  defaults these are 30 s against a grace of 25 s: with a fallback that takes its
  whole deadline (`SlowFallback = 3` in `watchdog.cfg`, where `Quick` is then
  false) the watchdog can take a working loop for a wedged one. `HealthySurvives`
  therefore assumes `Quick`.
- A step that straddles a reload has read under the old sensors and observes
  after the reset: one sample of the old selection starts the new history, and
  the next boosts, of at most 8 degrees and for at most 90 s, may be due to the
  change of source. `ReloadForgets` excepts it; `HandOverIsWarranted` and
  `SteadyIsTakenAsRead` hold for it too.
- A step that is between its commands and its record when a reload clears the
  pending verification arms it again (run.go:498). The next step that comes to its
  verdict writes anyway, since the reload has reset the state, so no more than the
  count of failed verifications can be wrong. `VerifyOnlyManual` allows it.
- A late command that lands after the daemon has exited takes the fans from the BMC
  with nobody left to notice. `ShutdownHandsBack` speaks of the moment of the exit.
- Overlapping reloads may leave tunables and configuration from different files, and
  a cadence shortened by a reload below a busy spell leaves the watchdog's probe to
  the random choice of `select`. Nothing in the code guards against either; the
  properties concerned except them (`overlapped`, `tight`).

## What is proved

All of it for every value of the constants, from the assumptions the modules
state about them (`...Assumption`): curves that pass `Curve.Validate`, governors
with natural parameters, any readings.

- `PolicyProofs`: `DutyInRange`. The key is that a temperature between the first
  and the last anchor lies in some segment (a pigeonhole argument over the anchors
  below it), and that a rounded quotient stays between integers which bound it.
  `GovNextType`, and the case analysis `RegulateCases` the other modules use.
  `HotterAsksForMore`: the duty of a valid curve is monotone in the temperature
  just when its percents are in order. `Validate` does not require that (it checks
  the temperatures only), so a curve that falls is accepted, but each dip is one
  of its own anchors. One direction is `RisingDuty`: within a segment
  interpolation and rounding keep the order; two temperatures of different
  segments are separated by an anchor, whose percent bounds both
  (`SegmentWithin`), and percents are in order over any number of anchors. The
  latter needs induction over a set of indices; the library's induction theorems
  take an operator and cannot be instantiated here, so `LeastExists` (a non-empty
  set of naturals has a least element) and `Induction` state it for sets.
  `AnchorsAreMet`, the duty at an anchor is its percent, is the other direction.
- `GovernorProofs`: `TypeOK /\ HoldIsEarned` is inductive: a hold's count is at
  most the streak because both go up together when the same target is asked
  for again, and the hold starts over at 1 otherwise. `JitterAbsorbed`,
  `StepDownBounded` and `ClosesIn` follow for each step, `CoolingKeepsUp` for each
  state that a decision leaves. `ClosesIn` and `HoldIsEarned` together are the
  safety half of `SettlesOnTarget`: as long as a duty is asked for, the distance to
  it goes down, or stays and the count goes up, and the count is bounded.
- `ControllerProofs`: types; then `StepInv`, which needs no assumption on faults:
  in a step the state is the step's own copy or, after a reload, the zero state,
  nothing is pending while commands are issued, and a dry run reaches no command.
  It gives `VerifyOnlyManual`, `ReloadNotOverwritten` and
  `DryRunTouchesNothing`. `CustodyInv` says of which record the BMC is known to
  agree with at each point of a step: the state until the decision, the copy
  until the first command, the decision after the last one. It gives
  `HandedBack` and `BeliefSound` under `QuietFallback` (no fault of the
  fallback's command, no late command). Finding 1 is why they need it.
  `MetricsNeverFlatter` needs the same assumption and `MetricsInv`: what is shown
  is true until a step's first command, and a step that commands anything either
  shows its decision when it commits or comes to the fallback, which leaves the
  BMC in control. `ExitedHandedBack` needs less: that the hand-back's own command
  works and no command is late; the fallback may fail. `KeepsCustody` is the
  refinement of `Custody`, under `QuietFallback` and
  `QuietHandBack`: initial states map to initial states, and each action to one
  of Custody's or a stutter. The hard case is a step that decides for the BMC:
  that it has the fans already when no command is issued is `CustodyInv`.
- `ReloadProofs`: types; `CadenceCurrent`, inductive with them; `BoundPinned`,
  strengthened by what is pinned but not yet assigned; `AgreeUnlessOverlapped`,
  from `AgreeInv`: the only reload under way has the tunables in its hands
  between setting them and assigning the configuration. `EditNotForgotten` from
  `EditInv`: once no event and no timer is left, what a reload has loaded but not
  set is the file as it is, and so are the tunables once no reload has to set.
- `ToolsProofs`: types; `SweepRestores` under `QuietRestore` (no fault of the
  restore's own command), directly inductive; `SamplesHonest` from `Held` (manual
  control is held from SetManual on, the duty from SetPercent on, unless
  disturbed); `DescendsWithinLimits` from `Descent` (what is left to visit is
  below everything measured, and that was within the limits);
  `ZeroMeansComplete` from `Trail` (the duties measured and those still to visit
  make up the list asked for). `ProbeVerdictStands` from `ProbeInv` (at each point,
  how many measurements there are) and `Held`; `ProbeRestores`, which the run
  `tools_probe` refutes, from `ProbeOnCourse` under `ProbeGoesWell`.
  `AnalysisIsRight` is about the loop alone: `OneRound` says what an invariant of
  it is (all steps so far are sound and the last is `best`, `steepest` is the
  steepest slope so far, or a reason was found at the first step that is not),
  and `Induction` carries it over the samples. `ClampedIsLost` is the arithmetic:
  a slope is below a quarter of the steepest one just when it is below a quarter
  of some earlier one, truncation and slopes of zero or below included.
  `SuggestsLowestUseful` applies it to the samples a sweep takes (`Lined`).
- `WatchdogProofs`: types, which need that a file that is accepted has positive
  cadences and timeout; `WedgeCaught`, inductive; `HealthySurvives` from
  `HealthInv`, which bounds the time since the last ping by where the loop, its
  ticker and the prober are: a probe is taken at the end of the busy spell it
  fell into, since the next tick is not due by then, so pings are never as far
  apart as a period and a busy spell of less than half of it.
- `UnitProofs`: types, which need that a daemon binds only connections that
  `Validate` accepts; `PinnedOrMissed`, inductive once `LoadedAsDescribed` shows
  that a file which loads is merged to the connection it describes.
  `RestoreReaches` assumes that every file loads and describes the same BMC and
  that no restore fails; then `DownMeansHandedBack` is inductive, crashes, kills
  and failed hand-backs included, and with it every step is one of `UnitSteps`, a
  step of `Custody` or a stutter: `UnitImplementsCustody`.
- `SensingProofs`: the invariant is the types and the three properties of
  decisions together with two facts on histories: a sample that lies below a later
  one is at least as old as the last rise (`RoseSince`), and after a reload the
  samples are no older than it, but for a straddling step (`Fresh`). With them the
  span of a history shortly after a reload is below `minSlopeSpan`, and a steady
  history has no slope. `TooHotHandsOver` needs no history: a boost is never
  negative, and scaling a curve keeps its order. That a finite set of readings has
  a greatest one comes from well-foundedness, without induction.
  `WholeBoostsAddUp` shows that a scaled curve is the curve (`ScalingIsExact`: a
  fraction scaled above and below has the same quotient, and a temperature lies on
  one segment only), so that `Controller`'s effective temperature is what a boost
  of whole degrees comes to. `PredictionOnlyAdds`, on curves that rise, follows
  from it and `RisingDuty`; `PredictionNeverKeepsControl` carries the hand-over
  through the governor, in every state it may be in.

Every safety property of a passing run is a theorem, and so are three properties
that other runs refute, from the assumptions under which they hold (`HandedBack`,
`ProbeRestores`, `DownMeansHandedBack`). The theorems without an assumption on
faults hold under all of them.

Only model-checked: the liveness properties (`SettlesOnTarget`,
`RevertRecovered`, `ShutdownHandsBack`, `EditTakesEffect`, `InterruptEndsSweep`,
`WedgedIsKilled`, `SelfHeals`, `StopCompletes`), which are out of the prover's
reach.

## Not modelled

- Doctor reads and prints; it changes no state. The tables of sweep, the text of
  `/metrics` and its server, log lines, and the dispatch and flag parsing of the
  command line are output and input without control state.
- The text that `ipmitool` and `nvidia-smi` print, and its parsing: what comes
  out of it is modelled as a listing, a set of temperatures, or a failure.
- The choice between hot and idle cadence from temperature slopes: `Reload` and
  `Watchdog` leave it open, so what they show holds for any choice.
- `-once`, one step whose state nobody sees again.
- The socket of `sdNotify`: a READY or ping that cannot be sent is logged, and
  systemd then does what `Unit` has it do to a daemon that wedges.
- The unsynchronised access to `*cfg` by overlapping reloads and by the main
  goroutine (`cfg.Metrics.Listen`, run.go:161) beyond what `Reload` says of it.
- Failures of `install`'s file operations and of `systemctl`.
- An edit between the daemon's load and the start of the watch (`unseen`): the
  code promises nothing for it, and `EditTakesEffect` excepts it.

## Plan

Done: policy, governor, controller and its abstract specification, reload,
sweep and probe, watchdog, unit, configuration, predictors, and theorems about
each. What could follow:

1. Theorems that join modules: `Sensing` as an implementation of `Controller`'s
   reads and decisions (of its curve it is shown by `WholeBoostsAddUp`); sweep
   against `Custody` where nobody else writes.
2. The cadence: `HotPoll` from slopes and duty in `Sensing`, and with it a bound
   on how long a rise goes unseen.
3. `Unit` refined by `Controller` and `Watchdog`: its `Command`, `Wedge` and
   `WatchdogKills` are theirs, abstracted by hand so far.
