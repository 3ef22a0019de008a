--------------------------------- MODULE Tools ---------------------------------
(***************************************************************************)
(* The two subcommands that take the fans by hand: fanctl sweep, which      *)
(* commands a descending list of duties and measures each, and fanctl       *)
(* probe, which commands one low duty and compares two measurements.  Each  *)
(* runs against the BMC, with a user who may interrupt it and others (the   *)
(* daemon, the iDRAC itself) who may write to the BMC meanwhile.            *)
(*                                                                          *)
(* sweep catches SIGINT and SIGTERM and restores automatic control in a     *)
(* deferred function under a context of its own; probe is killed by them    *)
(* and restores in line.  Neither bounds a command by a deadline, so a      *)
(* command may hang until the interrupt.  Commands return as in Controller: *)
(* "ok", "lost", "done" or "late".                                          *)
(***************************************************************************)
EXTENDS Bmc, SweepAnalysis

CONSTANTS
    StepLists,      \* the numbers of -steps, as typed
    ProbeDuties,    \* values of probe's -percent
    Measurements,   \* [avg, min, max, temp, gpu]: what one measure may find
    MaxTemp, MaxGpuTemp, MinRPM,    \* sweep's limits
    MinDrop,        \* probe's -min-drop
    DaemonDuty,     \* the duty the daemon would command
    Faults          \* the sites where something may go wrong

ASSUME FaultsAssumption ==
    Faults \subseteq {"read", "apply", "handback", "late", "others"}
ASSUME StepsAssumption == StepLists \subseteq Seq(Int) /\ ProbeDuties \subseteq Int
ASSUME MeasurementsAssumption ==
    Measurements \subseteq [avg : Nat, min : Nat, max : Nat, temp : Int, gpu : Int]
ASSUME LimitsAssumption ==
    MaxTemp \in Int /\ MaxGpuTemp \in Int /\ MinRPM \in Int /\ MinDrop \in Int
ASSUME DaemonAssumption == DaemonDuty \in 0..100

VARIABLES
    opts,       \* [tool, restore, gpu]: the subcommand, -restore-auto, gpu.enabled
    steps,      \* the duties asked for
    pc,         \* where the tool is
    todo,       \* the duties still to visit, the current one first
    samples,    \* sweep's samples; probe's two measurements
    cancelled,  \* the interrupt has cancelled sweep's ctx
    code,       \* the exit code that is to be returned
    bmc,        \* the BMC
    late,       \* commands that may still take effect
    daemon,     \* the daemon is running
    disturbed   \* history: somebody else has written since the tool took or
                \* gave back control, or a command given up on has landed

world == <<bmc, late>>
vars == <<opts, steps, pc, todo, samples, cancelled, code, world, daemon, disturbed>>

Options == [tool : {"sweep", "probe"}, restore : BOOLEAN, gpu : BOOLEAN]
NoCode == -1

Init ==
    /\ opts \in Options
    /\ steps \in IF opts.tool = "sweep" THEN StepLists ELSE {<<d>> : d \in ProbeDuties}
    /\ pc = "args"
    /\ todo = <<>> /\ samples = <<>>
    /\ cancelled = FALSE
    /\ code = NoCode
    /\ bmc \in BmcStates({0})
    /\ late = {}
    /\ daemon \in BOOLEAN
    /\ disturbed = FALSE

\* Lets an empty list pass.
SlipValidSteps(list) ==
    /\ \A i \in DOMAIN list : list[i] \in 0..100
    /\ \A i \in 2..Len(list) : list[i] < list[i-1]

\* parseSteps: percents that descend, and at least one.
ValidSteps(list) ==
    /\ list # <<>>
    /\ \A i \in DOMAIN list : list[i] \in 0..100
    /\ \A i \in 2..Len(list) : list[i] < list[i-1]

-----------------------------------------------------------------------------
(* Commands and returns.                                                     *)

LateOutcome == IF "late" \in Faults /\ late = {} THEN {"late"} ELSE {}

\* Cancelled under way, a command may or may not have taken effect, or may yet.
Outcomes ==
    (IF cancelled THEN {} ELSE {"ok"})
        \cup (IF cancelled \/ "apply" \in Faults THEN {"lost", "done"} ELSE {})
        \cup (IF cancelled THEN LateOutcome ELSE {})

\* The restore as it would be under the context the interrupt cancels.
SlipRestoreOutcomes == Outcomes

\* sweep's restore has a fresh deadline, probe's has none.
RestoreOutcomes ==
    {"ok"} \cup (IF "handback" \in Faults THEN {"lost", "done"} \cup LateOutcome ELSE {})

Issue(cmd, o) ==
    /\ bmc' = IF o \in {"ok", "done"} THEN Execute(bmc, cmd) ELSE bmc
    /\ late' = IF o = "late" THEN late \cup {cmd} ELSE late

\* Return c: past this point sweep's deferred restore runs, and nothing of probe's.
Leave(c) ==
    /\ code' = c
    /\ pc' = IF opts.tool = "sweep" /\ opts.restore THEN "restore" ELSE "exited"

\* An error that is logged and otherwise forgotten.
SlipProceed(o, then) == pc' = then /\ UNCHANGED code

\* The first error ends the tool.
Proceed(o, then) == IF o = "ok" THEN pc' = then /\ UNCHANGED code ELSE Leave(1)

-----------------------------------------------------------------------------
(* Both tools: manual control, one duty, the restore.                        *)

SetManual ==
    /\ pc = "setManual"
    /\ \E o \in Outcomes :
        /\ Issue(SetManualCmd, o)
        /\ Proceed(o, "setPercent")
        /\ disturbed' = (disturbed /\ o # "ok")
    /\ UNCHANGED <<opts, steps, todo, samples, cancelled, daemon>>

\* Client.SetPercent refuses a duty out of range before it sends anything.
SetPercent ==
    /\ pc = "setPercent"
    /\ IF Head(todo) \in 0..100
       THEN \E o \in Outcomes : Issue(SetPercentCmd(Head(todo)), o) /\ Proceed(o, "settle")
       ELSE Leave(1) /\ UNCHANGED world
    /\ UNCHANGED <<opts, steps, todo, samples, cancelled, daemon, disturbed>>

\* Forgets that an interrupted sweep is not a complete one.
SlipSettle ==
    /\ pc = "settle"
    /\ IF cancelled THEN Leave(0) ELSE pc' = "measure" /\ UNCHANGED code
    /\ UNCHANGED <<opts, steps, todo, samples, cancelled, world, daemon, disturbed>>

\* The settling time is over, or cut short by the interrupt.
Settle ==
    /\ pc = "settle"
    /\ IF cancelled THEN Leave(1) ELSE pc' = "measure" /\ UNCHANGED code
    /\ UNCHANGED <<opts, steps, todo, samples, cancelled, world, daemon, disturbed>>

\* An error of the restore is printed and changes nothing else.
Restore ==
    /\ pc = "restore"
    /\ pc' = "exited"
    /\ \E o \in RestoreOutcomes :
        /\ Issue(SetAutoCmd, o)
        /\ disturbed' = (disturbed /\ o # "ok")
    /\ UNCHANGED <<opts, steps, todo, samples, cancelled, code, daemon>>

\* Fans or temperatures cannot be read, no sensor is selected, or the GPU that
\* should be read reports nothing.
ReadFails ==
    /\ pc \in {"baseline", "measure"}
    /\ cancelled \/ "read" \in Faults
    /\ Leave(1)
    /\ UNCHANGED <<opts, steps, todo, samples, cancelled, world, daemon, disturbed>>

-----------------------------------------------------------------------------
(* sweep                                                                     *)

\* runSweep: bad steps, an active daemon (which systemctl may fail to show, and
\* -force overrides) and a bad configuration are refused.
StartSweep(force, seen, cfgOk) ==
    /\ pc = "args" /\ opts.tool = "sweep"
    /\ seen => daemon
    /\ IF ValidSteps(steps) /\ (force \/ ~seen) /\ cfgOk
       THEN pc' = "baseline" /\ todo' = steps /\ UNCHANGED code
       ELSE pc' = "exited" /\ code' = 2 /\ UNCHANGED todo
    /\ UNCHANGED <<opts, steps, samples, cancelled, world, daemon, disturbed>>

\* measure: what was found, at the duty commanded.
Sample(duty, m) ==
    [duty |-> duty, avg |-> m.avg, min |-> m.min, max |-> m.max, temp |-> m.temp,
     gpu |-> IF opts.gpu THEN m.gpu ELSE NoGpu, aborted |-> FALSE]

Measurable(m) == ~cancelled /\ (opts.tool = "sweep" /\ opts.gpu => m.gpu # NoGpu)

\* Blind to the GPU.
SlipLimitHit(s) == s.temp >= MaxTemp \/ s.min < MinRPM

\* abortReason
LimitHit(s) ==
    \/ s.temp >= MaxTemp
    \/ s.gpu # NoGpu /\ s.gpu >= MaxGpuTemp
    \/ s.min < MinRPM

\* The reading before manual control, whose limits are not looked at.
SweepBaseline(m) ==
    /\ pc = "baseline" /\ opts.tool = "sweep" /\ Measurable(m)
    /\ samples' = <<Sample(Baseline, m)>>
    /\ pc' = "setManual"
    /\ UNCHANGED <<opts, steps, todo, cancelled, code, world, daemon, disturbed>>

\* One step measured: the next duty, or the end.
SweepMeasure(m) ==
    /\ pc = "measure" /\ opts.tool = "sweep" /\ Measurable(m)
    /\ LET s == Sample(Head(todo), m)
       IN  /\ samples' = Append(samples, [s EXCEPT !.aborted = LimitHit(s)])
           /\ IF LimitHit(s) THEN Leave(1)
              ELSE IF Tail(todo) = <<>> THEN Leave(0)
              ELSE pc' = "setPercent" /\ UNCHANGED code
    /\ todo' = Tail(todo)
    /\ UNCHANGED <<opts, steps, cancelled, world, daemon, disturbed>>

-----------------------------------------------------------------------------
(* probe                                                                     *)

\* runProbe checks nothing first.
StartProbe ==
    /\ pc = "args" /\ opts.tool = "probe"
    /\ pc' = "baseline" /\ todo' = steps
    /\ UNCHANGED <<opts, steps, samples, cancelled, code, world, daemon, disturbed>>

\* Without fans that turn there is nothing to compare with.
ProbeBaseline(m) ==
    /\ pc = "baseline" /\ opts.tool = "probe"
    /\ samples' = <<Sample(Baseline, m)>>
    /\ IF m.avg = 0 THEN Leave(1) ELSE pc' = "setManual" /\ UNCHANGED code
    /\ UNCHANGED <<opts, steps, todo, cancelled, world, daemon, disturbed>>

\* Did the speed drop enough?
Verdict(before, after) ==
    IF QuotTrunc((before - after) * 100, before) >= MinDrop THEN 0 ELSE 1

\* The second reading, the restore in line, the verdict.
ProbeMeasure(m) ==
    /\ pc = "measure" /\ opts.tool = "probe"
    /\ samples' = Append(samples, Sample(Head(todo), m))
    /\ code' = Verdict(samples[1].avg, m.avg)
    /\ pc' = IF opts.restore THEN "restore" ELSE "exited"
    /\ todo' = Tail(todo)
    /\ UNCHANGED <<opts, steps, cancelled, world, daemon, disturbed>>

-----------------------------------------------------------------------------
(* Everybody else.                                                           *)

Running == pc \notin {"args", "exited", "killed"}

\* The command that is out when the tool is in pc.
InFlight ==
    IF pc = "setManual" THEN {SetManualCmd}
    ELSE IF pc = "setPercent" /\ Head(todo) \in 0..100 THEN {SetPercentCmd(Head(todo))}
    ELSE IF pc = "restore" THEN {SetAutoCmd}
    ELSE {}

\* SIGINT or SIGTERM while sweep runs, its restore included.
InterruptSweep ==
    /\ Running /\ opts.tool = "sweep" /\ ~cancelled
    /\ cancelled' = TRUE
    /\ UNCHANGED <<opts, steps, pc, todo, samples, code, world, daemon, disturbed>>

\* probe does not catch it: the process ends, whatever command is out.
InterruptProbe ==
    /\ Running /\ opts.tool = "probe"
    /\ pc' = "killed"
    /\ \/ UNCHANGED world
       \/ \E cmd \in InFlight, o \in {"done"} \cup LateOutcome : Issue(cmd, o)
    /\ UNCHANGED <<opts, steps, todo, samples, cancelled, code, daemon, disturbed>>

LateLands ==
    \E cmd \in late :
        /\ bmc' = Execute(bmc, cmd)
        /\ late' = late \ {cmd}
        /\ disturbed' = TRUE
        /\ UNCHANGED <<opts, steps, pc, todo, samples, cancelled, code, daemon>>

DaemonStarts ==
    /\ ~daemon /\ pc # "args"
    /\ daemon' = TRUE
    /\ UNCHANGED <<opts, steps, pc, todo, samples, cancelled, code, world, disturbed>>

\* The daemon runs its loop, or an iDRAC reset takes the fans back.
OthersWrite(cmd) ==
    /\ "others" \in Faults
    /\ daemon \/ cmd = SetAutoCmd
    /\ bmc' = Execute(bmc, cmd)
    /\ disturbed' = TRUE
    /\ UNCHANGED <<opts, steps, pc, todo, samples, cancelled, code, late, daemon>>

StartSweepAny == \E force, seen, cfgOk \in BOOLEAN : StartSweep(force, seen, cfgOk)
SweepMeasureAny == \E m \in Measurements : SweepBaseline(m) \/ SweepMeasure(m)
ProbeMeasureAny == \E m \in Measurements : ProbeBaseline(m) \/ ProbeMeasure(m)
OthersWriteAny == \E cmd \in Commands({DaemonDuty}) : OthersWrite(cmd)

\* What the tool itself does after its arguments.
Work ==
    \/ SetManual \/ SetPercent \/ Settle \/ Restore \/ ReadFails
    \/ SweepMeasureAny \/ ProbeMeasureAny

Next ==
    \/ StartSweepAny \/ StartProbe \/ Work
    \/ InterruptSweep \/ InterruptProbe \/ LateLands \/ DaemonStarts \/ OthersWriteAny

\* A command without a deadline may hang, so only what cannot hang is sure to
\* happen: the timer of the settling time, the restore's deadline, and, once the
\* context is cancelled, every return of a command or read.
Spec ==
    /\ Init /\ [][Next]_vars
    /\ WF_vars(Settle)
    /\ WF_vars(opts.tool = "sweep" /\ Restore)
    /\ WF_vars(cancelled /\ Work)

-----------------------------------------------------------------------------
PCs == {"args", "baseline", "setManual", "setPercent", "settle", "measure",
        "restore", "exited", "killed"}

Samples ==
    [duty : Int, avg : Nat, min : Nat, max : Nat, temp : Int, gpu : Int, aborted : BOOLEAN]

\* The tool, its samples and the BMC have their types; a command that is about
\* to be issued has a duty to command.
TypeOK ==
    /\ opts \in Options
    /\ steps \in Seq(Int) /\ todo \in Seq(Int)
    /\ pc \in PCs
    /\ samples \in Seq(Samples)
    /\ cancelled \in BOOLEAN /\ daemon \in BOOLEAN /\ disturbed \in BOOLEAN
    /\ code \in {NoCode, 0, 1, 2}
    /\ bmc \in BmcStates(0..100)
    /\ late \subseteq Commands(0..100)
    /\ pc \in {"setManual", "setPercent", "settle", "measure"} => todo # <<>>

\* "BMC automatic control is restored on every exit path, including Ctrl-C"
\* (README.md:99): when sweep has ended, after whatever failed and wherever it
\* was interrupted, the BMC has the fans, unless somebody wrote after that.
SweepRestores ==
    (pc = "exited" /\ opts.tool = "sweep" /\ opts.restore /\ code # 2)
        => (bmc.auto \/ disturbed)

\* A measurement counts for a duty (sweep's table, probe's verdict) only if the
\* fans really are under manual control at that duty when it is taken.
SamplesHonest ==
    [][(samples' # samples /\ samples # <<>> /\ ~disturbed)
            => bmc = [auto |-> FALSE, duty |-> Head(todo)]]_vars

\* Sweep goes down and never back up, and never further down once a sensor, the
\* GPU or a fan has reached its limit on the way (abortReason, parseSteps).
DescendsWithinLimits ==
    [][(opts.tool = "sweep" /\ bmc'.duty # bmc.duty /\ ~disturbed')
            => \A i \in 2..Len(samples) :
                /\ bmc'.duty < samples[i].duty
                /\ samples[i].temp < MaxTemp
                /\ opts.gpu => samples[i].gpu < MaxGpuTemp
                /\ samples[i].min >= MinRPM]_vars

\* Exit code 0 of sweep means that every duty asked for has been measured, in
\* the order asked for, none of them at a limit.
ZeroMeansComplete ==
    (opts.tool = "sweep" /\ code = 0) =>
        /\ [i \in DOMAIN samples |-> samples[i].duty] = <<Baseline>> \o steps
        /\ \A i \in 2..Len(samples) : ~LimitHit(samples[i])

\* The suggested floor (analyseSweep) is the lowest step down to which control
\* is sound, and there is none just when the first step already is not.
FloorIsLowestUseful ==
    (pc = "exited" /\ opts.tool = "sweep" /\ samples # <<>>) => FindsFloor(samples)

\* Interrupted at any point, also while a command hangs, sweep ends, and then
\* the BMC has the fans, unless somebody else has written meanwhile.
InterruptEndsSweep ==
    (opts.tool = "sweep" /\ cancelled)
        ~> (pc = "exited" /\ (opts.restore => bmc.auto \/ disturbed))

\* "Restore BMC automatic control when the probe finishes" (probe.go:31): when
\* it has, having got as far as taking manual control, the BMC has the fans.
ProbeRestores ==
    (/\ pc = "exited" /\ opts.tool = "probe" /\ opts.restore
     /\ samples # <<>> /\ samples[1].avg # 0)
        => (bmc.auto \/ disturbed)

\* A probe that gives a verdict has compared two measurements, and leaves the fans
\* as it was told to: handed back, or with -restore-auto=false at the duty that it
\* judged, unless somebody else has written meanwhile.
ProbeVerdictStands ==
    (pc = "exited" /\ opts.tool = "probe") =>
        /\ code = 0 => Len(samples) = 2
        /\ (Len(samples) = 2 /\ ~disturbed) =>
                IF opts.restore THEN bmc.auto
                ELSE bmc = [auto |-> FALSE, duty |-> samples[2].duty]
=============================================================================
