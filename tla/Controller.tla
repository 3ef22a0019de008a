------------------------------ MODULE Controller ------------------------------
(***************************************************************************)
(* The control loop of cmd/fanctl/run.go against the BMC: runDaemon's       *)
(* select loop, runStep, step, applyState, fallbackAuto and handBackToAuto, *)
(* interleaved with configuration reloads (setTunables runs on other        *)
(* goroutines), the termination signal, and a BMC that fails, answers late  *)
(* or falls back to automatic on its own.                                   *)
(*                                                                          *)
(* A step takes the mutex four times and talks to the BMC in between; each  *)
(* action below ends where the mutex is released or a command returns, so a *)
(* reload can fall into every gap the code leaves.                          *)
(*                                                                          *)
(* A command returns in one of four ways: "ok"; "lost", an error and no     *)
(* effect; "done", an error although it took effect; "late", cut off at the *)
(* deadline while the child lives on, so that it may take effect any time   *)
(* later (runcmd.CombinedOutput).  The signal cancels the context of every  *)
(* command but the last hand-back.                                          *)
(***************************************************************************)
EXTENDS FanPolicy, Bmc, FiniteSets

CONSTANTS
    Configs,        \* the tunables a configuration may hold
    Readings,       \* [raw, eff]: a source's temperature, without and with boost
    Faults,         \* the sites where something may go wrong
    MaxLate,        \* the commands that may be late at a time
    MaxAge          \* the age of the last write is counted no further

NoReading == [raw |-> -1, eff |-> -1]

FaultSites == {"read", "apply", "fallback", "handback", "late", "reset"}

ASSUME FaultsAssumption == Faults \subseteq FaultSites
ASSUME MaxLateAssumption == MaxLate \in Nat
ASSUME MaxAgeAssumption == MaxAge \in Nat
ASSUME ConfigsAssumption ==
    \A t \in Configs :
        /\ ValidCurve(t.curve) /\ ValidCurve(t.gpuCurve)
        /\ t.gov \in [deadband : Nat, maxStepDown : Nat, holdPolls : Nat]
        /\ t.reassert \in 0..MaxAge
ASSUME ReadingsAssumption ==
    Readings \subseteq [raw : Int, eff : Int] /\ NoReading \notin Readings

VARIABLES
    opts,           \* [dryRun, gpu]: how the daemon was started
    tun,            \* controller.tun
    state,          \* controller.state
    verifyPending,  \* controller.verifyPending
    age,            \* steps since controller.lastApply, MaxAge when never
    obs,            \* what /metrics shows of the command: Snapshot.Percent
    pc,             \* where the loop is
    ltun, prev,     \* step's copies of tun and state
    next,           \* step's decision
    rpm,            \* step's fan reading: "none", "flat" or "moved"
    bmc,            \* the BMC
    late,           \* commands that may still take effect
    term,           \* SIGINT or SIGTERM has cancelled ctx
    calm,           \* nothing goes wrong any more
    reloaded        \* history: a reload since the step took its copies

loopVars == <<age, obs, pc, ltun, prev, next, rpm>>
shared == <<tun, state, verifyPending>>
world == <<bmc, late>>
flags == <<opts, term, calm, reloaded>>
vars == <<loopVars, shared, world, flags>>

Flags == [dryRun : BOOLEAN, gpu : BOOLEAN]
NeverObserved == -2
HandedOver == -1

\* The step's decision and copies go out of scope.
NoLocals == prev' = ZeroState /\ next' = ZeroState /\ rpm' = "none" /\ UNCHANGED ltun

Init ==
    /\ opts \in Flags
    /\ tun \in Configs
    /\ ltun = tun
    /\ state = ZeroState /\ prev = ZeroState /\ next = ZeroState
    /\ verifyPending = FALSE
    /\ age = MaxAge
    /\ obs = NeverObserved
    /\ pc = "start"
    /\ rpm = "none"
    /\ bmc \in BmcStates({0})
    /\ late = {}
    /\ term = FALSE /\ calm = FALSE /\ reloaded = FALSE

Faulty(site) == ~calm /\ site \in Faults

-----------------------------------------------------------------------------
(* Commands.                                                                 *)

\* At most MaxLate different commands at a time live on after their deadlines; the
\* code sets no limit, and two that are the same count as one.
LateOutcome == IF Faulty("late") /\ Cardinality(late) < MaxLate THEN {"late"} ELSE {}

\* How a command may return whose context the signal cancels.
Outcomes(site) ==
    (IF term THEN {} ELSE {"ok"})
        \cup (IF term \/ Faulty(site) THEN {"lost", "done"} ELSE {})
        \cup LateOutcome

\* The hand-back runs under the context that the signal has cancelled.
SlipHandBackOutcomes == Outcomes("handback")

\* The hand-back has a fresh context.
HandBackOutcomes ==
    {"ok"} \cup (IF Faulty("handback") THEN {"lost", "done"} \cup LateOutcome ELSE {})

Issue(cmd, o) ==
    /\ bmc' = IF o \in {"ok", "done"} THEN Execute(bmc, cmd) ELSE bmc
    /\ late' = IF o = "late" THEN late \cup {cmd} ELSE late

-----------------------------------------------------------------------------
(* The decision.                                                             *)

\* What a source asks for; without a reading it has no say.
DutyOf(r, c) == IF r = NoReading THEN [pct |-> 0, auto |-> FALSE] ELSE Duty(c, r.eff)

\* Judged by the reading itself, not by where it is heading.
MayReclaim(r, c) == r = NoReading \/ r.raw <= ReclaimBelow(c)

Greater(a, b) == IF a < b THEN b ELSE a

\* A GPU that should be read and cannot, or no temperature at all, hands over;
\* otherwise the sources' greatest duty, any hand-over, and every reclaim.
Decision(t, s, cpu, gpu, gpuFail) ==
    LET c == DutyOf(cpu, t.curve)
        g == DutyOf(gpu, t.gpuCurve)
    IN  IF gpuFail \/ (cpu = NoReading /\ gpu = NoReading) THEN BmcAuto
        ELSE GovNext(t.gov, s, Greater(c.pct, g.pct), c.auto \/ g.auto,
                     MayReclaim(cpu, t.curve) /\ MayReclaim(gpu, t.gpuCurve))

-----------------------------------------------------------------------------
(* One step of the loop.                                                     *)

\* The first step, and each tick: copy the tunables and the state.
StartStep ==
    /\ pc \in {"start", "select"}
    /\ pc' = "read"
    /\ ltun' = tun /\ prev' = state
    /\ age' = IF age < MaxAge THEN age + 1 ELSE MaxAge
    /\ reloaded' = FALSE
    /\ UNCHANGED <<obs, next, rpm, shared, world, opts, term, calm>>

\* Both temperature reads, the predictors and the decision.
Read(cpu, gpu, gpuFail) ==
    /\ pc = "read" /\ ~term
    /\ gpuFail => opts.gpu /\ Faulty("read")
    /\ ~opts.gpu \/ gpuFail => gpu = NoReading
    /\ opts.gpu /\ ~gpuFail => gpu # NoReading
    /\ next' = Decision(ltun, prev, cpu, gpu, gpuFail)
    /\ pc' = "fans"
    /\ UNCHANGED <<age, obs, ltun, prev, rpm, shared, world, flags>>

ReadFails ==
    /\ pc = "read" /\ (term \/ Faulty("read"))
    /\ pc' = "fallback"
    /\ UNCHANGED <<age, obs, ltun, prev, next, rpm, shared, world, flags>>

Changed == ~SameCommand(next, prev)

\* Re-asserts what the BMC has, not what fanctl has.
SlipReassertDue == ltun.reassert > 0 /\ prev.auto /\ prev.init /\ age >= ltun.reassert
ReassertDue == ltun.reassert > 0 /\ ~prev.auto /\ prev.init /\ age >= ltun.reassert
VerifyFailed(r) == verifyPending /\ ~next.auto /\ r = "flat"

\* A dry run that is forgotten on the way to manual control.
SlipFirstCommand ==
    IF ~next.auto THEN "setManual" ELSE IF opts.dryRun THEN "record" ELSE "setAuto"

\* applyState: a dry run issues nothing.
FirstCommand ==
    IF opts.dryRun THEN "record" ELSE IF next.auto THEN "setAuto" ELSE "setManual"

\* The fan read, which never fails the step, the verdict on the last large
\* change, and whether there is anything to write.
Fans(r) ==
    /\ pc = "fans" /\ (term => r = "none")
    /\ rpm' = r
    /\ verifyPending' = FALSE
    /\ pc' = IF Changed \/ ReassertDue \/ VerifyFailed(r) THEN FirstCommand ELSE "commit"
    /\ UNCHANGED <<age, obs, ltun, prev, next, tun, state, world, flags>>

\* An error that is logged and otherwise forgotten.
SlipApply(at, cmd, then) ==
    /\ pc = at
    /\ \E o \in Outcomes("apply") : Issue(cmd, o)
    /\ pc' = then
    /\ UNCHANGED <<age, obs, ltun, prev, next, rpm, shared, flags>>

\* applyState's commands: the first error ends the step.
Apply(at, cmd, then) ==
    /\ pc = at
    /\ \E o \in Outcomes("apply") :
        /\ Issue(cmd, o)
        /\ pc' = IF o = "ok" THEN then ELSE "fallback"
    /\ UNCHANGED <<age, obs, ltun, prev, next, rpm, shared, flags>>

SetManual == Apply("setManual", SetManualCmd, "setPercent")
SetPercent == Apply("setPercent", SetPercentCmd(next.pct), "record")

\* The wrong last byte: 0x00 asks for manual.
SlipSetAuto == Apply("setAuto", SetManualCmd, "record")
SetAuto == Apply("setAuto", SetAutoCmd, "record")

VerifyMinDelta == 15

\* Arms for a hand-over too.
SlipArmsVerify ==
    /\ Changed /\ prev.init /\ ~prev.auto /\ rpm # "none"
    /\ Distance(next.pct, prev.pct) >= VerifyMinDelta

\* A manual change this large must show in the fans' speed by the next step.
ArmsVerify ==
    /\ Changed /\ ~next.auto /\ prev.init /\ ~prev.auto /\ rpm # "none"
    /\ Distance(next.pct, prev.pct) >= VerifyMinDelta

\* The write is done: lastApply is the step's own time stamp.
Record ==
    /\ pc = "record"
    /\ age' = 0
    /\ verifyPending' = (verifyPending \/ ArmsVerify)
    /\ pc' = "commit"
    /\ UNCHANGED <<obs, ltun, prev, next, rpm, tun, state, world, flags>>

\* Commits whatever a reload has done meanwhile.
SlipCommitted == next

\* "Commit the state only if a concurrent reload hasn't reset it meanwhile."
Committed == IF state = prev THEN next ELSE state

Commit ==
    /\ pc = "commit"
    /\ state' = Committed
    /\ obs' = IF next.auto THEN HandedOver ELSE next.pct
    /\ pc' = "select"
    /\ NoLocals
    /\ UNCHANGED <<age, tun, verifyPending, world, flags>>

\* runStep after an error: automatic control under a deadline of its own.
Fallback ==
    /\ pc = "fallback"
    /\ pc' = "select"
    /\ NoLocals
    /\ IF opts.dryRun THEN UNCHANGED <<state, verifyPending, world>>
       ELSE \E o \in Outcomes("fallback") :
                /\ Issue(SetAutoCmd, o)
                /\ state' = IF o = "ok" THEN BmcAuto ELSE state
                /\ verifyPending' = (verifyPending /\ o # "ok")
    /\ UNCHANGED <<age, obs, tun, flags>>

\* ctx.Done() wins the select: leave the loop, run the deferred hand-back.
Shutdown ==
    /\ pc = "select" /\ term
    /\ pc' = "handback"
    /\ UNCHANGED <<age, obs, ltun, prev, next, rpm, shared, world, flags>>

HandBack ==
    /\ pc = "handback"
    /\ pc' = "exited"
    /\ IF opts.dryRun THEN UNCHANGED world
       ELSE \E o \in HandBackOutcomes : Issue(SetAutoCmd, o)
    /\ UNCHANGED <<age, obs, ltun, prev, next, rpm, shared, flags>>

-----------------------------------------------------------------------------
(* Everybody else.                                                           *)

\* A reload's setTunables, at any point of a step.
Reload(t) ==
    /\ pc # "exited"
    /\ tun' = t
    /\ state' = ZeroState
    /\ verifyPending' = FALSE
    /\ reloaded' = TRUE
    /\ UNCHANGED <<loopVars, world, opts, term, calm>>

Terminate ==
    /\ ~term /\ pc # "exited"
    /\ term' = TRUE
    /\ UNCHANGED <<loopVars, shared, world, opts, calm, reloaded>>

\* A command that was given up on takes effect after all.
LateLands ==
    \E cmd \in late :
        /\ bmc' = Execute(bmc, cmd)
        /\ late' = late \ {cmd}
        /\ UNCHANGED <<loopVars, shared, flags>>

\* The iDRAC restarts and takes the fans back, telling nobody.
BmcReset ==
    /\ Faulty("reset")
    /\ bmc' = Execute(bmc, SetAutoCmd)
    /\ UNCHANGED <<loopVars, shared, late, flags>>

CalmDown ==
    /\ ~calm /\ late = {}
    /\ calm' = TRUE
    /\ UNCHANGED <<loopVars, shared, world, opts, term, reloaded>>

ReadAny ==
    \E cpu, gpu \in Readings \cup {NoReading}, f \in BOOLEAN : Read(cpu, gpu, f)
FansAny == \E r \in {"none", "flat", "moved"} : Fans(r)

\* What the loop does once it is in a step.
InStep ==
    \/ ReadAny \/ ReadFails \/ FansAny
    \/ SetManual \/ SetPercent \/ SetAuto
    \/ Record \/ Commit \/ Fallback \/ HandBack

ReloadAny == \E t \in Configs : Reload(t)

Next ==
    \/ StartStep \/ InStep \/ Shutdown
    \/ ReloadAny \/ Terminate \/ LateLands \/ BmcReset \/ CalmDown

\* Every command is bounded by a deadline and the ticker goes on, so the loop
\* always moves; select picks at random among what is ready, so a signal that
\* stays ready is not passed over for ever.
Spec ==
    /\ Init /\ [][Next]_vars
    /\ WF_vars(StartStep) /\ WF_vars(InStep) /\ SF_vars(Shutdown)

-----------------------------------------------------------------------------
IsManual(s) == s.init /\ ~s.auto
Idle == pc \in {"start", "select"}

PCs == {"start", "select", "read", "fans", "setManual", "setPercent", "setAuto",
        "record", "commit", "fallback", "handback", "exited"}

\* The controller, the loop and the BMC have their types.
TypeOK ==
    /\ opts \in Flags
    /\ tun \in Configs /\ ltun \in Configs
    /\ state \in CommandStates /\ prev \in CommandStates /\ next \in CommandStates
    /\ verifyPending \in BOOLEAN
    /\ age \in 0..MaxAge
    /\ obs \in {NeverObserved, HandedOver} \cup 0..100
    /\ pc \in PCs
    /\ rpm \in {"none", "flat", "moved"}
    /\ bmc \in BmcStates(0..100)
    /\ late \subseteq Commands(0..100)
    /\ term \in BOOLEAN /\ calm \in BOOLEAN /\ reloaded \in BOOLEAN

\* A step that has decided for the BMC, over temperature or blind (step, case
\* gpuFail and !haveTemp), does not complete while the fans are pinned.
HandedBack == pc = "commit" /\ next.auto /\ ~opts.dryRun => bmc.auto

\* Change detection compares with what the controller believes it commanded.
\* Between steps the belief is right: a believed hand-over really happened, and
\* a manual BMC runs at the believed duty (the BMC alone may have left manual).
BeliefSound ==
    (Idle /\ ~term /\ ~opts.dryRun /\ state.init) =>
        /\ state.auto => bmc.auto
        /\ ~state.auto => (bmc.auto \/ bmc.duty = state.pct)

\* When the daemon has exited, the BMC has the fans, wherever the signal fell and
\* whatever the step that it cut short was doing (the deferred hand-back).
ExitedHandedBack == pc = "exited" /\ ~opts.dryRun => bmc.auto

\* A pending verification cannot survive a hand-over to the BMC: acting on it
\* then would seize the fans back for a change that no longer counts.
VerifyOnlyManual == verifyPending => ~state.auto

\* A step in flight when a reload swaps the tunables does not overwrite the
\* reset state with its stale decision (run.go:506), if it had a state to start from.
ReloadNotOverwritten ==
    [][(pc = "commit" /\ pc' = "select" /\ reloaded /\ prev.init)
            => state' = ZeroState]_vars

\* "setTunables swaps the tunables and forces a fresh decision on the next
\* step" (run.go:339), whatever the step in flight started from.
ReloadForcesFreshDecision ==
    [][(pc = "commit" /\ pc' = "select" /\ reloaded) => state' = ZeroState]_vars

\* fanctl_bmc_auto is "1 when fan control is handed back to the BMC automatic
\* mode, else 0" (metrics.go:58): between steps it tells what was commanded.
MetricsTellMode ==
    (Idle /\ state.init /\ obs # NeverObserved) => ((obs = HandedOver) <=> state.auto)

\* The duty or hand-over shown was in force at the BMC: by the BMC alone, or by a
\* fallback that nobody tells the metrics of, it may have become a hand-over.
Shown ==
    obs # NeverObserved =>
        bmc.auto \/ (obs # HandedOver /\ bmc.duty = obs)

\* The metrics of a running daemon err on the safe side only: between steps a
\* shown hand-over is real, and a manual BMC runs at the shown duty, although
\* steps that fail show nothing and reloads discard what was decided.
MetricsNeverFlatter == Idle /\ ~term /\ ~opts.dryRun => Shown

\* "fanctl returns control to it when: ... a temperature or fan read fails"
\* (README.md:220): a step that could not read the fans completes only with the
\* BMC in control.  The code goes on without them ("best-effort", run.go:449).
FanReadFailureHandsBack ==
    pc = "commit" /\ rpm = "none" /\ ~term /\ ~opts.dryRun => bmc.auto

\* The step has decided for the BMC or has failed, or the daemon is to stop and
\* no step is under way that has decided to command a duty.  This is the code's
\* notion of failure: a failed fan read fails no step and owes nothing, although
\* README.md:224 lists it (FanReadFailureHandsBack).
Owes ==
    /\ ~opts.dryRun
    /\ \/ pc = "fallback"
       \/ next.auto /\ pc \in {"fans", "setManual", "setPercent", "setAuto", "record", "commit"}
       \/ term /\ pc \in {"start", "select", "read", "handback"}

Cust == INSTANCE Custody
    WITH holder <- IF bmc.auto THEN "bmc" ELSE "fanctl", owed <- Owes

\* The loop keeps the promise of Custody: once it owes the fans to the BMC it
\* does not take them, and it goes on to other things only when the BMC has
\* them, whatever temperature reads and commands failed and wherever a signal or a
\* reload fell.  A fan read that fails is no reason to owe them (Owes).
ImplementsCustody == Cust!Spec

\* A dry run leaves the fans to whoever has them: no step of the loop, fallback
\* and hand-back included, reaches the BMC, and none leaves a command behind.
DryRunTouchesNothing ==
    [][opts.dryRun /\ pc' # pc => UNCHANGED world]_vars

\* A termination signal ends a running daemon, and as it exits the BMC has the
\* fans, whatever the step in flight was doing when its context was cancelled.
ShutdownHandsBack ==
    (term /\ pc # "exited") ~> (pc = "exited" /\ (opts.dryRun \/ bmc.auto))

\* The periodic re-assert: if things stay quiet under manual control, a BMC
\* that silently went back to automatic, or runs at another duty after a
\* failed write, is brought back to the commanded duty for good.
RevertRecovered ==
    <>[](calm /\ ~term /\ ~opts.dryRun /\ IsManual(state) /\ tun.reassert > 0)
        => /\ <>[](~bmc.auto)
           /\ []<>(bmc.duty = state.pct)
=============================================================================
