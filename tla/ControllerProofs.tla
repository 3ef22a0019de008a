--------------------------- MODULE ControllerProofs ---------------------------
(* The controller's safety properties, for every configuration and reading.    *)
EXTENDS Controller, PolicyProofs

-----------------------------------------------------------------------------
(* Types.                                                                    *)

\* Whatever the sources read and the predictors add, the decision is a
\* commanded state: its duty is one the BMC accepts (controller.step).
LEMMA DecisionType ==
    ASSUME NEW t \in Configs, NEW s \in CommandStates,
           NEW cpu \in Readings \cup {NoReading}, NEW gpu \in Readings \cup {NoReading},
           NEW gpuFail \in BOOLEAN
    PROVE  Decision(t, s, cpu, gpu, gpuFail) \in CommandStates
<1> DEFINE c == DutyOf(cpu, t.curve)
           g == DutyOf(gpu, t.gpuCurve)
           pct == Greater(c.pct, g.pct)
           wantAuto == c.auto \/ g.auto
           canReclaim == MayReclaim(cpu, t.curve) /\ MayReclaim(gpu, t.gpuCurve)
<1>1. ValidCurve(t.curve) /\ ValidCurve(t.gpuCurve) /\ t.gov \in GovernorSet
  BY ConfigsAssumption DEF GovernorSet
<1>2. \A cv : \A r \in Readings \cup {NoReading} :
        ValidCurve(cv) => /\ DutyOf(r, cv) \in [pct : 0..100, auto : BOOLEAN]
                          /\ MayReclaim(r, cv) \in BOOLEAN
  <2>1. SUFFICES ASSUME NEW cv, NEW r \in Readings \cup {NoReading}, ValidCurve(cv)
                 PROVE  DutyOf(r, cv) \in [pct : 0..100, auto : BOOLEAN]
    BY DEF MayReclaim
  <2>2. CASE r = NoReading
    BY <2>2 DEF DutyOf
  <2>3. CASE r # NoReading
    <3>1. r.eff \in Int
      BY <2>3, ReadingsAssumption
    <3>2. Duty(cv, r.eff) \in [pct : 0..100, auto : BOOLEAN]
      BY <2>1, <3>1, DutyInRange
    <3>3. QED
      BY <2>3, <3>2 DEF DutyOf
  <2>4. QED
    BY <2>2, <2>3
<1>3. c \in [pct : 0..100, auto : BOOLEAN] /\ g \in [pct : 0..100, auto : BOOLEAN]
  BY <1>1, <1>2
<1> HIDE DEF c, g
<1>4. pct \in Int
  BY <1>3 DEF Greater
<1>5. wantAuto \in BOOLEAN /\ canReclaim \in BOOLEAN
  OBVIOUS
<1> HIDE DEF pct, wantAuto, canReclaim
<1>6. GovNext(t.gov, s, pct, wantAuto, canReclaim) \in CommandStates
  BY <1>1, <1>4, <1>5, GovNextType
<1>7. BmcAuto \in CommandStates
  BY ManualType
<1>8. QED
  BY <1>6, <1>7 DEF Decision, c, g, pct, wantAuto, canReclaim

\* The three commands keep the BMC a BMC, and do what they say.
LEMMA ExecuteType ==
    ASSUME NEW b \in BmcStates(0..100)
    PROVE  /\ \A cmd \in Commands(0..100) : Execute(b, cmd) \in BmcStates(0..100)
           /\ SetManualCmd \in Commands(0..100) /\ SetAutoCmd \in Commands(0..100)
           /\ \A p \in 0..100 : SetPercentCmd(p) \in Commands(0..100)
<1>1. \A cmd \in Commands(0..100) : cmd.pct \in 0..100
  BY DEF Commands, SetManualCmd, SetAutoCmd, SetPercentCmd
<1>2. \A cmd \in Commands(0..100) : Execute(b, cmd) \in BmcStates(0..100)
  BY <1>1 DEF Execute, BmcStates
<1>3. QED
  BY <1>2 DEF Commands

\* What each command leaves behind at the BMC.
LEMMA ExecuteEffect ==
    ASSUME NEW b \in BmcStates(0..100)
    PROVE  /\ Execute(b, SetAutoCmd) = [b EXCEPT !.auto = TRUE]
           /\ Execute(b, SetManualCmd) = [b EXCEPT !.auto = FALSE]
           /\ \A p \in 0..100 :
                /\ Execute(b, SetPercentCmd(p)).auto = b.auto
                /\ ~b.auto => Execute(b, SetPercentCmd(p)).duty = p
<1>1. Execute(b, SetAutoCmd) = [b EXCEPT !.auto = TRUE]
  BY DEF Execute, SetAutoCmd
<1>2. Execute(b, SetManualCmd) = [b EXCEPT !.auto = FALSE]
  BY DEF Execute, SetManualCmd
<1>3. ASSUME NEW p \in 0..100
      PROVE  /\ Execute(b, SetPercentCmd(p)).auto = b.auto
             /\ ~b.auto => Execute(b, SetPercentCmd(p)).duty = p
  <2>1. SetPercentCmd(p).name # "manual" /\ SetPercentCmd(p).name # "auto"
        /\ SetPercentCmd(p).pct = p
    BY DEF SetPercentCmd
  <2>2. Execute(b, SetPercentCmd(p)) = IF ~b.auto THEN [b EXCEPT !.duty = p] ELSE b
    BY <2>1 DEF Execute
  <2>3. QED
    BY <2>2 DEF BmcStates
<1>4. QED
  BY <1>1, <1>2, <1>3

\* A command, however it returns, keeps the world's types.
LEMMA IssueType ==
    ASSUME TypeOK, NEW cmd \in Commands(0..100), NEW o, Issue(cmd, o)
    PROVE  bmc' \in BmcStates(0..100) /\ late' \subseteq Commands(0..100)
<1>1. Execute(bmc, cmd) \in BmcStates(0..100)
  BY ExecuteType DEF TypeOK
<1>2. QED
  BY <1>1 DEF Issue, TypeOK

\* The zero state, the BMC's state and no locals are what a step may leave.
LEMMA LocalsType ==
    ASSUME TypeOK, NoLocals
    PROVE  prev' \in CommandStates /\ next' \in CommandStates
           /\ rpm' \in {"none", "flat", "moved"} /\ ltun' \in Configs
BY ManualType DEF NoLocals, TypeOK

\* A daemon that starts has the types.
LEMMA TypeInit == Init => TypeOK
<1> SUFFICES ASSUME Init PROVE TypeOK
  OBVIOUS
<1>1. ZeroState \in CommandStates
  BY ManualType
<1>2. bmc \in BmcStates(0..100)
  BY DEF Init, BmcStates
<1>3. /\ MaxAge \in 0..MaxAge /\ pc \in PCs /\ late \subseteq Commands(0..100)
      /\ obs \in {NeverObserved, HandedOver} \cup 0..100
  BY MaxAgeAssumption DEF Init, PCs
<1>4. QED
  BY <1>1, <1>2, <1>3 DEF Init, TypeOK

\* The parts of the type invariant, grouped by who writes them.
LoopTyped ==
    /\ ltun \in Configs /\ prev \in CommandStates /\ next \in CommandStates
    /\ age \in 0..MaxAge /\ obs \in {NeverObserved, HandedOver} \cup 0..100
    /\ pc \in PCs /\ rpm \in {"none", "flat", "moved"}
SharedTyped ==
    tun \in Configs /\ state \in CommandStates /\ verifyPending \in BOOLEAN
WorldTyped == bmc \in BmcStates(0..100) /\ late \subseteq Commands(0..100)
FlagsTyped == opts \in Flags /\ term \in BOOLEAN /\ calm \in BOOLEAN /\ reloaded \in BOOLEAN

\* Together they are the type invariant, here of the state after a step.
LEMMA TypeParts == LoopTyped' /\ SharedTyped' /\ WorldTyped' /\ FlagsTyped' => TypeOK'
BY DEF TypeOK, LoopTyped, SharedTyped, WorldTyped, FlagsTyped

\* What an action leaves alone keeps its type.
LEMMA KeptTypes ==
    ASSUME TypeOK
    PROVE  /\ UNCHANGED loopVars => LoopTyped'
           /\ UNCHANGED shared => SharedTyped'
           /\ UNCHANGED world => WorldTyped'
           /\ UNCHANGED flags => FlagsTyped'
BY DEF TypeOK, LoopTyped, SharedTyped, WorldTyped, FlagsTyped,
       loopVars, shared, world, flags

\* Applying a command, whichever and from wherever, keeps the types.
LEMMA ApplyType ==
    ASSUME TypeOK, NEW cmd \in Commands(0..100), NEW at, NEW then \in PCs, Apply(at, cmd, then)
    PROVE  TypeOK'
<1>1. PICK o \in Outcomes("apply") : Issue(cmd, o)
  BY DEF Apply
<1>2. WorldTyped'
  BY <1>1, IssueType DEF WorldTyped
<1>3. SharedTyped' /\ FlagsTyped'
  BY KeptTypes DEF Apply
<1>4. pc' \in PCs
  BY DEF Apply, PCs
<1>5. LoopTyped'
  BY <1>4 DEF Apply, TypeOK, LoopTyped
<1>6. QED
  BY <1>2, <1>3, <1>5, TypeParts

\* A step of the loop keeps the types.
LEMMA InStepType == ASSUME TypeOK, InStep PROVE TypeOK'
<1> USE DEF PCs
<1>1. ASSUME ReadAny PROVE TypeOK'
  <2>1. PICK cpu \in Readings \cup {NoReading}, gpu \in Readings \cup {NoReading},
             f \in BOOLEAN : Read(cpu, gpu, f)
    BY <1>1 DEF ReadAny
  <2>2. next' \in CommandStates
    <3>1. ltun \in Configs /\ prev \in CommandStates
      BY DEF TypeOK
    <3>2. Decision(ltun, prev, cpu, gpu, f) \in CommandStates
      BY <3>1, DecisionType
    <3>3. QED
      BY <2>1, <3>2 DEF Read
  <2>3. SharedTyped' /\ WorldTyped' /\ FlagsTyped'
    BY <2>1, KeptTypes DEF Read
  <2>4. LoopTyped'
    BY <2>1, <2>2 DEF Read, TypeOK, LoopTyped
  <2>5. QED
    BY <2>3, <2>4, TypeParts
<1>2. ASSUME ReadFails PROVE TypeOK'
  <2>1. SharedTyped' /\ WorldTyped' /\ FlagsTyped'
    BY <1>2, KeptTypes DEF ReadFails
  <2>2. LoopTyped'
    BY <1>2 DEF ReadFails, TypeOK, LoopTyped
  <2>3. QED
    BY <2>1, <2>2, TypeParts
<1>3. ASSUME FansAny PROVE TypeOK'
  <2>1. PICK r \in {"none", "flat", "moved"} : Fans(r)
    BY <1>3 DEF FansAny
  <2>2. pc' \in PCs
    BY <2>1 DEF Fans, FirstCommand
  <2>3. WorldTyped' /\ FlagsTyped'
    BY <2>1, KeptTypes DEF Fans
  <2>4. LoopTyped' /\ SharedTyped'
    BY <2>1, <2>2 DEF Fans, TypeOK, LoopTyped, SharedTyped
  <2>5. QED
    BY <2>3, <2>4, TypeParts
<1>4. ASSUME SetManual \/ SetPercent \/ SetAuto PROVE TypeOK'
  <2>1. SetManualCmd \in Commands(0..100) /\ SetAutoCmd \in Commands(0..100)
    BY ExecuteType DEF TypeOK
  <2>2. SetPercentCmd(next.pct) \in Commands(0..100)
    BY ExecuteType DEF TypeOK, CommandStates
  <2>3. "setPercent" \in PCs /\ "record" \in PCs
    OBVIOUS
  <2>4. QED
    BY <1>4, <2>1, <2>2, <2>3, ApplyType, Zenon DEF SetManual, SetPercent, SetAuto
<1>5. ASSUME Record PROVE TypeOK'
  <2>1. WorldTyped' /\ FlagsTyped'
    BY <1>5, KeptTypes DEF Record
  <2>2. verifyPending' \in BOOLEAN /\ tun' = tun /\ state' = state
    BY <1>5 DEF Record, ArmsVerify, TypeOK
  <2>3. SharedTyped'
    BY <2>2 DEF SharedTyped, TypeOK
  <2>4. LoopTyped'
    BY <1>5, MaxAgeAssumption DEF Record, TypeOK, LoopTyped
  <2>5. QED
    BY <2>1, <2>3, <2>4, TypeParts
<1>6. ASSUME Commit PROVE TypeOK'
  <2>1. WorldTyped' /\ FlagsTyped'
    BY <1>6, KeptTypes DEF Commit
  <2>2. SharedTyped'
    BY <1>6 DEF Commit, Committed, TypeOK, SharedTyped
  <2>3. obs' \in {NeverObserved, HandedOver} \cup 0..100
    BY <1>6 DEF Commit, TypeOK, CommandStates
  <2>4. LoopTyped'
    BY <1>6, <2>3, LocalsType DEF Commit, TypeOK, LoopTyped
  <2>5. QED
    BY <2>1, <2>2, <2>4, TypeParts
<1>7. ASSUME Fallback PROVE TypeOK'
  <2>1. FlagsTyped'
    BY <1>7, KeptTypes DEF Fallback
  <2>2. LoopTyped'
    BY <1>7, LocalsType DEF Fallback, TypeOK, LoopTyped
  <2>3. CASE opts.dryRun
    <3>1. SharedTyped' /\ WorldTyped'
      BY <1>7, <2>3 DEF Fallback, TypeOK, SharedTyped, WorldTyped, world
    <3>2. QED
      BY <2>1, <2>2, <3>1, TypeParts
  <2>4. CASE ~opts.dryRun
    <3>1. PICK o \in Outcomes("fallback") :
            /\ Issue(SetAutoCmd, o)
            /\ state' = IF o = "ok" THEN BmcAuto ELSE state
            /\ verifyPending' = (verifyPending /\ o # "ok")
      BY <1>7, <2>4 DEF Fallback
    <3>2. WorldTyped'
      BY <3>1, ExecuteType, IssueType DEF WorldTyped, TypeOK
    <3>3. state' \in CommandStates /\ verifyPending' \in BOOLEAN /\ tun' = tun
      BY <1>7, <3>1, ManualType DEF Fallback, TypeOK
    <3>4. SharedTyped'
      BY <3>3 DEF SharedTyped, TypeOK
    <3>5. QED
      BY <2>1, <2>2, <3>2, <3>4, TypeParts
  <2>5. QED
    BY <2>3, <2>4
<1>8. ASSUME HandBack PROVE TypeOK'
  <2>1. SharedTyped' /\ FlagsTyped'
    BY <1>8, KeptTypes DEF HandBack
  <2>2. LoopTyped'
    BY <1>8 DEF HandBack, TypeOK, LoopTyped
  <2>3. CASE opts.dryRun
    <3>1. WorldTyped'
      BY <1>8, <2>3, KeptTypes DEF HandBack
    <3>2. QED
      BY <2>1, <2>2, <3>1, TypeParts
  <2>4. CASE ~opts.dryRun
    <3>1. PICK o \in HandBackOutcomes : Issue(SetAutoCmd, o)
      BY <1>8, <2>4 DEF HandBack
    <3>2. WorldTyped'
      BY <3>1, ExecuteType, IssueType DEF WorldTyped, TypeOK
    <3>3. QED
      BY <2>1, <2>2, <3>2, TypeParts
  <2>5. QED
    BY <2>3, <2>4
<1>9. QED
  BY <1>1, <1>2, <1>3, <1>4, <1>5, <1>6, <1>7, <1>8 DEF InStep

\* So does everything around the loop, and a step that changes nothing.
LEMMA AroundType == ASSUME TypeOK, [Next]_vars, ~InStep PROVE TypeOK'
<1>1. CASE StartStep
  <2>1. age' \in 0..MaxAge
    BY <1>1, MaxAgeAssumption DEF StartStep, TypeOK
  <2>2. LoopTyped'
    BY <1>1, <2>1 DEF StartStep, LoopTyped, TypeOK, PCs
  <2>3. FlagsTyped'
    BY <1>1 DEF StartStep, FlagsTyped, TypeOK
  <2>4. SharedTyped' /\ WorldTyped'
    BY <1>1, KeptTypes DEF StartStep
  <2>5. QED
    BY <2>2, <2>3, <2>4, TypeParts
<1>2. CASE Shutdown
  <2>1. LoopTyped'
    BY <1>2 DEF Shutdown, LoopTyped, TypeOK, PCs
  <2>2. QED
    BY <1>2, <2>1, KeptTypes, TypeParts DEF Shutdown
<1>3. CASE ReloadAny
  <2>1. PICK t \in Configs : Reload(t)
    BY <1>3 DEF ReloadAny
  <2>2. ZeroState \in CommandStates
    BY ManualType
  <2>3. SharedTyped'
    BY <2>1, <2>2 DEF Reload, SharedTyped
  <2>4. FlagsTyped'
    BY <2>1 DEF Reload, FlagsTyped, TypeOK
  <2>5. QED
    BY <2>1, <2>3, <2>4, KeptTypes, TypeParts DEF Reload
<1>4. CASE Terminate \/ CalmDown
  <2>1. FlagsTyped'
    BY <1>4 DEF Terminate, CalmDown, FlagsTyped, TypeOK
  <2>2. QED
    BY <1>4, <2>1, KeptTypes, TypeParts DEF Terminate, CalmDown
<1>5. CASE LateLands
  <2>1. PICK cmd \in late : bmc' = Execute(bmc, cmd) /\ late' = late \ {cmd}
    BY <1>5 DEF LateLands
  <2>2. WorldTyped'
    BY <2>1, ExecuteType DEF WorldTyped, TypeOK
  <2>3. QED
    BY <1>5, <2>2, KeptTypes, TypeParts DEF LateLands
<1>6. CASE BmcReset
  <2>1. WorldTyped'
    BY <1>6, ExecuteType DEF BmcReset, WorldTyped, TypeOK
  <2>2. QED
    BY <1>6, <2>1, KeptTypes, TypeParts DEF BmcReset
<1>7. CASE UNCHANGED vars
  BY <1>7, KeptTypes, TypeParts DEF vars
<1>8. QED
  BY <1>1, <1>2, <1>3, <1>4, <1>5, <1>6, <1>7 DEF Next

\* The controller, the loop and the BMC keep their types: in particular the
\* duty written to the BMC is in 0..100 for every valid curve and any boost.
THEOREM ControllerTyped == Spec => []TypeOK
<1>1. TypeOK /\ [Next]_vars => TypeOK'
  BY InStepType, AroundType
<1>2. QED
  BY <1>1, TypeInit, PTL DEF Spec

-----------------------------------------------------------------------------
(* Reloads, verification and dry runs: no assumption on the faults.          *)

MidStep == {"read", "fans", "setManual", "setPercent", "setAuto",
            "record", "commit", "fallback"}
Applying == {"setManual", "setPercent", "setAuto"}

\* Between the copies and the commit only a reload writes the state: it is the
\* step's own copy, or the zero state.
StateCopied ==
    pc \in MidStep => /\ state = prev \/ state = ZeroState
                      /\ reloaded => state = ZeroState

\* A dry run never comes to a command.
DryRunIdle == opts.dryRun => pc \notin Applying /\ late = {}

\* The step takes the pending verification down and arms the next one only for
\* a change under manual control.
VerifyInv ==
    /\ VerifyOnlyManual
    /\ pc \in Applying \cup {"record"} => ~verifyPending
    /\ (pc = "commit" /\ verifyPending) => ~next.auto

StepInv == StateCopied /\ DryRunIdle /\ VerifyInv

\* Nothing is pending as the daemon starts.
LEMMA StepInit == Init => StepInv
BY DEF Init, StepInv, StateCopied, DryRunIdle, VerifyInv, VerifyOnlyManual,
       MidStep, Applying

\* Every step of the daemon and its surroundings keeps this.
LEMMA StepNext == ASSUME TypeOK, StepInv, [Next]_vars PROVE StepInv'
<1> USE DEF StepInv, StateCopied, DryRunIdle, VerifyInv, VerifyOnlyManual,
            MidStep, Applying
<1>1. CASE StartStep
  BY <1>1 DEF StartStep, shared, world
<1>2. CASE ReadAny
  BY <1>2 DEF ReadAny, Read, shared, world, flags
<1>3. CASE ReadFails
  BY <1>3 DEF ReadFails, shared, world, flags
<1>4. CASE FansAny
  <2>1. PICK r \in {"none", "flat", "moved"} : Fans(r)
    BY <1>4 DEF FansAny
  <2>2. pc' \in {"commit", "record", "setAuto", "setManual"}
    BY <2>1 DEF Fans, FirstCommand
  <2>3. opts.dryRun => pc' \notin Applying
    BY <2>1 DEF Fans, FirstCommand
  <2>4. QED
    BY <2>1, <2>2, <2>3 DEF Fans, world, flags
<1>5. CASE SetManual \/ SetPercent \/ SetAuto
  <2>1. pc \in Applying /\ pc' \in {"setPercent", "record", "fallback"}
    BY <1>5 DEF SetManual, SetPercent, SetAuto, Apply
  <2>2. UNCHANGED <<prev, next, shared, flags>>
    BY <1>5 DEF SetManual, SetPercent, SetAuto, Apply
  <2>3. QED
    BY <2>1, <2>2 DEF shared, flags
<1>6. CASE Record
  <2>1. pc = "record" /\ pc' = "commit" /\ UNCHANGED <<prev, next, state, world, flags>>
    BY <1>6 DEF Record
  <2>2. verifyPending' => ~next.auto /\ ~prev.auto
    BY <1>6, <2>1 DEF Record, ArmsVerify
  <2>3. state = prev \/ state = ZeroState
    BY <2>1
  <2>4. verifyPending' => ~state.auto
    BY <2>2, <2>3 DEF ZeroState
  <2>5. QED
    BY <2>1, <2>2, <2>4 DEF world, flags
<1>7. CASE Commit
  BY <1>7 DEF Commit, Committed, world, flags
<1>8. CASE Fallback
  <2>1. CASE opts.dryRun
    BY <1>8, <2>1 DEF Fallback, world, flags
  <2>2. CASE ~opts.dryRun
    BY <1>8, <2>2 DEF Fallback, flags, BmcAuto
  <2>3. QED
    BY <2>1, <2>2
<1>9. CASE HandBack
  BY <1>9 DEF HandBack, world, shared, flags
<1>10. CASE Shutdown
  BY <1>10 DEF Shutdown, world, shared, flags
<1>11. CASE ReloadAny
  BY <1>11 DEF ReloadAny, Reload, loopVars, world, ZeroState
<1>12. CASE Terminate \/ CalmDown
  BY <1>12 DEF Terminate, CalmDown, loopVars, world, shared
<1>13. CASE LateLands \/ BmcReset
  <2>1. UNCHANGED <<loopVars, shared, flags>> /\ (late = {} => late' = {})
    BY <1>13 DEF LateLands, BmcReset
  <2>2. QED
    BY <2>1 DEF loopVars, shared, flags
<1>14. CASE UNCHANGED vars
  BY <1>14 DEF vars, loopVars, world, shared, flags
<1>15. QED
  BY <1>1, <1>2, <1>3, <1>4, <1>5, <1>6, <1>7, <1>8, <1>9, <1>10, <1>11,
     <1>12, <1>13, <1>14 DEF Next, InStep

\* A verification of a large change never outlives a hand-over to the BMC
\* (controller.step and fallbackAuto), wherever commands fail.
THEOREM VerifiesOnlyManual == Spec => []VerifyOnlyManual
<1>1. Init => TypeOK /\ StepInv
  BY TypeInit, StepInit
<1>2. TypeOK /\ StepInv /\ [Next]_vars => TypeOK' /\ StepInv'
  BY InStepType, AroundType, StepNext
<1>3. StepInv => VerifyOnlyManual
  BY DEF StepInv, VerifyInv
<1>4. QED
  BY <1>1, <1>2, <1>3, PTL DEF Spec

\* The commit of one step.
KeptStep ==
    (pc = "commit" /\ pc' = "select" /\ reloaded /\ prev.init) => state' = ZeroState

\* A step that had a state to start from never overwrites the one that a
\* reload reset (controller.step's commit against setTunables).
THEOREM ReloadsAreKept == Spec => ReloadNotOverwritten
<1>1. Init => TypeOK /\ StepInv
  BY TypeInit, StepInit
<1>2. TypeOK /\ StepInv /\ [Next]_vars => TypeOK' /\ StepInv'
  BY InStepType, AroundType, StepNext
<1>3. ASSUME StepInv, Next PROVE KeptStep
  <2>1. SUFFICES ASSUME pc = "commit", pc' = "select", reloaded, prev.init
                 PROVE  state' = ZeroState
    BY DEF KeptStep
  <2>2. state = ZeroState /\ state # prev
    BY <1>3, <2>1 DEF StepInv, StateCopied, MidStep, ZeroState
  <2>3. state' = Committed \/ state' = ZeroState
    <3>1. CASE Commit
      BY <3>1 DEF Commit
    <3>2. CASE ReloadAny
      BY <3>2 DEF ReloadAny, Reload
    <3>3. CASE ~Commit /\ ~ReloadAny
      BY <1>3, <2>1, <3>3 DEF Next, InStep, StartStep, ReadAny, Read, ReadFails, FansAny,
         Fans, SetManual, SetPercent, SetAuto, Apply, Record, Fallback, HandBack,
         Shutdown, Terminate, CalmDown, LateLands, BmcReset, loopVars
    <3>4. QED
      BY <3>1, <3>2, <3>3
  <2>4. QED
    BY <2>2, <2>3 DEF Committed
<1>4. TypeOK /\ StepInv /\ [Next]_vars => [KeptStep]_vars
  BY <1>3
<1>5. Spec => [][KeptStep]_vars
  BY <1>1, <1>2, <1>4, PTL DEF Spec
<1>6. QED
  BY <1>5 DEF KeptStep, ReloadNotOverwritten

\* What the loop of a dry run does to the BMC.
UntouchedStep == opts.dryRun /\ pc' # pc => UNCHANGED world

\* A dry run issues no command, from whatever path of the loop: step,
\* fallbackAuto or handBackToAuto.
THEOREM DryRunIsDry == Spec => DryRunTouchesNothing
<1>1. Init => TypeOK /\ StepInv
  BY TypeInit, StepInit
<1>2. TypeOK /\ StepInv /\ [Next]_vars => TypeOK' /\ StepInv'
  BY InStepType, AroundType, StepNext
<1>3. ASSUME StepInv, Next PROVE UntouchedStep
  <2>1. SUFFICES ASSUME opts.dryRun, pc' # pc
                 PROVE  UNCHANGED world
    BY DEF UntouchedStep
  <2>2. pc \notin Applying /\ late = {}
    BY <1>3, <2>1 DEF StepInv, DryRunIdle
  <2>3. ~SetManual /\ ~SetPercent /\ ~SetAuto /\ ~LateLands
    BY <2>2 DEF SetManual, SetPercent, SetAuto, Apply, LateLands, Applying
  <2>4. ~BmcReset
    BY <2>1 DEF BmcReset, loopVars
  <2>5. QED
    BY <1>3, <2>1, <2>3, <2>4 DEF Next, InStep, StartStep, ReadAny, Read, ReadFails,
       FansAny, Fans, Record, Commit, Fallback, HandBack, Shutdown, ReloadAny, Reload,
       Terminate, CalmDown, world
<1>4. TypeOK /\ StepInv /\ [Next]_vars => [UntouchedStep]_vars
  BY <1>3
<1>5. Spec => [][UntouchedStep]_vars
  BY <1>1, <1>2, <1>4, PTL DEF Spec
<1>6. QED
  BY <1>5 DEF UntouchedStep, DryRunTouchesNothing

-----------------------------------------------------------------------------
(* Custody: what the daemon believes of the BMC.                             *)

\* The fallback's own command never fails on a healthy context, and no command
\* takes effect after its deadline.  Without this the belief goes stale: the
\* run controller_stale_belief shows how.
QuietFallback == Faults \cap {"fallback", "late"} = {}

\* What a state that fanctl has commanded says of the BMC.
Held(s) ==
    /\ s.auto => bmc.auto
    /\ (s.init /\ ~s.auto) => (bmc.auto \/ bmc.duty = s.pct)

\* The belief follows the step: the state until the decision, the copy until
\* the first command, the decision once it is applied or was already in force.
BeliefFollows ==
    ~opts.dryRun =>
        /\ (pc \in {"start", "select", "read"} /\ ~term) => Held(state)
        /\ (pc = "read" /\ ~term) => Held(prev)
        /\ pc = "fans" => Held(prev)
        /\ pc \in {"setManual", "setPercent"} => ~next.auto
        /\ pc = "setAuto" => next.auto
        /\ pc \in {"record", "commit"} => Held(next)

CustodyInv == late = {} /\ BeliefFollows

\* A fresh daemon believes nothing.
LEMMA CustodyInit == Init => CustodyInv
BY DEF Init, CustodyInv, BeliefFollows, Held, ZeroState

\* No command is left behind by a call that cannot be late.
LEMMA NothingLate ==
    ASSUME QuietFallback
    PROVE  /\ LateOutcome = {}
           /\ \A site : "late" \notin Outcomes(site)
           /\ "late" \notin HandBackOutcomes
           /\ ~term => \A o \in Outcomes("fallback") : o = "ok"
BY DEF QuietFallback, LateOutcome, Faulty, Outcomes, HandBackOutcomes

\* applyState's command from "at" establishes what comes after it.
LEMMA ApplyCustody ==
    ASSUME QuietFallback, CustodyInv, NEW at, NEW cmd, NEW then, Apply(at, cmd, then)
    PROVE  /\ late' = {} /\ UNCHANGED <<next, prev, state, opts, term>>
           /\ pc' = "fallback" \/ (pc' = then /\ bmc' = Execute(bmc, cmd))
<1>1. PICK o \in Outcomes("apply") :
        Issue(cmd, o) /\ pc' = IF o = "ok" THEN then ELSE "fallback"
  BY DEF Apply
<1>2. o # "late"
  BY <1>1, NothingLate
<1>3. late' = {}
  BY <1>1, <1>2 DEF Issue, CustodyInv
<1>4. QED
  BY <1>1, <1>3 DEF Apply, Issue, shared, flags

\* The steps that issue no command and decide nothing leave the BMC alone.
LEMMA QuietCustody ==
    ASSUME CustodyInv, StepInv,
           StartStep \/ ReadAny \/ ReadFails \/ Record \/ Shutdown \/ ReloadAny
             \/ Terminate \/ CalmDown \/ UNCHANGED vars
    PROVE  CustodyInv'
<1> USE DEF CustodyInv, BeliefFollows, Held
<1>1. CASE StartStep
  BY <1>1 DEF StartStep, shared, world
<1>2. CASE ReadAny
  BY <1>2 DEF ReadAny, Read, shared, world, flags
<1>3. CASE ReadFails
  BY <1>3 DEF ReadFails, shared, world, flags
<1>4. CASE Record
  BY <1>4 DEF Record, world, flags
<1>5. CASE Shutdown
  BY <1>5 DEF Shutdown, shared, world, flags
<1>6. CASE ReloadAny
  BY <1>6 DEF ReloadAny, Reload, loopVars, world, ZeroState
<1>7. CASE Terminate \/ CalmDown
  BY <1>7 DEF Terminate, CalmDown, loopVars, shared, world
<1>8. CASE UNCHANGED vars
  BY <1>8 DEF vars, loopVars, shared, world, flags
<1>9. QED
  BY <1>1, <1>2, <1>3, <1>4, <1>5, <1>6, <1>7, <1>8

\* The remaining steps: those that command the BMC, that decide not to, and
\* that commit.
LEMMA CustodyNext ==
    ASSUME QuietFallback, TypeOK, StepInv, CustodyInv, [Next]_vars
    PROVE  CustodyInv'
<1> USE DEF CustodyInv, BeliefFollows
<1>1. bmc \in BmcStates(0..100) /\ next.pct \in 0..100 /\ late = {}
  BY DEF TypeOK, CommandStates
<1>2. CASE FansAny
  <2>1. PICK r \in {"none", "flat", "moved"} : Fans(r)
    BY <1>2 DEF FansAny
  <2>2. UNCHANGED <<bmc, late, next, prev, state, opts, term>> /\ pc = "fans"
    BY <2>1 DEF Fans, world, flags
  <2>3. CASE pc' = "commit"
    <3>1. SameCommand(next, prev)
      BY <2>1, <2>3 DEF Fans, Changed, FirstCommand
    <3>2. ~opts.dryRun => Held(next)'
      BY <2>2, <3>1 DEF Held, SameCommand
    <3>3. QED
      BY <2>2, <2>3, <3>2
  <2>4. CASE pc' = FirstCommand
    BY <2>2, <2>4 DEF FirstCommand
  <2>5. QED
    BY <2>1, <2>3, <2>4 DEF Fans
<1>3. CASE SetManual
  <2>1. late' = {} /\ UNCHANGED <<next, prev, state, opts, term>>
        /\ pc' \in {"fallback", "setPercent"}
    BY <1>3, ApplyCustody DEF SetManual
  <2>2. pc = "setManual"
    BY <1>3 DEF SetManual, Apply
  <2>3. QED
    BY <2>1, <2>2
<1>4. CASE SetPercent
  <2>1. /\ late' = {} /\ UNCHANGED <<next, prev, state, opts, term>>
        /\ \/ pc' = "fallback"
           \/ pc' = "record" /\ bmc' = Execute(bmc, SetPercentCmd(next.pct))
    BY <1>4, ApplyCustody DEF SetPercent
  <2>2. pc = "setPercent"
    BY <1>4 DEF SetPercent, Apply
  <2>3. pc' = "record" /\ ~opts.dryRun => Held(next)'
    <3>1. SUFFICES ASSUME pc' = "record", ~opts.dryRun PROVE Held(next)'
      OBVIOUS
    <3>2. ~next.auto /\ next' = next /\ bmc' = Execute(bmc, SetPercentCmd(next.pct))
      BY <2>1, <2>2, <3>1
    <3>3. /\ Execute(bmc, SetPercentCmd(next.pct)).auto = bmc.auto
          /\ ~bmc.auto => Execute(bmc, SetPercentCmd(next.pct)).duty = next.pct
      BY <1>1, ExecuteEffect
    <3>4. bmc'.auto \/ bmc'.duty = next'.pct
      BY <3>2, <3>3
    <3>5. QED
      BY <3>2, <3>4 DEF Held
  <2>4. QED
    BY <2>1, <2>3
<1>5. CASE SetAuto
  <2>1. /\ late' = {} /\ UNCHANGED <<next, prev, state, opts, term>>
        /\ pc' = "fallback" \/ (pc' = "record" /\ bmc' = Execute(bmc, SetAutoCmd))
    BY <1>5, ApplyCustody DEF SetAuto
  <2>2. pc' = "record" => bmc'.auto
    BY <1>1, <2>1, ExecuteEffect DEF BmcStates
  <2>3. QED
    BY <2>1, <2>2 DEF Held
<1>6. CASE Commit
  <2>1. /\ pc = "commit" /\ pc' = "select" /\ UNCHANGED <<bmc, late, opts>>
        /\ state' = Committed
    BY <1>6 DEF Commit, world, flags
  <2>2. Committed = next \/ Committed = ZeroState
    BY <2>1 DEF Committed, StepInv, StateCopied, MidStep
  <2>3. ~opts.dryRun => Held(state)'
    BY <2>1, <2>2 DEF Held, ZeroState
  <2>4. QED
    BY <2>1, <2>3
<1>7. CASE Fallback
  <2>1. pc' = "select" /\ UNCHANGED <<opts, term>>
    BY <1>7 DEF Fallback, flags
  <2>2. CASE opts.dryRun
    BY <1>7, <2>1, <2>2 DEF Fallback, world
  <2>3. CASE ~opts.dryRun
    <3>1. PICK o \in Outcomes("fallback") :
            Issue(SetAutoCmd, o) /\ state' = IF o = "ok" THEN BmcAuto ELSE state
      BY <1>7, <2>3 DEF Fallback
    <3>2. late' = {}
      BY <1>1, <3>1, NothingLate DEF Issue
    <3>3. ~term => state' = BmcAuto /\ bmc' = Execute(bmc, SetAutoCmd)
      BY <3>1, NothingLate DEF Issue
    <3>4. ~term => Held(state)'
      BY <1>1, <3>3, ExecuteEffect DEF Held, BmcAuto, BmcStates
    <3>5. QED
      BY <2>1, <3>2, <3>4
  <2>4. QED
    BY <2>2, <2>3
<1>8. CASE HandBack
  <2>1. pc' = "exited" /\ late' = {}
    BY <1>1, <1>8, NothingLate DEF HandBack, Issue, world
  <2>2. QED
    BY <2>1
<1>9. CASE LateLands
  BY <1>1, <1>9 DEF LateLands
<1>10. CASE BmcReset
  <2>1. bmc'.auto /\ late' = {} /\ UNCHANGED <<loopVars, shared, flags>>
    BY <1>1, <1>10, ExecuteEffect DEF BmcReset, BmcStates
  <2>2. QED
    BY <2>1 DEF Held, loopVars, shared, flags
<1>11. CASE StartStep \/ ReadAny \/ ReadFails \/ Record \/ Shutdown \/ ReloadAny
              \/ Terminate \/ CalmDown \/ UNCHANGED vars
  BY <1>11, QuietCustody
<1>12. QED
  BY <1>2, <1>3, <1>4, <1>5, <1>6, <1>7, <1>8, <1>9, <1>10, <1>11 DEF Next, InStep

\* A step that decides for the BMC, because it is too hot or because it cannot
\* see, does not complete while the fans are pinned: by the first error, by
\* change detection, by a reload in the middle or by an iDRAC reset.
THEOREM HandsBack == ASSUME QuietFallback PROVE Spec => []HandedBack
<1>1. Init => TypeOK /\ StepInv /\ CustodyInv
  BY TypeInit, StepInit, CustodyInit
<1>2. TypeOK /\ StepInv /\ CustodyInv /\ [Next]_vars
        => TypeOK' /\ StepInv' /\ CustodyInv'
  BY InStepType, AroundType, StepNext, CustodyNext
<1>3. CustodyInv => HandedBack
  BY DEF CustodyInv, BeliefFollows, Held, HandedBack
<1>4. QED
  BY <1>1, <1>2, <1>3, PTL DEF Spec

\* Between steps the state that change detection compares with is what the BMC
\* was really told, so that no command is ever suppressed wrongly.
THEOREM BeliefsAreSound == ASSUME QuietFallback PROVE Spec => []BeliefSound
<1>1. Init => TypeOK /\ StepInv /\ CustodyInv
  BY TypeInit, StepInit, CustodyInit
<1>2. TypeOK /\ StepInv /\ CustodyInv /\ [Next]_vars
        => TypeOK' /\ StepInv' /\ CustodyInv'
  BY InStepType, AroundType, StepNext, CustodyNext
<1>3. CustodyInv => BeliefSound
  BY DEF CustodyInv, BeliefFollows, Held, BeliefSound, Idle
<1>4. QED
  BY <1>1, <1>2, <1>3, PTL DEF Spec

-----------------------------------------------------------------------------
(* The metrics.                                                              *)

\* A decision is a command, never the absence of one.
LEMMA DecisionCommands ==
    ASSUME NEW t \in Configs, NEW s \in CommandStates, NEW cpu, NEW gpu, NEW gpuFail
    PROVE  Decision(t, s, cpu, gpu, gpuFail).init
<1>1. BmcAuto.init /\ \A p : Manual(p).init
  BY DEF BmcAuto, Manual
<1>2. \A p, b : [Manual(p) EXCEPT !.auto = b].init
  BY DEF Manual
<1>3. \A g, p : s.init => Regulate(g, s, p).init
  <2>1. \A h, p : [s EXCEPT !.hold = h, !.holdPct = p].init = s.init
    BY DEF CommandStates
  <2>2. QED
    BY <1>1, <2>1 DEF Regulate, LargeMove, SmallMove
<1>4. \A g, p, w, r : GovNext(g, s, p, w, r).init
  BY <1>1, <1>2, <1>3 DEF GovNext, Reclaim
<1>5. QED
  BY <1>1, <1>4 DEF Decision

\* The step has decided.
Decided == {"fans", "setManual", "setPercent", "setAuto", "record", "commit"}

\* What is shown stays true until the step's first command.
MetricsInv ==
    /\ pc \in Decided => next.init
    /\ (pc \in {"start", "select", "read", "fans"} /\ ~term /\ ~opts.dryRun) => Shown

\* The steps that leave the BMC alone and show nothing new.
LEMMA SilentMetrics ==
    ASSUME MetricsInv, UNCHANGED <<obs, bmc, opts>>, term => term',
           \/ next' = next /\ pc' = pc
           \/ pc = "start" /\ pc' = "read"
           \/ pc = "select" /\ pc' \in {"read", "handback"}
           \/ pc = "read" /\ pc' = "fallback"
           \/ pc = "read" /\ pc' = "fans" /\ next'.init
           \/ pc \in Decided /\ next' = next /\ pc' \in Decided \ {"fans"}
    PROVE  MetricsInv'
BY DEF MetricsInv, Shown, Decided

LEMMA MetricsNext ==
    ASSUME QuietFallback, TypeOK, CustodyInv, MetricsInv, [Next]_vars
    PROVE  MetricsInv'
<1>1. bmc \in BmcStates(0..100) /\ late = {}
  BY DEF TypeOK, CustodyInv
<1>2. CASE StartStep \/ ReadFails \/ Record \/ Shutdown
  BY <1>2, SilentMetrics
     DEF StartStep, ReadFails, Record, Shutdown, world, flags, Decided
<1>3. CASE ReadAny
  <2>1. PICK cpu, gpu \in Readings \cup {NoReading}, f \in BOOLEAN : Read(cpu, gpu, f)
    BY <1>3 DEF ReadAny
  <2>2. next'.init
    BY <2>1, DecisionCommands DEF Read, TypeOK
  <2>3. QED
    BY <2>1, <2>2, SilentMetrics DEF Read, world, flags
<1>4. CASE FansAny
  <2>1. PICK r \in {"none", "flat", "moved"} : Fans(r)
    BY <1>4 DEF FansAny
  <2>2. pc' \in Decided \ {"fans"}
    BY <2>1 DEF Fans, FirstCommand, Decided
  <2>3. QED
    BY <2>1, <2>2, SilentMetrics DEF Fans, world, flags, Decided
<1>5. CASE SetManual \/ SetPercent \/ SetAuto
  <2>1. /\ pc \in Decided /\ next' = next
        /\ pc' \in {"fallback", "setPercent", "record"}
    BY <1>5 DEF SetManual, SetPercent, SetAuto, Apply, Decided
  <2>2. QED
    BY <2>1 DEF MetricsInv, Decided
<1>6. CASE Commit
  <2>1. /\ pc = "commit" /\ pc' = "select" /\ UNCHANGED <<bmc, opts, term>>
        /\ obs' = IF next.auto THEN HandedOver ELSE next.pct
    BY <1>6 DEF Commit, world, flags
  <2>2. next.init /\ next.pct # HandedOver
    BY <2>1 DEF MetricsInv, Decided, TypeOK, CommandStates, HandedOver
  <2>3. ~opts.dryRun => Held(next)
    BY <2>1 DEF CustodyInv, BeliefFollows
  <2>4. QED
    BY <2>1, <2>2, <2>3 DEF MetricsInv, Decided, Shown, Held
<1>7. CASE Fallback
  <2>1. pc' = "select" /\ UNCHANGED <<obs, opts, term>>
    BY <1>7 DEF Fallback, flags
  <2>2. ~opts.dryRun /\ ~term => bmc'.auto
    <3>1. ~opts.dryRun /\ ~term => bmc' = Execute(bmc, SetAutoCmd)
      BY <1>7, NothingLate DEF Fallback, Issue
    <3>2. QED
      BY <1>1, <3>1, ExecuteEffect DEF BmcStates
  <2>3. QED
    BY <2>1, <2>2 DEF MetricsInv, Decided, Shown
<1>8. CASE HandBack
  BY <1>8 DEF HandBack, MetricsInv, Decided
<1>9. CASE ReloadAny \/ Terminate \/ CalmDown \/ UNCHANGED vars
  BY <1>9, SilentMetrics
     DEF ReloadAny, Reload, Terminate, CalmDown, vars, loopVars, world, flags
<1>10. CASE LateLands
  BY <1>1, <1>10 DEF LateLands
<1>11. CASE BmcReset
  <2>1. bmc'.auto /\ UNCHANGED <<loopVars, flags>>
    BY <1>1, <1>11, ExecuteEffect DEF BmcReset, BmcStates
  <2>2. QED
    BY <2>1 DEF MetricsInv, Shown, loopVars, flags
<1>12. QED
  BY <1>2, <1>3, <1>4, <1>5, <1>6, <1>7, <1>8, <1>9, <1>10, <1>11 DEF Next, InStep

\* /metrics may lag behind the fallback (metrics.go:58), but it never flatters:
\* a shown hand-over is real and a manual BMC runs at the duty shown.
THEOREM MetricsAreSafe == ASSUME QuietFallback PROVE Spec => []MetricsNeverFlatter
<1>1. Init => TypeOK /\ StepInv /\ CustodyInv
  BY TypeInit, StepInit, CustodyInit
<1>2. Init => MetricsInv
  BY DEF Init, MetricsInv, Decided, Shown
<1>3. TypeOK /\ StepInv /\ CustodyInv /\ [Next]_vars
        => TypeOK' /\ StepInv' /\ CustodyInv'
  BY InStepType, AroundType, StepNext, CustodyNext
<1>4. TypeOK /\ CustodyInv /\ MetricsInv /\ [Next]_vars => MetricsInv'
  BY MetricsNext
<1>5. MetricsInv => MetricsNeverFlatter
  BY DEF MetricsInv, MetricsNeverFlatter, Idle
<1>6. QED
  BY <1>1, <1>2, <1>3, <1>4, <1>5, PTL DEF Spec

-----------------------------------------------------------------------------
(* Controller implements Custody: every step of the loop, of a reload, of the  *)
(* signal and of the BMC itself is a step of the promise, or none.             *)

\* The last hand-back, on a context of its own, does not fail.
QuietHandBack == "handback" \notin Faults

\* A step seen from outside: who had the fans and what was owed, before and after.
Stutters == (Owes' <=> Owes) /\ bmc'.auto = bmc.auto
Returns == (Owes' <=> Owes) /\ bmc'.auto
Takes == ~Owes /\ ~bmc'.auto
Alarms == ~Owes /\ Owes' /\ bmc'.auto = bmc.auto
Settles == Owes /\ ~Owes' /\ bmc'.auto

\* Each kind is a step of the promise.
LEMMA KindsOfStep ==
    ASSUME Stutters \/ Returns \/ Takes \/ Alarms \/ Settles
    PROVE  [Cust!Next]_(Cust!vars)
<1> DEFINE H == IF bmc.auto THEN "bmc" ELSE "fanctl"
<1>1. Owes \in BOOLEAN /\ Owes' \in BOOLEAN
  BY DEF Owes
<1>2. CASE Stutters
  <2>1. H' = H /\ Owes' = Owes
    BY <1>1, <1>2 DEF Stutters
  <2>2. QED
    BY <2>1 DEF Cust!vars
<1>3. CASE Returns
  <2>1. H' = "bmc" /\ Owes' = Owes
    BY <1>1, <1>3 DEF Returns
  <2>2. QED
    BY <2>1 DEF Cust!Next, Cust!Return
<1>4. CASE Takes
  <2>1. ~Owes /\ H' = "fanctl" /\ Owes' \in BOOLEAN
    BY <1>1, <1>4 DEF Takes
  <2>2. QED
    BY <2>1 DEF Cust!Next, Cust!Take
<1>5. CASE Alarms
  <2>1. ~Owes /\ H' = H /\ Owes' = TRUE
    BY <1>1, <1>5 DEF Alarms
  <2>2. QED
    BY <2>1 DEF Cust!Next, Cust!Alarm
<1>6. CASE Settles
  <2>1. Owes /\ H' = "bmc" /\ Owes' = FALSE
    BY <1>1, <1>6 DEF Settles
  <2>2. QED
    BY <2>1 DEF Cust!Next, Cust!Settle
<1>7. QED
  BY <1>2, <1>3, <1>4, <1>5, <1>6

\* A daemon that starts owes nothing.
LEMMA CustodyStart == Init => Cust!Init
<1>1. Init => ~Owes
  BY DEF Init, Owes
<1>2. Owes \in BOOLEAN
  BY DEF Owes
<1>3. Init => Owes = FALSE
  BY <1>1, <1>2
<1>4. QED
  BY <1>3 DEF Cust!Init

\* The steps that issue no command: a debt may arise, and is settled by none
\* but a commit that decided for the BMC, which has the fans by then.
LEMMA SilentSteps ==
    ASSUME TypeOK, CustodyInv,
           StartStep \/ ReadAny \/ ReadFails \/ FansAny \/ Record \/ Commit \/ Shutdown
             \/ ReloadAny \/ Terminate \/ CalmDown \/ UNCHANGED vars
    PROVE  Stutters \/ Alarms \/ Settles
<1> USE DEF Stutters, Alarms, Owes
<1>1. CASE StartStep
  BY <1>1 DEF StartStep, world
<1>2. CASE ReadAny
  BY <1>2 DEF ReadAny, Read, world, flags
<1>3. CASE ReadFails
  BY <1>3 DEF ReadFails, world, flags
<1>4. CASE FansAny
  <2>1. PICK r \in {"none", "flat", "moved"} : Fans(r)
    BY <1>4 DEF FansAny
  <2>2. /\ pc = "fans" /\ UNCHANGED <<bmc, next, opts, term>>
        /\ opts.dryRun \/ pc' \in {"setManual", "setAuto", "commit"}
    BY <2>1 DEF Fans, FirstCommand, world, flags
  <2>3. QED
    BY <2>2
<1>5. CASE Record
  BY <1>5 DEF Record, world, flags
<1>6. CASE Commit
  <2>1. pc = "commit" /\ pc' = "select" /\ UNCHANGED <<bmc, opts, term>>
    BY <1>6 DEF Commit, world, flags
  <2>2. next.auto /\ ~opts.dryRun => bmc.auto
    BY <2>1 DEF CustodyInv, BeliefFollows, Held
  <2>3. QED
    BY <2>1, <2>2 DEF Settles
<1>7. CASE Shutdown
  BY <1>7 DEF Shutdown, world, flags
<1>8. CASE ReloadAny
  BY <1>8 DEF ReloadAny, Reload, loopVars, world
<1>9. CASE Terminate
  BY <1>9 DEF Terminate, loopVars, world
<1>10. CASE CalmDown
  BY <1>10 DEF CalmDown, loopVars, world
<1>11. CASE UNCHANGED vars
  BY <1>11 DEF vars, loopVars, world, flags
<1>12. QED
  BY <1>1, <1>2, <1>3, <1>4, <1>5, <1>6, <1>7, <1>8, <1>9, <1>10, <1>11

\* applyState's commands: fans are taken only by a step that owes nothing.
LEMMA ApplyingSteps ==
    ASSUME QuietFallback, TypeOK, StepInv, CustodyInv, SetManual \/ SetPercent \/ SetAuto
    PROVE  Stutters \/ Returns \/ Takes \/ Alarms
<1>1. bmc \in BmcStates(0..100) /\ next.pct \in 0..100
  BY DEF TypeOK, CommandStates
<1>2. CASE SetManual
  <2>1. pc = "setManual" /\ ~opts.dryRun
    BY <1>2 DEF SetManual, Apply, StepInv, DryRunIdle, Applying
  <2>2. ~Owes
    BY <2>1 DEF Owes, CustodyInv, BeliefFollows
  <2>3. PICK o \in Outcomes("apply") :
          /\ Issue(SetManualCmd, o) /\ UNCHANGED <<opts, next, term>>
          /\ pc' = IF o = "ok" THEN "setPercent" ELSE "fallback"
    BY <1>2 DEF SetManual, Apply, flags
  <2>4. CASE o \in {"ok", "done"}
    <3>1. ~bmc'.auto
      BY <1>1, <2>3, <2>4, ExecuteEffect DEF Issue, BmcStates
    <3>2. QED
      BY <2>2, <3>1 DEF Takes
  <2>5. CASE o \notin {"ok", "done"}
    BY <2>1, <2>2, <2>3, <2>5 DEF Issue, Alarms, Owes
  <2>6. QED
    BY <2>4, <2>5
<1>3. CASE SetPercent
  <2>1. pc = "setPercent" /\ ~opts.dryRun
    BY <1>3 DEF SetPercent, Apply, StepInv, DryRunIdle, Applying
  <2>2. ~next.auto
    BY <2>1 DEF CustodyInv, BeliefFollows
  <2>3. PICK o \in Outcomes("apply") :
          /\ Issue(SetPercentCmd(next.pct), o) /\ UNCHANGED <<opts, next, term>>
          /\ pc' = IF o = "ok" THEN "record" ELSE "fallback"
    BY <1>3 DEF SetPercent, Apply, flags
  <2>4. bmc'.auto = bmc.auto
    BY <1>1, <2>3, ExecuteEffect DEF Issue
  <2>5. QED
    BY <2>1, <2>2, <2>3, <2>4 DEF Stutters, Alarms, Owes
<1>4. CASE SetAuto
  <2>1. pc = "setAuto" /\ next.auto \in BOOLEAN
    BY <1>4 DEF SetAuto, Apply, TypeOK, CommandStates
  <2>2. PICK o \in Outcomes("apply") :
          /\ Issue(SetAutoCmd, o) /\ UNCHANGED <<opts, next, term>>
          /\ pc' = IF o = "ok" THEN "record" ELSE "fallback"
    BY <1>4 DEF SetAuto, Apply, flags
  <2>3. bmc'.auto \/ bmc' = bmc
    BY <1>1, <2>2, ExecuteEffect DEF Issue, BmcStates
  <2>4. next.auto \/ opts.dryRun => (Owes' <=> Owes)
    BY <2>1, <2>2 DEF Owes
  <2>5. opts.dryRun \/ next.auto
    BY <2>1 DEF CustodyInv, BeliefFollows
  <2>6. QED
    BY <2>3, <2>4, <2>5 DEF Stutters, Returns
<1>5. QED
  BY <1>2, <1>3, <1>4

\* The two that settle what is owed, and the two that the loop has no part in.
LEMMA ReturningSteps ==
    ASSUME QuietFallback, QuietHandBack, TypeOK, CustodyInv,
           Fallback \/ HandBack \/ LateLands \/ BmcReset
    PROVE  Stutters \/ Returns \/ Settles
<1>1. bmc \in BmcStates(0..100) /\ late = {}
  BY DEF TypeOK, CustodyInv
<1>2. Execute(bmc, SetAutoCmd).auto
  BY <1>1, ExecuteEffect DEF BmcStates
<1>3. CASE Fallback
  <2>1. pc = "fallback" /\ pc' = "select" /\ UNCHANGED <<opts, term>>
    BY <1>3 DEF Fallback, flags
  <2>2. CASE opts.dryRun
    BY <1>3, <2>1, <2>2 DEF Fallback, world, Stutters, Owes
  <2>3. CASE ~opts.dryRun
    <3>1. PICK o \in Outcomes("fallback") : Issue(SetAutoCmd, o)
      BY <1>3, <2>3 DEF Fallback
    <3>2. bmc'.auto \/ bmc' = bmc
      BY <1>2, <3>1 DEF Issue
    <3>3. ~term => bmc'.auto
      BY <1>2, <3>1, NothingLate DEF Issue
    <3>4. QED
      BY <2>1, <2>3, <3>2, <3>3 DEF Stutters, Returns, Settles, Owes
  <2>4. QED
    BY <2>2, <2>3
<1>4. CASE HandBack
  <2>1. pc = "handback" /\ pc' = "exited" /\ UNCHANGED <<opts, term>>
    BY <1>4 DEF HandBack, flags
  <2>2. CASE opts.dryRun
    BY <1>4, <2>1, <2>2 DEF HandBack, world, Stutters, Owes
  <2>3. CASE ~opts.dryRun
    <3>1. PICK o \in HandBackOutcomes : Issue(SetAutoCmd, o)
      BY <1>4, <2>3 DEF HandBack
    <3>2. o = "ok"
      BY <3>1 DEF HandBackOutcomes, Faulty, QuietHandBack
    <3>3. bmc'.auto
      BY <1>2, <3>1, <3>2 DEF Issue
    <3>4. QED
      BY <2>1, <3>3 DEF Returns, Settles, Owes
  <2>4. QED
    BY <2>2, <2>3
<1>5. CASE LateLands
  BY <1>1, <1>5 DEF LateLands
<1>6. CASE BmcReset
  <2>1. bmc'.auto /\ UNCHANGED <<pc, next, opts, term>>
    BY <1>2, <1>6 DEF BmcReset, loopVars, flags
  <2>2. QED
    BY <2>1 DEF Returns, Owes
<1>7. QED
  BY <1>3, <1>4, <1>5, <1>6

\* The loop keeps the promise: with the fallback's and the last hand-back's own
\* commands working, what fanctl owes is settled only by the BMC having the
\* fans, and it takes them only when it owes nothing, whatever else fails.
THEOREM KeepsCustody ==
    ASSUME QuietFallback, QuietHandBack PROVE Spec => ImplementsCustody
<1>1. Init => TypeOK /\ StepInv /\ CustodyInv
  BY TypeInit, StepInit, CustodyInit
<1>2. TypeOK /\ StepInv /\ CustodyInv /\ [Next]_vars
        => TypeOK' /\ StepInv' /\ CustodyInv'
  BY InStepType, AroundType, StepNext, CustodyNext
<1>3. TypeOK /\ StepInv /\ CustodyInv /\ [Next]_vars => [Cust!Next]_(Cust!vars)
  BY SilentSteps, ApplyingSteps, ReturningSteps, KindsOfStep DEF Next, InStep
<1>4. Init => Cust!Init
  BY CustodyStart
<1>5. Spec => Cust!Spec
  BY <1>1, <1>2, <1>3, <1>4, PTL DEF Spec, Cust!Spec
<1>6. QED
  BY <1>5 DEF ImplementsCustody

-----------------------------------------------------------------------------
(* The exit.  A fallback may fail here: the hand-back makes up for it.        *)

NothingIsLate == "late" \notin Faults

ExitInv == late = {} /\ ExitedHandedBack

LEMMA OutcomesNotLate ==
    ASSUME NothingIsLate
    PROVE  (\A site : "late" \notin Outcomes(site)) /\ "late" \notin HandBackOutcomes
BY DEF NothingIsLate, LateOutcome, Faulty, Outcomes, HandBackOutcomes

LEMMA ExitNext ==
    ASSUME NothingIsLate, QuietHandBack, TypeOK, ExitInv, [Next]_vars PROVE ExitInv'
<1> USE DEF ExitInv, ExitedHandedBack
<1>1. bmc \in BmcStates(0..100) /\ late = {}
  BY DEF TypeOK
<1>2. Execute(bmc, SetAutoCmd).auto
  BY <1>1, ExecuteEffect DEF BmcStates
<1>3. ASSUME NEW at, NEW cmd, NEW then, then # "exited", Apply(at, cmd, then) PROVE ExitInv'
  <2>1. PICK o \in Outcomes("apply") :
          Issue(cmd, o) /\ pc' = IF o = "ok" THEN then ELSE "fallback"
    BY <1>3 DEF Apply
  <2>2. late' = {}
    BY <1>1, <2>1, OutcomesNotLate DEF Issue
  <2>3. pc' # "exited"
    BY <1>3, <2>1
  <2>4. QED
    BY <2>2, <2>3
<1>4. CASE SetManual \/ SetPercent \/ SetAuto
  BY <1>3, <1>4 DEF SetManual, SetPercent, SetAuto
<1>5. CASE Fallback
  <2>1. pc' = "select"
    BY <1>5 DEF Fallback
  <2>2. late' = {}
    BY <1>1, <1>5, OutcomesNotLate DEF Fallback, Issue, world
  <2>3. QED
    BY <2>1, <2>2
<1>6. CASE HandBack
  <2>1. opts' = opts
    BY <1>6 DEF HandBack, flags
  <2>2. CASE opts.dryRun
    BY <1>6, <2>1, <2>2 DEF HandBack, world
  <2>3. CASE ~opts.dryRun
    <3>1. PICK o \in HandBackOutcomes : Issue(SetAutoCmd, o)
      BY <1>6, <2>3 DEF HandBack
    <3>2. o = "ok"
      BY <3>1 DEF HandBackOutcomes, Faulty, QuietHandBack
    <3>3. bmc'.auto /\ late' = {}
      BY <1>1, <1>2, <3>1, <3>2 DEF Issue
    <3>4. QED
      BY <3>3
  <2>4. QED
    BY <2>2, <2>3
<1>7. CASE FansAny
  <2>1. PICK r \in {"none", "flat", "moved"} : Fans(r)
    BY <1>7 DEF FansAny
  <2>2. pc' # "exited" /\ late' = late
    BY <2>1 DEF Fans, FirstCommand, world
  <2>3. QED
    BY <2>2
<1>8. CASE StartStep \/ ReadAny \/ ReadFails \/ Record \/ Commit \/ Shutdown
  BY <1>8 DEF StartStep, ReadAny, Read, ReadFails, Record, Commit, Shutdown, world
<1>9. CASE ReloadAny \/ Terminate \/ CalmDown \/ UNCHANGED vars
  BY <1>9 DEF ReloadAny, Reload, Terminate, CalmDown, vars, loopVars, world, flags
<1>10. CASE LateLands
  BY <1>1, <1>10 DEF LateLands
<1>11. CASE BmcReset
  BY <1>2, <1>11 DEF BmcReset, loopVars, flags
<1>12. QED
  BY <1>4, <1>5, <1>6, <1>7, <1>8, <1>9, <1>10, <1>11 DEF Next, InStep

\* What ShutdownHandsBack says of the state after the exit, for all configurations
\* and with failing reads, commands and fallbacks: the fans are handed back if the
\* hand-back's own command works and no command takes effect after its deadline.
THEOREM ExitsHandBack ==
    ASSUME NothingIsLate, QuietHandBack PROVE Spec => []ExitedHandedBack
<1>1. Init => TypeOK /\ ExitInv
  BY TypeInit DEF Init, ExitInv, ExitedHandedBack
<1>2. TypeOK /\ ExitInv /\ [Next]_vars => TypeOK' /\ ExitInv'
  BY InStepType, AroundType, ExitNext
<1>3. ExitInv => ExitedHandedBack
  BY DEF ExitInv
<1>4. QED
  BY <1>1, <1>2, <1>3, PTL DEF Spec
=============================================================================
