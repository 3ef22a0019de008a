------------------------------ MODULE ToolsProofs ------------------------------
(* That sweep restores, measures what it commands and stops at its limits, for  *)
(* every list of steps, measurement, limit and, but for the first, every fault. *)
EXTENDS Tools, PolicyProofs

Duties == 0..100

-----------------------------------------------------------------------------
(* Commands.                                                                 *)

\* The three commands keep the BMC a BMC; only a duty changes the duty.
LEMMA ExecuteFacts ==
    ASSUME NEW b \in BmcStates(Duties)
    PROVE  /\ \A cmd \in Commands(Duties) : Execute(b, cmd) \in BmcStates(Duties)
           /\ SetManualCmd \in Commands(Duties) /\ SetAutoCmd \in Commands(Duties)
           /\ \A p \in Duties : SetPercentCmd(p) \in Commands(Duties)
           /\ Execute(b, SetManualCmd).auto = FALSE
           /\ Execute(b, SetManualCmd).duty = b.duty
           /\ Execute(b, SetAutoCmd).auto = TRUE
           /\ Execute(b, SetAutoCmd).duty = b.duty
           /\ \A p \in Duties : Execute(b, SetPercentCmd(p)).auto = b.auto
           /\ \A p \in Duties : ~b.auto => Execute(b, SetPercentCmd(p)).duty = p
<1>1. b.auto \in BOOLEAN /\ b.duty \in Duties
  BY DEF BmcStates
<1>2. \A cmd \in Commands(Duties) : cmd.pct \in Duties
  BY DEF Commands, SetManualCmd, SetAutoCmd, SetPercentCmd, Duties
<1>3. \A cmd \in Commands(Duties) : Execute(b, cmd) \in BmcStates(Duties)
  BY <1>1, <1>2 DEF Execute, BmcStates
<1>4. /\ SetManualCmd \in Commands(Duties) /\ SetAutoCmd \in Commands(Duties)
      /\ \A p \in Duties : SetPercentCmd(p) \in Commands(Duties)
  BY DEF Commands
<1>5. /\ Execute(b, SetManualCmd).auto = FALSE
      /\ Execute(b, SetManualCmd).duty = b.duty
  BY DEF Execute, SetManualCmd, BmcStates
<1>6. /\ Execute(b, SetAutoCmd).auto = TRUE
      /\ Execute(b, SetAutoCmd).duty = b.duty
  BY DEF Execute, SetAutoCmd, BmcStates
<1>7. \A p \in Duties :
        /\ Execute(b, SetPercentCmd(p)).auto = b.auto
        /\ ~b.auto => Execute(b, SetPercentCmd(p)).duty = p
  BY DEF Execute, SetPercentCmd, BmcStates
<1>8. QED
  BY <1>3, <1>4, <1>5, <1>6, <1>7

\* A BMC under manual control is its duty.
LEMMA ManualBmc ==
    ASSUME NEW b \in BmcStates(Duties), ~b.auto
    PROVE  b = [auto |-> FALSE, duty |-> b.duty]
  BY DEF BmcStates

WorldTyped == bmc \in BmcStates(Duties) /\ late \subseteq Commands(Duties)

\* Whatever way a command returns, the BMC and what is late keep their types.
LEMMA IssueTyped ==
    ASSUME WorldTyped, NEW cmd \in Commands(Duties), NEW o, Issue(cmd, o)
    PROVE  WorldTyped'
<1>1. Execute(bmc, cmd) \in BmcStates(Duties)
  BY ExecuteFacts DEF WorldTyped
<1>2. bmc' \in BmcStates(Duties)
  BY <1>1 DEF Issue, WorldTyped
<1>3. late' \subseteq Commands(Duties)
  BY DEF Issue, WorldTyped
<1>4. QED
  BY <1>2, <1>3 DEF WorldTyped

-----------------------------------------------------------------------------
(* Types.                                                                    *)

ToolTyped ==
    /\ opts \in Options
    /\ steps \in Seq(Int) /\ todo \in Seq(Int)
    /\ pc \in PCs
    /\ samples \in Seq(Samples)
    /\ cancelled \in BOOLEAN /\ daemon \in BOOLEAN /\ disturbed \in BOOLEAN
    /\ code \in {NoCode, 0, 1, 2}

\* A command or a measurement that is due has a duty.
Due == pc \in {"setManual", "setPercent", "settle", "measure"} => todo # <<>>
\* And so has what comes before; probe always has its one duty.
DueAhead ==
    /\ pc = "baseline" => todo # <<>>
    /\ opts.tool = "probe" => steps # <<>>

TypeInv == ToolTyped /\ WorldTyped /\ Due /\ DueAhead

LEMMA TypeInvOK == TypeInv => TypeOK
  BY DEF TypeInv, ToolTyped, WorldTyped, Due, TypeOK, Duties

LEMMA LeaveTyped ==
    ASSUME NEW c \in {0, 1}, Leave(c)
    PROVE  /\ pc' \in {"restore", "exited"}
           /\ code' \in {NoCode, 0, 1, 2}
  BY DEF Leave

LEMMA SampleTyped ==
    ASSUME opts \in Options, NEW d \in Int, NEW m \in Measurements
    PROVE  /\ Sample(d, m) \in Samples
           /\ Sample(d, m).duty = d
           /\ Sample(d, m).aborted = FALSE
           /\ \A b \in BOOLEAN : [Sample(d, m) EXCEPT !.aborted = b] \in Samples
  BY MeasurementsAssumption DEF Sample, Samples, NoGpu

LEMMA TypeInit == Init => TypeInv
<1>1. SUFFICES ASSUME Init PROVE TypeInv
  OBVIOUS
<1>2. steps \in Seq(Int)
  <2>1. CASE opts.tool = "sweep"
    BY <1>1, <2>1, StepsAssumption DEF Init
  <2>2. CASE opts.tool # "sweep"
    <3>1. PICK d \in ProbeDuties : steps = <<d>>
      BY <1>1, <2>2 DEF Init
    <3>2. d \in Int
      BY StepsAssumption
    <3>3. QED
      BY <3>1, <3>2
  <2>3. QED
    BY <2>1, <2>2
<1>3. ToolTyped
  <2>1. todo \in Seq(Int) /\ samples \in Seq(Samples)
    BY <1>1 DEF Init
  <2>2. pc \in PCs /\ code \in {NoCode, 0, 1, 2}
    BY <1>1 DEF Init, PCs
  <2>3. /\ opts \in Options
        /\ cancelled \in BOOLEAN /\ daemon \in BOOLEAN /\ disturbed \in BOOLEAN
    BY <1>1 DEF Init
  <2>4. QED
    BY <1>2, <2>1, <2>2, <2>3 DEF ToolTyped
<1>4. WorldTyped
  BY <1>1 DEF Init, WorldTyped, BmcStates, Duties
<1>5. Due /\ DueAhead
  <2>1. ASSUME opts.tool = "probe" PROVE steps # <<>>
    <3>1. PICK d \in ProbeDuties : steps = <<d>>
      BY <1>1, <2>1 DEF Init
    <3>2. QED
      BY <3>1
  <2>2. QED
    BY <1>1, <2>1 DEF Init, Due, DueAhead
<1>6. QED
  BY <1>3, <1>4, <1>5 DEF TypeInv

LEMMA LimitHitTyped == \A s \in Samples : LimitHit(s) \in BOOLEAN
  BY DEF LimitHit

LEMMA TypeNext == ASSUME TypeInv, [Next]_vars PROVE TypeInv'
<1> USE DEF TypeInv
<1>1. CASE SetManual
  <2>1. PICK o \in Outcomes : Issue(SetManualCmd, o) /\ Proceed(o, "setPercent")
                              /\ disturbed' = (disturbed /\ o # "ok")
    BY <1>1 DEF SetManual
  <2>2. WorldTyped'
    BY <2>1, ExecuteFacts, IssueTyped DEF WorldTyped
  <2>3. pc' \in {"setPercent", "restore", "exited"} /\ code' \in {NoCode, 0, 1, 2}
    BY <2>1, LeaveTyped DEF Proceed, ToolTyped
  <2>4. ToolTyped' /\ Due' /\ DueAhead'
    BY <1>1, <2>1, <2>3 DEF SetManual, ToolTyped, Due, DueAhead, PCs
  <2>5. QED
    BY <2>2, <2>4
<1>2. CASE SetPercent
  <2>1. /\ WorldTyped'
        /\ pc' \in {"settle", "restore", "exited"} /\ code' \in {NoCode, 0, 1, 2}
    <3>1. CASE Head(todo) \in 0..100
      <4>1. PICK o \in Outcomes :
              Issue(SetPercentCmd(Head(todo)), o) /\ Proceed(o, "settle")
        BY <1>2, <3>1 DEF SetPercent
      <4>2. SetPercentCmd(Head(todo)) \in Commands(Duties)
        BY <3>1, ExecuteFacts DEF WorldTyped, Duties
      <4>3. WorldTyped'
        BY <4>1, <4>2, IssueTyped
      <4>4. QED
        BY <4>1, <4>3, LeaveTyped DEF Proceed, ToolTyped
    <3>2. CASE Head(todo) \notin 0..100
      BY <1>2, <3>2, LeaveTyped DEF SetPercent, world, WorldTyped
    <3>3. QED
      BY <3>1, <3>2
  <2>2. ToolTyped' /\ Due' /\ DueAhead'
    BY <1>2, <2>1 DEF SetPercent, ToolTyped, Due, DueAhead, PCs
  <2>3. QED
    BY <2>1, <2>2
<1>3. CASE Settle
  <2>1. pc' \in {"measure", "restore", "exited"} /\ code' \in {NoCode, 0, 1, 2}
    BY <1>3, LeaveTyped DEF Settle, ToolTyped
  <2>2. QED
    BY <1>3, <2>1 DEF Settle, ToolTyped, WorldTyped, Due, DueAhead, PCs, world
<1>4. CASE Restore
  <2>1. PICK o \in RestoreOutcomes : Issue(SetAutoCmd, o)
                                     /\ disturbed' = (disturbed /\ o # "ok")
    BY <1>4 DEF Restore
  <2>2. WorldTyped'
    BY <2>1, ExecuteFacts, IssueTyped DEF WorldTyped
  <2>3. ToolTyped' /\ Due' /\ DueAhead'
    BY <1>4, <2>1 DEF Restore, ToolTyped, Due, DueAhead, PCs
  <2>4. QED
    BY <2>2, <2>3
<1>5. CASE ReadFails
  <2>1. pc' \in {"restore", "exited"} /\ code' \in {NoCode, 0, 1, 2}
    BY <1>5, LeaveTyped DEF ReadFails
  <2>2. QED
    BY <1>5, <2>1 DEF ReadFails, ToolTyped, WorldTyped, Due, DueAhead, PCs, world
<1>6. ASSUME NEW m \in Measurements, SweepBaseline(m) PROVE TypeInv'
  <2>1. Sample(Baseline, m) \in Samples
    <3>1. Baseline \in Int
      BY DEF Baseline
    <3>2. QED
      BY <3>1, SampleTyped DEF ToolTyped
  <2>2. samples' \in Seq(Samples)
    BY <1>6, <2>1 DEF SweepBaseline
  <2>3. QED
    BY <1>6, <2>2 DEF SweepBaseline, ToolTyped, WorldTyped, Due, DueAhead, PCs, world
<1>7. ASSUME NEW m \in Measurements, SweepMeasure(m) PROVE TypeInv'
  <2> DEFINE s == Sample(Head(todo), m)
  <2>1. todo # <<>> /\ Head(todo) \in Int /\ Tail(todo) \in Seq(Int)
    BY <1>7 DEF SweepMeasure, Due, ToolTyped
  <2>2. s \in Samples /\ \A b \in BOOLEAN : [s EXCEPT !.aborted = b] \in Samples
    BY <2>1, SampleTyped DEF ToolTyped
  <2> HIDE DEF s
  <2>3. samples' = Append(samples, [s EXCEPT !.aborted = LimitHit(s)])
    BY <1>7 DEF SweepMeasure, s
  <2>4. samples' \in Seq(Samples)
    BY <2>2, <2>3, LimitHitTyped DEF ToolTyped
  <2>5. /\ pc' \in {"setPercent", "restore", "exited"} /\ code' \in {NoCode, 0, 1, 2}
        /\ pc' = "setPercent" => todo' # <<>>
    BY <1>7, LeaveTyped DEF SweepMeasure, ToolTyped
  <2>6. ToolTyped' /\ Due' /\ DueAhead'
    BY <1>7, <2>1, <2>4, <2>5 DEF SweepMeasure, ToolTyped, Due, DueAhead, PCs
  <2>7. WorldTyped'
    BY <1>7 DEF SweepMeasure, WorldTyped, world
  <2>8. QED
    BY <2>6, <2>7
<1>8. ASSUME NEW m \in Measurements, ProbeBaseline(m) PROVE TypeInv'
  <2>1. Sample(Baseline, m) \in Samples
    <3>1. Baseline \in Int
      BY DEF Baseline
    <3>2. QED
      BY <3>1, SampleTyped DEF ToolTyped
  <2>2. samples' \in Seq(Samples)
    BY <1>8, <2>1 DEF ProbeBaseline
  <2>3. pc' \in {"setManual", "restore", "exited"} /\ code' \in {NoCode, 0, 1, 2}
    BY <1>8, LeaveTyped DEF ProbeBaseline, ToolTyped
  <2>4. QED
    BY <1>8, <2>2, <2>3 DEF ProbeBaseline, ToolTyped, WorldTyped, Due, DueAhead, PCs, world
<1>9. ASSUME NEW m \in Measurements, ProbeMeasure(m) PROVE TypeInv'
  <2>1. todo # <<>> /\ Head(todo) \in Int /\ Tail(todo) \in Seq(Int)
    BY <1>9 DEF ProbeMeasure, Due, ToolTyped
  <2>2. samples' \in Seq(Samples)
    <3>1. Sample(Head(todo), m) \in Samples
      BY <2>1, SampleTyped DEF ToolTyped
    <3>2. QED
      BY <1>9, <3>1 DEF ProbeMeasure, ToolTyped
  <2>3. code' \in {NoCode, 0, 1, 2}
    BY <1>9 DEF ProbeMeasure, Verdict
  <2>4. QED
    BY <1>9, <2>1, <2>2, <2>3
       DEF ProbeMeasure, ToolTyped, WorldTyped, Due, DueAhead, PCs, world
<1>10. ASSUME NEW force, NEW seen, NEW cfgOk, StartSweep(force, seen, cfgOk) PROVE TypeInv'
  BY <1>10 DEF StartSweep, ValidSteps, ToolTyped, WorldTyped, Due, DueAhead, PCs, world
<1>11. CASE StartProbe
    BY <1>11 DEF StartProbe, ToolTyped, WorldTyped, Due, DueAhead, PCs, world
<1>12. CASE InterruptSweep
  BY <1>12 DEF InterruptSweep, ToolTyped, WorldTyped, Due, DueAhead, world
<1>13. CASE InterruptProbe
  <2>1. WorldTyped'
    <3>1. CASE UNCHANGED world
      BY <3>1 DEF world, WorldTyped
    <3>2. CASE ~UNCHANGED world
      <4>1. PICK cmd \in InFlight, o \in {"done"} \cup LateOutcome : Issue(cmd, o)
        BY <1>13, <3>2 DEF InterruptProbe
      <4>2. cmd \in Commands(Duties)
        <5>1. /\ SetManualCmd \in Commands(Duties) /\ SetAutoCmd \in Commands(Duties)
              /\ \A p \in Duties : SetPercentCmd(p) \in Commands(Duties)
          BY ExecuteFacts DEF WorldTyped
        <5>2. \/ cmd \in {SetManualCmd, SetAutoCmd}
              \/ Head(todo) \in 0..100 /\ cmd = SetPercentCmd(Head(todo))
          BY <4>1 DEF InFlight
        <5>3. QED
          BY <5>1, <5>2 DEF Duties
      <4>3. QED
        BY <4>1, <4>2, IssueTyped
    <3>3. QED
      BY <3>1, <3>2
  <2>2. QED
    BY <1>13, <2>1 DEF InterruptProbe, ToolTyped, Due, DueAhead, PCs
<1>14. CASE LateLands
  <2>1. WorldTyped'
    <3>1. PICK cmd \in late : bmc' = Execute(bmc, cmd) /\ late' = late \ {cmd}
      BY <1>14 DEF LateLands
    <3>2. bmc' \in BmcStates(Duties)
      BY <3>1, ExecuteFacts DEF WorldTyped
    <3>3. QED
      BY <3>1, <3>2 DEF WorldTyped
  <2>2. QED
    BY <1>14, <2>1 DEF LateLands, ToolTyped, Due, DueAhead
<1>15. CASE DaemonStarts
  BY <1>15 DEF DaemonStarts, ToolTyped, WorldTyped, Due, DueAhead, world
<1>16. ASSUME NEW cmd \in Commands({DaemonDuty}), OthersWrite(cmd) PROVE TypeInv'
  <2>1. cmd \in Commands(Duties)
    BY DaemonAssumption DEF Commands, Duties
  <2>2. WorldTyped'
    BY <1>16, <2>1, ExecuteFacts DEF OthersWrite, WorldTyped
  <2>3. QED
    BY <1>16, <2>2 DEF OthersWrite, ToolTyped, Due, DueAhead
<1>17. CASE UNCHANGED vars
  BY <1>17 DEF vars, world, ToolTyped, WorldTyped, Due, DueAhead
<1>18. QED
  BY <1>1, <1>2, <1>3, <1>4, <1>5, <1>6, <1>7, <1>8, <1>9, <1>10, <1>11, <1>12, <1>13,
     <1>14, <1>15, <1>16, <1>17
     DEF Next, Work, SweepMeasureAny, ProbeMeasureAny, StartSweepAny, OthersWriteAny

\* The tools keep their types, and never come to a command without a duty.
THEOREM ToolsTyped == Spec => []TypeOK
<1>1. TypeInv /\ [Next]_vars => TypeInv'
  BY TypeNext
<1>2. QED
  BY <1>1, TypeInit, TypeInvOK, PTL DEF Spec

-----------------------------------------------------------------------------
(* The restore.                                                              *)

\* No fault of the restore's own command.
QuietRestore == "handback" \notin Faults

\* Every return after the start goes through the restore, if it is wanted.
LEMMA RestoreNext ==
    ASSUME QuietRestore, TypeInv, SweepRestores, [Next]_vars
    PROVE  SweepRestores'
<1>1. CASE Restore
  <2>1. PICK o \in RestoreOutcomes : Issue(SetAutoCmd, o)
    BY <1>1 DEF Restore
  <2>2. o = "ok"
    BY <2>1 DEF RestoreOutcomes, QuietRestore
  <2>3. bmc'.auto
    BY <2>1, <2>2, ExecuteFacts DEF Issue, TypeInv, WorldTyped
  <2>4. QED
    BY <2>3 DEF SweepRestores
<1>2. ASSUME NEW c, Leave(c), UNCHANGED opts PROVE SweepRestores'
  BY <1>2 DEF Leave, SweepRestores
<1>3. CASE SetManual
  BY <1>2, <1>3 DEF SetManual, Proceed, SweepRestores
<1>4. CASE SetPercent
  BY <1>2, <1>4 DEF SetPercent, Proceed, SweepRestores
<1>5. CASE Settle
  BY <1>2, <1>5 DEF Settle, SweepRestores
<1>6. CASE ReadFails
  BY <1>2, <1>6 DEF ReadFails, SweepRestores
<1>7. CASE SweepMeasureAny
  <2>1. PICK m \in Measurements : SweepBaseline(m) \/ SweepMeasure(m)
    BY <1>7 DEF SweepMeasureAny
  <2>2. CASE SweepBaseline(m)
    BY <2>2 DEF SweepBaseline, SweepRestores
  <2>3. CASE SweepMeasure(m)
    BY <1>2, <2>3 DEF SweepMeasure, SweepRestores
  <2>4. QED
    BY <2>1, <2>2, <2>3
<1>8. CASE ProbeMeasureAny
  BY <1>8 DEF ProbeMeasureAny, ProbeBaseline, ProbeMeasure, SweepRestores
<1>9. CASE StartSweepAny
  BY <1>9 DEF StartSweepAny, StartSweep, SweepRestores
<1>10. CASE StartProbe
  BY <1>10 DEF StartProbe, SweepRestores
<1>11. CASE InterruptSweep
  BY <1>11 DEF InterruptSweep, Running, SweepRestores
<1>12. CASE InterruptProbe
  BY <1>12 DEF InterruptProbe, SweepRestores
<1>13. CASE LateLands
  BY <1>13 DEF LateLands, SweepRestores
<1>14. CASE DaemonStarts
  BY <1>14 DEF DaemonStarts, SweepRestores, world
<1>15. CASE OthersWriteAny
  BY <1>15 DEF OthersWriteAny, OthersWrite, SweepRestores
<1>16. CASE UNCHANGED vars
  BY <1>16 DEF vars, world, SweepRestores
<1>17. QED
  BY <1>1, <1>3, <1>4, <1>5, <1>6, <1>7, <1>8, <1>9, <1>10, <1>11, <1>12, <1>13, <1>14,
     <1>15, <1>16 DEF Next, Work

\* Unless the restore's own command fails, sweep leaves the fans to the BMC on
\* every path: a failed read or command, a limit, an interrupt, the end (the
\* deferred function of sweep).
THEOREM SweepHandsBack == ASSUME QuietRestore PROVE Spec => []SweepRestores
<1>1. Init => SweepRestores
  BY DEF Init, SweepRestores
<1>2. TypeInv /\ [Next]_vars => TypeInv'
  BY TypeNext
<1>3. TypeInv /\ SweepRestores /\ [Next]_vars => SweepRestores'
  BY RestoreNext
<1>4. QED
  BY <1>1, <1>2, <1>3, TypeInit, PTL DEF Spec

-----------------------------------------------------------------------------
(* What is measured.                                                         *)

\* Undisturbed, the tool has manual control from SetManual on, and its duty
\* from SetPercent on.
Held ==
    ~disturbed => /\ pc \in {"setPercent", "settle", "measure"} => ~bmc.auto
                  /\ pc \in {"settle", "measure"} => bmc.duty = Head(todo)

\* Nothing has been measured before the baseline.
Fresh == pc \in {"args", "baseline"} => samples = <<>>

HeldInv == TypeInv /\ Held /\ Fresh

LEMMA HeldInit == Init => Held /\ Fresh
  BY DEF Init, Held, Fresh

LEMMA HeldNext == ASSUME HeldInv, [Next]_vars PROVE Held' /\ Fresh'
<1> USE DEF HeldInv
<1>1. ASSUME NEW c, Leave(c) PROVE Held' /\ Fresh'
  BY <1>1 DEF Leave, Held, Fresh
<1>2. CASE SetManual
  <2>1. PICK o \in Outcomes : Issue(SetManualCmd, o) /\ Proceed(o, "setPercent")
    BY <1>2 DEF SetManual
  <2>2. CASE o = "ok"
    <3>1. bmc'.auto = FALSE /\ pc' = "setPercent"
      BY <2>1, <2>2, ExecuteFacts DEF Issue, Proceed, TypeInv, WorldTyped
    <3>2. QED
      BY <3>1 DEF Held, Fresh
  <2>3. CASE o # "ok"
    BY <1>1, <2>1, <2>3 DEF Proceed
  <2>4. QED
    BY <2>2, <2>3
<1>3. CASE SetPercent
  <2>1. CASE Head(todo) \in 0..100
    <3>1. PICK o \in Outcomes :
            Issue(SetPercentCmd(Head(todo)), o) /\ Proceed(o, "settle")
      BY <1>3, <2>1 DEF SetPercent
    <3>2. CASE o = "ok"
      <4>1. bmc' = Execute(bmc, SetPercentCmd(Head(todo))) /\ pc' = "settle"
        BY <3>1, <3>2 DEF Issue, Proceed
      <4>2. /\ bmc'.auto = bmc.auto
            /\ ~bmc.auto => bmc'.duty = Head(todo)
        BY <2>1, <4>1, ExecuteFacts DEF TypeInv, WorldTyped, Duties
      <4>3. pc = "setPercent" /\ todo' = todo /\ disturbed' = disturbed
        BY <1>3 DEF SetPercent
      <4>4. QED
        BY <4>1, <4>2, <4>3 DEF Held, Fresh
    <3>3. CASE o # "ok"
      BY <1>1, <3>1, <3>3 DEF Proceed
    <3>4. QED
      BY <3>2, <3>3
  <2>2. CASE Head(todo) \notin 0..100
    BY <1>1, <1>3, <2>2 DEF SetPercent
  <2>3. QED
    BY <2>1, <2>2
<1>4. CASE Settle
  <2>1. CASE cancelled
    BY <1>1, <1>4, <2>1 DEF Settle
  <2>2. CASE ~cancelled
    BY <1>4, <2>2 DEF Settle, Held, Fresh, world
  <2>3. QED
    BY <2>1, <2>2
<1>5. CASE Restore
  BY <1>5 DEF Restore, Held, Fresh
<1>6. CASE ReadFails
  BY <1>1, <1>6 DEF ReadFails
<1>7. CASE SweepMeasureAny
  <2>1. PICK m \in Measurements : SweepBaseline(m) \/ SweepMeasure(m)
    BY <1>7 DEF SweepMeasureAny
  <2>2. CASE SweepBaseline(m)
    BY <2>2 DEF SweepBaseline, Held, Fresh
  <2>3. CASE SweepMeasure(m)
    <3>1. CASE pc' = "setPercent"
      BY <2>3, <3>1 DEF SweepMeasure, Held, Fresh, world
    <3>2. CASE pc' # "setPercent"
      <4>1. \E c : Leave(c)
        BY <2>3, <3>2 DEF SweepMeasure
      <4>2. QED
        BY <1>1, <4>1
    <3>3. QED
      BY <3>1, <3>2
  <2>4. QED
    BY <2>1, <2>2, <2>3
<1>8. CASE ProbeMeasureAny
  <2>1. PICK m \in Measurements : ProbeBaseline(m) \/ ProbeMeasure(m)
    BY <1>8 DEF ProbeMeasureAny
  <2>2. CASE ProbeBaseline(m)
    BY <1>1, <2>2 DEF ProbeBaseline, Held, Fresh
  <2>3. CASE ProbeMeasure(m)
    BY <2>3 DEF ProbeMeasure, Held, Fresh
  <2>4. QED
    BY <2>1, <2>2, <2>3
<1>9. CASE StartSweepAny
  BY <1>9 DEF StartSweepAny, StartSweep, Held, Fresh
<1>10. CASE StartProbe
  BY <1>10 DEF StartProbe, Held, Fresh
<1>11. CASE InterruptSweep
  BY <1>11 DEF InterruptSweep, Held, Fresh, world
<1>12. CASE InterruptProbe
  BY <1>12 DEF InterruptProbe, Held, Fresh
<1>13. CASE LateLands
  BY <1>13 DEF LateLands, Held, Fresh
<1>14. CASE DaemonStarts
  BY <1>14 DEF DaemonStarts, Held, Fresh, world
<1>15. CASE OthersWriteAny
  BY <1>15 DEF OthersWriteAny, OthersWrite, Held, Fresh
<1>16. CASE UNCHANGED vars
  BY <1>16 DEF vars, world, Held, Fresh
<1>17. QED
  BY <1>2, <1>3, <1>4, <1>5, <1>6, <1>7, <1>8, <1>9, <1>10, <1>11, <1>12, <1>13, <1>14,
     <1>15, <1>16 DEF Next, Work

\* What one step must respect for SamplesHonest.
HonestStep ==
    (samples' # samples /\ samples # <<>> /\ ~disturbed)
        => bmc = [auto |-> FALSE, duty |-> Head(todo)]

LEMMA Measures ==
    ASSUME Fresh, [Next]_vars, samples' # samples, samples # <<>>
    PROVE  pc = "measure"
<1>1. SweepMeasureAny \/ ProbeMeasureAny
  BY DEF Next, Work, vars, SetManual, SetPercent, Settle, Restore, ReadFails,
     StartSweepAny, StartSweep, StartProbe, InterruptSweep, InterruptProbe, LateLands,
     DaemonStarts, OthersWriteAny, OthersWrite
<1>2. QED
  BY <1>1 DEF SweepMeasureAny, ProbeMeasureAny, SweepBaseline, SweepMeasure,
     ProbeBaseline, ProbeMeasure, Fresh

\* Unless somebody else writes to the BMC, every measurement that counts for a
\* duty is taken under manual control at that duty, whatever failed before.
THEOREM SamplesAreHonest == Spec => SamplesHonest
<1>1. Init => HeldInv
  BY TypeInit, HeldInit DEF HeldInv
<1>2. HeldInv /\ [Next]_vars => HeldInv'
  BY TypeNext, HeldNext DEF HeldInv
<1>3. ASSUME HeldInv, [Next]_vars PROVE HonestStep
  <2>1. SUFFICES ASSUME samples' # samples, samples # <<>>, ~disturbed
                 PROVE  bmc = [auto |-> FALSE, duty |-> Head(todo)]
    BY DEF HonestStep
  <2>2. pc = "measure"
    BY <1>3, <2>1, Measures DEF HeldInv
  <2>3. ~bmc.auto /\ bmc.duty = Head(todo) /\ bmc \in BmcStates(Duties)
    BY <1>3, <2>1, <2>2 DEF HeldInv, Held, TypeInv, WorldTyped
  <2>4. QED
    BY <2>3, ManualBmc
<1>4. HeldInv /\ [Next]_vars => [HonestStep]_vars
  BY <1>3
<1>5. Spec => [][HonestStep]_vars
  BY <1>1, <1>2, <1>4, PTL DEF Spec
<1>6. QED
  BY <1>5 DEF HonestStep, SamplesHonest

-----------------------------------------------------------------------------
(* The probe.                                                                *)

\* How a probe that has two measurements leaves the fans.
AsTold ==
    ~disturbed => IF opts.restore THEN bmc.auto
                  ELSE bmc = [auto |-> FALSE, duty |-> samples[2].duty]

\* The baseline is there once manual control is, the second measurement when the
\* restore is due; without it there is no verdict.
ProbeInv ==
    opts.tool = "probe" =>
        /\ pc \in {"args", "baseline"} => code = NoCode
        /\ pc \in {"setManual", "setPercent", "settle", "measure"} =>
                Len(samples) = 1 /\ code = NoCode
        /\ pc = "restore" => Len(samples) = 2 /\ opts.restore
        /\ pc = "exited" => /\ code = 0 => Len(samples) = 2
                            /\ Len(samples) = 2 => AsTold

LEMMA ProbeInit == Init => ProbeInv
  BY DEF Init, ProbeInv, NoCode

\* A probe that fails has at most its baseline.
LEMMA ProbeLeaves ==
    ASSUME ProbeInv, HeldInv, Leave(1), opts' = opts, Len(samples') < 2
    PROVE  ProbeInv'
BY DEF ProbeInv, Leave

LEMMA ProbeNext ==
    ASSUME QuietRestore, HeldInv, ProbeInv, [Next]_vars PROVE ProbeInv'
<1> SUFFICES ASSUME opts'.tool = "probe" PROVE ProbeInv'
  BY DEF ProbeInv
<1> USE DEF ProbeInv
<1>1. /\ samples \in Seq(Samples) /\ pc \in PCs /\ opts \in Options
      /\ bmc \in BmcStates(Duties)
      /\ pc \in {"args", "baseline"} => samples = <<>>
  BY DEF HeldInv, TypeInv, ToolTyped, WorldTyped, Fresh
<1>2. CASE SetManual
  <2>1. PICK o \in Outcomes : Proceed(o, "setPercent")
    BY <1>2 DEF SetManual
  <2>2. /\ pc = "setManual" /\ UNCHANGED <<opts, samples>>
        /\ opts.tool = "probe" /\ Len(samples) = 1 /\ code = NoCode
    BY <1>2 DEF SetManual
  <2>3. QED
    BY <2>1, <2>2, ProbeLeaves DEF Proceed
<1>3. CASE SetPercent
  <2>1. /\ pc = "setPercent" /\ UNCHANGED <<opts, samples>>
        /\ opts.tool = "probe" /\ Len(samples) = 1 /\ code = NoCode
    BY <1>3 DEF SetPercent
  <2>2. Leave(1) \/ (pc' = "settle" /\ UNCHANGED code)
    BY <1>3 DEF SetPercent, Proceed
  <2>3. QED
    BY <2>1, <2>2, ProbeLeaves
<1>4. CASE Settle
  <2>1. /\ pc = "settle" /\ UNCHANGED <<opts, samples>>
        /\ opts.tool = "probe" /\ Len(samples) = 1 /\ code = NoCode
    BY <1>4 DEF Settle
  <2>2. Leave(1) \/ (pc' = "measure" /\ UNCHANGED code)
    BY <1>4 DEF Settle
  <2>3. QED
    BY <2>1, <2>2, ProbeLeaves
<1>5. CASE Restore
  <2>1. PICK o \in RestoreOutcomes : Issue(SetAutoCmd, o)
    BY <1>5 DEF Restore
  <2>2. o = "ok"
    BY <2>1 DEF RestoreOutcomes, QuietRestore
  <2>3. bmc'.auto
    BY <1>1, <2>1, <2>2, ExecuteFacts DEF Issue
  <2>4. pc = "restore" /\ pc' = "exited" /\ UNCHANGED <<opts, samples>>
    BY <1>5 DEF Restore
  <2>5. QED
    BY <2>3, <2>4 DEF AsTold
<1>6. CASE ReadFails
  <2>1. /\ pc \in {"baseline", "measure"} /\ UNCHANGED <<opts, samples>> /\ Leave(1)
        /\ opts.tool = "probe"
    BY <1>6 DEF ReadFails
  <2>2. CASE pc = "baseline"
    <3>1. Len(samples) = 0
      BY <1>1, <2>2
    <3>2. QED
      BY <2>1, <3>1, ProbeLeaves
  <2>3. CASE pc = "measure"
    <3>1. Len(samples) = 1
      BY <2>1, <2>3
    <3>2. QED
      BY <2>1, <3>1, ProbeLeaves
  <2>4. QED
    BY <2>1, <2>2, <2>3
<1>7. CASE ProbeMeasureAny
  <2>1. PICK m \in Measurements : ProbeBaseline(m) \/ ProbeMeasure(m)
    BY <1>7 DEF ProbeMeasureAny
  <2>2. CASE ProbeBaseline(m)
    <3>1. /\ pc = "baseline" /\ UNCHANGED opts /\ Len(samples') = 1
          /\ Leave(1) \/ (pc' = "setManual" /\ UNCHANGED code)
      BY <2>2 DEF ProbeBaseline
    <3>2. QED
      BY <3>1, ProbeLeaves
  <2>3. CASE ProbeMeasure(m)
    <3>1. /\ pc = "measure" /\ UNCHANGED <<opts, bmc, disturbed>>
          /\ samples' = Append(samples, Sample(Head(todo), m))
          /\ pc' = IF opts.restore THEN "restore" ELSE "exited"
      BY <2>3 DEF ProbeMeasure, world
    <3>2. Sample(Head(todo), m).duty = Head(todo)
      BY DEF Sample
    <3>3. Len(samples') = 2 /\ samples'[2].duty = Head(todo)
      BY <1>1, <3>1, <3>2
    <3>4. ~disturbed => ~bmc.auto /\ bmc.duty = Head(todo)
      BY <3>1 DEF HeldInv, Held
    <3>5. ~disturbed => bmc = [auto |-> FALSE, duty |-> Head(todo)]
      BY <1>1, <3>4, ManualBmc
    <3>6. ~opts.restore => AsTold'
      BY <3>1, <3>3, <3>5 DEF AsTold
    <3>7. QED
      BY <3>1, <3>3, <3>6
  <2>4. QED
    BY <2>1, <2>2, <2>3
<1>8. CASE SweepMeasureAny \/ StartSweepAny \/ InterruptSweep
  BY <1>8 DEF SweepMeasureAny, SweepBaseline, SweepMeasure, StartSweepAny, StartSweep,
     InterruptSweep
<1>9. CASE StartProbe
  BY <1>9 DEF StartProbe
<1>10. CASE InterruptProbe
  BY <1>10 DEF InterruptProbe
<1>11. CASE LateLands \/ OthersWriteAny
  <2>1. disturbed' /\ UNCHANGED <<opts, pc, samples, code>>
    BY <1>11 DEF LateLands, OthersWriteAny, OthersWrite
  <2>2. QED
    BY <2>1 DEF AsTold
<1>12. CASE DaemonStarts \/ UNCHANGED vars
  BY <1>12 DEF DaemonStarts, vars, world, AsTold
<1>13. QED
  BY <1>2, <1>3, <1>4, <1>5, <1>6, <1>7, <1>8, <1>9, <1>10, <1>11, <1>12 DEF Next, Work

\* Unless the restore's own command fails, a probe with a verdict leaves the fans
\* as its flags say: to the BMC, or at the duty that the verdict is about.
THEOREM ProbeVerdictsStand == ASSUME QuietRestore PROVE Spec => []ProbeVerdictStands
<1>1. Init => HeldInv /\ ProbeInv
  BY TypeInit, HeldInit, ProbeInit DEF HeldInv
<1>2. HeldInv /\ [Next]_vars => HeldInv'
  BY TypeNext, HeldNext DEF HeldInv
<1>3. HeldInv /\ ProbeInv /\ [Next]_vars => ProbeInv'
  BY ProbeNext
<1>4. ProbeInv => ProbeVerdictStands
  BY DEF ProbeInv, ProbeVerdictStands, AsTold
<1>5. QED
  BY <1>1, <1>2, <1>3, <1>4, PTL DEF Spec

\* What a probe needs for its restore to be reached: that the second reading and
\* SetPercent do not fail, a duty out of range included.
ProbeGoesWell ==
    Faults \cap {"read", "apply"} = {} /\ ProbeDuties \subseteq 0..100

\* Then a probe on turning fans never leaves early.
ProbeOnCourse ==
    opts.tool = "probe" =>
        /\ ~cancelled
        /\ \E d \in ProbeDuties : steps = <<d>>
        /\ pc \in {"baseline", "setManual", "setPercent", "settle", "measure"} => todo = steps
        /\ pc = "exited" => Len(samples) = 2 \/ (Len(samples) = 1 /\ samples[1].avg = 0)

LEMMA CourseInit == Init => ProbeOnCourse
  BY DEF Init, ProbeOnCourse

LEMMA CourseNext ==
    ASSUME ProbeGoesWell, HeldInv, ProbeInv, ProbeOnCourse, [Next]_vars
    PROVE  ProbeOnCourse'
<1> SUFFICES ASSUME opts'.tool = "probe" PROVE ProbeOnCourse'
  BY DEF ProbeOnCourse
<1> USE DEF ProbeOnCourse
<1>1. samples \in Seq(Samples) /\ (pc = "baseline" => samples = <<>>)
  BY DEF HeldInv, TypeInv, ToolTyped, Fresh
<1>2. CASE SetManual \/ SetPercent
  <2>1. /\ pc \in {"setManual", "setPercent"} /\ UNCHANGED <<opts, steps, todo, samples, cancelled>>
        /\ opts.tool = "probe"
    BY <1>2 DEF SetManual, SetPercent
  <2>2. \A o \in Outcomes : o = "ok"
    BY <2>1 DEF Outcomes, ProbeGoesWell
  <2>3. PICK d \in ProbeDuties : todo = <<d>>
    BY <2>1
  <2>4. Head(todo) \in 0..100
    BY <2>3 DEF ProbeGoesWell
  <2>5. pc' \in {"setPercent", "settle"}
    BY <1>2, <2>2, <2>4 DEF SetManual, SetPercent, Proceed
  <2>6. QED
    BY <2>1, <2>5
<1>3. CASE Settle
  BY <1>3 DEF Settle
<1>4. CASE Restore
  <2>1. pc = "restore" /\ pc' = "exited" /\ UNCHANGED <<opts, steps, todo, samples, cancelled>>
    BY <1>4 DEF Restore
  <2>2. QED
    BY <2>1 DEF ProbeInv
<1>5. CASE ReadFails
  <2>1. opts.tool = "probe"
    BY <1>5 DEF ReadFails
  <2>2. QED
    BY <1>5, <2>1 DEF ReadFails, ProbeGoesWell
<1>6. CASE ProbeMeasureAny
  <2>1. PICK m \in Measurements : ProbeBaseline(m) \/ ProbeMeasure(m)
    BY <1>6 DEF ProbeMeasureAny
  <2>2. CASE ProbeBaseline(m)
    <3>1. /\ pc = "baseline" /\ UNCHANGED <<opts, steps, todo, cancelled>>
          /\ Len(samples') = 1 /\ samples'[1].avg = m.avg
      BY <2>2 DEF ProbeBaseline, Sample
    <3>2. IF m.avg = 0 THEN pc' \in {"restore", "exited"} ELSE pc' = "setManual"
      BY <2>2 DEF ProbeBaseline, Leave
    <3>3. QED
      BY <3>1, <3>2
  <2>3. CASE ProbeMeasure(m)
    <3>1. /\ pc = "measure" /\ UNCHANGED <<opts, steps, cancelled>>
          /\ samples' = Append(samples, Sample(Head(todo), m))
          /\ pc' \in {"restore", "exited"}
      BY <2>3 DEF ProbeMeasure
    <3>2. Len(samples') = 2
      BY <1>1, <3>1 DEF ProbeInv
    <3>3. QED
      BY <3>1, <3>2
  <2>4. QED
    BY <2>1, <2>2, <2>3
<1>7. CASE SweepMeasureAny \/ StartSweepAny \/ InterruptSweep
  BY <1>7 DEF SweepMeasureAny, SweepBaseline, SweepMeasure, StartSweepAny, StartSweep,
     InterruptSweep
<1>8. CASE StartProbe \/ InterruptProbe \/ LateLands \/ OthersWriteAny \/ DaemonStarts
  BY <1>8 DEF StartProbe, InterruptProbe, LateLands, OthersWriteAny, OthersWrite, DaemonStarts
<1>9. CASE UNCHANGED vars
  BY <1>9 DEF vars
<1>10. QED
  BY <1>2, <1>3, <1>4, <1>5, <1>6, <1>7, <1>8, <1>9 DEF Next, Work

\* The promise that -restore-auto makes (probe.go:31) holds for a probe of a duty
\* in range of which no read and no command fails; the run tools_probe shows that
\* it takes no more than one failing read to break it.
THEOREM ProbeRestoresIfAllGoesWell ==
    ASSUME QuietRestore, ProbeGoesWell PROVE Spec => []ProbeRestores
<1>1. Init => HeldInv /\ ProbeInv /\ ProbeOnCourse
  BY TypeInit, HeldInit, ProbeInit, CourseInit DEF HeldInv
<1>2. HeldInv /\ [Next]_vars => HeldInv'
  BY TypeNext, HeldNext DEF HeldInv
<1>3. HeldInv /\ ProbeInv /\ ProbeOnCourse /\ [Next]_vars => ProbeInv' /\ ProbeOnCourse'
  BY ProbeNext, CourseNext
<1>4. ProbeInv /\ ProbeOnCourse => ProbeRestores
  BY DEF ProbeInv, ProbeOnCourse, ProbeRestores, AsTold
<1>5. QED
  BY <1>1, <1>2, <1>3, <1>4, PTL DEF Spec

-----------------------------------------------------------------------------
(* The way down.                                                             *)

Within(s) ==
    /\ s.temp < MaxTemp /\ s.min >= MinRPM
    /\ opts.gpu => s.gpu < MaxGpuTemp

OnTheWay == pc \in {"baseline", "setManual", "setPercent", "settle", "measure"}

\* What is still to be visited descends, below everything measured so far, and
\* nothing measured so far was at a limit.
Descent ==
    opts.tool = "sweep" /\ OnTheWay =>
        /\ \A i \in 2..Len(todo) : todo[i] < todo[i-1]
        /\ \A i \in 2..Len(samples) : Head(todo) < samples[i].duty /\ Within(samples[i])

LEMMA DescentInit == Init => Descent
  BY DEF Init, Descent, OnTheWay

\* One more sample, and the next duty.
LEMMA DescentMeasure ==
    ASSUME HeldInv, Descent, NEW m \in Measurements, SweepMeasure(m)
    PROVE  Descent'
<1> DEFINE s == Sample(Head(todo), m)
           t == [s EXCEPT !.aborted = LimitHit(s)]
<1>1. CASE pc' # "setPercent"
  <2>1. pc' \in {"restore", "exited"}
    BY <1>1 DEF SweepMeasure, Leave
  <2>2. QED
    BY <2>1 DEF Descent, OnTheWay
<1>2. CASE pc' = "setPercent"
  <2>1. ~LimitHit(s) /\ Tail(todo) # <<>>
    BY <1>2 DEF SweepMeasure, Leave
  <2>2. todo \in Seq(Int) /\ todo # <<>> /\ samples \in Seq(Samples) /\ opts \in Options
    BY DEF HeldInv, TypeInv, ToolTyped, Due, SweepMeasure
  <2>3. todo[1] = Head(todo) /\ Head(todo) \in Int
    BY <2>2
  <2>4. t.duty = Head(todo) /\ t.temp = s.temp /\ t.min = s.min /\ t.gpu = s.gpu /\ t \in Samples
    <3>1. s \in Samples /\ s.duty = Head(todo)
      BY <2>2, <2>3, SampleTyped
    <3>2. LimitHit(s) \in BOOLEAN
      BY <3>1, LimitHitTyped
    <3> HIDE DEF s
    <3>3. QED
      BY <3>1, <3>2 DEF Samples
  <2>5. Within(t)
    <3>1. /\ s.temp = m.temp /\ s.min = m.min
          /\ s.gpu = (IF opts.gpu THEN m.gpu ELSE NoGpu)
      BY DEF Sample
    <3>2. opts.gpu => m.gpu # NoGpu
      BY DEF SweepMeasure, Measurable
    <3>3. m.temp \in Int /\ m.min \in Int /\ m.gpu \in Int
      BY MeasurementsAssumption
    <3>4. QED
      BY <2>1, <2>4, <3>1, <3>2, <3>3, LimitsAssumption DEF Within, LimitHit
  <2> HIDE DEF s, t
  <2>6. todo' = Tail(todo) /\ samples' = Append(samples, t) /\ UNCHANGED opts
    BY DEF SweepMeasure, s, t
  <2>7. /\ \A i \in 2..Len(todo) : todo[i] < todo[i-1]
        /\ \A i \in 2..Len(samples) : Head(todo) < samples[i].duty /\ Within(samples[i])
    BY DEF Descent, OnTheWay, SweepMeasure
  <2>8. /\ Len(todo') = Len(todo) - 1 /\ Len(todo) \in Nat
        /\ \A i \in 1..Len(todo') : todo'[i] = todo[i+1] /\ todo'[i] \in Int
    BY <2>2, <2>6
  <2>9. \A i \in 2..Len(todo') : todo'[i] < todo'[i-1]
    <3>1. SUFFICES ASSUME NEW i \in 2..Len(todo') PROVE todo'[i] < todo'[i-1]
      OBVIOUS
    <3>2. i + 1 \in 2..Len(todo) /\ i - 1 \in 1..Len(todo') /\ i \in 1..Len(todo')
      BY <2>8
    <3>3. todo[i+1] < todo[i]
      BY <2>7, <2>8, <3>2
    <3>4. QED
      BY <2>8, <3>2, <3>3
  <2>10. Head(todo') < Head(todo) /\ Head(todo') \in Int
    <3>1. Len(todo') >= 1
      BY <2>1, <2>2, <2>6
    <3>2. Head(todo') = todo[2] /\ 2 \in 2..Len(todo)
      BY <2>2, <2>6, <2>8, <3>1
    <3>3. todo[2] < todo[1] /\ todo[2] \in Int
      BY <2>2, <2>7, <3>2
    <3>4. QED
      BY <2>3, <3>2, <3>3
  <2>11. \A i \in 2..Len(samples') : Head(todo') < samples'[i].duty /\ Within(samples'[i])
    <3>1. SUFFICES ASSUME NEW i \in 2..Len(samples')
                   PROVE  Head(todo') < samples'[i].duty /\ Within(samples'[i])
      OBVIOUS
    <3>2. CASE i = Len(samples')
      <4>1. samples'[i] = t
        BY <2>2, <2>4, <2>6, <3>2
      <4>2. QED
        BY <2>4, <2>5, <2>10, <4>1
    <3>3. CASE i # Len(samples')
      <4>1. i \in 2..Len(samples) /\ samples'[i] = samples[i]
        BY <2>2, <2>4, <2>6, <3>3
      <4>2. samples[i].duty \in Int
        <5>1. samples[i] \in Samples
          BY <2>2, <4>1
        <5>2. QED
          BY <5>1 DEF Samples
      <4>3. Head(todo) < samples[i].duty /\ Within(samples[i])
        BY <2>7, <4>1
      <4>4. QED
        BY <2>3, <2>10, <4>1, <4>2, <4>3
    <3>4. QED
      BY <3>2, <3>3
  <2>12. QED
    BY <2>6, <2>9, <2>11 DEF Descent, Within
<1>3. QED
  BY <1>1, <1>2

LEMMA DescentNext == ASSUME HeldInv, Descent, [Next]_vars PROVE Descent'
<1>1. CASE \E m \in Measurements : SweepMeasure(m)
  BY <1>1, DescentMeasure
<1>2. CASE StartSweepAny
  <2>1. PICK force, seen, cfgOk \in BOOLEAN : StartSweep(force, seen, cfgOk)
    BY <1>2 DEF StartSweepAny
  <2>2. CASE pc' = "baseline"
    <3>1. ValidSteps(steps) /\ todo' = steps /\ samples' = samples
      BY <2>1, <2>2 DEF StartSweep
    <3>2. samples = <<>>
      BY <2>1 DEF StartSweep, HeldInv, Fresh
    <3>3. QED
      BY <3>1, <3>2 DEF Descent, ValidSteps
  <2>3. CASE pc' # "baseline"
    BY <2>1, <2>3 DEF StartSweep, Descent, OnTheWay
  <2>4. QED
    BY <2>2, <2>3
<1>3. CASE \E m \in Measurements : SweepBaseline(m)
  <2>1. PICK m \in Measurements : SweepBaseline(m)
    BY <1>3
  <2>2. Len(samples') = 1 /\ todo' = todo /\ opts' = opts /\ pc = "baseline"
    BY <2>1 DEF SweepBaseline
  <2>3. QED
    BY <2>2 DEF Descent, OnTheWay
<1>4. CASE ~OnTheWay' \/ opts'.tool # "sweep"
  BY <1>4 DEF Descent
<1>5. CASE /\ UNCHANGED <<opts, todo, samples>>
           /\ OnTheWay' => OnTheWay
  BY <1>5 DEF Descent, Within
<1>6. CASE SetManual \/ SetPercent \/ Settle \/ Restore \/ ReadFails
  BY <1>5, <1>6 DEF SetManual, SetPercent, Settle, Restore, ReadFails, Proceed, Leave, OnTheWay
<1>7. CASE InterruptSweep \/ InterruptProbe \/ LateLands \/ DaemonStarts
  BY <1>5, <1>7 DEF InterruptSweep, InterruptProbe, LateLands, DaemonStarts, OnTheWay
<1>8. CASE OthersWriteAny
  BY <1>5, <1>8 DEF OthersWriteAny, OthersWrite, OnTheWay
<1>9. CASE StartProbe \/ ProbeMeasureAny
  BY <1>4, <1>9 DEF StartProbe, ProbeMeasureAny, ProbeBaseline, ProbeMeasure
<1>10. CASE UNCHANGED vars
  BY <1>5, <1>10 DEF vars, OnTheWay
<1>11. QED
  BY <1>1, <1>2, <1>3, <1>6, <1>7, <1>8, <1>9, <1>10 DEF Next, Work, SweepMeasureAny

\* The tool moves the duty only by commanding the current one.
LEMMA DutyMoves ==
    ASSUME HeldInv, [Next]_vars, opts.tool = "sweep", bmc'.duty # bmc.duty, ~disturbed'
    PROVE  OnTheWay /\ bmc'.duty = Head(todo)
<1>1. bmc \in BmcStates(Duties) /\ bmc' # bmc
  BY DEF HeldInv, TypeInv, WorldTyped
<1>2. ~SetManual /\ ~Restore
  BY <1>1, ExecuteFacts DEF SetManual, Restore, Issue
<1>3. ~LateLands /\ ~OthersWriteAny
  BY DEF LateLands, OthersWriteAny, OthersWrite
<1>4. SetPercent
  BY <1>1, <1>2, <1>3 DEF Next, Work, Settle, ReadFails, SweepMeasureAny, SweepBaseline,
     SweepMeasure, ProbeMeasureAny, ProbeBaseline, ProbeMeasure, StartSweepAny, StartSweep,
     StartProbe, InterruptSweep, InterruptProbe, DaemonStarts, vars, world
<1>5. Head(todo) \in 0..100
  BY <1>1, <1>4 DEF SetPercent, world
<1>6. bmc' = Execute(bmc, SetPercentCmd(Head(todo)))
  BY <1>1, <1>4, <1>5 DEF SetPercent, Issue
<1>7. CASE ~bmc.auto
  BY <1>1, <1>4, <1>5, <1>6, <1>7, ExecuteFacts DEF SetPercent, OnTheWay, Duties
<1>8. CASE bmc.auto
  <2>1. bmc' = bmc
    BY <1>6, <1>8 DEF Execute, SetPercentCmd
  <2>2. QED
    BY <1>1, <2>1
<1>9. QED
  BY <1>7, <1>8

\* What one step must respect for DescendsWithinLimits.
DescendingStep ==
    (opts.tool = "sweep" /\ bmc'.duty # bmc.duty /\ ~disturbed')
        => \A i \in 2..Len(samples) :
            /\ bmc'.duty < samples[i].duty
            /\ samples[i].temp < MaxTemp
            /\ opts.gpu => samples[i].gpu < MaxGpuTemp
            /\ samples[i].min >= MinRPM

\* For every list of steps that is accepted and all limits: sweep commands only
\* duties below all those it has measured, and none after a limit was reached.
THEOREM SweepDescends == Spec => DescendsWithinLimits
<1>1. Init => HeldInv /\ Descent
  BY TypeInit, HeldInit, DescentInit DEF HeldInv
<1>2. HeldInv /\ Descent /\ [Next]_vars => HeldInv' /\ Descent'
  BY TypeNext, HeldNext, DescentNext DEF HeldInv
<1>3. HeldInv /\ Descent /\ [Next]_vars => [DescendingStep]_vars
  BY DutyMoves DEF Descent, DescendingStep, Within
<1>4. Spec => [][DescendingStep]_vars
  BY <1>1, <1>2, <1>3, PTL DEF Spec
<1>5. QED
  BY <1>4 DEF DescendingStep, DescendsWithinLimits

-----------------------------------------------------------------------------
(* Exit code 0.                                                              *)

\* The duties measured and those still to visit make up the list asked for, and
\* nothing measured on the way was at a limit.
Visited ==
    /\ samples # <<>> /\ Len(samples) + Len(todo) = Len(steps) + 1
    /\ samples[1].duty = Baseline
    /\ \A i \in 2..Len(samples) : samples[i].duty = steps[i-1] /\ ~LimitHit(samples[i])
    /\ \A i \in 1..Len(todo) : todo[i] = steps[Len(samples) - 1 + i]

\* A code is given only when the way is over, and 0 only at its end.
Trail ==
    opts.tool = "sweep" =>
        /\ pc \in {"args", "baseline"} => code = NoCode
        /\ pc = "baseline" => todo = steps
        /\ pc \in {"setManual", "setPercent", "settle", "measure"} =>
                Visited /\ code = NoCode
        /\ code = 0 => Visited /\ todo = <<>>

LEMMA TrailInit == Init => Trail
  BY DEF Init, Trail, NoCode

\* One more sample.
LEMMA TrailMeasure ==
    ASSUME HeldInv, Trail, NEW m \in Measurements, SweepMeasure(m)
    PROVE  Trail'
<1> DEFINE s == Sample(Head(todo), m)
           t == [s EXCEPT !.aborted = LimitHit(s)]
<1>1. /\ todo \in Seq(Int) /\ todo # <<>> /\ samples \in Seq(Samples) /\ steps \in Seq(Int)
      /\ opts \in Options
  BY DEF HeldInv, TypeInv, ToolTyped, Due, SweepMeasure
<1>2. Visited /\ code = NoCode /\ opts.tool = "sweep"
  BY DEF Trail, SweepMeasure
<1>3. /\ todo' = Tail(todo) /\ samples' = Append(samples, t)
      /\ UNCHANGED <<opts, steps>>
  BY DEF SweepMeasure
<1>4. Head(todo) = todo[1] /\ Head(todo) \in Int
  BY <1>1
<1>5. t \in Samples /\ t.duty = Head(todo) /\ LimitHit(t) = LimitHit(s)
  <2>1. s \in Samples /\ s.duty = Head(todo)
    BY <1>1, <1>4, SampleTyped
  <2>2. LimitHit(s) \in BOOLEAN
    BY <2>1, LimitHitTyped
  <2> HIDE DEF s
  <2>3. /\ t \in Samples /\ t.duty = Head(todo)
        /\ t.temp = s.temp /\ t.gpu = s.gpu /\ t.min = s.min
    BY <2>1, <2>2 DEF Samples
  <2>4. QED
    BY <2>3 DEF LimitHit
<1>6. CASE LimitHit(s)
  <2>1. code' = 1 /\ pc' \in {"restore", "exited"}
    BY <1>6 DEF SweepMeasure, Leave
  <2>2. QED
    BY <2>1 DEF Trail
<1>7. CASE ~LimitHit(s)
  <2>1. \/ Tail(todo) = <<>> /\ code' = 0 /\ pc' \in {"restore", "exited"}
        \/ Tail(todo) # <<>> /\ code' = code /\ pc' = "setPercent"
    BY <1>7 DEF SweepMeasure, Leave
  <2> HIDE DEF s, t
  <2>2. /\ Len(todo) \in Nat /\ Len(todo) >= 1 /\ Len(todo') = Len(todo) - 1
        /\ \A i \in 1..Len(todo') : todo'[i] = todo[i+1]
    BY <1>1, <1>3
  <2>3. /\ Len(samples) \in Nat /\ Len(samples) >= 1 /\ Len(samples') = Len(samples) + 1
        /\ \A i \in 1..Len(samples) : samples'[i] = samples[i]
        /\ samples'[Len(samples')] = t
    BY <1>1, <1>2, <1>3, <1>5 DEF Visited
  <2>4. Len(samples') + Len(todo') = Len(steps') + 1 /\ samples' # <<>>
    <3>1. Len(samples) + Len(todo) = Len(steps) + 1
      BY <1>2 DEF Visited
    <3>2. Len(steps') = Len(steps)
      BY <1>3
    <3>3. Len(samples') + Len(todo') = Len(samples) + Len(todo)
      BY <2>2, <2>3
    <3>4. Len(samples') + Len(todo') = Len(steps') + 1
      BY <3>1, <3>2, <3>3, Zenon
    <3>5. samples' # <<>>
      BY <2>3
    <3>6. QED
      BY <3>4, <3>5
  <2>5. samples'[1].duty = Baseline
    BY <1>2, <2>3 DEF Visited
  <2>6. t.duty = steps[Len(samples)]
    <3>1. todo[1] = steps[Len(samples) - 1 + 1]
      BY <1>2, <2>2 DEF Visited
    <3>2. QED
      BY <1>4, <1>5, <2>3, <3>1
  <2>7. ASSUME NEW i \in 2..Len(samples')
        PROVE  samples'[i].duty = steps'[i-1] /\ ~LimitHit(samples'[i])
    <3>1. CASE i = Len(samples')
      BY <1>3, <1>5, <1>7, <2>3, <2>6, <3>1
    <3>2. CASE i # Len(samples')
      <4>1. i \in 2..Len(samples) /\ i \in 1..Len(samples)
        BY <2>3, <3>2
      <4>2. QED
        BY <1>2, <1>3, <2>3, <4>1 DEF Visited
    <3>3. QED
      BY <3>1, <3>2
  <2>8. ASSUME NEW i \in 1..Len(todo')
        PROVE  todo'[i] = steps'[Len(samples') - 1 + i]
    <3>1. i + 1 \in 1..Len(todo)
      BY <2>2
    <3>2. todo[i+1] = steps[Len(samples) - 1 + (i + 1)]
      BY <1>2, <3>1 DEF Visited
    <3>3. QED
      BY <1>3, <2>2, <2>3, <3>2
  <2>9. Visited'
    BY <2>4, <2>5, <2>7, <2>8 DEF Visited, LimitHit
  <2>10. QED
    BY <1>2, <1>3, <2>1, <2>9 DEF Trail, NoCode
<1>8. QED
  BY <1>6, <1>7

LEMMA TrailNext == ASSUME HeldInv, Trail, [Next]_vars PROVE Trail'
<1>1. CASE \E m \in Measurements : SweepMeasure(m)
  BY <1>1, TrailMeasure
<1>2. CASE StartSweepAny
  <2>1. PICK force, seen, cfgOk \in BOOLEAN : StartSweep(force, seen, cfgOk)
    BY <1>2 DEF StartSweepAny
  <2>2. opts.tool = "sweep" /\ code = NoCode
    BY <2>1 DEF StartSweep, Trail
  <2>3. QED
    BY <2>1, <2>2 DEF StartSweep, Trail, NoCode
<1>3. CASE \E m \in Measurements : SweepBaseline(m)
  <2>1. PICK m \in Measurements : SweepBaseline(m)
    BY <1>3
  <2>2. /\ samples' = <<Sample(Baseline, m)>> /\ todo' = todo /\ UNCHANGED <<opts, steps, code>>
        /\ pc = "baseline" /\ pc' = "setManual" /\ opts.tool = "sweep"
    BY <2>1 DEF SweepBaseline
  <2>3. todo = steps /\ code = NoCode /\ steps \in Seq(Int)
    BY <2>2 DEF Trail, HeldInv, TypeInv, ToolTyped
  <2>4. Sample(Baseline, m).duty = Baseline
    BY DEF Sample
  <2>5. Len(samples') = 1 /\ samples'[1].duty = Baseline /\ samples' # <<>>
    BY <2>2, <2>4
  <2>6. Visited'
    BY <2>2, <2>3, <2>5 DEF Visited
  <2>7. QED
    BY <2>2, <2>3, <2>6 DEF Trail, NoCode
<1>4. CASE UNCHANGED <<opts, steps, todo, samples, code, pc>>
  BY <1>4 DEF Trail, Visited, LimitHit
<1>5. ASSUME UNCHANGED <<opts, steps, todo, samples>>, NEW then \in {"setPercent", "settle", "measure"},
             pc \in {"setManual", "setPercent", "settle", "measure"},
             (pc' = then /\ UNCHANGED code) \/ Leave(1)
      PROVE  Trail'
  BY <1>5 DEF Trail, Visited, LimitHit, Leave
<1>6. CASE SetManual \/ SetPercent
  BY <1>5, <1>6 DEF SetManual, SetPercent, Proceed
<1>7. CASE Settle
  BY <1>5, <1>7 DEF Settle
<1>8. CASE Restore
  <2>1. pc = "restore" /\ pc' = "exited" /\ UNCHANGED <<opts, steps, todo, samples, code>>
    BY <1>8 DEF Restore
  <2>2. QED
    BY <2>1 DEF Trail, Visited, LimitHit
<1>9. CASE ReadFails
  BY <1>9 DEF ReadFails, Leave, Trail
<1>10. CASE InterruptSweep \/ LateLands \/ DaemonStarts \/ OthersWriteAny
  BY <1>4, <1>10 DEF InterruptSweep, LateLands, DaemonStarts, OthersWriteAny, OthersWrite
<1>11. CASE InterruptProbe \/ StartProbe \/ ProbeMeasureAny
  BY <1>11 DEF InterruptProbe, StartProbe, ProbeMeasureAny, ProbeBaseline, ProbeMeasure, Trail
<1>12. CASE UNCHANGED vars
  BY <1>4, <1>12 DEF vars
<1>13. QED
  BY <1>1, <1>2, <1>3, <1>6, <1>7, <1>8, <1>9, <1>10, <1>11, <1>12
     DEF Next, Work, SweepMeasureAny

\* The list of the samples' duties is the baseline followed by the steps.
LEMMA AllVisited ==
    ASSUME steps \in Seq(Int), samples \in Seq(Samples), todo = <<>>, Visited
    PROVE  [i \in DOMAIN samples |-> samples[i].duty] = <<Baseline>> \o steps
<1> DEFINE all == <<Baseline>> \o steps
<1>1. Len(samples) = Len(steps) + 1 /\ Len(steps) \in Nat
  BY DEF Visited
<1>2. /\ all \in Seq(Int) /\ Len(all) = Len(steps) + 1 /\ all[1] = Baseline
      /\ \A i \in 2..Len(all) : all[i] = steps[i-1]
  BY DEF Baseline
<1>3. DOMAIN samples = 1..Len(samples) /\ DOMAIN all = 1..Len(all)
  BY <1>2
<1> HIDE DEF all
<1>4. \A i \in 1..Len(all) : samples[i].duty = all[i]
  BY <1>1, <1>2 DEF Visited
<1>5. all = [i \in 1..Len(all) |-> all[i]]
  BY <1>2
<1>6. QED
  BY <1>1, <1>2, <1>3, <1>4, <1>5 DEF all

\* Exit code 0 of sweep means that every duty asked for has been measured, in
\* order, none at a limit: no interrupt, failed read or failed command on the
\* way can end in it, under all faults (sweep, runSweep's return).
THEOREM ZeroIsComplete == Spec => []ZeroMeansComplete
<1>1. Init => HeldInv /\ Trail
  BY TypeInit, HeldInit, TrailInit DEF HeldInv
<1>2. HeldInv /\ Trail /\ [Next]_vars => HeldInv' /\ Trail'
  BY TypeNext, HeldNext, TrailNext DEF HeldInv
<1>3. ASSUME HeldInv, Trail PROVE ZeroMeansComplete
  <2>1. SUFFICES ASSUME opts.tool = "sweep", code = 0
        PROVE  /\ [i \in DOMAIN samples |-> samples[i].duty] = <<Baseline>> \o steps
               /\ \A i \in 2..Len(samples) : ~LimitHit(samples[i])
    BY DEF ZeroMeansComplete
  <2>2. Visited /\ todo = <<>> /\ steps \in Seq(Int) /\ samples \in Seq(Samples)
    BY <1>3, <2>1 DEF Trail, HeldInv, TypeInv, ToolTyped
  <2>3. QED
    BY <2>2, AllVisited DEF Visited
<1>4. QED
  BY <1>1, <1>2, <1>3, PTL DEF Spec

-----------------------------------------------------------------------------
(* The suggested floor.                                                      *)

\* Spreads, slopes and the limit are integers.
LEMMA QuotTruncType ==
    ASSUME NEW a \in Int, NEW b \in Nat \ {0}
    PROVE  QuotTrunc(a, b) \in Int
BY DEF QuotTrunc

LEMMA SpreadType == ASSUME NEW x \in Samples PROVE Spread(x) \in Int
<1>1. x.avg \in Nat /\ (x.max - x.min) * 100 \in Int
  BY DEF Samples
<1>2. QED
  BY <1>1, QuotTruncType DEF Spread

LEMMA SlopeType ==
    ASSUME NEW upper \in Samples, NEW lower \in Samples
    PROVE  Slope(upper, lower) \in Int
<1>1. upper.avg - lower.avg \in Int /\ upper.duty - lower.duty \in Int
  BY DEF Samples
<1>2. Larger(upper.duty - lower.duty, 1) \in Nat \ {0}
  BY <1>1 DEF Larger
<1>3. QED
  BY <1>1, <1>2, QuotTruncType DEF Slope

LEMMA LimitType ==
    ASSUME NEW all \in Seq(Samples)
    PROVE  SpreadLimit(all) \in Int
<1> DEFINE base == {i \in DOMAIN all : IsBaseline(all[i])}
           from == IF base # {} THEN base ELSE DOMAIN all
           first == CHOOSE i \in from : \A j \in from : i <= j
<1>1. from \in SUBSET (DOMAIN all) /\ DOMAIN all \in SUBSET Nat
  OBVIOUS
<1>2. ReferenceSpread(all) = IF from = {} THEN 0 ELSE Spread(all[first])
  BY DEF ReferenceSpread
<1> HIDE DEF base, from
<1>3. from # {} => first \in from
  BY <1>1, LeastExists
<1>4. from # {} => all[first] \in Samples
  BY <1>1, <1>3
<1>5. ReferenceSpread(all) \in Int
  BY <1>2, <1>4, SpreadType
<1>6. QED
  BY <1>5 DEF SpreadLimit, unevenSpreadRisePct, unevenSpreadAbsPct

\* The rounds are well defined: each follows from the one before.
LEMMA RoundByRound ==
    ASSUME NEW all \in Seq(Samples)
    PROVE  /\ Rounds(all)[0] = SearchStart
           /\ \A i \in 1..Len(all) :
                Rounds(all)[i] = Consider(Rounds(all)[i-1], all[i], SpreadLimit(all))
<1> DEFINE N == Len(all)
           limit == SpreadLimit(all)
           Follows(f, n) ==
             f = [i \in 0..n |->
                    IF i = 0 THEN SearchStart ELSE Consider(f[i-1], all[i], limit)]
           S == {n \in 0..N : \E f : Follows(f, n)}
<1>1. N \in Nat
  OBVIOUS
<1>2. 0 \in S
  <2>1. Follows([i \in 0..0 |-> SearchStart], 0)
    OBVIOUS
  <2> HIDE DEF Follows
  <2>2. \E f : Follows(f, 0)
    BY <2>1
  <2>3. QED
    BY <1>1, <2>2
<1>3. ASSUME NEW n \in S, n < N PROVE n + 1 \in S
  <2>1. PICK f : Follows(f, n)
    OBVIOUS
  <2> DEFINE g == [i \in 0..(n + 1) |->
                     IF i = n + 1 THEN Consider(f[n], all[n + 1], limit) ELSE f[i]]
             h == [i \in 0..(n + 1) |->
                     IF i = 0 THEN SearchStart ELSE Consider(g[i-1], all[i], limit)]
  <2>2. n \in Nat
    BY <1>1
  <2>3. ASSUME NEW i \in 0..(n + 1) PROVE g[i] = h[i]
    <3>1. CASE i = 0
      <4>1. g[0] = f[0] /\ f[0] = SearchStart
        BY <2>1, <2>2
      <4>2. QED
        BY <3>1, <4>1
    <3>2. CASE i = n + 1
      <4>1. g[i - 1] = f[n]
        BY <2>2, <3>2
      <4>2. QED
        BY <2>2, <3>2, <4>1
    <3>3. CASE i \in 1..n
      <4>1. g[i] = f[i] /\ g[i - 1] = f[i - 1]
        BY <2>2, <3>3
      <4>2. f[i] = Consider(f[i-1], all[i], limit)
        BY <2>1, <2>2, <3>3
      <4>3. QED
        BY <2>2, <3>3, <4>1, <4>2
    <3>4. QED
      BY <2>2, <3>1, <3>2, <3>3
  <2>4. g = h
    BY <2>3
  <2>5. Follows(g, n + 1)
    BY <2>4
  <2> HIDE DEF Follows
  <2>6. \E k : Follows(k, n + 1)
    BY <2>5
  <2>7. n + 1 \in 0..N
    BY <1>1, <1>3, <2>2
  <2>8. QED
    BY <2>6, <2>7
<1>4. S = 0..N
  <2>1. S \in SUBSET (0..N)
    OBVIOUS
  <2> HIDE DEF S
  <2>2. QED
    BY <1>1, <1>2, <1>3, <2>1, Induction
<1>5. \E f : Follows(f, N)
  BY <1>1, <1>4
<1>6. Follows(Rounds(all), N)
  BY <1>5 DEF Rounds
<1>7. QED
  BY <1>1, <1>6

\* What the search knows: the best step so far and the steepest slope.
Reasons == {"aborted", "uneven", "clamped"}
Findings ==
    [best : Samples, ok : BOOLEAN, steepest : Nat, reason : Reasons \cup {"none"}]

\* The first k steps of c are sound and the search goes on: it has the last of
\* them and the steepest slope among them.
Searching(c, limit, k, acc) ==
    /\ acc.reason = "none"
    /\ \A j \in 1..k : Sound(c, j, limit)
    /\ acc.ok <=> k > 0
    /\ k > 0 => acc.best = c[k]
    /\ \A j \in 2..k : Slope(c[j-1], c[j]) <= acc.steepest
    /\ acc.steepest > 0 => \E j \in 2..k : Slope(c[j-1], c[j]) = acc.steepest

\* The search has stopped at the first of the first k steps that is not sound.
Stopped(c, limit, k, acc) ==
    /\ acc.reason # "none"
    /\ \E m \in 0..(k - 1) :
        /\ \A j \in 1..m : Sound(c, j, limit)
        /\ ~Sound(c, m + 1, limit)
        /\ acc.ok <=> m > 0
        /\ m > 0 => acc.best = c[m]

\* Dividing by a positive number keeps the order.
LEMMA QuarterMonotone ==
    ASSUME NEW a \in Int, NEW b \in Int, a <= b
    PROVE  (a * clampSlopeFracPct) \div 100 <= (b * clampSlopeFracPct) \div 100
BY DEF clampSlopeFracPct

\* The search's test against the steepest slope is the test against them all.
LEMMA ClampedIsLost ==
    ASSUME NEW c \in Seq(Samples), NEW k \in 0..(Len(c) - 1), NEW limit \in Int,
           NEW acc \in Findings, Searching(c, limit, k, acc)
    PROVE  Clamped(acc, c[k + 1]) <=> (k + 1 > 1 /\ LostControl(c, k + 1))
<1>1. CASE k = 0
  BY <1>1 DEF Searching, Clamped
<1>2. CASE k > 0
  <2> DEFINE new == Slope(c[k], c[k + 1])
             slope(j) == Slope(c[j - 1], c[j])
             quarter(x) == (x * clampSlopeFracPct) \div 100
  <2>1. k \in Nat /\ Len(c) \in Nat /\ k + 1 <= Len(c)
    OBVIOUS
  <2>2. \A j \in 2..(k + 1) : slope(j) \in Int
    <3>1. \A j \in 2..(k + 1) : c[j - 1] \in Samples /\ c[j] \in Samples
      BY <2>1
    <3>2. QED
      BY <3>1, SlopeType
  <2>3. new \in Int
    <3>1. c[k] \in Samples /\ c[k + 1] \in Samples
      BY <1>2, <2>1
    <3>2. QED
      BY <3>1, SlopeType
  <2>4. /\ acc.ok /\ acc.best = c[k] /\ acc.steepest \in Nat
        /\ \A j \in 2..k : slope(j) <= acc.steepest
        /\ acc.steepest > 0 => \E j \in 2..k : slope(j) = acc.steepest
    BY <1>2 DEF Searching, Findings
  <2>5. Clamped(acc, c[k + 1]) <=>
            \/ new < clampMinSlopeRPM
            \/ acc.steepest > 0 /\ new < quarter(acc.steepest)
    BY <2>4 DEF Clamped
  <2>6. LostControl(c, k + 1) <=>
            \/ new < clampMinSlopeRPM
            \/ \E j \in 2..k : new < quarter(slope(j))
    <3>1. (k + 1) - 1 = k
      BY <2>1
    <3>2. QED
      BY <3>1 DEF LostControl
  <2>7. ASSUME acc.steepest > 0, new < quarter(acc.steepest)
        PROVE  \E j \in 2..k : new < quarter(slope(j))
    <3>1. PICK j \in 2..k : slope(j) = acc.steepest
      BY <2>4, <2>7
    <3> HIDE DEF new, slope, quarter
    <3>2. QED
      BY <2>7, <3>1
  <2>8. ASSUME NEW j \in 2..k, new < quarter(slope(j))
        PROVE  \/ new < clampMinSlopeRPM
               \/ acc.steepest > 0 /\ new < quarter(acc.steepest)
    <3>1. slope(j) \in Int /\ slope(j) <= acc.steepest
      BY <2>1, <2>2, <2>4
    <3>2. quarter(slope(j)) <= quarter(acc.steepest)
      BY <2>4, <3>1, QuarterMonotone
    <3> HIDE DEF slope
    <3>3. quarter(slope(j)) \in Int /\ quarter(acc.steepest) \in Int
      BY <2>4, <3>1 DEF clampSlopeFracPct
    <3>4. CASE acc.steepest = 0
      <4>1. quarter(acc.steepest) = 0
        BY <3>4 DEF clampSlopeFracPct
      <4> HIDE DEF new, quarter
      <4>2. QED
        BY <2>3, <2>8, <3>2, <3>3, <4>1 DEF clampMinSlopeRPM
    <3>5. CASE acc.steepest > 0
      <4> HIDE DEF new, quarter
      <4>1. QED
        BY <2>3, <2>8, <3>2, <3>3, <3>5
    <3>6. QED
      BY <2>4, <3>4, <3>5
  <2> HIDE DEF new, slope, quarter
  <2>9. QED
    BY <1>2, <2>1, <2>5, <2>6, <2>7, <2>8
<1>3. QED
  BY <1>1, <1>2

\* One round on the next step.
LEMMA OneRound ==
    ASSUME NEW c \in Seq(Samples), NEW k \in 0..(Len(c) - 1), NEW limit \in Int,
           NEW acc \in Findings,
           Searching(c, limit, k, acc) \/ Stopped(c, limit, k, acc),
           ~IsBaseline(c[k + 1])
    PROVE  LET now == Consider(acc, c[k + 1], limit)
           IN  /\ now \in Findings
               /\ Searching(c, limit, k + 1, now) \/ Stopped(c, limit, k + 1, now)
<1> DEFINE s == c[k + 1]
           now == Consider(acc, s, limit)
<1>1. k \in Nat /\ Len(c) \in Nat /\ k + 1 \in 1..Len(c) /\ s \in Samples
  OBVIOUS
<1>2. CASE Stopped(c, limit, k, acc)
  <2>1. now = acc
    BY <1>2 DEF Consider, Stopped
  <2>2. Stopped(c, limit, k + 1, now)
    BY <1>1, <1>2, <2>1 DEF Stopped
  <2>3. QED
    BY <2>1, <2>2
<1>3. CASE Searching(c, limit, k, acc) /\ ~Sound(c, k + 1, limit)
  <2>1. s.aborted \/ Spread(s) > limit \/ Clamped(acc, s)
    BY <1>1, <1>3, ClampedIsLost, SpreadType DEF Sound
  <2>2. \E r \in Reasons : now = [acc EXCEPT !.reason = r]
    BY <1>3, <2>1 DEF Consider, Searching, Reasons
  <2>3. PICK r \in Reasons : now = [acc EXCEPT !.reason = r]
    BY <2>2
  <2> HIDE DEF now, s
  <2>4. /\ now \in Findings /\ now.reason # "none"
        /\ now.ok = acc.ok /\ now.best = acc.best
    BY <2>3 DEF Findings, Reasons
  <2>5. k \in 0..((k + 1) - 1)
    BY <1>1
  <2>6. Stopped(c, limit, k + 1, now)
    BY <1>1, <1>3, <2>4, <2>5 DEF Stopped, Searching
  <2>7. QED
    BY <2>4, <2>6 DEF now, s
<1>4. CASE Searching(c, limit, k, acc) /\ Sound(c, k + 1, limit)
  <2>1. ~s.aborted /\ ~(Spread(s) > limit) /\ ~Clamped(acc, s)
    <3>1. Spread(s) \in Int /\ Spread(s) <= limit /\ ~s.aborted
      BY <1>1, <1>4, SpreadType DEF Sound
    <3>2. ~Clamped(acc, s)
      BY <1>1, <1>4, ClampedIsLost DEF Sound
    <3>3. QED
      BY <3>1, <3>2
  <2>2. now = Accept(acc, s)
    BY <1>4, <2>1 DEF Consider, Searching
  <2> DEFINE new == Slope(acc.best, s)
             steepest == IF acc.ok THEN Larger(acc.steepest, new) ELSE acc.steepest
  <2>3. acc \in Findings /\ acc.steepest \in Nat /\ acc.best \in Samples /\ new \in Int
    BY <1>1, SlopeType DEF Findings
  <2>4. steepest \in Nat
    BY <2>3 DEF Larger
  <2>5. now = [acc EXCEPT !.best = s, !.ok = TRUE, !.steepest = steepest]
    BY <2>2 DEF Accept
  <2> HIDE DEF now, s, steepest
  <2>6. /\ now \in Findings /\ now.reason = acc.reason
        /\ now.best = s /\ now.ok /\ now.steepest = steepest
    BY <1>1, <2>3, <2>4, <2>5 DEF Findings
  <2>7. \A j \in 1..(k + 1) : Sound(c, j, limit)
    BY <1>1, <1>4 DEF Searching
  <2>8. /\ \A j \in 2..(k + 1) : Slope(c[j-1], c[j]) <= steepest
        /\ steepest > 0 => \E j \in 2..(k + 1) : Slope(c[j-1], c[j]) = steepest
    <3>1. CASE k = 0
      <4>1. ~acc.ok /\ 2..(k + 1) = {} /\ 2..k = {}
        BY <1>1, <1>4, <3>1 DEF Searching
      <4>2. steepest = acc.steepest /\ ~(acc.steepest > 0)
        BY <1>4, <4>1 DEF Searching, steepest
      <4>3. QED
        BY <4>1, <4>2
    <3>2. CASE k > 0
      <4>1. acc.ok /\ acc.best = c[k] /\ steepest = Larger(acc.steepest, new)
        BY <1>4, <3>2 DEF Searching, steepest
      <4>2. Slope(c[(k + 1) - 1], c[k + 1]) = new
        BY <1>1, <4>1 DEF s
      <4> HIDE DEF new
      <4>3. acc.steepest <= steepest /\ new <= steepest
        BY <2>3, <4>1 DEF Larger
      <4>4. steepest = acc.steepest \/ steepest = new
        BY <4>1 DEF Larger
      <4>5. ASSUME NEW j \in 2..(k + 1) PROVE Slope(c[j-1], c[j]) <= steepest
        <5>1. CASE j = k + 1
          BY <4>2, <4>3, <5>1
        <5>2. CASE j # k + 1
          <6>1. j \in 2..k
            BY <1>1, <5>2
          <6>2. c[j-1] \in Samples /\ c[j] \in Samples
            BY <1>1, <6>1
          <6>3. Slope(c[j-1], c[j]) \in Int
            BY <6>2, SlopeType
          <6>4. Slope(c[j-1], c[j]) <= acc.steepest
            BY <1>4, <6>1 DEF Searching
          <6>5. QED
            BY <2>3, <2>4, <4>3, <6>3, <6>4
        <5>3. QED
          BY <5>1, <5>2
      <4>6. ASSUME steepest > 0
            PROVE  \E j \in 2..(k + 1) : Slope(c[j-1], c[j]) = steepest
        <5>1. CASE steepest = new
          <6>1. k + 1 \in 2..(k + 1)
            BY <1>1, <3>2
          <6>2. QED
            BY <4>2, <5>1, <6>1
        <5>2. CASE steepest = acc.steepest
          <6>1. PICK j \in 2..k : Slope(c[j-1], c[j]) = acc.steepest
            BY <1>4, <4>6, <5>2 DEF Searching
          <6>2. j \in 2..(k + 1)
            BY <1>1
          <6>3. QED
            BY <5>2, <6>1, <6>2
        <5>3. QED
          BY <4>4, <5>1, <5>2
      <4>7. QED
        BY <4>5, <4>6
    <3>3. QED
      BY <1>1, <3>1, <3>2
  <2>9. Searching(c, limit, k + 1, now)
    <3>1. k + 1 > 0 /\ now.best = c[k + 1] /\ now.reason = "none"
      BY <1>1, <1>4, <2>6 DEF s, Searching
    <3>2. QED
      BY <2>6, <2>7, <2>8, <3>1 DEF Searching
  <2>10. QED
    BY <2>6, <2>9 DEF now, s
<1>5. QED
  BY <1>2, <1>3, <1>4

\* A sweep's samples: the baseline, and then steps.
Swept(all) ==
    /\ all \in Seq(Samples) /\ all # <<>>
    /\ IsBaseline(all[1])
    /\ \A i \in 2..Len(all) : ~IsBaseline(all[i])

\* For every sequence of samples of a sweep, the loop of analyseSweep finds the
\* lowest step down to which every step is sound, and nothing if there is none.
THEOREM AnalysisIsRight == ASSUME NEW all, Swept(all) PROVE FindsFloor(all)
<1> DEFINE c == Commanded(all)
           limit == SpreadLimit(all)
           N == Len(c)
           acc(k) == Rounds(all)[k + 1]
           S == {k \in 0..N : /\ acc(k) \in Findings
                              /\ Searching(c, limit, k, acc(k)) \/ Stopped(c, limit, k, acc(k))}
<1>1. /\ all \in Seq(Samples) /\ all # <<>> /\ limit \in Int
      /\ c \in Seq(Samples) /\ N \in Nat /\ Len(all) = N + 1
      /\ \A j \in 1..N : c[j] = all[j + 1] /\ ~IsBaseline(c[j])
  <2>1. all \in Seq(Samples) /\ all # <<>>
    BY DEF Swept
  <2>2. c \in Seq(Samples) /\ N \in Nat /\ Len(all) = N + 1 /\ \A j \in 1..N : c[j] = all[j + 1]
    BY <2>1 DEF Commanded
  <2>3. \A j \in 1..N : j + 1 \in 2..Len(all)
    BY <2>2
  <2>4. QED
    BY <2>1, <2>2, <2>3, LimitType DEF Swept
<1>2. /\ Rounds(all)[0] = SearchStart
      /\ \A i \in 1..Len(all) : Rounds(all)[i] = Consider(Rounds(all)[i-1], all[i], limit)
  BY <1>1, RoundByRound
<1> HIDE DEF c, limit
<1>3. 0 \in S
  <2>1. acc(0) = SearchStart
    <3>1. 1 \in 1..Len(all) /\ IsBaseline(all[1])
      BY <1>1 DEF Swept
    <3>2. acc(0) = Consider(SearchStart, all[1], limit)
      BY <1>2, <3>1
    <3>3. QED
      BY <3>1, <3>2 DEF Consider
  <2>2. SearchStart \in Findings
    BY DEF SearchStart, NoSample, NoGpu, Findings, Samples
  <2>3. Searching(c, limit, 0, SearchStart)
    BY DEF Searching, SearchStart
  <2> HIDE DEF acc
  <2>4. QED
    BY <1>1, <2>1, <2>2, <2>3
<1>4. ASSUME NEW k \in S, k < N PROVE k + 1 \in S
  <2>1. k \in 0..(Len(c) - 1) /\ k + 1 \in 1..N /\ k + 2 \in 1..Len(all) /\ k + 1 \in 0..N
    BY <1>1, <1>4
  <2>2. acc(k + 1) = Consider(acc(k), c[k + 1], limit)
    <3>1. (k + 1) + 1 = k + 2 /\ (k + 2) - 1 = k + 1
      BY <2>1
    <3>2. QED
      BY <1>1, <1>2, <2>1, <3>1
  <2>3. ~IsBaseline(c[k + 1])
    BY <1>1, <2>1
  <2> HIDE DEF acc
  <2>4. /\ acc(k + 1) \in Findings
        /\ Searching(c, limit, k + 1, acc(k + 1)) \/ Stopped(c, limit, k + 1, acc(k + 1))
    BY <1>1, <2>1, <2>2, <2>3, OneRound
  <2>5. QED
    BY <2>1, <2>4
<1>5. N \in S
  <2>1. S \in SUBSET (0..N)
    OBVIOUS
  <2> HIDE DEF S
  <2>2. S = 0..N
    BY <1>1, <1>3, <1>4, <2>1, Induction
  <2>3. QED
    BY <1>1, <2>2
<1> DEFINE found == Analyse(all)
<1>6. /\ found \in Findings
      /\ Searching(c, limit, N, found) \/ Stopped(c, limit, N, found)
  <2>1. found = acc(N)
    BY <1>1 DEF Analyse
  <2> HIDE DEF found, acc
  <2>2. QED
    BY <1>5, <2>1
<1> HIDE DEF found
<1>7. CASE Searching(c, limit, N, found)
  <2>1. CASE N = 0
    <3>1. ~found.ok /\ c = <<>>
      BY <1>1, <1>7, <2>1 DEF Searching
    <3>2. QED
      BY <3>1 DEF FindsFloor, found, c
  <2>2. CASE N > 0
    <3>1. N \in DOMAIN c /\ found.ok /\ found.best = c[N] /\ ~(N < Len(c))
      BY <1>1, <1>7, <2>2 DEF Searching
    <3>2. \A j \in 1..N : Sound(c, j, limit)
      BY <1>7 DEF Searching
    <3>3. IsLowestUseful(all, found.best)
      BY <3>1, <3>2 DEF IsLowestUseful, c, limit
    <3>4. QED
      BY <3>1, <3>3 DEF FindsFloor, found
  <2>3. QED
    BY <1>1, <2>1, <2>2
<1>8. CASE Stopped(c, limit, N, found)
  <2>1. PICK m \in 0..(N - 1) :
           /\ \A j \in 1..m : Sound(c, j, limit)
           /\ ~Sound(c, m + 1, limit)
           /\ found.ok <=> m > 0
           /\ m > 0 => found.best = c[m]
    BY <1>8 DEF Stopped
  <2>2. CASE m = 0
    <3>1. ~found.ok /\ ~Sound(c, 1, limit)
      BY <2>1, <2>2
    <3>2. QED
      BY <3>1 DEF FindsFloor, found, c, limit
  <2>3. CASE m > 0
    <3>1. m \in DOMAIN c /\ found.ok /\ found.best = c[m]
      BY <1>1, <2>1, <2>3
    <3>2. IsLowestUseful(all, found.best)
      BY <2>1, <3>1 DEF IsLowestUseful, c, limit
    <3>3. QED
      BY <3>1, <3>2 DEF FindsFloor, found
  <2>4. QED
    BY <1>1, <2>2, <2>3
<1>9. QED
  BY <1>6, <1>7, <1>8

\* The samples of sweep are those of a sweep, and what is left to visit is duties.
Lined ==
    opts.tool = "sweep" =>
        /\ \A i \in 1..Len(todo) : todo[i] \in Duties
        /\ samples # <<>> => Swept(samples)

LEMMA LinedInit == Init => Lined
  BY DEF Init, Lined

\* One more sample.
LEMMA LinedMeasure ==
    ASSUME HeldInv, Trail, Lined, NEW m \in Measurements, SweepMeasure(m)
    PROVE  Lined'
<1> DEFINE s == Sample(Head(todo), m)
           t == [s EXCEPT !.aborted = LimitHit(s)]
<1>1. /\ todo \in Seq(Int) /\ todo # <<>> /\ samples \in Seq(Samples) /\ opts \in Options
      /\ opts.tool = "sweep"
  BY DEF HeldInv, TypeInv, ToolTyped, Due, SweepMeasure
<1>2. /\ todo' = Tail(todo) /\ samples' = Append(samples, t) /\ opts' = opts
  BY DEF SweepMeasure
<1>3. /\ \A i \in 1..Len(todo) : todo[i] \in Duties
      /\ samples # <<>> /\ Swept(samples)
  BY <1>1 DEF Lined, Trail, Visited, SweepMeasure
<1>4. Head(todo) \in Int /\ Head(todo) \in Duties
  BY <1>1, <1>3
<1>5. t \in Samples /\ ~IsBaseline(t)
  <2>1. s \in Samples /\ s.duty = Head(todo)
    BY <1>1, <1>4, SampleTyped
  <2>2. LimitHit(s) \in BOOLEAN
    BY <2>1, LimitHitTyped
  <2> HIDE DEF s
  <2>3. t \in Samples /\ t.duty = Head(todo)
    BY <2>1, <2>2 DEF Samples
  <2>4. QED
    BY <1>4, <2>3 DEF IsBaseline, Baseline, Duties
<1> HIDE DEF s, t
<1>6. \A i \in 1..Len(todo') : todo'[i] \in Duties
  <2>1. /\ Len(todo') = Len(todo) - 1 /\ Len(todo) \in Nat
        /\ \A i \in 1..Len(todo') : todo'[i] = todo[i+1] /\ i + 1 \in 1..Len(todo)
    BY <1>1, <1>2
  <2>2. QED
    BY <1>3, <2>1
<1>7. Swept(samples)'
  <2>1. /\ samples' \in Seq(Samples) /\ samples' # <<>> /\ Len(samples) \in Nat
        /\ Len(samples) >= 1 /\ Len(samples') = Len(samples) + 1
        /\ \A i \in 1..Len(samples) : samples'[i] = samples[i]
        /\ samples'[Len(samples')] = t
    BY <1>1, <1>2, <1>3, <1>5
  <2>2. \A i \in 2..Len(samples') : i = Len(samples') \/ i \in 2..Len(samples)
    BY <2>1
  <2>3. QED
    BY <1>3, <1>5, <2>1, <2>2 DEF Swept
<1>8. QED
  BY <1>2, <1>6, <1>7 DEF Lined

LEMMA LinedNext == ASSUME HeldInv, Trail, Lined, [Next]_vars PROVE Lined'
<1>1. CASE \E m \in Measurements : SweepMeasure(m)
  BY <1>1, LinedMeasure
<1>2. CASE UNCHANGED <<opts, todo, samples>>
  BY <1>2 DEF Lined, Swept, IsBaseline
<1>3. CASE opts'.tool # "sweep"
  BY <1>3 DEF Lined
<1>4. CASE StartSweepAny
  <2>1. PICK force, seen, cfgOk \in BOOLEAN : StartSweep(force, seen, cfgOk)
    BY <1>4 DEF StartSweepAny
  <2>2. todo' = todo \/ (todo' = steps /\ ValidSteps(steps))
    BY <2>1 DEF StartSweep
  <2>3. steps \in Seq(Int) /\ opts' = opts /\ samples' = samples
    BY <2>1 DEF StartSweep, HeldInv, TypeInv, ToolTyped
  <2>4. CASE todo' = todo
    BY <1>2, <2>3, <2>4
  <2>5. CASE todo' = steps /\ ValidSteps(steps)
    <3>1. \A i \in 1..Len(todo') : todo'[i] \in Duties
      <4>1. DOMAIN steps = 1..Len(steps)
        BY <2>3
      <4>2. QED
        BY <2>5, <4>1 DEF ValidSteps, Duties
    <3>2. QED
      BY <2>3, <3>1 DEF Lined, Swept, IsBaseline
  <2>6. QED
    BY <2>2, <2>4, <2>5
<1>5. CASE \E m \in Measurements : SweepBaseline(m)
  <2>1. PICK m \in Measurements : SweepBaseline(m)
    BY <1>5
  <2>2. samples' = <<Sample(Baseline, m)>> /\ UNCHANGED <<opts, todo>>
    BY <2>1 DEF SweepBaseline
  <2>3. Sample(Baseline, m) \in Samples /\ IsBaseline(Sample(Baseline, m))
    <3>1. opts \in Options /\ Baseline \in Int
      BY DEF HeldInv, TypeInv, ToolTyped, Baseline
    <3>2. QED
      BY <3>1, SampleTyped DEF IsBaseline
  <2>4. /\ samples' \in Seq(Samples) /\ samples' # <<>> /\ Len(samples') = 1
        /\ samples'[1] = Sample(Baseline, m)
    BY <2>2, <2>3
  <2>5. Swept(samples)'
    BY <2>3, <2>4 DEF Swept
  <2>6. QED
    BY <2>2, <2>5 DEF Lined
<1>6. CASE SetManual \/ SetPercent \/ Settle \/ Restore \/ ReadFails
  BY <1>2, <1>6 DEF SetManual, SetPercent, Settle, Restore, ReadFails
<1>7. CASE InterruptSweep \/ InterruptProbe \/ LateLands \/ DaemonStarts \/ OthersWriteAny
  BY <1>2, <1>7
     DEF InterruptSweep, InterruptProbe, LateLands, DaemonStarts, OthersWriteAny, OthersWrite
<1>8. CASE StartProbe \/ ProbeMeasureAny
  BY <1>3, <1>8 DEF StartProbe, ProbeMeasureAny, ProbeBaseline, ProbeMeasure
<1>9. CASE UNCHANGED vars
  BY <1>2, <1>9 DEF vars
<1>10. QED
  BY <1>1, <1>4, <1>5, <1>6, <1>7, <1>8, <1>9 DEF Next, Work, SweepMeasureAny

\* Whatever sweep has measured when it ends, in full or cut short, the floor it
\* suggests is the lowest useful step (analyseSweep on what runSweep collected).
THEOREM SuggestsLowestUseful == Spec => []FloorIsLowestUseful
<1>1. Init => HeldInv /\ Trail /\ Lined
  BY TypeInit, HeldInit, TrailInit, LinedInit DEF HeldInv
<1>2. HeldInv /\ Trail /\ Lined /\ [Next]_vars => HeldInv' /\ Trail' /\ Lined'
  BY TypeNext, HeldNext, TrailNext, LinedNext DEF HeldInv
<1>3. Lined => FloorIsLowestUseful
  BY AnalysisIsRight DEF Lined, FloorIsLowestUseful
<1>4. QED
  BY <1>1, <1>2, <1>3, PTL DEF Spec
=============================================================================
