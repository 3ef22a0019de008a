------------------------------ MODULE UnitProofs ------------------------------
(* The theorems of the unit's life, for every set of files and faults.         *)
EXTENDS Unit, TLAPS

\* A file that loads is read as it describes its connection.
LEMMA LoadedAsDescribed ==
    ASSUME NEW f, f = Absent \/ Loads(f)
    PROVE  Target(Merged(f)) = Describes(f)
<1>1. Default.iface \in InBandIfaces /\ Default.host = ""
  BY UnitAssumption
<1>2. CASE f = Absent
  BY <1>1, <1>2 DEF Absent, Merged, Target, Describes, InBandIfaces
<1>3. CASE Loads(f)
  <2>1. f.kind = "yaml" /\ ParsesUpTo(f, 4)
    BY <1>3 DEF Loads
  <2>2. Merged(f).iface = TextField(f, "iface") /\ Merged(f).host = TextField(f, "host")
    BY <2>1 DEF Merged
  <2>3. TextField(f, "iface") = IF f.iface # "" THEN f.iface ELSE Default.iface
    BY <2>1 DEF TextField
  <2>4. TextField(f, "host") = f.host
    BY <1>1, <2>1 DEF TextField
  <2>5. QED
    BY <1>1, <2>1, <2>2, <2>3, <2>4 DEF Target, Describes, InBandIfaces
<1>4. QED
  BY <1>2, <1>3

\* A daemon never starts without a BMC to talk to.
LEMMA AcceptedBmc ==
    ASSUME NEW f \in Files, Acceptable(f) PROVE Target(Merged(f)) \in Bmcs
<1>1. Target(Merged(f)) = Describes(f)
  BY LoadedAsDescribed DEF Acceptable
<1>2. Target(Merged(f)) # ""
  BY DEF Acceptable, Validate, Target, InBandIfaces
<1>3. QED
  BY <1>1, <1>2 DEF Bmcs

-----------------------------------------------------------------------------
\* A daemon that runs is bound to a BMC.
IInv == TypeOK /\ PinnedOrMissed /\ (Running => bound \in Bmcs)

LEMMA InitInv == Init => IInv
<1>1. 0 \in 0..MaxFaults
  <2>1. MaxFaults \in Nat
    BY UnitAssumption
  <2>2. QED
    BY <2>1
<1>2. QED
  BY <1>1 DEF Init, IInv, TypeOK, PinnedOrMissed, Running

\* What a restore leaves pinned, it has missed.
LEMMA RestoreMisses ==
    ASSUME TypeOK, NEW ok \in BOOLEAN, RestoreAuto(ok)
    PROVE  /\ pinned' \subseteq pinned
           /\ pinned' \cap Reached(ok) = {}
           /\ faults' \in 0..MaxFaults
<1>1. MaxFaults \in Nat /\ faults \in 0..MaxFaults
  BY UnitAssumption DEF TypeOK
<1>2. CASE ok
  <2>1. pinned' = pinned \ {RestoreTarget} /\ faults' = faults
    BY <1>2 DEF RestoreAuto
  <2>2. Reached(ok) \subseteq {RestoreTarget}
    BY LoadedAsDescribed DEF Reached, RestoreTarget
  <2>3. QED
    BY <1>1, <2>1, <2>2
<1>3. CASE ~ok
  <2>1. pinned' = pinned /\ faults' = faults + 1 /\ faults < MaxFaults
    BY <1>3 DEF RestoreAuto, Fault
  <2>2. Reached(ok) = {}
    BY <1>3 DEF Reached
  <2>3. QED
    BY <1>1, <2>1, <2>2
<1>4. QED
  BY <1>2, <1>3

LEMMA FaultType == ASSUME TypeOK, NEW site, Fault(site) PROVE faults' \in 0..MaxFaults
<1>1. MaxFaults \in Nat
  BY UnitAssumption
<1>2. faults \in 0..MaxFaults
  BY DEF TypeOK
<1>3. faults < MaxFaults /\ faults' = faults + 1
  BY DEF Fault
<1>4. QED
  BY <1>1, <1>2, <1>3

\* The steps of a daemon.
LEMMA DaemonInv == ASSUME IInv, Daemon PROVE IInv'
<1> USE DEF IInv, TypeOK, PinnedOrMissed, Running
<1>1. CASE Command
  BY <1>1 DEF Command
<1>2. CASE StepDone
  BY <1>2 DEF StepDone
<1>3. CASE StartStep
  BY <1>3 DEF StartStep
<1>4. CASE Wedge
  BY <1>4, FaultType DEF Wedge
<1>5. CASE Exit
  <2>1. faults' \in 0..MaxFaults /\ pinned' \subseteq pinned
    BY <1>5, FaultType DEF Exit
  <2>2. /\ Running /\ phase' = "stopPost" /\ loop' = "off"
        /\ UNCHANGED <<want, file, bound, missed>>
    BY <1>5 DEF Exit
  <2>3. QED
    BY <2>1, <2>2
<1>6. CASE Crash
  <2>1. /\ faults' \in 0..MaxFaults /\ phase' = "stopPost" /\ loop' = "off"
        /\ UNCHANGED <<want, file, bound, pinned, missed>>
    BY <1>6, FaultType DEF Crash, Gone
  <2>2. Running
    BY <1>6 DEF Crash
  <2>3. QED
    BY <2>1, <2>2
<1>7. QED
  BY <1>1, <1>2, <1>3, <1>4, <1>5, <1>6 DEF Daemon

\* The steps of systemd.
LEMMA SystemdInv == ASSUME IInv, Systemd PROVE IInv'
<1> USE DEF IInv, TypeOK, PinnedOrMissed, Running
<1>1. CASE Launch
  <2>1. phase = "queued" /\ UNCHANGED <<want, file, pinned, missed, faults>>
    BY <1>1 DEF Launch
  <2>2. CASE Acceptable(file)
    <3>1. phase' = "starting" /\ loop' = "busy" /\ bound' \in Bmcs
      BY <1>1, <2>2, AcceptedBmc DEF Launch
    <3>2. QED
      BY <2>1, <3>1
  <2>3. CASE ~Acceptable(file)
    BY <1>1, <2>1, <2>3 DEF Launch
  <2>4. QED
    BY <2>2, <2>3
<1>2. CASE WatchdogKills \/ TimeoutKills
  <2>1. faults' \in 0..MaxFaults
    BY <1>2, FaultType DEF WatchdogKills, TimeoutKills
  <2>2. /\ Running /\ phase' = "stopPost" /\ loop' = "off"
        /\ UNCHANGED <<want, file, bound, pinned, missed>>
    BY <1>2 DEF WatchdogKills, TimeoutKills, Gone
  <2>3. QED
    BY <2>1, <2>2
<1>3. CASE StopPost
  <2>1. PICK ok \in BOOLEAN :
          RestoreAuto(ok) /\ missed' = (missed \cup {bound}) \ Reached(ok)
    BY <1>3 DEF StopPost
  <2>2. /\ phase = "stopPost" /\ phase' \in {"queued", "dead"}
        /\ UNCHANGED <<want, file, bound, loop>>
    BY <1>3 DEF StopPost
  <2>3. /\ pinned' \subseteq pinned /\ pinned' \cap Reached(ok) = {}
        /\ faults' \in 0..MaxFaults
    BY <2>1, RestoreMisses
  <2>4. pinned' \subseteq missed'
    BY <2>1, <2>2, <2>3
  <2>5. QED
    BY <2>1, <2>2, <2>3, <2>4
<1>4. QED
  BY <1>1, <1>2, <1>3 DEF Systemd

\* The steps of the operator.
LEMMA OperatorInv == ASSUME IInv, Operator PROVE IInv'
<1> USE DEF IInv, TypeOK, PinnedOrMissed, Running
<1>1. CASE Start
  BY <1>1 DEF Start
<1>2. CASE Stop
  BY <1>2 DEF Stop
<1>3. CASE Remove
  <2>1. PICK ok \in BOOLEAN : RestoreAuto(ok) /\ missed' = missed \ Reached(ok)
    BY <1>3 DEF Remove
  <2>2. phase = "dead" /\ UNCHANGED <<phase, loop, want, file, bound>>
    BY <1>3 DEF Remove
  <2>3. /\ pinned' \subseteq pinned /\ pinned' \cap Reached(ok) = {}
        /\ faults' \in 0..MaxFaults
    BY <2>1, RestoreMisses
  <2>4. QED
    BY <2>1, <2>2, <2>3
<1>4. CASE \E f \in Files : Edit(f)
  BY <1>4 DEF Edit
<1>5. CASE \E force, enable \in BOOLEAN : Install(force, enable)
  <2>1. PICK force, enable \in BOOLEAN : Install(force, enable)
    BY <1>5
  <2>2. file' \in Files /\ want' \in BOOLEAN
    BY <2>1, UnitAssumption DEF Install
  <2>3. phase' = phase \/ (phase = "dead" /\ phase' = "queued")
    BY <2>1 DEF Install
  <2>4. UNCHANGED <<bound, pinned, missed, faults, loop>>
    BY <2>1 DEF Install
  <2>5. QED
    BY <2>2, <2>3, <2>4
<1>6. QED
  BY <1>1, <1>2, <1>3, <1>4, <1>5 DEF Operator

LEMMA InvNext == ASSUME IInv, [Next]_vars PROVE IInv'
<1>1. CASE UNCHANGED vars
  BY <1>1 DEF vars, IInv, TypeOK, PinnedOrMissed, Running
<1>2. QED
  BY <1>1, DaemonInv, SystemdInv, OperatorInv DEF Next

\* A daemon that runs is bound to a BMC that a file describes, whatever is edited.
THEOREM UnitTyped == Spec => []TypeOK
<1>1. IInv /\ [Next]_vars => IInv'
  BY InvNext
<1>2. IInv => TypeOK
  BY DEF IInv
<1>3. QED
  BY <1>1, <1>2, InitInv, PTL DEF Spec

\* Through crashes, wedges, failed hand-backs and restores, restarts and edits: a
\* BMC is left under manual control only where a restore has missed it.
THEOREM PinnedOnlyIfMissed == Spec => []PinnedOrMissed
<1>1. IInv /\ [Next]_vars => IInv'
  BY InvNext
<1>2. IInv => PinnedOrMissed
  BY DEF IInv
<1>3. QED
  BY <1>1, <1>2, InitInv, PTL DEF Spec

-----------------------------------------------------------------------------
(* When no restore misses.                                                   *)

\* Every file loads, and they all describe the same BMC; a restore's command
\* does not fail.  Crashes, wedges, false alarms, failed hand-backs and edits of
\* everything else remain.  Without this the run unit_restore shows fans that
\* stay pinned.
RestoreReaches ==
    /\ \A f \in Files : f = Absent \/ Loads(f)
    /\ \A f, g \in Files : Describes(f) = Describes(g)
    /\ "restore" \notin Faults

\* The only BMC there is.
TheBmc == Describes(Example)

LEMMA OneBmc ==
    ASSUME RestoreReaches, IInv
    PROVE  /\ RestoreTarget = TheBmc
           /\ pinned \subseteq {TheBmc}
           /\ Running => bound = TheBmc
<1>1. \A f \in Files : Describes(f) = TheBmc
  BY UnitAssumption DEF RestoreReaches, TheBmc
<1>2. file \in Files /\ pinned \subseteq Bmcs /\ (Running => bound \in Bmcs)
  BY DEF IInv, TypeOK
<1>3. Target(Merged(file)) = Describes(file)
  BY <1>2, LoadedAsDescribed DEF RestoreReaches
<1>4. \A b \in Bmcs : b = TheBmc
  BY <1>1 DEF Bmcs
<1>5. QED
  BY <1>1, <1>2, <1>3, <1>4 DEF RestoreTarget

\* A restore leaves nothing pinned.
LEMMA RestoreSettles ==
    ASSUME RestoreReaches, IInv, NEW ok \in BOOLEAN, RestoreAuto(ok) PROVE pinned' = {}
<1>1. ok
  BY DEF RestoreAuto, Fault, RestoreReaches
<1>2. QED
  BY <1>1, OneBmc DEF RestoreAuto

\* What every step does to what the unit owes.
UnitSteps ==
    \/ pinned' = pinned /\ (phase = "stopPost" <=> phase' = "stopPost")
       /\ (phase \in {"dead", "queued"} => pinned = {})
       /\ (phase' \in {"dead", "queued"} => pinned = {})
    \/ Running /\ phase' = phase /\ pinned' \subseteq {TheBmc}
    \/ Running /\ phase' = "stopPost" /\ pinned' \in {{}, pinned}
    \/ phase = "queued" /\ pinned = {} /\ pinned' = {}
    \/ phase = "stopPost" /\ phase' \in {"dead", "queued"} /\ pinned' = {}

LEMMA UnitStepping ==
    ASSUME RestoreReaches, IInv, DownMeansHandedBack, [Next]_vars PROVE UnitSteps
<1> USE DEF UnitSteps, DownMeansHandedBack
<1>0. pinned \subseteq {TheBmc} /\ (Running => bound = TheBmc)
  BY OneBmc
<1>1. CASE Command
  <2>1. Running /\ phase' = phase /\ pinned' \in {pinned \ {bound}, pinned \cup {bound}}
    BY <1>1 DEF Command
  <2>2. QED
    BY <1>0, <2>1
<1>2. CASE StepDone
  BY <1>2 DEF StepDone
<1>3. CASE StartStep \/ Wedge
  BY <1>3 DEF StartStep, Wedge, Running
<1>4. CASE Exit
  <2>1. Running /\ phase' = "stopPost" /\ pinned' \in {pinned \ {bound}, pinned}
    BY <1>4 DEF Exit, Running
  <2>2. QED
    BY <1>0, <2>1
<1>5. CASE Crash \/ WatchdogKills \/ TimeoutKills
  BY <1>5 DEF Crash, WatchdogKills, TimeoutKills, Gone, Running
<1>6. CASE Launch
  BY <1>6 DEF Launch
<1>7. CASE StopPost
  <2>1. PICK ok \in BOOLEAN : RestoreAuto(ok)
    BY <1>7 DEF StopPost
  <2>2. pinned' = {}
    BY <2>1, RestoreSettles
  <2>3. QED
    BY <1>7, <2>2 DEF StopPost
<1>8. CASE Remove
  <2>1. PICK ok \in BOOLEAN : RestoreAuto(ok)
    BY <1>8 DEF Remove
  <2>2. pinned' = {}
    BY <2>1, RestoreSettles
  <2>3. QED
    BY <1>8, <2>2 DEF Remove
<1>9. CASE Start \/ Stop
  BY <1>9 DEF Start, Stop
<1>10. CASE \E f \in Files : Edit(f)
  BY <1>10 DEF Edit
<1>11. CASE \E force, enable \in BOOLEAN : Install(force, enable)
  BY <1>11 DEF Install
<1>12. CASE UNCHANGED vars
  BY <1>12 DEF vars
<1>13. QED
  BY <1>1, <1>2, <1>3, <1>4, <1>5, <1>6, <1>7, <1>8, <1>9, <1>10, <1>11, <1>12
     DEF Next, Daemon, Systemd, Operator

\* No fans are pinned while no daemon runs.
LEMMA HandedBackInductive ==
    /\ Init => DownMeansHandedBack
    /\ RestoreReaches /\ IInv /\ DownMeansHandedBack /\ [Next]_vars
            => DownMeansHandedBack'
<1>1. Init => DownMeansHandedBack
  BY DEF Init, DownMeansHandedBack
<1>2. ASSUME RestoreReaches, IInv, DownMeansHandedBack, [Next]_vars
      PROVE  DownMeansHandedBack'
  BY <1>2, UnitStepping DEF UnitSteps, DownMeansHandedBack, Running
<1>3. QED
  BY <1>1, <1>2

\* "a stopped or crashed daemon never leaves the fans pinned" (restore.go:16) is
\* true of a unit whose file always loads and always describes the same BMC.
THEOREM DownIsHandedBack == ASSUME RestoreReaches PROVE Spec => []DownMeansHandedBack
<1>1. IInv /\ [Next]_vars => IInv'
  BY InvNext
<1>2. QED
  BY <1>1, InitInv, HandedBackInductive, PTL DEF Spec

\* Of such a unit, Custody holds across the daemon's lives: what a dead daemon
\* has pinned is owed, and settled before the next one can take the fans.
THEOREM UnitImplementsCustody == ASSUME RestoreReaches PROVE Spec => UnitKeepsCustody
<1>1. Init => Cust!Init
  BY DEF Init, Cust!Init
<1>2. ASSUME IInv, DownMeansHandedBack, [Next]_vars PROVE [Cust!Next]_(Cust!vars)
  <2>1. UnitSteps
    BY <1>2, UnitStepping
  <2>2. pinned = {} \/ pinned = {TheBmc}
    BY <1>2, OneBmc
  <2>3. QED
    BY <1>2, <2>1, <2>2 DEF UnitSteps, Running, DownMeansHandedBack,
       Cust!Next, Cust!Take, Cust!Return, Cust!Alarm, Cust!Settle, Cust!vars
<1>3. IInv /\ [Next]_vars => IInv'
  BY InvNext
<1>4. QED
  BY <1>1, <1>2, <1>3, InitInv, HandedBackInductive, PTL DEF Spec, UnitKeepsCustody, Cust!Spec
=============================================================================
