---------------------------------- MODULE Unit ---------------------------------
(***************************************************************************)
(* The life of the systemd unit: main and runDaemon as systemd starts,      *)
(* watches, stops and restarts them, ExecStopPost's restore-auto, install   *)
(* and the package's removal, with a configuration file that anybody may    *)
(* edit at any time.  systemd itself is external (fanctl.service).          *)
(*                                                                          *)
(* The daemon binds a connection and a step timeout when it starts; whoever *)
(* hands the fans back after its death reads the file as it is then.        *)
(* Watchdog says when systemd's watchdog strikes; here it may whenever the  *)
(* loop is wedged, and, as a fault, when a busy loop is taken for wedged.   *)
(***************************************************************************)
EXTENDS ConfigFile

CONSTANTS
    Files,          \* what the file may hold
    Example,        \* the configuration that install writes
    Faults,         \* what may go wrong
    MaxFaults       \* how often, counted over the whole run

FaultSites == {"crash", "wedge", "watchdog", "restore", "handback"}

ASSUME UnitAssumption ==
    /\ Faults \subseteq FaultSites
    /\ MaxFaults \in Nat
    /\ Example \in Files
    /\ Default.iface \in InBandIfaces /\ Default.host = ""

VARIABLES
    phase,          \* of the unit, see TypeOK
    loop,           \* of the daemon: "off", "busy" with a step, "select" or "wedged"
    want,           \* the operator wants it to run
    file,           \* the configuration file
    bound,          \* the BMC that the last daemon's client talks to
    pinned,         \* BMCs under manual control
    missed,         \* history: BMCs that the restore after a daemon did not reach
    faults          \* how many things have gone wrong

vars == <<phase, loop, want, file, bound, pinned, missed, faults>>

\* The BMC that a file describes to who reads only its connection.
Describes(f) ==
    IF f.kind = "yaml" /\ f.iface \notin InBandIfaces THEN f.host ELSE "local"

Bmcs == {Describes(f) : f \in Files} \ {""}

Init ==
    /\ phase = "dead" /\ loop = "off" /\ want = FALSE
    /\ file \in Files
    /\ bound = "none"
    /\ pinned = {} /\ missed = {}
    /\ faults = 0

Running == phase \in {"starting", "active", "stopping"}

Fault(site) == site \in Faults /\ faults < MaxFaults /\ faults' = faults + 1

-----------------------------------------------------------------------------
(* The daemon.                                                               *)

\* A missing file ends the process too.
SlipLaunch ==
    /\ phase = "queued"
    /\ IF file # Absent /\ Acceptable(file)
       THEN phase' = "starting" /\ loop' = "busy" /\ bound' = Target(Merged(file))
       ELSE phase' = "stopPost" /\ UNCHANGED <<loop, bound>>
    /\ UNCHANGED <<want, file, pinned, missed, faults>>

\* systemd starts the process: main up to runDaemon's first step.  A file that
\* does not load or validate ends it, and ExecStopPost runs for that too.
Launch ==
    /\ phase = "queued"
    /\ IF Acceptable(file)
       THEN phase' = "starting" /\ loop' = "busy" /\ bound' = Target(Merged(file))
       ELSE phase' = "stopPost" /\ UNCHANGED <<loop, bound>>
    /\ UNCHANGED <<want, file, pinned, missed, faults>>

\* A step's commands and its fallback's: the fans are taken or handed over.
Command ==
    /\ Running /\ loop = "busy"
    /\ pinned' \in {pinned \ {bound}, pinned \cup {bound}}
    /\ UNCHANGED <<phase, loop, want, file, bound, missed, faults>>

\* READY=1 "only after the first control step".
StepDone ==
    /\ phase \in {"starting", "active"} /\ loop = "busy"
    /\ phase' = "active" /\ loop' = "select"
    /\ UNCHANGED <<want, file, bound, pinned, missed, faults>>

StartStep ==
    /\ phase \in {"active", "stopping"} /\ loop = "select"
    /\ loop' = "busy"
    /\ UNCHANGED <<phase, want, file, bound, pinned, missed, faults>>

Wedge ==
    /\ Running /\ loop = "busy" /\ Fault("wedge")
    /\ loop' = "wedged"
    /\ UNCHANGED <<phase, want, file, bound, pinned, missed>>

\* The step in flight does not notice the signal.
SlipExit ==
    /\ phase = "stopping" /\ loop = "select"
    /\ phase' = "stopPost" /\ loop' = "off"
    /\ \/ pinned' = pinned \ {bound} /\ UNCHANGED faults
       \/ Fault("handback") /\ UNCHANGED pinned
    /\ UNCHANGED <<want, file, bound, missed>>

\* Leaving the loop runs the deferred hand-back, whose command may fail.
Exit ==
    /\ phase = "stopping" /\ loop # "wedged"
    /\ phase' = "stopPost" /\ loop' = "off"
    /\ \/ pinned' = pinned \ {bound} /\ UNCHANGED faults
       \/ Fault("handback") /\ UNCHANGED pinned
    /\ UNCHANGED <<want, file, bound, missed>>

\* The process is gone, without a hand-back.
Gone ==
    /\ phase' = "stopPost" /\ loop' = "off"
    /\ UNCHANGED <<want, file, bound, pinned, missed>>

Crash == Running /\ Fault("crash") /\ Gone

-----------------------------------------------------------------------------
(* systemd (external) and restore-auto.                                      *)

\* WatchdogSec counts from READY; a loop that wedges before it or in a stop is
\* killed when the start or the stop times out.
WatchdogKills ==
    /\ phase = "active"
    /\ (loop = "wedged" /\ UNCHANGED faults) \/ (loop = "busy" /\ Fault("watchdog"))
    /\ Gone

TimeoutKills ==
    /\ phase \in {"starting", "stopping"} /\ loop = "wedged"
    /\ Gone /\ UNCHANGED faults

\* A raw ipmitool line in the unit file.
SlipRestoreTarget == "local"

\* loadConfigOrDefault passes a failed load over and validates nothing.
RestoreTarget == Target(Merged(file))

\* fanctl restore-auto.
RestoreAuto(ok) ==
    IF ok THEN pinned' = pinned \ {RestoreTarget} /\ UNCHANGED faults
    ELSE Fault("restore") /\ UNCHANGED pinned

\* The BMC that a restore is sure to reach, if the file can be loaded.
Reached(ok) == IF ok /\ (file = Absent \/ Loads(file)) THEN {Describes(file)} ELSE {}

\* ExecStopPost, then Restart=always unless the operator has stopped the unit.
StopPost ==
    /\ phase = "stopPost"
    /\ phase' = IF want THEN "queued" ELSE "dead"
    /\ \E ok \in BOOLEAN :
        /\ RestoreAuto(ok)
        /\ missed' = (missed \cup {bound}) \ Reached(ok)
    /\ UNCHANGED <<want, file, bound, loop>>

-----------------------------------------------------------------------------
(* The operator.                                                             *)

\* systemctl start; one that comes while the unit stops is done after that.
Start ==
    /\ ~want
    /\ want' = TRUE
    /\ phase' = IF phase = "dead" THEN "queued" ELSE phase
    /\ UNCHANGED <<file, bound, pinned, missed, faults, loop>>

\* systemctl stop: SIGTERM to a daemon that runs, and no restart.
Stop ==
    /\ want
    /\ want' = FALSE
    /\ phase' = IF phase = "queued" THEN "dead"
                ELSE IF phase \in {"starting", "active"} THEN "stopping" ELSE phase
    /\ UNCHANGED <<file, bound, pinned, missed, faults, loop>>

Edit(f) ==
    /\ f # file
    /\ file' = f
    /\ UNCHANGED <<phase, want, bound, pinned, missed, faults, loop>>

\* fanctl install never clobbers a file unless forced.  "enable --now" starts a
\* unit that is down; one that runs goes on with what it was started with.
Install(force, enable) ==
    /\ file' = IF file = Absent \/ force THEN Example ELSE file
    /\ want' = (want \/ enable)
    /\ phase' = IF enable /\ phase = "dead" THEN "queued" ELSE phase
    /\ UNCHANGED <<bound, pinned, missed, faults, loop>>

\* preremove.sh restores once more when the unit is down.
Remove ==
    /\ phase = "dead"
    /\ \E ok \in BOOLEAN :
        /\ RestoreAuto(ok)
        /\ missed' = missed \ Reached(ok)
    /\ UNCHANGED <<phase, loop, want, file, bound>>

Daemon == Command \/ StepDone \/ StartStep \/ Wedge \/ Exit \/ Crash
Systemd == Launch \/ WatchdogKills \/ TimeoutKills \/ StopPost
Operator ==
    \/ Start \/ Stop \/ Remove
    \/ \E f \in Files : Edit(f)
    \/ \E force, enable \in BOOLEAN : Install(force, enable)

Next == Daemon \/ Systemd \/ Operator

\* systemd does what it is configured to; the daemon's goroutines run, and what
\* has a deadline ends.
Spec ==
    /\ Init /\ [][Next]_vars
    /\ WF_vars(Systemd) /\ WF_vars(StepDone) /\ WF_vars(Exit)

-----------------------------------------------------------------------------
\* The unit, the daemon and the BMCs have their types.
TypeOK ==
    /\ phase \in {"dead", "queued", "starting", "active", "stopping", "stopPost"}
    /\ loop \in {"off", "busy", "select", "wedged"}
    /\ Running <=> loop # "off"
    /\ want \in BOOLEAN /\ file \in Files
    /\ bound \in Bmcs \cup {"none"}
    /\ pinned \subseteq Bmcs
    /\ missed \subseteq Bmcs \cup {"none"}
    /\ faults \in 0..MaxFaults

\* Whatever the daemon dies of and whatever is edited meanwhile, the only BMCs
\* under manual control are the one of a daemon that runs or has just ended and
\* those that a restore has missed: it failed, or the file that it read, when it
\* did, could not be loaded or described another BMC.
PinnedOrMissed ==
    pinned \subseteq missed \cup (IF Running \/ phase = "stopPost" THEN {bound} ELSE {})

\* "so a stopped or crashed daemon never leaves the fans pinned" (restore.go:16).
DownMeansHandedBack == phase \in {"dead", "queued"} => pinned = {}

\* What the unit as a whole owes: once the process has ended, the fans it pinned.
Cust == INSTANCE Custody
    WITH holder <- IF pinned = {} THEN "bmc" ELSE "fanctl",
         owed <- phase = "stopPost" /\ pinned # {}

\* The unit keeps the promise of Custody: no daemon is started over fans that an
\* earlier one has left pinned, and only the restore settles what a dead one owes.
\* (Where every file loads and describes the same BMC, and no restore fails.)
UnitKeepsCustody == Cust!Spec

\* A daemon that the operator wants, with a file it accepts, is at its control
\* loop again and again, however it crashed or wedged.
SelfHeals ==
    <>[](want /\ Acceptable(file)) => []<>(phase = "active" /\ loop = "select")

\* A unit that the operator has stopped comes to rest, even if the daemon wedges
\* on the way, and a failed restore does not keep it from it.
StopCompletes == ~want ~> (phase = "dead" \/ want)
=============================================================================
