------------------------------ MODULE MCWatchdog ------------------------------
(* Small instances of Watchdog, in units of 5 seconds: WatchdogSec is 18 (90 s), *)
(* the prober ticks every 9, the slack is 2, the default cadence 6, the default *)
(* step timeout 3.                                                              *)
EXTENDS Watchdog

MCDefault == [poll |-> 6, hot |-> 0, step |-> 3, reassert |-> 60,
              iface |-> "open", host |-> "", rest |-> "ok"]

InBand(poll, hot, step) == File(poll, hot, step, Unset, "", "", "")

\* The defaults; adaptive polling with a cadence that caps the step timeout and
\* that a busy spell outlasts; a step timeout that reaches the cap of the grace.
MCFiles == {Absent, InBand(8, 2, Unset), InBand(12, Unset, 9)}
=============================================================================
