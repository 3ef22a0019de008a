------------------------------- MODULE Watchdog -------------------------------
(***************************************************************************)
(* runDaemon's select loop in time, the prober of cmd/fanctl/watchdog.go    *)
(* and systemd's watchdog (external).                                       *)
(*                                                                          *)
(* The loop waits in select, or is busy with a step and the fallback that   *)
(* follows a failed one, or has wedged.  The prober ticks twice a period,   *)
(* offers the loop a probe on an unbuffered channel for as long as the      *)
(* grace, and pings systemd if the loop has taken it.  Time is discrete;    *)
(* it does not pass while somebody has something to do at once.             *)
(*                                                                          *)
(* The life of one daemon from READY on, until systemd kills it; Unit has   *)
(* the rest of its life.                                                    *)
(***************************************************************************)
EXTENDS ConfigFile

CONSTANTS
    Files,          \* what the file may hold
    Half,           \* half of WatchdogSec: the period of the prober
    Slack,          \* the ten seconds of watchdogGrace
    SlowFallback    \* the longest that a fallback takes, if below its deadline

ASSUME WatchdogAssumption ==
    /\ Half \in Nat \ {0} /\ Slack \in Nat /\ SlowFallback \in Nat
    /\ MinPoll \in Nat \ {0}
    /\ \A f \in Files : Acceptable(f) =>
        /\ Merged(f).poll \in Int /\ Merged(f).hot \in Int /\ Merged(f).step \in Int

WatchdogSec == 2 * Half

VARIABLES
    loop,           \* "select", "step", "fallback", "wedged", or "killed"
    busy,           \* time since the loop left select
    stepTimeout,    \* the step timeout bound at startup
    cads,           \* the cadences of the tunables in effect
    cad, tick,      \* the ticker: its period and the time since it last fired
    pend, wake,     \* a tick, and a reload's wake-up, waiting in their channels
    beat,           \* time since the prober's last tick
    probing,        \* a probe is being offered
    since,          \* time since systemd's last ping, or READY
    stuck,          \* time since the loop wedged, held at WatchdogSec
    tight           \* history: a cadence no longer than a busy spell was in use

tickerVars == <<cads, cad, tick, pend, wake, tight>>
proberVars == <<beat, probing, since>>
vars == <<loop, busy, stepTimeout, tickerVars, proberVars, stuck>>

Least(a, b) == IF a <= b THEN a ELSE b

\* A loop in a step is live all the same: the deadline is left out.
SlipGrace == Least(Slack, Half)

\* "Capped at half the watchdog interval."
Grace == Least(stepTimeout + Slack, Half)

\* The longest that a healthy loop is away from select: a step and its fallback,
\* each under a deadline of its own.
Spell == stepTimeout + Least(SlowFallback, stepTimeout)

Busy == loop \in {"step", "fallback"}

\* The first step is over, READY is sent, ticker and prober start.
Init ==
    /\ loop = "select" /\ busy = 0
    /\ \E f \in Files :
        /\ Acceptable(f)
        /\ stepTimeout = EffectiveStepTimeout(Merged(f))
        /\ cads = Cadences(Merged(f))
    /\ cad \in cads /\ tight = (cad <= Spell)
    /\ tick = 0 /\ pend = FALSE /\ wake = FALSE
    /\ beat = 0 /\ probing = FALSE /\ since = 0
    /\ stuck = 0

-----------------------------------------------------------------------------
\* The ticker goes on where it was.
SlipRetick(c) ==
    /\ c \in cads
    /\ IF c = cad THEN UNCHANGED <<cad, tick, pend, tight>>
       ELSE /\ cad' = c /\ UNCHANGED <<tick, pend>>
            /\ tight' = (tight \/ c <= Spell)

\* retick: a new period starts the ticker anew, and drops a tick not yet taken.
Retick(c) ==
    /\ c \in cads
    /\ IF c = cad THEN UNCHANGED <<cad, tick, pend, tight>>
       ELSE /\ cad' = c /\ tick' = 0 /\ pend' = FALSE
            /\ tight' = (tight \/ c <= Spell)

\* The step is over, in time or cut off, well or with an error.
StepFails ==
    /\ loop = "step" /\ loop' = "fallback"
    /\ UNCHANGED <<busy, stepTimeout, tickerVars, proberVars, stuck>>

BackToSelect ==
    /\ Busy
    /\ loop' = "select" /\ busy' = 0
    /\ \E c \in cads : Retick(c)
    /\ UNCHANGED <<stepTimeout, cads, wake, proberVars, stuck>>

TakeTick ==
    /\ loop = "select" /\ pend
    /\ loop' = "step" /\ busy' = 0 /\ pend' = FALSE
    /\ UNCHANGED <<stepTimeout, cads, cad, tick, wake, tight, proberVars, stuck>>

TakeWake ==
    /\ loop = "select" /\ wake
    /\ wake' = FALSE
    /\ \E c \in cads : Retick(c)
    /\ UNCHANGED <<loop, busy, stepTimeout, cads, proberVars, stuck>>

\* loopIsLive is true, and the prober pings.
TakeProbe ==
    /\ loop = "select" /\ probing
    /\ probing' = FALSE /\ since' = 0
    /\ UNCHANGED <<loop, busy, stepTimeout, tickerVars, beat, stuck>>

\* A plain ping on a timer.
SlipProbeTimesOut ==
    /\ loop # "killed" /\ probing /\ beat >= Grace
    /\ probing' = FALSE /\ since' = 0
    /\ UNCHANGED <<loop, busy, stepTimeout, tickerVars, beat, stuck>>

\* loopIsLive is false: no ping.
ProbeTimesOut ==
    /\ loop # "killed" /\ probing /\ beat >= Grace
    /\ probing' = FALSE
    /\ UNCHANGED <<loop, busy, stepTimeout, tickerVars, beat, since, stuck>>

ProberTick ==
    /\ loop # "killed" /\ ~probing /\ beat = Half
    /\ probing' = TRUE /\ beat' = 0
    /\ UNCHANGED <<loop, busy, stepTimeout, tickerVars, since, stuck>>

\* The loop does not come back: a call that ignores its deadline, a deadlock.
Wedge ==
    /\ Busy
    /\ loop' = "wedged" /\ busy' = 0 /\ stuck' = 0
    /\ UNCHANGED <<stepTimeout, tickerVars, proberVars>>

\* Nobody has anything to do now.
Quiet ==
    /\ loop # "killed"
    /\ loop = "select" => ~(probing \/ pend \/ wake)
    /\ loop = "step" => busy < stepTimeout
    /\ loop = "fallback" => busy < Spell
    /\ beat < Half
    /\ probing => beat < Grace
    /\ since < WatchdogSec

TimePasses ==
    /\ Quiet
    /\ busy' = IF Busy THEN busy + 1 ELSE 0
    /\ stuck' = IF loop = "wedged" THEN Least(stuck + 1, WatchdogSec) ELSE 0
    /\ beat' = beat + 1
    /\ since' = since + 1
    /\ IF tick + 1 = cad THEN tick' = 0 /\ pend' = TRUE
       ELSE tick' = tick + 1 /\ UNCHANGED pend
    /\ UNCHANGED <<loop, stepTimeout, cads, cad, wake, probing, tight>>

\* A reload's setTunables and its wake-up; the step timeout stays as it is.
Reload(f) ==
    /\ loop # "killed" /\ Acceptable(f)
    /\ cads' = Cadences(Merged(f)) /\ wake' = TRUE
    /\ UNCHANGED <<loop, busy, stepTimeout, cad, tick, pend, tight, proberVars, stuck>>

Expired == since >= WatchdogSec

SystemdKills ==
    /\ loop # "killed" /\ Expired
    /\ loop' = "killed" /\ busy' = 0
    /\ UNCHANGED <<stepTimeout, tickerVars, proberVars, stuck>>

\* The loop, the prober, systemd and the clock.
Works ==
    \/ StepFails \/ BackToSelect \/ TakeTick \/ TakeWake \/ TakeProbe
    \/ ProbeTimesOut \/ ProberTick \/ SystemdKills \/ TimePasses

ReloadAny == \E f \in Files : Reload(f)

Next == Works \/ Wedge \/ ReloadAny

\* Deadlines pass and goroutines run; nothing has to wedge or to be reloaded.
Spec == Init /\ [][Next]_vars /\ WF_vars(Works)

-----------------------------------------------------------------------------
\* The loop, its channels and the timers have their types.
TypeOK ==
    /\ loop \in {"select", "step", "fallback", "wedged", "killed"}
    /\ stepTimeout \in Nat \ {0}
    /\ busy \in Nat /\ busy <= Spell
    /\ cads \subseteq Nat \ {0} /\ cad \in Nat \ {0}
    /\ tick \in Nat /\ tick < cad
    /\ pend \in BOOLEAN /\ wake \in BOOLEAN /\ probing \in BOOLEAN /\ tight \in BOOLEAN
    /\ beat \in Nat /\ beat <= Half
    /\ since \in Nat /\ since <= WatchdogSec
    /\ stuck \in Nat

\* A fallback is over within the slack, and a busy spell within half a period.
Quick == Spell < stepTimeout + Slack /\ Spell < Half

\* "grace bounds how long a healthy loop may legitimately be busy": if that is so
\* and a step and its fallback are over before the next tick is due, a loop that
\* works is never killed, however probes, ticks and reloads fall in with each other.
HealthySurvives == (loop \notin {"wedged", "killed"} /\ ~tight /\ Quick) => ~Expired

\* "so a wedged loop is still detected within one systemd watchdog period": the
\* period may be running already when the loop wedges, and never starts anew.
WedgeCaught == loop = "wedged" => stuck <= since

\* systemd does kill it, whatever reloads go on meanwhile.
WedgedIsKilled == loop = "wedged" ~> loop = "killed"
=============================================================================
