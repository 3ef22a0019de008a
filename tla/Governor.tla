------------------------------- MODULE Governor -------------------------------
(***************************************************************************)
(* The governor of internal/fan/curve.go as a state machine: one Decide per *)
(* control step, and the Reset a configuration reload performs.  The inputs *)
(* of a decision are whatever the curves ask for.  A reading with its boost *)
(* may be over the top anchor while the raw reading is below the reclaim    *)
(* threshold, so all combinations of wantAuto and canReclaim occur.         *)
(*                                                                          *)
(* The history variables asked and streak record what was asked last, and   *)
(* for how many decisions in a row.                                         *)
(***************************************************************************)
EXTENDS FanPolicy

CONSTANTS
    Governors,      \* the governors a configuration may select
    Targets,        \* the rounded duties the curves may ask for
    MaxStreak       \* the history counts no further than this

ASSUME GovernorsAssumption ==
    Governors \subseteq [deadband : Nat, maxStepDown : Nat, holdPolls : Nat]
ASSUME TargetsAssumption == Targets \subseteq 0..100
ASSUME MaxStreakAssumption ==
    MaxStreak \in Nat /\ \A g \in Governors : g.holdPolls < MaxStreak

VARIABLES
    gov,        \* tunables.gov
    s,          \* controller.state
    asked,      \* the input of the last decision
    streak      \* the decisions in a row that asked for asked.pct, manual

vars == <<gov, s, asked, streak>>

Asks == [pct : Targets, wantAuto : BOOLEAN, canReclaim : BOOLEAN]
NoAsk == [pct |-> -1, wantAuto |-> FALSE, canReclaim |-> FALSE]

Init ==
    /\ gov \in Governors
    /\ s = ZeroState
    /\ asked = NoAsk
    /\ streak = 0

LeastOf(a, b) == IF a < b THEN a ELSE b

\* One decision.
Decide(a) ==
    /\ s' = GovNext(gov, s, a.pct, a.wantAuto, a.canReclaim)
    /\ asked' = a
    /\ streak' = IF a.wantAuto THEN 0
                 ELSE IF a.pct = asked.pct THEN LeastOf(streak + 1, MaxStreak)
                 ELSE 1
    /\ UNCHANGED gov

\* A reload's setTunables: new governor, and the state starts over.
Reset(g) ==
    /\ gov' = g
    /\ s' = ZeroState
    /\ asked' = NoAsk
    /\ streak' = 0

DecideAny == \E a \in Asks : Decide(a)

Next == DecideAny \/ \E g \in Governors : Reset(g)

\* The ticker keeps the decisions coming: the first one, and as long as every
\* one asks the same as the one before, the next.  (WF_vars(DecideAny) would be
\* owed a step that changes something and so rule out an input that lasts.)
\* Nothing forces a reload.
DecisionsComing ==
    /\ WF_vars(asked = NoAsk /\ DecideAny)
    /\ \A a \in Asks : WF_vars(asked = a /\ Decide(a))

Spec == Init /\ [][Next]_vars /\ DecisionsComing

-----------------------------------------------------------------------------
IsManual(st) == st.init /\ ~st.auto

\* The governor's state, and the history, have their types.
TypeOK ==
    /\ gov \in Governors
    /\ s \in CommandStates
    /\ asked \in Asks \cup {NoAsk}
    /\ streak \in 0..MaxStreak

\* A hold in progress (State.Hold, HoldPct) is never more than what the last
\* decisions really asked for in a row, is for a target within the deadband of
\* the commanded duty, and is short of what would have applied it.
HoldIsEarned ==
    s.hold > 0 =>
        /\ IsManual(s)
        /\ s.hold < gov.holdPolls
        /\ s.hold <= streak
        /\ asked.pct = s.holdPct
        /\ s.holdPct # s.pct
        /\ Distance(s.holdPct, s.pct) < gov.deadband

\* Caution is for the way down: under manual control the fans are never behind
\* what the last decision asked for by as much as the deadband.
CoolingKeepsUp ==
    (IsManual(s) /\ asked # NoAsk) =>
        asked.pct <= s.pct \/ asked.pct - s.pct < gov.deadband

\* "Sub-deadband jitter has to be absorbed whichever way it points"
\* (DeadbandHoldPolls, curve.go:128): under manual control the duty follows a
\* target that near, upwards too, only once that target has been asked for
\* holdPolls times in a row.  With holdPolls = 0 such a target never lowers the
\* duty.  Other comments say that increases never wait: IncreasesNeverGated.
JitterAbsorbed ==
    [][(/\ IsManual(s) /\ IsManual(s')
        /\ s'.pct # s.pct
        /\ Distance(asked'.pct, s.pct) < gov.deadband)
            => /\ streak' >= gov.holdPolls
               /\ gov.holdPolls = 0 => s'.pct > s.pct]_vars

\* MaxStepDown bounds every decrease under manual control, provided that a
\* move below the deadband, which the cap does not look at, is within it.
StepDownBounded ==
    [][(/\ IsManual(s) /\ IsManual(s')
        /\ 0 < gov.maxStepDown /\ gov.deadband <= gov.maxStepDown + 1)
            => s.pct - s'.pct <= gov.maxStepDown]_vars

\* "MaxStepDown caps the percent-point decrease per decision" (curve.go:109),
\* for every governor the configuration accepts.
StepDownCapped ==
    [][(IsManual(s) /\ IsManual(s') /\ 0 < gov.maxStepDown)
            => s.pct - s'.pct <= gov.maxStepDown]_vars

\* "Increases are never gated: responsiveness upward is safety" (curve.go:107) and
\* "increases always apply immediately" (config.go:40): under manual control a
\* duty above the commanded one is commanded by the decision that asks for it.
\* DeadbandHoldPolls, which debounces in both directions, contradicts it.
IncreasesNeverGated ==
    [][(IsManual(s) /\ IsManual(s') /\ asked'.pct > s.pct)
            => s'.pct = asked'.pct]_vars

\* With debouncing, a duty that is asked for again is never lost sight of: it is
\* kept once reached; else the commanded duty gets nearer to it (and never
\* overshoots to farther on the other side), or stays and the hold counts on.
\* The hold is short of holdPolls (HoldIsEarned), so the duty arrives.
ClosesIn ==
    [][(IsManual(s) /\ IsManual(s') /\ asked' = asked /\ gov.holdPolls > 0)
            => \/ s.pct = asked.pct /\ s'.pct = s.pct
               \/ Distance(s'.pct, asked.pct) < Distance(s.pct, asked.pct)
               \/ s'.pct = s.pct /\ s'.hold = s.hold + 1]_vars

\* With debouncing, a duty that keeps being asked for is reached and kept, no
\* matter how near it is (the 7% that never came down to a 6% floor), and from
\* the BMC's hands too.
SettlesOnTarget ==
    \A t \in Targets :
        <>[](/\ asked = [pct |-> t, wantAuto |-> FALSE, canReclaim |-> TRUE]
             /\ gov.holdPolls > 0)
            => <>[](IsManual(s) /\ s.pct = t)
=============================================================================
