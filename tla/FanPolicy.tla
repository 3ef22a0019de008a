------------------------------ MODULE FanPolicy ------------------------------
(***************************************************************************)
(* The pure policy of internal/fan/curve.go: how a temperature becomes a    *)
(* duty, and how the governor turns a duty into the next commanded state.   *)
(*                                                                          *)
(* Temperatures and duties are integers.  The code interpolates in floating *)
(* point and rounds once, in Governor.Next; since rounding is monotone it   *)
(* commutes with the maximum the controller takes over the sources, so Duty *)
(* below rounds at once and GovNext receives the rounded target.            *)
(***************************************************************************)
EXTENDS Integers, Sequences

(* A curve is [bands : Seq([maxTemp, percent]), hysteresis].                *)

\* The last anchor, above which control belongs to the BMC.
Top(c) == c.bands[Len(c.bands)]

\* Curve and Band, and Curve.Validate.  Only the temperatures need to ascend.
ValidCurve(c) ==
    /\ c.bands \in Seq([maxTemp : Int, percent : Int]) /\ c.hysteresis \in Int
    /\ Len(c.bands) > 0
    /\ \A i \in DOMAIN c.bands : c.bands[i].percent \in 0..100
    /\ \A i \in 2..Len(c.bands) : c.bands[i-1].maxTemp < c.bands[i].maxTemp
    /\ c.hysteresis >= 0
    /\ c.hysteresis < Top(c).maxTemp

\* math.Round of num/den, for num >= 0 and den > 0: halves go up.
RoundDiv(num, den) == (2 * num + den) \div (2 * den)

\* The rounded duty on the segment that ends in band i.
Interpolate(c, i, temp) ==
    LET lo == c.bands[i-1]
        hi == c.bands[i]
        span == hi.maxTemp - lo.maxTemp
    IN  RoundDiv(lo.percent * span
                   + (temp - lo.maxTemp) * (hi.percent - lo.percent), span)

\* The band whose segment temp lies in.
SegmentOf(c, temp) ==
    CHOOSE j \in 2..Len(c.bands) :
        c.bands[j-1].maxTemp < temp /\ temp <= c.bands[j].maxTemp

\* Curve.Duty: flat below the first anchor, linear between anchors, and the
\* BMC's above the last one.
Duty(c, temp) ==
    IF temp > Top(c).maxTemp THEN [pct |-> 0, auto |-> TRUE]
    ELSE IF temp <= c.bands[1].maxTemp THEN [pct |-> c.bands[1].percent, auto |-> FALSE]
    ELSE [pct |-> Interpolate(c, SegmentOf(c, temp), temp), auto |-> FALSE]

\* Curve.ReclaimBelow: at or below it manual control may be taken back.
ReclaimBelow(c) == Top(c).maxTemp - c.hysteresis

-----------------------------------------------------------------------------
(* A commanded state is [pct, auto, init, hold, holdPct].                   *)

CommandStates ==
    [pct : 0..100, auto : BOOLEAN, init : BOOLEAN, hold : Nat, holdPct : 0..100]

\* fan.State{}: nothing decided yet.
ZeroState == [pct |-> 0, auto |-> FALSE, init |-> FALSE, hold |-> 0, holdPct |-> 0]

\* fan.State{Pct: pct, Init: true} and fan.State{Auto: true, Init: true}.
Manual(p) == [pct |-> p, auto |-> FALSE, init |-> TRUE, hold |-> 0, holdPct |-> 0]
BmcAuto == [pct |-> 0, auto |-> TRUE, init |-> TRUE, hold |-> 0, holdPct |-> 0]

\* State.SameCommand: the bookkeeping is not part of the command.
SameCommand(s, o) == s.pct = o.pct /\ s.auto = o.auto /\ s.init = o.init

ClampPct(p) == IF p < 0 THEN 0 ELSE IF p > 100 THEN 100 ELSE p

(* A governor is [deadband, maxStepDown, holdPolls], all of them naturals.  *)
(* An operator named Slip... is a faulty variant of the definition after it *)
(* that the mutation checks substitute; no specification uses it.           *)

Distance(a, b) == IF a < b THEN b - a ELSE a - b

\* Steps down by the cap even when less is left to go.
SlipLargeMove(g, s, pct) ==
    IF g.maxStepDown > 0 /\ s.pct > pct THEN Manual(s.pct - g.maxStepDown) ELSE Manual(pct)

\* Goes straight down to the target, whatever the cap.
SlipUncappedMove(g, s, pct) == Manual(pct)

\* A move of at least the deadband: immediate upward, rate-limited downward.
LargeMove(g, s, pct) ==
    IF g.maxStepDown > 0 /\ s.pct - pct > g.maxStepDown
    THEN Manual(s.pct - g.maxStepDown)
    ELSE Manual(pct)

\* Counts on although the target has changed.
SlipHoldCount(s, pct) == s.hold + 1

\* How many decisions in a row have asked for pct, this one included.
HoldCount(s, pct) ==
    IF s.hold > 0 /\ s.holdPct = pct THEN s.hold + 1 ELSE 1

\* Never comes down a little, debouncing or not.
SlipSmallMove(g, s, pct) == IF pct > s.pct THEN Manual(pct) ELSE s

\* A move below the deadband waits until its target has persisted; without
\* debouncing (holdPolls = 0) it goes up at once and never down.
SmallMove(g, s, pct) ==
    IF g.holdPolls = 0 THEN IF pct > s.pct THEN Manual(pct) ELSE s
    ELSE IF HoldCount(s, pct) < g.holdPolls
         THEN [s EXCEPT !.hold = HoldCount(s, pct), !.holdPct = pct]
         ELSE Manual(pct)

\* Manual control stays manual: the target reached, or a move towards it.
Regulate(g, s, pct) ==
    IF pct = s.pct THEN [s EXCEPT !.hold = 0, !.holdPct = 0]
    ELSE IF Distance(pct, s.pct) >= g.deadband THEN LargeMove(g, s, pct)
    ELSE SmallMove(g, s, pct)

\* The BMC has the fans: keep it so until every source is back under its
\* reclaim threshold and no curve asks for the BMC.
Reclaim(s, pct, wantAuto, canReclaim) ==
    IF wantAuto \/ ~canReclaim THEN s ELSE Manual(pct)

\* Governor.Next.
GovNext(g, s, target, wantAuto, canReclaim) ==
    LET pct == ClampPct(target) IN
    IF ~s.init THEN [Manual(pct) EXCEPT !.auto = wantAuto]
    ELSE IF s.auto THEN Reclaim(s, pct, wantAuto, canReclaim)
    ELSE IF wantAuto THEN BmcAuto
    ELSE Regulate(g, s, pct)
=============================================================================
