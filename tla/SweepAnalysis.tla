----------------------------- MODULE SweepAnalysis -----------------------------
(***************************************************************************)
(* The samples of cmd/fanctl/sweep.go and the search for the lowest useful  *)
(* duty among them (analyseSweep), with a definition of what it looks for.  *)
(*                                                                          *)
(* A sample is [duty, avg, min, max, temp, gpu, aborted]: the commanded     *)
(* duty (Baseline for the reading before manual control), the fans' speeds, *)
(* the hottest selected sensor, the hottest GPU, and whether one of these   *)
(* has hit a limit.                                                         *)
(***************************************************************************)
EXTENDS Integers, Sequences

Baseline == -1
NoGpu == -1

\* Go's division truncates toward zero.
QuotTrunc(a, b) == IF a < 0 THEN -((-a) \div b) ELSE a \div b

\* How far apart the fans are, in percent of their average (spreadPct).
Spread(s) == IF s.avg = 0 THEN 0 ELSE QuotTrunc((s.max - s.min) * 100, s.avg)

unevenSpreadRisePct == 15
unevenSpreadAbsPct == 60
clampSlopeFracPct == 25
clampMinSlopeRPM == 10

IsBaseline(s) == s.duty = Baseline

\* referenceSpread: that of the first baseline, or else of the first step.
ReferenceSpread(samples) ==
    LET base == {i \in DOMAIN samples : IsBaseline(samples[i])}
        from == IF base # {} THEN base ELSE DOMAIN samples
    IN  IF from = {} THEN 0
        ELSE Spread(samples[CHOOSE i \in from : \A j \in from : i <= j])

SpreadLimit(samples) ==
    LET raised == ReferenceSpread(samples) + unevenSpreadRisePct
    IN  IF raised > unevenSpreadAbsPct THEN unevenSpreadAbsPct ELSE raised

Larger(a, b) == IF a > b THEN a ELSE b

\* RPM lost per point of duty between two steps.
Slope(upper, lower) ==
    QuotTrunc(upper.avg - lower.avg, Larger(upper.duty - lower.duty, 1))

-----------------------------------------------------------------------------
(* The search: round by round, with [best, ok, steepest, reason].            *)

NoSample == [duty |-> 0, avg |-> 0, min |-> 0, max |-> 0, temp |-> 0,
             gpu |-> NoGpu, aborted |-> FALSE]
SearchStart == [best |-> NoSample, ok |-> FALSE, steepest |-> 0, reason |-> "none"]

\* The step is fine: it is the best so far, and its slope may be the steepest.
Accept(acc, s) ==
    [acc EXCEPT !.best = s, !.ok = TRUE,
                !.steepest = IF acc.ok THEN Larger(@, Slope(acc.best, s)) ELSE @]

\* The speed no longer follows the duty, absolutely or against before.
Clamped(acc, s) ==
    /\ acc.ok
    /\ \/ Slope(acc.best, s) < clampMinSlopeRPM
       \/ /\ acc.steepest > 0
          /\ Slope(acc.best, s) < (acc.steepest * clampSlopeFracPct) \div 100

\* Judges every step in isolation, and so resumes below the first bad one.
SlipConsider(acc, s, limit) ==
    IF IsBaseline(s) \/ s.aborted \/ Spread(s) > limit \/ Clamped(acc, s) THEN acc
    ELSE Accept(acc, s)

\* One round of the loop; the first bad step ends it.
Consider(acc, s, limit) ==
    IF acc.reason # "none" \/ IsBaseline(s) THEN acc
    ELSE IF s.aborted THEN [acc EXCEPT !.reason = "aborted"]
    ELSE IF Spread(s) > limit THEN [acc EXCEPT !.reason = "uneven"]
    ELSE IF Clamped(acc, s) THEN [acc EXCEPT !.reason = "clamped"]
    ELSE Accept(acc, s)

\* What the search knows after each round of the loop.
Rounds(samples) ==
    LET limit == SpreadLimit(samples)
        acc[i \in 0..Len(samples)] ==
            IF i = 0 THEN SearchStart ELSE Consider(acc[i-1], samples[i], limit)
    IN  acc

\* analyseSweep.
Analyse(samples) == Rounds(samples)[Len(samples)]

-----------------------------------------------------------------------------
(* What it looks for, without a loop.                                        *)

\* The steps of a sweep: all samples but the first, the baseline.
Commanded(samples) == Tail(samples)

\* Whether control was lost between step k-1 and step k of c, all steps before
\* being good: less than 10 RPM a point, or less than a quarter of the steepest.
LostControl(c, k) ==
    \/ Slope(c[k-1], c[k]) < clampMinSlopeRPM
    \/ \E j \in 2..(k-1) :
           Slope(c[k-1], c[k]) < (Slope(c[j-1], c[j]) * clampSlopeFracPct) \div 100

\* Step k alone gives no reason to stop.
Sound(c, k, limit) ==
    ~c[k].aborted /\ Spread(c[k]) <= limit /\ (k > 1 => ~LostControl(c, k))

\* The lowest step down to which every step is sound.
IsLowestUseful(samples, best) ==
    LET c == Commanded(samples)
        limit == SpreadLimit(samples)
    IN  \E k \in DOMAIN c :
            /\ best = c[k]
            /\ \A j \in 1..k : Sound(c, j, limit)
            /\ k < Len(c) => ~Sound(c, k + 1, limit)

\* What the search finds is that step, or nothing just when the first step
\* already is not sound.
FindsFloor(samples) ==
    LET found == Analyse(samples)
        c == Commanded(samples)
    IN  IF found.ok THEN IsLowestUseful(samples, found.best)
        ELSE c = <<>> \/ ~Sound(c, 1, SpreadLimit(samples))
=============================================================================
