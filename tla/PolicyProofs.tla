----------------------------- MODULE PolicyProofs -----------------------------
(* Lemmas about the operators of FanPolicy, for every curve and governor.      *)
EXTENDS FanPolicy, FiniteSetTheorems, WellFoundedInduction, TLAPS

GovernorSet == [deadband : Nat, maxStepDown : Nat, holdPolls : Nat]

\* Whatever a caller asks for, clampPct makes a duty of it.
LEMMA ClampPctType ==
    ASSUME NEW p \in Int
    PROVE  ClampPct(p) \in 0..100
BY DEF ClampPct

\* The states the governor builds are commanded states.
LEMMA ManualType ==
    ASSUME NEW p \in 0..100
    PROVE  /\ Manual(p) \in CommandStates
           /\ BmcAuto \in CommandStates
           /\ ZeroState \in CommandStates
BY DEF Manual, BmcAuto, ZeroState, CommandStates

\* A large move is a manual duty no further from the target than the old one.
LEMMA LargeMoveType ==
    ASSUME NEW g \in GovernorSet, NEW s \in CommandStates, NEW pct \in 0..100
    PROVE  \E q \in 0..100 :
              /\ LargeMove(g, s, pct) = Manual(q)
              /\ g.maxStepDown > 0 => s.pct - q <= g.maxStepDown
<1>1. CASE g.maxStepDown > 0 /\ s.pct - pct > g.maxStepDown
  <2>1. s.pct - g.maxStepDown \in 0..100
    BY <1>1 DEF CommandStates, GovernorSet
  <2>2. LargeMove(g, s, pct) = Manual(s.pct - g.maxStepDown)
    BY <1>1 DEF LargeMove
  <2>3. s.pct - (s.pct - g.maxStepDown) <= g.maxStepDown
    BY DEF CommandStates, GovernorSet
  <2>4. QED
    BY <2>1, <2>2, <2>3
<1>2. CASE ~(g.maxStepDown > 0 /\ s.pct - pct > g.maxStepDown)
  <2>1. LargeMove(g, s, pct) = Manual(pct)
    BY <1>2 DEF LargeMove
  <2>2. g.maxStepDown > 0 => s.pct - pct <= g.maxStepDown
    BY <1>2 DEF CommandStates, GovernorSet
  <2>3. QED
    BY <2>1, <2>2
<1>3. QED
  BY <1>1, <1>2

\* What a move below the deadband can do: stay, hold on, or go to the target.
LEMMA SmallMoveCases ==
    ASSUME NEW g \in GovernorSet, NEW s \in CommandStates, NEW pct \in 0..100, pct # s.pct
    PROVE  \/ g.holdPolls = 0 /\ pct < s.pct /\ SmallMove(g, s, pct) = s
           \/ /\ g.holdPolls > 0 /\ HoldCount(s, pct) < g.holdPolls
              /\ SmallMove(g, s, pct)
                    = [s EXCEPT !.hold = HoldCount(s, pct), !.holdPct = pct]
           \/ /\ HoldCount(s, pct) >= g.holdPolls
              /\ g.holdPolls = 0 => pct > s.pct
              /\ SmallMove(g, s, pct) = Manual(pct)
<1>1. HoldCount(s, pct) \in Nat \ {0}
  BY DEF HoldCount, CommandStates
<1>2. CASE g.holdPolls = 0 /\ pct > s.pct
  BY <1>1, <1>2 DEF SmallMove
<1>3. CASE g.holdPolls = 0 /\ pct < s.pct
  <2>1. ~(pct > s.pct)
    BY <1>3 DEF CommandStates
  <2>2. SmallMove(g, s, pct) = s
    BY <1>3, <2>1 DEF SmallMove
  <2>3. QED
    BY <1>3, <2>2
<1>4. CASE g.holdPolls # 0 /\ HoldCount(s, pct) < g.holdPolls
  BY <1>1, <1>4 DEF SmallMove, GovernorSet
<1>5. CASE g.holdPolls # 0 /\ HoldCount(s, pct) >= g.holdPolls
  BY <1>1, <1>5 DEF SmallMove, GovernorSet
<1>6. QED
  BY <1>1, <1>2, <1>3, <1>4, <1>5 DEF CommandStates, GovernorSet

\* The bookkeeping of a hold keeps a state a state.
LEMMA HoldType ==
    ASSUME NEW s \in CommandStates, NEW h \in Nat, NEW p \in 0..100
    PROVE  [s EXCEPT !.hold = h, !.holdPct = p] \in CommandStates
BY DEF CommandStates

\* Regulating under manual control yields a commanded state.
LEMMA RegulateType ==
    ASSUME NEW g \in GovernorSet, NEW s \in CommandStates, NEW pct \in 0..100
    PROVE  Regulate(g, s, pct) \in CommandStates
<1>1. HoldCount(s, pct) \in Nat
  BY DEF HoldCount, CommandStates
<1>2. [s EXCEPT !.hold = 0, !.holdPct = 0] \in CommandStates
  <2>1. \A h \in Nat, p \in 0..100 : [s EXCEPT !.hold = h, !.holdPct = p] \in CommandStates
    BY HoldType
  <2>2. 0 \in Nat /\ 0 \in 0..100
    OBVIOUS
  <2>3. QED
    BY <2>1, <2>2, Zenon
<1>3. [s EXCEPT !.hold = HoldCount(s, pct), !.holdPct = pct] \in CommandStates
  BY <1>1, HoldType
<1>4. LargeMove(g, s, pct) \in CommandStates
  <2>1. PICK q \in 0..100 : LargeMove(g, s, pct) = Manual(q)
    BY LargeMoveType
  <2>2. Manual(q) \in CommandStates
    BY ManualType
  <2>3. QED
    BY <2>1, <2>2
<1>5. SmallMove(g, s, pct) \in CommandStates
  BY <1>3, ManualType DEF SmallMove
<1>6. QED
  BY <1>2, <1>4, <1>5 DEF Regulate

\* Everything manual control can do with a target: nothing, a large move, a
\* hold, or the small move that a hold has earned.
RegulateOutcome(g, s, pct, r) ==
    /\ r.init /\ ~r.auto
    /\ \/ r.hold = 0 /\ r.pct = s.pct
       \/ g.holdPolls = 0 /\ r = s
       \/ /\ r.hold = 0
          /\ Distance(pct, s.pct) >= g.deadband
          /\ g.maxStepDown > 0 => s.pct - r.pct <= g.maxStepDown
       \/ /\ pct # s.pct /\ Distance(pct, s.pct) < g.deadband
          /\ HoldCount(s, pct) < g.holdPolls
          /\ r.hold = HoldCount(s, pct) /\ r.holdPct = pct /\ r.pct = s.pct
       \/ /\ pct # s.pct /\ Distance(pct, s.pct) < g.deadband
          /\ HoldCount(s, pct) >= g.holdPolls
          /\ g.holdPolls = 0 => pct > s.pct
          /\ r.hold = 0 /\ r.pct = pct

\* Regulate does one of these things, and leaves control manual.
LEMMA RegulateCases ==
    ASSUME NEW g \in GovernorSet, NEW s \in CommandStates, NEW pct \in 0..100,
           s.init, ~s.auto
    PROVE  RegulateOutcome(g, s, pct, Regulate(g, s, pct))
<1> USE DEF RegulateOutcome
<1> DEFINE r == Regulate(g, s, pct)
<1>1. CASE pct = s.pct
  <2>1. r = [s EXCEPT !.hold = 0, !.holdPct = 0]
    BY <1>1 DEF Regulate
  <2>2. r.hold = 0 /\ r.pct = s.pct /\ r.init = s.init /\ r.auto = s.auto
    BY <2>1 DEF CommandStates
  <2>3. QED
    BY <2>2
<1>2. CASE pct # s.pct /\ Distance(pct, s.pct) >= g.deadband
  <2>1. r = LargeMove(g, s, pct)
    BY <1>2 DEF Regulate
  <2>2. PICK q \in 0..100 : /\ LargeMove(g, s, pct) = Manual(q)
                            /\ g.maxStepDown > 0 => s.pct - q <= g.maxStepDown
    BY LargeMoveType
  <2>3. r.hold = 0 /\ r.pct = q /\ r.init /\ ~r.auto
    BY <2>1, <2>2 DEF Manual
  <2>4. QED
    BY <1>2, <2>2, <2>3
<1>3. CASE pct # s.pct /\ ~(Distance(pct, s.pct) >= g.deadband)
  <2>1. r = SmallMove(g, s, pct) /\ Distance(pct, s.pct) < g.deadband
    BY <1>3 DEF Regulate, Distance, CommandStates, GovernorSet
  <2>2. CASE g.holdPolls = 0 /\ SmallMove(g, s, pct) = s
    BY <2>1, <2>2
  <2>3. CASE /\ g.holdPolls > 0 /\ HoldCount(s, pct) < g.holdPolls
             /\ SmallMove(g, s, pct)
                   = [s EXCEPT !.hold = HoldCount(s, pct), !.holdPct = pct]
    <3>1. /\ r.hold = HoldCount(s, pct) /\ r.holdPct = pct /\ r.pct = s.pct
          /\ r.init = s.init /\ r.auto = s.auto
      BY <2>1, <2>3 DEF CommandStates
    <3>2. QED
      BY <1>3, <2>1, <2>3, <3>1
  <2>4. CASE /\ HoldCount(s, pct) >= g.holdPolls
             /\ g.holdPolls = 0 => pct > s.pct
             /\ SmallMove(g, s, pct) = Manual(pct)
    <3>1. r.hold = 0 /\ r.pct = pct /\ r.init /\ ~r.auto
      BY <2>1, <2>4 DEF Manual
    <3>2. QED
      BY <1>3, <2>1, <2>4, <3>1
  <2>5. QED
    BY <1>3, <2>2, <2>3, <2>4, SmallMoveCases
<1>4. QED
  BY <1>1, <1>2, <1>3

\* With debouncing, Regulate keeps a target, gets nearer to it, or counts it.
LEMMA RegulateCloses ==
    ASSUME NEW g \in GovernorSet, NEW s \in CommandStates, NEW pct \in 0..100,
           g.holdPolls > 0
    PROVE  LET r == Regulate(g, s, pct)
           IN  \/ s.pct = pct /\ r.pct = s.pct
               \/ Distance(r.pct, pct) < Distance(s.pct, pct)
               \/ r.pct = s.pct /\ r.hold = HoldCount(s, pct)
<1> DEFINE r == Regulate(g, s, pct)
<1>1. /\ s.pct \in 0..100 /\ g.deadband \in Nat /\ g.maxStepDown \in Nat /\ g.holdPolls \in Nat
  BY DEF CommandStates, GovernorSet
<1>2. CASE pct = s.pct
  <2>1. r = [s EXCEPT !.hold = 0, !.holdPct = 0]
    BY <1>2 DEF Regulate
  <2>2. QED
    BY <1>2, <2>1 DEF CommandStates
<1>3. CASE pct # s.pct /\ r = Manual(pct)
  <2>1. r.pct = pct
    BY <1>3 DEF Manual
  <2>2. QED
    BY <1>1, <1>3, <2>1 DEF Distance
<1>4. CASE /\ pct # s.pct /\ r = Manual(s.pct - g.maxStepDown)
           /\ g.maxStepDown > 0 /\ s.pct - pct > g.maxStepDown
  <2>1. r.pct = s.pct - g.maxStepDown
    BY <1>4 DEF Manual
  <2>2. QED
    BY <1>1, <1>4, <2>1 DEF Distance
<1>5. CASE r = [s EXCEPT !.hold = HoldCount(s, pct), !.holdPct = pct]
  BY <1>5 DEF CommandStates
<1>6. QED
  BY <1>1, <1>2, <1>3, <1>4, <1>5 DEF Regulate, LargeMove, SmallMove

\* Regulate is never behind its target by as much as the deadband.
LEMMA RegulateKeepsUp ==
    ASSUME NEW g \in GovernorSet, NEW s \in CommandStates, NEW pct \in 0..100
    PROVE  LET r == Regulate(g, s, pct) IN pct <= r.pct \/ pct - r.pct < g.deadband
<1> DEFINE r == Regulate(g, s, pct)
<1>1. s.pct \in 0..100 /\ g.deadband \in Nat /\ g.maxStepDown \in Nat
  BY DEF CommandStates, GovernorSet
<1>2. CASE r = Manual(pct)
  BY <1>2 DEF Manual
<1>3. CASE r = Manual(s.pct - g.maxStepDown) /\ s.pct - pct > g.maxStepDown
  <2>1. r.pct = s.pct - g.maxStepDown
    BY <1>3 DEF Manual
  <2>2. QED
    BY <1>1, <1>3, <2>1
<1>4. CASE pct = s.pct
  <2>1. r = [s EXCEPT !.hold = 0, !.holdPct = 0]
    BY <1>4 DEF Regulate
  <2>2. QED
    BY <1>4, <2>1 DEF CommandStates
<1>5. CASE /\ pct # s.pct /\ ~(Distance(pct, s.pct) >= g.deadband)
           /\ \/ r = s
              \/ r = [s EXCEPT !.hold = HoldCount(s, pct), !.holdPct = pct]
  <2>1. r.pct = s.pct
    BY <1>5 DEF CommandStates
  <2>2. QED
    BY <1>1, <1>5, <2>1 DEF Distance
<1>6. QED
  BY <1>1, <1>2, <1>3, <1>4, <1>5 DEF Regulate, LargeMove, SmallMove

\* The governor's state stays a state, whatever is asked of it.
THEOREM GovNextType ==
    ASSUME NEW g \in GovernorSet, NEW s \in CommandStates, NEW target \in Int,
           NEW wantAuto \in BOOLEAN, NEW canReclaim \in BOOLEAN
    PROVE  GovNext(g, s, target, wantAuto, canReclaim) \in CommandStates
<1> DEFINE pct == ClampPct(target)
<1>1. pct \in 0..100
  BY ClampPctType
<1>2. [Manual(pct) EXCEPT !.auto = wantAuto] \in CommandStates
  BY <1>1, ManualType DEF CommandStates
<1>3. Reclaim(s, pct, wantAuto, canReclaim) \in CommandStates
  BY <1>1, ManualType DEF Reclaim
<1>4. BmcAuto \in CommandStates
  BY <1>1, ManualType
<1>5. Regulate(g, s, pct) \in CommandStates
  BY <1>1, RegulateType
<1>6. s.init \in BOOLEAN /\ s.auto \in BOOLEAN
  BY DEF CommandStates
<1>7. QED
  BY <1>2, <1>3, <1>4, <1>5, <1>6 DEF GovNext

-----------------------------------------------------------------------------
\* An element of a sequence over R is in R (a curve is a sequence of bands).
LEMMA SeqElement ==
    ASSUME NEW R, NEW q \in Seq(R), NEW j \in 1..Len(q)
    PROVE  q[j] \in R
OBVIOUS

\* What Curve.Validate establishes, anchor by anchor.
LEMMA CurveFields ==
    ASSUME NEW c, ValidCurve(c)
    PROVE  /\ Len(c.bands) \in Nat /\ Len(c.bands) > 0
           /\ c.hysteresis \in Int
           /\ \A j \in 1..Len(c.bands) :
                 c.bands[j].maxTemp \in Int /\ c.bands[j].percent \in 0..100
           /\ \A j \in 2..Len(c.bands) : c.bands[j-1].maxTemp < c.bands[j].maxTemp
<1> DEFINE bs == c.bands
<1>1. bs \in Seq([maxTemp : Int, percent : Int])
  BY DEF ValidCurve
<1> HIDE DEF bs
<1>2. Len(bs) \in Nat /\ DOMAIN bs = 1..Len(bs)
  BY <1>1
<1>3. \A j \in 1..Len(bs) : bs[j] \in [maxTemp : Int, percent : Int]
  BY <1>1, SeqElement
<1>4. \A j \in 1..Len(bs) : bs[j].maxTemp \in Int
  BY <1>3
<1>5. QED
  BY <1>2, <1>4 DEF bs, ValidCurve

\* A temperature above the first anchor and not above the last one lies in some
\* segment: otherwise the anchors below it, once more by one each, would all be
\* below it too, and there are only finitely many.
LEMMA SegmentExists ==
    ASSUME NEW c, ValidCurve(c), NEW temp \in Int,
           c.bands[1].maxTemp < temp, temp <= Top(c).maxTemp
    PROVE  SegmentOf(c, temp) \in 2..Len(c.bands)
           /\ c.bands[SegmentOf(c, temp) - 1].maxTemp < temp
           /\ temp <= c.bands[SegmentOf(c, temp)].maxTemp
<1> DEFINE n == Len(c.bands)
           S == {j \in 1..n : c.bands[j].maxTemp < temp}
           T == S \ {1}
           up == [j \in S |-> j + 1]
<1>1. n \in Nat /\ n > 0 /\ \A j \in 1..n : c.bands[j].maxTemp \in Int
  BY CurveFields
<1>2. 1 \in S /\ n \notin S
  BY <1>1 DEF Top
<1>3. SUFFICES ASSUME \A j \in 2..n : ~(c.bands[j-1].maxTemp < temp
                                        /\ temp <= c.bands[j].maxTemp)
               PROVE  FALSE
  BY DEF SegmentOf
<1>4. IsFiniteSet(S)
  <2>1. IsFiniteSet(1..n)
    BY <1>1, FS_Interval
  <2>2. S \in SUBSET (1..n)
    OBVIOUS
  <2>3. QED
    BY <2>1, <2>2, FS_Subset
<1>5. IsFiniteSet(T) /\ Cardinality(T) < Cardinality(S)
  <2>1. Cardinality(S) \in Nat
    BY <1>4, FS_CardinalityType
  <2>2. IsFiniteSet(T) /\ Cardinality(T) = Cardinality(S) - 1
    BY <1>2, <1>4, FS_RemoveElement
  <2>3. QED
    BY <2>1, <2>2
<1>6. up \in [S -> T]
  <2>1. SUFFICES ASSUME NEW j \in S PROVE j + 1 \in T
    OBVIOUS
  <2>2. j + 1 \in 2..n
    BY <1>1, <1>2
  <2>3. c.bands[j + 1].maxTemp < temp
    BY <1>1, <1>3, <2>2
  <2>4. QED
    BY <2>2, <2>3
<1> HIDE DEF S, T, up
<1>7. PICK x \in S, y \in S : x # y /\ up[x] = up[y]
  BY <1>4, <1>5, <1>6, FS_PigeonHole
<1>8. QED
  BY <1>7 DEF S, up

\* math.Round of a quotient stays between integers that the quotient is between.
LEMMA RoundDivBounds ==
    ASSUME NEW num \in Int, NEW den \in Int, den > 0, NEW a \in Int, NEW b \in Int,
           a * den <= num, num <= b * den
    PROVE  RoundDiv(num, den) \in a..b
<1> DEFINE q == (2 * num + den) \div (2 * den)
<1>1. q \in Int /\ (2 * den) * q <= 2 * num + den /\ 2 * num + den < (2 * den) * (q + 1)
  OBVIOUS
<1>2. (2 * den) * a < (2 * den) * (q + 1)
  BY <1>1
<1>3. a < q + 1
  BY <1>1, <1>2
<1>4. (2 * den) * q < (2 * den) * (b + 1)
  BY <1>1
<1>5. q < b + 1
  BY <1>1, <1>4
<1>6. QED
  BY <1>1, <1>3, <1>5 DEF RoundDiv

\* Scaling by a natural keeps an order (used for the interpolation).
LEMMA TimesMonotone ==
    ASSUME NEW x \in Int, NEW y \in Int, NEW d \in Int, x <= y, 0 <= d
    PROVE  x * d <= y * d
<1>1. 0 <= (y - x) * d
  OBVIOUS
<1>2. (y - x) * d = y * d - x * d
  OBVIOUS
<1>3. x * d \in Int /\ y * d \in Int
  OBVIOUS
<1>4. QED
  BY <1>1, <1>2, <1>3

\* Between two anchors the duty lies between their percents (Curve.Duty), also
\* where the curve falls: interpolation and rounding never overshoot.
LEMMA InterpolateBounds ==
    ASSUME NEW c, ValidCurve(c), NEW temp \in Int, NEW i \in 2..Len(c.bands),
           c.bands[i-1].maxTemp < temp, temp <= c.bands[i].maxTemp
    PROVE  \/ Interpolate(c, i, temp) \in c.bands[i-1].percent .. c.bands[i].percent
           \/ Interpolate(c, i, temp) \in c.bands[i].percent .. c.bands[i-1].percent
<1> DEFINE lo == c.bands[i-1].percent
           hi == c.bands[i].percent
           x == temp - c.bands[i-1].maxTemp
           span == c.bands[i].maxTemp - c.bands[i-1].maxTemp
           num == lo * span + x * (hi - lo)
<1>1. i \in 1..Len(c.bands) /\ i - 1 \in 1..Len(c.bands)
  BY CurveFields
<1>2. c.bands[i].maxTemp \in Int /\ c.bands[i-1].maxTemp \in Int
  BY <1>1, CurveFields
<1>3. lo \in 0..100 /\ hi \in 0..100
  BY <1>1, CurveFields
<1>4. x \in Int /\ span \in Int /\ 0 < x /\ x <= span
  BY <1>2
<1>5. Interpolate(c, i, temp) = RoundDiv(num, span)
  BY DEF Interpolate
<1> HIDE DEF lo, hi, x, span
<1>6. num \in Int /\ lo \in Int /\ hi \in Int /\ 0 < span
  BY <1>3, <1>4
<1>7. CASE lo <= hi
  <2>1. lo * span <= num
    <3>1. 0 <= x * (hi - lo)
      BY <1>3, <1>4, <1>7
    <3>2. lo * span \in Int /\ x * (hi - lo) \in Int
      BY <1>3, <1>4
    <3>3. QED
      BY <3>1, <3>2
  <2>2. num <= hi * span
    <3>1. x * (hi - lo) <= span * (hi - lo)
      <4>1. hi - lo \in Int /\ 0 <= hi - lo
        BY <1>3, <1>7
      <4>2. QED
        BY <1>4, <4>1, TimesMonotone
    <3>2. lo * span + span * (hi - lo) = hi * span
      BY <1>3, <1>4
    <3>3. QED
      BY <1>3, <1>4, <3>1, <3>2
  <2> HIDE DEF num
  <2>3. RoundDiv(num, span) \in lo..hi
    BY <1>4, <1>6, <2>1, <2>2, RoundDivBounds
  <2>4. QED
    BY <1>5, <2>3 DEF lo, hi, num
<1>8. CASE hi <= lo
  <2>1. hi * span <= num
    <3>1. x * (lo - hi) <= span * (lo - hi)
      <4>1. lo - hi \in Int /\ 0 <= lo - hi
        BY <1>3, <1>8
      <4>2. QED
        BY <1>4, <4>1, TimesMonotone
    <3>2. lo * span - span * (lo - hi) = hi * span
      BY <1>3, <1>4
    <3>3. x * (hi - lo) = -(x * (lo - hi))
      BY <1>3, <1>4
    <3>4. QED
      BY <1>3, <1>4, <3>1, <3>2, <3>3
  <2>2. num <= lo * span
    <3>1. x * (hi - lo) <= 0
      BY <1>3, <1>4, <1>8
    <3>2. lo * span \in Int /\ x * (hi - lo) \in Int
      BY <1>3, <1>4
    <3>3. QED
      BY <3>1, <3>2
  <2> HIDE DEF num
  <2>3. RoundDiv(num, span) \in hi..lo
    BY <1>4, <1>6, <2>1, <2>2, RoundDivBounds
  <2>4. QED
    BY <1>5, <2>3 DEF lo, hi, num
<1>9. QED
  BY <1>3, <1>7, <1>8

\* A valid curve asks for a duty the BMC accepts, at every temperature
\* (Curve.Duty with Curve.Validate), so that clampPct never changes it.
THEOREM DutyInRange ==
    ASSUME NEW c, ValidCurve(c), NEW temp \in Int
    PROVE  Duty(c, temp) \in [pct : 0..100, auto : BOOLEAN]
<1>1. 1 \in 1..Len(c.bands) /\ Top(c).maxTemp \in Int /\ c.bands[1].maxTemp \in Int
  BY CurveFields DEF Top
<1>2. CASE temp > Top(c).maxTemp
  BY <1>2 DEF Duty
<1>3. CASE ~(temp > Top(c).maxTemp) /\ temp <= c.bands[1].maxTemp
  <2>1. c.bands[1].percent \in 0..100
    BY <1>1, CurveFields
  <2>2. QED
    BY <1>3, <2>1 DEF Duty
<1>4. CASE temp <= Top(c).maxTemp /\ c.bands[1].maxTemp < temp
  <2> DEFINE i == SegmentOf(c, temp)
  <2>1. /\ i \in 2..Len(c.bands)
        /\ c.bands[i - 1].maxTemp < temp /\ temp <= c.bands[i].maxTemp
    BY <1>4, SegmentExists
  <2> HIDE DEF i
  <2>2. c.bands[i].percent \in 0..100 /\ c.bands[i-1].percent \in 0..100
    BY <2>1, CurveFields
  <2>3. Interpolate(c, i, temp) \in 0..100
    <3>1. \/ Interpolate(c, i, temp) \in c.bands[i-1].percent .. c.bands[i].percent
          \/ Interpolate(c, i, temp) \in c.bands[i].percent .. c.bands[i-1].percent
      BY <2>1, InterpolateBounds
    <3>2. QED
      BY <2>2, <3>1
  <2>4. Duty(c, temp) = [pct |-> Interpolate(c, i, temp), auto |-> FALSE]
    BY <1>1, <1>4 DEF Duty, i
  <2>5. QED
    BY <2>3, <2>4
<1>5. QED
  BY <1>1, <1>2, <1>3, <1>4

-----------------------------------------------------------------------------
(* Well-foundedness, for the other proofs.  An induction over the naturals is   *)
(* the least element of the set of counterexamples, which takes no operator as  *)
(* a parameter.                                                                 *)

\* A nonempty set of naturals has a least element: it has the fewest below it.
LEMMA LeastExists ==
    ASSUME NEW S \in SUBSET Nat, S # {}
    PROVE  \E m \in S : \A n \in S : m <= n
<1> DEFINE Below(k) == {n \in S : n < k}
           F == {Below(k) : k \in S}
<1>1. F \subseteq FiniteSubsetsOf(S) /\ F # {}
  <2>1. SUFFICES ASSUME NEW k \in S PROVE Below(k) \in SUBSET S /\ IsFiniteSet(Below(k))
    BY DEF FiniteSubsetsOf
  <2>2. Below(k) \in SUBSET Nat
    OBVIOUS
  <2>3. k \in Nat /\ \A s \in Below(k) : s <= k
    <3>1. SUFFICES ASSUME NEW s \in Below(k) PROVE s <= k
      OBVIOUS
    <3>2. s \in Nat /\ k \in Nat /\ s < k
      OBVIOUS
    <3>3. QED
      BY <3>2
  <2> HIDE DEF Below
  <2>4. IsFiniteSet(Below(k))
    BY <2>2, <2>3, FS_BoundedSetOfNaturals
  <2>5. QED
    BY <2>4 DEF Below
<1>2. PICK A \in F : \A B \in F : ~(<<B, A>> \in StrictSubsetOrdering(S))
  BY <1>1, FS_StrictSubsetOrderingWellFounded, WFMin
<1>3. PICK k \in S : A = Below(k)
  OBVIOUS
<1>4. SUFFICES ASSUME NEW n \in S, n < k PROVE FALSE
  OBVIOUS
<1>5. Below(n) \subseteq A /\ n \in A /\ n \notin Below(n) /\ A \subseteq S
  <2>1. n \in Nat /\ k \in Nat
    OBVIOUS
  <2>2. \A x \in S : x < n => x < k
    <3>1. SUFFICES ASSUME NEW x \in S, x < n PROVE x < k
      OBVIOUS
    <3>2. x \in Nat
      OBVIOUS
    <3>3. QED
      BY <1>4, <2>1, <3>1, <3>2
  <2>3. Below(n) \subseteq A
    BY <1>3, <2>2
  <2>4. n \in A /\ A \subseteq S
    BY <1>3, <1>4, <2>1
  <2>5. n \notin Below(n)
    BY <2>1
  <2>6. QED
    BY <2>3, <2>4, <2>5
<1>6. <<Below(n), A>> \in StrictSubsetOrdering(S)
  BY <1>5 DEF StrictSubsetOrdering
<1>7. QED
  BY <1>2, <1>6

\* Induction over an interval that starts at 0.
LEMMA Induction ==
    ASSUME NEW N \in Nat, NEW S \in SUBSET (0..N), 0 \in S,
           \A n \in S : n < N => n + 1 \in S
    PROVE  S = 0..N
<1> DEFINE bad == (0..N) \ S
<1>1. SUFFICES ASSUME bad # {} PROVE FALSE
  OBVIOUS
<1>2. bad \in SUBSET Nat
  OBVIOUS
<1>3. PICK m \in bad : \A n \in bad : m <= n
  BY <1>1, <1>2, LeastExists
<1>4. m \in 0..N /\ m \notin S /\ m # 0
  BY <1>3
<1>5. m - 1 \in S
  BY <1>3, <1>4
<1>6. QED
  BY <1>4, <1>5

-----------------------------------------------------------------------------
(* The shape of a curve.                                                      *)

\* What rises from each anchor to the next rises over all of them.
LEMMA RisesThroughout ==
    ASSUME NEW n \in Nat, NEW f, \A k \in 1..n : f[k] \in Int,
           \A k \in 2..n : f[k-1] <= f[k],
           NEW i \in 1..n, NEW j \in i..n
    PROVE  f[i] <= f[j]
<1> DEFINE S == {k \in 0..(n - i) : f[i] <= f[i + k]}
<1>1. n - i \in Nat /\ S \in SUBSET (0..(n - i)) /\ 0 \in S
  OBVIOUS
<1>2. ASSUME NEW k \in S, k < n - i PROVE k + 1 \in S
  <2>1. i + k \in 1..n /\ i + k + 1 \in 2..n /\ (i + k + 1) - 1 = i + k
    BY <1>2
  <2>2. f[i + k] <= f[i + k + 1]
    BY <2>1
  <2>3. f[i] \in Int /\ f[i + k] \in Int /\ f[i + k + 1] \in Int /\ f[i] <= f[i + k]
    BY <1>2, <2>1
  <2>4. i + (k + 1) = i + k + 1 /\ k + 1 \in 0..(n - i)
    BY <1>2
  <2>5. QED
    BY <2>2, <2>3, <2>4
<1>3. S = 0..(n - i)
  <2> HIDE DEF S
  <2>1. QED
    BY <1>1, <1>2, Induction
<1>4. j - i \in 0..(n - i) /\ i + (j - i) = j
  OBVIOUS
<1>5. QED
  BY <1>3, <1>4

LEMMA CurveInts ==
    ASSUME NEW c, ValidCurve(c)
    PROVE  /\ Len(c.bands) \in Nat /\ Len(c.bands) > 0
           /\ \A k \in 1..Len(c.bands) :
                c.bands[k].maxTemp \in Int /\ c.bands[k].percent \in Int
           /\ \A k \in 2..Len(c.bands) : c.bands[k-1].maxTemp < c.bands[k].maxTemp
<1>1. SUFFICES ASSUME NEW k \in 1..Len(c.bands)
               PROVE  c.bands[k].maxTemp \in Int /\ c.bands[k].percent \in Int
  BY CurveFields
<1>2. c.bands[k].percent \in 0..100 /\ c.bands[k].maxTemp \in Int
  BY CurveFields
<1>3. \A p \in 0..100 : p \in Int
  OBVIOUS
<1>4. QED
  BY <1>2, <1>3, Zenon

\* The anchors' temperatures in order, any two of them.
LEMMA AnchorsInOrder ==
    ASSUME NEW c, ValidCurve(c), NEW i \in 1..Len(c.bands), NEW j \in i..Len(c.bands)
    PROVE  c.bands[i].maxTemp <= c.bands[j].maxTemp
<1> DEFINE n == Len(c.bands)
           f == [k \in 1..n |-> c.bands[k].maxTemp]
<1>1. n \in Nat /\ \A k \in 1..n : f[k] \in Int
  BY CurveInts
<1>2. ASSUME NEW k \in 2..n PROVE f[k-1] <= f[k]
  <2>1. c.bands[k-1].maxTemp < c.bands[k].maxTemp /\ k - 1 \in 1..n /\ k \in 1..n
    BY CurveFields
  <2>2. f[k-1] \in Int /\ f[k] \in Int
    BY <1>1, <2>1
  <2>3. QED
    BY <2>1, <2>2
<1>3. f[i] <= f[j]
  <2> HIDE DEF f
  <2>1. QED
    BY <1>1, <1>2, RisesThroughout
<1>4. QED
  BY <1>3

\* Rounding keeps an order.
LEMMA RoundDivMonotone ==
    ASSUME NEW a \in Int, NEW b \in Int, NEW den \in Int, den > 0, a <= b
    PROVE  RoundDiv(a, den) <= RoundDiv(b, den)
<1> DEFINE p == (2 * a + den) \div (2 * den)
           q == (2 * b + den) \div (2 * den)
<1>1. p \in Int /\ (2 * den) * p <= 2 * a + den
  OBVIOUS
<1>2. q \in Int /\ 2 * b + den < (2 * den) * (q + 1)
  OBVIOUS
<1>3. (2 * den) * p < (2 * den) * (q + 1)
  BY <1>1, <1>2
<1>4. p < q + 1
  BY <1>1, <1>2, <1>3
<1>5. QED
  BY <1>1, <1>2, <1>4 DEF RoundDiv

\* A curve whose percents rise with its temperatures.  Validate does not ask for it.
Rising(c) == \A i \in 2..Len(c.bands) : c.bands[i-1].percent <= c.bands[i].percent

LEMMA PercentsInOrder ==
    ASSUME NEW c, ValidCurve(c), Rising(c),
           NEW i \in 1..Len(c.bands), NEW j \in i..Len(c.bands)
    PROVE  c.bands[i].percent <= c.bands[j].percent
<1> DEFINE n == Len(c.bands)
           f == [k \in 1..n |-> c.bands[k].percent]
<1>1. n \in Nat /\ \A k \in 1..n : f[k] \in Int
  BY CurveInts
<1>2. ASSUME NEW k \in 2..n PROVE f[k-1] <= f[k]
  BY CurveInts DEF Rising
<1>3. f[i] <= f[j]
  <2> HIDE DEF f
  <2>1. QED
    BY <1>1, <1>2, RisesThroughout
<1>4. QED
  BY <1>3

\* Within a segment of a rising curve.
LEMMA SegmentRises ==
    ASSUME NEW c, ValidCurve(c), Rising(c), NEW i \in 2..Len(c.bands),
           NEW x \in Int, NEW y \in Int, c.bands[i-1].maxTemp < x, x <= y
    PROVE  Interpolate(c, i, x) <= Interpolate(c, i, y)
<1> DEFINE lo == c.bands[i-1].percent
           hi == c.bands[i].percent
           base == c.bands[i-1].maxTemp
           span == c.bands[i].maxTemp - base
           num(z) == lo * span + (z - base) * (hi - lo)
<1>1. i \in 1..Len(c.bands) /\ i - 1 \in 1..Len(c.bands)
  BY CurveInts
<1>2. c.bands[i].maxTemp \in Int /\ base \in Int /\ base < c.bands[i].maxTemp
  BY <1>1, CurveInts
<1>3. lo \in Int /\ hi \in Int /\ lo <= hi
  BY <1>1, CurveInts DEF Rising
<1>4. span \in Int /\ span > 0
  BY <1>2
<1> HIDE DEF lo, hi, base, span
<1>5. hi - lo \in Int /\ 0 <= hi - lo /\ x - base \in Int /\ y - base \in Int /\ x - base <= y - base
  BY <1>2, <1>3
<1>6. (x - base) * (hi - lo) <= (y - base) * (hi - lo)
  BY <1>5, TimesMonotone
<1>7. /\ (x - base) * (hi - lo) \in Int /\ (y - base) * (hi - lo) \in Int
      /\ lo * span \in Int
  BY <1>3, <1>4, <1>5
<1>8. num(x) \in Int /\ num(y) \in Int /\ num(x) <= num(y)
  BY <1>6, <1>7
<1>9. RoundDiv(num(x), span) <= RoundDiv(num(y), span)
  <2> HIDE DEF num
  <2>1. QED
    BY <1>4, <1>8, RoundDivMonotone
<1>10. QED
  BY <1>9 DEF Interpolate, lo, hi, base, span, num

\* A duty on a segment of a rising curve is between its two percents.
LEMMA SegmentWithin ==
    ASSUME NEW c, ValidCurve(c), Rising(c), NEW i \in 2..Len(c.bands), NEW x \in Int,
           c.bands[i-1].maxTemp < x, x <= c.bands[i].maxTemp
    PROVE  /\ Interpolate(c, i, x) \in Int
           /\ c.bands[i-1].percent <= Interpolate(c, i, x)
           /\ Interpolate(c, i, x) <= c.bands[i].percent
<1>1. c.bands[i-1].percent \in Int /\ c.bands[i].percent \in Int
  <2>1. i \in 1..Len(c.bands) /\ i - 1 \in 1..Len(c.bands)
    BY CurveInts
  <2>2. QED
    BY <2>1, CurveInts
<1>2. c.bands[i-1].percent <= c.bands[i].percent
  BY DEF Rising
<1>3. \A lo, hi, z \in Int : lo <= hi /\ (z \in lo..hi \/ z \in hi..lo) => lo <= z /\ z <= hi
  OBVIOUS
<1>4. Interpolate(c, i, x) \in Int
  <2>1. \A lo, hi \in Int : lo..hi \subseteq Int
    OBVIOUS
  <2>2. QED
    BY <1>1, <2>1, InterpolateBounds, Zenon
<1>5. QED
  BY <1>1, <1>2, <1>3, <1>4, InterpolateBounds, Zenon

\* x lies on the segment that ends in anchor i.
OnSegment(c, i, x) ==
    /\ c.bands[i-1].maxTemp < x /\ x <= c.bands[i].maxTemp
    /\ Duty(c, x) = [pct |-> Interpolate(c, i, x), auto |-> FALSE]

\* The three parts of a curve (Curve.Duty).
LEMMA DutyParts ==
    ASSUME NEW c, ValidCurve(c), NEW x \in Int
    PROVE  /\ x > Top(c).maxTemp => Duty(c, x).auto
           /\ (x <= Top(c).maxTemp /\ x <= c.bands[1].maxTemp)
                => Duty(c, x) = [pct |-> c.bands[1].percent, auto |-> FALSE]
           /\ (x <= Top(c).maxTemp /\ c.bands[1].maxTemp < x)
                => \E i \in 2..Len(c.bands) : OnSegment(c, i, x)
<1>1. Top(c).maxTemp \in Int /\ c.bands[1].maxTemp \in Int
  BY CurveInts DEF Top
<1>2. CASE x > Top(c).maxTemp
  BY <1>1, <1>2 DEF Duty
<1>3. CASE x <= Top(c).maxTemp /\ x <= c.bands[1].maxTemp
  BY <1>1, <1>3 DEF Duty
<1>4. CASE x <= Top(c).maxTemp /\ c.bands[1].maxTemp < x
  <2>1. ~(x > Top(c).maxTemp) /\ ~(x <= c.bands[1].maxTemp)
    BY <1>1, <1>4
  <2>2. Duty(c, x) = [pct |-> Interpolate(c, SegmentOf(c, x), x), auto |-> FALSE]
    BY <2>1 DEF Duty
  <2>3. /\ SegmentOf(c, x) \in 2..Len(c.bands)
        /\ c.bands[SegmentOf(c, x) - 1].maxTemp < x
        /\ x <= c.bands[SegmentOf(c, x)].maxTemp
    BY <1>4, SegmentExists
  <2>4. OnSegment(c, SegmentOf(c, x), x)
    BY <2>2, <2>3 DEF OnSegment
  <2>5. QED
    BY <2>1, <2>3, <2>4
<1>5. QED
  BY <1>1, <1>2, <1>3, <1>4

\* Two temperatures on segments of a rising curve.
LEMMA SegmentsRise ==
    ASSUME NEW c, ValidCurve(c), Rising(c), NEW x \in Int, NEW y \in Int, x <= y,
           NEW i \in 2..Len(c.bands), NEW k \in 2..Len(c.bands),
           OnSegment(c, i, x), OnSegment(c, k, y)
    PROVE  Interpolate(c, i, x) <= Interpolate(c, k, y)
<1> DEFINE n == Len(c.bands)
<1>1. /\ n \in Nat /\ \A j \in 1..n : c.bands[j].maxTemp \in Int /\ c.bands[j].percent \in Int
      /\ i \in 1..n /\ i - 1 \in 1..n /\ k \in 1..n /\ k - 1 \in 1..n
  BY CurveInts
<1>2. /\ Interpolate(c, i, x) \in Int /\ Interpolate(c, i, x) <= c.bands[i].percent
      /\ Interpolate(c, k, y) \in Int /\ c.bands[k-1].percent <= Interpolate(c, k, y)
  BY SegmentWithin DEF OnSegment
<1>3. CASE i = k
  BY <1>3, SegmentRises DEF OnSegment
<1>4. CASE i < k
  <2>1. k - 1 \in i..n
    BY <1>1, <1>4
  <2>2. c.bands[i].percent <= c.bands[k-1].percent
    BY <1>1, <2>1, PercentsInOrder
  <2>3. c.bands[i].percent \in Int /\ c.bands[k-1].percent \in Int
    BY <1>1
  <2>4. QED
    BY <1>2, <2>2, <2>3
<1>5. CASE k < i
  <2>1. i - 1 \in k..n
    BY <1>1, <1>5
  <2>2. c.bands[k].maxTemp <= c.bands[i-1].maxTemp
    BY <1>1, <2>1, AnchorsInOrder
  <2>3. c.bands[k].maxTemp \in Int /\ c.bands[i-1].maxTemp \in Int
    BY <1>1
  <2>4. FALSE
    BY <2>2, <2>3 DEF OnSegment
  <2>5. QED
    BY <2>4
<1>6. QED
  BY <1>1, <1>3, <1>4, <1>5

\* On a curve that rises, a hotter source never asks for less, and never for a
\* duty where a cooler one asks for the BMC (Curve.Duty): neither the change from
\* one segment to the next nor rounding opens a dip.
LEMMA RisingDuty ==
    ASSUME NEW c, ValidCurve(c), Rising(c), NEW x \in Int, NEW y \in Int, x <= y
    PROVE  \/ Duty(c, y).auto
           \/ ~Duty(c, x).auto /\ Duty(c, x).pct <= Duty(c, y).pct
<1>1. /\ Top(c).maxTemp \in Int /\ c.bands[1].maxTemp \in Int /\ c.bands[1].percent \in Int
      /\ 1 \in 1..Len(c.bands)
  BY CurveInts DEF Top
<1>2. CASE y > Top(c).maxTemp
  BY <1>2, DutyParts
<1>3. CASE y <= c.bands[1].maxTemp /\ y <= Top(c).maxTemp
  <2>1. x <= c.bands[1].maxTemp /\ x <= Top(c).maxTemp
    BY <1>1, <1>3
  <2>2. Duty(c, y) = [pct |-> c.bands[1].percent, auto |-> FALSE] /\ Duty(c, x) = Duty(c, y)
    BY <1>3, <2>1, DutyParts
  <2>3. QED
    BY <1>1, <2>2
<1>4. CASE c.bands[1].maxTemp < y /\ y <= Top(c).maxTemp
  <2>1. PICK k \in 2..Len(c.bands) : OnSegment(c, k, y)
    BY <1>4, DutyParts
  <2>2. Duty(c, y) = [pct |-> Interpolate(c, k, y), auto |-> FALSE]
    BY <2>1 DEF OnSegment
  <2>3. CASE x <= c.bands[1].maxTemp
    <3>1. Duty(c, x) = [pct |-> c.bands[1].percent, auto |-> FALSE]
      <4>1. x <= Top(c).maxTemp
        BY <1>1, <1>4
      <4>2. QED
        BY <2>3, <4>1, DutyParts
    <3>2. Interpolate(c, k, y) \in Int /\ c.bands[k-1].percent <= Interpolate(c, k, y)
      BY <2>1, SegmentWithin DEF OnSegment
    <3>3. k - 1 \in 1..Len(c.bands)
      BY CurveInts
    <3>4. c.bands[1].percent <= c.bands[k-1].percent /\ c.bands[k-1].percent \in Int
      BY <1>1, <3>3, PercentsInOrder, CurveInts
    <3>5. c.bands[1].percent <= Interpolate(c, k, y)
      BY <1>1, <3>2, <3>4
    <3>6. QED
      BY <2>2, <3>1, <3>5
  <2>4. CASE c.bands[1].maxTemp < x
    <3>1. x <= Top(c).maxTemp
      BY <1>1, <1>4
    <3>2. PICK i \in 2..Len(c.bands) : OnSegment(c, i, x)
      BY <2>4, <3>1, DutyParts
    <3>3. Interpolate(c, i, x) <= Interpolate(c, k, y)
      BY <2>1, <3>2, SegmentsRise
    <3>4. Duty(c, x) = [pct |-> Interpolate(c, i, x), auto |-> FALSE]
      BY <3>2 DEF OnSegment
    <3>5. QED
      BY <2>2, <3>3, <3>4
  <2>5. QED
    BY <1>1, <2>3, <2>4
<1>5. QED
  BY <1>1, <1>2, <1>3, <1>4

\* At an anchor the curve asks for exactly the anchor's percent, rising or not
\* (Curve.Duty): what the configuration says of a temperature is what it gets.
THEOREM AnchorsAreMet ==
    ASSUME NEW c, ValidCurve(c), NEW j \in 1..Len(c.bands)
    PROVE  Duty(c, c.bands[j].maxTemp) = [pct |-> c.bands[j].percent, auto |-> FALSE]
<1> DEFINE n == Len(c.bands)
           x == c.bands[j].maxTemp
<1>1. /\ n \in Nat /\ 1 \in 1..n /\ n \in j..n /\ j \in 1..n
      /\ \A k \in 1..n : c.bands[k].maxTemp \in Int /\ c.bands[k].percent \in Int
  BY CurveInts
<1>2. x \in Int /\ x <= Top(c).maxTemp
  BY <1>1, AnchorsInOrder DEF Top
<1>3. CASE j = 1
  <2>1. x <= c.bands[1].maxTemp
    BY <1>2, <1>3
  <2>2. Duty(c, x) = [pct |-> c.bands[1].percent, auto |-> FALSE]
    BY <1>2, <2>1, DutyParts
  <2>3. QED
    BY <1>3, <2>2
<1>4. CASE j # 1
  <2>1. j \in 2..n /\ j - 1 \in 1..n
    BY <1>1, <1>4
  <2>2. c.bands[1].maxTemp <= c.bands[j-1].maxTemp /\ c.bands[j-1].maxTemp < x
    BY <1>1, <2>1, AnchorsInOrder, CurveInts
  <2>3. c.bands[1].maxTemp < x
    BY <1>1, <2>1, <2>2
  <2>4. PICK i \in 2..n : OnSegment(c, i, x)
    BY <1>2, <2>3, DutyParts
  <2>5. i \in 1..n /\ i - 1 \in 1..n
    BY <1>1
  <2>6. ~(i < j)
    <3>1. SUFFICES ASSUME i < j PROVE FALSE
      OBVIOUS
    <3>2. j - 1 \in i..n
      BY <1>1, <2>5, <3>1
    <3>3. c.bands[i].maxTemp <= c.bands[j-1].maxTemp
      BY <2>5, <3>2, AnchorsInOrder
    <3>4. c.bands[i].maxTemp \in Int /\ c.bands[j-1].maxTemp \in Int
      BY <1>1, <2>1, <2>5
    <3>5. QED
      BY <1>2, <2>2, <2>4, <3>3, <3>4 DEF OnSegment
  <2>7. ~(j < i)
    <3>1. SUFFICES ASSUME j < i PROVE FALSE
      OBVIOUS
    <3>2. i - 1 \in j..n
      BY <1>1, <2>5, <3>1
    <3>3. c.bands[j].maxTemp <= c.bands[i-1].maxTemp
      BY <1>1, <3>2, AnchorsInOrder
    <3>4. c.bands[i-1].maxTemp \in Int
      BY <1>1, <2>5
    <3>5. QED
      BY <1>2, <2>4, <3>3, <3>4 DEF OnSegment
  <2>8. i = j
    BY <1>1, <2>6, <2>7
  <2>9. Interpolate(c, j, x) = c.bands[j].percent
    <3> DEFINE lo == c.bands[j-1].percent
               hi == c.bands[j].percent
               span == x - c.bands[j-1].maxTemp
    <3>1. lo \in Int /\ hi \in Int
      BY <1>1, <2>1
    <3>2. c.bands[j-1].maxTemp \in Int
      BY <1>1, <2>1
    <3>3. span \in Int /\ span > 0
      BY <1>2, <2>2, <3>2
    <3>4. Interpolate(c, j, x) = RoundDiv(lo * span + span * (hi - lo), span)
      BY DEF Interpolate
    <3> HIDE DEF lo, hi, span
    <3>5. lo * span + span * (hi - lo) = hi * span /\ hi * span \in Int
      BY <3>1, <3>3
    <3>6. RoundDiv(hi * span, span) \in hi..hi
      BY <3>1, <3>3, <3>5, RoundDivBounds
    <3>7. RoundDiv(hi * span, span) = hi
      BY <3>1, <3>6
    <3>8. QED
      BY <3>4, <3>5, <3>7 DEF hi
  <2>10. QED
    BY <2>4, <2>8, <2>9 DEF OnSegment
<1>5. QED
  BY <1>3, <1>4

\* Which valid curves never ask for less when it gets hotter, and never for a duty
\* where a cooler reading has the BMC take over (Curve.Duty): just those whose
\* percents are in order.  Curve.Validate asks that of the temperatures only, so
\* it accepts curves that lower the fans on the way up; but a dip is always one of
\* the configured anchors, and none comes of interpolating or rounding.
THEOREM HotterAsksForMore ==
    ASSUME NEW c, ValidCurve(c)
    PROVE  Rising(c) <=>
             \A x, y \in Int : x <= y =>
                \/ Duty(c, y).auto
                \/ ~Duty(c, x).auto /\ Duty(c, x).pct <= Duty(c, y).pct
<1>1. ASSUME Rising(c), NEW x \in Int, NEW y \in Int, x <= y
      PROVE  \/ Duty(c, y).auto
             \/ ~Duty(c, x).auto /\ Duty(c, x).pct <= Duty(c, y).pct
  BY <1>1, RisingDuty
<1>2. ASSUME \A x, y \in Int : x <= y =>
                \/ Duty(c, y).auto
                \/ ~Duty(c, x).auto /\ Duty(c, x).pct <= Duty(c, y).pct,
             NEW i \in 2..Len(c.bands)
      PROVE  c.bands[i-1].percent <= c.bands[i].percent
  <2> DEFINE x == c.bands[i-1].maxTemp
             y == c.bands[i].maxTemp
  <2>1. i \in 1..Len(c.bands) /\ i - 1 \in 1..Len(c.bands)
    BY CurveInts
  <2>2. /\ Duty(c, x) = [pct |-> c.bands[i-1].percent, auto |-> FALSE]
        /\ Duty(c, y) = [pct |-> c.bands[i].percent, auto |-> FALSE]
    BY <2>1, AnchorsAreMet
  <2>3. x \in Int /\ y \in Int /\ x <= y
    <3>1. x \in Int /\ y \in Int
      BY <2>1, CurveInts
    <3>2. x < y
      BY DEF ValidCurve
    <3>3. QED
      BY <3>1, <3>2
  <2>4. Duty(c, y).auto \/ Duty(c, x).pct <= Duty(c, y).pct
    BY <1>2, <2>3
  <2>5. QED
    BY <2>2, <2>4
<1>3. QED
  BY <1>1, <1>2 DEF Rising
=============================================================================
