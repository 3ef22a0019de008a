---------------------------- MODULE GovernorProofs ----------------------------
(* The governor's safety properties, for all governors, targets and bounds.    *)
EXTENDS Governor, PolicyProofs

USE GovernorsAssumption, TargetsAssumption, MaxStreakAssumption

\* clampPct leaves alone every duty a valid curve can ask for.
LEMMA ClampPctIdentity ==
    ASSUME NEW p \in 0..100
    PROVE  ClampPct(p) = p
BY DEF ClampPct

\* The distance of two duties bounds their difference either way.
LEMMA DistanceBounds ==
    ASSUME NEW x \in Int, NEW y \in Int
    PROVE  Distance(x, y) \in Nat /\ y - x <= Distance(x, y)
BY DEF Distance

\* A move below a deadband that exceeds the cap by at most one is within it.
LEMMA SmallDecrease ==
    ASSUME NEW x \in Int, NEW y \in Int, NEW d \in Nat, NEW m \in Nat,
           Distance(x, y) < d, d <= m + 1
    PROVE  y - x <= m
BY DEF Distance

\* A target is a duty, and a governor is one of the policy's governors.
LEMMA ConstantTypes ==
    /\ Governors \subseteq GovernorSet
    /\ \A g \in Governors : g.holdPolls \in Nat /\ g.holdPolls < MaxStreak
    /\ \A a \in Asks : /\ a.pct \in 0..100
                       /\ a.wantAuto \in BOOLEAN /\ a.canReclaim \in BOOLEAN
BY DEF GovernorSet, Asks

\* The history counts a repeated question, and starts over at a new one.
LEMMA StreakStep ==
    ASSUME TypeOK, NEW a \in Asks, Decide(a)
    PROVE  /\ streak' \in 0..MaxStreak
           /\ ~a.wantAuto => streak' >= 1
           /\ \A h \in Nat : (~a.wantAuto /\ a.pct = asked.pct /\ h <= streak /\ h < MaxStreak)
                                => h + 1 <= streak'
<1>1. MaxStreak \in Nat /\ MaxStreak > 0 /\ streak \in 0..MaxStreak
  BY ConstantTypes DEF TypeOK, GovernorSet
<1>2. streak' = IF a.wantAuto THEN 0
                ELSE IF a.pct = asked.pct THEN LeastOf(streak + 1, MaxStreak)
                ELSE 1
  BY DEF Decide
<1>3. LeastOf(streak + 1, MaxStreak) \in 1..MaxStreak
  BY <1>1 DEF LeastOf
<1>4. \A h \in Nat : h <= streak /\ h < MaxStreak => h + 1 <= LeastOf(streak + 1, MaxStreak)
  BY <1>1 DEF LeastOf
<1>5. QED
  BY <1>1, <1>2, <1>3, <1>4

\* Every decision preserves the types.
LEMMA DecideType ==
    ASSUME TypeOK, NEW a \in Asks, Decide(a)
    PROVE  TypeOK'
<1>1. gov' \in Governors /\ asked' \in Asks \cup {NoAsk}
  BY DEF TypeOK, Decide
<1>2. streak' \in 0..MaxStreak
  BY StreakStep
<1>3. s' \in CommandStates
  <2>1. /\ gov \in GovernorSet /\ s \in CommandStates
        /\ a.pct \in Int /\ a.wantAuto \in BOOLEAN /\ a.canReclaim \in BOOLEAN
    BY ConstantTypes DEF TypeOK
  <2>2. GovNext(gov, s, a.pct, a.wantAuto, a.canReclaim) \in CommandStates
    BY <2>1, GovNextType
  <2>3. QED
    BY <2>2 DEF Decide
<1>4. QED
  BY <1>1, <1>2, <1>3 DEF TypeOK

\* Under manual control, and while no curve asks for the BMC, a decision
\* regulates; every other decision starts a fresh state or keeps the BMC's.
LEMMA DecideCases ==
    ASSUME TypeOK, NEW a \in Asks, Decide(a)
    PROVE  \/ IsManual(s) /\ ~a.wantAuto /\ s' = Regulate(gov, s, a.pct)
           \/ ~IsManual(s) /\ s'.hold = 0
           \/ s.init /\ s.auto /\ s' = s
           \/ a.wantAuto /\ s' = BmcAuto
<1>1. a.pct \in 0..100 /\ a.wantAuto \in BOOLEAN
  BY ConstantTypes
<1>2. ClampPct(a.pct) = a.pct
  BY <1>1, ClampPctIdentity
<1>3. s' = GovNext(gov, s, a.pct, a.wantAuto, a.canReclaim)
  BY DEF Decide
<1>4. CASE ~s.init
  <2>1. s' = [Manual(a.pct) EXCEPT !.auto = a.wantAuto]
    BY <1>2, <1>3, <1>4 DEF GovNext
  <2>2. s'.hold = 0
    BY <2>1 DEF Manual
  <2>3. QED
    BY <1>4, <2>2 DEF IsManual
<1>5. CASE s.init /\ s.auto
  <2>1. s' = s \/ s' = Manual(a.pct)
    BY <1>2, <1>3, <1>5 DEF GovNext, Reclaim
  <2>2. QED
    BY <1>5, <2>1 DEF IsManual, Manual
<1>6. CASE s.init /\ ~s.auto /\ a.wantAuto
  BY <1>2, <1>3, <1>6 DEF GovNext
<1>7. CASE s.init /\ ~s.auto /\ ~a.wantAuto
  BY <1>2, <1>3, <1>7 DEF GovNext, IsManual
<1>8. QED
  BY <1>4, <1>5, <1>6, <1>7

-----------------------------------------------------------------------------
\* The invariant is inductive as it stands: a hold counts what streak counts.
IInv == TypeOK /\ HoldIsEarned

\* A fresh governor has no hold (fan.State{} after start or reload).
LEMMA InitInv == Init => IInv
<1>1. ASSUME Init PROVE TypeOK
  BY <1>1, ManualType DEF Init, TypeOK
<1>2. ASSUME Init PROVE HoldIsEarned
  BY <1>2 DEF Init, HoldIsEarned, ZeroState
<1>3. QED
  BY <1>1, <1>2 DEF IInv

\* A decision that regulates keeps every hold earned.
LEMMA RegulateEarns ==
    ASSUME IInv, NEW a \in Asks, Decide(a),
           IsManual(s), ~a.wantAuto, s' = Regulate(gov, s, a.pct)
    PROVE  HoldIsEarned'
<1>1. /\ gov \in GovernorSet /\ gov.holdPolls \in Nat /\ gov.holdPolls < MaxStreak
      /\ s \in CommandStates /\ a.pct \in 0..100 /\ streak \in 0..MaxStreak
  BY ConstantTypes DEF IInv, TypeOK
<1>2. gov' = gov /\ asked' = a
  BY DEF Decide
<1>3. /\ s'.init /\ ~s'.auto
      /\ \/ s'.hold = 0
         \/ gov.holdPolls = 0 /\ s' = s
         \/ /\ a.pct # s.pct /\ Distance(a.pct, s.pct) < gov.deadband
            /\ HoldCount(s, a.pct) < gov.holdPolls
            /\ s'.hold = HoldCount(s, a.pct) /\ s'.holdPct = a.pct /\ s'.pct = s.pct
  <2>1. s.init /\ ~s.auto
    BY DEF IsManual
  <2>2. RegulateOutcome(gov, s, a.pct, s')
    BY <1>1, <2>1, RegulateCases, Zenon
  <2>3. QED
    BY <2>2 DEF RegulateOutcome
<1>4. SUFFICES ASSUME s'.hold > 0 PROVE HoldIsEarned'
  BY DEF HoldIsEarned
<1>5. ~(gov.holdPolls = 0 /\ s' = s)
  <2>1. SUFFICES ASSUME gov.holdPolls = 0, s' = s PROVE FALSE
    OBVIOUS
  <2>2. s.hold > 0 /\ s.hold \in Nat
    BY <1>1, <1>4, <2>1 DEF CommandStates
  <2>3. s.hold < gov.holdPolls
    BY <2>2 DEF IInv, HoldIsEarned
  <2>4. QED
    BY <2>1, <2>2, <2>3
<1>6. /\ a.pct # s.pct /\ Distance(a.pct, s.pct) < gov.deadband
      /\ HoldCount(s, a.pct) < gov.holdPolls
      /\ s'.hold = HoldCount(s, a.pct) /\ s'.holdPct = a.pct /\ s'.pct = s.pct
  BY <1>3, <1>4, <1>5
<1>7. HoldCount(s, a.pct) <= streak'
  <2>1. CASE s.hold > 0 /\ s.holdPct = a.pct
    <3>1. s.hold <= streak /\ asked.pct = a.pct /\ s.hold \in Nat
      BY <1>1, <2>1 DEF IInv, HoldIsEarned, CommandStates
    <3>2. s.hold < MaxStreak
      BY <1>1, <2>1, <3>1 DEF IInv, HoldIsEarned
    <3>3. s.hold + 1 <= streak'
      BY <3>1, <3>2, StreakStep DEF IInv
    <3>4. QED
      BY <2>1, <3>3 DEF HoldCount
  <2>2. CASE ~(s.hold > 0 /\ s.holdPct = a.pct)
    <3>1. HoldCount(s, a.pct) = 1
      BY <2>2 DEF HoldCount
    <3>2. streak' >= 1 /\ streak' \in 0..MaxStreak
      BY StreakStep DEF IInv
    <3>3. QED
      BY <1>1, <3>1, <3>2
  <2>3. QED
    BY <2>1, <2>2
<1>8. IsManual(s)'
  BY <1>3 DEF IsManual
<1>9. QED
  BY <1>2, <1>6, <1>7, <1>8 DEF HoldIsEarned

\* One decision (Governor.Next) keeps the invariant.
LEMMA DecideInv == ASSUME IInv, NEW a \in Asks, Decide(a) PROVE IInv'
<1>1. TypeOK /\ TypeOK'
  BY DecideType DEF IInv
<1>2. CASE IsManual(s) /\ ~a.wantAuto /\ s' = Regulate(gov, s, a.pct)
  BY <1>1, <1>2, RegulateEarns DEF IInv
<1>3. CASE s'.hold = 0
  BY <1>1, <1>3 DEF IInv, HoldIsEarned
<1>4. CASE s.init /\ s.auto /\ s' = s
  <2>1. s.hold \in Nat /\ ~(s.hold > 0)
    BY <1>1, <1>4 DEF IInv, HoldIsEarned, IsManual, TypeOK, CommandStates
  <2>2. s'.hold = 0
    BY <1>4, <2>1
  <2>3. QED
    BY <1>3, <2>2
<1>5. CASE a.wantAuto /\ s' = BmcAuto
  <2>1. s'.hold = 0
    BY <1>5 DEF BmcAuto
  <2>2. QED
    BY <1>3, <2>1
<1>6. QED
  BY <1>1, <1>2, <1>3, <1>4, <1>5, DecideCases

\* A reload (setTunables) keeps the invariant: it starts over.
LEMMA ResetInv == ASSUME IInv, NEW g \in Governors, Reset(g) PROVE IInv'
<1>1. TypeOK'
  BY ManualType DEF Reset, TypeOK
<1>2. HoldIsEarned'
  BY DEF Reset, HoldIsEarned, ZeroState
<1>3. QED
  BY <1>1, <1>2 DEF IInv

\* Every step of the governor keeps the invariant.
LEMMA NextInv == IInv /\ [Next]_vars => IInv'
<1> SUFFICES ASSUME IInv, [Next]_vars PROVE IInv'
  OBVIOUS
<1>1. CASE DecideAny
  BY <1>1, DecideInv DEF DecideAny
<1>2. CASE \E g \in Governors : Reset(g)
  BY <1>2, ResetInv
<1>3. CASE UNCHANGED vars
  BY <1>3 DEF vars, IInv, TypeOK, HoldIsEarned, IsManual, Asks, NoAsk
<1>4. QED
  BY <1>1, <1>2, <1>3 DEF Next

\* Governor.Next keeps the state a state: the duty in 0..100, the hold a
\* natural, whatever the curves ask for and whichever governor is loaded.
THEOREM GovernorTyped == Spec => []TypeOK
<1>1. IInv => TypeOK
  BY DEF IInv
<1>2. QED
  BY <1>1, InitInv, NextInv, PTL DEF Spec

\* A hold in progress is backed by that many decisions in a row which asked for
\* its target, and is short of holdPolls (State.Hold, Governor.Next).
THEOREM HoldsAreEarned == Spec => []HoldIsEarned
<1>1. IInv => HoldIsEarned
  BY DEF IInv
<1>2. QED
  BY <1>1, InitInv, NextInv, PTL DEF Spec
\* A decision that leaves the fans manual has regulated, or has just taken them
\* at the duty asked for.
LEMMA DecideKeepsUp == ASSUME IInv, NEW a \in Asks, Decide(a) PROVE CoolingKeepsUp'
<1>1. SUFFICES ASSUME IsManual(s') PROVE a.pct <= s'.pct \/ a.pct - s'.pct < gov.deadband
  BY DEF CoolingKeepsUp, Decide, IsManual
<1>2. /\ gov \in GovernorSet /\ s \in CommandStates
      /\ a.pct \in 0..100 /\ a.wantAuto \in BOOLEAN
  BY ConstantTypes DEF IInv, TypeOK
<1>3. s' = GovNext(gov, s, a.pct, a.wantAuto, a.canReclaim) /\ ClampPct(a.pct) = a.pct
  BY <1>2, ClampPctIdentity DEF Decide
<1>4. CASE ~IsManual(s)
  <2>1. s'.pct = a.pct
    BY <1>1, <1>3, <1>4 DEF GovNext, Reclaim, Manual, IsManual
  <2>2. QED
    BY <1>2, <2>1
<1>5. CASE IsManual(s)
  <2>1. s' = Regulate(gov, s, a.pct)
    BY <1>1, <1>3, <1>5 DEF GovNext, BmcAuto, IsManual
  <2>2. QED
    BY <1>2, <2>1, RegulateKeepsUp
<1>6. QED
  BY <1>4, <1>5

\* The deadband, the hold and the cap delay cooling by less than the deadband:
\* whatever is asked for, and from whatever state, after a decision the fans are
\* at least nearly there, or the BMC has them (Governor.Next).
THEOREM CoolingIsNotDelayed == Spec => []CoolingKeepsUp
<1>1. Init => CoolingKeepsUp
  BY DEF Init, CoolingKeepsUp
<1>2. ASSUME IInv, CoolingKeepsUp, [Next]_vars PROVE CoolingKeepsUp'
  <2>1. CASE DecideAny
    BY <1>2, <2>1, DecideKeepsUp DEF DecideAny
  <2>2. CASE \E g \in Governors : Reset(g)
    BY <2>2 DEF Reset, CoolingKeepsUp
  <2>3. CASE UNCHANGED vars
    BY <1>2, <2>3 DEF vars, CoolingKeepsUp, IsManual, NoAsk
  <2>4. QED
    BY <1>2, <2>1, <2>2, <2>3 DEF Next
<1>3. QED
  BY <1>1, <1>2, InitInv, NextInv, PTL DEF Spec

-----------------------------------------------------------------------------
\* What the action properties say of one step.
JitterStep ==
    (/\ IsManual(s) /\ IsManual(s')
     /\ s'.pct # s.pct
     /\ Distance(asked'.pct, s.pct) < gov.deadband)
        => /\ streak' >= gov.holdPolls
           /\ gov.holdPolls = 0 => s'.pct > s.pct

BoundStep ==
    (/\ IsManual(s) /\ IsManual(s')
     /\ 0 < gov.maxStepDown /\ gov.deadband <= gov.maxStepDown + 1)
        => s.pct - s'.pct <= gov.maxStepDown

CloseStep ==
    (IsManual(s) /\ IsManual(s') /\ asked' = asked /\ gov.holdPolls > 0)
        => \/ s.pct = asked.pct /\ s'.pct = s.pct
           \/ Distance(s'.pct, asked.pct) < Distance(s.pct, asked.pct)
           \/ s'.pct = s.pct /\ s'.hold = s.hold + 1

\* From manual control to manual control a decision has regulated.
LEMMA ManualDecides ==
    ASSUME TypeOK, NEW a \in Asks, Decide(a), IsManual(s), IsManual(s')
    PROVE  ~a.wantAuto /\ RegulateOutcome(gov, s, a.pct, s')
<1>1. gov \in GovernorSet /\ s \in CommandStates /\ a.pct \in 0..100
  BY ConstantTypes DEF TypeOK
<1>2. s.init /\ ~s.auto /\ ~s'.auto
  BY DEF IsManual
<1>3. ~a.wantAuto /\ s' = Regulate(gov, s, a.pct)
  <2>1. ~(s' = BmcAuto)
    BY <1>2 DEF BmcAuto
  <2>2. QED
    BY <1>2, <2>1, DecideCases DEF IsManual
<1>4. QED
  BY <1>1, <1>2, <1>3, RegulateCases, Zenon

\* A small move needs as many repetitions of its target as the debounce asks
\* for; a hold that got there was counted, one by one, by streak.
LEMMA DecideJitter == ASSUME IInv, NEW a \in Asks, Decide(a) PROVE JitterStep
<1>1. SUFFICES ASSUME IsManual(s), IsManual(s'), s'.pct # s.pct,
                      Distance(a.pct, s.pct) < gov.deadband
               PROVE  /\ streak' >= gov.holdPolls
                      /\ gov.holdPolls = 0 => s'.pct > s.pct
  BY DEF JitterStep, Decide
<1>2. /\ gov \in GovernorSet /\ s \in CommandStates /\ a.pct \in 0..100
      /\ streak \in 0..MaxStreak /\ gov.holdPolls \in Nat /\ gov.holdPolls < MaxStreak
  BY ConstantTypes DEF IInv, TypeOK
<1>3. ~a.wantAuto /\ RegulateOutcome(gov, s, a.pct, s')
  BY <1>1, ManualDecides DEF IInv
<1>4. /\ HoldCount(s, a.pct) >= gov.holdPolls
      /\ gov.holdPolls = 0 => a.pct > s.pct
      /\ s'.pct = a.pct
  <2>1. Distance(a.pct, s.pct) \in Nat /\ gov.deadband \in Nat
    <3>1. a.pct \in Int /\ s.pct \in Int /\ gov.deadband \in Nat
      BY <1>2 DEF CommandStates, GovernorSet
    <3>2. QED
      BY <3>1, DistanceBounds
  <2>2. ~(Distance(a.pct, s.pct) >= gov.deadband)
    BY <1>1, <2>1
  <2>3. QED
    BY <1>1, <1>3, <2>2 DEF RegulateOutcome
<1>5. HoldCount(s, a.pct) <= streak'
  <2>1. CASE s.hold > 0 /\ s.holdPct = a.pct
    <3>1. s.hold <= streak /\ s.hold < MaxStreak /\ asked.pct = a.pct /\ s.hold \in Nat
      BY <1>2, <2>1 DEF IInv, HoldIsEarned, CommandStates
    <3>2. s.hold + 1 <= streak'
      BY <1>3, <3>1, StreakStep DEF IInv
    <3>3. QED
      BY <2>1, <3>2 DEF HoldCount
  <2>2. CASE ~(s.hold > 0 /\ s.holdPct = a.pct)
    <3>1. HoldCount(s, a.pct) = 1 /\ streak' >= 1
      BY <1>3, <2>2, StreakStep DEF HoldCount, IInv
    <3>2. QED
      BY <3>1
  <2>3. QED
    BY <2>1, <2>2
<1>6. HoldCount(s, a.pct) \in Nat /\ streak' \in Nat
  BY <1>2, StreakStep DEF HoldCount, CommandStates, IInv
<1>7. QED
  BY <1>2, <1>4, <1>5, <1>6

\* A large move is capped, a small one is shorter than the deadband.
LEMMA DecideBound == ASSUME IInv, NEW a \in Asks, Decide(a) PROVE BoundStep
<1>1. SUFFICES ASSUME IsManual(s), IsManual(s'), 0 < gov.maxStepDown,
                      gov.deadband <= gov.maxStepDown + 1
               PROVE  s.pct - s'.pct <= gov.maxStepDown
  BY DEF BoundStep
<1>2. /\ gov.maxStepDown \in Nat /\ gov.deadband \in Nat
      /\ s.pct \in 0..100 /\ a.pct \in 0..100
  BY ConstantTypes DEF IInv, TypeOK, GovernorSet, CommandStates
<1>3. RegulateOutcome(gov, s, a.pct, s')
  BY <1>1, ManualDecides DEF IInv
<1>4. CASE s'.pct = s.pct
  BY <1>1, <1>2, <1>4
<1>5. CASE gov.maxStepDown > 0 => s.pct - s'.pct <= gov.maxStepDown
  BY <1>1, <1>2, <1>5
<1>6. CASE Distance(a.pct, s.pct) < gov.deadband /\ s'.pct = a.pct
  <2>1. a.pct \in Int /\ s.pct \in Int
    BY <1>2
  <2>2. s.pct - a.pct <= gov.maxStepDown
    BY <1>1, <1>2, <1>6, <2>1, SmallDecrease, Zenon
  <2>3. QED
    BY <1>6, <2>2
<1>7. QED
  BY <1>3, <1>4, <1>5, <1>6 DEF RegulateOutcome

\* A repeated question counts on a hold that is for it, and there is no other.
LEMMA DecideCloses == ASSUME IInv, NEW a \in Asks, Decide(a) PROVE CloseStep
<1>1. SUFFICES ASSUME IsManual(s), IsManual(s'), asked = a, gov.holdPolls > 0
               PROVE  \/ s.pct = a.pct /\ s'.pct = s.pct
                      \/ Distance(s'.pct, a.pct) < Distance(s.pct, a.pct)
                      \/ s'.pct = s.pct /\ s'.hold = s.hold + 1
  BY DEF CloseStep, Decide
<1>2. gov \in GovernorSet /\ s \in CommandStates /\ a.pct \in 0..100
  BY ConstantTypes DEF IInv, TypeOK
<1>3. s' = Regulate(gov, s, a.pct)
  <2>1. s' # BmcAuto
    BY <1>1 DEF BmcAuto, IsManual
  <2>2. QED
    BY <1>1, <2>1, DecideCases DEF IsManual, IInv
<1>4. HoldCount(s, a.pct) = s.hold + 1
  <2>1. s.hold \in Nat
    BY <1>2 DEF CommandStates
  <2>2. s.hold > 0 => s.holdPct = a.pct
    BY <1>1 DEF IInv, HoldIsEarned
  <2>3. QED
    BY <2>1, <2>2 DEF HoldCount
<1>5. QED
  BY <1>1, <1>2, <1>3, <1>4, RegulateCloses

\* Every step of the governor satisfies them.
LEMMA NextSteps == IInv /\ [Next]_vars => [JitterStep /\ BoundStep /\ CloseStep]_vars
<1> SUFFICES ASSUME IInv, Next PROVE JitterStep /\ BoundStep /\ CloseStep
  OBVIOUS
<1>1. CASE DecideAny
  BY <1>1, DecideJitter, DecideBound, DecideCloses DEF DecideAny
<1>2. CASE \E g \in Governors : Reset(g)
  <2>1. ~IsManual(s')
    BY <1>2 DEF Reset, ZeroState, IsManual
  <2>2. QED
    BY <2>1 DEF JitterStep, BoundStep, CloseStep
<1>3. QED
  BY <1>1, <1>2 DEF Next

\* Jitter within the deadband moves the duty only after holdPolls repetitions,
\* and never downward without debouncing (Governor.Next, DeadbandHoldPolls).
THEOREM JitterIsAbsorbed == Spec => JitterAbsorbed
<1>1. IInv /\ [Next]_vars => [JitterStep]_vars
  BY NextSteps
<1>2. Spec => [][JitterStep]_vars
  BY <1>1, InitInv, NextInv, PTL DEF Spec
<1>3. QED
  BY <1>2 DEF JitterStep, JitterAbsorbed

\* A decrease under manual control is at most MaxStepDown, if the deadband is
\* at most one more than it (Governor.Next; the default is 3 against 10).
THEOREM StepDownIsBounded == Spec => StepDownBounded
<1>1. IInv /\ [Next]_vars => [BoundStep]_vars
  BY NextSteps
<1>2. Spec => [][BoundStep]_vars
  BY <1>1, InitInv, NextInv, PTL DEF Spec
<1>3. QED
  BY <1>2 DEF BoundStep, StepDownBounded

\* Debouncing never strands a duty (Governor.Next, curve.go:184): asked for again,
\* a target that is reached stays, one that is not comes nearer, or its hold counts
\* on towards holdPolls.  Distance and count are what the settling rests on.
THEOREM RepetitionClosesIn == Spec => ClosesIn
<1>1. IInv /\ [Next]_vars => [CloseStep]_vars
  BY NextSteps
<1>2. Spec => [][CloseStep]_vars
  BY <1>1, InitInv, NextInv, PTL DEF Spec
<1>3. QED
  BY <1>2 DEF CloseStep, ClosesIn
=============================================================================
