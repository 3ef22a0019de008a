---------------------------- MODULE WatchdogProofs ----------------------------
(* The watchdog's theorems, for every file, period, slack and fallback.        *)
EXTENDS Watchdog, TLAPS

\* What an accepted file makes of the step timeout and the cadences: the step
\* timeout is positive and, at startup, no longer than any cadence.
LEMMA AcceptedTiming ==
    ASSUME NEW f \in Files, Acceptable(f)
    PROVE  /\ EffectiveStepTimeout(Merged(f)) \in Nat \ {0}
           /\ Cadences(Merged(f)) \subseteq Nat \ {0}
           /\ \A c \in Cadences(Merged(f)) : EffectiveStepTimeout(Merged(f)) <= c
<1> DEFINE m == Merged(f)
<1>1. m.poll \in Int /\ m.hot \in Int /\ m.step \in Int /\ MinPoll \in Nat \ {0}
  BY WatchdogAssumption
<1>2. m.poll >= MinPoll /\ m.step > 0 /\ (m.hot # 0 => m.hot >= MinPoll) /\ m.hot <= m.poll
  BY DEF Acceptable, Validate
<1> HIDE DEF m
<1>3. EffectiveStepTimeout(m) \in Nat \ {0}
  BY <1>1, <1>2 DEF EffectiveStepTimeout
<1>4. Cadences(m) \subseteq Nat \ {0}
  BY <1>1, <1>2 DEF Cadences
<1>5. \A c \in Cadences(m) : EffectiveStepTimeout(m) <= c
  BY <1>1, <1>2 DEF EffectiveStepTimeout, Cadences
<1>6. QED
  BY <1>3, <1>4, <1>5 DEF m

\* A busy spell is a step and what its fallback takes.
LEMMA SpellType ==
    ASSUME stepTimeout \in Nat \ {0}
    PROVE  Spell \in Nat /\ stepTimeout <= Spell
BY WatchdogAssumption DEF Spell, Least

LEMMA SpellKept == ASSUME UNCHANGED stepTimeout PROVE Spell' = Spell
BY DEF Spell, Least

-----------------------------------------------------------------------------
(* Types.                                                                    *)

LEMMA TypeInit == Init => TypeOK
<1> SUFFICES ASSUME Init PROVE TypeOK
  OBVIOUS
<1>1. PICK f \in Files :
        /\ Acceptable(f)
        /\ stepTimeout = EffectiveStepTimeout(Merged(f))
        /\ cads = Cadences(Merged(f))
  BY DEF Init
<1>2. stepTimeout \in Nat \ {0} /\ cads \subseteq Nat \ {0}
  BY <1>1, AcceptedTiming
<1>3. Spell \in Nat
  BY <1>2, SpellType
<1>4. cad \in Nat \ {0} /\ tight = (cad <= Spell)
  BY <1>2 DEF Init
<1>5. tight \in BOOLEAN
  BY <1>4
<1>6. /\ loop = "select" /\ busy = 0 /\ tick = 0 /\ pend = FALSE /\ wake = FALSE
      /\ beat = 0 /\ probing = FALSE /\ since = 0 /\ stuck = 0
  BY DEF Init
<1>7. tick < cad /\ busy <= Spell /\ beat <= Half /\ since <= WatchdogSec
  BY <1>3, <1>4, <1>6, WatchdogAssumption DEF WatchdogSec
<1>8. QED
  BY <1>2, <1>4, <1>5, <1>6, <1>7 DEF TypeOK

\* The ticker stays within its period.
LEMMA RetickType ==
    ASSUME TypeOK, NEW c \in cads, Retick(c)
    PROVE  /\ cad' \in Nat \ {0} /\ tick' \in Nat /\ tick' < cad'
           /\ pend' \in BOOLEAN /\ tight' \in BOOLEAN
<1>1. CASE c = cad
  BY <1>1 DEF TypeOK, Retick
<1>2. CASE c # cad
  <2>1. cad' = c /\ tick' = 0 /\ pend' = FALSE /\ tight' = (tight \/ c <= Spell)
    BY <1>2 DEF Retick
  <2>2. c \in Nat \ {0}
    BY DEF TypeOK
  <2>3. tight' \in BOOLEAN
    BY <2>1
  <2>4. cad' \in Nat \ {0} /\ tick' \in Nat /\ tick' < cad'
    BY <2>1, <2>2
  <2>5. QED
    BY <2>1, <2>3, <2>4
<1>3. QED
  BY <1>1, <1>2

LEMMA TypeNext == ASSUME TypeOK, [Next]_vars PROVE TypeOK'
<1>1. Spell \in Nat /\ stepTimeout <= Spell /\ Half \in Nat \ {0}
  BY SpellType, WatchdogAssumption DEF TypeOK
<1>2. UNCHANGED stepTimeout
  BY DEF Next, Works, StepFails, BackToSelect, TakeTick, TakeWake, TakeProbe, ProbeTimesOut,
     ProberTick, SystemdKills, TimePasses, Wedge, ReloadAny, Reload, vars
<1>3. Spell' = Spell
  BY <1>2, SpellKept
<1> USE <1>1, <1>2, <1>3 DEF TypeOK
<1>4. CASE StepFails
  BY <1>4 DEF StepFails, tickerVars, proberVars
<1>5. CASE BackToSelect
  <2>1. PICK c \in cads : Retick(c)
    BY <1>5 DEF BackToSelect
  <2>2. QED
    BY <1>5, <2>1, RetickType DEF BackToSelect, proberVars
<1>6. CASE TakeTick
  <2>1. loop' = "step" /\ busy' = 0 /\ pend' \in BOOLEAN
    BY <1>6 DEF TakeTick
  <2>2. UNCHANGED <<cads, cad, tick, wake, tight, beat, probing, since, stuck>>
    BY <1>6 DEF TakeTick, proberVars
  <2>3. busy' \in Nat /\ busy' <= Spell'
    BY <2>1
  <2>4. QED
    BY <2>1, <2>2, <2>3
<1>7. CASE TakeWake
  <2>1. PICK c \in cads : Retick(c)
    BY <1>7 DEF TakeWake
  <2>2. QED
    BY <1>7, <2>1, RetickType DEF TakeWake, proberVars
<1>8. CASE TakeProbe
  <2>1. /\ probing' = FALSE /\ since' = 0
        /\ UNCHANGED <<loop, busy, cads, cad, tick, pend, wake, tight, beat, stuck>>
    BY <1>8 DEF TakeProbe, tickerVars
  <2>2. since' <= WatchdogSec
    BY <2>1 DEF WatchdogSec
  <2>3. QED
    BY <2>1, <2>2
<1>9. CASE ProbeTimesOut
  BY <1>9 DEF ProbeTimesOut, tickerVars
<1>10. CASE ProberTick
  BY <1>10 DEF ProberTick, tickerVars
<1>11. CASE SystemdKills
  BY <1>11 DEF SystemdKills, tickerVars, proberVars
<1>12. CASE TimePasses
  <2>1. busy' \in Nat /\ busy' <= Spell
    BY <1>12 DEF TimePasses, Quiet, Busy
  <2>2. tick' \in Nat /\ tick' < cad' /\ pend' \in BOOLEAN
    <3>1. cad' = cad /\ IF tick + 1 = cad THEN tick' = 0 /\ pend' = TRUE
                        ELSE tick' = tick + 1 /\ pend' = pend
      BY <1>12 DEF TimePasses
    <3>2. CASE tick + 1 = cad
      BY <3>1, <3>2
    <3>3. CASE tick + 1 # cad
      BY <3>1, <3>3
    <3>4. QED
      BY <3>2, <3>3
  <2>3. beat' \in Nat /\ beat' <= Half /\ since' \in Nat /\ since' <= WatchdogSec
    BY <1>12 DEF TimePasses, Quiet, WatchdogSec
  <2>4. stuck' \in Nat
    BY <1>12, WatchdogAssumption DEF TimePasses, Least, WatchdogSec
  <2>5. UNCHANGED <<loop, cads, cad, wake, probing, tight>>
    BY <1>12 DEF TimePasses
  <2>6. QED
    BY <2>1, <2>2, <2>3, <2>4, <2>5
<1>13. CASE Wedge
  BY <1>13 DEF Wedge, tickerVars, proberVars
<1>14. CASE ReloadAny
  <2>1. PICK f \in Files : Reload(f)
    BY <1>14 DEF ReloadAny
  <2>2. cads' \subseteq Nat \ {0}
    BY <2>1, AcceptedTiming DEF Reload
  <2>3. QED
    BY <2>1, <2>2 DEF Reload, proberVars
<1>15. CASE UNCHANGED vars
  BY <1>15 DEF vars, tickerVars, proberVars
<1>16. QED
  BY <1>4, <1>5, <1>6, <1>7, <1>8, <1>9, <1>10, <1>11, <1>12, <1>13, <1>14, <1>15
     DEF Next, Works

\* The loop, the ticker and the prober keep their types, whatever is reloaded:
\* a busy spell ends in time, and the ticker fires within its period.
THEOREM WatchdogTyped == Spec => []TypeOK
<1>1. TypeOK /\ [Next]_vars => TypeOK'
  BY TypeNext
<1>2. QED
  BY <1>1, TypeInit, PTL DEF Spec

-----------------------------------------------------------------------------
(* A wedged loop.                                                            *)

\* No ping comes once the loop is wedged, so that systemd strikes no later than
\* one period after.
THEOREM WedgeIsCaught == Spec => []WedgeCaught
<1>1. Init => WedgeCaught
  BY DEF Init, WedgeCaught
<1>2. ASSUME TypeOK, WedgeCaught, [Next]_vars PROVE WedgeCaught'
  <2> USE DEF WedgeCaught, TypeOK
  <2>1. CASE TimePasses
    BY <1>2, <2>1, WatchdogAssumption DEF TimePasses, Least, WatchdogSec
  <2>2. CASE Wedge
    BY <1>2, <2>2 DEF Wedge, proberVars
  <2>3. CASE ReloadAny
    BY <1>2, <2>3 DEF ReloadAny, Reload, proberVars
  <2>4. CASE ProbeTimesOut \/ ProberTick
    BY <1>2, <2>4 DEF ProbeTimesOut, ProberTick
  <2>5. CASE StepFails \/ BackToSelect \/ TakeTick \/ TakeWake \/ TakeProbe \/ SystemdKills
    BY <2>5 DEF StepFails, BackToSelect, TakeTick, TakeWake, TakeProbe, SystemdKills, Busy
  <2>6. CASE UNCHANGED vars
    BY <1>2, <2>6 DEF vars, proberVars
  <2>7. QED
    BY <1>2, <2>1, <2>2, <2>3, <2>4, <2>5, <2>6 DEF Next, Works
<1>3. TypeOK /\ WedgeCaught /\ [Next]_vars => WedgeCaught'
  BY <1>2
<1>4. QED
  BY <1>1, <1>3, WatchdogTyped, PTL DEF Spec

-----------------------------------------------------------------------------
(* A healthy loop.                                                           *)

\* The loop works, no cadence has been shorter than a busy spell, and the spell
\* is within the grace.
Sound == loop \in {"select", "step", "fallback"} /\ ~tight /\ Quick

\* No tick comes due while the loop is busy; one that waits in select came just now.
TickInTime ==
    /\ Spell < cad
    /\ Busy => ~pend /\ tick <= busy
    /\ loop = "select" /\ pend => tick = 0

\* A probe waits no longer than the loop is busy; while it waits with a tick, both
\* came just now.
ProbeInTime ==
    /\ probing /\ Busy => beat <= busy
    /\ probing => beat <= Spell
    /\ probing /\ loop = "select" /\ pend => beat = 0

\* A ping goes out for every probe, before it can time out.
PingInTime ==
    /\ ~probing => since <= beat
    /\ probing => since <= Half + beat

HealthInv == Sound => TickInTime /\ ProbeInTime /\ PingInTime

LEMMA HealthInit == Init => HealthInv
<1> SUFFICES ASSUME Init, Sound PROVE TickInTime /\ ProbeInTime /\ PingInTime
  BY DEF HealthInv
<1>1. TypeOK
  BY TypeInit
<1>2. Spell \in Nat /\ cad \in Nat /\ ~tight
  BY <1>1, SpellType DEF Sound, TypeOK
<1>3. ~(cad <= Spell)
  <2>1. tight = (cad <= Spell)
    BY DEF Init
  <2>2. QED
    BY <1>2, <2>1
<1>4. Spell < cad
  BY <1>2, <1>3
<1>5. QED
  BY <1>2, <1>4 DEF Init, TickInTime, ProbeInTime, PingInTime, Busy

\* The grace is longer than a busy spell.
LEMMA Patience == ASSUME TypeOK, Quick PROVE Spell < Grace
<1>1. Spell \in Nat /\ stepTimeout \in Nat
  BY SpellType DEF TypeOK
<1>2. QED
  BY <1>1, WatchdogAssumption DEF Quick, Grace, Least

\* One ticker period more, or the same one.
LEMMA RetickSound ==
    ASSUME TypeOK, NEW c \in cads, Retick(c), ~tight', Spell < cad
    PROVE  /\ Spell < cad' /\ ~tight
           /\ pend' => pend /\ UNCHANGED tick
           /\ tick' <= tick
<1>1. Spell \in Nat /\ c \in Nat /\ tick \in Nat
  BY SpellType DEF TypeOK
<1>2. CASE c = cad
  BY <1>1, <1>2 DEF Retick
<1>3. CASE c # cad
  <2>1. cad' = c /\ tick' = 0 /\ ~pend'
    BY <1>3 DEF Retick
  <2>2. tight' = (tight \/ c <= Spell)
    BY <1>3 DEF Retick
  <2>3. ~tight /\ ~(c <= Spell)
    BY <2>2
  <2>4. QED
    BY <1>1, <2>1, <2>3
<1>4. QED
  BY <1>2, <1>3

LEMMA HealthNext == ASSUME TypeOK, HealthInv, [Next]_vars PROVE HealthInv'
<1>1. UNCHANGED stepTimeout
  BY DEF Next, Works, StepFails, BackToSelect, TakeTick, TakeWake, TakeProbe, ProbeTimesOut,
     ProberTick, SystemdKills, TimePasses, Wedge, ReloadAny, Reload, vars
<1>2. Spell' = Spell /\ Quick' = Quick
  BY <1>1, SpellKept DEF Quick
<1> SUFFICES ASSUME Sound' PROVE (TickInTime /\ ProbeInTime /\ PingInTime)'
  BY DEF HealthInv
<1>3. Spell \in Nat /\ Half \in Nat \ {0}
  BY SpellType, WatchdogAssumption DEF TypeOK
<1>4. Quick /\ ~tight' /\ loop' \in {"select", "step", "fallback"}
  BY <1>2 DEF Sound
<1>5. loop \in {"select", "step", "fallback"}
  BY <1>4 DEF Next, Works, StepFails, BackToSelect, TakeTick, TakeWake, TakeProbe,
     ProbeTimesOut, ProberTick, SystemdKills, TimePasses, Quiet, Wedge, ReloadAny, Reload,
     vars, Busy, TypeOK
<1>6. ~tight => TickInTime /\ ProbeInTime /\ PingInTime
  BY <1>4, <1>5 DEF HealthInv, Sound
<1>7. CASE StepFails
  <2>1. ~tight /\ loop = "step" /\ loop' = "fallback"
        /\ UNCHANGED <<busy, cad, tick, pend, beat, probing, since>>
    BY <1>4, <1>7 DEF StepFails, tickerVars, proberVars
  <2>2. QED
    BY <1>2, <1>6, <2>1 DEF TickInTime, ProbeInTime, PingInTime, Busy
<1>8. CASE BackToSelect
  <2>1. PICK c \in cads : Retick(c)
    BY <1>8 DEF BackToSelect
  <2>2. ~tight
    BY <1>4, <2>1 DEF Retick
  <2>3. Spell < cad /\ ~pend
    BY <1>6, <1>8, <2>2 DEF TickInTime, BackToSelect
  <2>4. Spell < cad' /\ ~pend'
    BY <1>4, <2>1, <2>3, RetickSound
  <2>5. loop' = "select" /\ UNCHANGED <<beat, probing, since>>
    BY <1>8 DEF BackToSelect, proberVars
  <2>6. QED
    BY <1>2, <1>6, <2>2, <2>4, <2>5 DEF TickInTime, ProbeInTime, PingInTime, Busy
<1>9. CASE TakeTick
  <2>1. ~tight /\ loop = "select" /\ pend /\ loop' = "step" /\ busy' = 0 /\ ~pend'
        /\ UNCHANGED <<cad, tick, beat, probing, since>>
    BY <1>4, <1>9 DEF TakeTick, proberVars
  <2>2. QED
    BY <1>2, <1>6, <2>1 DEF TickInTime, ProbeInTime, PingInTime, Busy
<1>10. CASE TakeWake
  <2>1. PICK c \in cads : Retick(c)
    BY <1>10 DEF TakeWake
  <2>2. ~tight
    BY <1>4, <2>1 DEF Retick
  <2>3. Spell < cad /\ loop = "select"
    BY <1>6, <1>10, <2>2 DEF TickInTime, TakeWake
  <2>4. Spell < cad' /\ (pend' => pend /\ UNCHANGED tick)
    BY <1>4, <2>1, <2>3, RetickSound
  <2>5. loop' = "select" /\ UNCHANGED <<beat, probing, since>>
    BY <1>10, <2>3 DEF TakeWake, proberVars
  <2>6. QED
    BY <1>2, <1>6, <2>2, <2>3, <2>4, <2>5 DEF TickInTime, ProbeInTime, PingInTime, Busy
<1>11. CASE TakeProbe
  <2>1. ~tight /\ loop = "select" /\ loop' = "select" /\ ~probing' /\ since' = 0
        /\ UNCHANGED <<cad, tick, pend, beat>>
    BY <1>4, <1>11 DEF TakeProbe, tickerVars
  <2>2. QED
    BY <1>2, <1>6, <2>1 DEF TickInTime, ProbeInTime, PingInTime, Busy, TypeOK
<1>12. CASE ProbeTimesOut
  <2>1. ~tight /\ probing /\ beat >= Grace
    BY <1>4, <1>12 DEF ProbeTimesOut, tickerVars
  <2>2. beat <= Spell /\ Spell < Grace
    BY <1>4, <1>6, <2>1, Patience DEF ProbeInTime
  <2>3. Grace \in Nat /\ beat \in Nat
    BY WatchdogAssumption DEF Grace, Least, TypeOK
  <2>4. QED
    BY <1>3, <2>1, <2>2, <2>3
<1>13. CASE ProberTick
  <2>1. ~tight /\ ~probing /\ beat = Half /\ probing' /\ beat' = 0
        /\ UNCHANGED <<loop, busy, cad, tick, pend, since>>
    BY <1>4, <1>13 DEF ProberTick, tickerVars
  <2>2. QED
    BY <1>2, <1>3, <1>6, <2>1 DEF TickInTime, ProbeInTime, PingInTime, Busy, TypeOK
<1>14. CASE SystemdKills
  BY <1>4, <1>14 DEF SystemdKills
<1>15. CASE TimePasses
  <2>1. ~tight /\ UNCHANGED <<loop, cad, probing>> /\ beat' = beat + 1 /\ since' = since + 1
        /\ (Busy => busy' = busy + 1)
        /\ IF tick + 1 = cad THEN tick' = 0 /\ pend' = TRUE
           ELSE tick' = tick + 1 /\ UNCHANGED pend
    BY <1>4, <1>15 DEF TimePasses
  <2>2. TickInTime /\ ProbeInTime /\ PingInTime
    BY <1>6, <2>1
  <2>3. loop = "select" => ~probing /\ ~pend
    BY <1>15 DEF TimePasses, Quiet
  <2>4. Busy => busy < Spell
    BY <1>3, <1>15, SpellType DEF TimePasses, Quiet, Busy, TypeOK
  <2>5. Busy' = Busy /\ (Busy \/ loop = "select")
    BY <1>5, <2>1 DEF Busy
  <2>6. TickInTime'
    BY <1>2, <1>3, <2>1, <2>2, <2>3, <2>4, <2>5 DEF TickInTime, TypeOK
  <2>7. ProbeInTime'
    BY <1>2, <1>3, <2>1, <2>2, <2>3, <2>4, <2>5 DEF ProbeInTime, TypeOK
  <2>8. PingInTime'
    BY <1>3, <2>1, <2>2 DEF PingInTime, TypeOK
  <2>9. QED
    BY <2>6, <2>7, <2>8
<1>16. CASE Wedge
  BY <1>4, <1>16 DEF Wedge
<1>17. CASE ReloadAny
  <2>1. ~tight /\ UNCHANGED <<loop, busy, cad, tick, pend, beat, probing, since>>
    BY <1>4, <1>17 DEF ReloadAny, Reload, proberVars
  <2>2. QED
    BY <1>2, <1>6, <2>1 DEF TickInTime, ProbeInTime, PingInTime, Busy
<1>18. CASE UNCHANGED vars
  <2>1. ~tight /\ UNCHANGED <<loop, busy, cad, tick, pend, beat, probing, since>>
    BY <1>4, <1>18 DEF vars, tickerVars, proberVars
  <2>2. QED
    BY <1>2, <1>6, <2>1 DEF TickInTime, ProbeInTime, PingInTime, Busy
<1>19. QED
  BY <1>7, <1>8, <1>9, <1>10, <1>11, <1>12, <1>13, <1>14, <1>15, <1>16, <1>17, <1>18
     DEF Next, Works

\* A loop that works is never killed, if a fallback is over within the slack, a
\* busy spell within half a period and before the next tick is due.
THEOREM HealthyIsSpared == Spec => []HealthySurvives
<1>1. TypeOK /\ HealthInv /\ [Next]_vars => TypeOK' /\ HealthInv'
  BY TypeNext, HealthNext
<1>2. ASSUME TypeOK, HealthInv PROVE HealthySurvives
  <2> SUFFICES ASSUME loop \notin {"wedged", "killed"}, ~tight, Quick PROVE ~Expired
    BY DEF HealthySurvives
  <2>1. ProbeInTime /\ PingInTime
    BY <1>2 DEF HealthInv, Sound, TypeOK
  <2>2. Spell \in Nat /\ Half \in Nat \ {0} /\ Spell < Half
    BY <1>2, SpellType, WatchdogAssumption DEF TypeOK, Quick
  <2>3. QED
    BY <1>2, <2>1, <2>2 DEF TypeOK, ProbeInTime, PingInTime, Expired, WatchdogSec
<1>3. TypeOK /\ HealthInv => HealthySurvives
  BY <1>2
<1>4. QED
  BY <1>1, <1>3, TypeInit, HealthInit, PTL DEF Spec
=============================================================================
