----------------------------- MODULE ReloadProofs -----------------------------
(* The reload's safety properties, for all configurations, any number of       *)
(* overlapping reloads, edits and signals.                                     *)
EXTENDS Reload, TLAPS

-----------------------------------------------------------------------------
(* Types.                                                                    *)

\* From its load to its end a reload holds a configuration.
Loaded ==
    \A r \in Reloaders : at[r] \in {"set", "pin", "assign", "notify"} => fresh[r] \in InMemory

TypeInv == TypeOK /\ Loaded

\* A configuration in a file can be held in memory.
LEMMA ConfigInMemory == ASSUME NEW c \in Configs PROVE c \in InMemory
<1>1. c = [tun |-> c.tun, bound |-> c.bound, gpu |-> c.gpu] /\ c.gpu \in BOOLEAN
  BY ConfigsAssumption
<1>2. \A f : c[f] \in Field(f)
  BY DEF Field
<1>3. c.tun \in Field("tun") /\ c.bound \in Field("bound")
  BY <1>2
<1>4. [tun |-> c.tun, bound |-> c.bound, gpu |-> c.gpu] \in InMemory
  BY <1>1, <1>3 DEF InMemory
<1>5. QED
  BY <1>1, <1>4, Zenon

\* Whatever a file holds could be loaded.
LEMMA FileConfig == ASSUME NEW f \in Files PROVE f.config \in Configs
BY ConfigsAssumption DEF Files

\* Any cadence wanted is a positive number of seconds.
LEMMA DesiredType ==
    ASSUME NEW t \in Field("tun"), NEW h \in BOOLEAN
    PROVE  Desired(t, h) \in Nat \ {0}
<1>1. PICK c \in Configs : t = c.tun
  BY DEF Field
<1>2. t \in [pollIdle : Nat \ {0}, pollHot : Nat]
  BY <1>1, ConfigsAssumption
<1>3. QED
  BY <1>2 DEF Desired

\* A daemon starts with the configuration of its file.
LEMMA TypeInit == Init => TypeInv
<1> SUFFICES ASSUME Init PROVE TypeInv
  OBVIOUS
<1>1. cfg \in Configs /\ cfg \in InMemory
  BY ConfigInMemory DEF Init
<1>2. file \in Files
  BY <1>1 DEF Init, Files
<1>3. tun \in Field("tun") /\ client \in Field("bound") /\ gpu \in BOOLEAN
  BY <1>1 DEF Init, InMemory
<1>4. edits \in 0..MaxEdits /\ hups \in 0..MaxHups
  BY MaxAssumption DEF Init
<1>5. QED
  BY <1>1, <1>2, <1>3, <1>4 DEF Init, TypeInv, TypeOK, Loaded

\* A reload, from its load to its notification, keeps the types.
LEMMA ReloadType ==
    ASSUME TypeInv, NEW r \in Reloaders, ReloadStep(r)
    PROVE  TypeInv'
<1> USE DEF TypeInv, TypeOK, Loaded
<1>1. CASE Load(r)
  <2>1. file.config \in InMemory
    BY FileConfig, ConfigInMemory
  <2>2. QED
    BY <1>1, <2>1 DEF Load, fileVars, watchVars, loopVars, effect
<1>2. CASE SetTunables(r)
  <2>1. fresh[r] \in InMemory
    BY <1>2 DEF SetTunables
  <2>2. tun' \in Field("tun")
    BY <1>2, <2>1 DEF SetTunables, TunablesFrom, InMemory
  <2>3. QED
    BY <1>2, <2>1, <2>2 DEF SetTunables, fileVars, watchVars, loopVars
<1>3. CASE Pin(r)
  <2>1. fresh[r] \in InMemory /\ cfg \in InMemory
    BY <1>3 DEF Pin
  <2>2. Pinned(r) \in InMemory
    BY <2>1 DEF Pinned, InMemory
  <2>3. QED
    BY <1>3, <2>2 DEF Pin, fileVars, watchVars, loopVars, effect
<1>4. CASE Assign(r)
  <2>1. fresh[r] \in InMemory
    BY <1>4 DEF Assign
  <2>2. QED
    BY <1>4, <2>1 DEF Assign, fileVars, watchVars, loopVars
<1>5. CASE Notify(r)
  BY <1>5 DEF Notify, Notified, fileVars, watchVars, loopVars
<1>6. QED
  BY <1>1, <1>2, <1>3, <1>4, <1>5 DEF ReloadStep

\* So does everything else.
LEMMA AroundType ==
    ASSUME TypeInv, [Next]_vars, ~(\E r \in Reloaders : ReloadStep(r))
    PROVE  TypeInv'
<1> USE DEF TypeInv, TypeOK, Loaded
<1>1. CASE \E f \in Files : Edit(f)
  <2>1. PICK f \in Files : Edit(f)
    BY <1>1
  <2>2. edits' \in 0..MaxEdits /\ file' \in Files
    BY <2>1, MaxAssumption DEF Edit
  <2>3. event' \in BOOLEAN /\ unseen' \in BOOLEAN
    BY <2>1 DEF Edit, Noticed
  <2>4. UNCHANGED <<hups, watch, timer, sighup, reloadVars, loopVars, effect, client, gpu>>
    BY <2>1 DEF Edit
  <2>5. QED
    BY <2>2, <2>3, <2>4 DEF reloadVars, loopVars, effect
<1>2. CASE SendHup
  BY <1>2, MaxAssumption DEF SendHup, reloadVars, loopVars, effect
<1>3. CASE Watcher
  <2>1. UNCHANGED <<fileVars, sighup, reloadVars, loopVars, effect, client, gpu>>
    BY <1>3 DEF Watcher, StartWatch, WatcherEvent, WatcherExit
  <2>2. watch' \in {"notYet", "on", "off"} /\ event' \in BOOLEAN /\ timer' \in BOOLEAN
    BY <1>3 DEF Watcher, StartWatch, WatcherEvent, WatcherExit
  <2>3. QED
    BY <2>1, <2>2 DEF fileVars, reloadVars, loopVars, effect
<1>4. CASE TimerFires \/ HupReceived
  <2>1. PICK r \in Reloaders : Begin(r)
    BY <1>4 DEF TimerFires, HupReceived, Reloaders
  <2>2. UNCHANGED <<fileVars, watch, event, loopVars, effect, client, gpu>>
        /\ timer' \in BOOLEAN /\ sighup' \in BOOLEAN
    BY <1>4 DEF TimerFires, HupReceived
  <2>3. overlapped' \in BOOLEAN
    BY <2>1 DEF Begin
  <2>4. at' = [at EXCEPT ![r] = "load"] /\ fresh' = fresh
    BY <2>1 DEF Begin
  <2>5. /\ at' \in [Reloaders -> {"idle", "load", "set", "pin", "assign", "notify"}]
        /\ Loaded'
    BY <2>4
  <2>6. TypeOK'
    BY <2>2, <2>3, <2>4, <2>5 DEF fileVars, loopVars, effect
  <2> HIDE DEF TypeOK, Loaded
  <2>7. QED
    BY <2>5, <2>6
<1>5. CASE Loop \/ IntervalReceived
  <2>1. current' \in Nat /\ (loop' = "select" => current' > 0)
    BY <1>5, DesiredType DEF Loop, IntervalReceived, Tick, Retick, LoopExit
  <2>2. hot' \in BOOLEAN /\ interval' \in BOOLEAN /\ loop' \in {"stepped", "select", "exited"}
    BY <1>5 DEF Loop, IntervalReceived, Tick, Retick, LoopExit, effect
  <2>3. UNCHANGED <<fileVars, watchVars, reloadVars, term, cfg, tun, client, gpu>>
    BY <1>5 DEF Loop, IntervalReceived, Tick, Retick, LoopExit, effect
  <2>4. QED
    BY <2>1, <2>2, <2>3 DEF fileVars, watchVars, reloadVars
<1>6. CASE Terminate
  BY <1>6 DEF Terminate, fileVars, watchVars, reloadVars, effect
<1>7. CASE UNCHANGED vars
  BY <1>7 DEF vars, fileVars, watchVars, reloadVars, loopVars, effect
<1>8. QED
  BY <1>1, <1>2, <1>3, <1>4, <1>5, <1>6, <1>7 DEF Next

\* Files, reloads, channels and loop keep their types; a reload that is past
\* its load always has a configuration to install, and the loop never waits on a
\* ticker without a period, whatever reload has turned adaptive polling off.
THEOREM ReloadTyped == Spec => []TypeOK
<1>1. TypeInv /\ [Next]_vars => TypeInv'
  BY ReloadType, AroundType
<1>2. TypeInv => TypeOK
  BY DEF TypeInv
<1>3. QED
  BY <1>1, <1>2, TypeInit, PTL DEF Spec
-----------------------------------------------------------------------------
(* Wake-ups.                                                                 *)

\* It is inductive as it stands.
LEMMA CadenceNext ==
    ASSUME TypeInv, CadenceCurrent, [Next]_vars
    PROVE  CadenceCurrent'
<1> USE DEF CadenceCurrent
<1>1. at \in [Reloaders -> {"idle", "load", "set", "pin", "assign", "notify"}]
  BY DEF TypeInv, TypeOK
<1>2. CASE UNCHANGED <<loop, interval, at, current, tun, hot>>
  BY <1>2
<1>3. ASSUME NEW r \in Reloaders, Load(r) PROVE CadenceCurrent'
  <2>1. at[r] = "load" /\ UNCHANGED <<loop, interval, current, tun, hot>>
    BY <1>3 DEF Load, loopVars, effect
  <2>2. \A q \in Reloaders : q # r => at'[q] = at[q]
    BY <1>1, <1>3 DEF Load
  <2>3. QED
    BY <2>1, <2>2
<1>4. ASSUME NEW r \in Reloaders, SetTunables(r) \/ Pin(r) PROVE CadenceCurrent'
  <2>1. at'[r] \in {"pin", "assign"}
    BY <1>1, <1>4 DEF SetTunables, Pin
  <2>2. QED
    BY <2>1
<1>5. ASSUME NEW r \in Reloaders, Assign(r) PROVE CadenceCurrent'
  <2>1. at'[r] = "notify"
    BY <1>1, <1>5 DEF Assign
  <2>2. QED
    BY <2>1
<1>6. ASSUME NEW r \in Reloaders, Notify(r) PROVE CadenceCurrent'
  BY <1>6 DEF Notify, Notified
<1>7. ASSUME TimerFires \/ HupReceived PROVE CadenceCurrent'
  <2>1. PICK r \in Reloaders : Begin(r)
    BY <1>7 DEF TimerFires, HupReceived, Reloaders
  <2>2. UNCHANGED <<loop, interval, current, tun, hot>>
    BY <1>7 DEF TimerFires, HupReceived, loopVars, effect
  <2>3. at[r] = "idle" /\ \A q \in Reloaders : q # r => at'[q] = at[q]
    BY <1>1, <2>1 DEF Begin
  <2>4. QED
    BY <2>2, <2>3
<1>8. CASE Tick \/ IntervalReceived
  BY <1>8 DEF Tick, IntervalReceived
<1>9. CASE Retick
  BY <1>9 DEF Retick, effect
<1>10. CASE LoopExit
  BY <1>10 DEF LoopExit
<1>11. ASSUME (\E f \in Files : Edit(f)) \/ SendHup \/ Watcher \/ Terminate
       PROVE  UNCHANGED <<loop, interval, at, current, tun, hot>>
  BY <1>11 DEF Edit, SendHup, Watcher, StartWatch, WatcherEvent, WatcherExit,
               Terminate, reloadVars, loopVars, effect
<1>12. ASSUME UNCHANGED vars
       PROVE  UNCHANGED <<loop, interval, at, current, tun, hot>>
  BY <1>12 DEF vars, reloadVars, loopVars, effect
<1>13. QED
  BY <1>2, <1>3, <1>4, <1>5, <1>6, <1>7, <1>8, <1>9, <1>10, <1>11, <1>12
     DEF Next, ReloadStep, Loop

\* A loop that waits with no wake-up under way ticks at the cadence that the
\* tunables in effect ask for, however many reloads have raced with it (the
\* dropped send of the reload closure, intervalCh, loses nothing).
THEOREM NoWakeUpLost == Spec => []CadenceCurrent
<1>1. TypeInv /\ CadenceCurrent /\ [Next]_vars => TypeInv' /\ CadenceCurrent'
  BY ReloadType, AroundType, CadenceNext
<1>2. Init => TypeInv /\ CadenceCurrent
  BY TypeInit DEF Init, CadenceCurrent
<1>3. QED
  BY <1>1, <1>2, PTL DEF Spec

-----------------------------------------------------------------------------
(* What startup has bound.                                                   *)

\* What is about to be assigned has been pinned first, and nothing assigned in
\* the meantime can differ from what was pinned.
BoundInv ==
    BoundPinned /\ \A r \in Reloaders : at[r] = "assign" => fresh[r].bound = client

\* No step of anybody changes it.
LEMMA BoundNext ==
    ASSUME TypeInv, BoundInv, [Next]_vars
    PROVE  BoundInv'
<1> USE DEF BoundInv, BoundPinned
<1>1. /\ at \in [Reloaders -> {"idle", "load", "set", "pin", "assign", "notify"}]
      /\ fresh \in [Reloaders -> InMemory \cup {NoConfig}]
  BY DEF TypeInv, TypeOK
<1>2. CASE UNCHANGED <<cfg, client, at, fresh>>
  BY <1>2
<1>3. ASSUME NEW r \in Reloaders, Load(r) \/ SetTunables(r) \/ Notify(r) PROVE BoundInv'
  <2>1. at'[r] # "assign" /\ UNCHANGED <<cfg, client>>
    BY <1>1, <1>3 DEF Load, SetTunables, Notify, effect
  <2>2. \A q \in Reloaders : q # r => at'[q] = at[q] /\ fresh'[q] = fresh[q]
    BY <1>1, <1>3 DEF Load, SetTunables, Notify
  <2>3. QED
    BY <2>1, <2>2
<1>4. ASSUME NEW r \in Reloaders, Pin(r) PROVE BoundInv'
  <2>1. fresh[r] \in InMemory
    BY <1>4 DEF Pin, TypeInv, Loaded
  <2>2. Pinned(r).bound = cfg.bound
    BY <2>1 DEF Pinned, InMemory
  <2>3. fresh'[r].bound = client /\ UNCHANGED <<cfg, client>>
    BY <1>1, <1>4, <2>2 DEF Pin, effect
  <2>4. \A q \in Reloaders : q # r => at'[q] = at[q] /\ fresh'[q] = fresh[q]
    BY <1>1, <1>4 DEF Pin
  <2>5. QED
    BY <2>3, <2>4
<1>5. ASSUME NEW r \in Reloaders, Assign(r) PROVE BoundInv'
  <2>1. cfg'.bound = client /\ client' = client /\ fresh' = fresh /\ at'[r] # "assign"
    BY <1>1, <1>5 DEF Assign
  <2>2. \A q \in Reloaders : q # r => at'[q] = at[q]
    BY <1>1, <1>5 DEF Assign
  <2>3. QED
    BY <2>1, <2>2
<1>6. ASSUME TimerFires \/ HupReceived PROVE BoundInv'
  <2>1. PICK r \in Reloaders : Begin(r)
    BY <1>6 DEF TimerFires, HupReceived, Reloaders
  <2>2. UNCHANGED <<cfg, client, fresh>>
    BY <1>6, <2>1 DEF TimerFires, HupReceived, effect, Begin
  <2>3. at'[r] # "assign" /\ \A q \in Reloaders : q # r => at'[q] = at[q]
    BY <1>1, <2>1 DEF Begin
  <2>4. QED
    BY <2>2, <2>3
<1>7. ASSUME (\E f \in Files : Edit(f)) \/ SendHup \/ Watcher \/ Terminate
                \/ Loop \/ IntervalReceived
      PROVE  UNCHANGED <<cfg, client, at, fresh>>
  BY <1>7 DEF Edit, SendHup, Watcher, StartWatch, WatcherEvent, WatcherExit,
              Terminate, Loop, Tick, Retick, LoopExit, IntervalReceived, reloadVars, effect
<1>8. ASSUME UNCHANGED vars PROVE UNCHANGED <<cfg, client, at, fresh>>
  BY <1>8 DEF vars, reloadVars, effect
<1>9. QED
  BY <1>2, <1>3, <1>4, <1>5, <1>6, <1>7, <1>8 DEF Next, ReloadStep

\* The connection, ipmitool and step_timeout that the configuration in memory
\* names are the ones the IPMI client was built with, for ever.
THEOREM StartupStaysBound == Spec => []BoundPinned
<1>1. TypeInv /\ BoundInv /\ [Next]_vars => TypeInv' /\ BoundInv'
  BY ReloadType, AroundType, BoundNext
<1>2. Init => TypeInv /\ BoundInv
  BY TypeInit DEF Init, BoundInv, BoundPinned
<1>3. BoundInv => BoundPinned
  BY DEF BoundInv
<1>4. QED
  BY <1>1, <1>2, <1>3, PTL DEF Spec

-----------------------------------------------------------------------------
(* Configuration and tunables.                                               *)

\* A reload on its own is the only one to be at anything, and the tunables in
\* effect are in its hands from the moment it has set them until it has assigned
\* the configuration they come from.
AgreeInv ==
    ~overlapped =>
        /\ \A r, q \in Reloaders : at[r] # "idle" /\ at[q] # "idle" => r = q
        /\ \A r \in Reloaders : at[r] \in {"pin", "assign"} => fresh[r].tun = tun
        /\ (\A r \in Reloaders : at[r] \notin {"pin", "assign"}) => cfg.tun = tun

\* No step of a single reload loses the agreement.
LEMMA AgreeNext ==
    ASSUME TypeInv, AgreeInv, [Next]_vars
    PROVE  AgreeInv'
<1> USE DEF AgreeInv
<1>1. /\ at \in [Reloaders -> {"idle", "load", "set", "pin", "assign", "notify"}]
      /\ fresh \in [Reloaders -> InMemory \cup {NoConfig}]
      /\ Loaded
  BY DEF TypeInv, TypeOK
<1>2. CASE UNCHANGED <<cfg, tun, at, fresh, overlapped>>
  BY <1>2
<1>3. ASSUME NEW r \in Reloaders, Load(r) PROVE AgreeInv'
  <2>1. at[r] = "load" /\ at'[r] \in {"idle", "set"} /\ UNCHANGED <<cfg, tun, overlapped>>
    BY <1>1, <1>3 DEF Load, effect
  <2>2. \A q \in Reloaders : q # r => at'[q] = at[q] /\ fresh'[q] = fresh[q]
    BY <1>1, <1>3 DEF Load
  <2>3. QED
    BY <2>1, <2>2
<1>4. ASSUME NEW r \in Reloaders, SetTunables(r) PROVE AgreeInv'
  <2>1. /\ at[r] = "set" /\ at'[r] = "pin" /\ tun' = fresh[r].tun
        /\ UNCHANGED <<fresh, overlapped>>
    BY <1>1, <1>4 DEF SetTunables, TunablesFrom
  <2>2. \A q \in Reloaders : q # r => at'[q] = at[q]
    BY <1>1, <1>4 DEF SetTunables
  <2>3. QED
    BY <2>1, <2>2
<1>5. ASSUME NEW r \in Reloaders, Pin(r) PROVE AgreeInv'
  <2>1. fresh[r] \in InMemory /\ at[r] = "pin"
    BY <1>1, <1>5 DEF Pin, Loaded
  <2>2. Pinned(r).tun = fresh[r].tun
    BY <2>1 DEF Pinned, InMemory
  <2>3. /\ fresh'[r].tun = fresh[r].tun /\ at'[r] = "assign"
        /\ UNCHANGED <<cfg, tun, overlapped>>
    BY <1>1, <1>5, <2>2 DEF Pin, effect
  <2>4. \A q \in Reloaders : q # r => at'[q] = at[q] /\ fresh'[q] = fresh[q]
    BY <1>1, <1>5 DEF Pin
  <2>5. QED
    BY <2>1, <2>3, <2>4
<1>6. ASSUME NEW r \in Reloaders, Assign(r) PROVE AgreeInv'
  <2>1. /\ at[r] = "assign" /\ at'[r] = "notify" /\ cfg' = fresh[r]
        /\ UNCHANGED <<fresh, tun, overlapped>>
    BY <1>1, <1>6 DEF Assign
  <2>2. \A q \in Reloaders : q # r => at'[q] = at[q]
    BY <1>1, <1>6 DEF Assign
  <2>3. QED
    BY <2>1, <2>2
<1>7. ASSUME NEW r \in Reloaders, Notify(r) PROVE AgreeInv'
  <2>1. at[r] = "notify" /\ at'[r] = "idle" /\ UNCHANGED <<cfg, tun, overlapped>>
    BY <1>1, <1>7 DEF Notify
  <2>2. \A q \in Reloaders : q # r => at'[q] = at[q] /\ fresh'[q] = fresh[q]
    BY <1>1, <1>7 DEF Notify
  <2>3. QED
    BY <2>1, <2>2
<1>8. ASSUME TimerFires \/ HupReceived PROVE AgreeInv'
  <2>1. PICK r \in Reloaders : Begin(r)
    BY <1>8 DEF TimerFires, HupReceived, Reloaders
  <2>2. UNCHANGED <<cfg, tun, fresh>>
    BY <1>8, <2>1 DEF TimerFires, HupReceived, effect, Begin
  <2>3. at'[r] = "load" /\ \A q \in Reloaders : q # r => at'[q] = at[q]
    BY <1>1, <2>1 DEF Begin
  <2>4. ~overlapped' => ~overlapped /\ \A q \in Reloaders : at[q] = "idle"
    BY <2>1 DEF Begin
  <2>5. QED
    BY <2>2, <2>3, <2>4
<1>9. ASSUME (\E f \in Files : Edit(f)) \/ SendHup \/ Watcher \/ Terminate
                \/ Loop \/ IntervalReceived
      PROVE  UNCHANGED <<cfg, tun, at, fresh, overlapped>>
  BY <1>9 DEF Edit, SendHup, Watcher, StartWatch, WatcherEvent, WatcherExit,
              Terminate, Loop, Tick, Retick, LoopExit, IntervalReceived, reloadVars, effect
<1>10. ASSUME UNCHANGED vars PROVE UNCHANGED <<cfg, tun, at, fresh, overlapped>>
  BY <1>10 DEF vars, reloadVars, effect
<1>11. QED
  BY <1>2, <1>3, <1>4, <1>5, <1>6, <1>7, <1>8, <1>9, <1>10 DEF Next, ReloadStep

\* Reloads that run one at a time, from whichever goroutine and however the
\* file is edited meanwhile, each leave the configuration in memory and the
\* controller's tunables in agreement (setTunables and *cfg = *fresh).
THEOREM OneAtATimeAgrees == Spec => []AgreeUnlessOverlapped
<1>1. TypeInv /\ AgreeInv /\ [Next]_vars => TypeInv' /\ AgreeInv'
  BY ReloadType, AroundType, AgreeNext
<1>2. Init => TypeInv /\ AgreeInv
  BY TypeInit DEF Init, AgreeInv
<1>3. AgreeInv => AgreeUnlessOverlapped
  BY DEF AgreeInv, AgreeUnlessOverlapped, Quiet
<1>4. QED
  BY <1>1, <1>2, <1>3, PTL DEF Spec

-----------------------------------------------------------------------------
(* The last edit.                                                            *)

\* A good file that nobody has to be told of any more is what a reload that has
\* loaded is about to set, and what is in effect once no reload has to.
Told == file.status = "ok" /\ watch # "off" /\ ~unseen /\ ~overlapped /\ ~event /\ ~timer

EditInv ==
    Told =>
        /\ \A r \in Reloaders : at[r] = "set" => fresh[r].tun = file.config.tun
        /\ (\A r \in Reloaders : at[r] \notin {"load", "set"}) => tun = file.config.tun

LEMMA EditNext ==
    ASSUME TypeInv, AgreeInv, EditInv, [Next]_vars
    PROVE  EditInv'
<1> USE DEF EditInv, Told
<1>1. /\ at \in [Reloaders -> {"idle", "load", "set", "pin", "assign", "notify"}]
      /\ fresh \in [Reloaders -> InMemory \cup {NoConfig}]
  BY DEF TypeInv, TypeOK
<1>2. CASE UNCHANGED <<file, watch, unseen, overlapped, event, timer, at, fresh, tun>>
  BY <1>2
<1>3. ASSUME NEW f \in Files, Edit(f) PROVE EditInv'
  BY <1>3 DEF Edit, Noticed
<1>4. ASSUME Watcher PROVE EditInv'
  <2>1. UNCHANGED <<file, unseen, overlapped, at, fresh, tun>>
    BY <1>4 DEF Watcher, StartWatch, WatcherEvent, WatcherExit, fileVars, reloadVars, effect
  <2>2. CASE StartWatch
    BY <2>1, <2>2 DEF StartWatch
  <2>3. CASE WatcherEvent \/ WatcherExit
    BY <2>1, <2>3 DEF WatcherEvent, WatcherExit
  <2>4. QED
    BY <1>4, <2>2, <2>3 DEF Watcher
<1>5. ASSUME TimerFires \/ HupReceived PROVE EditInv'
  <2>1. PICK r \in Reloaders : Begin(r)
    BY <1>5 DEF TimerFires, HupReceived, Reloaders
  <2>2. UNCHANGED <<file, watch, unseen, event, fresh, tun>>
    BY <1>5, <2>1 DEF TimerFires, HupReceived, fileVars, effect, Begin
  <2>3. at'[r] = "load" /\ \A q \in Reloaders : q # r => at'[q] = at[q]
    BY <1>1, <2>1 DEF Begin
  <2>4. ~overlapped' => \A q \in Reloaders : at[q] = "idle"
    BY <2>1 DEF Begin
  <2>5. QED
    BY <2>2, <2>3, <2>4
<1>6. ASSUME NEW r \in Reloaders, Load(r) PROVE EditInv'
  <2>1. /\ at[r] = "load"
        /\ UNCHANGED <<file, watch, unseen, overlapped, event, timer, tun>>
    BY <1>6 DEF Load, fileVars, watchVars, effect
  <2>2. \A q \in Reloaders : q # r => at'[q] = at[q] /\ fresh'[q] = fresh[q]
    BY <1>1, <1>6 DEF Load
  <2>3. file.status = "ok" => at'[r] = "set" /\ fresh'[r] = file.config
    BY <1>1, <1>6 DEF Load
  <2>4. QED
    BY <2>1, <2>2, <2>3
<1>7. ASSUME NEW r \in Reloaders, SetTunables(r) PROVE EditInv'
  <2>1. /\ at[r] = "set" /\ at'[r] = "pin" /\ tun' = fresh[r].tun
        /\ UNCHANGED <<file, watch, unseen, overlapped, event, timer, fresh>>
    BY <1>1, <1>7 DEF SetTunables, TunablesFrom, fileVars, watchVars
  <2>2. \A q \in Reloaders : q # r => at'[q] = at[q]
    BY <1>1, <1>7 DEF SetTunables
  <2>3. QED
    BY <2>1, <2>2
<1>8. ASSUME NEW r \in Reloaders, Pin(r) \/ Assign(r) \/ Notify(r) PROVE EditInv'
  <2>1. /\ at[r] \in {"pin", "assign", "notify"} /\ at'[r] \notin {"load", "set"}
        /\ UNCHANGED <<file, watch, unseen, overlapped, event, timer, tun>>
    BY <1>1, <1>8 DEF Pin, Assign, Notify, fileVars, watchVars, effect
  <2>2. \A q \in Reloaders : q # r => at'[q] = at[q] /\ fresh'[q] = fresh[q]
    BY <1>1, <1>8 DEF Pin, Assign, Notify
  <2>3. QED
    BY <2>1, <2>2
<1>9. ASSUME SendHup \/ Terminate \/ Loop \/ IntervalReceived
      PROVE  UNCHANGED <<file, watch, unseen, overlapped, event, timer, at, fresh, tun>>
  BY <1>9 DEF SendHup, Terminate, Loop, Tick, Retick, LoopExit, IntervalReceived,
              fileVars, watchVars, reloadVars, effect
<1>10. ASSUME UNCHANGED vars
       PROVE  UNCHANGED <<file, watch, unseen, overlapped, event, timer, at, fresh, tun>>
  BY <1>10 DEF vars, fileVars, watchVars, reloadVars, effect
<1>11. QED
  BY <1>2, <1>3, <1>4, <1>5, <1>6, <1>7, <1>8, <1>9, <1>10 DEF Next, ReloadStep

\* The safety half of "an edit takes effect": wherever an edit falls between
\* events, the debounce timer, SIGHUPs and the steps of a reload, something still
\* carries it until its tunables are in effect.
THEOREM EditsAreCarried == Spec => []EditNotForgotten
<1>1. TypeInv /\ AgreeInv /\ EditInv /\ [Next]_vars => TypeInv' /\ AgreeInv' /\ EditInv'
  BY ReloadType, AroundType, AgreeNext, EditNext
<1>2. Init => TypeInv /\ AgreeInv /\ EditInv
  BY TypeInit DEF Init, AgreeInv, EditInv
<1>3. EditInv => EditNotForgotten
  BY DEF EditInv, Told, EditNotForgotten
<1>4. QED
  BY <1>1, <1>2, <1>3, PTL DEF Spec
=============================================================================
