-------------------------------- MODULE Reload --------------------------------
(***************************************************************************)
(* Configuration reload: the config watcher of cmd/fanctl/watch.go with its *)
(* debounce timer, the SIGHUP goroutine and the reload closure of runDaemon *)
(* (run.go), and the loop that owns the ticker and is told to look again.   *)
(*                                                                          *)
(* A SIGHUP reloads on its own goroutine, one after the other.  Each expiry *)
(* of the debounce timer reloads on a goroutine of its own, and stopping    *)
(* the timer does not stop a reload that has begun: reloads may overlap.    *)
(***************************************************************************)
EXTENDS Integers

(* An operator named Slip... is a faulty variant of the definition after it,   *)
(* which the mutation checks substitute; no specification uses it.             *)

CONSTANTS
    Configs,        \* the configurations a file may hold
    Defaults,       \* the one that holds where there is no file
    NoConfig,       \* nothing loaded
    TimerReloads,   \* the goroutines that expiries of the timer may occupy
    HupReload,      \* the SIGHUP goroutine
    MaxEdits,       \* the file is edited this often
    MaxHups         \* SIGHUP is sent this often

\* Of a configuration: the tunables, here their cadences; connection, ipmitool
\* and step_timeout, bound at startup, as one value; and gpu.enabled.
ASSUME ConfigsAssumption ==
    /\ Defaults \in Configs /\ NoConfig \notin Configs
    /\ \A c \in Configs : /\ c = [tun |-> c.tun, bound |-> c.bound, gpu |-> c.gpu]
                           /\ c.tun \in [pollIdle : Nat \ {0}, pollHot : Nat]
                           /\ c.gpu \in BOOLEAN
ASSUME ReloadersAssumption == HupReload \notin TimerReloads
ASSUME MaxAssumption == MaxEdits \in Nat /\ MaxHups \in Nat

\* A "bad" file does not parse or validate.
Files ==
    {[status |-> "ok", config |-> c] : c \in Configs}
        \cup {[status |-> s, config |-> Defaults] : s \in {"bad", "absent"}}

Reloaders == TimerReloads \cup {HupReload}

VARIABLES
    file,           \* the file
    edits, hups,    \* how often it was edited, and SIGHUP sent
    watch,          \* the watcher: "notYet", "on", "off"
    event,          \* a file event is on its way to the watcher
    timer,          \* the debounce timer is running
    sighup,         \* the signal channel, of capacity one
    at, fresh,      \* each reload: where it is, and what it has loaded
    cfg,            \* *cfg, the configuration in memory
    tun,            \* controller.tun
    client, gpu,    \* what the IPMI client was built with; whether there is a GPU reader
    interval,       \* intervalCh, of capacity one
    loop,           \* the loop: "stepped", "select" or "exited"
    hot,            \* obs.HaveObs && obs.HotPoll
    current,        \* the ticker's period
    term,           \* ctx is cancelled
    unseen,         \* history: nobody is told of the file's last edit
    overlapped      \* history: two reloads were in flight at once

fileVars == <<file, edits, hups, unseen>>
watchVars == <<watch, event, timer, sighup>>
reloadVars == <<at, fresh, overlapped>>
loopVars == <<loop, hot, current, term>>
effect == <<cfg, tun, interval>>
vars == <<fileVars, watchVars, reloadVars, loopVars, effect, client, gpu>>

\* Forgets that adaptive polling may be off.
SlipDesired(t, h) == IF h THEN t.pollHot ELSE t.pollIdle

\* controller.desiredInterval.
Desired(t, h) ==
    IF t.pollHot # 0 /\ h THEN t.pollHot ELSE t.pollIdle

Init ==
    /\ cfg \in Configs
    /\ file = [status |-> "ok", config |-> cfg]
    /\ tun = cfg.tun /\ client = cfg.bound /\ gpu = cfg.gpu
    /\ edits = 0 /\ hups = 0 /\ unseen = FALSE
    /\ watch = "notYet" /\ event = FALSE /\ timer = FALSE /\ sighup = FALSE
    /\ at = [r \in Reloaders |-> "idle"] /\ fresh = [r \in Reloaders |-> NoConfig]
    /\ overlapped = FALSE
    /\ interval = FALSE
    /\ loop = "stepped" /\ hot = FALSE /\ current = 0 /\ term = FALSE

-----------------------------------------------------------------------------
(* The file, the signal and the watcher.                                     *)

\* Whether the watcher reacts: to a write, a create and a rename, so to a file
\* that is moved away, but not to one that is deleted.
Noticed(f) ==
    IF watch # "on" THEN {FALSE} ELSE IF f.status = "absent" THEN BOOLEAN ELSE {TRUE}

\* Somebody writes, replaces or removes the file.
Edit(f) ==
    /\ edits < MaxEdits /\ f # file
    /\ file' = f
    /\ edits' = edits + 1
    /\ \E noticed \in Noticed(f) :
        /\ event' = (event \/ noticed)
        /\ unseen' = ~noticed
    /\ UNCHANGED <<hups, watch, timer, sighup, reloadVars, loopVars, effect, client, gpu>>

\* newConfigWatcher succeeds or fails: then only SIGHUP reloads.
StartWatch ==
    /\ watch = "notYet"
    /\ watch' \in {"on", "off"}
    /\ UNCHANGED <<fileVars, event, timer, sighup, reloadVars, loopVars, effect, client, gpu>>

SendHup ==
    /\ hups < MaxHups
    /\ hups' = hups + 1
    /\ sighup' = TRUE
    /\ UNCHANGED <<file, edits, unseen, watch, event, timer, reloadVars, loopVars,
                   effect, client, gpu>>

\* A second event stops the timer, and nothing starts it again.
SlipWatcherEvent ==
    /\ watch = "on" /\ event
    /\ event' = FALSE /\ timer' = ~timer
    /\ UNCHANGED <<fileVars, watch, sighup, reloadVars, loopVars, effect, client, gpu>>

\* An event restarts the debounce timer: a burst becomes one reload.
WatcherEvent ==
    /\ watch = "on" /\ event
    /\ event' = FALSE /\ timer' = TRUE
    /\ UNCHANGED <<fileVars, watch, sighup, reloadVars, loopVars, effect, client, gpu>>

\* ctx.Done(): the watcher stops its timer and ends.
WatcherExit ==
    /\ watch = "on" /\ term
    /\ watch' = "off" /\ event' = FALSE /\ timer' = FALSE
    /\ UNCHANGED <<fileVars, sighup, reloadVars, loopVars, effect, client, gpu>>

-----------------------------------------------------------------------------
(* The reload closure.                                                       *)

Begin(r) ==
    /\ at[r] = "idle"
    /\ at' = [at EXCEPT ![r] = "load"]
    /\ overlapped' = (overlapped \/ \E q \in Reloaders : at[q] # "idle")
    /\ UNCHANGED fresh

TimerFires ==
    /\ timer
    /\ timer' = FALSE
    /\ \E r \in TimerReloads : Begin(r)
    /\ UNCHANGED <<fileVars, watch, event, sighup, loopVars, effect, client, gpu>>

\* After ctx.Done() the goroutine may still take a signal that is ready too.
HupReceived ==
    /\ sighup
    /\ sighup' = FALSE
    /\ Begin(HupReload)
    /\ UNCHANGED <<fileVars, watch, event, timer, loopVars, effect, client, gpu>>

\* Load and validate; a missing file is not an error.
Load(r) ==
    /\ at[r] = "load"
    /\ IF file.status = "bad"
       THEN /\ at' = [at EXCEPT ![r] = "idle"]
            /\ UNCHANGED fresh
       ELSE /\ at' = [at EXCEPT ![r] = "set"]
            /\ fresh' = [fresh EXCEPT ![r] = file.config]
    /\ UNCHANGED <<overlapped, fileVars, watchVars, loopVars, effect, client, gpu>>

\* Hands over the tunables of the old configuration.
SlipOldTunablesFrom(r) == cfg.tun

\* tunablesFrom(fresh).
TunablesFrom(r) == fresh[r].tun

\* ctrl.setTunables: in effect from here on.
SetTunables(r) ==
    /\ at[r] = "set"
    /\ tun' = TunablesFrom(r)
    /\ at' = [at EXCEPT ![r] = "pin"]
    /\ UNCHANGED <<fresh, overlapped, fileVars, watchVars, loopVars, cfg, interval, client, gpu>>

\* Keeps what the file says now.
SlipPinned(r) == fresh[r]

\* What cannot change while running is copied from the old configuration.
Pinned(r) == [fresh[r] EXCEPT !.bound = cfg.bound]

Pin(r) ==
    /\ at[r] = "pin"
    /\ fresh' = [fresh EXCEPT ![r] = Pinned(r)]
    /\ at' = [at EXCEPT ![r] = "assign"]
    /\ UNCHANGED <<overlapped, fileVars, watchVars, loopVars, effect, client, gpu>>

\* *cfg = *fresh.
Assign(r) ==
    /\ at[r] = "assign"
    /\ cfg' = fresh[r]
    /\ at' = [at EXCEPT ![r] = "notify"]
    /\ UNCHANGED <<fresh, overlapped, fileVars, watchVars, loopVars, tun, interval, client, gpu>>

\* Tells the loop only when it is at its select, waiting.
SlipNotified == loop = "select" /\ ~term

\* A send that is dropped when the channel is full: it is full already.
Notified == TRUE

Notify(r) ==
    /\ at[r] = "notify"
    /\ interval' = (interval \/ Notified)
    /\ at' = [at EXCEPT ![r] = "idle"]
    /\ fresh' = [fresh EXCEPT ![r] = NoConfig]
    /\ UNCHANGED <<overlapped, fileVars, watchVars, loopVars, cfg, tun, client, gpu>>

ReloadStep(r) ==
    Load(r) \/ SetTunables(r) \/ Pin(r) \/ Assign(r) \/ Notify(r)

-----------------------------------------------------------------------------
(* The loop.                                                                 *)

\* A tick: a step, which may find the host hot or not.
Tick ==
    /\ loop = "select"
    /\ hot' \in BOOLEAN
    /\ loop' = "stepped"
    /\ UNCHANGED <<fileVars, watchVars, reloadVars, current, term, effect, client, gpu>>

\* The loop takes the wake-up.
IntervalReceived ==
    /\ loop = "select" /\ interval
    /\ interval' = FALSE
    /\ loop' = "stepped"
    /\ UNCHANGED <<fileVars, watchVars, reloadVars, hot, current, term, cfg, tun, client, gpu>>

\* retick.
Retick ==
    /\ loop = "stepped"
    /\ current' = Desired(tun, hot)
    /\ loop' = "select"
    /\ UNCHANGED <<fileVars, watchVars, reloadVars, hot, term, effect, client, gpu>>

Terminate ==
    /\ ~term
    /\ term' = TRUE
    /\ UNCHANGED <<fileVars, watchVars, reloadVars, loop, hot, current, effect, client, gpu>>

LoopExit ==
    /\ loop = "select" /\ term
    /\ loop' = "exited"
    /\ UNCHANGED <<fileVars, watchVars, reloadVars, hot, current, term, effect, client, gpu>>

Watcher == StartWatch \/ WatcherEvent \/ WatcherExit
Loop == Tick \/ Retick \/ LoopExit

Next ==
    \/ \E f \in Files : Edit(f)
    \/ SendHup \/ Watcher \/ TimerFires \/ HupReceived
    \/ \E r \in Reloaders : ReloadStep(r)
    \/ Loop \/ IntervalReceived \/ Terminate

\* Goroutines that are ready run in the end; select picks at random, so the
\* wake-up is not passed over for ever.  Nothing forces an edit or a signal.
Spec ==
    /\ Init /\ [][Next]_vars
    /\ WF_vars(Watcher) /\ WF_vars(TimerFires) /\ WF_vars(HupReceived)
    /\ \A r \in Reloaders : WF_vars(ReloadStep(r))
    /\ WF_vars(Loop) /\ SF_vars(IntervalReceived)

-----------------------------------------------------------------------------
Quiet == \A r \in Reloaders : at[r] = "idle"

Field(f) == {c[f] : c \in Configs}

\* A reload mixes the new configuration with the bound fields of the old one.
InMemory == [tun : Field("tun"), bound : Field("bound"), gpu : BOOLEAN]

\* Files, reloads, channels and loop have their types; a waiting loop's ticker
\* has a period (desiredInterval), for Go panics at a period of zero.
TypeOK ==
    /\ file \in Files /\ edits \in 0..MaxEdits /\ hups \in 0..MaxHups
    /\ watch \in {"notYet", "on", "off"}
    /\ event \in BOOLEAN /\ timer \in BOOLEAN /\ sighup \in BOOLEAN
    /\ at \in [Reloaders -> {"idle", "load", "set", "pin", "assign", "notify"}]
    /\ fresh \in [Reloaders -> InMemory \cup {NoConfig}]
    /\ cfg \in InMemory /\ tun \in Field("tun") /\ client \in Field("bound")
    /\ gpu \in BOOLEAN
    /\ interval \in BOOLEAN /\ loop \in {"stepped", "select", "exited"}
    /\ hot \in BOOLEAN /\ current \in Nat /\ (loop = "select" => current > 0)
    /\ term \in BOOLEAN /\ unseen \in BOOLEAN /\ overlapped \in BOOLEAN

\* No wake-up is lost: when the loop waits with nothing to tell it, and no
\* reload has yet to tell it, its ticker has the cadence the controller wants.
\* The loop may be anywhere when reloads, several at once, swap the tunables.
CadenceCurrent ==
    (/\ loop = "select" /\ ~interval
     /\ \A r \in Reloaders : at[r] \notin {"pin", "assign", "notify"})
        => current = Desired(tun, hot)

\* Whatever the file says, and however reloads overlap, the configuration in
\* memory names the connection, ipmitool and step_timeout in use (run.go:113).
BoundPinned == cfg.bound = client

\* As long as reloads run one at a time, each leaves the configuration in memory
\* and the controller's tunables in agreement.
AgreeUnlessOverlapped == (Quiet /\ ~overlapped) => cfg.tun = tun

\* No edit is forgotten: as long as reloads run one at a time, a good file that
\* the watcher was told of is in effect, unless an event, the running timer or a
\* reload that has yet to set its tunables is on its way with it, however its
\* events were coalesced (watcher.run) and whatever was loaded before.
EditNotForgotten ==
    (/\ file.status = "ok" /\ watch # "off" /\ ~unseen /\ ~overlapped
     /\ ~event /\ ~timer /\ \A r \in Reloaders : at[r] \notin {"load", "set"})
        => tun = file.config.tun

\* "the in-memory config never disagrees with what is actually in effect"
\* (run.go:114): tunables, bound fields and GPU monitoring.
InEffect == Quiet => cfg = [tun |-> tun, bound |-> client, gpu |-> gpu]

\* With the watch on, a good edit is in effect in the end, cadence included,
\* however its events are coalesced: unless reloads overlapped, when the older
\* one may have the last word.
EditTakesEffect ==
    \A c \in Configs :
        <>[](/\ file = [status |-> "ok", config |-> c] /\ watch = "on"
             /\ ~unseen /\ ~overlapped /\ ~term)
            => <>[](tun = c.tun /\ (loop = "select" => current = Desired(tun, hot)))
=============================================================================
