------------------------------- MODULE Sensing -------------------------------
(***************************************************************************)
(* From the sensors to the decision: which readings the control loop        *)
(* selects (config.SensorConfig, selectMaxTemp, gpu.Max), what the          *)
(* predictors of internal/fan/predict.go make of them over time, and what   *)
(* controller.step decides.  Time is discrete.  A sample carries its age    *)
(* instead of its time; ages stop growing just beyond the slope window,     *)
(* where Observe drops a sample whatever its age.                           *)
(*                                                                          *)
(* The predictor computes in floating point; here a boost is the exact      *)
(* fraction [num, den], and the curve is scaled by den instead of dividing. *)
(* Controller has the commands; here they all succeed, or the step fails.   *)
(***************************************************************************)
EXTENDS FanPolicy, FiniteSets

CONSTANTS
    Configs,        \* the tunables a file may hold
    Boards,         \* what `ipmitool sdr type temperature` may list
    GpuLists,       \* what nvidia-smi may report: sets of temperatures
    Window, MinSpan, BoostCap,  \* slopeWindow, minSlopeSpan, boostCap
    Gaps,           \* the time from one step to the next
    MaxSamples      \* bounds the predictors' histories together

ASSUME TimingAssumption ==
    /\ Window \in Nat /\ MinSpan \in Nat \ {0} /\ BoostCap \in Nat
    /\ Gaps \subseteq Nat
ASSUME ConfigsAssumption ==
    \A t \in Configs :
        /\ ValidCurve(t.curve) /\ ValidCurve(t.gpuCurve)
        /\ t.gov \in [deadband : Nat, maxStepDown : Nat, holdPolls : Nat]
        /\ t.lookahead \in Nat
ASSUME BoardsAssumption ==
    \A b \in Boards : IsFiniteSet(b) /\ \A s \in b : s.temp \in Int
ASSUME GpuListsAssumption ==
    \A g \in GpuLists : IsFiniteSet(g) /\ g \subseteq Nat

VARIABLES
    gpuFitted,      \* c.gpu # nil
    tun, ltun,      \* c.tun, and the step's copy
    state, prev,    \* c.state, and the step's copy
    next,           \* the step's decision
    pc,             \* where the step is
    board, gpus,    \* what the step has read; no GPU temperature is an error
    cpuPred, gpuPred,   \* the predictors' samples, oldest first
    \* Auxiliary: the ages of the last rise of any source and of the last reload,
    roseAge, reloadAge,
    straddled       \* and whether a step had read under the old tunables then

aux == <<roseAge, reloadAge, straddled>>
vars == <<gpuFitted, tun, ltun, state, prev, next, pc, board, gpus, cpuPred, gpuPred, aux>>

Forgotten == Window + 1
Ages == 0..Forgotten
AtMost(n, cap) == IF n > cap THEN cap ELSE n
Older(age, d) == AtMost(age + d, Forgotten)

-----------------------------------------------------------------------------
(* The sensors.  A sensor is [id, words, temp]; words are the patterns its    *)
(* name contains.  A record without a number ("ns") is Unreadable.            *)

Unreadable == -1000
None == -1

\* Client.Temperatures skips what is not a number.
Temperatures(b) == {s \in b : s.temp # Unreadable}

\* SensorConfig.Selects: ids override names, and exclusion comes first.
Selects(sel, s) ==
    IF sel.ids # {} THEN s.id \in sel.ids
    ELSE /\ sel.exclude \cap s.words = {}
         /\ sel.match = {} \/ sel.match \cap s.words # {}

\* Any number counts.
SlipCandidates(sel, b) ==
    {s.temp : s \in {r \in Temperatures(b) : Selects(sel, r)}}

\* The selected readings that count: selectMaxTemp starts at -1.
Candidates(sel, b) ==
    {t \in {s.temp : s \in {r \in Temperatures(b) : Selects(sel, r)}} : t >= 0}

Greatest(S) == CHOOSE m \in S : \A t \in S : t <= m

\* selectMaxTemp.
SelectMaxTemp(sel, b) ==
    IF Candidates(sel, b) = {} THEN None ELSE Greatest(Candidates(sel, b))

\* gpu.Max.
GpuMax(g) == IF g = {} THEN None ELSE Greatest(g)

-----------------------------------------------------------------------------
(* The predictor.                                                             *)

Aged(h, d) == [i \in DOMAIN h |-> [h[i] EXCEPT !.age = Older(@, d)]]

\* Keeps every sample.
SlipObserve(h, temp) == Append(h, [age |-> 0, temp |-> temp])

\* Predictor.Observe: append, then drop from the front what has left the window.
Observe(h, temp) ==
    LET all == Append(h, [age |-> 0, temp |-> temp])
        first == CHOOSE i \in DOMAIN all :
                    all[i].age <= Window /\ \A j \in 1..(i - 1) : all[j].age > Window
    IN  SubSeq(all, first, Len(all))

Rise(h) == h[Len(h)].temp - h[1].temp
Span(h) == h[1].age - h[Len(h)].age

\* Predictor.SlopePerMin has enough history.
HasSlope(h) == Len(h) >= 2 /\ Span(h) >= MinSpan

NoBoost == [num |-> 0, den |-> 1]

\* Lets a falling temperature lower the effective one.
SlipBoost(h, lookahead) ==
    IF lookahead <= 0 \/ ~HasSlope(h) THEN NoBoost
    ELSE IF Rise(h) * lookahead > BoostCap * Span(h) THEN [num |-> BoostCap, den |-> 1]
    ELSE [num |-> Rise(h) * lookahead, den |-> Span(h)]

\* The slope times the lookahead, uncapped.
SlipUncappedBoost(h, lookahead) ==
    IF lookahead <= 0 \/ ~HasSlope(h) \/ Rise(h) <= 0 THEN NoBoost
    ELSE [num |-> Rise(h) * lookahead, den |-> Span(h)]

\* Predictor.Boost: the slope times the lookahead, within 0..BoostCap.
Boost(h, lookahead) ==
    IF lookahead <= 0 \/ ~HasSlope(h) \/ Rise(h) <= 0 THEN NoBoost
    ELSE IF Rise(h) * lookahead > BoostCap * Span(h) THEN [num |-> BoostCap, den |-> 1]
    ELSE [num |-> Rise(h) * lookahead, den |-> Span(h)]

-----------------------------------------------------------------------------
(* The decision.                                                              *)

Scaled(c, k) ==
    [bands |-> [i \in DOMAIN c.bands |->
                    [maxTemp |-> c.bands[i].maxTemp * k, percent |-> c.bands[i].percent]],
     hysteresis |-> c.hysteresis]

\* Curve.Duty where the source is heading; without a reading it has no say.
DutyOf(c, raw, b) ==
    IF raw = None THEN [pct |-> 0, auto |-> FALSE]
    ELSE Duty(Scaled(c, b.den), raw * b.den + b.num)

MayReclaim(c, raw) == raw = None \/ raw <= ReclaimBelow(c)

Greater(a, b) == IF a < b THEN b ELSE a

\* The switch in controller.step.
Decision(t, s, cpu, gpu, cpuBoost, gpuBoost, gpuFail) ==
    LET c == DutyOf(t.curve, cpu, cpuBoost)
        g == DutyOf(t.gpuCurve, gpu, gpuBoost)
    IN  IF gpuFail \/ (cpu = None /\ gpu = None) THEN BmcAuto
        ELSE GovNext(t.gov, s, Greater(c.pct, g.pct), c.auto \/ g.auto,
                     MayReclaim(t.curve, cpu) /\ MayReclaim(t.gpuCurve, gpu))

Cpu == SelectMaxTemp(ltun.sensors, board)
Gpu == GpuMax(gpus)
GpuFail == gpuFitted /\ gpus = {}

-----------------------------------------------------------------------------
(* The loop.                                                                  *)

Init ==
    /\ gpuFitted \in BOOLEAN
    /\ tun \in Configs /\ ltun = tun
    /\ state = ZeroState /\ prev = ZeroState /\ next = ZeroState
    /\ pc = "idle"
    /\ board = {} /\ gpus = {}
    /\ cpuPred = <<>> /\ gpuPred = <<>>
    /\ roseAge = Forgotten /\ reloadAge = 0 /\ straddled = FALSE

\* step copies the tunables and the state, notes the time, and reads.
Begin(d, b, g) ==
    /\ pc = "idle"
    /\ g # {} => gpuFitted
    /\ pc' = "read"
    /\ ltun' = tun /\ prev' = state
    /\ board' = b /\ gpus' = g
    /\ cpuPred' = Aged(cpuPred, d) /\ gpuPred' = Aged(gpuPred, d)
    /\ roseAge' = Older(roseAge, d) /\ reloadAge' = AtMost(reloadAge + d, MinSpan)
    /\ UNCHANGED <<gpuFitted, tun, state, next, straddled>>

\* A source that was read is observed.
Observed(h, temp) == IF temp = None THEN h ELSE Observe(h, temp)
BoostFrom(h, temp, t) == IF temp = None THEN NoBoost ELSE Boost(h, t.lookahead)
Rises(h, temp) == temp # None /\ h # <<>> /\ temp > h[Len(h)].temp

\* The predictors, then the decision.
Decide ==
    /\ pc = "read"
    /\ pc' = "decided"
    /\ cpuPred' = Observed(cpuPred, Cpu) /\ gpuPred' = Observed(gpuPred, Gpu)
    /\ Len(cpuPred') + Len(gpuPred') <= MaxSamples
    /\ roseAge' = IF Rises(cpuPred, Cpu) \/ Rises(gpuPred, Gpu) THEN 0 ELSE roseAge
    /\ next' = Decision(ltun, prev, Cpu, Gpu, BoostFrom(cpuPred', Cpu, ltun),
                        BoostFrom(gpuPred', Gpu, ltun), GpuFail)
    /\ UNCHANGED <<gpuFitted, tun, ltun, state, prev, board, gpus, reloadAge, straddled>>

\* Back to the select loop; the step's variables go out of scope.
Return ==
    /\ pc' = "idle"
    /\ ltun' = tun /\ prev' = ZeroState /\ next' = ZeroState
    /\ board' = {} /\ gpus' = {}
    /\ UNCHANGED <<gpuFitted, tun, cpuPred, gpuPred, aux>>

\* The commands, and the commit unless a reload has reset the state.
Commit ==
    /\ pc = "decided"
    /\ state' = IF state = prev THEN next ELSE state
    /\ Return

\* A failed read or command, with a fallback that succeeds or fails.
StepFails ==
    /\ pc \in {"read", "decided"}
    /\ state' \in {BmcAuto, state}
    /\ Return

\* A reload that leaves the predictors alone.
SlipReload(t) ==
    /\ tun' = t
    /\ ltun' = IF pc = "idle" THEN t ELSE ltun
    /\ state' = ZeroState
    /\ reloadAge' = 0
    /\ straddled' = (pc = "read")
    /\ UNCHANGED <<gpuFitted, pc, prev, next, board, gpus, cpuPred, gpuPred, roseAge>>

\* setTunables, at any point of a step.
Reload(t) ==
    /\ tun' = t
    /\ ltun' = IF pc = "idle" THEN t ELSE ltun
    /\ state' = ZeroState
    /\ cpuPred' = <<>> /\ gpuPred' = <<>>
    /\ reloadAge' = 0
    /\ straddled' = (pc = "read")
    /\ UNCHANGED <<gpuFitted, pc, prev, next, board, gpus, roseAge>>

BeginAny == \E d \in Gaps, b \in Boards, g \in GpuLists \cup {{}} : Begin(d, b, g)
ReloadAny == \E t \in Configs : Reload(t)

Next == BeginAny \/ Decide \/ Commit \/ StepFails \/ ReloadAny

Spec == Init /\ [][Next]_vars

-----------------------------------------------------------------------------
(* Correctness.                                                               *)

Samples == [age : Ages, temp : Nat]
Histories == Seq(Samples)

\* The oldest sample comes first.
Ordered(h) == \A i, j \in DOMAIN h : i <= j => h[j].age <= h[i].age

\* Type invariant; samples are kept in the order they were taken, and a
\* reading that is no reading never becomes one (Predictor.samples,
\* selectMaxTemp).
TypeOK ==
    /\ gpuFitted \in BOOLEAN
    /\ tun \in Configs /\ ltun \in Configs
    /\ {state, prev, next} \subseteq CommandStates
    /\ pc \in {"idle", "read", "decided"}
    /\ board \in Boards \cup {{}} /\ gpus \in GpuLists \cup {{}}
    /\ cpuPred \in Histories /\ gpuPred \in Histories
    /\ Ordered(cpuPred) /\ Ordered(gpuPred)
    /\ roseAge \in Ages /\ reloadAge \in 0..MinSpan
    /\ straddled \in BOOLEAN

Deciding == pc = "decided"
TopOf(c) == Top(c).maxTemp

\* A single selected sensor or GPU over its curve's top anchor is enough to
\* hand the fans to the BMC, however fast it is falling and whatever the other
\* sensors say; so is a GPU that cannot be read, or no reading at all
\* (controller.step: "fail safe", "no matching temperature sensors").
TooHotHandsOver ==
    Deciding =>
        /\ \A s \in Temperatures(board) :
              Selects(ltun.sensors, s) /\ s.temp >= 0 /\ s.temp > TopOf(ltun.curve)
                  => next.auto
        /\ \A t \in gpus : t > TopOf(ltun.gpuCurve) => next.auto
        /\ GpuFail => next.auto
        /\ Cpu = None /\ gpus = {} => next.auto

\* The reading's own heat comes within the boost's cap of the top.
Warm(c, raw) == raw # None /\ raw > TopOf(c) - BoostCap

\* A sensor that the configuration rules out: not among the ids, where there are
\* any, or else with an excluded pattern in its name.
RuledOut(sel, s) ==
    IF sel.ids = {} THEN sel.exclude \cap s.words # {} ELSE s.id \notin sel.ids

\* Manual control ends for a reason on the board: prediction takes the fans away
\* only close to the top (boostCap: "so a sensor glitch cannot spike the fans"),
\* and a sensor that is ruled out never does.  Where the readings that count were
\* read and are all BoostCap or more under their tops, it goes on, whatever
\* glitch the history holds and however hot the sensors that do not count.
HandOverIsWarranted ==
    Deciding /\ prev.init /\ ~prev.auto /\ next.auto =>
        \/ GpuFail \/ (Cpu = None /\ gpus = {})
        \/ \E s \in Temperatures(board) :
              ~RuledOut(ltun.sensors, s) /\ s.temp >= 0 /\ Warm(ltun.curve, s.temp)
        \/ \E t \in gpus : Warm(ltun.gpuCurve, t)

\* What the readings ask for as they are.
Unpredicted == Decision(ltun, prev, Cpu, Gpu, NoBoost, NoBoost, GpuFail)

\* A rise has no effect beyond the window: once no source has risen for longer
\* than that, decisions follow the readings as they are (slopeWindow).
SteadyIsTakenAsRead ==
    Deciding /\ roseAge > Window => next = Unpredicted

\* Within minSlopeSpan of a reload no boost is carried over from before it,
\* unless a step had read before the reload and observes after it
\* (Predictor.Reset, minSlopeSpan).
ReloadForgets ==
    Deciding /\ reloadAge < MinSpan /\ ~straddled =>
        /\ BoostFrom(cpuPred, Cpu, ltun) = NoBoost
        /\ BoostFrom(gpuPred, Gpu, ltun) = NoBoost
=============================================================================
