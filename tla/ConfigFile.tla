------------------------------ MODULE ConfigFile ------------------------------
(***************************************************************************)
(* internal/config: what a file on disk makes of the defaults, and which    *)
(* configurations the program accepts.                                      *)
(*                                                                          *)
(* LoadFile merges a file field by field and returns at the first duration  *)
(* that does not parse, with what it has merged so far left in place.  The  *)
(* durations come first and the connection after them, so a file with a     *)
(* mistyped duration loads with the connection of the defaults.             *)
(*                                                                          *)
(* Fields that no property tells apart (curves, sensors, ranges, metrics,   *)
(* gpu) are one field, rest: "" when unset, "ok" or "invalid".             *)
(***************************************************************************)
EXTENDS Integers

CONSTANTS
    Default,        \* config.Default
    MinPoll         \* one second

\* Two durations that no file spells out: not set, and mistyped.
Unset == -100
Garbled == -101

Absent == [kind |-> "absent"]
NotYaml == [kind |-> "not YAML"]

\* rawFile's durations in the order of the merge.
Durations == <<"poll", "hot", "step", "reassert">>

\* A file that parses as YAML.
File(poll, hot, step, reassert, iface, host, rest) ==
    [kind |-> "yaml", poll |-> poll, hot |-> hot, step |-> step, reassert |-> reassert,
     iface |-> iface, host |-> host, rest |-> rest]

\* The first n durations parse.
ParsesUpTo(f, n) == \A i \in 1..n : f[Durations[i]] # Garbled

\* LoadFile returns without an error; that the file is missing is one.
Loads(f) == f.kind = "yaml" /\ ParsesUpTo(f, 4)

\* A field after the durations, "" when it is not set.
TextField(f, d) == IF ParsesUpTo(f, 4) /\ f[d] # "" THEN f[d] ELSE Default[d]

\* The i-th duration, if the merge comes to it.
Duration(f, i) ==
    LET d == Durations[i]
    IN  IF ParsesUpTo(f, i) /\ f[d] # Unset THEN f[d] ELSE Default[d]

\* What LoadFile leaves in a configuration that started as the defaults, with
\* an error or without.
Merged(f) ==
    IF f.kind # "yaml" THEN Default
    ELSE [poll |-> Duration(f, 1), hot |-> Duration(f, 2), step |-> Duration(f, 3),
          reassert |-> Duration(f, 4), iface |-> TextField(f, "iface"),
          host |-> TextField(f, "host"), rest |-> TextField(f, "rest")]

\* ipmi.New: in-band, or the host of an out-of-band connection, which is whatever
\* else the interface says.
InBandIfaces == {"", "open"}

Target(cfg) == IF cfg.iface \in InBandIfaces THEN "local" ELSE cfg.host

\* An out-of-band connection to nowhere.
SlipValidate(cfg) ==
    /\ cfg.poll >= MinPoll /\ cfg.step > 0 /\ cfg.rest = "ok"
    /\ cfg.hot # 0 => cfg.hot >= MinPoll
    /\ cfg.hot <= cfg.poll /\ cfg.reassert >= 0
    /\ cfg.iface \in InBandIfaces \cup {"lanplus"}

\* The bounds that the timing depends on, the connection and the rest.
Validate(cfg) ==
    /\ cfg.poll >= MinPoll
    /\ cfg.step > 0
    /\ cfg.rest = "ok"
    /\ cfg.hot # 0 => cfg.hot >= MinPoll
    /\ cfg.hot <= cfg.poll
    /\ cfg.reassert >= 0
    /\ cfg.iface \in InBandIfaces \cup {"lanplus"}
    /\ cfg.iface = "lanplus" => cfg.host # ""

\* main and the reload: a missing file is the defaults, any other error is final.
Acceptable(f) == (f = Absent \/ Loads(f)) /\ Validate(Merged(f))

\* The cadences that controller.desiredInterval chooses from.
Cadences(cfg) == {cfg.poll} \cup (IF cfg.hot > 0 THEN {cfg.hot} ELSE {})

\* Config.EffectiveStepTimeout: a step may not outlast the shortest cadence.
EffectiveStepTimeout(cfg) ==
    LET shortest == IF cfg.hot > 0 /\ cfg.hot < cfg.poll THEN cfg.hot ELSE cfg.poll
    IN  IF cfg.step > shortest THEN shortest ELSE cfg.step
=============================================================================
