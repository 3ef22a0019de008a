------------------------------ MODULE MCSensing ------------------------------
(* A small instance of Sensing in ticks of 30 seconds, the default idle poll: *)
(* the code's window and default lookahead of 90 seconds, and its least span   *)
(* of 10 seconds rounded up to a tick.  A gap of 0 stands for the hot polls.    *)
EXTENDS Sensing

Band(t, p) == [maxTemp |-> t, percent |-> p]
\* Two duties, apart by less than the boost's cap from the cool reading.
CurveA == [bands |-> <<Band(47, 10), Band(48, 40), Band(60, 40)>>, hysteresis |-> 4]
CurveB == [bands |-> <<Band(50, 10)>>, hysteresis |-> 10]
Gov == [deadband |-> 3, maxStepDown |-> 0, holdPolls |-> 0]

ByName == [ids |-> {}, match |-> {"temp"}, exclude |-> {"inlet"}]
ById == [ids |-> {"2"}, match |-> {"temp"}, exclude |-> {"inlet"}]

Tunables(sel, lookahead) ==
    [sensors |-> sel, curve |-> CurveA, gpuCurve |-> CurveB, gov |-> Gov,
     lookahead |-> lookahead]

\* The defaults, and an inlet sensor chosen by its id.
MCConfigs == {Tunables(ByName, 3), Tunables(ById, 3)}

Die(t) == [id |-> "1", words |-> {"temp"}, temp |-> t]
Inlet(t) == [id |-> "2", words |-> {"temp", "inlet"}, temp |-> t]

Exhaust(t) == [id |-> "3", words |-> {"temp", "exhaust"}, temp |-> t]

\* The die cool, close to the top and over it; the inlet over the top, and
\* below zero beside a sensor that does not answer.
MCBoards ==
    {{Die(40), Inlet(61)}, {Die(54), Inlet(66)},
     {Die(61), Inlet(-5), Exhaust(Unreadable)}}

\* Cool, and the cap below the top.
MCGpuLists == {{36}, {36, 42}}
=============================================================================
