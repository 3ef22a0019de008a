----------------------------- MODULE MCController -----------------------------
(* Small instances of Controller: two configurations, readings on either side  *)
(* of every threshold that the step compares with.                             *)
EXTENDS Controller

Band(t, p) == [maxTemp |-> t, percent |-> p]

\* A short ramp, 5% to 38%, no multiple of the step cap apart, and the BMC above 60
\* degrees, taken back at 55.
CurveA == [bands |-> <<Band(40, 5), Band(60, 38)>>, hysteresis |-> 5]
\* A flat curve that hands over at 50 and takes back at 40.
CurveB == [bands |-> <<Band(50, 25)>>, hysteresis |-> 10]

Gov == [deadband |-> 3, maxStepDown |-> 10, holdPolls |-> 2]

ConfigA == [curve |-> CurveA, gpuCurve |-> CurveB, gov |-> Gov, reassert |-> 2]
ConfigB == [curve |-> CurveB, gpuCurve |-> CurveB, gov |-> Gov, reassert |-> 0]
MCConfigs == {ConfigA, ConfigB}

R(raw, eff) == [raw |-> raw, eff |-> eff]
\* At the floor; within the deadband of it; a large step up; over the top; and
\* below the reclaim threshold but heading over the top.
MCReadings == {R(40, 40), R(41, 41), R(60, 60), R(61, 61), R(54, 62)}

\* For the liveness run: the floor and the top, a verified change apart.
TwoReadings == {R(40, 40), R(60, 60)}

\* Configuration A without the step cap: two duties instead of four.
LiveConfigs == {[ConfigA EXCEPT !.gov.maxStepDown = 0]}
=============================================================================
