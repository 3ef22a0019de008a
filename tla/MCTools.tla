-------------------------------- MODULE MCTools --------------------------------
(* Small instances of Tools.  Sweep's limits are its flags' defaults.           *)
EXTENDS Tools

\* A descending list, and three that parseSteps refuses.
MCStepLists == {<<10, 4, 0>>, <<4, 10>>, <<101, 4>>, <<>>}
MCProbeDuties == {15, 150}

M(avg, min, max, temp, gpu) ==
    [avg |-> avg, min |-> min, max |-> max, temp |-> temp, gpu |-> gpu]

\* Speeds that give every verdict of the analysis on the way 10, 4, 0: steep
\* slopes, one exactly at a quarter of the steepest, less than a quarter, none,
\* and a spread that is too wide after an even one; a reading at each limit; and
\* fans that stand still.
MCMeasurements == {
    M(3000, 2800, 3300, 40, 50), M(2400, 2200, 2600, 40, 50),
    M(2300, 2150, 2500, 40, 74), M(2330, 2200, 2500, 40, 50),
    M(2200, 1700, 2600, 59, NoGpu),
    M(2000, 1800, 2200, 60, 50), M(2000, 1800, 2200, 40, 75),
    M(2000, 899, 2200, 40, 50), M(0, 0, 0, 40, 50)}
=============================================================================
