------------------------------- MODULE MCReload -------------------------------
(* A small instance of Reload.                                                *)
EXTENDS Reload

Cadence(idle, fast) == [pollIdle |-> idle, pollHot |-> fast]
Config(t, b, g) == [tun |-> t, bound |-> b, gpu |-> g]

\* Adaptive polling off and on, two connections, GPU monitoring off and on.
MCDefaults == Config(Cadence(2, 0), "inband", FALSE)
MCConfigs == {MCDefaults, Config(Cadence(3, 1), "lanplus", TRUE)}
=============================================================================
