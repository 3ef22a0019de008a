------------------------------ MODULE MCGovernor ------------------------------
(* Small instances of Governor.  The hold count and the step cap are the      *)
(* code's (config.go: 3 polls, 10 points) or 0, which the governor documents. *)
EXTENDS Governor

Gov(d, m, h) == [deadband |-> d, maxStepDown |-> m, holdPolls |-> h]

\* The default deadband, none, the largest one the cap covers, and the
\* governor without debouncing.
MCGovernors == {Gov(3, 10, 3), Gov(0, 10, 3), Gov(11, 10, 3), Gov(3, 0, 0)}

\* A floor with two neighbours inside the deadband, a duty that the largest
\* deadband still covers, and one several capped steps above.
MCTargets == {5, 6, 8, 15, 38}

\* A deadband beyond the cap: the configuration allows up to 50.
WideGovernors == {Gov(15, 10, 3)}
=============================================================================
