---------------------------------- MODULE Bmc ----------------------------------
(***************************************************************************)
(* The BMC as fanctl sees it (external): three raw commands of              *)
(* internal/ipmi/ipmi.go and the fan control they leave behind.             *)
(*                                                                          *)
(* A BMC state is [auto, duty]: whether its own thermal management has the  *)
(* fans, and the duty it was last given in manual mode.                     *)
(***************************************************************************)
EXTENDS Integers

BmcStates(Duties) == [auto : BOOLEAN, duty : Duties]

\* Client.SetManual, Client.SetAuto and Client.SetPercent.
SetManualCmd == [name |-> "manual", pct |-> 0]
SetAutoCmd == [name |-> "auto", pct |-> 0]
SetPercentCmd(p) == [name |-> "percent", pct |-> p]

Commands(Duties) ==
    {SetManualCmd, SetAutoCmd} \cup {SetPercentCmd(p) : p \in Duties}

\* What a command that reaches the BMC does.  A duty "requires manual mode
\* first": it means nothing while the BMC has the fans.
Execute(b, cmd) ==
    IF cmd.name = "manual" THEN [b EXCEPT !.auto = FALSE]
    ELSE IF cmd.name = "auto" THEN [b EXCEPT !.auto = TRUE]
    ELSE IF ~b.auto THEN [b EXCEPT !.duty = cmd.pct]
    ELSE b
=============================================================================
