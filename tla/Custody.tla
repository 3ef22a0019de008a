-------------------------------- MODULE Custody --------------------------------
(***************************************************************************)
(* What fanctl promises about who has the fans, without saying how.         *)
(*                                                                          *)
(* Either the BMC's own thermal control has them or fanctl does.  fanctl    *)
(* may take them unless it owes them back.  It owes them back from the      *)
(* moment it finds the host too hot, or cannot tell, or fails to command,   *)
(* or is told to stop; and only the BMC having the fans settles that.       *)
(***************************************************************************)
VARIABLES
    holder,     \* "bmc" or "fanctl"
    owed        \* fanctl has to give the fans back

vars == <<holder, owed>>

TypeOK == holder \in {"bmc", "fanctl"} /\ owed \in BOOLEAN

Init == holder \in {"bmc", "fanctl"} /\ owed = FALSE

\* A take that goes wrong half-way leaves the debt that undoes it.
Take == ~owed /\ holder' = "fanctl" /\ owed' \in BOOLEAN

\* The BMC has the fans again, whoever saw to it and for whatever reason.
Return == holder' = "bmc" /\ UNCHANGED owed

Alarm == ~owed /\ owed' = TRUE /\ UNCHANGED holder

Settle == owed /\ owed' = FALSE /\ holder' = "bmc"

Next == Take \/ Return \/ Alarm \/ Settle

Spec == Init /\ [][Next]_vars
=============================================================================
