-------------------------------- MODULE MCUnit --------------------------------
(* Small instances of Unit: three BMCs, files that load and files that do not.  *)
EXTENDS Unit

MCDefault == [poll |-> 30, hot |-> 0, step |-> 15, reassert |-> 300,
              iface |-> "open", host |-> "", rest |-> "ok"]

OutOfBand(host) == File(Unset, Unset, Unset, Unset, "lanplus", host, "")
InBand == File(20, 10, 15, Unset, "open", "", "ok")

\* Mistyped, at the first duration and at the last; accepted by the loader and
\* refused by Validate, twice.
Typo == [OutOfBand("a") EXCEPT !.poll = Garbled]
LateTypo == [OutOfBand("b") EXCEPT !.reassert = Garbled]
TooFast == [OutOfBand("a") EXCEPT !.hot = 40]
NoHost == OutOfBand("")

\* An interface that Validate refuses and restore-auto, which does not validate, uses.
Lan == [OutOfBand("b") EXCEPT !.iface = "lan"]

MCExample == InBand
MCFiles == {OutOfBand("a"), OutOfBand("b"), InBand, Typo, LateTypo, TooFast, NoHost,
            Lan, Absent, NotYaml}

\* Every file describes the same BMC.
SameBmc == {OutOfBand("a"), Typo}
SameBmcExample == OutOfBand("a")

\* One that also loads, and is accepted or refused by Validate.
AgreedFiles == {OutOfBand("a"), TooFast}
=============================================================================
