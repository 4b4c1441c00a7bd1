---------------------------- MODULE MCJobSchedule ----------------------------
(* Instances of JobSchedule for TLC. *)
EXTENDS JobSchedule

NoFlags == [enabled |-> "keep", schedule |-> "keep", type |-> "keep", chain |-> "keep"]
Rename     == NoFlags
Disable    == [NoFlags EXCEPT !.enabled = "off"]
Enable     == [NoFlags EXCEPT !.enabled = "on"]
ToDaily    == [NoFlags EXCEPT !.schedule = "on", !.type = "DAILY"]
ToInterval == [NoFlags EXCEPT !.schedule = "on", !.type = "INTERVAL"]
ToManual   == [NoFlags EXCEPT !.schedule = "off"]
ChainOn    == [NoFlags EXCEPT !.chain = "on"]
ChainOff   == [NoFlags EXCEPT !.chain = "off"]

AllEdits   == {Rename, Disable, Enable, ToDaily, ToInterval, ToManual, ChainOn, ChainOff}

Row(type, next, cadence) ==
    [enabled |-> TRUE, type |-> type, next |-> next, cadence |-> cadence, settings |-> 0]
IntervalJob == Row("INTERVAL", NextRunAfter("INTERVAL", 0), NoCadence)
DailyJob    == Row("DAILY", NextRunAfter("DAILY", 0), NoCadence)
CadenceJob  == LET c == InitialCadence(0)
               IN  Row("INTERVAL", Earlier(c.full, c.inc), c)
AnyJob   == {IntervalJob, DailyJob, CadenceJob}

\* A FULL every third instant, incrementals more often, one at the same instant.
Fulls      == {n \in 1 .. 30 : n % 3 = 0}
Increments == {n \in 1 .. 30 : n % 4 \in {0, 1, 2}}
Days       == {n \in 1 .. 30 : n % 2 = 0}
=============================================================================
