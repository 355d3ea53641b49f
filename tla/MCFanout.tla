------------------------------ MODULE MCFanout ------------------------------
(***************************************************************************)
(* Delivery to two messengers at once: a firing message of two parts, a     *)
(* second incident of the same alert, and an alert without a fingerprint    *)
(* whose Slack template fails.                                              *)
(***************************************************************************)
EXTENDS Delivery

CONSTANTS r1, r2, tg, slack, a, b, fp, i1, i2, nameless, none

MCTargetsOf == [s \in Sinks |-> IF s = tg THEN <<a>> ELSE <<b>>]
MCFpOf == [i \in {i1, i2, nameless} |-> IF i = nameless THEN none ELSE fp]

Firing(i) == [status |-> "firing", inc |-> i]
Resolved(i) == [status |-> "resolved", inc |-> i]
MCPayloads ==
    {<<Firing(i1)>>, <<Firing(i1), Resolved(i1)>>, <<Resolved(i1), Firing(i2)>>,
     <<Firing(nameless), Firing(i1), Firing(i2)>>}
MCUnrenderable == {<<Firing(nameless), slack>>}

MCDedupKeys == {<<fp, t, st>> : t \in Targets, st \in Statuses}
MCLinkKeys == Incidents \X Targets
MCMessages == [req : Requests, inc : Incidents, target : Targets]
MCPartsOf == [st \in Statuses |-> IF st = "firing" THEN 2 ELSE 1]
=============================================================================
