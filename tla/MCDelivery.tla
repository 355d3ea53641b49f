----------------------------- MODULE MCDelivery -----------------------------
(***************************************************************************)
(* Delivery to one messenger: requests that fire, repeat, retry and resolve *)
(* one alert, whose firing message has two parts.                           *)
(***************************************************************************)
EXTENDS Delivery

CONSTANTS r1, r2, r3, tg, slack, a, b, fp, i1, i2, none

MCTargetsOf == [s \in Sinks |-> IF s = tg THEN <<a>> ELSE <<b>>]
MCFpOf == [i \in {i1, i2} |-> fp]

Firing(i) == [status |-> "firing", inc |-> i]
Resolved(i) == [status |-> "resolved", inc |-> i]
MCPayloads == {<<Firing(i1)>>, <<Resolved(i1)>>}
RefirePayloads == MCPayloads \cup {<<Firing(i2)>>}

MCDedupKeys == {<<fp, t, st>> : t \in Targets, st \in Statuses}
MCLinkKeys == {i1, i2} \X Targets
MCMessages == [req : Requests, inc : {i1, i2}, target : Targets]
RequestSymmetry == Permutations(Requests)
MCPartsOf == [st \in Statuses |-> IF st = "firing" THEN 2 ELSE 1]
=============================================================================
