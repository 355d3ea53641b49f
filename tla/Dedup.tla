-------------------------------- MODULE Dedup --------------------------------
(***************************************************************************)
(* dedup/dedup.go: the cache of recent deliveries.  A key is what one       *)
(* delivery is known by: an alert, a target and a status.  Keyless stands   *)
(* for the empty key of a notification without a fingerprint, which is      *)
(* never recorded.                                                          *)
(***************************************************************************)
EXTENDS Clock

CONSTANTS
    DedupKeys,
    Keyless,
    DedupTTL

ASSUME DedupAssumption ==
    /\ DedupTTL \in Nat \ {0}
    /\ Keyless \notin DedupKeys

VARIABLE seen   \* c.items: when each key was reserved

Absent == -1

DedupInit == seen = [k \in DedupKeys |-> Absent]

\* Reserve answers true: the caller skips the delivery.
Suppressed(k) ==
    /\ k # Keyless
    /\ seen[k] # Absent
    /\ now - seen[k] <= DedupTTL

\* Reserve answers false and has recorded the key.
Reserve(k) ==
    /\ ~Suppressed(k)
    /\ seen' = IF k = Keyless THEN seen ELSE [seen EXCEPT ![k] = now]

Forget(k) == seen' = IF k = Keyless THEN seen ELSE [seen EXCEPT ![k] = Absent]

SweepsAtTTL ==   \* mutant
    /\ \E k \in DedupKeys : seen[k] # Absent /\ now - seen[k] >= DedupTTL
    /\ seen' = [k \in DedupKeys |->
                   IF now - seen[k] >= DedupTTL THEN Absent ELSE seen[k]]

\* The periodic Sweep, when it has something to remove.
DedupSweep ==
    /\ \E k \in DedupKeys : seen[k] # Absent /\ now - seen[k] > DedupTTL
    /\ seen' = [k \in DedupKeys |->
                   IF now - seen[k] > DedupTTL THEN Absent ELSE seen[k]]

DedupTypeOK == seen \in [DedupKeys -> Nat \cup {Absent}]
=============================================================================
