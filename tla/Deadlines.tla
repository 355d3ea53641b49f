------------------------------ MODULE Deadlines ------------------------------
(***************************************************************************)
(* What a tracker of messages promises, without its map and its list: every *)
(* message that is kept has a deadline, one period after it was last        *)
(* tracked.  It stays until it is released, or until a sweep after the      *)
(* deadline, which takes all that are due at once; only when there is no    *)
(* room for a new one, one of those with the earliest deadline goes.        *)
(***************************************************************************)
EXTENDS Integers, FiniteSets

CONSTANTS
    Keys,     \* what can be tracked
    Data,     \* what is remembered of it
    Period,   \* how long
    Room      \* how many; <= 0 means without a bound

VARIABLES
    kept,     \* the keys tracked, each with its data and its deadline
    time

Init == kept = <<>> /\ time = 0

Tracked == DOMAIN kept

Due(k) == kept[k].due <= time

\* What a lookup of k answers with.
Hit(k) == k \in Tracked /\ ~Due(k)

Earliest == {k \in Tracked : \A j \in Tracked : kept[k].due <= kept[j].due}

Full == Room > 0 /\ Cardinality(Tracked) = Room

\* Who goes so that k can be tracked.
MakesRoom(k, out) ==
    \/ (k \in Tracked \/ ~Full) /\ out = {}
    \/ /\ k \notin Tracked /\ Full
       /\ \E old \in Earliest : out = {old}

Track(k, d) ==
    /\ \E out \in SUBSET Tracked :
          /\ MakesRoom(k, out)
          /\ kept' = [j \in (Tracked \ out) \cup {k} |->
                         IF j = k THEN [data |-> d, due |-> time + Period] ELSE kept[j]]
    /\ UNCHANGED time

Keep(keys) == [k \in keys |-> kept[k]]

Release(k) ==
    /\ k \in Tracked
    /\ kept' = Keep(Tracked \ {k})
    /\ UNCHANGED time

Lapse ==
    /\ kept' = Keep({k \in Tracked : ~Due(k)})
    /\ UNCHANGED time

Pass == time' = time + 1 /\ UNCHANGED kept

Next ==
    \/ \E k \in Keys, d \in Data : Track(k, d)
    \/ \E k \in Keys : Release(k)
    \/ Lapse
    \/ Pass

Spec == Init /\ [][Next]_<<kept, time>>
=============================================================================
