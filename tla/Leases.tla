------------------------------- MODULE Leases -------------------------------
(***************************************************************************)
(* What the dedup cache and the goroutines that use it promise together:    *)
(* the delivery of a key is leased to one holder at a time, and no time     *)
(* takes a lease from its holder.  Once the holder is done, the lease stays *)
(* for a period, counted from its start, if anything landed under it, and   *)
(* goes at once if nothing did.                                             *)
(***************************************************************************)
EXTENDS Integers

CONSTANTS
    Keys,      \* what is delivered
    Holders,   \* who delivers
    Period     \* how long a delivery is remembered

VARIABLES
    held,      \* key -> its holders
    since,     \* key -> when its lease began, or Never
    landed,    \* leases under which something landed: <<key, since>>
    time

Never == -1

Init ==
    /\ held = [k \in Keys |-> {}]
    /\ since = [k \in Keys |-> Never]
    /\ landed = {}
    /\ time = 0

\* A holder works on one key at a time.
Take(h, k) ==
    /\ \A j \in Keys : h \notin held[j]
    /\ held[k] = {} /\ since[k] = Never
    /\ held' = [held EXCEPT ![k] = {h}]
    /\ since' = [since EXCEPT ![k] = time]
    /\ UNCHANGED <<landed, time>>

Lease(k) == <<k, since[k]>>

Delivers(h, k) ==
    /\ h \in held[k]
    /\ landed' = landed \cup {Lease(k)}
    /\ UNCHANGED <<held, since, time>>

\* The holder is done, with a last landing or without one.
Ends(h, k) ==
    /\ h \in held[k]
    /\ landed' \in {landed, landed \cup {Lease(k)}}
    /\ held' = [held EXCEPT ![k] = {}]
    /\ since' = [since EXCEPT ![k] = IF Lease(k) \in landed' THEN @ ELSE Never]
    /\ UNCHANGED time

\* Nobody holds k any more, and the lease is past its period as time passes.
Outlived(k) == held[k] = {} /\ since[k] # Never /\ time + 1 - since[k] > Period

Pass ==
    /\ time' = time + 1
    /\ since' = [k \in Keys |-> IF Outlived(k) THEN Never ELSE since[k]]
    /\ UNCHANGED <<held, landed>>

Next ==
    \/ \E h \in Holders, k \in Keys : Take(h, k) \/ Delivers(h, k) \/ Ends(h, k)
    \/ Pass

Spec == Init /\ [][Next]_<<held, since, landed, time>>
=============================================================================
