----------------------------- MODULE ExpiryList -----------------------------
(***************************************************************************)
(* The bounded, time-limited insertion list that alertly's in-memory stores *)
(* share: Go's container/list as button_tracker.go, resolve.go and          *)
(* cache.go use it.  A list is a sequence of entries, front first; an entry *)
(* is a record with at least the fields key and expiresAt.                  *)
(***************************************************************************)
EXTENDS Integers, SequencesExt

KeysOf(list) == {list[i].key : i \in DOMAIN list}

\* The position of the element a map entry points at.
IndexOf(list, k) == CHOOSE i \in DOMAIN list : list[i].key = k

EntryOf(list, k) == list[IndexOf(list, k)]

\* order.Remove(el), for the element with key k
Without(list, k) == RemoveAt(list, IndexOf(list, k))

\* "!now.Before(e.ExpiresAt)": an entry is gone at its very expiry instant.
Expired(e, now) == e.expiresAt <= now

TakesAnInstantEarly(list, n, now) ==   \* mutant
    /\ \A j \in 1 .. n : Expired(list[j], now + 1)
    /\ n < Len(list) => ~Expired(list[n + 1], now + 1)

KeepsLast(list, n, now) ==   \* mutant
    /\ \A j \in 1 .. n : Expired(list[j], now)
    /\ n < Len(list)
    /\ n + 1 < Len(list) => ~Expired(list[n + 1], now)

\* A walk from the front removes entries while they are expired and stops at
\* the first live one: n is how many it removes.
WalkRemoves(list, n, now) ==
    /\ \A j \in 1 .. n : Expired(list[j], now)
    /\ n < Len(list) => ~Expired(list[n + 1], now)

FirstN(list, n) == SubSeq(list, 1, n)
AfterN(list, n) == SubSeq(list, n + 1, Len(list))

OneTooMany(list, max) ==   \* mutant
    IF max > 0 /\ Len(list) > max + 1 THEN Len(list) - max ELSE 0

\* How many entries the eviction loop removes from the front; max <= 0 means
\* unbounded.
Surplus(list, max) ==
    IF max > 0 /\ Len(list) > max THEN Len(list) - max ELSE 0
-----------------------------------------------------------------------------
(* What the stores rely on. *)

KeysDistinct(list) ==
    \A i, j \in DOMAIN list : list[i].key = list[j].key => i = j

ExpiryOrdered(list) ==
    \A i, j \in DOMAIN list : i <= j => list[i].expiresAt <= list[j].expiresAt
=============================================================================
