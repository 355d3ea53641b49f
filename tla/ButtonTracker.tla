--------------------------- MODULE ButtonTracker ---------------------------
(***************************************************************************)
(* server/button_tracker.go: the store of messages that carry buttons.     *)
(* entries (a map) and order (a list) are two structures that the code      *)
(* keeps in step by hand under one mutex: index is the map's key set, order *)
(* the list with the entries themselves.                                    *)
(***************************************************************************)
EXTENDS ExpiryList, Clock

CONSTANTS
    Refs,         \* messages (sink, chat, id); ids "" and "0" are never registered
    Values,       \* what an entry carries: fingerprint or silence id, and body
    TTL,          \* ButtonTTL, or UndoWindow for the undo tracker
    MaxEntries    \* capacity; <= 0 means unbounded

ASSUME TrackerAssumption ==
    /\ TTL \in Nat \ {0}
    /\ MaxEntries \in Int

VARIABLES
    index,   \* t.entries: the refs the map knows
    order    \* t.order: front = oldest = first to expire

vars == <<index, order, now>>

Entry == [key : Refs, value : Values, expiresAt : Nat]

Fresh(ref, v) == [key |-> ref, value |-> v, expiresAt |-> now + TTL]

Init ==
    /\ index = {}
    /\ order = <<>>
    /\ now = 0

RefreshesInPlace(ref, v) ==   \* mutant
    /\ ref \in index
    /\ order' = [order EXCEPT ![IndexOf(order, ref)] = Fresh(ref, v)]
    /\ UNCHANGED index

PushesTwice(ref, v) ==   \* mutant
    /\ ref \in index
    /\ order' = Append(order, Fresh(ref, v))
    /\ UNCHANGED index

\* Registering a known message updates its element, refreshes the TTL and
\* moves it to the back.
Refresh(ref, v) ==
    /\ ref \in index
    /\ order' = Append(Without(order, ref), Fresh(ref, v))
    /\ UNCHANGED index

\* A new message goes to the back; the oldest entries make room for it.
Insert(ref, v) ==
    /\ ref \notin index
    /\ LET grown == Append(order, Fresh(ref, v))
           n == Surplus(grown, MaxEntries)
       IN /\ order' = AfterN(grown, n)
          /\ index' = (index \cup {ref}) \ KeysOf(FirstN(grown, n))

RegisterMessage(ref, v) ==
    /\ Refresh(ref, v) \/ Insert(ref, v)
    /\ UNCHANGED now

ConsumeRef(ref) ==
    /\ ref \in index
    /\ order' = Without(order, ref)
    /\ index' = index \ {ref}
    /\ UNCHANGED now

\* What Entry(ref) answers: a hit needs a known message within its window.
Live(ref) == ref \in index /\ ~Expired(EntryOf(order, ref), now)

\* Pops expired entries from the front and stops at the first live one.
Sweep ==
    /\ \E n \in 1 .. Len(order) :
        /\ WalkRemoves(order, n, now)
        /\ order' = AfterN(order, n)
        /\ index' = index \ KeysOf(FirstN(order, n))
    /\ UNCHANGED now

Tick ==
    /\ Advance
    /\ UNCHANGED <<index, order>>

\* now + TTL < MaxTime bounds the model: every entry expires before the
\* clock stops.
Register ==
    /\ now + TTL < MaxTime
    /\ \E ref \in Refs, v \in Values : RegisterMessage(ref, v)

Consume == \E ref \in Refs : ConsumeRef(ref)

Next == Register \/ Consume \/ Sweep \/ Tick

\* Time passes and the sweeper's ticker keeps firing; presses and
\* deliveries may never come.
Fairness == WF_vars(Tick) /\ WF_vars(Sweep)

Spec == Init /\ [][Next]_vars
FairSpec == Spec /\ Fairness
-----------------------------------------------------------------------------
\* Every variable has its type, and the list never exceeds its capacity
\* (button_tracker.go:117-123).
TypeOK ==
    /\ index \subseteq Refs
    /\ order \in Seq(Entry)
    /\ now \in Nat
    /\ MaxEntries > 0 => Len(order) <= MaxEntries

\* The map and the list describe the same messages, each of them once, after
\* every register, refresh, eviction, consume and sweep; and "all entries share
\* one TTL, so insertion order is expiry order" (button_tracker.go:45-51).
StoreConsistent ==
    /\ KeysDistinct(order)
    /\ index = KeysOf(order)
    /\ ExpiryOrdered(order)

\* A sweep leaves no expired message behind, although it stops at the first
\* live entry (button_tracker.go:214-243).
SweepTakesAllExpired ==
    [][Sweep => \A i \in DOMAIN order' : ~Expired(order'[i], now)]_vars

\* A message within its window leaves the tracker only when somebody acts on
\* it, or as the oldest entry of a full tracker (button_tracker.go:90-93).
LiveLeavesOnlyConsumedOrOldest ==
    [][\A ref \in Refs :
        Live(ref) /\ ref \notin index' =>
            \/ ConsumeRef(ref)
            \/ /\ Len(order) = MaxEntries
               /\ ref = Head(order).key]_vars

\* What the map and the list amount to, for whoever only calls the tracker.
Kept == [ref \in index |-> [data |-> EntryOf(order, ref).value,
                            due |-> EntryOf(order, ref).expiresAt]]

Promise == INSTANCE Deadlines
    WITH Keys <- Refs, Data <- Values, Period <- TTL, Room <- MaxEntries,
         kept <- Kept, time <- now

\* The tracker is a set of messages with deadlines (button_tracker.go:45-51,
\* 86-89): each stays for its whole window, a sweep takes all that are due, and
\* a full tracker gives up one of those that are due first.
KeepsDeadlines == Promise!Spec

\* Once messages stop being registered (as Register's bound makes them), every
\* tracked message is released: consumed, evicted or handed to the sweeper,
\* which removes its buttons (button_tracker.go:205-243, 265-285).
EventuallyReleased ==
    \A ref \in Refs : ref \in index ~> ref \notin index
=============================================================================
