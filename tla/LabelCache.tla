------------------------------ MODULE LabelCache ------------------------------
(***************************************************************************)
(* alertmanager/cache.go: the labels of alerts whose messages got buttons,  *)
(* for presses that come when Alertmanager has forgotten the alert.  One    *)
(* list carries the entries and their order; the map has its keys.          *)
(***************************************************************************)
EXTENDS ExpiryList

CONSTANTS
    Fingerprints,   \* alerts of one cluster; an alert's labels never change
    LabelTTL,       \* updates.label_cache_ttl: 48 h
    LabelMax        \* updates.label_cache_max: 10000

ASSUME LabelCacheAssumption == {LabelTTL, LabelMax} \subseteq Nat \ {0}

VARIABLES
    labels,    \* c.order with its entries: front = oldest inserted
    evicted    \* history: alerts whose labels made room for others since their last Put

labelVars == <<labels, evicted>>

LabelInit == labels = <<>> /\ evicted = {}

LabelEntry(f, t) == [key |-> f, expiresAt |-> t + LabelTTL]

\* "After": unlike in the other stores the last instant still counts.
Stale(e, t) == t > e.expiresAt

Cached(f) == f \in KeysOf(labels)

KeepsItsTime(f, t) ==   \* mutant
    IF Cached(f)
    THEN UNCHANGED labelVars
    ELSE LET grown == Append(labels, LabelEntry(f, t))
             n == Surplus(grown, LabelMax)
         IN /\ labels' = AfterN(grown, n)
            /\ evicted' = (evicted \cup KeysOf(FirstN(grown, n))) \ {f}

\* A known alert gets a new expiry and keeps its place: eviction goes by the
\* first insertion, however lately an entry was refreshed.
Put(f, t) ==
    IF Cached(f)
    THEN /\ labels' = [labels EXCEPT ![IndexOf(labels, f)] = LabelEntry(f, t)]
         /\ UNCHANGED evicted
    ELSE LET grown == Append(labels, LabelEntry(f, t))
             n == Surplus(grown, LabelMax)
         IN /\ labels' = AfterN(grown, n)
            /\ evicted' = (evicted \cup KeysOf(FirstN(grown, n))) \ {f}

Hit(f, t) == Cached(f) /\ ~Stale(EntryOf(labels, f), t)

DropsTheFront(f, t) ==   \* mutant
    /\ labels' = IF Cached(f) /\ ~Hit(f, t) THEN Tail(labels) ELSE labels
    /\ UNCHANGED evicted

\* Looking up an entry past its time removes it, wherever it stands.
Get(f, t) ==
    /\ labels' = IF Cached(f) /\ ~Hit(f, t) THEN Without(labels, f) ELSE labels
    /\ UNCHANGED evicted
=============================================================================
