------------------------ MODULE ButtonMessagesProofs ------------------------
(***************************************************************************)
(* The labels an alert's message needs outlive the message: between Build   *)
(* and the last press the cache gives them up only to an overflow.          *)
(***************************************************************************)
EXTENDS ButtonMessages, ButtonTrackerProofs

LabelEntries == [key : Fingerprints, expiresAt : Nat]

CacheInv ==
    /\ labels \in Seq(LabelEntries)
    /\ KeysDistinct(labels)
    /\ Len(labels) <= LabelMax

(***************************************************************************)
(* The cache has the labels of f until t, or gave them up to an overflow.   *)
(***************************************************************************)
Covers(f, t) ==
    f \in evicted \/ \E e \in EntriesOf(labels) : e.key = f /\ e.expiresAt >= t

(***************************************************************************)
(* The inductive invariant.  What the property says of live messages has to *)
(* hold of every message up to its expiry, and, for the whole label TTL, of *)
(* the one that is being sent: Build has cached its labels, but the tracker *)
(* does not know it yet.                                                    *)
(***************************************************************************)
MessagesInv ==
    /\ IInv
    /\ CacheInv
    /\ outgoing \in Fingerprints \cup {NoMessage}
    /\ outgoing # NoMessage => Covers(outgoing, now + LabelTTL)
    /\ \A ref \in index :
          LET e == EntryOf(order, ref)
          IN Expired(e, now) \/ Covers(e.value, e.expiresAt)
-----------------------------------------------------------------------------
(* The label cache by itself. *)

\* An entry whose key is still in the list is still there.
LEMMA EntryStays ==
    ASSUME NEW E, NEW list \in Seq(E), NEW next \in Seq(E), KeysDistinct(list),
           EntriesOf(next) \subseteq EntriesOf(list),
           NEW e \in EntriesOf(list), e.key \in KeysOf(next)
    PROVE  e \in EntriesOf(next)
<1>1. PICK i \in DOMAIN next : next[i].key = e.key
    BY DEF KeysOf
<1>2. next[i] \in EntriesOf(next) /\ next[i] \in EntriesOf(list)
    BY DEF EntriesOf
<1>3. next[i] = e
    BY <1>1, <1>2 DEF EntriesOf, KeysDistinct
<1> QED
    BY <1>2, <1>3

LEMMA EntryKey ==
    ASSUME NEW list, NEW e \in EntriesOf(list)
    PROVE  e.key \in KeysOf(list)
BY DEF EntriesOf, KeysOf

LEMMA CachedEntries == CacheInv => \A e \in EntriesOf(labels) : e \in LabelEntries
BY LenProperties, ElementOfSeq DEF CacheInv, EntriesOf

LEMMA LabelEntryTyped ==
    ASSUME NEW f \in Fingerprints, NEW t \in Nat
    PROVE  /\ LabelEntry(f, t) \in LabelEntries
           /\ LabelEntry(f, t).key = f
           /\ LabelEntry(f, t).expiresAt = t + LabelTTL
BY LabelCacheAssumption DEF LabelEntry, LabelEntries

(***************************************************************************)
(* Put leaves an entry of f that lasts a whole TTL, and every other entry   *)
(* unless it evicts it: the front one of a full list, for an unknown alert. *)
(***************************************************************************)
PutPromises(f, t) ==
    /\ CacheInv'
    /\ LabelEntry(f, t) \in EntriesOf(labels)'
    /\ \A e \in EntriesOf(labels) :
          e.key = f \/ e.key \in evicted' \/ e \in EntriesOf(labels)'
    /\ evicted \ {f} \subseteq evicted'
    /\ \A k \in KeysOf(labels) :
          \/ k \in KeysOf(labels)'
          \/ /\ Len(labels) = LabelMax
             /\ k = Head(labels).key
             /\ f \notin KeysOf(labels)

LEMMA PutRefreshes ==
    ASSUME CacheInv, NEW f \in Fingerprints, NEW t \in Nat, Put(f, t), Cached(f)
    PROVE  PutPromises(f, t)
<1> DEFINE e == LabelEntry(f, t)
           p == IndexOf(labels, f)
<1>1. e \in LabelEntries /\ e.key = f
    BY LabelEntryTyped
<1>2. labels \in Seq(LabelEntries) /\ KeysDistinct(labels) /\ Len(labels) <= LabelMax
    BY DEF CacheInv
<1>3. p \in 1 .. Len(labels) /\ labels[p].key = f
    BY <1>2, WithoutElements DEF Cached
<1>4. labels' = [labels EXCEPT ![p] = e] /\ evicted' = evicted
    BY DEF Put
<1> HIDE DEF e, p
<1>5. /\ labels' \in Seq(LabelEntries) /\ Len(labels') = Len(labels)
      /\ \A j \in 1 .. Len(labels) : labels'[j] = IF j = p THEN e ELSE labels[j]
    BY <1>1, <1>2, <1>3, <1>4, ExceptSeq
<1>6. DOMAIN labels = 1 .. Len(labels) /\ DOMAIN labels' = 1 .. Len(labels)
    BY <1>2, <1>5, LenProperties
<1>7. \A j \in DOMAIN labels : labels'[j].key = labels[j].key
    BY <1>1, <1>3, <1>5, <1>6
<1>8. KeysDistinct(labels)' /\ KeysOf(labels)' = KeysOf(labels)
    BY <1>2, <1>6, <1>7 DEF KeysDistinct, KeysOf
<1>9. labels'[p] = e
    BY <1>3, <1>5
<1>10. e \in EntriesOf(labels)'
    BY <1>3, <1>6, <1>9 DEF EntriesOf
<1>11. ASSUME NEW x \in EntriesOf(labels)
       PROVE  x.key = f \/ x \in EntriesOf(labels)'
    <2>1. PICK j \in DOMAIN labels : x = labels[j]
        BY DEF EntriesOf
    <2>2. CASE j = p
        BY <1>3, <2>1, <2>2
    <2>3. CASE j # p
        <3>1. labels'[j] = x /\ j \in DOMAIN labels'
            BY <1>5, <1>6, <2>1, <2>3
        <3> QED
            BY <3>1 DEF EntriesOf
    <2> QED
        BY <2>2, <2>3
<1> QED
    BY <1>2, <1>4, <1>5, <1>8, <1>10, <1>11 DEF PutPromises, CacheInv, e

LEMMA PutInserts ==
    ASSUME CacheInv, NEW f \in Fingerprints, NEW t \in Nat, Put(f, t), ~Cached(f)
    PROVE  PutPromises(f, t)
<1> DEFINE e == LabelEntry(f, t)
           grown == Append(labels, e)
           n == Surplus(grown, LabelMax)
<1>1. e \in LabelEntries /\ e.key = f
    BY LabelEntryTyped
<1>2. /\ labels \in Seq(LabelEntries) /\ KeysDistinct(labels) /\ Len(labels) <= LabelMax
      /\ f \notin KeysOf(labels) /\ LabelMax \in Nat \ {0} /\ Len(labels) \in Nat
      /\ DOMAIN labels = 1 .. Len(labels)
    BY LabelCacheAssumption, LenProperties DEF CacheInv, Cached
<1>3. /\ labels' = AfterN(grown, n)
      /\ evicted' = (evicted \cup KeysOf(FirstN(grown, n))) \ {f}
    BY DEF Put, Cached
<1> HIDE DEF e
<1>4. /\ grown \in Seq(LabelEntries) /\ Len(grown) = Len(labels) + 1
      /\ \A i \in 1 .. Len(labels) : grown[i] = labels[i]
      /\ grown[Len(labels) + 1] = e
    BY <1>1, <1>2, AppendProperties
<1>5. KeysDistinct(grown) /\ KeysOf(grown) = KeysOf(labels) \cup {f}
    BY <1>1, <1>2, AppendKeys
<1>6. EntriesOf(grown) = EntriesOf(labels) \cup {e}
    BY <1>1, <1>2, EntriesOfOperations
<1> HIDE DEF grown
<1>7. n \in {0, 1} /\ (n = 1 <=> Len(labels) = LabelMax)
    BY <1>2, <1>4 DEF Surplus
<1>8. n \in 0 .. Len(labels) /\ n \in 0 .. Len(grown)
    BY <1>2, <1>4, <1>7
<1> HIDE DEF n
<1>9. /\ labels' \in Seq(LabelEntries) /\ Len(labels') = Len(grown) - n
      /\ FirstN(grown, n) \in Seq(LabelEntries) /\ Len(FirstN(grown, n)) = n
      /\ \A i \in 1 .. n : FirstN(grown, n)[i] = grown[i]
    BY <1>3, <1>4, <1>8, AfterNElements
<1>10. KeysDistinct(labels') /\ KeysOf(labels') = KeysOf(grown) \ KeysOf(FirstN(grown, n))
    BY <1>3, <1>4, <1>5, <1>8, AfterNKeys
<1>11. Len(labels') <= LabelMax
    <2>1. CASE n = 0
        <3>1. Len(labels) + 1 <= LabelMax
            <4>1. Len(labels) # LabelMax
                BY <1>7, <2>1
            <4>2. Len(labels) \in Nat /\ LabelMax \in Nat /\ Len(labels) <= LabelMax
                BY <1>2
            <4> QED
                BY <4>1, <4>2
        <3>2. Len(labels') = Len(labels) + 1
            BY <1>2, <1>4, <1>9, <2>1
        <3> QED
            BY <3>1, <3>2
    <2>2. CASE n = 1
        BY <1>2, <1>4, <1>7, <1>9, <2>2
    <2> QED
        BY <1>7, <2>1, <2>2
<1>12. ASSUME NEW k \in KeysOf(FirstN(grown, n))
       PROVE  Len(labels) = LabelMax /\ k = Head(labels).key /\ k # f
    <2>1. PICK i \in 1 .. n : k = FirstN(grown, n)[i].key
        BY <1>9, LenProperties DEF KeysOf
    <2>2. n = 1 /\ i = 1
        BY <1>7, <2>1
    <2>3. 1 \in 1 .. Len(labels) /\ labels # <<>>
        BY <1>2, <1>7, <2>2, EmptySeq
    <2>4. k = labels[1].key /\ Head(labels) = labels[1]
        BY <1>2, <1>4, <1>9, <2>1, <2>2, <2>3, HeadTailProperties
    <2>5. k \in KeysOf(labels)
        BY <1>2, <2>3, <2>4 DEF KeysOf
    <2> QED
        BY <1>2, <1>7, <2>2, <2>4, <2>5
<1>13. EntriesOf(labels') \subseteq EntriesOf(grown)
    BY <1>3, <1>4, <1>8, EntriesOfOperations
<1>14. ASSUME NEW x \in EntriesOf(grown)
       PROVE  x.key \in KeysOf(FirstN(grown, n)) \/ x \in EntriesOf(labels')
    <2>1. x.key \in KeysOf(grown)
        BY EntryKey
    <2> QED
        BY <1>4, <1>5, <1>9, <1>10, <1>13, <2>1, EntryStays
<1>15. f \notin KeysOf(FirstN(grown, n))
    BY <1>12
<1>16. e \in EntriesOf(labels')
    BY <1>1, <1>6, <1>14, <1>15
<1>17. ASSUME NEW x \in EntriesOf(labels)
       PROVE  x.key = f \/ x.key \in evicted' \/ x \in EntriesOf(labels')
    BY <1>3, <1>6, <1>14
<1>18. ASSUME NEW k \in KeysOf(labels)
       PROVE  \/ k \in KeysOf(labels')
              \/ /\ Len(labels) = LabelMax
                 /\ k = Head(labels).key
                 /\ f \notin KeysOf(labels)
    BY <1>2, <1>5, <1>10, <1>12
<1>19. evicted \ {f} \subseteq evicted'
    BY <1>3
<1> QED
    BY <1>9, <1>10, <1>11, <1>16, <1>17, <1>18, <1>19 DEF PutPromises, CacheInv, e

LEMMA PutFacts ==
    ASSUME CacheInv, NEW f \in Fingerprints, NEW t \in Nat, Put(f, t)
    PROVE  PutPromises(f, t)
BY PutRefreshes, PutInserts

\* A lookup takes nothing but an entry whose time is over.
LEMMA GetFacts ==
    ASSUME CacheInv, NEW f \in Fingerprints, NEW t \in Nat, Get(f, t)
    PROVE  /\ CacheInv' /\ evicted' = evicted
           /\ \A e \in EntriesOf(labels) : e \in EntriesOf(labels') \/ Stale(e, t)
           /\ \A k \in KeysOf(labels) :
                 k \in KeysOf(labels') \/ (k = f /\ ~Hit(f, t))
<1>1. CASE Cached(f) /\ ~Hit(f, t)
    <2>1. labels \in Seq(LabelEntries) /\ KeysDistinct(labels) /\ Len(labels) <= LabelMax
        BY DEF CacheInv
    <2>2. f \in KeysOf(labels) /\ labels' = Without(labels, f) /\ evicted' = evicted
        BY <1>1 DEF Cached, Get
    <2>3. labels' \in Seq(LabelEntries) /\ Len(labels') = Len(labels) - 1
        BY <2>1, <2>2, WithoutElements
    <2>4. KeysDistinct(labels') /\ KeysOf(labels') = KeysOf(labels) \ {f}
        BY <2>1, <2>2, WithoutKeys
    <2>5. EntriesOf(labels') \subseteq EntriesOf(labels)
        BY <2>1, <2>2, EntriesOfOperations
    <2>6. ASSUME NEW e \in EntriesOf(labels)
          PROVE  e \in EntriesOf(labels') \/ Stale(e, t)
        <3>1. CASE e.key = f
            BY <1>1, <2>1, <2>2, <3>1, EntryOfKey DEF Hit
        <3>2. CASE e.key # f
            BY <2>1, <2>3, <2>4, <2>5, <3>2, EntryKey, EntryStays
        <3> QED
            BY <3>1, <3>2
    <2>7. Len(labels') <= LabelMax
        BY <2>1, <2>3, LenProperties, LabelCacheAssumption
    <2> QED
        BY <1>1, <2>2, <2>3, <2>4, <2>6, <2>7 DEF CacheInv
<1>2. CASE ~(Cached(f) /\ ~Hit(f, t))
    BY <1>2 DEF Get, CacheInv
<1> QED
    BY <1>1, <1>2

(***************************************************************************)
(* Covered labels stay covered.                                             *)
(***************************************************************************)
LEMMA PutCovers ==
    ASSUME CacheInv, NEW g \in Fingerprints, NEW t \in Nat, Put(g, t),
           NEW f, NEW u \in Int, u <= t + LabelTTL, Covers(f, u)
    PROVE  Covers(f, u)'
<1>1. PutPromises(g, t)
    BY PutFacts
<1>2. /\ LabelEntry(g, t) \in EntriesOf(labels)' /\ LabelEntry(g, t).key = g
      /\ LabelEntry(g, t).expiresAt >= u
    BY <1>1, LabelEntryTyped, LabelCacheAssumption DEF PutPromises
<1>3. CASE f = g
    BY <1>2, <1>3 DEF Covers
<1>4. CASE f # g
    BY <1>1, <1>4 DEF Covers, PutPromises
<1> QED
    BY <1>3, <1>4

LEMMA GetCovers ==
    ASSUME CacheInv, NEW g \in Fingerprints, NEW t \in Nat, Get(g, t),
           NEW f, NEW u \in Int, u >= t, Covers(f, u)
    PROVE  Covers(f, u)'
<1>1. \A e \in EntriesOf(labels) : e.expiresAt >= u => ~Stale(e, t)
    BY CachedEntries DEF Stale, LabelEntries
<1> QED
    BY <1>1, GetFacts DEF Covers
-----------------------------------------------------------------------------
(***************************************************************************)
(* The steps of messages and presses.                                       *)
(***************************************************************************)
LEMMA Times ==
    /\ TTL \in Nat /\ LabelTTL \in Nat /\ TTL <= LabelTTL
    /\ Values = Fingerprints /\ NoMessage \notin Fingerprints
BY TrackerAssumption, LabelCacheAssumption, MessagesAssumption, NoMessageAssumption

\* What the tracker says of a message it knows.
LEMMA TrackedMessage ==
    ASSUME IInv, NEW ref \in index
    PROVE  /\ EntryOf(order, ref).value \in Fingerprints
           /\ EntryOf(order, ref).expiresAt \in Nat
           /\ EntryOf(order, ref).expiresAt <= now + TTL
<1>1. EntryOf(order, ref) \in Entry
    BY TrackedEntry
<1>2. order \in Seq(Entry) /\ ref \in KeysOf(order) /\ KeysDistinct(order)
      /\ \A i \in DOMAIN order : order[i].expiresAt <= now + TTL
    BY DEF IInv, TypeOK, Sound
<1>3. EntryOf(order, ref) \in EntriesOf(order)
    BY <1>2, EntryOfKey
<1> QED
    BY <1>1, <1>2, <1>3, Times DEF Entry, EntriesOf

\* The messages are left alone while the cache moves.
LEMMA CacheMoves ==
    ASSUME MessagesInv, UNCHANGED vars, CacheInv',
           outgoing' \in Fingerprints \cup {NoMessage},
           outgoing' # NoMessage => Covers(outgoing, now + LabelTTL)',
           \A f \in Fingerprints : \A u \in Nat :
              u > now /\ u <= now + TTL /\ Covers(f, u) => Covers(f, u)'
    PROVE  MessagesInv'
<1>1. index' = index /\ order' = order /\ now' = now /\ now \in Nat
    BY DEF vars, MessagesInv, IInv, TypeOK
<1>2. IInv'
    BY <1>1 DEF MessagesInv, IInv, TypeOK
<1>3. ASSUME NEW ref \in index, ~Expired(EntryOf(order, ref), now)
      PROVE  Covers(EntryOf(order, ref).value, EntryOf(order, ref).expiresAt)'
    <2> DEFINE f == EntryOf(order, ref).value
               u == EntryOf(order, ref).expiresAt
    <2>1. f \in Fingerprints /\ u \in Nat /\ u <= now + TTL
        BY TrackedMessage DEF MessagesInv
    <2>2. Covers(f, u) /\ ~(u <= now)
        BY <1>3 DEF MessagesInv, Expired
    <2>3. f' = f /\ u' = u
        BY <1>1
    <2> HIDE DEF f, u
    <2>4. \A g \in Fingerprints : \A v \in Nat :
             g = f /\ v = u => Covers(g, v)'
        BY <1>1, <2>1, <2>2
    <2> QED
        BY <2>1, <2>3, <2>4 DEF Covers, f, u
<1> QED
    BY <1>1, <1>2, <1>3 DEF MessagesInv, Expired

LEMMA BuildsKeeps ==
    ASSUME MessagesInv, NEW f \in Fingerprints, Builds(f)
    PROVE  MessagesInv'
<1>1. CacheInv /\ now \in Nat /\ now' = now /\ UNCHANGED vars /\ outgoing' = f /\ Put(f, now)
    BY DEF MessagesInv, IInv, TypeOK, Builds, vars
<1>2. PutPromises(f, now)
    BY <1>1, PutFacts
<1>3. Covers(outgoing, now + LabelTTL)'
    <2>1. LabelEntry(f, now) \in EntriesOf(labels)'
        BY <1>2 DEF PutPromises
    <2>2. LabelEntry(f, now).key = f /\ LabelEntry(f, now).expiresAt >= now + LabelTTL
        BY <1>1, LabelEntryTyped, Times
    <2> QED
        BY <1>1, <2>1, <2>2 DEF Covers
<1>4. ASSUME NEW g \in Fingerprints, NEW u \in Nat, u <= now + TTL, Covers(g, u)
      PROVE  Covers(g, u)'
    <2>1. u \in Int /\ u <= now + LabelTTL
        BY <1>1, <1>4, Times
    <2> QED
        BY <1>1, <1>4, <2>1, PutCovers
<1>5. CacheInv'
    BY <1>2 DEF PutPromises
<1> QED
    BY <1>1, <1>3, <1>4, <1>5, CacheMoves

LEMMA LooksUpKeeps ==
    ASSUME MessagesInv, NEW f \in Fingerprints, LooksUp(f)
    PROVE  MessagesInv'
<1>1. /\ CacheInv /\ now \in Nat /\ now' = now /\ UNCHANGED vars /\ outgoing' = outgoing
      /\ outgoing \in Fingerprints \cup {NoMessage} /\ Get(f, now)
    BY DEF MessagesInv, IInv, TypeOK, LooksUp, vars
<1>2. CacheInv'
    BY <1>1, GetFacts
<1>3. ASSUME NEW g, NEW u \in Int, u >= now, Covers(g, u)
      PROVE  Covers(g, u)'
    BY <1>1, <1>3, GetCovers
<1>4. now + LabelTTL \in Int /\ now + LabelTTL >= now
    BY <1>1, Times
<1>5. outgoing' # NoMessage => Covers(outgoing, now + LabelTTL)'
    <2>1. outgoing # NoMessage => Covers(outgoing, now + LabelTTL)
        BY DEF MessagesInv
    <2>2. ASSUME NEW u \in Int, u = now + LabelTTL, outgoing # NoMessage
          PROVE  Covers(outgoing, u)'
        BY <1>1, <1>3, <1>4, <2>1, <2>2 DEF Covers
    <2> QED
        BY <1>1, <1>4, <2>2 DEF Covers
<1>6. \A g \in Fingerprints : \A u \in Nat :
          u > now /\ u <= now + TTL /\ Covers(g, u) => Covers(g, u)'
    BY <1>1, <1>3
<1> QED
    BY <1>1, <1>2, <1>5, <1>6, CacheMoves

\* A shorter time is covered with a longer one.
LEMMA CoversLess ==
    ASSUME CacheInv, NEW f, NEW u \in Int, NEW t \in Int, t <= u, Covers(f, u)
    PROVE  Covers(f, t)
<1>1. \A e \in EntriesOf(labels) : e.expiresAt \in Int
    BY CachedEntries DEF LabelEntries
<1> QED
    BY <1>1 DEF Covers

LEMMA LandsKeeps ==
    ASSUME MessagesInv, NEW ref \in Refs, Lands(ref)
    PROVE  MessagesInv'
<1> DEFINE f == outgoing
<1>1. /\ IInv /\ CacheInv /\ now \in Nat /\ now' = now /\ f \in Values
      /\ Covers(f, now + LabelTTL) /\ outgoing' = NoMessage
      /\ labels' = labels /\ evicted' = evicted /\ RegisterMessage(ref, f)
    BY Times DEF MessagesInv, IInv, TypeOK, Lands, RegisterMessage, labelVars
<1> HIDE DEF f
<1>2. /\ IInv' /\ index' \subseteq index \cup {ref} /\ ref \in index'
      /\ EntryOf(order', ref) = Fresh(ref, f)
      /\ \A k \in index' \ {ref} : EntryOf(order', k) = EntryOf(order, k)
    BY <1>1, RegisterFacts
<1>3. Fresh(ref, f).value = f /\ Fresh(ref, f).expiresAt = now + TTL
    BY DEF Fresh
<1>4. Covers(f, now + TTL)
    BY <1>1, Times, CoversLess
<1>5. \A k \in index' :
          LET e == EntryOf(order', k)
          IN Expired(e, now) \/ Covers(e.value, e.expiresAt)
    <2>1. ASSUME NEW k \in index', k # ref
          PROVE  LET e == EntryOf(order, k)
                 IN Expired(e, now) \/ Covers(e.value, e.expiresAt)
        BY <1>2, <2>1 DEF MessagesInv
    <2> QED
        BY <1>2, <1>3, <1>4, <2>1
<1>6. CacheInv'
    BY <1>1 DEF CacheInv
<1> QED
    BY <1>1, <1>2, <1>5, <1>6 DEF MessagesInv, Covers, Expired

\* The cache is left alone while the tracker loses messages.
LEMMA TrackerMoves ==
    ASSUME MessagesInv, UNCHANGED <<labelVars, outgoing>>, IInv',
           now' = now \/ (outgoing = NoMessage /\ now' = now + 1),
           \A k \in index' : k \in index /\ EntryOf(order', k) = EntryOf(order, k)
    PROVE  MessagesInv'
<1>1. /\ labels' = labels /\ evicted' = evicted /\ outgoing' = outgoing
      /\ now \in Nat /\ now <= now'
    BY DEF labelVars, MessagesInv, IInv, TypeOK
<1>2. CacheInv'
    BY <1>1 DEF CacheInv, MessagesInv
<1>3. ASSUME NEW k \in index'
      PROVE  \/ Expired(EntryOf(order', k), now')
             \/ Covers(EntryOf(order, k).value, EntryOf(order, k).expiresAt)
    <2>1. EntryOf(order, k).expiresAt \in Nat /\ now' \in Int
        BY <1>1, TrackedMessage DEF MessagesInv
    <2>2. Expired(EntryOf(order, k), now) => Expired(EntryOf(order, k), now')
        BY <1>1, <2>1 DEF Expired
    <2> QED
        BY <2>2 DEF MessagesInv
<1> QED
    BY <1>1, <1>2, <1>3 DEF MessagesInv, Covers

LEMMA InitMessagesInv == MessagesInit => MessagesInv
<1> SUFFICES ASSUME MessagesInit
             PROVE  MessagesInv
    OBVIOUS
<1>1. Init /\ labels = <<>> /\ outgoing = NoMessage
    BY DEF MessagesInit, LabelInit
<1>2. IInv /\ index = {}
    BY <1>1, InitIInv DEF Init
<1>3. labels \in Seq(LabelEntries) /\ Len(labels) = 0 /\ DOMAIN labels = {}
    BY <1>1, EmptySeq, LenProperties
<1>4. CacheInv
    BY <1>3, LabelCacheAssumption DEF CacheInv, KeysDistinct
<1> QED
    BY <1>1, <1>2, <1>4 DEF MessagesInv

LEMMA NextMessagesInv == MessagesInv /\ [MessagesNext]_messageVars => MessagesInv'
<1> SUFFICES ASSUME MessagesInv, [MessagesNext]_messageVars
             PROVE  MessagesInv'
    OBVIOUS
<1>1. IInv /\ CacheInv
    BY DEF MessagesInv
<1>2. CASE \E f \in Fingerprints : Builds(f) \/ LooksUp(f)
    BY <1>2, BuildsKeeps, LooksUpKeeps
<1>3. CASE \E ref \in Refs : Lands(ref)
    BY <1>3, LandsKeeps
<1>4. CASE Fails
    <2>1. UNCHANGED vars /\ UNCHANGED labelVars /\ outgoing' = NoMessage
        BY <1>4 DEF Fails
    <2>2. CacheInv'
        BY <1>1, <2>1 DEF CacheInv, labelVars
    <2>3. \A f \in Fingerprints : \A u \in Nat : Covers(f, u) => Covers(f, u)'
        BY <2>1 DEF Covers, labelVars
    <2> QED
        BY <2>1, <2>2, <2>3, CacheMoves
<1>5. CASE Consumes
    <2>1. PICK ref \in Refs : ConsumeRef(ref)
        BY <1>5 DEF Consumes, Consume
    <2>2. UNCHANGED <<labelVars, outgoing>> /\ now' = now
        BY <1>5, <2>1 DEF Consumes, ConsumeRef
    <2>3. IInv' /\ index' \subseteq index /\ \A k \in index' : EntryOf(order', k) = EntryOf(order, k)
        BY <1>1, <2>1, ConsumeFacts
    <2> QED
        BY <2>2, <2>3, TrackerMoves
<1>6. CASE Sweeps
    <2>1. Sweep /\ UNCHANGED <<labelVars, outgoing>> /\ now' = now
        BY <1>6 DEF Sweeps, Sweep
    <2>2. IInv' /\ index' \subseteq index /\ \A k \in index' : EntryOf(order', k) = EntryOf(order, k)
        BY <1>1, <2>1, SweepFacts
    <2> QED
        BY <2>1, <2>2, TrackerMoves
<1>7. CASE Ticks
    <2>1. /\ Tick /\ UNCHANGED <<labelVars, outgoing>> /\ outgoing = NoMessage
          /\ index' = index /\ order' = order /\ now' = now + 1
        BY <1>7 DEF Ticks, Tick, Advance
    <2>2. IInv'
        BY <1>1, <2>1, TickIInv
    <2> QED
        BY <2>1, <2>2, TrackerMoves
<1>8. CASE UNCHANGED messageVars
    <2>1. UNCHANGED <<labelVars, outgoing>> /\ UNCHANGED vars
        BY <1>8 DEF messageVars
    <2>2. IInv' /\ now' = now /\ index' = index /\ order' = order
        BY <1>1, <2>1, NextIInv DEF vars
    <2> QED
        BY <2>1, <2>2, TrackerMoves
<1> QED
    BY <1>2, <1>3, <1>4, <1>5, <1>6, <1>7, <1>8 DEF MessagesNext

LEMMA SpecMessagesInv == MessagesSpec => []MessagesInv
BY InitMessagesInv, NextMessagesInv, PTL DEF MessagesSpec
-----------------------------------------------------------------------------
(***************************************************************************)
(* Whoever presses a button that still works finds the labels of its alert, *)
(* unless a full cache gave them up (alertmanager/cache.go:9-14).           *)
(***************************************************************************)
THEOREM MessagesButtonsHaveLabels == MessagesSpec => []ButtonsHaveLabels
<1>1. MessagesInv => ButtonsHaveLabels
    <2> SUFFICES ASSUME MessagesInv, NEW ref \in Refs, Live(ref)
                 PROVE  Hit(EntryOf(order, ref).value, now)
                            \/ EntryOf(order, ref).value \in evicted
        BY DEF ButtonsHaveLabels
    <2> DEFINE f == EntryOf(order, ref).value
               u == EntryOf(order, ref).expiresAt
    <2>1. /\ ref \in index /\ ~(u <= now) /\ u \in Nat /\ now \in Nat
          /\ labels \in Seq(LabelEntries) /\ KeysDistinct(labels)
        BY TrackedMessage DEF Live, Expired, MessagesInv, IInv, TypeOK, CacheInv
    <2>2. Covers(f, u)
        BY <2>1 DEF MessagesInv, Expired
    <2> HIDE DEF f, u
    <2> SUFFICES ASSUME f \notin evicted
                 PROVE  Hit(f, now)
        BY DEF f
    <2>3. PICK e \in EntriesOf(labels) : e.key = f /\ e.expiresAt >= u
        BY <2>2 DEF Covers
    <2>4. f \in KeysOf(labels)
        BY <2>3, EntryKey
    <2>5. EntryOf(labels, f) = e
        BY <2>1, <2>3, <2>4, EntryOfKey
    <2>6. e.expiresAt \in Nat
        BY CachedEntries DEF MessagesInv, LabelEntries
    <2>7. ~Stale(e, now)
        BY <2>1, <2>3, <2>6 DEF Stale
    <2> QED
        BY <2>4, <2>5, <2>7 DEF Hit, Cached
<1> QED
    BY <1>1, SpecMessagesInv, PTL

(***************************************************************************)
(* Labels that still count leave only as the oldest insertion of a full     *)
(* cache, for an alert it does not know (alertmanager/cache.go:62-66).      *)
(***************************************************************************)
THEOREM MessagesLabelsLeaveInTurn == MessagesSpec => LabelsLeaveInTurn
<1>1. ASSUME MessagesInv, [MessagesNext]_messageVars,
             NEW f \in Fingerprints, Hit(f, now), f \notin KeysOf(labels')
      PROVE  /\ Len(labels) = LabelMax
             /\ f = Head(labels).key
             /\ outgoing' \in Fingerprints \ KeysOf(labels)
    <2>1. f \in KeysOf(labels) /\ CacheInv /\ now \in Nat
        BY <1>1 DEF Hit, Cached, MessagesInv, IInv, TypeOK
    <2>2. CASE \E g \in Fingerprints : Builds(g)
        <3>1. PICK g \in Fingerprints : Builds(g)
            BY <2>2
        <3>2. Put(g, now) /\ outgoing' = g
            BY <3>1 DEF Builds
        <3>3. PutPromises(g, now)
            BY <2>1, <3>2, PutFacts
        <3> QED
            BY <1>1, <2>1, <3>2, <3>3 DEF PutPromises
    <2>3. CASE \E g \in Fingerprints : LooksUp(g)
        BY <1>1, <2>1, <2>3, GetFacts DEF LooksUp
    <2>4. CASE UNCHANGED labels
        BY <1>1, <2>1, <2>4
    <2>5. MessagesNext \/ UNCHANGED messageVars
        BY <1>1
    <2> QED
        BY <2>2, <2>3, <2>4, <2>5
        DEF MessagesNext, Lands, Fails, Consumes, Sweeps, Ticks, labelVars, messageVars
<1>2. MessagesInv /\ [MessagesNext]_messageVars =>
        [\A f \in Fingerprints :
          Hit(f, now) /\ f \notin KeysOf(labels') =>
              /\ Len(labels) = LabelMax
              /\ f = Head(labels).key
              /\ outgoing' \in Fingerprints \ KeysOf(labels)]_messageVars
    BY <1>1
<1> QED
    BY <1>2, SpecMessagesInv, PTL DEF MessagesSpec, LabelsLeaveInTurn
-----------------------------------------------------------------------------
(* The tracker's own promises, when messages are built and sent around it. *)

\* A message is sent in time for its window to end before the clock stops.
Timely == outgoing # NoMessage => now + TTL < MaxTime

LEMMA MessagesStep ==
    ASSUME MessagesInv, Timely, [MessagesNext]_messageVars
    PROVE  Timely' /\ [Next]_vars
<1>1. CASE \E f \in Fingerprints : Builds(f) \/ LooksUp(f)
    BY <1>1 DEF Builds, LooksUp, vars, Timely
<1>2. CASE \E ref \in Refs : Lands(ref)
    <2>1. PICK ref \in Refs : Lands(ref)
        BY <1>2
    <2>2. outgoing \in Values /\ now + TTL < MaxTime
        BY <2>1, MessagesAssumption DEF MessagesInv, Timely, Lands
    <2>3. Register
        BY <2>1, <2>2 DEF Register, Lands
    <2> QED
        BY <2>1, <2>3 DEF Next, Lands, Timely
<1>3. CASE Fails
    BY <1>3 DEF Fails, Timely
<1>4. CASE Consumes
    BY <1>4 DEF Consumes, Next, Consume, ConsumeRef, Timely
<1>5. CASE Sweeps
    BY <1>5 DEF Sweeps, Next, Sweep, Timely
<1>6. CASE Ticks
    BY <1>6 DEF Ticks, Next, Timely
<1>7. CASE UNCHANGED messageVars
    BY <1>7 DEF messageVars, vars, Timely
<1> QED
    BY <1>1, <1>2, <1>3, <1>4, <1>5, <1>6, <1>7 DEF MessagesNext

(***************************************************************************)
(* Building, sending, looking labels up and pressing do to the tracker only *)
(* what its own specification allows (keyboard.go, callback.go), so what is *)
(* proved of it by itself holds here too.                                   *)
(***************************************************************************)
THEOREM MessagesUseTheTracker == MessagesSpec => Spec
<1>1. MessagesInit => Timely /\ Init
    BY DEF MessagesInit, Timely
<1>2. MessagesInv /\ Timely /\ [MessagesNext]_messageVars => Timely' /\ [Next]_vars
    BY MessagesStep
<1> QED
    BY <1>1, <1>2, SpecMessagesInv, PTL DEF MessagesSpec, Spec

(***************************************************************************)
(* Also among messages that are built, sent and pressed, each keeps its     *)
(* deadline (button_tracker.go:45-51, 86-89).                               *)
(***************************************************************************)
THEOREM MessagesKeepDeadlines == MessagesSpec => KeepsDeadlines
BY MessagesUseTheTracker, TrackerKeepsDeadlines
=============================================================================
