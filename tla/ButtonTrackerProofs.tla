------------------------- MODULE ButtonTrackerProofs -------------------------
(***************************************************************************)
(* The button tracker keeps its map and its list in step, within capacity   *)
(* and in expiry order, for every capacity, TTL and set of messages.        *)
(***************************************************************************)
EXTENDS ButtonTracker, ExpiryListProofs, FiniteSetTheorems

(***************************************************************************)
(* The inductive invariant.  The bound now + TTL in Sound is what keeps the *)
(* list sorted: the entry a registration appends expires no earlier than    *)
(* any other.                                                               *)
(***************************************************************************)
IInv ==
    /\ TypeOK
    /\ index = KeysOf(order)
    /\ Sound(order, now + TTL)

LEMMA EntryExpiry == \A e \in Entry : e.expiresAt \in Int
BY DEF Entry

LEMMA FreshEntry ==
    ASSUME TypeOK, NEW ref \in Refs, NEW v \in Values
    PROVE  /\ Fresh(ref, v) \in Entry
           /\ Fresh(ref, v).key = ref
           /\ Fresh(ref, v).expiresAt = now + TTL
BY TrackerAssumption DEF TypeOK, Fresh, Entry

LEMMA InitIInv == Init => IInv
<1> SUFFICES ASSUME Init
             PROVE  IInv
    OBVIOUS
<1>1. order = <<>> /\ index = {} /\ now = 0
    BY DEF Init
<1>2. order \in Seq(Entry) /\ Len(order) = 0 /\ DOMAIN order = {}
    BY <1>1, EmptySeq, LenProperties
<1> QED
    BY <1>1, <1>2, TrackerAssumption
    DEF IInv, TypeOK, Sound, KeysDistinct, KeysOf, ExpiryOrdered

(***************************************************************************)
(* Each operation preserves the invariant.                                  *)
(***************************************************************************)
LEMMA RefreshIInv ==
    ASSUME IInv, NEW ref \in Refs, NEW v \in Values, Refresh(ref, v), UNCHANGED now
    PROVE  IInv'
<1> DEFINE rest == Without(order, ref)
           e == Fresh(ref, v)
<1>1. /\ order \in Seq(Entry) /\ Sound(order, now + TTL)
      /\ ref \in KeysOf(order) /\ index = KeysOf(order)
    BY DEF IInv, TypeOK, Refresh
<1>2. e \in Entry /\ e.key = ref /\ e.expiresAt = now + TTL
    BY FreshEntry DEF IInv
<1>3. /\ rest \in Seq(Entry) /\ Sound(rest, e.expiresAt)
      /\ Len(rest) = Len(order) - 1 /\ KeysOf(rest) = KeysOf(order) \ {ref}
    BY <1>1, <1>2, EntryExpiry, SoundWithout
<1> HIDE DEF rest, e
<1>4. order' = Append(rest, e) /\ index' = index /\ now' = now
    BY DEF Refresh, rest, e
<1>5. /\ order' \in Seq(Entry) /\ Sound(order', e.expiresAt)
      /\ Len(order') = Len(rest) + 1 /\ KeysOf(order') = KeysOf(rest) \cup {ref}
    BY <1>2, <1>3, <1>4, EntryExpiry, SoundAppend
<1>6. Len(order') = Len(order) /\ KeysOf(order') = KeysOf(order)
    BY <1>1, <1>3, <1>5, LenProperties
<1> QED
    BY <1>1, <1>2, <1>4, <1>5, <1>6 DEF IInv, TypeOK

LEMMA InsertIInv ==
    ASSUME IInv, NEW ref \in Refs, NEW v \in Values, Insert(ref, v), UNCHANGED now
    PROVE  IInv'
<1> DEFINE e == Fresh(ref, v)
           grown == Append(order, e)
           n == Surplus(grown, MaxEntries)
<1>1. /\ order \in Seq(Entry) /\ Sound(order, now + TTL)
      /\ ref \notin KeysOf(order) /\ index = KeysOf(order)
    BY DEF IInv, TypeOK, Insert
<1>2. e \in Entry /\ e.key = ref /\ e.expiresAt = now + TTL
    BY FreshEntry DEF IInv
<1>3. /\ grown \in Seq(Entry) /\ Sound(grown, now + TTL)
      /\ KeysOf(grown) = KeysOf(order) \cup {ref}
    BY <1>1, <1>2, EntryExpiry, SoundAppend
<1>4. order' = AfterN(grown, n) /\ index' = (index \cup {ref}) \ KeysOf(FirstN(grown, n))
    BY DEF Insert
<1> HIDE DEF grown, e
<1>5. n \in 0 .. Len(grown) /\ (MaxEntries > 0 => Len(grown) - n <= MaxEntries)
    BY <1>3, SurplusBound, TrackerAssumption
<1> HIDE DEF n
<1>6. /\ order' \in Seq(Entry) /\ Sound(order', now + TTL)
      /\ Len(order') = Len(grown) - n
      /\ KeysOf(order') = KeysOf(grown) \ KeysOf(FirstN(grown, n))
    BY <1>3, <1>4, <1>5, EntryExpiry, SoundAfterN
<1> QED
    BY <1>1, <1>3, <1>4, <1>5, <1>6 DEF IInv, TypeOK

LEMMA ConsumeIInv ==
    ASSUME IInv, NEW ref \in Refs, ConsumeRef(ref)
    PROVE  IInv'
<1>1. /\ order \in Seq(Entry) /\ Sound(order, now + TTL)
      /\ ref \in KeysOf(order) /\ index = KeysOf(order)
      /\ order' = Without(order, ref) /\ index' = index \ {ref} /\ now' = now
    BY DEF IInv, TypeOK, ConsumeRef
<1>2. /\ order' \in Seq(Entry) /\ Sound(order', now + TTL)
      /\ Len(order') = Len(order) - 1 /\ KeysOf(order') = KeysOf(order) \ {ref}
    BY <1>1, EntryExpiry, SoundWithout
<1> QED
    BY <1>1, <1>2, LenProperties, TrackerAssumption DEF IInv, TypeOK

LEMMA SweepIInv ==
    ASSUME IInv, Sweep
    PROVE  IInv'
<1>1. PICK n \in 1 .. Len(order) :
            /\ order' = AfterN(order, n)
            /\ index' = index \ KeysOf(FirstN(order, n))
    BY DEF Sweep
<1>2. /\ order \in Seq(Entry) /\ Sound(order, now + TTL) /\ index = KeysOf(order)
      /\ now' = now
    BY DEF IInv, TypeOK, Sweep
<1>3. n \in 0 .. Len(order) /\ Len(order) \in Nat
    BY <1>2, LenProperties
<1>4. /\ order' \in Seq(Entry) /\ Sound(order', now + TTL)
      /\ Len(order') = Len(order) - n
      /\ KeysOf(order') = KeysOf(order) \ KeysOf(FirstN(order, n))
    BY <1>1, <1>2, <1>3, EntryExpiry, SoundAfterN
<1> QED
    BY <1>1, <1>2, <1>3, <1>4, TrackerAssumption DEF IInv, TypeOK

LEMMA TickIInv ==
    ASSUME IInv, Tick
    PROVE  IInv'
<1>1. /\ order' = order /\ index' = index /\ now' = now + 1
      /\ now \in Nat /\ order \in Seq(Entry) /\ Sound(order, now + TTL)
    BY DEF Tick, Advance, IInv, TypeOK
<1>2. Sound(order, now + 1 + TTL)
    BY <1>1, EntryExpiry, SoundLater, TrackerAssumption
<1> QED
    BY <1>1, <1>2 DEF IInv, TypeOK

LEMMA NextIInv == IInv /\ [Next]_vars => IInv'
<1> SUFFICES ASSUME IInv, [Next]_vars
             PROVE  IInv'
    OBVIOUS
<1>1. CASE Register
    BY <1>1, RefreshIInv, InsertIInv DEF Register, RegisterMessage
<1>2. CASE Consume
    BY <1>2, ConsumeIInv DEF Consume
<1>3. CASE Sweep
    BY <1>3, SweepIInv
<1>4. CASE Tick
    BY <1>4, TickIInv
<1>5. CASE UNCHANGED vars
    BY <1>5 DEF vars, IInv, TypeOK
<1> QED
    BY <1>1, <1>2, <1>3, <1>4, <1>5 DEF Next

(***************************************************************************)
(* What each operation does to the messages it knows and to their entries,  *)
(* for whoever uses the tracker.                                            *)
(***************************************************************************)
LEMMA TrackedEntry ==
    ASSUME IInv, NEW k \in index
    PROVE  EntryOf(order, k) \in Entry /\ EntryOf(order, k).key = k
<1>1. order \in Seq(Entry) /\ KeysDistinct(order) /\ k \in KeysOf(order)
    BY DEF IInv, TypeOK, Sound
<1> QED
    BY <1>1, EntryOfKey

\* Entries that come from the list before stay the same.
LEMMA EntriesKept ==
    ASSUME IInv, IInv', NEW k \in index',
           \A e \in EntriesOf(order') : e.key = k => e \in EntriesOf(order)
    PROVE  k \in index /\ EntryOf(order', k) = EntryOf(order, k)
<1>1. /\ order \in Seq(Entry) /\ KeysDistinct(order) /\ index = KeysOf(order)
      /\ order' \in Seq(Entry) /\ KeysDistinct(order') /\ index' = KeysOf(order')
    BY DEF IInv, TypeOK, Sound
<1>2. k \in KeysOf(order')
    BY <1>1
<1>3. k \in KeysOf(order) /\ EntryOf(order', k) = EntryOf(order, k)
    BY <1>1, <1>2, EntryOfKept
<1> QED
    BY <1>1, <1>3

LEMMA RegisterFacts ==
    ASSUME IInv, NEW ref \in Refs, NEW v \in Values, RegisterMessage(ref, v)
    PROVE  /\ IInv'
           /\ index' \subseteq index \cup {ref}
           /\ ref \in index' /\ EntryOf(order', ref) = Fresh(ref, v)
           /\ \A k \in index' \ {ref} : EntryOf(order', k) = EntryOf(order, k)
<1> DEFINE e == Fresh(ref, v)
<1>1. IInv' /\ now' = now
    BY RefreshIInv, InsertIInv DEF RegisterMessage
<1>2. /\ order \in Seq(Entry) /\ Sound(order, now + TTL) /\ KeysDistinct(order)
      /\ index = KeysOf(order) /\ Len(order) \in Nat
      /\ order' \in Seq(Entry) /\ KeysDistinct(order') /\ index' = KeysOf(order')
    BY <1>1, LenProperties DEF IInv, TypeOK, Sound
<1>3. e \in Entry /\ e.key = ref /\ e.expiresAt = now + TTL
    BY FreshEntry DEF IInv
<1> HIDE DEF e
<1>4. /\ EntriesOf(order') \subseteq EntriesOf(order) \cup {e}
      /\ e \in EntriesOf(order')
    <2>1. CASE Refresh(ref, v)
        <3>1. ref \in KeysOf(order) /\ order' = Append(Without(order, ref), e)
            BY <1>2, <2>1 DEF Refresh, e
        <3>2. Without(order, ref) \in Seq(Entry)
            BY <1>2, <3>1, WithoutElements
        <3>3. EntriesOf(Without(order, ref)) \subseteq EntriesOf(order)
            BY <1>2, <3>1, EntriesOfOperations
        <3>4. EntriesOf(order') = EntriesOf(Without(order, ref)) \cup {e}
            BY <1>3, <3>1, <3>2, EntriesOfOperations
        <3> QED
            BY <3>3, <3>4
    <2>2. CASE Insert(ref, v)
        <3> DEFINE grown == Append(order, e)
                   n == Surplus(grown, MaxEntries)
        <3>1. order' = AfterN(grown, n)
            BY <2>2 DEF Insert, e
        <3>2. /\ grown \in Seq(Entry) /\ Len(grown) = Len(order) + 1
              /\ grown[Len(order) + 1] = e
            BY <1>2, <1>3, AppendProperties
        <3>3. EntriesOf(grown) = EntriesOf(order) \cup {e}
            BY <1>2, <1>3, EntriesOfOperations
        <3> HIDE DEF grown
        <3>4. n \in 0 .. Len(order)
            BY <1>2, <3>2, TrackerAssumption DEF Surplus
        <3> HIDE DEF n
        <3>5. n \in 0 .. Len(grown)
            BY <1>2, <3>2, <3>4
        <3>6. EntriesOf(order') \subseteq EntriesOf(grown)
            BY <3>1, <3>2, <3>5, EntriesOfOperations
        <3>7. /\ Len(order') = Len(grown) - n
              /\ \A i \in 1 .. Len(grown) - n : order'[i] = grown[n + i]
            BY <3>1, <3>2, <3>5, AfterNElements
        <3>8. /\ Len(order) + 1 - n \in 1 .. Len(grown) - n
              /\ n + (Len(order) + 1 - n) = Len(order) + 1
            BY <1>2, <3>2, <3>4
        <3>9. order'[Len(order) + 1 - n] = e
            BY <3>2, <3>7, <3>8
        <3>10. Len(order) + 1 - n \in DOMAIN order'
            BY <1>2, <3>7, <3>8, LenProperties
        <3>11. e \in EntriesOf(order')
            BY <3>9, <3>10 DEF EntriesOf
        <3> QED
            BY <3>3, <3>6, <3>11
    <2> QED
        BY <2>1, <2>2 DEF RegisterMessage
<1>5. ref \in KeysOf(order')
    BY <1>3, <1>4 DEF KeysOf, EntriesOf
<1>6. EntryOf(order', ref) = e
    BY <1>2, <1>3, <1>4, <1>5, EntryOfKey
<1>7. ASSUME NEW k \in index', k # ref
      PROVE  k \in index /\ EntryOf(order', k) = EntryOf(order, k)
    <2>1. \A x \in EntriesOf(order') : x.key = k => x \in EntriesOf(order)
        BY <1>3, <1>4, <1>7
    <2> QED
        BY <1>1, <2>1, EntriesKept
<1> QED
    BY <1>1, <1>2, <1>5, <1>6, <1>7 DEF e

LEMMA ConsumeFacts ==
    ASSUME IInv, NEW ref \in Refs, ConsumeRef(ref)
    PROVE  /\ IInv'
           /\ index' = index \ {ref}
           /\ \A k \in index' : EntryOf(order', k) = EntryOf(order, k)
<1>1. IInv'
    BY ConsumeIInv
<1>2. /\ order \in Seq(Entry) /\ ref \in KeysOf(order)
      /\ order' = Without(order, ref) /\ index' = index \ {ref}
    BY DEF IInv, TypeOK, ConsumeRef
<1>3. EntriesOf(order') \subseteq EntriesOf(order)
    BY <1>2, EntriesOfOperations
<1>4. \A k \in index' : EntryOf(order', k) = EntryOf(order, k)
    BY <1>1, <1>3, EntriesKept
<1> QED
    BY <1>1, <1>2, <1>4

\* A sweep takes entries from the front, each of them past its window.
LEMMA SweepFacts ==
    ASSUME IInv, Sweep
    PROVE  /\ IInv'
           /\ index' \subseteq index
           /\ \A k \in index' : EntryOf(order', k) = EntryOf(order, k)
           /\ Len(order) - Len(order') \in 1 .. Len(order)
           /\ \A i \in 1 .. Len(order) - Len(order') : order[i].key \in index
           /\ \A k \in index \ index' :
                 /\ Expired(EntryOf(order, k), now)
                 /\ \E i \in 1 .. Len(order) - Len(order') : order[i].key = k
<1>1. IInv'
    BY SweepIInv
<1>2. PICK n \in 1 .. Len(order) :
          /\ WalkRemoves(order, n, now) /\ order' = AfterN(order, n)
          /\ index' = index \ KeysOf(FirstN(order, n))
    BY DEF Sweep
<1>3. /\ order \in Seq(Entry) /\ KeysDistinct(order) /\ index = KeysOf(order)
      /\ Len(order) \in Nat /\ n \in 0 .. Len(order) /\ DOMAIN order = 1 .. Len(order)
    BY LenProperties DEF IInv, TypeOK, Sound
<1>4. /\ Len(order') = Len(order) - n
      /\ FirstN(order, n) \in Seq(Entry) /\ Len(FirstN(order, n)) = n
      /\ \A i \in 1 .. n : FirstN(order, n)[i] = order[i]
    BY <1>2, <1>3, AfterNElements
<1>5. Len(order) - Len(order') = n
    BY <1>3, <1>4
<1>6. EntriesOf(order') \subseteq EntriesOf(order)
    BY <1>2, <1>3, EntriesOfOperations
<1>7. ASSUME NEW k \in index \ index'
      PROVE  Expired(EntryOf(order, k), now) /\ \E i \in 1 .. n : order[i].key = k
    <2>1. k \in KeysOf(FirstN(order, n))
        BY <1>2, <1>7
    <2>2. DOMAIN FirstN(order, n) = 1 .. n
        BY <1>4, LenProperties
    <2>3. PICK i \in 1 .. n : order[i].key = k
        BY <1>4, <2>1, <2>2 DEF KeysOf
    <2>4. i \in 1 .. Len(order)
        BY <1>3
    <2>5. EntryOf(order, k) = order[i]
        BY <1>3, <2>3, <2>4, EntryOfElement
    <2> QED
        BY <1>2, <2>3, <2>5 DEF WalkRemoves
<1>8. \A i \in 1 .. n : order[i].key \in index
    BY <1>3 DEF KeysOf
<1>9. index' \subseteq index /\ \A k \in index' : EntryOf(order', k) = EntryOf(order, k)
    BY <1>1, <1>6, EntriesKept
<1> QED
    BY <1>1, <1>5, <1>7, <1>8, <1>9

LEMMA SpecIInv == Spec => []IInv
BY InitIInv, NextIInv, PTL DEF Spec

(***************************************************************************)
(* The tracker never holds more than MaxEntries messages, and its variables *)
(* keep their types.                                                        *)
(***************************************************************************)
THEOREM TrackerTypeOK == Spec => []TypeOK
<1>1. IInv => TypeOK
    BY DEF IInv
<1> QED
    BY <1>1, SpecIInv, PTL

(***************************************************************************)
(* The map and the list always describe the same messages, in expiry order, *)
(* whatever is registered, refreshed, consumed and swept in between.        *)
(***************************************************************************)
THEOREM TrackerStoreConsistent == Spec => []StoreConsistent
<1>1. IInv => StoreConsistent
    BY DEF IInv, Sound, StoreConsistent
<1> QED
    BY <1>1, SpecIInv, PTL

(***************************************************************************)
(* Stopping at the first live entry misses nothing: behind it every entry   *)
(* expires later.                                                           *)
(***************************************************************************)
LEMMA SweepStepTakesAllExpired ==
    ASSUME IInv, Sweep
    PROVE  \A i \in DOMAIN order' : ~Expired(order'[i], now)
<1>1. PICK n \in 1 .. Len(order) :
            WalkRemoves(order, n, now) /\ order' = AfterN(order, n)
    BY DEF Sweep
<1>2. /\ order \in Seq(Entry) /\ ExpiryOrdered(order) /\ now \in Nat
      /\ Len(order) \in Nat /\ DOMAIN order = 1 .. Len(order) /\ n \in 0 .. Len(order)
    BY LenProperties DEF IInv, TypeOK, Sound
<1>3. /\ DOMAIN order' = 1 .. Len(order) - n
      /\ \A i \in 1 .. Len(order) - n : order'[i] = order[n + i]
    <2>1. /\ order' \in Seq(Entry) /\ Len(order') = Len(order) - n
          /\ \A i \in 1 .. Len(order) - n : order'[i] = order[n + i]
        BY <1>1, <1>2, AfterNElements
    <2> QED
        BY <2>1, LenProperties
<1> SUFFICES ASSUME NEW i \in 1 .. Len(order) - n
             PROVE  ~(order[n + i].expiresAt <= now)
    BY <1>3 DEF Expired
<1>4. n + 1 \in DOMAIN order /\ n + i \in DOMAIN order /\ n + 1 <= n + i /\ n < Len(order)
    BY <1>2
<1>5. ~(order[n + 1].expiresAt <= now)
    BY <1>1, <1>4 DEF WalkRemoves, Expired
<1>6. order[n + 1].expiresAt <= order[n + i].expiresAt
    BY <1>2, <1>4 DEF ExpiryOrdered
<1>7. order[n + 1].expiresAt \in Int /\ order[n + i].expiresAt \in Int
    BY <1>2, <1>4, ElementOfSeq, EntryExpiry
<1> QED
    BY <1>2, <1>5, <1>6, <1>7

THEOREM TrackerSweepTakesAllExpired == Spec => SweepTakesAllExpired
<1>1. IInv /\ [Next]_vars
        => [Sweep => \A i \in DOMAIN order' : ~Expired(order'[i], now)]_vars
    BY SweepStepTakesAllExpired
<1> QED
    BY <1>1, SpecIInv, PTL DEF Spec, SweepTakesAllExpired

(***************************************************************************)
(* An insertion makes room for one entry, the front one, and only in a full *)
(* list.                                                                    *)
(***************************************************************************)
LEMMA InsertEvictsOldest ==
    ASSUME IInv, NEW new \in Refs, NEW v \in Values, Insert(new, v),
           NEW ref \in index, ref \notin index'
    PROVE  Len(order) = MaxEntries /\ ref = Head(order).key
<1> DEFINE e == Fresh(new, v)
           grown == Append(order, e)
           n == Surplus(grown, MaxEntries)
<1>1. /\ order \in Seq(Entry) /\ Len(order) \in Nat /\ e \in Entry
      /\ MaxEntries > 0 => Len(order) <= MaxEntries
    BY FreshEntry, LenProperties DEF IInv, TypeOK
<1>2. ref \in KeysOf(FirstN(grown, n))
    BY DEF Insert
<1> HIDE DEF e
<1>3. /\ grown \in Seq(Entry) /\ Len(grown) = Len(order) + 1
      /\ \A i \in 1 .. Len(order) : grown[i] = order[i]
    BY <1>1, AppendProperties
<1> HIDE DEF grown
<1>4. n \in {0, 1} /\ (n = 1 => Len(order) = MaxEntries /\ MaxEntries > 0)
    BY <1>1, <1>3, TrackerAssumption DEF Surplus
<1>5. n \in 0 .. Len(grown)
    BY <1>1, <1>3, <1>4
<1> HIDE DEF n
<1>6. /\ FirstN(grown, n) \in Seq(Entry) /\ Len(FirstN(grown, n)) = n
      /\ \A i \in 1 .. n : FirstN(grown, n)[i] = grown[i]
    BY <1>3, <1>5, AfterNElements
<1>7. PICK i \in 1 .. n : ref = FirstN(grown, n)[i].key
    BY <1>2, <1>6, LenProperties DEF KeysOf
<1>8. n = 1 /\ i = 1
    BY <1>4, <1>7
<1>9. 1 \in 1 .. Len(order) /\ order # <<>>
    BY <1>1, <1>4, <1>8, EmptySeq, LenProperties
<1>10. ref = order[1].key
    BY <1>3, <1>6, <1>7, <1>8, <1>9
<1>11. Head(order) = order[1]
    BY <1>1, <1>9, HeadTailProperties
<1> QED
    BY <1>4, <1>8, <1>10, <1>11

(***************************************************************************)
(* A message within its window leaves the tracker only when somebody acts   *)
(* on it, or as the oldest of a full one (button_tracker.go:90-93): neither *)
(* a sweep nor the refresh of another message takes it.                     *)
(***************************************************************************)
THEOREM TrackerLiveLeavesOnlyConsumedOrOldest == Spec => LiveLeavesOnlyConsumedOrOldest
<1>1. ASSUME IInv, [Next]_vars, NEW ref \in Refs, Live(ref), ref \notin index'
      PROVE  ConsumeRef(ref) \/ (Len(order) = MaxEntries /\ ref = Head(order).key)
    <2>1. ref \in index /\ ~Expired(EntryOf(order, ref), now)
        BY <1>1 DEF Live
    <2>2. CASE Register
        <3>1. PICK new \in Refs, v \in Values : RegisterMessage(new, v)
            BY <2>2 DEF Register
        <3>2. Insert(new, v)
            BY <1>1, <2>1, <3>1 DEF RegisterMessage, Refresh
        <3> QED
            BY <1>1, <2>1, <3>2, InsertEvictsOldest
    <2>3. CASE Consume
        BY <1>1, <2>1, <2>3 DEF Consume, ConsumeRef
    <2>4. CASE Sweep
        BY <1>1, <2>1, <2>4, SweepFacts
    <2>5. CASE Tick \/ UNCHANGED vars
        BY <1>1, <2>1, <2>5 DEF Tick, vars
    <2> QED
        BY <1>1, <2>2, <2>3, <2>4, <2>5 DEF Next
<1>2. IInv /\ [Next]_vars =>
        [\A ref \in Refs :
            Live(ref) /\ ref \notin index' =>
                \/ ConsumeRef(ref)
                \/ /\ Len(order) = MaxEntries
                   /\ ref = Head(order).key]_vars
    BY <1>1
<1> QED
    BY <1>2, SpecIInv, PTL DEF Spec, LiveLeavesOnlyConsumedOrOldest

-----------------------------------------------------------------------------
(***************************************************************************)
(* The tracker implements Deadlines.                                        *)
(***************************************************************************)
LEMMA KeptIs ==
    ASSUME IInv
    PROVE  /\ DOMAIN Kept = index
           /\ \A k \in index :
                 /\ Kept[k] = [data |-> EntryOf(order, k).value,
                               due |-> EntryOf(order, k).expiresAt]
                 /\ Kept[k].due = EntryOf(order, k).expiresAt
                 /\ Kept[k].due \in Int
<1>1. \A k \in index : EntryOf(order, k).expiresAt \in Int
    BY TrackedEntry, EntryExpiry
<1> QED
    BY <1>1 DEF Kept

LEMMA OneCardinality == \A S : Promise!Cardinality(S) = Cardinality(S)
BY DEF Promise!Cardinality, Cardinality

LEMMA KeysCount ==
    ASSUME NEW E, NEW list \in Seq(E), KeysDistinct(list)
    PROVE  /\ IsFiniteSet(KeysOf(list))
           /\ Cardinality(KeysOf(list)) = Len(list)
           /\ Len(list) \in Nat
<1>1. Len(list) \in Nat /\ DOMAIN list = 1 .. Len(list)
    BY LenProperties
<1> DEFINE f == [i \in 1 .. Len(list) |-> list[i].key]
<1>2. f \in Bijection(1 .. Len(list), KeysOf(list))
    <2>1. f \in Injection(1 .. Len(list), KeysOf(list))
        BY <1>1 DEF KeysOf, KeysDistinct, Injection, IsInjective
    <2>2. f \in Surjection(1 .. Len(list), KeysOf(list))
        BY <1>1 DEF KeysOf, Surjection
    <2> QED
        BY <2>1, <2>2 DEF Bijection
<1>3. ExistsBijection(1 .. Len(list), KeysOf(list))
    BY <1>2 DEF ExistsBijection
<1>4. IsFiniteSet(KeysOf(list))
    BY <1>1, <1>3, FS_NatBijection
<1> QED
    BY <1>1, <1>3, <1>4, FS_CountingElements

\* The front entry expires first.
LEMMA FrontIsEarliest ==
    ASSUME IInv, order # <<>>
    PROVE  Head(order).key \in Promise!Earliest
<1>1. /\ order \in Seq(Entry) /\ Len(order) \in Nat /\ DOMAIN order = 1 .. Len(order)
      /\ KeysDistinct(order) /\ index = KeysOf(order) /\ ExpiryOrdered(order)
    BY LenProperties DEF IInv, TypeOK, Sound
<1>2. 1 \in 1 .. Len(order)
    BY <1>1, EmptySeq
<1>3. Head(order) = order[1]
    BY <1>1, HeadTailProperties
<1>4. order[1].key \in index /\ Kept[order[1].key].due = order[1].expiresAt
    BY <1>1, <1>2, KeptIs, EntryOfElement DEF KeysOf
<1>5. ASSUME NEW k \in index
      PROVE  Kept[order[1].key].due <= Kept[k].due
    <2>1. PICK i \in 1 .. Len(order) : order[i].key = k
        BY <1>1 DEF KeysOf
    <2>2. Kept[k].due = order[i].expiresAt
        BY <1>1, <2>1, KeptIs, EntryOfElement
    <2>3. order[1].expiresAt <= order[i].expiresAt
        BY <1>1, <1>2 DEF ExpiryOrdered
    <2> QED
        BY <1>4, <2>2, <2>3
<1> QED
    BY <1>3, <1>4, <1>5, KeptIs DEF Promise!Earliest, Promise!Tracked

\* An insertion evicts nobody or, when the list is full, the front entry.
LEMMA InsertMakesRoom ==
    ASSUME IInv, NEW ref \in Refs, NEW v \in Values, RegisterMessage(ref, v)
    PROVE  Promise!MakesRoom(ref, index \ index')
<1>1. /\ order \in Seq(Entry) /\ KeysDistinct(order) /\ index = KeysOf(order)
      /\ IsFiniteSet(index) /\ Cardinality(index) = Len(order) /\ Len(order) \in Nat
    BY KeysCount DEF IInv, TypeOK, Sound
<1>0. Promise!Tracked = index
    BY KeptIs DEF Promise!Tracked
<1>2. CASE ref \in index
    <2>1. index' = index
        BY <1>2 DEF RegisterMessage, Refresh, Insert
    <2> QED
        BY <1>0, <1>2, <2>1 DEF Promise!MakesRoom
<1>3. CASE ref \notin index
    <2>1. Insert(ref, v)
        BY <1>3 DEF RegisterMessage, Refresh
    <2>2. ASSUME NEW k \in index, k \notin index'
          PROVE  Len(order) = MaxEntries /\ k = Head(order).key
        BY <2>1, <2>2, InsertEvictsOldest
    <2>3. CASE Promise!Full
        <3>1. MaxEntries > 0 /\ Len(order) = MaxEntries
            BY <1>0, <1>1, <2>3, OneCardinality DEF Promise!Full
        <3>2. order # <<>>
            BY <3>1, LenProperties, EmptySeq
        <3>3. index \ index' # {}
            <4> SUFFICES ASSUME index \subseteq index'
                         PROVE  FALSE
                OBVIOUS
            <4>1. index' = index \cup {ref} /\ IInv'
                BY RegisterFacts
            <4>2. order' \in Seq(Entry) /\ KeysDistinct(order') /\ index' = KeysOf(order')
                BY <4>1 DEF IInv, TypeOK, Sound
            <4>3. Cardinality(index') = Len(order')
                BY <4>2, KeysCount
            <4>4. Len(order') <= MaxEntries
                BY <3>1, <4>1 DEF IInv, TypeOK
            <4>5. Cardinality(index') = Cardinality(index) + 1
                BY <1>1, <1>3, <4>1, FS_AddElement
            <4> QED
                BY <1>1, <3>1, <4>3, <4>4, <4>5
        <3>4. index \ index' = {Head(order).key}
            BY <2>2, <3>3
        <3> QED
            BY <1>0, <1>3, <2>3, <3>2, <3>4, FrontIsEarliest DEF Promise!MakesRoom
    <2>4. CASE ~Promise!Full
        <3>1. index \ index' = {}
            <4> SUFFICES ASSUME NEW k \in index \ index'
                         PROVE  FALSE
                OBVIOUS
            <4>1. Len(order) = MaxEntries
                BY <2>2
            <4>2. DOMAIN order # {}
                BY <1>1 DEF KeysOf
            <4>3. Len(order) > 0
                BY <1>1, <4>2, LenProperties
            <4> QED
                BY <1>0, <1>1, <2>4, <4>1, <4>3, OneCardinality DEF Promise!Full
        <3> QED
            BY <1>0, <2>4, <3>1 DEF Promise!MakesRoom
    <2> QED
        BY <2>3, <2>4
<1> QED
    BY <1>2, <1>3

LEMMA RegisterTracks ==
    ASSUME IInv, NEW ref \in Refs, NEW v \in Values, RegisterMessage(ref, v)
    PROVE  Promise!Track(ref, v)
<1> DEFINE out == index \ index'
           next == [k \in (index \ out) \cup {ref} |->
                       IF k = ref THEN [data |-> v, due |-> now + TTL] ELSE Kept[k]]
<1>1. /\ IInv' /\ now' = now
      /\ index' \subseteq index \cup {ref} /\ ref \in index'
      /\ EntryOf(order', ref) = Fresh(ref, v)
      /\ \A k \in index' \ {ref} : EntryOf(order', k) = EntryOf(order, k)
    BY RegisterFacts DEF RegisterMessage
<1>2. DOMAIN Kept = index
    BY KeptIs
<1>3. (index \ out) \cup {ref} = index'
    BY <1>1
<1>4. Kept' = [k \in index' |-> [data |-> EntryOf(order', k).value,
                                 due |-> EntryOf(order', k).expiresAt]]
    BY DEF Kept
<1>5. ASSUME NEW k \in index'
      PROVE  [data |-> EntryOf(order', k).value, due |-> EntryOf(order', k).expiresAt]
                = IF k = ref THEN [data |-> v, due |-> now + TTL] ELSE Kept[k]
    <2>1. CASE k = ref
        BY <1>1, <2>1 DEF Fresh
    <2>2. CASE k # ref
        <3>1. k \in index /\ EntryOf(order', k) = EntryOf(order, k)
            BY <1>1, <2>2
        <3> QED
            BY <2>2, <3>1, KeptIs
    <2> QED
        BY <2>1, <2>2
<1>6. Kept' = next
    BY <1>3, <1>4, <1>5
<1>7. out \in SUBSET index /\ Promise!MakesRoom(ref, out)
    BY InsertMakesRoom
<1> QED
    BY <1>1, <1>2, <1>6, <1>7 DEF Promise!Track, Promise!Tracked

\* A step that takes keys away and leaves the entries of the others.
LEMMA KeptShrinks ==
    ASSUME IInv, index' \subseteq index,
           \A k \in index' : EntryOf(order', k) = EntryOf(order, k)
    PROVE  Kept' = Promise!Keep(index')
<1>1. \A k \in index' : Kept[k] = [data |-> EntryOf(order, k).value,
                                   due |-> EntryOf(order, k).expiresAt]
    BY KeptIs
<1>2. Kept' = [k \in index' |-> [data |-> EntryOf(order', k).value,
                                 due |-> EntryOf(order', k).expiresAt]]
    BY DEF Kept
<1> QED
    BY <1>1, <1>2 DEF Promise!Keep

LEMMA ConsumeReleases ==
    ASSUME IInv, NEW ref \in Refs, ConsumeRef(ref)
    PROVE  Promise!Release(ref)
<1>1. /\ index' = index \ {ref} /\ ref \in index /\ now' = now
      /\ \A k \in index' : EntryOf(order', k) = EntryOf(order, k)
    BY ConsumeFacts DEF ConsumeRef
<1>2. Kept' = Promise!Keep(index \ {ref})
    BY <1>1, KeptShrinks
<1>3. Promise!Tracked = index
    BY KeptIs DEF Promise!Tracked
<1> QED
    BY <1>1, <1>2, <1>3 DEF Promise!Release

\* The early stop takes neither too little nor too much.
LEMMA SweepLapses ==
    ASSUME IInv, Sweep
    PROVE  Promise!Lapse
<1>1. /\ IInv' /\ index' \subseteq index /\ now' = now
      /\ \A k \in index' : EntryOf(order', k) = EntryOf(order, k)
      /\ \A k \in index \ index' : Expired(EntryOf(order, k), now)
    BY SweepFacts DEF Sweep
<1>2. Promise!Tracked = index
    BY KeptIs DEF Promise!Tracked
<1>3. ASSUME NEW k \in index'
      PROVE  ~Expired(EntryOf(order, k), now)
    <2>1. order' \in Seq(Entry) /\ k \in KeysOf(order') /\ KeysDistinct(order')
        BY <1>1 DEF IInv, TypeOK, Sound
    <2>2. EntryOf(order', k) \in EntriesOf(order')
        BY <2>1, EntryOfKey
    <2>3. ~Expired(EntryOf(order', k), now)
        BY <2>2, SweepStepTakesAllExpired DEF EntriesOf
    <2> QED
        BY <1>1, <2>3
<1>4. \A k \in index : Promise!Due(k) <=> Expired(EntryOf(order, k), now)
    BY KeptIs DEF Promise!Due, Expired
<1>5. index' = {k \in Promise!Tracked : ~Promise!Due(k)}
    BY <1>1, <1>2, <1>3, <1>4
<1>6. Kept' = Promise!Keep(index')
    BY <1>1, KeptShrinks
<1> QED
    BY <1>1, <1>5, <1>6 DEF Promise!Lapse

(***************************************************************************)
(* For whoever calls it the tracker is a set of messages with deadlines     *)
(* (button_tracker.go:45-51, 86-89): the map, the list, the order in it and *)
(* the early stop are its implementation.                                   *)
(***************************************************************************)
THEOREM TrackerKeepsDeadlines == Spec => KeepsDeadlines
<1>1. Init => Promise!Init
    <2> SUFFICES ASSUME Init
                 PROVE  Promise!Init
        OBVIOUS
    <2>1. index = {} /\ now = 0
        BY DEF Init
    <2>2. Kept = <<>>
        BY <2>1 DEF Kept
    <2> QED
        BY <2>1, <2>2 DEF Promise!Init
<1>2. IInv /\ [Next]_vars => [Promise!Next]_<<Kept, now>>
    <2> SUFFICES ASSUME IInv, [Next]_vars
                 PROVE  Promise!Next \/ UNCHANGED <<Kept, now>>
        OBVIOUS
    <2>1. CASE Register
        BY <2>1, RegisterTracks DEF Register, Promise!Next
    <2>2. CASE Consume
        BY <2>2, ConsumeReleases DEF Consume, Promise!Next
    <2>3. CASE Sweep
        BY <2>3, SweepLapses DEF Promise!Next
    <2>4. CASE Tick
        <3>1. now' = now + 1 /\ Kept' = Kept
            BY <2>4 DEF Tick, Advance, Kept
        <3> QED
            BY <3>1 DEF Promise!Pass, Promise!Next
    <2>5. CASE UNCHANGED vars
        BY <2>5 DEF vars, Kept
    <2> QED
        BY <2>1, <2>2, <2>3, <2>4, <2>5 DEF Next
<1> QED
    BY <1>1, <1>2, SpecIInv, PTL DEF Spec, Promise!Spec, KeepsDeadlines

(***************************************************************************)
(* A lookup (Entry, button_tracker.go:144-163) answers as the promise says: *)
(* with the messages that are not due, and their data.                      *)
(***************************************************************************)
THEOREM TrackerAnswersAsPromised ==
    Spec => [](\A ref \in Refs :
                  /\ Live(ref) <=> Promise!Hit(ref)
                  /\ Live(ref) => Kept[ref].data = EntryOf(order, ref).value)
<1>1. IInv => \A ref \in Refs :
                 /\ Live(ref) <=> Promise!Hit(ref)
                 /\ Live(ref) => Kept[ref].data = EntryOf(order, ref).value
    BY KeptIs DEF Live, Expired, Promise!Hit, Promise!Due, Promise!Tracked
<1> QED
    BY <1>1, SpecIInv, PTL
=============================================================================
