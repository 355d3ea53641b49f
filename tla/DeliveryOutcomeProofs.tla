------------------------ MODULE DeliveryOutcomeProofs ------------------------
(***************************************************************************)
(* What the webhook path promises of its outcome, for every number of       *)
(* requests, sinks, targets, notes and parts: nothing confirmed is sent     *)
(* twice, nothing is lost in silence, the answer says what happened, and    *)
(* the message log holds only what landed and was not rewritten.            *)
(***************************************************************************)
EXTENDS DeliveryProofs, FiniteSetTheorems

-----------------------------------------------------------------------------
(* Sums over the sinks. *)

\* A set of subsets of a finite set has a minimal one.
LEMMA MinimalSubset ==
    ASSUME NEW S, IsFiniteSet(S), NEW T, T \subseteq SUBSET S, T # {}
    PROVE  \E t \in T : \A u \in T : u \subseteq t => u = t
<1> DEFINE R == StrictSubsetOrdering(S)
<1>1. IsWellFoundedOn(R, SUBSET S)
    BY FS_StrictSubsetOrderingWellFounded, FS_FiniteSubsetsOfFinite
<1> HIDE DEF R
<1>2. PICK t \in T : \A u \in T : <<u, t>> \notin R
    BY <1>1, WFMin
<1>3. ASSUME NEW u \in T, u \subseteq t
      PROVE  u = t
    <2>1. <<u, t>> \in (SUBSET S) \X (SUBSET S)
        OBVIOUS
    <2>2. <<u, t>> \notin R
        BY <1>2
    <2> QED
        BY <1>3, <2>1, <2>2 DEF R, StrictSubsetOrdering
<1> QED
    BY <1>2, <1>3

Picked(s) == CHOOSE x \in s : TRUE

\* One step of the sum over s, given the sums over smaller sets.
SumStep(f, s, sums) == IF s = {} THEN 0 ELSE f[Picked(s)] + sums[s \ {Picked(s)}]

\* The function that SumFunction(f) computes, on the subsets of S.
Sums(f, S, sums) == sums = [s \in SUBSET S |-> SumStep(f, s, sums)]

LEMMA PickedIn == \A s : s # {} => Picked(s) \in s
BY DEF Picked

LEMMA SumsAgree ==
    ASSUME NEW f, NEW S, IsFiniteSet(S), NEW U, NEW g, NEW h,
           Sums(f, S, g), Sums(f, U, h), NEW s \in SUBSET S, s \subseteq U
    PROVE  g[s] = h[s]
<1> DEFINE T == {t \in SUBSET S : t \subseteq U /\ g[t] # h[t]}
<1> SUFFICES ASSUME T # {}
             PROVE  FALSE
    OBVIOUS
<1>0. T \subseteq SUBSET S
    OBVIOUS
<1> HIDE DEF T
<1>1. PICK t \in T : \A u \in T : u \subseteq t => u = t
    BY <1>0, MinimalSubset
<1> USE DEF T
<1> DEFINE u == t \ {Picked(t)}
<1>2. g[t] = SumStep(f, t, g) /\ h[t] = SumStep(f, t, h)
    BY DEF Sums
<1>3. t # {}
    BY <1>2 DEF SumStep
<1>4. u # t /\ u \subseteq t
    BY <1>3, PickedIn
<1>5. g[u] = h[u]
    BY <1>1, <1>4
<1> QED
    BY <1>2, <1>5 DEF SumStep

LEMMA SumsExist ==
    ASSUME NEW f, NEW S, IsFiniteSet(S)
    PROVE  \E g : Sums(f, S, g)
<1> DEFINE T == {t \in SUBSET S : ~ \E g : Sums(f, t, g)}
<1> SUFFICES ASSUME T # {}
             PROVE  FALSE
    OBVIOUS
<1>0. T \subseteq SUBSET S
    OBVIOUS
<1> HIDE DEF T
<1>1. PICK t \in T : \A u \in T : u \subseteq t => u = t
    BY <1>0, MinimalSubset
<1> USE DEF T
<1> DEFINE G(u) == CHOOSE g : Sums(f, u, g)
           rest(s) == s \ {Picked(s)}
           H == [s \in SUBSET t |-> SumStep(f, s, G(rest(s)))]
<1>2. ASSUME NEW u, u \subseteq t, u # t
      PROVE  Sums(f, u, G(u)) /\ IsFiniteSet(u)
    <2>1. u \notin T /\ u \in SUBSET S
        BY <1>1, <1>2
    <2>2. \E g : Sums(f, u, g)
        BY <2>1
    <2>3. IsFiniteSet(u)
        BY <2>1, FS_Subset
    <2> QED
        BY <2>2, <2>3
<1>3. ASSUME NEW s \in SUBSET t, s # {}
      PROVE  H[rest(s)] = G(rest(s))[rest(s)]
    <2> DEFINE u == rest(s)
               v == rest(u)
    <2>1. u \subseteq t /\ u # t
        BY <1>3, PickedIn
    <2>2. v \subseteq u
        OBVIOUS
    <2>3. v \subseteq t /\ v # t
        BY <2>1, <2>2
    <2>4. Sums(f, u, G(u)) /\ Sums(f, v, G(v)) /\ IsFiniteSet(u)
        BY <1>2, <2>1, <2>3
    <2>5. G(u)[v] = G(v)[v]
        <3> DEFINE g == G(u)
                   h == G(v)
        <3>1. Sums(f, u, g) /\ Sums(f, v, h) /\ v \in SUBSET u /\ v \subseteq v
            BY <2>2, <2>4
        <3> HIDE DEF g, h, u, v
        <3>2. g[v] = h[v]
            BY <2>4, <3>1, SumsAgree
        <3> QED
            BY <3>2 DEF g, h
    <2> HIDE DEF G
    <2>6. G(u)[u] = SumStep(f, u, G(u))
        BY <2>4 DEF Sums
    <2>7. H[u] = SumStep(f, u, G(v))
        BY <2>1
    <2> HIDE DEF H
    <2> QED
        BY <2>5, <2>6, <2>7 DEF SumStep
<1> HIDE DEF G
<1>4. ASSUME NEW s \in SUBSET t
      PROVE  H[s] = SumStep(f, s, H)
    <2>1. H[s] = SumStep(f, s, G(rest(s)))
        OBVIOUS
    <2> HIDE DEF H
    <2> QED
        BY <1>3, <2>1 DEF SumStep
<1>5. Sums(f, t, H)
    <2>1. H = [s \in SUBSET t |-> H[s]]
        OBVIOUS
    <2> HIDE DEF H
    <2> QED
        BY <1>4, <2>1 DEF Sums
<1> QED
    BY <1>1, <1>5

\* SumFunction is defined by a recursive function: over a finite set it exists.
LEMMA SumIs ==
    ASSUME NEW S, IsFiniteSet(S), NEW f, DOMAIN f = S
    PROVE \E g : Sums(f, S, g) /\ SumFunction(f) = g[S]
<1> DEFINE iter == CHOOSE g : Sums(f, S, g)
<1>1. Sums(f, S, iter)
    BY SumsExist
<1>2. SumFunction(f) = iter[S]
    BY DEF SumFunction, SumFunctionOnSet, FoldFunctionOnSet, MapThenFoldSet, Sums, SumStep, Picked
<1> QED
    BY <1>1, <1>2

\* The sum of natural numbers is zero just when all are; sums keep the order of
\* their terms, and two sums in that order are equal only term by term.
LEMMA SumsCompare ==
    ASSUME NEW S, IsFiniteSet(S), NEW e \in [S -> Nat], NEW f \in [S -> Nat],
           \A x \in S : e[x] <= f[x]
    PROVE  /\ SumFunction(e) \in Nat /\ SumFunction(f) \in Nat
           /\ SumFunction(e) <= SumFunction(f)
           /\ SumFunction(e) = SumFunction(f) => e = f
           /\ SumFunction(f) = 0 => \A x \in S : f[x] = 0
<1>1. PICK g : Sums(e, S, g) /\ SumFunction(e) = g[S]
    BY SumIs
<1>2. PICK h : Sums(f, S, h) /\ SumFunction(f) = h[S]
    BY SumIs
<1> DEFINE Fine(s) == /\ g[s] \in Nat /\ h[s] \in Nat /\ g[s] <= h[s]
                      /\ g[s] = h[s] => \A x \in s : e[x] = f[x]
                      /\ h[s] = 0 => \A x \in s : f[x] = 0
           T == {s \in SUBSET S : ~Fine(s)}
<1>3. T = {}
    <2> SUFFICES ASSUME T # {}
                 PROVE  FALSE
        OBVIOUS
    <2>0. T \subseteq SUBSET S
        OBVIOUS
    <2> HIDE DEF T
    <2>1. PICK t \in T : \A u \in T : u \subseteq t => u = t
        BY <2>0, MinimalSubset
    <2> USE DEF T
    <2> DEFINE x == Picked(t)
               u == t \ {x}
    <2>2. g[t] = SumStep(e, t, g) /\ h[t] = SumStep(f, t, h)
        BY <1>1, <1>2 DEF Sums
    <2>3. CASE t = {}
        BY <2>1, <2>2, <2>3 DEF SumStep
    <2>4. CASE t # {}
        <3>1. x \in t /\ x \in S /\ u \subseteq t /\ u # t
            BY <2>4, PickedIn
        <3>2. Fine(u)
            BY <2>1, <3>1
        <3>3. g[t] = e[x] + g[u] /\ h[t] = f[x] + h[u]
            BY <2>2, <2>4 DEF SumStep
        <3>4. e[x] \in Nat /\ f[x] \in Nat /\ e[x] <= f[x]
            BY <3>1
        <3>5. /\ g[t] \in Nat /\ h[t] \in Nat /\ g[t] <= h[t]
              /\ g[t] = h[t] => e[x] = f[x] /\ g[u] = h[u]
              /\ h[t] = 0 => f[x] = 0 /\ h[u] = 0
            BY <3>2, <3>3, <3>4
        <3>6. \A y \in t : y = x \/ y \in u
            OBVIOUS
        <3>7. Fine(t)
            BY <3>2, <3>5, <3>6
        <3> QED
            BY <2>1, <3>7
    <2> QED
        BY <2>3, <2>4
<1>4. Fine(S)
    BY <1>3
<1> QED
    BY <1>1, <1>2, <1>4
-----------------------------------------------------------------------------
(* What the operations of the message log do to what it carries. *)

\* The list links incident k to message m.
Carries(list, k, m) ==
    \E e \in EntriesOf(list) : e.key = k /\ \E j \in DOMAIN e.msgs : e.msgs[j] = m

LEMMA CarriesKey ==
    ASSUME NEW list, NEW k, NEW m, Carries(list, k, m)
    PROVE  k \in KeysOf(list)
BY DEF Carries, EntriesOf, KeysOf

LEMMA CarriedLinks ==
    ASSUME NEW i \in DOMAIN links, NEW j \in DOMAIN links[i].msgs
    PROVE  Carries(links, links[i].key, links[i].msgs[j])
BY DEF Carries, EntriesOf

LEMMA HitCarries ==
    ASSUME LogInv, NEW k, NEW msgs, LogHit(k, msgs), NEW j \in DOMAIN msgs
    PROVE  Carries(links, k, msgs[j])
<1>1. /\ links \in Seq(LinkEntry) /\ KeysDistinct(links) /\ k \in KeysOf(links)
      /\ msgs = EntryOf(links, k).msgs
    BY DEF LogHit, LinkLive, LogInv, LogTypeOK, Sound
<1> QED
    BY <1>1, EntryOfKey DEF Carries

LEMMA DeleteCarries ==
    ASSUME LogInv, NEW k, LogDelete(k), NEW k1, NEW m1, Carries(links', k1, m1)
    PROVE  Carries(links, k1, m1) /\ k1 # k
<1>1. links \in Seq(LinkEntry) /\ KeysDistinct(links) /\ linked = KeysOf(links)
    BY DEF LogInv, LogTypeOK, Sound
<1>2. CASE k \in linked
    <2>1. links' = Without(links, k)
        BY <1>2 DEF LogDelete
    <2>2. EntriesOf(links') \subseteq EntriesOf(links)
        BY <1>1, <1>2, <2>1, EntriesOfOperations
    <2>3. KeysOf(links') = KeysOf(links) \ {k}
        BY <1>1, <1>2, <2>1, WithoutKeys
    <2> QED
        BY <2>2, <2>3, CarriesKey DEF Carries
<1>3. CASE k \notin linked
    <2>1. links' = links
        BY <1>3 DEF LogDelete, logVars
    <2> QED
        BY <1>1, <1>3, <2>1, CarriesKey
<1> QED
    BY <1>2, <1>3

LEMMA MissCarries ==
    ASSUME LogInv, NEW k, LogMiss(k), NEW k1, NEW m1, Carries(links', k1, m1)
    PROVE  Carries(links, k1, m1)
BY DeleteCarries DEF LogMiss

\* The messages kept when one more is added: old ones and the new one.
LEMMA LatestOf ==
    ASSUME NEW msgs \in Seq(Messages), NEW m \in Messages,
           NEW j \in DOMAIN Latest(Append(msgs, m))
    PROVE  \/ Latest(Append(msgs, m))[j] = m
           \/ \E i \in DOMAIN msgs : Latest(Append(msgs, m))[j] = msgs[i]
<1> DEFINE more == Append(msgs, m)
           n == Surplus(more, MaxPerAlert)
<1>1. /\ more \in Seq(Messages) /\ Len(more) = Len(msgs) + 1 /\ Len(msgs) \in Nat
      /\ \A i \in 1 .. Len(msgs) : more[i] = msgs[i]
      /\ more[Len(msgs) + 1] = m
      /\ DOMAIN msgs = 1 .. Len(msgs)
    BY AppendProperties, LenProperties
<1> HIDE DEF more
<1>2. n \in 0 .. Len(more)
    <2>1. MaxPerAlert \in Int
        BY LogAssumption
    <2> QED
        BY <1>1, <2>1, SurplusBound
<1> HIDE DEF n
<1>3. /\ AfterN(more, n) \in Seq(Messages) /\ Len(AfterN(more, n)) = Len(more) - n
      /\ \A i \in 1 .. Len(more) - n : AfterN(more, n)[i] = more[n + i]
    BY <1>1, <1>2, AfterNElements
<1>4. Latest(more) = AfterN(more, n)
    BY DEF Latest, n
<1>5. j \in 1 .. Len(more) - n
    <2>1. j \in DOMAIN AfterN(more, n)
        BY <1>4 DEF more
    <2> QED
        BY <1>3, <2>1, LenProperties
<1>6. Latest(more)[j] = more[n + j] /\ n + j \in 1 .. Len(msgs) + 1
    BY <1>1, <1>2, <1>3, <1>4, <1>5
<1> QED
    BY <1>1, <1>6 DEF more

LEMMA AddCarries ==
    ASSUME LogInv, NEW k \in LinkKeys, NEW m \in Messages, LogAdd(k, m),
           NEW k1, NEW m1, Carries(links', k1, m1)
    PROVE  Carries(links, k1, m1) \/ (k1 = k /\ m1 = m)
<1>1. PICK n \in 0 .. Len(links) :
        LET pruned == AfterN(links, n)
            left == linked \ KeysOf(FirstN(links, n))
        IN \/ /\ k \in left
              /\ LET msgs == Append(EntryOf(pruned, k).msgs, m)
                 IN links' = Append(Without(pruned, k), LinkTo(k, Latest(msgs)))
           \/ /\ k \notin left
              /\ LET grown == Append(pruned, LinkTo(k, <<m>>))
                 IN links' = AfterN(grown, Surplus(grown, LinkMax))
    BY DEF LogAdd
<1> DEFINE pruned == AfterN(links, n)
           left == linked \ KeysOf(FirstN(links, n))
<1>2. /\ links \in Seq(LinkEntry) /\ linked = KeysOf(links) /\ KeysDistinct(links)
      /\ Capped(links) /\ now \in Nat
    BY DEF LogInv, LogTypeOK, Sound, Capped
<1>3. /\ pruned \in Seq(LinkEntry) /\ KeysOf(pruned) = left /\ KeysDistinct(pruned)
      /\ EntriesOf(pruned) \subseteq EntriesOf(links)
    BY <1>2, AfterNElements, AfterNKeys, EntriesOfOperations
<1>4. \A msgs \in Seq(Messages) :
        /\ LinkTo(k, msgs) \in LinkEntry
        /\ LinkTo(k, msgs).key = k /\ LinkTo(k, msgs).msgs = msgs
    BY <1>2, LogAssumption DEF LinkTo, LinkEntry
<1> HIDE DEF pruned, left
<1>5. PICK e \in EntriesOf(links') : e.key = k1 /\ \E j \in DOMAIN e.msgs : e.msgs[j] = m1
    BY DEF Carries
<1>6. CASE k \in left
    <2> DEFINE old == EntryOf(pruned, k)
               msgs == Latest(Append(old.msgs, m))
               rest == Without(pruned, k)
               new == LinkTo(k, msgs)
    <2>1. links' = Append(rest, new)
        BY <1>1, <1>6 DEF pruned, left
    <2>2. old \in EntriesOf(pruned) /\ old.key = k /\ old \in LinkEntry
        BY <1>3, <1>6, EntryOfKey
    <2>3. old.msgs \in Seq(Messages) /\ Len(old.msgs) \in 0 .. MaxPerAlert
        <3>1. old \in EntriesOf(links)
            BY <1>3, <2>2
        <3> QED
            BY <1>2, <2>2, <3>1 DEF EntriesOf, Capped, LinkEntry
    <2>4. msgs \in Seq(Messages)
        BY <2>3, LatestMessages
    <2>5. new \in LinkEntry /\ new.key = k /\ new.msgs = msgs
        BY <1>4, <2>4
    <2>6. rest \in Seq(LinkEntry) /\ EntriesOf(rest) \subseteq EntriesOf(pruned)
        BY <1>3, <1>6, WithoutElements, EntriesOfOperations
    <2> HIDE DEF old, rest, new
    <2>7. e \in EntriesOf(rest) \cup {new}
        BY <1>5, <2>1, <2>5, <2>6, EntriesOfOperations
    <2>8. CASE e = new
        <3>1. PICK j \in DOMAIN msgs : msgs[j] = m1
            BY <1>5, <2>5, <2>8
        <3>2. msgs[j] = m \/ \E i \in DOMAIN old.msgs : msgs[j] = old.msgs[i]
            <4> DEFINE had == old.msgs
            <4>1. had \in Seq(Messages) /\ j \in DOMAIN Latest(Append(had, m))
                BY <2>3
            <4> HIDE DEF had
            <4>2. \/ Latest(Append(had, m))[j] = m
                  \/ \E i \in DOMAIN had : Latest(Append(had, m))[j] = had[i]
                BY <4>1, LatestOf
            <4> QED
                BY <4>2 DEF had
        <3> QED
            BY <1>3, <1>5, <2>2, <2>5, <2>8, <3>1, <3>2 DEF Carries
    <2>9. CASE e # new
        BY <1>3, <1>5, <2>6, <2>7, <2>9 DEF Carries
    <2> QED
        BY <2>8, <2>9
<1>7. CASE k \notin left
    <2> DEFINE new == LinkTo(k, <<m>>)
               grown == Append(pruned, new)
               over == Surplus(grown, LinkMax)
    <2>1. links' = AfterN(grown, over)
        BY <1>1, <1>7 DEF pruned, left
    <2>2. new \in LinkEntry /\ new.key = k /\ new.msgs = <<m>>
        <3>1. <<m>> \in Seq(Messages)
            OBVIOUS
        <3> QED
            BY <1>4, <3>1
    <2> HIDE DEF new
    <2>3. grown \in Seq(LinkEntry) /\ EntriesOf(grown) = EntriesOf(pruned) \cup {new}
        BY <1>3, <2>2, AppendProperties, EntriesOfOperations
    <2> HIDE DEF grown
    <2>4. over \in 0 .. Len(grown)
        BY <2>3, SurplusBound, LogAssumption
    <2>5. e \in EntriesOf(grown)
        BY <1>5, <2>1, <2>3, <2>4, EntriesOfOperations
    <2>6. CASE e = new
        BY <1>5, <2>2, <2>6
    <2>7. CASE e # new
        BY <1>3, <1>5, <2>3, <2>5, <2>7 DEF Carries
    <2> QED
        BY <2>6, <2>7
<1> QED
    BY <1>6, <1>7

\* A live link that an addition evicts makes room for an incident the log did
\* not know: an expired one that is linked anew leaves its own place.
LEMMA AddEvicts ==
    ASSUME LogInv, NEW k \in LinkKeys, NEW m \in Messages, LogAdd(k, m),
           NEW k1, LinkLive(k1), k1 \notin linked'
    PROVE  linked' \ linked # {}
<1>1. PICK n \in 0 .. Len(links) :
        /\ WalkRemoves(links, n, now)
        /\ LET pruned == AfterN(links, n)
               left == linked \ KeysOf(FirstN(links, n))
           IN \/ linked' = left
              \/ /\ k \notin left
                 /\ LET grown == Append(pruned, LinkTo(k, <<m>>))
                    IN linked' = (left \cup {k}) \ KeysOf(FirstN(grown, Surplus(grown, LinkMax)))
    BY DEF LogAdd
<1> DEFINE pruned == AfterN(links, n)
           left == linked \ KeysOf(FirstN(links, n))
           new == LinkTo(k, <<m>>)
           grown == Append(pruned, new)
           over == Surplus(grown, LinkMax)
<1>2. /\ links \in Seq(LinkEntry) /\ linked = KeysOf(links) /\ KeysDistinct(links)
      /\ Len(links) \in Nat /\ DOMAIN links = 1 .. Len(links) /\ LinkMax \in Int
      /\ LinkMax > 0 => Len(links) <= LinkMax
    BY LogAssumption, LenProperties DEF LogInv, LogTypeOK, Sound
<1>3. /\ pruned \in Seq(LinkEntry) /\ Len(pruned) = Len(links) - n
      /\ DOMAIN FirstN(links, n) = 1 .. n
      /\ \A i \in 1 .. n : FirstN(links, n)[i] = links[i]
      /\ KeysOf(pruned) = left
    <2>1. /\ pruned \in Seq(LinkEntry) /\ Len(pruned) = Len(links) - n
          /\ FirstN(links, n) \in Seq(LinkEntry) /\ Len(FirstN(links, n)) = n
          /\ \A i \in 1 .. n : FirstN(links, n)[i] = links[i]
        BY <1>2, AfterNElements
    <2>2. KeysOf(pruned) = left
        BY <1>2, AfterNKeys
    <2>3. DOMAIN FirstN(links, n) = 1 .. n
        BY <2>1, LenProperties
    <2> QED
        BY <2>1, <2>2, <2>3
<1>4. k1 \in left
    <2>1. ASSUME NEW i \in 1 .. n, links[i].key = k1
          PROVE  FALSE
        <3>1. EntryOf(links, k1) = links[i]
            BY <1>2, <2>1, EntryOfElement
        <3> QED
            BY <1>1, <3>1 DEF LinkLive, WalkRemoves
    <2>2. k1 \notin KeysOf(FirstN(links, n))
        <3> DEFINE front == FirstN(links, n)
        <3>1. DOMAIN front = 1 .. n /\ \A i \in 1 .. n : front[i] = links[i]
            BY <1>3
        <3> HIDE DEF front
        <3>2. k1 \notin KeysOf(front)
            BY <2>1, <3>1 DEF KeysOf
        <3> QED
            BY <3>2 DEF front
    <2> QED
        BY <2>2 DEF LinkLive
<1>5. k \notin left /\ linked' = (left \cup {k}) \ KeysOf(FirstN(grown, over))
    BY <1>1, <1>4
<1>6. /\ grown \in Seq(LinkEntry) /\ Len(grown) = Len(pruned) + 1
      /\ \A i \in 1 .. Len(pruned) : grown[i] = pruned[i]
    <2>1. <<m>> \in Seq(Messages)
        OBVIOUS
    <2>2. new \in LinkEntry
        BY <2>1, LogAssumption DEF LinkTo, LinkEntry, LogInv
    <2> HIDE DEF new, pruned
    <2> QED
        BY <1>3, <2>2, AppendProperties
<1> HIDE DEF grown
<1>7. /\ over \in 0 .. Len(grown) /\ over \in Nat
      /\ over = IF LinkMax > 0 /\ Len(grown) > LinkMax THEN Len(grown) - LinkMax ELSE 0
    BY <1>2, <1>6, SurplusBound DEF Surplus
<1> HIDE DEF over
<1>8. /\ \A i \in 1 .. over : FirstN(grown, over)[i] = grown[i]
      /\ DOMAIN FirstN(grown, over) = 1 .. over
    <2>1. /\ FirstN(grown, over) \in Seq(LinkEntry) /\ Len(FirstN(grown, over)) = over
          /\ \A i \in 1 .. over : FirstN(grown, over)[i] = grown[i]
        BY <1>6, <1>7, AfterNElements
    <2> QED
        BY <2>1, LenProperties
<1>9. k \in linked'
    <2>1. Len(pruned) \in Nat /\ over <= Len(pruned)
        BY <1>2, <1>3, <1>6, <1>7
    <2>2. DOMAIN pruned = 1 .. Len(pruned)
        BY <1>3, LenProperties
    <2> HIDE DEF pruned, left
    <2>3. ASSUME NEW i \in 1 .. over
          PROVE  FirstN(grown, over)[i].key # k
        <3>1. i \in 1 .. Len(pruned)
            BY <1>7, <2>1
        <3>2. FirstN(grown, over)[i] = pruned[i]
            BY <1>6, <1>8, <3>1
        <3>3. pruned[i].key \in left
            BY <1>3, <2>2, <3>1 DEF KeysOf
        <3> QED
            BY <1>5, <3>2, <3>3
    <2> QED
        BY <1>5, <1>8, <2>3 DEF KeysOf
<1>10. k \notin linked
    <2> SUFFICES ASSUME k \in linked
                 PROVE  FALSE
        OBVIOUS
    <2>1. n >= 1
        <3> DEFINE front == FirstN(links, n)
        <3>1. k \in KeysOf(front) /\ DOMAIN front = 1 .. n
            BY <1>3, <1>5
        <3> HIDE DEF front
        <3>2. 1 .. n # {}
            BY <3>1 DEF KeysOf
        <3> QED
            BY <3>2
    <2>2. over = 0
        BY <1>2, <1>3, <1>6, <1>7, <2>1
    <2>3. KeysOf(FirstN(grown, over)) = {}
        BY <1>8, <2>2 DEF KeysOf
    <2> QED
        BY <1>4, <1>5, <2>3
<1> QED
    BY <1>9, <1>10
-----------------------------------------------------------------------------
(* What a goroutine knows of its target. *)

Running(r) == req[r].state = "running"

SnapOf(w) == {w.at.snap[i] : i \in DOMAIN w.at.snap}

\* The locals w of a busy goroutine fit the place it is at.
Fitting(r, s, w) ==
    /\ w.at.part # 0
    /\ w.at.bad => w.err > 0
    /\ w.pc \in {"lookup", "rewrite"} \/ w.at.form = "reply" =>
            NoteOf(r, s).status = "resolved" /\ Linkable(r, s)
    /\ w.pc = "lookup" => w.at = Clean
    /\ w.pc = "rewrite" /\ mode = "edit" => ~w.at.any
    /\ w.pc \in {"send", "link"} => w.at.edited = 0
    /\ w.pc = "link" => NoteOf(r, s).status = "firing" /\ Linkable(r, s) /\ ~w.at.bad
    /\ w.at.form = "reply" => mode = "reply" /\ w.at.part = 1
    /\ w.pc = "rewrite" /\ mode = "reply" => w.at.form = "reply"

\* The parts it counts as landed are in the chat.
Borne(r, s, w, confirmed) ==
    /\ w.at.form = "reply" /\ w.at.any => Landing(r, s, 1) \in confirmed
    /\ w.pc = "send" /\ ~w.at.bad =>
            \A p \in 1 .. w.at.part - 1 : Landing(r, s, p) \in confirmed
    /\ w.pc = "link" => \A p \in 1 .. PartsOf["firing"] : Landing(r, s, p) \in confirmed

Progress ==
    \A r \in Requests, s \in Sinks : Busy(r, s) =>
        Fitting(r, s, work[r][s]) /\ Borne(r, s, work[r][s], chat)

-----------------------------------------------------------------------------
(* What a step of goroutine s of request r, to the locals w, does: first     *)
(* where it goes.                                                            *)

Stepped(r, s, w) ==
    /\ Running(r)
    /\ work'[r][s] = w
    /\ w \in Locals
    /\ \A q \in Requests, x \in Sinks : q # r \/ x # s => work'[q][x] = work[q][x]
    /\ now' = now /\ mode' = mode /\ req' = req

SameTarget(r, s, w) ==
    w.ni = work[r][s].ni /\ w.ti = work[r][s].ti /\ w.got = work[r][s].got

NextTarget(r, s, w, outcome) ==
    /\ w.pc = "next" /\ w.at = Clean /\ w.cut = work[r][s].cut
    /\ w.got = work[r][s].got \cup
            {[note |-> work[r][s].ni, target |-> TargetOf(r, s), as |-> outcome]}
    /\ IF work[r][s].ti = Len(TargetsOf[s])
       THEN w.ti = 1 /\ w.ni = work[r][s].ni + 1
       ELSE w.ti = work[r][s].ti + 1 /\ w.ni = work[r][s].ni

\* A busy goroutine leaves its target: something landed, or the reservation
\* goes back, with an error or at the end of the budget.
Leaves(r, s, w) ==
    \/ seen' = seen /\ (Busy(r, s) => Landed(chat', KeyNow(r, s), work[r][s].since))
    \/ /\ Busy(r, s) /\ Forget(KeyNow(r, s)) /\ chat' = chat
       /\ ~Promising(mode, work[r][s])
       /\ w.err > 0 \/ w.cut

Stops(r, s, w) ==
    /\ w.pc = "done" /\ w.at = Clean /\ SameTarget(r, s, w)
    /\ w.cut \/ (~Busy(r, s) /\ w.ni > Len(req[r].payload) /\ w.cut = work[r][s].cut)
    /\ Leaves(r, s, w)

GivesUp(r, s, w) ==
    /\ ~Busy(r, s) /\ seen' = seen
    /\ w.pc = "next" /\ w.at = Clean /\ w.err > 0 /\ w.cut = work[r][s].cut
    /\ w.got = work[r][s].got

Skips(r, s, w) ==
    /\ ~Busy(r, s) /\ InLoop(r, s) /\ seen' = seen
    /\ Suppressed(KeyNow(r, s))
    /\ NextTarget(r, s, w, "skipped")

Starts(r, s, w) ==
    /\ ~Busy(r, s) /\ InLoop(r, s)
    /\ Reserve(KeyNow(r, s))
    /\ w.pc \in {"lookup", "send"} /\ w.at = Clean /\ w.since = now
    /\ SameTarget(r, s, w) /\ w.cut = work[r][s].cut

Proceeds(r, s, w) ==
    /\ Busy(r, s) /\ w.pc \in Holding /\ seen' = seen
    /\ SameTarget(r, s, w) /\ w.cut = work[r][s].cut /\ w.since = work[r][s].since
    /\ Promising(mode, work[r][s]) => Promising(mode, w)

Good == {"landed", "edited", "skipped"}

Settles(r, s, w) ==
    \E outcome \in {"landed", "edited", "partial", "failed"} :
        /\ Busy(r, s)
        /\ NextTarget(r, s, w, outcome)
        /\ Leaves(r, s, w)
        /\ outcome \in Good \/ w.err > 0
        /\ outcome \in Good => Landed(chat', KeyNow(r, s), work[r][s].since)

Goes(r, s, w) ==
    \/ Stops(r, s, w) \/ GivesUp(r, s, w) \/ Skips(r, s, w)
    \/ Starts(r, s, w) \/ Proceeds(r, s, w) \/ Settles(r, s, w)

-----------------------------------------------------------------------------
(* Then what it changes: the chat, its counts, and what is known of          *)
(* messages.                                                                 *)

Gained(w) == w.err < w.att

\* In mode edit a rewrite counts as an attempt when it ends.
Pending(w) == w.pc = "rewrite" /\ mode = "edit" /\ w.at.edited > 0

Confirms(r, s, w) ==
    \/ chat' = chat
    \/ /\ Busy(r, s) /\ seen' = seen
       /\ w.pc \in Holding => Promising(mode, w)
       /\ Gained(w) \/ Pending(w)
       /\ \E p \in Nat : chat' = chat \cup {Landing(r, s, p)}

Counts(r, s, w) ==
    /\ work[r][s].err <= w.err
    /\ Gained(work[r][s]) \/ Pending(work[r][s]) => Gained(w) \/ Pending(w)
    /\ Gained(w) => \/ Gained(work[r][s])
                    \/ Pending(work[r][s])
                    \/ \E p \in Nat : Landing(r, s, p) \in chat'

\* Messages become known by being linked, and only then.
Knows(r, s, w) ==
    /\ \A k, m : Carries(links', k, m) =>
            \/ Carries(links, k, m)
            \/ /\ work[r][s].pc = "link" /\ w.pc \notin Holding
               /\ k = LinkKeyNow(r, s) /\ m = MessageNow(r, s)
    /\ \A m \in SnapOf(w) : m \in SnapOf(work[r][s]) \/ Carries(links, LinkKeyNow(r, s), m)
    /\ \A m \in rewritten' \ rewritten :
            m \in SnapOf(work[r][s]) /\ w.pc = "rewrite" /\ w.at.edited > 0

\* A rewrite that shows in the chat takes its link along.
Unlinks(r, s, w) ==
    work[r][s].pc = "rewrite" =>
        IF w.pc = "rewrite"
        THEN w.at.edited >= work[r][s].at.edited
        ELSE \/ \A m : ~Carries(links', LinkKeyNow(r, s), m)
             \/ mode = "edit" /\ work[r][s].at.edited = 0

Step(r, s, w) ==
    /\ Stepped(r, s, w)
    /\ Goes(r, s, w)
    /\ w.pc \in Holding => Fitting(r, s, w) /\ Borne(r, s, w, chat')
    /\ Confirms(r, s, w)
    /\ Counts(r, s, w)
    /\ Knows(r, s, w)
    /\ Unlinks(r, s, w)
-----------------------------------------------------------------------------
(* Every step of a goroutine is such a step. *)

LEMMA GoroutineStepped ==
    ASSUME IInv, IInv', NEW r \in Requests, NEW s \in Sinks, Running(r),
           NEW w, Goroutine(r, s, w), UNCHANGED <<now, mode, req>>
    PROVE  Stepped(r, s, w)
<1>1. /\ work \in [Requests -> [Sinks -> Locals]] /\ work' \in [Requests -> [Sinks -> Locals]]
      /\ work' = [work EXCEPT ![r][s] = w]
    BY DEF IInv, TypeOK, Goroutine
<1>2. work'[r][s] = w
    BY <1>1
<1>3. \A q \in Requests, x \in Sinks : q # r \/ x # s => work'[q][x] = work[q][x]
    BY <1>1
<1> QED
    BY <1>1, <1>2, <1>3 DEF Stepped

LEMMA CleanSnap ==
    ASSUME NEW w, w.at = Clean
    PROVE  SnapOf(w) = {} /\ Clean.part = 1 /\ ~Clean.any /\ ~Clean.bad
                          /\ Clean.form = "new" /\ Clean.edited = 0
BY DEF SnapOf, Clean

\* A step that leaves the log and the rewritten messages alone.
LEMMA NothingKnown ==
    ASSUME NEW r, NEW s, NEW w, UNCHANGED <<logVars, rewritten>>,
           SnapOf(w) \subseteq SnapOf(work[r][s])
    PROVE  Knows(r, s, w)
BY DEF Knows, logVars

LEMMA NothingCounted ==
    ASSUME NEW r \in Requests, NEW s \in Sinks, NEW w, work[r][s] \in Locals,
           w.err = work[r][s].err, w.att = work[r][s].att,
           Pending(work[r][s]) => Pending(w)
    PROVE  Counts(r, s, w)
BY DEF Counts, Gained, Locals

\* A goroutine between targets takes a step that sends nothing.
LEMMA IdleStep ==
    ASSUME IInv, IInv', NEW r \in Requests, NEW s \in Sinks, At(r, s, "next"),
           NEW w, Goroutine(r, s, w), UNCHANGED <<now, mode, req>>,
           UNCHANGED <<logVars, chat, rewritten>>, w.at = Clean,
           Goes(r, s, w), Counts(r, s, w),
           w.pc \in Holding => Fitting(r, s, w) /\ Borne(r, s, w, chat')
    PROVE  Step(r, s, work'[r][s])
<1>1. Running(r) /\ work[r][s].pc = "next"
    BY DEF At, Running
<1>2. Stepped(r, s, w)
    BY <1>1, GoroutineStepped
<1>3. Confirms(r, s, w)
    BY DEF Confirms
<1>4. Knows(r, s, w)
    BY CleanSnap, NothingKnown
<1>5. Unlinks(r, s, w)
    BY <1>1 DEF Unlinks
<1>6. work'[r][s] = w
    BY <1>2 DEF Stepped
<1> QED
    BY <1>2, <1>3, <1>4, <1>5, <1>6 DEF Step

\* u is the goroutine with what it counted last.
LEMMA SettledNext ==
    ASSUME NEW r, NEW s, NEW u \in Locals, NEW outcome,
           u.ni = work[r][s].ni, u.ti = work[r][s].ti, u.got = work[r][s].got,
           u.cut = work[r][s].cut
    PROVE  /\ NextTarget(r, s, Settled(r, s, u, outcome), outcome)
           /\ Settled(r, s, u, outcome).err = u.err
           /\ Settled(r, s, u, outcome).att = u.att
           /\ Settled(r, s, u, outcome).at = Clean
           /\ Settled(r, s, u, outcome).pc = "next"
<1> DEFINE v == Settled(r, s, u, outcome)
<1>1. /\ v.pc = "next" /\ v.at = Clean /\ v.cut = u.cut
      /\ v.err = u.err /\ v.att = u.att
      /\ v.got = u.got \cup {[note |-> u.ni, target |-> TargetOf(r, s), as |-> outcome]}
      /\ IF u.ti = Len(TargetsOf[s])
         THEN v.ti = 1 /\ v.ni = u.ni + 1
         ELSE v.ti = u.ti + 1 /\ v.ni = u.ni
    BY DEF Settled, Locals
<1> HIDE DEF v
<1>2. NextTarget(r, s, v, outcome)
    BY <1>1 DEF NextTarget
<1> QED
    BY <1>1, <1>2 DEF v

LEMMA StoppedFields ==
    ASSUME NEW w \in Locals
    PROVE  LET v == Stopped(w) IN
           /\ v.pc = "done" /\ v.at = Clean /\ v.cut
           /\ v.err = w.err /\ v.att = w.att
           /\ v.got = w.got /\ v.ni = w.ni /\ v.ti = w.ti
BY DEF Stopped, Locals

LEMMA EndOfNotesStep ==
    ASSUME IInv, IInv', NEW r \in Requests, NEW s \in Sinks, EndOfNotes(r, s),
           UNCHANGED <<now, mode, req>>
    PROVE  Step(r, s, work'[r][s])
<1> DEFINE old == work[r][s]
           w == [old EXCEPT !.pc = "done"]
<1>1. /\ At(r, s, "next") /\ Running(r) /\ old.pc = "next" /\ Goroutine(r, s, w)
      /\ old.ni > Len(req[r].payload)
      /\ UNCHANGED <<logVars, chat, rewritten>> /\ seen' = seen
    BY DEF EndOfNotes, At, Running
<1>2. old \in Locals /\ old.at = Clean
    BY <1>1, Here DEF Sensible, Running
<1>3. /\ w.pc = "done" /\ w.at = Clean /\ w.err = old.err /\ w.att = old.att
      /\ w.ni = old.ni /\ w.ti = old.ti /\ w.got = old.got /\ w.cut = old.cut
    BY <1>2 DEF Locals
<1> HIDE DEF w
<1>4. Stops(r, s, w)
    BY <1>1, <1>3 DEF Stops, SameTarget, Leaves, Busy, Holding
<1>5. Counts(r, s, w)
    BY <1>1, <1>2, <1>3, NothingCounted DEF Pending
<1> QED
    BY <1>1, <1>3, <1>4, <1>5, IdleStep DEF Goes, Holding

LEMMA OutOfBudgetStep ==
    ASSUME IInv, IInv', NEW r \in Requests, NEW s \in Sinks, OutOfBudget(r, s),
           UNCHANGED <<now, mode, req>>
    PROVE  Step(r, s, work'[r][s])
<1> DEFINE old == work[r][s]
           w == Stopped(old)
<1>1. /\ At(r, s, "next") /\ Running(r) /\ old.pc = "next" /\ Goroutine(r, s, w)
      /\ UNCHANGED <<logVars, chat, rewritten>> /\ seen' = seen
    BY DEF OutOfBudget, InLoop, At, Running
<1>2. old \in Locals
    BY <1>1, Here DEF Running
<1>3. /\ w.pc = "done" /\ w.at = Clean /\ w.err = old.err /\ w.att = old.att
      /\ w.ni = old.ni /\ w.ti = old.ti /\ w.got = old.got /\ w.cut
    BY <1>2, StoppedFields
<1> HIDE DEF w
<1>4. Stops(r, s, w)
    BY <1>1, <1>3 DEF Stops, SameTarget, Leaves, Busy, Holding
<1>5. Counts(r, s, w)
    BY <1>1, <1>2, <1>3, NothingCounted DEF Pending
<1> QED
    BY <1>1, <1>3, <1>4, <1>5, IdleStep DEF Goes, Holding

LEMMA RenderFailsStep ==
    ASSUME IInv, IInv', NEW r \in Requests, NEW s \in Sinks, RenderFails(r, s),
           UNCHANGED <<now, mode, req>>
    PROVE  Step(r, s, work'[r][s])
<1> DEFINE old == work[r][s]
           w == [old EXCEPT !.err = @ + 1, !.att = @ + 1, !.ni = @ + 1]
<1>1. /\ At(r, s, "next") /\ Running(r) /\ old.pc = "next" /\ Goroutine(r, s, w)
      /\ UNCHANGED <<logVars, chat, rewritten>> /\ seen' = seen
    BY DEF RenderFails, InLoop, At, Running
<1>2. old \in Locals /\ old.at = Clean
    BY <1>1, Here DEF Sensible, Running
<1>3. /\ w.pc = "next" /\ w.at = Clean /\ w.err = old.err + 1 /\ w.att = old.att + 1
      /\ w.got = old.got /\ w.cut = old.cut
    BY <1>1, <1>2 DEF Locals
<1> HIDE DEF w
<1>4. old.err \in Nat /\ old.att \in Nat
    BY <1>2 DEF Locals
<1>5. GivesUp(r, s, w)
    BY <1>1, <1>3, <1>4 DEF GivesUp, Busy, Holding
<1>6. Counts(r, s, w)
    BY <1>1, <1>3, <1>4 DEF Counts, Gained, Pending
<1> QED
    BY <1>1, <1>3, <1>5, <1>6, IdleStep DEF Goes, Holding

LEMMA SkipDuplicateStep ==
    ASSUME IInv, IInv', NEW r \in Requests, NEW s \in Sinks, SkipDuplicate(r, s),
           UNCHANGED <<now, mode, req>>
    PROVE  Step(r, s, work'[r][s])
<1> DEFINE old == work[r][s]
           w == Settled(r, s, old, "skipped")
<1>1. /\ At(r, s, "next") /\ InLoop(r, s) /\ Running(r) /\ old.pc = "next"
      /\ Goroutine(r, s, w) /\ Suppressed(KeyNow(r, s))
      /\ UNCHANGED <<logVars, chat, rewritten>> /\ seen' = seen
    BY DEF SkipDuplicate, InLoop, At, Running
<1>2. old \in Locals
    BY <1>1, Here DEF Running
<1>3. /\ NextTarget(r, s, w, "skipped")
      /\ w.pc = "next" /\ w.at = Clean /\ w.err = old.err /\ w.att = old.att
    BY <1>2, SettledNext
<1> HIDE DEF w
<1>4. Skips(r, s, w)
    BY <1>1, <1>3 DEF Skips, Busy, Holding
<1>5. Counts(r, s, w)
    BY <1>1, <1>2, <1>3, NothingCounted DEF Pending
<1> QED
    BY <1>1, <1>3, <1>4, <1>5, IdleStep DEF Goes, Holding

LEMMA StartTargetStep ==
    ASSUME IInv, IInv', NEW r \in Requests, NEW s \in Sinks, StartTarget(r, s),
           UNCHANGED <<now, mode, req>>
    PROVE  Step(r, s, work'[r][s])
<1> DEFINE old == work[r][s]
           first == IF Linkable(r, s) /\ NoteOf(r, s).status = "resolved"
                    THEN "lookup" ELSE "send"
           w == [old EXCEPT !.pc = first, !.since = now]
<1>1. /\ At(r, s, "next") /\ InLoop(r, s) /\ Running(r) /\ old.pc = "next"
      /\ Goroutine(r, s, w) /\ Reserve(KeyNow(r, s))
      /\ UNCHANGED <<logVars, chat, rewritten>>
    BY DEF StartTarget, InLoop, At, Running
<1>2. old \in Locals /\ old.at = Clean
    BY <1>1, Here DEF Sensible, Running
<1>3. /\ w.pc = first /\ w.at = Clean /\ w.since = now /\ w.err = old.err /\ w.att = old.att
      /\ w.ni = old.ni /\ w.ti = old.ti /\ w.got = old.got /\ w.cut = old.cut
    BY <1>2 DEF Locals
<1> HIDE DEF w
<1>4. Starts(r, s, w)
    BY <1>1, <1>3 DEF Starts, SameTarget, Busy, Holding
<1>5. Counts(r, s, w)
    BY <1>1, <1>2, <1>3, NothingCounted DEF Pending
<1>6. Fitting(r, s, w)
    BY <1>3, CleanSnap DEF Fitting
<1>7. Borne(r, s, w, chat')
    BY <1>3, CleanSnap DEF Borne
<1> QED
    BY <1>1, <1>3, <1>4, <1>5, <1>6, <1>7, IdleStep DEF Goes
-----------------------------------------------------------------------------
\* What holds of a goroutine at a place where it is busy.
LEMMA BusyHere ==
    ASSUME IInv, Progress, NEW r \in Requests, NEW s \in Sinks, NEW pc \in Holding, At(r, s, pc)
    PROVE  /\ Running(r) /\ Busy(r, s) /\ work[r][s].pc = pc
           /\ work[r][s] \in Locals /\ work[r][s].at \in TargetLocals
           /\ work[r][s].err \in Nat /\ work[r][s].att \in Nat
           /\ work[r][s].err <= work[r][s].att
           /\ Sensible(req[r], s, work[r][s])
           /\ Fitting(r, s, work[r][s]) /\ Borne(r, s, work[r][s], chat)
           /\ Promising(mode, work[r][s]) => Landed(chat, KeyNow(r, s), work[r][s].since)
           /\ mode \in {"new", "reply", "edit"}
           /\ LogInv
<1>1. Running(r) /\ Busy(r, s) /\ work[r][s].pc = pc
    BY DEF At, Running, Busy
<1>2. /\ work[r][s] \in Locals /\ Sensible(req[r], s, work[r][s])
      /\ Promising(mode, work[r][s]) => Landed(chat, KeyNow(r, s), work[r][s].since)
    BY <1>1, HereBusy DEF Running
<1>3. /\ work[r][s].at \in TargetLocals
      /\ work[r][s].err \in Nat /\ work[r][s].att \in Nat
    BY <1>2 DEF Locals
<1>4. work[r][s].err <= work[r][s].att
    BY <1>2 DEF Sensible
<1>5. Fitting(r, s, work[r][s]) /\ Borne(r, s, work[r][s], chat)
    BY <1>1 DEF Progress
<1>6. mode \in {"new", "reply", "edit"}
    BY DeliveryAssumption DEF IInv, TypeOK
<1>7. LogInv
    BY DEF IInv
<1> QED
    BY <1>1, <1>2, <1>3, <1>4, <1>5, <1>6, <1>7

LEMMA FindLinkStep ==
    ASSUME IInv, IInv', Progress, NEW r \in Requests, NEW s \in Sinks, FindLink(r, s),
           UNCHANGED <<now, mode, req>>
    PROVE  Step(r, s, work'[r][s])
<1> DEFINE old == work[r][s]
<1>1. /\ At(r, s, "lookup") /\ UNCHANGED <<seen, chat, rewritten>> /\ "lookup" \in Holding
    BY DEF FindLink, Holding
<1>2. PICK k \in linked :
        LET msgs == EntryOf(links, k).msgs IN
        /\ LogHit(LinkKeyNow(r, s), msgs)
        /\ Goroutine(r, s,
             IF mode = "reply"
             THEN [old EXCEPT !.pc = "send", !.at.form = "reply", !.at.snap = msgs]
             ELSE [old EXCEPT !.pc = "rewrite", !.at.snap = msgs])
    BY DEF FindLink
<1> DEFINE msgs == EntryOf(links, k).msgs
           w == IF mode = "reply"
                THEN [old EXCEPT !.pc = "send", !.at.form = "reply", !.at.snap = msgs]
                ELSE [old EXCEPT !.pc = "rewrite", !.at.snap = msgs]
<1>3. /\ Running(r) /\ Busy(r, s) /\ old.pc = "lookup" /\ old \in Locals
      /\ old.at \in TargetLocals /\ Fitting(r, s, old) /\ LogInv
      /\ mode \in {"new", "reply", "edit"}
    BY <1>1, BusyHere
<1>4. Goroutine(r, s, w) /\ LogHit(LinkKeyNow(r, s), msgs)
    BY <1>2
<1>5. Stepped(r, s, w)
    BY <1>3, <1>4, GoroutineStepped
<1>6. \A j \in DOMAIN msgs : Carries(links, LinkKeyNow(r, s), msgs[j])
    BY <1>3, <1>4, HitCarries
<1>7. UNCHANGED logVars
    BY <1>4 DEF LogHit
<1> HIDE DEF old, msgs
<1>8. /\ w.pc = (IF mode = "reply" THEN "send" ELSE "rewrite")
      /\ w.ni = old.ni /\ w.ti = old.ti /\ w.got = old.got /\ w.cut = old.cut
      /\ w.since = old.since /\ w.err = old.err /\ w.att = old.att
      /\ w.at.part = old.at.part /\ w.at.any = old.at.any /\ w.at.bad = old.at.bad
      /\ w.at.edited = old.at.edited /\ w.at.snap = msgs
      /\ w.at.form = (IF mode = "reply" THEN "reply" ELSE old.at.form)
    BY <1>3 DEF Locals, TargetLocals
<1> HIDE DEF w
<1>9. /\ old.at.part = 1 /\ ~old.at.any /\ ~old.at.bad /\ old.at.form = "new"
      /\ old.at.edited = 0
      /\ NoteOf(r, s).status = "resolved" /\ Linkable(r, s)
    BY <1>3, CleanSnap DEF Fitting
<1>10. Fitting(r, s, w)
    BY <1>8, <1>9 DEF Fitting
<1>11. Borne(r, s, w, chat')
    BY <1>8, <1>9 DEF Borne
<1>12. Proceeds(r, s, w)
    BY <1>1, <1>3, <1>8, <1>9 DEF Proceeds, SameTarget, Promising, Holding, old
<1>13. Counts(r, s, w)
    BY <1>3, <1>8, NothingCounted DEF Pending, old
<1>14. Knows(r, s, w)
    BY <1>1, <1>6, <1>7, <1>8 DEF Knows, SnapOf, logVars
<1>15. Unlinks(r, s, w) /\ Confirms(r, s, w)
    BY <1>1, <1>3 DEF Unlinks, Confirms, old
<1>16. work'[r][s] = w
    BY <1>5 DEF Stepped
<1> QED
    BY <1>5, <1>10, <1>11, <1>12, <1>13, <1>14, <1>15, <1>16 DEF Step, Goes

LEMMA NoLinkStep ==
    ASSUME IInv, IInv', Progress, NEW r \in Requests, NEW s \in Sinks, NoLink(r, s),
           UNCHANGED <<now, mode, req>>
    PROVE  Step(r, s, work'[r][s])
<1> DEFINE old == work[r][s]
           w == [old EXCEPT !.pc = "send"]
<1>1. /\ At(r, s, "lookup") /\ UNCHANGED <<seen, chat, rewritten>> /\ "lookup" \in Holding
      /\ Goroutine(r, s, w) /\ LogMiss(LinkKeyNow(r, s))
    BY DEF NoLink, Holding
<1>2. /\ Running(r) /\ Busy(r, s) /\ old.pc = "lookup" /\ old \in Locals
      /\ Fitting(r, s, old) /\ LogInv
    BY <1>1, BusyHere
<1>3. Stepped(r, s, w)
    BY <1>1, <1>2, GoroutineStepped
<1> HIDE DEF old
<1>4. /\ w.pc = "send" /\ w.at = old.at /\ w.since = old.since
      /\ w.ni = old.ni /\ w.ti = old.ti /\ w.got = old.got /\ w.cut = old.cut
      /\ w.err = old.err /\ w.att = old.att
    BY <1>2 DEF Locals
<1> HIDE DEF w
<1>5. old.at = Clean
    BY <1>2 DEF Fitting
<1>6. Fitting(r, s, w) /\ Borne(r, s, w, chat')
    BY <1>4, <1>5, CleanSnap DEF Fitting, Borne
<1>7. Proceeds(r, s, w)
    BY <1>1, <1>2, <1>4 DEF Proceeds, SameTarget, Promising, Holding, old
<1>8. Counts(r, s, w)
    BY <1>2, <1>4, NothingCounted DEF Pending, old
<1>9. Knows(r, s, w)
    <2>1. \A k, m : Carries(links', k, m) => Carries(links, k, m)
        BY <1>1, <1>2, MissCarries
    <2>2. SnapOf(w) = {}
        BY <1>4, <1>5, CleanSnap
    <2> QED
        BY <1>1, <2>1, <2>2 DEF Knows
<1>10. Unlinks(r, s, w) /\ Confirms(r, s, w)
    BY <1>1, <1>2 DEF Unlinks, Confirms, old
<1>11. work'[r][s] = w
    BY <1>3 DEF Stepped
<1> QED
    BY <1>3, <1>6, <1>7, <1>8, <1>9, <1>10, <1>11 DEF Step, Goes

LEMMA PartCanceledStep ==
    ASSUME IInv, IInv', Progress, NEW r \in Requests, NEW s \in Sinks, PartCanceled(r, s),
           UNCHANGED <<now, mode, req>>
    PROVE  Step(r, s, work'[r][s])
<1> DEFINE old == work[r][s]
           w == Stopped(old)
<1>1. /\ At(r, s, "send") /\ GiveBack(r, s, old.at) /\ Goroutine(r, s, w)
      /\ UNCHANGED <<logVars, chat, rewritten>> /\ chat' = chat /\ "send" \in Holding
    BY DEF PartCanceled, Holding
<1>2. /\ Running(r) /\ Busy(r, s) /\ old.pc = "send" /\ old \in Locals
      /\ Fitting(r, s, old)
      /\ Promising(mode, old) => Landed(chat, KeyNow(r, s), old.since)
    BY <1>1, BusyHere
<1>3. Stepped(r, s, w)
    BY <1>1, <1>2, GoroutineStepped
<1>4. /\ w.pc = "done" /\ w.at = Clean /\ w.err = old.err /\ w.att = old.att
      /\ w.ni = old.ni /\ w.ti = old.ti /\ w.got = old.got /\ w.cut
    BY <1>2, StoppedFields
<1> HIDE DEF w
<1>5. Leaves(r, s, w)
    <2>1. CASE old.at.any
        BY <1>1, <1>2, <2>1 DEF Leaves, GiveBack, Promising
    <2>2. CASE ~old.at.any
        <3>1. ~Promising(mode, old)
            BY <1>2, <2>2 DEF Promising, Fitting
        <3> QED
            BY <1>1, <1>2, <1>4, <2>2, <3>1 DEF Leaves, GiveBack
    <2> QED
        BY <2>1, <2>2
<1>6. Stops(r, s, w)
    BY <1>4, <1>5 DEF Stops, SameTarget
<1>7. Counts(r, s, w)
    BY <1>2, <1>4, NothingCounted DEF Pending
<1>8. Knows(r, s, w)
    BY <1>1, <1>4, CleanSnap, NothingKnown
<1>9. Unlinks(r, s, w) /\ Confirms(r, s, w)
    BY <1>1, <1>2 DEF Unlinks, Confirms
<1>10. work'[r][s] = w
    BY <1>3 DEF Stepped
<1> QED
    BY <1>3, <1>4, <1>6, <1>7, <1>8, <1>9, <1>10 DEF Step, Goes, Holding

LEMMA LinkStep ==
    ASSUME IInv, IInv', Progress, NEW r \in Requests, NEW s \in Sinks, Link(r, s),
           UNCHANGED <<now, mode, req>>
    PROVE  Step(r, s, work'[r][s])
<1> DEFINE old == work[r][s]
           w == Settled(r, s, old, "landed")
<1>1. /\ At(r, s, "link") /\ Goroutine(r, s, w) /\ "link" \in Holding
      /\ LogAdd(LinkKeyNow(r, s), MessageNow(r, s)) /\ UNCHANGED <<seen, chat, rewritten>>
    BY DEF Link, Holding
<1>2. /\ Running(r) /\ Busy(r, s) /\ old.pc = "link" /\ old \in Locals
      /\ Sensible(req[r], s, old) /\ LogInv
      /\ Promising(mode, old) => Landed(chat, KeyNow(r, s), old.since)
    BY <1>1, BusyHere
<1>3. Stepped(r, s, w)
    BY <1>1, <1>2, GoroutineStepped
<1>4. /\ NextTarget(r, s, w, "landed") /\ w.pc = "next" /\ w.at = Clean
      /\ w.err = old.err /\ w.att = old.att
    BY <1>2, SettledNext
<1> HIDE DEF w
<1>5. Landed(chat', KeyNow(r, s), old.since)
    BY <1>1, <1>2 DEF Sensible, Promising
<1>6. Settles(r, s, w)
    BY <1>1, <1>2, <1>4, <1>5 DEF Settles, Leaves, Good
<1>7. Counts(r, s, w)
    BY <1>2, <1>4, NothingCounted DEF Pending
<1>8. Knows(r, s, w)
    <2>1. NoteOf(r, s) \in Notes /\ TargetOf(r, s) \in Targets
        BY <1>2, HereBusy DEF Running
    <2>2. LinkKeyNow(r, s) \in LinkKeys /\ MessageNow(r, s) \in Messages
        BY <2>1, DeliveryAssumption DEF LinkKeyNow, MessageNow, Notes
    <2>3. ASSUME NEW k, NEW m, Carries(links', k, m)
          PROVE  Carries(links, k, m) \/ (k = LinkKeyNow(r, s) /\ m = MessageNow(r, s))
        BY <1>1, <1>2, <2>2, <2>3, AddCarries
    <2>4. SnapOf(w) = {}
        BY <1>4, CleanSnap
    <2> QED
        BY <1>1, <1>2, <1>4, <2>3, <2>4 DEF Knows, Holding
<1>9. Unlinks(r, s, w) /\ Confirms(r, s, w)
    BY <1>1, <1>2 DEF Unlinks, Confirms
<1>10. work'[r][s] = w
    BY <1>3 DEF Stepped
<1> QED
    BY <1>3, <1>4, <1>6, <1>7, <1>8, <1>9, <1>10 DEF Step, Goes, Holding
-----------------------------------------------------------------------------
(* sendParts: u is the goroutine with the outcome of one part counted.       *)

PartTold(r, s, u) ==
    /\ u \in Locals /\ u.pc = "send"
    /\ SameTarget(r, s, u) /\ u.cut = work[r][s].cut /\ u.since = work[r][s].since
    /\ u.at.part = work[r][s].at.part /\ u.at.form = work[r][s].at.form
    /\ u.at.snap = work[r][s].at.snap /\ u.at.edited = 0
    /\ u.at.bad => u.err > 0
    /\ u.at.bad \/ u.at.any
    /\ u.at.any => Landed(chat', KeyNow(r, s), work[r][s].since)
    /\ work[r][s].at.any => u.at.any
    /\ ~u.at.bad => \A p \in 1 .. u.at.part : Landing(r, s, p) \in chat'
    /\ u.at.form = "reply" /\ u.at.any => Landing(r, s, 1) \in chat'
    /\ work[r][s].err <= u.err
    /\ Gained(work[r][s]) => Gained(u)
    /\ Gained(u) => Gained(work[r][s]) \/ \E p \in Nat : Landing(r, s, p) \in chat'
    /\ \/ chat' = chat
       \/ u.at.any /\ Gained(u) /\ \E p \in Nat : chat' = chat \cup {Landing(r, s, p)}

\* Whatever follows, what was counted stays counted.
LEMMA ToldStep ==
    ASSUME NEW r \in Requests, NEW s \in Sinks, work[r][s].pc = "send", Busy(r, s),
           NEW u, PartTold(r, s, u), u.at.any => seen' = seen,
           UNCHANGED <<logVars, rewritten>>, Stepped(r, s, work'[r][s]), NEW v, work'[r][s] = v,
           v.err = u.err, v.att = u.att, v.at.snap = u.at.snap \/ v.at = Clean,
           v.pc \in Holding => v.at.any = u.at.any,
           Goes(r, s, v),
           v.pc \in Holding => Fitting(r, s, v) /\ Borne(r, s, v, chat')
    PROVE  Step(r, s, work'[r][s])
<1>1. Confirms(r, s, v)
    BY DEF Confirms, PartTold, Promising, Gained
<1>2. Counts(r, s, v)
    <2>1. /\ work[r][s].err <= u.err
          /\ Gained(work[r][s]) => Gained(u)
          /\ Gained(u) => Gained(work[r][s]) \/ \E p \in Nat : Landing(r, s, p) \in chat'
        BY DEF PartTold
    <2>2. Gained(v) <=> Gained(u)
        BY DEF Gained
    <2>3. ~Pending(work[r][s])
        BY DEF Pending
    <2> QED
        BY <2>1, <2>2, <2>3 DEF Counts
<1>3. Knows(r, s, v)
    <2>1. SnapOf(v) \subseteq SnapOf(work[r][s])
        <3>1. CASE v.at = Clean
            BY <3>1, CleanSnap
        <3>2. CASE v.at.snap = u.at.snap
            <4>1. v.at.snap = work[r][s].at.snap
                BY <3>2 DEF PartTold
            <4> QED
                BY <4>1 DEF SnapOf
        <3> QED
            BY <3>1, <3>2
    <2> QED
        BY <2>1, NothingKnown
<1>4. Unlinks(r, s, v)
    BY DEF Unlinks
<1> QED
    BY <1>1, <1>2, <1>3, <1>4 DEF Step

LEMMA NextPartStep ==
    ASSUME IInv, IInv', Progress, NEW r \in Requests, NEW s \in Sinks, At(r, s, "send"),
           NEW u, PartTold(r, s, u), u.at.part < PartCount(r, s),
           Goroutine(r, s, [u EXCEPT !.at.part = @ + 1]), seen' = seen,
           UNCHANGED <<now, mode, req>>, UNCHANGED <<logVars, rewritten>>
    PROVE  Step(r, s, work'[r][s])
<1> DEFINE old == work[r][s]
           part == u.at.part + 1
           v == [u EXCEPT !.at.part = part]
<1>1. /\ Running(r) /\ Busy(r, s) /\ old.pc = "send" /\ old.at \in TargetLocals
      /\ Fitting(r, s, old)
    BY BusyHere DEF Holding
<1>2. Goroutine(r, s, v)
    OBVIOUS
<1>3. Stepped(r, s, v)
    BY <1>1, <1>2, GoroutineStepped
<1>4. u \in Locals /\ u.pc = "send" /\ u.at \in TargetLocals /\ u.at.part \in Nat
    BY DEF PartTold, Locals, TargetLocals
<1>5. part \in Nat /\ part # 0 /\ part - 1 = u.at.part
    BY <1>4
<1> HIDE DEF part
<1>6. /\ v.pc = "send" /\ v.ni = u.ni /\ v.ti = u.ti /\ v.since = u.since
      /\ v.err = u.err /\ v.att = u.att /\ v.got = u.got /\ v.cut = u.cut
      /\ v.at.part = part /\ v.at.any = u.at.any /\ v.at.bad = u.at.bad
      /\ v.at.form = u.at.form /\ v.at.snap = u.at.snap /\ v.at.edited = u.at.edited
    BY <1>4 DEF Locals, TargetLocals
<1> HIDE DEF v
<1>7. u.at.form # "reply"
    <2> SUFFICES ASSUME u.at.form = "reply"
                 PROVE  FALSE
        OBVIOUS
    <2>1. old.at.form = "reply" /\ u.at.part = old.at.part
        BY DEF PartTold
    <2>2. old.at.part = 1 /\ PartCount(r, s) = 1
        BY <1>1, <2>1 DEF Fitting, PartCount
    <2> QED
        BY <2>1, <2>2
<1>8. Fitting(r, s, v)
    BY <1>5, <1>6, <1>7 DEF Fitting, PartTold
<1>9. Borne(r, s, v, chat')
    BY <1>4, <1>5, <1>6, <1>7 DEF Borne, PartTold
<1>10. Proceeds(r, s, v)
    BY <1>1, <1>6 DEF Proceeds, SameTarget, PartTold, Promising, Holding, Fitting
<1>11. work'[r][s] = v
    BY <1>3 DEF Stepped
<1> QED
    BY <1>1, <1>3, <1>6, <1>8, <1>9, <1>10, <1>11, ToldStep DEF Goes

\* The reply is followed by the rewrite, the complete firing message by its link.
LEMMA PartsDoneStep ==
    ASSUME IInv, IInv', Progress, NEW r \in Requests, NEW s \in Sinks, At(r, s, "send"),
           NEW u, PartTold(r, s, u), u.at.any, NEW pc \in {"rewrite", "link"},
           pc = "rewrite" => u.at.form = "reply",
           pc = "link" => /\ u.at.form = "new" /\ NoteOf(r, s).status = "firing"
                          /\ Linkable(r, s) /\ ~u.at.bad /\ ~(u.at.part < PartCount(r, s)),
           Goroutine(r, s, [u EXCEPT !.pc = pc]), seen' = seen,
           UNCHANGED <<now, mode, req>>, UNCHANGED <<logVars, rewritten>>
    PROVE  Step(r, s, work'[r][s])
<1> DEFINE old == work[r][s]
           v == [u EXCEPT !.pc = pc]
<1>1. /\ Running(r) /\ Busy(r, s) /\ old.pc = "send" /\ old.at \in TargetLocals
      /\ Fitting(r, s, old)
    BY BusyHere DEF Holding
<1>2. Goroutine(r, s, v)
    OBVIOUS
<1>3. Stepped(r, s, v)
    BY <1>1, <1>2, GoroutineStepped
<1>4. u \in Locals /\ u.pc = "send" /\ u.at \in TargetLocals /\ u.at.part \in Nat
    BY DEF PartTold, Locals, TargetLocals
<1>5. /\ v.pc = pc /\ v.ni = u.ni /\ v.ti = u.ti /\ v.since = u.since
      /\ v.err = u.err /\ v.att = u.att /\ v.got = u.got /\ v.cut = u.cut
      /\ v.at = u.at
    BY <1>4 DEF Locals
<1> HIDE DEF v
<1>6. Fitting(r, s, v)
    BY <1>1, <1>5 DEF Fitting, PartTold
<1>7. Borne(r, s, v, chat')
    <2>1. ASSUME pc = "link"
          PROVE  \A p \in 1 .. PartsOf["firing"] : Landing(r, s, p) \in chat'
        <3>1. PartCount(r, s) = PartsOf["firing"] /\ PartsOf["firing"] \in Nat
            BY <2>1, DeliveryAssumption DEF PartCount, PartTold, Statuses
        <3>2. PartsOf["firing"] <= u.at.part
            BY <1>4, <2>1, <3>1
        <3>3. \A p \in 1 .. u.at.part : Landing(r, s, p) \in chat'
            BY <2>1 DEF PartTold
        <3> QED
            BY <1>4, <3>1, <3>2, <3>3
    <2> QED
        BY <1>5, <2>1 DEF Borne, PartTold
<1>8. Proceeds(r, s, v)
    BY <1>1, <1>5 DEF Proceeds, SameTarget, PartTold, Promising, Holding
<1>9. work'[r][s] = v
    BY <1>3 DEF Stepped
<1> QED
    BY <1>1, <1>3, <1>5, <1>6, <1>7, <1>8, <1>9, ToldStep DEF Goes

LEMMA PartsSettledStep ==
    ASSUME IInv, IInv', Progress, NEW r \in Requests, NEW s \in Sinks, At(r, s, "send"),
           NEW u, PartTold(r, s, u), GiveBack(r, s, u.at),
           Goroutine(r, s, Settled(r, s, u, Fared(u.at))),
           UNCHANGED <<now, mode, req>>, UNCHANGED <<logVars, rewritten>>
    PROVE  Step(r, s, work'[r][s])
<1> DEFINE old == work[r][s]
           outcome == Fared(u.at)
           v == Settled(r, s, u, outcome)
<1>1. /\ Running(r) /\ Busy(r, s) /\ old.pc = "send" /\ old.at \in TargetLocals
      /\ Fitting(r, s, old)
    BY BusyHere DEF Holding
<1>2. Goroutine(r, s, v)
    OBVIOUS
<1>3. Stepped(r, s, v)
    BY <1>1, <1>2, GoroutineStepped
<1>4. u \in Locals /\ SameTarget(r, s, u) /\ u.cut = old.cut
    BY DEF PartTold
<1>5. /\ NextTarget(r, s, v, outcome) /\ v.err = u.err /\ v.att = u.att
      /\ v.at = Clean /\ v.pc = "next"
    BY <1>4, SettledNext DEF SameTarget
<1> HIDE DEF v
<1>6. /\ outcome \in {"landed", "partial", "failed"}
      /\ outcome = "landed" <=> ~u.at.bad
      /\ outcome = "failed" => ~u.at.any
    BY DEF Fared, PartTold
<1> HIDE DEF outcome
<1>7. Leaves(r, s, v)
    <2>1. CASE u.at.any
        BY <1>1, <2>1 DEF Leaves, GiveBack, PartTold
    <2>2. CASE ~u.at.any
        <3>1. /\ Forget(KeyNow(r, s)) /\ u.err > 0 /\ chat' = chat /\ ~old.at.any
              /\ old.at.edited = 0
            BY <1>1, <2>2 DEF GiveBack, PartTold, Fitting
        <3>2. ~Promising(mode, old)
            BY <3>1 DEF Promising
        <3> QED
            BY <1>1, <1>5, <3>1, <3>2 DEF Leaves
    <2> QED
        BY <2>1, <2>2
<1>8. Settles(r, s, v)
    BY <1>1, <1>5, <1>6, <1>7 DEF Settles, Good, PartTold
<1>9. work'[r][s] = v
    BY <1>3 DEF Stepped
<1>10. u.at.any => seen' = seen
    BY DEF GiveBack
<1> QED
    BY <1>1, <1>3, <1>5, <1>8, <1>9, <1>10, ToldStep DEF Goes, Holding

LEMMA AfterPartStep ==
    ASSUME IInv, IInv', Progress, NEW r \in Requests, NEW s \in Sinks, At(r, s, "send"),
           NEW u, PartTold(r, s, u), AfterPart(r, s, u),
           UNCHANGED <<now, mode, req>>, UNCHANGED <<logVars, rewritten>>
    PROVE  Step(r, s, work'[r][s])
<1>1. CASE u.at.part < PartCount(r, s)
    BY <1>1, NextPartStep DEF AfterPart
<1>2. CASE ~(u.at.part < PartCount(r, s))
    <2>1. GiveBack(r, s, u.at) /\ Goroutine(r, s, Continue(r, s, u))
        BY <1>2 DEF AfterPart
    <2>2. CASE u.at.form = "reply" /\ u.at.any
        <3>1. Goroutine(r, s, [u EXCEPT !.pc = "rewrite"]) /\ seen' = seen
            BY <2>1, <2>2 DEF Continue, GiveBack
        <3> QED
            BY <2>2, <3>1, PartsDoneStep
    <2>3. CASE /\ u.at.form = "new" /\ NoteOf(r, s).status = "firing" /\ Linkable(r, s)
               /\ ~u.at.bad
        <3>1. Goroutine(r, s, [u EXCEPT !.pc = "link"])
            BY <2>1, <2>3 DEF Continue
        <3>2. u.at.any
            BY <2>3 DEF PartTold
        <3>3. seen' = seen
            BY <2>1, <3>2 DEF GiveBack
        <3> QED
            BY <1>2, <2>3, <3>1, <3>2, <3>3, PartsDoneStep
    <2>4. CASE /\ ~(u.at.form = "reply" /\ u.at.any)
               /\ ~(/\ u.at.form = "new" /\ NoteOf(r, s).status = "firing" /\ Linkable(r, s)
                    /\ ~u.at.bad)
        <3>1. Goroutine(r, s, Settled(r, s, u, Fared(u.at)))
            BY <2>1, <2>4 DEF Continue
        <3> QED
            BY <2>1, <3>1, PartsSettledStep
    <2> QED
        BY <2>2, <2>3, <2>4
<1> QED
    BY <1>1, <1>2

LEMMA PartLandsStep ==
    ASSUME IInv, IInv', Progress, NEW r \in Requests, NEW s \in Sinks, PartLands(r, s),
           UNCHANGED <<now, mode, req>>
    PROVE  Step(r, s, work'[r][s])
<1> DEFINE old == work[r][s]
           att == old.att + 1
           part == old.at.part
           u == [old EXCEPT !.att = att, !.at.any = TRUE]
<1>1. /\ At(r, s, "send") /\ "send" \in Holding /\ AfterPart(r, s, u)
      /\ chat' = chat \cup {Landing(r, s, part)} /\ UNCHANGED <<logVars, rewritten>>
    BY DEF PartLands, Holding
<1>2. /\ Running(r) /\ Busy(r, s) /\ old.pc = "send" /\ old \in Locals
      /\ old.at \in TargetLocals /\ old.err \in Nat /\ old.att \in Nat /\ old.err <= old.att
      /\ Fitting(r, s, old) /\ Borne(r, s, old, chat)
    BY <1>1, BusyHere
<1>3. part \in Nat /\ part # 0
    BY <1>2 DEF TargetLocals, Fitting
<1>4. Landed(chat', KeyNow(r, s), old.since)
    <2>1. Landed({Landing(r, s, part)}, KeyNow(r, s), old.since)
        BY <1>2, <1>3, LandingOfKey DEF Running
    <2> QED
        BY <1>1, <2>1, LandedMore
<1>5. att \in Nat /\ old.err < att
    BY <1>2
<1> HIDE DEF old, att, part
<1>6. u \in Locals
    <2>1. [old.at EXCEPT !.any = TRUE] \in TargetLocals
        BY <1>2 DEF TargetLocals
    <2> QED
        BY <1>2, <1>5, <2>1 DEF Locals
<1>7. /\ u.pc = old.pc /\ u.ni = old.ni /\ u.ti = old.ti /\ u.since = old.since
      /\ u.err = old.err /\ u.att = att /\ u.got = old.got /\ u.cut = old.cut
      /\ u.at.part = part /\ u.at.any /\ u.at.bad = old.at.bad
      /\ u.at.form = old.at.form /\ u.at.snap = old.at.snap /\ u.at.edited = old.at.edited
    BY <1>2 DEF Locals, TargetLocals, part
<1> HIDE DEF u
<1>8. ~u.at.bad => \A p \in 1 .. part : Landing(r, s, p) \in chat'
    <2>1. ASSUME ~u.at.bad, NEW p \in 1 .. part
          PROVE  Landing(r, s, p) \in chat'
        <3>1. CASE p = part
            BY <1>1, <3>1
        <3>2. CASE p # part
            <4>1. p \in 1 .. part - 1
                BY <1>3, <3>2
            <4> QED
                BY <1>1, <1>2, <1>7, <2>1, <4>1 DEF Borne, part
        <3> QED
            BY <3>1, <3>2
    <2> QED
        BY <2>1
<1>9. u.at.form = "reply" => Landing(r, s, 1) \in chat'
    BY <1>1, <1>2, <1>7 DEF Fitting, part
<1>10. Gained(u)
    BY <1>5, <1>7 DEF Gained
<1>11. PartTold(r, s, u)
    <2>1. \E p \in Nat : chat' = chat \cup {Landing(r, s, p)} /\ Landing(r, s, p) \in chat'
        BY <1>1, <1>3
    <2>2. u.at.edited = 0 /\ (u.at.bad => u.err > 0)
        BY <1>2, <1>7 DEF Fitting
    <2>3. old.err <= u.err
        BY <1>2, <1>7
    <2> QED
        BY <1>2, <1>4, <1>6, <1>7, <1>8, <1>9, <1>10, <2>1, <2>2, <2>3
        DEF PartTold, SameTarget, old, part
<1> QED
    BY <1>1, <1>11, AfterPartStep

LEMMA PartFailsStep ==
    ASSUME IInv, IInv', Progress, NEW r \in Requests, NEW s \in Sinks, PartFails(r, s),
           UNCHANGED <<now, mode, req>>
    PROVE  Step(r, s, work'[r][s])
<1> DEFINE old == work[r][s]
           att == old.att + 1
           err == old.err + 1
           u == [old EXCEPT !.att = att, !.err = err, !.at.bad = TRUE]
<1>1. /\ At(r, s, "send") /\ "send" \in Holding /\ AfterPart(r, s, u)
      /\ UNCHANGED <<logVars, chat, rewritten>> /\ chat' = chat
    BY DEF PartFails, Holding
<1>2. /\ Running(r) /\ Busy(r, s) /\ old.pc = "send" /\ old \in Locals
      /\ old.at \in TargetLocals /\ old.err \in Nat /\ old.att \in Nat /\ old.err <= old.att
      /\ Fitting(r, s, old) /\ Borne(r, s, old, chat)
      /\ Promising(mode, old) => Landed(chat, KeyNow(r, s), old.since)
    BY <1>1, BusyHere
<1>3. /\ att \in Nat /\ err \in Nat /\ err > 0 /\ old.err <= err
      /\ err < att <=> old.err < old.att
    BY <1>2
<1> HIDE DEF old, att, err
<1>4. u \in Locals
    <2>1. [old.at EXCEPT !.bad = TRUE] \in TargetLocals
        BY <1>2 DEF TargetLocals
    <2> QED
        BY <1>2, <1>3, <2>1 DEF Locals
<1>5. /\ u.pc = old.pc /\ u.ni = old.ni /\ u.ti = old.ti /\ u.since = old.since
      /\ u.err = err /\ u.att = att /\ u.got = old.got /\ u.cut = old.cut
      /\ u.at.part = old.at.part /\ u.at.any = old.at.any /\ u.at.bad
      /\ u.at.form = old.at.form /\ u.at.snap = old.at.snap /\ u.at.edited = old.at.edited
    BY <1>2 DEF Locals, TargetLocals
<1> HIDE DEF u
<1>6. Gained(u) <=> Gained(old)
    BY <1>3, <1>5 DEF Gained
<1>7. u.at.any => Landed(chat', KeyNow(r, s), old.since)
    BY <1>1, <1>2, <1>5 DEF Promising
<1>8. PartTold(r, s, u)
    BY <1>1, <1>2, <1>3, <1>4, <1>5, <1>6, <1>7 DEF PartTold, SameTarget, Fitting, Borne, old
<1> QED
    BY <1>1, <1>8, AfterPartStep
-----------------------------------------------------------------------------
(* deliverResolve and rewrite. *)

\* One message of the incident was edited, or refused the edit.
LEMMA RewritingStep ==
    ASSUME IInv, IInv', Progress, NEW r \in Requests, NEW s \in Sinks, At(r, s, "rewrite"),
           NEW v, Goroutine(r, s, v), UNCHANGED <<now, mode, req>>,
           UNCHANGED <<seen, logVars>>,
           v.pc = "rewrite" /\ SameTarget(r, s, v) /\ v.cut = work[r][s].cut,
           v.since = work[r][s].since /\ v.err = work[r][s].err /\ v.att = work[r][s].att,
           v.at.part = work[r][s].at.part /\ v.at.form = work[r][s].at.form,
           v.at.any = work[r][s].at.any /\ v.at.bad = work[r][s].at.bad,
           v.at.edited >= work[r][s].at.edited, v.at.edited \in Nat,
           SnapOf(v) \subseteq SnapOf(work[r][s]),
           \/ chat' = chat
           \/ mode = "edit" /\ v.at.edited > 0 /\ chat' = chat \cup {Landing(r, s, 0)},
           \A m \in rewritten' \ rewritten : m \in SnapOf(work[r][s]) /\ v.at.edited > 0
    PROVE  Step(r, s, work'[r][s])
<1> DEFINE old == work[r][s]
<1>1. /\ Running(r) /\ Busy(r, s) /\ old.pc = "rewrite" /\ old.at.edited \in Nat
      /\ Fitting(r, s, old) /\ Borne(r, s, old, chat)
    BY BusyHere DEF Holding, TargetLocals
<1>2. Stepped(r, s, v)
    BY <1>1, GoroutineStepped
<1>3. work'[r][s] = v
    BY <1>2 DEF Stepped
<1>4. Fitting(r, s, v)
    BY <1>1 DEF Fitting
<1>5. Borne(r, s, v, chat')
    BY <1>1 DEF Borne
<1>6. Proceeds(r, s, v)
    BY <1>1 DEF Proceeds, Promising, Holding
<1>7. Confirms(r, s, v)
    <2>1. CASE chat' = chat
        BY <2>1 DEF Confirms
    <2>2. CASE mode = "edit" /\ v.at.edited > 0 /\ chat' = chat \cup {Landing(r, s, 0)}
        <3>1. \E p \in Nat : chat' = chat \cup {Landing(r, s, p)}
            BY <2>2
        <3> QED
            BY <1>1, <2>2, <3>1 DEF Confirms, Promising, Pending
    <2> QED
        BY <2>1, <2>2
<1>8. Counts(r, s, v)
    <2>1. Pending(old) => Pending(v)
        BY <1>1 DEF Pending
    <2> QED
        BY <1>1, <2>1, BusyHere, NothingCounted DEF Holding
<1>9. Knows(r, s, v)
    <2>1. \A k, m : Carries(links', k, m) => Carries(links, k, m)
        BY DEF logVars
    <2> QED
        BY <2>1 DEF Knows
<1>10. Unlinks(r, s, v)
    BY DEF Unlinks
<1> QED
    BY <1>2, <1>3, <1>4, <1>5, <1>6, <1>7, <1>8, <1>9, <1>10 DEF Step, Goes

LEMMA EditMessageStep ==
    ASSUME IInv, IInv', Progress, NEW r \in Requests, NEW s \in Sinks, EditMessage(r, s),
           UNCHANGED <<now, mode, req>>
    PROVE  Step(r, s, work'[r][s])
<1> DEFINE old == work[r][s]
           tried == old.at.tried + 1
           more == old.at.edited + 1
<1>1. /\ At(r, s, "rewrite") /\ "rewrite" \in Holding /\ old.at.tried < Len(old.at.snap)
      /\ UNCHANGED <<seen, logVars>>
      /\ \/ /\ rewritten' = rewritten \cup {old.at.snap[tried]}
            /\ Goroutine(r, s, [old EXCEPT !.at.tried = tried, !.at.edited = more])
            /\ chat' = IF mode = "edit" THEN chat \cup {Landing(r, s, 0)} ELSE chat
         \/ /\ Goroutine(r, s, [old EXCEPT !.at.tried = tried])
            /\ UNCHANGED <<chat, rewritten>>
    BY DEF EditMessage, Holding
<1>2. /\ old \in Locals /\ old.at \in TargetLocals /\ old.at.edited \in Nat
      /\ old.at.snap \in Seq(Messages) /\ old.pc = "rewrite"
    BY <1>1, BusyHere DEF TargetLocals
<1>3. /\ more \in Nat /\ more > 0 /\ more >= old.at.edited
      /\ old.at.edited >= old.at.edited
    BY <1>2
<1>4. tried \in Nat /\ old.at.snap[tried] \in SnapOf(old)
    <2> DEFINE snap == old.at.snap
    <2>1. snap \in Seq(Messages) /\ old.at.tried \in Nat /\ old.at.tried < Len(snap)
        BY <1>1, <1>2 DEF TargetLocals
    <2> HIDE DEF snap
    <2>2. old.at.tried + 1 \in DOMAIN snap
        BY <2>1
    <2> QED
        BY <2>1, <2>2 DEF SnapOf, snap
<1> HIDE DEF tried, more
<1>5. CASE /\ rewritten' = rewritten \cup {old.at.snap[tried]}
           /\ Goroutine(r, s, [old EXCEPT !.at.tried = tried, !.at.edited = more])
           /\ chat' = IF mode = "edit" THEN chat \cup {Landing(r, s, 0)} ELSE chat
    <2> DEFINE v == [old EXCEPT !.at.tried = tried, !.at.edited = more]
    <2>1. /\ v.pc = "rewrite" /\ SameTarget(r, s, v) /\ v.cut = old.cut
          /\ v.since = old.since /\ v.err = old.err /\ v.att = old.att
          /\ v.at.part = old.at.part /\ v.at.form = old.at.form
          /\ v.at.any = old.at.any /\ v.at.bad = old.at.bad
          /\ v.at.edited = more /\ v.at.snap = old.at.snap
        BY <1>2 DEF Locals, TargetLocals, SameTarget
    <2>2. Goroutine(r, s, v)
        BY <1>5
    <2> HIDE DEF v
    <2>3. SnapOf(v) \subseteq SnapOf(old)
        BY <1>4, <2>1 DEF SnapOf
    <2> QED
        BY <1>1, <1>3, <1>4, <1>5, <2>1, <2>2, <2>3, RewritingStep
<1>6. CASE /\ Goroutine(r, s, [old EXCEPT !.at.tried = tried])
           /\ UNCHANGED <<chat, rewritten>>
    <2> DEFINE v == [old EXCEPT !.at.tried = tried]
    <2>1. /\ v.pc = "rewrite" /\ SameTarget(r, s, v) /\ v.cut = old.cut
          /\ v.since = old.since /\ v.err = old.err /\ v.att = old.att
          /\ v.at.part = old.at.part /\ v.at.form = old.at.form
          /\ v.at.any = old.at.any /\ v.at.bad = old.at.bad
          /\ v.at.edited = old.at.edited /\ v.at.snap = old.at.snap
        BY <1>2 DEF Locals, TargetLocals, SameTarget
    <2>2. Goroutine(r, s, v)
        BY <1>6
    <2> HIDE DEF v
    <2>3. SnapOf(v) \subseteq SnapOf(old)
        BY <1>4, <2>1 DEF SnapOf
    <2> QED
        BY <1>1, <1>2, <1>3, <1>6, <2>1, <2>2, <2>3, RewritingStep
<1> QED
    BY <1>1, <1>5, <1>6

\* The link goes as the rewrite ends.
LEMMA LinkGone ==
    ASSUME LogInv, NEW r, NEW s, LogDelete(LinkKeyNow(r, s)), rewritten' = rewritten,
           NEW v, v.at = Clean
    PROVE  Knows(r, s, v) /\ (v.pc # "rewrite" => Unlinks(r, s, v))
<1>1. \A k, m : Carries(links', k, m) => Carries(links, k, m) /\ k # LinkKeyNow(r, s)
    BY DeleteCarries
<1>2. SnapOf(v) = {}
    BY CleanSnap
<1> QED
    BY <1>1, <1>2 DEF Knows, Unlinks

LEMMA ReplyDoneStep ==
    ASSUME IInv, IInv', Progress, NEW r \in Requests, NEW s \in Sinks, ReplyDone(r, s),
           UNCHANGED <<now, mode, req>>
    PROVE  Step(r, s, work'[r][s])
<1> DEFINE old == work[r][s]
           outcome == Fared(old.at)
           v == Settled(r, s, old, outcome)
<1>1. /\ At(r, s, "rewrite") /\ "rewrite" \in Holding /\ Goroutine(r, s, v)
      /\ mode = "reply" /\ LogDelete(LinkKeyNow(r, s))
      /\ chat' = chat /\ rewritten' = rewritten /\ seen' = seen
    BY DEF ReplyDone, RewriteEnds, Holding
<1>2. /\ Running(r) /\ Busy(r, s) /\ old.pc = "rewrite" /\ old \in Locals
      /\ Sensible(req[r], s, old) /\ Fitting(r, s, old) /\ LogInv
      /\ Promising(mode, old) => Landed(chat, KeyNow(r, s), old.since)
    BY <1>1, BusyHere
<1>3. Stepped(r, s, v)
    BY <1>1, <1>2, GoroutineStepped
<1>4. outcome \in {"landed", "partial"} /\ (outcome = "partial" => old.err > 0)
    BY <1>1, <1>2 DEF Fared, Sensible, Fitting
<1> HIDE DEF outcome
<1>5. /\ NextTarget(r, s, v, outcome) /\ v.pc = "next" /\ v.at = Clean
      /\ v.err = old.err /\ v.att = old.att
    BY <1>2, SettledNext
<1> HIDE DEF v
<1>6. Landed(chat', KeyNow(r, s), old.since)
    BY <1>1, <1>2 DEF Sensible, Promising
<1>7. Settles(r, s, v)
    BY <1>1, <1>2, <1>4, <1>5, <1>6 DEF Settles, Leaves, Good
<1>8. Counts(r, s, v)
    BY <1>1, <1>2, <1>5, NothingCounted DEF Pending
<1>9. Knows(r, s, v) /\ Unlinks(r, s, v)
    BY <1>1, <1>2, <1>5, LinkGone
<1>10. Confirms(r, s, v) /\ work'[r][s] = v
    BY <1>1, <1>3 DEF Confirms, Stepped
<1> QED
    BY <1>3, <1>5, <1>7, <1>8, <1>9, <1>10 DEF Step, Goes, Holding

LEMMA EditDoneStep ==
    ASSUME IInv, IInv', Progress, NEW r \in Requests, NEW s \in Sinks, EditDone(r, s),
           UNCHANGED <<now, mode, req>>
    PROVE  Step(r, s, work'[r][s])
<1> DEFINE old == work[r][s]
           att == old.att + 1
           u == [old EXCEPT !.att = att]
           v == Settled(r, s, u, "edited")
<1>1. /\ At(r, s, "rewrite") /\ "rewrite" \in Holding /\ Goroutine(r, s, v)
      /\ mode = "edit" /\ old.at.edited > 0 /\ LogDelete(LinkKeyNow(r, s))
      /\ chat' = chat /\ rewritten' = rewritten /\ seen' = seen
    BY DEF EditDone, RewriteEnds, Holding
<1>2. /\ Running(r) /\ Busy(r, s) /\ old.pc = "rewrite" /\ old \in Locals
      /\ old.err \in Nat /\ old.att \in Nat /\ old.err <= old.att /\ LogInv
      /\ Promising(mode, old) => Landed(chat, KeyNow(r, s), old.since)
    BY <1>1, BusyHere
<1>3. Stepped(r, s, v)
    BY <1>1, <1>2, GoroutineStepped
<1>4. att \in Nat /\ old.err < att
    BY <1>2
<1> HIDE DEF old, att
<1>5. /\ u \in Locals /\ u.ni = old.ni /\ u.ti = old.ti /\ u.got = old.got /\ u.cut = old.cut
      /\ u.err = old.err /\ u.att = att
    BY <1>2, <1>4 DEF Locals
<1> HIDE DEF u
<1>6. /\ NextTarget(r, s, v, "edited") /\ v.pc = "next" /\ v.at = Clean
      /\ v.err = old.err /\ v.att = att
    BY <1>5, SettledNext DEF old
<1> HIDE DEF v
<1>7. Landed(chat', KeyNow(r, s), old.since)
    BY <1>1, <1>2 DEF Promising
<1>8. Settles(r, s, v)
    BY <1>1, <1>2, <1>6, <1>7 DEF Settles, Leaves, Good, old
<1>9. Counts(r, s, v)
    <2>1. Pending(old) /\ Gained(v)
        BY <1>1, <1>2, <1>4, <1>6 DEF Pending, Gained
    <2>2. old.err <= v.err
        BY <1>2, <1>6
    <2> QED
        BY <2>1, <2>2 DEF Counts, old
<1>10. Knows(r, s, v) /\ Unlinks(r, s, v)
    BY <1>1, <1>2, <1>6, LinkGone
<1>11. Confirms(r, s, v) /\ work'[r][s] = v
    BY <1>1, <1>3 DEF Confirms, Stepped
<1> QED
    BY <1>3, <1>6, <1>8, <1>9, <1>10, <1>11 DEF Step, Goes, Holding

LEMMA EditOutOfBudgetStep ==
    ASSUME IInv, IInv', Progress, NEW r \in Requests, NEW s \in Sinks, EditOutOfBudget(r, s),
           UNCHANGED <<now, mode, req>>
    PROVE  Step(r, s, work'[r][s])
<1> DEFINE old == work[r][s]
           v == Stopped(old)
<1>1. /\ At(r, s, "rewrite") /\ "rewrite" \in Holding /\ Goroutine(r, s, v)
      /\ mode = "edit" /\ old.at.edited = 0 /\ Forget(KeyNow(r, s))
      /\ UNCHANGED <<logVars, rewritten>> /\ chat' = chat
    BY DEF EditOutOfBudget, RewriteEnds, Holding
<1>2. /\ Running(r) /\ Busy(r, s) /\ old.pc = "rewrite" /\ old \in Locals
      /\ Fitting(r, s, old)
    BY <1>1, BusyHere
<1>3. Stepped(r, s, v)
    BY <1>1, <1>2, GoroutineStepped
<1>4. /\ v.pc = "done" /\ v.at = Clean /\ v.err = old.err /\ v.att = old.att
      /\ v.ni = old.ni /\ v.ti = old.ti /\ v.got = old.got /\ v.cut
    BY <1>2, StoppedFields
<1> HIDE DEF v
<1>5. ~Promising(mode, old)
    BY <1>1, <1>2 DEF Promising, Fitting
<1>6. Stops(r, s, v)
    BY <1>1, <1>2, <1>4, <1>5 DEF Stops, SameTarget, Leaves
<1>7. Counts(r, s, v)
    BY <1>1, <1>2, <1>4, NothingCounted DEF Pending
<1>8. Knows(r, s, v)
    BY <1>1, <1>4, CleanSnap, NothingKnown
<1>9. Unlinks(r, s, v) /\ Confirms(r, s, v) /\ work'[r][s] = v
    BY <1>1, <1>3, <1>4 DEF Unlinks, Confirms, Stepped
<1> QED
    BY <1>3, <1>4, <1>6, <1>7, <1>8, <1>9 DEF Step, Goes, Holding

LEMMA EditFallsBackStep ==
    ASSUME IInv, IInv', Progress, NEW r \in Requests, NEW s \in Sinks, EditFallsBack(r, s),
           UNCHANGED <<now, mode, req>>
    PROVE  Step(r, s, work'[r][s])
<1> DEFINE old == work[r][s]
           v == [old EXCEPT !.pc = "send", !.at = Clean]
<1>1. /\ At(r, s, "rewrite") /\ "rewrite" \in Holding /\ Goroutine(r, s, v)
      /\ mode = "edit" /\ old.at.edited = 0 /\ LogDelete(LinkKeyNow(r, s))
      /\ chat' = chat /\ rewritten' = rewritten /\ seen' = seen
    BY DEF EditFallsBack, RewriteEnds, Holding
<1>2. /\ Running(r) /\ Busy(r, s) /\ old.pc = "rewrite" /\ old \in Locals
      /\ Fitting(r, s, old) /\ LogInv
    BY <1>1, BusyHere
<1>3. Stepped(r, s, v)
    BY <1>1, <1>2, GoroutineStepped
<1> HIDE DEF old
<1>4. /\ v.pc = "send" /\ v.at = Clean /\ v.err = old.err /\ v.att = old.att
      /\ v.ni = old.ni /\ v.ti = old.ti /\ v.got = old.got /\ v.cut = old.cut
      /\ v.since = old.since
    BY <1>2 DEF Locals
<1> HIDE DEF v
<1>5. ~Promising(mode, old)
    BY <1>1, <1>2 DEF Promising, Fitting, old
<1>6. Proceeds(r, s, v)
    BY <1>1, <1>2, <1>4, <1>5 DEF Proceeds, SameTarget, Holding, old
<1>7. Fitting(r, s, v) /\ Borne(r, s, v, chat')
    BY <1>4, CleanSnap DEF Fitting, Borne
<1>8. Counts(r, s, v)
    BY <1>1, <1>2, <1>4, NothingCounted DEF Pending, old
<1>9. Knows(r, s, v) /\ Unlinks(r, s, v)
    BY <1>1, <1>2, <1>4, LinkGone
<1>10. Confirms(r, s, v) /\ work'[r][s] = v
    BY <1>1, <1>3 DEF Confirms, Stepped
<1> QED
    BY <1>3, <1>4, <1>6, <1>7, <1>8, <1>9, <1>10 DEF Step, Goes, Holding

LEMMA SinkStepStep ==
    ASSUME IInv, IInv', Progress, NEW r \in Requests, NEW s \in Sinks, SinkStep(r, s)
    PROVE  Step(r, s, work'[r][s])
BY EndOfNotesStep, OutOfBudgetStep, RenderFailsStep, SkipDuplicateStep, StartTargetStep,
   FindLinkStep, NoLinkStep, PartLandsStep, PartFailsStep, PartCanceledStep, LinkStep,
   EditMessageStep, ReplyDoneStep, EditDoneStep, EditOutOfBudgetStep, EditFallsBackStep
DEF SinkStep
-----------------------------------------------------------------------------
(* Where everybody is after the step of a goroutine. *)

\* The goroutine looks at what it looked at.
SamePlace(r, s) ==
    /\ Busy(r, s)' <=> Busy(r, s)
    /\ NoteOf(r, s)' = NoteOf(r, s) /\ TargetOf(r, s)' = TargetOf(r, s)
    /\ KeyNow(r, s)' = KeyNow(r, s) /\ LinkKeyNow(r, s)' = LinkKeyNow(r, s)
    /\ MessageNow(r, s)' = MessageNow(r, s) /\ (Linkable(r, s)' <=> Linkable(r, s))

LEMMA Places ==
    ASSUME NEW r \in Requests, NEW s \in Sinks, NEW w,
           work'[r][s].ni = w.ni, work'[r][s].ti = w.ti,
           w.ni = work[r][s].ni, w.ti = work[r][s].ti,
           req'[r].payload = req[r].payload, mode' = mode,
           w.pc \in Holding <=> Busy(r, s), work'[r][s].pc = w.pc
    PROVE  SamePlace(r, s)
BY DEF SamePlace, Busy, KeyNow, LinkKeyNow, MessageNow, Linkable, NoteOf, TargetOf

LEMMA OthersPlaces ==
    ASSUME NEW r \in Requests, NEW s \in Sinks, NEW w, Step(r, s, w),
           NEW q \in Requests, NEW x \in Sinks, q # r \/ x # s
    PROVE  /\ work'[q][x] = work[q][x]
           /\ SamePlace(q, x)
           /\ \A p : Landing(q, x, p)' = Landing(q, x, p)
<1>1. work'[q][x] = work[q][x] /\ req' = req /\ mode' = mode
    BY DEF Step, Stepped
<1>2. SamePlace(q, x)
    BY <1>1, Places DEF Busy
<1> QED
    BY <1>1, <1>2 DEF SamePlace, Landing

\* The busy goroutine that moved has just started, or went on.
LEMMA OwnPlace ==
    ASSUME NEW r \in Requests, NEW s \in Sinks, NEW w, Step(r, s, w)
    PROVE  /\ work'[r][s] = w /\ w \in Locals
           /\ Busy(r, s)' <=> w.pc \in Holding
           /\ w.pc \in Holding => /\ Starts(r, s, w) \/ Proceeds(r, s, w)
                                  /\ NoteOf(r, s)' = NoteOf(r, s)
                                  /\ TargetOf(r, s)' = TargetOf(r, s)
                                  /\ KeyNow(r, s)' = KeyNow(r, s)
                                  /\ LinkKeyNow(r, s)' = LinkKeyNow(r, s)
                                  /\ MessageNow(r, s)' = MessageNow(r, s)
                                  /\ Linkable(r, s)' <=> Linkable(r, s)
<1>1. work'[r][s] = w /\ w \in Locals /\ req' = req /\ mode' = mode
    BY DEF Step, Stepped
<1>2. ASSUME w.pc \in Holding
      PROVE  Starts(r, s, w) \/ Proceeds(r, s, w)
    <2>1. w.pc # "next" /\ w.pc # "done"
        BY <1>2 DEF Holding
    <2>2. Goes(r, s, w)
        BY DEF Step
    <2> QED
        BY <2>1, <2>2 DEF Goes, Stops, GivesUp, Skips, Settles, NextTarget
<1>3. ASSUME w.pc \in Holding
      PROVE  w.ni = work[r][s].ni /\ w.ti = work[r][s].ti
    BY <1>2, <1>3 DEF Starts, Proceeds, SameTarget
<1> QED
    BY <1>1, <1>2, <1>3
    DEF Busy, KeyNow, LinkKeyNow, MessageNow, Linkable, NoteOf, TargetOf

\* Nothing leaves the chat; at most a landing of the goroutine comes.
LEMMA ChatAfter ==
    ASSUME NEW r \in Requests, NEW s \in Sinks, NEW w, Step(r, s, w)
    PROVE  /\ chat \subseteq chat'
           /\ \A c \in chat' : c \in chat \/ (Busy(r, s) /\ \E p : c = Landing(r, s, p))
BY DEF Step, Confirms

\* What a request and its goroutines do while none of them takes a step: stay
\* as they are, start, or end with an answer.
Stays(q) ==
    /\ req'[q].state = req[q].state /\ req'[q].payload = req[q].payload
    /\ req'[q].start = req[q].start /\ req'[q].ack = req[q].ack
    /\ \A x \in Sinks : work'[q][x] = work[q][x]

Arrives(q) ==
    /\ req[q].state = "idle" /\ req'[q].state = "running" /\ req'[q].start = now
    /\ \A x \in Sinks : work[q][x] = Idle /\ work'[q][x] = Idle

Answers(q) ==
    /\ Answer(q) /\ Running(q) /\ \A x \in Sinks : work[q][x].pc = "done"
    /\ req'[q].state = "answered" /\ req'[q].ack = Status(q)
    /\ req'[q].payload = req[q].payload
    /\ \A x \in Sinks : work'[q][x] = Idle

\* The steps of the requests, the clock and the sweeper.
Background ==
    /\ links' = links /\ mode' = mode /\ chat' = chat /\ rewritten' = rewritten
    /\ now' \in Nat /\ now <= now'
    /\ \A k \in DedupKeys :
         seen'[k] = seen[k] \/ (seen'[k] = Absent /\ now - seen[k] > DedupTTL)
    /\ \A q \in Requests : Stays(q) \/ Arrives(q) \/ Answers(q)

LEMMA AllStay ==
    ASSUME UNCHANGED <<req, work>>
    PROVE  \A q \in Requests : Stays(q)
BY DEF Stays

LEMMA ArriveStep ==
    ASSUME IInv, NEW r \in Requests, NEW p \in Payloads, Arrive(r, p)
    PROVE  Background
<1> DEFINE q == [NoRequest EXCEPT !.state = "running", !.payload = p, !.start = now]
<1>1. /\ req[r].state = "idle" /\ req' = [req EXCEPT ![r] = q] /\ work' = work
      /\ UNCHANGED <<now, seen, logVars, mode, chat, rewritten>>
      /\ req \in [Requests -> Request] /\ now \in Nat
    BY DEF Arrive, IInv, TypeOK
<1>2. q.state = "running" /\ q.start = now
    BY DEF NoRequest
<1> HIDE DEF q
<1>3. \A x \in Sinks : work[r][x] = Idle
    BY <1>1 DEF IInv, Sensible
<1>4. Arrives(r)
    BY <1>1, <1>2, <1>3 DEF Arrives
<1>5. \A q1 \in Requests : q1 # r => Stays(q1)
    BY <1>1 DEF Stays
<1> QED
    BY <1>1, <1>4, <1>5 DEF Background, logVars

LEMMA ContextEndsStep ==
    ASSUME IInv, NEW r \in Requests, ContextEnds(r)
    PROVE  Background
<1>1. /\ req' = [req EXCEPT ![r].alive = FALSE] /\ work' = work
      /\ UNCHANGED <<now, seen, logVars, mode, chat, rewritten>>
      /\ req \in [Requests -> Request] /\ now \in Nat
    BY DEF ContextEnds, IInv, TypeOK
<1>2. \A q \in Requests : Stays(q)
    BY <1>1 DEF Stays, Request
<1> QED
    BY <1>1, <1>2 DEF Background, logVars

LEMMA AnswerStep ==
    ASSUME IInv, NEW r \in Requests, Answer(r)
    PROVE  Background
<1> DEFINE q == [NoRequest EXCEPT !.state = "answered", !.ack = Status(r),
                                  !.payload = req[r].payload]
<1>1. /\ req' = [req EXCEPT ![r] = q] /\ work' = [work EXCEPT ![r] = [x \in Sinks |-> Idle]]
      /\ Running(r) /\ \A x \in Sinks : work[r][x].pc = "done"
      /\ UNCHANGED <<now, seen, logVars, mode, chat, rewritten>>
      /\ req \in [Requests -> Request] /\ work \in [Requests -> [Sinks -> Locals]]
      /\ now \in Nat
    BY DEF Answer, IInv, TypeOK, Running
<1>2. q.state = "answered" /\ q.ack = Status(r) /\ q.payload = req[r].payload
    BY DEF NoRequest
<1> HIDE DEF q
<1>3. Answers(r)
    BY <1>1, <1>2 DEF Answers
<1>4. \A q1 \in Requests : q1 # r => Stays(q1)
    BY <1>1 DEF Stays
<1> QED
    BY <1>1, <1>3, <1>4 DEF Background, logVars

LEMMA TickStep ==
    ASSUME IInv, Tick
    PROVE  Background
<1>1. /\ UNCHANGED <<req, work>> /\ now' = now + 1 /\ now \in Nat
      /\ UNCHANGED <<seen, logVars, mode, chat, rewritten>>
    BY DEF Tick, Advance, IInv, TypeOK
<1>2. now' \in Nat /\ now <= now'
    BY <1>1
<1> QED
    BY <1>1, <1>2, AllStay DEF Background, logVars

LEMMA SweepSeenStep ==
    ASSUME IInv, SweepSeen
    PROVE  Background
<1>1. /\ UNCHANGED <<req, work>> /\ now' = now /\ now \in Nat
      /\ UNCHANGED <<logVars, mode, chat, rewritten>>
      /\ seen' = [k \in DedupKeys |-> IF now - seen[k] > DedupTTL THEN Absent ELSE seen[k]]
    BY DEF SweepSeen, DedupSweep, IInv, TypeOK
<1> QED
    BY <1>1, AllStay DEF Background, logVars

LEMMA StutterStep ==
    ASSUME IInv, UNCHANGED vars
    PROVE  Background
<1>1. /\ UNCHANGED <<req, work>> /\ now' = now /\ now \in Nat
      /\ UNCHANGED <<seen, logVars, mode, chat, rewritten>>
    BY DEF vars, logVars, IInv, TypeOK
<1> QED
    BY <1>1, AllStay DEF Background, logVars

LEMMA NextStep ==
    ASSUME IInv, IInv', Progress, [Next]_vars
    PROVE  \/ Background
           \/ \E r \in Requests, s \in Sinks : Step(r, s, work'[r][s])
BY ArriveStep, ContextEndsStep, AnswerStep, TickStep, SweepSeenStep, StutterStep, SinkStepStep
DEF Next

\* No busy goroutine notices.
LEMMA BackgroundPlaces ==
    ASSUME Background, NEW q \in Requests, NEW x \in Sinks
    PROVE  /\ Busy(q, x)' <=> Busy(q, x)
           /\ Busy(q, x) => /\ work'[q][x] = work[q][x]
                            /\ SamePlace(q, x)
                            /\ req'[q].state = req[q].state
                            /\ \A p : Landing(q, x, p)' = Landing(q, x, p)
<1>1. /\ Stays(q) \/ Arrives(q) \/ Answers(q)
      /\ mode' = mode
    BY DEF Background
<1>2. Idle.pc \notin Holding
    BY DEF Idle, Holding
<1>3. CASE Stays(q)
    <2>1. work'[q][x] = work[q][x] /\ req'[q].payload = req[q].payload
        BY <1>3 DEF Stays
    <2>2. SamePlace(q, x)
        BY <1>1, <2>1, Places DEF Busy, Background
    <2> QED
        BY <1>3, <2>1, <2>2 DEF SamePlace, Landing, Stays
<1>4. CASE Arrives(q) \/ Answers(q)
    BY <1>2, <1>4 DEF Arrives, Answers, Busy, Holding
<1> QED
    BY <1>1, <1>3, <1>4
-----------------------------------------------------------------------------
(* Progress, and what landed under whose reservation.                        *)

LEMMA StepProgress ==
    ASSUME Progress, NEW r \in Requests, NEW s \in Sinks, NEW w, Step(r, s, w)
    PROVE  Progress'
<1> SUFFICES ASSUME NEW q \in Requests, NEW x \in Sinks, Busy(q, x)'
             PROVE  Fitting(q, x, work[q][x])' /\ Borne(q, x, work[q][x], chat)'
    BY DEF Progress
<1>1. mode' = mode /\ chat \subseteq chat'
    BY ChatAfter DEF Step, Stepped
<1>2. CASE q # r \/ x # s
    <2>1. /\ work'[q][x] = work[q][x] /\ SamePlace(q, x)
          /\ \A p : Landing(q, x, p)' = Landing(q, x, p)
        BY <1>2, OthersPlaces
    <2>2. Fitting(q, x, work[q][x]) /\ Borne(q, x, work[q][x], chat)
        BY <2>1 DEF SamePlace, Progress
    <2> QED
        BY <1>1, <2>1, <2>2 DEF SamePlace, Fitting, Borne
<1>3. CASE q = r /\ x = s
    <2>1. /\ work'[r][s] = w /\ w.pc \in Holding
          /\ Starts(r, s, w) \/ Proceeds(r, s, w)
          /\ NoteOf(r, s)' = NoteOf(r, s) /\ TargetOf(r, s)' = TargetOf(r, s)
          /\ Linkable(r, s)' <=> Linkable(r, s)
        BY <1>3, OwnPlace
    <2>2. Fitting(r, s, w) /\ Borne(r, s, w, chat')
        BY <2>1 DEF Step
    <2>3. Fitting(r, s, work[r][s])'
        BY <1>1, <2>1, <2>2 DEF Fitting
    <2>4. CASE Starts(r, s, w)
        <3>1. w.at = Clean /\ w.pc # "link"
            BY <2>4 DEF Starts
        <3> QED
            BY <1>3, <2>1, <2>3, <3>1, CleanSnap DEF Borne
    <2>5. CASE Proceeds(r, s, w)
        <3>1. \A p : Landing(r, s, p)' = Landing(r, s, p)
            BY <2>1, <2>5 DEF Proceeds, Landing
        <3> QED
            BY <1>3, <2>1, <2>2, <2>3, <3>1 DEF Borne
    <2> QED
        BY <2>1, <2>4, <2>5
<1> QED
    BY <1>2, <1>3

LEMMA BackgroundProgress ==
    ASSUME Progress, Background
    PROVE  Progress'
<1> SUFFICES ASSUME NEW q \in Requests, NEW x \in Sinks, Busy(q, x)'
             PROVE  Fitting(q, x, work[q][x])' /\ Borne(q, x, work[q][x], chat)'
    BY DEF Progress
<1>1. /\ Busy(q, x) /\ work'[q][x] = work[q][x] /\ SamePlace(q, x)
      /\ \A p : Landing(q, x, p)' = Landing(q, x, p)
    BY BackgroundPlaces
<1>2. Fitting(q, x, work[q][x]) /\ Borne(q, x, work[q][x], chat)
    BY <1>1 DEF Progress
<1>3. mode' = mode /\ chat' = chat
    BY DEF Background
<1> QED
    BY <1>1, <1>2, <1>3 DEF SamePlace, Fitting, Borne

\* The time until which the cache could know the key.
Until(k) == IF seen[k] = Absent THEN now ELSE seen[k]

\* A landing stands under its reservation, or that is long gone.
Served ==
    \A c \in chat :
        /\ c.since <= now
        /\ LandingKey(c) # Keyless =>
              \/ seen[LandingKey(c)] = c.since
              \/ Until(LandingKey(c)) - c.since > DedupTTL

\* What landed under the reservation a goroutine holds is its own.
OwnLandings ==
    \A c \in chat, r \in Requests, s \in Sinks :
        /\ Busy(r, s) /\ KeyNow(r, s) # Keyless
        /\ LandingKey(c) = KeyNow(r, s) /\ c.since = work[r][s].since
        => c.req = r /\ Promising(mode, work[r][s])

SentByRequests ==
    \A c \in chat :
        /\ req[c.req].state # "idle"
        /\ Running(c.req) => req[c.req].start <= c.since

LEMMA LandingTyped ==
    ASSUME IInv, NEW c \in chat
    PROVE  /\ c \in Landings /\ c.since \in Nat /\ c.req \in Requests
           /\ LandingKey(c) \in DedupKeys \cup {Keyless}
           /\ seen \in [DedupKeys -> Nat \cup {Absent}]
           /\ now \in Nat /\ DedupTTL \in Nat
<1>1. /\ c \in Landings /\ seen \in [DedupKeys -> Nat \cup {Absent}] /\ now \in Nat
    BY DEF IInv, TypeOK, DedupTypeOK
<1>2. LandingKey(c) \in DedupKeys \cup {Keyless}
    BY <1>1, DeliveryAssumption DEF LandingKey, Key, Landings
<1> QED
    BY <1>1, <1>2, DedupAssumption DEF Landings

\* What a landing of a busy goroutine is.
LEMMA OwnLanding ==
    ASSUME IInv, NEW r \in Requests, NEW s \in Sinks, Busy(r, s), NEW p, Running(r)
    PROVE  LET c == Landing(r, s, p) IN
           /\ LandingKey(c) = KeyNow(r, s) /\ c.since = work[r][s].since /\ c.req = r
           /\ c.since \in Nat /\ c.since <= now
           /\ KeyNow(r, s) # Keyless => seen[KeyNow(r, s)] = c.since
           /\ req[r].start <= c.since
<1>1. /\ LandingKey(Landing(r, s, p)) = KeyNow(r, s)
      /\ Landing(r, s, p).since = work[r][s].since /\ Landing(r, s, p).req = r
    BY DEF LandingKey, Landing, KeyNow
<1>2. /\ work[r][s].since \in Nat /\ work[r][s].since <= now
      /\ KeyNow(r, s) # Keyless => seen[KeyNow(r, s)] = work[r][s].since
      /\ req[r].start <= work[r][s].since
    BY Here, HereBusy DEF Reserved, Locals, Running
<1> QED
    BY <1>1, <1>2

LEMMA StepServed ==
    ASSUME IInv, Served, OwnLandings, NEW r \in Requests, NEW s \in Sinks, NEW w, Step(r, s, w)
    PROVE  Served'
<1> SUFFICES ASSUME NEW c \in chat'
             PROVE  /\ c.since <= now'
                    /\ LandingKey(c) # Keyless =>
                          \/ seen'[LandingKey(c)] = c.since
                          \/ Until(LandingKey(c))' - c.since > DedupTTL
    BY DEF Served
<1> DEFINE k == KeyNow(r, s)
           key == LandingKey(c)
<1>1. now' = now /\ Running(r)
    BY DEF Step, Stepped
<1>2. c \in chat \/ (Busy(r, s) /\ \E p : c = Landing(r, s, p))
    BY ChatAfter
<1>3. CASE c \in chat
    <2>1. /\ c.since <= now /\ c.since \in Nat /\ now \in Nat /\ DedupTTL \in Nat
          /\ LandingKey(c) # Keyless =>
                \/ seen[LandingKey(c)] = c.since
                \/ Until(LandingKey(c)) - c.since > DedupTTL
          /\ seen \in [DedupKeys -> Nat \cup {Absent}]
          /\ LandingKey(c) \in DedupKeys \cup {Keyless}
        BY <1>3, LandingTyped DEF Served
    <2>2. CASE seen'[LandingKey(c)] = seen[LandingKey(c)]
        BY <1>1, <2>1, <2>2 DEF Until
    <2>3. CASE /\ seen'[LandingKey(c)] # seen[LandingKey(c)]
               /\ LandingKey(c) # Keyless
        <3>1. /\ LandingKey(c) = k /\ k \in DedupKeys
              /\ \/ seen'[k] = now /\ Starts(r, s, w)
                 \/ seen'[k] = Absent /\ Busy(r, s) /\ ~Promising(mode, work[r][s])
            <4>1. Goes(r, s, w)
                BY DEF Step
            <4>2. \/ seen' = seen
                  \/ Reserve(k) /\ Starts(r, s, w)
                  \/ Forget(k) /\ Busy(r, s) /\ ~Promising(mode, work[r][s])
                BY <4>1 DEF Goes, Stops, GivesUp, Skips, Starts, Proceeds, Settles, Leaves
            <4> HIDE DEF k
            <4> QED
                BY <2>1, <2>3, <4>2 DEF Reserve, Forget
        <3>2. CASE seen'[k] = now /\ Starts(r, s, w)
            <4>1. ~Suppressed(k)
                BY <3>2 DEF Starts, Reserve
            <4>2. seen[key] = Absent \/ now - seen[key] > DedupTTL
                BY <2>1, <2>3, <3>1, <4>1 DEF Suppressed
            <4>3. now # Absent /\ seen'[key] = now
                BY <2>1, <3>1, <3>2 DEF Absent
            <4> HIDE DEF k, key
            <4>4. Until(key)' = now
                BY <1>1, <4>3 DEF Until
            <4>5. now - c.since > DedupTTL
                BY <2>1, <2>3, <4>2 DEF Until, Absent, key
            <4> QED
                BY <1>1, <2>1, <4>4, <4>5 DEF key
        <3>3. CASE seen'[k] = Absent /\ Busy(r, s) /\ ~Promising(mode, work[r][s])
            <4>1. c.since # work[r][s].since
                BY <1>3, <2>3, <3>1, <3>3 DEF OwnLandings
            <4>2. /\ seen[key] = work[r][s].since /\ work[r][s].since <= now
                  /\ work[r][s].since \in Nat /\ seen'[key] = Absent
                BY <1>1, <2>3, <3>1, <3>3, Here DEF Reserved, Running, Locals
            <4> HIDE DEF k, key
            <4>3. Until(key) - c.since > DedupTTL /\ Until(key) = work[r][s].since
                BY <2>1, <2>3, <4>1, <4>2 DEF Until, Absent, key
            <4>4. Until(key)' = now
                BY <1>1, <4>2 DEF Until
            <4>5. now - c.since > DedupTTL
                BY <2>1, <4>2, <4>3
            <4> QED
                BY <1>1, <2>1, <4>4, <4>5 DEF key
        <3> QED
            BY <3>1, <3>2, <3>3
    <2> QED
        BY <1>1, <2>1, <2>2, <2>3
<1>4. CASE c \notin chat
    <2>1. Busy(r, s) /\ chat' # chat
        BY <1>2, <1>4
    <2>2. PICK p : c = Landing(r, s, p)
        BY <1>2, <1>4
    <2>3. /\ LandingKey(c) = k /\ c.since <= now
          /\ k # Keyless => seen[k] = c.since
        BY <1>1, <2>1, <2>2, OwnLanding
    <2>4. seen' = seen
        BY <2>1 DEF Step, Confirms
    <2> QED
        BY <1>1, <2>3, <2>4
<1> QED
    BY <1>3, <1>4

LEMMA BackgroundServed ==
    ASSUME IInv, Served, Background
    PROVE  Served'
<1> SUFFICES ASSUME NEW c \in chat
             PROVE  /\ c.since <= now'
                    /\ LandingKey(c) # Keyless =>
                          \/ seen'[LandingKey(c)] = c.since
                          \/ Until(LandingKey(c))' - c.since > DedupTTL
    BY DEF Served, Background
<1> DEFINE key == LandingKey(c)
<1>1. /\ now' \in Nat /\ now <= now' /\ now \in Nat /\ DedupTTL \in Nat
      /\ c.since \in Nat /\ c.since <= now
      /\ key # Keyless => \/ seen[key] = c.since
                          \/ Until(key) - c.since > DedupTTL
      /\ key # Keyless => key \in DedupKeys /\ seen[key] \in Nat \cup {Absent}
    BY LandingTyped DEF Background, Served
<1>2. key # Keyless =>
        seen'[key] = seen[key] \/ (seen'[key] = Absent /\ now - seen[key] > DedupTTL)
    BY <1>1 DEF Background
<1> HIDE DEF key
<1>3. Until(key)' = IF seen'[key] = Absent THEN now' ELSE seen'[key]
    BY DEF Until
<1>4. Until(key) = IF seen[key] = Absent THEN now ELSE seen[key]
    BY DEF Until
<1>5. ASSUME key # Keyless
      PROVE  seen'[key] = c.since \/ Until(key)' - c.since > DedupTTL
    <2>1. CASE seen'[key] = seen[key]
        BY <1>1, <1>3, <1>4, <1>5, <2>1 DEF Absent
    <2>2. CASE seen'[key] = Absent /\ now - seen[key] > DedupTTL
        BY <1>1, <1>3, <1>4, <1>5, <2>2 DEF Absent
    <2> QED
        BY <1>2, <1>5, <2>1, <2>2
<1> QED
    BY <1>1, <1>5 DEF key

LEMMA StepOwnLandings ==
    ASSUME IInv, Served, OwnLandings, NEW r \in Requests, NEW s \in Sinks, NEW w, Step(r, s, w)
    PROVE  OwnLandings'
<1> SUFFICES ASSUME NEW c \in chat', NEW q \in Requests, NEW x \in Sinks,
                    Busy(q, x)', KeyNow(q, x)' # Keyless,
                    LandingKey(c) = KeyNow(q, x)', c.since = work'[q][x].since
             PROVE  c.req = q /\ Promising(mode', work'[q][x])
    BY DEF OwnLandings
<1>1. Running(r) /\ mode' = mode
    BY DEF Step, Stepped
<1>2. c \in chat \/ (Busy(r, s) /\ \E p : c = Landing(r, s, p))
    BY ChatAfter
<1>3. CASE c \notin chat
    <2>1. Busy(r, s) /\ chat' # chat
        BY <1>2, <1>3
    <2>2. PICK p : c = Landing(r, s, p)
        BY <1>2, <1>3
    <2>3. LandingKey(c) = KeyNow(r, s) /\ c.req = r
        BY <1>1, <2>1, <2>2, OwnLanding
    <2>4. CASE q # r \/ x # s
        <3>1. SamePlace(q, x)
            BY <2>4, OthersPlaces
        <3>2. SameKey(q, x, r, s)
            BY <2>1, <2>3, <3>1 DEF SamePlace, SameKey
        <3> QED
            BY <2>4, <3>2 DEF IInv
    <2>5. CASE q = r /\ x = s
        <3>1. work'[r][s] = w /\ w.pc \in Holding
            BY <2>5, OwnPlace
        <3>2. Promising(mode, w)
            BY <2>1, <3>1 DEF Step, Confirms
        <3> QED
            BY <1>1, <2>3, <2>5, <3>1, <3>2
    <2> QED
        BY <2>4, <2>5
<1>4. CASE c \in chat
    <2>1. CASE q # r \/ x # s
        <3>1. SamePlace(q, x) /\ work'[q][x] = work[q][x]
            BY <2>1, OthersPlaces
        <3> QED
            BY <1>1, <1>4, <3>1 DEF SamePlace, OwnLandings
    <2>2. CASE q = r /\ x = s
        <3>1. /\ work'[r][s] = w /\ w.pc \in Holding /\ KeyNow(r, s)' = KeyNow(r, s)
              /\ Starts(r, s, w) \/ Proceeds(r, s, w)
            BY <2>2, OwnPlace
        <3>2. CASE Proceeds(r, s, w)
            <4>1. /\ Busy(r, s) /\ w.since = work[r][s].since
                  /\ Promising(mode, work[r][s]) => Promising(mode, w)
                BY <3>2 DEF Proceeds
            <4> QED
                BY <1>1, <1>4, <2>2, <3>1, <4>1 DEF OwnLandings
        <3>3. CASE Starts(r, s, w)
            <4> DEFINE key == LandingKey(c)
            <4>1. /\ ~Suppressed(key) /\ c.since = now /\ key # Keyless
                BY <2>2, <3>1, <3>3 DEF Starts, Reserve
            <4>2. /\ key \in DedupKeys /\ seen[key] \in Nat \cup {Absent}
                  /\ now \in Nat /\ DedupTTL \in Nat
                  /\ seen[key] = now \/ Until(key) - now > DedupTTL
                BY <1>4, <4>1, LandingTyped DEF Served
            <4> HIDE DEF key
            <4>3. seen[key] = Absent \/ now - seen[key] > DedupTTL
                BY <4>1, <4>2 DEF Suppressed, Absent
            <4> QED
                BY <4>2, <4>3 DEF Until, Absent
        <3> QED
            BY <3>1, <3>2, <3>3
    <2> QED
        BY <2>1, <2>2
<1> QED
    BY <1>3, <1>4

LEMMA BackgroundOwnLandings ==
    ASSUME OwnLandings, Background
    PROVE  OwnLandings'
<1> SUFFICES ASSUME NEW c \in chat', NEW q \in Requests, NEW x \in Sinks,
                    Busy(q, x)', KeyNow(q, x)' # Keyless,
                    LandingKey(c) = KeyNow(q, x)', c.since = work'[q][x].since
             PROVE  c.req = q /\ Promising(mode', work'[q][x])
    BY DEF OwnLandings
<1>1. Busy(q, x) /\ SamePlace(q, x) /\ work'[q][x] = work[q][x]
    BY BackgroundPlaces
<1>2. chat' = chat /\ mode' = mode
    BY DEF Background
<1> QED
    BY <1>1, <1>2 DEF SamePlace, OwnLandings

LEMMA StepSentByRequests ==
    ASSUME IInv, SentByRequests, NEW r \in Requests, NEW s \in Sinks, NEW w, Step(r, s, w)
    PROVE  SentByRequests'
<1> SUFFICES ASSUME NEW c \in chat'
             PROVE  /\ req'[c.req].state # "idle"
                    /\ Running(c.req)' => req'[c.req].start <= c.since
    BY DEF SentByRequests
<1>1. Running(r) /\ req' = req
    BY DEF Step, Stepped
<1>2. CASE c \in chat
    BY <1>1, <1>2 DEF SentByRequests, Running
<1>3. CASE c \notin chat
    <2>1. Busy(r, s)
        BY <1>3, ChatAfter
    <2>2. PICK p : c = Landing(r, s, p)
        BY <1>3, ChatAfter
    <2>3. c.req = r /\ req[r].start <= c.since
        BY <1>1, <2>1, <2>2, OwnLanding
    <2> QED
        BY <1>1, <2>3 DEF Running
<1> QED
    BY <1>2, <1>3

LEMMA BackgroundSentByRequests ==
    ASSUME IInv, SentByRequests, Background
    PROVE  SentByRequests'
<1> SUFFICES ASSUME NEW c \in chat
             PROVE  /\ req'[c.req].state # "idle"
                    /\ Running(c.req)' => req'[c.req].start <= c.since
    BY DEF SentByRequests, Background
<1>1. c.req \in Requests
    BY LandingTyped
<1>2. Stays(c.req) \/ Arrives(c.req) \/ Answers(c.req)
    BY <1>1 DEF Background
<1> QED
    BY <1>2 DEF SentByRequests, Stays, Arrives, Answers, Running
-----------------------------------------------------------------------------
(* A new landing is far from what others landed under the same key. *)

LEMMA StepNoConfirmedDuplicate ==
    ASSUME IInv, Served, OwnLandings, NoConfirmedDuplicate,
           NEW r \in Requests, NEW s \in Sinks, NEW w, Step(r, s, w)
    PROVE  NoConfirmedDuplicate'
<1>1. ASSUME NEW c \in chat', c \notin chat, NEW d \in chat,
             LandingKey(c) = LandingKey(d), LandingKey(c) # Keyless, c.req # d.req
      PROVE  c.since - d.since > DedupTTL
    <2>1. Running(r) /\ Busy(r, s)
        BY <1>1, ChatAfter DEF Step, Stepped
    <2>2. PICK p : c = Landing(r, s, p)
        BY <1>1, ChatAfter
    <2>3. /\ LandingKey(c) = KeyNow(r, s) /\ c.since = work[r][s].since /\ c.req = r
          /\ c.since \in Nat /\ seen[KeyNow(r, s)] = c.since
        BY <1>1, <2>1, <2>2, OwnLanding
    <2>4. d.since # c.since
        BY <1>1, <2>1, <2>3 DEF OwnLandings
    <2>5. seen[LandingKey(d)] = d.since \/ Until(LandingKey(d)) - d.since > DedupTTL
        BY <1>1 DEF Served
    <2> QED
        BY <1>1, <2>3, <2>4, <2>5 DEF Until, Absent
<1>2. ASSUME NEW c \in chat', c \notin chat, NEW d \in chat', d \notin chat
      PROVE  c.req = d.req
    <2>1. PICK p : c = Landing(r, s, p)
        BY <1>2, ChatAfter
    <2>2. PICK p1 : d = Landing(r, s, p1)
        BY <1>2, ChatAfter
    <2> QED
        BY <2>1, <2>2 DEF Landing
<1> QED
    BY <1>1, <1>2 DEF NoConfirmedDuplicate
-----------------------------------------------------------------------------
(* What is known of messages: linked, rewritten, or about to be.             *)

Delivered(m) ==
    /\ FpOf[m.inc] # NoFp
    /\ \A p \in 1 .. PartsOf["firing"] :
         \E c \in Sent(m.req) : /\ c.part = p /\ c.target = m.target
                                /\ c.note = [status |-> "firing", inc |-> m.inc]

Known(m) ==
    \/ m \in rewritten
    \/ \E k : Carries(links, k, m)
    \/ \E r \in Requests, s \in Sinks : Busy(r, s) /\ m \in SnapOf(work[r][s])

KnownDelivered == \A m : Known(m) => Delivered(m)

\* Messages are linked under their own incident, and a resolve works on those
\* of its incident.
Keyed ==
    /\ \A k, m : Carries(links, k, m) => k = <<m.inc, m.target>>
    /\ \A r \in Requests, s \in Sinks : Busy(r, s) =>
         \A m \in SnapOf(work[r][s]) : LinkKeyNow(r, s) = <<m.inc, m.target>>

\* What a goroutine is about to announce is not known yet.
Fresh ==
    \A r \in Requests, s \in Sinks :
        Busy(r, s) /\ NoteOf(r, s).status = "firing" /\ Linkable(r, s) => ~Known(MessageNow(r, s))

Unlinked ==
    \A k, m : Carries(links, k, m) /\ m \in rewritten =>
        \E r \in Requests, s \in Sinks :
            /\ At(r, s, "rewrite") /\ LinkKeyNow(r, s) = k
            /\ mode = "edit" => work[r][s].at.edited > 0

\* What a step makes known.
LEMMA NewlyKnown ==
    ASSUME NEW r \in Requests, NEW s \in Sinks, NEW w, Step(r, s, w), NEW m, Known(m)'
    PROVE  \/ Known(m)
           \/ work[r][s].pc = "link" /\ w.pc \notin Holding /\ m = MessageNow(r, s)
<1>1. Knows(r, s, w) /\ work'[r][s] = w
    BY DEF Step, Stepped
<1>2. CASE m \in rewritten'
    <2>1. CASE m \in rewritten
        BY <2>1 DEF Known
    <2>2. CASE m \notin rewritten
        <3>1. m \in SnapOf(work[r][s]) /\ w.pc = "rewrite"
            BY <1>1, <1>2, <2>2 DEF Knows
        <3>2. Proceeds(r, s, w)
            BY <3>1, OwnPlace DEF Starts, Holding
        <3> QED
            BY <3>1, <3>2 DEF Known, Proceeds
    <2> QED
        BY <2>1, <2>2
<1>3. ASSUME NEW k, Carries(links', k, m)
      PROVE  \/ Known(m)
             \/ work[r][s].pc = "link" /\ w.pc \notin Holding /\ m = MessageNow(r, s)
    BY <1>1, <1>3 DEF Knows, Known
<1>4. ASSUME NEW q \in Requests, NEW x \in Sinks, Busy(q, x)', m \in SnapOf(work'[q][x])
      PROVE  Known(m)
    <2>1. CASE q # r \/ x # s
        <3>1. work'[q][x] = work[q][x] /\ Busy(q, x)
            BY <1>4, <2>1, OthersPlaces DEF SamePlace
        <3> QED
            BY <1>4, <3>1 DEF Known
    <2>2. CASE q = r /\ x = s
        <3>1. Starts(r, s, w) \/ Proceeds(r, s, w)
            BY <1>4, <2>2, OwnPlace
        <3>2. ~Starts(r, s, w)
            BY <1>1, <1>4, <2>2, CleanSnap DEF Starts
        <3>3. Busy(r, s)
            BY <3>1, <3>2 DEF Proceeds
        <3>4. m \in SnapOf(work[r][s]) \/ Carries(links, LinkKeyNow(r, s), m)
            BY <1>1, <1>4, <2>2 DEF Knows
        <3> QED
            BY <3>3, <3>4 DEF Known
    <2> QED
        BY <2>1, <2>2
<1>5. \/ m \in rewritten'
      \/ \E k : Carries(links', k, m)
      \/ \E q \in Requests, x \in Sinks : Busy(q, x)' /\ m \in SnapOf(work'[q][x])
    BY DEF Known, Carries, SnapOf
<1> QED
    BY <1>2, <1>3, <1>4, <1>5

\* A linked message landed in full.
LEMMA LinkedNow ==
    ASSUME IInv, Progress, NEW r \in Requests, NEW s \in Sinks, work[r][s].pc = "link", Running(r)
    PROVE  /\ Delivered(MessageNow(r, s))
           /\ Busy(r, s) /\ NoteOf(r, s).status = "firing" /\ Linkable(r, s)
           /\ NoteOf(r, s) = [status |-> "firing", inc |-> NoteOf(r, s).inc]
<1>1. Busy(r, s)
    BY DEF Busy, Holding
<1>2. Fitting(r, s, work[r][s]) /\ Borne(r, s, work[r][s], chat)
    BY <1>1 DEF Progress
<1>3. NoteOf(r, s) \in Notes
    BY <1>1, HereBusy DEF Running
<1>4. NoteOf(r, s) = [status |-> "firing", inc |-> NoteOf(r, s).inc] /\ Linkable(r, s)
    BY <1>2, <1>3 DEF Fitting, Notes
<1>5. ASSUME NEW p \in 1 .. PartsOf["firing"]
      PROVE  \E c \in Sent(r) : /\ c.part = p /\ c.target = TargetOf(r, s)
                                /\ c.note = [status |-> "firing", inc |-> NoteOf(r, s).inc]
    <2>1. Landing(r, s, p) \in chat
        BY <1>2, <1>5 DEF Borne
    <2>2. /\ Landing(r, s, p).req = r /\ Landing(r, s, p).part = p
          /\ Landing(r, s, p).target = TargetOf(r, s) /\ Landing(r, s, p).note = NoteOf(r, s)
        BY DEF Landing
    <2> QED
        BY <1>4, <2>1, <2>2 DEF Sent
<1>6. /\ MessageNow(r, s).req = r /\ MessageNow(r, s).inc = NoteOf(r, s).inc
      /\ MessageNow(r, s).target = TargetOf(r, s)
    BY DEF MessageNow
<1>7. FpOf[NoteOf(r, s).inc] # NoFp
    BY <1>4 DEF Linkable
<1> QED
    BY <1>1, <1>2, <1>4, <1>5, <1>6, <1>7 DEF Delivered, Fitting

LEMMA StepKnownDelivered ==
    ASSUME IInv, Progress, KnownDelivered, NEW r \in Requests, NEW s \in Sinks, NEW w,
           Step(r, s, w)
    PROVE  KnownDelivered'
<1> SUFFICES ASSUME NEW m, Known(m)'
             PROVE  Delivered(m)'
    BY DEF KnownDelivered
<1>1. Delivered(m)
    BY NewlyKnown, LinkedNow DEF KnownDelivered, Step, Stepped
<1>2. chat \subseteq chat'
    BY ChatAfter
<1> QED
    BY <1>1, <1>2 DEF Delivered, Sent

LEMMA StepKeyed ==
    ASSUME Keyed, NEW r \in Requests, NEW s \in Sinks, NEW w, Step(r, s, w)
    PROVE  Keyed'
<1>1. Knows(r, s, w) /\ work'[r][s] = w
    BY DEF Step, Stepped
<1>2. ASSUME NEW k, NEW m, Carries(links', k, m)
      PROVE  k = <<m.inc, m.target>>
    <2>1. Carries(links, k, m) \/ (k = LinkKeyNow(r, s) /\ m = MessageNow(r, s))
        BY <1>1, <1>2 DEF Knows
    <2> QED
        BY <2>1 DEF Keyed, LinkKeyNow, MessageNow
<1>3. ASSUME NEW q \in Requests, NEW x \in Sinks, Busy(q, x)', NEW m \in SnapOf(work'[q][x])
      PROVE  LinkKeyNow(q, x)' = <<m.inc, m.target>>
    <2>1. CASE q # r \/ x # s
        <3>1. work'[q][x] = work[q][x] /\ SamePlace(q, x)
            BY <2>1, OthersPlaces
        <3> QED
            BY <1>3, <3>1 DEF SamePlace, Keyed
    <2>2. CASE q = r /\ x = s
        <3>1. /\ LinkKeyNow(r, s)' = LinkKeyNow(r, s)
              /\ Starts(r, s, w) \/ Proceeds(r, s, w)
            BY <1>3, <2>2, OwnPlace
        <3>2. ~Starts(r, s, w)
            BY <1>1, <1>3, <2>2, CleanSnap DEF Starts
        <3>3. Busy(r, s)
            BY <3>1, <3>2 DEF Proceeds
        <3>4. m \in SnapOf(work[r][s]) \/ Carries(links, LinkKeyNow(r, s), m)
            BY <1>1, <1>3, <2>2 DEF Knows
        <3> QED
            BY <2>2, <3>1, <3>3, <3>4 DEF Keyed
    <2> QED
        BY <2>1, <2>2
<1>4. \A q \in Requests, x \in Sinks : Busy(q, x)' =>
        \A m \in SnapOf(work'[q][x]) : LinkKeyNow(q, x)' = <<m.inc, m.target>>
    BY <1>3
<1>5. \A k, m : Carries(links', k, m) => k = <<m.inc, m.target>>
    BY <1>2
<1> QED
    BY <1>4, <1>5 DEF Keyed, Carries, SnapOf

\* The dedup key of a note that is linkable.
LEMMA LinkableKey ==
    ASSUME IInv, NEW r \in Requests, NEW s \in Sinks, Linkable(r, s),
           work[r][s].ni \in DOMAIN req[r].payload
    PROVE  /\ KeyNow(r, s) = <<FpOf[NoteOf(r, s).inc], TargetOf(r, s), NoteOf(r, s).status>>
           /\ KeyNow(r, s) \in DedupKeys /\ KeyNow(r, s) # Keyless
<1>1. NoteOf(r, s) \in Notes /\ TargetOf(r, s) \in Targets
    BY KeyTyped DEF IInv, Sensible
<1>2. FpOf[NoteOf(r, s).inc] # NoFp
    BY DEF Linkable
<1>3. KeyNow(r, s) \in DedupKeys
    BY <1>1, <1>2, DeliveryAssumption DEF KeyNow
<1> QED
    BY <1>2, <1>3, DedupAssumption DEF KeyNow, Key

\* A request sends a firing message of one incident to one target only once:
\* its own reservation outlasts it.
LEMMA StartsFresh ==
    ASSUME IInv, Served, SentByRequests, KnownDelivered,
           NEW r \in Requests, NEW s \in Sinks, NEW w, Step(r, s, w), Starts(r, s, w),
           NoteOf(r, s).status = "firing", Linkable(r, s)
    PROVE  ~Known(MessageNow(r, s))
<1> SUFFICES ASSUME Known(MessageNow(r, s))
             PROVE  FALSE
    OBVIOUS
<1> DEFINE n == NoteOf(r, s)
           key == KeyNow(r, s)
<1>1. Running(r) /\ InLoop(r, s) /\ ~Suppressed(key)
    BY DEF Step, Stepped, Starts, Reserve
<1>2. work[r][s].ni \in DOMAIN req[r].payload /\ work[r][s].ti \in DOMAIN TargetsOf[s]
    BY <1>1, InLoopKey
<1>3. key \in DedupKeys /\ key # Keyless
    BY <1>2, LinkableKey
<1>4. PICK c \in Sent(r) : c.target = TargetOf(r, s) /\ c.note = [status |-> "firing", inc |-> n.inc]
    <2>1. Delivered(MessageNow(r, s))
        BY DEF KnownDelivered
    <2>2. /\ MessageNow(r, s).req = r /\ MessageNow(r, s).inc = n.inc
          /\ MessageNow(r, s).target = TargetOf(r, s)
        BY DEF MessageNow
    <2>3. 1 \in 1 .. PartsOf["firing"]
        BY DeliveryAssumption DEF Statuses
    <2> QED
        BY <2>1, <2>2, <2>3 DEF Delivered
<1>5. c \in chat /\ c.req = r /\ c.since \in Nat /\ now \in Nat /\ DedupTTL \in Nat
      /\ seen \in [DedupKeys -> Nat \cup {Absent}]
    BY <1>4, LandingTyped DEF Sent
<1>6. LandingKey(c) = key
    <2>1. n \in Notes
        BY <1>2, KeyTyped DEF IInv
    <2>2. n = [status |-> "firing", inc |-> n.inc]
        BY <2>1 DEF Notes
    <2> QED
        BY <1>4, <2>2 DEF LandingKey, KeyNow
<1>7. c.since <= now /\ now - c.since <= DedupTTL
    <2>1. req[r].start <= c.since /\ c.since <= now
        BY <1>1, <1>5 DEF SentByRequests, Served
    <2>2. now <= req[r].start + Budget /\ req[r].start \in Nat
        BY <1>1 DEF IInv, InBudget, Running, TypeOK, Request
    <2> QED
        BY <1>5, <2>1, <2>2, BudgetAssumption
<1>8. seen[key] = c.since \/ Until(key) - c.since > DedupTTL
    BY <1>3, <1>5, <1>6 DEF Served
<1>9. seen[key] = Absent \/ now - seen[key] > DedupTTL
    BY <1>1, <1>3, <1>5 DEF Suppressed, Absent
<1>10. seen[key] \in Nat \cup {Absent}
    BY <1>3, <1>5
<1> HIDE DEF key
<1> QED
    BY <1>5, <1>7, <1>8, <1>9, <1>10 DEF Until, Absent

LEMMA StepFresh ==
    ASSUME IInv, Progress, Served, SentByRequests, KnownDelivered, Fresh,
           NEW r \in Requests, NEW s \in Sinks, NEW w, Step(r, s, w)
    PROVE  Fresh'
<1> SUFFICES ASSUME NEW q \in Requests, NEW x \in Sinks, Busy(q, x)',
                    NoteOf(q, x)'.status = "firing", Linkable(q, x)', Known(MessageNow(q, x))'
             PROVE  FALSE
    BY DEF Fresh
<1> DEFINE m == MessageNow(q, x)
<1>1. Running(r)
    BY DEF Step, Stepped
<1>2. CASE q # r \/ x # s
    <2>1. SamePlace(q, x)
        BY <1>2, OthersPlaces
    <2>2. Busy(q, x) /\ NoteOf(q, x).status = "firing" /\ Linkable(q, x)
        BY <2>1 DEF SamePlace
    <2>3. ~Known(m)
        BY <2>2 DEF Fresh
    <2>4. PICK msg : msg = m /\ Known(msg)'
        BY <2>1 DEF SamePlace, Known
    <2>5. work[r][s].pc = "link" /\ m = MessageNow(r, s)
        BY <2>3, <2>4, NewlyKnown
    <2>6. /\ Busy(r, s) /\ Linkable(r, s) /\ NoteOf(r, s).status = "firing"
        BY <1>1, <2>5, LinkedNow
    <2>7. q = r /\ NoteOf(q, x).inc = NoteOf(r, s).inc /\ TargetOf(q, x) = TargetOf(r, s)
        BY <2>5 DEF MessageNow
    <2>8. KeyNow(r, s) = <<FpOf[NoteOf(r, s).inc], TargetOf(r, s), "firing">>
          /\ KeyNow(r, s) # Keyless
        BY <1>1, <2>6, LinkableKey, HereBusy DEF Running
    <2>9. KeyNow(q, x) = <<FpOf[NoteOf(q, x).inc], TargetOf(q, x), "firing">>
        BY <1>1, <2>2, <2>7, LinkableKey, HereBusy DEF Running
    <2>10. SameKey(q, x, r, s)
        BY <2>2, <2>6, <2>7, <2>8, <2>9 DEF SameKey
    <2> QED
        BY <1>2, <2>10 DEF IInv
<1>3. CASE q = r /\ x = s
    <2>1. /\ w.pc \in Holding
          /\ Starts(r, s, w) \/ Proceeds(r, s, w)
          /\ NoteOf(r, s)' = NoteOf(r, s) /\ MessageNow(r, s)' = MessageNow(r, s)
          /\ Linkable(r, s)' <=> Linkable(r, s)
        BY <1>3, OwnPlace
    <2>2. NoteOf(r, s).status = "firing" /\ Linkable(r, s)
        BY <1>3, <2>1
    <2>3. ~Known(MessageNow(r, s))
        BY <2>1, <2>2, StartsFresh DEF Fresh, Proceeds
    <2>4. PICK msg : msg = MessageNow(r, s) /\ Known(msg)'
        BY <1>3, <2>1 DEF Known
    <2> QED
        BY <2>1, <2>3, <2>4, NewlyKnown
<1> QED
    BY <1>2, <1>3

LEMMA StepUnlinked ==
    ASSUME IInv, Progress, Keyed, Fresh, Unlinked,
           NEW r \in Requests, NEW s \in Sinks, NEW w, Step(r, s, w)
    PROVE  Unlinked'
<1> SUFFICES ASSUME NEW k, NEW m, Carries(links', k, m), m \in rewritten'
             PROVE  \E q \in Requests, x \in Sinks :
                       /\ At(q, x, "rewrite")' /\ LinkKeyNow(q, x)' = k
                       /\ mode' = "edit" => work'[q][x].at.edited > 0
    BY DEF Unlinked, Carries
<1>1. /\ Running(r) /\ work'[r][s] = w /\ mode' = mode /\ req' = req
      /\ Knows(r, s, w) /\ Unlinks(r, s, w)
    BY DEF Step, Stepped
<1>2. CASE m \notin rewritten
    <2>1. m \in SnapOf(work[r][s]) /\ w.pc = "rewrite" /\ w.at.edited > 0
        BY <1>1, <1>2 DEF Knows
    <2>2. Busy(r, s) /\ LinkKeyNow(r, s)' = LinkKeyNow(r, s) /\ w.pc \in Holding
        BY <2>1, OwnPlace DEF Holding, Starts, Proceeds
    <2>3. LinkKeyNow(r, s) = <<m.inc, m.target>>
        BY <2>1, <2>2 DEF Keyed
    <2>4. k = <<m.inc, m.target>>
        BY <1>1, <2>1, <2>3 DEF Knows, Keyed, Holding
    <2>5. At(r, s, "rewrite")'
        BY <1>1, <2>1 DEF At, Running
    <2> QED
        BY <1>1, <2>1, <2>2, <2>3, <2>4, <2>5
<1>3. CASE m \in rewritten
    <2>1. Carries(links, k, m)
        <3> SUFFICES ASSUME ~Carries(links, k, m)
                     PROVE  FALSE
            OBVIOUS
        <3>1. work[r][s].pc = "link" /\ m = MessageNow(r, s)
            BY <1>1 DEF Knows
        <3>2. ~Known(m)
            BY <1>1, <3>1, LinkedNow DEF Fresh
        <3> QED
            BY <1>3, <3>2 DEF Known
    <2>2. PICK q \in Requests, x \in Sinks :
            /\ At(q, x, "rewrite") /\ LinkKeyNow(q, x) = k
            /\ mode = "edit" => work[q][x].at.edited > 0
        BY <1>3, <2>1 DEF Unlinked
    <2>3. CASE q # r \/ x # s
        <3>1. work'[q][x] = work[q][x] /\ SamePlace(q, x)
            BY <2>3, OthersPlaces
        <3>2. At(q, x, "rewrite")' /\ LinkKeyNow(q, x)' = k
            BY <1>1, <2>2, <3>1 DEF At, SamePlace
        <3> QED
            BY <1>1, <2>2, <3>1, <3>2
    <2>4. CASE q = r /\ x = s
        <3>1. work[r][s].pc = "rewrite" /\ LinkKeyNow(r, s) = k
            BY <2>2, <2>4 DEF At
        <3>2. work[r][s].at.edited \in Nat
            BY <1>1, Here DEF Running, Locals, TargetLocals
        <3>3. mode = "edit" => work[r][s].at.edited > 0
            BY <2>2, <2>4
        <3>4. w.pc = "rewrite" /\ w.at.edited >= work[r][s].at.edited
            BY <1>1, <3>1, <3>2, <3>3 DEF Unlinks
        <3>5. LinkKeyNow(r, s)' = k
            BY <3>1, <3>4, OwnPlace DEF Holding
        <3>6. At(r, s, "rewrite")'
            BY <1>1, <3>4 DEF At, Running
        <3>7. w.at.edited \in Nat
            BY OwnPlace DEF Locals, TargetLocals
        <3>8. mode = "edit" => w.at.edited > 0
            BY <3>2, <3>3, <3>4, <3>7
        <3> QED
            BY <1>1, <3>5, <3>6, <3>8
    <2> QED
        BY <2>3, <2>4
<1> QED
    BY <1>2, <1>3

LEMMA BackgroundKnown ==
    ASSUME Background
    PROVE  /\ \A m : Known(m)' => Known(m)
           /\ KnownDelivered => KnownDelivered'
           /\ Keyed => Keyed'
           /\ Fresh => Fresh'
           /\ Unlinked => Unlinked'
<1>1. links' = links /\ rewritten' = rewritten /\ chat' = chat /\ mode' = mode
    BY DEF Background
<1>2. \A q \in Requests, x \in Sinks :
        /\ Busy(q, x)' <=> Busy(q, x)
        /\ Busy(q, x) => /\ work'[q][x] = work[q][x]
                         /\ SamePlace(q, x)
                         /\ req'[q].state = req[q].state
    BY BackgroundPlaces
<1>3. ASSUME NEW m, Known(m)'
      PROVE  Known(m)
    BY <1>1, <1>2, <1>3 DEF Known, SnapOf, Carries
<1>4. ASSUME NEW m, Delivered(m)
      PROVE  Delivered(m)'
    BY <1>1, <1>4 DEF Delivered, Sent
<1>5. KnownDelivered => KnownDelivered'
    BY <1>3, <1>4 DEF KnownDelivered
<1>6. ASSUME Keyed
      PROVE  Keyed'
    <2>1. \A k, m : Carries(links', k, m) => k = <<m.inc, m.target>>
        BY <1>1, <1>6 DEF Keyed
    <2>2. ASSUME NEW q \in Requests, NEW x \in Sinks, Busy(q, x)', NEW m \in SnapOf(work'[q][x])
          PROVE  LinkKeyNow(q, x)' = <<m.inc, m.target>>
        BY <1>2, <1>6, <2>2 DEF Keyed, SamePlace
    <2>3. \A q \in Requests, x \in Sinks : Busy(q, x)' =>
            \A m \in SnapOf(work'[q][x]) : LinkKeyNow(q, x)' = <<m.inc, m.target>>
        BY <2>2
    <2> QED
        BY <2>1, <2>3 DEF Keyed, Carries, SnapOf
<1>7. ASSUME Fresh
      PROVE  Fresh'
    <2> SUFFICES ASSUME NEW q \in Requests, NEW x \in Sinks, Busy(q, x)',
                        NoteOf(q, x)'.status = "firing", Linkable(q, x)', Known(MessageNow(q, x))'
                 PROVE  FALSE
        BY DEF Fresh
    <2>1. Busy(q, x) /\ SamePlace(q, x)
        BY <1>2
    <2>2. PICK msg : msg = MessageNow(q, x) /\ Known(msg)'
        BY <2>1 DEF SamePlace, Known
    <2>3. Known(msg)
        BY <1>3, <2>2
    <2> QED
        BY <1>7, <2>1, <2>2, <2>3 DEF Fresh, SamePlace
<1>8. ASSUME Unlinked
      PROVE  Unlinked'
    <2> SUFFICES ASSUME NEW k, NEW m, Carries(links', k, m), m \in rewritten'
                 PROVE  \E q \in Requests, x \in Sinks :
                           /\ At(q, x, "rewrite")' /\ LinkKeyNow(q, x)' = k
                           /\ mode' = "edit" => work'[q][x].at.edited > 0
        BY DEF Unlinked, Carries
    <2>1. PICK q \in Requests, x \in Sinks :
            /\ At(q, x, "rewrite") /\ LinkKeyNow(q, x) = k
            /\ mode = "edit" => work[q][x].at.edited > 0
        BY <1>1, <1>8 DEF Unlinked
    <2>2. Busy(q, x)
        BY <2>1 DEF At, Busy, Holding
    <2> QED
        BY <1>1, <1>2, <2>1, <2>2 DEF At, SamePlace
<1> QED
    BY <1>3, <1>5, <1>6, <1>7, <1>8
-----------------------------------------------------------------------------
(* What the counts say of the chat. *)

Telling(r) == \E s \in Sinks : Gained(work[r][s]) \/ Pending(work[r][s])

Counted == \A r \in Requests : Running(r) => (Telling(r) <=> Sent(r) # {})

LEMMA StepCounted ==
    ASSUME IInv, IInv', OwnLandings', Counted,
           NEW r \in Requests, NEW s \in Sinks, NEW w, Step(r, s, w)
    PROVE  Counted'
<1> SUFFICES ASSUME NEW q \in Requests, Running(q)'
             PROVE  Telling(q)' <=> Sent(q)' # {}
    BY DEF Counted
<1>1. /\ Running(r) /\ work'[r][s] = w /\ mode' = mode /\ req' = req
      /\ Counts(r, s, w) /\ Confirms(r, s, w) /\ chat \subseteq chat'
    BY ChatAfter DEF Step, Stepped
<1>2. Telling(q) <=> Sent(q) # {}
    BY <1>1 DEF Counted, Running
<1>3. Sent(q) \subseteq Sent(q)'
    BY <1>1 DEF Sent
<1>4. \A x \in Sinks : q # r \/ x # s => work'[q][x] = work[q][x]
    BY OthersPlaces
<1>5. CASE q # r
    <2>1. Sent(q)' \subseteq Sent(q)
        <3> SUFFICES ASSUME NEW c \in chat', c.req = q
                     PROVE  c \in chat
            BY DEF Sent
        <3>1. \A p : Landing(r, s, p).req = r
            BY DEF Landing
        <3> QED
            BY <1>5, <3>1, ChatAfter
    <2>2. Telling(q)' <=> Telling(q)
        BY <1>1, <1>4, <1>5 DEF Telling, Gained, Pending
    <2> QED
        BY <1>2, <1>3, <2>1, <2>2
<1>6. CASE q = r
    <2>1. ASSUME Telling(r)
          PROVE  Telling(r)'
        <3>1. PICK x \in Sinks : Gained(work[r][x]) \/ Pending(work[r][x])
            BY <2>1 DEF Telling
        <3>2. Gained(work'[r][x]) \/ (Pending(work[r][x]))'
            <4>1. CASE x = s
                <5>1. Gained(w) \/ Pending(w)
                    BY <1>1, <3>1, <4>1 DEF Counts
                <5> QED
                    BY <1>1, <4>1, <5>1 DEF Pending
            <4>2. CASE x # s
                BY <1>1, <1>4, <1>6, <3>1, <4>2 DEF Pending
            <4> QED
                BY <4>1, <4>2
        <3> QED
            BY <3>2 DEF Telling, Gained
    <2>2. ASSUME Sent(r)' # {}
          PROVE  Telling(r)'
        <3>1. CASE chat' = chat
            BY <1>2, <1>6, <2>1, <2>2, <3>1 DEF Sent
        <3>2. CASE chat' # chat
            <4>1. Gained(w) \/ Pending(w)
                BY <1>1, <3>2 DEF Confirms
            <4> QED
                BY <1>1, <4>1 DEF Telling, Gained, Pending
        <3> QED
            BY <3>1, <3>2
    <2>3. ASSUME Telling(r)'
          PROVE  Sent(r)' # {}
        <3>1. PICK x \in Sinks : Gained(work'[r][x]) \/ Pending(work[r][x])'
            BY <2>3 DEF Telling, Gained
        <3>2. CASE x # s
            <4>1. Telling(r)
                BY <1>1, <1>4, <1>6, <3>1, <3>2 DEF Telling, Pending
            <4> QED
                BY <1>2, <1>3, <1>6, <4>1
        <3>3. CASE x = s
            <4>1. ASSUME NEW p, Landing(r, s, p) \in chat'
                  PROVE  Sent(r)' # {}
                <5>1. Landing(r, s, p).req = r
                    BY DEF Landing
                <5> QED
                    BY <4>1, <5>1 DEF Sent
            <4>2. CASE Gained(w)
                <5>1. \/ Gained(work[r][s]) \/ Pending(work[r][s])
                      \/ \E p \in Nat : Landing(r, s, p) \in chat'
                    BY <1>1, <4>2 DEF Counts
                <5> QED
                    BY <1>2, <1>3, <1>6, <4>1, <5>1 DEF Telling
            <4>3. CASE Pending(w)
                <5>1. w.pc = "rewrite" /\ mode = "edit" /\ w.at.edited > 0 /\ w.pc \in Holding
                    BY <4>3 DEF Pending, Holding
                <5>2. Proceeds(r, s, w)
                    BY <5>1, OwnPlace DEF Starts
                <5>3. Fitting(r, s, w) /\ Promising(mode, w)
                    BY <5>1 DEF Step, Promising
                <5>4. Linkable(r, s) /\ work[r][s].ni \in DOMAIN req[r].payload
                    BY <1>1, <5>1, <5>2, <5>3, HereBusy DEF Fitting, Proceeds, Running
                <5>5. KeyNow(r, s) # Keyless /\ KeyNow(r, s)' = KeyNow(r, s) /\ Busy(r, s)'
                    BY <5>1, <5>4, LinkableKey, OwnPlace
                <5>6. PICK c \in chat' : LandingKey(c) = KeyNow(r, s)' /\ c.since = w.since
                    <6>1. Reserved(r, s)'
                        BY DEF IInv
                    <6> QED
                        BY <1>1, <5>3, <5>5, <6>1 DEF Reserved, Landed
                <5>7. c.req = r
                    BY <1>1, <5>5, <5>6 DEF OwnLandings
                <5> QED
                    BY <5>6, <5>7 DEF Sent
            <4> QED
                BY <1>1, <3>1, <3>3, <4>2, <4>3 DEF Pending
        <3> QED
            BY <3>2, <3>3
    <2> QED
        BY <1>6, <2>1, <2>2, <2>3
<1> QED
    BY <1>5, <1>6

LEMMA IdleLocals ==
    /\ ~Gained(Idle) /\ ~Pending(Idle) /\ Idle.err = 0 /\ ~Idle.cut /\ Idle.pc = "next"
    /\ Idle.ni = 1 /\ Idle.ti = 1 /\ Idle.got = {}
BY DEF Gained, Pending, Idle

LEMMA BackgroundCounted ==
    ASSUME IInv, SentByRequests, Counted, Background
    PROVE  Counted'
<1> SUFFICES ASSUME NEW q \in Requests, Running(q)'
             PROVE  Telling(q)' <=> Sent(q)' # {}
    BY DEF Counted
<1>1. /\ Stays(q) \/ Arrives(q) \/ Answers(q)
      /\ chat' = chat /\ mode' = mode
    BY DEF Background
<1>2. Sent(q)' = Sent(q)
    BY <1>1 DEF Sent
<1>3. CASE Stays(q)
    <2>1. Running(q) /\ \A x \in Sinks : work'[q][x] = work[q][x]
        BY <1>3 DEF Stays, Running
    <2>2. Telling(q)' <=> Telling(q)
        BY <1>1, <2>1 DEF Telling, Gained, Pending
    <2> QED
        BY <1>2, <2>1, <2>2 DEF Counted
<1>4. CASE Arrives(q)
    <2>1. Sent(q) = {}
        BY <1>4 DEF Arrives, Sent, SentByRequests
    <2>2. \A x \in Sinks : work'[q][x] = Idle
        BY <1>4 DEF Arrives
    <2>3. ~Telling(q)'
        BY <1>1, <2>2, IdleLocals DEF Telling, Gained, Pending
    <2> QED
        BY <1>2, <2>1, <2>3
<1>5. CASE Answers(q)
    BY <1>5 DEF Answers, Running
<1> QED
    BY <1>1, <1>3, <1>4, <1>5

\* A sink that met no error has settled what it passed, and it ends early only
\* when the context was gone.
Passed(i, j, w) == i < w.ni \/ (i = w.ni /\ j < w.ti)

Spared(s, i, j, w) == \E g \in w.got : g.note = i /\ g.target = TargetsOf[s][j] /\ g.as \in Good

Settlement ==
    \A r \in Requests, s \in Sinks : Running(r) /\ ~work[r][s].cut =>
        /\ work[r][s].err = 0 =>
             \A i \in DOMAIN req[r].payload, j \in DOMAIN TargetsOf[s] :
                Passed(i, j, work[r][s]) => Spared(s, i, j, work[r][s])
        /\ work[r][s].pc = "done" => work[r][s].ni > Len(req[r].payload)

LEMMA PassedNext ==
    ASSUME NEW r, NEW s \in Sinks, NEW w, NEW outcome, NextTarget(r, s, w, outcome),
           work[r][s] \in Locals, work[r][s].ti \in DOMAIN TargetsOf[s],
           NEW i \in Nat, NEW j \in DOMAIN TargetsOf[s], Passed(i, j, w)
    PROVE  Passed(i, j, work[r][s]) \/ (i = work[r][s].ni /\ j = work[r][s].ti)
<1>1. /\ DOMAIN TargetsOf[s] = 1 .. Len(TargetsOf[s]) /\ Len(TargetsOf[s]) \in Nat
    BY DeliveryAssumption, LenProperties
<1>2. work[r][s].ni \in Nat /\ work[r][s].ti \in 1 .. Len(TargetsOf[s])
    BY <1>1 DEF Locals
<1>3. \/ work[r][s].ti = Len(TargetsOf[s]) /\ w.ti = 1 /\ w.ni = work[r][s].ni + 1
      \/ w.ti = work[r][s].ti + 1 /\ w.ni = work[r][s].ni
    BY DEF NextTarget
<1> QED
    BY <1>1, <1>2, <1>3 DEF Passed

LEMMA StepSettlement ==
    ASSUME IInv, Settlement, NEW r \in Requests, NEW s \in Sinks, NEW w, Step(r, s, w)
    PROVE  Settlement'
<1> SUFFICES ASSUME NEW q \in Requests, NEW x \in Sinks, Running(q)', ~work'[q][x].cut
             PROVE  /\ work'[q][x].err = 0 =>
                         \A i \in DOMAIN req'[q].payload, j \in DOMAIN TargetsOf[x] :
                            Passed(i, j, work'[q][x]) => Spared(x, i, j, work'[q][x])
                    /\ work'[q][x].pc = "done" => work'[q][x].ni > Len(req'[q].payload)
    BY DEF Settlement, Passed, Spared
<1>1. Running(r) /\ work'[r][s] = w /\ req' = req /\ Goes(r, s, w) /\ w \in Locals
      /\ work[r][s].err <= w.err /\ work[r][s] \in Locals
      /\ work[r][s].ti \in DOMAIN TargetsOf[s] /\ req[r] \in Request
    BY Here DEF Step, Stepped, Counts, Running, Sensible
<1>2. CASE q # r \/ x # s
    <2>1. work'[q][x] = work[q][x] /\ Running(q)
        BY <1>1, <1>2, OthersPlaces DEF Running
    <2> QED
        BY <1>1, <2>1 DEF Settlement
<1>3. CASE q = r /\ x = s
    <2> DEFINE old == work[r][s]
    <2>1. ~w.cut /\ (w.err = 0 => old.err = 0)
        BY <1>1, <1>3 DEF Locals
    <2>2. ~old.cut
        BY <1>1, <2>1
        DEF Goes, Stops, GivesUp, Skips, Starts, Proceeds, Settles, NextTarget
    <2>3. /\ old.err = 0 =>
                \A i \in DOMAIN req[r].payload, j \in DOMAIN TargetsOf[s] :
                   Passed(i, j, old) => Spared(s, i, j, old)
          /\ old.pc = "done" => old.ni > Len(req[r].payload)
        BY <1>1, <2>2 DEF Settlement
    <2>4. w.pc = "done" => w.ni > Len(req[r].payload)
        BY <1>1, <2>1
        DEF Goes, Stops, GivesUp, Skips, Starts, Proceeds, Settles, NextTarget, Holding
    <2>5. ASSUME w.err = 0, NEW i \in DOMAIN req[r].payload, NEW j \in DOMAIN TargetsOf[s],
                 Passed(i, j, w)
          PROVE  Spared(s, i, j, w)
        <3>1. \/ SameTarget(r, s, w)
              \/ \E outcome \in Good : NextTarget(r, s, w, outcome)
            <4>1. w.err \in Nat
                BY <1>1 DEF Locals
            <4> QED
                BY <1>1, <2>1, <2>5, <4>1
                DEF Goes, Stops, GivesUp, Skips, Starts, Proceeds, Settles, Good
        <3>2. CASE SameTarget(r, s, w)
            BY <2>1, <2>3, <2>5, <3>2 DEF SameTarget, Passed, Spared
        <3>3. ASSUME NEW outcome \in Good, NextTarget(r, s, w, outcome)
              PROVE  Spared(s, i, j, w)
            <4> DEFINE g == [note |-> old.ni, target |-> TargetOf(r, s), as |-> outcome]
            <4>1. w.got = old.got \cup {g}
                BY <3>3 DEF NextTarget
            <4>2. i \in Nat
                <5>1. req[r].payload \in Seq(Notes)
                    BY <1>1, PayloadTyped DEF Request
                <5> QED
                    BY <2>5, <5>1, LenProperties
            <4>3. Passed(i, j, old) \/ (i = old.ni /\ j = old.ti)
                BY <1>1, <2>5, <3>3, <4>2, PassedNext
            <4>4. CASE Passed(i, j, old)
                BY <2>1, <2>3, <2>5, <4>1, <4>4 DEF Spared
            <4>5. CASE i = old.ni /\ j = old.ti
                <5>1. g \in w.got /\ g.note = i /\ g.target = TargetsOf[s][j] /\ g.as \in Good
                    BY <3>3, <4>1, <4>5 DEF TargetOf
                <5> QED
                    BY <5>1 DEF Spared
            <4> QED
                BY <4>3, <4>4, <4>5
        <3> QED
            BY <3>1, <3>2, <3>3
    <2> QED
        BY <1>1, <1>3, <2>4, <2>5
<1> QED
    BY <1>2, <1>3

LEMMA BackgroundSettlement ==
    ASSUME IInv', Settlement, Background
    PROVE  Settlement'
<1> SUFFICES ASSUME NEW q \in Requests, NEW x \in Sinks, Running(q)', ~work'[q][x].cut
             PROVE  /\ work'[q][x].err = 0 =>
                         \A i \in DOMAIN req'[q].payload, j \in DOMAIN TargetsOf[x] :
                            Passed(i, j, work'[q][x]) => Spared(x, i, j, work'[q][x])
                    /\ work'[q][x].pc = "done" => work'[q][x].ni > Len(req'[q].payload)
    BY DEF Settlement, Passed, Spared
<1>1. Stays(q) \/ Arrives(q) \/ Answers(q)
    BY DEF Background
<1>2. CASE Stays(q)
    <2>1. /\ Running(q) /\ work'[q][x] = work[q][x] /\ req'[q].payload = req[q].payload
        BY <1>2 DEF Stays, Running
    <2> QED
        BY <2>1 DEF Settlement
<1>3. CASE Arrives(q)
    <2>1. work'[q][x] = Idle
        BY <1>3 DEF Arrives
    <2>2. req'[q].payload \in Seq(Notes) /\ DOMAIN TargetsOf[x] = 1 .. Len(TargetsOf[x])
        <3>1. req'[q].payload \in Carried
            BY DEF IInv, TypeOK, Request
        <3> QED
            BY <3>1, PayloadTyped, DeliveryAssumption, LenProperties
    <2>3. ASSUME NEW i \in DOMAIN req'[q].payload, NEW j \in DOMAIN TargetsOf[x]
          PROVE  ~Passed(i, j, Idle)
        BY <2>2, LenProperties, IdleLocals DEF Passed
    <2> QED
        BY <2>1, <2>3, IdleLocals
<1>4. CASE Answers(q)
    BY <1>4 DEF Answers, Running
<1> QED
    BY <1>1, <1>2, <1>3, <1>4
-----------------------------------------------------------------------------
(* What an answer says of the sinks.                                         *)

LEMMA CountsCompare ==
    ASSUME IInv, NEW r \in Requests
    PROVE  /\ Attempts(r) \in Nat /\ Errors(r) \in Nat /\ Errors(r) <= Attempts(r)
           /\ Errors(r) = Attempts(r) <=> \A s \in Sinks : work[r][s].err = work[r][s].att
           /\ Attempts(r) = 0 => \A s \in Sinks : work[r][s].att = 0
           /\ Errors(r) = 0 => \A s \in Sinks : work[r][s].err = 0
<1> DEFINE e == [s \in Sinks |-> work[r][s].err]
           f == [s \in Sinks |-> work[r][s].att]
<1>1. IsFiniteSet(Sinks)
    BY DeliveryAssumption
<1>2. \A s \in Sinks : work[r][s] \in Locals /\ work[r][s].err <= work[r][s].att
    BY DEF IInv, TypeOK
<1>3. /\ e \in [Sinks -> Nat] /\ f \in [Sinks -> Nat]
      /\ \A s \in Sinks : e[s] = work[r][s].err /\ f[s] = work[r][s].att
    BY <1>2 DEF Locals
<1>4. \A s \in Sinks : e[s] <= f[s] /\ e[s] <= e[s]
    BY <1>2, <1>3 DEF Locals
<1>5. Errors(r) = SumFunction(e) /\ Attempts(r) = SumFunction(f)
    BY DEF Errors, Attempts
<1>6. (\A s \in Sinks : work[r][s].err = work[r][s].att) => e = f
    OBVIOUS
<1> HIDE DEF e, f
<1>7. /\ SumFunction(e) \in Nat /\ SumFunction(f) \in Nat
      /\ SumFunction(e) <= SumFunction(f)
      /\ SumFunction(e) = SumFunction(f) => e = f
      /\ SumFunction(f) = 0 => \A s \in Sinks : f[s] = 0
    BY <1>1, <1>3, <1>4, SumsCompare
<1>8. SumFunction(e) = 0 => \A s \in Sinks : e[s] = 0
    BY <1>1, <1>3, <1>4, SumsCompare
<1> QED
    BY <1>3, <1>5, <1>6, <1>7, <1>8

\* A caller is reassured only by sinks that met no error and no deadline; 200
\* is for a request that gained something, 204 and 500 are for one that did
\* not.
LEMMA StatusSays ==
    ASSUME IInv, NEW r \in Requests
    PROVE  /\ Status(r) \in {200, 204} =>
                 \A s \in Sinks : work[r][s].err = 0 /\ ~work[r][s].cut
           /\ Status(r) = 200 => \E s \in Sinks : Gained(work[r][s])
           /\ Status(r) \in {204, 500} => \A s \in Sinks : ~Gained(work[r][s])
<1>1. \A s \in Sinks : /\ work[r][s].err \in Nat /\ work[r][s].att \in Nat
                       /\ work[r][s].err <= work[r][s].att
    BY DEF IInv, TypeOK, Locals
<1>2. /\ Attempts(r) \in Nat /\ Errors(r) \in Nat /\ Errors(r) <= Attempts(r)
      /\ Errors(r) = Attempts(r) <=> \A s \in Sinks : work[r][s].err = work[r][s].att
      /\ Attempts(r) = 0 => \A s \in Sinks : work[r][s].att = 0
      /\ Errors(r) = 0 => \A s \in Sinks : work[r][s].err = 0
    BY CountsCompare
<1>3. /\ Status(r) \in {200, 204} => ~DeadlineHit(r)
      /\ Status(r) = 204 => Attempts(r) = 0
      /\ Status(r) = 200 => Attempts(r) > 0 /\ Errors(r) = 0
      /\ Status(r) = 500 => Errors(r) = Attempts(r)
    BY <1>2 DEF Status, ByCounts
<1>4. Status(r) = 204 => Errors(r) = 0 /\ Errors(r) = Attempts(r)
    BY <1>2, <1>3
<1>5. Status(r) \in {200, 204} => \A s \in Sinks : work[r][s].err = 0 /\ ~work[r][s].cut
    BY <1>2, <1>3, <1>4 DEF DeadlineHit
<1>6. Status(r) = 200 => \E s \in Sinks : work[r][s].err # work[r][s].att
    BY <1>2, <1>3
<1>7. Status(r) \in {204, 500} => \A s \in Sinks : work[r][s].err = work[r][s].att
    BY <1>2, <1>3, <1>4
<1> QED
    BY <1>1, <1>5, <1>6, <1>7 DEF Gained

\* Every target is some sink's, and the payload of a request starts at 1.
LEMMA AnswerSettled ==
    ASSUME IInv, Settlement, NEW r \in Requests, Answer(r), Status(r) \in {200, 204},
           NEW i \in DOMAIN req[r].payload, NEW t \in Targets
    PROVE  \E s \in Sinks : \E g \in work[r][s].got :
                g.note = i /\ g.target = t /\ g.as \in Good
<1>0. PICK s \in Sinks : \E j \in DOMAIN TargetsOf[s] : t = TargetsOf[s][j]
    BY DEF Targets
<1>1. PICK j \in DOMAIN TargetsOf[s] : t = TargetsOf[s][j]
    BY <1>0
<1>2. work[r][s].err = 0 /\ ~work[r][s].cut
    BY StatusSays
<1>3. Running(r) /\ work[r][s].pc = "done" /\ work[r][s] \in Locals
    BY DEF Answer, Running, IInv, TypeOK
<1>4. /\ work[r][s].ni > Len(req[r].payload)
      /\ Passed(i, j, work[r][s]) => Spared(s, i, j, work[r][s])
    BY <1>2, <1>3 DEF Settlement
<1>5. i \in 1 .. Len(req[r].payload) /\ Len(req[r].payload) \in Nat
    <2>1. req[r].payload \in Carried
        BY DEF IInv, TypeOK, Request
    <2> QED
        BY <2>1, PayloadTyped, LenProperties
<1>6. work[r][s].ni \in Nat
    BY <1>3 DEF Locals
<1>7. Passed(i, j, work[r][s])
    BY <1>4, <1>5, <1>6 DEF Passed
<1> QED
    BY <1>1, <1>4, <1>7 DEF Spared
-----------------------------------------------------------------------------
(* Where a delivery that somebody was told of, or counts on, has gone.       *)

Lossy(q) == \E s \in Sinks : work[q][s].err > 0 \/ work[q][s].cut

\* The caller of q was, or will be, told of a loss.
Troubled(q) ==
    \/ Running(q) /\ Lossy(q)
    \/ req[q].state = "answered" /\ ~Reassured(q)

Accounted(k) ==
    \/ \E c \in chat : LandingKey(c) = k
    \/ \E q \in Requests, x \in Sinks : Busy(q, x) /\ KeyNow(q, x) = k
    \/ \E q \in Requests : Troubled(q) /\ k \in KeysOfRequest(q)

\* A target the goroutine counts as settled is one of the payload's, and
\* accounted for.
Settling(r, s) ==
    \A g \in work[r][s].got : g.as \in Good =>
        /\ g.note \in DOMAIN req[r].payload
        /\ \A k : k = Key(req[r].payload[g.note], g.target) /\ k # Keyless => Accounted(k)

Accounts ==
    /\ \A r \in Requests, s \in Sinks : Running(r) => Settling(r, s)
    /\ \A r \in Requests : Reassured(r) => \A k \in KeysOfRequest(r) : Accounted(k)

LEMMA BusyKey ==
    ASSUME IInv, NEW r \in Requests, NEW s \in Sinks, Running(r), Busy(r, s),
           KeyNow(r, s) # Keyless
    PROVE  KeyNow(r, s) \in KeysOfRequest(r)
<1>1. work[r][s].ni \in DOMAIN req[r].payload /\ TargetOf(r, s) \in Targets
    BY HereBusy DEF Running
<1> QED
    BY <1>1 DEF KeyNow, NoteOf, KeysOfRequest

\* Neither errors nor the end of the budget are forgotten.
LEMMA LossStays ==
    ASSUME IInv, NEW r \in Requests, NEW s \in Sinks, NEW w, Step(r, s, w),
           work[r][s].err > 0 \/ work[r][s].cut
    PROVE  w.err > 0 \/ w.cut
<1>1. Goes(r, s, w) /\ work[r][s].err <= w.err /\ w \in Locals /\ work[r][s] \in Locals
    BY DEF Step, Stepped, Counts, IInv, TypeOK
<1>2. work[r][s].cut => w.cut
    BY <1>1 DEF Goes, Stops, GivesUp, Skips, Starts, Proceeds, Settles, NextTarget
<1>3. work[r][s].err > 0 => w.err > 0
    BY <1>1 DEF Locals
<1> QED
    BY <1>2, <1>3

LEMMA StepTroubled ==
    ASSUME IInv, NEW r \in Requests, NEW s \in Sinks, NEW w, Step(r, s, w),
           NEW q \in Requests, Troubled(q)
    PROVE  Troubled(q)' /\ KeysOfRequest(q)' = KeysOfRequest(q)
<1>1. req' = req /\ work'[r][s] = w
    BY DEF Step, Stepped
<1>2. KeysOfRequest(q)' = KeysOfRequest(q) /\ (Reassured(q)' <=> Reassured(q))
    BY <1>1 DEF KeysOfRequest, Reassured
<1>3. ASSUME Lossy(q)
      PROVE  Lossy(q)'
    <2>1. PICK x \in Sinks : work[q][x].err > 0 \/ work[q][x].cut
        BY <1>3 DEF Lossy
    <2>2. work'[q][x].err > 0 \/ work'[q][x].cut
        <3>1. CASE q # r \/ x # s
            <4>1. work'[q][x] = work[q][x]
                BY <3>1, OthersPlaces
            <4> QED
                BY <2>1, <4>1
        <3>2. CASE q = r /\ x = s
            BY <1>1, <2>1, <3>2, LossStays
        <3> QED
            BY <3>1, <3>2
    <2> QED
        BY <2>2 DEF Lossy
<1> QED
    BY <1>1, <1>2, <1>3 DEF Troubled, Running

\* What is accounted for stays so: a goroutine that lets a key go has landed
\* something of it, or has a loss to report.
LEMMA StepAccounted ==
    ASSUME IInv, NEW r \in Requests, NEW s \in Sinks, NEW w, Step(r, s, w),
           NEW k, k # Keyless, Accounted(k)
    PROVE  Accounted(k)'
<1>1. Running(r) /\ req' = req /\ work'[r][s] = w /\ chat \subseteq chat'
    BY ChatAfter DEF Step, Stepped
<1>2. CASE \E c \in chat : LandingKey(c) = k
    BY <1>1, <1>2 DEF Accounted
<1>3. CASE \E q \in Requests : Troubled(q) /\ k \in KeysOfRequest(q)
    BY <1>3, StepTroubled DEF Accounted
<1>4. ASSUME NEW q \in Requests, NEW x \in Sinks, Busy(q, x), KeyNow(q, x) = k
      PROVE  Accounted(k)'
    <2>1. CASE q # r \/ x # s
        <3>1. Busy(q, x)' /\ KeyNow(q, x)' = k
            BY <1>4, <2>1, OthersPlaces DEF SamePlace
        <3> QED
            BY <3>1 DEF Accounted
    <2>2. CASE q = r /\ x = s /\ w.pc \in Holding
        <3>1. Busy(q, x)' /\ KeyNow(q, x)' = k
            BY <1>4, <2>2, OwnPlace
        <3> QED
            BY <3>1 DEF Accounted
    <2>3. CASE q = r /\ x = s /\ w.pc \notin Holding
        <3>1. Leaves(r, s, w)
            BY <1>4, <2>3
            DEF Step, Goes, Stops, GivesUp, Skips, Starts, Proceeds, Settles, Holding
        <3>2. Landed(chat', k, work[r][s].since) \/ w.err > 0 \/ w.cut
            BY <1>4, <2>3, <3>1 DEF Leaves
        <3>3. CASE Landed(chat', k, work[r][s].since)
            BY <3>3 DEF Landed, Accounted
        <3>4. CASE w.err > 0 \/ w.cut
            <4>1. Troubled(r)'
                BY <1>1, <3>4 DEF Troubled, Running, Lossy
            <4>2. k \in KeysOfRequest(r)
                BY <1>1, <1>4, <2>3, BusyKey
            <4>3. k \in KeysOfRequest(r)'
                BY <1>1, <4>2 DEF KeysOfRequest
            <4> QED
                BY <4>1, <4>3 DEF Accounted
        <3> QED
            BY <3>2, <3>3, <3>4
    <2> QED
        BY <2>1, <2>2, <2>3
<1> QED
    BY <1>2, <1>3, <1>4 DEF Accounted

LEMMA BackgroundAccounted ==
    ASSUME IInv, Background, NEW k, Accounted(k)
    PROVE  Accounted(k)'
<1>1. chat' = chat
    BY DEF Background
<1>2. CASE \E c \in chat : LandingKey(c) = k
    BY <1>1, <1>2 DEF Accounted
<1>3. CASE \E q \in Requests, x \in Sinks : Busy(q, x) /\ KeyNow(q, x) = k
    BY <1>3, BackgroundPlaces DEF Accounted, SamePlace
<1>4. ASSUME NEW q \in Requests, Troubled(q), k \in KeysOfRequest(q)
      PROVE  Accounted(k)'
    <2>1. Stays(q) \/ Arrives(q) \/ Answers(q)
        BY DEF Background
    <2>2. CASE Stays(q)
        <3>1. Troubled(q)'
            BY <1>4, <2>2 DEF Troubled, Lossy, Reassured, Running, Stays
        <3>2. k \in KeysOfRequest(q)'
            BY <1>4, <2>2 DEF KeysOfRequest, Stays
        <3> QED
            BY <3>1, <3>2 DEF Accounted
    <2>3. CASE Arrives(q)
        BY <1>4, <2>3 DEF Troubled, Running, Arrives
    <2>4. CASE Answers(q)
        <3>1. Lossy(q)
            BY <1>4, <2>4 DEF Troubled, Answers, Running
        <3>2. Status(q) \notin {200, 204}
            <4>1. \A s \in Sinks : work[q][s].err \in Nat
                BY DEF IInv, TypeOK, Locals
            <4> QED
                BY <3>1, <4>1, StatusSays DEF Lossy
        <3>3. Troubled(q)'
            BY <2>4, <3>2 DEF Troubled, Reassured, Answers
        <3>4. k \in KeysOfRequest(q)'
            BY <1>4, <2>4 DEF KeysOfRequest, Answers
        <3> QED
            BY <3>3, <3>4 DEF Accounted
    <2> QED
        BY <2>1, <2>2, <2>3, <2>4
<1> QED
    BY <1>2, <1>3, <1>4 DEF Accounted

LEMMA SameSettling ==
    ASSUME NEW r \in Requests, NEW s \in Sinks, Settling(r, s),
           work'[r][s].got = work[r][s].got, req'[r].payload = req[r].payload,
           \A k : k # Keyless /\ Accounted(k) => Accounted(k)'
    PROVE  Settling(r, s)'
<1> SUFFICES ASSUME NEW g \in work'[r][s].got, g.as \in Good
             PROVE  /\ g.note \in DOMAIN req'[r].payload
                    /\ \A k : k = Key(req'[r].payload[g.note], g.target) /\ k # Keyless =>
                            Accounted(k)'
    BY DEF Settling
<1> QED
    BY DEF Settling

LEMMA StepAccounts ==
    ASSUME IInv, Accounts, NEW r \in Requests, NEW s \in Sinks, NEW w, Step(r, s, w)
    PROVE  Accounts'
<1>1. /\ Running(r) /\ req' = req /\ work'[r][s] = w /\ chat \subseteq chat'
      /\ Goes(r, s, w)
    BY ChatAfter DEF Step, Stepped
<1>2. \A k : k # Keyless /\ Accounted(k) => Accounted(k)'
    BY StepAccounted
<1>3. ASSUME NEW q \in Requests, Reassured(q)', NEW k \in KeysOfRequest(q)'
      PROVE  Accounted(k)'
    <2>1. Reassured(q) /\ k \in KeysOfRequest(q)
        BY <1>1, <1>3 DEF Reassured, KeysOfRequest
    <2> QED
        BY <1>2, <2>1 DEF Accounts, KeysOfRequest
<1>4. ASSUME NEW q \in Requests, NEW x \in Sinks, Running(q)'
      PROVE  Settling(q, x)'
    <2>1. Settling(q, x)
        BY <1>1, <1>4 DEF Accounts, Running
    <2>2. CASE q # r \/ x # s
        <3>1. work'[q][x] = work[q][x]
            BY <2>2, OthersPlaces
        <3> QED
            BY <1>1, <1>2, <2>1, <3>1, SameSettling
    <2>3. CASE q = r /\ x = s /\ w.got = work[r][s].got
        BY <1>1, <1>2, <2>1, <2>3, SameSettling
    <2>4. CASE q = r /\ x = s /\ w.got # work[r][s].got
        <3> DEFINE old == work[r][s]
        <3>1. PICK outcome : /\ NextTarget(r, s, w, outcome)
                             /\ outcome \in Good =>
                                   \/ Skips(r, s, w)
                                   \/ /\ Busy(r, s)
                                      /\ Landed(chat', KeyNow(r, s), old.since)
            BY <1>1, <2>4 DEF Goes, Stops, GivesUp, Skips, Starts, Proceeds, Settles, SameTarget
        <3>2. PICK k : k = KeyNow(r, s)
            OBVIOUS
        <3>3. ASSUME outcome \in Good
              PROVE  /\ old.ni \in DOMAIN req[r].payload
                     /\ k # Keyless => Accounted(k)'
            <4>1. CASE Skips(r, s, w)
                <5>1. InLoop(r, s) /\ Suppressed(k)
                    BY <3>2, <4>1 DEF Skips
                <5>2. /\ old.ni \in DOMAIN req[r].payload
                      /\ k \in DedupKeys \cup {Keyless}
                    BY <3>2, <5>1, InLoopKey, KeyTyped DEF IInv
                <5>3. ASSUME k # Keyless
                      PROVE  Accounted(k)
                    <6>1. k \in DedupKeys /\ seen[k] # Absent /\ ReservationHasOwner
                        BY <5>1, <5>2, <5>3 DEF Suppressed, IInv
                    <6> QED
                        BY <6>1 DEF ReservationHasOwner, Holds, Busy, Accounted
                <5> QED
                    BY <1>2, <5>2, <5>3
            <4>2. CASE Busy(r, s) /\ Landed(chat', KeyNow(r, s), old.since)
                BY <1>1, <3>2, <4>2, HereBusy DEF Landed, Accounted, Running
            <4> QED
                BY <3>1, <3>3, <4>1, <4>2
        <3> SUFFICES ASSUME NEW g \in w.got, g.as \in Good
                     PROVE  /\ g.note \in DOMAIN req[r].payload
                            /\ \A key : /\ key = Key(req[r].payload[g.note], g.target)
                                        /\ key # Keyless
                                        => Accounted(key)'
            BY <1>1, <2>4 DEF Settling
        <3>4. CASE g \in old.got
            BY <1>2, <2>1, <2>4, <3>4 DEF Settling
        <3>5. CASE g \notin old.got
            <4>1. g = [note |-> old.ni, target |-> TargetOf(r, s), as |-> outcome]
                BY <3>1, <3>5 DEF NextTarget
            <4>2. g.note = old.ni /\ g.target = TargetOf(r, s) /\ outcome \in Good
                BY <4>1
            <4>3. k = Key(req[r].payload[g.note], g.target)
                BY <3>2, <4>2 DEF KeyNow, NoteOf
            <4> QED
                BY <1>1, <3>3, <4>2, <4>3
        <3> QED
            BY <3>4, <3>5
    <2> QED
        BY <2>2, <2>3, <2>4
<1> QED
    BY <1>3, <1>4 DEF Accounts

LEMMA BackgroundAccounts ==
    ASSUME IInv, Settlement, Accounts, Background
    PROVE  Accounts'
<1>1. \A k : k # Keyless /\ Accounted(k) => Accounted(k)'
    BY BackgroundAccounted
<1>2. \A q \in Requests : Stays(q) \/ Arrives(q) \/ Answers(q)
    BY DEF Background
<1>3. ASSUME NEW q \in Requests, Reassured(q)', NEW k \in KeysOfRequest(q)'
      PROVE  Accounted(k)'
    <2>1. CASE Stays(q)
        <3>1. Reassured(q) /\ k \in KeysOfRequest(q) /\ k # Keyless
            BY <1>3, <2>1 DEF Reassured, KeysOfRequest, Stays
        <3> QED
            BY <1>1, <3>1 DEF Accounts
    <2>2. CASE Arrives(q)
        BY <1>3, <2>2 DEF Reassured, Arrives
    <2>3. CASE Answers(q)
        <3>1. /\ Status(q) \in {200, 204} /\ Running(q)
              /\ k \in KeysOfRequest(q) /\ k # Keyless
            BY <1>3, <2>3 DEF Reassured, KeysOfRequest, Answers
        <3>2. PICK i \in DOMAIN req[q].payload, t \in Targets : k = Key(req[q].payload[i], t)
            BY <3>1 DEF KeysOfRequest
        <3>3. PICK x \in Sinks : \E g \in work[q][x].got :
                    g.note = i /\ g.target = t /\ g.as \in Good
            BY <2>3, <3>1, AnswerSettled DEF Answers
        <3>4. Settling(q, x)
            BY <3>1 DEF Accounts
        <3>5. Accounted(k)
            BY <3>1, <3>2, <3>3, <3>4 DEF Settling
        <3> QED
            BY <1>1, <3>1, <3>5
    <2> QED
        BY <1>2, <2>1, <2>2, <2>3
<1>4. ASSUME NEW q \in Requests, NEW x \in Sinks, Running(q)'
      PROVE  Settling(q, x)'
    <2>1. CASE Stays(q)
        <3>1. Running(q) /\ work'[q][x] = work[q][x] /\ req'[q].payload = req[q].payload
            BY <1>4, <2>1 DEF Stays, Running
        <3>2. Settling(q, x)
            BY <3>1 DEF Accounts
        <3> QED
            BY <1>1, <3>1, <3>2, SameSettling
    <2>2. CASE Arrives(q)
        <3>1. work'[q][x].got = {}
            BY <2>2, IdleLocals DEF Arrives
        <3> QED
            BY <3>1 DEF Settling
    <2>3. CASE Answers(q)
        BY <1>4, <2>3 DEF Answers, Running
    <2> QED
        BY <1>2, <2>1, <2>2, <2>3
<1> QED
    BY <1>3, <1>4 DEF Accounts
-----------------------------------------------------------------------------
(***************************************************************************)
(* The inductive invariant.  Served and OwnLandings keep the landings of    *)
(* one key apart, Settlement and Accounts follow a delivery that a caller   *)
(* counts on to where it went, Known and what it says of messages follow    *)
(* the links, and Counted relates the status to the chat.                   *)
(***************************************************************************)
OInv ==
    /\ IInv
    /\ Progress
    /\ Served /\ OwnLandings /\ NoConfirmedDuplicate
    /\ SentByRequests /\ Counted
    /\ KnownDelivered /\ Keyed /\ Fresh /\ Unlinked
    /\ Settlement /\ Accounts

LEMMA InitOInv == Init => OInv
<1> SUFFICES ASSUME Init
             PROVE  OInv
    OBVIOUS
<1>1. IInv
    BY InitIInv
<1>2. /\ chat = {} /\ rewritten = {} /\ links = <<>>
      /\ \A r \in Requests : req[r] = NoRequest /\ \A s \in Sinks : work[r][s] = Idle
    BY DEF Init, LogInit
<1>3. \A r \in Requests : ~Running(r) /\ ~Reassured(r)
    BY <1>2 DEF NoRequest, Running, Reassured
<1>4. \A r \in Requests, s \in Sinks : ~Busy(r, s)
    BY <1>2, IdleLocals DEF Busy, Holding
<1>5. \A k, m : ~Carries(links, k, m)
    BY <1>2 DEF Carries, EntriesOf
<1>6. \A m : ~Known(m)
    BY <1>2, <1>4, <1>5 DEF Known
<1>7. Progress /\ Served /\ OwnLandings /\ NoConfirmedDuplicate /\ SentByRequests
    BY <1>2, <1>4 DEF Progress, Served, OwnLandings, NoConfirmedDuplicate, SentByRequests
<1>8. Counted /\ Settlement /\ Accounts
    BY <1>3 DEF Counted, Settlement, Accounts
<1>9. KnownDelivered /\ Keyed /\ Fresh /\ Unlinked
    BY <1>4, <1>5, <1>6 DEF KnownDelivered, Keyed, Fresh, Unlinked
<1> QED
    BY <1>1, <1>7, <1>8, <1>9 DEF OInv

LEMMA StepOInv ==
    ASSUME OInv, IInv', NEW r \in Requests, NEW s \in Sinks, NEW w, Step(r, s, w)
    PROVE  OInv'
<1>1. Progress' /\ Served' /\ OwnLandings' /\ NoConfirmedDuplicate' /\ SentByRequests'
    BY StepProgress, StepServed, StepOwnLandings, StepNoConfirmedDuplicate,
       StepSentByRequests DEF OInv
<1>2. Counted'
    BY <1>1, StepCounted DEF OInv
<1>3. KnownDelivered' /\ Keyed' /\ Fresh' /\ Unlinked'
    BY StepKnownDelivered, StepKeyed, StepFresh, StepUnlinked DEF OInv
<1>4. Settlement' /\ Accounts'
    BY StepSettlement, StepAccounts DEF OInv
<1> QED
    BY <1>1, <1>2, <1>3, <1>4 DEF OInv

LEMMA BackgroundOInv ==
    ASSUME OInv, IInv', Background
    PROVE  OInv'
<1>1. Progress' /\ Served' /\ OwnLandings' /\ SentByRequests'
    BY BackgroundProgress, BackgroundServed, BackgroundOwnLandings,
       BackgroundSentByRequests DEF OInv
<1>2. NoConfirmedDuplicate'
    BY DEF OInv, NoConfirmedDuplicate, Background
<1>3. Counted' /\ Settlement' /\ Accounts'
    BY BackgroundCounted, BackgroundSettlement, BackgroundAccounts DEF OInv
<1>4. KnownDelivered' /\ Keyed' /\ Fresh' /\ Unlinked'
    BY BackgroundKnown DEF OInv
<1> QED
    BY <1>1, <1>2, <1>3, <1>4 DEF OInv

LEMMA NextOInv == OInv /\ [Next]_vars => OInv'
<1> SUFFICES ASSUME OInv, [Next]_vars
             PROVE  OInv'
    OBVIOUS
<1>1. IInv'
    BY NextIInv DEF OInv
<1>2. \/ Background
      \/ \E r \in Requests, s \in Sinks : Step(r, s, work'[r][s])
    BY <1>1, NextStep DEF OInv
<1> QED
    BY <1>1, <1>2, StepOInv, BackgroundOInv

LEMMA SpecOInv == Spec => []OInv
BY InitOInv, NextOInv, PTL DEF Spec
-----------------------------------------------------------------------------
(* What follows. *)

\* handlers.go:288-295: what a messenger confirmed is not sent again while the
\* reservation it was sent under lasts, whichever requests and sinks race for
\* the key and whatever is given back between.
THEOREM DeliveryNoConfirmedDuplicate == Spec => []NoConfirmedDuplicate
<1>1. OInv => NoConfirmedDuplicate
    BY DEF OInv
<1> QED
    BY <1>1, SpecOInv, PTL

\* handlers.go:124-148 with dedup.go:53-66: a caller is answered 200 or 204
\* only for deliveries that landed or that another request has taken over;
\* once nobody works, the latter landed too or their caller was told.
THEOREM DeliveryEveryLossIsReported == Spec => []EveryLossIsReported
<1>1. OInv => EveryLossIsReported
    <2>1. ASSUME OInv, Quiet, NEW r \in Requests, Reassured(r), NEW k \in KeysOfRequest(r)
          PROVE  \/ \E c \in chat : LandingKey(c) = k
                 \/ \E q \in Requests : /\ req[q].state = "answered" /\ ~Reassured(q)
                                        /\ k \in KeysOfRequest(q)
        <3>1. Accounted(k)
            BY <2>1 DEF OInv, Accounts
        <3>2. \A q \in Requests : ~Running(q)
            BY <2>1 DEF Quiet, Running
        <3>3. \A q \in Requests, x \in Sinks : ~Busy(q, x)
            <4>1. \A q \in Requests, x \in Sinks : work[q][x] = Idle
                BY <2>1 DEF Quiet, OInv, IInv, Sensible
            <4> QED
                BY <4>1, IdleLocals DEF Busy, Holding
        <3> QED
            BY <3>1, <3>2, <3>3 DEF Accounted, Troubled
    <2> QED
        BY <2>1 DEF EveryLossIsReported
<1> QED
    BY <1>1, SpecOInv, PTL

\* handlers.go:296-300: only a firing message that landed in full is linked,
\* so no resolve answers or rewrites a torn one.
THEOREM DeliveryLinkedWereDelivered == Spec => []LinkedWereDelivered
<1>1. OInv => LinkedWereDelivered
    <2> SUFFICES ASSUME OInv, NEW i \in DOMAIN links, NEW j \in DOMAIN links[i].msgs
                 PROVE  LET m == links[i].msgs[j] IN
                        /\ <<m.inc, m.target>> = links[i].key
                        /\ \A p \in 1 .. PartsOf["firing"] :
                             \E c \in Sent(m.req) :
                                /\ c.part = p /\ c.target = m.target
                                /\ c.note = [status |-> "firing", inc |-> m.inc]
        BY DEF LinkedWereDelivered
    <2> DEFINE m == links[i].msgs[j]
    <2>1. Carries(links, links[i].key, m)
        BY CarriedLinks
    <2> HIDE DEF m
    <2>2. <<m.inc, m.target>> = links[i].key /\ Delivered(m)
        BY <2>1 DEF OInv, Keyed, KnownDelivered, Known
    <2> QED
        BY <2>2 DEF Delivered, m
<1> QED
    BY <1>1, SpecOInv, PTL

\* resolve.go and handlers.go:318-360: a message that shows its resolve is no
\* longer linked, except while the resolve that rewrote it is still at work.
THEOREM DeliveryRewrittenAreUnlinked == Spec => []RewrittenAreUnlinked
<1>1. OInv => RewrittenAreUnlinked
    <2> SUFFICES ASSUME OInv, NEW i \in DOMAIN links, NEW j \in DOMAIN links[i].msgs,
                        links[i].msgs[j] \in rewritten
                 PROVE  \E r \in Requests, s \in Sinks :
                            At(r, s, "rewrite") /\ LinkKeyNow(r, s) = links[i].key
        BY DEF RewrittenAreUnlinked
    <2>1. Carries(links, links[i].key, links[i].msgs[j])
        BY CarriedLinks
    <2> QED
        BY <2>1 DEF OInv, Unlinked
<1> QED
    BY <1>1, SpecOInv, PTL

\* handlers.go:124-148: 200 and 204 only when every note was settled on every
\* target of every sink without loss, 200 only when something of the request
\* is in the chat, 204 and 500 only when nothing is.
THEOREM DeliveryAnswerMatchesOutcome == Spec => AnswerMatchesOutcome
<1>1. ASSUME OInv, NEW r \in Requests, Answer(r)
      PROVE  Truthful(r)
    <2>1. Running(r) /\ \A s \in Sinks : work[r][s].pc = "done"
        BY <1>1 DEF Answer, Running
    <2>2. Telling(r) <=> Sent(r) # {}
        BY <1>1, <2>1 DEF OInv, Counted
    <2>3. Telling(r) <=> \E s \in Sinks : Gained(work[r][s])
        BY <2>1 DEF Telling, Pending
    <2>4. ASSUME Status(r) \in {200, 204}, NEW i \in DOMAIN req[r].payload, NEW t \in Targets
          PROVE  \E s \in Sinks : \E g \in work[r][s].got :
                    g.note = i /\ g.target = t /\ g.as \in Good
        BY <1>1, <2>4, AnswerSettled DEF OInv
    <2> QED
        BY <1>1, <2>2, <2>3, <2>4, StatusSays DEF OInv, Good, Truthful
<1>2. OInv /\ [Next]_vars => [\A r \in Requests : Answer(r) => Truthful(r)]_vars
    BY <1>1
<1> QED
    BY <1>2, SpecOInv, PTL DEF Spec, AnswerMatchesOutcome

\* The steps that leave the map of links alone, or lose an entry that is not
\* live.
LEMMA LiveLinkStays ==
    ASSUME NEW r, NEW s, NEW k, LinkLive(k), k \notin linked', mode = "reply", SinkStep(r, s)
    PROVE  Link(r, s) \/ ReplyDone(r, s)
<1>1. k \in linked
    BY DEF LinkLive
<1>2. ~NoLink(r, s)
    BY <1>1 DEF NoLink, LogMiss, LogDelete, logVars
<1>3. ~EditDone(r, s) /\ ~EditFallsBack(r, s)
    BY DEF EditDone, EditFallsBack
<1>4. /\ ~EndOfNotes(r, s) /\ ~OutOfBudget(r, s) /\ ~RenderFails(r, s)
    BY <1>1 DEF EndOfNotes, OutOfBudget, RenderFails, logVars
<1>5. ~SkipDuplicate(r, s)
    BY <1>1 DEF SkipDuplicate, logVars
<1>6. ~StartTarget(r, s)
    BY <1>1 DEF StartTarget, logVars
<1>7. ~FindLink(r, s)
    <2>1. FindLink(r, s) => \E msgs : LogHit(LinkKeyNow(r, s), msgs)
        BY Zenon DEF FindLink
    <2> QED
        BY <1>1, <2>1 DEF LogHit, logVars
<1>8. ~EditMessage(r, s)
    BY <1>1, Zenon DEF EditMessage, logVars
<1>9. ~EditOutOfBudget(r, s)
    BY <1>1 DEF EditOutOfBudget, logVars
<1>10. ~PartLands(r, s) /\ ~PartFails(r, s) /\ ~PartCanceled(r, s)
    BY <1>1 DEF PartLands, PartFails, PartCanceled, logVars
<1> QED
    BY <1>2, <1>3, <1>4, <1>5, <1>6, <1>7, <1>8, <1>9, <1>10 DEF SinkStep

LEMMA OnlySinksUnlink ==
    ASSUME [Next]_vars, linked' # linked
    PROVE  \E r \in Requests, s \in Sinks : SinkStep(r, s)
<1>1. \A r \in Requests, p \in Payloads : ~Arrive(r, p)
    BY DEF Arrive, logVars
<1>2. \A r \in Requests : ~ContextEnds(r) /\ ~Answer(r)
    BY DEF ContextEnds, Answer, logVars
<1>3. ~Tick /\ ~SweepSeen
    BY DEF Tick, SweepSeen, logVars
<1> QED
    BY <1>1, <1>2, <1>3 DEF Next, vars

\* handlers.go:332: in mode reply a live link goes only with the request whose
\* own reply landed, or evicted by the message of another incident.
THEOREM DeliveryLinkWaitsForReply == Spec => LinkWaitsForReply
<1>1. ASSUME OInv, [Next]_vars, mode = "reply", NEW k \in LinkKeys, LinkLive(k), k \notin linked'
      PROVE  LinkMayGo(k)
    <2>1. k \in linked /\ linked' # linked
        BY <1>1 DEF LinkLive
    <2>2. PICK r \in Requests, s \in Sinks : SinkStep(r, s)
        BY <1>1, <2>1, OnlySinksUnlink
    <2>3. Link(r, s) \/ ReplyDone(r, s)
        BY <1>1, <2>2, LiveLinkStays
    <2>4. CASE Link(r, s)
        <3>1. /\ LogAdd(LinkKeyNow(r, s), MessageNow(r, s))
              /\ Running(r) /\ Busy(r, s) /\ LogInv /\ IInv
            BY <1>1, <2>4 DEF Link, At, Running, Busy, Holding, OInv, IInv
        <3>2. LinkKeyNow(r, s) \in LinkKeys /\ MessageNow(r, s) \in Messages
            BY <3>1, HereBusy, DeliveryAssumption DEF LinkKeyNow, MessageNow, Notes, Running
        <3>3. linked' \ linked # {}
            BY <1>1, <3>1, <3>2, AddEvicts
        <3> QED
            BY <3>3 DEF LinkMayGo
    <2>5. CASE ReplyDone(r, s)
        <3>1. At(r, s, "rewrite") /\ LogDelete(LinkKeyNow(r, s))
            BY <2>5 DEF ReplyDone, RewriteEnds
        <3>2. LinkKeyNow(r, s) = k
            BY <2>1, <3>1, <1>1 DEF LogDelete, logVars
        <3>3. Landing(r, s, 1) \in chat
            <4>1. Running(r) /\ Busy(r, s) /\ work[r][s].pc = "rewrite"
                BY <3>1 DEF At, Running, Busy, Holding
            <4>2. Fitting(r, s, work[r][s]) /\ Borne(r, s, work[r][s], chat)
                BY <1>1, <4>1 DEF OInv, Progress
            <4>3. work[r][s].at.any
                BY <1>1, <4>1 DEF OInv, IInv, Sensible
            <4> QED
                BY <1>1, <4>1, <4>2, <4>3 DEF Fitting, Borne
        <3> QED
            BY <3>1, <3>2, <3>3 DEF LinkMayGo
    <2> QED
        BY <2>3, <2>4, <2>5
<1>2. OInv /\ [Next]_vars =>
        [mode = "reply" =>
            \A k \in LinkKeys : LinkLive(k) /\ k \notin linked' => LinkMayGo(k)]_vars
    BY <1>1
<1> QED
    BY <1>2, SpecOInv, PTL DEF Spec, LinkWaitsForReply
-----------------------------------------------------------------------------
(* What a resolve found, and what was linked since.                          *)

\* A resolve is at work on the messages it found.
Answering(w) == w.pc = "rewrite" \/ (w.pc = "send" /\ w.at.form = "reply")

Keeps(old, w) == Answering(w) => Answering(old) /\ w.at.snap = old.at.snap

\* It found all that was linked, or goes on with what it found.
Remembers(r, s, w) ==
    \/ Keeps(work[r][s], w)
    \/ \A m : Carries(links, LinkKeyNow(r, s), m) => m \in SnapOf(w)

\* The messenger had confirmed a part of m, under a reservation at most a
\* budget older than t.
Overlaps(confirmed, m, t) ==
    \E c \in confirmed : /\ c.req = m.req
                         /\ c.target = m.target
                         /\ c.note = [status |-> "firing", inc |-> m.inc]
                         /\ c.since + Budget >= t

MissesOverlapping ==
    \A r \in Requests, s \in Sinks : Busy(r, s) /\ Answering(work[r][s]) =>
        \A m : Carries(links, LinkKeyNow(r, s), m) =>
            m \in SnapOf(work[r][s]) \/ Overlaps(chat, m, work[r][s].since)

LEMMA Moved ==
    ASSUME IInv, NEW r \in Requests, NEW s \in Sinks, NEW w, Goroutine(r, s, w)
    PROVE  work'[r][s] = w
BY DEF Goroutine, IInv, TypeOK

LEMMA CleanKeeps ==
    ASSUME NEW old, NEW w, w.at = Clean, w.pc # "rewrite"
    PROVE  Keeps(old, w)
BY CleanSnap DEF Keeps, Answering

LEMMA SettledKeeps ==
    ASSUME NEW r, NEW s, NEW old, NEW u \in Locals, NEW outcome
    PROVE  Keeps(old, Settled(r, s, u, outcome))
<1> DEFINE v == Settled(r, s, u, outcome)
<1>1. v.pc = "next"
    BY DEF Settled, Locals
<1> QED
    BY <1>1 DEF Keeps, Answering

LEMMA StoppedKeeps ==
    ASSUME NEW old, NEW u \in Locals
    PROVE  Keeps(old, Stopped(u))
BY StoppedFields DEF Keeps, Answering

\* u is the goroutine with the outcome of the part counted.
LEMMA AfterPartKeeps ==
    ASSUME IInv, NEW r \in Requests, NEW s \in Sinks, NEW u \in Locals,
           work[r][s].pc = "send", u.pc = "send", u.at.form = work[r][s].at.form,
           u.at.snap = work[r][s].at.snap, AfterPart(r, s, u)
    PROVE  Keeps(work[r][s], work'[r][s])
<1> DEFINE more == [u EXCEPT !.at.part = @ + 1]
           rewriting == [u EXCEPT !.pc = "rewrite"]
           linking == [u EXCEPT !.pc = "link"]
<1>0. u.at \in TargetLocals
    BY DEF Locals
<1>1. CASE Goroutine(r, s, more)
    <2>1. more.pc = u.pc /\ more.at.form = u.at.form /\ more.at.snap = u.at.snap
        BY <1>0 DEF Locals, TargetLocals
    <2> QED
        BY <1>1, <2>1, Moved DEF Keeps, Answering
<1>2. CASE Goroutine(r, s, Continue(r, s, u))
    <2>1. CASE u.at.form = "reply" /\ u.at.any
        <3>1. Continue(r, s, u) = rewriting
            BY <2>1 DEF Continue
        <3>2. rewriting.at = u.at
            BY DEF Locals
        <3> QED
            BY <1>2, <2>1, <3>1, <3>2, Moved DEF Keeps, Answering
    <2>2. CASE ~(u.at.form = "reply" /\ u.at.any)
        <3>1. Continue(r, s, u) = linking \/ Continue(r, s, u) = Settled(r, s, u, Fared(u.at))
            BY <2>2 DEF Continue
        <3>2. linking.pc = "link"
            BY DEF Locals
        <3>3. Keeps(work[r][s], linking)
            BY <3>2 DEF Keeps, Answering
        <3> QED
            BY <1>2, <3>1, <3>3, SettledKeeps, Moved
    <2> QED
        BY <2>1, <2>2
<1> QED
    BY <1>1, <1>2 DEF AfterPart

\* messages.Get returns all that is linked.
LEMMA FindLinkFinds ==
    ASSUME IInv, Progress, NEW r \in Requests, NEW s \in Sinks, FindLink(r, s)
    PROVE  \A m : Carries(links, LinkKeyNow(r, s), m) => m \in SnapOf(work'[r][s])
<1> DEFINE old == work[r][s]
           key == LinkKeyNow(r, s)
<1>1. At(r, s, "lookup") /\ "lookup" \in Holding
    BY DEF FindLink, Holding
<1>2. PICK k \in linked :
        LET msgs == EntryOf(links, k).msgs IN
        /\ LogHit(key, msgs)
        /\ Goroutine(r, s,
             IF mode = "reply"
             THEN [old EXCEPT !.pc = "send", !.at.form = "reply", !.at.snap = msgs]
             ELSE [old EXCEPT !.pc = "rewrite", !.at.snap = msgs])
    BY DEF FindLink
<1> DEFINE msgs == EntryOf(links, k).msgs
           w == IF mode = "reply"
                THEN [old EXCEPT !.pc = "send", !.at.form = "reply", !.at.snap = msgs]
                ELSE [old EXCEPT !.pc = "rewrite", !.at.snap = msgs]
<1>3. old \in Locals /\ old.at \in TargetLocals /\ LogInv
    BY <1>1, BusyHere
<1>4. Goroutine(r, s, w) /\ msgs = EntryOf(links, key).msgs /\ key \in linked
    BY <1>2 DEF LogHit, LinkLive
<1>5. /\ links \in Seq(LinkEntry) /\ KeysDistinct(links) /\ key \in KeysOf(links)
    BY <1>3, <1>4 DEF LogInv, LogTypeOK, Sound
<1> HIDE DEF msgs, key, old
<1>6. w.at.snap = msgs
    BY <1>3 DEF Locals, TargetLocals
<1> HIDE DEF w
<1>7. work'[r][s] = w
    BY <1>4, Moved
<1> SUFFICES ASSUME NEW m, Carries(links, key, m)
             PROVE  m \in SnapOf(w)
    BY <1>7 DEF key
<1>8. PICK e \in EntriesOf(links) : e.key = key /\ \E j \in DOMAIN e.msgs : e.msgs[j] = m
    BY DEF Carries
<1>9. e = EntryOf(links, key)
    BY <1>5, <1>8, EntryOfKey
<1> QED
    BY <1>4, <1>6, <1>8, <1>9 DEF SnapOf

LEMMA SendsKeep ==
    ASSUME IInv, Progress, NEW r \in Requests, NEW s \in Sinks,
           PartLands(r, s) \/ PartFails(r, s) \/ PartCanceled(r, s) \/ Link(r, s)
    PROVE  Keeps(work[r][s], work'[r][s])
<1> DEFINE old == work[r][s]
<1>1. /\ old \in Locals /\ old.at \in TargetLocals
      /\ ~Link(r, s) => old.pc = "send"
    <2>1. At(r, s, "send") \/ At(r, s, "link")
        BY DEF PartLands, PartFails, PartCanceled, Link
    <2>2. {"send", "link"} \subseteq Holding
        BY DEF Holding
    <2>3. ~Link(r, s) => At(r, s, "send")
        BY DEF PartLands, PartFails, PartCanceled
    <2> QED
        BY <2>1, <2>2, <2>3, BusyHere DEF At
<1>2. CASE PartLands(r, s)
    <2> DEFINE att == old.att + 1
               u == [old EXCEPT !.att = att, !.at.any = TRUE]
    <2>1. AfterPart(r, s, u) /\ att \in Nat /\ old.pc = "send"
        BY <1>1, <1>2 DEF PartLands, Locals, At
    <2>2. [old.at EXCEPT !.any = TRUE] \in TargetLocals
        BY <1>1 DEF TargetLocals
    <2> HIDE DEF att, old
    <2>3. u \in Locals
        BY <1>1, <2>1, <2>2 DEF Locals
    <2>4. u.pc = old.pc /\ u.at.form = old.at.form /\ u.at.snap = old.at.snap
        BY <1>1 DEF Locals, TargetLocals
    <2> HIDE DEF u
    <2> QED
        BY <2>1, <2>3, <2>4, AfterPartKeeps DEF old
<1>3. CASE PartFails(r, s)
    <2> DEFINE att == old.att + 1
               err == old.err + 1
               u == [old EXCEPT !.att = att, !.err = err, !.at.bad = TRUE]
    <2>1. AfterPart(r, s, u) /\ att \in Nat /\ err \in Nat /\ old.pc = "send"
        BY <1>1, <1>3 DEF PartFails, Locals, At
    <2>2. [old.at EXCEPT !.bad = TRUE] \in TargetLocals
        BY <1>1 DEF TargetLocals
    <2> HIDE DEF att, err, old
    <2>3. u \in Locals
        BY <1>1, <2>1, <2>2 DEF Locals
    <2>4. u.pc = old.pc /\ u.at.form = old.at.form /\ u.at.snap = old.at.snap
        BY <1>1 DEF Locals, TargetLocals
    <2> HIDE DEF u
    <2> QED
        BY <2>1, <2>3, <2>4, AfterPartKeeps DEF old
<1>4. CASE PartCanceled(r, s)
    BY <1>1, <1>4, StoppedKeeps, Moved DEF PartCanceled
<1>5. CASE Link(r, s)
    BY <1>1, <1>5, SettledKeeps, Moved DEF Link
<1> QED
    BY <1>2, <1>3, <1>4, <1>5

LEMMA RewritesKeep ==
    ASSUME IInv, Progress, NEW r \in Requests, NEW s \in Sinks,
           \/ EditMessage(r, s) \/ ReplyDone(r, s) \/ EditDone(r, s)
           \/ EditOutOfBudget(r, s) \/ EditFallsBack(r, s)
    PROVE  Keeps(work[r][s], work'[r][s])
<1> DEFINE old == work[r][s]
<1>1. At(r, s, "rewrite") /\ "rewrite" \in Holding
    BY DEF EditMessage, ReplyDone, EditDone, EditOutOfBudget, EditFallsBack, RewriteEnds, Holding
<1>2. old \in Locals /\ old.at \in TargetLocals /\ old.pc = "rewrite"
    BY <1>1, BusyHere
<1>3. CASE EditMessage(r, s)
    <2> DEFINE v == [old EXCEPT !.at.tried = @ + 1, !.at.edited = @ + 1]
               u == [old EXCEPT !.at.tried = @ + 1]
    <2>1. Goroutine(r, s, v) \/ Goroutine(r, s, u)
        BY <1>3 DEF EditMessage
    <2>2. v.at.snap = old.at.snap /\ u.at.snap = old.at.snap
        BY <1>2 DEF Locals, TargetLocals
    <2> HIDE DEF u, v
    <2>3. work'[r][s] = v \/ work'[r][s] = u
        BY <2>1, Moved
    <2> QED
        BY <1>2, <2>2, <2>3 DEF Keeps, Answering
<1>4. CASE ReplyDone(r, s)
    BY <1>2, <1>4, SettledKeeps, Moved DEF ReplyDone
<1>5. CASE EditDone(r, s)
    <2> DEFINE u == [old EXCEPT !.att = @ + 1]
    <2>1. u \in Locals
        BY <1>2 DEF Locals
    <2>2. Goroutine(r, s, Settled(r, s, u, "edited"))
        BY <1>5 DEF EditDone
    <2> HIDE DEF u
    <2> QED
        BY <2>1, <2>2, SettledKeeps, Moved
<1>6. CASE EditOutOfBudget(r, s)
    BY <1>2, <1>6, StoppedKeeps, Moved DEF EditOutOfBudget
<1>7. CASE EditFallsBack(r, s)
    <2> DEFINE v == [old EXCEPT !.pc = "send", !.at = Clean]
    <2>1. Goroutine(r, s, v)
        BY <1>7 DEF EditFallsBack
    <2>2. v.at = Clean /\ v.pc = "send"
        BY <1>2 DEF Locals
    <2> HIDE DEF v
    <2>3. Keeps(old, v)
        BY <2>2, CleanKeeps
    <2> QED
        BY <2>1, <2>3, Moved
<1> QED
    BY <1>3, <1>4, <1>5, <1>6, <1>7

LEMMA LoopKeeps ==
    ASSUME IInv, Progress, NEW r \in Requests, NEW s \in Sinks,
           \/ EndOfNotes(r, s) \/ OutOfBudget(r, s) \/ RenderFails(r, s)
           \/ SkipDuplicate(r, s) \/ StartTarget(r, s) \/ NoLink(r, s)
    PROVE  Keeps(work[r][s], work'[r][s])
<1> DEFINE old == work[r][s]
<1>1. At(r, s, "next") \/ (At(r, s, "lookup") /\ NoLink(r, s))
    BY DEF EndOfNotes, OutOfBudget, RenderFails, SkipDuplicate, StartTarget, InLoop, NoLink
<1>2. Running(r) /\ old \in Locals /\ old.at = Clean
    <2>1. Running(r)
        BY <1>1 DEF At, Running
    <2>2. CASE At(r, s, "next")
        BY <2>1, <2>2, Here DEF Sensible, At, Running
    <2>3. CASE At(r, s, "lookup")
        BY <2>1, <2>3, BusyHere DEF Fitting, Holding
    <2> QED
        BY <1>1, <2>1, <2>2, <2>3
<1>3. CASE EndOfNotes(r, s)
    <2> DEFINE v == [old EXCEPT !.pc = "done"]
    <2>1. Goroutine(r, s, v)
        BY <1>3 DEF EndOfNotes
    <2>2. v.pc = "done"
        BY <1>2 DEF Locals
    <2> QED
        BY <2>1, <2>2, Moved DEF Keeps, Answering
<1>4. CASE OutOfBudget(r, s)
    BY <1>2, <1>4, StoppedKeeps, Moved DEF OutOfBudget
<1>5. CASE RenderFails(r, s)
    <2> DEFINE v == [old EXCEPT !.err = @ + 1, !.att = @ + 1, !.ni = @ + 1]
    <2>1. Goroutine(r, s, v)
        BY <1>5 DEF RenderFails
    <2>2. v.pc = old.pc
        BY <1>2 DEF Locals
    <2>3. old.pc = "next"
        BY <1>5 DEF RenderFails, InLoop, At
    <2> QED
        BY <2>1, <2>2, <2>3, Moved DEF Keeps, Answering
<1>6. CASE SkipDuplicate(r, s)
    BY <1>2, <1>6, SettledKeeps, Moved DEF SkipDuplicate
<1>7. CASE StartTarget(r, s)
    <2> DEFINE first == IF Linkable(r, s) /\ NoteOf(r, s).status = "resolved"
                        THEN "lookup" ELSE "send"
               v == [old EXCEPT !.pc = first, !.since = now]
    <2>1. Goroutine(r, s, v)
        BY <1>7 DEF StartTarget
    <2>2. v.at = Clean /\ v.pc = first
        BY <1>2 DEF Locals
    <2> HIDE DEF v
    <2>3. Keeps(old, v)
        BY <2>2, CleanKeeps
    <2> QED
        BY <2>1, <2>3, Moved
<1>8. CASE NoLink(r, s)
    <2> DEFINE v == [old EXCEPT !.pc = "send"]
    <2>1. Goroutine(r, s, v)
        BY <1>8 DEF NoLink
    <2>2. v.at = Clean /\ v.pc = "send"
        BY <1>2 DEF Locals
    <2> HIDE DEF v
    <2>3. Keeps(old, v)
        BY <2>2, CleanKeeps
    <2> QED
        BY <2>1, <2>3, Moved
<1> QED
    BY <1>3, <1>4, <1>5, <1>6, <1>7, <1>8

LEMMA SinkRemembers ==
    ASSUME IInv, Progress, NEW r \in Requests, NEW s \in Sinks, SinkStep(r, s)
    PROVE  Remembers(r, s, work'[r][s])
BY LoopKeeps, FindLinkFinds, SendsKeep, RewritesKeep DEF SinkStep, Remembers

\* A message is linked by a request that is still within its budget.
LEMMA LinksOverlap ==
    ASSUME IInv, Progress, NEW r \in Requests, NEW s \in Sinks,
           work[r][s].pc = "link", Running(r), NEW t \in Nat, t <= now
    PROVE  Overlaps(chat, MessageNow(r, s), t)
<1> DEFINE c == Landing(r, s, 1)
<1>1. /\ Busy(r, s) /\ NoteOf(r, s).status = "firing"
      /\ NoteOf(r, s) = [status |-> "firing", inc |-> NoteOf(r, s).inc]
    BY LinkedNow
<1>2. c \in chat
    <2>1. Borne(r, s, work[r][s], chat)
        BY <1>1 DEF Progress
    <2>2. 1 \in 1 .. PartsOf["firing"]
        <3>1. PartsOf["firing"] \in Nat \ {0}
            BY DeliveryAssumption DEF Statuses
        <3> QED
            BY <3>1
    <2> QED
        BY <2>1, <2>2 DEF Borne
<1>3. /\ c.req = r /\ c.target = TargetOf(r, s) /\ c.note = NoteOf(r, s)
      /\ c.since = work[r][s].since
    BY DEF Landing
<1>4. /\ c.since \in Nat /\ req[r].start <= c.since /\ now <= req[r].start + Budget
      /\ req[r].start \in Nat /\ now \in Nat /\ Budget \in Nat
    <2>1. c.since \in Nat /\ req[r].start <= c.since
        BY <1>1, OwnLanding
    <2>2. req[r] \in Request /\ now \in Nat /\ InBudget(r)
        BY Here DEF IInv, Running
    <2> QED
        BY <2>1, <2>2, BudgetAssumption DEF Request, InBudget, Running
<1>5. c.since + Budget >= t
    BY <1>4
<1> HIDE DEF c
<1>6. /\ MessageNow(r, s).req = r /\ MessageNow(r, s).inc = NoteOf(r, s).inc
      /\ MessageNow(r, s).target = TargetOf(r, s)
    BY DEF MessageNow
<1> QED
    BY <1>1, <1>2, <1>3, <1>5, <1>6 DEF Overlaps

LEMMA StepMisses ==
    ASSUME IInv, Progress, MissesOverlapping,
           NEW r \in Requests, NEW s \in Sinks, NEW w, Step(r, s, w), Remembers(r, s, w)
    PROVE  MissesOverlapping'
<1>1. /\ Running(r) /\ work'[r][s] = w /\ Knows(r, s, w) /\ chat \subseteq chat'
    BY ChatAfter DEF Step, Stepped
<1>2. ASSUME NEW m, NEW t, Overlaps(chat, m, t)
      PROVE  Overlaps(chat', m, t)
    BY <1>1, <1>2 DEF Overlaps
<1> SUFFICES ASSUME NEW q \in Requests, NEW x \in Sinks, Busy(q, x)', Answering(work'[q][x]),
                    NEW m, Carries(links', LinkKeyNow(q, x)', m)
             PROVE  m \in SnapOf(work'[q][x]) \/ Overlaps(chat', m, work'[q][x].since)
    BY DEF MissesOverlapping, Carries, Answering, SnapOf
<1>3. CASE q # r \/ x # s
    <2>1. work'[q][x] = work[q][x] /\ SamePlace(q, x)
        BY <1>3, OthersPlaces
    <2>2. Busy(q, x) /\ LinkKeyNow(q, x)' = LinkKeyNow(q, x)
        BY <2>1 DEF SamePlace
    <2>3. CASE Carries(links, LinkKeyNow(q, x), m)
        BY <1>2, <2>1, <2>2, <2>3 DEF MissesOverlapping
    <2>4. CASE ~Carries(links, LinkKeyNow(q, x), m)
        <3>1. work[r][s].pc = "link" /\ m = MessageNow(r, s)
            BY <1>1, <2>2, <2>4 DEF Knows
        <3>2. work[q][x].since \in Nat /\ work[q][x].since <= now
            BY <2>2 DEF IInv, Reserved, TypeOK, Locals
        <3>3. Overlaps(chat, m, work[q][x].since)
            BY <1>1, <3>1, <3>2, LinksOverlap
        <3> QED
            BY <1>2, <2>1, <3>3
    <2> QED
        BY <2>3, <2>4
<1>4. CASE q = r /\ x = s
    <2>1. /\ w.pc \in Holding /\ LinkKeyNow(r, s)' = LinkKeyNow(r, s)
          /\ Starts(r, s, w) \/ Proceeds(r, s, w)
        BY <1>1, <1>4, OwnPlace DEF Busy
    <2>2. ~Starts(r, s, w)
        BY <1>1, <1>4, CleanSnap DEF Starts, Answering
    <2>3. Busy(r, s) /\ w.since = work[r][s].since
        BY <2>1, <2>2 DEF Proceeds
    <2>4. Carries(links, LinkKeyNow(r, s), m)
        BY <1>1, <1>4, <2>1 DEF Knows
    <2>5. CASE Keeps(work[r][s], w)
        <3>1. Answering(work[r][s]) /\ SnapOf(w) = SnapOf(work[r][s])
            BY <1>1, <1>4, <2>5 DEF Keeps, SnapOf
        <3>2. m \in SnapOf(work[r][s]) \/ Overlaps(chat, m, work[r][s].since)
            BY <2>3, <2>4, <3>1 DEF MissesOverlapping
        <3> QED
            BY <1>1, <1>2, <1>4, <2>3, <3>1, <3>2
    <2> QED
        BY <1>1, <1>4, <2>4, <2>5 DEF Remembers
<1> QED
    BY <1>3, <1>4

LEMMA BackgroundMisses ==
    ASSUME MissesOverlapping, Background
    PROVE  MissesOverlapping'
<1>1. links' = links /\ chat' = chat
    BY DEF Background
<1>2. ASSUME NEW q \in Requests, NEW x \in Sinks, Busy(q, x)'
      PROVE  Busy(q, x) /\ work'[q][x] = work[q][x] /\ LinkKeyNow(q, x)' = LinkKeyNow(q, x)
    BY <1>2, BackgroundPlaces DEF SamePlace
<1> SUFFICES ASSUME NEW q \in Requests, NEW x \in Sinks, Busy(q, x)', Answering(work'[q][x]),
                    NEW m, Carries(links', LinkKeyNow(q, x)', m)
             PROVE  m \in SnapOf(work'[q][x]) \/ Overlaps(chat', m, work'[q][x].since)
    BY DEF MissesOverlapping, Carries, Answering, SnapOf
<1> QED
    BY <1>1, <1>2 DEF MissesOverlapping

\* handlers.go:232-234, 338-339: a resolve deletes no link of a message it has
\* not found, but for messages of requests that ran beside it.
THEOREM DeliveryOnlyLatecomersAreMissed == Spec => []OnlyLatecomersAreMissed
<1>1. Init => MissesOverlapping
    <2> SUFFICES ASSUME Init
                 PROVE  MissesOverlapping
        OBVIOUS
    <2>1. \A r \in Requests, s \in Sinks : work[r][s] = Idle
        BY DEF Init
    <2> QED
        BY <2>1, IdleLocals DEF MissesOverlapping, Busy, Holding
<1>2. OInv /\ MissesOverlapping /\ [Next]_vars => MissesOverlapping'
    <2> SUFFICES ASSUME OInv, MissesOverlapping, [Next]_vars
                 PROVE  MissesOverlapping'
        OBVIOUS
    <2>1. IInv /\ IInv' /\ Progress
        BY NextIInv DEF OInv
    <2>2. ASSUME NEW r \in Requests, NEW s \in Sinks, SinkStep(r, s)
          PROVE  MissesOverlapping'
        BY <2>1, <2>2, SinkStepStep, SinkRemembers, StepMisses
    <2>3. CASE \A r \in Requests, s \in Sinks : ~SinkStep(r, s)
        <3>1. Background
            BY <2>1, <2>3, ArriveStep, ContextEndsStep, AnswerStep, TickStep, SweepSeenStep,
               StutterStep DEF Next
        <3> QED
            BY <3>1, BackgroundMisses
    <2> QED
        BY <2>2, <2>3
<1>3. OInv /\ MissesOverlapping => OnlyLatecomersAreMissed
    <2> SUFFICES ASSUME OInv, MissesOverlapping, NEW r \in Requests, NEW s \in Sinks, Resolving(r, s),
                        NEW m \in LinkedAt(LinkKeyNow(r, s)) \ Found(r, s)
                 PROVE  Overlaps(chat, m, work[r][s].since)
        BY DEF OnlyLatecomersAreMissed, Overlaps, Sent
    <2>1. Busy(r, s) /\ Answering(work[r][s])
        BY DEF Resolving, At, Busy, Holding, Answering
    <2>2. Carries(links, LinkKeyNow(r, s), m)
        <3>1. PICK i \in DOMAIN links : links[i].key = LinkKeyNow(r, s) /\ m \in Range(links[i].msgs)
            BY DEF LinkedAt
        <3>2. PICK j \in DOMAIN links[i].msgs : m = links[i].msgs[j]
            BY <3>1 DEF Range
        <3> QED
            BY <3>1, <3>2, CarriedLinks
    <2>3. m \notin SnapOf(work[r][s])
        BY DEF Found, SnapOf, Range
    <2> QED
        BY <2>1, <2>2, <2>3 DEF MissesOverlapping
<1> QED
    BY <1>1, <1>2, <1>3, SpecOInv, PTL DEF Spec

-----------------------------------------------------------------------------
(* The leases that the cache, the goroutines and the chat amount to. *)

LEMMA BusyRuns ==
    ASSUME IInv, NEW r \in Requests, NEW s \in Sinks, Busy(r, s)
    PROVE  Running(r)
BY DEF IInv, Sensible, Running, Busy, Idle, Holding

LEMMA OwnersAre ==
    ASSUME IInv, NEW k, NEW r \in Requests, NEW s \in Sinks
    PROVE  <<r, s>> \in Owners(k) <=> Busy(r, s) /\ KeyNow(r, s) = k
BY BusyRuns DEF Owners, Holds, Busy, Running

\* What the three are at any time, here and after a step.
Leased ==
    /\ HeldBy = [k \in DedupKeys |-> HeldBy[k]]
    /\ \A k \in DedupKeys : HeldBy[k] \subseteq Requests \X Sinks
    /\ \A k \in DedupKeys, r \in Requests, s \in Sinks :
          <<r, s>> \in HeldBy[k] <=> Busy(r, s) /\ KeyNow(r, s) = k
    /\ LeasedSince = [k \in DedupKeys |-> LeasedSince[k]]
    /\ \A k \in DedupKeys : LeasedSince[k] = IF Suppressed(k) THEN seen[k] ELSE Absent
    /\ \A k, t : <<k, t>> \in LandedUnder <=> k # Keyless /\ Landed(chat, k, t)
    /\ \A r \in Requests, s \in Sinks :
          Busy(r, s) /\ KeyNow(r, s) # Keyless =>
             /\ KeyNow(r, s) \in DedupKeys
             /\ HeldBy[KeyNow(r, s)] = {<<r, s>>}
             /\ Suppressed(KeyNow(r, s))
             /\ seen[KeyNow(r, s)] = work[r][s].since

LEMMA HeldByOwners ==
    ASSUME IInv
    PROVE  /\ HeldBy = [k \in DedupKeys |-> HeldBy[k]]
           /\ \A k \in DedupKeys : HeldBy[k] \subseteq Requests \X Sinks
           /\ \A k \in DedupKeys, r \in Requests, s \in Sinks :
                 <<r, s>> \in HeldBy[k] <=> Busy(r, s) /\ KeyNow(r, s) = k
<1>1. \A k \in DedupKeys : HeldBy[k] = Owners(k)
    BY DEF HeldBy
<1>2. HeldBy = [k \in DedupKeys |-> HeldBy[k]]
    BY DEF HeldBy
<1>3. \A k \in DedupKeys : HeldBy[k] \subseteq Requests \X Sinks
    BY <1>1 DEF Owners
<1> QED
    BY <1>1, <1>2, <1>3, OwnersAre

\* A goroutine at work has its lease, and has it alone.
LEMMA BusyHolds ==
    ASSUME IInv, NEW r \in Requests, NEW s \in Sinks, Busy(r, s), KeyNow(r, s) # Keyless
    PROVE  /\ KeyNow(r, s) \in DedupKeys
           /\ HeldBy[KeyNow(r, s)] = {<<r, s>>}
           /\ Suppressed(KeyNow(r, s))
           /\ seen[KeyNow(r, s)] = work[r][s].since
<1> DEFINE k == KeyNow(r, s)
<1>1. Running(r)
    BY BusyRuns
<1>2. /\ k \in DedupKeys /\ req[r].start <= work[r][s].since
    BY <1>1, HereBusy, KeyTyped DEF IInv, Running
<1>3. /\ work[r][s].since <= now /\ seen[k] = work[r][s].since
    BY DEF IInv, Reserved
<1>4. HeldBy[k] = {<<r, s>>}
    <2> HIDE DEF k
    <2>1. <<r, s>> \in HeldBy[k] /\ HeldBy[k] \subseteq Requests \X Sinks
        BY <1>2, HeldByOwners DEF k
    <2>2. ASSUME NEW q \in Requests, NEW x \in Sinks, <<q, x>> \in HeldBy[k]
          PROVE  q = r /\ x = s
        <3>1. Busy(q, x) /\ KeyNow(q, x) = k
            BY <1>2, <2>2, HeldByOwners
        <3> QED
            BY <3>1 DEF k, IInv, SameKey
    <2> QED
        BY <2>1, <2>2
<1>5. Suppressed(k)
    <2>1. req[r].start <= now /\ now <= req[r].start + Budget
        BY <1>1 DEF IInv, InBudget, Running
    <2>2. work[r][s].since \in Nat /\ now \in Nat /\ req[r].start \in Nat
        BY DEF IInv, TypeOK, Locals, Request
    <2> QED
        BY <1>2, <1>3, <2>1, <2>2, BudgetAssumption, DedupAssumption DEF Suppressed, Absent
<1> QED
    BY <1>2, <1>3, <1>4, <1>5

LEMMA LeasedAlways == IInv => Leased
<1> SUFFICES ASSUME IInv
             PROVE  Leased
    OBVIOUS
<1>1. /\ LeasedSince = [k \in DedupKeys |-> LeasedSince[k]]
      /\ \A k \in DedupKeys : LeasedSince[k] = IF Suppressed(k) THEN seen[k] ELSE Absent
    BY DEF LeasedSince
<1>2. \A k, t : <<k, t>> \in LandedUnder <=> k # Keyless /\ Landed(chat, k, t)
    BY DEF LandedUnder, Landed
<1> QED
    BY <1>1, <1>2, HeldByOwners, BusyHolds DEF Leased

LEMMA LeasedNext == IInv' => Leased'
BY LeasedAlways, PTL

\* Time passes, or nothing happens.
LEMMA ClockSteps ==
    ASSUME [Next]_vars
    PROVE  now' \in {now, now + 1}
BY DEF Next, vars, Arrive, ContextEnds, Answer, SinkStep, Tick, Advance, SweepSeen

LEMMA SamePairs ==
    ASSUME NEW A, NEW B, A \subseteq Requests \X Sinks, B \subseteq Requests \X Sinks,
           \A q \in Requests, x \in Sinks : <<q, x>> \in A <=> <<q, x>> \in B
    PROVE  A = B
OBVIOUS

LEMMA BackgroundHeld ==
    ASSUME IInv, Leased, Leased', Background
    PROVE  HeldBy' = HeldBy /\ LandedUnder' = LandedUnder
<1>1. ASSUME NEW k \in DedupKeys
      PROVE  HeldBy'[k] = HeldBy[k]
    <2>1. HeldBy[k] \subseteq Requests \X Sinks /\ HeldBy'[k] \subseteq Requests \X Sinks
        BY DEF Leased
    <2>2. ASSUME NEW r \in Requests, NEW s \in Sinks
          PROVE  <<r, s>> \in HeldBy'[k] <=> <<r, s>> \in HeldBy[k]
        <3>1. /\ <<r, s>> \in HeldBy[k] <=> Busy(r, s) /\ KeyNow(r, s) = k
              /\ <<r, s>> \in HeldBy'[k] <=> Busy(r, s)' /\ KeyNow(r, s)' = k
            BY DEF Leased
        <3>2. Busy(r, s)' <=> Busy(r, s)
            BY BackgroundPlaces
        <3>3. Busy(r, s) => KeyNow(r, s)' = KeyNow(r, s)
            BY BackgroundPlaces DEF SamePlace
        <3> QED
            BY <3>1, <3>2, <3>3
    <2> QED
        BY <2>1, <2>2, SamePairs
<1>2. HeldBy' = HeldBy
    BY <1>1 DEF Leased
<1>3. LandedUnder' = LandedUnder
    BY DEF Background, LandedUnder, LandingKey
<1> QED
    BY <1>2, <1>3

LEMMA BackgroundKeepsLeases ==
    ASSUME IInv, Leased, Leased', Background, now' \in {now, now + 1}
    PROVE  [Promise!Next]_<<HeldBy, LeasedSince, LandedUnder, now>>
<1>1. HeldBy' = HeldBy /\ LandedUnder' = LandedUnder
    BY BackgroundHeld
<1>2. ASSUME NEW k \in DedupKeys
      PROVE  /\ seen[k] \in Nat \cup {Absent} /\ now \in Nat /\ k # Keyless
             /\ seen'[k] = seen[k] \/ (seen'[k] = Absent /\ now - seen[k] > DedupTTL)
    BY DedupAssumption DEF IInv, TypeOK, DedupTypeOK, Background
<1>3. CASE now' = now
    <2>1. ASSUME NEW k \in DedupKeys
          PROVE  LeasedSince'[k] = LeasedSince[k]
        <3>1. /\ LeasedSince[k] = IF Suppressed(k) THEN seen[k] ELSE Absent
              /\ LeasedSince'[k] = IF Suppressed(k)' THEN seen'[k] ELSE Absent
            BY DEF Leased
        <3> QED
            BY <1>2, <1>3, <3>1, DedupAssumption DEF Suppressed, Absent
    <2> QED
        BY <1>1, <1>3, <2>1 DEF Leased
<1>4. CASE now' = now + 1
    <2>1. ASSUME NEW k \in DedupKeys
          PROVE  LeasedSince'[k] = IF Promise!Outlived(k) THEN Promise!Never ELSE LeasedSince[k]
        <3>1. /\ LeasedSince[k] = IF Suppressed(k) THEN seen[k] ELSE Absent
              /\ LeasedSince'[k] = IF Suppressed(k)' THEN seen'[k] ELSE Absent
            BY DEF Leased
        <3>2. CASE HeldBy[k] # {}
            <4>1. PICK r \in Requests, s \in Sinks : <<r, s>> \in HeldBy[k]
                BY <3>2 DEF Leased
            <4>2. Suppressed(k) /\ Suppressed(k)'
                <5>1. Busy(r, s) /\ KeyNow(r, s) = k
                    BY <4>1 DEF Leased
                <5>2. Busy(r, s)' /\ KeyNow(r, s)' = k
                    BY <4>1, <1>1 DEF Leased
                <5> QED
                    BY <5>1, <5>2, <1>2 DEF Leased
            <4>3. seen'[k] = seen[k]
                BY <4>2, <1>2 DEF Suppressed, Absent
            <4> QED
                BY <3>1, <3>2, <4>2, <4>3 DEF Promise!Outlived
        <3>3. CASE HeldBy[k] = {}
            BY <1>2, <1>4, <3>1, <3>3, DedupAssumption
            DEF Suppressed, Absent, Promise!Outlived, Promise!Never
        <3> QED
            BY <3>2, <3>3
    <2>2. LeasedSince' = [k \in DedupKeys |->
                IF Promise!Outlived(k) THEN Promise!Never ELSE LeasedSince[k]]
        BY <2>1 DEF Leased
    <2> QED
        BY <1>1, <1>4, <2>2 DEF Promise!Next, Promise!Pass
<1> QED
    BY <1>3, <1>4

\* What the step of a goroutine adds to the landings.
LEMMA LandsUnder ==
    ASSUME IInv, Leased, Leased', NEW r \in Requests, NEW s \in Sinks, NEW w, Step(r, s, w)
    PROVE  \/ LandedUnder' = LandedUnder
           \/ /\ Busy(r, s) /\ KeyNow(r, s) # Keyless
              /\ LandedUnder' = LandedUnder \cup {<<KeyNow(r, s), work[r][s].since>>}
<1>1. CASE chat' = chat
    BY <1>1 DEF LandedUnder, LandingKey
<1>2. CASE Busy(r, s) /\ \E p \in Nat : chat' = chat \cup {Landing(r, s, p)}
    <2>1. PICK p \in Nat : chat' = chat \cup {Landing(r, s, p)}
        BY <1>2
    <2> DEFINE c == Landing(r, s, p)
    <2>2. LandingKey(c) = KeyNow(r, s) /\ c.since = work[r][s].since
        BY <1>2, OwnLanding, BusyRuns
    <2>3. \A d : LandingKey(d)' = LandingKey(d)
        BY DEF LandingKey
    <2> HIDE DEF c
    <2>4. CASE KeyNow(r, s) = Keyless
        BY <2>1, <2>2, <2>3, <2>4 DEF LandedUnder, c
    <2>5. CASE KeyNow(r, s) # Keyless
        <3>1. chat' = chat \cup {c}
            BY <2>1 DEF c
        <3>2. LandedUnder' = LandedUnder \cup {<<LandingKey(c), c.since>>}
            BY <2>2, <2>3, <2>5, <3>1 DEF LandedUnder
        <3> QED
            BY <1>2, <2>2, <2>5, <3>2
    <2> QED
        BY <2>4, <2>5
<1> QED
    BY <1>1, <1>2 DEF Step, Confirms

\* The holders change with the goroutine that moves, and only for its key.
LEMMA OthersHold ==
    ASSUME IInv, Leased, Leased', NEW r \in Requests, NEW s \in Sinks, NEW w, Step(r, s, w),
           NEW k \in DedupKeys
    PROVE  /\ \A q \in Requests, x \in Sinks : q # r \/ x # s =>
                (<<q, x>> \in HeldBy'[k] <=> <<q, x>> \in HeldBy[k])
           /\ <<r, s>> \in HeldBy[k] <=> Busy(r, s) /\ KeyNow(r, s) = k
           /\ <<r, s>> \in HeldBy'[k] <=> w.pc \in Holding /\ KeyNow(r, s) = k
           /\ HeldBy[k] \subseteq Requests \X Sinks /\ HeldBy'[k] \subseteq Requests \X Sinks
<1>1. ASSUME NEW q \in Requests, NEW x \in Sinks, q # r \/ x # s
      PROVE  <<q, x>> \in HeldBy'[k] <=> <<q, x>> \in HeldBy[k]
    <2>1. (Busy(q, x)' <=> Busy(q, x)) /\ KeyNow(q, x)' = KeyNow(q, x)
        BY <1>1, OthersPlaces DEF SamePlace
    <2> QED
        BY <2>1 DEF Leased
<1>2. <<r, s>> \in HeldBy[k] <=> Busy(r, s) /\ KeyNow(r, s) = k
    BY DEF Leased
<1>3. <<r, s>> \in HeldBy'[k] <=> Busy(r, s)' /\ KeyNow(r, s)' = k
    BY DEF Leased
<1>4. /\ Busy(r, s)' <=> w.pc \in Holding
      /\ w.pc \in Holding => KeyNow(r, s)' = KeyNow(r, s)
    BY OwnPlace
<1> QED
    BY <1>1, <1>2, <1>3, <1>4 DEF Leased

\* A goroutine that neither takes nor leaves a key it is known by.
LEMMA HoldersStay ==
    ASSUME IInv, Leased, Leased', NEW r \in Requests, NEW s \in Sinks, NEW w, Step(r, s, w),
           (Busy(r, s) <=> w.pc \in Holding) \/ KeyNow(r, s) \notin DedupKeys
    PROVE  HeldBy' = HeldBy
<1>1. ASSUME NEW k \in DedupKeys
      PROVE  HeldBy'[k] = HeldBy[k]
    <2>1. <<r, s>> \in HeldBy'[k] <=> <<r, s>> \in HeldBy[k]
        BY OthersHold
    <2>2. \A q \in Requests, x \in Sinks : <<q, x>> \in HeldBy'[k] <=> <<q, x>> \in HeldBy[k]
        BY <2>1, OthersHold
    <2> QED
        BY <2>2, OthersHold, SamePairs
<1> QED
    BY <1>1 DEF Leased

LEMMA SinceStays ==
    ASSUME Leased, Leased', now' = now, NEW k \in DedupKeys, seen'[k] = seen[k]
    PROVE  LeasedSince'[k] = LeasedSince[k]
BY DEF Leased, Suppressed

LEMMA SinceAllStay ==
    ASSUME Leased, Leased', now' = now, seen' = seen
    PROVE  LeasedSince' = LeasedSince
<1>1. \A k \in DedupKeys : LeasedSince'[k] = LeasedSince[k]
    BY SinceStays
<1>2. /\ LeasedSince = [k \in DedupKeys |-> LeasedSince[k]]
      /\ LeasedSince' = [k \in DedupKeys |-> LeasedSince'[k]]
    BY DEF Leased
<1> QED
    BY <1>1, <1>2

LEMMA SeenTyped ==
    ASSUME IInv
    PROVE  /\ seen \in [DedupKeys -> Nat \cup {Absent}] /\ now \in Nat
           /\ DedupTTL \in Nat /\ Keyless \notin DedupKeys
BY DedupAssumption DEF IInv, TypeOK, DedupTypeOK

LEMMA StartsTakes ==
    ASSUME IInv, Leased, Leased', NEW r \in Requests, NEW s \in Sinks, NEW w, Step(r, s, w),
           Starts(r, s, w), KeyNow(r, s) \in DedupKeys
    PROVE  Promise!Take(<<r, s>>, KeyNow(r, s))
<1> DEFINE k == KeyNow(r, s)
<1>1. /\ ~Busy(r, s) /\ w.pc \in Holding /\ Reserve(k) /\ now' = now /\ k # Keyless
    BY SeenTyped DEF Starts, Step, Stepped, Holding
<1>2. \A j \in DedupKeys : <<r, s>> \notin HeldBy[j]
    BY <1>1, OthersHold
<1>3. HeldBy[k] = {}
    <2>1. ASSUME NEW q \in Requests, NEW x \in Sinks, <<q, x>> \in HeldBy[k]
          PROVE  FALSE
        BY <1>1, <2>1, TakenWasFree DEF Leased
    <2> QED
        BY <2>1 DEF Leased
<1>4. LeasedSince[k] = Absent
    BY <1>1 DEF Leased, Reserve
<1>5. HeldBy' = [HeldBy EXCEPT ![k] = {<<r, s>>}]
    <2> HIDE DEF k
    <2>1. ASSUME NEW j \in DedupKeys
          PROVE  HeldBy'[j] = IF j = k THEN {<<r, s>>} ELSE HeldBy[j]
        <3>1. \A q \in Requests, x \in Sinks : q # r \/ x # s =>
                (<<q, x>> \in HeldBy'[j] <=> <<q, x>> \in HeldBy[j])
            BY OthersHold
        <3>2. <<r, s>> \notin HeldBy[j] /\ (<<r, s>> \in HeldBy'[j] <=> j = k)
            BY <1>1, OthersHold DEF k
        <3>3. HeldBy[j] \subseteq Requests \X Sinks /\ HeldBy'[j] \subseteq Requests \X Sinks
            BY OthersHold
        <3>4. CASE j = k
            <4>1. {<<r, s>>} \subseteq Requests \X Sinks
                OBVIOUS
            <4>2. \A q \in Requests, x \in Sinks : <<q, x>> \in HeldBy'[j] <=> <<q, x>> \in {<<r, s>>}
                BY <1>3, <3>1, <3>2, <3>4
            <4>3. HeldBy'[j] = {<<r, s>>}
                BY <3>3, <4>1, <4>2, SamePairs
            <4> QED
                BY <3>4, <4>3
        <3>5. CASE j # k
            <4>1. \A q \in Requests, x \in Sinks : <<q, x>> \in HeldBy'[j] <=> <<q, x>> \in HeldBy[j]
                BY <3>1, <3>2, <3>5
            <4> QED
                BY <3>3, <3>5, <4>1, SamePairs
        <3> QED
            BY <3>4, <3>5
    <2> QED
        BY <2>1 DEF Leased
<1>6. LeasedSince' = [LeasedSince EXCEPT ![k] = now]
    <2> HIDE DEF k
    <2>1. seen' = [seen EXCEPT ![k] = now]
        BY <1>1 DEF Reserve
    <2>2. ASSUME NEW j \in DedupKeys
          PROVE  LeasedSince'[j] = IF j = k THEN now ELSE LeasedSince[j]
        <3>1. CASE j # k
            <4>1. seen'[j] = seen[j]
                BY <2>1, <3>1, SeenTyped
            <4> QED
                BY <1>1, <3>1, <4>1, SinceStays
        <3>2. CASE j = k
            <4>1. seen'[j] = now
                BY <2>1, <3>2, SeenTyped
            <4>2. LeasedSince'[j] = IF Suppressed(j)' THEN seen'[j] ELSE Absent
                BY DEF Leased
            <4>3. Suppressed(j)'
                BY <1>1, <3>2, <4>1, SeenTyped DEF Suppressed, Absent
            <4> QED
                BY <3>2, <4>1, <4>2, <4>3
        <3> QED
            BY <3>1, <3>2
    <2> QED
        BY <2>2 DEF Leased
<1>7. LandedUnder' = LandedUnder
    BY <1>1, LandsUnder
<1> QED
    BY <1>1, <1>2, <1>3, <1>4, <1>5, <1>6, <1>7 DEF Promise!Take, Promise!Never, Absent

LEMMA LeavesEnds ==
    ASSUME IInv, Leased, Leased', OwnLandings,
           NEW r \in Requests, NEW s \in Sinks, NEW w, Step(r, s, w),
           Busy(r, s), w.pc \notin Holding, Leaves(r, s, w), KeyNow(r, s) # Keyless
    PROVE  Promise!Ends(<<r, s>>, KeyNow(r, s))
<1> DEFINE k == KeyNow(r, s)
           t == work[r][s].since
<1>1. /\ k \in DedupKeys /\ HeldBy[k] = {<<r, s>>} /\ Suppressed(k) /\ seen[k] = t
      /\ LeasedSince[k] = t /\ now' = now
    <2>1. k \in DedupKeys /\ HeldBy[k] = {<<r, s>>} /\ Suppressed(k) /\ seen[k] = t
        BY BusyHolds
    <2>2. now' = now
        BY DEF Step, Stepped
    <2>3. \A j \in DedupKeys : LeasedSince[j] = IF Suppressed(j) THEN seen[j] ELSE Absent
        BY DEF Leased
    <2> HIDE DEF k, t
    <2> QED
        BY <2>1, <2>2, <2>3
<1>2. Promise!Lease(k) = <<k, t>>
    BY <1>1 DEF Promise!Lease
<1>3. LandedUnder' \in {LandedUnder, LandedUnder \cup {<<k, t>>}}
    BY LandsUnder
<1>4. HeldBy' = [HeldBy EXCEPT ![k] = {}]
    <2> HIDE DEF k, t
    <2>1. ASSUME NEW j \in DedupKeys
          PROVE  HeldBy'[j] = IF j = k THEN {} ELSE HeldBy[j]
        <3>1. CASE j = k
            <4>1. HeldBy'[k] \subseteq {<<r, s>>} /\ <<r, s>> \notin HeldBy'[k]
                BY <1>1, OthersHold
            <4> QED
                BY <3>1, <4>1
        <3>2. CASE j # k
            <4>1. <<r, s>> \in HeldBy'[j] <=> <<r, s>> \in HeldBy[j]
                BY <3>2, OthersHold DEF k
            <4>2. \A q \in Requests, x \in Sinks : <<q, x>> \in HeldBy'[j] <=> <<q, x>> \in HeldBy[j]
                <5>1. \A q \in Requests, x \in Sinks : q # r \/ x # s =>
                        (<<q, x>> \in HeldBy'[j] <=> <<q, x>> \in HeldBy[j])
                    BY OthersHold
                <5> QED
                    BY <4>1, <5>1
            <4>3. HeldBy[j] \subseteq Requests \X Sinks /\ HeldBy'[j] \subseteq Requests \X Sinks
                BY OthersHold
            <4>4. HeldBy'[j] = HeldBy[j]
                BY <4>2, <4>3, SamePairs
            <4> QED
                BY <3>2, <4>4
        <3> QED
            BY <3>1, <3>2
    <2> QED
        BY <2>1 DEF Leased
<1>5. LeasedSince' = [LeasedSince EXCEPT ![k] = IF <<k, t>> \in LandedUnder' THEN t ELSE Absent]
    <2>1. CASE seen' = seen /\ Landed(chat', k, t)
        <3>1. <<k, t>> \in LandedUnder'
            BY <2>1 DEF Leased
        <3>2. LeasedSince' = LeasedSince
            BY <1>1, <2>1, SinceAllStay
        <3> HIDE DEF k, t
        <3> QED
            BY <1>1, <3>1, <3>2 DEF Leased
    <2>2. CASE Forget(k) /\ chat' = chat /\ ~Promising(mode, work[r][s])
        <3>1. ~Landed(chat, k, t)
            BY <2>2 DEF Landed, OwnLandings
        <3>2. <<k, t>> \notin LandedUnder'
            BY <2>2, <3>1 DEF Leased, Landed, LandingKey
        <3> HIDE DEF k, t
        <3>3. seen' = [seen EXCEPT ![k] = Absent]
            BY <1>1, <2>2, SeenTyped DEF Forget
        <3>4. ASSUME NEW j \in DedupKeys
              PROVE  LeasedSince'[j] = IF j = k THEN Absent ELSE LeasedSince[j]
            <4>1. CASE j # k
                <5>1. seen'[j] = seen[j]
                    BY <3>3, <4>1, SeenTyped
                <5> QED
                    BY <1>1, <4>1, <5>1, SinceStays
            <4>2. CASE j = k
                <5>1. seen'[k] = Absent
                    BY <1>1, <3>3, SeenTyped
                <5> QED
                    BY <4>2, <5>1 DEF Leased, Suppressed
            <4> QED
                BY <4>1, <4>2
        <3> QED
            BY <3>2, <3>4 DEF Leased
    <2> QED
        BY <2>1, <2>2 DEF Leaves
<1> HIDE DEF k, t
<1>6. Promise!Ends(<<r, s>>, k)
    BY <1>1, <1>2, <1>3, <1>4, <1>5 DEF Promise!Ends, Promise!Never, Absent
<1> QED
    BY <1>6 DEF k

LEMMA StepKeepsLeases ==
    ASSUME IInv, Leased, Leased', OwnLandings,
           NEW r \in Requests, NEW s \in Sinks, NEW w, Step(r, s, w)
    PROVE  [Promise!Next]_<<HeldBy, LeasedSince, LandedUnder, now>>
<1> DEFINE k == KeyNow(r, s)
           Stutters == UNCHANGED <<HeldBy, LeasedSince, LandedUnder, now>>
<1>1. now' = now /\ <<r, s>> \in Requests \X Sinks
    BY DEF Step, Stepped
<1>2. CASE ~Busy(r, s) /\ w.pc \notin Holding
    <2>1. seen' = seen
        BY <1>2 DEF Step, Goes, Stops, Leaves, GivesUp, Skips, Starts, Proceeds, Settles, Holding
    <2>2. HeldBy' = HeldBy /\ LandedUnder' = LandedUnder /\ LeasedSince' = LeasedSince
        BY <1>1, <1>2, <2>1, HoldersStay, LandsUnder, SinceAllStay
    <2> QED
        BY <1>1, <2>2
<1>3. CASE ~Busy(r, s) /\ w.pc \in Holding
    <2>1. Starts(r, s, w)
        BY <1>3 DEF Step, Goes, Stops, GivesUp, Skips, NextTarget, Proceeds, Settles, Holding
    <2>2. CASE k \in DedupKeys
        BY <1>1, <2>1, <2>2, StartsTakes DEF Promise!Next
    <2>3. CASE k \notin DedupKeys
        <3>1. seen' = seen
            <4>1. k = Keyless
                <5>1. work[r][s].ni \in DOMAIN req[r].payload /\ work[r][s].ti \in DOMAIN TargetsOf[s]
                    BY <2>1, InLoopKey DEF Starts
                <5> QED
                    BY <2>3, <5>1, KeyTyped DEF IInv
            <4> QED
                BY <2>1, <4>1 DEF Starts, Reserve
        <3>2. HeldBy' = HeldBy /\ LandedUnder' = LandedUnder /\ LeasedSince' = LeasedSince
            BY <1>1, <1>3, <2>3, <3>1, HoldersStay, LandsUnder, SinceAllStay
        <3> QED
            BY <1>1, <3>2
    <2> QED
        BY <2>2, <2>3
<1>4. CASE Busy(r, s) /\ w.pc \in Holding
    <2>1. seen' = seen
        BY <1>4 DEF Step, Goes, Stops, GivesUp, Skips, NextTarget, Starts, Proceeds, Settles, Holding
    <2>2. HeldBy' = HeldBy /\ LeasedSince' = LeasedSince
        BY <1>1, <1>4, <2>1, HoldersStay, SinceAllStay
    <2>3. CASE LandedUnder' = LandedUnder
        BY <1>1, <2>2, <2>3
    <2>4. CASE k # Keyless /\ LandedUnder' = LandedUnder \cup {<<k, work[r][s].since>>}
        <3>1. /\ k \in DedupKeys /\ <<r, s>> \in HeldBy[k]
              /\ LeasedSince[k] = work[r][s].since
            BY <1>4, <2>4 DEF Leased
        <3>2. Promise!Delivers(<<r, s>>, k)
            BY <1>1, <2>2, <2>4, <3>1 DEF Promise!Delivers, Promise!Lease
        <3> QED
            BY <1>1, <3>1, <3>2 DEF Promise!Next
    <2> QED
        BY <2>3, <2>4, LandsUnder
<1>5. CASE Busy(r, s) /\ w.pc \notin Holding
    <2>1. Leaves(r, s, w)
        BY <1>5 DEF Step, Goes, Stops, GivesUp, Skips, Starts, Proceeds, Settles, Holding
    <2>2. CASE k # Keyless
        <3>1. k \in DedupKeys /\ Promise!Ends(<<r, s>>, k)
            BY <1>5, <2>1, <2>2, LeavesEnds DEF Leased
        <3> QED
            BY <1>1, <3>1 DEF Promise!Next
    <2>3. CASE k = Keyless
        <3>1. seen' = seen /\ k \notin DedupKeys
            BY <2>1, <2>3, SeenTyped DEF Leaves, Forget
        <3>2. HeldBy' = HeldBy /\ LandedUnder' = LandedUnder /\ LeasedSince' = LeasedSince
            BY <1>1, <2>3, <3>1, HoldersStay, LandsUnder, SinceAllStay
        <3> QED
            BY <1>1, <3>2
    <2> QED
        BY <2>2, <2>3
<1> QED
    BY <1>2, <1>3, <1>4, <1>5

LEMMA InitKeepsLeases == Init => Promise!Init
<1> SUFFICES ASSUME Init
             PROVE  Promise!Init
    OBVIOUS
<1>1. ASSUME NEW k \in DedupKeys
      PROVE  Owners(k) = {} /\ ~Suppressed(k)
    BY <1>1 DEF Init, DedupInit, Owners, Holds, NoRequest, Suppressed
<1>2. HeldBy = [k \in DedupKeys |-> {}] /\ LeasedSince = [k \in DedupKeys |-> Absent]
    BY <1>1 DEF HeldBy, LeasedSince
<1>3. LandedUnder = {} /\ now = 0
    BY DEF Init, LandedUnder
<1> QED
    BY <1>2, <1>3 DEF Promise!Init, Promise!Never, Absent

\* dedup.go:51-76 with handlers.go:221, 264, 292-296: whichever requests and
\* goroutines race for a key, whatever fails and whenever the sweeper runs,
\* the cache grants each delivery to one goroutine at a time, keeps it granted
\* while that goroutine works and for the TTL if anything landed, and frees it
\* at once if nothing did.
THEOREM DeliveryKeepsLeases == Spec => KeepsLeases
<1>1. OInv /\ OInv' /\ [Next]_vars =>
        [Promise!Next]_<<HeldBy, LeasedSince, LandedUnder, now>>
    <2> SUFFICES ASSUME OInv, OInv', [Next]_vars
                 PROVE  [Promise!Next]_<<HeldBy, LeasedSince, LandedUnder, now>>
        OBVIOUS
    <2>1. /\ IInv /\ IInv' /\ Progress /\ OwnLandings /\ Leased /\ Leased'
        BY LeasedAlways, LeasedNext DEF OInv
    <2>2. CASE Background
        BY <2>1, <2>2, ClockSteps, BackgroundKeepsLeases
    <2>3. ASSUME NEW r \in Requests, NEW s \in Sinks, Step(r, s, work'[r][s])
          PROVE  [Promise!Next]_<<HeldBy, LeasedSince, LandedUnder, now>>
        <3> DEFINE w == work'[r][s]
        <3>1. Step(r, s, w)
            BY <2>3
        <3> HIDE DEF w
        <3> QED
            BY <2>1, <3>1, StepKeepsLeases
    <2> QED
        BY <2>1, <2>2, <2>3, NextStep
<1> QED
    BY <1>1, InitKeepsLeases, SpecOInv, PTL DEF Spec, KeepsLeases, Promise!Spec
=============================================================================
