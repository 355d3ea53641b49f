--------------------------- MODULE DeliveryProofs ---------------------------
(***************************************************************************)
(* The webhook path for every number of requests, sinks, targets, notes and *)
(* parts: two requests never hold one dedup key, and a recorded key is      *)
(* being delivered or stands for something that landed.                     *)
(***************************************************************************)
EXTENDS Delivery, ExpiryListProofs

-----------------------------------------------------------------------------
(* The message log: whoever calls its operations and when, its map and its   *)
(* list stay in step, in expiry order and within their bounds.               *)

(***************************************************************************)
(* As for the button tracker: nothing in the log expires after an entry     *)
(* that is added now.                                                       *)
(***************************************************************************)
LogInv ==
    /\ now \in Nat
    /\ LogTypeOK
    /\ linked = KeysOf(links)
    /\ Sound(links, now + LinkTTL)

LEMMA LinkExpiry == \A e \in LinkEntry : e.expiresAt \in Int
BY DEF LinkEntry

LEMMA LogInvConsistent == LogInv => LogConsistent
BY DEF LogInv, Sound, LogConsistent

LEMMA InitLogInv == LogInit /\ now = 0 => LogInv
<1> SUFFICES ASSUME LogInit, now = 0
             PROVE  LogInv
    OBVIOUS
<1>1. links = <<>> /\ linked = {} /\ now = 0
    BY DEF LogInit
<1>2. links \in Seq(LinkEntry) /\ Len(links) = 0 /\ DOMAIN links = {}
    BY <1>1, EmptySeq, LenProperties
<1> QED
    BY <1>1, <1>2, LogAssumption
    DEF LogInv, LogTypeOK, Sound, KeysDistinct, ExpiryOrdered, KeysOf

\* The entry found for a linked key is in the list.
LEMMA EntryOfLinked ==
    ASSUME LogInv, NEW k \in linked
    PROVE  /\ EntryOf(links, k) \in LinkEntry
           /\ EntryOf(links, k).key = k
           /\ Len(EntryOf(links, k).msgs) \in 1 .. MaxPerAlert
<1>1. links \in Seq(LinkEntry) /\ k \in KeysOf(links)
    BY DEF LogInv, LogTypeOK
<1>2. IndexOf(links, k) \in 1 .. Len(links) /\ links[IndexOf(links, k)].key = k
    BY <1>1, WithoutElements
<1>3. IndexOf(links, k) \in DOMAIN links /\ links[IndexOf(links, k)] \in LinkEntry
    BY <1>1, <1>2, ElementOfSeq, LenProperties
<1> QED
    BY <1>2, <1>3 DEF EntryOf, LogInv, LogTypeOK

(***************************************************************************)
(* The bound on an entry's messages survives every way to shorten a list.   *)
(***************************************************************************)
Capped(list) == \A i \in DOMAIN list : Len(list[i].msgs) \in 1 .. MaxPerAlert

LEMMA CappedAfterN ==
    ASSUME NEW list \in Seq(LinkEntry), NEW n \in 0 .. Len(list), Capped(list)
    PROVE  Capped(AfterN(list, n))
<1>1. /\ AfterN(list, n) \in Seq(LinkEntry) /\ Len(AfterN(list, n)) = Len(list) - n
      /\ \A i \in 1 .. Len(list) - n : AfterN(list, n)[i] = list[n + i]
    BY AfterNElements
<1>2. /\ Len(list) \in Nat /\ DOMAIN list = 1 .. Len(list)
      /\ DOMAIN AfterN(list, n) = 1 .. Len(list) - n
    BY <1>1, LenProperties
<1>3. \A i \in 1 .. Len(list) - n : n + i \in DOMAIN list
    BY <1>2
<1> QED
    BY <1>1, <1>2, <1>3 DEF Capped

LEMMA CappedWithout ==
    ASSUME NEW list \in Seq(LinkEntry), NEW k \in KeysOf(list), Capped(list)
    PROVE  Capped(Without(list, k))
<1>1. /\ Len(list) \in Nat /\ DOMAIN list = 1 .. Len(list)
      /\ DOMAIN Without(list, k) = 1 .. Len(list) - 1
      /\ \A i \in 1 .. Len(list) - 1 :
            Without(list, k)[i] = list[i] \/ Without(list, k)[i] = list[i + 1]
    BY WithoutElements, LenProperties
<1> QED
    BY <1>1 DEF Capped

LEMMA CappedAppend ==
    ASSUME NEW list \in Seq(LinkEntry), NEW e \in LinkEntry, Capped(list),
           Len(e.msgs) \in 1 .. MaxPerAlert
    PROVE  Capped(Append(list, e))
<1>1. /\ Len(list) \in Nat /\ DOMAIN list = 1 .. Len(list)
      /\ DOMAIN Append(list, e) = 1 .. Len(list) + 1
      /\ \A i \in 1 .. Len(list) : Append(list, e)[i] = list[i]
      /\ Append(list, e)[Len(list) + 1] = e
    BY AppendProperties, LenProperties
<1> QED
    BY <1>1 DEF Capped

\* Extending an entry drops its oldest message when there would be too many.
LEMMA LatestMessages ==
    ASSUME NEW msgs \in Seq(Messages), NEW m \in Messages,
           Len(msgs) \in 0 .. MaxPerAlert
    PROVE  /\ Latest(Append(msgs, m)) \in Seq(Messages)
           /\ Len(Latest(Append(msgs, m))) \in 1 .. MaxPerAlert
<1> DEFINE more == Append(msgs, m)
           n == Surplus(more, MaxPerAlert)
<1>1. more \in Seq(Messages) /\ Len(more) = Len(msgs) + 1 /\ MaxPerAlert \in Nat \ {0}
    BY AppendProperties, LogAssumption
<1>2. n = IF Len(msgs) + 1 > MaxPerAlert THEN Len(msgs) + 1 - MaxPerAlert ELSE 0
    BY <1>1 DEF Surplus
<1> HIDE DEF more, n
<1>3. n \in 0 .. Len(more) /\ Len(more) - n \in 1 .. MaxPerAlert
    BY <1>1, <1>2
<1>4. AfterN(more, n) \in Seq(Messages) /\ Len(AfterN(more, n)) = Len(more) - n
    BY <1>1, <1>3, AfterNElements
<1> QED
    BY <1>3, <1>4 DEF more, n, Latest
-----------------------------------------------------------------------------
LEMMA DeleteLogInv ==
    ASSUME LogInv, NEW k, LogDelete(k), now' = now
    PROVE  LogInv'
<1>1. CASE k \in linked
    <2>1. /\ links' = Without(links, k) /\ linked' = linked \ {k}
          /\ links \in Seq(LinkEntry) /\ k \in KeysOf(links) /\ linked = KeysOf(links)
          /\ Sound(links, now + LinkTTL) /\ Capped(links)
        BY <1>1 DEF LogDelete, LogInv, LogTypeOK, Capped
    <2>2. /\ Sound(links', now + LinkTTL) /\ links' \in Seq(LinkEntry)
          /\ Len(links') = Len(links) - 1 /\ KeysOf(links') = KeysOf(links) \ {k}
        BY <2>1, LinkExpiry, SoundWithout
    <2>3. Capped(links')
        BY <2>1, CappedWithout
    <2>4. LinkMax > 0 => Len(links') <= LinkMax
        BY <2>1, <2>2, LenProperties, LogAssumption DEF LogInv, LogTypeOK
    <2> QED
        BY <2>1, <2>2, <2>3, <2>4 DEF LogInv, LogTypeOK, Capped
<1>2. CASE k \notin linked
    BY <1>2 DEF LogDelete, logVars, LogInv, LogTypeOK
<1> QED
    BY <1>1, <1>2

LEMMA AddLogInv ==
    ASSUME LogInv, NEW k \in LinkKeys, NEW m \in Messages, LogAdd(k, m), now' = now
    PROVE  LogInv'
<1>1. PICK n \in 0 .. Len(links) :
        LET pruned == AfterN(links, n)
            left == linked \ KeysOf(FirstN(links, n))
        IN \/ /\ k \in left
              /\ LET msgs == Append(EntryOf(pruned, k).msgs, m)
                 IN links' = Append(Without(pruned, k), LinkTo(k, Latest(msgs)))
              /\ linked' = left
           \/ /\ k \notin left
              /\ LET grown == Append(pruned, LinkTo(k, <<m>>))
                     over == Surplus(grown, LinkMax)
                 IN /\ links' = AfterN(grown, over)
                    /\ linked' = (left \cup {k}) \ KeysOf(FirstN(grown, over))
    BY DEF LogAdd
<1> DEFINE pruned == AfterN(links, n)
           left == linked \ KeysOf(FirstN(links, n))
           b == now + LinkTTL
<1>2. /\ links \in Seq(LinkEntry) /\ linked = KeysOf(links) /\ Sound(links, b)
      /\ Capped(links) /\ Len(links) \in Nat /\ now \in Nat /\ linked \subseteq LinkKeys
      /\ LinkMax > 0 => Len(links) <= LinkMax
    BY LenProperties DEF LogInv, LogTypeOK, Capped
<1>3. /\ pruned \in Seq(LinkEntry) /\ Sound(pruned, b) /\ KeysOf(pruned) = left
      /\ Len(pruned) = Len(links) - n /\ Capped(pruned)
    BY <1>2, LinkExpiry, SoundAfterN, CappedAfterN
<1>4. left \subseteq LinkKeys
    BY <1>2
<1>5. \A msgs \in Seq(Messages) :
        /\ LinkTo(k, msgs) \in LinkEntry
        /\ LinkTo(k, msgs).key = k /\ LinkTo(k, msgs).msgs = msgs
        /\ LinkTo(k, msgs).expiresAt = b
    BY <1>2, LogAssumption DEF LinkTo, LinkEntry
<1>6. CASE k \in left
    <2> DEFINE old == EntryOf(pruned, k)
               msgs == Latest(Append(old.msgs, m))
               rest == Without(pruned, k)
               e == LinkTo(k, msgs)
    <2>1. links' = Append(rest, e) /\ linked' = left
        BY <1>1, <1>6
    <2>2. old \in LinkEntry /\ Len(old.msgs) \in 1 .. MaxPerAlert
        <3>1. IndexOf(pruned, k) \in 1 .. Len(pruned)
            BY <1>3, <1>6, WithoutElements
        <3>2. IndexOf(pruned, k) \in DOMAIN pruned /\ old \in LinkEntry
            BY <1>3, <3>1, ElementOfSeq, LenProperties DEF EntryOf
        <3> QED
            BY <1>3, <3>2 DEF Capped, EntryOf
    <2>3. msgs \in Seq(Messages) /\ Len(msgs) \in 1 .. MaxPerAlert
        <3>1. old.msgs \in Seq(Messages) /\ Len(old.msgs) \in 0 .. MaxPerAlert
            BY <2>2 DEF LinkEntry
        <3> QED
            BY <3>1, LatestMessages
    <2> HIDE DEF old, msgs
    <2>4. e \in LinkEntry /\ e.key = k /\ e.expiresAt = b /\ e.msgs = msgs
        BY <1>5, <2>3
    <2>5. /\ rest \in Seq(LinkEntry) /\ Sound(rest, b) /\ Len(rest) = Len(pruned) - 1
          /\ KeysOf(rest) = left \ {k} /\ Capped(rest)
        <3> HIDE DEF pruned, left, b
        <3>1. pruned \in Seq(LinkEntry) /\ k \in KeysOf(pruned) /\ Sound(pruned, b)
            BY <1>3, <1>6
        <3>2. Capped(rest)
            BY <1>3, <3>1, CappedWithout
        <3> QED
            BY <1>3, <3>1, <3>2, LinkExpiry, SoundWithout
    <2> HIDE DEF e, rest, b
    <2>6. /\ Sound(links', b) /\ links' \in Seq(LinkEntry)
          /\ Len(links') = Len(rest) + 1 /\ KeysOf(links') = KeysOf(rest) \cup {k}
        BY <2>1, <2>4, <2>5, LinkExpiry, SoundAppend
    <2>7. Capped(links')
        BY <2>1, <2>3, <2>4, <2>5, CappedAppend
    <2>8. Len(links') = Len(links) - n
        BY <1>2, <1>3, <2>5, <2>6
    <2>9. LinkMax > 0 => Len(links') <= LinkMax
        BY <1>2, <2>8, LogAssumption
    <2>10. linked' = KeysOf(links') /\ linked' \subseteq LinkKeys
        BY <1>4, <1>6, <2>1, <2>5, <2>6
    <2> QED
        BY <1>2, <2>6, <2>7, <2>9, <2>10 DEF LogInv, LogTypeOK, Capped, b
<1>7. CASE k \notin left
    <2> DEFINE e == LinkTo(k, <<m>>)
               grown == Append(pruned, e)
               over == Surplus(grown, LinkMax)
    <2>1. links' = AfterN(grown, over) /\ linked' = (left \cup {k}) \ KeysOf(FirstN(grown, over))
        BY <1>1, <1>7
    <2>2. <<m>> \in Seq(Messages) /\ Len(<<m>>) = 1
        OBVIOUS
    <2>3. /\ e \in LinkEntry /\ e.key = k /\ e.expiresAt = b
          /\ Len(e.msgs) \in 1 .. MaxPerAlert
        <3> HIDE DEF b
        <3>1. e \in LinkEntry /\ e.key = k /\ e.expiresAt = b /\ e.msgs = <<m>>
            BY <1>5, <2>2
        <3>2. 1 \in 1 .. MaxPerAlert
            BY LogAssumption
        <3> HIDE DEF e
        <3> QED
            BY <2>2, <3>1, <3>2
    <2> HIDE DEF e, pruned, left, b
    <2>4. /\ Sound(grown, b) /\ grown \in Seq(LinkEntry)
          /\ Len(grown) = Len(pruned) + 1 /\ KeysOf(grown) = left \cup {k}
        BY <1>3, <1>7, <2>3, LinkExpiry, SoundAppend
    <2>5. Capped(grown)
        BY <1>3, <2>3, CappedAppend
    <2> HIDE DEF grown
    <2>6. over \in 0 .. Len(grown) /\ (LinkMax > 0 => Len(grown) - over <= LinkMax)
        BY <2>4, SurplusBound, LogAssumption
    <2> HIDE DEF over
    <2>7. /\ Sound(links', b) /\ links' \in Seq(LinkEntry)
          /\ Len(links') = Len(grown) - over
          /\ KeysOf(links') = KeysOf(grown) \ KeysOf(FirstN(grown, over))
        BY <2>1, <2>4, <2>6, LinkExpiry, SoundAfterN
    <2>8. Capped(links')
        BY <2>1, <2>4, <2>5, <2>6, CappedAfterN
    <2>9. linked' = KeysOf(links') /\ linked' \subseteq LinkKeys
        BY <1>4, <2>1, <2>4, <2>7
    <2> QED
        BY <1>2, <2>6, <2>7, <2>8, <2>9 DEF LogInv, LogTypeOK, Capped, b
<1> QED
    BY <1>6, <1>7

LEMMA MissLogInv ==
    ASSUME LogInv, NEW k, LogMiss(k), now' = now
    PROVE  LogInv'
BY DeleteLogInv DEF LogMiss

LEMMA LaterLogInv ==
    ASSUME LogInv, UNCHANGED logVars, now' \in {now, now + 1}
    PROVE  LogInv'
<1>1. /\ links' = links /\ linked' = linked /\ now' \in Nat
      /\ links \in Seq(LinkEntry) /\ Sound(links, now + LinkTTL)
    BY DEF logVars, LogInv, LogTypeOK
<1>2. Sound(links, now' + LinkTTL)
    <2> DEFINE b == now + LinkTTL
               c == now' + LinkTTL
    <2>1. b \in Int /\ c \in Int /\ b <= c
        <3>1. now \in Nat /\ LinkTTL \in Nat
            BY LogAssumption DEF LogInv
        <3>2. CASE now' = now
            BY <3>1, <3>2
        <3>3. CASE now' = now + 1
            BY <3>1, <3>3
        <3> QED
            BY <3>2, <3>3
    <2>2. links \in Seq(LinkEntry) /\ Sound(links, b)
        BY <1>1
    <2> HIDE DEF b, c
    <2>3. Sound(links, c)
        BY <2>1, <2>2, LinkExpiry, SoundLater
    <2> QED
        BY <2>3 DEF c
<1> QED
    BY <1>1, <1>2 DEF LogInv, LogTypeOK
-----------------------------------------------------------------------------
(* The goroutines and their reservations. *)

Busy(r, s) == work[r][s].pc \in Holding

\* Something of key k landed under the reservation made at t.
Landed(confirmed, k, t) == \E c \in confirmed : LandingKey(c) = k /\ c.since = t

\* The goroutine counts on a landing: its reservation will stay.
Promising(m, w) == w.at.any \/ (m = "edit" /\ w.at.edited > 0)

\* What a goroutine's locals say by themselves, w being those of a goroutine
\* for sink s of request q.
Sensible(q, s, w) ==
    /\ w.err <= w.att
    /\ w.ti \in DOMAIN TargetsOf[s]
    /\ w.pc = "next" => w.at = Clean
    /\ w.pc \in Holding => w.ni \in DOMAIN q.payload /\ q.start <= w.since
    /\ w.pc = "link" => w.at.any
    /\ w.pc = "rewrite" /\ mode = "reply" => w.at.any
    /\ q.state # "running" => w = Idle

\* What a busy goroutine may rely on: its reservation stands.
Reserved(r, s) ==
    Busy(r, s) =>
        /\ work[r][s].since <= now
        /\ KeyNow(r, s) # Keyless => seen[KeyNow(r, s)] = work[r][s].since
        /\ Promising(mode, work[r][s]) => Landed(chat, KeyNow(r, s), work[r][s].since)

InBudget(r) ==
    req[r].state = "running" => req[r].start <= now /\ now <= req[r].start + Budget

SameKey(r1, s1, r2, s2) ==
    /\ Busy(r1, s1) /\ Busy(r2, s2)
    /\ KeyNow(r1, s1) = KeyNow(r2, s2) /\ KeyNow(r1, s1) # Keyless

(***************************************************************************)
(* The inductive invariant.  A reservation outlives its owner's budget      *)
(* (InBudget with Budget <= DedupTTL), so it is not expired while its owner *)
(* is busy, and Reserve turns everybody else away.                          *)
(***************************************************************************)
IInv ==
    /\ TypeOK
    /\ LogInv
    /\ \A r \in Requests : InBudget(r)
    /\ \A r \in Requests, s \in Sinks : Sensible(req[r], s, work[r][s]) /\ Reserved(r, s)
    /\ \A r1, r2 \in Requests : \A s1, s2 \in Sinks :
            SameKey(r1, s1, r2, s2) => r1 = r2 /\ s1 = s2
    /\ ReservationHasOwner
-----------------------------------------------------------------------------
LEMMA PayloadTyped ==
    ASSUME NEW p \in Carried
    PROVE  p \in Seq(Notes)
<1>1. Payloads \subseteq Seq(Notes)
    BY DeliveryAssumption
<1>2. <<>> \in Seq(Notes)
    BY EmptySeq
<1> QED
    BY <1>1, <1>2 DEF Carried

\* Keys of what a busy goroutine delivers are keys the cache knows.
LEMMA KeyTyped ==
    ASSUME TypeOK, NEW r \in Requests, NEW s \in Sinks,
           work[r][s].ni \in DOMAIN req[r].payload, work[r][s].ti \in DOMAIN TargetsOf[s]
    PROVE  /\ NoteOf(r, s) \in Notes
           /\ TargetOf(r, s) \in Targets
           /\ KeyNow(r, s) \in DedupKeys \cup {Keyless}
<1>1. req[r].payload \in Carried
    BY DEF TypeOK, Request
<1>2. req[r].payload \in Seq(Notes)
    BY <1>1, PayloadTyped
<1>3. NoteOf(r, s) \in Notes
    BY <1>2, ElementOfSeq, LenProperties DEF NoteOf
<1>4. TargetsOf[s] \in Seq(Targets)
    BY DeliveryAssumption
<1>5. TargetOf(r, s) \in Targets
    BY <1>4, ElementOfSeq, LenProperties DEF TargetOf
<1>6. KeyNow(r, s) \in DedupKeys \cup {Keyless}
    BY <1>3, <1>5, DeliveryAssumption DEF KeyNow, Key
<1> QED
    BY <1>3, <1>5, <1>6

\* One goroutine moves, the others stay.
LEMMA OneMoves ==
    ASSUME TypeOK, NEW r \in Requests, NEW s \in Sinks, NEW w \in Locals,
           work' = [work EXCEPT ![r][s] = w]
    PROVE  /\ work' \in [Requests -> [Sinks -> Locals]]
           /\ work'[r][s] = w
           /\ \A r1 \in Requests, s1 \in Sinks :
                 work'[r1][s1] = IF r1 = r /\ s1 = s THEN w ELSE work[r1][s1]
BY DEF TypeOK

-----------------------------------------------------------------------------
(* The three ways a move of a goroutine, to the locals w, treats its         *)
(* reservation: it stands, is given back, or is taken.                       *)

Stands(r, s, w) ==
    /\ seen' = seen
    /\ Busy(r, s) /\ w.pc \in Holding =>
        /\ w.ni = work[r][s].ni /\ w.ti = work[r][s].ti /\ w.since = work[r][s].since
        /\ Promising(mode, w) => Landed(chat', KeyNow(r, s), work[r][s].since)
    /\ Busy(r, s) /\ w.pc \notin Holding /\ KeyNow(r, s) # Keyless =>
        Landed(chat', KeyNow(r, s), work[r][s].since)
    /\ ~Busy(r, s) => w.pc \notin Holding

GivenBack(r, s, w) ==
    /\ Forget(KeyNow(r, s))
    /\ Busy(r, s)
    /\ w.pc \notin Holding

Taken(r, s, w) ==
    /\ Reserve(KeyNow(r, s))
    /\ work[r][s].ni \in DOMAIN req[r].payload
    /\ ~Busy(r, s)
    /\ w.pc \in Holding
    /\ w.ni = work[r][s].ni /\ w.ti = work[r][s].ti /\ w.since = now
    /\ ~Promising(mode, w)

\* A goroutine of a running request moves, sensibly, in one of these ways.
Moves(r, s, w) ==
    /\ w \in Locals
    /\ work' = [work EXCEPT ![r][s] = w]
    /\ req[r].state = "running"
    /\ Sensible(req[r], s, w)
    /\ Stands(r, s, w) \/ GivenBack(r, s, w) \/ Taken(r, s, w)
    /\ LogInv'
    /\ rewritten' \subseteq Messages
    /\ chat \subseteq chat' /\ chat' \subseteq Landings
    /\ now' = now /\ mode' = mode /\ req' = req

\* Where everybody is after the move.
LEMMA AfterMove ==
    ASSUME IInv, NEW r \in Requests, NEW s \in Sinks, NEW w, Moves(r, s, w)
    PROVE  /\ work' \in [Requests -> [Sinks -> Locals]]
           /\ work'[r][s] = w
           /\ Busy(r, s)' <=> w.pc \in Holding
           /\ \A r1 \in Requests, s1 \in Sinks : r1 # r \/ s1 # s =>
                 /\ work'[r1][s1] = work[r1][s1]
                 /\ Busy(r1, s1)' <=> Busy(r1, s1)
                 /\ KeyNow(r1, s1)' = KeyNow(r1, s1)
           /\ w.pc \in Holding => KeyNow(r, s)' = KeyNow(r, s)
<1>1. /\ w \in Locals /\ work' = [work EXCEPT ![r][s] = w] /\ req' = req /\ TypeOK
    BY DEF Moves, IInv
<1>2. /\ work' \in [Requests -> [Sinks -> Locals]]
      /\ work'[r][s] = w
      /\ \A r1 \in Requests, s1 \in Sinks :
             work'[r1][s1] = IF r1 = r /\ s1 = s THEN w ELSE work[r1][s1]
    BY <1>1, OneMoves
<1>3. ASSUME NEW r1 \in Requests, NEW s1 \in Sinks, r1 # r \/ s1 # s
      PROVE  /\ work'[r1][s1] = work[r1][s1]
             /\ Busy(r1, s1)' <=> Busy(r1, s1)
             /\ KeyNow(r1, s1)' = KeyNow(r1, s1)
    <2>1. work'[r1][s1] = work[r1][s1]
        BY <1>2, <1>3
    <2> QED
        BY <1>1, <2>1 DEF Busy, KeyNow, NoteOf, TargetOf
<1>4. ASSUME w.pc \in Holding
      PROVE  KeyNow(r, s)' = KeyNow(r, s)
    <2>1. w.ni = work[r][s].ni /\ w.ti = work[r][s].ti
        BY <1>4 DEF Moves, Stands, GivenBack, Taken
    <2> QED
        BY <1>1, <1>2, <2>1 DEF KeyNow, NoteOf, TargetOf
<1> QED
    BY <1>2, <1>3, <1>4 DEF Busy

\* A key that is taken was nobody's.
LEMMA TakenWasFree ==
    ASSUME IInv, NEW r \in Requests, NEW s \in Sinks,
           Reserve(KeyNow(r, s)), KeyNow(r, s) # Keyless,
           NEW r1 \in Requests, NEW s1 \in Sinks, Busy(r1, s1)
    PROVE  KeyNow(r1, s1) # KeyNow(r, s)
<1> SUFFICES ASSUME KeyNow(r1, s1) = KeyNow(r, s)
             PROVE  FALSE
    OBVIOUS
<1> DEFINE k == KeyNow(r, s)
<1>1. /\ Reserved(r1, s1) /\ Sensible(req[r1], s1, work[r1][s1]) /\ InBudget(r1)
      /\ work[r1][s1] \in Locals /\ req[r1] \in Request /\ now \in Nat
    BY DEF IInv, TypeOK
<1>2. seen[k] = work[r1][s1].since /\ work[r1][s1].since <= now
    BY <1>1 DEF Reserved
<1>3. req[r1].state = "running" /\ req[r1].start <= work[r1][s1].since
    <2>1. work[r1][s1] # Idle
        BY DEF Busy, Holding, Idle
    <2> QED
        BY <1>1, <2>1 DEF Sensible, Busy, Request
<1>4. now <= req[r1].start + Budget
    BY <1>1, <1>3 DEF InBudget
<1>5. /\ work[r1][s1].since \in Nat /\ req[r1].start \in Nat
      /\ Budget \in Nat /\ DedupTTL \in Nat /\ Budget <= DedupTTL
    BY <1>1, BudgetAssumption, DedupAssumption DEF Locals, Request
<1>6. seen[k] # Absent /\ now - seen[k] <= DedupTTL
    BY <1>1, <1>2, <1>3, <1>4, <1>5 DEF Absent
<1> QED
    BY <1>6 DEF Reserve, Suppressed

\* What the cache says of the keys of the others does not change.
LEMMA OthersKeepKeys ==
    ASSUME IInv, NEW r \in Requests, NEW s \in Sinks, NEW w, Moves(r, s, w),
           NEW r1 \in Requests, NEW s1 \in Sinks, r1 # r \/ s1 # s,
           Busy(r1, s1), KeyNow(r1, s1) # Keyless
    PROVE  seen'[KeyNow(r1, s1)] = seen[KeyNow(r1, s1)]
<1> DEFINE k == KeyNow(r, s)
           k1 == KeyNow(r1, s1)
<1>1. seen \in [DedupKeys -> Nat \cup {Absent}]
    BY DEF IInv, TypeOK, DedupTypeOK
<1>2. CASE Stands(r, s, w)
    BY <1>2 DEF Stands
<1>3. CASE GivenBack(r, s, w)
    <2>1. Busy(r, s) /\ Forget(k)
        BY <1>3 DEF GivenBack
    <2>2. k1 # k
        BY <2>1 DEF IInv, SameKey
    <2> QED
        BY <1>1, <2>1, <2>2 DEF Forget
<1>4. CASE Taken(r, s, w)
    <2>1. Reserve(k)
        BY <1>4 DEF Taken
    <2>2. k # Keyless => k1 # k
        BY <2>1, TakenWasFree
    <2> QED
        BY <1>1, <2>1, <2>2 DEF Reserve
<1> QED
    BY <1>2, <1>3, <1>4 DEF Moves

LEMMA MoveTypeOK ==
    ASSUME IInv, NEW r \in Requests, NEW s \in Sinks, NEW w, Moves(r, s, w)
    PROVE  TypeOK'
<1>1. /\ seen \in [DedupKeys -> Nat \cup {Absent}] /\ now \in Nat /\ mode \in Modes
      /\ req \in [Requests -> Request]
      /\ \A r1 \in Requests, s1 \in Sinks : work[r1][s1].err <= work[r1][s1].att
    BY DEF IInv, TypeOK, DedupTypeOK
<1>2. seen' \in [DedupKeys -> Nat \cup {Absent}]
    <2>1. \/ seen' = seen
          \/ seen' = [seen EXCEPT ![KeyNow(r, s)] = Absent]
          \/ seen' = [seen EXCEPT ![KeyNow(r, s)] = now]
        BY DEF Moves, Stands, GivenBack, Taken, Reserve, Forget
    <2> QED
        BY <1>1, <2>1
<1>3. /\ work' \in [Requests -> [Sinks -> Locals]]
      /\ work'[r][s] = w
      /\ \A r1 \in Requests, s1 \in Sinks :
            r1 # r \/ s1 # s => work'[r1][s1] = work[r1][s1]
    BY AfterMove
<1>4. w.err <= w.att
    BY DEF Moves, Sensible
<1>5. \A r1 \in Requests, s1 \in Sinks : work'[r1][s1].err <= work'[r1][s1].att
    BY <1>1, <1>3, <1>4
<1>6. LogTypeOK' /\ rewritten' \subseteq Messages /\ chat' \subseteq Landings
      /\ now' = now /\ mode' = mode /\ req' = req
    BY DEF Moves, LogInv
<1> QED
    BY <1>1, <1>2, <1>3, <1>5, <1>6 DEF TypeOK, DedupTypeOK

LEMMA MoveSensible ==
    ASSUME IInv, NEW r \in Requests, NEW s \in Sinks, NEW w, Moves(r, s, w),
           NEW r1 \in Requests, NEW s1 \in Sinks
    PROVE  Sensible(req[r1], s1, work[r1][s1])'
<1>1. Sensible(req[r1], s1, work[r1][s1]) /\ Sensible(req[r], s, w)
    BY DEF IInv, Moves
<1>2. work'[r1][s1] = IF r1 = r /\ s1 = s THEN w ELSE work[r1][s1]
    BY AfterMove
<1>3. req' = req /\ mode' = mode
    BY DEF Moves
<1> QED
    BY <1>1, <1>2, <1>3 DEF Sensible

LEMMA MoveReserved ==
    ASSUME IInv, NEW r \in Requests, NEW s \in Sinks, NEW w, Moves(r, s, w),
           NEW r1 \in Requests, NEW s1 \in Sinks
    PROVE  Reserved(r1, s1)'
<1> SUFFICES ASSUME Busy(r1, s1)'
             PROVE  /\ work'[r1][s1].since <= now'
                    /\ KeyNow(r1, s1)' # Keyless => seen'[KeyNow(r1, s1)'] = work'[r1][s1].since
                    /\ Promising(mode', work'[r1][s1]) =>
                          Landed(chat', KeyNow(r1, s1)', work'[r1][s1].since)
    BY DEF Reserved
<1>1. /\ now' = now /\ mode' = mode /\ chat \subseteq chat' /\ now \in Nat
      /\ Reserved(r, s) /\ Reserved(r1, s1)
    BY DEF Moves, IInv, TypeOK
<1>2. CASE r1 # r \/ s1 # s
    <2>1. /\ work'[r1][s1] = work[r1][s1] /\ Busy(r1, s1) /\ KeyNow(r1, s1)' = KeyNow(r1, s1)
        BY <1>2, AfterMove
    <2>2. KeyNow(r1, s1) # Keyless => seen'[KeyNow(r1, s1)] = seen[KeyNow(r1, s1)]
        BY <1>2, <2>1, OthersKeepKeys
    <2> QED
        <3>1. \A k, t : Landed(chat, k, t) => Landed(chat', k, t)
            BY <1>1 DEF Landed
        <3> QED
            BY <1>1, <2>1, <2>2, <3>1 DEF Reserved
<1>3. CASE r1 = r /\ s1 = s
    <2>1. work'[r][s] = w /\ w.pc \in Holding /\ KeyNow(r, s)' = KeyNow(r, s)
        BY <1>3, AfterMove
    <2>2. CASE Stands(r, s, w)
        <3>1. Busy(r, s) /\ w.since = work[r][s].since
            BY <2>1, <2>2 DEF Stands
        <3> QED
            BY <1>1, <1>3, <2>1, <2>2, <3>1 DEF Stands, Reserved
    <2>3. CASE GivenBack(r, s, w)
        BY <2>1, <2>3 DEF GivenBack
    <2>4. CASE Taken(r, s, w)
        <3>1. /\ w.since = now /\ ~Promising(mode, w) /\ Reserve(KeyNow(r, s))
              /\ work[r][s].ni \in DOMAIN req[r].payload
            BY <2>4 DEF Taken
        <3>2. KeyNow(r, s) # Keyless => KeyNow(r, s) \in DedupKeys
            <4>1. work[r][s].ti \in DOMAIN TargetsOf[s] /\ TypeOK
                BY DEF IInv, Sensible
            <4> QED
                BY <3>1, <4>1, KeyTyped
        <3>3. KeyNow(r, s) # Keyless => seen'[KeyNow(r, s)] = now
            BY <3>1, <3>2 DEF Reserve, IInv, TypeOK, DedupTypeOK
        <3> QED
            BY <1>1, <1>3, <2>1, <3>1, <3>3
    <2> QED
        BY <2>2, <2>3, <2>4 DEF Moves
<1> QED
    BY <1>2, <1>3

LEMMA MoveUnique ==
    ASSUME IInv, NEW r \in Requests, NEW s \in Sinks, NEW w, Moves(r, s, w),
           NEW r1 \in Requests, NEW s1 \in Sinks, NEW r2 \in Requests, NEW s2 \in Sinks,
           SameKey(r1, s1, r2, s2)'
    PROVE  r1 = r2 /\ s1 = s2
<1>1. \A r3 \in Requests, s3 \in Sinks :
         SameKey(r, s, r3, s3)' => r3 = r /\ s3 = s
    <2> SUFFICES ASSUME NEW r3 \in Requests, NEW s3 \in Sinks,
                        SameKey(r, s, r3, s3)', r3 # r \/ s3 # s
                 PROVE  FALSE
        OBVIOUS
    <2>1. /\ Busy(r3, s3) /\ KeyNow(r3, s3) # Keyless
          /\ w.pc \in Holding /\ KeyNow(r, s) = KeyNow(r3, s3)
        BY AfterMove DEF SameKey
    <2>2. CASE Busy(r, s)
        BY <2>1, <2>2 DEF SameKey, IInv
    <2>3. CASE ~Busy(r, s)
        <3>1. Reserve(KeyNow(r, s))
            BY <2>1, <2>3 DEF Moves, Stands, GivenBack, Taken
        <3> QED
            BY <2>1, <3>1, TakenWasFree
    <2> QED
        BY <2>2, <2>3
<1>2. CASE r1 = r /\ s1 = s
    BY <1>1, <1>2
<1>3. CASE r2 = r /\ s2 = s
    BY <1>1, <1>3 DEF SameKey
<1>4. CASE (r1 # r \/ s1 # s) /\ (r2 # r \/ s2 # s)
    <2>1. /\ Busy(r1, s1)' <=> Busy(r1, s1)
          /\ KeyNow(r1, s1)' = KeyNow(r1, s1)
        BY <1>4, AfterMove
    <2>2. /\ Busy(r2, s2)' <=> Busy(r2, s2)
          /\ KeyNow(r2, s2)' = KeyNow(r2, s2)
        BY <1>4, AfterMove
    <2>3. SameKey(r1, s1, r2, s2)
        BY <2>1, <2>2 DEF SameKey
    <2> QED
        BY <2>3 DEF IInv
<1> QED
    BY <1>2, <1>3, <1>4

LEMMA MoveOwner ==
    ASSUME IInv, NEW r \in Requests, NEW s \in Sinks, NEW w, Moves(r, s, w),
           NEW k \in DedupKeys, seen'[k] # Absent
    PROVE  \/ \E r1 \in Requests, s1 \in Sinks :
                 Holds(r1, s1, k)' /\ work'[r1][s1].since = seen'[k]
           \/ Landed(chat', k, seen'[k])
<1>1. /\ seen \in [DedupKeys -> Nat \cup {Absent}]
      /\ k # Keyless /\ chat \subseteq chat' /\ req' = req /\ req[r].state = "running"
    BY DedupAssumption DEF IInv, TypeOK, DedupTypeOK, Moves
<1>2. CASE seen'[k] = seen[k]
    <2>1. CASE Landed(chat, k, seen[k])
        BY <1>1, <1>2, <2>1 DEF Landed
    <2>2. ASSUME NEW r1 \in Requests, NEW s1 \in Sinks,
                 Holds(r1, s1, k), work[r1][s1].since = seen[k], r1 # r \/ s1 # s
          PROVE  Holds(r1, s1, k)' /\ work'[r1][s1].since = seen'[k]
        <3>1. /\ work'[r1][s1] = work[r1][s1]
              /\ KeyNow(r1, s1)' = KeyNow(r1, s1)
            BY <2>2, AfterMove
        <3> QED
            BY <1>1, <1>2, <2>2, <3>1 DEF Holds
    <2>3. ASSUME Holds(r, s, k), work[r][s].since = seen[k]
          PROVE  \/ Holds(r, s, k)' /\ work'[r][s].since = seen'[k]
                 \/ Landed(chat', k, seen'[k])
        <3>1. Busy(r, s) /\ KeyNow(r, s) = k
            BY <2>3 DEF Holds, Busy
        <3>2. Stands(r, s, w)
            BY <1>1, <3>1 DEF Moves, GivenBack, Forget, Taken
        <3>3. CASE w.pc \in Holding
            <4>1. /\ work'[r][s] = w /\ KeyNow(r, s)' = KeyNow(r, s)
                  /\ w.since = work[r][s].since
                BY <3>1, <3>2, <3>3, AfterMove DEF Stands
            <4> QED
                BY <1>1, <1>2, <2>3, <3>1, <3>3, <4>1 DEF Holds
        <3>4. CASE w.pc \notin Holding
            BY <1>1, <1>2, <2>3, <3>1, <3>2, <3>4 DEF Stands
        <3> QED
            BY <3>3, <3>4
    <2>4. \/ \E r1 \in Requests, s1 \in Sinks :
                 Holds(r1, s1, k) /\ work[r1][s1].since = seen[k]
          \/ Landed(chat, k, seen[k])
        BY <1>2 DEF IInv, ReservationHasOwner, Landed
    <2> QED
        BY <2>1, <2>2, <2>3, <2>4
<1>3. CASE seen'[k] # seen[k]
    <2>1. Taken(r, s, w)
        BY <1>1, <1>3 DEF Moves, Stands, GivenBack, Forget
    <2>2. KeyNow(r, s) = k /\ seen'[k] = now
        BY <1>1, <1>3, <2>1 DEF Taken, Reserve
    <2>3. w.pc \in Holding /\ w.since = now
        BY <2>1 DEF Taken
    <2>4. work'[r][s] = w /\ KeyNow(r, s)' = k
        BY <2>2, <2>3, AfterMove
    <2> QED
        BY <1>1, <2>2, <2>3, <2>4 DEF Holds
<1> QED
    BY <1>2, <1>3

LEMMA MoveIInv ==
    ASSUME IInv, NEW r \in Requests, NEW s \in Sinks, NEW w, Moves(r, s, w)
    PROVE  IInv'
<1>1. TypeOK'
    BY MoveTypeOK
<1>2. LogInv'
    BY DEF Moves
<1>3. \A r1 \in Requests : InBudget(r1)'
    BY DEF IInv, InBudget, Moves
<1>4. \A r1 \in Requests, s1 \in Sinks :
         Sensible(req[r1], s1, work[r1][s1])' /\ Reserved(r1, s1)'
    BY MoveSensible, MoveReserved
<1>5. \A r1, r2 \in Requests : \A s1, s2 \in Sinks :
         SameKey(r1, s1, r2, s2)' => r1 = r2 /\ s1 = s2
    BY MoveUnique
<1>6. ReservationHasOwner'
    BY MoveOwner DEF ReservationHasOwner, Landed
<1> QED
    BY <1>1, <1>2, <1>3, <1>4, <1>5, <1>6 DEF IInv

-----------------------------------------------------------------------------
(* Every step of a goroutine is such a move. *)

LEMMA CleanTyped == Clean \in TargetLocals
<1>1. <<>> \in Seq(Messages)
    BY EmptySeq
<1> QED
    BY <1>1 DEF Clean, TargetLocals

LEMMA NoRequestTyped == NoRequest \in Request
BY DEF NoRequest, Request, States, Carried, Acks

LEMMA IdleTyped ==
    /\ Idle \in Locals
    /\ Idle.pc = "next" /\ Idle.at = Clean /\ Idle.ti = 1 /\ Idle.err <= Idle.att
BY CleanTyped DEF Idle, Locals

LEMMA FirstTarget == \A s \in Sinks : 1 \in DOMAIN TargetsOf[s]
BY DeliveryAssumption, EmptySeq, LenProperties

\* What holds of a goroutine of a running request.
LEMMA Here ==
    ASSUME IInv, NEW r \in Requests, NEW s \in Sinks, req[r].state = "running"
    PROVE  /\ work[r][s] \in Locals
           /\ Sensible(req[r], s, work[r][s])
           /\ Reserved(r, s)
           /\ req[r] \in Request
           /\ TypeOK /\ LogInv
           /\ now \in Nat /\ req[r].start <= now
           /\ rewritten \subseteq Messages /\ chat \subseteq Landings
BY DEF IInv, TypeOK, InBudget

\* A goroutine that is not busy moves on and stays so.
LEMMA IdleMoves ==
    ASSUME IInv, NEW r \in Requests, NEW s \in Sinks, req[r].state = "running",
           NEW w \in Locals, Goroutine(r, s, w), ~Busy(r, s), w.pc \notin Holding,
           Sensible(req[r], s, w),
           UNCHANGED <<seen, logVars, chat, rewritten>>, UNCHANGED <<now, mode, req>>
    PROVE  IInv'
<1>1. LogInv'
    BY Here, LaterLogInv
<1>2. Stands(r, s, w)
    BY DEF Stands
<1>3. Moves(r, s, w)
    BY <1>1, <1>2, Here DEF Moves, Goroutine
<1> QED
    BY <1>3, MoveIInv

LEMMA SettledTyped ==
    ASSUME NEW r, NEW s \in Sinks, NEW w \in Locals,
           req[r].state = "running", w.ti \in DOMAIN TargetsOf[s], w.err <= w.att,
           TargetOf(r, s) \in Targets,
           NEW outcome \in {"landed", "partial", "failed", "skipped", "edited"}
    PROVE  /\ Settled(r, s, w, outcome) \in Locals
           /\ Settled(r, s, w, outcome).pc = "next"
           /\ Sensible(req[r], s, Settled(r, s, w, outcome))
<1> DEFINE g == [note |-> w.ni, target |-> TargetOf(r, s), as |-> outcome]
           got == w.got \cup {g}
           ti == IF w.ti = Len(TargetsOf[s]) THEN 1 ELSE w.ti + 1
           ni == IF w.ti = Len(TargetsOf[s]) THEN w.ni + 1 ELSE w.ni
           v == [w EXCEPT !.pc = "next", !.at = Clean, !.since = 0, !.got = got,
                          !.ti = ti, !.ni = ni]
<1>1. /\ TargetsOf[s] \in Seq(Targets) /\ Len(TargetsOf[s]) \in Nat
      /\ DOMAIN TargetsOf[s] = 1 .. Len(TargetsOf[s])
    BY DeliveryAssumption, LenProperties
<1>2. w.ti \in 1 .. Len(TargetsOf[s]) /\ w.ni \in Nat \ {0}
    BY <1>1 DEF Locals
<1>3. ti \in DOMAIN TargetsOf[s] /\ ti \in Nat \ {0} /\ ni \in Nat \ {0}
    BY <1>1, <1>2
<1>4. g \in Outcome
    BY <1>2 DEF Outcome
<1>5. got \in SUBSET Outcome
    BY <1>4 DEF Locals
<1>6. Settled(r, s, w, outcome) = v
    <2>1. /\ got = w.got \cup {[note |-> w.ni, target |-> TargetOf(r, s), as |-> outcome]}
          /\ ti = (IF w.ti = Len(TargetsOf[s]) THEN 1 ELSE w.ti + 1)
          /\ ni = (IF w.ti = Len(TargetsOf[s]) THEN w.ni + 1 ELSE w.ni)
        OBVIOUS
    <2> HIDE DEF got, ti, ni
    <2> QED
        BY <2>1 DEF Settled, Locals
<1> HIDE DEF got, ti, ni
<1>7. v \in Locals
    BY <1>3, <1>5, CleanTyped DEF Locals
<1>8. v.pc = "next" /\ v.at = Clean /\ v.ti = ti /\ v.err <= v.att
    BY DEF Locals
<1> HIDE DEF v
<1>9. Sensible(req[r], s, v)
    BY <1>3, <1>8 DEF Sensible, Holding
<1> QED
    BY <1>6, <1>7, <1>8, <1>9

LEMMA StoppedTyped ==
    ASSUME NEW r, NEW s \in Sinks, NEW w \in Locals, req[r].state = "running",
           w.ti \in DOMAIN TargetsOf[s], w.err <= w.att
    PROVE  /\ Stopped(w) \in Locals
           /\ Stopped(w).pc = "done"
           /\ Sensible(req[r], s, Stopped(w))
<1> DEFINE v == [w EXCEPT !.pc = "done", !.at = Clean, !.since = 0, !.cut = TRUE]
<1>1. v \in Locals
    BY CleanTyped DEF Locals
<1>2. v.pc = "done" /\ v.ti = w.ti /\ v.err <= v.att
    BY DEF Locals
<1> HIDE DEF v
<1>3. Sensible(req[r], s, v)
    BY <1>2 DEF Sensible, Holding
<1> QED
    BY <1>1, <1>2, <1>3 DEF Stopped, v

-----------------------------------------------------------------------------
(* deliverSink. *)

LEMMA EndOfNotesIInv ==
    ASSUME IInv, NEW r \in Requests, NEW s \in Sinks, EndOfNotes(r, s),
           UNCHANGED <<now, mode, req>>
    PROVE  IInv'
<1> DEFINE w == [work[r][s] EXCEPT !.pc = "done"]
<1>1. /\ req[r].state = "running" /\ work[r][s].pc = "next" /\ Goroutine(r, s, w)
      /\ UNCHANGED <<seen, logVars, chat, rewritten>>
    BY DEF EndOfNotes, At
<1>2. work[r][s] \in Locals /\ Sensible(req[r], s, work[r][s])
    BY <1>1, Here
<1>3. w \in Locals /\ w.pc = "done" /\ w.ti = work[r][s].ti /\ w.err <= w.att
    BY <1>2 DEF Locals, Sensible
<1> HIDE DEF w
<1>4. Sensible(req[r], s, w)
    BY <1>1, <1>2, <1>3 DEF Sensible, Holding
<1> QED
    BY <1>1, <1>3, <1>4, IdleMoves DEF Busy, Holding

LEMMA OutOfBudgetIInv ==
    ASSUME IInv, NEW r \in Requests, NEW s \in Sinks, OutOfBudget(r, s),
           UNCHANGED <<now, mode, req>>
    PROVE  IInv'
<1> DEFINE w == Stopped(work[r][s])
<1>1. /\ req[r].state = "running" /\ work[r][s].pc = "next" /\ Goroutine(r, s, w)
      /\ UNCHANGED <<seen, logVars, chat, rewritten>>
    BY DEF OutOfBudget, InLoop, At
<1>2. work[r][s] \in Locals /\ Sensible(req[r], s, work[r][s])
    BY <1>1, Here
<1>3. w \in Locals /\ w.pc = "done" /\ Sensible(req[r], s, w)
    BY <1>1, <1>2, StoppedTyped DEF Sensible
<1> QED
    BY <1>1, <1>3, IdleMoves DEF Busy, Holding

LEMMA RenderFailsIInv ==
    ASSUME IInv, NEW r \in Requests, NEW s \in Sinks, RenderFails(r, s),
           UNCHANGED <<now, mode, req>>
    PROVE  IInv'
<1> DEFINE old == work[r][s]
           err == old.err + 1
           att == old.att + 1
           ni == old.ni + 1
           w == [old EXCEPT !.err = err, !.att = att, !.ni = ni]
<1>1. /\ req[r].state = "running" /\ old.pc = "next" /\ Goroutine(r, s, w)
      /\ UNCHANGED <<seen, logVars, chat, rewritten>>
    BY DEF RenderFails, InLoop, At
<1>2. old \in Locals /\ Sensible(req[r], s, old)
    BY <1>1, Here
<1> HIDE DEF old
<1>3. err \in Nat /\ att \in Nat /\ ni \in Nat \ {0} /\ err <= att
    BY <1>2 DEF Locals, Sensible
<1> HIDE DEF err, att, ni
<1>4. w \in Locals
    BY <1>2, <1>3 DEF Locals
<1>5. w.pc = "next" /\ w.ti = old.ti /\ w.at = old.at /\ w.err <= w.att
    BY <1>1, <1>2, <1>3 DEF Locals
<1> HIDE DEF w
<1>6. Sensible(req[r], s, w)
    BY <1>1, <1>2, <1>5 DEF Sensible, Holding
<1> QED
    BY <1>1, <1>4, <1>5, <1>6, IdleMoves DEF Busy, Holding, old

\* In the loop the note and the target exist.
LEMMA InLoopKey ==
    ASSUME IInv, NEW r \in Requests, NEW s \in Sinks, InLoop(r, s)
    PROVE  /\ work[r][s].ni \in DOMAIN req[r].payload
           /\ work[r][s].ti \in DOMAIN TargetsOf[s]
           /\ TargetOf(r, s) \in Targets
<1>1. /\ work[r][s] \in Locals /\ Sensible(req[r], s, work[r][s]) /\ TypeOK
      /\ req[r] \in Request
    BY Here DEF InLoop, At
<1>2. req[r].payload \in Seq(Notes)
    <2>1. req[r].payload \in Carried
        BY <1>1 DEF Request
    <2> QED
        BY <2>1, PayloadTyped
<1>3. work[r][s].ni \in DOMAIN req[r].payload
    <2>1. work[r][s].ni \in Nat \ {0}
        BY <1>1 DEF Locals
    <2>2. work[r][s].ni <= Len(req[r].payload)
        BY DEF InLoop
    <2>3. Len(req[r].payload) \in Nat /\ DOMAIN req[r].payload = 1 .. Len(req[r].payload)
        BY <1>2, LenProperties
    <2> QED
        BY <2>1, <2>2, <2>3
<1>4. work[r][s].ti \in DOMAIN TargetsOf[s]
    BY <1>1 DEF Sensible
<1> QED
    BY <1>1, <1>3, <1>4, KeyTyped

LEMMA SkipDuplicateIInv ==
    ASSUME IInv, NEW r \in Requests, NEW s \in Sinks, SkipDuplicate(r, s),
           UNCHANGED <<now, mode, req>>
    PROVE  IInv'
<1> DEFINE w == Settled(r, s, work[r][s], "skipped")
<1>1. /\ req[r].state = "running" /\ work[r][s].pc = "next" /\ Goroutine(r, s, w)
      /\ UNCHANGED <<seen, logVars, chat, rewritten>> /\ InLoop(r, s)
    BY DEF SkipDuplicate, InLoop, At
<1>2. work[r][s] \in Locals /\ Sensible(req[r], s, work[r][s])
    BY <1>1, Here
<1>3. w \in Locals /\ w.pc = "next" /\ Sensible(req[r], s, w)
    BY <1>1, <1>2, InLoopKey, SettledTyped DEF Sensible
<1> HIDE DEF w
<1> QED
    BY <1>1, <1>3, IdleMoves DEF Busy, Holding

LEMMA StartTargetIInv ==
    ASSUME IInv, NEW r \in Requests, NEW s \in Sinks, StartTarget(r, s),
           UNCHANGED <<now, mode, req>>
    PROVE  IInv'
<1> DEFINE old == work[r][s]
           first == IF Linkable(r, s) /\ NoteOf(r, s).status = "resolved"
                    THEN "lookup" ELSE "send"
           w == [old EXCEPT !.pc = first, !.since = now]
<1>1. /\ req[r].state = "running" /\ old.pc = "next" /\ Goroutine(r, s, w)
      /\ Reserve(KeyNow(r, s)) /\ InLoop(r, s)
      /\ UNCHANGED <<logVars, chat, rewritten>>
    BY DEF StartTarget, InLoop, At
<1>2. /\ old \in Locals /\ Sensible(req[r], s, old) /\ now \in Nat /\ req[r].start <= now
      /\ rewritten \subseteq Messages /\ chat \subseteq Landings /\ LogInv
    BY <1>1, Here
<1>3. old.ni \in DOMAIN req[r].payload
    BY <1>1, InLoopKey
<1>4. first \in {"lookup", "send"}
    OBVIOUS
<1> HIDE DEF old, first
<1>5. w \in Locals
    BY <1>2, <1>4 DEF Locals, Holding
<1>6. /\ w.pc = first /\ w.since = now /\ w.ni = old.ni /\ w.ti = old.ti /\ w.at = old.at
      /\ w.err = old.err /\ w.att = old.att
    BY <1>2 DEF Locals
<1> HIDE DEF w
<1>7. Sensible(req[r], s, w)
    BY <1>1, <1>2, <1>3, <1>4, <1>6 DEF Sensible, Holding
<1>8. ~Promising(mode, w)
    BY <1>1, <1>2, <1>6 DEF Sensible, Promising, Clean
<1>9. Taken(r, s, w)
    BY <1>1, <1>3, <1>4, <1>6, <1>8 DEF Taken, Busy, Holding, old
<1>10. LogInv'
    BY <1>1, <1>2, LaterLogInv
<1>11. Moves(r, s, w)
    BY <1>1, <1>2, <1>5, <1>7, <1>9, <1>10 DEF Moves, Goroutine
<1> QED
    BY <1>11, MoveIInv

-----------------------------------------------------------------------------
(* deliverTarget and sendParts. *)

\* A busy goroutine whose reservation stands.
LEMMA BusyMoves ==
    ASSUME IInv, NEW r \in Requests, NEW s \in Sinks, req[r].state = "running",
           NEW w \in Locals, Goroutine(r, s, w), Busy(r, s), Sensible(req[r], s, w),
           seen' = seen, LogInv', rewritten' \subseteq Messages,
           chat \subseteq chat', chat' \subseteq Landings, UNCHANGED <<now, mode, req>>,
           w.pc \in Holding =>
              /\ w.ni = work[r][s].ni /\ w.ti = work[r][s].ti /\ w.since = work[r][s].since
              /\ Promising(mode, w) => Landed(chat', KeyNow(r, s), work[r][s].since),
           w.pc \notin Holding => Landed(chat', KeyNow(r, s), work[r][s].since)
    PROVE  IInv'
<1>1. Stands(r, s, w)
    BY DEF Stands
<1>2. Moves(r, s, w)
    BY <1>1 DEF Moves, Goroutine
<1> QED
    BY <1>2, MoveIInv

\* A busy goroutine that gives its reservation back.
LEMMA GivingBackMoves ==
    ASSUME IInv, NEW r \in Requests, NEW s \in Sinks, req[r].state = "running",
           NEW w \in Locals, Goroutine(r, s, w), Busy(r, s), Sensible(req[r], s, w),
           Forget(KeyNow(r, s)), w.pc \notin Holding,
           LogInv', rewritten' \subseteq Messages,
           chat \subseteq chat', chat' \subseteq Landings, UNCHANGED <<now, mode, req>>
    PROVE  IInv'
<1>1. GivenBack(r, s, w)
    BY DEF GivenBack
<1>2. Moves(r, s, w)
    BY <1>1 DEF Moves, Goroutine
<1> QED
    BY <1>2, MoveIInv

\* What holds of a busy goroutine.
LEMMA HereBusy ==
    ASSUME IInv, NEW r \in Requests, NEW s \in Sinks,
           req[r].state = "running", Busy(r, s)
    PROVE  /\ work[r][s] \in Locals
           /\ Sensible(req[r], s, work[r][s])
           /\ work[r][s].ni \in DOMAIN req[r].payload
           /\ work[r][s].ti \in DOMAIN TargetsOf[s]
           /\ req[r].start <= work[r][s].since
           /\ NoteOf(r, s) \in Notes /\ TargetOf(r, s) \in Targets
           /\ Promising(mode, work[r][s]) => Landed(chat, KeyNow(r, s), work[r][s].since)
<1>1. /\ work[r][s] \in Locals /\ Sensible(req[r], s, work[r][s]) /\ Reserved(r, s) /\ TypeOK
    BY Here
<1>2. /\ work[r][s].ni \in DOMAIN req[r].payload
      /\ work[r][s].ti \in DOMAIN TargetsOf[s]
      /\ req[r].start <= work[r][s].since
    BY <1>1 DEF Sensible, Busy
<1> QED
    BY <1>1, <1>2, KeyTyped DEF Reserved

LEMMA FindLinkIInv ==
    ASSUME IInv, NEW r \in Requests, NEW s \in Sinks, FindLink(r, s),
           UNCHANGED <<now, mode, req>>
    PROVE  IInv'
<1> DEFINE old == work[r][s]
<1>1. /\ req[r].state = "running" /\ old.pc = "lookup" /\ Busy(r, s)
      /\ UNCHANGED <<seen, chat, rewritten>>
    BY DEF FindLink, At, Busy, Holding
<1>2. PICK k \in linked :
        LET msgs == EntryOf(links, k).msgs IN
        /\ LogHit(LinkKeyNow(r, s), msgs)
        /\ Goroutine(r, s,
             IF mode = "reply"
             THEN [old EXCEPT !.pc = "send", !.at.form = "reply", !.at.snap = msgs]
             ELSE [old EXCEPT !.pc = "rewrite", !.at.snap = msgs])
    BY DEF FindLink
<1> DEFINE msgs == EntryOf(links, k).msgs
           w == IF mode = "reply"
                THEN [old EXCEPT !.pc = "send", !.at.form = "reply", !.at.snap = msgs]
                ELSE [old EXCEPT !.pc = "rewrite", !.at.snap = msgs]
<1>3. /\ old \in Locals /\ Sensible(req[r], s, old)
      /\ Promising(mode, old) => Landed(chat, KeyNow(r, s), old.since)
    BY <1>1, HereBusy
<1>4. /\ rewritten \subseteq Messages /\ chat \subseteq Landings /\ LogInv
    BY <1>1, Here
<1>5. msgs \in Seq(Messages)
    BY <1>2, <1>4, EntryOfLinked DEF LinkEntry
<1>6. Goroutine(r, s, w) /\ UNCHANGED logVars
    BY <1>2 DEF LogHit
<1> HIDE DEF old, msgs
<1>7. w \in Locals
    <2>1. old.at \in TargetLocals
        BY <1>3 DEF Locals
    <2>2. /\ [old.at EXCEPT !.form = "reply", !.snap = msgs] \in TargetLocals
          /\ [old.at EXCEPT !.snap = msgs] \in TargetLocals
        BY <1>5, <2>1 DEF TargetLocals
    <2> QED
        BY <1>3, <2>2 DEF Locals, Holding
<1>8. /\ w.pc = (IF mode = "reply" THEN "send" ELSE "rewrite")
      /\ w.ni = old.ni /\ w.ti = old.ti /\ w.since = old.since
      /\ w.err = old.err /\ w.att = old.att
      /\ w.at.any = old.at.any /\ w.at.edited = old.at.edited
    BY <1>3 DEF Locals, TargetLocals
<1> HIDE DEF w
<1>9. Sensible(req[r], s, w)
    BY <1>1, <1>3, <1>8 DEF Sensible, Holding
<1>10. Promising(mode, w) => Promising(mode, old)
    BY <1>8 DEF Promising
<1>11. LogInv'
    BY <1>4, <1>6, LaterLogInv
<1>12. w.pc \in Holding
    BY <1>8 DEF Holding
<1> QED
    BY <1>1, <1>3, <1>4, <1>6, <1>7, <1>8, <1>9, <1>10, <1>11, <1>12, BusyMoves DEF old

LEMMA NoLinkIInv ==
    ASSUME IInv, NEW r \in Requests, NEW s \in Sinks, NoLink(r, s),
           UNCHANGED <<now, mode, req>>
    PROVE  IInv'
<1> DEFINE old == work[r][s]
           w == [old EXCEPT !.pc = "send"]
<1>1. /\ req[r].state = "running" /\ old.pc = "lookup" /\ Busy(r, s) /\ Goroutine(r, s, w)
      /\ UNCHANGED <<seen, chat, rewritten>> /\ LogMiss(LinkKeyNow(r, s))
    BY DEF NoLink, At, Busy, Holding
<1>2. /\ old \in Locals /\ Sensible(req[r], s, old)
      /\ Promising(mode, old) => Landed(chat, KeyNow(r, s), old.since)
    BY <1>1, HereBusy
<1>3. /\ rewritten \subseteq Messages /\ chat \subseteq Landings /\ LogInv
    BY <1>1, Here
<1> HIDE DEF old
<1>4. w \in Locals
    BY <1>2 DEF Locals, Holding
<1>5. /\ w.pc = "send" /\ w.ni = old.ni /\ w.ti = old.ti /\ w.since = old.since
      /\ w.err = old.err /\ w.att = old.att /\ w.at = old.at
    BY <1>2 DEF Locals
<1> HIDE DEF w
<1>6. Sensible(req[r], s, w) /\ w.pc \in Holding
    BY <1>1, <1>2, <1>5 DEF Sensible, Holding
<1>7. Promising(mode, w) => Promising(mode, old)
    BY <1>5 DEF Promising
<1>8. LogInv'
    BY <1>1, <1>3, MissLogInv
<1> QED
    BY <1>1, <1>2, <1>3, <1>4, <1>5, <1>6, <1>7, <1>8, BusyMoves DEF old

LEMMA FaredTyped ==
    ASSUME NEW at \in TargetLocals
    PROVE  Fared(at) \in {"landed", "partial", "failed", "skipped", "edited"}
BY DEF Fared, TargetLocals

\* What the goroutine knows as one more part has an outcome.
PartCounted(r, s, w) ==
    /\ w \in Locals
    /\ Sensible(req[r], s, w)
    /\ w.pc = "send"
    /\ w.ni = work[r][s].ni /\ w.ti = work[r][s].ti /\ w.since = work[r][s].since
    /\ w.at.bad \/ w.at.any
    /\ Promising(mode, w) => Landed(chat', KeyNow(r, s), work[r][s].since)

\* The last part decides: the reservation stands if anything landed.
LEMMA LastPartIInv ==
    ASSUME IInv, NEW r \in Requests, NEW s \in Sinks, At(r, s, "send"),
           NEW w, PartCounted(r, s, w), GiveBack(r, s, w.at),
           Goroutine(r, s, Continue(r, s, w)),
           LogInv', rewritten' \subseteq Messages,
           chat \subseteq chat', chat' \subseteq Landings, UNCHANGED <<now, mode, req>>
    PROVE  IInv'
<1>1. /\ req[r].state = "running" /\ Busy(r, s)
      /\ w \in Locals /\ Sensible(req[r], s, w) /\ w.at \in TargetLocals
      /\ w.ti \in DOMAIN TargetsOf[s] /\ w.err <= w.att
      /\ w.ni \in DOMAIN req[r].payload /\ req[r].start <= w.since
    BY DEF At, Busy, Holding, PartCounted, Sensible, Locals
<1>2. w.at.any => Landed(chat', KeyNow(r, s), work[r][s].since)
    BY DEF PartCounted, Promising
<1>3. ASSUME NEW pc \in {"rewrite", "link"}, w.at.any,
             Goroutine(r, s, [w EXCEPT !.pc = pc])
      PROVE  IInv'
    <2> DEFINE v == [w EXCEPT !.pc = pc]
    <2>1. v \in Locals
        BY <1>1, <1>3 DEF Locals, Holding
    <2>2. /\ v.pc = pc /\ v.ni = w.ni /\ v.ti = w.ti /\ v.since = w.since
          /\ v.err = w.err /\ v.att = w.att /\ v.at = w.at
        BY <1>1 DEF Locals
    <2>3. Goroutine(r, s, v)
        BY <1>3
    <2> HIDE DEF v
    <2>4. Sensible(req[r], s, v) /\ v.pc \in Holding
        BY <1>1, <1>3, <2>2 DEF Sensible, Holding
    <2>5. seen' = seen
        BY <1>3 DEF GiveBack
    <2>6. v.ni = work[r][s].ni /\ v.ti = work[r][s].ti /\ v.since = work[r][s].since
        BY <2>2 DEF PartCounted
    <2> QED
        BY <1>1, <1>2, <1>3, <2>1, <2>3, <2>4, <2>5, <2>6, BusyMoves
<1>4. ASSUME Goroutine(r, s, Settled(r, s, w, Fared(w.at)))
      PROVE  IInv'
    <2> DEFINE v == Settled(r, s, w, Fared(w.at))
    <2>1. TargetOf(r, s) \in Targets
        BY <1>1, HereBusy
    <2>2. v \in Locals /\ v.pc = "next" /\ Sensible(req[r], s, v)
        BY <1>1, <2>1, FaredTyped, SettledTyped
    <2>3. Goroutine(r, s, v)
        BY <1>4
    <2> HIDE DEF v
    <2>4. v.pc \notin Holding
        BY <2>2 DEF Holding
    <2>5. CASE w.at.any
        <3>1. seen' = seen
            BY <2>5 DEF GiveBack
        <3> QED
            BY <1>1, <1>2, <2>2, <2>3, <2>4, <2>5, <3>1, BusyMoves
    <2>6. CASE ~w.at.any
        <3>1. Forget(KeyNow(r, s))
            BY <2>6 DEF GiveBack
        <3> QED
            BY <1>1, <2>2, <2>3, <2>4, <3>1, GivingBackMoves
    <2> QED
        BY <2>5, <2>6
<1>5. CASE w.at.form = "reply" /\ w.at.any
    <2>1. Continue(r, s, w) = [w EXCEPT !.pc = "rewrite"]
        BY <1>5 DEF Continue
    <2> QED
        BY <1>3, <1>5, <2>1
<1>6. CASE /\ w.at.form = "new" /\ NoteOf(r, s).status = "firing" /\ Linkable(r, s)
           /\ ~w.at.bad
    <2>1. Continue(r, s, w) = [w EXCEPT !.pc = "link"]
        BY <1>6 DEF Continue
    <2>2. w.at.any
        BY <1>6 DEF PartCounted
    <2> QED
        BY <1>3, <2>1, <2>2
<1>7. CASE /\ ~(w.at.form = "reply" /\ w.at.any)
           /\ ~(/\ w.at.form = "new" /\ NoteOf(r, s).status = "firing" /\ Linkable(r, s)
                /\ ~w.at.bad)
    <2>1. Continue(r, s, w) = Settled(r, s, w, Fared(w.at))
        BY <1>7 DEF Continue
    <2> QED
        BY <1>4, <2>1
<1> QED
    BY <1>5, <1>6, <1>7

LEMMA AfterPartIInv ==
    ASSUME IInv, NEW r \in Requests, NEW s \in Sinks, At(r, s, "send"),
           NEW w, PartCounted(r, s, w), AfterPart(r, s, w),
           LogInv', rewritten' \subseteq Messages,
           chat \subseteq chat', chat' \subseteq Landings, UNCHANGED <<now, mode, req>>
    PROVE  IInv'
<1>1. CASE /\ Goroutine(r, s, [w EXCEPT !.at.part = @ + 1])
           /\ UNCHANGED seen
    <2> DEFINE part == w.at.part + 1
               v == [w EXCEPT !.at.part = part]
    <2>1. /\ req[r].state = "running" /\ Busy(r, s) /\ w \in Locals /\ Sensible(req[r], s, w)
          /\ w.pc = "send" /\ w.at \in TargetLocals
        BY DEF At, Busy, Holding, PartCounted, Locals
    <2>2. part \in Nat
        BY <2>1 DEF TargetLocals
    <2>3. Goroutine(r, s, v)
        BY <1>1
    <2> HIDE DEF part
    <2>4. v \in Locals
        <3>1. [w.at EXCEPT !.part = part] \in TargetLocals
            BY <2>1, <2>2 DEF TargetLocals
        <3> QED
            BY <2>1, <3>1 DEF Locals
    <2>5. /\ v.pc = w.pc /\ v.ni = w.ni /\ v.ti = w.ti /\ v.since = w.since
          /\ v.err = w.err /\ v.att = w.att
          /\ v.at.any = w.at.any /\ v.at.edited = w.at.edited
        BY <2>1 DEF Locals, TargetLocals
    <2> HIDE DEF v
    <2>6. Sensible(req[r], s, v) /\ v.pc \in Holding
        BY <2>1, <2>5 DEF Sensible, Holding
    <2>7. Promising(mode, v) => Landed(chat', KeyNow(r, s), work[r][s].since)
        BY <2>5 DEF Promising, PartCounted
    <2>8. v.ni = work[r][s].ni /\ v.ti = work[r][s].ti /\ v.since = work[r][s].since
        BY <2>5 DEF PartCounted
    <2> QED
        BY <1>1, <2>1, <2>3, <2>4, <2>6, <2>7, <2>8, BusyMoves
<1>2. CASE GiveBack(r, s, w.at) /\ Goroutine(r, s, Continue(r, s, w))
    BY <1>2, LastPartIInv
<1> QED
    BY <1>1, <1>2 DEF AfterPart

\* A confirmed part is a landing of the key under its reservation.
LEMMA LandingOfKey ==
    ASSUME IInv, NEW r \in Requests, NEW s \in Sinks,
           req[r].state = "running", Busy(r, s), NEW part \in Nat
    PROVE  /\ Landing(r, s, part) \in Landings
           /\ Landed({Landing(r, s, part)}, KeyNow(r, s), work[r][s].since)
<1>1. NoteOf(r, s) \in Notes /\ TargetOf(r, s) \in Targets /\ work[r][s] \in Locals
    BY HereBusy
<1>2. Landing(r, s, part) \in Landings
    BY <1>1 DEF Landing, Landings, Locals
<1>3. /\ LandingKey(Landing(r, s, part)) = KeyNow(r, s)
      /\ Landing(r, s, part).since = work[r][s].since
    BY DEF LandingKey, Landing, KeyNow
<1> QED
    BY <1>2, <1>3 DEF Landed

LEMMA LandedMore ==
    ASSUME NEW few, NEW many, few \subseteq many, NEW k, NEW t, Landed(few, k, t)
    PROVE  Landed(many, k, t)
BY DEF Landed

LEMMA PartLandsIInv ==
    ASSUME IInv, NEW r \in Requests, NEW s \in Sinks, PartLands(r, s),
           UNCHANGED <<now, mode, req>>
    PROVE  IInv'
<1> DEFINE old == work[r][s]
           att == old.att + 1
           w == [old EXCEPT !.att = att, !.at.any = TRUE]
           c == Landing(r, s, old.at.part)
<1>1. /\ req[r].state = "running" /\ old.pc = "send" /\ Busy(r, s) /\ At(r, s, "send")
      /\ AfterPart(r, s, w) /\ chat' = chat \cup {c} /\ UNCHANGED <<logVars, rewritten>>
    BY DEF PartLands, At, Busy, Holding
<1>2. old \in Locals /\ Sensible(req[r], s, old) /\ old.at \in TargetLocals
    BY <1>1, HereBusy DEF Locals
<1>3. /\ rewritten \subseteq Messages /\ chat \subseteq Landings /\ LogInv
    BY <1>1, Here
<1>4. c \in Landings /\ Landed({c}, KeyNow(r, s), old.since)
    BY <1>1, <1>2, LandingOfKey DEF TargetLocals
<1>5. Landed(chat', KeyNow(r, s), old.since)
    BY <1>1, <1>4, LandedMore
<1> HIDE DEF old, c
<1>6. att \in Nat /\ old.att <= att
    BY <1>2 DEF Locals
<1> HIDE DEF att
<1>7. w \in Locals
    <2>1. [old.at EXCEPT !.any = TRUE] \in TargetLocals
        BY <1>2 DEF TargetLocals
    <2> QED
        BY <1>2, <1>6, <2>1 DEF Locals
<1>8. /\ w.pc = old.pc /\ w.ni = old.ni /\ w.ti = old.ti /\ w.since = old.since
      /\ w.err = old.err /\ w.att = att /\ w.at.any
    BY <1>2 DEF Locals, TargetLocals
<1> HIDE DEF w
<1>9. Sensible(req[r], s, w)
    <2>1. w.err <= w.att
        BY <1>2, <1>6, <1>8 DEF Sensible, Locals
    <2> QED
        BY <1>1, <1>2, <1>8, <2>1 DEF Sensible, Holding
<1>10. PartCounted(r, s, w)
    BY <1>1, <1>5, <1>7, <1>8, <1>9 DEF PartCounted, old
<1>11. LogInv'
    BY <1>1, <1>3, LaterLogInv
<1>12. chat \subseteq chat' /\ chat' \subseteq Landings /\ rewritten' \subseteq Messages
    BY <1>1, <1>3, <1>4
<1> QED
    BY <1>1, <1>10, <1>11, <1>12, AfterPartIInv

LEMMA PartFailsIInv ==
    ASSUME IInv, NEW r \in Requests, NEW s \in Sinks, PartFails(r, s),
           UNCHANGED <<now, mode, req>>
    PROVE  IInv'
<1> DEFINE old == work[r][s]
           att == old.att + 1
           err == old.err + 1
           w == [old EXCEPT !.att = att, !.err = err, !.at.bad = TRUE]
<1>1. /\ req[r].state = "running" /\ old.pc = "send" /\ Busy(r, s) /\ At(r, s, "send")
      /\ AfterPart(r, s, w) /\ UNCHANGED <<logVars, chat, rewritten>>
    BY DEF PartFails, At, Busy, Holding
<1>2. /\ old \in Locals /\ Sensible(req[r], s, old) /\ old.at \in TargetLocals
      /\ Promising(mode, old) => Landed(chat, KeyNow(r, s), old.since)
    BY <1>1, HereBusy DEF Locals
<1>3. /\ rewritten \subseteq Messages /\ chat \subseteq Landings /\ LogInv
    BY <1>1, Here
<1> HIDE DEF old
<1>4. att \in Nat /\ err \in Nat /\ err <= att
    BY <1>2 DEF Locals, Sensible
<1> HIDE DEF att, err
<1>5. w \in Locals
    <2>1. [old.at EXCEPT !.bad = TRUE] \in TargetLocals
        BY <1>2 DEF TargetLocals
    <2> QED
        BY <1>2, <1>4, <2>1 DEF Locals
<1>6. /\ w.pc = old.pc /\ w.ni = old.ni /\ w.ti = old.ti /\ w.since = old.since
      /\ w.err = err /\ w.att = att /\ w.at.bad
      /\ w.at.any = old.at.any /\ w.at.edited = old.at.edited
    BY <1>2 DEF Locals, TargetLocals
<1> HIDE DEF w
<1>7. Sensible(req[r], s, w)
    BY <1>1, <1>2, <1>4, <1>6 DEF Sensible, Holding
<1>8. PartCounted(r, s, w)
    <2>1. Promising(mode, w) => Promising(mode, old)
        BY <1>6 DEF Promising
    <2> QED
        BY <1>1, <1>2, <1>5, <1>6, <1>7, <2>1 DEF PartCounted, old
<1>9. LogInv'
    BY <1>1, <1>3, LaterLogInv
<1>10. chat \subseteq chat' /\ chat' \subseteq Landings /\ rewritten' \subseteq Messages
    BY <1>1, <1>3
<1> QED
    BY <1>1, <1>8, <1>9, <1>10, AfterPartIInv

LEMMA PartCanceledIInv ==
    ASSUME IInv, NEW r \in Requests, NEW s \in Sinks, PartCanceled(r, s),
           UNCHANGED <<now, mode, req>>
    PROVE  IInv'
<1> DEFINE old == work[r][s]
           w == Stopped(old)
<1>1. /\ req[r].state = "running" /\ Busy(r, s) /\ Goroutine(r, s, w)
      /\ GiveBack(r, s, old.at) /\ UNCHANGED <<logVars, chat, rewritten>>
    BY DEF PartCanceled, At, Busy, Holding
<1>2. /\ old \in Locals /\ Sensible(req[r], s, old)
      /\ Promising(mode, old) => Landed(chat, KeyNow(r, s), old.since)
    BY <1>1, HereBusy
<1>3. /\ rewritten \subseteq Messages /\ chat \subseteq Landings /\ LogInv
    BY <1>1, Here
<1>4. w \in Locals /\ w.pc = "done" /\ Sensible(req[r], s, w)
    BY <1>1, <1>2, StoppedTyped DEF Sensible
<1>5. LogInv'
    BY <1>1, <1>3, LaterLogInv
<1>6. w.pc \notin Holding
    BY <1>4 DEF Holding
<1>7. CASE old.at.any
    <2>1. seen' = seen
        BY <1>1, <1>7 DEF GiveBack
    <2>2. Landed(chat', KeyNow(r, s), old.since)
        BY <1>1, <1>2, <1>7 DEF Promising
    <2> HIDE DEF w
    <2> QED
        BY <1>1, <1>3, <1>4, <1>5, <1>6, <2>1, <2>2, BusyMoves
<1>8. CASE ~old.at.any
    <2>1. Forget(KeyNow(r, s))
        BY <1>1, <1>8 DEF GiveBack
    <2> HIDE DEF w
    <2> QED
        BY <1>1, <1>3, <1>4, <1>5, <1>6, <2>1, GivingBackMoves
<1> QED
    BY <1>7, <1>8

\* A complete firing message is linked; it landed, so its reservation stands.
LEMMA LinkIInv ==
    ASSUME IInv, NEW r \in Requests, NEW s \in Sinks, Link(r, s),
           UNCHANGED <<now, mode, req>>
    PROVE  IInv'
<1> DEFINE old == work[r][s]
           w == Settled(r, s, old, "landed")
<1>1. /\ req[r].state = "running" /\ old.pc = "link" /\ Busy(r, s) /\ Goroutine(r, s, w)
      /\ LogAdd(LinkKeyNow(r, s), MessageNow(r, s)) /\ UNCHANGED <<seen, chat, rewritten>>
    BY DEF Link, At, Busy, Holding
<1>2. /\ old \in Locals /\ Sensible(req[r], s, old)
      /\ NoteOf(r, s) \in Notes /\ TargetOf(r, s) \in Targets
      /\ Promising(mode, old) => Landed(chat, KeyNow(r, s), old.since)
    BY <1>1, HereBusy
<1>3. /\ rewritten \subseteq Messages /\ chat \subseteq Landings /\ LogInv
    BY <1>1, Here
<1>4. LinkKeyNow(r, s) \in LinkKeys /\ MessageNow(r, s) \in Messages
    BY <1>2, DeliveryAssumption DEF LinkKeyNow, MessageNow, Notes
<1>5. LogInv'
    BY <1>1, <1>3, <1>4, AddLogInv
<1>6. Landed(chat', KeyNow(r, s), old.since)
    BY <1>1, <1>2 DEF Sensible, Promising
<1>7. w \in Locals /\ w.pc = "next" /\ Sensible(req[r], s, w)
    BY <1>1, <1>2, SettledTyped DEF Sensible
<1> HIDE DEF w
<1>8. w.pc \notin Holding
    BY <1>7 DEF Holding
<1> QED
    BY <1>1, <1>3, <1>5, <1>6, <1>7, <1>8, BusyMoves
-----------------------------------------------------------------------------
(* deliverResolve and rewrite. *)

\* A message that refused the edit.
LEMMA EditRefusedIInv ==
    ASSUME IInv, NEW r \in Requests, NEW s \in Sinks, At(r, s, "rewrite"),
           work[r][s].at.tried < Len(work[r][s].at.snap),
           Goroutine(r, s, [work[r][s] EXCEPT !.at.tried = @ + 1]),
           UNCHANGED <<chat, rewritten, seen, logVars>>, UNCHANGED <<now, mode, req>>
    PROVE  IInv'
<1> DEFINE old == work[r][s]
           tried == old.at.tried + 1
           w == [old EXCEPT !.at.tried = tried]
<1>1. req[r].state = "running" /\ old.pc = "rewrite" /\ Busy(r, s) /\ Goroutine(r, s, w)
    BY DEF At, Busy, Holding
<1>2. /\ old \in Locals /\ Sensible(req[r], s, old) /\ old.at \in TargetLocals
      /\ Promising(mode, old) => Landed(chat, KeyNow(r, s), old.since)
    BY <1>1, HereBusy DEF Locals
<1>3. /\ rewritten \subseteq Messages /\ chat \subseteq Landings /\ LogInv
    BY <1>1, Here
<1>4. tried \in Nat
    BY <1>2 DEF TargetLocals
<1> HIDE DEF old, tried
<1>5. w \in Locals
    <2>1. [old.at EXCEPT !.tried = tried] \in TargetLocals
        BY <1>2, <1>4 DEF TargetLocals
    <2> QED
        BY <1>2, <2>1 DEF Locals
<1>6. /\ w.pc = old.pc /\ w.ni = old.ni /\ w.ti = old.ti /\ w.since = old.since
      /\ w.err = old.err /\ w.att = old.att
      /\ w.at.any = old.at.any /\ w.at.edited = old.at.edited
    BY <1>2 DEF Locals, TargetLocals
<1> HIDE DEF w
<1>7. Sensible(req[r], s, w) /\ w.pc \in Holding
    BY <1>1, <1>2, <1>6 DEF Sensible, Holding
<1>8. Promising(mode, w) => Promising(mode, old)
    BY <1>6 DEF Promising
<1>9. LogInv'
    BY <1>3, LaterLogInv
<1> QED
    BY <1>1, <1>2, <1>3, <1>5, <1>6, <1>7, <1>8, <1>9, BusyMoves DEF old

\* In mode edit a rewritten message is a landing of the resolve.
LEMMA EditLandsIInv ==
    ASSUME IInv, NEW r \in Requests, NEW s \in Sinks, At(r, s, "rewrite"),
           work[r][s].at.tried < Len(work[r][s].at.snap),
           rewritten' = rewritten \cup {work[r][s].at.snap[work[r][s].at.tried + 1]},
           Goroutine(r, s, [work[r][s] EXCEPT !.at.tried = @ + 1, !.at.edited = @ + 1]),
           chat' = IF mode = "edit" THEN chat \cup {Landing(r, s, 0)} ELSE chat,
           UNCHANGED <<seen, logVars>>, UNCHANGED <<now, mode, req>>
    PROVE  IInv'
<1> DEFINE old == work[r][s]
           tried == old.at.tried + 1
           edited == old.at.edited + 1
           w == [old EXCEPT !.at.tried = tried, !.at.edited = edited]
           c == Landing(r, s, 0)
<1>1. req[r].state = "running" /\ old.pc = "rewrite" /\ Busy(r, s) /\ Goroutine(r, s, w)
    BY DEF At, Busy, Holding
<1>2. /\ old \in Locals /\ Sensible(req[r], s, old) /\ old.at \in TargetLocals
      /\ Promising(mode, old) => Landed(chat, KeyNow(r, s), old.since)
    BY <1>1, HereBusy DEF Locals
<1>3. /\ rewritten \subseteq Messages /\ chat \subseteq Landings /\ LogInv
    BY <1>1, Here
<1>4. tried \in Nat /\ old.at.snap[tried] \in Messages
    <2> DEFINE snap == old.at.snap
    <2>1. snap \in Seq(Messages) /\ old.at.tried \in Nat /\ old.at.tried < Len(snap)
        BY <1>2 DEF TargetLocals
    <2> HIDE DEF snap
    <2>2. old.at.tried + 1 \in 1 .. Len(snap)
        BY <2>1
    <2>3. snap[old.at.tried + 1] \in Messages
        BY <2>1, <2>2
    <2> QED
        BY <2>1, <2>3 DEF snap
<1>5. c \in Landings /\ Landed({c}, KeyNow(r, s), old.since)
    BY <1>1, LandingOfKey
<1> HIDE DEF old, tried, c
<1>6. edited \in Nat
    BY <1>2 DEF TargetLocals
<1> HIDE DEF edited
<1>7. w \in Locals
    <2>1. [old.at EXCEPT !.tried = tried, !.edited = edited] \in TargetLocals
        BY <1>2, <1>4, <1>6 DEF TargetLocals
    <2> QED
        BY <1>2, <2>1 DEF Locals
<1>8. /\ w.pc = old.pc /\ w.ni = old.ni /\ w.ti = old.ti /\ w.since = old.since
      /\ w.err = old.err /\ w.att = old.att /\ w.at.any = old.at.any
    BY <1>2 DEF Locals, TargetLocals
<1> HIDE DEF w
<1>9. Sensible(req[r], s, w) /\ w.pc \in Holding
    BY <1>1, <1>2, <1>8 DEF Sensible, Holding
<1>10. chat \subseteq chat' /\ chat' \subseteq Landings /\ rewritten' \subseteq Messages
    BY <1>3, <1>4, <1>5 DEF old, c, tried
<1>11. Promising(mode, w) => Landed(chat', KeyNow(r, s), old.since)
    <2>1. CASE mode = "edit"
        <3>1. {c} \subseteq chat'
            BY <2>1 DEF c
        <3> QED
            BY <1>5, <3>1, LandedMore
    <2>2. CASE mode # "edit"
        <3>1. Promising(mode, w) => Promising(mode, old)
            BY <1>8, <2>2 DEF Promising
        <3> QED
            BY <1>2, <2>2, <3>1
    <2> QED
        BY <2>1, <2>2
<1>12. LogInv'
    BY <1>3, LaterLogInv
<1> QED
    BY <1>1, <1>7, <1>8, <1>9, <1>10, <1>11, <1>12, BusyMoves DEF old

LEMMA EditMessageIInv ==
    ASSUME IInv, NEW r \in Requests, NEW s \in Sinks, EditMessage(r, s),
           UNCHANGED <<now, mode, req>>
    PROVE  IInv'
BY EditRefusedIInv, EditLandsIInv DEF EditMessage

\* What ends the rewrite, when its resolve is delivered: the link goes.
LEMMA ResolvedIInv ==
    ASSUME IInv, NEW r \in Requests, NEW s \in Sinks, At(r, s, "rewrite"),
           Promising(mode, work[r][s]), LogDelete(LinkKeyNow(r, s)),
           NEW att \in Nat, work[r][s].err <= att,
           NEW outcome \in {"landed", "partial", "failed", "skipped", "edited"},
           Goroutine(r, s, Settled(r, s, [work[r][s] EXCEPT !.att = att], outcome)),
           UNCHANGED <<seen, chat, rewritten>>, UNCHANGED <<now, mode, req>>
    PROVE  IInv'
<1> DEFINE old == work[r][s]
           u == [old EXCEPT !.att = att]
           w == Settled(r, s, u, outcome)
<1>1. req[r].state = "running" /\ Busy(r, s) /\ Goroutine(r, s, w)
    BY DEF At, Busy, Holding
<1>2. /\ old \in Locals /\ Sensible(req[r], s, old) /\ TargetOf(r, s) \in Targets
      /\ Landed(chat', KeyNow(r, s), old.since)
    BY <1>1, HereBusy
<1>3. /\ rewritten \subseteq Messages /\ chat \subseteq Landings /\ LogInv
    BY <1>1, Here
<1>4. u \in Locals /\ u.ti = old.ti /\ u.err <= u.att
    BY <1>2 DEF Locals
<1> HIDE DEF u
<1>5. w \in Locals /\ w.pc = "next" /\ Sensible(req[r], s, w)
    BY <1>1, <1>2, <1>4, SettledTyped DEF Sensible
<1>6. LogInv'
    BY <1>3, DeleteLogInv
<1> HIDE DEF w
<1>7. w.pc \notin Holding
    BY <1>5 DEF Holding
<1> QED
    BY <1>1, <1>2, <1>3, <1>5, <1>6, <1>7, BusyMoves

LEMMA ReplyDoneIInv ==
    ASSUME IInv, NEW r \in Requests, NEW s \in Sinks, ReplyDone(r, s),
           UNCHANGED <<now, mode, req>>
    PROVE  IInv'
<1> DEFINE old == work[r][s]
<1>1. /\ At(r, s, "rewrite") /\ mode = "reply" /\ LogDelete(LinkKeyNow(r, s))
      /\ Goroutine(r, s, Settled(r, s, old, Fared(old.at)))
      /\ UNCHANGED <<seen, chat, rewritten>>
    BY DEF ReplyDone, RewriteEnds
<1>2. old \in Locals /\ Sensible(req[r], s, old) /\ old.at \in TargetLocals
    BY <1>1, Here DEF At, Locals
<1>3. Promising(mode, old)
    BY <1>1, <1>2 DEF Sensible, Promising, At
<1>4. Fared(old.at) \in {"landed", "partial", "failed", "skipped", "edited"}
    BY <1>2, FaredTyped
<1>5. old.att \in Nat /\ old.err <= old.att /\ [old EXCEPT !.att = old.att] = old
    BY <1>2 DEF Locals, Sensible
<1> QED
    BY <1>1, <1>3, <1>4, <1>5, ResolvedIInv

LEMMA EditDoneIInv ==
    ASSUME IInv, NEW r \in Requests, NEW s \in Sinks, EditDone(r, s),
           UNCHANGED <<now, mode, req>>
    PROVE  IInv'
<1> DEFINE old == work[r][s]
           att == old.att + 1
<1>1. /\ At(r, s, "rewrite") /\ mode = "edit" /\ LogDelete(LinkKeyNow(r, s))
      /\ Goroutine(r, s, Settled(r, s, [old EXCEPT !.att = att], "edited"))
      /\ old.at.edited > 0 /\ UNCHANGED <<seen, chat, rewritten>>
    BY DEF EditDone, RewriteEnds
<1>2. old \in Locals /\ Sensible(req[r], s, old)
    BY <1>1, Here DEF At
<1>3. Promising(mode, old)
    BY <1>1 DEF Promising
<1> HIDE DEF old
<1>4. att \in Nat /\ old.err <= att
    BY <1>2 DEF Locals, Sensible
<1> HIDE DEF att
<1> QED
    BY <1>1, <1>3, <1>4, ResolvedIInv DEF old

LEMMA EditOutOfBudgetIInv ==
    ASSUME IInv, NEW r \in Requests, NEW s \in Sinks, EditOutOfBudget(r, s),
           UNCHANGED <<now, mode, req>>
    PROVE  IInv'
<1> DEFINE w == Stopped(work[r][s])
<1>1. /\ req[r].state = "running" /\ Busy(r, s) /\ Goroutine(r, s, w)
      /\ Forget(KeyNow(r, s)) /\ UNCHANGED <<logVars, chat, rewritten>>
    BY DEF EditOutOfBudget, RewriteEnds, At, Busy, Holding
<1>2. work[r][s] \in Locals /\ Sensible(req[r], s, work[r][s])
    BY <1>1, HereBusy
<1>3. /\ rewritten \subseteq Messages /\ chat \subseteq Landings /\ LogInv
    BY <1>1, Here
<1>4. w \in Locals /\ w.pc = "done" /\ Sensible(req[r], s, w)
    BY <1>1, <1>2, StoppedTyped DEF Sensible
<1>5. LogInv'
    BY <1>1, <1>3, LaterLogInv
<1> HIDE DEF w
<1>6. w.pc \notin Holding
    BY <1>4 DEF Holding
<1> QED
    BY <1>1, <1>3, <1>4, <1>5, <1>6, GivingBackMoves

LEMMA EditFallsBackIInv ==
    ASSUME IInv, NEW r \in Requests, NEW s \in Sinks, EditFallsBack(r, s),
           UNCHANGED <<now, mode, req>>
    PROVE  IInv'
<1> DEFINE old == work[r][s]
           w == [old EXCEPT !.pc = "send", !.at = Clean]
<1>1. /\ req[r].state = "running" /\ old.pc = "rewrite" /\ Busy(r, s) /\ Goroutine(r, s, w)
      /\ LogDelete(LinkKeyNow(r, s)) /\ UNCHANGED <<seen, chat, rewritten>>
    BY DEF EditFallsBack, RewriteEnds, At, Busy, Holding
<1>2. old \in Locals /\ Sensible(req[r], s, old)
    BY <1>1, HereBusy
<1>3. /\ rewritten \subseteq Messages /\ chat \subseteq Landings /\ LogInv
    BY <1>1, Here
<1> HIDE DEF old
<1>4. w \in Locals
    BY <1>2, CleanTyped DEF Locals, Holding
<1>5. /\ w.pc = "send" /\ w.ni = old.ni /\ w.ti = old.ti /\ w.since = old.since
      /\ w.err = old.err /\ w.att = old.att /\ w.at = Clean
    BY <1>2 DEF Locals
<1> HIDE DEF w
<1>6. Sensible(req[r], s, w) /\ w.pc \in Holding
    BY <1>1, <1>2, <1>5 DEF Sensible, Holding
<1>7. ~Promising(mode, w)
    BY <1>5 DEF Promising, Clean
<1>8. LogInv'
    BY <1>1, <1>3, DeleteLogInv
<1> QED
    BY <1>1, <1>3, <1>4, <1>5, <1>6, <1>7, <1>8, BusyMoves DEF old

LEMMA SinkStepIInv ==
    ASSUME IInv, NEW r \in Requests, NEW s \in Sinks, SinkStep(r, s)
    PROVE  IInv'
BY EndOfNotesIInv, OutOfBudgetIInv, RenderFailsIInv, SkipDuplicateIInv, StartTargetIInv,
   FindLinkIInv, NoLinkIInv, PartLandsIInv, PartFailsIInv, PartCanceledIInv, LinkIInv,
   EditMessageIInv, ReplyDoneIInv, EditDoneIInv, EditOutOfBudgetIInv, EditFallsBackIInv
   DEF SinkStep
-----------------------------------------------------------------------------
(* The requests, the clock and the sweeper. *)

\* A goroutine stays as it is, or is idle before and after.
Undisturbed(r, s) ==
    \/ /\ work'[r][s] = work[r][s]
       /\ Busy(r, s) => /\ req'[r].state = req[r].state
                        /\ req'[r].payload = req[r].payload
    \/ ~Busy(r, s) /\ work'[r][s].pc \notin Holding

\* A step that disturbs no busy goroutine and no reservation it relies on.
LEMMA NobodyMoves ==
    ASSUME IInv,
           req' \in [Requests -> Request],
           work' \in [Requests -> [Sinks -> Locals]],
           seen' \in [DedupKeys -> Nat \cup {Absent}],
           \A k \in DedupKeys : seen'[k] \in {seen[k], Absent},
           now' \in {now, now + 1},
           UNCHANGED <<logVars, mode, chat, rewritten>>,
           \A r \in Requests : InBudget(r)',
           \A r \in Requests, s \in Sinks :
                /\ Sensible(req[r], s, work[r][s])'
                /\ Undisturbed(r, s)
                /\ Busy(r, s) /\ KeyNow(r, s) # Keyless =>
                        seen'[KeyNow(r, s)] = seen[KeyNow(r, s)]
    PROVE  IInv'
<1>1. /\ now \in Nat /\ now' \in Nat /\ now <= now' /\ LogInv /\ TypeOK
      /\ mode' = mode /\ chat' = chat /\ rewritten' = rewritten
    BY DEF IInv, TypeOK
<1>2. LogInv'
    BY <1>1, LaterLogInv
<1>3. ASSUME NEW r \in Requests, NEW s \in Sinks
      PROVE  /\ Busy(r, s)' <=> Busy(r, s)
             /\ Busy(r, s) => /\ work'[r][s] = work[r][s]
                              /\ KeyNow(r, s)' = KeyNow(r, s)
                              /\ req'[r].state = req[r].state
    BY DEF Undisturbed, Busy, KeyNow, NoteOf, TargetOf
<1>4. TypeOK'
    <2>1. \A r \in Requests, s \in Sinks : work'[r][s].err <= work'[r][s].att
        BY DEF Sensible
    <2> QED
        BY <1>1, <1>2, <2>1 DEF TypeOK, DedupTypeOK, LogInv
<1>5. ASSUME NEW r \in Requests, NEW s \in Sinks
      PROVE  Reserved(r, s)'
    <2> SUFFICES ASSUME Busy(r, s)
                 PROVE  /\ work'[r][s].since <= now'
                        /\ KeyNow(r, s)' # Keyless =>
                              seen'[KeyNow(r, s)'] = work'[r][s].since
                        /\ Promising(mode', work'[r][s]) =>
                              Landed(chat', KeyNow(r, s)', work'[r][s].since)
        BY <1>3 DEF Reserved
    <2>1. Reserved(r, s) /\ work[r][s].since \in Nat
        BY <1>1 DEF IInv, TypeOK, Locals
    <2>2. work[r][s].since <= now'
        BY <1>1, <2>1 DEF Reserved
    <2> QED
        BY <1>1, <1>3, <2>1, <2>2 DEF Reserved
<1>6. ASSUME NEW r1 \in Requests, NEW r2 \in Requests, NEW s1 \in Sinks, NEW s2 \in Sinks,
             SameKey(r1, s1, r2, s2)'
      PROVE  r1 = r2 /\ s1 = s2
    <2>1. SameKey(r1, s1, r2, s2)
        BY <1>3, <1>6 DEF SameKey
    <2> QED
        BY <2>1 DEF IInv
<1>7. ReservationHasOwner'
    <2> SUFFICES ASSUME NEW k \in DedupKeys, seen'[k] # Absent
                 PROVE  \/ \E r \in Requests, s \in Sinks :
                              Holds(r, s, k)' /\ work'[r][s].since = seen'[k]
                        \/ \E c \in chat' : LandingKey(c) = k /\ c.since = seen'[k]
        BY DEF ReservationHasOwner
    <2>1. seen'[k] = seen[k]
        OBVIOUS
    <2>2. ASSUME NEW r \in Requests, NEW s \in Sinks, Holds(r, s, k),
                 work[r][s].since = seen[k]
          PROVE  Holds(r, s, k)' /\ work'[r][s].since = seen'[k]
        <3>1. Busy(r, s)
            BY <2>2 DEF Holds, Busy
        <3> QED
            BY <1>3, <2>1, <2>2, <3>1 DEF Holds
    <2> QED
        BY <1>1, <2>1, <2>2 DEF IInv, ReservationHasOwner
<1> QED
    BY <1>2, <1>4, <1>5, <1>6, <1>7 DEF IInv

\* The usual case: the cache and the clock stand still.
LEMMA RequestMoves ==
    ASSUME IInv,
           req' \in [Requests -> Request],
           work' \in [Requests -> [Sinks -> Locals]],
           UNCHANGED <<now, seen, logVars, mode, chat, rewritten>>,
           \A r \in Requests : InBudget(r)',
           \A r \in Requests, s \in Sinks :
                Sensible(req[r], s, work[r][s])' /\ Undisturbed(r, s)
    PROVE  IInv'
<1>1. seen' = seen /\ seen \in [DedupKeys -> Nat \cup {Absent}] /\ now' = now
    BY DEF IInv, TypeOK, DedupTypeOK
<1> QED
    BY <1>1, NobodyMoves

LEMMA ArriveIInv ==
    ASSUME IInv, NEW r \in Requests, NEW p \in Payloads, Arrive(r, p)
    PROVE  IInv'
<1> DEFINE q == [NoRequest EXCEPT !.state = "running", !.payload = p, !.start = now]
<1>1. /\ req[r].state = "idle" /\ req' = [req EXCEPT ![r] = q] /\ work' = work
      /\ mode' = mode /\ now' = now /\ now \in Nat
      /\ UNCHANGED <<now, seen, logVars, mode, chat, rewritten>>
      /\ req \in [Requests -> Request] /\ work \in [Requests -> [Sinks -> Locals]]
    BY DEF Arrive, IInv, TypeOK
<1>2. q \in Request /\ q.state = "running" /\ q.start = now
    BY <1>1, NoRequestTyped DEF Request, States, Carried
<1> HIDE DEF q
<1>3. req' \in [Requests -> Request] /\ \A r1 \in Requests :
        req'[r1] = IF r1 = r THEN q ELSE req[r1]
    BY <1>1, <1>2
<1>4. \A r1 \in Requests : InBudget(r1)'
    <2>1. now <= now + Budget
        BY <1>1, BudgetAssumption
    <2> QED
        BY <1>1, <1>2, <1>3, <2>1 DEF InBudget, IInv
<1>5. ASSUME NEW r1 \in Requests, NEW s \in Sinks
      PROVE  Sensible(req[r1], s, work[r1][s])' /\ Undisturbed(r1, s)
    <2>1. Sensible(req[r1], s, work[r1][s])
        BY DEF IInv
    <2>2. CASE r1 = r
        <3>1. work[r][s] = Idle /\ ~Busy(r, s) /\ req'[r] = q
            BY <1>1, <1>3, <2>1, <2>2, IdleTyped DEF Sensible, Busy, Holding
        <3> QED
            BY <1>1, <1>2, <2>1, <2>2, <3>1, IdleTyped
            DEF Sensible, Undisturbed, Holding
    <2>3. CASE r1 # r
        BY <1>1, <1>3, <2>1, <2>3 DEF Sensible, Undisturbed
    <2> QED
        BY <2>2, <2>3
<1> QED
    BY <1>1, <1>3, <1>4, <1>5, RequestMoves

LEMMA ContextEndsIInv ==
    ASSUME IInv, NEW r \in Requests, ContextEnds(r)
    PROVE  IInv'
<1> DEFINE q == [req[r] EXCEPT !.alive = FALSE]
<1>1. /\ req' = [req EXCEPT ![r] = q] /\ work' = work
      /\ mode' = mode /\ now' = now
      /\ UNCHANGED <<now, seen, logVars, mode, chat, rewritten>>
      /\ req \in [Requests -> Request] /\ work \in [Requests -> [Sinks -> Locals]]
    BY DEF ContextEnds, IInv, TypeOK
<1>2. /\ req' \in [Requests -> Request]
      /\ \A r1 \in Requests : /\ req'[r1].state = req[r1].state
                              /\ req'[r1].start = req[r1].start
                              /\ req'[r1].payload = req[r1].payload
    <2>1. req[r] \in Request
        BY <1>1
    <2>2. q \in Request
        BY <2>1 DEF Request
    <2>3. q.state = req[r].state /\ q.start = req[r].start /\ q.payload = req[r].payload
        BY <2>1 DEF Request
    <2> HIDE DEF q
    <2> QED
        BY <1>1, <2>2, <2>3
<1>3. \A r1 \in Requests : InBudget(r1)'
    BY <1>1, <1>2 DEF InBudget, IInv
<1>4. ASSUME NEW r1 \in Requests, NEW s \in Sinks
      PROVE  Sensible(req[r1], s, work[r1][s])' /\ Undisturbed(r1, s)
    <2>1. Sensible(req[r1], s, work[r1][s])
        BY DEF IInv
    <2> QED
        BY <1>1, <1>2, <2>1 DEF Sensible, Undisturbed
<1> QED
    BY <1>1, <1>2, <1>3, <1>4, RequestMoves

LEMMA StatusTyped == \A r : Status(r) \in Acks
BY DEF Status, ByCounts, Acks

LEMMA AnswerIInv ==
    ASSUME IInv, NEW r \in Requests, Answer(r)
    PROVE  IInv'
<1> DEFINE q == [NoRequest EXCEPT !.state = "answered", !.ack = Status(r),
                                  !.payload = req[r].payload]
           idle == [s \in Sinks |-> Idle]
<1>1. /\ req' = [req EXCEPT ![r] = q] /\ work' = [work EXCEPT ![r] = idle]
      /\ mode' = mode /\ now' = now /\ \A s \in Sinks : work[r][s].pc = "done"
      /\ UNCHANGED <<now, seen, logVars, mode, chat, rewritten>>
      /\ req \in [Requests -> Request] /\ work \in [Requests -> [Sinks -> Locals]]
    BY DEF Answer, IInv, TypeOK
<1>2. Status(r) \in Acks
    BY StatusTyped
<1>3. q \in Request /\ q.state = "answered"
    <2>1. req[r].payload \in Carried
        BY <1>1 DEF Request
    <2>2. q \in Request
        BY <1>2, <2>1, NoRequestTyped DEF Request, States
    <2>3. q.state = "answered"
        BY NoRequestTyped DEF Request
    <2> QED
        BY <2>2, <2>3
<1> HIDE DEF q
<1>4. req' \in [Requests -> Request] /\ \A r1 \in Requests :
        req'[r1] = IF r1 = r THEN q ELSE req[r1]
    BY <1>1, <1>3
<1>5. idle \in [Sinks -> Locals] /\ \A s \in Sinks : idle[s] = Idle
    BY IdleTyped
<1> HIDE DEF idle
<1>6. work' \in [Requests -> [Sinks -> Locals]] /\ \A r1 \in Requests :
        work'[r1] = IF r1 = r THEN idle ELSE work[r1]
    BY <1>1, <1>5
<1>7. \A r1 \in Requests : InBudget(r1)'
    BY <1>1, <1>3, <1>4 DEF InBudget, IInv
<1>8. ASSUME NEW r1 \in Requests, NEW s \in Sinks
      PROVE  Sensible(req[r1], s, work[r1][s])' /\ Undisturbed(r1, s)
    <2>1. Sensible(req[r1], s, work[r1][s])
        BY DEF IInv
    <2>2. CASE r1 = r
        <3>1. work'[r][s] = Idle /\ ~Busy(r, s) /\ req'[r] = q
            BY <1>1, <1>4, <1>5, <1>6 DEF Busy, Holding
        <3> QED
            BY <1>3, <2>2, <3>1, IdleTyped, FirstTarget DEF Sensible, Undisturbed, Holding
    <2>3. CASE r1 # r
        BY <1>1, <1>4, <1>6, <2>1, <2>3 DEF Sensible, Undisturbed
    <2> QED
        BY <2>2, <2>3
<1> QED
    BY <1>1, <1>4, <1>6, <1>7, <1>8, RequestMoves

LEMMA TickIInv ==
    ASSUME IInv, Tick
    PROVE  IInv'
<1>1. /\ now' = now + 1 /\ now \in Nat /\ req' = req /\ work' = work /\ seen' = seen
      /\ mode' = mode /\ UNCHANGED <<logVars, mode, chat, rewritten>>
      /\ req \in [Requests -> Request] /\ work \in [Requests -> [Sinks -> Locals]]
      /\ seen \in [DedupKeys -> Nat \cup {Absent}]
      /\ \A r \in Requests : req[r].state = "running" => now < req[r].start + Budget
    BY DEF Tick, Advance, IInv, TypeOK, DedupTypeOK
<1>2. ASSUME NEW r \in Requests, req[r].state = "running"
      PROVE  req[r].start <= now + 1 /\ now + 1 <= req[r].start + Budget
    <2>1. /\ req[r].start <= now /\ now < req[r].start + Budget
          /\ req[r].start \in Nat /\ Budget \in Nat
        BY <1>1, <1>2, BudgetAssumption DEF IInv, InBudget, Request
    <2> QED
        BY <1>1, <2>1
<1>3. \A r \in Requests : InBudget(r)'
    BY <1>1, <1>2 DEF InBudget
<1>4. ASSUME NEW r \in Requests, NEW s \in Sinks
      PROVE  /\ Sensible(req[r], s, work[r][s])' /\ Undisturbed(r, s)
    <2>1. Sensible(req[r], s, work[r][s])
        BY DEF IInv
    <2> QED
        BY <1>1, <2>1 DEF Sensible, Undisturbed
<1> QED
    BY <1>1, <1>3, <1>4, NobodyMoves

\* The sweeper removes no reservation whose owner is still busy.
LEMMA SweepSeenIInv ==
    ASSUME IInv, SweepSeen
    PROVE  IInv'
<1>1. /\ now' = now /\ now \in Nat /\ req' = req /\ work' = work
      /\ mode' = mode /\ UNCHANGED <<logVars, mode, chat, rewritten>>
      /\ req \in [Requests -> Request] /\ work \in [Requests -> [Sinks -> Locals]]
      /\ seen \in [DedupKeys -> Nat \cup {Absent}]
      /\ seen' = [k \in DedupKeys |-> IF now - seen[k] > DedupTTL THEN Absent ELSE seen[k]]
    BY DEF SweepSeen, DedupSweep, IInv, TypeOK, DedupTypeOK
<1>2. \A r \in Requests : InBudget(r)'
    BY <1>1 DEF InBudget, IInv
<1>3. ASSUME NEW r \in Requests, NEW s \in Sinks
      PROVE  /\ Sensible(req[r], s, work[r][s])' /\ Undisturbed(r, s)
    <2>1. Sensible(req[r], s, work[r][s])
        BY DEF IInv
    <2> QED
        BY <1>1, <2>1 DEF Sensible, Undisturbed
<1>4. ASSUME NEW r \in Requests, NEW s \in Sinks, Busy(r, s), KeyNow(r, s) # Keyless
      PROVE  seen'[KeyNow(r, s)] = seen[KeyNow(r, s)]
    <2>1. Sensible(req[r], s, work[r][s]) /\ Reserved(r, s) /\ InBudget(r) /\ TypeOK
        BY DEF IInv
    <2>2. req[r].state = "running"
        <3>1. work[r][s] # Idle
            BY <1>4 DEF Busy, Holding, Idle
        <3> QED
            BY <2>1, <3>1 DEF Sensible
    <2>3. /\ seen[KeyNow(r, s)] = work[r][s].since
          /\ work[r][s].ni \in DOMAIN req[r].payload /\ work[r][s].ti \in DOMAIN TargetsOf[s]
          /\ req[r].start <= work[r][s].since /\ now <= req[r].start + Budget
        BY <1>4, <2>1, <2>2 DEF Sensible, Reserved, InBudget, Busy
    <2>4. KeyNow(r, s) \in DedupKeys
        BY <1>4, <2>1, <2>3, KeyTyped
    <2>5. /\ work[r][s].since \in Nat /\ req[r].start \in Nat
          /\ Budget \in Nat /\ DedupTTL \in Nat /\ Budget <= DedupTTL
        BY <1>1, BudgetAssumption, DedupAssumption DEF Locals, Request
    <2>6. ~(now - seen[KeyNow(r, s)] > DedupTTL)
        BY <1>1, <2>3, <2>5
    <2> QED
        BY <1>1, <2>4, <2>6
<1>5. /\ seen' \in [DedupKeys -> Nat \cup {Absent}]
      /\ \A k \in DedupKeys : seen'[k] \in {seen[k], Absent}
    BY <1>1
<1> QED
    BY <1>1, <1>2, <1>3, <1>4, <1>5, NobodyMoves

LEMMA StutterIInv ==
    ASSUME IInv, UNCHANGED vars
    PROVE  IInv'
<1>1. /\ req' = req /\ work' = work /\ mode' = mode /\ now' = now
      /\ UNCHANGED <<now, seen, logVars, mode, chat, rewritten>>
      /\ req \in [Requests -> Request] /\ work \in [Requests -> [Sinks -> Locals]]
    BY DEF vars, logVars, IInv, TypeOK
<1>2. \A r \in Requests : InBudget(r)'
    BY <1>1 DEF InBudget, IInv
<1>3. ASSUME NEW r \in Requests, NEW s \in Sinks
      PROVE  /\ Sensible(req[r], s, work[r][s])' /\ Undisturbed(r, s)
    <2>1. Sensible(req[r], s, work[r][s])
        BY DEF IInv
    <2> QED
        BY <1>1, <2>1 DEF Sensible, Undisturbed
<1> QED
    BY <1>1, <1>2, <1>3, RequestMoves

LEMMA NextIInv == IInv /\ [Next]_vars => IInv'
<1> SUFFICES ASSUME IInv, [Next]_vars
             PROVE  IInv'
    OBVIOUS
<1> QED
    BY ArriveIInv, ContextEndsIInv, AnswerIInv, SinkStepIInv, TickIInv, SweepSeenIInv,
       StutterIInv DEF Next

LEMMA InitIInv == Init => IInv
<1> SUFFICES ASSUME Init
             PROVE  IInv
    OBVIOUS
<1>1. /\ now = 0 /\ seen = [k \in DedupKeys |-> Absent] /\ LogInit /\ mode \in Modes
      /\ req = [r \in Requests |-> NoRequest]
      /\ work = [r \in Requests |-> [s \in Sinks |-> Idle]]
      /\ chat = {} /\ rewritten = {}
    BY DEF Init, DedupInit
<1>2. LogInv
    BY <1>1, InitLogInv
<1>3. \A r \in Requests, s \in Sinks : work[r][s] = Idle /\ req[r] = NoRequest
    BY <1>1
<1>4. NoRequest \in Request /\ NoRequest.state = "idle"
    BY NoRequestTyped DEF NoRequest
<1>5. TypeOK
    <2>1. req \in [Requests -> Request]
        BY <1>1, <1>4
    <2>2. work \in [Requests -> [Sinks -> Locals]]
        BY <1>1, IdleTyped
    <2>3. \A r \in Requests, s \in Sinks : work[r][s].err <= work[r][s].att
        BY <1>3, IdleTyped
    <2> QED
        BY <1>1, <1>2, <2>1, <2>2, <2>3 DEF TypeOK, DedupTypeOK, LogInv
<1>6. \A r \in Requests : InBudget(r)
    BY <1>1, <1>4 DEF InBudget
<1>7. ASSUME NEW r \in Requests, NEW s \in Sinks
      PROVE  Sensible(req[r], s, work[r][s]) /\ ~Busy(r, s)
    <2> QED
        BY <1>3, <1>4, FirstTarget, IdleTyped DEF Sensible, Busy, Holding
<1>8. ReservationHasOwner
    BY <1>1 DEF ReservationHasOwner
<1> QED
    BY <1>2, <1>5, <1>6, <1>7, <1>8 DEF IInv, Reserved, SameKey

LEMMA SpecIInv == Spec => []IInv
BY InitIInv, NextIInv, PTL DEF Spec
-----------------------------------------------------------------------------
(* What follows. *)

\* Every variable keeps its type, and no goroutine ever counts more errors
\* than attempts (handlers.go:130-139 tells 207 from 500 by that).
THEOREM DeliveryTypeOK == Spec => []TypeOK
<1>1. IInv => TypeOK
    BY DEF IInv
<1> QED
    BY <1>1, SpecIInv, PTL

\* resolve.go: whatever the goroutines do to the message log and in which
\* order, its map and its list name the same incidents, once each, in the
\* order in which they expire.
THEOREM DeliveryLogConsistent == Spec => []LogConsistent
<1>1. IInv => LogConsistent
    BY LogInvConsistent DEF IInv
<1> QED
    BY <1>1, SpecIInv, PTL

\* dedup.go:55-66: at no time do two goroutines, of one request or of two,
\* deliver the same alert, target and status.
THEOREM DeliveryOneSenderPerKey == Spec => []OneSenderPerKey
<1>1. IInv => OneSenderPerKey
    <2>1. ASSUME IInv, NEW k \in DedupKeys, NEW r1 \in Requests, NEW r2 \in Requests,
                 NEW s1 \in Sinks, NEW s2 \in Sinks, Holds(r1, s1, k), Holds(r2, s2, k)
          PROVE  r1 = r2 /\ s1 = s2
        <3>1. SameKey(r1, s1, r2, s2)
            BY <2>1, DedupAssumption DEF SameKey, Holds, Busy
        <3> QED
            BY <2>1, <3>1 DEF IInv
    <2> QED
        BY <2>1 DEF OneSenderPerKey
<1> QED
    BY <1>1, SpecIInv, PTL

\* dedup.go:53-54: a recorded key is being delivered right now, or something
\* of it landed under that reservation; nothing else suppresses a retry.
THEOREM DeliveryReservationHasOwner == Spec => []ReservationHasOwner
<1>1. IInv => ReservationHasOwner
    BY DEF IInv
<1> QED
    BY <1>1, SpecIInv, PTL
=============================================================================
