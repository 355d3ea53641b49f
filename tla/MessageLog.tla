----------------------------- MODULE MessageLog -----------------------------
(***************************************************************************)
(* server/resolve.go: the links from an incident in a chat to the firing    *)
(* messages that announced it.  linked is the map's key set, links the      *)
(* list with the entries.                                                   *)
(***************************************************************************)
EXTENDS Clock, ExpiryList

CONSTANTS
    LinkKeys,      \* an incident (fingerprint and start) in a target
    Messages,      \* delivered firing messages
    LinkTTL,       \* resolve.ttl
    LinkMax,       \* resolve.max_entries; <= 0 means unbounded
    MaxPerAlert    \* maxMessagesPerAlert: 5 in the code

ASSUME LogAssumption ==
    /\ LinkTTL \in Nat \ {0}
    /\ LinkMax \in Int
    /\ MaxPerAlert \in Nat \ {0}

VARIABLES linked, links
logVars == <<linked, links>>

LinkEntry == [key : LinkKeys, msgs : Seq(Messages), expiresAt : Nat]

LinkTo(k, msgs) == [key |-> k, msgs |-> msgs, expiresAt |-> now + LinkTTL]

\* e.msgs after one more: the oldest go beyond MaxPerAlert.
Latest(msgs) == AfterN(msgs, Surplus(msgs, MaxPerAlert))

LogInit ==
    /\ linked = {}
    /\ links = <<>>

\* Add prunes what expired, then extends the incident's entry (refreshing it
\* and moving it to the back) or pushes a new one and evicts the oldest.
LogAdd(k, m) ==
    \E n \in 0 .. Len(links) :
        /\ WalkRemoves(links, n, now)
        /\ LET pruned == AfterN(links, n)
               left == linked \ KeysOf(FirstN(links, n))
           IN \/ /\ k \in left
                 /\ LET msgs == Append(EntryOf(pruned, k).msgs, m)
                    IN links' = Append(Without(pruned, k), LinkTo(k, Latest(msgs)))
                 /\ linked' = left
              \/ /\ k \notin left
                 /\ LET grown == Append(pruned, LinkTo(k, <<m>>))
                        over == Surplus(grown, LinkMax)
                    IN /\ links' = AfterN(grown, over)
                       /\ linked' = (left \cup {k}) \ KeysOf(FirstN(grown, over))

LinkLive(k) == k \in linked /\ ~Expired(EntryOf(links, k), now)

\* Get finds a live entry and changes nothing.
LogHit(k, msgs) ==
    /\ LinkLive(k)
    /\ msgs = EntryOf(links, k).msgs
    /\ UNCHANGED logVars

DeletesFromMapOnly(k) ==   \* mutant
    /\ linked' = linked \ {k}
    /\ UNCHANGED links

LogDelete(k) ==
    IF k \in linked
    THEN /\ links' = Without(links, k)
         /\ linked' = linked \ {k}
    ELSE UNCHANGED logVars

\* Get misses; an expired entry it came across is removed.
LogMiss(k) ==
    /\ ~LinkLive(k)
    /\ LogDelete(k)

LogTypeOK ==
    /\ linked \subseteq LinkKeys
    /\ links \in Seq(LinkEntry)
    /\ LinkMax > 0 => Len(links) <= LinkMax
    /\ \A i \in DOMAIN links : Len(links[i].msgs) \in 1 .. MaxPerAlert

LogConsistent ==
    /\ KeysDistinct(links)
    /\ linked = KeysOf(links)
    /\ ExpiryOrdered(links)
=============================================================================
