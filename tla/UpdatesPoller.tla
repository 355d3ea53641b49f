--------------------------- MODULE UpdatesPoller ---------------------------
(***************************************************************************)
(* Button presses and commands from Telegram: the long-poll loop of a pod   *)
(* (server/updates.go) and the update queue Telegram keeps for the bot.     *)
(*                                                                         *)
(* getUpdates(offset) makes Telegram forget every update below offset, so   *)
(* a pod must not move its offset past an update and poll again before the  *)
(* update is handled.  The offset lives in memory; the next pod starts from *)
(* what Telegram still holds.                                               *)
(***************************************************************************)
EXTENDS PodLife, Sequences

CONSTANTS
    MaxUpdates,   \* bound, for model checking: updates of a run
    BatchLimit,   \* updates Telegram returns at most: 100 by default
    Poisoned      \* updates whose handler panics

Updates == 1 .. MaxUpdates

ASSUME PollerAssumption ==
    /\ MaxUpdates \in Nat \ {0}
    /\ BatchLimit \in Nat \ {0}
    /\ Poisoned \subseteq Updates

VARIABLES
    arrived,      \* updates 1 .. arrived have reached Telegram
    confirmed,    \* updates 1 .. confirmed are forgotten by Telegram
    poller,       \* poller[p] = the loop of pod p
    begun,        \* begun[p] = updates pod p has dispatched
    settled       \* updates handled under a live context, or that panicked

pollerVars == <<arrived, confirmed, poller, begun, settled>>

Off == [pc |-> "off", offset |-> 0, batch |-> <<>>, at |-> 0]
Polling == [Off EXCEPT !.pc = "top"]

PollerInit(enabled) ==
    /\ arrived = 0
    /\ confirmed = 0
    /\ poller = [p \in Pods |-> IF enabled /\ p = 1 THEN Polling ELSE Off]
    /\ begun = [p \in Pods |-> {}]
    /\ settled = {}
-----------------------------------------------------------------------------
(* Telegram. *)

UpdateArrives ==
    /\ arrived < MaxUpdates
    /\ arrived' = arrived + 1
    /\ UNCHANGED <<confirmed, poller, begun, settled>>

\* Offset 0 is omitted from the request and confirms nothing.
Confirm(p) ==
    IF poller[p].offset > confirmed + 1 THEN poller[p].offset - 1 ELSE confirmed

\* The oldest updates it holds from offset on, none if the long poll ends.
Held(p) ==
    [i \in 1 .. (arrived - Confirm(p)) |-> Confirm(p) + i]
Batch(p) ==
    SubSeq(Held(p), 1, IF Len(Held(p)) < BatchLimit THEN Len(Held(p)) ELSE BatchLimit)
-----------------------------------------------------------------------------
(* The loop. *)

PollsOnceMore(p) ==   \* mutant
    /\ poller[p].pc = "top"
    /\ poller' = [poller EXCEPT ![p].pc = "asking"]
    /\ UNCHANGED <<arrived, confirmed, begun, settled>>

\* The top of the loop is the only place that looks at the context.
Top(p) ==
    /\ poller[p].pc = "top"
    /\ poller' = [poller EXCEPT ![p].pc = IF pod[p] = "up" THEN "asking" ELSE "returned"]
    /\ UNCHANGED <<arrived, confirmed, begun, settled>>

Answered(p) ==
    /\ poller[p].pc = "asking"
    /\ confirmed' = Confirm(p)
    /\ poller' = [poller EXCEPT ![p].pc = "batch", ![p].batch = Batch(p)]
    /\ UNCHANGED <<arrived, begun, settled>>

Conflict(p) == \E q \in Pods \ {p} : poller[q].pc = "asking"

\* An error, which may be a 409 because the other pod polls too.  Telegram may
\* have taken the offset although its answer was lost.
PollFails(p) ==
    /\ poller[p].pc = "asking"
    /\ trouble \/ Conflict(p) \/ pod[p] = "stopping"
    /\ confirmed' \in {confirmed, Confirm(p)}
    /\ poller' = [poller EXCEPT ![p].pc = IF pod[p] = "up" THEN "backoff" ELSE "returned"]
    /\ UNCHANGED <<arrived, begun, settled>>

BackoffEnds(p) ==
    /\ poller[p].pc = "backoff"
    /\ poller' = [poller EXCEPT ![p].pc = IF pod[p] = "up" THEN "top" ELSE "returned"]
    /\ UNCHANGED <<arrived, confirmed, begun, settled>>

OffsetAt(p, id) ==   \* mutant
    IF id >= poller[p].offset THEN id ELSE poller[p].offset

OffsetAfter(p, id) == IF id >= poller[p].offset THEN id + 1 ELSE poller[p].offset

\* The offset moves before the handler runs.
Dispatch(p) ==
    /\ poller[p].pc = "batch"
    /\ poller[p].batch # <<>>
    /\ LET id == Head(poller[p].batch) IN
         /\ poller' = [poller EXCEPT ![p] =
                [pc |-> "handling", offset |-> OffsetAfter(p, id), batch |-> Tail(@.batch), at |-> id]]
         /\ begun' = [begun EXCEPT ![p] = @ \cup {id}]
    /\ UNCHANGED <<arrived, confirmed, settled>>

BatchDone(p) ==
    /\ poller[p].pc = "batch"
    /\ poller[p].batch = <<>>
    /\ poller' = [poller EXCEPT ![p].pc = "top"]
    /\ UNCHANGED <<arrived, confirmed, begun, settled>>

\* The handler ended, or its timeout did.  Under a canceled context its calls
\* fail, so nothing counts as handled.
HandlerReturns(p) ==
    /\ poller[p].pc = "handling" /\ poller[p].at \notin Poisoned
    /\ poller' = [poller EXCEPT ![p].pc = "batch", ![p].at = 0]
    /\ settled' = IF pod[p] = "up" THEN settled \cup {poller[p].at} ELSE settled
    /\ UNCHANGED <<arrived, confirmed, begun>>

PanicEndsRun(p) ==   \* mutant
    /\ poller[p].pc = "handling" /\ poller[p].at \in Poisoned
    /\ poller' = [poller EXCEPT ![p].pc = "returned", ![p].at = 0]
    /\ settled' = settled \cup {poller[p].at}
    /\ UNCHANGED <<arrived, confirmed, begun>>

\* dispatch recovers a panic and the loop goes on with the next update.
HandlerPanics(p) ==
    /\ poller[p].pc = "handling" /\ poller[p].at \in Poisoned
    /\ poller' = [poller EXCEPT ![p].pc = "batch", ![p].at = 0]
    /\ settled' = settled \cup {poller[p].at}
    /\ UNCHANGED <<arrived, confirmed, begun>>

PollerStep(p) ==
    \/ Top(p)
    \/ BackoffEnds(p)
    \/ Dispatch(p)
    \/ BatchDone(p)
    \/ HandlerReturns(p)
    \/ HandlerPanics(p)
    \/ pod[p] = "stopping" /\ PollFails(p)

PollerStarts(p) ==
    /\ poller' = [poller EXCEPT ![p] = Polling]
    /\ UNCHANGED <<arrived, confirmed, begun, settled>>

PollerEnds(p) ==
    /\ poller' = [poller EXCEPT ![p] = Off]
    /\ UNCHANGED <<arrived, confirmed, begun, settled>>

PollerNext(p) == PollerStep(p) \/ Answered(p) \/ PollFails(p)
=============================================================================
