---------------------------- MODULE SlackSocket ----------------------------
(***************************************************************************)
(* Button presses and commands from Slack (slack/socket.go): each pod keeps *)
(* one websocket, reads envelopes from it, acknowledges each and only then  *)
(* queues it for one worker goroutine.  The reader never waits for the      *)
(* worker: a full queue drops the envelope.  Slack sends what nobody        *)
(* acknowledged again, over any open connection.                            *)
(*                                                                         *)
(* A link may break, which both ends notice, or go silent, which only the   *)
(* ping notices.  The queue belongs to the process, not to the connection.  *)
(***************************************************************************)
EXTENDS PodLife, Sequences

CONSTANTS
    Envelopes,   \* presses and commands
    QueueSize    \* SocketConfig.QueueSize: 64

ASSUME SocketAssumption == QueueSize \in Nat \ {0}

NoEnvelope == "no envelope"
ASSUME EnvelopeAssumption == {NoEnvelope, "off", "idle", "stopped"} \cap Envelopes = {}

VARIABLES
    slack,       \* slack[e] = where Slack stands with envelope e
    link,        \* link[p] = the state of its connection
    reader,      \* reader[p] = the goroutine of Run and serve
    inbox,       \* inbox[p] = the queue
    hand,        \* hand[p] = what the worker goroutine is handling
    spent        \* envelopes handled, dropped by a full queue, cut off with their pod

slackVars == <<slack, link, reader, inbox, hand, spent>>

Silent == [pc |-> "off", env |-> NoEnvelope]
Connecting == [Silent EXCEPT !.pc = "opening"]

SocketInit(enabled) ==
    /\ slack = [e \in Envelopes |-> "unsent"]
    /\ link = [p \in Pods |-> "none"]
    /\ reader = [p \in Pods |-> IF enabled /\ p = 1 THEN Connecting ELSE Silent]
    /\ inbox = [p \in Pods |-> <<>>]
    /\ hand = [p \in Pods |-> IF enabled /\ p = 1 THEN "idle" ELSE "off"]
    /\ spent = {}

Read(p, pc) == reader' = [reader EXCEPT ![p] = [pc |-> pc, env |-> NoEnvelope]]
Reading(p, pc) == reader[p].pc = pc
ContentsOf(queue) == {queue[i] : i \in DOMAIN queue}
-----------------------------------------------------------------------------
(* Slack. *)

EnvelopeArrives(e) ==
    /\ slack[e] = "unsent"
    /\ slack' = [slack EXCEPT ![e] = "waiting"]
    /\ UNCHANGED <<link, reader, inbox, hand, spent>>

LinkGoesSilent(p) ==
    /\ trouble
    /\ link[p] = "up"
    /\ link' = [link EXCEPT ![p] = "silent"]
    /\ UNCHANGED <<slack, reader, inbox, hand, spent>>
-----------------------------------------------------------------------------
(* The goroutine of Run, open and serve. *)

LeavesQueue(p, pc) ==   \* mutant
    /\ link' = [link EXCEPT ![p] = "none"]
    /\ inbox' = [inbox EXCEPT ![p] = <<>>]
    /\ Read(p, IF pod[p] = "up" THEN pc ELSE "returned")
    /\ UNCHANGED <<slack, hand, spent>>

\* serve returns or open fails: the connection is closed.  Its ctx ends Run;
\* otherwise Run reconnects at once or after a backoff.
Leave(p, pc) ==
    /\ link' = [link EXCEPT ![p] = "none"]
    /\ Read(p, IF pod[p] = "up" THEN pc ELSE "returned")
    /\ UNCHANGED <<slack, inbox, hand, spent>>

Open(p) ==
    /\ Reading(p, "opening")
    /\ pod[p] = "up"
    /\ link' = [link EXCEPT ![p] = "up"]
    /\ Read(p, "serving")
    /\ UNCHANGED <<slack, inbox, hand, spent>>

OpenFails(p) ==
    /\ Reading(p, "opening")
    /\ trouble \/ pod[p] = "stopping"
    /\ Leave(p, "backoff")

BackoffOver(p) ==
    /\ Reading(p, "backoff")
    /\ Leave(p, "opening")

\* Slack announces the end: refresh_requested and warning reconnect at once,
\* link_disabled and the others after a backoff.
Disconnect(p) ==
    /\ Reading(p, "serving")
    /\ link[p] = "up"
    /\ trouble
    /\ Leave(p, "opening") \/ Leave(p, "backoff")

\* The read fails: the link broke, or the context is done.
ReadFails(p) ==
    /\ Reading(p, "serving")
    /\ (trouble /\ link[p] = "up") \/ pod[p] = "stopping"
    /\ Leave(p, "backoff")

NobodyPings(p) ==   \* mutant
    /\ FALSE
    /\ Leave(p, "backoff")

\* No pong: the ping goroutine closes the connection under the read.
PingFails(p) ==
    /\ Reading(p, "serving")
    /\ link[p] = "silent"
    /\ Leave(p, "backoff")

\* Slack sends an envelope, and may send it again, until it has the
\* acknowledgement; on a silent link it is sent to nobody.
Receive(p, e) ==
    /\ slack[e] = "waiting"
    /\ Reading(p, "serving")
    /\ link[p] = "up"
    /\ reader' = [reader EXCEPT ![p] = [pc |-> "acking", env |-> e]]
    /\ UNCHANGED <<slack, link, inbox, hand, spent>>

\* On a silent link the write succeeds and goes nowhere.
Ack(p) ==
    /\ Reading(p, "acking")
    /\ slack' = [slack EXCEPT ![reader[p].env] = IF link[p] = "up" THEN "acked" ELSE @]
    /\ reader' = [reader EXCEPT ![p].pc = "queueing"]
    /\ UNCHANGED <<link, inbox, hand, spent>>

AckFails(p) ==
    /\ Reading(p, "acking")
    /\ trouble \/ link[p] = "silent" \/ pod[p] = "stopping"
    /\ Leave(p, "backoff")

QueuesAll(p) ==   \* mutant
    /\ Reading(p, "queueing")
    /\ Read(p, "serving")
    /\ inbox' = [inbox EXCEPT ![p] = Append(@, reader[p].env)]
    /\ UNCHANGED <<slack, link, hand, spent>>

Enqueue(p) ==
    /\ Reading(p, "queueing")
    /\ Read(p, "serving")
    /\ IF Len(inbox[p]) < QueueSize
       THEN inbox' = [inbox EXCEPT ![p] = Append(@, reader[p].env)] /\ UNCHANGED spent
       ELSE spent' = spent \cup {reader[p].env} /\ UNCHANGED inbox
    /\ UNCHANGED <<slack, link, hand>>
-----------------------------------------------------------------------------
(* The worker goroutine. *)

\* With ctx done and a queue to read, select takes either.
Handle(p) ==
    /\ hand[p] = "idle"
    /\ inbox[p] # <<>>
    /\ hand' = [hand EXCEPT ![p] = Head(inbox[p])]
    /\ inbox' = [inbox EXCEPT ![p] = Tail(@)]
    /\ UNCHANGED <<slack, link, reader, spent>>

\* dispatch returns: the handler, its timeout or a panic ended it, or the
\* context was canceled and its calls fail.
Handled(p) ==
    /\ hand[p] \in Envelopes
    /\ hand' = [hand EXCEPT ![p] = "idle"]
    /\ spent' = spent \cup {hand[p]}
    /\ UNCHANGED <<slack, link, reader, inbox>>

WorkerStops(p) ==
    /\ hand[p] = "idle"
    /\ pod[p] = "stopping"
    /\ hand' = [hand EXCEPT ![p] = "stopped"]
    /\ UNCHANGED <<slack, link, reader, inbox, spent>>

SocketStep(p) ==
    \/ Open(p)
    \/ OpenFails(p)
    \/ BackoffOver(p)
    \/ \E e \in Envelopes : Receive(p, e)
    \/ Ack(p)
    \/ AckFails(p)
    \/ Enqueue(p)
    \/ ReadFails(p)
    \/ PingFails(p)

WorkerStep(p) == Handle(p) \/ Handled(p) \/ WorkerStops(p)

SocketNext(p) == SocketStep(p) \/ WorkerStep(p) \/ Disconnect(p) \/ LinkGoesSilent(p)

SocketStarts(p) ==
    /\ reader' = [reader EXCEPT ![p] = Connecting]
    /\ hand' = [hand EXCEPT ![p] = "idle"]
    /\ UNCHANGED <<slack, link, inbox, spent>>

\* Everything the process held in memory is gone.
SocketEnds(p) ==
    /\ link' = [link EXCEPT ![p] = "none"]
    /\ reader' = [reader EXCEPT ![p] = Silent]
    /\ inbox' = [inbox EXCEPT ![p] = <<>>]
    /\ hand' = [hand EXCEPT ![p] = "off"]
    /\ spent' = spent \cup ContentsOf(inbox[p])
                          \cup ({hand[p], reader[p].env} \cap Envelopes)
    /\ UNCHANGED slack
=============================================================================
