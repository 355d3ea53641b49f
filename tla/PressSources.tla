---------------------------- MODULE PressSources ----------------------------
(***************************************************************************)
(* Where button presses and commands come from, across the pods of a        *)
(* deployment: the Telegram poller or the Slack socket of each pod, and the *)
(* shutdown that cuts both off in the middle of a press.  Interactive has   *)
(* what the handler itself does.                                            *)
(***************************************************************************)
EXTENDS UpdatesPoller, SlackSocket, FiniteSets

CONSTANT Setups   \* what to explore: [source, overlap, sent], see below

ASSUME SetupAssumption ==
    Setups \subseteq [source : {"telegram", "slack"}, overlap : BOOLEAN, sent : SUBSET Envelopes]

\* The messenger whose presses the deployment takes, whether a rolling update
\* overlaps two pods, and the envelopes Slack sends (a bound).
VARIABLE setup

vars == <<pod, trouble, setup, pollerVars, slackVars>>

Init ==
    /\ PodInit
    /\ setup \in Setups
    /\ PollerInit(setup.source = "telegram")
    /\ SocketInit(setup.source = "slack")

\* rootCtx is handed to the worker that setupUpdates built.
Start(p) ==
    /\ StartPod(p)
    /\ setup.overlap \/ pod[p - 1] = "gone"
    /\ IF setup.source = "telegram"
       THEN PollerStarts(p) /\ UNCHANGED slackVars
       ELSE SocketStarts(p) /\ UNCHANGED pollerVars
    /\ UNCHANGED setup

Stop(p) ==
    /\ Signal(p)
    /\ UNCHANGED <<setup, pollerVars, slackVars>>

\* The poller and the socket have returned; Run of the socket waits for its
\* worker goroutine.
WorkersReturned(p) ==
    IF setup.source = "telegram"
    THEN poller[p].pc = "returned"
    ELSE reader[p].pc = "returned" /\ hand[p] = "stopped"

Ends(p) ==
    /\ \/ Exit(p) /\ WorkersReturned(p)
       \/ Killed(p)
    /\ PollerEnds(p)
    /\ SocketEnds(p)
    /\ UNCHANGED setup

Calms == TroubleEnds /\ UNCHANGED <<setup, pollerVars, slackVars>>

\* The Telegram side alone acts, or the Slack side.
OnTelegram(A) == A /\ UNCHANGED <<pod, trouble, setup, slackVars>>
OnSlack(A) == A /\ UNCHANGED <<pod, trouble, setup, pollerVars>>

Arrives ==
    /\ setup.source = "telegram"
    /\ OnTelegram(UpdateArrives)

SlackSends ==
    /\ setup.source = "slack"
    /\ \E e \in setup.sent : OnSlack(EnvelopeArrives(e))

Next ==
    \/ Calms
    \/ Arrives
    \/ SlackSends
    \/ \E p \in Pods :
          \/ Start(p)
          \/ Stop(p)
          \/ Ends(p)
          \/ OnTelegram(PollerNext(p))
          \/ OnSlack(SocketNext(p))

Spec == Init /\ [][Next]_vars

\* Trouble ends at last, a pod that is gone is replaced, every loop runs on and
\* every handler has a timeout.  While two pods poll, each is refused again and
\* again but not always: hence the strong fairness of an answer.
Fairness ==
    /\ WF_vars(Calms)
    /\ \A p \in Pods :
        /\ WF_vars(Start(p))
        /\ WF_vars(Ends(p) /\ WorkersReturned(p))
        /\ WF_vars(OnTelegram(PollerStep(p)))
        /\ SF_vars(OnTelegram(Answered(p)))
        /\ WF_vars(OnSlack(SocketStep(p)))
        /\ WF_vars(OnSlack(WorkerStep(p)))
        /\ \A e \in Envelopes : SF_vars(OnSlack(Receive(p, e)))

FairSpec == Spec /\ Fairness
-----------------------------------------------------------------------------
\* Every variable keeps its type, and no pod works for a source after it is
\* gone.
TypeOK ==
    /\ pod \in [Pods -> PodStates]
    /\ trouble \in BOOLEAN
    /\ setup \in Setups
    /\ confirmed \in 0 .. arrived
    /\ \A p \in Pods :
          /\ poller[p].pc \in {"off", "top", "asking", "backoff", "batch", "handling", "returned"}
          /\ reader[p].pc \in {"off", "opening", "backoff", "serving", "acking", "queueing", "returned"}
          /\ Len(inbox[p]) <= QueueSize
          /\ ~Alive(p) => poller[p] = Off /\ reader[p] = Silent /\ hand[p] = "off"

\* What Telegram has forgotten was handled to its end by some pod: an update
\* cut off by a signal or a kill stays at Telegram and comes back.
ConfirmedWereHandled == \A id \in 1 .. confirmed : id \in settled

\* A pod never dispatches an update twice, whatever its polls were answered
\* and however often they failed.
OncePerPod ==
    [][\A p \in Pods :
          poller'[p].at # poller[p].at /\ poller'[p].at # 0
              => poller'[p].at \notin begun[p]]_vars

\* Every update is handled, through conflicts, lost answers, panics of other
\* updates, restarts and rolling updates.
UpdatesAreHandled ==
    \A id \in Updates : arrived >= id ~> id \in settled

\* An envelope Slack will not send again is queued, at work, or handled - or
\* it was dropped by a full queue or cut off by the end of its pod.
AckedAreAccountedFor ==
    \A e \in Envelopes :
        slack[e] = "acked" =>
            \/ e \in spent
            \/ \E p \in Pods :
                  \/ e \in ContentsOf(inbox[p])
                  \/ hand[p] = e
                  \/ reader[p] = [pc |-> "queueing", env |-> e]

\* Every envelope is acknowledged at last: no failure, and no silent link,
\* leaves a pod without a connection for ever.
EnvelopesAreAcked ==
    \A e \in Envelopes : slack[e] = "waiting" ~> slack[e] = "acked"
=============================================================================
