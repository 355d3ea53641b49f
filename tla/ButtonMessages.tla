---------------------------- MODULE ButtonMessages ----------------------------
(***************************************************************************)
(* Messages with silence buttons: on the way out the keyboard caches the    *)
(* alert's labels, the message that landed is registered with the tracker,  *)
(* and a press looks the labels up before it consumes the message.          *)
(***************************************************************************)
EXTENDS ButtonTracker, LabelCache

\* The label TTL covers the button TTL, as the defaults (48 h and 8 h) do.
ASSUME MessagesAssumption == Values = Fingerprints /\ LabelTTL >= TTL

NoMessage == "none"
ASSUME NoMessageAssumption == NoMessage \notin Fingerprints

VARIABLE outgoing   \* the alert whose message is being sent, or NoMessage

messageVars == <<vars, labelVars, outgoing>>

MessagesInit == Init /\ LabelInit /\ outgoing = NoMessage

\* keyboard.Build, before the last part is sent.
Builds(f) ==
    /\ outgoing = NoMessage
    /\ now + TTL < MaxTime
    /\ Put(f, now)
    /\ outgoing' = f
    /\ UNCHANGED vars

Lands(ref) ==
    /\ outgoing # NoMessage
    /\ RegisterMessage(ref, outgoing)
    /\ outgoing' = NoMessage
    /\ UNCHANGED labelVars

\* The send failed: the labels stay cached.
Fails ==
    /\ outgoing # NoMessage
    /\ outgoing' = NoMessage
    /\ UNCHANGED <<vars, labelVars>>

\* resolveLabels, for a press on any message of the alert, however old.
LooksUp(f) ==
    /\ Get(f, now)
    /\ UNCHANGED <<vars, outgoing>>

Consumes == Consume /\ UNCHANGED <<labelVars, outgoing>>
Sweeps == Sweep /\ UNCHANGED <<labelVars, outgoing>>

\* A send takes seconds, a tick hours.
Ticks ==
    /\ outgoing = NoMessage
    /\ Tick
    /\ UNCHANGED <<labelVars, outgoing>>

MessagesNext ==
    \/ \E f \in Fingerprints : Builds(f) \/ LooksUp(f)
    \/ \E ref \in Refs : Lands(ref)
    \/ Fails
    \/ Consumes
    \/ Sweeps
    \/ Ticks

\* As in ButtonTracker, time passing between sends too; a send ends in one way
\* or the other.
MessagesSpec ==
    /\ MessagesInit /\ [][MessagesNext]_messageVars
    /\ SF_messageVars(Ticks) /\ WF_messageVars(Sweeps)
    /\ WF_messageVars(Fails \/ \E ref \in Refs : Lands(ref))
-----------------------------------------------------------------------------
\* Whoever presses a button that still works finds the alert's labels, even
\* when Alertmanager has forgotten the alert: the cache loses them only to an
\* overflow, never to time or to the lookup of another alert
\* (alertmanager/cache.go:9-14, server/callback.go:353-368).
ButtonsHaveLabels ==
    \A ref \in Refs :
        Live(ref) => LET f == EntryOf(order, ref).value
                     IN Hit(f, now) \/ f \in evicted

\* The overflow that takes labels away is real: a full cache, of which the
\* oldest insertion goes, and only for an alert it does not know
\* (alertmanager/cache.go:62-66).
LabelsLeaveInTurn ==
    [][\A f \in Fingerprints :
          Hit(f, now) /\ f \notin KeysOf(labels') =>
              /\ Len(labels) = LabelMax
              /\ f = Head(labels).key
              /\ outgoing' \in Fingerprints \ KeysOf(labels)]_messageVars
=============================================================================
