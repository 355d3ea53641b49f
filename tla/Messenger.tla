----------------------------- MODULE Messenger -----------------------------
(***************************************************************************)
(* One sink: the text it renders and cuts into parts, the goroutines that   *)
(* call its messenger, the limiters they share, the readiness their calls   *)
(* and the probes decide, and a messenger that is up, busy or down.         *)
(***************************************************************************)
EXTENDS RetryingClient, Readiness, Splitter

\* What to explore: which senders make which calls with how much time, the moods
\* the messenger may be in, whether the health loop probes or rests between two
\* probes, and whether a text is rendered.
CONSTANT Setups

ASSUME SetupAssumption ==
    Setups \subseteq [messenger : {"telegram", "slack"}, senders : SUBSET Senders,
                     kinds : SUBSET {"send", "edit", "answer"},
                     budget : 1 .. SendBudget, moods : SUBSET {"up", "busy", "down"}, probing : BOOLEAN,
                     renders : BOOLEAN]

VARIABLES
    setup,
    troubled   \* whether a request met a server error or no answer, or a probe failed

vars == <<clientVars, readinessVars, splitVars, setup, troubled>>

Init ==
    /\ ClientInit
    /\ ReadinessInit
    /\ setup \in Setups
    /\ messenger = setup.messenger
    /\ health \in setup.moods
    /\ SplitInit(IF setup.renders THEN Texts ELSE {<<>>})
    /\ troubled = FALSE

\* Render, which comes before the first send.
Renders ==
    /\ Cut
    /\ UNCHANGED <<clientVars, readinessVars, setup, troubled>>

\* A sendMessage or postMessage, an edit, the answer to a press.
BeginCall(c) ==
    /\ c \in setup.senders
    /\ \E kind \in setup.kinds : Begin(c, kind, setup.budget)
    /\ UNCHANGED <<readinessVars, splitVars, setup, troubled>>

Calls(c) ==
    /\ CallStep(c)
    /\ UNCHANGED <<readinessVars, splitVars, setup>>
    /\ troubled' = (troubled \/ TimesOut(c) \/ (Answered(c) /\ health = "down"))

\* send and call report to the tracker; the press handler does not.
Reports(c) ==
    /\ c \in Senders
    /\ At(c, "ended")
    /\ Update(c, Rested)
    /\ CASE call[c].kind = "answer" -> UNCHANGED <<ready, consecFails>>
         [] call[c].class = "ok" -> RecordSendSuccess
         [] OTHER -> RecordSendFailure(call[c].class = "server")
    /\ UNCHANGED <<globalNext, chatNext, chatQuiet, health, messenger, loop, splitVars, setup, troubled>>

Probe ==
    /\ setup.probing
    /\ ProbeBegins
    /\ Begin(Prober, "probe", ProbeTimeout)
    /\ UNCHANGED <<splitVars, setup, troubled>>

Probed ==
    /\ At(Prober, "ended")
    /\ Update(Prober, Idle)
    /\ IF call[Prober].class = "ok" THEN ProbeSucceeds ELSE ProbeFails
    /\ troubled' = (troubled \/ call[Prober].class # "ok")
    /\ UNCHANGED <<globalNext, chatNext, chatQuiet, health, messenger, splitVars, setup>>

LoopStep ==
    /\ Marks \/ PauseOver
    /\ UNCHANGED <<clientVars, splitVars, setup, troubled>>

GivesUp(c) == Canceled(c) /\ UNCHANGED <<readinessVars, splitVars, setup, troubled>>

Changes ==
    /\ HealthChanges
    /\ health' \in setup.moods
    /\ UNCHANGED <<readinessVars, splitVars, setup, troubled>>

Tick ==
    /\ ClientTick
    /\ IF setup.probing THEN LoopTick ELSE UNCHANGED readinessVars
    /\ UNCHANGED <<splitVars, setup, troubled>>

Next ==
    \/ \E c \in Callers :
          \/ BeginCall(c)
          \/ Calls(c)
          \/ Reports(c)
          \/ GivesUp(c)
    \/ Renders
    \/ Probe
    \/ Probed
    \/ LoopStep
    \/ Changes
    \/ Tick

Spec == Init /\ [][Next]_vars

\* Timers run and goroutines go on; nobody has to begin a call, and the
\* messenger owes nothing.
Fairness ==
    /\ WF_vars(Tick)
    /\ \A c \in Senders : WF_vars(Calls(c) \/ Reports(c))
    /\ WF_vars(Probe \/ Calls(Prober) \/ Probed \/ LoopStep)

FairSpec == Spec /\ Fairness
-----------------------------------------------------------------------------
\* The variables keep their types, no timer runs below zero, and an attempt
\* beyond the last is never made.
TypeOK ==
    /\ \A c \in Callers :
          /\ call[c].pc \in {"idle", "global", "globalWait", "chat", "chatWait",
                             "calling", "sleeping", "ended"}
          /\ call[c].att \in 0 .. MaxAttempts
          /\ {call[c].left, call[c].wait} \subseteq Nat
          /\ call[c].class \in Classes
    /\ {globalNext, chatNext, chatQuiet} \subseteq Nat
    /\ ready \in BOOLEAN
    /\ consecFails \in 0 .. Window
    /\ loop.pc \in {"start", "probing", "marking", "waiting"}
    /\ loop.fails \in 0 .. Threshold

\* Requests to a chat keep the distance of its rate limit, retries included,
\* whoever makes them.
QuotaKept ==
    [][\A c \in Senders :
          call'[c].pc = "calling" /\ call[c].pc # "calling" /\ TakesChat(call[c])
              => chatQuiet >= ChatInterval]_vars

\* A ready sink becomes unready only after real trouble: never because of 4xx,
\* of 429, of the rate limiter in an alert storm, or of callers that give up.
UnreadyNeedsTrouble == [][ready /\ ~ready' => troubled']_vars

\* A call canceled although its context goes on was refused by the limiter: it
\* is "not an attempt the messenger saw".
CanceledWereUnseen ==
    [][\A c \in Senders :
          call'[c].pc = "ended" /\ call[c].pc # "ended" /\ call'[c].class = "canceled"
              => call[c].left = 0 \/ call[c].pc \in {"global", "chat"}]_vars

\* Every call ends, however the messenger behaves.
CallsEnd == \A c \in Callers : ~At(c, "idle") ~> At(c, "idle")

\* The sink is not locked out: with a messenger that stays up it is ready at
\* last and for good, though no webhook may reach an unready pod.
ReadyAgain == <>[](health = "up" /\ setup.probing) => <>[]ready

\* A messenger that stays down makes the sink unready, webhooks or none.
UnreadyAtLast == <>[](health = "down" /\ setup.probing) => <>[]~ready
=============================================================================
