---------------------------- MODULE Interactive ----------------------------
(***************************************************************************)
(* The life of an alert message with buttons.  Four kinds of goroutines     *)
(* edit the same messages and share the two button trackers: the webhook    *)
(* that posts and later rewrites a message, the one worker that handles     *)
(* presses (server/callback.go), and a sweeper per tracker                  *)
(* (server/button_tracker.go).  They interleave at every critical section   *)
(* of a tracker and at every call to the messenger or to Alertmanager.      *)
(*                                                                         *)
(* One messenger is modelled.  Its calls may fail and Alertmanager may act  *)
(* without its answer arriving.  A restart loses everything kept in memory. *)
(***************************************************************************)
EXTENDS Clock, Sequences, FiniteSets

CONSTANTS
    Refs,            \* messages
    ButtonTTL,       \* updates.button_ttl
    UndoWindow,      \* updates.undo_window
    MaxEntries,      \* updates.button_tracker_max
    HandleTimeout,   \* callbackHandleTimeout: 15 s
    Attempts,        \* retryAttempts of the Alertmanager client: 3
    Setups,          \* settings to explore: [messenger, undo]
    MaxPresses,      \* bounds, for model checking
    MaxSilences,
    MaxRestarts

Alert == "alert"                          \* the fingerprint a message carries
Silences == 1 .. MaxSilences              \* silence ids

\* HandleTimeout < UndoWindow is not enforced: the defaults are 15 s and 5 min.
ASSUME InteractiveAssumption ==
    /\ HandleTimeout \in Nat /\ HandleTimeout < UndoWindow
    /\ {ButtonTTL, UndoWindow} \subseteq Nat \ {0}
    /\ MaxEntries \in Int
    /\ MaxSilences \in Nat
    /\ Attempts \in Nat \ {0}
    /\ Setups \subseteq [messenger : {"telegram", "slack"}, undo : BOOLEAN]

VARIABLES
    sIndex, sOrder,   \* the silence tracker
    uIndex, uOrder,   \* the undo tracker
    setup,            \* the deployment's settings
    screen,           \* what each message shows
    post,             \* the webhook side of each message
    queue,            \* presses waiting for the worker
    worker,           \* the handler of the current press
    swept,            \* what each sweeper popped and has yet to edit
    made,             \* made[id] = the message silence id was created for
    active,           \* silences Alertmanager holds
    told,             \* silences a user was told of
    undone,           \* silences a user was told are removed
    lost,             \* messages with a failed edit, an eviction, a restart
    presses, restarts \* counters for the bounds

Silence == INSTANCE ButtonTracker
    WITH index <- sIndex, order <- sOrder, TTL <- ButtonTTL, Values <- {Alert}
Undo == INSTANCE ButtonTracker
    WITH index <- uIndex, order <- uOrder, TTL <- UndoWindow, Values <- Silences

silenceVars == <<sIndex, sOrder>>
undoVars == <<uIndex, uOrder>>
trackers == <<sIndex, sOrder, uIndex, uOrder>>
amVars == <<made, active>>
toldVars == <<told, undone>>
bounds == <<setup, presses, restarts>>
vars == <<now, trackers, setup, screen, post, queue, worker, swept, made, active,
          told, undone, lost, presses, restarts>>

NoButton == [kind |-> "none", id |-> Alert]
SilenceButton == [kind |-> "silence", id |-> Alert]
UndoButton(id) == [kind |-> "undo", id |-> id]

Resting == [pc |-> "idle", press |-> <<>>, since |-> 0, id |-> 0, att |-> 0]

Init ==
    /\ now = 0
    /\ Silence!Init
    /\ Undo!Init
    /\ setup \in Setups
    /\ screen = [ref \in Refs |-> [body |-> "firing", buttons |-> NoButton]]
    /\ post = [ref \in Refs |-> "unsent"]
    /\ queue = <<>>
    /\ worker = Resting
    /\ swept = [silence |-> <<>>, undo |-> <<>>]
    /\ made = <<>>
    /\ active = {}
    /\ told = {}
    /\ undone = {}
    /\ lost = {}
    /\ presses = 0
    /\ restarts = 0
-----------------------------------------------------------------------------
(* Calls to the messenger. *)

\* SetActions lands: Slack rewrites the whole message with the body it is
\* given, Telegram changes the buttons only.
Show(ref, body, buttons) ==
    /\ screen' = [screen EXCEPT
           ![ref].body = IF setup.messenger = "slack" THEN body ELSE @,
           ![ref].buttons = buttons]
    /\ UNCHANGED lost

Unshown(ref) ==
    /\ lost' = lost \cup {ref}
    /\ UNCHANGED screen

SetActions(ref, body, buttons) == Show(ref, body, buttons) \/ Unshown(ref)
-----------------------------------------------------------------------------
(* The webhook: sendParts and rewrite. *)

\* The bound lets every window close before the clock stops.
Send(ref) ==
    /\ now + ButtonTTL + HandleTimeout + UndoWindow <= MaxTime
    /\ post[ref] = "unsent"
    /\ post' = [post EXCEPT ![ref] = "sent"]
    /\ screen' = [screen EXCEPT ![ref].buttons = SilenceButton]
    /\ UNCHANGED <<trackers, lost>>

\* RegisterRef, and the link that lets a resolve find the message.
RegisterRef(ref) ==
    /\ post[ref] = "sent"
    /\ Silence!RegisterMessage(ref, Alert)
    /\ post' = [post EXCEPT ![ref] = "linked"]
    /\ lost' = lost \cup (sIndex \ sIndex')
    /\ UNCHANGED <<undoVars, screen>>

ForgetsNoSilence(ref) ==   \* mutant
    /\ post[ref] = "linked"
    /\ post' = [post EXCEPT ![ref] = "forgetting"]
    /\ UNCHANGED <<trackers, screen, lost>>

\* ForgetRef of both trackers, one after the other.
ForgetSilence(ref) ==
    /\ post[ref] = "linked"
    /\ IF ref \in sIndex THEN Silence!ConsumeRef(ref) ELSE UNCHANGED silenceVars
    /\ post' = [post EXCEPT ![ref] = "forgetting"]
    /\ UNCHANGED <<undoVars, screen, lost>>

ForgetUndo(ref) ==
    /\ post[ref] = "forgetting"
    /\ IF ref \in uIndex THEN Undo!ConsumeRef(ref) ELSE UNCHANGED undoVars
    /\ post' = [post EXCEPT ![ref] = "editing"]
    /\ UNCHANGED <<silenceVars, screen, lost>>

\* The resolve is shown, in the same message and without buttons.
Rewrite(ref) ==
    /\ post[ref] = "editing"
    /\ post' = [post EXCEPT ![ref] = "resolved"]
    /\ screen' = [screen EXCEPT ![ref] = [body |-> "resolved", buttons |-> NoButton]]
    /\ UNCHANGED <<trackers, lost>>

\* The edit fails.  The link stays when the budget ended in mode edit: the
\* caller's retry comes back to it.
RewriteFails(ref) ==
    /\ post[ref] = "editing"
    /\ \E next \in {"linked", "dropped"} : post' = [post EXCEPT ![ref] = next]
    /\ Unshown(ref)
    /\ UNCHANGED trackers

Webhook(ref) ==
    /\ \/ Send(ref) \/ RegisterRef(ref)
       \/ ForgetSilence(ref) \/ ForgetUndo(ref) \/ Rewrite(ref) \/ RewriteFails(ref)
    /\ UNCHANGED <<now, bounds, queue, worker, swept, amVars, toldVars>>
-----------------------------------------------------------------------------
(* The press handler: HandleInteraction and handleUndo. *)

\* A user presses a button the message shows.  The press carries the message
\* as the user saw it.
Press(ref) ==
    /\ presses < MaxPresses
    /\ screen[ref].buttons # NoButton
    /\ queue' = Append(queue, [ref |-> ref, button |-> screen[ref].buttons,
                               original |-> screen[ref].body])
    /\ presses' = presses + 1
    /\ UNCHANGED <<now, trackers, setup, screen, post, worker, swept, amVars, toldVars,
                   lost, restarts>>

NextPress == Head(queue)

\* The worker takes the next press and looks its message up.
Take(kind, pc) ==
    /\ worker.pc = "idle"
    /\ queue # <<>>
    /\ NextPress.button.kind = kind
    /\ worker' = [Resting EXCEPT !.pc = pc, !.press = NextPress, !.since = now]
    /\ queue' = Tail(queue)
    /\ UNCHANGED <<trackers, screen, amVars, toldVars, lost>>

\* The chat or the user is not on the allowlist, or the button does not match
\* what was registered: an answer and nothing else.
Refuse ==
    /\ worker.pc = "idle"
    /\ queue # <<>>
    /\ queue' = Tail(queue)
    /\ UNCHANGED <<trackers, screen, worker, amVars, toldVars, lost>>

TakeSilence == Take("silence", "create") /\ Silence!Live(NextPress.ref)
TakeUndo ==
    /\ Take("undo", "delete")
    /\ Undo!Live(NextPress.ref)
    /\ Undo!EntryOf(uOrder, NextPress.ref).value = NextPress.button.id

\* The window is over or the message unknown: the buttons go.
TakeExpired ==
    \/ Take("silence", "strip") /\ ~Silence!Live(NextPress.ref)
    \/ Take("undo", "strip") /\ ~Undo!Live(NextPress.ref)

Working(pc) == worker.pc = pc /\ UNCHANGED queue
Become(pc) == worker' = [worker EXCEPT !.pc = pc]
Answer == worker' = Resting
Ref == worker.press.ref

Strip ==
    /\ Working("strip")
    /\ SetActions(Ref, worker.press.original, NoButton)
    /\ Answer
    /\ UNCHANGED <<trackers, amVars, toldVars>>

RetriesForever ==   \* mutant
    \/ worker' = [worker EXCEPT !.att = (@ + 1) % Attempts]
    \/ Answer

\* One more attempt failed: try again, or give up after the last one, on an
\* error that is not retried, or as the handler's time is over.
Again ==
    \/ worker.att + 1 < Attempts /\ worker' = [worker EXCEPT !.att = @ + 1]
    \/ Answer

\* Labels cannot be resolved, no matcher is left, or the duration is unknown.
RefuseSilence ==
    /\ Working("create")
    /\ worker.att = 0
    /\ Answer
    /\ UNCHANGED <<trackers, screen, amVars, toldVars, lost>>

\* Alertmanager creates a silence; its answer may get lost.
NewSilence ==
    /\ Len(made) < MaxSilences
    /\ made' = Append(made, Ref)
    /\ active' = active \cup {Len(made')}

IdBeforeCreate ==   \* mutant
    /\ Working("create")
    /\ NewSilence
    /\ \/ worker' = [worker EXCEPT !.pc = "consume", !.id = Len(made)]
       \/ Again
    /\ UNCHANGED <<trackers, screen, toldVars, lost>>

CreateSilence ==
    /\ Working("create")
    /\ NewSilence
    /\ \/ worker' = [worker EXCEPT !.pc = "consume", !.id = Len(made')]
       \/ Again
    /\ UNCHANGED <<trackers, screen, toldVars, lost>>

CallFails ==
    /\ Working("create") \/ Working("delete")
    /\ Again
    /\ UNCHANGED <<trackers, screen, amVars, toldVars, lost>>

KeepsWindow ==   \* mutant
    /\ Working("consume")
    /\ Become(IF setup.undo THEN "register" ELSE "finish")
    /\ UNCHANGED <<trackers, screen, amVars, toldVars, lost>>

OpensNoUndoWindow ==   \* mutant
    /\ Working("consume")
    /\ IF Ref \in sIndex THEN Silence!ConsumeRef(Ref) ELSE UNCHANGED silenceVars
    /\ Become("finish")
    /\ UNCHANGED <<undoVars, screen, amVars, toldVars, lost>>

ConsumeSilence ==
    /\ Working("consume")
    /\ IF Ref \in sIndex THEN Silence!ConsumeRef(Ref) ELSE UNCHANGED silenceVars
    /\ Become(IF setup.undo THEN "register" ELSE "finish")
    /\ UNCHANGED <<undoVars, screen, amVars, toldVars, lost>>

RegistersFirstAttempt ==   \* mutant
    /\ Working("register")
    /\ Undo!RegisterMessage(Ref, 1)
    /\ Become("finish")
    /\ lost' = lost \cup (uIndex \ uIndex')
    /\ UNCHANGED <<silenceVars, screen, amVars, toldVars>>

RegisterUndo ==
    /\ Working("register")
    /\ Undo!RegisterMessage(Ref, worker.id)
    /\ Become("finish")
    /\ lost' = lost \cup (uIndex \ uIndex')
    /\ UNCHANGED <<silenceVars, screen, amVars, toldVars>>

\* The silence buttons are replaced by the undo button, or removed when undo
\* is off, on the message as it was sent; then the user is told.
FinishSilence ==
    /\ Working("finish")
    /\ SetActions(Ref, "firing", IF setup.undo THEN UndoButton(worker.id) ELSE NoButton)
    /\ told' = told \cup {worker.id}
    /\ Answer
    /\ UNCHANGED <<trackers, amVars, undone>>

\* Alertmanager removes the silence; its answer may get lost.
DeleteSilence ==
    /\ Working("delete")
    /\ active' = active \ {worker.press.button.id}
    /\ Become("consumeUndo") \/ Again
    /\ UNCHANGED <<trackers, screen, made, toldVars, lost>>

ConsumeUndo ==
    /\ Working("consumeUndo")
    /\ IF Ref \in uIndex THEN Undo!ConsumeRef(Ref) ELSE UNCHANGED undoVars
    /\ Become("clear")
    /\ UNCHANGED <<silenceVars, screen, amVars, toldVars, lost>>

FinishUndo ==
    /\ Working("clear")
    /\ SetActions(Ref, "firing", NoButton)
    /\ undone' = undone \cup {worker.press.button.id}
    /\ Answer
    /\ UNCHANGED <<trackers, amVars, told>>

Handler ==
    /\ \/ TakeSilence \/ TakeUndo \/ TakeExpired \/ Refuse
       \/ Strip
       \/ RefuseSilence \/ CreateSilence \/ CallFails
       \/ ConsumeSilence \/ RegisterUndo \/ FinishSilence
       \/ DeleteSilence \/ ConsumeUndo \/ FinishUndo
    /\ UNCHANGED <<now, bounds, post, swept>>
-----------------------------------------------------------------------------
(* The two sweepers: sweepOnce. *)

\* The refs a sweep took from the front of a list.
Popped(before, after) ==
    [i \in 1 .. Len(before) - Len(after) |-> before[i].key]

SweepSilence ==
    /\ swept.silence = <<>>
    /\ Silence!Sweep
    /\ swept' = [swept EXCEPT !.silence = Popped(sOrder, sOrder')]
    /\ UNCHANGED <<undoVars, screen, lost>>

SweepUndo ==
    /\ swept.undo = <<>>
    /\ Undo!Sweep
    /\ swept' = [swept EXCEPT !.undo = Popped(uOrder, uOrder')]
    /\ UNCHANGED <<silenceVars, screen, lost>>

KeepsButtons(t) ==   \* mutant
    /\ swept[t] # <<>>
    /\ LET ref == Head(swept[t]) IN SetActions(ref, "firing", screen[ref].buttons)
    /\ swept' = [swept EXCEPT ![t] = Tail(@)]
    /\ UNCHANGED trackers

\* The next popped message loses its buttons, with the body it was sent with.
RemoveButtons(t) ==
    /\ swept[t] # <<>>
    /\ SetActions(Head(swept[t]), "firing", NoButton)
    /\ swept' = [swept EXCEPT ![t] = Tail(@)]
    /\ UNCHANGED trackers

Sweepers ==
    /\ \/ SweepSilence \/ SweepUndo
       \/ \E t \in {"silence", "undo"} : RemoveButtons(t)
    /\ UNCHANGED <<now, bounds, post, queue, worker, amVars, toldVars>>
-----------------------------------------------------------------------------
\* A press is handled under a timeout; RegisterRef follows the send at once.
Tick ==
    /\ \A ref \in Refs : post[ref] # "sent"
    /\ worker.pc # "idle" => now < worker.since + HandleTimeout
    /\ Advance
    /\ UNCHANGED <<trackers, bounds, screen, post, queue, worker, swept, amVars, toldVars,
                   lost>>

\* Everything in memory is gone.  Telegram delivers again what was not
\* confirmed, the press at work included; Slack had its acknowledgements.
Restart ==
    /\ restarts < MaxRestarts
    /\ restarts' = restarts + 1
    /\ sIndex' = {} /\ sOrder' = <<>>
    /\ uIndex' = {} /\ uOrder' = <<>>
    /\ queue' \in IF setup.messenger = "slack" THEN {<<>>}
                  ELSE {queue, IF worker.pc = "idle" THEN queue
                               ELSE <<worker.press>> \o queue}
    /\ worker' = Resting
    /\ swept' = [silence |-> <<>>, undo |-> <<>>]
    /\ post' = [ref \in Refs |-> IF post[ref] \in {"unsent", "resolved"}
                                 THEN post[ref] ELSE "dropped"]
    /\ lost' = {ref \in Refs : post[ref] # "unsent"}
    /\ UNCHANGED <<now, setup, screen, amVars, toldVars, presses>>

Next ==
    \/ \E ref \in Refs : Webhook(ref) \/ Press(ref)
    \/ Handler
    \/ Sweepers
    \/ Tick
    \/ Restart

\* The goroutines run and time passes; no press, resolve or restart need ever
\* come.
Fairness ==
    /\ WF_vars(Handler)
    /\ WF_vars(Sweepers)
    /\ WF_vars(Tick)
    /\ \A ref \in Refs : WF_vars(Webhook(ref) /\ post[ref] \notin {"unsent", "linked"})

Spec == Init /\ [][Next]_vars
FairSpec == Spec /\ Fairness
-----------------------------------------------------------------------------
(* What holds. *)

TypeOK ==
    /\ now \in Nat
    /\ Silence!TypeOK
    /\ Undo!TypeOK
    /\ setup \in Setups
    /\ screen \in [Refs -> [body : {"firing", "resolved"},
                            buttons : {NoButton, SilenceButton}
                                      \cup {UndoButton(id) : id \in Silences}]]
    /\ post \in [Refs -> {"unsent", "sent", "linked", "forgetting", "editing", "resolved",
                          "dropped"}]
    /\ active \subseteq DOMAIN made
    /\ told \subseteq DOMAIN made
    /\ undone \subseteq told
    /\ lost \subseteq Refs

\* "Silence buttons must go away so nobody silences twice" (callback.go:285):
\* however presses, sweeps, resolves and restarts interleave, at most one
\* press of a message ends in "Silenced".
NobodySilencesTwice ==
    \A i, j \in told : made[i] = made[j] => i = j

\* Once a resolve set out to rewrite a message, no press of its buttons can
\* create a silence any more, whether the press was late or the old buttons
\* are still on screen (handlers.go:45-53).
ResolvedTakesNoSilence ==
    \A ref \in Refs :
        post[ref] \in {"forgetting", "editing", "resolved"} => ref \notin sIndex

\* "A press is accepted only if its silence ID matches what alertly attached
\* to that very message" (README.md:227) never refuses a user who pressed a
\* real button: while a message can be undone, an undo button it shows, or
\* showed to a waiting press, carries the tracked id.
HonestPressesMatch ==
    \A ref \in uIndex :
        LET id == Undo!EntryOf(uOrder, ref).value IN
        /\ made[id] = ref
        /\ screen[ref].buttons.kind = "undo" => screen[ref].buttons.id = id
        /\ \A i \in DOMAIN queue :
             queue[i].ref = ref /\ queue[i].button.kind = "undo" => queue[i].button.id = id

AtRest == worker.pc = "idle" /\ swept.silence = <<>> /\ swept.undo = <<>>

\* No button is stranded: between handlings, a button on a message nobody
\* resolved is known to the tracker that will remove it, unless an edit
\* failed, the tracker was full or alertly restarted.
NoStrandedButton ==
    AtRest => \A ref \in Refs \ lost :
        post[ref] = "linked" =>
            /\ screen[ref].buttons.kind = "silence" => ref \in sIndex
            /\ screen[ref].buttons.kind = "undo" => ref \in uIndex

\* Every press is answered: the bounded retries and the handler's budget
\* always bring the worker back to an empty queue.
PressesAreAnswered == queue # <<>> ~> queue = <<>> /\ worker.pc = "idle"

\* The buttons of a message that is not resolved go eventually, with the same
\* exceptions as above.
ButtonsGoEventually ==
    \A ref \in Refs :
        screen[ref].buttons # NoButton ~>
            \/ screen[ref].buttons = NoButton
            \/ ref \in lost
            \/ post[ref] # "linked"
-----------------------------------------------------------------------------
(* What the documentation promises and the code does not keep. *)

\* "a message alertly rewrites is forgotten by both, so neither sweeper
\* restores its old body" (button_tracker.go:188-190, handlers.go:49-52).
ResolvedStays ==
    [][\A ref \in Refs : screen[ref].body = "resolved" => screen'[ref].body = "resolved"]_vars

\* "UndoWindow is how long the Undo button stays on the message after a
\* silence is created" (config.go:103-104): between handlings, a message
\* within its undo window shows the button, unless an edit failed.
UndoButtonStays ==
    AtRest => \A ref \in Refs \ lost :
        post[ref] = "linked" /\ Undo!Live(ref) => screen[ref].buttons.kind = "undo"

\* "Silence removed - alert will notify again" (callback.go:343): after an
\* undo Alertmanager holds no silence created for the message.
UndoneNotifies ==
    \A i \in undone : \A j \in active : made[j] # made[i]
=============================================================================
