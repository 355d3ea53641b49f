------------------------------ MODULE Delivery ------------------------------
(***************************************************************************)
(* server/handlers.go: the webhook path, from an accepted request to its    *)
(* answer.  A request's payload is a sequence of notifications; every sink  *)
(* works through it in a goroutine of its own.  Requests and sinks          *)
(* interleave at every messenger call and at every critical section of the  *)
(* dedup cache and of the message log.                                      *)
(*                                                                         *)
(* Messengers, and the callers that retry, are the environment: any call    *)
(* may land, fail or be canceled, and any payload may arrive again.  A send *)
(* whose answer is lost is a failed send here, landed or not.               *)
(***************************************************************************)
EXTENDS Dedup, MessageLog

CONSTANTS
    Requests,    \* webhook requests the model may serve
    Sinks,       \* messengers
    TargetsOf,   \* sink -> its targets in the request, in order
    Payloads,    \* what a request may carry: sequences of notes
    FpOf,        \* incident -> fingerprint (with its cluster), or NoFp
    NoFp,
    PartsOf,     \* status -> parts of a new message
    Unrenderable,  \* <<note, sink>> whose template fails
    Modes,       \* resolve.mode values to explore: "new", "reply", "edit"
    Budget       \* longest time a request runs before its context ends

Incidents == DOMAIN FpOf
Statuses == {"firing", "resolved"}
Notes == [status : Statuses, inc : Incidents]
Targets == UNION {{TargetsOf[s][i] : i \in DOMAIN TargetsOf[s]} : s \in Sinks}

Key(n, t) == IF FpOf[n.inc] = NoFp THEN Keyless ELSE <<FpOf[n.inc], t, n.status>>

ASSUME DeliveryAssumption ==
    /\ IsFiniteSet(Sinks)
    /\ Payloads \subseteq Seq(Notes) \ {<<>>}
    /\ \A s \in Sinks : TargetsOf[s] \in Seq(Targets) \ {<<>>}
    /\ \A n \in Notes, t \in Targets : FpOf[n.inc] # NoFp => Key(n, t) \in DedupKeys
    /\ LinkKeys = Incidents \X Targets
    /\ Messages = [req : Requests, inc : Incidents, target : Targets]
    /\ PartsOf \in [Statuses -> Nat \ {0}]
    /\ Unrenderable \subseteq Notes \X Sinks
    /\ Modes \subseteq {"new", "reply", "edit"}

\* No setting enforces this; the defaults are half a minute and an hour.
ASSUME BudgetAssumption == Budget \in Nat /\ Budget <= DedupTTL

VARIABLES
    mode,       \* resolve.mode, fixed at start
    req,        \* each request: state, payload, start, context, answer
    work,       \* each request's goroutine per sink
    chat,       \* every part the messengers confirmed
    rewritten   \* firing messages that now show the resolve

vars == <<now, seen, linked, links, mode, req, work, chat, rewritten>>

Holding == {"lookup", "send", "link", "rewrite"}

\* What deliverTarget keeps in local variables, as a target starts.
Clean == [part |-> 1, any |-> FALSE, bad |-> FALSE, form |-> "new",
          snap |-> <<>>, tried |-> 0, edited |-> 0]

Idle == [pc |-> "next", ni |-> 1, ti |-> 1, since |-> 0, att |-> 0, err |-> 0,
         cut |-> FALSE, got |-> {}, at |-> Clean]

NoRequest == [state |-> "idle", payload |-> <<>>, start |-> 0, alive |-> TRUE,
              ack |-> 0]

Init ==
    /\ now = 0
    /\ DedupInit
    /\ LogInit
    /\ mode \in Modes
    /\ req = [r \in Requests |-> NoRequest]
    /\ work = [r \in Requests |-> [s \in Sinks |-> Idle]]
    /\ chat = {}
    /\ rewritten = {}
-----------------------------------------------------------------------------
(* What a goroutine is looking at. *)

NoteOf(r, s) == req[r].payload[work[r][s].ni]
TargetOf(r, s) == TargetsOf[s][work[r][s].ti]
KeyNow(r, s) == Key(NoteOf(r, s), TargetOf(r, s))
LinkKeyNow(r, s) == <<NoteOf(r, s).inc, TargetOf(r, s)>>
MessageNow(r, s) == [req |-> r, inc |-> NoteOf(r, s).inc, target |-> TargetOf(r, s)]

Linkable(r, s) == mode # "new" /\ FpOf[NoteOf(r, s).inc] # NoFp

At(r, s, pc) == req[r].state = "running" /\ work[r][s].pc = pc

\* A reply is the compact resolve: one part.
PartCount(r, s) ==
    IF work[r][s].at.form = "reply" THEN 1 ELSE PartsOf[NoteOf(r, s).status]

Goroutine(r, s, w) == work' = [work EXCEPT ![r][s] = w]

\* deliverTarget returned true with this outcome: on to the next target, or
\* to the first target of the next note.
Settled(r, s, w, outcome) ==
    LET lastTarget == w.ti = Len(TargetsOf[s])
    IN [w EXCEPT !.pc = "next",
                 !.at = Clean,
                 !.since = 0,
                 !.got = @ \cup {[note |-> w.ni, target |-> TargetOf(r, s), as |-> outcome]},
                 !.ti = IF lastTarget THEN 1 ELSE @ + 1,
                 !.ni = IF lastTarget THEN @ + 1 ELSE @]

\* deliverTarget returned false, or the loop saw the context gone: the sink
\* stops and reports deadlineHit.
Stopped(w) == [w EXCEPT !.pc = "done", !.at = Clean, !.since = 0, !.cut = TRUE]

\* How the parts of a message fared.
Fared(at) == CASE ~at.bad -> "landed"
               [] at.bad /\ at.any -> "partial"
               [] OTHER -> "failed"
-----------------------------------------------------------------------------
(* deliverSink: the loops over notes and targets. *)

EndOfNotes(r, s) ==
    /\ At(r, s, "next")
    /\ work[r][s].ni > Len(req[r].payload)
    /\ Goroutine(r, s, [work[r][s] EXCEPT !.pc = "done"])
    /\ UNCHANGED <<seen, logVars, chat, rewritten>>

InLoop(r, s) == At(r, s, "next") /\ work[r][s].ni <= Len(req[r].payload)

OutOfBudget(r, s) ==
    /\ InLoop(r, s)
    /\ ~req[r].alive
    /\ Goroutine(r, s, Stopped(work[r][s]))
    /\ UNCHANGED <<seen, logVars, chat, rewritten>>

Renders(r, s) == <<NoteOf(r, s), s>> \notin Unrenderable

\* The note is counted once, whatever the number of targets.
RenderFails(r, s) ==
    /\ InLoop(r, s)
    /\ req[r].alive
    /\ ~Renders(r, s)
    /\ Goroutine(r, s, [work[r][s] EXCEPT !.err = @ + 1, !.att = @ + 1, !.ni = @ + 1])
    /\ UNCHANGED <<seen, logVars, chat, rewritten>>

SkipDuplicate(r, s) ==
    /\ InLoop(r, s)
    /\ req[r].alive
    /\ Renders(r, s)
    /\ Suppressed(KeyNow(r, s))
    /\ Goroutine(r, s, Settled(r, s, work[r][s], "skipped"))
    /\ UNCHANGED <<seen, logVars, chat, rewritten>>

StartTarget(r, s) ==
    /\ InLoop(r, s)
    /\ req[r].alive
    /\ Renders(r, s)
    /\ Reserve(KeyNow(r, s))
    /\ LET first == IF Linkable(r, s) /\ NoteOf(r, s).status = "resolved"
                    THEN "lookup" ELSE "send"
       IN Goroutine(r, s, [work[r][s] EXCEPT !.pc = first, !.since = now])
    /\ UNCHANGED <<logVars, chat, rewritten>>

\* messages.Get of a resolve.  In mode reply the resolve goes out first, in
\* mode edit the rewrite is the delivery.
FindsNewest(r, s) ==   \* mutant
    /\ At(r, s, "lookup")
    /\ \E msgs \in {EntryOf(links, k).msgs : k \in linked} :
        /\ LogHit(LinkKeyNow(r, s), msgs)
        /\ Goroutine(r, s,
             IF mode = "reply"
             THEN [work[r][s] EXCEPT !.pc = "send", !.at.form = "reply", !.at.snap = <<Last(msgs)>>]
             ELSE [work[r][s] EXCEPT !.pc = "rewrite", !.at.snap = <<Last(msgs)>>])
    /\ UNCHANGED <<seen, chat, rewritten>>

FindLink(r, s) ==
    /\ At(r, s, "lookup")
    /\ \E msgs \in {EntryOf(links, k).msgs : k \in linked} :
        /\ LogHit(LinkKeyNow(r, s), msgs)
        /\ Goroutine(r, s,
             IF mode = "reply"
             THEN [work[r][s] EXCEPT !.pc = "send", !.at.form = "reply", !.at.snap = msgs]
             ELSE [work[r][s] EXCEPT !.pc = "rewrite", !.at.snap = msgs])
    /\ UNCHANGED <<seen, chat, rewritten>>

NoLink(r, s) ==
    /\ At(r, s, "lookup")
    /\ LogMiss(LinkKeyNow(r, s))
    /\ Goroutine(r, s, [work[r][s] EXCEPT !.pc = "send"])
    /\ UNCHANGED <<seen, chat, rewritten>>
-----------------------------------------------------------------------------
(* sendParts. *)

NeverGivesBack(r, s, at) == UNCHANGED seen   \* mutant

GivesBackTorn(r, s, at) ==                   \* mutant
    IF at.bad THEN Forget(KeyNow(r, s)) ELSE UNCHANGED seen

\* A message of which nothing landed gives its reservation back.
GiveBack(r, s, at) == IF at.any THEN UNCHANGED seen ELSE Forget(KeyNow(r, s))

RewritesUnanswered(r, s, w) ==   \* mutant
    CASE w.at.form = "reply" -> [w EXCEPT !.pc = "rewrite"]
      [] w.at.form = "new" /\ NoteOf(r, s).status = "firing" /\ ~w.at.bad -> [w EXCEPT !.pc = "link"]
      [] OTHER -> Settled(r, s, w, Fared(w.at))

LinksTorn(r, s, w) ==            \* mutant
    IF NoteOf(r, s).status = "firing" /\ Linkable(r, s) /\ w.at.any
    THEN [w EXCEPT !.pc = "link"]
    ELSE Settled(r, s, w, Fared(w.at))

\* What follows the last part: a reply of which something landed is followed
\* by the rewrite, a complete firing message is linked.
Continue(r, s, w) ==
    CASE w.at.form = "reply" /\ w.at.any -> [w EXCEPT !.pc = "rewrite"]
      [] /\ w.at.form = "new"
         /\ NoteOf(r, s).status = "firing"
         /\ Linkable(r, s)
         /\ ~w.at.bad -> [w EXCEPT !.pc = "link"]
      [] OTHER -> Settled(r, s, w, Fared(w.at))

\* One part has an outcome; w is the goroutine with that outcome counted.
AfterPart(r, s, w) ==
    IF w.at.part < PartCount(r, s)
    THEN /\ Goroutine(r, s, [w EXCEPT !.at.part = @ + 1])
         /\ UNCHANGED seen
    ELSE /\ GiveBack(r, s, w.at)
         /\ Goroutine(r, s, Continue(r, s, w))

Landing(r, s, part) ==
    [req |-> r, note |-> NoteOf(r, s), target |-> TargetOf(r, s), part |-> part,
     since |-> work[r][s].since]

PartLands(r, s) ==
    /\ At(r, s, "send")
    /\ req[r].alive
    /\ AfterPart(r, s, [work[r][s] EXCEPT !.att = @ + 1, !.at.any = TRUE])
    /\ chat' = chat \cup {Landing(r, s, work[r][s].at.part)}
    /\ UNCHANGED <<logVars, rewritten>>

PartFails(r, s) ==
    /\ At(r, s, "send")
    /\ req[r].alive
    /\ AfterPart(r, s, [work[r][s] EXCEPT !.att = @ + 1, !.err = @ + 1, !.at.bad = TRUE])
    /\ UNCHANGED <<logVars, chat, rewritten>>

CanceledIsAnError(r, s) ==   \* mutant
    /\ At(r, s, "send")
    /\ GiveBack(r, s, work[r][s].at)
    /\ Goroutine(r, s, Stopped([work[r][s] EXCEPT !.err = @ + 1]))
    /\ UNCHANGED <<logVars, chat, rewritten>>

\* Canceled, or refused by the rate limiter because the wait would not fit
\* the budget: not an attempt, and the sink stops.
PartCanceled(r, s) ==
    /\ At(r, s, "send")
    /\ GiveBack(r, s, work[r][s].at)
    /\ Goroutine(r, s, Stopped(work[r][s]))
    /\ UNCHANGED <<logVars, chat, rewritten>>

\* messages.Add, once the whole firing message landed.
Link(r, s) ==
    /\ At(r, s, "link")
    /\ LogAdd(LinkKeyNow(r, s), MessageNow(r, s))
    /\ Goroutine(r, s, Settled(r, s, work[r][s], "landed"))
    /\ UNCHANGED <<seen, chat, rewritten>>
-----------------------------------------------------------------------------
(* deliverResolve and rewrite. *)

EditMessage(r, s) ==
    LET w == work[r][s] IN
    /\ At(r, s, "rewrite")
    /\ req[r].alive
    /\ w.at.tried < Len(w.at.snap)
    /\ \/ /\ rewritten' = rewritten \cup {w.at.snap[w.at.tried + 1]}
          /\ Goroutine(r, s, [w EXCEPT !.at.tried = @ + 1, !.at.edited = @ + 1])
          /\ chat' = IF mode = "edit" THEN chat \cup {Landing(r, s, 0)} ELSE chat
       \/ /\ Goroutine(r, s, [w EXCEPT !.at.tried = @ + 1])
          /\ UNCHANGED <<chat, rewritten>>
    /\ UNCHANGED <<seen, logVars>>

RewriteEnds(r, s) ==
    /\ At(r, s, "rewrite")
    /\ work[r][s].at.tried = Len(work[r][s].at.snap) \/ ~req[r].alive
    /\ UNCHANGED <<chat, rewritten>>

ReplyKeepsLink(r, s) ==   \* mutant
    /\ RewriteEnds(r, s)
    /\ mode = "reply"
    /\ Goroutine(r, s, Settled(r, s, work[r][s], Fared(work[r][s].at)))
    /\ UNCHANGED <<seen, logVars>>

\* Mode reply: the reply was the delivery, the link has served.
ReplyDone(r, s) ==
    /\ RewriteEnds(r, s)
    /\ mode = "reply"
    /\ LogDelete(LinkKeyNow(r, s))
    /\ Goroutine(r, s, Settled(r, s, work[r][s], Fared(work[r][s].at)))
    /\ UNCHANGED seen

\* Mode edit: at least one message shows the resolve.
EditDone(r, s) ==
    /\ RewriteEnds(r, s)
    /\ mode = "edit"
    /\ work[r][s].at.edited > 0
    /\ LogDelete(LinkKeyNow(r, s))
    /\ Goroutine(r, s, Settled(r, s, [work[r][s] EXCEPT !.att = @ + 1], "edited"))
    /\ UNCHANGED seen

EditOutOfBudget(r, s) ==
    /\ RewriteEnds(r, s)
    /\ mode = "edit"
    /\ work[r][s].at.edited = 0
    /\ ~req[r].alive
    /\ Forget(KeyNow(r, s))
    /\ Goroutine(r, s, Stopped(work[r][s]))
    /\ UNCHANGED logVars

\* No message could be edited: the resolve becomes a new message.
EditFallsBack(r, s) ==
    /\ RewriteEnds(r, s)
    /\ mode = "edit"
    /\ work[r][s].at.edited = 0
    /\ req[r].alive
    /\ LogDelete(LinkKeyNow(r, s))
    /\ Goroutine(r, s, [work[r][s] EXCEPT !.pc = "send", !.at = Clean])
    /\ UNCHANGED seen
-----------------------------------------------------------------------------
(* webhookHandler. *)

Arrive(r, p) ==
    /\ req[r].state = "idle"
    /\ req' = [req EXCEPT ![r] = [NoRequest EXCEPT !.state = "running", !.payload = p,
                                                   !.start = now]]
    /\ UNCHANGED <<now, seen, logVars, mode, work, chat, rewritten>>

\* The budget ends or the caller hangs up.
ContextEnds(r) ==
    /\ req[r].state = "running"
    /\ req[r].alive
    /\ req' = [req EXCEPT ![r].alive = FALSE]
    /\ UNCHANGED <<now, seen, logVars, mode, work, chat, rewritten>>

Attempts(r) == SumFunction([s \in Sinks |-> work[r][s].att])
Errors(r) == SumFunction([s \in Sinks |-> work[r][s].err])
DeadlineHit(r) == \E s \in Sinks : work[r][s].cut

AnyErrorFails(attempts, errors) ==   \* mutant
    IF attempts = 0 THEN 204 ELSE IF errors = 0 THEN 200 ELSE 500

ByCounts(attempts, errors) ==
    CASE attempts = 0 -> 204
      [] attempts > 0 /\ errors = 0 -> 200
      [] 0 < errors /\ errors < attempts -> 207
      [] OTHER -> 500

StatusBeforeDeadline(r) == ByCounts(Attempts(r), Errors(r))   \* mutant

Status(r) ==
    LET st == ByCounts(Attempts(r), Errors(r))
    IN IF DeadlineHit(r) /\ st \in {200, 204} THEN 207 ELSE st

\* Every sink is done: sum up and answer.  The goroutines are gone.
Answer(r) ==
    /\ req[r].state = "running"
    /\ \A s \in Sinks : work[r][s].pc = "done"
    /\ req' = [req EXCEPT ![r] = [NoRequest EXCEPT !.state = "answered", !.ack = Status(r),
                                                   !.payload = req[r].payload]]
    /\ work' = [work EXCEPT ![r] = [s \in Sinks |-> Idle]]
    /\ UNCHANGED <<now, seen, logVars, mode, chat, rewritten>>

\* Every call is bound by the request context: no request outlives its budget.
Tick ==
    /\ \A r \in Requests : req[r].state = "running" => now < req[r].start + Budget
    /\ Advance
    /\ UNCHANGED <<seen, logVars, mode, req, work, chat, rewritten>>

SweepSeen ==
    /\ DedupSweep
    /\ UNCHANGED <<now, logVars, mode, req, work, chat, rewritten>>

SinkStep(r, s) ==
    /\ \/ EndOfNotes(r, s) \/ OutOfBudget(r, s) \/ RenderFails(r, s)
       \/ SkipDuplicate(r, s) \/ StartTarget(r, s)
       \/ FindLink(r, s) \/ NoLink(r, s)
       \/ PartLands(r, s) \/ PartFails(r, s) \/ PartCanceled(r, s) \/ Link(r, s)
       \/ EditMessage(r, s) \/ ReplyDone(r, s) \/ EditDone(r, s)
       \/ EditOutOfBudget(r, s) \/ EditFallsBack(r, s)
    /\ UNCHANGED <<now, mode, req>>

Next ==
    \/ \E r \in Requests, p \in Payloads : Arrive(r, p)
    \/ \E r \in Requests : ContextEnds(r) \/ Answer(r)
    \/ \E r \in Requests, s \in Sinks : SinkStep(r, s)
    \/ Tick
    \/ SweepSeen

Spec == Init /\ [][Next]_vars
-----------------------------------------------------------------------------
(* What the webhook path promises. *)

States == {"idle", "running", "answered"}
Carried == Payloads \cup {<<>>}
Acks == {0, 200, 204, 207, 500}

Request == [state : States, payload : Carried, start : Nat, alive : BOOLEAN, ack : Acks]

Outcome == [note : Nat, target : Targets,
            as : {"landed", "partial", "failed", "skipped", "edited"}]

TargetLocals == [part : Nat, any : BOOLEAN, bad : BOOLEAN, form : {"new", "reply"},
                 snap : Seq(Messages), tried : Nat, edited : Nat]

Locals == [pc : Holding \cup {"next", "done"}, ni : Nat \ {0}, ti : Nat \ {0}, since : Nat,
           att : Nat, err : Nat, cut : BOOLEAN, got : SUBSET Outcome, at : TargetLocals]

Landings == [req : Requests, note : Notes, target : Targets, part : Nat, since : Nat]

\* Every variable has its type, and a goroutine never counts more errors than
\* attempts (what makes "errors < attempts" mean that something landed,
\* handlers.go:130-139).
TypeOK ==
    /\ now \in Nat
    /\ DedupTypeOK
    /\ LogTypeOK
    /\ mode \in Modes
    /\ req \in [Requests -> Request]
    /\ work \in [Requests -> [Sinks -> Locals]]
    /\ \A r \in Requests, s \in Sinks : work[r][s].err <= work[r][s].att
    /\ chat \subseteq Landings
    /\ rewritten \subseteq Messages

\* A goroutine between Reserve and its outcome holds the key it reserved.
Holds(r, s, k) ==
    /\ req[r].state = "running"
    /\ work[r][s].pc \in Holding
    /\ KeyNow(r, s) = k

LandingKey(c) == Key(c.note, c.target)

\* Two requests never deliver the same alert, target and status at the same
\* time (dedup.go:55-66: Reserve checks and records under one lock).
OneSenderPerKey ==
    \A k \in DedupKeys : \A r1, r2 \in Requests : \A s1, s2 \in Sinks :
        Holds(r1, s1, k) /\ Holds(r2, s2, k) => r1 = r2 /\ s1 = s2

\* "Callers that fail to deliver after a successful Reserve must call Forget
\* so retries are not suppressed" (dedup.go:53-54): a recorded key is being
\* delivered right now, or something of it landed under that reservation.
ReservationHasOwner ==
    \A k \in DedupKeys : seen[k] # Absent =>
        \/ \E r \in Requests, s \in Sinks : Holds(r, s, k) /\ work[r][s].since = seen[k]
        \/ \E c \in chat : LandingKey(c) = k /\ c.since = seen[k]

\* What a messenger confirmed is not sent again while its reservation lasts:
\* two requests that both landed parts of one key reserved it more than a
\* TTL apart (handlers.go:288-295).
NoConfirmedDuplicate ==
    \A c, d \in chat :
        /\ LandingKey(c) = LandingKey(d)
        /\ LandingKey(c) # Keyless
        /\ c.req # d.req
        => c.since - d.since > DedupTTL \/ d.since - c.since > DedupTTL

Quiet == \A r \in Requests : req[r].state # "running"

KeysOfRequest(r) ==
    {Key(req[r].payload[i], t) : i \in DOMAIN req[r].payload, t \in Targets} \ {Keyless}

Reassured(r) == req[r].state = "answered" /\ req[r].ack \in {200, 204}

\* Nothing is lost in silence: once no request is running, an alert that some
\* caller was told is delivered (200) or needs nothing (204) has landed, or
\* another caller that carried it was told otherwise.
EveryLossIsReported ==
    Quiet => \A r \in Requests : Reassured(r) =>
        \A k \in KeysOfRequest(r) :
            \/ \E c \in chat : LandingKey(c) = k
            \/ \E q \in Requests : /\ req[q].state = "answered" /\ ~Reassured(q)
                                   /\ k \in KeysOfRequest(q)

Sent(r) == {c \in chat : c.req = r}

\* What Status(r) says of the request is so.
Truthful(r) ==
    LET got == UNION {work[r][s].got : s \in Sinks} IN
    /\ Status(r) \in {200, 204} =>
         \A i \in DOMAIN req[r].payload, t \in Targets :
            \E g \in got : /\ g.note = i /\ g.target = t
                           /\ g.as \in {"landed", "edited", "skipped"}
    /\ Status(r) = 200 => Sent(r) # {}
    /\ Status(r) \in {204, 500} => Sent(r) = {}

\* The status says what happened (handlers.go:124-148): 200 and 204 only when
\* every note was settled on every target of every sink without loss, 204
\* only when nothing was sent, and 500 only when nothing landed.
AnswerMatchesOutcome == [][\A r \in Requests : Answer(r) => Truthful(r)]_vars

\* Only a firing message that landed in full is linked, so a resolve never
\* answers or rewrites a torn one (handlers.go:296-300).
LinkedWereDelivered ==
    \A i \in DOMAIN links : \A j \in DOMAIN links[i].msgs :
        LET m == links[i].msgs[j] IN
        /\ <<m.inc, m.target>> = links[i].key
        /\ \A p \in 1 .. PartsOf["firing"] :
             \E c \in Sent(m.req) : /\ c.part = p /\ c.target = m.target
                                    /\ c.note = [status |-> "firing", inc |-> m.inc]

\* A message that shows its resolve is no longer linked, except while the
\* resolve that rewrote it is still at work: no later resolve answers it.
RewrittenAreUnlinked ==
    \A i \in DOMAIN links : \A j \in DOMAIN links[i].msgs :
        links[i].msgs[j] \in rewritten =>
            \E r \in Requests, s \in Sinks :
                At(r, s, "rewrite") /\ LinkKeyNow(r, s) = links[i].key

\* The link of incident k has served, or gives way to another incident's.
LinkMayGo(k) ==
    \/ linked' \ linked # {}
    \/ \E r \in Requests, s \in Sinks :
        /\ At(r, s, "rewrite")
        /\ LinkKeyNow(r, s) = k
        /\ Landing(r, s, 1) \in chat

\* "nothing landed: keep the link for the caller's retry" (handlers.go:332):
\* in mode reply a live link goes only with the request whose own reply
\* landed, or evicted by the message of another incident.
LinkWaitsForReply ==
    [][mode = "reply" =>
        \A k \in LinkKeys : LinkLive(k) /\ k \notin linked' => LinkMayGo(k)]_vars

\* The messages a resolve found, and whether it is still at work on them.
Found(r, s) == Range(work[r][s].at.snap)
Resolving(r, s) == At(r, s, "rewrite") \/ (At(r, s, "send") /\ work[r][s].at.form = "reply")

LinkedAt(k) == UNION {Range(links[i].msgs) : i \in {j \in DOMAIN links : links[j].key = k}}

\* A resolve deletes no link of a message it has not found, but for messages of
\* requests that ran beside it: each was reserved no more than a request's
\* budget before the resolve (handlers.go:232-234, 338-339).
OnlyLatecomersAreMissed ==
    \A r \in Requests, s \in Sinks : Resolving(r, s) =>
        \A m \in LinkedAt(LinkKeyNow(r, s)) \ Found(r, s) :
            \E c \in Sent(m.req) : /\ c.target = m.target
                                   /\ c.note = [status |-> "firing", inc |-> m.inc]
                                   /\ c.since + Budget >= work[r][s].since

\* Who delivers k.
Owners(k) == {h \in Requests \X Sinks : Holds(h[1], h[2], k)}

\* What the cache, the goroutines and the chat amount to.
HeldBy == [k \in DedupKeys |-> Owners(k)]
LeasedSince == [k \in DedupKeys |-> IF Suppressed(k) THEN seen[k] ELSE Absent]
LandedUnder == {<<LandingKey(c), c.since>> : c \in {d \in chat : LandingKey(d) # Keyless}}

Promise == INSTANCE Leases
    WITH Keys <- DedupKeys, Holders <- Requests \X Sinks, Period <- DedupTTL,
         held <- HeldBy, since <- LeasedSince, landed <- LandedUnder, time <- now

\* The cache leases a delivery (dedup.go:51-76, handlers.go:221, 264, 292-296):
\* one goroutine at a time has it, no TTL takes it from a goroutine at work, it
\* stays for its TTL if anything landed, and goes at once if nothing did.
KeepsLeases == Promise!Spec
-----------------------------------------------------------------------------
(* What the documentation promises and the code does not keep. *)

\* "All parts delivered -> reservation is kept -> next identical webhook
\* within TTL is dropped, returns 204" (README.md:418), 204 being "nothing to
\* send" (README.md:172): once no request is running, what was answered 204
\* is in the chat.
NothingToSendWasDelivered ==
    Quiet => \A r \in Requests : req[r].ack = 204 =>
        \A k \in KeysOfRequest(r) : \E c \in chat : LandingKey(c) = k

ShownAs(n) == {c \in chat : c.note = n}

\* "a re-fire after the resolve is a new incident with a new message"
\* (README.md:403): once an incident has its firing message and its resolve
\* in the chat, a firing note of another incident is not skipped before a
\* message of its own is there.
RefireHasMessage ==
    [][\A r \in Requests, s \in Sinks : SkipDuplicate(r, s) =>
        LET n == NoteOf(r, s) IN
        \A j \in Incidents \ {n.inc} :
            /\ n.status = "firing"
            /\ ShownAs([status |-> "firing", inc |-> j]) # {}
            /\ ShownAs([status |-> "resolved", inc |-> j]) # {}
            => ShownAs(n) # {}]_vars
=============================================================================
