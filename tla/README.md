# alertly in TLA+

alertly receives webhooks (Alertmanager, Kubewatch, generic JSON), turns them
into notifications and delivers each to Telegram and Slack. Messages may carry
buttons that silence the alert in Alertmanager. Everything alertly knows is kept
in memory, in a few small stores that many goroutines share. This directory
models those stores, the webhook path, the life of a message with buttons, the two
sources of button presses, and the clients that talk to the messengers. TLC checks
the models on small instances; TLAPS proves their safety properties for every value of the
constants.

Paths below are relative to `src/internal/` unless they start with `cmd/`.

## 1. Inventory

| Component | State | Operations | Talks to |
|---|---|---|---|
| Webhook delivery, `server/handlers.go`, `server/middleware.go` | per request: context with a budget; per sink and request a goroutine with counters `attempts`, `errors`, `deadlineHit` | `webhookHandler`, `deliver`, `deliverSink`, `deliverTarget`, `sendParts`, `deliverResolve`, `rewrite`, `call` | dedup, message log, sinks, button trackers |
| Dedup cache, `dedup/dedup.go` | map from key to the time of its reservation | `Reserve`, `Forget`, `Sweep` | webhook delivery |
| Resolve message log, `server/resolve.go` | map and insertion list of incident links, each with the last 5 messages | `Add`, `Get`, `Delete`, `pruneLocked` | webhook delivery |
| Button tracker (used twice: silence, undo), `server/button_tracker.go` | map and insertion list of messages with buttons | `RegisterMessage`, `Entry`, `ConsumeRef`, `ForgetRef`, `Sweep`; `ButtonSweeper.Run` | webhook delivery, press handler |
| Press handler, `server/callback.go` | none of its own; a copy of one tracker entry per press | `HandleInteraction`, `handleUndo` | trackers, Alertmanager client, label cache, sinks |
| Alertmanager client, `alertmanager/client.go` | none | `CreateSilence`, `DeleteSilence`, queries, `doWithRetry` | Alertmanager |
| Label cache, `alertmanager/cache.go` | map and insertion list of label sets | `Put`, `Get` | webhook delivery, press handler |
| Telegram poller, `server/updates.go`, `telegram/updates.go` | offset, streak of 409 conflicts | `Run`, `dispatch`, `reportConflict` | Telegram, press handler, commands |
| Slack Socket Mode, `slack/socket.go`, `server/slack_interactive.go` | a queue of 64 envelopes, one worker | `Run`, `serve`, `interactive`, `slashCommand` | Slack, press handler |
| Telegram client, `telegram/client.go`, `retry.go`, `ratelimit.go`, `sink.go` | global and per-chat rate limiters | `SendMessage`, edits, `GetMe`, `callWithRetry`, `Classify` | Telegram, readiness |
| Telegram splitter, `telegram/splitter.go` | none (pure) | `SplitMessage`, `safeCut`, `scanTags` | webhook delivery |
| Slack client, `slack/client.go`, `ratelimit.go`, `sink.go` | global and per-channel rate limiters | sends, edits, `AuthTest`, `Respond`, `callWithRetry` | Slack, readiness |
| Readiness, `server/readyz.go`, `sinkHealthLoop` | per sink: ready or not, consecutive server errors; per loop: failed probes, `everReady`, backoff | `RecordSendSuccess`, `RecordSendFailure`, `MarkReady`, `MarkUnready`, probe, `SinkReadiness` | webhook delivery, health loop |
| Startup and shutdown, `cmd/alertly/main.go`, `slack.go`, `server/server.go` | root context, wait group of workers | `run`, `setupUpdates`, `sinkHealthLoop` | all |
| Status and commands, `server/status.go`, `message.go`, `activity.go` | last activity times | read-only views | trackers, Alertmanager |
| Routing and auth, `server/chats.go`, `cluster.go` | none | parsing of targets and tokens | webhook delivery |
| Sources, templates, `source/*`, `template/*` | none | payload to notifications, notification to text | webhook delivery |
| Configuration, metrics | read once; write-only counters | | all |

### What is hard here

* **Interleaving.** net/http serves requests concurrently, a request runs a
  goroutine per messenger, and one press worker and two sweepers edit the same
  messages. The mutexes protect single map operations only; every decision that
  spans a messenger call works on something read before it.
* **Partial failure.** A message is several parts, a note several targets, a
  request several messengers; each call can fail by itself, and one status code
  sums it up for a caller that retries.
* **Timeouts and retries.** The budget of a request can end between any two
  calls. Alertmanager and Telegram deliver again what they have seen no answer
  to, and alertly itself repeats `CreateSilence`.
* **Ordering.** The stores' clean-up stops at the first live entry, so it relies
  on insertion order being expiry order after every refresh and eviction.
* **Overlapping pods.** A rolling update runs two pods for a while: two pollers of one bot,
  two sockets of one app. A signal cuts off the press that is being handled.
* **Silent failures.** A half-open connection and a messenger that never answers
  produce no error of their own.
* **Restarts.** Nothing is persisted, while messages with buttons stay on
  screen and queued presses come back.

What makes each component correct:

* *dedup*: a key is reserved by one request at a time; a reservation stays if
  and only if something of the message landed; a confirmed delivery is not
  repeated within the TTL.
* *webhook delivery*: no loss is hidden from every caller; the status says what
  happened; only whole messages are linked; a link goes when it has served and
  not before.
* *stores*: map and list agree; the list is sorted by expiry and bounded; a
  sweep takes everything expired; nothing live leaves without a cause.
* *buttons*: nobody silences twice; a resolved message takes no silence; an
  honest press is not refused; no button is left without an owner; every press
  is answered; every button goes.
* *label cache*: whoever presses a working button finds the labels of the alert.
* *press sources*: Telegram is told that an update is done only when it is; a pod handles an
  update once; every update is handled, every envelope acknowledged, at last.
* *clients*: a call ends; requests to a chat, retries included, keep its rate limit.
* *readiness*: only real trouble makes a sink unready; no sink stays locked out, and none
  stays ready, against what its messenger does.
* *splitter*: every part fits, is well-formed, and together they show the whole text.

## 2. Modules

| Module | Models | Main correspondence |
|---|---|---|
| `ExpiryList` | the `container/list` idiom of three stores | `Without` = `order.Remove`, `WalkRemoves` = a loop that removes from the front until the first live entry, `Surplus` = the eviction loop |
| `Clock` | `time.Now`, behind the stores' `now` field | `Advance` |
| `ButtonTracker` | `server/button_tracker.go`, the store | `index` = keys of `entries`, `order` = `order` |
| `Deadlines` | what the tracker promises its callers, abstractly | `Kept`, in `ButtonTracker`, is the mapping |
| `ExpiryListProofs`, `ButtonTrackerProofs` | lemmas about the lists, the tracker's theorems | |
| `Dedup` | `dedup/dedup.go` | `seen` = `items`; `Suppressed` / `Reserve` are the two answers of `Reserve` |
| `Leases` | what the dedup cache and its users promise together, abstractly | `HeldBy`, `LeasedSince`, `LandedUnder`, in `Delivery`, are the mapping |
| `MessageLog` | `server/resolve.go` | `linked` = keys of `entries`, `links` = `order` |
| `Delivery` | `server/handlers.go`; extends `Dedup` and `MessageLog` | `req` = a request, `work[r][s]` = the goroutine of request `r` for sink `s` with its local variables, one action per step between two calls |
| `DeliveryProofs`, `DeliveryOutcomeProofs` | the theorems about the log, the reservations and the outcome of requests | |
| `Interactive` | `server/callback.go`, both sweepers and the webhook side of a message with buttons; two instances of `ButtonTracker` | `screen` = what a message shows, `worker` = the press handler, `swept` = what a sweeper popped and has not edited yet |
| `InteractiveProofs` | the theorems about the buttons | |
| `LabelCache` | `alertmanager/cache.go`, on `ExpiryList` | `labels` = `order` with its entries; `evicted` is history |
| `ButtonMessages` | how a message gets its buttons: `keyboard.Build`, the send, `RegisterMessage`, the press; extends `ButtonTracker` and `LabelCache` | `outgoing` = the alert whose message is between `Build` and `RegisterMessage` |
| `ButtonMessagesProofs` | the theorems about tracker and cache together | |
| `PodLife` | the process of `cmd/alertly/main.go` (`run`) and of the pods after it | `pod[p]`; "stopping" = `rootCtx` is done |
| `UpdatesPoller` | `server/updates.go`, `telegram/updates.go` (`GetUpdates`), and Telegram's queue; extends `PodLife` | `poller[p]` = the loop with its `offset` and batch; `confirmed` = what Telegram has forgotten |
| `SlackSocket` | `slack/socket.go`, `server/slack_interactive.go` (`dispatch`), and Slack's redelivery; extends `PodLife` | `reader[p]`, `hand[p]` = the two goroutines of `Run`, `inbox[p]` = the channel between them, `link[p]` = the websocket |
| `PressSources` | the two sources in the pods of one deployment | the worker that `setupUpdates` builds, `wg.Wait` and the shutdown |
| `PressSourcesProofs` | the lemmas about each source and the theorems about both | |
| `RetryingClient` | `callWithRetry`, `callOnce`, the limiters and `Classify` of both messengers | `call[c]` = the call of goroutine `c`: attempt, time left, timer; `globalNext`, `chatNext` = the limiters |
| `Readiness` | `server/readyz.go` (one sink) and `sinkHealthLoop` | `ready`, `consecFails` = the tracker; `loop` = the locals of the loop |
| `Splitter` | `telegram/splitter.go` | `text`, `open`, `parts` = `text`, `open`, `out` of `SplitMessage` |
| `Messenger` | one sink: `Render`, the callers, the limiters, the tracker and the health loop; extends the three above | `Reports` = `send` and `call` of `server/handlers.go` |
| `MessengerProofs` | the theorems about calls, limiters and readiness, and about the splitter | |

`MC*` modules and `.cfg` files give the constants values. In the modules a
definition marked `mutant` is a deliberately wrong variant of the definition
after it; it is used nowhere.

### The granularity of actions

One action is one critical section of a store, or one call to a messenger or to
Alertmanager with the local computation up to the next such point. Between them
everything interleaves. `Reserve`, `Add`, `Get`, `Delete`, `Sweep` and the
tracker operations hold a mutex from beginning to end in the code and are single
actions (in `Delivery`, the `Forget` that follows the last part is joined to that part's
outcome: nobody else can use the key in between).

### Abstractions

* A note is a status and an incident; an incident has a fingerprint, or none.
  Rendering either fails or gives a message of `PartsOf[status]` parts; the
  compact resolve that mode `reply` sends has one part.
* A messenger call lands, fails or is canceled. A call whose answer got lost is
  a failed call: `NoConfirmedDuplicate` therefore speaks of what a
  messenger *confirmed*, as the code can only know that.
* A disabled dedup cache is the behaviour of the key `Keyless`. A dry run, whose
  message ids are "0" and never linked or registered, is not modelled.
* A canceled call and a call refused by the rate limiter because it
  would wait past the deadline are both `PartCanceled`.
* `Interactive` has one messenger, messages of one part, and one refusal for
  everything a press can be refused for before Alertmanager is asked (allowlists,
  mismatching ids, unknown labels or durations). A Slack press that is dropped as the
  queue is full is a press that was never made.
* **Press sources.** A handler either returns (its calls end, or its timeout does), or panics;
  under a canceled context its calls fail, so what it worked on does not count as handled.
  Backoffs are steps without a length. `trouble` is a network that may fail
  at any step, until it calms down. On a silent link a write succeeds and reaches nobody, so a
  Slack acknowledgement may be lost and the envelope come again; a silent link carries
  nothing in either direction. `Interactive`'s restart redelivers the press at work only;
  that the whole unconfirmed batch comes back is what `PressSources` shows.
* **Clients.** Time is counted in ticks; a timer that has ended is acted on before time goes
  on, and a messenger that is up answers in time. The limiters have burst 1: for the chat this is
  the code's default, the global limiter's burst is one second's worth. The context
  of a call may be canceled at any time. A caller makes its next call in a later tick, so that
  nobody calls infinitely often in no time. A body that cannot be decoded is a
  server error like any other.
* **Splitter.** A text is a sequence of tokens, a character or a whole tag. Tags have no
  attributes, entities are plain characters, and angle brackets that belong to no tag do not
  occur. No cut has less room than the tag it meets (`RoomForTags`, in `PartsFit`), so a
  cut never lands inside one. Parts that consist of blanks or tags alone are not
  excluded by any property.
* **Labels.** The labels of an alert never change; the cluster part of the key is left out;
  Alertmanager's own answer, which the press handler prefers, is not modelled, as the question is
  what the cache promises when it has none.
* An edit that is applied although its answer got lost, and then repeated, is not modelled.

## 3. What the runs check

| Run | Instance | Question |
|---|---|---|
| `tracker` (`MCButtonTracker`) | 3 messages of 3 alerts, room for 2 messages and for the labels of 2 alerts, TTL 2 | the store, with eviction, refresh, consumption at every instant of a window, beside the label cache |
| `delivery` (`MCDelivery`) | 3 requests, 1 messenger, 2-part firing message, mode `reply` | firing, repeat, retry and resolve of one alert in every interleaving |
| `fanout` (`MCFanout`) | 1 request of up to 3 notes, 2 messengers, modes `new`, `reply`, `edit`, one note that fails to render | how outcomes of several messengers are summed up; which messages are linked |
| `interactive` (`MCInteractive`) | 1 message, 2 presses, 3 silences, 1 restart; Slack with and without undo, Telegram with undo | presses, sweeps, resolve, restart on the same message |
| `press_sources` (`MCPressSources`) | 2 pods; 3 updates in batches of 2, one of which panics; 2 envelopes one pod after the other, or 1 with overlapping pods, queue of 1 | conflicts, lost answers, silent links, signals and kills around the handling of a press |
| `messenger` (`MCMessenger`) | 3 attempts; 2 Telegram senders on one chat; a Slack sender with time for the last attempt; a Slack sender beside the health loop; texts of up to 3 parts with up to 2 tags open | rate limits, retries, deadlines, readiness; cutting |
| `hung` (`MCMessenger`) | as above | where the code disagrees with its comments (section 5) |
| `refire`, `in_flight`, `resolved_stays`, `undo_stays`, `undone` | as above | where the code and its documentation disagree (section 5) |

**`tracker`.** `StoreConsistent` and the bound in `TypeOK` are
what the four operations must keep together. `KeepsDeadlines` is the abstract
specification `Deadlines`, as a property; it says that the early stop of a sweep is sound (nothing
expired stays), and `LiveLeavesOnlyConsumedOrOldest`, of single steps, that it is not too greedy,
`EventuallyReleased` that no message keeps its place for ever. The label cache differs from
the other stores: a refresh leaves an entry at its place, and nothing sweeps. `ButtonsHaveLabels`
says that this is good enough for its purpose, overflow excepted, and `LabelsLeaveInTurn` that
the overflow is the only exception and takes the oldest insertion. It assumes
`LabelTTL >= TTL`, as the defaults (48 h and 8 h) have it; the configuration requires of
either only that it is positive.

**`delivery`.** `KeepsLeases` is the abstract specification `Leases`, as a property: a key is
leased to one goroutine at a time, no TTL and no sweep takes it from a goroutine at work, and what
is left when that goroutine is done depends on what landed. It is the reason for the single lock in
`Reserve`, and implies `OneSenderPerKey`, which the module states for its proof.
`ReservationHasOwner` says that a reservation left behind stands for something
that landed, so a retry is never suppressed for nothing; with it,
`NoConfirmedDuplicate` says the opposite: what landed is not sent twice.
`EveryLossIsReported` is the promise to callers as a whole: with any number
of skipped repeats, canceled contexts and torn messages, an alert that never got
to the chat is known to *some* caller as undelivered. `RewrittenAreUnlinked` and
`LinkWaitsForReply` bracket the life of a link from both ends; `OnlyLatecomersAreMissed` says that
a resolve has found what it unlinks, save for messages whose requests ran beside it.

**`fanout`.** `AnswerMatchesOutcome` relates the status to what every
goroutine did with every note and target; `LinkedWereDelivered` looks into the log.
`LogConsistent` is the store invariant of the log as the webhook path uses it.

**`interactive`.** `NobodySilencesTwice`, `ResolvedTakesNoSilence`,
`HonestPressesMatch` and `NoStrandedButton` are the promises of the buttons;
`NoStrandedButton` has the exceptions the code has (a failed edit, an eviction, a restart).
`PressesAreAnswered` and `ButtonsGoEventually` need the whole chain of retries,
budgets and sweeps to end.

**`press_sources`.** `ConfirmedWereHandled` is why the loop looks at its context before it
polls, and only there: the offset it would send has moved past the update that was cut off.
`OncePerPod` is the other side of the offset. `UpdatesAreHandled` says that together they
deliver everything at least once, with `EnvelopesAreAcked` for the connection of
Slack, where nothing but the ping ends a silent link. Slack gives less:
`AckedAreAccountedFor` says that an envelope that will not be sent again is in the queue, in a
goroutine's hands, or done; what a full queue drops, and what a pod takes with it, is lost.

**`messenger`.** `QuotaKept` measures the requests themselves, not the limiter.
`UnreadyNeedsTrouble` is about what must not count: 4xx, 429, refusals of the limiter, callers
that give up. `ReadyAgain` and `UnreadyAtLast` say that readiness follows the messenger at
last, from every state the calls and probes can leave behind; `ReadyAgain` needs that a
probe clears an unreadiness the senders caused. `CallsEnd` covers every wait of a call. `PartsFit`,
`PartsBalanced` and `NothingLost` compare the parts with the text by definitions of their
own (`Balanced`, `Styled`) that know nothing of how cuts are made.

### Bounds, and why they are enough

* `MaxTime` bounds the clock. Windows are 1 or 2 ticks long, so "just before", "at" and
  "after" the end of a window all occur; `Register` and `Send` only start what
  can end before the clock stops, which keeps the liveness properties honest.
* `Requests`: three are needed for a delivery, its concurrent repeat and a resolve or a
  retry; two keep the violations short. The messages of `LinkMax = 1`,
  `MaxPerAlert = 1` and `MaxEntries = 1 or 2` make every eviction path happen; in `delivery`
  `MaxPerAlert = 2`, so that a resolve finds several messages of its incident.
* `MaxPresses = 2` gives two presses queued at once; `Attempts = 2` one
  retry; `MaxSilences = 3` what two presses can create with one retry each, less one.
* `press_sources`: two pods are one rolling update or one restart, the most that overlaps. Three
  updates in batches of two make a batch in which one update is done and one is not,
  and one that needs a second poll; a queue of one is full at once. The pod that comes last is
  neither stopped nor killed, for else nothing would have to happen. Each deployment has one
  source of presses; the two share no state but the process.
* `messenger`: `Window`, `Threshold` of 2 and 3 attempts make "the last but one" and "the last"
  differ. A budget of 4 lets the margin stop a retry, one of 6 lets the last attempt happen.
  Retry-After of 3 exceeds `MaxBackoff`. `Limit` 24, with words of eight characters and runs of
  four emoji, puts cuts into words, emoji, blanks and tags. Texts are cut in a setup without
  senders and calls run without texts: rendering shares no state with the calls, as in
  the code, where a note is rendered before its first part is sent.
* Symmetry is used for the requests, in runs without liveness properties only.

Three assumptions are about settings and are not enforced by the configuration:
`Budget <= DedupTTL` (half a minute and an hour by default),
`HandleTimeout < UndoWindow` (15 s and 5 min), and `LabelTTL >= TTL`. With a dedup TTL shorter than a
request, `KeepsLeases` and `OneSenderPerKey` are false: `Reserve` would hand out a key that
is still being delivered.

### Fairness

`ButtonMessages` (like `ButtonTracker` alone) assumes that time passes and that the sweeper's ticker keeps firing.
`Interactive` assumes the same for both sweepers, for the press worker, and
for a webhook goroutine that has begun its work on a message: each of these is a
goroutine that the Go scheduler runs, and all of their calls carry a deadline. Nothing is
assumed about users, callers, resolves, restarts or messengers: presses may
never come and calls may fail for ever. `Delivery` is checked for safety only.

In `ButtonMessages` time stands still while a message is being sent (a tick is hours, a send
seconds), hence `SF` for `Ticks`, and a send ends in one way or the other, hence `WF` for its
outcomes. `PressSources` assumes that the goroutines of a pod run, that a pod that is gone is
replaced, and that the network calms down at last. Nobody has to signal, kill, press or send. Two
assumptions are strong: an `Answered` poll, as two overlapping pods refuse each other
again and again until one of them stops; and `Receive`, as Slack sends again what it has no acknowledgement for,
whenever there is an open connection. `Messenger` assumes that timers run and
goroutines go on; nobody has to begin a call, and the messenger owes nothing. `ReadyAgain`
and `UnreadyAtLast` are conditional on what the messenger does for good.

## 4. What is model-checked only

* Liveness (`EventuallyReleased`, `PressesAreAnswered`, `ButtonsGoEventually`,
  `UpdatesAreHandled`, `EnvelopesAreAcked`, `CallsEnd`, `ReadyAgain`, `UnreadyAtLast`) and
  everything about `ENABLED` is out of the proof system's reach.
* `PartsFit` has a theorem for markup that the reserved slack covers (section 6). Where tags
  nest deeper, a part may need the refinement loop, and whether its few rounds are enough depends
  on numbers the code only bounds. Run `messenger` has both kinds of texts: a slack of
  6 units covers one closing tag and not two, so a text that opens two tags before a cut is
  cut again.

Every other property of a passing run has a theorem without such a condition.

## 5. Where the code and its documentation disagree

* **A re-fire within the dedup TTL is dropped** (`refire`). The dedup key has no start time,
  so after fire and resolve the next incident's firing note meets the reservation of
  the previous one. `README.md:403` promises a new message.
* **204 for an alert that is nowhere** (`in_flight`). A repeat that arrives during the
  first delivery is told 204, then the first delivery fails. `README.md:418` describes
  204 for a delivery that was complete. `EveryLossIsReported` still holds: the first
  caller hears of the failure.
* **A resolved message turns back** (`resolved_stays`). On Slack the sweeper's late
  `SetActions` resends the firing body over a resolve that came between `Sweep` and
  the edit; `button_tracker.go:189-190` says this does not happen.
* **A second press removes Undo** (`undo_stays`). Two presses queued together: the second
  takes the path of an expired message and strips the fresh Undo button.
* **"Alert will notify again" while a silence is active** (`undone`). A repeated
  `CreateSilence` leaves a second silence that Undo does not know.
* **A messenger that hangs is never noticed by the senders** (`hung`). A request that
  runs into the HTTP client's timeout yields an error that `Is` `context.DeadlineExceeded`. `Classify`
  takes it for "our own deadline or shutdown", so the call does not count as an attempt, and the failure
  not towards unreadiness, while `IsRetryable` calls the same error "network".
  Only the probes, which count every error, make the sink unready (`UnreadyAtLast`).

Smaller ones that no run is about:

* `cmd/alertly/main.go:221-223` says that the shutdown waits "so a callback that is
  mid-CreateSilence can finish". The signal has canceled `rootCtx` by then, which is the context
  of that callback: it is cut off, and on Telegram comes back to the next pod
  (`ConfirmedWereHandled`), on Slack it is lost.
* A probe whose attempts are all answered with 429 has failed, and three of them make a sink unready,
  though `sink/sink.go:77` calls 429 "backpressure, not an outage".
* `server/handlers.go:313-315` says that after the reply "every firing message is rewritten". A repeat
  whose message is linked between `Get` (233) and `Delete` (339) loses its link unrewritten, and
  keeps its firing text. `OnlyLatecomersAreMissed` says that a resolve finds all others.
* The margin before the deadline (`retrySafetyMargin`) is kept for the sleep of a retry, not for
  the wait of the limiters after it; and Retry-After is cut to `MaxBackoff`.

## 6. What is proved

The theorems hold for every value of the constants that satisfies the named
assumptions of the modules: windows and intervals are positive, the list of targets of a
messenger is not empty, there are finitely many messengers, a queue has room for one
envelope, a note with a fingerprint has a dedup key, and the three settings of section 3
(`BudgetAssumption`, the first line of `InteractiveAssumption`, `MessagesAssumption`). None of
them bounds how many requests, goroutines, messages, presses, pods, updates or callers there
are, or how long a text is. `MessengerPartsFit` alone has a hypothesis of its own,
`SlackSuffices`.

| Theorem | Property | Module |
|---|---|---|
| `TrackerTypeOK` | `TypeOK` | `ButtonTrackerProofs` |
| `TrackerStoreConsistent` | `StoreConsistent` | `ButtonTrackerProofs` |
| `TrackerSweepTakesAllExpired` | `SweepTakesAllExpired`, which `KeepsDeadlines` implies | `ButtonTrackerProofs` |
| `TrackerLiveLeavesOnlyConsumedOrOldest` | `LiveLeavesOnlyConsumedOrOldest` | `ButtonTrackerProofs` |
| `TrackerKeepsDeadlines`, `TrackerAnswersAsPromised` | `KeepsDeadlines`; what lookups answer | `ButtonTrackerProofs` |
| `MessagesKeepDeadlines` | `KeepsDeadlines` | `ButtonMessagesProofs` |
| `MessagesButtonsHaveLabels` | `ButtonsHaveLabels` | `ButtonMessagesProofs` |
| `MessagesLabelsLeaveInTurn` | `LabelsLeaveInTurn` | `ButtonMessagesProofs` |
| `DeliveryTypeOK` | `TypeOK` | `DeliveryProofs` |
| `DeliveryLogConsistent` | `LogConsistent` | `DeliveryProofs` |
| `DeliveryOneSenderPerKey` | `OneSenderPerKey`, which `KeepsLeases` implies | `DeliveryProofs` |
| `DeliveryReservationHasOwner` | `ReservationHasOwner` | `DeliveryProofs` |
| `DeliveryKeepsLeases` | `KeepsLeases` | `DeliveryOutcomeProofs` |
| `DeliveryNoConfirmedDuplicate` | `NoConfirmedDuplicate` | `DeliveryOutcomeProofs` |
| `DeliveryEveryLossIsReported` | `EveryLossIsReported` | `DeliveryOutcomeProofs` |
| `DeliveryAnswerMatchesOutcome` | `AnswerMatchesOutcome` | `DeliveryOutcomeProofs` |
| `DeliveryLinkedWereDelivered` | `LinkedWereDelivered` | `DeliveryOutcomeProofs` |
| `DeliveryRewrittenAreUnlinked` | `RewrittenAreUnlinked` | `DeliveryOutcomeProofs` |
| `DeliveryOnlyLatecomersAreMissed` | `OnlyLatecomersAreMissed` | `DeliveryOutcomeProofs` |
| `DeliveryLinkWaitsForReply` | `LinkWaitsForReply` | `DeliveryOutcomeProofs` |
| `InteractiveTypeOK` | `TypeOK` | `InteractiveProofs` |
| `InteractiveNobodySilencesTwice` | `NobodySilencesTwice` | `InteractiveProofs` |
| `InteractiveResolvedTakesNoSilence` | `ResolvedTakesNoSilence` | `InteractiveProofs` |
| `InteractiveHonestPressesMatch` | `HonestPressesMatch` | `InteractiveProofs` |
| `InteractiveNoStrandedButton` | `NoStrandedButton` | `InteractiveProofs` |
| `PressSourcesTypeOK` | `TypeOK` | `PressSourcesProofs` |
| `PressSourcesConfirmedWereHandled` | `ConfirmedWereHandled` | `PressSourcesProofs` |
| `PressSourcesOncePerPod` | `OncePerPod` | `PressSourcesProofs` |
| `PressSourcesAckedAreAccountedFor` | `AckedAreAccountedFor` | `PressSourcesProofs` |
| `MessengerTypeOK` | `TypeOK` | `MessengerProofs` |
| `MessengerQuotaKept` | `QuotaKept` | `MessengerProofs` |
| `MessengerUnreadyNeedsTrouble` | `UnreadyNeedsTrouble` | `MessengerProofs` |
| `MessengerNothingLost` | `NothingLost` | `MessengerProofs` |
| `MessengerPartsBalanced` | `PartsBalanced` | `MessengerProofs` |
| `MessengerPartsFit` | `PartsFit`, under `SlackSuffices` | `MessengerProofs` |

**The list** (`ExpiryListProofs`). `Sound(list, b)` says that keys are distinct, the list is
in expiry order, and nothing in it expires after `b`. Lemmas show that each of the
ways the stores change a list (remove one, drop a prefix, append an entry that expires at `b`)
keeps it sound, and what it does to the key set and the length. `SurplusBound` is the
arithmetic of the eviction loop, and `EntryOf...` say what the map finds in the list afterwards.
All stores use these lemmas.

**The tracker.** Order alone is not inductive: an entry appended now must not expire
before one that is already there. The invariant adds `Sound(order, now + TTL)`, which
time can only weaken, and the map is the key set of the list. From
expiry order follows that the early stop of a sweep misses nothing. `RegisterFacts`,
`ConsumeFacts` and `SweepFacts` say of each operation what it leaves of the other
entries; they are what the users of the tracker (`InteractiveProofs`, twice, and
`ButtonMessagesProofs`) know of it.

**The tracker as a set of deadlines.** `Deadlines` is what a caller may rely on, without a map,
a list or an order: a set of messages, each with a deadline and its data. `ButtonTracker`
implements it under the mapping `Kept`. Three facts carry the proof: a sweep that stops at the
first live entry takes exactly what is due (`SweepLapses`); the front entry is one of the
earliest deadline (`FrontIsEarliest`); and an insertion evicts that one, exactly when
the set is full, as the list is as long as the set is large (`KeysCount`, `InsertMakesRoom`).
`MessagesUseTheTracker` shows that building, sending and pressing do to the tracker only what
its specification allows, so all this holds in that composition too.

**Tracker and labels** (`ButtonMessagesProofs`). `ButtonsHaveLabels` speaks of live messages now,
and has to be known of them for the rest of their window. `Covers(f, t)` says that the labels of `f`
are cached until `t` or were evicted. The invariant claims it for each tracked message until
its own expiry, and for the message that is being sent for a whole `LabelTTL`, which becomes
`TTL` when it is registered; this is where `LabelTTL >= TTL` is needed.

**The message log** (in `DeliveryProofs`). The same argument with `LogInv`, and the bound on
the messages of an entry. The lemmas speak of one operation each (`AddLogInv`,
`DeleteLogInv`, `MissLogInv`), whoever calls it.

**The webhook path** (`DeliveryProofs`). `OneSenderPerKey` is not inductive: nothing in it
says that a busy goroutine's reservation is still in the cache. The invariant `IInv` adds

* `Reserved`: while a goroutine is busy its key is recorded at the time it reserved it, and
  if something landed (a part, or an edit in mode `edit`) the chat has a landing of that
  key under that reservation;
* `InBudget` and, in `Sensible`, `start <= since`: the reservation of a busy goroutine is no
  older than its request, and that no older than `Budget`. With `Budget <= DedupTTL` a
  reservation that is in use is never expired, so `Reserve` turns away everyone else and the
  sweeper leaves it alone. This is the only place where the assumption is needed,
  and without it the property is false;
* what a goroutine's locals say by themselves (`Sensible`): locals are clean between two
  targets, `link` is reached only after a landing, a goroutine of a request that is
  not running is idle.

Sixteen actions of a goroutine change the reservation in only three ways: it *stands*, is
*given back* or is *taken*. `MoveIInv` shows once, over these three, that the invariant
survives; the lemma of each action says which of the three it is. `NobodyMoves`
does the same for arrivals, context ends, answers, the clock and the sweeper.

**What becomes of a request** (`DeliveryOutcomeProofs`). `Step` says in seven conjuncts what a step
of a goroutine can do: where it goes (one of six ways), what it confirms, what it counts, what
becomes known of messages, and what is unlinked. Each action is shown to be a `Step` once, and
`Background` is the same for everything else. The parts of the invariant `OInv` are then proved
from `Step` and `Background` alone, never from the actions:

* `Served` and `OwnLandings`: a landing stands under its reservation, or that expired long
  ago, and what landed under a reservation in use belongs to the goroutine that holds it. Two
  landings of one part are therefore a TTL apart, which is `NoConfirmedDuplicate`;
* `KnownDelivered`, `Keyed`, `Fresh`, `Unlinked`: every message in the log, in a
  goroutine's copy of it, or rewritten, was confirmed in all its parts, and stands under its
  own incident. What a goroutine is about to link is known nowhere yet, so nothing that was rewritten
  can be linked;
* `Settlement` and `Accounts` follow what a caller counts on. A goroutine without an error has
  settled every target it passed; a target settled by somebody else's reservation is
  accounted for by a landing, by the goroutine that holds the key, or by a request whose
  caller hears of the loss. Once no request runs, the middle case is void, which leaves
  `EveryLossIsReported`;
* `Counted`: some goroutine of a request counts fewer errors than attempts if and only if
  something of that request landed.

* `MissesOverlapping`: while a resolve works with the messages it found, what else is linked under
  its key was confirmed under a reservation at most a budget older than its own. A step either
  leaves alone what was found, or finds all (`Remembers`); a message that another goroutine links
  belongs to a request that is within its budget at that very instant (`LinksOverlap`).
  Hence `OnlyLatecomersAreMissed`.

`Status` adds up counters over the messengers with `SumFunction`, a fold. The induction theorems of
the library take a predicate as a parameter, which the provers cannot instantiate; `SumIs` takes
instead a smallest set on which two such sums differ, from the well-foundedness of strict inclusion.

**The cache as leases** (end of `DeliveryOutcomeProofs`). `Leases` knows no cache, no entries that have
expired and wait for a sweep, and no local variables: a key has holders, a lease has a start. An
entry past its TTL maps to no lease, so a sweep maps to a stutter, while time that passes
may end the leases nobody holds, and those only. That none is ended in its holder's
hands is `InBudget` again (`Leased`: a busy goroutine is the only holder of its key, and its
reservation is not expired). A goroutine that leaves either landed something under its lease, which then
stays, or gives its reservation back; by `OwnLandings` nothing has landed under it then, so
the lease goes rightly (`LeavesEnds`).

**The buttons** (`InteractiveProofs`). The two trackers are instances of `ButtonTrackerProofs`.
The promises rest on who knows what about a message:

* `SilenceTracked`: a message in the silence tracker is linked and was never silenced. From
  its lookup on the handler keeps this knowledge (`WorkerAlone`), whatever the sweepers and the
  webhook do meanwhile, as only the one worker silences: `NobodySilencesTwice`;
* `UndoTracked` and `UndoButtonsTold`: an undo button, on screen or in a press that waits, is for
  the one silence of its message that a user was told of, and so is the tracked id;
* `Owned`: a button has a tracker, a sweeper or the handler that will remove it; `InTime`: the
  handler ends before the undo window it opens, so the button it puts on screen last
  is still tracked. This is where `HandleTimeout < UndoWindow` is needed.

**The poller** (`PressSourcesProofs`, its first part). `ConfirmedWereHandled` says nothing of the
offsets in the pods' memory, which is what Telegram will be told next. `PodInv` does:

* the `Frontier` of a poller is the first update of its batch, or its offset if it has none.
  While its pod is up, all below the frontier is settled, except the update at work. Moving
  the offset in `Dispatch` moves nothing past the frontier that is not at work;
* a pod that has been told to stop may have cut an update off, and its frontier says
  nothing; but it never *begins* to ask, so only a poller that is asking has to have all
  below its offset settled, whatever its pod is told meanwhile. The look at the context at
  the top of the loop is what makes this inductive;
* a batch is a run of successive updates from the offset on (`InOrder`), and what a pod has
  dispatched is below its offset, from which `OncePerPod` follows.

The start of a batch is at most one past what Telegram has forgotten or the pod confirms,
so between the offset and the batch are only updates that `Forgotten` knows to be settled: that
is how a pod that starts from offset 0, or lags behind the other pod, gets its frontier.

**The socket** (its second part). `Accounted` is nearly inductive. It lacks the shape of the
reader (it holds an envelope while it acknowledges and queues, and never else) and that
a pod without a process has no goroutines (`SocketOff`). `AccountedMoves` shows once
that a step of one pod which passes on or spends whatever it held keeps it. The third part
joins both sources: each step of a pod's life is a step of both.

**The clients** (`MessengerProofs`). `QuotaKept` says how long the chat has been quiet when a request goes
out. The invariant `Spaced` says it of everybody who waits: whoever waits for the chat will find it
quiet for an interval when his timer ends, is an interval away from every other waiter, and
an interval ahead of the next token. A waiter that gives up leaves a gap; one that is
refused takes no token. All but four kinds of steps neither begin to wait for the chat nor use it,
and `PlainKeeps` deals with them at once. `UnreadyNeedsTrouble` needs that a call which ended in a
server error has met one (`Sensible`), also when the reports of others come between.

**The splitter** (`MessengerProofs`, from `Nested` on). The operators of the splitter are recursive
functions over a text. Their defining equations (`NestedIs`, `StyledIs`, ...) and every fact
"for all prefixes" are proved with a least counterexample, a minimal element of the
set of positions at which the fact fails. All that follows rests on how these functions treat a
concatenation: the tags open after `a \o b` are those after `b` behind what `a` leaves open, and so
are the letters and their formatting (`NestedConcat`, `StyledConcat`, `WellNestedConcat`), for texts
with crossed, stray and unclosed tags too.

Neither property is inductive: both speak of the parts that are cut, and not of what the open
tags do to the rest. `SplitInv` adds `Reopens`: of a well-formed text the rest is well-formed
behind the tags that are reopened, and closes them all. A round takes the rest apart into a head,
blanks, and a new rest (`CutPieces`, wherever `safeCut` cuts), and the part it makes of
the head shows what the head showed behind the open tags (`PartIs`): reopening brings the same
tags back (`NestedOpens`), and the closing tags close each of them in turn (`NestedCloses`). No limit,
slack or number of refinements is needed for this.

That parts fit is about numbers. `tagCloseSlack`'s comment has it that realistic markup converges on
the first pass; `SlackSuffices` says what that means: wherever a text is cut, the closing
tags are no longer than the slack, and the limit has room for the tags at both ends of a part
and for one token (the code has 32 and 4096). Then no budget is ever refined (`FirstBudgetStays`),
since the rest of a text nests no deeper behind the reopened tags than the text did
(`Shallow`, part of the invariant `FitInv`), and the head was cut to what remains of the limit.

## 7. Plan

Done: all components of the first plan, and a theorem for every safety property of the
passing runs. Next:

1. An abstract specification of delivery (an alert per target is *open*, *landed* or
   *reported*) that `Delivery` implements, as it implements `Leases`.
2. The fairness side of `Deadlines`: `FairSpec` implements the promise that
   everything due lapses at last (with TLC, as it is liveness).
3. The hazard without a property: a rewrite that the end of the context stops.

### Not modelled

Sources, templates, routing, configuration, metrics and the read-only status
views are stateless conversions or views; nothing in them depends on order or failure. Of the
modelled components these parts are left out: the aggregation of several sinks behind
`/readyz`, `Respond` to a Slack `response_url` (one request, never retried), the draining of HTTP
requests at shutdown, the wording of conflict reports, and cuts inside tags.
