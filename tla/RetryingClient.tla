--------------------------- MODULE RetryingClient ---------------------------
(***************************************************************************)
(* Calls to one messenger (telegram/client.go, slack/client.go): every      *)
(* attempt waits for the rate limiters, is answered or times out, and is    *)
(* repeated after a backoff while attempts and the deadline of the caller's *)
(* context allow.  The prober is the health loop's call, which no limiter   *)
(* holds back.                                                              *)
(*                                                                         *)
(* Time is counted in ticks down to each timer's end.  A limiter of burst 1 *)
(* is the time until its next token: waiters reserve tokens in advance, and *)
(* a wait beyond the caller's deadline is refused at once.                  *)
(***************************************************************************)
EXTENDS Naturals, FiniteSets

CONSTANTS
    Senders,          \* goroutines that send, edit or answer
    MaxAttempts,      \* retry.max_attempts: 5
    InitialBackoff,   \* retry.initial_backoff: 1 s
    MaxBackoff,       \* retry.max_backoff: 60 s
    Margin,           \* retrySafetyMargin: 500 ms
    RequestTimeout,   \* request_timeout of the HTTP client
    SendBudget,       \* the most time a sender's context has left
    ProbeTimeout,     \* probeTimeout: 10 s
    GlobalInterval,   \* 1 / rate_limit.global_per_sec
    ChatInterval,     \* 1 / rate_limit.per_chat_per_sec: 1 s
    RetryAfters       \* waits the messenger may ask for, 0 for none

ASSUME ClientAssumption ==
    /\ MaxAttempts \in Nat \ {0}
    /\ {InitialBackoff, MaxBackoff, RequestTimeout, SendBudget, ProbeTimeout} \subseteq Nat \ {0}
    /\ {Margin, GlobalInterval, ChatInterval} \subseteq Nat
    /\ RetryAfters \subseteq Nat

Prober == "prober"
ASSUME ProberAssumption == Prober \notin Senders

Callers == Senders \cup {Prober}

VARIABLES
    call,          \* call[c] = the call caller c is in
    globalNext,    \* time until the next free token of the global limiter
    chatNext,      \* the same for the one chat
    chatQuiet,     \* time since the last request to the chat was sent
    health,        \* of the messenger: up, busy (answers 429), down
    messenger      \* telegram or slack

clientVars == <<call, globalNext, chatNext, chatQuiet, health, messenger>>

\* Error classes, as Classify tells them apart.
Classes == {"ok", "client", "limited", "server", "canceled"}

\* left: until the context ends; wait: until the timer of this step ends.
Idle == [pc |-> "idle", kind |-> "send", att |-> 0, left |-> 0, wait |-> 0, class |-> "ok"]

\* A caller's next call is for a later tick: nobody calls without end in no time.
Rested == [Idle EXCEPT !.wait = 1]

ClientInit ==
    /\ call = [c \in Callers |-> Idle]
    /\ globalNext = 0
    /\ chatNext = 0
    /\ chatQuiet = ChatInterval
    /\ health \in {"up", "busy", "down"}

At(c, pc) == call[c].pc = pc
Update(c, r) == call' = [call EXCEPT ![c] = r]

\* Slack counts messages against the channel, Telegram its edits as well.
TakesChat(r) == r.kind = "send" \/ (r.kind = "edit" /\ messenger = "telegram")

\* An attempt waits for the limiters first, that of a probe does not.
Attempt(r) ==
    IF r.kind = "probe"
    THEN [r EXCEPT !.pc = "calling", !.wait = RequestTimeout]
    ELSE [r EXCEPT !.pc = "global", !.wait = 0]

Request(r) == [r EXCEPT !.pc = "calling", !.wait = RequestTimeout]

Ended(r, class) == [r EXCEPT !.pc = "ended", !.left = 0, !.wait = 0, !.class = class]

Begin(c, kind, budget) ==
    /\ At(c, "idle") /\ call[c].wait = 0
    /\ Update(c, Attempt([Idle EXCEPT !.kind = kind, !.att = 1, !.left = budget]))
    /\ UNCHANGED <<globalNext, chatNext, chatQuiet, health, messenger>>
-----------------------------------------------------------------------------
(* The limiters. *)

\* A limiter refuses a wait past the deadline without taking a token.
Refused(c, next) == call[c].left = 0 \/ next > call[c].left

\* A token that is there is used at once.
AfterGlobal(r) == IF TakesChat(r) THEN [r EXCEPT !.pc = "chat", !.wait = 0] ELSE Request(r)

TakeGlobal(c) ==
    /\ At(c, "global")
    /\ ~Refused(c, globalNext)
    /\ globalNext' = globalNext + GlobalInterval
    /\ Update(c, IF globalNext = 0
                 THEN AfterGlobal(call[c])
                 ELSE [call[c] EXCEPT !.pc = "globalWait", !.wait = globalNext])
    /\ UNCHANGED <<chatNext, chatQuiet, health, messenger>>

GlobalPassed(c) ==
    /\ At(c, "globalWait") /\ call[c].wait = 0
    /\ Update(c, AfterGlobal(call[c]))
    /\ UNCHANGED <<globalNext, chatNext, chatQuiet, health, messenger>>

TakeChat(c) ==
    /\ At(c, "chat")
    /\ ~Refused(c, chatNext)
    /\ chatNext' = chatNext + ChatInterval
    /\ IF chatNext = 0
       THEN Update(c, Request(call[c])) /\ chatQuiet' = 0
       ELSE /\ Update(c, [call[c] EXCEPT !.pc = "chatWait", !.wait = chatNext])
            /\ UNCHANGED chatQuiet
    /\ UNCHANGED <<globalNext, health, messenger>>

ChatPassed(c) ==
    /\ At(c, "chatWait") /\ call[c].wait = 0
    /\ Update(c, Request(call[c]))
    /\ chatQuiet' = 0
    /\ UNCHANGED <<globalNext, chatNext, health, messenger>>

CountsAsServer(c) ==   \* mutant
    /\ \/ At(c, "global") /\ Refused(c, globalNext)
       \/ At(c, "chat") /\ Refused(c, chatNext)
    /\ Update(c, Ended(call[c], "server"))
    /\ UNCHANGED <<globalNext, chatNext, chatQuiet, health, messenger>>

\* LimiterError: the refusal counts as our own deadline.  The global token a
\* refused chat wait took is not given back.
LimiterRefuses(c) ==
    /\ \/ At(c, "global") /\ Refused(c, globalNext)
       \/ At(c, "chat") /\ Refused(c, chatNext)
    /\ Update(c, Ended(call[c], "canceled"))
    /\ UNCHANGED <<globalNext, chatNext, chatQuiet, health, messenger>>

\* The context ends during a wait: the token goes back unless a later waiter
\* has reserved the one behind it.
GiveBack(c, next, interval) == IF next = call[c].wait + interval THEN call[c].wait ELSE next

LimiterCanceled(c) ==
    /\ call[c].left = 0
    /\ \/ /\ At(c, "globalWait")
          /\ globalNext' = GiveBack(c, globalNext, GlobalInterval)
          /\ UNCHANGED chatNext
       \/ /\ At(c, "chatWait")
          /\ chatNext' = GiveBack(c, chatNext, ChatInterval)
          /\ UNCHANGED globalNext
    /\ Update(c, Ended(call[c], "canceled"))
    /\ UNCHANGED <<chatQuiet, health, messenger>>
-----------------------------------------------------------------------------
(* callOnce, and the retry that follows a failure. *)

\* "d <= 0 || d > maxBackoff": what the shift overflows to does not count either.
Backoff(att) ==
    LET d == InitialBackoff * 2 ^ (att - 1) IN IF d \in 1 .. MaxBackoff THEN d ELSE MaxBackoff

\* Telegram honours Retry-After with a 429 only, Slack with any status.
Pause(r, class, after) ==
    IF after > 0 /\ (class = "limited" \/ messenger = "slack")
    THEN IF after > MaxBackoff THEN MaxBackoff ELSE after
    ELSE Backoff(r.att)

RetriesOnceMore(r, class, after) ==   \* mutant
    IF r.att > MaxAttempts \/ r.left < Pause(r, class, after) + Margin
    THEN Ended(r, class)
    ELSE [r EXCEPT !.pc = "sleeping", !.wait = Pause(r, class, after)]

\* The last attempt, and a pause that would not leave the margin, end the call.
Failed(r, class, after) ==
    IF r.att = MaxAttempts \/ r.left < Pause(r, class, after) + Margin
    THEN Ended(r, class)
    ELSE [r EXCEPT !.pc = "sleeping", !.wait = Pause(r, class, after)]

Answers(c, class) ==
    CASE health = "up" -> class = "ok" \/ (class = "client" /\ c # Prober)
      [] health = "busy" -> class \in {"ok", "limited"}
      [] OTHER -> class = "server"

Answered(c) ==
    /\ At(c, "calling")
    /\ \E class \in Classes :
          /\ Answers(c, class)
          /\ IF class \in {"ok", "client"}
             THEN Update(c, Ended(call[c], class))
             ELSE \E after \in RetryAfters : Update(c, Failed(call[c], class, after))
    /\ UNCHANGED <<globalNext, chatNext, chatQuiet, health, messenger>>

\* No answer: the timeout of the HTTP client is a network error to retry, but
\* to Classify it is a deadline that was exceeded.
TimesOut(c) ==
    /\ At(c, "calling") /\ call[c].wait = 0
    /\ Update(c, Failed(call[c], "canceled", 0))
    /\ UNCHANGED <<globalNext, chatNext, chatQuiet, health, messenger>>

ContextEnds(c) ==
    /\ At(c, "calling") \/ At(c, "sleeping")
    /\ call[c].left = 0
    /\ Update(c, Ended(call[c], "canceled"))
    /\ UNCHANGED <<globalNext, chatNext, chatQuiet, health, messenger>>

RetriesForever(c) ==   \* mutant
    /\ At(c, "sleeping") /\ call[c].wait = 0
    /\ Update(c, Attempt([call[c] EXCEPT !.left = SendBudget]))
    /\ UNCHANGED <<globalNext, chatNext, chatQuiet, health, messenger>>

RetryUnmetered(c) ==   \* mutant
    /\ At(c, "sleeping") /\ call[c].wait = 0
    /\ Update(c, Request([call[c] EXCEPT !.att = @ + 1]))
    /\ chatQuiet' = IF TakesChat(call[c]) THEN 0 ELSE chatQuiet
    /\ UNCHANGED <<globalNext, chatNext, health, messenger>>

\* The next attempt waits for the limiters again.
Retry(c) ==
    /\ At(c, "sleeping") /\ call[c].wait = 0
    /\ Update(c, Attempt([call[c] EXCEPT !.att = @ + 1]))
    /\ UNCHANGED <<globalNext, chatNext, chatQuiet, health, messenger>>

CallStep(c) ==
    \/ TakeGlobal(c)
    \/ GlobalPassed(c)
    \/ TakeChat(c)
    \/ ChatPassed(c)
    \/ LimiterRefuses(c)
    \/ LimiterCanceled(c)
    \/ Answered(c)
    \/ TimesOut(c)
    \/ ContextEnds(c)
    \/ Retry(c)
-----------------------------------------------------------------------------
(* The surroundings: callers that give up, the messenger, time. *)

Canceled(c) ==
    /\ c # Prober
    /\ call[c].left > 0
    /\ Update(c, [call[c] EXCEPT !.left = 0])
    /\ UNCHANGED <<globalNext, chatNext, chatQuiet, health, messenger>>

HealthChanges ==
    /\ health' \in {"up", "busy", "down"} \ {health}
    /\ UNCHANGED <<call, globalNext, chatNext, chatQuiet, messenger>>

\* A timer that has ended is acted on before time goes on, and a messenger
\* that is up answers in time.
Due(c) ==
    \/ call[c].pc \in {"global", "chat", "ended"}
    \/ ~At(c, "idle") /\ (call[c].left = 0 \/ call[c].wait = 0)
    \/ At(c, "calling") /\ health = "up" /\ (call[c].left = 1 \/ call[c].wait = 1)

Less(n) == IF n > 0 THEN n - 1 ELSE 0

ClientTick ==
    /\ \A c \in Callers : ~Due(c)
    /\ call' = [c \in Callers |->
           [call[c] EXCEPT !.left = Less(@), !.wait = Less(@)]]
    /\ globalNext' = Less(globalNext)
    /\ chatNext' = Less(chatNext)
    /\ chatQuiet' = IF chatQuiet < ChatInterval THEN chatQuiet + 1 ELSE chatQuiet
    /\ UNCHANGED <<health, messenger>>
=============================================================================
