--------------------------- MODULE MessengerProofs ---------------------------
(***************************************************************************)
(* The waits of the chat limiter keep its interval to each other, whoever   *)
(* waits, retries or gives up; only what Classify calls a server error, or  *)
(* a failed probe, can make a sink unready; and the parts a text is cut     *)
(* into fit, are well-formed and together show what it showed.              *)
(***************************************************************************)
EXTENDS Messenger, SequenceTheorems, WellFoundedInduction, TLAPS

Pcs == {"idle", "global", "globalWait", "chat", "chatWait", "calling", "sleeping", "ended"}

CallRecords ==
    [pc : Pcs, kind : {"send", "edit", "answer", "probe"}, att : 0 .. MaxAttempts,
     left : Nat, wait : Nat, class : Classes]

Loops ==
    [pc : {"start", "probing", "marking", "waiting"}, fails : 0 .. Threshold,
     ever : BOOLEAN, wait : Nat, backoff : Nat]

\* A call that sleeps has an attempt left, and one that ended in a server error
\* has met trouble.
Sensible(r, trouble) ==
    /\ r.pc = "sleeping" => r.att < MaxAttempts
    /\ r.pc = "ended" /\ r.class = "server" => trouble

ClientTyped ==
    /\ call \in [Callers -> CallRecords]
    /\ globalNext \in Nat
    /\ chatNext \in Nat
    /\ chatQuiet \in Nat
    /\ health \in {"up", "busy", "down"}
    /\ \A c \in Callers : Sensible(call[c], troubled)

ReadinessTyped ==
    /\ ready \in BOOLEAN
    /\ consecFails \in 0 .. Window
    /\ loop \in Loops

(***************************************************************************)
(* Whoever waits for the chat will find it quiet for an interval, is an     *)
(* interval away from every other waiter, and an interval ahead of the next *)
(* token; and so will be the next to come.                                  *)
(***************************************************************************)
Apart(m, n) == m + ChatInterval <= n \/ n + ChatInterval <= m

Spaced ==
    /\ chatQuiet + chatNext >= ChatInterval
    /\ \A c \in Callers : At(c, "chatWait") =>
          /\ call[c].wait + ChatInterval <= chatNext
          /\ chatQuiet + call[c].wait >= ChatInterval
          /\ \A d \in Callers \ {c} :
                At(d, "chatWait") => Apart(call[c].wait, call[d].wait)

MessengerInv ==
    /\ setup \in Setups
    /\ ClientTyped
    /\ ReadinessTyped
    /\ Spaced

LEMMA Positive ==
    /\ MaxAttempts \in Nat \ {0} /\ InitialBackoff \in Nat /\ MaxBackoff \in Nat
    /\ RequestTimeout \in Nat /\ SendBudget \in Nat /\ ProbeTimeout \in Nat
    /\ Margin \in Nat /\ GlobalInterval \in Nat /\ ChatInterval \in Nat
    /\ RetryAfters \subseteq Nat
    /\ Prober \in Callers /\ Senders \subseteq Callers /\ Prober \notin Senders
BY ClientAssumption, ProberAssumption DEF Callers
-----------------------------------------------------------------------------
(* The calls. *)

(***************************************************************************)
(* What most steps of caller c amount to: its record becomes r, nobody      *)
(* begins to wait for the chat or uses it, and only a server error comes    *)
(* with trouble.                                                            *)
(***************************************************************************)
Plain(c, r) ==
    /\ r \in CallRecords
    /\ call' = [call EXCEPT ![c] = r]
    /\ Sensible(r, troubled')
    /\ r.pc = "chatWait" => At(c, "chatWait") /\ r.wait = call[c].wait
    /\ r.pc = "calling" /\ ~At(c, "calling") => c = Prober \/ ~TakesChat(call[c])

PlainStep(c) ==
    /\ \E r \in CallRecords : Plain(c, r)
    /\ globalNext' \in Nat
    /\ UNCHANGED <<chatNext, chatQuiet, health>>

\* What QuotaKept says of one step.
QuotaStep ==
    \A c \in Senders :
        call'[c].pc = "calling" /\ call[c].pc # "calling" /\ TakesChat(call[c])
            => chatQuiet >= ChatInterval

LEMMA PlainKeeps ==
    ASSUME ClientTyped, Spaced, NEW c \in Callers, PlainStep(c), troubled => troubled'
    PROVE  ClientTyped' /\ Spaced' /\ QuotaStep
<1>1. PICK r \in CallRecords : Plain(c, r)
    BY DEF PlainStep
<1>2. /\ call \in [Callers -> CallRecords] /\ call' = [call EXCEPT ![c] = r]
      /\ chatNext' = chatNext /\ chatQuiet' = chatQuiet /\ health' = health
      /\ globalNext' \in Nat
    BY <1>1 DEF Plain, PlainStep, ClientTyped
<1>3. /\ call' \in [Callers -> CallRecords] /\ call'[c] = r
      /\ \A d \in Callers \ {c} : call'[d] = call[d]
    BY <1>2
<1>4. ClientTyped'
    <2>1. ASSUME NEW d \in Callers
          PROVE  Sensible(call'[d], troubled')
        <3>1. CASE d = c
            BY <1>1, <1>3, <3>1 DEF Plain
        <3>2. CASE d # c
            BY <1>3, <3>2 DEF ClientTyped, Sensible
        <3> QED
            BY <3>1, <3>2
    <2> QED
        BY <1>2, <1>3, <2>1 DEF ClientTyped
<1>5. \A d \in Callers : call'[d].pc = "chatWait" =>
          call[d].pc = "chatWait" /\ call'[d].wait = call[d].wait
    BY <1>1, <1>3 DEF Plain, At
<1>6. Spaced'
    BY <1>2, <1>5 DEF Spaced, At, Apart
<1>7. QuotaStep
    BY <1>1, <1>3, Positive DEF QuotaStep, Plain, At
<1> QED
    BY <1>4, <1>6, <1>7

LEMMA CallOf ==
    ASSUME ClientTyped, NEW c \in Callers
    PROVE  call[c] \in CallRecords /\ Sensible(call[c], troubled)
BY DEF ClientTyped

\* A record keeps its type when an attempt begins, passes a limiter or ends.
LEMMA RecordsStay ==
    ASSUME NEW r \in CallRecords
    PROVE  /\ Attempt(r) \in CallRecords /\ AfterGlobal(r) \in CallRecords
           /\ Request(r) \in CallRecords
           /\ \A class \in Classes : Ended(r, class) \in CallRecords
           /\ \A n \in Nat : [r EXCEPT !.pc = "globalWait", !.wait = n] \in CallRecords
           /\ \A n \in Nat : [r EXCEPT !.pc = "chatWait", !.wait = n] \in CallRecords
           /\ \A n \in Nat : [r EXCEPT !.pc = "sleeping", !.wait = n] \in CallRecords
           /\ \A n \in Nat : [r EXCEPT !.left = n] \in CallRecords
BY Positive DEF CallRecords, Pcs, Attempt, AfterGlobal, Request, Ended

LEMMA PauseNat ==
    ASSUME NEW r, NEW class, NEW after \in Nat
    PROVE  Pause(r, class, after) \in Nat
<1>1. Backoff(r.att) \in Nat
    BY Positive DEF Backoff
<1> QED
    BY <1>1, Positive DEF Pause

LEMMA FailedRecord ==
    ASSUME NEW r \in CallRecords, NEW class \in Classes, NEW after \in Nat
    PROVE  /\ Failed(r, class, after) \in CallRecords
           /\ Failed(r, class, after).pc \in {"ended", "sleeping"}
           /\ Failed(r, class, after).pc = "ended" => Failed(r, class, after).class = class
           /\ Failed(r, class, after).pc = "sleeping" => Failed(r, class, after).att < MaxAttempts
<1>1. Pause(r, class, after) \in Nat
    BY PauseNat
<1>2. CASE r.att = MaxAttempts \/ r.left < Pause(r, class, after) + Margin
    <2>1. Failed(r, class, after) = Ended(r, class)
        BY <1>2 DEF Failed
    <2>2. Ended(r, class).pc = "ended" /\ Ended(r, class).class = class
        BY DEF Ended, CallRecords
    <2> QED
        BY <2>1, <2>2, RecordsStay
<1>3. CASE ~(r.att = MaxAttempts \/ r.left < Pause(r, class, after) + Margin)
    <2> DEFINE p == Pause(r, class, after)
               f == [r EXCEPT !.pc = "sleeping", !.wait = p]
    <2>1. Failed(r, class, after) = f
        BY <1>3 DEF Failed
    <2>2. f \in CallRecords
        BY <1>1, RecordsStay
    <2>3. f.pc = "sleeping" /\ f.att = r.att
        BY DEF CallRecords
    <2>4. r.att < MaxAttempts
        BY <1>3, Positive DEF CallRecords
    <2> QED
        BY <2>1, <2>2, <2>3, <2>4
<1> QED
    BY <1>2, <1>3

\* The fields that tell one state of a call from the next.
LEMMA Fields ==
    ASSUME NEW r \in CallRecords
    PROVE  /\ Attempt(r).pc = IF r.kind = "probe" THEN "calling" ELSE "global"
           /\ AfterGlobal(r).pc = IF TakesChat(r) THEN "chat" ELSE "calling"
           /\ Request(r).pc = "calling"
           /\ \A class \in Classes : Ended(r, class).pc = "ended" /\ Ended(r, class).class = class
           /\ \A n \in Nat : [r EXCEPT !.pc = "globalWait", !.wait = n].pc = "globalWait"
           /\ \A n \in Nat : LET x == [r EXCEPT !.left = n]
                             IN x.pc = r.pc /\ x.class = r.class /\ x.att = r.att /\ x.wait = r.wait
BY DEF CallRecords, Attempt, AfterGlobal, Request, Ended

LEMMA TakeGlobalPlain ==
    ASSUME ClientTyped, NEW c \in Callers, TakeGlobal(c), troubled => troubled'
    PROVE  PlainStep(c)
<1> DEFINE r == IF globalNext = 0
                THEN AfterGlobal(call[c])
                ELSE [call[c] EXCEPT !.pc = "globalWait", !.wait = globalNext]
<1>1. /\ call[c] \in CallRecords /\ globalNext \in Nat /\ call[c].pc = "global"
      /\ globalNext' = globalNext + GlobalInterval
      /\ call' = [call EXCEPT ![c] = r] /\ UNCHANGED <<chatNext, chatQuiet, health>>
    BY CallOf DEF ClientTyped, TakeGlobal, Update, At
<1>2. globalNext' \in Nat
    BY <1>1, Positive
<1>3. r \in CallRecords
    BY <1>1, RecordsStay
<1>4. /\ r.pc \in {"chat", "calling", "globalWait"}
      /\ r.pc = "calling" => ~TakesChat(call[c])
    BY <1>1, Fields
<1> HIDE DEF r
<1>5. Plain(c, r)
    BY <1>1, <1>3, <1>4 DEF Plain, Sensible
<1> QED
    BY <1>1, <1>2, <1>3, <1>5 DEF PlainStep

LEMMA GlobalPassedPlain ==
    ASSUME ClientTyped, NEW c \in Callers, GlobalPassed(c), troubled => troubled'
    PROVE  PlainStep(c)
<1> DEFINE r == AfterGlobal(call[c])
<1>1. /\ call[c] \in CallRecords /\ globalNext' \in Nat
      /\ call' = [call EXCEPT ![c] = r] /\ UNCHANGED <<chatNext, chatQuiet, health>>
    BY CallOf DEF ClientTyped, GlobalPassed, Update
<1>2. r \in CallRecords
    BY <1>1, RecordsStay
<1>3. r.pc \in {"chat", "calling"} /\ (r.pc = "calling" => ~TakesChat(call[c]))
    BY <1>1, Fields
<1> HIDE DEF r
<1>4. Plain(c, r)
    BY <1>1, <1>2, <1>3 DEF Plain, Sensible
<1> QED
    BY <1>1, <1>2, <1>4 DEF PlainStep

\* A step that ends a call without a server error.
LEMMA EndPlain ==
    ASSUME ClientTyped, NEW c \in Callers, NEW class \in Classes,
           class = "server" => troubled',
           Update(c, Ended(call[c], class)), globalNext' \in Nat,
           UNCHANGED <<chatNext, chatQuiet, health>>
    PROVE  PlainStep(c)
<1> DEFINE r == Ended(call[c], class)
<1>1. call[c] \in CallRecords /\ call' = [call EXCEPT ![c] = r]
    BY CallOf DEF Update
<1>2. r \in CallRecords /\ r.pc = "ended" /\ r.class = class
    <2>1. r \in CallRecords
        BY <1>1, RecordsStay
    <2>2. r.pc = "ended" /\ r.class = class
        BY <1>1, Fields
    <2> QED
        BY <2>1, <2>2
<1> HIDE DEF r
<1>3. Plain(c, r)
    BY <1>1, <1>2 DEF Plain, Sensible
<1> QED
    BY <1>2, <1>3 DEF PlainStep

\* A failure: the call ends or sleeps until the next attempt.
LEMMA FailPlain ==
    ASSUME ClientTyped, NEW c \in Callers, NEW class \in Classes, NEW after \in Nat,
           class = "server" => troubled',
           Update(c, Failed(call[c], class, after)),
           UNCHANGED <<globalNext, chatNext, chatQuiet, health>>
    PROVE  PlainStep(c)
<1> DEFINE r == Failed(call[c], class, after)
<1>1. call[c] \in CallRecords /\ call' = [call EXCEPT ![c] = r]
    BY CallOf DEF Update
<1>2. /\ r \in CallRecords /\ r.pc \in {"ended", "sleeping"}
      /\ r.pc = "ended" => r.class = class
      /\ r.pc = "sleeping" => r.att < MaxAttempts
    BY <1>1, FailedRecord
<1> HIDE DEF r
<1>3. Plain(c, r)
    BY <1>1, <1>2 DEF Plain, Sensible
<1>4. globalNext' \in Nat
    BY DEF ClientTyped
<1> QED
    BY <1>2, <1>3, <1>4 DEF PlainStep

LEMMA AnsweredPlain ==
    ASSUME ClientTyped, NEW c \in Callers, Answered(c), health = "down" => troubled'
    PROVE  PlainStep(c)
<1>1. PICK class \in Classes :
          /\ Answers(c, class)
          /\ IF class \in {"ok", "client"}
             THEN Update(c, Ended(call[c], class))
             ELSE \E after \in RetryAfters : Update(c, Failed(call[c], class, after))
    BY DEF Answered
<1>2. class = "server" => troubled'
    BY <1>1 DEF Answers, ClientTyped
<1>3. /\ UNCHANGED <<globalNext, chatNext, chatQuiet, health>> /\ globalNext' \in Nat
    BY DEF Answered, ClientTyped
<1>4. CASE class \in {"ok", "client"}
    BY <1>1, <1>2, <1>3, <1>4, EndPlain
<1>5. CASE class \notin {"ok", "client"}
    <2>1. PICK after \in RetryAfters : Update(c, Failed(call[c], class, after))
        BY <1>1, <1>5
    <2>2. after \in Nat
        BY Positive
    <2> QED
        BY <1>2, <1>3, <2>1, <2>2, FailPlain
<1> QED
    BY <1>4, <1>5

LEMMA TimesOutPlain ==
    ASSUME ClientTyped, NEW c \in Callers, TimesOut(c)
    PROVE  PlainStep(c)
<1>1. /\ "canceled" \in Classes /\ 0 \in Nat
      /\ Update(c, Failed(call[c], "canceled", 0))
      /\ UNCHANGED <<globalNext, chatNext, chatQuiet, health>>
    BY DEF TimesOut, Classes
<1> QED
    BY <1>1, FailPlain

\* The limiter refuses, the context ends in a wait for the global limiter, in
\* a request or in a pause.
LEMMA CanceledPlain ==
    ASSUME ClientTyped, NEW c \in Callers,
           \/ LimiterRefuses(c)
           \/ LimiterCanceled(c) /\ ~At(c, "chatWait")
           \/ ContextEnds(c)
    PROVE  PlainStep(c)
<1>1. /\ "canceled" \in Classes /\ Update(c, Ended(call[c], "canceled"))
      /\ UNCHANGED <<chatNext, chatQuiet, health>>
    BY DEF LimiterRefuses, LimiterCanceled, ContextEnds, Classes
<1>2. globalNext' \in Nat
    <2>1. call[c].wait \in Nat /\ globalNext \in Nat
        BY CallOf DEF CallRecords, ClientTyped
    <2>2. globalNext' \in {globalNext, call[c].wait}
        BY DEF LimiterRefuses, LimiterCanceled, ContextEnds, GiveBack
    <2> QED
        BY <2>1, <2>2
<1> QED
    BY <1>1, <1>2, EndPlain

LEMMA RetryPlain ==
    ASSUME ClientTyped, NEW c \in Callers, Retry(c)
    PROVE  PlainStep(c)
<1> DEFINE more == [call[c] EXCEPT !.att = @ + 1]
           r == Attempt(more)
<1>1. /\ call[c] \in CallRecords /\ call[c].att < MaxAttempts
      /\ call' = [call EXCEPT ![c] = r]
      /\ UNCHANGED <<globalNext, chatNext, chatQuiet, health>> /\ globalNext' \in Nat
    BY CallOf DEF Retry, Update, At, Sensible, ClientTyped
<1>2. more \in CallRecords /\ more.kind = call[c].kind
    BY <1>1, Positive DEF CallRecords
<1> HIDE DEF more
<1>3. r \in CallRecords
    BY <1>2, RecordsStay
<1>4. r.pc \in {"calling", "global"} /\ (r.pc = "calling" => more.kind = "probe")
    BY <1>2, Fields
<1> HIDE DEF r
<1>5. r.pc = "calling" => ~TakesChat(call[c])
    BY <1>2, <1>4 DEF TakesChat
<1>6. Plain(c, r)
    BY <1>1, <1>3, <1>4, <1>5 DEF Plain, Sensible
<1> QED
    BY <1>1, <1>3, <1>6 DEF PlainStep

LEMMA CanceledByCaller ==
    ASSUME ClientTyped, NEW c \in Callers, Canceled(c), troubled' = troubled
    PROVE  PlainStep(c)
<1> DEFINE r == [call[c] EXCEPT !.left = 0]
<1>1. /\ call[c] \in CallRecords /\ call' = [call EXCEPT ![c] = r]
      /\ UNCHANGED <<globalNext, chatNext, chatQuiet, health>> /\ globalNext' \in Nat
    BY CallOf DEF Canceled, Update, ClientTyped
<1>2. r \in CallRecords
    BY <1>1, RecordsStay
<1>3. /\ r.pc = call[c].pc /\ r.class = call[c].class /\ r.att = call[c].att
      /\ r.wait = call[c].wait
    BY <1>1, Fields
<1> HIDE DEF r
<1>4. Plain(c, r)
    BY <1>2, <1>1, <1>3, CallOf DEF Plain, Sensible, At
<1> QED
    BY <1>1, <1>2, <1>4 DEF PlainStep

LEMMA IdleRecords ==
    /\ Idle \in CallRecords /\ Idle.pc = "idle"
    /\ Rested \in CallRecords /\ Rested.pc = "idle"
BY Positive DEF Idle, Rested, CallRecords, Pcs, Classes

\* A call is over, and its caller knows.
LEMMA RestPlain ==
    ASSUME ClientTyped, NEW c \in Callers, NEW r \in {Idle, Rested}, Update(c, r),
           UNCHANGED <<globalNext, chatNext, chatQuiet, health>>
    PROVE  PlainStep(c)
<1>1. Plain(c, r)
    BY IdleRecords DEF Plain, Sensible, Update
<1> QED
    BY <1>1, IdleRecords DEF PlainStep, ClientTyped

LEMMA BeginPlain ==
    ASSUME ClientTyped, NEW c \in Callers,
           NEW kind \in {"send", "edit", "answer", "probe"}, NEW budget \in Nat,
           kind = "probe" => c = Prober,
           Begin(c, kind, budget)
    PROVE  PlainStep(c)
<1> DEFINE first == [Idle EXCEPT !.kind = kind, !.att = 1, !.left = budget]
           r == Attempt(first)
<1>1. /\ call' = [call EXCEPT ![c] = r] /\ call[c] \in CallRecords
      /\ UNCHANGED <<globalNext, chatNext, chatQuiet, health>> /\ globalNext' \in Nat
    BY CallOf DEF Begin, Update, ClientTyped
<1>2. first \in CallRecords /\ first.kind = kind
    <2>1. Idle \in CallRecords /\ 1 \in 0 .. MaxAttempts
        BY IdleRecords, Positive
    <2> QED
        BY <2>1 DEF CallRecords
<1> HIDE DEF first
<1>3. r \in CallRecords
    BY <1>2, RecordsStay
<1>4. r.pc \in {"calling", "global"} /\ (r.pc = "calling" => c = Prober)
    BY <1>2, Fields
<1> HIDE DEF r
<1>5. Plain(c, r)
    BY <1>1, <1>3, <1>4 DEF Plain, Sensible
<1> QED
    BY <1>1, <1>3, <1>5 DEF PlainStep

-----------------------------------------------------------------------------
(* The chat limiter: the steps that are not plain. *)

LEMMA TakeChatKeeps ==
    ASSUME ClientTyped, Spaced, NEW c \in Callers, TakeChat(c), troubled => troubled'
    PROVE  ClientTyped' /\ Spaced' /\ QuotaStep
<1> DEFINE r == IF chatNext = 0
                THEN Request(call[c])
                ELSE [call[c] EXCEPT !.pc = "chatWait", !.wait = chatNext]
<1>1. /\ call \in [Callers -> CallRecords] /\ call[c] \in CallRecords
      /\ chatNext \in Nat /\ chatQuiet \in Nat /\ At(c, "chat")
      /\ chatNext' = chatNext + ChatInterval /\ call' = [call EXCEPT ![c] = r]
      /\ chatQuiet' = IF chatNext = 0 THEN 0 ELSE chatQuiet
      /\ globalNext' = globalNext /\ health' = health
    BY CallOf DEF ClientTyped, TakeChat, Update
<1>2. r \in CallRecords
    BY <1>1, RecordsStay
<1>3. /\ chatNext = 0 => r.pc = "calling"
      /\ chatNext # 0 => r.pc = "chatWait" /\ r.wait = chatNext
    BY <1>1, Fields DEF CallRecords
<1> HIDE DEF r
<1>4. /\ call' \in [Callers -> CallRecords] /\ call'[c] = r
      /\ \A d \in Callers \ {c} : call'[d] = call[d]
    BY <1>1, <1>2
<1>5. \A d \in Callers : call[d].wait \in Nat
    BY <1>1 DEF CallRecords
<1>6. ClientTyped'
    <2>1. Sensible(r, troubled')
        BY <1>3 DEF Sensible
    <2>2. \A d \in Callers : Sensible(call'[d], troubled')
        BY <1>4, <2>1 DEF ClientTyped, Sensible
    <2>3. chatNext' \in Nat /\ chatQuiet' \in Nat
        BY <1>1, Positive
    <2> QED
        BY <1>1, <1>4, <2>2, <2>3 DEF ClientTyped
<1>7. chatQuiet + chatNext >= ChatInterval
    BY DEF Spaced
<1>8. ASSUME NEW d \in Callers \ {c}, At(d, "chatWait")
      PROVE  /\ call[d].wait + ChatInterval <= chatNext
             /\ chatQuiet + call[d].wait >= ChatInterval
             /\ \A e \in Callers \ {d} :
                   At(e, "chatWait") => Apart(call[d].wait, call[e].wait)
    BY <1>8 DEF Spaced
<1>9. Spaced'
    <2>1. CASE chatNext = 0
        <3>1. ASSUME NEW d \in Callers, call'[d].pc = "chatWait"
              PROVE  /\ d # c /\ At(d, "chatWait") /\ call'[d].wait = call[d].wait
                     /\ ChatInterval = 0 /\ call[d].wait = 0
            <4>1. d # c /\ At(d, "chatWait") /\ call'[d].wait = call[d].wait
                BY <1>3, <1>4, <2>1, <3>1 DEF At
            <4>2. call[d].wait + ChatInterval <= 0
                BY <1>8, <2>1, <4>1
            <4> QED
                BY <1>5, <4>1, <4>2, Positive
        <3>2. chatQuiet' = 0 /\ chatNext' = ChatInterval
            BY <1>1, <2>1, Positive
        <3> QED
            BY <3>1, <3>2, Positive DEF Spaced, At, Apart
    <2>2. CASE chatNext # 0
        <3>1. chatQuiet' = chatQuiet /\ r.pc = "chatWait" /\ r.wait = chatNext
            BY <1>1, <1>3, <2>2
        <3>2. chatQuiet' + chatNext' >= ChatInterval
            BY <1>1, <1>7, <3>1, Positive
        <3>3. ASSUME NEW d \in Callers, call'[d].pc = "chatWait"
              PROVE  /\ call'[d].wait + ChatInterval <= chatNext'
                     /\ chatQuiet' + call'[d].wait >= ChatInterval
            <4>1. CASE d = c
                BY <1>1, <1>4, <1>7, <3>1, <4>1, Positive
            <4>2. CASE d # c
                <5>1. At(d, "chatWait") /\ call'[d] = call[d]
                    BY <1>4, <3>3, <4>2 DEF At
                <5> QED
                    BY <1>1, <1>5, <1>8, <3>1, <4>2, <5>1, Positive
            <4> QED
                BY <4>1, <4>2
        <3>4. ASSUME NEW d \in Callers, call'[d].pc = "chatWait",
                     NEW e \in Callers \ {d}, call'[e].pc = "chatWait"
              PROVE  Apart(call'[d].wait, call'[e].wait)
            <4>1. \A x \in Callers \ {c} : call'[x].pc = "chatWait" =>
                      At(x, "chatWait") /\ call[x].wait + ChatInterval <= chatNext
                BY <1>4, <1>8 DEF At
            <4> QED
                BY <1>4, <1>8, <3>1, <3>4, <4>1 DEF Apart
        <3> QED
            BY <3>2, <3>3, <3>4 DEF Spaced, At, Apart
    <2> QED
        BY <2>1, <2>2
<1>10. QuotaStep
    <2>1. r.pc = "calling" => chatQuiet >= ChatInterval
        BY <1>1, <1>3, <1>7, Positive
    <2> QED
        BY <1>4, <2>1, Positive DEF QuotaStep
<1> QED
    BY <1>6, <1>9, <1>10

LEMMA ChatPassedKeeps ==
    ASSUME ClientTyped, Spaced, NEW c \in Callers, ChatPassed(c), troubled => troubled'
    PROVE  ClientTyped' /\ Spaced' /\ QuotaStep
<1> DEFINE r == Request(call[c])
<1>1. /\ call \in [Callers -> CallRecords] /\ call[c] \in CallRecords
      /\ chatNext \in Nat /\ chatQuiet \in Nat /\ At(c, "chatWait") /\ call[c].wait = 0
      /\ chatNext' = chatNext /\ call' = [call EXCEPT ![c] = r] /\ chatQuiet' = 0
      /\ globalNext' = globalNext /\ health' = health
    BY CallOf DEF ClientTyped, ChatPassed, Update
<1>2. r \in CallRecords
    BY <1>1, RecordsStay
<1>3. r.pc = "calling"
    BY <1>1, Fields
<1> HIDE DEF r
<1>4. /\ call' \in [Callers -> CallRecords] /\ call'[c] = r
      /\ \A d \in Callers \ {c} : call'[d] = call[d]
    BY <1>1, <1>2
<1>5. \A d \in Callers : call[d].wait \in Nat
    BY <1>1 DEF CallRecords
<1>6. ClientTyped'
    <2>1. \A d \in Callers : Sensible(call'[d], troubled')
        BY <1>3, <1>4 DEF ClientTyped, Sensible
    <2> QED
        BY <1>1, <1>4, <2>1 DEF ClientTyped
<1>7. /\ ChatInterval <= chatNext
      /\ chatQuiet >= ChatInterval
      /\ \A d \in Callers \ {c} : At(d, "chatWait") => Apart(0, call[d].wait)
    BY <1>1, <1>5, Positive DEF Spaced
<1>8. \A d \in Callers : call'[d].pc = "chatWait" =>
          d # c /\ At(d, "chatWait") /\ call'[d].wait = call[d].wait
    BY <1>3, <1>4 DEF At
<1>9. \A d \in Callers \ {c} : At(d, "chatWait") => call[d].wait >= ChatInterval
    BY <1>5, <1>7, Positive DEF Apart
<1>10. Spaced'
    BY <1>1, <1>5, <1>7, <1>8, <1>9, Positive DEF Spaced, At, Apart
<1>11. QuotaStep
    BY <1>4, <1>7, Positive DEF QuotaStep
<1> QED
    BY <1>6, <1>10, <1>11

(***************************************************************************)
(* A waiter that gives up hands its token back, unless somebody reserved    *)
(* the one behind it.                                                       *)
(***************************************************************************)
LEMMA ChatGivenUpKeeps ==
    ASSUME ClientTyped, Spaced, NEW c \in Callers, LimiterCanceled(c), At(c, "chatWait"),
           troubled => troubled'
    PROVE  ClientTyped' /\ Spaced' /\ QuotaStep
<1> DEFINE r == Ended(call[c], "canceled")
           w == call[c].wait
<1>1. /\ call \in [Callers -> CallRecords] /\ call[c] \in CallRecords
      /\ chatNext \in Nat /\ chatQuiet \in Nat /\ w \in Nat
      /\ chatNext' = IF chatNext = w + ChatInterval THEN w ELSE chatNext
      /\ call' = [call EXCEPT ![c] = r] /\ chatQuiet' = chatQuiet
      /\ globalNext' = globalNext /\ health' = health
    BY CallOf DEF ClientTyped, LimiterCanceled, Update, GiveBack, At, CallRecords
<1>2. r \in CallRecords /\ r.pc = "ended" /\ r.class = "canceled"
    <2>1. "canceled" \in Classes
        BY DEF Classes
    <2>2. r \in CallRecords
        BY <1>1, <2>1, RecordsStay
    <2> QED
        BY <1>1, <2>1, <2>2, Fields
<1> HIDE DEF r
<1>3. /\ call' \in [Callers -> CallRecords] /\ call'[c] = r
      /\ \A d \in Callers \ {c} : call'[d] = call[d]
    BY <1>1, <1>2
<1>4. \A d \in Callers : call[d].wait \in Nat
    BY <1>1 DEF CallRecords
<1>5. ClientTyped'
    <2>1. \A d \in Callers : Sensible(call'[d], troubled')
        BY <1>2, <1>3 DEF ClientTyped, Sensible
    <2>2. chatNext' \in Nat
        BY <1>1
    <2> QED
        BY <1>1, <1>3, <2>1, <2>2 DEF ClientTyped
<1>6. \A d \in Callers : call'[d].pc = "chatWait" =>
          d # c /\ At(d, "chatWait") /\ call'[d].wait = call[d].wait
    BY <1>2, <1>3 DEF At
<1>7. /\ chatQuiet + w >= ChatInterval
      /\ \A d \in Callers \ {c} : At(d, "chatWait") =>
            /\ Apart(w, call[d].wait)
            /\ call[d].wait + ChatInterval <= chatNext
    BY DEF Spaced
<1>8. ASSUME NEW d \in Callers \ {c}, At(d, "chatWait")
      PROVE  call[d].wait + ChatInterval <= chatNext'
    <2>1. /\ Apart(w, call[d].wait) /\ call[d].wait + ChatInterval <= chatNext
          /\ call[d].wait \in Nat
        BY <1>4, <1>7, <1>8
    <2> HIDE DEF w
    <2> QED
        BY <1>1, <2>1, Positive DEF Apart
<1>9. chatQuiet' + chatNext' >= ChatInterval
    BY <1>1, <1>7 DEF Spaced
<1>10. Spaced'
    <2>1. ASSUME NEW d \in Callers, call'[d].pc = "chatWait"
          PROVE  /\ call'[d].wait + ChatInterval <= chatNext'
                 /\ chatQuiet' + call'[d].wait >= ChatInterval
        BY <1>1, <1>6, <1>8, <2>1 DEF Spaced
    <2>2. ASSUME NEW d \in Callers, call'[d].pc = "chatWait",
                 NEW e \in Callers \ {d}, call'[e].pc = "chatWait"
          PROVE  Apart(call'[d].wait, call'[e].wait)
        BY <1>6, <2>2 DEF Spaced
    <2> QED
        BY <1>9, <2>1, <2>2 DEF Spaced, At, Apart
<1>11. QuotaStep
    BY <1>2, <1>3, Positive DEF QuotaStep
<1> QED
    BY <1>5, <1>10, <1>11

(***************************************************************************)
(* A tick brings all waiters, and the next token, nearer by the same.       *)
(***************************************************************************)
LEMMA TickKeeps ==
    ASSUME ClientTyped, Spaced, ClientTick, troubled' = troubled
    PROVE  ClientTyped' /\ Spaced' /\ QuotaStep
<1>1. /\ call \in [Callers -> CallRecords] /\ globalNext \in Nat
      /\ chatNext \in Nat /\ chatQuiet \in Nat /\ health' = health
      /\ call' = [c \in Callers |-> [call[c] EXCEPT !.left = Less(@), !.wait = Less(@)]]
      /\ globalNext' = Less(globalNext)
      /\ \A c \in Callers : ~Due(c)
    BY DEF ClientTyped, ClientTick
<1>2. \A n \in Nat : Less(n) \in Nat /\ (n > 0 => Less(n) = n - 1) /\ n - 1 <= Less(n)
    BY DEF Less
<1>3. /\ chatNext \in Nat /\ chatNext' = Less(chatNext)
      /\ chatQuiet \in Nat /\ chatQuiet' \in Nat /\ chatQuiet <= chatQuiet'
      /\ chatQuiet < ChatInterval => chatQuiet' = chatQuiet + 1
    <2>1. /\ chatNext' = Less(chatNext) /\ chatQuiet \in Nat /\ chatNext \in Nat
          /\ chatQuiet' = IF chatQuiet < ChatInterval THEN chatQuiet + 1 ELSE chatQuiet
        BY DEF ClientTyped, ClientTick
    <2> QED
        BY <2>1, Positive
<1>4. ASSUME NEW c \in Callers
      PROVE  /\ call'[c] \in CallRecords /\ call'[c].pc = call[c].pc
             /\ call'[c].class = call[c].class /\ call'[c].att = call[c].att
             /\ call[c].wait \in Nat /\ call'[c].wait = Less(call[c].wait)
    <2>1. call[c] \in CallRecords
        BY <1>1
    <2>2. Less(call[c].left) \in Nat /\ Less(call[c].wait) \in Nat
        BY <1>2, <2>1 DEF CallRecords
    <2>3. call'[c] = [call[c] EXCEPT !.left = Less(@), !.wait = Less(@)]
        BY <1>1
    <2> QED
        BY <2>1, <2>2, <2>3 DEF CallRecords
<1>5. call' \in [Callers -> CallRecords]
    <2>1. call' = [c \in Callers |-> call'[c]]
        BY <1>1
    <2> QED
        BY <1>4, <2>1
<1>6. ClientTyped'
    <2>1. \A c \in Callers : Sensible(call'[c], troubled')
        BY <1>4 DEF ClientTyped, Sensible
    <2>2. globalNext' \in Nat /\ chatNext' \in Nat /\ chatQuiet' \in Nat
        BY <1>1, <1>2, <1>3
    <2> QED
        BY <1>1, <1>5, <2>1, <2>2 DEF ClientTyped
<1>7. ASSUME NEW c \in Callers, call'[c].pc = "chatWait"
      PROVE  At(c, "chatWait") /\ call[c].wait > 0 /\ call'[c].wait = call[c].wait - 1
    <2>1. At(c, "chatWait")
        BY <1>4, <1>7 DEF At
    <2>2. call[c].wait # 0
        BY <1>1, <2>1 DEF Due, At
    <2> QED
        BY <1>2, <1>4, <2>1, <2>2
<1>8. ASSUME NEW n \in Nat, chatQuiet + n >= ChatInterval
      PROVE  chatQuiet' + Less(n) >= ChatInterval
    <2>1. Less(n) \in Nat /\ n - 1 <= Less(n)
        BY <1>2
    <2> QED
        BY <1>8, <1>3, <2>1, Positive
<1>9. Spaced'
    <2>1. chatQuiet' + chatNext' >= ChatInterval
        BY <1>8, <1>3 DEF Spaced
    <2>2. ASSUME NEW c \in Callers, call'[c].pc = "chatWait"
          PROVE  /\ call'[c].wait + ChatInterval <= chatNext'
                 /\ chatQuiet' + call'[c].wait >= ChatInterval
        <3>1. /\ At(c, "chatWait") /\ call[c].wait \in Nat /\ call[c].wait > 0
              /\ call'[c].wait = call[c].wait - 1 /\ call'[c].wait = Less(call[c].wait)
            BY <1>4, <1>7, <2>2
        <3>2. /\ call[c].wait + ChatInterval <= chatNext
              /\ chatQuiet + call[c].wait >= ChatInterval
            BY <3>1 DEF Spaced
        <3>3. chatNext' = chatNext - 1
            <4>1. chatNext > 0
                BY <1>3, <3>1, <3>2, Positive
            <4> QED
                BY <1>2, <1>3, <4>1
        <3>4. chatQuiet' + call'[c].wait >= ChatInterval
            BY <1>8, <3>1, <3>2
        <3>5. call'[c].wait + ChatInterval <= chatNext'
            BY <1>3, <3>1, <3>2, <3>3, Positive
        <3> QED
            BY <3>4, <3>5
    <2>3. ASSUME NEW c \in Callers, call'[c].pc = "chatWait",
                 NEW d \in Callers \ {c}, call'[d].pc = "chatWait"
          PROVE  Apart(call'[c].wait, call'[d].wait)
        <3>1. /\ call'[c].wait = call[c].wait - 1 /\ call'[d].wait = call[d].wait - 1
              /\ call[c].wait \in Nat /\ call[d].wait \in Nat
              /\ At(c, "chatWait") /\ At(d, "chatWait")
            BY <1>4, <1>7, <2>3
        <3>2. Apart(call[c].wait, call[d].wait)
            BY <3>1 DEF Spaced
        <3> QED
            BY <3>1, <3>2, Positive DEF Apart
    <2> QED
        BY <2>1, <2>2, <2>3 DEF Spaced, At, Apart
<1>10. QuotaStep
    BY <1>4, Positive DEF QuotaStep
<1> QED
    BY <1>6, <1>9, <1>10

-----------------------------------------------------------------------------
(* The readiness. *)

\* What UnreadyNeedsTrouble says of one step.
ReadyStep == ready /\ ~ready' => troubled'

LEMMA LoopTyped ==
    ASSUME ReadinessTyped
    PROVE  /\ loop.pc \in {"start", "probing", "marking", "waiting"}
           /\ loop.fails \in 0 .. Threshold /\ loop.ever \in BOOLEAN
           /\ loop.wait \in Nat /\ loop.backoff \in Nat
           /\ \A pc \in {"start", "probing", "marking", "waiting"} :
                 [loop EXCEPT !.pc = pc] \in Loops
           /\ \A n \in Nat : [loop EXCEPT !.wait = n] \in Loops
BY DEF ReadinessTyped, Loops

LEMMA ReadinessNumbers ==
    /\ Window \in Nat \ {0} /\ Threshold \in Nat \ {0} /\ ProbeInterval \in Nat
    /\ ProbeBackoff \in Nat /\ ProbeBackoffMax \in Nat
BY ReadinessAssumption

LEMMA PausingTyped ==
    ASSUME NEW fails \in 0 .. Threshold, NEW ever \in BOOLEAN, NEW wait \in Nat,
           NEW backoff \in Nat, Pausing(fails, ever, wait, backoff)
    PROVE  loop' \in Loops
BY DEF Pausing, Loops

LEMMA PausingAfresh ==
    ASSUME Pausing(0, TRUE, ProbeInterval, ProbeBackoff)
    PROVE  loop' \in Loops
<1>1. 0 \in 0 .. Threshold /\ TRUE \in BOOLEAN
    BY ReadinessNumbers
<1> QED
    BY <1>1, PausingTyped, ReadinessNumbers

\* The outcome of a call counts against readiness if it is a server error.
LEMMA RecordKeeps ==
    ASSUME ReadinessTyped, NEW bad \in BOOLEAN, bad => troubled', UNCHANGED loop,
           RecordSendSuccess \/ RecordSendFailure(bad)
    PROVE  ReadinessTyped' /\ ReadyStep
<1>1. CASE RecordSendSuccess
    BY <1>1, ReadinessNumbers DEF RecordSendSuccess, ReadinessTyped, ReadyStep
<1>2. CASE RecordSendFailure(bad) /\ bad
    <2>1. consecFails' \in 0 .. Window
        <3>1. consecFails \in 0 .. Window /\ consecFails' = UpTo(Window, consecFails + 1)
            BY <1>2 DEF RecordSendFailure, ReadinessTyped
        <3> QED
            BY <3>1, ReadinessNumbers DEF UpTo
    <2>2. ready' \in BOOLEAN /\ loop' \in Loops
        BY <1>2 DEF RecordSendFailure, ReadinessTyped
    <2> QED
        BY <1>2, <2>1, <2>2 DEF ReadinessTyped, ReadyStep
<1>3. CASE RecordSendFailure(bad) /\ ~bad
    BY <1>3 DEF RecordSendFailure, ReadinessTyped, ReadyStep
<1> QED
    BY <1>1, <1>2, <1>3

LEMMA LoopKeeps ==
    ASSUME ReadinessTyped, ProbeBegins \/ Marks \/ PauseOver \/ LoopTick \/ UNCHANGED readinessVars
    PROVE  ReadinessTyped' /\ ReadyStep
<1>1. CASE ProbeBegins \/ PauseOver
    <2>1. loop' \in Loops
        BY <1>1, LoopTyped DEF ProbeBegins, PauseOver
    <2>2. ready' = ready /\ consecFails' = consecFails
        BY <1>1 DEF ProbeBegins, PauseOver
    <2> QED
        BY <2>1, <2>2 DEF ReadinessTyped, ReadyStep
<1>2. CASE LoopTick
    <2>1. loop' = [loop EXCEPT !.wait = IF loop.wait > 0 THEN loop.wait - 1 ELSE 0]
        BY <1>2 DEF LoopTick
    <2>2. (IF loop.wait > 0 THEN loop.wait - 1 ELSE 0) \in Nat
        BY LoopTyped
    <2>3. loop' \in Loops
        BY <2>1, <2>2, LoopTyped
    <2> QED
        BY <1>2, <2>3 DEF LoopTick, ReadinessTyped, ReadyStep
<1>3. CASE Marks
    <2>1. loop' \in Loops
        BY <1>3, PausingAfresh DEF Marks
    <2> QED
        BY <1>3, <2>1, ReadinessNumbers DEF Marks, MarkReady, ReadinessTyped, ReadyStep
<1>4. CASE UNCHANGED readinessVars
    BY <1>4 DEF readinessVars, ReadinessTyped, ReadyStep
<1> QED
    BY <1>1, <1>2, <1>3, <1>4

LEMMA ProbedKeeps ==
    ASSUME ReadinessTyped, ProbeSucceeds \/ (ProbeFails /\ troubled')
    PROVE  ReadinessTyped' /\ ReadyStep
<1>1. CASE ProbeSucceeds
    <2>1. CASE ready
        <3>1. loop' \in Loops
            BY <1>1, <2>1, PausingAfresh DEF ProbeSucceeds
        <3> QED
            BY <1>1, <3>1 DEF ProbeSucceeds, ReadinessTyped, ReadyStep
    <2>2. CASE ~ready
        <3>1. loop' \in Loops
            BY <1>1, <2>2, LoopTyped DEF ProbeSucceeds
        <3> QED
            BY <1>1, <3>1 DEF ProbeSucceeds, ReadinessTyped, ReadyStep
    <2> QED
        BY <2>1, <2>2
<1>2. CASE ProbeFails /\ troubled'
    <2>1. /\ UpTo(Threshold, loop.fails + 1) \in 0 .. Threshold
          /\ UpTo(ProbeBackoffMax, 2 * loop.backoff) \in Nat
        BY LoopTyped, ReadinessNumbers DEF UpTo
    <2>2. loop' \in Loops
        BY <1>2, <2>1, LoopTyped, PausingTyped DEF ProbeFails
    <2>3. ready' \in {ready, FALSE} /\ consecFails' = consecFails
        BY <1>2 DEF ProbeFails, MarkUnready
    <2> QED
        BY <1>2, <2>2, <2>3 DEF ReadinessTyped, ReadyStep
<1> QED
    BY <1>1, <1>2

-----------------------------------------------------------------------------
(* The sink as a whole. *)

LEMMA InitMessengerInv == Init => MessengerInv
<1> SUFFICES ASSUME Init
             PROVE  MessengerInv
    OBVIOUS
<1>1. /\ setup \in Setups /\ troubled = FALSE
      /\ call = [c \in Callers |-> Idle] /\ globalNext = 0 /\ chatNext = 0
      /\ chatQuiet = ChatInterval /\ health \in {"up", "busy", "down"}
    BY DEF Init, ClientInit
<1>2. ClientTyped
    BY <1>1, IdleRecords, Positive DEF ClientTyped, Sensible
<1>3. Spaced
    BY <1>1, IdleRecords, Positive DEF Spaced, At
<1>4. ReadinessTyped
    <2>1. /\ ready = FALSE /\ consecFails = 0
          /\ loop = [pc |-> "start", fails |-> 0, ever |-> FALSE, wait |-> 0,
                     backoff |-> ProbeBackoff]
        BY DEF Init, ReadinessInit
    <2>2. 0 \in 0 .. Threshold /\ 0 \in 0 .. Window
        BY ReadinessNumbers
    <2> QED
        BY <2>1, <2>2, ReadinessNumbers DEF ReadinessTyped, Loops
<1> QED
    BY <1>1, <1>2, <1>3, <1>4 DEF MessengerInv

LEMMA CallStepKeeps ==
    ASSUME ClientTyped, Spaced, NEW c \in Callers, Calls(c)
    PROVE  ClientTyped' /\ Spaced' /\ QuotaStep
<1>1. /\ CallStep(c)
      /\ troubled => troubled'
      /\ Answered(c) /\ health = "down" => troubled'
    BY DEF Calls
<1>2. CASE TakeChat(c)
    BY <1>1, <1>2, TakeChatKeeps
<1>3. CASE ChatPassed(c)
    BY <1>1, <1>3, ChatPassedKeeps
<1>4. CASE LimiterCanceled(c) /\ At(c, "chatWait")
    BY <1>1, <1>4, ChatGivenUpKeeps
<1>5. CASE PlainStep(c)
    BY <1>1, <1>5, PlainKeeps
<1>6. CASE TakeGlobal(c) \/ GlobalPassed(c)
    BY <1>1, <1>5, <1>6, TakeGlobalPlain, GlobalPassedPlain
<1>7. CASE Answered(c) \/ TimesOut(c) \/ Retry(c)
    BY <1>1, <1>5, <1>7, AnsweredPlain, TimesOutPlain, RetryPlain
<1>8. CASE LimiterRefuses(c) \/ ContextEnds(c) \/ (LimiterCanceled(c) /\ ~At(c, "chatWait"))
    BY <1>5, <1>8, CanceledPlain
<1> QED
    BY <1>1, <1>2, <1>3, <1>4, <1>6, <1>7, <1>8 DEF CallStep

LEMMA NextMessengerInv ==
    ASSUME MessengerInv, [Next]_vars
    PROVE  MessengerInv' /\ QuotaStep /\ ReadyStep
<1>1. setup \in Setups /\ ClientTyped /\ Spaced /\ ReadinessTyped
    BY DEF MessengerInv
<1>2. /\ setup.senders \subseteq Senders /\ setup.kinds \subseteq {"send", "edit", "answer"}
      /\ setup.budget \in Nat
    <2>1. setup.senders \in SUBSET Senders /\ setup.budget \in 1 .. SendBudget
          /\ setup.kinds \in SUBSET {"send", "edit", "answer"}
        BY <1>1, SetupAssumption
    <2> QED
        BY <2>1, Positive
<1>3. ASSUME NEW c \in Callers, PlainStep(c), troubled => troubled', setup' = setup,
             ReadinessTyped', ReadyStep
      PROVE  MessengerInv' /\ QuotaStep /\ ReadyStep
    BY <1>1, <1>3, PlainKeeps DEF MessengerInv
<1>4. ASSUME NEW c \in Callers, BeginCall(c)
      PROVE  MessengerInv' /\ QuotaStep /\ ReadyStep
    <2>1. PICK kind \in setup.kinds : Begin(c, kind, setup.budget)
        BY <1>4 DEF BeginCall
    <2>2. kind \in {"send", "edit", "answer"} /\ UNCHANGED <<readinessVars, setup, troubled>>
        BY <1>2, <1>4 DEF BeginCall
    <2>3. PlainStep(c)
        BY <1>1, <1>2, <2>1, <2>2, BeginPlain
    <2> QED
        BY <1>1, <1>3, <2>2, <2>3, LoopKeeps
<1>5. ASSUME NEW c \in Callers, Calls(c)
      PROVE  MessengerInv' /\ QuotaStep /\ ReadyStep
    <2>1. UNCHANGED <<readinessVars, setup>>
        BY <1>5 DEF Calls
    <2> QED
        BY <1>1, <1>5, <2>1, CallStepKeeps, LoopKeeps DEF MessengerInv
<1>6. ASSUME NEW c \in Callers, Reports(c)
      PROVE  MessengerInv' /\ QuotaStep /\ ReadyStep
    <2>1. /\ At(c, "ended") /\ Update(c, Rested)
          /\ UNCHANGED <<globalNext, chatNext, chatQuiet, health, loop, setup, troubled>>
        BY <1>6 DEF Reports
    <2>2. PlainStep(c)
        BY <1>1, <2>1, RestPlain
    <2>3. call[c].class = "server" => troubled'
        BY <1>1, <2>1, CallOf DEF Sensible, At
    <2>4. \/ UNCHANGED <<ready, consecFails>>
          \/ RecordSendSuccess
          \/ RecordSendFailure(call[c].class = "server")
        BY <1>6 DEF Reports
    <2>5. ReadinessTyped' /\ ReadyStep
        <3>1. CASE UNCHANGED <<ready, consecFails>>
            BY <1>1, <2>1, <3>1 DEF ReadinessTyped, ReadyStep
        <3>2. CASE RecordSendSuccess \/ RecordSendFailure(call[c].class = "server")
            BY <1>1, <2>1, <2>3, <3>2, RecordKeeps
        <3> QED
            BY <2>4, <3>1, <3>2
    <2> QED
        BY <1>3, <2>1, <2>2, <2>5
<1>7. ASSUME NEW c \in Callers, GivesUp(c)
      PROVE  MessengerInv' /\ QuotaStep /\ ReadyStep
    <2>1. Canceled(c) /\ UNCHANGED <<readinessVars, setup, troubled>>
        BY <1>7 DEF GivesUp
    <2>2. PlainStep(c)
        BY <1>1, <2>1, CanceledByCaller
    <2> QED
        BY <1>1, <1>3, <2>1, <2>2, LoopKeeps
<1>8. CASE Probe
    <2>1. ProbeBegins /\ Begin(Prober, "probe", ProbeTimeout) /\ UNCHANGED <<setup, troubled>>
        BY <1>8 DEF Probe
    <2>2. PlainStep(Prober)
        BY <1>1, <2>1, BeginPlain, Positive
    <2> QED
        BY <1>1, <1>3, <2>1, <2>2, LoopKeeps, Positive
<1>9. CASE Probed
    <2>1. /\ Update(Prober, Idle) /\ troubled' = (troubled \/ call[Prober].class # "ok")
          /\ IF call[Prober].class = "ok" THEN ProbeSucceeds ELSE ProbeFails
          /\ UNCHANGED <<globalNext, chatNext, chatQuiet, health, setup>>
        BY <1>9 DEF Probed
    <2>2. PlainStep(Prober)
        BY <1>1, <2>1, RestPlain, Positive
    <2>3. ProbeSucceeds \/ (ProbeFails /\ troubled')
        BY <2>1
    <2>4. ReadinessTyped' /\ ReadyStep
        BY <1>1, <2>3, ProbedKeeps
    <2> QED
        BY <1>3, <2>1, <2>2, <2>4, Positive
<1>10. ASSUME UNCHANGED <<call, globalNext, chatNext, chatQuiet, setup, troubled>>,
              health' \in {"up", "busy", "down"},
              Marks \/ PauseOver \/ UNCHANGED readinessVars
       PROVE  MessengerInv' /\ QuotaStep /\ ReadyStep
    <2>1. ClientTyped' /\ Spaced' /\ QuotaStep
        BY <1>1, <1>10 DEF ClientTyped, Spaced, At, QuotaStep
    <2> QED
        BY <1>1, <1>10, <2>1, LoopKeeps DEF MessengerInv
<1>11. CASE LoopStep
    BY <1>1, <1>10, <1>11 DEF LoopStep, clientVars, ClientTyped
<1>12. CASE Renders \/ UNCHANGED vars
    BY <1>1, <1>10, <1>12 DEF Renders, vars, clientVars, ClientTyped
<1>13. CASE Changes
    BY <1>10, <1>13 DEF Changes, HealthChanges
<1>14. CASE Tick
    <2>1. /\ ClientTick /\ UNCHANGED <<setup, troubled>>
          /\ LoopTick \/ UNCHANGED readinessVars
        BY <1>14 DEF Tick
    <2> QED
        BY <1>1, <2>1, TickKeeps, LoopKeeps DEF MessengerInv
<1> QED
    BY <1>4, <1>5, <1>6, <1>7, <1>8, <1>9, <1>11, <1>12, <1>13, <1>14 DEF Next

LEMMA SpecMessengerInv == Spec => []MessengerInv
BY InitMessengerInv, NextMessengerInv, PTL DEF Spec
-----------------------------------------------------------------------------
(***************************************************************************)
(* Whatever is called, probed, answered and given up, the variables keep    *)
(* their types, and no call makes an attempt beyond its last.               *)
(***************************************************************************)
THEOREM MessengerTypeOK == Spec => []TypeOK
<1>1. MessengerInv => TypeOK
    <2> SUFFICES ASSUME MessengerInv
                 PROVE  TypeOK
        OBVIOUS
    <2>1. ASSUME NEW c \in Callers
          PROVE  /\ call[c].pc \in {"idle", "global", "globalWait", "chat", "chatWait",
                                    "calling", "sleeping", "ended"}
                 /\ call[c].att \in 0 .. MaxAttempts
                 /\ {call[c].left, call[c].wait} \subseteq Nat
                 /\ call[c].class \in Classes
        BY CallOf DEF MessengerInv, CallRecords, Pcs
    <2>2. {globalNext, chatNext, chatQuiet} \subseteq Nat
        BY DEF MessengerInv, ClientTyped
    <2>3. ready \in BOOLEAN /\ consecFails \in 0 .. Window
        BY DEF MessengerInv, ReadinessTyped
    <2>4. /\ loop.pc \in {"start", "probing", "marking", "waiting"}
          /\ loop.fails \in 0 .. Threshold
        BY LoopTyped DEF MessengerInv
    <2> QED
        BY <2>1, <2>2, <2>3, <2>4 DEF TypeOK
<1> QED
    BY <1>1, SpecMessengerInv, PTL

(***************************************************************************)
(* Whatever number of senders wait, retry or give up, two requests to a     *)
(* chat are at least an interval apart (ratelimit.go).                      *)
(***************************************************************************)
THEOREM MessengerQuotaKept == Spec => QuotaKept
<1>1. MessengerInv /\ [Next]_vars =>
        [\A c \in Senders :
          call'[c].pc = "calling" /\ call[c].pc # "calling" /\ TakesChat(call[c])
              => chatQuiet >= ChatInterval]_vars
    BY NextMessengerInv DEF QuotaStep
<1> QED
    BY <1>1, SpecMessengerInv, PTL DEF Spec, QuotaKept

(***************************************************************************)
(* Client errors, backpressure, the rate limiter and callers that give up   *)
(* never make a ready sink unready (server/readyz.go, sink/sink.go).        *)
(***************************************************************************)
THEOREM MessengerUnreadyNeedsTrouble == Spec => UnreadyNeedsTrouble
<1>1. MessengerInv /\ [Next]_vars => [ready /\ ~ready' => troubled']_vars
    BY NextMessengerInv DEF ReadyStep
<1> QED
    BY <1>1, SpecMessengerInv, PTL DEF Spec, UnreadyNeedsTrouble
-----------------------------------------------------------------------------
(* Induction.  The library states it over operators, which no prover here can *)
(* instantiate; over sets it is a fact about least members.                 *)

\* A set of natural numbers that has a member has a least one.
LEMMA LeastMember ==
    ASSUME NEW B, B \subseteq Nat, B # {}
    PROVE  \E m \in B : \A n \in B : m <= n
<1> DEFINE less == OpToRel(<, Nat)
<1>1. \A m, n \in Nat : m < n => <<m, n>> \in less
    BY DEF OpToRel
<1>2. IsWellFoundedOn(less, Nat)
    BY NatLessThanWellFounded
<1> HIDE DEF less
<1>3. PICK m \in B : \A n \in B : <<n, m>> \notin less
    BY <1>2, WFMin
<1>4. ASSUME NEW n \in B
      PROVE  m <= n
    <2>1. m \in Nat /\ n \in Nat /\ ~(n < m)
        BY <1>1, <1>3
    <2> QED
        BY <2>1
<1> QED
    BY <1>4

\* What holds at first and from each number to the next holds up to n.
LEMMA UpToLast ==
    ASSUME NEW n \in Nat, NEW G, 0 \in G, \A m \in 0 .. n - 1 : m \in G => m + 1 \in G
    PROVE  \A m \in 0 .. n : m \in G
<1> DEFINE B == {m \in 0 .. n : m \notin G}
<1> SUFFICES ASSUME B # {}
             PROVE  FALSE
    OBVIOUS
<1>1. B \subseteq Nat
    OBVIOUS
<1> HIDE DEF B
<1>2. PICK m \in B : \A l \in B : m <= l
    BY <1>1, LeastMember
<1> USE DEF B
<1>3. m # 0 /\ m - 1 \in 0 .. n - 1
    BY <1>2
<1>4. m - 1 \in G
    BY <1>2, <1>3
<1>5. (m - 1) + 1 \in G
    BY <1>3, <1>4
<1> QED
    BY <1>2, <1>5

\* The function that starts at x and takes n steps.
Follows(f, n, x, step) == f = [k \in 0 .. n |-> IF k = 0 THEN x ELSE step[<<k, f[k - 1]>>]]

\* There is one, and its values are of the set the steps stay in.
LEMMA RecursionExists ==
    ASSUME NEW n \in Nat, NEW S, NEW x \in S, NEW step \in [(1 .. n) \X S -> S]
    PROVE  \E f \in [0 .. n -> S] : Follows(f, n, x, step)
<1> DEFINE G == {m \in 0 .. n : \E f \in [0 .. m -> S] : Follows(f, m, x, step)}
<1>1. 0 \in G
    <2> DEFINE f == [k \in 0 .. 0 |-> x]
    <2>1. f \in [0 .. 0 -> S] /\ Follows(f, 0, x, step)
        BY DEF Follows
    <2> QED
        BY <2>1
<1>2. ASSUME NEW m \in 0 .. n - 1, m \in G
      PROVE  m + 1 \in G
    <2>1. PICK f \in [0 .. m -> S] : Follows(f, m, x, step)
        BY <1>2
    <2> DEFINE g == [k \in 0 .. m + 1 |-> IF k \in 0 .. m THEN f[k] ELSE step[<<m + 1, f[m]>>]]
    <2>2. step[<<m + 1, f[m]>>] \in S
        OBVIOUS
    <2>3. g \in [0 .. m + 1 -> S]
        BY <2>2
    <2>4. ASSUME NEW k \in 0 .. m + 1
          PROVE  g[k] = IF k = 0 THEN x ELSE step[<<k, g[k - 1]>>]
        <3>1. CASE k \in 0 .. m
            <4>1. g[k] = f[k] /\ (k # 0 => g[k - 1] = f[k - 1])
                BY <3>1
            <4>2. f[k] = IF k = 0 THEN x ELSE step[<<k, f[k - 1]>>]
                BY <2>1, <3>1 DEF Follows
            <4> QED
                BY <4>1, <4>2
        <3>2. CASE k = m + 1
            <4>1. g[k] = step[<<m + 1, f[m]>>] /\ g[k - 1] = f[m] /\ k # 0
                BY <3>2
            <4> QED
                BY <3>2, <4>1
        <3> QED
            BY <3>1, <3>2
    <2> HIDE DEF g
    <2>5. Follows(g, m + 1, x, step)
        BY <2>3, <2>4 DEF Follows
    <2> QED
        BY <2>3, <2>5
<1> HIDE DEF G
<1>3. \A m \in 0 .. n : m \in G
    BY <1>1, <1>2, UpToLast
<1>4. n \in G
    BY <1>3
<1> QED
    BY <1>4 DEF G

-----------------------------------------------------------------------------
(* The tags that are open within a text. *)

\* Texts as the splitter takes them, and the tags open at some point of one.
Strings == Seq(Tokens)
Stacks == Seq(Opens)

LEMMA GreatestMember ==
    ASSUME NEW n \in Nat, NEW B, B \subseteq 0 .. n, B # {}
    PROVE  \E m \in B : \A k \in B : k <= m
<1> DEFINE C == {n - k : k \in B}
<1>1. C \subseteq Nat /\ C # {}
    <2>1. PICK k \in B : TRUE
        OBVIOUS
    <2>2. n - k \in C
        OBVIOUS
    <2> QED
        BY <2>2
<1> HIDE DEF C
<1>2. PICK c \in C : \A d \in C : c <= d
    BY <1>1, LeastMember
<1>3. PICK m \in B : c = n - m
    BY <1>2 DEF C
<1>4. ASSUME NEW k \in B
      PROVE  k <= m
    <2>1. n - k \in C
        BY DEF C
    <2>2. c <= n - k
        BY <1>2, <2>1
    <2> QED
        BY <1>3, <2>2
<1> QED
    BY <1>4

\* Opening tags, closing tags, blanks and letters are different tokens.
LEMMA TokenKinds ==
    /\ CloserOf \in [Opens -> Closes]
    /\ Opens \cap Closes = {}
    /\ Letters \cap (Opens \cup Closes \cup Blank) = {}
    /\ Blank \cap (Opens \cup Closes) = {}
    /\ Tokens = Opens \cup Closes \cup Blank \cup Letters
BY DEF Opens, Closes, CloserOf, Letters, Blank, Tokens

\* The tag that t closes.
Innermost(stack, t, j) ==
    /\ j \in 1 .. Len(stack)
    /\ CloserOf[stack[j]] = t
    /\ \A l \in 1 .. Len(stack) : l > j => CloserOf[stack[l]] # t

LEMMA ScanCases ==
    ASSUME NEW stack \in Stacks, NEW t \in Tokens
    PROVE  /\ t \in Opens => Scan(stack, t) = Append(stack, t)
           /\ t \in Closes /\ (\E j \in 1 .. Len(stack) : CloserOf[stack[j]] = t)
                => \E j : Innermost(stack, t, j) /\ Scan(stack, t) = SubSeq(stack, 1, j - 1)
           /\ t \in Closes /\ ~(\E j \in 1 .. Len(stack) : CloserOf[stack[j]] = t)
                => Scan(stack, t) = stack
           /\ t \notin Opens \cup Closes => Scan(stack, t) = stack
<1>0. DOMAIN stack = 1 .. Len(stack) /\ Len(stack) \in Nat
    BY DEF Stacks
<1>1. ASSUME t \in Opens
      PROVE  Scan(stack, t) = Append(stack, t)
    BY <1>1, TokenKinds DEF Scan
<1>2. ASSUME t \in Closes, \E j \in 1 .. Len(stack) : CloserOf[stack[j]] = t
      PROVE  \E j : Innermost(stack, t, j) /\ Scan(stack, t) = SubSeq(stack, 1, j - 1)
    <2> DEFINE B == {j \in 1 .. Len(stack) : CloserOf[stack[j]] = t}
    <2>1. B \subseteq 0 .. Len(stack) /\ B # {}
        BY <1>0, <1>2
    <2>2. PICK m \in B : \A k \in B : k <= m
        <3> HIDE DEF B
        <3> QED
            BY <1>0, <2>1, GreatestMember
    <2>3. Innermost(stack, t, m)
        BY <1>0, <2>2 DEF Innermost
    <2> DEFINE j == CHOOSE j \in DOMAIN stack :
                        /\ CloserOf[stack[j]] = t
                        /\ \A l \in DOMAIN stack : l > j => CloserOf[stack[l]] # t
    <2>4. Innermost(stack, t, j)
        BY <1>0, <2>3 DEF Innermost
    <2>5. t \notin Opens /\ (\E i \in DOMAIN stack : CloserOf[stack[i]] = t)
        BY <1>0, <1>2, TokenKinds
    <2>6. Scan(stack, t) = SubSeq(stack, 1, j - 1)
        BY <1>2, <2>5 DEF Scan
    <2> HIDE DEF j
    <2> QED
        BY <2>4, <2>6
<1>3. ASSUME t \in Closes, ~(\E j \in 1 .. Len(stack) : CloserOf[stack[j]] = t)
      PROVE  Scan(stack, t) = stack
    BY <1>0, <1>3, TokenKinds DEF Scan
<1>4. ASSUME t \notin Opens \cup Closes
      PROVE  Scan(stack, t) = stack
    BY <1>4 DEF Scan
<1> QED
    BY <1>1, <1>2, <1>3, <1>4

LEMMA ScanStack ==
    ASSUME NEW stack \in Stacks, NEW t \in Tokens
    PROVE  Scan(stack, t) \in Stacks
<1>1. CASE t \in Opens
    BY <1>1, ScanCases DEF Stacks
<1>2. CASE t \in Closes /\ (\E j \in 1 .. Len(stack) : CloserOf[stack[j]] = t)
    <2>1. PICK j : Innermost(stack, t, j) /\ Scan(stack, t) = SubSeq(stack, 1, j - 1)
        BY <1>2, ScanCases
    <2>2. j \in 1 .. Len(stack) /\ Len(stack) \in Nat
        BY <2>1 DEF Innermost, Stacks
    <2>3. \A i \in 1 .. j - 1 : stack[i] \in Opens
        BY <2>2 DEF Stacks
    <2>4. SubSeq(stack, 1, j - 1) \in Seq(Opens)
        BY <2>2, <2>3, SubSeqProperties
    <2> QED
        BY <2>1, <2>4 DEF Stacks
<1> QED
    BY <1>1, <1>2, ScanCases

\* A tag that closes the innermost open one takes only this from the stack.
LEMMA ScanInnermost ==
    ASSUME NEW stack \in Stacks, NEW t \in Closes, stack # <<>>, CloserOf[Last(stack)] = t
    PROVE  Scan(stack, t) = SubSeq(stack, 1, Len(stack) - 1)
<1>0. Len(stack) \in Nat \ {0} /\ t \in Tokens
    BY TokenKinds, EmptySeq DEF Stacks
<1>1. PICK j : Innermost(stack, t, j) /\ Scan(stack, t) = SubSeq(stack, 1, j - 1)
    BY <1>0, ScanCases DEF Last
<1>2. j = Len(stack)
    BY <1>0, <1>1 DEF Innermost, Last
<1> QED
    BY <1>1, <1>2

NestedStep(s) == [p \in (1 .. Len(s)) \X Stacks |-> Scan(p[2], s[p[1]])]

\* The recursive function of Nested meets its own equation.
LEMMA NestedIs ==
    ASSUME NEW s \in Strings, NEW stack \in Stacks
    PROVE  /\ Nested(s, stack) \in [0 .. Len(s) -> Stacks]
           /\ Nested(s, stack)[0] = stack
           /\ \A k \in 1 .. Len(s) : Nested(s, stack)[k] = Scan(Nested(s, stack)[k - 1], s[k])
<1>0. Len(s) \in Nat /\ \A k \in 1 .. Len(s) : s[k] \in Tokens
    BY DEF Strings
<1>1. NestedStep(s) \in [(1 .. Len(s)) \X Stacks -> Stacks]
    BY <1>0, ScanStack DEF NestedStep
<1>2. PICK f \in [0 .. Len(s) -> Stacks] : Follows(f, Len(s), stack, NestedStep(s))
    BY <1>0, <1>1, RecursionExists
<1>3. f = [k \in 0 .. Len(s) |-> IF k = 0 THEN stack ELSE Scan(f[k - 1], s[k])]
    <2>1. \A k \in 0 .. Len(s) : f[k] = IF k = 0 THEN stack ELSE NestedStep(s)[<<k, f[k - 1]>>]
        BY <1>2 DEF Follows
    <2>2. ASSUME NEW k \in 1 .. Len(s)
          PROVE  NestedStep(s)[<<k, f[k - 1]>>] = Scan(f[k - 1], s[k])
        <3>1. f[k - 1] \in Stacks
            BY <1>0
        <3> QED
            BY <3>1 DEF NestedStep
    <2>3. ASSUME NEW k \in 0 .. Len(s)
          PROVE  f[k] = IF k = 0 THEN stack ELSE Scan(f[k - 1], s[k])
        <3>1. CASE k = 0
            BY <2>1, <3>1
        <3>2. CASE k # 0
            <4>1. k \in 1 .. Len(s)
                BY <1>0, <3>2
            <4> QED
                BY <2>1, <2>2, <3>2, <4>1
        <3> QED
            BY <3>1, <3>2
    <2> QED
        BY <2>3
<1> DEFINE after == CHOOSE g : g = [k \in 0 .. Len(s) |-> IF k = 0 THEN stack ELSE Scan(g[k - 1], s[k])]
<1>4. after = [k \in 0 .. Len(s) |-> IF k = 0 THEN stack ELSE Scan(after[k - 1], s[k])]
    BY <1>3
<1>5. Nested(s, stack) = after
    BY DEF Nested
<1> HIDE DEF after
<1>6. \A k \in 1 .. Len(s) : after[k] = Scan(after[k - 1], s[k])
    BY <1>4
<1>7. after[0] = stack
    BY <1>0, <1>4
<1> DEFINE G == {k \in 0 .. Len(s) : after[k] \in Stacks}
<1>8. 0 \in G
    BY <1>0, <1>7
<1>9. ASSUME NEW m \in 0 .. Len(s) - 1, m \in G
      PROVE  m + 1 \in G
    <2>1. m + 1 \in 1 .. Len(s) /\ (m + 1) - 1 = m
        BY <1>0
    <2>2. after[m + 1] = Scan(after[m], s[m + 1])
        BY <1>6, <2>1
    <2> QED
        BY <1>0, <1>9, <2>1, <2>2, ScanStack
<1> HIDE DEF G
<1>10. \A k \in 0 .. Len(s) : k \in G
    BY <1>0, <1>8, <1>9, UpToLast
<1>11. \A k \in 0 .. Len(s) : after[k] \in Stacks
    BY <1>10 DEF G
<1> QED
    BY <1>4, <1>5, <1>6, <1>7, <1>11

-----------------------------------------------------------------------------
(* One text after another. *)

LEMMA Concat ==
    ASSUME NEW S, NEW a \in Seq(S), NEW b \in Seq(S)
    PROVE  /\ Len(a) \in Nat /\ Len(b) \in Nat
           /\ a \o b \in Seq(S)
           /\ Len(a \o b) = Len(a) + Len(b)
           /\ \A k \in 1 .. Len(a) : (a \o b)[k] = a[k]
           /\ \A k \in 1 .. Len(b) : (a \o b)[Len(a) + k] = b[k]
<1>1. Len(a) \in Nat /\ Len(b) \in Nat
    OBVIOUS
<1>2. /\ a \o b \in Seq(S)
      /\ Len(a \o b) = Len(a) + Len(b)
      /\ \A k \in 1 .. Len(a) + Len(b) : (a \o b)[k] = IF k <= Len(a) THEN a[k] ELSE b[k - Len(a)]
    BY ConcatProperties
<1>3. ASSUME NEW k \in 1 .. Len(a)
      PROVE  (a \o b)[k] = a[k]
    BY <1>1, <1>2
<1>4. ASSUME NEW k \in 1 .. Len(b)
      PROVE  (a \o b)[Len(a) + k] = b[k]
    <2>1. Len(a) + k \in 1 .. Len(a) + Len(b) /\ ~(Len(a) + k <= Len(a)) /\ (Len(a) + k) - Len(a) = k
        BY <1>1
    <2> QED
        BY <1>2, <2>1
<1> QED
    BY <1>1, <1>2, <1>3, <1>4

LEMMA StackAfter ==
    ASSUME NEW s \in Strings, NEW stack \in Stacks
    PROVE  scanTags(s, stack) \in Stacks
<1>1. Len(s) \in 0 .. Len(s)
    BY DEF Strings
<1> QED
    BY <1>1, NestedIs DEF scanTags

\* The tags open within one text after another are those open within the first,
\* then those open within the second behind it.
LEMMA NestedConcat ==
    ASSUME NEW a \in Strings, NEW b \in Strings, NEW stack \in Stacks
    PROVE  /\ \A k \in 0 .. Len(a) : Nested(a \o b, stack)[k] = Nested(a, stack)[k]
           /\ \A k \in 0 .. Len(b) :
                 Nested(a \o b, stack)[Len(a) + k] = Nested(b, scanTags(a, stack))[k]
<1>1. /\ Len(a) \in Nat /\ Len(b) \in Nat
      /\ a \o b \in Strings
      /\ Len(a \o b) = Len(a) + Len(b)
      /\ \A k \in 1 .. Len(a) : (a \o b)[k] = a[k]
      /\ \A k \in 1 .. Len(b) : (a \o b)[Len(a) + k] = b[k]
    BY Concat DEF Strings
<1> DEFINE f == Nested(a \o b, stack)
           g == Nested(a, stack)
           h == Nested(b, scanTags(a, stack))
<1>2. scanTags(a, stack) \in Stacks
    BY StackAfter
<1>3. f[0] = stack /\ \A k \in 1 .. Len(a) + Len(b) : f[k] = Scan(f[k - 1], (a \o b)[k])
    BY <1>1, NestedIs
<1>4. g[0] = stack /\ \A k \in 1 .. Len(a) : g[k] = Scan(g[k - 1], a[k])
    BY NestedIs
<1>5. h[0] = g[Len(a)] /\ \A k \in 1 .. Len(b) : h[k] = Scan(h[k - 1], b[k])
    BY <1>2, NestedIs DEF scanTags
<1> HIDE DEF f, g, h
<1>6. \A k \in 0 .. Len(a) : f[k] = g[k]
    <2> DEFINE G == {k \in 0 .. Len(a) : f[k] = g[k]}
    <2>1. 0 \in G
        BY <1>1, <1>3, <1>4
    <2>2. ASSUME NEW m \in 0 .. Len(a) - 1, m \in G
          PROVE  m + 1 \in G
        <3>1. m + 1 \in 1 .. Len(a) /\ m + 1 \in 1 .. Len(a) + Len(b) /\ (m + 1) - 1 = m
            BY <1>1
        <3>2. f[m + 1] = Scan(f[m], (a \o b)[m + 1]) /\ g[m + 1] = Scan(g[m], a[m + 1])
            BY <1>3, <1>4, <3>1
        <3>3. (a \o b)[m + 1] = a[m + 1]
            BY <1>1, <3>1
        <3> QED
            BY <1>1, <2>2, <3>1, <3>2, <3>3
    <2> HIDE DEF G
    <2>3. \A k \in 0 .. Len(a) : k \in G
        BY <1>1, <2>1, <2>2, UpToLast
    <2> QED
        BY <2>3 DEF G
<1>7. \A k \in 0 .. Len(b) : f[Len(a) + k] = h[k]
    <2> DEFINE G == {k \in 0 .. Len(b) : f[Len(a) + k] = h[k]}
    <2>1. 0 \in G
        <3>1. f[Len(a)] = g[Len(a)] /\ Len(a) + 0 = Len(a)
            BY <1>1, <1>6
        <3> QED
            BY <1>1, <1>5, <3>1
    <2>2. ASSUME NEW m \in 0 .. Len(b) - 1, m \in G
          PROVE  m + 1 \in G
        <3>1. /\ m + 1 \in 1 .. Len(b) /\ Len(a) + (m + 1) \in 1 .. Len(a) + Len(b)
              /\ (m + 1) - 1 = m /\ (Len(a) + (m + 1)) - 1 = Len(a) + m
            BY <1>1
        <3>2. f[Len(a) + (m + 1)] = Scan(f[Len(a) + m], (a \o b)[Len(a) + (m + 1)])
            BY <1>3, <3>1
        <3>3. h[m + 1] = Scan(h[m], b[m + 1])
            BY <1>5, <3>1
        <3>4. (a \o b)[Len(a) + (m + 1)] = b[m + 1]
            BY <1>1, <3>1
        <3> QED
            BY <1>1, <2>2, <3>1, <3>2, <3>3, <3>4
    <2> HIDE DEF G
    <2>3. \A k \in 0 .. Len(b) : k \in G
        BY <1>1, <2>1, <2>2, UpToLast
    <2> QED
        BY <2>3 DEF G
<1> QED
    BY <1>6, <1>7 DEF f, g, h

LEMMA ScanConcat ==
    ASSUME NEW a \in Strings, NEW b \in Strings, NEW stack \in Stacks
    PROVE  scanTags(a \o b, stack) = scanTags(b, scanTags(a, stack))
<1>1. Len(b) \in 0 .. Len(b) /\ Len(a \o b) = Len(a) + Len(b)
    BY Concat DEF Strings
<1>2. Nested(a \o b, stack)[Len(a) + Len(b)] = Nested(b, scanTags(a, stack))[Len(b)]
    BY <1>1, NestedConcat
<1>3. scanTags(a \o b, stack) = Nested(a \o b, stack)[Len(a) + Len(b)]
    BY <1>1 DEF scanTags
<1>4. scanTags(b, scanTags(a, stack)) = Nested(b, scanTags(a, stack))[Len(b)]
    BY DEF scanTags
<1> QED
    BY <1>2, <1>3, <1>4

\* Texts without tags leave the stack alone.
LEMMA ScanNoTags ==
    ASSUME NEW s \in Strings, NEW stack \in Stacks,
           \A k \in 1 .. Len(s) : s[k] \notin Opens \cup Closes
    PROVE  scanTags(s, stack) = stack
<1> DEFINE f == Nested(s, stack)
           G == {k \in 0 .. Len(s) : f[k] = stack}
<1>0. Len(s) \in Nat /\ \A k \in 1 .. Len(s) : s[k] \in Tokens
    BY DEF Strings
<1>1. f[0] = stack /\ \A k \in 1 .. Len(s) : f[k] = Scan(f[k - 1], s[k])
    BY NestedIs
<1> HIDE DEF f
<1>2. 0 \in G
    BY <1>0, <1>1
<1>3. ASSUME NEW m \in 0 .. Len(s) - 1, m \in G
      PROVE  m + 1 \in G
    <2>1. m + 1 \in 1 .. Len(s) /\ (m + 1) - 1 = m
        BY <1>0
    <2>2. f[m + 1] = Scan(stack, s[m + 1])
        BY <1>1, <1>3, <2>1
    <2>3. Scan(stack, s[m + 1]) = stack
        BY <1>0, <2>1, ScanCases
    <2> QED
        BY <1>0, <2>1, <2>2, <2>3
<1> HIDE DEF G
<1>4. \A k \in 0 .. Len(s) : k \in G
    BY <1>0, <1>2, <1>3, UpToLast
<1>5. f[Len(s)] = stack
    BY <1>0, <1>4 DEF G
<1> QED
    BY <1>5 DEF f, scanTags

-----------------------------------------------------------------------------
(* The tags a part reopens and those it closes. *)

LEMMA PrefixIs ==
    ASSUME NEW S, NEW s \in Seq(S), NEW n \in 0 .. Len(s)
    PROVE  /\ SubSeq(s, 1, n) \in Seq(S)
           /\ Len(SubSeq(s, 1, n)) = n
           /\ \A k \in 1 .. n : SubSeq(s, 1, n)[k] = s[k]
<1>1. Len(s) \in Nat /\ n \in Nat /\ \A k \in 1 .. n : s[k] \in S
    OBVIOUS
<1>2. /\ SubSeq(s, 1, n) \in Seq(S)
      /\ Len(SubSeq(s, 1, n)) = IF 1 <= n THEN n - 1 + 1 ELSE 0
      /\ \A k \in 1 .. n - 1 + 1 : SubSeq(s, 1, n)[k] = s[1 + k - 1]
    BY <1>1, SubSeqProperties
<1> QED
    BY <1>1, <1>2

LEMMA PrefixOfPrefix ==
    ASSUME NEW S, NEW s \in Seq(S), NEW n \in 0 .. Len(s), NEW k \in 0 .. n
    PROVE  SubSeq(SubSeq(s, 1, n), 1, k) = SubSeq(s, 1, k)
<1>0. k \in 0 .. Len(s) /\ Len(s) \in Nat
    OBVIOUS
<1> DEFINE p == SubSeq(s, 1, n)
<1>1. p \in Seq(S) /\ Len(p) = n /\ \A j \in 1 .. n : p[j] = s[j]
    BY PrefixIs
<1> HIDE DEF p
<1>2. k \in 0 .. Len(p)
    BY <1>1
<1>3. SubSeq(p, 1, k) \in Seq(S) /\ Len(SubSeq(p, 1, k)) = k
      /\ \A j \in 1 .. k : SubSeq(p, 1, k)[j] = p[j]
    BY <1>1, <1>2, PrefixIs
<1>4. SubSeq(s, 1, k) \in Seq(S) /\ Len(SubSeq(s, 1, k)) = k
      /\ \A j \in 1 .. k : SubSeq(s, 1, k)[j] = s[j]
    BY <1>0, PrefixIs
<1>5. \A j \in 1 .. k : SubSeq(p, 1, k)[j] = SubSeq(s, 1, k)[j]
    BY <1>0, <1>1, <1>3, <1>4
<1>6. SubSeq(p, 1, k) = SubSeq(s, 1, k)
    BY <1>3, <1>4, <1>5, SeqEqual
<1> QED
    BY <1>6 DEF p

LEMMA PrefixGrows ==
    ASSUME NEW S, NEW s \in Seq(S), NEW m \in 0 .. Len(s) - 1
    PROVE  SubSeq(s, 1, m + 1) = Append(SubSeq(s, 1, m), s[m + 1])
<1>0. /\ m \in 0 .. Len(s) /\ m + 1 \in 0 .. Len(s) /\ m + 1 \in 1 .. Len(s)
      /\ m \in Nat /\ s[m + 1] \in S
    OBVIOUS
<1> DEFINE p == SubSeq(s, 1, m)
           q == SubSeq(s, 1, m + 1)
<1>1. p \in Seq(S) /\ Len(p) = m /\ \A j \in 1 .. m : p[j] = s[j]
    BY <1>0, PrefixIs
<1>2. q \in Seq(S) /\ Len(q) = m + 1 /\ \A j \in 1 .. m + 1 : q[j] = s[j]
    BY <1>0, PrefixIs
<1> HIDE DEF p, q
<1>3. /\ Append(p, s[m + 1]) \in Seq(S)
      /\ Len(Append(p, s[m + 1])) = m + 1
      /\ \A j \in 1 .. m : Append(p, s[m + 1])[j] = p[j]
      /\ Append(p, s[m + 1])[m + 1] = s[m + 1]
    BY <1>0, <1>1, AppendProperties
<1>4. \A j \in 1 .. m + 1 : q[j] = Append(p, s[m + 1])[j]
    BY <1>0, <1>1, <1>2, <1>3
<1>5. q = Append(p, s[m + 1])
    BY <1>2, <1>3, <1>4, SeqEqual
<1> QED
    BY <1>5 DEF p, q

\* The tags a part begins with open exactly the stack they come from.
LEMMA NestedOpens ==
    ASSUME NEW stack \in Stacks
    PROVE  /\ stack \in Strings
           /\ \A k \in 1 .. Len(stack) : stack[k] \in Opens
           /\ scanTags(stack, <<>>) = stack
<1>0. Len(stack) \in Nat /\ \A k \in 1 .. Len(stack) : stack[k] \in Opens
    BY DEF Stacks
<1>1. stack \in Strings
    BY TokenKinds DEF Stacks, Strings
<1>2. <<>> \in Stacks
    BY DEF Stacks
<1> DEFINE f == Nested(stack, <<>>)
           G == {k \in 0 .. Len(stack) : f[k] = SubSeq(stack, 1, k)}
<1>3. f[0] = <<>> /\ \A k \in 1 .. Len(stack) : f[k] = Scan(f[k - 1], stack[k])
    BY <1>1, <1>2, NestedIs
<1> HIDE DEF f
<1>4. 0 \in G
    <2>1. SubSeq(stack, 1, 0) = <<>>
        BY SubSeqEmpty
    <2>2. f[0] = SubSeq(stack, 1, 0)
        BY <1>3, <2>1
    <2> QED
        BY <1>0, <2>2
<1>5. ASSUME NEW m \in 0 .. Len(stack) - 1, m \in G
      PROVE  m + 1 \in G
    <2>1. /\ m + 1 \in 1 .. Len(stack) /\ (m + 1) - 1 = m /\ m \in 0 .. Len(stack)
          /\ stack[m + 1] \in Opens /\ stack[m + 1] \in Tokens
        BY <1>0, TokenKinds
    <2>2. f[m + 1] = Scan(SubSeq(stack, 1, m), stack[m + 1])
        BY <1>3, <1>5, <2>1
    <2>3. SubSeq(stack, 1, m) \in Stacks
        BY <2>1, PrefixIs DEF Stacks
    <2>4. f[m + 1] = Append(SubSeq(stack, 1, m), stack[m + 1])
        BY <2>1, <2>2, <2>3, ScanCases
    <2>5. f[m + 1] = SubSeq(stack, 1, m + 1)
        BY <2>4, PrefixGrows DEF Stacks
    <2> QED
        BY <1>0, <2>1, <2>5
<1> HIDE DEF G
<1>6. \A k \in 0 .. Len(stack) : k \in G
    BY <1>0, <1>4, <1>5, UpToLast
<1>7. f[Len(stack)] = SubSeq(stack, 1, Len(stack))
    BY <1>0, <1>6 DEF G
<1>8. SubSeq(stack, 1, Len(stack)) = stack
    BY SubSeqFull DEF Stacks
<1> QED
    BY <1>0, <1>1, <1>7, <1>8 DEF f, scanTags

\* The tags a part ends with close the stack, the innermost first.
LEMMA NestedCloses ==
    ASSUME NEW stack \in Stacks
    PROVE  /\ closingTags(stack) \in Strings
           /\ Len(closingTags(stack)) = Len(stack)
           /\ \A k \in 1 .. Len(stack) : closingTags(stack)[k] \in Closes
           /\ \A k \in 1 .. Len(stack) :
                 LET rest == Nested(closingTags(stack), stack)[k - 1]
                 IN rest # <<>> /\ CloserOf[Last(rest)] = closingTags(stack)[k]
           /\ scanTags(closingTags(stack), stack) = <<>>
<1> DEFINE n == Len(stack)
           c == closingTags(stack)
           f == Nested(c, stack)
           G == {k \in 0 .. n : f[k] = SubSeq(stack, 1, n - k)}
<1>0. n \in Nat /\ DOMAIN stack = 1 .. n /\ \A k \in 1 .. n : stack[k] \in Opens
    BY DEF Stacks
<1>1. c = [k \in 1 .. n |-> CloserOf[stack[n + 1 - k]]]
    BY <1>0 DEF closingTags
<1>2. ASSUME NEW k \in 1 .. n
      PROVE  c[k] = CloserOf[stack[n + 1 - k]] /\ c[k] \in Closes /\ c[k] \in Tokens
    <2>1. n + 1 - k \in 1 .. n
        BY <1>0
    <2> QED
        BY <1>0, <1>1, <2>1, TokenKinds
<1> HIDE DEF c, n
<1>3. c \in [1 .. n -> Tokens]
    BY <1>1, <1>2
<1>4. c \in Strings /\ Len(c) = n
    BY <1>0, <1>3 DEF Strings
<1>5. f[0] = stack /\ \A k \in 1 .. n : f[k] = Scan(f[k - 1], c[k])
    BY <1>4, NestedIs
<1> HIDE DEF f
<1>6. ASSUME NEW m \in 0 .. n - 1
      PROVE  LET rest == SubSeq(stack, 1, n - m)
             IN  /\ rest \in Stacks /\ rest # <<>> /\ CloserOf[Last(rest)] = c[m + 1]
                 /\ Scan(rest, c[m + 1]) = SubSeq(stack, 1, n - (m + 1))
    <2> DEFINE rest == SubSeq(stack, 1, n - m)
    <2>1. /\ n - m \in 0 .. Len(stack) /\ n - m \in 1 .. n /\ m + 1 \in 1 .. n
          /\ n + 1 - (m + 1) = n - m /\ (n - m) - 1 = n - (m + 1)
          /\ n - (m + 1) \in 0 .. n - m
        <3>1. m \in Int /\ 0 <= m /\ m <= n - 1 /\ n = Len(stack)
            BY <1>0 DEF n
        <3>2. n - m \in 1 .. n /\ m + 1 \in 1 .. n
            BY <1>0, <3>1
        <3>3. n + 1 - (m + 1) = n - m /\ (n - m) - 1 = n - (m + 1)
            <4>1. n \in Nat /\ m \in Int
                BY <1>0, <3>1
            <4> HIDE DEF n
            <4>2. \A i \in Int, j \in Int : i + 1 - (j + 1) = i - j /\ (i - j) - 1 = i - (j + 1)
                OBVIOUS
            <4> QED
                BY <4>1, <4>2
        <3>4. n - m \in 0 .. n /\ n - (m + 1) \in 0 .. n - m
            BY <1>0, <3>1
        <3> QED
            BY <3>1, <3>2, <3>3, <3>4
    <2>2. rest \in Stacks /\ Len(rest) = n - m /\ \A k \in 1 .. n - m : rest[k] = stack[k]
        BY <2>1, PrefixIs DEF Stacks
    <2> HIDE DEF rest
    <2>3. rest # <<>>
        BY <2>1, <2>2, EmptySeq
    <2>4. CloserOf[Last(rest)] = c[m + 1]
        BY <1>2, <2>1, <2>2 DEF Last
    <2>5. Scan(rest, c[m + 1]) = SubSeq(rest, 1, Len(rest) - 1)
        BY <1>2, <2>1, <2>2, <2>3, <2>4, ScanInnermost
    <2>6. SubSeq(rest, 1, n - (m + 1)) = SubSeq(stack, 1, n - (m + 1))
        BY <2>1, PrefixOfPrefix DEF Stacks, rest
    <2> QED
        BY <2>1, <2>2, <2>3, <2>4, <2>5, <2>6 DEF rest
<1>7. 0 \in G
    <2>1. SubSeq(stack, 1, n) = stack /\ n - 0 = n
        BY <1>0, SubSeqFull DEF Stacks, n
    <2> QED
        BY <1>0, <1>5, <2>1
<1>8. ASSUME NEW m \in 0 .. n - 1, m \in G
      PROVE  m + 1 \in G
    <2>1. m + 1 \in 1 .. n /\ m + 1 \in 0 .. n /\ (m + 1) - 1 = m
        BY <1>0
    <2>2. f[m + 1] = Scan(SubSeq(stack, 1, n - m), c[m + 1])
        BY <1>5, <1>8, <2>1
    <2> QED
        BY <1>6, <2>1, <2>2
<1> HIDE DEF G
<1>9. \A k \in 0 .. n : k \in G
    BY <1>0, <1>7, <1>8, UpToLast
<1>10. ASSUME NEW k \in 1 .. n
       PROVE  f[k - 1] # <<>> /\ CloserOf[Last(f[k - 1])] = c[k]
    <2>1. k - 1 \in 0 .. n - 1 /\ k - 1 \in 0 .. n /\ (k - 1) + 1 = k
        BY <1>0
    <2>2. f[k - 1] = SubSeq(stack, 1, n - (k - 1))
        BY <1>9, <2>1 DEF G
    <2> QED
        BY <1>6, <2>1, <2>2
<1>11. f[n] = <<>>
    <2>1. f[n] = SubSeq(stack, 1, n - n) /\ n - n = 0
        BY <1>0, <1>9 DEF G
    <2> QED
        BY <2>1, SubSeqEmpty
<1> QED
    BY <1>2, <1>4, <1>10, <1>11 DEF c, n, f, scanTags

-----------------------------------------------------------------------------
(* The letters that are shown, and how. *)

\* What a text shows: its letters, each with the tags it stands in.
Shows == Seq(Letters \X Stacks)

StyledNext(s, stack, k, shown) ==
    IF s[k] \in Letters THEN Append(shown, <<s[k], Nested(s, stack)[k - 1]>>) ELSE shown

StyledUpTo(s, stack) ==
    CHOOSE g : g = [k \in 0 .. Len(s) |->
                      IF k = 0 THEN <<>>
                      ELSE IF s[k] \in Letters THEN Append(g[k - 1], <<s[k], Nested(s, stack)[k - 1]>>)
                      ELSE g[k - 1]]

\* The recursive function of Styled meets its own equation.
LEMMA StyledIs ==
    ASSUME NEW s \in Strings, NEW stack \in Stacks
    PROVE  /\ Styled(s, stack) = StyledUpTo(s, stack)[Len(s)]
           /\ StyledUpTo(s, stack) \in [0 .. Len(s) -> Shows]
           /\ StyledUpTo(s, stack)[0] = <<>>
           /\ \A k \in 1 .. Len(s) :
                 StyledUpTo(s, stack)[k] = StyledNext(s, stack, k, StyledUpTo(s, stack)[k - 1])
<1> DEFINE n == Len(s)
           tags == Nested(s, stack)
           step == [p \in (1 .. n) \X Shows |-> StyledNext(s, stack, p[1], p[2])]
<1>0. n \in Nat /\ <<>> \in Shows
    BY DEF Strings, Shows
<1>1. ASSUME NEW k \in 1 .. n, NEW shown \in Shows
      PROVE  StyledNext(s, stack, k, shown) \in Shows
    <2>1. k - 1 \in 0 .. Len(s)
        BY <1>0
    <2>2. tags[k - 1] \in Stacks
        BY <2>1, NestedIs
    <2> HIDE DEF tags
    <2>3. s[k] \in Letters => Append(shown, <<s[k], tags[k - 1]>>) \in Shows
        BY <2>2 DEF Shows
    <2> QED
        BY <2>3 DEF StyledNext, tags
<1> HIDE DEF n
<1>2. step \in [(1 .. n) \X Shows -> Shows]
    BY <1>1
<1> HIDE DEF step
<1>3. PICK f \in [0 .. n -> Shows] : Follows(f, n, <<>>, step)
    BY <1>0, <1>2, RecursionExists
<1>4. ASSUME NEW k \in 0 .. n
      PROVE  f[k] = IF k = 0 THEN <<>>
                    ELSE IF s[k] \in Letters THEN Append(f[k - 1], <<s[k], Nested(s, stack)[k - 1]>>)
                    ELSE f[k - 1]
    <2>1. f[k] = IF k = 0 THEN <<>> ELSE step[<<k, f[k - 1]>>]
        BY <1>3 DEF Follows
    <2>2. CASE k = 0
        BY <2>1, <2>2
    <2>3. CASE k # 0
        <3>1. k \in 1 .. n /\ k - 1 \in 0 .. n
            BY <1>0, <2>3
        <3>2. f[k - 1] \in Shows
            BY <3>1
        <3>3. step[<<k, f[k - 1]>>] = StyledNext(s, stack, k, f[k - 1])
            BY <3>1, <3>2 DEF step
        <3> QED
            BY <2>1, <2>3, <3>3 DEF StyledNext
    <2> QED
        BY <2>2, <2>3
<1> DEFINE g == StyledUpTo(s, stack)
<1>5. g = [k \in 0 .. Len(s) |->
              IF k = 0 THEN <<>>
              ELSE IF s[k] \in Letters THEN Append(g[k - 1], <<s[k], Nested(s, stack)[k - 1]>>)
              ELSE g[k - 1]]
    <2>1. f = [k \in 0 .. Len(s) |->
              IF k = 0 THEN <<>>
              ELSE IF s[k] \in Letters THEN Append(f[k - 1], <<s[k], Nested(s, stack)[k - 1]>>)
              ELSE f[k - 1]]
        BY <1>4 DEF n
    <2> QED
        BY <2>1 DEF StyledUpTo
<1>6. Styled(s, stack) = g[Len(s)]
    BY DEF Styled, StyledUpTo
<1> HIDE DEF g
<1>7. g[0] = <<>>
    BY <1>0, <1>5 DEF n
<1>8. ASSUME NEW k \in 1 .. n
      PROVE  g[k] = StyledNext(s, stack, k, g[k - 1])
    <2>1. k \in 0 .. Len(s) /\ k # 0
        BY <1>0 DEF n
    <2>2. g[k] = IF s[k] \in Letters THEN Append(g[k - 1], <<s[k], Nested(s, stack)[k - 1]>>) ELSE g[k - 1]
        BY <1>5, <2>1
    <2> QED
        BY <2>2 DEF StyledNext
<1> DEFINE G == {k \in 0 .. n : g[k] \in Shows}
<1>9. 0 \in G
    BY <1>0, <1>7
<1>10. ASSUME NEW m \in 0 .. n - 1, m \in G
       PROVE  m + 1 \in G
    <2>1. m + 1 \in 1 .. n /\ m + 1 \in 0 .. n /\ (m + 1) - 1 = m
        BY <1>0
    <2>2. g[m + 1] = StyledNext(s, stack, m + 1, g[m])
        BY <1>8, <2>1
    <2> QED
        BY <1>1, <1>10, <2>1, <2>2
<1> HIDE DEF G
<1>11. \A k \in 0 .. n : k \in G
    BY <1>0, <1>9, <1>10, UpToLast
<1>12. \A k \in 0 .. n : g[k] \in Shows
    BY <1>11 DEF G
<1> QED
    BY <1>5, <1>6, <1>7, <1>8, <1>12 DEF g, n

LEMMA StyledTyped ==
    ASSUME NEW s \in Strings, NEW stack \in Stacks
    PROVE  Styled(s, stack) \in Shows
<1>1. Len(s) \in 0 .. Len(s)
    BY DEF Strings
<1> QED
    BY <1>1, StyledIs

\* The letters of one text after another are those of the first, then those of
\* the second behind it.
LEMMA StyledConcat ==
    ASSUME NEW a \in Strings, NEW b \in Strings, NEW stack \in Stacks
    PROVE  Styled(a \o b, stack) = Styled(a, stack) \o Styled(b, scanTags(a, stack))
<1> DEFINE s == a \o b
           inner == scanTags(a, stack)
           f == StyledUpTo(s, stack)
           g == StyledUpTo(a, stack)
           h == StyledUpTo(b, inner)
<1>1. /\ Len(a) \in Nat /\ Len(b) \in Nat
      /\ s \in Strings
      /\ Len(s) = Len(a) + Len(b)
      /\ \A k \in 1 .. Len(a) : s[k] = a[k]
      /\ \A k \in 1 .. Len(b) : s[Len(a) + k] = b[k]
    BY Concat DEF Strings
<1>2. inner \in Stacks
    BY StackAfter
<1>3. f[0] = <<>> /\ \A k \in 1 .. Len(a) + Len(b) : f[k] = StyledNext(s, stack, k, f[k - 1])
    BY <1>1, StyledIs
<1>4. /\ g[0] = <<>> /\ \A k \in 1 .. Len(a) : g[k] = StyledNext(a, stack, k, g[k - 1])
      /\ \A k \in 0 .. Len(a) : g[k] \in Shows
    BY StyledIs
<1>5. /\ h[0] = <<>> /\ \A k \in 1 .. Len(b) : h[k] = StyledNext(b, inner, k, h[k - 1])
      /\ \A k \in 0 .. Len(b) : h[k] \in Shows
    BY <1>2, StyledIs
<1>6. /\ \A k \in 0 .. Len(a) : Nested(s, stack)[k] = Nested(a, stack)[k]
      /\ \A k \in 0 .. Len(b) : Nested(s, stack)[Len(a) + k] = Nested(b, inner)[k]
    BY NestedConcat
<1>7. Styled(s, stack) = f[Len(a) + Len(b)] /\ Styled(a, stack) = g[Len(a)] /\ Styled(b, inner) = h[Len(b)]
    BY <1>1, <1>2, StyledIs
<1> HIDE DEF f, g, h, s, inner
<1>8. \A k \in 0 .. Len(a) : f[k] = g[k]
    <2> DEFINE G == {k \in 0 .. Len(a) : f[k] = g[k]}
    <2>1. 0 \in G
        BY <1>1, <1>3, <1>4
    <2>2. ASSUME NEW m \in 0 .. Len(a) - 1, m \in G
          PROVE  m + 1 \in G
        <3>1. /\ m + 1 \in 1 .. Len(a) /\ m + 1 \in 1 .. Len(a) + Len(b) /\ (m + 1) - 1 = m
              /\ m \in 0 .. Len(a)
            BY <1>1
        <3>2. f[m + 1] = StyledNext(s, stack, m + 1, f[m]) /\ g[m + 1] = StyledNext(a, stack, m + 1, g[m])
            BY <1>3, <1>4, <3>1
        <3>3. StyledNext(s, stack, m + 1, f[m]) = StyledNext(a, stack, m + 1, f[m])
            BY <1>1, <1>6, <3>1 DEF StyledNext
        <3> QED
            BY <1>1, <2>2, <3>1, <3>2, <3>3
    <2> HIDE DEF G
    <2>3. \A k \in 0 .. Len(a) : k \in G
        BY <1>1, <2>1, <2>2, UpToLast
    <2> QED
        BY <2>3 DEF G
<1> DEFINE x == g[Len(a)]
<1>9. x \in Shows /\ f[Len(a)] = x
    BY <1>1, <1>4, <1>8
<1> HIDE DEF x
<1>10. \A k \in 0 .. Len(b) : f[Len(a) + k] = x \o h[k]
    <2> DEFINE G == {k \in 0 .. Len(b) : f[Len(a) + k] = x \o h[k]}
    <2>1. 0 \in G
        <3>1. Len(a) + 0 = Len(a)
            BY <1>1
        <3>2. x \o <<>> = x
            BY <1>9, ConcatEmptySeq DEF Shows
        <3>3. x \o h[0] = x
            BY <1>5, <3>2
        <3>4. f[Len(a) + 0] = x
            BY <1>9, <3>1
        <3>5. 0 \in 0 .. Len(b)
            BY <1>1
        <3> QED
            BY <3>3, <3>4, <3>5
    <2>2. ASSUME NEW m \in 0 .. Len(b) - 1, m \in G
          PROVE  m + 1 \in G
        <3>1. /\ m + 1 \in 1 .. Len(b) /\ Len(a) + (m + 1) \in 1 .. Len(a) + Len(b)
              /\ (m + 1) - 1 = m /\ (Len(a) + (m + 1)) - 1 = Len(a) + m /\ m \in 0 .. Len(b)
              /\ m + 1 \in 0 .. Len(b)
            BY <1>1
        <3>2. f[Len(a) + (m + 1)] = StyledNext(s, stack, Len(a) + (m + 1), x \o h[m])
            BY <1>3, <2>2, <3>1
        <3>3. h[m + 1] = StyledNext(b, inner, m + 1, h[m])
            BY <1>5, <3>1
        <3>4. s[Len(a) + (m + 1)] = b[m + 1]
            BY <1>1, <3>1
        <3>5. Nested(s, stack)[Len(a) + m] = Nested(b, inner)[m] /\ Nested(b, inner)[m] \in Stacks
            BY <1>2, <1>6, <3>1, NestedIs
        <3>6. h[m] \in Shows /\ h[m + 1] \in Shows
            BY <1>5, <3>1
        <3>7. CASE b[m + 1] \in Letters
            <4> DEFINE e == <<b[m + 1], Nested(b, inner)[m]>>
            <4>1. f[Len(a) + (m + 1)] = Append(x \o h[m], e)
                BY <3>1, <3>2, <3>4, <3>5, <3>7 DEF StyledNext
            <4>2. h[m + 1] = Append(h[m], e)
                BY <3>1, <3>3, <3>7 DEF StyledNext
            <4>3. e \in Letters \X Stacks
                BY <3>5, <3>7
            <4> HIDE DEF e
            <4>4. /\ Append(x \o h[m], e) = (x \o h[m]) \o <<e>>
                  /\ Append(h[m], e) = h[m] \o <<e>>
                <5>1. x \o h[m] \in Shows
                    BY <1>9, <3>6, Concat DEF Shows
                <5> QED
                    BY <3>6, <4>3, <5>1, AppendIsConcat DEF Shows
            <4>5. (x \o h[m]) \o <<e>> = x \o (h[m] \o <<e>>)
                <5> DEFINE y == h[m]
                           z == <<e>>
                <5>1. z \in Seq(Letters \X Stacks)
                    BY <4>3
                <5>2. x \in Seq(Letters \X Stacks) /\ y \in Seq(Letters \X Stacks)
                    BY <1>9, <3>6 DEF Shows
                <5> HIDE DEF y, z
                <5>3. (x \o y) \o z = x \o (y \o z)
                    BY <5>1, <5>2, ConcatAssociative
                <5> QED
                    BY <5>3 DEF y, z
            <4> QED
                BY <3>1, <4>1, <4>2, <4>4, <4>5
        <3>8. CASE b[m + 1] \notin Letters
            BY <3>1, <3>2, <3>3, <3>4, <3>8 DEF StyledNext
        <3> QED
            BY <3>7, <3>8
    <2> HIDE DEF G
    <2>3. \A k \in 0 .. Len(b) : k \in G
        BY <1>1, <2>1, <2>2, UpToLast
    <2> QED
        BY <2>3 DEF G
<1>11. f[Len(a) + Len(b)] = x \o h[Len(b)]
    BY <1>1, <1>10
<1> QED
    BY <1>7, <1>11 DEF s, inner, x

LEMMA StyledNoLetters ==
    ASSUME NEW s \in Strings, NEW stack \in Stacks, \A k \in 1 .. Len(s) : s[k] \notin Letters
    PROVE  Styled(s, stack) = <<>>
<1> DEFINE f == StyledUpTo(s, stack)
           G == {k \in 0 .. Len(s) : f[k] = <<>>}
<1>0. Len(s) \in Nat
    BY DEF Strings
<1>1. f[0] = <<>> /\ (\A k \in 1 .. Len(s) : f[k] = StyledNext(s, stack, k, f[k - 1])) /\ Styled(s, stack) = f[Len(s)]
    BY StyledIs
<1> HIDE DEF f
<1>2. 0 \in G
    BY <1>0, <1>1
<1>3. ASSUME NEW m \in 0 .. Len(s) - 1, m \in G
      PROVE  m + 1 \in G
    <2>1. m + 1 \in 1 .. Len(s) /\ (m + 1) - 1 = m
        BY <1>0
    <2>2. f[m + 1] = StyledNext(s, stack, m + 1, f[m])
        BY <1>1, <2>1
    <2> QED
        BY <1>0, <1>3, <2>1, <2>2 DEF StyledNext
<1> HIDE DEF G
<1>4. \A k \in 0 .. Len(s) : k \in G
    BY <1>0, <1>2, <1>3, UpToLast
<1>5. f[Len(s)] = <<>>
    BY <1>0, <1>4 DEF G
<1> QED
    BY <1>1, <1>5

-----------------------------------------------------------------------------
(* Lengths, and the two pieces a cut makes. *)

Measures == [Tokens -> Nat]

TotalUpTo(measure, s) ==
    CHOOSE g : g = [k \in 0 .. Len(s) |-> IF k = 0 THEN 0 ELSE g[k - 1] + measure[s[k]]]

\* The recursive function of Total meets its own equation.
LEMMA TotalIs ==
    ASSUME NEW measure \in Measures, NEW s \in Strings
    PROVE  /\ Total(measure, s) = TotalUpTo(measure, s)[Len(s)]
           /\ TotalUpTo(measure, s) \in [0 .. Len(s) -> Nat]
           /\ TotalUpTo(measure, s)[0] = 0
           /\ \A k \in 1 .. Len(s) :
                 TotalUpTo(measure, s)[k] = TotalUpTo(measure, s)[k - 1] + measure[s[k]]
<1> DEFINE n == Len(s)
           step == [p \in (1 .. n) \X Nat |-> p[2] + measure[s[p[1]]]]
<1>0. n \in Nat /\ \A k \in 1 .. n : measure[s[k]] \in Nat
    BY DEF Strings, Measures
<1> HIDE DEF n
<1>1. step \in [(1 .. n) \X Nat -> Nat]
    BY <1>0
<1> HIDE DEF step
<1>2. PICK f \in [0 .. n -> Nat] : Follows(f, n, 0, step)
    BY <1>0, <1>1, RecursionExists
<1>3. ASSUME NEW k \in 0 .. n
      PROVE  f[k] = IF k = 0 THEN 0 ELSE f[k - 1] + measure[s[k]]
    <2>1. f[k] = IF k = 0 THEN 0 ELSE step[<<k, f[k - 1]>>]
        BY <1>2 DEF Follows
    <2>2. CASE k = 0
        BY <2>1, <2>2
    <2>3. CASE k # 0
        <3>1. k \in 1 .. n /\ k - 1 \in 0 .. n
            BY <1>0, <2>3
        <3>2. f[k - 1] \in Nat
            BY <3>1
        <3>3. step[<<k, f[k - 1]>>] = f[k - 1] + measure[s[k]]
            BY <3>1, <3>2 DEF step
        <3> QED
            BY <2>1, <2>3, <3>3
    <2> QED
        BY <2>2, <2>3
<1> DEFINE g == TotalUpTo(measure, s)
<1>4. g = [k \in 0 .. Len(s) |-> IF k = 0 THEN 0 ELSE g[k - 1] + measure[s[k]]]
    <2>1. f = [k \in 0 .. Len(s) |-> IF k = 0 THEN 0 ELSE f[k - 1] + measure[s[k]]]
        BY <1>3 DEF n
    <2> QED
        BY <2>1 DEF TotalUpTo
<1>5. Total(measure, s) = g[Len(s)]
    BY DEF Total, TotalUpTo
<1> HIDE DEF g
<1>6. g[0] = 0
    BY <1>0, <1>4 DEF n
<1>7. ASSUME NEW k \in 1 .. n
      PROVE  g[k] = g[k - 1] + measure[s[k]]
    <2>1. k \in 0 .. Len(s) /\ k # 0
        BY <1>0 DEF n
    <2> QED
        BY <1>4, <2>1
<1> DEFINE G == {k \in 0 .. n : g[k] \in Nat}
<1>8. 0 \in G
    BY <1>0, <1>6
<1>9. ASSUME NEW m \in 0 .. n - 1, m \in G
      PROVE  m + 1 \in G
    <2>1. m + 1 \in 1 .. n /\ m + 1 \in 0 .. n /\ (m + 1) - 1 = m
        BY <1>0
    <2>2. g[m + 1] = g[m] + measure[s[m + 1]]
        BY <1>7, <2>1
    <2> QED
        BY <1>0, <1>9, <2>1, <2>2
<1> HIDE DEF G
<1>10. \A k \in 0 .. n : k \in G
    BY <1>0, <1>8, <1>9, UpToLast
<1>11. \A k \in 0 .. n : g[k] \in Nat
    BY <1>10 DEF G
<1> QED
    BY <1>4, <1>5, <1>6, <1>7, <1>11 DEF g, n

LEMMA TotalNat ==
    ASSUME NEW measure \in Measures, NEW s \in Strings
    PROVE  Total(measure, s) \in Nat
<1>1. Len(s) \in 0 .. Len(s)
    BY DEF Strings
<1> QED
    BY <1>1, TotalIs

LEMMA TotalConcat ==
    ASSUME NEW measure \in Measures, NEW a \in Strings, NEW b \in Strings
    PROVE  Total(measure, a \o b) = Total(measure, a) + Total(measure, b)
<1> DEFINE s == a \o b
           f == TotalUpTo(measure, s)
           g == TotalUpTo(measure, a)
           h == TotalUpTo(measure, b)
<1>1. /\ Len(a) \in Nat /\ Len(b) \in Nat
      /\ s \in Strings
      /\ Len(s) = Len(a) + Len(b)
      /\ \A k \in 1 .. Len(a) : s[k] = a[k]
      /\ \A k \in 1 .. Len(b) : s[Len(a) + k] = b[k]
    BY Concat DEF Strings
<1>2. f[0] = 0 /\ \A k \in 1 .. Len(a) + Len(b) : f[k] = f[k - 1] + measure[s[k]]
    BY <1>1, TotalIs
<1>3. /\ g[0] = 0 /\ \A k \in 1 .. Len(a) : g[k] = g[k - 1] + measure[a[k]]
      /\ \A k \in 0 .. Len(a) : g[k] \in Nat
    BY TotalIs
<1>4. /\ h[0] = 0 /\ \A k \in 1 .. Len(b) : h[k] = h[k - 1] + measure[b[k]]
      /\ \A k \in 0 .. Len(b) : h[k] \in Nat
    BY TotalIs
<1>5. Total(measure, s) = f[Len(a) + Len(b)] /\ Total(measure, a) = g[Len(a)] /\ Total(measure, b) = h[Len(b)]
    BY <1>1, TotalIs
<1> HIDE DEF f, g, h, s
<1>6. \A k \in 0 .. Len(a) : f[k] = g[k]
    <2> DEFINE G == {k \in 0 .. Len(a) : f[k] = g[k]}
    <2>1. 0 \in G
        BY <1>1, <1>2, <1>3
    <2>2. ASSUME NEW m \in 0 .. Len(a) - 1, m \in G
          PROVE  m + 1 \in G
        <3>1. /\ m + 1 \in 1 .. Len(a) /\ m + 1 \in 1 .. Len(a) + Len(b) /\ (m + 1) - 1 = m
            BY <1>1
        <3>2. f[m + 1] = f[m] + measure[s[m + 1]] /\ g[m + 1] = g[m] + measure[a[m + 1]]
            BY <1>2, <1>3, <3>1
        <3>3. s[m + 1] = a[m + 1]
            BY <1>1, <3>1
        <3> QED
            BY <1>1, <2>2, <3>1, <3>2, <3>3
    <2> HIDE DEF G
    <2>3. \A k \in 0 .. Len(a) : k \in G
        BY <1>1, <2>1, <2>2, UpToLast
    <2> QED
        BY <2>3 DEF G
<1> DEFINE x == g[Len(a)]
<1>7. x \in Nat /\ f[Len(a)] = x
    BY <1>1, <1>3, <1>6
<1> HIDE DEF x
<1>8. \A k \in 0 .. Len(b) : f[Len(a) + k] = x + h[k]
    <2> DEFINE G == {k \in 0 .. Len(b) : f[Len(a) + k] = x + h[k]}
    <2>1. 0 \in G
        <3>1. Len(a) + 0 = Len(a) /\ x + h[0] = x /\ 0 \in 0 .. Len(b)
            BY <1>1, <1>4, <1>7
        <3> QED
            BY <1>7, <3>1
    <2>2. ASSUME NEW m \in 0 .. Len(b) - 1, m \in G
          PROVE  m + 1 \in G
        <3>1. /\ m + 1 \in 1 .. Len(b) /\ Len(a) + (m + 1) \in 1 .. Len(a) + Len(b)
              /\ (m + 1) - 1 = m /\ (Len(a) + (m + 1)) - 1 = Len(a) + m /\ m \in 0 .. Len(b)
              /\ m + 1 \in 0 .. Len(b)
            BY <1>1
        <3>2. f[Len(a) + (m + 1)] = (x + h[m]) + measure[b[m + 1]]
            BY <1>1, <1>2, <2>2, <3>1
        <3>3. h[m + 1] = h[m] + measure[b[m + 1]]
            BY <1>4, <3>1
        <3>4. h[m] \in Nat /\ measure[b[m + 1]] \in Nat
            BY <1>4, <3>1 DEF Strings, Measures
        <3>5. f[Len(a) + (m + 1)] = x + h[m + 1]
            BY <1>7, <3>2, <3>3, <3>4
        <3> QED
            BY <3>1, <3>5
    <2> HIDE DEF G
    <2>3. \A k \in 0 .. Len(b) : k \in G
        BY <1>1, <2>1, <2>2, UpToLast
    <2> QED
        BY <2>3 DEF G
<1>9. f[Len(a) + Len(b)] = x + h[Len(b)]
    BY <1>1, <1>8
<1> QED
    BY <1>5, <1>9 DEF s, x

LEMMA UnitsNat == Units \in Measures /\ Bytes \in Measures
BY DEF Units, Bytes, Measures

LEMMA LengthsNat ==
    ASSUME NEW s \in Strings
    PROVE  utf16Len(s) \in Nat
BY UnitsNat, TotalNat DEF utf16Len

LEMMA LengthsAdd ==
    ASSUME NEW a \in Strings, NEW b \in Strings
    PROVE  utf16Len(a \o b) = utf16Len(a) + utf16Len(b)
BY UnitsNat, TotalConcat DEF utf16Len

LEMMA LengthEmpty == <<>> \in Strings /\ utf16Len(<<>>) = 0
<1>1. <<>> \in Strings /\ Len(<<>>) = 0
    BY DEF Strings
<1>2. Total(Units, <<>>) = TotalUpTo(Units, <<>>)[Len(<<>>)] /\ TotalUpTo(Units, <<>>)[0] = 0
    BY <1>1, UnitsNat, TotalIs
<1> QED
    BY <1>1, <1>2 DEF utf16Len

\* A text is what stands before a cut and what stands behind it.
LEMMA TwoPieces ==
    ASSUME NEW s \in Strings, NEW k \in 0 .. Len(s)
    PROVE  /\ Prefix(s, k) \in Strings /\ Len(Prefix(s, k)) = k
           /\ \A j \in 1 .. k : Prefix(s, k)[j] = s[j]
           /\ SubSeq(s, k + 1, Len(s)) \in Strings
           /\ Len(SubSeq(s, k + 1, Len(s))) = Len(s) - k
           /\ \A j \in 1 .. Len(s) - k : SubSeq(s, k + 1, Len(s))[j] = s[k + j]
           /\ s = Prefix(s, k) \o SubSeq(s, k + 1, Len(s))
<1>0. s \in Seq(Tokens) /\ Len(s) \in Nat /\ k \in Nat /\ k <= Len(s) /\ \A j \in 1 .. Len(s) : s[j] \in Tokens
    BY DEF Strings
<1>1. /\ SubSeq(s, 1, k) \in Seq(Tokens) /\ Len(SubSeq(s, 1, k)) = k
      /\ \A j \in 1 .. k : SubSeq(s, 1, k)[j] = s[j]
    BY <1>0, PrefixIs
<1> DEFINE r == SubSeq(s, k + 1, Len(s))
<1>2. /\ r \in Seq(Tokens)
      /\ Len(r) = IF k + 1 <= Len(s) THEN Len(s) - (k + 1) + 1 ELSE 0
      /\ \A j \in 1 .. Len(s) - (k + 1) + 1 : r[j] = s[(k + 1) + j - 1]
    <2>1. \A j \in k + 1 .. Len(s) : s[j] \in Tokens
        BY <1>0
    <2> QED
        BY <1>0, <2>1, SubSeqProperties
<1> HIDE DEF r
<1>3. Len(r) = Len(s) - k
    BY <1>0, <1>2
<1>4. ASSUME NEW j \in 1 .. Len(s) - k
      PROVE  r[j] = s[k + j]
    <2>1. j \in 1 .. Len(s) - (k + 1) + 1 /\ (k + 1) + j - 1 = k + j
        BY <1>0
    <2> QED
        BY <1>2, <2>1
<1>5. SubSeq(s, 1, k) \o r = s
    <2>1. 1 \in 1 .. Len(s) + 1 /\ k \in 1 - 1 .. Len(s) /\ Len(s) \in k .. Len(s)
        BY <1>0
    <2>2. SubSeq(s, 1, k) \o r = SubSeq(s, 1, Len(s))
        BY <1>0, <2>1, ConcatAdjacentSubSeq DEF r
    <2> QED
        BY <1>0, <2>2, SubSeqFull
<1> QED
    BY <1>1, <1>2, <1>3, <1>4, <1>5 DEF Prefix, Strings, r

-----------------------------------------------------------------------------
(* Where to cut, and what is trimmed. *)

\* For every budget there is a longest prefix that fits.
LEMMA FittingIs ==
    ASSUME NEW s \in Strings, NEW budget \in Nat
    PROVE  /\ Fitting(s, budget) \in 0 .. Len(s)
           /\ utf16Len(Prefix(s, Fitting(s, budget))) <= budget
           /\ Fitting(s, budget) < Len(s) => utf16Len(Prefix(s, Fitting(s, budget) + 1)) > budget
<1> DEFINE B == {k \in 0 .. Len(s) : utf16Len(Prefix(s, k)) <= budget}
<1>0. Len(s) \in Nat
    BY DEF Strings
<1>1. 0 \in B
    <2>1. Prefix(s, 0) = <<>>
        BY SubSeqEmpty DEF Prefix
    <2> QED
        BY <1>0, <2>1, LengthEmpty
<1>2. PICK m \in B : \A k \in B : k <= m
    <2>1. B \subseteq 0 .. Len(s) /\ B # {}
        BY <1>1
    <2> HIDE DEF B
    <2> QED
        BY <1>0, <2>1, GreatestMember
<1>3. m \in 0 .. Len(s) /\ utf16Len(Prefix(s, m)) <= budget
    BY <1>2
<1>4. ASSUME m < Len(s)
      PROVE  utf16Len(Prefix(s, m + 1)) > budget
    <2>1. m + 1 \in 0 .. Len(s) /\ ~(m + 1 <= m)
        BY <1>0, <1>3, <1>4
    <2>2. m + 1 \notin B
        BY <1>2, <2>1
    <2>3. ~(utf16Len(Prefix(s, m + 1)) <= budget)
        BY <2>1, <2>2
    <2>4. utf16Len(Prefix(s, m + 1)) \in Nat
        BY <2>1, TwoPieces, LengthsNat
    <2> HIDE DEF B
    <2> QED
        BY <2>3, <2>4
<1>5. \E k \in 0 .. Len(s) :
         /\ utf16Len(Prefix(s, k)) <= budget
         /\ k < Len(s) => utf16Len(Prefix(s, k + 1)) > budget
    BY <1>3, <1>4
<1> QED
    BY <1>5 DEF Fitting

LEMMA CutAfterIs ==
    ASSUME NEW s, NEW k \in Nat, NEW sub, Len(sub) \in Nat
    PROVE  CutAfter(s, k, sub) \in 0 .. k
<1> DEFINE ends == {e \in Len(sub) .. k : SubSeq(s, e - Len(sub) + 1, e) = sub}
<1>1. CASE ends = {}
    BY <1>1 DEF CutAfter
<1>2. CASE ends # {}
    <2>1. ends \subseteq 0 .. k
        OBVIOUS
    <2>2. CutAfter(s, k, sub) = CHOOSE e \in ends : \A d \in ends : d <= e
        BY <1>2 DEF CutAfter
    <2> HIDE DEF ends
    <2>3. \E e \in ends : \A d \in ends : d <= e
        BY <1>2, <2>1, GreatestMember
    <2> QED
        BY <2>1, <2>2, <2>3
<1> QED
    BY <1>1, <1>2

LEMMA MinOf ==
    ASSUME NEW B, B \subseteq Nat, B # {}
    PROVE  Min(B) \in B
<1>1. \E m \in B : \A n \in B : m <= n
    BY LeastMember
<1> QED
    BY <1>1 DEF Min

LEMMA MaxOf ==
    ASSUME NEW n \in Nat, NEW B, B \subseteq 0 .. n, B # {}
    PROVE  Max(B) \in B /\ \A k \in B : k <= Max(B)
<1>1. PICK m \in B : \A k \in B : k <= m
    BY GreatestMember
<1>2. \A k \in B : m >= k
    BY <1>1
<1> QED
    BY <1>2 DEF Max

\* A cut is never behind what fits.
LEMMA SafeCutIs ==
    ASSUME NEW s \in Strings, NEW budget \in Nat
    PROVE  safeCut(s, budget) \in 0 .. Fitting(s, budget)
<1> DEFINE k == Fitting(s, budget)
           half == MaxByte(s, budget) \div 2
           good == {b \in DOMAIN Boundaries :
                      LET e == CutAfter(s, k, Boundaries[b])
                      IN e > 0 /\ Total(Bytes, Prefix(s, e - Len(Boundaries[b]))) >= half}
<1>1. k \in Nat
    BY FittingIs DEF Strings
<1>2. safeCut(s, budget) = IF k = Len(s) \/ good = {} THEN k ELSE CutAfter(s, k, Boundaries[Min(good)])
    BY DEF safeCut
<1>3. DOMAIN Boundaries = 1 .. 3 /\ \A b \in 1 .. 3 : Len(Boundaries[b]) \in Nat
    BY DEF Boundaries
<1>4. good \subseteq 1 .. 3
    BY <1>3
<1> HIDE DEF k, good
<1>5. ASSUME good # {}
      PROVE  CutAfter(s, k, Boundaries[Min(good)]) \in 0 .. k
    <2>0. good \subseteq Nat
        BY <1>4
    <2>1. Min(good) \in good
        BY <1>5, <2>0, MinOf
    <2>2. Len(Boundaries[Min(good)]) \in Nat
        BY <1>3, <1>4, <2>1
    <2> QED
        BY <1>1, <2>2, CutAfterIs
<1> QED
    BY <1>1, <1>2, <1>5 DEF k

Blanks(s) == \A k \in 1 .. Len(s) : s[k] \in Blank

LEMMA TrimRightIs ==
    ASSUME NEW s \in Strings
    PROVE  /\ TrimRight(s) \in Strings
           /\ \E b \in Strings : Blanks(b) /\ s = TrimRight(s) \o b
<1>0. Len(s) \in Nat /\ DOMAIN s = 1 .. Len(s) /\ s \in Seq(Tokens)
    BY DEF Strings
<1>1. Inked(s) \subseteq 0 .. Len(s) /\ \A k \in 1 .. Len(s) : k \notin Inked(s) => s[k] \in Blank
    BY <1>0 DEF Inked
<1>2. CASE Inked(s) = {}
    <2>1. TrimRight(s) = <<>> /\ <<>> \in Strings
        BY <1>2, LengthEmpty DEF TrimRight
    <2>2. Blanks(s)
        BY <1>1, <1>2 DEF Blanks
    <2>3. <<>> \o s = s
        BY <1>0, ConcatEmptySeq
    <2> QED
        BY <2>1, <2>2, <2>3
<1>3. CASE Inked(s) # {}
    <2> DEFINE m == Max(Inked(s))
               b == SubSeq(s, m + 1, Len(s))
    <2>1. m \in Inked(s) /\ \A k \in Inked(s) : k <= m
        BY <1>0, <1>1, <1>3, MaxOf
    <2>2. m \in 0 .. Len(s) /\ TrimRight(s) = Prefix(s, m)
        BY <1>1, <1>3, <2>1 DEF TrimRight
    <2> HIDE DEF m
    <2>3. /\ Prefix(s, m) \in Strings /\ b \in Strings /\ Len(b) = Len(s) - m
          /\ \A j \in 1 .. Len(s) - m : b[j] = s[m + j]
          /\ s = Prefix(s, m) \o b
        BY <2>2, TwoPieces
    <2> HIDE DEF b
    <2>4. ASSUME NEW j \in 1 .. Len(b)
          PROVE  b[j] \in Blank
        <3>1. m + j \in 1 .. Len(s) /\ ~(m + j <= m) /\ b[j] = s[m + j]
            BY <1>0, <2>2, <2>3
        <3>2. m + j \notin Inked(s)
            BY <2>1, <3>1
        <3> QED
            BY <1>1, <3>1, <3>2
    <2> QED
        BY <2>2, <2>3, <2>4 DEF Blanks
<1> QED
    BY <1>2, <1>3

LEMMA TrimLeftIs ==
    ASSUME NEW s \in Strings
    PROVE  /\ TrimLeft(s) \in Strings
           /\ \E b \in Strings : Blanks(b) /\ s = b \o TrimLeft(s)
<1>0. Len(s) \in Nat /\ DOMAIN s = 1 .. Len(s) /\ s \in Seq(Tokens)
    BY DEF Strings
<1>1. Inked(s) \subseteq 1 .. Len(s) /\ \A k \in 1 .. Len(s) : k \notin Inked(s) => s[k] \in Blank
    BY <1>0 DEF Inked
<1>2. CASE Inked(s) = {}
    <2>1. TrimLeft(s) = <<>> /\ <<>> \in Strings
        BY <1>2, LengthEmpty DEF TrimLeft
    <2>2. Blanks(s)
        BY <1>1, <1>2 DEF Blanks
    <2>3. s \o <<>> = s
        BY <1>0, ConcatEmptySeq
    <2> QED
        BY <2>1, <2>2, <2>3
<1>3. CASE Inked(s) # {}
    <2> DEFINE m == Min(Inked(s))
               b == Prefix(s, m - 1)
    <2>1. m \in Inked(s) /\ \A k \in Inked(s) : m <= k
        <3>1. Inked(s) \subseteq Nat
            BY <1>1
        <3>2. \E l \in Inked(s) : \A k \in Inked(s) : l <= k
            BY <1>3, <3>1, LeastMember
        <3> QED
            BY <3>2 DEF Min
    <2>2. m \in 1 .. Len(s) /\ TrimLeft(s) = SubSeq(s, m, Len(s))
        BY <1>1, <1>3, <2>1 DEF TrimLeft
    <2> HIDE DEF m
    <2>3. m - 1 \in 0 .. Len(s) /\ (m - 1) + 1 = m
        BY <1>0, <2>2
    <2>4. /\ b \in Strings /\ Len(b) = m - 1
          /\ \A j \in 1 .. m - 1 : b[j] = s[j]
          /\ SubSeq(s, (m - 1) + 1, Len(s)) \in Strings
          /\ s = b \o SubSeq(s, (m - 1) + 1, Len(s))
        BY <2>3, TwoPieces
    <2> HIDE DEF b
    <2>5. ASSUME NEW j \in 1 .. Len(b)
          PROVE  b[j] \in Blank
        <3>1. j \in 1 .. Len(s) /\ ~(m <= j) /\ b[j] = s[j]
            BY <1>0, <2>2, <2>4
        <3>2. j \notin Inked(s)
            BY <2>1, <3>1
        <3> QED
            BY <1>1, <3>1, <3>2
    <2> QED
        BY <2>2, <2>3, <2>4, <2>5 DEF Blanks
<1> QED
    BY <1>2, <1>3

\* Blanks show no letter and touch no tag.
LEMMA BlanksShowNothing ==
    ASSUME NEW b \in Strings, Blanks(b), NEW stack \in Stacks
    PROVE  scanTags(b, stack) = stack /\ Styled(b, stack) = <<>>
<1>1. \A k \in 1 .. Len(b) : b[k] \notin Opens \cup Closes /\ b[k] \notin Letters
    BY TokenKinds DEF Blanks
<1> QED
    BY <1>1, ScanNoTags, StyledNoLetters

\* Behind stack, every closing tag of s closes the innermost open one.
WellNested(s, stack) ==
    \A k \in 1 .. Len(s) : s[k] \in Closes =>
        LET inner == Nested(s, stack)[k - 1] IN inner # <<>> /\ CloserOf[Last(inner)] = s[k]

LEMMA BalancedIs ==
    ASSUME NEW s \in Strings
    PROVE  Balanced(s) <=> WellNested(s, <<>>) /\ scanTags(s, <<>>) = <<>>
<1>1. DOMAIN s = 1 .. Len(s)
    BY DEF Strings
<1> QED
    BY <1>1 DEF Balanced, WellNested, scanTags

LEMMA WellNestedConcat ==
    ASSUME NEW a \in Strings, NEW b \in Strings, NEW stack \in Stacks
    PROVE  WellNested(a \o b, stack) <=> WellNested(a, stack) /\ WellNested(b, scanTags(a, stack))
<1> DEFINE s == a \o b
           inner == scanTags(a, stack)
           f == Nested(s, stack)
           g == Nested(a, stack)
           h == Nested(b, inner)
<1>1. /\ Len(a) \in Nat /\ Len(b) \in Nat
      /\ Len(s) = Len(a) + Len(b)
      /\ \A k \in 1 .. Len(a) : s[k] = a[k]
      /\ \A k \in 1 .. Len(b) : s[Len(a) + k] = b[k]
    BY Concat DEF Strings
<1>2. /\ \A k \in 0 .. Len(a) : f[k] = g[k]
      /\ \A k \in 0 .. Len(b) : f[Len(a) + k] = h[k]
    BY NestedConcat
<1> DEFINE Right(t, x, k) == t[k] \in Closes => x[k - 1] # <<>> /\ CloserOf[Last(x[k - 1])] = t[k]
<1>3. /\ WellNested(s, stack) <=> \A k \in 1 .. Len(s) : Right(s, f, k)
      /\ WellNested(a, stack) <=> \A k \in 1 .. Len(a) : Right(a, g, k)
      /\ WellNested(b, inner) <=> \A k \in 1 .. Len(b) : Right(b, h, k)
    BY DEF WellNested
<1> HIDE DEF s, inner, f, g, h
<1>4. ASSUME NEW k \in 1 .. Len(a)
      PROVE  Right(s, f, k) <=> Right(a, g, k)
    <2>1. k - 1 \in 0 .. Len(a)
        BY <1>1
    <2> QED
        BY <1>1, <1>2, <2>1
<1>5. ASSUME NEW k \in 1 .. Len(b)
      PROVE  Right(s, f, Len(a) + k) <=> Right(b, h, k)
    <2>1. k - 1 \in 0 .. Len(b) /\ (Len(a) + k) - 1 = Len(a) + (k - 1)
        BY <1>1
    <2>2. f[(Len(a) + k) - 1] = h[k - 1] /\ s[Len(a) + k] = b[k]
        BY <1>1, <1>2, <2>1
    <2> QED
        BY <2>2
<1> HIDE DEF Right
<1>6. ASSUME \A k \in 1 .. Len(s) : Right(s, f, k)
      PROVE  (\A k \in 1 .. Len(a) : Right(a, g, k)) /\ (\A k \in 1 .. Len(b) : Right(b, h, k))
    <2>1. \A k \in 1 .. Len(a) : k \in 1 .. Len(s)
        BY <1>1
    <2>2. \A k \in 1 .. Len(b) : Len(a) + k \in 1 .. Len(s)
        BY <1>1
    <2> QED
        BY <1>4, <1>5, <1>6, <2>1, <2>2
<1>7. ASSUME \A k \in 1 .. Len(a) : Right(a, g, k), \A k \in 1 .. Len(b) : Right(b, h, k),
             NEW k \in 1 .. Len(s)
      PROVE  Right(s, f, k)
    <2>1. CASE k <= Len(a)
        <3>1. k \in 1 .. Len(a)
            BY <1>1, <2>1
        <3> QED
            BY <1>4, <1>7, <3>1
    <2>2. CASE ~(k <= Len(a))
        <3>1. k - Len(a) \in 1 .. Len(b) /\ Len(a) + (k - Len(a)) = k
            BY <1>1, <2>2
        <3>2. Right(s, f, Len(a) + (k - Len(a)))
            BY <1>5, <1>7, <3>1
        <3> QED
            BY <3>1, <3>2
    <2> QED
        BY <2>1, <2>2
<1> QED
    BY <1>3, <1>6, <1>7 DEF s, inner

-----------------------------------------------------------------------------
(* A part. *)

SplitTyped ==
    /\ whole \in Strings
    /\ text \in Strings
    /\ open \in Stacks
    /\ parts \in Seq(Strings)

\* A part shows what its head shows behind the open tags, and is well-formed if
\* its head is.
LEMMA PartIs ==
    ASSUME open \in Stacks, NEW head \in Strings
    PROVE  /\ PartOf(head) \in Strings
           /\ Styled(PartOf(head), <<>>) = Styled(head, open)
           /\ WellNested(head, open) => Balanced(PartOf(head))
           /\ utf16Len(PartOf(head))
                = utf16Len(open) + utf16Len(head) + utf16Len(closingTags(scanTags(head, open)))
<1> DEFINE stack == scanTags(head, open)
           c == closingTags(stack)
           front == open \o head
<1>1. stack \in Stacks /\ <<>> \in Stacks
    BY StackAfter DEF Stacks
<1>2. /\ open \in Strings /\ scanTags(open, <<>>) = open
      /\ \A k \in 1 .. Len(open) : open[k] \in Opens
    BY NestedOpens
<1>3. /\ c \in Strings /\ scanTags(c, stack) = <<>>
      /\ \A k \in 1 .. Len(c) : c[k] \in Closes
      /\ WellNested(c, stack)
    BY <1>1, NestedCloses DEF WellNested
<1>4. front \in Strings /\ front \o c \in Strings
    BY <1>2, <1>3, Concat DEF Strings
<1>5. PartOf(head) = front \o c
    BY DEF PartOf
<1>6. scanTags(front, <<>>) = stack
    BY <1>1, <1>2, ScanConcat
<1> HIDE DEF stack, c
<1>7. Styled(front \o c, <<>>) = Styled(head, open)
    <2>1. Styled(front \o c, <<>>) = Styled(front, <<>>) \o Styled(c, stack)
        BY <1>1, <1>3, <1>4, <1>6, StyledConcat
    <2>2. Styled(front, <<>>) = Styled(open, <<>>) \o Styled(head, open)
        BY <1>1, <1>2, StyledConcat
    <2>3. Styled(open, <<>>) = <<>> /\ Styled(c, stack) = <<>>
        BY <1>1, <1>2, <1>3, TokenKinds, StyledNoLetters
    <2>4. Styled(head, open) \in Shows
        BY StyledTyped
    <2>5. <<>> \o Styled(head, open) = Styled(head, open) /\ Styled(head, open) \o <<>> = Styled(head, open)
        BY <2>4, ConcatEmptySeq DEF Shows
    <2> QED
        BY <2>1, <2>2, <2>3, <2>5
<1>8. ASSUME WellNested(head, open)
      PROVE  Balanced(front \o c)
    <2>1. WellNested(open, <<>>)
        BY <1>2, TokenKinds DEF WellNested
    <2>2. WellNested(front, <<>>)
        BY <1>1, <1>2, <1>8, <2>1, WellNestedConcat
    <2>3. WellNested(front \o c, <<>>)
        BY <1>1, <1>3, <1>4, <1>6, <2>2, WellNestedConcat
    <2>4. scanTags(front \o c, <<>>) = <<>>
        BY <1>1, <1>3, <1>4, <1>6, ScanConcat
    <2> QED
        BY <1>4, <2>3, <2>4, BalancedIs
<1>9. utf16Len(front \o c) = utf16Len(open) + utf16Len(head) + utf16Len(c)
    BY <1>2, <1>3, <1>4, LengthsAdd
<1> QED
    BY <1>4, <1>5, <1>7, <1>8, <1>9 DEF stack, c

\* Blanks between two pieces matter neither to what is shown nor to the nesting.
LEMMA BlanksBetween ==
    ASSUME NEW a \in Strings, NEW b \in Strings, NEW c \in Strings, NEW d \in Strings,
           Blanks(b), Blanks(c), NEW stack \in Stacks
    PROVE  LET s == (a \o b) \o (c \o d)
           IN  /\ Styled(s, stack) = Styled(a, stack) \o Styled(d, scanTags(a, stack))
               /\ scanTags(s, stack) = scanTags(d, scanTags(a, stack))
               /\ WellNested(s, stack) =>
                     WellNested(a, stack) /\ WellNested(d, scanTags(a, stack))
<1> DEFINE inner == scanTags(a, stack)
           l == a \o b
           r == c \o d
<1>1. inner \in Stacks
    BY StackAfter
<1>2. l \in Strings /\ r \in Strings
    BY Concat DEF Strings
<1>3. scanTags(b, inner) = inner /\ Styled(b, inner) = <<>> /\ scanTags(c, inner) = inner /\ Styled(c, inner) = <<>>
    BY <1>1, BlanksShowNothing
<1>4. scanTags(l, stack) = inner /\ scanTags(r, inner) = scanTags(d, inner)
    BY <1>1, <1>3, ScanConcat
<1>5. Styled(l, stack) = Styled(a, stack) \o <<>> /\ Styled(r, inner) = <<>> \o Styled(d, inner)
    <2>1. Styled(l, stack) = Styled(a, stack) \o Styled(b, inner)
        BY StyledConcat
    <2>2. Styled(r, inner) = Styled(c, inner) \o Styled(d, scanTags(c, inner))
        <3> HIDE DEF inner
        <3> QED
            BY <1>1, StyledConcat
    <2> QED
        BY <1>3, <2>1, <2>2
<1>6. Styled(l, stack) = Styled(a, stack) /\ Styled(r, inner) = Styled(d, inner)
    <2>1. Styled(a, stack) \in Shows /\ Styled(d, inner) \in Shows
        BY <1>1, StyledTyped
    <2> QED
        BY <1>5, <2>1, ConcatEmptySeq DEF Shows
<1>7. WellNested(l, stack) => WellNested(a, stack)
    BY WellNestedConcat
<1>8. WellNested(r, inner) => WellNested(d, inner)
    BY <1>1, <1>3, WellNestedConcat
<1> HIDE DEF l, r, inner
<1>9. /\ Styled(l \o r, stack) = Styled(l, stack) \o Styled(r, inner)
      /\ scanTags(l \o r, stack) = scanTags(r, inner)
      /\ WellNested(l \o r, stack) => WellNested(l, stack) /\ WellNested(r, inner)
    BY <1>2, <1>4, StyledConcat, ScanConcat, WellNestedConcat
<1>10. /\ Styled(l \o r, stack) = Styled(a, stack) \o Styled(d, inner)
       /\ scanTags(l \o r, stack) = scanTags(d, inner)
       /\ WellNested(l \o r, stack) => WellNested(a, stack) /\ WellNested(d, inner)
    BY <1>4, <1>6, <1>7, <1>8, <1>9
<1> QED
    BY <1>10 DEF l, r, inner

LEMMA Constants == Limit \in Nat \ {0} /\ CloseSlack \in Nat /\ MaxRefinements \in Nat /\ Texts \subseteq Strings
BY SplitterAssumption DEF Strings

\* The head that a budget leaves.
HeadFor(b) == TrimRight(Prefix(text, safeCut(text, b)))

LEMMA HeadIs ==
    ASSUME text \in Strings, NEW b \in Nat
    PROVE  /\ safeCut(text, b) \in 0 .. Len(text)
           /\ HeadFor(b) \in Strings
<1>1. Fitting(text, b) \in 0 .. Len(text) /\ Len(text) \in Nat
    BY FittingIs DEF Strings
<1>3. safeCut(text, b) \in 0 .. Fitting(text, b)
    BY SafeCutIs
<1>2. safeCut(text, b) \in 0 .. Len(text)
    BY <1>1, <1>3
<1> QED
    BY <1>2, TwoPieces, TrimRightIs DEF HeadFor

Shrunk(b) ==
    LET over == utf16Len(PartOf(HeadFor(b))) - Limit
    IN IF over <= 0 THEN b ELSE AtLeastOne(b - over)

FirstBudget == AtLeastOne(Limit - utf16Len(open) - utf16Len(closingTags(open)) - CloseSlack)

\* The budgets are positive, and each is the one before, shrunk.
LEMMA BudgetIs ==
    ASSUME text \in Strings, open \in Stacks
    PROVE  /\ Budget[0] = FirstBudget
           /\ \A i \in 0 .. MaxRefinements : Budget[i] \in Nat \ {0}
           /\ \A i \in 1 .. MaxRefinements : Budget[i] = Shrunk(Budget[i - 1])
<1> DEFINE n == MaxRefinements
           Pos == Nat \ {0}
           step == [p \in (1 .. n) \X Pos |-> Shrunk(p[2])]
<1>0. n \in Nat /\ Limit \in Nat /\ CloseSlack \in Nat
    BY Constants
<1>1. ASSUME NEW b \in Pos
      PROVE  Shrunk(b) \in Pos
    <2>1. HeadFor(b) \in Strings
        BY HeadIs
    <2>2. PartOf(HeadFor(b)) \in Strings
        BY <2>1, PartIs
    <2>3. utf16Len(PartOf(HeadFor(b))) \in Nat
        BY <2>2, LengthsNat
    <2> DEFINE over == utf16Len(PartOf(HeadFor(b))) - Limit
    <2>4. over \in Int
        BY <1>0, <2>3
    <2>5. Shrunk(b) = IF over <= 0 THEN b ELSE AtLeastOne(b - over)
        BY DEF Shrunk
    <2> HIDE DEF over
    <2> QED
        BY <2>4, <2>5 DEF AtLeastOne
<1>2. FirstBudget \in Pos
    <2>1. utf16Len(open) \in Nat /\ utf16Len(closingTags(open)) \in Nat
        BY NestedOpens, NestedCloses, LengthsNat
    <2> QED
        BY <1>0, <2>1 DEF FirstBudget, AtLeastOne
<1> HIDE DEF n, Pos
<1>3. step \in [(1 .. n) \X Pos -> Pos]
    BY <1>1
<1> HIDE DEF step
<1>4. PICK f \in [0 .. n -> Pos] : Follows(f, n, FirstBudget, step)
    BY <1>0, <1>2, <1>3, RecursionExists
<1>5. ASSUME NEW i \in 0 .. n
      PROVE  f[i] = IF i = 0 THEN FirstBudget ELSE Shrunk(f[i - 1])
    <2>1. f[i] = IF i = 0 THEN FirstBudget ELSE step[<<i, f[i - 1]>>]
        BY <1>4 DEF Follows
    <2>2. CASE i = 0
        BY <2>1, <2>2
    <2>3. CASE i # 0
        <3>1. i \in 1 .. n /\ i - 1 \in 0 .. n
            BY <1>0, <2>3
        <3>2. f[i - 1] \in Pos
            BY <3>1
        <3>3. step[<<i, f[i - 1]>>] = Shrunk(f[i - 1])
            BY <3>1, <3>2 DEF step
        <3> QED
            BY <2>1, <2>3, <3>3
    <2> QED
        BY <2>2, <2>3
<1>6. f = [i \in 0 .. MaxRefinements |-> IF i = 0 THEN FirstBudget ELSE Shrunk(f[i - 1])]
    BY <1>5 DEF n
<1> DEFINE g == CHOOSE g : g = [i \in 0 .. MaxRefinements |-> IF i = 0 THEN FirstBudget ELSE Shrunk(g[i - 1])]
<1>7. g = [i \in 0 .. MaxRefinements |-> IF i = 0 THEN FirstBudget ELSE Shrunk(g[i - 1])]
    BY <1>6
<1>8. Budget = g
    BY DEF Budget, FirstBudget, Shrunk, HeadFor
<1> HIDE DEF g
<1>9. g[0] = FirstBudget
    BY <1>0, <1>7 DEF n
<1>10. ASSUME NEW i \in 1 .. n
       PROVE  g[i] = Shrunk(g[i - 1])
    <2>1. i \in 0 .. MaxRefinements /\ i # 0
        BY <1>0 DEF n
    <2> QED
        BY <1>7, <2>1
<1> DEFINE G == {i \in 0 .. n : g[i] \in Pos}
<1>11. 0 \in G
    BY <1>0, <1>2, <1>9
<1>12. ASSUME NEW m \in 0 .. n - 1, m \in G
       PROVE  m + 1 \in G
    <2>1. m + 1 \in 1 .. n /\ m + 1 \in 0 .. n /\ (m + 1) - 1 = m
        BY <1>0
    <2>2. g[m + 1] = Shrunk(g[m])
        BY <1>10, <2>1
    <2> QED
        BY <1>1, <1>12, <2>1, <2>2
<1> HIDE DEF G
<1>13. \A i \in 0 .. n : i \in G
    BY <1>0, <1>11, <1>12, UpToLast
<1>14. \A i \in 0 .. n : g[i] \in Pos
    BY <1>13 DEF G
<1> QED
    BY <1>8, <1>9, <1>10, <1>14 DEF n, Pos

-----------------------------------------------------------------------------
(* One round, and the parts together. *)

\* Where a round cuts, the head it takes and the rest it leaves.
CutAt == safeCut(text, Budget[MaxRefinements])
CutHead == IF CutAt = 0 THEN Prefix(text, 1) ELSE TrimRight(Prefix(text, CutAt))
CutRest == TrimLeft(SubSeq(text, AtLeastOne(CutAt) + 1, Len(text)))

LEMMA CutCases ==
    ASSUME Cut
    PROVE  /\ text # <<>> /\ whole' = whole
           /\ \/ /\ utf16Len(open \o text) <= Limit
                 /\ parts' = Append(parts, open \o text) /\ text' = <<>> /\ open' = open
              \/ /\ ~(utf16Len(open \o text) <= Limit)
                 /\ parts' = Append(parts, PartOf(CutHead))
                 /\ open' = scanTags(CutHead, open)
                 /\ text' = CutRest
BY DEF Cut, CutAt, CutHead, CutRest

\* A cut takes a head and leaves a rest; what it drops between them is blank.
LEMMA CutPieces ==
    ASSUME SplitTyped, text # <<>>
    PROVE  /\ CutHead \in Strings /\ CutRest \in Strings
           /\ \E b, c \in Strings :
                 Blanks(b) /\ Blanks(c) /\ text = (CutHead \o b) \o (c \o CutRest)
<1>0. text \in Strings /\ open \in Stacks /\ Len(text) \in Nat \ {0} /\ MaxRefinements \in Nat
    BY Constants, EmptySeq DEF SplitTyped, Strings
<1>1. Budget[MaxRefinements] \in Nat
    BY <1>0, BudgetIs
<1>2. CutAt \in 0 .. Len(text)
    BY <1>0, <1>1, HeadIs DEF CutAt
<1> DEFINE k == AtLeastOne(CutAt)
           rest == SubSeq(text, k + 1, Len(text))
<1>3. k \in 0 .. Len(text)
    BY <1>0, <1>2 DEF AtLeastOne
<1>4. /\ Prefix(text, k) \in Strings /\ rest \in Strings
      /\ text = Prefix(text, k) \o rest
    BY <1>0, <1>3, TwoPieces
<1>5. CutRest = TrimLeft(rest)
    BY DEF CutRest
<1>6. CutHead \in Strings /\ \E b \in Strings : Blanks(b) /\ Prefix(text, k) = CutHead \o b
    <2>1. CASE CutAt = 0
        <3>1. CutHead = Prefix(text, k)
            BY <2>1 DEF CutHead, AtLeastOne
        <3>2. <<>> \in Strings /\ Blanks(<<>>)
            BY LengthEmpty DEF Blanks
        <3>3. Prefix(text, k) \o <<>> = Prefix(text, k)
            BY <1>4, ConcatEmptySeq DEF Strings
        <3> QED
            BY <1>4, <3>1, <3>2, <3>3
    <2>2. CASE CutAt # 0
        <3>1. k = CutAt
            BY <1>0, <1>2, <2>2 DEF AtLeastOne
        <3>2. CutHead = TrimRight(Prefix(text, k))
            BY <2>2, <3>1 DEF CutHead
        <3> HIDE DEF k
        <3> QED
            BY <1>4, <3>2, TrimRightIs
    <2> QED
        BY <2>1, <2>2
<1> HIDE DEF k, rest
<1>7. TrimLeft(rest) \in Strings /\ \E c \in Strings : Blanks(c) /\ rest = c \o TrimLeft(rest)
    BY <1>4, TrimLeftIs
<1>8. PICK b \in Strings : Blanks(b) /\ Prefix(text, k) = CutHead \o b
    BY <1>6
<1>9. PICK c \in Strings : Blanks(c) /\ rest = c \o CutRest
    BY <1>5, <1>7
<1>10. text = (CutHead \o b) \o (c \o CutRest)
    BY <1>4, <1>8, <1>9
<1> QED
    BY <1>5, <1>6, <1>7, <1>8, <1>9, <1>10

\* f joins the members of q, one after another.
Joined(q, f) ==
    /\ f \in [0 .. Len(q) -> Shows]
    /\ f[0] = <<>>
    /\ \A k \in 1 .. Len(q) : f[k] = f[k - 1] \o q[k]

LEMMA FlattenIs ==
    ASSUME NEW q \in Seq(Shows)
    PROVE  \E f : Joined(q, f) /\ FlattenSeq(q) = f[Len(q)]
<1> DEFINE n == Len(q)
           step == [p \in (1 .. n) \X Shows |-> p[2] \o q[p[1]]]
<1>0. n \in Nat /\ <<>> \in Shows /\ \A k \in 1 .. n : q[k] \in Shows
    BY DEF Shows
<1>1. ASSUME NEW k \in 1 .. n, NEW shown \in Shows
      PROVE  shown \o q[k] \in Shows
    BY <1>0, Concat DEF Shows
<1> HIDE DEF n
<1>2. step \in [(1 .. n) \X Shows -> Shows]
    BY <1>1
<1> HIDE DEF step
<1>3. PICK f \in [0 .. n -> Shows] : Follows(f, n, <<>>, step)
    BY <1>0, <1>2, RecursionExists
<1>4. f[0] = <<>>
    BY <1>0, <1>3 DEF Follows
<1>5. ASSUME NEW k \in 1 .. n
      PROVE  f[k] = f[k - 1] \o q[k]
    <2>1. k \in 0 .. n /\ k # 0 /\ k - 1 \in 0 .. n
        BY <1>0
    <2>2. f[k] = step[<<k, f[k - 1]>>]
        BY <1>3, <2>1 DEF Follows
    <2>3. f[k - 1] \in Shows
        BY <2>1
    <2> QED
        BY <2>2, <2>3 DEF step
<1>6. Joined(q, f)
    BY <1>4, <1>5 DEF Joined, n
<1>7. CASE n = 0
    <2>1. FlattenSeq(q) = q /\ q = <<>>
        BY <1>7, EmptySeq DEF FlattenSeq, n
    <2> QED
        BY <1>4, <1>6, <1>7, <2>1 DEF n
<1>8. CASE n # 0
    <2> DEFINE e == [k \in 1 .. n |-> f[k]]
               g == CHOOSE g : g = [i \in 1 .. Len(q) |-> IF i = 1 THEN q[i] ELSE g[i - 1] \o q[i]]
    <2>1. ASSUME NEW k \in 1 .. n
          PROVE  f[k] = IF k = 1 THEN q[k] ELSE e[k - 1] \o q[k]
        <3>1. CASE k = 1
            <4>0. k - 1 = 0
                BY <3>1
            <4>1. f[k] = f[k - 1] \o q[k]
                BY <1>5
            <4>2. <<>> \o q[k] = q[k]
                BY <1>0, ConcatEmptySeq DEF Shows
            <4>3. f[k] = q[k]
                BY <1>4, <4>0, <4>1, <4>2
            <4> QED
                BY <3>1, <4>3
        <3>2. CASE k # 1
            <4>1. k - 1 \in 1 .. n
                BY <1>0, <3>2
            <4> QED
                BY <1>5, <3>2, <4>1
        <3> QED
            BY <3>1, <3>2
    <2>2. e = [i \in 1 .. Len(q) |-> IF i = 1 THEN q[i] ELSE e[i - 1] \o q[i]]
        <3>1. \A k \in 1 .. n : e[k] = IF k = 1 THEN q[k] ELSE e[k - 1] \o q[k]
            BY <2>1
        <3>2. DOMAIN e = 1 .. n /\ e = [k \in 1 .. n |-> e[k]]
            OBVIOUS
        <3> HIDE DEF e
        <3> QED
            BY <3>1, <3>2 DEF n
    <2>3. g = [i \in 1 .. Len(q) |-> IF i = 1 THEN q[i] ELSE g[i - 1] \o q[i]]
        <3> HIDE DEF e
        <3> QED
            BY <2>2
    <2>4. FlattenSeq(q) = g[Len(q)]
        BY <1>8 DEF FlattenSeq, n
    <2> HIDE DEF g, e
    <2> DEFINE G == {k \in 0 .. n : k # 0 => g[k] = f[k]}
    <2>5. 0 \in G
        BY <1>0
    <2>6. ASSUME NEW m \in 0 .. n - 1, m \in G
          PROVE  m + 1 \in G
        <3>1. m + 1 \in 1 .. n /\ m + 1 \in 0 .. n /\ (m + 1) - 1 = m /\ m \in 0 .. n
            BY <1>0
        <3>2. g[m + 1] = IF m + 1 = 1 THEN q[m + 1] ELSE g[m] \o q[m + 1]
            BY <2>3, <3>1 DEF n
        <3>3. f[m + 1] = f[m] \o q[m + 1]
            BY <1>5, <3>1
        <3>4. CASE m = 0
            <4>1. <<>> \o q[m + 1] = q[m + 1]
                BY <1>0, <3>1, ConcatEmptySeq DEF Shows
            <4>2. f[m + 1] = q[m + 1]
                BY <1>4, <3>3, <3>4, <4>1
            <4>3. g[m + 1] = q[m + 1]
                BY <3>2, <3>4
            <4> QED
                BY <3>1, <4>2, <4>3
        <3>5. CASE m # 0
            <4>1. g[m] = f[m] /\ m + 1 # 1
                BY <2>6, <3>1, <3>5
            <4>2. g[m + 1] = f[m + 1]
                BY <3>2, <3>3, <4>1
            <4> QED
                BY <3>1, <4>2
        <3> QED
            BY <3>4, <3>5
    <2> HIDE DEF G
    <2>7. \A k \in 0 .. n : k \in G
        BY <1>0, <2>5, <2>6, UpToLast
    <2>8. g[n] = f[n]
        BY <1>0, <1>8, <2>7 DEF G
    <2> QED
        BY <1>6, <2>4, <2>8 DEF n
<1> QED
    BY <1>7, <1>8

LEMMA FlattenAppend ==
    ASSUME NEW q \in Seq(Shows), NEW shown \in Shows
    PROVE  FlattenSeq(q) \in Shows /\ FlattenSeq(Append(q, shown)) = FlattenSeq(q) \o shown
<1> DEFINE n == Len(q)
           r == Append(q, shown)
<1>0. /\ n \in Nat /\ r \in Seq(Shows) /\ Len(r) = n + 1
      /\ \A k \in 1 .. n : r[k] = q[k]
      /\ r[n + 1] = shown
    BY AppendProperties
<1> HIDE DEF r
<1>1. PICK f : Joined(q, f) /\ FlattenSeq(q) = f[n]
    BY FlattenIs
<1>2. PICK g : Joined(r, g) /\ FlattenSeq(r) = g[n + 1]
    BY <1>0, FlattenIs
<1> DEFINE G == {k \in 0 .. n : g[k] = f[k]}
<1>3. 0 \in G
    BY <1>0, <1>1, <1>2 DEF Joined
<1>4. ASSUME NEW m \in 0 .. n - 1, m \in G
      PROVE  m + 1 \in G
    <2>1. m + 1 \in 1 .. n /\ m + 1 \in 1 .. n + 1 /\ m + 1 \in 0 .. n /\ (m + 1) - 1 = m
        BY <1>0
    <2>2. f[m + 1] = f[m] \o q[m + 1]
        BY <1>1, <2>1 DEF Joined
    <2>3. g[m + 1] = g[m] \o r[m + 1]
        BY <1>0, <1>2, <2>1 DEF Joined
    <2> QED
        BY <1>0, <1>4, <2>1, <2>2, <2>3
<1> HIDE DEF G, n
<1>5. \A k \in 0 .. n : k \in G
    BY <1>0, <1>3, <1>4, UpToLast
<1>6. g[n] = f[n] /\ n \in 0 .. n /\ n + 1 \in 1 .. n + 1 /\ (n + 1) - 1 = n
    BY <1>0, <1>5 DEF G
<1>7. g[n + 1] = g[n] \o shown
    <2>1. g[n + 1] = g[(n + 1) - 1] \o r[n + 1]
        BY <1>0, <1>2, <1>6 DEF Joined
    <2> QED
        BY <1>0, <1>6, <2>1
<1>8. f[n] \in Shows
    BY <1>1, <1>6 DEF Joined, n
<1> QED
    BY <1>1, <1>2, <1>6, <1>7, <1>8 DEF r

\* What the parts ps show together.
Told(ps) == FlattenSeq([j \in DOMAIN ps |-> Styled(ps[j], <<>>)])

LEMMA ToldAppend ==
    ASSUME NEW ps \in Seq(Strings), NEW p \in Strings
    PROVE  Told(ps) \in Shows /\ Told(Append(ps, p)) = Told(ps) \o Styled(p, <<>>)
<1> DEFINE n == Len(ps)
           q == [j \in DOMAIN ps |-> Styled(ps[j], <<>>)]
           rs == Append(ps, p)
           r == [j \in DOMAIN rs |-> Styled(rs[j], <<>>)]
<1>0. <<>> \in Stacks /\ n \in Nat /\ DOMAIN ps = 1 .. n
    BY DEF Stacks
<1>1. /\ rs \in Seq(Strings) /\ Len(rs) = n + 1 /\ DOMAIN rs = 1 .. n + 1
      /\ \A j \in 1 .. n : rs[j] = ps[j]
      /\ rs[n + 1] = p
    <2>1. rs \in Seq(Strings) /\ Len(rs) = n + 1
          /\ (\A j \in 1 .. n : rs[j] = ps[j]) /\ rs[n + 1] = p
        BY AppendProperties
    <2> HIDE DEF rs
    <2> QED
        BY <2>1, LenProperties
<1>2. ASSUME NEW t \in Strings
      PROVE  Styled(t, <<>>) \in Shows
    BY <1>0, StyledTyped
<1> HIDE DEF rs
<1>3. q \in Seq(Shows) /\ Len(q) = n /\ \A j \in 1 .. n : q[j] = Styled(ps[j], <<>>)
    <2>1. \A j \in 1 .. n : Styled(ps[j], <<>>) \in Shows
        BY <1>0, <1>2
    <2>2. q \in [1 .. n -> Shows]
        BY <1>0, <2>1
    <2>3. \A j \in 1 .. n : q[j] = Styled(ps[j], <<>>)
        BY <1>0
    <2> HIDE DEF q
    <2> QED
        BY <1>0, <2>2, <2>3
<1>4. r \in Seq(Shows) /\ Len(r) = n + 1 /\ \A j \in 1 .. n + 1 : r[j] = Styled(rs[j], <<>>)
    <2>1. \A j \in 1 .. n + 1 : Styled(rs[j], <<>>) \in Shows
        BY <1>0, <1>1, <1>2
    <2>2. r \in [1 .. n + 1 -> Shows]
        BY <1>1, <2>1
    <2>3. \A j \in 1 .. n + 1 : r[j] = Styled(rs[j], <<>>)
        BY <1>1
    <2> HIDE DEF r
    <2> QED
        BY <1>0, <2>2, <2>3
<1> DEFINE last == Styled(p, <<>>)
<1>5. Told(ps) = FlattenSeq(q) /\ Told(rs) = FlattenSeq(r)
    BY DEF Told
<1> HIDE DEF q, r
<1>6. last \in Shows
    BY <1>2
<1> HIDE DEF last
<1>7. r = Append(q, last)
    <2>1. /\ Append(q, last) \in Seq(Shows) /\ Len(Append(q, last)) = n + 1
          /\ \A j \in 1 .. n : Append(q, last)[j] = q[j]
          /\ Append(q, last)[n + 1] = last
        BY <1>3, <1>6, AppendProperties
    <2>2. ASSUME NEW j \in 1 .. n + 1
          PROVE  r[j] = Append(q, last)[j]
        <3>1. CASE j \in 1 .. n
            BY <1>1, <1>3, <1>4, <2>1, <3>1
        <3>2. CASE j = n + 1
            BY <1>1, <1>4, <2>1, <3>2 DEF last
        <3>3. j \in 1 .. n \/ j = n + 1
            <4> HIDE DEF n
            <4> QED
                BY <1>0
        <3> QED
            BY <3>1, <3>2, <3>3
    <2> QED
        BY <1>4, <2>1, <2>2, SeqEqual
<1>8. FlattenSeq(q) \in Shows /\ FlattenSeq(Append(q, last)) = FlattenSeq(q) \o last
    BY <1>3, <1>6, FlattenAppend
<1> QED
    BY <1>5, <1>7, <1>8 DEF rs, last

LEMMA ToldNothing == Told(<<>>) = <<>>
<1> DEFINE q == [j \in DOMAIN <<>> |-> Styled(<<>>[j], <<>>)]
<1>1. q = <<>>
    OBVIOUS
<1>2. FlattenSeq(<<>>) = <<>>
    BY DEF FlattenSeq
<1> QED
    BY <1>1, <1>2 DEF Told

-----------------------------------------------------------------------------
(* Every round keeps what is shown and the nesting. *)

\* Of a well-formed text, what is left is well-formed behind the tags that are
\* opened again.
Reopens ==
    Balanced(whole) /\ text # <<>> => WellNested(text, open) /\ scanTags(text, open) = <<>>

SplitInv ==
    /\ SplitTyped
    /\ NothingLost
    /\ Reopens
    /\ PartsBalanced

LEMMA BalancedParts ==
    ASSUME parts \in Seq(Strings)
    PROVE  PartsBalanced <=> (Balanced(whole) => \A j \in 1 .. Len(parts) : Balanced(parts[j]))
<1>1. DOMAIN parts = 1 .. Len(parts)
    OBVIOUS
<1> QED
    BY <1>1 DEF PartsBalanced, Range

LEMMA InitSplitInv ==
    ASSUME NEW texts, texts \subseteq Strings, SplitInit(texts)
    PROVE  SplitInv
<1>1. whole \in Strings /\ text = whole /\ open = <<>> /\ parts = <<>>
    BY DEF SplitInit
<1>2. <<>> \in Stacks /\ parts \in Seq(Strings) /\ Len(<<>>) = 0
    BY <1>1 DEF Stacks
<1>3. SplitTyped
    BY <1>1, <1>2 DEF SplitTyped
<1>4. NothingLost
    <2>1. NothingLost <=> Styled(whole, <<>>) = Told(<<>>) \o Styled(whole, <<>>)
        BY <1>1 DEF NothingLost, Told
    <2>2. <<>> \o Styled(whole, <<>>) = Styled(whole, <<>>)
        BY <1>1, <1>2, StyledTyped, ConcatEmptySeq DEF Shows
    <2> QED
        BY <2>1, <2>2, ToldNothing
<1>5. Reopens
    BY <1>1, BalancedIs DEF Reopens
<1>6. PartsBalanced
    BY <1>1, <1>2, BalancedParts
<1> QED
    BY <1>3, <1>4, <1>5, <1>6 DEF SplitInv

\* A cut moves what the text shows into a part, and both stay well-formed.
LEMMA CutStep ==
    ASSUME SplitTyped, Cut
    PROVE  \E part \in Strings :
              /\ text' \in Strings /\ open' \in Stacks
              /\ parts' = Append(parts, part)
              /\ Styled(text, open) = Styled(part, <<>>) \o Styled(text', open')
              /\ WellNested(text, open) /\ scanTags(text, open) = <<>> =>
                    /\ Balanced(part)
                    /\ text' # <<>> => WellNested(text', open') /\ scanTags(text', open') = <<>>
<1>0. text \in Strings /\ open \in Stacks /\ text # <<>>
    BY CutCases DEF SplitTyped
<1>1. CASE /\ parts' = Append(parts, PartOf(CutHead))
           /\ open' = scanTags(CutHead, open)
           /\ text' = CutRest
    <2>1. /\ CutHead \in Strings /\ CutRest \in Strings
          /\ \E b, c \in Strings :
                Blanks(b) /\ Blanks(c) /\ text = (CutHead \o b) \o (c \o CutRest)
        BY <1>0, CutPieces
    <2>2. /\ PartOf(CutHead) \in Strings
          /\ Styled(PartOf(CutHead), <<>>) = Styled(CutHead, open)
          /\ WellNested(CutHead, open) => Balanced(PartOf(CutHead))
        BY <1>0, <2>1, PartIs
    <2> DEFINE head == CutHead
               rest == CutRest
               part == PartOf(CutHead)
    <2> HIDE DEF head, rest, part
    <2>3. /\ head \in Strings /\ rest \in Strings /\ part \in Strings
          /\ parts' = Append(parts, part) /\ open' = scanTags(head, open) /\ text' = rest
          /\ Styled(part, <<>>) = Styled(head, open)
          /\ WellNested(head, open) => Balanced(part)
        BY <1>1, <2>1, <2>2 DEF head, rest, part
    <2>4. scanTags(head, open) \in Stacks
        BY <1>0, <2>3, StackAfter
    <2>5. /\ Styled(text, open) = Styled(head, open) \o Styled(rest, scanTags(head, open))
          /\ scanTags(text, open) = scanTags(rest, scanTags(head, open))
          /\ WellNested(text, open) => WellNested(head, open) /\ WellNested(rest, scanTags(head, open))
        <3>1. PICK b \in Strings, c \in Strings :
                 Blanks(b) /\ Blanks(c) /\ text = (head \o b) \o (c \o rest)
            BY <2>1 DEF head, rest
        <3> DEFINE s == (head \o b) \o (c \o rest)
        <3>2. /\ Styled(s, open) = Styled(head, open) \o Styled(rest, scanTags(head, open))
              /\ scanTags(s, open) = scanTags(rest, scanTags(head, open))
              /\ WellNested(s, open) => WellNested(head, open) /\ WellNested(rest, scanTags(head, open))
            BY <1>0, <2>3, <3>1, BlanksBetween
        <3>3. text = s
            BY <3>1
        <3> HIDE DEF s
        <3> QED
            BY <3>2, <3>3
    <2> QED
        BY <2>3, <2>4, <2>5
<1>2. CASE parts' = Append(parts, open \o text) /\ text' = <<>> /\ open' = open
    <2> DEFINE part == open \o text
    <2>0. <<>> \in Strings /\ <<>> \in Stacks
        BY LengthEmpty DEF Stacks
    <2>1. open \in Strings /\ scanTags(open, <<>>) = open /\ \A k \in 1 .. Len(open) : open[k] \in Opens
        BY <1>0, NestedOpens
    <2>2. part \in Strings
        BY <1>0, <2>1, Concat DEF Strings
    <2>3. Styled(part, <<>>) = Styled(open, <<>>) \o Styled(text, open)
        BY <1>0, <2>0, <2>1, StyledConcat
    <2>4. scanTags(part, <<>>) = scanTags(text, open)
        BY <1>0, <2>0, <2>1, ScanConcat
    <2>5. WellNested(part, <<>>) <=> WellNested(open, <<>>) /\ WellNested(text, open)
        BY <1>0, <2>0, <2>1, WellNestedConcat
    <2> HIDE DEF part
    <2>6. Styled(open, <<>>) = <<>> /\ Styled(<<>>, open) = <<>>
        <3>1. \A k \in 1 .. Len(open) : open[k] \notin Letters
            BY <2>1, TokenKinds
        <3>2. \A k \in 1 .. Len(<<>>) : <<>>[k] \notin Letters
            OBVIOUS
        <3>3. Styled(open, <<>>) = <<>>
            BY <2>0, <2>1, <3>1, StyledNoLetters
        <3>4. Styled(<<>>, open) = <<>>
            BY <1>0, <2>0, <3>2, StyledNoLetters
        <3> QED
            BY <3>3, <3>4
    <2>7. Styled(part, <<>>) = Styled(text, open) /\ Styled(text, open) = Styled(part, <<>>) \o <<>>
        <3>1. Styled(text, open) \in Shows
            BY <1>0, StyledTyped
        <3>2. <<>> \o Styled(text, open) = Styled(text, open) /\ Styled(text, open) \o <<>> = Styled(text, open)
            BY <3>1, ConcatEmptySeq DEF Shows
        <3> QED
            BY <2>3, <2>6, <3>2
    <2>8. WellNested(open, <<>>)
        BY <2>1, TokenKinds DEF WellNested
    <2>9. WellNested(text, open) /\ scanTags(text, open) = <<>> => Balanced(part)
        BY <2>2, <2>4, <2>5, <2>8, BalancedIs
    <2>10. parts' = Append(parts, part)
        BY <1>2 DEF part
    <2> QED
        BY <1>0, <1>2, <2>0, <2>2, <2>6, <2>7, <2>9, <2>10
<1> QED
    BY <1>1, <1>2, CutCases

LEMMA CutKeepsSplitInv ==
    ASSUME SplitInv, Cut
    PROVE  SplitInv'
<1>0. SplitTyped /\ whole' = whole /\ text # <<>>
    BY CutCases DEF SplitInv
<1>1. PICK part \in Strings :
         /\ text' \in Strings /\ open' \in Stacks
         /\ parts' = Append(parts, part)
         /\ Styled(text, open) = Styled(part, <<>>) \o Styled(text', open')
         /\ WellNested(text, open) /\ scanTags(text, open) = <<>> =>
               /\ Balanced(part)
               /\ text' # <<>> => WellNested(text', open') /\ scanTags(text', open') = <<>>
    BY <1>0, CutStep
<1>2. SplitTyped'
    BY <1>0, <1>1 DEF SplitTyped
<1>3. NothingLost'
    <2> DEFINE told == Told(parts)
               shown == Styled(part, <<>>)
               left == Styled(text', open')
    <2>0. <<>> \in Stacks /\ parts \in Seq(Strings)
        BY <1>0 DEF SplitTyped, Stacks
    <2>1. told \in Shows /\ Told(Append(parts, part)) = told \o shown
        BY <2>0, ToldAppend
    <2>2. shown \in Shows /\ left \in Shows
        BY <1>1, <2>0, StyledTyped
    <2>3. Styled(whole, <<>>) = told \o Styled(text, open)
        BY DEF SplitInv, NothingLost, Told
    <2>4. NothingLost' <=> Styled(whole', <<>>) = Told(parts') \o left
        BY DEF NothingLost, Told
    <2> HIDE DEF told, shown, left
    <2>5. (told \o shown) \o left = told \o (shown \o left)
        BY <2>1, <2>2, ConcatAssociative DEF Shows
    <2>6. Styled(text, open) = shown \o left
        BY <1>1 DEF shown, left
    <2> QED
        BY <1>0, <1>1, <2>1, <2>3, <2>4, <2>5, <2>6
<1>4. Reopens'
    BY <1>0, <1>1 DEF SplitInv, Reopens
<1>5. PartsBalanced'
    <2>1. parts \in Seq(Strings) /\ parts' \in Seq(Strings)
        BY <1>0, <1>2 DEF SplitTyped
    <2>2. Balanced(whole) => Balanced(part) /\ \A j \in 1 .. Len(parts) : Balanced(parts[j])
        BY <1>0, <1>1, <2>1, BalancedParts DEF SplitInv, Reopens
    <2>3. /\ Len(parts') = Len(parts) + 1 /\ Len(parts) \in Nat
          /\ \A j \in 1 .. Len(parts) : parts'[j] = parts[j]
          /\ parts'[Len(parts) + 1] = part
        BY <1>1, <2>1, AppendProperties
    <2>4. ASSUME Balanced(whole'), NEW j \in 1 .. Len(parts')
          PROVE  Balanced(parts'[j])
        <3>1. j \in 1 .. Len(parts) \/ j = Len(parts) + 1
            BY <2>3
        <3> QED
            BY <1>0, <2>2, <2>3, <2>4, <3>1
    <2>5. PartsBalanced' <=> (Balanced(whole') => \A j \in 1 .. Len(parts') : Balanced(parts'[j]))
        <3>1. DOMAIN parts' = 1 .. Len(parts')
            BY <2>1
        <3> QED
            BY <3>1 DEF PartsBalanced, Range
    <2> QED
        BY <2>4, <2>5
<1> QED
    BY <1>2, <1>3, <1>4, <1>5 DEF SplitInv

-----------------------------------------------------------------------------
(* With shallow nesting the slack covers every tag that a cut closes. *)

ClosingUnits(stack) == utf16Len(closingTags(stack))

\* Wherever s is cut, the slack reserved covers the tags to be closed.
Shallow(s, stack) ==
    \A k \in 0 .. Len(s) : ClosingUnits(Nested(s, stack)[k]) <= CloseSlack

\* No text nests deeper than the slack covers, and the limit has room for
\* the tags at both ends of a part and for one token.
SlackSuffices ==
    /\ \A s \in Texts : Shallow(s, <<>>)
    /\ 3 * CloseSlack + 4 <= Limit

FitInv ==
    /\ SplitTyped
    /\ Shallow(text, open)
    /\ \A j \in 1 .. Len(parts) : utf16Len(parts[j]) <= Limit

LEMMA UnitsOfEqual ==
    ASSUME NEW s \in Strings, NEW c \in Nat, \A k \in 1 .. Len(s) : Units[s[k]] = c
    PROVE  utf16Len(s) = c * Len(s)
<1> DEFINE f == TotalUpTo(Units, s)
           G == {k \in 0 .. Len(s) : f[k] = c * k}
<1>0. Len(s) \in Nat
    BY DEF Strings
<1>1. /\ utf16Len(s) = f[Len(s)] /\ f[0] = 0
      /\ \A k \in 1 .. Len(s) : f[k] = f[k - 1] + Units[s[k]]
    BY UnitsNat, TotalIs DEF utf16Len
<1> HIDE DEF f
<1>2. 0 \in G
    BY <1>0, <1>1
<1>3. ASSUME NEW m \in 0 .. Len(s) - 1, m \in G
      PROVE  m + 1 \in G
    <2>1. m + 1 \in 1 .. Len(s) /\ (m + 1) - 1 = m /\ m \in Nat
        BY <1>0
    <2>2. f[m + 1] = c * m + c
        BY <1>1, <1>3, <2>1
    <2>3. c * m + c = c * (m + 1)
        BY <2>1
    <2> QED
        BY <1>0, <2>1, <2>2, <2>3
<1> HIDE DEF G
<1>4. \A k \in 0 .. Len(s) : k \in G
    BY <1>0, <1>2, <1>3, UpToLast
<1> QED
    BY <1>0, <1>1, <1>4 DEF G

\* Reopening a tag takes fewer units than closing it.
LEMMA OpensAreShorter ==
    ASSUME NEW stack \in Stacks
    PROVE  utf16Len(stack) <= ClosingUnits(stack)
<1>1. /\ stack \in Strings /\ Len(stack) \in Nat
      /\ \A k \in 1 .. Len(stack) : Units[stack[k]] = 3
    BY NestedOpens, TokenKinds DEF Units, Bytes, Strings, Letters
<1>2. /\ closingTags(stack) \in Strings /\ Len(closingTags(stack)) = Len(stack)
      /\ \A k \in 1 .. Len(stack) : Units[closingTags(stack)[k]] = 4
    BY NestedCloses, TokenKinds DEF Units, Bytes, Letters
<1>3. utf16Len(stack) = 3 * Len(stack)
    BY <1>1, UnitsOfEqual
<1>4. utf16Len(closingTags(stack)) = 4 * Len(stack)
    BY <1>2, UnitsOfEqual
<1> QED
    BY <1>1, <1>3, <1>4 DEF ClosingUnits

LEMMA ShallowConcat ==
    ASSUME NEW a \in Strings, NEW b \in Strings, NEW stack \in Stacks, Shallow(a \o b, stack)
    PROVE  Shallow(a, stack) /\ Shallow(b, scanTags(a, stack))
<1>1. Len(a) \in Nat /\ Len(b) \in Nat /\ Len(a \o b) = Len(a) + Len(b)
    BY Concat DEF Strings
<1>2. /\ \A k \in 0 .. Len(a) : Nested(a \o b, stack)[k] = Nested(a, stack)[k]
      /\ \A k \in 0 .. Len(b) :
            Nested(a \o b, stack)[Len(a) + k] = Nested(b, scanTags(a, stack))[k]
    BY NestedConcat
<1>3. \A k \in 0 .. Len(a) : k \in 0 .. Len(a \o b)
    BY <1>1
<1>4. \A k \in 0 .. Len(b) : Len(a) + k \in 0 .. Len(a \o b)
    BY <1>1
<1> QED
    BY <1>2, <1>3, <1>4 DEF Shallow

LEMMA ShallowEnds ==
    ASSUME NEW s \in Strings, NEW stack \in Stacks, Shallow(s, stack)
    PROVE  ClosingUnits(stack) <= CloseSlack /\ ClosingUnits(scanTags(s, stack)) <= CloseSlack
<1>1. 0 \in 0 .. Len(s) /\ Len(s) \in 0 .. Len(s) /\ Nested(s, stack)[0] = stack
    BY NestedIs DEF Strings
<1> QED
    BY <1>1 DEF Shallow, scanTags

LEMMA PrefixFits ==
    ASSUME NEW s \in Strings, NEW n \in 0 .. Len(s), NEW k \in 0 .. n
    PROVE  utf16Len(Prefix(s, k)) <= utf16Len(Prefix(s, n))
<1> DEFINE p == Prefix(s, n)
           r == SubSeq(p, k + 1, Len(p))
<1>1. p \in Strings /\ Len(p) = n
    BY TwoPieces
<1>2. Prefix(p, k) = Prefix(s, k)
    BY PrefixOfPrefix DEF Prefix, Strings
<1> HIDE DEF p
<1>3. k \in 0 .. Len(p)
    BY <1>1
<1>4. Prefix(p, k) \in Strings /\ r \in Strings /\ p = Prefix(p, k) \o r
    BY <1>1, <1>3, TwoPieces
<1> HIDE DEF r
<1>5. utf16Len(p) = utf16Len(Prefix(p, k)) + utf16Len(r) /\ utf16Len(Prefix(p, k)) \in Nat /\ utf16Len(r) \in Nat
    BY <1>4, LengthsAdd, LengthsNat
<1>6. utf16Len(Prefix(p, k)) <= utf16Len(p)
    BY <1>5
<1> QED
    BY <1>2, <1>6 DEF p

\* A part whose head keeps to the first budget fits.
LEMMA HeadFits ==
    ASSUME SlackSuffices, FitInv, NEW head \in Strings, utf16Len(head) <= FirstBudget,
           ClosingUnits(scanTags(head, open)) <= CloseSlack
    PROVE  /\ FirstBudget \in Nat /\ FirstBudget >= 4
           /\ utf16Len(PartOf(head)) <= Limit
<1>0. open \in Stacks /\ text \in Strings /\ Limit \in Nat /\ CloseSlack \in Nat
    BY Constants DEF FitInv, SplitTyped
<1> DEFINE o == utf16Len(open)
           c == ClosingUnits(open)
           h == utf16Len(head)
           d == ClosingUnits(scanTags(head, open))
<1>1. c <= CloseSlack /\ o <= c
    BY <1>0, ShallowEnds, OpensAreShorter DEF FitInv
<1>2. o \in Nat /\ c \in Nat /\ h \in Nat /\ d \in Nat
    BY <1>0, NestedOpens, NestedCloses, StackAfter, LengthsNat DEF ClosingUnits
<1>3. 3 * CloseSlack + 4 <= Limit
    BY DEF SlackSuffices
<1>4. FirstBudget = AtLeastOne(Limit - o - c - CloseSlack)
    BY DEF FirstBudget, ClosingUnits
<1>5. utf16Len(PartOf(head)) = o + h + d
    BY <1>0, PartIs DEF ClosingUnits
<1>6. h <= FirstBudget /\ d <= CloseSlack
    OBVIOUS
<1> HIDE DEF o, c, h, d
<1>7. Limit - o - c - CloseSlack \in Int /\ Limit - o - c - CloseSlack >= 4
    BY <1>0, <1>1, <1>2, <1>3
<1>8. FirstBudget = Limit - o - c - CloseSlack
    BY <1>4, <1>7 DEF AtLeastOne
<1>9. FirstBudget \in Nat /\ FirstBudget >= 4
    BY <1>7, <1>8
<1>10. o + h + d <= Limit
    BY <1>0, <1>1, <1>2, <1>6, <1>8
<1> QED
    BY <1>5, <1>9, <1>10

\* The head of a cut leaves tags open that the slack covers.
LEMMA ShallowHead ==
    ASSUME NEW s \in Strings, NEW stack \in Stacks, Shallow(s, stack), NEW k \in 0 .. Len(s)
    PROVE  LET head == TrimRight(Prefix(s, k))
           IN  /\ head \in Strings
               /\ ClosingUnits(scanTags(head, stack)) <= CloseSlack
               /\ utf16Len(head) <= utf16Len(Prefix(s, k))
<1> DEFINE p == Prefix(s, k)
           r == SubSeq(s, k + 1, Len(s))
           head == TrimRight(p)
<1>1. p \in Strings /\ r \in Strings /\ s = p \o r
    BY TwoPieces
<1> HIDE DEF p, r
<1>2. head \in Strings /\ \E b \in Strings : Blanks(b) /\ p = head \o b
    BY <1>1, TrimRightIs
<1> HIDE DEF head
<1>3. PICK b \in Strings : p = head \o b
    BY <1>2
<1>4. Shallow(p \o r, stack)
    BY <1>1
<1>5. Shallow(p, stack)
    BY <1>1, <1>4, ShallowConcat
<1>6. Shallow(head \o b, stack)
    BY <1>3, <1>5
<1>7. Shallow(head, stack)
    BY <1>2, <1>6, ShallowConcat
<1>8. ClosingUnits(scanTags(head, stack)) <= CloseSlack
    BY <1>2, <1>7, ShallowEnds
<1>9. utf16Len(p) = utf16Len(head) + utf16Len(b) /\ utf16Len(head) \in Nat /\ utf16Len(b) \in Nat
    BY <1>2, <1>3, LengthsAdd, LengthsNat
<1>10. utf16Len(head) <= utf16Len(p)
    BY <1>9
<1> QED
    BY <1>2, <1>8, <1>10 DEF head, p

\* With slack enough the first budget is the last.
LEMMA FirstBudgetStays ==
    ASSUME SlackSuffices, FitInv
    PROVE  /\ Budget[MaxRefinements] = FirstBudget
           /\ FirstBudget \in Nat /\ FirstBudget >= 4
<1>0. /\ open \in Stacks /\ text \in Strings /\ Limit \in Nat /\ MaxRefinements \in Nat
      /\ Shallow(text, open)
    BY Constants DEF FitInv, SplitTyped
<1>1. FirstBudget \in Nat /\ FirstBudget >= 4
    <2>1. <<>> \in Strings /\ utf16Len(<<>>) = 0 /\ <<>> \in Seq(Tokens)
        BY LengthEmpty DEF Strings
    <2>2. FirstBudget \in Nat \ {0}
        BY <1>0, BudgetIs
    <2>3. scanTags(<<>>, open) = open
        BY <1>0, <2>1, ScanNoTags
    <2>4. ClosingUnits(open) <= CloseSlack
        BY <1>0, ShallowEnds
    <2> QED
        BY <2>1, <2>2, <2>3, <2>4, HeadFits
<1> DEFINE b == FirstBudget
           cut == safeCut(text, b)
           k == Fitting(text, b)
<1>2. k \in 0 .. Len(text) /\ utf16Len(Prefix(text, k)) <= b
    BY <1>0, <1>1, FittingIs
<1>3. cut \in 0 .. k
    BY <1>0, <1>1, SafeCutIs
<1>4. cut \in 0 .. Len(text)
    BY <1>0, <1>1, HeadIs
<1>5. utf16Len(Prefix(text, cut)) <= utf16Len(Prefix(text, k))
    BY <1>0, <1>2, <1>3, PrefixFits
<1>6. /\ HeadFor(b) \in Strings
      /\ ClosingUnits(scanTags(HeadFor(b), open)) <= CloseSlack
      /\ utf16Len(HeadFor(b)) <= utf16Len(Prefix(text, cut))
    <2> HIDE DEF cut
    <2>1. HeadFor(b) = TrimRight(Prefix(text, cut))
        BY DEF HeadFor, cut
    <2> QED
        BY <1>0, <1>4, <2>1, ShallowHead
<1>7. utf16Len(HeadFor(b)) <= b
    <2>1. /\ utf16Len(HeadFor(b)) \in Nat /\ utf16Len(Prefix(text, cut)) \in Nat
          /\ utf16Len(Prefix(text, k)) \in Nat /\ b \in Nat
        <3>1. Prefix(text, cut) \in Strings /\ Prefix(text, k) \in Strings
            <4> HIDE DEF cut, k
            <4> QED
                BY <1>0, <1>2, <1>4, TwoPieces
        <3> QED
            BY <1>1, <1>6, <3>1, LengthsNat
    <2> HIDE DEF cut, k, b
    <2> QED
        BY <1>2, <1>5, <1>6, <2>1
<1>8. utf16Len(PartOf(HeadFor(b))) <= Limit
    BY <1>6, <1>7, HeadFits
<1>9. utf16Len(PartOf(HeadFor(b))) \in Nat
    BY <1>0, <1>6, PartIs, LengthsNat
<1>10. Shrunk(b) = b
    <2>1. utf16Len(PartOf(HeadFor(b))) - Limit <= 0
        BY <1>0, <1>8, <1>9
    <2> QED
        BY <2>1 DEF Shrunk
<1> HIDE DEF b
<1> DEFINE G == {i \in 0 .. MaxRefinements : Budget[i] = b}
<1>11. 0 \in G
    BY <1>0, BudgetIs DEF b
<1>12. ASSUME NEW m \in 0 .. MaxRefinements - 1, m \in G
       PROVE  m + 1 \in G
    <2>1. m + 1 \in 1 .. MaxRefinements /\ m + 1 \in 0 .. MaxRefinements /\ (m + 1) - 1 = m
        BY <1>0
    <2>2. Budget[m + 1] = Shrunk(Budget[m])
        BY <1>0, <2>1, BudgetIs
    <2> QED
        BY <1>10, <1>12, <2>1, <2>2
<1> HIDE DEF G
<1>13. \A i \in 0 .. MaxRefinements : i \in G
    BY <1>0, <1>11, <1>12, UpToLast
<1>14. Budget[MaxRefinements] = b
    BY <1>0, <1>13 DEF G
<1> QED
    BY <1>1, <1>14 DEF b

\* The token that is taken when nothing else fits.
LEMMA OneToken ==
    ASSUME NEW s \in Strings, s # <<>>
    PROVE  Prefix(s, 1) \in Strings /\ utf16Len(Prefix(s, 1)) <= 4
<1>0. 1 \in 0 .. Len(s) /\ s[1] \in Tokens
    <2>1. Len(s) \in Nat \ {0}
        BY EmptySeq DEF Strings
    <2> QED
        BY <2>1 DEF Strings
<1> DEFINE p == Prefix(s, 1)
<1>1. p \in Strings /\ Len(p) = 1 /\ p[1] = s[1]
    <2>1. p \in Strings /\ Len(p) = 1 /\ \A j \in 1 .. 1 : p[j] = s[j]
        BY <1>0, TwoPieces
    <2> HIDE DEF p
    <2>2. 1 \in 1 .. 1
        OBVIOUS
    <2> QED
        BY <2>1, <2>2
<1> HIDE DEF p
<1>2. utf16Len(p) = Units[s[1]]
    <2>0. 1 \in 1 .. Len(p) /\ 1 - 1 = 0
        BY <1>1
    <2>1. /\ utf16Len(p) = TotalUpTo(Units, p)[1] /\ TotalUpTo(Units, p)[0] = 0
          /\ TotalUpTo(Units, p)[1] = TotalUpTo(Units, p)[0] + Units[p[1]]
        <3>1. /\ utf16Len(p) = TotalUpTo(Units, p)[Len(p)] /\ TotalUpTo(Units, p)[0] = 0
              /\ \A k \in 1 .. Len(p) : TotalUpTo(Units, p)[k] = TotalUpTo(Units, p)[k - 1] + Units[p[k]]
            BY <1>1, UnitsNat, TotalIs DEF utf16Len
        <3> QED
            BY <1>1, <2>0, <3>1
    <2>2. Units[p[1]] \in Nat
        BY <1>0, <1>1, UnitsNat DEF Measures
    <2> QED
        BY <1>1, <2>1, <2>2
<1>3. Units[s[1]] <= 4
    BY <1>0 DEF Units, Bytes
<1> QED
    BY <1>1, <1>2, <1>3 DEF p

LEMMA FitInvFits ==
    ASSUME SlackSuffices, FitInv
    PROVE  PartsFit
<1>1. Budget[MaxRefinements] = FirstBudget /\ FirstBudget \in Nat /\ FirstBudget >= 4
    BY FirstBudgetStays
<1>2. \A t \in Opens \cup Closes : Units[t] <= 4 /\ Units[t] \in Nat
    BY TokenKinds, UnitsNat DEF Units, Bytes, Measures
<1>3. RoomForTags
    BY <1>1, <1>2 DEF RoomForTags
<1>4. DOMAIN parts = 1 .. Len(parts)
    BY DEF FitInv, SplitTyped
<1> QED
    BY <1>3, <1>4 DEF PartsFit, FitInv, Range, utf16Len

LEMMA InitFitInv ==
    ASSUME SlackSuffices, NEW texts, texts \subseteq Texts \cup {<<>>}, SplitInit(texts)
    PROVE  FitInv
<1>1. whole \in Strings /\ text = whole /\ open = <<>> /\ parts = <<>>
    BY Constants, LengthEmpty DEF SplitInit
<1>2. <<>> \in Stacks /\ parts \in Seq(Strings) /\ Len(<<>>) = 0
    BY <1>1 DEF Stacks
<1>3. Shallow(whole, <<>>)
    <2>1. CASE whole \in Texts
        BY <2>1 DEF SlackSuffices
    <2>2. CASE whole = <<>>
        <3>1. Nested(<<>>, <<>>)[0] = <<>> /\ <<>> \in Strings
            BY <1>2, LengthEmpty, NestedIs
        <3>2. closingTags(<<>>) = <<>>
            BY DEF closingTags
        <3>3. ClosingUnits(<<>>) = 0 /\ CloseSlack \in Nat
            BY <3>2, LengthEmpty, Constants DEF ClosingUnits
        <3>4. \A k \in 0 .. Len(<<>>) : k = 0
            BY <1>2
        <3> QED
            BY <2>2, <3>1, <3>3, <3>4 DEF Shallow
    <2> QED
        BY <2>1, <2>2 DEF SplitInit
<1> QED
    BY <1>1, <1>2, <1>3 DEF FitInv, SplitTyped

LEMMA CutKeepsFitInv ==
    ASSUME SlackSuffices, FitInv, Cut
    PROVE  FitInv'
<1>0. /\ SplitTyped /\ text # <<>> /\ whole' = whole /\ open \in Stacks /\ text \in Strings
      /\ Shallow(text, open) /\ parts \in Seq(Strings) /\ Limit \in Nat
    BY CutCases, Constants DEF FitInv, SplitTyped
<1>1. PICK part \in Strings :
         text' \in Strings /\ open' \in Stacks /\ parts' = Append(parts, part)
    BY <1>0, CutStep
<1>2. SplitTyped'
    BY <1>0, <1>1 DEF SplitTyped
<1>3. ASSUME utf16Len(part) <= Limit
      PROVE  \A j \in 1 .. Len(parts') : utf16Len(parts'[j]) <= Limit
    <2>1. /\ Len(parts') = Len(parts) + 1 /\ Len(parts) \in Nat
          /\ \A j \in 1 .. Len(parts) : parts'[j] = parts[j]
          /\ parts'[Len(parts) + 1] = part
        BY <1>0, <1>1, AppendProperties
    <2>2. ASSUME NEW j \in 1 .. Len(parts')
          PROVE  utf16Len(parts'[j]) <= Limit
        <3>1. j \in 1 .. Len(parts) \/ j = Len(parts) + 1
            BY <2>1
        <3>2. \A i \in 1 .. Len(parts) : utf16Len(parts[i]) <= Limit
            BY DEF FitInv
        <3> QED
            BY <1>3, <2>1, <3>1, <3>2
    <2> QED
        BY <2>2
<1>4. CASE /\ utf16Len(open \o text) <= Limit
           /\ parts' = Append(parts, open \o text) /\ text' = <<>> /\ open' = open
    <2>1. open \o text \in Strings
        BY <1>0, NestedOpens, Concat DEF Strings
    <2>2. part = open \o text
        <3> DEFINE w == open \o text
        <3>1. Append(parts, part) = Append(parts, w) /\ w \in Strings
            BY <1>1, <1>4, <2>1
        <3> HIDE DEF w
        <3>2. part = w
            BY <1>0, <3>1, AppendInjective
        <3> QED
            BY <3>2 DEF w
    <2>3. Shallow(<<>>, open)
        <3>1. ClosingUnits(open) <= CloseSlack
            BY <1>0, ShallowEnds
        <3>2. Nested(<<>>, open)[0] = open
            BY <1>0, LengthEmpty, NestedIs
        <3>3. \A k \in 0 .. Len(<<>>) : k = 0
            OBVIOUS
        <3> QED
            BY <3>1, <3>2, <3>3 DEF Shallow
    <2>4. Shallow(text, open)'
        BY <1>4, <2>3 DEF Shallow
    <2> QED
        BY <1>2, <1>3, <1>4, <2>2, <2>4 DEF FitInv
<1>5. CASE /\ parts' = Append(parts, PartOf(CutHead))
           /\ open' = scanTags(CutHead, open)
           /\ text' = CutRest
    <2>1. /\ CutHead \in Strings /\ CutRest \in Strings
          /\ \E b, c \in Strings :
                Blanks(b) /\ Blanks(c) /\ text = (CutHead \o b) \o (c \o CutRest)
        BY <1>0, CutPieces
    <2> DEFINE head == CutHead
               rest == CutRest
    <2> HIDE DEF head, rest
    <2>2. head \in Strings /\ rest \in Strings
        BY <2>1 DEF head, rest
    <2>3. ClosingUnits(scanTags(head, open)) <= CloseSlack /\ Shallow(rest, scanTags(head, open))
        <3>1. PICK b \in Strings, c \in Strings :
                 Blanks(b) /\ Blanks(c) /\ text = (head \o b) \o (c \o rest)
            BY <2>1 DEF head, rest
        <3>2. head \o b \in Strings /\ c \o rest \in Strings
            BY <2>2, Concat DEF Strings
        <3>3. Shallow(head \o b, open) /\ Shallow(c \o rest, scanTags(head \o b, open))
            <4>1. Shallow((head \o b) \o (c \o rest), open)
                BY <1>0, <3>1
            <4> DEFINE l == head \o b
                       r == c \o rest
            <4> HIDE DEF l, r
            <4>2. Shallow(l, open) /\ Shallow(r, scanTags(l, open))
                BY <1>0, <3>2, <4>1, ShallowConcat DEF l, r
            <4> QED
                BY <4>2 DEF l, r
        <3>4. scanTags(head, open) \in Stacks
            BY <1>0, <2>2, StackAfter
        <3>5. scanTags(head \o b, open) = scanTags(head, open)
            BY <1>0, <2>2, <3>1, <3>4, ScanConcat, BlanksShowNothing
        <3>6. Shallow(head, open)
            BY <1>0, <2>2, <3>3, ShallowConcat
        <3>7. Shallow(rest, scanTags(c, scanTags(head, open)))
            BY <2>2, <3>3, <3>4, <3>5, ShallowConcat
        <3>8. scanTags(c, scanTags(head, open)) = scanTags(head, open)
            BY <3>1, <3>4, BlanksShowNothing
        <3> QED
            BY <1>0, <2>2, <3>6, <3>7, <3>8, ShallowEnds
    <2>4. utf16Len(head) <= FirstBudget
        <3>1. Budget[MaxRefinements] = FirstBudget /\ FirstBudget \in Nat /\ FirstBudget >= 4
            BY FirstBudgetStays
        <3>2. CASE CutAt = 0
            <4>1. head = Prefix(text, 1)
                BY <3>2 DEF head, CutHead
            <4>2. utf16Len(head) <= 4 /\ utf16Len(head) \in Nat
                BY <1>0, <2>2, <4>1, OneToken, LengthsNat
            <4> QED
                BY <3>1, <4>2
        <3>3. CASE CutAt # 0
            <4> DEFINE k == Fitting(text, FirstBudget)
            <4>1. CutAt = safeCut(text, FirstBudget) /\ head = TrimRight(Prefix(text, CutAt))
                BY <3>1, <3>3 DEF head, CutHead, CutAt
            <4>2. k \in 0 .. Len(text) /\ utf16Len(Prefix(text, k)) <= FirstBudget
                BY <1>0, <3>1, FittingIs
            <4>3. CutAt \in 0 .. k
                BY <1>0, <3>1, <4>1, SafeCutIs
            <4>4. CutAt \in 0 .. Len(text)
                BY <1>0, <3>1, <4>1, HeadIs
            <4> HIDE DEF k
            <4>5. utf16Len(Prefix(text, CutAt)) <= utf16Len(Prefix(text, k))
                BY <1>0, <4>2, <4>3, PrefixFits
            <4>6. utf16Len(head) <= utf16Len(Prefix(text, CutAt))
                BY <1>0, <4>1, <4>4, ShallowHead
            <4>7. /\ utf16Len(head) \in Nat /\ utf16Len(Prefix(text, CutAt)) \in Nat
                  /\ utf16Len(Prefix(text, k)) \in Nat
                BY <1>0, <2>2, <4>2, <4>4, TwoPieces, LengthsNat
            <4> QED
                BY <3>1, <4>2, <4>5, <4>6, <4>7
        <3> QED
            BY <3>2, <3>3
    <2>5. utf16Len(PartOf(head)) <= Limit
        BY <2>2, <2>3, <2>4, HeadFits
    <2>6. part = PartOf(head)
        <3> DEFINE w == PartOf(head)
        <3>1. Append(parts, part) = Append(parts, w) /\ w \in Strings
            BY <1>0, <1>1, <1>5, <2>2, PartIs DEF head
        <3> HIDE DEF w
        <3>2. part = w
            BY <1>0, <3>1, AppendInjective
        <3> QED
            BY <3>2 DEF w
    <2>7. Shallow(text, open)'
        BY <1>5, <2>3 DEF Shallow, head, rest
    <2> QED
        BY <1>2, <1>3, <2>5, <2>6, <2>7 DEF FitInv
<1> QED
    BY <1>4, <1>5, CutCases
-----------------------------------------------------------------------------
(* The splitter within the messenger. *)

\* Nothing but rendering touches the texts.
LEMMA SplitStep ==
    ASSUME [Next]_vars
    PROVE  Cut \/ UNCHANGED splitVars
<1>1. CASE UNCHANGED vars
    BY <1>1 DEF vars, splitVars
<1>2. ASSUME NEW c \in Callers, BeginCall(c) \/ Calls(c) \/ Reports(c) \/ GivesUp(c)
      PROVE  UNCHANGED splitVars
    BY <1>2 DEF BeginCall, Calls, Reports, GivesUp
<1>3. CASE Renders
    BY <1>3 DEF Renders
<1>4. CASE Probe \/ Probed \/ LoopStep \/ Changes \/ Tick
    BY <1>4 DEF Probe, Probed, LoopStep, Changes, Tick
<1> QED
    BY <1>1, <1>2, <1>3, <1>4 DEF Next

LEMMA InitSplit ==
    ASSUME Init
    PROVE  \E texts : texts \subseteq Texts \cup {<<>>} /\ SplitInit(texts)
<1>1. SplitInit(IF setup.renders THEN Texts ELSE {<<>>})
    BY DEF Init
<1>2. (IF setup.renders THEN Texts ELSE {<<>>}) \subseteq Texts \cup {<<>>}
    OBVIOUS
<1> QED
    BY <1>1, <1>2

LEMMA SpecSplitInv == Spec => []SplitInv
<1>1. Init => SplitInv
    <2> SUFFICES ASSUME Init
                 PROVE  SplitInv
        OBVIOUS
    <2>1. PICK texts : texts \subseteq Texts \cup {<<>>} /\ SplitInit(texts)
        BY InitSplit
    <2>2. texts \subseteq Strings
        BY <2>1, Constants, LengthEmpty
    <2> QED
        BY <2>1, <2>2, InitSplitInv
<1>2. SplitInv /\ [Next]_vars => SplitInv'
    <2> SUFFICES ASSUME SplitInv, [Next]_vars
                 PROVE  SplitInv'
        OBVIOUS
    <2>1. CASE Cut
        BY <2>1, CutKeepsSplitInv
    <2>2. CASE UNCHANGED splitVars
        BY <2>2 DEF splitVars, SplitInv, SplitTyped, NothingLost, Reopens, PartsBalanced
    <2> QED
        BY <2>1, <2>2, SplitStep
<1> QED
    BY <1>1, <1>2, PTL DEF Spec

(***************************************************************************)
(* Whatever tags a text opens, crosses or leaves open, and wherever it is   *)
(* cut: its parts show all its letters, in order, each in the formatting it *)
(* has in the text (telegram/splitter.go).                                  *)
(***************************************************************************)
THEOREM MessengerNothingLost == Spec => []NothingLost
<1>1. SplitInv => NothingLost
    BY DEF SplitInv
<1> QED
    BY <1>1, SpecSplitInv, PTL

(***************************************************************************)
(* A well-formed text is cut into well-formed parts, whatever the limit:    *)
(* no part is rejected for a tag left open or closed twice                  *)
(* (telegram/splitter.go).                                                  *)
(***************************************************************************)
THEOREM MessengerPartsBalanced == Spec => []PartsBalanced
<1>1. SplitInv => PartsBalanced
    BY DEF SplitInv
<1> QED
    BY <1>1, SpecSplitInv, PTL

(***************************************************************************)
(* As long as no text nests its tags deeper than tagCloseSlack covers, and  *)
(* the limit has room for three times the slack, every part fits, at the    *)
(* first budget: the cut is never refined (telegram/splitter.go).           *)
(***************************************************************************)
THEOREM MessengerPartsFit == ASSUME SlackSuffices PROVE Spec => []PartsFit
<1>1. Init => FitInv
    BY InitSplit, InitFitInv
<1>2. FitInv /\ [Next]_vars => FitInv'
    <2> SUFFICES ASSUME FitInv, [Next]_vars
                 PROVE  FitInv'
        OBVIOUS
    <2>1. CASE Cut
        BY <2>1, CutKeepsFitInv
    <2>2. CASE UNCHANGED splitVars
        BY <2>2 DEF splitVars, FitInv, SplitTyped, Shallow
    <2> QED
        BY <2>1, <2>2, SplitStep
<1>3. FitInv => PartsFit
    BY FitInvFits
<1> QED
    BY <1>1, <1>2, <1>3, PTL DEF Spec
=============================================================================
