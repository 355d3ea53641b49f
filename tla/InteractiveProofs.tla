------------------------- MODULE InteractiveProofs -------------------------
(***************************************************************************)
(* The promises of the buttons, for every set of messages, capacity and     *)
(* bound: whatever the webhook, the press handler, the two sweepers and     *)
(* restarts do to the same messages.                                        *)
(***************************************************************************)
EXTENDS Interactive, SequenceTheorems, TLAPS

\* The trackers once more, with what ButtonTrackerProofs shows of them.
SilenceP == INSTANCE ButtonTrackerProofs
    WITH index <- sIndex, order <- sOrder, TTL <- ButtonTTL, Values <- {Alert}
UndoP == INSTANCE ButtonTrackerProofs
    WITH index <- uIndex, order <- uOrder, TTL <- UndoWindow, Values <- Silences
-----------------------------------------------------------------------------
(* The inductive invariant. *)

Elements(s) == {s[i] : i \in DOMAIN s}

Buttons == [kind : {"silence"}, id : {Alert}] \cup [kind : {"undo"}, id : Silences]
PressRecords == [ref : Refs, button : Buttons, original : {"firing", "resolved"}]

\* Where the handler is on its way to silence, and on its way to undo.
Silencing == {"create", "consume", "register", "finish"}
Undoing == {"delete", "consumeUndo", "clear"}

PostStates ==
    {"unsent", "sent", "linked", "forgetting", "editing", "resolved", "dropped"}
Screens == [body : {"firing", "resolved"}, buttons : [kind : {"none"}, id : {Alert}] \cup Buttons]

WorkerTyped ==
    \/ worker = Resting
    \/ /\ worker \in [pc : Silencing \cup Undoing \cup {"strip"}, press : PressRecords,
                      since : Nat, id : Nat, att : Nat]
       /\ worker.pc \in Silencing => worker.press.button.kind = "silence"
       /\ worker.pc \in Undoing => worker.press.button.kind = "undo"

Typed ==
    /\ setup \in Setups
    /\ screen \in [Refs -> Screens]
    /\ post \in [Refs -> PostStates]
    /\ queue \in Seq(PressRecords)
    /\ WorkerTyped
    /\ swept \in [silence : Seq(Refs), undo : Seq(Refs)]
    /\ made \in Seq(Refs) /\ Len(made) <= MaxSilences
    /\ active \subseteq DOMAIN made
    /\ told \subseteq DOMAIN made
    /\ undone \subseteq told
    /\ lost \subseteq Refs

Known(ref) == post[ref] \notin {"unsent", "sent"}
Busy(ref, pcs) == worker.pc \in pcs /\ worker.press.ref = ref
ToldOf(ref) == {id \in told : made[id] = ref}

\* A message in the silence tracker is linked, and was never silenced.
SilenceTracked ==
    \A ref \in sIndex : post[ref] = "linked" /\ ToldOf(ref) = {}

\* A user who was told of a silence was told of the only one of that message.
ToldOnce ==
    /\ \A i, j \in told : made[i] = made[j] => i = j
    /\ \A i \in told : Known(made[i])

\* An undo button, on screen or in a press, is for the silence of that message
\* that a user was told of.
ToldButton(ref, button) ==
    button.kind = "undo" => button.id \in told /\ made[button.id] = ref

UndoButtonsTold ==
    /\ \A ref \in Refs : ToldButton(ref, screen[ref].buttons)
    /\ \A i \in DOMAIN queue : ToldButton(queue[i].ref, queue[i].button)
    /\ worker.pc # "idle" => ToldButton(worker.press.ref, worker.press.button)

\* From the lookup on, the handler knows that nobody silenced the message.
WorkerAlone ==
    worker.pc \in Silencing =>
        LET ref == worker.press.ref IN
        /\ Known(ref)
        /\ ToldOf(ref) = {}
        /\ worker.pc # "create" => worker.id \in DOMAIN made /\ made[worker.id] = ref
        /\ worker.pc # "finish" => ref \notin uIndex
        /\ worker.pc \in {"register", "finish"} => ref \notin sIndex

\* What can be undone was told of, or is about to be.
UndoId(ref) == Undo!EntryOf(uOrder, ref).value
UndoUntil(ref) == Undo!EntryOf(uOrder, ref).expiresAt

UndoTracked ==
    \A ref \in uIndex :
        /\ UndoId(ref) \in DOMAIN made /\ made[UndoId(ref)] = ref
        /\ \/ UndoId(ref) \in told
           \/ Busy(ref, {"finish"}) /\ worker.id = UndoId(ref)

\* The handler's time is over before the window it opens.
InTime ==
    /\ worker.pc # "idle" => worker.since <= now /\ now <= worker.since + HandleTimeout
    /\ \A ref \in Refs \ lost :
          Busy(ref, {"finish"}) /\ setup.undo /\ post[ref] = "linked" =>
              /\ ref \in uIndex
              /\ worker.since + UndoWindow <= UndoUntil(ref)

\* Each button on a linked message has an owner: a tracker, a sweeper or the
\* handler that will remove or replace it.
Owned ==
    \A ref \in Refs \ lost : post[ref] = "linked" =>
        /\ screen[ref].buttons.kind = "silence" =>
              \/ ref \in sIndex
              \/ ref \in Elements(swept.silence)
              \/ Busy(ref, {"register", "finish", "strip"})
        /\ screen[ref].buttons.kind = "undo" =>
              \/ ref \in uIndex
              \/ ref \in Elements(swept.undo)
              \/ Busy(ref, {"clear", "strip"})

IInv ==
    /\ SilenceP!IInv
    /\ UndoP!IInv
    /\ Typed
    /\ SilenceTracked
    /\ ToldOnce
    /\ UndoButtonsTold
    /\ WorkerAlone
    /\ UndoTracked
    /\ InTime
    /\ Owned
-----------------------------------------------------------------------------
(* Both instances speak of the same trackers. *)

LEMMA SameSilenceLists ==
    ASSUME NEW list
    PROVE  /\ Silence!KeysOf(list) = SilenceP!KeysOf(list)
           /\ \A k : /\ Silence!EntryOf(list, k) = SilenceP!EntryOf(list, k)
                     /\ Silence!Without(list, k) = SilenceP!Without(list, k)
           /\ \A n : /\ Silence!AfterN(list, n) = SilenceP!AfterN(list, n)
                     /\ Silence!FirstN(list, n) = SilenceP!FirstN(list, n)
                     /\ Silence!WalkRemoves(list, n, now) = SilenceP!WalkRemoves(list, n, now)
           /\ Silence!Surplus(list, MaxEntries) = SilenceP!Surplus(list, MaxEntries)
BY DEF Silence!KeysOf, SilenceP!KeysOf, Silence!EntryOf, SilenceP!EntryOf, Silence!IndexOf,
       SilenceP!IndexOf, Silence!Without, SilenceP!Without, Silence!RemoveAt, SilenceP!RemoveAt,
       Silence!AfterN, SilenceP!AfterN, Silence!FirstN, SilenceP!FirstN, Silence!WalkRemoves,
       SilenceP!WalkRemoves, Silence!Expired, SilenceP!Expired, Silence!Surplus, SilenceP!Surplus

LEMMA SameSilenceTracker ==
    /\ Silence!Init <=> SilenceP!Init
    /\ Silence!TypeOK <=> SilenceP!TypeOK
    /\ \A ref, v : Silence!RegisterMessage(ref, v) <=> SilenceP!RegisterMessage(ref, v)
    /\ \A ref : Silence!ConsumeRef(ref) <=> SilenceP!ConsumeRef(ref)
    /\ \A ref : Silence!Live(ref) <=> SilenceP!Live(ref)
    /\ Silence!Sweep <=> SilenceP!Sweep
BY SameSilenceLists DEF Silence!Init, SilenceP!Init, Silence!TypeOK, SilenceP!TypeOK,
  Silence!Entry, SilenceP!Entry, Silence!RegisterMessage, SilenceP!RegisterMessage,
  Silence!Refresh, SilenceP!Refresh, Silence!Insert, SilenceP!Insert, Silence!Fresh, SilenceP!Fresh,
  Silence!ConsumeRef, SilenceP!ConsumeRef, Silence!Live, SilenceP!Live, Silence!Sweep, SilenceP!Sweep,
  Silence!Expired, SilenceP!Expired

LEMMA SameUndoLists ==
    ASSUME NEW list
    PROVE  /\ Undo!KeysOf(list) = UndoP!KeysOf(list)
           /\ \A k : /\ Undo!EntryOf(list, k) = UndoP!EntryOf(list, k)
                     /\ Undo!Without(list, k) = UndoP!Without(list, k)
           /\ \A n : /\ Undo!AfterN(list, n) = UndoP!AfterN(list, n)
                     /\ Undo!FirstN(list, n) = UndoP!FirstN(list, n)
                     /\ Undo!WalkRemoves(list, n, now) = UndoP!WalkRemoves(list, n, now)
           /\ Undo!Surplus(list, MaxEntries) = UndoP!Surplus(list, MaxEntries)
BY DEF Undo!KeysOf, UndoP!KeysOf, Undo!EntryOf, UndoP!EntryOf, Undo!IndexOf,
       UndoP!IndexOf, Undo!Without, UndoP!Without, Undo!RemoveAt, UndoP!RemoveAt,
       Undo!AfterN, UndoP!AfterN, Undo!FirstN, UndoP!FirstN, Undo!WalkRemoves,
       UndoP!WalkRemoves, Undo!Expired, UndoP!Expired, Undo!Surplus, UndoP!Surplus

LEMMA SameUndoTracker ==
    /\ Undo!Init <=> UndoP!Init
    /\ Undo!TypeOK <=> UndoP!TypeOK
    /\ \A ref, v : Undo!RegisterMessage(ref, v) <=> UndoP!RegisterMessage(ref, v)
    /\ \A ref : Undo!ConsumeRef(ref) <=> UndoP!ConsumeRef(ref)
    /\ \A ref : Undo!Live(ref) <=> UndoP!Live(ref)
    /\ Undo!Sweep <=> UndoP!Sweep
BY SameUndoLists DEF Undo!Init, UndoP!Init, Undo!TypeOK, UndoP!TypeOK,
  Undo!Entry, UndoP!Entry, Undo!RegisterMessage, UndoP!RegisterMessage,
  Undo!Refresh, UndoP!Refresh, Undo!Insert, UndoP!Insert, Undo!Fresh, UndoP!Fresh,
  Undo!ConsumeRef, UndoP!ConsumeRef, Undo!Live, UndoP!Live, Undo!Sweep, UndoP!Sweep,
  Undo!Expired, UndoP!Expired

LEMMA Settings ==
    /\ MaxTime \in Nat /\ {ButtonTTL, UndoWindow} \subseteq Nat \ {0} /\ MaxEntries \in Int
    /\ HandleTimeout \in Nat /\ HandleTimeout < UndoWindow
BY InteractiveAssumption, ClockAssumption

(***************************************************************************)
(* What the operations of the silence tracker do, seen from outside.        *)
(***************************************************************************)
LEMMA SilenceRegistered ==
    ASSUME SilenceP!IInv, NEW ref \in Refs, Silence!RegisterMessage(ref, Alert)
    PROVE  SilenceP!IInv' /\ sIndex' \subseteq sIndex \cup {ref} /\ ref \in sIndex'
<1>1. SilenceP!RegisterMessage(ref, Alert) /\ Alert \in {Alert}
    BY SameSilenceTracker
<1> QED
    BY <1>1, Settings, SilenceP!RegisterFacts

LEMMA SilenceConsumed ==
    ASSUME SilenceP!IInv, UNCHANGED now, NEW ref \in Refs,
           IF ref \in sIndex THEN Silence!ConsumeRef(ref) ELSE UNCHANGED silenceVars
    PROVE  SilenceP!IInv' /\ sIndex' = sIndex \ {ref}
<1>1. CASE ref \in sIndex
    <2>1. SilenceP!ConsumeRef(ref)
        BY <1>1, SameSilenceTracker
    <2> QED
        BY <2>1, Settings, SilenceP!ConsumeFacts
<1>2. CASE ref \notin sIndex
    BY <1>2 DEF silenceVars, SilenceP!IInv, SilenceP!TypeOK
<1> QED
    BY <1>1, <1>2

\* What the sweeper is handed: messages only, and every one the index lost.
LEMMA SilenceSwept ==
    ASSUME SilenceP!IInv, Silence!Sweep
    PROVE  /\ SilenceP!IInv' /\ sIndex' \subseteq sIndex
           /\ Popped(sOrder, sOrder') \in Seq(Refs)
           /\ sIndex \ sIndex' \subseteq Elements(Popped(sOrder, sOrder'))
<1> DEFINE n == Len(sOrder) - Len(sOrder')
           popped == Popped(sOrder, sOrder')
<1>1. SilenceP!Sweep
    BY SameSilenceTracker
<1>2. /\ SilenceP!IInv' /\ sIndex' \subseteq sIndex /\ n \in 1 .. Len(sOrder)
      /\ \A i \in 1 .. n : sOrder[i].key \in sIndex
      /\ \A k \in sIndex \ sIndex' : \E i \in 1 .. n : sOrder[i].key = k
    BY <1>1, Settings, SilenceP!SweepFacts
<1>3. sOrder \in Seq(SilenceP!Entry) /\ sIndex \subseteq Refs
    BY DEF SilenceP!IInv, SilenceP!TypeOK
<1>4. n \in Nat
    BY <1>2, <1>3, LenProperties
<1>5. popped = [i \in 1 .. n |-> sOrder[i].key]
    BY DEF Popped
<1> HIDE DEF popped, n
<1>6. popped \in Seq(Refs) /\ DOMAIN popped = 1 .. n
    BY <1>2, <1>3, <1>4, <1>5, IsASeq
<1> QED
    BY <1>2, <1>5, <1>6 DEF Elements, popped

(***************************************************************************)
(* The same for the undo tracker, with what it remembers of a message.      *)
(***************************************************************************)
UndoKept(refs) ==
    \A k \in refs : UndoId(k)' = UndoId(k) /\ UndoUntil(k)' = UndoUntil(k)

LEMMA UndoRegistered ==
    ASSUME UndoP!IInv, NEW ref \in Refs, NEW id \in Silences, Undo!RegisterMessage(ref, id)
    PROVE  /\ UndoP!IInv' /\ uIndex' \subseteq uIndex \cup {ref} /\ ref \in uIndex'
           /\ UndoId(ref)' = id /\ UndoUntil(ref)' = now + UndoWindow
           /\ UndoKept(uIndex' \ {ref})
<1>1. UndoP!RegisterMessage(ref, id)
    BY SameUndoTracker
<1>2. /\ UndoP!IInv' /\ uIndex' \subseteq uIndex \cup {ref} /\ ref \in uIndex'
      /\ UndoP!EntryOf(uOrder', ref) = UndoP!Fresh(ref, id)
      /\ \A k \in uIndex' \ {ref} : UndoP!EntryOf(uOrder', k) = UndoP!EntryOf(uOrder, k)
    BY <1>1, Settings, UndoP!RegisterFacts
<1> QED
    BY <1>2, SameUndoLists DEF UndoKept, UndoId, UndoUntil, UndoP!Fresh

LEMMA UndoConsumed ==
    ASSUME UndoP!IInv, UNCHANGED now, NEW ref \in Refs,
           IF ref \in uIndex THEN Undo!ConsumeRef(ref) ELSE UNCHANGED undoVars
    PROVE  /\ UndoP!IInv' /\ uIndex' = uIndex \ {ref}
           /\ UndoKept(uIndex')
<1>1. CASE ref \in uIndex
    <2>1. UndoP!ConsumeRef(ref)
        BY <1>1, SameUndoTracker
    <2>2. /\ UndoP!IInv' /\ uIndex' = uIndex \ {ref}
          /\ \A k \in uIndex' : UndoP!EntryOf(uOrder', k) = UndoP!EntryOf(uOrder, k)
        BY <2>1, Settings, UndoP!ConsumeFacts
    <2> QED
        BY <2>2, SameUndoLists DEF UndoKept, UndoId, UndoUntil
<1>2. CASE ref \notin uIndex
    BY <1>2 DEF undoVars, UndoP!IInv, UndoP!TypeOK, UndoKept, UndoId, UndoUntil
<1> QED
    BY <1>1, <1>2

\* A sweep takes no message whose window is open.
LEMMA UndoSwept ==
    ASSUME UndoP!IInv, Undo!Sweep
    PROVE  /\ UndoP!IInv' /\ uIndex' \subseteq uIndex
           /\ UndoKept(uIndex')
           /\ \A k \in uIndex \ uIndex' : UndoUntil(k) <= now
           /\ Popped(uOrder, uOrder') \in Seq(Refs)
           /\ uIndex \ uIndex' \subseteq Elements(Popped(uOrder, uOrder'))
<1> DEFINE n == Len(uOrder) - Len(uOrder')
           popped == Popped(uOrder, uOrder')
<1>1. UndoP!Sweep
    BY SameUndoTracker
<1>2. /\ UndoP!IInv' /\ uIndex' \subseteq uIndex /\ n \in 1 .. Len(uOrder)
      /\ \A k \in uIndex' : UndoP!EntryOf(uOrder', k) = UndoP!EntryOf(uOrder, k)
      /\ \A i \in 1 .. n : uOrder[i].key \in uIndex
      /\ \A k \in uIndex \ uIndex' :
            /\ UndoP!Expired(UndoP!EntryOf(uOrder, k), now)
            /\ \E i \in 1 .. n : uOrder[i].key = k
    BY <1>1, Settings, UndoP!SweepFacts
<1>3. /\ UndoKept(uIndex')
      /\ \A k \in uIndex \ uIndex' : UndoUntil(k) <= now
    BY <1>2, SameUndoLists DEF UndoKept, UndoId, UndoUntil, UndoP!Expired
<1>4. uOrder \in Seq(UndoP!Entry) /\ uIndex \subseteq Refs
    BY DEF UndoP!IInv, UndoP!TypeOK
<1>5. n \in Nat
    BY <1>2, <1>4, LenProperties
<1>6. popped = [i \in 1 .. n |-> uOrder[i].key]
    BY DEF Popped
<1> HIDE DEF popped, n
<1>7. popped \in Seq(Refs) /\ DOMAIN popped = 1 .. n
    BY <1>2, <1>4, <1>5, <1>6, IsASeq
<1> QED
    BY <1>2, <1>3, <1>6, <1>7 DEF Elements, popped

LEMMA TrackerTypes ==
    ASSUME SilenceP!IInv, UndoP!IInv
    PROVE  /\ sIndex \subseteq Refs /\ uIndex \subseteq Refs /\ now \in Nat
           /\ \A k \in uIndex : UndoId(k) \in Silences /\ UndoUntil(k) \in Nat
<1>1. \A k \in uIndex : UndoP!EntryOf(uOrder, k) \in UndoP!Entry
    BY Settings, UndoP!TrackedEntry
<1> QED
    BY <1>1, SameUndoLists DEF UndoKept, UndoId, UndoUntil, UndoP!Entry, SilenceP!IInv, SilenceP!TypeOK,
       UndoP!IInv, UndoP!TypeOK

\* The tracker invariants speak of the clock and of their own tracker.
LEMMA TrackersSame ==
    /\ SilenceP!IInv /\ UNCHANGED <<now, silenceVars>> => SilenceP!IInv'
    /\ UndoP!IInv /\ UNCHANGED <<now, undoVars>> =>
          /\ UndoP!IInv'
          /\ UndoKept(uIndex)
BY DEF silenceVars, undoVars, SilenceP!IInv, SilenceP!TypeOK, UndoP!IInv, UndoP!TypeOK,
   UndoKept, UndoId, UndoUntil

LEMMA TrackersTick ==
    ASSUME SilenceP!IInv, UndoP!IInv, Advance, UNCHANGED trackers
    PROVE  /\ SilenceP!IInv' /\ UndoP!IInv'
           /\ UndoKept(uIndex)
<1>1. SilenceP!Tick /\ UndoP!Tick
    BY DEF SilenceP!Tick, UndoP!Tick, Advance, SilenceP!Advance, UndoP!Advance, trackers
<1> QED
    BY <1>1, Settings, SilenceP!TickIInv, UndoP!TickIInv DEF UndoKept, UndoId, UndoUntil, trackers

LEMMA TrackersInit ==
    ASSUME Silence!Init, Undo!Init
    PROVE  SilenceP!IInv /\ UndoP!IInv /\ sIndex = {} /\ uIndex = {}
BY Settings, SameSilenceTracker, SameUndoTracker, SilenceP!InitIInv, UndoP!InitIInv
DEF Silence!Init, Undo!Init

-----------------------------------------------------------------------------
(* The webhook preserves the invariant. *)

WebhookKeeps == UNCHANGED <<now, bounds, queue, worker, swept, amVars, toldVars>>

LEMMA SendIInv ==
    ASSUME IInv, NEW ref \in Refs, Send(ref), WebhookKeeps
    PROVE  IInv'
<1> USE DEF WebhookKeeps, bounds, amVars, toldVars
<1>1. /\ UNCHANGED <<now, sIndex, uIndex, setup, queue, worker, swept, made, active, told,
                     undone, lost>>
      /\ post[ref] = "unsent" /\ post' = [post EXCEPT ![ref] = "sent"]
      /\ screen' = [screen EXCEPT ![ref].buttons = SilenceButton]
    BY DEF Send, trackers
<1>2. SilenceP!IInv' /\ UndoP!IInv' /\ UndoKept(uIndex)
    BY TrackersSame DEF IInv, Send, trackers, silenceVars, undoVars
<1>3. Typed'
    BY <1>1 DEF IInv, Typed, WorkerTyped, PostStates, Screens, SilenceButton, Buttons
<1>4. SilenceTracked' /\ ToldOnce'
    BY <1>1 DEF IInv, SilenceTracked, ToldOf, ToldOnce, Known, Typed, Screens, PostStates
<1>5. UndoButtonsTold'
    BY <1>1 DEF IInv, UndoButtonsTold, ToldButton, SilenceButton, Typed, Screens
<1>6. WorkerAlone'
    BY <1>1 DEF IInv, WorkerAlone, Known, ToldOf, Typed
<1>7. UndoTracked'
    BY <1>1, <1>2 DEF IInv, UndoTracked, UndoKept, Busy
<1>8. InTime'
    BY <1>1, <1>2 DEF IInv, InTime, UndoKept, Busy, Typed
<1>9. Owned'
    BY <1>1 DEF IInv, Owned, Busy, Typed
<1> QED
    BY <1>2, <1>3, <1>4, <1>5, <1>6, <1>7, <1>8, <1>9 DEF IInv

LEMMA RegisterRefIInv ==
    ASSUME IInv, NEW ref \in Refs, RegisterRef(ref), WebhookKeeps
    PROVE  IInv'
<1> USE DEF WebhookKeeps, bounds, amVars, toldVars
<1>1. /\ UNCHANGED <<now, uIndex, setup, screen, queue, worker, swept, made, active, told, undone>>
      /\ post[ref] = "sent" /\ post' = [post EXCEPT ![ref] = "linked"]
      /\ lost' = lost \cup (sIndex \ sIndex')
    BY DEF RegisterRef, undoVars
<1>2. /\ SilenceP!IInv' /\ sIndex' \subseteq sIndex \cup {ref} /\ ref \in sIndex'
      /\ UndoP!IInv' /\ UndoKept(uIndex)
    BY SilenceRegistered, TrackersSame DEF IInv, RegisterRef
<1>3. Typed'
    BY <1>1, TrackerTypes DEF IInv, Typed, WorkerTyped, PostStates
<1>4. SilenceTracked' /\ ToldOnce'
    BY <1>1, <1>2 DEF IInv, SilenceTracked, ToldOf, ToldOnce, Known, Typed
<1>5. UndoButtonsTold'
    BY <1>1 DEF IInv, UndoButtonsTold, ToldButton
<1>6. WorkerAlone'
    BY <1>1, <1>2 DEF IInv, WorkerAlone, Known, ToldOf, Typed
<1>7. UndoTracked'
    BY <1>1, <1>2 DEF IInv, UndoTracked, UndoKept, Busy
<1>8. InTime'
    <2>1. Busy(ref, {"finish"}) => Known(ref)
        BY DEF IInv, WorkerAlone, Busy, Silencing
    <2> QED
        BY <1>1, <1>2, <2>1 DEF IInv, InTime, UndoKept, Busy, Typed, Known
<1>9. Owned'
    <2>1. screen[ref].buttons.kind # "undo"
        BY <1>1 DEF IInv, UndoButtonsTold, ToldButton, ToldOnce, Known
    <2> QED
        BY <1>1, <1>2, <2>1 DEF IInv, Owned, Busy, Typed
<1> QED
    BY <1>2, <1>3, <1>4, <1>5, <1>6, <1>7, <1>8, <1>9 DEF IInv

LEMMA ForgetSilenceIInv ==
    ASSUME IInv, NEW ref \in Refs, ForgetSilence(ref), WebhookKeeps
    PROVE  IInv'
<1> USE DEF WebhookKeeps, bounds, amVars, toldVars
<1>1. /\ UNCHANGED <<now, uIndex, setup, screen, queue, worker, swept, made, active, told,
                     undone, lost>>
      /\ post[ref] = "linked" /\ post' = [post EXCEPT ![ref] = "forgetting"]
    BY DEF ForgetSilence, undoVars
<1>2. /\ SilenceP!IInv' /\ sIndex' = sIndex \ {ref}
      /\ UndoP!IInv' /\ UndoKept(uIndex)
    BY SilenceConsumed, TrackersSame DEF IInv, ForgetSilence
<1>3. Typed'
    BY <1>1 DEF IInv, Typed, WorkerTyped, PostStates
<1>4. SilenceTracked' /\ ToldOnce'
    BY <1>1, <1>2 DEF IInv, SilenceTracked, ToldOf, ToldOnce, Known, Typed
<1>5. UndoButtonsTold'
    BY <1>1 DEF IInv, UndoButtonsTold, ToldButton
<1>6. WorkerAlone'
    BY <1>1, <1>2 DEF IInv, WorkerAlone, Known, ToldOf, Typed
<1>7. UndoTracked'
    BY <1>1, <1>2 DEF IInv, UndoTracked, UndoKept, Busy
<1>8. InTime'
    BY <1>1, <1>2 DEF IInv, InTime, UndoKept, Busy, Typed
<1>9. Owned'
    BY <1>1, <1>2 DEF IInv, Owned, Busy, Typed
<1> QED
    BY <1>2, <1>3, <1>4, <1>5, <1>6, <1>7, <1>8, <1>9 DEF IInv

LEMMA ForgetUndoIInv ==
    ASSUME IInv, NEW ref \in Refs, ForgetUndo(ref), WebhookKeeps
    PROVE  IInv'
<1> USE DEF WebhookKeeps, bounds, amVars, toldVars
<1>1. /\ UNCHANGED <<now, sIndex, setup, screen, queue, worker, swept, made, active, told,
                     undone, lost>>
      /\ post[ref] = "forgetting" /\ post' = [post EXCEPT ![ref] = "editing"]
    BY DEF ForgetUndo, silenceVars
<1>2. /\ SilenceP!IInv'
      /\ UndoP!IInv' /\ uIndex' = uIndex \ {ref} /\ UndoKept(uIndex')
    BY UndoConsumed, TrackersSame DEF IInv, ForgetUndo
<1>3. Typed'
    BY <1>1 DEF IInv, Typed, WorkerTyped, PostStates
<1>4. SilenceTracked' /\ ToldOnce'
    BY <1>1 DEF IInv, SilenceTracked, ToldOf, ToldOnce, Known, Typed
<1>5. UndoButtonsTold'
    BY <1>1 DEF IInv, UndoButtonsTold, ToldButton
<1>6. WorkerAlone'
    BY <1>1, <1>2 DEF IInv, WorkerAlone, Known, ToldOf, Typed
<1>7. UndoTracked'
    BY <1>1, <1>2 DEF IInv, UndoTracked, UndoKept, Busy
<1>8. InTime'
    BY <1>1, <1>2 DEF IInv, InTime, UndoKept, Busy, Typed
<1>9. Owned'
    BY <1>1, <1>2 DEF IInv, Owned, Busy, Typed
<1> QED
    BY <1>2, <1>3, <1>4, <1>5, <1>6, <1>7, <1>8, <1>9 DEF IInv

LEMMA RewriteIInv ==
    ASSUME IInv, NEW ref \in Refs, Rewrite(ref), WebhookKeeps
    PROVE  IInv'
<1> USE DEF WebhookKeeps, bounds, amVars, toldVars
<1>1. /\ UNCHANGED <<now, sIndex, uIndex, setup, queue, worker, swept, made, active, told,
                     undone, lost>>
      /\ post[ref] = "editing" /\ post' = [post EXCEPT ![ref] = "resolved"]
      /\ screen' = [screen EXCEPT ![ref] = [body |-> "resolved", buttons |-> NoButton]]
    BY DEF Rewrite, trackers
<1>2. SilenceP!IInv' /\ UndoP!IInv' /\ UndoKept(uIndex)
    BY TrackersSame DEF IInv, Rewrite, trackers, silenceVars, undoVars
<1>3. Typed'
    BY <1>1 DEF IInv, Typed, WorkerTyped, PostStates, Screens, NoButton
<1>4. SilenceTracked' /\ ToldOnce'
    BY <1>1 DEF IInv, SilenceTracked, ToldOf, ToldOnce, Known, Typed
<1>5. UndoButtonsTold'
    BY <1>1 DEF IInv, UndoButtonsTold, ToldButton, NoButton, Typed, Screens
<1>6. WorkerAlone'
    BY <1>1 DEF IInv, WorkerAlone, Known, ToldOf, Typed
<1>7. UndoTracked'
    BY <1>1, <1>2 DEF IInv, UndoTracked, UndoKept, Busy
<1>8. InTime'
    BY <1>1, <1>2 DEF IInv, InTime, UndoKept, Busy, Typed
<1>9. Owned'
    BY <1>1 DEF IInv, Owned, Busy, Typed
<1> QED
    BY <1>2, <1>3, <1>4, <1>5, <1>6, <1>7, <1>8, <1>9 DEF IInv

LEMMA RewriteFailsIInv ==
    ASSUME IInv, NEW ref \in Refs, RewriteFails(ref), WebhookKeeps
    PROVE  IInv'
<1> USE DEF WebhookKeeps, bounds, amVars, toldVars
<1>0. PICK next \in {"linked", "dropped"} : post' = [post EXCEPT ![ref] = next]
    BY DEF RewriteFails
<1>1. /\ UNCHANGED <<now, sIndex, uIndex, setup, screen, queue, worker, swept, made, active,
                     told, undone>>
      /\ post[ref] = "editing" /\ post' = [post EXCEPT ![ref] = next]
      /\ next \in {"linked", "dropped"} /\ lost' = lost \cup {ref}
    BY <1>0 DEF RewriteFails, Unshown, trackers
<1>2. SilenceP!IInv' /\ UndoP!IInv' /\ UndoKept(uIndex)
    BY TrackersSame DEF IInv, RewriteFails, trackers, silenceVars, undoVars
<1>3. Typed'
    BY <1>1 DEF IInv, Typed, WorkerTyped, PostStates, Screens, NoButton
<1>4. SilenceTracked' /\ ToldOnce'
    BY <1>1 DEF IInv, SilenceTracked, ToldOf, ToldOnce, Known, Typed
<1>5. UndoButtonsTold'
    BY <1>1 DEF IInv, UndoButtonsTold, ToldButton, NoButton, Typed, Screens
<1>6. WorkerAlone'
    BY <1>1 DEF IInv, WorkerAlone, Known, ToldOf, Typed
<1>7. UndoTracked'
    BY <1>1, <1>2 DEF IInv, UndoTracked, UndoKept, Busy
<1>8. InTime'
    BY <1>1, <1>2 DEF IInv, InTime, UndoKept, Busy, Typed
<1>9. Owned'
    BY <1>1 DEF IInv, Owned, Busy, Typed
<1> QED
    BY <1>2, <1>3, <1>4, <1>5, <1>6, <1>7, <1>8, <1>9 DEF IInv

-----------------------------------------------------------------------------
(* A press joins the queue. *)

LEMMA PressIInv ==
    ASSUME IInv, NEW ref \in Refs, Press(ref)
    PROVE  IInv'
<1> DEFINE p == [ref |-> ref, button |-> screen[ref].buttons, original |-> screen[ref].body]
<1> USE DEF amVars, toldVars, trackers
<1>1. /\ UNCHANGED <<now, sIndex, uIndex, setup, screen, post, worker, swept, made, active,
                     told, undone, lost>>
      /\ screen[ref].buttons # NoButton
      /\ queue' = Append(queue, p)
    BY DEF Press
<1>2. SilenceP!IInv' /\ UndoP!IInv' /\ UndoKept(uIndex)
    BY TrackersSame DEF IInv, Press, silenceVars, undoVars
<1>3. p \in PressRecords
    BY <1>1 DEF IInv, Typed, Screens, NoButton, PressRecords
<1>4. /\ queue' \in Seq(PressRecords) /\ DOMAIN queue' = DOMAIN queue \cup {Len(queue) + 1}
      /\ \A i \in DOMAIN queue : queue'[i] = queue[i]
      /\ queue'[Len(queue) + 1] = p
    BY <1>1, <1>3, AppendProperties, LenProperties DEF IInv, Typed
<1>5. Typed' /\ SilenceTracked' /\ ToldOnce' /\ WorkerAlone'
    BY <1>1, <1>4 DEF IInv, Typed, WorkerTyped, SilenceTracked, ToldOf, ToldOnce, Known,
       WorkerAlone
<1>6. UndoButtonsTold'
    BY <1>1, <1>4 DEF IInv, UndoButtonsTold, ToldButton
<1>7. UndoTracked' /\ InTime'
    BY <1>1, <1>2 DEF IInv, UndoTracked, InTime, UndoKept, Busy
<1>8. Owned'
    BY <1>1 DEF IInv, Owned, Busy
<1> QED
    BY <1>2, <1>5, <1>6, <1>7, <1>8 DEF IInv
-----------------------------------------------------------------------------
(* The handler preserves the invariant. *)

HandlerKeeps == UNCHANGED <<now, bounds, post, swept>>

\* The press at the head of the queue, and those behind it.
LEMMA QueueTakes ==
    ASSUME IInv, queue # <<>>
    PROVE  /\ NextPress \in PressRecords /\ ToldButton(NextPress.ref, NextPress.button)
           /\ Tail(queue) \in Seq(PressRecords)
           /\ \A i \in DOMAIN Tail(queue) : ToldButton(Tail(queue)[i].ref, Tail(queue)[i].button)
<1>1. queue \in Seq(PressRecords) /\ UndoButtonsTold
    BY DEF IInv, Typed
<1>2. /\ NextPress \in PressRecords /\ NextPress = queue[1] /\ 1 \in DOMAIN queue
      /\ Tail(queue) \in Seq(PressRecords)
      /\ \A i \in DOMAIN Tail(queue) : i + 1 \in DOMAIN queue /\ Tail(queue)[i] = queue[i + 1]
    BY <1>1, EmptySeq, HeadTailProperties, LenProperties, ElementOfSeq DEF NextPress
<1> QED
    BY <1>1, <1>2 DEF UndoButtonsTold

\* The steps in which the handler moves on and shows nothing yet.
LEMMA HandlerMoves ==
    ASSUME IInv, HandlerKeeps, UNCHANGED <<trackers, screen, made, toldVars, lost>>,
           active' \subseteq active, worker.pc \in {"idle", "create", "delete"}, worker'.pc # "finish",
           WorkerTyped', queue' \in Seq(PressRecords), UndoButtonsTold', WorkerAlone',
           worker'.pc # "idle" =>
               worker'.since <= now /\ now <= worker'.since + HandleTimeout
    PROVE  IInv'
<1> USE DEF HandlerKeeps, amVars, toldVars, trackers, bounds
<1>1. UNCHANGED <<now, sIndex, uIndex, setup, screen, post, swept, made, told, undone, lost>>
    OBVIOUS
<1>2. SilenceP!IInv' /\ UndoP!IInv' /\ UndoKept(uIndex)
    BY TrackersSame DEF IInv, silenceVars, undoVars
<1>3. Typed' /\ SilenceTracked' /\ ToldOnce'
    BY <1>1 DEF IInv, Typed, SilenceTracked, ToldOf, ToldOnce, Known
<1>4. UndoTracked' /\ InTime'
    BY <1>1, <1>2 DEF IInv, UndoTracked, InTime, UndoKept, Busy
<1>5. Owned'
    BY <1>1 DEF IInv, Owned, Busy
<1> QED
    BY <1>2, <1>3, <1>4, <1>5 DEF IInv

LEMMA RefuseIInv ==
    ASSUME IInv, Refuse, HandlerKeeps
    PROVE  IInv'
<1> USE DEF HandlerKeeps, amVars, toldVars, trackers, bounds
<1>1. WorkerTyped' /\ WorkerAlone'
    BY DEF IInv, Refuse, Typed, WorkerTyped, WorkerAlone, Silencing
<1>2. queue' \in Seq(PressRecords) /\ UndoButtonsTold'
    BY QueueTakes DEF IInv, Refuse, UndoButtonsTold, ToldButton
<1> QED
    BY <1>1, <1>2, HandlerMoves DEF Refuse

LEMMA TakeIInv ==
    ASSUME IInv, TakeSilence \/ TakeUndo \/ TakeExpired, HandlerKeeps
    PROVE  IInv'
<1> USE DEF HandlerKeeps, amVars, toldVars, trackers, bounds
<1> DEFINE p == NextPress
<1>1. PICK kind \in {"silence", "undo"}, pc \in {"create", "delete", "strip"} :
          /\ Take(kind, pc)
          /\ pc = "create" => kind = "silence" /\ p.ref \in sIndex
          /\ pc = "delete" => kind = "undo"
    BY DEF TakeSilence, TakeUndo, TakeExpired, Silence!Live
<1>2. /\ UNCHANGED <<now, sIndex, uIndex, screen, post, made, told>>
      /\ worker.pc = "idle" /\ queue # <<>> /\ p.button.kind = kind
      /\ worker' = [pc |-> pc, press |-> p, since |-> now, id |-> 0, att |-> 0]
      /\ queue' = Tail(queue)
    BY <1>1 DEF Take, Resting
<1>3. /\ p \in PressRecords /\ ToldButton(p.ref, p.button)
      /\ Tail(queue) \in Seq(PressRecords)
      /\ \A i \in DOMAIN Tail(queue) : ToldButton(Tail(queue)[i].ref, Tail(queue)[i].button)
    BY <1>2, QueueTakes
<1> HIDE DEF p
<1>4. now \in Nat
    BY TrackerTypes DEF IInv
<1>5. WorkerTyped'
    BY <1>1, <1>2, <1>3, <1>4 DEF WorkerTyped, Silencing, Undoing
<1>6. UndoButtonsTold'
    BY <1>2, <1>3 DEF IInv, UndoButtonsTold, ToldButton
<1>7. WorkerAlone'
    <2>1. ASSUME pc = "create"
          PROVE  Known(p.ref) /\ ToldOf(p.ref) = {} /\ p.ref \notin uIndex
        <3>1. Known(p.ref) /\ ToldOf(p.ref) = {}
            BY <1>1, <2>1 DEF IInv, SilenceTracked, Known
        <3> QED
            BY <1>2, <3>1 DEF IInv, UndoTracked, Busy, ToldOf
    <2> QED
        BY <1>1, <1>2, <2>1 DEF WorkerAlone, Silencing, Known, ToldOf
<1>8. /\ worker.pc \in {"idle", "create", "delete"} /\ worker'.pc # "finish"
      /\ worker'.pc # "idle" => worker'.since <= now /\ now <= worker'.since + HandleTimeout
    BY <1>1, <1>2, <1>4, Settings
<1>9. queue' \in Seq(PressRecords) /\ UNCHANGED <<trackers, screen, amVars, toldVars, lost>>
    BY <1>1, <1>2, <1>3 DEF Take
<1> QED
    BY <1>5, <1>6, <1>7, <1>8, <1>9, HandlerMoves

\* The handler gives up, or tries once more.
LEMMA AgainIInv ==
    ASSUME IInv, RefuseSilence \/ CallFails, HandlerKeeps
    PROVE  IInv'
<1> USE DEF HandlerKeeps, amVars, toldVars, trackers, bounds
<1>1. /\ UNCHANGED <<now, sIndex, uIndex, screen, post, queue, made, told, lost>>
      /\ worker.pc \in {"create", "delete"}
      /\ worker' = Resting \/ worker' = [worker EXCEPT !.att = @ + 1]
    BY DEF RefuseSilence, CallFails, Working, Again, Answer
<1>2. worker # Resting
    BY <1>1 DEF Resting
<1>3. WorkerTyped'
    <2>1. CASE worker' = Resting
        BY <2>1 DEF WorkerTyped
    <2>2. CASE worker' = [worker EXCEPT !.att = @ + 1]
        <3>1. /\ worker \in [pc : Silencing \cup Undoing \cup {"strip"}, press : PressRecords,
                             since : Nat, id : Nat, att : Nat]
              /\ worker.pc \in Silencing => worker.press.button.kind = "silence"
              /\ worker.pc \in Undoing => worker.press.button.kind = "undo"
            BY <1>2 DEF IInv, Typed, WorkerTyped
        <3>2. worker.att + 1 \in Nat
            BY <3>1
        <3> QED
            BY <2>2, <3>1, <3>2 DEF WorkerTyped
    <2> QED
        BY <1>1, <2>1, <2>2
<1>4. UndoButtonsTold'
    BY <1>1, <1>2 DEF IInv, UndoButtonsTold, ToldButton, Typed, WorkerTyped, Resting
<1>5. WorkerAlone'
    BY <1>1, <1>2 DEF IInv, WorkerAlone, Known, ToldOf, Typed, WorkerTyped, Resting, Silencing
<1>6. /\ worker'.pc # "finish"
      /\ worker'.pc # "idle" => worker'.since <= now /\ now <= worker'.since + HandleTimeout
    BY <1>1, <1>2 DEF IInv, InTime, Typed, WorkerTyped, Resting
<1>7. queue' \in Seq(PressRecords)
    BY <1>1 DEF IInv, Typed
<1>8. UNCHANGED <<trackers, screen, amVars, toldVars, lost>>
    BY DEF RefuseSilence, CallFails, Again, Working
<1> QED
    BY <1>1, <1>3, <1>4, <1>5, <1>6, <1>7, <1>8, HandlerMoves

LEMMA HandlerWorks ==
    ASSUME IInv, worker.pc # "idle"
    PROVE  /\ worker \in [pc : Silencing \cup Undoing \cup {"strip"}, press : PressRecords,
                          since : Nat, id : Nat, att : Nat]
           /\ worker.pc \in Silencing => worker.press.button.kind = "silence"
           /\ worker.pc \in Undoing => worker.press.button.kind = "undo"
           /\ Ref \in Refs /\ worker.press.original \in {"firing", "resolved"}
BY DEF IInv, Typed, WorkerTyped, Resting, PressRecords, Ref

\* Whatever becomes of an edit, only its message is touched.
LEMMA Edited ==
    ASSUME Typed, NEW ref \in Refs, NEW body \in {"firing", "resolved"},
           NEW buttons \in [kind : {"none"}, id : {Alert}] \cup Buttons,
           SetActions(ref, body, buttons)
    PROVE  /\ screen' \in [Refs -> Screens]
           /\ lost \subseteq lost' /\ lost' \subseteq lost \cup {ref}
           /\ \A r \in Refs \ {ref} : screen'[r] = screen[r]
           /\ \/ screen'[ref].buttons = buttons
              \/ ref \in lost' /\ screen'[ref] = screen[ref]
<1>1. CASE Show(ref, body, buttons)
    BY <1>1 DEF Show, Typed, Screens
<1>2. CASE Unshown(ref)
    BY <1>2 DEF Unshown, Typed
<1> QED
    BY <1>1, <1>2 DEF SetActions

LEMMA StripIInv ==
    ASSUME IInv, Strip, HandlerKeeps
    PROVE  IInv'
<1> USE DEF HandlerKeeps, amVars, toldVars, bounds
<1>1. /\ UNCHANGED <<now, sIndex, uIndex, setup, post, queue, swept, made, active, told, undone>>
      /\ worker.pc = "strip" /\ worker' = Resting
    BY DEF Strip, Working, Answer, trackers
<1>2. SilenceP!IInv' /\ UndoP!IInv' /\ UndoKept(uIndex)
    BY TrackersSame DEF IInv, Strip, trackers, silenceVars, undoVars
<1>3. /\ screen' \in [Refs -> Screens]
      /\ lost \subseteq lost' /\ lost' \subseteq lost \cup {Ref} /\ Ref \in Refs
      /\ \A r \in Refs \ {Ref} : screen'[r] = screen[r]
      /\ \/ screen'[Ref].buttons = NoButton
         \/ Ref \in lost' /\ screen'[Ref] = screen[Ref]
    <2>1. /\ Ref \in Refs /\ worker.press.original \in {"firing", "resolved"}
          /\ NoButton \in [kind : {"none"}, id : {Alert}] \cup Buttons
        BY <1>1, HandlerWorks DEF NoButton
    <2>2. PICK ref \in Refs, body \in {"firing", "resolved"} :
              ref = Ref /\ SetActions(ref, body, NoButton)
        BY <2>1 DEF Strip
    <2> QED
        BY <2>1, <2>2, Edited DEF IInv
<1>4. Typed' /\ SilenceTracked' /\ ToldOnce'
    BY <1>1, <1>3 DEF IInv, Typed, WorkerTyped, SilenceTracked, ToldOf, ToldOnce, Known
<1>5. UndoButtonsTold'
    BY <1>1, <1>3 DEF IInv, UndoButtonsTold, ToldButton, NoButton, Resting
<1>6. WorkerAlone'
    BY <1>1 DEF WorkerAlone, Resting, Silencing
<1>7. UndoTracked' /\ InTime'
    BY <1>1, <1>2, <1>3 DEF IInv, UndoTracked, InTime, UndoKept, Busy, Resting
<1>8. Owned'
    BY <1>1, <1>3 DEF IInv, Owned, Busy, Resting, NoButton, Ref
<1> QED
    BY <1>2, <1>4, <1>5, <1>6, <1>7, <1>8 DEF IInv

LEMMA CreateSilenceIInv ==
    ASSUME IInv, CreateSilence, HandlerKeeps
    PROVE  IInv'
<1> USE DEF HandlerKeeps, amVars, toldVars, bounds
<1>1. /\ UNCHANGED <<now, sIndex, uIndex, setup, screen, post, queue, swept, told, undone, lost>>
      /\ worker.pc = "create" /\ Len(made) < MaxSilences
      /\ made' = Append(made, Ref) /\ active' = active \cup {Len(made')}
      /\ \/ worker' = Resting
         \/ worker' = [worker EXCEPT !.att = @ + 1]
         \/ worker' = [worker EXCEPT !.pc = "consume", !.id = Len(made')]
    BY DEF CreateSilence, Working, NewSilence, Again, Answer, trackers
<1>2. SilenceP!IInv' /\ UndoP!IInv' /\ UndoKept(uIndex)
    BY TrackersSame DEF IInv, CreateSilence, trackers, silenceVars, undoVars
<1>3. /\ worker \in [pc : Silencing \cup Undoing \cup {"strip"}, press : PressRecords,
                     since : Nat, id : Nat, att : Nat]
      /\ worker.press.button.kind = "silence" /\ Ref \in Refs /\ Ref = worker.press.ref
    BY <1>1, HandlerWorks DEF Silencing, Ref
<1>4. /\ made' \in Seq(Refs) /\ Len(made') = Len(made) + 1 /\ Len(made') \in Nat
      /\ DOMAIN made' = DOMAIN made \cup {Len(made')}
      /\ made'[Len(made')] = Ref /\ \A i \in DOMAIN made : made'[i] = made[i]
    BY <1>1, <1>3, AppendProperties, LenProperties DEF IInv, Typed
<1>5. /\ worker'.pc \in {"idle", "create", "consume"}
      /\ worker'.pc # "idle" => worker'.press = worker.press /\ worker'.since = worker.since
      /\ worker'.pc = "consume" => worker'.id = Len(made')
    <2>1. CASE worker' = Resting
        BY <2>1 DEF Resting
    <2>2. CASE worker' = [worker EXCEPT !.att = @ + 1]
        BY <1>1, <1>3, <2>2
    <2>3. CASE worker' = [worker EXCEPT !.pc = "consume", !.id = Len(made')]
        BY <1>3, <2>3
    <2> QED
        BY <1>1, <2>1, <2>2, <2>3
<1>6. WorkerTyped'
    <2>1. worker.att + 1 \in Nat
        BY <1>3
    <2> QED
        BY <1>1, <1>3, <1>4, <2>1 DEF WorkerTyped, Silencing, Undoing
<1>7. Typed'
    <2>1. Len(made') <= MaxSilences
        BY <1>1, <1>4, InteractiveAssumption, LenProperties DEF IInv, Typed
    <2>2. active' \subseteq DOMAIN made' /\ told' \subseteq DOMAIN made'
        BY <1>1, <1>4 DEF IInv, Typed
    <2> QED
        BY <1>1, <1>4, <1>6, <2>1, <2>2 DEF IInv, Typed
<1>8. told \subseteq DOMAIN made /\ \A r : ToldOf(r)' = ToldOf(r)
    BY <1>1, <1>4 DEF IInv, Typed, ToldOf
<1>9. SilenceTracked' /\ ToldOnce'
    BY <1>1, <1>4, <1>8 DEF IInv, SilenceTracked, ToldOnce, Known
<1>10. UndoButtonsTold'
    BY <1>1, <1>4, <1>5, <1>8 DEF IInv, UndoButtonsTold, ToldButton
<1>11. WorkerAlone'
    BY <1>1, <1>3, <1>4, <1>5, <1>8 DEF IInv, WorkerAlone, Known, Silencing
<1>12. UndoTracked' /\ InTime'
    BY <1>1, <1>2, <1>4, <1>5 DEF IInv, UndoTracked, InTime, UndoKept, Busy
<1>13. Owned'
    BY <1>1, <1>5 DEF IInv, Owned, Busy
<1> QED
    BY <1>2, <1>7, <1>9, <1>10, <1>11, <1>12, <1>13 DEF IInv

LEMMA ConsumeSilenceIInv ==
    ASSUME IInv, ConsumeSilence, HandlerKeeps
    PROVE  IInv'
<1> USE DEF HandlerKeeps, amVars, toldVars, bounds
<1>1. /\ UNCHANGED <<now, uIndex, setup, screen, post, queue, swept, made, active, told, undone,
                     lost>>
      /\ worker.pc = "consume"
      /\ worker' = [worker EXCEPT !.pc = IF setup.undo THEN "register" ELSE "finish"]
    BY DEF ConsumeSilence, Working, Become, undoVars
<1>2. /\ worker \in [pc : Silencing \cup Undoing \cup {"strip"}, press : PressRecords,
                     since : Nat, id : Nat, att : Nat]
      /\ worker.press.button.kind = "silence" /\ Ref \in Refs /\ Ref = worker.press.ref
    BY <1>1, HandlerWorks DEF Silencing, Ref
<1>3. /\ SilenceP!IInv' /\ sIndex' = sIndex \ {Ref}
      /\ UndoP!IInv' /\ UndoKept(uIndex)
    BY <1>1, <1>2, SilenceConsumed, TrackersSame DEF IInv, ConsumeSilence
<1>4. /\ worker'.pc \in {"register", "finish"} /\ worker'.press = worker.press
      /\ worker'.since = worker.since /\ worker'.id = worker.id
      /\ worker'.pc = "finish" => ~setup.undo
    BY <1>1, <1>2
<1>5. Typed'
    BY <1>1, <1>2 DEF IInv, Typed, WorkerTyped, Silencing, Undoing
<1>6. SilenceTracked' /\ ToldOnce'
    BY <1>1, <1>3 DEF IInv, SilenceTracked, ToldOf, ToldOnce, Known
<1>7. UndoButtonsTold'
    BY <1>1, <1>4 DEF IInv, UndoButtonsTold, ToldButton
<1>8. WorkerAlone'
    BY <1>1, <1>2, <1>3, <1>4 DEF IInv, WorkerAlone, Known, ToldOf, Silencing
<1>9. UndoTracked' /\ InTime'
    BY <1>1, <1>3, <1>4 DEF IInv, UndoTracked, InTime, UndoKept, Busy
<1>10. Owned'
    BY <1>1, <1>2, <1>3, <1>4 DEF IInv, Owned, Busy
<1> QED
    BY <1>3, <1>5, <1>6, <1>7, <1>8, <1>9, <1>10 DEF IInv

LEMMA RegisterUndoIInv ==
    ASSUME IInv, RegisterUndo, HandlerKeeps
    PROVE  IInv'
<1> USE DEF HandlerKeeps, amVars, toldVars, bounds
<1>1. /\ UNCHANGED <<now, sIndex, setup, screen, post, queue, swept, made, active, told, undone>>
      /\ worker.pc = "register" /\ worker' = [worker EXCEPT !.pc = "finish"]
      /\ lost' = lost \cup (uIndex \ uIndex')
    BY DEF RegisterUndo, Working, Become, silenceVars
<1>2. /\ worker \in [pc : Silencing \cup Undoing \cup {"strip"}, press : PressRecords,
                     since : Nat, id : Nat, att : Nat]
      /\ worker.press.button.kind = "silence" /\ Ref \in Refs /\ Ref = worker.press.ref
    BY <1>1, HandlerWorks DEF Silencing, Ref
<1>3. /\ Known(Ref) /\ ToldOf(Ref) = {} /\ worker.id \in DOMAIN made /\ made[worker.id] = Ref
      /\ Ref \notin uIndex /\ Ref \notin sIndex
      /\ worker.since <= now /\ now <= worker.since + HandleTimeout
    BY <1>1, <1>2 DEF IInv, WorkerAlone, Silencing, InTime
<1>4. worker.id \in Silences
    BY <1>3, InteractiveAssumption, LenProperties DEF IInv, Typed, Silences
<1>5. /\ SilenceP!IInv' /\ UndoP!IInv' /\ uIndex' \subseteq uIndex \cup {Ref} /\ Ref \in uIndex'
      /\ UndoId(Ref)' = worker.id /\ UndoUntil(Ref)' = now + UndoWindow
      /\ UndoKept(uIndex' \ {Ref})
    <2>1. PICK ref \in Refs, id \in Silences :
              ref = Ref /\ id = worker.id /\ Undo!RegisterMessage(ref, id)
        BY <1>2, <1>4 DEF RegisterUndo
    <2>2. /\ UndoP!IInv' /\ uIndex' \subseteq uIndex \cup {ref} /\ ref \in uIndex'
          /\ UndoId(ref)' = id /\ UndoUntil(ref)' = now + UndoWindow
          /\ UndoKept(uIndex' \ {ref})
        BY <2>1, UndoRegistered DEF IInv
    <2>3. Ref' = Ref
        BY <1>1, <1>2 DEF Ref
    <2> QED
        BY <1>1, <2>1, <2>2, <2>3, TrackersSame DEF IInv, RegisterUndo, UndoKept, UndoId, UndoUntil
<1>6. /\ worker'.pc = "finish" /\ worker'.press = worker.press /\ Ref' = Ref
      /\ worker'.since = worker.since /\ worker'.id = worker.id
    BY <1>1, <1>2 DEF Ref
<1>7. Typed'
    BY <1>1, <1>2, TrackerTypes DEF IInv, Typed, WorkerTyped, Silencing, Undoing
<1>8. SilenceTracked' /\ ToldOnce'
    BY <1>1 DEF IInv, SilenceTracked, ToldOf, ToldOnce, Known
<1>9. UndoButtonsTold'
    BY <1>1, <1>6 DEF IInv, UndoButtonsTold, ToldButton
<1>10. WorkerAlone'
    BY <1>1, <1>2, <1>3, <1>6 DEF WorkerAlone, Known, ToldOf, Silencing
<1>11. UndoTracked'
    BY <1>1, <1>2, <1>3, <1>5, <1>6 DEF IInv, UndoTracked, UndoKept, Busy
<1>12. InTime'
    BY <1>1, <1>2, <1>3, <1>5, <1>6, Settings, TrackerTypes DEF IInv, InTime, Busy
<1>13. Owned'
    BY <1>1, <1>2, <1>5, <1>6 DEF IInv, Owned, Busy
<1> QED
    BY <1>5, <1>7, <1>8, <1>9, <1>10, <1>11, <1>12, <1>13 DEF IInv

LEMMA FinishSilenceIInv ==
    ASSUME IInv, FinishSilence, HandlerKeeps
    PROVE  IInv'
<1> USE DEF HandlerKeeps, amVars, toldVars, bounds
<1> DEFINE button == IF setup.undo THEN UndoButton(worker.id) ELSE NoButton
<1>1. /\ UNCHANGED <<now, sIndex, uIndex, setup, post, queue, swept, made, active, undone>>
      /\ worker.pc = "finish" /\ worker' = Resting
      /\ told' = told \cup {worker.id}
    BY DEF FinishSilence, Working, Answer, trackers
<1>2. SilenceP!IInv' /\ UndoP!IInv' /\ UndoKept(uIndex)
    BY TrackersSame DEF IInv, FinishSilence, trackers, silenceVars, undoVars
<1>3. /\ Known(Ref) /\ ToldOf(Ref) = {} /\ worker.id \in DOMAIN made /\ made[worker.id] = Ref
      /\ Ref \notin sIndex /\ Ref \in Refs /\ Ref = worker.press.ref
    BY <1>1, HandlerWorks DEF IInv, WorkerAlone, Silencing, Ref
<1>4. worker.id \in Silences
    BY <1>3, InteractiveAssumption, LenProperties DEF IInv, Typed, Silences
<1>5. /\ button \in [kind : {"none"}, id : {Alert}] \cup Buttons
      /\ button.kind = "undo" => setup.undo /\ button.id = worker.id
      /\ button.kind # "silence"
    BY <1>4 DEF UndoButton, NoButton, Buttons
<1>6. SetActions(Ref, "firing", button)
    BY DEF FinishSilence
<1> HIDE DEF button
<1>7. /\ screen' \in [Refs -> Screens]
      /\ lost \subseteq lost' /\ lost' \subseteq lost \cup {Ref}
      /\ \A r \in Refs \ {Ref} : screen'[r] = screen[r]
      /\ \/ screen'[Ref].buttons = button
         \/ Ref \in lost' /\ screen'[Ref] = screen[Ref]
    <2>1. PICK ref \in Refs, b \in [kind : {"none"}, id : {Alert}] \cup Buttons :
              ref = Ref /\ b = button /\ SetActions(ref, "firing", b)
        BY <1>3, <1>5, <1>6
    <2> QED
        BY <2>1, Edited DEF IInv
<1>8. Typed'
    BY <1>1, <1>3, <1>7 DEF IInv, Typed, WorkerTyped
<1>9. SilenceTracked' /\ ToldOnce'
    BY <1>1, <1>3 DEF IInv, SilenceTracked, ToldOf, ToldOnce, Known
<1>10. UndoButtonsTold'
    BY <1>1, <1>3, <1>5, <1>7 DEF IInv, UndoButtonsTold, ToldButton, Resting
<1>11. WorkerAlone'
    BY <1>1 DEF WorkerAlone, Resting, Silencing
<1>12. UndoTracked' /\ InTime'
    BY <1>1, <1>2, <1>3, <1>7 DEF IInv, UndoTracked, InTime, UndoKept, Busy, Resting
<1>13. Owned'
    <2>1. ASSUME Ref \notin lost', post[Ref] = "linked", setup.undo
          PROVE  Ref \in uIndex
        BY <1>1, <1>3, <1>7, <2>1 DEF IInv, InTime, Busy
    <2> QED
        BY <1>1, <1>3, <1>5, <1>7, <2>1 DEF IInv, Owned, Busy, Resting
<1> QED
    BY <1>2, <1>8, <1>9, <1>10, <1>11, <1>12, <1>13 DEF IInv

LEMMA DeleteSilenceIInv ==
    ASSUME IInv, DeleteSilence, HandlerKeeps
    PROVE  IInv'
<1> USE DEF HandlerKeeps, amVars, toldVars, bounds
<1>1. /\ UNCHANGED <<now, trackers, screen, queue, post, made, told, undone, lost>>
      /\ active' \subseteq active /\ worker.pc = "delete"
      /\ \/ worker' = Resting
         \/ worker' = [worker EXCEPT !.att = @ + 1]
         \/ worker' = [worker EXCEPT !.pc = "consumeUndo"]
    BY DEF DeleteSilence, Working, Become, Again, Answer
<1>2. /\ worker \in [pc : Silencing \cup Undoing \cup {"strip"}, press : PressRecords,
                     since : Nat, id : Nat, att : Nat]
      /\ worker.press.button.kind = "undo"
    BY <1>1, HandlerWorks DEF Undoing
<1>3. /\ worker'.pc \in {"idle", "delete", "consumeUndo"}
      /\ worker'.pc # "idle" => worker'.press = worker.press /\ worker'.since = worker.since
    <2>1. CASE worker' = Resting
        BY <2>1 DEF Resting
    <2>2. CASE worker' = [worker EXCEPT !.att = @ + 1]
        BY <1>1, <1>2, <2>2
    <2>3. CASE worker' = [worker EXCEPT !.pc = "consumeUndo"]
        BY <1>2, <2>3
    <2> QED
        BY <1>1, <2>1, <2>2, <2>3
<1>4. WorkerTyped'
    <2>1. worker.att + 1 \in Nat
        BY <1>2
    <2> QED
        BY <1>1, <1>2, <2>1 DEF WorkerTyped, Silencing, Undoing
<1>5. UndoButtonsTold' /\ WorkerAlone' /\ queue' \in Seq(PressRecords)
    BY <1>1, <1>3 DEF IInv, UndoButtonsTold, ToldButton, WorkerAlone, Silencing, Typed
<1>6. /\ worker.pc \in {"idle", "create", "delete"} /\ worker'.pc # "finish"
      /\ worker'.pc # "idle" => worker'.since <= now /\ now <= worker'.since + HandleTimeout
    BY <1>1, <1>3 DEF IInv, InTime
<1> QED
    BY <1>1, <1>4, <1>5, <1>6, HandlerMoves

LEMMA ConsumeUndoIInv ==
    ASSUME IInv, ConsumeUndo, HandlerKeeps
    PROVE  IInv'
<1> USE DEF HandlerKeeps, amVars, toldVars, bounds
<1>1. /\ UNCHANGED <<now, sIndex, setup, screen, post, queue, swept, made, active, told, undone,
                     lost>>
      /\ worker.pc = "consumeUndo" /\ worker' = [worker EXCEPT !.pc = "clear"]
    BY DEF ConsumeUndo, Working, Become, silenceVars
<1>2. /\ worker \in [pc : Silencing \cup Undoing \cup {"strip"}, press : PressRecords,
                     since : Nat, id : Nat, att : Nat]
      /\ worker.press.button.kind = "undo" /\ Ref \in Refs /\ Ref = worker.press.ref
    BY <1>1, HandlerWorks DEF Undoing, Ref
<1>3. /\ SilenceP!IInv'
      /\ UndoP!IInv' /\ uIndex' = uIndex \ {Ref} /\ UndoKept(uIndex')
    BY <1>1, <1>2, UndoConsumed, TrackersSame DEF IInv, ConsumeUndo
<1>4. worker'.pc = "clear" /\ worker'.press = worker.press /\ worker'.since = worker.since
    BY <1>1, <1>2
<1>5. Typed'
    BY <1>1, <1>2 DEF IInv, Typed, WorkerTyped, Silencing, Undoing
<1>6. SilenceTracked' /\ ToldOnce'
    BY <1>1 DEF IInv, SilenceTracked, ToldOf, ToldOnce, Known
<1>7. UndoButtonsTold'
    BY <1>1, <1>4 DEF IInv, UndoButtonsTold, ToldButton
<1>8. WorkerAlone'
    BY <1>4 DEF WorkerAlone, Silencing
<1>9. UndoTracked' /\ InTime'
    BY <1>1, <1>3, <1>4 DEF IInv, UndoTracked, InTime, UndoKept, Busy
<1>10. Owned'
    BY <1>1, <1>2, <1>3, <1>4 DEF IInv, Owned, Busy
<1> QED
    BY <1>3, <1>5, <1>6, <1>7, <1>8, <1>9, <1>10 DEF IInv

LEMMA FinishUndoIInv ==
    ASSUME IInv, FinishUndo, HandlerKeeps
    PROVE  IInv'
<1> USE DEF HandlerKeeps, amVars, toldVars, bounds
<1>1. /\ UNCHANGED <<now, sIndex, uIndex, setup, post, queue, swept, made, active, told>>
      /\ worker.pc = "clear" /\ worker' = Resting
      /\ undone' = undone \cup {worker.press.button.id}
    BY DEF FinishUndo, Working, Answer, trackers
<1>2. SilenceP!IInv' /\ UndoP!IInv' /\ UndoKept(uIndex)
    BY TrackersSame DEF IInv, FinishUndo, trackers, silenceVars, undoVars
<1>3. Ref \in Refs /\ worker.press.button.id \in told
    BY <1>1, HandlerWorks DEF Undoing, IInv, UndoButtonsTold, ToldButton
<1>4. /\ screen' \in [Refs -> Screens]
      /\ lost \subseteq lost' /\ lost' \subseteq lost \cup {Ref}
      /\ \A r \in Refs \ {Ref} : screen'[r] = screen[r]
      /\ \/ screen'[Ref].buttons = NoButton
         \/ Ref \in lost' /\ screen'[Ref] = screen[Ref]
    <2>1. NoButton \in [kind : {"none"}, id : {Alert}] \cup Buttons
        BY DEF NoButton
    <2>2. PICK ref \in Refs : ref = Ref /\ SetActions(ref, "firing", NoButton)
        BY <1>3 DEF FinishUndo
    <2> QED
        BY <2>1, <2>2, Edited DEF IInv
<1>5. Typed' /\ SilenceTracked' /\ ToldOnce'
    BY <1>1, <1>3, <1>4 DEF IInv, Typed, WorkerTyped, SilenceTracked, ToldOf, ToldOnce, Known
<1>6. UndoButtonsTold'
    BY <1>1, <1>3, <1>4 DEF IInv, UndoButtonsTold, ToldButton, NoButton, Resting
<1>7. WorkerAlone'
    BY <1>1 DEF WorkerAlone, Resting, Silencing
<1>8. UndoTracked' /\ InTime'
    BY <1>1, <1>2, <1>4 DEF IInv, UndoTracked, InTime, UndoKept, Busy, Resting
<1>9. Owned'
    BY <1>1, <1>3, <1>4 DEF IInv, Owned, Busy, Resting, NoButton, Ref
<1> QED
    BY <1>2, <1>5, <1>6, <1>7, <1>8, <1>9 DEF IInv

-----------------------------------------------------------------------------
(* The sweepers preserve the invariant. *)

SweepersKeep == UNCHANGED <<now, bounds, post, queue, worker, amVars, toldVars>>

LEMMA HeadOrTail ==
    ASSUME NEW S, NEW s \in Seq(S), s # <<>>
    PROVE  /\ Head(s) \in S /\ Tail(s) \in Seq(S)
           /\ Elements(s) \subseteq {Head(s)} \cup Elements(Tail(s))
<1>1. /\ Head(s) \in S /\ Head(s) = s[1] /\ Tail(s) \in Seq(S)
      /\ Len(Tail(s)) = Len(s) - 1 /\ \A i \in 1 .. Len(Tail(s)) : Tail(s)[i] = s[i + 1]
      /\ Len(s) \in Nat /\ DOMAIN s = 1 .. Len(s) /\ DOMAIN Tail(s) = 1 .. Len(Tail(s))
    BY EmptySeq, HeadTailProperties, LenProperties, ElementOfSeq
<1>2. ASSUME NEW i \in DOMAIN s, i # 1
      PROVE  i - 1 \in DOMAIN Tail(s) /\ Tail(s)[i - 1] = s[i]
    BY <1>1, <1>2
<1>3. ASSUME NEW i \in DOMAIN s
      PROVE  s[i] \in {Head(s)} \cup Elements(Tail(s))
    BY <1>1, <1>2 DEF Elements
<1> QED
    BY <1>1, <1>3 DEF Elements

LEMMA SweepSilenceIInv ==
    ASSUME IInv, SweepSilence, SweepersKeep
    PROVE  IInv'
<1> USE DEF SweepersKeep, amVars, toldVars, bounds
<1> DEFINE popped == Popped(sOrder, sOrder')
<1>1. /\ UNCHANGED <<now, uIndex, setup, screen, post, queue, worker, made, active, told, undone,
                     lost>>
      /\ swept.silence = <<>> /\ swept' = [swept EXCEPT !.silence = popped]
    BY DEF SweepSilence, undoVars
<1>2. /\ SilenceP!IInv' /\ sIndex' \subseteq sIndex /\ popped \in Seq(Refs)
      /\ sIndex \ sIndex' \subseteq Elements(popped)
      /\ UndoP!IInv' /\ UndoKept(uIndex)
    BY SilenceSwept, TrackersSame DEF IInv, SweepSilence
<1> HIDE DEF popped
<1>3. swept \in [silence : Seq(Refs), undo : Seq(Refs)]
    BY DEF IInv, Typed
<1>4. /\ swept' \in [silence : Seq(Refs), undo : Seq(Refs)]
      /\ swept'.silence = popped /\ swept'.undo = swept.undo
      /\ Elements(swept.silence) = {}
    BY <1>1, <1>2, <1>3, EmptySeq DEF Elements
<1>5. Typed' /\ SilenceTracked' /\ ToldOnce'
    BY <1>1, <1>2, <1>4 DEF IInv, Typed, WorkerTyped, SilenceTracked, ToldOf, ToldOnce, Known
<1>6. UndoButtonsTold' /\ WorkerAlone'
    BY <1>1, <1>2 DEF IInv, UndoButtonsTold, ToldButton, WorkerAlone, Known, ToldOf
<1>7. UndoTracked' /\ InTime'
    BY <1>1, <1>2 DEF IInv, UndoTracked, InTime, UndoKept, Busy
<1>8. Owned'
    BY <1>1, <1>2, <1>4 DEF IInv, Owned, Busy
<1> QED
    BY <1>2, <1>5, <1>6, <1>7, <1>8 DEF IInv

LEMMA SweepUndoIInv ==
    ASSUME IInv, SweepUndo, SweepersKeep
    PROVE  IInv'
<1> USE DEF SweepersKeep, amVars, toldVars, bounds
<1> DEFINE popped == Popped(uOrder, uOrder')
<1>1. /\ UNCHANGED <<now, sIndex, setup, screen, post, queue, worker, made, active, told, undone,
                     lost>>
      /\ swept.undo = <<>> /\ swept' = [swept EXCEPT !.undo = popped]
    BY DEF SweepUndo, silenceVars
<1>2. /\ SilenceP!IInv' /\ UndoP!IInv' /\ uIndex' \subseteq uIndex /\ UndoKept(uIndex')
      /\ \A k \in uIndex \ uIndex' : UndoUntil(k) <= now
      /\ popped \in Seq(Refs) /\ uIndex \ uIndex' \subseteq Elements(popped)
    BY UndoSwept, TrackersSame DEF IInv, SweepUndo
<1> HIDE DEF popped
<1>3. swept \in [silence : Seq(Refs), undo : Seq(Refs)]
    BY DEF IInv, Typed
<1>4. /\ swept' \in [silence : Seq(Refs), undo : Seq(Refs)]
      /\ swept'.undo = popped /\ swept'.silence = swept.silence
      /\ Elements(swept.undo) = {}
    BY <1>1, <1>2, <1>3, EmptySeq DEF Elements
<1>5. Typed' /\ SilenceTracked' /\ ToldOnce'
    BY <1>1, <1>4 DEF IInv, Typed, WorkerTyped, SilenceTracked, ToldOf, ToldOnce, Known
<1>6. UndoButtonsTold' /\ WorkerAlone'
    BY <1>1, <1>2 DEF IInv, UndoButtonsTold, ToldButton, WorkerAlone, Known, ToldOf
<1>7. UndoTracked'
    BY <1>1, <1>2 DEF IInv, UndoTracked, UndoKept, Busy
<1>8. InTime'
    <2>1. ASSUME NEW ref \in Refs \ lost, Busy(ref, {"finish"}), setup.undo, post[ref] = "linked"
          PROVE  ref \in uIndex' /\ worker.since + UndoWindow <= UndoUntil(ref)
        <3>1. ref \in uIndex /\ worker.since + UndoWindow <= UndoUntil(ref)
            BY <2>1 DEF IInv, InTime
        <3>2. worker.since \in Nat /\ now \in Nat /\ now <= worker.since + HandleTimeout
            BY <2>1, HandlerWorks, TrackerTypes DEF IInv, InTime, Busy
        <3>3. UndoUntil(ref) \in Nat
            BY <3>1, TrackerTypes DEF IInv
        <3>4. ~(UndoUntil(ref) <= now)
            BY <3>1, <3>2, <3>3, Settings
        <3> QED
            BY <1>2, <3>1, <3>4
    <2> QED
        BY <1>1, <1>2, <2>1 DEF IInv, InTime, UndoKept, Busy
<1>9. Owned'
    BY <1>1, <1>2, <1>4 DEF IInv, Owned, Busy
<1> QED
    BY <1>2, <1>5, <1>6, <1>7, <1>8, <1>9 DEF IInv

LEMMA RemoveButtonsIInv ==
    ASSUME IInv, NEW t \in {"silence", "undo"}, RemoveButtons(t), SweepersKeep
    PROVE  IInv'
<1> USE DEF SweepersKeep, amVars, toldVars, bounds
<1> DEFINE ref == Head(swept[t])
<1>1. /\ UNCHANGED <<now, sIndex, uIndex, setup, post, queue, worker, made, active, told, undone>>
      /\ swept[t] # <<>> /\ swept' = [swept EXCEPT ![t] = Tail(@)]
    BY DEF RemoveButtons, trackers
<1>2. SilenceP!IInv' /\ UndoP!IInv' /\ UndoKept(uIndex)
    BY TrackersSame DEF IInv, RemoveButtons, trackers, silenceVars, undoVars
<1>3. swept \in [silence : Seq(Refs), undo : Seq(Refs)] /\ swept[t] \in Seq(Refs)
    BY DEF IInv, Typed
<1>4. /\ ref \in Refs /\ Tail(swept[t]) \in Seq(Refs)
      /\ Elements(swept[t]) \subseteq {ref} \cup Elements(Tail(swept[t]))
    BY <1>1, <1>3, HeadOrTail
<1>5. SetActions(ref, "firing", NoButton)
    BY DEF RemoveButtons
<1> HIDE DEF ref
<1>6. /\ swept' \in [silence : Seq(Refs), undo : Seq(Refs)]
      /\ \A u \in {"silence", "undo"} : Elements(swept[u]) \subseteq {ref} \cup Elements(swept'[u])
    BY <1>1, <1>3, <1>4
<1>7. /\ screen' \in [Refs -> Screens]
      /\ lost \subseteq lost' /\ lost' \subseteq lost \cup {ref}
      /\ \A r \in Refs \ {ref} : screen'[r] = screen[r]
      /\ \/ screen'[ref].buttons = NoButton
         \/ ref \in lost' /\ screen'[ref] = screen[ref]
    <2>1. NoButton \in [kind : {"none"}, id : {Alert}] \cup Buttons
        BY DEF NoButton
    <2>2. PICK r \in Refs : r = ref /\ SetActions(r, "firing", NoButton)
        BY <1>4, <1>5
    <2> QED
        BY <2>1, <2>2, Edited DEF IInv
<1>8. Typed' /\ SilenceTracked' /\ ToldOnce'
    BY <1>1, <1>4, <1>6, <1>7 DEF IInv, Typed, WorkerTyped, SilenceTracked, ToldOf, ToldOnce, Known
<1>9. UndoButtonsTold' /\ WorkerAlone'
    BY <1>1, <1>7 DEF IInv, UndoButtonsTold, ToldButton, WorkerAlone, Known, ToldOf, NoButton
<1>10. UndoTracked' /\ InTime'
    BY <1>1, <1>2, <1>7 DEF IInv, UndoTracked, InTime, UndoKept, Busy
<1>11. Owned'
    BY <1>1, <1>4, <1>6, <1>7 DEF IInv, Owned, Busy, NoButton
<1> QED
    BY <1>2, <1>8, <1>9, <1>10, <1>11 DEF IInv
-----------------------------------------------------------------------------
(* Time and restarts. *)

LEMMA TickIInv ==
    ASSUME IInv, Tick
    PROVE  IInv'
<1> USE DEF amVars, toldVars, bounds
<1>1. /\ UNCHANGED <<sIndex, uIndex, setup, screen, post, queue, worker, swept, made, active,
                     told, undone, lost>>
      /\ now' = now + 1 /\ now \in Nat
      /\ worker.pc # "idle" => now < worker.since + HandleTimeout /\ worker.since \in Nat
    BY TrackerTypes, HandlerWorks DEF IInv, Tick, Advance, trackers
<1>2. SilenceP!IInv' /\ UndoP!IInv' /\ UndoKept(uIndex)
    BY TrackersTick DEF IInv, Tick, UndoKept
<1>3. Typed' /\ SilenceTracked' /\ ToldOnce'
    BY <1>1 DEF IInv, Typed, WorkerTyped, SilenceTracked, ToldOf, ToldOnce, Known
<1>4. UndoButtonsTold' /\ WorkerAlone'
    BY <1>1 DEF IInv, UndoButtonsTold, ToldButton, WorkerAlone, Known, ToldOf
<1>5. UndoTracked'
    BY <1>1, <1>2 DEF IInv, UndoTracked, UndoKept, Busy
<1>6. InTime'
    BY <1>1, <1>2, Settings DEF IInv, InTime, UndoKept, Busy
<1>7. Owned'
    BY <1>1 DEF IInv, Owned, Busy
<1> QED
    BY <1>2, <1>3, <1>4, <1>5, <1>6, <1>7 DEF IInv

LEMMA TrackersEmptied ==
    ASSUME SilenceP!IInv, UndoP!IInv, UNCHANGED now,
           sIndex' = {}, sOrder' = <<>>, uIndex' = {}, uOrder' = <<>>
    PROVE  SilenceP!IInv' /\ UndoP!IInv'
<1>1. \A E : <<>> \in Seq(E) /\ Len(<<>>) = 0 /\ DOMAIN <<>> = {}
    BY EmptySeq, LenProperties
<1>2. SilenceP!IInv'
    BY <1>1, Settings DEF SilenceP!IInv, SilenceP!TypeOK, SilenceP!Sound, SilenceP!KeysOf,
       SilenceP!KeysDistinct, SilenceP!ExpiryOrdered
<1>3. UndoP!IInv'
    BY <1>1, Settings DEF UndoP!IInv, UndoP!TypeOK, UndoP!Sound, UndoP!KeysOf,
       UndoP!KeysDistinct, UndoP!ExpiryOrdered
<1> QED
    BY <1>2, <1>3

LEMMA RestartIInv ==
    ASSUME IInv, Restart
    PROVE  IInv'
<1> USE DEF amVars, toldVars
<1>1. /\ UNCHANGED <<now, setup, screen, made, active, told, undone>>
      /\ sIndex' = {} /\ uIndex' = {} /\ worker' = Resting
      /\ swept' = [silence |-> <<>>, undo |-> <<>>]
      /\ post' = [ref \in Refs |-> IF post[ref] \in {"unsent", "resolved"}
                                   THEN post[ref] ELSE "dropped"]
      /\ lost' = {ref \in Refs : post[ref] # "unsent"}
      /\ \/ queue' = <<>> \/ queue' = queue
         \/ worker.pc # "idle" /\ queue' = <<worker.press>> \o queue
    BY DEF Restart
<1>2. SilenceP!IInv' /\ UndoP!IInv'
    BY TrackersEmptied DEF IInv, Restart
<1>3. /\ queue' \in Seq(PressRecords)
      /\ \A i \in DOMAIN queue' : ToldButton(queue'[i].ref, queue'[i].button)
    <2>1. CASE queue' = <<>>
        BY <2>1, EmptySeq
    <2>2. CASE queue' = queue
        BY <2>2 DEF IInv, Typed, UndoButtonsTold
    <2>3. CASE worker.pc # "idle" /\ queue' = <<worker.press>> \o queue
        <3>1. /\ worker.press \in PressRecords /\ queue \in Seq(PressRecords)
              /\ ToldButton(worker.press.ref, worker.press.button)
              /\ \A i \in DOMAIN queue : ToldButton(queue[i].ref, queue[i].button)
            BY <2>3, HandlerWorks DEF IInv, Typed, UndoButtonsTold
        <3>2. /\ <<worker.press>> \in Seq(PressRecords) /\ Len(<<worker.press>>) = 1
              /\ <<worker.press>>[1] = worker.press
            BY <3>1
        <3>3. /\ queue' \in Seq(PressRecords) /\ Len(queue') = 1 + Len(queue)
              /\ \A i \in 1 .. 1 + Len(queue) :
                    queue'[i] = IF i <= 1 THEN <<worker.press>>[i] ELSE queue[i - 1]
            BY <2>3, <3>1, <3>2, ConcatProperties
        <3>4. ASSUME NEW i \in DOMAIN queue'
              PROVE  ToldButton(queue'[i].ref, queue'[i].button)
            <4>1. i \in 1 .. 1 + Len(queue) /\ Len(queue) \in Nat /\ DOMAIN queue = 1 .. Len(queue)
                BY <3>1, <3>3, <3>4, LenProperties
            <4>2. CASE i = 1
                BY <3>1, <3>2, <3>3, <4>1, <4>2
            <4>3. CASE i # 1
                <5>1. i - 1 \in DOMAIN queue /\ queue'[i] = queue[i - 1]
                    BY <3>3, <4>1, <4>3
                <5> QED
                    BY <3>1, <5>1
            <4> QED
                BY <4>2, <4>3
        <3> QED
            BY <3>3, <3>4
    <2> QED
        BY <1>1, <2>1, <2>2, <2>3
<1>4. Typed' /\ SilenceTracked' /\ ToldOnce'
    <2>1. swept' \in [silence : Seq(Refs), undo : Seq(Refs)] /\ lost' \subseteq Refs
        BY <1>1, EmptySeq
    <2>2. post' \in [Refs -> PostStates] /\ WorkerTyped'
        BY <1>1 DEF IInv, Typed, PostStates, WorkerTyped
    <2>3. \A ref \in Refs : Known(ref) => Known(ref)'
        BY <1>1 DEF Known
    <2>4. \A i \in told : made[i] \in Refs
        BY ElementOfSeq, LenProperties DEF IInv, Typed
    <2> QED
        BY <1>1, <1>3, <2>1, <2>2, <2>3, <2>4 DEF IInv, Typed, SilenceTracked, ToldOnce
<1>5. UndoButtonsTold'
    BY <1>1, <1>3 DEF IInv, UndoButtonsTold, ToldButton, Resting
<1>6. WorkerAlone' /\ UndoTracked' /\ InTime'
    BY <1>1 DEF WorkerAlone, UndoTracked, InTime, Busy, Resting, Silencing
<1>7. Owned'
    BY <1>1 DEF Owned
<1> QED
    BY <1>2, <1>4, <1>5, <1>6, <1>7 DEF IInv

-----------------------------------------------------------------------------
(* The invariant holds from the start and in every step. *)

LEMMA InitIInv == Init => IInv
<1> SUFFICES ASSUME Init
             PROVE  IInv
    OBVIOUS
<1>1. SilenceP!IInv /\ UndoP!IInv /\ sIndex = {} /\ uIndex = {}
    BY TrackersInit DEF Init
<1>2. /\ setup \in Setups /\ queue = <<>> /\ worker = Resting
      /\ screen = [ref \in Refs |-> [body |-> "firing", buttons |-> NoButton]]
      /\ post = [ref \in Refs |-> "unsent"]
      /\ swept = [silence |-> <<>>, undo |-> <<>>]
      /\ made = <<>> /\ active = {} /\ told = {} /\ undone = {} /\ lost = {}
    BY DEF Init
<1>3. \A E : <<>> \in Seq(E) /\ Len(<<>>) = 0 /\ DOMAIN <<>> = {}
    BY EmptySeq, LenProperties
<1>4. Typed
    BY <1>2, <1>3, InteractiveAssumption
    DEF Typed, WorkerTyped, Screens, PostStates, NoButton
<1>5. /\ SilenceTracked /\ ToldOnce /\ UndoButtonsTold /\ WorkerAlone /\ UndoTracked /\ InTime
      /\ Owned
    BY <1>1, <1>2, <1>3
    DEF SilenceTracked, ToldOnce, UndoButtonsTold, ToldButton, WorkerAlone, UndoTracked, InTime,
        Owned, Busy, Resting, NoButton, Silencing
<1> QED
    BY <1>1, <1>4, <1>5 DEF IInv

LEMMA WebhookIInv ==
    ASSUME IInv, NEW ref \in Refs, Webhook(ref)
    PROVE  IInv'
BY SendIInv, RegisterRefIInv, ForgetSilenceIInv, ForgetUndoIInv, RewriteIInv, RewriteFailsIInv
DEF Webhook, WebhookKeeps

LEMMA HandlerIInv ==
    ASSUME IInv, Handler
    PROVE  IInv'
BY RefuseIInv, TakeIInv, StripIInv, AgainIInv, CreateSilenceIInv, ConsumeSilenceIInv,
   RegisterUndoIInv, FinishSilenceIInv, DeleteSilenceIInv, ConsumeUndoIInv, FinishUndoIInv
DEF Handler, HandlerKeeps

LEMMA SweepersIInv ==
    ASSUME IInv, Sweepers
    PROVE  IInv'
BY SweepSilenceIInv, SweepUndoIInv, RemoveButtonsIInv DEF Sweepers, SweepersKeep

LEMMA StutterIInv ==
    ASSUME IInv, UNCHANGED vars
    PROVE  IInv'
<1>1. /\ UNCHANGED <<now, sIndex, uIndex, setup, screen, post, queue, worker, swept, made, active,
                     told, undone, lost>>
      /\ UNCHANGED <<silenceVars, undoVars>>
    BY DEF vars, trackers, silenceVars, undoVars
<1>2. SilenceP!IInv' /\ UndoP!IInv' /\ UndoKept(uIndex)
    BY <1>1, TrackersSame DEF IInv
<1> QED
    BY <1>1, <1>2 DEF IInv, Typed, WorkerTyped, SilenceTracked, ToldOf, ToldOnce, Known,
       UndoButtonsTold, ToldButton, WorkerAlone, UndoTracked, InTime, UndoKept, Busy, Owned

LEMMA NextIInv == IInv /\ [Next]_vars => IInv'
BY WebhookIInv, PressIInv, HandlerIInv, SweepersIInv, TickIInv, RestartIInv, StutterIInv DEF Next

LEMMA SpecIInv == Spec => []IInv
BY InitIInv, NextIInv, PTL DEF Spec
-----------------------------------------------------------------------------
(* The promises. *)

(***************************************************************************)
(* Every variable has its type and neither tracker exceeds its capacity,    *)
(* although four kinds of goroutines share them (button_tracker.go:117-123, *)
(* callback.go, handlers.go).                                               *)
(***************************************************************************)
THEOREM InteractiveTypeOK == Spec => []TypeOK
<1>1. IInv => TypeOK
    <2> SUFFICES ASSUME IInv
                 PROVE  TypeOK
        OBVIOUS
    <2>1. Silence!TypeOK /\ Undo!TypeOK
        BY SameSilenceTracker, SameUndoTracker DEF IInv, SilenceP!IInv, UndoP!IInv
    <2>2. now \in Nat
        BY TrackerTypes DEF IInv
    <2>3. screen \in [Refs -> [body : {"firing", "resolved"},
                               buttons : {NoButton, SilenceButton}
                                         \cup {UndoButton(id) : id \in Silences}]]
        BY DEF IInv, Typed, Screens, Buttons, NoButton, SilenceButton, UndoButton
    <2> QED
        BY <2>1, <2>2, <2>3 DEF TypeOK, IInv, Typed, PostStates
<1> QED
    BY <1>1, SpecIInv, PTL

(***************************************************************************)
(* However presses, retries, sweeps, resolves and restarts interleave, at   *)
(* most one press of a message ends in "Silenced" (callback.go:285): from   *)
(* the lookup to the answer, the handler's message is in a tracker or in    *)
(* the handler's hands, and nobody was told of it before.                   *)
(***************************************************************************)
THEOREM InteractiveNobodySilencesTwice == Spec => []NobodySilencesTwice
<1>1. IInv => NobodySilencesTwice
    BY DEF IInv, ToldOnce, NobodySilencesTwice
<1> QED
    BY <1>1, SpecIInv, PTL

(***************************************************************************)
(* Once a resolve set out to rewrite a message, no press of its buttons can *)
(* create a silence (handlers.go:45-53).                                    *)
(***************************************************************************)
THEOREM InteractiveResolvedTakesNoSilence == Spec => []ResolvedTakesNoSilence
<1>1. IInv => ResolvedTakesNoSilence
    BY DEF IInv, SilenceTracked, ResolvedTakesNoSilence
<1> QED
    BY <1>1, SpecIInv, PTL

(***************************************************************************)
(* The tracked id is the one on every undo button of the message, on screen *)
(* or in a waiting press: checking it refuses no honest press               *)
(* (README.md:227, callback.go:312-325).                                    *)
(***************************************************************************)
THEOREM InteractiveHonestPressesMatch == Spec => []HonestPressesMatch
<1>1. IInv => HonestPressesMatch
    <2> SUFFICES ASSUME IInv
                 PROVE  HonestPressesMatch
        OBVIOUS
    <2> SUFFICES ASSUME NEW ref \in uIndex
                 PROVE  /\ made[UndoId(ref)] = ref
                        /\ screen[ref].buttons.kind = "undo" => screen[ref].buttons.id = UndoId(ref)
                        /\ \A i \in DOMAIN queue :
                             queue[i].ref = ref /\ queue[i].button.kind = "undo"
                                 => queue[i].button.id = UndoId(ref)
        BY DEF HonestPressesMatch, UndoId
    <2>1. ref \in Refs /\ made[UndoId(ref)] = ref
        BY TrackerTypes DEF IInv, UndoTracked
    <2>2. ASSUME NEW id \in told, made[id] = ref
          PROVE  id = UndoId(ref)
        <3>1. UndoId(ref) \in told
            BY <2>2 DEF IInv, UndoTracked, Busy, WorkerAlone, Silencing, ToldOf
        <3> QED
            BY <2>1, <2>2, <3>1 DEF IInv, ToldOnce
    <2> QED
        BY <2>1, <2>2 DEF IInv, UndoButtonsTold, ToldButton
<1> QED
    BY <1>1, SpecIInv, PTL

(***************************************************************************)
(* Between handlings a button on a linked message is known to the tracker   *)
(* that will remove it, unless an edit failed, the tracker was full or      *)
(* alertly restarted (button_tracker.go:205-243, 265-285).                  *)
(***************************************************************************)
THEOREM InteractiveNoStrandedButton == Spec => []NoStrandedButton
<1>1. IInv => NoStrandedButton
    <2> SUFFICES ASSUME IInv
                 PROVE  NoStrandedButton
        OBVIOUS
    <2>1. Elements(<<>>) = {}
        BY EmptySeq, LenProperties DEF Elements
    <2> QED
        BY <2>1 DEF IInv, Owned, NoStrandedButton, AtRest, Busy
<1> QED
    BY <1>1, SpecIInv, PTL
=============================================================================
