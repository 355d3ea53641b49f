------------------------- MODULE PressSourcesProofs -------------------------
(***************************************************************************)
(* What the two sources of presses promise in every deployment: first the   *)
(* poller, then the socket, each with the lemmas about its own steps, and   *)
(* then both together, whatever the pods and the network do.                *)
(***************************************************************************)
EXTENDS PressSources, SequenceTheorems, TLAPS

(***************************************************************************)
(* A pod's offset is never ahead of what was handled when the pod polls: on *)
(* this rests that Telegram forgets no update too early.                    *)
(***************************************************************************)

PollerStates == {"off", "top", "asking", "backoff", "batch", "handling", "returned"}
PollerRecords == [pc : PollerStates, offset : Nat, batch : Seq(Nat), at : Nat]

\* Every update below the frontier of a poller is one that it dispatched, or
\* that Telegram had forgotten when it answered.
Frontier(r) == IF r.batch = <<>> THEN r.offset ELSE r.batch[1]

\* A batch is a run of updates from the offset on.
InOrder(r, upto) ==
    \A i \in 1 .. Len(r.batch) :
        /\ r.batch[i] = r.batch[1] + i - 1
        /\ r.offset <= r.batch[i]
        /\ r.batch[i] <= upto

(***************************************************************************)
(* The poller r of a pod in the given state, which has dispatched b, while  *)
(* the updates done are settled and those up to upto have arrived.  A pod   *)
(* that is up has handled all below its frontier but the one at work; one   *)
(* that is stopping may have cut some off, but it never polls again.        *)
(***************************************************************************)
PodInv(state, r, b, done, upto) ==
    /\ state = "unborn" => b = {}
    /\ state \in {"unborn", "gone"} => r = Off
    /\ r.pc # "off" => \A id \in b : id < r.offset
    /\ r.offset <= upto + 1
    /\ InOrder(r, upto)
    /\ r.pc \in {"top", "asking", "backoff"} => r.batch = <<>>
    /\ r.pc = "asking" => \A id \in 1 .. r.offset - 1 : id \in done
    /\ state = "up" /\ r.pc \in {"top", "backoff", "batch", "handling"} =>
          \A id \in 1 .. Frontier(r) - 1 :
              id \in done \/ (r.pc = "handling" /\ id = r.at)

PollerTyped ==
    /\ poller \in [Pods -> PollerRecords]
    /\ begun \in [Pods -> SUBSET Nat]
    /\ arrived \in Nat
    /\ confirmed \in 0 .. arrived

Forgotten == \A id \in 1 .. confirmed : id \in settled

PollerInv ==
    /\ pod \in [Pods -> PodStates]
    /\ PollerTyped
    /\ Forgotten
    /\ \A p \in Pods : PodInv(pod[p], poller[p], begun[p], settled, arrived)

\* What OncePerPod says of a step.
OnceStep ==
    \A p \in Pods :
        poller'[p].at # poller[p].at /\ poller'[p].at # 0 => poller'[p].at \notin begun[p]

LEMMA OffTyped ==
    /\ Off \in PollerRecords /\ Polling \in PollerRecords
    /\ Off.pc = "off" /\ Off.offset = 0 /\ Off.batch = <<>> /\ Off.at = 0
    /\ Polling.pc = "top" /\ Polling.offset = 0 /\ Polling.batch = <<>> /\ Polling.at = 0
<1>1. Off = [pc |-> "off", offset |-> 0, batch |-> <<>>, at |-> 0]
    BY DEF Off
<1>2. Polling = [pc |-> "top", offset |-> 0, batch |-> <<>>, at |-> 0]
    BY DEF Polling, Off
<1>3. <<>> \in Seq(Nat)
    BY EmptySeq
<1>4. Off \in PollerRecords /\ Polling \in PollerRecords
    BY <1>1, <1>2, <1>3 DEF PollerRecords, PollerStates
<1>5. Off.pc = "off" /\ Off.offset = 0 /\ Off.batch = <<>> /\ Off.at = 0
    BY <1>1
<1>6. Polling.pc = "top" /\ Polling.offset = 0 /\ Polling.batch = <<>> /\ Polling.at = 0
    BY <1>2
<1> QED
    BY <1>4, <1>5, <1>6

\* A pod that does nothing keeps its part while others handle updates and
\* more arrive.
LEMMA PodInvGrows ==
    ASSUME NEW state, NEW r \in PollerRecords, NEW b, NEW done, NEW done2,
           NEW upto \in Nat, NEW upto2 \in Nat,
           PodInv(state, r, b, done, upto), done \subseteq done2, upto <= upto2
    PROVE  PodInv(state, r, b, done2, upto2)
<1>1. r.offset \in Nat /\ r.batch \in Seq(Nat) /\ Len(r.batch) \in Nat
    BY DEF PollerRecords
<1>2. \A i \in 1 .. Len(r.batch) : r.batch[i] \in Nat
    BY <1>1
<1>3. InOrder(r, upto2)
    BY <1>1, <1>2 DEF PodInv, InOrder
<1>4. r.offset <= upto2 + 1
    BY <1>1 DEF PodInv
<1> QED
    BY <1>3, <1>4 DEF PodInv

\* One pod moves: its own part and the queue are left to show.
LEMMA PollerMoves ==
    ASSUME PollerInv, NEW p \in Pods, pod' \in [Pods -> PodStates], PollerTyped', Forgotten',
           \A q \in Pods \ {p} :
               pod'[q] = pod[q] /\ poller'[q] = poller[q] /\ begun'[q] = begun[q],
           settled \subseteq settled', arrived <= arrived',
           PodInv(pod'[p], poller'[p], begun'[p], settled', arrived')
    PROVE  PollerInv'
<1>1. ASSUME NEW q \in Pods \ {p}
      PROVE  PodInv(pod'[q], poller'[q], begun'[q], settled', arrived')
    <2>1. poller[q] \in PollerRecords /\ arrived \in Nat /\ arrived' \in Nat
        BY DEF PollerInv, PollerTyped
    <2>2. PodInv(pod[q], poller[q], begun[q], settled, arrived)
        BY DEF PollerInv
    <2>3. PodInv(pod[q], poller[q], begun[q], settled', arrived')
        BY <2>1, <2>2, PodInvGrows
    <2> QED
        BY <1>1, <2>3
<1>2. \A q \in Pods : PodInv(pod'[q], poller'[q], begun'[q], settled', arrived')
    BY <1>1
<1> QED
    BY <1>2 DEF PollerInv

-----------------------------------------------------------------------------
(* The steps of the loop. *)

\* What a pod that is alive and polls knows.
LEMMA PollerFacts ==
    ASSUME PollerInv, NEW p \in Pods
    PROVE  /\ poller[p] \in PollerRecords /\ begun[p] \subseteq Nat
           /\ poller[p].offset \in Nat /\ poller[p].at \in Nat
           /\ poller[p].batch \in Seq(Nat)
           /\ arrived \in Nat /\ confirmed \in 0 .. arrived
           /\ PodInv(pod[p], poller[p], begun[p], settled, arrived)
           /\ poller[p].pc # "off" => pod[p] \in {"up", "stopping"}
           /\ pod \in [Pods -> PodStates]
<1>1. /\ poller[p] \in PollerRecords /\ begun[p] \subseteq Nat
      /\ arrived \in Nat /\ confirmed \in 0 .. arrived
      /\ PodInv(pod[p], poller[p], begun[p], settled, arrived)
      /\ pod \in [Pods -> PodStates]
    BY DEF PollerInv, PollerTyped
<1>2. poller[p].pc # "off" => pod[p] \in {"up", "stopping"}
    BY <1>1, OffTyped DEF PodInv, PodStates
<1> QED
    BY <1>1, <1>2 DEF PollerRecords

\* Steps that only move the control point of one loop.
LEMMA TurnKeeps ==
    ASSUME PollerInv, NEW p \in Pods, NEW pc \in PollerStates, UNCHANGED pod,
           poller[p].pc # "off",
           poller' = [poller EXCEPT ![p].pc = pc],
           UNCHANGED <<arrived, begun, settled>>,
           confirmed' \in 0 .. arrived, Forgotten',
           pc # "off",
           pc \in {"top", "asking", "backoff"} => poller[p].batch = <<>>,
           pc = "asking" => \A id \in 1 .. poller[p].offset - 1 : id \in settled,
           pod[p] = "up" /\ pc \in {"top", "backoff", "batch", "handling"} =>
              \A id \in 1 .. Frontier(poller[p]) - 1 :
                  id \in settled \/ (pc = "handling" /\ id = poller[p].at)
    PROVE  PollerInv' /\ OnceStep
<1>1. /\ poller'[p] \in PollerRecords /\ poller'[p].pc = pc
      /\ poller'[p].offset = poller[p].offset
      /\ poller'[p].batch = poller[p].batch
      /\ poller'[p].at = poller[p].at
      /\ \A q \in Pods \ {p} : poller'[q] = poller[q]
      /\ poller' \in [Pods -> PollerRecords]
    BY DEF PollerInv, PollerTyped, PollerRecords
<1>2. PollerTyped'
    BY <1>1 DEF PollerInv, PollerTyped
<1>3. Frontier(poller'[p]) = Frontier(poller[p])
    BY <1>1 DEF Frontier
<1>4. PodInv(pod'[p], poller'[p], begun'[p], settled', arrived')
    <2>1. pod[p] \in {"up", "stopping"} /\ PodInv(pod[p], poller[p], begun[p], settled, arrived)
        BY PollerFacts
    <2>2. InOrder(poller'[p], arrived')
        BY <1>1, <2>1 DEF PodInv, InOrder
    <2> QED
        BY <1>1, <1>3, <2>1, <2>2 DEF PodInv
<1>5. PollerInv'
    <2>1. pod' \in [Pods -> PodStates] /\ settled \subseteq settled' /\ arrived <= arrived'
        BY PollerFacts
    <2>2. \A q \in Pods \ {p} :
               pod'[q] = pod[q] /\ poller'[q] = poller[q] /\ begun'[q] = begun[q]
        BY <1>1
    <2> QED
        BY <1>2, <1>4, <2>1, <2>2, PollerMoves
<1>6. OnceStep
    BY <1>1 DEF OnceStep
<1> QED
    BY <1>5, <1>6

LEMMA TopKeeps ==
    ASSUME PollerInv, NEW p \in Pods, Top(p), UNCHANGED pod
    PROVE  PollerInv' /\ OnceStep
<1> DEFINE pc == IF pod[p] = "up" THEN "asking" ELSE "returned"
<1>1. /\ poller[p].pc = "top" /\ poller' = [poller EXCEPT ![p].pc = pc]
      /\ UNCHANGED <<arrived, confirmed, begun, settled>>
    BY DEF Top
<1>2. PodInv(pod[p], poller[p], begun[p], settled, arrived) /\ confirmed \in 0 .. arrived
    BY PollerFacts
<1>3. poller[p].batch = <<>> /\ Frontier(poller[p]) = poller[p].offset
    BY <1>1, <1>2 DEF PodInv, Frontier
<1>4. pc = "asking" => \A id \in 1 .. poller[p].offset - 1 : id \in settled
    BY <1>1, <1>2, <1>3 DEF PodInv
<1>5. /\ pc \in PollerStates /\ pc # "off"
      /\ pc \notin {"top", "backoff", "batch", "handling"}
    BY DEF PollerStates
<1>6. confirmed' \in 0 .. arrived /\ Forgotten' /\ poller[p].pc # "off"
    BY <1>1, <1>2 DEF PollerInv, Forgotten
<1> HIDE DEF pc
<1> QED
    BY <1>1, <1>3, <1>4, <1>5, <1>6, TurnKeeps

\* Telegram forgets up to the offset, or what it had forgotten before: all of
\* it is settled, as the pod asked while it was up.
LEMMA ConfirmIsSettled ==
    ASSUME PollerInv, NEW p \in Pods, poller[p].pc = "asking"
    PROVE  /\ Confirm(p) \in 0 .. arrived
           /\ \A id \in 1 .. Confirm(p) : id \in settled
           /\ poller[p].offset <= Confirm(p) + 1
<1>1. /\ PodInv(pod[p], poller[p], begun[p], settled, arrived)
      /\ confirmed \in 0 .. arrived /\ arrived \in Nat /\ poller[p].offset \in Nat
    BY PollerFacts
<1>2. /\ poller[p].offset <= arrived + 1
      /\ \A id \in 1 .. poller[p].offset - 1 : id \in settled
    BY <1>1 DEF PodInv
<1>3. \A id \in 1 .. confirmed : id \in settled
    BY DEF PollerInv, Forgotten
<1> QED
    BY <1>1, <1>2, <1>3 DEF Confirm

LEMMA BackoffKeeps ==
    ASSUME PollerInv, NEW p \in Pods, BackoffEnds(p), UNCHANGED pod
    PROVE  PollerInv' /\ OnceStep
<1> DEFINE pc == IF pod[p] = "up" THEN "top" ELSE "returned"
<1>1. /\ poller[p].pc = "backoff" /\ poller' = [poller EXCEPT ![p].pc = pc]
      /\ UNCHANGED <<arrived, confirmed, begun, settled>>
    BY DEF BackoffEnds
<1>2. PodInv(pod[p], poller[p], begun[p], settled, arrived) /\ confirmed \in 0 .. arrived
    BY PollerFacts
<1>3. poller[p].batch = <<>>
    BY <1>1, <1>2 DEF PodInv
<1>4. pod[p] = "up" => \A id \in 1 .. Frontier(poller[p]) - 1 : id \in settled
    BY <1>1, <1>2 DEF PodInv
<1>5. pc \in PollerStates /\ pc # "off" /\ pc # "asking"
    BY DEF PollerStates
<1>6. confirmed' \in 0 .. arrived /\ Forgotten' /\ poller[p].pc # "off"
    BY <1>1, <1>2 DEF PollerInv, Forgotten
<1> HIDE DEF pc
<1> QED
    BY <1>1, <1>3, <1>4, <1>5, <1>6, TurnKeeps

LEMMA PollFailsKeeps ==
    ASSUME PollerInv, NEW p \in Pods, PollFails(p), UNCHANGED pod
    PROVE  PollerInv' /\ OnceStep
<1> DEFINE pc == IF pod[p] = "up" THEN "backoff" ELSE "returned"
<1>1. /\ poller[p].pc = "asking" /\ poller' = [poller EXCEPT ![p].pc = pc]
      /\ confirmed' \in {confirmed, Confirm(p)}
      /\ UNCHANGED <<arrived, begun, settled>>
    BY DEF PollFails
<1>2. PodInv(pod[p], poller[p], begun[p], settled, arrived) /\ confirmed \in 0 .. arrived
    BY PollerFacts
<1>3. poller[p].batch = <<>> /\ Frontier(poller[p]) = poller[p].offset
    BY <1>1, <1>2 DEF PodInv, Frontier
<1>4. \A id \in 1 .. poller[p].offset - 1 : id \in settled
    BY <1>1, <1>2 DEF PodInv
<1>5. pc \in PollerStates /\ pc # "off" /\ pc # "asking"
    BY DEF PollerStates
<1>6. confirmed' \in 0 .. arrived /\ Forgotten' /\ poller[p].pc # "off"
    BY <1>1, <1>2, ConfirmIsSettled DEF PollerInv, Forgotten
<1> HIDE DEF pc
<1> QED
    BY <1>1, <1>3, <1>4, <1>5, <1>6, TurnKeeps

LEMMA BatchDoneKeeps ==
    ASSUME PollerInv, NEW p \in Pods, BatchDone(p), UNCHANGED pod
    PROVE  PollerInv' /\ OnceStep
<1>1. /\ poller[p].pc = "batch" /\ poller' = [poller EXCEPT ![p].pc = "top"]
      /\ poller[p].batch = <<>>
      /\ UNCHANGED <<arrived, confirmed, begun, settled>>
    BY DEF BatchDone
<1>2. PodInv(pod[p], poller[p], begun[p], settled, arrived) /\ confirmed \in 0 .. arrived
    BY PollerFacts
<1>3. pod[p] = "up" => \A id \in 1 .. Frontier(poller[p]) - 1 : id \in settled
    BY <1>1, <1>2 DEF PodInv
<1>4. confirmed' \in 0 .. arrived /\ Forgotten'
    BY <1>1, <1>2 DEF PollerInv, Forgotten
<1>5. "top" \in PollerStates
    BY DEF PollerStates
<1> QED
    BY <1>1, <1>3, <1>4, <1>5, TurnKeeps

\* A handler that ends, in one way or the other, under a live context settles
\* its update.
LEMMA HandledKeeps ==
    ASSUME PollerInv, NEW p \in Pods, UNCHANGED <<pod, arrived, confirmed, begun>>,
           poller[p].pc = "handling",
           poller' = [poller EXCEPT ![p].pc = "batch", ![p].at = 0],
           settled \subseteq settled', pod[p] = "up" => poller[p].at \in settled'
    PROVE  PollerInv' /\ OnceStep
<1>1. /\ poller'[p] \in PollerRecords /\ poller'[p].pc = "batch"
      /\ poller'[p].offset = poller[p].offset
      /\ poller'[p].batch = poller[p].batch
      /\ poller'[p].at = 0
      /\ \A q \in Pods \ {p} : poller'[q] = poller[q]
      /\ poller' \in [Pods -> PollerRecords]
    BY DEF PollerInv, PollerTyped, PollerRecords, PollerStates
<1>2. PollerTyped' /\ Forgotten'
    BY <1>1 DEF PollerInv, PollerTyped, Forgotten
<1>3. PodInv(pod[p], poller[p], begun[p], settled, arrived) /\ pod[p] \in {"up", "stopping"}
    BY PollerFacts
<1>4. PodInv(pod'[p], poller'[p], begun'[p], settled', arrived')
    <2>1. InOrder(poller'[p], arrived')
        BY <1>1, <1>3 DEF PodInv, InOrder
    <2>2. Frontier(poller'[p]) = Frontier(poller[p])
        BY <1>1 DEF Frontier
    <2>3. ASSUME pod[p] = "up", NEW id \in 1 .. Frontier(poller[p]) - 1
          PROVE  id \in settled'
        BY <1>3, <2>3 DEF PodInv
    <2> QED
        BY <1>1, <1>3, <2>1, <2>2, <2>3 DEF PodInv
<1>5. pod' \in [Pods -> PodStates] /\ arrived <= arrived'
    BY PollerFacts
<1>6. \A q \in Pods \ {p} :
           pod'[q] = pod[q] /\ poller'[q] = poller[q] /\ begun'[q] = begun[q]
    BY <1>1
<1>7. PollerInv'
    BY <1>2, <1>4, <1>5, <1>6, PollerMoves
<1> QED
    BY <1>1, <1>7 DEF OnceStep

LEMMA HandlerKeeps ==
    ASSUME PollerInv, NEW p \in Pods, HandlerReturns(p) \/ HandlerPanics(p), UNCHANGED pod
    PROVE  PollerInv' /\ OnceStep
<1>1. /\ UNCHANGED <<pod, arrived, confirmed, begun>>
      /\ poller[p].pc = "handling"
      /\ poller' = [poller EXCEPT ![p].pc = "batch", ![p].at = 0]
      /\ settled \subseteq settled' /\ (pod[p] = "up" => poller[p].at \in settled')
    BY DEF HandlerReturns, HandlerPanics
<1> QED
    BY <1>1, HandledKeeps

\* The answer is a run of updates from the first that Telegram still holds.
LEMMA BatchIsRun ==
    ASSUME NEW p \in Pods, arrived \in Nat, Confirm(p) \in 0 .. arrived
    PROVE  /\ Batch(p) \in Seq(Nat)
           /\ \A i \in 1 .. Len(Batch(p)) : Batch(p)[i] = Confirm(p) + i
           /\ Len(Batch(p)) <= arrived - Confirm(p)
<1> DEFINE n == IF Len(Held(p)) < BatchLimit THEN Len(Held(p)) ELSE BatchLimit
<1>1. /\ Held(p) \in Seq(Nat) /\ Len(Held(p)) = arrived - Confirm(p)
      /\ \A i \in 1 .. Len(Held(p)) : Held(p)[i] = Confirm(p) + i
    BY DEF Held
<1>2. n \in 0 .. Len(Held(p)) /\ Batch(p) = SubSeq(Held(p), 1, n)
    BY <1>1, PollerAssumption DEF Batch
<1> HIDE DEF n
<1>3. /\ Batch(p) \in Seq(Nat) /\ Len(Batch(p)) = n
      /\ \A i \in 1 .. n : Batch(p)[i] = Held(p)[i]
    <2>1. \A i \in 1 .. n : Held(p)[i] \in Nat
        BY <1>1, <1>2
    <2>2. /\ SubSeq(Held(p), 1, n) \in Seq(Nat)
          /\ Len(SubSeq(Held(p), 1, n)) = IF 1 <= n THEN n - 1 + 1 ELSE 0
          /\ \A i \in 1 .. n - 1 + 1 : SubSeq(Held(p), 1, n)[i] = Held(p)[1 + i - 1]
        BY <1>1, <1>2, <2>1, SubSeqProperties
    <2> QED
        BY <1>1, <1>2, <2>2
<1> QED
    BY <1>1, <1>2, <1>3

LEMMA AnsweredKeeps ==
    ASSUME PollerInv, NEW p \in Pods, Answered(p), UNCHANGED pod
    PROVE  PollerInv' /\ OnceStep
<1>1. /\ poller[p].pc = "asking" /\ confirmed' = Confirm(p)
      /\ poller' = [poller EXCEPT ![p].pc = "batch", ![p].batch = Batch(p)]
      /\ UNCHANGED <<arrived, begun, settled>>
    BY DEF Answered
<1>2. /\ Confirm(p) \in 0 .. arrived /\ poller[p].offset <= Confirm(p) + 1
      /\ \A id \in 1 .. Confirm(p) : id \in settled
    BY <1>1, ConfirmIsSettled
<1>3. arrived \in Nat /\ poller[p].offset \in Nat
      /\ PodInv(pod[p], poller[p], begun[p], settled, arrived) /\ pod[p] \in {"up", "stopping"}
    BY <1>1, PollerFacts
<1>4. /\ Batch(p) \in Seq(Nat)
      /\ \A i \in 1 .. Len(Batch(p)) : Batch(p)[i] = Confirm(p) + i
      /\ Len(Batch(p)) \in Nat /\ Len(Batch(p)) <= arrived - Confirm(p)
    BY <1>2, <1>3, BatchIsRun
<1>5. /\ poller'[p] \in PollerRecords /\ poller'[p].pc = "batch"
      /\ poller'[p].offset = poller[p].offset
      /\ poller'[p].batch = Batch(p)
      /\ poller'[p].at = poller[p].at
      /\ \A q \in Pods \ {p} : poller'[q] = poller[q]
      /\ poller' \in [Pods -> PollerRecords]
    BY <1>1, <1>4 DEF PollerInv, PollerTyped, PollerRecords, PollerStates
<1>6. PollerTyped' /\ Forgotten'
    BY <1>1, <1>2, <1>5 DEF PollerInv, PollerTyped, Forgotten
<1>7. PodInv(pod'[p], poller'[p], begun'[p], settled', arrived')
    <2>1. InOrder(poller'[p], arrived')
        <3> SUFFICES ASSUME NEW i \in 1 .. Len(Batch(p))
                     PROVE  /\ Batch(p)[i] = Batch(p)[1] + i - 1
                            /\ poller[p].offset <= Batch(p)[i]
                            /\ Batch(p)[i] <= arrived
            BY <1>1, <1>5 DEF InOrder
        <3>1. i \in Nat /\ 1 <= i /\ i <= arrived - Confirm(p) /\ 1 \in 1 .. Len(Batch(p))
            BY <1>2, <1>3, <1>4
        <3>2. Batch(p)[i] = Confirm(p) + i /\ Batch(p)[1] = Confirm(p) + 1
            BY <1>4, <3>1
        <3> QED
            BY <1>2, <1>3, <3>1, <3>2
    <2>2. Frontier(poller'[p]) <= Confirm(p) + 1 /\ Frontier(poller'[p]) \in Nat
        <3>1. CASE Batch(p) = <<>>
            BY <1>2, <1>3, <1>5, <3>1 DEF Frontier
        <3>2. CASE Batch(p) # <<>>
            <4>1. 1 \in 1 .. Len(Batch(p))
                BY <1>4, <3>2, EmptySeq
            <4> QED
                BY <1>2, <1>3, <1>4, <1>5, <3>2, <4>1 DEF Frontier
        <3> QED
            BY <3>1, <3>2
    <2>3. \A id \in 1 .. Frontier(poller'[p]) - 1 : id \in settled'
        BY <1>1, <1>2, <1>3, <2>2
    <2> QED
        BY <1>1, <1>3, <1>5, <2>1, <2>3 DEF PodInv
<1>8. pod' \in [Pods -> PodStates] /\ arrived <= arrived' /\ settled \subseteq settled'
    BY <1>1, PollerFacts
<1>9. \A q \in Pods \ {p} :
           pod'[q] = pod[q] /\ poller'[q] = poller[q] /\ begun'[q] = begun[q]
    BY <1>1, <1>5
<1>10. PollerInv'
    BY <1>6, <1>7, <1>8, <1>9, PollerMoves
<1>11. \A q \in Pods : poller'[q].at = poller[q].at
    BY <1>5
<1> QED
    BY <1>10, <1>11 DEF OnceStep

\* The next update of the batch is at the frontier: it was never dispatched.
LEMMA DispatchKeeps ==
    ASSUME PollerInv, NEW p \in Pods, Dispatch(p), UNCHANGED pod
    PROVE  PollerInv' /\ OnceStep
<1> DEFINE old == poller[p]
           id == Head(poller[p].batch)
           rest == Tail(poller[p].batch)
<1>1. /\ old.pc = "batch" /\ old.batch # <<>>
      /\ poller' = [poller EXCEPT ![p] =
             [pc |-> "handling", offset |-> OffsetAfter(p, id), batch |-> rest, at |-> id]]
      /\ begun' = [begun EXCEPT ![p] = begun[p] \cup {id}]
      /\ UNCHANGED <<arrived, confirmed, settled>>
    BY DEF Dispatch
<1>2. /\ old.batch \in Seq(Nat) /\ old.offset \in Nat /\ arrived \in Nat
      /\ begun[p] \subseteq Nat
      /\ PodInv(pod[p], old, begun[p], settled, arrived) /\ pod[p] \in {"up", "stopping"}
    BY <1>1, PollerFacts
<1>3. /\ id \in Nat /\ rest \in Seq(Nat)
      /\ Len(rest) = Len(old.batch) - 1 /\ Len(rest) \in Nat
      /\ \A i \in 1 .. Len(rest) : rest[i] = old.batch[i + 1]
      /\ id = old.batch[1] /\ 1 \in 1 .. Len(old.batch)
    BY <1>1, <1>2, HeadTailProperties, EmptySeq
<1>4. /\ \A i \in 1 .. Len(old.batch) :
             old.batch[i] = id + i - 1 /\ old.batch[i] <= arrived
      /\ old.offset <= id /\ id <= arrived
    BY <1>2, <1>3 DEF PodInv, InOrder
<1>5. OffsetAfter(p, id) = id + 1
    BY <1>4 DEF OffsetAfter
<1> HIDE DEF id, rest
<1>6. /\ poller'[p] \in PollerRecords /\ poller'[p].pc = "handling"
      /\ poller'[p].offset = id + 1
      /\ poller'[p].batch = rest
      /\ poller'[p].at = id
      /\ \A q \in Pods \ {p} : poller'[q] = poller[q]
      /\ poller' \in [Pods -> PollerRecords]
    BY <1>1, <1>3, <1>5 DEF PollerInv, PollerTyped, PollerRecords, PollerStates
<1>7. /\ begun'[p] = begun[p] \cup {id} /\ begun' \in [Pods -> SUBSET Nat]
      /\ \A q \in Pods \ {p} : begun'[q] = begun[q]
    BY <1>1, <1>3 DEF PollerInv, PollerTyped
<1>8. PollerTyped' /\ Forgotten'
    BY <1>1, <1>6, <1>7 DEF PollerInv, PollerTyped, Forgotten
<1>9. \A b \in begun[p] : b \in Nat /\ b < old.offset
    BY <1>1, <1>2 DEF PodInv
<1>10. PodInv(pod'[p], poller'[p], begun'[p], settled', arrived')
    <2>1. InOrder(poller'[p], arrived')
        <3> SUFFICES ASSUME NEW i \in 1 .. Len(rest)
                     PROVE  /\ rest[i] = rest[1] + i - 1
                            /\ id + 1 <= rest[i]
                            /\ rest[i] <= arrived
            BY <1>1, <1>6 DEF InOrder
        <3>1. /\ 1 \in 1 .. Len(rest) /\ i \in Nat /\ 1 <= i
              /\ 1 + 1 \in 1 .. Len(old.batch) /\ i + 1 \in 1 .. Len(old.batch)
            BY <1>3
        <3>2. rest[i] = old.batch[i + 1] /\ rest[1] = old.batch[1 + 1]
            BY <1>3, <3>1
        <3>3. /\ old.batch[i + 1] = id + (i + 1) - 1 /\ old.batch[i + 1] <= arrived
              /\ old.batch[1 + 1] = id + (1 + 1) - 1
            BY <1>4, <3>1
        <3>4. id \in Nat /\ arrived \in Nat
            BY <1>2, <1>3
        <3>5. rest[i] = id + i /\ rest[1] = id + 1 /\ rest[i] <= arrived
            BY <3>1, <3>2, <3>3, <3>4
        <3> QED
            BY <3>1, <3>4, <3>5
    <2>2. Frontier(poller'[p]) = id + 1
        <3>1. CASE rest = <<>>
            BY <1>6, <3>1 DEF Frontier
        <3>2. CASE rest # <<>>
            <4>1. 1 \in 1 .. Len(rest) /\ 1 + 1 \in 1 .. Len(old.batch)
                BY <1>3, <3>2, EmptySeq
            <4>2. rest[1] = old.batch[1 + 1] /\ old.batch[1 + 1] = id + (1 + 1) - 1
                BY <1>3, <1>4, <4>1
            <4> QED
                BY <1>3, <1>6, <3>2, <4>2 DEF Frontier
        <3> QED
            BY <3>1, <3>2
    <2>3. pod[p] = "up" => \A x \in 1 .. id - 1 : x \in settled
        BY <1>1, <1>2, <1>3 DEF PodInv, Frontier
    <2>4. pod[p] = "up" => \A x \in 1 .. (id + 1) - 1 : x \in settled' \/ x = id
        <3>1. id \in Nat /\ settled \subseteq settled'
            BY <1>1, <1>2, <1>3
        <3>2. \A x \in 1 .. (id + 1) - 1 : x \in 1 .. id - 1 \/ x = id
            BY <3>1
        <3> QED
            BY <2>3, <3>1, <3>2
    <2>5. id + 1 <= arrived' + 1 /\ \A b \in begun'[p] : b < id + 1
        <3>1. id \in Nat /\ arrived \in Nat /\ old.offset \in Nat /\ arrived' = arrived
            BY <1>1, <1>2, <1>3
        <3>2. id <= arrived /\ old.offset <= id
            BY <1>4
        <3>3. \A b \in begun[p] : b < id + 1
            BY <1>9, <3>1, <3>2
        <3>4. \A b \in begun'[p] : b \in begun[p] \/ b = id
            BY <1>7
        <3> QED
            BY <3>1, <3>2, <3>3, <3>4
    <2> QED
        BY <1>1, <1>2, <1>6, <2>1, <2>2, <2>4, <2>5 DEF PodInv
<1>11. pod' \in [Pods -> PodStates] /\ arrived <= arrived' /\ settled \subseteq settled'
    BY <1>1, PollerFacts
<1>12. \A q \in Pods \ {p} :
            pod'[q] = pod[q] /\ poller'[q] = poller[q] /\ begun'[q] = begun[q]
    BY <1>6, <1>7
<1>13. PollerInv'
    BY <1>8, <1>10, <1>11, <1>12, PollerMoves
<1>14. id \notin begun[p]
    BY <1>2, <1>3, <1>4, <1>9
<1>15. OnceStep
    BY <1>6, <1>14 DEF OnceStep
<1> QED
    BY <1>13, <1>15

LEMMA PollerNextKeeps ==
    ASSUME PollerInv, NEW p \in Pods, PollerNext(p), UNCHANGED pod
    PROVE  PollerInv' /\ OnceStep
BY TopKeeps, BackoffKeeps, DispatchKeeps, BatchDoneKeeps, HandlerKeeps, PollFailsKeeps,
   AnsweredKeeps
   DEF PollerNext, PollerStep
-----------------------------------------------------------------------------
(* Telegram, and the life of the pods. *)

LEMMA UpdateArrivesKeeps ==
    ASSUME PollerInv, UpdateArrives, UNCHANGED pod
    PROVE  PollerInv' /\ OnceStep
<1>1. arrived' = arrived + 1 /\ UNCHANGED <<confirmed, poller, begun, settled>>
    BY DEF UpdateArrives
<1>2. PollerTyped' /\ Forgotten' /\ arrived \in Nat /\ arrived' \in Nat /\ arrived <= arrived'
    BY <1>1 DEF PollerInv, PollerTyped, Forgotten
<1>3. ASSUME NEW q \in Pods
      PROVE  PodInv(pod[q], poller[q], begun[q], settled, arrived')
    <2>1. poller[q] \in PollerRecords /\ PodInv(pod[q], poller[q], begun[q], settled, arrived)
        BY PollerFacts
    <2> QED
        BY <1>2, <2>1, PodInvGrows
<1>4. PollerInv'
    BY <1>1, <1>2, <1>3 DEF PollerInv
<1> QED
    BY <1>1, <1>4 DEF OnceStep

\* A pod that comes up has dispatched nothing.
LEMMA PollerStartsKeeps ==
    ASSUME PollerInv, NEW p \in Pods, pod[p] = "unborn", pod' = [pod EXCEPT ![p] = "up"],
           PollerStarts(p)
    PROVE  PollerInv' /\ OnceStep
<1>1. poller' = [poller EXCEPT ![p] = Polling] /\ UNCHANGED <<arrived, confirmed, begun, settled>>
    BY DEF PollerStarts
<1>2. PodInv(pod[p], poller[p], begun[p], settled, arrived) /\ arrived \in Nat
    BY PollerFacts
<1>3. begun[p] = {} /\ poller[p] = Off
    BY <1>2 DEF PodInv
<1>4. /\ poller' \in [Pods -> PollerRecords] /\ poller'[p] = Polling
      /\ \A q \in Pods \ {p} : poller'[q] = poller[q] /\ pod'[q] = pod[q]
      /\ pod' \in [Pods -> PodStates] /\ pod'[p] = "up"
    BY <1>1, OffTyped DEF PollerInv, PollerTyped, PodStates
<1>5. PollerTyped' /\ Forgotten'
    BY <1>1, <1>4 DEF PollerInv, PollerTyped, Forgotten
<1>6. InOrder(Polling, arrived) /\ Frontier(Polling) = 0
    <2>1. Len(Polling.batch) = 0
        BY OffTyped, EmptySeq
    <2> QED
        BY <2>1, OffTyped DEF InOrder, Frontier
<1>7. PodInv(pod'[p], poller'[p], begun'[p], settled', arrived')
    BY <1>1, <1>2, <1>3, <1>4, <1>6, OffTyped DEF PodInv
<1>8. PollerInv'
    BY <1>1, <1>2, <1>4, <1>5, <1>7, PollerMoves
<1> QED
    BY <1>1, <1>3, <1>4, <1>8, OffTyped DEF OnceStep

\* Without a poller, a pod that comes up keeps its invariant, as do the pods of
\* any step that leaves the pollers alone.
LEMMA PodKeeps ==
    ASSUME PollerInv, NEW p \in Pods, NEW state \in {"up", "stopping"},
           pod' = [pod EXCEPT ![p] = state], UNCHANGED pollerVars,
           state = "up" => pod[p] = "unborn"
    PROVE  PollerInv' /\ OnceStep
<1>1. UNCHANGED <<arrived, confirmed, poller, begun, settled>>
    BY DEF pollerVars
<1>2. PodInv(pod[p], poller[p], begun[p], settled, arrived)
    BY PollerFacts
<1>3. /\ \A q \in Pods \ {p} : pod'[q] = pod[q]
      /\ pod' \in [Pods -> PodStates] /\ pod'[p] = state
    BY DEF PollerInv, PodStates
<1>4. PodInv(pod'[p], poller'[p], begun'[p], settled', arrived')
    <2>1. CASE state = "up"
        BY <1>1, <1>2, <1>3, <2>1, OffTyped DEF PodInv
    <2>2. CASE state = "stopping"
        BY <1>1, <1>2, <1>3, <2>2 DEF PodInv
    <2> QED
        BY <2>1, <2>2
<1>5. PollerTyped' /\ Forgotten' /\ arrived <= arrived' /\ settled \subseteq settled'
    BY <1>1 DEF PollerInv, PollerTyped, Forgotten
<1>6. PollerInv'
    BY <1>1, <1>3, <1>4, <1>5, PollerMoves
<1> QED
    BY <1>1, <1>6 DEF OnceStep

LEMMA PollerEndsKeeps ==
    ASSUME PollerInv, NEW p \in Pods, pod' = [pod EXCEPT ![p] = "gone"], PollerEnds(p)
    PROVE  PollerInv' /\ OnceStep
<1>1. poller' = [poller EXCEPT ![p] = Off] /\ UNCHANGED <<arrived, confirmed, begun, settled>>
    BY DEF PollerEnds
<1>2. arrived \in Nat
    BY PollerFacts
<1>3. /\ poller' \in [Pods -> PollerRecords] /\ poller'[p] = Off
      /\ \A q \in Pods \ {p} : poller'[q] = poller[q] /\ pod'[q] = pod[q]
      /\ pod' \in [Pods -> PodStates] /\ pod'[p] = "gone"
    BY <1>1, OffTyped DEF PollerInv, PollerTyped, PodStates
<1>4. PollerTyped' /\ Forgotten'
    BY <1>1, <1>3 DEF PollerInv, PollerTyped, Forgotten
<1>5. InOrder(Off, arrived)
    <2>1. Len(Off.batch) = 0
        BY OffTyped, EmptySeq
    <2> QED
        BY <2>1 DEF InOrder
<1>6. PodInv(pod'[p], poller'[p], begun'[p], settled', arrived')
    BY <1>1, <1>2, <1>3, <1>5, OffTyped DEF PodInv
<1>7. PollerInv'
    BY <1>1, <1>2, <1>3, <1>4, <1>6, PollerMoves
<1> QED
    BY <1>1, <1>3, <1>7, OffTyped DEF OnceStep

LEMMA PollerInitInv ==
    ASSUME PodInit, NEW enabled \in BOOLEAN, PollerInit(enabled)
    PROVE  PollerInv
<1>1. /\ arrived = 0 /\ confirmed = 0 /\ settled = {}
      /\ poller = [p \in Pods |-> IF enabled /\ p = 1 THEN Polling ELSE Off]
      /\ begun = [p \in Pods |-> {}]
      /\ pod = [p \in Pods |-> IF p = 1 THEN "up" ELSE "unborn"]
    BY DEF PodInit, PollerInit
<1>2. PollerTyped /\ Forgotten /\ pod \in [Pods -> PodStates]
    BY <1>1, OffTyped DEF PollerTyped, Forgotten, PodStates
<1>3. ASSUME NEW p \in Pods
      PROVE  PodInv(pod[p], poller[p], begun[p], settled, arrived)
    <2>1. /\ begun[p] = {} /\ poller[p] \in {Off, Polling}
          /\ poller[p] = Polling => pod[p] = "up"
          /\ pod[p] \in {"up", "unborn"}
        BY <1>1, OffTyped
    <2>2. InOrder(poller[p], arrived) /\ Frontier(poller[p]) = 0
        <3>1. poller[p].batch = <<>> /\ poller[p].offset = 0 /\ Len(poller[p].batch) = 0
            BY <2>1, OffTyped, EmptySeq
        <3> QED
            BY <3>1 DEF InOrder, Frontier
    <2>3. CASE poller[p] = Off
        BY <1>1, <2>1, <2>2, <2>3, OffTyped DEF PodInv
    <2>4. CASE poller[p] = Polling
        BY <1>1, <2>1, <2>2, <2>4, OffTyped DEF PodInv
    <2> QED
        BY <2>1, <2>3, <2>4
<1> QED
    BY <1>2, <1>3 DEF PollerInv
-----------------------------------------------------------------------------
(***************************************************************************)
(* From the acknowledgement on, an envelope is in the hands of some pod     *)
(* until it is spent: no step of the reader or the worker loses it between  *)
(* the socket, the queue and the handler.                                   *)
(***************************************************************************)

\* The reader has an envelope while it acknowledges and queues one.
ReaderRecords ==
    [pc : {"off", "opening", "backoff", "serving", "returned"}, env : {NoEnvelope}]
        \cup [pc : {"acking", "queueing"}, env : Envelopes]

SocketTyped ==
    /\ slack \in [Envelopes -> {"unsent", "waiting", "acked"}]
    /\ reader \in [Pods -> ReaderRecords]
    /\ inbox \in [Pods -> Seq(Envelopes)]
    /\ hand \in [Pods -> Envelopes \cup {"off", "idle", "stopped"}]

Bounded == \A p \in Pods : Len(inbox[p]) <= QueueSize

SocketOff == \A p \in Pods : ~Alive(p) => reader[p] = Silent /\ hand[p] = "off"

HeldBy(p, e) ==
    \/ e \in ContentsOf(inbox[p])
    \/ hand[p] = e
    \/ reader[p] = [pc |-> "queueing", env |-> e]

Accounted ==
    \A e \in Envelopes :
        slack[e] = "acked" => e \in spent \/ \E p \in Pods : HeldBy(p, e)

SocketInv == SocketTyped /\ Bounded /\ SocketOff /\ Accounted
-----------------------------------------------------------------------------
LEMMA SilentFacts ==
    /\ Silent \in ReaderRecords /\ Connecting \in ReaderRecords
    /\ Silent.pc = "off" /\ Silent.env = NoEnvelope
    /\ Connecting.pc = "opening"
<1>1. Silent = [pc |-> "off", env |-> NoEnvelope]
    BY DEF Silent
<1>2. Connecting = [pc |-> "opening", env |-> NoEnvelope]
    BY DEF Connecting, Silent
<1> QED
    BY <1>1, <1>2 DEF ReaderRecords

LEMMA NoMixUp == NoEnvelope \notin Envelopes /\ {"off", "idle", "stopped"} \cap Envelopes = {}
BY EnvelopeAssumption

\* A reader that acknowledges or queues holds an envelope, any other holds none.
LEMMA ReaderFacts ==
    ASSUME SocketInv, NEW p \in Pods
    PROVE  /\ reader[p] = [pc |-> reader[p].pc, env |-> reader[p].env]
           /\ reader[p].pc \in {"acking", "queueing"} => reader[p].env \in Envelopes
           /\ reader[p].env \in Envelopes => reader[p].pc \in {"acking", "queueing"}
           /\ reader[p].pc # "off" => Alive(p)
           /\ hand[p] # "off" => Alive(p)
           /\ inbox[p] \in Seq(Envelopes) /\ Len(inbox[p]) \in Nat /\ Len(inbox[p]) <= QueueSize
<1>1. reader[p] \in ReaderRecords
    BY DEF SocketInv, SocketTyped
<1>2. /\ reader[p] = [pc |-> reader[p].pc, env |-> reader[p].env]
      /\ reader[p].pc \in {"acking", "queueing"} => reader[p].env \in Envelopes
      /\ reader[p].env \in Envelopes => reader[p].pc \in {"acking", "queueing"}
    BY <1>1, NoMixUp DEF ReaderRecords
<1>3. /\ reader[p].pc # "off" => Alive(p)
      /\ hand[p] # "off" => Alive(p)
    BY SilentFacts DEF SocketInv, SocketOff
<1>4. inbox[p] \in Seq(Envelopes) /\ Len(inbox[p]) \in Nat /\ Len(inbox[p]) <= QueueSize
    BY LenProperties DEF SocketInv, SocketTyped, Bounded
<1> QED
    BY <1>2, <1>3, <1>4

\* One pod moves: what it held is still held by it, or spent.
LEMMA AccountedMoves ==
    ASSUME Accounted, NEW p \in Pods,
           \A q \in Pods \ {p} :
               inbox'[q] = inbox[q] /\ hand'[q] = hand[q] /\ reader'[q] = reader[q],
           spent \subseteq spent',
           \A e \in Envelopes :
               /\ slack'[e] = "acked" => slack[e] = "acked" \/ HeldBy(p, e)'
               /\ HeldBy(p, e) => HeldBy(p, e)' \/ e \in spent'
    PROVE  Accounted'
<1> SUFFICES ASSUME NEW e \in Envelopes, slack'[e] = "acked", e \notin spent'
             PROVE  \E q \in Pods : HeldBy(q, e)'
    BY DEF Accounted
<1>1. CASE HeldBy(p, e)'
    BY <1>1
<1>2. CASE ~HeldBy(p, e)'
    <2>1. slack[e] = "acked" /\ e \notin spent /\ ~HeldBy(p, e)
        BY <1>2
    <2>2. PICK q \in Pods : HeldBy(q, e)
        BY <2>1 DEF Accounted
    <2>3. q \in Pods \ {p}
        BY <2>1, <2>2
    <2>4. inbox'[q] = inbox[q] /\ hand'[q] = hand[q] /\ reader'[q] = reader[q]
        BY <2>3
    <2>5. HeldBy(q, e)'
        BY <2>2, <2>4 DEF HeldBy, ContentsOf
    <2> QED
        BY <2>5
<1> QED
    BY <1>1, <1>2
-----------------------------------------------------------------------------
(* The reader moves alone: the queue, the worker and what is spent stay. *)

\* A step of the reader that neither takes up nor hands on an envelope that is
\* accounted for.
LEMMA ReaderMoves ==
    ASSUME SocketInv, NEW p \in Pods, NEW r \in ReaderRecords,
           reader' = [reader EXCEPT ![p] = r], Alive(p),
           UNCHANGED <<pod, inbox, hand, spent>>,
           slack' \in [Envelopes -> {"unsent", "waiting", "acked"}],
           \A e \in Envelopes :
               slack'[e] = "acked" =>
                   slack[e] = "acked" \/ r = [pc |-> "queueing", env |-> e],
           reader[p].pc # "queueing"
    PROVE  SocketInv'
<1>1. SocketTyped /\ Bounded /\ SocketOff /\ Accounted
    BY DEF SocketInv
<1>2. reader' \in [Pods -> ReaderRecords] /\ reader'[p] = r
      /\ \A q \in Pods \ {p} : reader'[q] = reader[q]
    BY <1>1 DEF SocketTyped
<1>3. SocketTyped' /\ Bounded'
    BY <1>1, <1>2 DEF SocketTyped, Bounded
<1>4. SocketOff'
    BY <1>1, <1>2 DEF SocketOff, Alive
<1>5. ASSUME NEW e \in Envelopes
      PROVE  /\ slack'[e] = "acked" => slack[e] = "acked" \/ HeldBy(p, e)'
             /\ HeldBy(p, e) => HeldBy(p, e)' \/ e \in spent'
    <2>1. reader[p] # [pc |-> "queueing", env |-> e]
        OBVIOUS
    <2>2. HeldBy(p, e) => HeldBy(p, e)'
        BY <2>1 DEF HeldBy, ContentsOf
    <2>3. slack'[e] = "acked" => slack[e] = "acked" \/ HeldBy(p, e)'
        BY <1>2 DEF HeldBy
    <2> QED
        BY <2>2, <2>3
<1>6. Accounted'
    BY <1>1, <1>2, <1>5, AccountedMoves
<1> QED
    BY <1>3, <1>4, <1>6 DEF SocketInv

\* The reader leaves a connection it has, or could not open.
LEMMA LeaveKeeps ==
    ASSUME SocketInv, NEW p \in Pods, NEW pc \in {"opening", "backoff"}, Leave(p, pc),
           UNCHANGED pod, reader[p].pc \notin {"off", "queueing"}
    PROVE  SocketInv'
<1> DEFINE r == [pc |-> IF pod[p] = "up" THEN pc ELSE "returned", env |-> NoEnvelope]
<1>1. reader' = [reader EXCEPT ![p] = r] /\ UNCHANGED <<slack, inbox, hand, spent>>
    BY DEF Leave, Read
<1>2. r \in ReaderRecords
    BY DEF ReaderRecords
<1>3. Alive(p) /\ slack \in [Envelopes -> {"unsent", "waiting", "acked"}]
    BY ReaderFacts DEF SocketInv, SocketTyped
<1> HIDE DEF r
<1> QED
    BY <1>1, <1>2, <1>3, ReaderMoves

LEMMA OpenKeeps ==
    ASSUME SocketInv, NEW p \in Pods, Open(p), UNCHANGED pod
    PROVE  SocketInv'
<1> DEFINE r == [pc |-> "serving", env |-> NoEnvelope]
<1>1. reader' = [reader EXCEPT ![p] = r] /\ UNCHANGED <<slack, inbox, hand, spent>>
    BY DEF Open, Read
<1>2. r \in ReaderRecords
    BY DEF ReaderRecords
<1>3. /\ Alive(p) /\ slack \in [Envelopes -> {"unsent", "waiting", "acked"}]
      /\ reader[p].pc # "queueing"
    BY ReaderFacts DEF SocketInv, SocketTyped, Open, Reading
<1> HIDE DEF r
<1> QED
    BY <1>1, <1>2, <1>3, ReaderMoves

LEMMA ReceiveKeeps ==
    ASSUME SocketInv, NEW p \in Pods, NEW e \in Envelopes, Receive(p, e), UNCHANGED pod
    PROVE  SocketInv'
<1> DEFINE r == [pc |-> "acking", env |-> e]
<1>1. reader' = [reader EXCEPT ![p] = r] /\ UNCHANGED <<slack, inbox, hand, spent>>
    BY DEF Receive
<1>2. r \in ReaderRecords
    BY DEF ReaderRecords
<1>3. /\ Alive(p) /\ slack \in [Envelopes -> {"unsent", "waiting", "acked"}]
      /\ reader[p].pc # "queueing"
    BY ReaderFacts DEF SocketInv, SocketTyped, Receive, Reading
<1> HIDE DEF r
<1> QED
    BY <1>1, <1>2, <1>3, ReaderMoves

\* The acknowledgement makes the envelope the reader's to hand on.
LEMMA AckKeeps ==
    ASSUME SocketInv, NEW p \in Pods, Ack(p), UNCHANGED pod
    PROVE  SocketInv'
<1> DEFINE env == reader[p].env
           r == [pc |-> "queueing", env |-> env]
<1>1. /\ reader[p] = [pc |-> "acking", env |-> env] /\ env \in Envelopes /\ Alive(p)
      /\ reader[p].pc # "queueing"
    BY ReaderFacts DEF Ack, Reading
<1>2. /\ reader' = [reader EXCEPT ![p].pc = "queueing"]
      /\ slack' = [slack EXCEPT ![env] = IF link[p] = "up" THEN "acked" ELSE @]
      /\ UNCHANGED <<inbox, hand, spent>>
    BY DEF Ack
<1>3. [reader[p] EXCEPT !.pc = "queueing"] = r
    BY <1>1
<1>4. reader' = [reader EXCEPT ![p] = r]
    BY <1>2, <1>3
<1>5. slack \in [Envelopes -> {"unsent", "waiting", "acked"}]
    BY DEF SocketInv, SocketTyped
<1>6. /\ slack' \in [Envelopes -> {"unsent", "waiting", "acked"}]
      /\ \A e \in Envelopes : e # env => slack'[e] = slack[e]
    BY <1>1, <1>2, <1>5
<1>7. \A e \in Envelopes :
          slack'[e] = "acked" => slack[e] = "acked" \/ r = [pc |-> "queueing", env |-> e]
    BY <1>6
<1>8. r \in ReaderRecords
    BY <1>1 DEF ReaderRecords
<1> HIDE DEF r, env
<1> QED
    BY <1>1, <1>2, <1>4, <1>6, <1>7, <1>8, ReaderMoves

\* A step with neither a pod's life nor its goroutines in it.
LEMMA SocketStutters ==
    ASSUME SocketInv, UNCHANGED <<pod, reader, inbox, hand, spent>>,
           slack' \in [Envelopes -> {"unsent", "waiting", "acked"}],
           \A e \in Envelopes : slack'[e] = "acked" => slack[e] = "acked"
    PROVE  SocketInv'
<1>1. SocketTyped' /\ Bounded' /\ SocketOff'
    BY DEF SocketInv, SocketTyped, Bounded, SocketOff, Alive
<1>2. \A q \in Pods, e \in Envelopes : HeldBy(q, e) => HeldBy(q, e)'
    BY DEF HeldBy, ContentsOf
<1>3. Accounted'
    BY <1>2 DEF SocketInv, Accounted
<1> QED
    BY <1>1, <1>3 DEF SocketInv
-----------------------------------------------------------------------------
(* The queue and the worker. *)

LEMMA ContentsOfAppend ==
    ASSUME NEW queue \in Seq(Envelopes), NEW e \in Envelopes
    PROVE  ContentsOf(Append(queue, e)) = ContentsOf(queue) \cup {e}
<1>1. /\ Append(queue, e) \in Seq(Envelopes)
      /\ Len(queue) \in Nat /\ Len(Append(queue, e)) = Len(queue) + 1
      /\ \A i \in 1 .. Len(queue) : Append(queue, e)[i] = queue[i]
      /\ Append(queue, e)[Len(queue) + 1] = e
    BY AppendProperties, LenProperties
<1>2. DOMAIN Append(queue, e) = DOMAIN queue \cup {Len(queue) + 1}
      /\ DOMAIN queue = 1 .. Len(queue)
    BY <1>1, LenProperties
<1> QED
    BY <1>1, <1>2 DEF ContentsOf

LEMMA ContentsOfTail ==
    ASSUME NEW queue \in Seq(Envelopes), queue # <<>>
    PROVE  /\ Head(queue) \in Envelopes /\ Tail(queue) \in Seq(Envelopes)
           /\ Len(Tail(queue)) = Len(queue) - 1
           /\ ContentsOf(queue) = {Head(queue)} \cup ContentsOf(Tail(queue))
<1>1. /\ Head(queue) \in Envelopes /\ Tail(queue) \in Seq(Envelopes)
      /\ Len(Tail(queue)) = Len(queue) - 1 /\ Len(queue) \in Nat \ {0}
      /\ Head(queue) = queue[1]
      /\ \A i \in 1 .. Len(Tail(queue)) : Tail(queue)[i] = queue[i + 1]
    BY HeadTailProperties, LenProperties, EmptySeq
<1>2. DOMAIN queue = 1 .. Len(queue) /\ DOMAIN Tail(queue) = 1 .. Len(queue) - 1
    BY <1>1, LenProperties
<1>3. ContentsOf(queue) \subseteq {Head(queue)} \cup ContentsOf(Tail(queue))
    <2>1. ASSUME NEW i \in 1 .. Len(queue)
          PROVE  queue[i] \in {Head(queue)} \cup ContentsOf(Tail(queue))
        <3>1. CASE i = 1
            BY <1>1, <3>1
        <3>2. CASE i # 1
            <4>1. i - 1 \in 1 .. Len(queue) - 1 /\ Tail(queue)[i - 1] = queue[i]
                BY <1>1, <3>2
            <4>2. queue[i] \in {Tail(queue)[j] : j \in DOMAIN Tail(queue)}
                BY <1>2, <4>1
            <4> QED
                BY <4>2 DEF ContentsOf
        <3> QED
            BY <3>1, <3>2
    <2>2. \A x \in ContentsOf(queue) : \E i \in 1 .. Len(queue) : x = queue[i]
        BY <1>2 DEF ContentsOf
    <2> QED
        BY <2>1, <2>2
<1>4. {Head(queue)} \cup ContentsOf(Tail(queue)) \subseteq ContentsOf(queue)
    <2>1. 1 \in 1 .. Len(queue)
          /\ \A i \in 1 .. Len(queue) - 1 : i + 1 \in 1 .. Len(queue)
        BY <1>1
    <2> QED
        BY <1>1, <1>2, <2>1 DEF ContentsOf
<1> QED
    BY <1>1, <1>3, <1>4

\* What the reader hands on is in the queue, or the queue was full.
LEMMA EnqueueKeeps ==
    ASSUME SocketInv, NEW p \in Pods, Enqueue(p), UNCHANGED pod
    PROVE  SocketInv'
<1> DEFINE env == reader[p].env
           r == [pc |-> "serving", env |-> NoEnvelope]
<1>1. /\ env \in Envelopes /\ Alive(p) /\ reader[p] = [pc |-> "queueing", env |-> env]
      /\ inbox[p] \in Seq(Envelopes) /\ Len(inbox[p]) \in Nat /\ Len(inbox[p]) <= QueueSize
    BY ReaderFacts DEF Enqueue, Reading
<1>2. SocketTyped /\ Bounded /\ SocketOff /\ Accounted
    BY DEF SocketInv
<1>3. reader' = [reader EXCEPT ![p] = r] /\ UNCHANGED <<slack, hand>>
    BY DEF Enqueue, Read
<1>4. \/ /\ Len(inbox[p]) < QueueSize
         /\ inbox' = [inbox EXCEPT ![p] = Append(@, env)] /\ spent' = spent
      \/ spent' = spent \cup {env} /\ inbox' = inbox
    BY DEF Enqueue
<1>5. r \in ReaderRecords
    BY DEF ReaderRecords
<1>6. /\ reader' \in [Pods -> ReaderRecords]
      /\ \A q \in Pods \ {p} : reader'[q] = reader[q]
    BY <1>2, <1>3, <1>5 DEF SocketTyped
<1>7. /\ Append(inbox[p], env) \in Seq(Envelopes)
      /\ Len(Append(inbox[p], env)) = Len(inbox[p]) + 1
    BY <1>1, AppendProperties
<1>8. /\ inbox' \in [Pods -> Seq(Envelopes)] /\ Len(inbox'[p]) <= QueueSize
      /\ \A q \in Pods \ {p} : inbox'[q] = inbox[q]
    <2>1. CASE Len(inbox[p]) < QueueSize /\ inbox' = [inbox EXCEPT ![p] = Append(@, env)]
        <3>1. inbox'[p] = Append(inbox[p], env) /\ inbox' \in [Pods -> Seq(Envelopes)]
              /\ \A q \in Pods \ {p} : inbox'[q] = inbox[q]
            BY <1>2, <1>7, <2>1 DEF SocketTyped
        <3>2. Len(inbox[p]) + 1 <= QueueSize
            BY <1>1, <2>1, SocketAssumption
        <3> QED
            BY <1>7, <3>1, <3>2
    <2>2. CASE inbox' = inbox
        BY <1>1, <1>2, <2>2 DEF SocketTyped
    <2> QED
        BY <1>4, <2>1, <2>2
<1>9. SocketTyped' /\ Bounded' /\ SocketOff'
    BY <1>1, <1>2, <1>3, <1>6, <1>8 DEF SocketTyped, Bounded, SocketOff, Alive
<1>10. \/ ContentsOf(inbox'[p]) = ContentsOf(inbox[p]) \cup {env} /\ spent' = spent
       \/ inbox'[p] = inbox[p] /\ spent' = spent \cup {env}
    <2>1. CASE inbox' = [inbox EXCEPT ![p] = Append(@, env)] /\ spent' = spent
        BY <1>1, <1>2, <2>1, ContentsOfAppend DEF SocketTyped
    <2>2. CASE spent' = spent \cup {env} /\ inbox' = inbox
        BY <2>2
    <2> QED
        BY <1>4, <2>1, <2>2
<1>11. ASSUME NEW e \in Envelopes, HeldBy(p, e)
       PROVE  HeldBy(p, e)' \/ e \in spent'
    <2>1. e \in ContentsOf(inbox[p]) \/ hand[p] = e \/ e = env
        BY <1>1, <1>11 DEF HeldBy
    <2> QED
        BY <1>3, <1>10, <2>1 DEF HeldBy, ContentsOf
<1>12. Accounted'
    BY <1>2, <1>3, <1>6, <1>8, <1>10, <1>11, AccountedMoves
<1> QED
    BY <1>9, <1>12 DEF SocketInv

LEMMA HandleKeeps ==
    ASSUME SocketInv, NEW p \in Pods, Handle(p), UNCHANGED pod
    PROVE  SocketInv'
<1>1. SocketTyped /\ Bounded /\ SocketOff /\ Accounted
    BY DEF SocketInv
<1>2. /\ hand[p] = "idle" /\ inbox[p] # <<>>
      /\ hand' = [hand EXCEPT ![p] = Head(inbox[p])]
      /\ inbox' = [inbox EXCEPT ![p] = Tail(inbox[p])]
      /\ UNCHANGED <<slack, reader, spent>>
    BY DEF Handle
<1>3. Alive(p) /\ inbox[p] \in Seq(Envelopes) /\ Len(inbox[p]) \in Nat /\ Len(inbox[p]) <= QueueSize
    BY <1>2, ReaderFacts
<1>4. /\ Head(inbox[p]) \in Envelopes /\ Tail(inbox[p]) \in Seq(Envelopes)
      /\ Len(Tail(inbox[p])) = Len(inbox[p]) - 1
      /\ ContentsOf(inbox[p]) = {Head(inbox[p])} \cup ContentsOf(Tail(inbox[p]))
    BY <1>2, <1>3, ContentsOfTail
<1>5. /\ hand' \in [Pods -> Envelopes \cup {"off", "idle", "stopped"}]
      /\ inbox' \in [Pods -> Seq(Envelopes)]
      /\ hand'[p] = Head(inbox[p]) /\ inbox'[p] = Tail(inbox[p])
      /\ \A q \in Pods \ {p} : inbox'[q] = inbox[q] /\ hand'[q] = hand[q]
    BY <1>1, <1>2, <1>4 DEF SocketTyped
<1>6. Len(inbox'[p]) <= QueueSize
    BY <1>3, <1>4, <1>5, SocketAssumption
<1>7. SocketTyped' /\ Bounded' /\ SocketOff'
    BY <1>1, <1>2, <1>3, <1>5, <1>6 DEF SocketTyped, Bounded, SocketOff, Alive
<1>8. ASSUME NEW e \in Envelopes, HeldBy(p, e)
      PROVE  HeldBy(p, e)'
    <2>1. hand[p] # e
        BY <1>2, NoMixUp
    <2>2. e \in ContentsOf(Tail(inbox[p])) \/ e = Head(inbox[p])
             \/ reader[p] = [pc |-> "queueing", env |-> e]
        BY <1>4, <1>8, <2>1 DEF HeldBy
    <2> QED
        BY <1>2, <1>5, <2>2 DEF HeldBy, ContentsOf
<1>9. Accounted'
    BY <1>1, <1>2, <1>5, <1>8, AccountedMoves
<1> QED
    BY <1>7, <1>9 DEF SocketInv

\* The worker puts down what it held, which is spent then, or stops.
LEMMA PutDownKeeps ==
    ASSUME SocketInv, NEW p \in Pods, Handled(p) \/ WorkerStops(p), UNCHANGED pod
    PROVE  SocketInv'
<1>1. SocketTyped /\ Bounded /\ SocketOff /\ Accounted
    BY DEF SocketInv
<1>2. PICK next \in {"idle", "stopped"} :
          /\ hand' = [hand EXCEPT ![p] = next] /\ hand[p] # "off"
          /\ spent \subseteq spent' /\ (hand[p] \in spent' \/ hand[p] = "idle")
          /\ UNCHANGED <<slack, reader, inbox>>
    BY NoMixUp DEF Handled, WorkerStops
<1>3. Alive(p)
    BY <1>2, ReaderFacts
<1>4. /\ hand' \in [Pods -> Envelopes \cup {"off", "idle", "stopped"}]
      /\ \A q \in Pods \ {p} : hand'[q] = hand[q]
    BY <1>1, <1>2 DEF SocketTyped
<1>5. SocketTyped' /\ Bounded' /\ SocketOff'
    BY <1>1, <1>2, <1>3, <1>4 DEF SocketTyped, Bounded, SocketOff, Alive
<1>6. ASSUME NEW e \in Envelopes, HeldBy(p, e)
      PROVE  HeldBy(p, e)' \/ e \in spent'
    BY <1>2, <1>6, NoMixUp DEF HeldBy, ContentsOf
<1>7. Accounted'
    BY <1>1, <1>2, <1>4, <1>6, AccountedMoves
<1> QED
    BY <1>5, <1>7 DEF SocketInv
-----------------------------------------------------------------------------
LEMMA SocketNextKeeps ==
    ASSUME SocketInv, NEW p \in Pods, SocketNext(p), UNCHANGED pod
    PROVE  SocketInv'
<1>1. CASE Open(p)
    BY <1>1, OpenKeeps
<1>2. CASE OpenFails(p) \/ BackoffOver(p) \/ ReadFails(p) \/ PingFails(p) \/ AckFails(p) \/ Disconnect(p)
    <2>1. \E pc \in {"opening", "backoff"} : Leave(p, pc) /\ reader[p].pc \notin {"off", "queueing"}
        BY <1>2 DEF OpenFails, BackoffOver, ReadFails, PingFails, AckFails, Disconnect, Reading
    <2> QED
        BY <2>1, LeaveKeeps
<1>3. CASE \E e \in Envelopes : Receive(p, e)
    BY <1>3, ReceiveKeeps
<1>4. CASE Ack(p)
    BY <1>4, AckKeeps
<1>5. CASE Enqueue(p)
    BY <1>5, EnqueueKeeps
<1>6. CASE WorkerStep(p)
    BY <1>6, HandleKeeps, PutDownKeeps DEF WorkerStep
<1>7. CASE LinkGoesSilent(p)
    BY <1>7, SocketStutters DEF LinkGoesSilent, SocketInv, SocketTyped
<1> QED
    BY <1>1, <1>2, <1>3, <1>4, <1>5, <1>6, <1>7 DEF SocketNext, SocketStep

LEMMA EnvelopeArrivesKeeps ==
    ASSUME SocketInv, NEW e \in Envelopes, EnvelopeArrives(e), UNCHANGED pod
    PROVE  SocketInv'
<1>1. slack \in [Envelopes -> {"unsent", "waiting", "acked"}]
    BY DEF SocketInv, SocketTyped
<1>2. /\ slack' = [slack EXCEPT ![e] = "waiting"]
      /\ UNCHANGED <<reader, inbox, hand, spent>>
    BY DEF EnvelopeArrives
<1>3. /\ slack' \in [Envelopes -> {"unsent", "waiting", "acked"}]
      /\ \A other \in Envelopes : slack'[other] = "acked" => slack[other] = "acked"
    BY <1>1, <1>2
<1> QED
    BY <1>2, <1>3, SocketStutters
-----------------------------------------------------------------------------
(* The life of the pods. *)

LEMMA SocketPodKeeps ==
    ASSUME SocketInv, NEW p \in Pods, pod \in [Pods -> PodStates],
           NEW state \in {"up", "stopping"}, pod' = [pod EXCEPT ![p] = state],
           UNCHANGED slackVars
    PROVE  SocketInv'
<1>1. UNCHANGED <<slack, reader, inbox, hand, spent>>
    BY DEF slackVars
<1>2. SocketTyped' /\ Bounded' /\ Accounted'
    BY <1>1 DEF SocketInv, SocketTyped, Bounded, Accounted, HeldBy, ContentsOf
<1>3. SocketOff'
    BY <1>1 DEF SocketInv, SocketOff, Alive
<1> QED
    BY <1>2, <1>3 DEF SocketInv

LEMMA SocketStartsKeeps ==
    ASSUME SocketInv, NEW p \in Pods, pod \in [Pods -> PodStates], pod[p] = "unborn",
           pod' = [pod EXCEPT ![p] = "up"], SocketStarts(p)
    PROVE  SocketInv'
<1>1. SocketTyped /\ Bounded /\ SocketOff /\ Accounted
    BY DEF SocketInv
<1>2. /\ reader' = [reader EXCEPT ![p] = Connecting] /\ hand' = [hand EXCEPT ![p] = "idle"]
      /\ UNCHANGED <<slack, inbox, spent>>
    BY DEF SocketStarts
<1>3. reader[p].pc = "off" /\ hand[p] = "off"
    BY ReaderFacts DEF Alive
<1>4. /\ reader' \in [Pods -> ReaderRecords]
      /\ hand' \in [Pods -> Envelopes \cup {"off", "idle", "stopped"}]
      /\ \A q \in Pods \ {p} : hand'[q] = hand[q] /\ reader'[q] = reader[q]
    BY <1>1, <1>2, SilentFacts DEF SocketTyped
<1>5. SocketTyped' /\ Bounded'
    BY <1>1, <1>2, <1>4 DEF SocketTyped, Bounded
<1>6. SocketOff'
    BY <1>1, <1>4 DEF SocketOff, Alive
<1>7. ASSUME NEW e \in Envelopes, HeldBy(p, e)
      PROVE  HeldBy(p, e)'
    <2>1. e \in ContentsOf(inbox[p])
        BY <1>3, <1>7, NoMixUp DEF HeldBy
    <2> QED
        BY <1>2, <2>1 DEF HeldBy, ContentsOf
<1>8. Accounted'
    BY <1>1, <1>2, <1>4, <1>7, AccountedMoves
<1> QED
    BY <1>5, <1>6, <1>8 DEF SocketInv

\* What the process held in memory is spent.
LEMMA SocketEndsKeeps ==
    ASSUME SocketInv, NEW p \in Pods, pod \in [Pods -> PodStates],
           pod' = [pod EXCEPT ![p] = "gone"], SocketEnds(p)
    PROVE  SocketInv'
<1>1. SocketTyped /\ Bounded /\ SocketOff /\ Accounted
    BY DEF SocketInv
<1>2. /\ reader' = [reader EXCEPT ![p] = Silent] /\ hand' = [hand EXCEPT ![p] = "off"]
      /\ inbox' = [inbox EXCEPT ![p] = <<>>] /\ slack' = slack
      /\ spent' = spent \cup ContentsOf(inbox[p]) \cup ({hand[p], reader[p].env} \cap Envelopes)
    BY DEF SocketEnds
<1>3. <<>> \in Seq(Envelopes) /\ Len(<<>>) = 0
    BY EmptySeq
<1>4. /\ reader' \in [Pods -> ReaderRecords] /\ reader'[p] = Silent
      /\ hand' \in [Pods -> Envelopes \cup {"off", "idle", "stopped"}] /\ hand'[p] = "off"
      /\ inbox' \in [Pods -> Seq(Envelopes)] /\ inbox'[p] = <<>>
      /\ \A q \in Pods \ {p} : hand'[q] = hand[q] /\ reader'[q] = reader[q] /\ inbox'[q] = inbox[q]
    BY <1>1, <1>2, <1>3, SilentFacts DEF SocketTyped
<1>5. SocketTyped' /\ Bounded'
    BY <1>1, <1>2, <1>3, <1>4, SocketAssumption DEF SocketTyped, Bounded
<1>6. SocketOff'
    BY <1>1, <1>4 DEF SocketOff, Alive
<1>7. ASSUME NEW e \in Envelopes, HeldBy(p, e)
      PROVE  e \in spent'
    BY <1>2, <1>7 DEF HeldBy
<1>8. Accounted'
    BY <1>1, <1>2, <1>4, <1>7, AccountedMoves
<1> QED
    BY <1>5, <1>6, <1>8 DEF SocketInv

LEMMA SocketInitInv ==
    ASSUME PodInit, NEW enabled \in BOOLEAN, SocketInit(enabled)
    PROVE  SocketInv
<1>1. /\ slack = [e \in Envelopes |-> "unsent"] /\ inbox = [p \in Pods |-> <<>>]
      /\ reader = [p \in Pods |-> IF enabled /\ p = 1 THEN Connecting ELSE Silent]
      /\ hand = [p \in Pods |-> IF enabled /\ p = 1 THEN "idle" ELSE "off"]
      /\ pod = [p \in Pods |-> IF p = 1 THEN "up" ELSE "unborn"]
    BY DEF SocketInit, PodInit
<1>2. <<>> \in Seq(Envelopes) /\ Len(<<>>) = 0
    BY EmptySeq
<1>3. SocketTyped /\ Bounded
    BY <1>1, <1>2, SilentFacts, SocketAssumption DEF SocketTyped, Bounded
<1>4. SocketOff /\ Accounted
    BY <1>1 DEF SocketOff, Alive, Accounted
<1> QED
    BY <1>3, <1>4 DEF SocketInv
-----------------------------------------------------------------------------
(***************************************************************************)
(* The pollers keep PollerInv and the sockets keep SocketInv, whatever the  *)
(* pods and the network of a deployment do.                                 *)
(***************************************************************************)

SourcesInv ==
    /\ trouble \in BOOLEAN
    /\ setup \in Setups
    /\ PollerInv
    /\ SocketInv

\* A step that leaves the pods and the pollers alone keeps their invariant.
LEMMA PollerStutters ==
    ASSUME PollerInv, UNCHANGED <<pod, pollerVars>>
    PROVE  PollerInv' /\ OnceStep
<1>1. UNCHANGED <<pod, arrived, confirmed, poller, begun, settled>>
    BY DEF pollerVars
<1>2. PollerInv'
    BY <1>1 DEF PollerInv, PollerTyped, Forgotten
<1>3. OnceStep
    BY <1>1 DEF OnceStep
<1> QED
    BY <1>2, <1>3

\* So does one that leaves the pods and the sockets alone.
LEMMA SocketIdles ==
    ASSUME SocketInv, UNCHANGED <<pod, slackVars>>
    PROVE  SocketInv'
<1>1. UNCHANGED <<pod, slack, reader, inbox, hand, spent>>
    BY DEF slackVars
<1> QED
    BY <1>1, SocketStutters DEF SocketInv, SocketTyped

LEMMA SourcesInit == Init => SourcesInv
<1> SUFFICES ASSUME Init PROVE SourcesInv
    OBVIOUS
<1>1. /\ PodInit /\ PollerInit(setup.source = "telegram") /\ SocketInit(setup.source = "slack")
      /\ setup \in Setups
    BY DEF Init
<1>2. (setup.source = "telegram") \in BOOLEAN /\ (setup.source = "slack") \in BOOLEAN
    OBVIOUS
<1>3. PollerInv /\ SocketInv
    BY <1>1, <1>2, PollerInitInv, SocketInitInv
<1> QED
    BY <1>1, <1>3 DEF SourcesInv, PodInit

\* A new pod polls if the deployment takes its presses from Telegram, and
\* opens a socket if not.
LEMMA StartKeeps ==
    ASSUME PollerInv, SocketInv, NEW p \in Pods, Start(p)
    PROVE  PollerInv' /\ OnceStep /\ SocketInv'
<1>1. pod[p] = "unborn" /\ pod' = [pod EXCEPT ![p] = "up"] /\ pod \in [Pods -> PodStates]
    BY DEF Start, StartPod, Become, PollerInv
<1>2. CASE setup.source = "telegram"
    <2>1. PollerStarts(p) /\ UNCHANGED slackVars
        BY <1>2 DEF Start
    <2> QED
        BY <1>1, <2>1, PollerStartsKeeps, SocketPodKeeps
<1>3. CASE setup.source # "telegram"
    <2>1. SocketStarts(p) /\ UNCHANGED pollerVars
        BY <1>3 DEF Start
    <2> QED
        BY <1>1, <2>1, PodKeeps, SocketStartsKeeps
<1> QED
    BY <1>2, <1>3

\* The network and the setup keep their types: no step but Calms changes one.
LEMMA BackgroundKeeps ==
    ASSUME trouble \in BOOLEAN, setup \in Setups, [Next]_vars
    PROVE  trouble' \in BOOLEAN /\ setup' \in Setups
<1>1. UNCHANGED setup /\ trouble' \in {trouble, FALSE}
    BY DEF Next, vars, Calms, TroubleEnds, Arrives, SlackSends, OnTelegram, OnSlack, Start,
           StartPod, Stop, Signal, Ends, Exit, Killed, Become
<1> QED
    BY <1>1

LEMMA SourcesNext ==
    ASSUME SourcesInv, [Next]_vars
    PROVE  SourcesInv' /\ OnceStep
<1> SUFFICES PollerInv' /\ OnceStep /\ SocketInv'
    BY BackgroundKeeps DEF SourcesInv
<1>0. PollerInv /\ SocketInv /\ setup \in Setups /\ pod \in [Pods -> PodStates]
    BY DEF SourcesInv, PollerInv
<1>1. CASE Calms
    BY <1>0, <1>1, PollerStutters, SocketIdles DEF Calms, TroubleEnds
<1>2. CASE Arrives
    BY <1>0, <1>2, UpdateArrivesKeeps, SocketIdles DEF Arrives, OnTelegram
<1>3. CASE SlackSends
    <2>1. setup.sent \subseteq Envelopes
        BY <1>0, SetupAssumption
    <2>2. PICK e \in Envelopes : OnSlack(EnvelopeArrives(e))
        BY <1>3, <2>1 DEF SlackSends
    <2> QED
        BY <1>0, <2>2, PollerStutters, EnvelopeArrivesKeeps DEF OnSlack
<1>4. ASSUME NEW p \in Pods, Start(p)
      PROVE  PollerInv' /\ OnceStep /\ SocketInv'
    BY <1>0, <1>4, StartKeeps
<1>5. ASSUME NEW p \in Pods, Stop(p)
      PROVE  PollerInv' /\ OnceStep /\ SocketInv'
    <2>1. pod' = [pod EXCEPT ![p] = "stopping"] /\ UNCHANGED pollerVars /\ UNCHANGED slackVars
        BY <1>5 DEF Stop, Signal, Become
    <2> QED
        BY <1>0, <2>1, PodKeeps, SocketPodKeeps
<1>6. ASSUME NEW p \in Pods, Ends(p)
      PROVE  PollerInv' /\ OnceStep /\ SocketInv'
    <2>1. pod' = [pod EXCEPT ![p] = "gone"] /\ PollerEnds(p) /\ SocketEnds(p)
        BY <1>6 DEF Ends, Exit, Killed, Become
    <2> QED
        BY <1>0, <2>1, PollerEndsKeeps, SocketEndsKeeps
<1>7. ASSUME NEW p \in Pods, OnTelegram(PollerNext(p))
      PROVE  PollerInv' /\ OnceStep /\ SocketInv'
    BY <1>0, <1>7, PollerNextKeeps, SocketIdles DEF OnTelegram
<1>8. ASSUME NEW p \in Pods, OnSlack(SocketNext(p))
      PROVE  PollerInv' /\ OnceStep /\ SocketInv'
    BY <1>0, <1>8, PollerStutters, SocketNextKeeps DEF OnSlack
<1>9. CASE UNCHANGED vars
    BY <1>0, <1>9, PollerStutters, SocketIdles DEF vars
<1> QED
    BY <1>1, <1>2, <1>3, <1>4, <1>5, <1>6, <1>7, <1>8, <1>9 DEF Next

LEMMA SourcesInvariant == Spec => []SourcesInv
<1>1. Init => SourcesInv
    BY SourcesInit
<1>2. SourcesInv /\ [Next]_vars => SourcesInv'
    BY SourcesNext
<1> QED
    BY <1>1, <1>2, PTL DEF Spec
-----------------------------------------------------------------------------
\* Whatever the pods, the network and the messenger do, every variable keeps
\* its type, the queue its bound, and a pod that is gone works for nobody.
THEOREM PressSourcesTypeOK == Spec => []TypeOK
<1>1. SourcesInv => TypeOK
    <2> SUFFICES ASSUME SourcesInv PROVE TypeOK
        OBVIOUS
    <2>1. PollerInv /\ SocketInv /\ trouble \in BOOLEAN /\ setup \in Setups
        BY DEF SourcesInv
    <2>2. pod \in [Pods -> PodStates] /\ PollerTyped
        BY <2>1 DEF PollerInv
    <2>3. ASSUME NEW p \in Pods
          PROVE  /\ poller[p].pc \in {"off", "top", "asking", "backoff", "batch", "handling", "returned"}
                 /\ reader[p].pc \in {"off", "opening", "backoff", "serving", "acking", "queueing", "returned"}
                 /\ Len(inbox[p]) <= QueueSize
                 /\ ~Alive(p) => poller[p] = Off /\ reader[p] = Silent /\ hand[p] = "off"
        <3>1. poller[p] \in PollerRecords
            BY <2>2 DEF PollerTyped
        <3>2. reader[p] \in ReaderRecords /\ Len(inbox[p]) <= QueueSize
            BY <2>1 DEF SocketInv, SocketTyped, Bounded
        <3>3. ~Alive(p) => reader[p] = Silent /\ hand[p] = "off"
            BY <2>1 DEF SocketInv, SocketOff
        <3>4. ~Alive(p) => pod[p] \in {"unborn", "gone"}
            BY <2>2 DEF Alive, PodStates
        <3>5. ~Alive(p) => poller[p] = Off
            BY <2>1, <3>4 DEF PollerInv, PodInv
        <3>6. poller[p].pc \in PollerStates
            BY <3>1 DEF PollerRecords
        <3>7. reader[p].pc \in {"off", "opening", "backoff", "serving", "acking", "queueing", "returned"}
            BY <3>2 DEF ReaderRecords
        <3> QED
            BY <3>2, <3>3, <3>5, <3>6, <3>7 DEF PollerStates
    <2>4. confirmed \in 0 .. arrived
        BY <2>2 DEF PollerTyped
    <2> QED
        BY <2>1, <2>2, <2>3, <2>4 DEF TypeOK
<1> QED
    BY <1>1, SourcesInvariant, PTL

\* The offset goes up before the handler runs, and yet getUpdates never makes
\* Telegram forget an update that no pod handled to its end, for any number of
\* pods, any batch limit and any panics.
THEOREM PressSourcesConfirmedWereHandled == Spec => []ConfirmedWereHandled
<1>1. SourcesInv => ConfirmedWereHandled
    BY DEF SourcesInv, PollerInv, Forgotten, ConfirmedWereHandled
<1> QED
    BY <1>1, SourcesInvariant, PTL

\* A poll that fails, or whose answer is lost, and a panic never make a pod
\* dispatch an update again.
THEOREM PressSourcesOncePerPod == Spec => OncePerPod
<1>1. SourcesInv /\ [Next]_vars =>
          [\A p \in Pods :
              poller'[p].at # poller[p].at /\ poller'[p].at # 0
                  => poller'[p].at \notin begun[p]]_vars
    BY SourcesNext DEF OnceStep
<1> QED
    BY <1>1, SourcesInvariant, PTL DEF Spec, OncePerPod

\* Between the acknowledgement and the handler no envelope gets lost but by a
\* full queue or the end of its pod, for any pods, queue size and envelopes.
THEOREM PressSourcesAckedAreAccountedFor == Spec => []AckedAreAccountedFor
<1>1. SourcesInv => AckedAreAccountedFor
    BY DEF SourcesInv, SocketInv, Accounted, HeldBy, AckedAreAccountedFor
<1> QED
    BY <1>1, SourcesInvariant, PTL
=============================================================================
