------------------------------ MODULE Readiness ------------------------------
(***************************************************************************)
(* The readiness of one sink (server/readyz.go) and the health loop that    *)
(* probes its messenger (cmd/alertly/main.go, sinkHealthLoop).  Senders     *)
(* report every call to the tracker; the loop reports its probes.  Only a   *)
(* run of server errors or of failed probes makes a ready sink unready.     *)
(***************************************************************************)
EXTENDS Naturals

CONSTANTS
    Window,          \* readyzFailureWindow: 10
    Threshold,       \* failureThreshold: 3
    ProbeInterval,   \* 1 min
    ProbeBackoff,    \* the loop's backoff: 1 s,
    ProbeBackoffMax  \* doubled up to 30 s

ASSUME ReadinessAssumption ==
    {Window, Threshold, ProbeInterval, ProbeBackoff, ProbeBackoffMax} \subseteq Nat \ {0}

VARIABLES
    ready,         \* the tracker: ready,
    consecFails,   \* and its run of server errors, counted up to Window
    loop           \* the health loop

readinessVars == <<ready, consecFails, loop>>

ReadinessInit ==
    /\ ready = FALSE
    /\ consecFails = 0
    /\ loop = [pc |-> "start", fails |-> 0, ever |-> FALSE, wait |-> 0, backoff |-> ProbeBackoff]

UpTo(limit, n) == IF n < limit THEN n ELSE limit
-----------------------------------------------------------------------------
(* The tracker. *)

MarkReady ==
    /\ ready' = TRUE
    /\ consecFails' = 0

MarkUnready ==
    /\ ready' = FALSE
    /\ UNCHANGED consecFails

RecordSendSuccess ==
    /\ ready' = TRUE
    /\ consecFails' = 0

RecordSendFailure(serverError) ==
    IF serverError
    THEN /\ consecFails' = UpTo(Window, consecFails + 1)
         /\ ready' = (ready /\ consecFails + 1 < Window)
    ELSE UNCHANGED <<ready, consecFails>>
-----------------------------------------------------------------------------
(* The health loop. *)

Pausing(fails, ever, wait, backoff) ==
    loop' = [pc |-> "waiting", fails |-> fails, ever |-> ever, wait |-> wait, backoff |-> backoff]

ProbeBegins ==
    /\ loop.pc = "start"
    /\ loop' = [loop EXCEPT !.pc = "probing"]
    /\ UNCHANGED <<ready, consecFails>>

MarksOnlyItsOwn ==   \* mutant
    /\ loop.pc = "probing"
    /\ IF ready \/ consecFails >= Window
       THEN Pausing(0, TRUE, ProbeInterval, ProbeBackoff)
       ELSE loop' = [loop EXCEPT !.pc = "marking"]
    /\ UNCHANGED <<ready, consecFails>>

\* IsReady and MarkReady take the lock one after the other.
ProbeSucceeds ==
    /\ loop.pc = "probing"
    /\ IF ready
       THEN Pausing(0, TRUE, ProbeInterval, ProbeBackoff)
       ELSE loop' = [loop EXCEPT !.pc = "marking"]
    /\ UNCHANGED <<ready, consecFails>>

Marks ==
    /\ loop.pc = "marking"
    /\ MarkReady
    /\ Pausing(0, TRUE, ProbeInterval, ProbeBackoff)

NeverUnready ==   \* mutant
    /\ loop.pc = "probing"
    /\ Pausing(0, loop.ever, loop.backoff, UpTo(ProbeBackoffMax, 2 * loop.backoff))
    /\ IF loop.ever THEN UNCHANGED <<ready, consecFails>> ELSE MarkUnready

ProbeFails ==
    /\ loop.pc = "probing"
    /\ Pausing(UpTo(Threshold, loop.fails + 1), loop.ever, loop.backoff,
               UpTo(ProbeBackoffMax, 2 * loop.backoff))
    /\ IF ~loop.ever \/ loop.fails + 1 >= Threshold
       THEN MarkUnready
       ELSE UNCHANGED <<ready, consecFails>>

PauseOver ==
    /\ loop.pc = "waiting" /\ loop.wait = 0
    /\ loop' = [loop EXCEPT !.pc = "start"]
    /\ UNCHANGED <<ready, consecFails>>

LoopDue == loop.pc \in {"start", "marking"} \/ (loop.pc = "waiting" /\ loop.wait = 0)

LoopTick ==
    /\ ~LoopDue
    /\ loop' = [loop EXCEPT !.wait = IF @ > 0 THEN @ - 1 ELSE 0]
    /\ UNCHANGED <<ready, consecFails>>
=============================================================================
