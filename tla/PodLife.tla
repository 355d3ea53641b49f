------------------------------ MODULE PodLife ------------------------------
(***************************************************************************)
(* The processes of one deployment (cmd/alertly/main.go, run).  A pod comes *)
(* up, is told to stop by a signal that cancels the one context all its     *)
(* workers share, waits for them, and is gone; or it is killed.  A rolling  *)
(* update starts the next pod before it stops the old one.                  *)
(***************************************************************************)
EXTENDS Naturals

CONSTANT MaxPods   \* bound, for model checking: pods of a run

Pods == 1 .. MaxPods

ASSUME PodAssumption == MaxPods \in Nat \ {0}

VARIABLES
    pod,           \* pod[p] = where the life of pod p is
    trouble        \* whether the network may still fail

PodStates == {"unborn", "up", "stopping", "gone"}

PodInit ==
    /\ pod = [p \in Pods |-> IF p = 1 THEN "up" ELSE "unborn"]
    /\ trouble = TRUE

\* The network may fail any number of times, and recovers at last.
TroubleEnds ==
    /\ trouble
    /\ trouble' = FALSE
    /\ UNCHANGED pod

Alive(p) == pod[p] \in {"up", "stopping"}

Become(p, state) ==
    /\ pod' = [pod EXCEPT ![p] = state]
    /\ UNCHANGED trouble

\* At most two pods overlap.
StartPod(p) ==
    /\ pod[p] = "unborn"
    /\ p > 1 /\ pod[p - 1] # "unborn"
    /\ \A q \in Pods : q < p - 1 => pod[q] = "gone"
    /\ Become(p, "up")

\* SIGTERM: rootCtx is done from here on.  The last pod is left alone.
Signal(p) ==
    /\ pod[p] = "up"
    /\ p < MaxPods
    /\ Become(p, "stopping")

\* The process ends by itself, once its workers returned.
Exit(p) ==
    /\ pod[p] = "stopping"
    /\ Become(p, "gone")

\* The process is killed, or ShutdownTimeout ends its wait for the workers.
Killed(p) ==
    /\ Alive(p)
    /\ p < MaxPods
    /\ Become(p, "gone")
=============================================================================
