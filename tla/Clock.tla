-------------------------------- MODULE Clock --------------------------------
(***************************************************************************)
(* The process clock every store reads through its now field (time.Now).    *)
(***************************************************************************)
EXTENDS Integers

CONSTANT MaxTime   \* bound on the clock, for model checking
ASSUME ClockAssumption == MaxTime \in Nat

VARIABLE now

Advance ==
    /\ now < MaxTime
    /\ now' = now + 1
=============================================================================
