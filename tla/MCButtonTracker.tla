-------------------------- MODULE MCButtonTracker --------------------------
(***************************************************************************)
(* Three messages with room to track two, three alerts with room for the    *)
(* labels of two.                                                           *)
(***************************************************************************)
EXTENDS ButtonMessages
=============================================================================
