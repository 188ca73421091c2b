---------------------------- MODULE MCEnvironment ----------------------------
(***************************************************************************)
(* Small instances of Environment for TLC.  Requests only differ in name:  *)
(* they are taken in the order of their names.                             *)
(***************************************************************************)
EXTENDS Environment

InOrder == \A q, r \in Requests : q < r /\ req[q] = Ready => req'[r] = Ready
=============================================================================
