----------------------------- MODULE MCEdgeStatus -----------------------------
(***************************************************************************)
(* A small edge server for TLC: d1 and d2 are two connections of the hub   *)
(* A, with cluster C behind it.                                            *)
(***************************************************************************)
EXTENDS EdgeStatus, TLC

CONSTANTS d1, d2, A, C

MCID == (d1 :> A) @@ (d2 :> A)
MCBehind == (d1 :> {C}) @@ (d2 :> {C})
=============================================================================
