------------------------------- MODULE MCPlugin -------------------------------
(***************************************************************************)
(* Small instances of Plugin for TLC: g renders the config map that p      *)
(* reads and depends on; p, of either kind, has a resource more in its     *)
(* first version than in its second.                                       *)
(***************************************************************************)
EXTENDS Plugin

MCPlugins == {"g", "p"}
MCRenders == [p \in MCPlugins |-> [s \in {1, 2} |-> IF p = "p" /\ s = 1 THEN {"x", "y"} ELSE {"x"}]]
MCDependencies == [p \in MCPlugins |-> IF p = "p" THEN {"g"} ELSE {}]
MCSource == [p \in MCPlugins |-> IF p = "p" THEN "g" ELSE Absent]
MCInitial == [p \in MCPlugins |-> {1}]
MCKinds == [p \in MCPlugins |-> IF p = "p" THEN {"native", "helm"} ELSE {"native"}]
===============================================================================
