------------------------------ MODULE MCWorkflow ------------------------------
(* A task of a group of two substeps followed by a step: the walk leaves    *)
(* the group after its first substep.                                       *)
EXTENDS Workflow

MCN == 4
MCEnd == <<4, 3, 3, 4>>
MCFunctions == {2, 3, 4}
===============================================================================
