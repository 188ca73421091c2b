---------------------------- MODULE MCTenantQuota ----------------------------
(* Two environments of a tenant, in a namespace each *)
EXTENDS TenantQuota

MCTenantOf == [e \in Envs |-> "A"]
MCSpaceOf == [e \in Envs |-> IF e = "e" THEN "m" ELSE "n"]
(* Two of any kind, or three that ask for a quota or delete it *)
MCCost == [k \in Kinds \cup {"edit"} |-> IF k \in {"post", "delete"} THEN 2 ELSE 3]
MCOneEach == [k \in Kinds \cup {"edit"} |-> 1]
MCInitial == [t \in Tenants |-> 2]
==============================================================================
