---------------------------- MODULE TunnelDirectory ----------------------------
(***************************************************************************)
(* What a route table promises about the tunnels directly connected to a   *)
(* TunnelServer, with neither goroutines nor locks: every tunnel comes up  *)
(* and goes down at most once, and a peer id is routed to at most one      *)
(* tunnel, which is up and presented that id.                              *)
(***************************************************************************)
CONSTANTS Streams, Peers, RemoteID, None

VARIABLES
  status,       \* "new", "up" or "down" for every tunnel
  route         \* the tunnel a peer id is routed to, or None

dvars == <<status, route>>

Init ==
  /\ status = [s \in Streams |-> "new"]
  /\ route = [p \in Peers |-> None]

\* The first tunnel with an id owns it.
Up(s) ==
  /\ status[s] = "new"
  /\ status' = [status EXCEPT ![s] = "up"]
  /\ route' = [route EXCEPT ![RemoteID[s]] = IF @ = None THEN s ELSE @]

\* Any tunnel with an id takes the entry away, its owner or not.
Down(s) ==
  /\ status[s] = "up"
  /\ status' = [status EXCEPT ![s] = "down"]
  /\ route' = [route EXCEPT ![RemoteID[s]] = None]

Next == \E s \in Streams : Up(s) \/ Down(s)

Spec == Init /\ [][Next]_dvars

\* A routed id belongs to a tunnel that is up and presented it.
RoutedIsUp ==
  \A p \in Peers :
    route[p] # None => RemoteID[route[p]] = p /\ status[route[p]] = "up"
=============================================================================
