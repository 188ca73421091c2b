----------------------------- MODULE MCRouteTable -----------------------------
(***************************************************************************)
(* Small servers for TLC.  d1 and d2 are two connections of the same peer  *)
(* A (it reconnects while the old connection may still be served), with    *)
(* peer C behind it; u1 and u2 are two successive connections to the       *)
(* upstream server S.                                                      *)
(***************************************************************************)
EXTENDS RouteTable, TLC

CONSTANTS d1, d2, u1, u2, A, C, S

\* An edge hub: a peer that reconnects, one upstream connection.
HubStreams == {d1, d2, u1}

\* A hub that loses and regains its upstream server while a peer is connected;
\* the peer has nothing behind it, so that its route packets are keepalives.
RetryStreams == {d1, u1, u2}

\* The edge server: it has no upstream.
ServerStreams == {d1, d2}

UpstreamOf(streams) == streams \cap {u1, u2}
HubUpstream    == UpstreamOf(HubStreams)
RetryUpstream  == UpstreamOf(RetryStreams)
ServerUpstream == UpstreamOf(ServerStreams)

MCPeers == {A, C, S}

IDs(streams)      == [s \in streams |-> IF s \in {u1, u2} THEN S ELSE A]
Children(streams) == [s \in streams |-> IF s \in {u1, u2} THEN {} ELSE {C}]

HubIDs      == IDs(HubStreams)
RetryIDs    == IDs(RetryStreams)
ServerIDs   == IDs(ServerStreams)
HubChildren    == Children(HubStreams)
RetryChildren  == [s \in RetryStreams |-> {}]
ServerChildren == Children(ServerStreams)
=============================================================================
