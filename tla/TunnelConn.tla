------------------------------ MODULE TunnelConn ------------------------------
(***************************************************************************)
(* The connections that one end of a tunnel dials through it and the other *)
(* end accepts (ConnectionManager and TunnelConn): an edge server's        *)
(* requests to an agent.  Each end keeps a table of connections by a local *)
(* id; packets carry the ids of both ends.  Packets travel in order: the   *)
(* streams keep it and every receive loop forwards before it receives      *)
(* again.  The loop hands Open and Close to goroutines of their own and    *)
(* puts Data into the connection's channel itself.                         *)
(*                                                                         *)
(* The model is one life of a tunnel, which is lost to both ends at once:  *)
(* the Close by which a server between them answers for a tunnel it has    *)
(* lost itself (forward) is left out.  Payloads are numbered: number 0 is  *)
(* the acknowledgement that accept sends as its first data.                *)
(***************************************************************************)
EXTENDS Naturals, Sequences

CONSTANTS
  MaxDials,     \* bound: connections dialled
  MaxData,      \* bound: payloads written on a connection, in each direction
  Writers,      \* bound: the ends at which something is written
  AckSize,      \* DefaultDataChannelSize, 512 in the code
  Lossy         \* bound: whether the tunnel is ever lost

Ends    == {"dialer", "acceptor"}
Peer(e) == IF e = "dialer" THEN "acceptor" ELSE "dialer"

ASSUME TunnelConnAssumption ==
  /\ MaxDials \in Nat \ {0}
  /\ MaxData \in Nat
  /\ Writers \subseteq Ends
  /\ AckSize \in Nat \ {0}
  /\ Lossy \in BOOLEAN

CIDs  == 1 .. MaxDials
Conns == Ends \X CIDs
Dialed(k)   == <<"dialer", k>>
Accepted(r) == <<"acceptor", r>>
Other(c, i) == <<Peer(c[1]), i>>

VARIABLES
  autoinc,      \* Connections.autoinc of each end
  listed,       \* the connections in their end's Connections.connections
  remote,       \* TunnelConn.remoteConnectionID, 0 while unknown
  ack,          \* TunnelConn.ack, the channel of received payloads
  raw,          \* TunnelConn.rawConn: "none" (nil), "open", "closed", or "late":
                \* open, and noted when the connection had already been removed
  pc,           \* where Open or accept is
  copying,      \* the goroutines of accepted that still run
  wrote,        \* how many payloads have been written on a connection
  read,         \* what has been taken from its channel
  net,          \* the packets on their way to each end, oldest first
  accepting,    \* Open packets whose accept goroutine has not begun
  closing,      \* ids whose close goroutine has not begun
  loop,         \* the receive loop of each end
  hand,         \* the payload a loop is about to put into a channel
  up            \* whether the tunnel is connected

vars == <<autoinc, listed, remote, ack, raw, pc, copying, wrote, read, net,
          accepting, closing, loop, hand, up>>

Payload == [src : CIDs, dst : 0 .. MaxDials, n : 0 .. MaxData]
Packet  == [kind : {"Open", "Data", "Close"}, src : 0 .. MaxDials,
            dst : 0 .. MaxDials, n : 0 .. MaxData]

PCs == {"none", "opening", "waiting", "open", "dialing", "acked", "copy",
        "close", "sendclose", "done", "failed"}

NoPayload == [src |-> 1, dst |-> 0, n |-> 0]

\* Closed connections are those that have been in the table and left it.
Closed(c) == pc[c] # "none" /\ c \notin listed

Alive(e) == loop[e] # "panicked"

\* A packet of an end to its peer; on a lost tunnel Send fails.
Packed(kind, src, dst, n) == [kind |-> kind, src |-> src, dst |-> dst, n |-> n]

Transmit(e, p) ==
  net' = [net EXCEPT ![Peer(e)] = IF up THEN Append(@, p) ELSE @]

SendPkt(c, kind, n) == Transmit(c[1], Packed(kind, c[2], remote[c], n))

\* Mutant: the table forgets the connection and leaves its socket open.
UnlistKeepsRaw(gone) ==
  /\ listed' = listed \ gone
  /\ raw' = raw

\* closeWihoutLock for the connections of a set that are in the table.
Unlist(gone) ==
  /\ listed' = listed \ gone
  /\ raw' = [c \in Conns |->
               IF c \in gone \cap listed /\ raw[c] = "open" THEN "closed" ELSE raw[c]]

Init ==
  /\ autoinc = [e \in Ends |-> 0]
  /\ listed = {}
  /\ remote = [c \in Conns |-> 0]
  /\ ack = [c \in Conns |-> <<>>]
  /\ raw = [c \in Conns |-> "none"]
  /\ pc = [c \in Conns |-> "none"]
  /\ copying = [c \in Conns |-> {}]
  /\ wrote = [c \in Conns |-> 0]
  /\ read = [c \in Conns |-> <<>>]
  /\ net = [e \in Ends |-> <<>>]
  /\ accepting = {}
  /\ closing = [e \in Ends |-> {}]
  /\ loop = [e \in Ends |-> "recv"]
  /\ hand = [e \in Ends |-> NoPayload]
  /\ up = TRUE
-----------------------------------------------------------------------------
(* ConnectionManager.Open, one goroutine per connection                     *)

\* The tunnel has been selected and may be lost by now.
Pending(k) ==
  /\ Alive("dialer")
  /\ pc[Dialed(k)] = "none"
  /\ k = autoinc["dialer"] + 1
  /\ autoinc' = [autoinc EXCEPT !["dialer"] = k]
  /\ listed' = listed \cup {Dialed(k)}
  /\ pc' = [pc EXCEPT ![Dialed(k)] = "opening"]
  /\ UNCHANGED <<remote, ack, raw, copying, wrote, read, net, accepting, closing, loop, hand, up>>

\* When Send fails Open returns and the connection stays in the table.
SendOpen(k) ==
  /\ Alive("dialer")
  /\ pc[Dialed(k)] = "opening"
  /\ SendPkt(Dialed(k), "Open", 0)
  /\ pc' = [pc EXCEPT ![Dialed(k)] = IF up THEN "waiting" ELSE "failed"]
  /\ UNCHANGED <<autoinc, listed, remote, ack, raw, copying, wrote, read, accepting, closing,
                 loop, hand, up>>

\* Mutant: both ends are taken to number connections alike.
OpenedSameID(k) ==
  LET c == Dialed(k) IN
  /\ Alive("dialer")
  /\ pc[c] = "waiting"
  /\ ack[c] # <<>>
  /\ remote' = [remote EXCEPT ![c] = k]
  /\ read' = [read EXCEPT ![c] = <<Head(ack[c])>>]
  /\ ack' = [ack EXCEPT ![c] = Tail(@)]
  /\ pc' = [pc EXCEPT ![c] = "open"]
  /\ UNCHANGED <<autoinc, listed, raw, copying, wrote, net, accepting, closing, loop, hand, up>>

\* The first payload is the acknowledgement; its source is the remote id.
Opened(k) ==
  LET c == Dialed(k) IN
  /\ Alive("dialer")
  /\ pc[c] = "waiting"
  /\ ack[c] # <<>>
  /\ remote' = [remote EXCEPT ![c] = Head(ack[c]).src]
  /\ read' = [read EXCEPT ![c] = <<Head(ack[c])>>]
  /\ ack' = [ack EXCEPT ![c] = Tail(@)]
  /\ pc' = [pc EXCEPT ![c] = "open"]
  /\ UNCHANGED <<autoinc, listed, raw, copying, wrote, net, accepting, closing, loop, hand, up>>

\* The peer has closed the connection, or the dial timeout has passed: Close.
OpenFails(k) ==
  /\ Alive("dialer")
  /\ pc[Dialed(k)] = "waiting"
  /\ pc' = [pc EXCEPT ![Dialed(k)] = "close"]
  /\ UNCHANGED <<autoinc, listed, remote, ack, raw, copying, wrote, read, net, accepting,
                 closing, loop, hand, up>>
-----------------------------------------------------------------------------
(* The net.Conn that Open returns: one goroutine reads, one writes          *)

\* Write asks only whether the table has closed the connection.
DialerWrites(k) ==
  LET c == Dialed(k) IN
  /\ Alive("dialer")
  /\ pc[c] \in {"open", "close", "sendclose", "done"}
  /\ remote[c] # 0
  /\ ~Closed(c)
  /\ up
  /\ c[1] \in Writers /\ wrote[c] < MaxData
  /\ wrote' = [wrote EXCEPT ![c] = @ + 1]
  /\ SendPkt(c, "Data", wrote[c] + 1)
  /\ UNCHANGED <<autoinc, listed, remote, ack, raw, pc, copying, read, accepting, closing,
                 loop, hand, up>>

\* What was received before the connection was closed can still be read.
DialerReads(k) ==
  LET c == Dialed(k) IN
  /\ Alive("dialer")
  /\ pc[c] = "open"
  /\ ack[c] # <<>>
  /\ read' = [read EXCEPT ![c] = Append(@, Head(ack[c]))]
  /\ ack' = [ack EXCEPT ![c] = Tail(@)]
  /\ UNCHANGED <<autoinc, listed, remote, raw, pc, copying, wrote, net, accepting, closing,
                 loop, hand, up>>

DialerCloses(k) ==
  /\ Alive("dialer")
  /\ pc[Dialed(k)] = "open"
  /\ pc' = [pc EXCEPT ![Dialed(k)] = "close"]
  /\ UNCHANGED <<autoinc, listed, remote, ack, raw, copying, wrote, read, net, accepting,
                 closing, loop, hand, up>>
-----------------------------------------------------------------------------
(* TunnelConn.Close, called by Open, by its caller and by accept            *)

\* close() looks its own table up under the id of the remote end.
Close(c) ==
  /\ Alive(c[1])
  /\ pc[c] = "close"
  /\ Unlist({<<c[1], remote[c]>>})
  /\ pc' = [pc EXCEPT ![c] = "sendclose"]
  /\ UNCHANGED <<autoinc, remote, ack, copying, wrote, read, net, accepting, closing,
                 loop, hand, up>>

\* Mutant: a connection that the peer has closed is not answered.
SendCloseIfListed(c) ==
  /\ Alive(c[1])
  /\ pc[c] = "sendclose"
  /\ IF c \in listed THEN SendPkt(c, "Close", 0) ELSE UNCHANGED net
  /\ pc' = [pc EXCEPT ![c] = "done"]
  /\ UNCHANGED <<autoinc, listed, remote, ack, raw, copying, wrote, read, accepting, closing,
                 loop, hand, up>>

SendClose(c) ==
  /\ Alive(c[1])
  /\ pc[c] = "sendclose"
  /\ SendPkt(c, "Close", 0)
  /\ pc' = [pc EXCEPT ![c] = "done"]
  /\ UNCHANGED <<autoinc, listed, remote, ack, raw, copying, wrote, read, accepting, closing,
                 loop, hand, up>>
-----------------------------------------------------------------------------
(* ConnectionManager.accept, one goroutine per Open packet                  *)

\* The goroutines of two Open packets may begin in either order.
Accept(k) ==
  LET r == autoinc["acceptor"] + 1 IN
  /\ Alive("acceptor")
  /\ k \in accepting
  /\ accepting' = accepting \ {k}
  /\ autoinc' = [autoinc EXCEPT !["acceptor"] = r]
  /\ remote' = [remote EXCEPT ![Accepted(r)] = k]
  /\ listed' = listed \cup {Accepted(r)}
  /\ pc' = [pc EXCEPT ![Accepted(r)] = "dialing"]
  /\ UNCHANGED <<ack, raw, copying, wrote, read, net, closing, loop, hand, up>>

\* net.DialTimeout fails: sendClose, then the deferred Close.
DialFails(r) ==
  LET c == Accepted(r) IN
  /\ Alive("acceptor")
  /\ pc[c] = "dialing"
  /\ SendPkt(c, "Close", 0)
  /\ pc' = [pc EXCEPT ![c] = "close"]
  /\ UNCHANGED <<autoinc, listed, remote, ack, raw, copying, wrote, read, accepting, closing,
                 loop, hand, up>>

\* The service answers: the empty payload acknowledges the connection.
DialSucceeds(r) ==
  LET c == Accepted(r) IN
  /\ Alive("acceptor")
  /\ pc[c] = "dialing"
  /\ SendPkt(c, "Data", 0)
  /\ pc' = [pc EXCEPT ![c] = IF up THEN "acked" ELSE "close"]
  /\ UNCHANGED <<autoinc, listed, remote, ack, raw, copying, wrote, read, accepting, closing,
                 loop, hand, up>>

\* accepted: only now does the connection know the socket that closing it closes.
StartCopying(r) ==
  LET c == Accepted(r) IN
  /\ Alive("acceptor")
  /\ pc[c] = "acked"
  /\ raw' = [raw EXCEPT ![c] = IF Closed(c) THEN "late" ELSE "open"]
  /\ copying' = [copying EXCEPT ![c] = {"in", "out"}]
  /\ pc' = [pc EXCEPT ![c] = "copy"]
  /\ UNCHANGED <<autoinc, listed, remote, ack, wrote, read, net, accepting, closing, loop, hand, up>>

\* io.Copy(rawConn, c): what is read goes to the socket; the copy ends when the socket
\* is closed or the write fails.
CopyIn(r) ==
  LET c == Accepted(r) IN
  /\ Alive("acceptor")
  /\ "in" \in copying[c]
  /\ ack[c] # <<>>
  /\ read' = [read EXCEPT ![c] = Append(@, Head(ack[c]))]
  /\ ack' = [ack EXCEPT ![c] = Tail(@)]
  /\ \/ copying' = [copying EXCEPT ![c] = @ \ {"in"}]
     \/ raw[c] # "closed" /\ UNCHANGED copying
  /\ UNCHANGED <<autoinc, listed, remote, raw, pc, wrote, net, accepting, closing, loop, hand, up>>

CopyInEnds(r) ==
  LET c == Accepted(r) IN
  /\ Alive("acceptor")
  /\ "in" \in copying[c]
  /\ ack[c] = <<>>
  /\ Closed(c)
  /\ copying' = [copying EXCEPT ![c] = @ \ {"in"}]
  /\ UNCHANGED <<autoinc, listed, remote, ack, raw, pc, wrote, read, net, accepting, closing,
                 loop, hand, up>>

\* io.Copy(c, rawConn): the service sends something.
CopyOut(r) ==
  LET c == Accepted(r) IN
  /\ Alive("acceptor")
  /\ "out" \in copying[c]
  /\ raw[c] = "open"
  /\ ~Closed(c)
  /\ up
  /\ c[1] \in Writers /\ wrote[c] < MaxData
  /\ wrote' = [wrote EXCEPT ![c] = @ + 1]
  /\ SendPkt(c, "Data", wrote[c] + 1)
  /\ UNCHANGED <<autoinc, listed, remote, ack, raw, pc, copying, read, accepting, closing,
                 loop, hand, up>>

\* The socket is closed here, ends there, or brings data for a closed connection.
CopyOutEnds(r) ==
  LET c == Accepted(r) IN
  /\ Alive("acceptor")
  /\ "out" \in copying[c]
  /\ copying' = [copying EXCEPT ![c] = @ \ {"out"}]
  /\ UNCHANGED <<autoinc, listed, remote, ack, raw, pc, wrote, read, net, accepting, closing,
                 loop, hand, up>>

\* Both copies have ended: the deferred calls close the socket and the connection.
CopyingEnds(r) ==
  LET c == Accepted(r) IN
  /\ Alive("acceptor")
  /\ pc[c] = "copy"
  /\ copying[c] = {}
  /\ raw' = [raw EXCEPT ![c] = "closed"]
  /\ pc' = [pc EXCEPT ![c] = "close"]
  /\ UNCHANGED <<autoinc, listed, remote, ack, copying, wrote, read, net, accepting, closing,
                 loop, hand, up>>
-----------------------------------------------------------------------------
(* The receive loop of an end: TunnelServer.Connect and localIn             *)

Receives(e, kind) ==
  /\ loop[e] = "recv"
  /\ net[e] # <<>>
  /\ Head(net[e]).kind = kind

\* The packets to an end without the first, and a Close sent to the other end.
Taken(e) == net' = [net EXCEPT ![e] = Tail(@)]

Answered(e, p) ==
  net' = [net EXCEPT ![e] = Tail(@),
                     ![Peer(e)] = Append(@, Packed("Close", p.dst, p.src, 0))]

RecvOpen(e) ==
  /\ Receives(e, "Open")
  /\ accepting' = accepting \cup {Head(net[e]).src}
  /\ Taken(e)
  /\ UNCHANGED <<autoinc, listed, remote, ack, raw, pc, copying, wrote, read, closing,
                 loop, hand, up>>

RecvClose(e) ==
  /\ Receives(e, "Close")
  /\ closing' = [closing EXCEPT ![e] = @ \cup {Head(net[e]).dst}]
  /\ Taken(e)
  /\ UNCHANGED <<autoinc, listed, remote, ack, raw, pc, copying, wrote, read, accepting,
                 loop, hand, up>>

\* Mutant: data is received in goroutines, which overtake each other.
RecvDataAnyOrder(e) ==
  /\ loop[e] = "recv"
  /\ \E i \in 1 .. Len(net[e]) :
       /\ net[e][i].kind = "Data"
       /\ <<e, net[e][i].dst>> \in listed
       /\ hand' = [hand EXCEPT ![e] = [src |-> net[e][i].src, dst |-> net[e][i].dst,
                                       n |-> net[e][i].n]]
       /\ net' = [net EXCEPT ![e] = SubSeq(@, 1, i - 1) \o SubSeq(@, i + 1, Len(@))]
  /\ loop' = [loop EXCEPT ![e] = "got"]
  /\ UNCHANGED <<autoinc, listed, remote, ack, raw, pc, copying, wrote, read, accepting,
                 closing, up>>

\* recv finds the connection, and looks no more before it sends to its channel.
RecvData(e) ==
  /\ Receives(e, "Data")
  /\ <<e, Head(net[e]).dst>> \in listed
  /\ hand' = [hand EXCEPT ![e] = [src |-> Head(net[e]).src, dst |-> Head(net[e]).dst,
                                  n |-> Head(net[e]).n]]
  /\ loop' = [loop EXCEPT ![e] = "got"]
  /\ Taken(e)
  /\ UNCHANGED <<autoinc, listed, remote, ack, raw, pc, copying, wrote, read, accepting,
                 closing, up>>

\* net.ErrClosed: the sender is told to close.
RecvUnknown(e) ==
  /\ Receives(e, "Data")
  /\ <<e, Head(net[e]).dst>> \notin listed
  /\ Answered(e, Head(net[e]))
  /\ UNCHANGED <<autoinc, listed, remote, ack, raw, pc, copying, wrote, read, accepting,
                 closing, loop, hand, up>>

\* Mutant: the channel takes one payload too many.
DeliverOverfull(e) ==
  LET c == <<e, hand[e].dst>> IN
  /\ loop[e] = "got"
  /\ c \in listed
  /\ Len(ack[c]) <= AckSize
  /\ ack' = [ack EXCEPT ![c] = Append(@, hand[e])]
  /\ loop' = [loop EXCEPT ![e] = "recv"]
  /\ UNCHANGED <<autoinc, listed, remote, raw, pc, copying, wrote, read, net, accepting,
                 closing, hand, up>>

Deliver(e) ==
  LET c == <<e, hand[e].dst>> IN
  /\ loop[e] = "got"
  /\ c \in listed
  /\ Len(ack[c]) < AckSize
  /\ ack' = [ack EXCEPT ![c] = Append(@, hand[e])]
  /\ loop' = [loop EXCEPT ![e] = "recv"]
  /\ UNCHANGED <<autoinc, listed, remote, raw, pc, copying, wrote, read, net, accepting,
                 closing, hand, up>>

\* Mutant: a full channel is only logged.
DropSilently(e) ==
  LET c == <<e, hand[e].dst>> IN
  /\ loop[e] = "got"
  /\ c \in listed
  /\ Len(ack[c]) = AckSize
  /\ loop' = [loop EXCEPT ![e] = "recv"]
  /\ UNCHANGED <<autoinc, listed, remote, ack, raw, pc, copying, wrote, read, net, accepting,
                 closing, hand, up>>

\* ErrFullChannel: the payload is dropped and the sender told to close.
DropFull(e) ==
  LET c == <<e, hand[e].dst>> IN
  /\ loop[e] = "got"
  /\ c \in listed
  /\ Len(ack[c]) = AckSize
  /\ loop' = [loop EXCEPT ![e] = "recv"]
  /\ Transmit(e, Packed("Close", hand[e].dst, hand[e].src, 0))
  /\ UNCHANGED <<autoinc, listed, remote, ack, raw, pc, copying, wrote, read, accepting,
                 closing, hand, up>>

\* The channel was closed since the connection was found: the send panics and the
\* process is gone.
Panic(e) ==
  /\ loop[e] = "got"
  /\ <<e, hand[e].dst>> \notin listed
  /\ loop' = [loop EXCEPT ![e] = "panicked"]
  /\ up' = FALSE
  /\ net' = [x \in Ends |-> <<>>]
  /\ UNCHANGED <<autoinc, listed, remote, ack, raw, pc, copying, wrote, read, accepting,
                 closing, hand>>

\* The goroutine of a Close packet.
CloseByPeer(e, i) ==
  /\ Alive(e)
  /\ i \in closing[e]
  /\ closing' = [closing EXCEPT ![e] = @ \ {i}]
  /\ Unlist({<<e, i>>})
  /\ UNCHANGED <<autoinc, remote, ack, pc, copying, wrote, read, net, accepting, loop, hand, up>>

TunnelLost ==
  /\ Lossy
  /\ up
  /\ up' = FALSE
  /\ net' = [x \in Ends |-> <<>>]
  /\ UNCHANGED <<autoinc, listed, remote, ack, raw, pc, copying, wrote, read, accepting,
                 closing, loop, hand>>

\* RouteTable.Disconnect: tunnelClose flushes the table, once, after the loop.
Flush(e) ==
  /\ ~up
  /\ loop[e] = "recv"
  /\ loop' = [loop EXCEPT ![e] = "flushed"]
  /\ Unlist({e} \X CIDs)
  /\ UNCHANGED <<autoinc, remote, ack, pc, copying, wrote, read, net, accepting, closing, hand, up>>
-----------------------------------------------------------------------------
OpenStep(k)   == Pending(k) \/ SendOpen(k) \/ Opened(k) \/ OpenFails(k)
UseStep(k)    == DialerWrites(k) \/ DialerReads(k) \/ DialerCloses(k)
CloseStep(c)  == Close(c) \/ SendClose(c)
AcceptStep(r) == DialFails(r) \/ DialSucceeds(r) \/ StartCopying(r) \/ CopyingEnds(r)
CopyStep(r)   == CopyIn(r) \/ CopyInEnds(r) \/ CopyOut(r) \/ CopyOutEnds(r)

RecvStep(e) ==
  \/ RecvOpen(e) \/ RecvClose(e) \/ RecvData(e) \/ RecvUnknown(e)
  \/ Deliver(e) \/ DropFull(e) \/ Panic(e)

Next ==
  \/ \E k \in CIDs : OpenStep(k) \/ UseStep(k) \/ Accept(k) \/ AcceptStep(k) \/ CopyStep(k)
  \/ \E c \in Conns : CloseStep(c)
  \/ \E e \in Ends : RecvStep(e) \/ Flush(e)
  \/ \E e \in Ends, i \in 0 .. MaxDials : CloseByPeer(e, i)
  \/ TunnelLost

Spec == Init /\ [][Next]_vars

\* Go runs every goroutine that can run, streams deliver or break, and the dial of
\* accept returns.  Nothing is assumed about the service behind the acceptor nor
\* about the users of dialled connections.
Fairness ==
  /\ \A e \in Ends : WF_vars(RecvStep(e)) /\ WF_vars(Flush(e))
  /\ \A e \in Ends, i \in 0 .. MaxDials : WF_vars(CloseByPeer(e, i))
  /\ \A c \in Conns : WF_vars(CloseStep(c))
  /\ \A k \in CIDs : WF_vars(SendOpen(k)) /\ WF_vars(Accept(k))
  /\ \A r \in CIDs :
       /\ WF_vars(AcceptStep(r))
       /\ WF_vars(CopyIn(r) \/ CopyInEnds(r))
       /\ WF_vars(raw[Accepted(r)] = "closed" /\ CopyOutEnds(r))

FairSpec == Spec /\ Fairness
-----------------------------------------------------------------------------
(* Properties                                                               *)

TypeOK ==
  /\ autoinc \in [Ends -> 0 .. MaxDials]
  /\ listed \in SUBSET Conns
  /\ remote \in [Conns -> 0 .. MaxDials]
  /\ ack \in [Conns -> Seq(Payload)]
  /\ \A c \in Conns : Len(ack[c]) <= AckSize
  /\ raw \in [Conns -> {"none", "open", "late", "closed"}]
  /\ pc \in [Conns -> PCs]
  /\ copying \in [Conns -> SUBSET {"in", "out"}]
  /\ wrote \in [Conns -> 0 .. MaxData]
  /\ read \in [Conns -> Seq(Payload)]
  /\ net \in [Ends -> Seq(Packet)]
  /\ accepting \in SUBSET CIDs
  /\ closing \in [Ends -> SUBSET (0 .. MaxDials)]
  /\ loop \in [Ends -> {"recv", "got", "flushed", "panicked"}]
  /\ hand \in [Ends -> Payload]
  /\ up \in BOOLEAN

\* What a connection has received, read or not.
Received(c) == read[c] \o ack[c]

\* Whatever order the accept goroutines begin in, and whoever's Close removes which
\* connection, a connection only ever receives what was written on the connection
\* at the other end that names it as its peer (accept, opened, recv).
NoCrossTalk ==
  \A c \in Conns : \A i \in DOMAIN Received(c) :
    LET p == Received(c)[i] IN
    /\ remote[c] \in {0, p.src}
    /\ remote[Other(c, p.src)] \in {0, c[2]}
    /\ pc[Other(c, p.src)] # "none"

\* "it must recv as it's order,do not go": payloads are received in the order they
\* were written and at most once, and a dialled connection receives the
\* acknowledgement first, the one payload that Open keeps for itself.
InOrder ==
  /\ \A c \in Conns : \A i, j \in DOMAIN Received(c) :
       i < j => Received(c)[i].n < Received(c)[j].n
  /\ \A k \in CIDs : \A i \in DOMAIN Received(Dialed(k)) :
       Received(Dialed(k))[i].n = 0 <=> i = 1

\* The first payload number of an end's connections.
First(e) == IF e = "dialer" THEN 0 ELSE 1

Gap(c) == \E i \in DOMAIN Received(c) : Received(c)[i].n # i - 1 + First(c[1])

\* A Close for a connection is on its way, or has been carried out.
ToldToClose(c) ==
  \/ c \notin listed
  \/ c[2] \in closing[c[1]]
  \/ \E i \in DOMAIN net[c[1]] : net[c[1]][i].kind = "Close" /\ net[c[1]][i].dst = c[2]

\* A stream with a hole in it, because a channel was full, is not kept up: the
\* connection that wrote it is closed or is being told to close (recv, localIn).
GapIsTold ==
  \A c \in Conns :
    up /\ Gap(c) => ToldToClose(Other(c, Head(Received(c)).src))

\* A connection whose Open or user is done with it stays in the dialer's table only
\* while the acceptor still has to send the Close that removes it: Close itself
\* looks under another id, so the table is kept clean by the other end alone.
LeftoverIsAwaited ==
  \A k \in CIDs :
    up /\ pc[Dialed(k)] = "done" =>
      \/ ToldToClose(Dialed(k))
      \/ k \in accepting
      \/ \E i \in DOMAIN net["acceptor"] :
           net["acceptor"][i].kind = "Open" /\ net["acceptor"][i].src = k
      \/ \E r \in CIDs : remote[Accepted(r)] = k /\ pc[Accepted(r)] # "done"

\* A connection that was removed before accepted noted its socket, which nobody will
\* close: the copy from it goes on until the service speaks or hangs up.
Orphaned(c) == raw[c] = "late"

\* When a dialled connection is closed by its user, the accepting end lets go of it:
\* accept returns, unless the Close overtook accepted's note of the socket or the
\* process is gone (Close, localIn, closeWihoutLock, accepted).
CloseReleasesPeer ==
  \A k, r \in CIDs :
    pc[Dialed(k)] = "sendclose" /\ remote[Dialed(k)] = r
      ~> \/ pc[Accepted(r)] = "done"
         \/ Orphaned(Accepted(r))
         \/ ~Alive("acceptor")
=============================================================================
