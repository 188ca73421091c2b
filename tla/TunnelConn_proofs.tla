--------------------------- MODULE TunnelConn_proofs ---------------------------
(***************************************************************************)
(* Payloads arrive on the connection they were written for, in order and   *)
(* once, for any number of connections and payloads and channels of any    *)
(* size.                                                                   *)
(***************************************************************************)
EXTENDS TunnelConn, FiniteSetTheorems, SequenceTheorems, TLAPS

-----------------------------------------------------------------------------
(* The inductive invariant                                                  *)

IsOpen(p) == p.kind = "Open"
IsData(p) == p.kind = "Data"
Started(k) == pc[Dialed(k)] \notin {"none", "opening"}
Unaccepted(k) == \A r \in CIDs : remote[Accepted(r)] # k

\* Open is sent once for every connection and accepted once: the packet, the
\* goroutine it starts, or the accepted connection.
OpenInv ==
  /\ \A i \in DOMAIN net["dialer"] : ~IsOpen(net["dialer"][i])
  /\ \A i \in DOMAIN net["acceptor"] : IsOpen(net["acceptor"][i]) =>
       LET k == net["acceptor"][i].src IN
       /\ k \in CIDs /\ Started(k) /\ k \notin accepting /\ Unaccepted(k)
       /\ \A j \in DOMAIN net["acceptor"] :
            i < j /\ IsOpen(net["acceptor"][j]) => net["acceptor"][j].src # k
  /\ \A k \in accepting : Started(k) /\ Unaccepted(k)

\* Accepted connections name different dialled ones, and a dialled connection
\* names the one that names it.
IdInv ==
  /\ \A r \in CIDs : remote[Accepted(r)] # 0 <=> r <= autoinc["acceptor"]
  /\ \A r \in CIDs : remote[Accepted(r)] = 0 => pc[Accepted(r)] = "none"
  /\ \A r \in CIDs : remote[Accepted(r)] # 0 =>
       /\ Started(remote[Accepted(r)]) /\ pc[Accepted(r)] # "none"
       /\ \A s \in CIDs : remote[Accepted(s)] = remote[Accepted(r)] => s = r
  /\ \A k \in CIDs : remote[Dialed(k)] # 0 =>
       remote[Accepted(remote[Dialed(k)])] = k /\ Started(k)

\* What a connection has done by where its goroutine is.
PhaseInv ==
  /\ \A k \in CIDs : pc[Dialed(k)] \in {"none", "opening", "waiting"} =>
       remote[Dialed(k)] = 0 /\ read[Dialed(k)] = <<>>
  /\ \A r \in CIDs : pc[Accepted(r)] \in {"none", "dialing"} => wrote[Accepted(r)] = 0
  /\ \A r \in CIDs : copying[Accepted(r)] # {} => pc[Accepted(r)] = "copy"
  /\ \A c \in listed : pc[c] # "none"

\* p, at end e or on its way to it, was written on a connection whose peer it is for.
Genuine(e, p) ==
  LET s == <<Peer(e), p.src>> IN
  /\ p.src \in CIDs /\ p.dst \in CIDs
  /\ remote[s] = p.dst
  /\ p.n <= wrote[s]
  /\ pc[s] \notin {"none", "dialing"}

\* The payloads for a connection: those received, the one in the loop's hand, and
\* those on their way, in order.
FlowNet(e) ==
  \A i \in DOMAIN net[e] : IsData(net[e][i]) =>
    /\ Genuine(e, net[e][i])
    /\ \A j \in DOMAIN net[e] :
         i < j /\ IsData(net[e][j]) /\ net[e][j].dst = net[e][i].dst => net[e][i].n < net[e][j].n

FlowHand(e) ==
  loop[e] = "got" =>
    /\ Genuine(e, hand[e])
    /\ \A j \in DOMAIN net[e] :
         IsData(net[e][j]) /\ net[e][j].dst = hand[e].dst => hand[e].n < net[e][j].n

FlowReceived(e, d) ==
  \A i \in DOMAIN Received(<<e, d>>) :
    LET p == Received(<<e, d>>)[i] IN
    /\ Genuine(e, p) /\ p.dst = d
    /\ \A j \in DOMAIN Received(<<e, d>>) : i < j => p.n < Received(<<e, d>>)[j].n
    /\ loop[e] = "got" /\ hand[e].dst = d => p.n < hand[e].n
    /\ \A j \in DOMAIN net[e] : IsData(net[e][j]) /\ net[e][j].dst = d => p.n < net[e][j].n

Flow(e) == FlowNet(e) /\ FlowHand(e) /\ \A d \in CIDs : FlowReceived(e, d)

\* The acknowledgement of k
HandAck(k) == loop["dialer"] = "got" /\ hand["dialer"].dst = k /\ hand["dialer"].n = 0
IsAck(p, k) == IsData(p) /\ p.dst = k /\ p.n = 0

\* It is received first: nothing overtakes it, and as long as nothing has been
\* received and the connection is there, it is on its way when other data is.
AckFirst(k) == Received(Dialed(k)) # <<>> => Received(Dialed(k))[1].n = 0

AckAhead(k) ==
  /\ loop["dialer"] = "got" /\ hand["dialer"].dst = k => hand["dialer"].n = 0
  /\ \A i \in DOMAIN net["dialer"] :
       IsData(net["dialer"][i]) /\ net["dialer"][i].dst = k /\ net["dialer"][i].n # 0
       => \/ HandAck(k)
          \/ \E j \in DOMAIN net["dialer"] : j < i /\ IsAck(net["dialer"][j], k)
  /\ \A r \in CIDs :
       up /\ remote[Accepted(r)] = k /\ pc[Accepted(r)] \in {"acked", "copy"}
       => \/ HandAck(k)
          \/ \E j \in DOMAIN net["dialer"] : IsAck(net["dialer"][j], k)

AckInv ==
  \A k \in CIDs :
    AckFirst(k) /\ (Dialed(k) \in listed /\ Received(Dialed(k)) = <<>> => AckAhead(k))

Inv ==
  /\ TypeOK /\ OpenInv /\ IdInv /\ PhaseInv
  /\ \A e \in Ends : Flow(e)
  /\ AckInv

-----------------------------------------------------------------------------
(* Sequences                                                                *)

LEMMA AppendSeq ==
  ASSUME NEW S, NEW q \in Seq(S), NEW x \in S
  PROVE  /\ Append(q, x) \in Seq(S) /\ Len(Append(q, x)) = Len(q) + 1
         /\ DOMAIN Append(q, x) = 1 .. Len(q) + 1 /\ DOMAIN q = 1 .. Len(q) /\ Len(q) \in Nat
         /\ \A i \in 1 .. Len(q) : Append(q, x)[i] = q[i]
         /\ Append(q, x)[Len(q) + 1] = x
  OBVIOUS

LEMMA TailSeq ==
  ASSUME NEW S, NEW q \in Seq(S), q # <<>>
  PROVE  /\ Tail(q) \in Seq(S) /\ Len(Tail(q)) = Len(q) - 1 /\ Len(q) \in Nat \ {0}
         /\ DOMAIN Tail(q) = 1 .. Len(q) - 1 /\ DOMAIN q = 1 .. Len(q)
         /\ \A i \in 1 .. Len(q) - 1 : Tail(q)[i] = q[i + 1]
         /\ Head(q) = q[1] /\ Head(q) \in S
  OBVIOUS

\* Reading a payload moves it from one sequence to the other.
LEMMA MoveOne ==
  ASSUME NEW S, NEW r \in Seq(S), NEW a \in Seq(S), a # <<>>
  PROVE  Append(r, Head(a)) \o Tail(a) = r \o a
<1>1. /\ Append(r, Head(a)) \in Seq(S) /\ Len(Append(r, Head(a))) = Len(r) + 1
      /\ Tail(a) \in Seq(S) /\ Len(Tail(a)) = Len(a) - 1 /\ Len(a) \in Nat \ {0} /\ Len(r) \in Nat
      /\ \A i \in 1 .. Len(r) : Append(r, Head(a))[i] = r[i]
      /\ Append(r, Head(a))[Len(r) + 1] = a[1]
      /\ \A i \in 1 .. Len(a) - 1 : Tail(a)[i] = a[i + 1]
  BY TailSeq, AppendSeq
<1>2. /\ Append(r, Head(a)) \o Tail(a) \in Seq(S) /\ r \o a \in Seq(S)
      /\ Len(Append(r, Head(a)) \o Tail(a)) = Len(r) + Len(a) /\ Len(r \o a) = Len(r) + Len(a)
  BY <1>1
<1>3. ASSUME NEW i \in 1 .. Len(r) + Len(a)
      PROVE  (Append(r, Head(a)) \o Tail(a))[i] = (r \o a)[i]
  BY <1>1
<1>4. QED
  BY <1>2, <1>3, SeqEqual

LEMMA AppendRight ==
  ASSUME NEW S, NEW r \in Seq(S), NEW a \in Seq(S), NEW x \in S
  PROVE  r \o Append(a, x) = Append(r \o a, x)
<1>1. r \o Append(a, x) \in Seq(S) /\ Append(r \o a, x) \in Seq(S)
      /\ Len(r \o Append(a, x)) = Len(r) + Len(a) + 1 /\ Len(Append(r \o a, x)) = Len(r) + Len(a) + 1
  OBVIOUS
<1>2. ASSUME NEW i \in 1 .. Len(r) + Len(a) + 1
      PROVE  (r \o Append(a, x))[i] = Append(r \o a, x)[i]
  OBVIOUS
<1>3. QED
  BY <1>1, <1>2, SeqEqual

-----------------------------------------------------------------------------
LEMMA InitInv == Init => Inv
<1> SUFFICES ASSUME Init PROVE Inv
  OBVIOUS
<1> USE TunnelConnAssumption
<1>1. TypeOK
  BY DEF Init, TypeOK, Ends, Conns, CIDs, Payload, Packet, PCs, NoPayload
<1>2. OpenInv
  BY DEF Init, OpenInv, Ends
<1>3. IdInv
  <2>1. \A r \in CIDs : /\ Accepted(r) \in Conns /\ Dialed(r) \in Conns
                        /\ r \in Nat /\ r > 0
    BY DEF Ends, Conns, CIDs, Accepted, Dialed
  <2>2. \A r \in CIDs : /\ remote[Accepted(r)] = 0 /\ remote[Dialed(r)] = 0
                        /\ pc[Accepted(r)] = "none"
    BY <2>1 DEF Init
  <2>3. autoinc["acceptor"] = 0
    BY DEF Init, Ends
  <2>4. QED
    BY <2>1, <2>2, <2>3 DEF IdInv
<1>4. PhaseInv
  BY DEF Init, PhaseInv, Ends, Conns, CIDs, Accepted, Dialed
<1>5. \A c \in Conns : Received(c) = <<>>
  BY DEF Init, Received
<1>6. \A e \in Ends, d \in CIDs : Received(<<e, d>>) = <<>>
  BY <1>5 DEF Conns
<1>7. ASSUME NEW e \in Ends PROVE Flow(e)
  BY <1>6 DEF Init, Flow, FlowNet, FlowHand, FlowReceived, Ends
<1>8. AckInv
  BY <1>6 DEF Init, AckInv, AckFirst, AckAhead, Ends, Dialed, Accepted, Conns
<1>9. QED
  BY <1>1, <1>2, <1>3, <1>4, <1>7, <1>8 DEF Inv

-----------------------------------------------------------------------------
(* Types                                                                    *)

LEMMA Named ==
  /\ Ends = {"dialer", "acceptor"} /\ Peer("dialer") = "acceptor" /\ Peer("acceptor") = "dialer"
  /\ \A k \in CIDs : /\ Dialed(k) \in Conns /\ Accepted(k) \in Conns /\ k \in Nat /\ k # 0
                     /\ Dialed(k)[1] = "dialer" /\ Dialed(k)[2] = k
                     /\ Accepted(k)[1] = "acceptor" /\ Accepted(k)[2] = k
                     /\ k \in 0 .. MaxDials
  /\ \A j, k \in CIDs : /\ Dialed(j) # Accepted(k)
                        /\ Dialed(j) = Dialed(k) => j = k
                        /\ Accepted(j) = Accepted(k) => j = k
  /\ \A c \in Conns : /\ c[1] \in Ends /\ c[2] \in CIDs
                      /\ c = Dialed(c[2]) \/ c = Accepted(c[2])
  /\ MaxDials \in Nat /\ MaxData \in Nat
<1>1. MaxDials \in Nat /\ MaxData \in Nat
  BY TunnelConnAssumption
<1>2. QED
  BY <1>1 DEF Ends, Peer, Conns, CIDs, Dialed, Accepted

\* There are as many accepted connections as Open packets that were received, so
\* one that is to be accepted finds an id.
LEMMA AcceptRoom ==
  ASSUME TypeOK, OpenInv, IdInv, NEW k \in accepting
  PROVE  autoinc["acceptor"] + 1 \in CIDs
<1> DEFINE n == autoinc["acceptor"]
           T == CIDs \ {k}
           f == [r \in 1 .. n |-> remote[Accepted(r)]]
<1>1. n \in 0 .. MaxDials /\ MaxDials \in Nat /\ k \in CIDs
  BY Named DEF TypeOK, Ends
<1>2. SUFFICES ASSUME n = MaxDials PROVE FALSE
  BY <1>1, <1>2 DEF CIDs
<1>3. 1 .. n = CIDs
  BY <1>2 DEF CIDs
<1>4. f \in [1 .. n -> T]
  <2>1. ASSUME NEW r \in CIDs PROVE remote[Accepted(r)] \in T
    <3>1. remote[Accepted(r)] # 0
      BY <1>2, <2>1 DEF IdInv, CIDs
    <3>2. remote[Accepted(r)] \in 0 .. MaxDials
      BY <2>1, Named DEF TypeOK
    <3>3. remote[Accepted(r)] # k
      BY <2>1 DEF OpenInv, Unaccepted
    <3>4. QED
      BY <1>1, <3>1, <3>2, <3>3 DEF CIDs
  <2>2. QED
    BY <1>3, <2>1
<1>5. IsFiniteSet(1 .. n) /\ Cardinality(1 .. n) = n
  <2>1. n \in Nat /\ n \in Int /\ 1 \in Int
    BY <1>1
  <2>2. IsFiniteSet(1 .. n) /\ Cardinality(1 .. n) = IF 1 > n THEN 0 ELSE n - 1 + 1
    BY <2>1, FS_Interval
  <2>3. QED
    BY <2>1, <2>2
<1>6. IsFiniteSet(T) /\ Cardinality(T) = n - 1
  BY <1>1, <1>3, <1>5, FS_RemoveElement
<1>7. PICK x, y \in 1 .. n : x # y /\ f[x] = f[y]
  <2>1. Cardinality(T) < Cardinality(1 .. n)
    BY <1>1, <1>5, <1>6
  <2> HIDE DEF f, T, n
  <2>2. QED
    BY <1>4, <1>5, <1>6, <2>1, FS_PigeonHole
<1>8. /\ x \in CIDs /\ y \in CIDs /\ x <= autoinc["acceptor"]
      /\ f[x] = remote[Accepted(x)] /\ f[y] = remote[Accepted(y)]
  BY <1>1, <1>3
<1>9. remote[Accepted(x)] # 0
  BY <1>8 DEF IdInv
<1>10. QED
  BY <1>7, <1>8, <1>9 DEF IdInv

LEMMA PacketType ==
  ASSUME NEW kind \in {"Open", "Data", "Close"}, NEW src \in 0 .. MaxDials,
         NEW dst \in 0 .. MaxDials, NEW n \in 0 .. MaxData
  PROVE  /\ Packed(kind, src, dst, n) \in Packet
         /\ Packed(kind, src, dst, n).kind = kind /\ Packed(kind, src, dst, n).src = src
         /\ Packed(kind, src, dst, n).dst = dst /\ Packed(kind, src, dst, n).n = n
  BY DEF Packed, Packet

\* What sending does to the packets under way
LEMMA Sent ==
  ASSUME TypeOK, NEW c \in Conns, NEW kind \in {"Open", "Data", "Close"}, NEW n \in 0 .. MaxData,
         SendPkt(c, kind, n)
  PROVE  /\ net' \in [Ends -> Seq(Packet)]
         /\ net'[c[1]] = net[c[1]]
         /\ net'[Peer(c[1])] = IF up THEN Append(net[Peer(c[1])], Packed(kind, c[2], remote[c], n))
                               ELSE net[Peer(c[1])]
<1>1. c[2] \in 0 .. MaxDials /\ remote[c] \in 0 .. MaxDials /\ c[1] \in Ends
  BY Named DEF TypeOK
<1>2. Packed(kind, c[2], remote[c], n) \in Packet
  BY <1>1, PacketType
<1>3. net \in [Ends -> Seq(Packet)]
  BY DEF TypeOK
<1>4. QED
  BY <1>1, <1>2, <1>3, Named DEF SendPkt, Transmit

LEMMA UnlistType ==
  ASSUME TypeOK, NEW gone, Unlist(gone)
  PROVE  listed' \in SUBSET Conns /\ raw' \in [Conns -> {"none", "open", "late", "closed"}]
  BY DEF TypeOK, Unlist

LEMMA DialerType ==
  ASSUME TypeOK, NEW k \in CIDs, OpenStep(k) \/ UseStep(k)
  PROVE  TypeOK'
<1> DEFINE c == Dialed(k)
<1>1. c \in Conns /\ k \in 0 .. MaxDials
  BY Named
<1>2. CASE Pending(k)
  BY <1>1, <1>2 DEF TypeOK, Pending, Ends, PCs
<1>3. CASE SendOpen(k)
  <2>1. net' \in [Ends -> Seq(Packet)]
    BY <1>1, <1>3, Sent, Named DEF SendOpen
  <2>2. QED
    BY <1>1, <1>3, <2>1 DEF TypeOK, SendOpen, PCs
<1>4. ack[c] # <<>> => /\ Head(ack[c]) \in Payload /\ Tail(ack[c]) \in Seq(Payload)
                       /\ Len(Tail(ack[c])) <= AckSize
  <2>1. ack[c] \in Seq(Payload) /\ Len(ack[c]) <= AckSize
    BY <1>1 DEF TypeOK
  <2>2. AckSize \in Nat
    BY TunnelConnAssumption
  <2>3. QED
    BY <2>1, <2>2, TailSeq
<1>5. CASE Opened(k)
  <2>1. Head(ack[c]).src \in 0 .. MaxDials /\ <<Head(ack[c])>> \in Seq(Payload)
    BY <1>4, <1>5, Named DEF Opened, Payload
  <2>2. QED
    BY <1>1, <1>4, <1>5, <2>1 DEF TypeOK, Opened, PCs
<1>6. CASE OpenFails(k)
  BY <1>1, <1>6 DEF TypeOK, OpenFails, PCs
<1>7. CASE DialerWrites(k)
  <2>1. wrote[c] + 1 \in 0 .. MaxData
    <3>1. wrote[c] \in Nat /\ MaxData \in Nat
      BY <1>1, Named DEF TypeOK
    <3>2. wrote[c] < MaxData
      BY <1>7 DEF DialerWrites
    <3>3. QED
      BY <3>1, <3>2
  <2>2. net' \in [Ends -> Seq(Packet)]
    BY <1>1, <1>7, <2>1, Sent DEF DialerWrites
  <2>3. QED
    BY <1>1, <1>7, <2>1, <2>2 DEF TypeOK, DialerWrites
<1>8. CASE DialerReads(k)
  <2>1. Append(read[c], Head(ack[c])) \in Seq(Payload)
    BY <1>1, <1>4, <1>8 DEF TypeOK, DialerReads
  <2>2. QED
    BY <1>1, <1>4, <1>8, <2>1 DEF TypeOK, DialerReads
<1>9. CASE DialerCloses(k)
  BY <1>1, <1>9 DEF TypeOK, DialerCloses, PCs
<1>10. QED
  BY <1>2, <1>3, <1>5, <1>6, <1>7, <1>8, <1>9 DEF OpenStep, UseStep

\* The steps that close connections, whoever takes them
CloseSteps ==
  \/ \E c \in Conns : CloseStep(c)
  \/ \E e \in Ends : Flush(e)
  \/ \E e \in Ends, i \in 0 .. MaxDials : CloseByPeer(e, i)

LEMMA AcceptorType ==
  ASSUME TypeOK, OpenInv, IdInv, NEW r \in CIDs, Accept(r) \/ AcceptStep(r) \/ CopyStep(r)
  PROVE  TypeOK'
<1> DEFINE c == Accepted(r)
<1>1. c \in Conns /\ r \in 0 .. MaxDials
  BY Named
<1>2. CASE Accept(r)
  <2> DEFINE s == autoinc["acceptor"] + 1
  <2>1. s \in CIDs
    BY <1>2, AcceptRoom DEF Accept
  <2>2. Accepted(s) \in Conns /\ s \in 0 .. MaxDials
    BY <2>1, Named
  <2>3. QED
    BY <1>1, <1>2, <2>2 DEF TypeOK, Accept, Ends, PCs
<1>3. CASE DialFails(r)
  <2>1. net' \in [Ends -> Seq(Packet)]
    BY <1>1, <1>3, Sent, Named DEF DialFails
  <2>2. QED
    BY <1>1, <1>3, <2>1 DEF TypeOK, DialFails, PCs
<1>4. CASE DialSucceeds(r)
  <2>1. net' \in [Ends -> Seq(Packet)]
    BY <1>1, <1>4, Sent, Named DEF DialSucceeds
  <2>2. QED
    BY <1>1, <1>4, <2>1 DEF TypeOK, DialSucceeds, PCs
<1>5. CASE StartCopying(r)
  BY <1>1, <1>5 DEF TypeOK, StartCopying, PCs
<1>6. CASE CopyingEnds(r)
  BY <1>1, <1>6 DEF TypeOK, CopyingEnds, PCs
<1>7. CASE CopyIn(r)
  <2>1. ack[c] \in Seq(Payload) /\ Len(ack[c]) <= AckSize /\ ack[c] # <<>>
    BY <1>1, <1>7 DEF TypeOK, CopyIn
  <2>2. Head(ack[c]) \in Payload /\ Tail(ack[c]) \in Seq(Payload) /\ Len(Tail(ack[c])) <= AckSize
    BY <2>1, TailSeq, TunnelConnAssumption
  <2>3. Append(read[c], Head(ack[c])) \in Seq(Payload)
    BY <1>1, <2>2 DEF TypeOK
  <2>4. copying' \in [Conns -> SUBSET {"in", "out"}]
    <3>1. copying' = [copying EXCEPT ![c] = @ \ {"in"}] \/ copying' = copying
      BY <1>7 DEF CopyIn
    <3>2. copying \in [Conns -> SUBSET {"in", "out"}]
      BY DEF TypeOK
    <3>3. copying[c] \ {"in"} \in SUBSET {"in", "out"}
      BY <1>1, <3>2
    <3> HIDE DEF c
    <3>4. QED
      BY <1>1, <3>1, <3>2, <3>3
  <2>5. /\ ack' = [ack EXCEPT ![c] = Tail(ack[c])]
        /\ read' = [read EXCEPT ![c] = Append(read[c], Head(ack[c]))]
        /\ UNCHANGED <<autoinc, listed, remote, raw, pc, wrote, net, accepting, closing,
                      loop, hand, up>>
    BY <1>7 DEF CopyIn
  <2>6. /\ ack' \in [Conns -> Seq(Payload)] /\ read' \in [Conns -> Seq(Payload)]
        /\ \A d \in Conns : Len(ack'[d]) <= AckSize
    BY <1>1, <2>2, <2>3, <2>5 DEF TypeOK
  <2>7. QED
    BY <2>4, <2>5, <2>6 DEF TypeOK
<1>8. CASE CopyInEnds(r)
  BY <1>1, <1>8 DEF TypeOK, CopyInEnds
<1>9. CASE CopyOut(r)
  <2>1. wrote[c] + 1 \in 0 .. MaxData
    <3>1. wrote[c] \in Nat /\ MaxData \in Nat
      BY <1>1, Named DEF TypeOK
    <3>2. wrote[c] < MaxData
      BY <1>9 DEF CopyOut
    <3>3. QED
      BY <3>1, <3>2
  <2>2. net' \in [Ends -> Seq(Packet)]
    BY <1>1, <1>9, <2>1, Sent DEF CopyOut
  <2>3. QED
    BY <1>1, <1>9, <2>1, <2>2 DEF TypeOK, CopyOut
<1>10. CASE CopyOutEnds(r)
  BY <1>1, <1>10 DEF TypeOK, CopyOutEnds
<1>11. QED
  BY <1>2, <1>3, <1>4, <1>5, <1>6, <1>7, <1>8, <1>9, <1>10 DEF AcceptStep, CopyStep

LEMMA OtherType ==
  ASSUME TypeOK, CloseSteps \/ TunnelLost
  PROVE  TypeOK'
<1>1. ASSUME NEW c \in Conns, Close(c) PROVE TypeOK'
  BY <1>1, UnlistType DEF TypeOK, Close, PCs
<1>2. ASSUME NEW c \in Conns, SendClose(c) PROVE TypeOK'
  <2>1. net' \in [Ends -> Seq(Packet)]
    BY <1>2, Sent, Named DEF SendClose
  <2>2. QED
    BY <1>2, <2>1 DEF TypeOK, SendClose, PCs
<1>3. ASSUME NEW e \in Ends, Flush(e) PROVE TypeOK'
  BY <1>3, UnlistType DEF TypeOK, Flush
<1>4. ASSUME NEW e \in Ends, NEW i \in 0 .. MaxDials, CloseByPeer(e, i) PROVE TypeOK'
  BY <1>4, UnlistType DEF TypeOK, CloseByPeer
<1>5. CASE TunnelLost
  <2>1. [x \in Ends |-> <<>>] \in [Ends -> Seq(Packet)]
    OBVIOUS
  <2>2. QED
    BY <1>5, <2>1 DEF TypeOK, TunnelLost
<1>6. QED
  BY <1>1, <1>2, <1>3, <1>4, <1>5 DEF CloseSteps, CloseStep

LEMMA ReceiverType ==
  ASSUME TypeOK, OpenInv, NEW e \in Ends, Flow(e), RecvStep(e)
  PROVE  TypeOK'
<1> DEFINE p == Head(net[e])
<1>1. net \in [Ends -> Seq(Packet)] /\ Peer(e) \in Ends /\ Peer(e) # e
  BY Named DEF TypeOK
<1>2. ASSUME net[e] # <<>>
      PROVE  /\ p \in Packet /\ Tail(net[e]) \in Seq(Packet)
             /\ p = net[e][1] /\ 1 \in DOMAIN net[e]
             /\ p.kind \in {"Open", "Data", "Close"}
             /\ p.src \in 0 .. MaxDials /\ p.dst \in 0 .. MaxDials /\ p.n \in 0 .. MaxData
  <2>1. net[e] \in Seq(Packet)
    BY <1>1
  <2>2. /\ Tail(net[e]) \in Seq(Packet) /\ p = net[e][1] /\ p \in Packet
        /\ DOMAIN net[e] = 1 .. Len(net[e]) /\ Len(net[e]) \in Nat \ {0}
    BY <1>2, <2>1, TailSeq
  <2>3. QED
    BY <2>2 DEF Packet
<1>3. CASE RecvOpen(e)
  <2>1. e = "acceptor" /\ p.src \in CIDs
    BY <1>2, <1>3, Named DEF RecvOpen, Receives, OpenInv, IsOpen
  <2>2. QED
    BY <1>1, <1>2, <1>3, <2>1 DEF TypeOK, RecvOpen, Taken, Receives
<1>4. CASE RecvClose(e)
  BY <1>1, <1>2, <1>4 DEF TypeOK, RecvClose, Taken, Receives
<1>5. CASE RecvData(e)
  <2>1. Genuine(e, p)
    BY <1>2, <1>5 DEF RecvData, Receives, Flow, FlowNet, IsData
  <2>2. [src |-> p.src, dst |-> p.dst, n |-> p.n] \in Payload
    BY <1>2, <1>5, <2>1 DEF Payload, Genuine, RecvData, Receives
  <2>3. QED
    <3>1. /\ net' \in [Ends -> Seq(Packet)]
          /\ hand' \in [Ends -> Payload]
      <4>1. net[e] # <<>> /\ net' = [net EXCEPT ![e] = Tail(@)]
        BY <1>5 DEF RecvData, Taken, Receives
      <4>2. net' \in [Ends -> Seq(Packet)]
        BY <1>1, <1>2, <4>1
      <4>3. hand' \in [Ends -> Payload]
        BY <1>5, <2>2 DEF TypeOK, RecvData
      <4>4. QED
        BY <4>2, <4>3
    <3>2. loop' \in [Ends -> {"recv", "got", "flushed", "panicked"}]
      BY <1>5 DEF TypeOK, RecvData
    <3>3. QED
      BY <1>5, <3>1, <3>2 DEF TypeOK, RecvData
<1>6. CASE RecvUnknown(e)
  <2>1. Packed("Close", p.dst, p.src, 0) \in Packet
    <3>1. net[e] # <<>>
      BY <1>6 DEF RecvUnknown, Receives
    <3>2. p.src \in 0 .. MaxDials /\ p.dst \in 0 .. MaxDials /\ 0 \in 0 .. MaxData
      BY <1>2, <3>1, Named
    <3>3. QED
      BY <3>2, PacketType
  <2>2. net' \in [Ends -> Seq(Packet)]
    <3>1. net[Peer(e)] \in Seq(Packet)
      BY <1>1
    <3>2. Append(net[Peer(e)], Packed("Close", p.dst, p.src, 0)) \in Seq(Packet)
      BY <2>1, <3>1, AppendSeq
    <3>3. QED
      BY <1>1, <1>2, <1>6, <3>2 DEF RecvUnknown, Receives, Answered
  <2>3. QED
    BY <1>6, <2>2 DEF TypeOK, RecvUnknown
<1>7. hand[e] \in Payload /\ hand[e].src \in 0 .. MaxDials /\ hand[e].dst \in 0 .. MaxDials
  BY Named DEF TypeOK, Payload
<1>8. CASE Deliver(e)
  <2> DEFINE c == <<e, hand[e].dst>>
  <2>1. c \in Conns /\ ack[c] \in Seq(Payload) /\ Len(ack[c]) < AckSize /\ AckSize \in Nat
    BY <1>8, TunnelConnAssumption DEF TypeOK, Deliver
  <2>2. Append(ack[c], hand[e]) \in Seq(Payload) /\ Len(Append(ack[c], hand[e])) <= AckSize
    BY <1>7, <2>1
  <2>3. QED
    BY <1>8, <2>1, <2>2 DEF TypeOK, Deliver
<1>9. CASE DropFull(e)
  <2>1. Packed("Close", hand[e].dst, hand[e].src, 0) \in Packet
    BY <1>7, Named, PacketType
  <2>2. net' \in [Ends -> Seq(Packet)]
    BY <1>1, <1>9, <2>1 DEF DropFull, Transmit
  <2>3. QED
    BY <1>9, <2>2 DEF TypeOK, DropFull
<1>10. CASE Panic(e)
  <2>1. [x \in Ends |-> <<>>] \in [Ends -> Seq(Packet)]
    OBVIOUS
  <2>2. QED
    BY <1>10, <2>1 DEF TypeOK, Panic
<1>11. QED
  BY <1>3, <1>4, <1>5, <1>6, <1>8, <1>9, <1>10 DEF RecvStep

LEMMA TypeStep ==
  ASSUME Inv, [Next]_vars
  PROVE  TypeOK'
<1>1. CASE UNCHANGED vars
  BY <1>1 DEF Inv, TypeOK, vars
<1>2. ASSUME NEW k \in CIDs, OpenStep(k) \/ UseStep(k) PROVE TypeOK'
  BY <1>2, DialerType DEF Inv
<1>3. ASSUME NEW k \in CIDs, Accept(k) \/ AcceptStep(k) \/ CopyStep(k) PROVE TypeOK'
  BY <1>3, AcceptorType DEF Inv
<1>4. ASSUME NEW e \in Ends, RecvStep(e) PROVE TypeOK'
  BY <1>4, ReceiverType DEF Inv
<1>5. CASE CloseSteps \/ TunnelLost
  BY <1>5, OtherType DEF Inv
<1>6. QED
  BY <1>1, <1>2, <1>3, <1>4, <1>5 DEF Next, CloseSteps

-----------------------------------------------------------------------------
(* What no step undoes                                                      *)

\* A connection that is there stays, keeps the peer it knows, and counts its payloads up.
Steady ==
  \A c \in Conns :
    /\ pc[c] # "none" => pc'[c] # "none"
    /\ pc[c] \notin {"none", "opening"} => pc'[c] \notin {"none", "opening"}
    /\ pc[c] \notin {"none", "dialing"} => pc'[c] \notin {"none", "dialing"}
    /\ remote[c] # 0 => remote'[c] = remote[c]
    /\ wrote[c] <= wrote'[c]

\* No connection learns its peer.
SameIds ==
  /\ remote' = remote
  /\ autoinc'["acceptor"] = autoinc["acceptor"]
  /\ \A r \in CIDs : pc[Accepted(r)] = "none" => pc'[Accepted(r)] = "none"

\* The id of the connection that an Open packet is accepted on
LEMMA Accepting ==
  ASSUME Inv, NEW k \in CIDs, Accept(k), NEW r, r = autoinc["acceptor"] + 1
  PROVE  /\ r \in CIDs /\ Accepted(r) \in Conns
         /\ remote[Accepted(r)] = 0 /\ pc[Accepted(r)] = "none"
         /\ remote' = [remote EXCEPT ![Accepted(r)] = k]
         /\ pc' = [pc EXCEPT ![Accepted(r)] = "dialing"]
         /\ autoinc'["acceptor"] = r
         /\ Started(k) /\ Unaccepted(k)
<1>1. r \in CIDs
  BY AcceptRoom DEF Inv, Accept
<1>2. autoinc["acceptor"] \in Nat /\ r > autoinc["acceptor"] /\ autoinc \in [Ends -> 0 .. MaxDials]
  BY Named DEF Inv, TypeOK
<1>3. remote[Accepted(r)] = 0 /\ pc[Accepted(r)] = "none"
  BY <1>1, <1>2 DEF Inv, IdInv
<1>4. QED
  BY <1>1, <1>2, <1>3, Named DEF Accept, Inv, OpenInv

LEMMA SteadyStep ==
  ASSUME Inv, [Next]_vars
  PROVE  Steady /\ (SameIds \/ \E k \in CIDs : Accept(k) \/ Opened(k))
<1> DEFINE Goal == Steady /\ (SameIds \/ \E k \in CIDs : Accept(k) \/ Opened(k))
<1> USE Named DEF Steady, SameIds
<1>1. /\ \A c \in Conns : wrote[c] \in Nat
      /\ remote \in [Conns -> 0 .. MaxDials] /\ pc \in [Conns -> PCs]
      /\ wrote \in [Conns -> 0 .. MaxData] /\ autoinc \in [Ends -> 0 .. MaxDials]
  BY DEF Inv, TypeOK
<1>2. CASE UNCHANGED vars
  BY <1>1, <1>2 DEF vars
<1>3. ASSUME NEW k \in CIDs, OpenStep(k) PROVE Goal
  <2>1. CASE Pending(k)
    BY <1>1, <2>1 DEF Pending
  <2>2. CASE SendOpen(k)
    BY <1>1, <2>2 DEF SendOpen
  <2>3. CASE Opened(k)
    <3>1. remote[Dialed(k)] = 0
      BY <2>3 DEF Opened, Inv, PhaseInv
    <3>2. Steady
      BY <1>1, <2>3, <3>1 DEF Opened
    <3>3. QED
      BY <2>3, <3>2
  <2>4. CASE OpenFails(k)
    BY <1>1, <2>4 DEF OpenFails
  <2>5. QED
    BY <1>3, <2>1, <2>2, <2>3, <2>4 DEF OpenStep
<1>4. ASSUME NEW k \in CIDs, UseStep(k) PROVE Goal
  <2>1. CASE DialerWrites(k)
    BY <1>1, <2>1 DEF DialerWrites
  <2>2. CASE DialerReads(k)
    BY <1>1, <2>2 DEF DialerReads
  <2>3. CASE DialerCloses(k)
    BY <1>1, <2>3 DEF DialerCloses
  <2>4. QED
    BY <1>4, <2>1, <2>2, <2>3 DEF UseStep
<1>5. ASSUME NEW c \in Conns, CloseStep(c) PROVE Goal
  <2>1. CASE Close(c)
    BY <1>1, <2>1 DEF Close
  <2>2. CASE SendClose(c)
    BY <1>1, <2>2 DEF SendClose
  <2>3. QED
    BY <1>5, <2>1, <2>2 DEF CloseStep
<1>6. ASSUME NEW k \in CIDs, Accept(k) PROVE Goal
  <2> DEFINE a == Accepted(autoinc["acceptor"] + 1)
  <2>1. /\ a \in Conns /\ remote[a] = 0 /\ pc[a] = "none"
        /\ remote' = [remote EXCEPT ![a] = k] /\ pc' = [pc EXCEPT ![a] = "dialing"]
    BY <1>6, Accepting
  <2>2. wrote' = wrote
    BY <1>6 DEF Accept
  <2> HIDE DEF a
  <2>3. Steady
    BY <1>1, <2>1, <2>2
  <2>4. QED
    BY <1>6, <2>3
<1>7. ASSUME NEW r \in CIDs, AcceptStep(r) PROVE Goal
  <2>1. CASE DialFails(r)
    BY <1>1, <2>1 DEF DialFails
  <2>2. CASE DialSucceeds(r)
    BY <1>1, <2>2 DEF DialSucceeds
  <2>3. CASE StartCopying(r)
    BY <1>1, <2>3 DEF StartCopying
  <2>4. CASE CopyingEnds(r)
    BY <1>1, <2>4 DEF CopyingEnds
  <2>5. QED
    BY <1>7, <2>1, <2>2, <2>3, <2>4 DEF AcceptStep
<1>8. ASSUME NEW r \in CIDs, CopyStep(r) PROVE Goal
  <2>1. CASE CopyIn(r)
    BY <1>1, <2>1 DEF CopyIn
  <2>2. CASE CopyInEnds(r)
    BY <1>1, <2>2 DEF CopyInEnds
  <2>3. CASE CopyOut(r)
    BY <1>1, <2>3 DEF CopyOut
  <2>4. CASE CopyOutEnds(r)
    BY <1>1, <2>4 DEF CopyOutEnds
  <2>5. QED
    BY <1>8, <2>1, <2>2, <2>3, <2>4 DEF CopyStep
<1>9. ASSUME NEW e \in Ends, RecvStep(e) \/ Flush(e) PROVE Goal
  <2>1. UNCHANGED <<autoinc, remote, pc, wrote>>
    BY <1>9 DEF RecvStep, RecvOpen, RecvClose, RecvData, RecvUnknown, Deliver, DropFull,
                Panic, Flush
  <2>2. QED
    BY <1>1, <2>1
<1>10. ASSUME NEW e \in Ends, NEW i \in 0 .. MaxDials, CloseByPeer(e, i) PROVE Goal
  BY <1>1, <1>10 DEF CloseByPeer
<1>11. CASE TunnelLost
  BY <1>1, <1>11 DEF TunnelLost
<1>12. QED
  BY <1>2, <1>3, <1>4, <1>5, <1>6, <1>7, <1>8, <1>9, <1>10, <1>11 DEF Next

\* What was written on a connection for its peer remains so.
StillGenuine(e, p) ==
  LET s == <<Peer(e), p.src>> IN
  /\ p.src \in CIDs /\ p.dst \in CIDs
  /\ remote'[s] = p.dst
  /\ p.n <= wrote'[s]
  /\ pc'[s] \notin {"none", "dialing"}

LEMMA StaysGenuine ==
  ASSUME Inv, Steady, TypeOK', NEW e \in Ends, NEW p, p.n \in Nat, Genuine(e, p)
  PROVE  StillGenuine(e, p)
<1> DEFINE s == <<Peer(e), p.src>>
<1>1. s \in Conns /\ p.dst # 0
  BY Named DEF Genuine, Conns, CIDs
<1>2. wrote[s] \in Nat /\ wrote'[s] \in Nat
  BY <1>1, Named DEF Inv, TypeOK
<1>3. QED
  BY <1>1, <1>2 DEF Steady, Genuine, StillGenuine

-----------------------------------------------------------------------------
(* Who names whom                                                           *)

\* The acknowledgement names the connection that names this one.
LEMMA Acknowledged ==
  ASSUME Inv, NEW k \in CIDs, Opened(k)
  PROVE  /\ Head(ack[Dialed(k)]).src \in CIDs
         /\ remote[Accepted(Head(ack[Dialed(k)]).src)] = k
<1> DEFINE c == Dialed(k)
<1>1. c \in Conns /\ c = <<"dialer", k>> /\ "dialer" \in Ends /\ Peer("dialer") = "acceptor"
  BY Named DEF Dialed
<1>2. ack[c] \in Seq(Payload) /\ ack[c] # <<>> /\ read[c] = <<>>
  BY <1>1 DEF Inv, TypeOK, PhaseInv, Opened
<1>3. Received(c) = ack[c]
  BY <1>2 DEF Received
<1>4. Head(ack[c]) = Received(c)[1] /\ 1 \in DOMAIN Received(c)
  BY <1>2, <1>3, TailSeq
<1>5. Genuine("dialer", Head(ack[c])) /\ Head(ack[c]).dst = k
  BY <1>1, <1>4 DEF Inv, Flow, FlowReceived
<1>6. QED
  BY <1>1, <1>5 DEF Genuine, Accepted

LEMMA IdStep ==
  ASSUME Inv, [Next]_vars, TypeOK'
  PROVE  IdInv'
<1>1. Steady /\ (SameIds \/ \E k \in CIDs : Accept(k) \/ Opened(k))
  BY SteadyStep
<1>2. /\ \A k \in CIDs : Started(k) => pc'[Dialed(k)] \notin {"none", "opening"}
      /\ \A r \in CIDs : pc[Accepted(r)] # "none" => pc'[Accepted(r)] # "none"
      /\ \A r \in CIDs : remote[Accepted(r)] \in 0 .. MaxDials /\ remote[Dialed(r)] \in 0 .. MaxDials
      /\ remote \in [Conns -> 0 .. MaxDials] /\ pc \in [Conns -> PCs]
  BY <1>1, Named DEF Steady, Started, Inv, TypeOK
<1>3. IdInv
  BY DEF Inv
<1>4. CASE SameIds
  <2>1. \A r \in CIDs : /\ remote[Accepted(r)] # 0 => remote[Accepted(r)] \in CIDs
                        /\ remote[Dialed(r)] # 0 => remote[Dialed(r)] \in CIDs
    BY <1>2, Named DEF CIDs
  <2>2. \A r \in CIDs : remote[Accepted(r)] = 0 => pc'[Accepted(r)] = "none"
    BY <1>3, <1>4 DEF IdInv, SameIds
  <2>3. \A r \in CIDs : remote[Accepted(r)] # 0 =>
          /\ pc'[Dialed(remote[Accepted(r)])] \notin {"none", "opening"}
          /\ pc'[Accepted(r)] # "none"
    BY <1>2, <1>3, <2>1 DEF IdInv
  <2>4. \A k \in CIDs : remote[Dialed(k)] # 0 =>
          /\ remote[Accepted(remote[Dialed(k)])] = k
          /\ pc'[Dialed(k)] \notin {"none", "opening"}
    BY <1>2, <1>3, <2>1 DEF IdInv
  <2>5. QED
    BY <1>3, <1>4, <2>2, <2>3, <2>4 DEF IdInv, SameIds, Started
<1>5. ASSUME NEW k \in CIDs, Accept(k) PROVE IdInv'
  <2> DEFINE r == autoinc["acceptor"] + 1
  <2>1. /\ r \in CIDs /\ Accepted(r) \in Conns
        /\ remote[Accepted(r)] = 0 /\ pc[Accepted(r)] = "none"
        /\ remote' = [remote EXCEPT ![Accepted(r)] = k]
        /\ pc' = [pc EXCEPT ![Accepted(r)] = "dialing"]
        /\ autoinc'["acceptor"] = r
        /\ Started(k) /\ Unaccepted(k)
    BY <1>5, Accepting
  <2>2. autoinc["acceptor"] \in Nat
    BY Named DEF Inv, TypeOK
  <2>3. /\ \A s \in CIDs : s # r => /\ remote'[Accepted(s)] = remote[Accepted(s)]
                                    /\ pc'[Accepted(s)] = pc[Accepted(s)]
        /\ remote'[Accepted(r)] = k /\ pc'[Accepted(r)] = "dialing" /\ k # 0
        /\ \A j \in CIDs : remote'[Dialed(j)] = remote[Dialed(j)]
    BY <1>2, <2>1, Named
  <2>4. \A s \in CIDs : s \in Nat /\ (s <= r <=> s = r \/ s <= autoinc["acceptor"])
    BY <2>2, Named
  <2> HIDE DEF r
  <2>5. \A s \in CIDs : remote'[Accepted(s)] # 0 <=> s <= autoinc'["acceptor"]
    BY <1>3, <2>1, <2>3, <2>4 DEF IdInv
  <2>6. \A s \in CIDs : remote'[Accepted(s)] = 0 => pc'[Accepted(s)] = "none"
    BY <1>3, <2>3 DEF IdInv
  <2>7. \A s \in CIDs : remote'[Accepted(s)] # 0 =>
          /\ pc'[Dialed(remote'[Accepted(s)])] \notin {"none", "opening"}
          /\ pc'[Accepted(s)] # "none"
    <3>1. ASSUME NEW s \in CIDs, remote'[Accepted(s)] # 0, s # r
          PROVE  /\ pc'[Dialed(remote'[Accepted(s)])] \notin {"none", "opening"}
                 /\ pc'[Accepted(s)] # "none"
      <4>1. remote[Accepted(s)] \in CIDs /\ Started(remote[Accepted(s)]) /\ pc[Accepted(s)] # "none"
        BY <1>2, <1>3, <2>3, <3>1, Named DEF IdInv, CIDs
      <4>2. QED
        BY <1>2, <2>3, <3>1, <4>1
    <3>2. QED
      BY <1>2, <2>1, <2>3, <3>1
  <2>8. \A s, t \in CIDs : remote'[Accepted(s)] # 0 /\ remote'[Accepted(t)] = remote'[Accepted(s)] => t = s
    <3>1. \A s \in CIDs : remote[Accepted(s)] # k
      BY <2>1 DEF Unaccepted
    <3>2. QED
      BY <1>3, <2>3, <3>1 DEF IdInv
  <2>9. \A j \in CIDs : remote'[Dialed(j)] # 0 =>
          /\ remote'[Accepted(remote'[Dialed(j)])] = j
          /\ pc'[Dialed(j)] \notin {"none", "opening"}
    <3>1. ASSUME NEW j \in CIDs, remote[Dialed(j)] # 0
          PROVE  /\ remote[Dialed(j)] \in CIDs /\ remote[Accepted(remote[Dialed(j)])] = j
                 /\ remote[Accepted(remote[Dialed(j)])] # 0 /\ Started(j)
      BY <1>2, <1>3, <3>1, Named DEF IdInv, CIDs
    <3>2. QED
      BY <1>2, <2>1, <2>3, <3>1
  <2>10. QED
    BY <2>5, <2>6, <2>7, <2>8, <2>9 DEF IdInv, Started
<1>6. ASSUME NEW k \in CIDs, Opened(k) PROVE IdInv'
  <2> DEFINE s == Head(ack[Dialed(k)]).src
  <2>1. s \in CIDs /\ remote[Accepted(s)] = k
    BY <1>6, Acknowledged
  <2>2. /\ remote' = [remote EXCEPT ![Dialed(k)] = s] /\ pc' = [pc EXCEPT ![Dialed(k)] = "open"]
        /\ autoinc' = autoinc
    BY <1>6 DEF Opened
  <2> HIDE DEF s
  <2>3. /\ \A r \in CIDs : /\ remote'[Accepted(r)] = remote[Accepted(r)]
                           /\ pc'[Accepted(r)] = pc[Accepted(r)]
        /\ remote'[Dialed(k)] = s /\ Started(k)'
        /\ \A j \in CIDs : j # k => remote'[Dialed(j)] = remote[Dialed(j)]
    BY <1>2, <2>2, Named DEF Started
  <2>4. \A r \in CIDs : remote[Accepted(r)] # 0 => remote[Accepted(r)] \in CIDs
    BY <1>2, Named DEF CIDs
  <2>5. \A j \in CIDs : remote[Dialed(j)] # 0 => remote[Dialed(j)] \in CIDs
    BY <1>2, Named DEF CIDs
  <2>6. \A r \in CIDs : remote[Accepted(r)] # 0 =>
          /\ pc'[Dialed(remote[Accepted(r)])] \notin {"none", "opening"}
          /\ pc[Accepted(r)] # "none"
          /\ \A t \in CIDs : remote[Accepted(t)] = remote[Accepted(r)] => t = r
    BY <1>2, <1>3, <2>4 DEF IdInv
  <2>7. \A j \in CIDs : remote[Dialed(j)] # 0 =>
          /\ remote[Accepted(remote[Dialed(j)])] = j
          /\ pc'[Dialed(j)] \notin {"none", "opening"}
    BY <1>2, <1>3 DEF IdInv
  <2>8. s # 0 /\ pc'[Dialed(k)] \notin {"none", "opening"}
    BY <2>1, <2>3, Named DEF Started
  <2>9. \A j \in CIDs : remote'[Dialed(j)] # 0 =>
          /\ remote'[Accepted(remote'[Dialed(j)])] = j
          /\ pc'[Dialed(j)] \notin {"none", "opening"}
    BY <2>1, <2>3, <2>5, <2>7, <2>8
  <2>10. \A r \in CIDs : /\ remote'[Accepted(r)] # 0 <=> r <= autoinc'["acceptor"]
                         /\ remote'[Accepted(r)] = 0 => pc'[Accepted(r)] = "none"
    BY <1>3, <2>2, <2>3 DEF IdInv
  <2>11. QED
    BY <2>3, <2>6, <2>9, <2>10 DEF IdInv, Started
<1>7. QED
  BY <1>1, <1>4, <1>5, <1>6

-----------------------------------------------------------------------------
(* Where the goroutines are                                                 *)

LEMMA PhaseStep ==
  ASSUME Inv, [Next]_vars
  PROVE  PhaseInv'
<1> USE Named DEF PhaseInv
<1>1. /\ remote \in [Conns -> 0 .. MaxDials] /\ pc \in [Conns -> PCs] /\ listed \in SUBSET Conns
      /\ wrote \in [Conns -> 0 .. MaxData] /\ read \in [Conns -> Seq(Payload)]
      /\ copying \in [Conns -> SUBSET {"in", "out"}]
  BY DEF Inv, TypeOK
<1>2. PhaseInv
  BY DEF Inv
<1>3. CASE UNCHANGED vars
  BY <1>1, <1>2, <1>3 DEF vars
<1>4. ASSUME NEW k \in CIDs, OpenStep(k) PROVE PhaseInv'
  <2>1. CASE Pending(k)
    <3> DEFINE d == Dialed(k)
    <3>1. /\ pc[d] = "none" /\ pc' = [pc EXCEPT ![d] = "opening"]
          /\ listed' = listed \cup {d}
          /\ UNCHANGED <<remote, read, wrote, copying>>
      BY <2>1 DEF Pending
    <3>2. pc'[d] = "opening" /\ \A b \in Conns : b # d => pc'[b] = pc[b]
      BY <1>1, <3>1
    <3>3. remote[d] = 0 /\ read[d] = <<>>
      BY <1>2, <3>1
    <3>4. \A j \in CIDs : Accepted(j) \in Conns /\ Accepted(j) # d
      BY DEF Accepted, Dialed
    <3>5. \A b \in listed' : pc'[b] # "none"
      BY <1>1, <1>2, <3>1, <3>2
    <3>6. \A j \in CIDs : pc'[Dialed(j)] \in {"none", "opening", "waiting"}
                           => remote[Dialed(j)] = 0 /\ read[Dialed(j)] = <<>>
      BY <1>2, <3>2, <3>3
    <3>7. QED
      BY <1>2, <3>1, <3>2, <3>4, <3>5, <3>6
  <2>2. CASE SendOpen(k)
    BY <1>1, <1>2, <2>2 DEF SendOpen
  <2>3. CASE Opened(k)
    BY <1>1, <1>2, <2>3 DEF Opened
  <2>4. CASE OpenFails(k)
    BY <1>1, <1>2, <2>4 DEF OpenFails
  <2>5. QED
    BY <1>4, <2>1, <2>2, <2>3, <2>4 DEF OpenStep
<1>5. ASSUME NEW k \in CIDs, UseStep(k) PROVE PhaseInv'
  <2>1. CASE DialerWrites(k)
    BY <1>1, <1>2, <2>1 DEF DialerWrites
  <2>2. CASE DialerReads(k)
    BY <1>1, <1>2, <2>2 DEF DialerReads
  <2>3. CASE DialerCloses(k)
    BY <1>1, <1>2, <2>3 DEF DialerCloses
  <2>4. QED
    BY <1>5, <2>1, <2>2, <2>3 DEF UseStep
<1>6. ASSUME NEW c \in Conns, CloseStep(c) PROVE PhaseInv'
  <2>1. CASE Close(c)
    BY <1>1, <1>2, <2>1 DEF Close, Unlist
  <2>2. CASE SendClose(c)
    BY <1>1, <1>2, <2>2 DEF SendClose
  <2>3. QED
    BY <1>6, <2>1, <2>2 DEF CloseStep
<1>7. ASSUME NEW k \in CIDs, Accept(k) PROVE PhaseInv'
  <2>1. PICK n : n = autoinc["acceptor"] + 1
    OBVIOUS
  <2> DEFINE a == Accepted(n)
  <2>2. /\ n \in CIDs /\ a \in Conns /\ pc[a] = "none"
        /\ remote' = [remote EXCEPT ![a] = k] /\ pc' = [pc EXCEPT ![a] = "dialing"]
    BY <1>7, <2>1, Accepting
  <2>3. listed' = listed \cup {a} /\ UNCHANGED <<read, wrote, copying>>
    BY <1>7, <2>1 DEF Accept
  <2>4. wrote[a] = 0 /\ copying[a] = {}
    BY <1>2, <2>2
  <2>5. pc'[a] = "dialing" /\ \A b \in Conns : b # a => pc'[b] = pc[b] /\ remote'[b] = remote[b]
    BY <1>1, <2>2
  <2>6. \A j \in CIDs : Dialed(j) \in Conns /\ Dialed(j) # a /\ Accepted(j) \in Conns
    BY <2>2
  <2> HIDE DEF a
  <2>7. \A j \in CIDs : pc'[Dialed(j)] \in {"none", "opening", "waiting"}
                       => remote'[Dialed(j)] = 0 /\ read'[Dialed(j)] = <<>>
    BY <1>2, <2>3, <2>5, <2>6
  <2>8. \A j \in CIDs : pc'[Accepted(j)] \in {"none", "dialing"} => wrote'[Accepted(j)] = 0
    BY <1>2, <2>3, <2>4, <2>5, <2>6
  <2>9. \A j \in CIDs : copying'[Accepted(j)] # {} => pc'[Accepted(j)] = "copy"
    BY <1>2, <2>3, <2>4, <2>5, <2>6
  <2>10. \A c \in listed' : pc'[c] # "none"
    BY <1>1, <1>2, <2>3, <2>5
  <2>11. QED
    BY <2>7, <2>8, <2>9, <2>10
<1>8. ASSUME NEW r \in CIDs, AcceptStep(r) PROVE PhaseInv'
  <2>1. CASE DialFails(r)
    BY <1>1, <1>2, <2>1 DEF DialFails
  <2>2. CASE DialSucceeds(r)
    BY <1>1, <1>2, <2>2 DEF DialSucceeds
  <2>3. CASE StartCopying(r)
    BY <1>1, <1>2, <2>3 DEF StartCopying
  <2>4. CASE CopyingEnds(r)
    BY <1>1, <1>2, <2>4 DEF CopyingEnds
  <2>5. QED
    BY <1>8, <2>1, <2>2, <2>3, <2>4 DEF AcceptStep
<1>9. ASSUME NEW r \in CIDs, CopyStep(r) PROVE PhaseInv'
  <2>1. CASE CopyIn(r)
    <3> DEFINE a == Accepted(r)
    <3>1. /\ read' = [read EXCEPT ![a] = Append(read[a], Head(ack[a]))]
          /\ UNCHANGED <<pc, remote, wrote, listed>>
      BY <2>1 DEF CopyIn
    <3>2. copying' = [copying EXCEPT ![a] = @ \ {"in"}] \/ copying' = copying
      BY <2>1 DEF CopyIn
    <3>3. \A j \in CIDs : Dialed(j) # a
      BY DEF Dialed, Accepted
    <3>4. \A j \in CIDs : read'[Dialed(j)] = read[Dialed(j)]
      BY <1>1, <3>1, <3>3
    <3>5. \A j \in CIDs : copying'[Accepted(j)] # {} => copying[Accepted(j)] # {}
      <4>1. ASSUME NEW j \in CIDs PROVE copying'[Accepted(j)] \subseteq copying[Accepted(j)]
        <5>1. Accepted(j) \in Conns
          OBVIOUS
        <5>2. PICK b : b = Accepted(j)
          OBVIOUS
        <5>3. copying' = [copying EXCEPT ![a] = @ \ {"in"}] => copying'[b] \subseteq copying[b]
          <6>1. DOMAIN copying = Conns
            BY <1>1
          <6>2. CASE b = a
            BY <5>1, <5>2, <6>1, <6>2
          <6>3. CASE b # a
            BY <5>1, <5>2, <6>1, <6>3
          <6>4. QED
            BY <6>2, <6>3
        <5>4. QED
          BY <3>2, <5>2, <5>3
      <4>2. QED
        BY <4>1
    <3>6. QED
      BY <1>2, <3>1, <3>4, <3>5
  <2>2. CASE CopyInEnds(r)
    BY <1>1, <1>2, <2>2 DEF CopyInEnds
  <2>3. CASE CopyOut(r)
    BY <1>1, <1>2, <2>3 DEF CopyOut
  <2>4. CASE CopyOutEnds(r)
    BY <1>1, <1>2, <2>4 DEF CopyOutEnds
  <2>5. QED
    BY <1>9, <2>1, <2>2, <2>3, <2>4 DEF CopyStep
<1>10. ASSUME NEW e \in Ends, RecvStep(e) PROVE PhaseInv'
  <2>1. UNCHANGED <<listed, remote, pc, wrote, read, copying>>
    BY <1>10 DEF RecvStep, RecvOpen, RecvClose, RecvData, RecvUnknown, Deliver, DropFull, Panic
  <2>2. QED
    BY <1>1, <1>2, <2>1
<1>11. ASSUME NEW e \in Ends, Flush(e) PROVE PhaseInv'
  BY <1>1, <1>2, <1>11 DEF Flush, Unlist
<1>12. ASSUME NEW e \in Ends, NEW i \in 0 .. MaxDials, CloseByPeer(e, i) PROVE PhaseInv'
  BY <1>1, <1>2, <1>12 DEF CloseByPeer, Unlist
<1>13. CASE TunnelLost
  BY <1>1, <1>2, <1>13 DEF TunnelLost
<1>14. QED
  BY <1>3, <1>4, <1>5, <1>6, <1>7, <1>8, <1>9, <1>10, <1>11, <1>12, <1>13 DEF Next

-----------------------------------------------------------------------------
(* What a step does to the packets on their way                             *)

\* No packet of a kind is added to those on their way to e, of which s are taken.
Kept(e, s, kind) ==
  \A i \in DOMAIN net'[e] : net'[e][i].kind = kind =>
    i + s \in DOMAIN net[e] /\ net[e][i + s] = net'[e][i]

Takes(e) == RecvOpen(e) \/ RecvClose(e) \/ RecvData(e) \/ RecvUnknown(e)

NothingNew(e) ==
  \/ net'[e] = net[e]
  \/ /\ net[e] # <<>> /\ net'[e] = Tail(net[e]) /\ Takes(e)
     /\ Head(net[e]).kind # "Data" \/ RecvData(e) \/ <<e, Head(net[e]).dst>> \notin listed
  \/ \E p \in Packet : p.kind = "Close" /\ net'[e] = Append(net[e], p)
  \/ net'[e] = <<>> /\ ~up'

\* Payload n is written on c for its peer.
Writing(c, n) ==
  /\ up /\ remote[c] # 0 /\ n \in 0 .. MaxData
  /\ UNCHANGED <<remote, read, ack, loop, hand, accepting, listed, up>>
  /\ pc'[c] \notin {"none", "dialing"}
  /\ \A b \in Conns : b # c => pc'[b] = pc[b]
  /\ \/ /\ n = wrote[c] + 1 /\ wrote'[c] = n
        /\ pc'[c] = pc[c] /\ (c[1] = "acceptor" => pc[c] = "copy")
     \/ n = 0 /\ pc[c] = "dialing" /\ c[1] = "acceptor" /\ wrote' = wrote
  /\ net'[Peer(c[1])] = Append(net[Peer(c[1])], Packed("Data", c[2], remote[c], n))
  /\ net'[c[1]] = net[c[1]]

LEMMA KeptStep ==
  ASSUME NEW e \in Ends, net[e] \in Seq(Packet), NothingNew(e)
  PROVE  \E s \in {0, 1} : Kept(e, s, "Open") /\ Kept(e, s, "Data")
<1>1. CASE net'[e] = net[e]
  <2>1. \A i \in DOMAIN net[e] : i + 0 = i
    OBVIOUS
  <2>2. Kept(e, 0, "Open") /\ Kept(e, 0, "Data")
    BY <1>1, <2>1 DEF Kept
  <2>3. QED
    BY <2>2
<1>2. CASE net[e] # <<>> /\ net'[e] = Tail(net[e])
  <2>1. /\ DOMAIN Tail(net[e]) = 1 .. Len(net[e]) - 1 /\ DOMAIN net[e] = 1 .. Len(net[e])
        /\ \A i \in 1 .. Len(net[e]) - 1 : Tail(net[e])[i] = net[e][i + 1]
        /\ Len(net[e]) \in Nat
    BY <1>2, TailSeq
  <2>2. \A i \in 1 .. Len(net[e]) - 1 : i + 1 \in 1 .. Len(net[e])
    BY <2>1
  <2>3. Kept(e, 1, "Open") /\ Kept(e, 1, "Data")
    BY <1>2, <2>1, <2>2 DEF Kept
  <2>4. QED
    BY <2>3
<1>3. ASSUME NEW p \in Packet, p.kind = "Close", net'[e] = Append(net[e], p)
      PROVE  Kept(e, 0, "Open") /\ Kept(e, 0, "Data")
  <2>1. /\ DOMAIN net'[e] = 1 .. Len(net[e]) + 1 /\ DOMAIN net[e] = 1 .. Len(net[e])
        /\ Len(net[e]) \in Nat
        /\ \A i \in 1 .. Len(net[e]) : net'[e][i] = net[e][i]
        /\ net'[e][Len(net[e]) + 1] = p
    BY <1>3, AppendSeq
  <2>2. \A i \in 1 .. Len(net[e]) + 1 : i = Len(net[e]) + 1 \/ (i \in 1 .. Len(net[e]) /\ i + 0 = i)
    BY <2>1
  <2>3. QED
    BY <1>3, <2>1, <2>2 DEF Kept
<1>4. CASE net'[e] = <<>>
  <2>1. Kept(e, 0, "Open") /\ Kept(e, 0, "Data")
    BY <1>4 DEF Kept
  <2>2. QED
    BY <2>1
<1>5. QED
  BY <1>1, <1>2, <1>3, <1>4 DEF NothingNew

LEMMA WriteStep ==
  ASSUME Inv, NEW k \in CIDs
  PROVE  /\ DialerWrites(k) => Writing(Dialed(k), wrote[Dialed(k)] + 1)
         /\ CopyOut(k) => Writing(Accepted(k), wrote[Accepted(k)] + 1)
         /\ up /\ DialSucceeds(k) => Writing(Accepted(k), 0)
<1> USE Named
<1>1. TypeOK /\ pc \in [Conns -> PCs] /\ wrote \in [Conns -> 0 .. MaxData]
  BY DEF Inv, TypeOK
<1>2. ASSUME DialerWrites(k) PROVE Writing(Dialed(k), wrote[Dialed(k)] + 1)
  <2> DEFINE c == Dialed(k)
             n == wrote[Dialed(k)] + 1
  <2>1. n \in 0 .. MaxData /\ wrote'[c] = n
    BY <1>1, <1>2 DEF DialerWrites
  <2>2. /\ net'[Peer(c[1])] = Append(net[Peer(c[1])], Packed("Data", c[2], remote[c], n))
        /\ net'[c[1]] = net[c[1]]
    BY <1>1, <1>2, <2>1, Sent DEF DialerWrites
  <2>3. QED
    BY <1>1, <1>2, <2>1, <2>2 DEF DialerWrites, Writing
<1>3. ASSUME CopyOut(k) PROVE Writing(Accepted(k), wrote[Accepted(k)] + 1)
  <2> DEFINE c == Accepted(k)
             n == wrote[Accepted(k)] + 1
  <2>1. n \in 0 .. MaxData /\ wrote'[c] = n
    BY <1>1, <1>3 DEF CopyOut
  <2>2. /\ net'[Peer(c[1])] = Append(net[Peer(c[1])], Packed("Data", c[2], remote[c], n))
        /\ net'[c[1]] = net[c[1]]
    BY <1>1, <1>3, <2>1, Sent DEF CopyOut
  <2>3. pc[c] = "copy" /\ remote[c] # 0
    BY <1>3 DEF CopyOut, Inv, PhaseInv, IdInv
  <2>4. QED
    BY <1>1, <1>3, <2>1, <2>2, <2>3 DEF CopyOut, Writing
<1>4. ASSUME up, DialSucceeds(k) PROVE Writing(Accepted(k), 0)
  <2> DEFINE c == Accepted(k)
  <2>1. /\ net'[Peer(c[1])] = Append(net[Peer(c[1])], Packed("Data", c[2], remote[c], 0))
        /\ net'[c[1]] = net[c[1]]
    BY <1>1, <1>4, Sent DEF DialSucceeds
  <2>2. remote[c] # 0 /\ pc' = [pc EXCEPT ![c] = "acked"] /\ 0 \in 0 .. MaxData
    BY <1>4 DEF DialSucceeds, Inv, IdInv
  <2>3. QED
    BY <1>1, <1>4, <2>1, <2>2 DEF DialSucceeds, Writing
<1>5. QED
  BY <1>2, <1>3, <1>4

Writes == \E c \in Conns : \E n \in 0 .. MaxData : Writing(c, n)

LEMMA NetStep ==
  ASSUME Inv, [Next]_vars, NEW e \in Ends
  PROVE  NothingNew(e) \/ (\E k \in CIDs : SendOpen(k)) \/ Writes
<1> DEFINE Goal == NothingNew(e) \/ (\E k \in CIDs : SendOpen(k)) \/ Writes
<1>1. ASSUME net' = net PROVE Goal
  BY <1>1 DEF NothingNew
<1>2. ASSUME NEW c \in Conns, SendPkt(c, "Close", 0) PROVE Goal
  <2>1. /\ net'[c[1]] = net[c[1]]
        /\ net'[Peer(c[1])] = IF up THEN Append(net[Peer(c[1])], Packed("Close", c[2], remote[c], 0))
                              ELSE net[Peer(c[1])]
    BY <1>2, Sent, Named DEF Inv
  <2>2. Packed("Close", c[2], remote[c], 0) \in Packet /\ Packed("Close", c[2], remote[c], 0).kind = "Close"
    <3>1. c[2] \in 0 .. MaxDials /\ remote[c] \in 0 .. MaxDials /\ 0 \in 0 .. MaxData
      BY Named DEF Inv, TypeOK
    <3>2. QED
      BY <3>1, PacketType
  <2>3. e = c[1] \/ e = Peer(c[1])
    BY Named
  <2>4. QED
    BY <2>1, <2>2, <2>3 DEF NothingNew
<1>3. CASE UNCHANGED vars
  BY <1>1, <1>3 DEF vars
<1>4. ASSUME NEW k \in CIDs, OpenStep(k) PROVE Goal
  BY <1>1, <1>4 DEF OpenStep, Pending, Opened, OpenFails
<1>5. ASSUME NEW k \in CIDs, UseStep(k) PROVE Goal
  <2>1. CASE DialerWrites(k)
    BY <2>1, WriteStep, Named DEF Writes, Writing
  <2>2. QED
    BY <1>1, <1>5, <2>1 DEF UseStep, DialerReads, DialerCloses
<1>6. ASSUME NEW c \in Conns, CloseStep(c) PROVE Goal
  BY <1>1, <1>2, <1>6 DEF CloseStep, Close, SendClose
<1>7. ASSUME NEW k \in CIDs, Accept(k) PROVE Goal
  BY <1>1, <1>7 DEF Accept
<1>8. ASSUME NEW r \in CIDs, AcceptStep(r) PROVE Goal
  <2>1. CASE DialFails(r)
    BY <1>2, <2>1, Named DEF DialFails
  <2>2. CASE DialSucceeds(r) /\ up
    <3>1. Writing(Accepted(r), 0) /\ 0 \in 0 .. MaxData /\ Accepted(r) \in Conns
      BY <2>2, WriteStep, Named
    <3>2. QED
      BY <3>1 DEF Writes
  <2>3. CASE DialSucceeds(r) /\ ~up
    <3>1. net' = net
      BY <2>3 DEF DialSucceeds, SendPkt, Transmit, Inv, TypeOK
    <3>2. QED
      BY <1>1, <3>1
  <2>4. QED
    BY <1>1, <1>8, <2>1, <2>2, <2>3 DEF AcceptStep, StartCopying, CopyingEnds
<1>9. ASSUME NEW r \in CIDs, CopyStep(r) PROVE Goal
  <2>1. CASE CopyOut(r)
    BY <2>1, WriteStep, Named DEF Writes, Writing
  <2>2. QED
    BY <1>1, <1>9, <2>1 DEF CopyStep, CopyIn, CopyInEnds, CopyOutEnds
<1>10. ASSUME NEW x \in Ends, RecvStep(x) PROVE Goal
  <2>1. net \in [Ends -> Seq(Packet)] /\ (e = x \/ e = Peer(x)) /\ Peer(x) # x /\ Peer(x) \in Ends
    BY Named DEF Inv, TypeOK
  <2>2. CASE RecvOpen(x) \/ RecvClose(x) \/ RecvData(x)
    BY <2>1, <2>2 DEF RecvOpen, RecvClose, RecvData, Receives, Taken, NothingNew, Takes
  <2>3. CASE RecvUnknown(x)
    <3> DEFINE p == Packed("Close", Head(net[x]).dst, Head(net[x]).src, 0)
    <3>1. /\ net[x] # <<>> /\ net'[x] = Tail(net[x]) /\ net'[Peer(x)] = Append(net[Peer(x)], p)
          /\ <<x, Head(net[x]).dst>> \notin listed
      BY <2>1, <2>3 DEF RecvUnknown, Receives, Answered
    <3>2. Head(net[x]) \in Packet
      BY <2>1, <3>1, TailSeq
    <3>3. p \in Packet /\ p.kind = "Close"
      BY <3>2, PacketType, Named DEF Packet
    <3>4. QED
      BY <2>1, <2>3, <3>1, <3>3 DEF NothingNew, Takes
  <2>4. CASE DropFull(x)
    <3> DEFINE p == Packed("Close", hand[x].dst, hand[x].src, 0)
    <3>1. hand[x].src \in 0 .. MaxDials /\ hand[x].dst \in 0 .. MaxDials
      BY Named DEF Inv, TypeOK, Payload
    <3>2. p \in Packet /\ p.kind = "Close"
      BY <3>1, PacketType, Named
    <3>3. net'[x] = net[x] /\ net'[Peer(x)] = IF up THEN Append(net[Peer(x)], p) ELSE net[Peer(x)]
      BY <2>1, <2>4 DEF DropFull, Transmit
    <3>4. QED
      BY <2>1, <3>2, <3>3 DEF NothingNew
  <2>5. CASE Panic(x)
    BY <2>5 DEF Panic, NothingNew
  <2>6. QED
    BY <1>1, <1>10, <2>2, <2>3, <2>4, <2>5 DEF RecvStep, Deliver
<1>11. ASSUME NEW x \in Ends, Flush(x) PROVE Goal
  BY <1>1, <1>11 DEF Flush
<1>12. ASSUME NEW x \in Ends, NEW i \in 0 .. MaxDials, CloseByPeer(x, i) PROVE Goal
  BY <1>1, <1>12 DEF CloseByPeer
<1>13. CASE TunnelLost
  BY <1>13 DEF TunnelLost, NothingNew
<1>14. QED
  BY <1>3, <1>4, <1>5, <1>6, <1>7, <1>8, <1>9, <1>10, <1>11, <1>12, <1>13 DEF Next

-----------------------------------------------------------------------------
(* Every Open is sent once and accepted once                                *)

\* No Open is received or accepted.
SameOpens ==
  accepting' = accepting /\ \A k \in CIDs : Unaccepted(k) => Unaccepted(k)'

LEMMA SameOpensStep ==
  ASSUME Inv, [Next]_vars
  PROVE  SameOpens \/ (\E k \in CIDs : Accept(k)) \/ RecvOpen("acceptor") \/ RecvOpen("dialer")
<1>1. CASE \E k \in CIDs : Accept(k)
  BY <1>1
<1>2. CASE \E e \in Ends : RecvOpen(e)
  BY <1>2 DEF Ends
<1>3. CASE ~(\E k \in CIDs : Accept(k)) /\ ~(\E e \in Ends : RecvOpen(e))
  <2>1. accepting' = accepting
    BY <1>3 DEF vars, Next, OpenStep, Pending, SendOpen, Opened, OpenFails, UseStep, DialerWrites,
      DialerReads, DialerCloses, CloseStep, Close, SendClose, AcceptStep, DialFails,
      DialSucceeds, StartCopying, CopyingEnds, CopyStep, CopyIn, CopyInEnds, CopyOut,
      CopyOutEnds, RecvStep, RecvClose, RecvData, RecvUnknown, Deliver, DropFull, Panic,
      Flush, CloseByPeer, TunnelLost
  <2>2. CASE SameIds
    BY <2>1, <2>2 DEF SameIds, SameOpens, Unaccepted
  <2>3. ASSUME NEW k \in CIDs, Opened(k) PROVE SameOpens
    <3>1. \A r \in CIDs : remote'[Accepted(r)] = remote[Accepted(r)]
      BY <2>3, Named DEF Opened, Inv, TypeOK
    <3>2. QED
      BY <2>1, <3>1 DEF SameOpens, Unaccepted
  <2>4. QED
    BY <1>3, <2>2, <2>3, SteadyStep
<1>4. QED
  BY <1>1, <1>2, <1>3

LEMMA OpenKept ==
  ASSUME Inv, [Next]_vars, NEW e \in Ends, ~(\E k \in CIDs : SendOpen(k))
  PROVE  \E s \in {0, 1} : Kept(e, s, "Open")
<1>1. net \in [Ends -> Seq(Packet)] /\ net[e] \in Seq(Packet)
  BY DEF Inv, TypeOK
<1>2. CASE NothingNew(e)
  BY <1>1, <1>2, KeptStep
<1>3. ASSUME NEW c \in Conns, NEW n \in 0 .. MaxData, Writing(c, n)
      PROVE  Kept(e, 0, "Open")
  <2> DEFINE p == Packed("Data", c[2], remote[c], n)
  <2>1. /\ net'[Peer(c[1])] = Append(net[Peer(c[1])], p) /\ net'[c[1]] = net[c[1]]
        /\ e = c[1] \/ e = Peer(c[1])
    BY <1>3, Named DEF Writing
  <2>2. p \in Packet /\ p.kind = "Data"
    <3>1. c[2] \in 0 .. MaxDials /\ remote[c] \in 0 .. MaxDials
      BY Named DEF Inv, TypeOK
    <3>2. QED
      BY <3>1, PacketType
  <2> HIDE DEF p
  <2>3. CASE e = c[1]
    <3>1. \A i \in DOMAIN net[e] : i + 0 = i
      BY <1>1
    <3>2. QED
      BY <2>1, <2>3, <3>1 DEF Kept
  <2>4. CASE e = Peer(c[1])
    <3>1. /\ DOMAIN net'[e] = 1 .. Len(net[e]) + 1 /\ DOMAIN net[e] = 1 .. Len(net[e])
          /\ Len(net[e]) \in Nat
          /\ \A i \in 1 .. Len(net[e]) : net'[e][i] = net[e][i]
          /\ net'[e][Len(net[e]) + 1] = p
      <4>1. net'[e] = Append(net[e], p)
        BY <2>1, <2>4
      <4>2. QED
        BY <1>1, <2>2, <4>1, AppendSeq
    <3>2. \A i \in 1 .. Len(net[e]) + 1 : i = Len(net[e]) + 1 \/ (i \in 1 .. Len(net[e]) /\ i + 0 = i)
      BY <3>1
    <3>3. QED
      BY <2>2, <3>1, <3>2 DEF Kept
  <2>5. QED
    BY <2>1, <2>3, <2>4
<1>4. QED
  BY <1>2, <1>3, NetStep DEF Writes

LEMMA OpenInvStep ==
  ASSUME Inv, [Next]_vars, TypeOK'
  PROVE  OpenInv'
<1> DEFINE StillStarted(k) == pc'[Dialed(k)] \notin {"none", "opening"}
           StillUnaccepted(k) == \A r \in CIDs : remote'[Accepted(r)] # k
<1>1. \A k \in CIDs : Started(k) => StillStarted(k)
  BY SteadyStep, Named DEF Steady, Started
<1>2. OpenInv /\ net \in [Ends -> Seq(Packet)] /\ net' \in [Ends -> Seq(Packet)]
      /\ "dialer" \in Ends /\ "acceptor" \in Ends
  BY Named DEF Inv, TypeOK
<1>3. ASSUME ~(\E k \in CIDs : SendOpen(k))
      PROVE  /\ \A i \in DOMAIN net'["dialer"] : ~IsOpen(net'["dialer"][i])
             /\ \E s \in {0, 1} : Kept("acceptor", s, "Open")
  <2>1. PICK s \in {0, 1} : Kept("dialer", s, "Open")
    BY <1>2, <1>3, OpenKept
  <2>2. \A i \in DOMAIN net'["dialer"] : ~IsOpen(net'["dialer"][i])
    BY <1>2, <2>1 DEF Kept, OpenInv, IsOpen
  <2>3. \E t \in {0, 1} : Kept("acceptor", t, "Open")
    BY <1>2, <1>3, OpenKept
  <2>4. QED
    BY <2>2, <2>3
<1>4. CASE ~(\E k \in CIDs : SendOpen(k)) /\ SameOpens
  <2>1. PICK s \in {0, 1} : Kept("acceptor", s, "Open")
    BY <1>3, <1>4
  <2>A. \A k \in CIDs : Unaccepted(k) => StillUnaccepted(k)
    BY <1>4 DEF SameOpens, Unaccepted
  <2>2. ASSUME NEW i \in DOMAIN net'["acceptor"], IsOpen(net'["acceptor"][i])
        PROVE  LET k == net'["acceptor"][i].src IN
               /\ k \in CIDs /\ StillStarted(k) /\ k \notin accepting' /\ StillUnaccepted(k)
               /\ \A j \in DOMAIN net'["acceptor"] :
                    i < j /\ IsOpen(net'["acceptor"][j]) => net'["acceptor"][j].src # k
    <3>1. i + s \in DOMAIN net["acceptor"] /\ net["acceptor"][i + s] = net'["acceptor"][i]
      BY <2>1, <2>2 DEF Kept, IsOpen
    <3>2. \A j \in DOMAIN net'["acceptor"] : IsOpen(net'["acceptor"][j]) =>
            /\ j + s \in DOMAIN net["acceptor"] /\ net["acceptor"][j + s] = net'["acceptor"][j]
            /\ i < j => i + s < j + s
      <4>1. \A j \in DOMAIN net'["acceptor"] : i < j => i + s < j + s
        BY <1>2
      <4>2. QED
        BY <2>1, <4>1 DEF Kept, IsOpen
    <3>3. /\ net["acceptor"][i + s].src \in CIDs /\ Started(net["acceptor"][i + s].src)
          /\ net["acceptor"][i + s].src \notin accepting /\ Unaccepted(net["acceptor"][i + s].src)
          /\ \A j \in DOMAIN net["acceptor"] : i + s < j /\ IsOpen(net["acceptor"][j]) =>
               net["acceptor"][j].src # net["acceptor"][i + s].src
      BY <1>2, <2>2, <3>1 DEF OpenInv
    <3>4. QED
      BY <1>1, <1>4, <2>A, <3>1, <3>2, <3>3 DEF SameOpens
  <2>3. \A k \in accepting' : StillStarted(k) /\ StillUnaccepted(k)
    BY <1>1, <1>2, <1>4, <2>A DEF OpenInv, SameOpens, Inv, TypeOK
  <2>4. QED
    BY <1>3, <1>4, <2>2, <2>3 DEF OpenInv, Started, Unaccepted
<1>5. ASSUME NEW k \in CIDs, Accept(k) PROVE OpenInv'
  <2> DEFINE a == autoinc["acceptor"] + 1
  <2>1. /\ a \in CIDs /\ remote' = [remote EXCEPT ![Accepted(a)] = k]
        /\ net' = net /\ accepting' = accepting \ {k} /\ k \in accepting
    BY <1>5, Accepting DEF Accept
  <2>2. \A j \in CIDs : j # k /\ Unaccepted(j) => StillUnaccepted(j)
    BY <2>1, Named DEF Unaccepted, Inv, TypeOK
  <2>3. \A j \in accepting : j \in CIDs
    BY DEF Inv, TypeOK
  <2>4. QED
    <3>1. \A i \in DOMAIN net["acceptor"] : IsOpen(net["acceptor"][i]) =>
            /\ net["acceptor"][i].src \in CIDs /\ StillStarted(net["acceptor"][i].src)
            /\ net["acceptor"][i].src \notin accepting' /\ StillUnaccepted(net["acceptor"][i].src)
      BY <1>1, <1>2, <2>1, <2>2 DEF OpenInv
    <3>2. \A j \in accepting' : StillStarted(j) /\ StillUnaccepted(j)
      BY <1>1, <1>2, <2>1, <2>2, <2>3 DEF OpenInv
    <3>3. QED
      BY <1>2, <2>1, <3>1, <3>2 DEF OpenInv, Started, Unaccepted
<1>6. ASSUME RecvOpen("acceptor") PROVE OpenInv'
  <2> DEFINE k == Head(net["acceptor"]).src
  <2>1. /\ accepting' = accepting \cup {k} /\ remote' = remote
        /\ net["acceptor"] # <<>> /\ IsOpen(Head(net["acceptor"]))
        /\ net' = [net EXCEPT !["acceptor"] = Tail(@)]
    BY <1>6 DEF RecvOpen, Receives, Taken, IsOpen
  <2>2. /\ DOMAIN net'["acceptor"] = 1 .. Len(net["acceptor"]) - 1
        /\ DOMAIN net["acceptor"] = 1 .. Len(net["acceptor"]) /\ Len(net["acceptor"]) \in Nat \ {0}
        /\ \A i \in 1 .. Len(net["acceptor"]) - 1 : net'["acceptor"][i] = net["acceptor"][i + 1]
        /\ Head(net["acceptor"]) = net["acceptor"][1] /\ net'["dialer"] = net["dialer"]
    <3>1. net["acceptor"] \in Seq(Packet) /\ net'["acceptor"] = Tail(net["acceptor"])
      BY <1>2, <2>1
    <3>2. QED
      BY <1>2, <2>1, <3>1, TailSeq
  <2>3. \A i \in DOMAIN net'["acceptor"] :
          /\ i + 1 \in DOMAIN net["acceptor"] /\ 1 < i + 1
          /\ net'["acceptor"][i] = net["acceptor"][i + 1]
          /\ \A j \in DOMAIN net'["acceptor"] : i < j => i + 1 < j + 1
    BY <2>2
  <2>4. 1 \in DOMAIN net["acceptor"]
    BY <2>2
  <2>5. \A j \in CIDs : StillUnaccepted(j) <=> Unaccepted(j)
    BY <2>1 DEF Unaccepted
  <2>6. k \in CIDs /\ Started(k) /\ Unaccepted(k)
    BY <1>2, <2>1, <2>2, <2>4 DEF OpenInv
  <2>7. \A i \in DOMAIN net'["acceptor"] : IsOpen(net'["acceptor"][i]) => net'["acceptor"][i].src # k
    <3>1. \A j \in DOMAIN net["acceptor"] :
            1 < j /\ IsOpen(net["acceptor"][j]) => net["acceptor"][j].src # net["acceptor"][1].src
      BY <1>2, <2>1, <2>2, <2>4 DEF OpenInv
    <3>2. QED
      BY <2>2, <2>3, <3>1
  <2> HIDE DEF k
  <2>8. \A i \in DOMAIN net'["acceptor"] : IsOpen(net'["acceptor"][i]) =>
          /\ net'["acceptor"][i].src \in CIDs /\ Started(net'["acceptor"][i].src)
          /\ net'["acceptor"][i].src \notin accepting /\ Unaccepted(net'["acceptor"][i].src)
          /\ \A j \in DOMAIN net'["acceptor"] :
               i < j /\ IsOpen(net'["acceptor"][j]) => net'["acceptor"][j].src # net'["acceptor"][i].src
    BY <1>2, <2>3 DEF OpenInv
  <2>9. \A j \in accepting' : j \in CIDs /\ StillStarted(j) /\ StillUnaccepted(j)
    BY <1>1, <1>2, <2>1, <2>5, <2>6 DEF OpenInv, Inv, TypeOK
  <2>10. QED
    <3>1. \A i \in DOMAIN net'["acceptor"] : IsOpen(net'["acceptor"][i]) =>
            /\ net'["acceptor"][i].src \in CIDs /\ StillStarted(net'["acceptor"][i].src)
            /\ net'["acceptor"][i].src \notin accepting' /\ StillUnaccepted(net'["acceptor"][i].src)
      BY <1>1, <2>1, <2>5, <2>7, <2>8
    <3>2. QED
      BY <1>2, <2>2, <2>8, <2>9, <3>1 DEF OpenInv, Started, Unaccepted
<1>7. ~RecvOpen("dialer")
  <2>1. ASSUME RecvOpen("dialer") PROVE FALSE
    <3>1. net["dialer"] \in Seq(Packet) /\ net["dialer"] # <<>> /\ IsOpen(Head(net["dialer"]))
      BY <1>2, <2>1 DEF RecvOpen, Receives, IsOpen
    <3>2. 1 \in DOMAIN net["dialer"] /\ Head(net["dialer"]) = net["dialer"][1]
      BY <3>1, TailSeq
    <3>3. QED
      BY <1>2, <3>1, <3>2 DEF OpenInv
  <2>2. QED
    BY <2>1
<1>8. ASSUME NEW k \in CIDs, SendOpen(k) PROVE OpenInv'
  <2> DEFINE c == Dialed(k)
             p == Packed("Open", k, remote[Dialed(k)], 0)
             q == net["acceptor"]
  <2>1. /\ c \in Conns /\ c[1] = "dialer" /\ c[2] = k /\ Peer("dialer") = "acceptor"
        /\ remote[c] \in 0 .. MaxDials /\ k \in 0 .. MaxDials /\ 0 \in 0 .. MaxData
    BY Named DEF Inv, TypeOK
  <2>2. p \in Packet /\ p.src = k
    BY <2>1, PacketType
  <2>3. /\ net'["dialer"] = net["dialer"]
        /\ net'["acceptor"] = IF up THEN Append(q, p) ELSE q
    BY <1>8, <2>1, Sent DEF SendOpen, Inv
  <2>4. pc[c] = "opening" /\ pc'[c] \in {"waiting", "failed"} /\ UNCHANGED <<accepting, remote>>
    BY <1>8, <2>1 DEF SendOpen, Inv, TypeOK
  <2>5. ~Started(k) /\ StillStarted(k)
    BY <2>4 DEF Started
  <2>6. k \notin accepting /\ Unaccepted(k)
    <3>1. \A r \in CIDs : remote[Accepted(r)] = k => remote[Accepted(r)] # 0
      BY Named
    <3>2. QED
      BY <1>2, <2>5, <3>1 DEF OpenInv, Inv, IdInv, Unaccepted
  <2>7. \A j \in CIDs : Unaccepted(j) <=> StillUnaccepted(j)
    BY <2>4 DEF Unaccepted
  <2>8. \A j \in accepting' : j \in CIDs /\ StillStarted(j) /\ StillUnaccepted(j)
    BY <1>1, <1>2, <2>4, <2>7 DEF OpenInv, Inv, TypeOK
  <2>9. \A i \in DOMAIN q : IsOpen(q[i]) =>
          /\ q[i].src \in CIDs /\ StillStarted(q[i].src) /\ q[i].src \notin accepting'
          /\ StillUnaccepted(q[i].src) /\ q[i].src # k
          /\ \A j \in DOMAIN q : i < j /\ IsOpen(q[j]) => q[j].src # q[i].src
    BY <1>1, <1>2, <2>4, <2>5, <2>7 DEF OpenInv
  <2> HIDE DEF p
  <2>10. CASE ~up
    BY <1>2, <2>3, <2>8, <2>9, <2>10 DEF OpenInv, Started, Unaccepted
  <2>11. CASE up
    <3>1. /\ DOMAIN net'["acceptor"] = 1 .. Len(q) + 1 /\ DOMAIN q = 1 .. Len(q) /\ Len(q) \in Nat
          /\ \A i \in 1 .. Len(q) : net'["acceptor"][i] = q[i]
          /\ net'["acceptor"][Len(q) + 1] = p
      BY <1>2, <2>2, <2>3, <2>11, AppendSeq
    <3>2. \A i \in 1 .. Len(q) + 1 : i \in 1 .. Len(q) \/ i = Len(q) + 1
      BY <3>1
    <3>3. \A i \in 1 .. Len(q) + 1 : ~(Len(q) + 1 < i)
      BY <3>1
    <3> HIDE DEF q
    <3>4. \A i \in 1 .. Len(q) + 1 : IsOpen(net'["acceptor"][i]) =>
            /\ net'["acceptor"][i].src \in CIDs /\ StillStarted(net'["acceptor"][i].src)
            /\ net'["acceptor"][i].src \notin accepting' /\ StillUnaccepted(net'["acceptor"][i].src)
      BY <2>2, <2>4, <2>5, <2>6, <2>7, <2>9, <3>1, <3>2
    <3>5. \A i, j \in 1 .. Len(q) + 1 :
            i < j /\ IsOpen(net'["acceptor"][i]) /\ IsOpen(net'["acceptor"][j])
            => net'["acceptor"][j].src # net'["acceptor"][i].src
      BY <2>2, <2>9, <3>1, <3>2, <3>3
    <3>6. QED
      BY <1>2, <2>3, <2>8, <3>1, <3>4, <3>5 DEF OpenInv, Started, Unaccepted
  <2>12. QED
    BY <2>10, <2>11
<1>9. CASE SameOpens \/ (\E k \in CIDs : SendOpen(k)) \/ (\E k \in CIDs : Accept(k))
           \/ RecvOpen("acceptor")
  BY <1>4, <1>5, <1>6, <1>8, <1>9
<1>10. QED
  BY <1>7, <1>9, SameOpensStep

-----------------------------------------------------------------------------
(* Payloads keep their order                                                *)

ReceivedKept(e) == \A d \in CIDs : Received(<<e, d>>)' = Received(<<e, d>>)
HandKept(e) ==
  \/ loop'[e] = loop[e] /\ hand'[e] = hand[e]
  \/ loop'[e] # "got" /\ (loop[e] = "recv" \/ Deliver(e) \/ DropFull(e) \/ Panic(e))

\* Reading moves a payload and leaves what was received as it was.
LEMMA Reading ==
  ASSUME Inv, NEW c \in Conns, ack[c] # <<>>,
         read' = [read EXCEPT ![c] = Append(@, Head(ack[c]))],
         ack' = [ack EXCEPT ![c] = Tail(@)]
  PROVE  \A b \in Conns : Received(b)' = Received(b)
<1>1. read \in [Conns -> Seq(Payload)] /\ ack \in [Conns -> Seq(Payload)]
  BY DEF Inv, TypeOK
<1>2. ASSUME NEW b \in Conns, b # c PROVE Received(b)' = Received(b)
  BY <1>1, <1>2 DEF Received
<1>3. Received(c)' = Received(c)
  <2>1. read[c] \in Seq(Payload) /\ ack[c] \in Seq(Payload)
    BY <1>1
  <2>2. Append(read[c], Head(ack[c])) \o Tail(ack[c]) = read[c] \o ack[c]
    BY <2>1, MoveOne
  <2>3. read'[c] = Append(read[c], Head(ack[c])) /\ ack'[c] = Tail(ack[c])
    BY <1>1
  <2>4. QED
    BY <2>2, <2>3 DEF Received
<1>4. QED
  BY <1>2, <1>3

LEMMA ReceivedStep ==
  ASSUME Inv, [Next]_vars, NEW e \in Ends
  PROVE  ReceivedKept(e) \/ Deliver(e)
<1> DEFINE Goal == ReceivedKept(e) \/ Deliver(e)
<1>0. /\ \A d \in CIDs : <<e, d>> \in Conns
      /\ read \in [Conns -> Seq(Payload)] /\ ack \in [Conns -> Seq(Payload)]
  BY DEF Conns, Inv, TypeOK
<1>1. ASSUME \A b \in Conns : Received(b)' = Received(b) PROVE Goal
  BY <1>0, <1>1 DEF ReceivedKept
<1>2. ASSUME UNCHANGED <<read, ack>> PROVE Goal
  BY <1>2 DEF ReceivedKept, Received
<1>3. CASE UNCHANGED vars
  BY <1>2, <1>3 DEF vars
<1>4. ASSUME NEW k \in CIDs, OpenStep(k) PROVE Goal
  <2>1. CASE Opened(k)
    <3>1. Dialed(k) \in Conns /\ read[Dialed(k)] = <<>> /\ ack[Dialed(k)] # <<>>
      BY <2>1, Named DEF Opened, Inv, PhaseInv
    <3>2. /\ read' = [read EXCEPT ![Dialed(k)] = Append(@, Head(ack[Dialed(k)]))]
          /\ ack' = [ack EXCEPT ![Dialed(k)] = Tail(@)]
      <4>1. Append(<<>>, Head(ack[Dialed(k)])) = <<Head(ack[Dialed(k)])>>
        OBVIOUS
      <4>2. QED
        BY <1>0, <2>1, <3>1, <4>1 DEF Opened
    <3>3. QED
      BY <1>1, <3>1, <3>2, Reading
  <2>2. QED
    BY <1>2, <1>4, <2>1 DEF OpenStep, Pending, SendOpen, OpenFails
<1>5. ASSUME NEW k \in CIDs, UseStep(k) PROVE Goal
  <2>1. CASE DialerReads(k)
    BY <1>1, <2>1, Reading, Named DEF DialerReads
  <2>2. QED
    BY <1>2, <1>5, <2>1 DEF UseStep, DialerWrites, DialerCloses
<1>6. ASSUME NEW c \in Conns, CloseStep(c) PROVE Goal
  BY <1>2, <1>6 DEF CloseStep, Close, SendClose
<1>7. ASSUME NEW k \in CIDs, Accept(k) \/ AcceptStep(k) PROVE Goal
  BY <1>2, <1>7 DEF Accept, AcceptStep, DialFails, DialSucceeds, StartCopying, CopyingEnds
<1>8. ASSUME NEW r \in CIDs, CopyStep(r) PROVE Goal
  <2>1. CASE CopyIn(r)
    BY <1>1, <2>1, Reading, Named DEF CopyIn
  <2>2. QED
    BY <1>2, <1>8, <2>1 DEF CopyStep, CopyInEnds, CopyOut, CopyOutEnds
<1>9. ASSUME NEW x \in Ends, RecvStep(x) PROVE Goal
  <2>1. CASE Deliver(x) /\ x # e
    <3>1. read' = read /\ ack' = [ack EXCEPT ![<<x, hand[x].dst>>] = Append(@, hand[x])]
      BY <2>1 DEF Deliver
    <3>2. \A d \in CIDs : ack'[<<e, d>>] = ack[<<e, d>>]
      BY <1>0, <2>1, <3>1
    <3>3. QED
      BY <3>1, <3>2 DEF ReceivedKept, Received
  <2>2. QED
    BY <1>2, <1>9, <2>1 DEF RecvStep, RecvOpen, RecvClose, RecvData, RecvUnknown, DropFull, Panic
<1>10. ASSUME NEW x \in Ends, Flush(x) PROVE Goal
  BY <1>2, <1>10 DEF Flush
<1>11. ASSUME NEW x \in Ends, NEW i \in 0 .. MaxDials, CloseByPeer(x, i) PROVE Goal
  BY <1>2, <1>11 DEF CloseByPeer
<1>12. CASE TunnelLost
  BY <1>2, <1>12 DEF TunnelLost
<1>13. QED
  BY <1>3, <1>4, <1>5, <1>6, <1>7, <1>8, <1>9, <1>10, <1>11, <1>12 DEF Next

LEMMA HandStep ==
  ASSUME Inv, [Next]_vars, NEW e \in Ends
  PROVE  HandKept(e) \/ RecvData(e)
<1> DEFINE Goal == HandKept(e) \/ RecvData(e)
<1>1. loop \in [Ends -> {"recv", "got", "flushed", "panicked"}] /\ hand \in [Ends -> Payload]
  BY DEF Inv, TypeOK
<1>2. ASSUME UNCHANGED <<loop, hand>> PROVE Goal
  BY <1>2 DEF HandKept
<1>3. ASSUME NEW x \in Ends, RecvStep(x) PROVE Goal
  <2>1. CASE RecvData(x) /\ x # e
    BY <1>1, <2>1 DEF RecvData, HandKept
  <2>2. CASE Deliver(x) \/ DropFull(x) \/ Panic(x)
    BY <1>1, <2>2 DEF Deliver, DropFull, Panic, HandKept
  <2>3. QED
    BY <1>2, <1>3, <2>1, <2>2 DEF RecvStep, RecvOpen, RecvClose, RecvUnknown
<1>4. ASSUME NEW x \in Ends, Flush(x) PROVE Goal
  BY <1>1, <1>4 DEF Flush, HandKept
<1>5. ASSUME NEW k \in CIDs, OpenStep(k) \/ UseStep(k) PROVE Goal
  BY <1>2, <1>5 DEF OpenStep, Pending, SendOpen, Opened, OpenFails, UseStep, DialerWrites,
                    DialerReads, DialerCloses
<1>6. ASSUME NEW k \in CIDs, Accept(k) \/ AcceptStep(k) \/ CopyStep(k) PROVE Goal
  BY <1>2, <1>6 DEF Accept, AcceptStep, DialFails, DialSucceeds, StartCopying, CopyingEnds,
                    CopyStep, CopyIn, CopyInEnds, CopyOut, CopyOutEnds
<1>7. ASSUME (\E c \in Conns : CloseStep(c)) \/ TunnelLost \/ UNCHANGED vars PROVE Goal
  BY <1>2, <1>7 DEF CloseStep, Close, SendClose, TunnelLost, vars
<1>8. ASSUME NEW x \in Ends, NEW i \in 0 .. MaxDials, CloseByPeer(x, i) PROVE Goal
  BY <1>2, <1>8 DEF CloseByPeer
<1>9. QED
  BY <1>3, <1>4, <1>5, <1>6, <1>7, <1>8 DEF Next

LEMMA DataKept ==
  ASSUME Inv, [Next]_vars, NEW e \in Ends
  PROVE  \/ \E s \in {0, 1} : Kept(e, s, "Data")
         \/ \E c \in Conns : \E n \in 0 .. MaxData : Writing(c, n) /\ e = Peer(c[1])
<1>1. net[e] \in Seq(Packet) /\ \A i \in DOMAIN net[e] : i + 0 = i
  BY DEF Inv, TypeOK
<1>2. CASE NothingNew(e)
  BY <1>1, <1>2, KeptStep
<1>3. ASSUME net'[e] = net[e] PROVE Kept(e, 0, "Data")
  BY <1>1, <1>3 DEF Kept
<1>4. ASSUME NEW k \in CIDs, SendOpen(k) PROVE Kept(e, 0, "Data")
  <2> DEFINE p == Packed("Open", k, remote[Dialed(k)], 0)
  <2>1. /\ Dialed(k) \in Conns /\ Dialed(k)[1] = "dialer" /\ Dialed(k)[2] = k
        /\ remote[Dialed(k)] \in 0 .. MaxDials /\ k \in 0 .. MaxDials /\ 0 \in 0 .. MaxData
    BY Named DEF Inv, TypeOK
  <2>2. p \in Packet /\ p.kind = "Open"
    BY <2>1, PacketType
  <2>3. net'[e] = net[e] \/ net'[e] = Append(net[e], p)
    <3>1. SendPkt(Dialed(k), "Open", 0) /\ TypeOK
      BY <1>4 DEF SendOpen, Inv
    <3>2. /\ net'["dialer"] = net["dialer"]
          /\ net'["acceptor"] = IF up THEN Append(net["acceptor"], p) ELSE net["acceptor"]
      BY <2>1, <3>1, Sent, Named
    <3>3. QED
      BY <3>2, Named
  <2> HIDE DEF p
  <2>4. CASE net'[e] = Append(net[e], p)
    <3>1. /\ DOMAIN net'[e] = 1 .. Len(net[e]) + 1 /\ DOMAIN net[e] = 1 .. Len(net[e])
          /\ Len(net[e]) \in Nat
          /\ \A i \in 1 .. Len(net[e]) : net'[e][i] = net[e][i]
          /\ net'[e][Len(net[e]) + 1] = p
      BY <1>1, <2>2, <2>4, AppendSeq
    <3>2. \A i \in 1 .. Len(net[e]) + 1 : i = Len(net[e]) + 1 \/ (i \in 1 .. Len(net[e]) /\ i + 0 = i)
      BY <3>1
    <3>3. QED
      BY <2>2, <3>1, <3>2 DEF Kept
  <2>5. QED
    BY <1>3, <2>3, <2>4
<1>5. ASSUME NEW c \in Conns, NEW n \in 0 .. MaxData, Writing(c, n), e # Peer(c[1])
      PROVE  Kept(e, 0, "Data")
  BY <1>3, <1>5, Named DEF Writing
<1>6. QED
  BY <1>2, <1>4, <1>5, NetStep DEF Writes

\* Payload numbers are numbers.
LEMMA Numbered ==
  ASSUME TypeOK, NEW e \in Ends
  PROVE  /\ \A i \in DOMAIN net[e] : net[e][i].n \in Nat
         /\ hand[e].n \in Nat
         /\ \A d \in CIDs : \A i \in DOMAIN Received(<<e, d>>) : Received(<<e, d>>)[i].n \in Nat
         /\ \A d \in CIDs : Received(<<e, d>>) \in Seq(Payload)
<1>1. /\ \A p \in Packet : p.n \in Nat
      /\ \A p \in Payload : p.n \in Nat
  BY Named DEF Packet, Payload
<1>2. net[e] \in Seq(Packet) /\ hand[e] \in Payload
  BY DEF TypeOK
<1>3. \A i \in DOMAIN net[e] : net[e][i] \in Packet
  BY <1>2
<1>4. ASSUME NEW d \in CIDs PROVE Received(<<e, d>>) \in Seq(Payload)
  <2>1. read[<<e, d>>] \in Seq(Payload) /\ ack[<<e, d>>] \in Seq(Payload)
    BY DEF TypeOK, Conns
  <2>2. QED
    BY <2>1 DEF Received
<1>5. ASSUME NEW d \in CIDs, NEW i \in DOMAIN Received(<<e, d>>)
      PROVE  Received(<<e, d>>)[i] \in Payload
  BY <1>4, <1>5
<1>6. QED
  BY <1>1, <1>2, <1>3, <1>4, <1>5

LEMMA FlowIfKept ==
  ASSUME Inv, Steady, TypeOK', NEW e \in Ends, NEW s \in {0, 1}, Kept(e, s, "Data"),
         ReceivedKept(e), HandKept(e)
  PROVE  Flow(e)'
<1>1. /\ TypeOK /\ FlowNet(e) /\ FlowHand(e) /\ \A d \in CIDs : FlowReceived(e, d)
      /\ \A i \in DOMAIN net'[e] : i \in Int
  BY DEF Inv, Flow, TypeOK
<1>2. \A i \in DOMAIN net'[e] : IsData(net'[e][i]) =>
        i + s \in DOMAIN net[e] /\ net[e][i + s] = net'[e][i]
  BY DEF Kept, IsData
<1>3. \A i \in DOMAIN net'[e] : IsData(net'[e][i]) => StillGenuine(e, net'[e][i])
  BY <1>1, <1>2, StaysGenuine, Numbered DEF FlowNet
<1>4. \A i, j \in DOMAIN net'[e] :
        i < j /\ IsData(net'[e][i]) /\ IsData(net'[e][j]) /\ net'[e][j].dst = net'[e][i].dst
        => net'[e][i].n < net'[e][j].n
  <2>1. \A i, j \in DOMAIN net'[e] : i < j => i + s < j + s
    BY <1>1
  <2>2. QED
    BY <1>1, <1>2, <2>1 DEF FlowNet
<1>5. FlowNet(e)'
  BY <1>3, <1>4 DEF FlowNet, Genuine, StillGenuine
<1>6. FlowHand(e)'
  <2>1. SUFFICES ASSUME loop'[e] = "got" PROVE FlowHand(e)'
    BY DEF FlowHand
  <2>2. loop[e] = "got" /\ hand'[e] = hand[e]
    BY <2>1 DEF HandKept
  <2>3. StillGenuine(e, hand[e])
    BY <1>1, <2>2, StaysGenuine, Numbered DEF FlowHand
  <2>4. QED
    BY <1>1, <1>2, <2>2, <2>3 DEF FlowHand, Genuine, StillGenuine
<1>7. ASSUME NEW d \in CIDs PROVE FlowReceived(e, d)'
  <2> DEFINE R == Received(<<e, d>>)
  <2>1. R' = R
    BY DEF ReceivedKept
  <2>2. ASSUME NEW i \in DOMAIN R
        PROVE  /\ StillGenuine(e, R[i]) /\ R[i].dst = d
               /\ \A j \in DOMAIN R : i < j => R[i].n < R[j].n
               /\ loop'[e] = "got" /\ hand'[e].dst = d => R[i].n < hand'[e].n
               /\ \A j \in DOMAIN net'[e] : IsData(net'[e][j]) /\ net'[e][j].dst = d => R[i].n < net'[e][j].n
    <3>1. /\ Genuine(e, R[i]) /\ R[i].dst = d /\ R[i].n \in Nat
          /\ \A j \in DOMAIN R : i < j => R[i].n < R[j].n
          /\ loop[e] = "got" /\ hand[e].dst = d => R[i].n < hand[e].n
          /\ \A j \in DOMAIN net[e] : IsData(net[e][j]) /\ net[e][j].dst = d => R[i].n < net[e][j].n
      BY <1>1, <2>2, Numbered DEF FlowReceived
    <3>2. StillGenuine(e, R[i])
      BY <3>1, StaysGenuine
    <3> HIDE DEF R
    <3>3. QED
      BY <1>2, <3>1, <3>2 DEF HandKept
  <2>3. QED
    BY <2>1, <2>2 DEF FlowReceived, Genuine, StillGenuine
<1>8. QED
  BY <1>5, <1>6, <1>7 DEF Flow

\* The payloads of a connection that are genuine come from one connection, and what
\* it writes next has a greater number.
LEMMA Fresh ==
  ASSUME Inv, NEW c \in Conns, NEW n \in 0 .. MaxData, Writing(c, n),
         NEW q, q.n \in Nat, Genuine(Peer(c[1]), q), q.dst = remote[c]
  PROVE  q.n < n
<1>1. Peer(Peer(c[1])) = c[1] /\ remote[c] # 0 /\ q.src \in CIDs /\ q.dst \in CIDs
  BY Named DEF Writing, Genuine
<1>2. q.src = c[2]
  <2>1. CASE c = Dialed(c[2])
    <3>1. remote[Dialed(q.src)] = remote[c] /\ c[2] \in CIDs
      BY <1>1, <2>1, Named DEF Genuine, Dialed
    <3>2. remote[Accepted(remote[c])] = q.src /\ remote[Accepted(remote[c])] = c[2]
      BY <1>1, <2>1, <3>1 DEF Inv, IdInv
    <3>3. QED
      BY <3>2
  <2>2. CASE c = Accepted(c[2])
    <3>1. remote[Accepted(q.src)] = remote[Accepted(c[2])] /\ c[2] \in CIDs
      BY <1>1, <2>2, Named DEF Genuine, Accepted
    <3>2. QED
      BY <1>1, <2>2, <3>1 DEF Inv, IdInv
  <2>3. QED
    BY <2>1, <2>2, Named
<1>3. <<Peer(Peer(c[1])), q.src>> = c
  BY <1>1, <1>2, Named DEF Conns
<1>4. q.n <= wrote[c] /\ pc[c] \notin {"none", "dialing"} /\ wrote[c] \in Nat
  <2>1. wrote[c] \in Nat
    BY Named DEF Inv, TypeOK
  <2>2. q.n <= wrote[c] /\ pc[c] \notin {"none", "dialing"}
    BY <1>3 DEF Genuine
  <2>3. QED
    BY <2>1, <2>2
<1>5. n = wrote[c] + 1
  BY <1>4 DEF Writing
<1>6. QED
  BY <1>4, <1>5

LEMMA FlowIfWritten ==
  ASSUME Inv, Steady, TypeOK', NEW c \in Conns, NEW n \in 0 .. MaxData, Writing(c, n)
  PROVE  Flow(Peer(c[1]))'
<1> DEFINE e == Peer(c[1])
           p == Packed("Data", c[2], remote[c], n)
           N == net[e]
<1>1. /\ TypeOK /\ FlowNet(e) /\ FlowHand(e) /\ \A d \in CIDs : FlowReceived(e, d)
      /\ e \in Ends /\ Peer(e) = c[1] /\ N \in Seq(Packet)
  <2>1. e \in Ends /\ Peer(e) = c[1]
    BY Named
  <2>2. QED
    <3>1. net \in [Ends -> Seq(Packet)]
      BY DEF Inv, TypeOK
    <3>2. N \in Seq(Packet)
      BY <2>1, <3>1
    <3>3. QED
      BY <2>1, <3>2 DEF Inv, Flow
<1>2. /\ p \in Packet /\ p.kind = "Data" /\ p.src = c[2] /\ p.dst = remote[c] /\ p.n = n
      /\ IsData(p)
  <2>1. c[2] \in 0 .. MaxDials /\ remote[c] \in 0 .. MaxDials
    <3>1. c[2] \in CIDs
      BY Named
    <3>2. remote[c] \in 0 .. MaxDials
      BY DEF Inv, TypeOK
    <3>3. QED
      BY <3>1, <3>2, Named
  <2>2. QED
    BY <2>1, PacketType DEF IsData
<1>3. StillGenuine(e, p)
  <2>1. <<Peer(e), p.src>> = c
    BY <1>1, <1>2, Named DEF Conns
  <2>2. p.src \in CIDs /\ p.dst \in CIDs
    <3>1. remote[c] \in 0 .. MaxDials /\ remote[c] # 0 /\ c[2] \in CIDs
      BY Named DEF Writing, Inv, TypeOK
    <3>2. QED
      BY <1>2, <3>1, Named DEF CIDs
  <2>3. n <= wrote'[c] /\ n \in Nat
    <3>1. wrote[c] \in Nat /\ wrote'[c] \in Nat /\ n \in Nat
      BY Named DEF Inv, TypeOK
    <3>2. QED
      BY <3>1 DEF Writing
  <2>4. QED
    BY <1>2, <2>1, <2>2, <2>3 DEF Writing, StillGenuine
<1>4. /\ net'[e] = Append(N, p)
      /\ UNCHANGED <<read, ack, loop, hand>>
  BY DEF Writing
<1>5. /\ DOMAIN net'[e] = 1 .. Len(N) + 1 /\ DOMAIN N = 1 .. Len(N) /\ Len(N) \in Nat
      /\ \A i \in 1 .. Len(N) : net'[e][i] = N[i]
      /\ net'[e][Len(N) + 1] = p
  BY <1>1, <1>2, <1>4, AppendSeq
<1>6. \A i \in 1 .. Len(N) + 1 : /\ i = Len(N) + 1 \/ i \in 1 .. Len(N)
                                 /\ ~(Len(N) + 1 < i)
  BY <1>5
<1>7. \A i \in 1 .. Len(N) : IsData(N[i]) =>
        /\ Genuine(e, N[i]) /\ StillGenuine(e, N[i])
        /\ N[i].dst = p.dst => N[i].n < p.n
  BY <1>1, <1>2, <1>5, StaysGenuine, Numbered, Fresh DEF FlowNet
<1>8. loop[e] = "got" =>
        /\ Genuine(e, hand[e]) /\ StillGenuine(e, hand[e])
        /\ hand[e].dst = p.dst => hand[e].n < p.n
  BY <1>1, <1>2, StaysGenuine, Numbered, Fresh DEF FlowHand
<1>9. \A d \in CIDs : Received(<<e, d>>)' = Received(<<e, d>>)
  BY <1>4 DEF Received
<1>10. ASSUME NEW d \in CIDs, NEW i \in DOMAIN Received(<<e, d>>)
       PROVE  LET x == Received(<<e, d>>)[i] IN
              /\ Genuine(e, x) /\ StillGenuine(e, x) /\ x.dst = d
              /\ d = p.dst => x.n < p.n
  <2>1. /\ Genuine(e, Received(<<e, d>>)[i]) /\ Received(<<e, d>>)[i].dst = d
        /\ Received(<<e, d>>)[i].n \in Nat
    BY <1>1, <1>10, Numbered DEF FlowReceived
  <2>2. QED
    BY <1>1, <1>2, <2>1, StaysGenuine, Fresh
<1> HIDE DEF p, N
<1>11. FlowNet(e)'
  <2>1. \A i \in DOMAIN net'[e] : IsData(net'[e][i]) => StillGenuine(e, net'[e][i])
    BY <1>3, <1>5, <1>6, <1>7
  <2>2. ASSUME NEW i \in DOMAIN net'[e], NEW j \in DOMAIN net'[e], i < j,
               IsData(net'[e][i]), IsData(net'[e][j]), net'[e][j].dst = net'[e][i].dst
        PROVE  net'[e][i].n < net'[e][j].n
    <3>1. i \in 1 .. Len(N)
      BY <1>5, <1>6, <2>2
    <3>2. CASE j = Len(N) + 1
      BY <1>5, <1>7, <2>2, <3>1, <3>2
    <3>3. CASE j \in 1 .. Len(N)
      BY <1>1, <1>5, <2>2, <3>1, <3>3 DEF FlowNet, N
    <3>4. QED
      BY <1>5, <1>6, <3>2, <3>3
  <2>3. QED
    BY <2>1, <2>2 DEF FlowNet, Genuine, StillGenuine
<1>12. FlowHand(e)'
  <2>1. SUFFICES ASSUME loop[e] = "got" PROVE FlowHand(e)'
    BY <1>4 DEF FlowHand
  <2>2. \A j \in 1 .. Len(N) : IsData(N[j]) /\ N[j].dst = hand[e].dst => hand[e].n < N[j].n
    BY <1>1, <1>5, <2>1 DEF FlowHand, N
  <2>3. \A j \in DOMAIN net'[e] : IsData(net'[e][j]) /\ net'[e][j].dst = hand[e].dst
          => hand[e].n < net'[e][j].n
    BY <1>5, <1>6, <1>8, <2>1, <2>2
  <2>4. QED
    BY <1>4, <1>8, <2>1, <2>3 DEF FlowHand, Genuine, StillGenuine
<1>13. ASSUME NEW d \in CIDs PROVE FlowReceived(e, d)'
  <2> DEFINE R == Received(<<e, d>>)
  <2>1. R' = R
    BY <1>9
  <2>2. ASSUME NEW i \in DOMAIN R
        PROVE  /\ StillGenuine(e, R[i]) /\ R[i].dst = d
               /\ \A j \in DOMAIN R : i < j => R[i].n < R[j].n
               /\ loop'[e] = "got" /\ hand'[e].dst = d => R[i].n < hand'[e].n
               /\ \A j \in DOMAIN net'[e] : IsData(net'[e][j]) /\ net'[e][j].dst = d => R[i].n < net'[e][j].n
    <3>1. /\ \A j \in DOMAIN R : i < j => R[i].n < R[j].n
          /\ loop[e] = "got" /\ hand[e].dst = d => R[i].n < hand[e].n
          /\ \A j \in DOMAIN N : IsData(N[j]) /\ N[j].dst = d => R[i].n < N[j].n
      BY <1>1, <2>2 DEF FlowReceived, N
    <3>2. StillGenuine(e, R[i]) /\ R[i].dst = d /\ (d = p.dst => R[i].n < p.n)
      BY <1>10, <2>2
    <3> HIDE DEF R
    <3>3. \A j \in DOMAIN net'[e] : IsData(net'[e][j]) /\ net'[e][j].dst = d => R[i].n < net'[e][j].n
      BY <1>5, <1>6, <3>1, <3>2
    <3>4. QED
      BY <1>4, <3>1, <3>2, <3>3
  <2>3. QED
    BY <2>1, <2>2 DEF FlowReceived, Genuine, StillGenuine
<1>14. QED
  BY <1>11, <1>12, <1>13 DEF Flow

LEMMA FlowIfTaken ==
  ASSUME Inv, Steady, TypeOK', NEW e \in Ends, RecvData(e)
  PROVE  Flow(e)'
<1> DEFINE N == net[e]
<1>1. /\ TypeOK /\ FlowNet(e) /\ FlowHand(e) /\ \A d \in CIDs : FlowReceived(e, d)
      /\ N \in Seq(Packet) /\ N # <<>> /\ net'[e] = Tail(N) /\ IsData(Head(N))
      /\ loop[e] = "recv" /\ UNCHANGED <<read, ack>>
  BY DEF Inv, Flow, TypeOK, RecvData, Receives, Taken, IsData
<1>2. hand'[e].src = N[1].src /\ hand'[e].dst = N[1].dst /\ hand'[e].n = N[1].n
  BY <1>1, TailSeq DEF RecvData, TypeOK
<1>3. /\ DOMAIN net'[e] = 1 .. Len(N) - 1 /\ DOMAIN N = 1 .. Len(N) /\ Len(N) \in Nat \ {0}
      /\ \A i \in 1 .. Len(N) - 1 : net'[e][i] = N[i + 1]
      /\ Head(N) = N[1]
  BY <1>1, TailSeq
<1>4. /\ 1 \in DOMAIN N
      /\ \A i \in DOMAIN net'[e] :
           /\ i + 1 \in DOMAIN N /\ 1 < i + 1 /\ net'[e][i] = N[i + 1]
           /\ \A j \in DOMAIN net'[e] : i < j => i + 1 < j + 1
  BY <1>3
<1>5. \A i \in DOMAIN N : IsData(N[i]) => StillGenuine(e, N[i])
  BY <1>1, StaysGenuine, Numbered DEF FlowNet
<1>6. FlowNet(e)'
  <2>1. \A i \in DOMAIN net'[e] : IsData(net'[e][i]) => StillGenuine(e, net'[e][i])
    BY <1>4, <1>5
  <2>2. \A i, j \in DOMAIN net'[e] :
          i < j /\ IsData(net'[e][i]) /\ IsData(net'[e][j]) /\ net'[e][j].dst = net'[e][i].dst
          => net'[e][i].n < net'[e][j].n
    BY <1>1, <1>4 DEF FlowNet
  <2>3. QED
    BY <2>1, <2>2 DEF FlowNet, Genuine, StillGenuine
<1>7. FlowHand(e)'
  <2>1. StillGenuine(e, N[1])
    BY <1>1, <1>3, <1>4, <1>5
  <2>2. StillGenuine(e, hand'[e])
    BY <1>2, <2>1 DEF StillGenuine
  <2>3. \A j \in DOMAIN net'[e] : IsData(net'[e][j]) /\ net'[e][j].dst = hand'[e].dst
          => hand'[e].n < net'[e][j].n
    <3>1. \A j \in DOMAIN N : 1 < j /\ IsData(N[j]) /\ N[j].dst = N[1].dst => N[1].n < N[j].n
      BY <1>1, <1>3, <1>4 DEF FlowNet
    <3> HIDE DEF N
    <3>2. QED
      BY <1>2, <1>4, <3>1
  <2>4. QED
    BY <2>2, <2>3 DEF FlowHand, Genuine, StillGenuine
<1>8. ASSUME NEW d \in CIDs PROVE FlowReceived(e, d)'
  <2> DEFINE R == Received(<<e, d>>)
  <2>1. R' = R
    BY <1>1 DEF Received
  <2>2. ASSUME NEW i \in DOMAIN R
        PROVE  /\ StillGenuine(e, R[i]) /\ R[i].dst = d
               /\ \A j \in DOMAIN R : i < j => R[i].n < R[j].n
               /\ loop'[e] = "got" /\ hand'[e].dst = d => R[i].n < hand'[e].n
               /\ \A j \in DOMAIN net'[e] : IsData(net'[e][j]) /\ net'[e][j].dst = d => R[i].n < net'[e][j].n
    <3>1. /\ Genuine(e, R[i]) /\ R[i].dst = d /\ R[i].n \in Nat
          /\ \A j \in DOMAIN R : i < j => R[i].n < R[j].n
          /\ \A j \in DOMAIN N : IsData(N[j]) /\ N[j].dst = d => R[i].n < N[j].n
      BY <1>1, <2>2, Numbered DEF FlowReceived
    <3>2. StillGenuine(e, R[i])
      BY <3>1, StaysGenuine
    <3> HIDE DEF R
    <3>3. IsData(N[1])
      BY <1>1, <1>3
    <3> HIDE DEF N
    <3>4. QED
      BY <1>2, <1>4, <3>1, <3>2, <3>3
  <2>3. QED
    BY <2>1, <2>2 DEF FlowReceived, Genuine, StillGenuine
<1>9. QED
  BY <1>6, <1>7, <1>8 DEF Flow

LEMMA FlowIfDelivered ==
  ASSUME Inv, Steady, TypeOK', NEW e \in Ends, Deliver(e)
  PROVE  Flow(e)'
<1> DEFINE h == hand[e]
           c == <<e, h.dst>>
<1>1. /\ TypeOK /\ FlowNet(e) /\ FlowHand(e) /\ \A d \in CIDs : FlowReceived(e, d)
      /\ loop[e] = "got" /\ loop'[e] = "recv" /\ net' = net /\ hand' = hand
      /\ c \in Conns /\ ack' = [ack EXCEPT ![c] = Append(@, h)] /\ read' = read
      /\ h \in Payload /\ read \in [Conns -> Seq(Payload)] /\ ack \in [Conns -> Seq(Payload)]
  BY DEF Inv, Flow, TypeOK, Deliver
<1>2. Genuine(e, h) /\ h.n \in Nat /\ StillGenuine(e, h)
  BY <1>1, StaysGenuine, Numbered DEF FlowHand
<1>3. FlowNet(e)'
  <2>1. \A i \in DOMAIN net[e] : IsData(net[e][i]) => StillGenuine(e, net[e][i])
    BY <1>1, StaysGenuine, Numbered DEF FlowNet
  <2>2. QED
    BY <1>1, <2>1 DEF FlowNet, Genuine, StillGenuine
<1>4. FlowHand(e)'
  BY <1>1 DEF FlowHand
<1>5. ASSUME NEW d \in CIDs
      PROVE  \A i \in DOMAIN Received(<<e, d>>) :
               /\ StillGenuine(e, Received(<<e, d>>)[i]) /\ Received(<<e, d>>)[i].dst = d
               /\ \A j \in DOMAIN Received(<<e, d>>) : i < j => Received(<<e, d>>)[i].n < Received(<<e, d>>)[j].n
               /\ h.dst = d => Received(<<e, d>>)[i].n < h.n
               /\ \A j \in DOMAIN net[e] : IsData(net[e][j]) /\ net[e][j].dst = d
                    => Received(<<e, d>>)[i].n < net[e][j].n
  <2>1. ASSUME NEW i \in DOMAIN Received(<<e, d>>) PROVE StillGenuine(e, Received(<<e, d>>)[i])
    BY <1>1, <2>1, StaysGenuine, Numbered DEF FlowReceived
  <2>2. QED
    BY <1>1, <2>1 DEF FlowReceived
<1>6. ASSUME NEW d \in CIDs PROVE FlowReceived(e, d)'
  <2> DEFINE R == Received(<<e, d>>)
  <2>1. <<e, d>> \in Conns /\ R \in Seq(Payload)
    BY <1>1, Numbered DEF Conns
  <2>2. CASE d # h.dst
    <3>1. R' = R
      BY <1>1, <2>1, <2>2 DEF Received
    <3>2. ASSUME NEW i \in DOMAIN R
          PROVE  /\ StillGenuine(e, R[i]) /\ R[i].dst = d
                 /\ \A j \in DOMAIN R : i < j => R[i].n < R[j].n
                 /\ \A j \in DOMAIN net[e] : IsData(net[e][j]) /\ net[e][j].dst = d => R[i].n < net[e][j].n
      BY <1>5, <3>2
    <3>3. QED
      BY <1>1, <3>1, <3>2 DEF FlowReceived, Genuine, StillGenuine
  <2>3. CASE d = h.dst
    <3>1. R' = Append(R, h)
      <4>1. R' = read[c] \o Append(ack[c], h) /\ R = read[c] \o ack[c]
        BY <1>1, <2>1, <2>3 DEF Received
      <4>2. read[c] \in Seq(Payload) /\ ack[c] \in Seq(Payload)
        BY <1>1
      <4>3. read[c] \o Append(ack[c], h) = Append(read[c] \o ack[c], h)
        BY <1>1, <4>2, AppendRight
      <4>4. QED
        BY <4>1, <4>3
    <3>2. /\ DOMAIN R' = 1 .. Len(R) + 1 /\ DOMAIN R = 1 .. Len(R) /\ Len(R) \in Nat
          /\ \A i \in 1 .. Len(R) : R'[i] = R[i]
          /\ R'[Len(R) + 1] = h
      <4> HIDE DEF R
      <4>1. R \in Seq(Payload) /\ h \in Payload
        BY <1>1, <2>1
      <4>2. QED
        BY <3>1, <4>1, AppendSeq
    <3>3. \A i \in 1 .. Len(R) + 1 : /\ i = Len(R) + 1 \/ i \in 1 .. Len(R)
                                     /\ ~(Len(R) + 1 < i)
      BY <3>2
    <3>4. \A j \in DOMAIN net[e] : IsData(net[e][j]) /\ net[e][j].dst = d => h.n < net[e][j].n
      BY <1>1, <2>3 DEF FlowHand
    <3>5. \A i \in 1 .. Len(R) :
            /\ StillGenuine(e, R[i]) /\ R[i].dst = d /\ R[i].n < h.n
            /\ \A j \in 1 .. Len(R) : i < j => R[i].n < R[j].n
            /\ \A j \in DOMAIN net[e] : IsData(net[e][j]) /\ net[e][j].dst = d => R[i].n < net[e][j].n
      BY <1>5, <2>3, <3>2
    <3>6. ASSUME NEW i \in DOMAIN R'
          PROVE  /\ StillGenuine(e, R'[i]) /\ R'[i].dst = d
                 /\ \A j \in DOMAIN R' : i < j => R'[i].n < R'[j].n
                 /\ \A j \in DOMAIN net[e] : IsData(net[e][j]) /\ net[e][j].dst = d => R'[i].n < net[e][j].n
      <4>1. CASE i = Len(R) + 1
        <5>1. R'[i] = h /\ \A j \in DOMAIN R' : ~(i < j)
          BY <3>2, <3>3, <4>1
        <5>2. QED
          BY <1>2, <2>3, <3>4, <5>1
      <4>2. CASE i \in 1 .. Len(R)
        <5>1. \A j \in DOMAIN R' : i < j => R[i].n < R'[j].n
          BY <3>2, <3>3, <3>5, <4>2
        <5>2. R'[i] = R[i]
          BY <3>2, <4>2
        <5>3. QED
          BY <3>5, <4>2, <5>1, <5>2
      <4>3. QED
        BY <3>2, <3>3, <4>1, <4>2
    <3>7. QED
      BY <1>1, <3>6 DEF FlowReceived, Genuine, StillGenuine
  <2>4. QED
    BY <2>2, <2>3
<1>7. QED
  BY <1>3, <1>4, <1>6 DEF Flow

LEMMA FlowStep ==
  ASSUME Inv, [Next]_vars, TypeOK', NEW e \in Ends
  PROVE  Flow(e)'
<1>1. Steady
  BY SteadyStep
<1>2. CASE RecvData(e)
  BY <1>1, <1>2, FlowIfTaken
<1>3. CASE Deliver(e)
  BY <1>1, <1>3, FlowIfDelivered
<1>4. CASE \E c \in Conns : \E n \in 0 .. MaxData : Writing(c, n) /\ e = Peer(c[1])
  BY <1>1, <1>4, FlowIfWritten
<1>5. CASE ~RecvData(e) /\ ~Deliver(e) /\ \E s \in {0, 1} : Kept(e, s, "Data")
  BY <1>1, <1>5, FlowIfKept, ReceivedStep, HandStep
<1>6. QED
  BY <1>2, <1>3, <1>4, <1>5, DataKept

-----------------------------------------------------------------------------
(* The acknowledgement comes first                                          *)

LEMMA ListedStep ==
  ASSUME Inv, [Next]_vars, NEW k \in CIDs, Dialed(k) \in listed'
  PROVE  Dialed(k) \in listed \/ Pending(k)
<1> DEFINE Goal == Dialed(k) \in listed \/ Pending(k)
<1>1. ASSUME listed' \subseteq listed PROVE Goal
  BY <1>1
<1>2. ASSUME NEW j \in CIDs, OpenStep(j) PROVE Goal
  BY <1>1, <1>2, Named DEF OpenStep, Pending, SendOpen, Opened, OpenFails
<1>3. ASSUME NEW j \in CIDs, UseStep(j) \/ AcceptStep(j) \/ CopyStep(j) PROVE Goal
  BY <1>1, <1>3 DEF UseStep, DialerWrites, DialerReads, DialerCloses, AcceptStep, DialFails,
                    DialSucceeds, StartCopying, CopyingEnds, CopyStep, CopyIn, CopyInEnds,
                    CopyOut, CopyOutEnds
<1>4. ASSUME NEW j \in CIDs, Accept(j) PROVE Goal
  <2>1. autoinc["acceptor"] + 1 \in CIDs /\ listed' = listed \cup {Accepted(autoinc["acceptor"] + 1)}
    BY <1>4, Accepting DEF Accept
  <2>2. QED
    BY <2>1, Named
<1>5. ASSUME NEW e \in Ends, RecvStep(e) PROVE Goal
  BY <1>1, <1>5 DEF RecvStep, RecvOpen, RecvClose, RecvData, RecvUnknown, Deliver, DropFull, Panic
<1>6. ASSUME (\E c \in Conns : CloseStep(c)) \/ TunnelLost \/ UNCHANGED vars PROVE Goal
  BY <1>1, <1>6 DEF CloseStep, Close, SendClose, TunnelLost, Unlist, vars
<1>7. ASSUME NEW e \in Ends, Flush(e) PROVE Goal
  BY <1>1, <1>7 DEF Flush, Unlist
<1>8. ASSUME NEW e \in Ends, NEW i \in 0 .. MaxDials, CloseByPeer(e, i) PROVE Goal
  BY <1>1, <1>8 DEF CloseByPeer, Unlist
<1>9. QED
  BY <1>2, <1>3, <1>4, <1>5, <1>6, <1>7, <1>8 DEF Next

\* An accepted connection whose dial has succeeded had sent its acknowledgement, or does.
LEMMA AckedStep ==
  ASSUME Inv, [Next]_vars, NEW r \in CIDs, up', remote'[Accepted(r)] # 0,
         pc'[Accepted(r)] \in {"acked", "copy"}
  PROVE  /\ up /\ remote'[Accepted(r)] = remote[Accepted(r)]
         /\ pc[Accepted(r)] \in {"acked", "copy"} \/ Writing(Accepted(r), 0)
<1> DEFINE c == Accepted(r)
           Goal == up /\ (pc[c] \in {"acked", "copy"} \/ Writing(c, 0))
<1>1. pc \in [Conns -> PCs] /\ c \in Conns
  BY Named DEF Inv, TypeOK
<1>2. ASSUME up' = up, pc'[c] = pc[c] PROVE Goal
  BY <1>2
<1>3. CASE UNCHANGED vars
  BY <1>2, <1>3 DEF vars
<1>4. ASSUME NEW k \in CIDs, OpenStep(k) PROVE Goal
  <2>1. up' = up
    BY <1>4 DEF OpenStep, Pending, SendOpen, Opened, OpenFails
  <2>2. pc'[c] = pc[c]
    <3>1. \E v : pc' = [pc EXCEPT ![Dialed(k)] = v]
      BY <1>4 DEF OpenStep, Pending, SendOpen, Opened, OpenFails
    <3>2. QED
      BY <1>1, <3>1, Named
  <2>3. QED
    BY <1>2, <2>1, <2>2
<1>5. ASSUME NEW k \in CIDs, UseStep(k) PROVE Goal
  <2>1. up' = up
    BY <1>5 DEF UseStep, DialerWrites, DialerReads, DialerCloses
  <2>2. pc'[c] = pc[c]
    <3>1. \E v : pc' = [pc EXCEPT ![Dialed(k)] = v] \/ pc' = pc
      BY <1>5 DEF UseStep, DialerWrites, DialerReads, DialerCloses
    <3>2. QED
      BY <1>1, <3>1, Named
  <2>3. QED
    BY <1>2, <2>1, <2>2
<1>6. ASSUME NEW b \in Conns, CloseStep(b) PROVE Goal
  <2>1. up' = up /\ (pc' = [pc EXCEPT ![b] = "sendclose"] \/ pc' = [pc EXCEPT ![b] = "done"])
    BY <1>6 DEF CloseStep, Close, SendClose
  <2>2. pc'[c] = pc[c]
    BY <1>1, <2>1
  <2>3. QED
    BY <1>2, <2>1, <2>2
<1>7. ASSUME NEW k \in CIDs, Accept(k) PROVE Goal
  <2>1. up' = up /\ pc' = [pc EXCEPT ![Accepted(autoinc["acceptor"] + 1)] = "dialing"]
    BY <1>7 DEF Accept
  <2>2. pc'[c] = pc[c]
    BY <1>1, <2>1
  <2>3. QED
    BY <1>2, <2>1, <2>2
<1>8. ASSUME NEW s \in CIDs, AcceptStep(s) PROVE Goal
  <2>1. CASE DialFails(s)
    <3>1. up' = up /\ pc'[c] = pc[c]
      BY <1>1, <2>1 DEF DialFails
    <3>2. QED
      BY <1>2, <3>1
  <2>2. CASE DialSucceeds(s)
    <3>1. up' = up /\ pc' = [pc EXCEPT ![Accepted(s)] = IF up THEN "acked" ELSE "close"]
      BY <2>2 DEF DialSucceeds
    <3>2. CASE s = r
      BY <1>1, <2>2, <3>1, <3>2, WriteStep
    <3>3. CASE s # r
      BY <1>1, <1>2, <3>1, <3>3, Named
    <3>4. QED
      BY <3>2, <3>3
  <2>3. CASE StartCopying(s)
    BY <1>1, <2>3, Named DEF StartCopying
  <2>4. CASE CopyingEnds(s)
    <3>1. up' = up /\ pc'[c] = pc[c]
      BY <1>1, <2>4 DEF CopyingEnds
    <3>2. QED
      BY <1>2, <3>1
  <2>5. QED
    BY <1>8, <2>1, <2>2, <2>3, <2>4 DEF AcceptStep
<1>9. ASSUME NEW s \in CIDs, CopyStep(s) PROVE Goal
  BY <1>2, <1>9 DEF CopyStep, CopyIn, CopyInEnds, CopyOut, CopyOutEnds
<1>10. ASSUME NEW e \in Ends, RecvStep(e) \/ Flush(e) PROVE Goal
  BY <1>2, <1>10 DEF RecvStep, RecvOpen, RecvClose, RecvData, RecvUnknown, Deliver, DropFull,
                     Panic, Flush
<1>11. ASSUME NEW e \in Ends, NEW i \in 0 .. MaxDials, CloseByPeer(e, i) PROVE Goal
  BY <1>2, <1>11 DEF CloseByPeer
<1>12. CASE TunnelLost
  BY <1>12 DEF TunnelLost
<1>13. Goal
  BY <1>3, <1>4, <1>5, <1>6, <1>7, <1>8, <1>9, <1>10, <1>11, <1>12 DEF Next
<1>14. pc[c] # "none"
  BY <1>13 DEF Writing, Inv, PhaseInv
<1>15. remote[c] # 0
  BY <1>14 DEF Inv, IdInv
<1>16. QED
  BY <1>1, <1>13, <1>15, SteadyStep DEF Steady

\* As long as k is listed, the packets to the dialer that matter to it change in one of
\* these ways, or are gone with the tunnel.
LEMMA AcksKept ==
  ASSUME Inv, [Next]_vars, NEW k \in CIDs, Dialed(k) \in listed, ~RecvData("dialer"),
         net'["dialer"] # <<>> \/ up',
         \A r \in CIDs : \A n \in 0 .. MaxData : ~Writing(Accepted(r), n)
  PROVE  \E s \in {0, 1} :
           /\ Kept("dialer", s, "Data")
           /\ \A j \in DOMAIN net["dialer"] : IsAck(net["dialer"][j], k) =>
                j - s \in DOMAIN net'["dialer"] /\ net'["dialer"][j - s] = net["dialer"][j]
<1> DEFINE N == net["dialer"]
           M == net'["dialer"]
           Stay(s) == \A j \in DOMAIN N : IsAck(N[j], k) => j - s \in DOMAIN M /\ M[j - s] = N[j]
<1>1. N \in Seq(Packet) /\ DOMAIN N = 1 .. Len(N) /\ Len(N) \in Nat
  BY Named DEF Inv, TypeOK
<1>2. ASSUME M = N PROVE Kept("dialer", 0, "Data") /\ Stay(0)
  <2>1. \A i \in DOMAIN N : i + 0 = i /\ i - 0 = i
    BY <1>1
  <2>2. QED
    BY <1>2, <2>1 DEF Kept
<1>3. CASE N # <<>> /\ M = Tail(N) /\ (Head(N).kind # "Data" \/ <<"dialer", Head(N).dst>> \notin listed)
  <2>1. /\ DOMAIN M = 1 .. Len(N) - 1
        /\ \A i \in 1 .. Len(N) - 1 : M[i] = N[i + 1]
        /\ Head(N) = N[1]
    BY <1>1, <1>3, TailSeq
  <2>2. ~IsAck(N[1], k)
    BY <1>3, <2>1 DEF IsAck, IsData, Dialed
  <2>3. \A i \in DOMAIN M : i + 1 \in DOMAIN N /\ N[i + 1] = M[i]
    BY <1>1, <2>1
  <2>4. \A j \in DOMAIN N : j # 1 => j - 1 \in DOMAIN M /\ M[j - 1] = N[j]
    BY <1>1, <2>1
  <2> HIDE DEF N, M
  <2>5. Kept("dialer", 1, "Data")
    BY <2>3 DEF Kept, N, M
  <2>6. Stay(1)
    BY <2>2, <2>4
  <2>7. QED
    BY <2>5, <2>6 DEF N, M
<1>4. ASSUME NEW p \in Packet, p.kind = "Close", M = Append(N, p)
      PROVE  Kept("dialer", 0, "Data") /\ Stay(0)
  <2>1. /\ DOMAIN M = 1 .. Len(N) + 1
        /\ \A i \in 1 .. Len(N) : M[i] = N[i]
        /\ M[Len(N) + 1] = p
    BY <1>1, <1>4, AppendSeq
  <2>2. \A i \in 1 .. Len(N) + 1 :
          i = Len(N) + 1 \/ (i \in 1 .. Len(N) /\ i + 0 = i /\ i - 0 = i)
    BY <1>1
  <2>3. \A i \in 1 .. Len(N) : i \in 1 .. Len(N) + 1 /\ i - 0 = i
    BY <1>1
  <2> HIDE DEF N, M
  <2>4. Kept("dialer", 0, "Data")
    BY <1>1, <1>4, <2>1, <2>2 DEF Kept, N, M
  <2>5. Stay(0)
    BY <1>1, <2>1, <2>3
  <2>6. QED
    BY <2>4, <2>5
<1>5. ASSUME NEW j \in CIDs, SendOpen(j) PROVE M = N
  <2>1. SendPkt(Dialed(j), "Open", 0) /\ TypeOK
    BY <1>5 DEF SendOpen, Inv
  <2>2. QED
    BY <2>1, Sent, Named
<1>6. ASSUME NEW c \in Conns, NEW n \in 0 .. MaxData, Writing(c, n) PROVE M = N
  <2>1. c = Dialed(c[2])
    BY <1>6, Named
  <2>2. QED
    BY <1>6, <2>1, Named DEF Writing
<1> HIDE DEF N, M, Stay
<1>7. CASE NothingNew("dialer")
  <2>1. \/ M = N
        \/ N # <<>> /\ M = Tail(N) /\ (Head(N).kind # "Data" \/ <<"dialer", Head(N).dst>> \notin listed)
        \/ \E p \in Packet : p.kind = "Close" /\ M = Append(N, p)
    BY <1>7 DEF NothingNew, N, M
  <2>2. QED
    BY <1>2, <1>3, <1>4, <2>1 DEF N, M, Stay
<1>8. CASE M = N
  BY <1>2, <1>8 DEF N, M, Stay
<1>9. QED
  BY <1>5, <1>6, <1>7, <1>8, NetStep, Named DEF Writes

\* The frame: nothing was taken, and what was on its way for k still is.
LEMMA AheadIfKept ==
  ASSUME Inv, [Next]_vars, NEW k \in CIDs, AckAhead(k),
         NEW s \in {0, 1}, Kept("dialer", s, "Data"),
         \A j \in DOMAIN net["dialer"] : IsAck(net["dialer"][j], k) =>
           j - s \in DOMAIN net'["dialer"] /\ net'["dialer"][j - s] = net["dialer"][j],
         HandAck(k) => HandAck(k)',
         loop'["dialer"] = "got" /\ hand'["dialer"].dst = k => hand'["dialer"].n = 0,
         \A r \in CIDs : \A n \in 0 .. MaxData : ~Writing(Accepted(r), n)
  PROVE  AckAhead(k)'
<1> DEFINE N == net["dialer"]
           M == net'["dialer"]
<1>1. \A i \in DOMAIN M : IsData(M[i]) => i + s \in DOMAIN N /\ N[i + s] = M[i]
  BY DEF Kept, IsData
<1>2. \A j \in DOMAIN N : IsAck(N[j], k) => j - s \in DOMAIN M /\ M[j - s] = N[j]
  OBVIOUS
<1>3. \A i \in DOMAIN M : \A j \in DOMAIN N : j < i + s => j - s < i
  <2>1. (\A i \in DOMAIN M : i \in Int) /\ (\A j \in DOMAIN N : j \in Int)
    <3>1. N \in Seq(Packet) /\ M \in Seq(Packet)
      <4>1. TypeOK /\ TypeOK' /\ "dialer" \in Ends
        BY TypeStep, Named DEF Inv
      <4>2. QED
        BY <4>1 DEF TypeOK
    <3>2. QED
      BY <3>1
  <2>2. QED
    BY <2>1
<1>4. /\ \A i \in DOMAIN N : IsData(N[i]) /\ N[i].dst = k /\ N[i].n # 0 =>
           HandAck(k) \/ \E j \in DOMAIN N : j < i /\ IsAck(N[j], k)
      /\ \A r \in CIDs : up /\ remote[Accepted(r)] = k /\ pc[Accepted(r)] \in {"acked", "copy"} =>
           HandAck(k) \/ \E j \in DOMAIN N : IsAck(N[j], k)
  BY DEF AckAhead
<1> HIDE DEF N, M
<1>5. loop'["dialer"] = "got" /\ hand'["dialer"].dst = k => hand'["dialer"].n = 0
  OBVIOUS
<1>6. ASSUME NEW i \in DOMAIN M, IsData(M[i]), M[i].dst = k, M[i].n # 0
      PROVE  HandAck(k)' \/ \E j \in DOMAIN M : j < i /\ IsAck(M[j], k)
  <2>1. HandAck(k) \/ \E j \in DOMAIN N : j < i + s /\ IsAck(N[j], k)
    BY <1>1, <1>4, <1>6
  <2>2. QED
    BY <1>2, <1>3, <2>1
<1>7. ASSUME NEW r \in CIDs, up', remote'[Accepted(r)] = k, pc'[Accepted(r)] \in {"acked", "copy"}
      PROVE  HandAck(k)' \/ \E j \in DOMAIN M : IsAck(M[j], k)
  <2>1. k # 0 /\ 0 \in 0 .. MaxData
    BY Named
  <2>2. up /\ remote[Accepted(r)] = k /\ pc[Accepted(r)] \in {"acked", "copy"}
    BY <1>7, <2>1, AckedStep
  <2>3. HandAck(k) \/ \E j \in DOMAIN N : IsAck(N[j], k)
    BY <1>4, <2>2
  <2>4. QED
    BY <1>2, <2>3
<1>8. QED
  BY <1>5, <1>6, <1>7 DEF AckAhead, HandAck, M

LEMMA AheadIfTaken ==
  ASSUME Inv, [Next]_vars, NEW k \in CIDs, AckAhead(k), RecvData("dialer"),
         \A r \in CIDs : \A n \in 0 .. MaxData : ~Writing(Accepted(r), n)
  PROVE  AckAhead(k)'
<1> DEFINE N == net["dialer"]
           M == net'["dialer"]
<1>1. /\ N \in Seq(Packet) /\ N # <<>> /\ M = Tail(N) /\ IsData(Head(N))
      /\ loop["dialer"] = "recv" /\ loop'["dialer"] = "got"
      /\ hand'["dialer"] = [src |-> Head(N).src, dst |-> Head(N).dst, n |-> Head(N).n]
  BY Named DEF Inv, TypeOK, RecvData, Receives, Taken, IsData
<1>2. /\ DOMAIN M = 1 .. Len(N) - 1 /\ DOMAIN N = 1 .. Len(N) /\ Len(N) \in Nat \ {0}
      /\ \A i \in 1 .. Len(N) - 1 : M[i] = N[i + 1]
      /\ Head(N) = N[1]
  BY <1>1, TailSeq
<1>3. hand'["dialer"].dst = N[1].dst /\ hand'["dialer"].n = N[1].n
  BY <1>1, <1>2
<1>4. ~HandAck(k)
  BY <1>1 DEF HandAck
<1>5. IsData(N[1]) /\ 1 \in DOMAIN N /\ \A j \in DOMAIN N : ~(j < 1)
  BY <1>1, <1>2
<1>6. N[1].dst = k => N[1].n = 0
  BY <1>4, <1>5 DEF AckAhead
<1>7. CASE N[1].dst = k
  <2>1. HandAck(k)'
    BY <1>1, <1>3, <1>6, <1>7 DEF HandAck
  <2>2. QED
    BY <1>3, <1>6, <2>1 DEF AckAhead, HandAck
<1>8. CASE N[1].dst # k
  <2>1. \A i \in DOMAIN M : i + 1 \in DOMAIN N /\ N[i + 1] = M[i]
    BY <1>2
  <2>2. \A j \in DOMAIN N : j # 1 => j - 1 \in DOMAIN M /\ M[j - 1] = N[j]
    BY <1>2
  <2>3. Kept("dialer", 1, "Data")
    BY <2>1 DEF Kept
  <2>4. \A j \in DOMAIN N : IsAck(N[j], k) => j - 1 \in DOMAIN M /\ M[j - 1] = N[j]
    BY <1>8, <2>2 DEF IsAck
  <2>5. loop'["dialer"] = "got" /\ hand'["dialer"].dst = k => hand'["dialer"].n = 0
    BY <1>3, <1>8
  <2>6. QED
    BY <1>4, <2>3, <2>4, <2>5, AheadIfKept
<1>9. QED
  BY <1>7, <1>8

LEMMA AheadIfWritten ==
  ASSUME Inv, [Next]_vars, NEW k \in CIDs, AckAhead(k),
         NEW r \in CIDs, NEW n \in 0 .. MaxData, Writing(Accepted(r), n)
  PROVE  AckAhead(k)'
<1> DEFINE c == Accepted(r)
           p == Packed("Data", r, remote[Accepted(r)], n)
           N == net["dialer"]
           M == net'["dialer"]
<1>1. /\ p \in Packet /\ p.kind = "Data" /\ p.dst = remote[c] /\ p.n = n
  <2>1. r \in 0 .. MaxDials /\ remote[c] \in 0 .. MaxDials
    BY Named DEF Inv, TypeOK
  <2>2. QED
    BY <2>1, PacketType
<1>2. /\ N \in Seq(Packet) /\ M = Append(N, p)
      /\ up /\ UNCHANGED <<loop, hand, remote>>
      /\ \A s \in CIDs : s # r => pc'[Accepted(s)] = pc[Accepted(s)]
      /\ \/ n = wrote[c] + 1 /\ pc[c] = "copy"
         \/ n = 0
  <2>1. /\ Peer(c[1]) = "dialer" /\ c[2] = r /\ "dialer" \in Ends
        /\ \A s \in CIDs : s # r => Accepted(s) \in Conns /\ Accepted(s) # c
        /\ c[1] = "acceptor"
    BY Named
  <2>2. N \in Seq(Packet)
    BY <2>1 DEF Inv, TypeOK
  <2>3. M = Append(N, p)
    BY <2>1 DEF Writing
  <2>4. /\ up /\ UNCHANGED <<loop, hand, remote>>
        /\ \A s \in CIDs : s # r => pc'[Accepted(s)] = pc[Accepted(s)]
        /\ \/ n = wrote[c] + 1 /\ pc[c] = "copy"
           \/ n = 0
    BY <2>1 DEF Writing
  <2>5. QED
    BY <2>2, <2>3, <2>4
<1>3. /\ DOMAIN M = 1 .. Len(N) + 1 /\ DOMAIN N = 1 .. Len(N) /\ Len(N) \in Nat
      /\ \A i \in 1 .. Len(N) : M[i] = N[i]
      /\ M[Len(N) + 1] = p
  BY <1>1, <1>2, AppendSeq
<1>4. /\ \A i \in DOMAIN M : i = Len(N) + 1 \/ i \in DOMAIN N
      /\ \A i \in DOMAIN N : i \in DOMAIN M /\ i < Len(N) + 1
      /\ Len(N) + 1 \in DOMAIN M
  BY <1>3
<1>5. HandAck(k)' <=> HandAck(k)
  BY <1>2 DEF HandAck
<1>6. /\ \A i \in DOMAIN N : IsData(N[i]) /\ N[i].dst = k /\ N[i].n # 0 =>
           HandAck(k) \/ \E j \in DOMAIN N : j < i /\ IsAck(N[j], k)
      /\ \A s \in CIDs : remote[Accepted(s)] = k /\ pc[Accepted(s)] \in {"acked", "copy"} =>
           HandAck(k) \/ \E j \in DOMAIN N : IsAck(N[j], k)
      /\ loop["dialer"] = "got" /\ hand["dialer"].dst = k => hand["dialer"].n = 0
  BY <1>2 DEF AckAhead
<1>7. n = 0 => IsAck(p, remote[c])
  BY <1>1 DEF IsAck, IsData
<1> HIDE DEF p, N, M
<1>8. ASSUME NEW i \in DOMAIN M, IsData(M[i]), M[i].dst = k, M[i].n # 0
      PROVE  HandAck(k) \/ \E j \in DOMAIN M : j < i /\ IsAck(M[j], k)
  <2>1. CASE i \in DOMAIN N
    <3>1. M[i] = N[i] /\ \A j \in DOMAIN N : j \in DOMAIN M /\ M[j] = N[j]
      BY <1>3, <1>4, <2>1
    <3>2. QED
      BY <1>6, <1>8, <2>1, <3>1
  <2>2. CASE i = Len(N) + 1
    <3>1. remote[c] = k /\ pc[c] = "copy"
      BY <1>1, <1>2, <1>3, <1>8, <2>2
    <3>2. \A j \in DOMAIN N : j \in DOMAIN M /\ M[j] = N[j] /\ j < i
      BY <1>3, <1>4, <2>2
    <3>3. QED
      BY <1>6, <3>1, <3>2
  <2>3. QED
    BY <1>4, <2>1, <2>2
<1>9. ASSUME NEW s \in CIDs, remote[Accepted(s)] = k, pc'[Accepted(s)] \in {"acked", "copy"}
      PROVE  HandAck(k) \/ \E j \in DOMAIN M : IsAck(M[j], k)
  <2>1. \A j \in DOMAIN N : j \in DOMAIN M /\ M[j] = N[j]
    BY <1>3, <1>4
  <2>2. CASE pc[Accepted(s)] \in {"acked", "copy"}
    BY <1>6, <1>9, <2>1, <2>2
  <2>3. CASE s = r /\ n = 0
    BY <1>3, <1>4, <1>7, <1>9, <2>3
  <2>4. QED
    BY <1>2, <1>9, <2>2, <2>3
<1>10. QED
  BY <1>2, <1>5, <1>6, <1>8, <1>9 DEF AckAhead, HandAck, M

LEMMA AheadIfPending ==
  ASSUME Inv, NEW k \in CIDs, Pending(k)
  PROVE  AckAhead(k)'
<1>1. /\ ~Started(k) /\ UNCHANGED <<net, loop, hand, remote>>
      /\ \A r \in CIDs : pc'[Accepted(r)] = pc[Accepted(r)]
  BY Named DEF Pending, Started, Inv, TypeOK
<1>2. \A r \in CIDs : remote[Accepted(r)] # k
  BY <1>1, Named DEF Inv, IdInv
<1>3. \A p : ~(Genuine("dialer", p) /\ p.dst = k)
  BY <1>2, Named DEF Genuine, Accepted
<1>4. FlowNet("dialer") /\ FlowHand("dialer")
  BY Named DEF Inv, Flow
<1>5. /\ \A i \in DOMAIN net["dialer"] : IsData(net["dialer"][i]) => net["dialer"][i].dst # k
      /\ loop["dialer"] = "got" => hand["dialer"].dst # k
  BY <1>3, <1>4 DEF FlowNet, FlowHand
<1>6. QED
  BY <1>1, <1>2, <1>5 DEF AckAhead

LEMMA AheadStep ==
  ASSUME Inv, [Next]_vars, NEW k \in CIDs, Dialed(k) \in listed', Received(Dialed(k)) = <<>>,
         ~(Deliver("dialer") /\ hand["dialer"].dst = k)
  PROVE  AckAhead(k)'
<1>1. CASE Pending(k)
  BY <1>1, AheadIfPending
<1>2. SUFFICES ASSUME ~Pending(k) PROVE AckAhead(k)'
  BY <1>1
<1>3. Dialed(k) \in listed /\ AckAhead(k)
  BY <1>2, ListedStep DEF Inv, AckInv
<1>4. CASE RecvData("dialer") /\ \A r \in CIDs : \A n \in 0 .. MaxData : ~Writing(Accepted(r), n)
  BY <1>3, <1>4, AheadIfTaken
<1>5. CASE \E r \in CIDs : \E n \in 0 .. MaxData : Writing(Accepted(r), n)
  BY <1>3, <1>5, AheadIfWritten
<1>6. SUFFICES ASSUME ~RecvData("dialer"),
                      \A r \in CIDs : \A n \in 0 .. MaxData : ~Writing(Accepted(r), n)
               PROVE  AckAhead(k)'
  BY <1>4, <1>5
<1>7. HandKept("dialer")
  BY <1>6, HandStep, Named
<1>8. loop'["dialer"] = "got" /\ hand'["dialer"].dst = k => hand'["dialer"].n = 0
  BY <1>3, <1>7 DEF HandKept, AckAhead
<1>9. CASE net'["dialer"] = <<>> /\ ~up'
  BY <1>8, <1>9 DEF AckAhead
<1>10. CASE ~(net'["dialer"] = <<>> /\ ~up')
  <2>1. HandAck(k) => HandAck(k)'
    <3>1. SUFFICES ASSUME HandAck(k) PROVE HandAck(k)'
      OBVIOUS
    <3>2. ~Panic("dialer")
      BY <1>10, Named DEF Panic
    <3>3. ~DropFull("dialer")
      <4>1. SUFFICES ASSUME DropFull("dialer") PROVE FALSE
        OBVIOUS
      <4>2. Len(ack[Dialed(k)]) = AckSize
        BY <3>1, <4>1 DEF DropFull, HandAck, Dialed
      <4>3. read[Dialed(k)] \in Seq(Payload) /\ ack[Dialed(k)] \in Seq(Payload)
        BY Named DEF Inv, TypeOK
      <4>4. Len(ack[Dialed(k)]) = 0
        BY <4>3 DEF Received
      <4>5. QED
        BY <4>2, <4>4, TunnelConnAssumption
    <3>4. ~Deliver("dialer") /\ loop["dialer"] = "got"
      BY <3>1 DEF HandAck
    <3>5. QED
      BY <1>7, <3>1, <3>2, <3>3, <3>4 DEF HandKept, HandAck
  <2>2. PICK s \in {0, 1} :
           /\ Kept("dialer", s, "Data")
           /\ \A j \in DOMAIN net["dialer"] : IsAck(net["dialer"][j], k) =>
                j - s \in DOMAIN net'["dialer"] /\ net'["dialer"][j - s] = net["dialer"][j]
    BY <1>3, <1>6, <1>10, AcksKept
  <2>3. QED
    BY <1>3, <1>6, <1>8, <2>1, <2>2, AheadIfKept
<1>11. QED
  BY <1>9, <1>10

LEMMA AckStep ==
  ASSUME Inv, [Next]_vars, TypeOK'
  PROVE  AckInv'
<1> SUFFICES ASSUME NEW k \in CIDs
             PROVE  /\ AckFirst(k)'
                    /\ Dialed(k) \in listed' /\ Received(Dialed(k))' = <<>> => AckAhead(k)'
  BY DEF AckInv
<1> DEFINE R == Received(Dialed(k))
<1>1. R \in Seq(Payload) /\ Dialed(k) = <<"dialer", k>> /\ Dialed(k) \in Conns /\ "dialer" \in Ends
  BY Numbered, Named DEF Inv, Dialed
<1>2. CASE Deliver("dialer") /\ hand["dialer"].dst = k
  <2> DEFINE h == hand["dialer"]
  <2>1. /\ ack' = [ack EXCEPT ![Dialed(k)] = Append(@, h)] /\ read' = read /\ h \in Payload
        /\ Dialed(k) \in listed /\ loop["dialer"] = "got"
    BY <1>1, <1>2 DEF Deliver, Inv, TypeOK
  <2>2. read[Dialed(k)] \in Seq(Payload) /\ ack[Dialed(k)] \in Seq(Payload)
        /\ ack'[Dialed(k)] = Append(ack[Dialed(k)], h)
    BY <1>1, <2>1 DEF Inv, TypeOK
  <2>3. R' = Append(R, h)
    <3>1. read[Dialed(k)] \o Append(ack[Dialed(k)], h) = Append(read[Dialed(k)] \o ack[Dialed(k)], h)
      <4>1. read[Dialed(k)] \in Seq(Payload) /\ ack[Dialed(k)] \in Seq(Payload) /\ h \in Payload
        BY <2>1, <2>2
      <4>2. ASSUME NEW r \in Seq(Payload), NEW a \in Seq(Payload), NEW x \in Payload
            PROVE  r \o Append(a, x) = Append(r \o a, x)
        BY AppendRight
      <4> HIDE DEF h
      <4>3. QED
        BY <4>1, <4>2
    <3>2. QED
      BY <2>1, <2>2, <3>1 DEF Received
  <2> HIDE DEF R, h
  <2>4. /\ R' # <<>> /\ Len(R) \in Nat
        /\ R # <<>> => R'[1] = R[1]
        /\ R = <<>> => R'[1] = h
    BY <1>1, <2>1, <2>3, AppendSeq
  <2>5. R = <<>> => h.n = 0
    BY <1>2, <2>1 DEF Inv, AckInv, AckAhead, R, h
  <2>6. R # <<>> => R[1].n = 0
    BY DEF Inv, AckInv, AckFirst, R
  <2>7. QED
    BY <2>4, <2>5, <2>6 DEF AckFirst, R
<1>3. CASE ~(Deliver("dialer") /\ hand["dialer"].dst = k)
  <2>1. R' = R
    <3>1. CASE ReceivedKept("dialer")
      BY <1>1, <3>1 DEF ReceivedKept
    <3>2. CASE Deliver("dialer")
      <4>1. read' = read /\ ack' = [ack EXCEPT ![<<"dialer", hand["dialer"].dst>>] = Append(@, hand["dialer"])]
        BY <3>2 DEF Deliver
      <4>2. ack'[Dialed(k)] = ack[Dialed(k)]
        BY <1>1, <1>3, <3>2, <4>1 DEF Inv, TypeOK
      <4>3. QED
        BY <4>1, <4>2 DEF Received
    <3>3. QED
      BY <1>1, <3>1, <3>2, ReceivedStep
  <2>2. AckFirst(k)'
    BY <2>1 DEF AckFirst, Inv, AckInv
  <2>3. QED
    BY <1>3, <2>1, <2>2, AheadStep
<1>4. QED
  BY <1>2, <1>3

-----------------------------------------------------------------------------
(* The theorems                                                             *)

LEMMA InvStep == Inv /\ [Next]_vars => Inv'
<1> SUFFICES ASSUME Inv, [Next]_vars PROVE Inv'
  OBVIOUS
<1>1. TypeOK'
  BY TypeStep
<1>2. OpenInv' /\ IdInv' /\ PhaseInv' /\ AckInv'
  BY <1>1, OpenInvStep, IdStep, PhaseStep, AckStep
<1>3. \A e \in Ends : Flow(e)'
  BY <1>1, FlowStep
<1>4. QED
  BY <1>1, <1>2, <1>3 DEF Inv

LEMMA Invariance == Spec => []Inv
  BY InitInv, InvStep, PTL DEF Spec

\* Every variable keeps its type: an id a receive loop reads off a packet is one of
\* the ids that were given out, an accepted connection always finds a free one, and no
\* channel is ever filled beyond its size (accept, recv, localIn).
THEOREM TypeCorrect == Spec => []TypeOK
<1>1. Inv => TypeOK
  BY DEF Inv
<1>2. QED
  BY <1>1, Invariance, PTL

\* Whatever order the accept goroutines begin in and whoever closes which connection,
\* a connection receives only what was written on the connection that names it as its
\* peer and that it names as its own (accept, opened, recv).
THEOREM NothingCrosses == Spec => []NoCrossTalk
<1>1. Inv => NoCrossTalk
  <2> SUFFICES ASSUME Inv, NEW c \in Conns, NEW i \in DOMAIN Received(c)
               PROVE  LET p == Received(c)[i] IN
                      /\ remote[c] \in {0, p.src}
                      /\ remote[Other(c, p.src)] \in {0, c[2]}
                      /\ pc[Other(c, p.src)] # "none"
    BY DEF NoCrossTalk
  <2> DEFINE p == Received(c)[i]
             s == Other(c, p.src)
  <2>1. c = <<c[1], c[2]>> /\ c[1] \in Ends /\ c[2] \in CIDs
    BY Named DEF Conns
  <2>2. FlowReceived(c[1], c[2])
    BY <2>1 DEF Inv, Flow
  <2>3. Genuine(c[1], p) /\ p.dst = c[2]
    BY <2>1, <2>2 DEF FlowReceived
  <2>4. p.src \in CIDs /\ remote[s] = c[2] /\ pc[s] # "none"
    BY <2>3 DEF Genuine, Other
  <2>5. remote[c] \in {0, p.src}
    <3>1. CASE c = Dialed(c[2])
      <4>1. remote[Accepted(p.src)] = c[2] /\ remote[Accepted(p.src)] # 0
        <5>1. c[1] = "dialer" /\ c[2] # 0
          BY <2>1, <3>1, Named
        <5>2. s = Accepted(p.src)
          BY <5>1, Named DEF Other, Accepted
        <5>3. QED
          BY <2>4, <5>1, <5>2
      <4>2. remote[c] # 0 => remote[Accepted(remote[c])] = c[2] /\ remote[c] \in CIDs
        BY <2>1, <3>1, Named DEF Inv, IdInv, TypeOK, CIDs
      <4>3. QED
        BY <2>4, <4>1, <4>2 DEF Inv, IdInv
    <3>2. CASE c = Accepted(c[2])
      <4>1. remote[Dialed(p.src)] = c[2] /\ c[2] # 0
        BY <2>1, <2>4, <3>2, Named DEF Other, Dialed
      <4>2. remote[Accepted(c[2])] = p.src
        BY <2>4, <4>1 DEF Inv, IdInv
      <4>3. QED
        BY <3>2, <4>2
    <3>3. QED
      BY <3>1, <3>2, Named
  <2>6. QED
    BY <2>4, <2>5
<1>2. QED
  BY <1>1, Invariance, PTL

\* "it must recv as it's order,do not go": payloads are received in the order in which
\* they were written and at most once, and a dialled connection receives first the
\* acknowledgement, which Open keeps for itself, and never another one.
THEOREM OrderIsKept == Spec => []InOrder
<1>1. Inv => InOrder
  <2> SUFFICES ASSUME Inv PROVE InOrder
    OBVIOUS
  <2>1. ASSUME NEW c \in Conns, NEW i \in DOMAIN Received(c), NEW j \in DOMAIN Received(c), i < j
        PROVE  Received(c)[i].n < Received(c)[j].n
    <3>1. c = <<c[1], c[2]>> /\ c[1] \in Ends /\ c[2] \in CIDs
      BY Named DEF Conns
    <3>2. FlowReceived(c[1], c[2])
      BY <3>1 DEF Inv, Flow
    <3>3. QED
      BY <2>1, <3>1, <3>2 DEF FlowReceived
  <2>2. ASSUME NEW k \in CIDs, NEW i \in DOMAIN Received(Dialed(k))
        PROVE  Received(Dialed(k))[i].n = 0 <=> i = 1
    <3> DEFINE R == Received(Dialed(k))
    <3>1. R \in Seq(Payload) /\ Dialed(k) \in Conns /\ \A j \in DOMAIN R : R[j].n \in Nat
      BY Named, Numbered DEF Inv, Dialed
    <3>2. DOMAIN R = 1 .. Len(R) /\ Len(R) \in Nat /\ R # <<>>
      BY <2>2, <3>1
    <3>3. R[1].n = 0
      BY <3>2 DEF Inv, AckInv, AckFirst
    <3> HIDE DEF R
    <3>4. 1 \in DOMAIN R /\ i \in DOMAIN R /\ (i = 1 \/ 1 < i)
      BY <2>2, <3>2 DEF R
    <3>5. 1 < i => R[1].n < R[i].n
      BY <2>1, <3>1, <3>4 DEF R
    <3>6. QED
      BY <3>1, <3>3, <3>4, <3>5 DEF R
  <2>3. QED
    BY <2>1, <2>2 DEF InOrder
<1>2. QED
  BY <1>1, Invariance, PTL
-----------------------------------------------------------------------------
(* What is on its way stays there until it is received, and a connection    *)
(* that is told to close is not used again.                                 *)

\* Of the packets on their way to e, n have been taken.
Retains(e, n) ==
  \A i \in DOMAIN net[e] : n < i => i - n \in DOMAIN net'[e] /\ net'[e][i - n] = net[e][i]

WrittenTo(e) == \E c \in Conns : \E n \in 0 .. MaxData : Writing(c, n) /\ e = Peer(c[1])

Passes(e, n) == Retains(e, n) /\ (Kept(e, n, "Data") \/ WrittenTo(e))

LEMMA Adding ==
  ASSUME NEW e \in Ends, net[e] \in Seq(Packet), NEW p \in Packet, net'[e] = Append(net[e], p)
  PROVE  Retains(e, 0) /\ (p.kind # "Data" => Kept(e, 0, "Data"))
<1>1. /\ DOMAIN net'[e] = 1 .. Len(net[e]) + 1 /\ DOMAIN net[e] = 1 .. Len(net[e])
      /\ Len(net[e]) \in Nat
      /\ \A i \in 1 .. Len(net[e]) : net'[e][i] = net[e][i]
      /\ net'[e][Len(net[e]) + 1] = p
  BY AppendSeq
<1>2. /\ \A i \in 1 .. Len(net[e]) : i - 0 = i /\ i \in 1 .. Len(net[e]) + 1
      /\ \A i \in 1 .. Len(net[e]) + 1 : i = Len(net[e]) + 1 \/ (i \in 1 .. Len(net[e]) /\ i + 0 = i)
  BY <1>1
<1>3. Retains(e, 0)
  BY <1>1, <1>2 DEF Retains
<1>4. p.kind # "Data" => Kept(e, 0, "Data")
  BY <1>1, <1>2 DEF Kept
<1>5. QED
  BY <1>3, <1>4

LEMMA NetPasses ==
  ASSUME Inv, [Next]_vars, up', NEW e \in Ends
  PROVE  \/ Passes(e, 0)
         \/ Passes(e, 1) /\ net[e] # <<>> /\ net'[e] = Tail(net[e]) /\ Takes(e)
<1>1. net \in [Ends -> Seq(Packet)] /\ net[e] \in Seq(Packet)
  BY DEF Inv, TypeOK
<1>2. ASSUME net'[e] = net[e] PROVE Passes(e, 0)
  <2>1. \A i \in DOMAIN net[e] : i - 0 = i /\ i + 0 = i
    BY <1>1
  <2>2. Retains(e, 0) /\ Kept(e, 0, "Data")
    BY <1>2, <2>1 DEF Retains, Kept
  <2>3. QED
    BY <2>2 DEF Passes
<1>3. CASE NothingNew(e)
  <2>1. CASE net[e] # <<>> /\ net'[e] = Tail(net[e]) /\ Takes(e)
    <3>1. /\ DOMAIN Tail(net[e]) = 1 .. Len(net[e]) - 1 /\ DOMAIN net[e] = 1 .. Len(net[e])
          /\ \A i \in 1 .. Len(net[e]) - 1 : Tail(net[e])[i] = net[e][i + 1]
          /\ Len(net[e]) \in Nat
      BY <1>1, <2>1, TailSeq
    <3>2. /\ \A i \in 1 .. Len(net[e]) - 1 : i + 1 \in 1 .. Len(net[e])
          /\ \A i \in 1 .. Len(net[e]) : 1 < i => i - 1 \in 1 .. Len(net[e]) - 1 /\ (i - 1) + 1 = i
      BY <3>1
    <3>3. Retains(e, 1)
      BY <2>1, <3>1, <3>2 DEF Retains
    <3>4. Kept(e, 1, "Data")
      BY <2>1, <3>1, <3>2 DEF Kept
    <3>5. QED
      BY <2>1, <3>3, <3>4 DEF Passes
  <2>2. ASSUME NEW p \in Packet, p.kind = "Close", net'[e] = Append(net[e], p)
        PROVE  Passes(e, 0)
    BY <1>1, <2>2, Adding DEF Passes
  <2>3. QED
    BY <1>2, <1>3, <2>1, <2>2 DEF NothingNew
<1>4. ASSUME NEW k \in CIDs, SendOpen(k) PROVE Passes(e, 0)
  <2> DEFINE p == Packed("Open", k, remote[Dialed(k)], 0)
  <2>1. /\ Dialed(k) \in Conns /\ Dialed(k)[1] = "dialer" /\ Dialed(k)[2] = k
        /\ remote[Dialed(k)] \in 0 .. MaxDials /\ k \in 0 .. MaxDials /\ 0 \in 0 .. MaxData
    BY Named DEF Inv, TypeOK
  <2>2. p \in Packet /\ p.kind = "Open"
    BY <2>1, PacketType
  <2>3. net'[e] = net[e] \/ net'[e] = Append(net[e], p)
    <3>1. SendPkt(Dialed(k), "Open", 0) /\ TypeOK
      BY <1>4 DEF SendOpen, Inv
    <3>2. /\ net'["dialer"] = net["dialer"]
          /\ net'["acceptor"] = IF up THEN Append(net["acceptor"], p) ELSE net["acceptor"]
      BY <2>1, <3>1, Sent, Named
    <3>3. QED
      BY <3>2, Named
  <2> HIDE DEF p
  <2>4. CASE net'[e] = Append(net[e], p)
    BY <1>1, <2>2, <2>4, Adding DEF Passes
  <2>5. QED
    BY <1>2, <2>3, <2>4
<1>5. ASSUME NEW c \in Conns, NEW n \in 0 .. MaxData, Writing(c, n) PROVE Passes(e, 0)
  <2>1. CASE e # Peer(c[1])
    BY <1>2, <1>5, <2>1, Named DEF Writing
  <2>2. CASE e = Peer(c[1])
    <3> DEFINE p == Packed("Data", c[2], remote[c], n)
    <3>1. net'[e] = Append(net[e], p)
      BY <1>5, <2>2 DEF Writing
    <3>2. c[2] \in 0 .. MaxDials /\ remote[c] \in 0 .. MaxDials
      BY Named DEF Inv, TypeOK
    <3>3. p \in Packet
      BY <3>2, PacketType
    <3> HIDE DEF p
    <3>4. Retains(e, 0)
      BY <1>1, <3>1, <3>3, Adding
    <3>5. QED
      BY <1>5, <2>2, <3>4 DEF Passes, WrittenTo
  <2>3. QED
    BY <2>1, <2>2
<1>6. QED
  BY <1>3, <1>4, <1>5, NetStep DEF Writes

\* Only a new connection enters the table.
LEMMA Known ==
  ASSUME Inv, NEW c \in Conns, remote[c] # 0
  PROVE  pc[c] # "none"
<1>1. CASE c = Dialed(c[2])
  BY <1>1, Named DEF Inv, PhaseInv
<1>2. CASE c = Accepted(c[2])
  BY <1>2, Named DEF Inv, IdInv
<1>3. QED
  BY <1>1, <1>2, Named

LEMMA ListedOnce ==
  ASSUME Inv, [Next]_vars, NEW c \in Conns, pc[c] # "none", c \notin listed
  PROVE  c \notin listed'
<1> DEFINE Goal == c \notin listed'
<1>1. ASSUME listed' \subseteq listed PROVE Goal
  BY <1>1
<1>2. ASSUME NEW j \in CIDs, OpenStep(j) PROVE Goal
  BY <1>1, <1>2 DEF OpenStep, Pending, SendOpen, Opened, OpenFails
<1>3. ASSUME NEW j \in CIDs, UseStep(j) \/ AcceptStep(j) \/ CopyStep(j) PROVE Goal
  BY <1>1, <1>3 DEF UseStep, DialerWrites, DialerReads, DialerCloses, AcceptStep, DialFails,
                    DialSucceeds, StartCopying, CopyingEnds, CopyStep, CopyIn, CopyInEnds,
                    CopyOut, CopyOutEnds
<1>4. ASSUME NEW j \in CIDs, Accept(j) PROVE Goal
  <2> DEFINE r == autoinc["acceptor"] + 1
  <2>1. r \in CIDs /\ listed' = listed \cup {Accepted(r)} /\ pc[Accepted(r)] = "none"
    BY <1>4, Accepting DEF Accept
  <2> HIDE DEF r
  <2>2. QED
    BY <2>1
<1>5. ASSUME NEW e \in Ends, RecvStep(e) PROVE Goal
  BY <1>1, <1>5 DEF RecvStep, RecvOpen, RecvClose, RecvData, RecvUnknown, Deliver, DropFull, Panic
<1>6. ASSUME (\E b \in Conns : CloseStep(b)) \/ TunnelLost \/ UNCHANGED vars PROVE Goal
  BY <1>1, <1>6 DEF CloseStep, Close, SendClose, TunnelLost, Unlist, vars
<1>7. ASSUME NEW e \in Ends, Flush(e) PROVE Goal
  BY <1>1, <1>7 DEF Flush, Unlist
<1>8. ASSUME NEW e \in Ends, NEW i \in 0 .. MaxDials, CloseByPeer(e, i) PROVE Goal
  BY <1>1, <1>8 DEF CloseByPeer, Unlist
<1>9. QED
  BY <1>2, <1>3, <1>4, <1>5, <1>6, <1>7, <1>8 DEF Next

\* A Close that was received is carried out.
LEMMA ClosingStep ==
  ASSUME Inv, [Next]_vars, NEW e \in Ends, NEW i \in closing[e]
  PROVE  i \in closing'[e] \/ <<e, i>> \notin listed'
<1> DEFINE Goal == i \in closing'[e] \/ <<e, i>> \notin listed'
<1>0. closing \in [Ends -> SUBSET (0 .. MaxDials)]
  BY DEF Inv, TypeOK
<1>1. ASSUME closing' = closing PROVE Goal
  BY <1>1
<1>2. ASSUME NEW j \in CIDs, OpenStep(j) \/ UseStep(j) PROVE Goal
  BY <1>1, <1>2 DEF OpenStep, Pending, SendOpen, Opened, OpenFails, UseStep, DialerWrites,
                    DialerReads, DialerCloses
<1>3. ASSUME NEW j \in CIDs, Accept(j) \/ AcceptStep(j) \/ CopyStep(j) PROVE Goal
  BY <1>1, <1>3 DEF Accept, AcceptStep, DialFails, DialSucceeds, StartCopying, CopyingEnds,
                    CopyStep, CopyIn, CopyInEnds, CopyOut, CopyOutEnds
<1>4. ASSUME NEW x \in Ends, RecvStep(x) PROVE Goal
  <2>1. CASE RecvClose(x)
    BY <1>0, <2>1 DEF RecvClose
  <2>2. QED
    BY <1>1, <1>4, <2>1 DEF RecvStep, RecvOpen, RecvData, RecvUnknown, Deliver, DropFull, Panic
<1>5. ASSUME (\E b \in Conns : CloseStep(b)) \/ TunnelLost \/ UNCHANGED vars PROVE Goal
  BY <1>1, <1>5 DEF CloseStep, Close, SendClose, TunnelLost, vars
<1>6. ASSUME NEW x \in Ends, Flush(x) PROVE Goal
  BY <1>1, <1>6 DEF Flush
<1>7. ASSUME NEW x \in Ends, NEW j \in 0 .. MaxDials, CloseByPeer(x, j) PROVE Goal
  BY <1>0, <1>7 DEF CloseByPeer, Unlist
<1>8. QED
  BY <1>2, <1>3, <1>4, <1>5, <1>6, <1>7 DEF Next

\* What has been told stays told.
LEMMA ToldStays ==
  ASSUME Inv, [Next]_vars, up', NEW c \in Conns, pc[c] # "none", ToldToClose(c)
  PROVE  ToldToClose(c)'
<1>1. c[1] \in Ends /\ c = <<c[1], c[2]>>
  BY Named DEF Conns
<1>2. CASE c \notin listed
  BY <1>2, ListedOnce DEF ToldToClose
<1>3. CASE c[2] \in closing[c[1]]
  BY <1>1, <1>3, ClosingStep DEF ToldToClose
<1>4. ASSUME NEW i \in DOMAIN net[c[1]], net[c[1]][i].kind = "Close", net[c[1]][i].dst = c[2]
      PROVE  ToldToClose(c)'
  <2> DEFINE e == c[1]
  <2>1. net[e] \in Seq(Packet) /\ closing[e] \in SUBSET (0 .. MaxDials)
        /\ closing \in [Ends -> SUBSET (0 .. MaxDials)]
    BY <1>1 DEF Inv, TypeOK
  <2>2. DOMAIN net[e] = 1 .. Len(net[e]) /\ Len(net[e]) \in Nat /\ i \in Nat /\ 0 < i
    BY <1>4, <2>1
  <2>3. ASSUME NEW n \in {0, 1}, Retains(e, n), n < i PROVE ToldToClose(c)'
    <3>1. i - n \in DOMAIN net'[e] /\ net'[e][i - n] = net[e][i]
      BY <1>4, <2>3 DEF Retains
    <3>2. net'[e][i - n].kind = "Close" /\ net'[e][i - n].dst = c[2]
      BY <1>4, <3>1
    <3>3. QED
      BY <3>1, <3>2 DEF ToldToClose
  <2>4. CASE Takes(e) /\ net[e] # <<>> /\ i = 1
    <3>1. Head(net[e]).kind = "Close" /\ Head(net[e]).dst = c[2]
      BY <1>4, <2>1, <2>4, TailSeq
    <3>2. RecvClose(e)
      BY <2>4, <3>1 DEF Takes, RecvOpen, RecvData, RecvUnknown, Receives
    <3>3. c[2] \in closing'[e]
      BY <1>1, <2>1, <3>1, <3>2 DEF RecvClose
    <3>4. QED
      BY <3>3 DEF ToldToClose
  <2>5. i = 1 \/ 1 < i
    BY <2>2
  <2>6. Passes(e, 0) \/ (Passes(e, 1) /\ Takes(e) /\ net[e] # <<>>)
    BY <1>1, NetPasses
  <2>7. CASE Passes(e, 0)
    BY <2>2, <2>3, <2>7 DEF Passes
  <2>8. CASE Passes(e, 1) /\ Takes(e) /\ net[e] # <<>>
    BY <2>3, <2>4, <2>5, <2>8 DEF Passes
  <2>9. QED
    BY <2>6, <2>7, <2>8
<1>5. QED
  BY <1>2, <1>3, <1>4 DEF ToldToClose

\* One connection of an end names d.
LEMMA OneNames ==
  ASSUME Inv, NEW b \in Conns, NEW c \in Conns, b[1] = c[1], remote[b] = remote[c], remote[c] # 0
  PROVE  b = c
<1>1. CASE c[1] = "dialer"
  <2>1. b = Dialed(b[2]) /\ c = Dialed(c[2]) /\ b[2] \in CIDs /\ c[2] \in CIDs
    BY <1>1, Named
  <2>2. remote[Accepted(remote[c])] = b[2] /\ remote[Accepted(remote[c])] = c[2]
    BY <2>1 DEF Inv, IdInv
  <2>3. QED
    BY <2>1, <2>2
<1>2. CASE c[1] = "acceptor"
  <2>1. b = Accepted(b[2]) /\ c = Accepted(c[2]) /\ b[2] \in CIDs /\ c[2] \in CIDs
    BY <1>2, Named
  <2>2. b[2] = c[2]
    BY <2>1 DEF Inv, IdInv
  <2>3. QED
    BY <2>1, <2>2
<1>3. QED
  BY <1>1, <1>2, Named

\* What is for d comes from the connection that names d.
LEMMA WrittenBy ==
  ASSUME Inv, NEW c \in Conns, remote[c] # 0, NEW p, Genuine(Peer(c[1]), p), p.dst = remote[c]
  PROVE  p.src = c[2] /\ p.n <= wrote[c] /\ pc[c] \notin {"none", "dialing"}
<1>1. Peer(Peer(c[1])) = c[1] /\ c = <<c[1], c[2]>> /\ c[1] \in Ends
  BY Named DEF Conns
<1>2. <<c[1], p.src>> \in Conns /\ remote[<<c[1], p.src>>] = remote[c]
  BY <1>1 DEF Genuine, Conns
<1>3. <<c[1], p.src>> = c
  BY <1>2, OneNames
<1>4. QED
  BY <1>1, <1>3 DEF Genuine

\* Whoever wrote a payload that is dropped, or that is for a connection that is gone,
\* is told.
LEMMA DropTells ==
  ASSUME Inv, up', NEW c \in Conns, remote[c] # 0, NEW e, e = Peer(c[1]),
         \/ DropFull(e) /\ hand[e].dst = remote[c]
         \/ RecvUnknown(e) /\ Head(net[e]).dst = remote[c]
  PROVE  ToldToClose(c)'
<1>1. /\ e \in Ends /\ Peer(e) = c[1] /\ c[1] \in Ends /\ c[1] # e
      /\ net \in [Ends -> Seq(Packet)] /\ net[e] \in Seq(Packet) /\ net[c[1]] \in Seq(Packet)
  BY Named DEF Inv, TypeOK
<1>2. ASSUME NEW p \in Packet, p.kind = "Close", p.dst = c[2],
             net'[c[1]] = Append(net[c[1]], p)
      PROVE  ToldToClose(c)'
  <2>1. /\ Len(net[c[1]]) + 1 \in DOMAIN net'[c[1]]
        /\ net'[c[1]][Len(net[c[1]]) + 1] = p
    BY <1>1, <1>2, AppendSeq
  <2>2. QED
    BY <1>2, <2>1 DEF ToldToClose
<1>3. CASE DropFull(e) /\ hand[e].dst = remote[c]
  <2> DEFINE p == Packed("Close", hand[e].dst, hand[e].src, 0)
  <2>1. hand[e].src = c[2]
    <3>1. Genuine(e, hand[e])
      BY <1>1, <1>3 DEF Inv, Flow, FlowHand, DropFull
    <3>2. QED
      BY <1>3, <3>1, WrittenBy
  <2>2. hand[e].src \in 0 .. MaxDials /\ hand[e].dst \in 0 .. MaxDials
    BY <1>1, Named DEF Inv, TypeOK, Payload
  <2>3. p \in Packet /\ p.kind = "Close" /\ p.dst = hand[e].src
    BY <2>2, PacketType, Named
  <2>4. net'[c[1]] = Append(net[c[1]], p)
    BY <1>1, <1>3 DEF DropFull, Transmit
  <2> HIDE DEF p
  <2>5. QED
    BY <1>2, <2>1, <2>3, <2>4
<1>4. CASE RecvUnknown(e) /\ Head(net[e]).dst = remote[c]
  <2> DEFINE h == Head(net[e])
             p == Packed("Close", h.dst, h.src, 0)
  <2>1. net[e] # <<>> /\ h.kind = "Data"
    BY <1>4 DEF RecvUnknown, Receives
  <2>2. h = net[e][1] /\ 1 \in DOMAIN net[e] /\ h \in Packet
    BY <1>1, <2>1, TailSeq
  <2>3. h.src = c[2]
    <3>1. Genuine(e, h)
      BY <1>1, <2>1, <2>2 DEF Inv, Flow, FlowNet, IsData
    <3>2. QED
      BY <1>4, <3>1, WrittenBy
  <2>4. p \in Packet /\ p.kind = "Close" /\ p.dst = h.src
    BY <2>2, PacketType, Named DEF Packet
  <2>5. net'[c[1]] = Append(net[c[1]], p)
    BY <1>1, <1>4 DEF RecvUnknown, Answered
  <2> HIDE DEF p, h
  <2>6. QED
    BY <1>2, <2>3, <2>4, <2>5
<1>5. QED
  BY <1>3, <1>4
-----------------------------------------------------------------------------
(* What a dialled connection that is done with waits for                    *)

LEMMA UpStays ==
  ASSUME Inv, [Next]_vars, up'
  PROVE  up
<1>1. ASSUME up' = up PROVE up
  BY <1>1
<1>2. ASSUME NEW j \in CIDs, OpenStep(j) \/ UseStep(j) PROVE up
  BY <1>1, <1>2 DEF OpenStep, Pending, SendOpen, Opened, OpenFails, UseStep, DialerWrites,
                    DialerReads, DialerCloses
<1>3. ASSUME NEW j \in CIDs, Accept(j) \/ AcceptStep(j) \/ CopyStep(j) PROVE up
  BY <1>1, <1>3 DEF Accept, AcceptStep, DialFails, DialSucceeds, StartCopying, CopyingEnds,
                    CopyStep, CopyIn, CopyInEnds, CopyOut, CopyOutEnds
<1>4. ASSUME NEW x \in Ends, RecvStep(x) \/ Flush(x) PROVE up
  BY <1>1, <1>4 DEF RecvStep, RecvOpen, RecvClose, RecvData, RecvUnknown, Deliver, DropFull,
                    Panic, Flush
<1>5. ASSUME (\E b \in Conns : CloseStep(b)) \/ TunnelLost \/ UNCHANGED vars PROVE up
  BY <1>1, <1>5 DEF CloseStep, Close, SendClose, TunnelLost, vars
<1>6. ASSUME NEW x \in Ends, NEW j \in 0 .. MaxDials, CloseByPeer(x, j) PROVE up
  BY <1>1, <1>6 DEF CloseByPeer
<1>7. QED
  BY <1>2, <1>3, <1>4, <1>5, <1>6 DEF Next

\* Open is sent by SendOpen, and the last Close of a connection by SendClose.
LEMMA PcStep ==
  ASSUME Inv, [Next]_vars, NEW c \in Conns
  PROVE  /\ pc[c] # "done" /\ pc'[c] = "done" => SendClose(c)
         /\ \A k \in CIDs : c = Dialed(k) /\ ~Started(k) /\ Started(k)' => SendOpen(k)
<1> DEFINE Goal == /\ pc[c] # "done" /\ pc'[c] = "done" => SendClose(c)
                   /\ \A k \in CIDs : c = Dialed(k) /\ ~Started(k) /\ Started(k)' => SendOpen(k)
<1>0. pc \in [Conns -> PCs]
  BY DEF Inv, TypeOK
<1>1. ASSUME pc'[c] = pc[c] PROVE Goal
  BY <1>1 DEF Started
<1>2. ASSUME NEW b \in Conns, NEW v, v \notin {"done", "waiting", "failed"},
             pc[b] \notin {"none", "opening"} \/ v = "opening" \/ b[1] = "acceptor",
             pc' = [pc EXCEPT ![b] = v]
      PROVE  Goal
  <2>1. CASE c # b
    BY <1>0, <1>1, <1>2, <2>1
  <2>2. CASE c = b
    <3>1. pc'[c] = v
      BY <1>0, <1>2, <2>2
    <3>2. QED
      BY <1>2, <2>2, <3>1, Named DEF Started
  <2>3. QED
    BY <2>1, <2>2
<1>3. ASSUME NEW j \in CIDs, OpenStep(j) PROVE Goal
  <2>1. Dialed(j) \in Conns
    BY Named
  <2>2. CASE SendOpen(j)
    <3>1. CASE c = Dialed(j)
      <4>1. pc'[c] \in {"waiting", "failed"} /\ \A k \in CIDs : c = Dialed(k) => k = j
        BY <1>0, <2>1, <2>2, <3>1, Named DEF SendOpen
      <4>2. QED
        BY <2>2, <4>1
    <3>2. CASE c # Dialed(j)
      BY <1>0, <1>1, <2>2, <3>2 DEF SendOpen
    <3>3. QED
      BY <3>1, <3>2
  <2>3. CASE Pending(j)
    BY <1>2, <2>1, <2>3 DEF Pending
  <2>4. CASE Opened(j) \/ OpenFails(j)
    BY <1>2, <2>1, <2>4 DEF Opened, OpenFails
  <2>5. QED
    BY <1>3, <2>2, <2>3, <2>4 DEF OpenStep
<1>4. ASSUME NEW j \in CIDs, UseStep(j) PROVE Goal
  <2>1. Dialed(j) \in Conns
    BY Named
  <2>2. CASE DialerCloses(j)
    BY <1>2, <2>1, <2>2 DEF DialerCloses
  <2>3. QED
    BY <1>1, <1>4, <2>2 DEF UseStep, DialerWrites, DialerReads
<1>5. ASSUME NEW b \in Conns, CloseStep(b) PROVE Goal
  <2>1. CASE Close(b)
    BY <1>2, <2>1 DEF Close
  <2>2. CASE SendClose(b)
    <3>1. CASE c = b
      <4>1. pc[c] = "sendclose"
        BY <2>2, <3>1 DEF SendClose
      <4>2. QED
        BY <2>2, <3>1, <4>1 DEF Started
    <3>2. CASE c # b
      BY <1>0, <1>1, <2>2, <3>2 DEF SendClose
    <3>3. QED
      BY <3>1, <3>2
  <2>3. QED
    BY <1>5, <2>1, <2>2 DEF CloseStep
<1>6. ASSUME NEW j \in CIDs, Accept(j) PROVE Goal
  <2> DEFINE r == autoinc["acceptor"] + 1
  <2>1. Accepted(r) \in Conns /\ r \in CIDs /\ pc' = [pc EXCEPT ![Accepted(r)] = "dialing"]
    BY <1>6, Accepting
  <2> HIDE DEF r
  <2>2. QED
    BY <1>2, <2>1, Named
<1>7. ASSUME NEW j \in CIDs, AcceptStep(j) PROVE Goal
  <2>1. Accepted(j) \in Conns /\ Accepted(j)[1] = "acceptor"
    BY Named
  <2>2. \E v : /\ v \notin {"done", "waiting", "failed"}
               /\ pc' = [pc EXCEPT ![Accepted(j)] = v]
    BY <1>7 DEF AcceptStep, DialFails, DialSucceeds, StartCopying, CopyingEnds
  <2>3. QED
    BY <1>2, <2>1, <2>2
<1>8. ASSUME NEW j \in CIDs, CopyStep(j) PROVE Goal
  BY <1>1, <1>8 DEF CopyStep, CopyIn, CopyInEnds, CopyOut, CopyOutEnds
<1>9. ASSUME NEW x \in Ends, RecvStep(x) \/ Flush(x) PROVE Goal
  BY <1>1, <1>9 DEF RecvStep, RecvOpen, RecvClose, RecvData, RecvUnknown, Deliver, DropFull,
                    Panic, Flush
<1>10. ASSUME NEW x \in Ends, NEW j \in 0 .. MaxDials, CloseByPeer(x, j) PROVE Goal
  BY <1>1, <1>10 DEF CloseByPeer
<1>11. ASSUME TunnelLost \/ UNCHANGED vars PROVE Goal
  BY <1>1, <1>11 DEF TunnelLost, vars
<1>12. QED
  BY <1>3, <1>4, <1>5, <1>6, <1>7, <1>8, <1>9, <1>10, <1>11 DEF Next

LEMMA AcceptingStep ==
  ASSUME Inv, [Next]_vars, NEW k \in accepting
  PROVE  k \in accepting' \/ Accept(k)
<1> DEFINE Goal == k \in accepting' \/ Accept(k)
<1>1. ASSUME accepting' = accepting PROVE Goal
  BY <1>1
<1>2. ASSUME NEW j \in CIDs, OpenStep(j) \/ UseStep(j) PROVE Goal
  BY <1>1, <1>2 DEF OpenStep, Pending, SendOpen, Opened, OpenFails, UseStep, DialerWrites,
                    DialerReads, DialerCloses
<1>3. ASSUME NEW j \in CIDs, Accept(j) PROVE Goal
  BY <1>3 DEF Accept
<1>4. ASSUME NEW j \in CIDs, AcceptStep(j) \/ CopyStep(j) PROVE Goal
  BY <1>1, <1>4 DEF AcceptStep, DialFails, DialSucceeds, StartCopying, CopyingEnds,
                    CopyStep, CopyIn, CopyInEnds, CopyOut, CopyOutEnds
<1>5. ASSUME NEW x \in Ends, RecvStep(x) \/ Flush(x) PROVE Goal
  <2>1. CASE RecvOpen(x)
    BY <2>1 DEF RecvOpen
  <2>2. QED
    BY <1>1, <1>5, <2>1 DEF RecvStep, RecvClose, RecvData, RecvUnknown, Deliver, DropFull,
                            Panic, Flush
<1>6. ASSUME NEW x \in Ends, NEW j \in 0 .. MaxDials, CloseByPeer(x, j) PROVE Goal
  BY <1>1, <1>6 DEF CloseByPeer
<1>7. ASSUME (\E b \in Conns : CloseStep(b)) \/ TunnelLost \/ UNCHANGED vars PROVE Goal
  BY <1>1, <1>7 DEF CloseStep, Close, SendClose, TunnelLost, vars
<1>8. QED
  BY <1>2, <1>3, <1>4, <1>5, <1>6, <1>7 DEF Next

\* The acceptor still has the Open, or the connection it opened, or has sent its Close.
Awaited(k) ==
  \/ ToldToClose(Dialed(k))
  \/ k \in accepting
  \/ \E i \in DOMAIN net["acceptor"] :
       net["acceptor"][i].kind = "Open" /\ net["acceptor"][i].src = k
  \/ \E r \in CIDs : remote[Accepted(r)] = k /\ pc[Accepted(r)] # "done"

AwaitedInv == \A k \in CIDs : up /\ Started(k) => Awaited(k)

LEMMA AwaitedStep ==
  ASSUME Inv, [Next]_vars, up', NEW k \in CIDs, Started(k), Awaited(k)
  PROVE  Awaited(k)'
<1>0. /\ Dialed(k) \in Conns /\ pc[Dialed(k)] # "none" /\ k # 0
      /\ "acceptor" \in Ends /\ Peer("acceptor") = "dialer"
      /\ net["acceptor"] \in Seq(Packet) /\ net["dialer"] \in Seq(Packet)
  BY Named DEF Started, Inv, TypeOK
<1>1. CASE ToldToClose(Dialed(k))
  BY <1>0, <1>1, ToldStays DEF Awaited
<1>2. CASE k \in accepting
  <2>1. CASE Accept(k)
    <3> DEFINE r == autoinc["acceptor"] + 1
    <3>1. /\ r \in CIDs /\ Accepted(r) \in Conns
          /\ remote' = [remote EXCEPT ![Accepted(r)] = k]
          /\ pc' = [pc EXCEPT ![Accepted(r)] = "dialing"]
      BY <2>1, Accepting
    <3> HIDE DEF r
    <3>2. remote'[Accepted(r)] = k /\ pc'[Accepted(r)] # "done"
      BY <3>1 DEF Inv, TypeOK
    <3>3. QED
      BY <3>1, <3>2 DEF Awaited
  <2>2. QED
    BY <1>2, <2>1, AcceptingStep DEF Awaited
<1>3. ASSUME NEW i \in DOMAIN net["acceptor"],
             net["acceptor"][i].kind = "Open", net["acceptor"][i].src = k
      PROVE  Awaited(k)'
  <2> DEFINE e == "acceptor"
  <2>1. DOMAIN net[e] = 1 .. Len(net[e]) /\ Len(net[e]) \in Nat /\ 0 < i /\ (i = 1 \/ 1 < i)
    BY <1>0, <1>3
  <2>2. ASSUME NEW n \in {0, 1}, Retains(e, n), n < i PROVE Awaited(k)'
    <3>1. i - n \in DOMAIN net'[e] /\ net'[e][i - n] = net[e][i]
      BY <1>3, <2>2 DEF Retains
    <3>2. net'[e][i - n].kind = "Open" /\ net'[e][i - n].src = k
      BY <1>3, <3>1
    <3>3. QED
      BY <3>1, <3>2 DEF Awaited
  <2>3. CASE Takes(e) /\ net[e] # <<>> /\ i = 1
    <3>1. Head(net[e]).kind = "Open" /\ Head(net[e]).src = k
      BY <1>0, <1>3, <2>3, TailSeq
    <3>2. RecvOpen(e)
      BY <2>3, <3>1 DEF Takes, RecvClose, RecvData, RecvUnknown, Receives
    <3>3. k \in accepting'
      BY <3>1, <3>2 DEF RecvOpen
    <3>4. QED
      BY <3>3 DEF Awaited
  <2>4. Passes(e, 0) \/ (Passes(e, 1) /\ Takes(e) /\ net[e] # <<>>)
    BY <1>0, NetPasses
  <2>5. CASE Passes(e, 0)
    BY <2>1, <2>2, <2>5 DEF Passes
  <2>6. CASE Passes(e, 1) /\ Takes(e) /\ net[e] # <<>>
    BY <2>1, <2>2, <2>3, <2>6 DEF Passes
  <2>7. QED
    BY <2>4, <2>5, <2>6
<1>4. ASSUME NEW r \in CIDs, remote[Accepted(r)] = k, pc[Accepted(r)] # "done"
      PROVE  Awaited(k)'
  <2> DEFINE c == Accepted(r)
  <2>1. c \in Conns /\ remote[c] = k /\ c[1] = "acceptor"
    BY <1>4, Named
  <2>2. remote'[c] = k
    BY <1>0, <2>1, SteadyStep DEF Steady
  <2>3. CASE pc'[c] # "done"
    BY <2>2, <2>3 DEF Awaited
  <2>4. CASE pc'[c] = "done"
    <3> DEFINE p == Packed("Close", c[2], k, 0)
    <3>1. SendPkt(c, "Close", 0) /\ up
      BY <1>4, <2>1, <2>4, PcStep, UpStays DEF SendClose
    <3>2. net'["dialer"] = Append(net["dialer"], p)
      <4>1. TypeOK /\ Peer("acceptor") = "dialer" /\ 0 \in 0 .. MaxData
        BY Named DEF Inv
      <4>2. net'[Peer("acceptor")] = IF up THEN Append(net[Peer("acceptor")], Packed("Close", c[2], remote[c], 0))
                                     ELSE net[Peer("acceptor")]
        BY <2>1, <3>1, <4>1, Sent
      <4>3. QED
        BY <2>1, <3>1, <4>1, <4>2
    <3>3. p \in Packet /\ p.kind = "Close" /\ p.dst = k
      <4>1. c[2] \in 0 .. MaxDials /\ k \in 0 .. MaxDials /\ 0 \in 0 .. MaxData
        BY <2>1, Named
      <4>2. QED
        BY <4>1, PacketType
    <3> HIDE DEF p
    <3>4. Len(net["dialer"]) + 1 \in DOMAIN net'["dialer"]
          /\ net'["dialer"][Len(net["dialer"]) + 1] = p
      BY <1>0, <3>2, <3>3, AppendSeq
    <3>5. ToldToClose(Dialed(k))'
      <4>1. Dialed(k)[1] = "dialer" /\ Dialed(k)[2] = k
        BY Named
      <4>2. QED
        BY <3>3, <3>4, <4>1 DEF ToldToClose
    <3>6. QED
      BY <3>5 DEF Awaited
  <2>5. QED
    BY <2>3, <2>4
<1>5. QED
  BY <1>1, <1>2, <1>3, <1>4 DEF Awaited

LEMMA AwaitedNext == Inv /\ AwaitedInv /\ [Next]_vars => AwaitedInv'
<1> SUFFICES ASSUME Inv, AwaitedInv, [Next]_vars, NEW k \in CIDs, up', Started(k)'
             PROVE  Awaited(k)'
  BY DEF AwaitedInv
<1>1. up
  BY UpStays
<1>2. CASE Started(k)
  BY <1>1, <1>2, AwaitedStep DEF AwaitedInv
<1>3. CASE ~Started(k)
  <2> DEFINE p == Packed("Open", k, remote[Dialed(k)], 0)
  <2>1. /\ Dialed(k) \in Conns /\ Dialed(k)[1] = "dialer" /\ Dialed(k)[2] = k
        /\ remote[Dialed(k)] \in 0 .. MaxDials /\ k \in 0 .. MaxDials /\ 0 \in 0 .. MaxData
        /\ net["acceptor"] \in Seq(Packet)
    BY Named DEF Inv, TypeOK
  <2>2. SendPkt(Dialed(k), "Open", 0)
    BY <1>3, <2>1, PcStep DEF SendOpen
  <2>3. net'["acceptor"] = Append(net["acceptor"], p)
    <3>1. TypeOK /\ Peer("dialer") = "acceptor" /\ 0 \in 0 .. MaxData
      BY <2>1, Named DEF Inv
    <3>2. net'[Peer("dialer")] = IF up THEN Append(net[Peer("dialer")], p) ELSE net[Peer("dialer")]
      BY <2>1, <2>2, <3>1, Sent
    <3>3. QED
      BY <1>1, <3>1, <3>2
  <2>4. p \in Packet /\ p.kind = "Open" /\ p.src = k
    BY <2>1, PacketType
  <2> HIDE DEF p
  <2>5. Len(net["acceptor"]) + 1 \in DOMAIN net'["acceptor"]
        /\ net'["acceptor"][Len(net["acceptor"]) + 1] = p
    BY <2>1, <2>3, <2>4, AppendSeq
  <2>6. QED
    BY <2>4, <2>5 DEF Awaited
<1>4. QED
  BY <1>2, <1>3

\* A connection whose user is done with it stays in the dialer's table only while the
\* acceptor still has to send the Close that removes it: Close itself looks under
\* another id, so the acceptor keeps the dialer's table clean (Open, Close, accept).
THEOREM LeftoversEnd == Spec => []LeftoverIsAwaited
<1>1. Init => AwaitedInv
  BY Named DEF Init, AwaitedInv, Started
<1>2. AwaitedInv => LeftoverIsAwaited
  BY DEF AwaitedInv, Awaited, LeftoverIsAwaited, Started
<1>3. QED
  BY <1>1, <1>2, AwaitedNext, Invariance, PTL DEF Spec
-----------------------------------------------------------------------------
(* Nothing is missing from what a connection received, was sent and is sent *)
(* now, unless the connection that writes it has been told to close.        *)

HandFor(e, d) == loop[e] = "got" /\ hand[e].dst = d
DataFor(p, d) == p.kind = "Data" /\ p.dst = d

\* The number of the payload that the loop of e takes next for d
NextNo(e, d) == First(e) + Len(Received(<<e, d>>)) + (IF HandFor(e, d) THEN 1 ELSE 0)

InRow(e, d) ==
  /\ \A i \in DOMAIN Received(<<e, d>>) : Received(<<e, d>>)[i].n = i - 1 + First(e)
  /\ HandFor(e, d) => hand[e].n + 1 = NextNo(e, d)

NetRow(e, d) ==
  \A i \in DOMAIN net[e] : DataFor(net[e][i], d) =>
    \/ net[e][i].n = NextNo(e, d)
    \/ \E j \in DOMAIN net[e] : j < i /\ DataFor(net[e][j], d) /\ net[e][i].n = net[e][j].n + 1

\* n is the last payload that was written for d, or taken by the loop.
Latest(e, d, n) ==
  \/ n + 1 = NextNo(e, d)
  \/ \E j \in DOMAIN net[e] : DataFor(net[e][j], d) /\ net[e][j].n = n

Sends(s) == s[1] = "dialer" \/ pc[s] \in {"acked", "copy"}

\* The row for d, the peer of s
Unbroken(s, d) ==
  /\ InRow(Peer(s[1]), d) /\ NetRow(Peer(s[1]), d)
  /\ Sends(s) => \E w \in Nat : w = wrote[s] /\ Latest(Peer(s[1]), d, w)

UnbrokenInv ==
  /\ \A k \in CIDs : remote[Dialed(k)] = 0 => wrote[Dialed(k)] = 0
  /\ \A s \in Conns : \A d \in CIDs :
       up /\ remote[s] = d /\ ~ToldToClose(s) => Unbroken(s, d)

LEMMA NextNoType ==
  ASSUME TypeOK, NEW e \in Ends, NEW d \in CIDs
  PROVE  /\ NextNo(e, d) \in Nat /\ First(e) \in Nat
         /\ Received(<<e, d>>) \in Seq(Payload) /\ Len(Received(<<e, d>>)) \in Nat
         /\ HandFor(e, d) => NextNo(e, d) = First(e) + Len(Received(<<e, d>>)) + 1
         /\ ~HandFor(e, d) => NextNo(e, d) = First(e) + Len(Received(<<e, d>>))
<1>1. Received(<<e, d>>) \in Seq(Payload)
  BY Numbered
<1>2. Len(Received(<<e, d>>)) \in Nat /\ First(e) \in Nat
  BY <1>1 DEF First
<1>3. QED
  BY <1>1, <1>2 DEF NextNo

\* The packets for d stay as they are, and n packets before them have been taken.
Shifted(e, d, n) ==
  /\ \A i \in DOMAIN net[e] : DataFor(net[e][i], d) =>
       n < i /\ i - n \in DOMAIN net'[e] /\ net'[e][i - n] = net[e][i]
  /\ \A i \in DOMAIN net'[e] : DataFor(net'[e][i], d) =>
       i + n \in DOMAIN net[e] /\ net[e][i + n] = net'[e][i]

LEMMA RowShifts ==
  ASSUME TypeOK, TypeOK', NEW e \in Ends, NEW d \in CIDs, NEW n \in {0, 1}, Shifted(e, d, n),
         NextNo(e, d)' = NextNo(e, d), NetRow(e, d)
  PROVE  NetRow(e, d)' /\ \A w : Latest(e, d, w) => Latest(e, d, w)'
<1>0. /\ DOMAIN net[e] = 1 .. Len(net[e]) /\ Len(net[e]) \in Nat
      /\ DOMAIN net'[e] = 1 .. Len(net'[e]) /\ Len(net'[e]) \in Nat
  <2>1. net[e] \in Seq(Packet) /\ net'[e] \in Seq(Packet)
    BY DEF TypeOK
  <2>2. QED
    BY <2>1
<1>1. ASSUME NEW i \in DOMAIN net'[e], DataFor(net'[e][i], d), net'[e][i].n # NextNo(e, d)
      PROVE  \E j \in DOMAIN net'[e] :
               j < i /\ DataFor(net'[e][j], d) /\ net'[e][i].n = net'[e][j].n + 1
  <2>1. i + n \in DOMAIN net[e] /\ net[e][i + n] = net'[e][i]
    BY <1>1 DEF Shifted
  <2>2. PICK j \in DOMAIN net[e] :
          j < i + n /\ DataFor(net[e][j], d) /\ net[e][i + n].n = net[e][j].n + 1
    BY <1>1, <2>1 DEF NetRow
  <2>3. j - n \in DOMAIN net'[e] /\ net'[e][j - n] = net[e][j]
    BY <2>2 DEF Shifted
  <2>4. j - n < i
    BY <1>0, <1>1, <2>2
  <2>5. QED
    BY <2>1, <2>2, <2>3, <2>4
<1>2. NetRow(e, d)'
  BY <1>1 DEF NetRow
<1>3. ASSUME NEW w, Latest(e, d, w) PROVE Latest(e, d, w)'
  <2>1. CASE w + 1 = NextNo(e, d)
    BY <2>1 DEF Latest
  <2>2. ASSUME NEW j \in DOMAIN net[e], DataFor(net[e][j], d), net[e][j].n = w
        PROVE  Latest(e, d, w)'
    <3>1. j - n \in DOMAIN net'[e] /\ net'[e][j - n] = net[e][j]
      BY <2>2 DEF Shifted
    <3>2. QED
      BY <2>2, <3>1 DEF Latest
  <2>3. QED
    BY <1>3, <2>1, <2>2 DEF Latest
<1>4. QED
  BY <1>2, <1>3

\* The loop puts what it has in its hand in its place.
LEMMA RowDelivered ==
  ASSUME TypeOK, TypeOK', NEW e \in Ends, NEW d \in CIDs, Deliver(e), InRow(e, d)
  PROVE  InRow(e, d)' /\ NextNo(e, d)' = NextNo(e, d)
<1> DEFINE h == hand[e]
           R == Received(<<e, d>>)
           c == <<e, h.dst>>
<1>1. /\ loop[e] = "got" /\ loop'[e] = "recv" /\ hand' = hand /\ h \in Payload
      /\ ack' = [ack EXCEPT ![c] = Append(@, h)] /\ read' = read
      /\ read \in [Conns -> Seq(Payload)] /\ ack \in [Conns -> Seq(Payload)]
      /\ <<e, d>> \in Conns /\ R \in Seq(Payload)
  <2>1. R \in Seq(Payload) /\ <<e, d>> \in Conns
    BY NextNoType DEF Conns
  <2>2. QED
    BY <2>1 DEF TypeOK, Deliver
<1>2. ~HandFor(e, d)'
  BY <1>1 DEF HandFor
<1>3. CASE d # h.dst
  <2>1. R' = R
    BY <1>1, <1>3 DEF Received
  <2>2. ~HandFor(e, d)
    BY <1>3 DEF HandFor
  <2>3. NextNo(e, d)' = NextNo(e, d)
    BY <1>2, <2>1, <2>2 DEF NextNo
  <2>4. QED
    BY <1>2, <2>1, <2>3 DEF InRow
<1>4. CASE d = h.dst
  <2>1. HandFor(e, d)
    BY <1>1, <1>4 DEF HandFor
  <2>2. R' = Append(R, h)
    <3>1. R' = read[<<e, d>>] \o Append(ack[<<e, d>>], h) /\ R = read[<<e, d>>] \o ack[<<e, d>>]
      BY <1>1, <1>4 DEF Received
    <3>2. read[<<e, d>>] \in Seq(Payload) /\ ack[<<e, d>>] \in Seq(Payload)
      BY <1>1
    <3>3. read[<<e, d>>] \o Append(ack[<<e, d>>], h) = Append(read[<<e, d>>] \o ack[<<e, d>>], h)
      BY <1>1, <3>2, AppendRight
    <3>4. QED
      BY <3>1, <3>3
  <2>3. /\ DOMAIN R' = 1 .. Len(R) + 1 /\ DOMAIN R = 1 .. Len(R) /\ Len(R) \in Nat
        /\ Len(R') = Len(R) + 1
        /\ \A i \in 1 .. Len(R) : R'[i] = R[i]
        /\ R'[Len(R) + 1] = h
    <3> HIDE DEF R, h
    <3>1. QED
      BY <1>1, <2>2, AppendSeq
  <2>4. NextNo(e, d) = First(e) + Len(R) + 1 /\ First(e) \in Nat
    BY <2>1, NextNoType
  <2>5. NextNo(e, d)' = First(e) + Len(R')
    <3>1. First(e)' = First(e) /\ Len(R') \in Nat
      BY <2>3 DEF First
    <3>2. NextNo(e, d)' = First(e)' + Len(R') + 0
      BY <1>2 DEF NextNo
    <3>3. QED
      BY <2>4, <3>1, <3>2
  <2>6. NextNo(e, d)' = NextNo(e, d)
    <3> HIDE DEF R, h
    <3>1. First(e) + (Len(R) + 1) = First(e) + Len(R) + 1
      BY <2>3, <2>4
    <3>2. NextNo(e, d)' = First(e) + (Len(R) + 1)
      BY <2>3, <2>5
    <3>3. QED
      BY <2>4, <3>1, <3>2
  <2>7. h.n + 1 = NextNo(e, d) /\ h.n \in Nat
    BY <2>1, Numbered DEF InRow
  <2>8. h.n = (Len(R) + 1) - 1 + First(e)
    <3> HIDE DEF R, h
    <3>1. QED
      BY <2>3, <2>4, <2>7
  <2>9. \A i \in 1 .. Len(R) : R[i].n = i - 1 + First(e)
    BY <2>3 DEF InRow
  <2> HIDE DEF R, h
  <2>10. \A i \in 1 .. Len(R) + 1 : i \in 1 .. Len(R) \/ i = Len(R) + 1
    BY <2>3
  <2>11. \A i \in DOMAIN R' : R'[i].n = i - 1 + First(e)
    BY <2>3, <2>8, <2>9, <2>10
  <2>12. QED
    BY <1>2, <2>6, <2>11 DEF InRow, R
<1>5. QED
  BY <1>3, <1>4
\* The loop takes the next payload for d into its hand.
LEMMA RowTaken ==
  ASSUME Inv, TypeOK', NEW e \in Ends, NEW d \in CIDs, RecvData(e), Head(net[e]).dst = d,
         InRow(e, d), NetRow(e, d), NEW w \in Nat, Head(net[e]).n <= w
  PROVE  InRow(e, d)' /\ NetRow(e, d)' /\ (Latest(e, d, w) => Latest(e, d, w)')
<1> DEFINE N == net[e]
           m == NextNo(e, d)
<1>1. /\ N \in Seq(Packet) /\ N # <<>> /\ net'[e] = Tail(N) /\ Head(N).kind = "Data"
      /\ loop[e] = "recv" /\ loop'[e] = "got" /\ UNCHANGED <<read, ack>>
      /\ hand'[e].dst = Head(N).dst /\ hand'[e].n = Head(N).n
  BY DEF Inv, TypeOK, RecvData, Receives, Taken
<1>2. /\ DOMAIN net'[e] = 1 .. Len(N) - 1 /\ DOMAIN N = 1 .. Len(N) /\ Len(N) \in Nat \ {0}
      /\ \A i \in 1 .. Len(N) - 1 : net'[e][i] = N[i + 1]
      /\ Head(N) = N[1] /\ N[1] \in Packet
  BY <1>1, TailSeq
<1>3. 1 \in DOMAIN N /\ DataFor(N[1], d) /\ N[1].n \in Nat
  <2>1. 1 \in DOMAIN N
    BY <1>2
  <2>2. N[1].n \in Nat
    BY <2>1, Numbered DEF Inv
  <2>3. QED
    BY <1>1, <1>2, <2>1, <2>2 DEF DataFor
<1>4. ~HandFor(e, d) /\ HandFor(e, d)'
  BY <1>1 DEF HandFor
<1>5. m = First(e) + Len(Received(<<e, d>>)) /\ m \in Nat
  BY <1>4, NextNoType DEF Inv
<1>6. Received(<<e, d>>)' = Received(<<e, d>>)
  BY <1>1 DEF Received
<1>7. m' = m + 1
  <2>1. m' = First(e) + Len(Received(<<e, d>>)) + 1
    BY <1>4, <1>6 DEF NextNo, First
  <2>2. QED
    BY <1>5, <2>1
<1>8. N[1].n = m
  <2>1. \A j \in DOMAIN N : ~(j < 1)
    BY <1>2
  <2>2. QED
    BY <1>3, <2>1 DEF NetRow
<1>9. InRow(e, d)'
  <2>1. \A i \in DOMAIN Received(<<e, d>>)' :
           Received(<<e, d>>)'[i].n = i - 1 + First(e)
    BY <1>6 DEF InRow
  <2>2. hand'[e].n + 1 = m'
    BY <1>1, <1>2, <1>7, <1>8
  <2>3. First(e)' = First(e)
    BY DEF First
  <2>4. QED
    BY <2>1, <2>2, <2>3 DEF InRow
<1>10. \A i \in DOMAIN N : 1 < i /\ DataFor(N[i], d) => N[1].n < N[i].n
  BY <1>3 DEF Inv, Flow, FlowNet, DataFor, IsData
<1> HIDE DEF m
<1>11. ASSUME NEW j \in DOMAIN N, DataFor(N[j], d), j # 1
       PROVE  j - 1 \in DOMAIN net'[e] /\ net'[e][j - 1] = N[j]
  <2>1. j - 1 \in 1 .. Len(N) - 1 /\ (j - 1) + 1 = j
    BY <1>2, <1>11
  <2>2. QED
    BY <1>2, <2>1
<1>12. ASSUME NEW i \in DOMAIN net'[e], DataFor(net'[e][i], d), net'[e][i].n # m'
       PROVE  \E j \in DOMAIN net'[e] :
                j < i /\ DataFor(net'[e][j], d) /\ net'[e][i].n = net'[e][j].n + 1
  <2>1. i + 1 \in DOMAIN N /\ net'[e][i] = N[i + 1] /\ 1 < i + 1
    BY <1>2, <1>12
  <2>2. N[1].n < N[i + 1].n
    BY <1>10, <1>12, <2>1
  <2>3. N[i + 1].n # m
    BY <1>3, <1>5, <1>8, <2>2
  <2>4. PICK j \in DOMAIN N : j < i + 1 /\ DataFor(N[j], d) /\ N[i + 1].n = N[j].n + 1
    BY <1>12, <2>1, <2>3 DEF NetRow, m
  <2>5. j # 1
    BY <1>7, <1>8, <1>12, <2>1, <2>4
  <2>6. j - 1 \in DOMAIN net'[e] /\ net'[e][j - 1] = N[j]
    BY <1>11, <2>4, <2>5
  <2>7. j - 1 < i
    BY <1>2, <2>1, <2>4
  <2>8. QED
    BY <2>1, <2>4, <2>6, <2>7
<1>13. NetRow(e, d)'
  BY <1>12 DEF NetRow, m
<1>14. ASSUME Latest(e, d, w) PROVE Latest(e, d, w)'
  <2>1. w + 1 # m
    BY <1>2, <1>3, <1>8
  <2>2. PICK j \in DOMAIN N : DataFor(N[j], d) /\ N[j].n = w
    BY <1>14, <2>1 DEF Latest, m
  <2>3. CASE j = 1
    BY <1>7, <1>8, <2>2, <2>3 DEF Latest, m
  <2>4. CASE j # 1
    BY <1>11, <2>2, <2>4 DEF Latest
  <2>5. QED
    BY <2>3, <2>4
<1>15. QED
  BY <1>9, <1>13, <1>14

\* A payload that follows the last one lengthens the row.
LEMMA RowWritten ==
  ASSUME TypeOK, TypeOK', NEW e \in Ends, NEW d \in CIDs, NEW p \in Packet, DataFor(p, d),
         net'[e] = Append(net[e], p), UNCHANGED <<read, ack, loop, hand>>,
         InRow(e, d), NetRow(e, d),
         \/ p.n = NextNo(e, d)
         \/ \E j \in DOMAIN net[e] : DataFor(net[e][j], d) /\ p.n = net[e][j].n + 1
  PROVE  InRow(e, d)' /\ NetRow(e, d)' /\ Latest(e, d, p.n)'
<1> DEFINE N == net[e]
<1>1. N \in Seq(Packet)
  BY DEF TypeOK
<1>2. /\ DOMAIN net'[e] = 1 .. Len(N) + 1 /\ DOMAIN N = 1 .. Len(N) /\ Len(N) \in Nat
      /\ \A i \in 1 .. Len(N) : net'[e][i] = N[i]
      /\ net'[e][Len(N) + 1] = p
  BY <1>1, AppendSeq
<1>3. /\ \A i \in 1 .. Len(N) : i \in DOMAIN net'[e] /\ i < Len(N) + 1
      /\ \A i \in DOMAIN net'[e] : i = Len(N) + 1 \/ i \in 1 .. Len(N)
      /\ Len(N) + 1 \in DOMAIN net'[e]
  BY <1>2
<1>4. NextNo(e, d)' = NextNo(e, d) /\ InRow(e, d)'
  BY DEF NextNo, InRow, Received, HandFor, First
<1>5. ASSUME NEW i \in DOMAIN net'[e], DataFor(net'[e][i], d), net'[e][i].n # NextNo(e, d)
      PROVE  \E j \in DOMAIN net'[e] :
               j < i /\ DataFor(net'[e][j], d) /\ net'[e][i].n = net'[e][j].n + 1
  <2>1. CASE i = Len(N) + 1
    <3>1. PICK j \in DOMAIN N : DataFor(N[j], d) /\ p.n = N[j].n + 1
      BY <1>2, <1>5, <2>1
    <3>2. QED
      BY <1>2, <1>3, <2>1, <3>1
  <2>2. CASE i \in 1 .. Len(N)
    <3>1. PICK j \in DOMAIN N : j < i /\ DataFor(N[j], d) /\ N[i].n = N[j].n + 1
      BY <1>2, <1>5, <2>2 DEF NetRow
    <3>2. QED
      BY <1>2, <1>3, <2>2, <3>1
  <2>3. QED
    BY <1>3, <2>1, <2>2
<1>6. NetRow(e, d)'
  BY <1>4, <1>5 DEF NetRow
<1>7. Latest(e, d, p.n)'
  BY <1>2, <1>3 DEF Latest
<1>8. QED
  BY <1>4, <1>6, <1>7

\* Nothing is for a connection that no other end has written for.
LEMMA NoneFor ==
  ASSUME Inv, NEW e \in Ends, NEW d \in CIDs,
         \A c \in Conns : c[1] = Peer(e) /\ remote[c] = d => pc[c] \in {"none", "dialing"}
  PROVE  /\ Received(<<e, d>>) = <<>> /\ ~HandFor(e, d)
         /\ \A i \in DOMAIN net[e] : ~DataFor(net[e][i], d)
<1>1. ASSUME NEW p, Genuine(e, p), p.dst = d PROVE FALSE
  <2>1. <<Peer(e), p.src>> \in Conns /\ <<Peer(e), p.src>>[1] = Peer(e)
    BY <1>1, Named DEF Genuine, Conns
  <2>2. QED
    BY <1>1, <2>1 DEF Genuine
<1>2. Received(<<e, d>>) = <<>>
  <2>1. Received(<<e, d>>) \in Seq(Payload)
    BY NextNoType DEF Inv
  <2>2. ASSUME 1 \in DOMAIN Received(<<e, d>>) PROVE FALSE
    BY <1>1, <2>2 DEF Inv, Flow, FlowReceived
  <2> DEFINE R == Received(<<e, d>>)
  <2> HIDE DEF R
  <2>3. R \in Seq(Payload) /\ 1 \notin DOMAIN R
    BY <2>1, <2>2 DEF R
  <2>4. R = <<>>
    BY <2>3
  <2>5. QED
    BY <2>4 DEF R
<1>3. ~HandFor(e, d)
  BY <1>1 DEF Inv, Flow, FlowHand, HandFor
<1>4. \A i \in DOMAIN net[e] : ~DataFor(net[e][i], d)
  BY <1>1 DEF Inv, Flow, FlowNet, DataFor, IsData
<1>5. QED
  BY <1>2, <1>3, <1>4

\* Then its row is empty, and what it gets first is the first payload.
LEMMA RowEmpty ==
  ASSUME NEW e \in Ends, NEW d \in CIDs, Received(<<e, d>>) = <<>>, ~HandFor(e, d),
         \A i \in DOMAIN net[e] : ~DataFor(net[e][i], d)
  PROVE  InRow(e, d) /\ NetRow(e, d) /\ NextNo(e, d) = First(e)
<1>1. NextNo(e, d) = First(e)
  BY DEF NextNo, First
<1>2. QED
  BY <1>1 DEF InRow, NetRow

LEMMA ShiftedIf ==
  ASSUME NEW e \in Ends, NEW d \in CIDs, NEW n \in {0, 1}, net[e] \in Seq(Packet),
         Retains(e, n), Kept(e, n, "Data"), n = 1 => ~DataFor(net[e][1], d)
  PROVE  Shifted(e, d, n)
<1>1. ASSUME NEW i \in DOMAIN net[e], DataFor(net[e][i], d)
      PROVE  n < i /\ i - n \in DOMAIN net'[e] /\ net'[e][i - n] = net[e][i]
  <2>1. i \in Nat /\ 0 < i
    OBVIOUS
  <2>2. n = 1 => i # 1
    BY <1>1
  <2>3. n < i
    BY <2>1, <2>2
  <2>4. QED
    BY <2>3 DEF Retains
<1>2. ASSUME NEW i \in DOMAIN net'[e], DataFor(net'[e][i], d)
      PROVE  i + n \in DOMAIN net[e] /\ net[e][i + n] = net'[e][i]
  BY <1>2 DEF Kept, DataFor
<1>3. QED
  BY <1>1, <1>2 DEF Shifted

\* A packet that is not for d changes nothing for d.
LEMMA ShiftedByOther ==
  ASSUME NEW e \in Ends, NEW d \in CIDs, net[e] \in Seq(Packet), NEW p \in Packet,
         ~DataFor(p, d), net'[e] = Append(net[e], p)
  PROVE  Shifted(e, d, 0)
<1>1. /\ DOMAIN net'[e] = 1 .. Len(net[e]) + 1 /\ DOMAIN net[e] = 1 .. Len(net[e])
      /\ Len(net[e]) \in Nat
      /\ \A i \in 1 .. Len(net[e]) : net'[e][i] = net[e][i]
      /\ net'[e][Len(net[e]) + 1] = p
  BY AppendSeq
<1>2. /\ \A i \in 1 .. Len(net[e]) : 0 < i /\ i - 0 = i /\ i \in 1 .. Len(net[e]) + 1
      /\ \A i \in 1 .. Len(net[e]) + 1 : i = Len(net[e]) + 1 \/ (i \in 1 .. Len(net[e]) /\ i + 0 = i)
  BY <1>1
<1>3. QED
  BY <1>1, <1>2 DEF Shifted

\* What is for d stays in its row unless the loop takes or drops it.
LEMMA RowHands ==
  ASSUME Inv, [Next]_vars, TypeOK', up', NEW c \in Conns, NEW d \in CIDs, remote[c] = d,
         ~ToldToClose(c)', NEW e, e = Peer(c[1]), InRow(e, d),
         RecvData(e) => Head(net[e]).dst # d
  PROVE  InRow(e, d)' /\ NextNo(e, d)' = NextNo(e, d)
<1>1. e \in Ends /\ TypeOK /\ remote[c] # 0
  BY Named DEF Inv
<1>2. CASE Deliver(e)
  BY <1>1, <1>2, RowDelivered
<1>3. CASE ReceivedKept(e) /\ ~Deliver(e)
  <2>1. Received(<<e, d>>)' = Received(<<e, d>>)
    BY <1>3 DEF ReceivedKept
  <2>2. ASSUME HandFor(e, d)' <=> HandFor(e, d), HandFor(e, d) => hand'[e].n = hand[e].n
        PROVE  InRow(e, d)' /\ NextNo(e, d)' = NextNo(e, d)
    <3>1. NextNo(e, d)' = NextNo(e, d)
      BY <2>1, <2>2 DEF NextNo, First
    <3>2. QED
      BY <2>1, <2>2, <3>1 DEF InRow, First
  <2>3. ASSUME ~HandFor(e, d)', ~HandFor(e, d) PROVE InRow(e, d)' /\ NextNo(e, d)' = NextNo(e, d)
    BY <2>2, <2>3
  <2>4. CASE RecvData(e)
    <3>1. loop[e] = "recv" /\ hand'[e].dst # d
      BY <1>1, <2>4 DEF RecvData, Receives, TypeOK
    <3>2. QED
      BY <2>3, <3>1 DEF HandFor
  <2>5. CASE loop'[e] = loop[e] /\ hand'[e] = hand[e]
    BY <2>2, <2>5 DEF HandFor
  <2>6. CASE loop'[e] # "got" /\ loop[e] = "recv"
    BY <2>3, <2>6 DEF HandFor
  <2>7. CASE loop'[e] # "got" /\ DropFull(e)
    <3>1. hand[e].dst # d
      BY <1>1, <2>7, DropTells
    <3>2. QED
      BY <2>3, <2>7, <3>1 DEF HandFor
  <2>8. ~Panic(e)
    BY DEF Panic
  <2>9. QED
    BY <1>1, <1>3, <2>4, <2>5, <2>6, <2>7, <2>8, HandStep DEF HandKept
<1>4. QED
  BY <1>1, <1>2, <1>3, ReceivedStep

\* A payload is written, or none is.
LEMMA WroteStep ==
  ASSUME Inv, [Next]_vars, NEW s \in Conns
  PROVE  (\E n \in 0 .. MaxData : Writing(s, n)) \/ wrote'[s] = wrote[s]
<1> DEFINE Goal == (\E n \in 0 .. MaxData : Writing(s, n)) \/ wrote'[s] = wrote[s]
<1>0. wrote \in [Conns -> 0 .. MaxData]
  BY DEF Inv, TypeOK
<1>1. ASSUME wrote' = wrote PROVE Goal
  BY <1>1
<1>2. ASSUME NEW j \in CIDs, OpenStep(j) PROVE Goal
  BY <1>1, <1>2 DEF OpenStep, Pending, SendOpen, Opened, OpenFails
<1>3. ASSUME NEW j \in CIDs, UseStep(j) PROVE Goal
  <2>1. CASE DialerWrites(j)
    <3>1. wrote' = [wrote EXCEPT ![Dialed(j)] = @ + 1]
      BY <2>1 DEF DialerWrites
    <3>2. CASE s = Dialed(j)
      <4>1. Writing(s, wrote[s] + 1)
        BY <2>1, <3>2, WriteStep
      <4>2. QED
        BY <4>1 DEF Writing
    <3>3. QED
      BY <1>0, <3>1, <3>2
  <2>2. QED
    BY <1>1, <1>3, <2>1 DEF UseStep, DialerReads, DialerCloses
<1>4. ASSUME NEW j \in CIDs, CopyStep(j) PROVE Goal
  <2>1. CASE CopyOut(j)
    <3>1. wrote' = [wrote EXCEPT ![Accepted(j)] = @ + 1]
      BY <2>1 DEF CopyOut
    <3>2. CASE s = Accepted(j)
      <4>1. Writing(s, wrote[s] + 1)
        BY <2>1, <3>2, WriteStep
      <4>2. QED
        BY <4>1 DEF Writing
    <3>3. QED
      BY <1>0, <3>1, <3>2
  <2>2. QED
    BY <1>1, <1>4, <2>1 DEF CopyStep, CopyIn, CopyInEnds, CopyOutEnds
<1>5. ASSUME NEW j \in CIDs, Accept(j) \/ AcceptStep(j) PROVE Goal
  BY <1>1, <1>5 DEF Accept, AcceptStep, DialFails, DialSucceeds, StartCopying, CopyingEnds
<1>6. ASSUME NEW x \in Ends, RecvStep(x) \/ Flush(x) PROVE Goal
  BY <1>1, <1>6 DEF RecvStep, RecvOpen, RecvClose, RecvData, RecvUnknown, Deliver, DropFull,
                    Panic, Flush
<1>7. ASSUME (\E b \in Conns : CloseStep(b)) \/ TunnelLost \/ UNCHANGED vars PROVE Goal
  BY <1>1, <1>7 DEF CloseStep, Close, SendClose, TunnelLost, vars
<1>8. ASSUME NEW x \in Ends, NEW j \in 0 .. MaxDials, CloseByPeer(x, j) PROVE Goal
  BY <1>1, <1>8 DEF CloseByPeer
<1>9. QED
  BY <1>2, <1>3, <1>4, <1>5, <1>6, <1>7, <1>8 DEF Next

\* s writes, after its last payload or as its first one.
LEMMA RowIfWritten ==
  ASSUME Inv, TypeOK', NEW s \in Conns, NEW d \in CIDs, remote[s] = d, Unbroken(s, d),
         NEW n \in 0 .. MaxData, Writing(s, n)
  PROVE  Unbroken(s, d)'
<1> DEFINE e == Peer(s[1])
           p == Packed("Data", s[2], d, n)
<1>1. e \in Ends /\ e # s[1] /\ Peer(e) = s[1] /\ TypeOK /\ wrote \in [Conns -> 0 .. MaxData]
  <2>1. e \in Ends /\ e # s[1] /\ Peer(e) = s[1]
    BY Named
  <2>2. QED
    BY <2>1 DEF Inv, TypeOK
<1>2. p \in Packet /\ DataFor(p, d) /\ p.n = n
  <2>1. s[2] \in 0 .. MaxDials /\ d \in 0 .. MaxDials
    BY Named
  <2>2. p \in Packet /\ p.kind = "Data" /\ p.dst = d /\ p.n = n
    BY <2>1, PacketType
  <2>3. QED
    BY <2>2 DEF DataFor
<1>3. net'[e] = Append(net[e], p) /\ UNCHANGED <<read, ack, loop, hand>>
  BY DEF Writing
<1>4. InRow(e, d) /\ NetRow(e, d)
  BY DEF Unbroken
<1> HIDE DEF p
<1>5. wrote'[s] = n /\ n \in Nat
  <2>1. CASE n = wrote[s] + 1
    <3>1. wrote[s] \in Nat /\ n \in Nat
      BY <1>1, Named
    <3>2. n # 0
      BY <2>1, <3>1
    <3>3. QED
      BY <3>1, <3>2 DEF Writing
  <2>2. CASE n = 0 /\ pc[s] = "dialing" /\ s[1] = "acceptor" /\ wrote' = wrote
    <3>1. s = Accepted(s[2]) /\ s[2] \in CIDs
      BY <2>2, Named
    <3>2. wrote[s] = 0
      BY <2>2, <3>1 DEF Inv, PhaseInv
    <3>3. QED
      BY <2>2, <3>2
  <2>3. QED
    BY <2>1, <2>2, Named DEF Writing
<1>6. \/ n = NextNo(e, d)
      \/ \E j \in DOMAIN net[e] : DataFor(net[e][j], d) /\ n = net[e][j].n + 1
  <2>1. CASE n = wrote[s] + 1 /\ (s[1] = "acceptor" => pc[s] = "copy")
    <3>1. Sends(s)
      BY <2>1, Named DEF Sends
    <3>2. Latest(e, d, wrote[s])
      BY <3>1 DEF Unbroken
    <3>3. QED
      BY <2>1, <3>2 DEF Latest
  <2>2. CASE n = 0 /\ pc[s] = "dialing" /\ s[1] = "acceptor"
    <3>1. ASSUME NEW c \in Conns, c[1] = Peer(e), remote[c] = d PROVE pc[c] \in {"none", "dialing"}
      <4>1. c = s
        BY <1>1, <3>1, OneNames, Named
      <4>2. QED
        BY <2>2, <4>1
    <3>2. /\ Received(<<e, d>>) = <<>> /\ ~HandFor(e, d)
          /\ \A i \in DOMAIN net[e] : ~DataFor(net[e][i], d)
      BY <1>1, <3>1, NoneFor
    <3>3. NextNo(e, d) = First(e)
      BY <1>1, <3>2, RowEmpty
    <3>4. First(e) = 0
      BY <2>2, Named DEF First
    <3>5. QED
      BY <2>2, <3>3, <3>4
  <2>3. QED
    BY <2>1, <2>2 DEF Writing
<1>7. InRow(e, d)' /\ NetRow(e, d)' /\ Latest(e, d, n)'
  BY <1>1, <1>2, <1>3, <1>4, <1>6, RowWritten
<1>8. QED
  BY <1>5, <1>7 DEF Unbroken

\* What is on its way, or in the loop's hand, keeps the row.
LEMMA RowIfShifted ==
  ASSUME Inv, [Next]_vars, TypeOK', up', NEW s \in Conns, NEW d \in CIDs, remote[s] = d,
         ~ToldToClose(s)', Unbroken(s, d), NEW e, e = Peer(s[1]),
         \A n \in 0 .. MaxData : ~Writing(s, n),
         RecvData(e) => Head(net[e]).dst # d,
         NEW n \in {0, 1}, Shifted(e, d, n)
  PROVE  Unbroken(s, d)'
<1>1. e \in Ends /\ TypeOK /\ remote[s] # 0 /\ InRow(e, d) /\ NetRow(e, d)
  BY Named DEF Inv, Unbroken
<1>2. InRow(e, d)' /\ NextNo(e, d)' = NextNo(e, d)
  BY <1>1, RowHands
<1>3. NetRow(e, d)' /\ \A w : Latest(e, d, w) => Latest(e, d, w)'
  BY <1>1, <1>2, RowShifts
<1>4. wrote'[s] = wrote[s]
  BY WroteStep
<1>5. ASSUME Sends(s)' PROVE Sends(s)
  <2>1. CASE s[1] = "acceptor"
    <3>1. s = Accepted(s[2]) /\ s[2] \in CIDs
      BY <2>1, Named
    <3>2. remote'[s] # 0
      BY <1>1, SteadyStep DEF Steady
    <3>3. pc'[s] \in {"acked", "copy"}
      BY <1>5, <2>1 DEF Sends
    <3>4. pc[s] \in {"acked", "copy"} \/ Writing(s, 0)
      BY <3>1, <3>2, <3>3, AckedStep
    <3>5. 0 \in 0 .. MaxData
      BY Named
    <3>6. QED
      BY <3>4, <3>5 DEF Sends
  <2>2. QED
    BY <2>1, Named DEF Sends
<1>6. Sends(s)' => \E w \in Nat : w = wrote'[s] /\ Latest(e, d, w)'
  BY <1>3, <1>4, <1>5 DEF Unbroken
<1>7. QED
  BY <1>2, <1>3, <1>6 DEF Unbroken

\* The loop takes the next payload.
LEMMA RowIfTaken ==
  ASSUME Inv, [Next]_vars, TypeOK', NEW s \in Conns, NEW d \in CIDs, remote[s] = d,
         Unbroken(s, d), NEW e, e = Peer(s[1]), RecvData(e), Head(net[e]).dst = d
  PROVE  Unbroken(s, d)'
<1>1. e \in Ends /\ TypeOK /\ remote[s] # 0 /\ InRow(e, d) /\ NetRow(e, d)
      /\ net[e] \in Seq(Packet) /\ net[e] # <<>> /\ Head(net[e]).kind = "Data"
  <2>1. e \in Ends /\ remote[s] # 0
    BY Named
  <2>2. InRow(e, d) /\ NetRow(e, d)
    BY DEF Unbroken
  <2>3. TypeOK /\ net[e] \in Seq(Packet)
    BY <2>1 DEF Inv, TypeOK
  <2>4. net[e] # <<>> /\ Head(net[e]).kind = "Data"
    BY DEF RecvData, Receives
  <2>5. QED
    BY <2>1, <2>2, <2>3, <2>4
<1>2. wrote[s] \in Nat /\ wrote'[s] = wrote[s] /\ pc' = pc
  BY Named DEF Inv, TypeOK, RecvData
<1>3. Head(net[e]).n <= wrote[s]
  <2>1. Head(net[e]) = net[e][1] /\ 1 \in DOMAIN net[e]
    BY <1>1, TailSeq
  <2>2. Genuine(e, Head(net[e]))
    BY <1>1, <2>1 DEF Inv, Flow, FlowNet, IsData
  <2>3. QED
    BY <1>1, <2>2, WrittenBy
<1>4. InRow(e, d)' /\ NetRow(e, d)' /\ (Latest(e, d, wrote[s]) => Latest(e, d, wrote[s])')
  <2> DEFINE w == wrote[s]
  <2>1. PICK v \in Nat : v = wrote[s]
    BY <1>2
  <2>2. InRow(e, d)' /\ NetRow(e, d)' /\ (Latest(e, d, v) => Latest(e, d, v)')
    BY <1>1, <1>3, <2>1, RowTaken
  <2>3. QED
    BY <1>2, <2>1, <2>2
<1>5. QED
  BY <1>2, <1>4 DEF Unbroken, Sends

LEMMA RowStep ==
  ASSUME Inv, [Next]_vars, TypeOK', up', NEW s \in Conns, NEW d \in CIDs, remote[s] = d,
         ~ToldToClose(s)', Unbroken(s, d)
  PROVE  Unbroken(s, d)'
<1> DEFINE e == Peer(s[1])
<1>1. e \in Ends /\ Peer(e) = s[1] /\ net[e] \in Seq(Packet) /\ remote[s] # 0
  <2>1. e \in Ends /\ Peer(e) = s[1] /\ d # 0
    BY Named
  <2>2. QED
    BY <2>1 DEF Inv, TypeOK
<1>2. CASE \E n \in 0 .. MaxData : Writing(s, n)
  BY <1>2, RowIfWritten
<1>3. CASE RecvData(e) /\ Head(net[e]).dst = d
  BY <1>3, RowIfTaken
<1>4. CASE /\ \A n \in 0 .. MaxData : ~Writing(s, n)
           /\ RecvData(e) => Head(net[e]).dst # d
  <2>1. ASSUME NEW n \in {0, 1}, Shifted(e, d, n) PROVE Unbroken(s, d)'
    BY <1>4, <2>1, RowIfShifted
  <2>2. ASSUME NEW b \in Conns, NEW n \in 0 .. MaxData, Writing(b, n), e = Peer(b[1])
        PROVE  Unbroken(s, d)'
    <3> DEFINE p == Packed("Data", b[2], remote[b], n)
    <3>1. b[1] = s[1] /\ b # s
      BY <1>1, <1>4, <2>2, Named
    <3>2. remote[b] # d
      BY <1>1, <3>1, OneNames
    <3>3. net'[e] = Append(net[e], p)
      BY <2>2 DEF Writing
    <3>4. b[2] \in 0 .. MaxDials /\ remote[b] \in 0 .. MaxDials
      <4>1. b[2] \in 0 .. MaxDials
        BY Named
      <4>2. QED
        BY <4>1 DEF Inv, TypeOK
    <3>5. p \in Packet /\ p.dst = remote[b]
      BY <3>4, PacketType
    <3> HIDE DEF p
    <3>6. Shifted(e, d, 0)
      BY <1>1, <3>2, <3>3, <3>5, ShiftedByOther DEF DataFor
    <3>7. QED
      BY <2>1, <3>6
  <2>3. ASSUME Passes(e, 0), ~WrittenTo(e) PROVE Unbroken(s, d)'
    <3>1. Shifted(e, d, 0)
      BY <1>1, <2>3, ShiftedIf DEF Passes
    <3>2. QED
      BY <2>1, <3>1
  <2>4. ASSUME Passes(e, 1), net[e] # <<>>, Takes(e), ~WrittenTo(e) PROVE Unbroken(s, d)'
    <3>1. net[e][1] = Head(net[e])
      BY <1>1, <2>4, TailSeq
    <3>2. ASSUME DataFor(Head(net[e]), d) PROVE FALSE
      <4>1. RecvUnknown(e)
        BY <1>4, <2>4, <3>2 DEF Takes, RecvOpen, RecvClose, Receives, DataFor
      <4>2. QED
        BY <1>1, <3>2, <4>1, DropTells DEF DataFor
    <3>3. Shifted(e, d, 1)
      BY <1>1, <2>4, <3>1, <3>2, ShiftedIf DEF Passes
    <3>4. QED
      BY <2>1, <3>3
  <2>5. QED
    BY <1>1, <2>2, <2>3, <2>4, NetPasses DEF WrittenTo
<1>5. QED
  BY <1>2, <1>3, <1>4

\* Nothing is on its way for a connection that its peer has just come to know.
LEMMA RowBegins ==
  ASSUME Inv, UnbrokenInv, [Next]_vars, NEW s \in Conns, NEW d \in CIDs,
         remote[s] = 0, remote'[s] = d
  PROVE  Unbroken(s, d)'
<1> DEFINE e == Peer(s[1])
<1>1. /\ e \in Ends /\ Peer(e) = s[1] /\ remote \in [Conns -> 0 .. MaxDials]
      /\ pc \in [Conns -> PCs] /\ d # 0
  <2>1. e \in Ends /\ Peer(e) = s[1] /\ d # 0
    BY Named
  <2>2. QED
    BY <2>1 DEF Inv, TypeOK
<1>2. ASSUME Received(<<e, d>>)' = <<>>, ~HandFor(e, d)',
             \A i \in DOMAIN net'[e] : ~DataFor(net'[e][i], d),
             Sends(s)' => wrote'[s] + 1 = First(e) /\ wrote'[s] \in Nat
      PROVE  Unbroken(s, d)'
  <2>1. First(e)' = First(e)
    BY DEF First
  <2>2. NextNo(e, d)' = First(e)
    <3>1. First(e) \in Nat /\ Len(<<>>) = 0
      BY DEF First
    <3>2. NextNo(e, d)' = First(e) + Len(Received(<<e, d>>)') + 0
      BY <1>2, <2>1 DEF NextNo
    <3>3. QED
      BY <1>2, <3>1, <3>2
  <2>3. InRow(e, d)' /\ NetRow(e, d)'
    BY <1>2 DEF InRow, NetRow
  <2>4. Sends(s)' => \E w \in Nat : w = wrote'[s] /\ Latest(e, d, w)'
    BY <1>2, <2>2 DEF Latest
  <2>5. QED
    BY <2>3, <2>4 DEF Unbroken
<1>3. ASSUME NEW k \in CIDs, Accept(k) PROVE Unbroken(s, d)'
  <2> DEFINE r == autoinc["acceptor"] + 1
  <2>1. /\ r \in CIDs /\ Accepted(r) \in Conns /\ Unaccepted(k)
        /\ remote' = [remote EXCEPT ![Accepted(r)] = k]
        /\ pc' = [pc EXCEPT ![Accepted(r)] = "dialing"]
    BY <1>3, Accepting
  <2> HIDE DEF r
  <2>2. s = Accepted(r) /\ d = k
    BY <1>1, <2>1
  <2>3. s[1] = "acceptor" /\ e = "dialer" /\ pc'[s] = "dialing"
    BY <1>1, <2>1, <2>2, Named
  <2>4. \A c \in Conns : c[1] = Peer(e) => remote[c] # d
    BY <2>1, <2>2, <2>3, Named DEF Unaccepted
  <2>5. /\ Received(<<e, d>>) = <<>> /\ ~HandFor(e, d)
        /\ \A i \in DOMAIN net[e] : ~DataFor(net[e][i], d)
    BY <1>1, <2>4, NoneFor
  <2>6. UNCHANGED <<ack, read, net, loop, hand>>
    BY <1>3 DEF Accept
  <2>7. Received(<<e, d>>)' = <<>> /\ ~HandFor(e, d)'
    BY <2>5, <2>6 DEF Received, HandFor
  <2>8. ~Sends(s)'
    BY <2>3 DEF Sends
  <2>9. QED
    BY <1>2, <2>5, <2>6, <2>7, <2>8
<1>4. ASSUME NEW k \in CIDs, Opened(k) PROVE Unbroken(s, d)'
  <2>1. /\ remote' = [remote EXCEPT ![Dialed(k)] = Head(ack[Dialed(k)]).src]
        /\ pc[Dialed(k)] = "waiting" /\ ack[Dialed(k)] # <<>>
        /\ UNCHANGED <<wrote, net, loop, hand>>
    BY <1>4 DEF Opened
  <2>2. s = Dialed(k) /\ d = Head(ack[Dialed(k)]).src
    BY <1>1, <2>1
  <2>3. remote[Accepted(d)] = k /\ s[1] = "dialer" /\ e = "acceptor"
    BY <1>4, <2>2, Acknowledged, Named
  <2>4. ASSUME NEW c \in Conns, c[1] = Peer(e), remote[c] = d PROVE FALSE
    <3>1. c = Dialed(c[2]) /\ c[2] \in CIDs
      BY <2>3, <2>4, Named
    <3>2. remote[Accepted(d)] = c[2]
      BY <1>1, <2>4, <3>1 DEF Inv, IdInv
    <3>3. c = s
      BY <2>2, <2>3, <3>1, <3>2
    <3>4. QED
      BY <1>1, <2>4, <3>3
  <2>5. /\ Received(<<e, d>>) = <<>> /\ ~HandFor(e, d)
        /\ \A i \in DOMAIN net[e] : ~DataFor(net[e][i], d)
    BY <1>1, <2>4, NoneFor
  <2>6. Received(<<e, d>>)' = Received(<<e, d>>)
    <3>1. ~Deliver(e)
      <4>1. ASSUME Deliver(e) PROVE FALSE
        <5>1. loop[e] = "got" /\ loop'[e] = "recv"
          BY <1>1, <4>1 DEF Inv, TypeOK, Deliver
        <5>2. QED
          BY <2>1, <5>1
      <4>2. QED
        BY <4>1
    <3>2. QED
      BY <1>1, <3>1, ReceivedStep DEF ReceivedKept
  <2>7. ~HandFor(e, d)'
    BY <2>1, <2>5 DEF HandFor
  <2>8. wrote[s] = 0
    BY <1>1, <2>2 DEF UnbrokenInv
  <2>9. First(e) = 1 /\ wrote'[s] = 0
    BY <2>1, <2>3, <2>8 DEF First
  <2>10. QED
    BY <1>2, <2>1, <2>5, <2>6, <2>7, <2>9
<1>5. ASSUME SameIds PROVE FALSE
  BY <1>1, <1>5 DEF SameIds
<1>6. QED
  BY <1>3, <1>4, <1>5, SteadyStep

LEMMA UnbrokenNext == Inv /\ UnbrokenInv /\ [Next]_vars /\ TypeOK' => UnbrokenInv'
<1> SUFFICES ASSUME Inv, UnbrokenInv, [Next]_vars, TypeOK' PROVE UnbrokenInv'
  OBVIOUS
<1>1. ASSUME NEW k \in CIDs, remote'[Dialed(k)] = 0 PROVE wrote'[Dialed(k)] = 0
  <2>1. Dialed(k) \in Conns
    BY Named
  <2>2. remote[Dialed(k)] = 0
    BY <1>1, <2>1, SteadyStep DEF Steady
  <2>3. wrote[Dialed(k)] = 0
    BY <2>2 DEF UnbrokenInv
  <2>4. \A n \in 0 .. MaxData : ~Writing(Dialed(k), n)
    BY <2>2 DEF Writing
  <2>5. QED
    BY <2>1, <2>3, <2>4, WroteStep
<1>2. ASSUME NEW s \in Conns, NEW d \in CIDs, up', remote'[s] = d, ~ToldToClose(s)'
      PROVE  Unbroken(s, d)'
  <2>1. CASE remote[s] = 0
    BY <1>2, <2>1, RowBegins
  <2>2. CASE remote[s] # 0
    <3>1. up /\ remote[s] = d
      BY <1>2, <2>2, UpStays, SteadyStep DEF Steady
    <3>2. pc[s] # "none"
      BY <2>2, Known
    <3>3. ~ToldToClose(s)
      BY <1>2, <3>2, ToldStays
    <3>4. Unbroken(s, d)
      BY <3>1, <3>3 DEF UnbrokenInv
    <3>5. QED
      BY <1>2, <3>1, <3>4, RowStep
  <2>3. QED
    BY <2>1, <2>2
<1>3. QED
  BY <1>1, <1>2 DEF UnbrokenInv

\* What a connection received has a hole in it only if the connection that wrote it was
\* told to close: a payload is dropped, because the channel was full or the connection
\* gone, only together with the Close that says so, and none is lost or overtaken
\* otherwise (recv, localIn, accept).
THEOREM GapsAreTold == Spec => []GapIsTold
<1>1. Init => UnbrokenInv
  <2> SUFFICES ASSUME Init PROVE UnbrokenInv
    OBVIOUS
  <2>1. \A s \in Conns : wrote[s] = 0 /\ remote[s] = 0
    BY DEF Init
  <2>2. \A d \in CIDs : d # 0
    BY Named
  <2>3. QED
    BY <2>1, <2>2, Named DEF UnbrokenInv
<1>2. Inv /\ UnbrokenInv => GapIsTold
  <2> SUFFICES ASSUME Inv, UnbrokenInv, NEW c \in Conns, up, Gap(c),
                      ~ToldToClose(Other(c, Head(Received(c)).src))
               PROVE  FALSE
    BY DEF GapIsTold
  <2> DEFINE R == Received(c)
             s == Other(c, Head(R).src)
             e == c[1]
             d == c[2]
  <2>1. e \in Ends /\ d \in CIDs /\ c = <<e, d>> /\ Peer(Peer(e)) = e
    BY Named DEF Conns
  <2>2. R \in Seq(Payload)
    BY <2>1, NextNoType DEF Inv
  <2>3. Head(R) = R[1] /\ 1 \in DOMAIN R
    <3>1. PICK i \in DOMAIN R : TRUE
      BY DEF Gap
    <3> HIDE DEF R
    <3>2. R # <<>>
      BY <3>1
    <3>3. QED
      BY <2>2, <3>2, TailSeq
  <2>4. Genuine(e, R[1]) /\ R[1].dst = d
    <3>1. FlowReceived(e, d)
      BY <2>1 DEF Inv, Flow
    <3>2. QED
      BY <2>1, <2>3, <3>1 DEF FlowReceived
  <2>5. s \in Conns /\ remote[s] = d /\ Peer(s[1]) = e
    <3>1. s = <<Peer(e), R[1].src>>
      BY <2>3 DEF Other
    <3>2. R[1].src \in CIDs /\ Peer(e) \in Ends /\ remote[<<Peer(e), R[1].src>>] = d
      BY <2>1, <2>4, Named DEF Genuine
    <3> HIDE DEF s, R
    <3>3. QED
      BY <2>1, <3>1, <3>2 DEF Conns
  <2>6. Unbroken(s, d)
    BY <2>1, <2>5 DEF UnbrokenInv
  <2>7. InRow(e, d)
    BY <2>5, <2>6 DEF Unbroken
  <2>8. \A i \in DOMAIN R : R[i].n = i - 1 + First(e)
    BY <2>1, <2>7 DEF InRow
  <2>9. QED
    BY <2>8 DEF Gap
<1>3. Inv => TypeOK
  BY DEF Inv
<1>4. QED
  BY <1>1, <1>2, <1>3, UnbrokenNext, Invariance, PTL DEF Spec
=============================================================================
