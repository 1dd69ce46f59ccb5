--------------------------- MODULE MuxClientsInv ---------------------------
(***************************************************************************)
(* The inductive invariant behind the theorems about MuxClients.  It has   *)
(* two halves: what holds of one side by itself (Local), and what the two  *)
(* sides of a connection and the packets between them have to do with each *)
(* other (Cross).                                                          *)
(***************************************************************************)
EXTENDS MuxClients

-----------------------------------------------------------------------------
(* One side.                                                               *)

Entry == [id : 1 .. MaxId, karma : {End} \cup (Nat \ {0}), from : Obj, granted : Nat]
AnyPacket ==
    [id : ControlId .. MaxId, data : Seq(Obj \X (Nat \ {0})), acks : Seq(Entry)]
ClientRec ==
    [life : {"unborn", "live", "burned", "freed"}, id : 0 .. MaxId,
     s : {"closed", "open", "unwatched"}, is_connecting : BOOLEAN, is_rdead : BOOLEAN,
     wkarma : Nat, rkarma : {End} \cup Nat, out : Seq(Obj \X Nat), taken : Nat,
     given : Seq(Obj \X Nat), granted : Nat, mate : {None} \cup Obj]

\* The types, without the bounds on karma that only the connection gives.
Types ==
    /\ client \in [Side -> [Obj -> ClientRec]]
    /\ table \in [Side -> [1 .. MaxId -> {None} \cup Obj]]
    /\ write_q \in [Side -> Seq({Control} \cup Obj)]
    /\ karma_q \in [Side -> Seq(Obj)]
    /\ ack_due \in [Side -> BOOLEAN]
    /\ wout \in [Side -> AnyPacket]
    /\ link \in [Side -> Seq(AnyPacket)]
    /\ rin \in [Side -> AnyPacket]
    /\ reading \in [Side -> BOOLEAN]
    /\ cw \in [Side -> {None} \cup Obj]
    /\ out_due \in [Side -> BOOLEAN]
    /\ in_mainw \in [Side -> BOOLEAN]
    /\ pending \in [Side -> SUBSET ({Main, Listener} \cup Obj)]
    /\ failed \in {"no", "socket_connected", "queued_client_freed"}

\* What the fields of a client have to do with each other.
Credible(c) ==
    /\ IF c.rkarma = End THEN c.granted <= ClientKarma + Len(c.given)
       ELSE c.granted + c.rkarma <= ClientKarma + Len(c.given)
    /\ Open(c) => c.granted + c.rkarma = ClientKarma + Len(c.given)
ClientOK(c) ==
    /\ c.life = "unborn" => c = Unborn
    /\ c.life # "unborn" => c.id \in 1 .. MaxId
    /\ Open(c) => c.life = "live" /\ c.rkarma # End
    /\ c.s = "open" => ~c.is_rdead
    /\ c.s = "unwatched" => c.rkarma = 0 /\ c.is_connecting
    /\ c.s = "closed" => c.rkarma \in {End, 0}
    /\ c.life # "live" => c.rkarma = 0
    /\ c.life = "live" /\ ~Open(c) /\ c.is_rdead => c.rkarma = End
    /\ Credible(c)
Clients(s) == \A o \in Obj : ClientOK(client[s][o])

\* client_table holds the clients that are not forgotten.
Tables(s) ==
    /\ \A i \in 1 .. MaxId : table[s][i] # None =>
         client[s][table[s][i]].life = "live" /\ client[s][table[s][i]].id = i
    /\ \A o \in Obj : client[s][o].life = "live" => table[s][client[s][o].id] = o

\* karma_q holds, once each, the clients that have something to announce.
Announces(c) == c.rkarma = End \/ c.rkarma >= AckThreshold
Announcers(s) ==
    /\ \A i, j \in 1 .. Len(karma_q[s]) : karma_q[s][i] = karma_q[s][j] => i = j
    /\ \A o \in Obj :
         Announces(client[s][o]) <=> \E i \in 1 .. Len(karma_q[s]) : karma_q[s][i] = o

\* The control client is queued, once, when there is something to write for it.
Queued(q, x) == \E i \in 1 .. Len(q) : q[i] = x
Once(q, x) == \A i, j \in 1 .. Len(q) : q[i] = x /\ q[j] = x => i = j
ControlQueued(s) ==
    /\ Once(write_q[s], Control)
    /\ Queued(write_q[s], Control) <=> ack_due[s] \/ karma_q[s] # <<>>

\* Inside clientw mainw has nothing but a control packet to write, so the client
\* it was called for stays as it was.
Busy(s) ==
    /\ out_due[s] => cw[s] # None
    /\ cw[s] # None /\ ~out_due[s] =>
         /\ CanUse(client[s][cw[s]])
         /\ in_mainw[s] => \A i \in 1 .. Len(write_q[s]) : write_q[s][i] = Control

\* Events are of clients with a socket that epoll was told of.
Watched(s) ==
    /\ \A o \in Obj \cap pending[s] :
         client[s][o].life # "unborn" /\ client[s][o].s # "unwatched"
    /\ Listener \in pending[s] => s = "mux"

\* mainw leaves its queue only in the middle of a packet.
Unfinished(s) ==
    "reconnect" \notin Environment /\ ~in_mainw[s] /\ write_q[s] # <<>> =>
        wout[s] # NoPacket

Local(s) ==
    /\ Clients(s) /\ Tables(s) /\ Announcers(s) /\ ControlQueued(s)
    /\ Busy(s) /\ Watched(s) /\ Unfinished(s)

-----------------------------------------------------------------------------
(* The packets from one side to the other.                                 *)

\* In order: the one being processed, those on the link, the one being written.
StreamOf(first, queue, last) ==
    [i \in Nat |-> IF i = 0 THEN first ELSE IF i <= Len(queue) THEN queue[i]
                   ELSE IF i = Len(queue) + 1 THEN last ELSE NoPacket]
Stream(s) == StreamOf(rin[Peer(s)], link[Peer(s)], wout[s])

\* What a packet holds of client o.
AcksOf(pk, o) == {e \in {pk.acks[j] : j \in DOMAIN pk.acks} : e.from = o}
EndIn(pk, o) == \E e \in AcksOf(pk, o) : e.karma = End
HasData(pk, o) == pk.data # <<>> /\ pk.data[1][1] = o
Start(pk) == pk.data[1][2]
Stop(pk) == pk.data[1][2] + Len(pk.data) - 1
Holds(pk, o) == HasData(pk, o) \/ AcksOf(pk, o) # {}

\* A packet is of one client, or of several that acknowledge something.
\* cs are the clients of the side that sends it.
DataPacket(cs, pk) ==
    /\ pk.acks = <<>> /\ pk.data # <<>>
    /\ cs[pk.data[1][1]].life # "unborn"
    /\ pk.id = cs[pk.data[1][1]].id
    /\ \A j \in 1 .. Len(pk.data) : pk.data[j] = <<pk.data[1][1], pk.data[1][2] + j - 1>>
ControlPacket(cs, pk) ==
    /\ pk.id = ControlId /\ pk.data = <<>>
    /\ \A j \in 1 .. Len(pk.acks) :
         /\ cs[pk.acks[j].from].life # "unborn"
         /\ pk.acks[j].id = cs[pk.acks[j].from].id
    /\ \A j, k \in 1 .. Len(pk.acks) : pk.acks[j].from = pk.acks[k].from => j = k
PacketOK(cs, pk) == pk = NoPacket \/ DataPacket(cs, pk) \/ ControlPacket(cs, pk)

Packets(s) ==
    /\ \A i \in Nat : PacketOK(client[s], Stream(s)[i])
    /\ Stream(s)[0].id = ControlId => Stream(s)[0].acks # <<>>

-----------------------------------------------------------------------------
(* The two ends of a connection.  c and o are the end that sends over the  *)
(* stream f, r is the end that receives.                                   *)

\* What has been sent and not received is in the stream, in order.
Units(f, o, sent, received) ==
    /\ received <= sent
    /\ \A i \in Nat : HasData(f[i], o) => received < Start(f[i]) /\ Stop(f[i]) <= sent
    /\ \A i, j \in Nat :
         i < j /\ HasData(f[i], o) /\ HasData(f[j], o) => Stop(f[i]) < Start(f[j])
    /\ \A n \in received + 1 .. sent :
         \E i \in Nat : HasData(f[i], o) /\ n \in Start(f[i]) .. Stop(f[i])

\* The units of credit are numbered as they are given; an entry brings those up to
\* its granted.
Brings(e, n) == e.karma # End /\ e.granted < n + e.karma /\ n <= e.granted

\* What credit is taken out of the stream was put into it, and the rest is on its way.
Grants(f, o, granted, credit) ==
    /\ credit <= granted
    /\ \A i \in Nat : \A e \in AcksOf(f[i], o) :
         e.karma # End => credit + e.karma <= e.granted /\ e.granted <= granted
    /\ \A i, j \in Nat : \A e \in AcksOf(f[i], o), g \in AcksOf(f[j], o) :
         i < j /\ e.karma # End /\ g.karma # End => e.granted + g.karma <= g.granted
    /\ \A n \in credit + 1 .. granted : \E i \in Nat : \E e \in AcksOf(f[i], o) : Brings(e, n)

\* The end is announced once, and nothing follows it.
Done(c) == c.life # "unborn" /\ ~Open(c) /\ c.rkarma = 0
Gone(c) == c.life \in {"burned", "freed"}
Heard(r) == r.is_rdead \/ Gone(r)
Ends(f, o, c, r) ==
    /\ Done(c) <=> Heard(r) \/ \E i \in Nat : EndIn(f[i], o)
    /\ Heard(r) => \A i \in Nat : ~Holds(f[i], o)
    /\ \A i, j \in Nat : i < j /\ EndIn(f[i], o) => ~Holds(f[j], o)

Received(r) == Len(r.given) + Len(r.out)
Credit(r) == r.wkarma + r.taken
Half(f, o, c, r) ==
    /\ Units(f, o, c.taken, Received(r))
    /\ Grants(f, o, c.granted, Credit(r))
    /\ Ends(f, o, c, r)

\* d is the demux's end of the mux's client m, None before it has one.
Pair(m, d) ==
    /\ client["mux"][m].life # "unborn"
    /\ IF d = None THEN \A x \in Obj : client["demux"][x].mate # m
       ELSE client["demux"][d].mate = m
Rec(s, o) == IF o = None THEN Unborn ELSE client[s][o]
Connections ==
    \A m \in Obj, d \in {None} \cup Obj : Pair(m, d) =>
        /\ Half(Stream("mux"), m, Rec("mux", m), Rec("demux", d))
        /\ Half(Stream("demux"), d, Rec("demux", d), Rec("mux", m))

\* The demux's clients are the mux's, once each.
Mating ==
    /\ \A d \in Obj :
         LET c == client["demux"][d]
         IN /\ c.life = "unborn" <=> c.mate = None
            /\ c.mate # None =>
                 /\ client["mux"][c.mate].life # "unborn"
                 /\ client["mux"][c.mate].id = c.id
    /\ OpenedOnce

\* What was received came from the mate, in order.
Contents ==
    \A s \in Side, o \in Obj :
        LET c == client[s][o]
        IN /\ \A i \in 1 .. Len(c.given) : c.given[i][2] = i /\ Mates(s, o, c.given[i][1])
           /\ \A i \in 1 .. Len(c.out) :
                c.out[i][2] = Len(c.given) + i /\ Mates(s, o, c.out[i][1])

\* An id is used again by the mux only behind the end of its last client.
Succession ==
    \A m, n \in Obj :
        /\ Gone(client["mux"][m]) /\ client["mux"][n].life = "live"
        /\ client["mux"][m].id = client["mux"][n].id
        => \A i, j \in Nat :
             Holds(Stream("mux")[i], m) /\ Holds(Stream("mux")[j], n) => i < j

Cross ==
    /\ \A s \in Side : Packets(s)
    /\ Connections /\ Mating /\ Contents /\ Succession

IInv == Types /\ (\A s \in Side : Local(s)) /\ Cross
=============================================================================
