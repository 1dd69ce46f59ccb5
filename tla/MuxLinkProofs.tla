---------------------------- MODULE MuxLinkProofs ----------------------------
(***************************************************************************)
(* The invariant IInv of MuxLinkInv is inductive, and what follows from it *)
(* for the link of tcpmux.  One lemma per group of actions shows that IInv *)
(* is preserved (...Inv); the lemmas before each say what the action does  *)
(* to the parts of IInv it disturbs, and NextInv puts them together.  The  *)
(* acknowledgement queue and the ownership of connections have invariants  *)
(* of their own, AckInv and OwnerInv, that hold under all faults.  At the  *)
(* end the link is shown to implement the byte pipe of BytePipe.           *)
(***************************************************************************)
EXTENDS MuxLinkInv, TLAPS, WellFoundedInduction

\* In the initial state every context is as make_context leaves it, so IInv holds.
LEMMA InitInv == Init => IInv
<1> SUFFICES ASSUME Init PROVE IInv
  OBVIOUS
<1> USE ConstantsOK
<1>1. TypeOK
  BY DEF Init, InitialKarma, TypeOK, Conn, End, Ctx, Side, Mux, None, NoPos, NoPacket
<1>2. FdShape
  BY DEF Init, FdShape, Conn, End, Ctx, Mux, None
<1>3. ConnShape
  BY DEF Init, ConnShape, Fresh, Conn, End, Ctx, Side, Mux, None, NoPos
<1>4. Dormant
  BY DEF Init, InitialKarma, Dormant, Untouched, Conn, End, Ctx, Mux, None
<1>5. Packets /\ Sessions
  BY DEF Init, Packets, NoPacket, Sessions, End, Ctx, Mux
<1> QED BY <1>1, <1>2, <1>3, <1>4, <1>5 DEF IInv

\* The facts about a stream depend only on its two ends.
LEMMA StreamFrame ==
  ASSUME NEW e \in End, NEW p \in End, Stream(e, p),
         written'[e] = written[e], written'[p] = written[p],
         delivered'[e] = delivered[e], delivered'[p] = delivered[p],
         stream_karma'[e] = stream_karma[e], rstream_karma'[p] = rstream_karma[p],
         wout'[p].ack = wout[p].ack, stream_pos'[e] = stream_pos[e],
         rstream_pos'[p] = rstream_pos[p], stream'[e] = stream[e]
  PROVE  Stream(e, p)'
BY DEF Stream, Unread, Back, Total, Granted, Monotone

\* Moving bytes read into an acknowledgement does not change their sum.
LEMMA StreamCounts ==
  ASSUME TypeOK, NEW e \in End, NEW p \in End, Stream(e, p),
         UNCHANGED <<written, delivered, stream_karma, stream_pos, rstream_pos, stream>>,
         rstream_karma'[p] \in Int, wout'[p].ack \in Int,
         rstream_karma'[p] + wout'[p].ack = rstream_karma[p] + wout[p].ack
  PROVE  Stream(e, p)'
<1>1. /\ stream_karma[e] \in Int /\ rstream_karma[p] \in Int /\ wout[p].ack \in Int
      /\ Unread(e, p) \in Int
  BY DEF TypeOK, Unread
<1>2. /\ Unread(e, p)' = Unread(e, p)
      /\ (Total(written[p]) - Granted(written[p], Len(delivered[e])))'
           = Total(written[p]) - Granted(written[p], Len(delivered[e]))
  BY DEF Unread, Total, Granted
<1>3. ASSUME NEW k \in Int, NEW u \in Int, NEW r \in Int, NEW a \in Int,
             NEW r2 \in Int, NEW a2 \in Int, r2 + a2 = r + a
      PROVE  k + u + r2 + a2 = k + u + r + a
  BY <1>3
<1>4. stream_karma[e] + Unread(e, p) + rstream_karma'[p] + wout'[p].ack
        = stream_karma[e] + Unread(e, p) + rstream_karma[p] + wout[p].ack
  BY <1>1, <1>3
<1>5. stream_karma'[e] + Unread(e, p)' + rstream_karma'[p] + wout'[p].ack
        + (Total(written[p]) - Granted(written[p], Len(delivered[e])))' = GlobalKarma - 1
  BY <1>2, <1>4 DEF Stream
<1> QED BY <1>2, <1>5 DEF Stream, Back, Monotone, Granted

\* That bytes on a connection continue what was read depends on the
\* connection and the two histories only.
LEMMA ContinuesFrame ==
  ASSUME NEW c \in Conn, NEW e \in End, NEW p \in End, Continues(c, e, p),
         net'[c][SideOf(p)] = net[c][SideOf(p)],
         written'[e] = written[e], delivered'[p] = delivered[p]
  PROVE  Continues(c, e, p)'
BY DEF Continues

\* So does the account of what is missing, with the debt.
LEMMA AgreesFrame ==
  ASSUME NEW c \in Conn, NEW e \in End, NEW p \in End, Agrees(c, e, p),
         net'[c][SideOf(p)] = net[c][SideOf(p)], stream_debt' = stream_debt,
         written'[e] = written[e], delivered'[p] = delivered[p]
  PROVE  Agrees(c, e, p)'
BY DEF Agrees

\* Steps that leave connections, streams and the credit in packets alone.
LEMMA SessionsFrame ==
  ASSUME IInv,
         UNCHANGED <<nconn, up, hdr, net, owner, mainfd, handshake>>,
         UNCHANGED <<stream_karma, stream_pos, stream, written, stream_debt>>,
         UNCHANGED <<rstream_pos, rstream_karma, delivered>>,
         \A x \in End : wout'[x].ack = wout[x].ack
  PROVE  Sessions'
<1> SUFFICES ASSUME NEW d \in Ctx, handshake[d] = "up"
             PROVE  /\ \A x \in Ctx : handshake[x] = "up" => x = d
                    /\ Stream(Mux, d)' /\ Stream(d, Mux)'
                    /\ \A c \in Conn : OnWire(c, d)'
  BY DEF Sessions
<1>1. d \in End /\ Mux \in End
  BY DEF End
<1>2. /\ \A x \in Ctx : handshake[x] = "up" => x = d
      /\ Stream(Mux, d) /\ Stream(d, Mux)
  BY DEF IInv, Sessions
<1>3. Stream(Mux, d)' /\ Stream(d, Mux)'
  BY <1>1, <1>2, StreamFrame
<1>4. ASSUME NEW c \in Conn PROVE OnWire(c, d)'
  <2>1. OnWire(c, d)
    BY DEF IInv, Sessions
  <2>2. /\ Continues(c, Mux, d) => Continues(c, Mux, d)'
        /\ Continues(c, d, Mux) => Continues(c, d, Mux)'
    BY <1>1, ContinuesFrame
  <2>3. /\ Agrees(c, Mux, d) => Agrees(c, Mux, d)'
        /\ Agrees(c, d, Mux) => Agrees(c, d, Mux)'
    BY <1>1, AgreesFrame
  <2> QED BY <2>1, <2>2, <2>3 DEF OnWire
<1> QED BY <1>2, <1>3, <1>4

\* Steps that leave connections, positions and streams alone.
LEMMA QuietFrame ==
  ASSUME IInv,
         UNCHANGED <<nconn, up, key, hdr, net, owner, mainfd, handshake>>,
         UNCHANGED <<stream_karma, stream_pos, stream, written, stream_debt>>,
         UNCHANGED <<rstream_pos, rstream_karma, delivered, wout>>
  PROVE  FdShape' /\ ConnShape' /\ Dormant' /\ Packets' /\ Sessions'
<1>1. FdShape'
  BY DEF IInv, FdShape
<1>2. ConnShape'
  BY DEF IInv, ConnShape, Fresh
<1>3. Dormant' /\ Packets'
  BY DEF IInv, Dormant, Untouched, Packets
<1>4. Sessions'
  BY SessionsFrame
<1> QED BY <1>1, <1>2, <1>3, <1>4

\* Marking queues and leaving the writing loop of mainw disturb nothing.
LEMMA QuietInv ==
  ASSUME IInv, NEW e \in End,
         Stall(e) \/ Resume(e) \/ ClientHasData(e) \/ ClientHasKarma(e)
  PROVE  IInv'
<1> USE DEF connVars, fdVars, sendVars, recvVars, queueVars, packetVars
<1>1. TypeOK'
  BY DEF IInv, Stall, Resume, ClientHasData, ClientHasKarma, TypeOK
<1>2. /\ UNCHANGED <<nconn, up, key, hdr, net, owner, mainfd, handshake>>
      /\ UNCHANGED <<stream_karma, stream_pos, stream, written, stream_debt>>
      /\ UNCHANGED <<rstream_pos, rstream_karma, delivered, wout>>
  BY DEF Stall, Resume, ClientHasData, ClientHasKarma
<1> QED BY <1>1, <1>2, QuietFrame DEF IInv

\* An end that is linked takes part in a session.
LEMMA LinkedSession ==
  ASSUME IInv, NEW e \in End, Linked(e)
  PROVE  \E d \in Ctx : /\ handshake[d] = "up"
                        /\ e = Mux => owner[mainfd[Mux]] = d
                        /\ e # Mux => e = d /\ owner[mainfd[d]] = d
<1>1. mainfd[e] \in Conn /\ handshake[e] = "up"
  BY DEF IInv, TypeOK, Linked
<1>2. CASE e = Mux
  <2>1. owner[mainfd[Mux]] # None /\ owner[mainfd[Mux]] \in End
    BY <1>1, <1>2 DEF IInv, TypeOK, Dormant
  <2>2. owner[mainfd[Mux]] \in Ctx
    BY <2>1 DEF End, Mux, None
  <2> QED BY <1>1, <1>2, <2>1, <2>2 DEF IInv, ConnShape
<1>3. CASE e # Mux
  <2>1. e \in Ctx
    BY <1>3 DEF End
  <2> QED BY <1>1, <1>3, <2>1 DEF IInv, FdShape, Linked
<1> QED BY <1>2, <1>3

\* Choosing the data packet to write (mainw) creates no credit.
LEMMA GrabDataInv ==
  ASSUME IInv, NEW e \in End, NEW n \in PacketSizes \cup {0}, GrabData(e, n)
  PROVE  IInv'
<1> USE DEF connVars, fdVars, sendVars, recvVars, queueVars, packetVars
<1>1. /\ UNCHANGED <<nconn, up, key, hdr, net, owner, mainfd, handshake>>
      /\ UNCHANGED <<stream_karma, stream_pos, stream, written, stream_debt>>
      /\ UNCHANGED <<rstream_pos, rstream_karma, delivered>>
      /\ CanGrab(e)
      /\ wout' = [wout EXCEPT ![e] = [left |-> n, ack |-> 0]]
  BY DEF GrabData
<1>2. TypeOK'
  <2>1. write_data' \in [End -> BOOLEAN]
    BY DEF IInv, GrabData, TypeOK
  <2>2. wout' \in [End -> [left : Nat, ack : 0 .. GlobalKarma - 1]]
    <3>1. [left |-> n, ack |-> 0] \in [left : Nat, ack : 0 .. GlobalKarma - 1]
      BY ConstantsOK
    <3> QED BY <1>1, <3>1 DEF IInv, TypeOK
  <2> QED BY <1>1, <2>1, <2>2 DEF IInv, GrabData, TypeOK
<1>3. FdShape' /\ ConnShape'
  BY <1>1 DEF IInv, FdShape, ConnShape, Fresh
<1>4. Packets' /\ \A x \in End : wout'[x].ack = wout[x].ack
  BY <1>1 DEF IInv, Packets, CanGrab, TypeOK
<1>5. Dormant'
  <2>1. \A d \in Ctx : handshake[d] # "up" => d # e
    BY <1>1 DEF CanGrab, Linked
  <2>2. (\A d \in Ctx : handshake[d] # "up") => e # Mux
    BY <1>1, LinkedSession DEF CanGrab
  <2> QED BY <1>1, <2>1, <2>2 DEF IInv, Dormant, Untouched, TypeOK, End, Mux, Ctx
<1>6. Sessions'
  BY <1>1, <1>4, SessionsFrame
<1> QED BY <1>2, <1>3, <1>4, <1>5, <1>6 DEF IInv

\* The mux gives its connection up and dials the next one.
LEMMA RedialInv ==
  ASSUME IInv, Redial, stalled' \in [End -> BOOLEAN],
         UNCHANGED <<sendVars, stream_debt, recvVars, queueVars, wout>>
  PROVE  IInv'
<1> USE DEF connVars, fdVars, sendVars, recvVars, queueVars, packetVars
<1>1. TypeOK'
  <2>1. up' \in [Conn -> BOOLEAN]
    BY DEF IInv, Redial, TypeOK
  <2>2. /\ nconn' \in Conn
        /\ mainfd' \in [End -> {None} \cup Conn]
    BY ConstantsOK DEF IInv, Redial, TypeOK, Conn, End, Mux
  <2>3. handshake' \in [End -> {"none", "connecting", "key", "pos", "up", "burned"}]
    BY DEF IInv, Redial, TypeOK
  <2> QED BY <2>1, <2>2, <2>3 DEF IInv, Redial, TypeOK
<1>2. FdShape'
  BY DEF IInv, Redial, TypeOK, FdShape, Conn, End, Mux, Ctx, None
<1>3. ConnShape'
  BY DEF IInv, Redial, TypeOK, ConnShape, FdShape, Fresh, Conn, End, Mux, Ctx, None
<1>4. Dormant' /\ Packets'
  BY DEF IInv, Redial, TypeOK, Dormant, Packets, Untouched, Conn, End, Mux, Ctx, None
<1>5. Sessions'
  <2> SUFFICES ASSUME NEW d \in Ctx, handshake'[d] = "up"
               PROVE  /\ \A x \in Ctx : handshake'[x] = "up" => x = d
                      /\ Stream(Mux, d)' /\ Stream(d, Mux)'
                      /\ \A c \in Conn : OnWire(c, d)'
    BY DEF Sessions
  <2>1. handshake[d] = "up" /\ \A x \in Ctx : handshake'[x] = handshake[x] /\ mainfd'[x] = mainfd[x]
    BY DEF IInv, Redial, TypeOK, End, Mux, Ctx
  <2>2. Stream(Mux, d)' /\ Stream(d, Mux)'
    BY <2>1, StreamFrame DEF IInv, Sessions, End, Ctx, Mux
  <2>3. ASSUME NEW c \in Conn
        PROVE  OnWire(c, d)'
    <3>1. mainfd'[d] # nconn' /\ owner'[nconn'] # d
      <4>1. nconn + 1 \in Conn /\ nconn + 1 > nconn /\ nconn' = nconn + 1
        BY ConstantsOK DEF IInv, Redial, TypeOK, Conn
      <4>2. owner[nconn + 1] = None
        BY <4>1 DEF IInv, ConnShape, Fresh
      <4>3. d # None /\ owner' = owner
        BY DEF Ctx, None, Redial
      <4>4. mainfd[d] # None => owner[mainfd[d]] = d
        BY <2>1 DEF IInv, FdShape
      <4>5. mainfd[d] # nconn + 1
        BY <4>1, <4>2, <4>3, <4>4 DEF Conn, None
      <4> QED BY <2>1, <4>1, <4>2, <4>3, <4>5
    <3>2. ASSUME mainfd'[d] = c
          PROVE  Continues(c, Mux, d)'
      <4>1. Continues(c, Mux, d)
        BY <2>1, <3>2 DEF IInv, Sessions, OnWire
      <4>2. d \in End /\ Mux \in End
        BY DEF End
      <4>3. UNCHANGED <<net, written, delivered>>
        BY DEF Redial
      <4> QED BY <4>1, <4>2, <4>3, ContinuesFrame
    <3> QED BY <3>1, <3>2 DEF OnWire
  <2> QED BY <2>1, <2>2, <2>3 DEF IInv, Sessions
<1> QED BY <1>1, <1>2, <1>3, <1>4, <1>5 DEF IInv

\* Connections are lost at the demux or in the network.
Loss ==
  /\ UNCHANGED <<nconn, key, hdr, net, owner, handshake>>
  /\ UNCHANGED <<sendVars, stream_debt, recvVars, queueVars, wout>>
  /\ up' \in [Conn -> BOOLEAN]
  /\ \A c \in Conn : up'[c] => up[c]
  /\ mainfd' \in [End -> {None} \cup Conn]
  /\ mainfd'[Mux] = mainfd[Mux]
  /\ \A d \in Ctx : mainfd'[d] # mainfd[d] => mainfd'[d] = None /\ ~up'[mainfd[d]]
  /\ stalled' \in [End -> BOOLEAN]

\* Losing connections keeps IInv: it says nothing of a dead connection but
\* that it is dead, and disconnect_main keeps the stream.
LEMMA LossInv == ASSUME IInv, Loss PROVE IInv'
<1> USE DEF Loss, sendVars, recvVars, queueVars
<1>1. TypeOK'
  BY DEF IInv, TypeOK
<1>2. FdShape'
  BY DEF IInv, FdShape, Ctx, None
<1>3. ConnShape'
  BY DEF IInv, ConnShape, Fresh
<1>4. Dormant' /\ Packets'
  BY DEF IInv, Dormant, Packets, Untouched
<1>5. Sessions'
  <2> SUFFICES ASSUME NEW d \in Ctx, handshake[d] = "up"
               PROVE  /\ \A x \in Ctx : handshake[x] = "up" => x = d
                      /\ Stream(Mux, d)' /\ Stream(d, Mux)'
                      /\ \A c \in Conn : OnWire(c, d)'
    BY DEF Sessions
  <2>1. \A x \in Ctx : handshake[x] = "up" => x = d
    BY DEF IInv, Sessions
  <2>2. d \in End /\ Mux \in End
    BY DEF End
  <2>3. Stream(Mux, d)' /\ Stream(d, Mux)'
    BY <2>2, StreamFrame DEF IInv, Sessions
  <2>4. ASSUME NEW c \in Conn
        PROVE  OnWire(c, d)'
    <3>1. OnWire(c, d)
      BY DEF IInv, Sessions
    <3>2. mainfd'[d] = c => mainfd[d] = c
      BY DEF Conn, None
    <3>3. up'[c] /\ mainfd[d] = c => mainfd'[d] = c
      OBVIOUS
    <3>4. Continues(c, Mux, d) => Continues(c, Mux, d)'
      BY <2>2, ContinuesFrame
    <3>5. Continues(c, d, Mux) => Continues(c, d, Mux)'
      BY <2>2, ContinuesFrame
    <3> QED BY <3>1, <3>2, <3>3, <3>4, <3>5 DEF OnWire, Agrees
  <2> QED BY <2>1, <2>3, <2>4
<1> QED BY <1>1, <1>2, <1>3, <1>4, <1>5 DEF IInv

\* Every way of losing a connection is a Loss: idle timer, end of file,
\* failed write, network.
LEMMA DisconnectInv ==
  ASSUME IInv,
         \/ MuxDrops \/ DemuxDrops
         \/ \E d \in Ctx : DemuxReadsEnd(d)
         \/ \E c \in Conn : Break(c)
         \/ \E e \in End : WriteFails(e)
  PROVE  IInv'
<1> USE DEF packetVars, fdVars
<1>0. stalled \in [End -> BOOLEAN] /\ up \in [Conn -> BOOLEAN]
      /\ mainfd \in [End -> {None} \cup Conn]
  BY DEF IInv, TypeOK
<1>h. ASSUME NEW d \in Ctx, Hangup(d), mainfd[d] # None, stalled' \in [End -> BOOLEAN],
             UNCHANGED <<sendVars, stream_debt, recvVars, queueVars, wout>>
      PROVE  IInv'
  <2>1. d \in End /\ d # Mux /\ \A x \in Ctx : x \in End
    BY DEF End, Ctx, Mux
  <2>2. mainfd[d] \in Conn
    BY <1>0, <1>h, <2>1
  <2>3. up' \in [Conn -> BOOLEAN] /\ (\A c \in Conn : up'[c] => up[c]) /\ ~up'[mainfd[d]]
    BY <1>0, <1>h, <2>2 DEF Hangup
  <2>4. mainfd' \in [End -> {None} \cup Conn] /\ mainfd'[Mux] = mainfd[Mux]
        /\ \A x \in Ctx : x # d => mainfd'[x] = mainfd[x]
    BY <1>0, <1>h, <2>1 DEF Hangup
  <2>5. mainfd'[d] = None
    BY <1>0, <1>h, <2>1 DEF Hangup
  <2>6. UNCHANGED <<nconn, key, hdr, net, owner, handshake>>
    BY <1>h DEF Hangup
  <2>7. \A x \in Ctx : mainfd'[x] # mainfd[x] => mainfd'[x] = None /\ ~up'[mainfd[x]]
    BY <2>3, <2>4, <2>5
  <2> QED BY <1>h, <2>3, <2>4, <2>6, <2>7, LossInv DEF Loss
<1>1. CASE MuxDrops
  BY <1>0, <1>1, RedialInv DEF MuxDrops
<1>2. CASE DemuxDrops
  <2>1. UNCHANGED <<nconn, key, hdr, net, owner, handshake>>
        /\ UNCHANGED <<sendVars, stream_debt, recvVars, queueVars, wout, stalled>>
    BY <1>2 DEF DemuxDrops
  <2>2. up' \in [Conn -> BOOLEAN] /\ (\A c \in Conn : up'[c] => up[c])
    BY <1>0, <1>2 DEF DemuxDrops
  <2>3. /\ mainfd' \in [End -> {None} \cup Conn]
        /\ mainfd'[Mux] = mainfd[Mux]
        /\ \A d \in Ctx : mainfd'[d] = None
    BY <1>0, <1>2 DEF DemuxDrops, End, Ctx, Mux
  <2>4. \A d \in Ctx : mainfd[d] = None \/ ~up'[mainfd[d]]
    BY <1>0, <1>2 DEF DemuxDrops, End
  <2>5. \A x \in Ctx : mainfd'[x] # mainfd[x] => mainfd'[x] = None /\ ~up'[mainfd[x]]
    BY <2>3, <2>4
  <2> QED BY <1>0, <2>1, <2>2, <2>3, <2>5, LossInv DEF Loss
<1>3. CASE \E d \in Ctx : DemuxReadsEnd(d)
  BY <1>0, <1>3, <1>h DEF DemuxReadsEnd
<1>4. CASE \E c \in Conn : Break(c)
  <2>1. PICK c \in Conn : Break(c)
    BY <1>4
  <2>2. up' \in [Conn -> BOOLEAN] /\ (\A x \in Conn : up'[x] => up[x])
    BY <1>0, <2>1 DEF Break
  <2>3. UNCHANGED <<nconn, key, hdr, net, owner, handshake, mainfd, stalled>>
        /\ UNCHANGED <<sendVars, stream_debt, recvVars, queueVars, wout>>
    BY <2>1 DEF Break
  <2>4. \A x \in Ctx : mainfd'[x] # mainfd[x] => mainfd'[x] = None /\ ~up'[mainfd[x]]
    BY <2>3
  <2>5. mainfd' \in [End -> {None} \cup Conn] /\ mainfd'[Mux] = mainfd[Mux]
        /\ stalled' \in [End -> BOOLEAN]
    BY <1>0, <2>3
  <2> QED BY <2>2, <2>3, <2>4, <2>5, LossInv DEF Loss
<1>5. CASE \E e \in End : WriteFails(e)
  <2>1. PICK e \in End : WriteFails(e)
    BY <1>5
  <2>2. stalled' \in [End -> BOOLEAN]
        /\ UNCHANGED <<sendVars, stream_debt, recvVars, queueVars, wout>>
    BY <1>0, <2>1 DEF WriteFails
  <2>3. CASE e = Mux
    BY <2>1, <2>2, <2>3, RedialInv DEF WriteFails, DisconnectMain
  <2>4. CASE e # Mux
    <3>1. e \in Ctx /\ Hangup(e) /\ mainfd[e] # None
      BY <2>1, <2>4 DEF WriteFails, DisconnectMain, Linked, End
    <3> QED BY <2>2, <3>1, <1>h
  <2> QED BY <2>3, <2>4
<1> QED BY <1>1, <1>2, <1>3, <1>4, <1>5

\* An acknowledgement moves the count of bytes read into the packet.
LEMMA GrabControlInv ==
  ASSUME IInv, NEW e \in End, GrabControl(e)
  PROVE  IInv'
<1> USE DEF connVars, fdVars, sendVars, queueVars, packetVars
<1>1. /\ UNCHANGED <<nconn, up, key, hdr, net, owner, mainfd, handshake>>
      /\ UNCHANGED <<stream_karma, stream_pos, stream, written, stream_debt>>
      /\ UNCHANGED <<rstream_pos, delivered, write_data, stalled>>
      /\ CanGrab(e)
      /\ wout' = [wout EXCEPT ![e] = [left |-> AckSize, ack |-> rstream_karma[e]]]
      /\ rstream_karma' = [rstream_karma EXCEPT ![e] = 0]
  BY DEF GrabControl
<1>2. TypeOK'
  <2>1. write_ctl' \in [End -> BOOLEAN] /\ karma_head' \in [End -> BOOLEAN]
    <3>1. PICK more \in {FALSE, karma_head[e]} :
            /\ karma_head' = [karma_head EXCEPT ![e] = more]
            /\ write_ctl' = [write_ctl EXCEPT ![e] = more]
      BY DEF GrabControl
    <3>2. more \in BOOLEAN
      BY DEF IInv, TypeOK
    <3> QED BY <3>1, <3>2 DEF IInv, TypeOK
  <2>2. [left |-> AckSize, ack |-> rstream_karma[e]] \in [left : Nat, ack : 0 .. GlobalKarma - 1]
    BY ConstantsOK DEF IInv, TypeOK
  <2>3. wout' \in [End -> [left : Nat, ack : 0 .. GlobalKarma - 1]]
    BY <1>1, <2>2 DEF IInv, TypeOK
  <2>4. rstream_karma' \in [End -> 0 .. GlobalKarma - 1]
    BY <1>1, ConstantsOK DEF IInv, TypeOK
  <2> QED BY <1>1, <2>1, <2>3, <2>4 DEF IInv, TypeOK
<1>3. FdShape' /\ ConnShape'
  BY <1>1 DEF IInv, FdShape, ConnShape, Fresh
<1>4. Packets'
  BY <1>1, ConstantsOK DEF IInv, Packets, TypeOK
<1>5. Dormant'
  <2>1. \A d \in Ctx : handshake[d] # "up" => d # e
    BY <1>1 DEF CanGrab, Linked
  <2>2. (\A d \in Ctx : handshake[d] # "up") => e # Mux
    BY <1>1, LinkedSession DEF CanGrab
  <2> QED BY <1>1, <2>1, <2>2 DEF IInv, Dormant, Untouched, TypeOK, End, Mux, Ctx
<1>6. Sessions'
  <2>1. \A x \in End : rstream_karma'[x] + wout'[x].ack = rstream_karma[x] + wout[x].ack
    <3>1. wout[e].ack = 0 /\ rstream_karma[e] \in Int
      BY <1>1 DEF IInv, Packets, CanGrab, TypeOK
    <3>2. rstream_karma'[e] = 0 /\ wout'[e].ack = rstream_karma[e]
      BY <1>1 DEF IInv, TypeOK
    <3>3. \A x \in End : x # e => rstream_karma'[x] = rstream_karma[x] /\ wout'[x] = wout[x]
      BY <1>1 DEF IInv, TypeOK
    <3> QED BY <3>1, <3>2, <3>3
  <2>2. \A x \in End : rstream_karma'[x] \in Int /\ wout'[x].ack \in Int
    BY <1>2 DEF TypeOK
  <2>3. ASSUME NEW x \in End, NEW y \in End, Stream(x, y)
        PROVE  Stream(x, y)'
    BY <1>1, <2>1, <2>2, <2>3, StreamCounts DEF IInv
  <2>4. Mux \in End /\ \A d \in Ctx : d \in End
    BY DEF End
  <2>5. ASSUME NEW d \in Ctx, NEW c \in Conn, OnWire(c, d)
        PROVE  OnWire(c, d)'
    <3>1. Continues(c, Mux, d) => Continues(c, Mux, d)'
      BY <1>1, <2>4, ContinuesFrame
    <3>2. Continues(c, d, Mux) => Continues(c, d, Mux)'
      BY <1>1, <2>4, ContinuesFrame
    <3> QED BY <1>1, <2>5, <3>1, <3>2 DEF OnWire, Agrees
  <2> QED BY <1>1, <2>3, <2>4, <2>5 DEF IInv, Sessions
<1> QED BY <1>2, <1>3, <1>4, <1>5, <1>6 DEF IInv

\* The mux writes key and position when connect() completes; the position in
\* the header is the one it will compare the answer's bytes with.
LEMMA MuxConnectedInv == ASSUME IInv, MuxConnected PROVE IInv'
<1> USE DEF sendVars, recvVars, queueVars, packetVars
<1> DEFINE c == mainfd[Mux]
<1>1. c = nconn /\ c \in Conn /\ Fresh(c) /\ handshake[Mux] = "connecting"
  BY DEF IInv, FdShape, ConnShape, TypeOK, MuxConnected
<1>2. /\ up' = [up EXCEPT ![c] = TRUE]
      /\ key' = [key EXCEPT ![c] = TRUE]
      /\ hdr' = [hdr EXCEPT ![c]["demux"] = rstream_pos[Mux]]
      /\ handshake' = [handshake EXCEPT ![Mux] = "pos"]
      /\ UNCHANGED <<nconn, net, owner, mainfd, stream_debt>>
      /\ UNCHANGED <<stream_karma, stream_pos, stream, written, rstream_pos>>
      /\ UNCHANGED <<rstream_karma, delivered, wout>>
  BY DEF MuxConnected
<1>3. Mux \in End /\ Mux \notin Ctx /\ \A d \in Ctx : d \in End
  BY DEF End, Ctx, Mux
<1>4. rstream_pos[Mux] \in 0 .. GlobalKarma - 1 /\ rstream_pos[Mux] # NoPos
  BY <1>3 DEF IInv, TypeOK, NoPos
<1> HIDE DEF c
<1>5. \A x \in Conn : /\ hdr'[x]["mux"] = hdr[x]["mux"]
                     /\ x # c => hdr'[x]["demux"] = hdr[x]["demux"]
  BY <1>1, <1>2 DEF IInv, TypeOK, Side
<1>6. hdr'[c]["demux"] = rstream_pos[Mux]
  BY <1>1, <1>2 DEF IInv, TypeOK, Side
<1>7. \A d \in Ctx : handshake'[d] = handshake[d]
  BY <1>2, <1>3 DEF IInv, TypeOK
<1>8. handshake'[Mux] = "pos"
  BY <1>2, <1>3 DEF IInv, TypeOK
<1>9. \A d \in Ctx : handshake[d] = "up" => mainfd[d] # c /\ owner[c] # d
  BY <1>1 DEF IInv, FdShape, Fresh, Ctx, Conn, None
<1>10. TypeOK'
  <2>1. hdr' \in [Conn -> [Side -> {NoPos} \cup 0 .. GlobalKarma - 1]]
    BY <1>2, <1>4 DEF IInv, TypeOK, Side
  <2>2. up' \in [Conn -> BOOLEAN] /\ key' \in [Conn -> BOOLEAN]
    BY <1>2 DEF IInv, TypeOK
  <2>3. handshake' \in [End -> {"none", "connecting", "key", "pos", "up", "burned"}]
    BY <1>2 DEF IInv, TypeOK
  <2> QED BY ZenonT(40), <1>2, <2>1, <2>2, <2>3 DEF IInv, TypeOK, MuxConnected
<1>11. FdShape'
  <2>1. \A d \in Ctx : handshake[d] = "up" /\ mainfd[d] # None => key'[mainfd[d]] = key[mainfd[d]]
    BY <1>1, <1>2, <1>3, <1>9 DEF IInv, TypeOK
  <2>2. \A d \in Ctx : key[d] => key'[d]
    BY <1>1, <1>2 DEF IInv, TypeOK, Ctx, Conn
  <2>3. \A d \in Ctx : handshake[d] = "key" /\ mainfd[d] # None => key'[d] /\ mainfd[d] = d
    BY <2>2 DEF IInv, FdShape
  <2> QED BY ZenonT(40), <1>2, <1>7, <1>8, <2>1, <2>3 DEF IInv, FdShape
<1>12. ConnShape'
  <2>1. \A x \in Conn : x \in Ctx
    BY DEF Conn, Ctx
  <2>2. ASSUME NEW x \in Conn, owner[x] # None
        PROVE  handshake'[owner[x]] = "up"
    <3>1. handshake[owner[x]] = "up" /\ owner[x] \in Ctx
      BY <2>2 DEF IInv, ConnShape, TypeOK, End, Mux, None
    <3> QED BY <1>7, <3>1
  <2>3. \A x \in Conn : x # c => up'[x] = up[x] /\ key'[x] = key[x]
    BY <1>1, <1>2 DEF IInv, TypeOK
  <2>4. \A x \in Conn : x # c => ~up[x]
    BY <1>1 DEF IInv, ConnShape
  <2>5. up'[c] /\ key'[c] /\ owner'[c] = None /\ handshake'[c] = "none"
        /\ hdr'[c]["mux"] = NoPos /\ net'[c] = net[c] /\ Fresh(c) /\ rstream_pos' = rstream_pos
    BY SMTT(40), <1>1, <1>2, <1>5, <1>7, <2>1 DEF IInv, TypeOK, Fresh
  <2> SUFFICES ASSUME NEW x \in Conn
               PROVE  /\ up'[x] => x = nconn' /\ handshake'[Mux] # "connecting"
                      /\ x > nconn' \/ (x = nconn' /\ handshake'[Mux] = "connecting") => Fresh(x)'
                      /\ key'[x] =>
                           /\ owner'[x] = None /\ handshake'[x] \in {"none", "key"}
                           /\ hdr'[x]["mux"] = NoPos /\ hdr'[x]["demux"] # NoPos
                           /\ net'[x]["mux"] = <<>> /\ net'[x]["demux"] = <<>>
                           /\ x = nconn' => handshake'[Mux] = "pos" /\ hdr'[x]["demux"] = rstream_pos'[Mux]
                      /\ owner'[x] = None => hdr'[x]["mux"] = NoPos
                      /\ owner'[x] # None => handshake'[owner'[x]] = "up"
    BY DEF ConnShape
  <2>6. CASE x = c
    <3>1. nconn' = nconn /\ nconn \in Int
      BY <1>2 DEF IInv, TypeOK, Conn
    <3> QED BY <1>1, <1>2, <1>4, <1>6, <1>8, <2>2, <2>5, <2>6, <3>1 DEF Fresh
  <2>7. CASE x # c
    <3>1. x > nconn => Fresh(x)'
      BY <1>2, <1>5, <1>7, <2>1, <2>3, <2>7 DEF IInv, ConnShape, Fresh
    <3> QED BY <1>1, <1>2, <1>5, <1>7, <1>8, <2>1, <2>2, <2>3, <2>4, <2>7, <3>1
            DEF IInv, ConnShape
  <2> QED BY <2>6, <2>7
<1>13. Dormant' /\ Packets'
  BY <1>2, <1>7, <1>8 DEF IInv, Dormant, Untouched, Packets
<1>14. Sessions'
  <2>1. \A x, y \in End : Stream(x, y) => Stream(x, y)'
    BY <1>2, StreamFrame
  <2>2. \A d \in Ctx, x \in Conn : Continues(x, Mux, d) => Continues(x, Mux, d)'
    BY <1>2, <1>3, ContinuesFrame
  <2>3. \A d \in Ctx, x \in Conn : Continues(x, d, Mux) => Continues(x, d, Mux)'
    BY <1>2, <1>3, ContinuesFrame
  <2>4. ASSUME NEW d \in Ctx, NEW x \in Conn, handshake[d] = "up", OnWire(x, d)
        PROVE  OnWire(x, d)'
    BY <1>1, <1>2, <1>8, <1>9, <2>2, <2>3, <2>4 DEF OnWire
  <2> QED BY <1>3, <1>7, <2>1, <2>4 DEF IInv, Sessions
<1> QED BY <1>10, <1>11, <1>12, <1>13, <1>14 DEF IInv

\* Accepting makes a fresh context that shares nothing with a session yet.
LEMMA AcceptInv == ASSUME IInv, NEW c \in Conn, Accept(c) PROVE IInv'
<1> USE DEF connVars, sendVars, recvVars, queueVars, packetVars
<1>1. /\ key[c] /\ handshake[c] = "none"
      /\ mainfd' = [mainfd EXCEPT ![c] = c]
      /\ handshake' = [handshake EXCEPT ![c] = "key"]
      /\ UNCHANGED <<nconn, up, key, hdr, net, owner, stream_debt>>
      /\ UNCHANGED <<stream_karma, stream_pos, stream, written, rstream_pos>>
      /\ UNCHANGED <<rstream_karma, delivered, wout>>
  BY DEF Accept
<1>2. Mux \in End /\ Mux \notin Ctx /\ c \in Ctx /\ \A d \in Ctx : d \in End
  BY DEF End, Ctx, Mux, Conn
<1>3. /\ \A x \in End : x # c => mainfd'[x] = mainfd[x] /\ handshake'[x] = handshake[x]
      /\ mainfd'[c] = c /\ handshake'[c] = "key"
  BY <1>1, <1>2 DEF IInv, TypeOK
<1>4. TypeOK'
  <2>1. mainfd' \in [End -> {None} \cup Conn]
    BY <1>1 DEF IInv, TypeOK
  <2>2. handshake' \in [End -> {"none", "connecting", "key", "pos", "up", "burned"}]
    BY <1>1 DEF IInv, TypeOK
  <2> QED BY <2>1, <2>2 DEF IInv, TypeOK, Accept
<1>5. FdShape'
  BY <1>1, <1>2, <1>3 DEF IInv, FdShape
<1>6. ConnShape'
  <2>1. handshake'[Mux] = handshake[Mux]
    BY <1>2, <1>3
  <2>2. c \in End
    BY <1>2
  <2>3. ASSUME NEW x \in Conn, owner[x] # None
        PROVE  handshake'[owner[x]] = "up"
    <3>1. owner[x] \in End /\ handshake[owner[x]] = "up"
      BY <2>3 DEF IInv, TypeOK, ConnShape
    <3> QED BY <1>1, <1>3, <3>1
  <2>4. \A x \in Conn : x \in End
    BY DEF Conn, End, Ctx
  <2> QED BY <1>1, <1>3, <2>1, <2>3, <2>4 DEF IInv, ConnShape, Fresh
<1>7. Dormant' /\ Packets'
  BY <1>1, <1>2, <1>3 DEF IInv, Dormant, Untouched, Packets
<1>8. Sessions'
  <2>1. \A x, y \in End : Stream(x, y) => Stream(x, y)'
    BY <1>1, StreamFrame
  <2>2. \A d \in Ctx, x \in Conn : Continues(x, Mux, d) => Continues(x, Mux, d)'
    BY <1>1, <1>2, ContinuesFrame
  <2>3. \A d \in Ctx, x \in Conn : Continues(x, d, Mux) => Continues(x, d, Mux)'
    BY <1>1, <1>2, ContinuesFrame
  <2>4. \A d \in Ctx : handshake'[d] = "up" => handshake[d] = "up" /\ d # c
    BY <1>1, <1>2, <1>3
  <2>5. ASSUME NEW d \in Ctx, NEW x \in Conn, d # c, OnWire(x, d)
        PROVE  OnWire(x, d)'
    BY <1>1, <1>2, <1>3, <2>2, <2>3, <2>5 DEF OnWire, Agrees
  <2> QED BY <1>2, <2>1, <2>4, <2>5 DEF IInv, Sessions
<1> QED BY <1>4, <1>5, <1>6, <1>7, <1>8 DEF IInv

\* The credit not yet back bounds what may be unread.
LEMMA UnreadBound ==
  ASSUME TypeOK, NEW e \in End, NEW p \in End, Stream(e, p), Stream(p, e)
  PROVE  /\ Unread(e, p) \in Nat
         /\ Unread(e, p) + stream_karma[e] + rstream_karma[p] <= GlobalKarma - 1
<1> DEFINE g == Total(written[p]) - Granted(written[p], Len(delivered[e]))
<1>1. /\ stream_karma[e] \in Nat /\ rstream_karma[p] \in Nat /\ wout[p].ack \in Nat
      /\ written[e] \in Seq(Nat) /\ written[p] \in Seq(Nat)
      /\ delivered[e] \in Seq(Nat) /\ delivered[p] \in Seq(Nat)
  BY DEF TypeOK
<1>2. Unread(e, p) \in Nat
  BY <1>1 DEF Stream, Unread
<1>3. Len(delivered[e]) \in 0 .. Len(written[p]) /\ Len(written[p]) \in 0 .. Len(written[p])
  BY <1>1 DEF Stream
<1>4. Granted(written[p], Len(delivered[e])) <= Total(written[p])
  BY <1>3 DEF Stream, Monotone, Total
<1>5. Total(written[p]) \in Nat /\ Granted(written[p], Len(delivered[e])) \in Nat
  BY SMTT(40), <1>1, <1>3 DEF Total, Granted
<1>6. stream_karma[e] + Unread(e, p) + rstream_karma[p] + wout[p].ack + g = GlobalKarma - 1
  BY DEF Stream
<1>7. g \in Nat
  BY <1>4, <1>5
<1> HIDE DEF g
<1>8. ASSUME NEW k \in Nat, NEW u \in Nat, NEW r \in Nat, NEW a \in Nat, NEW x \in Nat,
             k + u + r + a + x = GlobalKarma - 1
      PROVE  u + k + r <= GlobalKarma - 1
  BY <1>8, ConstantsOK
<1> QED BY <1>1, <1>2, <1>6, <1>7, <1>8

\* The debt computed from the peer's position is exactly what it has not read.
LEMMA DebtExact ==
  ASSUME TypeOK, NEW e \in End, NEW p \in End, Stream(e, p), Stream(p, e)
  PROVE  Debt(e, rstream_pos[p]) = Unread(e, p)
<1>1. Unread(e, p) \in 0 .. GlobalKarma - 1
  <2>1. stream_karma[e] \in Nat /\ rstream_karma[p] \in Nat
    BY DEF TypeOK
  <2>2. Unread(e, p) \in Nat
        /\ Unread(e, p) + stream_karma[e] + rstream_karma[p] <= GlobalKarma - 1
    BY UnreadBound
  <2> QED BY <2>1, <2>2, ConstantsOK
<1>2. stream_pos[e] \in Int /\ rstream_pos[p] \in Int
  BY DEF TypeOK
<1>3. stream_pos[e] - rstream_pos[p] \in {Unread(e, p), Unread(e, p) - GlobalKarma}
  BY DEF Stream
<1> QED BY <1>1, <1>2, <1>3, ConstantsOK DEF Debt

\* A debt fits in the circular buffer.
LEMMA DebtType ==
  ASSUME TypeOK, NEW e \in End, NEW q \in 0 .. GlobalKarma - 1
  PROVE  Debt(e, q) \in 0 .. GlobalKarma - 1
<1>1. stream_pos[e] \in 0 .. GlobalKarma - 1
  BY DEF TypeOK
<1> QED BY <1>1, ConstantsOK DEF Debt

\* The mux computes its debt from the demux's position, and no bytes of an
\* older connection are left to be read after it.
LEMMA ReadPositionInv == ASSUME IInv, NEW e \in End, ReadPosition(e) PROVE IInv'
<1> USE DEF sendVars, recvVars, queueVars, packetVars
<1>0. Mux \in End /\ Mux \notin Ctx /\ \A d \in Ctx : d \in End
  BY DEF End, Ctx, Mux
<1>1. e = Mux
  BY DEF ReadPosition, IInv, FdShape, End
<1>2. PICK c \in Conn : c = mainfd[Mux] /\ c = nconn
  BY <1>0, <1>1 DEF ReadPosition, IInv, FdShape, TypeOK
<1> DEFINE q == hdr[c]["mux"]
<1>3. /\ handshake[Mux] = "pos" /\ q # NoPos
      /\ stream_debt' = [stream_debt EXCEPT ![Mux] = Debt(Mux, q)]
      /\ hdr' = [hdr EXCEPT ![c]["mux"] = NoPos]
      /\ handshake' = [handshake EXCEPT ![Mux] = "up"]
      /\ UNCHANGED <<nconn, up, key, net, owner, mainfd>>
      /\ UNCHANGED <<stream_karma, stream_pos, stream, written, rstream_pos>>
      /\ UNCHANGED <<rstream_karma, delivered, wout>>
  BY <1>1, <1>2 DEF ReadPosition, SideOf
<1>4. PICK o \in Ctx : owner[c] = o /\ handshake[o] = "up"
  <2>1. owner[c] # None /\ owner[c] \in End
    BY ZenonT(40), <1>2, <1>3 DEF IInv, ConnShape, TypeOK
  <2> QED BY <1>2, <2>1 DEF IInv, ConnShape, End, Mux, None
<1>t. /\ hdr \in [Conn -> [Side -> {NoPos} \cup 0 .. GlobalKarma - 1]]
      /\ "mux" \in Side /\ "demux" \in Side
      /\ nconn \in Int /\ owner \in [Conn -> End]
  BY SMTT(40) DEF IInv, TypeOK, Side, Conn
<1>5. q \in 0 .. GlobalKarma - 1
  BY <1>2, <1>3, <1>t
<1> HIDE DEF q
<1>6. /\ handshake'[Mux] = "up"
      /\ \A x \in Ctx : handshake'[x] = handshake[x]
  BY <1>0, <1>3 DEF IInv, TypeOK
<1>7. /\ hdr'[c]["mux"] = NoPos
      /\ \A x \in Conn : hdr'[x]["demux"] = hdr[x]["demux"]
      /\ \A x \in Conn : x # c => hdr'[x] = hdr[x]
  BY <1>2, <1>3, <1>t
<1>8. /\ stream_debt'[Mux] = Debt(Mux, q)
      /\ \A x \in Ctx : stream_debt'[x] = stream_debt[x]
  BY <1>0, <1>3 DEF IInv, TypeOK
<1>9. TypeOK'
  <2>1. hdr' \in [Conn -> [Side -> {NoPos} \cup 0 .. GlobalKarma - 1]]
    BY <1>3 DEF IInv, TypeOK, Side
  <2>2. stream_debt' \in [End -> 0 .. GlobalKarma - 1]
    BY <1>0, <1>3, <1>5, DebtType DEF IInv, TypeOK
  <2>3. handshake' \in [End -> {"none", "connecting", "key", "pos", "up", "burned"}]
    BY <1>3 DEF IInv, TypeOK
  <2> QED BY ZenonT(40), <1>3, <2>1, <2>2, <2>3 DEF IInv, TypeOK, ReadPosition
<1>10. FdShape'
  BY <1>3, <1>6 DEF IInv, FdShape
<1>11. ConnShape'
  <2>1. \A x \in Conn : x \in Ctx
    BY DEF Conn, Ctx
  <2>2. ~key[c]
    BY <1>2, <1>4, <1>0 DEF IInv, ConnShape, Ctx, None
  <2>3. ASSUME NEW x \in Conn, owner[x] # None
        PROVE  handshake'[owner[x]] = "up"
    <3>1. owner[x] \in Ctx
      BY <1>t, <2>3 DEF End, Mux, None
    <3> QED BY <1>6, <2>3, <3>1 DEF IInv, ConnShape
  <2>4. owner[c] # None
    BY <1>4 DEF Ctx, None
  <2> QED BY <1>2, <1>3, <1>6, <1>7, <1>t, <2>1, <2>2, <2>3, <2>4
          DEF IInv, ConnShape, Fresh
<1>12. Dormant' /\ Packets'
  <2>1. owner[mainfd[Mux]] = o /\ o # None
    BY <1>2, <1>4 DEF Ctx, None
  <2> QED BY <1>3, <1>4, <1>6, <2>1 DEF IInv, Dormant, Untouched, Packets
<1>13. Sessions'
  <2>1. \A x, y \in End : Stream(x, y) => Stream(x, y)'
    BY <1>3, StreamFrame
  <2>2. \A d \in Ctx, x \in Conn : Continues(x, Mux, d) => Continues(x, Mux, d)'
    BY <1>0, <1>3, ContinuesFrame
  <2>3. \A d \in Ctx, x \in Conn : Continues(x, d, Mux) => Continues(x, d, Mux)'
    BY <1>0, <1>3, ContinuesFrame
  <2>4. \A d \in Ctx : handshake[d] = "up" => Stream(Mux, d) /\ Stream(d, Mux)
    BY DEF IInv, Sessions
  <2>5. ASSUME NEW d \in Ctx, handshake[d] = "up", mainfd[d] = c
        PROVE  Agrees(c, Mux, d)'
    <3>1. q = rstream_pos[d] /\ net[c]["demux"] = <<>>
      BY <1>2, <1>3, <2>5 DEF IInv, Sessions, OnWire, q
    <3>2. stream_debt'[Mux] = Unread(Mux, d)
      BY <1>0, <1>8, <2>4, <2>5, <3>1, DebtExact DEF IInv
    <3>3. SideOf(d) = "demux"
      BY <1>0 DEF SideOf
    <3>4. delivered[d] \in Seq(Nat) /\ written[Mux] \in Seq(Nat)
      BY <1>0 DEF IInv, TypeOK
    <3>5. Len(delivered[d]) + 0 + stream_debt'[Mux] = Len(written[Mux])
      BY <3>2, <3>4 DEF Unread
    <3>6. net'[c][SideOf(d)] = <<>>
      BY <1>3, <3>1, <3>3
    <3> QED BY <1>3, <3>5, <3>6 DEF Agrees
  <2>6. ASSUME NEW d \in Ctx, NEW x \in Conn, handshake[d] = "up", OnWire(x, d)
        PROVE  OnWire(x, d)'
    <3>1. Agrees(x, d, Mux) => Agrees(x, d, Mux)'
      BY <1>3, <1>8 DEF Agrees
    <3>2. nconn' = nconn /\ mainfd'[d] = mainfd[d] /\ up' = up /\ owner' = owner
      BY <1>3
    <3> QED BY <1>2, <1>6, <2>2, <2>3, <2>5, <2>6, <3>1, <3>2 DEF OnWire
  <2> QED BY <1>0, <1>6, <2>1, <2>6 DEF IInv, Sessions
<1> QED BY <1>9, <1>10, <1>11, <1>12, <1>13 DEF IInv

\* A session found by its key is the only one; a context made for the
\* connection is used when there is none.
LEMMA OldestMatch == ASSUME IInv, Matches # {} PROVE Oldest(Matches) \in Matches
<1>1. \A x, y \in Matches : x = y
  BY DEF IInv, Sessions, Matches
<1>2. \E x \in Matches : \A y \in Matches : x <= y
  BY <1>1 DEF Matches, Ctx
<1> QED BY <1>2 DEF Oldest

\* The session a new connection is handed to is the only session there is.
LEMMA OnlyMatch ==
  ASSUME IInv, NEW c \in Ctx, NEW d \in Ctx, d = ContextFor(c),
         NEW x \in Ctx, handshake[x] = "up"
  PROVE  x = d
<1>1. x \in Matches
  BY DEF Matches
<1>2. d \in Matches
  BY <1>1, OldestMatch DEF ContextFor
<1> QED BY <1>1, <1>2 DEF IInv, Sessions, Matches

\* The connection that preliminary context c holds is switched into context d,
\* an existing one or c itself.
LEMMA DemuxReadsKeyInv ==
  ASSUME IInv, NEW c \in Conn, DemuxReadsKey(c, TRUE)
  PROVE  IInv'
<1> USE DEF sendVars, recvVars, queueVars, packetVars
<1>0. c \in Ctx /\ Mux \in End /\ Mux \notin Ctx /\ c # None /\ \A x \in Ctx : x \in End
  BY DEF End, Ctx, Mux, Conn, None
<1>t. /\ hdr \in [Conn -> [Side -> {NoPos} \cup 0 .. GlobalKarma - 1]]
      /\ "mux" \in Side /\ "demux" \in Side
      /\ nconn \in Conn /\ owner \in [Conn -> End]
      /\ mainfd \in [End -> {None} \cup Conn]
      /\ up \in [Conn -> BOOLEAN] /\ key \in [Conn -> BOOLEAN]
      /\ handshake \in [End -> {"none", "connecting", "key", "pos", "up", "burned"}]
      /\ stream_debt \in [End -> 0 .. GlobalKarma - 1]
      /\ rstream_pos \in [End -> 0 .. GlobalKarma - 1]
  BY DEF IInv, TypeOK, Side
<1>1. PICK d \in Ctx : d = ContextFor(c) /\ (d = c \/ handshake[d] = "up")
  BY <1>0, OldestMatch DEF ContextFor, Matches
<1>2. /\ handshake[c] = "key" /\ mainfd[c] = c /\ key[c]
      /\ up' = [x \in Conn |-> up[x] /\ (x # c => x # mainfd[d])]
      /\ key' = [key EXCEPT ![c] = FALSE]
      /\ hdr' = [hdr EXCEPT ![c] = [mux |-> rstream_pos[d], demux |-> NoPos]]
      /\ owner' = [owner EXCEPT ![c] = d]
      /\ mainfd' = [mainfd EXCEPT ![c] = None, ![d] = c]
      /\ handshake' = [handshake EXCEPT ![c] = "burned", ![d] = "up"]
      /\ stream_debt' = [stream_debt EXCEPT ![d] = Debt(d, hdr[c]["demux"])]
      /\ UNCHANGED <<nconn, net, stream_karma, stream_pos, stream, written>>
      /\ UNCHANGED <<rstream_pos, rstream_karma, delivered, wout>>
      /\ UNCHANGED <<write_ctl, write_data, karma_head, stalled>>
  BY <1>1 DEF DemuxReadsKey, HandedOver
<1>u. /\ UNCHANGED <<nconn, net, stream_karma, stream_pos, stream, written>>
      /\ UNCHANGED <<rstream_pos, rstream_karma, delivered, wout>>
  BY <1>2
<1>3. /\ owner[c] = None /\ hdr[c]["demux"] \in 0 .. GlobalKarma - 1
      /\ net[c]["mux"] = <<>> /\ net[c]["demux"] = <<>>
      /\ c = nconn => handshake[Mux] = "pos" /\ hdr[c]["demux"] = rstream_pos[Mux]
  BY <1>2, <1>t DEF IInv, ConnShape
<1>4. /\ \A x \in End : x # c /\ x # d => handshake'[x] = handshake[x] /\ mainfd'[x] = mainfd[x]
      /\ handshake'[d] = "up" /\ mainfd'[d] = c
      /\ d # c => handshake'[c] = "burned" /\ mainfd'[c] = None
  BY <1>0, <1>2, <1>t
<1>5. \A x \in Ctx : handshake[x] = "up" => x = d
  BY <1>0, <1>1, OnlyMatch
<1>6. /\ ~key'[c] /\ owner'[c] = d
      /\ hdr'[c]["mux"] = rstream_pos[d] /\ hdr'[c]["demux"] = NoPos
      /\ \A x \in Conn : x # c => key'[x] = key[x] /\ owner'[x] = owner[x] /\ hdr'[x] = hdr[x]
  BY <1>2, <1>t
<1>7. \A x \in Conn : owner[x] # None => owner[x] = d /\ handshake[d] = "up"
  <2> TAKE x \in Conn
  <2>1. owner[x] # None => owner[x] \in Ctx
    BY <1>t DEF End, Mux, None
  <2> QED BY <1>5, <2>1 DEF IInv, ConnShape
<1>8. TypeOK'
  <2>1. [mux |-> rstream_pos[d], demux |-> NoPos] \in [Side -> {NoPos} \cup 0 .. GlobalKarma - 1]
    BY <1>0, <1>t DEF Side
  <2>2. hdr' \in [Conn -> [Side -> {NoPos} \cup 0 .. GlobalKarma - 1]]
    BY <1>2, <1>t, <2>1
  <2>3. stream_debt' \in [End -> 0 .. GlobalKarma - 1]
    <3>1. Debt(d, hdr[c]["demux"]) \in 0 .. GlobalKarma - 1
      BY <1>0, <1>3, DebtType DEF IInv
    <3> QED BY <1>2, <1>t, <3>1
  <2>4. up' \in [Conn -> BOOLEAN] /\ key' \in [Conn -> BOOLEAN]
    BY <1>2, <1>t
  <2>5. owner' \in [Conn -> End]
    BY <1>0, <1>2, <1>t
  <2>6. mainfd' \in [End -> {None} \cup Conn]
    BY <1>2, <1>t
  <2>7. handshake' \in [End -> {"none", "connecting", "key", "pos", "up", "burned"}]
    BY <1>2, <1>t
  <2> QED BY <1>2, <2>2, <2>3, <2>4, <2>5, <2>6, <2>7 DEF IInv, TypeOK
<1>9. FdShape'
  <2>1. mainfd'[Mux] = nconn' /\ handshake'[Mux] = handshake[Mux]
    BY <1>0, <1>1, <1>2, <1>4 DEF IInv, FdShape
  <2>2. ASSUME NEW x \in Ctx, x # c, x # d
        PROVE  /\ handshake'[x] \in {"none", "key", "burned"}
               /\ handshake'[x] \in {"none", "burned"} => mainfd'[x] = None
               /\ handshake'[x] = "key" => mainfd'[x] \in {None, x}
               /\ handshake'[x] = "key" /\ mainfd'[x] # None => key'[x]
    <3>1. x \in Conn /\ key'[x] = key[x]
      BY <1>6, <2>2 DEF Ctx, Conn
    <3>2. handshake'[x] = handshake[x] /\ mainfd'[x] = mainfd[x] /\ handshake[x] # "up"
      BY <1>0, <1>4, <1>5, <2>2
    <3> QED BY <3>1, <3>2 DEF IInv, FdShape
  <2> QED BY <1>1, <1>4, <1>6, <2>1, <2>2 DEF IInv, FdShape
<1>10. ConnShape'
  <2>1. \A x \in Conn : up'[x] => up[x]
    BY <1>2
  <2>2. handshake'[Mux] = handshake[Mux]
    BY <1>0, <1>1, <1>4
  <2>3. \A x \in Conn : owner'[x] # None => handshake'[owner'[x]] = "up"
    BY <1>4, <1>6, <1>7
  <2>4. ASSUME NEW x \in Conn, x # c, x # d \/ handshake[x] = "none"
        PROVE  handshake'[x] = handshake[x]
    <3>1. x \in Ctx
      BY DEF Conn, Ctx
    <3>2. x # d
      BY <1>1, <1>2, <2>4
    <3> QED BY <1>0, <1>4, <2>4, <3>1, <3>2
  <2>5. rstream_pos[d] # NoPos /\ d # None
    BY <1>0, <1>t DEF NoPos, Ctx, None
  <2>6. handshake[d] \in {"up", "key"}
    BY <1>1, <1>2
  <2>7. ASSUME NEW x \in Conn, Fresh(x)
        PROVE  Fresh(x)'
    <3>1. x # c
      BY <1>2, <2>7 DEF Fresh
    <3> QED BY <1>2, <1>6, <2>4, <2>7, <3>1 DEF Fresh
  <2>8. ASSUME NEW x \in Conn, key'[x]
        PROVE  /\ owner'[x] = None /\ handshake'[x] \in {"none", "key"}
               /\ hdr'[x]["mux"] = NoPos /\ hdr'[x]["demux"] # NoPos
               /\ net'[x]["mux"] = <<>> /\ net'[x]["demux"] = <<>>
               /\ x = nconn' => handshake'[Mux] = "pos" /\ hdr'[x]["demux"] = rstream_pos'[Mux]
    <3>1. x # c /\ key[x] /\ owner'[x] = owner[x] /\ hdr'[x] = hdr[x]
      BY <1>6, <2>8
    <3>2. /\ owner[x] = None /\ handshake[x] \in {"none", "key"}
          /\ hdr[x]["mux"] = NoPos /\ hdr[x]["demux"] # NoPos
          /\ net[x]["mux"] = <<>> /\ net[x]["demux"] = <<>>
          /\ x = nconn => handshake[Mux] = "pos" /\ hdr[x]["demux"] = rstream_pos[Mux]
      BY <3>1 DEF IInv, ConnShape
    <3>3. x # d
      BY <1>1, <3>1, <3>2
    <3>4. handshake'[x] = handshake[x]
      BY <2>4, <3>1, <3>3
    <3> QED BY <1>u, <2>2, <3>1, <3>2, <3>4
  <2>9. \A x \in Conn : owner'[x] = None => hdr'[x]["mux"] = NoPos
    BY <1>6, <2>5 DEF IInv, ConnShape
  <2>10. \A x \in Conn : up'[x] => x = nconn' /\ handshake'[Mux] # "connecting"
    BY <1>2, <2>1, <2>2 DEF IInv, ConnShape
  <2>11. \A x \in Conn :
            x > nconn' \/ (x = nconn' /\ handshake'[Mux] = "connecting") => Fresh(x)'
    BY <1>2, <2>2, <2>7 DEF IInv, ConnShape
  <2> QED BY <2>3, <2>8, <2>9, <2>10, <2>11 DEF ConnShape
<1>11. Dormant' /\ Packets'
  <2>1. \A x \in Ctx : handshake'[x] # "up" => Untouched(x)
    BY <1>0, <1>2, <1>4 DEF IInv, Dormant
  <2>2. \A x \in Ctx : Untouched(x) => Untouched(x)'
    BY <1>2 DEF Untouched
  <2>3. handshake'[Mux] = "up" => owner'[mainfd'[Mux]] # None
    <3>1. mainfd'[Mux] = nconn /\ handshake'[Mux] = handshake[Mux] /\ d # None
      BY <1>0, <1>1, <1>4 DEF IInv, FdShape, Ctx, None
    <3>2. handshake[Mux] = "up" => owner[nconn] # None
      BY DEF IInv, Dormant, FdShape
    <3> QED BY <1>6, <1>t, <3>1, <3>2
  <2> QED BY <1>2, <1>4, <2>1, <2>2, <2>3 DEF IInv, Dormant, Packets
<1>12. Sessions'
  <2>1. Stream(Mux, d) /\ Stream(d, Mux)
    <3>1. CASE handshake[d] = "up"
      BY <3>1 DEF IInv, Sessions
    <3>2. CASE handshake[d] # "up"
      <4>1. Untouched(Mux) /\ Untouched(d)
        BY <1>1, <1>5, <3>2 DEF IInv, Dormant
      <4> QED BY <4>1, ConstantsOK DEF Untouched, Stream, Unread, Monotone, Total, Granted, NoPacket
    <3> QED BY <3>1, <3>2
  <2>2. Stream(Mux, d)' /\ Stream(d, Mux)'
    BY <1>0, <1>2, <2>1, StreamFrame
  <2>3. \A x \in Ctx : handshake'[x] = "up" => x = d
    BY <1>0, <1>4, <1>5
  <2>4. SideOf(d) = "demux" /\ SideOf(Mux) = "mux"
    BY <1>0 DEF SideOf
  <2>5. /\ delivered[d] \in Seq(Nat) /\ delivered[Mux] \in Seq(Nat)
        /\ written[d] \in Seq(Nat) /\ written[Mux] \in Seq(Nat)
    BY <1>0 DEF IInv, TypeOK
  <2>6. Continues(c, Mux, d)' /\ Continues(c, d, Mux)'
    <3>1. net'[c][SideOf(d)] = <<>> /\ net'[c][SideOf(Mux)] = <<>>
      BY <1>u, <1>3, <2>4
    <3>2. Len(delivered[d]) + 0 <= Len(written[Mux]) /\ Len(delivered[Mux]) + 0 <= Len(written[d])
      BY <2>1, <2>5 DEF Stream
    <3> QED BY <1>u, <3>1, <3>2 DEF Continues, Follows
  <2>7. c = nconn => Agrees(c, d, Mux)'
    <3>1. c = nconn => stream_debt'[d] = Unread(d, Mux)
      <4>1. stream_debt'[d] = Debt(d, hdr[c]["demux"])
        BY <1>0, <1>2, <1>t
      <4>2. Debt(d, rstream_pos[Mux]) = Unread(d, Mux)
        BY <1>0, <2>1, DebtExact DEF IInv
      <4> QED BY <1>3, <4>1, <4>2
    <3>2. c = nconn => Len(delivered[Mux]) + 0 + stream_debt'[d] = Len(written[d])
      <4>1. Len(delivered[Mux]) \in Nat /\ Len(written[d]) \in Nat
        BY <2>5
      <4>2. \A a, b \in Nat : a + 0 + (b - a) = b
        OBVIOUS
      <4>3. c = nconn => stream_debt'[d] = Len(written[d]) - Len(delivered[Mux])
        BY <3>1 DEF Unread
      <4> QED BY <4>1, <4>2, <4>3
    <3>3. net'[c][SideOf(Mux)] = <<>>
      BY <1>u, <1>3, <2>4
    <3> QED BY <1>u, <3>2, <3>3 DEF Agrees
  <2>8. OnWire(c, d)'
    <3>1. c = nconn => handshake'[Mux] = "pos"
      BY <1>0, <1>1, <1>3, <1>4
    <3> QED BY <1>2, <1>3, <1>4, <1>6, <2>6, <2>7, <3>1 DEF OnWire
  <2>9. ASSUME NEW x \in Conn, x # c
        PROVE  OnWire(x, d)'
    <3>1. mainfd'[d] # x
      BY <1>4, <2>9
    <3>2. owner'[x] = d /\ x = nconn => Continues(x, d, Mux)'
      <4>1. owner'[x] = d => owner[x] = d /\ handshake[d] = "up"
        BY <1>0, <1>6, <1>7, <2>9 DEF Ctx, None
      <4>2. Continues(x, d, Mux) => Continues(x, d, Mux)'
        BY <1>0, <1>2, ContinuesFrame
      <4> QED BY <4>1, <4>2 DEF IInv, Sessions, OnWire
    <3>3. ~(owner'[x] = d /\ x = nconn /\ up'[x])
      <4> SUFFICES ASSUME owner'[x] = d, x = nconn, up'[x] PROVE FALSE
        OBVIOUS
      <4>1. owner[x] = d /\ handshake[d] = "up"
        BY <1>6, <1>7, <2>9 DEF Ctx, None
      <4>2. up[x] /\ x # mainfd[d]
        BY <1>2, <2>9
      <4> QED BY <4>1, <4>2 DEF IInv, Sessions, OnWire
    <3> QED BY <1>2, <3>1, <3>2, <3>3 DEF OnWire
  <2> QED BY <2>2, <2>3, <2>8, <2>9 DEF Sessions
<1> QED BY <1>8, <1>9, <1>10, <1>11, <1>12 DEF IInv

-----------------------------------------------------------------------------
\* The types of one end's streams and of what a connection carries.
LEMMA EndTypes ==
  ASSUME TypeOK, NEW e \in End
  PROVE  /\ written[e] \in Seq(Nat) /\ Len(written[e]) \in Nat
         /\ delivered[e] \in Seq(Nat) /\ Len(delivered[e]) \in Nat
         /\ stream_debt[e] \in Nat
         /\ \A c \in Conn : net[c][SideOf(e)] \in Seq(Nat) /\ Len(net[c][SideOf(e)]) \in Nat
<1>1. written[e] \in Seq(Nat) /\ delivered[e] \in Seq(Nat) /\ stream_debt[e] \in Nat
  BY DEF TypeOK
<1>2. \A c \in Conn : net[c][SideOf(e)] \in Seq(Nat)
  BY ZenonT(40) DEF TypeOK, SideOf, Side
<1> QED BY <1>1, <1>2

\* The types of one end's counts and positions.
LEMMA EndCounts ==
  ASSUME TypeOK, NEW e \in End
  PROVE  /\ stream_karma[e] \in 0 .. GlobalKarma - 1 /\ rstream_karma[e] \in 0 .. GlobalKarma - 1
         /\ stream_pos[e] \in 0 .. GlobalKarma - 1 /\ rstream_pos[e] \in 0 .. GlobalKarma - 1
         /\ stream[e] \in [0 .. GlobalKarma - 1 -> Nat]
         /\ wout[e].ack \in 0 .. GlobalKarma - 1 /\ wout[e].left \in Nat
<1>1. stream_karma[e] \in 0 .. GlobalKarma - 1 /\ rstream_karma[e] \in 0 .. GlobalKarma - 1
  BY DEF TypeOK
<1>2. stream_pos[e] \in 0 .. GlobalKarma - 1 /\ rstream_pos[e] \in 0 .. GlobalKarma - 1
  BY DEF TypeOK
<1>3. stream[e] \in [0 .. GlobalKarma - 1 -> Nat]
  BY DEF TypeOK
<1>4. wout[e].ack \in 0 .. GlobalKarma - 1 /\ wout[e].left \in Nat
  BY DEF TypeOK
<1> QED BY <1>1, <1>2, <1>3, <1>4

\* Bytes on a connection: the stream grows and none is sent, or one is sent.
LEMMA ContinuesGrow ==
  ASSUME TypeOK, NEW c \in Conn, NEW e \in End, NEW p \in End, Continues(c, e, p),
         net'[c][SideOf(p)] = net[c][SideOf(p)], delivered'[p] = delivered[p],
         Len(written'[e]) \in Nat, Len(written'[e]) >= Len(written[e])
  PROVE  Continues(c, e, p)'
<1>1. \A a, b, x, y \in Nat : a + b <= x /\ y >= x => a + b <= y
  OBVIOUS
<1>2. Len(delivered[p]) + Len(net[c][SideOf(p)]) <= Len(written'[e])
  BY <1>1, EndTypes DEF Continues
<1> QED BY <1>2 DEF Continues

\* A byte with the next number extends a run of consecutive numbers.
LEMMA FollowsAppend ==
  ASSUME NEW q \in Seq(Nat), NEW a \in Nat, NEW b, Follows(q, a), b = a + Len(q) + 1
  PROVE  Follows(Append(q, b), a)
<1>1. Len(q) \in Nat /\ Len(Append(q, b)) = Len(q) + 1
  OBVIOUS
<1>2. ASSUME NEW i \in 1 .. Len(q) + 1
      PROVE  Append(q, b)[i] = a + i
  <2>1. CASE i = Len(q) + 1
    BY <1>1, <2>1
  <2>2. CASE i # Len(q) + 1
    <3>1. i \in 1 .. Len(q)
      BY <1>1, <2>2
    <3>2. Append(q, b)[i] = q[i]
      BY <3>1
    <3> QED BY <3>1, <3>2 DEF Follows
  <2> QED BY <2>1, <2>2
<1> QED BY <1>1, <1>2 DEF Follows

\* The arithmetic of sending the next byte: sent plus owed is written.
LEMMA SentNext ==
  ASSUME NEW a \in Nat, NEW n \in Nat, NEW k \in Nat, NEW w \in Nat,
         NEW k2 \in Nat, NEW w2 \in Nat, a + n + k = w, w2 - k2 = w - k + 1
  PROVE  a + n + k2 + 1 = w2
OBVIOUS

\* A byte sent in its turn keeps the connection in step with both histories.
LEMMA OnWireAppend ==
  ASSUME TypeOK, NEW c \in Conn, NEW e \in End, NEW p \in End,
         Continues(c, e, p), Agrees(c, e, p), NEW b \in Nat,
         net'[c][SideOf(p)] = Append(net[c][SideOf(p)], b), delivered'[p] = delivered[p],
         Len(written'[e]) \in Nat, stream_debt'[e] \in Nat,
         b = Len(written'[e]) - stream_debt'[e],
         Len(written'[e]) - stream_debt'[e] = Len(written[e]) - stream_debt[e] + 1
  PROVE  Continues(c, e, p)' /\ Agrees(c, e, p)'
<1>1. PICK q \in Seq(Nat) : q = net[c][SideOf(p)]
  BY EndTypes
<1>2. PICK a \in Nat : a = Len(delivered[p])
  BY EndTypes
<1>3. PICK w \in Nat : w = Len(written'[e])
  OBVIOUS
<1>4. PICK k \in Nat : k = stream_debt'[e]
  OBVIOUS
<1>5. a + Len(q) + stream_debt[e] = Len(written[e])
  BY <1>1, <1>2 DEF Agrees
<1>6. stream_debt[e] \in Nat /\ Len(written[e]) \in Nat /\ Len(q) \in Nat
  BY EndTypes
<1>7. a + Len(q) + k + 1 = w
  <2>1. w - k = Len(written[e]) - stream_debt[e] + 1
    BY <1>3, <1>4
  <2>2. PICK n \in Nat : n = Len(q)
    BY <1>6
  <2>3. PICK v \in Nat : v = Len(written[e])
    BY <1>6
  <2>4. PICK j \in Nat : j = stream_debt[e]
    BY <1>6
  <2>5. a + n + j = v /\ w - k = v - j + 1
    BY <1>5, <2>1, <2>2, <2>3, <2>4
  <2>6. a + n + k + 1 = w
    BY <2>5, SentNext
  <2> QED BY <2>2, <2>6
<1>8. Follows(q, a)
  BY <1>1, <1>2 DEF Continues
<1>9. b = a + Len(q) + 1
  BY <1>3, <1>4, <1>6, <1>7
<1>10. Follows(Append(q, b), a) /\ Len(Append(q, b)) = Len(q) + 1
  BY <1>8, <1>9, FollowsAppend
<1>12. /\ a + Len(Append(q, b)) + k = w
       /\ a + Len(Append(q, b)) <= w
  BY SMTT(40), <1>6, <1>7, <1>10
<1>11. net'[c][SideOf(p)] = Append(q, b) /\ Len(delivered'[p]) = a
  BY <1>1, <1>2
<1> QED BY <1>3, <1>4, <1>10, <1>11, <1>12 DEF Continues, Agrees

\* One byte b leaves e on its connection, and belongs to the session with d.
LEMMA TransmitInv ==
  ASSUME IInv, NEW e \in End, Linked(e), NEW d \in Ctx, handshake[d] = "up",
         e = Mux => owner[mainfd[Mux]] = d, e # Mux => e = d /\ owner[mainfd[d]] = d,
         NEW b \in Nat, Transmit(e, b),
         UNCHANGED <<nconn, up, key, hdr, owner, mainfd, handshake, delivered>>,
         UNCHANGED rstream_pos,
         \A x \in End : x # e => written'[x] = written[x] /\ stream_debt'[x] = stream_debt[x],
         Len(written'[e]) \in Nat, stream_debt'[e] \in Nat,
         Len(written'[e]) >= Len(written[e]),
         Len(written'[e]) - stream_debt'[e] = Len(written[e]) - stream_debt[e] + 1,
         up[mainfd[e]] => b = Len(written'[e]) - stream_debt'[e]
  PROVE  /\ net' \in [Conn -> [Side -> Seq(Nat)]]
         /\ FdShape' /\ ConnShape'
         /\ \A x \in Conn : OnWire(x, d)'
<1>0. /\ Mux \in End /\ d \in End /\ d # Mux /\ d # None
      /\ SideOf(d) = "demux" /\ SideOf(Mux) = "mux"
      /\ Across(d) = "mux" /\ Across(Mux) = "demux"
      /\ "mux" \in Side /\ "demux" \in Side /\ "mux" # "demux"
  BY DEF End, Ctx, Mux, None, SideOf, Across, Side
<1>1. PICK c \in Conn : c = mainfd[e] /\ owner[c] = d
  BY <1>0 DEF IInv, TypeOK, Linked
<1>2. net \in [Conn -> [Side -> Seq(Nat)]]
  BY DEF IInv, TypeOK
<1>3. net' = IF up[c] THEN [net EXCEPT ![c][Across(e)] = Append(@, b)] ELSE net
  BY <1>1 DEF Transmit
<1>4. Across(e) \in Side
  BY DEF Across, Side
<1>5. net' \in [Conn -> [Side -> Seq(Nat)]]
  BY <1>2, <1>3, <1>4
<1>6. \A x \in Conn : x # c => net'[x] = net[x]
  BY <1>2, <1>3
<1>7. \A s \in Side : s # Across(e) => net'[c][s] = net[c][s]
  BY <1>2, <1>3
<1>8. ~up[c] => net'[c] = net[c]
  BY <1>3
<1>9. up[c] => net'[c][Across(e)] = Append(net[c][Across(e)], b)
  BY <1>2, <1>3, <1>4
<1>10. ConnShape' /\ FdShape'
  <2>1. \A x \in Conn : owner[x] = None => net'[x] = net[x]
    BY <1>0, <1>1, <1>6
  <2>2. \A x \in Conn : Fresh(x) => Fresh(x)'
    BY <2>1 DEF Fresh
  <2> QED BY <2>1, <2>2 DEF IInv, ConnShape, FdShape
<1>11. \A x \in Conn : OnWire(x, d)
  BY DEF IInv, Sessions
<1>12. \A x \in End : Len(written'[x]) \in Nat /\ Len(written'[x]) >= Len(written[x])
  <2> TAKE x \in End
  <2>1. Len(written[x]) \in Nat
    BY EndTypes DEF IInv
  <2>2. CASE x = e
    BY <2>2
  <2>3. CASE x # e
    BY <2>1, <2>3
  <2> QED BY <2>2, <2>3
<1>14. TypeOK
  BY DEF IInv
<1>15. CASE e = Mux
  <2>1. c = nconn /\ handshake[Mux] = "up"
    BY <1>1, <1>15 DEF IInv, FdShape, Linked
  <2>0. /\ Len(written'[Mux]) \in Nat /\ stream_debt'[Mux] \in Nat
        /\ Len(written'[Mux]) - stream_debt'[Mux] = Len(written[Mux]) - stream_debt[Mux] + 1
        /\ up[c] => b = Len(written'[Mux]) - stream_debt'[Mux]
    BY <1>1, <1>15
  <2>3. mainfd[d] = c /\ up[c] => Continues(c, Mux, d)' /\ Agrees(c, Mux, d)'
    <3> SUFFICES ASSUME mainfd[d] = c, up[c] PROVE Continues(c, Mux, d)' /\ Agrees(c, Mux, d)'
      OBVIOUS
    <3>1. Continues(c, Mux, d) /\ Agrees(c, Mux, d)
      BY <1>11, <2>1 DEF OnWire
    <3>2. net'[c]["demux"] = Append(net[c]["demux"], b)
      BY <1>0, <1>9, <1>15
    <3> QED BY SMTT(40), <1>0, <1>14, <2>0, <3>1, <3>2, OnWireAppend
  <2>2. mainfd[d] = c => Continues(c, Mux, d)'
    <3>1. CASE up[c]
      BY <2>3, <3>1
    <3>2. CASE ~up[c]
      <4>1. Continues(c, Mux, d) => Continues(c, Mux, d)'
        BY <1>0, <1>8, <1>12, <1>14, <3>2, ContinuesGrow
      <4> QED BY <1>11, <4>1 DEF OnWire
    <3> QED BY <3>1, <3>2
  <2>4. net'[c]["mux"] = net[c]["mux"]
    BY <1>0, <1>7, <1>15
  <2>5. Continues(c, d, Mux) => Continues(c, d, Mux)'
    BY <1>0, <1>15, <2>4, ContinuesFrame
  <2>6. Agrees(c, d, Mux) => Agrees(c, d, Mux)'
    BY <1>0, <1>15, <2>4 DEF Agrees
  <2>7. OnWire(c, d)'
    BY <1>11, <2>1, <2>2, <2>3, <2>5, <2>6 DEF OnWire
  <2>8. ASSUME NEW x \in Conn, x # c
        PROVE  OnWire(x, d)'
    <3>1. Continues(x, Mux, d) => Continues(x, Mux, d)'
      BY <1>0, <1>6, <1>12, <1>14, <2>8, ContinuesGrow
    <3> QED BY <1>11, <2>1, <2>8, <3>1 DEF OnWire
  <2> QED BY <1>5, <1>10, <2>7, <2>8
<1>16. CASE e # Mux
  <2>1. e = d /\ c = mainfd[d]
    BY <1>1, <1>16
  <2>2. c = nconn => Continues(c, d, Mux)'
    <3>1. CASE up[c] /\ c = nconn
      <4>1. Continues(c, d, Mux) /\ Agrees(c, d, Mux)
        BY <1>1, <1>11, <3>1 DEF OnWire
      <4>2. net'[c]["mux"] = Append(net[c]["mux"], b)
        BY <1>0, <1>9, <2>1, <3>1
      <4> QED BY SMTT(40), <1>0, <1>14, <2>1, <3>1, <4>1, <4>2, OnWireAppend
    <3>2. CASE ~up[c]
      <4>1. Continues(c, d, Mux) => Continues(c, d, Mux)'
        BY <1>0, <1>8, <1>12, <1>14, <3>2, ContinuesGrow
      <4> QED BY <1>1, <1>11, <4>1 DEF OnWire
    <3> QED BY <3>1, <3>2
  <2>3. c = nconn /\ up[c] => Agrees(c, d, Mux)'
    <3> SUFFICES ASSUME c = nconn, up[c] PROVE Agrees(c, d, Mux)'
      OBVIOUS
    <3>1. Continues(c, d, Mux) /\ Agrees(c, d, Mux)
      BY <1>1, <1>11 DEF OnWire
    <3>2. net'[c]["mux"] = Append(net[c]["mux"], b)
      BY <1>0, <1>9, <2>1
    <3> QED BY SMTT(40), <1>0, <1>14, <2>1, <3>1, <3>2, OnWireAppend
  <2>4. net'[c]["demux"] = net[c]["demux"]
    BY <1>0, <1>7, <2>1
  <2>5. Continues(c, Mux, d) => Continues(c, Mux, d)'
    BY <1>0, <1>16, <2>4, ContinuesFrame
  <2>6. Agrees(c, Mux, d) => Agrees(c, Mux, d)'
    BY <1>0, <1>16, <2>4 DEF Agrees
  <2>7. OnWire(c, d)'
    BY <1>1, <1>11, <2>1, <2>2, <2>3, <2>4, <2>5, <2>6 DEF OnWire
  <2>8. ASSUME NEW x \in Conn, x # c
        PROVE  OnWire(x, d)'
    <3>1. Continues(x, d, Mux) => Continues(x, d, Mux)'
      BY <1>0, <1>6, <1>12, <1>14, <2>8, ContinuesGrow
    <3>2. mainfd[d] # x
      BY <2>1, <2>8
    <3> QED BY <1>11, <2>8, <3>1, <3>2 DEF OnWire
  <2> QED BY <1>5, <1>10, <2>7, <2>8
<1> QED BY <1>15, <1>16

\* On a connection that is up, nothing is missing in the direction of a linked end.
LEMMA UpAgrees ==
  ASSUME IInv, NEW e \in End, Linked(e), NEW d \in Ctx, handshake[d] = "up",
         e = Mux => owner[mainfd[Mux]] = d, e # Mux => e = d /\ owner[mainfd[d]] = d,
         NEW c \in Conn, c = mainfd[e], up[c]
  PROVE  Agrees(c, e, IF e = Mux THEN d ELSE Mux)
<1>1. c = nconn
  BY DEF IInv, ConnShape
<1>2. OnWire(c, d)
  BY DEF IInv, Sessions
<1> QED BY <1>1, <1>2 DEF OnWire, Linked

\* The byte found in the buffer is the one that the debt stands for.
LEMMA OwedByte ==
  ASSUME IInv, NEW e \in End, NEW p \in End, Stream(e, p), stream_debt[e] > 0,
         NEW c \in Conn, Agrees(c, e, p)
  PROVE  stream[e][Back(stream_pos[e], stream_debt[e])] = Len(written[e]) + 1 - stream_debt[e]
<1>1. PICK w \in Nat : w = Len(written[e])
  BY EndTypes DEF IInv
<1>2. PICK a \in Nat : a = Len(delivered[p])
  BY EndTypes DEF IInv
<1>3. PICK n \in Nat : n = Len(net[c][SideOf(p)])
  BY EndTypes DEF IInv
<1>4. PICK k \in Nat : k = stream_debt[e] /\ k > 0
  BY EndTypes DEF IInv
<1>5. a + n + k = w
  BY <1>1, <1>2, <1>3, <1>4 DEF Agrees
<1>6. w + 1 - k \in a + 1 .. w /\ w + 1 - (w + 1 - k) = k
  BY <1>4, <1>5
<1>7. \A m \in a + 1 .. w : stream[e][Back(stream_pos[e], w + 1 - m)] = m
  BY <1>1, <1>2 DEF Stream
<1>8. stream[e][Back(stream_pos[e], w + 1 - (w + 1 - k))] = w + 1 - k
  BY <1>6, <1>7
<1> QED BY <1>1, <1>4, <1>6, <1>8

\* Resending a byte out of the circular buffer sends the byte that is owed.
LEMMA ResendByteInv == ASSUME IInv, NEW e \in End, ResendByte(e) PROVE IInv'
<1> USE DEF fdVars, sendVars, recvVars, queueVars, packetVars
<1>1. /\ Linked(e) /\ stream_debt[e] > 0
      /\ Transmit(e, stream[e][Back(stream_pos[e], stream_debt[e])])
      /\ stream_debt' = [stream_debt EXCEPT ![e] = @ - 1]
      /\ UNCHANGED <<nconn, up, key, hdr, owner, mainfd, handshake>>
      /\ UNCHANGED <<stream_karma, stream_pos, stream, written>>
      /\ UNCHANGED <<rstream_pos, rstream_karma, delivered, wout>>
      /\ UNCHANGED <<write_ctl, write_data, karma_head, stalled>>
  BY DEF ResendByte
<1>2. PICK d \in Ctx : /\ handshake[d] = "up"
                       /\ e = Mux => owner[mainfd[Mux]] = d
                       /\ e # Mux => e = d /\ owner[mainfd[d]] = d
  BY <1>1, LinkedSession
<1>3. /\ Mux \in End /\ d \in End
      /\ Stream(Mux, d) /\ Stream(d, Mux) /\ \A x \in Ctx : handshake[x] = "up" => x = d
  BY <1>2 DEF IInv, Sessions, End
<1>4. PICK b \in Nat : b = stream[e][Back(stream_pos[e], stream_debt[e])]
  <2>1. stream_pos[e] \in 0 .. GlobalKarma - 1 /\ stream_debt[e] \in 0 .. GlobalKarma - 1
    BY DEF IInv, TypeOK
  <2>2. Back(stream_pos[e], stream_debt[e]) \in 0 .. GlobalKarma - 1
    BY <2>1, ConstantsOK DEF Back
  <2> QED BY <2>2 DEF IInv, TypeOK
<1>5. PICK c \in Conn : c = mainfd[e]
  BY <1>1 DEF IInv, TypeOK, Linked
<1>6. up[c] => b = Len(written[e]) + 1 - stream_debt[e]
  <2>1. CASE e = Mux
    BY <1>1, <1>2, <1>3, <1>4, <1>5, <2>1, UpAgrees, OwedByte
  <2>2. CASE e # Mux
    BY <1>1, <1>2, <1>3, <1>4, <1>5, <2>2, UpAgrees, OwedByte
  <2> QED BY <2>1, <2>2
<1>7. /\ stream_debt'[e] = stream_debt[e] - 1 /\ stream_debt'[e] \in Nat
      /\ Len(written[e]) \in Nat /\ stream_debt[e] \in Nat
      /\ \A x \in End : x # e => stream_debt'[x] = stream_debt[x]
  <2>1. stream_debt \in [End -> 0 .. GlobalKarma - 1]
    BY DEF IInv, TypeOK
  <2>2. Len(written[e]) \in Nat
    BY EndTypes DEF IInv
  <2>3. stream_debt[e] \in 1 .. GlobalKarma - 1
    BY <1>1, <2>1
  <2> QED BY <1>1, <2>1, <2>2, <2>3
<1>8. /\ Len(written'[e]) - stream_debt'[e] = Len(written[e]) - stream_debt[e] + 1
      /\ Len(written'[e]) >= Len(written[e]) /\ Len(written'[e]) \in Nat
      /\ up[mainfd[e]] => b = Len(written'[e]) - stream_debt'[e]
  BY <1>1, <1>5, <1>6, <1>7
<1>9. /\ net' \in [Conn -> [Side -> Seq(Nat)]]
      /\ FdShape' /\ ConnShape'
      /\ \A x \in Conn : OnWire(x, d)'
  BY <1>1, <1>2, <1>4, <1>7, <1>8, TransmitInv
<1>10. TypeOK'
  <2>1. stream_debt' \in [End -> 0 .. GlobalKarma - 1]
    <3>1. stream_debt \in [End -> 0 .. GlobalKarma - 1]
      BY DEF IInv, TypeOK
    <3>2. stream_debt[e] - 1 \in 0 .. GlobalKarma - 1
      BY <1>1, <3>1, ConstantsOK
    <3> QED BY <1>1, <3>1, <3>2
  <2> QED BY <1>1, <1>9, <2>1 DEF IInv, TypeOK
<1>11. Dormant' /\ Packets'
  BY <1>1 DEF IInv, Dormant, Untouched, Packets
<1>12. Sessions'
  <2>1. Stream(Mux, d)' /\ Stream(d, Mux)'
    BY <1>1, <1>3, StreamFrame
  <2> QED BY <1>1, <1>2, <1>3, <1>9, <2>1 DEF Sessions
<1> QED BY <1>9, <1>10, <1>11, <1>12 DEF IInv

-----------------------------------------------------------------------------
\* Writing a byte: the history of the stream, and the circular buffer.
LEMMA GrantedAppend ==
  ASSUME NEW s \in Seq(Nat), NEW v \in Nat
  PROVE  /\ Len(Append(s, v)) = Len(s) + 1 /\ Total(Append(s, v)) = v
         /\ \A n \in 0 .. Len(s) : Granted(Append(s, v), n) = Granted(s, n)
         /\ \A n \in 0 .. Len(s) : Granted(s, n) \in Nat
         /\ Total(s) \in Nat
BY DEF Granted, Total

\* Credit announced never decreases along the stream.
LEMMA MonotoneAppend ==
  ASSUME NEW s \in Seq(Nat), NEW v \in Nat, Monotone(s), v >= Total(s)
  PROVE  Monotone(Append(s, v))
<1> DEFINE t == Append(s, v)
<1>1. Len(s) \in Nat /\ Len(t) = Len(s) + 1
  OBVIOUS
<1>2. Granted(t, Len(s) + 1) = v
  BY <1>1 DEF Granted
<1>3. \A n \in 0 .. Len(s) : Granted(t, n) = Granted(s, n) /\ Granted(s, n) \in Nat
  BY GrantedAppend
<1>4. \A n \in 0 .. Len(s) : Granted(s, n) <= v
  <2> TAKE n \in 0 .. Len(s)
  <2>1. Len(s) \in 0 .. Len(s) /\ n <= Len(s)
    BY <1>1
  <2>2. Granted(s, n) <= Granted(s, Len(s))
    BY <2>1 DEF Monotone
  <2> QED BY <1>3, <2>1, <2>2 DEF Total
<1> HIDE DEF t
<1>5. ASSUME NEW i \in 0 .. Len(s) + 1, NEW j \in 0 .. Len(s) + 1, i <= j
      PROVE  Granted(t, i) <= Granted(t, j)
  <2>1. CASE j \in 0 .. Len(s)
    <3>1. i \in 0 .. Len(s)
      BY <1>1, <1>5, <2>1
    <3>2. Granted(s, i) <= Granted(s, j)
      BY <1>5, <2>1, <3>1 DEF Monotone
    <3> QED BY <1>3, <2>1, <3>1, <3>2
  <2>2. CASE j = Len(s) + 1
    <3>1. CASE i = Len(s) + 1
      BY <1>2, <2>2, <3>1
    <3>2. CASE i # Len(s) + 1
      <4>1. i \in 0 .. Len(s)
        BY <1>1, <3>2
      <4> QED BY <1>2, <1>3, <1>4, <2>2, <4>1
    <3> QED BY <3>1, <3>2
  <2> QED BY <1>1, <2>1, <2>2
<1> QED BY <1>1, <1>5 DEF Monotone, t

\* Advancing the position and looking back from it are inverse.
LEMMA ForwardBack ==
  ASSUME NEW pos \in 0 .. GlobalKarma - 1
  PROVE  /\ Forward(pos) \in 0 .. GlobalKarma - 1 /\ Back(Forward(pos), 1) = pos
         /\ \A j \in 1 .. GlobalKarma - 1 :
              /\ Back(pos, j) # pos /\ Back(pos, j) \in 0 .. GlobalKarma - 1
              /\ j < GlobalKarma - 1 => Back(Forward(pos), j + 1) = Back(pos, j)
         /\ Forward(pos) - pos \in {1, 1 - GlobalKarma}
BY ConstantsOK DEF Forward, Back

\* Writing one byte leaves the unread ones in place while fewer than the
\* buffer less one are unread.
LEMMA BufferWrite ==
  ASSUME NEW st \in [0 .. GlobalKarma - 1 -> Nat], NEW pos \in 0 .. GlobalKarma - 1,
         NEW a \in Nat, NEW w \in Nat, a <= w, w - a < GlobalKarma - 1,
         \A n \in a + 1 .. w : st[Back(pos, w + 1 - n)] = n,
         NEW n \in a + 1 .. w + 1
  PROVE  [st EXCEPT ![pos] = w + 1][Back(Forward(pos), w + 1 + 1 - n)] = n
<1>1. CASE n = w + 1
  <2>1. w + 1 + 1 - n = 1
    BY <1>1
  <2> QED BY <1>1, <2>1, ForwardBack
<1>2. CASE n # w + 1
  <2>1. n \in a + 1 .. w /\ w + 1 + 1 - n = (w + 1 - n) + 1
    BY <1>2
  <2>2. w + 1 - n \in 1 .. GlobalKarma - 1 /\ w + 1 - n < GlobalKarma - 1
    BY <2>1, ConstantsOK
  <2>3. /\ Back(pos, w + 1 - n) # pos /\ Back(pos, w + 1 - n) \in 0 .. GlobalKarma - 1
        /\ Back(Forward(pos), (w + 1 - n) + 1) = Back(pos, w + 1 - n)
    BY <2>2, ForwardBack
  <2>4. st[Back(pos, w + 1 - n)] = n
    BY <2>1
  <2> QED BY <2>1, <2>3, <2>4
<1> QED BY <1>1, <1>2

\* Positions that are k apart (modulo the buffer) are k + 1 apart after a write.
LEMMA ApartForward ==
  ASSUME NEW x \in 0 .. GlobalKarma - 1, NEW y \in 0 .. GlobalKarma - 1,
         NEW z \in 0 .. GlobalKarma - 1, NEW k \in 0 .. GlobalKarma - 2,
         x - y \in {k, k - GlobalKarma}, z - x \in {1, 1 - GlobalKarma}
  PROVE  z - y \in {k + 1, k + 1 - GlobalKarma}
BY ConstantsOK

\* What write_mainfd does to the writer's side of a stream.
Writes(e, v, ack) ==
  /\ stream_karma' = [stream_karma EXCEPT ![e] = @ - 1]
  /\ stream_pos' = [stream_pos EXCEPT ![e] = Forward(@)]
  /\ stream' = [stream EXCEPT ![e][stream_pos[e]] = Len(written[e]) + 1]
  /\ written' = [written EXCEPT ![e] = Append(@, v)]
  /\ \A x \in End : x # e => wout'[x] = wout[x]
  /\ wout'[e].ack = ack /\ ack \in Nat /\ v \in Nat
  /\ v + ack = Total(written[e]) + wout[e].ack /\ v >= Total(written[e])
  /\ UNCHANGED <<rstream_pos, rstream_karma, delivered>>

LEMMA WrittenStream ==
  ASSUME TypeOK, NEW e \in End, NEW p \in End, e # p, Stream(e, p), Stream(p, e),
         stream_karma[e] > 0, NEW v, NEW ack, Writes(e, v, ack)
  PROVE  Stream(e, p)'
<1> USE DEF Writes
<1>1. /\ written[e] \in Seq(Nat) /\ written'[e] = Append(written[e], v)
      /\ written'[p] = written[p] /\ wout'[p] = wout[p]
      /\ stream_karma'[e] = stream_karma[e] - 1
      /\ stream_pos'[e] = Forward(stream_pos[e])
      /\ stream'[e] = [stream[e] EXCEPT ![stream_pos[e]] = Len(written[e]) + 1]
  BY DEF TypeOK
<1>2. PICK w \in Nat : w = Len(written[e])
  BY EndTypes
<1>3. PICK a \in Nat : a = Len(delivered[p])
  BY EndTypes
<1>4. a <= w /\ Len(written'[e]) = w + 1
  BY <1>1, <1>2, <1>3 DEF Stream
<1>5. Unread(e, p) = w - a /\ Unread(e, p)' = w + 1 - a
  BY <1>2, <1>3, <1>4 DEF Unread
<1>6. stream_pos[e] \in 0 .. GlobalKarma - 1 /\ stream[e] \in [0 .. GlobalKarma - 1 -> Nat]
      /\ stream_karma[e] \in Nat /\ rstream_karma[p] \in Nat
      /\ rstream_pos[p] \in 0 .. GlobalKarma - 1 /\ wout[p].ack \in Nat
  BY EndCounts
<1>7. w - a < GlobalKarma - 1
  <2>1. w - a + stream_karma[e] + rstream_karma[p] <= GlobalKarma - 1
    BY <1>5, UnreadBound
  <2> QED BY SMTT(40), <1>4, <1>6, <2>1, ConstantsOK
<1>8. Monotone(written[e])'
  <2>1. Monotone(Append(written[e], v))
    BY <1>1, MonotoneAppend DEF Stream
  <2> QED BY <1>1, <2>1 DEF Monotone
<1>9. \A i \in 1 .. Len(delivered'[p]) : delivered'[p][i] = i
  BY DEF Stream
<1>10. stream_karma'[e] + Unread(e, p)' + rstream_karma'[p] + wout'[p].ack
         + (Total(written[p]) - Granted(written[p], Len(delivered[e])))' = GlobalKarma - 1
  <2>1. (Total(written[p]) - Granted(written[p], Len(delivered[e])))'
          = Total(written[p]) - Granted(written[p], Len(delivered[e]))
    BY <1>1 DEF Total, Granted
  <2>2. stream_karma[e] - 1 + (w + 1 - a) + rstream_karma[p] + wout[p].ack
          = stream_karma[e] + (w - a) + rstream_karma[p] + wout[p].ack
    BY <1>6
  <2> QED BY <1>1, <1>5, <2>1, <2>2 DEF Stream
<1>11. stream_pos'[e] - rstream_pos'[p] \in {Unread(e, p)', Unread(e, p)' - GlobalKarma}
  <2>1. stream_pos[e] - rstream_pos[p] \in {w - a, w - a - GlobalKarma}
    BY <1>5 DEF Stream
  <2>2. stream_pos'[e] - stream_pos[e] \in {1, 1 - GlobalKarma}
    BY <1>1, <1>6, ForwardBack
  <2>3. stream_pos'[e] \in 0 .. GlobalKarma - 1
    BY <1>1, <1>6, ForwardBack
  <2>4. PICK k \in 0 .. GlobalKarma - 2 : k = w - a
    BY SMTT(40), <1>4, <1>7, ConstantsOK
  <2>5. stream_pos'[e] - rstream_pos[p] \in {k + 1, k + 1 - GlobalKarma}
    BY <1>6, <2>1, <2>2, <2>3, <2>4, ApartForward
  <2>6. rstream_pos'[p] = rstream_pos[p]
    OBVIOUS
  <2> HIDE DEF Writes
  <2>7. w + 1 - a = k + 1
    BY <2>4
  <2>8. Unread(e, p)' = k + 1
    BY <1>5, <2>7
  <2> QED BY <1>6, <2>3, <2>5, <2>6, <2>8, ConstantsOK
<1>12. \A n \in Len(delivered'[p]) + 1 .. Len(written'[e]) :
          stream'[e][Back(stream_pos'[e], Len(written'[e]) + 1 - n)] = n
  <2>1. \A n \in a + 1 .. w : stream[e][Back(stream_pos[e], w + 1 - n)] = n
    BY <1>2, <1>3 DEF Stream
  <2>2. \A n \in a + 1 .. w + 1 :
           [stream[e] EXCEPT ![stream_pos[e]] = w + 1][Back(Forward(stream_pos[e]), w + 1 + 1 - n)] = n
    BY <1>4, <1>6, <1>7, <2>1, BufferWrite
  <2> QED BY SMTT(40), <1>1, <1>2, <1>3, <1>4, <2>2
<1>13. Len(delivered'[p]) <= Len(written'[e])
  BY <1>3, <1>4
<1> QED BY <1>8, <1>9, <1>10, <1>11, <1>12, <1>13 DEF Stream, Back

\* The same step seen from the stream in the other direction.
LEMMA WriterReads ==
  ASSUME TypeOK, NEW e \in End, NEW p \in End, e # p, Stream(e, p), Stream(p, e),
         NEW v, NEW ack, Writes(e, v, ack)
  PROVE  Stream(p, e)'
<1> USE DEF Writes
<1>1. /\ written[e] \in Seq(Nat) /\ written'[e] = Append(written[e], v)
      /\ written'[p] = written[p]
      /\ stream_karma'[p] = stream_karma[p] /\ stream_pos'[p] = stream_pos[p]
      /\ stream'[p] = stream[p]
  BY DEF TypeOK
<1>2. PICK a \in 0 .. Len(written[e]) : a = Len(delivered[p])
  <2>1. Len(written[e]) \in Nat /\ Len(delivered[p]) \in Nat
    BY EndTypes
  <2>2. Len(delivered[p]) <= Len(written[e])
    BY DEF Stream
  <2> QED BY SMTT(40), <2>1, <2>2
<1>3. Total(written'[e]) = v /\ Granted(written'[e], a) = Granted(written[e], a)
      /\ Granted(written[e], a) \in Nat /\ Total(written[e]) \in Nat
  BY <1>1, <1>2, GrantedAppend
<1>4. Unread(p, e)' = Unread(p, e) /\ Unread(p, e) \in Int
  BY <1>1, EndTypes DEF Unread
<1>5. PICK r \in Int : r = stream_karma[p] + Unread(p, e) + rstream_karma[e]
  BY SMTT(40), <1>4, EndCounts
<1>6. PICK g \in Int : g = Granted(written[e], a)
  BY <1>3
<1>7. PICK t \in Int : t = Total(written[e])
  BY <1>3
<1>8. PICK k \in Int : k = wout[e].ack
  BY EndCounts
<1>9. r + k + (t - g) = GlobalKarma - 1
  BY <1>2, <1>5, <1>6, <1>7, <1>8 DEF Stream
<1>10. r + ack + (v - g) = GlobalKarma - 1
  <2>1. v + ack = t + k /\ v \in Int /\ ack \in Int
    BY <1>7, <1>8
  <2> HIDE DEF Writes
  <2> QED BY <1>9, <2>1
<1>11. stream_karma'[p] + Unread(p, e)' + rstream_karma'[e] + wout'[e].ack
          + (Total(written'[e]) - Granted(written'[e], Len(delivered'[p]))) = GlobalKarma - 1
  BY <1>1, <1>2, <1>3, <1>4, <1>5, <1>6, <1>10
<1> QED BY <1>1, <1>4, <1>11 DEF Stream, Monotone, Back

\* A byte written belongs to the packet in wout; the last one completes it.
LEMMA PacketByte ==
  ASSUME TypeOK, Packets, NEW e \in End, Dumping(e), WriteByte(e)
  PROVE  /\ wout' \in [End -> [left : Nat, ack : 0 .. GlobalKarma - 1]] /\ Packets'
         /\ \E v \in Nat, ack \in Nat : Writes(e, v, ack)
<1> USE DEF recvVars
<1>1. /\ wout \in [End -> [left : Nat, ack : 0 .. GlobalKarma - 1]]
      /\ 0 \in 0 .. GlobalKarma - 1
  BY ConstantsOK DEF TypeOK
<1>2. PICK l \in Nat, k \in 0 .. GlobalKarma - 1 : wout[e] = [left |-> l, ack |-> k] /\ l > 0
  BY <1>1 DEF Dumping
<1>3. PICK t \in Nat : t = Total(written[e])
  BY GrantedAppend DEF TypeOK
<1>4. /\ written' = [written EXCEPT ![e] = Append(@, t + IF l = 1 THEN k ELSE 0)]
      /\ wout' = [wout EXCEPT ![e] = IF l = 1 THEN NoPacket ELSE [left |-> l - 1, ack |-> k]]
      /\ stream_karma' = [stream_karma EXCEPT ![e] = @ - 1]
      /\ stream_pos' = [stream_pos EXCEPT ![e] = Forward(@)]
      /\ stream' = [stream EXCEPT ![e][stream_pos[e]] = Len(written[e]) + 1]
      /\ UNCHANGED <<rstream_pos, rstream_karma, delivered>>
  <2>2. wout[e].left = l /\ wout[e].ack = k
    BY <1>2
  <2>3. written' = [written EXCEPT ![e] = Append(@, t + IF l = 1 THEN k ELSE 0)]
    <3>1. written' = [written EXCEPT ![e] = Append(written[e],
            Total(written[e]) + IF wout[e].left = 1 THEN wout[e].ack ELSE 0)]
      BY Zenon DEF WriteByte
    <3>2. (IF wout[e].left = 1 THEN wout[e].ack ELSE 0) = (IF l = 1 THEN k ELSE 0)
      BY <2>2
    <3> QED BY <1>3, <3>1, <3>2, Zenon
  <2>4. wout' = IF l = 1 THEN [wout EXCEPT ![e] = NoPacket]
                         ELSE [wout EXCEPT ![e].left = @ - 1]
    BY <2>2 DEF WriteByte
  <2>5. [wout EXCEPT ![e].left = @ - 1] = [wout EXCEPT ![e] = [left |-> l - 1, ack |-> k]]
    <3>1. [wout[e] EXCEPT !.left = l - 1] = [left |-> l - 1, ack |-> k]
      BY <1>2
    <3>2. [wout EXCEPT ![e].left = @ - 1] = [wout EXCEPT ![e] = [wout[e] EXCEPT !.left = l - 1]]
      BY <2>2
    <3> QED BY <3>1, <3>2
  <2>6. wout' = [wout EXCEPT ![e] = IF l = 1 THEN NoPacket ELSE [left |-> l - 1, ack |-> k]]
    BY <2>4, <2>5
  <2> QED BY <2>3, <2>6 DEF WriteByte
<1>5. CASE l = 1
  <2>1. wout' = [wout EXCEPT ![e] = [left |-> 0, ack |-> 0]]
    BY <1>4, <1>5 DEF NoPacket
  <2>2. wout' \in [End -> [left : Nat, ack : 0 .. GlobalKarma - 1]] /\ Packets'
    BY <1>1, <2>1 DEF Packets
  <2>3. /\ written' = [written EXCEPT ![e] = Append(@, t + k)]
        /\ wout'[e].ack = 0 /\ \A x \in End : x # e => wout'[x] = wout[x]
        /\ t + k \in Nat /\ t + k + 0 = t + wout[e].ack /\ t + k >= t
    BY <1>1, <1>2, <1>3, <1>4, <1>5, <2>1
  <2>4. Writes(e, t + k, 0)
    BY <1>3, <1>4, <2>3 DEF Writes
  <2> QED BY <2>2, <2>3, <2>4
<1>6. CASE l # 1
  <2>1. wout' = [wout EXCEPT ![e] = [left |-> l - 1, ack |-> k]] /\ l - 1 \in Nat /\ l - 1 # 0
    BY <1>2, <1>4, <1>6
  <2>2. wout' \in [End -> [left : Nat, ack : 0 .. GlobalKarma - 1]] /\ Packets'
    BY <1>1, <2>1 DEF Packets
  <2>3. /\ written' = [written EXCEPT ![e] = Append(@, t)]
        /\ wout'[e].ack = k /\ \A x \in End : x # e => wout'[x] = wout[x]
        /\ k \in Nat /\ t + k = t + wout[e].ack /\ t >= t
    <3>1. t + (IF l = 1 THEN k ELSE 0) = t
      BY <1>3, <1>6
    <3>2. wout'[e].ack = k /\ \A x \in End : x # e => wout'[x] = wout[x]
      BY <1>1, <2>1
    <3>3. k \in Nat /\ t + k = t + wout[e].ack /\ t >= t
      BY <1>2, <1>3
    <3>4. written' = [written EXCEPT ![e] = Append(@, t)]
      BY <1>4, <3>1, Zenon
    <3> QED BY <3>2, <3>3, <3>4
  <2>4. Writes(e, t, k)
    BY <1>3, <1>4, <2>3 DEF Writes
  <2> QED BY <1>3, <2>2, <2>3, <2>4
<1> QED BY <1>5, <1>6

\* Writing a byte of a packet (mainw, write_mainfd) keeps IInv.
LEMMA WriteByteInv == ASSUME IInv, NEW e \in End, WriteByte(e) PROVE IInv'
<1> USE DEF fdVars, recvVars, queueVars
<1>1. /\ Linked(e) /\ stream_debt[e] = 0 /\ Dumping(e) /\ stream_karma[e] > 0
      /\ Transmit(e, Len(written[e]) + 1)
      /\ UNCHANGED <<nconn, up, key, hdr, owner, mainfd, handshake, stream_debt>>
      /\ UNCHANGED <<rstream_pos, rstream_karma, delivered>>
      /\ UNCHANGED <<write_ctl, write_data, karma_head, stalled>>
  BY DEF WriteByte
<1>2. PICK d \in Ctx : /\ handshake[d] = "up"
                       /\ e = Mux => owner[mainfd[Mux]] = d
                       /\ e # Mux => e = d /\ owner[mainfd[d]] = d
  BY <1>1, LinkedSession
<1>3. /\ Mux \in End /\ d \in End /\ d # Mux /\ TypeOK /\ Packets
      /\ Stream(Mux, d) /\ Stream(d, Mux) /\ \A x \in Ctx : handshake[x] = "up" => x = d
  BY <1>2 DEF IInv, Sessions, End, Ctx, Mux
<1>4. /\ wout' \in [End -> [left : Nat, ack : 0 .. GlobalKarma - 1]] /\ Packets'
      /\ \E v \in Nat, ack \in Nat : Writes(e, v, ack)
  BY <1>1, <1>3, PacketByte
<1>5. PICK v \in Nat, ack \in Nat : Writes(e, v, ack)
  BY <1>4
<1>6. /\ written'[e] = Append(written[e], v)
      /\ \A x \in End : x # e => written'[x] = written[x] /\ wout'[x] = wout[x]
      /\ written' \in [End -> Seq(Nat)]
  <2>1. written \in [End -> Seq(Nat)]
    BY <1>3 DEF TypeOK
  <2>2. written' = [written EXCEPT ![e] = Append(written[e], v)] /\ Append(written[e], v) \in Seq(Nat)
    BY <1>5, <2>1 DEF Writes
  <2>3. \A x \in End : x # e => wout'[x] = wout[x]
    BY <1>5 DEF Writes
  <2> QED BY <2>1, <2>2, <2>3
<1>7. PICK w \in Nat : w = Len(written[e])
  BY <1>3, EndTypes
<1>8. Len(written'[e]) = w + 1
  BY <1>3, <1>6, <1>7 DEF TypeOK
<1>9. Len(written'[e]) - stream_debt'[e] = Len(written[e]) - stream_debt[e] + 1
      /\ w + 1 = Len(written'[e]) - stream_debt'[e] /\ stream_debt'[e] \in Nat
      /\ Len(written'[e]) >= Len(written[e]) /\ Len(written'[e]) \in Nat
  BY <1>1, <1>7, <1>8
<1>10. /\ net' \in [Conn -> [Side -> Seq(Nat)]] /\ FdShape' /\ ConnShape'
       /\ \A x \in Conn : OnWire(x, d)'
  <2>1. Transmit(e, w + 1) /\ w + 1 \in Nat
    BY <1>1, <1>7
  <2> QED BY <1>1, <1>2, <1>6, <1>9, <2>1, TransmitInv
<1>11. TypeOK'
  <2>1. stream_karma' \in [End -> 0 .. GlobalKarma - 1]
    <3>1. stream_karma \in [End -> 0 .. GlobalKarma - 1]
      BY <1>3 DEF TypeOK
    <3>2. stream_karma[e] - 1 \in 0 .. GlobalKarma - 1
      BY <1>1, <3>1, ConstantsOK
    <3> QED BY <1>5, <3>1, <3>2 DEF Writes
  <2>2. stream_pos' \in [End -> 0 .. GlobalKarma - 1]
    <3>1. stream_pos \in [End -> 0 .. GlobalKarma - 1]
      BY <1>3 DEF TypeOK
    <3>2. PICK f \in 0 .. GlobalKarma - 1 : f = Forward(stream_pos[e])
      BY <3>1, ForwardBack
    <3>3. stream_pos' = [stream_pos EXCEPT ![e] = f]
      BY <1>5, <3>2 DEF Writes
    <3> QED BY <3>1, <3>3
  <2>3. stream' \in [End -> [0 .. GlobalKarma - 1 -> Nat]]
    <3>1. /\ stream \in [End -> [0 .. GlobalKarma - 1 -> Nat]]
          /\ stream_pos[e] \in 0 .. GlobalKarma - 1
      BY <1>3 DEF TypeOK
    <3>2. /\ stream' = [stream EXCEPT ![e] = [stream[e] EXCEPT ![stream_pos[e]] = w + 1]]
          /\ [stream[e] EXCEPT ![stream_pos[e]] = w + 1] \in [0 .. GlobalKarma - 1 -> Nat]
      BY <1>5, <1>7, <3>1 DEF Writes
    <3> QED BY <3>1, <3>2
  <2> QED BY <1>1, <1>3, <1>4, <1>6, <1>10, <2>1, <2>2, <2>3 DEF TypeOK
<1>12. Dormant'
  <2>1. \A x \in Ctx : handshake[x] # "up" => x # e
    BY <1>1 DEF Linked
  <2>2. \A x \in End : x # e => stream_karma'[x] = stream_karma[x] /\ stream_pos'[x] = stream_pos[x]
    BY <1>3, <1>5 DEF Writes, TypeOK
  <2>3. \A x \in End : x # e /\ Untouched(x) => Untouched(x)'
    BY <1>1, <1>6, <2>2 DEF Untouched
  <2>4. \A x \in Ctx : handshake[x] # "up" => Untouched(x)'
    BY <2>1, <2>3 DEF IInv, Dormant, End
  <2> QED BY <1>1, <1>2, <2>4 DEF IInv, Dormant
<1>13. Stream(Mux, d)' /\ Stream(d, Mux)'
  <2>1. CASE e = Mux
    BY <1>1, <1>3, <1>5, <2>1, WrittenStream, WriterReads
  <2>2. CASE e # Mux
    BY <1>1, <1>2, <1>3, <1>5, <2>2, WrittenStream, WriterReads
  <2> QED BY <2>1, <2>2
<1>14. Sessions'
  BY <1>1, <1>2, <1>3, <1>10, <1>13 DEF Sessions
<1> QED BY <1>4, <1>10, <1>11, <1>12, <1>14 DEF IInv

-----------------------------------------------------------------------------
\* Reading a byte: what ReadByte does to the reader's side of the streams.
Reads(e, p) ==
  /\ delivered' = [delivered EXCEPT ![e] = Append(@, Len(delivered[e]) + 1)]
  /\ stream_karma' = [stream_karma EXCEPT
       ![e] = @ + (Granted(written[p], Len(delivered[e]) + 1)
                     - Granted(written[p], Len(delivered[e])))]
  /\ rstream_pos' = [rstream_pos EXCEPT ![e] = Forward(@)]
  /\ rstream_karma' = [rstream_karma EXCEPT ![e] = @ + 1]
  /\ UNCHANGED <<stream_pos, stream, written, wout>>

\* Positions that are k apart (modulo the buffer) are k - 1 apart after a read.
LEMMA ApartRead ==
  ASSUME NEW x \in 0 .. GlobalKarma - 1, NEW y \in 0 .. GlobalKarma - 1,
         NEW z \in 0 .. GlobalKarma - 1, NEW k \in 1 .. GlobalKarma - 1,
         x - y \in {k, k - GlobalKarma}, z - y \in {1, 1 - GlobalKarma}
  PROVE  x - z \in {k - 1, k - 1 - GlobalKarma}
BY ConstantsOK

\* The stream the byte was read from.
LEMMA ReadStream ==
  ASSUME TypeOK, NEW e \in End, NEW p \in End, e # p, Stream(p, e), Stream(e, p),
         Len(delivered[e]) < Len(written[p]), Reads(e, p)
  PROVE  Stream(p, e)' /\ rstream_karma'[e] \in 0 .. GlobalKarma - 1
<1>1. PICK a \in Nat : a = Len(delivered[e])
  BY EndTypes
<1>2. PICK w \in Nat : w = Len(written[p])
  BY EndTypes
<1>3. /\ delivered'[e] = Append(delivered[e], a + 1) /\ delivered'[p] = delivered[p]
      /\ Len(delivered'[e]) = a + 1 /\ a < w /\ written' = written
      /\ stream_karma'[p] = stream_karma[p] /\ rstream_karma'[e] = rstream_karma[e] + 1
      /\ UNCHANGED <<stream_pos, stream, written, wout>>
  <2>1. delivered \in [End -> Seq(Nat)]
    BY DEF TypeOK
  <2>2. delivered' = [delivered EXCEPT ![e] = Append(delivered[e], a + 1)]
    BY <1>1 DEF Reads
  <2>3. Len(Append(delivered[e], a + 1)) = a + 1
    BY <1>1, <2>1
  <2>4. stream_karma'[p] = stream_karma[p] /\ rstream_karma'[e] = rstream_karma[e] + 1
    BY DEF Reads, TypeOK
  <2> QED BY <1>1, <1>2, <2>1, <2>2, <2>3, <2>4 DEF Reads
<1>4. PICK u \in 1 .. GlobalKarma - 1 : u = w - a
  <2>1. Unread(p, e) = w - a /\ stream_karma[p] \in Nat /\ rstream_karma[e] \in Nat
    BY <1>1, <1>2, EndCounts DEF Unread
  <2>2. Unread(p, e) + stream_karma[p] + rstream_karma[e] <= GlobalKarma - 1
    BY UnreadBound
  <2> QED BY <1>3, <2>1, <2>2, ConstantsOK
<1>5. Unread(p, e) = u /\ Unread(p, e)' = u - 1
  <2>1. Len(written'[p]) = w /\ Len(delivered'[e]) = a + 1 /\ w - (a + 1) = u - 1
    BY <1>2, <1>3, <1>4
  <2> QED BY <1>1, <1>2, <1>4, <2>1 DEF Unread
<1>6. rstream_karma'[e] \in 0 .. GlobalKarma - 1
  <2>1. u + stream_karma[p] + rstream_karma[e] <= GlobalKarma - 1
    BY <1>5, UnreadBound
  <2>2. stream_karma[p] \in Nat /\ rstream_karma[e] \in Nat
    BY EndCounts
  <2>3. rstream_karma[e] + 1 \in 0 .. GlobalKarma - 1
    BY <1>4, <2>1, <2>2, ConstantsOK
  <2> QED BY <1>3, <2>3
<1>7. \A i \in 1 .. Len(delivered'[e]) : delivered'[e][i] = i
  <2>1. \A i \in 1 .. a : delivered[e][i] = i
    BY <1>1 DEF Stream
  <2>2. delivered[e] \in Seq(Nat) /\ Len(delivered[e]) = a
    BY <1>1, EndTypes
  <2>3. ASSUME NEW i \in 1 .. a + 1 PROVE Append(delivered[e], a + 1)[i] = i
    <3>1. CASE i = a + 1
      BY <2>2, <3>1
    <3>2. CASE i # a + 1
      <4>1. i \in 1 .. a
        BY <3>2
      <4> QED BY <2>1, <2>2, <4>1
    <3> QED BY <3>1, <3>2
  <2> QED BY <1>3, <2>3
<1>8. stream_karma'[p] + Unread(p, e)' + rstream_karma'[e] + wout'[e].ack
        + (Total(written[e]) - Granted(written[e], Len(delivered[p])))' = GlobalKarma - 1
  <2>1. (Total(written[e]) - Granted(written[e], Len(delivered[p])))'
           = Total(written[e]) - Granted(written[e], Len(delivered[p]))
    BY <1>3 DEF Total, Granted
  <2>2. stream_karma[p] \in Int /\ rstream_karma[e] \in Int /\ u \in Int
    BY EndCounts
  <2>3. stream_karma[p] + (u - 1) + (rstream_karma[e] + 1) = stream_karma[p] + u + rstream_karma[e]
    BY <2>2
  <2> QED BY <1>3, <1>5, <2>1, <2>3 DEF Stream
<1>9. stream_pos'[p] - rstream_pos'[e] \in {Unread(p, e)', Unread(p, e)' - GlobalKarma}
  <2>1. stream_pos[p] \in 0 .. GlobalKarma - 1 /\ rstream_pos[e] \in 0 .. GlobalKarma - 1
    BY EndCounts
  <2>2. stream_pos[p] - rstream_pos[e] \in {u, u - GlobalKarma}
    BY <1>5 DEF Stream
  <2>3. PICK z \in 0 .. GlobalKarma - 1 : /\ z = Forward(rstream_pos[e])
                                          /\ z - rstream_pos[e] \in {1, 1 - GlobalKarma}
    BY <2>1, ForwardBack
  <2>4. stream_pos[p] - z \in {u - 1, u - 1 - GlobalKarma}
    BY <2>1, <2>2, <2>3, ApartRead
  <2>5. rstream_pos'[e] = z
    BY <2>3 DEF Reads, TypeOK
  <2> QED BY <1>3, <1>5, <2>4, <2>5, ConstantsOK
<1>10. \A n \in Len(delivered'[e]) + 1 .. Len(written'[p]) :
          stream'[p][Back(stream_pos'[p], Len(written'[p]) + 1 - n)] = n
  <2>1. \A n \in a + 1 .. w : stream[p][Back(stream_pos[p], w + 1 - n)] = n
    BY <1>1, <1>2 DEF Stream
  <2>2. \A n \in a + 1 + 1 .. w : n \in a + 1 .. w
    OBVIOUS
  <2> QED BY <1>2, <1>3, <2>1, <2>2
<1>11. Len(delivered'[e]) <= Len(written'[p]) /\ Monotone(written[p])'
  BY <1>2, <1>3 DEF Stream, Monotone
<1> QED BY <1>6, <1>7, <1>8, <1>9, <1>10, <1>11 DEF Stream, Back

\* The stream in the other direction: the credit that the byte completes.
LEMMA ReaderWrites ==
  ASSUME TypeOK, NEW e \in End, NEW p \in End, e # p, Stream(p, e), Stream(e, p),
         Len(delivered[e]) < Len(written[p]), Reads(e, p)
  PROVE  Stream(e, p)' /\ stream_karma'[e] \in 0 .. GlobalKarma - 1
<1>0. /\ written[p] \in Seq(Nat) /\ Len(written[p]) \in Nat /\ Len(delivered[e]) \in Nat
      /\ stream_karma[e] \in Nat /\ rstream_karma[p] \in Nat /\ wout[p].ack \in Nat
  <2>1. rstream_karma[p] \in 0 .. GlobalKarma - 1 /\ stream_karma[e] \in 0 .. GlobalKarma - 1
    BY EndCounts
  <2>2. wout[p].ack \in 0 .. GlobalKarma - 1
    BY EndCounts
  <2> QED BY <2>1, <2>2, EndTypes
<1>1. PICK a \in Nat : a = Len(delivered[e])
  BY <1>0
<1>2. PICK w \in Nat : w = Len(written[p]) /\ a < w
  BY <1>0, <1>1
<1>3. PICK x \in Nat : x = Granted(written[p], a)
  <2>1. a \in 0 .. Len(written[p])
    BY <1>2
  <2> QED BY <1>0, <2>1, GrantedAppend
<1>4. PICK y \in Nat : y = Granted(written[p], a + 1)
  <2>1. a + 1 \in 0 .. Len(written[p])
    BY <1>2
  <2> QED BY <1>0, <2>1, GrantedAppend
<1>5. PICK t \in Nat : t = Total(written[p])
  BY <1>0, GrantedAppend
<1>6. x <= y /\ y <= t
  <2>1. a \in 0 .. w /\ a + 1 \in 0 .. w /\ w \in 0 .. w /\ a <= a + 1 /\ a + 1 <= w
    BY <1>2
  <2>2. \A i, j \in 0 .. w : i <= j => Granted(written[p], i) <= Granted(written[p], j)
    BY <1>2 DEF Stream, Monotone
  <2> QED BY <1>2, <1>3, <1>4, <1>5, <2>1, <2>2 DEF Total
<1>7. PICK k \in Nat : k = stream_karma[e]
  BY <1>0
<1>8. PICK u \in Nat : u = Unread(e, p)
  BY UnreadBound
<1>9. PICK r \in Nat : r = rstream_karma[p]
  BY <1>0
<1>10. PICK q \in Nat : q = wout[p].ack
  BY <1>0
<1>11. k + u + r + q + (t - x) = GlobalKarma - 1
  BY <1>1, <1>3, <1>5, <1>7, <1>8, <1>9, <1>10 DEF Stream
<1>12. k + (y - x) + u + r + q + (t - y) = GlobalKarma - 1 /\ k + (y - x) \in 0 .. GlobalKarma - 1
  BY <1>6, <1>11, ConstantsOK
<1>13. stream_karma'[e] = k + (y - x)
  <2>1. stream_karma'[e] = stream_karma[e] + (Granted(written[p], Len(delivered[e]) + 1)
                                               - Granted(written[p], Len(delivered[e])))
    BY DEF Reads, TypeOK
  <2> QED BY <1>1, <1>3, <1>4, <1>7, <2>1
<1>14. /\ delivered'[p] = delivered[p] /\ Len(delivered'[e]) = a + 1
       /\ rstream_karma'[p] = rstream_karma[p] /\ rstream_pos'[p] = rstream_pos[p]
       /\ UNCHANGED <<stream_pos, stream, written, wout>>
  <2>1. delivered[e] \in Seq(Nat)
    BY EndTypes
  <2>2. delivered'[e] = Append(delivered[e], a + 1) /\ delivered'[p] = delivered[p]
    BY <1>1 DEF Reads, TypeOK
  <2>3. rstream_karma'[p] = rstream_karma[p] /\ rstream_pos'[p] = rstream_pos[p]
    BY DEF Reads, TypeOK
  <2> QED BY <1>1, <2>1, <2>2, <2>3 DEF Reads
<1>15. /\ Unread(e, p)' = u /\ rstream_karma'[p] = r /\ wout'[p].ack = q
       /\ Total(written'[p]) = t /\ Granted(written'[p], Len(delivered'[e])) = y
  BY <1>4, <1>5, <1>8, <1>9, <1>10, <1>14 DEF Unread
<1>16. stream_karma'[e] + Unread(e, p)' + rstream_karma'[p] + wout'[p].ack
          + (Total(written'[p]) - Granted(written'[p], Len(delivered'[e]))) = GlobalKarma - 1
  BY <1>12, <1>13, <1>15
<1>17. /\ Monotone(written[e])' /\ Len(delivered'[p]) <= Len(written'[e])
       /\ \A i \in 1 .. Len(delivered'[p]) : delivered'[p][i] = i
       /\ stream_pos'[e] - rstream_pos'[p] \in {Unread(e, p)', Unread(e, p)' - GlobalKarma}
       /\ \A n \in Len(delivered'[p]) + 1 .. Len(written'[e]) :
            stream'[e][Back(stream_pos'[e], Len(written'[e]) + 1 - n)] = n
  BY <1>8, <1>14, <1>15 DEF Stream, Monotone
<1> QED BY <1>12, <1>13, <1>16, <1>17 DEF Stream, Back, Total, Granted

\* What is left of the bytes on a connection after the first one is read.
LEMMA FollowsTail ==
  ASSUME NEW q \in Seq(Nat), NEW a \in Nat, Follows(q, a), q # <<>>
  PROVE  /\ Head(q) = a + 1 /\ Follows(Tail(q), a + 1) /\ Tail(q) \in Seq(Nat)
         /\ Len(q) \in Nat /\ Len(q) > 0 /\ Len(Tail(q)) = Len(q) - 1
<1>1. /\ Tail(q) \in Seq(Nat) /\ Len(q) \in Nat /\ Len(q) > 0
      /\ Len(Tail(q)) = Len(q) - 1 /\ Head(q) = q[1]
  OBVIOUS
<1>2. Head(q) = a + 1
  BY <1>1 DEF Follows
<1>3. ASSUME NEW i \in 1 .. Len(q) - 1 PROVE Tail(q)[i] = (a + 1) + i
  <2>1. i + 1 \in 1 .. Len(q) /\ a + (i + 1) = (a + 1) + i
    BY <1>1
  <2>2. Tail(q)[i] = q[i + 1]
    BY <1>1
  <2> QED BY <2>1, <2>2 DEF Follows
<1> QED BY <1>1, <1>2, <1>3 DEF Follows

\* The first byte on a connection is the first one the reader lacks.
LEMMA ReadsNext ==
  ASSUME TypeOK, NEW c \in Conn, NEW e \in End, NEW p \in End, Continues(c, p, e),
         net[c][SideOf(e)] # <<>>,
         net' = [net EXCEPT ![c][SideOf(e)] = Tail(@)],
         delivered' = [delivered EXCEPT ![e] = Append(@, Head(net[c][SideOf(e)]))],
         written' = written, stream_debt' = stream_debt
  PROVE  /\ Head(net[c][SideOf(e)]) = Len(delivered[e]) + 1
         /\ Len(delivered[e]) < Len(written[p])
         /\ net' \in [Conn -> [Side -> Seq(Nat)]]
         /\ delivered' \in [End -> Seq(Nat)]
         /\ Continues(c, p, e)'
         /\ Agrees(c, p, e) => Agrees(c, p, e)'
<1>1. PICK a \in Nat : a = Len(delivered[e])
  BY EndTypes
<1>2. PICK q \in Seq(Nat) : q = net[c][SideOf(e)]
  BY EndTypes
<1>3. Follows(q, a) /\ a + Len(q) <= Len(written[p])
  BY <1>1, <1>2 DEF Continues
<1>4. /\ Head(q) = a + 1 /\ Follows(Tail(q), a + 1) /\ Tail(q) \in Seq(Nat)
      /\ Len(q) \in Nat /\ Len(q) > 0 /\ Len(Tail(q)) = Len(q) - 1
  BY <1>2, <1>3, FollowsTail
<1>5. /\ net' \in [Conn -> [Side -> Seq(Nat)]] /\ net'[c][SideOf(e)] = Tail(q)
  <2>1. net \in [Conn -> [Side -> Seq(Nat)]] /\ SideOf(e) \in Side
    BY DEF TypeOK, SideOf, Side
  <2> QED BY <1>2, <1>4, <2>1
<1>6. /\ delivered' \in [End -> Seq(Nat)] /\ Len(delivered'[e]) = a + 1
  <2>1. delivered \in [End -> Seq(Nat)]
    BY DEF TypeOK
  <2>2. /\ Append(delivered[e], a + 1) \in Seq(Nat)
        /\ Len(Append(delivered[e], a + 1)) = a + 1
    BY <1>1, <2>1
  <2>3. delivered' = [delivered EXCEPT ![e] = Append(delivered[e], a + 1)]
    BY <1>2, <1>4
  <2> QED BY <2>1, <2>2, <2>3
<1>7. PICK w \in Nat : w = Len(written[p])
  BY EndTypes
<1>8. a < w /\ (a + 1) + Len(Tail(q)) = a + Len(q)
  BY <1>3, <1>4, <1>7
<1>9. Continues(c, p, e)'
  BY <1>3, <1>4, <1>5, <1>6, <1>8 DEF Continues
<1>10. Agrees(c, p, e) => Agrees(c, p, e)'
  BY <1>1, <1>2, <1>5, <1>6, <1>8 DEF Agrees
<1> QED BY <1>1, <1>2, <1>4, <1>5, <1>6, <1>7, <1>8, <1>9, <1>10

\* Reading a byte (mainr, read_ack) keeps IInv.
LEMMA ReadByteInv == ASSUME IInv, NEW e \in End, ReadByte(e) PROVE IInv'
<1> USE DEF fdVars, packetVars
<1>1. PICK d \in Ctx : /\ handshake[d] = "up"
                       /\ e = Mux => owner[mainfd[Mux]] = d
                       /\ e # Mux => e = d /\ owner[mainfd[d]] = d
  BY LinkedSession DEF ReadByte
<1>2. /\ Mux \in End /\ d \in End /\ d # Mux /\ d # None /\ TypeOK /\ \A x \in Ctx : x \in End
      /\ SideOf(d) = "demux" /\ SideOf(Mux) = "mux"
      /\ "mux" \in Side /\ "demux" \in Side /\ "mux" # "demux"
  BY DEF IInv, End, Ctx, Mux, None, SideOf, Side
<1>3. PICK p \in End : /\ p = (IF e = Mux THEN d ELSE Mux) /\ p = Source(e) /\ e # p
                       /\ Stream(p, e) /\ Stream(e, p)
  <2>1. Stream(Mux, d) /\ Stream(d, Mux)
    BY <1>1 DEF IInv, Sessions
  <2> QED BY <1>1, <1>2, <2>1 DEF Source
<1>4. PICK c \in Conn : c = mainfd[e] /\ owner[c] = d
  BY <1>1, <1>2 DEF ReadByte, Linked, TypeOK
<1>5. PICK s \in Side : s = SideOf(e)
  BY DEF SideOf, Side
<1>6. /\ Linked(e) /\ net[c][s] # <<>>
      /\ net' = [net EXCEPT ![c][s] = Tail(@)]
      /\ delivered' = [delivered EXCEPT ![e] = Append(@, Head(net[c][s]))]
      /\ stream_karma' = [stream_karma EXCEPT ![e] = @ + Credit(p, Head(net[c][s]))]
      /\ rstream_pos' = [rstream_pos EXCEPT ![e] = Forward(@)]
      /\ rstream_karma' = [rstream_karma EXCEPT ![e] = @ + 1]
      /\ UNCHANGED <<nconn, up, key, hdr, owner, mainfd, handshake, stream_pos, stream, written>>
      /\ UNCHANGED <<stream_debt, write_data, karma_head, wout, stalled>>
  BY <1>3, <1>4, <1>5 DEF ReadByte
<1>7. \A x \in Conn : OnWire(x, d)
  BY <1>1 DEF IInv, Sessions
<1>8. e = Mux => c = nconn /\ handshake[Mux] = "up"
  BY <1>4, <1>6 DEF IInv, FdShape, Linked
<1>9. Continues(c, p, e)
  BY <1>1, <1>3, <1>4, <1>7, <1>8 DEF OnWire
<1>10. /\ Head(net[c][s]) = Len(delivered[e]) + 1 /\ Len(delivered[e]) < Len(written[p])
       /\ net' \in [Conn -> [Side -> Seq(Nat)]] /\ delivered' \in [End -> Seq(Nat)]
       /\ Continues(c, p, e)'
       /\ Agrees(c, p, e) => Agrees(c, p, e)'
  BY <1>2, <1>5, <1>6, <1>9, ReadsNext
<1>11. Reads(e, p)
  <2>1. PICK a \in Nat : a = Len(delivered[e])
    BY <1>2, EndTypes
  <2>2. Credit(p, a + 1) = Granted(written[p], a + 1) - Granted(written[p], a)
    <3>1. a + 1 # 0 /\ (a + 1) - 1 = a
      BY <2>1
    <3> QED BY <3>1 DEF Credit, Granted
  <2> QED BY <1>6, <1>10, <2>1, <2>2 DEF Reads
<1>12. /\ Stream(p, e)' /\ rstream_karma'[e] \in 0 .. GlobalKarma - 1
       /\ Stream(e, p)' /\ stream_karma'[e] \in 0 .. GlobalKarma - 1
  BY <1>2, <1>3, <1>10, <1>11, ReadStream, ReaderWrites
<1>13. \A x \in End : x # e => /\ delivered'[x] = delivered[x]
                               /\ stream_karma'[x] = stream_karma[x]
                               /\ rstream_pos'[x] = rstream_pos[x]
                               /\ rstream_karma'[x] = rstream_karma[x]
  BY <1>2, <1>6 DEF TypeOK
<1>14. /\ \A x \in Conn : x # c => net'[x] = net[x]
       /\ \A x \in Side : x # s => net'[c][x] = net[c][x]
  BY <1>2, <1>6 DEF TypeOK
<1>15. TypeOK'
  <2>1. stream_karma' \in [End -> 0 .. GlobalKarma - 1]
    BY <1>2, <1>6, <1>12 DEF TypeOK
  <2>2. rstream_karma' \in [End -> 0 .. GlobalKarma - 1]
    BY <1>2, <1>6, <1>12 DEF TypeOK
  <2>3. rstream_pos' \in [End -> 0 .. GlobalKarma - 1]
    <3>1. rstream_pos \in [End -> 0 .. GlobalKarma - 1]
      BY <1>2 DEF TypeOK
    <3>2. PICK f \in 0 .. GlobalKarma - 1 : f = Forward(rstream_pos[e])
      BY <3>1, ForwardBack
    <3> QED BY <1>6, <3>1, <3>2
  <2>4. write_ctl' \in [End -> BOOLEAN]
    <3>1. /\ write_ctl \in [End -> BOOLEAN]
          /\ write_ctl' = [write_ctl EXCEPT ![e] = write_ctl[e] \/ AckDue(e)]
      BY <1>2 DEF TypeOK, ReadByte
    <3>2. (write_ctl[e] \/ AckDue(e)) \in BOOLEAN
      OBVIOUS
    <3> QED BY <3>1, <3>2, Zenon
  <2> QED BY <1>2, <1>6, <1>10, <2>1, <2>2, <2>3, <2>4 DEF TypeOK
<1>16. FdShape'
  BY <1>6 DEF IInv, FdShape
<1>17. ConnShape'
  <2>1. \A x \in Conn : owner[x] = None => net'[x] = net[x]
    BY <1>2, <1>4, <1>14
  <2>2. \A x \in Conn : Fresh(x) => Fresh(x)'
    BY <1>6, <2>1 DEF Fresh
  <2>3. handshake[Mux] = "pos" => rstream_pos'[Mux] = rstream_pos[Mux]
    BY <1>2, <1>8, <1>13
  <2> QED BY <1>6, <2>1, <2>2, <2>3 DEF IInv, ConnShape
<1>18. Dormant' /\ Packets'
  <2>1. \A x \in Ctx : handshake[x] # "up" => x # e
    BY <1>6 DEF Linked
  <2>2. \A x \in End : x # e /\ Untouched(x) => Untouched(x)'
    BY <1>6, <1>13 DEF Untouched
  <2>3. \A x \in Ctx : handshake[x] # "up" => Untouched(x)'
    BY <1>2, <2>1, <2>2 DEF IInv, Dormant
  <2> QED BY <1>1, <1>6, <2>3 DEF IInv, Dormant, Packets
<1>19. \A x \in Conn : OnWire(x, d)'
  <2>1. CASE e = Mux
    <3>1. ASSUME NEW x \in Conn PROVE Continues(x, Mux, d) => Continues(x, Mux, d)'
      <4>1. net'[x]["demux"] = net[x]["demux"]
        BY <1>2, <1>5, <1>14, <2>1
      <4> QED BY <1>2, <1>6, <1>13, <2>1, <4>1, ContinuesFrame
    <3>2. ASSUME NEW x \in Conn PROVE Agrees(x, Mux, d) => Agrees(x, Mux, d)'
      <4>1. net'[x]["demux"] = net[x]["demux"]
        BY <1>2, <1>5, <1>14, <2>1
      <4>2. delivered'[d] = delivered[d] /\ net'[x][SideOf(d)] = net[x][SideOf(d)]
        BY <1>2, <1>13, <2>1, <4>1
      <4>3. written' = written /\ stream_debt' = stream_debt
        BY <1>6
      <4> QED BY <1>2, <4>2, <4>3, AgreesFrame
    <3>3. Continues(c, d, Mux)' /\ (Agrees(c, d, Mux) => Agrees(c, d, Mux)')
      BY <1>3, <1>10, <2>1
    <3> QED BY <1>6, <1>7, <1>8, <2>1, <3>1, <3>2, <3>3 DEF OnWire
  <2>2. CASE e # Mux
    <3>0. e = d /\ p = Mux /\ mainfd[d] = c
      BY <1>1, <1>3, <1>4, <2>2
    <3>1. ASSUME NEW x \in Conn
          PROVE  /\ Continues(x, d, Mux) => Continues(x, d, Mux)'
                 /\ Agrees(x, d, Mux) => Agrees(x, d, Mux)'
      <4>1. net'[x]["mux"] = net[x]["mux"] /\ delivered'[Mux] = delivered[Mux]
        BY <1>2, <1>5, <1>13, <1>14, <3>0
      <4>2. Continues(x, d, Mux) => Continues(x, d, Mux)'
        BY <1>2, <1>6, <4>1, ContinuesFrame
      <4>3. Agrees(x, d, Mux) => Agrees(x, d, Mux)'
        <5>1. written' = written /\ stream_debt' = stream_debt
          BY <1>6
        <5>2. net'[x][SideOf(Mux)] = net[x][SideOf(Mux)]
          BY <1>2, <4>1
        <5> QED BY <1>2, <4>1, <5>1, <5>2, AgreesFrame
      <4> QED BY <4>2, <4>3
    <3>2. Continues(c, Mux, d)' /\ (Agrees(c, Mux, d) => Agrees(c, Mux, d)')
      BY <1>10, <3>0
    <3>3. ~(c = nconn /\ handshake[Mux] = "pos")
      BY <1>2, <1>5, <1>6, <1>7, <3>0 DEF OnWire
    <3> QED BY <1>6, <1>7, <3>0, <3>1, <3>2, <3>3 DEF OnWire
  <2> QED BY <2>1, <2>2
<1>20. Sessions'
  <2>1. Stream(Mux, d)' /\ Stream(d, Mux)'
    BY <1>1, <1>3, <1>12
  <2>2. \A x \in Ctx : handshake[x] = "up" => x = d
    BY <1>1 DEF IInv, Sessions
  <2> QED BY <1>6, <1>19, <2>1, <2>2 DEF Sessions
<1> QED BY <1>15, <1>16, <1>17, <1>18, <1>20 DEF IInv

-----------------------------------------------------------------------------
\* Without the optional faults every step preserves the invariant.
LEMMA NextInv ==
  ASSUME Faults = {}, IInv, [Next]_vars
  PROVE  IInv'
<1>1. CASE Handshake
  <2>1. CASE MuxConnected
    BY <2>1, MuxConnectedInv
  <2>2. CASE \E c \in Conn : Accept(c)
    BY <2>2, AcceptInv
  <2>3. CASE \E c \in Conn, whole \in BOOLEAN : DemuxReadsKey(c, whole)
    <3>1. PICK c \in Conn, whole \in BOOLEAN : DemuxReadsKey(c, whole)
      BY <2>3
    <3>2. whole = TRUE
      BY <3>1 DEF DemuxReadsKey
    <3> QED BY <3>1, <3>2, DemuxReadsKeyInv
  <2>4. CASE \E e \in End : ReadPosition(e)
    BY <2>4, ReadPositionInv
  <2> QED BY <1>1, <2>1, <2>2, <2>3, <2>4 DEF Handshake
<1>2. CASE Disconnect
  <2>1. \A d \in Ctx : ~Expire(d)
    BY DEF Expire
  <2> QED BY <1>2, <2>1, DisconnectInv DEF Disconnect
<1>3. CASE Transfer
  <2>1. PICK e \in End :
          \/ ResendByte(e) \/ WriteByte(e) \/ ReadByte(e)
          \/ GrabControl(e) \/ \E n \in PacketSizes \cup {0} : GrabData(e, n)
          \/ Stall(e) \/ Resume(e)
          \/ ClientHasData(e) \/ ClientHasKarma(e)
    BY <1>3 DEF Transfer
  <2>2. CASE ResendByte(e) \/ WriteByte(e) \/ ReadByte(e)
    BY <2>2, ResendByteInv, WriteByteInv, ReadByteInv
  <2>3. CASE GrabControl(e) \/ \E n \in PacketSizes \cup {0} : GrabData(e, n)
    BY <2>3, GrabControlInv, GrabDataInv
  <2>4. CASE Stall(e) \/ Resume(e) \/ ClientHasData(e) \/ ClientHasKarma(e)
    BY <2>4, QuietInv
  <2> QED BY <2>1, <2>2, <2>3, <2>4
<1>4. CASE UNCHANGED vars
  <2> USE DEF vars, connVars, fdVars, sendVars, recvVars, queueVars, packetVars
  <2>1. TypeOK'
    BY <1>4 DEF IInv, TypeOK
  <2> QED BY <1>4, <2>1, QuietFrame DEF IInv
<1> QED BY <1>1, <1>2, <1>3, <1>4 DEF Next

\* The inductive invariant holds in every state that tcpmux's link reaches
\* when headers arrive whole and contexts do not expire.
THEOREM Inductive == ASSUME Faults = {} PROVE Spec => []IInv
<1>1. IInv /\ [Next]_vars => IInv'
  BY NextInv
<1> QED BY InitInv, <1>1, PTL DEF Spec

\* Types of the link's state (TypeOK of MuxLink).
THEOREM Typed == ASSUME Faults = {} PROVE Spec => []TypeOK
<1>1. IInv => TypeOK
  BY DEF IInv
<1> QED BY Inductive, <1>1, PTL

LEMMA SmallestNat == ASSUME NEW S \in SUBSET Nat, S # {} PROVE Oldest(S) \in S
<1> DEFINE R == {ss \in Nat \X Nat : ss[1] < ss[2]}
<1>1. IsWellFoundedOn(R, Nat)
  BY NatLessThanWellFounded DEF OpToRel
<1>2. \A x, y \in Nat : <<y, x>> \notin R => x <= y
  OBVIOUS
<1> HIDE DEF R
<1>3. PICK d \in S : \A x \in S : ~(<<x, d>> \in R)
  BY <1>1, WFMin
<1>4. \A x \in S : d <= x
  BY <1>2, <1>3
<1> QED BY <1>4 DEF Oldest

\* While every handshake is read whole, no context waits for a position, so the
\* search of context_list finds the one there is, if it has not expired.
NoneWaits ==
  /\ handshake \in [End -> {"none", "connecting", "key", "pos", "up", "burned"}]
  /\ \A d \in Ctx : handshake[d] # "pos"
  /\ OneContext

\* A step that gives no context of the demux a session.
LEMMA NoNewSession ==
  ASSUME NoneWaits,
         handshake' \in [End -> {"none", "connecting", "key", "pos", "up", "burned"}],
         \A d \in Ctx : handshake'[d] \in {handshake[d], "none", "key", "burned"}
  PROVE  NoneWaits'
BY DEF NoneWaits, OneContext, Session

\* The connection goes to the context that has the session, or starts one.
LEMMA WholeKeyRead ==
  ASSUME NoneWaits, NEW c \in Conn, DemuxReadsKey(c, TRUE)
  PROVE  NoneWaits'
<1> DEFINE d == ContextFor(c)
<1>1. Matches = Session /\ Matches \subseteq Ctx
  BY DEF NoneWaits, Matches, Session
<1>2. /\ d \in Ctx
      /\ Session # {} => d \in Session
  <2>1. Ctx = Conn /\ Ctx \subseteq Nat
    BY DEF Ctx, Conn
  <2>2. CASE Matches = {}
    BY <1>1, <2>1, <2>2 DEF ContextFor
  <2>3. CASE Matches # {}
    <3>1. Oldest(Matches) \in Matches
      BY <1>1, <2>1, <2>3, SmallestNat
    <3> QED BY <1>1, <2>3, <3>1 DEF ContextFor
  <2> QED BY <2>2, <2>3
<1>3. handshake' = [handshake EXCEPT ![c] = "burned", ![d] = "up"]
  BY DEF DemuxReadsKey
<1> HIDE DEF d
<1>4. c \in Ctx /\ \A e \in Ctx : e \in End
  BY DEF Ctx, Conn, End
<1>5. \A e \in Ctx : handshake'[e] = IF e = d THEN "up" ELSE IF e = c THEN "burned" ELSE handshake[e]
  BY <1>3, <1>4 DEF NoneWaits
<1>6. \A e \in Ctx : e \in Session' => e = d \/ e \in Session
  BY <1>5 DEF Session
<1>7. OneContext'
  BY <1>2, <1>6 DEF NoneWaits, OneContext, Session
<1>8. \A e \in Ctx : handshake'[e] # "pos"
  BY <1>5 DEF NoneWaits
<1>9. handshake' \in [End -> {"none", "connecting", "key", "pos", "up", "burned"}]
  BY <1>3 DEF NoneWaits
<1> QED BY <1>7, <1>8, <1>9 DEF NoneWaits

\* Unless a handshake is interrupted between the key and the position, the demux
\* never has two contexts for one mux, even if contexts expire and the mux comes
\* back (the search of context_list in mainr, MUX_TIMEOUT).  The condition is
\* needed: OneContext is violated by Faults = {"split"}.
THEOREM OneContextForMux == ASSUME "split" \notin Faults PROVE Spec => []OneContext
<1>1. Init => NoneWaits
  BY DEF Init, NoneWaits, OneContext, Session, Ctx, End, Mux
<1>2. NoneWaits /\ [Next]_vars => NoneWaits'
  <2> SUFFICES ASSUME NoneWaits, [Next]_vars PROVE NoneWaits'
    OBVIOUS
  <2>1. handshake \in [End -> {"none", "connecting", "key", "pos", "up", "burned"}]
        /\ Mux \in End /\ Mux \notin Ctx /\ Ctx = Conn /\ \A d \in Ctx : d \in End
    BY DEF NoneWaits, Ctx, Conn, End, Mux
  <2>2. ASSUME handshake' = handshake PROVE NoneWaits'
    BY <2>1, <2>2, NoNewSession
  <2>3. ASSUME Redial PROVE NoneWaits'
    <3>1. handshake' = [handshake EXCEPT ![Mux] = "connecting"]
      BY <2>3 DEF Redial
    <3> QED BY <2>1, <3>1, NoNewSession
  <2>4. CASE MuxConnected
    <3>1. handshake' = [handshake EXCEPT ![Mux] = "pos"]
      BY <2>4 DEF MuxConnected
    <3> QED BY <2>1, <3>1, NoNewSession
  <2>5. ASSUME NEW c \in Conn, Accept(c) PROVE NoneWaits'
    <3>1. handshake' = [handshake EXCEPT ![c] = "key"]
      BY <2>5 DEF Accept
    <3> QED BY <2>1, <3>1, NoNewSession
  <2>6. ASSUME NEW c \in Conn, NEW whole \in BOOLEAN, DemuxReadsKey(c, whole) PROVE NoneWaits'
    <3>1. whole = TRUE
      BY <2>6 DEF DemuxReadsKey
    <3> QED BY <2>6, <3>1, WholeKeyRead
  <2>7. ASSUME NEW e \in End, ReadPosition(e) PROVE NoneWaits'
    <3>1. handshake[e] = "pos" /\ handshake' = [handshake EXCEPT ![e] = "up"]
      BY <2>7 DEF ReadPosition
    <3>2. e \notin Ctx
      BY <3>1 DEF NoneWaits
    <3> QED BY <2>1, <3>1, <3>2, NoNewSession
  <2>8. ASSUME NEW d \in Ctx, Expire(d) PROVE NoneWaits'
    <3>1. handshake' = [handshake EXCEPT ![d] = "burned"]
      BY <2>8 DEF Expire
    <3> QED BY <2>1, <3>1, NoNewSession
  <2>9. CASE MuxDrops
    BY <2>3, <2>9 DEF MuxDrops
  <2>10. ASSUME NEW e \in End, WriteFails(e) PROVE NoneWaits'
    BY <2>2, <2>3, <2>10 DEF WriteFails, DisconnectMain, Hangup
  <2>11. CASE DemuxDrops
    BY <2>2, <2>11 DEF DemuxDrops
  <2>12. ASSUME NEW d \in Ctx, DemuxReadsEnd(d) PROVE NoneWaits'
    BY <2>2, <2>12 DEF DemuxReadsEnd, Hangup
  <2>13. ASSUME NEW c \in Conn, Break(c) PROVE NoneWaits'
    BY <2>2, <2>13 DEF Break, fdVars
  <2>14. CASE Handshake
    BY <2>4, <2>5, <2>6, <2>7, <2>14 DEF Handshake
  <2>15. CASE Disconnect
    BY <2>8, <2>9, <2>10, <2>11, <2>12, <2>13, <2>15 DEF Disconnect
  <2>16. CASE Transfer
    <3>1. UNCHANGED fdVars
      BY ONLY <2>16 DEF Transfer, ResendByte, WriteByte, ReadByte, GrabControl, GrabData, Stall,
            Resume, ClientHasData, ClientHasKarma
    <3> QED BY <2>2, <3>1 DEF fdVars
  <2>17. CASE UNCHANGED vars
    BY <2>2, <2>17 DEF vars, fdVars
  <2> QED BY <2>14, <2>15, <2>16, <2>17 DEF Next
<1>3. NoneWaits => OneContext
  BY DEF NoneWaits
<1> QED BY <1>1, <1>2, <1>3, PTL DEF Spec

\* An end and its peer are joined by the streams of the one session.
LEMMA PairedStreams ==
  ASSUME IInv, NEW e \in End, NEW p \in End, Paired(e, p)
  PROVE  Stream(e, p) /\ Stream(p, e)
BY DEF IInv, Paired, Session, FdShape, Sessions

\* Whatever happens to the connections, no byte is lost, read twice or read out
\* of order (stream_debt, mainr and mainw).
THEOREM NothingLost == ASSUME Faults = {} PROVE Spec => []ReadsPrefix
<1>1. IInv => ReadsPrefix
  BY PairedStreams DEF ReadsPrefix, Stream
<1> QED BY Inductive, <1>1, PTL

\* Global karma is neither lost nor created (write_mainfd, write_ack, read_ack).
THEOREM KarmaConserved == ASSUME Faults = {} PROVE Spec => []CreditConserved
<1>1. IInv => CreditConserved
  BY PairedStreams DEF CreditConserved, Stream, Unread
<1> QED BY Inductive, <1>1, PTL

\* What may have to be sent again is still in the circular buffer (mainw).
THEOREM DebtAvailable == ASSUME Faults = {} PROVE Spec => []DebtStillBuffered
<1>1. IInv => DebtStillBuffered
  BY PairedStreams DEF DebtStillBuffered, Stream
<1> QED BY Inductive, <1>1, PTL

\* The two sides agree after a handshake (mainr, handshake_st).
THEOREM SidesAgree == ASSUME Faults = {} PROVE Spec => []HandshakeAgrees
<1>1. ASSUME IInv, NEW e \in End, NEW p \in End, Paired(e, p), Linked(e), Linked(p),
             NEW c \in Conn, c = mainfd[e], c = mainfd[p], up[c]
      PROVE  Agrees(c, e, p)
  <2>1. PICK d \in Ctx : /\ d = (IF e = Mux THEN p ELSE e) /\ handshake[d] = "up" /\ mainfd[d] = c
                          /\ p = (IF e = Mux THEN d ELSE Mux) /\ mainfd[Mux] = c
    BY <1>1 DEF Paired, Session, Ctx, Mux, IInv, FdShape
  <2>2. owner[c] = d
    BY <1>1, <2>1 DEF IInv, FdShape, None, Conn
  <2> QED BY <1>1, <2>1, <2>2, UpAgrees
<1>2. IInv => HandshakeAgrees
  <2>1. \A e \in End : mainfd[e] = None \/ mainfd[e] \in Conn \/ ~IInv
    BY DEF IInv, TypeOK
  <2> QED BY <1>1, <2>1 DEF HandshakeAgrees, Linked, Agrees
<1> QED BY Inductive, <1>2, PTL

-----------------------------------------------------------------------------
\* The assertion of write_ack needs nothing of the connections.
AckInv ==
  /\ write_ctl \in [End -> BOOLEAN] /\ karma_head \in [End -> BOOLEAN]
  /\ rstream_karma \in [End -> Nat]
  /\ AckQueuedExactly

LEMMA AckStep == ASSUME AckInv, [Next]_vars PROVE AckInv'
<1> USE ConstantsOK DEF AckInv, AckQueuedExactly
<1>1. ASSUME NEW e \in End, GrabControl(e) PROVE AckInv'
  <2>1. PICK more \in BOOLEAN : /\ karma_head' = [karma_head EXCEPT ![e] = more]
                                /\ write_ctl' = [write_ctl EXCEPT ![e] = more]
    BY <1>1 DEF GrabControl
  <2> QED BY <1>1, <2>1 DEF GrabControl
<1>2. ASSUME NEW e \in End, ReadByte(e) PROVE AckInv'
  <2>1. /\ karma_head' = karma_head
        /\ rstream_karma' = [rstream_karma EXCEPT ![e] = @ + 1]
        /\ write_ctl' = [write_ctl EXCEPT ![e] = @ \/ AckDue(e)]
    BY <1>2 DEF ReadByte
  <2>2. CASE write_ctl[e] \/ AckDue(e)
    <3>1. write_ctl' = [write_ctl EXCEPT ![e] = TRUE]
      BY <2>1, <2>2
    <3>2. karma_head[e] \/ rstream_karma[e] + 1 >= AckThreshold
      BY <2>2 DEF AckDue
    <3> QED BY <2>1, <3>1, <3>2
  <2>3. CASE ~(write_ctl[e] \/ AckDue(e))
    <3>1. write_ctl' = [write_ctl EXCEPT ![e] = FALSE]
      BY <2>1, <2>3
    <3>2. ~(karma_head[e] \/ rstream_karma[e] + 1 >= AckThreshold)
      BY <2>3 DEF AckDue
    <3> QED BY <2>1, <3>1, <3>2
  <2> QED BY <2>2, <2>3
<1>3. ASSUME NEW e \in End, ClientHasKarma(e) PROVE AckInv'
  <2>1. /\ karma_head' = [karma_head EXCEPT ![e] = TRUE] /\ rstream_karma' = rstream_karma
        /\ write_ctl' = [write_ctl EXCEPT ![e] = @ \/ rstream_karma[e] < AckThreshold]
    BY <1>3 DEF ClientHasKarma, recvVars
  <2>2. write_ctl[e] \/ rstream_karma[e] < AckThreshold
    OBVIOUS
  <2>3. write_ctl' = [write_ctl EXCEPT ![e] = TRUE]
    BY <2>1, <2>2
  <2> QED BY <2>1, <2>3
<1>4. UNCHANGED <<write_ctl, karma_head, rstream_karma>> => AckInv'
  OBVIOUS
<1>5. CASE Handshake
  <2>1. UNCHANGED <<write_ctl, karma_head, rstream_karma>>
    BY <1>5 DEF Handshake, MuxConnected, Accept, DemuxReadsKey, ReadPosition, recvVars, queueVars
  <2> QED BY <1>4, <2>1
<1>6. CASE Disconnect
  <2>1. UNCHANGED <<write_ctl, karma_head, rstream_karma>>
    BY <1>6 DEF Disconnect, MuxDrops, DemuxDrops, DemuxReadsEnd, Expire, Break, WriteFails,
                recvVars, queueVars
  <2> QED BY <1>4, <2>1
<1>7. CASE Transfer
  <2>1. PICK e \in End :
          \/ ResendByte(e) \/ WriteByte(e) \/ ReadByte(e)
          \/ GrabControl(e) \/ \E n \in PacketSizes \cup {0} : GrabData(e, n)
          \/ Stall(e) \/ Resume(e)
          \/ ClientHasData(e) \/ ClientHasKarma(e)
    BY <1>7 DEF Transfer
  <2>2. CASE GrabControl(e) \/ ReadByte(e) \/ ClientHasKarma(e)
    BY <1>1, <1>2, <1>3, <2>2
  <2>3. CASE \/ ResendByte(e) \/ WriteByte(e) \/ Stall(e) \/ Resume(e) \/ ClientHasData(e)
             \/ \E n \in PacketSizes \cup {0} : GrabData(e, n)
    <3>1. UNCHANGED <<write_ctl, karma_head, rstream_karma>>
      BY <2>3 DEF ResendByte, WriteByte, Stall, Resume, ClientHasData, GrabData, recvVars, queueVars
    <3> QED BY <1>4, <3>1
  <2> QED BY <2>1, <2>2, <2>3
<1>8. CASE UNCHANGED vars
  BY <1>4, <1>8 DEF vars, recvVars, queueVars
<1> QED BY <1>5, <1>6, <1>7, <1>8 DEF Next

\* The control client is queued exactly when an acknowledgement is due, under
\* all faults (the assertions of write_ack).
THEOREM AckQueued == Spec => []AckQueuedExactly
<1>1. Init => AckInv
  BY ConstantsOK DEF Init, AckInv, AckQueuedExactly
<1>2. AckInv => AckQueuedExactly
  BY DEF AckInv
<1> QED BY <1>1, <1>2, AckStep, PTL DEF Spec

\* A side without karma gets some back once its peer has read everything: what is
\* missing has been read and not acknowledged, so the acknowledgement is due
\* (ReadByte queues the control client at ACK_THRESHOLD), or in a packet.
LEMMA KarmaDue ==
  ASSUME IInv, AckInv, NEW e \in End, NEW p \in End, Paired(e, p),
         stream_karma[e] = 0, Len(delivered[p]) = Len(written[e])
  PROVE  \/ write_ctl[p] \/ wout[p].ack > 0
         \/ Total(written[p]) > Granted(written[p], Len(delivered[e]))
<1> DEFINE total == Total(written[p])
           seen == Granted(written[p], Len(delivered[e]))
<1>1. Stream(e, p) /\ Stream(p, e)
  BY PairedStreams
<1>2. /\ rstream_karma[p] \in Nat /\ wout[p].ack \in Nat /\ write_ctl[p] \in BOOLEAN
      /\ write_ctl[p] <=> karma_head[p] \/ rstream_karma[p] >= AckThreshold
  BY DEF AckInv, AckQueuedExactly, IInv, TypeOK
<1>3. total \in Nat /\ seen \in Nat /\ seen <= total
  <2>1. written[p] \in Seq(Nat) /\ delivered[e] \in Seq(Nat)
    BY DEF IInv, TypeOK
  <2>2. Len(delivered[e]) <= Len(written[p]) /\ Monotone(written[p])
    BY <1>1 DEF Stream
  <2>3. Len(delivered[e]) \in 0 .. Len(written[p]) /\ Len(written[p]) \in 0 .. Len(written[p])
    BY <2>1, <2>2
  <2>4. seen <= total
    BY <2>2, <2>3 DEF Monotone, Total
  <2>5. \A n \in 0 .. Len(written[p]) : Granted(written[p], n) \in Nat
    BY <2>1 DEF Granted
  <2> QED BY <2>3, <2>4, <2>5 DEF Total
<1>4. rstream_karma[p] + wout[p].ack + (total - seen) = GlobalKarma - 1
  <2>1. Unread(e, p) = 0
    BY DEF Unread, IInv, TypeOK
  <2>2. stream_karma[e] + Unread(e, p) + rstream_karma[p] + wout[p].ack + (total - seen)
          = GlobalKarma - 1
    BY <1>1 DEF Stream
  <2> QED BY <1>2, <1>3, <2>1, <2>2
<1> HIDE DEF total, seen
<1>5. total > seen \/ wout[p].ack > 0 \/ rstream_karma[p] >= AckThreshold
  BY <1>2, <1>3, <1>4, ConstantsOK
<1> QED BY <1>2, <1>5 DEF total, seen

\* When handshakes are not interrupted and contexts do not expire: when all that a
\* side without global karma wrote has been read, its peer has an acknowledgement
\* queued, in the packet it writes, or on its way (write_mainfd, mainr, write_ack).
\* It says nothing of the karma the peer needs to send it.
THEOREM AcknowledgementDue == ASSUME Faults = {} PROVE Spec => []KarmaComesBack
<1>1. Init => AckInv
  BY ConstantsOK DEF Init, AckInv, AckQueuedExactly
<1>2. IInv /\ AckInv => KarmaComesBack
  BY KarmaDue DEF KarmaComesBack
<1> QED BY <1>1, <1>2, AckStep, Inductive, PTL DEF Spec

-----------------------------------------------------------------------------
\* Whose a connection is needs nothing of the streams, and holds under all faults.
\* A connection that nobody has dialled, or that is still being dialled, is
\* nobody's; its preliminary context has it until the key is read, and then the
\* context it was given to.
OwnerInv ==
  /\ nconn \in Conn /\ mainfd \in [End -> {None} \cup Conn]
  /\ key \in [Conn -> BOOLEAN] /\ owner \in [Conn -> End]
  /\ mainfd[Mux] = nconn
  /\ \A c \in Conn :
       /\ key[c] => owner[c] = None
       /\ c > nconn \/ (c = nconn /\ handshake[Mux] = "connecting") => owner[c] = None /\ ~key[c]
  /\ handshake \in [End -> {"none", "connecting", "key", "pos", "up", "burned"}]
  /\ \A d \in Ctx : mainfd[d] # None => owner[mainfd[d]] = d \/ (owner[mainfd[d]] = None /\ mainfd[d] = d)

LEMMA DroppedOwner ==
  ASSUME OwnerInv, UNCHANGED <<nconn, key, owner>>,
         mainfd' \in [End -> {None} \cup Conn], mainfd'[Mux] = mainfd[Mux],
         handshake' \in [End -> {"none", "connecting", "key", "pos", "up", "burned"}],
         handshake'[Mux] = "connecting" => handshake[Mux] = "connecting",
         \A d \in Ctx : mainfd'[d] \in {None, mainfd[d]}
  PROVE  OwnerInv'
BY DEF OwnerInv

LEMMA ConnFacts ==
  /\ Conn \subseteq Nat /\ Ctx = Conn /\ Conn \subseteq End /\ Mux \in End /\ Mux \notin Ctx
  /\ None \notin Conn /\ \A e \in End : e = Mux \/ e \in Ctx
BY ConstantsOK DEF Conn, Ctx, End, Mux, None

LEMMA RedialOwner == ASSUME OwnerInv, Redial PROVE OwnerInv'
<1>1. /\ nconn + 1 \in Conn /\ nconn' = nconn + 1 /\ nconn \in Nat
      /\ mainfd' = [mainfd EXCEPT ![Mux] = nconn + 1]
      /\ handshake' = [handshake EXCEPT ![Mux] = "connecting"]
      /\ UNCHANGED <<key, owner>>
  BY ConstantsOK DEF Redial, OwnerInv, Conn
<1>2. \A c \in Conn : c >= nconn + 1 => c > nconn
  BY <1>1, ConnFacts
<1> QED BY <1>1, <1>2, ConnFacts DEF OwnerInv

LEMMA HangupOwner == ASSUME OwnerInv, NEW d \in Ctx, Hangup(d) PROVE OwnerInv'
<1>1. mainfd' = [mainfd EXCEPT ![d] = None] /\ UNCHANGED <<nconn, key, owner, handshake>>
  BY DEF Hangup
<1> QED BY <1>1, ConnFacts, DroppedOwner DEF OwnerInv

LEMMA KeyReadOwner ==
  ASSUME OwnerInv, NEW c \in Conn, NEW whole \in BOOLEAN, DemuxReadsKey(c, whole)
  PROVE  OwnerInv'
<1> DEFINE d == ContextFor(c)
<1>1. d \in Ctx
  <2>1. Matches \subseteq Ctx /\ Ctx \subseteq Nat
    BY ConnFacts DEF Matches
  <2>2. Matches # {} => Oldest(Matches) \in Matches
    BY <2>1, SmallestNat
  <2> QED BY <2>1, <2>2, ConnFacts DEF ContextFor
<1>2. /\ mainfd[c] = c /\ key[c] /\ nconn' = nconn
      /\ key' = [key EXCEPT ![c] = FALSE] /\ owner' = [owner EXCEPT ![c] = d]
      /\ mainfd' = [mainfd EXCEPT ![c] = None, ![d] = c]
      /\ handshake' = [handshake EXCEPT ![c] = "burned", ![d] = IF whole THEN "up" ELSE "pos"]
  BY DEF DemuxReadsKey, HandedOver
<1> HIDE DEF d
<1>3. /\ mainfd' \in [End -> {None} \cup Conn] /\ key' \in [Conn -> BOOLEAN]
      /\ owner' \in [Conn -> End] /\ mainfd'[Mux] = nconn'
      /\ handshake' \in [End -> {"none", "connecting", "key", "pos", "up", "burned"}]
      /\ handshake'[Mux] = handshake[Mux]
  BY <1>1, <1>2, ConnFacts DEF OwnerInv
<1>4. \A x \in Conn : x # c => key'[x] = key[x] /\ owner'[x] = owner[x]
  BY <1>2 DEF OwnerInv
<1>5. owner'[c] = d /\ ~key'[c] /\ owner[c] = None
  BY <1>2 DEF OwnerInv
<1>6. ~(c > nconn \/ (c = nconn /\ handshake[Mux] = "connecting"))
  BY <1>2 DEF OwnerInv
<1>7. ASSUME NEW x \in Ctx, mainfd'[x] # None
      PROVE  owner'[mainfd'[x]] = x \/ (owner'[mainfd'[x]] = None /\ mainfd'[x] = x)
  <2>1. CASE x = d
    <3>1. mainfd'[x] = c
      BY <1>1, <1>2, <2>1, ConnFacts DEF OwnerInv
    <3> QED BY <1>5, <2>1, <3>1
  <2>2. CASE x # d
    <3>1. x # c
      BY <1>1, <1>2, <1>7, <2>2, ConnFacts DEF OwnerInv
    <3>2. mainfd'[x] = mainfd[x]
      BY <1>1, <1>2, <2>2, <3>1, ConnFacts DEF OwnerInv
    <3>3. owner[mainfd[x]] = x \/ (owner[mainfd[x]] = None /\ mainfd[x] = x)
      BY <1>7, <3>2 DEF OwnerInv
    <3>4. mainfd[x] # c
      BY <1>5, <3>1, <3>3, ConnFacts
    <3>5. mainfd[x] \in Conn
      BY <1>7, <3>2, ConnFacts DEF OwnerInv
    <3> QED BY <1>4, <3>2, <3>3, <3>4, <3>5
  <2> QED BY <2>1, <2>2
<1>8. ASSUME NEW x \in Conn
      PROVE  /\ key'[x] => owner'[x] = None
             /\ x > nconn' \/ (x = nconn' /\ handshake'[Mux] = "connecting") =>
                  owner'[x] = None /\ ~key'[x]
  <2>1. CASE x = c
    BY <1>2, <1>3, <1>5, <1>6, <2>1
  <2>2. CASE x # c
    BY <1>2, <1>3, <1>4, <2>2 DEF OwnerInv
  <2> QED BY <2>1, <2>2
<1>9. nconn' \in Conn
  BY <1>2 DEF OwnerInv
<1>10. /\ \A x \in Conn :
            /\ key'[x] => owner'[x] = None
            /\ x > nconn' \/ (x = nconn' /\ handshake'[Mux] = "connecting") =>
                 owner'[x] = None /\ ~key'[x]
       /\ \A x \in Ctx : mainfd'[x] # None =>
            owner'[mainfd'[x]] = x \/ (owner'[mainfd'[x]] = None /\ mainfd'[x] = x)
  BY <1>7, <1>8
<1> QED BY <1>3, <1>9, <1>10 DEF OwnerInv

LEMMA HandshakeOwner == ASSUME OwnerInv, Handshake PROVE OwnerInv'
<1>1. CASE MuxConnected
  <2>1. /\ handshake[Mux] = "connecting" /\ handshake' = [handshake EXCEPT ![Mux] = "pos"]
        /\ key' = [key EXCEPT ![mainfd[Mux]] = TRUE] /\ UNCHANGED <<nconn, owner, mainfd>>
    BY <1>1 DEF MuxConnected
  <2>2. owner[nconn] = None /\ mainfd[Mux] = nconn /\ nconn \in Conn
    BY <2>1 DEF OwnerInv
  <2>3. \A c \in Conn : c > nconn => c # nconn
    BY <2>2, ConnFacts
  <2> QED BY <2>1, <2>2, <2>3, ConnFacts DEF OwnerInv
<1>2. ASSUME NEW c \in Conn, Accept(c) PROVE OwnerInv'
  <2>1. /\ key[c] /\ mainfd' = [mainfd EXCEPT ![c] = c]
        /\ handshake' = [handshake EXCEPT ![c] = "key"] /\ UNCHANGED <<nconn, key, owner>>
    BY <1>2 DEF Accept, connVars
  <2>2. owner[c] = None
    BY <2>1 DEF OwnerInv
  <2> QED BY <2>1, <2>2, ConnFacts DEF OwnerInv
<1>3. ASSUME NEW e \in End, ReadPosition(e) PROVE OwnerInv'
  <2>1. handshake' = [handshake EXCEPT ![e] = "up"] /\ UNCHANGED <<nconn, key, owner, mainfd>>
    BY <1>3 DEF ReadPosition
  <2> QED BY <2>1, ConnFacts, DroppedOwner DEF OwnerInv
<1> QED BY <1>1, <1>2, <1>3, KeyReadOwner DEF Handshake

LEMMA OwnerStep == ASSUME OwnerInv, [Next]_vars PROVE OwnerInv'
<1>1. ASSUME UNCHANGED <<nconn, key, owner, mainfd, handshake>> PROVE OwnerInv'
  BY <1>1 DEF OwnerInv
<1>2. CASE Handshake
  BY <1>2, HandshakeOwner
<1>3. CASE Disconnect
  <2>1. CASE MuxDrops
    BY <2>1, RedialOwner DEF MuxDrops
  <2>2. CASE DemuxDrops
    <3>1. /\ mainfd' = [e \in End |-> IF e = Mux THEN mainfd[e] ELSE None]
          /\ UNCHANGED <<nconn, key, owner, handshake>>
      BY <2>2 DEF DemuxDrops
    <3> QED BY <3>1, ConnFacts, DroppedOwner DEF OwnerInv
  <2>3. ASSUME NEW d \in Ctx, DemuxReadsEnd(d) PROVE OwnerInv'
    BY <2>3, HangupOwner DEF DemuxReadsEnd
  <2>4. ASSUME NEW d \in Ctx, Expire(d) PROVE OwnerInv'
    <3>1. /\ mainfd' = [mainfd EXCEPT ![d] = None] /\ handshake' = [handshake EXCEPT ![d] = "burned"]
          /\ UNCHANGED <<nconn, key, owner>>
      BY <2>4 DEF Expire
    <3> QED BY <3>1, ConnFacts, DroppedOwner DEF OwnerInv
  <2>5. ASSUME NEW c \in Conn, Break(c) PROVE OwnerInv'
    BY <1>1, <2>5 DEF Break, fdVars
  <2>6. ASSUME NEW e \in End, WriteFails(e) PROVE OwnerInv'
    BY <2>6, RedialOwner, HangupOwner, ConnFacts DEF WriteFails, DisconnectMain
  <2> QED BY <1>3, <2>1, <2>2, <2>3, <2>4, <2>5, <2>6 DEF Disconnect
<1>4. CASE Transfer
  <2>1. UNCHANGED <<nconn, key, owner, mainfd, handshake>>
    BY <1>4 DEF Transfer, ResendByte, WriteByte, ReadByte, GrabControl, GrabData, Stall, Resume,
                ClientHasData, ClientHasKarma, connVars, fdVars
  <2> QED BY <1>1, <2>1
<1>5. CASE UNCHANGED vars
  BY <1>1, <1>5 DEF vars, connVars, fdVars
<1> QED BY <1>2, <1>3, <1>4, <1>5 DEF Next

\* No connection is in two contexts of the demux, so freeing the preliminary one
\* does not close it under the other (mainr, free_context), under all faults.
THEOREM OwnedOnce == Spec => []OneOwner
<1>1. Init => OwnerInv
  <2> SUFFICES ASSUME Init PROVE OwnerInv
    OBVIOUS
  <2>1. 1 \in Conn /\ None \in End /\ None = Mux
    BY ConstantsOK DEF Conn, End, Mux, None
  <2> QED BY <2>1, ConnFacts DEF Init, OwnerInv
<1>2. OwnerInv => OneOwner
  <2> SUFFICES ASSUME OwnerInv, NEW c \in Ctx, NEW d \in Ctx,
                      mainfd[c] # None, mainfd[c] = mainfd[d]
               PROVE  c = d
    BY DEF OneOwner
  <2>1. \/ owner[mainfd[c]] = c
        \/ owner[mainfd[c]] = None /\ mainfd[c] = c
    BY DEF OwnerInv
  <2>2. \/ owner[mainfd[c]] = d
        \/ owner[mainfd[c]] = None /\ mainfd[c] = d
    BY DEF OwnerInv
  <2> QED BY <2>1, <2>2, ConnFacts
<1> QED BY <1>1, <1>2, OwnerStep, PTL DEF Spec

-----------------------------------------------------------------------------
(* The link implements BytePipe.                                           *)

\* The state of the pipe that a state of the link stands for.
PipeSent == [s \in Side |-> SentTo(s)]
PipeReceived == [s \in Side |-> ReadBy(s)]

\* Its ends are those of the session; without a session it is empty.
PipeEnds ==
  /\ \A d \in Ctx : handshake[d] = "up" =>
       /\ PipeSent = [s \in Side |-> IF s = "demux" THEN Len(written[Mux]) ELSE Len(written[d])]
       /\ PipeReceived = [s \in Side |-> IF s = "mux" THEN delivered[Mux] ELSE delivered[d]]
  /\ (\A d \in Ctx : handshake[d] # "up") =>
       /\ PipeSent = [s \in Side |-> 0] /\ PipeReceived = [s \in Side |-> <<>>]
       /\ \A e \in End : written[e] = <<>> /\ delivered[e] = <<>>

LEMMA PipeEndsAre == IInv => PipeEnds
<1> SUFFICES ASSUME IInv PROVE PipeEnds
  OBVIOUS
<1>1. Session = {d \in Ctx : handshake[d] = "up"}
  BY DEF IInv, FdShape, Session
<1>2. ASSUME NEW d \in Ctx, handshake[d] = "up"
      PROVE  /\ PipeSent = [s \in Side |-> IF s = "demux" THEN Len(written[Mux]) ELSE Len(written[d])]
             /\ PipeReceived = [s \in Side |-> IF s = "mux" THEN delivered[Mux] ELSE delivered[d]]
  <2>1. \A x \in Ctx : handshake[x] = "up" => x = d
    BY <1>2 DEF IInv, Sessions
  <2>2. Session = {d} /\ d \in Nat
    BY <1>1, <1>2, <2>1, ConnFacts
  <2>3. Oldest({d}) = d
    BY <2>2 DEF Oldest
  <2>4. Session # {} /\ Oldest(Session) = d
    BY <2>2, <2>3
  <2> QED BY <2>4 DEF PipeSent, PipeReceived, SentTo, ReadBy
<1>3. ASSUME \A d \in Ctx : handshake[d] # "up"
      PROVE  /\ PipeSent = [s \in Side |-> 0] /\ PipeReceived = [s \in Side |-> <<>>]
             /\ \A e \in End : written[e] = <<>> /\ delivered[e] = <<>>
  <2>1. Session = {}
    BY <1>1, <1>3
  <2>2. \A e \in End : written[e] = <<>> /\ delivered[e] = <<>>
    BY <1>3, ConnFacts DEF IInv, Dormant, Untouched
  <2>3. \A s \in Side : SentTo(s) = 0 /\ ReadBy(s) = <<>>
    BY <2>1, <2>2, ConnFacts DEF SentTo, ReadBy, Side
  <2> QED BY <2>2, <2>3 DEF PipeSent, PipeReceived
<1> QED BY <1>2, <1>3 DEF PipeEnds

LEMMA PipeEndsNext == IInv' => PipeEnds'
<1>1. IInv => PipeEnds
  BY PipeEndsAre
<1> QED BY <1>1, PTL

\* A session lasts through every step but the expiry of its context.
LEMMA SessionLasts ==
  ASSUME IInv, Faults = {}, [Next]_vars, NEW d \in Ctx, handshake[d] = "up"
  PROVE  handshake'[d] = "up"
<1> USE ConnFacts
<1>1. d \in End /\ d # Mux /\ handshake \in [End -> {"none", "connecting", "key", "pos", "up", "burned"}]
  BY DEF IInv, TypeOK
<1>2. UNCHANGED handshake => handshake'[d] = "up"
  OBVIOUS
<1>3. Redial => handshake'[d] = "up"
  BY <1>1 DEF Redial
<1>4. CASE Handshake
  <2>1. CASE MuxConnected
    BY <1>1, <2>1 DEF MuxConnected
  <2>2. ASSUME NEW c \in Conn, Accept(c) PROVE handshake'[d] = "up"
    BY <1>1, <2>2 DEF Accept
  <2>3. ASSUME NEW c \in Conn, NEW whole \in BOOLEAN, DemuxReadsKey(c, whole)
        PROVE  handshake'[d] = "up"
    <3>1. d = ContextFor(c)
      BY OnlyMatch, <1>1, OldestMatch DEF ContextFor, Matches, IInv, Sessions
    <3>2. whole /\ handshake[c] = "key"
      BY <2>3 DEF DemuxReadsKey
    <3>3. handshake' = [handshake EXCEPT ![c] = "burned",
                          ![ContextFor(c)] = IF whole THEN "up" ELSE "pos"]
      BY <2>3 DEF DemuxReadsKey
    <3> QED BY <1>1, <3>1, <3>2, <3>3
  <2>4. ASSUME NEW e \in End, ReadPosition(e) PROVE handshake'[d] = "up"
    BY <1>1, <2>4 DEF ReadPosition
  <2> QED BY <1>4, <2>1, <2>2, <2>3, <2>4 DEF Handshake
<1>5. CASE Disconnect
  <2>1. UNCHANGED handshake \/ Redial
    BY <1>5 DEF Disconnect, MuxDrops, DemuxDrops, DemuxReadsEnd, Expire, Break, WriteFails,
                DisconnectMain, Hangup, fdVars
  <2> QED BY <1>2, <1>3, <2>1
<1>6. CASE Transfer
  <2>1. UNCHANGED handshake
    BY <1>6 DEF Transfer, ResendByte, WriteByte, ReadByte, GrabControl, GrabData, Stall, Resume,
                ClientHasData, ClientHasKarma, fdVars
  <2> QED BY <1>2, <2>1
<1> QED BY <1>2, <1>4, <1>5, <1>6 DEF Next, vars, fdVars

\* A step that writes and reads no new byte is none of the pipe's.
LEMMA PipeStutters ==
  ASSUME IInv, PipeEnds, PipeEnds', written' = written, delivered' = delivered,
         \A d \in Ctx : handshake[d] = "up" => handshake'[d] = "up"
  PROVE  PipeSent' = PipeSent /\ PipeReceived' = PipeReceived
<1>1. CASE \A d \in Ctx : handshake'[d] # "up"
  BY <1>1 DEF PipeEnds
<1>2. ASSUME NEW d \in Ctx, handshake'[d] = "up"
      PROVE  PipeSent' = PipeSent /\ PipeReceived' = PipeReceived
  <2>1. /\ PipeSent' = [s \in Side |-> IF s = "demux" THEN Len(written[Mux]) ELSE Len(written[d])]
        /\ PipeReceived' = [s \in Side |-> IF s = "mux" THEN delivered[Mux] ELSE delivered[d]]
    BY <1>2 DEF PipeEnds
  <2>2. CASE handshake[d] = "up"
    BY <2>1, <2>2 DEF PipeEnds
  <2>3. CASE \A x \in Ctx : handshake[x] # "up"
    <3>1. /\ PipeSent = [s \in Side |-> 0] /\ PipeReceived = [s \in Side |-> <<>>]
          /\ \A e \in End : written[e] = <<>> /\ delivered[e] = <<>>
      BY <2>3 DEF PipeEnds
    <3>2. /\ written[Mux] = <<>> /\ written[d] = <<>>
          /\ delivered[Mux] = <<>> /\ delivered[d] = <<>>
      BY <3>1, ConnFacts
    <3>3. Len(written[Mux]) = 0 /\ Len(written[d]) = 0
      BY <3>2
    <3> QED BY <2>1, <3>1, <3>2, <3>3
  <2>4. ASSUME NEW x \in Ctx, handshake[x] = "up", handshake[d] # "up"
        PROVE  PipeSent' = PipeSent /\ PipeReceived' = PipeReceived
    <3>1. /\ PipeSent' = [s \in Side |-> IF s = "demux" THEN Len(written[Mux]) ELSE Len(written[x])]
          /\ PipeReceived' = [s \in Side |-> IF s = "mux" THEN delivered[Mux] ELSE delivered[x]]
      BY <2>4 DEF PipeEnds
    <3>2. /\ PipeSent = [s \in Side |-> IF s = "demux" THEN Len(written[Mux]) ELSE Len(written[x])]
          /\ PipeReceived = [s \in Side |-> IF s = "mux" THEN delivered[Mux] ELSE delivered[x]]
      BY <2>4 DEF PipeEnds
    <3> QED BY <3>1, <3>2
  <2> QED BY <2>2, <2>3, <2>4
<1> QED BY <1>1, <1>2

\* Only mainw and mainr move bytes of the pipe.
LEMMA PipeQuiet ==
  ASSUME [Next]_vars, \A e \in End : ~WriteByte(e) /\ ~ReadByte(e)
  PROVE  written' = written /\ delivered' = delivered
BY DEF Next, Handshake, MuxConnected, Accept, DemuxReadsKey, ReadPosition,
       Disconnect, MuxDrops, DemuxDrops, DemuxReadsEnd, Expire, Break, WriteFails,
       Transfer, ResendByte, GrabControl, GrabData, Stall, Resume, ClientHasData, ClientHasKarma,
       vars, sendVars, recvVars

\* The end that a connected end e exchanges bytes with.
LEMMA LinkedPeer ==
  ASSUME IInv, NEW e \in End, Linked(e)
  PROVE  \E d \in Ctx : /\ handshake[d] = "up" /\ e \in {Mux, d}
                        /\ Stream(Mux, d) /\ Stream(d, Mux)
                        /\ mainfd[e] \in Conn
                        /\ Continues(mainfd[e], IF e = Mux THEN d ELSE Mux, e)
<1>1. PICK d \in Ctx : /\ handshake[d] = "up"
                       /\ e = Mux => owner[mainfd[Mux]] = d
                       /\ e # Mux => e = d /\ owner[mainfd[d]] = d
  BY LinkedSession
<1>2. /\ Stream(Mux, d) /\ Stream(d, Mux) /\ \A c \in Conn : OnWire(c, d)
  BY <1>1 DEF IInv, Sessions
<1>3. mainfd[e] \in Conn
  BY DEF Linked, IInv, TypeOK
<1>4. e = Mux => mainfd[e] = nconn
  BY DEF IInv, FdShape
<1>5. Continues(mainfd[e], IF e = Mux THEN d ELSE Mux, e)
  BY <1>1, <1>2, <1>3, <1>4 DEF OnWire
<1> QED BY <1>1, <1>2, <1>3, <1>5

\* With global karma left, fewer than GLOBAL_KARMA - 1 bytes are outstanding.
LEMMA KarmaBoundsUnread ==
  ASSUME TypeOK, NEW e \in End, NEW p \in End, Stream(e, p), Stream(p, e), stream_karma[e] > 0
  PROVE  Len(written[e]) - Len(delivered[p]) < GlobalKarma - 1
<1>1. /\ stream_karma[e] \in Nat /\ rstream_karma[p] \in Nat /\ wout[p].ack \in Nat
      /\ Len(written[e]) \in Nat /\ Len(delivered[p]) \in Nat /\ GlobalKarma \in Nat
  BY EndTypes, EndCounts, ConstantsOK
<1>2. Total(written[p]) - Granted(written[p], Len(delivered[e])) \in Nat
  <2>1. written[p] \in Seq(Nat) /\ Len(delivered[e]) \in Nat /\ Len(written[p]) \in Nat
    BY EndTypes
  <2>2. Len(delivered[e]) <= Len(written[p]) /\ Monotone(written[p])
    BY DEF Stream
  <2>3. Len(delivered[e]) \in 0 .. Len(written[p]) /\ Len(written[p]) \in 0 .. Len(written[p])
    BY <2>1, <2>2
  <2>4. Granted(written[p], Len(delivered[e])) <= Total(written[p])
    BY <2>2, <2>3 DEF Monotone, Total
  <2>5. \A n \in 0 .. Len(written[p]) : Granted(written[p], n) \in Nat
    BY <2>1 DEF Granted
  <2> QED BY <2>3, <2>4, <2>5 DEF Total
<1>3. stream_karma[e] + (Len(written[e]) - Len(delivered[p])) + rstream_karma[p] + wout[p].ack
        + (Total(written[p]) - Granted(written[p], Len(delivered[e]))) = GlobalKarma - 1
  BY DEF Stream, Unread
<1> DEFINE unread == Len(written[e]) - Len(delivered[p])
           unseen == Total(written[p]) - Granted(written[p], Len(delivered[e]))
<1>4. unread \in Int
  BY <1>1
<1>5. unseen \in Nat /\ stream_karma[e] + unread + rstream_karma[p] + wout[p].ack + unseen = GlobalKarma - 1
  BY <1>2, <1>3
<1> HIDE DEF unread, unseen
<1>6. unread < GlobalKarma - 1
  BY SMTT(40), <1>1, <1>4, <1>5
<1> QED BY <1>6 DEF unread

\* Writing a byte of a packet puts it into the pipe.
LEMMA PipeSends ==
  ASSUME IInv, PipeEnds, PipeEnds', NEW e \in End, WriteByte(e)
  PROVE  \E s \in Side : /\ PipeSent[s] - Len(PipeReceived[s]) < GlobalKarma - 1
                         /\ PipeSent' = [PipeSent EXCEPT ![s] = @ + 1]
                         /\ PipeReceived' = PipeReceived
<1>1. /\ Linked(e) /\ Dumping(e) /\ stream_karma[e] > 0
      /\ handshake' = handshake /\ delivered' = delivered
  BY DEF WriteByte, fdVars, recvVars
<1>2. PICK d \in Ctx : /\ handshake[d] = "up" /\ e \in {Mux, d}
                       /\ Stream(Mux, d) /\ Stream(d, Mux)
  BY <1>1, LinkedPeer
<1>3. PICK p \in End : p = IF e = Mux THEN d ELSE Mux
  BY ConnFacts
<1>4. PICK s \in Side : s = IF e = Mux THEN "demux" ELSE "mux"
  BY DEF Side
<1>5. /\ TypeOK /\ Packets /\ Stream(e, p) /\ Stream(p, e)
  BY <1>2, <1>3 DEF IInv
<1>6. PICK v \in Nat, ack \in Nat : Writes(e, v, ack)
  BY <1>1, <1>5, PacketByte
<1>7. /\ written' = [written EXCEPT ![e] = Append(@, v)]
      /\ written \in [End -> Seq(Nat)]
  BY <1>5, <1>6 DEF Writes, TypeOK
<1>8. /\ Len(written'[e]) = Len(written[e]) + 1
      /\ \A x \in End : x # e => written'[x] = written[x]
  BY <1>7
<1>9. /\ PipeSent = [t \in Side |-> IF t = "demux" THEN Len(written[Mux]) ELSE Len(written[d])]
      /\ PipeReceived = [t \in Side |-> IF t = "mux" THEN delivered[Mux] ELSE delivered[d]]
      /\ PipeSent' = [t \in Side |-> IF t = "demux" THEN Len(written'[Mux]) ELSE Len(written'[d])]
      /\ PipeReceived' = [t \in Side |-> IF t = "mux" THEN delivered[Mux] ELSE delivered[d]]
  BY <1>1, <1>2 DEF PipeEnds
<1>10. d \in End /\ d # Mux /\ Mux \in End /\ (e = Mux \/ e = d)
  BY <1>2, ConnFacts
<1>11. PipeSent[s] = Len(written[e]) /\ PipeReceived[s] = delivered[p]
  BY <1>3, <1>4, <1>9, <1>10 DEF Side
<1>12. PipeSent' = [PipeSent EXCEPT ![s] = PipeSent[s] + 1]
  BY SMTT(40), <1>4, <1>8, <1>9, <1>10, <1>11 DEF Side
<1>13. PipeSent[s] - Len(PipeReceived[s]) < GlobalKarma - 1
  BY <1>1, <1>5, <1>11, KarmaBoundsUnread
<1> QED BY <1>9, <1>12, <1>13

\* Reading a byte takes the next one out of it.
LEMMA PipeReceives ==
  ASSUME IInv, PipeEnds, PipeEnds', NEW e \in End, ReadByte(e)
  PROVE  \E s \in Side : /\ Len(PipeReceived[s]) < PipeSent[s]
                         /\ PipeReceived' = [PipeReceived EXCEPT ![s] = Append(@, Len(@) + 1)]
                         /\ PipeSent' = PipeSent
<1>1. /\ Linked(e) /\ net[mainfd[e]][SideOf(e)] # <<>>
      /\ net' = [net EXCEPT ![mainfd[e]][SideOf(e)] = Tail(@)]
      /\ delivered' = [delivered EXCEPT ![e] = Append(@, Head(net[mainfd[e]][SideOf(e)]))]
      /\ handshake' = handshake /\ written' = written /\ stream_debt' = stream_debt
  BY DEF ReadByte, fdVars
<1>2. PICK d \in Ctx : /\ handshake[d] = "up" /\ e \in {Mux, d} /\ mainfd[e] \in Conn
                       /\ Continues(mainfd[e], IF e = Mux THEN d ELSE Mux, e)
  BY <1>1, LinkedPeer
<1>3. PICK p \in End : p = IF e = Mux THEN d ELSE Mux
  BY ConnFacts
<1>4. PICK s \in Side : s = SideOf(e)
  BY DEF Side, SideOf
<1>5. TypeOK
  BY DEF IInv
<1>6. /\ Head(net[mainfd[e]][SideOf(e)]) = Len(delivered[e]) + 1
      /\ Len(delivered[e]) < Len(written[p])
  BY <1>1, <1>2, <1>3, <1>5, ReadsNext
<1>7. delivered' = [delivered EXCEPT ![e] = Append(@, Len(@) + 1)]
  BY <1>1, <1>6
<1>8. /\ delivered'[e] = Append(delivered[e], Len(delivered[e]) + 1)
      /\ \A x \in End : x # e => delivered'[x] = delivered[x]
  BY <1>5, <1>7 DEF TypeOK
<1>9. /\ PipeSent = [t \in Side |-> IF t = "demux" THEN Len(written[Mux]) ELSE Len(written[d])]
      /\ PipeReceived = [t \in Side |-> IF t = "mux" THEN delivered[Mux] ELSE delivered[d]]
      /\ PipeSent' = [t \in Side |-> IF t = "demux" THEN Len(written[Mux]) ELSE Len(written[d])]
      /\ PipeReceived' = [t \in Side |-> IF t = "mux" THEN delivered'[Mux] ELSE delivered'[d]]
  BY <1>1, <1>2 DEF PipeEnds
<1>10. d \in End /\ d # Mux /\ Mux \in End /\ (e = Mux \/ e = d)
  BY <1>2, ConnFacts
<1>11. PipeSent[s] = Len(written[p]) /\ PipeReceived[s] = delivered[e]
  BY <1>3, <1>4, <1>9, <1>10 DEF Side, SideOf
<1>12. PipeReceived' = [PipeReceived EXCEPT ![s] = Append(PipeReceived[s], Len(PipeReceived[s]) + 1)]
  <2>1. PICK v : v = Append(delivered[e], Len(delivered[e]) + 1)
    OBVIOUS
  <2>2. CASE e = Mux
    <3>1. PipeReceived' = [t \in Side |-> IF t = "mux" THEN v ELSE delivered[d]] /\ s = "mux"
      BY <1>4, <1>8, <1>9, <1>10, <2>1, <2>2 DEF SideOf
    <3> QED BY <1>9, <1>11, <2>1, <3>1
  <2>3. CASE e = d
    <3>1. PipeReceived' = [t \in Side |-> IF t = "mux" THEN delivered[Mux] ELSE v] /\ s = "demux"
      BY <1>4, <1>8, <1>9, <1>10, <2>1, <2>3 DEF SideOf
    <3> QED BY <1>9, <1>11, <2>1, <3>1 DEF Side
  <2> QED BY <1>10, <2>2, <2>3
<1> QED BY <1>6, <1>9, <1>11, <1>12

\* The reconnecting stream is a reliable byte pipe of GLOBAL_KARMA - 1 bytes in
\* each direction (mainr, mainw, stream_debt): breaking, dropping and replacing
\* connections does not show.
THEOREM StreamIsPipe == ASSUME Faults = {} PROVE Spec => ImplementsPipe
<1>1. Init => Pipe!Init
  <2> SUFFICES ASSUME Init PROVE Pipe!Init
    OBVIOUS
  <2>1. IInv
    BY InitInv
  <2>2. \A d \in Ctx : handshake[d] # "up"
    BY ConnFacts DEF Init
  <2>3. PipeSent = [s \in Side |-> 0] /\ PipeReceived = [s \in Side |-> <<>>]
    BY <2>1, <2>2, PipeEndsAre DEF PipeEnds
  <2> QED BY <2>3 DEF Pipe!Init, PipeSent, PipeReceived
<1>2. IInv /\ IInv' /\ [Next]_vars => [Pipe!Next]_(Pipe!vars)
  <2> SUFFICES ASSUME IInv, IInv', [Next]_vars PROVE [Pipe!Next]_(Pipe!vars)
    OBVIOUS
  <2>1. PipeEnds /\ PipeEnds'
    BY PipeEndsAre, PipeEndsNext
  <2>2. ASSUME NEW e \in End, WriteByte(e) PROVE Pipe!Next
    <3>1. PICK s \in Side : /\ PipeSent[s] - Len(PipeReceived[s]) < GlobalKarma - 1
                            /\ PipeSent' = [PipeSent EXCEPT ![s] = @ + 1]
                            /\ PipeReceived' = PipeReceived
      BY <2>1, <2>2, PipeSends
    <3>2. Pipe!Send(s)
      BY <3>1 DEF Pipe!Send, PipeSent, PipeReceived
    <3> QED BY <3>2 DEF Pipe!Next
  <2>3. ASSUME NEW e \in End, ReadByte(e) PROVE Pipe!Next
    <3>1. PICK s \in Side : /\ Len(PipeReceived[s]) < PipeSent[s]
                            /\ PipeReceived' = [PipeReceived EXCEPT ![s] = Append(@, Len(@) + 1)]
                            /\ PipeSent' = PipeSent
      BY <2>1, <2>3, PipeReceives
    <3>2. Pipe!Receive(s)
      BY <3>1 DEF Pipe!Receive, PipeSent, PipeReceived
    <3> QED BY <3>2 DEF Pipe!Next
  <2>4. CASE \A e \in End : ~WriteByte(e) /\ ~ReadByte(e)
    <3>1. written' = written /\ delivered' = delivered
      BY <2>4, PipeQuiet
    <3>2. PipeSent' = PipeSent /\ PipeReceived' = PipeReceived
      BY <2>1, <3>1, SessionLasts, PipeStutters
    <3> QED BY <3>2 DEF Pipe!vars, PipeSent, PipeReceived
  <2> QED BY <2>2, <2>3, <2>4
<1> QED BY <1>1, <1>2, Inductive, PTL DEF Spec, ImplementsPipe, Pipe!Spec
=============================================================================
