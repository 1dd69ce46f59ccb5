------------------------------- MODULE MuxLink -------------------------------
(***************************************************************************)
(* The reconnecting stream of src/tcpmux/tcpmux.c: one mux, the contexts   *)
(* of one demux, and the TCP connections between them.                     *)
(*                                                                         *)
(* The mux dials a connection, announces itself by its key and by the      *)
(* position up to which it has read the demux's stream, and the demux      *)
(* answers with its own position.  Each side then resends what the other   *)
(* has not read (stream_debt) out of a circular buffer (stream) and goes   *)
(* on.  Connections may break, be dropped by the idle timer or be replaced *)
(* at any moment.                                                          *)
(*                                                                         *)
(* A byte is named by its place in the history of the stream it was first  *)
(* written to: byte n of e is the n-th byte e ever handed to write_mainfd. *)
(* read() and write() move one byte per step: a call that moves k bytes    *)
(* has the effect of k such steps, and a short count is possible anywhere. *)
(***************************************************************************)
EXTENDS Integers, Sequences

CONSTANTS
    GlobalKarma,   \* GLOBAL_KARMA: size of the circular buffer
    AckThreshold,  \* ACK_THRESHOLD: bytes read before they are acknowledged
    PacketSizes,   \* lengths of virtual packets carrying client data
    AckSize,       \* length of a control packet
    Faults,        \* which of the faults below may happen
    MaxConns,      \* bound: connections ever dialled
    MaxBytes       \* bound: bytes ever written to each stream

\* "split": between reading the key and reading the position of the mux's
\*          header the demux handles something else that concerns this mux: the
\*          connection is lost, or another one presents the same key.
\* "expiry": the demux forgets a context after MUX_TIMEOUT without events.
AllFaults == {"split", "expiry"}

ASSUME ConstantsOK ==
    /\ GlobalKarma \in Nat /\ GlobalKarma > 1
    /\ AckThreshold \in 1 .. GlobalKarma - 1
    /\ PacketSizes \subseteq Nat \ {0}
    /\ AckSize \in Nat \ {0}
    /\ Faults \subseteq AllFaults
    /\ MaxConns \in Nat \ {0}
    /\ MaxBytes \in Nat

Conn == 1 .. MaxConns
None == 0                 \* mainfd == -1
Mux  == 0                 \* the context of the mux (mmc)
Ctx  == 1 .. MaxConns     \* context c of the demux was made for connection c
End  == {Mux} \cup Ctx
Side == {"mux", "demux"}
SideOf(e) == IF e = Mux THEN "mux" ELSE "demux"
Across(e) == IF e = Mux THEN "demux" ELSE "mux"
NoPos == -1

VARIABLES
    \* connections
    nconn,          \* connections dialled so far
    up,             \* up[c]: neither side has closed c and the network carries it
    key,            \* key[c]: the mux's key is on c, not yet read
    hdr,            \* hdr[c][s]: stream position on its way to side s, or NoPos
    net,            \* net[c][s]: bytes on their way to side s
    owner,          \* owner[c]: the demux context that c was given to
    \* struct mux_context, one per End
    mainfd,         \* the connection, or None
    handshake,      \* handshake_st, is_connecting and is_burned
    stream_karma, stream_pos, stream_debt, stream,
    rstream_pos, rstream_karma,
    write_ctl,      \* client 0 is in the write queue
    write_data,     \* another client is in the write queue
    karma_head,     \* some client is in the karma queue
    wout,           \* the packet being written: bytes left, credit it carries
    stalled,        \* mainw returned in the middle of wout
    \* history
    written,        \* written[e][n]: credit granted by the first n bytes of e
    delivered       \* delivered[e]: the bytes e has read, in order

connVars   == <<nconn, up, key, hdr, net, owner>>
fdVars     == <<mainfd, handshake>>
sendVars   == <<stream_karma, stream_pos, stream, written>>
recvVars   == <<rstream_pos, rstream_karma, delivered>>
queueVars  == <<write_ctl, write_data, karma_head>>
packetVars == <<wout, stalled>>
vars == <<connVars, fdVars, sendVars, stream_debt, recvVars, queueVars, packetVars>>

NoPacket == [left |-> 0, ack |-> 0]

\* Credit granted by the first n bytes of a stream with history s.
Granted(s, n) == IF n = 0 THEN 0 ELSE s[n]
Total(s) == Granted(s, Len(s))

\* A full buffer would look like an empty one, so one byte of it is never used.
InitialKarma == GlobalKarma - 1

\* The two ways positions in the circular buffer are moved.
ForwardLate(pos) == IF pos + 1 > GlobalKarma THEN pos + 1 - GlobalKarma ELSE pos + 1  \* mutant
Forward(pos) == IF pos + 1 >= GlobalKarma THEN pos + 1 - GlobalKarma ELSE pos + 1
Back(pos, n) == IF pos - n < 0 THEN pos - n + GlobalKarma ELSE pos - n

Init ==
    /\ nconn = 1
    /\ up = [c \in Conn |-> FALSE]
    /\ key = [c \in Conn |-> FALSE]
    /\ hdr = [c \in Conn |-> [s \in Side |-> NoPos]]
    /\ net = [c \in Conn |-> [s \in Side |-> <<>>]]
    /\ owner = [c \in Conn |-> None]
    /\ mainfd = [e \in End |-> IF e = Mux THEN 1 ELSE None]
    /\ handshake = [e \in End |-> IF e = Mux THEN "connecting" ELSE "none"]
    /\ stream_karma = [e \in End |-> InitialKarma]
    /\ stream_pos = [e \in End |-> 0]
    /\ stream_debt = [e \in End |-> 0]
    /\ stream = [e \in End |-> [i \in 0 .. GlobalKarma - 1 |-> 0]]
    /\ rstream_pos = [e \in End |-> 0]
    /\ rstream_karma = [e \in End |-> 0]
    /\ write_ctl = [e \in End |-> FALSE]
    /\ write_data = [e \in End |-> FALSE]
    /\ karma_head = [e \in End |-> FALSE]
    /\ wout = [e \in End |-> NoPacket]
    /\ stalled = [e \in End |-> FALSE]
    /\ written = [e \in End |-> <<>>]
    /\ delivered = [e \in End |-> <<>>]

\* e is inside the writing loop of mainw; a process runs one handler at a time.
Dumping(e) == wout[e].left > 0 /\ ~stalled[e]
Idle(s) == \A e \in End : SideOf(e) = s => ~Dumping(e)
Linked(e) == mainfd[e] # None /\ handshake[e] = "up"

-----------------------------------------------------------------------------
(* Connections *)

\* disconnect_main of the mux: close and dial again.
Redial ==
    /\ nconn < MaxConns
    /\ nconn' = nconn + 1
    /\ up' = [up EXCEPT ![mainfd[Mux]] = FALSE]
    /\ mainfd' = [mainfd EXCEPT ![Mux] = nconn + 1]
    /\ handshake' = [handshake EXCEPT ![Mux] = "connecting"]
    /\ UNCHANGED <<key, hdr, net, owner>>

\* disconnect_main of context d of the demux: close.
Hangup(d) ==
    /\ up' = [up EXCEPT ![mainfd[d]] = FALSE]
    /\ mainfd' = [mainfd EXCEPT ![d] = None]
    /\ UNCHANGED <<nconn, key, hdr, net, owner, handshake>>

DisconnectMain(e) == IF e = Mux THEN Redial ELSE Hangup(e)

\* The mux drops its connection: the idle timer, a change of interface, a
\* signal, or a read that reports the end of the connection.
MuxDrops ==
    /\ Idle("mux")
    /\ Redial
    /\ UNCHANGED <<sendVars, stream_debt, recvVars, queueVars, packetVars>>

\* The same loop over all contexts of the demux (its idle timer).
DemuxDrops ==
    /\ Idle("demux")
    /\ nconn < MaxConns
    /\ \E d \in Ctx : mainfd[d] # None
    /\ up' = [c \in Conn |-> up[c] /\ \A d \in Ctx : mainfd[d] # c]
    /\ mainfd' = [e \in End |-> IF e = Mux THEN mainfd[e] ELSE None]
    /\ UNCHANGED <<nconn, key, hdr, net, owner, handshake>>
    /\ UNCHANGED <<sendVars, stream_debt, recvVars, queueVars, packetVars>>

\* read() reports that connection of context d has ended; unread data is lost.
DemuxReadsEnd(d) ==
    /\ Idle("demux")
    /\ mainfd[d] # None /\ ~up[mainfd[d]]
    /\ Hangup(d)
    /\ UNCHANGED <<sendVars, stream_debt, recvVars, queueVars, packetVars>>

\* The network breaks connection c; the last connection stays.
Break(c) ==
    /\ up[c]
    /\ nconn < MaxConns
    /\ up' = [up EXCEPT ![c] = FALSE]
    /\ UNCHANGED <<nconn, key, hdr, net, owner, fdVars>>
    /\ UNCHANGED <<sendVars, stream_debt, recvVars, queueVars, packetVars>>

\* connect() succeeded: write_mux_header sends key and position.
MuxConnected ==
    /\ Idle("mux")
    /\ handshake[Mux] = "connecting"
    /\ LET c == mainfd[Mux] IN
         /\ up' = [up EXCEPT ![c] = TRUE]
         /\ key' = [key EXCEPT ![c] = TRUE]
         /\ hdr' = [hdr EXCEPT ![c]["demux"] = rstream_pos[Mux]]
    /\ handshake' = [handshake EXCEPT ![Mux] = "pos"]
    /\ UNCHANGED <<nconn, net, owner, mainfd>>
    /\ UNCHANGED <<sendVars, stream_debt, recvVars, queueVars, packetVars>>

\* The demux accepts connection c and makes a preliminary context for it.
Accept(c) ==
    /\ Idle("demux")
    /\ key[c] /\ handshake[c] = "none"
    /\ mainfd' = [mainfd EXCEPT ![c] = c]
    /\ handshake' = [handshake EXCEPT ![c] = "key"]
    /\ UNCHANGED connVars
    /\ UNCHANGED <<sendVars, stream_debt, recvVars, queueVars, packetVars>>

\* Mutants of Debt: the wrapped case is forgotten; all that is not yet
\* acknowledged is sent again.
DebtUnwrapped(e, pos) == LET d == stream_pos[e] - pos IN IF d < 0 THEN 0 ELSE d
DebtUnacked(e, pos) == InitialKarma - stream_karma[e]

\* The bytes of e's stream that its peer, having read up to pos, lacks.
Debt(e, pos) ==
    LET d == stream_pos[e] - pos IN IF d < 0 THEN d + GlobalKarma ELSE d

\* The contexts a new connection may be switched into, and the one chosen:
\* context_list is searched from its oldest entry.
MatchesConnected == {d \in Ctx : handshake[d] = "up" /\ mainfd[d] # None}  \* mutant
Matches == {d \in Ctx : handshake[d] = "up"}
Oldest(S) == CHOOSE d \in S : \A x \in S : d <= x

ContextFor(c) == IF Matches = {} THEN c ELSE Oldest(Matches)

\* Context d takes the connection of preliminary context c, which lets go of it.
HandedOverKept(c, d) == [mainfd EXCEPT ![d] = c]  \* mutant
HandedOver(c, d) == [mainfd EXCEPT ![c] = None, ![d] = c]

\* Preliminary context c has read the key.  Its connection is switched into an
\* existing context if there is one, and the position of that context is sent
\* back.  When nothing comes between the two reads (whole), the mux's position
\* is read in the same step.
DemuxReadsKey(c, whole) ==
    /\ Idle("demux")
    /\ handshake[c] = "key" /\ mainfd[c] = c /\ key[c]
    /\ whole \/ "split" \in Faults
    /\ LET d == ContextFor(c) IN
         /\ up' = [x \in Conn |-> up[x] /\ (x # c => x # mainfd[d])]
         /\ key' = [key EXCEPT ![c] = FALSE]
         /\ hdr' = [hdr EXCEPT ![c] = [mux |-> rstream_pos[d],
                                       demux |-> IF whole THEN NoPos ELSE @.demux]]
         /\ owner' = [owner EXCEPT ![c] = d]
         /\ mainfd' = HandedOver(c, d)
         /\ handshake' = [handshake EXCEPT ![c] = "burned",
                                           ![d] = IF whole THEN "up" ELSE "pos"]
         /\ stream_debt' = [stream_debt EXCEPT
                ![d] = IF whole THEN Debt(d, hdr[c].demux) ELSE @]
    /\ UNCHANGED <<nconn, net, sendVars, recvVars, queueVars, packetVars>>

\* The peer's position has arrived: what it lacks has to be sent again.
ReadPosition(e) ==
    /\ Idle(SideOf(e))
    /\ handshake[e] = "pos" /\ mainfd[e] # None
    /\ LET c == mainfd[e] IN
         /\ hdr[c][SideOf(e)] # NoPos
         /\ stream_debt' = [stream_debt EXCEPT ![e] = Debt(e, hdr[c][SideOf(e)])]
         /\ hdr' = [hdr EXCEPT ![c][SideOf(e)] = NoPos]
    /\ handshake' = [handshake EXCEPT ![e] = "up"]
    /\ UNCHANGED <<nconn, up, key, net, owner, mainfd>>
    /\ UNCHANGED <<sendVars, recvVars, queueVars, packetVars>>

\* MUX_TIMEOUT has passed without an event for context d: it is freed.
Expire(d) ==
    /\ "expiry" \in Faults
    /\ Idle("demux")
    /\ handshake[d] \in {"key", "pos", "up"}
    /\ up' = [c \in Conn |-> up[c] /\ c # mainfd[d]]
    /\ mainfd' = [mainfd EXCEPT ![d] = None]
    /\ handshake' = [handshake EXCEPT ![d] = "burned"]
    /\ UNCHANGED <<nconn, key, hdr, net, owner>>
    /\ UNCHANGED <<sendVars, stream_debt, recvVars, queueVars, packetVars>>

-----------------------------------------------------------------------------
(* Writing: the loop of mainw *)

\* Byte b leaves e; on a connection that is down it is lost.
Transmit(e, b) ==
    net' = IF up[mainfd[e]]
             THEN [net EXCEPT ![mainfd[e]][Across(e)] = Append(@, b)]
             ELSE net

ResendWhenQueued(e) ==  \* mutant: the debt waits for a client that writes
    /\ Linked(e) /\ stream_debt[e] > 0 /\ (write_ctl[e] \/ write_data[e])
    /\ Transmit(e, stream[e][Back(stream_pos[e], stream_debt[e])])
    /\ stream_debt' = [stream_debt EXCEPT ![e] = @ - 1]
    /\ UNCHANGED <<nconn, up, key, hdr, owner, fdVars>>
    /\ UNCHANGED <<sendVars, recvVars, queueVars, packetVars>>

\* One byte of the debt is written again from the circular buffer.
ResendByte(e) ==
    /\ Linked(e) /\ stream_debt[e] > 0
    /\ Transmit(e, stream[e][Back(stream_pos[e], stream_debt[e])])
    /\ stream_debt' = [stream_debt EXCEPT ![e] = @ - 1]
    /\ UNCHANGED <<nconn, up, key, hdr, owner, fdVars>>
    /\ UNCHANGED <<sendVars, recvVars, queueVars, packetVars>>

\* mainw takes the next writer from its queue when no packet is under way.
CanGrabMidPacket(e) == Linked(e) /\ stream_debt[e] = 0  \* mutant
CanGrab(e) == Linked(e) /\ stream_debt[e] = 0 /\ wout[e].left = 0

\* write_ack: the control packet returns the bytes read since the last one.
\* When the karma queue does not fit in one packet the control client is
\* queued again.
GrabControl(e) ==
    /\ CanGrab(e) /\ write_ctl[e]
    /\ Len(written[e]) + AckSize <= MaxBytes
    /\ wout' = [wout EXCEPT ![e] = [left |-> AckSize, ack |-> rstream_karma[e]]]
    /\ rstream_karma' = [rstream_karma EXCEPT ![e] = 0]
    /\ \E more \in {FALSE, karma_head[e]} :
         /\ karma_head' = [karma_head EXCEPT ![e] = more]
         /\ write_ctl' = [write_ctl EXCEPT ![e] = more]
    /\ UNCHANGED <<connVars, fdVars, sendVars, stream_debt>>
    /\ UNCHANGED <<rstream_pos, delivered, write_data, stalled>>

\* A client's turn: it fills a packet, or turns out to have nothing (n = 0).
GrabData(e, n) ==
    /\ CanGrab(e) /\ write_data[e]
    /\ Len(written[e]) + n <= MaxBytes
    /\ wout' = [wout EXCEPT ![e] = [left |-> n, ack |-> 0]]
    /\ \E more \in BOOLEAN : write_data' = [write_data EXCEPT ![e] = more]
    /\ UNCHANGED <<connVars, fdVars, sendVars, stream_debt, recvVars>>
    /\ UNCHANGED <<write_ctl, karma_head, stalled>>

\* write_mainfd: the next byte of the packet, while there is global karma.
WriteByte(e) ==
    /\ Linked(e) /\ stream_debt[e] = 0 /\ Dumping(e)
    /\ stream_karma[e] > 0
    /\ LET b == Len(written[e]) + 1
           last == wout[e].left = 1
       IN  /\ Transmit(e, b)
           /\ stream' = [stream EXCEPT ![e][stream_pos[e]] = b]
           /\ written' = [written EXCEPT ![e] =
                Append(@, Total(@) + IF last THEN wout[e].ack ELSE 0)]
           /\ wout' = IF last THEN [wout EXCEPT ![e] = NoPacket]
                            ELSE [wout EXCEPT ![e].left = @ - 1]
    /\ stream_karma' = [stream_karma EXCEPT ![e] = @ - 1]
    /\ stream_pos' = [stream_pos EXCEPT ![e] = Forward(@)]
    /\ UNCHANGED <<nconn, up, key, hdr, owner, fdVars, stream_debt, recvVars>>
    /\ UNCHANGED <<queueVars, stalled>>

\* mainw returns with the packet unfinished: the socket is full, or no global
\* karma is left.
Stall(e) ==
    /\ Dumping(e)
    /\ stalled' = [stalled EXCEPT ![e] = TRUE]
    /\ UNCHANGED <<connVars, fdVars, sendVars, stream_debt, recvVars, queueVars, wout>>

\* mainw is called again (the main socket is writable).  It goes on with the
\* packet only if its outer loop is entered: a client is queued or there is debt.
Resume(e) ==
    /\ stalled[e] /\ Linked(e)
    /\ write_ctl[e] \/ write_data[e] \/ stream_debt[e] > 0
    /\ stalled' = [stalled EXCEPT ![e] = FALSE]
    /\ UNCHANGED <<connVars, fdVars, sendVars, stream_debt, recvVars, queueVars, wout>>

\* write() fails because the connection is gone: mainw gives it up.
WriteFails(e) ==
    /\ Linked(e) /\ ~up[mainfd[e]]
    /\ Dumping(e) \/ stream_debt[e] > 0
    /\ DisconnectMain(e)
    /\ stalled' = [stalled EXCEPT ![e] = wout[e].left > 0]
    /\ UNCHANGED <<sendVars, stream_debt, recvVars, queueVars, wout>>

-----------------------------------------------------------------------------
(* Reading: the loop of mainr *)

\* The stream that e reads from its connection.
Source(e) == IF e = Mux THEN owner[mainfd[e]] ELSE Mux

\* The credit that byte b of stream e carries: the last byte of a control
\* packet completes it and read_ack adds its credit to stream_karma.
Credit(e, b) == IF b = 0 THEN 0 ELSE written[e][b] - Granted(written[e], b - 1)

\* The next byte read makes an acknowledgement due that is not queued yet.
AckDueLate(e) == ~karma_head[e] /\ rstream_karma[e] = AckThreshold  \* mutant
AckDue(e) == ~karma_head[e] /\ rstream_karma[e] + 1 = AckThreshold

\* One byte is read; the control client is queued when AckThreshold is reached.
ReadByte(e) ==
    /\ Idle(SideOf(e))
    /\ Linked(e)
    /\ LET c == mainfd[e]
           s == SideOf(e)
       IN  /\ net[c][s] # <<>>
           /\ net' = [net EXCEPT ![c][s] = Tail(@)]
           /\ delivered' = [delivered EXCEPT ![e] = Append(@, Head(net[c][s]))]
           /\ stream_karma' = [stream_karma EXCEPT
                ![e] = @ + Credit(Source(e), Head(net[c][s]))]
    /\ rstream_pos' = [rstream_pos EXCEPT ![e] = Forward(@)]
    /\ rstream_karma' = [rstream_karma EXCEPT ![e] = @ + 1]
    /\ write_ctl' = [write_ctl EXCEPT ![e] = @ \/ AckDue(e)]
    /\ UNCHANGED <<nconn, up, key, hdr, owner, fdVars, stream_pos, stream, written>>
    /\ UNCHANGED <<stream_debt, write_data, karma_head, packetVars>>

-----------------------------------------------------------------------------
(* Clients, as far as the link sees them *)

\* The mux has clients at any time, a context once something was sent to it.
HasClients(e) == e = Mux \/ delivered[e] # <<>>

\* clientr: a client has data and queues for writing.
ClientHasData(e) ==
    /\ Idle(SideOf(e))
    /\ HasClients(e) /\ ~write_data[e]
    /\ Len(written[e]) < MaxBytes
    /\ write_data' = [write_data EXCEPT ![e] = TRUE]
    /\ UNCHANGED <<connVars, fdVars, sendVars, stream_debt, recvVars>>
    /\ UNCHANGED <<write_ctl, karma_head, packetVars>>

\* clientw or set_rkarma: a client has something to acknowledge or is gone.
ClientHasKarma(e) ==
    /\ Idle(SideOf(e))
    /\ HasClients(e) /\ ~karma_head[e]
    /\ karma_head' = [karma_head EXCEPT ![e] = TRUE]
    /\ write_ctl' = [write_ctl EXCEPT ![e] = @ \/ rstream_karma[e] < AckThreshold]
    /\ UNCHANGED <<connVars, fdVars, sendVars, stream_debt, recvVars>>
    /\ UNCHANGED <<write_data, packetVars>>

-----------------------------------------------------------------------------
Handshake ==
    \/ MuxConnected
    \/ \E c \in Conn : Accept(c)
    \/ \E c \in Conn, whole \in BOOLEAN : DemuxReadsKey(c, whole)
    \/ \E e \in End : ReadPosition(e)

Disconnect ==
    \/ MuxDrops
    \/ DemuxDrops
    \/ \E d \in Ctx : DemuxReadsEnd(d) \/ Expire(d)
    \/ \E c \in Conn : Break(c)
    \/ \E e \in End : WriteFails(e)

Transfer ==
    \E e \in End :
        \/ ResendByte(e) \/ WriteByte(e) \/ ReadByte(e)
        \/ GrabControl(e) \/ \E n \in PacketSizes \cup {0} : GrabData(e, n)
        \/ Stall(e) \/ Resume(e)
        \/ ClientHasData(e) \/ ClientHasKarma(e)

Next == Handshake \/ Disconnect \/ Transfer

Spec == Init /\ [][Next]_vars

\* A handler of the event loop runs whenever its socket stays ready; mainw
\* returns; epoll reports every ready socket between two calls of mainw.
Fairness ==
    /\ WF_vars(MuxConnected)
    /\ \A c \in Conn :
         /\ SF_vars(Accept(c))
         /\ SF_vars(\E whole \in BOOLEAN : DemuxReadsKey(c, whole))
    /\ \A e \in End :
         /\ SF_vars(ReadPosition(e))
         /\ SF_vars(ReadByte(e))
         /\ WF_vars(ResendByte(e))
         /\ WF_vars(WriteByte(e) \/ Stall(e) \/ WriteFails(e))

FairSpec == Spec /\ Fairness

-----------------------------------------------------------------------------
(* What the link promises *)

TypeOK ==
    /\ nconn \in Conn
    /\ up \in [Conn -> BOOLEAN]
    /\ key \in [Conn -> BOOLEAN]
    /\ hdr \in [Conn -> [Side -> {NoPos} \cup 0 .. GlobalKarma - 1]]
    /\ net \in [Conn -> [Side -> Seq(Nat)]]
    /\ owner \in [Conn -> End]
    /\ mainfd \in [End -> {None} \cup Conn]
    /\ handshake \in [End -> {"none", "connecting", "key", "pos", "up", "burned"}]
    /\ stream_karma \in [End -> 0 .. GlobalKarma - 1]
    /\ stream_pos \in [End -> 0 .. GlobalKarma - 1]
    /\ stream_debt \in [End -> 0 .. GlobalKarma - 1]
    /\ stream \in [End -> [0 .. GlobalKarma - 1 -> Nat]]
    /\ rstream_pos \in [End -> 0 .. GlobalKarma - 1]
    /\ rstream_karma \in [End -> 0 .. GlobalKarma - 1]
    /\ write_ctl \in [End -> BOOLEAN]
    /\ write_data \in [End -> BOOLEAN]
    /\ karma_head \in [End -> BOOLEAN]
    /\ wout \in [End -> [left : Nat, ack : 0 .. GlobalKarma - 1]]
    /\ stalled \in [End -> BOOLEAN]
    /\ written \in [End -> Seq(Nat)]
    /\ delivered \in [End -> Seq(Nat)]

\* The contexts that hold a session with the mux, and the streams of a session.
Session == {d \in Ctx : handshake[d] \in {"pos", "up"}}
Paired(e, p) == (e = Mux /\ p \in Session) \/ (p = Mux /\ e \in Session)

\* A connection that presents the mux's key is switched into the context the
\* mux already has at the demux (mainr, handshake_st == KEYSZ); there are
\* never two contexts serving the same mux.
OneContext == \A c, d \in Session : c = d

\* Every byte written is read once and in order, across any number of broken,
\* dropped and replaced connections: what has been read is a prefix of what
\* has been written (stream_debt, mainr, mainw).
ReadsPrefix ==
    \A e, p \in End : Paired(e, p) =>
        /\ Len(delivered[p]) <= Len(written[e])
        /\ \A i \in 1 .. Len(delivered[p]) : delivered[p][i] = i

\* The credit returned by control packets is neither lost nor counted twice:
\* what e may still send, what is on its way or unread, what p has read but not
\* acknowledged and what is acknowledged but not yet seen by e always add up to
\* the buffer size less one (stream_karma, write_ack, read_ack).
CreditConserved ==
    \A e, p \in End : Paired(e, p) =>
        /\ Len(delivered[e]) <= Len(written[p])
        /\ stream_karma[e] + (Len(written[e]) - Len(delivered[p]))
             + rstream_karma[p] + wout[p].ack
             + (Total(written[p]) - Granted(written[p], Len(delivered[e])))
           = GlobalKarma - 1

\* A byte that the peer may still ask for has not been overwritten in the
\* circular buffer: it is where mainw looks for it when it resends its debt.
DebtStillBuffered ==
    \A e, p \in End : Paired(e, p) =>
        \A n \in Len(delivered[p]) + 1 .. Len(written[e]) :
            stream[e][Back(stream_pos[e], Len(written[e]) + 1 - n)] = n

\* Once both sides have finished the handshake on a connection that is up, the
\* bytes on it and the remaining debt are exactly the bytes not yet read.
HandshakeAgrees ==
    \A e, p \in End :
        LET c == mainfd[e] IN
        Paired(e, p) /\ Linked(e) /\ Linked(p) /\ c = mainfd[p] /\ up[c] =>
            Len(delivered[p]) + Len(net[c][SideOf(p)]) + stream_debt[e]
              = Len(written[e])

\* When a connection is switched into another context, the preliminary context
\* has let go of it: freeing that context later (free_context) must not close
\* the connection under the context that uses it, whatever faults occurred.
OneOwner ==
    \A c, d \in Ctx : mainfd[c] # None /\ mainfd[c] = mainfd[d] => c = d

\* The assertion of write_ack: the control client is in the write queue exactly
\* when there is something to acknowledge.
AckQueuedExactly ==
    \A e \in End :
        write_ctl[e] <=> karma_head[e] \/ rstream_karma[e] >= AckThreshold

\* A side without karma is not forgotten: when everything it wrote has been
\* read, the peer has an acknowledgement queued, in wout, or on its way.
KarmaComesBack ==
    \A e, p \in End :
        Paired(e, p) /\ stream_karma[e] = 0 /\ Len(delivered[p]) = Len(written[e]) =>
            \/ write_ctl[p] \/ wout[p].ack > 0
            \/ Total(written[p]) > Granted(written[p], Len(delivered[e]))

\* The link implements a byte pipe in each direction.
SentTo(s) ==
    IF s = "demux" THEN Len(written[Mux])
    ELSE IF Session = {} THEN 0 ELSE Len(written[Oldest(Session)])
ReadBy(s) ==
    IF s = "mux" THEN delivered[Mux]
    ELSE IF Session = {} THEN <<>> ELSE delivered[Oldest(Session)]

Pipe == INSTANCE BytePipe WITH
    Dir <- Side, Window <- GlobalKarma - 1,
    sent <- [s \in Side |-> SentTo(s)],
    received <- [s \in Side |-> ReadBy(s)]

\* The reconnecting stream is a reliable byte pipe (all of tcpmux.c's link).
ImplementsPipe == Pipe!Spec

\* When the mux's connection eventually stays up, every byte that was written
\* is read, the ones written to connections now gone included (MaxBytes makes
\* the writers stop, so all of them have been read again and again).
Stable == up[mainfd[Mux]]
EverythingArrives ==
    <>[]Stable => []<>(\A s \in Side : SentTo(s) = Len(ReadBy(s)))
=============================================================================
