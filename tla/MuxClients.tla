----------------------------- MODULE MuxClients -----------------------------
(***************************************************************************)
(* The clients of src/tcpmux/tcpmux.c: TCP connections accepted by a mux,  *)
(* carried in packets over the link to the demux, which opens a connection *)
(* of its own for each.  The link is what MuxLink shows it to be, a        *)
(* reliable byte pipe, here a queue of whole packets that may be full.     *)
(*                                                                         *)
(* A side is one single-threaded process.  Its control state is a stack:   *)
(* an event of the epoll batch (pending), inside it mainr (reading, rin)   *)
(* or clientw (cw), inside either of them mainw (in_mainw).  The innermost *)
(* one runs.  A handler touches its own process and one end of each queue  *)
(* of the link, so handlers of the two sides are interleaved only where    *)
(* one of them could stop: between events and between packets (Quiet).     *)
(*                                                                         *)
(* A client_data is a member of Obj, used once: an address that is freed   *)
(* and allocated again is another member.  A unit of data is <<o, n>>, the *)
(* n-th unit read from the socket of o; the sockets and what the programs  *)
(* behind them do is nondeterministic.                                     *)
(***************************************************************************)
EXTENDS Integers, Sequences, FiniteSets

CONSTANTS
    ClientKarma,   \* CLIENT_KARMA: size of out_buf
    AckThreshold,  \* ACK_THRESHOLD: units written before they are acknowledged
    PacketSize,    \* VPACKETSIZE, for data
    AckEntries,    \* VPACKETSIZE, in entries of a control packet
    MaxObj,        \* bound: clients ever allocated by a side
    MaxId,         \* bound: ids 1 .. MaxId
    MaxData,       \* bound: units read from a socket, by side
    LinkCap,       \* bound: packets on the link in each direction
    MaxBatch,      \* MAX_EVENTS: events returned by one epoll_wait
    Environment    \* which of AllEnvironment may happen

\* "full": the link's socket takes no more though fewer than LinkCap packets are
\* on it, or the global karma is used up.
\* "reconnect": the link is replaced, with bytes left to resend.
\* "global_ack": the count of bytes read from the link crosses ACK_THRESHOLD.
\* "end": reading from a client meets the end of its data, or fails.
\* "error": connecting to the server or writing to a client fails later.
\* "connect_fails": connect() to the server fails at once.
\* "blocked": a client's socket takes no more.
AllEnvironment ==
    {"full", "reconnect", "global_ack", "end", "error", "connect_fails", "blocked"}

Side == {"mux", "demux"}

ASSUME ConstantsOK ==
    /\ ClientKarma \in Nat \ {0} /\ AckThreshold \in 1 .. ClientKarma
    /\ PacketSize \in Nat \ {0} /\ AckEntries \in Nat \ {0}
    /\ MaxObj \in Nat /\ MaxId \in Nat /\ MaxData \in [Side -> Nat]
    /\ LinkCap \in Nat \ {0} /\ MaxBatch \in Nat \ {0}
    /\ Environment \subseteq AllEnvironment

Peer(s) == IF s = "mux" THEN "demux" ELSE "mux"
Obj == 1 .. MaxObj
None == 0
Control == 0         \* client_table[0], the dummy control client
Main == 0            \* the event of the main socket
Listener == -1       \* the event of the listening socket of the mux
End == -1            \* the karma that announces the end of a client

VARIABLES
    client,      \* client[s][o]: struct client_data
    table,       \* client_table: the client with an id, or None
    write_q,     \* write_head .. write_tail
    karma_q,     \* karma_head .. karma_tail
    ack_due,     \* rstream_karma >= ACK_THRESHOLD
    wout,        \* the packet being written, NoPacket if wout.id == 0
    link,        \* link[s]: the packets on their way to s
    rin,         \* the packet being processed by mainr
    reading,     \* mainr is running
    cw,          \* the client clientw is running for, or None
    out_due,     \* the event being handled also has EPOLLOUT, clientw is due
    in_mainw,    \* mainw is running
    pending,     \* the events of the batch still to be handled
    failed       \* how the program ended, "no" while it runs

linkVars == <<wout, link>>
runVars  == <<rin, reading, cw, out_due, pending, failed>>
vars == <<client, table, write_q, karma_q, ack_due, in_mainw, linkVars, runVars>>

NoPacket == [id |-> 0, data |-> <<>>, acks |-> <<>>]
ControlId == -1

\* s: -1 before the socket exists and after it is closed; "unwatched" is the
\* socket of a failed connect(), which never got into epoll.
\* taken, given, granted and mate are history: units read from s, units written
\* to s, the credit given to the other side, and the mux's client that a demux
\* client was created for.  The side that accepts a client starts with wkarma of
\* credit; the other side has given it.
NewClient(id, s, connecting, wkarma, mate) ==
    [life |-> "live", id |-> id, s |-> s, is_connecting |-> connecting,
     is_rdead |-> FALSE, wkarma |-> wkarma, rkarma |-> 0, out |-> <<>>,
     taken |-> 0, given |-> <<>>, granted |-> ClientKarma - wkarma, mate |-> mate]
Unborn == [NewClient(0, "closed", FALSE, 0, None) EXCEPT !.life = "unborn"]

Init ==
    /\ client = [s \in Side |-> [o \in Obj |-> Unborn]]
    /\ table = [s \in Side |-> [i \in 1 .. MaxId |-> None]]
    /\ write_q = [s \in Side |-> <<>>]
    /\ karma_q = [s \in Side |-> <<>>]
    /\ ack_due = [s \in Side |-> FALSE]
    /\ wout = [s \in Side |-> NoPacket]
    /\ link = [s \in Side |-> <<>>]
    /\ rin = [s \in Side |-> NoPacket]
    /\ reading = [s \in Side |-> FALSE]
    /\ cw = [s \in Side |-> None]
    /\ out_due = [s \in Side |-> FALSE]
    /\ in_mainw = [s \in Side |-> FALSE]
    /\ pending = [s \in Side |-> {}]
    /\ failed = "no"

Open(c) == c.s # "closed"        \* s != -1
CanUse(c) == c.life = "live" /\ Open(c) /\ ~c.is_connecting

\* s may take a step of its innermost handler.
Quiet(s) == ~in_mainw[s] /\ cw[s] = None /\ rin[s] = NoPacket
Turn(s) == failed = "no" /\ Quiet(Peer(s))
Returned(s) == Turn(s) /\ ~in_mainw[s]

-----------------------------------------------------------------------------
(* The queues.  write_q is a list threaded through the clients, and the    *)
(* tail cannot be told from a client that is in no list: pushing the tail  *)
(* again makes it its own successor, which reads as a second entry until   *)
(* the next push overwrites it.                                            *)

Linked(q, x) == \E i \in 1 .. Len(q) - 1 : q[i] = x          \* cd->next

Enqueue(q, x) ==
    IF Len(q) > 1 /\ q[Len(q)] = q[Len(q) - 1]
    THEN [q EXCEPT ![Len(q)] = x]
    ELSE Append(q, x)

Pushed(q, x) == IF Linked(q, x) THEN q ELSE Enqueue(q, x)

\* push_writer not called from mainw: if the queue was empty mainw runs.
PushWriter(s, x) ==
    /\ write_q' = [write_q EXCEPT ![s] = Pushed(@, x)]
    /\ in_mainw' = [in_mainw EXCEPT ![s] = write_q[s] = <<>>]

NoPush == UNCHANGED <<write_q, in_mainw>>

\* Client o of s gets rkarma nk and now has something to acknowledge
\* (set_rkarma, clientw).
NoticedAgain(s, o, nk) == nk = End \/ nk >= AckThreshold  \* mutant
NoticedLate(s, o, nk) ==  \* mutant
    /\ client[s][o].rkarma \in 1 .. AckThreshold - 1
    /\ nk = End \/ nk >= AckThreshold
NoticedAbove(s, o, nk) ==  \* mutant
    /\ client[s][o].rkarma \in 0 .. AckThreshold - 1
    /\ nk = End \/ nk > AckThreshold
Noticed(s, o, nk) ==
    /\ client[s][o].rkarma \in 0 .. AckThreshold - 1
    /\ nk = End \/ nk >= AckThreshold

WakesControl(s, o, nk) == Noticed(s, o, nk) /\ karma_q[s] = <<>> /\ ~ack_due[s]

QueueKarma(s, o, nk) ==
    karma_q' = [karma_q EXCEPT ![s] = IF Noticed(s, o, nk) THEN Append(@, o) ELSE @]

SetRkarma(s, o, nk) ==
    /\ QueueKarma(s, o, nk)
    /\ IF WakesControl(s, o, nk) THEN PushWriter(s, Control) ELSE NoPush

\* disconnect_client, of a socket that is in epoll.  client is left to the caller.
Disconnected(c) == [c EXCEPT !.s = "closed", !.rkarma = End]

-----------------------------------------------------------------------------
(* mainw: write packets while a client is queued.                          *)

\* write_ack: client c is in the packet; if both ends are closed it is burned.
Acknowledged(c) ==
    [c EXCEPT !.rkarma = 0, !.life = IF c.is_rdead THEN "burned" ELSE @,
              !.granted = IF c.rkarma = End THEN @ ELSE @ + c.rkarma]

\* write_ack: as many entries as fit.
GrabControl(s) ==
    LET n == IF Len(karma_q[s]) < AckEntries THEN Len(karma_q[s]) ELSE AckEntries
        now == {karma_q[s][i] : i \in 1 .. n}
        sound == /\ ack_due[s] \/ karma_q[s] # <<>>
                 /\ \A o \in now : LET c == client[s][o] IN
                      /\ c.rkarma = End \/ c.rkarma \in AckThreshold .. ClientKarma
                      /\ c.is_rdead => c.rkarma = End
    IN /\ Turn(s) /\ in_mainw[s] /\ wout[s] = NoPacket
       /\ write_q[s] # <<>> /\ Head(write_q[s]) = Control
       /\ failed' = IF sound THEN "no" ELSE "write_ack"
       /\ wout' = [wout EXCEPT ![s] =
             [id |-> ControlId, data |-> <<>>,
              acks |-> [i \in 1 .. n |-> LET o == karma_q[s][i] IN
                          [id |-> client[s][o].id, karma |-> client[s][o].rkarma,
                           from |-> o, granted |-> Acknowledged(client[s][o]).granted]]]]
       /\ karma_q' = [karma_q EXCEPT ![s] = SubSeq(@, n + 1, Len(@))]
       /\ ack_due' = [ack_due EXCEPT ![s] = FALSE]
       /\ client' = [client EXCEPT ![s] = [o \in Obj |->
             IF o \in now THEN Acknowledged(@[o]) ELSE @[o]]]
       /\ table' = [table EXCEPT ![s] = [i \in 1 .. MaxId |->
             IF @[i] \in now /\ client[s][@[i]].is_rdead THEN None ELSE @[i]]]
       /\ write_q' = [write_q EXCEPT ![s] =
             IF Len(karma_q[s]) > n THEN Enqueue(Tail(@), Control) ELSE Tail(@)]
       /\ UNCHANGED <<in_mainw, link, rin, reading, cw, out_due, pending>>

\* A client that was closed while it was queued.
SkipDead(s) ==
    /\ Turn(s) /\ in_mainw[s] /\ wout[s] = NoPacket /\ write_q[s] # <<>>
    /\ LET o == Head(write_q[s]) IN
         /\ o # Control
         /\ client[s][o].life # "live" \/ ~Open(client[s][o])
    /\ write_q' = [write_q EXCEPT ![s] = Tail(@)]
    /\ in_mainw' = [in_mainw EXCEPT ![s] = Tail(write_q[s]) # <<>>]
    /\ UNCHANGED <<client, table, karma_q, ack_due, linkVars, runVars>>

\* k units of client c are in the packet.
SentUncounted(c, k) == [c EXCEPT !.taken = @ + k]  \* mutant
Sent(c, k) == [c EXCEPT !.wkarma = @ - k, !.taken = @ + k]

\* k units are read from client o, as many as fit or as there are.
GrabData(s, o, k) ==
    LET c == client[s][o]
        room == IF PacketSize < c.wkarma THEN PacketSize ELSE c.wkarma
        rest == Tail(write_q[s])
        more == k = room /\ c.wkarma - k > 0
    IN /\ Turn(s) /\ in_mainw[s] /\ wout[s] = NoPacket /\ write_q[s] # <<>>
       /\ Head(write_q[s]) = o /\ c.life = "live" /\ Open(c)
       /\ k \in 0 .. room /\ c.taken + k <= MaxData[s]
       /\ client' = [client EXCEPT ![s][o] = Sent(@, k)]
       /\ write_q' = [write_q EXCEPT ![s] = IF more THEN Enqueue(rest, o) ELSE rest]
       /\ wout' = [wout EXCEPT ![s] =
             IF k = 0 THEN NoPacket
             ELSE [id |-> c.id, acks |-> <<>>,
                   data |-> [i \in 1 .. k |-> <<o, c.taken + i>>]]]
       /\ in_mainw' = [in_mainw EXCEPT ![s] = k > 0 \/ rest # <<>>]
       /\ UNCHANGED <<table, karma_q, ack_due, link, runVars>>

\* The end of client o is read with nothing before it: disconnect_client(cd, 1).
GrabEnd(s, o) ==
    LET c == client[s][o]
        rest == Tail(write_q[s])
        queue == IF WakesControl(s, o, End) THEN Pushed(rest, Control) ELSE rest
    IN /\ "end" \in Environment
       /\ Turn(s) /\ in_mainw[s] /\ wout[s] = NoPacket /\ write_q[s] # <<>>
       /\ Head(write_q[s]) = o /\ c.life = "live" /\ Open(c) /\ c.wkarma > 0
       /\ client' = [client EXCEPT ![s][o] = Disconnected(@)]
       /\ QueueKarma(s, o, End)
       /\ write_q' = [write_q EXCEPT ![s] = queue]
       /\ in_mainw' = [in_mainw EXCEPT ![s] = queue # <<>>]
       /\ UNCHANGED <<table, ack_due, linkVars, runVars>>

\* The rest of the packet is written.
DumpOnce(s) ==  \* mutant: one packet for each call of mainw
    /\ Turn(s) /\ in_mainw[s] /\ wout[s] # NoPacket
    /\ Len(link[Peer(s)]) < LinkCap
    /\ link' = [link EXCEPT ![Peer(s)] = Append(@, wout[s])]
    /\ wout' = [wout EXCEPT ![s] = NoPacket]
    /\ in_mainw' = [in_mainw EXCEPT ![s] = FALSE]
    /\ UNCHANGED <<client, table, write_q, karma_q, ack_due, runVars>>
Dump(s) ==
    /\ Turn(s) /\ in_mainw[s] /\ wout[s] # NoPacket
    /\ Len(link[Peer(s)]) < LinkCap
    /\ link' = [link EXCEPT ![Peer(s)] = Append(@, wout[s])]
    /\ wout' = [wout EXCEPT ![s] = NoPacket]
    /\ in_mainw' = [in_mainw EXCEPT ![s] = write_q[s] # <<>>]
    /\ UNCHANGED <<client, table, write_q, karma_q, ack_due, runVars>>

\* mainw returns with work left: the link takes no more for now, or there is no
\* connection when it is called.
Stall(s) ==
    /\ Turn(s) /\ in_mainw[s]
    /\ \/ "reconnect" \in Environment
       \/ wout[s] # NoPacket /\ ("full" \in Environment \/ Len(link[Peer(s)]) = LinkCap)
    /\ in_mainw' = [in_mainw EXCEPT ![s] = FALSE]
    /\ UNCHANGED <<client, table, write_q, karma_q, ack_due, linkVars, runVars>>

-----------------------------------------------------------------------------
(* clientw: write out_buf to the client's socket.                          *)

EnterClientwNever(s) ==  \* mutant
    /\ Returned(s) /\ out_due[s]
    /\ out_due' = [out_due EXCEPT ![s] = FALSE]
    /\ cw' = [cw EXCEPT ![s] = None]
    /\ UNCHANGED <<client, table, write_q, karma_q, ack_due, in_mainw, linkVars,
                   rin, reading, pending, failed>>

\* The EPOLLOUT part of an event, after clientr has returned.
EnterClientw(s) ==
    /\ Returned(s) /\ out_due[s]
    /\ out_due' = [out_due EXCEPT ![s] = FALSE]
    /\ cw' = [cw EXCEPT ![s] =
         IF CanUse(client[s][@]) /\ client[s][@].out # <<>> THEN @ ELSE None]
    /\ UNCHANGED <<client, table, write_q, karma_q, ack_due, in_mainw, linkVars,
                   rin, reading, pending, failed>>

ClientWrite(s, k) ==
    LET o == cw[s]
        c == client[s][o]
    IN /\ Returned(s) /\ cw[s] # None /\ ~out_due[s]
       /\ k \in 1 .. Len(c.out)
       /\ client' = [client EXCEPT
             ![s][o] = [c EXCEPT !.out = SubSeq(@, k + 1, Len(@)),
                                 !.given = @ \o SubSeq(c.out, 1, k),
                                 !.rkarma = @ + k]]
       /\ SetRkarma(s, o, c.rkarma + k)
       /\ cw' = [cw EXCEPT ![s] = IF k = Len(c.out) THEN None ELSE o]
       /\ UNCHANGED <<table, ack_due, linkVars, rin, reading, out_due, pending, failed>>

\* EAGAIN.
ClientBlocked(s) ==
    /\ "blocked" \in Environment
    /\ Returned(s) /\ cw[s] # None /\ ~out_due[s]
    /\ cw' = [cw EXCEPT ![s] = None]
    /\ UNCHANGED <<client, table, write_q, karma_q, ack_due, in_mainw, linkVars,
                   rin, reading, out_due, pending, failed>>

ClientWriteFails(s) ==
    /\ "error" \in Environment
    /\ Returned(s) /\ cw[s] # None /\ ~out_due[s]
    /\ client' = [client EXCEPT ![s][cw[s]] = Disconnected(@)]
    /\ SetRkarma(s, cw[s], End)
    /\ cw' = [cw EXCEPT ![s] = None]
    /\ UNCHANGED <<table, ack_due, linkVars, rin, reading, out_due, pending, failed>>

-----------------------------------------------------------------------------
(* mainr: read packets from the link.                                      *)

AtMainr(s) == Returned(s) /\ cw[s] = None /\ reading[s]

\* The packet has been read; on the way the count of bytes to acknowledge may
\* have crossed the threshold, and the control client was queued.
ReadPacket(s, crosses) ==
    /\ AtMainr(s) /\ rin[s] = NoPacket /\ link[s] # <<>>
    /\ crosses => "global_ack" \in Environment /\ ~ack_due[s]
    /\ rin' = [rin EXCEPT ![s] =
         IF Head(link[s]).id = ControlId /\ Head(link[s]).acks = <<>>
         THEN NoPacket ELSE Head(link[s])]
    /\ link' = [link EXCEPT ![s] = Tail(@)]
    /\ ack_due' = [ack_due EXCEPT ![s] = @ \/ crosses]
    /\ IF crosses /\ karma_q[s] = <<>> THEN PushWriter(s, Control) ELSE NoPush
    /\ UNCHANGED <<client, table, karma_q, wout, reading, cw, out_due, pending, failed>>

\* get_client: the client with this id; the demux makes one if there is none.
KnownOpen(s, id) == table[s][id] # None /\ client[s][table[s][id]].s = "open"  \* mutant
Known(s, id) == table[s][id] # None
Fresh(s) == {o \in Obj : client[s][o].life = "unborn"}
Lowest(S) == CHOOSE o \in S : \A x \in S : o <= x

\* The client a demux creates: connect() is under way, done, or has failed.
CreatedWithKarma(id, from) ==  \* mutant: no wkarma = 0
    {NewClient(id, "open", TRUE, ClientKarma, from)}
Created(id, from) ==
    {NewClient(id, "open", TRUE, 0, from), NewClient(id, "open", FALSE, 0, from)}
      \cup IF "connect_fails" \in Environment
           THEN {NewClient(id, "unwatched", TRUE, 0, from)} ELSE {}

GetClient(s, id, from) ==
    IF Known(s, id) THEN {<<table[s][id], client[s][table[s][id]]>>}
    ELSE {Lowest(Fresh(s))} \X Created(id, from)

\* The mux makes no client: get_client returns NULL.
Unexpected(s, id) == s = "mux" /\ ~Known(s, id)
CanGet(s, id) == Known(s, id) \/ Unexpected(s, id) \/ Fresh(s) # {}

\* read_ack: credit for client o.
CreditedAnew(s, o, c, karma) ==  \* mutant
    /\ karma >= 0
    /\ client' = [client EXCEPT ![s][o] = [c EXCEPT !.wkarma = karma]]
    /\ table' = [table EXCEPT ![s][c.id] = o]
    /\ IF ~c.is_connecting /\ c.wkarma = 0 THEN PushWriter(s, o) ELSE NoPush
    /\ UNCHANGED karma_q
Credited(s, o, c, karma) ==
    /\ karma >= 0
    /\ client' = [client EXCEPT ![s][o] = [c EXCEPT !.wkarma = @ + karma]]
    /\ table' = [table EXCEPT ![s][c.id] = o]
    /\ IF ~c.is_connecting /\ c.wkarma = 0 THEN PushWriter(s, o) ELSE NoPush
    /\ UNCHANGED karma_q

\* read_ack: the other side has closed its end.
EndAnnouncedEarly(s, o, c) ==  \* mutant: burned before its own end is announced
    LET known == [c EXCEPT !.is_rdead = TRUE]
        burnt == c.s = "closed"
    IN /\ client' = [client EXCEPT ![s][o] =
             IF c.s = "open" THEN Disconnected(known)
             ELSE IF burnt THEN [c EXCEPT !.life = "burned"] ELSE known]
       /\ table' = [table EXCEPT ![s][c.id] = IF burnt THEN None ELSE o]
       /\ IF c.s = "open" THEN SetRkarma(s, o, End) ELSE NoPush /\ UNCHANGED karma_q
EndAnnounced(s, o, c) ==
    LET known == [c EXCEPT !.is_rdead = TRUE]
        burnt == c.s = "closed" /\ c.rkarma = 0
    IN /\ client' = [client EXCEPT ![s][o] =
             IF c.s = "open" THEN Disconnected(known)
             ELSE IF burnt THEN [c EXCEPT !.life = "burned"] ELSE known]
       /\ table' = [table EXCEPT ![s][c.id] = IF burnt THEN None ELSE o]
       /\ IF c.s = "open" THEN SetRkarma(s, o, End) ELSE NoPush /\ UNCHANGED karma_q

EntryDone(s) ==
    LET acks == rin[s].acks
    IN rin' = [rin EXCEPT ![s] =
                 IF Len(acks) = 1 THEN NoPacket ELSE [rin[s] EXCEPT !.acks = Tail(acks)]]

\* An entry for a client the mux does not have is passed over.
ReadEntry(s) ==
    /\ AtMainr(s) /\ rin[s] # NoPacket /\ rin[s].id = ControlId
    /\ LET e == Head(rin[s].acks) IN
         /\ CanGet(s, e.id)
         /\ IF Unexpected(s, e.id)
            THEN NoPush /\ UNCHANGED <<client, table, karma_q>>
            ELSE \E t \in GetClient(s, e.id, e.from) :
                   \/ Credited(s, t[1], t[2], e.karma)
                   \/ e.karma = End /\ EndAnnounced(s, t[1], t[2])
    /\ EntryDone(s)
    /\ UNCHANGED <<ack_due, linkVars, reading, cw, out_due, pending, failed>>

\* t is the client and its number; clientw follows if it has a socket to write to.
Buffered(s, t, units) ==
    IF ClientKarma - Len(t[2].out) < Len(units)
    THEN failed' = "no_room" /\ UNCHANGED <<client, table, cw>>
    ELSE /\ client' = [client EXCEPT ![s][t[1]] = [t[2] EXCEPT !.out = @ \o units]]
         /\ table' = [table EXCEPT ![s][t[2].id] = t[1]]
         /\ cw' = [cw EXCEPT ![s] = IF CanUse(t[2]) THEN t[1] ELSE None]
         /\ UNCHANGED failed

\* Data for a client the mux does not have: mainr and muxloop return.
ReadData(s) ==
    /\ AtMainr(s) /\ rin[s] # NoPacket /\ rin[s].id # ControlId
    /\ CanGet(s, rin[s].id)
    /\ IF Unexpected(s, rin[s].id)
       THEN failed' = "unexpected_client" /\ UNCHANGED <<client, table, cw>>
       ELSE \E t \in GetClient(s, rin[s].id, rin[s].data[1][1]) : Buffered(s, t, rin[s].data)
    /\ rin' = [rin EXCEPT ![s] = NoPacket]
    /\ UNCHANGED <<write_q, karma_q, ack_due, in_mainw, linkVars, reading, out_due, pending>>

\* mainr finds no more and returns; the event has EPOLLIN only.
LeaveMainr(s) ==
    /\ AtMainr(s) /\ rin[s] = NoPacket
    /\ reading' = [reading EXCEPT ![s] = FALSE]
    /\ UNCHANGED <<client, table, write_q, karma_q, ack_due, in_mainw, linkVars,
                   rin, cw, out_due, pending, failed>>

\* The event has EPOLLOUT as well: mainw is called, and does nothing unless a
\* client is queued.
MainWritable(s) ==
    /\ AtMainr(s) /\ rin[s] = NoPacket
    /\ reading' = [reading EXCEPT ![s] = FALSE]
    /\ in_mainw' = [in_mainw EXCEPT ![s] = write_q[s] # <<>>]
    /\ UNCHANGED <<client, table, write_q, karma_q, ack_due, linkVars,
                   rin, cw, out_due, pending, failed>>

\* mainr completes the handshake of a new connection and calls mainw, which
\* goes on with the packet it was writing even if no client is queued.
LinkReplaced(s) ==
    /\ "reconnect" \in Environment
    /\ AtMainr(s) /\ rin[s] = NoPacket
    /\ in_mainw' = [in_mainw EXCEPT ![s] = write_q[s] # <<>> \/ wout[s] # NoPacket]
    /\ UNCHANGED <<client, table, write_q, karma_q, ack_due, linkVars, runVars>>

-----------------------------------------------------------------------------
(* muxloop.                                                                *)

BetweenEvents(s) == Returned(s) /\ cw[s] = None /\ ~reading[s]
Burned(s) == {o \in Obj : client[s][o].life = "burned"}
FreeIdsClosed(s) ==  \* mutant
    {i \in 1 .. MaxId : table[s][i] = None \/ ~Open(client[s][table[s][i]])}
FreeIds(s) == {i \in 1 .. MaxId : table[s][i] = None}

\* epoll_wait returns some of the sockets that may be ready.
Wait(s, batch) ==
    /\ BetweenEvents(s) /\ pending[s] = {} /\ Burned(s) = {}
    /\ batch # {} /\ Cardinality(batch) <= MaxBatch
    /\ batch \subseteq {Main} \cup {o \in Obj : client[s][o].s = "open"}
         \cup IF s = "mux" /\ Fresh(s) # {} /\ FreeIds(s) # {} THEN {Listener} ELSE {}
    /\ pending' = [pending EXCEPT ![s] = batch]
    /\ UNCHANGED <<client, table, write_q, karma_q, ack_due, in_mainw, linkVars,
                   rin, reading, cw, out_due, failed>>

MainEvent(s) ==
    /\ BetweenEvents(s) /\ Main \in pending[s]
    /\ pending' = [pending EXCEPT ![s] = @ \ {Main}]
    /\ reading' = [reading EXCEPT ![s] = TRUE]
    /\ UNCHANGED <<client, table, write_q, karma_q, ack_due, in_mainw, linkVars,
                   rin, cw, out_due, failed>>

\* The mux accepts a client under the lowest free id and announces it by
\* granting it its credit.
AcceptEvent(s) ==
    LET o == Lowest(Fresh(s))
        id == Lowest(FreeIds(s))
    IN /\ BetweenEvents(s) /\ Listener \in pending[s]
       /\ Fresh(s) # {} /\ FreeIds(s) # {}
       /\ client' = [client EXCEPT ![s][o] =
             [NewClient(id, "open", FALSE, ClientKarma, o) EXCEPT !.rkarma = ClientKarma]]
       /\ table' = [table EXCEPT ![s][id] = o]
       /\ SetRkarma(s, o, ClientKarma)
       /\ pending' = [pending EXCEPT ![s] = @ \ {Listener}]
       /\ UNCHANGED <<ack_due, linkVars, rin, reading, cw, out_due, failed>>

\* An event of client o: "in" and "out" are the flags EPOLLIN and EPOLLOUT.
ClientEvent(s, o, flags) ==
    LET c == client[s][o]
        up == [c EXCEPT !.is_connecting = FALSE]
    IN /\ BetweenEvents(s) /\ o \in pending[s]
       /\ c.is_connecting => Open(c)
       /\ client' = [client EXCEPT ![s][o] = up]
       /\ IF "in" \in flags /\ CanUse(up) THEN PushWriter(s, o) ELSE NoPush
       /\ cw' = [cw EXCEPT ![s] = IF "out" \in flags THEN o ELSE None]
       /\ out_due' = [out_due EXCEPT ![s] = "out" \in flags]
       /\ pending' = [pending EXCEPT ![s] = @ \ {o}]
       /\ UNCHANGED <<table, karma_q, ack_due, linkVars, rin, reading, failed>>

\* The connection of client o to the server could not be made.
ConnectFails(s, o) ==
    LET c == client[s][o]
    IN /\ "error" \in Environment
       /\ BetweenEvents(s) /\ o \in pending[s] /\ c.is_connecting /\ Open(c)
       /\ client' = [client EXCEPT ![s][o] = Disconnected(@)]
       /\ SetRkarma(s, o, End)
       /\ pending' = [pending EXCEPT ![s] = @ \ {o}]
       /\ UNCHANGED <<table, ack_due, linkVars, rin, reading, cw, out_due, failed>>

\* socket_connected(-1): the client was closed while it was still connecting,
\* by an earlier event of the batch.
ConnectLate(s, o) ==
    LET c == client[s][o]
    IN /\ BetweenEvents(s) /\ o \in pending[s] /\ c.is_connecting /\ ~Open(c)
       /\ failed' = "socket_connected"
       /\ UNCHANGED <<client, table, write_q, karma_q, ack_due, in_mainw, linkVars,
                      rin, reading, cw, out_due, pending>>

\* The end of the batch: burned clients are freed.  What happens when one of
\* them is still in the write queue is undefined, and not followed further.
Free(s) ==
    /\ BetweenEvents(s) /\ pending[s] = {} /\ Burned(s) # {}
    /\ client' = [client EXCEPT ![s] = [o \in Obj |->
          IF o \in Burned(s) THEN [@[o] EXCEPT !.life = "freed", !.s = "closed"]
          ELSE @[o]]]
    /\ failed' = IF \E i \in 1 .. Len(write_q[s]) : write_q[s][i] \in Burned(s)
                 THEN "queued_client_freed" ELSE "no"
    /\ UNCHANGED <<table, write_q, karma_q, ack_due, in_mainw, linkVars,
                   rin, reading, cw, out_due, pending>>

Mainw(s) ==
    \/ GrabControl(s) \/ SkipDead(s) \/ Dump(s) \/ Stall(s)
    \/ \E o \in Obj : GrabEnd(s, o) \/ \E k \in 0 .. PacketSize : GrabData(s, o, k)

Clientw(s) ==
    \/ EnterClientw(s) \/ ClientBlocked(s) \/ ClientWriteFails(s)
    \/ \E k \in 1 .. ClientKarma : ClientWrite(s, k)

Mainr(s) ==
    \/ \E crosses \in BOOLEAN : ReadPacket(s, crosses)
    \/ ReadEntry(s) \/ ReadData(s) \/ LeaveMainr(s)
    \/ MainWritable(s) \/ LinkReplaced(s)

Events(s) ==
    \/ MainEvent(s) \/ AcceptEvent(s) \/ Free(s)
    \/ \E o \in Obj : \/ ConnectFails(s, o) \/ ConnectLate(s, o)
                      \/ \E flags \in {{"in"}, {"out"}, {"in", "out"}} : ClientEvent(s, o, flags)

Next == \E s \in Side :
    \/ Mainw(s) \/ Clientw(s) \/ Mainr(s) \/ Events(s)
    \/ \E batch \in SUBSET ({Main, Listener} \cup Obj) : Wait(s, batch)

Spec == Init /\ [][Next]_vars

\* A handler that has started goes on and returns, mainr reads what there is,
\* and epoll reports the link's socket again and again: every arrival of data
\* and of room is an event.
Serve(s) ==
    \/ Mainw(s) \/ Clientw(s) \/ Events(s) \/ ReadEntry(s) \/ ReadData(s)

ReadOn(s) == ReadPacket(s, FALSE) \/ (link[s] = <<>> /\ MainWritable(s))

FairSpec ==
    /\ Spec
    /\ \A s \in Side : /\ SF_vars(Serve(s)) /\ SF_vars(ReadOn(s))
                       /\ SF_vars(Wait(s, {Main}))

\* Besides, epoll reports the sockets of the clients.
ClientFairSpec ==
    /\ FairSpec
    /\ \A s \in Side, o \in Obj :
         SF_vars(Wait(s, {o})) /\ SF_vars(ClientEvent(s, o, {"in", "out"}))

-----------------------------------------------------------------------------
Packet ==
    [id : ControlId .. MaxId, data : Seq(Obj \X (Nat \ {0})),
     acks : Seq([id : 1 .. MaxId, karma : {End} \cup 1 .. ClientKarma, from : Obj,
                 granted : Nat])]

\* The types; karma in either direction never leaves 0 .. CLIENT_KARMA.
TypeOK ==
    /\ client \in [Side -> [Obj ->
         [life : {"unborn", "live", "burned", "freed"}, id : 0 .. MaxId,
          s : {"closed", "open", "unwatched"}, is_connecting : BOOLEAN,
          is_rdead : BOOLEAN, wkarma : 0 .. ClientKarma, rkarma : End .. ClientKarma,
          out : Seq(Obj \X Nat), taken : Nat, given : Seq(Obj \X Nat),
          granted : Nat, mate : {None} \cup Obj]]]
    /\ table \in [Side -> [1 .. MaxId -> {None} \cup Obj]]
    /\ write_q \in [Side -> Seq({Control} \cup Obj)]
    /\ karma_q \in [Side -> Seq(Obj)]
    /\ ack_due \in [Side -> BOOLEAN]
    /\ wout \in [Side -> Packet]
    /\ link \in [Side -> Seq(Packet)]
    /\ rin \in [Side -> Packet]
    /\ cw \in [Side -> {None} \cup Obj]
    /\ reading \in [Side -> BOOLEAN]
    /\ out_due \in [Side -> BOOLEAN]
    /\ in_mainw \in [Side -> BOOLEAN]
    /\ pending \in [Side -> SUBSET ({Main, Listener} \cup Obj)]
    /\ failed \in {"no", "write_ack", "no_room", "unexpected_client",
                   "socket_connected", "queued_client_freed"}

\* Client o of s and client m of the other side are the two ends of a connection.
Mates(s, o, m) ==
    IF s = "demux" THEN client[s][o].mate = m ELSE client["demux"][m].mate = o

\* What a client has received is what its mate sent, from the start and in order:
\* never a unit of another client, or of an earlier client with the same id
\* (get_client, write_cbuf, clientw).
DataInOrder ==
    \A s \in Side, o \in Obj :
        LET received == client[s][o].given \o client[s][o].out
        IN \A i \in DOMAIN received :
             received[i][2] = i /\ Mates(s, o, received[i][1])

\* A client of the mux is opened at most once at the demux, however its credit,
\* its data and its end are spread over packets (get_client).
OpenedOnce ==
    \A d, e \in Obj :
        LET m == client["demux"][d].mate
        IN m # None /\ m = client["demux"][e].mate => d = e

PacketsTo(s) == (<<rin[s]>> \o link[s]) \o <<wout[Peer(s)]>>

\* The units of client o on their way, by the packet and the place in it.
UnitsOf(s, o) ==
    LET ps == PacketsTo(Peer(s))
    IN {u \in UNION {{i} \X DOMAIN ps[i].data : i \in DOMAIN ps} :
          ps[u[1]].data[u[2]][1] = o}

EntriesOf(s, o) ==
    LET ps == PacketsTo(Peer(s))
    IN {e \in UNION {{i} \X DOMAIN ps[i].acks : i \in DOMAIN ps} :
          ps[e[1]].acks[e[2]].from = o}

\* The units of karma on their way back from client o, by the entry and their
\* number in it.
KarmaOf(s, o) ==
    LET ps == PacketsTo(Peer(s))
    IN UNION {{e} \X (1 .. ps[e[1]].acks[e[2]].karma) : e \in EntriesOf(s, o)}

\* While both ends of a connection are open, what the sender may still send,
\* what is on its way, what waits in out_buf, what has been written but not
\* acknowledged and what is acknowledged but not yet read add up to CLIENT_KARMA.
CreditConserved ==
    \A s \in Side, o, m \in Obj :
        LET c == client[s][o]
            d == client[Peer(s)][m]
        IN Mates(s, o, m) /\ c.life = "live" /\ d.life = "live" /\ Open(c) /\ Open(d)
             /\ ~c.is_rdead /\ ~d.is_rdead =>
           c.wkarma + Cardinality(UnitsOf(s, o)) + Len(d.out) + d.rkarma
             + Cardinality(KarmaOf(Peer(s), m)) = ClientKarma

\* The end of a client is announced once and nothing of the client follows it,
\* so that its id may be used again behind it (write_ack, mainw).
EndIsLast ==
    \A s \in Side, o \in Obj :
        LET ps == PacketsTo(Peer(s))
        IN \A e \in EntriesOf(s, o) :
             ps[e[1]].acks[e[2]].karma = End =>
               /\ \A f \in EntriesOf(s, o) :
                    f[1] < e[1] \/ (f[1] = e[1] /\ f[2] <= e[2])
               /\ \A i \in e[1] + 1 .. Len(ps) :
                    \A j \in DOMAIN ps[i].data : ps[i].data[j][1] # o
               /\ client[s][o].rkarma = 0 /\ ~Open(client[s][o])

\* A client is forgotten only when both ends are closed and the other side has
\* forgotten it too or is about to read its end (write_ack, read_ack).
ForgottenTogether ==
    \A s \in Side, o, m \in Obj :
        Mates(s, o, m) /\ client[s][o].life \in {"burned", "freed"} =>
           /\ ~Open(client[Peer(s)][m])
           /\ \/ client[Peer(s)][m].life \in {"burned", "freed"}
              \/ \E e \in EntriesOf(s, o) :
                    PacketsTo(Peer(s))[e[1]].acks[e[2]].karma = End

\* A packet is given to the mate of the client that sent it, and what comes for
\* the mux is for a client it has (get_client).
Addressed ==
    \A s \in Side :
        /\ \A i \in DOMAIN rin[s].data :
              /\ ~Unexpected(s, rin[s].id)
              /\ Known(s, rin[s].id) => Mates(s, table[s][rin[s].id], rin[s].data[i][1])
        /\ \A i \in DOMAIN rin[s].acks :
              LET e == rin[s].acks[i]
              IN i = 1 => /\ ~Unexpected(s, e.id)
                          /\ Known(s, e.id) => Mates(s, table[s][e.id], e.from)

\* "No room for incoming packet (karma error)" is never reached.
RoomForPacket == failed # "no_room"
\* The assertions of write_ack about karma and dead clients hold.
AckAssertions == failed # "write_ack"
\* assert(s != -1) of socket_connected holds.
SocketOpen == failed # "socket_connected"
\* A client that is freed is no longer in the write queue, unless mainw did not come
\* to it because the link blocked in the middle of a packet or was lost (muxloop).
FreedNotQueued ==
    failed = "queued_client_freed" =>
        "reconnect" \in Environment \/ \E s \in Side : wout[s] # NoPacket

\* When one end of a connection closes the other is closed as well, both sides
\* forget it, and the id is free again (disconnect_client, read_ack, write_ack).
EndsMeet ==
    \A s \in Side, o \in Obj :
        (client[s][o].life = "live" /\ client[s][o].s = "closed")
          ~> (client[s][o].life = "freed")

\* A client that has used up its karma gets some back, as long as both ends stay
\* open: what the other side has written reaches ACK_THRESHOLD, is queued once,
\* and comes back in a control packet (clientw, write_ack, read_ack).
KarmaReturns ==
    \A s \in Side, o \in Obj :
        (client[s][o].s = "open" /\ client[s][o].wkarma = 0)
          ~> (client[s][o].s # "open" \/ client[s][o].wkarma > 0)

\* What has been read from a client is written to its mate as long as both stay
\* open, also when the mate was still connecting as it arrived (mainr, clientw).
DataArrives ==
    \A s \in Side, o \in Obj : \A n \in 1 .. MaxData[s] :
        (client[s][o].taken >= n)
          ~> \/ ~Open(client[s][o])
             \/ \E m \in Obj : /\ Mates(s, o, m)
                               /\ \/ Len(client[Peer(s)][m].given) >= n
                                  \/ ~Open(client[Peer(s)][m])
=============================================================================
