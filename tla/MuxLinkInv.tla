----------------------------- MODULE MuxLinkInv -----------------------------
(***************************************************************************)
(* The inductive invariant behind the theorems about MuxLink, for an       *)
(* environment without the optional faults (Faults = {}): a header reaches *)
(* the demux whole and contexts are not forgotten.                         *)
(***************************************************************************)
EXTENDS MuxLink

\* Which control states go with which connections.
FdShape ==
    /\ mainfd[Mux] = nconn
    /\ handshake[Mux] \in {"connecting", "pos", "up"}
    /\ \A d \in Ctx :
         /\ handshake[d] \in {"none", "key", "up", "burned"}
         /\ handshake[d] \in {"none", "burned"} => mainfd[d] = None
         /\ handshake[d] = "key" => mainfd[d] \in {None, d}
         /\ handshake[d] = "key" /\ mainfd[d] # None => key[d]
         /\ handshake[d] = "up" /\ mainfd[d] # None =>
              ~key[mainfd[d]] /\ owner[mainfd[d]] = d

\* Connections not yet established carry nothing; only the newest can be up.
Fresh(c) ==
    /\ ~key[c] /\ owner[c] = None /\ handshake[c] = "none"
    /\ hdr[c]["mux"] = NoPos /\ hdr[c]["demux"] = NoPos
    /\ net[c]["mux"] = <<>> /\ net[c]["demux"] = <<>>
ConnShape ==
    \A c \in Conn :
      /\ up[c] => c = nconn /\ handshake[Mux] # "connecting"
      /\ c > nconn \/ (c = nconn /\ handshake[Mux] = "connecting") => Fresh(c)
      /\ key[c] =>
           /\ owner[c] = None /\ handshake[c] \in {"none", "key"}
           /\ hdr[c]["mux"] = NoPos /\ hdr[c]["demux"] # NoPos
           /\ net[c]["mux"] = <<>> /\ net[c]["demux"] = <<>>
           /\ c = nconn => handshake[Mux] = "pos" /\ hdr[c]["demux"] = rstream_pos[Mux]
      /\ owner[c] = None => hdr[c]["mux"] = NoPos
      /\ owner[c] # None => handshake[owner[c]] = "up"

\* An end that takes part in no session is as make_context left it.
Untouched(e) ==
    /\ stream_karma[e] = GlobalKarma - 1 /\ stream_pos[e] = 0
    /\ rstream_pos[e] = 0 /\ rstream_karma[e] = 0 /\ wout[e] = NoPacket
    /\ written[e] = <<>> /\ delivered[e] = <<>>
Dormant ==
    /\ \A d \in Ctx : handshake[d] # "up" => Untouched(d)
    /\ (\A d \in Ctx : handshake[d] # "up") => Untouched(Mux)
    /\ handshake[Mux] = "up" => owner[mainfd[Mux]] # None

\* Only a packet under way carries credit.
Packets == \A e \in End : wout[e].left = 0 => wout[e].ack = 0

\* Credit granted never decreases along a stream.
Monotone(s) ==
    \A i, j \in 0 .. Len(s) : i <= j => Granted(s, i) <= Granted(s, j)

\* The bytes e wrote that p has not read.
Unread(e, p) == Len(written[e]) - Len(delivered[p])

\* The stream from e to p.
Stream(e, p) ==
    /\ Monotone(written[e])
    /\ Len(delivered[p]) <= Len(written[e])
    /\ \A i \in 1 .. Len(delivered[p]) : delivered[p][i] = i
    /\ stream_karma[e] + Unread(e, p) + rstream_karma[p] + wout[p].ack
         + (Total(written[p]) - Granted(written[p], Len(delivered[e])))
       = GlobalKarma - 1
    /\ stream_pos[e] - rstream_pos[p] \in {Unread(e, p), Unread(e, p) - GlobalKarma}
    /\ \A n \in Len(delivered[p]) + 1 .. Len(written[e]) :
         stream[e][Back(stream_pos[e], Len(written[e]) + 1 - n)] = n

\* The bytes in q are those that come after the first a bytes of a stream.
Follows(q, a) == \A i \in 1 .. Len(q) : q[i] = a + i

\* The bytes on connection c towards p continue what p has read.
Continues(c, e, p) ==
    LET q == net[c][SideOf(p)] IN
    /\ Follows(q, Len(delivered[p]))
    /\ Len(delivered[p]) + Len(q) <= Len(written[e])

\* Nothing is missing between what is on c and the debt e still has.
Agrees(c, e, p) ==
    Len(delivered[p]) + Len(net[c][SideOf(p)]) + stream_debt[e] = Len(written[e])

\* What connection c holds when context d has the session.
OnWire(c, d) ==
    /\ mainfd[d] = c => Continues(c, Mux, d)
    /\ mainfd[d] = c /\ c = nconn /\ handshake[Mux] = "pos" =>
         hdr[c]["mux"] = rstream_pos[d] /\ net[c]["demux"] = <<>>
    /\ mainfd[d] = c /\ c = nconn /\ handshake[Mux] = "up" /\ up[c] => Agrees(c, Mux, d)
    /\ owner[c] = d /\ c = nconn => Continues(c, d, Mux)
    /\ owner[c] = d /\ c = nconn /\ up[c] => mainfd[d] = c /\ Agrees(c, d, Mux)

Sessions ==
    \A d \in Ctx : handshake[d] = "up" =>
      /\ \A x \in Ctx : handshake[x] = "up" => x = d
      /\ Stream(Mux, d) /\ Stream(d, Mux)
      /\ \A c \in Conn : OnWire(c, d)

\* The inductive invariant.
IInv == TypeOK /\ FdShape /\ ConnShape /\ Dormant /\ Packets /\ Sessions
=============================================================================
