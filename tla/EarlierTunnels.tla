--------------------------- MODULE EarlierTunnels ---------------------------
(***************************************************************************)
(* The earlier programs of the tunnel.  nextctapudp and ctapudp choose and *)
(* find keys as rsctapudp does (module TunnelKeys), without the error      *)
(* correction of module TunnelFec.  ctap, over TCP, changes a used key     *)
(* before the next packet instead of after the last one; what it makes of  *)
(* the stream is module CtapStream.                                        *)
(***************************************************************************)
EXTENDS TunnelKeys

IsNext == version = "nextctapudp"
IsCtapudp == version = "ctapudp"
IsCtap == version = "ctap"

NextctapudpStart == TunnelInit /\ IsNext
NextctapudpTap == IsNext /\ options # "cores" /\ TapToNet
NextctapudpNet == IsNext /\ options # "cores" /\ NetToTap
NextctapudpTapThread == IsNext /\ mainlistenertap
NextctapudpNetThread == IsNext /\ mainlistenerudp

CtapudpStart == TunnelInit /\ IsCtapudp
CtapudpTap == IsCtapudp /\ options # "cores" /\ TapToNet
CtapudpNet == IsCtapudp /\ options # "cores" /\ NetToTap
CtapudpTapThread == IsCtapudp /\ mainlistenertap
CtapudpNetThread == IsCtapudp /\ mainlistenerudp

-----------------------------------------------------------------------------
CtapStart == TunnelInit /\ IsCtap

\* A key used too often is changed before the packet, and with -l the packet is
\* not sent when there is no other key.
KeyForFrame(s) ==
    IF s.cur.key = NoKey \/ s.waslimit \/ s.cur.usage <= PPK THEN KeyForPacket(s)
    ELSE IF s.q1 # <<>> THEN {TakeKey(s)}
    ELSE {IF t.q1 = <<>> THEN [t EXCEPT !.tosend = (options # "limit")] ELSE TakeLastKey(t)
             : t \in AfterGetLastKey(s)}

CtapTap ==
    /\ IsCtap /\ ~dead /\ reading = NoKey /\ Total[MaxKey] < MaxUses
    /\ \E s \in KeyForFrame(Sender) :
         IF s.dead \/ ~s.tosend
         THEN Sent(s) /\ UNCHANGED uses
         ELSE Sent(Used(s)) /\ uses' = [uses EXCEPT ![s.cur.key] = @ + 1]
    /\ UNCHANGED <<version, options, recvVars2, newest>>

CtapNet == IsCtap /\ NetToTap

\* The control port takes a posted key for a pointer to one.
CtapControl ==
    /\ IsCtap /\ ~dead /\ dead' = TRUE
    /\ UNCHANGED <<version, options, sendVars, q2, recvVars2, newest, refused>>

-----------------------------------------------------------------------------
TunnelsInit ==
    \/ TunnelInit /\ version = "rsctapudp"
    \/ NextctapudpStart \/ CtapudpStart \/ CtapStart

TunnelsNext ==
    \/ version = "rsctapudp" /\ (MainLoop \/ mainlistenertap \/ mainlistenerudp)
    \/ NextctapudpTap \/ NextctapudpNet \/ NextctapudpTapThread \/ NextctapudpNetThread
    \/ CtapudpTap \/ CtapudpNet \/ CtapudpTapThread \/ CtapudpNetThread
    \/ CtapTap \/ CtapNet \/ CtapControl
    \/ NewKey

TunnelsSpec == TunnelsInit /\ [][TunnelsNext]_tunnelVars
=============================================================================
