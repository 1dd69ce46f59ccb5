---------------------------- MODULE MCMuxClients ----------------------------
\* Instances of MuxClients for TLC.
EXTENDS MuxClients

\* Units read from a client, by side.
Up(n) == [s \in Side |-> IF s = "mux" THEN n ELSE 0]
MCNoData == Up(0)
MCOneUp == Up(1)
MCThreeUp == Up(3)
MCFourUp == Up(4)

\* Environments.
MCEnd == {"end"}
MCErrors == {"full", "reconnect", "end", "error", "blocked", "connect_fails"}
MCFlow == {"reconnect", "global_ack", "blocked", "connect_fails"}
=============================================================================
