------------------------------ MODULE BytePipe ------------------------------
(***************************************************************************)
(* What the link between a mux and a demux promises to the layers above    *)
(* it: in each direction a reliable, ordered byte pipe of bounded          *)
(* capacity.  Connections, positions, debts and reconnections do not show. *)
(*                                                                         *)
(* A byte is named by its place in the stream, so `received[d]` says which *)
(* bytes came out and in which order, and `sent[d]` how many went in.      *)
(***************************************************************************)
EXTENDS Naturals, Sequences

CONSTANTS Dir,     \* the directions of the pipe
          Window   \* how many sent bytes may be outstanding per direction

VARIABLES sent, received

vars == <<sent, received>>

Init ==
    /\ sent = [d \in Dir |-> 0]
    /\ received = [d \in Dir |-> <<>>]

Send(d) ==
    /\ sent[d] - Len(received[d]) < Window
    /\ sent' = [sent EXCEPT ![d] = @ + 1]
    /\ UNCHANGED received

\* The next byte, and only the next byte, comes out.
Receive(d) ==
    /\ Len(received[d]) < sent[d]
    /\ received' = [received EXCEPT ![d] = Append(@, Len(@) + 1)]
    /\ UNCHANGED sent

Next == \E d \in Dir : Send(d) \/ Receive(d)

Spec == Init /\ [][Next]_vars
=============================================================================
