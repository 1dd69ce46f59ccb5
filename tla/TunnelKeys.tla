----------------------------- MODULE TunnelKeys -----------------------------
(***************************************************************************)
(* How one end of the UDP tunnel (rsctapudp/ctapudp.c with -e) chooses and *)
(* finds keys.  A packet carries the SHA-256 of its key and is encrypted   *)
(* with it.  Keys come from the end's key server (module KeyWorker) and    *)
(* wait in two queues: q1 for the packets this end sends, q2 for those it  *)
(* receives.  A key is a number, which also stands for its sha; the peer   *)
(* may use any key at any time.  With -w the TAP device and the socket     *)
(* have a thread each, otherwise one loop serves both.                     *)
(***************************************************************************)
EXTENDS Integers, Sequences

CONSTANTS
    MaxKey,       \* bound: keys the key server gets
    QueueLimit,   \* 10
    PPK,          \* -e: packets after which a key is changed
    MaxUses,      \* bound: packets sent
    MaxLearned    \* bound: keys got by their sha

ASSUME KeysAssumption ==
    /\ MaxKey \in Nat /\ QueueLimit \in Nat \ {0} /\ PPK \in Nat \ {0}
    /\ MaxUses \in Nat /\ MaxLearned \in Nat

Keys == 1..MaxKey    \* as the key server gets them
NoKey == 0

VARIABLES
    version,    \* which program: "rsctapudp", "nextctapudp", "ctapudp" or "ctap"
    options,    \* "plain", "limit" (-l 1), "client" (-c with -y), "cores" (-w)
    q1, q2,
    curKey1,    \* [key, usage]: the key to send with
    curKey2,    \* the key to receive with
    waslimit,   \* the key in use is used up and the server has no other
    reading,    \* the key of the packet being received, or NoKey
    asking,     \* a question for that key is at the key server
    newest,     \* environment: the key server has the keys up to this one
    uses,       \* history: packets encrypted with each key
    given,      \* history: how often the key server gave each key while it was not
                \* the key to send with
    learned,    \* bound: keys got by their sha
    refused,    \* history: the key server has failed to answer
    dead        \* the process followed a null pointer or aborted

sendVars == <<q1, curKey1, waslimit, uses, given>>
recvVars2 == <<curKey2, reading, asking, learned>>
tunnelVars == <<version, options, sendVars, q2, recvVars2, newest, refused, dead>>

-----------------------------------------------------------------------------
\* The queues (keyqueue.c); a key put on a full queue is lost.
Enqueue(q, k) == IF Len(q) >= QueueLimit THEN q ELSE Append(q, k)

\* getLastKey(): the server refuses, or the key it answers goes on both queues.
\* That may be any key it has (KeyWorker!Choices): the oldest one nobody has
\* used, or the one of largest sha, so also one it has answered before.
\* What can become of s, a record with fields q1, q2, cur, given and refused.
Given(s, k) == IF k = s.cur.key THEN s.given ELSE [s.given EXCEPT ![k] = @ + 1]
AfterGetLastKey(s) ==
    {[s EXCEPT !.refused = TRUE]} \cup
    {[s EXCEPT !.q1 = Enqueue(s.q1, k), !.q2 = Enqueue(s.q2, k), !.given = Given(s, k)]
        : k \in 1..newest}

-----------------------------------------------------------------------------
\* The TAP side.  It is followed on a record of the variables it works on.

Sender == [q1 |-> q1, q2 |-> q2, cur |-> curKey1, waslimit |-> waslimit,
           given |-> given, refused |-> refused, tosend |-> TRUE, dead |-> FALSE]

TakeKey(s) == [s EXCEPT !.cur = [key |-> Head(s.q1), usage |-> 0], !.q1 = Tail(s.q1)]

\* Mutant of TakeLastKey: the key of the server is taken for a new one.
TakeLastKeyBlindly(s) ==
    IF options = "limit" THEN [TakeKey(s) EXCEPT !.waslimit = FALSE] ELSE TakeKey(s)

\* With -l a key from the server is compared with the one in use: the same key
\* is thrown away, another one lifts the limit.
TakeLastKey(s) ==
    IF options # "limit" THEN TakeKey(s)
    ELSE IF s.cur.key = NoKey THEN [s EXCEPT !.dead = TRUE]
    ELSE IF Head(s.q1) = s.cur.key
         THEN [s EXCEPT !.q1 = Tail(s.q1), !.waslimit = TRUE, !.tosend = FALSE]
         ELSE [TakeKey(s) EXCEPT !.waslimit = FALSE]

\* Before a packet is sent: is there a key, and may it be used?
KeyForPacket(s) ==
    IF s.cur.key # NoKey /\ ~s.waslimit THEN {s}
    ELSE IF s.q1 # <<>> THEN {TakeKey(s)}
    ELSE {IF t.q1 = <<>> THEN [t EXCEPT !.tosend = FALSE] ELSE TakeLastKey(t)
             : t \in AfterGetLastKey(s)}

Used(s) == [s EXCEPT !.cur.usage = @ + 1]

\* After it was sent: a key used more than PPK times is changed, if there is
\* another one.
ChangeKey(s) ==
    IF s.cur.usage <= PPK THEN {s}
    ELSE IF s.q1 # <<>> THEN {TakeKey(s)}
    ELSE {IF t.q1 = <<>> THEN t ELSE TakeLastKey(t) : t \in AfterGetLastKey(s)}

Sent(s) ==
    /\ q1' = s.q1 /\ q2' = s.q2 /\ curKey1' = s.cur /\ waslimit' = s.waslimit
    /\ given' = s.given /\ refused' = s.refused /\ dead' = s.dead

Total[k \in Keys \cup {NoKey}] == IF k = NoKey THEN 0 ELSE uses[k] + Total[k - 1]

\* A frame is read from the TAP device.  With one loop no packet is being
\* received meanwhile.  A client with a device number looks at the usage of
\* its key before it has one.
TapToNet ==
    /\ ~dead /\ Total[MaxKey] < MaxUses
    /\ options = "cores" \/ reading = NoKey
    /\ IF options = "client" /\ curKey1.key = NoKey
       THEN /\ dead' = TRUE
            /\ UNCHANGED <<sendVars, q2, refused>>
       ELSE \E s \in KeyForPacket(Sender) :
              IF s.dead \/ ~s.tosend
              THEN Sent(s) /\ UNCHANGED uses
              ELSE /\ \E t \in ChangeKey(Used(s)) : Sent(t)
                   /\ uses' = [uses EXCEPT ![s.cur.key] = @ + 1]
    /\ UNCHANGED <<version, options, recvVars2, newest>>

-----------------------------------------------------------------------------
\* The network side.

\* A packet arrives.  Until this end has a key of its own it reads none.
NetPacket(k) ==
    /\ ~dead /\ reading = NoKey
    /\ curKey2 # NoKey \/ q2 # <<>>
    /\ IF curKey2 = NoKey
       THEN curKey2' = Head(q2) /\ q2' = Tail(q2)
       ELSE UNCHANGED <<curKey2, q2>>
    /\ reading' = k
    /\ UNCHANGED <<version, options, sendVars, asking, learned, newest, refused, dead>>

\* The key in use is another one, and there is one more in q2.
NextKey ==
    /\ reading \notin {NoKey, curKey2} /\ ~asking /\ q2 # <<>>
    /\ curKey2' = Head(q2) /\ q2' = Tail(q2)
    /\ UNCHANGED <<version, options, sendVars, reading, asking, learned,
                   newest, refused, dead>>

\* There is none: the key server is asked for the key of that sha.
AskForKey ==
    /\ reading \notin {NoKey, curKey2} /\ ~asking /\ q2 = <<>>
    /\ asking' = TRUE
    /\ UNCHANGED <<version, options, sendVars, q2, curKey2, reading, learned,
                   newest, refused, dead>>

\* getKeyBySha() has the key, which goes on both queues, and the first of q2 is
\* tried next.
KeyAnswered ==
    /\ asking /\ asking' = FALSE
    /\ reading <= newest /\ learned < MaxLearned
    /\ q1' = Enqueue(q1, reading)
    /\ LET q == Enqueue(q2, reading) IN curKey2' = Head(q) /\ q2' = Tail(q)
    /\ given' = [given EXCEPT ![reading] = @ + 1]
    /\ learned' = learned + 1
    /\ UNCHANGED <<version, options, curKey1, waslimit, uses, reading,
                   newest, refused, dead>>

\* The server does not have it or does not answer: the packet is dropped.
KeyRefused ==
    /\ asking /\ asking' = FALSE
    /\ reading' = NoKey
    /\ UNCHANGED <<version, options, sendVars, q2, curKey2, learned,
                   newest, refused, dead>>

\* The key is found: the packet is decrypted and written to the TAP device.  One
\* damaged on the way (module TunnelFec) is dropped instead.
WritePacket ==
    /\ reading # NoKey /\ reading = curKey2
    /\ reading' = NoKey
    /\ UNCHANGED <<version, options, sendVars, q2, curKey2, asking, learned,
                   newest, refused, dead>>

\* Environment: the key server gets a key.
NewKey ==
    /\ newest + 1 \in Keys
    /\ newest' = newest + 1
    /\ UNCHANGED <<version, options, sendVars, q2, recvVars2, refused, dead>>

-----------------------------------------------------------------------------
\* The earlier programs have no device numbers, and ctap has no threads.
OptionsOf(v) == CASE v = "ctap" -> {"plain", "limit"}
                  [] v = "ctapudp" -> {"plain", "limit", "cores"}
                  [] OTHER -> {"plain", "limit", "client", "cores"}

\* At the start the last key is asked for once.
TunnelInit ==
    /\ version \in {"rsctapudp", "nextctapudp", "ctapudp", "ctap"}
    /\ options \in OptionsOf(version)
    /\ newest \in Keys \cup {NoKey}
    /\ curKey1 = [key |-> NoKey, usage |-> 0] /\ curKey2 = NoKey
    /\ \E s \in AfterGetLastKey([q1 |-> <<>>, q2 |-> <<>>, cur |-> curKey1,
                                given |-> [k \in Keys |-> 0], refused |-> FALSE]) :
           q1 = s.q1 /\ q2 = s.q2 /\ given = s.given /\ refused = s.refused
    /\ waslimit = FALSE /\ reading = NoKey /\ asking = FALSE
    /\ uses = [k \in Keys |-> 0] /\ learned = 0 /\ dead = FALSE

NetToTap ==
    \/ \E k \in Keys : NetPacket(k)
    \/ NextKey \/ AskForKey \/ KeyAnswered \/ KeyRefused \/ WritePacket

\* One loop serves the TAP device and the socket, or a thread each.
MainLoop == options # "cores" /\ (TapToNet \/ NetToTap)
mainlistenertap == options = "cores" /\ TapToNet
mainlistenerudp == options = "cores" /\ NetToTap

TunnelNext == MainLoop \/ mainlistenertap \/ mainlistenerudp \/ NewKey

TunnelSpec == TunnelInit /\ [][TunnelNext]_tunnelVars

-----------------------------------------------------------------------------
\* With -l, as long as the key server answers (or in any case, in ctap, which
\* looks at the usage before it sends), an end encrypts with a key at most PPK + 1
\* packets for each time the server gave it the key beside the one in use: as its
\* last key, or by its sha for a packet received.  The same key given again after
\* another one lifts the limit again; given again at once it does not.
LimitKept ==
    options = "limit" /\ (~refused \/ version = "ctap") =>
        \A k \in Keys : uses[k] <= (PPK + 1) * given[k]
=============================================================================
