----------------------------- MODULE CtapStream -----------------------------
(***************************************************************************)
(* The stream of ctap/ctap.c over TCP: each frame from the TAP device is   *)
(* sent as the SHA-256 of its key, the length and the data, padded.  When  *)
(* the receiver does not find the key it has read the sha only, leaves the *)
(* rest in the stream and takes what follows for the next sha.  No such    *)
(* piece is the sha of a key.  ctapraw/ctapraw.c sends no sha.             *)
(***************************************************************************)
EXTENDS Integers, Sequences

CONSTANTS
    FrameLengths,   \* lengths of the frames read from the TAP device
    MaxPending      \* bound: frames in the connection

ShaLength == 32
LengthLength == 2
Block == 128

ASSUME StreamAssumption == FrameLengths \subseteq 1..1500 /\ MaxPending \in Nat

VARIABLES
    program,   \* "ctap" or "ctapraw"
    pending,   \* the frames in the connection: their length, and whether their
               \* key will be found
    offset,    \* bytes of the first of them that are read
    missed,    \* history: frames begun since a frame was last recognised
    lastsha,   \* buf holds the sha of the current key
    closed,    \* the peer has closed
    ended      \* this end has left its loop

streamVars == <<program, pending, offset, missed, lastsha, closed, ended>>

StreamInit ==
    /\ program \in {"ctap", "ctapraw"}
    /\ pending = <<>> /\ offset = 0 /\ missed = 0
    /\ lastsha = FALSE /\ closed = FALSE /\ ended = FALSE

-----------------------------------------------------------------------------
Padded(n) == IF n % Block # 0 THEN n + (Block - (n % Block)) ELSE n
HeaderLength == IF program = "ctap" THEN ShaLength ELSE 0
Bytes(frame) == HeaderLength + LengthLength + Padded(frame.length)

\* The peer reads a frame from its TAP device and writes it.
WriteFrame ==
    /\ Len(pending) < MaxPending /\ ~closed
    /\ \E n \in FrameLengths, k \in BOOLEAN :
           /\ program = "ctapraw" => k
           /\ pending' = Append(pending, [length |-> n, known |-> k])
    /\ UNCHANGED <<program, offset, missed, lastsha, closed, ended>>

\* The frame at the head is read whole and written to the TAP device.
ReadFrame ==
    /\ ~ended /\ pending # <<>>
    /\ offset = 0 /\ Head(pending).known
    /\ pending' = Tail(pending)
    /\ missed' = 0 /\ lastsha' = TRUE
    /\ UNCHANGED <<program, offset, closed, ended>>

\* Where n bytes more than offset end: the frames left and the offset in them.
After(n) ==
    IF offset + n < Bytes(Head(pending))
    THEN <<pending, offset + n, 0>>
    ELSE <<Tail(pending), offset + n - Bytes(Head(pending)), 1>>

\* Mutant of ReadUnknown: a block is read where a sha may begin.
ReadUnknownBlock ==
    /\ ~ended /\ program = "ctap" /\ pending # <<>>
    /\ offset # 0 \/ ~Head(pending).known
    /\ offset + Block < Bytes(Head(pending)) \/ Len(pending) > 1
    /\ pending' = After(Block)[1]
    /\ offset' = After(Block)[2]
    /\ missed' = IF offset = 0 THEN 1
                 ELSE IF After(Block)[2] = 0 THEN missed
                 ELSE missed + After(Block)[3]
    /\ lastsha' = FALSE
    /\ UNCHANGED <<program, closed, ended>>

\* What is read is no known sha: a frame from the TAP device, which is waited
\* for, is thrown away, and the rest of the packet stays in the stream.
ReadUnknown ==
    /\ ~ended /\ program = "ctap" /\ pending # <<>>
    /\ offset # 0 \/ ~Head(pending).known
    /\ offset + ShaLength < Bytes(Head(pending)) \/ Len(pending) > 1
    /\ pending' = After(ShaLength)[1]
    /\ offset' = After(ShaLength)[2]
    /\ missed' = IF offset = 0 THEN 1
                 ELSE IF After(ShaLength)[2] = 0 THEN missed
                 ELSE missed + After(ShaLength)[3]
    /\ lastsha' = FALSE
    /\ UNCHANGED <<program, closed, ended>>

PeerCloses ==
    /\ ~closed /\ closed' = TRUE
    /\ UNCHANGED <<program, pending, offset, missed, lastsha, ended>>

\* No whole sha comes any more.  The loop is left when the length is not read
\* either, which is tried only if buf still holds the sha of the current key.
ReadEnd ==
    /\ ~ended /\ closed
    /\ IF pending = <<>> THEN TRUE
       ELSE Len(pending) = 1 /\ offset # 0 /\ Bytes(Head(pending)) - offset < ShaLength
    /\ ended' = (program = "ctapraw" \/ (lastsha /\ pending = <<>>))
    /\ pending' = <<>> /\ offset' = 0 /\ lastsha' = (lastsha /\ pending = <<>>)
    /\ UNCHANGED <<program, missed, closed>>

StreamNext == WriteFrame \/ ReadFrame \/ ReadUnknown \/ PeerCloses \/ ReadEnd

StreamSpec == StreamInit /\ [][StreamNext]_streamVars

-----------------------------------------------------------------------------
\* A frame whose key is not found costs the receiver that frame and the fifteen
\* after it, and no more: a frame takes 2 bytes more than a multiple of a sha,
\* so the sixteenth begins where a sha is read again.
LossIsBounded == missed <= ShaLength \div LengthLength
=============================================================================
