---------------------------- MODULE PythonCrypt ----------------------------
(***************************************************************************)
(* The stream cipher service in Python (pythoncrypt.py): what a client     *)
(* sends is read in chunks, encoded block by block, each block behind a    *)
(* header with the number of its key, its position and its length, and     *)
(* decoded at the other end from whatever pieces the stream arrives in.    *)
(* One thread relays, another takes posted keys.  The model is one         *)
(* direction of one connection at a time; keys are counted from 0, and the *)
(* FPGA that may do the combining is left out.                             *)
(***************************************************************************)
EXTENDS Integers, Sequences

CONSTANTS
    PacketSize,   \* block_size, which is also the size of every key
    HeaderSize,   \* 16
    MaxKeys,      \* bound: keys posted to each end, the same in the same order
    MaxSent       \* bound: bytes read of each client

ASSUME PythonAssumption ==
    /\ PacketSize \in Nat \ {0} /\ HeaderSize \in Nat \ {0}
    /\ MaxKeys \in Nat /\ MaxSent \in Nat

Sides == {"encoder", "decoder"}

VARIABLES
    running,      \* FALSE after an exception that nobody catches
    keyCount,     \* len(keys) of each end
    posting,      \* keys of the post in progress not yet appended
    cur_key,      \* of the encoder, -1 for none
    pyCurpos,     \* the position in that key; all others are at 0
    connected,
    clientEnded,  \* the encoder has closed after the end of its client's data
    sentCount,    \* bytes read of the client, numbered from 1
    stream,       \* on the way between the ends
    buffered,     \* buffers[fileno] of the decoder
    decoded,      \* the numbers of the bytes it has decoded
    keyMissing,   \* data were dropped for want of a key
    cutShort      \* a send took only a part

sessionVars ==
    <<connected, clientEnded, sentCount, stream, buffered, decoded, keyMissing, cutShort>>
pythonVars == <<running, keyCount, posting, cur_key, pyCurpos, sessionVars>>

PythonInit ==
    /\ running = TRUE
    /\ keyCount = [e \in Sides |-> 0] /\ posting = [e \in Sides |-> 0]
    /\ cur_key = -1 /\ pyCurpos = 0
    /\ connected = FALSE /\ clientEnded = FALSE /\ keyMissing = FALSE /\ cutShort = FALSE
    /\ sentCount = 0 /\ stream = <<>> /\ buffered = <<>> /\ decoded = <<>>

-----------------------------------------------------------------------------
\* read_keys, in the thread of the control port: cur_key is set before the keys
\* are appended one by one.
PostKeys(e) ==
    /\ running /\ posting[e] = 0
    /\ \E count \in 1..(MaxKeys - keyCount[e]) : posting' = [posting EXCEPT ![e] = count]
    /\ cur_key' = IF e = "encoder" /\ cur_key < 0 THEN 0 ELSE cur_key
    /\ UNCHANGED <<running, keyCount, pyCurpos, sessionVars>>

AppendKey(e) ==
    /\ running /\ posting[e] > 0
    /\ posting' = [posting EXCEPT ![e] = @ - 1]
    /\ keyCount' = [keyCount EXCEPT ![e] = @ + 1]
    /\ UNCHANGED <<running, cur_key, pyCurpos, sessionVars>>

\* Mutant of AcceptNewClient: a new connection on the descriptors of the last one
\* finds its rest in the buffer.
AcceptOnOldBuffer ==
    /\ running /\ ~connected /\ connected' = TRUE
    /\ clientEnded' = FALSE /\ keyMissing' = FALSE /\ cutShort' = FALSE
    /\ sentCount' = 0 /\ stream' = <<>> /\ decoded' = <<>>
    /\ UNCHANGED <<running, keyCount, posting, cur_key, pyCurpos, buffered>>

\* Both ends connect to their targets and accept; one whose target does not
\* answer drops the connection and keeps nothing of it.
AcceptNewClient ==
    /\ running /\ ~connected /\ connected' = TRUE
    /\ clientEnded' = FALSE /\ keyMissing' = FALSE /\ cutShort' = FALSE
    /\ sentCount' = 0 /\ stream' = <<>> /\ buffered' = <<>> /\ decoded' = <<>>
    /\ UNCHANGED <<running, keyCount, posting, cur_key, pyCurpos>>

-----------------------------------------------------------------------------
\* A block is known by its header and the number of its first byte; a byte of the
\* stream is <<block, its place in header and data>>.
BytesOf(b) == [j \in 1..(HeaderSize + b.count) |-> <<b, j>>]

\* current_key and next_key: the ring of the keys there are.
NextKeyOf(k) == IF k + 1 >= keyCount["encoder"] THEN 0 ELSE k + 1

\* One turn of the loop of encode, from key and position s.
EncodeBlock(s, first, count) ==
    LET turns == count + s.pos > PacketSize
        b == [key |-> IF turns THEN NextKeyOf(s.key) ELSE s.key,
              pos |-> IF turns THEN 0 ELSE s.pos,
              count |-> count, first |-> first]
    IN [key |-> b.key, pos |-> b.pos + count, out |-> s.out \o BytesOf(b)]

\* encode() of count bytes: all blocks but the last are of block_size.
Encoded(count) ==
    LET blocks == (count + PacketSize - 1) \div PacketSize
        after[i \in 0..blocks] ==
            IF i = 0 THEN [key |-> cur_key, pos |-> pyCurpos, out |-> <<>>]
            ELSE EncodeBlock(after[i - 1], sentCount + ((i - 1) * PacketSize) + 1,
                             IF i < blocks THEN PacketSize ELSE count - ((i - 1) * PacketSize))
    IN after[blocks]

\* relay_data of the client: without any key the data are dropped; with cur_key
\* set and no key appended yet the exception ends the program.  send() to a
\* socket that does not block, as for what a target answers, may take a part:
\* the rest is not kept, and what becomes of the stream from there on is not
\* followed.
RelayToEncoder(count) ==
    /\ running /\ connected /\ ~clientEnded /\ ~cutShort
    /\ sentCount + count <= MaxSent /\ sentCount' = sentCount + count
    /\ \/ /\ cur_key < 0 /\ keyMissing' = TRUE
          /\ UNCHANGED <<running, cur_key, pyCurpos, stream, cutShort>>
       \/ /\ cur_key >= 0 /\ keyCount["encoder"] = 0 /\ running' = FALSE
          /\ UNCHANGED <<cur_key, pyCurpos, stream, keyMissing, cutShort>>
       \/ /\ cur_key >= 0 /\ keyCount["encoder"] > 0
          /\ LET r == Encoded(count)
             IN /\ cur_key' = r.key /\ pyCurpos' = r.pos
                /\ \E taken \in 0..Len(r.out) :
                      /\ stream' = stream \o SubSeq(r.out, 1, taken)
                      /\ cutShort' = (taken < Len(r.out))
          /\ UNCHANGED <<running, keyMissing>>
    /\ UNCHANGED <<keyCount, posting, connected, clientEnded, buffered, decoded>>

-----------------------------------------------------------------------------
\* What decode() returns for data: the bytes decoded, what is left ("diff"), and
\* whether a key was missing, when it leaves nothing.  A header that is put
\* together from other bytes is taken to name no key.
Decode(data) ==
    LET left(p) == Len(data) - p + 1
        named(p) == \A j \in 1..HeaderSize : data[p + j - 1] = <<data[p][1], j>>
        from[p \in 1..(Len(data) + 1)] ==
            IF left(p) <= HeaderSize
            THEN [out |-> <<>>, rest |-> SubSeq(data, p, Len(data)), missing |-> FALSE]
            ELSE LET b == data[p][1]
                     size == HeaderSize + b.count
                     r == from[p + size]
                     bytes == [i \in 1..b.count |->
                                 LET x == data[p + HeaderSize + i - 1]
                                 IN IF x = <<b, HeaderSize + i>> THEN b.first + i - 1 ELSE 0]
                 IN IF ~(named(p) /\ b.key < keyCount["decoder"])
                    THEN [out |-> <<>>, rest |-> <<>>, missing |-> TRUE]
                    ELSE IF b.count > left(p) - HeaderSize
                    THEN [out |-> <<>>, rest |-> SubSeq(data, p, Len(data)), missing |-> FALSE]
                    ELSE [r EXCEPT !.out = bytes \o @]
    IN from[1]

\* relay_data of the other end: some bytes arrive and follow those buffered.
RelayToDecoder(size) ==
    /\ running /\ connected /\ ~cutShort /\ size <= Len(stream)
    /\ LET r == Decode(buffered \o SubSeq(stream, 1, size))
       IN /\ buffered' = r.rest
          /\ decoded' = decoded \o r.out
          /\ keyMissing' = (keyMissing \/ r.missing)
    /\ stream' = SubSeq(stream, size + 1, Len(stream))
    /\ UNCHANGED <<running, keyCount, posting, cur_key, pyCurpos, connected, clientEnded, sentCount,
                   cutShort>>

\* The client ends: the encoder reads nothing, and closes both its sockets.
ReadEndOfClient ==
    /\ running /\ connected /\ ~clientEnded /\ clientEnded' = TRUE
    /\ UNCHANGED <<running, keyCount, posting, cur_key, pyCurpos, connected, sentCount, stream,
                   buffered, decoded, keyMissing, cutShort>>

\* The decoder closes: it has read to the end, or the target has closed.
CloseChannels ==
    /\ running /\ connected /\ connected' = FALSE
    /\ UNCHANGED <<running, keyCount, posting, cur_key, pyCurpos, clientEnded, sentCount, stream,
                   buffered, decoded, keyMissing, cutShort>>

PythonNext ==
    \/ \E e \in Sides : PostKeys(e) \/ AppendKey(e)
    \/ AcceptNewClient \/ ReadEndOfClient \/ CloseChannels
    \/ \E count \in 1..MaxSent : RelayToEncoder(count)
    \/ \E size \in 1..Len(stream) : RelayToDecoder(size)

PythonSpec == PythonInit /\ [][PythonNext]_pythonVars

-----------------------------------------------------------------------------
\* The bytes of the stream that carry data, and the number of the byte each carries.
DataPlaces(w) == {p \in DOMAIN w : w[p][2] > HeaderSize}
NumberOf(x) == x[1].first + x[2] - HeaderSize - 1

\* However the stream is cut into pieces, whichever keys each end has at the time
\* and whatever the last connection on the same descriptors left behind, what
\* is decoded is what was encoded: in order; without a gap unless a key was
\* missing, so that the rest is on its way; and no whole block waits in the
\* buffer, where no later event would find it.  (test0.sh compares a client's data
\* with those that come out.)
DecodedAsEncoded ==
    ~cutShort =>
        LET w == buffered \o stream
        IN /\ \A i, j \in 1..Len(decoded) : i < j => decoded[i] < decoded[j]
           /\ (connected /\ running /\ ~keyMissing) =>
                 /\ decoded = [i \in 1..Len(decoded) |-> i]
                 /\ \A p, q \in DataPlaces(w) : p < q => NumberOf(w[p]) < NumberOf(w[q])
                 /\ {NumberOf(w[p]) : p \in DataPlaces(w)} = Len(decoded) + 1..sentCount
           /\ Len(buffered) > HeaderSize =>
                 /\ buffered[1][2] = 1
                 /\ Len(buffered) < HeaderSize + buffered[1][1].count
=============================================================================
