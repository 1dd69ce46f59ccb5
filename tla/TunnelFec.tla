----------------------------- MODULE TunnelFec ------------------------------
(***************************************************************************)
(* The forward error correction of the UDP tunnel (rsctapudp/ctapudp.c     *)
(* with -g): a frame is cut into original_count shards, recovery_count     *)
(* more are computed, and the group is sent as numbered datagrams.  The    *)
(* receiver collects one group at a time, decodes it as soon as it has     *)
(* counted more than original_count shards, and finds its place among the  *)
(* groups from the numbers alone.  A shard is reduced to the frame it was  *)
(* computed from; that original_count shards of one frame determine it is  *)
(* the subject of module LeopardCode.  There is one peer address.          *)
(***************************************************************************)
EXTENDS Integers, Sequences, FiniteSets

CONSTANTS
    OriginalCount,   \* original_count, 10 in the code
    RecoveryCount,   \* recovery_count, 4
    Wrap,            \* 200: numbers start again above Wrap - GroupSize
    LastStart,       \* 196: the largest number a group starts with
    MaxFrames        \* bound: frames sent

GroupSize == OriginalCount + RecoveryCount

\* What the sizes of the code have in common with the small ones of a run:
\* 2 * 3 <= 10, and three groups or more before the numbers come round.
ASSUME FecAssumption ==
    /\ OriginalCount \in Nat /\ RecoveryCount \in Nat
    /\ 2 < RecoveryCount /\ 2 * (RecoveryCount - 1) <= OriginalCount
    /\ Wrap \in Nat /\ LastStart \in Nat /\ LastStart % GroupSize = 0
    /\ Wrap - GroupSize < LastStart /\ LastStart <= Wrap
    /\ LastStart > GroupSize /\ MaxFrames \in Nat

EmptySlot == 0   \* frames are numbered from 1
Junk == -1       \* a slot of the arrays as malloc left them

VARIABLES
    curnum_send,       \* number of the first shard of the next group
    sent,              \* frames sent
    wire,              \* datagrams in flight
    incomplete,        \* the frames that lost a datagram on the way
    slots,             \* original_data_recv, then encode_work_data_recv
    curcount,
    curnum_recv,       \* first number of the group being collected
    curnum_recv_drop,  \* shards passed over since the last change of place
    delivered,         \* groups handed on: their frame, number and whether intact
    crashed            \* the receiver followed an uninitialised pointer

recvVars == <<slots, curcount, curnum_recv, curnum_recv_drop, delivered, crashed>>
fecVars == <<curnum_send, sent, wire, incomplete, recvVars>>

Slot == 0 .. GroupSize - 1
NoShards == [i \in Slot |-> EmptySlot]

\* The peer may have been sending for a while.  The arrays come from malloc
\* and are cleared at the first change of place.
FecInit ==
    /\ curnum_send \in {n \in 0..LastStart : n % GroupSize = 0}
    /\ sent = 0 /\ wire = <<>> /\ incomplete = {}
    /\ slots \in {NoShards, [i \in Slot |-> Junk]}
    /\ curcount = 0 /\ curnum_recv = 0 /\ curnum_recv_drop = 0
    /\ delivered = <<>> /\ crashed = FALSE

-----------------------------------------------------------------------------
\* Mutant of NextGroup: the numbers are used up to the end.
NextGroupLate(n) == IF n >= Wrap THEN 0 ELSE n + GroupSize

\* The number of the group after the one that starts with n.
NextGroup(n) == IF n > Wrap - GroupSize THEN 0 ELSE n + GroupSize

\* A frame becomes a group of datagrams.
SendGroup ==
    /\ sent < MaxFrames /\ wire = <<>>
    /\ wire' = [j \in 1..GroupSize |-> [num |-> curnum_send + j - 1, frame |-> sent + 1]]
    /\ sent' = sent + 1
    /\ curnum_send' = NextGroup(curnum_send)
    /\ UNCHANGED <<incomplete, recvVars>>

\* UDP loses a datagram.
LoseShard ==
    /\ wire # <<>>
    /\ wire' = Tail(wire)
    /\ incomplete' = incomplete \cup {Head(wire).frame}
    /\ UNCHANGED <<curnum_send, sent, recvVars>>

-----------------------------------------------------------------------------
\* The receiver.

GroupOf(n) == n - (n % GroupSize)

\* Mutant of ChangesPlace: a group once begun is waited for.
ChangesPlaceIdle(n) == curcount = 0 /\ (curnum_recv = 0 \/ curnum_recv # GroupOf(n))

\* The receiver may take a new place: it is collecting nothing, or has passed
\* over too many shards, and this shard is not of the group it waits for.
ChangesPlace(n) ==
    /\ curcount = 0 \/ curnum_recv_drop > OriginalCount
    /\ curnum_recv = 0 \/ curnum_recv # GroupOf(n)

\* leo_decode refuses when more originals are missing than recovery shards
\* are there.
NeedsMoreData(s) ==
    Cardinality({i \in Slot : i < OriginalCount /\ s[i] = EmptySlot})
      > Cardinality({i \in Slot : i >= OriginalCount /\ s[i] # EmptySlot})

\* The decoder's output is frame f: the originals that are there are copied,
\* the missing ones are computed from everything that is there.
DecodesTo(s, f) ==
    /\ \A i \in Slot : i < OriginalCount => s[i] \in {EmptySlot, f}
    /\ (\E i \in Slot : i < OriginalCount /\ s[i] = EmptySlot)
          => \A i \in Slot : s[i] \in {EmptySlot, f}

\* The shard read completes s, with the count and the place given: decode when
\* the count is above original_count, otherwise wait for more.
Collect(s, count, place, shard) ==
    LET junk == \E i \in Slot : s[i] = Junk
    IN  IF count <= OriginalCount
        THEN /\ slots' = s /\ curcount' = count /\ curnum_recv' = place
             /\ UNCHANGED <<delivered, crashed>>
        ELSE /\ slots' = NoShards /\ curcount' = 0 /\ curnum_recv' = NextGroup(place)
             /\ crashed' = junk
             /\ delivered' =
                  IF NeedsMoreData(s) \/ junk THEN delivered
                  ELSE Append(delivered, [frame |-> shard.frame,
                                          start |-> GroupOf(shard.num),
                                          whole |-> DecodesTo(s, shard.frame)])

\* A datagram is read.  Changing place remembers the group after the shard's
\* own, although the shard itself is kept.
ReceiveShard ==
    /\ wire # <<>> /\ ~crashed
    /\ LET shard == Head(wire)
           i == shard.num % GroupSize
       IN \/ /\ ChangesPlace(shard.num) /\ shard.num <= LastStart
             /\ curnum_recv_drop' = 0
             /\ Collect([NoShards EXCEPT ![i] = shard.frame], 1,
                        GroupOf(shard.num) + GroupSize, shard)
          \/ /\ ChangesPlace(shard.num) /\ shard.num > LastStart
             /\ UNCHANGED curnum_recv_drop
             /\ Collect([slots EXCEPT ![i] = shard.frame], curcount + 1, curnum_recv, shard)
          \/ /\ ~ChangesPlace(shard.num) /\ curnum_recv # GroupOf(shard.num)
             /\ curnum_recv_drop' = curnum_recv_drop + 1
             /\ UNCHANGED <<slots, curcount, curnum_recv, delivered, crashed>>
          \/ /\ ~ChangesPlace(shard.num) /\ curnum_recv = GroupOf(shard.num)
             /\ UNCHANGED curnum_recv_drop
             /\ Collect([slots EXCEPT ![i] = shard.frame], curcount + 1, curnum_recv, shard)
    /\ wire' = Tail(wire)
    /\ UNCHANGED <<curnum_send, sent, incomplete>>

FecNext == SendGroup \/ LoseShard \/ ReceiveShard

FecSpec == FecInit /\ [][FecNext]_fecVars

-----------------------------------------------------------------------------
\* Without loss the receiver delivers every frame, whole and in order, but the
\* one during which it found its place, or two when that was at the end of the
\* numbers: finding the place, the wrap of the numbers and the recovery shards
\* left over from a decoded group never make it lose another.
NothingLostUnlessSent ==
    ~crashed /\ incomplete = {} =>
        \E skip \in {1, 2} :
            /\ \A j \in 1..Len(delivered) :
                   delivered[j].frame = j + skip /\ delivered[j].whole
            /\ wire = <<>> /\ sent >= skip => Len(delivered) = sent - skip

\* Whatever was lost before, once four frames in a row arrive with all their
\* shards the fourth is delivered.
RecoversInFourFrames ==
    ~crashed /\ wire = <<>> =>
        \A f \in 4..sent :
            (f - 3 .. f) \cap incomplete = {}
               => \E j \in 1..Len(delivered) : delivered[j].frame = f
=============================================================================
