------------------------------- MODULE Qcrypt -------------------------------
(***************************************************************************)
(* The stream cipher service (qcrypt/qcrypt.c): a coder and a decoder that *)
(* join a plain connection to an encrypted one, each encrypting what goes  *)
(* one way and decrypting what comes the other.  Data are combined with a  *)
(* stretch of a key, block by block; a block is sent with the number of    *)
(* its key, the position in it and its length.  Keys form a ring, and one  *)
(* variable, curkey, serves both directions.  Keys are read from files     *)
(* (mode 1) or posted over HTTP (mode 0), where a long post makes several  *)
(* entries of the ring, all of one number and with the same first bytes.   *)
(***************************************************************************)
EXTENDS Integers, Sequences, FiniteSets

CONSTANTS
    Ends,         \* the coder and the decoder
    Pads,         \* keys, each with its number
    Size,         \* their sizes, in bytes
    BufSize,      \* BUF_SIZE, 1024: what an entry of the ring holds
    BlockSize,    \* BLOCK_SIZE, 32
    Slack,        \* 16: a post of fewer bytes is refused, a rest of as many left out
    MaxBlocks     \* bound: blocks on the way in each direction

\* A file without a byte behind its number makes no entry.
ASSUME QcryptAssumption ==
    /\ IsFiniteSet(Ends) /\ Cardinality(Ends) = 2
    /\ IsFiniteSet(Pads)
    /\ BlockSize \in Nat \ {0} /\ BufSize \in Nat /\ BufSize >= BlockSize
    /\ Slack \in Nat /\ MaxBlocks \in Nat
    /\ Size \in [Pads -> Nat \ {0}]

VARIABLES
    mode,         \* 0 or 1
    files,        \* the keys each end could load
    ring,         \* keys: the ring, from its first entry
    chain,        \* the ring curkey is in, which a post leaves to it
    curkey,       \* the place in chain of the current key, 0 for none
    curpos,       \* of the current key; no other position is ever used
    freed,        \* the first entry of chain was freed
    reread,
    blocks,       \* sent by each end and not yet read by the other
    searching,    \* the end looks for the key of a block, until it is found
    undefined,    \* the end uses a key that was freed
    garbled       \* history: the keys of which a block came out wrong

qcryptVars == <<mode, files, ring, chain, curkey, curpos, freed, reread, blocks, searching,
                undefined, garbled>>

Shorter(m, n) == IF m < n THEN m ELSE n

\* The entry made of a file, and those made of a post: each is filled from the
\* start of the post.
FileEntry(k) == [key |-> k, size |-> Shorter(Size[k], BufSize)]
CopyCount(k) == IF Size[k] <= Slack THEN 1 ELSE 1 + ((Size[k] - Slack) - 1) \div BufSize
Copies(k) == [i \in 1..CopyCount(k) |->
                 [key |-> k, size |-> Shorter(Size[k] - (i - 1) * BufSize, BufSize)]]

\* The rings that readdir() can make of a set of files, by its orders.
Orders(S) == {s \in [1..Cardinality(S) -> S] : \A i, j \in DOMAIN s : s[i] = s[j] => i = j}
Rings(S) == {[i \in DOMAIN s |-> FileEntry(s[i])] : s \in Orders(S)}

\* In mode 1 the service does not start without key files.
QcryptInit ==
    /\ mode \in {0, 1}
    /\ files \in [Ends -> SUBSET Pads]
    /\ \A e \in Ends : mode = 1 => files[e] # {}
    /\ ring \in [Ends -> IF mode = 1 THEN UNION {Rings(S) : S \in SUBSET Pads} ELSE {<<>>}]
    /\ \A e \in Ends : mode = 1 => ring[e] \in Rings(files[e])
    /\ chain = [e \in Ends |-> <<>>]
    /\ curkey = [e \in Ends |-> 0]
    /\ curpos = [e \in Ends |-> 0]
    /\ freed = [e \in Ends |-> FALSE]
    /\ reread = [e \in Ends |-> FALSE]
    /\ blocks = [e \in Ends |-> <<>>]
    /\ searching = [e \in Ends |-> FALSE]
    /\ undefined = [e \in Ends |-> FALSE]
    /\ garbled = [e \in Ends |-> {}]

-----------------------------------------------------------------------------
Peer(e) == CHOOSE f \in Ends : f # e

\* The bytes from pos on are those of the entry, not what memory held behind it.
Within(entry, pos, n) == pos + n <= entry.size

\* One turn of the loop of crypt(), at place i of ring r and position p in that
\* entry; the next entry may be the one that was freed.
SendFrom(e, r, turns, key, pos, n) ==
    /\ chain' = [chain EXCEPT ![e] = r]
    /\ curkey' = [curkey EXCEPT ![e] = key]
    /\ curpos' = [curpos EXCEPT ![e] = pos + n]
    /\ LET b == [key |-> r[key].key, pos |-> pos, len |-> n, good |-> Within(r[key], pos, n)]
       IN IF turns /\ key = 1 /\ freed[e]
          THEN undefined' = [undefined EXCEPT ![e] = TRUE] /\ UNCHANGED blocks
          ELSE blocks' = [blocks EXCEPT ![e] = Append(@, b)] /\ UNCHANGED undefined

\* Mutant of SendBlock: the key is turned when it is used up, not when the block
\* does not fit.
SendBlockLate(e, r, i, p, n) ==
    LET turns == p >= r[i].size
    IN SendFrom(e, r, turns, IF turns THEN (i % Len(r)) + 1 ELSE i, IF turns THEN 0 ELSE p, n)

\* The rest of the entry if it is long enough, otherwise the start of the next.
SendBlock(e, r, i, p, n) ==
    LET turns == p + n >= r[i].size
    IN SendFrom(e, r, turns, IF turns THEN (i % Len(r)) + 1 ELSE i, IF turns THEN 0 ELSE p, n)

\* crypt(): with no current key, or asked to read them again, it starts with
\* the first key of the ring, which in mode 1 is read from the files.
Crypt(e) ==
    /\ ~searching[e] /\ ~undefined[e] /\ Len(blocks[e]) < MaxBlocks
    /\ \E n \in 1..BlockSize :
        IF reread[e] \/ curkey[e] = 0
        THEN \E r \in IF mode = 1 THEN Rings(files[e]) ELSE {ring[e]} :
               /\ r # <<>>
               /\ ring' = [ring EXCEPT ![e] = r]
               /\ SendBlock(e, r, 1, 0, n)
        ELSE SendBlock(e, chain[e], curkey[e], curpos[e], n) /\ UNCHANGED ring
    /\ reread' = [reread EXCEPT ![e] = FALSE]
    /\ UNCHANGED <<mode, files, freed, searching, garbled>>

-----------------------------------------------------------------------------
\* decrypt() with the current entry, or the first of the ring, being of the
\* block's number: the position becomes that of the block.
TakeBlock(e, entry) ==
    LET b == Head(blocks[Peer(e)])
    IN /\ curpos' = [curpos EXCEPT ![e] = b.pos]
       /\ blocks' = [blocks EXCEPT ![Peer(e)] = Tail(@)]
       /\ searching' = [searching EXCEPT ![e] = FALSE]
       /\ garbled' = [garbled EXCEPT
              ![e] = IF b.good /\ Within(entry, b.pos, b.len) THEN @ ELSE @ \cup {b.key}]

\* The places of ring r that hold a key of number k.
PlacesOf(r, k) == {i \in DOMAIN r : r[i].key = k}

DecryptWithCurrent(e) ==
    /\ ~undefined[e] /\ blocks[Peer(e)] # <<>>
    /\ curkey[e] # 0 /\ chain[e][curkey[e]].key = Head(blocks[Peer(e)]).key
    /\ TakeBlock(e, chain[e][curkey[e]])
    /\ UNCHANGED <<mode, files, ring, chain, curkey, freed, reread, undefined>>

\* Otherwise it looks through the ring, from the first entry; in mode 1 it reads
\* the files until the key is there, in mode 0 it waits for a post.
DecryptWithOther(e) ==
    /\ ~undefined[e] /\ blocks[Peer(e)] # <<>>
    /\ LET k == Head(blocks[Peer(e)]).key
       IN /\ curkey[e] # 0 => chain[e][curkey[e]].key # k
          /\ \/ \E i \in PlacesOf(ring[e], k) :
                  /\ \A j \in PlacesOf(ring[e], k) : i <= j
                  /\ chain' = [chain EXCEPT ![e] = ring[e]]
                  /\ curkey' = [curkey EXCEPT ![e] = i]
                  /\ TakeBlock(e, ring[e][i])
             \/ /\ PlacesOf(ring[e], k) = {} /\ ~searching[e]
                /\ searching' = [searching EXCEPT ![e] = TRUE]
                /\ chain' = [chain EXCEPT ![e] = <<>>]
                /\ curkey' = [curkey EXCEPT ![e] = 0]
                /\ UNCHANGED <<curpos, blocks, garbled>>
    /\ freed' = [freed EXCEPT ![e] = FALSE]
    /\ UNCHANGED <<mode, files, ring, reread, undefined>>

\* The loop of decrypt() reads the files once more.
ReadFiles(e) ==
    /\ searching[e] /\ mode = 1
    /\ \E r \in Rings(files[e]) : ring' = [ring EXCEPT ![e] = r]
    /\ UNCHANGED <<mode, files, chain, curkey, curpos, freed, reread, blocks, searching,
                   undefined, garbled>>

-----------------------------------------------------------------------------
\* A key posted over HTTP becomes a ring of its own.  The thread of the control
\* port frees the first entry there was: the current key, or one the other
\* thread may be reaching for at that moment, or none it will use.
PostKey(e) ==
    /\ mode = 0
    /\ \E k \in files[e] : Size[k] >= Slack /\ ring' = [ring EXCEPT ![e] = Copies(k)]
    /\ \E used \in BOOLEAN :
         /\ used => ring[e] # <<>>
         /\ curkey[e] = 1 /\ ~freed[e] => used
         /\ undefined' = [undefined EXCEPT ![e] = @ \/ used]
    /\ freed' = [freed EXCEPT ![e] = @ \/ curkey[e] # 0]
    /\ UNCHANGED <<mode, files, chain, curkey, curpos, reread, blocks, searching, garbled>>

\* "r" asks for the files to be read again.
AskReread(e) ==
    /\ mode = 1 /\ ~reread[e]
    /\ reread' = [reread EXCEPT ![e] = TRUE]
    /\ UNCHANGED <<mode, files, ring, chain, curkey, curpos, freed, blocks, searching, undefined,
                   garbled>>

\* Environment: a key arrives, as a file or to be posted.
NewFile(e) ==
    /\ \E k \in Pads \ files[e] : files' = [files EXCEPT ![e] = @ \cup {k}]
    /\ UNCHANGED <<mode, ring, chain, curkey, curpos, freed, reread, blocks, searching, undefined,
                   garbled>>

QcryptNext ==
    \E e \in Ends : \/ Crypt(e) \/ DecryptWithCurrent(e) \/ DecryptWithOther(e) \/ ReadFiles(e)
                    \/ PostKey(e) \/ AskReread(e) \/ NewFile(e)

QcryptSpec == QcryptInit /\ [][QcryptNext]_qcryptVars

-----------------------------------------------------------------------------
\* A key that is at least a block long and was not posted in several copies.
Whole(k) == Size[k] >= BlockSize /\ (mode = 0 => CopyCount(k) = 1)

\* Whatever entry either direction of an end has made current, and wherever it
\* left the position, what is encrypted with a whole key is decrypted with the
\* same bytes: neither crypt() nor decrypt() goes beyond the entry it uses.  A
\* copy shorter than the first one can be left by either, so keys in several
\* copies are not promised to come out right.
SameBytesBothEnds == \A e \in Ends : \A k \in garbled[e] : ~Whole(k)
=============================================================================
