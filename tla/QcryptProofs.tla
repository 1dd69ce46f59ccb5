---------------------------- MODULE QcryptProofs ----------------------------
(***************************************************************************)
(* The cipher services.  In C, for keys of any sizes, any ends' files and  *)
(* any number of blocks on the way, a key that was not posted in several   *)
(* copies and is not shorter than a block decrypts what it encrypted.  In  *)
(* Python, for any sizes of blocks and headers and any number of keys,     *)
(* what is decoded is what was encoded.                                    *)
(***************************************************************************)
EXTENDS Qcrypt, PythonCrypt, FiniteSetTheorems, SequenceTheorems, WellFoundedInduction, TLAPS

Entry == [key : Pads, size : Int]
Block == [key : Pads, pos : Nat, len : Nat, good : BOOLEAN]

QType ==
    /\ mode \in {0, 1}
    /\ files \in [Ends -> SUBSET Pads]
    /\ ring \in [Ends -> Seq(Entry)]
    /\ chain \in [Ends -> Seq(Entry)]
    /\ curkey \in [Ends -> Nat]
    /\ \A e \in Ends : curkey[e] \in 0..Len(chain[e])
    /\ curpos \in [Ends -> Nat]
    /\ blocks \in [Ends -> Seq(Block)]
    /\ garbled \in [Ends -> SUBSET Pads]

\* An entry of a whole key has all of it, as far as an entry can.
FullEntry(x) == Whole(x.key) => x.size = Shorter(Size[x.key], BufSize)
FullRing(r) == \A i \in DOMAIN r : FullEntry(r[i])

\* A block made with a whole key.
RightBlock(b) ==
    Whole(b.key) => b.good /\ b.pos + b.len <= Shorter(Size[b.key], BufSize)
RightBlocks(s) == \A i \in DOMAIN s : RightBlock(s[i])

QInv ==
    /\ QType
    /\ \A e \in Ends : FullRing(ring[e]) /\ FullRing(chain[e])
    /\ \A e \in Ends : RightBlocks(blocks[e])
    /\ SameBytesBothEnds

-----------------------------------------------------------------------------
\* The other end.
LEMMA PeerIsOther == \A e \in Ends : Peer(e) \in Ends /\ Peer(e) # e
<1> SUFFICES ASSUME NEW e \in Ends PROVE \E f \in Ends : f # e
  BY DEF Peer
<1>1. SUFFICES ASSUME Ends = {e} PROVE FALSE
  OBVIOUS
<1>2. Cardinality(Ends) = 2
  BY Zenon, QcryptAssumption
<1>3. Cardinality({e}) = 1
  BY FS_Singleton
<1> QED BY ONLY <1>1, <1>2, <1>3

LEMMA FileEntryIsFull == \A k \in Pads : FileEntry(k) \in Entry /\ FullEntry(FileEntry(k))
BY QcryptAssumption DEF FileEntry, FullEntry, Entry, Shorter

\* What readdir() gives is a ring of whole entries.
LEMMA RingsAreFull == \A S \in SUBSET Pads : \A r \in Rings(S) : r \in Seq(Entry) /\ FullRing(r)
<1> SUFFICES ASSUME NEW S \in SUBSET Pads, NEW r \in Rings(S) PROVE r \in Seq(Entry) /\ FullRing(r)
  OBVIOUS
<1>1. PICK s \in Orders(S) : r = [i \in DOMAIN s |-> FileEntry(s[i])]
  BY DEF Rings
<1>2. Cardinality(S) \in Nat
  BY FS_Subset, FS_CardinalityType, QcryptAssumption
<1>3. s \in [1..Cardinality(S) -> Pads]
  BY DEF Orders
<1>4. \A i \in 1..Cardinality(S) : r[i] \in Entry /\ FullEntry(r[i])
  BY <1>1, <1>3, FileEntryIsFull
<1>5. DOMAIN r = 1..Cardinality(S) /\ r = [i \in 1..Cardinality(S) |-> r[i]]
  BY <1>1, <1>3
<1> QED BY <1>2, <1>4, <1>5 DEF FullRing

LEMMA CountOfCopies == \A k \in Pads : CopyCount(k) \in Nat \ {0}
<1> SUFFICES ASSUME NEW k \in Pads, Size[k] > Slack PROVE CopyCount(k) \in Nat \ {0}
  BY QcryptAssumption DEF CopyCount
<1>1. ((Size[k] - Slack) - 1) \in Nat /\ BufSize \in Nat \ {0}
  BY QcryptAssumption
<1>2. ((Size[k] - Slack) - 1) \div BufSize \in Nat
  BY <1>1
<1> QED BY <1>2, QcryptAssumption DEF CopyCount

\* A post makes copies, of which the first is the whole of a whole key.
LEMMA CopiesAreFull ==
  ASSUME mode = 0, NEW k \in Pads PROVE Copies(k) \in Seq(Entry) /\ FullRing(Copies(k))
<1>1. CopyCount(k) \in Nat \ {0}
  BY CountOfCopies
<1>2. \A i \in 1..CopyCount(k) : (i - 1) * BufSize \in Nat
  BY <1>1, QcryptAssumption
<1>3. \A i \in 1..CopyCount(k) :
         [key |-> k, size |-> Shorter(Size[k] - (i - 1) * BufSize, BufSize)] \in Entry
  <2> SUFFICES ASSUME NEW i \in 1..CopyCount(k), NEW m \in Nat
               PROVE  [key |-> k, size |-> Shorter(Size[k] - m, BufSize)] \in Entry
    BY <1>2
  <2>1. Shorter(Size[k] - m, BufSize) \in Int
    BY QcryptAssumption DEF Shorter
  <2> QED BY <2>1 DEF Entry
<1>4. Copies(k) \in Seq(Entry)
  BY <1>1, <1>3 DEF Copies
<1>5. ASSUME Whole(k), NEW i \in DOMAIN Copies(k)
      PROVE  Copies(k)[i].size = Shorter(Size[k], BufSize)
  <2>1. CopyCount(k) = 1
    BY <1>5 DEF Whole
  <2>2. i = 1
    BY <1>5, <2>1 DEF Copies
  <2>3. Copies(k)[i].size = Shorter(Size[k] - (i - 1) * BufSize, BufSize)
    BY <2>1, <2>2 DEF Copies
  <2>4. Size[k] - (i - 1) * BufSize = Size[k]
    BY <2>2, QcryptAssumption
  <2> QED BY <2>3, <2>4
<1>6. \A i \in DOMAIN Copies(k) : Copies(k)[i].key = k
  BY DEF Copies
<1>7. FullRing(Copies(k))
  BY <1>5, <1>6, Zenon DEF FullRing, FullEntry
<1> QED BY <1>4, <1>7

-----------------------------------------------------------------------------
\* The block that crypt() makes, at a position of an entry where it fits or at
\* the start of the next entry.
LEMMA BlockIsRight ==
  ASSUME NEW r \in Seq(Entry), FullRing(r), NEW key \in 1..Len(r), NEW pos \in Nat,
         NEW n \in 1..BlockSize, pos = 0 \/ pos + n <= r[key].size
  PROVE  LET b == [key |-> r[key].key, pos |-> pos, len |-> n, good |-> Within(r[key], pos, n)]
         IN b \in Block /\ RightBlock(b)
<1> DEFINE x == r[key]
           b == [key |-> x.key, pos |-> pos, len |-> n, good |-> Within(x, pos, n)]
<1>1. x \in Entry /\ FullEntry(x)
  BY DEF FullRing
<1> HIDE DEF x
<1>2. n \in Nat /\ BlockSize \in Nat /\ n <= BlockSize
  BY QcryptAssumption
<1>3. b \in Block
  BY <1>1, <1>2 DEF Block, Entry, Within
<1>4. ASSUME Whole(x.key) PROVE pos + n <= x.size
  <2>1. x.size = Shorter(Size[x.key], BufSize) /\ x.key \in Pads
    BY <1>1, <1>4 DEF FullEntry, Entry
  <2>2. x.size >= BlockSize
    BY <1>4, <2>1, QcryptAssumption DEF Whole, Shorter
  <2>3. pos = 0 \/ pos + n <= x.size
    BY DEF x
  <2>4. x.size \in Int
    BY <1>1 DEF Entry
  <2> QED BY <1>2, <2>2, <2>3, <2>4
<1>5. RightBlock(b)
  BY <1>1, <1>4 DEF RightBlock, Within, FullEntry
<1> QED BY <1>3, <1>5 DEF x

LEMMA AppendRight ==
  ASSUME NEW s \in Seq(Block), RightBlocks(s), NEW b \in Block, RightBlock(b)
  PROVE  Append(s, b) \in Seq(Block) /\ RightBlocks(Append(s, b))
<1>1. Append(s, b) \in Seq(Block)
  OBVIOUS
<1>2. ASSUME NEW i \in DOMAIN Append(s, b) PROVE RightBlock(Append(s, b)[i])
  <2>1. i \in 1..Len(s) + 1
    OBVIOUS
  <2>2. CASE i \in 1..Len(s)
    BY <2>2 DEF RightBlocks
  <2>3. CASE i = Len(s) + 1
    BY <2>3
  <2> QED BY <2>1, <2>2, <2>3
<1> QED BY <1>1, <1>2 DEF RightBlocks

LEMMA TailRight ==
  ASSUME NEW s \in Seq(Block), RightBlocks(s), s # <<>>
  PROVE  /\ Tail(s) \in Seq(Block) /\ RightBlocks(Tail(s))
         /\ Head(s) \in Block /\ RightBlock(Head(s))
<1>1. Tail(s) \in Seq(Block) /\ Head(s) \in Block /\ RightBlock(Head(s))
  BY DEF RightBlocks
<1>2. ASSUME NEW i \in DOMAIN Tail(s) PROVE RightBlock(Tail(s)[i])
  <2>1. i + 1 \in 1..Len(s) /\ Tail(s)[i] = s[i + 1]
    OBVIOUS
  <2> QED BY <2>1 DEF RightBlocks
<1> QED BY <1>1, <1>2 DEF RightBlocks

-----------------------------------------------------------------------------
LEMMA QInitial == QcryptInit => QInv
<1> SUFFICES ASSUME QcryptInit PROVE QInv
  OBVIOUS
<1> USE DEF QcryptInit
<1>1. \A e \in Ends : ring[e] \in Seq(Entry) /\ FullRing(ring[e])
  <2> SUFFICES ASSUME NEW e \in Ends PROVE ring[e] \in Seq(Entry) /\ FullRing(ring[e])
    OBVIOUS
  <2>1. CASE mode = 1
    BY <2>1, RingsAreFull
  <2>2. CASE mode # 1
    <3>1. ring \in [Ends -> {<<>>}]
      BY <2>2
    <3>2. ring[e] = <<>>
      BY ONLY <3>1
    <3> QED BY ONLY <3>2 DEF FullRing
  <2> QED BY <2>1, <2>2
<1>2. ring \in [Ends -> Seq(Entry)]
  <2>1. ring = [e \in Ends |-> ring[e]]
    OBVIOUS
  <2> QED BY <1>1, <2>1
<1>3. QType
  BY <1>2 DEF QType
<1>4. \A e \in Ends : FullRing(chain[e]) /\ RightBlocks(blocks[e])
  BY DEF FullRing, RightBlocks
<1>5. SameBytesBothEnds
  BY DEF SameBytesBothEnds
<1> QED BY <1>1, <1>3, <1>4, <1>5 DEF QInv

\* What a step that makes no block and takes none leaves alone.
LEMMA NoBlockMoves ==
  ASSUME QInv, mode' = mode, files' \in [Ends -> SUBSET Pads],
         ring' \in [Ends -> Seq(Entry)], chain' \in [Ends -> Seq(Entry)],
         \A e \in Ends : FullRing(ring'[e]) /\ FullRing(chain'[e]),
         curkey' \in [Ends -> Nat], \A e \in Ends : curkey'[e] \in 0..Len(chain'[e]),
         curpos' = curpos, blocks' = blocks, garbled' = garbled
  PROVE  QInv'
<1>1. \A k : Whole(k)' = Whole(k)
  BY DEF Whole
<1>2. QType'
  BY DEF QInv, QType
<1>3. \A e \in Ends : FullRing(ring[e])' /\ FullRing(chain[e])'
  BY <1>1 DEF FullRing, FullEntry
<1>4. \A e \in Ends : RightBlocks(blocks[e])'
  BY <1>1 DEF QInv, RightBlocks, RightBlock
<1>5. SameBytesBothEnds'
  BY <1>1 DEF QInv, SameBytesBothEnds
<1> QED BY <1>2, <1>3, <1>4, <1>5 DEF QInv

\* One turn of the loop of crypt().
LEMMA SendBlockKeeps ==
  ASSUME QInv, NEW e \in Ends, NEW r \in Seq(Entry), FullRing(r), NEW i \in 1..Len(r),
         NEW p \in Nat, NEW n \in 1..BlockSize, SendBlock(e, r, i, p, n),
         mode' = mode, files' = files, garbled' = garbled,
         ring' \in [Ends -> Seq(Entry)], \A f \in Ends : FullRing(ring'[f])
  PROVE  QInv'
<1> DEFINE turns == p + n >= r[i].size
           key == IF turns THEN (i % Len(r)) + 1 ELSE i
           pos == IF turns THEN 0 ELSE p
           b == [key |-> r[key].key, pos |-> pos, len |-> n, good |-> Within(r[key], pos, n)]
<1>1. key \in 1..Len(r)
  <2>1. Len(r) \in Nat \ {0} /\ i \in Nat
    OBVIOUS
  <2>2. i % Len(r) \in 0..(Len(r) - 1)
    BY <2>1
  <2> QED BY <2>1, <2>2
<1>2. pos \in Nat /\ (pos = 0 \/ pos + n <= r[key].size)
  <2>1. CASE turns
    BY <2>1
  <2>2. CASE ~turns
    <3>1. n \in Nat /\ p \in Nat
      BY QcryptAssumption
    <3>2. r[i] \in Entry
      OBVIOUS
    <3>3. r[i].size \in Int
      BY ONLY <3>2 DEF Entry
    <3>4. p + n <= r[i].size
      BY ONLY <2>2, <3>1, <3>3
    <3> QED BY ONLY <2>2, <3>1, <3>4
  <2> QED BY <2>1, <2>2
<1>3. /\ chain' = [chain EXCEPT ![e] = r]
      /\ curkey' = [curkey EXCEPT ![e] = key]
      /\ curpos' = [curpos EXCEPT ![e] = pos + n]
      /\ blocks' = [blocks EXCEPT ![e] = Append(@, b)] \/ blocks' = blocks
  BY Zenon DEF SendBlock, SendFrom
<1> HIDE DEF turns, key, pos
<1>4. b \in Block /\ RightBlock(b)
  BY <1>1, <1>2, BlockIsRight
<1> HIDE DEF b
<1>5. /\ blocks' \in [Ends -> Seq(Block)]
      /\ \A f \in Ends : RightBlocks(blocks'[f])
  <2>1. Append(blocks[e], b) \in Seq(Block) /\ RightBlocks(Append(blocks[e], b))
    BY <1>4, AppendRight DEF QInv, QType
  <2> HIDE DEF RightBlocks
  <2> QED BY <1>3, <2>1 DEF QInv, QType
<1>6. curpos' \in [Ends -> Nat]
  <2>1. n \in Nat
    BY QcryptAssumption
  <2>2. pos + n \in Nat
    BY ONLY <1>2, <2>1
  <2>3. curpos \in [Ends -> Nat]
    BY Zenon DEF QInv, QType
  <2> QED BY ONLY <1>3, <2>2, <2>3
<1>7. /\ chain' \in [Ends -> Seq(Entry)] /\ \A f \in Ends : FullRing(chain'[f])
      /\ curkey' \in [Ends -> Nat] /\ \A f \in Ends : curkey'[f] \in 0..Len(chain'[f])
  <2>1. /\ chain \in [Ends -> Seq(Entry)] /\ \A f \in Ends : FullRing(chain[f])
        /\ curkey \in [Ends -> Nat] /\ \A f \in Ends : curkey[f] \in 0..Len(chain[f])
    BY Zenon DEF QInv, QType
  <2>2. r \in Seq(Entry) /\ FullRing(r) /\ key \in Nat /\ key \in 0..Len(r)
    BY <1>1
  <2> QED BY ONLY <1>3, <2>1, <2>2
<1>8. \A k : Whole(k)' = Whole(k)
  BY DEF Whole
<1>9. QType'
  BY <1>5, <1>6, <1>7 DEF QInv, QType
<1>10. \A f \in Ends : FullRing(ring[f])' /\ FullRing(chain[f])'
  BY <1>7, <1>8 DEF FullRing, FullEntry
<1>11. \A f \in Ends : RightBlocks(blocks[f])'
  BY <1>5, <1>8 DEF RightBlocks, RightBlock
<1>12. SameBytesBothEnds'
  BY <1>8 DEF QInv, SameBytesBothEnds
<1> QED BY <1>9, <1>10, <1>11, <1>12 DEF QInv

LEMMA CryptKeeps == ASSUME QInv, NEW e \in Ends, Crypt(e) PROVE QInv'
<1>1. mode' = mode /\ files' = files /\ garbled' = garbled
  BY DEF Crypt
<1>2. PICK n \in 1..BlockSize :
        IF reread[e] \/ curkey[e] = 0
        THEN \E r \in IF mode = 1 THEN Rings(files[e]) ELSE {ring[e]} :
               /\ r # <<>>
               /\ ring' = [ring EXCEPT ![e] = r]
               /\ SendBlock(e, r, 1, 0, n)
        ELSE SendBlock(e, chain[e], curkey[e], curpos[e], n) /\ UNCHANGED ring
  BY DEF Crypt
<1>3. CASE reread[e] \/ curkey[e] = 0
  <2>1. PICK r \in IF mode = 1 THEN Rings(files[e]) ELSE {ring[e]} :
               /\ r # <<>>
               /\ ring' = [ring EXCEPT ![e] = r]
               /\ SendBlock(e, r, 1, 0, n)
    BY <1>2, <1>3
  <2>2. r \in Seq(Entry) /\ FullRing(r)
    BY RingsAreFull DEF QInv, QType
  <2>3. 1 \in 1..Len(r)
    BY <2>1, <2>2
  <2>4. ring' \in [Ends -> Seq(Entry)] /\ \A f \in Ends : FullRing(ring'[f])
    BY <2>1, <2>2 DEF QInv, QType
  <2> QED BY <1>1, <2>1, <2>2, <2>3, <2>4, SendBlockKeeps
<1>4. CASE ~(reread[e] \/ curkey[e] = 0)
  <2>1. SendBlock(e, chain[e], curkey[e], curpos[e], n) /\ ring' = ring
    BY <1>2, <1>4
  <2>2. /\ chain[e] \in Seq(Entry) /\ FullRing(chain[e]) /\ curkey[e] \in 1..Len(chain[e])
        /\ curpos[e] \in Nat
    BY <1>4 DEF QInv, QType
  <2>3. ring' \in [Ends -> Seq(Entry)] /\ \A f \in Ends : FullRing(ring'[f])
    BY <2>1 DEF QInv, QType
  <2> QED BY <1>1, <2>1, <2>2, <2>3, SendBlockKeeps
<1> QED BY <1>3, <1>4

\* decrypt() with an entry of the number of the block.
LEMMA TakeBlockKeeps ==
  ASSUME QInv, NEW e \in Ends, blocks[Peer(e)] # <<>>, NEW x \in Entry, FullEntry(x),
         x.key = Head(blocks[Peer(e)]).key, TakeBlock(e, x),
         mode' = mode, files' = files, ring' = ring,
         chain' \in [Ends -> Seq(Entry)], \A f \in Ends : FullRing(chain'[f]),
         curkey' \in [Ends -> Nat], \A f \in Ends : curkey'[f] \in 0..Len(chain'[f])
  PROVE  QInv'
<1> DEFINE f == Peer(e)
           b == Head(blocks[f])
<1>1. f \in Ends
  BY PeerIsOther
<1>2. /\ Tail(blocks[f]) \in Seq(Block) /\ RightBlocks(Tail(blocks[f]))
      /\ b \in Block /\ RightBlock(b)
  BY <1>1, TailRight DEF QInv, QType
<1>3. /\ curpos' = [curpos EXCEPT ![e] = b.pos]
      /\ blocks' = [blocks EXCEPT ![f] = Tail(@)]
      /\ garbled' = [garbled EXCEPT
             ![e] = IF b.good /\ Within(x, b.pos, b.len) THEN @ ELSE @ \cup {b.key}]
  BY DEF TakeBlock
<1>4. x.key = b.key
  OBVIOUS
<1> HIDE DEF f, b
<1>5. Whole(b.key) => b.good /\ Within(x, b.pos, b.len)
  BY <1>2, <1>4 DEF RightBlock, FullEntry, Within
<1>6. \A k : Whole(k)' = Whole(k)
  BY DEF Whole
<1>7. curpos' \in [Ends -> Nat]
  BY <1>2, <1>3 DEF QInv, QType, Block
<1>8. blocks' \in [Ends -> Seq(Block)] /\ \A d \in Ends : RightBlocks(blocks'[d])
  BY <1>1, <1>2, <1>3 DEF QInv, QType
<1>9. garbled' \in [Ends -> SUBSET Pads] /\ \A d \in Ends : \A k \in garbled'[d] : ~Whole(k)
  <2>1. b.key \in Pads
    BY <1>2 DEF Block
  <2> QED BY <1>3, <1>5, <2>1 DEF QInv, QType, SameBytesBothEnds
<1>10. QType'
  BY <1>7, <1>8, <1>9 DEF QInv, QType
<1>11. \A d \in Ends : FullRing(ring[d])' /\ FullRing(chain[d])'
  BY <1>6 DEF QInv, FullRing, FullEntry
<1>12. \A d \in Ends : RightBlocks(blocks[d])'
  BY <1>6, <1>8 DEF RightBlocks, RightBlock
<1>13. SameBytesBothEnds'
  BY <1>6, <1>9 DEF SameBytesBothEnds
<1> QED BY <1>10, <1>11, <1>12, <1>13 DEF QInv

LEMMA DecryptWithCurrentKeeps == ASSUME QInv, NEW e \in Ends, DecryptWithCurrent(e) PROVE QInv'
<1> DEFINE x == chain[e][curkey[e]]
<1>1. /\ blocks[Peer(e)] # <<>> /\ x.key = Head(blocks[Peer(e)]).key /\ TakeBlock(e, x)
      /\ mode' = mode /\ files' = files /\ ring' = ring /\ chain' = chain /\ curkey' = curkey
  BY DEF DecryptWithCurrent
<1>2. x \in Entry /\ FullEntry(x)
  <2>1. curkey[e] \in 1..Len(chain[e]) /\ chain[e] \in Seq(Entry) /\ FullRing(chain[e])
    BY DEF DecryptWithCurrent, QInv, QType
  <2> QED BY <2>1 DEF FullRing
<1>3. /\ chain' \in [Ends -> Seq(Entry)] /\ \A f \in Ends : FullRing(chain'[f])
      /\ curkey' \in [Ends -> Nat] /\ \A f \in Ends : curkey'[f] \in 0..Len(chain'[f])
  BY <1>1 DEF QInv, QType
<1> HIDE DEF x
<1> QED BY <1>1, <1>2, <1>3, TakeBlockKeeps

LEMMA DecryptWithOtherKeeps == ASSUME QInv, NEW e \in Ends, DecryptWithOther(e) PROVE QInv'
<1> DEFINE k == Head(blocks[Peer(e)]).key
<1>1. blocks[Peer(e)] # <<>> /\ mode' = mode /\ files' = files /\ ring' = ring
  BY DEF DecryptWithOther
<1>2. CASE \E i \in PlacesOf(ring[e], k) :
             /\ chain' = [chain EXCEPT ![e] = ring[e]]
             /\ curkey' = [curkey EXCEPT ![e] = i]
             /\ TakeBlock(e, ring[e][i])
  <2>1. PICK i \in PlacesOf(ring[e], k) :
             /\ chain' = [chain EXCEPT ![e] = ring[e]]
             /\ curkey' = [curkey EXCEPT ![e] = i]
             /\ TakeBlock(e, ring[e][i])
    BY <1>2
  <2> HIDE DEF k
  <2>2. ring[e] \in Seq(Entry) /\ FullRing(ring[e])
    BY DEF QInv, QType
  <2>3. i \in 1..Len(ring[e]) /\ ring[e][i].key = k
    BY <2>2 DEF PlacesOf
  <2>4. ring[e][i] \in Entry /\ FullEntry(ring[e][i])
    BY <2>2, <2>3 DEF FullRing
  <2>5. /\ chain' \in [Ends -> Seq(Entry)] /\ \A f \in Ends : FullRing(chain'[f])
        /\ curkey' \in [Ends -> Nat] /\ \A f \in Ends : curkey'[f] \in 0..Len(chain'[f])
    <3>1. /\ chain \in [Ends -> Seq(Entry)] /\ \A f \in Ends : FullRing(chain[f])
          /\ curkey \in [Ends -> Nat] /\ \A f \in Ends : curkey[f] \in 0..Len(chain[f])
      BY Zenon DEF QInv, QType
    <3>2. i \in Nat /\ i \in 0..Len(ring[e])
      BY ONLY <2>2, <2>3
    <3> QED BY ONLY <2>1, <2>2, <3>1, <3>2
  <2> QED BY <1>1, <2>1, <2>3, <2>4, <2>5, TakeBlockKeeps DEF k
<1>3. CASE /\ chain' = [chain EXCEPT ![e] = <<>>]
           /\ curkey' = [curkey EXCEPT ![e] = 0]
           /\ UNCHANGED <<curpos, blocks, garbled>>
  <2>1. FullRing(<<>>)
    BY DEF FullRing
  <2>2. /\ chain' \in [Ends -> Seq(Entry)] /\ \A f \in Ends : FullRing(chain'[f])
        /\ curkey' \in [Ends -> Nat] /\ \A f \in Ends : curkey'[f] \in 0..Len(chain'[f])
    BY <1>3, <2>1 DEF QInv, QType
  <2>3. /\ files' \in [Ends -> SUBSET Pads] /\ ring' \in [Ends -> Seq(Entry)]
        /\ \A f \in Ends : FullRing(ring'[f])
    BY <1>1 DEF QInv, QType
  <2> QED BY <1>1, <1>3, <2>2, <2>3, NoBlockMoves
<1> QED BY <1>2, <1>3, Zenon DEF DecryptWithOther

\* A new ring, of files or of copies.
LEMMA NewRingKeeps ==
  ASSUME QInv, NEW e \in Ends, NEW r \in Seq(Entry), FullRing(r),
         ring' = [ring EXCEPT ![e] = r], mode' = mode, files' = files, chain' = chain,
         curkey' = curkey, curpos' = curpos, blocks' = blocks, garbled' = garbled
  PROVE  QInv'
<1>1. ring' \in [Ends -> Seq(Entry)] /\ \A f \in Ends : FullRing(ring'[f])
  BY DEF QInv, QType
<1>2. /\ files' \in [Ends -> SUBSET Pads] /\ chain' \in [Ends -> Seq(Entry)]
      /\ curkey' \in [Ends -> Nat] /\ \A f \in Ends : curkey'[f] \in 0..Len(chain'[f])
      /\ \A f \in Ends : FullRing(chain'[f])
  BY DEF QInv, QType
<1> QED BY <1>1, <1>2, NoBlockMoves

LEMMA ReadFilesKeeps == ASSUME QInv, NEW e \in Ends, ReadFiles(e) PROVE QInv'
<1>1. PICK r \in Rings(files[e]) : ring' = [ring EXCEPT ![e] = r]
  BY DEF ReadFiles
<1>2. r \in Seq(Entry) /\ FullRing(r)
  BY RingsAreFull DEF QInv, QType
<1> QED BY <1>1, <1>2, NewRingKeeps DEF ReadFiles

LEMMA PostKeyKeeps == ASSUME QInv, NEW e \in Ends, PostKey(e) PROVE QInv'
<1>1. PICK k \in files[e] : ring' = [ring EXCEPT ![e] = Copies(k)]
  BY DEF PostKey
<1>2. Copies(k) \in Seq(Entry) /\ FullRing(Copies(k))
  BY CopiesAreFull DEF QInv, QType, PostKey
<1> QED BY <1>1, <1>2, NewRingKeeps DEF PostKey

\* Only the wish to read again, or the files, change.
LEMMA RestKeeps == ASSUME QInv, NEW e \in Ends, AskReread(e) \/ NewFile(e) PROVE QInv'
<1>1. files' \in [Ends -> SUBSET Pads]
  <2>1. files \in [Ends -> SUBSET Pads]
    BY DEF QInv, QType
  <2>2. CASE AskReread(e)
    BY <2>1, <2>2 DEF AskReread
  <2>3. CASE NewFile(e)
    <3>1. PICK k \in Pads : files' = [files EXCEPT ![e] = @ \cup {k}]
      BY <2>3 DEF NewFile
    <3> QED BY ONLY <2>1, <3>1
  <2> QED BY <2>2, <2>3
<1>2. /\ mode' = mode /\ ring' = ring /\ chain' = chain /\ curkey' = curkey
      /\ curpos' = curpos /\ blocks' = blocks /\ garbled' = garbled
  BY DEF AskReread, NewFile
<1>3. /\ ring' \in [Ends -> Seq(Entry)] /\ chain' \in [Ends -> Seq(Entry)]
      /\ curkey' \in [Ends -> Nat] /\ \A f \in Ends : curkey'[f] \in 0..Len(chain'[f])
      /\ \A f \in Ends : FullRing(ring'[f]) /\ FullRing(chain'[f])
  BY <1>2 DEF QInv, QType
<1> QED BY <1>1, <1>2, <1>3, NoBlockMoves

-----------------------------------------------------------------------------
\* The invariant of the service: an entry of a whole key, in the ring or in the
\* ring a post left behind, is as long as such a key can be, and the blocks made
\* with it lie within it.
THEOREM QcryptCorrect == QcryptSpec => []QInv
<1>1. QcryptInit => QInv
  BY QInitial
<1>2. QInv /\ [QcryptNext]_qcryptVars => QInv'
  <2> SUFFICES ASSUME QInv, [QcryptNext]_qcryptVars PROVE QInv'
    OBVIOUS
  <2>1. CASE UNCHANGED qcryptVars
    BY <2>1 DEF qcryptVars, QInv, QType, FullRing, FullEntry, RightBlocks, RightBlock,
                SameBytesBothEnds, Whole
  <2>2. CASE QcryptNext
    BY <2>2, CryptKeeps, DecryptWithCurrentKeeps, DecryptWithOtherKeeps, ReadFilesKeeps,
       PostKeyKeeps, RestKeeps, Zenon DEF QcryptNext
  <2> QED BY <2>1, <2>2
<1> QED BY <1>1, <1>2, PTL DEF QcryptSpec

\* Whatever the one variable curkey is used for in the two directions, and
\* whatever is posted meanwhile, what a whole key encrypts it decrypts.
THEOREM WholeKeysDecrypt == QcryptSpec => []SameBytesBothEnds
<1>1. QInv => SameBytesBothEnds
  BY DEF QInv
<1> QED BY <1>1, QcryptCorrect, PTL

-----------------------------------------------------------------------------
(* The cipher service in Python.  The proof follows the bytes on the way,  *)
(* each with the block it is of and its place there: encode() puts whole   *)
(* blocks behind one another, decode() takes whole blocks off the front.   *)

\* Induction, by the least counterexample.
Before == {ss \in Nat \X Nat : ss[1] < ss[2]}
LEMMA Least == ASSUME NEW T \in SUBSET Nat, T # {} PROVE \E x \in T : \A y \in T : x <= y
<1>1. IsWellFoundedOn(Before, Nat)
  BY NatLessThanWellFounded DEF OpToRel, Before
<1>2. PICK x \in T : \A y \in T : ~(<<y, x>> \in Before)
  BY <1>1, WFMin
<1>3. ASSUME NEW y \in T PROVE x <= y
  <2>1. y \in Nat /\ x \in Nat
    OBVIOUS
  <2>2. ~(y < x)
    BY <1>2, <2>1 DEF Before
  <2> QED BY <2>1, <2>2
<1> QED BY <1>3

PyBlock == [key : Nat, pos : Int, count : Nat \ {0}, first : Nat \ {0}]
PyByte == {x \in PyBlock \X (Nat \ {0}) : x[2] <= HeaderSize + x[1].count}

\* y is the byte behind x.
Follows(x, y) ==
    IF x[2] < HeaderSize + x[1].count THEN y = <<x[1], x[2] + 1>>
    ELSE y[2] = 1 /\ y[1].first = x[1].first + x[1].count
Chain(w) == w \in Seq(PyByte) /\ \A p \in 1 .. Len(w) - 1 : Follows(w[p], w[p + 1])

\* The data up to a byte, without it and with it.
DataBefore(x) ==
    IF x[2] <= HeaderSize THEN x[1].first - 1 ELSE x[1].first + ((x[2] - HeaderSize) - 2)
DataUpTo(x) ==
    IF x[2] <= HeaderSize THEN x[1].first - 1 ELSE x[1].first + ((x[2] - HeaderSize) - 1)
\* The data before place p of w.
Mark(w, p) == IF p <= Len(w) THEN DataBefore(w[p]) ELSE DataUpTo(w[Len(w)])

LEMMA PySizes == HeaderSize \in Nat \ {0} /\ PacketSize \in Nat \ {0}
BY PythonAssumption

LEMMA ByteFacts ==
    ASSUME NEW x \in PyByte
    PROVE  /\ x = <<x[1], x[2]>> /\ x[1] \in PyBlock /\ x[1].count \in Nat \ {0}
           /\ x[1].first \in Nat \ {0} /\ x[1].key \in Nat
           /\ x[2] \in Nat \ {0} /\ x[2] <= HeaderSize + x[1].count
           /\ DataBefore(x) \in Nat /\ DataUpTo(x) \in Nat
           /\ DataUpTo(x) = (IF x[2] > HeaderSize THEN DataBefore(x) + 1 ELSE DataBefore(x))
           /\ x[2] > HeaderSize => NumberOf(x) = DataUpTo(x)
           /\ x[2] = HeaderSize + x[1].count => DataUpTo(x) = (x[1].first + x[1].count) - 1
<1>1. x = <<x[1], x[2]>> /\ x[1] \in PyBlock /\ x[2] \in Nat \ {0} /\ x[2] <= HeaderSize + x[1].count
  BY DEF PyByte
<1>2. x[1].count \in Nat \ {0} /\ x[1].first \in Nat \ {0} /\ x[1].key \in Nat
  BY <1>1 DEF PyBlock
<1> DEFINE h == HeaderSize
           j == x[2]
           c == x[1].count
           f == x[1].first
<1>3. h \in Nat \ {0} /\ j \in Nat \ {0} /\ c \in Nat \ {0} /\ f \in Nat \ {0} /\ j <= h + c
  BY <1>1, <1>2, PySizes
<1>4. /\ DataBefore(x) = IF j <= h THEN f - 1 ELSE f + ((j - h) - 2)
      /\ DataUpTo(x) = IF j <= h THEN f - 1 ELSE f + ((j - h) - 1)
      /\ NumberOf(x) = f + j - h - 1
  BY DEF DataBefore, DataUpTo, NumberOf
<1> DEFINE b == DataBefore(x)
           u == DataUpTo(x)
           n == NumberOf(x)
<1> HIDE DEF h, j, c, f, b, u, n
<1>5. /\ b = IF j <= h THEN f - 1 ELSE f + ((j - h) - 2)
      /\ u = IF j <= h THEN f - 1 ELSE f + ((j - h) - 1)
      /\ n = f + j - h - 1
  BY <1>4 DEF b, u, n, h, j, f
<1>6. b \in Nat /\ u \in Nat /\ u = (IF j > h THEN b + 1 ELSE b)
  BY ONLY <1>3, <1>5
<1>7. (j > h => n = u) /\ (j = h + c => u = (f + c) - 1)
  BY ONLY <1>3, <1>5
<1> QED BY <1>1, <1>2, <1>6, <1>7 DEF h, j, c, f, b, u, n

LEMMA FollowsMarks ==
    ASSUME NEW x \in PyByte, NEW y \in PyByte, Follows(x, y)
    PROVE  DataBefore(y) = DataUpTo(x)
<1> DEFINE h == HeaderSize
           j == x[2]
           c == x[1].count
           f == x[1].first
<1>1. h \in Nat \ {0} /\ j \in Nat \ {0} /\ c \in Nat \ {0} /\ f \in Nat \ {0} /\ j <= h + c
  BY ByteFacts, PySizes
<1>2. DataUpTo(x) = IF j <= h THEN f - 1 ELSE f + ((j - h) - 1)
  BY DEF DataUpTo
<1>3. CASE j < h + c
  <2>1. y[1] = x[1] /\ y[2] = j + 1
    BY <1>3 DEF Follows
  <2>2. DataBefore(y) = IF j + 1 <= h THEN f - 1 ELSE f + (((j + 1) - h) - 2)
    BY <2>1 DEF DataBefore
  <2> HIDE DEF h, j, c, f
  <2> DEFINE b == DataBefore(y)
             u == DataUpTo(x)
  <2>3. b = (IF j + 1 <= h THEN f - 1 ELSE f + (((j + 1) - h) - 2))
        /\ u = (IF j <= h THEN f - 1 ELSE f + ((j - h) - 1))
    BY <1>2, <2>2
  <2> HIDE DEF b, u
  <2>4. b = u
    BY ONLY <1>1, <2>3
  <2> QED BY <2>4 DEF b, u
<1>4. CASE ~(j < h + c)
  <2>1. y[2] = 1 /\ y[1].first = f + c
    BY <1>4 DEF Follows
  <2>2. DataBefore(y) = IF 1 <= h THEN (f + c) - 1 ELSE (f + c) + ((1 - h) - 2)
    BY <2>1 DEF DataBefore
  <2> HIDE DEF h, j, c, f
  <2> DEFINE b == DataBefore(y)
             u == DataUpTo(x)
  <2>3. b = (IF 1 <= h THEN (f + c) - 1 ELSE (f + c) + ((1 - h) - 2))
        /\ u = (IF j <= h THEN f - 1 ELSE f + ((j - h) - 1))
    BY <1>2, <2>2
  <2> HIDE DEF b, u
  <2>4. b = u
    BY ONLY <1>1, <1>4, <2>3
  <2> QED BY <2>4 DEF b, u
<1> QED BY <1>3, <1>4

LEMMA MarkStep ==
    ASSUME NEW w, Chain(w), NEW p \in 1 .. Len(w)
    PROVE  /\ Len(w) \in Nat /\ w[p] \in PyByte /\ Mark(w, p) = DataBefore(w[p])
           /\ Mark(w, p + 1) = DataUpTo(w[p])
           /\ Mark(w, p) \in Nat /\ Mark(w, p + 1) \in Nat
           /\ Mark(w, p + 1) = (IF p \in DataPlaces(w) THEN Mark(w, p) + 1 ELSE Mark(w, p))
           /\ p \in DataPlaces(w) => NumberOf(w[p]) = Mark(w, p + 1)
<1>1. w \in Seq(PyByte) /\ Len(w) \in Nat /\ DOMAIN w = 1 .. Len(w)
  BY LenProperties DEF Chain
<1>2. w[p] \in PyByte /\ p \in Nat /\ p <= Len(w)
  BY <1>1, ElementOfSeq
<1>3. Mark(w, p) = DataBefore(w[p])
  BY <1>2 DEF Mark
<1>4. Mark(w, p + 1) = DataUpTo(w[p])
  <2>1. CASE p = Len(w)
    BY <1>1, <2>1 DEF Mark
  <2>2. CASE p # Len(w)
    <3>1. p \in 1 .. Len(w) - 1 /\ p + 1 \in 1 .. Len(w) /\ p + 1 <= Len(w)
      <4>1. \A l \in Nat : p \in 1 .. l /\ p # l
                             => p \in 1 .. l - 1 /\ p + 1 \in 1 .. l /\ p + 1 <= l
        BY ONLY TRUE
      <4> QED BY <1>1, <2>2, <4>1, Zenon
    <3>2. Follows(w[p], w[p + 1])
      <4>1. \A i \in 1 .. Len(w) - 1 : Follows(w[i], w[i + 1])
        BY DEF Chain
      <4> QED BY ONLY <3>1, <4>1
    <3>3. w[p + 1] \in PyByte
      BY <1>1, <3>1, ElementOfSeq
    <3> QED BY <1>2, <3>1, <3>2, <3>3, FollowsMarks DEF Mark
  <2> QED BY <2>1, <2>2
<1>5. p \in DataPlaces(w) <=> w[p][2] > HeaderSize
  BY <1>1 DEF DataPlaces
<1> DEFINE x == w[p]
<1>6. /\ DataBefore(x) \in Nat /\ DataUpTo(x) \in Nat
      /\ DataUpTo(x) = (IF x[2] > HeaderSize THEN DataBefore(x) + 1 ELSE DataBefore(x))
      /\ x[2] > HeaderSize => NumberOf(x) = DataUpTo(x)
  BY <1>2, ByteFacts
<1>7. Mark(w, p) = DataBefore(x) /\ Mark(w, p + 1) = DataUpTo(x) /\ x \in PyByte /\ Len(w) \in Nat
      /\ (p \in DataPlaces(w) <=> x[2] > HeaderSize)
  BY <1>1, <1>2, <1>3, <1>4, <1>5
<1> HIDE DEF x
<1>8. /\ Mark(w, p) \in Nat /\ Mark(w, p + 1) \in Nat
      /\ Mark(w, p + 1) = (IF p \in DataPlaces(w) THEN Mark(w, p) + 1 ELSE Mark(w, p))
      /\ p \in DataPlaces(w) => NumberOf(x) = Mark(w, p + 1)
  BY ONLY <1>6, <1>7
<1> QED BY <1>3, <1>7, <1>8 DEF x

LEMMA MarkNat ==
    ASSUME NEW w, Chain(w), w # <<>>
    PROVE  /\ Len(w) \in Nat \ {0} /\ w[1] \in PyByte /\ w[Len(w)] \in PyByte
           /\ \A p \in 1 .. Len(w) + 1 : Mark(w, p) \in Nat
           /\ Mark(w, 1) = DataBefore(w[1]) /\ Mark(w, Len(w) + 1) = DataUpTo(w[Len(w)])
<1>1. w \in Seq(PyByte) /\ Len(w) \in Nat \ {0}
  BY EmptySeq DEF Chain
<1>2. 1 \in 1 .. Len(w) /\ Len(w) \in 1 .. Len(w)
  BY <1>1
<1>3. \A p \in 1 .. Len(w) : w[p] \in PyByte /\ Mark(w, p) \in Nat
  BY MarkStep
<1>4. Mark(w, 1) = DataBefore(w[1]) /\ Mark(w, Len(w) + 1) = DataUpTo(w[Len(w)])
      /\ Mark(w, Len(w) + 1) \in Nat
  BY <1>2, MarkStep
<1>5. \A p \in 1 .. Len(w) + 1 : p \in 1 .. Len(w) \/ p = Len(w) + 1
  BY <1>1
<1> QED BY <1>1, <1>2, <1>3, <1>4, <1>5

LEMMA MarksGrow ==
    ASSUME NEW w, Chain(w), w # <<>>, NEW p \in 1 .. Len(w) + 1, NEW q \in 1 .. Len(w) + 1, p <= q
    PROVE  Mark(w, p) <= Mark(w, q)
<1> DEFINE l == Len(w)
           m == [x \in 1 .. l + 1 |-> Mark(w, x)]
<1>1. l \in Nat \ {0} /\ m \in [1 .. l + 1 -> Nat]
  <2>1. l \in Nat \ {0} /\ \A x \in 1 .. l + 1 : Mark(w, x) \in Nat
    BY MarkNat
  <2>2. m = [x \in 1 .. l + 1 |-> Mark(w, x)]
    OBVIOUS
  <2> HIDE DEF m, l
  <2> QED BY ONLY <2>1, <2>2
<1>2. \A x \in 1 .. l : m[x] <= m[x + 1]
  <2>1. ASSUME NEW x \in 1 .. l PROVE Mark(w, x) <= Mark(w, x + 1)
    <3>1. /\ Mark(w, x) \in Nat
          /\ Mark(w, x + 1) = Mark(w, x) \/ Mark(w, x + 1) = Mark(w, x) + 1
      BY MarkStep
    <3> HIDE DEF m, l
    <3> QED BY ONLY <3>1
  <2>2. \A x \in 1 .. l : x \in 1 .. l + 1 /\ x + 1 \in 1 .. l + 1
    BY <1>1
  <2> QED BY <2>1, <2>2
<1>3. p \in 1 .. l + 1 /\ q \in 1 .. l + 1 /\ m[p] = Mark(w, p) /\ m[q] = Mark(w, q)
  OBVIOUS
<1> HIDE DEF l, m
<1> DEFINE T == {x \in Nat : x \in p .. l + 1 /\ m[x] < m[p]}
<1>4. ASSUME T # {} PROVE FALSE
  <2>1. PICK x \in T : \A y \in T : x <= y
    BY <1>4, Least
  <2>2. x \in p .. l + 1 /\ m[x] < m[p]
    OBVIOUS
  <2>3. x # p
    <3>1. m[p] \in Nat
      BY <1>1, <1>3
    <3>2. ~(m[p] < m[p])
      BY <3>1
    <3> QED BY <2>2, <3>2
  <2>4. x - 1 \in p .. l + 1 /\ x - 1 \in 1 .. l /\ x - 1 \in Nat /\ (x - 1) + 1 = x /\ ~(x <= x - 1)
    BY <1>1, <1>3, <2>2, <2>3
  <2>5. ~(m[x - 1] < m[p])
    BY <2>1, <2>4
  <2>6. m[x - 1] <= m[x]
    BY <1>2, <2>4
  <2>7. m[x] \in Nat /\ m[x - 1] \in Nat /\ m[p] \in Nat
    <3>1. x \in 1 .. l + 1 /\ x - 1 \in 1 .. l + 1
      BY <1>1, <1>3, <2>2, <2>4
    <3> QED BY <1>1, <1>3, <3>1
  <2> HIDE DEF T
  <2> QED BY ONLY <2>2, <2>5, <2>6, <2>7
<1>5. ~(m[q] < m[p])
  <2>1. q \in Nat /\ q \in p .. l + 1
    BY <1>1, <1>3
  <2> QED BY <1>4, <2>1
<1>6. m[p] \in Nat /\ m[q] \in Nat
  BY <1>1, <1>3
<1>7. m[p] <= m[q]
  BY ONLY <1>5, <1>6
<1> QED BY <1>3, <1>7

LEMMA DataNumbered ==
    ASSUME NEW w, Chain(w), w # <<>>
    PROVE  /\ \A p, q \in DataPlaces(w) : p < q => NumberOf(w[p]) < NumberOf(w[q])
           /\ {NumberOf(w[p]) : p \in DataPlaces(w)} = Mark(w, 1) + 1 .. Mark(w, Len(w) + 1)
<1> DEFINE l == Len(w)
           N(p) == NumberOf(w[p])
<1>1. l \in Nat \ {0}
  BY MarkNat
<1>2. ASSUME NEW p \in DataPlaces(w)
      PROVE  p \in 1 .. l /\ N(p) = Mark(w, p + 1) /\ Mark(w, p + 1) = Mark(w, p) + 1
             /\ Mark(w, p) \in Nat
  <2>1. p \in 1 .. l
    BY LenProperties DEF DataPlaces, Chain
  <2> QED BY <2>1, MarkStep
<1>3. ASSUME NEW p \in DataPlaces(w), NEW q \in DataPlaces(w), p < q PROVE N(p) < N(q)
  <2>1. p + 1 \in 1 .. l + 1 /\ q \in 1 .. l + 1 /\ p + 1 <= q
    BY <1>1, <1>2, <1>3
  <2>2. Mark(w, p + 1) <= Mark(w, q)
    BY <2>1, MarksGrow
  <2>3. /\ N(p) = Mark(w, p + 1) /\ N(q) = Mark(w, q) + 1 /\ Mark(w, q) \in Nat
        /\ Mark(w, p + 1) \in Nat
    BY <1>2
  <2> HIDE DEF N, l
  <2> QED BY ONLY <2>2, <2>3
<1>4. ASSUME NEW p \in DataPlaces(w) PROVE N(p) \in Mark(w, 1) + 1 .. Mark(w, l + 1)
  <2>1. /\ p \in 1 .. l + 1 /\ p + 1 \in 1 .. l + 1 /\ 1 \in 1 .. l + 1 /\ l + 1 \in 1 .. l + 1
        /\ 1 <= p /\ p + 1 <= l + 1
    BY <1>1, <1>2
  <2>2. Mark(w, 1) <= Mark(w, p) /\ Mark(w, p + 1) <= Mark(w, l + 1)
    BY <2>1, MarksGrow
  <2>3. /\ N(p) = Mark(w, p + 1) /\ Mark(w, p + 1) = Mark(w, p) + 1 /\ Mark(w, p) \in Nat
        /\ Mark(w, 1) \in Nat /\ Mark(w, l + 1) \in Nat
    BY <1>2, <2>1, MarkNat
  <2> HIDE DEF N, l
  <2> QED BY ONLY <2>2, <2>3
<1>5. ASSUME NEW n \in Mark(w, 1) + 1 .. Mark(w, l + 1) PROVE \E p \in DataPlaces(w) : N(p) = n
  <2>1. Mark(w, 1) \in Nat /\ Mark(w, l + 1) \in Nat /\ l + 1 \in 1 .. l + 1 /\ 1 \in 1 .. l + 1
    BY <1>1, MarkNat
  <2>2. n \in Nat /\ Mark(w, 1) < n /\ n <= Mark(w, l + 1)
    BY <2>1
  <2> DEFINE T == {x \in Nat : x \in 1 .. l + 1 /\ n <= Mark(w, x)}
  <2>3. T # {}
    BY <1>1, <2>1, <2>2
  <2>4. PICK x \in T : \A y \in T : x <= y
    BY <2>3, Least
  <2>5. x \in 1 .. l + 1 /\ n <= Mark(w, x)
    OBVIOUS
  <2>6. x # 1
    <3>1. ~(n <= Mark(w, 1))
      BY ONLY <2>1, <2>2
    <3> QED BY <2>5, <3>1
  <2> DEFINE p == x - 1
  <2>7. p \in 1 .. l /\ p \in 1 .. l + 1 /\ p \in Nat /\ p + 1 = x /\ ~(x <= p)
    BY <1>1, <2>5, <2>6
  <2>8. ~(n <= Mark(w, p))
    BY <2>4, <2>7
  <2> HIDE DEF p, T
  <2>9. /\ Mark(w, p + 1) = (IF p \in DataPlaces(w) THEN Mark(w, p) + 1 ELSE Mark(w, p))
        /\ p \in DataPlaces(w) => N(p) = Mark(w, p + 1)
        /\ Mark(w, p) \in Nat
    BY <2>7, MarkStep
  <2>10. n <= Mark(w, p + 1)
    BY <2>5, <2>7
  <2> HIDE DEF N, l
  <2>11. p \in DataPlaces(w) /\ N(p) = n
    BY ONLY <2>2, <2>8, <2>9, <2>10
  <2> QED BY <2>11
<1> HIDE DEF l
<1>6. {N(p) : p \in DataPlaces(w)} = Mark(w, 1) + 1 .. Mark(w, l + 1)
  BY <1>4, <1>5
<1> QED BY <1>3, <1>6 DEF l

LEMMA ChainFacts ==
    ASSUME NEW w, Chain(w)
    PROVE  /\ w \in Seq(PyByte) /\ Len(w) \in Nat
           /\ w # <<>> => Len(w) \in Nat \ {0}
           /\ \A i \in 1 .. Len(w) : w[i] \in PyByte
           /\ \A i \in 1 .. Len(w) - 1 : Follows(w[i], w[i + 1])
<1>1. w \in Seq(PyByte)
  BY DEF Chain
<1>2. Len(w) \in Nat /\ (w # <<>> => Len(w) \in Nat \ {0})
  BY <1>1, EmptySeq, LenProperties
<1>3. \A i \in 1 .. Len(w) : w[i] \in PyByte
  BY <1>1, ElementOfSeq
<1>4. \A i \in 1 .. Len(w) - 1 : Follows(w[i], w[i + 1])
  BY DEF Chain
<1> QED BY <1>1, <1>2, <1>3, <1>4

\* A part of a chain.
LEMMA ChainPart ==
    ASSUME NEW w, Chain(w), NEW v \in Seq(PyByte), NEW k \in Nat, k + Len(v) <= Len(w),
           \A i \in 1 .. Len(v) : v[i] = w[i + k]
    PROVE  Chain(v)
<1> DEFINE l == Len(v)
           n == Len(w)
<1>1. l \in Nat /\ n \in Nat /\ k \in Nat /\ k + l <= n
  BY ChainFacts, LenProperties
<1>2. ASSUME NEW i \in 1 .. l - 1 PROVE Follows(v[i], v[i + 1])
  <2> HIDE DEF l, n
  <2>1. /\ i \in 1 .. l /\ i + 1 \in 1 .. l /\ i + k \in 1 .. n - 1 /\ (i + 1) + k = (i + k) + 1
    BY ONLY <1>1, i \in 1 .. l - 1
  <2>2. v[i] = w[i + k] /\ v[i + 1] = w[(i + k) + 1]
    BY <2>1 DEF l
  <2>3. Follows(w[i + k], w[(i + k) + 1])
    BY <2>1, ChainFacts DEF n
  <2> QED BY ONLY <2>2, <2>3
<1> QED BY <1>2 DEF Chain

WholeBlocks(w) == w # <<>> => w[Len(w)][2] = HeaderSize + w[Len(w)][1].count
Ending(w, z) == Chain(w) /\ w # <<>> /\ WholeBlocks(w) /\ DataUpTo(w[Len(w)]) = z
\* Whole blocks with the data from a + 1 to z.
Piece(w, a, z) == Ending(w, z) /\ w[1][2] = 1 /\ w[1][1].first = a + 1

LEMMA JoinedPiece ==
    ASSUME NEW v, NEW w, NEW a \in Nat, NEW z, NEW u, u = v \o w,
           Ending(v, a), Piece(w, a, z)
    PROVE  Ending(u, z) /\ u[1] = v[1]
<1> DEFINE l == Len(v)
           n == Len(w)
<1>0. Chain(w) /\ w # <<>> /\ WholeBlocks(w) /\ w[1][2] = 1 /\ w[1][1].first = a + 1 /\ DataUpTo(w[n]) = z
      /\ Chain(v) /\ v # <<>> /\ WholeBlocks(v) /\ DataUpTo(v[l]) = a
  BY DEF Piece, Ending
<1>1. v \in Seq(PyByte) /\ w \in Seq(PyByte) /\ l \in Nat \ {0} /\ n \in Nat \ {0}
  BY <1>0, ChainFacts
<1>2. /\ u \in Seq(PyByte) /\ Len(u) = l + n
      /\ \A i \in 1 .. l + n : u[i] = IF i <= l THEN v[i] ELSE w[i - l]
  BY ONLY u = v \o w, <1>1, ConcatProperties
<1>3. Follows(v[l], w[1])
  <2> DEFINE x == v[l]
  <2>1. x \in PyByte
    <3>1. l \in 1 .. Len(v)
      BY <1>1
    <3> QED BY <1>1, <3>1, ElementOfSeq
  <2>2. x[2] = HeaderSize + x[1].count
    BY <1>0 DEF WholeBlocks
  <2>3. a = (x[1].first + x[1].count) - 1 /\ x[1].first \in Nat /\ x[1].count \in Nat
    BY <1>0, <2>1, <2>2, ByteFacts
  <2> DEFINE f == x[1].first
             c == x[1].count
  <2>4. w[1][1].first = f + c
    <3>1. a = (f + c) - 1 /\ f \in Nat /\ c \in Nat
      BY <2>3
    <3> HIDE DEF f, c
    <3>2. a + 1 = f + c
      BY ONLY <3>1
    <3> QED BY <1>0, <3>2
  <2>5. ~(x[2] < HeaderSize + x[1].count)
    <3>1. HeaderSize + c \in Nat
      BY SMTT(40), <2>3, PySizes
    <3> HIDE DEF x, c
    <3>2. x[2] = HeaderSize + c
      BY <2>2 DEF c
    <3>3. ~(x[2] < HeaderSize + c)
      BY <3>1, <3>2
    <3> QED BY <3>3 DEF c
  <2> QED BY <1>0, <2>4, <2>5 DEF Follows
<1>4. ASSUME NEW i \in 1 .. (l + n) - 1 PROVE Follows(u[i], u[i + 1])
  <2>1. CASE i < l
    <3>1. i \in 1 .. l - 1 /\ i <= l /\ i + 1 <= l /\ i \in 1 .. l + n /\ i + 1 \in 1 .. l + n
      BY <1>1, <2>1
    <3>2. u[i] = v[i] /\ u[i + 1] = v[i + 1]
      BY <1>2, <3>1
    <3>3. Follows(v[i], v[i + 1])
      BY <1>0, <3>1, ChainFacts
    <3> QED BY <3>2, <3>3
  <2>2. CASE i = l
    <3>1. i <= l /\ ~(i + 1 <= l) /\ i \in 1 .. l + n /\ i + 1 \in 1 .. l + n /\ (i + 1) - l = 1
      BY <1>1, <2>2
    <3>2. u[i] = v[l] /\ u[i + 1] = w[1]
      BY <1>2, <2>2, <3>1
    <3> QED BY <1>3, <3>2
  <2>3. CASE i > l
    <3>1. ~(i <= l) /\ ~(i + 1 <= l) /\ i \in 1 .. l + n /\ i + 1 \in 1 .. l + n
          /\ (i + 1) - l = (i - l) + 1 /\ i - l \in 1 .. n - 1
      BY <1>1, <2>3
    <3>2. u[i] = w[i - l] /\ u[i + 1] = w[(i - l) + 1]
      BY <1>2, <3>1
    <3>3. Follows(w[i - l], w[(i - l) + 1])
      BY <1>0, <3>1, ChainFacts
    <3> QED BY <3>2, <3>3
  <2> QED BY <1>1, <2>1, <2>2, <2>3
<1>5. Chain(u)
  BY <1>2, <1>4 DEF Chain
<1>6. u[1] = v[1] /\ u[l + n] = w[n] /\ u # <<>>
  <2>1. 1 \in 1 .. l + n /\ 1 <= l /\ l + n \in 1 .. l + n /\ ~(l + n <= l) /\ (l + n) - l = n
        /\ l + n # 0
    BY <1>1
  <2> HIDE DEF l, n
  <2>2. Len(u) # 0
    BY <1>2, <2>1
  <2>3. u # <<>>
    BY <2>2, EmptySeq
  <2> QED BY <1>2, <2>1, <2>3
<1>7. WholeBlocks(u) /\ DataUpTo(u[Len(u)]) = z
  BY <1>0, <1>2, <1>6 DEF WholeBlocks
<1> QED BY <1>5, <1>6, <1>7 DEF Ending

LEMMA BlockPiece ==
    ASSUME NEW b \in PyBlock
    PROVE  Piece(BytesOf(b), b.first - 1, (b.first + b.count) - 1)
<1> DEFINE w == BytesOf(b)
           h == HeaderSize
           c == b.count
           n == h + c
<1>1. c \in Nat \ {0} /\ h \in Nat \ {0} /\ b.first \in Nat \ {0}
  BY PySizes DEF PyBlock
<1>2. n \in Nat \ {0}
  <2> HIDE DEF h, c
  <2> QED BY <1>1
<1>3. w = [j \in 1 .. n |-> <<b, j>>]
  BY DEF BytesOf
<1>4. \A j \in 1 .. n : <<b, j>> \in PyByte
  <2>1. ASSUME NEW j \in 1 .. n PROVE j \in Nat \ {0} /\ j <= n
    <3> HIDE DEF n
    <3> QED BY <1>2
  <2> QED BY <2>1 DEF PyByte
<1> HIDE DEF w, n
<1>5. w \in Seq(PyByte) /\ Len(w) = n /\ \A j \in 1 .. n : w[j] = <<b, j>>
  <2>1. \A j \in 1 .. n : w[j] = <<b, j>>
    BY ONLY <1>3
  <2>2. w \in [1 .. n -> PyByte]
    BY ONLY <1>3, <1>4
  <2>3. w \in Seq(PyByte) /\ Len(w) = n
    BY ONLY <1>2, <2>2
  <2> QED BY ONLY <2>1, <2>3
<1>6. ASSUME NEW i \in 1 .. n - 1 PROVE Follows(w[i], w[i + 1])
  <2>1. i \in 1 .. n /\ i + 1 \in 1 .. n /\ i < n
    BY <1>2
  <2>2. w[i] = <<b, i>> /\ w[i + 1] = <<b, i + 1>>
    BY <1>5, <2>1
  <2> QED BY <2>1, <2>2 DEF Follows, n
<1>7. Chain(w)
  BY <1>5, <1>6 DEF Chain
<1>8. w[1] = <<b, 1>> /\ w[n] = <<b, n>> /\ w # <<>>
  <2>1. 1 \in 1 .. n /\ n \in 1 .. n /\ n # 0
    BY <1>2
  <2>2. w # <<>>
    BY <1>5, <2>1, EmptySeq
  <2> QED BY <1>5, <2>1, <2>2
<1>9. w[1][2] = 1 /\ w[1][1].first = (b.first - 1) + 1
  BY <1>1, <1>8
<1>10. WholeBlocks(w)
  BY <1>5, <1>8 DEF WholeBlocks, n
<1>11. DataUpTo(w[Len(w)]) = (b.first + b.count) - 1
  <2>1. w[Len(w)] \in PyByte
    BY SMTT(40), <1>2, <1>5, <1>8, ElementOfSeq
  <2>2. w[Len(w)] = <<b, n>> /\ n = HeaderSize + b.count
    BY <1>5, <1>8 DEF n
  <2> QED BY <2>1, <2>2, ByteFacts
<1> QED BY <1>7, <1>8, <1>9, <1>10, <1>11 DEF Piece, Ending, w

-----------------------------------------------------------------------------
(* What encode() makes.                                                    *)

Ready(w, a, z) == IF w = <<>> THEN a = z ELSE Piece(w, a, z)

LEMMA EncodedBlock ==
    ASSUME NEW s, s.key \in Nat, s.pos \in Int, NEW a, NEW z \in Nat, NEW count \in Nat \ {0},
           Ready(s.out, a, z)
    PROVE  LET r == EncodeBlock(s, z + 1, count)
           IN r.key \in Nat /\ r.pos \in Int /\ Piece(r.out, a, z + count)
<1> DEFINE turns == count + s.pos > PacketSize
           b == [key |-> IF turns THEN NextKeyOf(s.key) ELSE s.key,
                 pos |-> IF turns THEN 0 ELSE s.pos,
                 count |-> count, first |-> z + 1]
           r == EncodeBlock(s, z + 1, count)
           w == BytesOf(b)
<1>1. r = [key |-> b.key, pos |-> b.pos + count, out |-> s.out \o w]
  BY DEF EncodeBlock
<1>2. b \in PyBlock /\ b.count = count /\ b.first = z + 1
  <2>1. b.key \in Nat /\ b.pos \in Int
    BY DEF NextKeyOf
  <2> QED BY <2>1 DEF PyBlock
<1>3. b.key \in Nat /\ b.pos \in Int
  BY <1>2 DEF PyBlock
<1> HIDE DEF b
<1>4. Piece(w, z, z + count)
  <2>1. Piece(w, b.first - 1, (b.first + b.count) - 1)
    BY <1>2, BlockPiece
  <2>2. b.first - 1 = z /\ (b.first + b.count) - 1 = z + count
    BY <1>2
  <2> QED BY <2>1, <2>2
<1>5. r.key = b.key /\ r.pos = b.pos + count /\ r.out = s.out \o w
  BY <1>1
<1> HIDE DEF r, w
<1>6. Piece(r.out, a, z + count)
  <2>1. CASE s.out = <<>>
    <3>1. w \in Seq(PyByte) /\ a = z
      BY <1>4, <2>1 DEF Piece, Ending, Chain, Ready
    <3>2. r.out = w
      BY <1>5, <2>1, <3>1, ConcatEmptySeq
    <3> QED BY <1>4, <3>1, <3>2
  <2>2. CASE s.out # <<>>
    <3> DEFINE v == s.out
    <3>1. Piece(v, a, z)
      BY <2>2 DEF Ready
    <3>2. Ending(v, z) /\ v[1][2] = 1 /\ v[1][1].first = a + 1
      BY <3>1 DEF Piece
    <3> HIDE DEF v
    <3> DEFINE u == v \o w
    <3>3. u = v \o w
      OBVIOUS
    <3> HIDE DEF u
    <3>4. Ending(u, z + count) /\ u[1] = v[1]
      <4>1. Ending(v, z) /\ Piece(w, z, z + count)
        BY <1>4, <3>2
      <4> QED BY ONLY <3>3, <4>1, z \in Nat, JoinedPiece, ZenonT(60)
    <3>5. Piece(u, a, z + count)
      BY <3>2, <3>4 DEF Piece
    <3> QED BY <1>5, <3>5 DEF u, v
  <2> QED BY <2>1, <2>2
<1>7. r.key \in Nat /\ r.pos \in Int
  BY <1>3, <1>5
<1> QED BY <1>6, <1>7 DEF r

\* The number of blocks.
LEMMA BlocksNeeded ==
    ASSUME NEW c \in Nat \ {0}, NEW k \in Nat \ {0}, NEW n, n = (c + k - 1) \div k
    PROVE  n \in Nat \ {0} /\ (n - 1) * k < c /\ c <= n * k
<1> DEFINE x == c + k - 1
<1>1. x \in Nat /\ x >= k /\ x = (c + k) - 1
  OBVIOUS
<1> HIDE DEF x
<1>2. n = x \div k
  BY DEF x
<1>3. n \in Int /\ n * k <= x /\ x < (n + 1) * k
  BY ONLY <1>1, <1>2, k \in Nat \ {0}
<1>4. (n + 1) * k = n * k + k /\ (n - 1) * k = n * k - k /\ n * k \in Int
  BY ONLY <1>3, k \in Nat \ {0}
<1>5. n >= 1
  <2>1. CASE n <= 0
    <3>1. (n + 1) * k <= 1 * k
      BY ONLY <1>3, <2>1, k \in Nat \ {0}
    <3> QED BY ONLY <1>1, <1>3, <3>1, k \in Nat \ {0}
  <2> QED BY ONLY <1>3, <2>1
<1> DEFINE y == n * k
<1>6. (n - 1) * k = y - k /\ y <= x /\ x < y + k /\ y \in Int
  BY <1>3, <1>4
<1> HIDE DEF y
<1>7. (n - 1) * k < c /\ c <= y
  BY ONLY <1>1, <1>6, k \in Nat \ {0}, c \in Nat \ {0}
<1> QED BY ONLY <1>3, <1>5, <1>7 DEF y

LEMMA EncodedIs ==
    ASSUME NEW count \in Nat \ {0}, NEW n \in Nat, n = (count + PacketSize - 1) \div PacketSize
    PROVE  \E after :
             /\ after = [i \in 0..n |->
                    IF i = 0 THEN [key |-> cur_key, pos |-> pyCurpos, out |-> <<>>]
                    ELSE EncodeBlock(after[i - 1], sentCount + ((i - 1) * PacketSize) + 1,
                             IF i < n THEN PacketSize ELSE count - ((i - 1) * PacketSize))]
             /\ Encoded(count) = after[n]
<1> DEFINE turns == (count + PacketSize - 1) \div PacketSize
           after[i \in 0..turns] ==
              IF i = 0 THEN [key |-> cur_key, pos |-> pyCurpos, out |-> <<>>]
              ELSE EncodeBlock(after[i - 1], sentCount + ((i - 1) * PacketSize) + 1,
                             IF i < turns THEN PacketSize ELSE count - ((i - 1) * PacketSize))
           A == [key |-> cur_key, pos |-> pyCurpos, out |-> <<>>]
           E(s, i) == EncodeBlock(s, sentCount + ((i - 1) * PacketSize) + 1,
                             IF i < turns THEN PacketSize ELSE count - ((i - 1) * PacketSize))
           Made(g, k) == g = [i \in 0 .. k |-> IF i = 0 THEN A ELSE E(g[i - 1], i)]
<1>1. Encoded(count) = after[turns]
  BY DEF Encoded
<1>2. \E g : Made(g, turns)
  <2> DEFINE T == {k \in Nat : ~ \E g : Made(g, k)}
  <2>1. T = {}
    <3> SUFFICES ASSUME T # {} PROVE FALSE
      OBVIOUS
    <3>1. PICK x \in T : \A y \in T : x <= y
      BY Least
    <3>2. x # 0
      <4> DEFINE g == [i \in 0 .. 0 |-> A]
      <4> HIDE DEF A, E
      <4>1. ASSUME NEW i \in 0 .. 0 PROVE A = IF i = 0 THEN A ELSE E(g[i - 1], i)
        BY <4>1
      <4>2. Made(g, 0)
        BY ONLY <4>1
      <4> QED BY <4>2
    <3>3. x \in Nat /\ x - 1 \in Nat /\ ~(x <= x - 1)
      BY <3>2
    <3>4. PICK g : Made(g, x - 1)
      BY <3>1, <3>3
    <3> HIDE DEF A, E, T
    <3> DEFINE h == [i \in 0 .. x |-> IF i < x THEN g[i] ELSE E(g[x - 1], x)]
    <3>5. ASSUME NEW i \in 0 .. x PROVE h[i] = IF i = 0 THEN A ELSE E(h[i - 1], i)
      <4>1. CASE i < x
        <5>1. i \in 0 .. x - 1 /\ (i # 0 => i - 1 \in 0 .. x - 1 /\ i - 1 \in 0 .. x /\ i - 1 < x)
          BY <3>3, <4>1
        <5>2. h[i] = g[i] /\ (i # 0 => h[i - 1] = g[i - 1])
          BY <4>1, <5>1
        <5>3. g[i] = IF i = 0 THEN A ELSE E(g[i - 1], i)
          BY <3>4, <5>1
        <5> QED BY ONLY <5>2, <5>3
      <4>2. CASE i = x
        <5>1. x \in 0 .. x /\ x - 1 \in 0 .. x /\ x - 1 < x /\ ~(x < x)
          BY <3>3
        <5>2. h[x] = E(g[x - 1], x) /\ h[x - 1] = g[x - 1]
          BY <5>1
        <5> QED BY ONLY <3>2, <4>2, <5>2
      <4> QED BY <3>3, <4>1, <4>2
    <3>6. h = [i \in 0 .. x |-> h[i]]
      OBVIOUS
    <3> HIDE DEF h
    <3>7. Made(h, x)
      BY ONLY <3>5, <3>6
    <3> QED BY <3>7 DEF T
  <2>2. turns \in Nat
    OBVIOUS
  <2> QED BY <2>1, <2>2
<1>3. after = CHOOSE g : Made(g, turns)
  OBVIOUS
<1> HIDE DEF after, A, E, turns
<1>4. \E g : g = after /\ Made(g, turns)
  <2> HIDE DEF Made
  <2>1. Made(after, turns)
    BY <1>2, <1>3, Zenon
  <2> QED BY <2>1
<1> QED BY <1>1, <1>4 DEF turns, A, E

LEMMA EncodedPiece ==
    ASSUME NEW count \in Nat \ {0}, cur_key \in Nat, pyCurpos \in Int, sentCount \in Nat
    PROVE  LET r == Encoded(count)
           IN r.key \in Nat /\ r.pos \in Int /\ Piece(r.out, sentCount, sentCount + count)
<1> DEFINE k == PacketSize
           n == (count + PacketSize - 1) \div PacketSize
           S(i) == IF i < n THEN k ELSE count - ((i - 1) * k)
<1>1. n \in Nat \ {0} /\ (n - 1) * k < count /\ count <= n * k /\ k \in Nat \ {0}
  BY BlocksNeeded, PySizes
<1>2. PICK after :
         /\ after = [i \in 0..n |->
                IF i = 0 THEN [key |-> cur_key, pos |-> pyCurpos, out |-> <<>>]
                ELSE EncodeBlock(after[i - 1], sentCount + ((i - 1) * PacketSize) + 1,
                         IF i < n THEN PacketSize ELSE count - ((i - 1) * PacketSize))]
         /\ Encoded(count) = after[n]
  <2>1. n \in Nat
    BY <1>1
  <2> QED BY <2>1, EncodedIs
<1>3. ASSUME NEW i \in 1 .. n
      PROVE  after[i] = EncodeBlock(after[i - 1], sentCount + ((i - 1) * k) + 1, S(i))
  <2>1. i \in 0 .. n /\ i # 0
    OBVIOUS
  <2> HIDE DEF n
  <2> QED BY <1>2, <2>1
<1>4. after[0] = [key |-> cur_key, pos |-> pyCurpos, out |-> <<>>]
  <2>1. 0 \in 0 .. n
    BY <1>1
  <2> HIDE DEF n
  <2> QED BY <1>2, <2>1
<1> HIDE DEF n, k
<1> DEFINE Z(i) == sentCount + (IF i < n THEN i * k ELSE count)
           Typed(i) == after[i].key \in Nat /\ after[i].pos \in Int
           Good(i) == Typed(i) /\ Ready(after[i].out, sentCount, Z(i))
           Done(i) == Typed(i) /\ Piece(after[i].out, sentCount, Z(i))
<1>5. Good(0)
  <2>1. 0 < n /\ 0 * k = 0
    BY <1>1
  <2>2. Z(0) = sentCount
    BY <2>1
  <2> HIDE DEF Z
  <2> QED BY <1>4, <2>2 DEF Ready
<1>6. ASSUME NEW i \in 1 .. n, Good(i - 1) PROVE Done(i)
  <2> DEFINE y == (i - 1) * k
             z == sentCount + y
  <2>1. i - 1 \in Nat /\ i - 1 < n /\ i \in Nat
    BY <1>1
  <2>2. y \in Nat /\ i * k = y + k
    BY ONLY <1>1, <2>1
  <2>3. i = n => y < count
    BY <1>1
  <2>4. Z(i - 1) = z
    BY <2>1
  <2>5. S(i) = IF i < n THEN k ELSE count - y
    OBVIOUS
  <2>6. Z(i) = sentCount + (IF i < n THEN i * k ELSE count)
    OBVIOUS
  <2> HIDE DEF Z, S, y
  <2>7. i < n \/ i = n
    BY <1>1
  <2>8. S(i) \in Nat \ {0} /\ z \in Nat /\ Z(i) = z + S(i)
    BY <1>1, <2>2, <2>3, <2>5, <2>6, <2>7
  <2>9. after[i] = EncodeBlock(after[i - 1], z + 1, S(i))
    BY <1>3 DEF y
  <2> DEFINE s == after[i - 1]
  <2>10. s.key \in Nat /\ s.pos \in Int /\ Ready(s.out, sentCount, z)
    BY <1>6, <2>4
  <2> HIDE DEF z, s
  <2>11. /\ after[i].key \in Nat /\ after[i].pos \in Int
         /\ Piece(after[i].out, sentCount, z + S(i))
    BY <2>8, <2>9, <2>10, EncodedBlock DEF s
  <2> QED BY <2>8, <2>11
<1>7. ASSUME NEW i \in 1 .. n, Good(i - 1) PROVE Good(i)
  <2>1. Done(i)
    BY <1>6, <1>7
  <2> HIDE DEF Z
  <2>2. after[i].out # <<>>
    BY <2>1 DEF Piece, Ending
  <2> QED BY <2>1, <2>2 DEF Ready
<1> HIDE DEF Good, Done
<1>8. \A i \in 0 .. n : Good(i)
  <2> DEFINE T == {i \in Nat : i \in 0 .. n /\ ~Good(i)}
  <2>1. ASSUME T # {} PROVE FALSE
    <3>1. PICK x \in T : \A y \in T : x <= y
      BY <2>1, Least
    <3>2. x # 0 /\ x \in 0 .. n /\ ~Good(x)
      BY <1>5
    <3>3. x \in 1 .. n /\ x - 1 \in Nat /\ x - 1 \in 0 .. n /\ ~(x <= x - 1)
      <4>1. n \in Nat /\ x \in 0 .. n /\ x # 0
        BY <1>1, <3>2
      <4> QED BY ONLY <4>1
    <3>4. Good(x - 1)
      BY <3>1, <3>3
    <3> QED BY <1>7, <3>2, <3>3, <3>4
  <2> QED BY <1>1, <2>1
<1>9. Done(n)
  <2>1. n \in 1 .. n /\ n - 1 \in 0 .. n
    BY <1>1
  <2> QED BY <1>6, <1>8, <2>1
<1>10. Z(n) = sentCount + count
  BY <1>1
<1> HIDE DEF Z
<1> QED BY <1>2, <1>9, <1>10 DEF Done

-----------------------------------------------------------------------------
(* What decode() makes.                                                    *)

\* One step of decode at place p of data, r being what it makes of the rest.
LeftAt(data, p) == Len(data) - p + 1
SizeAt(data, p) == HeaderSize + data[p][1].count
Kept(data, p) == [out |-> <<>>, rest |-> SubSeq(data, p, Len(data)), missing |-> FALSE]
NamesKey(data, p) ==
    /\ \A j \in 1..HeaderSize : data[p + j - 1] = <<data[p][1], j>>
    /\ data[p][1].key < keyCount["decoder"]
DataAt(data, p) ==
    [i \in 1..data[p][1].count |->
        IF data[p + HeaderSize + i - 1] = <<data[p][1], HeaderSize + i>>
        THEN data[p][1].first + i - 1 ELSE 0]
DecodeAt(data, p, r) ==
    IF LeftAt(data, p) <= HeaderSize THEN Kept(data, p)
    ELSE IF ~NamesKey(data, p) THEN [out |-> <<>>, rest |-> <<>>, missing |-> TRUE]
    ELSE IF data[p][1].count > LeftAt(data, p) - HeaderSize THEN Kept(data, p)
    ELSE [r EXCEPT !.out = DataAt(data, p) \o @]

\* Where there is a whole block.
Whither(data, p) ==
    /\ ~(LeftAt(data, p) <= HeaderSize)
    /\ ~(data[p][1].count > LeftAt(data, p) - HeaderSize)

LEMMA DecodeSame ==
    ASSUME NEW data, NEW p, NEW r, NEW s, Whither(data, p) => r = s
    PROVE  DecodeAt(data, p, r) = DecodeAt(data, p, s)
BY DEF DecodeAt, Whither

LEMMA BlockInside ==
    ASSUME NEW data \in Seq(PyByte), NEW p \in 1 .. Len(data) + 1, Whither(data, p)
    PROVE  /\ p \in 1 .. Len(data) /\ data[p] \in PyByte
           /\ p + SizeAt(data, p) \in (p + 1) .. Len(data) + 1
<1> DEFINE l == Len(data)
           c == data[p][1].count
           h == HeaderSize
<1>1. l \in Nat /\ h \in Nat \ {0} /\ p \in 1 .. l + 1 /\ ~((l - p) + 1 <= h) /\ ~(c > ((l - p) + 1) - h)
  BY PySizes, LenProperties DEF Whither, LeftAt
<1>2. p \in 1 .. l
  <2> HIDE DEF l, h, c
  <2> QED BY ONLY <1>1
<1>3. data[p] \in PyByte
  BY <1>2, ElementOfSeq
<1>4. c \in Nat \ {0}
  BY <1>3, ByteFacts
<1>5. p + (h + c) \in (p + 1) .. l + 1
  <2> HIDE DEF l, h, c
  <2> QED BY ONLY <1>1, <1>2, <1>4
<1> QED BY <1>2, <1>3, <1>5 DEF SizeAt

LEMMA DecodeIs ==
    ASSUME NEW data \in Seq(PyByte)
    PROVE  \E from :
             /\ \A p \in 1 .. Len(data) + 1 :
                   from[p] = DecodeAt(data, p, from[p + SizeAt(data, p)])
             /\ Decode(data) = from[1]
<1> DEFINE left(p) == Len(data) - p + 1
           named(p) == \A j \in 1..HeaderSize : data[p + j - 1] = <<data[p][1], j>>
           from[p \in 1..(Len(data) + 1)] ==
            IF left(p) <= HeaderSize
            THEN [out |-> <<>>, rest |-> SubSeq(data, p, Len(data)), missing |-> FALSE]
            ELSE LET b == data[p][1]
                     size == HeaderSize + b.count
                     r == from[p + size]
                     bytes == [i \in 1..b.count |->
                                 LET x == data[p + HeaderSize + i - 1]
                                 IN IF x = <<b, HeaderSize + i>> THEN b.first + i - 1 ELSE 0]
                 IN IF ~(named(p) /\ b.key < keyCount["decoder"])
                    THEN [out |-> <<>>, rest |-> <<>>, missing |-> TRUE]
                    ELSE IF b.count > left(p) - HeaderSize
                    THEN [out |-> <<>>, rest |-> SubSeq(data, p, Len(data)), missing |-> FALSE]
                    ELSE [r EXCEPT !.out = bytes \o @]
           l == Len(data)
           D(p, r) == DecodeAt(data, p, r)
           Z(p) == SizeAt(data, p)
           Made(g, k) == g = [p \in k .. (l + 1) |-> D(p, g[p + Z(p)])]
<1>1. Decode(data) = from[1]
  BY DEF Decode
<1>2. from = CHOOSE g : Made(g, 1)
  BY DEF DecodeAt, LeftAt, SizeAt, Kept, NamesKey, DataAt
<1>3. l \in Nat
  BY LenProperties
<1> HIDE DEF from, D, Z
<1>4. \E g : Made(g, 1)
  <2> DEFINE T == {d \in Nat : d \in 0 .. l /\ ~ \E g : Made(g, (l + 1) - d)}
  <2>1. ASSUME T # {} PROVE FALSE
    <3>1. PICK x \in T : \A y \in T : x <= y
      BY <2>1, Least
    <3>2. x \in 0 .. l /\ x \in Nat /\ ~ \E g : Made(g, (l + 1) - x)
      OBVIOUS
    <3> HIDE DEF l
    <3> DEFINE k == (l + 1) - x
    <3>3. \E g : \A p \in k + 1 .. l + 1 : g[p] = D(p, g[p + Z(p)])
      <4>1. CASE x = 0
        <5>1. k + 1 .. l + 1 = {}
          BY <1>3, <4>1
        <5> QED BY <5>1
      <4>2. CASE x # 0
        <5>1. x - 1 \in Nat /\ x - 1 \in 0 .. l /\ ~(x <= x - 1) /\ (l + 1) - (x - 1) = k + 1
          BY <1>3, <3>2, <4>2
        <5> HIDE DEF k
        <5>2. PICK g : Made(g, k + 1)
          BY <3>1, <5>1
        <5>3. \A p \in k + 1 .. l + 1 : g[p] = D(p, g[p + Z(p)])
          BY <5>2
        <5> QED BY <5>3
      <4> QED BY <4>1, <4>2
    <3>4. PICK g : \A p \in k + 1 .. l + 1 : g[p] = D(p, g[p + Z(p)])
      BY <3>3
    <3>5. k \in 1 .. l + 1 /\ k \in Nat
      BY <1>3, <3>2
    <3> HIDE DEF k, T
    <3> DEFINE h == [p \in k .. l + 1 |-> IF p = k THEN D(k, g[k + Z(k)]) ELSE g[p]]
    <3>6. ASSUME NEW p \in k .. l + 1 PROVE h[p] = D(p, h[p + Z(p)])
      <4>1. h[p] = D(p, g[p + Z(p)])
        <5>1. CASE p = k
          BY <5>1
        <5>2. CASE p # k
          <6>1. p \in k + 1 .. l + 1
            BY <3>5, <5>2
          <6> QED BY <3>4, <5>2, <6>1
        <5> QED BY <5>1, <5>2
      <4>2. D(p, g[p + Z(p)]) = D(p, h[p + Z(p)])
        <5>1. ASSUME Whither(data, p) PROVE g[p + Z(p)] = h[p + Z(p)]
          <6>1. p \in 1 .. Len(data) + 1
            BY <1>3, <3>5 DEF l
          <6>2. p + Z(p) \in p + 1 .. l + 1
            BY <5>1, <6>1, BlockInside DEF l, Z
          <6>3. p + Z(p) \in k .. l + 1 /\ p + Z(p) # k
            BY <1>3, <3>5, <6>2
          <6> QED BY <6>3
        <5> HIDE DEF h
        <5> QED BY <5>1, DecodeSame DEF D
      <4> QED BY ONLY <4>1, <4>2
    <3>7. h = [p \in k .. (l + 1) |-> h[p]]
      OBVIOUS
    <3> HIDE DEF h
    <3>8. Made(h, k)
      BY ONLY <3>6, <3>7
    <3> QED BY <3>2, <3>8 DEF k
  <2>2. l \in 0 .. l /\ l \in Nat /\ (l + 1) - l = 1
    BY <1>3
  <2> HIDE DEF l
  <2>3. ~(l \in T)
    BY <2>1
  <2> QED BY <2>2, <2>3
<1>5. Made(from, 1)
  <2> HIDE DEF Made
  <2> QED BY <1>2, <1>4, Zenon
<1>6. \A p \in 1 .. l + 1 : from[p] = D(p, from[p + Z(p)])
  BY <1>5
<1> QED BY <1>1, <1>6 DEF l, D, Z

Run(a, n) == [i \in 1 .. n |-> a + i]

LEMMA RunFacts ==
    ASSUME NEW a \in Nat, NEW n \in Nat
    PROVE  /\ Run(a, n) \in Seq(Nat) /\ Len(Run(a, n)) = n
           /\ \A i \in 1 .. n : Run(a, n)[i] = a + i
<1> DEFINE w == Run(a, n)
<1>1. w = [i \in 1 .. n |-> a + i]
  BY DEF Run
<1>2. \A i \in 1 .. n : a + i \in Nat
  OBVIOUS
<1> HIDE DEF w
<1>3. w \in [1 .. n -> Nat] /\ \A i \in 1 .. n : w[i] = a + i
  BY ONLY <1>1, <1>2
<1>4. w \in Seq(Nat) /\ Len(w) = n
  BY ONLY <1>3, n \in Nat
<1> QED BY <1>3, <1>4 DEF w

LEMMA RunsJoined ==
    ASSUME NEW a \in Nat, NEW m \in Nat, NEW n \in Nat
    PROVE  Run(a, m) \o Run(a + m, n) = Run(a, m + n)
<1> DEFINE u == Run(a, m)
           v == Run(a + m, n)
           w == Run(a, m + n)
<1>1. /\ u \in Seq(Nat) /\ Len(u) = m /\ (\A i \in 1 .. m : u[i] = a + i)
      /\ v \in Seq(Nat) /\ Len(v) = n /\ (\A i \in 1 .. n : v[i] = (a + m) + i)
      /\ w \in Seq(Nat) /\ Len(w) = m + n /\ (\A i \in 1 .. m + n : w[i] = a + i)
  <2>1. a + m \in Nat /\ m + n \in Nat
    OBVIOUS
  <2>2. u \in Seq(Nat) /\ Len(u) = m /\ (\A i \in 1 .. m : u[i] = a + i)
    BY RunFacts
  <2>3. v \in Seq(Nat) /\ Len(v) = n /\ (\A i \in 1 .. n : v[i] = (a + m) + i)
    BY <2>1, RunFacts
  <2>4. w \in Seq(Nat) /\ Len(w) = m + n /\ (\A i \in 1 .. m + n : w[i] = a + i)
    BY <2>1, RunFacts
  <2> QED BY ONLY <2>2, <2>3, <2>4
<1> HIDE DEF u, v, w
<1> DEFINE x == u \o v
<1>2. /\ x \in Seq(Nat) /\ Len(x) = m + n
      /\ \A i \in 1 .. m + n : x[i] = IF i <= m THEN u[i] ELSE v[i - m]
  BY ZenonT(60), <1>1, ConcatProperties
<1> HIDE DEF x
<1>3. ASSUME NEW i \in 1 .. m + n PROVE x[i] = w[i]
  <2>1. CASE i <= m
    <3>1. i \in 1 .. m
      BY <2>1
    <3> QED BY <1>1, <1>2, <2>1, <3>1
  <2>2. CASE ~(i <= m)
    <3>1. i - m \in 1 .. n /\ (a + m) + (i - m) = a + i
      BY <2>2
    <3> QED BY <1>1, <1>2, <2>2, <3>1
  <2> QED BY <2>1, <2>2
<1>4. x = w
  <2>1. x \in [1 .. m + n -> Nat] /\ w \in [1 .. m + n -> Nat]
    BY <1>1, <1>2, LenProperties
  <2> QED BY <1>3, <2>1
<1> QED BY <1>4 DEF x, u, v, w

\* The bytes of a block follow its first one.
LEMMA BlockBytes ==
    ASSUME NEW data, Chain(data), NEW p \in 1 .. Len(data), data[p][2] = 1,
           p + SizeAt(data, p) <= Len(data) + 1
    PROVE  \A j \in 1 .. SizeAt(data, p) : data[(p + j) - 1] = <<data[p][1], j>>
<1> DEFINE b == data[p][1]
           n == SizeAt(data, p)
           l == Len(data)
<1>1. data[p] \in PyByte /\ l \in Nat
  BY ChainFacts
<1>2. data[p] = <<b, 1>> /\ b.count \in Nat \ {0} /\ n = HeaderSize + b.count
  BY <1>1, ByteFacts DEF SizeAt
<1>3. n \in Nat /\ l \in Nat /\ p \in 1 .. l /\ p + n <= l + 1
  <2> DEFINE c == b.count
             h == HeaderSize
  <2>1. c \in Nat /\ h \in Nat /\ n = h + c
    BY <1>2, PySizes
  <2> HIDE DEF c, h, n
  <2>2. n \in Nat
    BY <2>1
  <2> QED BY <1>1, <2>2 DEF n
<1> HIDE DEF b, n, l
<1> DEFINE T == {j \in Nat : j \in 1 .. n /\ data[(p + j) - 1] # <<b, j>>}
<1>4. ASSUME T # {} PROVE FALSE
  <2>1. PICK x \in T : \A y \in T : x <= y
    BY <1>4, Least
  <2>2. x \in 1 .. n /\ data[(p + x) - 1] # <<b, x>>
    OBVIOUS
  <2>3. x # 1
    <3>1. (p + 1) - 1 = p
      BY <1>3
    <3> QED BY <1>2, <2>2, <3>1
  <2> DEFINE y == x - 1
             q == (p + y) - 1
  <2>4. /\ y \in Nat /\ y \in 1 .. n /\ ~(x <= y) /\ q \in 1 .. l - 1 /\ (p + x) - 1 = q + 1
        /\ x = y + 1 /\ y < n
    <3>1. x \in 1 .. n
      BY <2>2
    <3> QED BY ONLY <1>3, <2>3, <3>1
  <2>5. data[q] = <<b, y>>
    BY <2>1, <2>4
  <2> HIDE DEF y, q, T
  <2>6. Follows(data[q], data[q + 1])
    BY <2>4, ChainFacts DEF l
  <2>7. data[q + 1] = <<b, y + 1>>
    BY <1>2, <2>4, <2>5, <2>6 DEF Follows
  <2> QED BY <2>2, <2>4, <2>7
<1>5. \A j \in 1 .. n : data[(p + j) - 1] = <<b, j>>
  <2>1. \A j \in 1 .. n : j \in Nat
    BY <1>3
  <2> QED BY <1>4, <2>1
<1> QED BY <1>5 DEF b, n

\* A whole block is decoded to its data.
LEMMA BlockDecoded ==
    ASSUME NEW data, Chain(data), NEW p \in 1 .. Len(data) + 1, Whither(data, p), NamesKey(data, p)
    PROVE  LET q == p + SizeAt(data, p)
           IN /\ q \in (p + 1) .. Len(data) + 1 /\ p \in 1 .. Len(data)
              /\ Mark(data, p) \in Nat /\ Mark(data, q) \in Nat /\ Mark(data, p) <= Mark(data, q)
              /\ DataAt(data, p) = Run(Mark(data, p), Mark(data, q) - Mark(data, p))
<1> DEFINE b == data[p][1]
           c == b.count
           f == b.first
           h == HeaderSize
           n == SizeAt(data, p)
           q == p + n
           l == Len(data)
<1>1. data \in Seq(PyByte) /\ l \in Nat
  BY ChainFacts
<1>2. p \in 1 .. l /\ data[p] \in PyByte /\ q \in (p + 1) .. l + 1
  BY <1>1, BlockInside
<1>3. h \in Nat \ {0} /\ c \in Nat \ {0} /\ f \in Nat \ {0} /\ n = h + c
  BY <1>2, ByteFacts, PySizes DEF SizeAt
<1>4. data[p] = <<b, 1>>
  <2>1. 1 \in 1 .. HeaderSize /\ p + 1 - 1 = p
    BY <1>2, PySizes
  <2> QED BY <2>1 DEF NamesKey
<1>5. \A j \in 1 .. n : data[(p + j) - 1] = <<b, j>>
  <2>1. data[p][2] = 1 /\ p + n <= l + 1
    BY <1>1, <1>2, <1>4
  <2> QED BY <1>2, <2>1, BlockBytes
<1>6. Mark(data, p) = f - 1
  <2>1. Mark(data, p) = DataBefore(data[p])
    BY <1>2, MarkStep
  <2>2. DataBefore(data[p]) = f - 1
    BY <1>3, <1>4 DEF DataBefore
  <2> QED BY <2>1, <2>2
<1>7. Mark(data, q) = (f + c) - 1
  <2> DEFINE k == q - 1
  <2>1. k \in 1 .. l /\ k + 1 = q /\ k = (p + n) - 1 /\ n \in 1 .. n
    <3> HIDE DEF l, c, h, n
    <3> QED BY <1>1, <1>2, <1>3
  <2>2. data[k] = <<b, n>>
    BY <1>5, <2>1
  <2>3. Mark(data, k + 1) = DataUpTo(data[k]) /\ data[k] \in PyByte
    BY <2>1, MarkStep
  <2> HIDE DEF k
  <2>4. data[k][1] = b /\ data[k][2] = HeaderSize + b.count
    BY <1>3, <2>2
  <2>5. DataUpTo(data[k]) = (b.first + b.count) - 1
    BY <2>3, <2>4, ByteFacts
  <2> QED BY <2>1, <2>3, <2>5
<1>8. DataAt(data, p) = Run(f - 1, c)
  <2>1. ASSUME NEW i \in 1 .. c
        PROVE  (IF data[p + HeaderSize + i - 1] = <<data[p][1], HeaderSize + i>>
                THEN data[p][1].first + i - 1 ELSE 0) = (f - 1) + i
    <3>1. h + i \in 1 .. n /\ p + h + i - 1 = (p + (h + i)) - 1 /\ f + i - 1 = (f - 1) + i
      <4> HIDE DEF h, c, f, n
      <4> QED BY ONLY <1>2, <1>3, i \in 1 .. c, p \in Nat, l \in Nat
    <3>2. data[p + h + i - 1] = <<b, h + i>>
      BY <1>5, <3>1
    <3> QED BY <3>1, <3>2
  <2> QED BY <2>1 DEF DataAt, Run
<1> HIDE DEF n, l, c, f, h
<1>9. /\ Mark(data, p) \in Nat /\ Mark(data, q) \in Nat /\ Mark(data, p) <= Mark(data, q)
      /\ Mark(data, q) - Mark(data, p) = c
  BY <1>3, <1>6, <1>7
<1> QED BY <1>2, <1>6, <1>8, <1>9 DEF n, l

\* What is made of data from place p on, when it is decoded up to place q.
DecodedTo(data, p, q, r) ==
    /\ r = [out |-> r.out, rest |-> r.rest, missing |-> r.missing] /\ r.missing \in BOOLEAN
    /\ Mark(data, p) <= Mark(data, q)
    /\ r.out = Run(Mark(data, p), Mark(data, q) - Mark(data, p))
    /\ r.rest = IF r.missing THEN <<>> ELSE SubSeq(data, q, Len(data))
    /\ ~r.missing /\ LeftAt(data, q) > HeaderSize =>
         data[q][2] = 1 /\ LeftAt(data, q) < HeaderSize + data[q][1].count

LEMMA RunOfNone == \A a \in Nat : Run(a, a - a) = <<>> /\ a <= a
<1> SUFFICES ASSUME NEW a \in Nat PROVE Run(a, 0) = <<>>
  <2>1. \A a \in Nat : a - a = 0 /\ a <= a
    OBVIOUS
  <2> QED BY <2>1
<1> DEFINE w == Run(a, 0)
<1>1. w \in Seq(Nat) /\ Len(w) = 0
  BY RunFacts
<1> HIDE DEF w
<1>2. w = <<>>
  BY <1>1, EmptySeq
<1> QED BY <1>2 DEF w

LEMMA NothingDecoded ==
    ASSUME NEW data, NEW p, Mark(data, p) \in Nat,
           NEW r, r = Kept(data, p),
           LeftAt(data, p) > HeaderSize =>
             data[p][2] = 1 /\ LeftAt(data, p) < HeaderSize + data[p][1].count
    PROVE  DecodedTo(data, p, p, r)
<1>1. r.out = <<>> /\ r.rest = SubSeq(data, p, Len(data)) /\ r.missing = FALSE
      /\ r = [out |-> r.out, rest |-> r.rest, missing |-> r.missing]
  BY DEF Kept
<1>2. Run(Mark(data, p), Mark(data, p) - Mark(data, p)) = <<>> /\ Mark(data, p) <= Mark(data, p)
  BY RunOfNone
<1> QED BY <1>1, <1>2 DEF DecodedTo

LEMMA NotDecoded ==
    ASSUME NEW data, NEW p, Mark(data, p) \in Nat,
           NEW r, r = [out |-> <<>>, rest |-> <<>>, missing |-> TRUE]
    PROVE  DecodedTo(data, p, p, r)
<1>1. r.out = <<>> /\ r.rest = <<>> /\ r.missing = TRUE
      /\ r = [out |-> r.out, rest |-> r.rest, missing |-> r.missing]
  OBVIOUS
<1>2. Run(Mark(data, p), Mark(data, p) - Mark(data, p)) = <<>> /\ Mark(data, p) <= Mark(data, p)
  BY RunOfNone
<1> QED BY <1>1, <1>2 DEF DecodedTo

LEMMA FurtherDecoded ==
    ASSUME NEW data, NEW p, NEW k, NEW q, NEW r, DecodedTo(data, k, q, r),
           Mark(data, p) \in Nat, Mark(data, k) \in Nat, Mark(data, q) \in Nat,
           Mark(data, p) <= Mark(data, k), NEW out, out = Run(Mark(data, p), Mark(data, k) - Mark(data, p)),
           NEW s, s = [r EXCEPT !.out = out \o @]
    PROVE  DecodedTo(data, p, q, s)
<1> DEFINE a == Mark(data, p)
           b == Mark(data, k)
           c == Mark(data, q)
<1>1. /\ r = [out |-> r.out, rest |-> r.rest, missing |-> r.missing] /\ r.missing \in BOOLEAN
      /\ b <= c /\ r.out = Run(b, c - b)
      /\ r.rest = IF r.missing THEN <<>> ELSE SubSeq(data, q, Len(data))
      /\ ~r.missing /\ LeftAt(data, q) > HeaderSize =>
           data[q][2] = 1 /\ LeftAt(data, q) < HeaderSize + data[q][1].count
  BY DEF DecodedTo
<1>2. /\ s.out = out \o r.out /\ s.rest = r.rest /\ s.missing = r.missing
      /\ s = [out |-> s.out, rest |-> s.rest, missing |-> s.missing]
  BY <1>1
<1>3. a \in Nat /\ b \in Nat /\ c \in Nat /\ a <= b /\ b <= c
  BY <1>1
<1> HIDE DEF a, b, c
<1>4. b - a \in Nat /\ c - b \in Nat /\ b = a + (b - a) /\ c - a = (b - a) + (c - b) /\ a <= c
  BY ONLY <1>3
<1>5. out \o r.out = Run(a, c - a)
  <2> DEFINE m == b - a
             n == c - b
  <2>1. m \in Nat /\ n \in Nat /\ b = a + m /\ c - a = m + n
    BY <1>4
  <2>2. out = Run(a, m) /\ r.out = Run(b, n)
    BY <1>1 DEF a, b
  <2> HIDE DEF m, n
  <2>3. Run(a, m) \o Run(a + m, n) = Run(a, m + n)
    <3>1. \A i, j, h \in Nat : Run(i, j) \o Run(i + j, h) = Run(i, j + h)
      BY RunsJoined
    <3> QED BY ONLY ZenonT(60), <1>3, <2>1, <3>1
  <2> QED BY ONLY <2>1, <2>2, <2>3
<1> QED BY <1>1, <1>2, <1>4, <1>5 DEF DecodedTo, a, b, c

LEMMA DecodePart ==
    ASSUME NEW data, Chain(data), data # <<>>
    PROVE  \E q \in 1 .. Len(data) + 1 : DecodedTo(data, 1, q, Decode(data))
<1> DEFINE l == Len(data)
<1>1. data \in Seq(PyByte) /\ l \in Nat /\ \A p \in 1 .. l + 1 : Mark(data, p) \in Nat
  BY ChainFacts, MarkNat
<1>2. PICK from : /\ \A p \in 1 .. l + 1 : from[p] = DecodeAt(data, p, from[p + SizeAt(data, p)])
                  /\ Decode(data) = from[1]
  BY <1>1, DecodeIs
<1> HIDE DEF l
<1> DEFINE Some(p) == \E q \in p .. l + 1 : DecodedTo(data, p, q, from[p])
<1>3. ASSUME NEW p \in 1 .. l + 1, \A k \in (p + 1) .. l + 1 : Some(k) PROVE Some(p)
  <2> DEFINE k == p + SizeAt(data, p)
  <2>1. from[p] = DecodeAt(data, p, from[k]) /\ p \in p .. l + 1 /\ Mark(data, p) \in Nat
    BY <1>1, <1>2
  <2> HIDE DEF k
  <2>2. CASE LeftAt(data, p) <= HeaderSize
    <3>1. from[p] = Kept(data, p)
      BY <2>1, <2>2 DEF DecodeAt
    <3>2. ~(LeftAt(data, p) > HeaderSize)
      <4> DEFINE x == LeftAt(data, p)
                 y == HeaderSize
      <4>1. x \in Int /\ y \in Int /\ x <= y
        BY <1>1, <2>2, PySizes DEF LeftAt, l
      <4> HIDE DEF x, y
      <4>2. ~(x > y)
        BY ONLY <4>1
      <4> QED BY <4>2 DEF x, y
    <3> QED BY <2>1, <3>1, <3>2, NothingDecoded
  <2>3. CASE ~(LeftAt(data, p) <= HeaderSize) /\ ~NamesKey(data, p)
    <3>1. from[p] = [out |-> <<>>, rest |-> <<>>, missing |-> TRUE]
      BY <2>1, <2>3 DEF DecodeAt
    <3> QED BY <2>1, <3>1, NotDecoded
  <2>4. CASE /\ ~(LeftAt(data, p) <= HeaderSize) /\ NamesKey(data, p)
             /\ data[p][1].count > LeftAt(data, p) - HeaderSize
    <3>1. from[p] = Kept(data, p)
      BY <2>1, <2>4 DEF DecodeAt
    <3>2. p \in 1 .. l
      <4> DEFINE h == HeaderSize
      <4>1. ~((l - p) + 1 <= h) /\ h \in Nat
        BY <2>4, PySizes DEF LeftAt, l
      <4> HIDE DEF h
      <4> QED BY ONLY <1>1, <4>1, p \in 1 .. l + 1
    <3>3. data[p][2] = 1
      <4>1. 1 \in 1 .. HeaderSize /\ p + 1 - 1 = p
        BY <3>2, PySizes
      <4> QED BY <2>4, <4>1 DEF NamesKey
    <3>4. LeftAt(data, p) < HeaderSize + data[p][1].count
      <4> DEFINE h == HeaderSize
                 c == data[p][1].count
                 x == LeftAt(data, p)
      <4>1. data[p] \in PyByte
        BY <1>1, <3>2, ElementOfSeq DEF l
      <4>2. x \in Int /\ h \in Nat /\ c \in Nat /\ c > x - h
        <5>1. c \in Nat
          BY <4>1, ByteFacts
        <5>2. x \in Int /\ h \in Nat
          BY <1>1, PySizes DEF LeftAt, l
        <5>3. c > x - h
          BY <2>4
        <5> QED BY ONLY <5>1, <5>2, <5>3
      <4> HIDE DEF x, h, c
      <4>3. x < h + c
        BY ONLY <4>2
      <4> QED BY <4>3 DEF x, h, c
    <3> QED BY <2>1, <3>1, <3>3, <3>4, NothingDecoded
  <2>5. CASE Whither(data, p) /\ NamesKey(data, p)
    <3>1. from[p] = [from[k] EXCEPT !.out = DataAt(data, p) \o @]
      BY <2>1, <2>5 DEF DecodeAt, Whither
    <3>2. /\ k \in (p + 1) .. l + 1 /\ p \in 1 .. l
          /\ Mark(data, p) \in Nat /\ Mark(data, k) \in Nat /\ Mark(data, p) <= Mark(data, k)
          /\ DataAt(data, p) = Run(Mark(data, p), Mark(data, k) - Mark(data, p))
      BY <2>5, BlockDecoded DEF k, l
    <3>3. PICK q \in k .. l + 1 : DecodedTo(data, k, q, from[k])
      BY <1>3, <3>2
    <3>4. q \in p .. l + 1 /\ q \in 1 .. l + 1
      BY ONLY <1>1, <3>2, p \in 1 .. l + 1, q \in k .. l + 1
    <3>5. DecodedTo(data, p, q, from[p])
      BY <1>1, <3>1, <3>2, <3>3, <3>4, FurtherDecoded
    <3> QED BY <3>4, <3>5
  <2> QED BY <2>2, <2>3, <2>4, <2>5 DEF Whither
<1> HIDE DEF Some
<1>4. \A p \in 1 .. l + 1 : Some(p)
  <2> DEFINE T == {d \in Nat : d \in 0 .. l /\ ~Some((l + 1) - d)}
  <2>1. ASSUME T # {} PROVE FALSE
    <3>1. PICK x \in T : \A y \in T : x <= y
      BY <2>1, Least
    <3> DEFINE p == (l + 1) - x
    <3>2. p \in 1 .. l + 1 /\ ~Some(p) /\ x \in 0 .. l
      BY <1>1
    <3>3. ASSUME NEW k \in (p + 1) .. l + 1 PROVE Some(k)
      <4> DEFINE d == (l + 1) - k
      <4>1. d \in Nat /\ d \in 0 .. l /\ ~(x <= d) /\ (l + 1) - d = k
        BY ONLY <1>1, <3>2, k \in (p + 1) .. l + 1
      <4> HIDE DEF d
      <4> QED BY <3>1, <4>1
    <3> HIDE DEF p, T
    <3> QED BY <1>3, <3>2, <3>3
  <2>2. ASSUME NEW p \in 1 .. l + 1 PROVE Some(p)
    <3> DEFINE d == (l + 1) - p
    <3>1. d \in Nat /\ d \in 0 .. l /\ (l + 1) - d = p
      BY ONLY <1>1, p \in 1 .. l + 1
    <3> HIDE DEF d
    <3> QED BY <2>1, <3>1
  <2> QED BY <2>2
<1>5. 1 \in 1 .. l + 1
  BY <1>1
<1> QED BY <1>2, <1>4, <1>5 DEF Some, l

-----------------------------------------------------------------------------
(* What is on the way, and what has been decoded.                          *)

\* All data before what is on the way, w.
Reached(w, sent) == IF w = <<>> THEN sent ELSE DataBefore(w[1])
Carries(w, sent) == Chain(w) /\ WholeBlocks(w) /\ (w # <<>> => DataUpTo(w[Len(w)]) = sent)
Increasing(d) == d \in Seq(Nat) /\ \A i, j \in 1 .. Len(d) : i < j => d[i] < d[j]
Below(d, a) == \A i \in 1 .. Len(d) : d[i] <= a
Waits(b) ==
    /\ b \in Seq(PyByte)
    /\ Len(b) > HeaderSize => b[1][2] = 1 /\ Len(b) < HeaderSize + b[1][1].count

LEMMA EmptyCarries == ASSUME NEW sent PROVE Carries(<<>>, sent)
<1>1. <<>> \in Seq(PyByte) /\ Len(<<>>) = 0
  BY EmptySeq
<1> QED BY <1>1 DEF Carries, WholeBlocks, Chain

LEMMA ReachedNat ==
    ASSUME NEW w, NEW sent \in Nat, Carries(w, sent)
    PROVE  Reached(w, sent) \in Nat /\ Reached(w, sent) <= sent
<1>1. CASE w = <<>>
  BY <1>1 DEF Reached
<1>2. CASE w # <<>>
  <2> DEFINE l == Len(w)
  <2>1. Chain(w) /\ DataUpTo(w[l]) = sent
    BY <1>2 DEF Carries
  <2>2. /\ Mark(w, 1) = DataBefore(w[1]) /\ Mark(w, l + 1) = DataUpTo(w[l]) /\ l \in Nat \ {0}
        /\ \A p \in 1 .. l + 1 : Mark(w, p) \in Nat
    BY <1>2, <2>1, MarkNat
  <2>3. 1 \in 1 .. l + 1 /\ l + 1 \in 1 .. l + 1 /\ 1 <= l + 1
    BY <2>2
  <2>4. Mark(w, 1) <= Mark(w, l + 1)
    BY <1>2, <2>1, <2>3, MarksGrow
  <2> QED BY <1>2, <2>1, <2>2, <2>3, <2>4 DEF Reached
<1> QED BY <1>1, <1>2

\* The bytes of w from place k on.
LEMMA Suffix ==
    ASSUME NEW w, NEW sent, w # <<>>, Carries(w, sent), NEW k \in 1 .. Len(w) + 1,
           NEW v \in Seq(PyByte), Len(v) = (Len(w) - k) + 1,
           \A i \in 1 .. Len(v) : v[i] = w[(i + k) - 1]
    PROVE  Carries(v, sent) /\ Reached(v, sent) = Mark(w, k)
<1> DEFINE l == Len(w)
           n == Len(v)
<1>1. Chain(w) /\ WholeBlocks(w) /\ DataUpTo(w[l]) = sent
  BY DEF Carries
<1>2. l \in Nat \ {0} /\ Mark(w, l + 1) = DataUpTo(w[l]) /\ n \in Nat
  BY <1>1, MarkNat, LenProperties
<1>3. n = (l - k) + 1 /\ k \in 1 .. l + 1 /\ \A i \in 1 .. n : v[i] = w[(i + k) - 1]
  OBVIOUS
<1> HIDE DEF l, n
<1>4. k - 1 \in Nat /\ (k - 1) + n <= l /\ \A i \in 1 .. n : (i + k) - 1 = i + (k - 1)
  BY ONLY <1>2, <1>3
<1>5. Chain(v)
  <2>1. \A i \in 1 .. n : v[i] = w[i + (k - 1)]
    BY <1>3, <1>4
  <2> QED BY <1>1, <1>4, <2>1, ChainPart DEF l, n
<1>6. CASE v = <<>>
  <2>1. n = 0
    BY <1>6, EmptySeq DEF n
  <2>2. k = l + 1
    BY ONLY <1>2, <1>3, <2>1
  <2> QED BY <1>1, <1>2, <1>6, <2>2, EmptyCarries DEF Reached
<1>7. CASE v # <<>>
  <2>1. n \in Nat \ {0}
    BY <1>7, EmptySeq DEF n
  <2>2. 1 \in 1 .. n /\ n \in 1 .. n /\ (1 + k) - 1 = k /\ (n + k) - 1 = l /\ k \in 1 .. l
    BY ONLY <1>2, <1>3, <2>1
  <2>3. v[1] = w[k] /\ v[n] = w[l]
    BY <1>3, <2>2
  <2>4. Mark(w, k) = DataBefore(w[k])
    BY <1>1, <2>2, MarkStep DEF l
  <2>5. WholeBlocks(v) /\ DataUpTo(v[n]) = sent
    BY <1>1, <2>3 DEF WholeBlocks, n, l
  <2> QED BY <1>5, <1>7, <2>3, <2>4, <2>5 DEF Carries, Reached, n
<1> QED BY <1>6, <1>7

\* More is decoded.
LEMMA RunAppended ==
    ASSUME NEW d, NEW a \in Nat, NEW c \in Nat, a <= c, Increasing(d), Below(d, a)
    PROVE  /\ Increasing(d \o Run(a, c - a)) /\ Below(d \o Run(a, c - a), c)
           /\ d = Run(0, a) => d \o Run(a, c - a) = Run(0, c)
<1> DEFINE n == c - a
           v == Run(a, n)
           u == d \o v
           l == Len(d)
<1>1. n \in Nat /\ c = a + n
  OBVIOUS
<1> HIDE DEF n
<1>2. v \in Seq(Nat) /\ Len(v) = n /\ \A i \in 1 .. n : v[i] = a + i
  BY <1>1, RunFacts
<1>3. d \in Seq(Nat) /\ (\A i, j \in 1 .. l : i < j => d[i] < d[j]) /\ \A i \in 1 .. l : d[i] <= a
  BY DEF Increasing, Below
<1>4. l \in Nat /\ \A i \in 1 .. l : d[i] \in Nat
  BY <1>3, ElementOfSeq, LenProperties
<1> HIDE DEF v
<1>5. /\ u \in Seq(Nat) /\ Len(u) = l + n
      /\ \A i \in 1 .. l + n : u[i] = IF i <= l THEN d[i] ELSE v[i - l]
  BY <1>2, <1>3, ConcatProperties
<1> HIDE DEF u, l
<1>6. ASSUME NEW i \in 1 .. l + n
      PROVE  /\ i <= l => i \in 1 .. l /\ u[i] = d[i]
             /\ ~(i <= l) => u[i] = a + (i - l)
  <2>1. i <= l => i \in 1 .. l
    BY <1>4
  <2>2. ~(i <= l) => i - l \in 1 .. n
    BY <1>1, <1>4
  <2> QED BY <1>2, <1>5, <2>1, <2>2
<1>7. ASSUME NEW i \in 1 .. l + n PROVE u[i] \in Nat /\ u[i] <= c
  <2>1. CASE i <= l
    <3>1. u[i] = d[i] /\ d[i] \in Nat /\ d[i] <= a
      BY <1>3, <1>4, <1>6, <2>1 DEF l
    <3> QED BY ONLY <1>1, <3>1, a \in Nat
  <2>2. CASE ~(i <= l)
    <3>1. u[i] = a + (i - l)
      BY <1>6, <2>2
    <3>2. a + (i - l) \in Nat /\ a + (i - l) <= c
      BY ONLY <1>1, <1>4, <2>2, a \in Nat, i \in 1 .. l + n
    <3> QED BY ONLY <3>1, <3>2
  <2> QED BY <2>1, <2>2
<1>8. ASSUME NEW i \in 1 .. l + n, NEW j \in 1 .. l + n, i < j PROVE u[i] < u[j]
  <2>1. CASE j <= l
    <3>1. i <= l
      BY ONLY <1>1, <1>4, <1>8, <2>1, i \in 1 .. l + n, j \in 1 .. l + n
    <3>2. u[i] = d[i] /\ u[j] = d[j] /\ i \in 1 .. l /\ j \in 1 .. l
      BY <1>6, <2>1, <3>1
    <3> QED BY <1>3, <1>8, <3>2 DEF l
  <2>2. CASE i <= l /\ ~(j <= l)
    <3>1. u[i] = d[i] /\ d[i] \in Nat /\ d[i] <= a /\ u[j] = a + (j - l)
      BY <1>3, <1>4, <1>6, <2>2 DEF l
    <3>2. a < a + (j - l)
      BY ONLY <1>1, <1>4, <2>2, a \in Nat, j \in 1 .. l + n
    <3>3. a + (j - l) \in Int
      BY ONLY <1>1, <1>4, a \in Nat, j \in 1 .. l + n
    <3> QED BY ONLY <3>1, <3>2, <3>3, a \in Nat
  <2>3. CASE ~(i <= l)
    <3>1. ~(j <= l)
      BY ONLY <1>1, <1>4, <1>8, <2>3, i \in 1 .. l + n, j \in 1 .. l + n
    <3>2. u[i] = a + (i - l) /\ u[j] = a + (j - l)
      BY <1>6, <2>3, <3>1
    <3>3. a + (i - l) < a + (j - l)
      BY ONLY <1>1, <1>4, <1>8, a \in Nat, i \in 1 .. l + n, j \in 1 .. l + n
    <3> QED BY ONLY <3>2, <3>3
  <2> QED BY <2>1, <2>2, <2>3
<1>9. Increasing(u) /\ Below(u, c)
  BY <1>5, <1>7, <1>8 DEF Increasing, Below
<1>10. ASSUME d = Run(0, a) PROVE u = Run(0, c)
  <2>1. Run(0, a) \o Run(a, n) = Run(0, a + n)
    <3>1. \A i, j, k \in Nat : Run(i, j) \o Run(i + j, k) = Run(i, j + k)
      BY RunsJoined
    <3>2. 0 \in Nat /\ 0 + a = a
      OBVIOUS
    <3>3. Run(0, a) \o Run(0 + a, n) = Run(0, a + n)
      BY ONLY <1>1, <3>1, <3>2, a \in Nat
    <3> QED BY ONLY <3>2, <3>3
  <2>2. u = Run(0, a) \o Run(a, n)
    BY <1>10 DEF u, v
  <2>3. Run(0, a) \o Run(a, n) = Run(0, c)
    BY ONLY <1>1, <2>1
  <2> QED BY ONLY <2>2, <2>3
<1> QED BY <1>9, <1>10 DEF u, v, n

\* What the invariant says of the bytes on the way, w, and those decoded.
Followed(w, d, sent, missing) ==
    /\ Carries(w, sent)
    /\ Below(d, Reached(w, sent))
    /\ ~missing => d = Run(0, Reached(w, sent))

LEMMA NothingSent ==
    ASSUME NEW missing PROVE Followed(<<>>, <<>>, 0, missing) /\ Increasing(<<>>) /\ Waits(<<>>)
<1>1. Carries(<<>>, 0) /\ Reached(<<>>, 0) = 0
  BY EmptyCarries DEF Reached
<1>2. Run(0, 0) = <<>>
  BY RunOfNone
<1>3. <<>> \in Seq(PyByte) /\ <<>> \in Seq(Nat) /\ Len(<<>>) = 0
  BY EmptySeq
<1>4. HeaderSize \in Nat
  BY PySizes
<1> QED BY <1>1, <1>2, <1>3, <1>4 DEF Followed, Below, Increasing, Waits

LEMMA BelowMore ==
    ASSUME NEW d, Increasing(d), NEW a \in Nat, NEW c \in Nat, a <= c, Below(d, a)
    PROVE  Below(d, c)
<1>1. ASSUME NEW i \in 1 .. Len(d) PROVE d[i] <= c
  <2>1. d[i] \in Nat /\ d[i] <= a
    BY ElementOfSeq DEF Increasing, Below
  <2> QED BY ONLY <2>1, a \in Nat, c \in Nat, a <= c
<1> QED BY <1>1 DEF Below

LEMMA FurtherSent ==
    ASSUME NEW w, NEW d, NEW sent \in Nat, NEW z, NEW missing, NEW out,
           Followed(w, d, sent, missing), Piece(out, sent, z)
    PROVE  Followed(w \o out, d, z, missing)
<1>1. Carries(w, sent) /\ Below(d, Reached(w, sent)) /\ (~missing => d = Run(0, Reached(w, sent)))
  BY DEF Followed
<1>2. Ending(out, z) /\ out[1][2] = 1 /\ out[1][1].first = sent + 1 /\ out # <<>>
      /\ out \in Seq(PyByte)
  BY DEF Piece, Ending, Chain
<1> DEFINE u == w \o out
<1>3. u = w \o out
  OBVIOUS
<1> HIDE DEF u
<1>4. Carries(u, z) /\ Reached(u, z) = Reached(w, sent)
  <2>1. CASE w = <<>>
    <3>1. u = out
      BY <1>2, <1>3, <2>1, ConcatEmptySeq
    <3>2. Carries(out, z)
      BY <1>2 DEF Ending, Carries
    <3>3. DataBefore(out[1]) = sent
      <4>1. 1 <= HeaderSize
        BY PySizes
      <4> QED BY <1>2, <4>1 DEF DataBefore
    <3> QED BY <1>2, <2>1, <3>1, <3>2, <3>3 DEF Reached
  <2>2. CASE w # <<>>
    <3>1. Ending(w, sent)
      BY <1>1, <2>2 DEF Carries, Ending
    <3>2. Ending(u, z) /\ u[1] = w[1]
      BY <1>3, <3>1, JoinedPiece, ZenonT(60)
    <3> QED BY <2>2, <3>2 DEF Ending, Carries, Reached
  <2> QED BY <2>1, <2>2
<1> QED BY <1>1, <1>4 DEF Followed, u

LEMMA Regrouped ==
    ASSUME NEW x \in Seq(PyByte), NEW y \in Seq(PyByte), NEW z \in Seq(PyByte)
    PROVE  (x \o y) \o z = x \o (y \o z)
BY ConcatAssociative, SMT

\* The stream cut behind the bytes that arrive.
LEMMA CutBehind ==
    ASSUME NEW b \in Seq(PyByte), NEW s \in Seq(PyByte), NEW size \in 1 .. Len(s)
    PROVE  LET data == b \o SubSeq(s, 1, size)
               tail == SubSeq(s, size + 1, Len(s))
           IN data \in Seq(PyByte) /\ tail \in Seq(PyByte) /\ data # <<>> /\ b \o s = data \o tail
<1> DEFINE head == SubSeq(s, 1, size)
           tail == SubSeq(s, size + 1, Len(s))
           l == Len(s)
<1>1. l \in Nat /\ size \in Nat \ {0} /\ size <= l /\ size \in 1 .. l
  BY LenProperties
<1>2. /\ 1 \in 1 .. l + 1 /\ size \in 0 .. l /\ size + 1 \in 1 .. l + 1 /\ l \in 0 .. l
      /\ 1 <= size /\ (size - 1) + 1 = size /\ size # 0
  BY ONLY <1>1
<1>3. head \in Seq(PyByte) /\ Len(head) # 0
  BY <1>2, SubSeqProperties
<1>4. tail \in Seq(PyByte)
  BY <1>2, SubSeqProperties
<1>5. head \o tail = s
  <2>1. head \o tail = SubSeq(s, 1, Len(s))
    BY <1>1, <1>2, ConcatAdjacentSubSeq
  <2> QED BY <2>1, SubSeqFull
<1> HIDE DEF head, tail
<1>6. b \o s = (b \o head) \o tail
  <2>1. head \in Seq(PyByte)
    BY <1>3
  <2>2. (b \o head) \o tail = b \o (head \o tail)
    BY ZenonT(40), <1>4, <2>1, Regrouped
  <2> QED BY ONLY <1>5, <2>2
<1>7. b \o head \in Seq(PyByte) /\ b \o head # <<>>
  <2>1. b \o head \in Seq(PyByte)
    BY <1>3, ConcatProperties
  <2>2. head # <<>>
    BY <1>3, EmptySeq
  <2> QED BY <1>3, <2>1, <2>2, ConcatSimplifications
<1> QED BY <1>4, <1>6, <1>7 DEF head, tail

\* What is left of the data goes before the rest of the stream.
LeftBefore(data, tail, w, q, v) ==
    /\ data \in Seq(PyByte) /\ tail \in Seq(PyByte) /\ w = data \o tail
    /\ q \in 1 .. Len(data) + 1 /\ v = SubSeq(data, q, Len(data)) \o tail

LEMMA LeftAndRest ==
    ASSUME NEW data, NEW tail, NEW w, NEW q, NEW v, LeftBefore(data, tail, w, q, v)
    PROVE  /\ v \in Seq(PyByte) /\ SubSeq(data, q, Len(data)) \in Seq(PyByte)
           /\ Len(SubSeq(data, q, Len(data))) = (Len(data) - q) + 1
           /\ Len(data) - q \in Nat => SubSeq(data, q, Len(data))[1] = data[q]
           /\ q \in 1 .. Len(w) + 1 /\ Len(v) = (Len(w) - q) + 1
           /\ \A i \in 1 .. Len(v) : v[i] = w[(i + q) - 1]
<1> DEFINE rest == SubSeq(data, q, Len(data))
           l == Len(data)
           m == Len(tail)
           n == (l - q) + 1
<1>0. /\ data \in Seq(PyByte) /\ tail \in Seq(PyByte) /\ w = data \o tail
      /\ q \in 1 .. Len(data) + 1 /\ v = SubSeq(data, q, Len(data)) \o tail
  BY DEF LeftBefore
<1>1. l \in Nat /\ m \in Nat /\ q \in 1 .. l + 1
  BY <1>0, LenProperties
<1>2. n \in Nat /\ q \in Nat \ {0} /\ l \in Int /\ q \in Int
  BY <1>1
<1>3. rest \in Seq(PyByte) /\ Len(rest) = n /\ \A i \in 1 .. n : rest[i] = data[(i + q) - 1]
  <2>1. \A i \in q .. l : data[i] \in PyByte
    <3>1. \A i \in q .. l : i \in 1 .. l
      BY <1>1
    <3> QED BY <1>0, <3>1, ElementOfSeq
  <2>2. /\ rest \in Seq(PyByte) /\ Len(rest) = IF q <= l THEN l - q + 1 ELSE 0
        /\ \A i \in 1 .. l - q + 1 : rest[i] = data[q + i - 1]
    BY SMTT(40), <1>2, <2>1, SubSeqProperties
  <2> HIDE DEF rest, l
  <2>3. n = l - q + 1 /\ (~(q <= l) => n = 0) /\ \A i \in 1 .. n : q + i - 1 = (i + q) - 1
    BY ONLY <1>1, <1>2
  <2> QED BY ONLY <2>2, <2>3
<1>4. /\ Len(w) = l + m /\ \A i \in 1 .. l + m : w[i] = IF i <= l THEN data[i] ELSE tail[i - l]
  BY ONLY <1>0, ConcatProperties DEF l, m
<1> HIDE DEF rest
<1>5. /\ v \in Seq(PyByte) /\ Len(v) = n + m
      /\ \A i \in 1 .. n + m : v[i] = IF i <= n THEN rest[i] ELSE tail[i - n]
  <2>1. v = rest \o tail
    BY <1>0 DEF rest
  <2>2. tail \in Seq(PyByte)
    BY <1>0
  <2> HIDE DEF n
  <2> QED BY ONLY <1>3, <2>1, <2>2, ConcatProperties DEF m
<1> HIDE DEF l, m, n
<1>6. n = (l - q) + 1
  BY DEF n
<1>7. ASSUME NEW i \in 1 .. n + m PROVE v[i] = w[(i + q) - 1]
  <2> DEFINE j == (i + q) - 1
  <2>1. CASE i <= n
    <3>1. j <= l /\ j \in 1 .. l + m /\ i \in 1 .. n
      BY ONLY <1>1, <1>2, <1>6, <2>1, i \in 1 .. n + m
    <3> QED BY <1>3, <1>4, <1>5, <2>1, <3>1
  <2>2. CASE ~(i <= n)
    <3>1. ~(j <= l) /\ j \in 1 .. l + m /\ j - l = i - n
      BY ONLY <1>1, <1>2, <1>6, <2>2, i \in 1 .. n + m
    <3> QED BY <1>4, <1>5, <2>2, <3>1
  <2> QED BY <2>1, <2>2
<1>8. q \in 1 .. (l + m) + 1 /\ n + m = ((l + m) - q) + 1
  BY ONLY <1>1, <1>2, <1>6
<1>9. l - q \in Nat => rest[1] = data[q]
  <2>1. l - q \in Nat => 1 \in 1 .. n /\ (1 + q) - 1 = q
    BY ONLY <1>1, <1>2, <1>6
  <2> QED BY <1>3, <2>1
<1> QED BY <1>3, <1>4, <1>5, <1>6, <1>7, <1>8, <1>9 DEF rest, l

LEMMA FurtherArrived ==
    ASSUME NEW b \in Seq(PyByte), NEW s \in Seq(PyByte), NEW size \in 1 .. Len(s),
           NEW d, NEW sent \in Nat, NEW missing \in BOOLEAN,
           Followed(b \o s, d, sent, missing), Increasing(d)
    PROVE  LET r == Decode(b \o SubSeq(s, 1, size))
               tail == SubSeq(s, size + 1, Len(s))
           IN /\ Followed(r.rest \o tail, d \o r.out, sent, missing \/ r.missing)
              /\ Increasing(d \o r.out) /\ Waits(r.rest) /\ tail \in Seq(PyByte)
<1> DEFINE data == b \o SubSeq(s, 1, size)
           tail == SubSeq(s, size + 1, Len(s))
           w == b \o s
           r == Decode(data)
<1>1. data \in Seq(PyByte) /\ tail \in Seq(PyByte) /\ data # <<>> /\ w = data \o tail
  BY CutBehind
<1>2. Carries(w, sent) /\ Below(d, Reached(w, sent)) /\ (~missing => d = Run(0, Reached(w, sent)))
  BY DEF Followed
<1> HIDE DEF data, tail, w
<1>3. /\ Len(data) \in Nat \ {0} /\ Len(w) \in Nat /\ Len(data) <= Len(w) /\ w # <<>>
      /\ \A i \in 1 .. Len(data) : i \in 1 .. Len(w) /\ w[i] = data[i]
  <2> DEFINE l == Len(data)
             m == Len(tail)
  <2>1. l \in Nat \ {0} /\ m \in Nat
    BY <1>1, EmptySeq, LenProperties
  <2>2. /\ Len(w) = l + m
        /\ \A i \in 1 .. l + m : w[i] = IF i <= l THEN data[i] ELSE tail[i - l]
    BY ONLY <1>1, ConcatProperties
  <2>3. w # <<>>
    <3>1. Len(w) # 0
      BY <2>1, <2>2
    <3> QED BY <3>1, EmptySeq
  <2> HIDE DEF l, m
  <2>4. l + m \in Nat /\ l <= l + m /\ \A i \in 1 .. l : i \in 1 .. l + m /\ i <= l
    BY ONLY <2>1
  <2> QED BY <2>1, <2>2, <2>3, <2>4 DEF l
<1>4. Chain(w) /\ WholeBlocks(w) /\ DataUpTo(w[Len(w)]) = sent
  BY <1>2, <1>3 DEF Carries
<1>5. Chain(data)
  <2> DEFINE l == Len(data)
             n == Len(w)
  <2>1. 0 \in Nat /\ 0 + l <= n /\ \A i \in 1 .. l : i + 0 = i
    <3> HIDE DEF l, n
    <3>1. l \in Nat /\ n \in Nat /\ l <= n
      BY <1>3 DEF l, n
    <3> QED BY ONLY <3>1
  <2>2. \A i \in 1 .. Len(data) : data[i] = w[i + 0]
    BY <1>3, <2>1
  <2> QED BY <1>1, <1>4, <2>1, <2>2, ChainPart
<1>6. PICK q \in 1 .. Len(data) + 1 : DecodedTo(data, 1, q, r)
  BY <1>1, <1>5, DecodePart
<1> HIDE DEF r
<1> DEFINE l == Len(data)
           n == Len(w)
<1>7. \A p \in 1 .. l + 1 : p \in 1 .. n + 1 /\ Mark(data, p) = Mark(w, p) /\ Mark(w, p) \in Nat
  <2>1. ASSUME NEW p \in 1 .. l
        PROVE  Mark(data, p) = Mark(w, p) /\ Mark(data, p + 1) = Mark(w, p + 1)
    <3>1. Mark(data, p) = DataBefore(data[p]) /\ Mark(data, p + 1) = DataUpTo(data[p])
      BY <1>5, MarkStep
    <3>2. p \in 1 .. Len(w) /\ w[p] = data[p]
      BY <1>3
    <3>3. Mark(w, p) = DataBefore(w[p]) /\ Mark(w, p + 1) = DataUpTo(w[p])
      BY <1>4, <3>2, MarkStep
    <3> QED BY ONLY <3>1, <3>2, <3>3
  <2>2. \A p \in 1 .. n + 1 : Mark(w, p) \in Nat
    BY <1>3, <1>4, MarkNat
  <2>3. l \in Nat \ {0} /\ n \in Nat /\ l <= n
    BY <1>3
  <2> HIDE DEF l, n
  <2>4. l \in 1 .. l /\ \A p \in 1 .. l + 1 : p \in 1 .. n + 1 /\ (p \in 1 .. l \/ p = l + 1)
    BY ONLY <2>3
  <2> QED BY <2>1, <2>2, <2>4
<1> DEFINE a == Mark(w, 1)
           c == Mark(w, q)
           e == IF r.missing THEN l + 1 ELSE q
           v == r.rest \o tail
<1>8. Reached(w, sent) = a
  BY <1>3, <1>4, MarkNat DEF Reached
<1>9. /\ r.missing \in BOOLEAN /\ a <= c /\ r.out = Run(a, c - a) /\ a \in Nat /\ c \in Nat
      /\ r.rest = IF r.missing THEN <<>> ELSE SubSeq(data, q, l)
      /\ ~r.missing /\ LeftAt(data, q) > HeaderSize =>
           data[q][2] = 1 /\ LeftAt(data, q) < HeaderSize + data[q][1].count
  <2>1. 1 \in 1 .. l + 1
    BY <1>3
  <2>2. Mark(data, 1) = a /\ Mark(data, q) = c /\ a \in Nat /\ c \in Nat
    BY <1>7, <2>1
  <2> HIDE DEF a, c
  <2> QED BY <1>6, <2>2 DEF DecodedTo
<1>10. /\ e \in 1 .. l + 1 /\ r.rest = SubSeq(data, e, l) /\ l \in Nat \ {0} /\ q \in 1 .. l + 1
       /\ q <= e /\ (~r.missing => e = q)
  <2>1. l \in Nat \ {0} /\ q \in 1 .. l + 1
    BY <1>3
  <2>2. SubSeq(data, l + 1, l) = <<>>
    <3> HIDE DEF l
    <3>1. l + 1 \in Int /\ l \in Int /\ l < l + 1
      BY ONLY <2>1
    <3> QED BY <3>1, SubSeqEmpty
  <2> HIDE DEF l
  <2>3. l + 1 \in 1 .. l + 1 /\ q <= l + 1 /\ q <= q
    BY ONLY <2>1
  <2> QED BY <1>9, <2>1, <2>2, <2>3
<1> HIDE DEF e
<1>11. /\ v \in Seq(PyByte) /\ r.rest \in Seq(PyByte) /\ Len(r.rest) = (l - e) + 1
       /\ l - e \in Nat => r.rest[1] = data[e]
       /\ e \in 1 .. n + 1 /\ Len(v) = (n - e) + 1
       /\ \A i \in 1 .. Len(v) : v[i] = w[(i + e) - 1]
  <2>1. v = SubSeq(data, e, Len(data)) \o tail
    BY <1>10
  <2>2. e \in 1 .. Len(data) + 1
    BY <1>10
  <2>3. r.rest = SubSeq(data, e, Len(data))
    BY <1>10
  <2> HIDE DEF v
  <2>4. /\ v \in Seq(PyByte) /\ SubSeq(data, e, Len(data)) \in Seq(PyByte)
        /\ Len(SubSeq(data, e, Len(data))) = (Len(data) - e) + 1
        /\ Len(data) - e \in Nat => SubSeq(data, e, Len(data))[1] = data[e]
        /\ e \in 1 .. Len(w) + 1 /\ Len(v) = (Len(w) - e) + 1
        /\ \A i \in 1 .. Len(v) : v[i] = w[(i + e) - 1]
    <3>1. LeftBefore(data, tail, w, e, v)
      BY <1>1, <2>1, <2>2 DEF LeftBefore
    <3> QED BY ONLY <3>1, LeftAndRest, SMTT(40)
  <2> QED BY <2>3, <2>4
<1>12. Carries(v, sent) /\ Reached(v, sent) = Mark(w, e)
  BY <1>2, <1>3, <1>11, Suffix
<1>13. Mark(w, e) \in Nat /\ c <= Mark(w, e) /\ (~r.missing => c = Mark(w, e))
  <2>1. q \in 1 .. n + 1 /\ e \in 1 .. n + 1 /\ Mark(w, e) \in Nat /\ q <= e
    BY <1>7, <1>10
  <2>2. Mark(w, q) <= Mark(w, e)
    BY <1>3, <1>4, <2>1, MarksGrow
  <2> QED BY <1>10, <2>1, <2>2
<1> HIDE DEF a, c, l, n
<1>14. /\ Increasing(d \o r.out) /\ Below(d \o r.out, c)
       /\ d = Run(0, a) => d \o r.out = Run(0, c)
  <2>1. Below(d, a)
    BY <1>2, <1>8
  <2>2. /\ Increasing(d \o Run(a, c - a)) /\ Below(d \o Run(a, c - a), c)
        /\ d = Run(0, a) => d \o Run(a, c - a) = Run(0, c)
    BY ONLY <1>9, <2>1, Increasing(d), RunAppended
  <2> QED BY <1>9, <2>2
<1>15. Below(d \o r.out, Mark(w, e))
  <2> DEFINE u == d \o r.out
  <2>1. Increasing(u) /\ Below(u, c)
    BY <1>14
  <2> HIDE DEF u
  <2>2. Below(u, Mark(w, e))
    BY <1>9, <1>13, <2>1, BelowMore
  <2> QED BY <2>2 DEF u
<1> HIDE DEF v
<1>16. Followed(v, d \o r.out, sent, missing \/ r.missing)
  <2> DEFINE u == d \o r.out
  <2>1. /\ Carries(v, sent) /\ Below(u, Reached(v, sent))
        /\ ~missing /\ ~r.missing => u = Run(0, Reached(v, sent))
    <3>1. Below(u, Reached(v, sent))
      BY <1>12, <1>15
    <3>2. ASSUME ~missing, ~r.missing PROVE u = Run(0, Reached(v, sent))
      <4>1. d = Run(0, a)
        BY <1>2, <1>8, <3>2
      <4>2. u = Run(0, c)
        BY <1>14, <4>1
      <4> QED BY <1>12, <1>13, <3>2, <4>2
    <3> QED BY <1>12, <3>1, <3>2
  <2> HIDE DEF u
  <2>2. Followed(v, u, sent, missing \/ r.missing)
    BY <1>9, <2>1, missing \in BOOLEAN DEF Followed
  <2> QED BY <2>2 DEF u
<1>17. Waits(r.rest)
  <2>1. ASSUME Len(r.rest) > HeaderSize
        PROVE  r.rest[1][2] = 1 /\ Len(r.rest) < HeaderSize + r.rest[1][1].count
    <3>1. HeaderSize \in Nat \ {0}
      BY PySizes
    <3>2. ~r.missing
      <4>1. r.missing => Len(r.rest) = 0
        BY <1>9, EmptySeq
      <4> QED BY <2>1, <3>1, <4>1
    <3>3. e = q /\ Len(r.rest) = (l - q) + 1
      BY <1>10, <1>11, <3>2
    <3>4. l - q \in Nat /\ (l - q) + 1 = l - q + 1
      BY ONLY <1>10, <2>1, <3>1, <3>3
    <3>5. r.rest[1] = data[q] /\ LeftAt(data, q) = Len(r.rest)
      BY <1>11, <3>3, <3>4 DEF LeftAt, l
    <3> QED BY <1>9, <2>1, <3>2, <3>5
  <2> QED BY <1>11, <2>1 DEF Waits
<1> QED BY <1>1, <1>14, <1>16, <1>17 DEF v, r, tail, data, w

-----------------------------------------------------------------------------
PyTyped ==
    /\ cur_key \in Int /\ pyCurpos \in Int /\ sentCount \in Nat /\ keyMissing \in BOOLEAN

\* While every send took all it was given, what the decoder keeps and what is on
\* the way are whole blocks but for the first, of bytes that follow one another
\* up to the last one read; as long as no key was missing, all bytes before them
\* are decoded.
OnTheWay ==
    /\ stream \in Seq(PyByte) /\ Increasing(decoded) /\ Waits(buffered)
    /\ running => /\ Followed(buffered \o stream, decoded, sentCount, keyMissing)
                  /\ buffered \o stream # <<>> => cur_key >= 0

PyInv == PyTyped /\ (~cutShort => OnTheWay)

LEMMA FirstOnTheWay == PythonInit => PyInv
<1> SUFFICES ASSUME PythonInit PROVE PyInv
  OBVIOUS
<1>1. stream = <<>> /\ buffered = <<>> /\ decoded = <<>> /\ sentCount = 0 /\ cur_key = -1
      /\ pyCurpos = 0 /\ keyMissing = FALSE
  BY DEF PythonInit
<1>2. <<>> \in Seq(PyByte) /\ <<>> \o <<>> = <<>>
  BY EmptySeq, ConcatEmptySeq
<1>3. OnTheWay
  BY <1>1, <1>2, NothingSent DEF OnTheWay
<1>4. PyTyped
  <2>1. -1 \in Int /\ 0 \in Int /\ 0 \in Nat /\ FALSE \in BOOLEAN
    OBVIOUS
  <2>2. cur_key \in Int
    BY <1>1, <2>1
  <2>3. pyCurpos \in Int
    BY <1>1, <2>1
  <2>4. sentCount \in Nat
    BY <1>1, <2>1
  <2>5. keyMissing \in BOOLEAN
    BY <1>1, <2>1
  <2> QED BY <2>2, <2>3, <2>4, <2>5 DEF PyTyped
<1> QED BY <1>3, <1>4 DEF PyInv

LEMMA AcceptOnTheWay == ASSUME PyInv, AcceptNewClient PROVE PyInv'
<1>1. stream' = <<>> /\ buffered' = <<>> /\ decoded' = <<>> /\ sentCount' = 0 /\ keyMissing' = FALSE
      /\ cur_key' = cur_key /\ pyCurpos' = pyCurpos
  BY DEF AcceptNewClient
<1>2. <<>> \in Seq(PyByte) /\ <<>> \o <<>> = <<>>
  BY EmptySeq, ConcatEmptySeq
<1>3. buffered' \o stream' = <<>>
  BY <1>1, <1>2
<1>4. Followed(<<>>, <<>>, 0, FALSE) /\ Increasing(<<>>) /\ Waits(<<>>)
  BY NothingSent
<1>5. Followed(buffered' \o stream', decoded', sentCount', keyMissing')
  BY <1>1, <1>3, <1>4
<1>6. OnTheWay'
  BY <1>1, <1>2, <1>3, <1>4, <1>5 DEF OnTheWay
<1> QED BY <1>1, <1>6 DEF PyInv, PyTyped

LEMMA KeptOnTheWay ==
    ASSUME PyInv, stream' = stream, decoded' = decoded, buffered' = buffered, sentCount' = sentCount,
           keyMissing' = keyMissing, cutShort' = cutShort, pyCurpos' = pyCurpos, running' => running,
           cur_key' \in Int, cur_key >= 0 => cur_key' >= 0
    PROVE  PyInv'
<1>1. PyTyped'
  BY DEF PyInv, PyTyped
<1>2. ASSUME ~cutShort' PROVE OnTheWay'
  BY <1>2 DEF PyInv, OnTheWay
<1> QED BY <1>1, <1>2 DEF PyInv

LEMMA SentOnTheWay ==
    ASSUME PyInv, NEW count \in Nat \ {0}, RelayToEncoder(count)
    PROVE  PyInv'
<1>1. /\ running /\ ~cutShort /\ sentCount' = sentCount + count
      /\ buffered' = buffered /\ decoded' = decoded
  BY DEF RelayToEncoder
<1>2. PyTyped /\ OnTheWay
  BY <1>1 DEF PyInv
<1>3. /\ stream \in Seq(PyByte) /\ buffered \in Seq(PyByte) /\ Increasing(decoded) /\ Waits(buffered)
      /\ Followed(buffered \o stream, decoded, sentCount, keyMissing)
      /\ buffered \o stream # <<>> => cur_key >= 0
  BY <1>1, <1>2 DEF OnTheWay, Waits
<1>4. /\ sentCount \in Nat /\ sentCount + count \in Nat /\ sentCount <= sentCount + count
      /\ cur_key \in Int /\ pyCurpos \in Int /\ keyMissing \in BOOLEAN
  BY <1>2 DEF PyTyped
<1>5. CASE /\ cur_key < 0 /\ keyMissing' = TRUE
           /\ UNCHANGED <<running, cur_key, pyCurpos, stream, cutShort>>
  <2>1. buffered \o stream = <<>>
    <3>1. ~(cur_key >= 0)
      BY <1>4, <1>5
    <3> QED BY <1>3, <3>1
  <2>2. Reached(<<>>, sentCount) = sentCount /\ Carries(<<>>, sentCount + count)
        /\ Reached(<<>>, sentCount + count) = sentCount + count
    BY EmptyCarries DEF Reached
  <2>3. Below(decoded, sentCount)
    BY <1>3, <2>1, <2>2 DEF Followed
  <2>4. Below(decoded, sentCount + count)
    BY <1>3, <1>4, <2>3, BelowMore
  <2>5. Followed(<<>>, decoded, sentCount + count, TRUE)
    BY <2>2, <2>4 DEF Followed
  <2>6. buffered' \o stream' = <<>>
    BY <1>1, <1>5, <2>1
  <2>7. OnTheWay'
    BY <1>1, <1>3, <1>5, <2>5, <2>6 DEF OnTheWay
  <2> QED BY <1>1, <1>4, <1>5, <2>7 DEF PyInv, PyTyped
<1>6. CASE /\ running' = FALSE
           /\ UNCHANGED <<cur_key, pyCurpos, stream, keyMissing, cutShort>>
  BY <1>1, <1>3, <1>4, <1>6 DEF PyInv, PyTyped, OnTheWay
<1>7. ASSUME cur_key >= 0, NEW r, r = Encoded(count), cur_key' = r.key, pyCurpos' = r.pos,
             NEW taken \in 0..Len(r.out), stream' = stream \o SubSeq(r.out, 1, taken),
             cutShort' = (taken < Len(r.out)), UNCHANGED <<running, keyMissing>>
      PROVE  PyInv'
  <2>1. r.key \in Nat /\ r.pos \in Int /\ Piece(r.out, sentCount, sentCount + count)
    <3>1. cur_key \in Nat
      BY <1>4, <1>7
    <3> QED BY <1>4, <1>7, <3>1, EncodedPiece
  <2>2. PyTyped'
    BY <1>1, <1>4, <1>7, <2>1 DEF PyTyped
  <2>3. ASSUME ~cutShort' PROVE OnTheWay'
    <3>1. r.out \in Seq(PyByte) /\ Len(r.out) \in Nat
      BY <2>1, LenProperties DEF Piece, Ending, Chain
    <3>2. taken = Len(r.out)
      <4> DEFINE l == Len(r.out)
      <4>1. l \in Nat /\ taken \in 0..l /\ ~(taken < l)
        BY <1>7, <2>3, <3>1
      <4> HIDE DEF l
      <4>2. taken = l
        BY ONLY <4>1
      <4> QED BY <4>2 DEF l
    <3>3. stream' = stream \o r.out
      BY <1>7, <3>1, <3>2, SubSeqFull
    <3> DEFINE w == buffered \o stream
               u == w \o r.out
    <3>4. buffered' \o stream' = u
      BY <1>1, <1>3, <3>1, <3>3, Regrouped
    <3>5. stream' \in Seq(PyByte)
      BY <1>3, <3>1, <3>3, ConcatProperties
    <3>6. Followed(w, decoded, sentCount, keyMissing)
      BY <1>3
    <3> HIDE DEF w
    <3>7. Followed(u, decoded, sentCount + count, keyMissing)
      BY <1>4, <2>1, <3>6, FurtherSent
    <3> HIDE DEF u
    <3>8. Followed(buffered' \o stream', decoded', sentCount', keyMissing')
      BY <1>1, <1>7, <3>4, <3>7
    <3>9. cur_key' >= 0
      BY <1>7, <2>1
    <3> QED BY <1>1, <1>3, <3>5, <3>8, <3>9 DEF OnTheWay
  <2> QED BY <2>2, <2>3 DEF PyInv
<1> QED BY <1>5, <1>6, <1>7 DEF RelayToEncoder

LEMMA ArrivedOnTheWay ==
    ASSUME PyInv, NEW size \in 1 .. Len(stream), RelayToDecoder(size)
    PROVE  PyInv'
<1> DEFINE r == Decode(buffered \o SubSeq(stream, 1, size))
           tail == SubSeq(stream, size + 1, Len(stream))
<1>1. /\ running /\ ~cutShort /\ cutShort' = cutShort /\ buffered' = r.rest
      /\ decoded' = decoded \o r.out /\ keyMissing' = (keyMissing \/ r.missing) /\ stream' = tail
      /\ cur_key' = cur_key /\ pyCurpos' = pyCurpos /\ sentCount' = sentCount /\ running' = running
  BY DEF RelayToDecoder
<1>2. PyTyped /\ OnTheWay
  BY <1>1 DEF PyInv
<1>3. /\ stream \in Seq(PyByte) /\ buffered \in Seq(PyByte) /\ Increasing(decoded)
      /\ Followed(buffered \o stream, decoded, sentCount, keyMissing)
      /\ buffered \o stream # <<>> => cur_key >= 0
  BY <1>1, <1>2 DEF OnTheWay, Waits
<1>4. /\ Followed(r.rest \o tail, decoded \o r.out, sentCount, keyMissing \/ r.missing)
      /\ Increasing(decoded \o r.out) /\ Waits(r.rest) /\ tail \in Seq(PyByte)
  BY <1>2, <1>3, FurtherArrived DEF PyTyped
<1>5. cur_key >= 0
  <2>1. stream # <<>>
    <3>1. Len(stream) # 0
      BY <1>3, LenProperties
    <3> QED BY <3>1, EmptySeq
  <2>2. buffered \o stream # <<>>
    BY <1>3, <2>1, ConcatEqualIffEmpty
  <2> QED BY <1>3, <2>2
<1> HIDE DEF r, tail
<1>6. Followed(buffered' \o stream', decoded', sentCount', keyMissing')
  BY <1>1, <1>4
<1>7. OnTheWay'
  BY <1>1, <1>4, <1>5, <1>6 DEF OnTheWay
<1>8. PyTyped'
  BY <1>1, <1>2 DEF PyTyped
<1> QED BY <1>7, <1>8 DEF PyInv

LEMMA StaysOnTheWay == PyInv /\ [PythonNext]_pythonVars => PyInv'
<1> SUFFICES ASSUME PyInv, [PythonNext]_pythonVars PROVE PyInv'
  OBVIOUS
<1>1. ASSUME NEW e \in Sides, PostKeys(e) PROVE PyInv'
  <2>1. cur_key' \in Int /\ (cur_key >= 0 => cur_key' >= 0)
    <3>1. cur_key \in Int
      BY DEF PyInv, PyTyped
    <3> QED BY <1>1, <3>1 DEF PostKeys
  <2> QED BY <1>1, <2>1, KeptOnTheWay DEF PostKeys, sessionVars
<1>2. cur_key \in Int
  BY DEF PyInv, PyTyped
<1>3. ASSUME NEW e \in Sides, AppendKey(e) PROVE PyInv'
  BY <1>2, <1>3, KeptOnTheWay DEF AppendKey, sessionVars
<1>4. CASE AcceptNewClient
  BY <1>4, AcceptOnTheWay
<1>5. CASE ReadEndOfClient
  BY <1>2, <1>5, KeptOnTheWay DEF ReadEndOfClient
<1>6. CASE CloseChannels
  BY <1>2, <1>6, KeptOnTheWay DEF CloseChannels
<1>7. ASSUME NEW count \in 1..MaxSent, RelayToEncoder(count) PROVE PyInv'
  <2>1. count \in Nat \ {0}
    BY PythonAssumption
  <2> QED BY <1>7, <2>1, SentOnTheWay
<1>8. ASSUME NEW size \in 1..Len(stream), RelayToDecoder(size) PROVE PyInv'
  BY <1>8, ArrivedOnTheWay
<1>9. CASE UNCHANGED pythonVars
  BY <1>2, <1>9, KeptOnTheWay DEF pythonVars, sessionVars
<1> QED BY <1>1, <1>3, <1>4, <1>5, <1>6, <1>7, <1>8, <1>9 DEF PythonNext

\* The bytes on the way have the numbers that are left.
LEMMA LeftNumbered ==
    ASSUME NEW w, NEW sent \in Nat, Carries(w, sent)
    PROVE  /\ \A p, q \in DataPlaces(w) : p < q => NumberOf(w[p]) < NumberOf(w[q])
           /\ {NumberOf(w[p]) : p \in DataPlaces(w)} = Reached(w, sent) + 1..sent
<1>1. CASE w = <<>>
  <2>1. Reached(w, sent) = sent
    BY <1>1 DEF Reached
  <2>2. DataPlaces(w) = {}
    <3>1. <<>> \in Seq(Nat) /\ Len(<<>>) = 0
      BY EmptySeq
    <3>2. DOMAIN w = {}
      BY <1>1, <3>1, LenProperties
    <3> QED BY <3>2 DEF DataPlaces
  <2>3. sent + 1..sent = {}
    OBVIOUS
  <2> QED BY <2>1, <2>2, <2>3
<1>2. CASE w # <<>>
  <2>1. Chain(w) /\ DataUpTo(w[Len(w)]) = sent
    BY <1>2 DEF Carries
  <2>2. Mark(w, 1) = DataBefore(w[1]) /\ Mark(w, Len(w) + 1) = sent
    BY <1>2, <2>1, MarkNat
  <2>3. Reached(w, sent) = Mark(w, 1)
    BY <1>2, <2>2 DEF Reached
  <2> QED BY <1>2, <2>1, <2>2, <2>3, DataNumbered
<1> QED BY <1>1, <1>2

LEMMA OnTheWayDecoded == PyInv => DecodedAsEncoded
<1> SUFFICES ASSUME PyInv, ~cutShort PROVE DecodedAsEncoded
  BY DEF DecodedAsEncoded
<1> DEFINE w == buffered \o stream
           a == Reached(w, sentCount)
<1>1. PyTyped /\ OnTheWay
  BY DEF PyInv
<1>2. Increasing(decoded) /\ Waits(buffered) /\ sentCount \in Nat /\ keyMissing \in BOOLEAN
  BY <1>1 DEF PyTyped, OnTheWay
<1>3. \A i, j \in 1..Len(decoded) : i < j => decoded[i] < decoded[j]
  BY <1>2 DEF Increasing
<1>4. Len(buffered) > HeaderSize =>
        buffered[1][2] = 1 /\ Len(buffered) < HeaderSize + buffered[1][1].count
  BY <1>2 DEF Waits
<1>5. ASSUME running, ~keyMissing
      PROVE  /\ decoded = [i \in 1..Len(decoded) |-> i]
             /\ \A p, q \in DataPlaces(w) : p < q => NumberOf(w[p]) < NumberOf(w[q])
             /\ {NumberOf(w[p]) : p \in DataPlaces(w)} = Len(decoded) + 1..sentCount
  <2>1. Followed(w, decoded, sentCount, keyMissing)
    BY <1>1, <1>5 DEF OnTheWay
  <2> HIDE DEF w
  <2>2. Carries(w, sentCount) /\ decoded = Run(0, a)
    BY <1>5, <2>1 DEF Followed
  <2>3. a \in Nat
    BY <1>2, <2>2, ReachedNat
  <2>4. Len(decoded) = a /\ decoded = [i \in 1..a |-> i]
    <3> HIDE DEF a
    <3>1. Len(decoded) = a
      BY <2>2, <2>3, RunFacts
    <3>2. \A i \in 1..a : 0 + i = i
      BY ONLY <2>3
    <3>3. Run(0, a) = [i \in 1..a |-> i]
      BY ONLY <3>2 DEF Run
    <3> QED BY ONLY <2>2, <3>1, <3>3
  <2>5. /\ \A p, q \in DataPlaces(w) : p < q => NumberOf(w[p]) < NumberOf(w[q])
        /\ {NumberOf(w[p]) : p \in DataPlaces(w)} = a + 1..sentCount
    BY <1>2, <2>2, LeftNumbered
  <2> HIDE DEF a
  <2> QED BY ONLY <2>4, <2>5
<1> QED BY <1>3, <1>4, <1>5 DEF DecodedAsEncoded

\* Whatever keys, pieces of the stream and connections there are, the decoder of
\* the Python service puts out what the encoder took in: relay_data, encode and
\* decode of pythoncrypt.py, for every block and header size.
THEOREM DecodedAlwaysAsEncoded == PythonSpec => []DecodedAsEncoded
<1>1. PythonInit => PyInv
  BY FirstOnTheWay
<1>2. PyInv /\ [PythonNext]_pythonVars => PyInv'
  BY StaysOnTheWay
<1>3. PyInv => DecodedAsEncoded
  BY OnTheWayDecoded
<1> QED BY <1>1, <1>2, <1>3, PTL DEF PythonSpec
=============================================================================
