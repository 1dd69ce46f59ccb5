---------------------------- MODULE TunnelProofs ----------------------------
(***************************************************************************)
(* For any number of keys, any quota of packets per key and any length of  *)
(* the key queues, no end of a tunnel started with -l uses a key too often *)
(* while its key server answers.                                           *)
(*                                                                         *)
(* A key gets a turn of PPK + 1 packets each time the server gives it      *)
(* beside the key in use: it then waits on q1 once more, by its sha or as  *)
(* the last key.  The turns that still wait are not yet used; the packets  *)
(* encrypted, with what is left of the turn in use, stay within the quota  *)
(* of the turns that were taken up (Covers).                               *)
(*                                                                         *)
(* The second half is about the groups of shards of TunnelFec, for any     *)
(* number of shards that FecAssumption allows, any number of groups and    *)
(* any number of frames: the receiver recovers in four frames from any     *)
(* state, and loses one frame or two when nothing is lost on the way.      *)
(***************************************************************************)
EXTENDS EarlierTunnels, TunnelFec, FiniteSetTheorems, SequenceTheorems, TLAPS

\* The packets a key may be used for in one go (TapToNet and CtapTap, -e).
Quota == PPK + 1

\* The places of key k in a queue: turns that still wait.
Places(q, k) == {i \in 1 .. Len(q) : q[i] = k}
Waiting(q, k) == Cardinality(Places(q, k))

\* What is left of the quota of the key in use.
Left(c, k) == IF c.key = k THEN Quota - c.usage ELSE 0

\* With queue q and key in use c, the n turns given to key k cover u packets and
\* what is left of the turn in use.
Covers(q, c, n, k, u) == Waiting(q, k) <= n /\ u + Left(c, k) <= Quota * (n - Waiting(q, k))

CurKey == [key : Keys \cup {NoKey}, usage : Nat]

\* The limit holds of the end: -l is given and, but in ctap, the server has answered.
Limited == options = "limit" /\ (~refused \/ version = "ctap")

KeyTypes ==
    /\ q1 \in Seq(Keys) /\ q2 \in Seq(Keys)
    /\ newest \in Keys \cup {NoKey}
    /\ curKey1 \in CurKey
    /\ uses \in [Keys -> Nat] /\ given \in [Keys -> Nat]
    /\ reading \in Keys \cup {NoKey} /\ asking \in BOOLEAN
    /\ asking => reading \notin {NoKey, curKey2}
    /\ waslimit \in BOOLEAN /\ refused \in BOOLEAN

QuotaKept ==
    /\ curKey1.usage <= Quota
    /\ curKey1.key = NoKey => curKey1.usage = 0
    /\ version # "ctap" /\ ~waslimit => curKey1.usage <= PPK
    /\ \A k \in Keys : Covers(q1, curKey1, given[k], k, uses[k])

KeyInv == KeyTypes /\ (Limited => QuotaKept)

-----------------------------------------------------------------------------
LEMMA KeyNumbers ==
    /\ Quota \in Nat /\ Quota > 0 /\ PPK \in Nat /\ Quota = PPK + 1
    /\ Keys \subseteq Nat /\ NoKey \notin Keys /\ NoKey = 0 /\ \A k \in Keys : k > 0
    /\ MaxKey \in Nat /\ QueueLimit \in Nat \ {0}
BY KeysAssumption DEF Quota, Keys, NoKey

\* Products with the quota.
LEMMA QuotaTimes ==
    ASSUME NEW a \in Nat
    PROVE  /\ Quota * a \in Nat /\ Quota * (a + 1) = Quota * a + Quota
           /\ \A b \in Nat : a <= b => Quota * a <= Quota * b
<1>1. Quota \in Nat
  BY KeyNumbers
<1>2. Quota * a \in Nat /\ Quota * (a + 1) = Quota * a + Quota
  BY <1>1
<1>3. ASSUME NEW b \in Nat, a <= b PROVE Quota * a <= Quota * b
  <2>1. PICK d \in Nat : b = a + d
    BY <1>3
  <2>2. Quota * (a + d) = Quota * a + Quota * d /\ Quota * d \in Nat
    BY <1>1
  <2> QED BY <1>2, <2>1, <2>2
<1> QED BY <1>2, <1>3

\* A queue has finitely many places.
LEMMA PlacesFinite ==
    ASSUME NEW q \in Seq(Keys), NEW k
    PROVE  IsFiniteSet(Places(q, k)) /\ Cardinality(Places(q, k)) \in Nat
<1>1. Len(q) \in Nat
  OBVIOUS
<1>2. IsFiniteSet(1 .. Len(q))
  BY <1>1, FS_Interval
<1>3. Places(q, k) \in SUBSET (1 .. Len(q))
  BY DEF Places
<1>4. IsFiniteSet(Places(q, k))
  BY <1>2, <1>3, FS_Subset
<1> QED BY <1>4, FS_CardinalityType

\* Places in a queue that a key was added to.
LEMMA PlacesAppend ==
    ASSUME NEW q \in Seq(Keys), NEW r \in Keys, NEW k
    PROVE  Cardinality(Places(Append(q, r), k)) =
             IF r = k THEN Cardinality(Places(q, k)) + 1 ELSE Cardinality(Places(q, k))
<1> DEFINE p == Append(q, r)
<1>1. /\ Len(q) \in Nat /\ Len(p) = Len(q) + 1 /\ p[Len(q) + 1] = r
      /\ \A i \in 1 .. Len(q) : p[i] = q[i]
  BY AppendProperties, LenProperties
<1> HIDE DEF p
<1>2. \A i : i \in 1 .. Len(p) <=> i \in 1 .. Len(q) \/ i = Len(q) + 1
  BY <1>1
<1>3. CASE r = k
  <2>1. Places(p, k) = Places(q, k) \cup {Len(q) + 1}
    BY <1>1, <1>2, <1>3 DEF Places
  <2>2. Len(q) + 1 \notin Places(q, k)
    BY <1>1 DEF Places
  <2>3. Cardinality(Places(q, k) \cup {Len(q) + 1}) = Cardinality(Places(q, k)) + 1
    BY <2>2, PlacesFinite, FS_AddElement
  <2> QED BY <1>3, <2>1, <2>3 DEF p
<1>4. CASE r # k
  <2>1. Places(p, k) = Places(q, k)
    BY <1>1, <1>2, <1>4 DEF Places
  <2> QED BY <1>4, <2>1 DEF p
<1> QED BY <1>3, <1>4

\* Places in a queue whose first key was taken.
LEMMA PlacesTail ==
    ASSUME NEW q \in Seq(Keys), q # <<>>, NEW k
    PROVE  Cardinality(Places(q, k)) =
             Cardinality(Places(Tail(q), k)) + IF Head(q) = k THEN 1 ELSE 0
<1> DEFINE p == Tail(q)
           R == {i \in 2 .. Len(q) : q[i] = k}
           f == [i \in Places(p, k) |-> i + 1]
<1>1. /\ Len(q) \in Nat /\ Len(q) > 0 /\ p \in Seq(Keys) /\ Len(p) = Len(q) - 1
      /\ \A i \in 1 .. Len(p) : p[i] = q[i + 1]
      /\ Head(q) = q[1]
  BY HeadTailProperties, LenProperties
<1> HIDE DEF p
<1>2. f \in Bijection(Places(p, k), R)
  <2>1. \A i \in Places(p, k) : i \in Int /\ i + 1 \in R
    BY <1>1 DEF Places
  <2>2. \A j \in R : j - 1 \in Places(p, k) /\ j = (j - 1) + 1
    <3> TAKE j \in R
    <3>1. j - 1 \in 1 .. Len(p) /\ j = (j - 1) + 1
      BY <1>1
    <3> QED BY <1>1, <3>1 DEF Places
  <2>3. f \in [Places(p, k) -> R]
    BY <2>1
  <2>4. \A i, j \in Places(p, k) : f[i] = f[j] => i = j
    BY <2>1
  <2>5. \A j \in R : \E i \in Places(p, k) : f[i] = j
    BY <2>1, <2>2
  <2> HIDE DEF f, R
  <2> QED BY <2>3, <2>4, <2>5 DEF Bijection, Injection, Surjection, IsInjective
<1>3. Cardinality(R) = Cardinality(Places(p, k)) /\ IsFiniteSet(R)
  <2>1. IsFiniteSet(Places(p, k))
    BY <1>1, PlacesFinite
  <2> HIDE DEF R, f
  <2>2. ExistsBijection(Places(p, k), R)
    BY <1>2 DEF ExistsBijection
  <2> QED BY <2>1, <2>2, FS_Bijection
<1>4. Cardinality(Places(p, k)) \in Nat
  BY <1>1, PlacesFinite
<1>5. \A i : i \in 1 .. Len(q) <=> i = 1 \/ i \in 2 .. Len(q)
  BY <1>1
<1>6. CASE Head(q) = k
  <2>1. Places(q, k) = R \cup {1} /\ 1 \notin R
    BY <1>1, <1>5, <1>6 DEF Places
  <2> HIDE DEF R
  <2>2. Cardinality(R \cup {1}) = Cardinality(R) + 1
    BY <1>3, <2>1, FS_AddElement
  <2> QED BY <1>3, <1>6, <2>1, <2>2 DEF p
<1>7. CASE Head(q) # k
  <2>1. Places(q, k) = R
    BY <1>1, <1>5, <1>7 DEF Places
  <2> QED BY <1>3, <1>4, <1>7, <2>1 DEF p
<1> QED BY <1>6, <1>7

LEMMA PlacesShort ==
    ASSUME NEW k
    PROVE  /\ Cardinality(Places(<<>>, k)) = 0
           /\ \A n \in Keys : Cardinality(Places(<<n>>, k)) = IF n = k THEN 1 ELSE 0
<1>1. Places(<<>>, k) = {}
  BY DEF Places
<1>2. ASSUME NEW n \in Keys PROVE Cardinality(Places(<<n>>, k)) = IF n = k THEN 1 ELSE 0
  <2>1. <<n>> = Append(<<>>, n) /\ <<>> \in Seq(Keys)
    OBVIOUS
  <2>2. Cardinality(Places(Append(<<>>, n), k)) =
          IF n = k THEN Cardinality(Places(<<>>, k)) + 1 ELSE Cardinality(Places(<<>>, k))
    BY <2>1, PlacesAppend
  <2>3. Cardinality(Places(<<>>, k)) = 0
    BY <1>1, FS_EmptySet
  <2> QED BY <2>1, <2>2, <2>3
<1> QED BY <1>1, <1>2, FS_EmptySet

-----------------------------------------------------------------------------
\* As many turns were taken up, and no more is left.
LEMMA CoversSame ==
    ASSUME NEW a \in Nat, NEW u \in Nat, NEW l \in Nat, NEW m \in Nat, l <= m,
           u + m <= Quota * a
    PROVE  u + l <= Quota * a
<1>1. PICK x \in Nat : x = Quota * a
  BY QuotaTimes
<1> QED BY <1>1

\* One more turn was taken up.
LEMMA CoversMore ==
    ASSUME NEW a \in Nat, NEW u \in Nat, NEW l \in Nat, NEW m \in Nat, l <= m + Quota,
           u + m <= Quota * a
    PROVE  u + l <= Quota * (a + 1)
<1>1. PICK x \in Nat : x = Quota * a
  BY QuotaTimes
<1>2. Quota * (a + 1) = x + Quota /\ Quota \in Nat
  BY <1>1, QuotaTimes, KeyNumbers
<1>3. u + m <= x
  BY <1>1
<1>4. u + l <= x + Quota
  BY <1>2, <1>3
<1> QED BY <1>2, <1>4

LEMMA LeftType ==
    ASSUME NEW c \in CurKey, c.usage <= Quota, NEW k
    PROVE  Left(c, k) \in Nat /\ Left(c, k) <= Quota
BY KeyNumbers DEF Left, CurKey

\* The first key of the queue is taken into use.
LEMMA CoversTaken ==
    ASSUME NEW q \in Seq(Keys), q # <<>>, NEW c \in CurKey, c.usage <= Quota,
           NEW n \in Nat, NEW k \in Keys, NEW u \in Nat,
           NEW d \in CurKey, d.key = Head(q), d.usage = 0, Covers(q, c, n, k, u)
    PROVE  Covers(Tail(q), d, n, k, u)
<1>1. Tail(q) \in Seq(Keys) /\ d.usage <= Quota /\ Quota \in Nat
  BY HeadTailProperties, KeyNumbers
<1>2. PICK v \in Nat, w \in Nat, l \in Nat, m \in Nat :
        /\ v = Waiting(q, k) /\ w = Waiting(Tail(q), k) /\ l = Left(d, k) /\ m = Left(c, k)
  BY <1>1, PlacesFinite, LeftType DEF Waiting
<1>3. v = w + (IF d.key = k THEN 1 ELSE 0) /\ l = IF d.key = k THEN Quota ELSE 0
  BY <1>1, <1>2, PlacesTail DEF Left, Waiting
<1>4. v <= n /\ u + m <= Quota * (n - v)
  BY <1>2 DEF Covers
<1>5. CASE d.key = k
  <2>1. n - v \in Nat /\ n - w = (n - v) + 1 /\ w <= n
    BY <1>3, <1>4, <1>5
  <2>2. u + l <= Quota * ((n - v) + 1)
    BY <1>1, <1>3, <1>4, <1>5, <2>1, CoversMore
  <2> QED BY <1>2, <2>1, <2>2 DEF Covers
<1>6. CASE d.key # k
  <2>1. v = w /\ l = 0
    BY <1>3, <1>6
  <2>2. n - v \in Nat /\ l <= m
    BY <1>4, <2>1
  <2>3. u + l <= Quota * (n - v)
    BY <1>4, <2>2, CoversSame
  <2> QED BY <1>2, <1>4, <2>1, <2>3 DEF Covers
<1> QED BY <1>5, <1>6

\* An answer of the key server that differs from the key in use takes its place.
LEMMA CoversRenewed ==
    ASSUME NEW c \in CurKey, c.usage <= Quota, NEW r \in Keys, NEW k \in Keys, NEW n \in Nat,
           NEW u \in Nat, NEW d \in CurKey, d.key = r, d.usage = 0, Covers(<<>>, c, n, k, u)
    PROVE  Covers(<<>>, d, IF k = r THEN n + 1 ELSE n, k, u)
<1>1. d.usage <= Quota /\ Quota \in Nat
  BY KeyNumbers
<1>2. PICK l \in Nat, m \in Nat : l = Left(d, k) /\ m = Left(c, k)
  BY <1>1, LeftType
<1>3. Waiting(<<>>, k) = 0
  BY PlacesShort DEF Waiting
<1>4. u + m <= Quota * n
  BY <1>2, <1>3 DEF Covers
<1>5. CASE k = r
  <2>1. l = Quota
    BY <1>1, <1>2, <1>5 DEF Left
  <2>2. u + l <= Quota * (n + 1)
    BY <1>1, <1>4, <2>1, CoversMore
  <2> QED BY <1>2, <1>3, <1>5, <2>2 DEF Covers
<1>6. CASE k # r
  <2>1. l <= m
    BY <1>2, <1>6 DEF Left
  <2>2. u + l <= Quota * n
    BY <1>2, <1>4, <2>1, CoversSame, Zenon
  <2>3. n - 0 = n
    OBVIOUS
  <2> QED BY <1>2, <1>3, <1>6, <2>2, <2>3 DEF Covers
<1> QED BY <1>5, <1>6

\* A key the server gives, with one turn more, waits in the queue.
LEMMA CoversQueued ==
    ASSUME NEW q \in Seq(Keys), NEW c \in CurKey, c.usage <= Quota, NEW r \in Keys,
           NEW k \in Keys, NEW n \in Nat, NEW u \in Nat, Covers(q, c, n, k, u)
    PROVE  Covers(Append(q, r), c, IF k = r THEN n + 1 ELSE n, k, u)
<1>1. PICK w \in Nat : w = Waiting(q, k)
  BY PlacesFinite DEF Waiting
<1>2. Waiting(Append(q, r), k) = IF k = r THEN w + 1 ELSE w
  BY <1>1, PlacesAppend DEF Waiting
<1>3. w <= n /\ (n + 1) - (w + 1) = n - w
  BY <1>1 DEF Covers
<1>4. CASE k = r
  BY <1>1, <1>2, <1>3, <1>4 DEF Covers
<1>5. CASE k # r
  BY <1>1, <1>2, <1>5 DEF Covers
<1> QED BY <1>4, <1>5

\* A turn more covers no less, also when the key is lost to a full queue.
LEMMA CoversGiven ==
    ASSUME NEW q \in Seq(Keys), NEW c \in CurKey, c.usage <= Quota, NEW r \in Keys,
           NEW k \in Keys, NEW n \in Nat, NEW u \in Nat, Covers(q, c, n, k, u)
    PROVE  Covers(q, c, IF k = r THEN n + 1 ELSE n, k, u)
<1>1. PICK w \in Nat, m \in Nat : w = Waiting(q, k) /\ m = Left(c, k)
  BY PlacesFinite, LeftType DEF Waiting
<1>2. w <= n /\ u + m <= Quota * (n - w) /\ n - w \in Nat /\ (n + 1) - w = (n - w) + 1
  BY <1>1 DEF Covers
<1>3. u + m <= Quota * ((n - w) + 1)
  BY <1>2, KeyNumbers, CoversMore
<1> QED BY <1>1, <1>2, <1>3 DEF Covers

\* A packet is encrypted with the key in use.
LEMMA CoversUsed ==
    ASSUME NEW q \in Seq(Keys), NEW c \in CurKey, c.usage < Quota, NEW n \in Nat, NEW k \in Keys,
           NEW d \in CurKey, d.key = c.key, d.usage = c.usage + 1, NEW u \in Nat,
           Covers(q, c, n, k, u)
    PROVE  Covers(q, d, n, k, u + (IF k = c.key THEN 1 ELSE 0))
<1>1. Quota \in Nat /\ c.usage \in Nat
  BY KeyNumbers DEF CurKey
<1>2. Left(d, k) + (IF k = c.key THEN 1 ELSE 0) = Left(c, k) /\ Left(d, k) \in Int
  BY <1>1 DEF Left
<1>3. u + (IF k = c.key THEN 1 ELSE 0) + Left(d, k) = u + Left(c, k)
  BY <1>2
<1> QED BY <1>3 DEF Covers

\* The packets encrypted are within the quota of the turns given.
LEMMA CoversUses ==
    ASSUME NEW q \in Seq(Keys), NEW c \in CurKey, c.usage <= Quota, NEW n \in Nat, NEW k \in Keys,
           NEW u \in Nat, Covers(q, c, n, k, u)
    PROVE  u <= Quota * n
<1>1. PICK w \in Nat, m \in Nat : w = Waiting(q, k) /\ m = Left(c, k)
  BY PlacesFinite, LeftType DEF Waiting
<1>2. w <= n /\ u + m <= Quota * (n - w) /\ n - w \in Nat /\ n - w <= n
  BY <1>1 DEF Covers
<1>3. PICK x \in Nat, y \in Nat : x = Quota * (n - w) /\ y = Quota * n /\ x <= y
  BY <1>2, QuotaTimes
<1> QED BY <1>2, <1>3
-----------------------------------------------------------------------------
\* The record on which the TAP side is followed.
SenderType == [q1 : Seq(Keys), q2 : Seq(Keys), cur : CurKey, waslimit : BOOLEAN,
               given : [Keys -> Nat], refused : BOOLEAN, tosend : BOOLEAN, dead : BOOLEAN]

\* Its key in use is within the quota, and below it unless it may not be used.
Fit(s) == s.cur.usage <= Quota /\ (s.cur.key = NoKey => s.cur.usage = 0)
Flag(s) == s.waslimit \/ s.cur.usage <= PPK
Ready(s) == s.cur.key # NoKey /\ s.cur.usage <= PPK

\* In s the turns of key k cover u packets.
Covered(s, k, u) == Covers(s.q1, s.cur, s.given[k], k, u)

\* A step of the TAP side from s to t that uses no key: what was covered still is.
Moved(s, t) ==
    /\ t \in SenderType
    /\ s.refused => t.refused
    /\ options = "limit" /\ Fit(s) =>
         /\ Fit(t)
         /\ \A k \in Keys, u \in Nat : Covered(s, k, u) => Covered(t, k, u)

LEMMA SenderFields ==
    ASSUME NEW s \in SenderType
    PROVE  /\ s.q1 \in Seq(Keys) /\ s.q2 \in Seq(Keys) /\ s.cur \in CurKey
           /\ s.waslimit \in BOOLEAN /\ s.refused \in BOOLEAN
           /\ s.tosend \in BOOLEAN /\ s.dead \in BOOLEAN
           /\ s.cur.key \in Keys \cup {NoKey} /\ s.cur.usage \in Nat
           /\ s.given \in [Keys -> Nat] /\ \A k \in Keys : s.given[k] \in Nat
BY DEF SenderType, CurKey

LEMMA MovedSelf == ASSUME NEW s \in SenderType PROVE Moved(s, s)
BY DEF Moved

LEMMA EnqueueType ==
    ASSUME NEW q \in Seq(Keys), NEW k \in Keys
    PROVE  /\ Enqueue(q, k) \in Seq(Keys) /\ Enqueue(q, k) # <<>>
           /\ Enqueue(q, k) = q \/ Enqueue(q, k) = Append(q, k)
           /\ q = <<>> => Enqueue(q, k) = <<k>>
<1>1. Append(q, k) \in Seq(Keys) /\ Append(q, k) # <<>> /\ Len(q) \in Nat
  BY AppendProperties, LenProperties
<1>2. Len(q) >= QueueLimit => q # <<>>
  BY <1>1, KeyNumbers
<1>3. q = <<>> => ~(Len(q) >= QueueLimit) /\ Append(q, k) = <<k>>
  BY KeyNumbers
<1> QED BY <1>1, <1>2, <1>3 DEF Enqueue

\* The turns given to a key, if the server gave key r beside the one in use.
Turns(c, g, r, k) == IF k = r /\ r # c.key THEN g[k] + 1 ELSE g[k]

\* The server is asked with an empty queue: it refuses, or the key it gives is queued.
LEMMA GotLastKey ==
    ASSUME NEW s \in SenderType, s.q1 = <<>>, newest \in Keys \cup {NoKey},
           NEW t \in AfterGetLastKey(s)
    PROVE  /\ t \in SenderType /\ t.cur = s.cur /\ t.waslimit = s.waslimit
           /\ \/ t.q1 = <<>> /\ t.refused /\ t.given = s.given
              \/ \E r \in Keys : /\ t.q1 = <<r>> /\ t.refused = s.refused
                                 /\ \A k \in Keys : t.given[k] = Turns(s.cur, s.given, r, k)
<1> USE SenderFields
<1>1. CASE t = [s EXCEPT !.refused = TRUE]
  <2>1. /\ t.cur = s.cur /\ t.waslimit = s.waslimit /\ t.q1 = s.q1 /\ t.refused
        /\ t.given = s.given /\ t \in SenderType
    BY <1>1 DEF SenderType
  <2> QED BY <2>1
<1>2. ASSUME NEW r \in Keys,
             t = [s EXCEPT !.q1 = Enqueue(s.q1, r), !.q2 = Enqueue(s.q2, r), !.given = Given(s, r)]
      PROVE  /\ t \in SenderType /\ t.cur = s.cur /\ t.waslimit = s.waslimit
             /\ t.q1 = <<r>> /\ t.refused = s.refused
             /\ \A k \in Keys : t.given[k] = Turns(s.cur, s.given, r, k)
  <2>1. Enqueue(s.q1, r) \in Seq(Keys) /\ Enqueue(s.q2, r) \in Seq(Keys)
    BY EnqueueType
  <2>2. Enqueue(s.q1, r) = <<r>>
    BY EnqueueType
  <2>3. PICK g : g = Given(s, r)
    OBVIOUS
  <2>4. g \in [Keys -> Nat] /\ \A k \in Keys : g[k] = Turns(s.cur, s.given, r, k)
    BY <2>3 DEF Given, Turns
  <2>5. /\ t.cur = s.cur /\ t.waslimit = s.waslimit /\ t.q1 = Enqueue(s.q1, r)
        /\ t.given = g /\ t.refused = s.refused /\ t \in SenderType
    BY <1>2, <2>1, <2>3, <2>4 DEF SenderType
  <2> QED BY <2>2, <2>4, <2>5
<1>3. \/ t = [s EXCEPT !.refused = TRUE]
      \/ \E r \in 1 .. newest :
           t = [s EXCEPT !.q1 = Enqueue(s.q1, r), !.q2 = Enqueue(s.q2, r), !.given = Given(s, r)]
  BY DEF AfterGetLastKey
<1>4. 1 .. newest \subseteq Keys
  BY KeyNumbers DEF Keys, NoKey
<1> QED BY <1>1, <1>2, <1>3, <1>4

\* The first key of the queue is taken.
LEMMA Taken ==
    ASSUME NEW s \in SenderType, s.q1 # <<>>
    PROVE  /\ TakeKey(s) \in SenderType
           /\ TakeKey(s).cur = [key |-> Head(s.q1), usage |-> 0] /\ TakeKey(s).q1 = Tail(s.q1)
           /\ TakeKey(s).refused = s.refused /\ TakeKey(s).given = s.given
           /\ TakeKey(s).cur.key = Head(s.q1)
           /\ TakeKey(s).cur.key \in Keys /\ TakeKey(s).cur.usage = 0
<1> DEFINE d == [key |-> Head(s.q1), usage |-> 0]
<1>1. Head(s.q1) \in Keys /\ Tail(s.q1) \in Seq(Keys)
  BY SenderFields, HeadTailProperties
<1>2. d \in CurKey /\ d.key = Head(s.q1) /\ d.usage = 0
  BY <1>1 DEF CurKey
<1>3. TakeKey(s) = [s EXCEPT !.cur = d, !.q1 = Tail(s.q1)]
  BY DEF TakeKey
<1> HIDE DEF d
<1>4. /\ TakeKey(s) \in SenderType /\ TakeKey(s).cur = d /\ TakeKey(s).q1 = Tail(s.q1)
      /\ TakeKey(s).refused = s.refused /\ TakeKey(s).given = s.given
  BY <1>1, <1>2, <1>3 DEF SenderType
<1> QED BY <1>1, <1>2, <1>4 DEF d

LEMMA TakenMoves ==
    ASSUME NEW s \in SenderType, s.q1 # <<>>
    PROVE  Moved(s, TakeKey(s)) /\ Ready(TakeKey(s))
<1>1. PICK t : t = TakeKey(s)
  OBVIOUS
<1>2. /\ t \in SenderType /\ t.cur \in CurKey /\ t.cur.key = Head(s.q1) /\ t.cur.usage = 0
      /\ t.q1 = Tail(s.q1) /\ t.refused = s.refused /\ t.given = s.given /\ t.cur.key \in Keys
  BY <1>1, Taken, SenderFields
<1>3. Fit(t) /\ Ready(t)
  BY <1>2, KeyNumbers DEF Fit, Ready
<1>4. ASSUME Fit(s), NEW k \in Keys, NEW u \in Nat, Covered(s, k, u) PROVE Covered(t, k, u)
  BY <1>2, <1>4, CoversTaken, SenderFields DEF Fit, Covered
<1> QED BY <1>1, <1>2, <1>3, <1>4 DEF Moved

\* The answer of the server is looked at.  Either the key in use is kept, and may be
\* used no more, or there was none; or it is another key.
LEMMA LastKeyTaken ==
    ASSUME NEW s \in SenderType, NEW r \in Keys, s.q1 = <<r>>
    PROVE  /\ TakeLastKey(s) \in SenderType /\ TakeLastKey(s).refused = s.refused
           /\ TakeLastKey(s).given = s.given
           /\ options = "limit" =>
                \/ /\ s.cur.key = NoKey /\ TakeLastKey(s).dead
                   /\ TakeLastKey(s).cur = s.cur /\ TakeLastKey(s).q1 = <<r>>
                \/ /\ TakeLastKey(s).waslimit /\ ~TakeLastKey(s).tosend /\ s.cur.key = r
                   /\ TakeLastKey(s).cur = s.cur /\ TakeLastKey(s).q1 = <<>>
                \/ /\ s.cur.key # r
                   /\ TakeLastKey(s).cur = [key |-> r, usage |-> 0]
                   /\ TakeLastKey(s).q1 = <<>>
<1>1. s.q1 # <<>> /\ Head(s.q1) = r /\ Tail(s.q1) = <<>> /\ <<>> \in Seq(Keys)
  OBVIOUS
<1>2. CASE options # "limit"
  BY <1>1, <1>2, Taken DEF TakeLastKey
<1>3. CASE options = "limit" /\ s.cur.key = NoKey
  <2>1. TakeLastKey(s) = [s EXCEPT !.dead = TRUE]
    BY <1>3 DEF TakeLastKey
  <2>2. /\ TakeLastKey(s) \in SenderType /\ TakeLastKey(s).refused = s.refused
        /\ TakeLastKey(s).given = s.given
        /\ TakeLastKey(s).cur = s.cur /\ TakeLastKey(s).q1 = s.q1 /\ TakeLastKey(s).dead
    BY <2>1 DEF SenderType
  <2> QED BY <1>3, <2>2
<1>4. CASE options = "limit" /\ s.cur.key # NoKey /\ r = s.cur.key
  <2>1. TakeLastKey(s) = [s EXCEPT !.q1 = <<>>, !.waslimit = TRUE, !.tosend = FALSE]
    BY <1>1, <1>4 DEF TakeLastKey
  <2>2. /\ TakeLastKey(s) \in SenderType /\ TakeLastKey(s).refused = s.refused
        /\ TakeLastKey(s).given = s.given
        /\ TakeLastKey(s).cur = s.cur /\ TakeLastKey(s).q1 = <<>>
        /\ TakeLastKey(s).waslimit /\ ~TakeLastKey(s).tosend
    BY <1>1, <2>1 DEF SenderType
  <2> QED BY <1>4, <2>2
<1>5. CASE options = "limit" /\ s.cur.key # NoKey /\ r # s.cur.key
  <2>1. TakeLastKey(s) = [TakeKey(s) EXCEPT !.waslimit = FALSE]
    BY <1>1, <1>5 DEF TakeLastKey
  <2>2. PICK u \in SenderType : u = TakeKey(s)
    BY <1>1, Taken
  <2>3. /\ u.cur = [key |-> r, usage |-> 0] /\ u.q1 = <<>> /\ u.refused = s.refused
        /\ u.given = s.given
    BY <1>1, <2>2, Taken
  <2>4. PICK v : v = [u EXCEPT !.waslimit = FALSE]
    OBVIOUS
  <2>5. /\ v \in SenderType /\ v.cur = u.cur /\ v.q1 = u.q1 /\ v.refused = u.refused
        /\ v.given = u.given
    BY <2>4 DEF SenderType
  <2>6. v = TakeLastKey(s)
    BY <2>1, <2>2, <2>4
  <2> QED BY <1>5, <2>3, <2>5, <2>6
<1> QED BY <1>2, <1>3, <1>4, <1>5

\* A key is looked for at the server, with an empty queue.
LEMMA LastKeyMoves ==
    ASSUME NEW s \in SenderType, s.q1 = <<>>, newest \in Keys \cup {NoKey},
           NEW t \in AfterGetLastKey(s), t.q1 # <<>>
    PROVE  /\ Moved(s, TakeLastKey(t))
           /\ options = "limit" =>
                \/ TakeLastKey(t).dead /\ TakeLastKey(t).cur = s.cur /\ s.cur.key = NoKey
                \/ TakeLastKey(t).waslimit /\ ~TakeLastKey(t).tosend
                \/ Ready(TakeLastKey(t))
<1>1. PICK v : v = TakeLastKey(t)
  OBVIOUS
<1>2. PICK r \in Keys :
        /\ t \in SenderType /\ t.q1 = <<r>> /\ t.cur = s.cur /\ t.refused = s.refused
        /\ \A k \in Keys : t.given[k] = Turns(s.cur, s.given, r, k)
  BY GotLastKey
<1>3. /\ v \in SenderType /\ v.refused = s.refused /\ v.given = t.given
      /\ options = "limit" =>
           \/ s.cur.key = NoKey /\ v.dead /\ v.cur = s.cur /\ v.q1 = <<r>>
           \/ v.waslimit /\ ~v.tosend /\ s.cur.key = r /\ v.cur = s.cur /\ v.q1 = <<>>
           \/ s.cur.key # r /\ v.cur = [key |-> r, usage |-> 0] /\ v.q1 = <<>>
  BY <1>1, <1>2, LastKeyTaken
<1>4. /\ s.cur \in CurKey /\ v.cur \in CurKey /\ r # NoKey
      /\ \A k \in Keys : s.given[k] \in Nat /\ v.given[k] = Turns(s.cur, s.given, r, k)
  BY <1>2, <1>3, SenderFields, KeyNumbers
<1>5. CASE options # "limit"
  BY <1>1, <1>3, <1>5 DEF Moved
<1>6. CASE options = "limit" /\ s.cur.key = NoKey /\ v.dead /\ v.cur = s.cur /\ v.q1 = <<r>>
  <2>1. ASSUME Fit(s), NEW k \in Keys, NEW u \in Nat, Covered(s, k, u) PROVE Covered(v, k, u)
    <3>1. Covers(<<>>, s.cur, s.given[k], k, u)
      BY <2>1 DEF Covered
    <3>2. Covers(Append(<<>>, r), s.cur, IF k = r THEN s.given[k] + 1 ELSE s.given[k], k, u)
      <4>1. <<>> \in Seq(Keys)
        OBVIOUS
      <4> QED BY <1>4, <2>1, <3>1, <4>1, CoversQueued DEF Fit
    <3>3. Append(<<>>, r) = <<r>>
      OBVIOUS
    <3>4. v.given[k] = IF k = r THEN s.given[k] + 1 ELSE s.given[k]
      BY <1>4, <1>6 DEF Turns
    <3> QED BY <1>6, <3>2, <3>3, <3>4 DEF Covered
  <2> QED BY <1>1, <1>3, <1>6, <2>1 DEF Moved, Fit
<1>7. CASE options = "limit" /\ v.waslimit /\ ~v.tosend /\ s.cur.key = r /\ v.cur = s.cur /\ v.q1 = <<>>
  <2>1. ASSUME NEW k \in Keys PROVE v.given[k] = s.given[k]
    BY <1>4, <1>7 DEF Turns
  <2>2. ASSUME NEW k \in Keys, NEW u \in Nat, Covered(s, k, u) PROVE Covered(v, k, u)
    BY <1>7, <2>1, <2>2 DEF Covered
  <2> QED BY <1>1, <1>3, <1>7, <2>2 DEF Moved, Fit
<1>8. CASE options = "limit" /\ s.cur.key # r /\ v.cur = [key |-> r, usage |-> 0] /\ v.q1 = <<>>
  <2>1. v.cur.key = r /\ v.cur.usage = 0
    BY <1>8
  <2>2. ASSUME Fit(s), NEW k \in Keys, NEW u \in Nat, Covered(s, k, u) PROVE Covered(v, k, u)
    <3>1. Covers(<<>>, s.cur, s.given[k], k, u)
      BY <2>2 DEF Covered
    <3>2. Covers(<<>>, v.cur, IF k = r THEN s.given[k] + 1 ELSE s.given[k], k, u)
      BY <1>4, <2>1, <2>2, <3>1, CoversRenewed DEF Fit
    <3>3. v.given[k] = IF k = r THEN s.given[k] + 1 ELSE s.given[k]
      BY <1>4, <1>8 DEF Turns
    <3> QED BY <1>8, <3>2, <3>3 DEF Covered
  <2>3. Fit(v) /\ Ready(v)
    BY <1>4, <2>1, KeyNumbers DEF Fit, Ready
  <2> QED BY <1>1, <1>3, <2>2, <2>3 DEF Moved
<1> QED BY <1>3, <1>5, <1>6, <1>7, <1>8
-----------------------------------------------------------------------------
\* Before a packet: a key below the quota, or the packet is not sent.
LEMMA ForPacket ==
    ASSUME NEW s \in SenderType, newest \in Keys \cup {NoKey}, NEW t \in KeyForPacket(s)
    PROVE  /\ Moved(s, t)
           /\ options = "limit" /\ Flag(s) /\ Fit(s) =>
                Flag(t) /\ (t.tosend /\ ~t.dead => Ready(t))
<1>1. CASE s.cur.key # NoKey /\ ~s.waslimit
  <2>1. t = s
    BY <1>1 DEF KeyForPacket
  <2> QED BY <1>1, <2>1, MovedSelf DEF Flag, Ready
<1>2. CASE ~(s.cur.key # NoKey /\ ~s.waslimit) /\ s.q1 # <<>>
  <2>1. t = TakeKey(s)
    BY <1>2 DEF KeyForPacket
  <2> QED BY <1>2, <2>1, TakenMoves DEF Flag, Ready
<1>3. CASE ~(s.cur.key # NoKey /\ ~s.waslimit) /\ s.q1 = <<>>
  <2>1. PICK u \in AfterGetLastKey(s) :
          t = IF u.q1 = <<>> THEN [u EXCEPT !.tosend = FALSE] ELSE TakeLastKey(u)
    BY <1>3 DEF KeyForPacket
  <2>2. /\ u \in SenderType /\ u.cur = s.cur /\ u.waslimit = s.waslimit
        /\ s.refused => u.refused
        /\ u.q1 = <<>> => u.given = s.given
    <3>1. \A r \in Keys : <<r>> # <<>>
      OBVIOUS
    <3> QED BY <1>3, <3>1, GotLastKey
  <2>3. CASE u.q1 = <<>>
    <3>1. t = [u EXCEPT !.tosend = FALSE]
      BY <2>1, <2>3
    <3>2. /\ t \in SenderType /\ t.cur = s.cur /\ t.waslimit = s.waslimit /\ t.q1 = s.q1
          /\ ~t.tosend /\ t.refused = u.refused /\ t.given = s.given
      BY <1>3, <2>2, <2>3, <3>1 DEF SenderType
    <3> QED BY <2>2, <3>2 DEF Moved, Flag, Fit, Covered
  <2>4. CASE u.q1 # <<>>
    <3>1. t = TakeLastKey(u)
      BY <2>1, <2>4
    <3>2. /\ Moved(s, t)
          /\ options = "limit" =>
               \/ t.dead /\ t.cur = s.cur /\ s.cur.key = NoKey
               \/ t.waslimit /\ ~t.tosend
               \/ Ready(t)
      BY <1>3, <2>4, <3>1, LastKeyMoves
    <3> QED BY <3>2, KeyNumbers DEF Flag, Fit, Ready
  <2> QED BY <2>3, <2>4
<1> QED BY <1>1, <1>2, <1>3

\* In ctap the usage is looked at before the packet.
LEMMA ForFrame ==
    ASSUME NEW s \in SenderType, newest \in Keys \cup {NoKey}, NEW t \in KeyForFrame(s)
    PROVE  /\ Moved(s, t)
           /\ options = "limit" /\ Fit(s) /\ t.tosend /\ ~t.dead => Ready(t)
<1>0. s.cur.usage \in Nat
  BY SenderFields
<1>1. CASE s.cur.key = NoKey \/ s.waslimit \/ s.cur.usage <= PPK
  <2>1. t \in KeyForPacket(s)
    BY <1>1 DEF KeyForFrame
  <2>2. Fit(s) => Flag(s)
    BY <1>1, KeyNumbers DEF Fit, Flag
  <2> QED BY <2>1, <2>2, ForPacket
<1>2. CASE ~(s.cur.key = NoKey \/ s.waslimit \/ s.cur.usage <= PPK) /\ s.q1 # <<>>
  <2>1. t = TakeKey(s)
    BY <1>2 DEF KeyForFrame
  <2> QED BY <1>2, <2>1, TakenMoves
<1>3. CASE ~(s.cur.key = NoKey \/ s.waslimit \/ s.cur.usage <= PPK) /\ s.q1 = <<>>
  <2>1. PICK u \in AfterGetLastKey(s) :
          t = IF u.q1 = <<>> THEN [u EXCEPT !.tosend = (options # "limit")] ELSE TakeLastKey(u)
    BY <1>3 DEF KeyForFrame
  <2>2. /\ u \in SenderType /\ u.cur = s.cur /\ (s.refused => u.refused)
        /\ u.q1 = <<>> => u.given = s.given
    <3>1. \A r \in Keys : <<r>> # <<>>
      OBVIOUS
    <3> QED BY <1>3, <3>1, GotLastKey
  <2>3. CASE u.q1 = <<>>
    <3>1. t = [u EXCEPT !.tosend = (options # "limit")]
      BY <2>1, <2>3
    <3>2. /\ t \in SenderType /\ t.cur = s.cur /\ t.q1 = s.q1
          /\ t.tosend = (options # "limit") /\ t.refused = u.refused /\ t.given = s.given
      BY <1>3, <2>2, <2>3, <3>1 DEF SenderType
    <3> QED BY <2>2, <3>2 DEF Moved, Fit, Covered
  <2>4. CASE u.q1 # <<>>
    <3>1. t = TakeLastKey(u)
      BY <2>1, <2>4
    <3>2. /\ Moved(s, t)
          /\ options = "limit" =>
               \/ t.dead /\ t.cur = s.cur /\ s.cur.key = NoKey
               \/ t.waslimit /\ ~t.tosend
               \/ Ready(t)
      BY <1>3, <2>4, <3>1, LastKeyMoves
    <3> QED BY <3>2
  <2> QED BY <2>3, <2>4
<1> QED BY <1>1, <1>2, <1>3

\* After a packet: a used key is changed, may be used no more, or the server refused.
LEMMA Changed ==
    ASSUME NEW s \in SenderType, newest \in Keys \cup {NoKey}, NEW t \in ChangeKey(s)
    PROVE  /\ Moved(s, t)
           /\ options = "limit" /\ s.cur.key # NoKey => t.refused \/ Flag(t)
<1>1. CASE s.cur.usage <= PPK
  <2>1. t = s
    BY <1>1 DEF ChangeKey
  <2> QED BY <1>1, <2>1, MovedSelf DEF Flag
<1>2. CASE ~(s.cur.usage <= PPK) /\ s.q1 # <<>>
  <2>1. t = TakeKey(s)
    BY <1>2 DEF ChangeKey
  <2> QED BY <1>2, <2>1, TakenMoves DEF Flag, Ready
<1>3. CASE ~(s.cur.usage <= PPK) /\ s.q1 = <<>>
  <2>1. PICK u \in AfterGetLastKey(s) : t = IF u.q1 = <<>> THEN u ELSE TakeLastKey(u)
    BY <1>3 DEF ChangeKey
  <2>2. /\ u \in SenderType /\ u.cur = s.cur /\ (s.refused => u.refused)
        /\ u.q1 = <<>> => u.refused /\ u.given = s.given
    <3>1. \A r \in Keys : <<r>> # <<>>
      OBVIOUS
    <3> QED BY <1>3, <3>1, GotLastKey
  <2>3. CASE u.q1 = <<>>
    <3>1. t = u
      BY <2>1, <2>3
    <3> QED BY <1>3, <2>2, <2>3, <3>1 DEF Moved, Fit, Covered
  <2>4. CASE u.q1 # <<>>
    <3>1. t = TakeLastKey(u)
      BY <2>1, <2>4
    <3>2. /\ Moved(s, t)
          /\ options = "limit" =>
               \/ t.dead /\ t.cur = s.cur /\ s.cur.key = NoKey
               \/ t.waslimit /\ ~t.tosend
               \/ Ready(t)
      BY <1>3, <2>4, <3>1, LastKeyMoves
    <3> QED BY <3>2 DEF Flag, Ready
  <2> QED BY <2>3, <2>4
<1> QED BY <1>1, <1>2, <1>3

LEMMA UsedFields ==
    ASSUME NEW s \in SenderType
    PROVE  /\ Used(s) \in SenderType /\ Used(s).q1 = s.q1 /\ Used(s).refused = s.refused
           /\ Used(s).given = s.given
           /\ Used(s).cur.key = s.cur.key /\ Used(s).cur.usage = s.cur.usage + 1
<1> DEFINE d == [s.cur EXCEPT !.usage = @ + 1]
<1>1. d \in CurKey /\ d.key = s.cur.key /\ d.usage = s.cur.usage + 1
  BY SenderFields DEF CurKey
<1>2. Used(s) = [s EXCEPT !.cur = d]
  BY DEF Used
<1> HIDE DEF d
<1>3. /\ Used(s) \in SenderType /\ Used(s).q1 = s.q1 /\ Used(s).refused = s.refused
      /\ Used(s).given = s.given /\ Used(s).cur = d
  BY <1>1, <1>2 DEF SenderType
<1> QED BY <1>1, <1>3

\* The turns of a key cover the packets when one more was sent: s is ready for it, and
\* t is what came of it when the key was looked at again.
LEMMA SentCounts ==
    ASSUME NEW c \in SenderType, NEW s, NEW t, options = "limit", Fit(c),
           Moved(c, s), Ready(s), Moved(Used(s), t), NEW k \in Keys, NEW u \in Nat,
           Covered(c, k, u)
    PROVE  Fit(t) /\ Covered(t, k, u + (IF k = s.cur.key THEN 1 ELSE 0))
<1>1. PICK r : r = Used(s)
  OBVIOUS
<1>2. s \in SenderType /\ Fit(s) /\ Covered(s, k, u)
  BY DEF Moved
<1>3. /\ r \in SenderType /\ r.q1 = s.q1 /\ r.given = s.given
      /\ r.cur.key = s.cur.key /\ r.cur.usage = s.cur.usage + 1
  BY <1>1, <1>2, UsedFields
<1>4. /\ s.cur \in CurKey /\ r.cur \in CurKey /\ s.q1 \in Seq(Keys)
      /\ s.cur.usage \in Nat /\ s.given[k] \in Nat
  BY <1>2, <1>3, SenderFields
<1>5. s.cur.usage < Quota /\ Fit(r)
  BY <1>3, <1>4, KeyNumbers DEF Ready, Fit
<1>6. PICK v \in Nat : v = u + (IF k = s.cur.key THEN 1 ELSE 0)
  OBVIOUS
<1>7. Covered(r, k, v)
  BY <1>2, <1>3, <1>4, <1>5, <1>6, CoversUsed DEF Covered
<1>8. Moved(r, t)
  BY <1>1
<1>9. Fit(t) /\ Covered(t, k, v)
  BY <1>5, <1>7, <1>8 DEF Moved
<1> QED BY <1>6, <1>9
-----------------------------------------------------------------------------
LEMMA KeyStart == TunnelsInit => KeyInv
<1> SUFFICES ASSUME TunnelInit PROVE KeyInv
  BY DEF TunnelsInit, NextctapudpStart, CtapudpStart, CtapStart
<1>1. /\ newest \in Keys \cup {NoKey} /\ curKey1 = [key |-> NoKey, usage |-> 0]
      /\ waslimit = FALSE /\ reading = NoKey /\ asking = FALSE
      /\ uses = [k \in Keys |-> 0]
  BY DEF TunnelInit
<1>2. curKey1 \in CurKey /\ curKey1.key = NoKey /\ curKey1.usage = 0 /\ <<>> \in Seq(Keys)
  BY <1>1 DEF CurKey
<1>3. PICK e : e = [q1 |-> <<>>, q2 |-> <<>>, cur |-> curKey1, given |-> [k \in Keys |-> 0],
                    refused |-> FALSE]
  OBVIOUS
<1>4. /\ e.q1 = <<>> /\ e.q2 = <<>> /\ e.refused = FALSE /\ e.given = [k \in Keys |-> 0]
      /\ e.cur = curKey1
      /\ e \in [q1 : Seq(Keys), q2 : Seq(Keys), cur : CurKey, given : [Keys -> Nat],
                refused : BOOLEAN]
  BY <1>2, <1>3
<1>5. PICK s \in AfterGetLastKey(e) :
        q1 = s.q1 /\ q2 = s.q2 /\ given = s.given /\ refused = s.refused
  BY <1>3 DEF TunnelInit
<1>6. /\ q1 \in Seq(Keys) /\ q2 \in Seq(Keys) /\ refused \in BOOLEAN /\ given \in [Keys -> Nat]
      /\ \/ q1 = <<>> /\ given = [k \in Keys |-> 0]
         \/ \E r \in Keys : q1 = <<r>> /\ \A k \in Keys : given[k] = IF k = r THEN 0 + 1 ELSE 0
  <2>1. CASE s = [e EXCEPT !.refused = TRUE]
    <3>1. s.q1 = e.q1 /\ s.q2 = e.q2 /\ s.refused = TRUE /\ s.given = e.given
      BY <1>4, <2>1
    <3>2. [k \in Keys |-> 0] \in [Keys -> Nat]
      OBVIOUS
    <3> QED BY <1>4, <3>2, <1>2, <1>5, <3>1
  <2>2. ASSUME NEW r \in Keys,
               s = [e EXCEPT !.q1 = Enqueue(e.q1, r), !.q2 = Enqueue(e.q2, r), !.given = Given(e, r)]
        PROVE  /\ s.q1 = <<r>> /\ s.q2 = <<r>> /\ s.refused = FALSE /\ s.given \in [Keys -> Nat]
               /\ \A k \in Keys : s.given[k] = IF k = r THEN 0 + 1 ELSE 0
    <3>1. s.q1 = Enqueue(<<>>, r) /\ s.q2 = Enqueue(<<>>, r) /\ s.refused = FALSE /\ s.given = Given(e, r)
      BY <1>4, <2>2
    <3>2. Enqueue(<<>>, r) = <<r>>
      BY <1>2, EnqueueType
    <3>3. Given(e, r) = [e.given EXCEPT ![r] = @ + 1]
      BY <1>2, <1>4, KeyNumbers DEF Given
    <3>4. e.given \in [Keys -> Nat] /\ \A k \in Keys : e.given[k] = 0
      BY <1>4
    <3> QED BY <3>1, <3>2, <3>3, <3>4
  <2>3. \/ s = [e EXCEPT !.refused = TRUE]
        \/ \E r \in 1 .. newest :
             s = [e EXCEPT !.q1 = Enqueue(e.q1, r), !.q2 = Enqueue(e.q2, r), !.given = Given(e, r)]
    BY <1>5 DEF AfterGetLastKey
  <2>4. 1 .. newest \subseteq Keys
    BY <1>1, KeyNumbers DEF Keys, NoKey
  <2>5. \A r \in Keys : <<r>> \in Seq(Keys)
    OBVIOUS
  <2>6. CASE \E r \in Keys :
          s = [e EXCEPT !.q1 = Enqueue(e.q1, r), !.q2 = Enqueue(e.q2, r), !.given = Given(e, r)]
    BY <1>5, <2>2, <2>5, <2>6
  <2> QED BY <2>1, <2>3, <2>4, <2>6
<1>7. KeyTypes
  BY <1>1, <1>2, <1>6 DEF KeyTypes
<1>8. curKey1.usage <= Quota /\ curKey1.usage <= PPK
  BY <1>2, KeyNumbers
<1>9. ASSUME NEW k \in Keys PROVE Covers(q1, curKey1, given[k], k, uses[k])
  <2>1. uses[k] = 0 /\ Covers(<<>>, curKey1, 0, k, 0)
    <3>1. Left(curKey1, k) = 0 /\ Waiting(<<>>, k) = 0 /\ Quota * 0 = 0
      BY <1>2, KeyNumbers, PlacesShort DEF Left, Waiting
    <3> QED BY <1>1, <3>1 DEF Covers
  <2>2. CASE q1 = <<>> /\ given = [j \in Keys |-> 0]
    BY <2>1, <2>2
  <2>3. CASE \E r \in Keys : q1 = <<r>> /\ \A j \in Keys : given[j] = IF j = r THEN 0 + 1 ELSE 0
    <3>1. PICK r \in Keys : q1 = <<r>> /\ given[k] = IF k = r THEN 0 + 1 ELSE 0
      BY <2>3
    <3>2. Append(<<>>, r) = <<r>>
      OBVIOUS
    <3>3. Covers(Append(<<>>, r), curKey1, IF k = r THEN 0 + 1 ELSE 0, k, 0)
      BY <1>2, <1>8, <2>1, CoversQueued
    <3> QED BY <2>1, <3>1, <3>2, <3>3
  <2> QED BY <1>6, <2>2, <2>3
<1> QED BY <1>2, <1>7, <1>8, <1>9 DEF KeyInv, QuotaKept

-----------------------------------------------------------------------------
\* Where the TAP side starts.
LEMMA SenderStarts ==
    ASSUME KeyInv
    PROVE  /\ Sender \in SenderType
           /\ Sender.q1 = q1 /\ Sender.cur = curKey1 /\ Sender.given = given
           /\ Sender.refused = refused
           /\ Limited => Fit(Sender) /\ (version # "ctap" => Flag(Sender))
<1>1. Sender \in SenderType
  BY DEF KeyInv, KeyTypes, Sender, SenderType
<1>2. /\ Sender.q1 = q1 /\ Sender.cur = curKey1 /\ Sender.refused = refused
      /\ Sender.given = given /\ Sender.waslimit = waslimit
  BY DEF Sender
<1>3. Limited => Fit(Sender) /\ (version # "ctap" => Flag(Sender))
  BY <1>2 DEF KeyInv, QuotaKept, Fit, Flag
<1> QED BY <1>1, <1>2, <1>3

\* The variables a step of the TAP side leaves alone.
TapFrame == UNCHANGED <<version, options, recvVars2, newest>>

\* A step of the TAP side that sends nothing.
LEMMA NotSent ==
    ASSUME KeyInv, NEW t, Moved(Sender, t), Sent(t), TapFrame, uses' = uses,
           Limited /\ version # "ctap" => Flag(t)
    PROVE  KeyInv'
<1>1. /\ t \in SenderType /\ t.q1 \in Seq(Keys) /\ t.q2 \in Seq(Keys) /\ t.cur \in CurKey
      /\ t.waslimit \in BOOLEAN /\ t.refused \in BOOLEAN /\ t.given \in [Keys -> Nat]
  BY SenderFields DEF Moved
<1>2. /\ q1' = t.q1 /\ q2' = t.q2 /\ curKey1' = t.cur /\ waslimit' = t.waslimit
      /\ refused' = t.refused /\ version' = version /\ options' = options
      /\ curKey2' = curKey2 /\ reading' = reading /\ asking' = asking /\ given' = t.given
      /\ newest' = newest
  BY DEF Sent, TapFrame, recvVars2
<1>3. KeyTypes'
  BY <1>1, <1>2 DEF KeyInv, KeyTypes
<1>4. ASSUME Limited' PROVE QuotaKept'
  <2>1. options = "limit" /\ Limited
    BY <1>2, <1>4, SenderStarts DEF Limited, Moved
  <2>2. QuotaKept /\ Fit(Sender)
    BY <2>1, SenderStarts DEF KeyInv
  <2>3. Fit(t) /\ \A k \in Keys, u \in Nat : Covered(Sender, k, u) => Covered(t, k, u)
    BY <2>1, <2>2 DEF Moved
  <2>4. curKey1'.usage <= Quota /\ (curKey1'.key = NoKey => curKey1'.usage = 0)
    BY <1>2, <2>3 DEF Fit
  <2>5. version' # "ctap" /\ ~waslimit' => curKey1'.usage <= PPK
    BY <1>2, <2>1 DEF Flag
  <2>6. ASSUME NEW k \in Keys PROVE Covers(q1', curKey1', given'[k], k, uses'[k])
    <3>1. Covers(q1, curKey1, given[k], k, uses[k]) /\ uses[k] \in Nat
      BY <2>2 DEF QuotaKept, KeyInv, KeyTypes
    <3>2. Covered(Sender, k, uses[k])
      BY <3>1, SenderStarts DEF Covered
    <3>3. Covers(t.q1, t.cur, t.given[k], k, uses[k])
      BY <2>3, <3>1, <3>2 DEF Covered
    <3> QED BY <1>2, <3>3
  <2> QED BY <2>4, <2>5, <2>6 DEF QuotaKept, Covers, Waiting, Places, Left
<1> QED BY <1>3, <1>4 DEF KeyInv

\* A step that sends a packet encrypted with the key of s.
LEMMA PacketSent ==
    ASSUME KeyInv, NEW s, NEW t, Moved(Sender, s), Moved(Used(s), t), Sent(t), TapFrame,
           uses' = [uses EXCEPT ![s.cur.key] = @ + 1],
           Limited => Ready(s),
           Limited /\ version # "ctap" => t.refused \/ Flag(t)
    PROVE  KeyInv'
<1>1. /\ t \in SenderType /\ t.q1 \in Seq(Keys) /\ t.q2 \in Seq(Keys) /\ t.cur \in CurKey
      /\ t.waslimit \in BOOLEAN /\ t.refused \in BOOLEAN /\ t.given \in [Keys -> Nat]
      /\ s \in SenderType /\ s.cur.key \in Keys \cup {NoKey}
      /\ s.refused => t.refused
  <2>1. s \in SenderType /\ t \in SenderType
    BY DEF Moved
  <2>2. s.refused => t.refused
    <3>1. Used(s).refused = s.refused
      BY <2>1, UsedFields
    <3> QED BY <3>1 DEF Moved
  <2> QED BY <2>1, <2>2, SenderFields
<1>2. /\ q1' = t.q1 /\ q2' = t.q2 /\ curKey1' = t.cur /\ waslimit' = t.waslimit
      /\ refused' = t.refused /\ version' = version /\ options' = options
      /\ curKey2' = curKey2 /\ reading' = reading /\ asking' = asking /\ given' = t.given
      /\ newest' = newest
  BY DEF Sent, TapFrame, recvVars2
<1>3. uses \in [Keys -> Nat]
  BY DEF KeyInv, KeyTypes
<1>4. /\ uses' \in [Keys -> Nat]
      /\ \A k \in Keys : uses'[k] = uses[k] + IF k = s.cur.key THEN 1 ELSE 0
  <2>1. PICK j \in Keys \cup {NoKey} : j = s.cur.key
    BY <1>1
  <2>2. uses' = [uses EXCEPT ![j] = uses[j] + 1]
    BY <2>1
  <2>3. CASE j \in Keys
    <3>1. uses[j] + 1 \in Nat /\ \A k \in Keys : uses[k] \in Nat
      BY <1>3, <2>3
    <3>2. /\ uses' \in [Keys -> Nat] /\ uses'[j] = uses[j] + 1
          /\ \A k \in Keys \ {j} : uses'[k] = uses[k]
      BY <1>3, <2>2, <2>3, <3>1
    <3> QED BY <2>1, <3>1, <3>2
  <2>4. CASE j \notin Keys
    <3>1. uses' = uses
      BY <1>3, <2>2, <2>4
    <3>2. \A k \in Keys : uses[k] \in Nat
      BY <1>3
    <3>3. \A k \in Keys : k # s.cur.key
      BY <2>1, <2>4
    <3>4. \A k \in Keys : uses'[k] = uses[k] + IF k = s.cur.key THEN 1 ELSE 0
      BY <3>1, <3>2, <3>3
    <3> QED BY <1>3, <3>1, <3>4
  <2> QED BY <2>3, <2>4
<1>5. KeyTypes'
  BY <1>1, <1>2, <1>4 DEF KeyInv, KeyTypes
<1>6. ASSUME Limited' PROVE QuotaKept'
  <2>1. options = "limit" /\ Limited /\ (version # "ctap" => ~t.refused)
    BY <1>1, <1>2, <1>6, SenderStarts DEF Limited, Moved
  <2>2. QuotaKept /\ Fit(Sender) /\ Sender \in SenderType /\ Sender.q1 = q1 /\ Sender.cur = curKey1
    BY <2>1, SenderStarts DEF KeyInv
  <2>3. ASSUME NEW k \in Keys
        PROVE  /\ Fit(t)
               /\ Covered(t, k, uses[k] + (IF k = s.cur.key THEN 1 ELSE 0))
    <3>1. Covers(q1, curKey1, given[k], k, uses[k]) /\ uses[k] \in Nat
      BY <1>3, <2>2 DEF QuotaKept
    <3>2. Covered(Sender, k, uses[k])
      BY <3>1, SenderStarts DEF Covered
    <3> QED BY <2>1, <2>2, <3>1, <3>2, SentCounts
  <2>4. Fit(t)
    <3>1. s.cur.key \in Keys
      BY <1>1, <2>1 DEF Ready
    <3> QED BY <2>3, <3>1
  <2>5. curKey1'.usage <= Quota /\ (curKey1'.key = NoKey => curKey1'.usage = 0)
    BY <1>2, <2>4 DEF Fit
  <2>6. version' # "ctap" /\ ~waslimit' => curKey1'.usage <= PPK
    BY <1>2, <2>1 DEF Flag
  <2>7. ASSUME NEW k \in Keys PROVE Covers(q1', curKey1', given'[k], k, uses'[k])
    BY <1>2, <1>4, <2>3 DEF Covered
  <2> QED BY <2>5, <2>6, <2>7 DEF QuotaKept, Covers, Waiting, Places, Left
<1> QED BY <1>5, <1>6 DEF KeyInv
-----------------------------------------------------------------------------
\* What the turns cover depends on these variables only.
TurnVars == <<version, options, q1, curKey1, uses, given, waslimit, refused>>

LEMMA SameQuota == ASSUME KeyInv, KeyTypes', UNCHANGED TurnVars PROVE KeyInv'
BY DEF KeyInv, TurnVars, Limited, QuotaKept, Covers, Waiting, Left, Places

LEMMA TapKeeps == ASSUME KeyInv, TapToNet, version # "ctap" PROVE KeyInv'
<1>1. TapFrame /\ newest \in Keys \cup {NoKey}
  BY DEF TapToNet, TapFrame, KeyInv, KeyTypes
<1>2. CASE options = "client" /\ curKey1.key = NoKey
  <2>1. UNCHANGED <<sendVars, q2, refused>>
    BY <1>2 DEF TapToNet
  <2>2. KeyTypes' /\ UNCHANGED TurnVars
    BY <1>1, <2>1 DEF TapFrame, recvVars2, sendVars, KeyInv, KeyTypes, TurnVars
  <2> QED BY <2>2, SameQuota
<1>3. CASE ~(options = "client" /\ curKey1.key = NoKey)
  <2>1. PICK s \in KeyForPacket(Sender) :
          IF s.dead \/ ~s.tosend
          THEN Sent(s) /\ UNCHANGED uses
          ELSE /\ \E t \in ChangeKey(Used(s)) : Sent(t)
               /\ uses' = [uses EXCEPT ![s.cur.key] = @ + 1]
    BY <1>3 DEF TapToNet
  <2>2. /\ Moved(Sender, s)
        /\ Limited => Flag(s) /\ (s.tosend /\ ~s.dead => Ready(s))
    BY <1>1, <2>1, SenderStarts, ForPacket DEF Limited
  <2>3. CASE s.dead \/ ~s.tosend
    BY <1>1, <2>1, <2>2, <2>3, NotSent
  <2>4. CASE ~(s.dead \/ ~s.tosend)
    <3>1. PICK t \in ChangeKey(Used(s)) : Sent(t)
      BY <2>1, <2>4
    <3>2. Used(s) \in SenderType /\ Used(s).cur.key = s.cur.key
      BY <2>2, UsedFields DEF Moved
    <3>3. /\ Moved(Used(s), t)
          /\ options = "limit" /\ s.cur.key # NoKey => t.refused \/ Flag(t)
      BY <1>1, <3>1, <3>2, Changed
    <3>4. Limited => Ready(s) /\ options = "limit" /\ s.cur.key # NoKey
      BY <2>2, <2>4 DEF Ready, Limited
    <3>5. uses' = [uses EXCEPT ![s.cur.key] = @ + 1]
      BY <2>1, <2>4
    <3> QED BY <1>1, <2>2, <3>1, <3>3, <3>4, <3>5, PacketSent
  <2> QED BY <2>3, <2>4
<1> QED BY <1>2, <1>3

LEMMA CtapTapKeeps == ASSUME KeyInv, CtapTap PROVE KeyInv'
<1>1. TapFrame /\ newest \in Keys \cup {NoKey} /\ version = "ctap"
  BY DEF CtapTap, TapFrame, KeyInv, KeyTypes, IsCtap
<1>2. PICK s \in KeyForFrame(Sender) :
        IF s.dead \/ ~s.tosend
        THEN Sent(s) /\ UNCHANGED uses
        ELSE Sent(Used(s)) /\ uses' = [uses EXCEPT ![s.cur.key] = @ + 1]
  BY DEF CtapTap
<1>3. /\ Moved(Sender, s)
      /\ Limited /\ s.tosend /\ ~s.dead => Ready(s)
  BY <1>1, <1>2, SenderStarts, ForFrame DEF Limited
<1>4. CASE s.dead \/ ~s.tosend
  BY <1>1, <1>2, <1>3, <1>4, NotSent
<1>5. CASE ~(s.dead \/ ~s.tosend)
  <2>1. Moved(Used(s), Used(s))
    BY <1>3, UsedFields, MovedSelf DEF Moved
  <2>2. Sent(Used(s)) /\ uses' = [uses EXCEPT ![s.cur.key] = @ + 1] /\ (Limited => Ready(s))
    BY <1>2, <1>3, <1>5
  <2> QED BY <1>1, <1>3, <2>1, <2>2, PacketSent
<1> QED BY <1>4, <1>5

\* A key got by its sha goes on q1 too, if there is room.
LEMMA AnsweredKeeps == ASSUME KeyInv, KeyAnswered PROVE KeyInv'
<1>1. /\ asking /\ asking' = FALSE /\ reading <= newest
      /\ q1' = Enqueue(q1, reading) /\ q2' = Tail(Enqueue(q2, reading))
      /\ given' = [given EXCEPT ![reading] = @ + 1]
      /\ UNCHANGED <<version, options, curKey1, waslimit, uses, reading, newest, refused, dead>>
  BY DEF KeyAnswered
<1>2. KeyTypes
  BY DEF KeyInv
<1>3. reading \in Keys /\ q1 \in Seq(Keys) /\ q2 \in Seq(Keys) /\ given \in [Keys -> Nat]
      /\ uses \in [Keys -> Nat] /\ curKey1 \in CurKey
  BY <1>1, <1>2, KeyNumbers DEF KeyTypes
<1>4. /\ q1' \in Seq(Keys) /\ q2' \in Seq(Keys)
      /\ q1' = q1 \/ q1' = Append(q1, reading)
  <2>1. Enqueue(q2, reading) \in Seq(Keys) /\ Enqueue(q2, reading) # <<>>
    BY <1>3, EnqueueType
  <2>2. Tail(Enqueue(q2, reading)) \in Seq(Keys)
    BY <2>1, HeadTailProperties
  <2>3. /\ Enqueue(q1, reading) \in Seq(Keys)
        /\ Enqueue(q1, reading) = q1 \/ Enqueue(q1, reading) = Append(q1, reading)
    BY <1>3, EnqueueType
  <2> QED BY <1>1, <2>2, <2>3
<1>5. /\ given' \in [Keys -> Nat]
      /\ \A k \in Keys : given'[k] = IF k = reading THEN given[k] + 1 ELSE given[k]
  BY <1>1, <1>3
<1>6. KeyTypes'
  BY <1>1, <1>2, <1>4, <1>5 DEF KeyTypes
<1>7. ASSUME Limited' PROVE QuotaKept'
  <2>1. QuotaKept
    BY <1>1, <1>7 DEF KeyInv, Limited
  <2>2. curKey1.usage <= Quota
    BY <2>1 DEF QuotaKept
  <2>3. ASSUME NEW k \in Keys PROVE Covers(q1', curKey1, given'[k], k, uses[k])
    <3>1. Covers(q1, curKey1, given[k], k, uses[k]) /\ uses[k] \in Nat /\ given[k] \in Nat
      BY <1>3, <2>1 DEF QuotaKept
    <3>2. /\ Covers(q1, curKey1, IF k = reading THEN given[k] + 1 ELSE given[k], k, uses[k])
          /\ Covers(Append(q1, reading), curKey1, IF k = reading THEN given[k] + 1 ELSE given[k], k, uses[k])
      BY <1>3, <2>2, <3>1, CoversGiven, CoversQueued
    <3> QED BY <1>4, <1>5, <3>2
  <2>4. ASSUME NEW k \in Keys PROVE Covers(q1', curKey1', given'[k], k, uses'[k])
    BY <1>1, <2>3
  <2> QED BY <1>1, <2>1, <2>4 DEF QuotaKept, Covers, Waiting, Places, Left
<1> QED BY <1>6, <1>7 DEF KeyInv

LEMMA NewKeyKeeps == ASSUME KeyInv, NewKey PROVE KeyInv'
<1>1. /\ newest + 1 \in Keys /\ newest' = newest + 1
      /\ UNCHANGED <<version, options, sendVars, q2, recvVars2, refused, dead>>
  BY DEF NewKey
<1>2. KeyTypes'
  BY <1>1 DEF KeyInv, KeyTypes, sendVars, recvVars2
<1> QED BY <1>1, <1>2, SameQuota DEF TurnVars, sendVars

\* The network side, apart from an answer, touches neither q1 nor the key to send with.
LEMMA NetKeeps == ASSUME KeyInv, NetToTap PROVE KeyInv'
<1>1. CASE KeyAnswered
  BY <1>1, AnsweredKeeps
<1>2. CASE \/ \E k \in Keys : NetPacket(k)
           \/ NextKey \/ AskForKey \/ KeyRefused \/ WritePacket
  <2>1. UNCHANGED TurnVars /\ newest' = newest
    BY <1>2 DEF NetPacket, NextKey, AskForKey, KeyRefused, WritePacket, sendVars, TurnVars
  <2>2. KeyTypes
    BY DEF KeyInv
  <2>3. q2' \in Seq(Keys)
    <3>1. q2 # <<>> => Tail(q2) \in Seq(Keys)
      BY <2>2, HeadTailProperties DEF KeyTypes
    <3>2. q2' = q2 \/ (q2 # <<>> /\ q2' = Tail(q2))
      <4>1. CASE \E k \in Keys : NetPacket(k)
        BY <4>1 DEF NetPacket
      <4>2. CASE NextKey \/ AskForKey \/ KeyRefused \/ WritePacket
        BY <4>2 DEF NextKey, AskForKey, KeyRefused, WritePacket
      <4> QED BY <1>2, <4>1, <4>2
    <3> QED BY <2>2, <3>1, <3>2 DEF KeyTypes
  <2>4. /\ reading' \in Keys \cup {NoKey} /\ asking' \in BOOLEAN
        /\ asking' => reading' \notin {NoKey, curKey2'}
    <3>1. /\ reading \in Keys \cup {NoKey} /\ asking \in BOOLEAN
          /\ asking => reading \notin {NoKey, curKey2}
      BY <2>2 DEF KeyTypes
    <3>2. ASSUME NEW k \in Keys, NetPacket(k) PROVE reading' \in Keys /\ asking' = FALSE
      BY <3>1, <3>2 DEF NetPacket
    <3>3. CASE NextKey
      BY <3>1, <3>3 DEF NextKey
    <3>4. CASE AskForKey
      BY <3>1, <3>4 DEF AskForKey
    <3>5. CASE KeyRefused
      BY <3>1, <3>5 DEF KeyRefused
    <3>6. CASE WritePacket
      BY <3>1, <3>6 DEF WritePacket
    <3> QED BY <1>2, <3>2, <3>3, <3>4, <3>5, <3>6
  <2>5. KeyTypes'
    BY <2>1, <2>2, <2>3, <2>4 DEF KeyTypes, TurnVars
  <2> QED BY <2>1, <2>5, SameQuota
<1> QED BY <1>1, <1>2 DEF NetToTap

LEMMA KeyStep == KeyInv /\ [TunnelsNext]_tunnelVars => KeyInv'
<1> SUFFICES ASSUME KeyInv, [TunnelsNext]_tunnelVars PROVE KeyInv'
  OBVIOUS
<1>1. CASE TapToNet /\ version # "ctap"
  BY <1>1, TapKeeps
<1>2. CASE NetToTap
  BY <1>2, NetKeeps
<1>3. CASE CtapTap
  BY <1>3, CtapTapKeeps
<1>4. CASE NewKey
  BY <1>4, NewKeyKeeps
<1>5. CASE CtapControl \/ UNCHANGED tunnelVars
  <2>1. UNCHANGED TurnVars /\ UNCHANGED <<q2, recvVars2, newest>>
    BY <1>5 DEF CtapControl, tunnelVars, sendVars, TurnVars, recvVars2
  <2>2. KeyTypes'
    BY <2>1 DEF TurnVars, recvVars2, KeyInv, KeyTypes
  <2> QED BY <2>1, <2>2, SameQuota
<1>6. \/ TapToNet /\ version # "ctap"
      \/ NetToTap \/ CtapTap \/ NewKey \/ CtapControl \/ UNCHANGED tunnelVars
  BY DEF TunnelsNext, MainLoop, mainlistenertap, mainlistenerudp, NextctapudpTap, NextctapudpNet,
         NextctapudpTapThread, NextctapudpNetThread, CtapudpTap, CtapudpNet, CtapudpTapThread,
         CtapudpNetThread, CtapNet, IsNext, IsCtapudp
<1> QED BY <1>1, <1>2, <1>3, <1>4, <1>5, <1>6

LEMMA KeyLimit == KeyInv => LimitKept
<1> SUFFICES ASSUME KeyInv, Limited, NEW k \in Keys PROVE uses[k] <= (PPK + 1) * given[k]
  BY DEF LimitKept, Limited
<1>1. Covers(q1, curKey1, given[k], k, uses[k]) /\ curKey1.usage <= Quota
  BY DEF KeyInv, QuotaKept
<1>2. q1 \in Seq(Keys) /\ curKey1 \in CurKey /\ uses[k] \in Nat /\ given[k] \in Nat
  BY DEF KeyInv, KeyTypes
<1>3. uses[k] <= Quota * given[k]
  BY <1>1, <1>2, CoversUses
<1> QED BY <1>3 DEF Quota

\* With -l 1 a key is changed after PPK packets, and one used up waits for another from
\* the key server (ctapudp.c of the three UDP programs, ctap.c): whichever keys the
\* server answers and in whatever order, no end encrypts more packets with a key than
\* PPK + 1 for each time it was given the key beside the one in use.
THEOREM LimitHolds == TunnelsSpec => []LimitKept
BY KeyStart, KeyStep, KeyLimit, PTL DEF TunnelsSpec
-----------------------------------------------------------------------------
(* The numbers of the shards.                                              *)

LEMMA SizeFacts ==
    /\ OriginalCount \in Nat /\ RecoveryCount \in Nat /\ GroupSize \in Nat
    /\ GroupSize = OriginalCount + RecoveryCount
    /\ 2 < RecoveryCount /\ 2 * (RecoveryCount - 1) <= OriginalCount
    /\ LastStart \in Nat /\ LastStart % GroupSize = 0
    /\ Wrap \in Nat /\ Wrap - GroupSize < LastStart /\ LastStart <= Wrap
    /\ LastStart > GroupSize /\ LastStart > 0 /\ MaxFrames \in Nat
BY FecAssumption DEF GroupSize

LEMMA Division ==
    ASSUME NEW a \in Nat, NEW b \in Nat, b > 0
    PROVE  a % b \in 0 .. b - 1 /\ a = b * (a \div b) + (a % b) /\ a \div b \in Nat
BY SMT

LEMMA Multiples ==
    ASSUME NEW b \in Nat, NEW p \in Nat, NEW q \in Nat, q < p
    PROVE  b * q \in Nat /\ b * p \in Nat /\ b * q + b <= b * p
<1>1. PICK d \in Nat : p = q + 1 + d
  <2>1. p - q - 1 \in Nat /\ p = q + 1 + (p - q - 1)
    OBVIOUS
  <2> QED BY <2>1
<1>2. b * (q + 1 + d) = b * q + b + b * d /\ b * d \in Nat /\ b * q \in Nat
  OBVIOUS
<1> QED BY <1>1, <1>2

LEMMA Multiple ==
    ASSUME NEW a \in Nat, NEW b \in Nat, b > 0, a % b = 0
    PROVE  /\ \E q \in Nat : a = b * q
           /\ (a + b) % b = 0
           /\ a >= b => (a - b) % b = 0
           /\ a # 0 => a >= b
<1>1. PICK q \in Nat : a = b * q
  <2>1. a % b \in 0 .. b - 1 /\ a = b * (a \div b) + (a % b) /\ a \div b \in Nat
    BY Division
  <2> QED BY <2>1
<1>2. (a + b) % b = 0
  <2>1. b * (q + 1) = b * q + b /\ q + 1 \in Nat /\ (b * (q + 1)) % b = 0
    <3>1. \A p \in Nat : (b * p) % b = 0
      BY SMT
    <3> QED BY <3>1
  <2> QED BY <1>1, <2>1
<1>3. ASSUME a # 0 PROVE a >= b
  <2>1. q # 0
    BY <1>1, <1>3
  <2>2. b * 0 + b <= b * q
    BY <2>1, Multiples
  <2> QED BY <1>1, <2>2
<1>4. ASSUME a >= b PROVE (a - b) % b = 0
  <2>1. q # 0
    <3>1. q = 0 => b * q = 0
      OBVIOUS
    <3> QED BY <1>1, <1>4, <3>1
  <2>2. PICK p \in Nat : q = p + 1
    BY <2>1
  <2>3. b * (p + 1) = b * p + b /\ b * p \in Nat
    OBVIOUS
  <2>4. a - b = b * p
    BY <1>1, <2>2, <2>3
  <2>5. (b * p) % b = 0
    BY SMT
  <2> QED BY <2>4, <2>5
<1> QED BY <1>1, <1>2, <1>3, <1>4

LEMMA GroupMultiple ==
    ASSUME NEW a \in Nat, a % GroupSize = 0
    PROVE  /\ \E q \in Nat : a = GroupSize * q
           /\ (a + GroupSize) % GroupSize = 0
           /\ a >= GroupSize => (a - GroupSize) % GroupSize = 0
           /\ a # 0 => a >= GroupSize
<1>1. GroupSize \in Nat /\ GroupSize > 0
  BY SizeFacts
<1> QED BY <1>1, Multiple, Zenon

LEMMA Remainder ==
    ASSUME NEW b \in Nat, b > 0, NEW s \in Nat, s % b = 0, NEW i \in 0 .. b - 1
    PROVE  (s + i) % b = i
<1>1. PICK q \in Nat : s = b * q
  <2>1. s = b * (s \div b) + (s % b) /\ s \div b \in Nat
    BY Division
  <2> QED BY <2>1
<1>2. PICK p \in Nat, j \in 0 .. b - 1 : s + i = b * p + j /\ j = (s + i) % b
  <2>1. s + i \in Nat
    OBVIOUS
  <2>2. (s + i) % b \in 0 .. b - 1 /\ s + i = b * ((s + i) \div b) + ((s + i) % b) /\ (s + i) \div b \in Nat
    BY <2>1, Division
  <2> QED BY <2>2
<1>3. ~(q < p) /\ ~(p < q)
  <2>1. q < p => b * q + b <= b * p
    BY Multiples
  <2>2. p < q => b * p + b <= b * q
    BY Multiples
  <2>3. b * q \in Nat /\ b * p \in Nat
    OBVIOUS
  <2>4. PICK x \in Nat, y \in Nat : x = b * q /\ y = b * p
    BY <2>3
  <2> QED BY <1>1, <1>2, <2>1, <2>2, <2>4
<1>4. p = q
  BY <1>3
<1>5. PICK x \in Nat : x = b * q
  BY <1>1
<1> QED BY <1>1, <1>2, <1>4, <1>5

\* The numbers a group starts with.
Starts == {n \in 0 .. LastStart : n % GroupSize = 0}

LEMMA StartFacts ==
    ASSUME NEW S \in Starts
    PROVE  /\ S \in Nat /\ S <= LastStart
           /\ \A i \in Slot : S + i \in Nat /\ (S + i) % GroupSize = i /\ GroupOf(S + i) = S
           /\ S < LastStart => S + GroupSize \in Starts /\ NextGroup(S) = S + GroupSize
           /\ S = LastStart => NextGroup(S) = 0
           /\ NextGroup(S) \in Starts
           /\ 0 \in Starts /\ LastStart \in Starts
<1>1. S \in Nat /\ S <= LastStart /\ S % GroupSize = 0 /\ GroupSize > 0
  BY SizeFacts DEF Starts
<1>2. ASSUME NEW i \in Slot PROVE S + i \in Nat /\ (S + i) % GroupSize = i /\ GroupOf(S + i) = S
  <2>1. i \in 0 .. GroupSize - 1 /\ i \in Nat
    BY SizeFacts DEF Slot
  <2>2. (S + i) % GroupSize = i
    BY <1>1, <2>1, SizeFacts, Remainder
  <2> QED BY <1>1, <2>1, <2>2 DEF GroupOf
<1>3. ASSUME S < LastStart PROVE S + GroupSize <= LastStart /\ (S + GroupSize) % GroupSize = 0
  <2>1. PICK q \in Nat : S = GroupSize * q
    BY <1>1, GroupMultiple
  <2>2. PICK p \in Nat : LastStart = GroupSize * p
    BY SizeFacts, GroupMultiple
  <2>3. p <= q => GroupSize * p <= GroupSize * q
    <3>1. p < q => GroupSize * p + GroupSize <= GroupSize * q /\ GroupSize * p \in Nat /\ GroupSize * q \in Nat
      BY SizeFacts, Multiples
    <3> QED BY <3>1, SizeFacts
  <2>4. q < p
    BY <1>1, <1>3, <2>1, <2>2, <2>3, SizeFacts
  <2>5. GroupSize * q + GroupSize <= GroupSize * p
    BY <2>4, SizeFacts, Multiples
  <2>6. S + GroupSize <= LastStart
    BY <2>1, <2>2, <2>5
  <2>7. (S + GroupSize) % GroupSize = 0
    BY <1>1, SizeFacts, SMT
  <2> QED BY <2>6, <2>7
<1>4. 0 \in Starts /\ LastStart \in Starts
  <2>1. 0 % GroupSize = 0
    BY <1>1, SizeFacts, SMT
  <2> QED BY <2>1, SizeFacts DEF Starts
<1>5. S < LastStart => S + GroupSize \in Starts /\ NextGroup(S) = S + GroupSize
  BY <1>1, <1>3, SizeFacts DEF Starts, NextGroup
<1>6. S = LastStart => NextGroup(S) = 0
  BY <1>1, SizeFacts DEF NextGroup
<1>7. NextGroup(S) \in Starts
  BY <1>1, <1>4, <1>5, <1>6, SizeFacts
<1> QED BY <1>1, <1>2, <1>4, <1>5, <1>6, <1>7
-----------------------------------------------------------------------------
(* Where the sender is, and the datagram the receiver reads next.          *)

\* The first number of the group last sent, and how many of its datagrams the
\* wire has given up.
Began == IF curnum_send = 0 THEN LastStart ELSE curnum_send - GroupSize
Read == GroupSize - Len(wire)

Datagram == [num : Nat, frame : Nat]
Handed == [frame : Nat, start : Nat, whole : BOOLEAN]

SenderTypes ==
    /\ curnum_send \in Starts /\ sent \in 0 .. MaxFrames /\ incomplete \subseteq 1 .. sent
    /\ wire \in Seq(Datagram) /\ Len(wire) <= GroupSize
    /\ \A j \in 1 .. Len(wire) : wire[j] = [num |-> Began + Read + j - 1, frame |-> sent]
    /\ wire # <<>> => sent > 0

ReceiverTypes ==
    /\ slots \in [Slot -> Int] /\ curcount \in 0 .. OriginalCount
    /\ curnum_recv \in Nat /\ curnum_recv_drop \in 0 .. OriginalCount + 1
    /\ delivered \in Seq(Handed) /\ crashed \in BOOLEAN

FecTypes == SenderTypes /\ ReceiverTypes

LEMMA SendTypes ==
    ASSUME SenderTypes
    PROVE  /\ curnum_send \in Starts /\ sent \in Nat /\ MaxFrames \in Nat /\ sent <= MaxFrames
           /\ incomplete \subseteq 1 .. sent /\ wire \in Seq(Datagram)
           /\ Len(wire) \in Nat /\ Len(wire) <= GroupSize /\ Read \in 0 .. GroupSize
           /\ Began \in Starts /\ NextGroup(Began) = curnum_send
           /\ wire = <<>> <=> Read = GroupSize
<1>1. /\ curnum_send \in Starts /\ sent \in 0 .. MaxFrames /\ incomplete \subseteq 1 .. sent
      /\ wire \in Seq(Datagram) /\ Len(wire) \in Nat /\ Len(wire) <= GroupSize
  BY DEF SenderTypes
<1>2. MaxFrames \in Nat
  BY SizeFacts
<1>3. Read \in 0 .. GroupSize /\ (wire = <<>> <=> Read = GroupSize)
  <2>1. wire = <<>> <=> Len(wire) = 0
    BY <1>1
  <2> QED BY <1>1, <2>1, SizeFacts DEF Read
<1>4. Began \in Starts /\ NextGroup(Began) = curnum_send
  <2>1. CASE curnum_send = 0
    BY <1>1, <2>1, StartFacts DEF Began
  <2>2. CASE curnum_send # 0
    <3>1. curnum_send \in Nat /\ curnum_send <= LastStart /\ curnum_send % GroupSize = 0
      BY <1>1 DEF Starts
    <3>2. curnum_send >= GroupSize /\ (curnum_send - GroupSize) % GroupSize = 0
      BY <3>1, <2>2, GroupMultiple
    <3>4. PICK b \in Nat : b = curnum_send - GroupSize
      BY <3>1, <3>2, SizeFacts
    <3>5. b % GroupSize = 0
      BY <3>2, <3>4
    <3>6. b \in Starts /\ b < LastStart
      BY <3>1, <3>4, <3>5, SizeFacts DEF Starts
    <3>7. Began = b
      BY <2>2, <3>4 DEF Began
    <3> QED BY <3>1, <3>4, <3>6, <3>7, StartFacts, SizeFacts
  <2> QED BY <2>1, <2>2
<1> QED BY <1>1, <1>2, <1>3, <1>4

LEMMA NextDatagram ==
    ASSUME SenderTypes, wire # <<>>
    PROVE  /\ Head(wire) = [num |-> Began + Read, frame |-> sent]
           /\ Read \in Slot /\ sent > 0
<1>1. 1 \in 1 .. Len(wire) /\ wire[1] = Head(wire)
  BY SendTypes
<1>2. wire[1] = [num |-> Began + Read + 1 - 1, frame |-> sent]
  BY <1>1, Zenon DEF SenderTypes
<1>3. Began \in Nat /\ Read \in 0 .. GroupSize - 1
  <2>1. Read # GroupSize /\ Read \in 0 .. GroupSize /\ Began \in Starts
    BY SendTypes
  <2> QED BY <2>1, StartFacts, SizeFacts
<1>4. Began + Read + 1 - 1 = Began + Read
  BY <1>3, SizeFacts
<1> QED BY <1>1, <1>2, <1>3, <1>4 DEF SenderTypes, Slot

\* A datagram leaves the wire.
WireShrinks == wire # <<>> /\ wire' = Tail(wire) /\ UNCHANGED <<curnum_send, sent>>

LEMMA WireMoves ==
    ASSUME SenderTypes, WireShrinks, incomplete' \subseteq 1 .. sent
    PROVE  SenderTypes' /\ Began' = Began /\ Read' = Read + 1
<1>1. Began' = Began
  BY DEF Began, WireShrinks
<1>2. /\ wire' \in Seq(Datagram) /\ Len(wire') = Len(wire) - 1
      /\ \A j \in 1 .. Len(wire') : wire'[j] = wire[j + 1]
  BY SendTypes DEF WireShrinks
<1>3. Read' = Read + 1
  BY <1>2, SendTypes, SizeFacts DEF Read
<1>4. ASSUME NEW j \in 1 .. Len(wire')
      PROVE  wire'[j] = [num |-> Began' + Read' + j - 1, frame |-> sent']
  <2>1. j + 1 \in 1 .. Len(wire) /\ j \in Nat
    BY <1>2, SendTypes
  <2>2. wire[j + 1] = [num |-> Began + Read + (j + 1) - 1, frame |-> sent]
    BY <2>1 DEF SenderTypes
  <2>3. Began + Read + (j + 1) - 1 = Began' + Read' + j - 1
    BY SMTT(40), <1>1, <1>3, <2>1, SendTypes, SizeFacts DEF Starts
  <2>4. wire'[j] = wire[j + 1] /\ sent' = sent
    BY <1>2 DEF WireShrinks
  <2>5. PICK x : x = Began + Read + (j + 1) - 1
    OBVIOUS
  <2>6. x = Began' + Read' + j - 1
    BY <2>3, <2>5
  <2>7. wire[j + 1] = [num |-> x, frame |-> sent]
    BY <2>2, <2>5
  <2> QED BY <2>4, <2>6, <2>7
<1>5. sent' = sent /\ curnum_send' = curnum_send /\ sent > 0
  BY NextDatagram DEF WireShrinks
<1>6. SenderTypes'
  <2>1. Len(wire') <= GroupSize
    BY <1>2, SendTypes, SizeFacts
  <2>2. sent' \in 0 .. MaxFrames /\ curnum_send' \in Starts /\ incomplete' \subseteq 1 .. sent'
    BY <1>5, SendTypes
  <2> QED BY <1>2, <1>4, <1>5, <2>1, <2>2 DEF SenderTypes
<1> QED BY <1>1, <1>3, <1>6

LEMMA GroupSent ==
    ASSUME SenderTypes, SendGroup
    PROVE  /\ SenderTypes' /\ Began' = NextGroup(Began) /\ Read' = 0
           /\ sent' = sent + 1 /\ sent' <= MaxFrames /\ wire # wire' /\ wire = <<>>
           /\ incomplete' = incomplete /\ recvVars' = recvVars
<1>1. /\ sent < MaxFrames /\ wire = <<>> /\ sent' = sent + 1
      /\ wire' = [j \in 1 .. GroupSize |-> [num |-> curnum_send + j - 1, frame |-> sent + 1]]
      /\ curnum_send' = NextGroup(curnum_send)
      /\ incomplete' = incomplete /\ recvVars' = recvVars
  BY DEF SendGroup
<1>2. wire' \in Seq(Datagram) /\ Len(wire') = GroupSize
  <2>1. \A j \in 1 .. GroupSize : curnum_send + j - 1 \in Nat
    BY SendTypes, SizeFacts DEF Starts
  <2>2. \A j \in 1 .. GroupSize : [num |-> curnum_send + j - 1, frame |-> sent + 1] \in Datagram
    BY <2>1, SendTypes DEF Datagram
  <2> QED BY <1>1, <2>2, SizeFacts
<1>3. curnum_send \in Starts /\ curnum_send \in Nat /\ curnum_send <= LastStart
  BY SendTypes DEF Starts
<1>4. curnum_send' \in Starts
  BY <1>1, <1>3, StartFacts
<1>5. Began' = curnum_send
  <2>1. CASE curnum_send < LastStart
    <3>1. curnum_send' = curnum_send + GroupSize
      BY <1>1, <1>3, <2>1, StartFacts
    <3> QED BY <1>3, <3>1, SizeFacts DEF Began
  <2>2. CASE curnum_send = LastStart
    <3>1. curnum_send' = 0
      BY <1>1, <1>3, <2>2, StartFacts
    <3> QED BY <2>2, <3>1 DEF Began
  <2> QED BY <1>3, <2>1, <2>2, SizeFacts
<1>6. Read' = 0
  BY <1>2, SizeFacts DEF Read
<1>7. \A j \in 1 .. Len(wire') : wire'[j] = [num |-> Began' + Read' + j - 1, frame |-> sent']
  <2>1. ASSUME NEW j \in 1 .. GroupSize
        PROVE  wire'[j] = [num |-> Began' + Read' + j - 1, frame |-> sent']
    <3>1. curnum_send + j - 1 = Began' + Read' + j - 1
      BY <1>3, <1>5, <1>6, SizeFacts
    <3> QED BY <1>1, <3>1
  <2> QED BY <1>2, <2>1
<1>8. sent' \in 0 .. MaxFrames /\ incomplete' \subseteq 1 .. sent' /\ sent' > 0
  <2>1. sent' \in 0 .. MaxFrames /\ sent' > 0
    BY <1>1, SendTypes
  <2>2. \A k \in 1 .. sent : k \in 1 .. sent'
    BY <1>1, SendTypes
  <2>3. incomplete' \subseteq 1 .. sent
    BY <1>1, SendTypes
  <2> QED BY <2>1, <2>2, <2>3
<1>9. wire # wire'
  <2>1. Len(<<>>) = 0
    OBVIOUS
  <2>2. wire = <<>> /\ GroupSize # 0
    BY <1>1, SizeFacts
  <2> QED BY <1>2, <2>1, <2>2
<1>10. SenderTypes'
  <2>1. Len(wire') <= GroupSize
    BY <1>2, SizeFacts
  <2> QED BY <1>2, <1>4, <1>7, <1>8, <2>1 DEF SenderTypes
<1>11. Began' = NextGroup(Began)
  BY <1>5, SendTypes
<1>12. sent' = sent + 1 /\ wire = <<>> /\ incomplete' = incomplete /\ recvVars' = recvVars
  BY <1>1
<1>13. sent' <= MaxFrames
  BY <1>8, SendTypes
<1> QED BY <1>6, <1>9, <1>10, <1>11, <1>12, <1>13

-----------------------------------------------------------------------------
(* What one datagram does to the receiver: shard n of the group that       *)
(* starts with S, computed from frame f.                                   *)

ShardOf(S, n, f) == [num |-> S + n, frame |-> f]

\* ChangesPlace for a shard of that group.
LeavesPlace(S) ==
    /\ curcount = 0 \/ curnum_recv_drop > OriginalCount
    /\ curnum_recv = 0 \/ curnum_recv # S

Restarts(S, n, f) ==
    /\ S + n <= LastStart /\ curnum_recv_drop' = 0
    /\ Collect([NoShards EXCEPT ![n] = f], 1, S + GroupSize, ShardOf(S, n, f))
Collects(S, n, f) ==
    /\ UNCHANGED curnum_recv_drop
    /\ Collect([slots EXCEPT ![n] = f], curcount + 1, curnum_recv, ShardOf(S, n, f))
PassesOver ==
    /\ curnum_recv_drop' = curnum_recv_drop + 1
    /\ UNCHANGED <<slots, curcount, curnum_recv, delivered, crashed>>

Receives(S, n, f) ==
    /\ ~crashed
    /\ \/ LeavesPlace(S) /\ Restarts(S, n, f)
       \/ LeavesPlace(S) /\ S + n > LastStart /\ Collects(S, n, f)
       \/ ~LeavesPlace(S) /\ curnum_recv # S /\ PassesOver
       \/ ~LeavesPlace(S) /\ curnum_recv = S /\ Collects(S, n, f)

LEMMA ReceivesNext ==
    ASSUME SenderTypes, ReceiveShard,
           NEW S, NEW n, NEW f, S = Began, n = Read, f = sent
    PROVE  /\ S \in Starts /\ n \in Slot /\ f \in Nat \ {0}
           /\ Receives(S, n, f) /\ SenderTypes'
           /\ Began' = S /\ Read' = n + 1 /\ sent' = f /\ incomplete' = incomplete
<1>1. wire # <<>> /\ ~crashed /\ wire' = Tail(wire) /\ UNCHANGED <<curnum_send, sent, incomplete>>
  BY DEF ReceiveShard
<1>2. Head(wire) = ShardOf(S, n, f) /\ n \in Slot /\ f > 0
  BY <1>1, NextDatagram DEF ShardOf
<1>3. S \in Starts /\ f \in Nat
  BY SendTypes
<1>4. (S + n) % GroupSize = n /\ GroupOf(S + n) = S
  BY <1>2, <1>3, StartFacts
<1>5. ShardOf(S, n, f).num = S + n /\ ShardOf(S, n, f).frame = f
  BY DEF ShardOf
<1>6. ChangesPlace(S + n) <=> LeavesPlace(S)
  BY <1>4 DEF ChangesPlace, LeavesPlace
<1>7. Receives(S, n, f)
  BY <1>1, <1>2, <1>4, <1>5, <1>6 DEF ReceiveShard, Receives, Restarts, Collects, PassesOver
<1>8. incomplete' \subseteq 1 .. sent
  BY <1>1, SendTypes
<1>9. SenderTypes' /\ Began' = Began /\ Read' = Read + 1
  BY <1>1, <1>8, WireMoves DEF WireShrinks
<1> QED BY <1>1, <1>2, <1>3, <1>7, <1>9

LEMMA StillCollecting ==
    ASSUME NEW s, NEW count, NEW place, NEW shard, Collect(s, count, place, shard),
           count <= OriginalCount
    PROVE  /\ slots' = s /\ curcount' = count /\ curnum_recv' = place
           /\ delivered' = delivered /\ crashed' = crashed
BY DEF Collect

LEMMA GroupComplete ==
    ASSUME NEW s, NEW count, NEW place, NEW shard, Collect(s, count, place, shard),
           ~(count <= OriginalCount)
    PROVE  /\ slots' = NoShards /\ curcount' = 0 /\ curnum_recv' = NextGroup(place)
           /\ crashed' = (\E i \in Slot : s[i] = Junk)
           /\ delivered' =
                 IF NeedsMoreData(s) \/ (\E i \in Slot : s[i] = Junk) THEN delivered
                 ELSE Append(delivered, [frame |-> shard.frame, start |-> GroupOf(shard.num),
                                         whole |-> DecodesTo(s, shard.frame)])
BY DEF Collect

LEMMA CollectTypes ==
    ASSUME ReceiverTypes, NEW s \in [Slot -> Int], NEW count \in 1 .. OriginalCount + 1,
           NEW place \in Nat, NEW S \in Starts, NEW n \in Slot, NEW f \in Nat,
           Collect(s, count, place, ShardOf(S, n, f)),
           curnum_recv_drop' \in 0 .. OriginalCount + 1
    PROVE  ReceiverTypes'
<1>1. CASE count <= OriginalCount
  <2>1. /\ slots' = s /\ curcount' = count /\ curnum_recv' = place
        /\ delivered' = delivered /\ crashed' = crashed
    BY <1>1, StillCollecting
  <2> QED BY <1>1, <2>1, SizeFacts DEF ReceiverTypes
<1>2. CASE ~(count <= OriginalCount)
  <2> DEFINE shard == ShardOf(S, n, f)
             d == [frame |-> shard.frame, start |-> GroupOf(shard.num),
                   whole |-> DecodesTo(s, shard.frame)]
  <2>1. /\ slots' = NoShards /\ curcount' = 0 /\ curnum_recv' = NextGroup(place)
        /\ crashed' = (\E i \in Slot : s[i] = Junk)
        /\ (delivered' = delivered \/ delivered' = Append(delivered, d))
    BY <1>2, GroupComplete
  <2>2. d \in Handed
    <3>1. shard.frame = f /\ shard.num = S + n /\ GroupOf(S + n) = S /\ S \in Nat
      BY StartFacts DEF ShardOf
    <3>2. DecodesTo(s, shard.frame) \in BOOLEAN
      BY DEF DecodesTo
    <3> QED BY <3>1, <3>2 DEF Handed
  <2> HIDE DEF d
  <2>3. delivered' \in Seq(Handed)
    <3>1. delivered \in Seq(Handed)
      BY DEF ReceiverTypes
    <3> QED BY SMTT(40), <2>1, <2>2, <3>1
  <2>4. NextGroup(place) \in Nat /\ NoShards \in [Slot -> Int] /\ crashed' \in BOOLEAN
    BY <2>1, SizeFacts DEF NextGroup, NoShards, EmptySlot
  <2> QED BY <2>1, <2>3, <2>4, SizeFacts DEF ReceiverTypes
<1> QED BY <1>1, <1>2

\* Every datagram that is read leaves the receiver's types as they are.
LEMMA ReceiveTypes ==
    ASSUME ReceiverTypes, NEW S \in Starts, NEW n \in Slot, NEW f \in Nat \ {0},
           Receives(S, n, f)
    PROVE  ReceiverTypes'
<1>1. /\ slots \in [Slot -> Int] /\ curcount \in 0 .. OriginalCount /\ curnum_recv \in Nat
      /\ curnum_recv_drop \in 0 .. OriginalCount + 1 /\ delivered \in Seq(Handed)
      /\ crashed \in BOOLEAN
  BY DEF ReceiverTypes
<1>2. ASSUME Restarts(S, n, f) PROVE ReceiverTypes'
  <2>1. [NoShards EXCEPT ![n] = f] \in [Slot -> Int]
    BY DEF NoShards, EmptySlot
  <2>2. 1 \in 1 .. OriginalCount + 1 /\ S + GroupSize \in Nat
        /\ curnum_recv_drop' \in 0 .. OriginalCount + 1
    BY <1>2, SizeFacts DEF Restarts, Starts
  <2>3. Collect([NoShards EXCEPT ![n] = f], 1, S + GroupSize, ShardOf(S, n, f))
    BY <1>2 DEF Restarts
  <2> QED BY <2>1, <2>2, <2>3, CollectTypes
<1>3. ASSUME Collects(S, n, f) PROVE ReceiverTypes'
  <2>1. [slots EXCEPT ![n] = f] \in [Slot -> Int]
    BY <1>1
  <2>2. curcount + 1 \in 1 .. OriginalCount + 1 /\ curnum_recv_drop' \in 0 .. OriginalCount + 1
    BY <1>1, <1>3, SizeFacts DEF Collects
  <2>3. Collect([slots EXCEPT ![n] = f], curcount + 1, curnum_recv, ShardOf(S, n, f))
    BY <1>3 DEF Collects
  <2> QED BY <1>1, <2>1, <2>2, <2>3, CollectTypes
<1>4. ASSUME ~LeavesPlace(S), curnum_recv # S, PassesOver PROVE ReceiverTypes'
  <2>1. curnum_recv_drop <= OriginalCount
    BY <1>1, <1>4, SizeFacts DEF LeavesPlace
  <2>2. curnum_recv_drop' \in 0 .. OriginalCount + 1
    BY <1>1, <1>4, <2>1, SizeFacts DEF PassesOver
  <2> QED BY <1>1, <1>4, <2>2 DEF PassesOver, ReceiverTypes
<1> QED BY <1>2, <1>3, <1>4 DEF Receives

LEMMA FecTypesKept == FecSpec => []FecTypes
<1>1. FecInit => FecTypes
  <2> SUFFICES ASSUME FecInit PROVE FecTypes
    OBVIOUS
  <2>1. SenderTypes
    <3>1. MaxFrames \in Nat
      BY SizeFacts
    <3>2. Len(<<>>) = 0 /\ <<>> \in Seq(Datagram)
      OBVIOUS
    <3>3. wire = <<>> /\ sent = 0 /\ incomplete = {} /\ curnum_send \in Starts
      BY DEF FecInit, Starts
    <3> QED BY <3>1, <3>2, <3>3, SizeFacts DEF SenderTypes
  <2>2. ReceiverTypes
    <3>1. <<>> \in Seq(Handed) /\ [i \in Slot |-> Junk] \in [Slot -> Int] /\ NoShards \in [Slot -> Int]
      BY DEF Junk, NoShards, EmptySlot
    <3>2. curcount = 0 /\ curnum_recv = 0 /\ curnum_recv_drop = 0 /\ delivered = <<>>
          /\ crashed = FALSE /\ (slots = NoShards \/ slots = [i \in Slot |-> Junk])
      BY DEF FecInit
    <3>3. slots \in [Slot -> Int]
      BY <3>1, <3>2
    <3>4. curcount \in 0 .. OriginalCount /\ curnum_recv \in Nat
          /\ curnum_recv_drop \in 0 .. OriginalCount + 1
      BY <3>2, SizeFacts
    <3> QED BY <3>1, <3>2, <3>3, <3>4 DEF ReceiverTypes
  <2> QED BY <2>1, <2>2 DEF FecTypes
<1>2. FecTypes /\ [FecNext]_fecVars => FecTypes'
  <2> SUFFICES ASSUME FecTypes, [FecNext]_fecVars PROVE FecTypes'
    OBVIOUS
  <2>0. SenderTypes /\ ReceiverTypes
    BY DEF FecTypes
  <2>1. CASE SendGroup
    <3>1. SenderTypes' /\ recvVars' = recvVars
      BY <2>0, <2>1, GroupSent
    <3>2. ReceiverTypes'
      BY <2>0, <3>1 DEF recvVars, ReceiverTypes
    <3> QED BY <3>1, <3>2 DEF FecTypes
  <2>2. CASE LoseShard
    <3>1. wire # <<>> /\ WireShrinks /\ incomplete' = incomplete \cup {Head(wire).frame}
          /\ recvVars' = recvVars
      BY <2>2 DEF LoseShard, WireShrinks
    <3>2. incomplete' \subseteq 1 .. sent
      <4>1. Head(wire).frame = sent /\ sent > 0
        BY <2>0, <3>1, NextDatagram
      <4> QED BY <2>0, <3>1, <4>1, SendTypes
    <3>3. SenderTypes'
      BY <2>0, <3>1, <3>2, WireMoves
    <3>4. ReceiverTypes'
      BY <2>0, <3>1 DEF recvVars, ReceiverTypes
    <3> QED BY <3>3, <3>4 DEF FecTypes
  <2>3. CASE ReceiveShard
    <3>1. PICK S, n, f : S = Began /\ n = Read /\ f = sent
      OBVIOUS
    <3>2. S \in Starts /\ n \in Slot /\ f \in Nat \ {0} /\ Receives(S, n, f) /\ SenderTypes'
      BY <2>0, <2>3, <3>1, ReceivesNext
    <3>3. ReceiverTypes'
      BY <2>0, <3>2, ReceiveTypes
    <3> QED BY <3>2, <3>3 DEF FecTypes
  <2>4. CASE UNCHANGED fecVars
    BY <2>0, <2>4 DEF FecTypes, fecVars, recvVars, SenderTypes, ReceiverTypes, Began, Read
  <2> QED BY <2>1, <2>2, <2>3, <2>4 DEF FecNext
<1> QED BY <1>1, <1>2, PTL DEF FecSpec

\* All the originals of a frame are there: it is decoded from copies.
LEMMA OriginalsSuffice ==
    ASSUME NEW s \in [Slot -> Int], NEW f \in Nat \ {0},
           \A i \in Slot : i < OriginalCount => s[i] = f
    PROVE  ~NeedsMoreData(s) /\ DecodesTo(s, f)
<1> DEFINE missing == {i \in Slot : i < OriginalCount /\ s[i] = EmptySlot}
           spare == {i \in Slot : i >= OriginalCount /\ s[i] # EmptySlot}
<1>1. missing = {}
  BY DEF EmptySlot
<1>2. IsFiniteSet(Slot)
  <2>1. 0 \in Int /\ GroupSize - 1 \in Int
    BY SizeFacts
  <2> QED BY <2>1, FS_Interval DEF Slot
<1>3. spare \subseteq Slot
  OBVIOUS
<1>4. Cardinality(spare) \in Nat
  BY <1>2, <1>3, FS_Subset, FS_CardinalityType
<1>5. Cardinality(missing) = 0
  BY <1>1, FS_EmptySet
<1>6. ~(Cardinality(missing) > Cardinality(spare))
  BY <1>4, <1>5
<1>7. NeedsMoreData(s) <=> Cardinality(missing) > Cardinality(spare)
  BY DEF NeedsMoreData
<1>8. DecodesTo(s, f)
  BY <1>1 DEF DecodesTo
<1> QED BY <1>6, <1>7, <1>8

-----------------------------------------------------------------------------
(* A group the receiver waits for.                                         *)

NoJunk(s) == \A i \in Slot : s[i] # Junk

\* The receiver has read the first n shards of the group of frame f, which
\* starts with S and which it waited for; b bounds the shards passed over
\* before the group was decoded.  A shard left of the group before is counted.
Synced(S, n, f, b) ==
    /\ n < OriginalCount =>
          /\ curcount = n + 1 /\ curnum_recv = S /\ curnum_recv_drop <= b
          /\ NoJunk(slots) /\ \A i \in Slot : i < n => slots[i] = f
    /\ n = OriginalCount =>
          /\ curcount = 0 /\ curnum_recv = NextGroup(S) /\ curnum_recv_drop <= b
          /\ slots = NoShards
    /\ n > OriginalCount /\ (S < LastStart \/ b + RecoveryCount - 1 <= OriginalCount) =>
          /\ curcount = 1 /\ curnum_recv = NextGroup(S) /\ NoJunk(slots)
          /\ curnum_recv_drop <=
                n - OriginalCount - 1 + (IF S < LastStart THEN 0 ELSE b)

WholeFrame(S, f) == [frame |-> f, start |-> S, whole |-> TRUE]

LEMMA NextDiffers ==
    ASSUME NEW S \in Starts
    PROVE  NextGroup(S) # S /\ (S < LastStart => NextGroup(S) = S + GroupSize)
<1>1. CASE S < LastStart
  BY <1>1, StartFacts, SizeFacts
<1>2. CASE S = LastStart
  BY <1>2, StartFacts, SizeFacts
<1> QED BY <1>1, <1>2, StartFacts, SizeFacts

LEMMA SyncedEarly ==
    ASSUME ReceiverTypes, NEW S \in Starts, NEW n \in Slot, NEW f \in Nat \ {0}, NEW b \in Nat,
           Receives(S, n, f), Synced(S, n, f, b), S = 0 => b <= OriginalCount,
           n < OriginalCount
    PROVE  /\ crashed' = FALSE /\ Synced(S, n + 1, f, b)'
           /\ n + 1 < OriginalCount => delivered' = delivered
           /\ n + 1 = OriginalCount => delivered' = Append(delivered, WholeFrame(S, f))
<1>0. /\ slots \in [Slot -> Int] /\ curnum_recv_drop \in Nat /\ crashed = FALSE
      /\ n \in Nat /\ S \in Nat
  BY SizeFacts DEF ReceiverTypes, Receives, Slot, Starts
<1>1. /\ curcount = n + 1 /\ curnum_recv = S /\ curnum_recv_drop <= b
      /\ NoJunk(slots) /\ \A i \in Slot : i < n => slots[i] = f
  BY DEF Synced
<1>2. ~LeavesPlace(S)
  <2>1. curcount # 0
    BY <1>0, <1>1
  <2>2. S = 0 => ~(curnum_recv_drop > OriginalCount)
    BY <1>0, <1>1, SizeFacts
  <2> QED BY <1>1, <2>1, <2>2 DEF LeavesPlace
<1>3. Collects(S, n, f)
  BY <1>1, <1>2 DEF Receives
<1> DEFINE s == [slots EXCEPT ![n] = f]
<1>4. /\ s \in [Slot -> Int] /\ NoJunk(s) /\ \A i \in Slot : i < n + 1 => s[i] = f
  BY <1>0, <1>1 DEF NoJunk, Junk, Slot
<1>5. Collect(s, n + 2, S, ShardOf(S, n, f)) /\ curnum_recv_drop' = curnum_recv_drop
  <2>1. n + 1 + 1 = n + 2
    BY <1>0
  <2> QED BY <1>1, <1>3, <2>1 DEF Collects
<1> HIDE DEF s
<1>6. CASE n + 1 < OriginalCount
  <2>1. n + 2 <= OriginalCount
    BY <1>0, <1>6, SizeFacts
  <2>2. /\ slots' = s /\ curcount' = n + 2 /\ curnum_recv' = S
        /\ delivered' = delivered /\ crashed' = crashed
    BY <1>5, <2>1, StillCollecting
  <2>3. curcount' = (n + 1) + 1
    BY <1>0, <2>2
  <2>4. Synced(S, n + 1, f, b)'
    BY <1>0, <1>1, <1>4, <1>5, <1>6, <2>2, <2>3, SizeFacts DEF Synced, NoJunk
  <2> QED BY <1>0, <1>6, <2>2, <2>4
<1>7. CASE n + 1 = OriginalCount
  <2>1. ~(n + 2 <= OriginalCount)
    BY <1>0, <1>7, SizeFacts
  <2>2. ~(\E i \in Slot : s[i] = Junk)
    BY <1>4 DEF NoJunk
  <2>3. ~NeedsMoreData(s) /\ DecodesTo(s, f)
    BY <1>4, <1>7, OriginalsSuffice
  <2>4. ShardOf(S, n, f).frame = f /\ GroupOf(ShardOf(S, n, f).num) = S
    BY StartFacts DEF ShardOf
  <2>5. DecodesTo(s, f) = TRUE
    BY <2>3 DEF DecodesTo
  <2>6. /\ slots' = NoShards /\ curcount' = 0 /\ curnum_recv' = NextGroup(S)
        /\ crashed' = FALSE /\ delivered' = Append(delivered, WholeFrame(S, f))
    BY <1>5, <2>1, <2>2, <2>3, <2>4, <2>5, GroupComplete DEF WholeFrame
  <2>7. Synced(S, n + 1, f, b)'
    BY <1>0, <1>1, <1>5, <1>7, <2>6, SizeFacts DEF Synced
  <2> QED BY <1>0, <1>7, <2>6, <2>7
<1>8. n + 1 < OriginalCount \/ n + 1 = OriginalCount
  BY <1>0, SizeFacts
<1> QED BY <1>6, <1>7, <1>8

LEMMA SyncedDecoded ==
    ASSUME ReceiverTypes, NEW S \in Starts, NEW n \in Slot, NEW f \in Nat \ {0}, NEW b \in Nat,
           Receives(S, n, f), Synced(S, n, f, b), n = OriginalCount
    PROVE  crashed' = FALSE /\ Synced(S, n + 1, f, b)' /\ delivered' = delivered
<1>0. /\ slots \in [Slot -> Int] /\ curnum_recv_drop \in Nat /\ crashed = FALSE
      /\ n \in Nat /\ S \in Nat
  BY SizeFacts DEF ReceiverTypes, Receives, Slot, Starts
<1>1. /\ curcount = 0 /\ curnum_recv = NextGroup(S) /\ curnum_recv_drop <= b
      /\ slots = NoShards
  BY DEF Synced
<1>2. LeavesPlace(S)
  BY <1>1, NextDiffers DEF LeavesPlace
<1>3. NoJunk([NoShards EXCEPT ![n] = f])
  BY DEF NoJunk, NoShards, EmptySlot, Junk
<1>4. 1 <= OriginalCount /\ ~(n < OriginalCount) /\ n + 1 > OriginalCount /\ ~(n + 1 < OriginalCount)
      /\ n + 1 # OriginalCount /\ n + 1 - OriginalCount - 1 = 0
  BY <1>0, SizeFacts
<1>5. CASE S < LastStart
  <2>1. NextGroup(S) = S + GroupSize /\ ~(S + n > LastStart)
    <3>1. S + GroupSize <= LastStart
      BY <1>5, StartFacts DEF Starts
    <3> QED BY <1>0, <1>5, <3>1, NextDiffers, SizeFacts
  <2>2. Restarts(S, n, f)
    BY <1>2, <2>1 DEF Receives
  <2>3. /\ slots' = [NoShards EXCEPT ![n] = f] /\ curcount' = 1 /\ curnum_recv' = NextGroup(S)
        /\ delivered' = delivered /\ crashed' = crashed
    BY <1>4, <2>1, <2>2, StillCollecting DEF Restarts
  <2>4. curnum_recv_drop' = 0
    BY <2>2 DEF Restarts
  <2> QED BY <1>0, <1>3, <1>4, <1>5, <2>3, <2>4 DEF Synced
<1>6. CASE S = LastStart
  <2>1. S + n > LastStart
    BY <1>0, <1>6, SizeFacts
  <2>2. Collects(S, n, f)
    BY <1>2, <2>1, <1>0, SizeFacts DEF Receives, Restarts
  <2>3. Collect([NoShards EXCEPT ![n] = f], 1, curnum_recv, ShardOf(S, n, f))
    BY <1>1, <2>2 DEF Collects
  <2>4. /\ slots' = [NoShards EXCEPT ![n] = f] /\ curcount' = 1 /\ curnum_recv' = NextGroup(S)
        /\ delivered' = delivered /\ crashed' = crashed
    BY <1>1, <1>4, <2>3, StillCollecting
  <2>5. curnum_recv_drop' = curnum_recv_drop /\ curnum_recv_drop <= 0 + b
    BY <1>0, <1>1, <2>2 DEF Collects
  <2> QED BY <1>0, <1>3, <1>4, <1>6, <2>4, <2>5 DEF Synced
<1>7. S < LastStart \/ S = LastStart
  BY <1>0, SizeFacts DEF Starts
<1> QED BY <1>5, <1>6, <1>7

LEMMA SyncedLate ==
    ASSUME ReceiverTypes, NEW S \in Starts, NEW n \in Slot, NEW f \in Nat \ {0}, NEW b \in Nat,
           Receives(S, n, f), Synced(S, n, f, b), n > OriginalCount,
           S < LastStart \/ b + RecoveryCount - 1 <= OriginalCount
    PROVE  crashed' = FALSE /\ Synced(S, n + 1, f, b)' /\ delivered' = delivered
<1>0. /\ curnum_recv_drop \in Nat /\ crashed = FALSE /\ n \in Nat /\ S \in Nat
      /\ n < OriginalCount + RecoveryCount
  BY SizeFacts DEF ReceiverTypes, Receives, Slot, Starts
<1> DEFINE e == IF S < LastStart THEN 0 ELSE b
<1>1. /\ curcount = 1 /\ curnum_recv = NextGroup(S) /\ NoJunk(slots)
      /\ curnum_recv_drop <= n - OriginalCount - 1 + e
  BY DEF Synced
<1>2. e \in Nat /\ n - OriginalCount - 1 + e < OriginalCount
  <2>1. CASE S < LastStart
    BY <1>0, <2>1, SizeFacts
  <2>2. CASE ~(S < LastStart)
    BY <1>0, <2>2, SizeFacts
  <2> QED BY <2>1, <2>2
<1> HIDE DEF e
<1>3. ~LeavesPlace(S) /\ curnum_recv # S
  <2>1. ~(curnum_recv_drop > OriginalCount)
    BY <1>0, <1>1, <1>2, SizeFacts
  <2> QED BY <1>1, <2>1, NextDiffers DEF LeavesPlace
<1>4. PassesOver
  BY <1>3 DEF Receives
<1>5. /\ curcount' = 1 /\ curnum_recv' = NextGroup(S) /\ slots' = slots
      /\ delivered' = delivered /\ crashed' = crashed /\ curnum_recv_drop' = curnum_recv_drop + 1
  BY <1>1, <1>4 DEF PassesOver
<1>6. curnum_recv_drop + 1 <= (n + 1) - OriginalCount - 1 + e
  BY <1>0, <1>1, <1>2, SizeFacts
<1>7. ~(n + 1 < OriginalCount) /\ n + 1 # OriginalCount
  BY <1>0, SizeFacts
<1>8. curnum_recv_drop' <= (n + 1) - OriginalCount - 1 + (IF S < LastStart THEN 0 ELSE b)
  BY <1>5, <1>6 DEF e
<1>9. NoJunk(slots)'
  BY <1>1, <1>5 DEF NoJunk
<1>10. Synced(S, n + 1, f, b)'
  <2>1. curcount' = 1 /\ curnum_recv' = NextGroup(S)
    BY <1>5
  <2> QED BY <1>7, <1>8, <1>9, <2>1 DEF Synced
<1> QED BY <1>0, <1>5, <1>10

HandedOn(g) == \E j \in 1 .. Len(delivered) : delivered[j].frame = g

LEMMA HandedStays ==
    ASSUME ReceiverTypes, NEW S, NEW n, NEW f, Receives(S, n, f), NEW g, HandedOn(g)
    PROVE  HandedOn(g)'
<1>1. PICK j \in 1 .. Len(delivered) : delivered[j].frame = g
  BY DEF HandedOn
<1>2. delivered' = delivered \/ \E d : delivered' = Append(delivered, d)
  <2>1. ASSUME NEW s, NEW count, NEW place, NEW shard, Collect(s, count, place, shard)
        PROVE  delivered' = delivered \/ \E d : delivered' = Append(delivered, d)
    <3>1. CASE count <= OriginalCount
      BY <2>1, <3>1, StillCollecting
    <3>2. CASE ~(count <= OriginalCount)
      BY <2>1, <3>2, GroupComplete
    <3> QED BY <3>1, <3>2
  <2> QED BY <2>1 DEF Receives, Restarts, Collects, PassesOver
<1>3. ASSUME NEW d, delivered' = Append(delivered, d)
      PROVE  j \in 1 .. Len(delivered') /\ delivered'[j] = delivered[j]
  BY <1>3 DEF ReceiverTypes
<1> QED BY <1>1, <1>2, <1>3 DEF HandedOn

LEMMA SyncedStep ==
    ASSUME ReceiverTypes, NEW S \in Starts, NEW n \in Slot, NEW f \in Nat \ {0}, NEW b \in Nat,
           Receives(S, n, f), Synced(S, n, f, b), S = 0 => b <= OriginalCount
    PROVE  /\ Synced(S, n + 1, f, b)'
           /\ n + 1 = OriginalCount => HandedOn(f)'
<1>0. n \in Nat
  BY DEF Slot
<1>1. CASE n < OriginalCount
  <2>1. Synced(S, n + 1, f, b)'
    BY <1>1, SyncedEarly
  <2>2. ASSUME n + 1 = OriginalCount PROVE HandedOn(f)'
    <3>1. delivered' = Append(delivered, WholeFrame(S, f))
      BY <1>1, <2>2, SyncedEarly
    <3>2. delivered \in Seq(Handed)
      BY DEF ReceiverTypes
    <3>3. /\ Len(delivered) + 1 \in 1 .. Len(delivered')
          /\ delivered'[Len(delivered) + 1] = WholeFrame(S, f)
      BY <3>1, <3>2
    <3>4. WholeFrame(S, f).frame = f
      BY DEF WholeFrame
    <3> QED BY <3>3, <3>4 DEF HandedOn
  <2> QED BY <2>1, <2>2
<1>2. CASE n = OriginalCount
  <2>1. n + 1 # OriginalCount
    BY <1>0, <1>2
  <2> QED BY <1>2, <2>1, SyncedDecoded, Zenon
<1>3. CASE n > OriginalCount
  <2>1. n + 1 # OriginalCount /\ ~(n + 1 < OriginalCount)
    BY <1>0, <1>3, SizeFacts
  <2>2. CASE S < LastStart \/ b + RecoveryCount - 1 <= OriginalCount
    BY <1>3, <2>1, <2>2, SyncedLate
  <2>3. CASE ~(S < LastStart \/ b + RecoveryCount - 1 <= OriginalCount)
    BY <2>1, <2>3 DEF Synced
  <2> QED BY <2>2, <2>3
<1>4. n < OriginalCount \/ n = OriginalCount \/ n > OriginalCount
  BY <1>0, SizeFacts
<1> QED BY <1>1, <1>2, <1>3, <1>4

-----------------------------------------------------------------------------
(* How the receiver finds its place, whatever it was collecting.           *)

\* The first n shards of the group that starts with S have been read, all of them.
Found(S, n) ==
    \/ curnum_recv = S /\ curcount >= n
    \/ curnum_recv # S /\ curnum_recv_drop >= n
    \/ curnum_recv = S + GroupSize /\ curcount = 1 /\ NoJunk(slots)
    \/ curnum_recv = S + GroupSize /\ curcount = 0 /\ n <= OriginalCount + 1

LEMMA FoundStep ==
    ASSUME ReceiverTypes, NEW S \in Starts, NEW n \in Slot, NEW f \in Nat \ {0},
           Receives(S, n, f), Found(S, n), S < LastStart
    PROVE  Found(S, n + 1)'
<1>0. /\ curcount \in 0 .. OriginalCount /\ curnum_recv_drop \in Nat
      /\ n \in Nat /\ S \in Nat /\ S + GroupSize # S /\ n < GroupSize
      /\ 1 <= OriginalCount /\ OriginalCount \in Nat
  BY SizeFacts DEF ReceiverTypes, Slot, Starts
<1>1. NextGroup(S) = S + GroupSize /\ S + GroupSize <= LastStart
  BY StartFacts DEF Starts
<1>2. CASE Restarts(S, n, f)
  <2>1. slots' = [NoShards EXCEPT ![n] = f] /\ curcount' = 1 /\ curnum_recv' = S + GroupSize
    BY <1>0, <1>2, StillCollecting DEF Restarts
  <2>2. NoJunk(slots)'
    BY <2>1 DEF NoJunk, NoShards, EmptySlot, Junk
  <2> QED BY <2>1, <2>2 DEF Found
<1>3. ~(S + n > LastStart)
  BY <1>0, <1>1, SizeFacts
<1>4. CASE ~LeavesPlace(S) /\ curnum_recv # S /\ PassesOver
  <2>1. /\ slots' = slots /\ curcount' = curcount /\ curnum_recv' = curnum_recv
        /\ curnum_recv_drop' = curnum_recv_drop + 1
    BY <1>4 DEF PassesOver
  <2>2. CASE curnum_recv_drop >= n
    <3>1. curnum_recv_drop' >= n + 1
      BY <1>0, <2>1, <2>2
    <3> QED BY <1>4, <2>1, <3>1 DEF Found
  <2>3. CASE curnum_recv = S + GroupSize /\ curcount = 1 /\ NoJunk(slots)
    BY <2>1, <2>3 DEF Found, NoJunk
  <2>4. curcount # 0
    BY <1>4 DEF LeavesPlace
  <2> QED BY <1>4, <2>2, <2>3, <2>4 DEF Found
<1>5. CASE curnum_recv = S /\ Collects(S, n, f)
  <2>1. curcount >= n
    BY <1>0, <1>5 DEF Found
  <2>2. Collect([slots EXCEPT ![n] = f], curcount + 1, S, ShardOf(S, n, f))
    BY <1>5 DEF Collects
  <2>3. CASE curcount + 1 <= OriginalCount
    <3>1. curcount' = curcount + 1 /\ curnum_recv' = S
      BY <2>2, <2>3, StillCollecting
    <3>2. curcount + 1 >= n + 1
      BY <1>0, <2>1
    <3> QED BY <3>1, <3>2 DEF Found
  <2>4. CASE ~(curcount + 1 <= OriginalCount)
    <3>1. curcount' = 0 /\ curnum_recv' = S + GroupSize
      BY <1>1, <2>2, <2>4, GroupComplete
    <3>2. n + 1 <= OriginalCount + 1
      BY <1>0, <2>1
    <3> QED BY <3>1, <3>2 DEF Found
  <2> QED BY <2>3, <2>4
<1> QED BY <1>2, <1>3, <1>4, <1>5 DEF Receives

LEMMA PlaceFound ==
    ASSUME ReceiverTypes, NEW S \in Starts, S < LastStart, Found(S, GroupSize)
    PROVE  curnum_recv = NextGroup(S) /\ curcount = 1 /\ NoJunk(slots)
<1>1. /\ curcount \in Nat /\ curcount <= OriginalCount
      /\ curnum_recv_drop \in Nat /\ curnum_recv_drop <= OriginalCount + 1
  BY SizeFacts DEF ReceiverTypes
<1>2. ~(curcount >= GroupSize) /\ ~(curnum_recv_drop >= GroupSize)
      /\ ~(GroupSize <= OriginalCount + 1)
  BY <1>1, SizeFacts
<1>3. NextGroup(S) = S + GroupSize
  BY StartFacts
<1> QED BY <1>2, <1>3 DEF Found

-----------------------------------------------------------------------------
(* The receiver recovers.                                                  *)

\* The last k frames up to f have lost nothing so far.
InRow(k, f) == k <= f /\ (f - k + 1 .. f) \cap incomplete = {}

\* What is known when the n first datagrams of the group of frame f, which
\* starts with S, have left the wire: a complete group lets the receiver find
\* its place unless it is the one at the end of the numbers, the next is decoded
\* if it is not the first, and one that went well before the end of the numbers
\* leaves few enough shards passed over to cross it.
Recovering(S, n, f) ==
    /\ InRow(1, f) /\ S < LastStart => Found(S, n)
    /\ InRow(2, f) /\ S > 0 => Synced(S, n, f, OriginalCount + 1)
    /\ InRow(3, f) /\ S = LastStart => Synced(S, n, f, RecoveryCount - 1)
    /\ InRow(4, f) /\ S = 0 => Synced(S, n, f, 2 * (RecoveryCount - 1))
    /\ InRow(4, f) /\ n >= OriginalCount => HandedOn(f)
    /\ \A g \in 4 .. f - 1 : InRow(4, g) => HandedOn(g)

RecoveryInv == ~crashed => Recovering(Began, Read, sent)

LEMMA RowShorter ==
    ASSUME NEW f \in Nat, NEW k \in Nat, NEW j \in Nat, j <= k, InRow(k, f)
    PROVE  InRow(j, f)
<1>1. (f - j + 1 .. f) \subseteq (f - k + 1 .. f)
  OBVIOUS
<1> QED BY <1>1 DEF InRow

LEMMA RowBefore ==
    ASSUME NEW f \in Nat, NEW k \in Nat, InRow(k + 1, f + 1)
    PROVE  InRow(k, f)
<1>1. (f - k + 1 .. f) \subseteq ((f + 1) - (k + 1) + 1 .. f + 1)
  OBVIOUS
<1> QED BY <1>1 DEF InRow

\* The next group begins.
LEMMA RecoveringNext ==
    ASSUME ReceiverTypes, NEW S \in Starts, NEW f \in Nat, Recovering(S, GroupSize, f)
    PROVE  Recovering(NextGroup(S), 0, f + 1)
<1> DEFINE T == NextGroup(S)
           h == f + 1
<1>0. /\ S \in Nat /\ S <= LastStart /\ T \in Nat /\ h \in Nat
      /\ S < LastStart => T = S + GroupSize
      /\ S = LastStart => T = 0
      /\ curcount >= 0 /\ curnum_recv_drop >= 0
      /\ T \in Starts /\ GroupSize > OriginalCount
      /\ ~(GroupSize < OriginalCount) /\ GroupSize # OriginalCount
  BY StartFacts, SizeFacts DEF ReceiverTypes, Starts
<1> HIDE DEF T
<1>1. Found(T, 0)
  BY <1>0 DEF Found
<1>2. ASSUME InRow(2, h), T > 0 PROVE Synced(T, 0, h, OriginalCount + 1)
  <2>1. S < LastStart
    BY <1>0, <1>2, SizeFacts
  <2>2. InRow(1, f)
    BY <1>2, RowBefore
  <2>3. Found(S, GroupSize)
    BY <2>1, <2>2 DEF Recovering
  <2>4. curnum_recv = T /\ curcount = 1 /\ NoJunk(slots)
    BY <2>1, <2>3, PlaceFound DEF T
  <2>5. curnum_recv_drop <= OriginalCount + 1
    BY SizeFacts DEF ReceiverTypes
  <2> QED BY <2>4, <2>5, SizeFacts DEF Synced, Slot
<1>3. ASSUME InRow(3, h), T = LastStart
      PROVE  Synced(T, 0, h, RecoveryCount - 1)
  <2>1. S < LastStart /\ S > 0
    BY <1>0, <1>3, SizeFacts
  <2>2. InRow(2, f)
    BY <1>3, RowBefore
  <2>3. Synced(S, GroupSize, f, OriginalCount + 1)
    BY <2>1, <2>2 DEF Recovering
  <2>4. curnum_recv = T /\ curcount = 1 /\ NoJunk(slots)
        /\ curnum_recv_drop <= GroupSize - OriginalCount - 1 + 0
    BY <1>0, <2>1, <2>3 DEF Synced, T
  <2>5. curnum_recv_drop <= RecoveryCount - 1
    BY <2>4, SizeFacts DEF ReceiverTypes
  <2> QED BY <2>4, <2>5, SizeFacts DEF Synced, Slot
<1>4. ASSUME InRow(4, h), T = 0 PROVE Synced(T, 0, h, 2 * (RecoveryCount - 1))
  <2>1. S = LastStart
    BY <1>0, <1>4, SizeFacts
  <2>2. InRow(3, f)
    BY <1>4, RowBefore
  <2>3. Synced(S, GroupSize, f, RecoveryCount - 1)
    BY <2>1, <2>2 DEF Recovering
  <2>4. (RecoveryCount - 1) + RecoveryCount - 1 <= OriginalCount /\ ~(S < LastStart)
    BY <2>1, SizeFacts
  <2>5. curnum_recv = T /\ curcount = 1 /\ NoJunk(slots)
        /\ curnum_recv_drop <= GroupSize - OriginalCount - 1 + (RecoveryCount - 1)
    BY <1>0, <2>3, <2>4 DEF Synced, T
  <2>6. curnum_recv_drop <= 2 * (RecoveryCount - 1)
    BY <2>5, SizeFacts DEF ReceiverTypes
  <2> QED BY <2>5, <2>6, SizeFacts DEF Synced, Slot
<1>5. ~(0 >= OriginalCount)
  BY SizeFacts
<1>6. ASSUME NEW g \in 4 .. h - 1, InRow(4, g) PROVE HandedOn(g)
  <2>1. g = f \/ g \in 4 .. f - 1
    BY <1>0
  <2>2. GroupSize >= OriginalCount
    BY SizeFacts
  <2> QED BY <1>6, <2>1, <2>2 DEF Recovering
<1> QED BY <1>1, <1>2, <1>3, <1>4, <1>5, <1>6 DEF Recovering, T

LEMMA RecoveringStep ==
    ASSUME ReceiverTypes, NEW S \in Starts, NEW n \in Slot, NEW f \in Nat \ {0},
           Receives(S, n, f), incomplete' = incomplete, Recovering(S, n, f)
    PROVE  Recovering(S, n + 1, f)'
<1>0. n \in Nat /\ S \in Nat /\ S <= LastStart
  BY DEF Slot, Starts
<1>1. \A k, g : InRow(k, g) <=> InRow(k, g)'
  BY DEF InRow
<1>2. ASSUME InRow(1, f), S < LastStart PROVE Found(S, n + 1)'
  BY <1>2, FoundStep DEF Recovering
<1>3. ASSUME InRow(2, f), S > 0
      PROVE  /\ Synced(S, n + 1, f, OriginalCount + 1)'
             /\ n + 1 = OriginalCount => HandedOn(f)'
  <2>1. OriginalCount + 1 \in Nat /\ S # 0
    BY <1>0, <1>3, SizeFacts
  <2>2. Synced(S, n, f, OriginalCount + 1)
    BY <1>3 DEF Recovering
  <2> QED BY <2>1, <2>2, SyncedStep
<1>4. ASSUME InRow(3, f), S = LastStart
      PROVE  Synced(S, n + 1, f, RecoveryCount - 1)'
  <2>1. RecoveryCount - 1 \in Nat /\ S # 0
    BY <1>0, <1>4, SizeFacts
  <2>2. Synced(S, n, f, RecoveryCount - 1)
    BY <1>4 DEF Recovering
  <2> QED BY <2>1, <2>2, SyncedStep
<1>5. ASSUME InRow(4, f), S = 0
      PROVE  /\ Synced(S, n + 1, f, 2 * (RecoveryCount - 1))'
             /\ n + 1 = OriginalCount => HandedOn(f)'
  <2>1. 2 * (RecoveryCount - 1) \in Nat /\ 2 * (RecoveryCount - 1) <= OriginalCount
    BY SizeFacts
  <2>2. Synced(S, n, f, 2 * (RecoveryCount - 1))
    BY <1>5 DEF Recovering
  <2> QED BY <1>5, <2>1, <2>2, SyncedStep
<1>6. ASSUME InRow(4, f), n + 1 >= OriginalCount PROVE HandedOn(f)'
  <2>1. CASE n + 1 = OriginalCount
    <3>1. InRow(2, f)
      BY <1>6, RowShorter
    <3>2. S = 0 \/ S > 0
      BY <1>0
    <3> QED BY <1>3, <1>5, <1>6, <2>1, <3>1, <3>2
  <2>2. CASE n >= OriginalCount
    <3>1. HandedOn(f)
      BY <1>6, <2>2 DEF Recovering
    <3> QED BY <3>1, HandedStays
  <2>3. n + 1 = OriginalCount \/ n >= OriginalCount
    BY <1>0, <1>6, SizeFacts
  <2> QED BY <2>1, <2>2, <2>3
<1>7. ASSUME NEW g \in 4 .. f - 1, InRow(4, g) PROVE HandedOn(g)'
  <2>1. HandedOn(g)
    BY <1>7 DEF Recovering
  <2> QED BY <2>1, HandedStays
<1> QED BY <1>1, <1>2, <1>3, <1>4, <1>5, <1>6, <1>7 DEF Recovering

LEMMA RecoveringSame ==
    ASSUME NEW S, NEW n, NEW f, Recovering(S, n, f), incomplete' = incomplete,
           recvVars' = recvVars
    PROVE  Recovering(S, n, f)'
<1>1. /\ slots' = slots /\ curcount' = curcount /\ curnum_recv' = curnum_recv
      /\ curnum_recv_drop' = curnum_recv_drop /\ delivered' = delivered
  BY DEF recvVars
<1>2. /\ \A k, g : InRow(k, g) <=> InRow(k, g)'
      /\ \A m : Found(S, m) <=> Found(S, m)'
      /\ \A b : Synced(S, n, f, b) <=> Synced(S, n, f, b)'
      /\ \A g : HandedOn(g) <=> HandedOn(g)'
  BY <1>1 DEF InRow, Found, Synced, HandedOn, NoJunk
<1> QED BY <1>2 DEF Recovering

LEMMA RecoveryStarts == FecInit => RecoveryInv
<1> SUFFICES ASSUME FecInit PROVE Recovering(Began, Read, sent)
  BY DEF RecoveryInv
<1>1. sent = 0
  BY DEF FecInit
<1>2. \A k \in 1 .. 4 : ~InRow(k, sent)
  BY <1>1 DEF InRow
<1>3. \A g \in 4 .. sent - 1 : FALSE
  BY <1>1
<1> QED BY <1>2, <1>3 DEF Recovering

LEMMA RecoveryStep ==
    ASSUME FecTypes, RecoveryInv, [FecNext]_fecVars
    PROVE  RecoveryInv'
<1> SUFFICES ASSUME ~crashed' PROVE Recovering(Began, Read, sent)'
  BY DEF RecoveryInv
<1>0. SenderTypes /\ ReceiverTypes
  BY DEF FecTypes
<1>1. CASE SendGroup
  <2>1. PICK S, f : S = Began /\ f = sent
    OBVIOUS
  <2>2. /\ Began' = NextGroup(S) /\ Read' = 0 /\ sent' = f + 1
        /\ wire = <<>> /\ incomplete' = incomplete /\ recvVars' = recvVars
    BY <1>0, <1>1, <2>1, GroupSent
  <2>3. S \in Starts /\ f \in Nat /\ Read = GroupSize
    BY <1>0, <2>1, <2>2, SendTypes
  <2>4. Recovering(S, GroupSize, f)
    <3>1. crashed' = crashed
      BY <2>2 DEF recvVars
    <3> QED BY <2>1, <2>3, <3>1 DEF RecoveryInv
  <2>5. Recovering(NextGroup(S), 0, f + 1)
    BY <1>0, <2>2, <2>3, <2>4, RecoveringNext
  <2>6. PICK T, h : T = NextGroup(S) /\ h = f + 1
    OBVIOUS
  <2>7. Recovering(T, 0, h)'
    BY <2>2, <2>5, <2>6, RecoveringSame
  <2> QED BY <2>2, <2>6, <2>7
<1>2. CASE LoseShard
  <2>1. PICK S, n, f : S = Began /\ n = Read /\ f = sent
    OBVIOUS
  <2>2. /\ wire # <<>> /\ WireShrinks /\ recvVars' = recvVars
        /\ incomplete' = incomplete \cup {Head(wire).frame}
    BY <1>2 DEF LoseShard, WireShrinks
  <2>3. Head(wire).frame = f /\ f \in Nat /\ incomplete \subseteq 1 .. f /\ f > 0
    BY <1>0, <2>1, <2>2, NextDatagram, SendTypes
  <2>4. Began' = S /\ Read' = n + 1 /\ sent' = f
    <3>1. incomplete' \subseteq 1 .. sent
      <4>1. f \in 1 .. f /\ incomplete' = incomplete \cup {f}
        BY <2>2, <2>3
      <4> QED BY <2>1, <2>3, <4>1
    <3> QED BY <1>0, <2>1, <2>2, <3>1, WireMoves DEF WireShrinks
  <2>5. Recovering(S, n, f)
    <3>1. crashed' = crashed
      BY <2>2 DEF recvVars
    <3> QED BY <2>1, <3>1 DEF RecoveryInv
  <2>6. \A k \in 1 .. 4 : ~InRow(k, f)'
    <3>1. f \in incomplete'
      BY <2>2, <2>3
    <3>2. \A k \in 1 .. 4 : f \in f - k + 1 .. f
      BY <2>3
    <3> QED BY <3>1, <3>2 DEF InRow
  <2>7. ASSUME NEW g \in 4 .. f - 1, InRow(4, g)' PROVE HandedOn(g)'
    <3>1. InRow(4, g)
      BY <2>2, <2>7 DEF InRow
    <3>2. HandedOn(g)
      BY <2>5, <2>7, <3>1 DEF Recovering
    <3>3. delivered' = delivered
      BY <2>2 DEF recvVars
    <3> QED BY <3>2, <3>3 DEF HandedOn
  <2>8. Recovering(S, n + 1, f)'
    BY <2>6, <2>7 DEF Recovering
  <2> QED BY <2>4, <2>8
<1>3. CASE ReceiveShard
  <2>1. PICK S, n, f : S = Began /\ n = Read /\ f = sent
    OBVIOUS
  <2>2. /\ S \in Starts /\ n \in Slot /\ f \in Nat \ {0} /\ Receives(S, n, f)
        /\ Began' = S /\ Read' = n + 1 /\ sent' = f /\ incomplete' = incomplete
    BY <1>0, <1>3, <2>1, ReceivesNext
  <2>3. Recovering(S, n, f)
    <3>1. ~crashed
      BY <2>2 DEF Receives
    <3> QED BY <2>1, <3>1 DEF RecoveryInv
  <2>4. Recovering(S, n + 1, f)'
    BY <1>0, <2>2, <2>3, RecoveringStep
  <2> QED BY <2>2, <2>4
<1>4. CASE UNCHANGED fecVars
  <2>1. PICK S, n, f : S = Began /\ n = Read /\ f = sent
    OBVIOUS
  <2>2. Began' = S /\ Read' = n /\ sent' = f /\ incomplete' = incomplete /\ recvVars' = recvVars
    BY <1>4, <2>1 DEF fecVars, Began, Read
  <2>3. Recovering(S, n, f)
    <3>1. crashed' = crashed
      BY <2>2 DEF recvVars
    <3> QED BY <2>1, <3>1 DEF RecoveryInv
  <2>4. Recovering(S, n, f)'
    BY <2>2, <2>3, RecoveringSame
  <2> QED BY <2>2, <2>4
<1> QED BY <1>1, <1>2, <1>3, <1>4 DEF FecNext

\* Whatever was lost before, the fourth of four frames whose shards all arrive
\* is delivered: RecoversInFourFrames, for every number of shards and every
\* number of groups.  It is what the repetition of a group number and the count
\* of the shards passed over are for.
THEOREM RecoveryHolds == FecSpec => []RecoversInFourFrames
<1>1. FecTypes /\ RecoveryInv => RecoversInFourFrames
  <2> SUFFICES ASSUME FecTypes, RecoveryInv, ~crashed, wire = <<>>,
                      NEW f \in 4 .. sent, (f - 3 .. f) \cap incomplete = {}
               PROVE  \E j \in 1 .. Len(delivered) : delivered[j].frame = f
    BY DEF RecoversInFourFrames
  <2>1. SenderTypes /\ Recovering(Began, Read, sent)
    BY DEF FecTypes, RecoveryInv
  <2>2. Read = GroupSize /\ sent \in Nat
    BY <2>1, SendTypes
  <2>3. InRow(4, f) /\ Read >= OriginalCount
    <3>1. f - 4 + 1 = f - 3 /\ 4 <= f
      OBVIOUS
    <3> QED BY <2>2, <3>1, SizeFacts DEF InRow
  <2>4. f = sent \/ f \in 4 .. sent - 1
    BY <2>2
  <2>5. HandedOn(f)
    BY <2>1, <2>3, <2>4 DEF Recovering
  <2> QED BY <2>5 DEF HandedOn
<1>2. FecSpec => []RecoveryInv
  <2>1. FecInit => RecoveryInv
    BY RecoveryStarts
  <2>2. FecTypes /\ RecoveryInv /\ [FecNext]_fecVars => RecoveryInv'
    BY RecoveryStep
  <2> QED BY <2>1, <2>2, FecTypesKept, PTL DEF FecSpec
<1> QED BY <1>1, <1>2, FecTypesKept, PTL

-----------------------------------------------------------------------------
(* Without loss.                                                           *)

\* The receiver has no place yet: it goes on to the group after the one it sees,
\* counts what is left of this one, and goes on again when there is too much of
\* it, or collects it where the numbers end.
Searching(S, n) ==
    /\ delivered = <<>>
    /\ n = 0 => LeavesPlace(S)
    /\ n > 0 => curnum_recv = S + GroupSize /\ NoJunk(slots)
    /\ n > 0 /\ n <= OriginalCount + 2 => curcount = 1 /\ curnum_recv_drop = n - 1
    /\ n > OriginalCount + 2 /\ S < LastStart
          => curcount = 1 /\ curnum_recv_drop = n - OriginalCount - 3
    /\ n > OriginalCount + 2 /\ S = LastStart
          => curcount = n - OriginalCount - 1 /\ curnum_recv_drop = OriginalCount + 1

LEMMA SearchStep ==
    ASSUME ReceiverTypes, NEW S \in Starts, NEW n \in Slot, NEW f \in Nat \ {0},
           Receives(S, n, f), Searching(S, n)
    PROVE  Searching(S, n + 1)'
<1>0. /\ n \in Nat /\ S \in Nat /\ S <= LastStart /\ n < OriginalCount + RecoveryCount
      /\ slots \in [Slot -> Int] /\ curnum_recv_drop \in Nat /\ S + GroupSize # S
      /\ n + 1 # 0 /\ n + 1 > 0 /\ 1 <= OriginalCount
  BY SizeFacts DEF ReceiverTypes, Slot, Starts
<1>1. delivered = <<>>
  BY DEF Searching
<1>2. S < LastStart => ~(S + n > LastStart)
  BY <1>0, StartFacts, SizeFacts DEF Starts
<1>3. ASSUME Restarts(S, n, f)
      PROVE  /\ curcount' = 1 /\ curnum_recv' = S + GroupSize /\ curnum_recv_drop' = 0
             /\ delivered' = <<>> /\ NoJunk(slots)'
  <2>1. /\ slots' = [NoShards EXCEPT ![n] = f] /\ curcount' = 1 /\ curnum_recv' = S + GroupSize
        /\ delivered' = delivered /\ curnum_recv_drop' = 0
    BY <1>0, <1>3, StillCollecting DEF Restarts
  <2>2. NoJunk(slots)'
    BY <2>1 DEF NoJunk, NoShards, EmptySlot, Junk
  <2> QED BY <1>1, <2>1, <2>2
<1>4. ASSUME Collects(S, n, f), NoJunk(slots), curcount + 1 <= OriginalCount
      PROVE  /\ curcount' = curcount + 1 /\ curnum_recv' = curnum_recv
             /\ curnum_recv_drop' = curnum_recv_drop /\ delivered' = <<>> /\ NoJunk(slots)'
  <2>1. /\ slots' = [slots EXCEPT ![n] = f] /\ curcount' = curcount + 1
        /\ curnum_recv' = curnum_recv /\ delivered' = delivered
        /\ curnum_recv_drop' = curnum_recv_drop
    BY <1>4, StillCollecting DEF Collects
  <2>2. NoJunk(slots)'
    BY <1>0, <1>4, <2>1 DEF NoJunk, Junk
  <2> QED BY <1>1, <2>1, <2>2
<1>5. CASE n = 0
  <2>1. LeavesPlace(S) /\ ~(S + n > LastStart)
    BY <1>0, <1>5, SizeFacts DEF Searching
  <2>2. Restarts(S, n, f)
    BY <2>1 DEF Receives
  <2>3. n + 1 <= OriginalCount + 2 /\ 0 = n + 1 - 1 /\ ~(n + 1 > OriginalCount + 2)
    BY <1>0, <1>5, SizeFacts
  <2> QED BY <1>0, <1>3, <2>2, <2>3 DEF Searching
<1>6. CASE n > 0 /\ n <= OriginalCount + 1
  <2>1. /\ curnum_recv = S + GroupSize /\ NoJunk(slots)
        /\ curcount = 1 /\ curnum_recv_drop = n - 1
    BY <1>0, <1>6, SizeFacts DEF Searching
  <2>2. ~LeavesPlace(S)
    BY <1>0, <1>6, <2>1, SizeFacts DEF LeavesPlace
  <2>3. PassesOver
    BY <1>0, <2>1, <2>2 DEF Receives
  <2>4. /\ curcount' = 1 /\ curnum_recv' = S + GroupSize /\ curnum_recv_drop' = n - 1 + 1
        /\ delivered' = <<>> /\ slots' = slots
    BY <1>1, <2>1, <2>3 DEF PassesOver
  <2>5. NoJunk(slots)'
    BY <2>1, <2>4 DEF NoJunk
  <2>6. n + 1 <= OriginalCount + 2 /\ n - 1 + 1 = (n + 1) - 1 /\ ~(n + 1 > OriginalCount + 2)
    BY <1>0, <1>6, SizeFacts
  <2> QED BY <1>0, <2>4, <2>5, <2>6 DEF Searching
<1>7. CASE n >= OriginalCount + 2 /\ S = LastStart
  <2>1. /\ curnum_recv = S + GroupSize /\ NoJunk(slots)
        /\ curcount = n - OriginalCount - 1 /\ curnum_recv_drop = OriginalCount + 1
    BY <1>0, <1>7, SizeFacts DEF Searching
  <2>2. LeavesPlace(S)
    BY <1>0, <2>1, SizeFacts DEF LeavesPlace
  <2>3. S + n > LastStart
    BY <1>0, <1>7, SizeFacts
  <2>4. Collects(S, n, f)
    BY <1>0, <2>2, <2>3, SizeFacts DEF Receives, Restarts
  <2>5. curcount + 1 = (n + 1) - OriginalCount - 1 /\ curcount + 1 <= OriginalCount
        /\ n + 1 > OriginalCount + 2 /\ ~(n + 1 <= OriginalCount + 2)
    BY <1>0, <1>7, <2>1, SizeFacts
  <2>6. /\ curcount' = curcount + 1 /\ curnum_recv' = curnum_recv
        /\ curnum_recv_drop' = curnum_recv_drop /\ delivered' = <<>> /\ NoJunk(slots)'
    BY <1>4, <2>1, <2>4, <2>5
  <2> QED BY <1>0, <1>7, <2>1, <2>5, <2>6 DEF Searching
<1>8. CASE n = OriginalCount + 2 /\ S < LastStart
  <2>1. curnum_recv = S + GroupSize /\ curnum_recv_drop = OriginalCount + 1
    BY <1>0, <1>8, SizeFacts DEF Searching
  <2>2. LeavesPlace(S)
    BY <1>0, <2>1, SizeFacts DEF LeavesPlace
  <2>3. Restarts(S, n, f)
    BY <1>2, <1>8, <2>2 DEF Receives
  <2>4. /\ 0 = (n + 1) - OriginalCount - 3 /\ n + 1 > OriginalCount + 2
        /\ ~(n + 1 <= OriginalCount + 2) /\ S # LastStart
    BY <1>0, <1>8, SizeFacts
  <2> QED BY <1>0, <1>3, <2>3, <2>4 DEF Searching
<1>9. CASE n > OriginalCount + 2 /\ S < LastStart
  <2>1. /\ curnum_recv = S + GroupSize /\ NoJunk(slots)
        /\ curcount = 1 /\ curnum_recv_drop = n - OriginalCount - 3
    BY <1>0, <1>9, SizeFacts DEF Searching
  <2>2. ~LeavesPlace(S)
    BY <1>0, <1>9, <2>1, SizeFacts DEF LeavesPlace
  <2>3. PassesOver
    BY <1>0, <2>1, <2>2 DEF Receives
  <2>4. /\ curcount' = 1 /\ curnum_recv' = S + GroupSize
        /\ curnum_recv_drop' = curnum_recv_drop + 1 /\ delivered' = <<>> /\ slots' = slots
    BY <1>1, <2>1, <2>3 DEF PassesOver
  <2>5. NoJunk(slots)'
    BY <2>1, <2>4 DEF NoJunk
  <2>6. curnum_recv_drop + 1 = (n + 1) - OriginalCount - 3 /\ n + 1 > OriginalCount + 2
        /\ ~(n + 1 <= OriginalCount + 2) /\ S # LastStart
    BY <1>0, <1>9, <2>1, SizeFacts
  <2> QED BY <1>0, <2>4, <2>5, <2>6 DEF Searching
<1> QED BY <1>0, <1>5, <1>6, <1>7, <1>8, <1>9, SizeFacts

\* Every frame after the first few has been handed on, up to frame m.
AllDelivered(skip, m) ==
    /\ Len(delivered) = m - skip
    /\ \A j \in 1 .. Len(delivered) : delivered[j].frame = j + skip /\ delivered[j].whole

Passed(S) == IF S = 0 THEN 2 * (RecoveryCount - 1) ELSE RecoveryCount - 1

Intact(S, n, f) ==
    \/ f = 0 /\ curcount = 0 /\ curnum_recv = 0 /\ delivered = <<>>
    \/ f = 1 /\ Searching(S, n)
    \/ f = 2 /\ S = 0 /\ Searching(S, n)
    \/ \E skip \in {1, 2} :
          /\ skip < f /\ Synced(S, n, f, Passed(S))
          /\ AllDelivered(skip, IF n < OriginalCount THEN f - 1 ELSE f)

NothingLostInv == ~crashed /\ incomplete = {} => Intact(Began, Read, sent)

LEMMA SearchEnds ==
    ASSUME ReceiverTypes, NEW S \in Starts, NEW f \in {1, 2}, S < LastStart,
           Searching(S, GroupSize)
    PROVE  Intact(NextGroup(S), 0, f + 1)
<1>1. GroupSize > OriginalCount + 2 /\ S \in Nat
  BY SizeFacts DEF Starts
<1>2. NextGroup(S) = S + GroupSize /\ S + GroupSize # 0
  BY <1>1, StartFacts, SizeFacts
<1>3. /\ curnum_recv = NextGroup(S) /\ NoJunk(slots) /\ curcount = 1
      /\ curnum_recv_drop = GroupSize - OriginalCount - 3 /\ delivered = <<>>
  BY <1>1, <1>2, SizeFacts DEF Searching
<1>4. Passed(NextGroup(S)) = RecoveryCount - 1
  BY <1>2 DEF Passed
<1>5. curnum_recv_drop <= RecoveryCount - 1
  BY <1>3, SizeFacts
<1>6. Synced(NextGroup(S), 0, f + 1, RecoveryCount - 1)
  BY <1>3, <1>5, SizeFacts DEF Synced, Slot
<1>7. AllDelivered(f, f)
  <2>1. Len(<<>>) = 0 /\ f - f = 0
    OBVIOUS
  <2> QED BY <1>3, <2>1 DEF AllDelivered
<1>8. f \in {1, 2} /\ f < f + 1 /\ 0 < OriginalCount /\ (f + 1) - 1 = f
  BY <1>1, SizeFacts
<1>9. AllDelivered(f, IF 0 < OriginalCount THEN (f + 1) - 1 ELSE f + 1)
  BY <1>7, <1>8
<1> QED BY <1>4, <1>6, <1>8, <1>9 DEF Intact

LEMMA IntactNext ==
    ASSUME ReceiverTypes, NEW S \in Starts, NEW f \in Nat, Intact(S, GroupSize, f)
    PROVE  Intact(NextGroup(S), 0, f + 1)
<1>0. /\ S \in Nat /\ S <= LastStart /\ LastStart \in Nat /\ LastStart # 0
      /\ GroupSize > OriginalCount + 2 /\ ~(GroupSize < OriginalCount)
      /\ GroupSize > OriginalCount /\ GroupSize \in Nat /\ GroupSize > 0
      /\ S < LastStart => NextGroup(S) = S + GroupSize /\ S + GroupSize # 0
      /\ S = LastStart => NextGroup(S) = 0
      /\ curnum_recv_drop \in Nat
  <2>1. S \in Nat /\ S <= LastStart /\ curnum_recv_drop \in Nat
    BY SizeFacts DEF ReceiverTypes, Starts
  <2>2. /\ S < LastStart => NextGroup(S) = S + GroupSize
        /\ S = LastStart => NextGroup(S) = 0
    BY StartFacts
  <2> QED BY <2>1, <2>2, SizeFacts
<1>1. CASE f = 0 /\ curcount = 0 /\ curnum_recv = 0 /\ delivered = <<>>
  <2>1. Searching(NextGroup(S), 0)
    BY <1>1, SizeFacts DEF Searching, LeavesPlace
  <2> QED BY <1>1, <2>1 DEF Intact
<1>2. CASE f = 1 /\ Searching(S, GroupSize)
  <2>1. CASE S < LastStart
    BY <1>2, <2>1, SearchEnds
  <2>2. CASE S = LastStart
    <3>1. /\ curnum_recv = S + GroupSize /\ curnum_recv_drop = OriginalCount + 1
          /\ delivered = <<>>
      BY <1>0, <1>2, <2>2 DEF Searching
    <3>2. LeavesPlace(0)
      BY <1>0, <3>1, SizeFacts DEF LeavesPlace
    <3>3. Searching(0, 0)
      BY <3>1, <3>2, SizeFacts DEF Searching
    <3> QED BY <1>0, <1>2, <2>2, <3>3 DEF Intact
  <2> QED BY <1>0, <2>1, <2>2
<1>3. CASE f = 2 /\ S = 0 /\ Searching(S, GroupSize)
  <2>1. S < LastStart
    BY <1>3, SizeFacts
  <2> QED BY <1>3, <2>1, SearchEnds
<1>4. ASSUME NEW skip \in {1, 2}, skip < f, Synced(S, GroupSize, f, Passed(S)),
             AllDelivered(skip, IF GroupSize < OriginalCount THEN f - 1 ELSE f)
      PROVE  Intact(NextGroup(S), 0, f + 1)
  <2>1. /\ curcount = 1 /\ curnum_recv = NextGroup(S) /\ NoJunk(slots)
        /\ curnum_recv_drop <= Passed(NextGroup(S))
    <3>1. CASE S < LastStart
      <4>1. /\ curcount = 1 /\ curnum_recv = NextGroup(S) /\ NoJunk(slots)
            /\ curnum_recv_drop <= GroupSize - OriginalCount - 1 + 0
        BY <1>0, <1>4, <3>1 DEF Synced
      <4>2. curnum_recv_drop <= RecoveryCount - 1
        BY <1>0, <4>1, SizeFacts
      <4>3. Passed(NextGroup(S)) = RecoveryCount - 1
        BY <1>0, <3>1 DEF Passed
      <4> QED BY <4>1, <4>2, <4>3
    <3>2. CASE S = LastStart
      <4>1. Passed(S) = RecoveryCount - 1 /\ Passed(NextGroup(S)) = 2 * (RecoveryCount - 1)
        BY <1>0, <1>4, <3>2 DEF Passed
      <4>2. (RecoveryCount - 1) + RecoveryCount - 1 <= OriginalCount /\ ~(S < LastStart)
        BY <1>0, <3>2, SizeFacts
      <4>3. /\ curcount = 1 /\ curnum_recv = NextGroup(S) /\ NoJunk(slots)
            /\ curnum_recv_drop <= GroupSize - OriginalCount - 1 + (RecoveryCount - 1)
        BY <1>0, <1>4, <4>1, <4>2 DEF Synced
      <4>4. curnum_recv_drop <= 2 * (RecoveryCount - 1)
        BY <1>0, <4>3, SizeFacts
      <4> QED BY <4>1, <4>3, <4>4
    <3> QED BY <1>0, <3>1, <3>2
  <2>2. Synced(NextGroup(S), 0, f + 1, Passed(NextGroup(S)))
    BY <2>1, SizeFacts DEF Synced, Slot
  <2>3. AllDelivered(skip, IF 0 < OriginalCount THEN (f + 1) - 1 ELSE f + 1)
    <3>1. 0 < OriginalCount /\ (f + 1) - 1 = f
      BY SizeFacts
    <3> QED BY <1>0, <1>4, <3>1
  <2>4. skip < f + 1
    BY <1>4
  <2> QED BY <1>4, <2>2, <2>3, <2>4 DEF Intact
<1> QED BY <1>1, <1>2, <1>3, <1>4 DEF Intact

LEMMA IntactStep ==
    ASSUME ReceiverTypes, NEW S \in Starts, NEW n \in Slot, NEW f \in Nat \ {0},
           Receives(S, n, f), Intact(S, n, f)
    PROVE  Intact(S, n + 1, f)'
<1>0. n \in Nat /\ S \in Nat /\ S <= LastStart /\ delivered \in Seq(Handed)
  BY DEF ReceiverTypes, Slot, Starts
<1>1. CASE f \in {1, 2} /\ (f = 2 => S = 0) /\ Searching(S, n)
  BY <1>1, SearchStep DEF Intact
<1>2. ASSUME NEW skip \in {1, 2}, skip < f, Synced(S, n, f, Passed(S)),
             AllDelivered(skip, IF n < OriginalCount THEN f - 1 ELSE f)
      PROVE  Intact(S, n + 1, f)'
  <2>1. PICK b \in Nat : b = Passed(S) /\ (S = 0 => b <= OriginalCount)
                         /\ (S < LastStart \/ b + RecoveryCount - 1 <= OriginalCount)
    <3>1. CASE S = 0
      <4>1. 2 * (RecoveryCount - 1) \in Nat /\ 2 * (RecoveryCount - 1) <= OriginalCount
        BY SizeFacts
      <4>2. S < LastStart
        BY <3>1, SizeFacts
      <4> QED BY <3>1, <4>1, <4>2 DEF Passed
    <3>2. CASE S # 0
      <4>1. RecoveryCount - 1 \in Nat /\ (RecoveryCount - 1) + RecoveryCount - 1 <= OriginalCount
        BY SizeFacts
      <4> QED BY <3>2, <4>1 DEF Passed
    <3> QED BY <3>1, <3>2
  <2>2. Synced(S, n, f, b)
    BY <1>2, <2>1
  <2>3. Synced(S, n + 1, f, b)'
    BY <1>2, <2>1, <2>2, SyncedStep
  <2> DEFINE m == IF n + 1 < OriginalCount THEN f - 1 ELSE f
  <2>4. AllDelivered(skip, m)'
    <3>1. CASE n + 1 < OriginalCount
      <4>1. n < OriginalCount
        BY <1>0, <3>1, SizeFacts
      <4>2. delivered' = delivered
        BY <2>1, <2>2, <3>1, <4>1, SyncedEarly
      <4> QED BY <1>2, <3>1, <4>1, <4>2 DEF AllDelivered
    <3>2. CASE n + 1 = OriginalCount
      <4>1. n < OriginalCount /\ ~(n + 1 < OriginalCount)
        BY <1>0, <3>2, SizeFacts
      <4>2. delivered' = Append(delivered, WholeFrame(S, f))
        BY <2>1, <2>2, <3>2, <4>1, SyncedEarly
      <4>3. Len(delivered) = f - 1 - skip
            /\ \A j \in 1 .. Len(delivered) : delivered[j].frame = j + skip /\ delivered[j].whole
        BY <1>2, <4>1 DEF AllDelivered
      <4>4. /\ Len(delivered') = Len(delivered) + 1
            /\ delivered'[Len(delivered) + 1] = WholeFrame(S, f)
            /\ \A j \in 1 .. Len(delivered) : delivered'[j] = delivered[j]
        BY <1>0, <4>2
      <4>5. Len(delivered') = f - skip /\ f = Len(delivered) + 1 + skip
        BY <4>3, <4>4
      <4>6. WholeFrame(S, f).frame = f /\ WholeFrame(S, f).whole
        BY DEF WholeFrame
      <4>7. \A j \in 1 .. Len(delivered') : delivered'[j].frame = j + skip /\ delivered'[j].whole
        <5>1. \A j \in 1 .. Len(delivered') : j \in 1 .. Len(delivered) \/ j = Len(delivered) + 1
          BY <1>0, <4>4
        <5> QED BY <4>3, <4>4, <4>5, <4>6, <5>1
      <4> QED BY <4>1, <4>5, <4>7 DEF AllDelivered
    <3>3. CASE n >= OriginalCount
      <4>1. ~(n < OriginalCount) /\ ~(n + 1 < OriginalCount)
        BY <1>0, <3>3, SizeFacts
      <4>2. delivered' = delivered
        <5>1. CASE n = OriginalCount
          BY <1>2, <2>2, <5>1, SyncedDecoded
        <5>2. CASE n > OriginalCount
          BY <1>2, <2>1, <2>2, <5>2, SyncedLate
        <5> QED BY <1>0, <3>3, <5>1, <5>2, SizeFacts
      <4> QED BY <1>2, <4>1, <4>2 DEF AllDelivered
    <3>4. n + 1 < OriginalCount \/ n + 1 = OriginalCount \/ n >= OriginalCount
      BY <1>0, SizeFacts
    <3> QED BY <3>1, <3>2, <3>3, <3>4
  <2>5. Synced(S, n + 1, f, Passed(S))'
    BY <2>1, <2>3
  <2> QED BY <1>2, <2>4, <2>5 DEF Intact
<1> QED BY <1>1, <1>2 DEF Intact

LEMMA IntactSame ==
    ASSUME NEW S, NEW n, NEW f, Intact(S, n, f), recvVars' = recvVars
    PROVE  Intact(S, n, f)'
<1>1. /\ slots' = slots /\ curcount' = curcount /\ curnum_recv' = curnum_recv
      /\ curnum_recv_drop' = curnum_recv_drop /\ delivered' = delivered
  BY DEF recvVars
<1>2. /\ Searching(S, n) <=> Searching(S, n)'
      /\ Synced(S, n, f, Passed(S)) <=> Synced(S, n, f, Passed(S))'
      /\ \A skip, m : AllDelivered(skip, m) <=> AllDelivered(skip, m)'
  BY <1>1 DEF Searching, LeavesPlace, Synced, AllDelivered, NoJunk
<1> QED BY <1>1, <1>2 DEF Intact

LEMMA NothingLostStep ==
    ASSUME FecTypes, NothingLostInv, [FecNext]_fecVars
    PROVE  NothingLostInv'
<1> SUFFICES ASSUME ~crashed', incomplete' = {} PROVE Intact(Began, Read, sent)'
  BY DEF NothingLostInv
<1>0. SenderTypes /\ ReceiverTypes
  BY DEF FecTypes
<1>1. CASE SendGroup
  <2>1. PICK S, f : S = Began /\ f = sent
    OBVIOUS
  <2>2. /\ Began' = NextGroup(S) /\ Read' = 0 /\ sent' = f + 1
        /\ wire = <<>> /\ incomplete' = incomplete /\ recvVars' = recvVars
    BY <1>0, <1>1, <2>1, GroupSent
  <2>3. S \in Starts /\ f \in Nat /\ Read = GroupSize
    BY <1>0, <2>1, <2>2, SendTypes
  <2>4. Intact(S, GroupSize, f)
    <3>1. crashed' = crashed
      BY <2>2 DEF recvVars
    <3> QED BY <2>1, <2>2, <2>3, <3>1 DEF NothingLostInv
  <2>5. Intact(NextGroup(S), 0, f + 1)
    BY <1>0, <2>2, <2>3, <2>4, IntactNext
  <2>6. PICK T, h : T = NextGroup(S) /\ h = f + 1
    OBVIOUS
  <2>7. Intact(T, 0, h)'
    BY <2>2, <2>5, <2>6, IntactSame
  <2> QED BY <2>2, <2>6, <2>7
<1>2. CASE LoseShard
  BY <1>2 DEF LoseShard
<1>3. CASE ReceiveShard
  <2>1. PICK S, n, f : S = Began /\ n = Read /\ f = sent
    OBVIOUS
  <2>2. /\ S \in Starts /\ n \in Slot /\ f \in Nat \ {0} /\ Receives(S, n, f)
        /\ Began' = S /\ Read' = n + 1 /\ sent' = f /\ incomplete' = incomplete
    BY <1>0, <1>3, <2>1, ReceivesNext
  <2>3. Intact(S, n, f)
    <3>1. ~crashed
      BY <2>2 DEF Receives
    <3> QED BY <2>1, <2>2, <3>1 DEF NothingLostInv
  <2>4. Intact(S, n + 1, f)'
    BY <1>0, <2>2, <2>3, IntactStep
  <2> QED BY <2>2, <2>4
<1>4. CASE UNCHANGED fecVars
  <2>1. PICK S, n, f : S = Began /\ n = Read /\ f = sent
    OBVIOUS
  <2>2. Began' = S /\ Read' = n /\ sent' = f /\ incomplete' = incomplete /\ recvVars' = recvVars
    BY <1>4, <2>1 DEF fecVars, Began, Read
  <2>3. Intact(S, n, f)
    <3>1. crashed' = crashed
      BY <2>2 DEF recvVars
    <3> QED BY <2>1, <2>2, <3>1 DEF NothingLostInv
  <2>4. Intact(S, n, f)'
    BY <2>2, <2>3, IntactSame
  <2> QED BY <2>2, <2>4
<1> QED BY <1>1, <1>2, <1>3, <1>4 DEF FecNext

\* Without loss the receiver misses the frame during which it found its place,
\* or two where the numbers end, and delivers every other one whole and in order:
\* NothingLostUnlessSent, for every number of shards and every number of groups.
THEOREM NothingLostHolds == FecSpec => []NothingLostUnlessSent
<1>1. ASSUME FecTypes, NothingLostInv PROVE NothingLostUnlessSent
  <2> SUFFICES ASSUME ~crashed, incomplete = {}
               PROVE  \E skip \in {1, 2} :
                         /\ \A j \in 1 .. Len(delivered) :
                               delivered[j].frame = j + skip /\ delivered[j].whole
                         /\ wire = <<>> /\ sent >= skip => Len(delivered) = sent - skip
    BY DEF NothingLostUnlessSent
  <2>1. SenderTypes /\ Intact(Began, Read, sent)
    BY <1>1 DEF FecTypes, NothingLostInv
  <2>2. sent \in Nat /\ (wire = <<>> <=> Read = GroupSize) /\ ~(GroupSize < OriginalCount)
    BY <2>1, SendTypes, SizeFacts
  <2>3. CASE delivered = <<>> /\ sent \in {0, 1}
    <3>1. \A j \in 1 .. Len(delivered) : FALSE
      BY <2>3
    <3>2. sent >= 1 => Len(delivered) = sent - 1
      BY <2>3
    <3> QED BY <3>1, <3>2
  <2>4. CASE delivered = <<>> /\ sent = 2
    <3>1. \A j \in 1 .. Len(delivered) : FALSE
      BY <2>4
    <3>2. Len(delivered) = sent - 2
      BY <2>4
    <3> QED BY <3>1, <3>2
  <2>5. ASSUME NEW skip \in {1, 2},
               AllDelivered(skip, IF Read < OriginalCount THEN sent - 1 ELSE sent)
        PROVE  /\ \A j \in 1 .. Len(delivered) :
                     delivered[j].frame = j + skip /\ delivered[j].whole
               /\ wire = <<>> => Len(delivered) = sent - skip
    BY <2>2, <2>5 DEF AllDelivered
  <2>6. \/ delivered = <<>> /\ sent \in {0, 1}
        \/ delivered = <<>> /\ sent = 2
        \/ \E skip \in {1, 2} :
              AllDelivered(skip, IF Read < OriginalCount THEN sent - 1 ELSE sent)
    BY <2>1 DEF Intact, Searching
  <2> QED BY <2>3, <2>4, <2>5, <2>6
<1>2. FecSpec => []NothingLostInv
  <2>1. FecInit => NothingLostInv
    BY DEF FecInit, NothingLostInv, Intact
  <2>2. FecTypes /\ NothingLostInv /\ [FecNext]_fecVars => NothingLostInv'
    BY NothingLostStep
  <2> QED BY <2>1, <2>2, FecTypesKept, PTL DEF FecSpec
<1>3. FecTypes /\ NothingLostInv => NothingLostUnlessSent
  BY <1>1
<1> QED BY <1>2, <1>3, FecTypesKept, PTL
=============================================================================
