-------------------------- MODULE MuxClientsProofs --------------------------
(***************************************************************************)
(* MuxClientsInv!IInv is an invariant of MuxClients, for every number of   *)
(* clients, every window and every environment, and the properties that    *)
(* the runs clients_* check on small instances follow from it.             *)
(***************************************************************************)
EXTENDS MuxClientsInv, SequenceTheorems, FunctionTheorems, FiniteSetTheorems, WellFoundedInduction, TLAPS

-----------------------------------------------------------------------------
(* One stream between the ends of a connection.                            *)

\* a and b hold the same of client o.
SameItems(a, b, o) ==
    /\ AcksOf(a, o) = AcksOf(b, o)
    /\ HasData(a, o) <=> HasData(b, o)
    /\ HasData(a, o) => Start(a) = Start(b) /\ Stop(a) = Stop(b)

\* g is f, or what is left of f when its first packet, with nothing of o, is gone.
Follows(g, f, o) ==
    \E k \in {0, 1} :
        /\ \A i \in Nat : SameItems(g[i], f[i + k], o)
        /\ k = 1 => ~Holds(f[0], o)

LEMMA SameHolds ==
    ASSUME NEW a, NEW b, NEW o, SameItems(a, b, o)
    PROVE  (Holds(a, o) <=> Holds(b, o)) /\ (EndIn(a, o) <=> EndIn(b, o))
BY DEF SameItems, Holds, EndIn

LEMMA UnitsFollow ==
    ASSUME NEW f, NEW g, NEW o, NEW sent \in Nat, NEW received \in Nat,
           Follows(g, f, o), Units(f, o, sent, received)
    PROVE  Units(g, o, sent, received)
<1> PICK k \in {0, 1} : /\ \A i \in Nat : SameItems(g[i], f[i + k], o)
                        /\ k = 1 => ~Holds(f[0], o)
  BY DEF Follows
<1>1. \A i \in Nat : i + k \in Nat
  OBVIOUS
<1>2. \A i \in Nat : /\ HasData(g[i], o) <=> HasData(f[i + k], o)
                     /\ HasData(g[i], o) => Start(g[i]) = Start(f[i + k]) /\ Stop(g[i]) = Stop(f[i + k])
  BY DEF SameItems
<1>3. received <= sent
  BY DEF Units
<1>4. \A i \in Nat : HasData(g[i], o) => received < Start(g[i]) /\ Stop(g[i]) <= sent
  BY <1>1, <1>2 DEF Units
<1>5. ASSUME NEW i \in Nat, NEW j \in Nat, i < j, HasData(g[i], o), HasData(g[j], o)
      PROVE  Stop(g[i]) < Start(g[j])
  <2>1. i + k \in Nat /\ j + k \in Nat /\ i + k < j + k
    BY <1>5
  <2> QED BY <2>1, <1>2, <1>5 DEF Units
<1>6. ASSUME NEW n \in received + 1 .. sent
      PROVE  \E i \in Nat : HasData(g[i], o) /\ n \in Start(g[i]) .. Stop(g[i])
  <2>1. PICK i \in Nat : HasData(f[i], o) /\ n \in Start(f[i]) .. Stop(f[i])
    BY DEF Units
  <2>2. i - k \in Nat /\ (i - k) + k = i
    <3>1. CASE k = 0
      BY <3>1
    <3>2. CASE k = 1
      <4>1. i # 0
        BY <2>1, <3>2 DEF Holds
      <4> QED BY <3>2, <4>1
    <3> QED BY <3>1, <3>2
  <2> QED BY <2>1, <2>2, <1>2
<1> QED BY <1>3, <1>4, <1>5, <1>6 DEF Units

LEMMA GrantsFollow ==
    ASSUME NEW f, NEW g, NEW o, NEW granted \in Nat, NEW credit \in Nat,
           Follows(g, f, o), Grants(f, o, granted, credit)
    PROVE  Grants(g, o, granted, credit)
<1> PICK k \in {0, 1} : /\ \A i \in Nat : SameItems(g[i], f[i + k], o)
                        /\ k = 1 => ~Holds(f[0], o)
  BY DEF Follows
<1>1. \A i \in Nat : i + k \in Nat /\ AcksOf(g[i], o) = AcksOf(f[i + k], o)
  BY DEF SameItems
<1>2. \A i, j \in Nat : i < j => i + k < j + k
  OBVIOUS
<1>3. \A i \in Nat : \A e \in AcksOf(g[i], o) :
         e.karma # End => credit + e.karma <= e.granted /\ e.granted <= granted
  BY <1>1 DEF Grants
<1>4. ASSUME NEW i \in Nat, NEW j \in Nat, NEW e \in AcksOf(g[i], o), NEW h \in AcksOf(g[j], o),
             i < j, e.karma # End, h.karma # End
      PROVE  e.granted + h.karma <= h.granted
  <2>1. e \in AcksOf(f[i + k], o) /\ h \in AcksOf(f[j + k], o)
    BY <1>1
  <2>2. i + k < j + k
    BY <1>2, <1>4
  <2> QED BY <2>1, <2>2, <1>1, <1>4 DEF Grants
<1>5. ASSUME NEW n \in credit + 1 .. granted
      PROVE  \E i \in Nat : \E e \in AcksOf(g[i], o) : Brings(e, n)
  <2>1. PICK i \in Nat : \E e \in AcksOf(f[i], o) : Brings(e, n)
    BY DEF Grants
  <2>2. i - k \in Nat /\ (i - k) + k = i
    <3>1. k = 1 => i # 0
      BY <2>1 DEF Holds
    <3> QED BY <3>1
  <2>3. AcksOf(g[i - k], o) = AcksOf(f[i], o)
    BY <1>1, <2>2
  <2> QED BY <2>1, <2>2, <2>3
<1> QED BY <1>3, <1>4, <1>5 DEF Grants

LEMMA EndsFollow ==
    ASSUME NEW f, NEW g, NEW o, NEW c, NEW r, NEW c2, NEW r2,
           Follows(g, f, o), Ends(f, o, c, r), Done(c2) <=> Done(c), Heard(r2) <=> Heard(r)
    PROVE  Ends(g, o, c2, r2)
<1> PICK k \in {0, 1} : /\ \A i \in Nat : SameItems(g[i], f[i + k], o)
                        /\ k = 1 => ~Holds(f[0], o)
  BY DEF Follows
<1>1. \A i \in Nat : /\ i + k \in Nat
                     /\ Holds(g[i], o) <=> Holds(f[i + k], o)
                     /\ EndIn(g[i], o) <=> EndIn(f[i + k], o)
  BY SameHolds
<1>2. \A i \in Nat : EndIn(f[i], o) => Holds(f[i], o)
  BY DEF EndIn, Holds
<1>3. (\E i \in Nat : EndIn(g[i], o)) <=> \E i \in Nat : EndIn(f[i], o)
  <2>1. ASSUME NEW i \in Nat, EndIn(f[i], o)
        PROVE  \E j \in Nat : EndIn(g[j], o)
    <3>1. i - k \in Nat /\ (i - k) + k = i
      <4>1. k = 1 => i # 0
        BY <1>2, <2>1
      <4> QED BY <4>1
    <3> QED BY <3>1, <1>1, <2>1
  <2> QED BY <2>1, <1>1
<1>4. \A i, j \in Nat : i < j => i + k < j + k
  OBVIOUS
<1>5. ASSUME NEW i \in Nat, NEW j \in Nat, i < j, EndIn(g[i], o)
      PROVE  ~Holds(g[j], o)
  BY <1>1, <1>4, <1>5 DEF Ends
<1>6. Heard(r2) => \A i \in Nat : ~Holds(g[i], o)
  BY <1>1 DEF Ends
<1>7. Done(c2) <=> Heard(r2) \/ \E i \in Nat : EndIn(g[i], o)
  BY <1>3 DEF Ends
<1> QED BY <1>5, <1>6, <1>7 DEF Ends

LEMMA NothingInNoPacket == ASSUME NEW o PROVE ~Holds(NoPacket, o) /\ ~EndIn(NoPacket, o)
BY DEF NoPacket, Holds, HasData, AcksOf, EndIn

LEMMA FollowsItself == ASSUME NEW f, NEW o PROVE Follows(f, f, o)
<1>1. \A i \in Nat : i + 0 = i
  OBVIOUS
<1> QED BY <1>1 DEF Follows, SameItems

\* g is f with a packet behind all others.
Put(g, f, n, pk) ==
    /\ \A i \in Nat : i < n => g[i] = f[i]
    /\ \A i \in Nat : i >= n => f[i] = NoPacket
    /\ g[n] = pk
    /\ \A i \in Nat : i > n => g[i] = NoPacket

LEMMA PutOther ==
    ASSUME NEW f, NEW g, NEW o, NEW n \in Nat, NEW pk, Put(g, f, n, pk), ~Holds(pk, o)
    PROVE  Follows(g, f, o)
<1>1. \A a, b : ~Holds(a, o) /\ ~Holds(b, o) => SameItems(a, b, o)
  BY DEF Holds, SameItems
<1>2. \A a : SameItems(a, a, o)
  BY DEF SameItems
<1>3. ASSUME NEW i \in Nat PROVE SameItems(g[i], f[i + 0], o)
  <2>1. i + 0 = i
    OBVIOUS
  <2>2. CASE i < n
    BY <2>1, <2>2, <1>2 DEF Put
  <2>3. CASE i >= n
    <3>1. g[i] \in {pk, NoPacket} /\ f[i] = NoPacket
      BY <2>3 DEF Put
    <3> QED BY <3>1, <2>1, <1>1, NothingInNoPacket
  <2> QED BY <2>2, <2>3
<1> QED BY <1>3 DEF Follows

LEMMA SpanType ==
    ASSUME NEW pk \in AnyPacket, NEW o, HasData(pk, o)
    PROVE  Start(pk) \in Nat \ {0} /\ Stop(pk) \in Nat /\ Start(pk) <= Stop(pk) /\ o \in Obj
<1>1. pk.data \in Seq(Obj \X (Nat \ {0})) /\ pk.data # <<>>
  BY DEF AnyPacket, HasData
<1>2. Len(pk.data) \in Nat \ {0} /\ pk.data[1] \in Obj \X (Nat \ {0})
  BY <1>1
<1> QED BY <1>2 DEF Start, Stop, HasData

LEMMA PutData ==
    ASSUME NEW f, NEW g, NEW o, NEW n \in Nat, NEW pk, Put(g, f, n, pk),
           \A i \in Nat : f[i] \in AnyPacket,
           NEW sent \in Nat, NEW received \in Nat, NEW k \in Nat \ {0},
           HasData(pk, o), Start(pk) = sent + 1, Stop(pk) = sent + k,
           Units(f, o, sent, received)
    PROVE  Units(g, o, sent + k, received)
<1>0. \A i \in Nat : HasData(f[i], o) => Start(f[i]) \in Nat /\ Stop(f[i]) \in Nat
  BY SpanType
<1>1. \A i \in Nat : HasData(f[i], o) => i < n
  BY NothingInNoPacket DEF Put, Holds
<1>2. \A i \in Nat : HasData(g[i], o) => i = n \/ (i < n /\ g[i] = f[i])
  BY NothingInNoPacket DEF Put, Holds
<1>3. \A i \in Nat : HasData(f[i], o) => g[i] = f[i]
  BY <1>1 DEF Put
<1>4. g[n] = pk /\ received <= sent
  BY DEF Put, Units
<1>5. ASSUME NEW i \in Nat, HasData(g[i], o)
      PROVE  received < Start(g[i]) /\ Stop(g[i]) <= sent + k
  BY <1>0, <1>2, <1>4, <1>5 DEF Units
<1>6. ASSUME NEW i \in Nat, NEW j \in Nat, i < j, HasData(g[i], o), HasData(g[j], o)
      PROVE  Stop(g[i]) < Start(g[j])
  <2>1. i < n /\ g[i] = f[i]
    BY <1>2, <1>6
  <2>2. Stop(g[i]) <= sent /\ Stop(g[i]) \in Nat
    BY <1>0, <2>1, <1>6 DEF Units
  <2>3. CASE j = n
    BY <2>3, <2>2, <1>4
  <2>4. CASE j < n /\ g[j] = f[j]
    BY <2>4, <2>1, <1>6 DEF Units
  <2> QED BY <2>3, <2>4, <1>2, <1>6
<1>7. ASSUME NEW m \in received + 1 .. sent + k
      PROVE  \E i \in Nat : HasData(g[i], o) /\ m \in Start(g[i]) .. Stop(g[i])
  <2>1. CASE m <= sent
    <3>1. PICK i \in Nat : HasData(f[i], o) /\ m \in Start(f[i]) .. Stop(f[i])
      BY <2>1 DEF Units
    <3> QED BY <3>1, <1>3
  <2>2. CASE m > sent
    BY <2>2, <1>4
  <2> QED BY <2>1, <2>2
<1> QED BY <1>4, <1>5, <1>6, <1>7 DEF Units

LEMMA PutGrant ==
    ASSUME NEW f, NEW g, NEW o, NEW n \in Nat, NEW pk, Put(g, f, n, pk),
           \A i \in Nat : f[i] \in AnyPacket,
           NEW granted \in Nat, NEW credit \in Nat, NEW e \in Entry,
           AcksOf(pk, o) = {e}, e.karma # End, e.granted = granted + e.karma,
           Grants(f, o, granted, credit)
    PROVE  Grants(g, o, e.granted, credit)
<1>0. \A i \in Nat : AcksOf(f[i], o) \subseteq Entry
  BY DEF AcksOf, AnyPacket
<1>1. \A i \in Nat : AcksOf(g[i], o) # {} => i = n \/ (i < n /\ g[i] = f[i])
  BY NothingInNoPacket DEF Put, Holds
<1>2. g[n] = pk /\ credit <= granted /\ e.karma \in Nat /\ e.granted \in Nat
  BY DEF Put, Grants, Entry
<1>3. ASSUME NEW i \in Nat, NEW h \in AcksOf(g[i], o), h.karma # End
      PROVE  credit + h.karma <= h.granted /\ h.granted <= e.granted
  <2>1. CASE i = n
    BY <2>1, <1>2
  <2>2. CASE i < n /\ g[i] = f[i]
    <3>1. h \in Entry /\ h.karma \in Nat /\ h.granted \in Nat
      BY <2>2, <1>0, <1>3 DEF Entry
    <3> QED BY <3>1, <2>2, <1>2, <1>3 DEF Grants
  <2> QED BY <2>1, <2>2, <1>1
<1>4. ASSUME NEW i \in Nat, NEW j \in Nat, NEW h \in AcksOf(g[i], o), NEW x \in AcksOf(g[j], o),
             i < j, h.karma # End, x.karma # End
      PROVE  h.granted + x.karma <= x.granted
  <2>1. i < n /\ g[i] = f[i]
    BY <1>1, <1>4
  <2>2. CASE j = n
    <3>1. x = e /\ h.granted <= granted /\ h \in Entry
      BY <2>1, <2>2, <1>0, <1>2, <1>4 DEF Grants
    <3> QED BY <3>1, <1>2 DEF Entry
  <2>3. CASE j < n /\ g[j] = f[j]
    BY <2>1, <2>3, <1>4 DEF Grants
  <2> QED BY <2>2, <2>3, <1>1, <1>4
<1>5. ASSUME NEW m \in credit + 1 .. e.granted
      PROVE  \E i \in Nat : \E h \in AcksOf(g[i], o) : Brings(h, m)
  <2>1. granted \in Nat /\ credit \in Nat /\ m \in Nat
    BY <1>2
  <2>2. CASE m <= granted
    <3>1. m \in credit + 1 .. granted
      BY <2>1, <2>2
    <3>2. PICK i \in Nat : \E h \in AcksOf(f[i], o) : Brings(h, m)
      BY <3>1 DEF Grants
    <3>3. i < n
      <4>1. AcksOf(f[i], o) # {}
        BY <3>2
      <4>2. f[i] # NoPacket
        BY <4>1, NothingInNoPacket DEF Holds
      <4> QED BY <4>2 DEF Put
    <3> QED BY <3>2, <3>3 DEF Put
  <2>3. CASE ~(m <= granted)
    <3>1. e.granted < m + e.karma /\ m <= e.granted
      BY <1>2, <2>1, <2>3
    <3>2. Brings(e, m)
      BY <3>1 DEF Brings
    <3> QED BY <1>2, <3>2
  <2> QED BY <2>2, <2>3
<1> QED BY <1>2, <1>3, <1>4, <1>5 DEF Grants

\* An entry that announces the end gives nothing, and neither does data.
LEMMA PutNoGrant ==
    ASSUME NEW f, NEW g, NEW o, NEW n \in Nat, NEW pk, Put(g, f, n, pk),
           NEW granted, NEW credit,
           \A e \in AcksOf(pk, o) : e.karma = End, Grants(f, o, granted, credit)
    PROVE  Grants(g, o, granted, credit)
<1>1. \A i \in Nat : AcksOf(g[i], o) # {} => i = n \/ (i < n /\ g[i] = f[i])
  BY NothingInNoPacket DEF Put, Holds
<1>2. g[n] = pk
  BY DEF Put
<1>3. /\ credit <= granted
      /\ \A i \in Nat : \A e \in AcksOf(g[i], o) :
           e.karma # End => credit + e.karma <= e.granted /\ e.granted <= granted
  BY <1>1, <1>2 DEF Grants
<1>4. \A i, j \in Nat : \A e \in AcksOf(g[i], o), h \in AcksOf(g[j], o) :
         i < j /\ e.karma # End /\ h.karma # End => e.granted + h.karma <= h.granted
  BY <1>1, <1>2 DEF Grants
<1>5. ASSUME NEW m \in credit + 1 .. granted
      PROVE  \E i \in Nat : \E h \in AcksOf(g[i], o) : Brings(h, m)
  <2>1. PICK i \in Nat : \E h \in AcksOf(f[i], o) : Brings(h, m)
    BY DEF Grants
  <2>2. AcksOf(f[i], o) # {}
    BY <2>1
  <2>3. f[i] # NoPacket
    BY <2>2, NothingInNoPacket DEF Holds
  <2>4. g[i] = f[i]
    BY <2>3 DEF Put
  <2> QED BY <2>1, <2>4
<1> QED BY <1>3, <1>4, <1>5 DEF Grants

LEMMA PutNoData ==
    ASSUME NEW f, NEW g, NEW o, NEW n \in Nat, NEW pk, Put(g, f, n, pk),
           NEW sent \in Nat, NEW received \in Nat, ~HasData(pk, o), Units(f, o, sent, received)
    PROVE  Units(g, o, sent, received)
<1>1. \A i \in Nat : HasData(g[i], o) => g[i] = f[i]
  BY NothingInNoPacket DEF Put, Holds
<1>2. \A i \in Nat : HasData(f[i], o) => g[i] = f[i]
  BY NothingInNoPacket DEF Put, Holds
<1> QED BY <1>1, <1>2 DEF Units

LEMMA PutNoEnd ==
    ASSUME NEW f, NEW g, NEW o, NEW n \in Nat, NEW pk, Put(g, f, n, pk),
           NEW c, NEW c2, NEW r, ~EndIn(pk, o), ~Done(c), ~Done(c2), Ends(f, o, c, r)
    PROVE  Ends(g, o, c2, r)
<1>1. ~Heard(r) /\ \A i \in Nat : ~EndIn(f[i], o)
  BY DEF Ends
<1>2. \A i \in Nat : g[i] \in {f[i], pk, NoPacket}
  BY DEF Put
<1>3. \A i \in Nat : ~EndIn(g[i], o)
  BY <1>1, <1>2, NothingInNoPacket
<1> QED BY <1>1, <1>3 DEF Ends

LEMMA PutEnd ==
    ASSUME NEW f, NEW g, NEW o, NEW n \in Nat, NEW pk, Put(g, f, n, pk),
           NEW c, NEW c2, NEW r, EndIn(pk, o), ~Done(c), Done(c2), Ends(f, o, c, r)
    PROVE  Ends(g, o, c2, r)
<1>1. ~Heard(r) /\ \A i \in Nat : ~EndIn(f[i], o)
  BY DEF Ends
<1>2. g[n] = pk /\ \A i \in Nat : i < n => g[i] = f[i]
  BY DEF Put
<1>3. \A i \in Nat : i > n => ~Holds(g[i], o) /\ ~EndIn(g[i], o)
  BY NothingInNoPacket DEF Put
<1>4. ASSUME NEW i \in Nat, NEW j \in Nat, i < j, EndIn(g[i], o) PROVE ~Holds(g[j], o)
  <2>1. ~(i < n)
    BY <1>1, <1>2, <1>4
  <2> QED BY <2>1, <1>3, <1>4
<1> QED BY <1>1, <1>2, <1>4 DEF Ends

\* g is f with the first packet replaced by what is left of it.
Take(g, f, pk) == g[0] = pk /\ \A i \in Nat : i # 0 => g[i] = f[i]

LEMMA TakeOther ==
    ASSUME NEW f, NEW g, NEW o, NEW pk, Take(g, f, pk), SameItems(pk, f[0], o)
    PROVE  Follows(g, f, o)
<1>1. \A i \in Nat : i + 0 = i
  OBVIOUS
<1>2. \A i \in Nat : SameItems(g[i], f[i], o)
  BY DEF Take, SameItems
<1> QED BY <1>1, <1>2 DEF Follows

\* Data at the head of the stream is the next the receiver expects.
LEMMA TakeData ==
    ASSUME NEW f, NEW g, NEW o, NEW pk, Take(g, f, pk), \A i \in Nat : f[i] \in AnyPacket,
           NEW sent \in Nat, NEW received \in Nat,
           HasData(f[0], o), ~HasData(pk, o), Units(f, o, sent, received)
    PROVE  /\ Start(f[0]) = received + 1 /\ Stop(f[0]) <= sent
           /\ Units(g, o, sent, Stop(f[0]))
<1>0. \A i \in Nat : HasData(f[i], o) => /\ Start(f[i]) \in Nat /\ Stop(f[i]) \in Nat
                                         /\ Start(f[i]) <= Stop(f[i])
  BY SpanType
<1>1. received < Start(f[0]) /\ Stop(f[0]) <= sent /\ Start(f[0]) <= Stop(f[0])
  BY <1>0 DEF Units
<1>2. Start(f[0]) = received + 1
  <2>1. received + 1 \in received + 1 .. sent
    BY <1>1, <1>0
  <2>2. PICK i \in Nat : HasData(f[i], o) /\ received + 1 \in Start(f[i]) .. Stop(f[i])
    BY <2>1 DEF Units
  <2>3. ~(0 < i)
    <3> SUFFICES ASSUME 0 < i PROVE FALSE
      OBVIOUS
    <3>1. Stop(f[0]) < Start(f[i])
      BY <2>2 DEF Units
    <3> QED BY <3>1, <2>2, <1>0, <1>1
  <2> QED BY <2>2, <2>3, <1>0, <1>1
<1>3. \A i \in Nat : HasData(g[i], o) => i # 0 /\ g[i] = f[i]
  BY DEF Take
<1>4. \A i \in Nat : i # 0 => 0 < i
  OBVIOUS
<1>5. \A i \in Nat : HasData(g[i], o) => Stop(f[0]) < Start(g[i]) /\ Stop(g[i]) <= sent
  BY <1>3, <1>4 DEF Units
<1>6. \A i, j \in Nat : i < j /\ HasData(g[i], o) /\ HasData(g[j], o) => Stop(g[i]) < Start(g[j])
  BY <1>3 DEF Units
<1>7. ASSUME NEW n \in Stop(f[0]) + 1 .. sent
      PROVE  \E i \in Nat : HasData(g[i], o) /\ n \in Start(g[i]) .. Stop(g[i])
  <2>1. n \in received + 1 .. sent /\ ~(n <= Stop(f[0]))
    BY <1>0, <1>1
  <2>2. PICK i \in Nat : HasData(f[i], o) /\ n \in Start(f[i]) .. Stop(f[i])
    BY <2>1 DEF Units
  <2>3. i # 0
    BY <2>1, <2>2, <1>0
  <2> QED BY <2>2, <2>3 DEF Take
<1> QED BY <1>1, <1>2, <1>5, <1>6, <1>7 DEF Units

LEMMA TakeNoData ==
    ASSUME NEW f, NEW g, NEW o, NEW pk, Take(g, f, pk),
           NEW sent \in Nat, NEW received \in Nat, ~HasData(f[0], o), ~HasData(pk, o),
           Units(f, o, sent, received)
    PROVE  Units(g, o, sent, received)
<1>1. \A i \in Nat : HasData(g[i], o) => g[i] = f[i]
  BY DEF Take
<1>2. \A i \in Nat : HasData(f[i], o) => g[i] = f[i]
  BY DEF Take
<1> QED BY <1>1, <1>2 DEF Units

\* Credit at the head of the stream.
LEMMA TakeGrant ==
    ASSUME NEW f, NEW g, NEW o, NEW pk, Take(g, f, pk), \A i \in Nat : f[i] \in AnyPacket,
           NEW granted \in Nat, NEW credit \in Nat, NEW e, AcksOf(f[0], o) = {e},
           AcksOf(pk, o) = {}, e.karma # End, Grants(f, o, granted, credit)
    PROVE  Grants(g, o, granted, credit + e.karma)
<1>0. \A i \in Nat : AcksOf(f[i], o) \subseteq Entry
  BY DEF AcksOf, AnyPacket
<1>1. e.karma \in Nat \ {0} /\ e.granted \in Nat
  BY <1>0 DEF Entry
<1>2. credit + e.karma <= e.granted /\ e.granted <= granted
  BY DEF Grants
<1>3. \A i \in Nat : AcksOf(g[i], o) # {} => 0 < i /\ i # 0 /\ g[i] = f[i]
  BY DEF Take
<1>4. ASSUME NEW i \in Nat, NEW h \in AcksOf(g[i], o), h.karma # End
      PROVE  (credit + e.karma) + h.karma <= h.granted /\ h.granted <= granted
  <2>1. h \in AcksOf(f[i], o) /\ 0 < i
    BY <1>3, <1>4
  <2>2. h.karma \in Nat /\ h.granted \in Nat
    BY <2>1, <1>0, <1>4 DEF Entry
  <2>3. e.granted + h.karma <= h.granted /\ h.granted <= granted
    BY <2>1, <1>4 DEF Grants
  <2> QED BY <2>2, <2>3, <1>1, <1>2
<1>5. ASSUME NEW i \in Nat, NEW j \in Nat, NEW h \in AcksOf(g[i], o), NEW x \in AcksOf(g[j], o),
             i < j, h.karma # End, x.karma # End
      PROVE  h.granted + x.karma <= x.granted
  BY <1>3, <1>5 DEF Grants
<1>6. ASSUME NEW m \in (credit + e.karma) + 1 .. granted
      PROVE  \E i \in Nat : \E h \in AcksOf(g[i], o) : Brings(h, m)
  <2>1. m \in credit + 1 .. granted /\ m \in Nat
    BY <1>1
  <2>2. PICK i \in Nat : \E h \in AcksOf(f[i], o) : Brings(h, m)
    BY <2>1 DEF Grants
  <2>3. CASE i = 0
    <3>1. e.granted < m + e.karma /\ m <= e.granted
      BY <2>2, <2>3 DEF Brings
    <3> DEFINE l == e.granted - e.karma
    <3>2. l \in credit + 1 .. granted /\ l + e.karma = e.granted
      BY <1>1, <1>2, <2>1, <3>1
    <3> HIDE DEF l
    <3>3. PICK j \in Nat : \E h \in AcksOf(f[j], o) : Brings(h, l)
      BY <3>2 DEF Grants
    <3>4. PICK h \in AcksOf(f[j], o) : Brings(h, l)
      BY <3>3
    <3>5. h.karma # End /\ h.granted < l + h.karma /\ l <= h.granted
      BY <3>4 DEF Brings
    <3>6. h.karma \in Nat /\ h.granted \in Nat /\ l \in Nat
      BY <1>0, <3>2, <3>5 DEF Entry
    <3>7. h # e
      BY <1>1, <3>2, <3>5
    <3>8. 0 < j
      BY <3>7
    <3>9. e.granted + h.karma <= h.granted
      BY <3>5, <3>8 DEF Grants
    <3> QED BY <1>1, <3>2, <3>5, <3>6, <3>9
  <2>4. CASE i # 0
    BY <2>2, <2>4 DEF Take
  <2> QED BY <2>3, <2>4
<1> QED BY <1>1, <1>2, <1>4, <1>5, <1>6 DEF Grants

\* What carries no credit can go.
LEMMA TakeNoGrant ==
    ASSUME NEW f, NEW g, NEW o, NEW pk, Take(g, f, pk),
           NEW granted, NEW credit, AcksOf(pk, o) = {}, Grants(f, o, granted, credit),
           \A e \in AcksOf(f[0], o) : e.karma = End
    PROVE  Grants(g, o, granted, credit)
<1>1. \A i \in Nat : AcksOf(g[i], o) # {} => i # 0 /\ g[i] = f[i]
  BY DEF Take
<1>2. ASSUME NEW n \in credit + 1 .. granted
      PROVE  \E i \in Nat : \E h \in AcksOf(g[i], o) : Brings(h, n)
  <2>1. PICK i \in Nat : \E h \in AcksOf(f[i], o) : Brings(h, n)
    BY DEF Grants
  <2>2. i # 0
    BY <2>1 DEF Brings
  <2> QED BY <2>1, <2>2 DEF Take
<1>3. /\ credit <= granted
      /\ \A i \in Nat : \A e \in AcksOf(g[i], o) :
           e.karma # End => credit + e.karma <= e.granted /\ e.granted <= granted
      /\ \A i, j \in Nat : \A e \in AcksOf(g[i], o), h \in AcksOf(g[j], o) :
           i < j /\ e.karma # End /\ h.karma # End => e.granted + h.karma <= h.granted
  BY <1>1 DEF Grants
<1> QED BY <1>2, <1>3 DEF Grants

LEMMA TakeNoEnd ==
    ASSUME NEW f, NEW g, NEW o, NEW pk, Take(g, f, pk),
           NEW c, NEW c2, NEW r, NEW r2, ~Holds(pk, o), ~EndIn(f[0], o),
           Done(c2) <=> Done(c), Heard(r2) <=> Heard(r), Ends(f, o, c, r)
    PROVE  Ends(g, o, c2, r2)
<1>1. ~EndIn(pk, o)
  BY DEF Holds, EndIn
<1>2. \A i \in Nat : EndIn(g[i], o) <=> EndIn(f[i], o)
  BY <1>1 DEF Take
<1>3. \A i \in Nat : Holds(g[i], o) => Holds(f[i], o)
  BY DEF Take
<1> QED BY <1>2, <1>3 DEF Ends

LEMMA TakeEnd ==
    ASSUME NEW f, NEW g, NEW o, NEW pk, Take(g, f, pk),
           NEW c, NEW c2, NEW r, NEW r2, ~Holds(pk, o), EndIn(f[0], o),
           Done(c2) <=> Done(c), Heard(r2), Ends(f, o, c, r)
    PROVE  Ends(g, o, c2, r2)
<1>1. \A i \in Nat : 0 < i => ~Holds(f[i], o)
  BY DEF Ends
<1>2. \A i \in Nat : i # 0 => 0 < i
  OBVIOUS
<1>3. \A i \in Nat : ~Holds(g[i], o)
  BY <1>1, <1>2 DEF Take
<1>4. \A i \in Nat : ~EndIn(g[i], o)
  BY <1>3 DEF Holds, EndIn
<1>5. Done(c2)
  BY DEF Ends
<1> QED BY <1>3, <1>4, <1>5 DEF Ends

-----------------------------------------------------------------------------
(* Types.                                                                  *)

LEMMA Sides ==
    ASSUME NEW s \in Side
    PROVE  /\ Peer(s) \in Side /\ Peer(Peer(s)) = s /\ Peer(s) # s
           /\ \A t \in Side : t = s \/ t = Peer(s)
BY DEF Side, Peer

LEMMA Numbers ==
    /\ ClientKarma \in Nat \ {0} /\ AckThreshold \in 1 .. ClientKarma
    /\ PacketSize \in Nat \ {0} /\ AckEntries \in Nat \ {0}
    /\ MaxObj \in Nat /\ MaxId \in Nat /\ MaxData \in [Side -> Nat]
    /\ LinkCap \in Nat \ {0} /\ MaxBatch \in Nat \ {0}
BY ConstantsOK

LEMMA Named == None \notin Obj /\ Control \notin Obj /\ Main \notin Obj /\ Listener \notin Obj
BY Numbers DEF None, Control, Main, Listener, Obj

LEMMA TypeFacts ==
    ASSUME Types, NEW s \in Side
    PROVE  /\ client[s] \in [Obj -> ClientRec] /\ \A o \in Obj : client[s][o] \in ClientRec
           /\ table[s] \in [1 .. MaxId -> {None} \cup Obj]
           /\ write_q[s] \in Seq({Control} \cup Obj) /\ karma_q[s] \in Seq(Obj)
           /\ wout[s] \in AnyPacket /\ link[s] \in Seq(AnyPacket) /\ rin[s] \in AnyPacket
           /\ cw[s] \in {None} \cup Obj
           /\ pending[s] \subseteq {Main, Listener} \cup Obj
           /\ ack_due[s] \in BOOLEAN /\ out_due[s] \in BOOLEAN /\ in_mainw[s] \in BOOLEAN
BY DEF Types

LEMMA RecFacts ==
    ASSUME NEW c \in ClientRec
    PROVE  /\ c.life \in {"unborn", "live", "burned", "freed"} /\ c.id \in 0 .. MaxId
           /\ c.s \in {"closed", "open", "unwatched"}
           /\ c.is_connecting \in BOOLEAN /\ c.is_rdead \in BOOLEAN
           /\ c.wkarma \in Nat /\ c.rkarma \in {End} \cup Nat /\ c.taken \in Nat
           /\ c.out \in Seq(Obj \X Nat) /\ c.given \in Seq(Obj \X Nat)
           /\ c.granted \in Nat /\ c.mate \in {None} \cup Obj
BY DEF ClientRec

LEMMA EnqueueType ==
    ASSUME NEW T, NEW q \in Seq(T), NEW x \in T
    PROVE  Enqueue(q, x) \in Seq(T)
BY DEF Enqueue

LEMMA PushedType ==
    ASSUME NEW T, NEW q \in Seq(T), NEW x \in T
    PROVE  Pushed(q, x) \in Seq(T)
BY EnqueueType DEF Pushed

LEMMA ClientUpdate ==
    ASSUME Types, NEW s \in Side, NEW o \in Obj, NEW r \in ClientRec,
           client' = [client EXCEPT ![s][o] = r]
    PROVE  /\ client' \in [Side -> [Obj -> ClientRec]]
           /\ client'[s][o] = r
           /\ \A x \in Obj : x # o => client'[s][x] = client[s][x]
           /\ \A t \in Side : t # s => client'[t] = client[t]
BY DEF Types

LEMMA NoPacketType == NoPacket \in AnyPacket
BY Numbers DEF NoPacket, AnyPacket, ControlId

LEMMA TypesQuiet ==
    ASSUME Types, NEW s \in Side,
           \/ SkipDead(s) \/ Dump(s) \/ Stall(s)
           \/ EnterClientw(s) \/ ClientBlocked(s)
           \/ LeaveMainr(s) \/ MainWritable(s) \/ LinkReplaced(s)
           \/ MainEvent(s) \/ \E o \in Obj : ConnectLate(s, o)
    PROVE  Types'
<1> USE DEF Types, linkVars, runVars
<1>1. CASE SkipDead(s)
  BY SMTT(40), <1>1 DEF SkipDead, Turn
<1>2. CASE Dump(s)
  <2>1. wout' \in [Side -> AnyPacket]
    BY <1>2, NoPacketType DEF Dump
  <2>2. link' \in [Side -> Seq(AnyPacket)]
    <3>1. Peer(s) \in Side
      BY Sides
    <3>2. link[Peer(s)] \in Seq(AnyPacket) /\ wout[s] \in AnyPacket
      BY <3>1
    <3>3. Append(link[Peer(s)], wout[s]) \in Seq(AnyPacket)
      BY <3>2, AppendProperties
    <3> QED BY <1>2, <3>1, <3>3 DEF Dump
  <2> QED BY <1>2, <2>1, <2>2 DEF Dump
<1>3. CASE Stall(s)
  BY <1>3 DEF Stall, Turn
<1>4. CASE EnterClientw(s)
  BY <1>4 DEF EnterClientw, Turn, Returned
<1>5. CASE ClientBlocked(s)
  BY <1>5 DEF ClientBlocked, Turn, Returned
<1>6. CASE LeaveMainr(s)
  BY <1>6 DEF LeaveMainr
<1>7. CASE MainWritable(s)
  BY <1>7 DEF MainWritable
<1>8. CASE LinkReplaced(s)
  BY <1>8 DEF LinkReplaced
<1>9. CASE MainEvent(s)
  BY <1>9 DEF MainEvent
<1>10. CASE \E o \in Obj : ConnectLate(s, o)
  BY <1>10 DEF ConnectLate
<1> QED BY <1>1, <1>2, <1>3, <1>4, <1>5, <1>6, <1>7, <1>8, <1>9, <1>10

LEMMA PushWriterType ==
    ASSUME Types, NEW s \in Side, NEW x \in {Control} \cup Obj, PushWriter(s, x)
    PROVE  write_q' \in [Side -> Seq({Control} \cup Obj)] /\ in_mainw' \in [Side -> BOOLEAN]
<1>1. Pushed(write_q[s], x) \in Seq({Control} \cup Obj)
  BY PushedType DEF Types
<1> QED BY <1>1 DEF Types, PushWriter

LEMMA SetRkarmaType ==
    ASSUME Types, NEW s \in Side, NEW o \in Obj, NEW nk, SetRkarma(s, o, nk)
    PROVE  /\ write_q' \in [Side -> Seq({Control} \cup Obj)] /\ in_mainw' \in [Side -> BOOLEAN]
           /\ karma_q' \in [Side -> Seq(Obj)]
<1>1. karma_q' \in [Side -> Seq(Obj)]
  <2>1. karma_q[s] \in Seq(Obj) /\ karma_q \in [Side -> Seq(Obj)]
    BY DEF Types
  <2>2. Append(karma_q[s], o) \in Seq(Obj)
    BY <2>1
  <2> QED BY <2>1, <2>2 DEF SetRkarma, QueueKarma
<1>2. CASE PushWriter(s, Control)
  BY <1>1, <1>2, PushWriterType
<1>3. CASE NoPush
  BY <1>1, <1>3 DEF NoPush, Types
<1> QED BY <1>2, <1>3 DEF SetRkarma

\* Records with fields replaced by values of their types.
LEMMA WkarmaField ==
    ASSUME NEW c \in ClientRec, NEW n \in Nat
    PROVE  [c EXCEPT !.wkarma = n] \in ClientRec
BY DEF ClientRec

LEMMA SentField ==
    ASSUME NEW c \in ClientRec, NEW n \in Nat, NEW m \in Nat
    PROVE  [c EXCEPT !.wkarma = n, !.taken = m] \in ClientRec
BY DEF ClientRec

LEMMA ConnectingField ==
    ASSUME NEW c \in ClientRec, NEW b \in BOOLEAN
    PROVE  [c EXCEPT !.is_connecting = b] \in ClientRec
BY DEF ClientRec

LEMMA RdeadField ==
    ASSUME NEW c \in ClientRec, NEW b \in BOOLEAN
    PROVE  [c EXCEPT !.is_rdead = b] \in ClientRec
BY DEF ClientRec

LEMMA LifeField ==
    ASSUME NEW c \in ClientRec, NEW l \in {"unborn", "live", "burned", "freed"}
    PROVE  [c EXCEPT !.life = l] \in ClientRec
BY DEF ClientRec

LEMMA AcknowledgedField ==
    ASSUME NEW c \in ClientRec, NEW k \in {End} \cup Nat, NEW l \in {"unborn", "live", "burned", "freed"}, NEW n \in Nat
    PROVE  [c EXCEPT !.rkarma = k, !.life = l, !.granted = n] \in ClientRec
BY DEF ClientRec

LEMMA OutField ==
    ASSUME NEW c \in ClientRec, NEW u \in Seq(Obj \X Nat)
    PROVE  [c EXCEPT !.out = u] \in ClientRec
BY DEF ClientRec

LEMMA WrittenField ==
    ASSUME NEW c \in ClientRec, NEW u \in Seq(Obj \X Nat), NEW v \in Seq(Obj \X Nat), NEW k \in {End} \cup Nat
    PROVE  [c EXCEPT !.out = u, !.given = v, !.rkarma = k] \in ClientRec
BY DEF ClientRec

LEMMA FreedField ==
    ASSUME NEW c \in ClientRec
    PROVE  [c EXCEPT !.life = "freed", !.s = "closed"] \in ClientRec
BY DEF ClientRec

LEMMA DisconnectedType == ASSUME NEW c \in ClientRec PROVE Disconnected(c) \in ClientRec
BY DEF ClientRec, Disconnected, End

LEMMA NewClientType ==
    ASSUME NEW id \in 0 .. MaxId, NEW x \in {"closed", "open", "unwatched"}, NEW b \in BOOLEAN,
           NEW w \in 0 .. ClientKarma, NEW m \in {None} \cup Obj
    PROVE  NewClient(id, x, b, w, m) \in ClientRec
<1>1. <<>> \in Seq(Obj \X Nat) /\ ClientKarma - w \in Nat /\ w \in Nat /\ 0 \in Nat
  BY Numbers
<1> QED BY <1>1 DEF NewClient, ClientRec

LEMMA CreatedType ==
    ASSUME NEW id \in 1 .. MaxId, NEW from \in Obj, NEW c \in Created(id, from)
    PROVE  c \in ClientRec
<1>1. id \in 0 .. MaxId /\ 0 \in 0 .. ClientKarma /\ from \in {None} \cup Obj
  BY Numbers
<1> QED BY <1>1, NewClientType DEF Created

LEMMA UnbornType == Unborn \in ClientRec
<1>1. 0 \in 0 .. MaxId /\ 0 \in 0 .. ClientKarma
  BY Numbers
<1>2. NewClient(0, "closed", FALSE, 0, None) \in ClientRec
  BY <1>1, NewClientType
<1> QED BY <1>2, LifeField DEF Unborn

LEMMA TypesInit == Init => Types
BY Numbers, Named, UnbornType, NoPacketType DEF Init, Types, None

LEMMA TypesReadPacket ==
    ASSUME Types, NEW s \in Side, NEW crosses \in BOOLEAN, ReadPacket(s, crosses)
    PROVE  Types'
<1> USE DEF Types
<1>0. link[s] \in Seq(AnyPacket) /\ link[s] # <<>>
  BY DEF ReadPacket
<1>1. rin' \in [Side -> AnyPacket] /\ link' \in [Side -> Seq(AnyPacket)]
  <2>1. Head(link[s]) \in AnyPacket /\ Tail(link[s]) \in Seq(AnyPacket)
    BY <1>0, HeadTailProperties
  <2> QED BY <1>0, <2>1, NoPacketType DEF ReadPacket
<1>2. write_q' \in [Side -> Seq({Control} \cup Obj)] /\ in_mainw' \in [Side -> BOOLEAN]
  BY PushWriterType DEF ReadPacket, NoPush
<1>3. ack_due' \in [Side -> BOOLEAN]
  BY DEF ReadPacket
<1> QED BY <1>1, <1>2, <1>3 DEF ReadPacket

LEMMA TypesClientEvent ==
    ASSUME Types, NEW s \in Side, NEW o \in Obj, NEW flags, ClientEvent(s, o, flags)
    PROVE  Types'
<1> USE DEF Types
<1> DEFINE up == [client[s][o] EXCEPT !.is_connecting = FALSE]
<1>1. up \in ClientRec /\ client' = [client EXCEPT ![s][o] = up]
  BY ZenonT(40), ConnectingField DEF ClientEvent
<1>2. client' \in [Side -> [Obj -> ClientRec]]
  BY <1>1, ClientUpdate
<1>3. write_q' \in [Side -> Seq({Control} \cup Obj)] /\ in_mainw' \in [Side -> BOOLEAN]
  BY PushWriterType DEF ClientEvent, NoPush
<1> QED BY <1>2, <1>3 DEF ClientEvent, BetweenEvents, Returned, Turn, linkVars

LEMMA TypesConnectFails ==
    ASSUME Types, NEW s \in Side, NEW o \in Obj, ConnectFails(s, o)
    PROVE  Types'
<1> USE DEF Types
<1>1. client' \in [Side -> [Obj -> ClientRec]]
  BY DisconnectedType, ClientUpdate DEF ConnectFails
<1> QED BY <1>1, SetRkarmaType DEF ConnectFails, linkVars

LEMMA TypesWait ==
    ASSUME Types, NEW s \in Side, NEW batch \in SUBSET ({Main, Listener} \cup Obj), Wait(s, batch)
    PROVE  Types'
BY DEF Types, Wait, linkVars

LEMMA TypesFree ==
    ASSUME Types, NEW s \in Side, Free(s)
    PROVE  Types'
<1> USE DEF Types
<1>1. \A o \in Obj : [client[s][o] EXCEPT !.life = "freed", !.s = "closed"] \in ClientRec
  <2>1. ASSUME NEW o \in Obj PROVE client[s][o] \in ClientRec
    OBVIOUS
  <2> QED BY ONLY <2>1, FreedField
<1>2. client' \in [Side -> [Obj -> ClientRec]]
  BY <1>1 DEF Free
<1> QED BY <1>2 DEF Free, linkVars

LEMMA SentType ==
    ASSUME NEW c \in ClientRec, NEW k \in 0 .. c.wkarma
    PROVE  Sent(c, k) \in ClientRec
<1>1. c.wkarma - k \in Nat /\ c.taken + k \in Nat
  BY DEF ClientRec
<1> QED BY <1>1, SentField DEF Sent

LEMMA WrittenType ==
    ASSUME NEW c \in ClientRec, NEW k \in 1 .. Len(c.out), c.rkarma \in Nat
    PROVE  /\ SubSeq(c.out, k + 1, Len(c.out)) \in Seq(Obj \X Nat)
           /\ SubSeq(c.out, 1, k) \in Seq(Obj \X Nat)
           /\ [c EXCEPT !.out = SubSeq(@, k + 1, Len(@)),
                        !.given = @ \o SubSeq(c.out, 1, k), !.rkarma = @ + k] \in ClientRec
<1>1. c.out \in Seq(Obj \X Nat) /\ c.given \in Seq(Obj \X Nat)
  BY DEF ClientRec
<1>2. SubSeq(c.out, k + 1, Len(c.out)) \in Seq(Obj \X Nat) /\ SubSeq(c.out, 1, k) \in Seq(Obj \X Nat)
  BY SMTT(40), <1>1
<1>3. c.given \o SubSeq(c.out, 1, k) \in Seq(Obj \X Nat) /\ c.rkarma + k \in {End} \cup Nat
  BY SMTT(40), <1>1, <1>2, ConcatProperties
<1> QED BY <1>2, <1>3, WrittenField

LEMMA TypesClientWrite ==
    ASSUME Types, NEW s \in Side, NEW k \in 1 .. ClientKarma, ClientWrite(s, k), Busy(s), Clients(s)
    PROVE  Types'
<1> DEFINE o == cw[s]
           c == client[s][o]
           r == [c EXCEPT !.out = SubSeq(@, k + 1, Len(@)),
                          !.given = @ \o SubSeq(c.out, 1, k), !.rkarma = @ + k]
<1>1. o \in Obj /\ c \in ClientRec /\ k \in 1 .. Len(c.out)
  BY TypeFacts DEF ClientWrite
<1>2. c.rkarma \in Nat
  <2>1. CanUse(c) /\ ClientOK(c)
    BY <1>1, Named DEF ClientWrite, Busy, Clients
  <2>2. c.rkarma \in {End} \cup Nat
    BY SMTT(40), <1>1 DEF ClientRec
  <2> QED BY <2>1, <2>2 DEF CanUse, ClientOK
<1>3. client' \in [Side -> [Obj -> ClientRec]]
  <2>1. client' = [client EXCEPT ![s][o] = r]
    BY DEF ClientWrite
  <2>2. r \in ClientRec
    BY <1>1, <1>2, WrittenType
  <2> QED BY <1>1, <2>1, <2>2, ClientUpdate
<1> QED BY <1>1, <1>3, SetRkarmaType DEF ClientWrite, Types, linkVars

LEMMA TypesClientWriteFails ==
    ASSUME Types, NEW s \in Side, ClientWriteFails(s)
    PROVE  Types'
<1> USE DEF Types
<1>1. cw[s] \in Obj
  BY DEF ClientWriteFails
<1>2. client' \in [Side -> [Obj -> ClientRec]]
  BY <1>1, DisconnectedType, ClientUpdate DEF ClientWriteFails
<1> QED BY <1>1, <1>2, SetRkarmaType DEF ClientWriteFails, linkVars

LEMMA AcknowledgedType == ASSUME NEW c \in ClientRec PROVE Acknowledged(c) \in ClientRec
<1>1. 0 \in {End} \cup Nat /\ (IF c.is_rdead THEN "burned" ELSE c.life) \in {"unborn", "live", "burned", "freed"}
  BY DEF ClientRec
<1>2. (IF c.rkarma = End THEN c.granted ELSE c.granted + c.rkarma) \in Nat
  BY DEF ClientRec
<1> QED BY <1>1, <1>2, AcknowledgedField DEF Acknowledged

LEMMA TypesGrabEnd ==
    ASSUME Types, NEW s \in Side, NEW o \in Obj, GrabEnd(s, o)
    PROVE  Types'
<1> USE DEF Types
<1> DEFINE rest == Tail(write_q[s])
           queue == IF WakesControl(s, o, End) THEN Pushed(rest, Control) ELSE rest
<1>1. client' \in [Side -> [Obj -> ClientRec]]
  BY DisconnectedType, ClientUpdate DEF GrabEnd
<1>2. write_q' \in [Side -> Seq({Control} \cup Obj)]
  <2>1. write_q[s] \in Seq({Control} \cup Obj) /\ write_q[s] # <<>>
    BY DEF GrabEnd
  <2>2. rest \in Seq({Control} \cup Obj)
    BY <2>1, HeadTailProperties
  <2>3. queue \in Seq({Control} \cup Obj)
    BY <2>2, PushedType
  <2> QED BY <2>3 DEF GrabEnd
<1>3. karma_q' \in [Side -> Seq(Obj)]
  <2>1. karma_q[s] \in Seq(Obj) /\ karma_q \in [Side -> Seq(Obj)]
    OBVIOUS
  <2>2. Append(karma_q[s], o) \in Seq(Obj)
    BY <2>1, AppendProperties
  <2> QED BY <2>1, <2>2 DEF GrabEnd, QueueKarma
<1>4. in_mainw' \in [Side -> BOOLEAN]
  BY DEF GrabEnd
<1> QED BY <1>1, <1>2, <1>3, <1>4 DEF GrabEnd, linkVars, runVars

LEMMA GrabDataPacket ==
    ASSUME Types, NEW s \in Side, NEW o \in Obj, NEW k \in Nat \ {0}
    PROVE  LET c == client[s][o]
           IN [id |-> c.id, acks |-> <<>>, data |-> [i \in 1 .. k |-> <<o, c.taken + i>>]]
                \in AnyPacket
<1>1. client[s][o].id \in ControlId .. MaxId /\ client[s][o].taken \in Nat
  <2>1. client[s][o] \in ClientRec
    BY DEF Types
  <2> QED BY SMTT(40), <2>1, Numbers DEF ClientRec, ControlId
<1>2. [i \in 1 .. k |-> <<o, client[s][o].taken + i>>] \in Seq(Obj \X (Nat \ {0}))
  BY <1>1
<1>3. <<>> \in Seq(Entry)
  OBVIOUS
<1> QED BY <1>1, <1>2, <1>3 DEF AnyPacket

\* GrabData in short.
DataGrabbed(s, o, k) ==
    LET c == client[s][o]
        rest == Tail(write_q[s])
    IN /\ c \in ClientRec /\ k \in 0 .. c.wkarma /\ k \in Nat
       /\ c.life = "live" /\ Open(c)
       /\ in_mainw[s] /\ wout[s] = NoPacket /\ write_q[s] # <<>> /\ Head(write_q[s]) = o
       /\ client' = [client EXCEPT ![s][o] = Sent(c, k)]
       /\ \/ write_q' = [write_q EXCEPT ![s] = rest]
          \/ write_q' = [write_q EXCEPT ![s] = Enqueue(rest, o)] /\ k > 0
       /\ wout' = [wout EXCEPT ![s] =
             IF k = 0 THEN NoPacket
             ELSE [id |-> c.id, acks |-> <<>>, data |-> [i \in 1 .. k |-> <<o, c.taken + i>>]]]
       /\ in_mainw' = [in_mainw EXCEPT ![s] = k > 0 \/ rest # <<>>]
       /\ UNCHANGED <<table, karma_q, ack_due, link, rin, reading, cw, out_due, pending, failed>>

LEMMA GrabDataShort ==
    ASSUME Types, NEW s \in Side, NEW o \in Obj, NEW k \in 0 .. PacketSize, GrabData(s, o, k)
    PROVE  DataGrabbed(s, o, k)
<1> DEFINE c == client[s][o]
           w == c.wkarma
           rest == Tail(write_q[s])
<1>1. c \in ClientRec /\ w \in Nat
  BY TypeFacts, RecFacts
<1>2. k \in 0 .. (IF PacketSize < w THEN PacketSize ELSE w)
  BY DEF GrabData
<1>3. k \in 0 .. w /\ k \in Nat
  <2> HIDE DEF w
  <2> QED BY <1>1, <1>2, Numbers
<1>4. \/ write_q' = [write_q EXCEPT ![s] = rest]
      \/ write_q' = [write_q EXCEPT ![s] = Enqueue(rest, o)] /\ k > 0
  <2> DEFINE room == IF PacketSize < w THEN PacketSize ELSE w
             more == k = room /\ w - k > 0
  <2>1. write_q' = [write_q EXCEPT ![s] = IF more THEN Enqueue(rest, o) ELSE rest]
    BY DEF GrabData
  <2>2. more => k > 0
    <3> HIDE DEF w
    <3> QED BY <1>1, <1>3, Numbers
  <2> HIDE DEF more
  <2> QED BY <2>1, <2>2
<1> QED BY <1>1, <1>3, <1>4 DEF GrabData, DataGrabbed, runVars

LEMMA TypesGrabData ==
    ASSUME Types, NEW s \in Side, NEW o \in Obj, NEW k, DataGrabbed(s, o, k)
    PROVE  Types'
<1> DEFINE c == client[s][o]
           rest == Tail(write_q[s])
<1>1. c \in ClientRec /\ k \in 0 .. c.wkarma /\ k \in Nat
  BY DEF DataGrabbed
<1>2. client' \in [Side -> [Obj -> ClientRec]]
  BY <1>1, SentType, ClientUpdate DEF DataGrabbed
<1>3. write_q' \in [Side -> Seq({Control} \cup Obj)]
  <2>1. write_q[s] \in Seq({Control} \cup Obj) /\ write_q[s] # <<>>
    BY TypeFacts DEF DataGrabbed
  <2>2. rest \in Seq({Control} \cup Obj)
    BY <2>1, HeadTailProperties
  <2>3. Enqueue(rest, o) \in Seq({Control} \cup Obj)
    BY <2>2, EnqueueType
  <2> QED BY <2>2, <2>3 DEF DataGrabbed, Types
<1>4. wout' \in [Side -> AnyPacket]
  <2>1. CASE k = 0
    BY <2>1, NoPacketType DEF DataGrabbed, Types
  <2>2. CASE k # 0
    <3> DEFINE pk == [id |-> c.id, acks |-> <<>>, data |-> [i \in 1 .. k |-> <<o, c.taken + i>>]]
    <3>1. k \in Nat \ {0}
      BY <1>1, <2>2
    <3>2. pk \in AnyPacket
      BY <3>1, GrabDataPacket
    <3>3. wout' = [wout EXCEPT ![s] = pk] /\ wout \in [Side -> AnyPacket]
      BY <2>2 DEF DataGrabbed, Types
    <3> HIDE DEF pk
    <3> QED BY <3>2, <3>3
  <2> QED BY <2>1, <2>2
<1>5. in_mainw' \in [Side -> BOOLEAN]
  BY DEF DataGrabbed, Types
<1> QED BY <1>2, <1>3, <1>4, <1>5 DEF DataGrabbed, Types

LEMMA EntryType ==
    ASSUME Types, NEW s \in Side, NEW o \in Obj, Clients(s), client[s][o].rkarma # 0
    PROVE  [id |-> client[s][o].id, karma |-> client[s][o].rkarma, from |-> o,
            granted |-> Acknowledged(client[s][o]).granted] \in Entry
<1> DEFINE c == client[s][o]
<1>1. c \in ClientRec /\ Acknowledged(c) \in ClientRec
  BY TypeFacts, AcknowledgedType
<1>2. Acknowledged(c).granted \in Nat /\ c.rkarma \in {End} \cup (Nat \ {0})
  BY <1>1, RecFacts
<1>3. c.id \in 1 .. MaxId
  <2>1. c.life # "unborn"
    BY SMTT(40) DEF Clients, ClientOK
  <2> QED BY <2>1 DEF Clients, ClientOK
<1> QED BY <1>2, <1>3 DEF Entry

LEMMA TypesGrabControl ==
    ASSUME Types, NEW s \in Side, GrabControl(s), Clients(s), Announcers(s), failed' = "no"
    PROVE  Types'
<1> DEFINE q == karma_q[s]
           n == IF Len(q) < AckEntries THEN Len(q) ELSE AckEntries
           now == {q[i] : i \in 1 .. n}
           acks == [i \in 1 .. n |-> LET o == q[i] IN
                      [id |-> client[s][o].id, karma |-> client[s][o].rkarma,
                       from |-> o, granted |-> Acknowledged(client[s][o]).granted]]
<1>1. q \in Seq(Obj) /\ n \in 0 .. Len(q) /\ write_q[s] \in Seq({Control} \cup Obj) /\ write_q[s] # <<>>
  BY TypeFacts, Numbers DEF GrabControl
<1>2. \A i \in 1 .. n : q[i] \in Obj /\ client[s][q[i]].rkarma # 0
  <2>1. \A i \in 1 .. Len(q) : q[i] \in Obj /\ Announces(client[s][q[i]])
    BY <1>1 DEF Announcers
  <2>2. \A c : Announces(c) => c.rkarma # 0
    BY Numbers DEF Announces, End
  <2>3. \A i \in 1 .. n : i \in 1 .. Len(q)
    BY <1>1
  <2> HIDE DEF n, q
  <2> QED BY <2>1, <2>2, <2>3
<1>3. acks \in Seq(Entry)
  BY SMTT(40), <1>1, <1>2, EntryType
<1>4. wout' \in [Side -> AnyPacket]
  <2>1. [id |-> ControlId, data |-> <<>>, acks |-> acks] \in AnyPacket
    <3>1. ControlId \in ControlId .. MaxId /\ <<>> \in Seq(Obj \X (Nat \ {0}))
      BY Numbers DEF ControlId
    <3> QED BY <1>3, <3>1 DEF AnyPacket
  <2> QED BY <2>1 DEF GrabControl, Types
<1>5. karma_q' \in [Side -> Seq(Obj)]
  <2>1. SubSeq(q, n + 1, Len(q)) \in Seq(Obj)
    BY <1>1
  <2> QED BY <2>1 DEF GrabControl, Types
<1>6. client' \in [Side -> [Obj -> ClientRec]]
  <2> DEFINE F == [o \in Obj |->
                     IF o \in now THEN Acknowledged(client[s][o]) ELSE client[s][o]]
  <2>1. \A o \in Obj : client[s][o] \in ClientRec /\ Acknowledged(client[s][o]) \in ClientRec
    BY TypeFacts, AcknowledgedType
  <2>2. client' = [client EXCEPT ![s] = F]
    BY DEF GrabControl
  <2> HIDE DEF now
  <2>3. F \in [Obj -> ClientRec]
    BY <2>1
  <2>4. client \in [Side -> [Obj -> ClientRec]]
    BY DEF Types
  <2> HIDE DEF F
  <2> QED BY <2>2, <2>3, <2>4
<1>7. table' \in [Side -> [1 .. MaxId -> {None} \cup Obj]]
  <2> DEFINE F == [i \in 1 .. MaxId |->
                     IF table[s][i] \in now /\ client[s][table[s][i]].is_rdead THEN None
                     ELSE table[s][i]]
  <2>1. table' = [table EXCEPT ![s] = F]
    BY DEF GrabControl
  <2>2. table[s] \in [1 .. MaxId -> {None} \cup Obj] /\ table \in [Side -> [1 .. MaxId -> {None} \cup Obj]]
    BY DEF Types
  <2> HIDE DEF now
  <2>3. F \in [1 .. MaxId -> {None} \cup Obj]
    BY <2>2
  <2> HIDE DEF F
  <2> QED BY <2>1, <2>2, <2>3
<1>8. write_q' \in [Side -> Seq({Control} \cup Obj)]
  <2>1. Tail(write_q[s]) \in Seq({Control} \cup Obj)
    BY <1>1, HeadTailProperties
  <2>2. Enqueue(Tail(write_q[s]), Control) \in Seq({Control} \cup Obj)
    BY <2>1, EnqueueType
  <2> QED BY <2>1, <2>2 DEF GrabControl, Types
<1>9. ack_due' \in [Side -> BOOLEAN]
  BY DEF GrabControl, Types
<1> QED BY <1>4, <1>5, <1>6, <1>7, <1>8, <1>9 DEF GrabControl, Types

\* The Lowest of a set of numbers is in it.
LEMMA LowestIn == ASSUME NEW S \in SUBSET Nat, S # {} PROVE Lowest(S) \in S
<1> DEFINE R == {ss \in Nat \X Nat : ss[1] < ss[2]}
<1>1. IsWellFoundedOn(R, Nat)
  BY NatLessThanWellFounded DEF OpToRel
<1>2. \A x, y \in Nat : <<y, x>> \notin R => x <= y
  OBVIOUS
<1> HIDE DEF R
<1>3. PICK o \in S : \A x \in S : ~(<<x, o>> \in R)
  BY <1>1, WFMin
<1>4. \A x \in S : o <= x
  BY <1>2, <1>3
<1> QED BY <1>4 DEF Lowest

\* o is the number and c the record of the client that get_client returns.
Got(s, id, from, o, c) ==
    /\ o \in Obj /\ c \in ClientRec /\ id \in 1 .. MaxId /\ from \in Obj
    /\ \/ table[s][id] = o /\ c = client[s][o]
       \/ /\ s = "demux" /\ table[s][id] = None /\ client[s][o].life = "unborn"
          /\ c \in Created(id, from)

LEMMA FreshLowest ==
    ASSUME NEW s \in Side, Fresh(s) # {}
    PROVE  Lowest(Fresh(s)) \in Obj /\ client[s][Lowest(Fresh(s))].life = "unborn"
<1>1. Fresh(s) \in SUBSET Nat /\ Fresh(s) \subseteq Obj
  BY Numbers DEF Fresh, Obj
<1>2. Lowest(Fresh(s)) \in Fresh(s)
  BY <1>1, LowestIn
<1> QED BY <1>1, <1>2 DEF Fresh

LEMMA GetClientShort ==
    ASSUME Types, NEW s \in Side, NEW id \in 1 .. MaxId, NEW from \in Obj,
           CanGet(s, id), ~Unexpected(s, id), NEW t \in GetClient(s, id, from)
    PROVE  \E o, c : t = <<o, c>> /\ Got(s, id, from, o, c)
<1>1. CASE Known(s, id)
  <2>1. t = <<table[s][id], client[s][table[s][id]]>>
    BY <1>1 DEF GetClient
  <2>2. table[s][id] \in Obj
    BY <1>1, TypeFacts DEF Known
  <2>3. Got(s, id, from, table[s][id], client[s][table[s][id]])
    BY <2>2, TypeFacts DEF Got
  <2> QED BY <2>1, <2>3
<1>2. CASE ~Known(s, id)
  <2>1. s = "demux" /\ Fresh(s) # {} /\ table[s][id] = None
    BY <1>2 DEF CanGet, Unexpected, Side, Known
  <2>2. PICK c \in Created(id, from) : t = <<Lowest(Fresh(s)), c>>
    BY <1>2 DEF GetClient
  <2>3. c \in ClientRec
    BY CreatedType
  <2>4. Got(s, id, from, Lowest(Fresh(s)), c)
    BY <2>1, <2>3, FreshLowest DEF Got
  <2> QED BY <2>2, <2>4
<1> QED BY <1>1, <1>2

LEMMA GotId ==
    ASSUME NEW s \in Side, Tables(s), NEW id, NEW from, NEW o, NEW c, Got(s, id, from, o, c)
    PROVE  /\ c.id = id /\ c.life = "live"
           /\ c.mate = client[s][o].mate \/ (c.mate = from /\ client[s][o].life = "unborn")
<1>1. CASE table[s][id] = o /\ c = client[s][o]
  BY <1>1, Named DEF Got, Tables
<1>2. CASE c \in Created(id, from) /\ client[s][o].life = "unborn"
  BY <1>2 DEF Created, NewClient
<1> QED BY <1>1, <1>2 DEF Got

LEMMA TableUpdate ==
    ASSUME Types, NEW s \in Side, NEW id \in 1 .. MaxId, NEW x \in {None} \cup Obj,
           table' = [table EXCEPT ![s][id] = x]
    PROVE  /\ table' \in [Side -> [1 .. MaxId -> {None} \cup Obj]]
           /\ table'[s][id] = x
           /\ \A i \in 1 .. MaxId : i # id => table'[s][i] = table[s][i]
           /\ \A t \in Side : t # s => table'[t] = table[t]
BY DEF Types

LEMMA RinUpdate ==
    ASSUME Types, NEW s \in Side, EntryDone(s), rin[s].acks # <<>>
    PROVE  rin' \in [Side -> AnyPacket]
<1>1. rin[s] \in AnyPacket /\ rin \in [Side -> AnyPacket]
  BY TypeFacts DEF Types
<1>2. rin[s].acks \in Seq(Entry)
  BY <1>1 DEF AnyPacket
<1>3. Tail(rin[s].acks) \in Seq(Entry)
  BY <1>2, HeadTailProperties
<1> DEFINE left == [rin[s] EXCEPT !.acks = Tail(rin[s].acks)]
<1>4. left \in AnyPacket
  BY <1>1, <1>3 DEF AnyPacket
<1>5. rin' = [rin EXCEPT ![s] = IF Len(rin[s].acks) = 1 THEN NoPacket ELSE left]
  BY DEF EntryDone
<1> HIDE DEF left
<1> QED BY <1>1, <1>4, <1>5, NoPacketType

LEMMA TypesCredited ==
    ASSUME Types, NEW s \in Side, Tables(s), NEW id, NEW from, NEW o, NEW c,
           Got(s, id, from, o, c), NEW karma \in {End} \cup Nat, Credited(s, o, c, karma)
    PROVE  /\ client' \in [Side -> [Obj -> ClientRec]]
           /\ table' \in [Side -> [1 .. MaxId -> {None} \cup Obj]]
           /\ write_q' \in [Side -> Seq({Control} \cup Obj)] /\ in_mainw' \in [Side -> BOOLEAN]
           /\ karma_q' \in [Side -> Seq(Obj)]
<1>0. c.id = id
  BY GotId
<1>1. o \in Obj /\ c \in ClientRec /\ c.id \in 1 .. MaxId
  BY <1>0 DEF Got
<1>2. c.wkarma + karma \in Nat
  <2>1. c.wkarma \in Nat /\ karma \in Nat
    BY <1>1, RecFacts DEF Credited, End
  <2> QED BY <2>1
<1>3. client' \in [Side -> [Obj -> ClientRec]]
  BY <1>1, <1>2, WkarmaField, ClientUpdate DEF Credited
<1>4. table' \in [Side -> [1 .. MaxId -> {None} \cup Obj]]
  BY <1>1, TableUpdate DEF Credited
<1>5. write_q' \in [Side -> Seq({Control} \cup Obj)] /\ in_mainw' \in [Side -> BOOLEAN]
  <2>1. CASE PushWriter(s, o)
    BY <1>1, <2>1, PushWriterType
  <2>2. CASE NoPush
    BY <2>2 DEF NoPush, Types
  <2> QED BY <2>1, <2>2 DEF Credited
<1> QED BY <1>3, <1>4, <1>5 DEF Credited, Types

\* What read_ack makes of client c when the other side has closed its end.
Told(c) ==
    IF c.s = "open" THEN Disconnected([c EXCEPT !.is_rdead = TRUE])
    ELSE IF c.s = "closed" /\ c.rkarma = 0 THEN [c EXCEPT !.life = "burned"]
    ELSE [c EXCEPT !.is_rdead = TRUE]

LEMMA ToldType == ASSUME NEW c \in ClientRec PROVE Told(c) \in ClientRec
<1>1. [c EXCEPT !.is_rdead = TRUE] \in ClientRec /\ [c EXCEPT !.life = "burned"] \in ClientRec
  BY RdeadField, LifeField
<1> QED BY <1>1, DisconnectedType DEF Told

LEMMA TypesEndAnnounced ==
    ASSUME Types, NEW s \in Side, Tables(s), NEW id, NEW from, NEW o, NEW c,
           Got(s, id, from, o, c), EndAnnounced(s, o, c)
    PROVE  /\ client' \in [Side -> [Obj -> ClientRec]]
           /\ client' = [client EXCEPT ![s][o] = Told(c)]
           /\ table' \in [Side -> [1 .. MaxId -> {None} \cup Obj]]
           /\ write_q' \in [Side -> Seq({Control} \cup Obj)] /\ in_mainw' \in [Side -> BOOLEAN]
           /\ karma_q' \in [Side -> Seq(Obj)]
<1>0. c.id = id
  BY GotId
<1>1. o \in Obj /\ c \in ClientRec /\ c.id \in 1 .. MaxId
  BY <1>0 DEF Got
<1>2. client' = [client EXCEPT ![s][o] = Told(c)]
  BY DEF EndAnnounced, Told
<1>3. client' \in [Side -> [Obj -> ClientRec]]
  BY <1>1, <1>2, ToldType, ClientUpdate
<1>4. table' \in [Side -> [1 .. MaxId -> {None} \cup Obj]]
  <2>1. table' = [table EXCEPT ![s][c.id] = IF c.s = "closed" /\ c.rkarma = 0 THEN None ELSE o]
    BY DEF EndAnnounced
  <2> QED BY <1>1, <2>1, TableUpdate
<1>5. /\ write_q' \in [Side -> Seq({Control} \cup Obj)] /\ in_mainw' \in [Side -> BOOLEAN]
      /\ karma_q' \in [Side -> Seq(Obj)]
  <2>1. CASE SetRkarma(s, o, End)
    BY <1>1, <2>1, SetRkarmaType
  <2>2. CASE NoPush /\ karma_q' = karma_q
    BY <2>2 DEF NoPush, Types
  <2> QED BY <2>1, <2>2 DEF EndAnnounced
<1> QED BY <1>2, <1>3, <1>4, <1>5

LEMMA TypesReadEntry ==
    ASSUME Types, NEW s \in Side, ReadEntry(s), Tables(s),
           rin[s].id = ControlId => rin[s].acks # <<>>
    PROVE  Types'
<1> DEFINE e == Head(rin[s].acks)
<1>1. rin[s].acks # <<>> /\ e \in Entry
  <2>1. rin[s].acks # <<>> /\ rin[s] \in AnyPacket
    BY TypeFacts DEF ReadEntry
  <2>2. rin[s].acks \in Seq(Entry)
    BY <2>1 DEF AnyPacket
  <2> QED BY <2>1, <2>2, HeadTailProperties
<1>2. e.id \in 1 .. MaxId /\ e.from \in Obj /\ e.karma \in {End} \cup Nat
  BY <1>1 DEF Entry
<1>3. rin' \in [Side -> AnyPacket]
  BY <1>1, RinUpdate DEF ReadEntry
<1>4. /\ client' \in [Side -> [Obj -> ClientRec]]
      /\ table' \in [Side -> [1 .. MaxId -> {None} \cup Obj]]
      /\ write_q' \in [Side -> Seq({Control} \cup Obj)] /\ in_mainw' \in [Side -> BOOLEAN]
      /\ karma_q' \in [Side -> Seq(Obj)]
  <2>1. CASE Unexpected(s, e.id)
    BY <2>1 DEF ReadEntry, NoPush, Types
  <2>2. CASE ~Unexpected(s, e.id)
    <3>1. PICK t \in GetClient(s, e.id, e.from) :
             \/ Credited(s, t[1], t[2], e.karma)
             \/ e.karma = End /\ EndAnnounced(s, t[1], t[2])
      BY <2>2 DEF ReadEntry
    <3>2. CanGet(s, e.id)
      BY DEF ReadEntry
    <3> HIDE DEF e
    <3>3. PICK o, c : t = <<o, c>> /\ Got(s, e.id, e.from, o, c)
      BY <1>2, <2>2, <3>2, GetClientShort
    <3>4. CASE Credited(s, o, c, e.karma)
      BY <1>2, <3>3, <3>4, TypesCredited
    <3>5. CASE EndAnnounced(s, o, c)
      BY <3>3, <3>5, TypesEndAnnounced
    <3> QED BY <3>1, <3>3, <3>4, <3>5
  <2> QED BY <2>1, <2>2
<1> QED BY <1>3, <1>4 DEF ReadEntry, Types, linkVars

LEMMA FirstUnit ==
    ASSUME NEW cs, NEW pk \in AnyPacket, PacketOK(cs, pk), pk.id # ControlId,
           pk # NoPacket
    PROVE  /\ DataPacket(cs, pk) /\ pk.data \in Seq(Obj \X (Nat \ {0})) /\ pk.data # <<>>
           /\ pk.data[1][1] \in Obj /\ pk.data[1][2] \in Nat \ {0}
           /\ Len(pk.data) \in Nat \ {0}
<1>1. DataPacket(cs, pk)
  BY DEF PacketOK, ControlPacket
<1>2. pk.data \in Seq(Obj \X (Nat \ {0})) /\ pk.data # <<>>
  BY <1>1 DEF AnyPacket, DataPacket
<1>3. Len(pk.data) \in Nat \ {0} /\ pk.data[1] \in Obj \X (Nat \ {0})
  BY <1>2
<1> QED BY <1>1, <1>2, <1>3

\* A packet of data is from a client that its side has.
LEMMA DataFrom ==
    ASSUME Types, NEW s \in Side, Clients(s), NEW pk \in AnyPacket, DataPacket(client[s], pk)
    PROVE  pk.data[1][1] \in Obj /\ pk.id \in 1 .. MaxId /\ pk.id # ControlId
<1>1. pk.data \in Seq(Obj \X (Nat \ {0})) /\ pk.data # <<>>
  BY DEF AnyPacket, DataPacket
<1>2. pk.data[1] \in Obj \X (Nat \ {0})
  BY <1>1
<1>3. client[s][pk.data[1][1]].id \in 1 .. MaxId
  BY <1>2 DEF Clients, ClientOK, DataPacket
<1> QED BY <1>2, <1>3, Numbers DEF DataPacket, ControlId

LEMMA BufferedType ==
    ASSUME NEW c \in ClientRec, NEW units \in Seq(Obj \X (Nat \ {0}))
    PROVE  [c EXCEPT !.out = @ \o units] \in ClientRec
<1>1. c.out \in Seq(Obj \X Nat) /\ units \in Seq(Obj \X Nat)
  BY RecFacts
<1>2. c.out \o units \in Seq(Obj \X Nat)
  BY <1>1, ConcatProperties
<1> QED BY <1>2, OutField

LEMMA TypesReadData ==
    ASSUME Types, NEW s \in Side, ReadData(s), Tables(s), Clients(Peer(s)),
           PacketOK(client[Peer(s)], rin[s]),
           ~Unexpected(s, rin[s].id), failed' # "no_room"
    PROVE  Types'
<1> DEFINE pk == rin[s]
           x == rin[s].data[1][1]
<1>0. Peer(s) \in Side /\ pk \in AnyPacket
  BY Sides, TypeFacts
<1>1. DataPacket(client[Peer(s)], pk) /\ pk.data \in Seq(Obj \X (Nat \ {0}))
  BY <1>0, FirstUnit DEF ReadData
<1>2. x \in Obj /\ pk.id \in 1 .. MaxId
  BY <1>0, <1>1, DataFrom
<1>3. PICK o, c : Got(s, pk.id, x, o, c) /\ Buffered(s, <<o, c>>, pk.data)
  <2>1. PICK t \in GetClient(s, pk.id, x) : Buffered(s, t, pk.data)
    BY DEF ReadData
  <2>2. ~Unexpected(s, pk.id) /\ CanGet(s, pk.id)
    BY DEF ReadData
  <2> HIDE DEF pk, x
  <2>3. PICK o, c : t = <<o, c>> /\ Got(s, pk.id, x, o, c)
    BY <1>2, <2>1, <2>2, GetClientShort
  <2> QED BY <2>1, <2>3
<1>6. o \in Obj /\ c \in ClientRec /\ c.id = pk.id
  <2> HIDE DEF pk, x
  <2>1. Got(s, pk.id, x, o, c)
    BY <1>3
  <2>2. c.id = pk.id
    BY <2>1, GotId
  <2> QED BY <2>1, <2>2 DEF Got
<1>7. client' \in [Side -> [Obj -> ClientRec]]
  <2>1. client' = [client EXCEPT ![s][o] = [c EXCEPT !.out = @ \o pk.data]]
    BY <1>3 DEF Buffered
  <2>2. [c EXCEPT !.out = @ \o pk.data] \in ClientRec
    BY <1>1, <1>6, BufferedType
  <2> QED BY <1>6, <2>1, <2>2, ClientUpdate
<1>8. table' \in [Side -> [1 .. MaxId -> {None} \cup Obj]]
  <2>1. table' = [table EXCEPT ![s][c.id] = o]
    BY <1>3 DEF Buffered
  <2> QED BY <1>2, <1>6, <2>1, TableUpdate
<1>9. cw' \in [Side -> {None} \cup Obj] /\ failed' = failed
  <2>1. cw' = [cw EXCEPT ![s] = IF CanUse(c) THEN o ELSE None] /\ failed' = failed
    BY <1>3 DEF Buffered
  <2> QED BY <1>6, <2>1 DEF Types
<1>10. rin' \in [Side -> AnyPacket]
  BY NoPacketType DEF ReadData, Types
<1> QED BY <1>7, <1>8, <1>9, <1>10 DEF ReadData, Types, linkVars

\* The client that a mux accepts.
Admitted(id, o) ==
    [NewClient(id, "open", FALSE, ClientKarma, o) EXCEPT !.rkarma = ClientKarma]

\* AcceptEvent in short.
Accepted(s, o, id) ==
    LET r == Admitted(id, o)
    IN /\ o \in Obj /\ id \in 1 .. MaxId /\ r \in ClientRec
       /\ client[s][o].life = "unborn" /\ table[s][id] = None
       /\ BetweenEvents(s) /\ Listener \in pending[s]
       /\ client' = [client EXCEPT ![s][o] = r]
       /\ table' = [table EXCEPT ![s][id] = o]
       /\ SetRkarma(s, o, ClientKarma)
       /\ pending' = [pending EXCEPT ![s] = @ \ {Listener}]
       /\ UNCHANGED <<ack_due, wout, link, rin, reading, cw, out_due, failed>>

LEMMA AcceptShort ==
    ASSUME Types, NEW s \in Side, AcceptEvent(s)
    PROVE  \E o \in Obj, id \in 1 .. MaxId : Accepted(s, o, id)
<1> DEFINE o == Lowest(Fresh(s))
           id == Lowest(FreeIds(s))
           c == NewClient(id, "open", FALSE, ClientKarma, o)
<1>1. o \in Obj /\ client[s][o].life = "unborn"
  BY FreshLowest DEF AcceptEvent
<1>2. id \in 1 .. MaxId /\ table[s][id] = None
  <2>1. FreeIds(s) \in SUBSET Nat /\ FreeIds(s) \subseteq 1 .. MaxId /\ FreeIds(s) # {}
    BY Numbers DEF FreeIds, AcceptEvent
  <2>2. id \in FreeIds(s)
    BY <2>1, LowestIn
  <2> QED BY <2>1, <2>2 DEF FreeIds
<1>3. [c EXCEPT !.rkarma = ClientKarma] \in ClientRec
  <2>1. c \in ClientRec
    <3>1. id \in 0 .. MaxId /\ ClientKarma \in 0 .. ClientKarma
      BY <1>2, Numbers
    <3> HIDE DEF id, o
    <3> QED BY <1>1, <3>1, NewClientType
  <2>2. \A x \in ClientRec : [x EXCEPT !.rkarma = ClientKarma] \in ClientRec
    BY ZenonT(40), Numbers DEF ClientRec
  <2> QED BY <2>1, <2>2
<1>4. Accepted(s, o, id)
  <2>1. Admitted(id, o) \in ClientRec /\ client' = [client EXCEPT ![s][o] = Admitted(id, o)]
    BY <1>3 DEF AcceptEvent, Admitted
  <2>2. /\ BetweenEvents(s) /\ Listener \in pending[s]
        /\ table' = [table EXCEPT ![s][id] = o] /\ SetRkarma(s, o, ClientKarma)
        /\ pending' = [pending EXCEPT ![s] = @ \ {Listener}]
        /\ UNCHANGED <<ack_due, wout, link, rin, reading, cw, out_due, failed>>
    BY DEF AcceptEvent, linkVars
  <2> HIDE DEF o, id
  <2> QED BY <1>1, <1>2, <2>1, <2>2 DEF Accepted
<1> QED BY <1>1, <1>2, <1>4

LEMMA TypesAccepted ==
    ASSUME Types, NEW s \in Side, NEW o, NEW id, Accepted(s, o, id)
    PROVE  Types'
<1>1. client' \in [Side -> [Obj -> ClientRec]]
  BY ClientUpdate DEF Accepted
<1>2. table' \in [Side -> [1 .. MaxId -> {None} \cup Obj]]
  BY TableUpdate DEF Accepted
<1>3. /\ write_q' \in [Side -> Seq({Control} \cup Obj)] /\ in_mainw' \in [Side -> BOOLEAN]
      /\ karma_q' \in [Side -> Seq(Obj)]
  BY SetRkarmaType DEF Accepted
<1> QED BY <1>1, <1>2, <1>3 DEF Accepted, Types

-----------------------------------------------------------------------------
(* The write queue.                                                        *)

QueueOf == Seq({Control} \cup Obj)

LEMMA EnqueueItems ==
    ASSUME NEW q \in QueueOf, NEW x \in {Control} \cup Obj
    PROVE  LET e == Enqueue(q, x)
           IN /\ e \in QueueOf /\ Len(e) > 0 /\ e[Len(e)] = x
              /\ \/ Len(e) = Len(q) + 1 /\ \A i \in 1 .. Len(q) : e[i] = q[i]
                 \/ /\ Len(q) > 1 /\ Len(e) = Len(q) /\ q[Len(q)] = q[Len(q) - 1]
                    /\ \A i \in 1 .. Len(q) - 1 : e[i] = q[i]
<1>0. q \in Seq({Control} \cup Obj) /\ Len(q) \in Nat
  BY DEF QueueOf
<1>1. CASE Len(q) > 1 /\ q[Len(q)] = q[Len(q) - 1]
  <2>1. Enqueue(q, x) = [q EXCEPT ![Len(q)] = x]
    BY <1>1 DEF Enqueue
  <2>2. Len(q) \in 1 .. Len(q)
    BY <1>0, <1>1
  <2>3. /\ [q EXCEPT ![Len(q)] = x] \in Seq({Control} \cup Obj)
        /\ Len([q EXCEPT ![Len(q)] = x]) = Len(q)
        /\ \A i \in 1 .. Len(q) : [q EXCEPT ![Len(q)] = x][i] = IF i = Len(q) THEN x ELSE q[i]
    BY <1>0, <2>2
  <2>4. \A i \in 1 .. Len(q) - 1 : i \in 1 .. Len(q) /\ i # Len(q)
    BY <1>0
  <2> DEFINE e == [q EXCEPT ![Len(q)] = x]
  <2>5. e \in QueueOf /\ Len(e) = Len(q) /\ e[Len(q)] = x /\ \A i \in 1 .. Len(q) - 1 : e[i] = q[i]
    <3> HIDE DEF e
    <3>1. /\ e \in Seq({Control} \cup Obj) /\ Len(e) = Len(q)
          /\ \A i \in 1 .. Len(q) : e[i] = IF i = Len(q) THEN x ELSE q[i]
      BY <2>3 DEF e
    <3> QED BY <3>1, <2>2, <2>4 DEF QueueOf
  <2> HIDE DEF e
  <2>6. Len(e) > 0 /\ e[Len(e)] = x
    BY <1>0, <1>1, <2>5
  <2>7. Enqueue(q, x) = e
    BY <2>1 DEF e
  <2> QED BY <1>1, <2>5, <2>6, <2>7
<1>2. CASE ~(Len(q) > 1 /\ q[Len(q)] = q[Len(q) - 1])
  <2>1. Enqueue(q, x) = Append(q, x)
    BY <1>2 DEF Enqueue
  <2>2. /\ Append(q, x) \in Seq({Control} \cup Obj) /\ Len(Append(q, x)) = Len(q) + 1
        /\ \A i \in 1 .. Len(q) : Append(q, x)[i] = q[i]
        /\ Append(q, x)[Len(q) + 1] = x
    BY <1>0, AppendProperties
  <2> QED BY <1>0, <2>1, <2>2 DEF QueueOf
<1> QED BY <1>1, <1>2

\* Queueing a client changes nothing for the control client.
LEMMA EnqueueOther ==
    ASSUME NEW q \in QueueOf, NEW x \in Obj, Once(q, Control)
    PROVE  /\ Once(Enqueue(q, x), Control)
           /\ Queued(Enqueue(q, x), Control) <=> Queued(q, Control)
<1> DEFINE e == Enqueue(q, x)
<1>0. Len(q) \in Nat /\ x # Control
  BY Named DEF QueueOf
<1>1. /\ e \in QueueOf /\ Len(e) > 0 /\ e[Len(e)] = x /\ Len(e) \in Nat
      /\ \/ Len(e) = Len(q) + 1 /\ \A i \in 1 .. Len(q) : e[i] = q[i]
         \/ /\ Len(q) > 1 /\ Len(e) = Len(q) /\ q[Len(q)] = q[Len(q) - 1]
            /\ \A i \in 1 .. Len(q) - 1 : e[i] = q[i]
  <2>1. x \in {Control} \cup Obj
    OBVIOUS
  <2>2. \A z \in QueueOf : Len(z) \in Nat
    BY DEF QueueOf
  <2> QED BY <2>1, <2>2, EnqueueItems
<1> HIDE DEF e
<1>2. \A i \in 1 .. Len(e) : e[i] = Control => i \in 1 .. Len(q) /\ q[i] = Control
  BY <1>0, <1>1
<1>3. \A i \in 1 .. Len(q) : q[i] = Control => i \in 1 .. Len(e) /\ e[i] = Control
  <2>1. CASE Len(e) = Len(q) + 1 /\ \A i \in 1 .. Len(q) : e[i] = q[i]
    BY <2>1, <1>0
  <2>2. CASE /\ Len(q) > 1 /\ Len(e) = Len(q) /\ q[Len(q)] = q[Len(q) - 1]
             /\ \A i \in 1 .. Len(q) - 1 : e[i] = q[i]
    <3>1. Len(q) \in 1 .. Len(q) /\ Len(q) - 1 \in 1 .. Len(q) /\ Len(q) # Len(q) - 1
      BY <2>2, <1>0
    <3>2. q[Len(q)] # Control
      BY <2>2, <3>1 DEF Once
    <3>3. \A i \in 1 .. Len(q) : i # Len(q) => i \in 1 .. Len(q) - 1
      BY <1>0
    <3> QED BY <2>2, <3>2, <3>3
  <2> QED BY <1>1, <2>1, <2>2
<1>4. Once(e, Control)
  BY <1>2 DEF Once
<1>5. Queued(e, Control) <=> Queued(q, Control)
  BY <1>2, <1>3 DEF Queued
<1> QED BY <1>4, <1>5 DEF e

LEMMA EnqueueControl ==
    ASSUME NEW q \in QueueOf, ~Queued(q, Control)
    PROVE  Once(Enqueue(q, Control), Control) /\ Queued(Enqueue(q, Control), Control)
<1> DEFINE e == Enqueue(q, Control)
<1>0. Len(q) \in Nat
  BY DEF QueueOf
<1>1. /\ Len(e) > 0 /\ e[Len(e)] = Control /\ Len(e) \in Nat
      /\ Len(e) \in {Len(q), Len(q) + 1}
      /\ \A i \in 1 .. Len(e) - 1 : i \in 1 .. Len(q) /\ e[i] = q[i]
  <2>1. \A z \in QueueOf : Len(z) \in Nat
    BY DEF QueueOf
  <2>2. /\ e \in QueueOf /\ Len(e) > 0 /\ e[Len(e)] = Control
        /\ \/ Len(e) = Len(q) + 1 /\ \A i \in 1 .. Len(q) : e[i] = q[i]
           \/ /\ Len(q) > 1 /\ Len(e) = Len(q) /\ q[Len(q)] = q[Len(q) - 1]
              /\ \A i \in 1 .. Len(q) - 1 : e[i] = q[i]
    BY EnqueueItems
  <2>3. Len(e) \in Nat
    BY <2>1, <2>2
  <2> HIDE DEF e
  <2> QED BY <1>0, <2>2, <2>3
<1> HIDE DEF e
<1>2. \A i \in 1 .. Len(e) - 1 : e[i] # Control
  BY <1>1 DEF Queued
<1>3. \A i \in 1 .. Len(e) : e[i] = Control => i = Len(e)
  BY <1>1, <1>2
<1>4. Len(e) \in 1 .. Len(e)
  BY <1>1
<1>5. Queued(e, Control)
  BY <1>1, <1>4 DEF Queued
<1>6. Once(e, Control)
  BY <1>3 DEF Once
<1> QED BY <1>5, <1>6 DEF e

LEMMA TailItems ==
    ASSUME NEW q \in QueueOf, q # <<>>
    PROVE  /\ Tail(q) \in QueueOf /\ Head(q) = q[1] /\ Len(q) \in Nat \ {0}
           /\ Len(Tail(q)) = Len(q) - 1
           /\ \A i \in 1 .. Len(q) - 1 : Tail(q)[i] = q[i + 1]
BY DEF QueueOf

LEMMA TailOther ==
    ASSUME NEW q \in QueueOf, q # <<>>, Once(q, Control), Head(q) # Control
    PROVE  Once(Tail(q), Control) /\ (Queued(Tail(q), Control) <=> Queued(q, Control))
<1> DEFINE t == Tail(q)
<1>1. /\ t \in QueueOf /\ q[1] # Control /\ Len(q) \in Nat \ {0} /\ Len(t) = Len(q) - 1
      /\ \A i \in 1 .. Len(q) - 1 : t[i] = q[i + 1]
  BY TailItems
<1> HIDE DEF t
<1>2. Once(t, Control)
  <2>1. ASSUME NEW i \in 1 .. Len(t), NEW j \in 1 .. Len(t), t[i] = Control, t[j] = Control
        PROVE  i = j
    <3>1. i + 1 \in 1 .. Len(q) /\ j + 1 \in 1 .. Len(q) /\ q[i + 1] = Control /\ q[j + 1] = Control
      BY <1>1, <2>1
    <3>2. i + 1 = j + 1
      BY <3>1 DEF Once
    <3> QED BY <3>2, <1>1
  <2> QED BY <2>1 DEF Once
<1>3. \A i \in 1 .. Len(t) : i + 1 \in 1 .. Len(q) /\ t[i] = q[i + 1]
  BY <1>1
<1>4. \A i \in 1 .. Len(q) : q[i] = Control => i - 1 \in 1 .. Len(t) /\ t[i - 1] = q[i]
  <2>1. ASSUME NEW i \in 1 .. Len(q), q[i] = Control
        PROVE  i - 1 \in 1 .. Len(t) /\ t[i - 1] = q[i]
    <3>1. i # 1
      BY <1>1, <2>1
    <3>2. i - 1 \in 1 .. Len(q) - 1 /\ (i - 1) + 1 = i
      BY <1>1, <3>1
    <3> QED BY <1>1, <3>2
  <2> QED BY <2>1
<1>5. Queued(t, Control) <=> Queued(q, Control)
  BY <1>3, <1>4 DEF Queued
<1> QED BY <1>2, <1>5 DEF t

LEMMA TailControl ==
    ASSUME NEW q \in QueueOf, q # <<>>, Once(q, Control), Head(q) = Control
    PROVE  ~Queued(Tail(q), Control)
<1> DEFINE t == Tail(q)
<1>1. /\ q[1] = Control /\ Len(q) \in Nat \ {0} /\ Len(t) = Len(q) - 1
      /\ \A i \in 1 .. Len(q) - 1 : t[i] = q[i + 1]
  BY TailItems
<1> HIDE DEF t
<1>2. ASSUME NEW i \in 1 .. Len(t), t[i] = Control PROVE FALSE
  <2>1. i + 1 \in 1 .. Len(q) /\ 1 \in 1 .. Len(q) /\ q[i + 1] = Control
    BY <1>1, <1>2
  <2>2. i + 1 = 1
    BY <1>1, <2>1 DEF Once
  <2> QED BY <2>2, <1>1
<1>3. ~Queued(t, Control)
  BY <1>2 DEF Queued
<1> QED BY <1>3 DEF t

LEMMA PushedOther ==
    ASSUME NEW q \in QueueOf, NEW x \in Obj, Once(q, Control)
    PROVE  Once(Pushed(q, x), Control) /\ (Queued(Pushed(q, x), Control) <=> Queued(q, Control))
BY EnqueueOther DEF Pushed

LEMMA PushedControl ==
    ASSUME NEW q \in QueueOf, ~Queued(q, Control)
    PROVE  Once(Pushed(q, Control), Control) /\ Queued(Pushed(q, Control), Control)
<1>1. ~Linked(q, Control)
  <2>1. \A i \in 1 .. Len(q) - 1 : i \in 1 .. Len(q)
    BY DEF QueueOf
  <2> QED BY <2>1 DEF Linked, Queued
<1> QED BY <1>1, EnqueueControl DEF Pushed

-----------------------------------------------------------------------------
(* The records of the clients.                                             *)

LEMMA OKSent ==
    ASSUME NEW c \in ClientRec, NEW k \in 0 .. c.wkarma, ClientOK(c), c.life = "live"
    PROVE  ClientOK(Sent(c, k))
BY DEF ClientRec, ClientOK, Credible, Sent, Open

LEMMA OKDisconnected ==
    ASSUME NEW c \in ClientRec, ClientOK(c), c.life = "live", c.rkarma # End
    PROVE  ClientOK(Disconnected(c))
BY SMTT(40), Numbers DEF ClientRec, ClientOK, Credible, Disconnected, Open, End

LEMMA OKUp ==
    ASSUME NEW c \in ClientRec, ClientOK(c), c.life # "unborn", c.s # "unwatched"
    PROVE  ClientOK([c EXCEPT !.is_connecting = FALSE])
BY DEF ClientRec, ClientOK, Credible, Open

LEMMA OKCredited ==
    ASSUME NEW c \in ClientRec, NEW n, ClientOK(c), c.life = "live"
    PROVE  ClientOK([c EXCEPT !.wkarma = n])
BY DEF ClientRec, ClientOK, Credible, Open

LEMMA OKBuffered ==
    ASSUME NEW c \in ClientRec, NEW u, ClientOK(c), c.life = "live"
    PROVE  ClientOK([c EXCEPT !.out = u])
BY DEF ClientRec, ClientOK, Credible, Open

\* r is c after k units of its out_buf have been written.
WrittenTo(c, k, r) ==
    r = [c EXCEPT !.out = SubSeq(@, k + 1, Len(@)),
                  !.given = @ \o SubSeq(c.out, 1, k), !.rkarma = @ + k]

LEMMA WrittenFields ==
    ASSUME NEW c \in ClientRec, NEW k \in 1 .. Len(c.out), NEW r, WrittenTo(c, k, r)
    PROVE  /\ r.life = c.life /\ r.id = c.id /\ r.s = c.s /\ r.is_connecting = c.is_connecting
           /\ r.is_rdead = c.is_rdead /\ r.wkarma = c.wkarma /\ r.taken = c.taken
           /\ r.granted = c.granted /\ r.mate = c.mate /\ r.rkarma = c.rkarma + k
           /\ r.out = SubSeq(c.out, k + 1, Len(c.out)) /\ r.given = c.given \o SubSeq(c.out, 1, k)
           /\ Len(r.given) = Len(c.given) + k /\ Len(r.out) = Len(c.out) - k
<1>1. c.out \in Seq(Obj \X Nat) /\ c.given \in Seq(Obj \X Nat)
  BY RecFacts
<1>2. SubSeq(c.out, 1, k) \in Seq(Obj \X Nat) /\ Len(SubSeq(c.out, 1, k)) = k
      /\ Len(SubSeq(c.out, k + 1, Len(c.out))) = Len(c.out) - k
  <2> DEFINE q == c.out
             n == Len(q)
  <2>1. q \in Seq(Obj \X Nat) /\ n \in Nat /\ k \in 1 .. n
    BY <1>1
  <2>2. SubSeq(q, 1, k) \in Seq(Obj \X Nat) /\ Len(SubSeq(q, 1, k)) = k
    BY <2>1
  <2>3. Len(SubSeq(q, k + 1, n)) = n - k
    <3> HIDE DEF q, n
    <3>1. k + 1 \in Nat /\ n \in Nat
      BY <2>1
    <3>2. k + 1 <= n => Len(SubSeq(q, k + 1, n)) = (n - (k + 1)) + 1
      BY <2>1, <3>1 DEF n
    <3>3. k = n => Len(SubSeq(q, k + 1, n)) = 0
      BY <2>1, <3>1 DEF n
    <3> QED BY <2>1, <3>2, <3>3
  <2> QED BY <2>2, <2>3
<1>3. Len(c.given \o SubSeq(c.out, 1, k)) = Len(c.given) + k
  BY SMTT(40), <1>1, <1>2, ConcatProperties
<1>4. /\ r.life = c.life /\ r.id = c.id /\ r.s = c.s /\ r.is_connecting = c.is_connecting
      /\ r.is_rdead = c.is_rdead /\ r.wkarma = c.wkarma /\ r.taken = c.taken
      /\ r.granted = c.granted /\ r.mate = c.mate /\ r.rkarma = c.rkarma + k
      /\ r.out = SubSeq(c.out, k + 1, Len(c.out)) /\ r.given = c.given \o SubSeq(c.out, 1, k)
  BY DEF ClientRec, WrittenTo
<1> QED BY <1>2, <1>3, <1>4

LEMMA ShiftBoth ==
    ASSUME NEW w \in Nat, NEW g \in Nat, NEW a \in Nat, NEW h \in Nat, NEW k \in Nat
    PROVE  /\ a # End /\ a + k \in Nat /\ a + k # End
           /\ g + a <= w + h => g + (a + k) <= w + (h + k)
           /\ g + a = w + h => g + (a + k) = w + (h + k)
<1>1. a # End /\ a + k \in Nat /\ a + k # End
  BY DEF End
<1> QED BY <1>1

LEMMA CredibleWritten ==
    ASSUME NEW c, NEW r, NEW k \in Nat, r.rkarma = c.rkarma + k, r.granted = c.granted,
           Open(r) <=> Open(c),
           c.rkarma \in Nat, c.granted \in Nat, Len(c.given) \in Nat,
           Len(r.given) = Len(c.given) + k, Credible(c)
    PROVE  Credible(r) /\ r.rkarma \in Nat /\ r.rkarma # End
<1>2. ClientKarma \in Nat
  BY Numbers
<1> DEFINE g == c.granted
           a == c.rkarma
           h == Len(c.given)
<1>3. /\ g \in Nat /\ a \in Nat /\ h \in Nat /\ c.rkarma = a /\ r.rkarma = a + k
      /\ r.granted = g /\ Len(r.given) = h + k
  OBVIOUS
<1>4. /\ a # End => g + a <= ClientKarma + h
      /\ Open(c) => g + a = ClientKarma + h
  BY DEF Credible
<1> HIDE DEF g, a, h
<1>5. /\ a # End /\ a + k \in Nat /\ a + k # End
      /\ g + a <= ClientKarma + h => g + (a + k) <= ClientKarma + (h + k)
      /\ g + a = ClientKarma + h => g + (a + k) = ClientKarma + (h + k)
  <2>1. g \in Nat /\ a \in Nat /\ h \in Nat /\ k \in Nat
    BY <1>3
  <2> QED BY ONLY <1>2, <2>1, ShiftBoth
<1> QED BY <1>3, <1>4, <1>5 DEF Credible

LEMMA CredibleBound ==
    ASSUME NEW c, c.rkarma \in {End} \cup Nat, c.granted \in Nat, Len(c.given) \in Nat, Credible(c)
    PROVE  c.granted <= ClientKarma + Len(c.given)
<1> DEFINE g == c.granted
           h == Len(c.given)
           a == c.rkarma
<1>1. ClientKarma \in Nat /\ g \in Nat /\ h \in Nat /\ (a = End \/ a \in Nat)
  BY Numbers
<1>2. IF a = End THEN g <= ClientKarma + h ELSE g + a <= ClientKarma + h
  BY DEF Credible
<1> HIDE DEF g, h, a
<1>3. g <= ClientKarma + h
  BY ONLY <1>1, <1>2
<1> QED BY <1>3 DEF g, h

LEMMA CredibleAtFirst ==
    ASSUME NEW r, r.given = <<>>,
           \/ r.granted = 0 /\ r.rkarma = ClientKarma
           \/ r.granted = ClientKarma /\ r.rkarma = 0
    PROVE  Credible(r) /\ r.rkarma # End
BY Numbers DEF Credible, End

LEMMA OKWritten ==
    ASSUME NEW c \in ClientRec, NEW k \in Nat, NEW r, ClientOK(c), CanUse(c),
           r.life = c.life, r.id = c.id, r.s = c.s, r.is_rdead = c.is_rdead,
           r.granted = c.granted, r.rkarma = c.rkarma + k, Len(r.given) = Len(c.given) + k
    PROVE  ClientOK(r) /\ c.rkarma \in Nat /\ r.rkarma \in Nat
<1>2. c.s = "open" /\ c.rkarma \in Nat /\ c.life = "live" /\ c.granted \in Nat
  BY RecFacts DEF ClientOK, CanUse, Open
<1>3. Len(c.given) \in Nat /\ k \in Nat
  BY RecFacts
<1>4. Credible(c) /\ c.id \in 1 .. MaxId /\ ~c.is_rdead
  BY <1>2 DEF ClientOK
<1>5. Credible(r) /\ r.rkarma \in Nat /\ r.rkarma # End
  <2>1. Open(r) <=> Open(c)
    BY DEF Open
  <2> QED BY <1>2, <1>3, <1>4, <2>1, CredibleWritten
<1> QED BY <1>2, <1>4, <1>5 DEF ClientOK, Open

LEMMA OKFreed ==
    ASSUME NEW c \in ClientRec, ClientOK(c), c.life = "burned"
    PROVE  ClientOK([c EXCEPT !.life = "freed", !.s = "closed"])
BY DEF ClientRec, ClientOK, Credible, Open

LEMMA AcknowledgedFields ==
    ASSUME NEW c \in ClientRec
    PROVE  LET r == Acknowledged(c)
           IN /\ r.id = c.id /\ r.s = c.s /\ r.is_connecting = c.is_connecting
              /\ r.is_rdead = c.is_rdead /\ r.wkarma = c.wkarma /\ r.taken = c.taken
              /\ r.mate = c.mate /\ r.rkarma = 0 /\ r.out = c.out /\ r.given = c.given
              /\ r.life = (IF c.is_rdead THEN "burned" ELSE c.life)
              /\ r.granted = IF c.rkarma = End THEN c.granted ELSE c.granted + c.rkarma
BY DEF ClientRec, Acknowledged

LEMMA OKAcknowledged ==
    ASSUME NEW c \in ClientRec, ClientOK(c), Announces(c)
    PROVE  ClientOK(Acknowledged(c)) /\ c.life = "live"
<1> DEFINE r == Acknowledged(c)
<1>1. /\ r.id = c.id /\ r.s = c.s /\ r.is_connecting = c.is_connecting
      /\ r.is_rdead = c.is_rdead /\ r.rkarma = 0 /\ r.given = c.given
      /\ r.life = (IF c.is_rdead THEN "burned" ELSE c.life)
      /\ r.granted = IF c.rkarma = End THEN c.granted ELSE c.granted + c.rkarma
  BY AcknowledgedFields
<1>2. c.rkarma # 0 /\ c.life = "live" /\ (Open(c) => ~c.is_rdead)
  <2>1. c.rkarma # 0 /\ c.s \in {"closed", "open", "unwatched"}
    BY RecFacts, Numbers DEF Announces, End
  <2> QED BY <2>1 DEF ClientOK, Open
<1>3. Credible(r)
  <2>1. c.granted \in Nat /\ Len(c.given) \in Nat /\ c.rkarma \in {End} \cup Nat
    BY RecFacts
  <2>2. Credible(c) /\ (Open(c) => c.rkarma # End)
    BY DEF ClientOK
  <2> HIDE DEF r
  <2>3. Open(r) <=> Open(c)
    BY <1>1 DEF Open
  <2> DEFINE g == c.granted
             h == Len(c.given)
  <2>4. /\ g \in Nat /\ h \in Nat /\ ClientKarma \in Nat /\ Len(r.given) = h
        /\ c.rkarma = End => g <= ClientKarma + h
        /\ c.rkarma # End => g + c.rkarma <= ClientKarma + h
        /\ Open(c) => g + c.rkarma = ClientKarma + h
        /\ r.rkarma = 0 /\ r.granted = IF c.rkarma = End THEN g ELSE g + c.rkarma
    BY <1>1, <2>1, <2>2, Numbers DEF Credible
  <2> HIDE DEF g, h
  <2>5. CASE c.rkarma = End
    <3>1. r.granted = g /\ g <= ClientKarma + h /\ ~Open(c) /\ r.rkarma # End
      BY <2>2, <2>4, <2>5 DEF End
    <3>2. r.granted + r.rkarma <= ClientKarma + Len(r.given)
      BY <2>4, <3>1
    <3> QED BY <2>3, <3>1, <3>2 DEF Credible
  <2>6. CASE c.rkarma \in Nat
    <3>1. r.granted = g + c.rkarma /\ r.rkarma # End /\ c.rkarma # End
      BY <2>4, <2>6 DEF End
    <3>2. /\ r.granted + r.rkarma <= ClientKarma + Len(r.given)
          /\ Open(c) => r.granted + r.rkarma = ClientKarma + Len(r.given)
      BY <2>4, <2>6, <3>1
    <3> QED BY <2>3, <3>1, <3>2 DEF Credible
  <2> QED BY <2>1, <2>5, <2>6
<1> HIDE DEF r
<1>4. ClientOK(r)
  BY <1>1, <1>2, <1>3 DEF ClientOK, Open, End
<1> QED BY <1>2, <1>4 DEF r

LEMMA UnbornFields ==
    /\ Unborn.life = "unborn" /\ Unborn.id = 0 /\ Unborn.s = "closed" /\ Unborn.is_connecting = FALSE
    /\ Unborn.is_rdead = FALSE /\ Unborn.wkarma = 0 /\ Unborn.rkarma = 0 /\ Unborn.out = <<>>
    /\ Unborn.taken = 0 /\ Unborn.given = <<>> /\ Unborn.granted = ClientKarma /\ Unborn.mate = None
BY Numbers DEF NewClient, Unborn

LEMMA UnbornOK == ClientOK(Unborn)
BY UnbornFields, Numbers DEF ClientOK, Credible, Open, End

Newborn(c, id, from) ==
    /\ c.life = "live" /\ c.id = id /\ c.s \in {"open", "unwatched"}
    /\ c.is_connecting \in BOOLEAN /\ (c.s = "unwatched" => c.is_connecting)
    /\ c.is_rdead = FALSE /\ c.wkarma = 0 /\ c.rkarma = 0 /\ c.out = <<>>
    /\ c.taken = 0 /\ c.given = <<>> /\ c.granted = ClientKarma /\ c.mate = from

LEMMA CreatedFields ==
    ASSUME NEW id, NEW from, NEW c \in Created(id, from)
    PROVE  Newborn(c, id, from)
<1>2. CASE c = NewClient(id, "open", TRUE, 0, from)
  BY <1>2, Numbers DEF NewClient, Newborn
<1>3. CASE c = NewClient(id, "open", FALSE, 0, from)
  BY <1>3, Numbers DEF NewClient, Newborn
<1>4. CASE c = NewClient(id, "unwatched", TRUE, 0, from)
  BY <1>4, Numbers DEF NewClient, Newborn
<1> QED BY <1>2, <1>3, <1>4 DEF Created

LEMMA OKCreated ==
    ASSUME NEW id \in 1 .. MaxId, NEW from, NEW c, Newborn(c, id, from)
    PROVE  ClientOK(c)
<1>1. /\ c.life = "live" /\ c.id = id /\ c.s \in {"open", "unwatched"}
      /\ (c.s = "unwatched" => c.is_connecting) /\ c.is_rdead = FALSE
      /\ c.rkarma = 0 /\ c.given = <<>> /\ c.granted = ClientKarma
  BY DEF Newborn
<1>2. Credible(c) /\ c.rkarma # End
  BY <1>1, CredibleAtFirst
<1> QED BY <1>1, <1>2 DEF ClientOK, Open

\* The fields of a client that the mux has just accepted.
Newcomer(r, id, o) ==
    /\ r.life = "live" /\ r.id = id /\ r.s = "open" /\ r.is_connecting = FALSE
    /\ r.is_rdead = FALSE /\ r.wkarma = ClientKarma /\ r.rkarma = ClientKarma /\ r.out = <<>>
    /\ r.taken = 0 /\ r.given = <<>> /\ r.granted = 0 /\ r.mate = o

LEMMA AdmittedFields == ASSUME NEW id, NEW o PROVE Newcomer(Admitted(id, o), id, o)
<1> DEFINE b == NewClient(id, "open", FALSE, ClientKarma, o)
           r == Admitted(id, o)
<1>0. r = [b EXCEPT !.rkarma = ClientKarma]
  BY DEF Admitted
<1>1. b = [life |-> "live", id |-> id, s |-> "open", is_connecting |-> FALSE,
     is_rdead |-> FALSE, wkarma |-> ClientKarma, rkarma |-> 0, out |-> <<>>,
     taken |-> 0, given |-> <<>>, granted |-> 0, mate |-> o]
  BY Numbers DEF NewClient
<1> HIDE DEF b
<1>2. /\ r.life = "live" /\ r.id = id /\ r.s = "open" /\ r.is_connecting = FALSE
      /\ r.is_rdead = FALSE /\ r.wkarma = ClientKarma
  BY <1>0, <1>1
<1>3.
    /\ r.rkarma = ClientKarma /\ r.out = <<>>
  BY <1>0, <1>1
<1>4.
    /\ r.taken = 0 /\ r.given = <<>> /\ r.granted = 0 /\ r.mate = o
  BY <1>0, <1>1
<1> QED BY <1>4, <1>2, <1>3 DEF Newcomer

LEMMA OKAccepted ==
    ASSUME NEW id \in 1 .. MaxId, NEW o, NEW r, Newcomer(r, id, o)
    PROVE  ClientOK(r)
<1>1. /\ r.life = "live" /\ r.id = id /\ r.s = "open" /\ r.is_rdead = FALSE
      /\ r.rkarma = ClientKarma /\ r.given = <<>> /\ r.granted = 0
  BY DEF Newcomer
<1>2. Credible(r) /\ r.rkarma # End
  BY <1>1, CredibleAtFirst
<1>3. /\ r.life = "unborn" => r = Unborn
      /\ r.life # "unborn" => r.id \in 1 .. MaxId
      /\ Open(r) => r.life = "live" /\ r.rkarma # End
  BY <1>1, <1>2 DEF Open
<1>4. /\ r.s = "open" => ~r.is_rdead
      /\ r.s = "unwatched" => r.rkarma = 0 /\ r.is_connecting
  BY <1>1
<1>5. /\ r.s = "closed" => r.rkarma \in {End, 0}
      /\ r.life # "live" => r.rkarma = 0
  BY <1>1
<1>6. /\ r.life = "live" /\ ~Open(r) /\ r.is_rdead => r.rkarma = End
  BY <1>1 DEF Open
<1> QED BY <1>2, <1>3, <1>4, <1>5, <1>6 DEF ClientOK

LEMMA ToldFields ==
    ASSUME NEW c \in ClientRec
    PROVE  LET r == Told(c)
           IN /\ r.id = c.id /\ r.is_connecting = c.is_connecting
              /\ r.wkarma = c.wkarma /\ r.taken = c.taken /\ r.granted = c.granted
              /\ r.mate = c.mate /\ r.out = c.out /\ r.given = c.given
              /\ c.s = "open" => r.s = "closed" /\ r.rkarma = End /\ r.is_rdead = TRUE /\ r.life = c.life
              /\ c.s # "open" => r.s = c.s /\ r.rkarma = c.rkarma
              /\ c.s = "closed" /\ c.rkarma = 0 => r.life = "burned" /\ r.is_rdead = c.is_rdead
              /\ ~(c.s = "closed" /\ c.rkarma = 0) => r.life = c.life /\ r.is_rdead = TRUE
<1>1. CASE c.s = "open"
  BY <1>1 DEF ClientRec, Told, Disconnected
<1>2. CASE c.s = "closed" /\ c.rkarma = 0
  BY <1>2 DEF ClientRec, Told
<1>3. CASE c.s # "open" /\ ~(c.s = "closed" /\ c.rkarma = 0)
  BY <1>3 DEF ClientRec, Told
<1> QED BY <1>1, <1>2, <1>3

LEMMA OKTold ==
    ASSUME NEW c \in ClientRec, ClientOK(c), c.life = "live"
    PROVE  ClientOK(Told(c))
<1> DEFINE r == Told(c)
<1>1. /\ r.id = c.id /\ r.is_connecting = c.is_connecting
      /\ r.granted = c.granted /\ r.given = c.given
      /\ c.s = "open" => r.s = "closed" /\ r.rkarma = End /\ r.is_rdead = TRUE /\ r.life = c.life
      /\ c.s # "open" => r.s = c.s /\ r.rkarma = c.rkarma
      /\ c.s = "closed" /\ c.rkarma = 0 => r.life = "burned" /\ r.is_rdead = c.is_rdead
      /\ ~(c.s = "closed" /\ c.rkarma = 0) => r.life = c.life /\ r.is_rdead = TRUE
  BY ToldFields
<1>2. /\ c.granted \in Nat /\ Len(c.given) \in Nat /\ c.rkarma \in {End} \cup Nat
      /\ c.s \in {"closed", "open", "unwatched"}
      /\ c.is_rdead \in BOOLEAN /\ c.is_connecting \in BOOLEAN
  BY RecFacts, LenProperties
<1>3. Credible(c)
  BY DEF ClientOK
<1> SUFFICES ClientOK(r)
  OBVIOUS
<1> HIDE DEF r
<1>4. CASE c.s = "open"
  <2>1. c.rkarma # End
    BY <1>4 DEF ClientOK, Open
  <2>2. Credible(r)
    <3>1. c.granted <= ClientKarma + Len(c.given)
      BY <1>2, <1>3, CredibleBound
    <3>2. ~Open(r) /\ r.rkarma = End /\ r.granted = c.granted /\ r.given = c.given
      BY <1>1, <1>4 DEF Open
    <3> QED BY ONLY <3>1, <3>2 DEF Credible
  <2> QED BY <1>1, <1>2, <1>4, <2>2 DEF ClientOK, Open
<1>5. CASE c.s = "closed" /\ c.rkarma = 0
  <2>1. Credible(r)
    BY <1>1, <1>2, <1>3, <1>5 DEF Credible, Open
  <2> QED BY <1>1, <1>2, <1>5, <2>1 DEF ClientOK, Open
<1>6. CASE c.s = "closed" /\ c.rkarma # 0
  <2>1. Credible(r)
    BY <1>1, <1>2, <1>3, <1>6 DEF Credible, Open
  <2> QED BY <1>1, <1>2, <1>6, <2>1 DEF ClientOK, Open
<1>7. CASE c.s = "unwatched"
  <2>1. Credible(r)
    BY <1>1, <1>2, <1>3, <1>7 DEF Credible, Open
  <2> QED BY <1>1, <1>2, <1>7, <2>1 DEF ClientOK, Open
<1> QED BY <1>2, <1>4, <1>5, <1>6, <1>7

-----------------------------------------------------------------------------
(* One side by itself.                                                     *)

SameSide(t) ==
    /\ client'[t] = client[t] /\ table'[t] = table[t]
    /\ write_q'[t] = write_q[t] /\ karma_q'[t] = karma_q[t] /\ ack_due'[t] = ack_due[t]
    /\ wout'[t] = wout[t] /\ cw'[t] = cw[t] /\ out_due'[t] = out_due[t]
    /\ in_mainw'[t] = in_mainw[t] /\ pending'[t] = pending[t]

LEMMA LocalElsewhere ==
    ASSUME NEW t \in Side, SameSide(t), Local(t)
    PROVE  Local(t)'
<1>1. Clients(t)' /\ Tables(t)'
  BY DEF SameSide, Local, Clients, Tables
<1>2. Announcers(t)' /\ ControlQueued(t)'
  BY DEF SameSide, Local, Announcers, ControlQueued
<1>3. Busy(t)' /\ Watched(t)' /\ Unfinished(t)'
  BY DEF SameSide, Local, Busy, Watched, Unfinished
<1> QED BY <1>1, <1>2, <1>3 DEF Local

\* Client o of s becomes r.
ClientSet(s, o, r) ==
    /\ o \in Obj /\ r \in ClientRec /\ client'[s][o] = r
    /\ \A x \in Obj : x # o => client'[s][x] = client[s][x]

LEMMA SetKnown ==
    ASSUME Types, NEW s \in Side, NEW o, NEW r, Local(s), ClientSet(s, o, r), ClientOK(r),
           r.life = client[s][o].life, r.id = client[s][o].id, table'[s] = table[s],
           r.s = "unwatched" => client[s][o].s = "unwatched",
           pending'[s] \subseteq pending[s]
    PROVE  Clients(s)' /\ Tables(s)' /\ Watched(s)'
<1>1. Clients(s)'
  BY DEF Local, Clients, ClientSet
<1>2. Tables(s)'
  <2>1. \A x \in Obj : client'[s][x].life = client[s][x].life /\ client'[s][x].id = client[s][x].id
    BY DEF ClientSet
  <2>2. ASSUME NEW i \in 1 .. MaxId, table[s][i] # None
        PROVE  client'[s][table[s][i]].life = "live" /\ client'[s][table[s][i]].id = i
    <3>1. client[s][table[s][i]].life = "live" /\ client[s][table[s][i]].id = i
      BY <2>2 DEF Local, Tables
    <3>2. table[s][i] \in Obj
      BY <2>2, TypeFacts
    <3> QED BY <2>1, <3>1, <3>2
  <2>3. \A x \in Obj : client'[s][x].life = "live" => table'[s][client'[s][x].id] = x
    BY <2>1 DEF Local, Tables
  <2> QED BY <2>2, <2>3 DEF Tables
<1>3. Watched(s)'
  BY DEF Local, Watched, ClientSet
<1> QED BY <1>1, <1>2, <1>3

\* A new client.
LEMMA SetNew ==
    ASSUME Types, NEW s \in Side, NEW o, NEW r, NEW id \in 1 .. MaxId, Local(s),
           ClientSet(s, o, r), ClientOK(r), client[s][o].life = "unborn",
           r.life = "live", r.id = id, table[s][id] = None,
           table'[s] = [table[s] EXCEPT ![id] = o],
           pending'[s] \subseteq pending[s]
    PROVE  Clients(s)' /\ Tables(s)' /\ Watched(s)'
<1>0. table[s] \in [1 .. MaxId -> {None} \cup Obj] /\ o \in Obj /\ o # None
  BY TypeFacts, Named DEF ClientSet
<1>1. Clients(s)'
  BY DEF Local, Clients, ClientSet
<1>2. \A i \in 1 .. MaxId : table'[s][i] = IF i = id THEN o ELSE table[s][i]
  BY <1>0
<1>3. \A i \in 1 .. MaxId : table'[s][i] # None =>
         client'[s][table'[s][i]].life = "live" /\ client'[s][table'[s][i]].id = i
  <2>1. ASSUME NEW i \in 1 .. MaxId, i # id, table[s][i] # None
        PROVE  client'[s][table[s][i]].life = "live" /\ client'[s][table[s][i]].id = i
    <3>1. client[s][table[s][i]].life = "live" /\ client[s][table[s][i]].id = i
      BY <2>1 DEF Local, Tables
    <3>2. table[s][i] \in Obj /\ table[s][i] # o
      BY <1>0, <2>1, <3>1
    <3> QED BY <3>1, <3>2 DEF ClientSet
  <2> QED BY <1>0, <1>2, <2>1 DEF ClientSet
<1>4. ASSUME NEW x \in Obj, client'[s][x].life = "live"
      PROVE  table'[s][client'[s][x].id] = x
  <2>1. CASE x = o
    BY <1>2, <2>1 DEF ClientSet
  <2>2. CASE x # o
    <3>1. client'[s][x] = client[s][x] /\ client[s][x].life = "live"
      BY <1>4, <2>2 DEF ClientSet
    <3>2. table[s][client[s][x].id] = x /\ client[s][x].id \in 1 .. MaxId
      BY <3>1 DEF Local, Tables, Clients, ClientOK
    <3>3. x # None
      BY Named
    <3> QED BY <1>2, <3>1, <3>2, <3>3
  <2> QED BY <2>1, <2>2
<1>5. Watched(s)'
  BY DEF Local, Watched, ClientSet
<1> QED BY <1>1, <1>3, <1>4, <1>5 DEF Tables

\* A client is forgotten.
LEMMA SetBurned ==
    ASSUME Types, NEW s \in Side, NEW o, NEW r, NEW id \in 1 .. MaxId, Local(s),
           ClientSet(s, o, r), ClientOK(r), client[s][o].life = "live", client[s][o].id = id,
           r.life = "burned", r.s = client[s][o].s,
           table'[s] = [table[s] EXCEPT ![id] = None],
           pending'[s] \subseteq pending[s]
    PROVE  Clients(s)' /\ Tables(s)' /\ Watched(s)'
<1>0. table[s] \in [1 .. MaxId -> {None} \cup Obj] /\ o \in Obj /\ table[s][id] = o
  BY TypeFacts DEF ClientSet, Local, Tables
<1>1. Clients(s)'
  BY DEF Local, Clients, ClientSet
<1>2. \A i \in 1 .. MaxId : table'[s][i] = IF i = id THEN None ELSE table[s][i]
  BY <1>0
<1>3. \A i \in 1 .. MaxId : table'[s][i] # None =>
         client'[s][table'[s][i]].life = "live" /\ client'[s][table'[s][i]].id = i
  <2>1. ASSUME NEW i \in 1 .. MaxId, i # id, table[s][i] # None
        PROVE  client'[s][table[s][i]].life = "live" /\ client'[s][table[s][i]].id = i
    <3>1. client[s][table[s][i]].life = "live" /\ client[s][table[s][i]].id = i
      BY <2>1 DEF Local, Tables
    <3>2. table[s][i] \in Obj /\ table[s][i] # o
      BY <1>0, <2>1, <3>1
    <3> QED BY <3>1, <3>2 DEF ClientSet
  <2> QED BY <1>2, <2>1
<1>4. ASSUME NEW x \in Obj, client'[s][x].life = "live"
      PROVE  table'[s][client'[s][x].id] = x
  <2>1. client'[s][x] = client[s][x] /\ client[s][x].life = "live" /\ x # o
    BY <1>4 DEF ClientSet
  <2>2. table[s][client[s][x].id] = x /\ client[s][x].id \in 1 .. MaxId
    BY <2>1 DEF Local, Tables, Clients, ClientOK
  <2> QED BY <1>0, <1>2, <2>1, <2>2
<1>5. Watched(s)'
  BY DEF Local, Watched, ClientSet
<1> QED BY <1>1, <1>3, <1>4, <1>5 DEF Tables

LEMMA AnnouncersSame ==
    ASSUME NEW s \in Side, Announcers(s), karma_q'[s] = karma_q[s],
           \A o \in Obj : Announces(client'[s][o]) <=> Announces(client[s][o])
    PROVE  Announcers(s)'
BY DEF Announcers, Announces

\* set_rkarma queues a client when it comes to have something to announce.
LEMMA AnnouncersQueue ==
    ASSUME Types, NEW s \in Side, NEW o, NEW r, Announcers(s), ClientSet(s, o, r),
           QueueKarma(s, o, r.rkarma),
           client[s][o].rkarma = End => r.rkarma = End,
           r.rkarma # End => r.rkarma >= client[s][o].rkarma
    PROVE  Announcers(s)'
<1> DEFINE q == karma_q[s]
           old == client[s][o].rkarma
           new == r.rkarma
<1>0. /\ o \in Obj /\ q \in Seq(Obj) /\ Len(q) \in Nat /\ old \in {End} \cup Nat /\ new \in {End} \cup Nat
      /\ client'[s][o] = r
  BY TypeFacts, RecFacts DEF ClientSet
<1>1. karma_q'[s] = IF Noticed(s, o, new) THEN Append(q, o) ELSE q
  BY DEF QueueKarma, Types
<1>2. \A x \in Obj : x # o => (Announces(client'[s][x]) <=> Announces(client[s][x]))
  BY DEF ClientSet
<1>3. CASE ~Noticed(s, o, new)
  <2>1. ~(old \in 0 .. AckThreshold - 1 /\ (new = End \/ new >= AckThreshold))
    BY <1>3 DEF Noticed
  <2>2. old # End /\ ~(old >= AckThreshold) <=> old \in 0 .. AckThreshold - 1
    <3> HIDE DEF old
    <3> QED BY <1>0, Numbers DEF End
  <2>3. (new = End \/ new >= AckThreshold) <=> (old = End \/ old >= AckThreshold)
    <3>1. (old = End => new = End) /\ (new # End => new >= old)
      OBVIOUS
    <3> HIDE DEF old, new
    <3> QED BY <1>0, <2>1, <2>2, <3>1, Numbers DEF End
  <2>4. Announces(client'[s][o]) <=> Announces(client[s][o])
    BY <1>0, <2>3 DEF Announces
  <2>5. karma_q'[s] = karma_q[s]
    BY <1>1, <1>3
  <2> QED BY <1>2, <2>4, <2>5, AnnouncersSame
<1>4. CASE Noticed(s, o, new)
  <2>1. old \in 0 .. AckThreshold - 1 /\ (new = End \/ new >= AckThreshold)
    BY <1>4 DEF Noticed
  <2>2. ~Announces(client[s][o]) /\ Announces(client'[s][o])
    <3>1. old # End /\ ~(old >= AckThreshold)
      <4> HIDE DEF old
      <4> QED BY <1>0, <2>1, Numbers DEF End
    <3> QED BY <1>0, <2>1, <3>1 DEF Announces
  <2>3. \A i \in 1 .. Len(q) : q[i] # o
    BY <1>0, <2>2 DEF Announcers
  <2> DEFINE p == Append(q, o)
  <2>4. /\ Len(p) = Len(q) + 1 /\ p[Len(q) + 1] = o
        /\ \A i \in 1 .. Len(q) : p[i] = q[i]
    BY <1>0, AppendProperties
  <2>5. karma_q'[s] = p
    BY <1>1, <1>4
  <2> HIDE DEF p
  <2>6. \A i, j \in 1 .. Len(p) : p[i] = p[j] => i = j
    <3>1. \A i \in 1 .. Len(p) : i = Len(q) + 1 \/ i \in 1 .. Len(q)
      BY <1>0, <2>4
    <3>2. \A i, j \in 1 .. Len(q) : q[i] = q[j] => i = j
      BY DEF Announcers
    <3> HIDE DEF q
    <3> QED BY <2>3, <2>4, <3>1, <3>2
  <2>7. \A x \in Obj : (\E i \in 1 .. Len(p) : p[i] = x) <=> x = o \/ \E i \in 1 .. Len(q) : q[i] = x
    <3>1. \A i \in 1 .. Len(p) : i = Len(q) + 1 \/ i \in 1 .. Len(q)
      BY <1>0, <2>4
    <3>2. \A i \in 1 .. Len(q) : i \in 1 .. Len(p)
      BY <1>0, <2>4
    <3>3. Len(q) + 1 \in 1 .. Len(p)
      BY <1>0, <2>4
    <3> HIDE DEF q
    <3> QED BY <2>4, <3>1, <3>2, <3>3
  <2>8. \A x \in Obj : Announces(client'[s][x]) <=> \E i \in 1 .. Len(p) : p[i] = x
    BY <1>2, <2>2, <2>7 DEF Announcers
  <2> QED BY <2>5, <2>6, <2>8 DEF Announcers, Announces
<1> QED BY <1>3, <1>4

LEMMA QueueFacts ==
    ASSUME Types, NEW s \in Side
    PROVE  write_q[s] \in QueueOf /\ karma_q[s] \in Seq(Obj)
BY TypeFacts DEF QueueOf

LEMMA PushWriterFacts ==
    ASSUME Types, NEW s \in Side, NEW x, PushWriter(s, x)
    PROVE  write_q'[s] = Pushed(write_q[s], x) /\ in_mainw'[s] = (write_q[s] = <<>>)
BY DEF Types, PushWriter

LEMMA PushedFirst ==
    ASSUME NEW x
    PROVE  Pushed(<<>>, x) = <<x>>
<1>1. ~Linked(<<>>, x)
  BY DEF Linked
<1> QED BY <1>1 DEF Pushed, Enqueue

\* set_rkarma queues the control client when the first client is to be announced.
LEMMA ControlSet ==
    ASSUME Types, NEW s \in Side, NEW o \in Obj, NEW nk, ControlQueued(s), SetRkarma(s, o, nk),
           ack_due'[s] = ack_due[s]
    PROVE  ControlQueued(s)'
<1>0. write_q[s] \in QueueOf /\ karma_q[s] \in Seq(Obj)
  BY QueueFacts
<1>1. karma_q'[s] = IF Noticed(s, o, nk) THEN Append(karma_q[s], o) ELSE karma_q[s]
  BY DEF SetRkarma, QueueKarma, Types
<1>2. Append(karma_q[s], o) # <<>>
  <2> DEFINE p == Append(karma_q[s], o)
  <2>1. Len(p) = Len(karma_q[s]) + 1 /\ Len(karma_q[s]) \in Nat
    BY <1>0, AppendProperties
  <2> SUFFICES ASSUME p = <<>> PROVE FALSE
    OBVIOUS
  <2> HIDE DEF p
  <2>2. Len(p) = 0
    OBVIOUS
  <2> QED BY <2>1, <2>2
<1>3. CASE WakesControl(s, o, nk)
  <2>1. write_q'[s] = Pushed(write_q[s], Control)
    BY <1>3, PushWriterFacts DEF SetRkarma
  <2>2. ~Queued(write_q[s], Control)
    BY <1>3 DEF WakesControl, ControlQueued
  <2>3. Once(write_q'[s], Control) /\ Queued(write_q'[s], Control)
    BY <1>0, <2>1, <2>2, PushedControl
  <2>4. karma_q'[s] # <<>>
    BY <1>1, <1>2, <1>3 DEF WakesControl
  <2> QED BY <2>3, <2>4 DEF ControlQueued, Once, Queued
<1>4. CASE ~WakesControl(s, o, nk)
  <2>1. write_q'[s] = write_q[s]
    BY <1>4 DEF SetRkarma, NoPush
  <2>2. (ack_due[s] \/ karma_q[s] # <<>>) <=> (ack_due'[s] \/ karma_q'[s] # <<>>)
    BY <1>1, <1>2, <1>4 DEF WakesControl
  <2> QED BY <2>1, <2>2 DEF ControlQueued, Once, Queued
<1> QED BY <1>3, <1>4

LEMMA ControlPush ==
    ASSUME Types, NEW s \in Side, NEW o \in Obj, ControlQueued(s), PushWriter(s, o) \/ NoPush,
           ack_due'[s] = ack_due[s], karma_q'[s] = karma_q[s]
    PROVE  ControlQueued(s)'
<1>0. write_q[s] \in QueueOf
  BY QueueFacts
<1>1. Once(write_q'[s], Control) /\ (Queued(write_q'[s], Control) <=> Queued(write_q[s], Control))
  <2>1. CASE PushWriter(s, o)
    BY <1>0, <2>1, PushWriterFacts, PushedOther DEF ControlQueued
  <2>2. CASE NoPush
    BY <2>2 DEF NoPush, ControlQueued
  <2> QED BY <2>1, <2>2
<1> QED BY <1>1 DEF ControlQueued, Once, Queued

\* Whatever is pushed where mainw does not run is written before anything else.
LEMMA PushRuns ==
    ASSUME Types, NEW s \in Side, NEW x \in {Control} \cup Obj, ~in_mainw[s], Unfinished(s),
           PushWriter(s, x) \/ NoPush, wout'[s] = wout[s]
    PROVE  /\ Unfinished(s)'
           /\ in_mainw'[s] => write_q'[s] = <<x>>
<1>1. CASE NoPush
  BY <1>1 DEF NoPush, Unfinished
<1>2. CASE PushWriter(s, x)
  <2>1. write_q'[s] = Pushed(write_q[s], x) /\ in_mainw'[s] = (write_q[s] = <<>>)
    BY <1>2, PushWriterFacts
  <2> QED BY <2>1, PushedFirst DEF Unfinished
<1> QED BY <1>1, <1>2

LEMMA SetRuns ==
    ASSUME Types, NEW s \in Side, NEW o \in Obj, NEW nk, ~in_mainw[s], Unfinished(s),
           SetRkarma(s, o, nk), wout'[s] = wout[s]
    PROVE  /\ Unfinished(s)'
           /\ in_mainw'[s] => \A i \in 1 .. Len(write_q'[s]) : write_q'[s][i] = Control
<1>1. PushWriter(s, Control) \/ NoPush
  BY DEF SetRkarma
<1>2. Unfinished(s)' /\ (in_mainw'[s] => write_q'[s] = <<Control>>)
  BY <1>1, PushRuns
<1>3. \A i \in 1 .. Len(<<Control>>) : <<Control>>[i] = Control
  OBVIOUS
<1> QED BY <1>2, <1>3

\* Between events and at a packet nothing waits in clientw.
LEMMA BusyIdle ==
    ASSUME NEW s \in Side, Busy(s), cw[s] = None, out_due'[s] = out_due[s], cw'[s] = None
    PROVE  Busy(s)'
BY DEF Busy

LEMMA WatchedLess ==
    ASSUME Types, NEW s \in Side, Watched(s), pending'[s] \subseteq pending[s],
           client'[s] = client[s]
    PROVE  Watched(s)'
BY DEF Watched

LEMMA OtherSide ==
    ASSUME Types, NEW s \in Side, NEW t \in Side, t # s,
           \/ SkipDead(s) \/ Dump(s) \/ Stall(s)
           \/ EnterClientw(s) \/ ClientBlocked(s)
           \/ LeaveMainr(s) \/ MainWritable(s) \/ LinkReplaced(s)
           \/ MainEvent(s) \/ \E o \in Obj : ConnectLate(s, o)
    PROVE  SameSide(t)
<1> USE DEF SameSide, linkVars, runVars
<1>1. CASE SkipDead(s)
  BY <1>1 DEF SkipDead, Types
<1>2. CASE Dump(s)
  BY <1>2 DEF Dump, Types
<1>3. CASE Stall(s)
  BY <1>3 DEF Stall, Types
<1>4. CASE EnterClientw(s)
  BY <1>4 DEF EnterClientw, Types
<1>5. CASE ClientBlocked(s)
  BY <1>5 DEF ClientBlocked, Types
<1>6. CASE LeaveMainr(s)
  BY <1>6 DEF LeaveMainr, Types
<1>7. CASE MainWritable(s)
  BY <1>7 DEF MainWritable, Types
<1>8. CASE LinkReplaced(s)
  BY <1>8 DEF LinkReplaced, Types
<1>9. CASE MainEvent(s)
  BY <1>9 DEF MainEvent, Types
<1>10. CASE \E o \in Obj : ConnectLate(s, o)
  BY <1>10 DEF ConnectLate
<1> QED BY <1>1, <1>2, <1>3, <1>4, <1>5, <1>6, <1>7, <1>8, <1>9, <1>10

\* The same clients, with nothing more to announce.
SameClients(s) ==
    client'[s] = client[s] /\ table'[s] = table[s] /\ karma_q'[s] = karma_q[s]

LEMMA ClientsSame ==
    ASSUME NEW s \in Side, SameClients(s), Local(s)
    PROVE  Clients(s)' /\ Tables(s)' /\ Announcers(s)'
<1>1. Clients(s)' /\ Tables(s)'
  BY DEF SameClients, Local, Clients, Tables
<1>2. Announcers(s)'
  BY DEF SameClients, Local, Announcers
<1> QED BY <1>1, <1>2

LEMMA ControlSame ==
    ASSUME NEW s \in Side, ControlQueued(s), write_q'[s] = write_q[s], karma_q'[s] = karma_q[s],
           ack_due'[s] = ack_due[s]
    PROVE  ControlQueued(s)'
BY DEF ControlQueued

LEMMA HeadOther ==
    ASSUME Types, NEW s \in Side, Busy(s), in_mainw[s], write_q[s] # <<>>, Head(write_q[s]) # Control
    PROVE  ~(cw[s] # None /\ ~out_due[s])
<1>1. Head(write_q[s]) = write_q[s][1] /\ 1 \in 1 .. Len(write_q[s])
  BY QueueFacts, TailItems
<1> QED BY <1>1 DEF Busy

LEMMA LocalSkipDead ==
    ASSUME Types, NEW s \in Side, Local(s), SkipDead(s)
    PROVE  Local(s)'
<1>0. /\ write_q[s] # <<>> /\ Head(write_q[s]) # Control /\ in_mainw[s] /\ wout[s] = NoPacket
      /\ write_q'[s] = Tail(write_q[s]) /\ in_mainw'[s] = (Tail(write_q[s]) # <<>>)
      /\ SameClients(s) /\ ack_due'[s] = ack_due[s] /\ client'[s] = client[s]
      /\ cw'[s] = cw[s] /\ out_due'[s] = out_due[s] /\ pending'[s] = pending[s]
  BY DEF SkipDead, Types, SameClients, runVars
<1>1. ControlQueued(s)'
  <2>1. Once(write_q[s], Control) /\ write_q[s] \in QueueOf
    BY QueueFacts DEF Local, ControlQueued
  <2>2. Once(write_q'[s], Control) /\ (Queued(write_q'[s], Control) <=> Queued(write_q[s], Control))
    BY <1>0, <2>1, TailOther
  <2> QED BY <1>0, <2>2 DEF Local, ControlQueued, Once, Queued, SameClients
<1>2. Busy(s)'
  <2>1. ~(cw[s] # None /\ ~out_due[s]) /\ Busy(s)
    BY <1>0, HeadOther DEF Local
  <2> QED BY <1>0, <2>1 DEF Busy
<1>3. Watched(s)'
  BY <1>0, WatchedLess DEF Local
<1>4. Unfinished(s)'
  BY <1>0 DEF Unfinished
<1> QED BY <1>0, <1>1, <1>2, <1>3, <1>4, ClientsSame DEF Local

LEMMA LocalQuiet ==
    ASSUME Types, NEW s \in Side, Local(s),
           \/ Dump(s) \/ Stall(s) \/ EnterClientw(s) \/ ClientBlocked(s)
           \/ LeaveMainr(s) \/ MainWritable(s) \/ LinkReplaced(s)
           \/ MainEvent(s) \/ \E o \in Obj : ConnectLate(s, o)
    PROVE  Local(s)'
<1>0. /\ SameClients(s) /\ write_q'[s] = write_q[s] /\ ack_due'[s] = ack_due[s]
      /\ client'[s] = client[s] /\ pending'[s] \subseteq pending[s]
  BY DEF Dump, Stall, EnterClientw, ClientBlocked, LeaveMainr, MainWritable, LinkReplaced,
         MainEvent, ConnectLate, runVars, linkVars, SameClients, Types
<1>1. Clients(s)' /\ Tables(s)' /\ Announcers(s)' /\ ControlQueued(s)' /\ Watched(s)'
  <2>1. karma_q'[s] = karma_q[s]
    BY <1>0 DEF SameClients
  <2> QED BY <1>0, <2>1, ClientsSame, ControlSame, WatchedLess DEF Local
<1> SUFFICES Busy(s)' /\ Unfinished(s)'
  BY <1>1 DEF Local
<1>2. CASE Dump(s)
  <2>1. cw'[s] = cw[s] /\ out_due'[s] = out_due[s] /\ in_mainw[s] /\ in_mainw'[s] = (write_q[s] # <<>>)
    BY <1>2 DEF Dump, runVars, Types
  <2> QED BY <1>0, <2>1 DEF Busy, Unfinished, Local
<1>3. CASE Stall(s)
  <2>1. cw'[s] = cw[s] /\ out_due'[s] = out_due[s] /\ in_mainw[s] /\ ~in_mainw'[s] /\ wout'[s] = wout[s]
    BY <1>3 DEF Stall, runVars, linkVars, Types
  <2>2. "reconnect" \in Environment \/ wout[s] # NoPacket
    BY <1>3 DEF Stall
  <2> QED BY <1>0, <2>1, <2>2 DEF Busy, Unfinished, Local
<1>4. CASE EnterClientw(s)
  <2>1. /\ cw'[s] \in {None, cw[s]} /\ (cw'[s] # None => CanUse(client[s][cw[s]]))
        /\ ~out_due'[s] /\ ~in_mainw[s] /\ ~in_mainw'[s] /\ wout'[s] = wout[s]
    BY <1>4 DEF EnterClientw, Returned, linkVars, Types
  <2> QED BY <1>0, <2>1 DEF Busy, Unfinished, Local
<1>5. CASE ClientBlocked(s)
  <2>1. /\ cw'[s] = None /\ ~out_due'[s] /\ ~in_mainw[s] /\ ~in_mainw'[s] /\ wout'[s] = wout[s]
    BY <1>5 DEF ClientBlocked, Returned, linkVars, Types
  <2> QED BY <1>0, <2>1 DEF Busy, Unfinished, Local
<1>6. CASE LeaveMainr(s) \/ MainEvent(s) \/ \E o \in Obj : ConnectLate(s, o)
  <2>1. /\ cw[s] = None /\ cw'[s] = None /\ out_due'[s] = out_due[s]
        /\ ~in_mainw[s] /\ ~in_mainw'[s] /\ wout'[s] = wout[s]
    BY <1>6 DEF LeaveMainr, MainEvent, ConnectLate, BetweenEvents, AtMainr, Returned, linkVars, Types
  <2> QED BY <1>0, <2>1, BusyIdle DEF Unfinished, Local
<1>7. CASE MainWritable(s) \/ LinkReplaced(s)
  <2>1. /\ cw[s] = None /\ cw'[s] = None /\ out_due'[s] = out_due[s]
        /\ (~in_mainw'[s] => write_q[s] = <<>>)
    BY <1>7 DEF MainWritable, LinkReplaced, AtMainr, Returned, linkVars, runVars, Types
  <2> QED BY <1>0, <2>1, BusyIdle DEF Unfinished, Local
<1> QED BY <1>2, <1>3, <1>4, <1>5, <1>6, <1>7

LEMMA OtherSideEvents ==
    ASSUME Types, NEW s \in Side, NEW t \in Side, t # s,
           \/ \E crosses \in BOOLEAN : ReadPacket(s, crosses)
           \/ \E batch : Wait(s, batch)
           \/ \E o \in Obj : ConnectFails(s, o) \/ \E flags : ClientEvent(s, o, flags)
           \/ Free(s)
           \/ \E o, id : Accepted(s, o, id)
    PROVE  SameSide(t)
<1> USE DEF SameSide, linkVars, runVars, PushWriter, NoPush, SetRkarma, QueueKarma
<1>1. CASE \E crosses \in BOOLEAN : ReadPacket(s, crosses)
  BY <1>1 DEF ReadPacket, Types
<1>2. CASE \E batch : Wait(s, batch)
  BY <1>2 DEF Wait, Types
<1>3. CASE \E o \in Obj : ConnectFails(s, o)
  BY <1>3 DEF ConnectFails, Types
<1>4. CASE \E o \in Obj : \E flags : ClientEvent(s, o, flags)
  BY <1>4 DEF ClientEvent, Types
<1>5. CASE Free(s)
  BY <1>5 DEF Free, Types
<1>6. CASE \E o, id : Accepted(s, o, id)
  BY <1>6 DEF Accepted, Types
<1> QED BY <1>1, <1>2, <1>3, <1>4, <1>5, <1>6

LEMMA LocalWait ==
    ASSUME Types, NEW s \in Side, Local(s), NEW batch, Wait(s, batch)
    PROVE  Local(s)'
<1>0. /\ SameClients(s) /\ write_q'[s] = write_q[s] /\ ack_due'[s] = ack_due[s]
      /\ client'[s] = client[s] /\ pending'[s] = batch /\ karma_q'[s] = karma_q[s]
      /\ cw[s] = None /\ cw'[s] = None /\ out_due'[s] = out_due[s]
      /\ ~in_mainw[s] /\ ~in_mainw'[s] /\ wout'[s] = wout[s]
      /\ batch \subseteq {Main} \cup {o \in Obj : client[s][o].s = "open"}
                         \cup (IF s = "mux" THEN {Listener} ELSE {})
  BY DEF Wait, BetweenEvents, Returned, linkVars, SameClients, Types
<1>1. Watched(s)'
  <2>1. \A o \in Obj \cap batch : client[s][o].s = "open"
    BY <1>0, Named
  <2>2. \A o \in Obj : client[s][o].s = "open" => client[s][o].life # "unborn"
    BY DEF Local, Clients, ClientOK, Open
  <2>3. Listener \in batch => s = "mux"
    BY <1>0, Named DEF Listener, Main
  <2> QED BY <1>0, <2>1, <2>2, <2>3 DEF Watched
<1> QED BY <1>0, <1>1, ClientsSame, ControlSame, BusyIdle DEF Local, Unfinished

LEMMA LocalReadPacket ==
    ASSUME Types, NEW s \in Side, Local(s), NEW crosses \in BOOLEAN, ReadPacket(s, crosses)
    PROVE  Local(s)'
<1>0. /\ SameClients(s) /\ ack_due'[s] = (ack_due[s] \/ crosses)
      /\ client'[s] = client[s] /\ pending'[s] = pending[s] /\ karma_q'[s] = karma_q[s]
      /\ cw[s] = None /\ cw'[s] = None /\ out_due'[s] = out_due[s]
      /\ ~in_mainw[s] /\ wout'[s] = wout[s]
      /\ crosses => ~ack_due[s]
      /\ IF crosses /\ karma_q[s] = <<>> THEN PushWriter(s, Control) ELSE NoPush
  BY DEF ReadPacket, AtMainr, Returned, linkVars, SameClients, Types
<1>1. ControlQueued(s)'
  <2>1. CASE crosses /\ karma_q[s] = <<>>
    <3>1. ~Queued(write_q[s], Control)
      BY <1>0, <2>1 DEF Local, ControlQueued
    <3>2. write_q'[s] = Pushed(write_q[s], Control)
      BY <1>0, <2>1, PushWriterFacts
    <3>3. Once(write_q'[s], Control) /\ Queued(write_q'[s], Control)
      BY <3>1, <3>2, QueueFacts, PushedControl
    <3> QED BY <1>0, <2>1, <3>3 DEF ControlQueued, Once, Queued
  <2>2. CASE ~(crosses /\ karma_q[s] = <<>>)
    <3>1. write_q'[s] = write_q[s]
      BY <1>0, <2>2 DEF NoPush
    <3>2. ControlQueued(s) /\ (ack_due[s] \/ karma_q[s] # <<>> <=> ack_due'[s] \/ karma_q'[s] # <<>>)
      BY <1>0, <2>2 DEF Local
    <3> QED BY <3>1, <3>2 DEF ControlQueued, Once, Queued
  <2> QED BY <2>1, <2>2
<1>2. Unfinished(s)'
  BY <1>0, PushRuns DEF Local
<1>3. Busy(s)' /\ Watched(s)'
  BY <1>0, BusyIdle, WatchedLess DEF Local
<1> QED BY <1>0, <1>1, <1>2, <1>3, ClientsSame DEF Local

LEMMA LocalClientEvent ==
    ASSUME Types, NEW s \in Side, Local(s), NEW o \in Obj, NEW flags, ClientEvent(s, o, flags)
    PROVE  Local(s)'
<1> DEFINE c == client[s][o]
           up == [c EXCEPT !.is_connecting = FALSE]
<1>0. c \in ClientRec /\ ClientOK(c) /\ c.life # "unborn" /\ c.s # "unwatched" /\ o # None
  BY TypeFacts, Named DEF ClientEvent, Local, Clients, Watched
<1>1. /\ ClientOK(up) /\ up \in ClientRec /\ ClientSet(s, o, up)
      /\ up.life = c.life /\ up.id = c.id /\ up.rkarma = c.rkarma /\ up.s = c.s
  <2>1. ClientOK(up)
    BY <1>0, OKUp
  <2>2. up \in ClientRec
    BY <1>0, ConnectingField
  <2>3. up.life = c.life /\ up.id = c.id /\ up.rkarma = c.rkarma /\ up.s = c.s
    BY <1>0 DEF ClientRec
  <2>4. client' = [client EXCEPT ![s][o] = up]
    BY DEF ClientEvent
  <2> HIDE DEF up
  <2>5. ClientSet(s, o, up)
    BY ZenonT(40), <2>2, <2>4, ClientUpdate DEF ClientSet
  <2> QED BY <2>1, <2>2, <2>3, <2>5
<1>2. /\ karma_q'[s] = karma_q[s] /\ ack_due'[s] = ack_due[s] /\ table'[s] = table[s]
      /\ wout'[s] = wout[s] /\ ~in_mainw[s] /\ cw[s] = None
      /\ cw'[s] = (IF "out" \in flags THEN o ELSE None) /\ out_due'[s] = ("out" \in flags)
      /\ PushWriter(s, o) \/ NoPush
      /\ pending'[s] \subseteq pending[s]
  BY DEF ClientEvent, BetweenEvents, Returned, linkVars, Types
<1>3. Clients(s)' /\ Tables(s)' /\ Watched(s)'
  <2> HIDE DEF up
  <2> QED BY <1>1, <1>2, SetKnown
<1>4. Announcers(s)'
  <2>1. \A x \in Obj : Announces(client'[s][x]) <=> Announces(client[s][x])
    <3> HIDE DEF up
    <3> QED BY <1>1 DEF ClientSet, Announces
  <2> QED BY <1>2, <2>1, AnnouncersSame DEF Local
<1>5. ControlQueued(s)'
  BY <1>2, ControlPush DEF Local
<1>6. Unfinished(s)'
  BY <1>2, PushRuns DEF Local
<1>7. Busy(s)'
  BY <1>0, <1>2 DEF Busy
<1> QED BY <1>3, <1>4, <1>5, <1>6, <1>7 DEF Local

LEMMA LocalConnectFails ==
    ASSUME Types, NEW s \in Side, Local(s), NEW o \in Obj, ConnectFails(s, o)
    PROVE  Local(s)'
<1> DEFINE c == client[s][o]
           r == Disconnected(c)
<1>0. c \in ClientRec /\ ClientOK(c) /\ c.life = "live" /\ c.rkarma # End
  BY TypeFacts DEF ConnectFails, Local, Clients, ClientOK
<1>1. ClientOK(r) /\ r.life = c.life /\ r.id = c.id /\ r.rkarma = End /\ r.s = "closed"
  BY <1>0, OKDisconnected DEF Disconnected, ClientRec
<1>2. ClientSet(s, o, r)
  <2>1. client' = [client EXCEPT ![s][o] = r] /\ r \in ClientRec
    BY <1>0, DisconnectedType DEF ConnectFails
  <2> HIDE DEF r
  <2> QED BY ZenonT(40), <2>1, ClientUpdate DEF ClientSet
<1>3. /\ ack_due'[s] = ack_due[s] /\ table'[s] = table[s] /\ SetRkarma(s, o, End)
      /\ wout'[s] = wout[s] /\ ~in_mainw[s] /\ cw[s] = None /\ cw'[s] = None
      /\ out_due'[s] = out_due[s] /\ pending'[s] \subseteq pending[s]
  BY DEF ConnectFails, BetweenEvents, Returned, linkVars, Types
<1> HIDE DEF r
<1>4. Clients(s)' /\ Tables(s)' /\ Watched(s)'
  BY <1>1, <1>2, <1>3, SetKnown
<1>5. Announcers(s)'
  BY <1>1, <1>2, <1>3, AnnouncersQueue DEF SetRkarma, Local
<1>6. ControlQueued(s)' /\ Unfinished(s)' /\ Busy(s)'
  BY <1>3, ControlSet, SetRuns, BusyIdle DEF Local
<1> QED BY <1>4, <1>5, <1>6 DEF Local

LEMMA LocalFree ==
    ASSUME Types, NEW s \in Side, Local(s), Free(s)
    PROVE  Local(s)'
<1> DEFINE fr(c) == [c EXCEPT !.life = "freed", !.s = "closed"]
<1>0. /\ karma_q'[s] = karma_q[s] /\ ack_due'[s] = ack_due[s] /\ table'[s] = table[s]
      /\ write_q'[s] = write_q[s] /\ wout'[s] = wout[s] /\ ~in_mainw[s] /\ in_mainw'[s] = in_mainw[s]
      /\ cw[s] = None /\ cw'[s] = None
      /\ out_due'[s] = out_due[s] /\ pending'[s] = {}
  BY DEF Free, BetweenEvents, Returned, linkVars, Types
<1>1. \A o \in Obj : \/ client[s][o].life # "burned" /\ client'[s][o] = client[s][o]
                     \/ client[s][o].life = "burned" /\ client'[s][o] = fr(client[s][o])
  BY DEF Free, Types, Burned
<1>2. \A o \in Obj : client[s][o] \in ClientRec /\ ClientOK(client[s][o])
  BY TypeFacts DEF Local, Clients
<1>3. \A c \in ClientRec : fr(c).rkarma = c.rkarma /\ fr(c).life = "freed"
  BY DEF ClientRec
<1>4. \A o \in Obj : /\ ClientOK(client'[s][o])
                     /\ Announces(client'[s][o]) <=> Announces(client[s][o])
                     /\ client'[s][o].life = "live" <=> client[s][o].life = "live"
                     /\ client[s][o].life = "live" => client'[s][o] = client[s][o]
  <2>1. ASSUME NEW o \in Obj, client[s][o].life = "burned"
        PROVE  ClientOK(fr(client[s][o]))
    BY <1>2, <2>1, OKFreed
  <2> HIDE DEF fr
  <2> QED BY <1>1, <1>2, <1>3, <2>1 DEF Announces
<1> HIDE DEF fr
<1>5. Clients(s)'
  BY <1>4 DEF Clients
<1>6. Tables(s)'
  <2>1. \A i \in 1 .. MaxId : table[s][i] # None => table[s][i] \in Obj
    BY TypeFacts
  <2> QED BY <1>0, <1>4, <2>1 DEF Tables, Local
<1>7. Announcers(s)' /\ ControlQueued(s)'
  BY <1>0, <1>4, AnnouncersSame, ControlSame DEF Local
<1>8. Busy(s)' /\ Watched(s)' /\ Unfinished(s)'
  BY <1>0, BusyIdle DEF Watched, Unfinished, Local
<1> QED BY <1>5, <1>6, <1>7, <1>8 DEF Local

\* ClientWrite in short.
ClientWritten(s, o, k, r) ==
    LET c == client[s][o]
    IN /\ o \in Obj /\ cw[s] = o /\ ~out_due[s] /\ c \in ClientRec /\ k \in 1 .. Len(c.out)
       /\ CanUse(c) /\ ClientOK(c) /\ ClientOK(r) /\ r \in ClientRec
       /\ r.life = c.life /\ r.id = c.id /\ r.s = c.s /\ r.is_connecting = c.is_connecting
       /\ r.is_rdead = c.is_rdead /\ r.wkarma = c.wkarma /\ r.taken = c.taken
       /\ r.granted = c.granted /\ r.mate = c.mate /\ r.rkarma = c.rkarma + k
       /\ r.out = SubSeq(c.out, k + 1, Len(c.out)) /\ r.given = c.given \o SubSeq(c.out, 1, k)
       /\ Len(r.given) = Len(c.given) + k /\ Len(r.out) = Len(c.out) - k
       /\ c.rkarma \in Nat /\ r.rkarma \in Nat
       /\ Returned(s) /\ client' = [client EXCEPT ![s][o] = r]
       /\ SetRkarma(s, o, r.rkarma)
       /\ (cw' = [cw EXCEPT ![s] = None] \/ cw' = cw)
       /\ UNCHANGED <<table, ack_due, wout, link, rin, reading, out_due, pending, failed>>

LEMMA ClientWriteShort ==
    ASSUME Types, NEW s \in Side, NEW k, ClientWrite(s, k), Busy(s), Clients(s)
    PROVE  \E o, r : ClientWritten(s, o, k, r)
<1> DEFINE o == cw[s]
           c == client[s][o]
<1>1. o \in Obj /\ c \in ClientRec /\ k \in 1 .. Len(c.out) /\ ClientOK(c) /\ CanUse(c) /\ ~out_due[s]
  BY TypeFacts DEF ClientWrite, Busy, Clients
<1> HIDE DEF c
<1>2. k \in Nat
  <2>1. Len(c.out) \in Nat
    BY ONLY <1>1, RecFacts
  <2> QED BY ONLY <1>1, <2>1
<1>r. PICK r : WrittenTo(c, k, r)
  BY DEF WrittenTo
<1>3. /\ r.life = c.life /\ r.id = c.id /\ r.s = c.s /\ r.is_connecting = c.is_connecting
      /\ r.is_rdead = c.is_rdead /\ r.wkarma = c.wkarma /\ r.taken = c.taken
      /\ r.granted = c.granted /\ r.mate = c.mate /\ r.rkarma = c.rkarma + k
      /\ r.out = SubSeq(c.out, k + 1, Len(c.out)) /\ r.given = c.given \o SubSeq(c.out, 1, k)
      /\ Len(r.given) = Len(c.given) + k /\ Len(r.out) = Len(c.out) - k
  BY ONLY Zenon, <1>1, <1>r, WrittenFields
<1>4. ClientOK(r) /\ c.rkarma \in Nat /\ r.rkarma \in Nat
  BY ONLY <1>1, <1>2, <1>3, OKWritten
<1>5. r \in ClientRec
  BY ONLY <1>r, <1>1, <1>4, WrittenType DEF WrittenTo
<1>6. client' = [client EXCEPT ![s][o] = r]
  BY Zenon, <1>r DEF ClientWrite, WrittenTo, c
<1>7. (cw' = [cw EXCEPT ![s] = None] \/ cw' = cw)
  <2>1. cw' = [cw EXCEPT ![s] = IF k = Len(c.out) THEN None ELSE o]
    BY Zenon DEF ClientWrite, c
  <2>2. [cw EXCEPT ![s] = o] = cw
    BY SMTT(40) DEF Types
  <2> QED BY <2>1, <2>2
<1>8. /\ Returned(s) /\ SetRkarma(s, o, r.rkarma)
      /\ UNCHANGED <<table, ack_due, wout, link, rin, reading, out_due, pending, failed>>
  <2>1. SetRkarma(s, o, c.rkarma + k)
    BY Zenon DEF ClientWrite, c
  <2>2. SetRkarma(s, o, r.rkarma)
    BY ONLY Zenon, <1>3, <2>1
  <2>3. /\ Returned(s)
        /\ UNCHANGED <<table, ack_due, wout, link, rin, reading, out_due, pending, failed>>
    BY Zenon DEF ClientWrite, linkVars
  <2> QED BY ONLY Zenon, <2>2, <2>3
<1>9. ClientWritten(s, o, k, r)
  BY <1>1, <1>3, <1>4, <1>5, <1>6, <1>7, <1>8 DEF ClientWritten, c
<1> QED BY <1>9

LEMMA LocalClientWritten ==
    ASSUME Types, NEW s \in Side, Local(s), NEW o, NEW k, NEW r, ClientWritten(s, o, k, r)
    PROVE  Local(s)' /\ \A t \in Side : t # s => SameSide(t)
<1>1. ClientSet(s, o, r)
  <2>1. o \in Obj /\ r \in ClientRec /\ client' = [client EXCEPT ![s][o] = r]
    BY DEF ClientWritten
  <2> QED BY ZenonT(40), <2>1, ClientUpdate DEF ClientSet
<1>2. /\ ack_due'[s] = ack_due[s] /\ table'[s] = table[s] /\ SetRkarma(s, o, r.rkarma)
      /\ wout'[s] = wout[s] /\ ~in_mainw[s] /\ cw'[s] \in {cw[s], None} /\ cw[s] = o
      /\ out_due'[s] = out_due[s] /\ ~out_due[s] /\ pending'[s] \subseteq pending[s]
      /\ ClientOK(r) /\ r.life = client[s][o].life /\ r.id = client[s][o].id
      /\ r.s = client[s][o].s /\ r.is_connecting = client[s][o].is_connecting /\ CanUse(client[s][o])
      /\ r.rkarma \in Nat /\ client[s][o].rkarma \in Nat /\ o \in Obj
  BY DEF ClientWritten, Returned, Types
<1>3. r.rkarma >= client[s][o].rkarma
  <2>1. r.rkarma = client[s][o].rkarma + k /\ k \in 1 .. Len(client[s][o].out)
    BY DEF ClientWritten
  <2>2. Len(client[s][o].out) \in Nat
    <3>1. client[s][o] \in ClientRec
      BY Zenon DEF ClientWritten
    <3> QED BY ONLY <3>1, RecFacts
  <2> QED BY <1>2, <2>1, <2>2
<1>4. client[s][o].rkarma # End
  BY <1>2 DEF End
<1>5. Clients(s)' /\ Tables(s)' /\ Watched(s)'
  BY <1>1, <1>2, SetKnown
<1>6. Announcers(s)'
  BY <1>1, <1>2, <1>3, <1>4, AnnouncersQueue DEF SetRkarma, Local
<1>7. ControlQueued(s)' /\ Unfinished(s)'
  BY <1>2, ControlSet, SetRuns DEF Local
<1>8. Busy(s)'
  <2>1. in_mainw'[s] => \A i \in 1 .. Len(write_q'[s]) : write_q'[s][i] = Control
    BY <1>2, SetRuns DEF Local
  <2>2. CanUse(client'[s][o])
    BY <1>1, <1>2 DEF ClientSet, CanUse, Open
  <2> QED BY <1>2, <2>1, <2>2 DEF Busy
<1>9. \A t \in Side : t # s => SameSide(t)
  BY DEF ClientWritten, SameSide, SetRkarma, QueueKarma, PushWriter, NoPush, Types
<1> QED BY <1>5, <1>6, <1>7, <1>8, <1>9 DEF Local

LEMMA LocalClientWriteFails ==
    ASSUME Types, NEW s \in Side, Local(s), ClientWriteFails(s)
    PROVE  Local(s)' /\ \A t \in Side : t # s => SameSide(t)
<1> DEFINE o == cw[s]
           c == client[s][o]
           r == Disconnected(c)
<1>0. o \in Obj /\ c \in ClientRec /\ ClientOK(c) /\ CanUse(c) /\ c.life = "live" /\ c.rkarma # End
  BY TypeFacts DEF ClientWriteFails, Local, Clients, ClientOK, Busy, CanUse
<1>1. ClientOK(r) /\ r.life = c.life /\ r.id = c.id /\ r.rkarma = End /\ r.s = "closed"
  BY <1>0, OKDisconnected DEF Disconnected, ClientRec
<1>2. ClientSet(s, o, r)
  <2>1. client' = [client EXCEPT ![s][o] = r] /\ r \in ClientRec
    BY <1>0, DisconnectedType DEF ClientWriteFails
  <2> HIDE DEF r
  <2> QED BY ZenonT(40), <1>0, <2>1, ClientUpdate DEF ClientSet
<1>3. /\ ack_due'[s] = ack_due[s] /\ table'[s] = table[s] /\ SetRkarma(s, o, End)
      /\ wout'[s] = wout[s] /\ ~in_mainw[s] /\ cw'[s] = None
      /\ out_due'[s] = out_due[s] /\ ~out_due[s] /\ pending'[s] \subseteq pending[s]
  BY DEF ClientWriteFails, Returned, linkVars, Types
<1> HIDE DEF r
<1>4. Clients(s)' /\ Tables(s)' /\ Watched(s)'
  BY <1>1, <1>2, <1>3, SetKnown
<1>5. Announcers(s)'
  BY <1>1, <1>2, <1>3, AnnouncersQueue DEF SetRkarma, Local
<1>6. ControlQueued(s)' /\ Unfinished(s)'
  BY <1>0, <1>3, ControlSet, SetRuns DEF Local
<1>7. Busy(s)'
  BY <1>3 DEF Busy
<1>8. \A t \in Side : t # s => SameSide(t)
  BY DEF ClientWriteFails, SameSide, SetRkarma, QueueKarma, PushWriter, NoPush, Types, linkVars
<1> QED BY <1>4, <1>5, <1>6, <1>7, <1>8 DEF Local

LEMMA LocalGrabEnd ==
    ASSUME Types, NEW s \in Side, Local(s), NEW o \in Obj, GrabEnd(s, o)
    PROVE  Local(s)' /\ \A t \in Side : t # s => SameSide(t)
<1> DEFINE c == client[s][o]
           r == Disconnected(c)
           rest == Tail(write_q[s])
           queue == IF WakesControl(s, o, End) THEN Pushed(rest, Control) ELSE rest
<1>0. c \in ClientRec /\ ClientOK(c) /\ c.life = "live" /\ c.rkarma # End
  BY TypeFacts DEF GrabEnd, Local, Clients, ClientOK
<1>1. ClientOK(r) /\ r.life = c.life /\ r.id = c.id /\ r.rkarma = End /\ r.s = "closed"
  BY <1>0, OKDisconnected DEF Disconnected, ClientRec
<1>2. ClientSet(s, o, r)
  <2>1. client' = [client EXCEPT ![s][o] = r] /\ r \in ClientRec
    BY <1>0, DisconnectedType DEF GrabEnd
  <2> HIDE DEF r
  <2> QED BY <2>1, ClientUpdate DEF ClientSet
<1>3. /\ ack_due'[s] = ack_due[s] /\ table'[s] = table[s] /\ QueueKarma(s, o, End)
      /\ wout[s] = NoPacket /\ wout'[s] = wout[s] /\ in_mainw[s] /\ cw'[s] = cw[s]
      /\ out_due'[s] = out_due[s] /\ pending'[s] \subseteq pending[s]
      /\ write_q[s] # <<>> /\ Head(write_q[s]) # Control
      /\ write_q'[s] = queue /\ in_mainw'[s] = (queue # <<>>)
  BY Named DEF GrabEnd, linkVars, runVars, Types
<1> HIDE DEF r
<1>4. Clients(s)' /\ Tables(s)' /\ Watched(s)'
  BY <1>1, <1>2, <1>3, SetKnown
<1>5. Announcers(s)'
  BY <1>1, <1>2, <1>3, AnnouncersQueue DEF Local
<1>6. ControlQueued(s)'
  <2>0. write_q[s] \in QueueOf /\ Once(write_q[s], Control)
    BY QueueFacts DEF Local, ControlQueued
  <2>1. Once(rest, Control) /\ (Queued(rest, Control) <=> Queued(write_q[s], Control)) /\ rest \in QueueOf
    BY <1>3, <2>0, TailOther, TailItems
  <2>2. karma_q'[s] = IF Noticed(s, o, End) THEN Append(karma_q[s], o) ELSE karma_q[s]
    BY <1>3 DEF QueueKarma, Types
  <2>3. Append(karma_q[s], o) # <<>>
    <3>1. karma_q[s] \in Seq(Obj)
      BY QueueFacts
    <3> DEFINE p == Append(karma_q[s], o)
    <3>2. Len(p) = Len(karma_q[s]) + 1 /\ Len(karma_q[s]) \in Nat
      BY <3>1, AppendProperties
    <3> SUFFICES ASSUME p = <<>> PROVE FALSE
      OBVIOUS
    <3> HIDE DEF p
    <3>3. Len(p) = 0
      OBVIOUS
    <3> QED BY <3>2, <3>3
  <2> HIDE DEF rest
  <2>4. CASE WakesControl(s, o, End)
    <3>1. ~Queued(rest, Control)
      BY <2>1, <2>4 DEF WakesControl, ControlQueued, Local
    <3>2. Once(write_q'[s], Control) /\ Queued(write_q'[s], Control)
      BY <1>3, <2>1, <2>4, <3>1, PushedControl
    <3>3. karma_q'[s] # <<>>
      BY <2>2, <2>3, <2>4 DEF WakesControl
    <3> QED BY <3>2, <3>3 DEF ControlQueued, Once, Queued
  <2>5. CASE ~WakesControl(s, o, End)
    <3>1. write_q'[s] = rest
      BY <1>3, <2>5
    <3>2. (ack_due[s] \/ karma_q[s] # <<>>) <=> (ack_due'[s] \/ karma_q'[s] # <<>>)
      BY <1>3, <2>2, <2>3, <2>5 DEF WakesControl
    <3> QED BY <2>1, <3>1, <3>2 DEF ControlQueued, Once, Queued, Local
  <2> QED BY <2>4, <2>5
<1>7. Busy(s)'
  <2>1. ~(cw[s] # None /\ ~out_due[s]) /\ Busy(s)
    BY <1>3, HeadOther DEF Local
  <2> QED BY <1>3, <2>1 DEF Busy
<1>8. Unfinished(s)'
  BY <1>3 DEF Unfinished
<1>9. \A t \in Side : t # s => SameSide(t)
  BY DEF GrabEnd, SameSide, QueueKarma, Types, linkVars, runVars
<1> QED BY <1>4, <1>5, <1>6, <1>7, <1>8, <1>9 DEF Local

LEMMA SentFields ==
    ASSUME NEW c \in ClientRec, NEW k \in Nat
    PROVE  LET r == Sent(c, k)
           IN /\ r.life = c.life /\ r.id = c.id /\ r.s = c.s /\ r.is_connecting = c.is_connecting
              /\ r.is_rdead = c.is_rdead /\ r.wkarma = c.wkarma - k /\ r.taken = c.taken + k
              /\ r.granted = c.granted /\ r.mate = c.mate /\ r.rkarma = c.rkarma
              /\ r.out = c.out /\ r.given = c.given
BY DEF ClientRec, Sent

LEMMA LocalGrabData ==
    ASSUME Types, NEW s \in Side, Local(s), NEW o \in Obj, NEW k, DataGrabbed(s, o, k)
    PROVE  Local(s)' /\ \A t \in Side : t # s => SameSide(t)
<1> DEFINE c == client[s][o]
           r == Sent(c, k)
           rest == Tail(write_q[s])
<1>0. c \in ClientRec /\ ClientOK(c) /\ c.life = "live" /\ k \in 0 .. c.wkarma /\ k \in Nat
  BY TypeFacts DEF DataGrabbed, Local, Clients
<1>1. /\ ClientOK(r) /\ r \in ClientRec
      /\ r.life = c.life /\ r.id = c.id /\ r.rkarma = c.rkarma /\ r.s = c.s
  BY <1>0, OKSent, SentFields, SentType
<1>2. ClientSet(s, o, r)
  <2>1. client' = [client EXCEPT ![s][o] = r]
    BY DEF DataGrabbed
  <2> HIDE DEF r
  <2> QED BY ZenonT(40), <1>1, <2>1, ClientUpdate DEF ClientSet
<1>3. /\ ack_due'[s] = ack_due[s] /\ table'[s] = table[s] /\ karma_q'[s] = karma_q[s]
      /\ wout[s] = NoPacket /\ in_mainw[s] /\ cw'[s] = cw[s]
      /\ out_due'[s] = out_due[s] /\ pending'[s] \subseteq pending[s]
      /\ write_q[s] # <<>> /\ Head(write_q[s]) # Control
      /\ write_q'[s] = rest \/ (write_q'[s] = Enqueue(rest, o) /\ k > 0)
      /\ in_mainw'[s] = (k > 0 \/ rest # <<>>)
  BY Named DEF DataGrabbed, Types
<1> HIDE DEF r
<1>4. Clients(s)' /\ Tables(s)' /\ Watched(s)'
  BY <1>1, <1>2, <1>3, SetKnown
<1>5. Announcers(s)'
  <2>1. \A x \in Obj : Announces(client'[s][x]) <=> Announces(client[s][x])
    BY <1>1, <1>2 DEF ClientSet, Announces
  <2> QED BY <1>3, <2>1, AnnouncersSame DEF Local
<1>6. ControlQueued(s)'
  <2>0. write_q[s] \in QueueOf /\ Once(write_q[s], Control)
    BY QueueFacts DEF Local, ControlQueued
  <2>1. Once(rest, Control) /\ (Queued(rest, Control) <=> Queued(write_q[s], Control)) /\ rest \in QueueOf
    BY <1>3, <2>0, TailOther, TailItems
  <2> HIDE DEF rest
  <2>2. Once(write_q'[s], Control) /\ (Queued(write_q'[s], Control) <=> Queued(write_q[s], Control))
    BY <1>3, <2>1, EnqueueOther
  <2> QED BY <1>3, <2>2 DEF ControlQueued, Once, Queued, Local
<1>7. Busy(s)'
  <2>1. ~(cw[s] # None /\ ~out_due[s]) /\ Busy(s)
    BY <1>3, HeadOther DEF Local
  <2> QED BY <1>3, <2>1 DEF Busy
<1>8. Unfinished(s)'
  BY <1>3 DEF Unfinished
<1>9. \A t \in Side : t # s => SameSide(t)
  BY DEF DataGrabbed, SameSide, Types
<1> QED BY <1>4, <1>5, <1>6, <1>7, <1>8, <1>9 DEF Local

\* GrabControl in short: the clients of now, the first n of the queue, are in the packet pk.
ControlGrabbed(s, n, now, pk) ==
    LET q == karma_q[s]
    IN /\ q \in Seq(Obj) /\ n \in 0 .. Len(q) /\ now = {q[i] : i \in 1 .. n} /\ now \subseteq Obj
       /\ \A o \in now : Announces(client[s][o])
       /\ in_mainw[s] /\ wout[s] = NoPacket
       /\ write_q[s] # <<>> /\ Head(write_q[s]) = Control
       /\ \A o \in Obj : client'[s][o] = IF o \in now THEN Acknowledged(client[s][o]) ELSE client[s][o]
       /\ \A t \in Side : t # s => client'[t] = client[t]
       /\ \A i \in 1 .. MaxId : table'[s][i] =
            IF table[s][i] \in now /\ client[s][table[s][i]].is_rdead THEN None ELSE table[s][i]
       /\ \A t \in Side : t # s => table'[t] = table[t]
       /\ pk \in AnyPacket /\ pk.id = ControlId /\ pk.data = <<>> /\ Len(pk.acks) = n
       /\ \A i \in 1 .. n : pk.acks[i] =
            [id |-> client[s][q[i]].id, karma |-> client[s][q[i]].rkarma,
             from |-> q[i], granted |-> Acknowledged(client[s][q[i]]).granted]
       /\ wout' = [wout EXCEPT ![s] = pk]
       /\ karma_q' = [karma_q EXCEPT ![s] = SubSeq(q, n + 1, Len(q))]
       /\ ack_due' = [ack_due EXCEPT ![s] = FALSE]
       /\ write_q' = [write_q EXCEPT ![s] =
            IF Len(q) > n THEN Enqueue(Tail(write_q[s]), Control) ELSE Tail(write_q[s])]
       /\ UNCHANGED <<in_mainw, link, rin, reading, cw, out_due, pending, failed>>

\* The assertions of write_ack hold.
LEMMA ControlSound ==
    ASSUME Types, NEW s \in Side, Local(s), GrabControl(s),
           \A o \in Obj : client[s][o].rkarma <= ClientKarma
    PROVE  failed' = "no"
<1> DEFINE q == karma_q[s]
           n == IF Len(q) < AckEntries THEN Len(q) ELSE AckEntries
           now == {q[i] : i \in 1 .. n}
           sound == /\ ack_due[s] \/ q # <<>>
                    /\ \A o \in now : LET c == client[s][o] IN
                         /\ c.rkarma = End \/ c.rkarma \in AckThreshold .. ClientKarma
                         /\ c.is_rdead => c.rkarma = End
<1>0. q \in Seq(Obj) /\ Len(q) \in Nat
  BY QueueFacts
<1>1. \A i \in 1 .. n : i \in 1 .. Len(q)
  BY <1>0, Numbers
<1>2. ack_due[s] \/ q # <<>>
  <2>1. Queued(write_q[s], Control)
    <3>1. write_q[s] \in QueueOf /\ write_q[s] # <<>> /\ Head(write_q[s]) = Control
      BY QueueFacts DEF GrabControl
    <3>2. 1 \in 1 .. Len(write_q[s]) /\ write_q[s][1] = Control
      BY <3>1, TailItems
    <3> QED BY <3>2 DEF Queued
  <2> QED BY <2>1 DEF Local, ControlQueued
<1>3. ASSUME NEW o \in now
      PROVE  LET c == client[s][o] IN
               /\ c.rkarma = End \/ c.rkarma \in AckThreshold .. ClientKarma
               /\ c.is_rdead => c.rkarma = End
  <2> DEFINE c == client[s][o]
  <2>1. o \in Obj /\ Announces(c)
    <3>1. PICK i \in 1 .. n : o = q[i]
      OBVIOUS
    <3>2. i \in 1 .. Len(q)
      BY <1>1
    <3> HIDE DEF n
    <3> QED BY <1>0, <3>1, <3>2 DEF Local, Announcers
  <2>2. c \in ClientRec /\ ClientOK(c) /\ c.rkarma <= ClientKarma /\ c.rkarma \in {End} \cup Nat
    BY <2>1, TypeFacts, RecFacts DEF Local, Clients
  <2>3. c.is_rdead => c.rkarma = End
    <3>1. c.life = "live" /\ (Open(c) => ~c.is_rdead)
      <4>1. c.rkarma # 0
        BY <2>1, Numbers DEF Announces, End
      <4>2. c.s \in {"closed", "open", "unwatched"}
        BY <2>2, RecFacts
      <4> HIDE DEF c
      <4> QED BY <2>2, <4>1, <4>2 DEF ClientOK, Open
    <3> HIDE DEF c
    <3> QED BY <2>2, <3>1 DEF ClientOK
  <2>4. c.rkarma = End \/ c.rkarma \in AckThreshold .. ClientKarma
    <3> HIDE DEF c
    <3> QED BY <2>1, <2>2, Numbers DEF Announces, End
  <2> QED BY <2>3, <2>4
<1>4. sound
  BY <1>2, <1>3
<1>5. failed' = IF sound THEN "no" ELSE "write_ack"
  BY DEF GrabControl
<1> HIDE DEF sound
<1> QED BY <1>4, <1>5

LEMMA GrabControlShort ==
    ASSUME Types, NEW s \in Side, Local(s), GrabControl(s), failed' = "no"
    PROVE  \E n, now, pk : ControlGrabbed(s, n, now, pk)
<1> DEFINE q == karma_q[s]
           n == IF Len(q) < AckEntries THEN Len(q) ELSE AckEntries
           now == {q[i] : i \in 1 .. n}
           entry(o) == [id |-> client[s][o].id, karma |-> client[s][o].rkarma,
                        from |-> o, granted |-> Acknowledged(client[s][o]).granted]
           acks == [i \in 1 .. n |-> LET o == q[i] IN
                      [id |-> client[s][o].id, karma |-> client[s][o].rkarma,
                       from |-> o, granted |-> Acknowledged(client[s][o]).granted]]
           pk == [id |-> ControlId, data |-> <<>>, acks |-> acks]
<1>0. q \in Seq(Obj) /\ Len(q) \in Nat /\ n \in 0 .. Len(q) /\ n \in Nat
  BY QueueFacts, Numbers
<1>1. Types'
  BY TypesGrabControl DEF Local
<1>2. wout' = [wout EXCEPT ![s] = pk]
  BY DEF GrabControl
<1>3. pk \in AnyPacket
  <2>1. wout'[s] = pk
    BY <1>2 DEF Types
  <2>2. wout'[s] \in AnyPacket
    BY <1>1 DEF Types
  <2> QED BY <2>1, <2>2
<1>4. pk.id = ControlId /\ pk.data = <<>> /\ pk.acks = acks
  OBVIOUS
<1>5. Len(acks) = n /\ \A i \in 1 .. n : acks[i] = entry(q[i])
  <2> HIDE DEF n
  <2> QED BY <1>0
<1>6. now \subseteq Obj /\ \A o \in now : Announces(client[s][o])
  <2>1. \A i \in 1 .. Len(q) : q[i] \in Obj /\ Announces(client[s][q[i]])
    BY <1>0 DEF Local, Announcers
  <2>2. \A i \in 1 .. n : i \in 1 .. Len(q)
    BY <1>0
  <2> HIDE DEF n, q
  <2> QED BY <2>1, <2>2
<1>7. /\ client' = [client EXCEPT ![s] = [o \in Obj |->
             IF o \in now THEN Acknowledged(client[s][o]) ELSE client[s][o]]]
      /\ table' = [table EXCEPT ![s] = [i \in 1 .. MaxId |->
             IF table[s][i] \in now /\ client[s][table[s][i]].is_rdead THEN None ELSE table[s][i]]]
      /\ karma_q' = [karma_q EXCEPT ![s] = SubSeq(q, n + 1, Len(q))]
      /\ write_q' = [write_q EXCEPT ![s] =
            IF Len(q) > n THEN Enqueue(Tail(write_q[s]), Control) ELSE Tail(write_q[s])]
  BY DEF GrabControl
<1>8. /\ in_mainw[s] /\ wout[s] = NoPacket
      /\ write_q[s] # <<>> /\ Head(write_q[s]) = Control
      /\ ack_due' = [ack_due EXCEPT ![s] = FALSE]
      /\ UNCHANGED <<in_mainw, link, rin, reading, cw, out_due, pending, failed>>
  BY DEF GrabControl, Turn
<1> HIDE DEF acks
<1>9. pk.acks = acks
  OBVIOUS
<1> HIDE DEF pk
<1>10. Len(pk.acks) = n /\ \A i \in 1 .. n : pk.acks[i] = entry(q[i])
  BY <1>5, <1>9
<1>11. now = {q[i] : i \in 1 .. n}
  OBVIOUS
<1> HIDE DEF n, now
<1>12. /\ \A o \in Obj : client'[s][o] = IF o \in now THEN Acknowledged(client[s][o]) ELSE client[s][o]
       /\ \A t \in Side : t # s => client'[t] = client[t]
       /\ \A i \in 1 .. MaxId : table'[s][i] =
            IF table[s][i] \in now /\ client[s][table[s][i]].is_rdead THEN None ELSE table[s][i]
       /\ \A t \in Side : t # s => table'[t] = table[t]
  BY <1>7 DEF Types
<1>13. ControlGrabbed(s, n, now, pk)
  BY <1>0, <1>2, <1>3, <1>4, <1>6, <1>7, <1>8, <1>10, <1>11, <1>12 DEF ControlGrabbed
<1> QED BY <1>13

LEMMA LocalGrabControl ==
    ASSUME Types, NEW s \in Side, Local(s), NEW n, NEW now, NEW pk, ControlGrabbed(s, n, now, pk)
    PROVE  Local(s)' /\ \A t \in Side : t # s => SameSide(t)
<1> DEFINE q == karma_q[s]
<1>0. q \in Seq(Obj) /\ Len(q) \in Nat /\ n \in 0 .. Len(q) /\ now = {q[i] : i \in 1 .. n} /\ now \subseteq Obj
  BY QueueFacts DEF ControlGrabbed
<1>1. \A o \in Obj : client'[s][o] = IF o \in now THEN Acknowledged(client[s][o]) ELSE client[s][o]
  BY DEF ControlGrabbed
<1>2. \A o \in Obj : client[s][o] \in ClientRec /\ ClientOK(client[s][o])
  BY TypeFacts DEF Local, Clients
<1>3. \A o \in now : ClientOK(Acknowledged(client[s][o])) /\ client[s][o].life = "live"
  BY <1>0, <1>2, OKAcknowledged DEF ControlGrabbed
<1>4. \A o \in now : LET r == Acknowledged(client[s][o]) c == client[s][o]
                     IN /\ r.id = c.id /\ r.s = c.s /\ r.is_connecting = c.is_connecting
                        /\ r.rkarma = 0 /\ r.life = (IF c.is_rdead THEN "burned" ELSE c.life)
  BY <1>0, <1>2, AcknowledgedFields
<1>5. Clients(s)'
  BY <1>1, <1>2, <1>3 DEF Clients
<1>6. Tables(s)'
  <2>0. \A i \in 1 .. MaxId : table'[s][i] =
            IF table[s][i] \in now /\ client[s][table[s][i]].is_rdead THEN None ELSE table[s][i]
    BY DEF ControlGrabbed
  <2>1. ASSUME NEW i \in 1 .. MaxId, table'[s][i] # None
        PROVE  client'[s][table'[s][i]].life = "live" /\ client'[s][table'[s][i]].id = i
    <3>1. table'[s][i] = table[s][i] /\ ~(table[s][i] \in now /\ client[s][table[s][i]].is_rdead)
      BY <2>0, <2>1
    <3>2. table[s][i] \in Obj /\ client[s][table[s][i]].life = "live" /\ client[s][table[s][i]].id = i
      BY <2>1, <3>1, TypeFacts DEF Local, Tables
    <3> QED BY <1>1, <1>4, <3>1, <3>2
  <2>2. ASSUME NEW o \in Obj, client'[s][o].life = "live"
        PROVE  table'[s][client'[s][o].id] = o
    <3>1. client'[s][o].id = client[s][o].id /\ client[s][o].life = "live"
          /\ ~(o \in now /\ client[s][o].is_rdead)
      BY <1>1, <1>3, <1>4, <2>2
    <3>2. table[s][client[s][o].id] = o /\ client[s][o].id \in 1 .. MaxId
      BY <1>2, <3>1 DEF Local, Tables, ClientOK
    <3> QED BY <2>0, <3>1, <3>2
  <2> QED BY <2>1, <2>2 DEF Tables
<1>7. Watched(s)'
  <2>1. pending'[s] = pending[s]
    BY DEF ControlGrabbed
  <2>2. \A o \in Obj : /\ client[s][o].life # "unborn" => client'[s][o].life # "unborn"
                       /\ client'[s][o].s = client[s][o].s
    BY <1>1, <1>4
  <2> QED BY <2>1, <2>2 DEF Watched, Local
<1> DEFINE p == SubSeq(q, n + 1, Len(q))
<1>8. karma_q'[s] = p
  BY DEF ControlGrabbed, Types
<1>9. p \in Seq(Obj) /\ Len(p) = Len(q) - n /\ \A i \in 1 .. Len(q) - n : p[i] = q[n + i]
  <2> DEFINE l == Len(q)
  <2>1. n \in Nat /\ l \in Nat /\ n + 1 \in Nat /\ (l >= n + 1 \/ l = n)
    BY <1>0
  <2> HIDE DEF l
  <2>2. Len(p) = l - n
    BY <1>0, <2>1 DEF l
  <2>3. p \in Seq(Obj)
    BY <1>0
  <2>4. \A i \in 1 .. l - n : p[i] = q[n + i]
    BY <1>0, <2>1 DEF l
  <2> QED BY <2>2, <2>3, <2>4 DEF l
<1>10. Announcers(s)'
  <2>0. \A i, j \in 1 .. Len(q) : q[i] = q[j] => i = j
    BY DEF Local, Announcers
  <2>1. \A i \in 1 .. Len(p) : n + i \in 1 .. Len(q) /\ p[i] = q[n + i] /\ ~(n + i \in 1 .. n)
    BY SMTT(40), <1>0, <1>9
  <2>2. \A j \in 1 .. Len(q) : j \in 1 .. n \/ (j - n \in 1 .. Len(p) /\ p[j - n] = q[j])
    <3>1. ASSUME NEW j \in 1 .. Len(q), ~(j \in 1 .. n)
          PROVE  j - n \in 1 .. Len(q) - n /\ n + (j - n) = j
      BY <1>0, <3>1
    <3> HIDE DEF p
    <3> QED BY <1>9, <3>1
  <2>3. \A j \in 1 .. n : j \in 1 .. Len(q) /\ q[j] \in now
    BY <1>0
  <2> HIDE DEF p, q
  <2>4. \A i, j \in 1 .. Len(p) : p[i] = p[j] => i = j
    BY <1>0, <2>0, <2>1
  <2>5. ASSUME NEW i \in 1 .. Len(p)
        PROVE  p[i] \notin now
    <3> SUFFICES ASSUME NEW j \in 1 .. n, p[i] = q[j] PROVE FALSE
      BY <1>0
    <3>1. n + i = j
      BY <2>0, <2>1, <2>3
    <3> QED BY <3>1, <2>1
  <2>6. ASSUME NEW o \in Obj
        PROVE  Announces(client'[s][o]) <=> \E i \in 1 .. Len(p) : p[i] = o
    <3>1. CASE o \in now
      <4>1. ~Announces(client'[s][o])
        BY <1>1, <1>4, <3>1, Numbers DEF Announces, End
      <4> QED BY <2>5, <3>1, <4>1
    <3>2. CASE o \notin now
      <4>1. client'[s][o] = client[s][o]
        BY <1>1, <3>2
      <4>2. Announces(client[s][o]) <=> \E j \in 1 .. Len(q) : q[j] = o
        BY DEF Local, Announcers, q
      <4>3. (\E j \in 1 .. Len(q) : q[j] = o) <=> \E i \in 1 .. Len(p) : p[i] = o
        BY <2>1, <2>2, <2>3, <3>2
      <4> QED BY <4>1, <4>2, <4>3
    <3> QED BY <3>1, <3>2
  <2>7. karma_q'[s] = p
    BY <1>8
  <2> QED BY <2>4, <2>6, <2>7 DEF Announcers, Announces
<1>11. ControlQueued(s)'
  <2>0. write_q[s] \in QueueOf /\ Once(write_q[s], Control) /\ write_q[s] # <<>> /\ Head(write_q[s]) = Control
    BY QueueFacts DEF Local, ControlQueued, ControlGrabbed
  <2>1. ~Queued(Tail(write_q[s]), Control) /\ Tail(write_q[s]) \in QueueOf
    BY <2>0, TailControl, TailItems
  <2>2. ~ack_due'[s] /\ write_q'[s] = IF Len(q) > n THEN Enqueue(Tail(write_q[s]), Control) ELSE Tail(write_q[s])
    BY DEF ControlGrabbed, Types
  <2>3. CASE Len(q) > n
    <3>1. Once(write_q'[s], Control) /\ Queued(write_q'[s], Control)
      BY <2>1, <2>2, <2>3, EnqueueControl
    <3>2. p # <<>>
      <4>1. Len(p) # 0
        <5> HIDE DEF p
        <5> QED BY <1>0, <1>9, <2>3
      <4> HIDE DEF p
      <4> QED BY <4>1
    <3> QED BY <1>8, <3>1, <3>2 DEF ControlQueued, Once, Queued
  <2>4. CASE ~(Len(q) > n)
    <3>1. write_q'[s] = Tail(write_q[s])
      BY <2>2, <2>4
    <3>2. p = <<>>
      <4>1. Len(p) = 0
        <5> HIDE DEF p
        <5> QED BY <1>0, <1>9, <2>4
      <4> HIDE DEF p
      <4> QED BY <1>9, <4>1
    <3> QED BY <1>8, <2>1, <2>2, <3>1, <3>2 DEF ControlQueued, Once, Queued
  <2> QED BY <2>3, <2>4
<1>12. Busy(s)'
  <2>0. cw'[s] = cw[s] /\ out_due'[s] = out_due[s] /\ in_mainw'[s] = in_mainw[s] /\ in_mainw[s]
    BY DEF ControlGrabbed
  <2>1. ASSUME cw[s] # None, ~out_due[s]
        PROVE  CanUse(client'[s][cw[s]]) /\ \A i \in 1 .. Len(write_q'[s]) : write_q'[s][i] = Control
    <3>1. cw[s] \in Obj /\ CanUse(client[s][cw[s]]) /\ \A i \in 1 .. Len(write_q[s]) : write_q[s][i] = Control
      BY <2>0, <2>1, TypeFacts DEF Busy, Local
    <3>2. CanUse(client'[s][cw[s]])
      <4>1. CASE cw[s] \notin now
        BY <1>1, <3>1, <4>1
      <4>2. CASE cw[s] \in now
        <5> DEFINE c == client[s][cw[s]]
        <5>1. ~c.is_rdead
          <6>1. c.s \in {"closed", "open", "unwatched"} /\ ClientOK(c) /\ CanUse(c)
            BY <1>2, <3>1, RecFacts
          <6> HIDE DEF c
          <6> QED BY <6>1 DEF ClientOK, CanUse, Open
        <5> QED BY <1>1, <1>4, <3>1, <4>2, <5>1 DEF CanUse, Open
      <4> QED BY <4>1, <4>2
    <3>3. \A i \in 1 .. Len(write_q'[s]) : write_q'[s][i] = Control
      <4>1. write_q[s] \in QueueOf /\ write_q[s] # <<>>
        BY QueueFacts DEF ControlGrabbed
      <4> DEFINE w == write_q[s]  v == Tail(w)  e == Enqueue(v, Control)
      <4>2. v \in QueueOf /\ Len(w) \in Nat \ {0} /\ Len(v) = Len(w) - 1 /\ \A i \in 1 .. Len(w) - 1 : v[i] = w[i + 1]
        BY <4>1, TailItems
      <4>3. \A i \in 1 .. Len(v) : v[i] = Control
        <5> HIDE DEF v, w
        <5>1. \A i \in 1 .. Len(v) : i + 1 \in 1 .. Len(w) /\ v[i] = w[i + 1]
          BY <4>2
        <5> QED BY <3>1, <5>1 DEF w
      <4>4. \A i \in 1 .. Len(e) : e[i] = Control
        <5>1. /\ Len(e) > 0 /\ e[Len(e)] = Control /\ e \in QueueOf
              /\ \/ Len(e) = Len(v) + 1 /\ \A i \in 1 .. Len(v) : e[i] = v[i]
                 \/ /\ Len(v) > 1 /\ Len(e) = Len(v) /\ v[Len(v)] = v[Len(v) - 1]
                    /\ \A i \in 1 .. Len(v) - 1 : e[i] = v[i]
          <6>1. Control \in {Control} \cup Obj
            OBVIOUS
          <6> HIDE DEF v
          <6> QED BY <4>2, <6>1, EnqueueItems
        <5> HIDE DEF e, v
        <5>2. Len(v) \in Nat /\ Len(e) \in Nat
          BY <4>2, <5>1 DEF QueueOf
        <5> QED BY <4>3, <5>1, <5>2
      <4>5. write_q'[s] = v \/ write_q'[s] = e
        BY DEF ControlGrabbed, Types
      <4> HIDE DEF v, e
      <4> QED BY <4>3, <4>4, <4>5
    <3> QED BY <3>2, <3>3
  <2> QED BY <2>0, <2>1 DEF Busy, Local
<1>13. Unfinished(s)'
  BY DEF ControlGrabbed, Unfinished
<1>14. \A t \in Side : t # s => SameSide(t)
  BY DEF ControlGrabbed, SameSide, Types
<1> QED BY <1>5, <1>6, <1>7, <1>10, <1>11, <1>12, <1>13, <1>14 DEF Local

LEMMA GotOK ==
    ASSUME Types, NEW s \in Side, Local(s), NEW id, NEW from, NEW o, NEW c, Got(s, id, from, o, c)
    PROVE  /\ c \in ClientRec /\ ClientOK(c) /\ c.life = "live" /\ c.id = id /\ o \in Obj
           /\ id \in 1 .. MaxId /\ from \in Obj
           /\ \/ table[s][id] = o /\ c = client[s][o]
              \/ /\ s = "demux" /\ table[s][id] = None /\ client[s][o].life = "unborn"
                 /\ client[s][o] = Unborn /\ Newborn(c, id, from)
<1>0. c \in ClientRec /\ o \in Obj /\ id \in 1 .. MaxId /\ from \in Obj /\ c.id = id /\ c.life = "live"
  BY GotId DEF Got, Local
<1>1. CASE table[s][id] = o /\ c = client[s][o]
  BY <1>0, <1>1 DEF Local, Clients
<1>2. CASE /\ s = "demux" /\ table[s][id] = None /\ client[s][o].life = "unborn"
           /\ c \in Created(id, from)
  <2>1. Newborn(c, id, from)
    BY <1>2, CreatedFields
  <2>2. client[s][o] = Unborn
    BY <1>0, <1>2 DEF Local, Clients, ClientOK
  <2> QED BY <1>0, <1>2, <2>1, <2>2, OKCreated
<1> QED BY <1>1, <1>2 DEF Got

\* get_client's client, kept or forgotten.
LEMMA SetGot ==
    ASSUME Types, NEW s \in Side, Local(s), NEW id, NEW from, NEW o, NEW c, NEW r,
           Got(s, id, from, o, c), ClientSet(s, o, r), ClientOK(r), r.id = id,
           r.life = "live" \/ (r.life = "burned" /\ c = client[s][o]),
           r.s = "unwatched" => c.s = "unwatched", r.life = "burned" => r.s = c.s,
           table' = [table EXCEPT ![s][id] = IF r.life = "burned" THEN None ELSE o],
           pending'[s] \subseteq pending[s]
    PROVE  Clients(s)' /\ Tables(s)' /\ Watched(s)'
<1>0. /\ c.life = "live" /\ c.id = id /\ o \in Obj /\ id \in 1 .. MaxId
      /\ \/ table[s][id] = o /\ c = client[s][o]
         \/ table[s][id] = None /\ client[s][o].life = "unborn"
  BY GotOK
<1>1. table'[s] = [table[s] EXCEPT ![id] = IF r.life = "burned" THEN None ELSE o]
      /\ table[s] \in [1 .. MaxId -> {None} \cup Obj]
  BY TypeFacts DEF Types
<1>2. CASE table[s][id] = o /\ c = client[s][o] /\ r.life = "live"
  <2>1. table'[s] = table[s]
    BY <1>0, <1>1, <1>2
  <2> QED BY <1>0, <1>2, <2>1, SetKnown
<1>3. CASE r.life = "burned" /\ c = client[s][o]
  BY <1>0, <1>1, <1>3, SetBurned
<1>4. CASE table[s][id] = None /\ client[s][o].life = "unborn" /\ r.life = "live"
  BY <1>0, <1>1, <1>4, SetNew
<1> QED BY <1>0, <1>2, <1>3, <1>4

LEMMA AnnouncersKeep ==
    ASSUME NEW s \in Side, NEW o, NEW r, Announcers(s), ClientSet(s, o, r),
           r.rkarma = client[s][o].rkarma, karma_q'[s] = karma_q[s]
    PROVE  Announcers(s)'
<1>1. \A x \in Obj : Announces(client'[s][x]) <=> Announces(client[s][x])
  BY DEF ClientSet, Announces
<1> QED BY <1>1, AnnouncersSame

LEMMA LocalCredited ==
    ASSUME Types, NEW s \in Side, Local(s), NEW id, NEW from, NEW o, NEW c, NEW karma \in {End} \cup Nat,
           Got(s, id, from, o, c), Credited(s, o, c, karma), AtMainr(s),
           UNCHANGED <<ack_due, wout, cw, out_due, pending>>
    PROVE  Local(s)' /\ \A t \in Side : t # s => SameSide(t)
<1> DEFINE r == [c EXCEPT !.wkarma = c.wkarma + karma]
<1>0. /\ c \in ClientRec /\ ClientOK(c) /\ c.life = "live" /\ c.id = id /\ o \in Obj
      /\ \/ table[s][id] = o /\ c = client[s][o]
         \/ client[s][o] = Unborn /\ Newborn(c, id, from)
  BY GotOK
<1>1. c.wkarma + karma \in Nat /\ karma # End
  <2>1. c.wkarma \in Nat /\ karma \in Nat
    BY <1>0, RecFacts DEF Credited, End
  <2> QED BY <2>1 DEF End
<1>2. ClientOK(r) /\ r \in ClientRec /\ r.life = "live" /\ r.id = id /\ r.s = c.s /\ r.rkarma = c.rkarma
  <2>1. ClientOK(r) /\ r \in ClientRec
    BY <1>0, <1>1, OKCredited, WkarmaField
  <2>2. r.life = c.life /\ r.id = c.id /\ r.s = c.s /\ r.rkarma = c.rkarma
    BY <1>0 DEF ClientRec
  <2> HIDE DEF r
  <2> QED BY <1>0, <2>1, <2>2
<1>3. client' = [client EXCEPT ![s][o] = r] /\ table' = [table EXCEPT ![s][id] = o]
  BY <1>0 DEF Credited
<1> HIDE DEF r
<1>4. ClientSet(s, o, r)
  BY ZenonT(40), <1>0, <1>2, <1>3, ClientUpdate DEF ClientSet
<1>5. Clients(s)' /\ Tables(s)' /\ Watched(s)'
  BY <1>2, <1>3, <1>4, SetGot
<1>6. c.rkarma = client[s][o].rkarma
  BY <1>0, UnbornFields DEF Newborn
<1>7. /\ karma_q'[s] = karma_q[s] /\ ack_due'[s] = ack_due[s] /\ wout'[s] = wout[s]
      /\ ~in_mainw[s] /\ cw[s] = None /\ cw'[s] = None /\ out_due'[s] = out_due[s]
      /\ PushWriter(s, o) \/ NoPush
  BY DEF Credited, AtMainr, Returned
<1>8. Announcers(s)'
  BY <1>2, <1>4, <1>6, <1>7, AnnouncersKeep DEF Local
<1>9. ControlQueued(s)' /\ Unfinished(s)' /\ Busy(s)'
  BY <1>0, <1>7, ControlPush, PushRuns, BusyIdle DEF Local
<1>10. \A t \in Side : t # s => SameSide(t)
  BY <1>3 DEF Credited, SameSide, PushWriter, NoPush, Types
<1> QED BY <1>5, <1>8, <1>9, <1>10 DEF Local

LEMMA LocalEndAnnounced ==
    ASSUME Types, NEW s \in Side, Local(s), NEW id, NEW from, NEW o, NEW c,
           Got(s, id, from, o, c), EndAnnounced(s, o, c), AtMainr(s),
           UNCHANGED <<ack_due, wout, cw, out_due, pending>>
    PROVE  Local(s)' /\ \A t \in Side : t # s => SameSide(t)
<1> DEFINE r == Told(c)
<1>0. /\ c \in ClientRec /\ ClientOK(c) /\ c.life = "live" /\ c.id = id /\ o \in Obj
      /\ \/ table[s][id] = o /\ c = client[s][o]
         \/ client[s][o] = Unborn /\ Newborn(c, id, from)
  BY GotOK
<1>1. /\ r.id = c.id
      /\ c.s = "open" => r.s = "closed" /\ r.rkarma = End /\ r.is_rdead = TRUE /\ r.life = c.life
      /\ c.s # "open" => r.s = c.s /\ r.rkarma = c.rkarma
      /\ c.s = "closed" /\ c.rkarma = 0 => r.life = "burned" /\ r.is_rdead = c.is_rdead
      /\ ~(c.s = "closed" /\ c.rkarma = 0) => r.life = c.life /\ r.is_rdead = TRUE
  BY <1>0, ToldFields
<1>2. ClientOK(r) /\ r \in ClientRec
  BY <1>0, OKTold, ToldType
<1>3. client' = [client EXCEPT ![s][o] = r]
  BY TypesEndAnnounced DEF Local
<1>4. table' = [table EXCEPT ![s][id] = IF c.s = "closed" /\ c.rkarma = 0 THEN None ELSE o]
  BY <1>0 DEF EndAnnounced
<1>5. IF c.s = "open" THEN SetRkarma(s, o, End) ELSE NoPush /\ karma_q' = karma_q
  BY DEF EndAnnounced
<1> HIDE DEF r
<1>6. ClientSet(s, o, r)
  BY ZenonT(40), <1>0, <1>2, <1>3, ClientUpdate DEF ClientSet
<1>7. /\ r.life = "live" \/ (r.life = "burned" /\ c = client[s][o])
      /\ r.s = "unwatched" => c.s = "unwatched"
      /\ r.life = "burned" => r.s = c.s
      /\ r.life = "burned" <=> c.s = "closed" /\ c.rkarma = 0
  <2>1. Newborn(c, id, from) => c.s # "closed"
    BY DEF Newborn
  <2>2. c.s \in {"closed", "open", "unwatched"}
    BY <1>0, RecFacts
  <2> QED BY <1>0, <1>1, <2>1, <2>2
<1>8. Clients(s)' /\ Tables(s)' /\ Watched(s)'
  <2>1. table' = [table EXCEPT ![s][id] = IF r.life = "burned" THEN None ELSE o]
    BY <1>4, <1>7
  <2> QED BY <1>0, <1>1, <1>2, <1>6, <1>7, <2>1, SetGot
<1>9. /\ ack_due'[s] = ack_due[s] /\ wout'[s] = wout[s]
      /\ ~in_mainw[s] /\ cw[s] = None /\ cw'[s] = None /\ out_due'[s] = out_due[s]
  BY DEF AtMainr, Returned
<1>10. c.rkarma = client[s][o].rkarma
  BY <1>0, UnbornFields DEF Newborn
<1>11. Busy(s)'
  BY <1>9, BusyIdle DEF Local
<1>12. CASE c.s = "open"
  <2>1. SetRkarma(s, o, End) /\ r.rkarma = End
    BY <1>1, <1>5, <1>12
  <2>2. Announcers(s)'
    BY <1>6, <2>1, AnnouncersQueue DEF SetRkarma, Local
  <2>3. ControlQueued(s)' /\ Unfinished(s)'
    BY <1>0, <1>9, <2>1, ControlSet, SetRuns DEF Local
  <2>4. \A t \in Side : t # s => SameSide(t)
    BY <1>3, <1>4, <2>1 DEF SetRkarma, QueueKarma, SameSide, PushWriter, NoPush, Types
  <2> QED BY <1>8, <1>11, <2>2, <2>3, <2>4 DEF Local
<1>13. CASE c.s # "open"
  <2>1. NoPush /\ karma_q' = karma_q /\ r.rkarma = c.rkarma
    BY <1>1, <1>5, <1>13
  <2>2. Announcers(s)'
    BY <1>6, <1>10, <2>1, AnnouncersKeep DEF Local
  <2>3. ControlQueued(s)' /\ Unfinished(s)'
    BY <1>0, <1>9, <2>1, ControlPush, PushRuns DEF Local
  <2>4. \A t \in Side : t # s => SameSide(t)
    BY <1>3, <1>4, <2>1 DEF SameSide, NoPush, Types
  <2> QED BY <1>8, <1>11, <2>2, <2>3, <2>4 DEF Local
<1> QED BY <1>12, <1>13

LEMMA LocalBuffered ==
    ASSUME Types, NEW s \in Side, Local(s), NEW id, NEW from, NEW o, NEW c,
           NEW units \in Seq(Obj \X (Nat \ {0})),
           Got(s, id, from, o, c), Buffered(s, <<o, c>>, units), failed' # "no_room", AtMainr(s),
           UNCHANGED <<write_q, karma_q, ack_due, in_mainw, wout, out_due, pending>>
    PROVE  Local(s)' /\ \A t \in Side : t # s => SameSide(t)
<1> DEFINE r == [c EXCEPT !.out = c.out \o units]
<1>0. /\ c \in ClientRec /\ ClientOK(c) /\ c.life = "live" /\ c.id = id /\ o \in Obj
      /\ \/ table[s][id] = o /\ c = client[s][o]
         \/ client[s][o] = Unborn /\ Newborn(c, id, from)
  BY GotOK
<1>1. /\ client' = [client EXCEPT ![s][o] = r] /\ table' = [table EXCEPT ![s][id] = o]
      /\ cw' = [cw EXCEPT ![s] = IF CanUse(c) THEN o ELSE None] /\ failed' = failed
  BY <1>0 DEF Buffered
<1>2. ClientOK(r) /\ r \in ClientRec /\ r.life = "live" /\ r.id = id /\ r.s = c.s /\ r.rkarma = c.rkarma
      /\ r.is_connecting = c.is_connecting
  <2>1. ClientOK(r) /\ r \in ClientRec
    BY <1>0, OKBuffered, BufferedType
  <2>2. r.life = c.life /\ r.id = c.id /\ r.s = c.s /\ r.rkarma = c.rkarma
        /\ r.is_connecting = c.is_connecting
    BY <1>0 DEF ClientRec
  <2> HIDE DEF r
  <2> QED BY <1>0, <2>1, <2>2
<1> HIDE DEF r
<1>4. ClientSet(s, o, r)
  BY <1>0, <1>1, <1>2, ClientUpdate DEF ClientSet
<1>5. Clients(s)' /\ Tables(s)' /\ Watched(s)'
  BY <1>1, <1>2, <1>4, SetGot
<1>6. c.rkarma = client[s][o].rkarma
  BY <1>0, UnbornFields DEF Newborn
<1>7. Announcers(s)'
  BY <1>2, <1>4, <1>6, AnnouncersKeep DEF Local
<1>8. ControlQueued(s)' /\ Unfinished(s)'
  BY ControlSame DEF Local, Unfinished
<1>9. Busy(s)'
  <2>1. cw'[s] = None \/ (cw'[s] = o /\ CanUse(c))
    BY <1>1 DEF Types
  <2>2. CanUse(c) => CanUse(client'[s][o])
    BY <1>0, <1>2, <1>4 DEF CanUse, Open, ClientSet
  <2>3. ~out_due'[s] /\ ~in_mainw'[s]
    BY DEF AtMainr, Returned, Busy, Local
  <2> QED BY <2>1, <2>2, <2>3 DEF Busy
<1>10. \A t \in Side : t # s => SameSide(t)
  BY <1>1 DEF SameSide, Types
<1> QED BY <1>5, <1>7, <1>8, <1>9, <1>10 DEF Local

LEMMA LocalAccepted ==
    ASSUME Types, NEW s \in Side, Local(s), NEW o, NEW id, Accepted(s, o, id)
    PROVE  Local(s)'
<1> DEFINE r == Admitted(id, o)
<1>0. /\ o \in Obj /\ id \in 1 .. MaxId /\ r \in ClientRec /\ client[s][o].life = "unborn"
      /\ table[s][id] = None
      /\ client' = [client EXCEPT ![s][o] = r] /\ table' = [table EXCEPT ![s][id] = o]
      /\ SetRkarma(s, o, ClientKarma)
  BY DEF Accepted
<1>1. ClientOK(r) /\ r.life = "live" /\ r.id = id /\ r.s = "open" /\ r.rkarma = ClientKarma
  <2>1. Newcomer(r, id, o)
    BY AdmittedFields
  <2> HIDE DEF r
  <2> QED BY <1>0, <2>1, OKAccepted DEF Newcomer
<1> HIDE DEF r
<1>2. ClientSet(s, o, r)
  BY ZenonT(40), <1>0, ClientUpdate DEF ClientSet
<1>3. /\ ack_due'[s] = ack_due[s] /\ wout'[s] = wout[s] /\ ~in_mainw[s] /\ cw[s] = None
      /\ cw'[s] = None /\ out_due'[s] = out_due[s] /\ pending'[s] \subseteq pending[s]
      /\ table'[s] = [table[s] EXCEPT ![id] = o]
  BY <1>0 DEF Accepted, BetweenEvents, Returned, Types
<1>4. Clients(s)' /\ Tables(s)' /\ Watched(s)'
  BY <1>0, <1>1, <1>2, <1>3, SetNew
<1>5. Announcers(s)'
  <2>1. client[s][o].rkarma = 0
    BY <1>0, UnbornFields DEF Local, Clients, ClientOK
  <2>2. 0 # End /\ ClientKarma >= 0
    BY Numbers DEF End
  <2> QED BY <1>0, <1>1, <1>2, <2>1, <2>2, AnnouncersQueue DEF SetRkarma, Local
<1>6. ControlQueued(s)' /\ Unfinished(s)' /\ Busy(s)'
  BY <1>0, <1>3, ControlSet, SetRuns, BusyIdle DEF Local
<1> QED BY <1>4, <1>5, <1>6 DEF Local

-----------------------------------------------------------------------------
(* The initial states.                                                     *)

LEMMA LocalInit ==
    ASSUME Init, NEW s \in Side
    PROVE  Local(s)
<1>1. /\ client[s] = [o \in Obj |-> Unborn] /\ table[s] = [i \in 1 .. MaxId |-> None]
      /\ write_q[s] = <<>> /\ karma_q[s] = <<>> /\ ack_due[s] = FALSE /\ wout[s] = NoPacket
      /\ cw[s] = None /\ out_due[s] = FALSE /\ in_mainw[s] = FALSE /\ pending[s] = {}
  BY DEF Init
<1>2. \A o \in Obj : client[s][o] = Unborn
  BY <1>1
<1>3. Clients(s)
  BY <1>2, UnbornOK DEF Clients
<1>4. Tables(s)
  BY <1>1, <1>2, UnbornFields DEF Tables
<1>5. Announcers(s)
  <2>1. \A o \in Obj : client[s][o].rkarma = 0
    BY <1>2, UnbornFields
  <2>2. \A o \in Obj : ~Announces(client[s][o])
    BY <2>1, Numbers DEF Announces, End
  <2> QED BY <1>1, <2>2 DEF Announcers
<1>6. ControlQueued(s)
  BY <1>1 DEF ControlQueued, Once, Queued
<1>7. Busy(s) /\ Watched(s) /\ Unfinished(s)
  BY <1>1 DEF Busy, Watched, Unfinished
<1> QED BY <1>3, <1>4, <1>5, <1>6, <1>7 DEF Local

-----------------------------------------------------------------------------
(* The stream from one side to the other.                                  *)

LEMMA StreamPoints ==
    ASSUME NEW a \in AnyPacket, NEW q \in Seq(AnyPacket), NEW b \in AnyPacket
    PROVE  LET f == StreamOf(a, q, b)
           IN /\ f[0] = a /\ f[Len(q) + 1] = b
              /\ \A i \in 1 .. Len(q) : f[i] = q[i]
              /\ \A i \in Nat : i > Len(q) + 1 => f[i] = NoPacket
              /\ \A i \in Nat : f[i] \in AnyPacket
<1> DEFINE n == Len(q)
<1>1. n \in Nat /\ \A i \in 1 .. n : q[i] \in AnyPacket
  OBVIOUS
<1> HIDE DEF n
<1>2. StreamOf(a, q, b) = [i \in Nat |-> IF i = 0 THEN a ELSE IF i <= n THEN q[i]
                                         ELSE IF i = n + 1 THEN b ELSE NoPacket]
  BY DEF StreamOf, n
<1> DEFINE f == StreamOf(a, q, b)
<1> HIDE DEF f
<1>3. f[0] = a /\ f[n + 1] = b
  BY <1>1, <1>2 DEF f
<1>4. \A i \in 1 .. n : f[i] = q[i]
  BY <1>1, <1>2 DEF f
<1>5. \A i \in Nat : i > n + 1 => f[i] = NoPacket
  BY <1>1, <1>2 DEF f
<1>6. \A i \in Nat : i = 0 \/ i \in 1 .. n \/ i = n + 1 \/ i > n + 1
  BY <1>1
<1>7. \A i \in Nat : f[i] \in AnyPacket
  BY <1>1, <1>3, <1>4, <1>5, <1>6, NoPacketType
<1> QED BY <1>3, <1>4, <1>5, <1>7 DEF f, n

LEMMA StreamType ==
    ASSUME Types, NEW s \in Side
    PROVE  \A i \in Nat : Stream(s)[i] \in AnyPacket
<1>1. Peer(s) \in Side
  BY Sides
<1> QED BY <1>1, TypeFacts, StreamPoints DEF Stream

LEMMA StreamFirst ==
    ASSUME Types, NEW s \in Side
    PROVE  Stream(Peer(s))[0] = rin[s]
<1>1. Peer(s) \in Side /\ Peer(Peer(s)) = s
  BY Sides
<1> QED BY <1>1, TypeFacts, StreamPoints DEF Stream

\* A packet that is begun is behind the others.
LEMMA StreamPut ==
    ASSUME NEW a \in AnyPacket, NEW q \in Seq(AnyPacket), NEW b \in AnyPacket
    PROVE  Put(StreamOf(a, q, b), StreamOf(a, q, NoPacket), Len(q) + 1, b)
<1> DEFINE f == StreamOf(a, q, NoPacket)
           g == StreamOf(a, q, b)
           n == Len(q)
<1>1. n \in Nat
  OBVIOUS
<1>2. /\ f[0] = a /\ f[n + 1] = NoPacket /\ \A i \in 1 .. n : f[i] = q[i]
      /\ \A i \in Nat : i > n + 1 => f[i] = NoPacket
  BY NoPacketType, StreamPoints
<1>3. /\ g[0] = a /\ g[n + 1] = b /\ \A i \in 1 .. n : g[i] = q[i]
      /\ \A i \in Nat : i > n + 1 => g[i] = NoPacket
  BY StreamPoints
<1> SUFFICES Put(g, f, n + 1, b)
  OBVIOUS
<1> HIDE DEF f, g, n
<1>4. \A i \in Nat : i < n + 1 => i = 0 \/ i \in 1 .. n
  BY <1>1
<1>5. \A i \in Nat : i >= n + 1 => i = n + 1 \/ i > n + 1
  BY <1>1
<1> QED BY <1>2, <1>3, <1>4, <1>5 DEF Put

\* Whether a packet is being written or on the link makes no difference.
LEMMA StreamDump ==
    ASSUME NEW a \in AnyPacket, NEW q \in Seq(AnyPacket), NEW b \in AnyPacket
    PROVE  \A i \in Nat : StreamOf(a, Append(q, b), NoPacket)[i] = StreamOf(a, q, b)[i]
<1> DEFINE f == StreamOf(a, q, b)
           w == Append(q, b)
           g == StreamOf(a, w, NoPacket)
           n == Len(q)
<1>1. n \in Nat /\ w \in Seq(AnyPacket) /\ Len(w) = n + 1
      /\ w[n + 1] = b /\ \A i \in 1 .. n : w[i] = q[i]
  BY AppendProperties
<1>2. /\ f[0] = a /\ f[n + 1] = b /\ \A i \in 1 .. n : f[i] = q[i]
      /\ \A i \in Nat : i > n + 1 => f[i] = NoPacket
  BY StreamPoints
<1>3. /\ g[0] = a /\ g[Len(w) + 1] = NoPacket /\ \A i \in 1 .. Len(w) : g[i] = w[i]
      /\ \A i \in Nat : i > Len(w) + 1 => g[i] = NoPacket
  <2> HIDE DEF w
  <2> QED BY <1>1, NoPacketType, StreamPoints
<1> SUFFICES \A i \in Nat : g[i] = f[i]
  OBVIOUS
<1> HIDE DEF f, g, w, n
<1>4. \A i \in 1 .. n + 1 : g[i] = w[i]
  BY <1>1, <1>3
<1>5. \A i \in Nat : i > n + 1 => g[i] = NoPacket
  <2>1. \A i \in Nat : i > n + 1 => i = Len(w) + 1 \/ i > Len(w) + 1
    BY <1>1
  <2> QED BY <2>1, <1>3
<1>6. \A i \in Nat : i = 0 \/ i \in 1 .. n \/ i = n + 1 \/ i > n + 1
  BY <1>1
<1>7. n + 1 \in 1 .. n + 1 /\ \A i \in 1 .. n : i \in 1 .. n + 1
  BY <1>1
<1> QED BY <1>1, <1>2, <1>3, <1>4, <1>5, <1>6, <1>7

\* What is processed is the head of the stream.
LEMMA StreamTake ==
    ASSUME NEW a \in AnyPacket, NEW q \in Seq(AnyPacket), NEW b \in AnyPacket, NEW x \in AnyPacket
    PROVE  Take(StreamOf(x, q, b), StreamOf(a, q, b), x)
<1>1. \A i \in Nat : StreamOf(x, q, b)[i] = IF i = 0 THEN x ELSE StreamOf(a, q, b)[i]
  BY DEF StreamOf
<1> QED BY <1>1 DEF Take

\* The next packet is read from the link.
LEMMA StreamRead ==
    ASSUME NEW q \in Seq(AnyPacket), NEW b \in AnyPacket, q # <<>>
    PROVE  \A i \in Nat : StreamOf(Head(q), Tail(q), b)[i] = StreamOf(NoPacket, q, b)[i + 1]
<1> DEFINE f == StreamOf(NoPacket, q, b)
           w == Tail(q)
           h == Head(q)
           g == StreamOf(h, w, b)
           n == Len(q)
<1>1. /\ n \in Nat \ {0} /\ w \in Seq(AnyPacket) /\ Len(w) = n - 1
      /\ h = q[1] /\ h \in AnyPacket /\ \A i \in 1 .. n - 1 : w[i] = q[i + 1]
  BY HeadTailProperties
<1>2. /\ f[n + 1] = b /\ \A i \in 1 .. n : f[i] = q[i]
      /\ \A i \in Nat : i > n + 1 => f[i] = NoPacket
  BY NoPacketType, StreamPoints
<1>3. /\ g[0] = h /\ g[Len(w) + 1] = b /\ \A i \in 1 .. Len(w) : g[i] = w[i]
      /\ \A i \in Nat : i > Len(w) + 1 => g[i] = NoPacket
  <2>1. w \in Seq(AnyPacket) /\ h \in AnyPacket
    BY <1>1
  <2> HIDE DEF w, h, n
  <2> QED BY <2>1, StreamPoints
<1> SUFFICES ASSUME NEW i \in Nat PROVE g[i] = f[i + 1]
  OBVIOUS
<1> HIDE DEF f, g, w, h, n
<1>4. CASE i = 0
  BY <1>1, <1>2, <1>3, <1>4
<1>5. CASE i \in 1 .. n - 1
  BY <1>1, <1>2, <1>3, <1>5
<1>6. CASE i = n
  BY <1>1, <1>2, <1>3, <1>6
<1>7. CASE i > n
  BY <1>1, <1>2, <1>3, <1>7
<1> QED BY <1>1, <1>4, <1>5, <1>6, <1>7
-----------------------------------------------------------------------------
(* What a step leaves as it was.                                           *)

\* A client is still what it was to what it sends, to what it receives, and to
\* the other side.
SameSender(c, d) == d.taken = c.taken /\ d.granted = c.granted /\ (Done(d) <=> Done(c))
SameReceiver(c, d) ==
    Received(d) = Received(c) /\ Credit(d) = Credit(c) /\ (Heard(d) <=> Heard(c))
SameBirth(c, d) == (d.life = "unborn" <=> c.life = "unborn") /\ d.id = c.id /\ d.mate = c.mate
Births == \A t \in Side, o \in Obj : SameBirth(client[t][o], client'[t][o])

LEMMA CountFacts ==
    ASSUME NEW c \in ClientRec
    PROVE  /\ c.taken \in Nat /\ c.granted \in Nat /\ Received(c) \in Nat /\ Credit(c) \in Nat
           /\ Len(c.given) \in Nat /\ Len(c.out) \in Nat
<1>1. c.taken \in Nat /\ c.granted \in Nat /\ c.wkarma \in Nat
  BY RecFacts
<1>2. Len(c.given) \in Nat /\ Len(c.out) \in Nat
  <2>1. c.given \in Seq(Obj \X Nat) /\ c.out \in Seq(Obj \X Nat)
    BY RecFacts
  <2> QED BY <2>1
<1>3. Received(c) \in Nat
  <2> DEFINE a == Len(c.given)
             b == Len(c.out)
  <2>1. Received(c) = a + b /\ a \in Nat /\ b \in Nat
    BY <1>2 DEF Received
  <2> HIDE DEF a, b
  <2> QED BY <2>1
<1>4. Credit(c) \in Nat
  BY <1>1 DEF Credit
<1> QED BY <1>1, <1>2, <1>3, <1>4

LEMMA SameAsIs == ASSUME NEW c PROVE SameSender(c, c) /\ SameReceiver(c, c) /\ SameBirth(c, c)
BY DEF SameSender, SameReceiver, SameBirth

LEMMA HalfFollows ==
    ASSUME NEW f, NEW g, NEW o, NEW c \in ClientRec, NEW r \in ClientRec, NEW c2, NEW r2,
           Follows(g, f, o), SameSender(c, c2), SameReceiver(r, r2), Half(f, o, c, r)
    PROVE  Half(g, o, c2, r2)
<1>1. /\ c.taken \in Nat /\ c.granted \in Nat /\ Received(r) \in Nat /\ Credit(r) \in Nat
  BY CountFacts
<1>2. Units(g, o, c.taken, Received(r))
  BY <1>1, UnitsFollow DEF Half
<1>3. Grants(g, o, c.granted, Credit(r))
  BY <1>1, GrantsFollow DEF Half
<1>4. Ends(g, o, c2, r2)
  BY EndsFollow DEF Half, SameSender, SameReceiver
<1> QED BY <1>2, <1>3, <1>4 DEF Half, SameSender, SameReceiver

LEMMA UnbornRec == Unborn \in ClientRec
BY UnbornType

LEMMA RecType ==
    ASSUME Types, NEW s \in Side, NEW o \in {None} \cup Obj
    PROVE  Rec(s, o) \in ClientRec
BY UnbornRec, TypeFacts DEF Rec

LEMMA RecSame ==
    ASSUME NEW s \in Side, NEW o \in {None} \cup Obj
    PROVE  (o = None \/ client'[s][o] = client[s][o]) => Rec(s, o)' = Rec(s, o)
BY DEF Rec, Unborn

\* The ends of a connection, seen from side s.
Joint(s, o, x) ==
    /\ o \in {None} \cup Obj /\ x \in {None} \cup Obj
    /\ IF s = "mux" THEN o \in Obj /\ Pair(o, x) ELSE x \in Obj /\ Pair(x, o)
Halves(s, o, x) ==
    /\ Half(Stream(s), o, Rec(s, o), Rec(Peer(s), x))
    /\ Half(Stream(Peer(s)), x, Rec(Peer(s), x), Rec(s, o))

LEMMA FromEither ==
    ASSUME NEW s \in Side, Connections, NEW o, NEW x, Joint(s, o, x)
    PROVE  Halves(s, o, x)
<1>1. CASE s = "mux"
  BY <1>1 DEF Joint, Halves, Connections, Peer
<1>2. CASE s = "demux"
  BY <1>2 DEF Joint, Halves, Connections, Peer
<1> QED BY <1>1, <1>2 DEF Side

LEMMA ToBoth ==
    ASSUME NEW s \in Side, \A o, x \in {None} \cup Obj : Joint(s, o, x)' => Halves(s, o, x)'
    PROVE  Connections'
<1> SUFFICES ASSUME NEW m \in Obj, NEW d \in {None} \cup Obj, Pair(m, d)'
             PROVE  /\ Half(Stream("mux"), m, Rec("mux", m), Rec("demux", d))'
                    /\ Half(Stream("demux"), d, Rec("demux", d), Rec("mux", m))'
  BY DEF Connections
<1>1. CASE s = "mux"
  <2>1. Joint(s, m, d)'
    BY <1>1 DEF Joint
  <2>2. Halves(s, m, d)'
    BY <2>1
  <2>3. Peer(s) = "demux"
    BY <1>1 DEF Peer
  <2> QED BY <1>1, <2>2, <2>3 DEF Halves
<1>2. CASE s = "demux"
  <2>1. Joint(s, d, m)'
    BY <1>2 DEF Joint
  <2>2. Halves(s, d, m)'
    BY <2>1
  <2>3. Peer(s) = "mux"
    BY <1>2 DEF Peer
  <2> QED BY <1>2, <2>2, <2>3 DEF Halves
<1> QED BY <1>1, <1>2 DEF Side

LEMMA PairBefore ==
    ASSUME Births, NEW m \in Obj, NEW d \in {None} \cup Obj
    PROVE  Pair(m, d)' <=> Pair(m, d)
<1>1. \A t \in Side, o \in Obj : /\ client'[t][o].life = "unborn" <=> client[t][o].life = "unborn"
                                 /\ client'[t][o].mate = client[t][o].mate
  BY DEF Births, SameBirth
<1>2. \A o \in Obj : /\ client'["mux"][o].life = "unborn" <=> client["mux"][o].life = "unborn"
                     /\ client'["demux"][o].mate = client["demux"][o].mate
  BY <1>1 DEF Side
<1> QED BY <1>2 DEF Pair

LEMMA JointBefore ==
    ASSUME Births, NEW s \in Side, NEW o, NEW x
    PROVE  Joint(s, o, x)' <=> Joint(s, o, x)
BY PairBefore DEF Joint

\* No client is made: what held of a connection still does.
LEMMA ConnectionsStep ==
    ASSUME Births, Connections, NEW s \in Side,
           \A o, x \in {None} \cup Obj : Joint(s, o, x) /\ Halves(s, o, x) => Halves(s, o, x)'
    PROVE  Connections'
<1>1. ASSUME NEW o \in {None} \cup Obj, NEW x \in {None} \cup Obj, Joint(s, o, x)'
      PROVE  Halves(s, o, x)'
  <2>1. Joint(s, o, x)
    BY <1>1, JointBefore
  <2> QED BY <2>1, FromEither
<1> QED BY <1>1, ToBoth

SameStreams == \A t \in Side, o \in {None} \cup Obj : Follows(Stream(t)', Stream(t), o)
Kept(c, d) == SameBirth(c, d) /\ SameSender(c, d) /\ SameReceiver(c, d)

LEMMA ConnectionsKept ==
    ASSUME Types, Connections, SameStreams,
           \A t \in Side, o \in Obj : Kept(client[t][o], client'[t][o])
    PROVE  Births /\ Connections'
<1>1. Births
  BY DEF Births, Kept
<1>2. \A t \in Side, o \in {None} \cup Obj :
         SameSender(Rec(t, o), Rec(t, o)') /\ SameReceiver(Rec(t, o), Rec(t, o)')
  <2> SUFFICES ASSUME NEW t \in Side, NEW o \in {None} \cup Obj
               PROVE  SameSender(Rec(t, o), Rec(t, o)') /\ SameReceiver(Rec(t, o), Rec(t, o)')
    OBVIOUS
  <2>1. CASE o = None
    <3>1. Rec(t, o)' = Rec(t, o)
      BY <2>1, RecSame
    <3> QED BY <3>1, SameAsIs
  <2>2. CASE o # None
    <3>1. Rec(t, o)' = client'[t][o] /\ Rec(t, o) = client[t][o]
      BY <2>2 DEF Rec
    <3> QED BY <2>2, <3>1 DEF Kept
  <2> QED BY <2>1, <2>2
<1>3. ASSUME NEW o \in {None} \cup Obj, NEW x \in {None} \cup Obj, Halves("mux", o, x)
      PROVE  Halves("mux", o, x)'
  <2>1. "mux" \in Side /\ "demux" \in Side /\ Peer("mux") = "demux"
    BY DEF Side, Peer
  <2>2. Rec("mux", o) \in ClientRec /\ Rec("demux", x) \in ClientRec
    BY <2>1, RecType
  <2>3. Half(Stream("mux")', o, Rec("mux", o)', Rec("demux", x)')
    BY <1>2, <1>3, <2>1, <2>2, HalfFollows DEF Halves, SameStreams
  <2>4. Half(Stream("demux")', x, Rec("demux", x)', Rec("mux", o)')
    BY <1>2, <1>3, <2>1, <2>2, HalfFollows DEF Halves, SameStreams
  <2> QED BY <2>1, <2>3, <2>4 DEF Halves
<1>4. "mux" \in Side
  BY DEF Side
<1> QED BY <1>1, <1>3, <1>4, ConnectionsStep
\* g is f, but for a packet that holds nothing, which may be gone from its head.
Bare(pk) == pk.data = <<>> /\ pk.acks = <<>>
Shifted(g, f) ==
    \E k \in {0, 1} :
        /\ \A i \in Nat : g[i] = f[i + k] \/ (g[i] = NoPacket /\ Bare(f[i + k]))
        /\ k = 1 => Bare(f[0])

LEMMA BareHolds == ASSUME NEW pk, Bare(pk), NEW o PROVE ~Holds(pk, o)
BY DEF Bare, Holds, HasData, AcksOf

LEMMA BareNoPacket == Bare(NoPacket)
BY DEF Bare, NoPacket

LEMMA ShiftedFollows ==
    ASSUME NEW f, NEW g, Shifted(g, f), NEW o
    PROVE  Follows(g, f, o)
<1> PICK k \in {0, 1} : /\ \A i \in Nat : g[i] = f[i + k] \/ (g[i] = NoPacket /\ Bare(f[i + k]))
                        /\ k = 1 => Bare(f[0])
  BY DEF Shifted
<1>1. \A a, b : ~Holds(a, o) /\ ~Holds(b, o) => SameItems(a, b, o)
  BY DEF Holds, SameItems
<1>2. \A a : SameItems(a, a, o)
  BY DEF SameItems
<1>3. \A i \in Nat : SameItems(g[i], f[i + k], o)
  BY <1>1, <1>2, BareHolds, BareNoPacket
<1>4. k = 1 => ~Holds(f[0], o)
  BY BareHolds
<1> QED BY <1>3, <1>4 DEF Follows

\* No client of s is unborn or renamed.
StillHas(s) ==
    \A o \in Obj : client[s][o].life # "unborn" =>
                  client'[s][o].life # "unborn" /\ client'[s][o].id = client[s][o].id

LEMMA BornStay == ASSUME Births, NEW s \in Side PROVE StillHas(s)
BY DEF Births, SameBirth, StillHas

LEMMA PacketKept ==
    ASSUME NEW s \in Side, StillHas(s), NEW pk \in AnyPacket, PacketOK(client[s], pk)
    PROVE  PacketOK(client'[s], pk)
<1>1. \A o \in Obj : client[s][o].life # "unborn" =>
                    client'[s][o].life # "unborn" /\ client'[s][o].id = client[s][o].id
  BY DEF StillHas
<1>2. ASSUME DataPacket(client[s], pk) PROVE DataPacket(client'[s], pk)
  <2>1. pk.data \in Seq(Obj \X (Nat \ {0})) /\ pk.data # <<>>
    BY <1>2 DEF DataPacket, AnyPacket
  <2>2. pk.data[1] \in Obj \X (Nat \ {0})
    BY <2>1
  <2>3. pk.data[1][1] \in Obj
    BY <2>2
  <2> QED BY <1>1, <1>2, <2>3 DEF DataPacket
<1>3. ASSUME ControlPacket(client[s], pk) PROVE ControlPacket(client'[s], pk)
  <2>1. pk.acks \in Seq(Entry)
    BY DEF AnyPacket
  <2>2. \A j \in 1 .. Len(pk.acks) : pk.acks[j] \in Entry
    BY <2>1
  <2>3. \A j \in 1 .. Len(pk.acks) : pk.acks[j].from \in Obj
    BY <2>2 DEF Entry
  <2> QED BY <1>1, <1>3, <2>3 DEF ControlPacket
<1> QED BY <1>2, <1>3 DEF PacketOK

LEMMA PacketsKept ==
    ASSUME Types, Births, NEW s \in Side, Packets(s), Shifted(Stream(s)', Stream(s)),
           Stream(s)'[0].id = ControlId => Stream(s)'[0].acks # <<>>
    PROVE  Packets(s)'
<1> PICK k \in {0, 1} : \A i \in Nat : Stream(s)'[i] \in {Stream(s)[i + k], NoPacket}
  BY DEF Shifted
<1>1. \A i \in Nat : i + k \in Nat
  OBVIOUS
<1>2. ASSUME NEW i \in Nat PROVE PacketOK(client'[s], Stream(s)[i])
  BY PacketKept, BornStay, StreamType DEF Packets
<1>3. PacketOK(client'[s], NoPacket)
  BY DEF PacketOK
<1> QED BY <1>1, <1>2, <1>3 DEF Packets

LEMMA MatingKept ==
    ASSUME Types, Births, Mating
    PROVE  Mating'
<1>1. \A t \in Side, o \in Obj : /\ client'[t][o].life = "unborn" <=> client[t][o].life = "unborn"
                                 /\ client'[t][o].id = client[t][o].id
                                 /\ client'[t][o].mate = client[t][o].mate
  BY DEF Births, SameBirth
<1>2. \A o \in Obj : client["demux"][o].mate \in {None} \cup Obj
  BY TypeFacts, RecFacts DEF Side
<1>3. "mux" \in Side /\ "demux" \in Side
  BY DEF Side
<1>4. OpenedOnce'
  BY <1>1, <1>3 DEF Mating, OpenedOnce
<1>5. ASSUME NEW d \in Obj
      PROVE  /\ client'["demux"][d].life = "unborn" <=> client'["demux"][d].mate = None
             /\ client'["demux"][d].mate # None =>
                  /\ client'["mux"][client'["demux"][d].mate].life # "unborn"
                  /\ client'["mux"][client'["demux"][d].mate].id = client'["demux"][d].id
  <2>1. CASE client["demux"][d].mate = None
    BY <1>1, <1>3, <2>1 DEF Mating
  <2>2. CASE client["demux"][d].mate \in Obj
    BY <1>1, <1>3, <2>2 DEF Mating
  <2> QED BY <1>2, <2>1, <2>2
<1> QED BY <1>4, <1>5 DEF Mating

\* What client o of side s has received.
Genuine(s, o, given, out) ==
    /\ \A i \in 1 .. Len(given) : given[i][2] = i /\ Mates(s, o, given[i][1])
    /\ \A i \in 1 .. Len(out) : out[i][2] = Len(given) + i /\ Mates(s, o, out[i][1])

LEMMA ContentsGenuine ==
    Contents <=> \A s \in Side, o \in Obj : Genuine(s, o, client[s][o].given, client[s][o].out)
BY DEF Contents, Genuine

LEMMA SuccessionKept ==
    ASSUME Types, Tables("mux"), Clients("mux"), Succession,
           \A o \in Obj : SameBirth(client["mux"][o], client'["mux"][o]),
           NEW k \in {0, 1},
           \A i \in Nat, o \in Obj : Holds(Stream("mux")'[i], o) => Holds(Stream("mux")[i + k], o),
           \A o \in Obj : client'["mux"][o].life = "live" => client["mux"][o].life = "live"
    PROVE  Succession'
<1> SUFFICES ASSUME NEW m \in Obj, NEW n \in Obj, Gone(client'["mux"][m]),
                    client'["mux"][n].life = "live", client'["mux"][m].id = client'["mux"][n].id,
                    NEW i \in Nat, NEW j \in Nat,
                    Holds(Stream("mux")'[i], m), Holds(Stream("mux")'[j], n)
             PROVE  i < j
  BY DEF Succession
<1>0. "mux" \in Side /\ client["mux"] \in [Obj -> ClientRec]
  BY TypeFacts DEF Side
<1>1. /\ client["mux"][n].life = "live" /\ client["mux"][m].id = client["mux"][n].id
      /\ client["mux"][m].life # "unborn"
  BY <1>0 DEF Births, SameBirth, Gone
<1>2. client["mux"][m].life # "live"
  BY <1>1 DEF Tables, Gone
<1>3. client["mux"][m].life \in {"unborn", "live", "burned", "freed"}
  BY <1>0, RecFacts
<1>4. Gone(client["mux"][m])
  BY <1>1, <1>2, <1>3 DEF Gone
<1>5. i + k < j + k /\ i + k \in Nat /\ j + k \in Nat
  <2>1. Holds(Stream("mux")[i + k], m) /\ Holds(Stream("mux")[j + k], n)
    OBVIOUS
  <2>2. i + k \in Nat /\ j + k \in Nat
    OBVIOUS
  <2> QED BY <1>1, <1>4, <2>1, <2>2 DEF Succession
<1> QED BY <1>5
LEMMA ShiftedSame ==
    ASSUME NEW f, NEW g, \A i \in Nat : g[i] = f[i]
    PROVE  Shifted(g, f)
<1>1. \A i \in Nat : i + 0 = i
  OBVIOUS
<1> QED BY <1>1 DEF Shifted

LEMMA SuccessionShifted ==
    ASSUME Types, Births, Tables("mux"), Clients("mux"), Succession,
           Shifted(Stream("mux")', Stream("mux")),
           \A o \in Obj : client'["mux"][o].life = "live" => client["mux"][o].life = "live"
    PROVE  Succession'
<1> PICK k \in {0, 1} : \A i \in Nat : \/ Stream("mux")'[i] = Stream("mux")[i + k]
                                        \/ Stream("mux")'[i] = NoPacket
  BY DEF Shifted
<1>1. ASSUME NEW i \in Nat, NEW o \in Obj, Holds(Stream("mux")'[i], o)
      PROVE  Holds(Stream("mux")[i + k], o)
  BY <1>1, NothingInNoPacket
<1>2. \A o \in Obj : SameBirth(client["mux"][o], client'["mux"][o])
  BY DEF Births, Side
<1> QED BY <1>1, <1>2, SuccessionKept

\* What the records of the clients say of what was received is true.
StillGenuine ==
    \A s \in Side, o \in Obj : Genuine(s, o, client'[s][o].given, client'[s][o].out)

LEMMA ContentsStill ==
    ASSUME Types, Types', Births, StillGenuine
    PROVE  Contents'
<1> SUFFICES ASSUME NEW s \in Side, NEW o \in Obj
             PROVE  /\ \A i \in 1 .. Len(client'[s][o].given) :
                         client'[s][o].given[i][2] = i /\ Mates(s, o, client[s][o].given[i][1])'
                    /\ \A i \in 1 .. Len(client'[s][o].out) :
                         /\ client'[s][o].out[i][2] = Len(client'[s][o].given) + i
                         /\ Mates(s, o, client[s][o].out[i][1])'
  BY DEF Contents
<1>1. client'[s][o] \in ClientRec
  BY DEF Types
<1>2. client'[s][o].given \in Seq(Obj \X Nat) /\ client'[s][o].out \in Seq(Obj \X Nat)
  BY <1>1, RecFacts
<1>3. Genuine(s, o, client'[s][o].given, client'[s][o].out)
  BY DEF StillGenuine
<1>4. \A t \in Side, y \in Obj : client'[t][y].mate = client[t][y].mate
  BY DEF Births, SameBirth
<1>5. "demux" \in Side
  BY DEF Side
<1> DEFINE given == client'[s][o].given
           out == client'[s][o].out
<1>6. \A i \in 1 .. Len(given) : given[i][1] \in Obj
  <2>1. given \in Seq(Obj \X Nat)
    BY <1>2
  <2> HIDE DEF given
  <2>2. \A i \in 1 .. Len(given) : given[i] \in Obj \X Nat
    BY <2>1
  <2> QED BY <2>2
<1>7. \A i \in 1 .. Len(out) : out[i][1] \in Obj
  <2>1. out \in Seq(Obj \X Nat)
    BY SMTT(40), <1>2
  <2> HIDE DEF out
  <2>2. \A i \in 1 .. Len(out) : out[i] \in Obj \X Nat
    BY <2>1
  <2> QED BY <2>2
<1>8. \A i \in 1 .. Len(given) : given[i][2] = i /\ Mates(s, o, client[s][o].given[i][1])'
  BY <1>3, <1>4, <1>5, <1>6 DEF Genuine, Mates
<1>9. \A i \in 1 .. Len(out) : out[i][2] = Len(given) + i /\ Mates(s, o, client[s][o].out[i][1])'
  BY <1>3, <1>4, <1>5, <1>7 DEF Genuine, Mates
<1> QED BY <1>8, <1>9

\* A step that neither sends nor receives.
LEMMA CrossKept ==
    ASSUME Types, Types', \A s \in Side : Local(s), Cross,
           \A t \in Side : Shifted(Stream(t)', Stream(t)),
           \A t \in Side : Stream(t)'[0].id = ControlId => Stream(t)'[0].acks # <<>>,
           \A t \in Side, o \in Obj : Kept(client[t][o], client'[t][o]),
           \A t \in Side, o \in Obj : client'[t][o].life = "live" => client[t][o].life = "live",
           StillGenuine
    PROVE  Cross'
<1>1. SameStreams
  BY ShiftedFollows DEF SameStreams
<1>2. Births /\ Connections'
  BY <1>1, ConnectionsKept DEF Cross
<1>3. \A t \in Side : Packets(t)'
  BY <1>2, PacketsKept DEF Cross
<1>4. Mating' /\ Contents'
  BY <1>2, MatingKept, ContentsStill DEF Cross
<1>5. Succession'
  <2>1. "mux" \in Side
    BY DEF Side
  <2>2. Tables("mux") /\ Clients("mux")
    BY <2>1 DEF Local
  <2> QED BY <1>2, <2>1, <2>2, SuccessionShifted DEF Cross
<1> QED BY <1>2, <1>3, <1>4, <1>5 DEF Cross

\* A client that only its own side sees the change of.
Unseen(c, d) ==
    Kept(c, d) /\ d.given = c.given /\ d.out = c.out /\ (d.life = "live" => c.life = "live")

LEMMA CrossUnseen ==
    ASSUME Types, Types', \A s \in Side : Local(s), Cross,
           \A t \in Side : Shifted(Stream(t)', Stream(t)),
           \A t \in Side : Stream(t)'[0].id = ControlId => Stream(t)'[0].acks # <<>>,
           \A t \in Side, o \in Obj : Unseen(client[t][o], client'[t][o])
    PROVE  Cross'
<1>1. StillGenuine
  BY ContentsGenuine DEF StillGenuine, Cross, Unseen
<1> QED BY <1>1, CrossKept DEF Unseen

LEMMA UnseenItself == ASSUME NEW c PROVE Unseen(c, c)
BY SameAsIs DEF Unseen, Kept

LEMMA StreamsStill ==
    ASSUME Types, Cross, wout' = wout, link' = link, rin' = rin
    PROVE  \A t \in Side : /\ Shifted(Stream(t)', Stream(t))
                           /\ Stream(t)'[0].id = ControlId => Stream(t)'[0].acks # <<>>
<1>1. \A t \in Side : Stream(t)' = Stream(t)
  BY DEF Stream, Peer
<1> QED BY <1>1, ShiftedSame DEF Cross, Packets

\* Client o of s changes, and nothing is sent or received.
LEMMA CrossOne ==
    ASSUME Types, Types', \A s \in Side : Local(s), Cross, wout' = wout, link' = link, rin' = rin,
           NEW s \in Side, NEW o \in Obj, NEW r, client' = [client EXCEPT ![s][o] = r],
           Unseen(client[s][o], r)
    PROVE  Cross'
<1>1. \A t \in Side, x \in Obj : client'[t][x] = IF t = s /\ x = o THEN r ELSE client[t][x]
  BY DEF Types
<1>2. \A t \in Side, x \in Obj : Unseen(client[t][x], client'[t][x])
  BY <1>1, UnseenItself
<1> QED BY <1>2, StreamsStill, CrossUnseen
-----------------------------------------------------------------------------
(* Steps that neither send nor receive.                                    *)

LEMMA CrossQuiet ==
    ASSUME Types, Types', \A s \in Side : Local(s), Cross, NEW s \in Side,
           \/ SkipDead(s) \/ Stall(s) \/ EnterClientw(s) \/ ClientBlocked(s)
           \/ LeaveMainr(s) \/ MainWritable(s) \/ LinkReplaced(s) \/ MainEvent(s)
           \/ (\E batch : Wait(s, batch)) \/ (\E o \in Obj : ConnectLate(s, o))
           \/ UNCHANGED vars
    PROVE  Cross'
<1>1. client' = client /\ wout' = wout /\ link' = link /\ rin' = rin
  BY DEF SkipDead, Stall, EnterClientw, ClientBlocked, LeaveMainr, MainWritable, LinkReplaced,
         MainEvent, Wait, ConnectLate, vars, linkVars, runVars
<1> QED BY <1>1, StreamsStill, UnseenItself, CrossUnseen

LEMMA CrossDump ==
    ASSUME Types, Types', \A s \in Side : Local(s), Cross, NEW s \in Side, Dump(s)
    PROVE  Cross'
<1> DEFINE p == Peer(s)
           b == wout[s]
           q == link[p]
<1>0. p \in Side /\ Peer(p) = s
  BY Sides
<1>1. /\ client' = client /\ rin' = rin /\ wout'[s] = NoPacket /\ link'[p] = Append(q, b)
      /\ \A t \in Side : t # s => wout'[t] = wout[t] /\ link'[Peer(t)] = link[Peer(t)]
  BY <1>0, Sides DEF Dump, Types, runVars
<1>2. \A i \in Nat : Stream(s)'[i] = Stream(s)[i]
  <2>1. rin[p] \in AnyPacket /\ q \in Seq(AnyPacket) /\ b \in AnyPacket
    BY <1>0, TypeFacts
  <2>2. Stream(s)' = StreamOf(rin[p], Append(q, b), NoPacket) /\ Stream(s) = StreamOf(rin[p], q, b)
    BY <1>1 DEF Stream, Peer
  <2> HIDE DEF p, q, b
  <2> QED BY <2>1, <2>2, StreamDump
<1>3. \A t \in Side : t # s => Stream(t)' = Stream(t)
  BY <1>1 DEF Stream, Peer
<1>4. \A t \in Side : \A i \in Nat : Stream(t)'[i] = Stream(t)[i]
  BY <1>2, <1>3
<1>5. \A t \in Side : /\ Shifted(Stream(t)', Stream(t))
                      /\ Stream(t)'[0].id = ControlId => Stream(t)'[0].acks # <<>>
  BY SMTT(40), <1>4, ShiftedSame DEF Cross, Packets
<1> QED BY <1>1, <1>5, UnseenItself, CrossUnseen

LEMMA ControlNoData ==
    ASSUME Types, NEW s \in Side, Clients(s), NEW pk \in AnyPacket, PacketOK(client[s], pk),
           pk.id = ControlId
    PROVE  ControlPacket(client[s], pk) /\ pk.data = <<>>
<1>1. ~DataPacket(client[s], pk)
  BY DataFrom
<1>2. pk # NoPacket
  BY DEF NoPacket, ControlId
<1> QED BY <1>1, <1>2 DEF PacketOK, ControlPacket

LEMMA CrossReadPacket ==
    ASSUME Types, Types', \A s \in Side : Local(s), Cross, NEW s \in Side,
           NEW crosses \in BOOLEAN, ReadPacket(s, crosses)
    PROVE  Cross'
<1> DEFINE p == Peer(s)
           q == link[s]
           b == wout[p]
           h == Head(q)
           x == IF h.id = ControlId /\ h.acks = <<>> THEN NoPacket ELSE h
<1>0. p \in Side /\ Peer(p) = s /\ \A t \in Side : t = s \/ t = p
  BY Sides
<1>1. /\ client' = client /\ wout' = wout /\ rin[s] = NoPacket /\ rin'[s] = x /\ link'[s] = Tail(q)
      /\ q # <<>> /\ rin'[p] = rin[p] /\ link'[p] = link[p]
  BY <1>0, Sides DEF ReadPacket, Types
<1>2. q \in Seq(AnyPacket) /\ b \in AnyPacket /\ h \in AnyPacket /\ Tail(q) \in Seq(AnyPacket)
  <2>1. q \in Seq(AnyPacket) /\ b \in AnyPacket
    BY <1>0, TypeFacts
  <2> HIDE DEF q
  <2> QED BY <1>1, <2>1, HeadTailProperties
<1> DEFINE f == StreamOf(NoPacket, q, b)
           g == StreamOf(h, Tail(q), b)
           g2 == StreamOf(x, Tail(q), b)
<1>3. Stream(p) = f /\ Stream(p)' = g2
  BY <1>0, <1>1 DEF Stream
<1>4. \A i \in Nat : g[i] = f[i + 1]
  <2> HIDE DEF q, b, p
  <2> QED BY <1>1, <1>2, StreamRead
<1>5. f[0] = NoPacket /\ g[0] = h /\ g2[0] = x /\ \A i \in Nat : i # 0 => g2[i] = g[i]
  BY DEF StreamOf
<1>6. PacketOK(client[p], h)
  <2>1. h = f[0 + 1] /\ 0 + 1 \in Nat
    BY <1>4, <1>5
  <2> HIDE DEF f
  <2> QED BY <1>0, <1>3, <2>1 DEF Cross, Packets
<1>7. x = h \/ (x = NoPacket /\ Bare(h))
  <2>1. h.id = ControlId => h.data = <<>>
    BY <1>0, <1>2, <1>6, ControlNoData DEF Local
  <2> HIDE DEF h
  <2> QED BY <2>1 DEF Bare
<1>8. x.id = ControlId => x.acks # <<>>
  BY DEF NoPacket, ControlId
<1>9. Shifted(Stream(p)', Stream(p))
  <2> HIDE DEF f, g, x, h
  <2>1. \A i \in Nat : g2[i] = f[i + 1] \/ (g2[i] = NoPacket /\ Bare(f[i + 1]))
    BY <1>4, <1>5, <1>7
  <2> HIDE DEF g2
  <2> QED BY <1>3, <1>5, <2>1, BareNoPacket DEF Shifted
<1>10. Stream(s)' = Stream(s)
  BY <1>1 DEF Stream
<1>11. \A t \in Side : /\ Shifted(Stream(t)', Stream(t))
                       /\ Stream(t)'[0].id = ControlId => Stream(t)'[0].acks # <<>>
  <2>1. Shifted(Stream(s)', Stream(s)) /\ (Stream(s)'[0].id = ControlId => Stream(s)'[0].acks # <<>>)
    BY <1>10, ShiftedSame DEF Cross, Packets
  <2>2. Stream(p)'[0].id = ControlId => Stream(p)'[0].acks # <<>>
    <3> HIDE DEF x, g2
    <3> QED BY <1>3, <1>5, <1>8
  <2> HIDE DEF p
  <2> QED BY <1>0, <1>9, <2>1, <2>2
<1> QED BY <1>1, <1>11, UnseenItself, CrossUnseen

LEMMA SeenFields ==
    ASSUME NEW c, NEW d, d.id = c.id, d.mate = c.mate, d.life = c.life, d.wkarma = c.wkarma,
           d.taken = c.taken, d.granted = c.granted, d.is_rdead = c.is_rdead,
           d.given = c.given, d.out = c.out, Done(d) <=> Done(c)
    PROVE  Unseen(c, d)
BY DEF Unseen, Kept, SameBirth, SameSender, SameReceiver, Received, Credit, Heard, Gone

LEMMA UnseenDisconnected ==
    ASSUME NEW c \in ClientRec, ClientOK(c), Open(c)
    PROVE  Unseen(c, Disconnected(c))
<1>1. ~Done(c)
  BY DEF Done
<1> DEFINE d == Disconnected(c)
<1>2. /\ d.id = c.id /\ d.mate = c.mate /\ d.life = c.life /\ d.wkarma = c.wkarma
      /\ d.taken = c.taken /\ d.granted = c.granted /\ d.is_rdead = c.is_rdead
      /\ d.given = c.given /\ d.out = c.out /\ d.rkarma = End
  BY DEF Disconnected, ClientRec
<1> HIDE DEF d
<1>3. ~Done(d)
  BY <1>2 DEF Done, End
<1> QED BY <1>1, <1>2, <1>3, SeenFields DEF d

LEMMA CrossDisconnects ==
    ASSUME Types, Types', \A s \in Side : Local(s), Cross, NEW s \in Side, NEW o \in Obj,
           \/ ConnectFails(s, o) \/ GrabEnd(s, o)
           \/ ClientWriteFails(s) /\ o = cw[s] /\ CanUse(client[s][o])
    PROVE  Cross'
<1>1. /\ client' = [client EXCEPT ![s][o] = Disconnected(@)] /\ Open(client[s][o])
      /\ wout' = wout /\ link' = link /\ rin' = rin
  BY DEF ConnectFails, GrabEnd, ClientWriteFails, CanUse, linkVars, runVars
<1>2. client' = [client EXCEPT ![s][o] = Disconnected(client[s][o])]
  BY <1>1
<1>3. client[s][o] \in ClientRec /\ ClientOK(client[s][o])
  BY TypeFacts DEF Local, Clients
<1>4. Unseen(client[s][o], Disconnected(client[s][o]))
  BY <1>1, <1>3, UnseenDisconnected
<1> QED BY <1>1, <1>2, <1>4, CrossOne

LEMMA CrossClientEvent ==
    ASSUME Types, Types', \A s \in Side : Local(s), Cross, NEW s \in Side, NEW o \in Obj,
           NEW flags, ClientEvent(s, o, flags)
    PROVE  Cross'
<1> DEFINE c == client[s][o]
           d == [c EXCEPT !.is_connecting = FALSE]
<1>1. /\ client' = [client EXCEPT ![s][o] = d] /\ wout' = wout /\ link' = link /\ rin' = rin
  BY DEF ClientEvent, linkVars
<1>2. c \in ClientRec
  BY TypeFacts
<1>3. /\ d.id = c.id /\ d.mate = c.mate /\ d.life = c.life /\ d.wkarma = c.wkarma
      /\ d.taken = c.taken /\ d.granted = c.granted /\ d.is_rdead = c.is_rdead
      /\ d.given = c.given /\ d.out = c.out /\ d.rkarma = c.rkarma /\ d.s = c.s
  BY <1>2 DEF ClientRec
<1> HIDE DEF d
<1>4. Done(d) <=> Done(c)
  BY <1>3 DEF Done, Open
<1>5. Unseen(c, d)
  BY <1>3, <1>4, SeenFields
<1> QED BY <1>1, <1>5, CrossOne

LEMMA CrossFree ==
    ASSUME Types, Types', \A s \in Side : Local(s), Cross, NEW s \in Side, Free(s)
    PROVE  Cross'
<1>1. wout' = wout /\ link' = link /\ rin' = rin /\ \A t \in Side : t # s => client'[t] = client[t]
  BY DEF Free, linkVars, Types
<1>2. \A o \in Obj : client'[s][o] = IF o \in Burned(s)
                     THEN [client[s][o] EXCEPT !.life = "freed", !.s = "closed"] ELSE client[s][o]
  BY DEF Free, Types
<1>3. ASSUME NEW c \in ClientRec, ClientOK(c), c.life = "burned"
      PROVE  Unseen(c, [c EXCEPT !.life = "freed", !.s = "closed"])
  <2> DEFINE d == [c EXCEPT !.life = "freed", !.s = "closed"]
  <2>1. /\ d.id = c.id /\ d.mate = c.mate /\ d.life = "freed" /\ d.s = "closed"
        /\ d.wkarma = c.wkarma /\ d.taken = c.taken /\ d.granted = c.granted
        /\ d.is_rdead = c.is_rdead /\ d.rkarma = c.rkarma /\ d.given = c.given /\ d.out = c.out
    BY DEF ClientRec
  <2> HIDE DEF d
  <2>2. ~Open(c)
    BY <1>3 DEF ClientOK
  <2>3. Done(d) <=> Done(c)
    BY <1>3, <2>1, <2>2 DEF Done, Open
  <2>4. Heard(d) /\ Heard(c) /\ Received(d) = Received(c) /\ Credit(d) = Credit(c)
    BY <1>3, <2>1 DEF Heard, Gone, Received, Credit
  <2>5. Unseen(c, d)
    BY <1>3, <2>1, <2>3, <2>4 DEF Unseen, Kept, SameBirth, SameSender, SameReceiver
  <2> QED BY <2>5 DEF d
<1>4. \A t \in Side, o \in Obj : client[t][o] \in ClientRec /\ ClientOK(client[t][o])
  BY TypeFacts DEF Local, Clients
<1>5. \A o \in Burned(s) : client[s][o].life = "burned"
  BY DEF Burned
<1>6. \A o \in Obj : Unseen(client[s][o], client'[s][o])
  BY <1>2, <1>3, <1>4, <1>5, UnseenItself
<1>7. \A t \in Side, o \in Obj : Unseen(client[t][o], client'[t][o])
  BY <1>1, <1>6, UnseenItself
<1> QED BY <1>1, <1>7, StreamsStill, CrossUnseen
\* Units are moved from out_buf to the socket in their order.
LEMMA GenuineWritten ==
    ASSUME NEW s, NEW o, NEW given \in Seq(Obj \X Nat), NEW out \in Seq(Obj \X Nat),
           NEW k \in 1 .. Len(out), Genuine(s, o, given, out)
    PROVE  Genuine(s, o, given \o SubSeq(out, 1, k), SubSeq(out, k + 1, Len(out)))
<1> DEFINE g == Len(given)
           n == Len(out)
           a == SubSeq(out, 1, k)
           b == SubSeq(out, k + 1, n)
           w == given \o a
<1>1. g \in Nat /\ n \in Nat /\ k \in 1 .. n
  OBVIOUS
<1>2. a \in Seq(Obj \X Nat) /\ Len(a) = k /\ \A i \in 1 .. k : a[i] = out[i]
  OBVIOUS
<1>3. Len(b) = n - k /\ \A i \in 1 .. n - k : b[i] = out[k + i]
  <2> HIDE DEF n
  <2>1. k + 1 \in Nat /\ n \in Nat
    BY <1>1
  <2>2. k + 1 <= n => Len(b) = (n - (k + 1)) + 1
    BY <1>1, <2>1 DEF n
  <2>3. k = n => Len(b) = 0
    BY <1>1, <2>1 DEF n
  <2>4. \A i \in 1 .. n - k : b[i] = out[(k + 1) + i - 1]
    BY <1>1, <2>1 DEF n
  <2>5. \A i \in 1 .. n - k : (k + 1) + i - 1 = k + i
    BY <1>1
  <2>6. Len(b) = n - k
    <3> HIDE DEF b
    <3> QED BY <1>1, <2>2, <2>3
  <2> QED BY <2>4, <2>5, <2>6
<1>4. /\ Len(w) = g + k /\ \A i \in 1 .. g : w[i] = given[i]
      /\ \A i \in 1 .. k : w[g + i] = a[i]
  <2> HIDE DEF a
  <2> QED BY <1>2, ConcatProperties
<1>5. /\ \A i \in 1 .. g : given[i][2] = i /\ Mates(s, o, given[i][1])
      /\ \A i \in 1 .. n : out[i][2] = g + i /\ Mates(s, o, out[i][1])
  BY DEF Genuine
<1> SUFFICES Genuine(s, o, w, b)
  OBVIOUS
<1> HIDE DEF g, n, a, b, w
<1>6. ASSUME NEW i \in 1 .. Len(w) PROVE w[i][2] = i /\ Mates(s, o, w[i][1])
  <2>1. CASE i \in 1 .. g
    BY <1>4, <1>5, <2>1
  <2>2. CASE i > g
    <3>1. i - g \in 1 .. k /\ i - g \in 1 .. n /\ g + (i - g) = i
      BY <1>1, <1>4, <2>2
    <3>2. w[i] = out[i - g]
      BY <1>2, <1>4, <3>1
    <3>3. out[i - g][2] = i /\ Mates(s, o, out[i - g][1])
      BY <1>5, <3>1
    <3> QED BY <3>2, <3>3
  <2> QED BY <1>1, <1>4, <2>1, <2>2
<1>7. ASSUME NEW i \in 1 .. Len(b) PROVE b[i][2] = Len(w) + i /\ Mates(s, o, b[i][1])
  <2>1. k + i \in 1 .. n /\ i \in 1 .. n - k /\ g + (k + i) = (g + k) + i
    BY <1>1, <1>3
  <2>2. b[i] = out[k + i] /\ out[k + i][2] = g + (k + i) /\ Mates(s, o, out[k + i][1])
    BY <1>3, <1>5, <2>1
  <2> QED BY <1>4, <2>1, <2>2
<1> QED BY <1>6, <1>7 DEF Genuine

LEMMA CrossWritten ==
    ASSUME Types, Types', \A s \in Side : Local(s), Cross, NEW s \in Side, NEW o, NEW k, NEW r,
           ClientWritten(s, o, k, r)
    PROVE  Cross'
<1> DEFINE c == client[s][o]
<1>1. /\ o \in Obj /\ c \in ClientRec /\ k \in 1 .. Len(c.out) /\ Open(c)
      /\ r.life = c.life /\ r.id = c.id /\ r.mate = c.mate /\ r.s = c.s /\ r.is_rdead = c.is_rdead
      /\ r.wkarma = c.wkarma /\ r.taken = c.taken /\ r.granted = c.granted
      /\ Len(r.given) = Len(c.given) + k /\ Len(r.out) = Len(c.out) - k
      /\ r.out = SubSeq(c.out, k + 1, Len(c.out)) /\ r.given = c.given \o SubSeq(c.out, 1, k)
      /\ client' = [client EXCEPT ![s][o] = r] /\ wout' = wout /\ link' = link /\ rin' = rin
  BY DEF ClientWritten, CanUse
<1>2. c.given \in Seq(Obj \X Nat) /\ c.out \in Seq(Obj \X Nat) /\ Genuine(s, o, c.given, c.out)
  BY <1>1, RecFacts, ContentsGenuine DEF Cross
<1>3. Genuine(s, o, r.given, r.out)
  <2>1. Genuine(s, o, c.given \o SubSeq(c.out, 1, k), SubSeq(c.out, k + 1, Len(c.out)))
    BY <1>1, <1>2, GenuineWritten
  <2> QED BY <1>1, <2>1
<1>4. Received(r) = Received(c)
  <2> DEFINE a == Len(c.given)
             b == Len(c.out)
  <2>1. a \in Nat /\ b \in Nat /\ k \in 1 .. b
    BY <1>1, CountFacts
  <2>2. Received(r) = (a + k) + (b - k) /\ Received(c) = a + b
    BY <1>1 DEF Received
  <2> HIDE DEF a, b, c
  <2> QED BY <2>1, <2>2
<1> HIDE DEF c
<1>5. ~Done(r) /\ ~Done(c)
  BY <1>1 DEF Done, Open
<1>6. SameBirth(c, r) /\ SameSender(c, r) /\ SameReceiver(c, r)
  BY <1>1, <1>4, <1>5 DEF SameBirth, SameSender, SameReceiver, Credit, Heard, Gone
<1>7. \A t \in Side, x \in Obj : client'[t][x] = IF t = s /\ x = o THEN r ELSE client[t][x]
  BY <1>1 DEF Types
<1>8. \A t \in Side, x \in Obj : Kept(client[t][x], client'[t][x])
  BY <1>6, <1>7, SameAsIs DEF Kept, c
<1>9. StillGenuine
  BY <1>3, <1>7, ContentsGenuine DEF StillGenuine, Cross
<1>10. \A t \in Side, x \in Obj : client'[t][x].life = "live" => client[t][x].life = "live"
  BY <1>1, <1>7 DEF c
<1>11. \A t \in Side : /\ Shifted(Stream(t)', Stream(t))
                       /\ Stream(t)'[0].id = ControlId => Stream(t)'[0].acks # <<>>
  BY <1>1, StreamsStill
<1> QED BY <1>8, <1>9, <1>10, <1>11, CrossKept
-----------------------------------------------------------------------------
(* Steps that send.                                                        *)

LEMMA SuccessionPut ==
    ASSUME Types, Births, Tables("mux"), Succession, NEW n \in Nat, NEW pk,
           Put(Stream("mux")', Stream("mux"), n, pk),
           \A o \in Obj : Holds(pk, o) => client["mux"][o].life = "live",
           \A o \in Obj : client'["mux"][o].life = "live" => client["mux"][o].life = "live"
    PROVE  Succession'
<1> SUFFICES ASSUME NEW m \in Obj, NEW l \in Obj, Gone(client'["mux"][m]),
                    client'["mux"][l].life = "live", client'["mux"][m].id = client'["mux"][l].id,
                    NEW i \in Nat, NEW j \in Nat,
                    Holds(Stream("mux")'[i], m), Holds(Stream("mux")'[j], l)
             PROVE  i < j
  BY DEF Succession
<1>0. "mux" \in Side /\ client["mux"] \in [Obj -> ClientRec]
  BY TypeFacts DEF Side
<1>1. /\ client["mux"][l].life = "live" /\ client["mux"][m].id = client["mux"][l].id
      /\ client["mux"][m].life # "unborn"
  BY <1>0 DEF Births, SameBirth, Gone
<1>2. client["mux"][m].life # "live"
  BY <1>1 DEF Tables, Gone
<1>3. client["mux"][m].life \in {"unborn", "live", "burned", "freed"}
  BY <1>0, RecFacts
<1>4. Gone(client["mux"][m]) /\ ~Holds(pk, m)
  BY <1>1, <1>2, <1>3 DEF Gone
<1>5. i < n /\ Stream("mux")'[i] = Stream("mux")[i]
  BY <1>4, NothingInNoPacket DEF Put
<1>6. CASE j < n
  BY <1>1, <1>4, <1>5, <1>6 DEF Put, Succession
<1>7. CASE ~(j < n)
  BY <1>5, <1>7
<1> QED BY <1>6, <1>7

\* Client o of s sends pk, or several of them do.
LEMMA CrossPut ==
    ASSUME Types, Types', \A s \in Side : Local(s), Cross, NEW s \in Side, NEW n \in Nat \ {0},
           NEW pk \in AnyPacket, Put(Stream(s)', Stream(s), n, pk),
           Stream(Peer(s))' = Stream(Peer(s)), client'[Peer(s)] = client[Peer(s)],
           PacketOK(client'[s], pk), ~Holds(pk, None),
           \A o \in Obj :
              LET c == client[s][o]
                  d == client'[s][o]
              IN /\ SameBirth(c, d) /\ SameReceiver(c, d) /\ d.given = c.given /\ d.out = c.out
                 /\ d.life = "live" => c.life = "live"
                 /\ Holds(pk, o) => c.life = "live"
                 /\ ~Holds(pk, o) => SameSender(c, d),
           \A o \in Obj, r \in ClientRec :
              Holds(pk, o) /\ Half(Stream(s), o, client[s][o], r) =>
                 Half(Stream(s)', o, client'[s][o], r)
    PROVE  Cross'
<1> DEFINE p == Peer(s)
<1>0. p \in Side /\ Peer(p) = s /\ p # s /\ \A t \in Side : t = s \/ t = p
  BY Sides
<1>1. Births
  BY <1>0, SameAsIs DEF Births
<1>2. \A t \in Side, o \in Obj : client'[t][o].life = "live" => client[t][o].life = "live"
  BY <1>0
<1>3. Connections'
  <2>1. ASSUME NEW o \in {None} \cup Obj, NEW x \in {None} \cup Obj, Halves(s, o, x)
        PROVE  Halves(s, o, x)'
    <3>1. Rec(s, o) \in ClientRec /\ Rec(p, x) \in ClientRec
      BY <1>0, RecType
    <3>2. Rec(p, x)' = Rec(p, x)
      BY <1>0, RecSame
    <3>3. /\ SameReceiver(Rec(s, o), Rec(s, o)')
          /\ ~Holds(pk, o) => SameSender(Rec(s, o), Rec(s, o)')
      <4>1. CASE o = None
        <5>1. Rec(s, o)' = Rec(s, o)
          BY <4>1, RecSame
        <5> QED BY <5>1, SameAsIs
      <4>2. CASE o # None
        <5>1. Rec(s, o)' = client'[s][o] /\ Rec(s, o) = client[s][o] /\ o \in Obj
          BY <4>2 DEF Rec
        <5> QED BY <5>1
      <4> QED BY <4>1, <4>2
    <3>4. Half(Stream(p), x, Rec(p, x), Rec(s, o)')
      BY <2>1, <3>1, <3>3, SameAsIs, FollowsItself, HalfFollows DEF Halves
    <3>5. Half(Stream(s)', o, Rec(s, o)', Rec(p, x))
      <4>1. CASE Holds(pk, o)
        <5>1. Rec(s, o)' = client'[s][o] /\ Rec(s, o) = client[s][o] /\ o \in Obj
          BY <4>1 DEF Rec
        <5> QED BY <2>1, <3>1, <4>1, <5>1 DEF Halves
      <4>2. CASE ~Holds(pk, o)
        <5>1. Follows(Stream(s)', Stream(s), o)
          BY <4>2, PutOther
        <5> QED BY <2>1, <3>1, <3>3, <4>2, <5>1, SameAsIs, HalfFollows DEF Halves
      <4> QED BY <4>1, <4>2
    <3> QED BY <1>0, <3>2, <3>4, <3>5 DEF Halves
  <2> QED BY <1>1, <2>1, ConnectionsStep DEF Cross
<1>4. Packets(s)'
  <2>1. \A i \in Nat : Stream(s)'[i] \in {Stream(s)[i], pk, NoPacket}
    BY DEF Put
  <2>2. ASSUME NEW i \in Nat PROVE PacketOK(client'[s], Stream(s)[i])
    BY <1>1, PacketKept, BornStay, StreamType DEF Cross, Packets
  <2>3. PacketOK(client'[s], NoPacket)
    BY DEF PacketOK
  <2>4. Stream(s)'[0] = Stream(s)[0]
    BY DEF Put
  <2> QED BY <2>1, <2>2, <2>3, <2>4 DEF Packets, Cross
<1>5. Packets(p)'
  <2>1. Stream(p)' = Stream(p)
    OBVIOUS
  <2> HIDE DEF p
  <2> QED BY <1>0, <1>1, <2>1, ShiftedSame, PacketsKept DEF Cross, Packets
<1>6. Mating' /\ Contents'
  <2>1. StillGenuine
    BY <1>0, ContentsGenuine DEF StillGenuine, Cross
  <2> QED BY <1>1, <2>1, MatingKept, ContentsStill DEF Cross
<1>7. Succession'
  <2>0. "mux" \in Side /\ Tables("mux") /\ Clients("mux")
    BY DEF Side, Local
  <2>1. CASE s = "mux"
    BY <1>1, <1>2, <2>0, <2>1, SuccessionPut DEF Cross
  <2>2. CASE p = "mux"
    <3>1. Stream("mux")' = Stream("mux")
      BY <2>2
    <3> QED BY <1>1, <1>2, <2>0, <3>1, ShiftedSame, SuccessionShifted DEF Cross
  <2> QED BY <1>0, <2>0, <2>1, <2>2
<1> QED BY <1>0, <1>3, <1>4, <1>5, <1>6, <1>7 DEF Cross

LEMMA StreamsPut ==
    ASSUME Types, NEW s \in Side, NEW pk \in AnyPacket, wout[s] = NoPacket,
           wout' = [wout EXCEPT ![s] = pk], UNCHANGED <<link, rin>>
    PROVE  /\ Put(Stream(s)', Stream(s), Len(link[Peer(s)]) + 1, pk)
           /\ Len(link[Peer(s)]) + 1 \in Nat \ {0}
           /\ Stream(Peer(s))' = Stream(Peer(s))
<1> DEFINE p == Peer(s)
<1>0. p \in Side /\ Peer(p) = s /\ p # s
  BY Sides
<1>1. wout'[s] = pk /\ wout'[p] = wout[p]
  BY <1>0 DEF Types
<1>2. rin[p] \in AnyPacket /\ link[p] \in Seq(AnyPacket)
  BY <1>0, TypeFacts
<1>3. Stream(s)' = StreamOf(rin[p], link[p], pk) /\ Stream(s) = StreamOf(rin[p], link[p], NoPacket)
  BY <1>1 DEF Stream
<1>4. Len(link[p]) + 1 \in Nat \ {0}
  BY <1>2
<1>5. Stream(p)' = Stream(p)
  BY <1>0, <1>1 DEF Stream
<1> HIDE DEF p
<1> QED BY <1>2, <1>3, <1>4, <1>5, StreamPut DEF p
LEMMA CrossSends ==
    ASSUME Types, Types', \A s \in Side : Local(s), Cross, NEW s \in Side, NEW o \in Obj,
           NEW k \in Nat \ {0}, DataGrabbed(s, o, k)
    PROVE  Cross'
<1> DEFINE c == client[s][o]
           d == Sent(c, k)
           pk == [id |-> c.id, acks |-> <<>>, data |-> [i \in 1 .. k |-> <<o, c.taken + i>>]]
           n == Len(link[Peer(s)]) + 1
<1>1. /\ c \in ClientRec /\ k \in 0 .. c.wkarma /\ c.life = "live" /\ Open(c)
      /\ wout[s] = NoPacket /\ client' = [client EXCEPT ![s][o] = d]
      /\ wout' = [wout EXCEPT ![s] = pk] /\ UNCHANGED <<link, rin>>
  BY DEF DataGrabbed
<1>2. pk \in AnyPacket
  BY <1>1, GrabDataPacket
<1>3. Put(Stream(s)', Stream(s), n, pk) /\ n \in Nat \ {0} /\ Stream(Peer(s))' = Stream(Peer(s))
  <2> HIDE DEF pk
  <2> QED BY <1>1, <1>2, StreamsPut
<1>4. /\ pk.data # <<>> /\ pk.data[1] = <<o, c.taken + 1>> /\ pk.acks = <<>> /\ pk.id = c.id
      /\ Len(pk.data) = k
      /\ \A j \in 1 .. k : pk.data[j] = <<o, c.taken + j>>
  <2> DEFINE u == [i \in 1 .. k |-> <<o, c.taken + i>>]
  <2>1. pk.data = u /\ pk.acks = <<>> /\ pk.id = c.id
    OBVIOUS
  <2>2. DOMAIN u = 1 .. k /\ 1 \in 1 .. k
    OBVIOUS
  <2>3. \A j \in 1 .. k : u[j] = <<o, c.taken + j>>
    OBVIOUS
  <2>4. u \in Seq(Obj \X (Nat \ {0}))
    BY <1>2 DEF AnyPacket
  <2>5. Len(u) = k /\ u # <<>>
    <3> HIDE DEF u
    <3>1. Len(u) \in Nat /\ DOMAIN u = 1 .. Len(u)
      BY <2>4, LenProperties
    <3>2. Len(u) = k
      BY <2>2, <3>1
    <3> QED BY <3>2
  <2> HIDE DEF u, pk
  <2> QED BY <2>1, <2>2, <2>3, <2>5
<1>5. c.taken \in Nat /\ c.wkarma \in Nat
  BY <1>1, RecFacts
<1>6. /\ d.life = c.life /\ d.id = c.id /\ d.s = c.s /\ d.is_rdead = c.is_rdead /\ d.mate = c.mate
      /\ d.wkarma = c.wkarma - k /\ d.taken = c.taken + k
      /\ d.granted = c.granted /\ d.rkarma = c.rkarma /\ d.out = c.out /\ d.given = c.given
  BY <1>1, SentFields
<1>7. /\ client'[s][o] = d /\ client'[Peer(s)] = client[Peer(s)]
      /\ \A x \in Obj : x # o => client'[s][x] = client[s][x]
  BY <1>1, Sides DEF Types
<1>8. /\ HasData(pk, o) /\ Start(pk) = c.taken + 1 /\ Stop(pk) = c.taken + k
      /\ \A x : AcksOf(pk, x) = {} /\ (HasData(pk, x) => x = o)
  <2> HIDE DEF pk, c
  <2>1. HasData(pk, o) /\ \A x : HasData(pk, x) => x = o
    BY <1>4 DEF HasData
  <2>2. Start(pk) = c.taken + 1 /\ Stop(pk) = c.taken + k
    BY <1>4, <1>5 DEF Start, Stop
  <2>3. \A x : AcksOf(pk, x) = {}
    BY <1>4 DEF AcksOf
  <2> QED BY <2>1, <2>2, <2>3
<1>9. PacketOK(client'[s], pk)
  <2>1. \A j \in 1 .. k : c.taken + j = (c.taken + 1) + j - 1
    BY <1>5
  <2> HIDE DEF pk, c
  <2>2. DataPacket(client'[s], pk)
    BY <1>1, <1>4, <1>6, <1>7, <2>1 DEF DataPacket, c
  <2> QED BY <2>2 DEF PacketOK
<1> HIDE DEF c, d, pk, n
<1>10. \A x : Holds(pk, x) => x = o
  BY <1>8 DEF Holds
<1>11. /\ SameBirth(c, d) /\ SameReceiver(c, d)
  <2>1. Credit(d) = Credit(c)
    BY <1>1, <1>5, <1>6 DEF Credit
  <2> QED BY <1>6, <2>1 DEF SameBirth, SameReceiver, Received, Heard, Gone
<1>12. ~Done(c) /\ ~Done(d)
  BY <1>1, <1>6 DEF Done, Open
<1>13. ASSUME NEW r \in ClientRec, Half(Stream(s), o, c, r)
       PROVE  Half(Stream(s)', o, d, r)
  <2>1. /\ Received(r) \in Nat /\ Credit(r) \in Nat /\ \A i \in Nat : Stream(s)[i] \in AnyPacket
    BY CountFacts, StreamType
  <2>2. Units(Stream(s)', o, c.taken + k, Received(r))
    BY <1>2, <1>3, <1>5, <1>8, <1>13, <2>1, PutData DEF Half
  <2>3. Grants(Stream(s)', o, c.granted, Credit(r))
    BY <1>3, <1>8, <1>13, PutNoGrant DEF Half
  <2>4. Ends(Stream(s)', o, d, r)
    BY <1>3, <1>8, <1>12, <1>13, PutNoEnd DEF Half, EndIn
  <2> QED BY <1>6, <2>2, <2>3, <2>4 DEF Half
<1>14. ~Holds(pk, None)
  BY <1>10, Named
<1>15. \A x \in Obj :
          /\ SameBirth(client[s][x], client'[s][x]) /\ SameReceiver(client[s][x], client'[s][x])
          /\ client'[s][x].given = client[s][x].given /\ client'[s][x].out = client[s][x].out
          /\ client'[s][x].life = "live" => client[s][x].life = "live"
          /\ Holds(pk, x) => client[s][x].life = "live"
          /\ ~Holds(pk, x) => SameSender(client[s][x], client'[s][x])
  <2> SUFFICES ASSUME NEW x \in Obj
               PROVE  /\ SameBirth(client[s][x], client'[s][x])
                      /\ SameReceiver(client[s][x], client'[s][x])
                      /\ client'[s][x].given = client[s][x].given /\ client'[s][x].out = client[s][x].out
                      /\ client'[s][x].life = "live" => client[s][x].life = "live"
                      /\ Holds(pk, x) => client[s][x].life = "live"
                      /\ ~Holds(pk, x) => SameSender(client[s][x], client'[s][x])
    OBVIOUS
  <2>1. CASE x = o
    BY <1>1, <1>6, <1>7, <1>8, <1>11, <2>1 DEF Holds, c
  <2>2. CASE x # o
    <3>1. client'[s][x] = client[s][x] /\ ~Holds(pk, x)
      BY <1>7, <1>10, <2>2
    <3> QED BY <3>1, SameAsIs
  <2> QED BY <2>1, <2>2
<1>16. \A x \in Obj, r \in ClientRec :
          Holds(pk, x) /\ Half(Stream(s), x, client[s][x], r) => Half(Stream(s)', x, client'[s][x], r)
  BY <1>7, <1>10, <1>13 DEF c
<1> QED BY <1>2, <1>3, <1>7, <1>9, <1>14, <1>15, <1>16, CrossPut

LEMMA CrossGrabData ==
    ASSUME Types, Types', \A s \in Side : Local(s), Cross, NEW s \in Side, NEW o \in Obj,
           NEW k, DataGrabbed(s, o, k)
    PROVE  Cross'
<1> DEFINE c == client[s][o]
           d == Sent(c, k)
<1>1. /\ c \in ClientRec /\ k \in Nat /\ client' = [client EXCEPT ![s][o] = d]
      /\ wout[s] = NoPacket /\ UNCHANGED <<link, rin>>
      /\ k = 0 => wout' = [wout EXCEPT ![s] = NoPacket]
  BY DEF DataGrabbed
<1>2. CASE k = 0
  <2>1. /\ d.life = c.life /\ d.id = c.id /\ d.s = c.s /\ d.is_rdead = c.is_rdead /\ d.mate = c.mate
        /\ d.wkarma = c.wkarma - k /\ d.taken = c.taken + k
        /\ d.granted = c.granted /\ d.rkarma = c.rkarma /\ d.out = c.out /\ d.given = c.given
    BY <1>1, SentFields
  <2>2. c.taken \in Nat /\ c.wkarma \in Nat
    BY <1>1, RecFacts
  <2>3. wout' = wout
    BY <1>1, <1>2 DEF Types
  <2> HIDE DEF d
  <2>4. d.wkarma = c.wkarma /\ d.taken = c.taken
    BY <1>2, <2>1, <2>2
  <2>5. Unseen(c, d)
    BY <2>1, <2>4, SeenFields DEF Done, Open
  <2> HIDE DEF c
  <2> QED BY <1>1, <2>3, <2>5, CrossOne DEF c
<1>3. CASE k # 0
  BY <1>1, <1>3, CrossSends
<1> QED BY <1>2, <1>3

\* What a client is after it has been acknowledged.
LEMMA AcknowledgedEnd ==
    ASSUME NEW c \in ClientRec, ClientOK(c), Announces(c)
    PROVE  LET d == Acknowledged(c)
           IN /\ SameBirth(c, d) /\ SameReceiver(c, d) /\ d.given = c.given /\ d.out = c.out
              /\ c.life = "live" /\ d.taken = c.taken /\ ~Done(c)
              /\ c.rkarma = End => Done(d) /\ d.granted = c.granted
              /\ c.rkarma # End => ~Done(d) /\ d.granted = c.granted + c.rkarma
              /\ d.id = c.id /\ d.life # "unborn"
<1> DEFINE d == Acknowledged(c)
<1>1. /\ d.id = c.id /\ d.s = c.s /\ d.is_rdead = c.is_rdead /\ d.wkarma = c.wkarma
      /\ d.taken = c.taken /\ d.mate = c.mate /\ d.rkarma = 0 /\ d.out = c.out /\ d.given = c.given
      /\ d.life = (IF c.is_rdead THEN "burned" ELSE c.life)
      /\ d.granted = IF c.rkarma = End THEN c.granted ELSE c.granted + c.rkarma
  BY AcknowledgedFields
<1>2. c.rkarma # 0 /\ c.life = "live"
  BY OKAcknowledged, Numbers DEF Announces, End
<1> HIDE DEF d
<1>3. SameBirth(c, d)
  BY <1>1, <1>2 DEF SameBirth
<1>4. SameReceiver(c, d)
  <2>1. c.is_rdead \in BOOLEAN
    BY RecFacts
  <2> QED BY <1>1, <1>2, <2>1 DEF SameReceiver, Received, Credit, Heard, Gone
<1>5. ~Done(c)
  BY <1>2 DEF Done
<1>6. c.rkarma = End => Done(d)
  BY <1>1, <1>2 DEF Done, Open, ClientOK
<1>7. c.rkarma # End => ~Done(d)
  BY <1>1, <1>2 DEF Done, Open, ClientOK
<1> SUFFICES /\ SameBirth(c, d) /\ SameReceiver(c, d) /\ d.given = c.given /\ d.out = c.out
             /\ c.life = "live" /\ d.taken = c.taken /\ ~Done(c)
             /\ c.rkarma = End => Done(d) /\ d.granted = c.granted
             /\ c.rkarma # End => ~Done(d) /\ d.granted = c.granted + c.rkarma
             /\ d.id = c.id /\ d.life # "unborn"
  BY DEF d
<1> QED BY <1>1, <1>2, <1>3, <1>4, <1>5, <1>6, <1>7

LEMMA CrossGrabControl ==
    ASSUME Types, Types', \A s \in Side : Local(s), Cross, NEW s \in Side, NEW k, NEW now, NEW pk,
           ControlGrabbed(s, k, now, pk)
    PROVE  Cross'
<1> DEFINE q == karma_q[s]
           entry(o) == [id |-> client[s][o].id, karma |-> client[s][o].rkarma, from |-> o,
                        granted |-> Acknowledged(client[s][o]).granted]
           n == Len(link[Peer(s)]) + 1
<1>1. /\ q \in Seq(Obj) /\ k \in 0 .. Len(q) /\ now = {q[i] : i \in 1 .. k} /\ now \subseteq Obj
      /\ \A o \in now : Announces(client[s][o])
      /\ \A o \in Obj : client'[s][o] = IF o \in now THEN Acknowledged(client[s][o]) ELSE client[s][o]
      /\ client'[Peer(s)] = client[Peer(s)]
      /\ pk \in AnyPacket /\ pk.id = ControlId /\ pk.data = <<>> /\ Len(pk.acks) = k
      /\ \A i \in 1 .. k : pk.acks[i] = entry(q[i])
  BY Sides DEF ControlGrabbed
<1>2. Put(Stream(s)', Stream(s), n, pk) /\ n \in Nat \ {0} /\ Stream(Peer(s))' = Stream(Peer(s))
  <2>1. wout[s] = NoPacket /\ wout' = [wout EXCEPT ![s] = pk] /\ UNCHANGED <<link, rin>>
    BY DEF ControlGrabbed
  <2> QED BY <1>1, <2>1, StreamsPut
<1>3. \A i, j \in 1 .. Len(q) : q[i] = q[j] => i = j
  BY DEF Local, Announcers
<1>4. DOMAIN pk.acks = 1 .. k /\ k \in Nat /\ \A i \in 1 .. k : i \in 1 .. Len(q) /\ q[i] \in now
  <2>1. pk.acks \in Seq(Entry)
    BY <1>1 DEF AnyPacket
  <2>2. DOMAIN pk.acks = 1 .. Len(pk.acks)
    BY <2>1, LenProperties
  <2>3. Len(q) \in Nat
    BY <1>1
  <2> HIDE DEF q
  <2> QED BY <1>1, <2>2, <2>3
<1>5. \A o \in Obj : client[s][o] \in ClientRec /\ ClientOK(client[s][o])
  BY TypeFacts DEF Local, Clients
<1>16. \A i \in 1 .. k : /\ pk.acks[i].from = q[i] /\ q[i] \in now
                       /\ pk.acks[i].id = client[s][q[i]].id
  <2>1. \A o : entry(o).from = o /\ entry(o).id = client[s][o].id
    OBVIOUS
  <2> HIDE DEF entry, q
  <2> QED BY <1>1, <1>4, <2>1
<1> HIDE DEF n
<1>6. ASSUME NEW o \in now PROVE AcksOf(pk, o) = {entry(o)} /\ entry(o) \in Entry
  <2>1. PICK i \in 1 .. k : q[i] = o
    BY <1>1
  <2>2. pk.acks[i] = entry(o) /\ entry(o).from = o
    BY <1>1, <2>1
  <2> HIDE DEF entry
  <2>3. \A j \in 1 .. k : pk.acks[j].from = o => pk.acks[j] = entry(o)
    <3>1. \A j \in 1 .. k : pk.acks[j] = entry(q[j]) /\ entry(q[j]).from = q[j]
      BY <1>1 DEF entry
    <3> QED BY <3>1
  <2>4. entry(o) \in Entry
    <3>1. pk.acks \in Seq(Entry) /\ i \in 1 .. Len(pk.acks)
      BY <1>1 DEF AnyPacket
    <3>2. pk.acks[i] \in Entry
      BY <3>1
    <3> QED BY <2>2, <3>2
  <2> QED BY <1>4, <2>1, <2>2, <2>3, <2>4 DEF AcksOf
<1>7. \A x : x \notin now => ~Holds(pk, x)
  <2>1. ASSUME NEW x, x \notin now PROVE AcksOf(pk, x) = {}
    <3> HIDE DEF entry, q
    <3> QED BY <1>4, <1>16, <2>1 DEF AcksOf
  <2> QED BY <1>1, <2>1 DEF Holds, HasData
<1>8. \A x : ~HasData(pk, x)
  BY <1>1 DEF HasData
<1>9. \A o \in now : o \in Obj /\ client'[s][o] = Acknowledged(client[s][o])
  BY <1>1
<1>10. \A o \in Obj : o \notin now => client'[s][o] = client[s][o]
  BY <1>1
<1>11. ASSUME NEW o \in now, NEW r \in ClientRec, Half(Stream(s), o, client[s][o], r)
       PROVE  Half(Stream(s)', o, client'[s][o], r)
  <2> DEFINE c == client[s][o]
             d == client'[s][o]
             e == entry(o)
  <2>0. c \in ClientRec /\ ClientOK(c) /\ Announces(c) /\ d = Acknowledged(c)
    BY <1>1, <1>5, <1>9
  <2>1. /\ e.karma = c.rkarma /\ e.granted = d.granted /\ AcksOf(pk, o) = {e} /\ e \in Entry
    BY <1>6, <2>0
  <2> HIDE DEF c, d, e
  <2>2. /\ c.life = "live" /\ d.taken = c.taken /\ ~Done(c)
        /\ c.rkarma = End => Done(d) /\ d.granted = c.granted
        /\ c.rkarma # End => ~Done(d) /\ d.granted = c.granted + c.rkarma
    BY <2>0, AcknowledgedEnd
  <2>3. /\ c.taken \in Nat /\ c.granted \in Nat /\ Received(r) \in Nat /\ Credit(r) \in Nat
        /\ \A i \in Nat : Stream(s)[i] \in AnyPacket
    BY <2>0, CountFacts, StreamType
  <2>4. Half(Stream(s), o, c, r)
    BY <1>11 DEF c
  <2>5. Units(Stream(s)', o, d.taken, Received(r))
    BY <1>2, <1>8, <2>2, <2>3, <2>4, PutNoData DEF Half
  <2>6. Grants(Stream(s)', o, d.granted, Credit(r)) /\ Ends(Stream(s)', o, d, r)
    <3>1. CASE c.rkarma = End
      <4>1. Grants(Stream(s)', o, d.granted, Credit(r))
        BY <1>2, <2>1, <2>2, <2>4, <3>1, PutNoGrant DEF Half
      <4>2. EndIn(pk, o)
        BY <2>1, <3>1 DEF EndIn
      <4> QED BY <1>2, <2>2, <2>4, <3>1, <4>1, <4>2, PutEnd DEF Half
    <3>2. CASE c.rkarma # End
      <4>1. Grants(Stream(s)', o, e.granted, Credit(r))
        <5>1. Grants(Stream(s), o, c.granted, Credit(r)) /\ e.granted = c.granted + e.karma
          BY <2>1, <2>2, <2>4, <3>2 DEF Half
        <5>2. e.karma # End
          BY <2>1, <3>2
        <5> QED BY ZenonT(40), <1>1, <1>2, <2>1, <2>3, <5>1, <5>2, PutGrant
      <4>2. ~EndIn(pk, o)
        BY <2>1, <3>2 DEF EndIn
      <4>3. Ends(Stream(s)', o, d, r)
        BY <1>2, <2>2, <2>4, <3>2, <4>2, PutNoEnd DEF Half
      <4> QED BY <2>1, <4>1, <4>3
    <3> QED BY <3>1, <3>2
  <2>7. Half(Stream(s)', o, d, r)
    BY <2>5, <2>6 DEF Half
  <2> QED BY <2>7 DEF d
<1>12. PacketOK(client'[s], pk)
  <2>1. ASSUME NEW j \in 1 .. Len(pk.acks)
        PROVE  /\ client'[s][pk.acks[j].from].life # "unborn"
               /\ pk.acks[j].id = client'[s][pk.acks[j].from].id
               /\ pk.acks[j].from = q[j]
    <3>1. pk.acks[j].from = q[j] /\ pk.acks[j].id = client[s][q[j]].id /\ q[j] \in now
      BY <1>1, <1>16
    <3>2. /\ client[s][q[j]] \in ClientRec /\ ClientOK(client[s][q[j]])
          /\ Announces(client[s][q[j]]) /\ client'[s][q[j]] = Acknowledged(client[s][q[j]])
      BY <1>1, <1>5, <1>9, <3>1
    <3> DEFINE c == client[s][q[j]]
               d == client'[s][q[j]]
    <3>3. c \in ClientRec /\ ClientOK(c) /\ Announces(c) /\ d = Acknowledged(c)
      BY <3>2
    <3>4. pk.acks[j].from = q[j] /\ pk.acks[j].id = c.id
      BY <3>1
    <3> SUFFICES d.life # "unborn" /\ c.id = d.id
      BY <3>4
    <3> HIDE DEF c, d, entry, q
    <3> QED BY <3>3, AcknowledgedEnd
  <2>2. \A j, i \in 1 .. Len(pk.acks) : pk.acks[j].from = pk.acks[i].from => j = i
    <3>1. \A j \in 1 .. Len(pk.acks) : pk.acks[j].from = q[j] /\ j \in 1 .. Len(q)
      BY <1>1, <1>4, <2>1
    <3> HIDE DEF q
    <3> QED BY <1>3, <3>1
  <2> QED BY <1>1, <2>1, <2>2 DEF PacketOK, ControlPacket
<1>13. ~Holds(pk, None)
  BY <1>1, <1>7, Named
<1>14. \A x \in Obj :
          /\ SameBirth(client[s][x], client'[s][x]) /\ SameReceiver(client[s][x], client'[s][x])
          /\ client'[s][x].given = client[s][x].given /\ client'[s][x].out = client[s][x].out
          /\ client'[s][x].life = "live" => client[s][x].life = "live"
          /\ Holds(pk, x) => client[s][x].life = "live"
          /\ ~Holds(pk, x) => SameSender(client[s][x], client'[s][x])
  <2> SUFFICES ASSUME NEW x \in Obj
               PROVE  /\ SameBirth(client[s][x], client'[s][x])
                      /\ SameReceiver(client[s][x], client'[s][x])
                      /\ client'[s][x].given = client[s][x].given /\ client'[s][x].out = client[s][x].out
                      /\ client'[s][x].life = "live" => client[s][x].life = "live"
                      /\ Holds(pk, x) => client[s][x].life = "live"
                      /\ ~Holds(pk, x) => SameSender(client[s][x], client'[s][x])
    OBVIOUS
  <2>1. CASE x \in now
    <3>1. /\ client[s][x] \in ClientRec /\ ClientOK(client[s][x])
          /\ Announces(client[s][x]) /\ client'[s][x] = Acknowledged(client[s][x])
      BY <1>1, <1>5, <1>9, <2>1
    <3>2. Holds(pk, x)
      BY <1>6, <2>1 DEF Holds
    <3> QED BY <3>1, <3>2, AcknowledgedEnd
  <2>2. CASE x \notin now
    <3>1. client'[s][x] = client[s][x] /\ ~Holds(pk, x)
      BY <1>7, <1>10, <2>2
    <3> QED BY <3>1, SameAsIs
  <2> QED BY <2>1, <2>2
<1>15. \A x \in Obj, r \in ClientRec :
          Holds(pk, x) /\ Half(Stream(s), x, client[s][x], r) => Half(Stream(s)', x, client'[s][x], r)
  BY <1>7, <1>11
<1> QED BY <1>1, <1>2, <1>12, <1>13, <1>14, <1>15, CrossPut
\* A packet is processed by the mate of the client that sent it.
LEMMA Addressee ==
    ASSUME Types, \A t \in Side : Local(t), Cross, NEW s \in Side, NEW x \in Obj,
           Holds(Stream(Peer(s))[0], x), client[Peer(s)][x].life # "unborn"
    PROVE  LET id == client[Peer(s)][x].id
           IN \/ \E o \in Obj : table[s][id] = o /\ Mates(s, o, x)
              \/ /\ s = "demux" /\ table[s][id] = None
                 /\ \A d \in Obj : client["demux"][d].mate # x
<1> DEFINE id == client[Peer(s)][x].id
<1>1. /\ \A t \in Side, y \in Obj : client[t][y] \in ClientRec /\ ClientOK(client[t][y])
      /\ \A t \in Side : Tables(t)
      /\ Connections /\ Mating /\ Succession
  BY TypeFacts DEF Local, Clients, Cross
<1>2. "mux" \in Side /\ "demux" \in Side /\ None \notin Obj
  BY Named DEF Side
<1>3. \A t \in Side, y \in Obj : client[t][y].life # "unborn" /\ ~Heard(client[t][y]) => client[t][y].life = "live"
  BY <1>1, RecFacts DEF Heard, Gone
<1>4. CASE s = "mux"
  <2> DEFINE m == client["demux"][x].mate
  <2>1. Peer(s) = "demux"
    BY <1>4 DEF Peer
  <2>2. m \in Obj /\ client["mux"][m].life # "unborn" /\ client["mux"][m].id = id
    <3>1. m \in {None} \cup Obj
      BY <1>1, <1>2, RecFacts
    <3> QED BY <1>1, <2>1, <3>1 DEF Mating
  <2>3. Pair(m, x)
    BY <1>2, <2>2 DEF Pair
  <2>4. Half(Stream("demux"), x, client["demux"][x], client["mux"][m])
    BY <1>1, <1>2, <2>2, <2>3 DEF Connections, Rec
  <2>5. ~Heard(client["mux"][m])
    BY <2>1, <2>4 DEF Half, Ends
  <2>6. table["mux"][id] = m
    BY <1>1, <1>2, <1>3, <2>2, <2>5 DEF Tables
  <2> QED BY <1>4, <2>2, <2>6 DEF Mates
<1>5. CASE s = "demux"
  <2>1. Peer(s) = "mux"
    BY <1>5 DEF Peer
  <2>2. CASE \E d \in Obj : client["demux"][d].mate = x
    <3>1. PICK d \in Obj : client["demux"][d].mate = x
      BY <2>2
    <3>2. client["demux"][d].life # "unborn" /\ client["demux"][d].id = id /\ Pair(x, d)
      BY <1>1, <1>2, <2>1, <3>1 DEF Mating, Pair
    <3>3. Half(Stream("mux"), x, client["mux"][x], client["demux"][d])
      BY <1>1, <1>2, <3>2 DEF Connections, Rec
    <3>4. ~Heard(client["demux"][d])
      BY <2>1, <3>3 DEF Half, Ends
    <3>5. table["demux"][id] = d
      BY <1>1, <1>2, <1>3, <3>2, <3>4 DEF Tables
    <3> QED BY <1>5, <3>1, <3>5 DEF Mates
  <2>3. CASE \A d \in Obj : client["demux"][d].mate # x
    <3>1. Pair(x, None)
      BY <2>1, <2>3 DEF Pair
    <3>2. Half(Stream("demux"), None, Unborn, client["mux"][x])
      BY <1>1, <1>2, <3>1 DEF Connections, Rec
    <3>3. ~Heard(client["mux"][x])
      BY <3>2, UnbornFields DEF Half, Ends, Done
    <3>4. client["mux"][x].life = "live" /\ table["mux"][id] = x
      BY <1>1, <1>2, <1>3, <2>1, <3>3 DEF Tables
    <3>5. ASSUME NEW t \in Obj, table["demux"][id] = t PROVE FALSE
      <4> DEFINE m == client["demux"][t].mate
      <4>0. id \in 1 .. MaxId
        BY <1>1, <1>2, <2>1, <3>4 DEF ClientOK
      <4>1. client["demux"][t].life = "live" /\ client["demux"][t].id = id
        <5> HIDE DEF id
        <5> QED BY <1>1, <1>2, <3>5, <4>0 DEF Tables
      <4>2. m \in Obj /\ m # x /\ client["mux"][m].life # "unborn" /\ client["mux"][m].id = id
        <5>1. m \in {None} \cup Obj /\ m # x
          BY <1>1, <1>2, <2>3, RecFacts
        <5> QED BY <1>1, <4>1, <5>1 DEF Mating
      <4>3. Pair(m, t)
        BY <1>2, <4>2 DEF Pair
      <4> HIDE DEF m, id
      <4>4. Gone(client["mux"][m])
        <5>1. client["mux"][m].life # "live"
          BY <1>1, <1>2, <3>4, <4>2 DEF Tables
        <5> QED BY <1>1, <1>2, <4>2, <5>1, RecFacts DEF Gone
      <4>5. /\ Half(Stream("mux"), m, client["mux"][m], client["demux"][t])
            /\ Half(Stream("demux"), t, client["demux"][t], client["mux"][m])
        BY <1>1, <1>2, <4>2, <4>3 DEF Connections, Rec
      <4>6. Done(client["demux"][t])
        BY <4>4, <4>5 DEF Half, Ends, Heard
      <4>7. Done(client["mux"][m])
        BY <1>1, <1>2, <4>2, <4>4 DEF Done, Gone, ClientOK
      <4>8. ~Heard(client["demux"][t])
        <5>1. ~Gone(client["demux"][t]) /\ client["demux"][t].is_rdead \in BOOLEAN
          BY <1>1, <1>2, <4>1, RecFacts DEF Gone
        <5>2. ~client["demux"][t].is_rdead
          BY <1>1, <1>2, <4>1, <4>6, Numbers DEF Done, ClientOK, End
        <5> QED BY <5>1, <5>2 DEF Heard
      <4>9. PICK i \in Nat : EndIn(Stream("mux")[i], m)
        BY <4>5, <4>7, <4>8 DEF Half, Ends
      <4>10. Holds(Stream("mux")[i], m)
        BY <4>9 DEF EndIn, Holds
      <4>11. i < 0
        <5>1. Holds(Stream("mux")[0], x) /\ client["mux"][x].id = id
          BY <2>1 DEF id
        <5> QED BY <1>1, <3>4, <4>2, <4>4, <4>10, <5>1 DEF Succession
      <4> QED BY <4>11
    <3>6. id \in 1 .. MaxId
      BY <1>1, <1>2, <2>1, <3>4 DEF ClientOK
    <3>7. table["demux"][id] = None
      <4> HIDE DEF id
      <4> QED BY <1>2, <3>5, <3>6, TypeFacts
    <3> QED BY <1>5, <2>3, <3>7
  <2> QED BY <2>2, <2>3
<1> QED BY <1>4, <1>5 DEF Side

\* Where there is nothing of o or p one end is as good as another.
LEMMA HalfOfNothing ==
    ASSUME NEW f, NEW o, NEW p, NEW c \in ClientRec, NEW r \in ClientRec, NEW d \in ClientRec,
           \A i \in Nat : ~Holds(f[i], o) /\ ~Holds(f[i], p), SameSender(c, d), Half(f, o, c, r)
    PROVE  Half(f, p, d, r)
<1>1. \A i \in Nat : /\ ~HasData(f[i], o) /\ ~HasData(f[i], p)
                     /\ AcksOf(f[i], o) = {} /\ AcksOf(f[i], p) = {}
                     /\ ~EndIn(f[i], o) /\ ~EndIn(f[i], p)
  BY DEF Holds, EndIn
<1>2. d.taken = c.taken /\ d.granted = c.granted /\ (Done(d) <=> Done(c))
  BY DEF SameSender
<1>3. Units(f, p, d.taken, Received(r))
  <2>1. Units(f, o, c.taken, Received(r))
    BY DEF Half
  <2> QED BY <1>1, <1>2, <2>1 DEF Units
<1>4. Grants(f, p, d.granted, Credit(r))
  <2>1. Credit(r) <= d.granted
    BY <1>2 DEF Half, Grants
  <2>2. \A n \in Credit(r) + 1 .. d.granted : FALSE
    BY <1>1, <1>2 DEF Half, Grants
  <2> QED BY <1>1, <2>1, <2>2 DEF Grants
<1>5. Ends(f, p, d, r)
  <2>1. Ends(f, o, c, r)
    BY DEF Half
  <2> QED BY <1>1, <1>2, <2>1 DEF Ends
<1> QED BY <1>3, <1>4, <1>5 DEF Half

\* Nobody sends a packet of a client that does not exist.
LEMMA NothingOfUnborn ==
    ASSUME Types, \A t \in Side : Local(t), Cross, NEW s \in Side, NEW o \in {None} \cup Obj,
           o = None \/ client[s][o].life = "unborn"
    PROVE  \A i \in Nat : ~Holds(Stream(s)[i], o)
<1> SUFFICES ASSUME NEW i \in Nat PROVE ~Holds(Stream(s)[i], o)
  OBVIOUS
<1> DEFINE pk == Stream(s)[i]
<1>1. pk \in AnyPacket /\ PacketOK(client[s], pk)
  BY StreamType DEF Cross, Packets
<1> SUFFICES ~Holds(pk, o)
  OBVIOUS
<1> HIDE DEF pk
<1>2. CASE pk = NoPacket
  BY <1>2, NothingInNoPacket
<1>3. CASE DataPacket(client[s], pk)
  <2>1. pk.data[1][1] \in Obj
    BY <1>1, <1>3, DataFrom DEF Local
  <2>2. pk.data[1][1] # o
    BY <1>3, <2>1, Named DEF DataPacket
  <2>3. AcksOf(pk, o) = {}
    BY <1>3 DEF DataPacket, AcksOf
  <2> QED BY <2>2, <2>3 DEF Holds, HasData
<1>4. CASE ControlPacket(client[s], pk)
  <2>1. pk.acks \in Seq(Entry)
    BY <1>1 DEF AnyPacket
  <2>2. \A j \in 1 .. Len(pk.acks) : pk.acks[j] \in Entry
    BY <2>1
  <2>3. \A j \in 1 .. Len(pk.acks) : pk.acks[j].from \in Obj /\ pk.acks[j].from # o
    BY <1>4, <2>2, Named DEF ControlPacket, Entry
  <2>4. AcksOf(pk, o) = {}
    BY <2>1, <2>3 DEF AcksOf
  <2> QED BY <1>4, <2>4 DEF Holds, HasData, ControlPacket
<1> QED BY <1>1, <1>2, <1>3, <1>4 DEF PacketOK

\* get_client has found or made client c, number o, for a packet of the other
\* side's client x.
Met(s, id, x, o, c) ==
    /\ o \in Obj /\ x \in Obj /\ c \in ClientRec /\ ClientOK(c) /\ c.life = "live" /\ c.id = id
    /\ client[Peer(s)][x].life # "unborn" /\ client[Peer(s)][x].id = id
    /\ Half(Stream(Peer(s)), x, client[Peer(s)][x], c)
    /\ Half(Stream(s), o, c, client[Peer(s)][x])
    /\ \/ c = client[s][o] /\ Mates(s, o, x)
       \/ /\ s = "demux" /\ client[s][o] = Unborn /\ Newborn(c, id, x)
          /\ \A d \in Obj : client["demux"][d].mate # x

LEMMA MetAlive ==
    ASSUME NEW s, NEW id, NEW x, NEW o, NEW c, Met(s, id, x, o, c)
    PROVE  c \in ClientRec /\ ClientOK(c) /\ c.life = "live"
BY Zenon DEF Met

LEMMA Meeting ==
    ASSUME Types, \A t \in Side : Local(t), Cross, NEW s \in Side, NEW x \in Obj,
           Holds(Stream(Peer(s))[0], x), client[Peer(s)][x].life # "unborn",
           NEW o, NEW c, Got(s, client[Peer(s)][x].id, x, o, c)
    PROVE  Met(s, client[Peer(s)][x].id, x, o, c)
<1> DEFINE id == client[Peer(s)][x].id
           y == client[Peer(s)][x]
<1>1. /\ c \in ClientRec /\ ClientOK(c) /\ c.life = "live" /\ c.id = id /\ o \in Obj /\ id \in 1 .. MaxId
      /\ \/ table[s][id] = o /\ c = client[s][o]
         \/ /\ s = "demux" /\ table[s][id] = None /\ client[s][o].life = "unborn"
            /\ client[s][o] = Unborn /\ Newborn(c, id, x)
  BY GotOK
<1>2. \/ \E z \in Obj : table[s][id] = z /\ Mates(s, z, x)
      \/ /\ s = "demux" /\ table[s][id] = None
         /\ \A d \in Obj : client["demux"][d].mate # x
  BY Addressee
<1>3. "mux" \in Side /\ "demux" \in Side /\ None \notin Obj /\ y \in ClientRec
  BY Named, Sides, TypeFacts DEF Side
<1>4. CASE table[s][id] = o /\ c = client[s][o] /\ Mates(s, o, x)
  <2>1. Joint(s, o, x)
    <3>1. CASE s = "mux"
      <4>1. client["mux"][o].life # "unborn"
        BY <1>1, <1>4, <3>1
      <4> QED BY <1>1, <1>3, <1>4, <3>1, <4>1 DEF Joint, Pair, Mates
    <3>2. CASE s = "demux"
      <4>1. client["mux"][x].life # "unborn"
        BY <3>2 DEF Peer
      <4> QED BY <1>1, <1>3, <1>4, <3>2, <4>1 DEF Joint, Pair, Mates
    <3> QED BY <3>1, <3>2 DEF Side
  <2>2. Halves(s, o, x)
    BY <2>1, FromEither DEF Cross
  <2>3. Rec(s, o) = c /\ Rec(Peer(s), x) = y
    BY <1>1, <1>3, <1>4 DEF Rec
  <2>4. Half(Stream(Peer(s)), x, y, c) /\ Half(Stream(s), o, c, y)
    BY <2>2, <2>3 DEF Halves
  <2> QED BY <1>1, <1>4, <2>4 DEF Met
<1>5. CASE /\ s = "demux" /\ client[s][o] = Unborn /\ Newborn(c, id, x) /\ client[s][o].life = "unborn"
           /\ \A d \in Obj : client["demux"][d].mate # x
  <2>1. Joint(s, None, x)
    BY <1>5 DEF Joint, Pair, Peer
  <2>2. Half(Stream(Peer(s)), x, y, Unborn) /\ Half(Stream(s), None, Unborn, y)
    <3>1. Halves(s, None, x)
      BY <2>1, FromEither DEF Cross
    <3>2. Rec(s, None) = Unborn /\ Rec(Peer(s), x) = y
      BY <1>3 DEF Rec
    <3> QED BY <3>1, <3>2 DEF Halves
  <2>3. SameSender(Unborn, c) /\ SameReceiver(Unborn, c)
    <3>1. /\ c.life = "live" /\ c.s # "closed" /\ c.is_rdead = FALSE /\ c.wkarma = 0
          /\ c.out = <<>> /\ c.taken = 0 /\ c.given = <<>> /\ c.granted = ClientKarma
      BY <1>5 DEF Newborn
    <3>2. SameSender(Unborn, c)
      BY <3>1, UnbornFields DEF SameSender, Done, Open
    <3>3. SameReceiver(Unborn, c)
      BY <3>1, UnbornFields DEF SameReceiver, Received, Credit, Heard, Gone
    <3> QED BY <3>2, <3>3
  <2>4. Half(Stream(Peer(s)), x, y, c)
    BY <1>1, <1>3, <2>2, <2>3, UnbornRec, SameAsIs, FollowsItself, HalfFollows
  <2>5. \A i \in Nat : ~Holds(Stream(s)[i], None) /\ ~Holds(Stream(s)[i], o)
    BY <1>1, <1>5, NothingOfUnborn
  <2>6. Half(Stream(s), o, c, y)
    BY <1>1, <1>3, <2>2, <2>3, <2>5, UnbornRec, HalfOfNothing
  <2> QED BY <1>1, <1>5, <2>4, <2>6 DEF Met
<1>6. table[s][id] = o \/ table[s][id] = None
  BY <1>1
<1> QED
  <2>1. CASE table[s][id] = o
    BY <1>1, <1>2, <1>3, <1>4, <2>1
  <2>2. CASE table[s][id] = None
    BY <1>1, <1>2, <1>3, <1>5, <2>2
  <2> QED BY <1>6, <2>1, <2>2

\* Client o of s is now r, and f is the stream to s without what was for it.
\* x is the client of the other side that it came from.
Taken(s, id, x, o, c, r, pk) ==
    /\ Met(s, id, x, o, c) /\ r \in ClientRec /\ client' = [client EXCEPT ![s][o] = r]
    /\ SameSender(c, r) /\ r.id = c.id /\ r.mate = c.mate /\ r.life # "unborn"
    /\ pk \in AnyPacket /\ PacketOK(client[Peer(s)], pk) /\ (pk.id = ControlId => pk.acks # <<>>)
    /\ Take(Stream(Peer(s))', Stream(Peer(s)), pk) /\ Stream(s)' = Stream(s)
    /\ \A y : y # x => SameItems(pk, Stream(Peer(s))[0], y)
    /\ Half(Stream(Peer(s))', x, client[Peer(s)][x], r)
    /\ r.given = c.given
    /\ \A i \in 1 .. Len(r.out) :
         \/ i \in 1 .. Len(c.out) /\ r.out[i] = c.out[i]
         \/ r.out[i] = <<x, Len(r.given) + i>>

LEMMA TakenFacts ==
    ASSUME Types, NEW s \in Side, NEW id, NEW x, NEW o, NEW c, NEW r, NEW pk,
           Taken(s, id, x, o, c, r, pk)
    PROVE  /\ client'[s][o] = r /\ \A z \in Obj : z # o => client'[s][z] = client[s][z]
           /\ client'[Peer(s)] = client[Peer(s)]
           /\ o \in Obj /\ x \in Obj /\ c \in ClientRec /\ r \in ClientRec
           /\ c.life = "live" /\ r.life # "unborn" /\ r.id = c.id /\ r.mate = c.mate
           /\ SameSender(c, r)
<1>1. o \in Obj /\ x \in Obj /\ c \in ClientRec /\ c.life = "live"
  BY DEF Taken, Met
<1>2. /\ r \in ClientRec /\ r.life # "unborn" /\ r.id = c.id /\ r.mate = c.mate
      /\ client' = [client EXCEPT ![s][o] = r]
  BY DEF Taken
<1>3. SameSender(c, r)
  BY DEF Taken
<1>4. Peer(s) \in Side /\ Peer(s) # s
  BY Zenon, Sides
<1>5. /\ client'[s][o] = r
      /\ \A z \in Obj : z # o => client'[s][z] = client[s][z]
      /\ \A t \in Side : t # s => client'[t] = client[t]
  <2>1. client \in [Side -> [Obj -> ClientRec]]
    BY Zenon DEF Types
  <2>2. o \in Obj /\ client' = [client EXCEPT ![s][o] = r]
    BY Zenon, <1>1, <1>2
  <2> QED BY ONLY s \in Side, <2>1, <2>2
<1>6. client'[Peer(s)] = client[Peer(s)]
  BY ONLY Zenon, <1>4, <1>5
<1> QED BY ONLY Zenon, <1>1, <1>2, <1>3, <1>5, <1>6

\* Of the two ends of a connection either both are concerned or none is.
LEMMA JointAfter ==
    ASSUME Types, Mating, NEW s \in Side, NEW id, NEW x, NEW o, NEW c, NEW r, NEW pk,
           Taken(s, id, x, o, c, r, pk),
           NEW a \in {None} \cup Obj, NEW b \in {None} \cup Obj, Joint(s, a, b)'
    PROVE  (a = o /\ b = x) \/ (a # o /\ b # x /\ Joint(s, a, b))
<1>1. /\ client'[s][o] = r /\ \A z \in Obj : z # o => client'[s][z] = client[s][z]
      /\ client'[Peer(s)] = client[Peer(s)]
      /\ o \in Obj /\ x \in Obj /\ c.life = "live" /\ r.mate = c.mate
  BY TakenFacts
<1>2. \/ c = client[s][o] /\ Mates(s, o, x)
      \/ /\ s = "demux" /\ client[s][o] = Unborn /\ Newborn(c, id, x)
         /\ \A d \in Obj : client["demux"][d].mate # x
  BY DEF Taken, Met
<1>3. None \notin Obj /\ \A d, e \in Obj :
         client["demux"][d].mate = client["demux"][e].mate /\ client["demux"][d].mate # None => d = e
  BY Named DEF Mating, OpenedOnce
<1>4. CASE s = "mux"
  <2>1. /\ client'["demux"] = client["demux"] /\ client["demux"][x].mate = o /\ c = client["mux"][o]
        /\ client["mux"][o].life = "live"
    BY <1>1, <1>2, <1>4 DEF Mates, Peer
  <2>2. a \in Obj /\ Pair(a, b)'
    BY <1>4 DEF Joint
  <2>3. a # o => client["mux"][a].life # "unborn"
    BY <1>1, <1>4, <2>2 DEF Pair
  <2>4. Pair(a, b)
    BY <2>1, <2>2, <2>3 DEF Pair
  <2>5. a = o <=> b = x
    BY <1>1, <1>3, <2>1, <2>2, <2>4 DEF Pair
  <2> QED BY <1>4, <2>2, <2>4, <2>5 DEF Joint
<1>5. CASE s = "demux"
  <2>1. client'["mux"] = client["mux"] /\ client'["demux"][o].mate = x
    <3>1. c.mate = x
      BY <1>2, <1>5 DEF Mates, Newborn
    <3> QED BY <1>1, <1>5, <3>1 DEF Peer
  <2>2. b \in Obj /\ Pair(b, a)'
    BY <1>5 DEF Joint
  <2>3. a = o => b = x
    BY <1>1, <1>3, <2>1, <2>2 DEF Pair
  <2>4. a # o => b # x /\ Pair(b, a)
    <3>1. \A z \in Obj : z # o => client["demux"][z].mate # x
      BY <1>1, <1>2, <1>3, <1>5 DEF Mates
    <3>2. client["demux"][o].mate = x \/ client["demux"][o].mate = None
      BY <1>2, <1>5, UnbornFields DEF Mates
    <3>3. CASE a = None
      BY <1>1, <1>3, <1>5, <2>1, <2>2, <3>2, <3>3 DEF Pair
    <3>4. CASE a \in Obj
      BY <1>1, <1>3, <1>5, <2>1, <2>2, <3>1, <3>4 DEF Pair
    <3> QED BY <3>3, <3>4
  <2> QED BY <1>5, <2>2, <2>3, <2>4 DEF Joint
<1> QED BY <1>4, <1>5 DEF Side

LEMMA ConnectionsTaken ==
    ASSUME Types, Types', Connections, Mating, NEW s \in Side,
           NEW id, NEW x, NEW o, NEW c, NEW r, NEW pk, Taken(s, id, x, o, c, r, pk)
    PROVE  Connections'
<1>0. /\ client'[s][o] = r /\ \A z \in Obj : z # o => client'[s][z] = client[s][z]
      /\ client'[Peer(s)] = client[Peer(s)] /\ Peer(s) \in Side
      /\ o \in Obj /\ x \in Obj /\ c \in ClientRec /\ r \in ClientRec /\ SameSender(c, r)
  BY TakenFacts, Sides
<1> SUFFICES ASSUME NEW a \in {None} \cup Obj, NEW b \in {None} \cup Obj, Joint(s, a, b)'
             PROVE  Halves(s, a, b)'
  BY ToBoth
<1>1. CASE a = o /\ b = x
  <2>1. client[Peer(s)][x] \in ClientRec /\ None \notin Obj
    BY <1>0, TypeFacts, Named
  <2>2. Half(Stream(Peer(s))', x, client[Peer(s)][x], r) /\ Stream(s)' = Stream(s)
    BY DEF Taken
  <2>3. Half(Stream(s), o, c, client[Peer(s)][x])
    BY DEF Taken, Met
  <2>4. Half(Stream(s), o, r, client[Peer(s)][x])
    BY <1>0, <2>1, <2>3, SameAsIs, FollowsItself, HalfFollows
  <2>5. Rec(s, a)' = r /\ Rec(Peer(s), b)' = client[Peer(s)][x]
    BY <1>0, <1>1, <2>1 DEF Rec
  <2> QED BY <1>1, <2>2, <2>4, <2>5 DEF Halves
<1>2. CASE a # o /\ b # x /\ Joint(s, a, b)
  <2>1. Halves(s, a, b)
    BY <1>2, FromEither
  <2>2. Rec(s, a)' = Rec(s, a) /\ Rec(Peer(s), b)' = Rec(Peer(s), b)
    BY <1>0, <1>2, RecSame
  <2>3. Rec(s, a) \in ClientRec /\ Rec(Peer(s), b) \in ClientRec
    BY <1>0, RecType
  <2>4. Follows(Stream(Peer(s))', Stream(Peer(s)), b)
    BY <1>2, TakeOther DEF Taken
  <2>5. Follows(Stream(s)', Stream(s), a)
    BY FollowsItself DEF Taken
  <2>6. Half(Stream(s)', a, Rec(s, a), Rec(Peer(s), b))
    BY <2>1, <2>3, <2>5, SameAsIs, HalfFollows DEF Halves
  <2>7. Half(Stream(Peer(s))', b, Rec(Peer(s), b), Rec(s, a))
    BY <2>1, <2>3, <2>4, SameAsIs, HalfFollows DEF Halves
  <2> QED BY <2>2, <2>6, <2>7 DEF Halves
<1> QED BY <1>1, <1>2, JointAfter

LEMMA MatingTaken ==
    ASSUME Types, Types', Mating, NEW s \in Side,
           NEW id, NEW x, NEW o, NEW c, NEW r, NEW pk, Taken(s, id, x, o, c, r, pk)
    PROVE  Mating'
<1>0. /\ client'[s][o] = r /\ \A z \in Obj : z # o => client'[s][z] = client[s][z]
      /\ client'[Peer(s)] = client[Peer(s)]
      /\ o \in Obj /\ x \in Obj /\ c.life = "live" /\ r.life # "unborn" /\ r.id = c.id
      /\ r.mate = c.mate
  BY TakenFacts
<1>1. CASE c = client[s][o]
  <2>1. \A t \in Side, z \in Obj : SameBirth(client[t][z], client'[t][z])
    <3>1. SameBirth(c, r)
      BY <1>0 DEF SameBirth
    <3>2. \A z \in Obj : SameBirth(client[s][z], client'[s][z])
      BY <1>0, <1>1, <3>1, SameAsIs
    <3> QED BY <1>0, <3>2, SameAsIs, Sides
  <2> QED BY <2>1, MatingKept DEF Births
<1>2. CASE /\ s = "demux" /\ client[s][o] = Unborn /\ Newborn(c, id, x)
           /\ \A d \in Obj : client["demux"][d].mate # x
  <2>1. client'["mux"] = client["mux"] /\ r.mate = x /\ r.id = id /\ x # None
    BY <1>0, <1>2, Named DEF Peer, Newborn
  <2>2. client["mux"][x].life # "unborn" /\ client["mux"][x].id = id
    BY <1>2 DEF Taken, Met, Peer
  <2>3. \A d \in Obj : client'["demux"][d] = IF d = o THEN r ELSE client["demux"][d]
    BY <1>0, <1>2
  <2>4. OpenedOnce'
    <3> SUFFICES ASSUME NEW d \in Obj, NEW e \in Obj,
                        client'["demux"][d].mate # None,
                        client'["demux"][d].mate = client'["demux"][e].mate
                 PROVE  d = e
      BY DEF OpenedOnce
    <3>1. d # o => client'["demux"][d].mate # x
      BY <1>2, <2>3
    <3>2. e # o => client'["demux"][e].mate # x
      BY <1>2, <2>3
    <3> QED BY <2>1, <2>3, <3>1, <3>2 DEF Mating, OpenedOnce
  <2>5. ASSUME NEW d \in Obj
        PROVE  /\ client'["demux"][d].life = "unborn" <=> client'["demux"][d].mate = None
               /\ client'["demux"][d].mate # None =>
                    /\ client'["mux"][client'["demux"][d].mate].life # "unborn"
                    /\ client'["mux"][client'["demux"][d].mate].id = client'["demux"][d].id
    <3>1. CASE d = o
      BY <1>0, <2>1, <2>2, <2>3, <3>1
    <3>2. CASE d # o
      BY <2>1, <2>3, <3>2 DEF Mating
    <3> QED BY <3>1, <3>2
  <2> QED BY <2>4, <2>5 DEF Mating
<1> QED BY <1>1, <1>2 DEF Taken, Met

LEMMA MatesTaken ==
    ASSUME Types, NEW s \in Side,
           NEW id, NEW x, NEW o, NEW c, NEW r, NEW pk, Taken(s, id, x, o, c, r, pk)
    PROVE  /\ \A t \in Side, y \in Obj, z \in Obj :
                Mates(t, y, z) /\ (t # s \/ y # o \/ c = client[s][o]) => Mates(t, y, z)'
           /\ Mates(s, o, x)'
<1>0. /\ client'[s][o] = r /\ \A z \in Obj : z # o => client'[s][z] = client[s][z]
      /\ client'[Peer(s)] = client[Peer(s)]
      /\ o \in Obj /\ x \in Obj /\ r.mate = c.mate
  BY TakenFacts
<1>1. \/ c = client[s][o] /\ Mates(s, o, x)
      \/ /\ s = "demux" /\ client[s][o] = Unborn /\ Newborn(c, id, x)
         /\ \A d \in Obj : client["demux"][d].mate # x
  BY DEF Taken, Met
<1>2. CASE s = "mux"
  BY <1>0, <1>1, <1>2 DEF Mates, Peer, Side
<1>3. CASE s = "demux" /\ c = client[s][o] /\ Mates(s, o, x)
  <2>1. \A z \in Obj : client'["demux"][z].mate = client["demux"][z].mate
    BY <1>0, <1>3
  <2> QED BY <1>0, <1>3, <2>1 DEF Mates, Side
<1>4. CASE s = "demux" /\ client[s][o] = Unborn /\ Newborn(c, id, x)
  <2>1. \A z \in Obj : z # o => client'["demux"][z].mate = client["demux"][z].mate
    BY <1>0, <1>4
  <2>2. client["demux"][o].mate = None /\ client'["demux"][o].mate = x /\ c # client[s][o]
    BY <1>0, <1>4, UnbornFields DEF Newborn
  <2> QED BY <1>0, <1>4, <2>1, <2>2, Named DEF Mates, Side
<1> QED BY <1>1, <1>2, <1>3, <1>4 DEF Side

LEMMA ContentsTaken ==
    ASSUME Types, Types', Contents, NEW s \in Side,
           NEW id, NEW x, NEW o, NEW c, NEW r, NEW pk, Taken(s, id, x, o, c, r, pk)
    PROVE  Contents'
<1>0. /\ client'[s][o] = r /\ \A z \in Obj : z # o => client'[s][z] = client[s][z]
      /\ client'[Peer(s)] = client[Peer(s)]
      /\ o \in Obj /\ x \in Obj /\ c \in ClientRec /\ r \in ClientRec
  BY TakenFacts
<1>1. /\ \A t \in Side, y \in Obj, z \in Obj :
           Mates(t, y, z) /\ (t # s \/ y # o \/ c = client[s][o]) => Mates(t, y, z)'
      /\ Mates(s, o, x)'
  BY MatesTaken
<1>2. ASSUME NEW u \in Seq(Obj \X Nat), NEW i \in 1 .. Len(u) PROVE u[i][1] \in Obj
  <2>1. u[i] \in Obj \X Nat
    OBVIOUS
  <2> QED BY <2>1
<1>3. \A t \in Side, y \in Obj : Genuine(t, y, client[t][y].given, client[t][y].out)
  BY ContentsGenuine
<1> SUFFICES ASSUME NEW t \in Side, NEW y \in Obj
             PROVE  /\ \A i \in 1 .. Len(client'[t][y].given) :
                         /\ client'[t][y].given[i][2] = i
                         /\ Mates(t, y, client[t][y].given[i][1])'
                    /\ \A i \in 1 .. Len(client'[t][y].out) :
                         /\ client'[t][y].out[i][2] = Len(client'[t][y].given) + i
                         /\ Mates(t, y, client[t][y].out[i][1])'
  BY DEF Contents
<1>4. CASE t # s \/ y # o
  <2> DEFINE d == client[t][y]
  <2>1. client'[t][y] = d
    BY <1>0, <1>4, Sides
  <2>2. d.given \in Seq(Obj \X Nat) /\ d.out \in Seq(Obj \X Nat)
    BY TypeFacts, RecFacts
  <2>3. Genuine(t, y, d.given, d.out)
    BY <1>3
  <2> HIDE DEF d
  <2>4. \A i \in 1 .. Len(d.given) : d.given[i][2] = i /\ Mates(t, y, client[t][y].given[i][1])'
    BY <1>1, <1>2, <1>4, <2>1, <2>2, <2>3 DEF Genuine
  <2>5. \A i \in 1 .. Len(d.out) :
           d.out[i][2] = Len(d.given) + i /\ Mates(t, y, client[t][y].out[i][1])'
    BY <1>1, <1>2, <1>4, <2>1, <2>2, <2>3 DEF Genuine
  <2> QED BY <2>1, <2>4, <2>5
<1>5. CASE t = s /\ y = o
  <2>1. client'[t][y] = r /\ r.given = c.given
    BY <1>0, <1>5 DEF Taken
  <2>2. c.given \in Seq(Obj \X Nat) /\ c.out \in Seq(Obj \X Nat)
    BY <1>0, RecFacts
  <2>4. /\ \A i \in 1 .. Len(c.given) : c.given[i][2] = i
        /\ \A i \in 1 .. Len(c.given) : \A z : z = c.given[i][1] => Mates(s, o, z)'
        /\ \A i \in 1 .. Len(c.out) : c.out[i][2] = Len(c.given) + i
        /\ \A i \in 1 .. Len(c.out) : \A z : z = c.out[i][1] => Mates(s, o, z)'
    <3>1. CASE c = client[s][o]
      <4>1. Genuine(s, o, c.given, c.out)
        BY Zenon, <1>0, <1>3, <3>1
      <4>2. ASSUME NEW z \in Obj, Mates(s, o, z) PROVE Mates(s, o, z)'
        BY Zenon, <1>0, <1>1, <3>1, <4>2
      <4>3. /\ \A i \in 1 .. Len(c.given) : c.given[i][1] \in Obj
            /\ \A i \in 1 .. Len(c.out) : c.out[i][1] \in Obj
        BY ONLY Zenon, <1>2, <2>2
      <4>4. /\ \A i \in 1 .. Len(c.given) : c.given[i][2] = i /\ Mates(s, o, c.given[i][1])
            /\ \A i \in 1 .. Len(c.out) : c.out[i][2] = Len(c.given) + i /\ Mates(s, o, c.out[i][1])
        BY ONLY Zenon, <4>1 DEF Genuine
      <4> QED BY Zenon, <4>2, <4>3, <4>4
    <3>2. CASE Newborn(c, id, x)
      BY <3>2 DEF Newborn
    <3> QED BY <3>1, <3>2 DEF Taken, Met
  <2>5. \A i \in 1 .. Len(r.given) : r.given[i][2] = i /\ Mates(t, y, client[t][y].given[i][1])'
    BY <1>5, <2>1, <2>4
  <2>6. \A i \in 1 .. Len(r.out) :
           r.out[i][2] = Len(r.given) + i /\ Mates(t, y, client[t][y].out[i][1])'
    BY <1>1, <1>5, <2>1, <2>4 DEF Taken
  <2> QED BY <2>1, <2>5, <2>6
<1> QED BY <1>4, <1>5

LEMMA PacketsTaken ==
    ASSUME Types, Types', \A t \in Side : Packets(t), NEW s \in Side,
           NEW id, NEW x, NEW o, NEW c, NEW r, NEW pk, Taken(s, id, x, o, c, r, pk)
    PROVE  \A t \in Side : Packets(t)'
<1>0. /\ client'[s][o] = r /\ \A z \in Obj : z # o => client'[s][z] = client[s][z]
      /\ client'[Peer(s)] = client[Peer(s)]
      /\ o \in Obj /\ r.id = c.id /\ r.life # "unborn"
  BY TakenFacts
<1>1. Packets(s)'
  <2>1. StillHas(s)
    <3>1. c = client[s][o] \/ client[s][o].life = "unborn"
      BY UnbornFields DEF Taken, Met
    <3> QED BY <1>0, <3>1 DEF StillHas
  <2>2. Stream(s)' = Stream(s)
    BY DEF Taken
  <2>3. \A i \in Nat : PacketOK(client'[s], Stream(s)[i])
    BY <2>1, PacketKept, StreamType DEF Packets
  <2> QED BY <2>2, <2>3 DEF Packets
<1>2. Packets(Peer(s))'
  <2>1. Take(Stream(Peer(s))', Stream(Peer(s)), pk) /\ PacketOK(client[Peer(s)], pk)
    BY DEF Taken
  <2>2. \A i \in Nat : PacketOK(client'[Peer(s)], Stream(Peer(s))'[i])
    BY <1>0, <2>1, Sides DEF Take, Packets
  <2>3. Stream(Peer(s))'[0].id = ControlId => Stream(Peer(s))'[0].acks # <<>>
    BY <2>1 DEF Take, Taken
  <2> QED BY <2>2, <2>3 DEF Packets
<1> QED BY <1>1, <1>2, Sides

LEMMA SuccessionTaken ==
    ASSUME Types, Types', \A t \in Side : Local(t), Succession, NEW s \in Side,
           NEW id, NEW x, NEW o, NEW c, NEW r, NEW pk, Taken(s, id, x, o, c, r, pk),
           ~Holds(pk, x)
    PROVE  Succession'
<1>0. /\ client'[s][o] = r /\ \A z \in Obj : z # o => client'[s][z] = client[s][z]
      /\ client'[Peer(s)] = client[Peer(s)]
      /\ o \in Obj /\ r.id = c.id /\ r.mate = c.mate /\ r.life # "unborn" /\ c.life = "live"
  BY TakenFacts
<1>1. \A z \in Obj : /\ SameBirth(client["mux"][z], client'["mux"][z])
                     /\ client'["mux"][z].life = "live" => client["mux"][z].life = "live"
  <2>1. CASE s = "mux"
    <3>1. c = client["mux"][o]
      BY <2>1 DEF Taken, Met
    <3>2. SameBirth(c, r)
      BY <1>0 DEF SameBirth
    <3> QED BY <1>0, <2>1, <3>1, <3>2, SameAsIs
  <2>2. CASE s = "demux"
    BY <1>0, <2>2, SameAsIs DEF Peer
  <2> QED BY <2>1, <2>2 DEF Side
<1>2. \A i \in Nat, z \in Obj : Holds(Stream("mux")'[i], z) => Holds(Stream("mux")[i + 0], z)
  <2> SUFFICES ASSUME NEW i \in Nat, NEW z \in Obj, Holds(Stream("mux")'[i], z)
               PROVE  Holds(Stream("mux")[i], z)
    OBVIOUS
  <2>1. CASE s = "mux"
    BY <2>1 DEF Taken
  <2>2. CASE s = "demux" /\ i # 0
    BY <2>2 DEF Taken, Take, Peer
  <2>3. CASE s = "demux" /\ i = 0
    <3>1. Holds(pk, z) /\ Peer(s) = "mux"
      BY <2>3 DEF Taken, Take, Peer
    <3>2. CASE z = x
      BY <3>1, <3>2
    <3>3. CASE z # x
      <4>1. SameItems(pk, Stream("mux")[0], z)
        BY <3>1, <3>3 DEF Taken
      <4> QED BY <2>3, <3>1, <4>1, SameHolds
    <3> QED BY <3>2, <3>3
  <2> QED BY <2>1, <2>2, <2>3 DEF Side
<1>3. Tables("mux") /\ Clients("mux")
  BY DEF Local, Side
<1> QED BY <1>1, <1>2, <1>3, SuccessionKept

LEMMA CrossTaken ==
    ASSUME Types, Types', \A t \in Side : Local(t), Cross, NEW s \in Side,
           NEW id, NEW x, NEW o, NEW c, NEW r, NEW pk, Taken(s, id, x, o, c, r, pk),
           ~Holds(pk, x)
    PROVE  Cross'
<1>1. ~HasData(pk, x) /\ AcksOf(pk, x) = {}
  BY DEF Holds
<1> QED BY <1>1, ConnectionsTaken, MatingTaken, ContentsTaken, PacketsTaken, SuccessionTaken DEF Cross

LEMMA StreamsTaken ==
    ASSUME Types, NEW s \in Side, NEW pk \in AnyPacket, rin' = [rin EXCEPT ![s] = pk],
           UNCHANGED <<wout, link>>
    PROVE  /\ Take(Stream(Peer(s))', Stream(Peer(s)), pk) /\ Stream(s)' = Stream(s)
           /\ Stream(Peer(s))[0] = rin[s]
<1>1. /\ rin'[s] = pk /\ rin'[Peer(s)] = rin[Peer(s)] /\ Peer(s) \in Side /\ Peer(Peer(s)) = s
  BY Sides DEF Types
<1>2. Stream(s)' = Stream(s)
  BY <1>1 DEF Stream
<1>3. Stream(Peer(s))[0] = rin[s]
  BY StreamFirst
<1>4. rin[s] \in AnyPacket /\ link[s] \in Seq(AnyPacket) /\ wout[Peer(s)] \in AnyPacket
  BY <1>1, TypeFacts
<1>5. Take(StreamOf(pk, link[s], wout[Peer(s)]), StreamOf(rin[s], link[s], wout[Peer(s)]), pk)
  BY <1>4, StreamTake
<1> QED BY <1>1, <1>2, <1>3, <1>5 DEF Stream

\* What is left of a control packet when its first entry has been read.
Left(p) == IF Len(p.acks) = 1 THEN NoPacket ELSE [p EXCEPT !.acks = Tail(p.acks)]

LEMMA FirstEntry ==
    ASSUME NEW cs, NEW p \in AnyPacket, ControlPacket(cs, p), p.acks # <<>>
    PROVE  LET e == Head(p.acks)
           IN /\ Left(p) \in AnyPacket /\ PacketOK(cs, Left(p))
              /\ Left(p).id = ControlId => Left(p).acks # <<>>
              /\ \A y : y # e.from => SameItems(Left(p), p, y)
              /\ ~Holds(Left(p), e.from) /\ AcksOf(p, e.from) = {e} /\ \A y : ~HasData(p, y)
              /\ e \in Entry /\ cs[e.from].life # "unborn" /\ e.id = cs[e.from].id
<1> DEFINE a == p.acks
           e == Head(a)
           b == Left(p).acks
<1>1. a \in Seq(Entry) /\ a # <<>> /\ p.data = <<>> /\ p.id = ControlId
  BY DEF AnyPacket, ControlPacket
<1>2. /\ e = a[1] /\ Tail(a) \in Seq(Entry) /\ Len(Tail(a)) = Len(a) - 1 /\ Len(a) \in Nat \ {0}
      /\ \A i \in 1 .. Len(a) - 1 : Tail(a)[i] = a[i + 1]
      /\ \A i \in 1 .. Len(a) : a[i] \in Entry
      /\ DOMAIN a = 1 .. Len(a) /\ DOMAIN Tail(a) = 1 .. Len(a) - 1
  <2> HIDE DEF a
  <2>1. e = a[1] /\ Tail(a) \in Seq(Entry) /\ Len(Tail(a)) = Len(a) - 1 /\ Len(a) \in Nat \ {0}
    BY <1>1
  <2>2. \A i \in 1 .. Len(a) - 1 : Tail(a)[i] = a[i + 1]
    BY <1>1
  <2>3. \A i \in 1 .. Len(a) : a[i] \in Entry
    BY <1>1
  <2> QED BY <1>1, <2>1, <2>2, <2>3, LenProperties
<1>3. /\ Left(p).data = <<>> /\ b = Tail(a) /\ Left(p) \in AnyPacket
      /\ Left(p) = NoPacket \/ Left(p).id = ControlId
      /\ Left(p).id = ControlId => Left(p).acks # <<>>
  <2>1. CASE Len(a) = 1
    <3>1. Left(p) = NoPacket
      BY <2>1 DEF Left
    <3>2. Tail(a) = <<>>
      <4> HIDE DEF a
      <4>1. Tail(a) \in Seq(Entry) /\ Len(Tail(a)) = 0
        BY <1>2, <2>1
      <4> QED BY <4>1, EmptySeq
    <3> QED BY <3>1, <3>2, NoPacketType DEF NoPacket, ControlId
  <2>2. CASE Len(a) # 1
    <3>1. Left(p) = [p EXCEPT !.acks = Tail(a)]
      BY <2>2 DEF Left
    <3>2. Left(p) \in AnyPacket /\ Left(p).data = <<>> /\ Left(p).acks = Tail(a) /\ Left(p).id = ControlId
      BY <1>1, <1>2, <3>1 DEF AnyPacket
    <3>3. Tail(a) # <<>>
      <4> HIDE DEF a
      <4>1. Len(Tail(a)) # 0
        BY <1>2, <2>2
      <4> QED BY <4>1, EmptySeq
    <3> QED BY <3>2, <3>3
  <2> QED BY <2>1, <2>2
<1>4. /\ \A j \in 1 .. Len(a) : cs[a[j].from].life # "unborn" /\ a[j].id = cs[a[j].from].id
      /\ \A j, k \in 1 .. Len(a) : a[j].from = a[k].from => j = k
  BY DEF ControlPacket
<1> HIDE DEF a, b
<1>5. \A y : ~HasData(p, y) /\ ~HasData(Left(p), y)
  BY <1>1, <1>3 DEF HasData
<1>6. /\ \A y : AcksOf(p, y) = {g \in {a[j] : j \in 1 .. Len(a)} : g.from = y}
      /\ \A y : AcksOf(Left(p), y) = {g \in {a[j + 1] : j \in 1 .. Len(a) - 1} : g.from = y}
  <2>1. DOMAIN p.acks = 1 .. Len(a) /\ a = p.acks
    BY <1>2 DEF a
  <2>2. DOMAIN Left(p).acks = 1 .. Len(a) - 1
    BY <1>2, <1>3 DEF b
  <2>3. \A j \in 1 .. Len(a) - 1 : Left(p).acks[j] = a[j + 1]
    BY <1>2, <1>3 DEF b
  <2>4. ASSUME NEW y PROVE AcksOf(p, y) = {g \in {a[j] : j \in 1 .. Len(a)} : g.from = y}
    BY <2>1 DEF AcksOf
  <2>5. ASSUME NEW y PROVE AcksOf(Left(p), y) = {g \in {a[j + 1] : j \in 1 .. Len(a) - 1} : g.from = y}
    BY <2>2, <2>3 DEF AcksOf
  <2> QED BY <2>4, <2>5
<1>7. AcksOf(p, e.from) = {e}
  BY <1>2, <1>4, <1>6
<1>8. AcksOf(Left(p), e.from) = {}
  <2>1. \A j \in 1 .. Len(a) - 1 : j + 1 \in 1 .. Len(a) /\ j + 1 # 1
    BY <1>2
  <2>2. 1 \in 1 .. Len(a)
    BY <1>2
  <2> QED BY <1>2, <1>4, <1>6, <2>1, <2>2
<1>9. \A y : y # e.from => AcksOf(Left(p), y) = AcksOf(p, y)
  <2> SUFFICES ASSUME NEW y, y # e.from PROVE AcksOf(Left(p), y) = AcksOf(p, y)
    OBVIOUS
  <2>1. ASSUME NEW g, g.from = y, NEW j \in 1 .. Len(a), g = a[j] PROVE \E k \in 1 .. Len(a) - 1 : g = a[k + 1]
    <3>1. j # 1
      BY <1>2, <2>1
    <3>2. j - 1 \in 1 .. Len(a) - 1 /\ (j - 1) + 1 = j
      BY <1>2, <3>1
    <3> QED BY <2>1, <3>2
  <2>2. ASSUME NEW g, NEW j \in 1 .. Len(a) - 1, g = a[j + 1] PROVE \E k \in 1 .. Len(a) : g = a[k]
    <3>1. j + 1 \in 1 .. Len(a)
      BY <1>2
    <3> QED BY <2>2, <3>1
  <2>3. \A g : g.from = y => (g \in {a[j] : j \in 1 .. Len(a)} <=> g \in {a[j + 1] : j \in 1 .. Len(a) - 1})
    BY <2>1, <2>2
  <2>4. \A g : g \in AcksOf(Left(p), y) <=> g \in AcksOf(p, y)
    BY <1>6, <2>3
  <2> QED BY <2>4
<1>10. PacketOK(cs, Left(p))
  <2>1. CASE Left(p) = NoPacket
    BY <2>1 DEF PacketOK
  <2>2. CASE Left(p).id = ControlId
    <3>1. Len(Left(p).acks) = Len(a) - 1 /\ \A j \in 1 .. Len(a) - 1 : Left(p).acks[j] = a[j + 1]
      BY <1>2, <1>3 DEF b
    <3>2. \A j \in 1 .. Len(a) - 1 : j + 1 \in 1 .. Len(a)
      BY <1>2
    <3>3. \A j, k \in 1 .. Len(a) - 1 : a[j + 1].from = a[k + 1].from => j = k
      <4> SUFFICES ASSUME NEW j \in 1 .. Len(a) - 1, NEW k \in 1 .. Len(a) - 1,
                          a[j + 1].from = a[k + 1].from
                   PROVE  j = k
        OBVIOUS
      <4>1. j + 1 = k + 1
        BY <1>4, <3>2
      <4> QED BY <1>2, <4>1
    <3>4. ControlPacket(cs, Left(p))
      <4> DEFINE l == Left(p)
                 m == Len(a) - 1
      <4>1. l.id = ControlId /\ l.data = <<>> /\ Len(l.acks) = m
        BY <1>3, <2>2, <3>1
      <4>2. \A j \in 1 .. m : /\ cs[l.acks[j].from].life # "unborn"
                               /\ l.acks[j].id = cs[l.acks[j].from].id
        BY <1>4, <3>1, <3>2
      <4>3. \A j, k \in 1 .. m : l.acks[j].from = l.acks[k].from => j = k
        BY <3>1, <3>3
      <4> HIDE DEF l, m
      <4>4. ControlPacket(cs, l)
        BY <4>1, <4>2, <4>3 DEF ControlPacket
      <4> QED BY <4>4 DEF l
    <3> QED BY <3>4 DEF PacketOK
  <2> QED BY <1>3, <2>1, <2>2
<1>11. e \in Entry /\ cs[e.from].life # "unborn" /\ e.id = cs[e.from].id
  BY <1>2, <1>4
<1>12. ~Holds(Left(p), e.from) /\ \A y : y # e.from => SameItems(Left(p), p, y)
  BY <1>5, <1>8, <1>9 DEF Holds, SameItems
<1>13. e = Head(p.acks)
  BY DEF a
<1> HIDE DEF e
<1> QED BY <1>3, <1>5, <1>7, <1>10, <1>11, <1>12, <1>13

\* The entry that read_ack is given is of a client that it finds, or makes.
LEMMA EntryFound ==
    ASSUME Types, \A t \in Side : Local(t), Cross, NEW s \in Side, rin[s].id = ControlId
    PROVE  LET e == Head(rin[s].acks)
           IN /\ ControlPacket(client[Peer(s)], rin[s]) /\ rin[s].acks # <<>>
              /\ e \in Entry /\ AcksOf(rin[s], e.from) = {e}
              /\ e.id = client[Peer(s)][e.from].id /\ client[Peer(s)][e.from].life # "unborn"
              /\ Stream(Peer(s))[0] = rin[s] /\ Holds(rin[s], e.from) /\ ~Unexpected(s, e.id)
<1> DEFINE e == Head(rin[s].acks)
<1>1. Stream(Peer(s))[0] = rin[s] /\ rin[s] \in AnyPacket /\ Peer(s) \in Side
  BY StreamFirst, TypeFacts, Sides
<1>2. ControlPacket(client[Peer(s)], rin[s]) /\ rin[s].acks # <<>>
  <2>1. PacketOK(client[Peer(s)], rin[s]) /\ rin[s].acks # <<>>
    BY <1>1 DEF Cross, Packets
  <2> QED BY <1>1, <2>1, ControlNoData DEF Local
<1>3. /\ e \in Entry /\ AcksOf(rin[s], e.from) = {e}
      /\ client[Peer(s)][e.from].life # "unborn" /\ e.id = client[Peer(s)][e.from].id
  BY <1>1, <1>2, FirstEntry
<1>4. e.from \in Obj /\ Holds(rin[s], e.from)
  <2> HIDE DEF e
  <2> QED BY <1>3 DEF Entry, Holds
<1>5. ~Unexpected(s, e.id)
  <2> HIDE DEF e
  <2>1. table[s][e.id] # None \/ s = "demux"
    BY <1>1, <1>3, <1>4, Addressee, Named
  <2> QED BY <2>1 DEF Unexpected, Known
<1> QED BY <1>1, <1>2, <1>3, <1>4, <1>5

\* The stream when mainr has read the entry.
LEMMA EntryTaken ==
    ASSUME Types, \A t \in Side : Local(t), Cross, NEW s \in Side, rin[s].id = ControlId,
           EntryDone(s), UNCHANGED <<wout, link>>
    PROVE  LET e == Head(rin[s].acks)
               pk == Left(rin[s])
           IN /\ Take(Stream(Peer(s))', Stream(Peer(s)), pk) /\ Stream(s)' = Stream(s)
              /\ Stream(Peer(s))[0] = rin[s]
              /\ pk \in AnyPacket /\ PacketOK(client[Peer(s)], pk)
              /\ pk.id = ControlId => pk.acks # <<>>
              /\ \A y : y # e.from => SameItems(pk, rin[s], y)
              /\ ~Holds(pk, e.from) /\ \A y : ~HasData(rin[s], y)
<1>1. ControlPacket(client[Peer(s)], rin[s]) /\ rin[s].acks # <<>> /\ rin[s] \in AnyPacket
  BY EntryFound, TypeFacts
<1>2. rin' = [rin EXCEPT ![s] = Left(rin[s])]
  BY DEF EntryDone, Left
<1>3. Left(rin[s]) \in AnyPacket
  BY <1>1, FirstEntry
<1>4. /\ Take(Stream(Peer(s))', Stream(Peer(s)), Left(rin[s])) /\ Stream(s)' = Stream(s)
      /\ Stream(Peer(s))[0] = rin[s]
  BY <1>2, <1>3, StreamsTaken
<1> QED BY <1>1, <1>4, FirstEntry

LEMMA CrossCredited ==
    ASSUME Types, Types', \A t \in Side : Local(t), Cross, NEW s \in Side, rin[s].id = ControlId,
           EntryDone(s), UNCHANGED <<wout, link>>, NEW e, e = Head(rin[s].acks), NEW o, NEW c,
           Got(s, e.id, e.from, o, c), Credited(s, o, c, e.karma)
    PROVE  Cross'
<1> DEFINE x == e.from
           y == client[Peer(s)][x]
           f == Stream(Peer(s))
           g == Stream(Peer(s))'
           pk == Left(rin[s])
           r == [c EXCEPT !.wkarma = @ + e.karma]
<1>1. /\ e \in Entry /\ AcksOf(f[0], x) = {e} /\ x \in Obj
      /\ e.id = y.id /\ y.life # "unborn" /\ Holds(f[0], x)
  <2>1. e \in Entry => e.from \in Obj
    BY DEF Entry
  <2> QED BY <2>1, EntryFound
<1>2. Met(s, e.id, x, o, c)
  BY ZenonT(40), <1>1, Meeting
<1>3. /\ c \in ClientRec /\ e.karma \in Nat /\ c.wkarma \in Nat /\ c.wkarma + e.karma \in Nat
      /\ e.karma # End /\ y \in ClientRec
  <2>1. c \in ClientRec
    BY ONLY Zenon, <1>2, MetAlive
  <2>2. e.karma \in Nat
    <3>1. e.karma >= 0
      BY Zenon DEF Credited
    <3>2. e \in Entry
      BY Zenon, <1>1
    <3> QED BY ONLY <3>1, <3>2, Numbers DEF Entry, End
  <2>3. y \in ClientRec
    BY <1>1, Sides, TypeFacts
  <2> QED BY SMTT(40), <2>1, <2>2, <2>3, RecFacts, Numbers DEF End
<1>4. /\ r \in ClientRec /\ client' = [client EXCEPT ![s][o] = r]
      /\ r.life = c.life /\ r.id = c.id /\ r.s = c.s /\ r.is_rdead = c.is_rdead
      /\ r.wkarma = c.wkarma + e.karma /\ r.rkarma = c.rkarma /\ r.out = c.out /\ r.taken = c.taken
      /\ r.given = c.given /\ r.granted = c.granted /\ r.mate = c.mate
  <2>1. r \in ClientRec
    BY <1>3, WkarmaField
  <2>2. client' = [client EXCEPT ![s][o] = r]
    BY DEF Credited
  <2>3. \A d \in ClientRec, n \in Nat : LET q == [d EXCEPT !.wkarma = n] IN
          /\ q.life = d.life /\ q.id = d.id /\ q.s = d.s /\ q.is_rdead = d.is_rdead
          /\ q.wkarma = n /\ q.rkarma = d.rkarma /\ q.out = d.out /\ q.taken = d.taken
          /\ q.given = d.given /\ q.granted = d.granted /\ q.mate = d.mate
    BY DEF ClientRec
  <2>4. r = [c EXCEPT !.wkarma = c.wkarma + e.karma]
    OBVIOUS
  <2> QED BY <1>3, <2>1, <2>2, <2>3
<1>5. /\ Take(g, f, pk) /\ Stream(s)' = Stream(s) /\ f[0] = rin[s]
      /\ pk \in AnyPacket /\ PacketOK(client[Peer(s)], pk)
      /\ pk.id = ControlId => pk.acks # <<>>
      /\ \A z : z # x => SameItems(pk, f[0], z)
      /\ ~Holds(pk, x) /\ ~HasData(f[0], x)
  BY EntryTaken
<1>6. \A i \in Nat : f[i] \in AnyPacket
  BY StreamType, Sides
<1> HIDE DEF x, y, f, g, pk, r
<1>7. ~HasData(pk, x) /\ AcksOf(pk, x) = {}
  BY <1>5 DEF Holds
<1>8. Half(f, x, y, c)
  BY <1>2 DEF Met, f, y
<1>9. /\ y.taken \in Nat /\ y.granted \in Nat /\ Received(c) \in Nat /\ Credit(c) \in Nat
      /\ Received(r) = Received(c) /\ Credit(r) = Credit(c) + e.karma /\ (Heard(r) <=> Heard(c))
  <2>1. Received(r) = Received(c)
    BY <1>4 DEF Received
  <2>2. Credit(r) = Credit(c) + e.karma
    <3>1. c.taken \in Nat
      BY <1>3, CountFacts
    <3> QED BY <1>3, <1>4, <3>1 DEF Credit
  <2>3. Heard(r) <=> Heard(c)
    BY <1>4 DEF Heard, Gone
  <2> QED BY <1>3, <2>1, <2>2, <2>3, CountFacts
<1>10. Half(g, x, y, r)
  <2>1. Units(g, x, y.taken, Received(r))
    BY <1>5, <1>7, <1>8, <1>9, TakeNoData DEF Half
  <2>2. Grants(g, x, y.granted, Credit(r))
    <3>1. Grants(f, x, y.granted, Credit(c)) /\ AcksOf(f[0], x) = {e}
      BY <1>1, <1>8 DEF Half
    <3>2. Grants(g, x, y.granted, Credit(c) + e.karma)
      BY <1>1, <1>3, <1>5, <1>6, <1>7, <1>9, <3>1, TakeGrant
    <3> QED BY <1>9, <3>2
  <2>3. Ends(g, x, y, r)
    <3>1. ~EndIn(f[0], x)
      BY <1>1, <1>3 DEF EndIn
    <3> QED BY <1>5, <1>8, <1>9, <3>1, TakeNoEnd DEF Half
  <2> QED BY <2>1, <2>2, <2>3 DEF Half
<1>11. SameSender(c, r)
  BY <1>4 DEF SameSender, Done, Open
<1>12. Taken(s, e.id, x, o, c, r, pk)
  <2>1. r.life # "unborn"
    BY <1>2, <1>4 DEF Met
  <2>2. \A i \in 1 .. Len(r.out) : i \in 1 .. Len(c.out) /\ r.out[i] = c.out[i]
    BY <1>4
  <2>3. /\ Take(Stream(Peer(s))', Stream(Peer(s)), pk)
        /\ \A z : z # x => SameItems(pk, Stream(Peer(s))[0], z)
        /\ Half(Stream(Peer(s))', x, client[Peer(s)][x], r)
    BY <1>5, <1>10 DEF f, g, y
  <2> QED BY <1>2, <1>4, <1>5, <1>11, <2>1, <2>2, <2>3 DEF Taken
<1> QED BY <1>5, <1>12, CrossTaken

LEMMA CrossEndAnnounced ==
    ASSUME Types, Types', \A t \in Side : Local(t), Cross, NEW s \in Side, rin[s].id = ControlId,
           EntryDone(s), UNCHANGED <<wout, link>>, NEW e, e = Head(rin[s].acks), NEW o, NEW c,
           Got(s, e.id, e.from, o, c), e.karma = End, EndAnnounced(s, o, c)
    PROVE  Cross'
<1> DEFINE x == e.from
           y == client[Peer(s)][x]
           f == Stream(Peer(s))
           g == Stream(Peer(s))'
           pk == Left(rin[s])
           r == Told(c)
<1>1. /\ e \in Entry /\ AcksOf(f[0], x) = {e} /\ x \in Obj
      /\ e.id = y.id /\ y.life # "unborn" /\ Holds(f[0], x)
  <2>1. e \in Entry => e.from \in Obj
    BY DEF Entry
  <2> QED BY <2>1, EntryFound
<1>2. Met(s, e.id, x, o, c)
  BY ZenonT(40), <1>1, Meeting
<1>3. c \in ClientRec /\ ClientOK(c) /\ c.life = "live" /\ y \in ClientRec /\ c.is_rdead \in BOOLEAN
  <2>1. c \in ClientRec /\ ClientOK(c) /\ c.life = "live"
    BY ONLY Zenon, <1>2, MetAlive
  <2>2. y \in ClientRec
    BY <1>1, Sides, TypeFacts
  <2> QED BY SMTT(40), <2>1, <2>2, RecFacts
<1>4. /\ r \in ClientRec /\ client' = [client EXCEPT ![s][o] = r]
      /\ r.id = c.id /\ r.wkarma = c.wkarma /\ r.out = c.out /\ r.taken = c.taken
      /\ r.given = c.given /\ r.granted = c.granted /\ r.mate = c.mate
      /\ r.life \in {"live", "burned"} /\ (r.is_rdead \/ r.life = "burned")
      /\ (Done(r) <=> Done(c))
  <2>1. r \in ClientRec
    BY <1>3, ToldType
  <2>2. client' = [client EXCEPT ![s][o] = r]
    BY DEF EndAnnounced, Told
  <2>3. /\ r.id = c.id /\ r.wkarma = c.wkarma /\ r.taken = c.taken /\ r.granted = c.granted
        /\ r.mate = c.mate /\ r.out = c.out /\ r.given = c.given
        /\ c.s = "open" => r.s = "closed" /\ r.rkarma = End /\ r.is_rdead = TRUE /\ r.life = c.life
        /\ c.s # "open" => r.s = c.s /\ r.rkarma = c.rkarma
        /\ c.s = "closed" /\ c.rkarma = 0 => r.life = "burned" /\ r.is_rdead = c.is_rdead
        /\ ~(c.s = "closed" /\ c.rkarma = 0) => r.life = c.life /\ r.is_rdead = TRUE
    BY <1>3, ToldFields
  <2> HIDE DEF r
  <2>4. r.life \in {"live", "burned"} /\ (r.is_rdead \/ r.life = "burned")
    BY <1>3, <2>3
  <2>5. Done(r) <=> Done(c)
    <3>1. CASE c.s = "open"
      BY <1>3, <2>3, <3>1, Numbers DEF Done, Open, End
    <3>2. CASE c.s # "open"
      BY <1>3, <2>3, <2>4, <3>2 DEF Done, Open
    <3> QED BY <3>1, <3>2
  <2> QED BY <2>1, <2>2, <2>3, <2>4, <2>5
<1>5. /\ Take(g, f, pk) /\ Stream(s)' = Stream(s) /\ f[0] = rin[s]
      /\ pk \in AnyPacket /\ PacketOK(client[Peer(s)], pk)
      /\ pk.id = ControlId => pk.acks # <<>>
      /\ \A z : z # x => SameItems(pk, f[0], z)
      /\ ~Holds(pk, x) /\ ~HasData(f[0], x)
  BY EntryTaken
<1>6. \A i \in Nat : f[i] \in AnyPacket
  BY StreamType, Sides
<1> HIDE DEF x, y, f, g, pk, r
<1>7. ~HasData(pk, x) /\ AcksOf(pk, x) = {}
  BY <1>5 DEF Holds
<1>8. Half(f, x, y, c)
  BY <1>2 DEF Met, f, y
<1>9. /\ y.taken \in Nat /\ y.granted \in Nat /\ Received(c) \in Nat /\ Credit(c) \in Nat
      /\ Received(r) = Received(c) /\ Credit(r) = Credit(c) /\ Heard(r)
  <2>1. Received(r) = Received(c)
    BY <1>4 DEF Received
  <2>2. Credit(r) = Credit(c)
    BY <1>4 DEF Credit
  <2>3. Heard(r)
    BY <1>4 DEF Heard, Gone
  <2> QED BY <1>3, <2>1, <2>2, <2>3, CountFacts
<1>10. Half(g, x, y, r)
  <2>1. Units(g, x, y.taken, Received(r))
    BY <1>5, <1>7, <1>8, <1>9, TakeNoData DEF Half
  <2>2. Grants(g, x, y.granted, Credit(r))
    <3>1. \A h \in AcksOf(f[0], x) : h.karma = End
      BY <1>1
    <3>2. Grants(f, x, y.granted, Credit(c))
      BY <1>8 DEF Half
    <3>3. Grants(g, x, y.granted, Credit(c))
      BY <1>5, <1>7, <3>1, <3>2, TakeNoGrant
    <3> QED BY <1>9, <3>3
  <2>3. Ends(g, x, y, r)
    <3>1. EndIn(f[0], x)
      BY <1>1 DEF EndIn
    <3> QED BY <1>5, <1>8, <1>9, <3>1, TakeEnd DEF Half
  <2> QED BY <2>1, <2>2, <2>3 DEF Half
<1>11. SameSender(c, r)
  BY <1>4 DEF SameSender
<1>12. Taken(s, e.id, x, o, c, r, pk)
  <2>1. r.life # "unborn"
    BY <1>4
  <2>2. \A i \in 1 .. Len(r.out) : i \in 1 .. Len(c.out) /\ r.out[i] = c.out[i]
    BY <1>4
  <2>3. /\ Take(Stream(Peer(s))', Stream(Peer(s)), pk)
        /\ \A z : z # x => SameItems(pk, Stream(Peer(s))[0], z)
        /\ Half(Stream(Peer(s))', x, client[Peer(s)][x], r)
    BY SMTT(40), <1>5, <1>10 DEF f, g, y
  <2> QED BY <1>2, <1>4, <1>5, <1>11, <2>1, <2>2, <2>3 DEF Taken
<1> QED BY SMTT(40), <1>5, <1>12, CrossTaken

\* Data is of a client that mainr finds, or makes, and that has room for it.
LEMMA DataFound ==
    ASSUME Types, \A t \in Side : Local(t), Cross, NEW s \in Side,
           rin[s] # NoPacket, rin[s].id # ControlId
    PROVE  LET p == rin[s]
               x == rin[s].data[1][1]
           IN /\ DataPacket(client[Peer(s)], p) /\ p.data \in Seq(Obj \X (Nat \ {0}))
              /\ x \in Obj /\ p.id = client[Peer(s)][x].id /\ client[Peer(s)][x].life # "unborn"
              /\ Stream(Peer(s))[0] = p /\ Holds(p, x) /\ HasData(p, x)
              /\ \A z : AcksOf(p, z) = {} /\ (z # x => ~HasData(p, z))
              /\ ~Unexpected(s, p.id)
<1> DEFINE p == rin[s]
           x == p.data[1][1]
<1>1. Stream(Peer(s))[0] = p /\ p \in AnyPacket /\ Peer(s) \in Side
  BY StreamFirst, TypeFacts, Sides
<1>2. PacketOK(client[Peer(s)], p)
  BY <1>1 DEF Cross, Packets
<1>3. DataPacket(client[Peer(s)], p) /\ p.data \in Seq(Obj \X (Nat \ {0})) /\ x \in Obj
  <2> HIDE DEF p
  <2>1. p # NoPacket /\ p.id # ControlId
    BY DEF p
  <2> QED BY <1>1, <1>2, <2>1, FirstUnit
<1>4. p.id = client[Peer(s)][x].id /\ client[Peer(s)][x].life # "unborn"
  BY <1>3 DEF DataPacket
<1>5. HasData(p, x) /\ Holds(p, x)
  BY <1>3 DEF DataPacket, HasData, Holds
<1>6. \A z : AcksOf(p, z) = {} /\ (z # x => ~HasData(p, z))
  <2>1. p.acks = <<>>
    BY Zenon, <1>3 DEF DataPacket
  <2>2. x = p.data[1][1]
    OBVIOUS
  <2> HIDE DEF p, x
  <2> QED BY ONLY <2>1, <2>2 DEF HasData, AcksOf
<1>7. ~Unexpected(s, p.id)
  <2>1. Holds(Stream(Peer(s))[0], x)
    BY <1>1, <1>5
  <2> HIDE DEF p, x
  <2>2. table[s][p.id] # None \/ s = "demux"
    BY <1>3, <1>4, <2>1, Addressee, Named
  <2> QED BY <2>2 DEF Unexpected, Known
<1> QED BY <1>1, <1>3, <1>4, <1>5, <1>6, <1>7

\* The credit the sender has keeps what it sends within out_buf.
LEMMA Room ==
    ASSUME Types, NEW s \in Side, NEW id, NEW x, NEW o, NEW c, Met(s, id, x, o, c),
           HasData(Stream(Peer(s))[0], x)
    PROVE  LET pk == Stream(Peer(s))[0]
           IN /\ Start(pk) = Received(c) + 1 /\ Stop(pk) \in Nat
              /\ Stop(pk) <= ClientKarma + Len(c.given)
<1> DEFINE f == Stream(Peer(s))
           y == client[Peer(s)][x]
<1>1. /\ c \in ClientRec /\ ClientOK(c) /\ y \in ClientRec
      /\ Half(f, x, y, c) /\ Half(Stream(s), o, c, y)
  BY Sides, TypeFacts DEF Met
<1>2. \A i \in Nat : f[i] \in AnyPacket
  BY StreamType, Sides
<1>3. HasData(f[0], x)
  OBVIOUS
<1>4. Start(f[0]) = Stream(Peer(s))[0].data[1][2] /\ Stop(f[0]) = Stop(Stream(Peer(s))[0])
  BY DEF Start
<1> HIDE DEF y, f
<1>5. /\ y.taken \in Nat /\ y.granted \in Nat /\ Received(c) \in Nat /\ Credit(y) \in Nat
      /\ c.granted \in Nat /\ Len(c.given) \in Nat
  BY <1>1, CountFacts
<1>6. Stop(f[0]) \in Nat
  BY <1>2, <1>3, SpanType
<1>7. /\ \A i \in Nat : HasData(f[i], x) => Received(c) < Start(f[i]) /\ Stop(f[i]) <= y.taken
      /\ Units(f, x, y.taken, Received(c))
  BY <1>1 DEF Half, Units
<1>8. Start(f[0]) = Received(c) + 1
  <2> DEFINE g == [i \in Nat |-> IF i = 0 THEN NoPacket ELSE f[i]]
  <2>1. Take(g, f, NoPacket)
    BY DEF Take
  <2>2. ~HasData(NoPacket, x)
    BY NothingInNoPacket DEF Holds
  <2> HIDE DEF g
  <2> QED BY <1>2, <1>3, <1>5, <1>7, <2>1, <2>2, TakeData
<1>9. Stop(f[0]) <= y.taken
  BY <1>3, <1>7
<1>10. y.taken <= Credit(y)
  BY <1>1, RecFacts DEF Credit
<1>11. Credit(y) <= c.granted
  BY <1>1 DEF Half, Grants
<1>12. c.granted <= ClientKarma + Len(c.given)
  <2>1. Credible(c) /\ c.rkarma \in {End} \cup Nat
    BY <1>1, RecFacts DEF ClientOK
  <2> QED BY <1>5, <2>1, CredibleBound
<1>13. Stop(f[0]) <= ClientKarma + Len(c.given)
  BY <1>5, <1>6, <1>9, <1>10, <1>11, <1>12, Numbers
<1> QED BY <1>6, <1>8, <1>13 DEF f

\* Where the units of a packet stand in out_buf.
LEMMA Appended ==
    ASSUME NEW out \in Seq(Obj \X Nat), NEW units \in Seq(Obj \X (Nat \ {0})), NEW x, NEW n \in Nat,
           \A j \in 1 .. Len(units) : units[j] = <<x, n + Len(out) + j>>
    PROVE  /\ Len(out \o units) = Len(out) + Len(units)
           /\ \A i \in 1 .. Len(out \o units) :
                \/ i \in 1 .. Len(out) /\ (out \o units)[i] = out[i]
                \/ (out \o units)[i] = <<x, n + i>>
<1>1. /\ Len(out) \in Nat /\ Len(units) \in Nat /\ Len(out \o units) = Len(out) + Len(units)
      /\ \A i \in 1 .. Len(out) + Len(units) :
           (out \o units)[i] = IF i <= Len(out) THEN out[i] ELSE units[i - Len(out)]
  BY ConcatProperties, LenProperties
<1> SUFFICES ASSUME NEW i \in 1 .. Len(out) + Len(units), i > Len(out)
             PROVE  units[i - Len(out)] = <<x, n + i>>
  BY <1>1
<1>2. i - Len(out) \in 1 .. Len(units) /\ n + Len(out) + (i - Len(out)) = n + i
  BY <1>1
<1> QED BY <1>2

\* There is room for the units, and they follow the ones before.
\* The units of packet p, from client x, are the next that c is to receive.
Fits(s, p, x, o, c) ==
    /\ Met(s, p.id, x, o, c)
    /\ Start(p) = Received(c) + 1 /\ Stop(p) = Received(c) + Len(p.data)
    /\ Len(c.out) + Len(p.data) <= ClientKarma
    /\ \A j \in 1 .. Len(p.data) : p.data[j] = <<x, Len(c.given) + Len(c.out) + j>>

LEMMA UnitsFit ==
    ASSUME Types, \A t \in Side : Local(t), Cross, NEW s \in Side,
           rin[s] # NoPacket, rin[s].id # ControlId, NEW o, NEW c,
           Got(s, rin[s].id, rin[s].data[1][1], o, c)
    PROVE  Fits(s, rin[s], rin[s].data[1][1], o, c)
<1> DEFINE p == rin[s]
           x == rin[s].data[1][1]
<1>1. /\ DataPacket(client[Peer(s)], p) /\ p.data \in Seq(Obj \X (Nat \ {0})) /\ x \in Obj
      /\ p.id = client[Peer(s)][x].id /\ client[Peer(s)][x].life # "unborn"
      /\ Stream(Peer(s))[0] = p /\ Holds(p, x) /\ HasData(p, x)
  BY ZenonT(40), DataFound
<1>a. Got(s, p.id, x, o, c) /\ x = p.data[1][1]
  BY Zenon
<1> HIDE DEF p, x
<1>2. Met(s, p.id, x, o, c)
  BY ZenonT(40), <1>1, <1>a, Meeting
<1>3. Start(p) = Received(c) + 1 /\ Stop(p) \in Nat /\ Stop(p) <= ClientKarma + Len(c.given)
  BY ZenonT(40), <1>1, <1>2, Room
<1>4. Len(p.data) \in Nat /\ Len(c.given) \in Nat /\ Len(c.out) \in Nat
  <2>1. c \in ClientRec
    BY ONLY Zenon, <1>2, MetAlive
  <2>2. Len(c.given) \in Nat /\ Len(c.out) \in Nat
    BY ONLY Zenon, <2>1, CountFacts
  <2>3. Len(p.data) \in Nat
    BY ONLY Zenon, <1>1, LenProperties
  <2> QED BY ONLY Zenon, <2>2, <2>3
<1>5. p.data[1][2] = Start(p) /\ Stop(p) = p.data[1][2] + Len(p.data) - 1
  BY ONLY TRUE DEF Start, Stop
<1>6. p.data[1][1] = x /\ \A j \in 1 .. Len(p.data) : p.data[j] = <<x, p.data[1][2] + j - 1>>
  BY Zenon, <1>1, <1>a DEF DataPacket
<1>7. Received(c) = Len(c.given) + Len(c.out)
  BY DEF Received
<1> DEFINE l == Len(c.given)
           m == Len(c.out)
           n == Len(p.data)
           first == p.data[1][2]
           last == Stop(p)
<1>8. /\ l \in Nat /\ m \in Nat /\ n \in Nat /\ first = l + m + 1 /\ last = first + n - 1
      /\ last <= ClientKarma + l /\ Received(c) = l + m
  BY <1>3, <1>4, <1>5, <1>7
<1>9. last = Received(c) + n /\ m + n <= ClientKarma
  <2> HIDE DEF l, m, n, first, last
  <2> QED BY <1>8, Numbers
<1>10. \A j \in 1 .. n : p.data[j] = <<x, l + m + j>>
  <2> SUFFICES ASSUME NEW j \in 1 .. n PROVE p.data[j] = <<x, l + m + j>>
    OBVIOUS
  <2>1. p.data[j] = <<x, first + j - 1>>
    BY <1>6
  <2> HIDE DEF l, m, n, first, last
  <2>2. first + j - 1 = l + m + j
    BY <1>8
  <2> QED BY <2>1, <2>2
<1>11. Fits(s, p, x, o, c)
  BY ONLY Zenon, <1>2, <1>3, <1>9, <1>10 DEF Fits
<1> QED BY ONLY <1>11 DEF p, x

LEMMA CrossBuffered ==
    ASSUME Types, Types', \A t \in Side : Local(t), Cross, NEW s \in Side,
           rin[s] # NoPacket, rin[s].id # ControlId,
           rin' = [rin EXCEPT ![s] = NoPacket], UNCHANGED <<wout, link>>,
           NEW o, NEW c, Got(s, rin[s].id, rin[s].data[1][1], o, c),
           Buffered(s, <<o, c>>, rin[s].data)
    PROVE  Cross'
<1> DEFINE p == rin[s]
           x == rin[s].data[1][1]
           y == client[Peer(s)][x]
           f == Stream(Peer(s))
           g == Stream(Peer(s))'
           r == [c EXCEPT !.out = @ \o p.data]
<1>1. /\ DataPacket(client[Peer(s)], p) /\ p.data \in Seq(Obj \X (Nat \ {0})) /\ x \in Obj
      /\ f[0] = p /\ HasData(p, x) /\ \A z : AcksOf(p, z) = {} /\ (z # x => ~HasData(p, z))
  BY DataFound
<1>2. /\ Met(s, p.id, x, o, c)
      /\ Start(p) = Received(c) + 1 /\ Stop(p) = Received(c) + Len(p.data)
      /\ Len(c.out) + Len(p.data) <= ClientKarma
      /\ \A j \in 1 .. Len(p.data) : p.data[j] = <<x, Len(c.given) + Len(c.out) + j>>
  <2>1. Fits(s, p, x, o, c)
    BY Zenon, UnitsFit
  <2> HIDE DEF p, x
  <2> QED BY ONLY Zenon, <2>1 DEF Fits
<1>3. c \in ClientRec /\ y \in ClientRec /\ c.out \in Seq(Obj \X Nat) /\ c.life = "live"
  <2>1. c \in ClientRec /\ c.life = "live"
    BY ONLY Zenon, <1>2, MetAlive
  <2>2. y \in ClientRec
    BY <1>1, Sides, TypeFacts
  <2> QED BY <2>1, <2>2, RecFacts
<1>4. /\ r \in ClientRec /\ client' = [client EXCEPT ![s][o] = r]
      /\ r.life = c.life /\ r.id = c.id /\ r.s = c.s /\ r.is_rdead = c.is_rdead
      /\ r.wkarma = c.wkarma /\ r.rkarma = c.rkarma /\ r.out = c.out \o p.data /\ r.taken = c.taken
      /\ r.given = c.given /\ r.granted = c.granted /\ r.mate = c.mate
  <2>1. r \in ClientRec
    BY <1>1, <1>3, BufferedType
  <2>2. client' = [client EXCEPT ![s][o] = r]
    <3>1. ~(ClientKarma - Len(c.out) < Len(p.data))
      <4>1. Len(c.out) \in Nat /\ Len(p.data) \in Nat
        BY <1>1, <1>3, LenProperties
      <4>2. Len(c.out) + Len(p.data) <= ClientKarma
        BY <1>2
      <4> DEFINE m == Len(c.out)
                 n == Len(p.data)
      <4>3. m \in Nat /\ n \in Nat /\ m + n <= ClientKarma
        BY <4>1, <4>2
      <4> HIDE DEF m, n
      <4>4. ~(ClientKarma - m < n)
        BY SMTT(40), <4>3, Numbers
      <4> QED BY <4>4 DEF m, n
    <3> QED BY <3>1 DEF Buffered
  <2>3. /\ r.life = c.life /\ r.id = c.id /\ r.s = c.s /\ r.is_rdead = c.is_rdead
        /\ r.wkarma = c.wkarma /\ r.rkarma = c.rkarma /\ r.out = c.out \o p.data
        /\ r.taken = c.taken /\ r.given = c.given /\ r.granted = c.granted /\ r.mate = c.mate
    <3> HIDE DEF p
    <3> QED BY <1>3 DEF ClientRec
  <2> QED BY <2>1, <2>2, <2>3
<1>5. Take(g, f, NoPacket) /\ Stream(s)' = Stream(s)
  BY StreamsTaken, NoPacketType
<1>6. \A i \in Nat : f[i] \in AnyPacket
  BY StreamType, Sides
<1>12. /\ Len(r.out) = Len(c.out) + Len(p.data)
       /\ \A i \in 1 .. Len(r.out) : \/ i \in 1 .. Len(c.out) /\ r.out[i] = c.out[i]
                                     \/ r.out[i] = <<x, Len(r.given) + i>>
  <2>1. Len(c.given) \in Nat
    BY <1>3, CountFacts
  <2> DEFINE n == Len(c.given)
             out == c.out
             units == p.data
  <2>2. /\ r.out = out \o units /\ Len(r.given) = n /\ n \in Nat
        /\ out \in Seq(Obj \X Nat) /\ units \in Seq(Obj \X (Nat \ {0}))
        /\ \A j \in 1 .. Len(units) : units[j] = <<x, n + Len(out) + j>>
    BY <1>1, <1>2, <1>3, <1>4, <2>1
  <2> HIDE DEF r, x, n, out, units
  <2>4. /\ out \in Seq(Obj \X Nat) /\ units \in Seq(Obj \X (Nat \ {0})) /\ n \in Nat
        /\ \A j \in 1 .. Len(units) : units[j] = <<x, n + Len(out) + j>>
    BY <2>2
  <2>3. /\ Len(out \o units) = Len(out) + Len(units)
        /\ \A i \in 1 .. Len(out \o units) :
             \/ i \in 1 .. Len(out) /\ (out \o units)[i] = out[i]
             \/ (out \o units)[i] = <<x, n + i>>
    BY <2>4, Appended
  <2> QED BY <2>2, <2>3 DEF out, units
<1> HIDE DEF x, y, f, g, p, r
<1>7. ~Holds(NoPacket, x) /\ ~HasData(NoPacket, x) /\ AcksOf(NoPacket, x) = {}
  BY NothingInNoPacket DEF Holds
<1>8. Half(f, x, y, c)
  BY <1>2 DEF Met, f, y
<1>9. /\ y.taken \in Nat /\ y.granted \in Nat /\ Received(c) \in Nat /\ Credit(c) \in Nat
      /\ Received(r) = Received(c) + Len(p.data) /\ Credit(r) = Credit(c) /\ (Heard(r) <=> Heard(c))
  <2>1. Received(r) = Received(c) + Len(p.data)
    <3>1. Len(c.given) \in Nat /\ Len(c.out) \in Nat /\ Len(p.data) \in Nat
      BY <1>1, <1>3, CountFacts, LenProperties
    <3>2. Received(r) = Len(c.given) + (Len(c.out) + Len(p.data)) /\ Received(c) = Len(c.given) + Len(c.out)
      BY <1>4, <1>12 DEF Received
    <3> DEFINE l == Len(c.given)
               m == Len(c.out)
               n == Len(p.data)
    <3>3. l \in Nat /\ m \in Nat /\ n \in Nat /\ Received(r) = l + (m + n) /\ Received(c) = l + m
      BY <3>1, <3>2
    <3> HIDE DEF l, m, n
    <3>4. Received(r) = Received(c) + n
      BY <3>3
    <3> QED BY <3>4 DEF n
  <2>2. Credit(r) = Credit(c)
    BY <1>4 DEF Credit
  <2>3. Heard(r) <=> Heard(c)
    BY <1>4 DEF Heard, Gone
  <2> QED BY <1>3, <2>1, <2>2, <2>3, CountFacts
<1>10. Half(g, x, y, r)
  <2>1. Units(g, x, y.taken, Received(r))
    <3>1. Units(f, x, y.taken, Received(c)) /\ HasData(f[0], x)
      BY <1>1, <1>8 DEF Half
    <3>2. Units(g, x, y.taken, Stop(f[0]))
      BY <1>5, <1>6, <1>7, <1>9, <3>1, TakeData
    <3> QED BY <1>1, <1>2, <1>9, <3>2
  <2>2. Grants(g, x, y.granted, Credit(r))
    <3>1. \A h \in AcksOf(f[0], x) : h.karma = End
      BY <1>1
    <3>2. Grants(f, x, y.granted, Credit(c))
      BY <1>8 DEF Half
    <3>3. Grants(g, x, y.granted, Credit(c))
      BY <1>5, <1>7, <3>1, <3>2, TakeNoGrant
    <3> QED BY <1>9, <3>3
  <2>3. Ends(g, x, y, r)
    <3>1. ~EndIn(f[0], x)
      BY <1>1 DEF EndIn
    <3> QED BY <1>5, <1>7, <1>8, <1>9, <3>1, TakeNoEnd DEF Half
  <2> QED BY <2>1, <2>2, <2>3 DEF Half
<1>11. SameSender(c, r)
  BY <1>4 DEF SameSender, Done, Open
<1>13. Taken(s, p.id, x, o, c, r, NoPacket)
  <2>1. r.life # "unborn"
    BY <1>3, <1>4
  <2>2. NoPacket \in AnyPacket /\ PacketOK(client[Peer(s)], NoPacket) /\ NoPacket.id # ControlId
    BY NoPacketType DEF PacketOK, NoPacket, ControlId
  <2>3. /\ Take(Stream(Peer(s))', Stream(Peer(s)), NoPacket)
        /\ Half(Stream(Peer(s))', x, client[Peer(s)][x], r)
    BY <1>5, <1>10 DEF f, g, y
  <2>4. \A z : z # x => SameItems(NoPacket, Stream(Peer(s))[0], z)
    <3>1. \A z : ~HasData(NoPacket, z) /\ AcksOf(NoPacket, z) = {}
      BY NothingInNoPacket DEF Holds
    <3> QED BY <1>1, <3>1 DEF SameItems, f
  <2> QED BY <1>2, <1>4, <1>5, <1>11, <1>12, <2>1, <2>2, <2>3, <2>4 DEF Taken
<1> QED BY <1>7, <1>13, CrossTaken

\* A connection that nothing has been sent on.
LEMMA HalfFresh ==
    ASSUME NEW f, NEW o, NEW c, NEW r, \A i \in Nat : ~Holds(f[i], o),
           c.taken = 0, Received(r) = 0, Credit(r) = c.granted, c.granted \in Nat,
           ~Done(c), ~Heard(r)
    PROVE  Half(f, o, c, r)
<1>1. \A i \in Nat : ~HasData(f[i], o) /\ AcksOf(f[i], o) = {} /\ ~EndIn(f[i], o)
  BY DEF Holds, EndIn
<1>2. Units(f, o, c.taken, Received(r))
  BY <1>1 DEF Units
<1>3. Grants(f, o, c.granted, Credit(r))
  BY <1>1 DEF Grants
<1>4. Ends(f, o, c, r)
  BY <1>1 DEF Ends
<1> QED BY <1>2, <1>3, <1>4 DEF Half

LEMMA FreshEnds ==
    ASSUME NEW id, NEW o, NEW r, Newcomer(r, id, o)
    PROVE  /\ r.taken = 0 /\ Received(r) = 0 /\ Credit(r) = ClientKarma /\ r.granted = 0
           /\ ~Done(r) /\ ~Heard(r)
           /\ Unborn.taken = 0 /\ Received(Unborn) = 0 /\ Credit(Unborn) = 0
           /\ Unborn.granted = ClientKarma /\ ~Done(Unborn) /\ ~Heard(Unborn)
<1>1. /\ r.life = "live" /\ r.s = "open" /\ r.is_rdead = FALSE /\ r.wkarma = ClientKarma
      /\ r.out = <<>> /\ r.taken = 0 /\ r.given = <<>> /\ r.granted = 0
  BY DEF Newcomer
<1>2. Received(r) = 0 /\ Credit(r) = ClientKarma /\ ~Done(r) /\ ~Heard(r)
  BY <1>1, Numbers DEF Received, Credit, Done, Open, Heard, Gone
<1>3. Received(Unborn) = 0 /\ Credit(Unborn) = 0 /\ ~Done(Unborn) /\ ~Heard(Unborn)
  BY UnbornFields DEF Received, Credit, Done, Open, Heard, Gone
<1> QED BY <1>1, <1>2, <1>3, UnbornFields

LEMMA CrossAccepted ==
    ASSUME Types, Types', \A t \in Side : Local(t), Cross, NEW s \in Side,
           NEW o, NEW id, Accepted(s, o, id)
    PROVE  Cross'
<1> DEFINE r == Admitted(id, o)
<1>1. /\ o \in Obj /\ id \in 1 .. MaxId /\ r \in ClientRec /\ client[s][o].life = "unborn"
      /\ client' = [client EXCEPT ![s][o] = r]
      /\ wout' = wout /\ link' = link /\ rin' = rin
  BY DEF Accepted
<1>2. s = "mux"
  BY DEF Local, Watched, Accepted
<1>3. Newcomer(r, id, o)
  BY AdmittedFields
<1> HIDE DEF r
<1>4. /\ client'["mux"][o] = r /\ \A z \in Obj : z # o => client'["mux"][z] = client["mux"][z]
      /\ client'["demux"] = client["demux"]
  <2>1. "demux" \in Side /\ "demux" # s
    BY <1>2 DEF Side
  <2>2. o \in Obj /\ r \in ClientRec /\ client' = [client EXCEPT ![s][o] = r]
    BY <1>1
  <2>3. /\ client'[s][o] = r /\ \A z \in Obj : z # o => client'[s][z] = client[s][z]
        /\ \A t \in Side : t # s => client'[t] = client[t]
    BY ZenonT(40), <2>2, ClientUpdate
  <2> QED BY <1>2, <2>1, <2>3
<1>5. \A t \in Side : Stream(t)' = Stream(t)
  BY <1>1 DEF Stream
<1>6. "mux" \in Side /\ "demux" \in Side /\ None \notin Obj
  BY Named DEF Side
<1>7. /\ \A i \in Nat : ~Holds(Stream("mux")[i], o)
      /\ \A i \in Nat : ~Holds(Stream("demux")[i], None)
  BY <1>1, <1>2, <1>6, NothingOfUnborn
<1>8. r.life = "live" /\ r.given = <<>> /\ r.out = <<>>
  BY <1>3 DEF Newcomer
<1>9. \A d \in Obj : client["demux"][d].mate # o
  BY <1>1, <1>2, <1>6 DEF Cross, Mating
<1>10. Connections'
  <2> SUFFICES ASSUME NEW m \in Obj, NEW d \in {None} \cup Obj, Pair(m, d)'
               PROVE  /\ Half(Stream("mux"), m, Rec("mux", m), Rec("demux", d))'
                      /\ Half(Stream("demux"), d, Rec("demux", d), Rec("mux", m))'
    BY DEF Connections
  <2>1. CASE m = o
    <3>1. d = None
      BY <1>4, <1>9, <2>1 DEF Pair
    <3>2. Rec("mux", m)' = r /\ Rec("demux", d)' = Unborn
      <4>1. Rec("mux", m)' = r
        BY <1>1, <1>4, <1>6, <2>1 DEF Rec
      <4>2. Rec("demux", d)' = Unborn
        BY <3>1 DEF Rec, Unborn
      <4> QED BY <4>1, <4>2
    <3>3. Half(Stream("mux"), o, r, Unborn) /\ Half(Stream("demux"), None, Unborn, r)
      <4>1. /\ r.taken = 0 /\ Received(r) = 0 /\ Credit(r) = ClientKarma /\ r.granted = 0
            /\ ~Done(r) /\ ~Heard(r)
            /\ Unborn.taken = 0 /\ Received(Unborn) = 0 /\ Credit(Unborn) = 0
            /\ Unborn.granted = ClientKarma /\ ~Done(Unborn) /\ ~Heard(Unborn)
        BY <1>3, FreshEnds
      <4>2. Half(Stream("mux"), o, r, Unborn)
        BY <1>7, <4>1, HalfFresh
      <4>3. Half(Stream("demux"), None, Unborn, r)
        BY <1>7, <4>1, HalfFresh, Numbers
      <4> QED BY <4>2, <4>3
    <3> QED BY <1>5, <1>6, <2>1, <3>1, <3>2, <3>3
  <2>2. CASE m # o
    <3>1. Pair(m, d)
      BY <1>4, <2>2 DEF Pair
    <3>2. /\ Half(Stream("mux"), m, Rec("mux", m), Rec("demux", d))
          /\ Half(Stream("demux"), d, Rec("demux", d), Rec("mux", m))
      BY <3>1 DEF Cross, Connections
    <3>3. Rec("mux", m)' = Rec("mux", m) /\ Rec("demux", d)' = Rec("demux", d)
      BY <1>4, <1>6, <2>2, RecSame
    <3> QED BY <1>5, <1>6, <3>2, <3>3
  <2> QED BY <2>1, <2>2
<1>11. \A t \in Side : Packets(t)'
  <2> SUFFICES ASSUME NEW t \in Side PROVE Packets(t)'
    OBVIOUS
  <2>1. StillHas(t)
    <3>1. StillHas("mux")
      BY <1>1, <1>2, <1>4 DEF StillHas
    <3>2. StillHas("demux")
      BY <1>4 DEF StillHas
    <3> QED BY <3>1, <3>2 DEF Side
  <2>2. Packets(t)
    BY DEF Cross
  <2>3. \A i \in Nat : PacketOK(client'[t], Stream(t)[i])
    BY <2>1, <2>2, PacketKept, StreamType DEF Packets
  <2> QED BY <1>5, <2>2, <2>3 DEF Packets
<1>12. Mating'
  <2>1. Mating
    BY DEF Cross
  <2>2. OpenedOnce'
    BY <1>4, <2>1 DEF Mating, OpenedOnce
  <2>3. \A d \in Obj : client["demux"][d].mate \in {None} \cup Obj
    BY <1>6, TypeFacts, RecFacts
  <2>4. ASSUME NEW d \in Obj
        PROVE  /\ client'["demux"][d].life = "unborn" <=> client'["demux"][d].mate = None
               /\ client'["demux"][d].mate # None =>
                    /\ client'["mux"][client'["demux"][d].mate].life # "unborn"
                    /\ client'["mux"][client'["demux"][d].mate].id = client'["demux"][d].id
    <3> DEFINE m == client["demux"][d].mate
    <3>1. m # None => m \in Obj /\ m # o
      BY <1>9, <2>3
    <3>2. m # None => client'["mux"][m] = client["mux"][m]
      BY <1>4, <3>1
    <3> QED BY <1>4, <2>1, <3>1, <3>2 DEF Mating
  <2> QED BY <2>2, <2>4 DEF Mating
<1>13. Contents'
  <2> SUFFICES ASSUME NEW t \in Side, NEW z \in Obj
               PROVE  /\ \A i \in 1 .. Len(client'[t][z].given) :
                           /\ client'[t][z].given[i][2] = i
                           /\ Mates(t, z, client[t][z].given[i][1])'
                      /\ \A i \in 1 .. Len(client'[t][z].out) :
                           /\ client'[t][z].out[i][2] = Len(client'[t][z].given) + i
                           /\ Mates(t, z, client[t][z].out[i][1])'
    BY DEF Contents
  <2>1. CASE t = "mux" /\ z = o
    BY <1>4, <1>8, <2>1
  <2>2. CASE t # "mux" \/ z # o
    <3>1. client'[t][z] = client[t][z]
      BY <1>4, <2>2 DEF Side
    <3>2. \A m : Mates(t, z, m)' <=> Mates(t, z, m)
      BY <1>4 DEF Mates, Side
    <3>3. Genuine(t, z, client[t][z].given, client[t][z].out)
      BY ContentsGenuine DEF Cross
    <3> QED BY <3>1, <3>2, <3>3 DEF Genuine
  <2> QED BY <2>1, <2>2
<1>14. Succession'
  <2> SUFFICES ASSUME NEW m \in Obj, NEW n \in Obj, Gone(client'["mux"][m]),
                      client'["mux"][n].life = "live", client'["mux"][m].id = client'["mux"][n].id,
                      NEW i \in Nat, NEW j \in Nat,
                      Holds(Stream("mux")'[i], m), Holds(Stream("mux")'[j], n)
               PROVE  i < j
    BY DEF Succession
  <2>1. m # o
    BY <1>4, <1>8 DEF Gone
  <2>2. n # o
    BY <1>5, <1>6, <1>7
  <2>3. Succession
    BY DEF Cross
  <2> QED BY <1>4, <1>5, <1>6, <2>1, <2>2, <2>3 DEF Succession
<1> QED BY <1>10, <1>11, <1>12, <1>13, <1>14 DEF Cross

-----------------------------------------------------------------------------
(* Cross holds at the start, and bounds the karma.                         *)

LEMMA CrossInit == ASSUME Init PROVE Cross
<1>1. \A t \in Side, i \in Nat : Stream(t)[i] = NoPacket
  BY Sides DEF Init, Stream, StreamOf
<1>2. \A t \in Side, o \in Obj : client[t][o] = Unborn
  BY DEF Init
<1>3. "mux" \in Side /\ "demux" \in Side
  BY DEF Side
<1>4. \A t \in Side : Packets(t)
  BY <1>1 DEF Packets, PacketOK, NoPacket, ControlId
<1>5. Connections
  BY <1>2, <1>3, UnbornFields DEF Connections, Pair
<1>6. Mating
  BY <1>2, <1>3, UnbornFields DEF Mating, OpenedOnce
<1>7. Contents
  <2>1. \A t \in Side, o \in Obj : client[t][o].given = <<>> /\ client[t][o].out = <<>>
    BY <1>2, UnbornFields
  <2> QED BY <2>1 DEF Contents
<1>8. Succession
  BY <1>2, <1>3, UnbornFields DEF Succession, Gone
<1> QED BY <1>4, <1>5, <1>6, <1>7, <1>8 DEF Cross

\* Every client is an end of a connection.
LEMMA OtherEnd ==
    ASSUME Types, Mating, NEW s \in Side, NEW o \in Obj, client[s][o].life # "unborn"
    PROVE  \E x \in {None} \cup Obj : Joint(s, o, x)
<1>1. CASE s = "mux" /\ \E d \in Obj : client["demux"][d].mate = o
  BY <1>1, Named DEF Joint, Pair
<1>2. CASE s = "mux" /\ \A d \in Obj : client["demux"][d].mate # o
  BY <1>2 DEF Joint, Pair
<1>3. CASE s = "demux"
  <2> DEFINE m == client["demux"][o].mate
  <2>1. m \in {None} \cup Obj
    BY <1>3, TypeFacts, RecFacts
  <2>2. m # None /\ client["mux"][m].life # "unborn"
    BY <1>3 DEF Mating
  <2>3. Joint(s, o, m)
    BY <1>3, <2>1, <2>2, Named DEF Joint, Pair
  <2> QED BY <2>1, <2>3
<1> QED BY <1>1, <1>2, <1>3 DEF Side

\* What one end sends is limited by the credit it got, and what the other end
\* gives by what it has written.
LEMMA CreditBounds ==
    ASSUME NEW c \in ClientRec, NEW y \in ClientRec, NEW f, NEW g, NEW o, NEW x,
           ClientOK(c), ClientOK(y), Half(f, o, c, y), Half(g, x, y, c)
    PROVE  /\ c.rkarma <= ClientKarma /\ c.wkarma <= ClientKarma
           /\ c.granted <= ClientKarma + Credit(y)
<1>1. /\ c.taken \in Nat /\ c.granted \in Nat /\ Received(c) \in Nat /\ Credit(c) \in Nat
      /\ y.taken \in Nat /\ y.granted \in Nat /\ Received(y) \in Nat /\ Credit(y) \in Nat
      /\ Len(c.given) \in Nat /\ Len(c.out) \in Nat /\ Len(y.given) \in Nat /\ Len(y.out) \in Nat
      /\ c.wkarma \in Nat /\ y.wkarma \in Nat
  BY CountFacts, RecFacts
<1>2. /\ Received(y) <= c.taken /\ Received(c) <= y.taken
      /\ Credit(y) <= c.granted /\ Credit(c) <= y.granted
  BY DEF Half, Units, Grants
<1>3. /\ Credit(c) = c.wkarma + c.taken /\ Credit(y) = y.wkarma + y.taken
      /\ Received(c) = Len(c.given) + Len(c.out) /\ Received(y) = Len(y.given) + Len(y.out)
  BY DEF Credit, Received
<1>4. /\ c.rkarma \in {End} \cup Nat /\ y.rkarma \in {End} \cup Nat /\ Credible(c) /\ Credible(y)
  BY RecFacts DEF ClientOK
<1>5. /\ c.granted <= ClientKarma + Len(c.given) /\ y.granted <= ClientKarma + Len(y.given)
      /\ c.rkarma = End \/ (c.rkarma \in Nat /\ c.granted + c.rkarma <= ClientKarma + Len(c.given))
  <2>2. c.granted <= ClientKarma + Len(c.given) /\ y.granted <= ClientKarma + Len(y.given)
    BY <1>1, <1>4, CredibleBound
  <2>3. c.rkarma = End \/ (c.rkarma \in Nat /\ c.granted + c.rkarma <= ClientKarma + Len(c.given))
    BY <1>4 DEF Credible
  <2> QED BY <2>2, <2>3
<1> DEFINE lc == Len(c.given)
           mc == Len(c.out)
           ly == Len(y.given)
           my == Len(y.out)
<1>6. /\ lc \in Nat /\ mc \in Nat /\ ly \in Nat /\ my \in Nat
      /\ Received(c) = lc + mc /\ Received(y) = ly + my
      /\ c.granted <= ClientKarma + lc /\ y.granted <= ClientKarma + ly
      /\ c.rkarma = End \/ (c.rkarma \in Nat /\ c.granted + c.rkarma <= ClientKarma + lc)
  BY <1>1, <1>3, <1>5
<1> HIDE DEF lc, mc, ly, my
<1>7. lc <= y.taken /\ ly <= c.taken
  <2>1. lc + mc <= y.taken /\ ly + my <= c.taken
    BY ONLY <1>2, <1>6
  <2>2. /\ lc \in Nat /\ mc \in Nat /\ ly \in Nat /\ my \in Nat
        /\ y.taken \in Nat /\ c.taken \in Nat
    BY ONLY <1>1, <1>6
  <2> QED BY ONLY <2>1, <2>2
<1>11. Credit(c) = c.wkarma + c.taken /\ Credit(y) = y.wkarma + y.taken
  BY <1>3
<1>12. /\ c.wkarma \in Nat /\ c.taken \in Nat /\ y.granted \in Nat /\ Credit(c) \in Nat
       /\ y.taken \in Nat /\ y.wkarma \in Nat /\ c.granted \in Nat /\ ClientKarma \in Nat
       /\ lc \in Nat /\ ly \in Nat /\ Credit(y) \in Nat
  BY <1>1, <1>6, Numbers
<1>13. Credit(c) <= y.granted /\ y.granted <= ClientKarma + ly /\ c.granted <= ClientKarma + lc
  BY <1>2, <1>6
<1>8. c.wkarma <= ClientKarma
  BY <1>7, <1>11, <1>12, <1>13
<1>9. c.granted <= ClientKarma + Credit(y)
  BY <1>7, <1>11, <1>12, <1>13
<1>10. c.rkarma <= ClientKarma
  <2>1. CASE c.rkarma = End
    BY <2>1, Numbers DEF End
  <2>2. CASE c.rkarma \in Nat /\ c.granted + c.rkarma <= ClientKarma + lc
    <3>1. Credit(y) <= c.granted
      BY <1>2
    <3> QED BY <1>7, <1>11, <1>12, <2>2, <3>1
  <2> QED BY <1>6, <2>1, <2>2
<1> QED BY <1>8, <1>9, <1>10

LEMMA KarmaBounds ==
    ASSUME Types, \A t \in Side : Local(t), Cross, NEW s \in Side, NEW o \in Obj
    PROVE  /\ client[s][o].rkarma <= ClientKarma /\ client[s][o].wkarma <= ClientKarma
           /\ \A i \in Nat : \A e \in AcksOf(Stream(s)[i], o) : e.karma <= ClientKarma
<1> DEFINE c == client[s][o]
<1>1. \A t \in Side, y \in Obj : client[t][y] \in ClientRec /\ ClientOK(client[t][y])
  BY TypeFacts DEF Local, Clients
<1>2. CASE c.life = "unborn"
  <2>1. c.rkarma = 0 /\ c.wkarma = 0
    BY <1>1, <1>2, UnbornFields DEF ClientOK
  <2>2. \A i \in Nat : AcksOf(Stream(s)[i], o) = {}
    BY <1>2, NothingOfUnborn DEF Holds
  <2> QED BY <2>1, <2>2, Numbers
<1>3. CASE c.life # "unborn"
  <2>1. PICK x \in {None} \cup Obj : Joint(s, o, x)
    BY <1>3, OtherEnd DEF Cross
  <2> DEFINE y == Rec(Peer(s), x)
  <2>2. Rec(s, o) = c /\ y \in ClientRec /\ ClientOK(y)
    <3>1. Peer(s) \in Side /\ None \notin Obj
      BY Sides, Named
    <3>2. ClientOK(y)
      BY <1>1, <3>1, UnbornOK DEF Rec
    <3> QED BY <3>1, <3>2, RecType DEF Rec
  <2>3. Half(Stream(s), o, c, y) /\ Half(Stream(Peer(s)), x, y, c)
    BY <2>1, <2>2, FromEither DEF Cross, Halves
  <2>4. c \in ClientRec /\ ClientOK(c)
    BY <1>1
  <2>5. \A i \in Nat : Stream(s)[i] \in AnyPacket
    BY StreamType
  <2> HIDE DEF c, y
  <2>6. c.rkarma <= ClientKarma /\ c.wkarma <= ClientKarma /\ c.granted <= ClientKarma + Credit(y)
    BY <2>2, <2>3, <2>4, CreditBounds
  <2>7. ASSUME NEW i \in Nat, NEW e \in AcksOf(Stream(s)[i], o) PROVE e.karma <= ClientKarma
    <3>1. e \in Entry
      BY <2>5 DEF AcksOf, AnyPacket
    <3>2. CASE e.karma = End
      BY <3>2, Numbers DEF End
    <3>3. CASE e.karma # End
      <4>1. Credit(y) + e.karma <= e.granted /\ e.granted <= c.granted
        BY <2>3, <3>3 DEF Half, Grants
      <4>2. e.karma \in Nat /\ e.granted \in Nat /\ c.granted \in Nat /\ Credit(y) \in Nat
        BY <2>2, <2>4, <3>1, <3>3, CountFacts DEF Entry
      <4> QED BY <2>6, <4>1, <4>2, Numbers
    <3> QED BY <3>2, <3>3
  <2> QED BY <2>6, <2>7 DEF c
<1> QED BY <1>2, <1>3

-----------------------------------------------------------------------------
(* Every step keeps the invariant.                                         *)

LEMMA LocalBoth ==
    ASSUME \A t \in Side : Local(t), NEW s \in Side, Local(s)',
           \A t \in Side : t # s => SameSide(t)
    PROVE  \A t \in Side : Local(t)'
BY LocalElsewhere

LEMMA KeptQuiet ==
    ASSUME IInv, NEW s \in Side,
           \/ SkipDead(s) \/ Dump(s) \/ Stall(s) \/ EnterClientw(s) \/ ClientBlocked(s)
           \/ LeaveMainr(s) \/ MainWritable(s) \/ LinkReplaced(s) \/ MainEvent(s)
           \/ \E o \in Obj : ConnectLate(s, o)
    PROVE  IInv'
<1>1. Types /\ (\A t \in Side : Local(t)) /\ Cross
  BY DEF IInv
<1>2. Types'
  BY <1>1, TypesQuiet
<1>3. Local(s)'
  BY <1>1, LocalQuiet, LocalSkipDead
<1>4. \A t \in Side : Local(t)'
  BY <1>1, <1>3, OtherSide, LocalBoth
<1>5. Cross'
  BY <1>1, <1>2, CrossQuiet, CrossDump
<1> QED BY <1>2, <1>4, <1>5 DEF IInv

LEMMA KeptMainw ==
    ASSUME IInv, NEW s \in Side,
           \/ GrabControl(s)
           \/ \E o \in Obj : GrabEnd(s, o) \/ \E k \in 0 .. PacketSize : GrabData(s, o, k)
    PROVE  IInv'
<1>1. Types /\ (\A t \in Side : Local(t)) /\ Cross
  BY DEF IInv
<1>2. CASE GrabControl(s)
  <2>1. failed' = "no"
    BY <1>1, <1>2, ControlSound, KarmaBounds
  <2>2. Types'
    BY <1>1, <1>2, <2>1, TypesGrabControl DEF Local
  <2>3. PICK n, now, pk : ControlGrabbed(s, n, now, pk)
    BY <1>1, <1>2, <2>1, GrabControlShort
  <2>4. \A t \in Side : Local(t)'
    BY <1>1, <2>3, LocalGrabControl, LocalBoth
  <2>5. Cross'
    BY <1>1, <2>2, <2>3, CrossGrabControl
  <2> QED BY <2>2, <2>4, <2>5 DEF IInv
<1>3. ASSUME NEW o \in Obj, GrabEnd(s, o) PROVE IInv'
  <2>1. Types'
    BY <1>1, <1>3, TypesGrabEnd
  <2>2. \A t \in Side : Local(t)'
    BY <1>1, <1>3, LocalGrabEnd, LocalBoth
  <2>3. Cross'
    BY <1>1, <1>3, <2>1, CrossDisconnects
  <2> QED BY <2>1, <2>2, <2>3 DEF IInv
<1>4. ASSUME NEW o \in Obj, NEW k \in 0 .. PacketSize, GrabData(s, o, k) PROVE IInv'
  <2>1. DataGrabbed(s, o, k)
    BY <1>1, <1>4, GrabDataShort
  <2>2. Types'
    BY <1>1, <2>1, TypesGrabData
  <2>3. \A t \in Side : Local(t)'
    BY <1>1, <2>1, LocalGrabData, LocalBoth
  <2>4. Cross'
    BY <1>1, <2>1, <2>2, CrossGrabData
  <2> QED BY <2>2, <2>3, <2>4 DEF IInv
<1> QED BY <1>2, <1>3, <1>4

LEMMA KeptClientw ==
    ASSUME IInv, NEW s \in Side,
           ClientWriteFails(s) \/ \E k \in 1 .. ClientKarma : ClientWrite(s, k)
    PROVE  IInv'
<1>1. Types /\ (\A t \in Side : Local(t)) /\ Cross
  BY DEF IInv
<1>2. CASE ClientWriteFails(s)
  <2>1. Types'
    BY <1>1, <1>2, TypesClientWriteFails
  <2>2. \A t \in Side : Local(t)'
    BY <1>1, <1>2, LocalClientWriteFails, LocalBoth
  <2>3. cw[s] \in Obj /\ CanUse(client[s][cw[s]])
    <3>1. cw[s] # None /\ ~out_due[s] /\ cw[s] \in {None} \cup Obj
      BY <1>1, <1>2, TypeFacts DEF ClientWriteFails
    <3> QED BY <1>1, <3>1 DEF Local, Busy
  <2>4. Cross'
    BY <1>1, <1>2, <2>1, <2>3, CrossDisconnects
  <2> QED BY <2>1, <2>2, <2>4 DEF IInv
<1>3. ASSUME NEW k \in 1 .. ClientKarma, ClientWrite(s, k) PROVE IInv'
  <2>1. Types'
    BY <1>1, <1>3, TypesClientWrite DEF Local
  <2>2. PICK o, r : ClientWritten(s, o, k, r)
    BY <1>1, <1>3, ClientWriteShort DEF Local
  <2>3. \A t \in Side : Local(t)'
    BY <1>1, <2>2, LocalClientWritten, LocalBoth
  <2>4. Cross'
    BY <1>1, <2>1, <2>2, CrossWritten
  <2> QED BY <2>1, <2>3, <2>4 DEF IInv
<1> QED BY <1>2, <1>3

LEMMA KeptReadPacket ==
    ASSUME IInv, NEW s \in Side, NEW crosses \in BOOLEAN, ReadPacket(s, crosses)
    PROVE  IInv'
<1>1. Types /\ (\A t \in Side : Local(t)) /\ Cross
  BY DEF IInv
<1>2. Types'
  BY <1>1, TypesReadPacket
<1>3. Local(s)'
  BY <1>1, LocalReadPacket
<1>4. \A t \in Side : t # s => SameSide(t)
  BY <1>1, OtherSideEvents
<1>5. \A t \in Side : Local(t)'
  BY <1>1, <1>3, <1>4, LocalBoth
<1>6. Cross'
  BY <1>1, <1>2, CrossReadPacket
<1> QED BY <1>2, <1>5, <1>6 DEF IInv

LEMMA KeptReadEntry ==
    ASSUME IInv, NEW s \in Side, ReadEntry(s)
    PROVE  IInv'
<1> DEFINE e == Head(rin[s].acks)
<1>1. Types /\ (\A t \in Side : Local(t)) /\ Cross
  BY DEF IInv
<1>2. rin[s].id = ControlId /\ EntryDone(s) /\ AtMainr(s) /\ CanGet(s, e.id)
  BY DEF ReadEntry
<1>3. UNCHANGED <<ack_due, wout, link, reading, cw, out_due, pending, failed>>
  BY DEF ReadEntry, linkVars
<1>4. rin[s].acks # <<>> /\ e \in Entry /\ ~Unexpected(s, e.id)
  BY <1>1, <1>2, EntryFound
<1>5. Types'
  BY <1>1, <1>4, TypesReadEntry DEF Local
<1>6. PICK t \in GetClient(s, e.id, e.from) :
         \/ Credited(s, t[1], t[2], e.karma)
         \/ e.karma = End /\ EndAnnounced(s, t[1], t[2])
  BY <1>4 DEF ReadEntry
<1>7. e = Head(rin[s].acks)
  OBVIOUS
<1> HIDE DEF e
<1>8. PICK o, c : t = <<o, c>> /\ Got(s, e.id, e.from, o, c)
  <2>1. e.id \in 1 .. MaxId /\ e.from \in Obj
    BY <1>4 DEF Entry
  <2> QED BY <1>1, <1>2, <1>4, <1>6, <2>1, GetClientShort
<1>9. Credited(s, o, c, e.karma) \/ (e.karma = End /\ EndAnnounced(s, o, c))
  BY <1>6, <1>8
<1>10. CASE Credited(s, o, c, e.karma)
  <2>1. e.karma \in {End} \cup Nat
    BY <1>4 DEF Entry
  <2>2. \A z \in Side : Local(z)'
    <3>1. Local(s)' /\ \A z \in Side : z # s => SameSide(z)
      BY <1>1, <1>2, <1>3, <1>8, <1>10, <2>1, LocalCredited
    <3> QED BY <1>1, <3>1, LocalBoth
  <2>3. Cross'
    BY <1>1, <1>2, <1>3, <1>5, <1>7, <1>8, <1>10, CrossCredited
  <2> QED BY <1>5, <2>2, <2>3 DEF IInv
<1>11. CASE e.karma = End /\ EndAnnounced(s, o, c)
  <2>2. \A z \in Side : Local(z)'
    <3>1. Local(s)' /\ \A z \in Side : z # s => SameSide(z)
      BY <1>1, <1>2, <1>3, <1>8, <1>11, LocalEndAnnounced
    <3> QED BY <1>1, <3>1, LocalBoth
  <2>3. Cross'
    BY <1>1, <1>2, <1>3, <1>5, <1>7, <1>8, <1>11, CrossEndAnnounced
  <2> QED BY <1>5, <2>2, <2>3 DEF IInv
<1> QED BY <1>9, <1>10, <1>11

LEMMA KeptReadData ==
    ASSUME IInv, NEW s \in Side, ReadData(s)
    PROVE  IInv'
<1> DEFINE p == rin[s]
           x == rin[s].data[1][1]
<1>1. Types /\ (\A t \in Side : Local(t)) /\ Cross
  BY DEF IInv
<1>2. /\ p # NoPacket /\ p.id # ControlId /\ AtMainr(s) /\ CanGet(s, p.id)
      /\ rin' = [rin EXCEPT ![s] = NoPacket]
      /\ UNCHANGED <<write_q, karma_q, ack_due, in_mainw, wout, link, reading, out_due, pending>>
  BY DEF ReadData, linkVars
<1>3. /\ p.data \in Seq(Obj \X (Nat \ {0})) /\ x \in Obj /\ ~Unexpected(s, p.id)
      /\ DataPacket(client[Peer(s)], p)
  BY <1>1, <1>2, DataFound
<1>4. p.id \in 1 .. MaxId /\ PacketOK(client[Peer(s)], p)
  <2>1. Peer(s) \in Side /\ p \in AnyPacket
    BY <1>1, Sides, TypeFacts
  <2> QED BY <1>1, <1>3, <2>1, DataFrom DEF Local, PacketOK
<1>5. PICK t \in GetClient(s, p.id, x) : Buffered(s, t, p.data)
  BY <1>3 DEF ReadData
<1>6. PICK o, c : t = <<o, c>> /\ Got(s, p.id, x, o, c)
  <2> HIDE DEF p, x
  <2> QED BY <1>1, <1>2, <1>3, <1>4, <1>5, GetClientShort
<1>7. Buffered(s, <<o, c>>, p.data)
  BY <1>5, <1>6
<1>8. failed' # "no_room"
  <2>1. Len(c.out) + Len(p.data) <= ClientKarma /\ c \in ClientRec
    <3>1. Fits(s, p, x, o, c)
      BY Zenon, <1>1, <1>2, <1>6, UnitsFit
    <3> HIDE DEF p, x
    <3>2. Met(s, p.id, x, o, c) /\ Len(c.out) + Len(p.data) <= ClientKarma
      BY ONLY <3>1 DEF Fits
    <3> QED BY ONLY Zenon, <3>2, MetAlive
  <2> DEFINE m == Len(c.out)
             n == Len(p.data)
  <2>2. m \in Nat /\ n \in Nat /\ m + n <= ClientKarma
    BY <1>3, <2>1, CountFacts, LenProperties
  <2> HIDE DEF m, n
  <2>3. ~(ClientKarma - m < n)
    BY <2>2, Numbers
  <2>4. failed' = failed
    BY <1>7, <2>3 DEF Buffered, m, n
  <2> QED BY SMTT(40), <1>2, <2>4 DEF AtMainr, Returned, Turn
<1>9. Types'
  BY <1>1, <1>3, <1>4, <1>8, Sides, TypesReadData DEF Local
<1>10. Local(s)' /\ \A z \in Side : z # s => SameSide(z)
  <2> HIDE DEF p, x
  <2> QED BY <1>1, <1>2, <1>3, <1>6, <1>7, <1>8, LocalBuffered
<1>11. \A z \in Side : Local(z)'
  BY <1>1, <1>10, LocalBoth
<1>12. Cross'
  BY <1>1, <1>2, <1>6, <1>7, <1>9, CrossBuffered
<1> QED BY <1>9, <1>11, <1>12 DEF IInv

LEMMA KeptEvents ==
    ASSUME IInv, NEW s \in Side,
           \/ AcceptEvent(s) \/ Free(s)
           \/ \E batch \in SUBSET ({Main, Listener} \cup Obj) : Wait(s, batch)
           \/ \E o \in Obj : ConnectFails(s, o) \/ \E flags : ClientEvent(s, o, flags)
    PROVE  IInv'
<1>1. Types /\ (\A t \in Side : Local(t)) /\ Cross
  BY DEF IInv
<1>2. CASE AcceptEvent(s)
  <2>1. PICK o \in Obj, id \in 1 .. MaxId : Accepted(s, o, id)
    BY <1>1, <1>2, AcceptShort
  <2>2. Types'
    BY <1>1, <2>1, TypesAccepted
  <2>3. Local(s)'
    BY <1>1, <2>1, LocalAccepted
  <2>4. \A t \in Side : t # s => SameSide(t)
    BY <1>1, <2>1, OtherSideEvents
  <2>5. \A t \in Side : Local(t)'
    BY <1>1, <2>3, <2>4, LocalBoth
  <2>6. Cross'
    BY <1>1, <2>1, <2>2, CrossAccepted
  <2> QED BY <2>2, <2>5, <2>6 DEF IInv
<1>3. CASE Free(s)
  <2>1. Types' /\ Local(s)'
    BY <1>1, <1>3, TypesFree, LocalFree
  <2>2. \A t \in Side : t # s => SameSide(t)
    BY <1>1, <1>3, OtherSideEvents
  <2>3. \A t \in Side : Local(t)'
    BY <1>1, <2>1, <2>2, LocalBoth
  <2>4. Cross'
    BY <1>1, <1>3, <2>1, CrossFree
  <2> QED BY <2>1, <2>3, <2>4 DEF IInv
<1>4. ASSUME NEW batch \in SUBSET ({Main, Listener} \cup Obj), Wait(s, batch) PROVE IInv'
  <2>1. Types' /\ Local(s)'
    BY <1>1, <1>4, TypesWait, LocalWait
  <2>2. \A t \in Side : t # s => SameSide(t)
    BY <1>1, <1>4, OtherSideEvents
  <2>3. \A t \in Side : Local(t)'
    BY <1>1, <2>1, <2>2, LocalBoth
  <2>4. Cross'
    BY <1>1, <1>4, <2>1, CrossQuiet
  <2> QED BY <2>1, <2>3, <2>4 DEF IInv
<1>5. ASSUME NEW o \in Obj, ConnectFails(s, o) PROVE IInv'
  <2>1. Types' /\ Local(s)'
    BY <1>1, <1>5, TypesConnectFails, LocalConnectFails
  <2>2. \A t \in Side : t # s => SameSide(t)
    BY <1>1, <1>5, OtherSideEvents
  <2>3. \A t \in Side : Local(t)'
    BY <1>1, <2>1, <2>2, LocalBoth
  <2>4. Cross'
    BY <1>1, <1>5, <2>1, CrossDisconnects
  <2> QED BY <2>1, <2>3, <2>4 DEF IInv
<1>6. ASSUME NEW o \in Obj, NEW flags, ClientEvent(s, o, flags) PROVE IInv'
  <2>1. Types' /\ Local(s)'
    BY <1>1, <1>6, TypesClientEvent, LocalClientEvent
  <2>2. \A t \in Side : t # s => SameSide(t)
    BY <1>1, <1>6, OtherSideEvents
  <2>3. \A t \in Side : Local(t)'
    BY <1>1, <2>1, <2>2, LocalBoth
  <2>4. Cross'
    BY <1>1, <1>6, <2>1, CrossClientEvent
  <2> QED BY <2>1, <2>3, <2>4 DEF IInv
<1> QED BY <1>2, <1>3, <1>4, <1>5, <1>6

LEMMA KeptIdle ==
    ASSUME IInv, UNCHANGED vars
    PROVE  IInv'
<1>1. Types /\ (\A t \in Side : Local(t)) /\ Cross
  BY DEF IInv
<1>2. Types'
  BY <1>1 DEF Types, vars, linkVars, runVars
<1>3. \A t \in Side : SameSide(t)
  BY DEF SameSide, vars, linkVars, runVars
<1>4. \A t \in Side : Local(t)'
  BY <1>1, <1>3, LocalElsewhere
<1>5. Cross'
  <2>1. "mux" \in Side
    BY DEF Side
  <2> QED BY <1>1, <1>2, <2>1, CrossQuiet
<1> QED BY <1>2, <1>4, <1>5 DEF IInv

LEMMA IInvInit == ASSUME Init PROVE IInv
BY TypesInit, LocalInit, CrossInit DEF IInv

LEMMA IInvStep == ASSUME IInv, [Next]_vars PROVE IInv'
<1>1. CASE UNCHANGED vars
  BY <1>1, KeptIdle
<1>2. ASSUME NEW s \in Side, Mainw(s) PROVE IInv'
  BY <1>2, KeptQuiet, KeptMainw DEF Mainw
<1>3. ASSUME NEW s \in Side, Clientw(s) PROVE IInv'
  BY <1>3, KeptQuiet, KeptClientw DEF Clientw
<1>4. ASSUME NEW s \in Side, Mainr(s) PROVE IInv'
  BY <1>4, KeptQuiet, KeptReadPacket, KeptReadEntry, KeptReadData DEF Mainr
<1>5. ASSUME NEW s \in Side, Events(s) PROVE IInv'
  BY <1>5, KeptQuiet, KeptEvents DEF Events
<1>6. ASSUME NEW s \in Side, NEW batch \in SUBSET ({Main, Listener} \cup Obj), Wait(s, batch)
      PROVE  IInv'
  BY <1>6, KeptEvents
<1> QED BY <1>1, <1>2, <1>3, <1>4, <1>5, <1>6 DEF Next

\* The inductive invariant holds of every reachable state, for any numbers of
\* clients and ids, any sizes of out_buf, packets and link, and any environment.
THEOREM Inductive == Spec => []IInv
<1> QED BY IInvInit, IInvStep, PTL DEF Spec
-----------------------------------------------------------------------------
(* What follows from the invariant.                                        *)

\* "No room for incoming packet (karma error)" is never reached: what mainr reads
\* for a client always fits in its out_buf.
THEOREM RoomAlways == Spec => []RoomForPacket
<1>1. IInv => RoomForPacket
  BY DEF IInv, Types, RoomForPacket
<1> QED BY <1>1, Inductive, PTL

\* The assertions of write_ack hold whenever it runs: there is something to
\* acknowledge, each client in the karma list has used ACK_THRESHOLD at least or
\* has ended, and one that the other side has closed has ended.
THEOREM AssertionsHold == Spec => []AckAssertions
<1>1. IInv => AckAssertions
  BY DEF IInv, Types, AckAssertions
<1> QED BY <1>1, Inductive, PTL

\* get_client of the demux opens one connection for a client of the mux, however
\* its packets arrive.
THEOREM OneOpening == Spec => []OpenedOnce
<1>1. IInv => OpenedOnce
  BY DEF IInv, Cross, Mating
<1> QED BY <1>1, Inductive, PTL

LEMMA Sequenced ==
    ASSUME Types, Contents, NEW s \in Side, NEW o \in Obj
    PROVE  LET received == client[s][o].given \o client[s][o].out
           IN \A i \in DOMAIN received : received[i][2] = i /\ Mates(s, o, received[i][1])
<1> DEFINE g == client[s][o].given
           u == client[s][o].out
           n == Len(g)
           m == Len(u)
           T == Obj \X Nat
<1>1. g \in Seq(T) /\ u \in Seq(T)
  BY TypeFacts, RecFacts
<1>2. n \in Nat /\ m \in Nat
  BY <1>1, LenProperties
<1>3. /\ DOMAIN (g \o u) = 1 .. n + m
      /\ \A i \in 1 .. n + m : (g \o u)[i] = IF i <= n THEN g[i] ELSE u[i - n]
  <2>1. g \o u \in Seq(T) /\ Len(g \o u) = n + m
    BY <1>1, ConcatProperties
  <2>2. DOMAIN (g \o u) = 1 .. n + m
    BY <2>1, LenProperties
  <2>3. \A i \in 1 .. n + m : (g \o u)[i] = IF i <= n THEN g[i] ELSE u[i - n]
    BY <1>1, ConcatProperties
  <2> QED BY <2>2, <2>3
<1>4. /\ \A i \in 1 .. n : g[i][2] = i /\ Mates(s, o, g[i][1])
      /\ \A i \in 1 .. m : u[i][2] = n + i /\ Mates(s, o, u[i][1])
  BY DEF Contents
<1> HIDE DEF g, u, n, m
<1>5. ASSUME NEW i \in 1 .. n + m
      PROVE  (g \o u)[i][2] = i /\ Mates(s, o, (g \o u)[i][1])
  <2>1. CASE i <= n
    <3>1. i \in 1 .. n /\ (g \o u)[i] = g[i]
      BY <1>2, <1>3, <2>1
    <3> QED BY <1>4, <3>1
  <2>2. CASE ~(i <= n)
    <3>1. i - n \in 1 .. m /\ (g \o u)[i] = u[i - n] /\ n + (i - n) = i
      BY <1>2, <1>3, <2>2
    <3> QED BY <1>4, <3>1
  <2> QED BY <2>1, <2>2
<1> QED BY <1>3, <1>5 DEF g, u

\* What get_client, write_cbuf and clientw have brought to a client is what its
\* mate sent, from the start and in order, and nothing else.
THEOREM InOrder == Spec => []DataInOrder
<1>1. IInv => DataInOrder
  BY Sequenced DEF IInv, Cross, DataInOrder
<1> QED BY <1>1, Inductive, PTL

LEMMA PacketKind ==
    ASSUME Types, Cross, NEW s \in Side
    PROVE  /\ rin[s].data # <<>> => rin[s] # NoPacket /\ rin[s].id # ControlId
           /\ rin[s].acks # <<>> => rin[s].id = ControlId
<1> DEFINE p == rin[s]
           cs == client[Peer(s)]
<1>1. Stream(Peer(s))[0] = p
  BY StreamFirst
<1>2. PacketOK(cs, p)
  BY <1>1, Sides DEF Cross, Packets
<1>3. \A x \in Obj : cs[x].id \in 0 .. MaxId
  BY Sides, TypeFacts, RecFacts
<1>4. p.data \in Seq(Obj \X (Nat \ {0}))
  BY TypeFacts DEF AnyPacket
<1> HIDE DEF p, cs
<1>5. ASSUME p.data # <<>> PROVE p # NoPacket /\ p.id # ControlId
  <2>1. p # NoPacket /\ ~ControlPacket(cs, p)
    BY <1>5 DEF NoPacket, ControlPacket
  <2>2. p.id = cs[p.data[1][1]].id
    BY <1>2, <2>1 DEF PacketOK, DataPacket
  <2>3. p.data[1] \in Obj \X (Nat \ {0})
    BY <1>4, <1>5, EmptySeq, LenProperties
  <2>4. p.id \in 0 .. MaxId
    BY <1>3, <2>2, <2>3
  <2> QED BY <2>1, <2>4, Numbers DEF ControlId
<1>6. ASSUME p.acks # <<>> PROVE p.id = ControlId
  BY SMTT(40), <1>2, <1>6 DEF PacketOK, DataPacket, ControlPacket, NoPacket
<1> QED BY <1>5, <1>6 DEF p

LEMMA WhoseData ==
    ASSUME IInv, NEW s \in Side, NEW i \in DOMAIN rin[s].data
    PROVE  /\ ~Unexpected(s, rin[s].id)
           /\ Known(s, rin[s].id) => Mates(s, table[s][rin[s].id], rin[s].data[i][1])
<1> DEFINE p == rin[s]
           x == p.data[1][1]
<1>1. Types /\ (\A t \in Side : Local(t)) /\ Cross
  BY DEF IInv
<1>2. p \in AnyPacket /\ Stream(Peer(s))[0] = p
  BY <1>1, TypeFacts, StreamFirst
<1>3. p # NoPacket /\ p.id # ControlId /\ p.data \in Seq(Obj \X (Nat \ {0}))
  <2>1. p.data # <<>>
    OBVIOUS
  <2>2. p.data \in Seq(Obj \X (Nat \ {0}))
    BY <1>2 DEF AnyPacket
  <2> QED BY <1>1, <2>1, <2>2, PacketKind
<1>4. /\ DataPacket(client[Peer(s)], p) /\ x \in Obj /\ p.id = client[Peer(s)][x].id
      /\ client[Peer(s)][x].life # "unborn" /\ Holds(p, x) /\ ~Unexpected(s, p.id)
  BY <1>1, <1>3, DataFound
<1>5. p.data[i][1] = x
  <2>1. i \in 1 .. Len(p.data)
    BY SMTT(40), <1>3, LenProperties
  <2>2. p.data[i] = <<x, p.data[1][2] + i - 1>>
    BY <1>4, <2>1 DEF DataPacket
  <2> QED BY <2>2
<1>6. Known(s, p.id) => Mates(s, table[s][p.id], x)
  <2>1. Holds(Stream(Peer(s))[0], x)
    BY <1>2, <1>4
  <2>3. x \in Obj /\ client[Peer(s)][x].life # "unborn" /\ p.id = client[Peer(s)][x].id
    BY <1>4
  <2> HIDE DEF x, p
  <2>2. \/ \E o \in Obj : table[s][p.id] = o /\ Mates(s, o, x)
        \/ table[s][p.id] = None
    BY SMTT(40), <1>1, <2>1, <2>3, Addressee
  <2> QED BY <2>2 DEF Known
<1> QED BY <1>4, <1>5, <1>6

LEMMA WhoseEntry ==
    ASSUME IInv, NEW s \in Side, NEW i \in DOMAIN rin[s].acks, i = 1
    PROVE  LET e == rin[s].acks[i]
           IN ~Unexpected(s, e.id) /\ (Known(s, e.id) => Mates(s, table[s][e.id], e.from))
<1> DEFINE p == rin[s]
           e == p.acks[1]
<1>1. Types /\ (\A t \in Side : Local(t)) /\ Cross
  BY DEF IInv
<1>2. p \in AnyPacket /\ Stream(Peer(s))[0] = p
  BY <1>1, TypeFacts, StreamFirst
<1>3. p.id = ControlId
  <2>1. p.acks # <<>>
    OBVIOUS
  <2> QED BY <1>1, <2>1, PacketKind
<1>4. e = Head(p.acks)
  BY <1>1, <1>3, EntryFound
<1>5. /\ e \in Entry /\ e.id = client[Peer(s)][e.from].id
      /\ client[Peer(s)][e.from].life # "unborn" /\ Holds(p, e.from) /\ ~Unexpected(s, e.id)
  BY <1>1, <1>3, <1>4, EntryFound
<1>6. e.from \in Obj
  BY <1>5 DEF Entry
<1>7. Known(s, e.id) => Mates(s, table[s][e.id], e.from)
  <2> DEFINE x == e.from
  <2>1. x \in Obj /\ Holds(Stream(Peer(s))[0], x) /\ client[Peer(s)][x].life # "unborn"
        /\ e.id = client[Peer(s)][x].id
    BY <1>2, <1>5, <1>6
  <2> HIDE DEF x
  <2>2. \/ \E o \in Obj : table[s][e.id] = o /\ Mates(s, o, x)
        \/ table[s][e.id] = None
    BY <1>1, <2>1, Addressee
  <2> QED BY <2>2 DEF Known, x
<1> QED BY <1>5, <1>7

\* get_client finds the mate of the client that sent what mainr has read, and
\* the mux always finds one: its "unexpected client" is never reached.
THEOREM AlwaysAddressed == Spec => []Addressed
<1>1. IInv => Addressed
  BY WhoseData, WhoseEntry DEF Addressed
<1> QED BY <1>1, Inductive, PTL
LEMMA SequenceOf ==
    ASSUME NEW S, NEW T, NEW q \in Seq(S), \A i \in 1 .. Len(q) : q[i] \in T
    PROVE  q \in Seq(T)
<1>1. q \in [1 .. Len(q) -> S] /\ Len(q) \in Nat
  BY LenProperties
<1>2. q \in [1 .. Len(q) -> T]
  BY <1>1
<1> QED BY <1>1, <1>2, SeqDef

LEMMA PacketType ==
    ASSUME IInv, NEW s \in Side, NEW i \in Nat
    PROVE  Stream(s)[i] \in Packet
<1> DEFINE p == Stream(s)[i]
<1>1. p \in AnyPacket
  BY StreamType DEF IInv
<1>2. \A o \in Obj : \A e \in AcksOf(p, o) : e.karma <= ClientKarma
  BY KarmaBounds DEF IInv
<1> HIDE DEF p
<1> DEFINE E == [id : 1 .. MaxId, karma : {End} \cup 1 .. ClientKarma, from : Obj, granted : Nat]
           q == p.acks
<1>3. q \in Seq(Entry) /\ p = [id |-> p.id, data |-> p.data, acks |-> q]
      /\ p.id \in ControlId .. MaxId /\ p.data \in Seq(Obj \X (Nat \ {0}))
  BY <1>1 DEF AnyPacket
<1>4. ASSUME NEW j \in 1 .. Len(q) PROVE q[j] \in E
  <2> DEFINE e == q[j]
  <2>1. e \in Entry /\ j \in DOMAIN q
    BY <1>3, LenProperties
  <2>2. e.from \in Obj /\ e \in AcksOf(p, e.from)
    BY <2>1 DEF AcksOf, Entry
  <2>3. e.karma <= ClientKarma
    BY <1>2, <2>2
  <2> HIDE DEF e
  <2>4. e.karma \in {End} \cup 1 .. ClientKarma
    BY <2>1, <2>3, Numbers DEF Entry
  <2>5. e \in E
    BY <2>1, <2>4 DEF Entry
  <2> QED BY <2>5 DEF e
<1>5. q \in Seq(E)
  <2> HIDE DEF q, E
  <2> QED BY <1>3, <1>4, SequenceOf
<1>6. [id |-> p.id, data |-> p.data, acks |-> q] \in Packet
  <2> HIDE DEF q
  <2> QED BY <1>3, <1>5 DEF Packet
<1> QED BY <1>3, <1>6 DEF p

LEMMA AllPacketTypes ==
    ASSUME IInv, NEW s \in Side
    PROVE  rin[s] \in Packet /\ wout[s] \in Packet /\ link[s] \in Seq(Packet)
<1> DEFINE t == Peer(s)
           q == link[t]
           r == link[s]
<1>1. t \in Side /\ Peer(t) = s
  BY Sides
<1>2. Types
  BY DEF IInv
<1>3. q \in Seq(AnyPacket) /\ r \in Seq(AnyPacket)
  BY <1>1, <1>2, TypeFacts
<1>4. /\ Stream(t)[0] = rin[s]
      /\ \A i \in 1 .. Len(r) : Stream(t)[i] = r[i]
      /\ Stream(s)[Len(q) + 1] = wout[s]
  <2>1. \A u \in Side : rin[u] \in AnyPacket /\ wout[u] \in AnyPacket
    BY <1>2, TypeFacts
  <2>2. Stream(t) = StreamOf(rin[s], r, wout[t]) /\ Stream(s) = StreamOf(rin[t], q, wout[s])
    BY <1>1 DEF Stream
  <2> HIDE DEF t, q, r
  <2>3. /\ StreamOf(rin[s], r, wout[t])[0] = rin[s]
        /\ \A i \in 1 .. Len(r) : StreamOf(rin[s], r, wout[t])[i] = r[i]
    BY <1>1, <1>3, <2>1, StreamPoints
  <2>4. StreamOf(rin[t], q, wout[s])[Len(q) + 1] = wout[s]
    BY <1>1, <1>3, <2>1, StreamPoints
  <2> QED BY <2>2, <2>3, <2>4
<1>5. Len(q) + 1 \in Nat /\ 1 .. Len(r) \subseteq Nat
  BY <1>3, LenProperties
<1> HIDE DEF t, q, r
<1>6. rin[s] \in Packet /\ wout[s] \in Packet
  BY <1>1, <1>4, <1>5, PacketType
<1>7. \A i \in 1 .. Len(r) : r[i] \in Packet
  BY <1>1, <1>4, <1>5, PacketType
<1>8. r \in Seq(Packet)
  BY <1>3, <1>7, SequenceOf
<1> QED BY <1>6, <1>8 DEF r

\* A client whose karma is within bounds.
BoundedRec ==
    [life : {"unborn", "live", "burned", "freed"}, id : 0 .. MaxId,
     s : {"closed", "open", "unwatched"}, is_connecting : BOOLEAN,
     is_rdead : BOOLEAN, wkarma : 0 .. ClientKarma, rkarma : End .. ClientKarma,
     out : Seq(Obj \X Nat), taken : Nat, given : Seq(Obj \X Nat),
     granted : Nat, mate : {None} \cup Obj]

LEMMA ClientType ==
    ASSUME IInv, NEW s \in Side, NEW o \in Obj
    PROVE  client[s][o] \in BoundedRec
<1> DEFINE c == client[s][o]
<1>1. c \in ClientRec
  BY TypeFacts DEF IInv
<1>2. c.rkarma <= ClientKarma /\ c.wkarma <= ClientKarma
  BY KarmaBounds DEF IInv
<1> HIDE DEF c
<1>3. c.wkarma \in 0 .. ClientKarma /\ c.rkarma \in End .. ClientKarma
  BY <1>1, <1>2, RecFacts, Numbers DEF End
<1>4. c \in BoundedRec
  BY <1>1, <1>3 DEF ClientRec, BoundedRec
<1> QED BY <1>4 DEF c

\* The types; karma in either direction, in a client or in a packet, stays within
\* CLIENT_KARMA.
THEOREM Typed == Spec => []TypeOK
<1>1. ASSUME IInv PROVE TypeOK
  <2>1. Types
    BY <1>1 DEF IInv
  <2>2. client \in [Side -> [Obj -> ClientRec]] /\ wout \in [Side -> AnyPacket]
        /\ link \in [Side -> Seq(AnyPacket)] /\ rin \in [Side -> AnyPacket]
    BY <2>1 DEF Types
  <2>3. wout \in [Side -> Packet] /\ link \in [Side -> Seq(Packet)] /\ rin \in [Side -> Packet]
    BY <1>1, <2>2, AllPacketTypes
  <2>4. \A s \in Side, o \in Obj : client[s][o] \in BoundedRec
    BY <1>1, ClientType
  <2>5. client \in [Side -> [Obj -> BoundedRec]]
    BY <2>2, <2>4
  <2> QED BY <2>1, <2>3, <2>5 DEF TypeOK, Types, BoundedRec
<1>2. IInv => TypeOK
  BY <1>1
<1> QED BY <1>2, Inductive, PTL
LEMMA PacketsStream ==
    ASSUME Types, NEW s \in Side
    PROVE  LET ps == PacketsTo(Peer(s))
           IN /\ DOMAIN ps = 1 .. Len(link[Peer(s)]) + 2 /\ Len(link[Peer(s)]) \in Nat
              /\ \A i \in DOMAIN ps : ps[i] = Stream(s)[i - 1]
<1> DEFINE q == link[Peer(s)]
           a == rin[Peer(s)]
           b == wout[s]
           n == Len(q)
           T == AnyPacket
<1>1. q \in Seq(T) /\ a \in T /\ b \in T /\ n \in Nat
  BY Sides, TypeFacts
<1>2. PacketsTo(Peer(s)) = (<<a>> \o q) \o <<b>> /\ Stream(s) = StreamOf(a, q, b)
  BY Sides DEF PacketsTo, Stream
<1> HIDE DEF q, a, b, T
<1>3. <<a>> \in Seq(T) /\ <<b>> \in Seq(T) /\ Len(<<a>>) = 1 /\ Len(<<b>>) = 1
      /\ <<a>>[1] = a /\ <<b>>[1] = b
  BY <1>1
<1> DEFINE r == <<a>> \o q
<1>4. /\ r \in Seq(T) /\ Len(r) = 1 + n
      /\ \A i \in 1 .. 1 + n : r[i] = IF i <= 1 THEN a ELSE q[i - 1]
  <2>1. r \in Seq(T) /\ Len(r) = Len(<<a>>) + Len(q)
        /\ \A i \in 1 .. Len(<<a>>) + Len(q) : r[i] = IF i <= Len(<<a>>) THEN <<a>>[i]
                                                      ELSE q[i - Len(<<a>>)]
    BY <1>1, <1>3, ConcatProperties
  <2> HIDE DEF r
  <2>2. \A i \in 1 .. 1 + n : i <= 1 => <<a>>[i] = a
    BY <1>1, <1>3
  <2> QED BY <1>3, <2>1, <2>2
<1> HIDE DEF r
<1> DEFINE ps == r \o <<b>>
<1>5. /\ ps \in Seq(T) /\ Len(ps) = n + 2
      /\ \A i \in 1 .. n + 2 : ps[i] = IF i <= 1 + n THEN r[i] ELSE b
  <2>1. ps \in Seq(T) /\ Len(ps) = Len(r) + Len(<<b>>)
        /\ \A i \in 1 .. Len(r) + Len(<<b>>) : ps[i] = IF i <= Len(r) THEN r[i]
                                                      ELSE <<b>>[i - Len(r)]
    BY <1>3, <1>4, ConcatProperties
  <2> HIDE DEF ps, n
  <2>2. Len(r) + Len(<<b>>) = n + 2
    BY <1>1, <1>3, <1>4
  <2>3. \A i \in 1 .. n + 2 : i <= 1 + n \/ i - (1 + n) = 1
    BY <1>1
  <2> QED BY <1>3, <1>4, <2>1, <2>2, <2>3
<1> HIDE DEF ps
<1>6. DOMAIN ps = 1 .. n + 2
  BY <1>5, LenProperties
<1>7. /\ StreamOf(a, q, b)[0] = a /\ StreamOf(a, q, b)[n + 1] = b
      /\ \A i \in 1 .. n : StreamOf(a, q, b)[i] = q[i]
  BY <1>1, StreamPoints DEF T
<1> HIDE DEF n
<1>8. ASSUME NEW i \in 1 .. n + 2 PROVE ps[i] = StreamOf(a, q, b)[i - 1]
  <2>1. CASE i = 1
    <3>1. ps[i] = a /\ i - 1 = 0
      BY <1>1, <1>4, <1>5, <2>1
    <3> QED BY <1>7, <3>1
  <2>2. CASE i \in 2 .. n + 1
    <3>1. i \in 1 .. 1 + n /\ ~(i <= 1) /\ i <= 1 + n /\ i - 1 \in 1 .. n
      BY <1>1, <2>2
    <3>2. ps[i] = q[i - 1]
      BY <1>4, <1>5, <3>1
    <3> QED BY <1>7, <3>1, <3>2
  <2>3. CASE i = n + 2
    <3>1. ~(i <= 1 + n) /\ i - 1 = n + 1
      BY <1>1, <2>3
    <3> QED BY <1>5, <1>7, <3>1
  <2>4. i = 1 \/ i \in 2 .. n + 1 \/ i = n + 2
    BY <1>1
  <2> QED BY <2>1, <2>2, <2>3, <2>4
<1> QED BY <1>1, <1>2, <1>6, <1>8 DEF ps, r, n, q

LEMMA EntryInStream ==
    ASSUME Types, NEW s \in Side, NEW o \in Obj, NEW e \in EntriesOf(s, o)
    PROVE  LET ps == PacketsTo(Peer(s))
           IN /\ e[1] \in DOMAIN ps /\ e[1] - 1 \in Nat /\ e[1] \in Nat /\ e[2] \in Nat
              /\ ps[e[1]] = Stream(s)[e[1] - 1] /\ e = <<e[1], e[2]>>
              /\ e[2] \in 1 .. Len(ps[e[1]].acks)
              /\ ps[e[1]].acks[e[2]] \in AcksOf(ps[e[1]], o)
<1> DEFINE ps == PacketsTo(Peer(s))
<1>1. PICK i \in DOMAIN ps : e \in {i} \X DOMAIN ps[i].acks /\ ps[e[1]].acks[e[2]].from = o
  BY DEF EntriesOf
<1>2. e = <<e[1], e[2]>> /\ e[1] = i /\ e[2] \in DOMAIN ps[i].acks
  BY <1>1
<1>3. ps[i] = Stream(s)[i - 1] /\ i - 1 \in Nat /\ i \in Nat
  BY PacketsStream
<1>4. ps[i] \in AnyPacket
  BY <1>3, StreamType
<1> HIDE DEF ps
<1>5. e[2] \in 1 .. Len(ps[i].acks)
  <2>1. ps[i].acks \in Seq(Entry)
    BY <1>4 DEF AnyPacket
  <2> QED BY <1>2, <2>1, LenProperties
<1>6. e[2] \in Nat
  BY <1>5
<1>7. ps[i].acks[e[2]] \in AcksOf(ps[i], o)
  BY <1>1, <1>2 DEF AcksOf
<1> QED BY <1>2, <1>3, <1>5, <1>6, <1>7 DEF ps

LEMMA EndInStream ==
    ASSUME Types, NEW s \in Side, NEW o \in Obj, NEW i \in Nat, EndIn(Stream(s)[i], o)
    PROVE  \E e \in EntriesOf(s, o) : PacketsTo(Peer(s))[e[1]].acks[e[2]].karma = End
<1> DEFINE ps == PacketsTo(Peer(s))
           n == Len(link[Peer(s)])
<1>1. n \in Nat /\ DOMAIN ps = 1 .. n + 2 /\ \A k \in DOMAIN ps : ps[k] = Stream(s)[k - 1]
  BY PacketsStream
<1>2. ~(i > n + 1)
  <2>1. ~EndIn(NoPacket, o)
    BY NothingInNoPacket
  <2>2. i > n + 1 => Stream(s)[i] = NoPacket
    <3>1. link[Peer(s)] \in Seq(AnyPacket) /\ rin[Peer(s)] \in AnyPacket /\ wout[s] \in AnyPacket
      BY Sides, TypeFacts
    <3> QED BY <3>1, StreamPoints DEF Stream
  <2> QED BY <2>1, <2>2
<1> HIDE DEF n, ps
<1>3. i + 1 \in DOMAIN ps /\ ps[i + 1] = Stream(s)[i]
  <2>1. i + 1 \in 1 .. n + 2 /\ (i + 1) - 1 = i
    BY <1>1, <1>2
  <2> QED BY <1>1, <2>1
<1>4. PICK a \in AcksOf(Stream(s)[i], o) : a.karma = End
  BY DEF EndIn
<1>5. PICK j \in DOMAIN ps[i + 1].acks : a = ps[i + 1].acks[j]
  BY <1>3, <1>4 DEF AcksOf
<1> DEFINE e == <<i + 1, j>>
<1>6. e[1] = i + 1 /\ e[2] = j
  OBVIOUS
<1>7. a.from = o
  BY <1>4 DEF AcksOf
<1>8. e \in EntriesOf(s, o)
  BY <1>3, <1>5, <1>6, <1>7 DEF EntriesOf, ps
<1> QED BY <1>4, <1>5, <1>6, <1>8 DEF ps

LEMMA EndsHold ==
    ASSUME IInv, NEW s \in Side, NEW o \in Obj, client[s][o].life # "unborn"
    PROVE  \E d \in ClientRec : Ends(Stream(s), o, client[s][o], d)
<1>1. PICK x \in {None} \cup Obj : Joint(s, o, x)
  BY OtherEnd DEF IInv, Cross
<1>2. Halves(s, o, x)
  BY <1>1, FromEither DEF IInv, Cross
<1>3. Rec(s, o) = client[s][o] /\ Rec(Peer(s), x) \in ClientRec
  BY RecType, Sides, Named DEF Rec, IInv
<1> QED BY <1>2, <1>3 DEF Halves, Half

LEMMA CarriesKarma ==
    ASSUME NEW cs, NEW pk, PacketOK(cs, pk), pk.acks # <<>>
    PROVE  ControlPacket(cs, pk)
<1>1. ~DataPacket(cs, pk)
  BY DEF DataPacket
<1>2. pk # NoPacket
  <2>1. NoPacket.acks = <<>>
    BY DEF NoPacket
  <2> QED BY <2>1
<1> QED BY <1>1, <1>2 DEF PacketOK

LEMMA EndAnnouncedLast ==
    ASSUME IInv, NEW s \in Side, NEW o \in Obj, NEW e \in EntriesOf(s, o),
           PacketsTo(Peer(s))[e[1]].acks[e[2]].karma = End
    PROVE  LET ps == PacketsTo(Peer(s))
           IN /\ \A f \in EntriesOf(s, o) : f[1] < e[1] \/ (f[1] = e[1] /\ f[2] <= e[2])
              /\ \A i \in e[1] + 1 .. Len(ps) : \A j \in DOMAIN ps[i].data : ps[i].data[j][1] # o
              /\ client[s][o].rkarma = 0 /\ ~Open(client[s][o])
<1> DEFINE ps == PacketsTo(Peer(s))
           k == e[1] - 1
           c == client[s][o]
<1>1. Types /\ (\A t \in Side : Local(t)) /\ Cross
  BY DEF IInv
<1>2. /\ e[1] \in DOMAIN ps /\ k \in Nat /\ ps[e[1]] = Stream(s)[k] /\ e[1] \in Nat
      /\ e[2] \in 1 .. Len(ps[e[1]].acks) /\ ps[e[1]].acks[e[2]] \in AcksOf(ps[e[1]], o)
  BY <1>1, EntryInStream
<1>3. EndIn(Stream(s)[k], o)
  BY <1>2 DEF EndIn
<1>4. c.life # "unborn"
  <2>1. Holds(Stream(s)[k], o)
    BY <1>2 DEF Holds
  <2> QED BY <1>1, <1>2, <2>1, NothingOfUnborn
<1>5. PICK d \in ClientRec : Ends(Stream(s), o, c, d)
  BY <1>4, EndsHold
<1>6. Done(c) /\ \A j \in Nat : k < j => ~Holds(Stream(s)[j], o)
  BY <1>2, <1>3, <1>5 DEF Ends
<1>7. ControlPacket(client[s], Stream(s)[k])
  <2>1. PacketOK(client[s], Stream(s)[k])
    BY <1>1, <1>2 DEF Cross, Packets
  <2>2. Stream(s)[k].acks # <<>>
    BY <1>2, EmptySeq
  <2> QED BY <2>1, <2>2, CarriesKarma
<1>8. ASSUME NEW f \in EntriesOf(s, o)
      PROVE  f[1] < e[1] \/ (f[1] = e[1] /\ f[2] <= e[2])
  <2>1. /\ f[1] \in Nat /\ f[1] - 1 \in Nat /\ ps[f[1]] = Stream(s)[f[1] - 1] /\ f[2] \in Nat
        /\ f[2] \in 1 .. Len(ps[f[1]].acks) /\ ps[f[1]].acks[f[2]] \in AcksOf(ps[f[1]], o)
    BY <1>1, EntryInStream
  <2>2. Holds(Stream(s)[f[1] - 1], o)
    BY <2>1 DEF Holds
  <2>3. ~(k < f[1] - 1)
    BY <1>6, <2>1, <2>2
  <2>4. f[1] < e[1] \/ f[1] = e[1]
    BY <1>2, <2>1, <2>3
  <2>5. CASE f[1] = e[1]
    <3>1. ps[e[1]].acks[f[2]].from = o /\ ps[e[1]].acks[e[2]].from = o
      BY <1>2, <2>1, <2>5 DEF AcksOf
    <3>2. f[2] = e[2]
      BY ZenonT(40), <1>2, <1>7, <2>1, <2>5, <3>1 DEF ControlPacket
    <3> QED BY <2>1, <2>5, <3>2
  <2> QED BY <2>4, <2>5
<1>9. ASSUME NEW i \in e[1] + 1 .. Len(ps), NEW j \in DOMAIN ps[i].data
      PROVE  ps[i].data[j][1] # o
  <2> DEFINE p == ps[i]
  <2>1. i \in DOMAIN ps /\ i - 1 \in Nat /\ k < i - 1
    <3>1. DOMAIN ps = 1 .. Len(link[Peer(s)]) + 2 /\ Len(link[Peer(s)]) \in Nat
      BY <1>1, PacketsStream
    <3> DEFINE n == Len(link[Peer(s)])
    <3>2. Len(ps) = n + 2
      <4>1. n + 2 \in Nat
        BY <3>1
      <4> QED BY <3>1, <4>1
    <3> HIDE DEF n, ps
    <3> QED BY <1>2, <3>1, <3>2 DEF n
  <2>2. p = Stream(s)[i - 1]
    BY <1>1, <2>1, PacketsStream
  <2>3. p \in AnyPacket /\ PacketOK(client[s], p) /\ ~Holds(p, o)
    BY <1>1, <1>6, <2>1, <2>2, StreamType DEF Cross, Packets
  <2>4. p.data # <<>> /\ p.data \in Seq(Obj \X (Nat \ {0}))
    BY <2>3 DEF AnyPacket
  <2>n. p # NoPacket
    BY <2>4 DEF NoPacket
  <2>5. DataPacket(client[s], p)
    <3> HIDE DEF p
    <3> QED BY <2>3, <2>4, <2>n DEF PacketOK, ControlPacket
  <2>6. j \in 1 .. Len(p.data)
    BY <2>4, LenProperties
  <2> HIDE DEF p
  <2>7. p.data[j][1] = p.data[1][1]
    <3>1. p.data[j] = <<p.data[1][1], p.data[1][2] + j - 1>>
      BY <2>5, <2>6 DEF DataPacket
    <3> QED BY <3>1
  <2>8. p.data[1][1] # o
    BY <2>3, <2>4 DEF Holds, HasData
  <2> QED BY <2>7, <2>8 DEF p
<1> QED BY <1>6, <1>8, <1>9 DEF Done

\* write_ack announces the end of a client once and after everything it was sent,
\* so an id may be used again behind it.
THEOREM EndAlwaysLast == Spec => []EndIsLast
<1>1. IInv => EndIsLast
  BY EndAnnouncedLast DEF EndIsLast
<1> QED BY <1>1, Inductive, PTL

LEMMA Forgotten ==
    ASSUME IInv, NEW s \in Side, NEW o \in Obj, NEW m \in Obj, Mates(s, o, m), Gone(client[s][o])
    PROVE  /\ ~Open(client[Peer(s)][m])
           /\ Gone(client[Peer(s)][m]) \/ \E i \in Nat : EndIn(Stream(s)[i], o)
<1> DEFINE c == client[s][o]
           d == client[Peer(s)][m]
<1>1. Types /\ (\A t \in Side : Local(t)) /\ Cross
  BY DEF IInv
<1>2. Joint(s, o, m)
  <2>1. CASE s = "mux"
    BY <2>1, Named DEF Joint, Pair, Mates, Gone
  <2>2. CASE s = "demux"
    <3>1. c.mate = m /\ m # None
      BY <2>2, Named DEF Mates
    <3>2. client["mux"][m].life # "unborn"
      BY <1>1, <2>2, <3>1 DEF Cross, Mating
    <3> QED BY <2>2, <3>1, <3>2, Named DEF Joint, Pair
  <2> QED BY <2>1, <2>2 DEF Side
<1>3. Rec(s, o) = c /\ Rec(Peer(s), m) = d
  BY Named DEF Rec
<1>4. Ends(Stream(s), o, c, d) /\ Ends(Stream(Peer(s)), m, d, c)
  BY <1>1, <1>2, <1>3, FromEither DEF Halves, Half, Cross
<1>5. ClientOK(c) /\ ClientOK(d) /\ d \in ClientRec
  BY <1>1, Sides, TypeFacts DEF Local, Clients
<1> HIDE DEF c, d
<1>6. Gone(c)
  BY DEF c
<1>7. Done(c)
  BY <1>5, <1>6 DEF ClientOK, Done, Gone
<1>8. Done(d)
  BY <1>4, <1>6 DEF Ends, Heard
<1>9. Heard(d) => Gone(d)
  <2>1. d.life \in {"unborn", "live", "burned", "freed"}
    BY <1>5, RecFacts
  <2>2. ~(d.life = "live" /\ d.is_rdead)
    BY <1>5, <1>8 DEF Done, ClientOK, End
  <2> QED BY <1>8, <2>1, <2>2 DEF Heard, Done, Gone
<1>10. Heard(d) \/ \E i \in Nat : EndIn(Stream(s)[i], o)
  BY <1>4, <1>7 DEF Ends
<1> QED BY <1>8, <1>9, <1>10 DEF Done, d

\* read_ack and write_ack forget a client only when both ends are closed, and the
\* side that does so first has told the other.
THEOREM AlwaysTogether == Spec => []ForgottenTogether
<1>1. ASSUME IInv, NEW s \in Side, NEW o \in Obj, NEW m \in Obj, Mates(s, o, m),
             client[s][o].life \in {"burned", "freed"}
      PROVE  /\ ~Open(client[Peer(s)][m])
             /\ \/ client[Peer(s)][m].life \in {"burned", "freed"}
                \/ \E e \in EntriesOf(s, o) : PacketsTo(Peer(s))[e[1]].acks[e[2]].karma = End
  <2>1. /\ ~Open(client[Peer(s)][m])
        /\ Gone(client[Peer(s)][m]) \/ \E i \in Nat : EndIn(Stream(s)[i], o)
    BY <1>1, Forgotten DEF Gone
  <2>2. (\E i \in Nat : EndIn(Stream(s)[i], o)) =>
           \E e \in EntriesOf(s, o) : PacketsTo(Peer(s))[e[1]].acks[e[2]].karma = End
    BY <1>1, EndInStream DEF IInv
  <2> QED BY <2>1, <2>2 DEF Gone
<1>2. IInv => ForgottenTogether
  BY <1>1 DEF ForgottenTogether
<1> QED BY <1>2, Inductive, PTL
\* What a handler waits for.
LEMMA MainwGuard ==
    ASSUME NEW s \in Side, Mainw(s)
    PROVE  Turn(s)
<1>1. GrabControl(s) => Turn(s)
  BY Zenon DEF GrabControl
<1>2. SkipDead(s) => Turn(s)
  BY Zenon DEF SkipDead
<1>3. Dump(s) => Turn(s)
  BY Zenon DEF Dump
<1>4. Stall(s) => Turn(s)
  BY Zenon DEF Stall
<1>5. ASSUME NEW o, GrabEnd(s, o) PROVE Turn(s)
  BY Zenon, <1>5 DEF GrabEnd
<1>6. ASSUME NEW o, NEW k, GrabData(s, o, k) PROVE Turn(s)
  BY Zenon, <1>6 DEF GrabData
<1> QED BY Zenon, <1>1, <1>2, <1>3, <1>4, <1>5, <1>6 DEF Mainw

LEMMA ClientwGuard ==
    ASSUME NEW s \in Side, Clientw(s)
    PROVE  Returned(s)
<1>1. EnterClientw(s) => Returned(s)
  BY Zenon DEF EnterClientw
<1>2. ClientBlocked(s) => Returned(s)
  BY Zenon DEF ClientBlocked
<1>3. ClientWriteFails(s) => Returned(s)
  BY Zenon DEF ClientWriteFails
<1>4. ASSUME NEW k, ClientWrite(s, k) PROVE Returned(s)
  BY Zenon, <1>4 DEF ClientWrite
<1> QED BY Zenon, <1>1, <1>2, <1>3, <1>4 DEF Clientw

LEMMA MainrGuard ==
    ASSUME NEW s \in Side, Mainr(s)
    PROVE  AtMainr(s)
<1>1. ASSUME NEW crosses, ReadPacket(s, crosses) PROVE AtMainr(s)
  BY Zenon, <1>1 DEF ReadPacket
<1>2. ReadEntry(s) => AtMainr(s)
  BY Zenon DEF ReadEntry
<1>3. ReadData(s) => AtMainr(s)
  BY Zenon DEF ReadData
<1>4. LeaveMainr(s) => AtMainr(s)
  BY Zenon DEF LeaveMainr
<1>5. MainWritable(s) => AtMainr(s)
  BY Zenon DEF MainWritable
<1>6. LinkReplaced(s) => AtMainr(s)
  BY Zenon DEF LinkReplaced
<1> QED BY Zenon, <1>1, <1>2, <1>3, <1>4, <1>5, <1>6 DEF Mainr

LEMMA EventsGuard ==
    ASSUME NEW s \in Side, Events(s)
    PROVE  BetweenEvents(s)
<1>1. MainEvent(s) => BetweenEvents(s)
  BY Zenon DEF MainEvent
<1>2. AcceptEvent(s) => BetweenEvents(s)
  BY Zenon DEF AcceptEvent
<1>3. Free(s) => BetweenEvents(s)
  BY Zenon DEF Free
<1>4. ASSUME NEW o, ConnectFails(s, o) PROVE BetweenEvents(s)
  BY Zenon, <1>4 DEF ConnectFails
<1>5. ASSUME NEW o, ConnectLate(s, o) PROVE BetweenEvents(s)
  BY Zenon, <1>5 DEF ConnectLate
<1>6. ASSUME NEW o, NEW flags, ClientEvent(s, o, flags) PROVE BetweenEvents(s)
  BY Zenon, <1>6 DEF ClientEvent
<1> QED BY Zenon, <1>1, <1>2, <1>3, <1>4, <1>5, <1>6 DEF Events

\* The only steps after the program has ended are steps of neither side.
LEMMA Stopped ==
    ASSUME failed # "no", [Next]_vars
    PROVE  UNCHANGED vars
<1>1. ASSUME NEW s \in Side PROVE ~Turn(s)
  BY Zenon DEF Turn
<1>2. ASSUME NEW s \in Side PROVE ~Returned(s)
  BY Zenon, <1>1 DEF Returned
<1>3. ASSUME NEW s \in Side PROVE ~AtMainr(s) /\ ~BetweenEvents(s)
  BY Zenon, <1>2 DEF AtMainr, BetweenEvents
<1>4. ASSUME NEW s \in Side, NEW batch, Wait(s, batch) PROVE BetweenEvents(s)
  BY Zenon, <1>4 DEF Wait
<1>5. ASSUME NEW s \in Side
      PROVE  /\ ~Mainw(s) /\ ~Clientw(s) /\ ~Mainr(s) /\ ~Events(s)
             /\ \A batch : ~Wait(s, batch)
  BY Zenon, <1>1, <1>2, <1>3, <1>4, MainwGuard, ClientwGuard, MainrGuard, EventsGuard
<1>6. ~Next
  BY Zenon, <1>5 DEF Next
<1> QED BY Zenon, <1>6

\* What a step may set failed to.
LEMMA MainwFails ==
    ASSUME NEW s \in Side, Mainw(s)
    PROVE  failed' = failed \/ failed' \in {"no", "write_ack"}
<1>1. GrabControl(s) => failed' \in {"no", "write_ack"}
  BY DEF GrabControl
<1>2. SkipDead(s) => failed' = failed
  BY Zenon DEF SkipDead, runVars
<1>3. Dump(s) => failed' = failed
  BY Zenon DEF Dump, runVars
<1>4. Stall(s) => failed' = failed
  BY Zenon DEF Stall, runVars
<1>5. ASSUME NEW o, GrabEnd(s, o) PROVE failed' = failed
  BY Zenon, <1>5 DEF GrabEnd, runVars
<1>6. ASSUME NEW o, NEW k, GrabData(s, o, k) PROVE failed' = failed
  BY Zenon, <1>6 DEF GrabData, runVars
<1> QED BY Zenon, <1>1, <1>2, <1>3, <1>4, <1>5, <1>6 DEF Mainw

LEMMA ClientwFails ==
    ASSUME NEW s \in Side, Clientw(s)
    PROVE  failed' = failed
<1>1. EnterClientw(s) => failed' = failed
  BY Zenon DEF EnterClientw
<1>2. ClientBlocked(s) => failed' = failed
  BY Zenon DEF ClientBlocked
<1>3. ClientWriteFails(s) => failed' = failed
  BY Zenon DEF ClientWriteFails
<1>4. ASSUME NEW k, ClientWrite(s, k) PROVE failed' = failed
  BY Zenon, <1>4 DEF ClientWrite
<1> QED BY Zenon, <1>1, <1>2, <1>3, <1>4 DEF Clientw

LEMMA MainrFails ==
    ASSUME NEW s \in Side, Mainr(s)
    PROVE  failed' = failed \/ failed' \in {"no_room", "unexpected_client"}
<1>1. ASSUME NEW crosses, ReadPacket(s, crosses) PROVE failed' = failed
  BY Zenon, <1>1 DEF ReadPacket
<1>2. ReadEntry(s) => failed' = failed
  BY Zenon DEF ReadEntry
<1>3. ASSUME NEW t, NEW units, Buffered(s, t, units)
      PROVE  failed' = failed \/ failed' = "no_room"
  BY Zenon, <1>3 DEF Buffered
<1>4. ReadData(s) => failed' = failed \/ failed' \in {"no_room", "unexpected_client"}
  BY Zenon, <1>3 DEF ReadData
<1>5. LeaveMainr(s) => failed' = failed
  BY Zenon DEF LeaveMainr
<1>6. MainWritable(s) => failed' = failed
  BY Zenon DEF MainWritable
<1>7. LinkReplaced(s) => failed' = failed
  BY Zenon DEF LinkReplaced, runVars
<1> QED BY Zenon, <1>1, <1>2, <1>4, <1>5, <1>6, <1>7 DEF Mainr

LEMMA EventsFail ==
    ASSUME NEW s \in Side, Events(s)
    PROVE  Free(s) \/ failed' = failed \/ failed' = "socket_connected"
<1>1. MainEvent(s) => failed' = failed
  BY Zenon DEF MainEvent
<1>2. AcceptEvent(s) => failed' = failed
  BY Zenon DEF AcceptEvent
<1>3. ASSUME NEW o, ConnectFails(s, o) PROVE failed' = failed
  BY Zenon, <1>3 DEF ConnectFails
<1>4. ASSUME NEW o, ConnectLate(s, o) PROVE failed' = "socket_connected"
  BY Zenon, <1>4 DEF ConnectLate
<1>5. ASSUME NEW o, NEW flags, ClientEvent(s, o, flags) PROVE failed' = failed
  BY Zenon, <1>5 DEF ClientEvent
<1> QED BY Zenon, <1>1, <1>2, <1>3, <1>4, <1>5 DEF Events

LEMMA OnlyFreed ==
    ASSUME failed = "no", [Next]_vars, failed' = "queued_client_freed"
    PROVE  \E s \in Side : Free(s)
<1>1. failed' # failed
  OBVIOUS
<1>2. ~UNCHANGED vars
  BY Zenon, <1>1 DEF vars, runVars
<1>3. failed' \notin {"no", "write_ack", "no_room", "unexpected_client"}
      /\ failed' # "socket_connected"
  OBVIOUS
<1>4. ASSUME NEW s \in Side PROVE ~Mainw(s) /\ ~Clientw(s) /\ ~Mainr(s)
  <2>1. ~Mainw(s)
    BY Zenon, <1>1, <1>3, MainwFails
  <2>2. ~Clientw(s)
    BY Zenon, <1>1, ClientwFails
  <2>3. ~Mainr(s)
    BY Zenon, <1>1, <1>3, MainrFails
  <2> QED BY <2>1, <2>2, <2>3
<1>5. ASSUME NEW s \in Side, Events(s) PROVE Free(s)
  BY Zenon, <1>1, <1>3, <1>5, EventsFail
<1>6. ASSUME NEW s \in Side, NEW batch, Wait(s, batch) PROVE FALSE
  BY Zenon, <1>1, <1>6 DEF Wait
<1>7. Next
  BY Zenon, <1>2
<1> QED BY Zenon, <1>4, <1>5, <1>6, <1>7 DEF Next

LEMMA FreedBehind ==
    ASSUME Types, NEW s \in Side, Unfinished(s), Free(s), failed' = "queued_client_freed",
           "reconnect" \notin Environment
    PROVE  wout'[s] # NoPacket
<1>1. write_q[s] # <<>>
  <2>1. PICK i \in 1 .. Len(write_q[s]) : write_q[s][i] \in Burned(s)
    BY DEF Free
  <2> QED BY <2>1, EmptySeq
<1>2. ~in_mainw[s] /\ wout' = wout
  BY DEF Free, BetweenEvents, Returned, linkVars
<1> QED BY <1>1, <1>2 DEF Unfinished

\* When muxloop frees burned clients at the end of a batch none of them is still
\* in the write queue, unless mainw left the queue in the middle of a packet or for
\* lack of a connection.  That mainw otherwise works its queue off is what the
\* conjunct Unfinished of the invariant says.
THEOREM NoneFreedQueued == Spec => []FreedNotQueued
<1>1. Init => FreedNotQueued
  BY DEF Init, FreedNotQueued
<1>2. ASSUME IInv, FreedNotQueued, [Next]_vars PROVE FreedNotQueued'
  <2>1. CASE failed # "no"
    <3>1. UNCHANGED vars
      BY <1>2, <2>1, Stopped
    <3> QED BY <1>2, <3>1 DEF FreedNotQueued, vars, linkVars, runVars
  <2>2. CASE failed = "no"
    <3> SUFFICES ASSUME failed' = "queued_client_freed", "reconnect" \notin Environment
                 PROVE  \E s \in Side : wout'[s] # NoPacket
      BY DEF FreedNotQueued
    <3>1. PICK s \in Side : Free(s)
      BY <1>2, <2>2, OnlyFreed
    <3>2. wout'[s] # NoPacket
      BY <1>2, <3>1, FreedBehind DEF IInv, Local
    <3> QED BY <3>2
  <2> QED BY <2>1, <2>2
<1> QED BY <1>1, <1>2, Inductive, PTL DEF Spec
-----------------------------------------------------------------------------
(* Nothing of the credit is lost.                                          *)

\* A set whose members are numbered a + 1 .. b.
LEMMA CountNumbered ==
    ASSUME NEW a \in Nat, NEW b \in Nat, a <= b, NEW T, NEW num \in [T -> a + 1 .. b],
           \A u, v \in T : num[u] = num[v] => u = v,
           \A n \in a + 1 .. b : \E u \in T : num[u] = n
    PROVE  Cardinality(T) = b - a
<1> DEFINE R == a + 1 .. b
<1>1. num \in Bijection(T, R)
  <2>1. num \in Injection(T, R)
    BY Fun_IsInj
  <2>2. num \in Surjection(T, R)
    BY Fun_IsSurj
  <2> QED BY <2>1, <2>2 DEF Bijection
<1>2. ExistsBijection(R, T)
  <2>1. ExistsBijection(T, R)
    BY <1>1 DEF ExistsBijection
  <2> QED BY <2>1, Fun_ExistsBijSymmetric
<1>3. a + 1 \in Int /\ b \in Int
  OBVIOUS
<1>4. IsFiniteSet(R) /\ Cardinality(R) = IF a + 1 > b THEN 0 ELSE b - (a + 1) + 1
  BY <1>3, FS_Interval
<1>5. Cardinality(R) = b - a
  <2> DEFINE k == Cardinality(R)
  <2>1. k = IF a + 1 > b THEN 0 ELSE b - (a + 1) + 1
    BY <1>4
  <2> HIDE DEF k
  <2>2. k = b - a
    BY <2>1
  <2> QED BY <2>2 DEF k
<1>6. Cardinality(T) = Cardinality(R)
  BY <1>2, <1>4, FS_Bijection
<1> QED BY <1>5, <1>6

LEMMA PlaceInPackets ==
    ASSUME Types, NEW s \in Side, NEW i \in Nat, Stream(s)[i] # NoPacket
    PROVE  LET ps == PacketsTo(Peer(s))
           IN i + 1 \in DOMAIN ps /\ ps[i + 1] = Stream(s)[i]
<1> DEFINE ps == PacketsTo(Peer(s))
           n == Len(link[Peer(s)])
<1>1. n \in Nat /\ DOMAIN ps = 1 .. n + 2 /\ \A k \in DOMAIN ps : ps[k] = Stream(s)[k - 1]
  BY PacketsStream
<1>2. ~(i > n + 1)
  <2>1. link[Peer(s)] \in Seq(AnyPacket) /\ rin[Peer(s)] \in AnyPacket /\ wout[s] \in AnyPacket
    BY Sides, TypeFacts
  <2> QED BY <2>1, StreamPoints DEF Stream
<1> HIDE DEF n, ps
<1>3. i + 1 \in 1 .. n + 2 /\ (i + 1) - 1 = i
  BY <1>1, <1>2
<1>4. i + 1 \in DOMAIN ps /\ ps[i + 1] = Stream(s)[i]
  BY <1>1, <1>3
<1> QED BY <1>4 DEF ps

\* A unit in a packet has the number of its place.
LEMMA UnitInPacket ==
    ASSUME NEW cs, NEW p \in AnyPacket, PacketOK(cs, p), NEW o,
           NEW j \in DOMAIN p.data, p.data[j][1] = o
    PROVE  /\ HasData(p, o) /\ j \in 1 .. Len(p.data) /\ Len(p.data) \in Nat
           /\ Start(p) \in Nat /\ p.data[j][2] = (Start(p) + j) - 1
           /\ Stop(p) = (Start(p) + Len(p.data)) - 1
<1>1. p.data \in Seq(Obj \X (Nat \ {0}))
  BY DEF AnyPacket
<1>2. Len(p.data) \in Nat /\ j \in 1 .. Len(p.data)
  BY <1>1, LenProperties
<1>3. p.data # <<>>
  BY <1>2
<1>4. DataPacket(cs, p)
  <2>1. p # NoPacket
    BY <1>3 DEF NoPacket
  <2> QED BY <1>3, <2>1 DEF PacketOK, ControlPacket
<1>5. p.data[j] = <<p.data[1][1], p.data[1][2] + j - 1>>
  BY <1>2, <1>4 DEF DataPacket
<1>6. p.data[1][1] = o
  BY <1>5
<1>7. p.data[1][2] \in Nat
  <2>1. 1 \in 1 .. Len(p.data)
    BY <1>2
  <2>2. p.data[1] \in Obj \X (Nat \ {0})
    BY <1>1, <2>1, ElementOfSeq
  <2> QED BY <2>2
<1>8. HasData(p, o) /\ Start(p) = p.data[1][2] /\ Stop(p) = p.data[1][2] + Len(p.data) - 1
  BY <1>3, <1>6 DEF HasData, Start, Stop
<1> DEFINE n == Len(p.data)
           a == p.data[1][2]
<1>9. n \in Nat /\ a \in Nat /\ j \in 1 .. n
  BY <1>2, <1>7
<1> HIDE DEF n, a
<1>10. a + j - 1 = (a + j) - 1 /\ a + n - 1 = (a + n) - 1
  BY ONLY <1>9
<1>11. p.data[j][2] = a + j - 1
  BY <1>5 DEF a
<1>12. Stop(p) = a + n - 1 /\ Start(p) = a
  BY <1>8 DEF a, n
<1>13. p.data[j][2] = (Start(p) + j) - 1 /\ Stop(p) = (Start(p) + Len(p.data)) - 1
  <2>1. p.data[j][2] = (a + j) - 1 /\ Stop(p) = (a + n) - 1
    BY ONLY <1>10, <1>11, <1>12
  <2> QED BY <1>12, <2>1 DEF n
<1> QED BY <1>2, <1>8, <1>9, <1>12, <1>13

LEMMA UnitFound ==
    ASSUME Types, NEW s \in Side, NEW o \in Obj, Packets(s), NEW u \in UnitsOf(s, o)
    PROVE  LET p == PacketsTo(Peer(s))[u[1]]
           IN /\ u = <<u[1], u[2]>> /\ u[1] \in Nat /\ u[1] - 1 \in Nat /\ u[2] \in Nat
              /\ p = Stream(s)[u[1] - 1] /\ HasData(p, o) /\ u[2] \in 1 .. Len(p.data)
              /\ Len(p.data) \in Nat /\ Start(p) \in Nat
              /\ p.data[u[2]][2] = (Start(p) + u[2]) - 1 /\ Stop(p) = (Start(p) + Len(p.data)) - 1
<1> DEFINE ps == PacketsTo(Peer(s))
<1>1. PICK i \in DOMAIN ps : u \in {i} \X DOMAIN ps[i].data /\ ps[u[1]].data[u[2]][1] = o
  BY DEF UnitsOf
<1>2. u = <<u[1], u[2]>> /\ u[1] = i /\ u[2] \in DOMAIN ps[i].data
  BY <1>1
<1>3. ps[i] = Stream(s)[i - 1] /\ i - 1 \in Nat /\ i \in Nat
  BY PacketsStream
<1>4. ps[i] \in AnyPacket /\ PacketOK(client[s], ps[i])
  BY <1>3, StreamType DEF Packets
<1> HIDE DEF ps
<1> DEFINE p == ps[i]
           j == u[2]
<1>5. p \in AnyPacket /\ PacketOK(client[s], p) /\ j \in DOMAIN p.data /\ p.data[j][1] = o
  BY <1>1, <1>2, <1>4
<1> HIDE DEF p, j
<1>6. /\ HasData(p, o) /\ j \in 1 .. Len(p.data) /\ Len(p.data) \in Nat
      /\ Start(p) \in Nat /\ p.data[j][2] = (Start(p) + j) - 1
      /\ Stop(p) = (Start(p) + Len(p.data)) - 1
  BY <1>5, UnitInPacket
<1>7. j \in Nat
  BY <1>6
<1> QED BY <1>2, <1>3, <1>6, <1>7 DEF p, j, ps

LEMMA UnitsCounted ==
    ASSUME Types, NEW s \in Side, NEW o \in Obj, Packets(s), NEW sent \in Nat, NEW received \in Nat,
           Units(Stream(s), o, sent, received)
    PROVE  Cardinality(UnitsOf(s, o)) = sent - received
<1> DEFINE ps == PacketsTo(Peer(s))
           f == Stream(s)
           T == UnitsOf(s, o)
           num == [u \in T |-> ps[u[1]].data[u[2]][2]]
<1>1. received <= sent
  BY DEF Units
<1>2. ASSUME NEW u \in T PROVE num[u] \in received + 1 .. sent
  <2> DEFINE p == ps[u[1]]
             j == u[2]
  <2>1. /\ HasData(p, o) /\ j \in 1 .. Len(p.data) /\ Len(p.data) \in Nat /\ Start(p) \in Nat
        /\ p.data[j][2] = (Start(p) + j) - 1 /\ Stop(p) = (Start(p) + Len(p.data)) - 1
        /\ p = f[u[1] - 1] /\ u[1] - 1 \in Nat
    BY UnitFound
  <2>2. num[u] = p.data[j][2]
    OBVIOUS
  <2> HIDE DEF p, j, num, ps, T
  <2>3. received < Start(p) /\ Stop(p) <= sent
    BY <2>1 DEF Units
  <2> DEFINE a == Start(p)
             n == Len(p.data)
  <2>4. /\ a \in Nat /\ n \in Nat /\ j \in 1 .. n /\ num[u] = (a + j) - 1
        /\ received < a /\ (a + n) - 1 <= sent
    BY <2>1, <2>2, <2>3
  <2> HIDE DEF a, n, f
  <2> QED BY ONLY <2>4, received \in Nat, sent \in Nat
<1>3. ASSUME NEW u \in T, NEW v \in T, num[u] = num[v] PROVE u = v
  <2> DEFINE p == ps[u[1]]
             j == u[2]
             q == ps[v[1]]
             k == v[2]
             x == u[1] - 1
             y == v[1] - 1
  <2>1. /\ HasData(p, o) /\ j \in 1 .. Len(p.data) /\ Len(p.data) \in Nat /\ Start(p) \in Nat
        /\ p.data[j][2] = (Start(p) + j) - 1 /\ Stop(p) = (Start(p) + Len(p.data)) - 1
        /\ p = f[x] /\ x \in Nat /\ u = <<u[1], j>> /\ u[1] \in Nat
    BY UnitFound
  <2>2. /\ HasData(q, o) /\ k \in 1 .. Len(q.data) /\ Len(q.data) \in Nat /\ Start(q) \in Nat
        /\ q.data[k][2] = (Start(q) + k) - 1 /\ Stop(q) = (Start(q) + Len(q.data)) - 1
        /\ q = f[y] /\ y \in Nat /\ v = <<v[1], k>> /\ v[1] \in Nat
    BY UnitFound
  <2>3. p.data[j][2] = q.data[k][2]
    BY <1>3
  <2>4. x = y => u[1] = v[1]
    <3>1. u[1] \in Nat /\ v[1] \in Nat
      BY <2>1, <2>2
    <3>2. \A g, h \in Nat : g - 1 = h - 1 => g = h
      OBVIOUS
    <3> QED BY <3>1, <3>2
  <2>5. (x < y => Stop(p) < Start(q)) /\ (y < x => Stop(q) < Start(p)) /\ (x = y => p = q)
    <3> HIDE DEF p, j, q, k, x, y, num, ps, T, f
    <3>1. HasData(f[x], o) /\ HasData(f[y], o)
      BY <2>1, <2>2
    <3>2. \A i, l \in Nat : i < l /\ HasData(f[i], o) /\ HasData(f[l], o) => Stop(f[i]) < Start(f[l])
      BY DEF Units, f
    <3>3. x < y => Stop(f[x]) < Start(f[y])
      BY <2>1, <2>2, <3>1, <3>2
    <3>4. y < x => Stop(f[y]) < Start(f[x])
      BY <2>1, <2>2, <3>1, <3>2
    <3> QED BY <2>1, <2>2, <3>3, <3>4
  <2> DEFINE a == Start(p)
             n == Len(p.data)
             b == Start(q)
             m == Len(q.data)
  <2>6. /\ a \in Nat /\ n \in Nat /\ j \in 1 .. n /\ b \in Nat /\ m \in Nat /\ k \in 1 .. m
        /\ (a + j) - 1 = (b + k) - 1 /\ x \in Nat /\ y \in Nat
        /\ x < y => (a + n) - 1 < b
        /\ y < x => (b + m) - 1 < a
        /\ x = y => a = b
    <3> HIDE DEF x, y
    <3> QED BY <2>1, <2>2, <2>3, <2>5
  <2> HIDE DEF a, n, b, m, j, k, x, y
  <2>7. x = y /\ j = k
    BY ONLY <2>6
  <2>8. u[1] = v[1] /\ u = <<u[1], j>> /\ v = <<v[1], k>>
    BY <2>1, <2>2, <2>4, <2>7
  <2> QED BY ONLY <2>7, <2>8
<1>4. ASSUME NEW n \in received + 1 .. sent PROVE \E u \in T : num[u] = n
  <2>1. PICK i \in Nat : HasData(f[i], o) /\ n \in Start(f[i]) .. Stop(f[i])
    BY DEF Units
  <2> DEFINE p == f[i]
             a == Start(p)
             j == (n - a) + 1
  <2>2. i + 1 \in DOMAIN ps /\ ps[i + 1] = p
    <3>1. p # NoPacket
      BY <2>1, NothingInNoPacket DEF Holds
    <3> QED BY <3>1, PlaceInPackets
  <2>3. p \in AnyPacket /\ PacketOK(client[s], p)
    BY StreamType DEF Packets
  <2> HIDE DEF p, f
  <2>4. a \in Nat \ {0} /\ p.data \in Seq(Obj \X (Nat \ {0})) /\ p.data # <<>> /\ p.data[1][1] = o
    BY <2>1, <2>3, SpanType DEF AnyPacket, HasData, p
  <2>5. Len(p.data) \in Nat /\ DOMAIN p.data = 1 .. Len(p.data)
    BY <2>4, LenProperties
  <2>6. n \in a .. Stop(p) /\ Stop(p) = (a + Len(p.data)) - 1 /\ n \in Nat
    <3>1. n \in a .. Stop(p)
      BY <2>1 DEF p
    <3>2. Stop(p) = a + Len(p.data) - 1
      BY DEF Stop, Start
    <3> DEFINE l == Len(p.data)
    <3>3. l \in Nat /\ a \in Nat
      BY <2>4, <2>5
    <3> HIDE DEF l, a
    <3>4. a + l - 1 = (a + l) - 1
      BY ONLY <3>3
    <3>5. n \in Nat
      BY ONLY n \in received + 1 .. sent, received \in Nat, sent \in Nat
    <3> QED BY <3>1, <3>2, <3>4, <3>5 DEF l
  <2>7. j \in 1 .. Len(p.data) /\ (a + j) - 1 = n
    <3> DEFINE l == Len(p.data)
    <3>1. l \in Nat /\ a \in Nat /\ n \in a .. (a + l) - 1
      BY <2>4, <2>5, <2>6
    <3> HIDE DEF l, a
    <3>2. j \in 1 .. l /\ (a + j) - 1 = n
      BY ONLY <3>1
    <3> QED BY <3>2 DEF l
  <2>8. DataPacket(client[s], p)
    <3>1. p # NoPacket
      BY <2>4 DEF NoPacket
    <3> QED BY <2>3, <2>4, <3>1 DEF PacketOK, ControlPacket
  <2>9. p.data[j] = <<o, n>>
    <3>1. p.data[j] = <<p.data[1][1], p.data[1][2] + j - 1>>
      BY <2>7, <2>8 DEF DataPacket
    <3>2. p.data[1][2] = a
      BY DEF Start
    <3>3. p.data[1][2] + j - 1 = n
      <4>1. a + j - 1 = (a + j) - 1
        BY <2>4, <2>6, <2>7
      <4> QED BY <2>7, <3>2, <4>1
    <3> QED BY <2>4, <3>1, <3>3
  <2> DEFINE u == <<i + 1, j>>
  <2>10. u \in T
    <3>1. u[1] = i + 1 /\ u[2] = j /\ u \in {i + 1} \X DOMAIN ps[i + 1].data
      BY <2>2, <2>5, <2>7
    <3>2. ps[u[1]].data[u[2]][1] = o
      BY <2>2, <2>9, <3>1
    <3> HIDE DEF u
    <3> QED BY <2>2, <3>1, <3>2 DEF UnitsOf
  <2>11. num[u] = n
    <3>1. u[1] = i + 1 /\ u[2] = j
      OBVIOUS
    <3> HIDE DEF u
    <3>2. num[u] = ps[u[1]].data[u[2]][2]
      BY <2>10
    <3> QED BY <2>2, <2>9, <3>1, <3>2
  <2> QED BY <2>10, <2>11
<1>5. num \in [T -> received + 1 .. sent]
  BY <1>2
<1> HIDE DEF num, T
<1> QED BY <1>1, <1>3, <1>4, <1>5, CountNumbered DEF T

\* A unit of karma is of an entry in a packet.
LEMMA KarmaFound ==
    ASSUME Types, NEW s \in Side, NEW o \in Obj, NEW u \in KarmaOf(s, o)
    PROVE  LET e == u[1]
               p == PacketsTo(Peer(s))[e[1]]
               a == p.acks[e[2]]
           IN /\ u = <<e, u[2]>> /\ e = <<e[1], e[2]>> /\ e[1] \in Nat /\ e[1] - 1 \in Nat
              /\ p = Stream(s)[e[1] - 1] /\ p \in AnyPacket /\ e[2] \in 1 .. Len(p.acks)
              /\ a \in AcksOf(p, o) /\ a.from = o /\ a.karma # End
              /\ a.karma \in Nat /\ a.granted \in Nat /\ u[2] \in 1 .. a.karma
<1> DEFINE ps == PacketsTo(Peer(s))
<1>1. PICK e \in EntriesOf(s, o) : u \in {e} \X (1 .. ps[e[1]].acks[e[2]].karma)
  BY DEF KarmaOf
<1> DEFINE p == ps[e[1]]
           a == p.acks[e[2]]
<1>2. u[1] = e /\ u = <<e, u[2]>> /\ u[2] \in 1 .. a.karma
  BY <1>1
<1>3. /\ e[1] \in Nat /\ e[1] - 1 \in Nat /\ p = Stream(s)[e[1] - 1] /\ e = <<e[1], e[2]>>
      /\ e[2] \in 1 .. Len(p.acks) /\ a \in AcksOf(p, o)
  BY EntryInStream
<1>4. p \in AnyPacket
  BY <1>3, StreamType
<1> HIDE DEF p, a, ps
<1>5. a.from = o /\ a \in Entry
  <2>1. p.acks \in Seq(Entry)
    BY <1>4 DEF AnyPacket
  <2> QED BY <1>3, <2>1, LenProperties DEF AcksOf
<1>6. a.karma # End /\ a.karma \in Nat /\ a.granted \in Nat
  <2>1. a.karma \in {End} \cup (Nat \ {0}) /\ a.granted \in Nat
    BY <1>5 DEF Entry
  <2>2. a.karma # End
    <3>1. 1 .. End = {}
      BY Numbers DEF End
    <3> QED BY <1>2, <3>1
  <2> QED BY <2>1, <2>2
<1> QED BY <1>2, <1>3, <1>4, <1>5, <1>6 DEF p, a, ps

\* The number of a unit of karma among all that the client has granted.
KarmaNumber(s, u) ==
    LET a == PacketsTo(Peer(s))[u[1][1]].acks[u[1][2]]
    IN (a.granted - a.karma) + u[2]

\* Its packet, its entry, its place and its number, by name.
KarmaUnit(s, o, u, i, j, k, p, a) ==
    /\ i \in Nat /\ p = Stream(s)[i] /\ p \in AnyPacket
    /\ j \in 1 .. Len(p.acks) /\ a = p.acks[j] /\ a \in AcksOf(p, o) /\ a.from = o
    /\ a.karma # End /\ a.karma \in Nat /\ a.granted \in Nat
    /\ k \in 1 .. a.karma /\ u = <<<<i + 1, j>>, k>>
    /\ KarmaNumber(s, u) = (a.granted - a.karma) + k

LEMMA KarmaNamed ==
    ASSUME Types, NEW s \in Side, NEW o \in Obj, NEW u \in KarmaOf(s, o)
    PROVE  \E i, j, k, p, a : KarmaUnit(s, o, u, i, j, k, p, a)
<1> DEFINE g == u[1][1]
           j == u[1][2]
           k == u[2]
           i == g - 1
           p == PacketsTo(Peer(s))[g]
           a == p.acks[j]
<1>1. /\ u = <<u[1], k>> /\ u[1] = <<g, j>> /\ g \in Nat /\ i \in Nat
      /\ p = Stream(s)[i] /\ p \in AnyPacket /\ j \in 1 .. Len(p.acks)
      /\ a \in AcksOf(p, o) /\ a.from = o /\ a.karma # End
      /\ a.karma \in Nat /\ a.granted \in Nat /\ k \in 1 .. a.karma
  BY ZenonT(40), KarmaFound
<1>2. i + 1 = g
  <2>1. g \in Nat /\ i = g - 1
    BY Zenon, <1>1
  <2> HIDE DEF g, i
  <2> QED BY ONLY <2>1
<1>3. a = p.acks[j] /\ KarmaNumber(s, u) = (a.granted - a.karma) + k
  BY Zenon DEF KarmaNumber
<1>4. u = <<<<i + 1, j>>, k>>
  BY Zenon, <1>1, <1>2
<1> HIDE DEF g, i, j, k, p, a
<1>5. KarmaUnit(s, o, u, i, j, k, p, a)
  BY Zenon, <1>1, <1>3, <1>4 DEF KarmaUnit
<1> QED BY Zenon, <1>5

\* A client has one entry in a packet.
LEMMA OneEntry ==
    ASSUME NEW s \in Side, NEW o, Packets(s), NEW u, NEW v, NEW i, NEW j, NEW k, NEW p, NEW a,
           NEW m, NEW l, NEW b,
           KarmaUnit(s, o, u, i, j, k, p, a), KarmaUnit(s, o, v, i, m, l, p, b)
    PROVE  j = m /\ a = b
<1>1. PacketOK(client[s], p)
  BY Zenon DEF Packets, KarmaUnit
<1>2. p.acks # <<>>
  BY ONLY KarmaUnit(s, o, u, i, j, k, p, a) DEF KarmaUnit
<1>3. ControlPacket(client[s], p)
  BY Zenon, <1>1, <1>2, CarriesKarma
<1>4. \A g, h \in 1 .. Len(p.acks) : p.acks[g].from = p.acks[h].from => g = h
  BY Zenon, <1>3 DEF ControlPacket
<1>5. /\ j \in 1 .. Len(p.acks) /\ m \in 1 .. Len(p.acks)
      /\ a = p.acks[j] /\ b = p.acks[m] /\ a.from = o /\ b.from = o
  BY Zenon DEF KarmaUnit
<1> QED BY ONLY Zenon, <1>4, <1>5

LEMMA KarmaCounted ==
    ASSUME Types, NEW s \in Side, NEW o \in Obj, Packets(s), NEW granted \in Nat, NEW credit \in Nat,
           Grants(Stream(s), o, granted, credit)
    PROVE  Cardinality(KarmaOf(s, o)) = granted - credit
<1> DEFINE ps == PacketsTo(Peer(s))
           f == Stream(s)
           T == KarmaOf(s, o)
           num == [u \in T |-> KarmaNumber(s, u)]
<1>1. credit <= granted
  BY DEF Grants
<1>0. \A u \in T : num[u] = KarmaNumber(s, u)
  <2> HIDE DEF T
  <2> QED BY Zenon
<1>a. num \in [T -> {KarmaNumber(s, u) : u \in T}]
  <2> HIDE DEF T
  <2> QED OBVIOUS
<1> HIDE DEF num
<1>2. ASSUME NEW u \in T PROVE num[u] \in credit + 1 .. granted
  <2>1. PICK i, j, k, p, a : KarmaUnit(s, o, u, i, j, k, p, a)
    BY Zenon, KarmaNamed
  <2>2. num[u] = (a.granted - a.karma) + k
    <3>1. KarmaNumber(s, u) = (a.granted - a.karma) + k
      BY ONLY Zenon, <2>1 DEF KarmaUnit
    <3> HIDE DEF T
    <3> QED BY ONLY Zenon, <1>0, <1>2, <3>1
  <2> HIDE DEF ps, T, f
  <2>3. credit + a.karma <= a.granted /\ a.granted <= granted
    BY <2>1 DEF Grants, KarmaUnit
  <2> DEFINE x == a.karma
             y == a.granted
  <2>4. /\ x \in Nat /\ y \in Nat /\ k \in 1 .. x /\ num[u] = (y - x) + k
        /\ credit + x <= y /\ y <= granted
    BY Zenon, <2>1, <2>2, <2>3 DEF KarmaUnit
  <2> HIDE DEF x, y
  <2> QED BY ONLY SMTT(40), <2>4, credit \in Nat, granted \in Nat
<1>3. ASSUME NEW u \in T, NEW v \in T, num[u] = num[v] PROVE u = v
  <2>1. PICK i, j, k, p, a : KarmaUnit(s, o, u, i, j, k, p, a)
    BY Zenon, KarmaNamed
  <2>2. PICK h, m, l, q, b : KarmaUnit(s, o, v, h, m, l, q, b)
    BY Zenon, KarmaNamed
  <2>3. (a.granted - a.karma) + k = (b.granted - b.karma) + l
    <3>1. KarmaNumber(s, u) = (a.granted - a.karma) + k
      BY ONLY Zenon, <2>1 DEF KarmaUnit
    <3>2. KarmaNumber(s, v) = (b.granted - b.karma) + l
      BY ONLY Zenon, <2>2 DEF KarmaUnit
    <3> HIDE DEF T
    <3>3. KarmaNumber(s, u) = KarmaNumber(s, v)
      BY ONLY Zenon, <1>0, <1>3
    <3> QED BY ONLY Zenon, <3>1, <3>2, <3>3
  <2> HIDE DEF ps, T, f
  <2>4. i = h => j = m /\ a = b
    <3>1. ASSUME i = h PROVE p = q
      BY Zenon, <2>1, <2>2, <3>1 DEF KarmaUnit
    <3>2. ASSUME i = h PROVE KarmaUnit(s, o, v, i, m, l, p, b)
      BY ONLY Zenon, <2>2, <3>1, <3>2
    <3>3. ASSUME i = h PROVE j = m /\ a = b
      BY ONLY <2>1, <3>2, <3>3, s \in Side, Packets(s), OneEntry
    <3> QED BY ONLY Zenon, <3>3
  <2>5. /\ i \in Nat /\ a \in AcksOf(Stream(s)[i], o) /\ a.karma # End
        /\ h \in Nat /\ b \in AcksOf(Stream(s)[h], o) /\ b.karma # End
    BY Zenon, <2>1, <2>2 DEF KarmaUnit
  <2>6. (i < h => a.granted + b.karma <= b.granted) /\ (h < i => b.granted + a.karma <= a.granted)
    BY <2>5 DEF Grants
  <2> DEFINE x == a.karma
             y == a.granted
             z == b.karma
             w == b.granted
  <2>7. /\ x \in Nat /\ y \in Nat /\ k \in 1 .. x /\ z \in Nat /\ w \in Nat /\ l \in 1 .. z
    BY Zenon, <2>1, <2>2 DEF KarmaUnit
  <2>8. /\ (y - x) + k = (w - z) + l /\ i \in Nat /\ h \in Nat
        /\ (i < h => y + z <= w) /\ (h < i => w + x <= y) /\ (i = h => x = z /\ y = w)
    BY Zenon, <2>3, <2>4, <2>5, <2>6
  <2> HIDE DEF x, y, z, w
  <2>9. i = h /\ k = l
    BY ONLY <2>7, <2>8
  <2>10. u = <<<<i + 1, j>>, k>>
    BY ONLY <2>1 DEF KarmaUnit
  <2>11. v = <<<<h + 1, m>>, l>>
    BY ONLY <2>2 DEF KarmaUnit
  <2>12. i + 1 = h + 1 /\ j = m
    BY ONLY <2>4, <2>9
  <2> QED BY ONLY <2>9, <2>10, <2>11, <2>12
<1>4. ASSUME NEW n \in credit + 1 .. granted PROVE \E u \in T : num[u] = n
  <2>1. PICK i \in Nat : \E a \in AcksOf(f[i], o) : Brings(a, n)
    BY DEF Grants
  <2>2. PICK a \in AcksOf(f[i], o) : Brings(a, n)
    BY <2>1
  <2> DEFINE p == f[i]
  <2>3. p \in AnyPacket
    BY StreamType
  <2>4. PICK j \in DOMAIN p.acks : a = p.acks[j]
    BY DEF AcksOf
  <2>5. a.from = o
    BY DEF AcksOf
  <2>6. i + 1 \in DOMAIN ps /\ ps[i + 1] = p
    <3>1. p # NoPacket
      BY <2>2, NothingInNoPacket DEF Holds
    <3> QED BY <3>1, PlaceInPackets
  <2>7. a \in Entry
    <3> HIDE DEF p
    <3>1. p.acks \in Seq(Entry)
      BY <2>3 DEF AnyPacket
    <3> QED BY <2>4, <3>1, LenProperties
  <2>8. a.karma # End /\ a.granted < n + a.karma /\ n <= a.granted /\ a.karma \in Nat /\ a.granted \in Nat
    BY <2>2, <2>7 DEF Brings, Entry
  <2> DEFINE x == a.karma
             y == a.granted
             k == n - (y - x)
             e == <<i + 1, j>>
             u == <<e, k>>
  <2>9. k \in 1 .. x /\ (y - x) + k = n
    <3>1. /\ x \in Nat /\ y \in Nat /\ n \in Int /\ y < n + x /\ n <= y
      BY <2>8
    <3> HIDE DEF x, y
    <3> QED BY ONLY <3>1
  <2> HIDE DEF p, f, k, ps
  <2>10. e \in EntriesOf(s, o)
    <3>1. e[1] = i + 1 /\ e[2] = j /\ e \in {i + 1} \X DOMAIN ps[i + 1].acks
      BY <2>4, <2>6
    <3>2. ps[e[1]].acks[e[2]].from = o
      BY <2>4, <2>5, <2>6, <3>1
    <3> HIDE DEF e
    <3> QED BY <2>6, <3>1, <3>2 DEF EntriesOf, ps
  <2>11. ps[e[1]].acks[e[2]] = a
    BY <2>4, <2>6
  <2>12. u \in T
    <3> HIDE DEF e
    <3>1. u \in {e} \X (1 .. ps[e[1]].acks[e[2]].karma)
      BY <2>9, <2>11
    <3> QED BY <2>10, <3>1 DEF KarmaOf, ps
  <2>13. num[u] = n
    <3>1. u[1] = e /\ u[2] = k
      OBVIOUS
    <3> HIDE DEF u, e
    <3>2. num[u] = KarmaNumber(s, u)
      BY Zenon, <1>0, <2>12
    <3>3. KarmaNumber(s, u) = (a.granted - a.karma) + k
      BY Zenon, <2>11, <3>1 DEF KarmaNumber, ps
    <3> QED BY Zenon, <2>9, <3>2, <3>3
  <2> QED BY <2>12, <2>13
<1> HIDE DEF T
<1>5. num \in [T -> credit + 1 .. granted]
  BY ONLY <1>2, <1>a
<1> QED BY <1>1, <1>3, <1>4, <1>5, CountNumbered DEF T

\* For one connection: the credit that is not with the sender is on its way, waits
\* for the socket, or is to be acknowledged.
LEMMA Accounted ==
    ASSUME NEW c \in ClientRec, NEW d \in ClientRec, ClientOK(d), Open(d),
           Received(d) \in Nat, Credit(c) \in Nat,
           NEW units \in Int, units = c.taken - Received(d),
           NEW karma \in Int, karma = d.granted - Credit(c)
    PROVE  c.wkarma + units + Len(d.out) + d.rkarma + karma = ClientKarma
<1>1. /\ c.taken \in Nat /\ d.granted \in Nat /\ Len(d.given) \in Nat /\ Len(d.out) \in Nat
      /\ c.wkarma \in Nat
  BY CountFacts, RecFacts
<1>2. d.rkarma \in Nat /\ d.granted + d.rkarma = ClientKarma + Len(d.given)
  BY RecFacts DEF ClientOK, Credible
<1>3. Credit(c) = c.wkarma + c.taken /\ Received(d) = Len(d.given) + Len(d.out)
  BY DEF Credit, Received
<1> DEFINE lg == Len(d.given)
           lo == Len(d.out)
           ct == c.taken
           wk == c.wkarma
           dg == d.granted
           dr == d.rkarma
           ck == ClientKarma
<1>4. /\ lg \in Nat /\ lo \in Nat /\ ct \in Nat /\ wk \in Nat /\ dg \in Nat /\ dr \in Nat
      /\ ck \in Nat /\ dg + dr = ck + lg
      /\ units = ct - (lg + lo) /\ karma = dg - (wk + ct)
  BY <1>1, <1>2, <1>3, Numbers
<1> HIDE DEF lg, lo, ct, wk, dg, dr, ck
<1>5. wk + units + lo + dr + karma = ck
  BY ONLY <1>4, units \in Int, karma \in Int
<1> QED BY <1>5 DEF lg, lo, ct, wk, dg, dr, ck

LEMMA Conserved == ASSUME IInv PROVE CreditConserved
<1>1. Types /\ (\A t \in Side : Local(t)) /\ Cross
  BY DEF IInv
<1>2. ASSUME NEW s \in Side, NEW o \in Obj, NEW m \in Obj, Mates(s, o, m),
             client[s][o].life = "live", Open(client[Peer(s)][m])
      PROVE  client[s][o].wkarma + Cardinality(UnitsOf(s, o)) + Len(client[Peer(s)][m].out)
               + client[Peer(s)][m].rkarma + Cardinality(KarmaOf(Peer(s), m)) = ClientKarma
  <2> DEFINE c == client[s][o]
             d == client[Peer(s)][m]
             units == Cardinality(UnitsOf(s, o))
             karma == Cardinality(KarmaOf(Peer(s), m))
  <2>1. Joint(s, o, m)
    <3>1. CASE s = "mux"
      BY <1>2, <3>1, Named DEF Joint, Pair, Mates
    <3>2. CASE s = "demux"
      <4>1. c.mate = m /\ m # None
        BY <1>2, <3>2, Named DEF Mates
      <4>2. client["mux"][m].life # "unborn"
        BY <1>1, <3>2, <4>1 DEF Cross, Mating
      <4> QED BY <3>2, <4>1, <4>2, Named DEF Joint, Pair
    <3> QED BY <3>1, <3>2 DEF Side
  <2>2. Rec(s, o) = c /\ Rec(Peer(s), m) = d
    BY Named DEF Rec
  <2>3. Half(Stream(s), o, c, d) /\ Half(Stream(Peer(s)), m, d, c)
    BY <1>1, <2>1, <2>2, FromEither DEF Halves, Cross
  <2>4. Peer(s) \in Side /\ Peer(Peer(s)) = s
    BY Sides
  <2>5. c \in ClientRec /\ d \in ClientRec /\ ClientOK(d)
    BY <1>1, <2>4, TypeFacts DEF Local, Clients
  <2>6. /\ c.taken \in Nat /\ d.granted \in Nat /\ Received(d) \in Nat /\ Credit(c) \in Nat
    <3> HIDE DEF c, d
    <3> QED BY <2>5, CountFacts, RecFacts
  <2>7. units = c.taken - Received(d)
    <3>1. Units(Stream(s), o, c.taken, Received(d)) /\ Packets(s)
      BY <1>1, <2>3 DEF Half, Cross
    <3> HIDE DEF c, d
    <3> QED BY <1>1, <2>6, <3>1, UnitsCounted
  <2>8. karma = d.granted - Credit(c)
    <3>1. Grants(Stream(Peer(s)), m, d.granted, Credit(c)) /\ Packets(Peer(s))
      BY <1>1, <2>3, <2>4 DEF Half, Cross
    <3> HIDE DEF c, d
    <3> QED BY <1>1, <2>4, <2>6, <3>1, KarmaCounted
  <2>9. Open(d)
    BY <1>2
  <2> HIDE DEF c, d, units, karma
  <2>10. units \in Int /\ karma \in Int
    BY <2>6, <2>7, <2>8
  <2>11. c.wkarma + units + Len(d.out) + d.rkarma + karma = ClientKarma
    BY <2>5, <2>6, <2>7, <2>8, <2>9, <2>10, Accounted
  <2> QED BY <2>11 DEF c, d, units, karma
<1> QED BY <1>2 DEF CreditConserved

\* While both ends of a connection are open no credit is lost or made: what the
\* sender may still send, what is on its way, what waits in out_buf, what is still
\* to be acknowledged and what is acknowledged but not yet read add up to
\* CLIENT_KARMA (mainw, mainr, clientw, clientr).
THEOREM CreditAlwaysConserved == Spec => []CreditConserved
<1>1. Spec => []IInv
  BY Inductive
<1> QED BY <1>1, Conserved, PTL
=============================================================================
