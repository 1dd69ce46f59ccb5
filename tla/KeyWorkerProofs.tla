-------------------------- MODULE KeyWorkerProofs --------------------------
(***************************************************************************)
(* Proofs about the key server, for any number of keys, devices, threads   *)
(* and restarts.  The invariant of the files (FileInv) is preserved by     *)
(* each of the three transactions that write, one lemma each, whoever      *)
(* calls them; the rest of IInv relates the files to what the threads hold *)
(* between two transactions and is proved action by action.  What the      *)
(* usage counters count (UseInv) comes last, with an invariant of its own. *)
(***************************************************************************)
EXTENDS KeyWorker, TLAPS, FiniteSetTheorems

\* Every failure is reported: the put of a cursor whose result is not looked at
\* succeeds and so do the commits.
Reported == Faults \subseteq Aborts \cup {"consume"}

LEMMA AbortsOnly == Reported => "put" \notin Faults /\ "commit" \notin Faults
BY DEF Reported, Aborts

USE KeysAssumption, DevicesAssumption, DefaultAssumption, UsageAssumption,
    FaultsAssumption, BoundsAssumption

\* There is a key: thread variables start from it.
LEMMA NoKeyIsKey == NoKey \in Keys
BY DEF NoKey

-----------------------------------------------------------------------------
\* putKey keeps the files consistent.
LEMMA PutKeyInv ==
    ASSUME FileInv, NEW k \in Keys, NEW d \in Devices, PutKey(k, d), UNCHANGED taken
    PROVE  FileInv'
<1>1. PICK u \in FreshUsages :
        db' = [j \in Stored \cup {k} |->
                 IF j = k THEN [usage |-> u, device |-> d, num |-> next[d]] ELSE db[j]]
  BY DEF PutKey
<1>2. /\ k \notin Stored
      /\ queue' = queue \cup {[device |-> d, num |-> next[d], key |-> k]}
      /\ next' = [next EXCEPT ![d] = @ + 1]
  BY DEF PutKey, AppendEntry, Entry
<1>3. /\ Stored' = Stored \cup {k}
      /\ db'[k] = [usage |-> u, device |-> d, num |-> next[d]]
      /\ \A j \in Stored : db'[j] = db[j]
  BY <1>1, <1>2 DEF Stored
<1>4. /\ Stored \subseteq Keys /\ db \in [Stored -> Records] /\ queue \subseteq Entries
      /\ next \in [Devices -> Nat] /\ next[d] \in Nat /\ u \in Nat
  BY DEF FileInv, FileTypes
<1>5. FileTypes'
  <2>1. [usage |-> u, device |-> d, num |-> next[d]] \in Records
    BY <1>4 DEF Records
  <2>2. db' \in [Stored' -> Records]
    BY <1>1, <1>3, <1>4, <2>1
  <2>3. queue' \subseteq Entries
    BY <1>2, <1>4 DEF Entries
  <2>4. next' \in [Devices -> Nat]
    BY <1>2, <1>4
  <2> QED
    BY <1>3, <1>4, <2>2, <2>3, <2>4 DEF FileTypes
<1>6. UnusedIsQueued'
  BY <1>2, <1>3 DEF FileInv, UnusedIsQueued
<1>7. FreshNumbers'
  BY <1>2, <1>4 DEF FileInv, FreshNumbers, Entries
<1>8. QueuedOnce'
  <2>1. \A r \in queue : r.key # k /\ ~(r.device = d /\ r.num = next[d])
    BY <1>2, <1>4 DEF FileInv, QueuedOnce, FreshNumbers, Entries
  <2> QED
    BY <1>2, <1>3, <2>1 DEF FileInv, QueuedOnce
<1>9. TakenIsUsed'
  BY <1>2, <1>3 DEF FileInv, TakenIsUsed
<1> QED
  BY <1>5, <1>6, <1>7, <1>8, <1>9 DEF FileInv, TakenOnce

\* What getLastKeyDevice does: k is marked as used, and either its entry is taken
\* from the queue of d or k is a key of d and the queues stay as they are; if an
\* entry of k stays then, k is noted as passed over.
LEMMA GetLastEffect ==
    ASSUME Reported, FileInv, NEW k \in Keys, NEW d \in Devices, GetLastKeyDevice(d, k)
    PROVE  /\ k \in Stored
           /\ db' = [db EXCEPT ![k].usage = Counted(@)]
           /\ next' = next
           /\ \/ \E r \in queue :
                   /\ r.device = d /\ r.key = k /\ queue' = queue \ {r}
                   /\ taken' = [taken EXCEPT ![k] = @ + 1]
              \/ /\ db[k].device = d
                 /\ queue' = queue /\ taken' = taken
<1>1. PICK c \in Choices(d) :
        /\ c.key = k
        /\ db' = [db EXCEPT ![k].usage = Counted(@)]
        /\ queue' = queue \ c.gone
        /\ taken' = IF c.gone = {} THEN taken ELSE [taken EXCEPT ![k] = @ + 1]
        /\ next' = next
  BY AbortsOnly DEF GetLastKeyDevice
<1>2. CASE \E r \in QueueOf(d) : r.key \in Stored /\ c = [key |-> r.key, gone |-> {r}]
  BY <1>1, <1>2 DEF QueueOf
<1>3. CASE \E j \in KeysAt(d) : c = [key |-> j, gone |-> {}]
  BY <1>1, <1>3 DEF KeysAt
<1> QED
  BY <1>2, <1>3 DEF Choices, LastOf

\* The keys passed over: none is forgotten, and of any other key that
\* getLastKeyDevice returns no entry is left.
LEMMA PassedOverGrows ==
    ASSUME NEW k \in Keys, NEW d \in Devices, GetLastKeyDevice(d, k)
    PROVE  /\ passedOver \subseteq passedOver' /\ passedOver' \subseteq passedOver \cup {k}
           /\ k \notin passedOver' => \A r \in queue' : r.key # k
BY DEF GetLastKeyDevice

\* The record of a key after one more use.
LEMMA UsedRecord ==
    ASSUME FileTypes, NEW k \in Stored, db' = [db EXCEPT ![k].usage = Counted(@)]
    PROVE  /\ Stored' = Stored
           /\ db' \in [Stored -> Records]
           /\ db'[k].usage > 0
           /\ db'[k].device = db[k].device /\ db'[k].num = db[k].num
           /\ \A j \in Stored \ {k} : db'[j] = db[j]
<1>1. db \in [Stored -> Records] /\ db[k] \in Records
  BY DEF FileTypes
<1>2. Counted(db[k].usage) \in Nat /\ Counted(db[k].usage) > 0
  BY <1>1 DEF Counted, Records
<1>3. db' = [db EXCEPT ![k] = [db[k] EXCEPT !.usage = Counted(db[k].usage)]]
  OBVIOUS
<1>4. [db[k] EXCEPT !.usage = Counted(db[k].usage)] \in Records
  BY <1>1, <1>2 DEF Records
<1>5. db'[k] = [db[k] EXCEPT !.usage = Counted(db[k].usage)]
  BY <1>1, <1>3
<1> QED
  BY <1>1, <1>2, <1>3, <1>4, <1>5 DEF Stored, Records

\* getLastKeyDevice keeps the files consistent.
LEMMA GetLastInv ==
    ASSUME Reported, FileInv, NEW k \in Keys, NEW d \in Devices, GetLastKeyDevice(d, k)
    PROVE  FileInv'
<1>1. /\ k \in Stored
      /\ db' = [db EXCEPT ![k].usage = Counted(@)]
      /\ next' = next
  BY GetLastEffect
<1>2. /\ Stored' = Stored
      /\ db' \in [Stored -> Records]
      /\ db'[k].usage > 0
      /\ \A j \in Stored \ {k} : db'[j] = db[j]
  BY <1>1, UsedRecord DEF FileInv
<1>3. CASE \E r \in queue :
             /\ r.device = d /\ r.key = k /\ queue' = queue \ {r}
             /\ taken' = [taken EXCEPT ![k] = @ + 1]
  <2>1. PICK r \in queue :
             /\ r.device = d /\ r.key = k /\ queue' = queue \ {r}
             /\ taken' = [taken EXCEPT ![k] = @ + 1]
    BY <1>3
  <2>2. taken[k] = 0 /\ taken' \in [Keys -> Nat] /\ taken'[k] = 1
    BY <2>1 DEF FileInv, TakenIsUsed
  <2>3. \A q \in queue' : q.key # k
    BY <2>1 DEF FileInv, QueuedOnce
  <2>4. FileTypes'
    BY <1>1, <1>2, <2>1 DEF FileInv, FileTypes
  <2>5. UnusedIsQueued'
    BY <1>2, <2>1 DEF FileInv, UnusedIsQueued
  <2>6. QueuedOnce' /\ FreshNumbers'
    <3>1. QueuedOnce'
      BY <1>2, <2>1 DEF FileInv, QueuedOnce
    <3>2. FreshNumbers'
      BY <1>1, <2>1 DEF FileInv, FreshNumbers
    <3> QED
      BY <3>1, <3>2
  <2>7. TakenOnce'
    BY <2>1, <2>2 DEF FileInv, TakenOnce
  <2>8. TakenIsUsed'
    <3> SUFFICES ASSUME NEW j \in Keys, taken'[j] > 0
                 PROVE  j \in Stored' /\ db'[j].usage > 0 /\ \A q \in queue' : q.key # j
      BY DEF TakenIsUsed
    <3>1. CASE j = k
      BY <1>1, <1>2, <2>3, <3>1
    <3>2. CASE j # k
      <4>1. taken[j] > 0
        BY <2>1, <3>2 DEF FileInv
      <4> QED
        BY <1>2, <2>1, <3>2, <4>1 DEF FileInv, TakenIsUsed
    <3> QED
      BY <3>1, <3>2
  <2> QED
    BY <2>2, <2>4, <2>5, <2>6, <2>7, <2>8 DEF FileInv
<1>4. CASE db[k].device = d /\ queue' = queue /\ taken' = taken
  <2>1. FileTypes'
    BY <1>1, <1>2, <1>4 DEF FileInv, FileTypes
  <2>2. UnusedIsQueued'
    BY <1>2, <1>4 DEF FileInv, UnusedIsQueued
  <2>3. QueuedOnce' /\ FreshNumbers' /\ TakenOnce'
    BY <1>1, <1>2, <1>4 DEF FileInv, QueuedOnce, FreshNumbers, TakenOnce
  <2>4. TakenIsUsed'
    BY <1>2, <1>4 DEF FileInv, TakenIsUsed
  <2> QED
    BY <1>4, <2>1, <2>2, <2>3, <2>4 DEF FileInv
<1> QED
  BY <1>3, <1>4, GetLastEffect

\* assignDeviceBySha keeps the files consistent; while k is unused, the entry it
\* deletes is that of k.
LEMMA AssignInv ==
    ASSUME FileInv, NEW k \in Keys, NEW d \in Devices, AssignDeviceBySha(k, d), UNCHANGED taken
    PROVE  /\ FileInv'
           /\ Stored' = Stored /\ k \in Stored
           /\ db'[k].device = d /\ db'[k].usage = db[k].usage
           /\ \A j \in Stored \ {k} : db'[j] = db[j]
           /\ \A r \in queue' : r \in queue \/ r.key = k
           /\ db[k].usage # 0 => queue' = queue
<1>1. /\ k \in Stored /\ db \in [Stored -> Records] /\ db[k] \in Records
      /\ next \in [Devices -> Nat] /\ next[d] \in Nat /\ queue \subseteq Entries
  BY DEF FileInv, FileTypes, AssignDeviceBySha
<1>2. CASE db[k].usage = 0
  <2>1. /\ queue' = (queue \ EntryOf(k)) \cup {[device |-> d, num |-> next[d], key |-> k]}
        /\ next' = [next EXCEPT ![d] = @ + 1]
        /\ db' = [db EXCEPT ![k] = [db[k] EXCEPT !.device = d, !.num = next[d]]]
    BY <1>1, <1>2 DEF AssignDeviceBySha, AppendEntry, Entry
  <2>2. [db[k] EXCEPT !.device = d, !.num = next[d]] \in Records
    BY <1>1 DEF Records
  <2>3. /\ Stored' = Stored /\ db' \in [Stored -> Records]
        /\ db'[k] = [db[k] EXCEPT !.device = d, !.num = next[d]]
        /\ \A j \in Stored \ {k} : db'[j] = db[j]
    BY <1>1, <2>1, <2>2 DEF Stored
  <2>4. /\ db'[k].usage = 0 /\ db'[k].device = d /\ db'[k].num = next[d]
    BY <1>1, <1>2, <2>3 DEF Records
  <2>5. \A r \in queue : r \in EntryOf(k) <=> r.key = k
    <3> DEFINE e == [device |-> db[k].device, num |-> db[k].num, key |-> k]
    <3>1. e \in queue
      BY <1>1, <1>2 DEF FileInv, UnusedIsQueued
    <3> SUFFICES ASSUME NEW r \in queue
                 PROVE  r \in EntryOf(k) <=> r.key = k
      OBVIOUS
    <3>2. r.key = e.key \/ (r.device = e.device /\ r.num = e.num) => r = e
      BY <3>1 DEF FileInv, QueuedOnce
    <3> QED
      BY <3>2 DEF EntryOf
  <2>6. FileTypes'
    <3>1. queue' \subseteq Entries
      BY <1>1, <2>1 DEF Entries
    <3>2. next' \in [Devices -> Nat]
      BY <1>1, <2>1
    <3> QED
      BY <1>1, <2>3, <3>1, <3>2 DEF FileInv, FileTypes
  <2>7. UnusedIsQueued'
    <3> SUFFICES ASSUME NEW j \in Stored, db'[j].usage = 0
                 PROVE  [device |-> db'[j].device, num |-> db'[j].num, key |-> j] \in queue'
      BY <2>3 DEF UnusedIsQueued
    <3>1. CASE j = k
      BY <2>1, <2>4, <3>1
    <3>2. CASE j # k
      BY <2>1, <2>3, <2>5, <3>2 DEF FileInv, UnusedIsQueued
    <3> QED
      BY <3>1, <3>2
  <2>8. FreshNumbers'
    BY <1>1, <2>1 DEF FileInv, FreshNumbers, Entries
  <2>9. QueuedOnce'
    <3>1. \A r \in queue : ~(r.device = d /\ r.num = next[d])
      BY <1>1 DEF FileInv, FreshNumbers, Entries
    <3> QED
      BY <1>1, <2>1, <2>3, <2>5, <3>1 DEF FileInv, QueuedOnce
  <2>10. TakenIsUsed'
    BY <1>1, <1>2, <2>1, <2>3 DEF FileInv, TakenIsUsed
  <2> QED
    BY <1>1, <1>2, <2>1, <2>3, <2>4, <2>6, <2>7, <2>8, <2>9, <2>10 DEF FileInv, TakenOnce
<1>3. CASE db[k].usage # 0
  <2>1. db' = [db EXCEPT ![k] = [db[k] EXCEPT !.device = d]] /\ queue' = queue /\ next' = next
    BY <1>3 DEF AssignDeviceBySha
  <2>2. [db[k] EXCEPT !.device = d] \in Records
    BY <1>1 DEF Records
  <2>3. /\ Stored' = Stored /\ db' \in [Stored -> Records]
        /\ db'[k] = [db[k] EXCEPT !.device = d]
        /\ \A j \in Stored \ {k} : db'[j] = db[j]
    BY <1>1, <2>1, <2>2 DEF Stored
  <2>4. db'[k].usage = db[k].usage /\ db'[k].device = d
    BY <1>1, <2>3 DEF Records
  <2>5. FileTypes'
    BY <1>1, <2>1, <2>3 DEF FileInv, FileTypes
  <2>6. UnusedIsQueued'
    BY <1>3, <2>1, <2>3, <2>4 DEF FileInv, UnusedIsQueued
  <2>7. QueuedOnce' /\ FreshNumbers'
    BY <2>1, <2>3 DEF FileInv, QueuedOnce, FreshNumbers
  <2>8. TakenIsUsed'
    BY <2>1, <2>3, <2>4 DEF FileInv, TakenIsUsed
  <2> QED
    BY <1>1, <2>1, <2>3, <2>4, <2>5, <2>6, <2>7, <2>8 DEF FileInv, TakenOnce
<1> QED
  BY <1>2, <1>3

-----------------------------------------------------------------------------
\* HolderInv is kept by every step that lets no thread hold a new key, gives none away,
\* moves no key to another device and queues only new keys.
LEMMA HolderFrame ==
    ASSUME TypeOK, FileInv, HolderInv,
           \A t \in Threads : pc'[t] = "assign" => pc[t] = "assign" /\ lastKey'[t] = lastKey[t],
           given' = given, contested' = contested, passedOver \subseteq passedOver',
           Stored \subseteq Stored',
           \A j \in Stored : /\ db'[j].device = db[j].device
                             /\ db[j].usage > 0 => db'[j].usage > 0,
           \A r \in queue' : r \in queue \/ (r.key \notin Stored /\ r.device = db'[r.key].device)
    PROVE  HolderInv'
<1>1. HandedOutIsUsed'
  BY DEF HolderInv, HandedOutIsUsed
<1>2. GivenIsStored'
  BY DEF HolderInv, GivenIsStored
<1>3. ASSUME NEW k \in Keys \ (contested \cup passedOver)' PROVE Uncontested(k)'
  <2>1. Uncontested(k)
    BY <1>3 DEF HolderInv
  <2>2. \A s, t \in Threads :
          pc'[s] = "assign" /\ pc'[t] = "assign" /\ lastKey'[s] = k /\ lastKey'[t] = k => s = t
    BY <2>1 DEF Uncontested
  <2>3. given[k] # {} => k \in Stored
    BY DEF HolderInv, GivenIsStored
  <2>4. \A a \in given'[k] : a = db'[k].device
    BY <2>1, <2>3 DEF Uncontested
  <2>5. \A r \in queue' : r.key = k => r.device = db'[k].device
    BY <2>1 DEF Uncontested, FileInv, QueuedOnce
  <2>6. ASSUME NEW t \in Threads, pc'[t] = "assign", lastKey'[t] = k
        PROVE  given'[k] = {} /\ db'[k].device = 0 /\ \A r \in queue' : r.key # k
    <3>1. pc[t] = "assign" /\ lastKey[t] = k
      BY <2>6
    <3>2. k \in Stored
      BY <3>1 DEF HolderInv, HandedOutIsUsed
    <3> QED
      BY <2>1, <3>1, <3>2 DEF Uncontested
  <2> QED
    BY <2>2, <2>4, <2>5, <2>6 DEF Uncontested
<1> QED
  BY <1>1, <1>2, <1>3 DEF HolderInv

\* The parts that putKey gives to HolderFrame.
LEMMA PutKeyHolds ==
    ASSUME FileInv, NEW k \in Keys, NEW d \in Devices, PutKey(k, d)
    PROVE  /\ Stored \subseteq Stored'
           /\ \A j \in Stored : db'[j] = db[j]
           /\ \A r \in queue' : r \in queue \/ (r.key \notin Stored /\ r.device = db'[r.key].device)
<1>1. PICK u \in FreshUsages :
        db' = [j \in Stored \cup {k} |->
                 IF j = k THEN [usage |-> u, device |-> d, num |-> next[d]] ELSE db[j]]
  BY DEF PutKey
<1>2. /\ k \notin Stored
      /\ queue' = queue \cup {[device |-> d, num |-> next[d], key |-> k]}
  BY DEF PutKey, AppendEntry, Entry
<1>3. /\ Stored' = Stored \cup {k}
      /\ db'[k].device = d
      /\ \A j \in Stored : db'[j] = db[j]
  BY <1>1, <1>2 DEF Stored
<1> QED
  BY <1>2, <1>3

\* The parts that getLastKeyDevice gives to HolderFrame.
LEMMA GetLastHolds ==
    ASSUME Reported, FileInv, NEW k \in Keys, NEW d \in Devices, GetLastKeyDevice(d, k)
    PROVE  /\ Stored' = Stored /\ k \in Stored /\ db'[k].usage > 0
           /\ \A j \in Stored : /\ db'[j].device = db[j].device
                                /\ db[j].usage > 0 => db'[j].usage > 0
           /\ queue' \subseteq queue
           /\ passedOver \subseteq passedOver'
           /\ passedOver \subseteq Keys => passedOver' \subseteq Keys
<1>1. k \in Stored /\ db' = [db EXCEPT ![k].usage = Counted(@)] /\ queue' \subseteq queue
  BY GetLastEffect
<1>2. /\ Stored' = Stored
      /\ db'[k].usage > 0
      /\ db'[k].device = db[k].device
      /\ \A j \in Stored \ {k} : db'[j] = db[j]
  BY <1>1, UsedRecord DEF FileInv
<1> QED
  BY <1>1, <1>2, PassedOverGrows

-----------------------------------------------------------------------------
\* Startup has nine steps, each for one of the devices of the default keys.
LEMMA StartupSteps ==
    Serving = 10 /\ \A i \in 1..9 : Startup[i].device \in 0..2
BY DEF Serving, Startup

\* A step of main leaves it within Startup.
LEMMA NextStepType ==
    ASSUME step \in 1..Serving, step < Serving PROVE NextStep \in 1..Serving
BY StartupSteps DEF NextStep

\* The initial state: no keys, nobody serving.
LEMMA InitInv == Init => IInv
<1> SUFFICES ASSUME Init PROVE IInv
  OBVIOUS
<1>1. Stored = {} /\ db \in [Stored -> Records]
  BY DEF Init, Stored
<1>2. FileTypes
  BY <1>1 DEF Init, FileTypes
<1>3. ThreadTypes
  <2>1. <<>> \in Seq(Keys)
    OBVIOUS
  <2> QED
    BY <2>1, NoKeyIsKey DEF Init, Everyone, ThreadTypes
<1>4. TypeOK
  BY <1>2, <1>3, StartupSteps DEF Init, TypeOK
<1>5. FileInv
  BY <1>1, <1>4 DEF Init, TypeOK, FileInv, UnusedIsQueued, QueuedOnce, FreshNumbers,
     TakenOnce, TakenIsUsed
<1>6. HolderInv
  BY DEF Init, Everyone, HolderInv, HandedOutIsUsed, GivenIsStored, Uncontested
<1> QED
  BY <1>4, <1>5, <1>6 DEF IInv

\* The steps of main keep IInv.
LEMMA MainInv ==
    ASSUME Reported, IInv, Main PROVE IInv'
<1> USE DEF IInv
<1>1. CASE StartPut
  <2> DEFINE d == Startup[step].device
             k == DefaultKeys[d]
  <2>1. d \in 0..2 /\ d \in Devices /\ k \in Keys /\ step' \in 1..Serving
    BY <1>1, StartupSteps, NextStepType DEF StartPut, Starting, TypeOK
  <2>2. UNCHANGED <<threads, debug, starts, history>>
    BY <1>1 DEF StartPut
  <2>3. CASE PutKey(k, d)
    <3>1. FileInv'
      BY <2>1, <2>2, <2>3, PutKeyInv DEF history
    <3>2. HolderInv'
      BY <2>1, <2>2, <2>3, PutKeyHolds, HolderFrame DEF threads, history
    <3>3. TypeOK'
      BY <2>1, <2>2, <3>1 DEF TypeOK, ThreadTypes, FileInv, threads, history
    <3> QED
      BY <3>1, <3>2, <3>3
  <2>4. CASE UNCHANGED files
    <3>1. FileInv'
      BY <2>2, <2>4 DEF FileInv, FileTypes, Stored, UnusedIsQueued, QueuedOnce, FreshNumbers,
         TakenOnce, TakenIsUsed, files, history
    <3>2. HolderInv'
      BY <2>2, <2>4, HolderFrame DEF Stored, files, threads, history
    <3>3. TypeOK'
      BY <2>1, <2>2, <3>1 DEF TypeOK, ThreadTypes, FileInv, threads, history
    <3> QED
      BY <3>1, <3>2, <3>3
  <2> QED
    BY <1>1, <2>3, <2>4 DEF StartPut
<1>2. CASE StartGet
  <2>1. UNCHANGED <<files, threads, debug, starts, history>> /\ step' \in 1..Serving
    BY <1>2, StartupSteps, NextStepType DEF StartGet, Starting, TypeOK
  <2>2. FileInv'
    BY <2>1 DEF FileInv, FileTypes, Stored, UnusedIsQueued, QueuedOnce, FreshNumbers,
       TakenOnce, TakenIsUsed, files, history
  <2>3. HolderInv'
    BY <2>1, HolderFrame DEF Stored, files, threads, history
  <2>4. TypeOK'
    BY <2>1, <2>2 DEF TypeOK, ThreadTypes, FileInv, threads, history
  <2> QED
    BY <2>2, <2>3, <2>4
<1>3. CASE StartLast
  <2> DEFINE d == Startup[step].device
  <2>1. d \in 0..2 /\ d \in Devices /\ step' \in 1..Serving
    BY <1>3, StartupSteps, NextStepType DEF StartLast, Starting, TypeOK
  <2>2. UNCHANGED <<threads, debug, starts, given, contested>>
    BY <1>3 DEF StartLast
  <2>3. CASE \E k \in Keys : GetLastKeyDevice(d, k)
    <3>1. PICK k \in Keys : GetLastKeyDevice(d, k)
      BY <2>3
    <3>2. FileInv'
      BY <2>1, <3>1, GetLastInv
    <3>3. HolderInv'
      BY <2>1, <2>2, <3>1, GetLastHolds, HolderFrame DEF threads
    <3>4. TypeOK'
      BY <2>1, <2>2, <3>1, <3>2, GetLastHolds DEF TypeOK, ThreadTypes, FileInv, threads
    <3> QED
      BY <3>2, <3>3, <3>4
  <2>4. CASE UNCHANGED <<files, taken, passedOver>>
    <3>1. FileInv'
      BY <2>4 DEF FileInv, FileTypes, Stored, UnusedIsQueued, QueuedOnce, FreshNumbers,
         TakenOnce, TakenIsUsed, files
    <3>2. HolderInv'
      BY <2>2, <2>4, HolderFrame DEF Stored, files, threads
    <3>3. TypeOK'
      BY <2>1, <2>2, <2>4, <3>1 DEF TypeOK, ThreadTypes, FileInv, threads
    <3> QED
      BY <3>1, <3>2, <3>3
  <2> QED
    BY <1>3, <2>3, <2>4 DEF StartLast
<1>4. CASE StartAssign
  <2> DEFINE d == Startup[step].device
             k == DefaultKeys[0]
  <2>1. d \in 0..2 /\ d \in Devices /\ k \in Keys /\ step' \in 1..Serving
    BY <1>4, StartupSteps, NextStepType DEF StartAssign, Starting, TypeOK
  <2>2. UNCHANGED <<threads, debug, starts, taken, given, passedOver>>
    BY <1>4 DEF StartAssign
  <2>3. CASE AssignDeviceBySha(k, d) /\ contested' = contested \cup {k}
    <3>1. /\ FileInv'
          /\ Stored' = Stored /\ k \in Stored
          /\ db'[k].usage = db[k].usage
          /\ \A j \in Stored \ {k} : db'[j] = db[j]
          /\ \A r \in queue' : r \in queue \/ r.key = k
      BY <2>1, <2>2, <2>3, AssignInv
    <3>2. HandedOutIsUsed' /\ GivenIsStored'
      BY <2>2, <3>1 DEF HolderInv, HandedOutIsUsed, GivenIsStored, threads
    <3>3. ASSUME NEW j \in Keys \ (contested \cup passedOver)' PROVE Uncontested(j)'
      <4>1. j # k /\ Uncontested(j)
        BY <2>2, <2>3, <3>3 DEF HolderInv
      <4>2. given[j] # {} => j \in Stored
        BY DEF HolderInv, GivenIsStored
      <4>3. \A t \in Threads : pc[t] = "assign" => lastKey[t] \in Stored
        BY DEF HolderInv, HandedOutIsUsed
      <4> QED
        BY <2>2, <3>1, <4>1, <4>2, <4>3 DEF Uncontested, threads, FileInv, QueuedOnce
    <3>4. TypeOK'
      BY <2>1, <2>2, <2>3, <3>1 DEF TypeOK, ThreadTypes, FileInv, threads
    <3> QED
      BY <3>1, <3>2, <3>3, <3>4 DEF HolderInv
  <2>4. CASE UNCHANGED <<files, contested>>
    <3>1. FileInv'
      BY <2>2, <2>4 DEF FileInv, FileTypes, Stored, UnusedIsQueued, QueuedOnce, FreshNumbers,
         TakenOnce, TakenIsUsed, files
    <3>2. HolderInv'
      BY <2>2, <2>4, HolderFrame DEF Stored, files, threads
    <3>3. TypeOK'
      BY <2>1, <2>2, <2>4, <3>1 DEF TypeOK, ThreadTypes, FileInv, threads
    <3> QED
      BY <3>1, <3>2, <3>3
  <2> QED
    BY <1>4, <2>3, <2>4 DEF StartAssign
<1> QED
  BY <1>1, <1>2, <1>3, <1>4 DEF Main

\* A step that leaves files and history alone and lets nobody hold a key anew keeps
\* the files and the holders as they were.
LEMMA QuietInv ==
    ASSUME IInv, UNCHANGED <<files, history>>,
           \A t \in Threads : pc'[t] = "assign" => pc[t] = "assign" /\ lastKey'[t] = lastKey[t]
    PROVE  FileInv' /\ HolderInv'
<1>1. FileInv'
  BY DEF IInv, FileInv, FileTypes, Stored, UnusedIsQueued, QueuedOnce, FreshNumbers,
     TakenOnce, TakenIsUsed, files, history
<1>2. HolderInv'
  BY HolderFrame DEF IInv, Stored, files, history
<1> QED
  BY <1>1, <1>2

\* A request that starts: if nobody else holds the key it gets, that key is one of
\* device 0, not given away and in no queue any more.
LEMMA RequestInv ==
    ASSUME Reported, IInv, NEW t \in Threads, NEW d \in Devices, Request(t, d)
    PROVE  IInv'
<1>1. PICK k \in Keys :
        /\ GetLastKeyDevice(0, k)
        /\ lastKey' = [lastKey EXCEPT ![t] = k]
        /\ contested' = IF \E s \in Threads : pc[s] = "assign" /\ lastKey[s] = k
                        THEN contested \cup {k} ELSE contested
  BY DEF Request
<1>2. /\ realdeviceId' = [realdeviceId EXCEPT ![t] = d]
      /\ pc' = [pc EXCEPT ![t] = "assign"]
      /\ UNCHANGED <<buff, main, given>>
      /\ pc[t] = "idle"
  BY DEF Request, Idle
<1>3. /\ Stored' = Stored /\ k \in Stored /\ db'[k].usage > 0
      /\ \A j \in Stored : /\ db'[j].device = db[j].device
                           /\ db[j].usage > 0 => db'[j].usage > 0
      /\ queue' \subseteq queue
      /\ passedOver \subseteq passedOver'
      /\ passedOver \subseteq Keys => passedOver' \subseteq Keys
  BY <1>1, GetLastHolds DEF IInv
<1>4. FileInv'
  BY <1>1, GetLastInv DEF IInv
<1>5. /\ pc' \in [Threads -> {"idle", "assign", "put"}]
      /\ lastKey' \in [Threads -> Keys]
      /\ pc'[t] = "assign" /\ lastKey'[t] = k
      /\ \A s \in Threads \ {t} : pc'[s] = pc[s] /\ lastKey'[s] = lastKey[s]
  BY <1>1, <1>2 DEF IInv, TypeOK, ThreadTypes
<1>6. TypeOK'
  BY <1>1, <1>2, <1>3, <1>4, <1>5 DEF IInv, TypeOK, ThreadTypes, FileInv, main
<1>7. HandedOutIsUsed'
  BY <1>3, <1>5 DEF IInv, HolderInv, HandedOutIsUsed
<1>8. GivenIsStored'
  BY <1>2, <1>3 DEF IInv, HolderInv, GivenIsStored
<1>9. ASSUME NEW j \in Keys \ (contested \cup passedOver)' PROVE Uncontested(j)'
  <2>1. Uncontested(j) /\ j \notin contested
    BY <1>1, <1>3, <1>9 DEF IInv, HolderInv
  <2>2. given[j] # {} => j \in Stored /\ 0 \notin given[j]
    BY DEF IInv, HolderInv, GivenIsStored
  <2>3. \A s \in Threads : pc[s] = "assign" => lastKey[s] \in Stored
    BY DEF IInv, HolderInv, HandedOutIsUsed
  <2>4. CASE j # k
    BY <1>2, <1>3, <1>5, <2>1, <2>2, <2>3, <2>4 DEF Uncontested, IInv, FileInv, QueuedOnce
  <2>5. CASE j = k
    <3>1. \A s \in Threads : ~(pc[s] = "assign" /\ lastKey[s] = k)
      BY <1>1, <1>9, <2>5
    <3>2. db[k].device = 0 /\ \A r \in queue' : r.key # k
      <4>1. CASE \E r \in queue : r.device = 0 /\ r.key = k /\ queue' = queue \ {r}
        BY <2>1, <2>5, <4>1 DEF Uncontested, IInv, FileInv, QueuedOnce
      <4>2. CASE db[k].device = 0 /\ queue' = queue
        BY <1>1, <1>9, <2>5, <4>2, PassedOverGrows
      <4> QED
        BY <1>1, <4>1, <4>2, GetLastEffect DEF IInv
    <3>3. given[k] = {}
      BY <2>1, <2>2, <2>5, <3>2 DEF Uncontested
    <3> QED
      BY <1>2, <1>3, <1>5, <2>5, <3>1, <3>2, <3>3 DEF Uncontested
  <2> QED
    BY <2>4, <2>5
<1> QED
  BY <1>4, <1>6, <1>7, <1>8, <1>9 DEF IInv, HolderInv

\* What the handler leaves behind when it ends.
LEMMA DoneEffect ==
    ASSUME TypeOK, NEW t \in Threads, Done(t)
    PROVE  /\ ThreadTypes'
           /\ pc'[t] = "idle"
           /\ \A s \in Threads \ {t} : pc'[s] = pc[s] /\ lastKey'[s] = lastKey[s]
BY NoKeyIsKey DEF Done, TypeOK, ThreadTypes

\* A request that ends with an answer: the key now belongs to the device.
LEMMA AssignStepInv ==
    ASSUME IInv, NEW t \in Threads, Assign(t)
    PROVE  IInv'
<1> DEFINE k == lastKey[t]
           d == realdeviceId[t]
<1>1. /\ k \in Keys /\ d \in Devices /\ pc[t] = "assign"
      /\ k \in Stored /\ db[k].usage > 0
  BY DEF Assign, IInv, TypeOK, ThreadTypes, HolderInv, HandedOutIsUsed
<1>2. /\ AssignDeviceBySha(k, d)
      /\ given' = [given EXCEPT ![k] = @ \cup ({d} \ {0})]
      /\ UNCHANGED <<main, taken, contested, passedOver>>
  BY DEF Assign
<1>3. /\ ThreadTypes' /\ pc'[t] = "idle"
      /\ \A s \in Threads \ {t} : pc'[s] = pc[s] /\ lastKey'[s] = lastKey[s]
  BY DoneEffect DEF Assign, IInv
<1>4. /\ FileInv' /\ Stored' = Stored
      /\ db'[k].device = d /\ db'[k].usage > 0
      /\ \A j \in Stored \ {k} : db'[j] = db[j]
      /\ queue' = queue
  <2>1. db[k].usage # 0
    BY <1>1 DEF IInv, FileInv, FileTypes, Records
  <2> HIDE DEF k, d
  <2> QED
    BY <1>1, <1>2, <2>1, AssignInv DEF IInv
<1>5. /\ given' \in [Keys -> SUBSET Devices]
      /\ given'[k] = given[k] \cup ({d} \ {0})
      /\ \A j \in Keys \ {k} : given'[j] = given[j]
  BY <1>1, <1>2 DEF IInv, TypeOK
<1>6. TypeOK'
  BY <1>2, <1>3, <1>4, <1>5 DEF IInv, TypeOK, FileInv, main
<1>7. HandedOutIsUsed'
  BY <1>3, <1>4 DEF IInv, HolderInv, HandedOutIsUsed
<1>8. GivenIsStored'
  BY <1>1, <1>4, <1>5 DEF IInv, HolderInv, GivenIsStored
<1>9. ASSUME NEW j \in Keys \ (contested \cup passedOver)' PROVE Uncontested(j)'
  <2>1. Uncontested(j)
    BY <1>2, <1>9 DEF IInv, HolderInv
  <2>2. given[j] # {} => j \in Stored
    BY DEF IInv, HolderInv, GivenIsStored
  <2>3. \A s \in Threads : pc[s] = "assign" => lastKey[s] \in Stored
    BY DEF IInv, HolderInv, HandedOutIsUsed
  <2>4. CASE j # k
    <3> HIDE DEF k, d
    <3>1. /\ given'[j] = given[j]
          /\ j \in Stored => db'[j] = db[j]
          /\ \A s \in Threads : pc'[s] = "assign" => pc[s] = "assign" /\ lastKey'[s] = lastKey[s]
      BY <1>3, <1>4, <1>5, <2>4
    <3>2. \A r \in queue : r.key = j => j \in Stored
      BY DEF IInv, FileInv, QueuedOnce
    <3> QED
      BY <1>4, <2>1, <2>2, <2>3, <3>1, <3>2 DEF Uncontested
  <2>5. CASE j = k
    <3> HIDE DEF d
    <3>1. \A s \in Threads : ~(pc'[s] = "assign" /\ lastKey'[s] = k)
      <4>1. \A s \in Threads : pc[s] = "assign" /\ lastKey[s] = k => s = t
        BY <1>1, <2>1, <2>5 DEF Uncontested
      <4> QED
        BY <1>3, <4>1
    <3>2. given[k] = {} /\ \A r \in queue : r.key # k
      BY <1>1, <2>1, <2>5 DEF Uncontested
    <3> QED
      BY <1>4, <1>5, <2>5, <3>1, <3>2 DEF Uncontested
  <2> QED
    BY <2>4, <2>5
<1> QED
  BY <1>4, <1>6, <1>7, <1>8, <1>9 DEF IInv, HolderInv

\* A list of keys that is not empty has a first key and a rest.
LEMMA HeadTail ==
    ASSUME NEW s \in Seq(Keys), s # <<>>
    PROVE  /\ Head(s) \in Keys
           /\ Tail(s) \in Seq(Keys)
           /\ Len(s) # 1 => Tail(s) # <<>>
<1>1. Len(s) \in Nat /\ Len(s) > 0
  OBVIOUS
<1>2. Tail(s) \in Seq(Keys) /\ Len(Tail(s)) = Len(s) - 1
  BY <1>1
<1>3. Head(s) \in Keys
  BY <1>1
<1>4. ASSUME Len(s) # 1 PROVE Tail(s) # <<>>
  <2>1. Len(Tail(s)) # 0
    BY <1>1, <1>2, <1>4
  <2>2. Len(<<>>) = 0
    OBVIOUS
  <2> QED
    BY <2>1, <2>2
<1> QED
  BY <1>2, <1>3, <1>4

\* The other handlers: a request without an answer, "last", and the uploads.
LEMMA ThreadInv ==
    ASSUME Reported, IInv, NEW t \in Threads, Thread(t)
    PROVE  IInv'
<1>1. CASE \E d \in Devices : Request(t, d)
  BY <1>1, RequestInv
<1>2. CASE \E d \in Devices : Last(t, d)
  <2>1. PICK d \in Devices, k \in Keys : GetLastKeyDevice(d, k)
    BY <1>2 DEF Last
  <2>2. UNCHANGED <<threads, main, given, contested>>
    BY <1>2 DEF Last
  <2>3. FileInv'
    BY <2>1, GetLastInv DEF IInv
  <2>4. HolderInv'
    BY <2>1, <2>2, GetLastHolds, HolderFrame DEF IInv, threads
  <2>5. TypeOK'
    BY <2>1, <2>2, <2>3, GetLastHolds DEF IInv, TypeOK, ThreadTypes, FileInv, threads, main
  <2> QED
    BY <2>3, <2>4, <2>5 DEF IInv
<1>3. CASE \E list \in Uploads : Upload(t, list)
  <2>1. PICK list \in Uploads : Upload(t, list)
    BY <1>3
  <2>2. list \in Seq(Keys) /\ list # <<>>
    BY DEF Uploads
  <2>3. /\ pc' = [pc EXCEPT ![t] = "put"] /\ buff' = [buff EXCEPT ![t] = list]
        /\ UNCHANGED <<files, lastKey, realdeviceId, main, history>>
    BY <2>1 DEF Upload
  <2>4. FileInv' /\ HolderInv'
    BY <2>3, QuietInv DEF IInv, TypeOK, ThreadTypes
  <2>5. TypeOK'
    BY <2>2, <2>3, <2>4 DEF IInv, TypeOK, ThreadTypes, FileInv, main, history
  <2> QED
    BY <2>4, <2>5 DEF IInv
<1>4. CASE Assign(t)
  BY <1>4, AssignStepInv
<1>5. CASE AssignFails(t)
  <2>1. ThreadTypes' /\ \A s \in Threads : pc'[s] = "assign" => pc[s] = "assign" /\ lastKey'[s] = lastKey[s]
    BY <1>5, DoneEffect DEF AssignFails, IInv
  <2>2. UNCHANGED <<files, main, history>>
    BY <1>5 DEF AssignFails
  <2>3. FileInv' /\ HolderInv'
    BY <2>1, <2>2, QuietInv
  <2>4. TypeOK'
    BY <2>1, <2>2, <2>3 DEF IInv, TypeOK, FileInv, main, history
  <2> QED
    BY <2>3, <2>4 DEF IInv
<1>6. CASE UploadKey(t)
  <2> DEFINE k == Head(buff[t])
  <2>1. /\ pc[t] = "put" /\ buff[t] \in Seq(Keys) /\ buff[t] # <<>>
        /\ buff' = [buff EXCEPT ![t] = Tail(buff[t])]
        /\ pc' = [pc EXCEPT ![t] = IF Len(buff[t]) = 1 THEN "idle" ELSE "put"]
        /\ UNCHANGED <<lastKey, realdeviceId, main, history>>
    BY <1>6 DEF UploadKey, IInv, TypeOK, ThreadTypes
  <2>2. /\ k \in Keys
        /\ Tail(buff[t]) \in Seq(Keys)
        /\ Len(buff[t]) # 1 => Tail(buff[t]) # <<>>
    BY <2>1, HeadTail
  <2>3. ThreadTypes'
    BY <2>1, <2>2 DEF IInv, TypeOK, ThreadTypes
  <2>4. \A s \in Threads : pc'[s] = "assign" => pc[s] = "assign" /\ lastKey'[s] = lastKey[s]
    BY <2>1 DEF IInv, TypeOK, ThreadTypes
  <2>5. CASE PutKey(k, 0)
    <3> HIDE DEF k
    <3>1. FileInv'
      BY <2>1, <2>2, <2>5, PutKeyInv DEF IInv, history
    <3>2. HolderInv'
      BY <2>1, <2>2, <2>4, <2>5, PutKeyHolds, HolderFrame DEF IInv, history
    <3>3. TypeOK'
      BY <2>1, <2>3, <3>1 DEF IInv, TypeOK, FileInv, main, history
    <3> QED
      BY <3>1, <3>2, <3>3 DEF IInv
  <2>6. CASE UNCHANGED files
    <3>1. FileInv' /\ HolderInv'
      BY <2>1, <2>4, <2>6, QuietInv
    <3>2. TypeOK'
      BY <2>1, <2>3, <3>1 DEF IInv, TypeOK, FileInv, main, history
    <3> QED
      BY <3>1, <3>2 DEF IInv
  <2> QED
    BY <1>6, <2>5, <2>6 DEF UploadKey
<1> QED
  BY <1>1, <1>2, <1>3, <1>4, <1>5, <1>6 DEF Thread

\* A restart keeps what the files hold and forgets the rest.
LEMMA RestartInv ==
    ASSUME IInv, Restart PROVE IInv'
<1>1. UNCHANGED <<files, history>> /\ pc' = Everyone("idle")
  BY DEF Restart
<1>2. FileInv' /\ HolderInv'
  BY <1>1, QuietInv DEF Everyone
<1>3. ThreadTypes'
  <2>1. <<>> \in Seq(Keys)
    OBVIOUS
  <2> QED
    BY <2>1, NoKeyIsKey DEF Restart, Everyone, ThreadTypes
<1>4. TypeOK'
  BY <1>1, <1>2, <1>3, StartupSteps DEF Restart, IInv, TypeOK, FileInv, history
<1> QED
  BY <1>2, <1>4 DEF IInv

\* Every step keeps IInv.
LEMMA NextInv ==
    ASSUME Reported, IInv, [Next]_vars PROVE IInv'
<1>1. CASE Next
  BY <1>1, MainInv, ThreadInv, RestartInv DEF Next
<1>2. CASE UNCHANGED vars
  <2>1. UNCHANGED <<files, history>> /\ UNCHANGED threads /\ UNCHANGED main
    BY <1>2 DEF vars
  <2>2. FileInv' /\ HolderInv'
    BY <2>1, QuietInv DEF threads
  <2>3. TypeOK'
    BY <2>1, <2>2 DEF IInv, TypeOK, ThreadTypes, FileInv, threads, main, history
  <2> QED
    BY <2>2, <2>3 DEF IInv
<1> QED
  BY <1>1, <1>2

-----------------------------------------------------------------------------
\* IInv always holds as long as failures are reported.
THEOREM Invariance ==
    ASSUME Reported PROVE Spec => []IInv
<1>1. Init => IInv
  BY InitInv
<1>2. IInv /\ [Next]_vars => IInv'
  BY NextInv
<1> QED
  BY <1>1, <1>2, PTL DEF Spec

\* The variables keep their types.
THEOREM TypeCorrect ==
    ASSUME Reported PROVE Spec => []TypeOK
BY Invariance, PTL DEF IInv

\* keys.db and the queues agree: every unused key is in the queue of its device, at
\* the place keys.db names.
THEOREM FilesAgree ==
    ASSUME Reported PROVE Spec => []UnusedIsQueued
<1>1. IInv => UnusedIsQueued
  BY DEF IInv, FileInv
<1> QED
  BY <1>1, Invariance, PTL

\* No two entries of the queues, of whichever devices, are of the same key: moving
\* a key to another device (assignDeviceBySha) leaves nothing behind.
THEOREM EntriesOnce ==
    ASSUME Reported PROVE Spec => []QueuedOnce
<1>1. IInv => QueuedOnce
  BY DEF IInv, FileInv
<1> QED
  BY <1>1, Invariance, PTL

\* No key is handed out as unused twice, whatever threads and restarts do.
THEOREM UnusedOnce ==
    ASSUME Reported PROVE Spec => []TakenOnce
<1>1. IInv => TakenOnce
  BY DEF IInv, FileInv
<1> QED
  BY <1>1, Invariance, PTL

\* A key that getLastKeyDevice returned to a request is marked as used.
THEOREM RequestedIsUsed ==
    ASSUME Reported PROVE Spec => []HandedOutIsUsed
<1>1. IInv => HandedOutIsUsed
  BY DEF IInv, HolderInv
<1> QED
  BY <1>1, Invariance, PTL

\* Only requests that overlap, main's trial, or a DB_CONSUME that passed over the
\* key while it was queued give a key to two devices (getLastKeyDevice,
\* assignDeviceBySha).
THEOREM OneDeviceUnlessMishap ==
    ASSUME Reported PROVE Spec => []SharedOnlyByMishap
<1>1. IInv => SharedOnlyByMishap
  <2> SUFFICES ASSUME IInv, NEW k \in Keys \ (contested \cup passedOver),
                      NEW a \in given[k], NEW b \in given[k]
               PROVE  a = b
    BY DEF SharedOnlyByMishap
  <2> QED
    BY DEF IInv, HolderInv, Uncontested
<1> QED
  BY <1>1, Invariance, PTL

-----------------------------------------------------------------------------
\* Uses of a key that count: the devices it was given to and the requests that
\* hold it between their two transactions.
Holding(k) == {t \in Threads : pc[t] = "assign" /\ lastKey[t] = k}
Covered(k) ==
    /\ IsFiniteSet(given[k]) /\ IsFiniteSet(Holding(k))
    /\ k \in Stored /\ db[k].usage < UsageLimit =>
         Cardinality(given[k]) + Cardinality(Holding(k)) <= db[k].usage
UseInv == \A k \in Keys : Covered(k)

LEMMA InitUse == Init => UseInv
<1> SUFFICES ASSUME Init, NEW k \in Keys PROVE Covered(k)
  BY DEF UseInv
<1>1. given[k] = {}
  BY DEF Init
<1>2. Holding(k) = {}
  BY DEF Init, Everyone, Holding
<1>3. k \notin Stored
  BY DEF Init, Stored
<1>4. IsFiniteSet({})
  BY FS_EmptySet
<1> QED
  BY ONLY Zenon, <1>1, <1>2, <1>3, <1>4 DEF Covered

\* Counting a use: the counter grows by one, or has reached its limit.
LEMMA CountedUse ==
    ASSUME NEW u \in Nat, Counted(u) < UsageLimit
    PROVE  u < UsageLimit /\ Counted(u) = u + 1
BY DEF Counted

\* UseInv is kept by every step that lets no thread hold a new key, gives none away
\* and lowers no counter.
LEMMA UseFrame ==
    ASSUME IInv, UseInv, FileTypes', given' = given, Stored \subseteq Stored',
           \A t \in Threads : pc'[t] = "assign" => pc[t] = "assign" /\ lastKey'[t] = lastKey[t],
           \A j \in Stored : db'[j].usage \in {db[j].usage, Counted(db[j].usage)}
    PROVE  UseInv'
<1> SUFFICES ASSUME NEW k \in Keys PROVE Covered(k)'
  BY DEF UseInv
<1>1. Covered(k)
  BY DEF UseInv
<1> DEFINE H == {t \in Threads : pc[t] = "assign" /\ lastKey[t] = k}
           G == {t \in Threads : pc'[t] = "assign" /\ lastKey'[t] = k}
<1>2. G \in SUBSET H /\ IsFiniteSet(H) /\ IsFiniteSet(given[k])
  BY <1>1 DEF Covered, Holding
<1>3. /\ IsFiniteSet(G) /\ Cardinality(G) <= Cardinality(H)
      /\ Cardinality(G) \in Nat /\ Cardinality(H) \in Nat /\ Cardinality(given[k]) \in Nat
  <2> HIDE DEF G, H
  <2>1. IsFiniteSet(G) /\ Cardinality(G) <= Cardinality(H)
    BY <1>2, FS_Subset
  <2> QED BY <1>2, <2>1, FS_CardinalityType
<1>4. ASSUME k \in Stored', db'[k].usage < UsageLimit
      PROVE  Cardinality(given[k]) + Cardinality(G) <= db'[k].usage
  <2>1. CASE k \in Stored
    <3>1. db[k].usage \in Nat /\ db'[k].usage \in {db[k].usage, Counted(db[k].usage)}
      BY <2>1 DEF IInv, FileInv, FileTypes, Records
    <3>2. db[k].usage < UsageLimit /\ db[k].usage <= db'[k].usage
      BY <1>4, <3>1, CountedUse
    <3>3. Cardinality(given[k]) + Cardinality(H) <= db[k].usage
      BY <1>1, <2>1, <3>2 DEF Covered, Holding
    <3>4. db'[k].usage \in Nat
      BY <1>4 DEF FileTypes, Records
    <3> HIDE DEF G, H
    <3> QED BY <1>3, <3>1, <3>2, <3>3, <3>4
  <2>2. CASE k \notin Stored
    <3>1. given[k] = {} /\ H = {}
      BY <2>2 DEF IInv, HolderInv, GivenIsStored, HandedOutIsUsed
    <3>2. G = {}
      BY <1>2, <3>1
    <3>3. db'[k].usage \in Nat
      BY <1>4 DEF FileTypes, Records
    <3>4. Cardinality(given[k]) = 0 /\ Cardinality(G) = 0
      BY <3>1, <3>2, FS_EmptySet
    <3> HIDE DEF G
    <3> QED BY <3>3, <3>4
  <2> QED BY <2>1, <2>2
<1> QED BY <1>2, <1>3, <1>4 DEF Covered, Holding

\* A request that starts has had its use counted.
LEMMA RequestUse ==
    ASSUME Reported, IInv, UseInv, NEW t \in Threads, NEW d \in Devices, Request(t, d), IInv'
    PROVE  UseInv'
<1>1. PICK k \in Keys : GetLastKeyDevice(0, k) /\ lastKey' = [lastKey EXCEPT ![t] = k]
  BY DEF Request
<1>2. /\ pc' = [pc EXCEPT ![t] = "assign"] /\ given' = given /\ pc[t] = "idle"
      /\ pc \in [Threads -> {"idle", "assign", "put"}] /\ lastKey \in [Threads -> Keys]
  BY DEF Request, Idle, IInv, TypeOK, ThreadTypes
<1>3. k \in Stored /\ db' = [db EXCEPT ![k].usage = Counted(@)]
  BY <1>1, GetLastEffect DEF IInv
<1>4. /\ Stored' = Stored /\ db[k].usage \in Nat /\ db'[k].usage = Counted(db[k].usage)
      /\ \A j \in Stored \ {k} : db'[j] = db[j]
  <2>1. db \in [Stored -> Records]
    BY DEF IInv, FileInv, FileTypes
  <2> QED BY <1>3, <2>1, UsedRecord DEF IInv, FileInv, Records
<1> SUFFICES ASSUME NEW j \in Keys PROVE Covered(j)'
  BY DEF UseInv
<1>5. Covered(j)
  BY DEF UseInv
<1>6. CASE j # k
  <2>1. Holding(j)' = Holding(j)
    BY <1>1, <1>2, <1>6 DEF Holding
  <2>2. j \in Stored => db'[j] = db[j]
    BY <1>4, <1>6
  <2> QED BY <1>2, <1>4, <1>5, <2>1, <2>2 DEF Covered
<1>7. CASE j = k
  <2>1. Holding(k)' = Holding(k) \cup {t} /\ t \notin Holding(k)
    BY <1>1, <1>2 DEF Holding
  <2>0. IsFiniteSet(given[k]) /\ IsFiniteSet(Holding(k))
    BY <1>5, <1>7 DEF Covered
  <2>2. /\ IsFiniteSet(Holding(k)') /\ Cardinality(Holding(k)') = Cardinality(Holding(k)) + 1
        /\ Cardinality(Holding(k)) \in Nat /\ Cardinality(given[k]) \in Nat
    <3>1. IsFiniteSet(Holding(k) \cup {t}) /\ Cardinality(Holding(k) \cup {t}) = Cardinality(Holding(k)) + 1
      BY <2>0, <2>1, FS_AddElement
    <3>2. Cardinality(Holding(k)) \in Nat /\ Cardinality(given[k]) \in Nat
      BY <2>0, FS_CardinalityType
    <3> QED BY <2>1, <3>1, <3>2
  <2>3. ASSUME db'[k].usage < UsageLimit
        PROVE  Cardinality(given[k]) + Cardinality(Holding(k)') <= db'[k].usage
    <3>1. db[k].usage < UsageLimit /\ db'[k].usage = db[k].usage + 1
      BY <1>4, <2>3, CountedUse
    <3>2. Cardinality(given[k]) + Cardinality(Holding(k)) <= db[k].usage
      BY <1>3, <1>5, <1>7, <3>1 DEF Covered
    <3> QED BY <1>4, <2>2, <3>1, <3>2
  <2> QED BY <1>2, <1>5, <1>7, <2>2, <2>3 DEF Covered
<1> QED BY <1>6, <1>7

\* The answer of a request turns the thread that holds the key into a device that
\* has it.
LEMMA AssignUse ==
    ASSUME IInv, UseInv, NEW t \in Threads, Assign(t)
    PROVE  UseInv'
<1>0. PICK k, d : k = lastKey[t] /\ d = realdeviceId[t]
  OBVIOUS
<1>1. /\ k \in Keys /\ d \in Devices /\ pc[t] = "assign"
      /\ given \in [Keys -> SUBSET Devices]
      /\ given' = [given EXCEPT ![k] = @ \cup ({d} \ {0})]
  BY <1>0 DEF Assign, IInv, TypeOK, ThreadTypes
<1>2. /\ Stored' = Stored /\ k \in Stored /\ db'[k].usage = db[k].usage
      /\ \A j \in Stored \ {k} : db'[j] = db[j]
  <2>1. AssignDeviceBySha(k, d) /\ taken' = taken
    BY <1>0 DEF Assign
  <2> QED BY <1>1, <2>1, AssignInv DEF IInv
<1>3. pc'[t] = "idle" /\ \A s \in Threads \ {t} : pc'[s] = pc[s] /\ lastKey'[s] = lastKey[s]
  BY DoneEffect DEF Assign, IInv
<1> SUFFICES ASSUME NEW j \in Keys PROVE Covered(j)'
  BY DEF UseInv
<1>4. Covered(j)
  BY DEF UseInv
<1>5. CASE j # k
  <2>1. Holding(j)' = Holding(j) /\ given'[j] = given[j]
    BY <1>0, <1>1, <1>3, <1>5 DEF Holding
  <2>2. j \in Stored => db'[j] = db[j]
    BY <1>2, <1>5
  <2> QED BY <1>2, <1>4, <2>1, <2>2 DEF Covered
<1>6. CASE j = k
  <2>1. Holding(k)' = Holding(k) \ {t} /\ t \in Holding(k)
    BY <1>0, <1>1, <1>3 DEF Holding
  <2>2. given'[k] = given[k] \/ given'[k] = given[k] \cup {d}
    BY <1>1
  <2>3. IsFiniteSet(given[k]) /\ IsFiniteSet(Holding(k))
    BY <1>4, <1>6 DEF Covered
  <2>4. /\ IsFiniteSet(Holding(k)') /\ Cardinality(Holding(k)') = Cardinality(Holding(k)) - 1
        /\ Cardinality(Holding(k)) \in Nat /\ Cardinality(given[k]) \in Nat
    BY <2>1, <2>3, FS_RemoveElement, FS_CardinalityType
  <2>5. /\ IsFiniteSet(given'[k]) /\ Cardinality(given'[k]) \in Nat
        /\ Cardinality(given'[k]) <= Cardinality(given[k]) + 1
    <3>1. CASE given'[k] = given[k]
      BY <2>3, <2>4, <3>1
    <3>2. CASE given'[k] = given[k] \cup {d}
      <4>1. /\ IsFiniteSet(given[k] \cup {d})
            /\ Cardinality(given[k] \cup {d}) \in {Cardinality(given[k]), Cardinality(given[k]) + 1}
        BY <2>3, FS_AddElement
      <4> QED BY <2>4, <3>2, <4>1
    <3> QED BY <2>2, <3>1, <3>2
  <2>6. ASSUME db[k].usage < UsageLimit
        PROVE  Cardinality(given'[k]) + Cardinality(Holding(k)') <= db[k].usage
    <3>1. Cardinality(given[k]) + Cardinality(Holding(k)) <= db[k].usage
      BY <1>2, <1>4, <1>6, <2>6 DEF Covered
    <3>2. db[k].usage \in Nat
      BY <1>2 DEF IInv, FileInv, FileTypes, Records
    <3> QED BY <2>4, <2>5, <3>1, <3>2
  <2> QED BY <1>2, <1>6, <2>4, <2>5, <2>6 DEF Covered
<1> QED BY <1>5, <1>6

\* getLastKeyDevice counts; putKey and assignDeviceBySha leave the counters alone.
LEMMA GetLastUse ==
    ASSUME Reported, FileInv, NEW k \in Keys, NEW d \in Devices, GetLastKeyDevice(d, k)
    PROVE  /\ Stored' = Stored
           /\ \A j \in Stored : db'[j].usage \in {db[j].usage, Counted(db[j].usage)}
<1>1. k \in Stored /\ db' = [db EXCEPT ![k].usage = Counted(@)] /\ db \in [Stored -> Records]
  BY GetLastEffect DEF FileInv, FileTypes
<1>2. /\ Stored' = Stored
      /\ \A j \in Stored \ {k} : db'[j] = db[j]
  BY <1>1, UsedRecord DEF FileInv
<1>3. db'[k].usage = Counted(db[k].usage)
  BY <1>1 DEF Records
<1> QED BY <1>2, <1>3

LEMMA UseStep == ASSUME Reported, IInv, UseInv, [Next]_vars PROVE UseInv'
<1>1. IInv'
  BY NextInv
<1>2. FileTypes'
  BY <1>1 DEF IInv, FileInv
<1>3. ASSUME UNCHANGED files, given' = given,
             \A t \in Threads : pc'[t] = "assign" => pc[t] = "assign" /\ lastKey'[t] = lastKey[t]
      PROVE  UseInv'
  BY <1>2, <1>3, UseFrame DEF files, Stored
<1>4. ASSUME NEW k \in Keys, NEW d \in Devices, PutKey(k, d), given' = given,
             \A t \in Threads : pc'[t] = "assign" => pc[t] = "assign" /\ lastKey'[t] = lastKey[t]
      PROVE  UseInv'
  <2>1. Stored \subseteq Stored' /\ \A j \in Stored : db'[j] = db[j]
    BY <1>4, PutKeyHolds DEF IInv
  <2> QED BY <1>2, <1>4, <2>1, UseFrame
<1>5. ASSUME NEW k \in Keys, NEW d \in Devices, GetLastKeyDevice(d, k), given' = given,
             \A t \in Threads : pc'[t] = "assign" => pc[t] = "assign" /\ lastKey'[t] = lastKey[t]
      PROVE  UseInv'
  <2>1. Stored' = Stored /\ \A j \in Stored : db'[j].usage \in {db[j].usage, Counted(db[j].usage)}
    BY <1>5, GetLastUse DEF IInv
  <2> QED BY <1>2, <1>5, <2>1, UseFrame
<1>6. CASE Main
  <2>1. UNCHANGED threads /\ given' = given
    BY <1>6 DEF Main, StartPut, StartGet, StartLast, StartAssign, history
  <2>2. Startup[step].device \in Devices /\ DefaultKeys[Startup[step].device] \in Keys
    BY <1>6, StartupSteps DEF Main, StartPut, StartGet, StartLast, StartAssign, Starting, IInv, TypeOK
  <2>3. CASE UNCHANGED files
    BY <1>3, <2>1, <2>3 DEF threads
  <2>4. CASE PutKey(DefaultKeys[Startup[step].device], Startup[step].device)
    BY <1>4, <2>1, <2>2, <2>4 DEF threads
  <2>5. CASE \E k \in Keys : GetLastKeyDevice(Startup[step].device, k)
    BY <1>5, <2>1, <2>2, <2>5 DEF threads
  <2>6. CASE StartAssign /\ AssignDeviceBySha(DefaultKeys[0], Startup[step].device)
    <3>1. taken' = taken /\ DefaultKeys[0] \in Keys
      BY <2>6 DEF StartAssign
    <3>2. /\ Stored' = Stored /\ db'[DefaultKeys[0]].usage = db[DefaultKeys[0]].usage
          /\ \A j \in Stored \ {DefaultKeys[0]} : db'[j] = db[j]
      BY <2>2, <2>6, <3>1, AssignInv DEF IInv
    <3> QED BY <1>2, <2>1, <3>2, UseFrame DEF threads
  <2> QED
    BY <1>6, <2>3, <2>4, <2>5, <2>6 DEF Main, StartPut, StartGet, StartLast, StartAssign, files
<1>7. CASE Restart
  BY <1>3, <1>7 DEF Restart, Everyone, files, history
<1>8. ASSUME NEW t \in Threads, Thread(t) PROVE UseInv'
  <2>1. pc \in [Threads -> {"idle", "assign", "put"}] /\ lastKey \in [Threads -> Keys]
    BY DEF IInv, TypeOK, ThreadTypes
  <2>2. ASSUME NEW d \in Devices, Request(t, d) PROVE UseInv'
    BY <1>1, <2>2, RequestUse
  <2>3. ASSUME NEW d \in Devices, Last(t, d) PROVE UseInv'
    <3>1. UNCHANGED threads /\ given' = given /\ \E k \in Keys : GetLastKeyDevice(d, k)
      BY <2>3 DEF Last
    <3> QED BY <1>5, <3>1 DEF threads
  <2>4. ASSUME NEW list \in Uploads, Upload(t, list) PROVE UseInv'
    <3>1. /\ pc' = [pc EXCEPT ![t] = "put"] /\ UNCHANGED <<files, lastKey, given>>
      BY <2>4 DEF Upload, history
    <3> QED BY <1>3, <2>1, <3>1
  <2>5. CASE Assign(t)
    BY <2>5, AssignUse
  <2>6. CASE AssignFails(t)
    <3>1. UNCHANGED <<files, given>>
      BY <2>6 DEF AssignFails, history
    <3>2. pc'[t] = "idle" /\ \A s \in Threads \ {t} : pc'[s] = pc[s] /\ lastKey'[s] = lastKey[s]
      BY <2>6, DoneEffect DEF AssignFails, IInv
    <3> QED BY <1>3, <3>1, <3>2
  <2>7. CASE UploadKey(t)
    <3>1. /\ pc[t] = "put" /\ buff[t] \in Seq(Keys) /\ buff[t] # <<>>
          /\ pc' = [pc EXCEPT ![t] = IF Len(buff[t]) = 1 THEN "idle" ELSE "put"]
          /\ UNCHANGED <<lastKey, given>>
      BY <2>7 DEF UploadKey, IInv, TypeOK, ThreadTypes, history
    <3>2. \A s \in Threads : pc'[s] = "assign" => pc[s] = "assign" /\ lastKey'[s] = lastKey[s]
      BY <2>1, <3>1
    <3>3. Head(buff[t]) \in Keys
      BY <3>1, HeadTail
    <3>4. PutKey(Head(buff[t]), 0) \/ UNCHANGED files
      BY <2>7 DEF UploadKey
    <3> QED BY <1>3, <1>4, <3>1, <3>2, <3>3, <3>4
  <2> QED BY <1>8, <2>2, <2>3, <2>4, <2>5, <2>6, <2>7 DEF Thread
<1>9. CASE UNCHANGED vars
  BY <1>3, <1>9 DEF vars, threads, history
<1> QED BY <1>6, <1>7, <1>8, <1>9 DEF Next

\* No use goes uncounted: the counter of a key covers the devices it was given to,
\* whatever requests overlap and whenever the process stops (getLastKeyDevice,
\* assignDeviceBySha).
THEOREM UsesCounted ==
    ASSUME Reported PROVE Spec => []UsageCovers
<1>1. IInv /\ UseInv => UsageCovers
  <2> SUFFICES ASSUME IInv, UseInv, NEW k \in Keys, given[k] # {}
               PROVE  /\ k \in Stored
                      /\ db[k].usage < UsageLimit => Cardinality(given[k]) <= db[k].usage
    BY DEF UsageCovers
  <2>1. k \in Stored /\ db[k].usage \in Nat
    BY DEF IInv, HolderInv, GivenIsStored, FileInv, FileTypes, Records
  <2>2. Covered(k)
    BY DEF UseInv
  <2>3. IsFiniteSet(given[k]) /\ IsFiniteSet(Holding(k))
    BY <2>2 DEF Covered
  <2>4. Cardinality(given[k]) \in Nat /\ Cardinality(Holding(k)) \in Nat
    BY <2>3, FS_CardinalityType
  <2>5. db[k].usage < UsageLimit =>
          Cardinality(given[k]) + Cardinality(Holding(k)) <= db[k].usage
    BY <2>1, <2>2 DEF Covered
  <2> QED BY <2>1, <2>4, <2>5
<1> QED
  BY <1>1, InitUse, UseStep, Invariance, PTL DEF Spec
=============================================================================
