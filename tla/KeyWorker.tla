------------------------------ MODULE KeyWorker ------------------------------
(***************************************************************************)
(* The key server: keyworker.c.  Every key is a record of keys.db, found   *)
(* by its sha; a key nobody has used yet is also in the queue              *)
(* keys.db.sup<device> of the device it is meant for.  The threads of the  *)
(* HTTP server hand keys out, move them between devices and add new ones,  *)
(* each in a transaction of its own; a "request" takes two.  The process   *)
(* may stop at any moment and start again on the same files.               *)
(*                                                                         *)
(* Berkeley DB is external: a transaction is one step, which happens       *)
(* entirely or, when one of its calls fails, not at all.  A thread that    *)
(* waits for a lock is one that takes no step.                             *)
(***************************************************************************)
EXTENDS Integers, FiniteSets, Sequences

CONSTANTS
    Keys,          \* shas, as integers: keys.db is a tree in their order
    Devices,       \* device numbers
    Threads,       \* -w: the thread pool of the HTTP server
    DefaultKeys,   \* main's key[0], key[1], key[2]
    UsageLimit,    \* 1000000: the usage counter stops there
    FreshUsages,   \* what the counter of a new record may contain
    Faults,        \* failing calls that are considered
    MaxUpload,     \* bound: keys in one upload
    MaxStarts      \* bound: how often the process is started

\* The operations of which a call can fail, so that the transaction is aborted;
\* "consume": DB_CONSUME finds nothing in a queue that is not empty, by an error
\* or because other transactions have its entries locked; "put": the unchecked
\* put of a cursor fails; "commit": a commit fails.
Aborts == {"putKey", "getByKey", "getLastKeyDevice", "assignDeviceBySha"}
AllFaults == Aborts \cup {"consume", "put", "commit"}

ASSUME KeysAssumption == Keys \subseteq Int
ASSUME DevicesAssumption == Devices \subseteq Nat /\ {0, 1, 2} \subseteq Devices
ASSUME DefaultAssumption == DefaultKeys \in [0..2 -> Keys]
ASSUME UsageAssumption ==
    UsageLimit \in Nat \ {0} /\ FreshUsages \subseteq Nat /\ 0 \in FreshUsages
ASSUME FaultsAssumption == Faults \subseteq AllFaults
ASSUME BoundsAssumption == MaxUpload \in Nat /\ MaxStarts \in Nat

VARIABLES
    db,            \* keys.db: from the keys stored to [usage, device, num]
    queue,         \* the records [device, num, key] of all keys.db.sup<device>
    next,          \* the number DB_APPEND gives to the next record of a queue
    step,          \* how far main has come in its Startup
    debug,         \* debug > 1: main tries the operations before it serves
    starts,        \* bound: starts so far
    pc,            \* what a thread does: "idle", "assign" or "put"
    lastKey,       \* of a thread at "assign": the key it got
    realdeviceId,  \* of a thread at "assign": the device it was asked for
    buff,          \* of a thread at "put": keys not yet added
    taken,         \* history: how often a key was taken from a queue
    given,         \* history: devices other than 0 whose "request" was
                   \* answered with a key
    contested,     \* history: keys that went to two requests at the same time
    passedOver     \* history: keys handed out while an entry of them stayed in
                   \* a queue

files == <<db, queue, next>>
threads == <<pc, lastKey, realdeviceId, buff>>
main == <<step, debug, starts>>
history == <<taken, given, contested, passedOver>>
vars == <<files, threads, main, history>>

Records == [usage : Nat, device : Devices, num : Nat]
Entries == [device : Devices, num : Nat, key : Keys]
NoKey == CHOOSE k \in Keys : TRUE
Uploads == UNION {[1..n -> Keys] : n \in 1..MaxUpload}

Stored == DOMAIN db

-----------------------------------------------------------------------------
\* Transactions.  Each is written as what it commits; Fails(...) is the case
\* that it reports an error and leaves no trace.

Entry(d, k) == [device |-> d, num |-> next[d], key |-> k]

\* DB_APPEND to the queue of device d, in which the entries gone are deleted
AppendEntry(d, k, gone) ==
    /\ queue' = (queue \ gone) \cup {Entry(d, k)}
    /\ next' = [next EXCEPT ![d] = @ + 1]

\* putKey sets one byte of the four of the usage counter to 0; the others are
\* what malloc returned, so that the counter is a multiple of 256: one of
\* FreshUsages.  num_in_support is filled in by the second put.
PutKey(k, d) ==
    /\ k \notin Stored
    /\ \E u \in FreshUsages :
          db' = [j \in Stored \cup {k} |->
                    IF j = k THEN [usage |-> u, device |-> d, num |-> next[d]] ELSE db[j]]
    /\ AppendEntry(d, k, {})

PutKeyFails(k) == k \in Stored \/ {"putKey", "commit"} \cap Faults # {}

\* Mutant of Counted: a key is only marked as used.
CountedOnce(u) == IF u = 0 THEN 1 ELSE u

\* the usage counter after one more use
Counted(u) == IF u < UsageLimit THEN u + 1 ELSE u

QueueOf(d) == {r \in queue : r.device = d}
KeysAt(d) == {k \in Stored : db[k].device = d}
LastOf(K) == {k \in K : \A j \in K : j <= k}

\* DB_CONSUME gives no entry of the queue.
NothingConsumed(d) == QueueOf(d) = {} \/ "consume" \in Faults

\* What getLastKeyDevice can pick: an entry of the queue, which DB_CONSUME
\* deletes (not always the first, it passes over entries that another
\* transaction has locked), or, when it gives none for whatever reason, the last
\* key of the device in keys.db, be it in a queue or not.
Choices(d) ==
    {[key |-> r.key, gone |-> {r}] : r \in {q \in QueueOf(d) : q.key \in Stored}}
    \cup {[key |-> k, gone |-> {}] : k \in {j \in LastOf(KeysAt(d)) : NothingConsumed(d)}}

\* getLastKeyDevice returns k.  The result of the put that stores the counter is
\* not looked at, and a failed commit is reported but the key returned as well.
GetLastKeyDevice(d, k) ==
    \E c \in Choices(d) :
        /\ c.key = k
        /\ \/ /\ \/ db' = [db EXCEPT ![k].usage = Counted(@)]
                 \/ "put" \in Faults /\ UNCHANGED db
              /\ queue' = queue \ c.gone
              /\ taken' = IF c.gone = {} THEN taken ELSE [taken EXCEPT ![k] = @ + 1]
           \/ /\ "commit" \in Faults
              /\ UNCHANGED <<db, queue, taken>>
        /\ passedOver' = IF \E r \in queue' : r.key = k THEN passedOver \cup {k} ELSE passedOver
        /\ UNCHANGED next

GetLastKeyDeviceFails(d) ==
    \/ "getLastKeyDevice" \in Faults
    \/ NothingConsumed(d) /\ KeysAt(d) = {}
    \/ \E r \in QueueOf(d) : r.key \notin Stored

\* the entry that keys.db names as the place of key k in a queue
EntryOf(k) == {r \in queue : r.device = db[k].device /\ r.num = db[k].num}

\* Mutants of AssignDeviceBySha: the number of the new entry is not stored; the
\* old entry is not deleted; the device is stored for unused keys only.
AssignKeepsNum(k, d) ==
    /\ k \in Stored
    /\ IF db[k].usage = 0 THEN AppendEntry(d, k, EntryOf(k)) ELSE UNCHANGED <<queue, next>>
    /\ db' = [db EXCEPT ![k].device = d]
AssignCopies(k, d) ==
    /\ k \in Stored
    /\ \/ /\ db[k].usage = 0
          /\ AppendEntry(d, k, {})
          /\ db' = [db EXCEPT ![k].device = d, ![k].num = next[d]]
       \/ /\ db[k].usage # 0
          /\ db' = [db EXCEPT ![k].device = d]
          /\ UNCHANGED <<queue, next>>
AssignUnusedOnly(k, d) ==
    /\ k \in Stored
    /\ IF db[k].usage = 0
       THEN /\ AppendEntry(d, k, EntryOf(k))
            /\ db' = [db EXCEPT ![k].device = d, ![k].num = next[d]]
       ELSE UNCHANGED files

\* assignDeviceBySha moves a key to device d, and its entry, while it is unused,
\* to the end of the queue of d
AssignDeviceBySha(k, d) ==
    /\ k \in Stored
    /\ \/ /\ db[k].usage = 0
          /\ EntryOf(k) # {}
          /\ AppendEntry(d, k, EntryOf(k))
          /\ db' = [db EXCEPT ![k].device = d, ![k].num = next[d]]
       \/ /\ db[k].usage # 0
          /\ db' = [db EXCEPT ![k].device = d]
          /\ UNCHANGED <<queue, next>>

AssignDeviceByShaFails(k) ==
    \/ {"assignDeviceBySha", "commit"} \cap Faults # {}
    \/ k \notin Stored
    \/ db[k].usage = 0 /\ EntryOf(k) = {}

-----------------------------------------------------------------------------
\* main.  The default keys are put on every start; with debug > 1 key[0] is
\* then looked up, used and moved about, whatever these calls return.

Startup ==
    << [op |-> "put",    device |-> 1],
       [op |-> "put",    device |-> 2],
       [op |-> "put",    device |-> 0],
       [op |-> "get",    device |-> 0],
       [op |-> "last",   device |-> 1],
       [op |-> "assign", device |-> 1],
       [op |-> "last",   device |-> 0],
       [op |-> "assign", device |-> 0],
       [op |-> "last",   device |-> 0] >>

Serving == Len(Startup) + 1

Starting(op) == step < Serving /\ Startup[step].op = op

NextStep == IF step = 3 /\ ~debug THEN Serving ELSE step + 1

StartPut ==
    /\ Starting("put")
    /\ LET d == Startup[step].device IN
          \/ PutKey(DefaultKeys[d], d)
          \/ PutKeyFails(DefaultKeys[d]) /\ UNCHANGED files
    /\ step' = NextStep
    /\ UNCHANGED <<threads, debug, starts, history>>

\* getByKey: nothing further is tried if key[0] is not found
StartGet ==
    /\ Starting("get")
    /\ \/ DefaultKeys[0] \in Stored /\ step' = NextStep
       \/ (DefaultKeys[0] \notin Stored \/ "getByKey" \in Faults) /\ step' = Serving
    /\ UNCHANGED <<files, threads, debug, starts, history>>

StartLast ==
    /\ Starting("last")
    /\ LET d == Startup[step].device IN
          \/ \E k \in Keys : GetLastKeyDevice(d, k)
          \/ GetLastKeyDeviceFails(d) /\ UNCHANGED <<files, taken, passedOver>>
    /\ step' = NextStep
    /\ UNCHANGED <<threads, debug, starts, given, contested>>

StartAssign ==
    /\ Starting("assign")
    /\ \/ /\ AssignDeviceBySha(DefaultKeys[0], Startup[step].device)
          /\ contested' = contested \cup {DefaultKeys[0]}
       \/ /\ AssignDeviceByShaFails(DefaultKeys[0])
          /\ UNCHANGED <<files, contested>>
    /\ step' = NextStep
    /\ UNCHANGED <<threads, debug, starts, taken, given, passedOver>>

-----------------------------------------------------------------------------
\* ahc_echo, in thread t.  A POST that is refused, and "key<sha>" and "quit",
\* change nothing.

Idle(t) == step = Serving /\ pc[t] = "idle"

\* "request<d>", first transaction: a key of the server's own device, 0
Request(t, d) ==
    /\ Idle(t)
    /\ \E k \in Keys :
          /\ GetLastKeyDevice(0, k)
          /\ lastKey' = [lastKey EXCEPT ![t] = k]
          /\ contested' = IF \E s \in Threads : pc[s] = "assign" /\ lastKey[s] = k
                          THEN contested \cup {k} ELSE contested
    /\ realdeviceId' = [realdeviceId EXCEPT ![t] = d]
    /\ pc' = [pc EXCEPT ![t] = "assign"]
    /\ UNCHANGED <<buff, main, given>>

Done(t) ==
    /\ pc' = [pc EXCEPT ![t] = "idle"]
    /\ lastKey' = [lastKey EXCEPT ![t] = NoKey]
    /\ realdeviceId' = [realdeviceId EXCEPT ![t] = 0]
    /\ UNCHANGED buff

\* "request<d>", second transaction, and the answer
Assign(t) ==
    /\ pc[t] = "assign"
    /\ AssignDeviceBySha(lastKey[t], realdeviceId[t])
    /\ given' = [given EXCEPT ![lastKey[t]] = @ \cup ({realdeviceId[t]} \ {0})]
    /\ Done(t)
    /\ UNCHANGED <<main, taken, contested, passedOver>>

\* the second transaction fails: no answer, and the first one stands
AssignFails(t) ==
    /\ pc[t] = "assign"
    /\ AssignDeviceByShaFails(lastKey[t])
    /\ Done(t)
    /\ UNCHANGED <<files, main, history>>

\* "last<d>"
Last(t, d) ==
    /\ Idle(t)
    /\ \E k \in Keys : GetLastKeyDevice(d, k)
    /\ UNCHANGED <<threads, main, given, contested>>

\* Anything else is a list of keys.  It is read from post->buff, which holds the
\* last chunk only while post->count counts all: if the body did not arrive in
\* one chunk the keys are not the ones the client sent, but just as many.
Upload(t, list) ==
    /\ Idle(t)
    /\ pc' = [pc EXCEPT ![t] = "put"]
    /\ buff' = [buff EXCEPT ![t] = list]
    /\ UNCHANGED <<files, lastKey, realdeviceId, main, history>>

\* Mutant of UploadKey: one round too many.
UploadKeyAgain(t) ==
    /\ pc[t] = "put"
    /\ \/ PutKey(Head(buff[t]), 0)
       \/ PutKeyFails(Head(buff[t])) /\ UNCHANGED files
    /\ buff' = [buff EXCEPT ![t] = Tail(@)]
    /\ pc' = [pc EXCEPT ![t] = IF buff[t] = <<>> THEN "idle" ELSE "put"]
    /\ UNCHANGED <<lastKey, realdeviceId, main, history>>

\* one round of the loop over the list
UploadKey(t) ==
    /\ pc[t] = "put"
    /\ \/ PutKey(Head(buff[t]), 0)
       \/ PutKeyFails(Head(buff[t])) /\ UNCHANGED files
    /\ buff' = [buff EXCEPT ![t] = Tail(@)]
    /\ pc' = [pc EXCEPT ![t] = IF Len(buff[t]) = 1 THEN "idle" ELSE "put"]
    /\ UNCHANGED <<lastKey, realdeviceId, main, history>>

-----------------------------------------------------------------------------
\* the same value for every thread
Everyone(v) == [t \in Threads |-> v]

Init ==
    /\ db = [k \in {} |-> 0]
    /\ queue = {}
    /\ next = [d \in Devices |-> 1]
    /\ pc = Everyone("idle")
    /\ lastKey = Everyone(NoKey)
    /\ realdeviceId = Everyone(0)
    /\ buff = Everyone(<<>>)
    /\ step = 1
    /\ debug \in BOOLEAN
    /\ starts = 1
    /\ taken = [k \in Keys |-> 0]
    /\ given = [k \in Keys |-> {}]
    /\ contested = {} /\ passedOver = {}

\* the process ends, by SIGINT or otherwise, and is started again: what was
\* committed is found again (DB_RECOVER), the rest is gone
Restart ==
    /\ starts < MaxStarts
    /\ pc' = Everyone("idle")
    /\ lastKey' = Everyone(NoKey)
    /\ realdeviceId' = Everyone(0)
    /\ buff' = Everyone(<<>>)
    /\ step' = 1
    /\ debug' \in BOOLEAN
    /\ starts' = starts + 1
    /\ UNCHANGED <<files, history>>

Main == StartPut \/ StartGet \/ StartLast \/ StartAssign

Thread(t) ==
    \/ \E d \in Devices : Request(t, d) \/ Last(t, d)
    \/ \E list \in Uploads : Upload(t, list)
    \/ Assign(t)
    \/ AssignFails(t)
    \/ UploadKey(t)

Next == Main \/ Restart \/ \E t \in Threads : Thread(t)

Spec == Init /\ [][Next]_vars

-----------------------------------------------------------------------------
FileTypes ==
    /\ Stored \subseteq Keys
    /\ db \in [Stored -> Records]
    /\ queue \subseteq Entries
    /\ next \in [Devices -> Nat]

ThreadTypes ==
    /\ pc \in [Threads -> {"idle", "assign", "put"}]
    /\ lastKey \in [Threads -> Keys]
    /\ realdeviceId \in [Threads -> Devices]
    /\ buff \in [Threads -> Seq(Keys)]
    /\ \A t \in Threads : pc[t] = "put" => buff[t] # <<>>

\* The variables hold what the code's structures can.
TypeOK ==
    /\ FileTypes
    /\ ThreadTypes
    /\ step \in 1..Serving /\ debug \in BOOLEAN /\ starts \in Nat
    /\ taken \in [Keys -> Nat]
    /\ given \in [Keys -> SUBSET Devices]
    /\ contested \subseteq Keys /\ passedOver \subseteq Keys

\* Every unused key of keys.db is in the queue of its device, at the place
\* keys.db names: the two kinds of file, written by separate calls, agree, and no
\* key that a crash, a failure or a move leaves unused is lost to getLastKeyDevice.
UnusedIsQueued ==
    \A k \in Stored : db[k].usage = 0 =>
        [device |-> db[k].device, num |-> db[k].num, key |-> k] \in queue

\* A key has at most one entry in all the queues, and it is in keys.db: moving a
\* key leaves no second copy behind, and DB_CONSUME never returns a key whose
\* record is missing.
QueuedOnce ==
    /\ \A r \in queue : r.key \in Stored
    /\ \A q, r \in queue : q.key = r.key \/ (q.device = r.device /\ q.num = r.num) => q = r

\* A key is handed out as unused at most once, over all threads and restarts:
\* what getLastKeyDevice takes from a queue was never taken from one before.
TakenOnce == \A k \in Keys : taken[k] <= 1

\* The usage counter of a key is not below the number of devices it was given
\* to, up to where the counter stops: no use goes uncounted.
UsageCovers ==
    \A k \in Keys : given[k] # {} =>
        /\ k \in Stored
        /\ db[k].usage < UsageLimit => Cardinality(given[k]) <= db[k].usage

\* A key that was requested for one device is given to another one only if two
\* requests held it at the same time, between their two transactions, or main's
\* trial moved it, or it was handed out past the queue it was still in, to be
\* consumed later.  (Requests for device 0 leave the key at device 0.)
SharedOnlyByMishap ==
    \A k \in Keys : (\E a, b \in given[k] : a # b) => k \in contested \cup passedOver

\* A key that getLastKeyDevice returns is marked as used: while a thread is to
\* assign it, its counter is not 0.
HandedOutIsUsed ==
    \A t \in Threads : pc[t] = "assign" =>
        lastKey[t] \in Stored /\ db[lastKey[t]].usage > 0

-----------------------------------------------------------------------------
\* What the proofs of the properties above rest on besides.

\* DB_APPEND gives numbers no entry of the queue has.
FreshNumbers == \A r \in queue : r.num < next[r.device]

\* A key taken from a queue is marked as used and in no queue again.
TakenIsUsed ==
    \A k \in Keys : taken[k] > 0 =>
        /\ k \in Stored
        /\ db[k].usage > 0
        /\ \A r \in queue : r.key # k

\* Only keys of keys.db are given away.
GivenIsStored == \A k \in Keys : given[k] # {} => k \in Stored /\ 0 \notin given[k]

\* Of a key that met with neither mishap: one request holds it, before it is given
\* to a device; it then belongs to that device; and if it is in a queue, it is in
\* that of its device and no request holds it.
Uncontested(k) ==
    /\ \A s, t \in Threads :
          pc[s] = "assign" /\ pc[t] = "assign" /\ lastKey[s] = k /\ lastKey[t] = k => s = t
    /\ \A a \in given[k] : a = db[k].device
    /\ \A r \in queue : r.key = k => r.device = db[k].device
    /\ \A t \in Threads : pc[t] = "assign" /\ lastKey[t] = k =>
          /\ given[k] = {}
          /\ db[k].device = 0
          /\ \A r \in queue : r.key # k

\* The inductive invariant: what is true of the files, and of what the threads
\* hold and have given away.
FileInv ==
    FileTypes /\ taken \in [Keys -> Nat] /\ UnusedIsQueued /\ QueuedOnce /\ FreshNumbers
    /\ TakenOnce /\ TakenIsUsed

HolderInv ==
    HandedOutIsUsed /\ GivenIsStored /\ \A k \in Keys \ (contested \cup passedOver) : Uncontested(k)

IInv == TypeOK /\ FileInv /\ HolderInv
=============================================================================
