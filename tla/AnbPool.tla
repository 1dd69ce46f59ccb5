------------------------------ MODULE AnbPool -------------------------------
(***************************************************************************)
(* Coming and going of boards in the AnB driver: device_probe and          *)
(* device_remove (pci_device.c), AllocateEntry and DeallocateEntry         *)
(* (dev_entry.c), register_dma (dma.c), and the pool in which the          *)
(* interrupt handler and open look a board up (dev_pool.c).                *)
(***************************************************************************)
EXTENDS Integers, Sequences, FiniteSets

CONSTANTS
    Cards,        \* boards on the bus
    DeviceLimit,  \* ANB_DEVICE_LIMIT
    MaxPool       \* bound: entries of the pool, dead ones included

ASSUME AnbPoolAssumption == IsFiniteSet(Cards) /\ DeviceLimit \in Nat /\ MaxPool \in Nat

VARIABLES
    sem,          \* of probe and remove: "free", or "lost"
    held,         \* what the driver holds for each board
    device_id,    \* the number in the board's name, -1 if it has no entry
    devices,      \* the pool: boards, or what a removal left in their place
    orderly,      \* history: deviceRemove had its memory, for the first place
    oops          \* open has followed a pointer that is none

anbPoolVars == <<sem, held, device_id, devices, orderly, oops>>

AnbPoolInit ==
    /\ sem = "free" /\ devices = <<>> /\ orderly = TRUE /\ oops = FALSE
    /\ held = [c \in Cards |-> {}] /\ device_id = [c \in Cards |-> -1]

Bound == {c \in Cards : device_id[c] >= 0}
devices_count == Cardinality(Bound)

-----------------------------------------------------------------------------
\* What is acquired, in order, and the labels that give it back: they fall
\* through, so a failure runs every label from the one it jumps to.  The first
\* calls deviceRemove: the pool is a variable of its own.

Acquired == <<"private_data", "enabled", "regions", "bars", "registers", "memory",
              "file", "miscdevice", "semaphore", "dma", "pool", "entry">>

Labels == <<{}, {"buffers", "irq"}, {"dma"}, {"semaphore"}, {"miscdevice"},
            {"file"}, {"memory"}, {"registers"}, {"regions"}, {"enabled"},
            {"private_data"}, {}>>

\* Mutant of LabelOf: without a file structure, jump past the memory.
LabelOfNext == [private_data |-> 12, enabled |-> 11, regions |-> 10, bars |-> 9,
                registers |-> 9, memory |-> 8, file |-> 8, miscdevice |-> 6,
                semaphore |-> 5, dma |-> 4, pool |-> 2, entry |-> 1]

\* The label that the failure of each step jumps to.
LabelOf == [private_data |-> 12, enabled |-> 11, regions |-> 10, bars |-> 9,
            registers |-> 9, memory |-> 8, file |-> 7, miscdevice |-> 6,
            semaphore |-> 5, dma |-> 4, pool |-> 2, entry |-> 1]

\* "bars" is a check, for which nothing is held.
Before(n) == {Acquired[i] : i \in 1..(n - 1)} \ {"bars", "pool"}

\* register_dma gives its buffers back when the interrupt cannot be had, and
\* AllocateEntry goes on without either.
DmaParts == {{}, {"buffers", "irq"}}

AfterFailure(n, parts) ==
    LET had == Before(n) \cup (IF n > 10 THEN parts ELSE {}) IN
    had \ UNION {Labels[k] : k \in LabelOf[Acquired[n]]..Len(Labels)}

\* misc_register refuses the name of an entry that is there already.
NameTaken == \E c \in Bound : device_id[c] = devices_count

\* DeallocateEntry and the rest of device_remove: what each gives back, in
\* order, when the board has it.
DeallocateEntry == <<"entry", "irq", "buffers", "dma", "semaphore", "miscdevice", "file">>
DeviceRemove == <<"registers", "memory", "regions", "enabled", "private_data">>

GivenBack(list) == {list[i] : i \in DOMAIN list}

-----------------------------------------------------------------------------
\* deviceRemove copies too little of what precedes the board it takes out, and
\* from the wrong place.
Shrunk(pool, i) ==
    [j \in 1..(Len(pool) - 1) |->
        IF j >= i THEN pool[j + 1]
        ELSE IF j = i - 1 THEN "null"
        ELSE IF i - 2 + j <= Len(pool) THEN pool[i - 2 + j] ELSE "junk"]

\* The board's structure is freed after deviceRemove, wherever the pool has it.
Freed(pool, c) == [j \in DOMAIN pool |-> IF pool[j] = c THEN "freed" ELSE pool[j]]

getDeviceNumber(pool, c) ==
    {i \in DOMAIN pool : pool[i] = c /\ \A j \in 1..(i - 1) : pool[j] # c}

\* Without memory for the smaller pool, or without the board in it, the pool
\* stays as it was; the last board needs no memory.
deviceRemove(pool, c) ==
    \/ \E i \in getDeviceNumber(pool, c) :
         /\ devices' = Freed(Shrunk(pool, i), c)
         /\ orderly' = (orderly /\ i = 1)
    \/ /\ getDeviceNumber(pool, c) = {} \/ Len(pool) > 1
       /\ devices' = Freed(pool, c) /\ orderly' = FALSE

Remove(c) ==
    /\ sem = "free" /\ c \in Bound
    /\ held' = [held EXCEPT ![c] = @ \ (GivenBack(DeallocateEntry) \cup GivenBack(DeviceRemove))]
    /\ device_id' = [device_id EXCEPT ![c] = -1]
    /\ deviceRemove(devices, c)
    /\ UNCHANGED <<sem, oops>>

Probe(c) ==
    /\ sem = "free" /\ c \notin Bound
    /\ devices_count < DeviceLimit /\ ~NameTaken /\ Len(devices) < MaxPool
    /\ \E parts \in DmaParts : held' = [held EXCEPT ![c] = Before(13) \cup parts]
    /\ device_id' = [device_id EXCEPT ![c] = devices_count]
    /\ devices' = Append(devices, c)
    /\ UNCHANGED <<sem, orderly, oops>>

\* Any step may fail; at the last one the board is in the pool already.
ProbeFails(c, n) ==
    /\ sem = "free" /\ c \notin Bound /\ devices_count < DeviceLimit
    /\ Len(devices) < MaxPool
    /\ \E parts \in DmaParts : held' = [held EXCEPT ![c] = AfterFailure(n, parts)]
    /\ IF Acquired[n] = "entry"
       THEN deviceRemove(Append(devices, c), c)
       ELSE UNCHANGED <<devices, orderly>>
    /\ UNCHANGED <<sem, device_id, oops>>

\* DMASetBufferSize: new buffers, the old ones left, or both lost.
ChangeBuffers(c) ==
    /\ c \in Bound
    /\ \/ held' = [held EXCEPT ![c] = @ \cup {"buffers"}]
       \/ held' = [held EXCEPT ![c] = @ \ {"buffers"}]
    /\ UNCHANGED <<sem, device_id, devices, orderly, oops>>

\* One board too many: device_probe returns with the semaphore taken.
ProbeRefused(c) ==
    /\ sem = "free" /\ c \notin Bound /\ devices_count >= DeviceLimit
    /\ sem' = "lost"
    /\ UNCHANGED <<held, device_id, devices, orderly, oops>>

\* open looks through the pool and follows every pointer up to the board's own.
Open(c) ==
    /\ c \in Bound
    /\ LET before == {i \in DOMAIN devices : \A j \in 1..i : devices[j] # c} IN
       oops' = (oops \/ \E i \in before : devices[i] \notin Cards)
    /\ UNCHANGED <<sem, held, device_id, devices, orderly>>

\* A step after a crash is not modelled.
AnbPoolNext ==
    /\ ~oops
    /\ \E c \in Cards :
         \/ Probe(c) \/ ProbeRefused(c) \/ Remove(c) \/ ChangeBuffers(c) \/ Open(c)
         \/ \E n \in 1..Len(Acquired) : ProbeFails(c, n)

AnbPoolSpec == AnbPoolInit /\ [][AnbPoolNext]_anbPoolVars

-----------------------------------------------------------------------------
\* Properties.

\* A board that could not be set up, or was removed, leaves nothing held,
\* whichever of the steps failed and whatever register_dma, whose result is
\* not looked at, and later changes of the buffers had got: the labels of two
\* functions, and the two that undo them all, give back what the steps took.
\* It leaves the pool to the boards that are there, as long as boards are taken
\* out of the first place only, and with memory for it: deviceRemove leaves
\* pointers that are none otherwise.
NothingLeftBehind ==
    /\ \A c \in Cards : c \notin Bound => held[c] = {}
    /\ orderly => {devices[i] : i \in DOMAIN devices} = Bound
=============================================================================
