------------------------------- MODULE AnbDma -------------------------------
(***************************************************************************)
(* One board under the AnB driver: the ring of DMA buffers that the        *)
(* interrupt handler fills (dma.c) and the file operations that read the   *)
(* ring, the tables and the registers (dev_entry.c).                       *)
(*                                                                         *)
(* File operations run one at a time under the semaphore of the device,    *)
(* but the handler takes no lock: it runs between the register writes of   *)
(* an ioctl, and beside the test and the update of DMARollBuffer.  Results *)
(* of map_active that nobody looks at, and the DMA service that could not  *)
(* be set up, are part of it.  The board is external: once armed it fills  *)
(* the mapped buffer and raises its interrupt, which stays up until it is  *)
(* acknowledged; it does not go on until it is disabled and enabled again. *)
(***************************************************************************)
EXTENDS Integers

CONSTANTS
    Callers,      \* threads that have the device open
    Tables,       \* the tables behind the memory window (DumpSources, DestTables)
    MaxBuffers,   \* bound: the largest number of buffers asked for
    MaxRead       \* bound: how far the counts may go outside the ring

ASSUME DmaAssumption == MaxBuffers \in Nat /\ MaxBuffers >= 2 /\ MaxRead \in Nat

VARIABLES
    registered,   \* register_dma succeeded; its failure is not looked at
    buffers,      \* 0: there is no ring
    active_read, active_write,
    dma_started, dma_suspended,
    armed,        \* the board is enabled and has not filled its buffer yet
    irq,          \* the board's interrupt is up and not acknowledged
    mapped,       \* the buffer whose address the board has
    handler,      \* DeviceHandler: "idle", or how far it is
    next,         \* what it hands to map_active, 0 outside
    ioctl,        \* the call that holds the semaphore, and how far it is
    user,         \* what each caller is doing outside the semaphore
    map_ref,      \* the ring in user space: "none", "live", or "freed" under it
    RegMode,      \* the table that the memory window shows
    reg_old,      \* RegMode as each caller in read or write saved it
    unread,       \* history: buffers filled and not rolled past
    stray,        \* history: the board was armed while the driver had it stopped, or
                  \* started again with the handler still at work
    misled        \* history: in this run of the DMA a buffer could not be mapped

ringVars == <<registered, buffers, active_read, active_write, dma_started, dma_suspended,
              mapped, unread, misled>>
boardVars == <<armed, irq, stray>>
handlerVars == <<handler, next>>
fileVars == <<map_ref, RegMode, reg_old>>
dmaVars == <<ringVars, boardVars, handlerVars, ioctl, user, fileVars>>

DmaInit ==
    /\ registered \in BOOLEAN /\ buffers = IF registered THEN MaxBuffers ELSE 0
    /\ active_read = 0 /\ active_write = 0 /\ mapped = 0
    /\ dma_started = FALSE /\ dma_suspended = FALSE
    /\ armed = FALSE /\ irq = FALSE /\ handler = "idle" /\ next = 0 /\ ioctl = "none"
    /\ user = [u \in Callers |-> "free"]
    /\ map_ref = "none" /\ RegMode \in Tables
    /\ reg_old = [u \in Callers |-> "none"]
    /\ unread = {} /\ stray = FALSE /\ misled = FALSE

-----------------------------------------------------------------------------
\* The interrupt handler and the board.

BoardFills ==
    /\ armed /\ ~irq
    /\ irq' = TRUE /\ armed' = FALSE
    /\ UNCHANGED <<ringVars, stray, handlerVars, ioctl, user, fileVars>>

NextBuffer(i) == IF i = buffers - 1 THEN 0 ELSE i + 1

\* map_active for buffer i of a ring of n: -EINVAL when there is no such buffer,
\* -ENOMEM when it could not be mapped, active_write being set all the same.
MapActive(n, i, works) ==
    /\ works => i < n
    /\ active_write' = IF i < n THEN i ELSE active_write
    /\ mapped' = IF works THEN i ELSE mapped

\* DeviceHandler runs: the service is registered, started and not suspended.
Interrupt ==
    /\ registered /\ irq /\ dma_started /\ ~dma_suspended /\ handler = "idle"
    /\ handler' = "entered"
    /\ UNCHANGED <<ringVars, boardVars, next, ioctl, user, fileVars>>

\* The buffer just filled is left for the next.
CountFilled ==
    /\ handler = "entered" /\ (active_write < MaxRead \/ active_write < buffers)
    /\ unread' = unread \cup {mapped}
    /\ active_write' = NextBuffer(active_write)
    /\ handler' = "counted"
    /\ UNCHANGED <<registered, buffers, active_read, dma_started, dma_suspended, mapped,
                   misled, boardVars, next, ioctl, user, fileVars>>

\* Mutant of RingFull: the handler goes round.
RingNeverFull == FALSE

\* A full ring, or one that a reader emptied since CountFilled.
RingFull == active_write = active_read

\* The handler then neither acknowledges nor arms the board again, and nothing
\* ever clears dma_suspended.
TestFull ==
    /\ handler = "counted"
    /\ dma_suspended' = (dma_suspended \/ RingFull)
    /\ IF RingFull THEN handler' = "idle" /\ UNCHANGED next
                   ELSE handler' = "rearming" /\ next' = active_write
    /\ UNCHANGED <<registered, buffers, active_read, active_write, dma_started, mapped,
                   unread, misled, boardVars, ioctl, user, fileVars>>

\* Mutant of Woken: the handler wakes nobody.
NobodyWoken == user

Woken == [u \in Callers |-> IF user[u] = "asleep" THEN "waiting" ELSE user[u]]

\* map_active, whatever it returns, acknowledge, disable and enable, wake the readers.
Rearm ==
    /\ handler = "rearming"
    /\ \E works \in BOOLEAN : MapActive(buffers, next, works) /\ misled' = (misled \/ ~works)
    /\ irq' = FALSE /\ armed' = TRUE
    /\ stray' = (stray \/ ~dma_started)
    /\ user' = Woken
    /\ handler' = "idle" /\ next' = 0
    /\ UNCHANGED <<registered, buffers, active_read, dma_started, dma_suspended, unread,
                   ioctl, fileVars>>

-----------------------------------------------------------------------------
\* DMAEnable and DMADisable: enable_dma and disable_dma, a register at a time.

Proceeds(from, to) == ioctl = from /\ ioctl' = to

StartEnable ==
    /\ Proceeds("none", "acknowledge") /\ ~dma_started
    /\ active_read' = 0
    /\ stray' = (stray \/ handler # "idle")
    /\ UNCHANGED <<registered, buffers, active_write, dma_started, dma_suspended, mapped,
                   unread, misled, armed, irq, handlerVars, user, fileVars>>

Acknowledge ==
    /\ Proceeds("acknowledge", "reset")
    /\ irq' = FALSE
    /\ UNCHANGED <<ringVars, armed, stray, handlerVars, user, fileVars>>

ResetBoard ==
    /\ Proceeds("reset", "map")
    /\ armed' = FALSE
    /\ UNCHANGED <<ringVars, irq, stray, handlerVars, user, fileVars>>

MapFirst ==
    /\ Proceeds("map", "arm")
    /\ \E works \in BOOLEAN : MapActive(buffers, 0, works) /\ misled' = ~works
    /\ unread' = {}
    /\ UNCHANGED <<registered, buffers, active_read, dma_started, dma_suspended, boardVars,
                   handlerVars, user, fileVars>>

ArmBoard ==
    /\ Proceeds("arm", "start")
    /\ armed' = TRUE
    /\ UNCHANGED <<ringVars, irq, stray, handlerVars, user, fileVars>>

SetStarted ==
    /\ Proceeds("start", "none")
    /\ dma_started' = TRUE
    /\ UNCHANGED <<registered, buffers, active_read, active_write, dma_suspended, mapped,
                   unread, misled, boardVars, handlerVars, user, fileVars>>

StartDisable ==
    /\ Proceeds("none", "stop") /\ dma_started
    /\ armed' = FALSE
    /\ UNCHANGED <<ringVars, irq, stray, handlerVars, user, fileVars>>

\* An interrupt handled just before this has armed the board again.
ClearStarted ==
    /\ Proceeds("stop", "none")
    /\ dma_started' = FALSE
    /\ stray' = (stray \/ armed)
    /\ UNCHANGED <<registered, buffers, active_read, active_write, dma_suspended, mapped,
                   unread, misled, armed, irq, handlerVars, user, fileVars>>

-----------------------------------------------------------------------------
\* The other ioctls, mmap and its close.

\* DMASetBufferSize: the refusal of a mapped ring is overwritten by the result
\* of change_buffer, so the memory goes from under the mapping.  When the first
\* new buffer cannot be mapped there is no ring any more.
SetBuffers(n) ==
    /\ ioctl = "none" /\ ~dma_started /\ n >= 2
    /\ \E works \in BOOLEAN : MapActive(n, 0, works) /\ buffers' = IF works THEN n ELSE 0
    /\ unread' = {}
    /\ map_ref' = IF map_ref = "none" THEN "none" ELSE "freed"
    /\ UNCHANGED <<registered, active_read, dma_started, dma_suspended, misled, boardVars,
                   handlerVars, ioctl, user, RegMode, reg_old>>

\* DMARollBuffer: with nothing to read, give up the semaphore and wait.
WaitForBuffer(u) ==
    /\ ioctl = "none" /\ user[u] \in {"free", "locking"}
    /\ active_read = active_write
    /\ user' = [user EXCEPT ![u] = "waiting"]
    /\ UNCHANGED <<ringVars, boardVars, handlerVars, ioctl, fileVars>>

\* Or return: EAGAIN to a caller that must not block, ERESTARTSYS on a signal.
GiveUp(u) ==
    /\ user[u] \in {"waiting", "asleep", "locking"}
    /\ user' = [user EXCEPT ![u] = "free"]
    /\ UNCHANGED <<ringVars, boardVars, handlerVars, ioctl, fileVars>>

\* wait_event_interruptible looks at the ring without the semaphore.  Its queue
\* is there to sleep on only when the service is registered.
LookOrSleep(u) ==
    /\ user[u] = "waiting" /\ (active_read = active_write => registered)
    /\ user' = [user EXCEPT ![u] = IF active_read = active_write THEN "asleep" ELSE "locking"]
    /\ UNCHANGED <<ringVars, boardVars, handlerVars, ioctl, fileVars>>

\* With something to read: the test, and the update of active_read behind it.
StartRoll(u) ==
    /\ ioctl = "none" /\ user[u] \in {"free", "locking"}
    /\ active_read # active_write /\ active_read < MaxRead
    /\ ioctl' = "roll" /\ user' = [user EXCEPT ![u] = "rolling"]
    /\ UNCHANGED <<ringVars, boardVars, handlerVars, fileVars>>

EndRoll(u) ==
    /\ user[u] = "rolling"
    /\ active_read' = NextBuffer(active_read)
    /\ unread' = unread \ {active_read}
    /\ ioctl' = "none" /\ user' = [user EXCEPT ![u] = "free"]
    /\ UNCHANGED <<registered, buffers, active_write, dma_started, dma_suspended, mapped,
                   misled, boardVars, handlerVars, fileVars>>

\* RegisterWrite and the ioctls that change one field of RegMode or RegTable:
\* any register may be written while the DMA is stopped, RegDMA and RegIRQ too.
WriteRegister ==
    /\ ioctl = "none" /\ ~dma_started
    /\ \/ armed' \in BOOLEAN /\ irq' \in {irq, FALSE} /\ UNCHANGED RegMode
       \/ RegMode' \in Tables /\ UNCHANGED <<armed, irq>>
    /\ stray' = (stray \/ armed')
    /\ UNCHANGED <<ringVars, handlerVars, ioctl, user, map_ref, reg_old>>

MapRing ==
    /\ ioctl = "none" /\ ~dma_started /\ buffers > 0
    /\ map_ref' = "live"
    /\ UNCHANGED <<ringVars, boardVars, handlerVars, ioctl, user, RegMode, reg_old>>

UnmapRing ==
    /\ map_ref # "none"
    /\ map_ref' = "none"
    /\ UNCHANGED <<ringVars, boardVars, handlerVars, ioctl, user, RegMode, reg_old>>

-----------------------------------------------------------------------------
\* read and write: show the table, give up the semaphore to allocate, take it
\* again, copy, and put the old table back.

StartCopy(u, t) ==
    /\ ioctl = "none" /\ user[u] = "free" /\ ~dma_started
    /\ reg_old' = [reg_old EXCEPT ![u] = RegMode]
    /\ RegMode' = t
    /\ user' = [user EXCEPT ![u] = "copying"]
    /\ UNCHANGED <<ringVars, boardVars, handlerVars, ioctl, map_ref>>

FinishCopy(u) ==
    /\ ioctl = "none" /\ user[u] = "copying"
    /\ RegMode' = reg_old[u]
    /\ reg_old' = [reg_old EXCEPT ![u] = "none"]
    /\ user' = [user EXCEPT ![u] = "free"]
    /\ UNCHANGED <<ringVars, boardVars, handlerVars, ioctl, map_ref>>

\* A signal in the second down_interruptible: the table is not put back.
AbandonCopy(u) ==
    /\ user[u] = "copying"
    /\ reg_old' = [reg_old EXCEPT ![u] = "none"]
    /\ user' = [user EXCEPT ![u] = "free"]
    /\ UNCHANGED <<ringVars, boardVars, handlerVars, ioctl, map_ref, RegMode>>

\* write on a running DMA is refused, but still writes back a reg_old that was
\* never read.
RefuseWrite(u) ==
    /\ ioctl = "none" /\ user[u] = "free" /\ dma_started
    /\ RegMode' \in Tables
    /\ UNCHANGED <<ringVars, boardVars, handlerVars, ioctl, user, map_ref, reg_old>>

-----------------------------------------------------------------------------
CallerNext(u) ==
    \/ WaitForBuffer(u) \/ GiveUp(u) \/ LookOrSleep(u) \/ StartRoll(u) \/ EndRoll(u)
    \/ \E t \in Tables : StartCopy(u, t)
    \/ FinishCopy(u) \/ AbandonCopy(u) \/ RefuseWrite(u)

DmaNext ==
    \/ BoardFills \/ Interrupt \/ CountFilled \/ TestFull \/ Rearm
    \/ StartEnable \/ Acknowledge \/ ResetBoard \/ MapFirst \/ ArmBoard \/ SetStarted
    \/ StartDisable \/ ClearStarted
    \/ \E n \in 2..MaxBuffers : SetBuffers(n)
    \/ WriteRegister \/ MapRing \/ UnmapRing
    \/ \E u \in Callers : CallerNext(u)

DmaSpec == DmaInit /\ [][DmaNext]_dmaVars

-----------------------------------------------------------------------------
\* Properties.

\* A buffer that the board has filled is not handed to it again before the
\* reader has rolled past it, and what the reader rolls past has been filled:
\* the handler advances active_write, the reader active_read, with no lock
\* between them.  It holds until an interrupt falls into disable_dma (or a
\* register is written by hand) and leaves the board armed behind the driver,
\* and as long as buffers can be mapped: the driver arms the board with the
\* address of an earlier buffer otherwise.
UnreadIsKept ==
    dma_started /\ ~stray /\ ~misled =>
        /\ {active_read, active_write, mapped} \subseteq 0..(buffers - 1)
        /\ armed => mapped \notin unread
        /\ ioctl = "roll" => active_read \in unread

\* Nobody sleeps in DMARollBuffer while there is a buffer to read: whatever the
\* order of the handler's update, its wake-up, the reader's look at the ring and
\* the update of another reader.  It says nothing of a suspended DMA: a full ring
\* looks like an empty one to the readers, and they sleep beside it for good.
AwakeForData ==
    dma_started /\ ~stray /\ ~misled /\ handler = "idle" /\ ~dma_suspended =>
        \A u \in Callers : user[u] = "asleep" => active_read = active_write /\ unread = {}
=============================================================================
