----------------------------- MODULE AnbProofs -----------------------------
(***************************************************************************)
(* The AnB driver.  For any number of buffers and of callers, a board at   *)
(* work (AnbDma) is never given a buffer that is yet to be read, and       *)
(* nobody sleeps beside one.  For any boards, any limit and any order of   *)
(* their coming and going (AnbPool), what a failed or undone probe had     *)
(* acquired is given back.                                                 *)
(***************************************************************************)
EXTENDS AnbDma, AnbPool, FiniteSetTheorems, TLAPS

Enabling == {"acknowledge", "reset", "map", "arm", "start"}

DmaType ==
    /\ registered \in BOOLEAN
    /\ buffers \in Nat /\ (buffers = 0 \/ buffers >= 2)
    /\ active_read \in Nat /\ active_write \in Nat /\ mapped \in Nat /\ next \in Nat
    /\ dma_started \in BOOLEAN /\ dma_suspended \in BOOLEAN
    /\ armed \in BOOLEAN /\ irq \in BOOLEAN /\ stray \in BOOLEAN /\ misled \in BOOLEAN
    /\ handler \in {"idle", "entered", "counted", "rearming"}
    /\ ioctl \in Enabling \cup {"none", "stop", "roll"}
    /\ DOMAIN user = Callers

\* What enable_dma has done so far stays done, since the semaphore is held and
\* the handler does nothing while the DMA is stopped; one caller at a time is
\* between the test and the update of DMARollBuffer.
Calls ==
    /\ ioctl \in Enabling => ~dma_started /\ active_read = 0
    /\ ~stray /\ ioctl \in Enabling => handler = "idle"
    /\ handler # "idle" => ~dma_suspended
    /\ \A u \in Callers : user[u] = "rolling" =>
          ioctl = "roll" /\ \A v \in Callers : user[v] = "rolling" => v = u

\* A board that is not astray is armed by the driver only, and its interrupt is
\* not up then.
ArmedByDriver ==
    ~stray =>
        /\ armed => ~irq /\ (dma_started \/ ioctl = "start") /\ handler = "idle"
        /\ ioctl \in {"reset", "map", "arm"} => ~irq

\* The places from r up to w, around a ring of n.
Span(n, r, w) ==
    {k \in 0..(n - 1) : \/ r <= w /\ r <= k /\ k < w
                        \/ w < r /\ (r <= k \/ k < w)}

\* A run of the DMA with nobody but the driver arming the board, and with all
\* its buffers mapped.
Orderly == ~stray /\ ~misled /\ (dma_started \/ ioctl \in {"arm", "start"})

\* The handler has not moved active_write yet.
BeforeCount == ~dma_suspended /\ handler \in {"idle", "entered"}

\* The buffers yet to be read are those from active_read to active_write; when
\* these are the same, none, or all until the handler has looked.
RingInOrder ==
    Orderly =>
        /\ active_read < buffers /\ active_write < buffers /\ mapped < buffers
        /\ BeforeCount => mapped = active_write
        /\ handler = "rearming" => next = active_write
        /\ armed => mapped \notin unread
        /\ ~dma_started => unread = {}
        /\ \/ unread = Span(buffers, active_read, active_write)
           \/ /\ dma_suspended \/ handler = "counted"
              /\ active_read = active_write /\ unread = 0..(buffers - 1)
        /\ ioctl = "roll" => active_read \in unread

\* Who sleeps does so beside an empty ring, until the handler has moved
\* active_write, and is woken before it is done.
SleepersWait ==
    Orderly /\ BeforeCount => \A u \in Callers : user[u] = "asleep" => active_read = active_write

DmaInv == DmaType /\ Calls /\ ArmedByDriver /\ RingInOrder /\ SleepersWait

-----------------------------------------------------------------------------
\* The ring.

LEMMA SpanFacts ==
    ASSUME NEW n \in Nat, n >= 2, NEW r \in 0..(n - 1), NEW w \in 0..(n - 1)
    PROVE  /\ Span(n, r, r) = {}
           /\ w \notin Span(n, r, w)
           /\ r # w => r \in Span(n, r, w)
BY DEF Span

LEMMA NextInRing ==
    ASSUME DmaType, NEW i \in 0..(buffers - 1), buffers >= 2
    PROVE  NextBuffer(i) \in 0..(buffers - 1) /\ NextBuffer(i) # i
BY DEF NextBuffer, DmaType

\* The handler fills one more, the last one or not ...
LEMMA SpanFills ==
    ASSUME DmaType, NEW r \in 0..(buffers - 1), NEW w \in 0..(buffers - 1)
    PROVE  Span(buffers, r, w) \cup {w} =
              IF NextBuffer(w) = r THEN 0..(buffers - 1) ELSE Span(buffers, r, NextBuffer(w))
<1>1. CASE w = buffers - 1
  BY <1>1 DEF Span, NextBuffer, DmaType
<1>2. CASE w # buffers - 1
  BY <1>2 DEF Span, NextBuffer, DmaType
<1> QED
  BY <1>1, <1>2

\* ... and the reader leaves one behind, of a ring that is full or not.
LEMMA SpanRolls ==
    ASSUME DmaType, NEW r \in 0..(buffers - 1), NEW w \in 0..(buffers - 1)
    PROVE  Span(buffers, NextBuffer(r), w) =
              IF r = w THEN (0..(buffers - 1)) \ {r} ELSE Span(buffers, r, w) \ {r}
<1>1. CASE r = buffers - 1
  BY <1>1 DEF Span, NextBuffer, DmaType
<1>2. CASE r # buffers - 1
  BY <1>2 DEF Span, NextBuffer, DmaType
<1> QED
  BY <1>1, <1>2

\* In a ring with a place there are two.
LEMMA RingOfTwo ==
    DmaType /\ (active_read < buffers \/ active_read \in 0..(buffers - 1))
        => buffers \in Nat /\ buffers >= 2
BY DEF DmaType

\* What a step that leaves the ring, the board and the handler alone keeps.
LEMMA QuietInv ==
    ASSUME DmaInv, UNCHANGED <<ringVars, boardVars, handlerVars, ioctl>>, DOMAIN user' = Callers,
           \A v \in Callers : user'[v] = "rolling" => user[v] = "rolling",
           \A v \in Callers : user'[v] = "asleep" =>
               user[v] = "asleep" \/ active_read = active_write
    PROVE  DmaInv'
<1>1. DmaType'
  BY DEF DmaInv, ringVars, boardVars, handlerVars, DmaType
<1>2. Calls'
  BY DEF DmaInv, ringVars, boardVars, handlerVars, Calls
<1>3. ArmedByDriver' /\ RingInOrder'
  BY DEF DmaInv, ringVars, boardVars, handlerVars, ArmedByDriver, RingInOrder, Orderly,
         BeforeCount
<1>4. SleepersWait'
  BY DEF DmaInv, ringVars, boardVars, handlerVars, SleepersWait, Orderly, BeforeCount
<1> QED
  BY <1>1, <1>2, <1>3, <1>4 DEF DmaInv

-----------------------------------------------------------------------------
\* The handler and the board.

LEMMA BoardFillsInv == ASSUME DmaInv, BoardFills PROVE DmaInv'
<1> USE DEF DmaInv, BoardFills, ringVars, handlerVars, fileVars
<1>1. DmaType' /\ Calls'
  BY DEF DmaType, Calls
<1>2. ArmedByDriver'
  BY DEF ArmedByDriver, Calls, Enabling, DmaType
<1>3. RingInOrder' /\ SleepersWait'
  BY DEF RingInOrder, SleepersWait, Orderly, BeforeCount
<1> QED
  BY <1>1, <1>2, <1>3

LEMMA InterruptInv == ASSUME DmaInv, Interrupt PROVE DmaInv'
<1> USE DEF DmaInv, Interrupt, ringVars, boardVars, fileVars
<1>1. DmaType'
  BY DEF DmaType
<1>2. Calls'
  BY DEF Calls, Enabling
<1>3. ArmedByDriver'
  BY DEF ArmedByDriver
<1>4. RingInOrder' /\ SleepersWait'
  BY DEF RingInOrder, SleepersWait, Orderly, BeforeCount
<1> QED
  BY <1>1, <1>2, <1>3, <1>4

LEMMA CountFilledInv == ASSUME DmaInv, CountFilled PROVE DmaInv'
<1> USE DEF DmaInv, boardVars, fileVars
<1>1. DmaType' /\ dma_started' = dma_started /\ ioctl' = ioctl
  BY DEF CountFilled, DmaType, NextBuffer
<1>2. Calls' /\ ArmedByDriver'
  BY <1>1 DEF CountFilled, Calls, ArmedByDriver, Enabling, DmaType
<1>3. RingInOrder'
  <2> SUFFICES ASSUME Orderly PROVE RingInOrder'
    BY <1>1 DEF RingInOrder, Orderly, CountFilled
  <2>1. BeforeCount
    BY DEF CountFilled, Calls, BeforeCount
  <2>2. /\ active_read \in 0..(buffers - 1) /\ active_write \in 0..(buffers - 1)
        /\ active_read < buffers /\ mapped < buffers /\ mapped = active_write
        /\ unread = Span(buffers, active_read, active_write)
        /\ ioctl = "roll" => active_read \in unread
    BY <2>1 DEF CountFilled, RingInOrder, DmaType, BeforeCount
  <2>3. /\ active_read' = active_read /\ buffers' = buffers /\ mapped' = mapped
        /\ active_write' = NextBuffer(active_write) /\ unread' = unread \cup {active_write}
        /\ handler' = "counted"
    BY <2>2 DEF CountFilled
  <2>4. NextBuffer(active_write) < buffers
    BY <2>2, NextInRing, RingOfTwo DEF DmaType
  <2>5. \/ unread' = Span(buffers, active_read, NextBuffer(active_write))
        \/ NextBuffer(active_write) = active_read /\ unread' = 0..(buffers - 1)
    BY <2>2, <2>3, SpanFills
  <2>6. ~armed' /\ dma_started
    BY DEF CountFilled, ArmedByDriver, Orderly, Calls, Enabling
  <2>7. active_read \in unread => active_read \in unread'
    BY <2>3
  <2> QED
    BY ONLY <1>1, <2>2, <2>3, <2>4, <2>5, <2>6, <2>7 DEF RingInOrder, BeforeCount
<1>4. SleepersWait'
  BY DEF CountFilled, SleepersWait, BeforeCount
<1> QED
  BY <1>1, <1>2, <1>3, <1>4

LEMMA TestFullInv == ASSUME DmaInv, TestFull PROVE DmaInv'
<1> USE DEF DmaInv, boardVars, fileVars
<1>1. DmaType' /\ dma_started' = dma_started /\ ioctl' = ioctl
  BY DEF TestFull, DmaType, RingFull
<1>2. Calls' /\ ArmedByDriver'
  BY <1>1 DEF TestFull, RingFull, Calls, ArmedByDriver, Enabling, DmaType
<1>3. RingInOrder'
  <2>1. CASE RingFull
    BY <2>1 DEF TestFull, RingInOrder, Orderly, BeforeCount, DmaType
  <2>2. CASE ~RingFull
    BY <2>2 DEF TestFull, RingInOrder, Orderly, BeforeCount, DmaType, RingFull
  <2> QED
    BY <2>1, <2>2
<1>4. SleepersWait'
  BY DEF TestFull, SleepersWait, BeforeCount, Orderly
<1> QED
  BY <1>1, <1>2, <1>3, <1>4

LEMMA RearmInv == ASSUME DmaInv, Rearm PROVE DmaInv'
<1> USE DEF DmaInv, fileVars
<1>1. DmaType' /\ dma_started' = dma_started /\ ioctl' = ioctl /\ dma_suspended' = dma_suspended
  BY DEF Rearm, MapActive, DmaType, Woken
<1>2. Calls'
  BY <1>1 DEF Rearm, Calls, Enabling, DmaType, Woken
<1>3. ArmedByDriver'
  <2>1. irq' = FALSE /\ handler' = "idle" /\ (~stray' => dma_started)
    BY DEF Rearm, DmaType
  <2> QED
    BY ONLY <1>1, <2>1 DEF ArmedByDriver
<1>4. RingInOrder'
  <2> SUFFICES ASSUME Orderly' PROVE RingInOrder'
    BY DEF RingInOrder
  <2>1. PICK works \in BOOLEAN :
           MapActive(buffers, next, works) /\ misled' = (misled \/ ~works)
    BY DEF Rearm
  <2>2. works /\ ~misled /\ ~stray /\ dma_started
    BY <1>1, <2>1 DEF Orderly, Rearm, DmaType
  <2>3. /\ active_read \in 0..(buffers - 1) /\ active_write \in 0..(buffers - 1)
        /\ ~dma_suspended /\ unread = Span(buffers, active_read, active_write)
        /\ next = active_write /\ (ioctl = "roll" => active_read \in unread)
    BY <2>2 DEF Rearm, RingInOrder, Orderly, Calls, DmaType
  <2>4. active_write' = active_write /\ mapped' = active_write
    BY <2>1, <2>2, <2>3 DEF MapActive
  <2>5. active_write \notin unread
    BY <2>3, SpanFacts, RingOfTwo DEF DmaType
  <2> QED
    BY <1>1, <2>2, <2>3, <2>4, <2>5 DEF Rearm, RingInOrder, BeforeCount, DmaType
<1>5. SleepersWait'
  BY DEF Rearm, SleepersWait, Woken
<1> QED
  BY <1>1, <1>2, <1>3, <1>4, <1>5

-----------------------------------------------------------------------------
\* enable_dma and disable_dma.

LEMMA MapFirstInv == ASSUME DmaInv, MapFirst PROVE DmaInv'
<1> USE DEF DmaInv, boardVars, handlerVars, fileVars, Proceeds
<1>1. PICK works \in BOOLEAN : MapActive(buffers, 0, works) /\ misled' = ~works
  BY DEF MapFirst
<1>2. DmaType'
  BY <1>1 DEF MapFirst, MapActive, DmaType, Enabling
<1>3. Calls' /\ ArmedByDriver'
  BY DEF MapFirst, Calls, ArmedByDriver, Enabling, DmaType
<1>4. ASSUME Orderly'
      PROVE  /\ active_read' = 0 /\ active_write' = 0 /\ mapped' = 0 /\ buffers' = buffers
             /\ 0 < buffers /\ unread' = {} /\ ioctl' = "arm"
  <2>1. works
    BY <1>1, <1>4 DEF Orderly
  <2> QED
    BY <1>1, <2>1 DEF MapFirst, MapActive, Calls, DmaType, Enabling
<1>5. RingInOrder'
  <2> SUFFICES ASSUME Orderly' PROVE RingInOrder'
    BY DEF RingInOrder
  <2>1. Span(buffers, 0, 0) = {}
    BY <1>4 DEF Span, DmaType
  <2>2. handler' # "rearming"
    BY DEF MapFirst, Calls, Orderly, Enabling
  <2> QED
    BY <1>4, <2>1, <2>2 DEF RingInOrder
<1>6. SleepersWait'
  BY <1>4 DEF SleepersWait
<1> QED
  BY <1>2, <1>3, <1>5, <1>6

LEMMA EnableInv ==
    ASSUME DmaInv, StartEnable \/ Acknowledge \/ ResetBoard \/ ArmBoard \/ SetStarted
    PROVE  DmaInv'
<1> USE DEF DmaInv, ringVars, handlerVars, fileVars, boardVars, Proceeds, DmaType, Calls,
            ArmedByDriver, RingInOrder, SleepersWait, Orderly, BeforeCount, Enabling
<1>1. CASE StartEnable
  BY <1>1 DEF StartEnable
<1>2. CASE Acknowledge
  BY <1>2 DEF Acknowledge
<1>3. CASE ResetBoard
  BY <1>3 DEF ResetBoard
<1>4. CASE ArmBoard
  BY <1>4 DEF ArmBoard
<1>5. CASE SetStarted
  BY <1>5 DEF SetStarted
<1> QED
  BY <1>1, <1>2, <1>3, <1>4, <1>5

LEMMA DisableInv == ASSUME DmaInv, StartDisable \/ ClearStarted PROVE DmaInv'
<1> USE DEF DmaInv, ringVars, handlerVars, fileVars, boardVars, Proceeds, DmaType, Calls,
            ArmedByDriver, RingInOrder, SleepersWait, Orderly, BeforeCount, Enabling
<1>1. CASE StartDisable
  BY <1>1 DEF StartDisable
<1>2. CASE ClearStarted
  BY <1>2 DEF ClearStarted
<1> QED
  BY <1>1, <1>2

-----------------------------------------------------------------------------
\* The other calls.

\* With the DMA stopped there is nothing to keep in order.
LEMMA StoppedInv ==
    ASSUME DmaInv, (\E n \in 2..MaxBuffers : SetBuffers(n)) \/ WriteRegister
    PROVE  DmaInv'
<1> USE DEF DmaInv, ringVars, handlerVars, fileVars, boardVars, DmaType, Calls, ArmedByDriver,
            RingInOrder, SleepersWait, Orderly, BeforeCount, Enabling
<1>1. ASSUME NEW n \in 2..MaxBuffers, SetBuffers(n) PROVE DmaInv'
  BY <1>1, DmaAssumption DEF SetBuffers, MapActive
<1>2. CASE WriteRegister
  BY <1>2 DEF WriteRegister
<1> QED
  BY <1>1, <1>2

LEMMA StartRollInv == ASSUME DmaInv, NEW u \in Callers, StartRoll(u) PROVE DmaInv'
<1> USE DEF DmaInv, ringVars, boardVars, handlerVars, fileVars
<1>1. DmaType' /\ ArmedByDriver'
  BY DEF StartRoll, DmaType, ArmedByDriver
<1>2. Calls'
  BY DEF StartRoll, Calls, Enabling, DmaType
<1>3. RingInOrder'
  <2> SUFFICES ASSUME Orderly PROVE RingInOrder'
    BY DEF StartRoll, RingInOrder, Orderly
  <2>1. /\ active_read \in 0..(buffers - 1) /\ active_write \in 0..(buffers - 1)
        /\ active_read # active_write /\ unread = Span(buffers, active_read, active_write)
    BY DEF StartRoll, RingInOrder, DmaType
  <2>2. active_read \in unread
    BY <2>1, SpanFacts, RingOfTwo DEF DmaType
  <2> QED
    BY <2>2 DEF StartRoll, RingInOrder, Orderly, BeforeCount
<1>4. SleepersWait'
  BY DEF StartRoll, SleepersWait, Orderly, BeforeCount, DmaType
<1> QED
  BY <1>1, <1>2, <1>3, <1>4

LEMMA EndRollInv == ASSUME DmaInv, NEW u \in Callers, EndRoll(u) PROVE DmaInv'
<1> USE DEF DmaInv, boardVars, handlerVars, fileVars
<1>1. DmaType'
  BY DEF EndRoll, DmaType, NextBuffer
<1>2. ioctl = "roll" /\ Calls' /\ ArmedByDriver'
  BY DEF EndRoll, Calls, ArmedByDriver, Enabling, DmaType
<1>3. ASSUME Orderly
      PROVE  /\ active_read \in 0..(buffers - 1) /\ active_write \in 0..(buffers - 1)
             /\ mapped < buffers /\ active_write < buffers /\ active_read \in unread
             /\ (armed => mapped \notin unread)
             /\ \/ /\ active_read # active_write
                   /\ unread = Span(buffers, active_read, active_write)
                \/ /\ active_read = active_write /\ unread = 0..(buffers - 1)
                   /\ dma_suspended \/ handler = "counted"
  <2>1. /\ active_read \in 0..(buffers - 1) /\ active_write \in 0..(buffers - 1)
        /\ mapped < buffers /\ active_write < buffers /\ active_read \in unread
        /\ (armed => mapped \notin unread)
        /\ \/ unread = Span(buffers, active_read, active_write)
           \/ /\ dma_suspended \/ handler = "counted"
              /\ active_read = active_write /\ unread = 0..(buffers - 1)
    BY <1>2, <1>3 DEF RingInOrder, DmaType
  <2>2. active_read = active_write => unread # Span(buffers, active_read, active_write)
    <3>1. buffers \in Nat /\ buffers >= 2 /\ active_read \in 0..(buffers - 1)
      BY <2>1, RingOfTwo
    <3>2. Span(buffers, active_read, active_read) = {}
      BY ONLY <3>1 DEF Span
    <3> QED
      BY <2>1, <3>2
  <2> QED
    BY <2>1, <2>2
<1>4. RingInOrder'
  <2> SUFFICES ASSUME Orderly PROVE RingInOrder'
    BY DEF EndRoll, RingInOrder, Orderly
  <2>1. NextBuffer(active_read) < buffers
    BY <1>3, NextInRing, RingOfTwo DEF DmaType
  <2>2. unread' = Span(buffers, NextBuffer(active_read), active_write)
    BY <1>3, SpanRolls DEF EndRoll
  <2>3. /\ active_read' = NextBuffer(active_read) /\ active_write' = active_write
        /\ buffers' = buffers /\ mapped' = mapped /\ handler' = handler /\ next' = next
        /\ dma_suspended' = dma_suspended /\ armed' = armed /\ ioctl' = "none"
        /\ unread' \subseteq unread
    BY DEF EndRoll
  <2>4. (BeforeCount => mapped = active_write) /\ (handler = "rearming" => next = active_write)
    BY DEF RingInOrder
  <2>5. dma_started /\ dma_started' = dma_started
    BY <1>2 DEF EndRoll, Orderly
  <2>6. armed => mapped \notin unread'
    BY <1>3, <2>3
  <2>7. mapped < buffers /\ active_write < buffers
    BY <1>3
  <2> QED
    BY ONLY <2>1, <2>2, <2>3, <2>4, <2>5, <2>6, <2>7 DEF RingInOrder, BeforeCount
<1>5. SleepersWait'
  <2> SUFFICES ASSUME Orderly, BeforeCount, NEW v \in Callers, user'[v] = "asleep" PROVE FALSE
    BY DEF EndRoll, SleepersWait, Orderly, BeforeCount
  <2>1. user[v] = "asleep"
    BY DEF EndRoll, DmaType
  <2>2. active_read = active_write
    BY <2>1 DEF SleepersWait
  <2> QED
    BY <1>3, <2>2 DEF BeforeCount
<1> QED
  BY <1>1, <1>2, <1>4, <1>5

LEMMA CallerInv == ASSUME DmaInv, NEW u \in Callers, CallerNext(u) PROVE DmaInv'
<1> USE DEF fileVars
<1>1. DOMAIN user = Callers
  BY DEF DmaInv, DmaType
<1>2. CASE WaitForBuffer(u)
  BY <1>1, <1>2, QuietInv DEF WaitForBuffer
<1>3. CASE GiveUp(u)
  BY <1>1, <1>3, QuietInv DEF GiveUp
<1>4. CASE LookOrSleep(u)
  BY <1>1, <1>4, QuietInv DEF LookOrSleep
<1>5. CASE StartRoll(u) \/ EndRoll(u)
  BY <1>5, StartRollInv, EndRollInv
<1>6. ASSUME NEW t \in Tables, StartCopy(u, t) PROVE DmaInv'
  BY <1>1, <1>6, QuietInv DEF StartCopy
<1>7. CASE FinishCopy(u)
  BY <1>1, <1>7, QuietInv DEF FinishCopy
<1>8. CASE AbandonCopy(u)
  BY <1>1, <1>8, QuietInv DEF AbandonCopy
<1>9. CASE RefuseWrite(u)
  BY <1>1, <1>9, QuietInv DEF RefuseWrite
<1> QED
  BY <1>2, <1>3, <1>4, <1>5, <1>6, <1>7, <1>8, <1>9 DEF CallerNext

LEMMA DmaInitial == DmaInit => DmaInv
<1> SUFFICES ASSUME DmaInit PROVE DmaInv
  OBVIOUS
<1> USE DEF DmaInit
<1>1. DmaType /\ Calls /\ ArmedByDriver
  BY DmaAssumption DEF DmaType, Calls, ArmedByDriver, Enabling
<1>2. RingInOrder /\ SleepersWait
  BY DEF RingInOrder, SleepersWait, Orderly
<1> QED
  BY <1>1, <1>2 DEF DmaInv

LEMMA DmaStep == DmaInv /\ [DmaNext]_dmaVars => DmaInv'
<1> SUFFICES ASSUME DmaInv, [DmaNext]_dmaVars PROVE DmaInv'
  OBVIOUS
<1>1. CASE BoardFills \/ Interrupt \/ CountFilled \/ TestFull \/ Rearm
  BY <1>1, BoardFillsInv, InterruptInv, CountFilledInv, TestFullInv, RearmInv
<1>2. CASE StartEnable \/ Acknowledge \/ ResetBoard \/ ArmBoard \/ SetStarted
  BY <1>2, EnableInv
<1>3. CASE MapFirst
  BY <1>3, MapFirstInv
<1>4. CASE StartDisable \/ ClearStarted
  BY <1>4, DisableInv
<1>5. CASE (\E n \in 2..MaxBuffers : SetBuffers(n)) \/ WriteRegister
  BY <1>5, StoppedInv
<1>6. DOMAIN user = Callers
  BY DEF DmaInv, DmaType
<1>7. CASE MapRing
  BY <1>6, <1>7, QuietInv DEF MapRing
<1>8. CASE UnmapRing
  BY <1>6, <1>8, QuietInv DEF UnmapRing
<1>9. ASSUME NEW u \in Callers, CallerNext(u) PROVE DmaInv'
  BY <1>9, CallerInv
<1>10. CASE UNCHANGED dmaVars
  BY <1>6, <1>10, QuietInv DEF dmaVars
<1> QED
  BY <1>1, <1>2, <1>3, <1>4, <1>5, <1>7, <1>8, <1>9, <1>10 DEF DmaNext

\* The inductive invariant of one board.
THEOREM RingCorrect == DmaSpec => []DmaInv
BY DmaInitial, DmaStep, PTL DEF DmaSpec

\* The board is not given a buffer that is yet to be read, and what the reader rolls
\* past was filled, as long as every buffer could be mapped: the handler (dma.c) and
\* DMARollBuffer (dev_entry.c) share active_write and active_read without a lock.
THEOREM NothingOverwritten == DmaSpec => []UnreadIsKept
<1>1. DmaInv => UnreadIsKept
  <2> SUFFICES ASSUME DmaInv, dma_started, ~stray, ~misled
               PROVE  /\ {active_read, active_write, mapped} \subseteq 0..(buffers - 1)
                      /\ armed => mapped \notin unread
                      /\ ioctl = "roll" => active_read \in unread
    BY DEF UnreadIsKept
  <2> QED
    BY DEF DmaInv, RingInOrder, Orderly, DmaType
<1> QED
  BY <1>1, RingCorrect, PTL

\* Nobody sleeps in DMARollBuffer beside a buffer to read, unless the DMA was
\* suspended by a full ring.
THEOREM NobodySleepsBesideData == DmaSpec => []AwakeForData
<1>1. DmaInv => AwakeForData
  <2> SUFFICES ASSUME DmaInv, dma_started, ~stray, ~misled, handler = "idle", ~dma_suspended,
                      NEW u \in Callers, user[u] = "asleep"
               PROVE  active_read = active_write /\ unread = {}
    BY DEF AwakeForData
  <2>1. active_read = active_write
    BY DEF DmaInv, SleepersWait, Orderly, BeforeCount
  <2>2. /\ unread = Span(buffers, active_read, active_write)
        /\ active_read \in 0..(buffers - 1)
    BY DEF DmaInv, RingInOrder, Orderly, DmaType
  <2>3. buffers \in Nat /\ buffers >= 2
    BY <2>2, RingOfTwo DEF DmaInv
  <2>4. Span(buffers, active_read, active_read) = {}
    BY ONLY <2>2, <2>3 DEF Span
  <2> QED
    BY ONLY <2>1, <2>2, <2>4
<1> QED
  BY <1>1, RingCorrect, PTL

-----------------------------------------------------------------------------
PoolType ==
    /\ device_id \in [Cards -> Int]
    /\ DOMAIN held = Cards

Places(pool) == {pool[i] : i \in DOMAIN pool}

\* Every place of the pool holds a board of its own.
Distinct(pool) ==
    /\ pool \in Seq(Cards)
    /\ \A i, j \in DOMAIN pool : pool[i] = pool[j] => i = j

\* What a board may hold is what device_remove gives back.
Everything == GivenBack(DeallocateEntry) \cup GivenBack(DeviceRemove)

HeldIsKnown == \A c \in Cards : held[c] \subseteq Everything

AnbInv ==
    /\ PoolType /\ HeldIsKnown /\ NothingLeftBehind
    /\ orderly => Distinct(devices)

-----------------------------------------------------------------------------
\* The label that gives back each thing acquired before the last step.
LEMMA LabelsGiveBack ==
  /\ "private_data" \in Labels[11] /\ "enabled" \in Labels[10] /\ "regions" \in Labels[9]
  /\ "registers" \in Labels[8] /\ "memory" \in Labels[7] /\ "file" \in Labels[6]
  /\ "miscdevice" \in Labels[5] /\ "semaphore" \in Labels[4] /\ "dma" \in Labels[3]
  /\ "buffers" \in Labels[2] /\ "irq" \in Labels[2]
  /\ Len(Labels) = 12
BY DEF Labels

\* A step that fails jumps to the labels of everything acquired before it.
LEMMA JumpsFarEnough ==
  ASSUME NEW n \in 1..12, NEW i \in 1..(n - 1), Acquired[i] \notin {"bars", "pool"}
  PROVE  \E k \in LabelOf[Acquired[n]]..12 : Acquired[i] \in Labels[k]
<1>1. Acquired[1] = "private_data" /\ Acquired[2] = "enabled" /\ Acquired[3] = "regions"
      /\ Acquired[4] = "bars" /\ Acquired[5] = "registers" /\ Acquired[6] = "memory"
      /\ Acquired[7] = "file" /\ Acquired[8] = "miscdevice" /\ Acquired[9] = "semaphore"
      /\ Acquired[10] = "dma" /\ Acquired[11] = "pool" /\ Acquired[12] = "entry"
  BY DEF Acquired
<1>2. LabelOf["private_data"] = 12 /\ LabelOf["enabled"] = 11 /\ LabelOf["regions"] = 10
      /\ LabelOf["bars"] = 9 /\ LabelOf["registers"] = 9 /\ LabelOf["memory"] = 8
      /\ LabelOf["file"] = 7 /\ LabelOf["miscdevice"] = 6 /\ LabelOf["semaphore"] = 5
      /\ LabelOf["dma"] = 4 /\ LabelOf["pool"] = 2 /\ LabelOf["entry"] = 1
  BY DEF LabelOf
<1> DEFINE back == [j \in 1..11 |-> IF j < 4 THEN 12 - j ELSE 13 - j]
<1>3. i \in 1..10 /\ i # 4
  BY <1>1
<1>4. Acquired[i] \in Labels[back[i]]
  BY <1>1, <1>3, LabelsGiveBack
<1>5. back[i] \in LabelOf[Acquired[n]]..12
  BY <1>1, <1>2, <1>3
<1> QED BY <1>4, <1>5

\* After any failure nothing is held.
LEMMA AllGivenBack ==
  ASSUME NEW n \in 1..12, NEW parts \in DmaParts
  PROVE  AfterFailure(n, parts) = {}
<1> DEFINE had == Before(n) \cup (IF n > 10 THEN parts ELSE {})
           back == UNION {Labels[k] : k \in LabelOf[Acquired[n]]..12}
<1>1. AfterFailure(n, parts) = had \ back
  BY LabelsGiveBack DEF AfterFailure
<1>2. ASSUME NEW x \in Before(n) PROVE x \in back
  <2>1. PICK i \in 1..(n - 1) : x = Acquired[i] /\ x \notin {"bars", "pool"}
    BY DEF Before
  <2>2. PICK k \in LabelOf[Acquired[n]]..12 : x \in Labels[k]
    BY <2>1, JumpsFarEnough
  <2> QED BY <2>2
<1>3. ASSUME n > 10, NEW x \in parts PROVE x \in back
  <2>1. x \in Labels[2]
    BY <1>3, LabelsGiveBack DEF DmaParts
  <2>2. n \in {11, 12}
    BY <1>3
  <2>3. 2 \in LabelOf[Acquired[n]]..12
    BY <2>2 DEF LabelOf, Acquired
  <2> QED BY <2>1, <2>3
<1> HIDE DEF back
<1>4. had \subseteq back
  BY <1>2, <1>3
<1> HIDE DEF had
<1> QED BY <1>1, <1>4

LEMMA CountIsNat == devices_count \in Nat
<1>1. IsFiniteSet(Bound)
  BY FS_Subset, AnbPoolAssumption DEF Bound
<1> QED BY <1>1, FS_CardinalityType DEF devices_count

-----------------------------------------------------------------------------
\* Everything a probe takes is given back by a removal.
LEMMA TakenIsKnown ==
  /\ Before(13) \subseteq Everything /\ "buffers" \in Everything
  /\ \A parts \in DmaParts : parts \subseteq Everything
<1>1. Everything = {"entry", "irq", "buffers", "dma", "semaphore", "miscdevice", "file",
                    "registers", "memory", "regions", "enabled", "private_data"}
  <2>1. GivenBack(DeallocateEntry)
          = {"entry", "irq", "buffers", "dma", "semaphore", "miscdevice", "file"}
    BY DEF GivenBack, DeallocateEntry
  <2>2. GivenBack(DeviceRemove)
          = {"registers", "memory", "regions", "enabled", "private_data"}
    BY DEF GivenBack, DeviceRemove
  <2> QED BY <2>1, <2>2 DEF Everything
<1>2. Before(13) \subseteq {"private_data", "enabled", "regions", "registers", "memory", "file",
                            "miscdevice", "semaphore", "dma", "entry"}
  BY DEF Before, Acquired
<1> QED BY <1>1, <1>2 DEF DmaParts

\* A board that deviceRemove takes out of the first place leaves the others,
\* in their order.
LEMMA FirstPlace ==
  ASSUME NEW pool, Distinct(pool), NEW c, 1 \in getDeviceNumber(pool, c)
  PROVE  /\ Distinct(Freed(Shrunk(pool, 1), c))
         /\ Places(Freed(Shrunk(pool, 1), c)) = Places(pool) \ {c}
<1> DEFINE rest == [j \in 1..(Len(pool) - 1) |-> pool[j + 1]]
<1>1. pool \in Seq(Cards) /\ Len(pool) \in Nat /\ DOMAIN pool = 1..Len(pool)
      /\ \A i, j \in DOMAIN pool : pool[i] = pool[j] => i = j
  BY DEF Distinct
<1>2. pool[1] = c /\ Len(pool) >= 1
  BY <1>1 DEF getDeviceNumber
<1>3. Shrunk(pool, 1) = rest
  BY <1>1 DEF Shrunk
<1>4. rest \in Seq(Cards) /\ DOMAIN rest = 1..(Len(pool) - 1)
  BY <1>1, <1>2
<1>5. \A j \in DOMAIN rest : rest[j] = pool[j + 1] /\ j + 1 \in DOMAIN pool /\ j + 1 # 1
  BY <1>1, <1>4
<1>6. \A j \in DOMAIN rest : rest[j] # c
  BY <1>1, <1>2, <1>5
<1>7. Freed(rest, c) = rest
  BY <1>4, <1>6 DEF Freed
<1>8. Distinct(rest)
  <2>1. \A i, j \in DOMAIN rest : rest[i] = rest[j] => i = j
    BY <1>1, <1>4, <1>5
  <2> QED BY <2>1, <1>4 DEF Distinct
<1>9. Places(rest) = Places(pool) \ {c}
  <2>1. ASSUME NEW x \in Places(rest) PROVE x \in Places(pool) \ {c}
    BY <2>1, <1>5, <1>6 DEF Places
  <2>2. ASSUME NEW x \in Places(pool), x # c PROVE x \in Places(rest)
    <3>1. PICK i \in DOMAIN pool : x = pool[i]
      BY <2>2 DEF Places
    <3>2. i - 1 \in DOMAIN rest /\ rest[i - 1] = pool[i]
      BY <3>1, <2>2, <1>1, <1>2, <1>4
    <3> QED BY <3>1, <3>2 DEF Places
  <2> QED BY <2>1, <2>2
<1> HIDE DEF rest
<1> QED BY <1>3, <1>7, <1>8, <1>9

\* A board that was in no place comes into the last.
LEMMA LastPlace ==
  ASSUME NEW pool, Distinct(pool), NEW c \in Cards, c \notin Places(pool)
  PROVE  /\ Distinct(Append(pool, c))
         /\ Places(Append(pool, c)) = Places(pool) \cup {c}
<1> DEFINE more == Append(pool, c)
<1>1. pool \in Seq(Cards) /\ Len(pool) \in Nat /\ DOMAIN pool = 1..Len(pool)
      /\ \A i, j \in DOMAIN pool : pool[i] = pool[j] => i = j
  BY DEF Distinct
<1>2. more \in Seq(Cards) /\ DOMAIN more = 1..(Len(pool) + 1)
  BY <1>1
<1>3. more[Len(pool) + 1] = c /\ \A i \in DOMAIN pool : more[i] = pool[i] /\ pool[i] # c
  BY <1>1 DEF Places
<1>4. \A i \in DOMAIN more : i \in DOMAIN pool \/ i = Len(pool) + 1
  BY <1>1, <1>2
<1>5. Len(pool) + 1 \in DOMAIN more /\ \A i \in DOMAIN pool : i \in DOMAIN more
  BY <1>1, <1>2
<1> HIDE DEF more
<1>6. Distinct(more)
  <2>1. \A i, j \in DOMAIN more : more[i] = more[j] => i = j
    BY <1>1, <1>3, <1>4
  <2> QED BY <2>1, <1>2 DEF Distinct
<1>7. Places(more) = Places(pool) \cup {c}
  BY <1>3, <1>4, <1>5 DEF Places
<1> QED BY <1>6, <1>7 DEF more

\* What deviceRemove does to a pool of distinct boards.
LEMMA PoolWithout ==
  ASSUME NEW pool, NEW c, orderly => Distinct(pool), deviceRemove(pool, c)
  PROVE  orderly' => Distinct(devices') /\ Places(devices') = Places(pool) \ {c}
<1> SUFFICES ASSUME orderly' PROVE Distinct(devices') /\ Places(devices') = Places(pool) \ {c}
  OBVIOUS
<1>1. PICK i \in getDeviceNumber(pool, c) :
        devices' = Freed(Shrunk(pool, i), c) /\ orderly' = (orderly /\ i = 1)
  BY DEF deviceRemove
<1> QED BY <1>1, FirstPlace

-----------------------------------------------------------------------------
THEOREM BoardsCorrect == AnbPoolSpec => []AnbInv
<1>1. AnbPoolInit => AnbInv
  BY DEF AnbPoolInit, AnbInv, PoolType, HeldIsKnown, NothingLeftBehind, Bound, Distinct
<1>2. AnbInv /\ [AnbPoolNext]_anbPoolVars => AnbInv'
  <2> SUFFICES ASSUME AnbInv, [AnbPoolNext]_anbPoolVars PROVE AnbInv'
    OBVIOUS
  <2> USE DEF AnbInv
  <2>1. orderly => Distinct(devices) /\ Places(devices) = Bound
    BY DEF NothingLeftBehind, Places
  <2>2. ASSUME held' = held, device_id' = device_id, devices' = devices, orderly' = orderly
        PROVE  AnbInv'
    BY <2>2 DEF PoolType, HeldIsKnown, NothingLeftBehind, Bound, Distinct
  <2>3. ASSUME NEW c \in Cards, Probe(c) PROVE AnbInv'
    <3>1. c \notin Bound /\ device_id' = [device_id EXCEPT ![c] = devices_count]
          /\ devices' = Append(devices, c) /\ orderly' = orderly
      BY <2>3 DEF Probe
    <3>2. PICK parts \in DmaParts : held' = [held EXCEPT ![c] = Before(13) \cup parts]
      BY <2>3 DEF Probe
    <3>3. Bound' = Bound \cup {c} /\ PoolType'
      <4>1. devices_count \in Nat
        BY CountIsNat
      <4> QED BY ONLY <3>1, <3>2, <4>1, PoolType DEF PoolType, Bound
    <3>4. orderly' => Distinct(devices') /\ Places(devices') = Bound'
      BY <2>1, <3>1, <3>3, LastPlace
    <3>5. HeldIsKnown'
      BY <3>2, TakenIsKnown DEF HeldIsKnown, PoolType
    <3>6. NothingLeftBehind'
      BY <3>2, <3>3, <3>4 DEF NothingLeftBehind, PoolType, Places
    <3> QED BY <3>3, <3>4, <3>5, <3>6
  <2>4. ASSUME NEW c \in Cards, NEW n \in 1..Len(Acquired), ProbeFails(c, n) PROVE AnbInv'
    <3>1. n \in 1..12
      BY DEF Acquired
    <3>2. PICK parts \in DmaParts : held' = [held EXCEPT ![c] = AfterFailure(n, parts)]
      BY <2>4 DEF ProbeFails
    <3>3. held' = [held EXCEPT ![c] = {}]
      BY <3>1, <3>2, AllGivenBack
    <3>4. device_id' = device_id /\ Bound' = Bound /\ c \notin Bound
      BY <2>4 DEF ProbeFails, Bound
    <3>5. orderly' => Distinct(devices') /\ Places(devices') = Bound'
      <4>1. CASE Acquired[n] = "entry"
        <5> DEFINE pool == Append(devices, c)
        <5>1. deviceRemove(pool, c)
          BY <2>4, <4>1 DEF ProbeFails
        <5>2. orderly => Distinct(pool) /\ Places(pool) = Bound \cup {c}
          BY <2>1, <3>4, LastPlace
        <5>3. orderly' => orderly
          BY <5>1 DEF deviceRemove
        <5>4. orderly' => Distinct(devices') /\ Places(devices') = Places(pool) \ {c}
          <6> HIDE DEF pool
          <6> QED BY <5>1, <5>2, PoolWithout
        <5> HIDE DEF pool
        <5> QED BY <5>2, <5>3, <5>4, <3>4
      <4>2. CASE Acquired[n] # "entry"
        BY <2>1, <2>4, <4>2, <3>4 DEF ProbeFails
      <4> QED BY <4>1, <4>2
    <3>6. PoolType' /\ HeldIsKnown'
      BY <3>3, <3>4 DEF PoolType, HeldIsKnown
    <3>7. NothingLeftBehind'
      BY <3>3, <3>4, <3>5 DEF NothingLeftBehind, PoolType, Places
    <3> QED BY <3>5, <3>6, <3>7
  <2>5. ASSUME NEW c \in Cards, Remove(c) PROVE AnbInv'
    <3>1. held' = [held EXCEPT ![c] = @ \ Everything] /\ c \in Bound
          /\ device_id' = [device_id EXCEPT ![c] = -1] /\ deviceRemove(devices, c)
      BY <2>5 DEF Remove, Everything
    <3>2. Bound' = Bound \ {c} /\ PoolType'
      BY ONLY <3>1, PoolType DEF PoolType, Bound
    <3>3. orderly' => orderly
      BY <3>1 DEF deviceRemove
    <3>4. orderly' => Distinct(devices') /\ Places(devices') = Bound'
      BY <2>1, <3>1, <3>2, <3>3, PoolWithout
    <3>5. held'[c] = {} /\ \A d \in Cards : held'[d] \subseteq held[d]
      BY <3>1 DEF PoolType, HeldIsKnown
    <3>6. HeldIsKnown'
      BY <3>5 DEF HeldIsKnown
    <3>7. NothingLeftBehind'
      BY <3>2, <3>4, <3>5 DEF NothingLeftBehind, Places
    <3> QED BY <3>2, <3>4, <3>6, <3>7
  <2>6. ASSUME NEW c \in Cards, ChangeBuffers(c) PROVE AnbInv'
    <3>1. c \in Bound /\ device_id' = device_id /\ devices' = devices /\ orderly' = orderly
      BY <2>6 DEF ChangeBuffers
    <3>2. PICK s : held' = [held EXCEPT ![c] = s] /\ s \subseteq held[c] \cup {"buffers"}
      BY <2>6 DEF ChangeBuffers
    <3>3. PoolType' /\ Bound' = Bound
      BY <3>1, <3>2 DEF PoolType, Bound
    <3>4. HeldIsKnown'
      BY <3>2, TakenIsKnown DEF HeldIsKnown, PoolType
    <3>5. NothingLeftBehind'
      BY <3>1, <3>2, <3>3 DEF NothingLeftBehind, PoolType
    <3>6. orderly' => Distinct(devices')
      BY <3>1, <2>1
    <3> QED BY <3>3, <3>4, <3>5, <3>6
  <2>7. ASSUME NEW c \in Cards, ProbeRefused(c) \/ Open(c) PROVE AnbInv'
    BY <2>2, <2>7 DEF ProbeRefused, Open
  <2>8. CASE UNCHANGED anbPoolVars
    BY <2>2, <2>8 DEF anbPoolVars
  <2> QED BY <2>3, <2>4, <2>5, <2>6, <2>7, <2>8 DEF AnbPoolNext
<1> QED BY <1>1, <1>2, PTL DEF AnbPoolSpec

\* A board without an entry holds nothing, and while boards left the first
\* place of the pool only, it holds the boards that are there.
THEOREM LeavesNothing == AnbPoolSpec => []NothingLeftBehind
<1>1. AnbInv => NothingLeftBehind
  BY DEF AnbInv
<1> QED BY <1>1, BoardsCorrect, PTL
=============================================================================
