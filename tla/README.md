# qnet: a verification development

This directory holds TLA+ models of the programs in `src/src` of qnet, the
configurations with which TLC checks them, and proofs checked by TLAPS.  Paths
below are relative to the repository's `src/` unless they start with `tla/`.

## 1. Inventory

qnet builds networks whose links are encrypted with keys from a quantum key
distribution stack.  The programs talk to each other over HTTP, TCP and UDP;
there is no shared memory between them.

| component | state it keeps | operations | interacts with |
|---|---|---|---|
| **tcpmux, the link** (`src/tcpmux/tcpmux.c`) | per peer a `mux_context`: main socket, handshake progress, circular buffer of the last 2^20 bytes sent, positions, debt, global karma, packet being written, packet being read | dial, accept, match a key with a context, exchange positions, resend the debt, write, read, acknowledge, drop (idle timer, interface change, error), expire | TCP; the clients of the same process by calls |
| **tcpmux, the clients** (same file) | per client a `client_data`: socket, id, karma in both directions, output buffer; per context the write queue, the karma queue and the burn list | open, read into a packet, write out, return karma, announce the end, burn, free | the link of the same process; local TCP programs |
| **UDP tunnel** (`src/rsctapudp/ctapudp.c`; `src/nextctapudp`, `src/ctapudp`, `src/ctap`, `src/ctapraw` are its predecessors) | current keys with their usage counts, two queues of earlier keys, FEC groups being sent and received | read from the tap, compress, encrypt, send; receive, find the key, decrypt, write to the tap; rotate keys | key server over HTTP, peer over UDP, a thread pool |
| **thread pool** (`src/rsctapudp/thpool.c`) | job queue, binary semaphore, counts of threads alive and working | add work, pull, wait, destroy | threads of the tunnel |
| **erasure code** (`src/rsctapudp/leopard.cpp`, `LeopardFF8.cpp`, `LeopardFF16.cpp`) | tables of two finite fields; the buffers of one call | initialise, encode, decode | the groups of the tunnel |
| **key server** (`src/keyworker/keyworker.c`) | `keys.db`: key, device, usage count and place in a queue, by hash; per device a queue of unused keys; per thread the upload or request in hand | add keys, give a key of a device (unused if there is one), move a key to a device, give a key by its hash | tunnels and QKD programs over HTTP |
| **stream cipher service** (`src/qcrypt/qcrypt.c`) | a ring of keys with a position each, the current key, which both directions share | encrypt a stream into blocks, decrypt, read key files, take a key over HTTP | local streams, key files |
| **Python cipher service** (`src/pythoncrypt/pythoncrypt.py`) | a list of keys, the current one, per socket the rest of a block | the same in one thread for the data and one for keys | local streams, an FPGA |
| **AnB driver** (`kks_console/driverAnB/src/module`) | DMA ring (buffers, current read and write index, suspended flag), device pool | ioctls: set size, start, stop, roll; interrupt handler; probe and remove | the PCI board, user programs |
| **correction of keys** (`kks_console/HammingCode.cpp`) | Alice's and Bob's sifted keys | compute control bits, correct one bit | the consoles of the two boards |
| C++ rewrite of tcpmux, QKD emulators, controllers, test beds | | | |

What is hard in each of them, and what makes it correct:

* **link** - connections break with bytes in flight, are replaced from either
  side, and are accepted late; positions wrap; acknowledgements ride on the
  stream they acknowledge.  Correct: every byte arrives once and in order, the
  credit is conserved, a mux has one context, what may be asked for again is
  still buffered, what was written arrives once a connection lasts.
* **clients** - the end of a client is announced while data, karma and queue
  entries for it are still around.  Correct: a byte of a client arrives at the
  same client, ends are announced once, an id is not reused before both sides
  have finished with it, freed clients are not referred to.
* **tunnel** - groups of datagrams are found again from their numbers alone,
  whatever was lost; keys come from a server that may fail, through queues filled
  by two sides.  Correct: without loss nothing is thrown away, after loss the
  receiver recovers; the use of a key is bounded.
* **thread pool** - binary semaphore with several jobs, a signal that is sent
  only at one moment.  Correct: no job waits while every thread sleeps, no caller
  waits for a signal that has been.
* **erasure code** - which parts of the transforms may be skipped depends on the
  set of losses.  Correct: any losses up to the number of recovery shards are
  made good.
* **key server** - two kinds of file must agree, a request is two transactions,
  several threads and restarts come between them.  Correct: an unused key is in
  the queue of its device and nowhere else, it is handed out as unused once, every
  use is counted.
* **cipher services** - the position in a key is moved by both directions of a
  stream and by the thread that takes keys; blocks arrive in pieces.  Correct: both
  ends of a stream use the same bytes of a key; what is decoded is what was encoded.
* **driver** - interrupt handler against ioctls without a lock, results that nobody
  looks at; a dozen steps of setting a board up, each of which may fail.  Correct:
  the board is not given a buffer that is yet to be read, nobody sleeps beside data,
  nothing is left held.
* **correction of keys** - lengths next to a power of two.  Correct: one wrong bit
  is put right.

`PROJECT.json` lists the hazards one by one with their lines.

## 2. Modules

| module | models | proofs |
|---|---|---|
| `MuxLink`, `BytePipe` | the link of tcpmux and what it promises | `MuxLinkInv`, `MuxLinkProofs` |
| `MuxClients` | the clients of tcpmux over a reliable link | `MuxClientsInv`, `MuxClientsProofs` |
| `KeyWorker` | the key server | `KeyWorkerProofs` |
| `ThreadPool` | `thpool.c` | `ThreadPoolProofs` |
| `TunnelFec` | groups of datagrams | `TunnelProofs` |
| `LeopardTransforms`, `LeopardFF8`, `LeopardFF16`, `LeopardCode` | the erasure code: what the two fields share, each field, the calls | |
| `TunnelKeys`, `EarlierTunnels` | keys at one end of a tunnel, in four programs | `TunnelProofs` |
| `CtapStream` | the framing of `ctap` and `ctapraw` | `CtapStreamProofs` |
| `Qcrypt` | `qcrypt.c` | `QcryptProofs` |
| `PythonCrypt` | `pythoncrypt.py` | `QcryptProofs` |
| `AnbDma`, `AnbPool` | the driver: one board at work; boards coming and going | `AnbProofs` |
| `Hamming` | correction of sifted keys | |
| `MCMuxLink`, `MCMuxClients`, `MCKeyWorker`, `MCNode` | instances for TLC | |

How they compose.  `MuxClients` takes from `MuxLink` that the stream between two ends
is reliable.  `TunnelKeys` takes from `KeyWorker` that a key server asked for a
key gives one of its own choice (`Choices`), be it one it has given before, that it finds
a key by its hash, and that it may fail.  `TunnelFec` takes from `LeopardCode` that enough
shards of one frame determine it.  `EarlierTunnels` extends `TunnelKeys` by what the
predecessors do otherwise.

To come: the liveness of the thread pool; two ends of the tunnel that share one model
of the wire, so that damage done by `TunnelFec` meets the key lookup of `TunnelKeys`.

## 3. MuxLink: the reconnecting stream of tcpmux

### Correspondence

| model | code |
|---|---|
| end 0 (`Mux`) | `mmc`, the context of the mux |
| ends `1 .. MaxConns` (`Ctx`) | the contexts of the demux; context `c` is the one `muxloop` made when it accepted connection `c` |
| `mainfd`, `stream_karma`, `stream_pos`, `stream_debt`, `stream`, `rstream_pos`, `rstream_karma` | the fields of `mux_context` of the same name |
| `handshake` | `handshake_st`, `is_connecting`, `is_burned`: "connecting", "key" (< KEYSZ), "pos" (position awaited), "up", "burned" |
| `write_ctl`, `write_data`, `karma_head` | is client 0 in the write queue; is another client; is the karma queue non-empty |
| `wout` | the packet being written: bytes left, and the credit that is in it |
| `up`, `net`, `key`, `hdr` | a TCP connection: alive, bytes in flight in both directions, the key and the positions of the headers in flight |
| `written`, `delivered`, `owner` | history: what was handed to `write_mainfd` and what `mainr` has read, and which context a connection was given to |

Each action is one handler, or one round of the loops in `mainw` and `mainr`.
Bytes move one at a time; a `read()` or `write()` of *k* bytes is *k* such steps.
A process runs one handler at a time: while an end is inside the writing loop of
`mainw` (`Dumping`) no other handler of that process runs (`Idle`), so the steps
that the code makes without returning to epoll are not interleaved with others of
the same process, but they are with those of the peer and of the network.

The contents of packets are abstracted to what the link itself interprets: the
credit that the last byte of a control packet brings.  Which client a packet
belongs to is the business of `MuxClients`.

### Runs

| run | constants | what it shows |
|---|---|---|
| `mux_link` | buffer 3, threshold 2, 2 connections, 4 bytes each way | one context, nothing lost or reordered, credit conserved, an acknowledgement queued or on its way for whoever waits for one; after a handshake debt and bytes in flight are exactly what is missing |
| `mux_link_live` | buffer 2, 2 connections, 2 bytes each way, fairness | `EverythingArrives`, and that the link implements `BytePipe` |
| `mux_link_faults` | interrupted handshakes and expiry allowed | a connection never ends up with two contexts; acknowledgement queue exact |
| `mux_link_split` | interrupted handshakes allowed | **violation** of `OneContext`: see Findings |

Bounds.  `GlobalKarma` is 2^20 in the code; what matters is that the stream is
longer than the buffer, so that positions wrap and the byte that resending needs
is the one about to be overwritten: four bytes through a buffer of three.  The
threshold must lie strictly inside the buffer.  Connections are bounded because
their history is kept; two are enough for one that is accepted, or whose key is
read, after its successor.  The theorems hold without these bounds.

Fairness (`FairSpec`).  `MuxConnected`, `ResendByte` and the writing loop are
weakly fair: once the socket is ready epoll reports it until the handler has run.
Reading and the demux's handshake are strongly fair because a handler can be held
off, again and again, while the same process is inside `mainw`, yet `muxloop`
serves every ready socket between two calls of it.  Nothing is assumed about the
network or the timers: `EverythingArrives` speaks of behaviours in which the
mux's connection stays up from some moment on.

### Proofs

`MuxLinkProofs` proves, for every value of the constants, `Spec => []IInv` under
`Faults = {}` and from it the type invariant and the safety properties.  The
argument is in `IInv` (`MuxLinkInv`).  The properties alone are not inductive:
that nothing is missing after a handshake depends on what the peer's position
said when it was sent, and on there being at most one connection that can carry
new bytes.  So `IInv` says, besides the types,

* `FdShape`, `ConnShape`: only the newest connection can be up; a connection not
  yet dialled carries nothing; the header in flight on the newest connection still
  holds the mux's position (nothing can be read in between);
* `Dormant`: an end without a session is as `make_context` left it;
* `Stream(e, p)`: the sum of karma, bytes unread, bytes read but not
  acknowledged and credit on its way is the buffer size less one, the two positions differ by
  the number of unread bytes modulo the buffer, and these bytes are in the buffer;
* `OnWire(c, d)`: the bytes on the connection continue what has been read and, if
  both sides have finished the handshake, leave nothing out but the debt.

From the sum follows that fewer bytes are unread than the buffer holds, hence the
difference of positions determines the debt (`DebtExact`) and a byte written does
not overwrite one that is owed (`BufferWrite`).  `AckQueued` is proved separately
because it needs none of this and holds under all faults.

That what may be asked for again is still in the buffer (`DebtStillBuffered`), the
types and `IInv` itself are proved and no run repeats them; TLC agreed with all
three in the instance of `mux_link`.

Four more theorems stand beside that invariant.

* `OneContextForMux` needs only that no handshake is interrupted
  (`"split" \notin Faults`); contexts may expire and the mux come back.  Its invariant
  `NoneWaits` says that then no context is ever left between key and position, which is
  the one state the search of `mainr` does not see.
* `StreamIsPipe`: `Spec => ImplementsPipe`, the refinement of `BytePipe`.  The pipe
  of a direction holds the bytes unread, in flight or still owed after a
  break; so writing a byte to `wbuf` writes it to the pipe, reading it from
  a connection takes it out, and a connection that breaks, a handshake and a byte sent
  once more are stuttering steps.  That a byte written finds room in the pipe is the
  sum in `Stream`, that the byte read is the pipe's first is `OnWire`.
* `AcknowledgementDue`: when all that a side without global karma wrote has been read,
  its peer has an acknowledgement queued, in the packet it writes, or on its way.  It
  combines `IInv` with the invariant of `AckQueued`.  It does not say that the peer has
  the karma to send what is queued; that two sides without any may wait for one
  another is among the hazards, and `EverythingArrives` speaks of the instance only.
* `OwnedOnce`: no connection is in two contexts of the demux.  It has an invariant of
  its own (`OwnerInv`) and holds under all faults, also when a header arrives in pieces.

The theorems assume only `ConstantsOK`, and `Faults = {}` where stated.  `Faults = {}` is
a real restriction: it leaves out the interrupted handshake of `mux_link_split`, after
which bytes are lost, and contexts that expire, after which they must be.
Liveness is model-checked only.

## 4. MuxClients: the clients of tcpmux

### Correspondence

| model | code |
|---|---|
| `client[s][o]` | a `client_data` of side `s`; `life` is the place it has reached: allocated, `is_burned`, freed |
| `table`, `write_q`, `karma_q` | `client_table`, `write_head .. write_tail`, `karma_head .. karma_tail` |
| `ack_due` | `rstream_karma >= ACK_THRESHOLD` |
| `wout`, `rin` | the packet being written and the one `mainr` is processing |
| `pending` | events returned by `epoll_wait` and not yet handled |
| `reading`, `cw`, `in_mainw`, `out_due` | where the process is: in `mainr`, in `clientw` for a client, in `mainw`, about to call `clientw` for EPOLLOUT |
| `taken`, `given`, `mate` | history: units read from a socket, units written to it, and whose connection it is |

The handlers call each other: `mainr` calls `clientw` and `read_ack`, both may
call `push_writer`, which calls `mainw` when the queue was empty, which may
disconnect a client.  The four control variables are that stack, and only its
top may move.  `Pushed` and `Enqueue` keep a peculiarity of the code: the tail
of the write queue has `next == NULL` like a client that is in no queue, so
pushing it again makes it its own successor.

`MuxLink` shows that the link carries a byte stream unharmed; here it is a queue
of packets.  A packet of any size is one step to write and one to read, a stall
may come before any of them; the partial states are those of `MuxLink`.

Interleaving.  A step of a side touches its own variables, appends to one queue
of the link and removes from the other.  Two sides therefore commute except for
"queue full" and "queue empty", which the environment may report at any time
anyway (`Stall`, `LeaveMainr`), so the steps of one side between two reads are not
interleaved with the other's (`Quiet`).  A side that finds the queue full stalls,
as the code does.

Two errors end the behaviour (`failed`): an assertion, and `return 1` out of
`muxloop`.  Freed memory that is still referred to is undefined behaviour and
also ends it; what the program would do next is not modelled.

### Runs

| run | instance | what it shows |
|---|---|---|
| `clients_reuse` | two clients in turn, one id, one unit of data, batches of two events, every failure | no mixing of the two clients, each opened once, ends announced once and last, forgotten by both sides or neither, assertions of `write_ack` |
| `clients_pair` | two clients, two ids, two entries in a control packet, ends | packets reach the mate of their sender; a client freed while queued only if `mainw` was held up |
| `clients_flow` | one client, karma 3, threshold 2, four units, link blocked and replaced, socket blocked, `connect()` failing | karma conserved, no overflow of `out_buf` |
| `clients_fair` | one client, three units, ends, fair, sockets and link never blocked | karma comes back, data arrives, both ends close and the client is freed |
| `clients_stale_event` | one client, batches of two events | **violation** of an assertion, see Findings |

Bounds.  `CLIENT_KARMA` is 65536 and `ACK_THRESHOLD` 256 in the code; 3 and 2 keep
what matters, that a threshold is reached by one write or several and may be
overshot, and that the sender runs out before all is sent.  Two clients are the
least for reuse and for mixing.  Data flows from the mux to the demux in the
instances (the code of both directions is the same, the demux additionally
creates clients); karma and ends flow in both.  One packet on the link in each
direction is enough for every order of announcements because a stall may hold
further ones in the queues; the fair runs have room for six and never use them up.

Fairness.  `FairSpec`: a handler goes on until it returns, `mainr` reads what there
is, and the link's socket is reported by epoll again and again, as edge-triggered
epoll does at every arrival of data or room.  `ClientFairSpec` adds the same of
the clients' sockets.  It is strong because a side waits for its turn while the
other is inside a handler.  `clients_fair` does not let the link block: with
`"full"` all three properties would fail on the packet described in section 12.

### Proofs

`MuxClientsProofs` proves `Spec => []IInv` for any numbers of clients and ids, any
sizes of `out_buf`, packets and link and any failures of the environment, and from it
every safety property of the runs but `SocketOpen`, which does not hold.  `IInv`
(`MuxClientsInv`) has two halves.

`Local(s)` is about one side: the fields of a client fit each other, the table holds
the clients not yet forgotten, `karma_q` holds, once each, those that have something to
announce, the control client is queued exactly when there is an announcement, and while
the process is inside `clientw` for a client nothing takes that client away.

`Cross` is about the two sides.  Its subject is the stream from one side to the other
(`Stream`): the packet being processed, those on the link and the one being written, in
that order, however it is spread over them.  For a client of the mux and the client
that the demux opened for it, or will open,

* `Units`: the units sent and not received are in the stream, each once and in order;
* `Grants`: the credit that comes out of the stream is the credit that was put into it.
  It is about the history `granted`, all the karma a client has announced, of which each
  entry on the way carries the value it had: the entries bring ranges of it that rise
  and do not overlap, and each unit between what the sender has got and what
  was granted is in one of them.  So the sender's karma and what it has sent never exceed
  what the receiver granted, and that never exceeds `CLIENT_KARMA` and what was written
  out; together with what is yet to be announced it is exactly that while the receiver's
  socket is open (`Credible`);
* `Ends`: the end of a client is in the stream once, or the peer has heard of it;
  nothing follows it, and nothing is left once it was heard;
* `Mating`, `Contents`: a client of the demux is of exactly one client of the mux, has
  its id, and what it received came from it in order;
* `Succession`: an id used again occurs in the stream only behind all of its last owner.

`RoomForPacket` follows from `Grants` with `Units`, `Addressed` from `Succession` with
the table, `EndIsLast` from `Ends`.  `CreditConserved` is about all there is of a client
on the way and counts it: every unit between the last one received and the last one sent
has one place in the stream (`Units`), every unit of karma between the value the sender
has heard and the value granted belongs to one entry (`Grants`), so each of the two
sets is in bijection with an interval, and what is left is arithmetic on the ends of
the intervals.  `FreedNotQueued` is inductive relative to `IInv`,
of which it needs `Unfinished`.  Each action is taken in the two halves by turns: first
what it does to a packet of the stream (appended, taken, moved from the writer to the
link), then lemmas about `Units`, `Grants` and `Ends` that know nothing of the actions.
TLC agreed with each conjunct of `IInv` in the instances of `clients_reuse` and
`clients_flow`.

## 5. KeyWorker: the key server

### Correspondence

| model | code |
|---|---|
| `db` | `keys.db`: `usage`, `device` and `num_in_support` of `KEY_IN_DB` by sha |
| `queue` | the records of all `keys.db.sup<device>`, with their numbers |
| `next` | the number `DB_APPEND` gives next, per queue |
| `PutKey`, `GetLastKeyDevice`, `AssignDeviceBySha` | what a transaction of the function of that name commits; `...Fails`: it returns an error and nothing has changed |
| `step`, `debug`, `Startup` | how far `main` is: the default keys and, with debug level 2, its trial of the operations on `key[0]` |
| `pc`, `lastKey`, `realdeviceId`, `buff` | a thread of the HTTP server in `ahc_echo` |
| `taken`, `given`, `contested`, `passedOver` | history: how often a key left a queue, the devices it was given to, whether two requests held it at once, whether it was handed out while an entry of it stayed queued |

Keys are integers in the order of their shas, which is the order in which
`getLastKeyDevice` walks through `keys.db` when a queue is empty.  Berkeley DB is
external.  Its transactions are serialisable, so each is one step; two differences
from a plain sequence of transactions are kept: `DB_CONSUME` passes over locked
entries, so any entry may be taken, and a call inside a transaction may fail, which
aborts it.  Three failures that the code does not treat as failures are `Faults` of
their own: the unchecked `put` of a cursor, `commit`, and "consume", any result of
`DB_CONSUME` but success while the queue has entries.  `getLastKeyDevice` takes each such
result for an empty queue (`keyworker.c:640`) and hands out the last key of the device in
`keys.db`, which may still be in that queue.  A thread blocked on a
lock, for ever perhaps, is one that takes no step; no liveness is claimed.

`putKey` writes one byte of the four of the usage counter into memory from
`malloc`.  The other three are undefined, so a new key starts with any of
`FreshUsages`.  The text of a POST is reduced to what it asks for.  Because
`post->buff` holds its last chunk only, the list of an upload may be any keys.  A
POST without a body reads `post->buff` uninitialised; whatever that memory holds
is either one of the requests modelled or ends the process, which `Restart` covers.

### Runs

| run | instance | what it shows |
|---|---|---|
| `key_server` | four keys, three devices, two threads, two starts, failing transactions, `DB_CONSUME` that gives nothing from a queue with entries | the files agree, no unused key is lost or queued twice, none is handed out as unused twice, uses are counted; two devices share a key only if their requests overlapped, `main`'s trial moved it, or it was handed out while it stayed queued |
| `key_server_commit` | failing commits | **violation** of `HandedOutIsUsed`, see Findings |

Bounds.  Three of the keys are the ones `main` adds, so one more can be uploaded.
An upload of several keys is, for the files, a sequence of uploads of one by the same
thread (each key is a transaction of its own and nothing is kept between rounds),
hence `MaxUpload = 1`.  `UsageLimit` is 1000000 in the code; 2 lets the counter
stop, and a counter that starts at 1 stands for one that starts at a multiple of
256.  Two starts give a restart at every point of the first.  The threads are
interchangeable, which the runs use as a symmetry.  `MCBound` keeps the run of
`key_server` finite in time: keys are handed out past their queue only among `main`'s own
three, so that the fourth, uploaded key and this failure are not tried together.  None of the bounds is in the
theorems.

### Proofs

`KeyWorkerProofs` proves `Spec => []IInv` whenever `Faults` has neither "put" nor
"commit" (`Reported`), that is when what Berkeley DB was told to write is written or the
code looks at the failure, and from it all the properties of `key_server`.  `IInv` has two parts.
`FileInv` is about the files only and is kept by each of the three transactions,
whoever runs it: besides the properties it says that entry numbers are fresh and
that a key taken from a queue is marked as used and queued no more, which is why
it cannot be taken again.  `HolderInv` is about the gap between the two transactions
of a request: as long as no two requests have held a key at the same time and it was
not handed out past its queue, the one that holds it finds it at device 0, in no queue
and given to nobody; once given it belongs to the device that got it, and if it is
queued, it is queued there.  `HolderFrame` keeps this for all the steps that
let nobody hold a new key.

`UsageCovers` (theorem `UsesCounted`) is not inductive even with `IInv`: between its two
transactions a request holds a key whose use was counted but that no device was given
yet.  `UseInv` adds the threads in that gap: the devices a key was given to and the
requests that hold it are together no more than its counter.

## 6. The UDP tunnel

### ThreadPool

| model | code |
|---|---|
| `jobqueue`, `num_threads_working`, `threads_keepalive` | the fields and the flag of the same name |
| `has_jobs` | `v` of the binary semaphore of the queue; `"asleep"` is a thread in its `pthread_cond_wait` |
| `pc` | where a worker is in `thread_do`: before its loop, at its head, in `bsem_wait`, past it, counted as working, running a job, after it, out of the loop |
| `caller` | the thread that submits: free, asleep in `thpool_wait_max` ("room") or `thpool_wait` ("quiet"), or past that sleep but before its test, ending the pool |

A critical section is one action; a worker that has been woken still has to get the
mutex, so it is `"ready"` and not `"took"`, and another may come first.
`pthread_cond_wait` may return without cause (`WakeUnasked`).  `EndPool` may come while
jobs are queued, as `thpool_destroy` allows.

`bsem_post` sets a flag and wakes one thread, so two jobs added in a row leave
one flag: `WorkIsNoticed` says that nevertheless every queued job has a worker on its
way to it, because `jobqueue_pull` posts again.  `WaiterIsWoken` says that a
sleeping caller has a signal to come.  Both are proved for any number of workers
and jobs.  `PoolInv` adds the types, that `num_threads_working` is the number of
workers between the two counts, and `PostIsHeard`: while the flag is up somebody is
awake, or nobody sleeps there.  The latter is what makes
`WorkIsNoticed` inductive; the former is what `WaiterIsWoken` rests on, since a job
is pulled by a thread that has been counted already.

### TunnelFec

A frame becomes a group of `OriginalCount + RecoveryCount` numbered datagrams.  The
receiver keeps one group (`slots`, `curcount`), the first number of the group it
waits for (`curnum_recv`) and how many shards it has passed over
(`curnum_recv_drop`).  `ReceiveShard` is the branch of `main` that handles a shard: its
four disjuncts are the change of place, the change of place that is refused above
196, a shard of another group, and a shard of the awaited one.  `Collect` decodes when
more than `OriginalCount` shards have been counted; a shard is reduced to the frame
it belongs to, and decoding gives that frame only if all that is used is of it
(`DecodesTo`).  The wire delivers in order and may lose any datagram; a group is sent
when the wire is empty, which loses nothing since the two ends share no state.

`NothingLostUnlessSent`: as long as nothing is lost all frames come out whole and
in order but the first, or the first two when the sender happened to be at the end of the
numbers.
`RecoversInFourFrames`: whatever was lost before, the fourth of four complete
frames is delivered.

Bounds.  The code has 10 and 4, numbers below 200 and starts up to 196; the run has 4
and 3, numbers below 23 and starts up to 21.  What carries over is
`FecAssumption`: a second group's recovery shards do not suffice for a decoding,
the last start is within a group of the wrap, and there are three groups or more.
Five frames go once round the numbers.

`TunnelProofs` proves both properties for every such size and any number of frames.
Two descriptions of the receiver carry the proofs, both of its state after the first
`n` shards of the group that starts with `S`.  `Found`, of a group all of whose shards
arrive, holds whatever the receiver was doing before: it waits for this group and has
counted its shards, or has passed over as many, or already waits for the next; since
a group is longer than both counts may grow, at the end only the last is left.
`Synced` describes a group that the receiver waited for, up to its decoding and through
the shards left over, which start a false group of one shard; `b` bounds the shards it
had passed over before, and the false group is given up for the right one only as long
as that bound stays small.  `Recovering` is the chain of them: one complete group
before the end of the numbers finds the place, the next is decoded, and one that has
gone well brings the count down far enough to cross the end of the numbers.  Four
frames are the longest chain.  `Intact` is the same chain from the first frame on,
with `Searching` in place of `Found`.

### The erasure code

`LeopardTransforms` has what the two fields have in common: arithmetic of logarithms,
the fast Walsh-Hadamard transform, the construction of the tables, the passes of the
additive Fourier transforms, the formal derivative.  `LeopardFF8` and `LeopardFF16`
are the two files with their differences (tables of whole products against
tables of nibbles, the error bits, the order of the skew factors).  `LeopardCode` is
`leopard.cpp`: initialisation, `leo_encode`, and `leo_decode` a step at a time.
An element is a set of bits, so addition is the symmetric difference;
shards are one symbol long since every operation works on each position of a shard by
itself.  The vectorised variants of the butterflies compute what the plain ones do and
are not distinguished.  With a single original shard and neither it nor a recovery shard
present `leo_decode` copies from a null pointer (`leopard.cpp:281`); `DecodeSingle` has
nothing to decode then.  The tunnels call it with ten originals and four recovery shards.

`LostIsRecovered` is the point of it: for every set of losses up to the number of
recovery shards, what is decoded is what was encoded.  The fields of the run are
GF(2^4) and GF(2^8), each with a Cantor basis, in place of GF(2^8) and GF(2^16):
every code path depends on the number of bits only through the constants `kBits`,
`kPolynomial` and `kCantorBasis`.  The codes are (1,1), (3,1), (2,2), (3,2), (5,3),
(10,4), the one of the tunnel, and (13,4), which is too long for the smaller field;
of the long ones the losses of four that are a multiple of three apart are tried, of
the short ones all.

### TunnelKeys and EarlierTunnels

One end of a tunnel with `-e`.  `q1` holds keys to send with, `q2` keys to try when
receiving; `curKey1` and `curKey2` are the current ones.  `TapToNet` is the half of the
loop that reads a frame: it finds a key (`KeyForPacket`), uses it and changes it
after `PPK` uses (`ChangeKey`).  `NetToTap` is the other half, one action per turn of the
search for the key of a packet.  With `-w` the two halves are threads and
interleave, otherwise one loop alternates.  The key server has the keys up to `newest`.  To the question for a key
it gives any of them or no answer: the code gives the oldest that is unused or, when
there is none, the one of largest sha, so a key given before may come again after another
(`keyworker.c:613`, `641`).  The peer may use any key.  `EarlierTunnels` adds the three
predecessors: `nextctapudp` and `ctapudp` have the same handling, `ctap` changes
the key before a packet, and its control port ends the process.

`LimitKept`: with `-l` a key encrypts at most `PPK + 1` packets for each time the key
server gave it while it was not the key in use (`given`), by its choice or by its hash, as
long as the server answers (`ctap` needs no such condition).  That is all the code
promises: the check of `ctapudp.c:1164` compares the answer with the key in use only, so
k1, k2 and k1 again lift the limit of k1 twice, while k1 and k1 again leave it in force.
A key learned by its hash is put on `q1` and has another turn as well.

`TunnelProofs` proves it for all four programs (`LimitHolds`), any number of keys, any
answers, any `PPK` and any length of the queues.  In the invariant `KeyInv` a turn of
`PPK + 1` packets (`Quota`) belongs to each time a key was given.  `Covers` says that the
turns that no longer wait in `q1` cover the packets encrypted with the key and what is
left of the turn of the key in use (`Left`): an answer that is queued adds a turn and
a place that waits for it, taking a key from the queue uses the place up.  While the
server answers, a key in use is below its quota unless `waslimit` says that it may not
be used.

### CtapStream

`ctap` sends frames over TCP behind the hash of their key.  A receiver that does not
find the key goes on reading 32 bytes at a time as if each were a hash.
`LossIsBounded` says that it comes to the start of a frame again after at most
sixteen: a frame is 34 bytes and a multiple of 128 long, that is 2 more than a multiple of 32.
The theorem holds for frames of any length; its invariant `Shifted` relates the
offset in a frame to the number of frames begun.

## 7. The cipher services

### Qcrypt

`Ends` are a coder and a decoder, each with a `ring` of entries and a place in it: `chain`
is the ring the current entry is in, which a post leaves behind for it, `curkey` the
entry's place there, `curpos` the position in it.  `Crypt` is one turn of the loop of
`crypt()`, `Decrypt...` the handling of a block: a block whose key is not found puts the
end in a search, in which mode 1 reads the files again (`ReadFiles`) and mode 0 waits for a
post (`PostKey`).  A post of more than `BUF_SIZE` bytes makes several entries of one number,
each filled from the start of the post, the last of them of what is left (`Copies`).  A post
also frees the first entry, which the other thread may be using or may come to; using it
sets `undefined`, and from then on that end does nothing more, since what the program
would do is not known.

`SameBytesBothEnds`: whatever entry either direction of an end has made current, and
wherever it left the position, what is encrypted with a key that is at least a block long
and in one entry (`Whole`) is decrypted with the same bytes.  `garbled` records the keys
of blocks for which this failed: encrypted, or decrypted, beyond the entry used.  Keys
shorter than a block, and keys in several copies, one of which may be shorter than the
others, are in the rings too, and nothing is promised of them; section 12 lists what
happens.  The run has entries of four bytes and blocks of up to three; `p`, of four bytes,
is whole, `q`, of six, is cut to one entry as a file and makes two copies, of four bytes
and of two, when posted.

`QcryptProofs` proves it for any sizes.  The invariant `QInv` says that an entry of a whole
key, in the ring or in the chain of the current one, has all of the key that an entry
can hold (`FullRing`), so that all entries of a number are alike at both ends, and that a block
made with such a key lies within it (`RightBlocks`).

Left out: a post arrives in one piece (`ahc_echo` keeps the last chunk only but adds up
the lengths), and a block is read in one piece.

### PythonCrypt

One direction of a connection: bytes are read of the client in chunks, encoded in
blocks, cut anywhere on the way and decoded.  A byte of the stream is the block it
belongs to and its place in it.  Keys are posted to each end by a second thread that
first sets `cur_key` and then appends, key by key.  `DecodedAsEncoded` says that what
is decoded is in order, and complete unless a key was missing or `send()`
took only a part, and that no complete block waits in the buffer, where nothing
would look at it before more data arrive.

The theorem holds for any sizes of blocks and headers, any number of keys and bytes.
Its invariant `PyInv` is about the buffer and the stream as one sequence of bytes: it is a
chain (`Chain`: each byte is followed by the next one of its block, the last one of a
block by the first one of the block whose data come next), it ends with a whole block
that holds the last byte read, and what is decoded ends where it begins (`Reached`).
`encode` appends such a chain, by induction over its blocks; `decode` takes a
part off the front, by induction over the places of the data, from the last to the first.
Both inductions are over a recursive function and take the form of a least counterexample
(`Least`, from `WFMin` and `NatLessThanWellFounded`), which needs no operator as a
parameter; that the functions exist is proved in the same way.

Bounds of the run: keys of two bytes, headers of
two, four bytes of data, two keys: a header and a block are each split in every
way, one chunk is of one block, of two, and of one and a part.

## 8. The AnB driver

`AnbDma` is one board.  File operations hold the semaphore of the device, and only the
interrupt handler, which takes no lock, runs beside them.  So an operation that the
handler can meet half-way is split: enabling and disabling proceed register by register,
and the test of `DMARollBuffer` (`StartRoll`) and its update of `active_read` (`EndRoll`)
are two steps; waiting and copying release the semaphore.  `DeviceHandler` is four steps: it
is entered, moves `active_write` (`CountFilled`), compares it with `active_read`
(`TestFull`), and maps the next buffer, arms the board and wakes the readers (`Rearm`).
The board fills the buffer it was given and raises its interrupt, once each time it is
enabled.  Three results that the code does not look at are part of it: `map_active` may fail in
the handler and in `enable_dma`, so that the board is armed with the address it had
(`misled`); `set_buffer` may fail, which leaves no ring; `register_dma` may have failed
when the board was set up (`registered`).

`UnreadIsKept`: the board is not given a buffer that the reader has not
rolled past, and the reader rolls past filled ones only.  It holds as long as all buffers
could be mapped in this run of the DMA (`~misled`), and until an
interrupt in the middle of `disable_dma`, a register written by hand, or a start beside a
handler still at work has left the board armed behind the driver (`stray`).
`AwakeForData`: under the same conditions no caller sleeps in `DMARollBuffer` while there
is something to read, unless the DMA is suspended.  That exception is wide: a full ring
looks like an empty one (`active_read == active_write`), so once the handler has
suspended the DMA readers do sleep beside full buffers.

Both are proved for any number of buffers and callers.  The invariant `DmaInv` says
where the buffers yet to be read lie (`RingInOrder`: around the ring from
`active_read` to `active_write`; when these are the same, either none, or all of them
until the handler has looked and suspended the DMA), what an unfinished call has
already done (`Calls`), that a board that is not `stray` is armed by the driver only and
not while its interrupt is up or handled (`ArmedByDriver`), and that sleepers sleep beside an
empty ring until the handler has moved `active_write` (`SleepersWait`).

The run has two callers and rings of two and three buffers: full and empty differ, the
ring wraps, and one caller can be between test and update or test and sleep while the
other rolls.  `MaxRead` bounds how far an index may run outside the ring, which it can
when there is no ring.  One table is enough, since no property depends on which one is
shown.

`AnbPool` follows `device_probe` and `AllocateEntry`, with a failure of each step and
the labels they jump to, `device_remove` with `DeallocateEntry`, `DMASetBufferSize`, which
may lose the buffers of a board that is in use (`ChangeBuffers`), and the pool that `open` searches.
What a removal gives back is the two lists of what those functions free
(`DeallocateEntry`, `DeviceRemove`), and `deviceRemove`, called by a removal and by the
failure of the last step, may fail for lack of memory and then leaves the freed board
in the pool.

`NothingLeftBehind` says that a board that is not bound holds nothing; and that the pool
is exactly the boards bound, as long as `orderly`: boards have left its first
place only, and with memory for the smaller pool.  The second half is as much as is
true of `deviceRemove` (section 12).  It is proved
for any boards and any limit.  `AnbInv` adds that a board holds only what the
two lists give back (`HeldIsKnown`), which is what makes the two functions that
undo the whole of a probe match the twelve steps that did it, and that the places of an
orderly pool are distinct boards.

## 9. The correction of keys

`Hamming` follows `HammingCode` and `HammingDecode` bit by bit.  The loops read one
bit past the end of the vector, which is `bobBeyond` and `aliceBeyond`, either value.
`OneErrorIsCorrected` is checked for all keys of 1 to 6 and of 8 bits with at most one wrong
bit, under what the code needs: a length for which the last loop erases all the
control bits, the same bit beyond both ends, and, when the coded length is a power of
two, no error in the last bit, which no control bit covers.  Section 12 says what
happens otherwise.

## 10. The run `node`

The modules of sections 6 to 9 share no variable, so one run checks them together:
a behaviour of `MCNode` is a behaviour of one of them, chosen by `part`, while the
variables of the others rest in an initial state.  Every state that a module reaches by
itself is reached, and no other combination is tried, so the number of
states is the sum and not the product.  The bounds of each part are given
with it above; those that remain: three workers, at most one waiting job and four
jobs submitted; two keys, two learned, a queue limit of two, `PPK` 1 and seven packets
for `TunnelKeys` (a key is used up, changed, learned again and used up again);
frames of 60, 128 and 130 bytes, below, at and above a block, two on the
way; one block on the way in each direction for `Qcrypt`; three boards
with a limit of two.

A part that has done all it may within its bounds stops, so deadlock is not
checked in this run.  All of its properties are about safety; no fairness is assumed.

## 11. What is proved and what is only checked

| module | theorems | inductive invariant |
|---|---|---|
| `MuxLinkProofs` | `Inductive`, `Typed`, `OneContextForMux`, `NothingLost`, `KarmaConserved`, `DebtAvailable`, `SidesAgree`, `AckQueued`, `AcknowledgementDue`, `OwnedOnce`, `StreamIsPipe` | `IInv`, `NoneWaits`, `AckInv`, `OwnerInv`, section 3 |
| `MuxClientsProofs` | `Inductive`, `RoomAlways`, `AssertionsHold`, `OneOpening`, `InOrder`, `AlwaysAddressed`, `Typed`, `EndAlwaysLast`, `AlwaysTogether`, `NoneFreedQueued`, `CreditAlwaysConserved` | `IInv`, section 4 |
| `KeyWorkerProofs` | `Invariance`, `TypeCorrect`, `FilesAgree`, `EntriesOnce`, `UnusedOnce`, `RequestedIsUsed`, `OneDeviceUnlessMishap`, `UsesCounted` | `IInv`, `UseInv`, section 5 |
| `ThreadPoolProofs` | `PoolCorrect`, `JobsAreNoticed`, `NoSignalMissed` | `PoolInv`, section 6 |
| `CtapStreamProofs` | `StreamCorrect`, `LossBounded` | `StreamInv`, section 6 |
| `QcryptProofs` | `QcryptCorrect`, `WholeKeysDecrypt`; `DecodedAlwaysAsEncoded` | `QInv`; `PyInv`, section 7 |
| `TunnelProofs` | `LimitHolds`; `RecoveryHolds`, `NothingLostHolds` | `KeyInv`; `RecoveryInv`, `NothingLostInv`, section 6 |
| `AnbProofs` | `RingCorrect`, `NothingOverwritten`, `NobodySleepsBesideData`; `BoardsCorrect`, `LeavesNothing` | `DmaInv`, section 8; `AnbInv`, section 8 |

Each assumes no more than the assumptions on the constants that its module states by
name, and the restriction of `Faults` where sections 3 and 5 give one.

Only model-checked are

* liveness and fairness in general, which are beyond TLAPS;
* the erasure code (`LostIsRecovered`), an algebraic theorem about folds over data;
* the correction of keys (`OneErrorIsCorrected`): places and lengths are powers of two,
  and the provers know `2 ^ i` only for an `i` that is a literal.

## 12. Findings

`mux_link_split`: a connection lost after the demux has read the key and before
it has read the position leaves the session's context at `handshake_st == KEYSZ`;
the search of `mainr` (`tcpmux.c:817`) only matches contexts whose handshake is
complete, so the next connection of the same mux gets a new context with an empty
stream, while the comment at `tcpmux.c:813` says that the demux switches into the
existing context if it exists.

`clients_stale_event`: `muxloop` asks whether a connecting client has connected
(`tcpmux.c:1250`) without checking that it is still open.  If the end of that
client was read from the link earlier in the same batch its socket is -1 and the
assertion at `tcpmux.c:73` ends the demux.

`key_server_commit`: when a commit fails `getLastKeyDevice` says so on the terminal
and returns the key (`keyworker.c:629`).  The request is answered, the key stays
unused at the head of its queue, and the next request gets it as well, while
`src/keyworker/Readme.md:4` says that the operation makes the key a used one.

More weaknesses are in the model as they are in the code, without a run of
their own, since no comment or test says otherwise:

* The condition of `mainw`'s loop (`tcpmux.c:904`) does not mention the packet
  being written.  After a full socket buffer or used-up karma the rest of that
  packet waits until some client is queued.
* `write_ack` burns a client when it puts its end into a packet.  If the writing of
  that packet stalls and the client is queued behind it, `muxloop` frees it
  (`tcpmux.c:1313`) and the next `mainw` finds it at the head of its queue.
  `FreedNotQueued` says that this is the only way it can happen.
* `read_ack` closes a client's socket with data left in `out_buf`
  (`tcpmux.c:715`), so the last bytes of a program that sends and closes are lost
  when the receiving program is slow or its connection is still being made.
* Two overlapping requests can be given the same key when the queue of device 0 is
  empty: the second finds it in `keys.db` before the first has moved it
  (`keyworker.c:205`).
* When `DB_CONSUME` fails with entries in the queue, `getLastKeyDevice` takes the queue
  for empty and hands out a key that stays in it (`keyworker.c:640`); that key is handed out
  again as unused, perhaps to another device.  `SharedOnlyByMishap` says that two devices
  share a key only in these two ways, or through `main`'s trial of the operations.
* An upload that arrives in two segments loses the keys of the first
  (`keyworker.c:183`) and is answered with OK.
* `get_time()` is an `int` of milliseconds that overflows every 50 days, while
  `muxloop` compares it as `long long` (`tcpmux.c:1131`).  After the overflow the
  difference is hugely negative, and an idle link is not dropped until an event
  sets `time_last` again; the comment at `tcpmux.c:54` says that overflow is OK.

Of the tunnel and its predecessors:

* With `-w` both threads put keys on `q1` and `q2` and take them without a lock
  (the model makes each such operation one step).
* A client with a device number and `-y` looks at the usage of its key before it has
  one (`ctapudp.c:996`, `dead` in `TunnelKeys`).
* The key server may answer with a key it has given before.  With `-l` the answer is
  compared with the key in use only (`ctapudp.c:1164`), so after another key the first one
  lifts its own limit; `LimitKept` counts the times the key was given.
* A packet that announces a key is read at an offset 32 bytes beyond the one it was
  written at (`ctapudp.c:1398` against `ctapudp.c:1003`).
* A packet that does not decrypt ends `rsctapudp` and `nextctapudp` with `abort()`.
* Until the first change of place the arrays of the receiver are as `malloc` left
  them; a first number above 196 goes on to decode them (`crashed` in `TunnelFec`).
* `threads_keepalive` is one variable for all pools, and `thpool_destroy` frees the
  pool while the last thread may still be unlocking `thcount_lock` (`thpool.c:242`).
* Both ends of `ctap` may be blocked in `cwrite` with nobody reading.

Of the cipher services:

* A key posted to `qcrypt` in mode 0 frees the one in use (`qcrypt.c:340`); a
  decoder in mode 0 waits for a key without end; key numbers, which are binary, are
  compared with `strncmp`; results of `write()` are not looked at.
* A long post makes several entries of one number in `qcrypt`, all with the same first
  bytes; the last may be shorter than a block (`qcrypt.c:351`), in which case, as with any
  key shorter than a block, bytes beyond the entry are used and the block comes out wrong.
  A post in several pieces keeps the last piece and the sum of the lengths.
* `pythoncrypt` ends with an exception when data arrive between the setting of
  `cur_key` and the first `append` (`pythoncrypt.py:138`), drops data for which it
  has no key, and drops what a non-blocking `send()` did not take.

Of the driver:

* Nothing clears `dma_suspended`: once the ring was full the board stays stopped
  (`dma.c:38`), even after the DMA is disabled and enabled; `DMARollBuffer` clears
  another field (`dev_entry.c:519`).  A full ring looks like an empty one, so its readers go
  to sleep.  A reader that empties the ring between the handler's increment and its
  comparison suspends an empty ring in the same way.
* The result of `map_active` is not looked at (`dma.c:41`, `229`): when it fails the
  board is armed with the address of an earlier buffer.  `set_buffer` frees the array of
  addresses without giving back the mapping of the active one (`dma.c:180`).
* `read` and `write` save `RegMode`, release the semaphore to allocate, and put the old
  value back later, over what others have set meanwhile (`dev_entry.c:296`); `write`
  on a running DMA puts back a value it never saved (`dev_entry.c:399`).
* `DMASetBufferSize` frees a ring that is mapped in user space (`dev_entry.c:494`).
* `deviceRemove` copies the wrong part of the pool (`dev_pool.c:58`), and without memory
  leaves the freed board in it (`dev_pool.c:53`), so that `open`
  may follow a pointer that is none (`oops` in `AnbPool`); the result of
  `register_dma` is not looked at; the number in a name repeats after a removal
  (`pci_device.c:168`); a probe beyond the limit keeps the semaphore
  (`pci_device.c:68`).

Of the correction of keys:

* For some lengths (keys of 3, 6, 7 or 13 bits) the last loop of `HammingDecode` stops
  before the last control bit, so that the key returned is longer than the one
  given, with that bit in it.
* When the coded length is a power of two (2, 5 or 12 bits) the last bit has no control
  bit, and the bit that is read past the end may turn it over.
* The consoles wait for messages in different orders: Bob sends an error code
  only in case of an error, and Alice waits for one in any case.


## 13. Not modelled

See the components in `PROJECT.json`; each that is `partly` modelled says what is left
out.  In general: compression, hashing and encryption are functions whose
values do not matter; options, logging and usage texts are left out; failures of
`malloc` and of setting up sockets end these programs and are not followed, but in the
driver, where they are modelled.
Of the tunnel, a second peer address and the keys that a client announces to its
master's key server are left out, of `qcrypt` the mode that delegates to
another program, of the consoles everything but the correction of
keys: they run once through a fixed sequence driven by the board.  The emulator, the
OpenFlow controllers and the test beds have no behaviour over time of their own.
