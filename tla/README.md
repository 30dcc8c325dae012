# A TLA+ verification project for BenchBF3

BenchBF3 is a set of benchmarks and small distributed applications for the
NVIDIA BlueField-3 DPU.  Programs run in three places: on the host, on the
DPU's Arm cores, and on the DPU's data-path accelerator (DPA), a many-threaded
processor inside the NIC.  This directory holds TLA+ models of its parts, TLC
configurations that check them on small instances, and TLAPS proofs.

Sections: [the system](#the-system) · [modules](#modules) · [runs](#runs) ·
[bounds](#bounds) · [fairness](#fairness) · [proofs](#proofs) ·
[only model-checked](#only-model-checked) · [not modelled](#not-modelled)

## The system

| Part | Where | State | Operations that change it |
|---|---|---|---|
| Queue wrapper and ring operations | `wrapper_flexio/` | CQ/RQ/SQ rings, doorbell records, `cq_idx`, `cq_hw_owner_bit`, `sq_wqe_seg_idx`, `sq_pi` | queue construction, `receive_packet`, `prepare_send_packet`, `finish_send_packet*`, `step_rq`, `step_cq` |
| DPA packet handlers | `flexio/dpa_*` | one `dev_ctx` per thread | init RPC, event handler, per-packet `process_packet*` |
| DPA bank | `flexio/dpa_small_bank` | account tables with one spin lock per row; the client's transition slots | PING / GET_DATA / GET_LOCK / FINISH handlers |
| Host bank | `test_suite/small_bank` | account tables with reader-writer spin locks; a request queue, identifiers and slots per client thread | the same four requests over eRPC |
| Spin locks | `utils/spinlock_mutex.h` | one or two atomics | lock, try_lock, unlock, and the read/write variants |
| Benchmark runner, reporters | `utils/bench` | run flag, per-thread statistics, UDP collection | `run`, `stop`, `report_collect` |
| DOCA pipelines | `test_suite/{dma_copy,gdr,rdma,compress,ec,regex}_bench` | a pool of tasks, counters of completed work | submit, completion callback, drain |
| Comm channel, sync event | `test_suite/channel_bench`, `wrapper/wrapper_comm_channel.cpp` | channel queues, credits, events | send, receive, import, export |
| RDMA parameter exchange, telemetry | `test_suite/rdma_bench` | connection parameters sent over UDP; time stamps of an 18-bit clock | `receive_and_send_rdma_param`, `l2fwd_main_loop`, `MergeResult` |
| DPDK helpers | `utils/dpdk` | ports, memory pool, hairpin bindings, flow rules, DOCA mappings of pool memory | initialisation with clean-up on failure, take-down, search for a mapping |
| Micro-benchmarks | `flexio/bench`, `flexio/roofline`, `test_suite/roofline`, `test_suite/memory_bench` | none shared | straight-line measurement loops |

How they interact: the host program builds the queues, installs a steering
rule and starts the DPA thread, after which the NIC and the handler share
memory and doorbells only.  The two banks run one protocol (read data, take
locks, write and release) over different transports; the host bank uses the
reader-writer lock.  The pipelines are driven by the benchmark runner's flag.

What is hard to get right here: ring indices that wrap at three different
widths next to a one-bit owner flag; receive buffers that are posted for
sending and reposted for receiving with no send completion in between; stores
that must leave the DPA's cache before a doorbell; locks taken one by one with
roll-back; counters that stand for window credits on two sides of a channel;
identifiers shared by two threads; and start and stop flags that race with the
threads they control.  `PROJECT.json` lists each of these as a hazard, with the
line where it bites.

## Modules

| Module | Models | Source |
|---|---|---|
| `MacSwap` | header words and the address swap, with the overlapping 8-byte loads and stores of the code | `wrapper_flexio` device helpers |
| `Reflector` | abstract: a FIFO that returns frames to their senders | — |
| `DpaRing` | one reflecting DPA thread, its rings, and the NIC on both sides | `flexio/dpa_refactor`, `wrapper_flexio` |
| `RwLock` | `spinlock_rw_mutex`, one step per atomic access | `utils/spinlock_mutex.h` |
| `CreditWindow` | abstract: at most `Window` requests outstanding | — |
| `ChannelDma` | DMA mode of the channel benchmark | `channel_bench.cpp` |
| `ChannelRtt` | RTT mode of the channel benchmark | `channel_bench.cpp` |
| `SyncEvents` | SYNC mode of the channel benchmark | `sync_event.cpp` |
| `SmallBank` | transactions and lock handlers of the host bank, access by access | `test_suite/small_bank` |
| `BankClient` | the two threads of one client, their queue and request numbers | `test_suite/small_bank` |
| `DpaBank` | the bank on the DPA, with frames that may be lost | `flexio/dpa_small_bank` |
| `DpaPrograms` | every device function as the sequence of its accesses | `flexio/dpa_*`, `wrapper_flexio` |
| `DpaMains` | every `main` as the sequence of its wrapper calls, and what a call needs | `flexio/dpa_*` |
| `DpaHost` | makes the calls of a `main`: objects, flow matcher, tables, rules | `flexio/dpa_*`, `wrapper_flexio` |
| `DpaApp` | `DpaHost` with the device: handlers, RPCs, NIC, peer | `flexio/dpa_*`, `wrapper_flexio` |
| `TaskBench` | one worker over a DOCA engine, `bench_runner`, the exporter | `test_suite/*_bench`, `utils/bench` |
| `EcDecode` | what the decoding threads of `ec_bench` share | `ec_bench.cpp` |
| `ParamExchange` | the parameters of an RDMA connection over UDP | `rdma_bench` |
| `ChannelSetup` | the channel benchmark from endpoint to teardown | `channel_bench.cpp`, `client.cpp`, `server.cpp` |
| `DpdkPorts` | ports, pool, hairpin queues and flow table | `utils/dpdk` |
| `MempoolShadow` | mappings of a pool's memory and the search in them | `utils/dpdk` |
| `ReceiveControl` | time stamps of telemetry packets and their merge | `receive_control.cpp` |
| `Reporter` | worker statistics, timer arithmetic, collection | `utils/bench`, `utils/hs_clock.h` |
| `DpaRing_proofs`, `SmallBank_proofs`, `DpaHost_proofs` | theorems about that module | — |
| `DpaPrograms_proofs` | lemmas about every device function: what makes its program right | — |
| `DpaApp_proofs` | theorems about the device, from those two | — |
| `Clients_proofs` | theorems about `ChannelRtt` and `BankClient` | — |
| `Doca_proofs` | theorems about `ChannelDma`, `SyncEvents` and `EcDecode` | — |
| `Host_proofs` | theorems about `DpaBank`, `RwLock`, `ParamExchange` and `MempoolShadow` | — |
| `MC_X` | `X` with values for its constants | — |
| `MC_Bank`, `MC_Device`, `MC_Host` | several modules in one run | — |

Definitions whose name starts with `Bug` are wrong variants of the definition
that follows them.  No specification uses them; they show that the properties
notice that mistake.

**DpaRing.**  Variables with the names of `dev_ctx` fields are those fields.
`host` is the progress of `main()`, which sends the init RPC, installs the
steering rule and starts the handler; packets may arrive as soon as the rule
exists.  `pc` and `cur` are the handler's position and locals.  One step per
ring operation: `Poll` (owner-bit test), `ProcessPacket` (swap in the receive
buffer), `PrepareSend` (data segment), `Writeback`, `RingDoorbell`, `StepRq`,
`StepCq`.  Stores of the handler wait in `wb` until the write-back, or become
visible earlier by themselves (`HdrVisible`, `SqeVisible`), which is how the
model tells a missing fence from a present one.  `NicReceive` and
`NicTransmit` are the hardware, modelled from how the code uses it.

**RwLock.**  `readers_count` and `writer_lock` are the two atomics.  Each
thread has a `pc` that names its next atomic operation.  Accesses are
sequentially consistent, as the default memory order of the code makes them.

**ChannelDma.**  A FIFO channel whose last message is "success" is a number of
descriptors and a flag.  `s_pc`, `send_num`, `need`, `wait_index`, `inflight`
are the locals of `send_dma_reqs`; `r_pc`, `r_inflight`, `se_workq_num` those of
`receive_dma_reqs`.  `need` is `need_to_send` minus the loop's index.  The DMA
and event engines each have a queued and a finished count.  `StopSender` and
`StopReceiver` are the stop threads; with `EarlyStop` they may fire at any time.
A result the code ignores is ignored here: a dropped message or job is lost.

**ChannelRtt.**  Messages carry a request number, which the code's messages do
not; nothing but `TimerMatches` looks at it.

**SyncEvents.**  `value[e]` is the event that end `e` publishes to.  Every event
job is one step.  The events exist until the sender deletes them; a later read
fails or returns what is left.

**SmallBank, BankClient.**  `readers` and `writer` are the lock words of every
row, `balance` the tables.  `serving[c]` is the request handler of a server
thread: the positions it has yet to treat and those it has yet to release.
Each access is a step, so that handlers of different server threads interleave.
A failed lock turns what was taken into what is to be rolled back.  `serial`
and `overlapped` are history: what the same transactions would leave one by
one, and whether one committed from a balance that had changed since GET_DATA.
`BankClient` has the queue (indices, cells), the leader and the worker thread
and `req_id_`.  When both threads are inside `push`, or both inside `pop`, of a
queue made for one of each, the model stops (`raced`).

**DpaBank.**  A lock word per row, a slot per transaction, one handler per
server thread.  Every `spin_trylock` and `spin_unlock` is a step.  `granted`
is what a transaction may believe it holds, `stolen` records that a failed
GET_LOCK released a row it had not taken.

**DpaPrograms, DpaMains, DpaHost, DpaApp.**  The applications differ in the
calls they make, not in what a call does, so a program is data: `host` holds the
calls that `main` has yet to make in this turn of its loop over the threads
(`loop`), `todo[a]` the accesses that actor `a` has yet to make in its current
function.  `DpaHost` gives each call of `main` its effect on the objects
(`made`) and the flow tables; `DpaApp` conjoins the effect on the device, and
gives each access its effect on windows (`win`), unwritten-back stores
(`dirty`), rings and the table of the aggregation.  The peer may lose frames or
send foreign ones.

**TaskBench, EcDecode.**  `w` is the worker: program counter, objects, buffers
and tasks with the engine; `mn` the main thread; `x` the exporter.  The engine
completes in order (`fifo`) or in any order, and may fail a task.  The programs
differ in their create, submit, completion, drain and delete functions.
`EcDecode` has the shards and the one `decoding_matrix` that threads share.

**ParamExchange.**  `net` counts datagrams by destination, port and origin;
they are lost, duplicated and reordered.  `after` counts what a side sent in the
second between reception and `done`.

**ChannelSetup.**  Each end is a sequence of operations, from its own role
flags.  `line` holds the messages under way, `halt` is the stop thread after
`TIME_OUT`, `harm` collects uses of memory, events or endpoints that are gone.

**DpdkPorts, MempoolShadow.**  `calls` are the driver calls still to make; each
may fail, and `CleanUp` is then what the code does.  `shadow` is a pool's array
of mappings with the set of mappings that exist.

**ReceiveControl.**  `wire` holds packets in no order.  `truth` and `cause` are
history: the time at which each stamp was taken, and what may have spoilt the
unwrapping.

**Reporter.**  `time_point` is a residue modulo `Word`, as the build wraps it.
The collection reads one field at a time (`to_read`) while workers write.

**Sums.**  `MC_Bank` and `MC_Host` check parts that share no state.  The
variable `part` says which one moves in a behaviour; the others keep one
initial state.  A run then costs the sum of its parts and not their product.
Liveness and fairness are conditional on the part.

## Runs

| Run | What it shows |
|---|---|
| `ring_window` | The owner-bit test is exact, and no unread completion is overwritten even when the NIC is `Depth + 1` ahead. |
| `ring_echo` | With at most `Depth` packets in flight the rings are a FIFO reflector and every packet comes back. |
| `ring_overrun` | *Violated.* One packet more in flight, and a buffer is overwritten before it is sent: the handler never looks at send completions. |
| `ring_rearm` | *Violated.* The comment above the handler says the completion queue is rearmed; the polling loop never ends. |
| `rwlock_all` | With all four operations two writers exclude each other, and readers and writers never keep each other out for good. |
| `rwlock_exclusion` | *Violated.* A reader and a writer can be inside together: the writer's test and its compare-exchange are two steps. |
| `channel_dma` | With endpoints stopped at any moment: the event queue suffices, the receiver never waits for an update it has not submitted, and the sync event is a credit counter for a window of one batch.  Both ends finish if no endpoint is stopped early. |
| `channel_rtt_end` | *Violated.* The process that ends last fails an assertion on the size of a message it never received.  The last assertion of `send_dma_reqs` ignores the result of `ep_recvfrom` in the same way. |
| `sync_turns` | The two ends publish in strict turns, no event is updated after it was deleted, all rounds are made. |
| `bank` | Lock words are what transactions hold, stores are made under the write lock, balances are serial as long as no stale read commits; slots of a client are distinct and no transaction is lost; the DPA bank leaks no lock. |
| `device` | Thirteen DPA applications in their buffer placements: the window is right, stores are written back before the doorbell, objects and rules are made in the order the assertions need, packets are answered once, the aggregation is exact unless two actors collide. |
| `host` | The host programs part by part: RTT mode, task workers, erasure decoding, parameter exchange, channel set-up, DPDK, telemetry, statistics, and the release of bank locks. |

The properties of each run are in its `.cfg` and in `PROJECT.json`, each with a
mutant: a wrong variant of one definition under which TLC finds the property
violated.  Properties that follow from a stronger one, or that are proved for
all constants and not needed to see a mistake, are not run again (see Proofs).

A violated run states what a comment or an assertion of the repository says;
`PROJECT.json` quotes the line under `findings`.

### What holds only under a condition

Some properties name the cases in which the code does not keep them.  TLC
reaches every one of them, and without its condition the property fails (after
`raced` the model stops, since nothing is known of the queue any more).

| Property | Condition, from the code |
|---|---|
| `SerialUnlessOverlapped` | GET_DATA takes no lock, so a transaction may commit from an old balance. |
| `SlotsDistinct`, `NothingLost` | Not once both threads are in one queue operation (`raced`) or a callback took a number while the leader was still numbering (`overtaken`). |
| `ExactUntilStolen` | `lock_flag` of the DPA bank holds the failing call's return value; the failure path may free another's lock. |
| `KvExact`, `HeadersPrepared` | `+=` on a shared entry and the first-packet RPC beside a running handler are not atomic. |
| `PostedIntact` | A foreign packet may overwrite a frame that waits in the shared buffer. |
| `WindowRight` | The host-RQ test configures no window; with `begin_thread` above 0 no thread sets `global_entry_ptr`. |
| `BuffersSafe` | The RDMA receiver deletes posted buffers; the job queues rely on completions in order; copied memory stays mapped if the exporter lives longer than the importer and its thread did not test `running()` before it was set. |
| `TeardownOrder` | The RDMA receiver has no drain loop and frees mapped memory first; the GPU-direct exporter frees its memory first. |
| `WorkersEnd` | Not if the importer's one datagram is lost, and for the RDMA sender not if sends complete out of order. |
| `ObjectsOutlive` | A process that died leaves requests behind that name its memory. |
| `JobInputsOwn` | One decoding thread; the shards also need as many blocks as jobs in flight and `k <= m` (copying stops after `m` shards). |
| `TakenDown` | Ports are closed from the highest down and opened from the lowest up, which differs when the driver has more ports; a failed metadata registration, rule or binding leaves something. |
| `FileTrue` | A wrap without a packet soon after it is missed; late packets are dropped only above `SeqFloor`. |
| `HandshakesFit` | Complementary roles, no `TIME_OUT`, terminated strings. |

## Bounds

- Rings: depth 2, 16-bit counters as modulo 4 and 32-bit counters as modulo 16.
  The ratios are those of the code (a power of two of at least two passes over
  the ring, and four segments to an entry), so 18 packets wrap every counter.
- `MaxInFlight` limits packets between the NIC's two sides: `Depth` where FIFO
  order is claimed, `Depth + 1` where it is refuted, more where order does not
  matter.
- Locks: three threads, which is what it takes for a reader, a writer and one
  that backs off to meet.
- Channel: batch 3 over a channel of 2, so that sends block; nine descriptors,
  so that every position of the window is reused twice.
- RTT: batch 3 and five answers, so that timers are reused.
- Sync events: six rounds; the code makes 25000, all alike.
- Bank: two clients and two accounts, so that requests meet on every row and in
  both orders; the types with the most locks; two commits (one for liveness).
  Queue indices modulo 8 and numbers modulo 4 wrap.
- DPA bank: three transactions in two threads, one slot number used by both.
- DPA applications: rings of two entries, two packets to a thread, two threads
  where the application has several: each index wraps and each race has both
  its actors.
- Task workers: two slots and five jobs, so that every slot is reused twice.
- Decoding: the six configurations of `MCEc` lie on both sides of every
  condition of `JobInputsOwn`.
- Parameter exchange: three datagrams in the last second, as in the code (one
  every 0.3 s), up to three copies under way, equal and different offsets.
- DPDK: up to three ports, with fewer, as many or more than asked for.
- Telemetry: a clock of 8 ticks and gaps below, near and above a whole turn.
- Statistics: two workers, two operations, two collections; the start of the
  clock is such that two open operations exceed the signed range.

Runs with `CHECK_DEADLOCK FALSE` are those whose programs end or whose bounds
are used up.

## Fairness

- Rings: weak fairness of the handler, of its stores reaching memory and of the
  NIC's transmit side.  The NIC need not receive anything.
- Locks: weak fairness of each thread; a thread that spins is running.
- Channel: weak fairness of each process (they are threads that poll), of the
  engines, and of the clocks (a fixed number of one-second sleeps).  The
  endpoint timeout is assumed where blocking calls need it (`ChannelsEnd`), as
  `TIME_OUT` always fires.
- Sync events: weak fairness of each process.
- Task workers: weak fairness of the worker, the main thread, the exporter and
  the engine's completions; no failure of a task is ever required.
- Bank: weak fairness of a client's next request and of each server thread, for
  `GrantedReleased`; eRPC sessions deliver.

## Proofs

All theorems hold for every value of the constants under the named assumptions
of the modules.  There are no unproved statements.  Most theorems state a
property that also has a run.  `TypeOK` of the rings, the lock and the DMA mode,
`RightBuffer`, `CountExact`, `NoUnderflow`, `QuietAtEnd`, `LockStep`,
`RightPeer` and `NoMappingLeft` are proved and not in a run, and `EchoInOrder`
is proved for `MaxInFlight <= Depth` and refuted by `ring_overrun` above it.
A theorem module may hold the proofs of several modules that share no state.

**Rings** (`DpaRing_proofs`).  `DepthAssumption`, `WqeModAssumption` and
`CtrModAssumption` say that depth divides the 16-bit modulus and that, times
four, divides the 32-bit one.  The properties are not inductive: that the
owner-bit test is exact needs to know what every entry of the ring holds.
`RingInv` adds the order of the three packet counts, the counters as residues
of them, how far the NIC may be ahead at each step of the handler, the owner
and number in every entry of the current window, the handler's locals, and
which stores are pending.  The lemmas before it supply the arithmetic: two
numbers of one window have different residues.  Results: `TypeCorrect`, `PollIsExact`, `CompletionsKept`, `BufferIsRight`.

The second half assumes `MaxInFlight <= Depth` and adds in `EchoInv` the
send queue: the position of the producer index, what each posted entry points
to, and that waiting buffers hold their packets.  Results: `EchoesInOrder`, and
`RingRefinesReflector` with the packets between `tx_n` and `rx_n` as the queue.

**Host bank** (`SmallBank_proofs`).  `BankAssumption`: finitely many clients and
slots, and only the six types; any accounts.  `BankInv` says of each server
thread which positions its handler has locked, rolled back, stored or released
(`DoneSoFar`), that it serves a request in flight (`ServingFits`), and that
every lock word is the number of transactions that hold the row in that sense
(`LocksExact`).  For the balances it adds `Settled`: unless a stale read has
committed, a row with no store to come holds its serial balance, and a store to
come will write it.  The step that needs most is the commit: a writer lock
excludes every other holder, so no two stores to come meet in a row.  Results:
`BankLocksExact`, `BankStoresUnderLock` (an action property), `BankSerial`.

**Clients** (`Clients_proofs`).  *RTT mode*: `RttInv` numbers the answers, the
request in the receiver's hand and the requests on the channel without a gap,
so that the next answer is the oldest of at most `Batch` open requests, and its
timer, reused modulo `Batch`, has not been restarted.  Result:
`RttTimerMatches`, for every batch and with either end stopped at any time.
*Bank client*: `ClientAssumption` has the sizes divisible by `Concurrency`, as
powers of two are in the code.  `ClientInv` counts the places in which a request
can be (queue cells, the hands of both threads, the network): they are as many
as the leader has made and have different residues modulo `Concurrency`.  A step
moves a request from one place to another; a request never has two.  Results:
`ClientSlotsDistinct`, `ClientLosesNothing`.

**Channel, DMA mode** (`Doca_proofs`).  `DmaInv` is a conservation law:
while the receiver loops, jobs in flight plus event updates not taken back are
exactly one batch (plus one while it waits), and descriptors seen by the
receiver never exceed what the event has granted.  It holds for every `Batch`,
`ChannelSize`, `DmaDepth` and with `EarlyStop`.  Results: `DmaTypes`,
`CountersNeverWrap`, `EventQueueSuffices`, `WaitHasUpdate`,
`ReceiverLeavesNothing`, and `WindowRefinement` with `send_num - se_value` as
the outstanding requests.

**Sync events** (`Doca_proofs`).  `SyncInv` compares what the two ends
have published in full; an event is at most three above that, so no
intermediate value equals the one the other end waits for.  Results:
`EndsTakeTurns`, `EndsInLockStep`, `UpdatesBeforeDelete`.

**Erasure decoding** (`Doca_proofs`).  `EcAssumption`: the numbers of a
configuration are positive.  With one thread `EcInv` knows the job in each place
of the queue, the matrix kept for it and, if there are as many blocks as jobs in
flight and `k <= m`, the shards of its block.  Result: `DecodesOwnInputs`.

**Reader-writer lock** (`Host_proofs`).  `LockInv`: the count equals the number
of threads that have incremented and not yet decremented, and at most one thread
holds the flag.  Results: `LockTypes`, `ReadersCounted`, `WritersExclude`.

**DPA bank** (`Host_proofs`).  `DpaBankAssumption`: account 0 exists, a slot
belongs to a thread.  A GET_LOCK that fails at its second row frees by the
return value of the failing call.  `DpaInv` therefore keeps what a transaction
believes to hold (`Held`, from its handler's progress) apart from what it was
granted, and shows that they are the same rows, one for each position, until a
lock is stolen.  Result: `DpaLocksExact`.

**Parameter exchange** (`Host_proofs`).  `PeersAssumption` (two sides)
and `ResendsAssumption` (the bounds are numbers); any thread ids.  That a side
is forsaken only by loss is not inductive: it speaks of the state after the
other side returned.  `ExchangeInv` accounts for every datagram of the last
second: while the receiver waits, what was sent since reception is at most what
was lost plus what is under way.  Results: `ExchangeInvariant`,
`ConnectsToPeer`, `ForsakenByLoss`.

**Pool mappings** (`Host_proofs`).  `AddrModAssumption` and
`ChunksAssumption` (no chunk reaches the end of the address space); any number
of chunks.  `ShadowInv`: only listed mappings exist, and as long as none has
failed the array lists the chunks in order, which is what makes an index into
the array an index of chunks.  `LeastExists` (every non-empty set of naturals
has a least element) lets the search's first hit be named.  Results:
`ShadowInvariant`, `NoMappingLeaks`, `SearchIsExact`.

**DPA mains** (`DpaHost_proofs`).  `ConfigAssumption`: each application is run
with settings it accepts; any number of threads up to `MAX_THREADS`, any first
thread, every placement.  That a call finds what it needs depends on the whole
program before it.  `MainInv` ties the state to the place in the program:
`HostInv` (what the calls made so far create exists), `ReadyInv` (the contexts
of the finished turns of the loop, and no others), `FlowInv` (the fields of the
one matcher after each call, and the tables there are).  Results:
`HostInvariant`, `CallsFindTheirNeeds`.  For the device it also shows that a
handler is run once (`RunInv`, `RunOnce`) and only on an initialised context
(`ReadyHolds`).

**DPA applications** (`DpaPrograms_proofs`, `DpaApp_proofs`).  The thirteen
applications differ in their programs, so the argument has two halves.

*The programs.*  `Good` says what is right about the rest of any program: it
works on its own context, a `put` follows the `get` of its entry, a post or a
write to the send buffer has a doorbell that covers it still to come, a
completion is taken once, and the program of a reflector ends in post, doorbell,
step.  `Windowed` says that the last window call before each access to host
memory, or the window as it is now, has the right key.  Both survive a step
(`GoodTail`, `WindowedTail`).  `ProcessFit`, `StartFit`, `FrameFit` and
`FirstFit` show them of every `process_packet`, of what a handler does first, of
the frames of `dpa_send_mt` and of the first-packet RPC, for every placement and
any `Depth`.

*The device.*  `DevSteps` sorts the actions by what they do to the programs: one
access is made (`Advances`), a batch handler takes one more completion
(`Drains`), a right program begins (`Begins`), or the programs rest (`Rests`).
`DevInv` is `MainInv` and `RunInv` of the host, the types, `CtxInv` (handlers
run only on contexts that hold main's placement), `ProgInv` (what each actor has
left to do is `Good`, and `Windowed` with its present window) and `QueueInv` (a
handler about to take a completion finds one).  The promises need one invariant
more each: `KvInv` (a thread between load and store has the present value and is
alone with the entry), `AnswerInv` (packets arrived, queued and answered, by the
place in the program), `AnnounceInv` (a written frame has its doorbell still to
come).  Results, for any number of threads, any ring and any bound on the
packets: `DeviceRunsMain` (the device refines its host), `DeviceCallsFindTheirNeeds`,
`DeviceInvariant`, `WindowsAreRight`, `DeviceWritesBack`, `ReflectorsAnswer`,
`AggregationExact`.

## Only model-checked

Liveness under fairness and `ENABLED` are out of the prover's reach:
`EveryPacketEchoed`, `SomeoneEnters`, `BothEnd`, `AllRounds`, `WorkersEnd`,
`ChannelsEnd`, `GrantedReleased`.  So is induction over data, hence the merge of
`ReceiveControl`, which is recursive.  Also checked by TLC only:

- `PostedIntact` and `HeadersPrepared` of the device: they compare the content of
  slots with the indices of several threads, the NIC and the RPC over time, where
  `DevInv` speaks of each program by itself;
- the task workers, the channel's set-up and the ports of the DPDK helpers
  (`BuffersSafe`, `TeardownOrder`, `HandshakesFit`, `ObjectsOutlive`,
  `TakenDown`), whose programs are tables of operations with a case of their own
  for each program;
- `LatencySurvivesWrap` of `Reporter`, a statement about sums of residues.

## Not modelled

`PROJECT.json` lists every part with its reason.

- The classes of the coordinated reporter: no program constructs them.
- The DOCA wrappers: constructors and destructors around one library call that
  throw on error.  The calls appear in the modules that make them.
- Micro-benchmarks: straight-line measurement loops that share no state.
- Generated protocol buffers and third-party code.
- Code the build leaves out: `GPU_SUPPORT` in the DPDK helpers, `ONLY_RECV` and
  `TO_DPA_DST` on the DPA, unused header checks and hashes.
- Software (de)compression by zlib and LZ4 and the comparison of its results;
  queue statistics, histograms, formatting and printing, including the counters
  of the flow rules.
- Ring masks of the DPA device contexts (all rings of `DpaApp` have one depth;
  `DpaRing` has the index arithmetic), what flow rules match, and the lengths of
  the chunks `regex_bench` cuts.
- In the modelled parts: contents of payloads, offsets into buffers, keys and
  addresses, and session set-up of eRPC.  A queue's submit call is outside the
  repository; from its use it returns an error when the queue is full.
