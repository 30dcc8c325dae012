------------------------------ MODULE TaskBench ------------------------------
(***************************************************************************)
(* One worker thread of the host benchmarks that drive a DOCA engine: it   *)
(* creates its DOCA objects, keeps a batch of tasks with the engine, and   *)
(* deletes tasks, buffers and objects when bench_runner stops.  The two    *)
(* importers copy from memory that an exporter process on the other side   *)
(* of the PCIe bus maps and announces in one UDP datagram.                 *)
(*   dma    dma_copy_bench importer    gdr      gdr_bench importer         *)
(*   send   rdma_bench sender          recv     rdma_bench receiver        *)
(*   encode, decode  ec_bench          compress, regex, local  no runner   *)
(* w is the worker, mn the main thread, x the exporter.  A task is known   *)
(* by its number, its slot is the number modulo the batch.                 *)
(***************************************************************************)
EXTENDS Integers, Sequences, SequencesExt

CONSTANTS Tasks,     \* config.batch_size
          MaxJobs    \* bound: tasks a worker submits; TEST_LOOP of compress_bench
ASSUME TasksAssumption == Tasks \in Nat \ {0} /\ MaxJobs \in Nat

TaskApps == {"dma", "gdr", "send", "recv", "encode", "decode", "compress", "regex", "local"}
Importers == {"dma", "gdr"}
Queues == {"encode", "decode", "compress"}    \* dequeue_job(i) / enqueue_job(i)
NoRunner == {"compress", "regex", "local"}
NoJob == -1
----------------------------------------------------------------------------
(* Objects: created and deleted in the order of the code.  A live object   *)
(* needs those it refers to; a buffer needs its inventory and its mapping. *)

dma_setup == <<"memory", "mmap", "engine", "ctx", "pe", "remote", "inv">>
dma_teardown == <<"inv", "ctx", "engine", "pe", "mmap", "remote", "memory">>
gdr_setup == dma_setup
gdr_teardown == <<"inv", "ctx", "engine", "pe", "mmap", "remote", "memory">>
send_setup == <<"memory", "mmap", "engine", "ctx", "pe", "inv">>
BugSendTeardown == <<"inv", "engine", "ctx", "pe", "mmap", "memory">>
send_teardown == <<"inv", "ctx", "engine", "pe", "mmap", "memory">>
recv_setup == send_setup
recv_teardown == <<"memory">>     \* "still have some bug on delete object"
encode_setup == <<"dev", "ctx", "inv", "mmap", "workq">>
encode_teardown == <<"workq", "inv", "ctx", "mmap", "dev">>
decode_setup == <<"dev", "ctx", "inv", "mmap", "dst_mmap", "workq">>
decode_teardown == <<"workq", "inv", "ctx", "mmap", "dst_mmap", "dev">>
compress_setup == <<"memory", "dev", "engine", "ctx", "inv", "mmap", "dst_mmap", "workq">>
compress_teardown == <<"workq", "inv", "ctx", "mmap", "dst_mmap", "dev", "engine", "memory">>
regex_setup == <<"dev", "engine", "ctx", "inv", "mmap", "results", "workq">>
regex_teardown == <<"results", "workq", "inv", "ctx", "mmap", "dev", "engine">>
init_core_objects == <<"mmap", "dst_mmap", "inv", "pe">>
local_setup == <<"dev", "engine", "ctx">> \o init_core_objects
clean_all == <<"inv", "pe", "mmap", "dst_mmap", "dev">>
local_teardown == <<"ctx", "engine">> \o clean_all
exporter_setup == <<"memory", "dev", "mmap">>
exporter_teardown == <<"mmap", "dev">>
gdr_exporter_teardown == <<"memory", "mmap", "dev">>

SetupOf(a) ==
  CASE a = "dma" -> dma_setup [] a = "gdr" -> gdr_setup [] a = "send" -> send_setup
    [] a = "recv" -> recv_setup [] a = "encode" -> encode_setup [] a = "decode" -> decode_setup
    [] a = "compress" -> compress_setup [] a = "regex" -> regex_setup [] a = "local" -> local_setup
TeardownOf(a) ==
  CASE a = "dma" -> dma_teardown [] a = "gdr" -> gdr_teardown [] a = "send" -> send_teardown
    [] a = "recv" -> recv_teardown [] a = "encode" -> encode_teardown [] a = "decode" -> decode_teardown
    [] a = "compress" -> compress_teardown [] a = "regex" -> regex_teardown [] a = "local" -> local_teardown

\* What an object refers to while it lives.
Refers(o) ==
  CASE o \in {"mmap", "dst_mmap"} -> {"memory", "dev"}
    [] o = "remote" -> {"dev"}
    [] o = "ctx" -> {"engine", "pe", "dev"}    \* pe: connect_ctx
    [] o = "workq" -> {"ctx"}
    [] o = "bufs" -> {"inv", "mmap", "dst_mmap", "remote"}
    [] OTHER -> {}
Delete(objs, o) == objs \ {o}
InUse(objs, o) == \E q \in objs \ {o} : o \in Refers(q)
----------------------------------------------------------------------------
VARIABLES
  w,    \* worker: app, fifo (does the engine complete in order), pc, now, fin,
        \* slot (task of each slot), flight (with the engine), done (completed,
        \* not polled), misfreed, objs, todo (objects left to delete), broken
  mn,   \* main thread: pc, running (is_running), stop (stop_flag)
  x     \* exporter: pc (main thread), th (thread 0), running, offset (bind_offset),
        \* long (its life_time outlasts the importer's), objs, todo, broken, udp,
        \* raced (left before run() returned), stale (its memory copied after unmapping)
tvars == <<w, mn, x>>

Bufs(v) == IF \E s \in DOMAIN v.slot : v.slot[s] # NoJob THEN {"bufs"} ELSE {}

TInit ==
  /\ \E a \in TaskApps, f \in BOOLEAN :
       w = [app |-> a, fifo |-> f, pc |-> "idle", now |-> 0, fin |-> 0,
            slot |-> [s \in 0..(Tasks - 1) |-> NoJob], flight |-> <<>>, done |-> <<>>,
            misfreed |-> {}, broken |-> {},
            objs |-> IF a \in Importers \cup {"send", "recv"} THEN {"dev"}
                     ELSE IF a \in {"encode", "decode"} THEN {"memory", "engine"} ELSE {},
            todo |-> TeardownOf(a)]
  /\ mn = [pc |-> IF w.app \in Importers THEN "recv_config" ELSE "run", running |-> FALSE, stop |-> FALSE]
  /\ \E o \in {0, 1}, l \in BOOLEAN :
       /\ w.app # "dma" => o = 0
       /\ w.app \notin Importers => l
       /\ x = [pc |-> IF w.app \in Importers THEN "run" ELSE "none", th |-> "idle", running |-> FALSE, offset |-> o,
               long |-> l, objs |-> {}, broken |-> {}, raced |-> FALSE, udp |-> "none", stale |-> FALSE,
               todo |-> IF w.app = "gdr" THEN gdr_exporter_teardown ELSE exporter_teardown]
----------------------------------------------------------------------------
(* The worker's functions: what each does to w *)

Submit(v, j) ==
  [v EXCEPT !.slot[j % Tasks] = j, !.flight = Append(@, j)]
\* A buffer is freed wrongly when its task is still with the engine, or twice.
Free(v, s) ==
  [v EXCEPT !.slot[s] = NoJob,
            !.misfreed = @ \cup ({v.slot[s]} \cap (ToSet(v.flight) \cup {NoJob}))]
FreeAll(v) ==
  [v EXCEPT !.slot = [s \in DOMAIN @ |-> NoJob],
            !.misfreed = @ \cup (Range(v.slot) \cap (ToSet(v.flight) \cup {NoJob}))]
Outstanding(v) == Len(v.flight) + Len(v.done)
Polled(v) == [v EXCEPT !.done = Tail(@)]

\* A task of the first batch: index is v.now.
FillStep(v) == [Submit(v, v.now) EXCEPT !.now = @ + 1, !.pc = IF v.now + 1 = Tasks THEN "loop" ELSE "fill"]

BugDmaCallback(v, j, stop, ok) == IF ok THEN [v EXCEPT !.flight = Append(@, j)] ELSE v
\* The same task again, unless the program stops; the result of submit is ignored.
dma_complete_callback(v, j, stop, ok) ==
  IF ~stop /\ ok THEN [v EXCEPT !.flight = Append(@, j)] ELSE v
recv_complete_callback(v, j, ok) == IF ok THEN [v EXCEPT !.flight = Append(@, j)] ELSE v
gdr_complete_callback(v, j) == [Free(v, j % Tasks) EXCEPT !.fin = @ + 1]
send_complete_callback(v, j) == [Free(v, j % Tasks) EXCEPT !.fin = @ + 1]

\* doca_pe_progress with one completion to handle
Progress(v, ok) ==
  LET j == Head(v.done) IN
    CASE v.app = "dma" -> dma_complete_callback(Polled(v), j, mn.stop, ok)
      [] v.app = "recv" -> recv_complete_callback(Polled(v), j, ok)
      [] v.app = "gdr" -> gdr_complete_callback(Polled(v), j)
      [] v.app = "send" -> send_complete_callback(Polled(v), j)
      [] OTHER -> Polled(v)     \* local: the callback frees the task only

\* The window loop, entered while now_index - finish_index < batch_size
Post(v) == [Submit(v, v.now) EXCEPT !.now = @ + 1]
gdr_post_dma_reqs(v) ==
  IF v.slot[v.now % Tasks] # NoJob THEN [v EXCEPT !.pc = "poll"] ELSE Post(v)
\* continue: the inner loop turns without ever polling.
do_rdma_send(v) ==
  IF v.slot[v.now % Tasks] # NoJob THEN [v EXCEPT !.pc = "spin"] ELSE Post(v)


enqueue_job(v) == [Submit(v, v.now) EXCEPT !.now = @ + 1]
BugDequeue(v, i) == Free(Polled(v), (i + 1) % Tasks)
\* The completion taken is whichever comes; the buffers freed are those of job i.
dequeue_job(v, i) == Free(Polled(v), i % Tasks)
----------------------------------------------------------------------------
(* The worker's steps *)

Started == w.app \in NoRunner \/ mn.pc \notin {"recv_config", "run"}

\* The objects are created; nothing else can see them yet.
Create ==
  /\ w.pc = "idle" /\ Started
  /\ w' = [w EXCEPT !.objs = @ \cup ToSet(SetupOf(w.app)),
                    !.pc = IF w.app \in {"gdr", "send"} THEN "loop" ELSE "fill"]
  /\ UNCHANGED <<mn, x>>

\* for (index < batch_size) submit
FillBatch ==
  /\ w.pc = "fill" /\ w.app \notin {"local", "regex"}
  /\ w' = FillStep(w)
  /\ UNCHANGED <<mn, x>>

\* dma_local_copy: a single task
LocalSubmit ==
  /\ w.pc = "fill" /\ w.app = "local"
  /\ w' = [Submit(w, 0) EXCEPT !.now = 1, !.pc = "drain"]
  /\ UNCHANGED <<mn, x>>

\* regex_bench submits every chunk, then polls as often, for three rule groups.
RegexSubmit ==
  /\ w.pc = "fill" /\ w.app = "regex"
  /\ w' = [Submit(w, w.now) EXCEPT !.now = @ + 1, !.pc = IF w.now + 1 = Tasks THEN "drain" ELSE "fill"]
  /\ UNCHANGED <<mn, x>>
RegexPoll ==
  /\ w.pc = "drain" /\ w.app = "regex" /\ w.done # <<>>
  /\ LET last == Outstanding(w) = 1 IN
       w' = IF ~last THEN Polled(w)
            ELSE IF w.fin < 2 THEN [Polled(w) EXCEPT !.fin = @ + 1, !.now = 0, !.pc = "fill"]
            ELSE [Polled(w) EXCEPT !.pc = "free"]
  /\ UNCHANGED <<mn, x>>

\* while (runner->running()) and the loop count of compress_bench
Continues == IF w.app = "compress" THEN w.now < MaxJobs ELSE mn.running
Leave ==
  /\ w.pc = "loop" /\ ~Continues
  /\ w' = [w EXCEPT !.pc = IF w.app = "recv" THEN "free" ELSE "drain"]
  /\ UNCHANGED <<mn, x>>

\* dma and recv: the loop only polls.
PollOnly ==
  /\ w.pc = "loop" /\ w.app \in {"dma", "recv"} /\ Continues /\ w.done # <<>>
  /\ \E ok \in BOOLEAN : w' = Progress(w, ok)
  /\ UNCHANGED <<mn, x>>

\* gdr and send: fill the window, then poll once.
EnterWindow ==
  /\ w.pc = "loop" /\ w.app \in {"gdr", "send"} /\ Continues
  /\ w' = [w EXCEPT !.pc = "post"]
  /\ UNCHANGED <<mn, x>>
PostWindow ==
  /\ w.pc = "post" /\ w.now - w.fin < Tasks /\ w.now < MaxJobs
  /\ w' = IF w.app = "gdr" THEN gdr_post_dma_reqs(w) ELSE do_rdma_send(w)
  /\ UNCHANGED <<mn, x>>
WindowFull ==
  /\ w.pc = "post" /\ (w.now - w.fin >= Tasks \/ w.now = MaxJobs)
  /\ w' = [w EXCEPT !.pc = "poll"]
  /\ UNCHANGED <<mn, x>>
PollOnce ==
  /\ w.pc = "poll"
  /\ w' = [(IF w.done = <<>> THEN w ELSE Progress(w, TRUE)) EXCEPT !.pc = "loop"]
  /\ UNCHANGED <<mn, x>>

\* dequeue_job(total_index - batch_size); enqueue_job(total_index)
Turn ==
  /\ w.pc = "loop" /\ w.app \in Queues /\ Continues /\ w.done # <<>> /\ w.now < MaxJobs
  /\ w' = enqueue_job(dequeue_job(w, w.now - Tasks))
  /\ UNCHANGED <<mn, x>>

\* "dry the pe", or one dequeue_job for each task of the batch
DrainOne ==
  /\ w.pc = "drain" /\ w.app # "regex" /\ w.done # <<>>
  /\ IF w.app \in Queues
     THEN w' = [dequeue_job(w, w.now - Tasks) EXCEPT !.now = @ + 1,
                                                     !.pc = IF Outstanding(w) = 1 THEN "free" ELSE "drain"]
     ELSE \E ok \in BOOLEAN : w' = Progress(w, ok)
  /\ UNCHANGED <<mn, x>>
\* get_num_inflight() == 0, or now_index == finish_index
Drained ==
  /\ w.pc = "drain" /\ w.app \notin Queues \cup {"regex"} /\ Outstanding(w) = 0
  /\ w.app = "send" => w.now = w.fin
  /\ w' = [w EXCEPT !.pc = "free"]
  /\ UNCHANGED <<mn, x>>

\* The buffers that no callback deleted
FreeBuffers ==
  /\ w.pc = "free"
  /\ w' = [(IF w.app \in {"dma", "recv", "regex"} THEN FreeAll(w)
            ELSE IF w.app = "local" THEN Free(w, 0) ELSE w) EXCEPT !.pc = "teardown"]
  /\ UNCHANGED <<mn, x>>
DeleteObject ==
  /\ w.pc = "teardown" /\ w.todo # <<>>
  /\ LET o == Head(w.todo) IN
       w' = [w EXCEPT !.todo = Tail(@), !.objs = Delete(@, o),
                      !.broken = IF InUse(w.objs \cup Bufs(w), o) THEN @ \cup {o} ELSE @]
  /\ UNCHANGED <<mn, x>>
Return ==
  /\ w.pc = "teardown" /\ w.todo = <<>>
  /\ w' = [w EXCEPT !.pc = "end"]
  /\ UNCHANGED <<mn, x>>

\* The engine completes a task, or reports an error: every error callback and
\* failed poll ends the process.
EngineCompletes ==
  /\ w.flight # <<>> /\ w.pc \notin {"end", "exit"}
  /\ \E i \in 1..Len(w.flight) :
       /\ w.fifo => i = 1
       /\ w' = [w EXCEPT !.flight = RemoveAt(@, i), !.done = Append(@, w.flight[i])]
       /\ x' = [x EXCEPT !.stale = @ \/ (w.app \in Importers /\ "mmap" \notin x.objs)]
  /\ UNCHANGED mn
EngineFails ==
  /\ w.flight # <<>> /\ w.pc \in {"loop", "poll", "drain"}
  /\ w' = [w EXCEPT !.pc = "exit"]
  /\ UNCHANGED <<mn, x>>
----------------------------------------------------------------------------
(* bench_runner and the main threads *)

recv_config ==
  /\ mn.pc = "recv_config" /\ x.udp = "sent"
  /\ mn' = [mn EXCEPT !.pc = "run"]
  /\ UNCHANGED <<w, x>>
\* run(): the threads start before is_running is set.
RunSpawn ==
  /\ mn.pc = "run" /\ w.app \notin NoRunner
  /\ mn' = [mn EXCEPT !.pc = "spawned"]
  /\ UNCHANGED <<w, x>>
RunSet ==
  /\ mn.pc = "spawned"
  /\ mn' = [mn EXCEPT !.pc = "life", !.running = TRUE]
  /\ UNCHANGED <<w, x>>
\* life_time is over; only dma_copy_bench has a stop_flag, set first.
SetStopFlag ==
  /\ mn.pc = "life"
  /\ mn' = [mn EXCEPT !.pc = "stop", !.stop = w.app = "dma"]
  /\ UNCHANGED <<w, x>>
RunnerStop ==
  /\ mn.pc = "stop"
  /\ mn' = [mn EXCEPT !.pc = "join", !.running = FALSE]
  /\ UNCHANGED <<w, x>>
\* The importers delete the device once the threads are joined, ec_bench its buffers.
Join ==
  /\ mn.pc = "join" /\ w.pc = "end"
  /\ mn' = [mn EXCEPT !.pc = "joined"]
  /\ LET last == IF w.app \in Importers THEN {"dev"} ELSE IF w.app = "decode" THEN {"memory"} ELSE {} IN
       w' = [w EXCEPT !.objs = @ \ last,
                      !.broken = @ \cup {o \in last : InUse(w.objs, o)}]
  /\ UNCHANGED x

\* The exporter: bench_runner starts its threads, then sets is_running.
XSpawn ==
  /\ x.pc = "run"
  /\ x' = [x EXCEPT !.pc = "spawned"]
  /\ UNCHANGED <<w, mn>>
XSet ==
  /\ x.pc = "spawned"
  /\ x' = [x EXCEPT !.pc = "life", !.running = TRUE]
  /\ UNCHANGED <<w, mn>>
\* sleep(life_time); runner.stop()
XStop ==
  /\ x.pc = "life" /\ (x.long => mn.pc = "joined" \/ w.pc = "exit")
  /\ x' = [x EXCEPT !.pc = "stopped", !.running = FALSE]
  /\ UNCHANGED <<w, mn>>
\* Only thread 0 maps the memory and sends one datagram, which may be lost.
XExport ==
  /\ x.th = "idle" /\ x.pc \notin {"none", "run"}
  /\ \/ /\ x.offset > 0
        /\ x' = [x EXCEPT !.th = "end"]
     \/ /\ x.offset = 0
        /\ \E u \in {"sent", "lost"} :
             x' = [x EXCEPT !.th = "wait", !.objs = ToSet(exporter_setup), !.udp = u]
  /\ UNCHANGED <<w, mn>>
\* while (runner->running()) usleep(100)
XLeave ==
  /\ x.th = "wait" /\ ~x.running
  /\ x' = [x EXCEPT !.th = "teardown", !.raced = x.pc = "spawned"]
  /\ UNCHANGED <<w, mn>>
XDelete ==
  /\ x.th = "teardown" /\ x.todo # <<>>
  /\ LET o == Head(x.todo) IN
       x' = [x EXCEPT !.todo = Tail(@), !.objs = Delete(@, o),
                      !.broken = IF InUse(x.objs, o) THEN @ \cup {o} ELSE @]
  /\ UNCHANGED <<w, mn>>

Worker ==
  \/ Create \/ FillBatch \/ LocalSubmit \/ RegexSubmit \/ RegexPoll \/ Leave \/ PollOnly
  \/ EnterWindow \/ PostWindow \/ WindowFull \/ PollOnce \/ Turn \/ DrainOne \/ Drained
  \/ FreeBuffers \/ DeleteObject \/ Return
MainThread == recv_config \/ RunSpawn \/ RunSet \/ SetStopFlag \/ RunnerStop \/ Join
Exporter == XSpawn \/ XSet \/ XStop \/ XExport \/ XLeave \/ XDelete
TNext == Worker \/ MainThread \/ Exporter \/ EngineCompletes \/ EngineFails
----------------------------------------------------------------------------
(* Properties *)

Ended == w.pc \in {"end", "exit"} \/ (w.pc = "spin" /\ ~w.fifo)

\* No worker deletes a buffer whose task the engine still has, or deletes one
\* twice: not in the callbacks, in dequeue_job, or after the drain loops.
\* compress_bench and ec_bench need completions in order for it; the rdma
\* receiver has no drain loop and deletes buffers that are posted.  Nor does a
\* copy touch exported memory after it was unmapped, with the life_time of the
\* examples in main.cpp (100 for the exporter, 15 for the importer), unless the
\* exporter's thread tested running() before run() had set it.
BuffersSafe ==
  /\ w.misfreed # {} => w.app = "recv" \/ (w.app \in Queues /\ ~w.fifo)
  /\ x.stale => x.raced \/ ~x.long

\* No object is deleted while a task is outstanding (the drain loops suffice),
\* nor before the objects that refer to it: buffers before
\* inventory and mapping, mapping before memory and device, context before
\* engine and progress engine.  Not so in the rdma receiver, which has no drain
\* loop and frees the mapped memory first, as the gdr exporter does with the
\* GPU memory.
TeardownOrder ==
  /\ w.broken = {} \/ w.app = "recv"
  /\ w.pc \in {"free", "teardown", "end"} => Outstanding(w) = 0 \/ w.app = "recv"
  /\ x.broken = {} \/ w.app = "gdr"

\* Every worker comes to its end, through stop_flag, is_running and the drain
\* loops, whatever the order of completions, unless the importer never receives
\* the one datagram.  The rdma sender's continue (sender.cpp, line 77) turns for
\* ever, for the slot it waits for is freed only by polling; it is reached only
\* when sends complete out of order.
WorkerEnds == <>(Ended \/ x.udp = "lost" \/ x.offset > 0)
=============================================================================
