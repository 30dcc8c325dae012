------------------------------ MODULE DpaMains ------------------------------
(***************************************************************************)
(* The main functions of flexio/dpa_* as sequences of calls on the FlexIO  *)
(* wrapper, what each call needs to exist, and the tables that say which   *)
(* main an application has, where it can place its buffers and which       *)
(* thread numbers it can be started with.  A call is <<name, what,         *)
(* thread>>.                                                               *)
(***************************************************************************)
EXTENDS Integers, Sequences

CONSTANT MAX_THREADS  \* device contexts of a multi-threaded application
ASSUME ThreadsAssumption == MAX_THREADS \in Nat \ {0}
Tids == 0..(MAX_THREADS - 1)

Global == {"ctx", "pd", "process", "window", "uar", "stream"}
\* What the constructors and getters of the wrapper assert or dereference.
Needs == [ctx |-> {}, pd |-> {"ctx"}, process |-> {"ctx"}, window |-> {"process", "pd"},
          uar |-> {"process"}, stream |-> {"process", "uar"}, handler |-> {"process"},
          rq_cq |-> {"handler", "uar", "process"}, sq_cq |-> {"uar", "process"},
          rq |-> {"rq_cq", "pd", "process"}, sq |-> {"sq_cq", "uar", "pd", "process"},
          init |-> {"rq_cq", "rq", "sq_cq", "sq", "window"},
          rule |-> {"rq"}, run |-> {"handler", "init"}]
\* The second SQ constructor takes its data buffer and key from the RQ.
SharedSqNeeds == {"rq"}

Create(x, t) == <<"create", x, t>>
Setup == <<Create("ctx", 0), Create("pd", 0), Create("process", 0), Create("window", 0),
           Create("uar", 0), Create("stream", 0)>>
BugQueues(t) == <<Create("handler", t), Create("rq_cq", t), Create("sq_cq", t),
                  Create("sq", t), Create("rq", t), <<"init", "init", t>>>>
Queues(t) == <<Create("handler", t), Create("rq_cq", t), Create("sq_cq", t),
               Create("rq", t), Create("sq", t), <<"init", "init", t>>>>
Field(f, t) == <<<<"field", f, t>>>>
Clear(t) == <<<<"clear", "match", t>>>>
Table(x, t) == <<<<"table", x, t>>>>
Rule(x, t) == <<<<"rule", x, t>>>>
Run(t) == <<<<"run", "run", t>>>>
Wait == <<<<"wait", "events", 0>>>>
First == <<<<"first", "rpc", 0>>>>
Stop == <<<<"stop", "rpc", 0>>>>
\* A main: its calls up to the loop over the threads, and those after it.
Calls(before, after) == [before |-> before, after |-> after]

\* The single-threaded mains set mask and value of a table together.
Steer(t) == Field("dst", t) \o Table("rx", t) \o Field("dst", t) \o Rule("rx", t) \o Clear(t)
  \o Field("src", t) \o Table("tx_root", t) \o Table("tx", t)
  \o Field("src", t) \o Rule("tx_root", t) \o Rule("tx", t)
Single == Setup \o Queues(0) \o Steer(0) \o Run(0)
refactor_main == Calls(Single, Wait)
workingset_main == Calls(Single, Wait)
random_main == Calls(Single, Wait)
ddio_main == Calls(Single, Wait)
send_main == Calls(Single, First \o Wait)
ntp_main == Calls(Single, First \o Wait)
hostrq_main == Calls(<<Create("ctx", 0), Create("pd", 0), Create("process", 0), Create("uar", 0),
    Create("stream", 0), Create("window", 0)>> \o Queues(0) \o Steer(0) \o Run(0), Wait)

\* The multi-threaded mains make the tables once and the rest per thread.
Tables == Field("dst", 0) \o Table("rx", 0) \o Clear(0)
  \o Field("src", 0) \o Table("tx_root", 0) \o Table("tx", 0) \o Clear(0)
PerThread(t) == Queues(t) \o Field("dst", t) \o Rule("rx", t) \o Clear(t)
  \o Field("src", t) \o Rule("tx_root", t) \o Rule("tx", t) \o Clear(t) \o Run(t)
mt_main == Calls(Setup \o Tables, Wait)
nf_main == Calls(Setup \o Tables, Wait)
\* stop_time is polled until thread 0 has counted STOP_NUMBER packets.
kv_main == Calls(Setup \o Tables, Wait)
send_mt_main == Calls(Setup \o Tables, First \o Wait \o Stop)
bank_client_main == Calls(Setup \o Tables, First \o Wait \o Stop)
bank_server_main == Calls(Setup \o Tables, Wait)

----------------------------------------------------------------------------
Batches == {"ddio", "hostrq"}
PingPongs == {"send", "ntp"}
Banks == {"bank_client", "bank_server"}
Reflectors == {"refactor", "mt", "nf", "workingset", "random", "bank_server"}
Threaded == {"mt", "nf", "kv", "send_mt"} \cup Banks
Apps == Reflectors \cup Batches \cup PingPongs \cup Threaded

\* Where the compile-time flags of a main put its buffers: the receive buffer, the
\* send buffer and the table, on the host or in DPA memory, and whether the send
\* buffer is the receive buffer (tx_shared_rx_buffer).  A reflector sends from its
\* receive buffer, and a sender's one window serves one host buffer: these share.
Placement(rx, tx, kv, shared) == [rx |-> rx, tx |-> tx, kv |-> kv, shared |-> shared]
Memories == {"host", "dpa"}
SharedPlacements == {Placement(x, x, "dpa", TRUE) : x \in Memories}
Placements(app) ==
  CASE app = "kv" -> {Placement(x, "dpa", k, FALSE) : x \in Memories, k \in Memories}
    [] app = "ddio" -> {Placement(x, "dpa", "dpa", FALSE) : x \in Memories}
    [] app = "hostrq" -> {Placement("host", "dpa", "dpa", FALSE)}
    [] app = "bank_client" -> {Placement("dpa", "dpa", "dpa", FALSE)}
    [] app = "bank_server" -> {Placement("dpa", "dpa", "dpa", TRUE)}
    [] app \in PingPongs -> SharedPlacements \cup {Placement("dpa", "host", "dpa", FALSE)}
    [] OTHER -> SharedPlacements
\* What main can be started with: a placement, begin_thread and g_thread_num.
Settings(app) == {s \in [place : Placements(app), begin : Tids, num : 1..MAX_THREADS] :
  /\ s.begin + s.num <= MAX_THREADS
  /\ app \notin Threaded => s.num = 1
  /\ app \notin Threaded \ Banks => s.begin = 0}

Main(app) ==
  CASE app = "refactor" -> refactor_main       [] app = "workingset" -> workingset_main
    [] app = "random" -> random_main           [] app = "ddio" -> ddio_main
    [] app = "hostrq" -> hostrq_main           [] app = "send" -> send_main
    [] app = "ntp" -> ntp_main                 [] app = "mt" -> mt_main
    [] app = "nf" -> nf_main                   [] app = "kv" -> kv_main
    [] app = "send_mt" -> send_mt_main         [] app = "bank_client" -> bank_client_main
    [] app = "bank_server" -> bank_server_main
=============================================================================
