---------------------------- MODULE DpaPrograms ----------------------------
(***************************************************************************)
(* The device functions of flexio/dpa_* as sequences of their accesses to  *)
(* buffers, window, rings and shared counters, and the tables that say     *)
(* which functions make up an application.  Module DpaApp runs them.  An   *)
(* operation is <<name, buffer, context>>.  Buffers: "rx", "tx" (the SQ's  *)
(* data buffer, possibly the RQ's own) and "kv" (the aggregation table).   *)
(* p is the placement main chose, c what a device context recorded of it.  *)
(* Header fields, cycle counts and printing are abstracted.                *)
(***************************************************************************)
EXTENDS DpaMains

CONSTANTS Depth,       \* entries of a ring, scaled down from 2^LOG_SQ_RING_DEPTH
          Concurrency, \* CONCURRENCY of the bank client, scaled with it
          Keys         \* entries of the aggregation table
ASSUME DepthAssumption == Depth \in Nat \ {0} /\ Concurrency \in 1..Depth
\* Who runs device functions: the threads, and the pseudo-thread of the RPCs.
RPC == MAX_THREADS
Actors == Tids \cup {RPC}

\* ops n times over.
Repeat(n, ops) == [i \in 1..(n * Len(ops)) |-> ops[1 + ((i - 1) % Len(ops))]]
----------------------------------------------------------------------------
(* Device: the helpers every application calls *)

get_host_buffer_with_dtctx(b, t) == <<<<"window", b, t>>>>
\* tx_buff_idx++ of get_next_send_buf is a load and a store.
get_next_send_buf(t) == <<<<"take", "tx", t>>, <<"bump", "tx", t>>>>
finish_send_packet(t) == <<<<"ring", "mem", t>>>>
finish_send_packet_batch(t) == <<<<"ring", "mem", t>>>>
finish_send_packet_host(t) == <<<<"ring", "win", t>>>>
prepare_send_packet(b, t) == <<<<"post", b, t>>>>
Load(b, t) == <<<<"load", b, t>>>>
Store(b, t) == <<<<"store", b, t>>>>

\* What a context keeps of the placement: where it believes its buffers are.
Keeps(rx, tx, kv) == [rx |-> rx, tx |-> tx, kv |-> kv]

\* Handlers first point the window at the buffers that are on the host.
WindowRx(c, t) == IF c.rx = "host" THEN get_host_buffer_with_dtctx("rx", t) ELSE <<>>
WindowTx(c, t) == IF c.tx = "host" THEN get_host_buffer_with_dtctx("tx", t) ELSE <<>>
WindowKv(c, t) == IF c.kv = "host" THEN get_host_buffer_with_dtctx("kv", t) ELSE <<>>
----------------------------------------------------------------------------
(* Reflectors: swap the MAC addresses in the receive buffer and send it back *)

Swap(t) == Load("rx", t) \o Store("rx", t) \o prepare_send_packet("rx", t)

refactor_event_handler(c, t) == WindowRx(c, t)
refactor_process_packet(m, t) == Swap(t) \o finish_send_packet(t)
BugRefactorHost(m, t) == Swap(t) \o finish_send_packet(t)
refactor_process_packet_host(m, t) == Swap(t) \o finish_send_packet_host(t)
refactor_device_init(p) == Keeps(p.rx, p.tx, "dpa")

mt_event_handler(c, t) == WindowRx(c, t)
mt_process_packet(m, t) == Swap(t) \o finish_send_packet(t)
mt_process_packet_host(m, t) == Swap(t) \o finish_send_packet_host(t)
mt_device_init(p) == Keeps(p.rx, p.tx, "dpa")

nf_event_handler(c, t) == WindowRx(c, t)
nf_process_packet(m, t) == Swap(t) \o finish_send_packet(t)
nf_process_packet_host(m, t) == Swap(t) \o finish_send_packet_host(t)
nf_device_init(p) == Keeps(p.rx, p.tx, "dpa")

\* A packet of the target size is first read up to its MAGIC_NUMBER.
Scan(m, t) == IF m = "ok" THEN Load("rx", t) ELSE <<>>
workingset_event_handler(c, t) == WindowRx(c, t)
BugWorkingset(m, t) == IF m = "odd" THEN <<>> ELSE Swap(t) \o finish_send_packet(t)
workingset_process_packet(m, t) == Scan(m, t) \o Swap(t) \o finish_send_packet(t)
workingset_process_packet_host(m, t) == Scan(m, t) \o Swap(t) \o finish_send_packet_host(t)
workingset_device_init(p) == Keeps(p.rx, p.tx, "dpa")

\* ... and its words index the send buffer, or the receive buffer on the host.
random_event_handler(c, t) == WindowRx(c, t)
random_process_packet(m, t) == Scan(m, t)
  \o (IF m = "ok" THEN Load("tx", t) ELSE <<>>) \o Swap(t) \o finish_send_packet(t)
random_process_packet_host(m, t) == Scan(m, t) \o Scan(m, t) \o Swap(t) \o finish_send_packet_host(t)
random_device_init(p) == Keeps(p.rx, p.tx, "dpa")

\* The batch reflectors time an entry of the receive buffer, answer from the
\* send buffers, throw the backlog away, walk the send buffers, then ring.
BatchPacket(m, t) ==
  IF m = "odd" THEN <<<<"step", "rx", t>>>>
  ELSE Load("rx", t) \o Store("rx", t) \o get_next_send_buf(t) \o Store("tx", t)
       \o prepare_send_packet("tx", t) \o <<<<"step", "rx", t>>, <<"drain", "rx", t>>>>
       \o Load("tx", t) \o finish_send_packet(t) \o <<<<"count", "rx", t>>>>
ddio_event_handler(c, t) == WindowRx(c, t)
ddio_process_packet(m, t) == BatchPacket(m, t)
ddio_device_init(p) == Keeps(p.rx, "dpa", "dpa")

hostrq_event_handler(c, t) == <<>>
hostrq_process_packet(m, t) == BatchPacket(m, t)
hostrq_device_init(p) == Keeps("dpa", "dpa", "dpa")
----------------------------------------------------------------------------
(* KV aggregation: kv_elements[key % entry_size] += value *)

Aggregate(k, t) == <<<<"get", k, t>>, <<"put", k, t>>>>
kv_event_handler(c, t) == WindowRx(c, t) \o WindowKv(c, t)
kv_process_packet(c, k, t) == Load("rx", t) \o Aggregate(k, t)
BugKvHost(c, k, t) == Load("rx", t) \o WindowKv(c, t) \o Aggregate(k, t)
kv_process_packet_host(c, k, t) == get_host_buffer_with_dtctx("rx", t) \o Load("rx", t)
  \o WindowKv(c, t) \o Aggregate(k, t)
\* The SQ's flag is borrowed for the table.
kv_device_init(p) == Keeps(p.rx, "dpa", p.kv)
----------------------------------------------------------------------------
(* Ping-pong senders dpa_send and dpa_send_ntp: answer an answer with the    *)
(* next frame; the time stamp goes into the frame after the WQE is written   *)

Headers(t) == <<<<"headers", "tx", t>>>>
Stamp(t) == Store("tx", t)

send_prepare_packet(t) == Headers(t)
send_prepare_packet_host(t) == Headers(t)
send_event_handler(c, t) == WindowRx(c, t) \o WindowTx(c, t)
\* In DPA memory the time stamp is read before the size is checked.
send_process_packet(m, t) == Load("rx", t) \o
  IF m = "odd" THEN <<>>
  ELSE get_next_send_buf(t) \o send_prepare_packet(t) \o prepare_send_packet("tx", t)
       \o Stamp(t) \o finish_send_packet(t)
send_process_packet_host(m, t) ==
  IF m = "odd" THEN <<>>
  ELSE Load("rx", t) \o get_next_send_buf(t) \o send_prepare_packet_host(t)
       \o prepare_send_packet("tx", t) \o Stamp(t) \o finish_send_packet_host(t)
send_first_packet(c, t) == get_next_send_buf(t) \o WindowTx(c, t) \o Headers(t)
  \o prepare_send_packet("tx", t) \o Stamp(t)
  \o IF c.tx = "host" THEN finish_send_packet_host(t) ELSE finish_send_packet(t)
send_device_init(p) == Keeps(p.rx, p.tx, "dpa")

ntp_prepare_packet(t) == Headers(t)
ntp_prepare_packet_host(t) == Headers(t)
ntp_event_handler(c, t) == WindowRx(c, t) \o WindowTx(c, t)
ntp_process_packet(m, t) == Load("rx", t) \o
  IF m = "odd" THEN <<>>
  ELSE get_next_send_buf(t) \o ntp_prepare_packet(t) \o prepare_send_packet("tx", t)
       \o Stamp(t) \o finish_send_packet(t)
BugNtpHost(m, t) ==
  IF m = "odd" THEN <<>>
  ELSE Load("rx", t) \o get_next_send_buf(t) \o prepare_send_packet("tx", t)
       \o Stamp(t) \o finish_send_packet_host(t)
ntp_process_packet_host(m, t) ==
  IF m = "odd" THEN <<>>
  ELSE Load("rx", t) \o get_next_send_buf(t) \o ntp_prepare_packet_host(t)
       \o prepare_send_packet("tx", t) \o Stamp(t) \o finish_send_packet_host(t)
ntp_first_packet(c, t) == get_next_send_buf(t) \o WindowTx(c, t) \o Headers(t)
  \o prepare_send_packet("tx", t) \o Stamp(t)
  \o IF c.tx = "host" THEN finish_send_packet_host(t) ELSE finish_send_packet(t)
ntp_device_init(p) == Keeps(p.rx, p.tx, "dpa")
----------------------------------------------------------------------------
(* Multi-threaded sender dpa_send_mt, built with ONLY_SEND: the handler      *)
(* writes the MAC addresses, the first-packet RPC the whole headers          *)

send_mt_prepare_packet(t) == Headers(t)
send_mt_prepare_packet_host(t) == Headers(t)
send_packet_dpa(t) == get_next_send_buf(t) \o <<<<"mac", "tx", t>>>>
  \o prepare_send_packet("tx", t) \o finish_send_packet(t)
send_packet_on_host(t) == get_next_send_buf(t) \o <<<<"mac", "tx", t>>>>
  \o prepare_send_packet("tx", t) \o finish_send_packet_host(t)
send_mt_event_handler(c, t) == WindowRx(c, t) \o WindowTx(c, t)
BugSendMtFirst(c, t) == WindowTx(c, t) \o Repeat(Depth - 1, get_next_send_buf(t) \o Headers(t))
send_mt_first_packet(c, t) == WindowTx(c, t) \o Repeat(Depth, get_next_send_buf(t) \o
  IF c.tx = "host" THEN send_mt_prepare_packet_host(t) ELSE send_mt_prepare_packet(t))
send_mt_device_init(p) == Keeps(p.rx, p.tx, "dpa")
----------------------------------------------------------------------------
(* Bank: the client's ping RPC and frames, the server's answers in place *)

bank_prepare_packet(t) == Headers(t)
BankFrame(t) == get_next_send_buf(t) \o Store("tx", t) \o prepare_send_packet("tx", t)
send_ping_packet(t) == BankFrame(t) \o finish_send_packet(t)
bank_ping_packet(c, t) == Repeat(Depth, get_next_send_buf(t) \o bank_prepare_packet(t))
  \o send_ping_packet(t)
bank_client_process_packet(m, t) == Load("rx", t) \o
  IF m = "ping" THEN Repeat(Concurrency, BankFrame(t)) \o finish_send_packet_batch(t)
  ELSE BankFrame(t) \o finish_send_packet(t)
bank_client_device_init(p) == Keeps("dpa", "dpa", "dpa")
bank_server_process_packet(m, t) == Swap(t) \o finish_send_packet(t)
bank_server_device_init(p) == Keeps("dpa", "dpa", "dpa")
----------------------------------------------------------------------------
(* The functions of each application *)

DeviceInit(app, p) ==
  CASE app = "refactor" -> refactor_device_init(p)     [] app = "mt" -> mt_device_init(p)
    [] app = "nf" -> nf_device_init(p)                 [] app = "workingset" -> workingset_device_init(p)
    [] app = "random" -> random_device_init(p)         [] app = "ddio" -> ddio_device_init(p)
    [] app = "hostrq" -> hostrq_device_init(p)         [] app = "kv" -> kv_device_init(p)
    [] app = "send" -> send_device_init(p)             [] app = "ntp" -> ntp_device_init(p)
    [] app = "send_mt" -> send_mt_device_init(p)       [] app = "bank_client" -> bank_client_device_init(p)
    [] app = "bank_server" -> bank_server_device_init(p)

Start(app, c, t) ==
  CASE app = "refactor" -> refactor_event_handler(c, t)      [] app = "mt" -> mt_event_handler(c, t)
    [] app = "nf" -> nf_event_handler(c, t)                  [] app = "workingset" -> workingset_event_handler(c, t)
    [] app = "random" -> random_event_handler(c, t)          [] app = "ddio" -> ddio_event_handler(c, t)
    [] app = "hostrq" -> hostrq_event_handler(c, t)          [] app = "kv" -> kv_event_handler(c, t)
    [] app = "send" -> send_event_handler(c, t)              [] app = "ntp" -> ntp_event_handler(c, t)
    [] app = "send_mt" -> send_mt_event_handler(c, t)        [] app \in Banks -> <<>>

\* The body of a handler's loop for one CQE, step_rq and step_cq included.
Process(app, c, m, t) ==
  LET h == c.rx = "host"
      step == <<<<"step", "rx", t>>>>
  IN CASE app = "refactor" -> (IF h THEN refactor_process_packet_host(m, t) ELSE refactor_process_packet(m, t)) \o step
       [] app = "mt" -> (IF h THEN mt_process_packet_host(m, t) ELSE mt_process_packet(m, t)) \o step
       [] app = "nf" -> (IF h THEN nf_process_packet_host(m, t) ELSE nf_process_packet(m, t)) \o step
       [] app = "workingset" -> (IF h THEN workingset_process_packet_host(m, t)
                                 ELSE workingset_process_packet(m, t)) \o step
       [] app = "random" -> (IF h THEN random_process_packet_host(m, t) ELSE random_process_packet(m, t)) \o step
       [] app = "ddio" -> ddio_process_packet(m, t)
       [] app = "hostrq" -> hostrq_process_packet(m, t)
       [] app = "kv" -> (IF h THEN kv_process_packet_host(c, m, t) ELSE kv_process_packet(c, m, t)) \o step
       [] app = "send" -> (IF c.tx = "host" THEN send_process_packet_host(m, t)
                           ELSE send_process_packet(m, t)) \o step
       [] app = "ntp" -> (IF c.tx = "host" THEN ntp_process_packet_host(m, t)
                          ELSE ntp_process_packet(m, t)) \o step
       [] app = "bank_client" -> bank_client_process_packet(m, t) \o step
       [] app = "bank_server" -> bank_server_process_packet(m, t) \o step

FirstPacket(app, c, t) ==
  CASE app = "send" -> send_first_packet(c, t)       [] app = "ntp" -> ntp_first_packet(c, t)
    [] app = "send_mt" -> send_mt_first_packet(c, t) [] app = "bank_client" -> bank_ping_packet(c, t)
=============================================================================
