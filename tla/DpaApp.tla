------------------------------- MODULE DpaApp -------------------------------
(***************************************************************************)
(* A flexio/dpa_* application at run time: the host executes main, each    *)
(* DPA thread its event handler, a pseudo-thread RPC the device functions  *)
(* the host calls, the NIC moves frames, a peer sends or answers.  Every   *)
(* access of a device function is a step of its own.                       *)
(***************************************************************************)
EXTENDS DpaHost, DpaPrograms, FiniteSets

CONSTANTS MaxArrive, \* bound: packets a peer sends to a thread
          Batch,     \* batch_pkg_num
          StopNumber \* STOP_NUMBER of the KV aggregation
None == "none"

VARIABLES
  ctx,            \* device contexts: where each believes its buffers are
  act, todo,      \* running handlers; the rest of each actor's current function
  rpc,            \* context the first-packet RPC looks at next
  win,            \* memory key of each actor's window
  dirty,          \* buffers an actor has written and not written back
  cur,            \* slot or value each actor holds in a register
  frames,         \* WQEs written, doorbell not rung
  txi, mem,       \* tx_buff_idx; contents of the send buffers
  rxi, rxq,       \* next receive slot; CQEs of the RQ
  sq, wire,       \* frames rung and not transmitted; on the wire to the peer
  arrived, sent, pos, \* packets received, answers rung, position in the batch
  kv, added, pktCount, entry, \* the table, values added to it, thread 0's count, global_entry_ptr
  stop,           \* is_stop
  hist            \* what happened: subset of {"foreign", "overlapped", "stolen"}

ringVars == <<rxi, rxq, sq, wire, arrived>>
sendVars == <<frames, txi, mem, sent>>
kvVars == <<kv, added, entry>>
deviceVars == <<ctx, act, todo, win, dirty, cur, sendVars, ringVars, pos, kvVars, pktCount, stop, hist>>
dvars == <<hostVars, rpc, deviceVars>>

Key(b) == IF b = "tx" /\ place.shared THEN "rx" ELSE b
Threads == begin_thread..(begin_thread + g_thread_num - 1)
RpcIdle == todo[RPC] = <<>> /\ rpc = MAX_THREADS

DInit ==
  /\ HostInit /\ rpc = MAX_THREADS
  /\ ctx = [t \in Tids |-> Keeps(None, None, None)]
  /\ act = [t \in Tids |-> FALSE] /\ todo = [a \in Actors |-> <<>>]
  /\ win = [a \in Actors |-> None] /\ dirty = [a \in Actors |-> {}]
  /\ cur = [a \in Actors |-> 0] /\ frames = [a \in Actors |-> <<>>]
  /\ txi = [t \in Tids |-> 0] /\ mem = [t \in Tids |-> [i \in 0..Depth-1 |-> "blank"]]
  /\ rxi = [t \in Tids |-> 0] /\ rxq = [t \in Tids |-> <<>>]
  /\ sq = [t \in Tids |-> <<>>] /\ wire = [t \in Tids |-> <<>>]
  /\ arrived = [t \in Tids |-> 0] /\ sent = [t \in Tids |-> 0] /\ pos = [t \in Tids |-> 0]
  /\ kv = [k \in Keys |-> 0] /\ added = [k \in Keys |-> 0]
  /\ pktCount = 0 /\ entry = FALSE /\ stop = FALSE /\ hist = {}
----------------------------------------------------------------------------
(* Host: main is not in the next call while an RPC runs *)

\* Calls the device takes no part in.
host_call ==
  /\ next_thread \/ make("create") \/ set_mac \/ clear \/ create_flow_table \/ create_dr_rule \/ leave("wait")
  /\ UNCHANGED <<rpc, deviceVars>>
device_init ==
  /\ make("init")
  /\ entry' = (entry \/ (app = "kv" /\ Tid = 0))
  /\ ctx' = [ctx EXCEPT ![Tid] = DeviceInit(app, place)]
  /\ UNCHANGED <<rpc, act, todo, win, dirty, cur, sendVars, ringVars, pos, kv, added, pktCount, stop, hist>>
\* The handler starts at once; one that is not initialised never runs again.
event_handler_run ==
  /\ make("run")
  /\ act' = [act EXCEPT ![Tid] = Ready(Tid)]
  /\ todo' = [todo EXCEPT ![Tid] = IF Ready(Tid) THEN Start(app, ctx[Tid], Tid) ELSE <<>>]
  /\ UNCHANGED <<rpc, ctx, win, dirty, cur, sendVars, ringVars, pos, kvVars, pktCount, stop, hist>>
first_packet == make("first") /\ rpc' = 0 /\ UNCHANGED deviceVars
stop_rpc ==
  /\ leave("stop") /\ stop' = TRUE
  /\ UNCHANGED <<rpc, ctx, act, todo, win, dirty, cur, sendVars, ringVars, pos, kvVars, pktCount, hist>>
HostStep == RpcIdle /\ (host_call \/ device_init \/ event_handler_run \/ first_packet \/ stop_rpc)
\* The RPC's loop over the contexts; a single-threaded application has one.
next_context ==
  /\ todo[RPC] = <<>> /\ rpc < MAX_THREADS
  /\ rpc' = IF app \in Threaded THEN rpc + 1 ELSE MAX_THREADS
  /\ todo' = [todo EXCEPT ![RPC] =
               IF app \in Threaded /\ ~Ready(rpc) THEN <<>> ELSE FirstPacket(app, ctx[rpc], rpc)]
  /\ UNCHANGED <<hostVars, ctx, act, win, dirty, cur, sendVars, ringVars, pos, kvVars, pktCount, stop, hist>>
----------------------------------------------------------------------------
(* Device: one access of a running function *)

Op(a) == Head(todo[a])
NextOp(a, name) == todo[a] # <<>> /\ Op(a)[1] = name /\ todo' = [todo EXCEPT ![a] = Tail(@)]
Arg(a) == Op(a)[2]
Ctx(a) == Op(a)[3]

window_mkey_config(a) ==
  /\ NextOp(a, "window") /\ win' = [win EXCEPT ![a] = Key(Arg(a))]
  /\ UNCHANGED <<act, dirty, cur, sendVars, ringVars, pos, kvVars, pktCount, stop, hist>>
load(a) ==
  /\ NextOp(a, "load")
  /\ UNCHANGED <<act, win, dirty, cur, sendVars, ringVars, pos, kvVars, pktCount, stop, hist>>
store(a) ==
  /\ NextOp(a, "store") /\ dirty' = [dirty EXCEPT ![a] = @ \cup {Arg(a)}]
  /\ UNCHANGED <<act, win, cur, sendVars, ringVars, pos, kvVars, pktCount, stop, hist>>
\* MAC addresses alone, or the whole header, of the slot taken.
write_header(a) ==
  /\ todo[a] # <<>> /\ Op(a)[1] \in {"mac", "headers"} /\ todo' = [todo EXCEPT ![a] = Tail(@)]
  /\ mem' = [mem EXCEPT ![Ctx(a)][cur[a]] =
               IF Op(a)[1] = "headers" \/ @ = "full" THEN "full" ELSE "mac"]
  /\ dirty' = [dirty EXCEPT ![a] = @ \cup {"tx"}]
  /\ UNCHANGED <<act, win, cur, frames, txi, sent, ringVars, pos, kvVars, pktCount,
                 stop, hist>>
take(a) ==
  /\ NextOp(a, "take") /\ cur' = [cur EXCEPT ![a] = txi[Ctx(a)]]
  /\ UNCHANGED <<act, win, dirty, sendVars, ringVars, pos, kvVars, pktCount,
                 stop, hist>>
\* A handler that moves tx_buff_idx while the RPC prepares the slots of its
\* context makes the RPC pass over a slot, or prepare one twice.
bump(a) ==
  /\ NextOp(a, "bump") /\ txi' = [txi EXCEPT ![Ctx(a)] = (cur[a] + 1) % Depth]
  /\ hist' = IF a # RPC /\ todo[RPC] # <<>> /\ Op(RPC)[3] = Ctx(a)
             THEN hist \cup {"stolen"} ELSE hist
  /\ UNCHANGED <<act, win, dirty, cur, frames, mem, sent, ringVars, pos, kvVars,
                 pktCount, stop>>
\* In-place answers are posted from the receive slot, others from the slot taken.
write_wqe(a) ==
  /\ NextOp(a, "post")
  /\ frames' = [frames EXCEPT ![a] = Append(@, IF Arg(a) = "tx" THEN <<"tx", cur[a]>>
                                               ELSE <<"rx", rxi[Ctx(a)]>>)]
  /\ UNCHANGED <<act, win, dirty, cur, txi, mem, sent, ringVars, pos, kvVars,
                 pktCount, stop, hist>>
\* Write back, then ring.  __dpa_thread_memory_writeback covers DPA memory,
\* __dpa_thread_window_writeback the window.
Where(b) == IF b = "kv" THEN place.kv ELSE IF b = "tx" THEN place.tx ELSE place.rx
ring_db(a) ==
  /\ NextOp(a, "ring")
  /\ Len(sq[Ctx(a)]) + Len(frames[a]) <= Depth
  /\ sq' = [sq EXCEPT ![Ctx(a)] = @ \o frames[a]]
  /\ frames' = [frames EXCEPT ![a] = <<>>]
  /\ dirty' = [dirty EXCEPT ![a] = {b \in @ : Arg(a) = "mem" /\ Where(b) = "host"}]
  /\ sent' = IF app \in Reflectors THEN [sent EXCEPT ![Ctx(a)] = @ + Len(frames[a])] ELSE sent
  /\ UNCHANGED <<act, win, cur, txi, mem, rxi, rxq, wire, arrived, pos, kvVars,
                 pktCount, stop, hist>>
Adding(k) == {a \in Tids : todo[a] # <<>> /\ Op(a)[1] = "put" /\ Arg(a) = k}
BugGet(a) ==
  /\ NextOp(a, "get") /\ cur' = [cur EXCEPT ![a] = 0] /\ hist' = hist
  /\ UNCHANGED <<act, win, dirty, sendVars, ringVars, pos, kvVars, pktCount, stop>>
get(a) ==
  /\ NextOp(a, "get") /\ cur' = [cur EXCEPT ![a] = kv[Arg(a)]]
  /\ hist' = IF Adding(Arg(a)) # {} THEN hist \cup {"overlapped"} ELSE hist
  /\ UNCHANGED <<act, win, dirty, sendVars, ringVars, pos, kvVars, pktCount, stop>>
put(a) ==
  /\ NextOp(a, "put")
  /\ kv' = [kv EXCEPT ![Arg(a)] = cur[a] + 1] /\ added' = [added EXCEPT ![Arg(a)] = @ + 1]
  /\ UNCHANGED <<act, win, dirty, cur, sendVars, ringVars, pos, entry, pktCount,
                 stop, hist>>
\* step_rq, step_cq, and thread 0's packet count in the aggregation.
step(a) ==
  /\ NextOp(a, "step")
  /\ rxq' = [rxq EXCEPT ![a] = Tail(@)] /\ rxi' = [rxi EXCEPT ![a] = (@ + 1) % Depth]
  /\ pktCount' = IF app = "kv" /\ a = 0 THEN pktCount + 1 ELSE pktCount
  /\ stop' = (stop \/ (app = "kv" /\ a = 0 /\ pktCount' = StopNumber))
  /\ UNCHANGED <<act, win, dirty, cur, sendVars, sq, wire, arrived, pos, kvVars, hist>>
drain(a) ==
  /\ todo[a] # <<>> /\ Op(a)[1] = "drain"
  /\ \/ rxq[a] = <<>> /\ todo' = [todo EXCEPT ![a] = Tail(@)] /\ UNCHANGED <<rxq, rxi>>
     \/ /\ rxq[a] # <<>> /\ UNCHANGED todo
        /\ rxq' = [rxq EXCEPT ![a] = Tail(@)] /\ rxi' = [rxi EXCEPT ![a] = (@ + 1) % Depth]
  /\ UNCHANGED <<act, win, dirty, cur, sendVars, sq, wire, arrived, pos,
                 kvVars, pktCount, stop, hist>>
\* The end of a batch arms the CQ and ends the activation.
count(a) ==
  /\ NextOp(a, "count")
  /\ pos' = [pos EXCEPT ![a] = (@ + 1) % Batch] /\ act' = [act EXCEPT ![a] = pos'[a] # 0]
  /\ UNCHANGED <<win, dirty, cur, sendVars, ringVars, kvVars, pktCount, stop, hist>>
\* The polling loop of a handler between two packets.
event_handler(t) ==
  /\ act[t] /\ todo[t] = <<>>
  /\ IF app = "send_mt"
     THEN /\ act' = [act EXCEPT ![t] = ~stop]
          /\ todo' = [todo EXCEPT ![t] = IF stop THEN <<>>
                       ELSE IF ctx[t].tx = "host" THEN send_packet_on_host(t) ELSE send_packet_dpa(t)]
     ELSE IF rxq[t] # <<>>
     THEN todo' = [todo EXCEPT ![t] = Process(app, ctx[t], Head(rxq[t]), t)] /\ act' = act
     ELSE app = "bank_client" /\ stop /\ act' = [act EXCEPT ![t] = FALSE] /\ todo' = todo
  /\ UNCHANGED <<win, dirty, cur, sendVars, ringVars, pos, kvVars, pktCount, stop, hist>>
\* An armed CQ with an entry starts the handler again.
activate(t) ==
  /\ app \in Batches /\ <<"run", t>> \in made /\ ~act[t] /\ todo[t] = <<>> /\ rxq[t] # <<>>
  /\ act' = [act EXCEPT ![t] = TRUE] /\ todo' = [todo EXCEPT ![t] = Start(app, ctx[t], t)]
  /\ UNCHANGED <<win, dirty, cur, sendVars, ringVars, pos, kvVars, pktCount, stop, hist>>
DeviceStep ==
  \/ \E a \in Actors :
       \/ window_mkey_config(a) \/ load(a) \/ store(a) \/ write_header(a) \/ take(a) \/ bump(a)
       \/ write_wqe(a) \/ ring_db(a) \/ get(a) \/ put(a) \/ step(a) \/ drain(a) \/ count(a)
  \/ \E t \in Threads : event_handler(t) \/ activate(t)
----------------------------------------------------------------------------
(* NIC and peers *)

Steered(t) == \E i \in DOMAIN rules : rules[i][1] = "rx" /\ rules[i][3] = t
\* The RQ's next slot is slot rxi of the ring after the packets waiting.
Deliver(t, m) ==
  /\ Steered(t) /\ Len(rxq[t]) < Depth
  /\ rxq' = [rxq EXCEPT ![t] = Append(@, m)]
  /\ mem' = IF place.shared /\ app \in PingPongs
            THEN [mem EXCEPT ![t][(rxi[t] + Len(rxq[t])) % Depth] = "rx"] ELSE mem
ClientSends(t, m) ==
  /\ app \in Reflectors \cup Batches \cup {"kv"} /\ arrived[t] < MaxArrive
  /\ m \in (IF app = "kv" THEN Keys ELSE {"ok", "odd"})
  /\ Deliver(t, m) /\ arrived' = [arrived EXCEPT ![t] = @ + 1]
  /\ UNCHANGED <<act, todo, win, dirty, cur, frames, txi, sent, rxi, sq, wire,
                 pos, kvVars, pktCount, stop, hist>>
\* A packet to the ping-pong's address that is not an answer.
ForeignPacket(t, m) ==
  /\ app \in PingPongs /\ m \in {"ok", "odd"} /\ "foreign" \notin hist /\ Deliver(t, m) /\ hist' = hist \cup {"foreign"}
  /\ UNCHANGED <<act, todo, win, dirty, cur, frames, txi, sent, rxi, sq, wire,
                 arrived, pos, kvVars, pktCount, stop>>
Transmit(t) ==
  /\ sq[t] # <<>> /\ sq' = [sq EXCEPT ![t] = Tail(@)]
  /\ wire' = IF app \in PingPongs \cup {"bank_client"}
             THEN [wire EXCEPT ![t] = Append(@, Head(sq[t]))] ELSE wire
  /\ UNCHANGED <<act, todo, win, dirty, cur, sendVars, rxi, rxq, arrived,
                 pos, kvVars, pktCount, stop, hist>>
\* The first frame a bank client sends is its ping.
Echo(t) ==
  /\ wire[t] # <<>> /\ wire' = [wire EXCEPT ![t] = Tail(@)]
  /\ Deliver(t, IF app # "bank_client" \/ arrived[t] > 0 THEN "ok" ELSE "ping")
  /\ arrived' = IF app = "bank_client" THEN [arrived EXCEPT ![t] = 1] ELSE arrived
  /\ UNCHANGED <<act, todo, win, dirty, cur, frames, txi, sent, rxi, sq,
                 pos, kvVars, pktCount, stop, hist>>
Lose(t) ==
  /\ wire[t] # <<>> /\ wire' = [wire EXCEPT ![t] = Tail(@)]
  /\ UNCHANGED <<act, todo, win, dirty, cur, sendVars, rxi, rxq, sq, arrived,
                 pos, kvVars, pktCount, stop, hist>>

NicStep == \E t \in Threads : Transmit(t) \/ Echo(t) \/ Lose(t)
  \/ \E m \in {"ok", "odd"} \cup Keys : ClientSends(t, m) \/ ForeignPacket(t, m)

DNext ==
  \/ HostStep \/ next_context
  \/ (DeviceStep \/ NicStep) /\ UNCHANGED <<hostVars, rpc, ctx>>
DSpec == DInit /\ [][DNext]_dvars
----------------------------------------------------------------------------
Accesses(a) == IF todo[a] = <<>> THEN {} ELSE
  CASE Op(a)[1] \in {"load", "store", "mac", "headers"} -> {Arg(a)}
    [] Op(a)[1] \in {"get", "put"} -> {"kv"}
    [] OTHER -> {}

(* Properties *)

\* Every buffer address a device function uses is good: in host memory only
\* while its window carries that buffer's memory key, in every placement the
\* two buffers' keys allow (get_host_buffer_with_dtctx, "must config before use
\* flexio_dev_window_copy_to_host"), and in the aggregation table only after
\* thread 0's initialisation has set global_entry_ptr.
\* dpa_refactor_test_hostrq configures no window, and a begin_thread other than
\* 0 leaves the pointer unset.
WindowRight ==
  \A a \in Actors : \A b \in Accesses(a) :
    /\ Where(b) = "host" /\ app # "hostrq" => win[a] = Key(b)
    /\ b = "kv" /\ begin_thread = 0 => entry

\* When a function returns nothing it did is left unannounced: what it wrote into
\* the buffer it sends from has been written back before a doorbell
\* (finish_send_packet_host for frames behind the window, finish_send_packet for
\* the others), and the doorbell was rung for every WQE, the last of a batch
\* included.  The first-packet RPC of dpa_send_mt rings none and is left out.
WrittenBack ==
  \A a \in Actors : todo[a] = <<>> =>
    /\ frames[a] = <<>>
    /\ ~(a = RPC /\ app = "send_mt") => (IF app \in Reflectors THEN "rx" ELSE "tx") \notin dirty[a]

\* A reflector answers every packet it has consumed exactly once, whatever
\* its size: what it rang plus what waits is what arrived.
EveryPacketAnswered ==
  app \in Reflectors => \A t \in Tids :
    sent[t] + Len(rxq[t]) = arrived[t] + IF todo[t] # <<>> /\ Op(t)[1] = "step" THEN 1 ELSE 0

\* A frame rung and not transmitted holds a whole header.  The ping-pongs use
\* one buffer for both directions; dpa_send_ntp/main.cpp says that a packet of
\* somebody else would overwrite a frame to be sent, and that its odd MAC
\* address keeps such packets away: without one, no frame is overwritten.
PostedIntact ==
  (app \in PingPongs \cup {"bank_client"} /\ "foreign" \notin hist) =>
    \A t \in Tids : \A i \in DOMAIN sq[t] : sq[t][i][1] = "tx" => mem[t][sq[t][i][2]] = "full"

\* The first-packet RPC of dpa_send_mt leaves no slot without a header, unless
\* the running handler moves tx_buff_idx while it prepares them.
HeadersPrepared ==
  (app = "send_mt" /\ <<"rpc", 0>> \in made /\ RpcIdle /\ "stolen" \notin hist) =>
    \A t \in Threads : \A i \in 0..Depth-1 : mem[t][i] = "full"

\* The table holds the sum of the values added, unless two threads were
\* inside += on one entry at once (kv_elements[key % entry_size] += value).
KvExact == "overlapped" \notin hist => kv = added
=============================================================================
