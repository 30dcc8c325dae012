----------------------------- MODULE BankClient -----------------------------
(***************************************************************************)
(* One client context of test_suite/small_bank: the leader thread that     *)
(* starts it and the worker thread that serves it share a queue of         *)
(* requests and the counter req_id_.  The queue is an AtomicQueueB2 built  *)
(* for one producer and one consumer: push and pop load an index, store    *)
(* it incremented, and then wait for the cell.  Both threads push and pop. *)
(* Once both are inside push, or both inside pop, nothing is known of the  *)
(* queue any more ("raced"), and the model stops there.  The server        *)
(* answers requests in any order and refuses locks as it likes.            *)
(***************************************************************************)
EXTENDS Integers, FiniteSets

CONSTANTS Concurrency,  \* FLAGS_concurrency
          Buffers,      \* kAppMaxBuffer
          QueueSize,    \* cells of the queue
          IndexMod,     \* 2^32, the width of the queue's indices
          IdMod         \* 2^32, the width of req_id_

\* The slots of a transaction repeat with period Concurrency only when that
\* divides kAppMaxBuffer and the counter's range: run.sh's 128 divides 2560.
ASSUME ClientAssumption ==
  /\ {Concurrency, Buffers, QueueSize, IndexMod, IdMod} \subseteq Nat \ {0}
  /\ Buffers % Concurrency = 0 /\ IdMod % Concurrency = 0

VARIABLES head, tail, cells,  \* the queue
          thread,   \* per thread: its queue operation, its step in it, its element
          leader,   \* the leader: where it is, requests generated, id loaded
          worker,   \* the worker: where it is, pops left, id loaded
          req_id_, flight,    \* the counter; requests sent and not yet answered
          raced, overtaken    \* history: see above; req_id_ moved before the leader was done

clientVars == <<head, tail, cells, thread, leader, worker, req_id_, flight, raced, overtaken>>

Empty == [type |-> "EMPTY", id |-> 0]
Msg(type, id) == [type |-> type, id |-> id]
NoOp == [op |-> "none"]
Cell(i) == i % QueueSize
Free(x) == thread[x] = NoOp

ClientInit ==
  /\ head = 0 /\ tail = 0 /\ cells = [i \in 0..(QueueSize - 1) |-> Empty]
  /\ thread = [x \in {"leader", "worker"} |-> NoOp]
  /\ leader = [at |-> "ping", made |-> 0, id |-> 0]
  /\ worker = [at |-> "size", left |-> 0, id |-> 0, got |-> Empty]
  /\ req_id_ = 1 /\ flight = {}
  /\ raced = FALSE /\ overtaken = FALSE
----------------------------------------------------------------------------
(* push and pop of the queue *)

BeginOp(x, op, m) ==
  /\ thread' = [thread EXCEPT ![x] = [op |-> op, step |-> "index", idx |-> 0, msg |-> m]]
  /\ raced' = (raced \/ \E y \in DOMAIN thread \ {x} : thread[y].op = op)

TakeIndex(x) ==
  /\ ~raced /\ ~Free(x) /\ thread[x].step = "index"
  /\ thread' = [thread EXCEPT ![x].step = "cell",
                              ![x].idx = IF thread[x].op = "push" THEN head ELSE tail]
  /\ head' = IF thread[x].op = "push" THEN (head + 1) % IndexMod ELSE head
  /\ tail' = IF thread[x].op = "pop" THEN (tail + 1) % IndexMod ELSE tail
  /\ UNCHANGED <<cells, leader, worker, req_id_, flight, raced, overtaken>>

\* do_push_any: wait until the cell is empty.
PutCell(x) ==
  /\ ~raced /\ ~Free(x) /\ thread[x].step = "cell" /\ thread[x].op = "push"
  /\ cells[Cell(thread[x].idx)] = Empty
  /\ cells' = [cells EXCEPT ![Cell(thread[x].idx)] = thread[x].msg]
  /\ thread' = [thread EXCEPT ![x] = NoOp]
  /\ UNCHANGED <<head, tail, leader, worker, req_id_, flight, raced, overtaken>>

\* do_pop_any: wait until the cell is stored; the leader drops the element,
\* the worker runs the handler of its type, which sends the request.
GetCell(x) ==
  /\ ~raced /\ ~Free(x) /\ thread[x].step = "cell" /\ thread[x].op = "pop"
  /\ LET m == cells[Cell(thread[x].idx)]
     IN  /\ m # Empty
         /\ flight' = IF x = "worker" THEN flight \cup {m} ELSE flight
  /\ cells' = [cells EXCEPT ![Cell(thread[x].idx)] = Empty]
  /\ thread' = [thread EXCEPT ![x] = NoOp]
  /\ UNCHANGED <<head, tail, leader, worker, req_id_, raced, overtaken>>
----------------------------------------------------------------------------
(* leader_thread_func *)

LeaderPing ==
  /\ ~raced /\ Free("leader") /\ leader.at = "ping"
  /\ BeginOp("leader", "push", Msg("PING", 0))
  /\ leader' = [leader EXCEPT !.at = "pop"]
  /\ UNCHANGED <<head, tail, cells, worker, req_id_, flight, overtaken>>

LeaderPop ==
  /\ ~raced /\ Free("leader") /\ leader.at = "pop"
  /\ BeginOp("leader", "pop", Empty)
  /\ leader' = [leader EXCEPT !.at = "load"]
  /\ UNCHANGED <<head, tail, cells, worker, req_id_, flight, overtaken>>

\* req_id_++ is a load and a store.
LeaderLoad ==
  /\ ~raced /\ Free("leader") /\ leader.at = "load" /\ leader.made < Concurrency
  /\ leader' = [leader EXCEPT !.at = "store", !.id = req_id_]
  /\ UNCHANGED <<head, tail, cells, thread, worker, req_id_, flight, raced, overtaken>>

LeaderStore ==
  /\ ~raced /\ leader.at = "store"
  /\ req_id_' = (leader.id + 1) % IdMod
  /\ BeginOp("leader", "push", Msg("GET_DATA", leader.id))
  /\ leader' = [leader EXCEPT !.at = "load", !.made = @ + 1]
  /\ UNCHANGED <<head, tail, cells, worker, flight, overtaken>>
----------------------------------------------------------------------------
(* client_thread_func *)

\* was_size(), then as many pops
WasSize ==
  /\ ~raced /\ Free("worker") /\ worker.at = "size"
  /\ LET n == (head - tail) % IndexMod
     IN  worker' = [worker EXCEPT !.at = "pops",
                                  !.left = IF n <= IndexMod \div 2 THEN n ELSE 0]
  /\ UNCHANGED <<head, tail, cells, thread, leader, req_id_, flight, raced, overtaken>>

WorkerPop ==
  /\ ~raced /\ Free("worker") /\ worker.at = "pops"
  /\ IF worker.left = 0
     THEN /\ worker' = [worker EXCEPT !.at = "events"]
          /\ UNCHANGED <<thread, raced>>
     ELSE /\ worker' = [worker EXCEPT !.left = @ - 1]
          /\ BeginOp("worker", "pop", Empty)
  /\ UNCHANGED <<head, tail, cells, leader, req_id_, flight, overtaken>>

\* run_event_loop_once finds no response.
NoEvent ==
  /\ ~raced /\ worker.at = "events"
  /\ worker' = [worker EXCEPT !.at = "size"]
  /\ UNCHANGED <<head, tail, cells, thread, leader, req_id_, flight, raced, overtaken>>

\* What the callback of response m pushes when it takes no new id.
FollowUp(m, ok) ==
  CASE m.type = "PING" -> Msg("PING", 0)
    [] m.type = "GET_DATA" -> Msg("GET_LOCK", m.id)
    [] m.type = "GET_LOCK" /\ ok -> Msg("FINISH", m.id)
    [] OTHER -> Empty

BugNextId(id) == (id + 1) % IdMod
\* callback_get_lock and callback_finish: the id of the next transaction.
NextId(id) == (id + Concurrency) % IdMod

\* callback_ping, callback_get_data, callback_get_lock on success
CallbackSame(m, ok) ==
  /\ ~raced /\ worker.at = "events" /\ m \in flight /\ FollowUp(m, ok) # Empty
  /\ flight' = flight \ {m}
  /\ worker' = [worker EXCEPT !.at = "size"]
  /\ BeginOp("worker", "push", FollowUp(m, ok))
  /\ UNCHANGED <<head, tail, cells, leader, req_id_, overtaken>>

\* callback_get_lock on refusal and callback_finish: ctx->req_id_++ ...
CallbackLoad(m, ok) ==
  /\ ~raced /\ worker.at = "events" /\ m \in flight /\ FollowUp(m, ok) = Empty
  /\ flight' = flight \ {m}
  /\ worker' = [worker EXCEPT !.at = "store", !.id = req_id_, !.got = m]
  /\ UNCHANGED <<head, tail, cells, thread, leader, req_id_, raced, overtaken>>

BugCallbackStore ==
  /\ ~raced /\ worker.at = "store"
  /\ req_id_' = (worker.id + 1) % IdMod
  /\ overtaken' = (overtaken \/ leader.made < Concurrency)
  /\ worker' = [worker EXCEPT !.at = "size", !.id = 0, !.got = Empty]
  /\ UNCHANGED <<head, tail, cells, thread, leader, flight, raced>>
\* ... and the push of a new transaction.
CallbackStore ==
  /\ ~raced /\ worker.at = "store"
  /\ req_id_' = (worker.id + 1) % IdMod
  /\ overtaken' = (overtaken \/ leader.made < Concurrency)
  /\ BeginOp("worker", "push", Msg("GET_DATA", NextId(worker.got.id)))
  /\ worker' = [worker EXCEPT !.at = "size", !.id = 0, !.got = Empty]
  /\ UNCHANGED <<head, tail, cells, leader, flight>>

ClientNext ==
  \/ \E x \in {"leader", "worker"} : TakeIndex(x) \/ PutCell(x) \/ GetCell(x)
  \/ LeaderPing \/ LeaderPop \/ LeaderLoad \/ LeaderStore
  \/ WasSize \/ WorkerPop \/ NoEvent \/ CallbackStore
  \/ \E m \in flight, ok \in BOOLEAN : CallbackSame(m, ok) \/ CallbackLoad(m, ok)

ClientSpec == ClientInit /\ [][ClientNext]_clientVars
----------------------------------------------------------------------------
(* Properties *)

Pushing == {thread[x].msg : x \in {y \in DOMAIN thread : thread[y].op = "push"}}
Queued == {i \in DOMAIN cells : cells[i] \notin {Empty, Msg("PING", 0)}}
\* Places that hold a transaction: cells, requests, elements being pushed.
Places ==
  {<<"cell", i, cells[i]>> : i \in Queued}
  \cup {<<"rpc", 0, m>> : m \in {f \in flight : f.type # "PING"}}
  \cup {<<"push", 0, m>> : m \in {f \in Pushing : f.type # "PING"}}
  \cup {<<"next", 0, m>> : m \in {worker.got} \ {Empty}}

\* The transition and message buffers of a transaction are those of its id
\* modulo kAppMaxBuffer.  Unless a callback moved req_id_ while the leader was
\* still numbering its first requests, no two transactions in flight share a
\* slot, however long the client runs and however ids wrap.
SlotsDistinct ==
  ~raced /\ ~overtaken =>
    \A a, b \in Places : a # b => a[3].id % Buffers # b[3].id % Buffers

\* While the queue is used by one producer and one consumer at a time, every
\* transaction the leader made stays in the client: in a cell of the queue,
\* at the server, or in the hands of a callback.
NothingLost == ~raced /\ ~overtaken => Cardinality(Places) = leader.made

============================================================================
