---------------------------- MODULE ChannelSetup ----------------------------
(***************************************************************************)
(* channel_bench from endpoint to teardown: connection, ping-pong, export  *)
(* and import of sync events and memory, the closing handshake, and the    *)
(* thread that stops the endpoint after TIME_OUT.  Every function is the   *)
(* sequence of its operations <<kind, what>>; the request and the event    *)
(* loops are one operation each (ChannelDma and SyncEvents detail them).   *)
(* The roles come from each side's own flags: nothing makes them agree.    *)
(***************************************************************************)
EXTENDS Integers, Sequences, SequencesExt

CONSTANTS Reqs,      \* config.batch_size
          MaxReqs    \* bound: requests beyond the first batch
ASSUME ReqsAssumption == Reqs \in Nat \ {0} /\ MaxReqs \in Nat

CEnds == {"client", "server"}
Far(e) == CHOOSE f \in CEnds : f # e
Events == {"event", "publish", "sub"}     \* exported sync events, by their owner's name
----------------------------------------------------------------------------
(* The functions *)

ping_pong == << <<"send", "ping">>, <<"check", "pong">> >>
server_ping_pong == << <<"first", "ping">>, <<"send", "pong">> >>
BugSyncExport(se) == << <<"send", se>> >>
handle_sync_event_export(se) == << <<"send", se>>, <<"expect", "success">> >>
handle_sync_event_import(se) == << <<"recv", se>>, <<"send", "success">>, <<"import", se>> >>

BugSendDmaReqs ==
  [i \in 1..Reqs |-> <<"send", "req">>] \o << <<"requests", "">>, <<"send", "success">> >>
send_dma_reqs ==
  [i \in 1..Reqs |-> <<"send", "req">>] \o
  << <<"requests", "">>, <<"send", "success">>, <<"expect", "success">> >>
receive_dma_reqs ==
  [i \in 1..Reqs |-> <<"request", "req">>] \o
  << <<"serve", "">>, <<"drain", "">>, <<"send", "success">> >>

\* The buffer is freed before its mapping is deleted.
handle_dma_export ==
  << <<"new", "memory">>, <<"send", "conn">>, <<"expect", "success">> >> \o
  send_dma_reqs \o << <<"delete", "memory">>, <<"delete", "mmap">> >>
channel_recv_config == << <<"expect", "conn">>, <<"send", "success">> >>
handle_dma_import ==
  channel_recv_config \o << <<"new", "remote">> >> \o receive_dma_reqs \o << <<"delete", "remote">> >>

\* The sender's publish event is the receiver's sub event and the other way round.
handle_sync_sender ==
  handle_sync_event_export("publish") \o handle_sync_event_export("sub") \o << <<"turns", "">> >>
handle_sync_receiver ==
  handle_sync_event_import("sub") \o handle_sync_event_import("publish") \o << <<"turns", "">> >>

DmaRole(sender) == IF sender THEN handle_dma_export ELSE handle_dma_import
SyncRole(sender) == IF sender THEN handle_sync_sender ELSE handle_sync_receiver

\* ep_stop_thread.join(), then the deletes
CloseEndpoint == << <<"join", "">>, <<"delete", "addr">>, <<"delete", "ep">> >>

perform_client_routine(build, sender) ==
  << <<"new", "ep">>, <<"connect", "">> >> \o ping_pong \o
  (IF build = "dma"
   THEN << <<"new", "event">> >> \o handle_sync_event_export("event") \o DmaRole(sender) \o << <<"delete", "event">> >>
   ELSE SyncRole(sender)) \o CloseEndpoint
perform_server_routine(build, sender) ==
  << <<"new", "ep">>, <<"listen", "">> >> \o server_ping_pong \o
  (IF build = "dma" THEN handle_sync_event_import("event") \o DmaRole(sender) ELSE SyncRole(sender)) \o CloseEndpoint
----------------------------------------------------------------------------
VARIABLES
  setup,    \* what never changes: build ("dma", "sync"), sender flags, and tail: is
            \* the stack behind a received "ping" or "pong" not a terminator
  todo,     \* operations each end has still to do
  objs,     \* objects each end holds
  ended,    \* "no", "yes" (returned) or "died" (exception or exit(1))
  halt,     \* comm_channel_ep::stop_flag
  line,     \* messages on their way to each end
  taken,    \* what each end received as a sync event, by name
  extra,    \* requests sent beyond the first batch
  flight,   \* DMAs the importer has with the engine
  harm      \* accesses to an object that is gone
cvars == <<setup, todo, objs, ended, halt, line, taken, extra, flight, harm>>

CInit ==
  /\ setup \in [build : {"dma", "sync"}, sender : [CEnds -> BOOLEAN], tail : [CEnds -> BOOLEAN]]
  /\ todo = [client |-> perform_client_routine(setup.build, setup.sender["client"]),
             server |-> perform_server_routine(setup.build, setup.sender["server"])]
  /\ objs = [e \in CEnds |-> {}]
  /\ ended = [e \in CEnds |-> "no"]
  /\ halt = [e \in CEnds |-> FALSE]
  /\ line = [e \in CEnds |-> <<>>]
  /\ taken = [e \in CEnds |-> [v \in Events |-> "none"]]
  /\ extra = 0 /\ flight = 0 /\ harm = {}

Op(e) == IF ended[e] = "no" /\ todo[e] # <<>> THEN todo[e][1] ELSE <<"none", "">>
Did(e) == todo' = [todo EXCEPT ![e] = Tail(@)]
Dies(e) == ended' = [ended EXCEPT ![e] = "died"] /\ UNCHANGED todo
\* The other end closed the connection, or its process is gone.
Left(e) == ended[Far(e)] # "no" \/ <<"delete", "addr">> \notin ToSet(todo[Far(e)])
\* The memory the importer maps is freed, or gone with its process.
Unmapped(e) == "memory" \notin objs[Far(e)] \/ ended[Far(e)] = "died"
----------------------------------------------------------------------------
(* Endpoint operations *)

\* new and delete of the objects the other end or another thread depends on
NewObject(e) ==
  /\ Op(e)[1] = "new" /\ Did(e)
  /\ objs' = [objs EXCEPT ![e] = @ \cup {Op(e)[2]} \cup (IF Op(e)[2] = "memory" THEN {"mmap"} ELSE {})]
  /\ UNCHANGED <<setup, ended, halt, line, taken, extra, flight, harm>>
InLoop(e) == Op(e)[1] \in {"requests", "request", "serve", "drain"}
DeleteObj(e) ==
  /\ Op(e)[1] = "delete" /\ Did(e)
  /\ objs' = [objs EXCEPT ![e] = @ \ {Op(e)[2]}]
  /\ harm' = harm \cup (IF \/ Op(e)[2] = "memory" /\ flight > 0
                           \/ Op(e)[2] = "event" /\ InLoop(Far(e))
                        THEN {Op(e)[2]} ELSE {})
  /\ UNCHANGED <<setup, ended, halt, line, taken, extra, flight>>

start_listen ==
  /\ Op("server")[1] = "listen" /\ Did("server")
  /\ objs' = [objs EXCEPT !["server"] = @ \cup {"name"}]
  /\ UNCHANGED <<setup, ended, halt, line, taken, extra, flight, harm>>
\* Retries until the server listens; the stop flag makes it throw.
ep_connect ==
  /\ Op("client")[1] = "connect"
  /\ \/ "name" \in objs["server"] /\ ended["server"] = "no" /\ Did("client") /\ UNCHANGED ended
     \/ ("name" \notin objs["server"] \/ ended["server"] # "no") /\ halt["client"] /\ Dies("client")
  /\ UNCHANGED <<setup, objs, halt, line, taken, extra, flight, harm>>

\* The queue of MAX_QUEUE_SIZE is never full outside the request loop.
ep_sendto(e) ==
  /\ Op(e)[1] = "send"
  /\ \/ ~Left(e) /\ Did(e) /\ line' = [line EXCEPT ![Far(e)] = Append(@, Op(e)[2])] /\ UNCHANGED ended
     \/ Left(e) /\ Dies(e) /\ UNCHANGED line
  /\ UNCHANGED <<setup, objs, halt, taken, extra, flight, harm>>

\* A message came: what the caller makes of it.
ep_recvfrom(e) ==
  /\ line[e] # <<>>
  /\ LET op == Op(e)
         msg == Head(line[e])
         good == CASE op[1] \in {"first", "check"} -> msg = op[2] /\ ~setup.tail[e]
                   [] op[1] \in {"expect", "request"} -> msg = op[2]
                   [] OTHER -> TRUE
     IN
       /\ op[1] \in {"first", "check", "expect", "request", "recv"}
       /\ IF good THEN Did(e) /\ UNCHANGED ended ELSE Dies(e)
       /\ taken' = IF op[1] = "recv" THEN [taken EXCEPT ![e][op[2]] = msg] ELSE taken
       /\ flight' = IF op[1] = "request" /\ good THEN flight + 1 ELSE flight
       /\ harm' = IF op[1] = "request" /\ good /\ Unmapped(e) THEN harm \cup {"remote"} ELSE harm
  /\ line' = [line EXCEPT ![e] = Tail(@)]
  /\ UNCHANGED <<setup, objs, halt, extra>>

BugRecvHalted(e) ==
  /\ Op(e)[1] = "first" /\ line[e] = <<>> /\ halt[e] /\ Dies(e)
  /\ UNCHANGED <<setup, objs, halt, line, taken, extra, flight, harm>>
\* None came and the endpoint is stopped.  Only handle_sync_event_import and
\* ping_pong go on, on a buffer nobody wrote.
RecvHalted(e) ==
  /\ Op(e)[1] \in {"first", "check", "expect", "request", "recv"} /\ line[e] = <<>> /\ halt[e]
  /\ \/ Op(e)[1] \in {"check", "recv"} /\ Did(e) /\ UNCHANGED ended
     \/ Op(e)[1] # "recv" /\ Dies(e)
  /\ UNCHANGED <<setup, objs, halt, line, taken, extra, flight, harm>>

\* None came and none can: the library reports the lost connection, which throws;
\* send_dma_reqs catches it in its loop.
RecvLost(e) ==
  /\ Op(e)[1] \in {"first", "check", "expect", "request", "recv", "serve"} /\ line[e] = <<>> /\ Left(e)
  /\ Dies(e)
  /\ UNCHANGED <<setup, objs, halt, line, taken, extra, flight, harm>>

\* sync_event::new_from_exported_dpu throws on anything but an exported event.
new_from_exported_dpu(e) ==
  /\ Op(e)[1] = "import"
  /\ IF taken[e][Op(e)[2]] \in Events THEN Did(e) /\ UNCHANGED ended ELSE Dies(e)
  /\ UNCHANGED <<setup, objs, halt, line, taken, extra, flight, harm>>
----------------------------------------------------------------------------
(* The loops *)

\* A further request, or the end of the loop: running() is false, a send was
\* stopped, or an exception was caught.
Requests(e) ==
  /\ Op(e)[1] = "requests"
  /\ \/ /\ extra < MaxReqs /\ ~Left(e)
        /\ extra' = extra + 1
        /\ line' = [line EXCEPT ![Far(e)] = Append(@, "req")]
        /\ UNCHANGED todo
     \/ Did(e) /\ UNCHANGED <<extra, line>>
  /\ UNCHANGED <<setup, objs, ended, halt, taken, flight, harm>>
\* The loop ends at the message "success" and at no other.
Serve(e) ==
  /\ Op(e)[1] = "serve" /\ line[e] # <<>>
  /\ line' = [line EXCEPT ![e] = Tail(@)]
  /\ \/ /\ Head(line[e]) = "req"
        /\ flight' = flight + 1
        /\ harm' = IF Unmapped(e) THEN harm \cup {"remote"} ELSE harm
        /\ UNCHANGED <<todo, ended>>
     \/ Head(line[e]) = "success" /\ Did(e) /\ UNCHANGED <<ended, flight, harm>>
     \/ Head(line[e]) \notin {"req", "success"} /\ Dies(e) /\ UNCHANGED <<flight, harm>>
  /\ UNCHANGED <<setup, objs, halt, taken, extra>>
Drain(e) ==
  /\ Op(e)[1] = "drain" /\ flight = 0 /\ Did(e)
  /\ UNCHANGED <<setup, objs, ended, halt, line, taken, extra, flight, harm>>
\* The event loops end together; an end whose peer is gone waits for ever.
Turns(e) ==
  /\ Op(e)[1] = "turns" /\ ended[Far(e)] # "died"
  /\ Op(Far(e))[1] = "turns" \/ <<"turns", "">> \notin ToSet(todo[Far(e)])
  /\ Did(e)
  /\ UNCHANGED <<setup, objs, ended, halt, line, taken, extra, flight, harm>>
DmaDone ==
  /\ flight > 0 /\ flight' = flight - 1
  /\ UNCHANGED <<setup, todo, objs, ended, halt, line, taken, extra, harm>>
----------------------------------------------------------------------------
(* The stop thread, and the end *)

stop_recv_and_send(e) ==
  /\ (objs[e] # {} \/ Op(e)[1] # "new") /\ ended[e] # "died" /\ ~halt[e]
  /\ halt' = [halt EXCEPT ![e] = TRUE]
  /\ harm' = IF "ep" \in objs[e] THEN harm ELSE harm \cup {"ep"}
  /\ UNCHANGED <<setup, todo, objs, ended, line, taken, extra, flight>>
JoinStop(e) ==
  /\ Op(e)[1] = "join" /\ halt[e] /\ Did(e)
  /\ UNCHANGED <<setup, objs, ended, halt, line, taken, extra, flight, harm>>
Returned(e) ==
  /\ ended[e] = "no" /\ todo[e] = <<>>
  /\ ended' = [ended EXCEPT ![e] = "yes"]
  /\ UNCHANGED <<setup, todo, objs, halt, line, taken, extra, flight, harm>>

CEnd(e) ==
  \/ NewObject(e) \/ DeleteObj(e) \/ ep_sendto(e) \/ ep_recvfrom(e) \/ RecvHalted(e) \/ RecvLost(e)
  \/ new_from_exported_dpu(e) \/ Requests(e) \/ Serve(e) \/ Drain(e) \/ Turns(e)
  \/ JoinStop(e) \/ Returned(e)
CNext ==
  \/ \E e \in CEnds : CEnd(e) \/ stop_recv_and_send(e)
  \/ start_listen \/ ep_connect \/ DmaDone
----------------------------------------------------------------------------
(* Properties *)

Complementary == setup.sender["client"] # setup.sender["server"]
Dead == {e \in CEnds : ended[e] = "died"}

\* The handshakes fit together: with one sender and one receiver, ends die (the
\* assertions on the peer's answer, channel_bench.cpp lines 79, 188, 213, 226 and
\* 259 included) only after TIME_OUT stopped an endpoint, or when the stack
\* behind an unterminated ping or pong makes the comparison fail.  The two sync
\* events of the SYNC build are crossed over, what one side publishes the other
\* subscribes to, even when receptions were stopped; and with roles that do not
\* fit neither side ever serves or issues requests.
HandshakesFit ==
  /\ Dead # {} => ~Complementary \/ (\E e \in CEnds : halt[e] \/ setup.tail[e])
  /\ \A e \in CEnds : \A v \in {"publish", "sub"} : taken[e][v] \in Events => taken[e][v] # v
  /\ ~Complementary => flight = 0 /\ extra = 0

\* The objects of a channel outlive their use, whichever order the two ends take.
\* The thread that stops the endpoint is joined before the endpoint is deleted.
\* Exported memory and the client's sync event wait for the peer: send_dma_reqs
\* returns, and the buffer is freed, only after the importer drained its DMAs
\* and event updates; no late request reaches memory that is gone unless the
\* exporter's process died.
ObjectsOutlive ==
  /\ harm \cap {"memory", "event", "ep"} = {}
  /\ "remote" \in harm => Dead # {}

\* Both ends come to an end, though the importer's loop tests neither running()
\* nor the stop flag; only an event loop whose peer died turns on.
ChannelEnds == <>(\A e \in CEnds : ended[e] # "no" \/ (Op(e)[1] = "turns" /\ ended[Far(e)] = "died"))
=============================================================================
