----------------------------- MODULE ChannelRtt -----------------------------
(***************************************************************************)
(* The RTT mode of channel_bench.  The sender keeps a batch of requests on *)
(* the channel, each timed by the timer of its slot, and the receiver      *)
(* answers them.  A request and its answer are modelled by its number; the *)
(* code's messages carry none and rely on the channel's order.             *)
(***************************************************************************)
EXTENDS Integers, Sequences

CONSTANTS Batch,       \* config->batch_size, at most MAX_QUEUE_SIZE
          MaxMsgs,     \* bound: answers the sender takes in one behaviour
          EarlyStop    \* TRUE when life_time may outlast TIME_OUT

ASSUME BatchAssumption == Batch \in Nat \ {0}
ASSUME MaxMsgsAssumption == MaxMsgs \in Nat
ASSUME EarlyStopAssumption == EarlyStop \in BOOLEAN

Ends == {"sender", "receiver"}
Other(e) == IF e = "sender" THEN "receiver" ELSE "sender"
ChannelSize == Batch   \* the tightest that line 9 of channel_bench.cpp allows

VARIABLES
  running,          \* the bench_runner of each process
  stop_flag,        \* of each endpoint
  pc,
  chan,             \* the messages on their way to each end
  sent,             \* requests of the first batch sent so far
  now_msg_index,
  timer,            \* the request that each slot's timer was started for
  hand              \* the request the receiver is answering

vars == <<running, stop_flag, pc, chan, sent, now_msg_index, timer, hand>>

Init ==
  /\ running = [e \in Ends |-> TRUE]
  /\ stop_flag = [e \in Ends |-> FALSE]
  /\ pc = [e \in Ends |-> IF e = "sender" THEN "fill" ELSE "loop"]
  /\ chan = [e \in Ends |-> <<>>]
  /\ sent = 0 /\ now_msg_index = 0
  /\ timer = [i \in 0..(Batch - 1) |-> 0]
  /\ hand = 0

Slot(i) == i % Batch

Goto(e, l) == pc' = [pc EXCEPT ![e] = l]

\* ep_sendto(): its result is ignored, so a stopped endpoint with a full
\* queue loses the message.
SendTo(e, m) ==
  /\ Len(chan[e]) < ChannelSize \/ stop_flag[Other(e)]
  /\ chan' = IF Len(chan[e]) < ChannelSize THEN [chan EXCEPT ![e] = Append(@, m)] ELSE chan

\* One request of the first batch.
Fill ==
  /\ pc["sender"] = "fill"
  /\ timer' = [timer EXCEPT ![Slot(sent)] = sent]
  /\ SendTo("receiver", sent)
  /\ sent' = sent + 1
  /\ Goto("sender", IF sent + 1 = Batch THEN "loop" ELSE "fill")
  /\ UNCHANGED <<running, stop_flag, now_msg_index, hand>>

\* while (runner->running())
Loop(e) ==
  /\ pc[e] = "loop"
  /\ \/ running[e] /\ now_msg_index < MaxMsgs /\ Goto(e, "recv")
     \/ ~running[e] /\ Goto(e, "done")
  /\ UNCHANGED <<running, stop_flag, chan, sent, now_msg_index, timer, hand>>

\* The receiver takes a request.
TakeRequest ==
  /\ pc["receiver"] = "recv" /\ chan["receiver"] # <<>>
  /\ hand' = Head(chan["receiver"])
  /\ chan' = [chan EXCEPT !["receiver"] = Tail(@)]
  /\ Goto("receiver", "send")
  /\ UNCHANGED <<running, stop_flag, sent, now_msg_index, timer>>

Answer ==
  /\ pc["receiver"] = "send"
  /\ SendTo("sender", hand)
  /\ Goto("receiver", "loop")
  /\ UNCHANGED <<running, stop_flag, sent, now_msg_index, timer, hand>>

\* The sender takes an answer and stops the timer of the slot.
TakeAnswer ==
  /\ pc["sender"] = "recv" /\ chan["sender"] # <<>>
  /\ chan' = [chan EXCEPT !["sender"] = Tail(@)]
  /\ Goto("sender", "send")
  /\ UNCHANGED <<running, stop_flag, sent, now_msg_index, timer, hand>>

BugRequest ==
  /\ pc["sender"] = "send"
  /\ timer' = [timer EXCEPT ![Slot(now_msg_index + 1)] = now_msg_index + Batch]
  /\ SendTo("receiver", now_msg_index + Batch)
  /\ now_msg_index' = now_msg_index + 1
  /\ Goto("sender", "loop")
  /\ UNCHANGED <<running, stop_flag, sent, hand>>
\* The slot's timer is started again for the next request.
Request ==
  /\ pc["sender"] = "send"
  /\ timer' = [timer EXCEPT ![Slot(now_msg_index)] = now_msg_index + Batch]
  /\ SendTo("receiver", now_msg_index + Batch)
  /\ now_msg_index' = now_msg_index + 1
  /\ Goto("sender", "loop")
  /\ UNCHANGED <<running, stop_flag, sent, hand>>

\* ep_recvfrom() returned false with nothing received: the message size is
\* still MAX_MSG_SIZE and the rt_assert on it fails.
RecvStopped(e) ==
  /\ pc[e] = "recv" /\ chan[e] = <<>> /\ stop_flag[e]
  /\ Goto(e, "failed")
  /\ UNCHANGED <<running, stop_flag, chan, sent, now_msg_index, timer, hand>>

\* The endpoint is deleted once its stop thread has ended, and with a process
\* that aborts.
Gone(e) == pc[e] \in {"failed", "thrown"} \/ (pc[e] = "done" /\ stop_flag[e])

\* The channel reports an error when the peer's endpoint is gone: the loops
\* catch the DOCAException and leave, the sending of the first batch does not.
PeerLost(e) ==
  /\ pc[e] \in {"fill", "recv", "send"} /\ Gone(Other(e))
  /\ Goto(e, IF pc[e] = "fill" THEN "thrown" ELSE "done")
  /\ UNCHANGED <<running, stop_flag, chan, sent, now_msg_index, timer, hand>>

\* life_time has passed in one process: runner.stop()
StopRunner(e) ==
  /\ running[e]
  /\ running' = [running EXCEPT ![e] = FALSE]
  /\ UNCHANGED <<stop_flag, pc, chan, sent, now_msg_index, timer, hand>>

\* TIME_OUT has passed in one process: stop_recv_and_send()
StopEndpoint(e) ==
  /\ ~stop_flag[e] /\ (EarlyStop \/ ~running[e])
  /\ stop_flag' = [stop_flag EXCEPT ![e] = TRUE]
  /\ UNCHANGED <<running, pc, chan, sent, now_msg_index, timer, hand>>

Sender ==
  \/ Fill \/ Loop("sender") \/ TakeAnswer \/ Request
  \/ RecvStopped("sender") \/ PeerLost("sender")

Receiver ==
  \/ Loop("receiver") \/ TakeRequest \/ Answer
  \/ RecvStopped("receiver") \/ PeerLost("receiver")

Next ==
  \/ Sender \/ Receiver
  \/ \E e \in Ends : StopRunner(e) \/ StopEndpoint(e)

Spec == Init /\ [][Next]_vars

----------------------------------------------------------------------------
(* Properties *)

\* The latency of handle_rtt_sender is the latency of one message: the answer
\* the sender takes next is to the request its slot's timer was started for,
\* although up to a batch of them are under way and the messages carry no
\* number.
TimerMatches ==
  pc["sender"] = "recv" /\ chan["sender"] # <<>> =>
    Head(chan["sender"]) = timer[Slot(now_msg_index)]

\* "[sender] Invalid message size" and "[receiver] Invalid message size" are
\* never raised: an end leaves its loop without a failed assertion.
SizesValid == \A e \in Ends : pc[e] # "failed"
=============================================================================
