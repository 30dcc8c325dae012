----------------------------- MODULE ChannelDma -----------------------------
(***************************************************************************)
(* The DMA mode of channel_bench.  The sender puts descriptors on a comm   *)
(* channel; the receiver turns each into a DMA job and, for each finished  *)
(* job, adds one to a sync event that the sender reads back as credit.     *)
(* The receiver takes the completions of its event updates only when a     *)
(* further descriptor arrives, one for one.                                *)
(*                                                                         *)
(* A channel is FIFO and "success" is the last message of a direction, so  *)
(* the channel is a number of descriptors and a flag.  size_t counters are *)
(* integers here; NoUnderflow says that none of them would have wrapped.   *)
(***************************************************************************)
EXTENDS Integers

CONSTANTS Batch,       \* config->batch_size, also the depth of se_workq
          ChannelSize, \* messages a channel holds
          DmaDepth,    \* MAX_QUEUE_SIZE, the depth of the DMA work queue
          MaxSend,     \* bound: descriptors of one behaviour
          EarlyStop    \* TRUE when life_time may outlast TIME_OUT

ASSUME BatchAssumption == Batch \in Nat \ {0}
ASSUME ChannelSizeAssumption == ChannelSize \in Nat \ {0}
ASSUME DmaDepthAssumption == DmaDepth \in Nat \ {0}
ASSUME MaxSendAssumption == MaxSend \in Nat
ASSUME EarlyStopAssumption == EarlyStop \in BOOLEAN

VARIABLES
  running,                           \* the sender's bench_runner
  stop_s, stop_r,                    \* stop_flag of the two endpoints
  s_pc, send_num, need, wait_index, inflight,        \* send_dma_reqs
  descs, success,                    \* channel to the receiver
  reply,                             \* channel to the sender
  r_pc, got, r_inflight, se_workq_num,               \* receive_dma_reqs
  dma_busy, dma_done,                \* the receiver's DMA work queue
  se_queued, se_done, se_value       \* its event work queue, and the event

sndVars == <<s_pc, send_num, need, wait_index, inflight>>
rcvVars == <<r_pc, got, r_inflight, se_workq_num>>
engVars == <<dma_busy, dma_done, se_queued, se_done, se_value>>
chVars == <<descs, success, reply>>
envVars == <<running, stop_s, stop_r>>
vars == <<envVars, sndVars, chVars, rcvVars, engVars>>

Init ==
  /\ running = TRUE /\ stop_s = FALSE /\ stop_r = FALSE
  /\ s_pc = "fill" /\ send_num = 0 /\ need = 0 /\ wait_index = 0 /\ inflight = 0
  /\ descs = 0 /\ success = FALSE /\ reply = FALSE
  /\ r_pc = "fill" /\ got = 0 /\ r_inflight = 0 /\ se_workq_num = 0
  /\ dma_busy = 0 /\ dma_done = 0
  /\ se_queued = 0 /\ se_done = 0 /\ se_value = 0

\* doca_comm_channel_ep_sendto would not answer DOCA_ERROR_AGAIN
Room == descs < ChannelSize /\ ~success

\* workq->submit(&dma_job).  Its result is not looked at: a full queue
\* drops the job.
SubmitDma == dma_busy' = IF dma_busy + dma_done < DmaDepth THEN dma_busy + 1 ELSE dma_busy
----------------------------------------------------------------------------
(* send_dma_reqs *)

\* One descriptor of the first batch.  What ep_sendto returns is not looked
\* at: a stopped endpoint with a full queue drops the descriptor.
FillSend ==
  /\ s_pc = "fill"
  /\ \/ Room /\ descs' = descs + 1
     \/ ~Room /\ stop_s /\ UNCHANGED descs
  /\ send_num' = send_num + 1
  /\ IF send_num + 1 = Batch
     THEN s_pc' = "loop" /\ inflight' = Batch
     ELSE UNCHANGED <<s_pc, inflight>>
  /\ UNCHANGED <<envVars, need, wait_index, success, reply, rcvVars, engVars>>

BugCredit(v) == v + Batch - send_num + 1
\* need_to_send, from the value v read from the event
Credit(v) == v + Batch - send_num

\* sync_event_job_submit_sync(&se_get_job), and the credit it gives.
ReadEvent ==
  /\ s_pc = "loop" /\ running
  /\ send_num < MaxSend
  /\ wait_index' = se_value
  /\ need' = Credit(se_value)
  /\ inflight' = inflight - Credit(se_value)
  /\ s_pc' = IF Credit(se_value) = 0 THEN "loop" ELSE "send"
  /\ UNCHANGED <<envVars, send_num, chVars, rcvVars, engVars>>

SendOne ==
  /\ s_pc = "send" /\ Room
  /\ descs' = descs + 1
  /\ inflight' = inflight + 1
  /\ send_num' = send_num + 1
  /\ need' = need - 1
  /\ s_pc' = IF need = 1 THEN "loop" ELSE "send"
  /\ UNCHANGED <<envVars, wait_index, success, reply, rcvVars, engVars>>

\* ep_sendto returned false: goto end_send
SendStopped ==
  /\ s_pc = "send" /\ ~Room /\ stop_s
  /\ s_pc' = "end"
  /\ UNCHANGED <<envVars, send_num, need, wait_index, inflight, chVars, rcvVars, engVars>>

LeaveLoop ==
  /\ s_pc = "loop" /\ ~running
  /\ s_pc' = "end"
  /\ UNCHANGED <<envVars, send_num, need, wait_index, inflight, chVars, rcvVars, engVars>>

SendSuccess ==
  /\ s_pc = "end"
  /\ \/ Room /\ success' = TRUE
     \/ ~Room /\ stop_s /\ UNCHANGED success
  /\ s_pc' = "ack"
  /\ UNCHANGED <<envVars, send_num, need, wait_index, inflight, descs, reply, rcvVars, engVars>>

\* The reply, or nothing because the endpoint was stopped: the rt_assert on
\* the content of tmp_msg fails.
GetReply ==
  /\ s_pc = "ack"
  /\ \/ reply /\ s_pc' = "done"
     \/ ~reply /\ stop_s /\ s_pc' = "failed"
  /\ UNCHANGED <<envVars, send_num, need, wait_index, inflight, chVars, rcvVars, engVars>>

\* The receiver's process is gone: the channel reports an error, and the
\* DOCAException is caught only in the loop.
SenderLosesPeer ==
  /\ r_pc \in {"failed", "thrown"}
  /\ s_pc \in {"fill", "send", "end", "ack"}
  /\ s_pc' = IF s_pc = "send" THEN "end" ELSE "thrown"
  /\ UNCHANGED <<envVars, send_num, need, wait_index, inflight, chVars, rcvVars, engVars>>
----------------------------------------------------------------------------
(* receive_dma_reqs *)

\* One descriptor of the first batch, or the rt_assert on its length fails:
\* the endpoint was stopped, or "success" came instead.
FillReceive ==
  /\ r_pc = "fill" /\ descs > 0
  /\ descs' = descs - 1
  /\ SubmitDma
  /\ got' = got + 1
  /\ IF got + 1 = Batch
     THEN r_pc' = "poll" /\ r_inflight' = Batch
     ELSE UNCHANGED <<r_pc, r_inflight>>
  /\ UNCHANGED <<envVars, sndVars, success, reply, se_workq_num, dma_done,
                 se_queued, se_done, se_value>>

FillFails ==
  /\ r_pc = "fill" /\ descs = 0 /\ (success \/ stop_r)
  /\ r_pc' = "failed"
  /\ UNCHANGED <<envVars, sndVars, chVars, got, r_inflight, se_workq_num, engVars>>

\* A finished DMA job becomes an event update; with se_workq full the
\* submission fails and the exception leaves the function.
PollDma ==
  /\ r_pc = "poll"
  /\ IF dma_done = 0
     THEN r_pc' = "recv" /\ UNCHANGED <<r_inflight, se_workq_num, dma_done, se_queued>>
     ELSE /\ dma_done' = dma_done - 1
          /\ r_inflight' = r_inflight - 1
          /\ IF se_queued + se_done < Batch
             THEN /\ se_queued' = se_queued + 1
                  /\ se_workq_num' = se_workq_num + 1
                  /\ r_pc' = "recv"
             ELSE r_pc' = "thrown" /\ UNCHANGED <<se_queued, se_workq_num>>
  /\ UNCHANGED <<envVars, sndVars, chVars, got, dma_busy, se_done, se_value>>

BugReceive ==
  /\ r_pc = "recv"
  /\ IF descs > 0
     THEN /\ descs' = descs - 1
          /\ SubmitDma
          /\ r_inflight' = r_inflight + 1
          /\ r_pc' = "poll"
     ELSE /\ r_pc' = IF success THEN "drain" ELSE "poll"
          /\ UNCHANGED <<descs, dma_busy, r_inflight>>
  /\ UNCHANGED <<envVars, sndVars, success, reply, got, se_workq_num, dma_done,
                 se_queued, se_done, se_value>>
\* ep_recvfrom_async
Receive ==
  /\ r_pc = "recv"
  /\ IF descs > 0
     THEN /\ descs' = descs - 1
          /\ SubmitDma
          /\ r_inflight' = r_inflight + 1
          /\ r_pc' = "wait"
     ELSE /\ r_pc' = IF success THEN "drain" ELSE "poll"
          /\ UNCHANGED <<descs, dma_busy, r_inflight>>
  /\ UNCHANGED <<envVars, sndVars, success, reply, got, se_workq_num, dma_done,
                 se_queued, se_done, se_value>>

BugWaitEvent ==
  /\ r_pc = "wait" /\ se_done > 0
  /\ se_done' = 0
  /\ se_workq_num' = se_workq_num - 1
  /\ r_pc' = "poll"
  /\ UNCHANGED <<envVars, sndVars, chVars, got, r_inflight, dma_busy, dma_done,
                 se_queued, se_value>>
\* The loop that polls se_workq until an update has completed.
WaitEvent ==
  /\ r_pc = "wait" /\ se_done > 0
  /\ se_done' = se_done - 1
  /\ se_workq_num' = se_workq_num - 1
  /\ r_pc' = "poll"
  /\ UNCHANGED <<envVars, sndVars, chVars, got, r_inflight, dma_busy, dma_done,
                 se_queued, se_value>>

BugDrainDma ==
  /\ r_pc = "drain"
  /\ IF r_inflight = 0
     THEN r_pc' = "drain_se" /\ UNCHANGED <<dma_done, r_inflight>>
     ELSE /\ dma_done > 0
          /\ dma_done' = dma_done - 1
          /\ UNCHANGED <<r_pc, r_inflight>>
  /\ UNCHANGED <<envVars, sndVars, chVars, got, se_workq_num, dma_busy, se_queued,
                 se_done, se_value>>
DrainDma ==
  /\ r_pc = "drain"
  /\ IF r_inflight = 0
     THEN r_pc' = "drain_se" /\ UNCHANGED <<dma_done, r_inflight>>
     ELSE /\ dma_done > 0
          /\ dma_done' = dma_done - 1
          /\ r_inflight' = r_inflight - 1
          /\ UNCHANGED r_pc
  /\ UNCHANGED <<envVars, sndVars, chVars, got, se_workq_num, dma_busy, se_queued,
                 se_done, se_value>>

DrainEvents ==
  /\ r_pc = "drain_se"
  /\ IF se_workq_num = 0
     THEN r_pc' = "end" /\ UNCHANGED <<se_done, se_workq_num>>
     ELSE /\ se_done > 0
          /\ se_done' = se_done - 1
          /\ se_workq_num' = se_workq_num - 1
          /\ UNCHANGED r_pc
  /\ UNCHANGED <<envVars, sndVars, chVars, got, r_inflight, dma_busy, dma_done,
                 se_queued, se_value>>

SendReply ==
  /\ r_pc = "end"
  /\ reply' = TRUE
  /\ r_pc' = "done"
  /\ UNCHANGED <<envVars, sndVars, descs, success, got, r_inflight, se_workq_num, engVars>>

\* The sender's process is gone: nothing catches the exception.
ReceiverLosesPeer ==
  /\ s_pc \in {"failed", "thrown"}
  /\ r_pc \in {"fill", "recv"}
  /\ r_pc' = IF r_pc = "fill" THEN "failed" ELSE "thrown"
  /\ UNCHANGED <<envVars, sndVars, chVars, got, r_inflight, se_workq_num, engVars>>
----------------------------------------------------------------------------
(* The DMA and event engines, and the clocks of the two processes *)

DmaComplete ==
  /\ dma_busy > 0
  /\ dma_busy' = dma_busy - 1
  /\ dma_done' = dma_done + 1
  /\ UNCHANGED <<envVars, sndVars, chVars, rcvVars, se_queued, se_done, se_value>>

EventAdd ==
  /\ se_queued > 0
  /\ se_queued' = se_queued - 1
  /\ se_done' = se_done + 1
  /\ se_value' = se_value + 1
  /\ UNCHANGED <<envVars, sndVars, chVars, rcvVars, dma_busy, dma_done>>

\* life_time has passed: runner.stop()
StopRunner ==
  /\ running
  /\ running' = FALSE
  /\ UNCHANGED <<stop_s, stop_r, sndVars, chVars, rcvVars, engVars>>

\* TIME_OUT has passed: stop_recv_and_send()
StopSender ==
  /\ ~stop_s /\ (EarlyStop \/ s_pc = "done")
  /\ stop_s' = TRUE
  /\ UNCHANGED <<running, stop_r, sndVars, chVars, rcvVars, engVars>>

StopReceiver ==
  /\ ~stop_r /\ (EarlyStop \/ r_pc = "done")
  /\ stop_r' = TRUE
  /\ UNCHANGED <<running, stop_s, sndVars, chVars, rcvVars, engVars>>
----------------------------------------------------------------------------
Sender ==
  \/ FillSend \/ ReadEvent \/ SendOne \/ SendStopped \/ LeaveLoop
  \/ SendSuccess \/ GetReply \/ SenderLosesPeer

Receiver ==
  \/ FillReceive \/ FillFails \/ PollDma \/ Receive \/ WaitEvent
  \/ DrainDma \/ DrainEvents \/ SendReply \/ ReceiverLosesPeer

Next ==
  \/ Sender \/ Receiver
  \/ DmaComplete \/ EventAdd
  \/ StopRunner \/ StopSender \/ StopReceiver

Spec == Init /\ [][Next]_vars

\* Both threads run, the engines finish what they are given, and the
\* benchmark's life time passes.
Fairness ==
  /\ WF_vars(Sender) /\ WF_vars(Receiver)
  /\ WF_vars(DmaComplete) /\ WF_vars(EventAdd)
  /\ WF_vars(StopRunner)

FairSpec == Spec /\ Fairness
----------------------------------------------------------------------------
(* Properties *)

\* Every variable has its type; the counters are only integers here.
TypeOK ==
  /\ running \in BOOLEAN /\ stop_s \in BOOLEAN /\ stop_r \in BOOLEAN
  /\ s_pc \in {"fill", "loop", "send", "end", "ack", "done", "failed", "thrown"}
  /\ send_num \in Nat /\ need \in Int /\ wait_index \in Nat /\ inflight \in Int
  /\ descs \in 0..ChannelSize /\ success \in BOOLEAN /\ reply \in BOOLEAN
  /\ r_pc \in {"fill", "poll", "recv", "wait", "drain", "drain_se", "end", "done",
              "failed", "thrown"}
  /\ got \in 0..Batch /\ r_inflight \in Int /\ se_workq_num \in Int
  /\ dma_busy \in Nat /\ dma_done \in Nat
  /\ se_queued \in Nat /\ se_done \in Nat /\ se_value \in Nat

\* need_to_send and the inflight and queue counters of both ends are size_t:
\* none of them is ever decremented below zero, whatever the two ends and the
\* engines do in between.
NoUnderflow == need >= 0 /\ inflight >= 0 /\ r_inflight >= 0 /\ se_workq_num >= 0

\* The receiver's event queue has room for every update it submits, although
\* completions are taken only when descriptors arrive: the exception of
\* sync_event_job_submit_async is never thrown.  The DMA queue never holds
\* more than a batch either.
QueuesBounded ==
  /\ se_queued + se_done <= Batch
  /\ dma_busy + dma_done <= Batch
  /\ r_pc = "poll" /\ dma_done > 0 => se_queued + se_done < Batch

\* The loop at the bottom of the receive path, which polls the event queue
\* with no way out, always has an update to wait for.
WaitEnds == r_pc = "wait" => se_queued + se_done > 0

\* When the receiver leaves and its queues and buffers are deleted, nothing
\* is left in either engine or in the channel.
QuietAtEnd ==
  r_pc \in {"end", "done"} =>
    descs = 0 /\ dma_busy + dma_done = 0 /\ se_queued + se_done = 0

\* When life_time is over both ends come to their regular end, unless an
\* endpoint is stopped before that or the DMA queue was too short for a batch.
BothEnd ==
  Batch <= DmaDepth =>
    <>(\/ s_pc = "done" /\ r_pc = "done"
       \/ stop_s /\ s_pc # "done"
       \/ stop_r /\ r_pc # "done")

\* The event value gives the sender a window of one batch.
Credits == INSTANCE CreditWindow WITH Window <- Batch, outstanding <- send_num - se_value

\* Every behaviour of send_dma_reqs and receive_dma_reqs is one of a window
\* of a batch: the sender never has more requests out than that, and the
\* event never counts a request that was not sent.
ImplementsWindow == Credits!Spec
=============================================================================
