---------------------------- MODULE Doca_proofs ----------------------------
(***************************************************************************)
(* Benchmarks on DOCA queues.  ChannelDma: for every batch size, channel size*)
(* and queue depth, with the endpoints stopped at any moment.  The heart of*)
(* it is a conservation law: while the receiver is in its loop, the jobs in*)
(* flight and the event updates not yet taken back make up exactly one batch.*)
(* SyncEvents: for every number of rounds.  The two ends are compared by what*)
(* they have published in full; an event is at most three above that, which*)
(* is why its intermediate values start nobody.  EcDecode: for any number of*)
(* threads, blocks and shards, a job gets the inputs of its own recipe.    *)
(***************************************************************************)
EXTENDS ChannelDma, SyncEvents, EcDecode, TLAPS

----------------------------------------------------------------------------
(* Ring indices: a counter taken modulo a ring size *)

\* Division with remainder.
LEMMA DivModExists ==
  ASSUME NEW n \in Nat \ {0}, NEW a \in Int
  PROVE  /\ a = n * (a \div n) + (a % n)
         /\ a \div n \in Int
         /\ a % n \in 0..(n - 1)
  OBVIOUS

\* A window no longer than the ring never maps two counters to one slot.
LEMMA ModDistinct ==
  ASSUME NEW n \in Nat \ {0}, NEW a \in Int, NEW b \in Int, a < b, b < a + n
  PROVE  a % n # b % n
<1> SUFFICES ASSUME a % n = b % n PROVE FALSE
  BY Zenon
<1> DEFINE p == a \div n
           q == b \div n
           r == a % n
<1>1. a = n * p + r /\ b = n * q + r /\ p \in Int /\ q \in Int /\ r \in 0..(n - 1)
  BY Zenon, DivModExists
<1> HIDE DEF p, q, r
<1>2. b - a = n * (q - p) /\ 0 < b - a /\ b - a < n
  BY <1>1
<1>3. CASE q - p <= 0
  BY <1>1, <1>2, <1>3
<1>4. CASE q - p >= 1
  BY <1>1, <1>2, <1>4
<1>5. QED
  BY <1>1, <1>3, <1>4

----------------------------------------------------------------------------
Looping == r_pc \in {"poll", "recv", "wait"}
Leaving == r_pc \in {"drain", "drain_se", "end", "done"}
Starting == r_pc \in {"fill", "failed"}
Waiting == IF r_pc = "wait" THEN 1 ELSE 0

\* The sender's books: what it may still send and what it has sent add up
\* to the credit it last read.
SenderInv ==
  /\ wait_index <= se_value
  /\ s_pc = "fill" => send_num < Batch /\ need = 0 /\ inflight = 0 /\ wait_index = 0
  /\ s_pc \notin {"fill", "thrown"} => send_num + need = wait_index + Batch /\ inflight + need = Batch
  /\ send_num + need <= wait_index + Batch
  /\ s_pc = "loop" => need = 0
  /\ s_pc = "send" => need > 0
  /\ need >= 0 /\ inflight >= 0
  /\ success => s_pc \in {"ack", "done", "failed", "thrown"}

\* The receiver's books before, in and after its loop.
ReceiverInv ==
  /\ Starting => /\ se_queued = 0 /\ se_done = 0 /\ se_value = 0
                 /\ r_inflight = 0 /\ dma_busy + dma_done <= got
                 /\ descs + got <= send_num
  /\ r_pc = "fill" => got < Batch
  /\ ~Starting => dma_busy + dma_done <= r_inflight
  /\ Looping => /\ r_inflight + se_workq_num = Batch + Waiting
                /\ descs + Batch + se_value + Waiting <= send_num + se_done
  /\ r_pc = "wait" => r_inflight >= 1
  /\ Leaving => success /\ descs = 0
  /\ r_pc \in {"drain_se", "end", "done"} => r_inflight = 0
  /\ r_pc \in {"end", "done"} => se_workq_num = 0

\* Bounds that hold throughout.
QueueInv ==
  /\ se_workq_num = se_queued + se_done
  /\ se_workq_num <= Batch
  /\ r_inflight <= Batch
  /\ se_value + se_queued <= send_num

DmaInv == TypeOK /\ SenderInv /\ ReceiverInv /\ QueueInv
USE BatchAssumption, ChannelSizeAssumption, DmaDepthAssumption
----------------------------------------------------------------------------
(* The invariant is inductive: one lemma for the initial states, one step  *)
(* per action. *)

\* The state in which both ends enter their functions satisfies DmaInv.
LEMMA DmaInvInit == Init => DmaInv
  <1> SUFFICES ASSUME Init PROVE DmaInv
    BY Zenon
  <1>1. TypeOK
    <2>1. running \in BOOLEAN /\ stop_s \in BOOLEAN /\ stop_r \in BOOLEAN
      BY Zenon DEF Init
    <2>2. success \in BOOLEAN /\ reply \in BOOLEAN
      BY Zenon DEF Init
    <2>3. 0 \in 0..ChannelSize /\ 0 \in 0..Batch /\ 0 \in Nat /\ 0 \in Int
      OBVIOUS
    <2> QED  BY <2>1, <2>2, <2>3, Zenon DEF Init, TypeOK
  <1>2. SenderInv
    BY DEF Init, SenderInv
  <1>3. ReceiverInv
    BY DEF Init, ReceiverInv, Looping, Leaving, Starting
  <1>4. QueueInv
    BY DEF Init, QueueInv
  <1> QED  BY Zenon, <1>1, <1>2, <1>3, <1>4 DEF DmaInv

\* Every step of send_dma_reqs, of receive_dma_reqs, of the engines and of
\* the clocks preserves DmaInv.
LEMMA DmaInvNext == DmaInv /\ [Next]_vars => DmaInv'
  <1> SUFFICES ASSUME DmaInv, [Next]_vars PROVE DmaInv'
    BY Zenon
  <1> USE DEF DmaInv
  <1>1. CASE FillSend
    <2>1. TypeOK'
      BY <1>1 DEF FillSend, Room, TypeOK, SenderInv, ReceiverInv, QueueInv, Starting, Looping, Waiting, vars, envVars, sndVars, chVars, rcvVars, engVars
    <2>2. SenderInv'
      BY <1>1 DEF FillSend, Room, TypeOK, SenderInv, ReceiverInv, QueueInv, Starting, Looping, Leaving, Waiting, vars, envVars, sndVars, chVars, rcvVars, engVars
    <2>3. ReceiverInv'
      BY <1>1 DEF FillSend, Room, TypeOK, SenderInv, ReceiverInv, QueueInv, Starting, Looping, Leaving, Waiting, vars, envVars, sndVars, chVars, rcvVars, engVars
    <2>4. QueueInv'
      BY SMTT(30), <1>1 DEF FillSend, Room, TypeOK, SenderInv, ReceiverInv, QueueInv, Starting, Looping, Leaving, Waiting, vars, envVars, sndVars, chVars, rcvVars, engVars
    <2> QED  BY Zenon, <2>1, <2>2, <2>3, <2>4
  <1>2. CASE ReadEvent
    <2>1. TypeOK'
      BY <1>2 DEF ReadEvent, Credit, TypeOK, SenderInv, ReceiverInv, QueueInv, Starting, Looping, Waiting, vars, envVars, sndVars, chVars, rcvVars, engVars
    <2>2. SenderInv'
      BY <1>2 DEF ReadEvent, Credit, TypeOK, SenderInv, ReceiverInv, QueueInv, Starting, Looping, Leaving, Waiting, vars, envVars, sndVars, chVars, rcvVars, engVars
    <2>3. ReceiverInv'
      BY Zenon, <1>2 DEF ReadEvent, Credit, TypeOK, SenderInv, ReceiverInv, QueueInv, Starting, Looping, Leaving, Waiting, vars, envVars, sndVars, chVars, rcvVars, engVars
    <2>4. QueueInv'
      BY Zenon, <1>2 DEF ReadEvent, Credit, TypeOK, SenderInv, ReceiverInv, QueueInv, Starting, Looping, Leaving, Waiting, vars, envVars, sndVars, chVars, rcvVars, engVars
    <2> QED  BY Zenon, <2>1, <2>2, <2>3, <2>4
  <1>3. CASE SendOne
    <2>1. TypeOK'
      BY <1>3 DEF SendOne, Room, TypeOK, SenderInv, ReceiverInv, QueueInv, Starting, Looping, Waiting, vars, envVars, sndVars, chVars, rcvVars, engVars
    <2>2. SenderInv'
      BY <1>3 DEF SendOne, Room, TypeOK, SenderInv, ReceiverInv, QueueInv, Starting, Looping, Leaving, Waiting, vars, envVars, sndVars, chVars, rcvVars, engVars
    <2>3. ReceiverInv'
      BY <1>3 DEF SendOne, Room, TypeOK, SenderInv, ReceiverInv, QueueInv, Starting, Looping, Leaving, Waiting, vars, envVars, sndVars, chVars, rcvVars, engVars
    <2>4. QueueInv'
      BY <1>3 DEF SendOne, Room, TypeOK, SenderInv, ReceiverInv, QueueInv, Starting, Looping, Leaving, Waiting, vars, envVars, sndVars, chVars, rcvVars, engVars
    <2> QED  BY Zenon, <2>1, <2>2, <2>3, <2>4
  <1>4. CASE SendStopped
    <2>1. TypeOK'
      BY Zenon, <1>4 DEF SendStopped, Room, TypeOK, SenderInv, ReceiverInv, QueueInv, Starting, Looping, Waiting, vars, envVars, sndVars, chVars, rcvVars, engVars
    <2>2. SenderInv'
      BY Zenon, <1>4 DEF SendStopped, Room, TypeOK, SenderInv, ReceiverInv, QueueInv, Starting, Looping, Leaving, Waiting, vars, envVars, sndVars, chVars, rcvVars, engVars
    <2>3. ReceiverInv'
      BY Zenon, <1>4 DEF SendStopped, Room, TypeOK, SenderInv, ReceiverInv, QueueInv, Starting, Looping, Leaving, Waiting, vars, envVars, sndVars, chVars, rcvVars, engVars
    <2>4. QueueInv'
      BY Zenon, <1>4 DEF SendStopped, Room, TypeOK, SenderInv, ReceiverInv, QueueInv, Starting, Looping, Leaving, Waiting, vars, envVars, sndVars, chVars, rcvVars, engVars
    <2> QED  BY Zenon, <2>1, <2>2, <2>3, <2>4
  <1>5. CASE LeaveLoop
    <2>1. TypeOK'
      BY Zenon, <1>5 DEF LeaveLoop, TypeOK, SenderInv, ReceiverInv, QueueInv, Starting, Looping, Waiting, vars, envVars, sndVars, chVars, rcvVars, engVars
    <2>2. SenderInv'
      BY Zenon, <1>5 DEF LeaveLoop, TypeOK, SenderInv, ReceiverInv, QueueInv, Starting, Looping, Leaving, Waiting, vars, envVars, sndVars, chVars, rcvVars, engVars
    <2>3. ReceiverInv'
      BY Zenon, <1>5 DEF LeaveLoop, TypeOK, SenderInv, ReceiverInv, QueueInv, Starting, Looping, Leaving, Waiting, vars, envVars, sndVars, chVars, rcvVars, engVars
    <2>4. QueueInv'
      BY Zenon, <1>5 DEF LeaveLoop, TypeOK, SenderInv, ReceiverInv, QueueInv, Starting, Looping, Leaving, Waiting, vars, envVars, sndVars, chVars, rcvVars, engVars
    <2> QED  BY Zenon, <2>1, <2>2, <2>3, <2>4
  <1>6. CASE SendSuccess
    <2>1. TypeOK'
      BY Zenon, <1>6 DEF SendSuccess, Room, TypeOK, SenderInv, ReceiverInv, QueueInv, Starting, Looping, Waiting, vars, envVars, sndVars, chVars, rcvVars, engVars
    <2>2. SenderInv'
      BY Zenon, <1>6 DEF SendSuccess, Room, TypeOK, SenderInv, ReceiverInv, QueueInv, Starting, Looping, Leaving, Waiting, vars, envVars, sndVars, chVars, rcvVars, engVars
    <2>3. ReceiverInv'
      BY Zenon, <1>6 DEF SendSuccess, Room, TypeOK, SenderInv, ReceiverInv, QueueInv, Starting, Looping, Leaving, Waiting, vars, envVars, sndVars, chVars, rcvVars, engVars
    <2>4. QueueInv'
      BY Zenon, <1>6 DEF SendSuccess, Room, TypeOK, SenderInv, ReceiverInv, QueueInv, Starting, Looping, Leaving, Waiting, vars, envVars, sndVars, chVars, rcvVars, engVars
    <2> QED  BY Zenon, <2>1, <2>2, <2>3, <2>4
  <1>7. CASE GetReply
    <2>1. TypeOK'
      BY ZenonT(30), <1>7 DEF GetReply, TypeOK, SenderInv, ReceiverInv, QueueInv, Starting, Looping, Waiting, vars, envVars, sndVars, chVars, rcvVars, engVars
    <2>2. SenderInv'
      BY Zenon, <1>7 DEF GetReply, TypeOK, SenderInv, ReceiverInv, QueueInv, Starting, Looping, Leaving, Waiting, vars, envVars, sndVars, chVars, rcvVars, engVars
    <2>3. ReceiverInv'
      BY Zenon, <1>7 DEF GetReply, TypeOK, SenderInv, ReceiverInv, QueueInv, Starting, Looping, Leaving, Waiting, vars, envVars, sndVars, chVars, rcvVars, engVars
    <2>4. QueueInv'
      BY Zenon, <1>7 DEF GetReply, TypeOK, SenderInv, ReceiverInv, QueueInv, Starting, Looping, Leaving, Waiting, vars, envVars, sndVars, chVars, rcvVars, engVars
    <2> QED  BY Zenon, <2>1, <2>2, <2>3, <2>4
  <1>8. CASE FillReceive
    <2>1. TypeOK'
      BY <1>8 DEF FillReceive, SubmitDma, TypeOK, SenderInv, ReceiverInv, QueueInv, Starting, Looping, Waiting, vars, envVars, sndVars, chVars, rcvVars, engVars
    <2>2. SenderInv'
      BY Zenon, <1>8 DEF FillReceive, SubmitDma, TypeOK, SenderInv, ReceiverInv, QueueInv, Starting, Looping, Leaving, Waiting, vars, envVars, sndVars, chVars, rcvVars, engVars
    <2>3. ReceiverInv'
      BY <1>8 DEF FillReceive, SubmitDma, TypeOK, SenderInv, ReceiverInv, QueueInv, Starting, Looping, Leaving, Waiting, vars, envVars, sndVars, chVars, rcvVars, engVars
    <2>4. QueueInv'
      BY <1>8 DEF FillReceive, SubmitDma, TypeOK, SenderInv, ReceiverInv, QueueInv, Starting, Looping, Leaving, Waiting, vars, envVars, sndVars, chVars, rcvVars, engVars
    <2> QED  BY Zenon, <2>1, <2>2, <2>3, <2>4
  <1>9. CASE FillFails
    <2>1. TypeOK'
      BY ZenonT(30), <1>9 DEF FillFails, TypeOK, SenderInv, ReceiverInv, QueueInv, Starting, Looping, Waiting, vars, envVars, sndVars, chVars, rcvVars, engVars
    <2>2. SenderInv'
      BY Zenon, <1>9 DEF FillFails, TypeOK, SenderInv, ReceiverInv, QueueInv, Starting, Looping, Leaving, Waiting, vars, envVars, sndVars, chVars, rcvVars, engVars
    <2>3. ReceiverInv'
      BY Zenon, <1>9 DEF FillFails, TypeOK, SenderInv, ReceiverInv, QueueInv, Starting, Looping, Leaving, Waiting, vars, envVars, sndVars, chVars, rcvVars, engVars
    <2>4. QueueInv'
      BY Zenon, <1>9 DEF FillFails, TypeOK, SenderInv, ReceiverInv, QueueInv, Starting, Looping, Leaving, Waiting, vars, envVars, sndVars, chVars, rcvVars, engVars
    <2> QED  BY Zenon, <2>1, <2>2, <2>3, <2>4
  <1>10. CASE PollDma
    <2>1. TypeOK'
      BY <1>10 DEF PollDma, TypeOK, SenderInv, ReceiverInv, QueueInv, Starting, Looping, Waiting, vars, envVars, sndVars, chVars, rcvVars, engVars
    <2>2. SenderInv'
      BY Zenon, <1>10 DEF PollDma, TypeOK, SenderInv, ReceiverInv, QueueInv, Starting, Looping, Leaving, Waiting, vars, envVars, sndVars, chVars, rcvVars, engVars
    <2>3. ReceiverInv'
      BY <1>10 DEF PollDma, TypeOK, SenderInv, ReceiverInv, QueueInv, Starting, Looping, Leaving, Waiting, vars, envVars, sndVars, chVars, rcvVars, engVars
    <2>4. QueueInv'
      BY SMTT(30), <1>10 DEF PollDma, TypeOK, SenderInv, ReceiverInv, QueueInv, Starting, Looping, Leaving, Waiting, vars, envVars, sndVars, chVars, rcvVars, engVars
    <2> QED  BY Zenon, <2>1, <2>2, <2>3, <2>4
  <1>11. CASE Receive
    <2>1. TypeOK'
      BY <1>11 DEF Receive, SubmitDma, TypeOK, SenderInv, ReceiverInv, QueueInv, Starting, Looping, Waiting, vars, envVars, sndVars, chVars, rcvVars, engVars
    <2>2. SenderInv'
      BY Zenon, <1>11 DEF Receive, SubmitDma, TypeOK, SenderInv, ReceiverInv, QueueInv, Starting, Looping, Leaving, Waiting, vars, envVars, sndVars, chVars, rcvVars, engVars
    <2>3. ReceiverInv'
      BY <1>11 DEF Receive, SubmitDma, TypeOK, SenderInv, ReceiverInv, QueueInv, Starting, Looping, Leaving, Waiting, vars, envVars, sndVars, chVars, rcvVars, engVars
    <2>4. QueueInv'
      BY <1>11 DEF Receive, SubmitDma, TypeOK, SenderInv, ReceiverInv, QueueInv, Starting, Looping, Leaving, Waiting, vars, envVars, sndVars, chVars, rcvVars, engVars
    <2> QED  BY Zenon, <2>1, <2>2, <2>3, <2>4
  <1>12. CASE WaitEvent
    <2>1. TypeOK'
      BY <1>12 DEF WaitEvent, TypeOK, SenderInv, ReceiverInv, QueueInv, Starting, Looping, Waiting, vars, envVars, sndVars, chVars, rcvVars, engVars
    <2>2. SenderInv'
      BY Zenon, <1>12 DEF WaitEvent, TypeOK, SenderInv, ReceiverInv, QueueInv, Starting, Looping, Leaving, Waiting, vars, envVars, sndVars, chVars, rcvVars, engVars
    <2>3. ReceiverInv'
      BY <1>12 DEF WaitEvent, TypeOK, SenderInv, ReceiverInv, QueueInv, Starting, Looping, Leaving, Waiting, vars, envVars, sndVars, chVars, rcvVars, engVars
    <2>4. QueueInv'
      BY SMTT(30), <1>12 DEF WaitEvent, TypeOK, SenderInv, ReceiverInv, QueueInv, Starting, Looping, Leaving, Waiting, vars, envVars, sndVars, chVars, rcvVars, engVars
    <2> QED  BY Zenon, <2>1, <2>2, <2>3, <2>4
  <1>13. CASE DrainDma
    <2>1. TypeOK'
      BY <1>13 DEF DrainDma, TypeOK, SenderInv, ReceiverInv, QueueInv, Starting, Looping, Waiting, vars, envVars, sndVars, chVars, rcvVars, engVars
    <2>2. SenderInv'
      BY Zenon, <1>13 DEF DrainDma, TypeOK, SenderInv, ReceiverInv, QueueInv, Starting, Looping, Leaving, Waiting, vars, envVars, sndVars, chVars, rcvVars, engVars
    <2>3. ReceiverInv'
      BY <1>13 DEF DrainDma, TypeOK, SenderInv, ReceiverInv, QueueInv, Starting, Looping, Leaving, Waiting, vars, envVars, sndVars, chVars, rcvVars, engVars
    <2>4. QueueInv'
      BY <1>13 DEF DrainDma, TypeOK, SenderInv, ReceiverInv, QueueInv, Starting, Looping, Leaving, Waiting, vars, envVars, sndVars, chVars, rcvVars, engVars
    <2> QED  BY Zenon, <2>1, <2>2, <2>3, <2>4
  <1>14. CASE DrainEvents
    <2>1. TypeOK'
      BY <1>14 DEF DrainEvents, TypeOK, SenderInv, ReceiverInv, QueueInv, Starting, Looping, Waiting, vars, envVars, sndVars, chVars, rcvVars, engVars
    <2>2. SenderInv'
      BY Zenon, <1>14 DEF DrainEvents, TypeOK, SenderInv, ReceiverInv, QueueInv, Starting, Looping, Leaving, Waiting, vars, envVars, sndVars, chVars, rcvVars, engVars
    <2>3. ReceiverInv'
      BY Zenon, <1>14 DEF DrainEvents, TypeOK, SenderInv, ReceiverInv, QueueInv, Starting, Looping, Leaving, Waiting, vars, envVars, sndVars, chVars, rcvVars, engVars
    <2>4. QueueInv'
      BY <1>14 DEF DrainEvents, TypeOK, SenderInv, ReceiverInv, QueueInv, Starting, Looping, Leaving, Waiting, vars, envVars, sndVars, chVars, rcvVars, engVars
    <2> QED  BY Zenon, <2>1, <2>2, <2>3, <2>4
  <1>15. CASE SendReply
    <2>1. TypeOK'
      BY Zenon, <1>15 DEF SendReply, TypeOK, SenderInv, ReceiverInv, QueueInv, Starting, Looping, Waiting, vars, envVars, sndVars, chVars, rcvVars, engVars
    <2>2. SenderInv'
      BY Zenon, <1>15 DEF SendReply, TypeOK, SenderInv, ReceiverInv, QueueInv, Starting, Looping, Leaving, Waiting, vars, envVars, sndVars, chVars, rcvVars, engVars
    <2>3. ReceiverInv'
      BY Zenon, <1>15 DEF SendReply, TypeOK, SenderInv, ReceiverInv, QueueInv, Starting, Looping, Leaving, Waiting, vars, envVars, sndVars, chVars, rcvVars, engVars
    <2>4. QueueInv'
      BY Zenon, <1>15 DEF SendReply, TypeOK, SenderInv, ReceiverInv, QueueInv, Starting, Looping, Leaving, Waiting, vars, envVars, sndVars, chVars, rcvVars, engVars
    <2> QED  BY Zenon, <2>1, <2>2, <2>3, <2>4
  <1>16. CASE DmaComplete
    <2>1. TypeOK'
      BY <1>16 DEF DmaComplete, TypeOK, SenderInv, ReceiverInv, QueueInv, Starting, Looping, Waiting, vars, envVars, sndVars, chVars, rcvVars, engVars
    <2>2. SenderInv'
      BY Zenon, <1>16 DEF DmaComplete, TypeOK, SenderInv, ReceiverInv, QueueInv, Starting, Looping, Leaving, Waiting, vars, envVars, sndVars, chVars, rcvVars, engVars
    <2>3. ReceiverInv'
      BY <1>16 DEF DmaComplete, TypeOK, SenderInv, ReceiverInv, QueueInv, Starting, Looping, Leaving, Waiting, vars, envVars, sndVars, chVars, rcvVars, engVars
    <2>4. QueueInv'
      BY Zenon, <1>16 DEF DmaComplete, TypeOK, SenderInv, ReceiverInv, QueueInv, Starting, Looping, Leaving, Waiting, vars, envVars, sndVars, chVars, rcvVars, engVars
    <2> QED  BY Zenon, <2>1, <2>2, <2>3, <2>4
  <1>17. CASE EventAdd
    <2>1. TypeOK'
      BY <1>17 DEF EventAdd, TypeOK, SenderInv, ReceiverInv, QueueInv, Starting, Looping, Waiting, vars, envVars, sndVars, chVars, rcvVars, engVars
    <2>2. SenderInv'
      BY <1>17 DEF EventAdd, TypeOK, SenderInv, ReceiverInv, QueueInv, Starting, Looping, Leaving, Waiting, vars, envVars, sndVars, chVars, rcvVars, engVars
    <2>3. ReceiverInv'
      BY SMTT(30), <1>17 DEF EventAdd, TypeOK, SenderInv, ReceiverInv, QueueInv, Starting, Looping, Leaving, Waiting, vars, envVars, sndVars, chVars, rcvVars, engVars
    <2>4. QueueInv'
      BY <1>17 DEF EventAdd, TypeOK, SenderInv, ReceiverInv, QueueInv, Starting, Looping, Leaving, Waiting, vars, envVars, sndVars, chVars, rcvVars, engVars
    <2> QED  BY Zenon, <2>1, <2>2, <2>3, <2>4
  <1>18. CASE StopRunner
    <2>1. TypeOK'
      BY ZenonT(30), <1>18 DEF StopRunner, TypeOK, SenderInv, ReceiverInv, QueueInv, Starting, Looping, Waiting, vars, envVars, sndVars, chVars, rcvVars, engVars
    <2>2. SenderInv'
      BY Zenon, <1>18 DEF StopRunner, TypeOK, SenderInv, ReceiverInv, QueueInv, Starting, Looping, Leaving, Waiting, vars, envVars, sndVars, chVars, rcvVars, engVars
    <2>3. ReceiverInv'
      BY Zenon, <1>18 DEF StopRunner, TypeOK, SenderInv, ReceiverInv, QueueInv, Starting, Looping, Leaving, Waiting, vars, envVars, sndVars, chVars, rcvVars, engVars
    <2>4. QueueInv'
      BY Zenon, <1>18 DEF StopRunner, TypeOK, SenderInv, ReceiverInv, QueueInv, Starting, Looping, Leaving, Waiting, vars, envVars, sndVars, chVars, rcvVars, engVars
    <2> QED  BY Zenon, <2>1, <2>2, <2>3, <2>4
  <1>19. CASE StopSender
    <2>1. TypeOK'
      BY ZenonT(30), <1>19 DEF StopSender, TypeOK, SenderInv, ReceiverInv, QueueInv, Starting, Looping, Waiting, vars, envVars, sndVars, chVars, rcvVars, engVars
    <2>2. SenderInv'
      BY Zenon, <1>19 DEF StopSender, TypeOK, SenderInv, ReceiverInv, QueueInv, Starting, Looping, Leaving, Waiting, vars, envVars, sndVars, chVars, rcvVars, engVars
    <2>3. ReceiverInv'
      BY Zenon, <1>19 DEF StopSender, TypeOK, SenderInv, ReceiverInv, QueueInv, Starting, Looping, Leaving, Waiting, vars, envVars, sndVars, chVars, rcvVars, engVars
    <2>4. QueueInv'
      BY Zenon, <1>19 DEF StopSender, TypeOK, SenderInv, ReceiverInv, QueueInv, Starting, Looping, Leaving, Waiting, vars, envVars, sndVars, chVars, rcvVars, engVars
    <2> QED  BY Zenon, <2>1, <2>2, <2>3, <2>4
  <1>20. CASE StopReceiver
    <2>1. TypeOK'
      BY ZenonT(30), <1>20 DEF StopReceiver, TypeOK, SenderInv, ReceiverInv, QueueInv, Starting, Looping, Waiting, vars, envVars, sndVars, chVars, rcvVars, engVars
    <2>2. SenderInv'
      BY Zenon, <1>20 DEF StopReceiver, TypeOK, SenderInv, ReceiverInv, QueueInv, Starting, Looping, Leaving, Waiting, vars, envVars, sndVars, chVars, rcvVars, engVars
    <2>3. ReceiverInv'
      BY Zenon, <1>20 DEF StopReceiver, TypeOK, SenderInv, ReceiverInv, QueueInv, Starting, Looping, Leaving, Waiting, vars, envVars, sndVars, chVars, rcvVars, engVars
    <2>4. QueueInv'
      BY Zenon, <1>20 DEF StopReceiver, TypeOK, SenderInv, ReceiverInv, QueueInv, Starting, Looping, Leaving, Waiting, vars, envVars, sndVars, chVars, rcvVars, engVars
    <2> QED  BY Zenon, <2>1, <2>2, <2>3, <2>4
  <1>21. CASE SenderLosesPeer
    <2>1. TypeOK'
      BY Zenon, <1>21 DEF SenderLosesPeer, TypeOK, SenderInv, ReceiverInv, QueueInv, Starting, Looping, Waiting, vars, envVars, sndVars, chVars, rcvVars, engVars
    <2>2. SenderInv'
      BY Zenon, <1>21 DEF SenderLosesPeer, TypeOK, SenderInv, ReceiverInv, QueueInv, Starting, Looping, Leaving, Waiting, vars, envVars, sndVars, chVars, rcvVars, engVars
    <2>3. ReceiverInv'
      BY Zenon, <1>21 DEF SenderLosesPeer, TypeOK, SenderInv, ReceiverInv, QueueInv, Starting, Looping, Leaving, Waiting, vars, envVars, sndVars, chVars, rcvVars, engVars
    <2>4. QueueInv'
      BY Zenon, <1>21 DEF SenderLosesPeer, TypeOK, SenderInv, ReceiverInv, QueueInv, Starting, Looping, Leaving, Waiting, vars, envVars, sndVars, chVars, rcvVars, engVars
    <2> QED  BY Zenon, <2>1, <2>2, <2>3, <2>4
  <1>22. CASE ReceiverLosesPeer
    <2>1. TypeOK'
      BY Zenon, <1>22 DEF ReceiverLosesPeer, TypeOK, SenderInv, ReceiverInv, QueueInv, Starting, Looping, Waiting, vars, envVars, sndVars, chVars, rcvVars, engVars
    <2>2. SenderInv'
      BY Zenon, <1>22 DEF ReceiverLosesPeer, TypeOK, SenderInv, ReceiverInv, QueueInv, Starting, Looping, Leaving, Waiting, vars, envVars, sndVars, chVars, rcvVars, engVars
    <2>3. ReceiverInv'
      BY Zenon, <1>22 DEF ReceiverLosesPeer, TypeOK, SenderInv, ReceiverInv, QueueInv, Starting, Looping, Leaving, Waiting, vars, envVars, sndVars, chVars, rcvVars, engVars
    <2>4. QueueInv'
      BY Zenon, <1>22 DEF ReceiverLosesPeer, TypeOK, SenderInv, ReceiverInv, QueueInv, Starting, Looping, Leaving, Waiting, vars, envVars, sndVars, chVars, rcvVars, engVars
    <2> QED  BY Zenon, <2>1, <2>2, <2>3, <2>4
  <1>23. CASE UNCHANGED vars
    BY <1>23 DEF TypeOK, SenderInv, ReceiverInv, QueueInv, Starting, Looping, Leaving, Waiting, vars, envVars, sndVars, chVars, rcvVars, engVars
  <1> QED
    BY Zenon, <1>1, <1>2, <1>3, <1>4, <1>5, <1>6, <1>7, <1>8, <1>9, <1>10, <1>11, <1>12, <1>13, <1>14, <1>15, <1>16, <1>17, <1>18, <1>19, <1>20, <1>21, <1>22, <1>23 DEF Next, Sender, Receiver

\* DmaInv holds in every reachable state of the DMA mode.
THEOREM DmaInvariant == Spec => []DmaInv
  BY DmaInvInit, DmaInvNext, PTL DEF Spec
----------------------------------------------------------------------------
(* What follows from it *)

\* The counters and program positions of send_dma_reqs and receive_dma_reqs
\* keep their ranges.
THEOREM DmaTypes == Spec => []TypeOK
  <1>1. DmaInv => TypeOK
    BY Zenon DEF DmaInv
  <1> QED  BY <1>1, DmaInvariant, PTL

\* No size_t counter of send_dma_reqs or receive_dma_reqs wraps around, even
\* when a stopped endpoint drops descriptors or a full queue drops jobs.
THEOREM CountersNeverWrap == Spec => []NoUnderflow
  <1>1. DmaInv => NoUnderflow
    BY DEF DmaInv, TypeOK, SenderInv, ReceiverInv, QueueInv, Starting, NoUnderflow
  <1> QED  BY <1>1, DmaInvariant, PTL

\* A batch-deep event queue has room for every update receive_dma_reqs
\* submits, for every batch size.
THEOREM EventQueueSuffices == Spec => []QueuesBounded
  <1>1. DmaInv => QueuesBounded
    BY DEF DmaInv, TypeOK, SenderInv, ReceiverInv, QueueInv, Starting, Looping, Waiting, QueuesBounded
  <1> QED  BY <1>1, DmaInvariant, PTL

\* The receiver's inner polling loop is entered only with an event update
\* outstanding.
THEOREM WaitHasUpdate == Spec => []WaitEnds
  <1>1. DmaInv => WaitEnds
    BY DEF DmaInv, TypeOK, SenderInv, ReceiverInv, QueueInv, Starting, Looping, Waiting, WaitEnds
  <1> QED  BY <1>1, DmaInvariant, PTL

\* receive_dma_reqs returns with both queues and the channel empty.
THEOREM ReceiverLeavesNothing == Spec => []QuietAtEnd
  <1>1. DmaInv => QuietAtEnd
    BY DEF DmaInv, TypeOK, SenderInv, ReceiverInv, QueueInv, Starting, Leaving, QuietAtEnd
  <1> QED  BY <1>1, DmaInvariant, PTL
----------------------------------------------------------------------------
(* The window *)

\* Every step of the DMA mode starts one request within the window, finishes
\* one, or leaves their number alone.
LEMMA WindowStep ==
  ASSUME DmaInv, [Next]_vars
  PROVE  [Credits!Start \/ Credits!Finish]_(send_num - se_value)
  <1> USE DEF Credits!Start, Credits!Finish
  <1>1. send_num \in Nat /\ se_value \in Nat
    BY Zenon DEF DmaInv, TypeOK
  <1>2. CASE FillSend
    <2>1. send_num < Batch
      BY Zenon, <1>2 DEF FillSend, DmaInv, SenderInv
    <2>2. send_num' = send_num + 1 /\ se_value' = se_value
      BY Zenon, <1>2 DEF FillSend, engVars
    <2> QED  BY <1>1, <2>1, <2>2
  <1>3. CASE SendOne
    <2>1. send_num + need = wait_index + Batch /\ need > 0 /\ wait_index <= se_value
      BY Zenon, <1>3 DEF SendOne, DmaInv, SenderInv
    <2>2. need \in Int /\ wait_index \in Nat
      BY Zenon DEF DmaInv, TypeOK
    <2>3. send_num' = send_num + 1 /\ se_value' = se_value
      BY Zenon, <1>3 DEF SendOne, engVars
    <2> QED  BY <1>1, <2>1, <2>2, <2>3
  <1>4. CASE EventAdd
    <2>1. se_queued > 0 /\ se_value + se_queued <= send_num /\ se_queued \in Nat
      BY Zenon, <1>4 DEF EventAdd, DmaInv, QueueInv, TypeOK
    <2>2. send_num' = send_num /\ se_value' = se_value + 1
      BY Zenon, <1>4 DEF EventAdd, sndVars
    <2> QED  BY <1>1, <2>1, <2>2
  <1>5. ASSUME send_num' = send_num, se_value' = se_value
        PROVE  [Credits!Start \/ Credits!Finish]_(send_num - se_value)
    BY Zenon, <1>5
  <1>6. CASE ReadEvent \/ SendStopped \/ LeaveLoop \/ SendSuccess \/ GetReply \/ SenderLosesPeer
    BY Zenon, <1>5, <1>6 DEF ReadEvent, SendStopped, LeaveLoop, SendSuccess, GetReply, SenderLosesPeer, engVars
  <1>7. CASE Receiver
    BY Zenon, <1>5, <1>7 DEF Receiver, FillReceive, FillFails, PollDma, Receive, WaitEvent, DrainDma, DrainEvents, SendReply,
        ReceiverLosesPeer, sndVars, engVars
  <1>8. CASE DmaComplete \/ StopRunner \/ StopSender \/ StopReceiver
    BY Zenon, <1>5, <1>8 DEF DmaComplete, StopRunner, StopSender, StopReceiver, sndVars, engVars
  <1>9. CASE UNCHANGED vars
    BY Zenon, <1>5, <1>9 DEF vars, sndVars, engVars
  <1> QED
    BY Zenon, <1>2, <1>3, <1>4, <1>6, <1>7, <1>8, <1>9 DEF Next, Sender

\* The DMA mode implements the window of one batch, for every batch size:
\* the sync event is a faithful credit counter.
THEOREM WindowRefinement == Spec => ImplementsWindow
  <1>1. Init => Credits!Init
    BY DEF Init, Credits!Init
  <1>2. DmaInv /\ [Next]_vars => [Credits!Start \/ Credits!Finish]_(send_num - se_value)
    BY Zenon, WindowStep
  <1> QED
    BY <1>1, <1>2, DmaInvariant, PTL DEF Spec, ImplementsWindow, Credits!Spec

S == "sender"
R == "receiver"

\* What an end has published in full.
Base(e) == waitIndex[e] + IF pc[e] = "count" THEN 4 ELSE 0

\* How far its event is above that in the middle of a publication.
Partial(e) ==
  IF pc[e] = "add_sync" THEN 1
  ELSE IF pc[e] = "set_sync" THEN 2
  ELSE IF pc[e] = "set_async" THEN 3 ELSE 0

Types ==
  /\ pc \in [Ends -> {"get_pub", "get_sub", "test", "add_async", "add_sync",
                      "set_sync", "set_async", "count", "delete", "done"}]
  /\ value \in [Ends -> Int]
  /\ waitIndex \in [Ends -> Int]
  /\ fetched \in [Ends -> Int]
  /\ alive \in BOOLEAN

\* Each end's event is where its own program says, and what an end last read
\* from the other's event has been reached.
ValueInv ==
  /\ \A e \in Ends : value[e] = Base(e) + Partial(e)
  /\ \A e \in Ends : fetched[e] <= value[Other(e)]

\* The sender publishes when both have published as much, the receiver when
\* it is one round behind; a sender that has left owes nothing.
TurnInv ==
  /\ Base(S) = Base(R) \/ Base(S) = Base(R) + 4
  /\ Publishing(S) \/ pc[S] \in {"delete", "done"} => Base(S) = Base(R)
  /\ Publishing(R) => Base(S) = Base(R) + 4
  /\ alive = FALSE => pc[S] = "done"

SyncInv == Types /\ ValueInv /\ TurnInv
----------------------------------------------------------------------------
\* Both ends enter their loops with all counters zero: the invariant holds.
LEMMA SyncInvInit == SyncInit => SyncInv
  <1> SUFFICES ASSUME SyncInit PROVE SyncInv
    BY Zenon
  <1>1. Types
    BY DEF SyncInit, Types
  <1>2. ValueInv
    BY DEF SyncInit, ValueInv, Base, Partial, Other, Ends
  <1>3. TurnInv
    BY Zenon DEF SyncInit, TurnInv, Base, Publishing, Ends, S, R
  <1> QED  BY Zenon, <1>1, <1>2, <1>3 DEF SyncInv

\* Every event job, test and count of either end preserves the invariant.
LEMMA SyncInvStep ==
  ASSUME SyncInv, NEW e \in Ends, Step(e)
  PROVE  SyncInv'
  <1> USE DEF SyncInv
  <1>0. e = S \/ e = R
    BY Zenon DEF Ends, S, R
  <1>1. CASE GetPub(e)
    <2>1. Types'
      BY Zenon, <1>1 DEF GetPub, Fail, Types, Other, Ends
    <2>2. ValueInv'
      BY ZenonT(30), <1>1, <1>0 DEF GetPub, Fail, Types, ValueInv, TurnInv, Base, Partial, Other, Ends, S, R
    <2>3. TurnInv'
      BY <1>1, <1>0 DEF GetPub, Fail, Types, ValueInv, TurnInv, Base, Partial, Publishing, Other, Ends, S, R
    <2> QED  BY Zenon, <2>1, <2>2, <2>3
  <1>2. CASE GetSub(e)
    <2>1. Types'
      BY <1>2 DEF GetSub, Fail, Types, Other, Ends
    <2>2. ValueInv'
      BY <1>2, <1>0 DEF GetSub, Fail, Types, ValueInv, TurnInv, Base, Partial, Other, Ends, S, R
    <2>3. TurnInv'
      BY <1>2, <1>0 DEF GetSub, Fail, Types, ValueInv, TurnInv, Base, Partial, Publishing, Other, Ends, S, R
    <2> QED  BY Zenon, <2>1, <2>2, <2>3
  <1>3. CASE Test(e)
    <2>1. Types'
      BY Zenon, <1>3 DEF Test, Finished, MyTurn, Types, Other, Ends
    <2>2. ValueInv'
      BY ZenonT(30), <1>3, <1>0 DEF Test, Finished, MyTurn, Types, ValueInv, TurnInv, Base, Partial, Other, Ends, S, R
    <2>3. TurnInv'
      BY <1>3, <1>0 DEF Test, Finished, MyTurn, Types, ValueInv, TurnInv, Base, Partial, Publishing, Other, Ends, S, R
    <2> QED  BY Zenon, <2>1, <2>2, <2>3
  <1>4. CASE AddAsync(e)
    <2>1. Types'
      BY <1>4 DEF AddAsync, Publish, Types, Other, Ends
    <2>2. ValueInv'
      BY <1>4, <1>0 DEF AddAsync, Publish, Types, ValueInv, TurnInv, Base, Partial, Other, Ends, S, R
    <2>3. TurnInv'
      BY Zenon, <1>4, <1>0 DEF AddAsync, Publish, Types, ValueInv, TurnInv, Base, Partial, Publishing, Other, Ends, S, R
    <2> QED  BY Zenon, <2>1, <2>2, <2>3
  <1>5. CASE AddSync(e)
    <2>1. Types'
      BY <1>5 DEF AddSync, Publish, Types, Other, Ends
    <2>2. ValueInv'
      BY <1>5, <1>0 DEF AddSync, Publish, Types, ValueInv, TurnInv, Base, Partial, Other, Ends, S, R
    <2>3. TurnInv'
      BY Zenon, <1>5, <1>0 DEF AddSync, Publish, Types, ValueInv, TurnInv, Base, Partial, Publishing, Other, Ends, S, R
    <2> QED  BY Zenon, <2>1, <2>2, <2>3
  <1>6. CASE SetSync(e)
    <2>1. Types'
      BY <1>6 DEF SetSync, Publish, Types, Other, Ends
    <2>2. ValueInv'
      BY <1>6, <1>0 DEF SetSync, Publish, Types, ValueInv, TurnInv, Base, Partial, Other, Ends, S, R
    <2>3. TurnInv'
      BY Zenon, <1>6, <1>0 DEF SetSync, Publish, Types, ValueInv, TurnInv, Base, Partial, Publishing, Other, Ends, S, R
    <2> QED  BY Zenon, <2>1, <2>2, <2>3
  <1>7. CASE SetAsync(e)
    <2>1. Types'
      BY <1>7 DEF SetAsync, Publish, Types, Other, Ends
    <2>2. ValueInv'
      BY <1>7, <1>0 DEF SetAsync, Publish, Types, ValueInv, TurnInv, Base, Partial, Other, Ends, S, R
    <2>3. TurnInv'
      BY <1>7, <1>0 DEF SetAsync, Publish, Types, ValueInv, TurnInv, Base, Partial, Publishing, Other, Ends, S, R
    <2> QED  BY Zenon, <2>1, <2>2, <2>3
  <1>8. CASE Count(e)
    <2>1. Types'
      BY <1>8 DEF Count, Types, Other, Ends
    <2>2. ValueInv'
      BY <1>8, <1>0 DEF Count, Types, ValueInv, TurnInv, Base, Partial, Other, Ends, S, R
    <2>3. TurnInv'
      BY <1>8, <1>0 DEF Count, Types, ValueInv, TurnInv, Base, Partial, Publishing, Other, Ends, S, R
    <2> QED  BY Zenon, <2>1, <2>2, <2>3
  <1>9. CASE Delete(e)
    <2>1. /\ pc[e] = "delete" /\ pc' = [pc EXCEPT ![e] = "done"]
          /\ value' = value /\ waitIndex' = waitIndex /\ fetched' = fetched
      BY Zenon, <1>9 DEF Delete
    <2>2. alive' = (alive /\ e # S) /\ alive' \in BOOLEAN
      BY <1>9, Zenon DEF Delete, S
    <2>3. Types'
      BY Zenon, <2>1, <2>2 DEF Types, Ends
    <2>4. ValueInv'
      BY Zenon, <2>1, <1>0 DEF Types, ValueInv, Base, Partial, Other, Ends, S, R
    <2>5. alive' = FALSE => pc'[S] = "done"
      <3>1. CASE e = S
        BY Zenon, <2>1, <3>1 DEF Types
      <3>2. CASE e = R
        <4>1. e # S /\ pc'[S] = pc[S]
          BY Zenon, <2>1, <3>2 DEF Types, Ends, S, R
        <4>2. alive' = alive
          BY <4>1, <2>2, Zenon DEF Types
        <4> QED  BY Zenon, <4>1, <4>2 DEF TurnInv
      <3> QED  BY Zenon, <1>0, <3>1, <3>2
    <2>6. TurnInv'
      BY Zenon, <2>1, <2>5, <1>0 DEF Types, TurnInv, Base, Publishing, Ends, S, R
    <2> QED  BY Zenon, <2>3, <2>4, <2>6
  <1> QED
    BY Zenon, <1>1, <1>2, <1>3, <1>4, <1>5, <1>6, <1>7, <1>8, <1>9 DEF Step

\* The invariant holds in every reachable state of the SYNC mode.
THEOREM SyncInvariant == SyncSpec => []SyncInv
  <1>1. SyncInv /\ UNCHANGED syncVars => SyncInv'
    BY DEF SyncInv, Types, ValueInv, TurnInv, Base, Partial, Publishing, Other, syncVars
  <1>2. SyncInv /\ [SyncNext]_syncVars => SyncInv'
    BY Zenon, <1>1, SyncInvStep DEF SyncNext
  <1> QED  BY <1>2, SyncInvInit, PTL DEF SyncSpec

\* handle_sync_sender and handle_sync_receiver never publish together, for
\* every number of rounds.
THEOREM EndsTakeTurns == SyncSpec => []TakeTurns
  <1>1. SyncInv => TakeTurns
    BY DEF SyncInv, Types, TurnInv, TakeTurns, Base, Ends, S, R
  <1> QED  BY <1>1, SyncInvariant, PTL

\* The two events are never more than one round apart.
THEOREM EndsInLockStep == SyncSpec => []LockStep
  <1>1. SyncInv => LockStep
    BY DEF SyncInv, Types, ValueInv, TurnInv, LockStep, Publishing, Base, Partial, Ends, S, R
  <1> QED  BY <1>1, SyncInvariant, PTL

\* No event is updated after handle_sync_sender has deleted it.
THEOREM UpdatesBeforeDelete == SyncSpec => []NoLateUpdate
  <1>1. SyncInv => NoLateUpdate
    BY DEF SyncInv, Types, TurnInv, NoLateUpdate, Publishing, Base, Ends, S, R
  <1> QED  BY <1>1, SyncInvariant, PTL
----------------------------------------------------------------------------
(* The decoding jobs of one thread *)

Recipes == Nat \X Nat
EcJobs == [recipe : Recipes, matrix : Recipes, block : Nat]
Works(c) == [pc : {"next", "copy", "matrix", "set", "keep"}, now : Nat, pos : Nat, job : Recipes,
             flight : Seq(EcJobs), kept : [0..(c.batch - 1) -> Recipes]]
Shards(c) == [0..(c.blocks - 1) -> [0..(c.k - 1) -> Recipes]]

\* Of a thread a: the jobs completed, and what it knows of those in flight.
Completed(a) == a.now - Len(a.flight)
JobRight(a, c, j) ==
  /\ a.flight[j - Completed(a)] = [recipe |-> <<1, j>>, matrix |-> <<1, j>>, block |-> (j - 1) % c.blocks]
  /\ a.kept[(j - 1) % c.batch] = <<1, j>>
InFlight(a, c) ==
  /\ Completed(a) \in Nat /\ Len(a.flight) <= c.batch
  /\ a.pc # "next" => Len(a.flight) < c.batch
  /\ a.pc = "copy" => a.pos < c.k /\ a.pos < c.m
  /\ \A j \in (Completed(a) + 1)..a.now : JobRight(a, c, j)
\* Of its matrix, and of the matrices deleted.
MatrixOwn(a, mx, dd) ==
  /\ a.pc \in {"set", "keep"} => mx = <<1, a.now + 1>>
  /\ a.pc = "keep" => a.job = <<1, a.now + 1>>
  /\ \A d \in dd : d[2] <= Completed(a)
\* Of its shards.
Holding(c, kd, j) == \A p \in 0..(c.k - 1) : kd[(j - 1) % c.blocks][p] = <<1, j>>
ShardsOwn(a, c, kd) ==
  /\ \A j \in (Completed(a) + 1)..a.now : Holding(c, kd, j)
  /\ a.pc = "copy" => \A p \in 0..(a.pos - 1) : kd[a.now % c.blocks][p] = <<1, a.now + 1>>
  /\ a.pc \in {"matrix", "set", "keep"} => Holding(c, kd, a.now + 1)
Roomy(c) == c.batch <= c.blocks /\ c.k <= c.m

Alone(a, c, kd, mx, dd, wr) ==
  /\ a \in Works(c) /\ mx \in Recipes /\ dd \subseteq Recipes /\ kd \in Shards(c)
  /\ InFlight(a, c) /\ MatrixOwn(a, mx, dd) /\ wr \cap {"matrix", "deleted twice"} = {}
  /\ Roomy(c) => ShardsOwn(a, c, kd) /\ "shards" \notin wr
EcInv ==
  /\ cfg \in EcConfigs
  /\ cfg.threads = 1 => th \in [1..1 -> Works(cfg)] /\ Alone(th[1], cfg, k_data, matrix, dead, wrong)

\* The numbers of a configuration.
LEMMA EcConfig ==
  ASSUME NEW c \in EcConfigs
  PROVE  /\ c.threads \in Nat \ {0} /\ c.batch \in Nat \ {0} /\ c.blocks \in Nat \ {0}
         /\ c.k \in Nat \ {0} /\ c.m \in Nat \ {0} /\ c.jobs \in Nat
BY Zenon, EcAssumption

\* At first nothing is in flight.
LEMMA EcStarts == EInit => EcInv
<1> SUFFICES ASSUME EInit PROVE EcInv
  BY Zenon
<1>1. cfg \in EcConfigs
  BY Zenon DEF EInit
<1>2. /\ cfg.batch \in Nat \ {0} /\ cfg.blocks \in Nat \ {0} /\ cfg.k \in Nat \ {0} /\ cfg.m \in Nat \ {0}
  BY Zenon, <1>1, EcConfig
<1>3. ASSUME cfg.threads = 1 PROVE th \in [1..1 -> Works(cfg)] /\ Alone(th[1], cfg, k_data, matrix, dead, wrong)
  <2>1. Nobody \in Recipes
    BY Zenon DEF Nobody, Recipes
  <2> DEFINE a == [pc |-> "next", now |-> 0, pos |-> 0, job |-> Nobody, flight |-> <<>>,
                   kept |-> [s \in 0..(cfg.batch - 1) |-> Nobody]]
  <2>2. th = [t \in 1..1 |-> a]
    BY Zenon, <1>3 DEF EInit, EThreads
  <2>3. a \in Works(cfg)
    BY <2>1 DEF Works
  <2>4. a.pc = "next" /\ a.now = 0 /\ Len(a.flight) = 0
    BY Zenon
  <2> HIDE DEF a
  <2>5. Completed(a) = 0
    BY SMTT(30), <2>4 DEF Completed
  <2>6. InFlight(a, cfg) /\ MatrixOwn(a, matrix, dead) /\ ShardsOwn(a, cfg, k_data)
    BY <1>2, <2>4, <2>5 DEF InFlight, MatrixOwn, ShardsOwn, EInit
  <2>7. th[1] = a /\ th \in [1..1 -> Works(cfg)]
    BY <2>2, <2>3
  <2>8. k_data \in Shards(cfg)
    BY Zenon, <2>1 DEF EInit, Shards
  <2> QED  BY Zenon, <2>1, <2>3, <2>6, <2>7, <2>8 DEF Alone, EInit
<1> QED  BY Zenon, <1>1, <1>3 DEF EcInv

\* The numbers of a thread that is alone.
LEMMA AloneFacts ==
  ASSUME NEW c \in EcConfigs, NEW a \in Works(c), InFlight(a, c)
  PROVE  /\ a.now \in Nat /\ Len(a.flight) \in Nat /\ a.flight \in Seq(EcJobs)
         /\ Completed(a) \in Nat /\ a.now = Completed(a) + Len(a.flight)
         /\ c.batch \in Nat \ {0} /\ c.blocks \in Nat \ {0} /\ c.k \in Nat \ {0} /\ c.m \in Nat \ {0}
<1>1. a.now \in Nat /\ a.flight \in Seq(EcJobs)
  BY Zenon DEF Works
<1>2. Len(a.flight) \in Nat
  BY <1>1
<1>3. Completed(a) \in Nat
  BY Zenon DEF InFlight
<1>4. a.now = Completed(a) + Len(a.flight)
  BY <1>1, <1>2 DEF Completed
<1> QED  BY Zenon, <1>1, <1>2, <1>3, <1>4, EcConfig

\* Arithmetic of e jobs completed, l in flight and n enqueued.
LEMMA CountSubmit == \A n, l \in Nat : (n + 1) - (l + 1) = n - l /\ n + 1 \in Nat
OBVIOUS

\* The place of a job in flight.
LEMMA CountPlace ==
  \A n, e, l \in Nat, j \in Int :
    n = e + l /\ e + 1 <= j /\ j <= n => j - e \in 1..l /\ j - 1 \in Int
OBVIOUS

\* Blocks and slots are numbered from 0.
LEMMA BlockIn ==
  ASSUME NEW c \in EcConfigs, NEW n \in Int
  PROVE  n % c.blocks \in 0..(c.blocks - 1) /\ n % c.batch \in 0..(c.batch - 1)
<1>1. c.batch \in Nat \ {0} /\ c.blocks \in Nat \ {0}
  BY Zenon, EcConfig
<1>2. n % c.blocks \in 0..(c.blocks - 1)
  BY <1>1, DivModExists, Zenon
<1>3. n % c.batch \in 0..(c.batch - 1)
  BY <1>1, DivModExists, Zenon
<1> QED  BY Zenon, <1>2, <1>3

\* Blocks and slots of the jobs in flight are not those of the next job.
LEMMA OwnSlots ==
  ASSUME NEW c \in EcConfigs, NEW a \in Works(c), InFlight(a, c), Len(a.flight) < c.batch,
         NEW j \in (Completed(a) + 1)..a.now
  PROVE  /\ (j - 1) % c.batch # a.now % c.batch
         /\ Roomy(c) => (j - 1) % c.blocks # a.now % c.blocks
<1>1. /\ a.now \in Nat /\ Len(a.flight) \in Nat /\ Completed(a) \in Nat /\ a.now = Completed(a) + Len(a.flight)
      /\ c.batch \in Nat \ {0} /\ c.blocks \in Nat \ {0}
  BY Zenon, AloneFacts
<1>2. j - 1 \in Int /\ a.now \in Int /\ j - 1 < a.now /\ a.now < j - 1 + c.batch
  BY SMTT(30), <1>1
<1>3. (j - 1) % c.batch # a.now % c.batch
  BY <1>1, <1>2, ModDistinct, Zenon
<1>4. ASSUME Roomy(c) PROVE (j - 1) % c.blocks # a.now % c.blocks
  <2>1. a.now < j - 1 + c.blocks
    BY SMTT(20), <1>1, <1>2, <1>4 DEF Roomy
  <2> QED  BY <1>1, <1>2, <2>1, ModDistinct, Zenon
<1> QED  BY Zenon, <1>3, <1>4

\* A step of a thread that is alone, to a record b.
EcStep(b) == cfg' = cfg /\ th' = [th EXCEPT ![1] = b]

\* A step of the only thread keeps the invariant if it keeps the account of
\* that thread.
LEMMA AloneStep ==
  ASSUME EcInv, cfg.threads = 1, NEW b, EcStep(b),
         Alone(b, cfg, k_data', matrix', dead', wrong')
  PROVE  EcInv'
<1>1. b \in Works(cfg)
  BY Zenon DEF Alone
<1>2. th' \in [1..1 -> Works(cfg)] /\ th'[1] = b
  BY <1>1 DEF EcInv, EcStep
<1> QED  BY Zenon, <1>2 DEF EcInv, EcStep

\* Beginning a job keeps the invariant.
LEMMA BeginKeeps ==
  ASSUME EcInv, cfg.threads = 1, Begin(1)
  PROVE  EcInv'
<1>0. SUFFICES ASSUME NEW a, a = th[1], NEW c, c = cfg, NEW b, b = [a EXCEPT !.pc = "copy", !.pos = 0]
                PROVE  Alone(b, c, k_data', matrix', dead', wrong')
  <2>1. EcStep([th[1] EXCEPT !.pc = "copy", !.pos = 0])
    BY Zenon DEF Begin, EcStep
  <2> QED  BY Zenon, <2>1, AloneStep
<1>1. Alone(a, c, k_data, matrix, dead, wrong) /\ c \in EcConfigs
  BY Zenon, <1>0 DEF EcInv
<1>2. a \in Works(c) /\ InFlight(a, c) /\ MatrixOwn(a, matrix, dead) /\ (Roomy(c) => ShardsOwn(a, c, k_data))
  BY Zenon, <1>1 DEF Alone
<1>3. /\ a.now \in Nat /\ Len(a.flight) \in Nat /\ Completed(a) \in Nat /\ a.now = Completed(a) + Len(a.flight)
      /\ c.batch \in Nat \ {0} /\ c.k \in Nat \ {0} /\ c.m \in Nat \ {0} /\ c.blocks \in Nat \ {0}
  BY Zenon, <1>1, <1>2, AloneFacts
<1>4. /\ Len(a.flight) < c.batch /\ a.pc = "next"
      /\ k_data' = k_data /\ matrix' = matrix /\ dead' = dead /\ wrong' = wrong
  BY Zenon, <1>0 DEF Begin
<1>5. /\ b \in Works(c) /\ b.pc = "copy" /\ b.pos = 0 /\ b.now = a.now /\ b.flight = a.flight /\ b.kept = a.kept
  BY Zenon, <1>0, <1>2 DEF Works
<1>6. Completed(b) = Completed(a) /\ \A j : JobRight(b, c, j) <=> JobRight(a, c, j)
  BY Zenon, <1>5 DEF Completed, JobRight
<1>7. InFlight(b, c)
  <2>1. 0 < c.k /\ 0 < c.m
    BY SMTT(30), <1>3
  <2>2. b.pc = "copy" => b.pos < c.k /\ b.pos < c.m
    BY Zenon, <1>5, <2>1
  <2>3. Completed(b) \in Nat /\ Len(b.flight) <= c.batch /\ Len(b.flight) < c.batch
    BY Zenon, <1>2, <1>4, <1>5, <1>6 DEF InFlight
  <2>4. \A j \in (Completed(b) + 1)..b.now : JobRight(b, c, j)
    BY Zenon, <1>2, <1>5, <1>6 DEF InFlight
  <2> QED  BY Zenon, <2>2, <2>3, <2>4 DEF InFlight
<1>8. MatrixOwn(b, matrix, dead)
  BY ZenonT(30), <1>2, <1>5, <1>6 DEF MatrixOwn
<1>9. Roomy(c) => ShardsOwn(b, c, k_data)
  BY SMTT(20), <1>2, <1>3, <1>5, <1>6 DEF ShardsOwn
<1> QED  BY ZenonT(30), <1>1, <1>4, <1>5, <1>7, <1>8, <1>9 DEF Alone

\* Copying a shard keeps the invariant: the block is not one of a job in
\* flight.
LEMMA CopyKeeps ==
  ASSUME EcInv, cfg.threads = 1, CopyShard(1)
  PROVE  EcInv'
<1>0. SUFFICES ASSUME NEW a, a = th[1], NEW c, c = cfg, NEW b, b = [a EXCEPT !.pos = @ + 1, !.pc = IF a.pos + 1 \in {c.m, c.k} THEN "matrix" ELSE "copy"]
                PROVE  Alone(b, c, k_data', matrix', dead', wrong')
  <2>1. EcStep([th[1] EXCEPT !.pos = @ + 1, !.pc = IF th[1].pos + 1 \in {cfg.m, cfg.k} THEN "matrix" ELSE "copy"])
    BY Zenon DEF CopyShard, EcStep
  <2> QED  BY ZenonT(30), <2>1, AloneStep
<1>1. Alone(a, c, k_data, matrix, dead, wrong) /\ c \in EcConfigs
  BY Zenon, <1>0 DEF EcInv
<1>2. a \in Works(c) /\ InFlight(a, c) /\ MatrixOwn(a, matrix, dead) /\ (Roomy(c) => ShardsOwn(a, c, k_data))
  BY Zenon, <1>1 DEF Alone
<1>3. /\ a.now \in Nat /\ Len(a.flight) \in Nat /\ Completed(a) \in Nat /\ a.now = Completed(a) + Len(a.flight)
      /\ c.batch \in Nat \ {0} /\ c.k \in Nat \ {0} /\ c.m \in Nat \ {0} /\ c.blocks \in Nat \ {0}
  BY Zenon, <1>1, <1>2, AloneFacts
<1>4. /\ a.pc = "copy" /\ k_data' = [k_data EXCEPT ![a.now % c.blocks][a.pos] = <<1, a.now + 1>>]
      /\ matrix' = matrix /\ dead' = dead /\ wrong' = wrong
  BY Zenon, <1>0 DEF CopyShard, Block, Recipe
<1>5. /\ b \in Works(c) /\ b.pc = (IF a.pos + 1 \in {c.m, c.k} THEN "matrix" ELSE "copy") /\ b.pos = a.pos + 1
      /\ b.now = a.now /\ b.flight = a.flight /\ b.kept = a.kept /\ a.pos \in Nat
  <2> DEFINE q == IF a.pos + 1 \in {c.m, c.k} THEN "matrix" ELSE "copy"
  <2>1. q \in {"matrix", "copy"} /\ b = [a EXCEPT !.pos = a.pos + 1, !.pc = q] /\ a.pos \in Nat
    BY Zenon, <1>0, <1>2 DEF Works
  <2>2. a.pos + 1 \in Nat
    BY <2>1
  <2> HIDE DEF q
  <2>3. b \in Works(c) /\ b.pc = q /\ b.pos = a.pos + 1 /\ b.now = a.now /\ b.flight = a.flight /\ b.kept = a.kept
    BY ZenonT(30), <1>2, <2>1, <2>2 DEF Works
  <2> QED  BY Zenon, <2>1, <2>3 DEF q
<1>6. Completed(b) = Completed(a) /\ \A j : JobRight(b, c, j) <=> JobRight(a, c, j)
  BY Zenon, <1>5 DEF Completed, JobRight
<1>61. Len(a.flight) < c.batch /\ a.pos < c.k /\ a.pos < c.m
  BY Zenon, <1>2, <1>4 DEF InFlight
<1>7. InFlight(b, c)
  <2>1. \A x, k, m \in Nat : x < k /\ x < m /\ x + 1 \notin {m, k} => x + 1 < k /\ x + 1 < m
    OBVIOUS
  <2>2. b.pc = "copy" => b.pos < c.k /\ b.pos < c.m
    <3>1. a.pos + 1 \notin {c.m, c.k} => a.pos + 1 < c.k /\ a.pos + 1 < c.m
      <4>1. a.pos \in Nat /\ c.k \in Nat /\ c.m \in Nat
        BY Zenon, <1>3, <1>5
      <4> QED  BY Zenon, <1>61, <2>1, <4>1
    <3>2. b.pc = "copy" => a.pos + 1 \notin {c.m, c.k}
      <4>1. a.pos + 1 \in {c.m, c.k} => b.pc = "matrix"
        BY Zenon, <1>5
      <4> QED  BY Zenon, <4>1
    <3> QED  BY Zenon, <1>5, <3>1, <3>2
  <2>3. Completed(b) \in Nat /\ Len(b.flight) <= c.batch /\ Len(b.flight) < c.batch
    BY Zenon, <1>2, <1>5, <1>6, <1>61 DEF InFlight
  <2>4. \A j \in (Completed(b) + 1)..b.now : JobRight(b, c, j)
    BY Zenon, <1>2, <1>5, <1>6 DEF InFlight
  <2> QED  BY Zenon, <2>2, <2>3, <2>4 DEF InFlight
<1>8. MatrixOwn(b, matrix, dead)
  BY <1>2, <1>5, <1>6 DEF MatrixOwn
<1>81. <<1, a.now + 1>> \in Recipes /\ a.now % c.blocks \in 0..(c.blocks - 1) /\ a.pos \in 0..(c.k - 1)
  <2>1. a.now \in Int
    BY <1>3
  <2>2. a.now % c.blocks \in 0..(c.blocks - 1)
    BY Zenon, <1>1, <2>1, BlockIn
  <2>3. <<1, a.now + 1>> \in Recipes
    <3>1. \A n \in Nat : 1 \in Nat /\ n + 1 \in Nat
      OBVIOUS
    <3>2. QED
      BY Zenon, <1>3, <3>1 DEF Recipes
  <2>4. a.pos \in 0..(c.k - 1)
    BY SMTT(20), <1>3, <1>5, <1>61
  <2> QED  BY Zenon, <2>2, <2>3, <2>4
<1>82. k_data \in Shards(c)
  BY Zenon, <1>1 DEF Alone
<1>83. k_data' \in Shards(c)
  BY Zenon, <1>4, <1>81, <1>82 DEF Shards
<1>84. \A q \in 0..(c.blocks - 1) : q # a.now % c.blocks => k_data'[q] = k_data[q]
  BY Zenon, <1>4, <1>82 DEF Shards
<1>85. /\ k_data'[a.now % c.blocks][a.pos] = <<1, a.now + 1>>
       /\ \A p \in 0..(c.k - 1) : p # a.pos => k_data'[a.now % c.blocks][p] = k_data[a.now % c.blocks][p]
  BY Zenon, <1>4, <1>81, <1>82 DEF Shards
<1>9. ASSUME Roomy(c) PROVE ShardsOwn(b, c, k_data')
  <2>0. ShardsOwn(a, c, k_data)
    BY Zenon, <1>2, <1>9
  <2>1. ASSUME NEW j \in (Completed(a) + 1)..a.now PROVE Holding(c, k_data', j)
    <3>1. Holding(c, k_data, j)
      BY Zenon, <2>0, <2>1 DEF ShardsOwn
    <3>2. (j - 1) % c.blocks # a.now % c.blocks
      BY Zenon, <1>1, <1>2, <1>61, <1>9, OwnSlots
    <3>3. (j - 1) % c.blocks \in 0..(c.blocks - 1)
      <4>1. j - 1 \in Int
        BY <1>3
      <4> QED  BY Zenon, <1>1, <4>1, BlockIn
    <3>4. k_data'[(j - 1) % c.blocks] = k_data[(j - 1) % c.blocks]
      BY ZenonT(30), <1>84, <3>2, <3>3
    <3> QED  BY Zenon, <3>1, <3>4 DEF Holding
  <2>2. \A p \in 0..a.pos : k_data'[a.now % c.blocks][p] = <<1, a.now + 1>>
    <3>1. \A p \in 0..(a.pos - 1) : k_data[a.now % c.blocks][p] = <<1, a.now + 1>>
      BY Zenon, <1>4, <2>0 DEF ShardsOwn
    <3> SUFFICES ASSUME NEW p \in 0..a.pos PROVE k_data'[a.now % c.blocks][p] = <<1, a.now + 1>>
      BY Zenon
    <3>2. CASE p = a.pos
      BY Zenon, <1>85, <3>2
    <3>3. CASE p # a.pos
      <4>1. p \in 0..(a.pos - 1) /\ p \in 0..(c.k - 1)
        BY SMTT(20), <1>3, <1>5, <1>61, <3>3
      <4> QED  BY Zenon, <1>85, <3>1, <3>3, <4>1
    <3> QED  BY Zenon, <3>2, <3>3
  <2>3. b.pc = "matrix" => Holding(c, k_data', a.now + 1)
    <3> SUFFICES ASSUME b.pc = "matrix" PROVE Holding(c, k_data', a.now + 1)
      BY Zenon
    <3>1. a.pos + 1 = c.k
      BY SMTT(20), <1>3, <1>5, <1>61, <1>9 DEF Roomy
    <3>2. (a.now + 1) - 1 = a.now
      BY <1>3
    <3>3. \A p \in 0..(c.k - 1) : k_data'[a.now % c.blocks][p] = <<1, a.now + 1>>
      <4>1. c.k - 1 = a.pos
        BY SMTT(30), <1>3, <1>5, <3>1
      <4> QED  BY Zenon, <2>2, <4>1
    <3> QED  BY Zenon, <3>2, <3>3 DEF Holding
  <2>4. b.pc = "copy" => \A p \in 0..(b.pos - 1) : k_data'[b.now % c.blocks][p] = <<1, b.now + 1>>
    <3>1. b.pos - 1 = a.pos
      BY <1>5
    <3> QED  BY Zenon, <1>5, <2>2, <3>1
  <2>5. b.pc \notin {"set", "keep"} /\ b.now = a.now /\ Completed(b) = Completed(a)
    BY <1>5, <1>6
  <2>6. \A j \in (Completed(b) + 1)..b.now : Holding(c, k_data', j)
    BY Zenon, <2>1, <2>5
  <2> QED  BY Zenon, <2>3, <2>4, <2>5, <2>6 DEF ShardsOwn
<1> QED  BY Zenon, <1>1, <1>4, <1>5, <1>7, <1>8, <1>83, <1>9 DEF Alone

\* Creating the matrix keeps the invariant.
LEMMA CreateKeeps ==
  ASSUME EcInv, cfg.threads = 1, CreateMatrix(1)
  PROVE  EcInv'
<1>0. SUFFICES ASSUME NEW a, a = th[1], NEW c, c = cfg, NEW b, b = [a EXCEPT !.pc = "set"]
                PROVE  Alone(b, c, k_data', matrix', dead', wrong')
  <2>1. EcStep([th[1] EXCEPT !.pc = "set"])
    BY Zenon DEF CreateMatrix, EcStep, EGo
  <2> QED  BY Zenon, <2>1, AloneStep
<1>1. Alone(a, c, k_data, matrix, dead, wrong) /\ c \in EcConfigs
  BY Zenon, <1>0 DEF EcInv
<1>2. a \in Works(c) /\ InFlight(a, c) /\ MatrixOwn(a, matrix, dead) /\ (Roomy(c) => ShardsOwn(a, c, k_data))
  BY Zenon, <1>1 DEF Alone
<1>3. /\ a.now \in Nat /\ Len(a.flight) \in Nat /\ Completed(a) \in Nat /\ a.now = Completed(a) + Len(a.flight)
      /\ c.batch \in Nat \ {0} /\ c.k \in Nat \ {0} /\ c.m \in Nat \ {0} /\ c.blocks \in Nat \ {0}
  BY Zenon, <1>1, <1>2, AloneFacts
<1>4. /\ a.pc = "matrix" /\ matrix' = <<1, a.now + 1>>
      /\ k_data' = k_data /\ dead' = dead /\ wrong' = wrong
  BY Zenon, <1>0 DEF CreateMatrix, Recipe
<1>5. /\ b \in Works(c) /\ b.pc = "set" /\ b.now = a.now /\ b.flight = a.flight /\ b.kept = a.kept
  BY Zenon, <1>0, <1>2 DEF Works
<1>6. Completed(b) = Completed(a) /\ \A j : JobRight(b, c, j) <=> JobRight(a, c, j)
  BY Zenon, <1>5 DEF Completed, JobRight
<1>7. InFlight(b, c)
  BY ZenonT(30), <1>2, <1>4, <1>5, <1>6 DEF InFlight
<1>8. MatrixOwn(b, matrix', dead) /\ matrix' \in Recipes
  BY SMTT(30), <1>2, <1>3, <1>4, <1>5, <1>6 DEF MatrixOwn, Recipes
<1>9. Roomy(c) => ShardsOwn(b, c, k_data)
  BY Zenon, <1>2, <1>4, <1>5, <1>6 DEF ShardsOwn
<1> QED  BY Zenon, <1>1, <1>4, <1>5, <1>7, <1>8, <1>9 DEF Alone

\* Setting the job's matrix keeps the invariant.
LEMMA SetKeeps ==
  ASSUME EcInv, cfg.threads = 1, SetMatrix(1)
  PROVE  EcInv'
<1>0. SUFFICES ASSUME NEW a, a = th[1], NEW c, c = cfg, NEW b, b = [a EXCEPT !.job = matrix, !.pc = "keep"]
                PROVE  Alone(b, c, k_data', matrix', dead', wrong')
  <2>1. EcStep([th[1] EXCEPT !.job = matrix, !.pc = "keep"])
    BY Zenon DEF SetMatrix, EcStep
  <2> QED  BY Zenon, <2>1, AloneStep
<1>1. Alone(a, c, k_data, matrix, dead, wrong) /\ c \in EcConfigs
  BY Zenon, <1>0 DEF EcInv
<1>2. a \in Works(c) /\ InFlight(a, c) /\ MatrixOwn(a, matrix, dead) /\ (Roomy(c) => ShardsOwn(a, c, k_data))
  BY Zenon, <1>1 DEF Alone
<1>3. /\ a.now \in Nat /\ Len(a.flight) \in Nat /\ Completed(a) \in Nat /\ a.now = Completed(a) + Len(a.flight)
      /\ c.batch \in Nat \ {0} /\ c.k \in Nat \ {0} /\ c.m \in Nat \ {0} /\ c.blocks \in Nat \ {0}
  BY Zenon, <1>1, <1>2, AloneFacts
<1>4. /\ a.pc = "set" /\ matrix' = matrix
      /\ k_data' = k_data /\ dead' = dead /\ wrong' = wrong
  BY Zenon, <1>0 DEF SetMatrix
<1>41. matrix \in Recipes
  BY Zenon, <1>1 DEF Alone
<1>5. /\ b \in Works(c) /\ b.pc = "keep" /\ b.now = a.now /\ b.flight = a.flight /\ b.kept = a.kept /\ b.job = matrix
  BY Zenon, <1>0, <1>2, <1>41 DEF Works
<1>6. Completed(b) = Completed(a) /\ \A j : JobRight(b, c, j) <=> JobRight(a, c, j)
  BY Zenon, <1>5 DEF Completed, JobRight
<1>7. InFlight(b, c)
  BY Zenon, <1>2, <1>4, <1>5, <1>6 DEF InFlight
<1>8. MatrixOwn(b, matrix, dead)
  BY Zenon, <1>2, <1>4, <1>5, <1>6 DEF MatrixOwn
<1>9. Roomy(c) => ShardsOwn(b, c, k_data)
  BY Zenon, <1>2, <1>4, <1>5, <1>6 DEF ShardsOwn
<1> QED  BY Zenon, <1>1, <1>4, <1>5, <1>7, <1>8, <1>9 DEF Alone

\* Keeping the matrix and submitting keep the invariant: the slot is not one of
\* a job in flight.
LEMMA SubmitKeeps ==
  ASSUME EcInv, cfg.threads = 1, KeepAndSubmit(1)
  PROVE  EcInv'
<1>0. SUFFICES ASSUME NEW a, a = th[1], NEW c, c = cfg, NEW b, b = [a EXCEPT !.kept[a.now % c.batch] = matrix, !.now = @ + 1, !.pc = "next",
                                  !.flight = Append(@, [recipe |-> <<1, a.now + 1>>, matrix |-> a.job, block |-> a.now % c.blocks])]
                PROVE  Alone(b, c, k_data', matrix', dead', wrong')
  <2>1. EcStep([th[1] EXCEPT !.kept[th[1].now % cfg.batch] = matrix, !.now = @ + 1, !.pc = "next",
                               !.flight = Append(@, [recipe |-> <<1, th[1].now + 1>>, matrix |-> th[1].job, block |-> th[1].now % cfg.blocks])])
    BY Zenon DEF KeepAndSubmit, EcStep, Recipe, Kept, Block
  <2> QED  BY ZenonT(30), <2>1, AloneStep
<1>1. Alone(a, c, k_data, matrix, dead, wrong) /\ c \in EcConfigs
  BY Zenon, <1>0 DEF EcInv
<1>2. a \in Works(c) /\ InFlight(a, c) /\ MatrixOwn(a, matrix, dead) /\ (Roomy(c) => ShardsOwn(a, c, k_data))
  BY Zenon, <1>1 DEF Alone
<1>3. /\ a.now \in Nat /\ Len(a.flight) \in Nat /\ Completed(a) \in Nat /\ a.now = Completed(a) + Len(a.flight)
      /\ c.batch \in Nat \ {0} /\ c.k \in Nat \ {0} /\ c.m \in Nat \ {0} /\ c.blocks \in Nat \ {0}
  BY Zenon, <1>1, <1>2, AloneFacts
<1>4. /\ a.pc = "keep" /\ matrix' = matrix
      /\ k_data' = k_data /\ dead' = dead /\ wrong' = wrong
  BY Zenon, <1>0 DEF KeepAndSubmit
<1>41. matrix = <<1, a.now + 1>> /\ a.job = <<1, a.now + 1>> /\ Len(a.flight) < c.batch
  BY Zenon, <1>2, <1>4 DEF MatrixOwn, InFlight
<1>42. a.now % c.batch \in 0..(c.batch - 1) /\ a.now % c.blocks \in 0..(c.blocks - 1)
  <2>1. a.now \in Int
    BY <1>3
  <2> QED  BY Zenon, <1>1, <2>1, BlockIn
<1> DEFINE job == [recipe |-> <<1, a.now + 1>>, matrix |-> <<1, a.now + 1>>, block |-> a.now % c.blocks]
<1>43. job \in EcJobs /\ <<1, a.now + 1>> \in Recipes
  <2>1. <<1, a.now + 1>> \in Recipes
    <3>1. \A n \in Nat : 1 \in Nat /\ n + 1 \in Nat
      OBVIOUS
    <3> QED  BY Zenon, <1>3, <3>1 DEF Recipes
  <2>2. a.now % c.blocks \in Nat
    BY <1>3, <1>42
  <2> QED  BY Zenon, <2>1, <2>2 DEF EcJobs
<1>44. a.flight \in Seq(EcJobs) /\ a.kept \in [0..(c.batch - 1) -> Recipes]
  BY Zenon, <1>2 DEF Works
<1>45. b = [a EXCEPT !.kept = [a.kept EXCEPT ![a.now % c.batch] = <<1, a.now + 1>>], !.now = a.now + 1, !.pc = "next",
                     !.flight = Append(a.flight, job)]
  BY Zenon, <1>0, <1>41
<1> HIDE DEF job
<1>46. /\ Append(a.flight, job) \in Seq(EcJobs) /\ Len(Append(a.flight, job)) = Len(a.flight) + 1
       /\ Append(a.flight, job)[Len(a.flight) + 1] = job
       /\ \A i \in 1..Len(a.flight) : Append(a.flight, job)[i] = a.flight[i]
  BY <1>43, <1>44
<1>47. /\ [a.kept EXCEPT ![a.now % c.batch] = <<1, a.now + 1>>] \in [0..(c.batch - 1) -> Recipes]
       /\ a.now + 1 \in Nat
  <2>1. a.now + 1 \in Nat
    BY <1>3, CountSubmit, Zenon
  <2> DEFINE s == a.now % c.batch
             r == <<1, a.now + 1>>
  <2>2. s \in 0..(c.batch - 1) /\ r \in Recipes
    BY Zenon, <1>42, <1>43
  <2> HIDE DEF s, r
  <2>3. [a.kept EXCEPT ![s] = r] \in [0..(c.batch - 1) -> Recipes]
    BY Zenon, <1>44, <2>2
  <2> QED  BY Zenon, <2>1, <2>3 DEF s, r
<1>5. /\ b.pc = "next" /\ b.now = a.now + 1 /\ b.flight = Append(a.flight, job)
      /\ b.kept = [a.kept EXCEPT ![a.now % c.batch] = <<1, a.now + 1>>]
      /\ b \in Works(c)
  <2>1. Append(a.flight, job) \in Seq(EcJobs)
    BY Zenon, <1>46
  <2> QED  BY ZenonT(30), <1>2, <1>45, <1>47, <2>1 DEF Works
<1>6. Completed(b) = Completed(a)
  <2>1. (a.now + 1) - (Len(a.flight) + 1) = a.now - Len(a.flight)
    BY <1>3, CountSubmit, ZenonT(30)
  <2> QED  BY <1>5, <1>46, <2>1, Zenon DEF Completed
<1>7. InFlight(b, c)
  <2>1. ASSUME NEW j \in (Completed(a) + 1)..(a.now + 1) PROVE JobRight(b, c, j)
    <3>1. CASE j = a.now + 1
      <4>1. j - Completed(b) = Len(a.flight) + 1 /\ j - 1 = a.now
        BY SMTT(20), <1>3, <1>6, <3>1
      <4>2. b.flight[j - Completed(b)] = job
        BY Zenon, <1>5, <1>46, <4>1
      <4>3. b.kept[a.now % c.batch] = <<1, j>>
        BY Zenon, <1>5, <1>42, <1>44, <3>1
      <4> QED  BY Zenon, <3>1, <4>1, <4>2, <4>3 DEF JobRight, job
    <3>2. CASE j \in (Completed(a) + 1)..a.now
      <4>1. JobRight(a, c, j)
        BY Zenon, <1>2, <3>2 DEF InFlight
      <4>2. j - Completed(a) \in 1..Len(a.flight) /\ j - 1 \in Int
        <5>1. a.now \in Nat /\ Completed(a) \in Nat /\ Len(a.flight) \in Nat /\ a.now = Completed(a) + Len(a.flight)
          BY Zenon, <1>3
        <5>2. j \in Int /\ Completed(a) + 1 <= j /\ j <= a.now
          BY <3>2, <5>1
        <5> QED  BY <5>1, <5>2, CountPlace, Zenon
      <4>3. b.flight[j - Completed(b)] = a.flight[j - Completed(a)]
        <5>1. b.flight = Append(a.flight, job) /\ Completed(b) = Completed(a)
          BY Zenon, <1>5, <1>6
        <5>2. \A i \in 1..Len(a.flight) : Append(a.flight, job)[i] = a.flight[i]
          BY Zenon, <1>46
        <5> QED  BY ZenonT(30), <4>2, <5>1, <5>2
      <4>4. (j - 1) % c.batch # a.now % c.batch /\ (j - 1) % c.batch \in 0..(c.batch - 1)
        BY Zenon, <1>1, <1>2, <1>41, <3>2, <4>2, OwnSlots, BlockIn
      <4>5. b.kept[(j - 1) % c.batch] = a.kept[(j - 1) % c.batch]
        BY SMTT(20), <1>5, <1>44, <4>4
      <4> QED  BY Zenon, <4>1, <4>3, <4>5 DEF JobRight
    <3>3. j = a.now + 1 \/ j \in (Completed(a) + 1)..a.now
      BY SMTT(30), <1>3
    <3> QED  BY Zenon, <3>1, <3>2, <3>3
  <2>2. Len(b.flight) <= c.batch
    <3> DEFINE n == Len(a.flight)
    <3>1. n \in Nat /\ n < c.batch /\ Len(b.flight) = n + 1
      BY Zenon, <1>3, <1>5, <1>41, <1>46
    <3> HIDE DEF n
    <3>2. n + 1 <= c.batch
      BY SMTT(20), <1>3, <3>1
    <3> QED  BY Zenon, <3>1, <3>2
  <2> QED  BY Zenon, <1>3, <1>5, <1>6, <2>1, <2>2 DEF InFlight
<1>8. MatrixOwn(b, matrix, dead)
  BY Zenon, <1>2, <1>5, <1>6 DEF MatrixOwn
<1>9. ASSUME Roomy(c) PROVE ShardsOwn(b, c, k_data)
  <2>1. /\ \A j \in (Completed(a) + 1)..a.now : Holding(c, k_data, j)
        /\ Holding(c, k_data, a.now + 1)
    BY Zenon, <1>2, <1>4, <1>9 DEF ShardsOwn
  <2>2. \A j \in (Completed(a) + 1)..(a.now + 1) : j = a.now + 1 \/ j \in (Completed(a) + 1)..a.now
    BY SMTT(30), <1>3
  <2>3. \A j \in (Completed(a) + 1)..(a.now + 1) : Holding(c, k_data, j)
    BY Zenon, <2>1, <2>2
  <2> QED  BY Zenon, <1>5, <1>6, <2>3 DEF ShardsOwn
<1> QED  BY Zenon, <1>1, <1>4, <1>5, <1>7, <1>8, <1>9 DEF Alone

\* A completed job, the oldest in flight, used its own inputs; its matrix is
\* deleted for the first time.
LEMMA DequeueKeeps ==
  ASSUME EcInv, cfg.threads = 1, Dequeue(1)
  PROVE  EcInv'
<1>0. SUFFICES ASSUME NEW a, a = th[1], NEW c, c = cfg, NEW b, b = [a EXCEPT !.flight = Tail(@)]
                PROVE  Alone(b, c, k_data', matrix', dead', wrong')
  <2>1. EcStep([th[1] EXCEPT !.flight = Tail(@)])
    BY Zenon DEF Dequeue, EcStep
  <2> QED  BY Zenon, <2>1, AloneStep
<1>1. Alone(a, c, k_data, matrix, dead, wrong) /\ c \in EcConfigs
  BY Zenon, <1>0 DEF EcInv
<1>2. a \in Works(c) /\ InFlight(a, c) /\ MatrixOwn(a, matrix, dead) /\ (Roomy(c) => ShardsOwn(a, c, k_data))
  BY Zenon, <1>1 DEF Alone
<1>3. /\ a.now \in Nat /\ Len(a.flight) \in Nat /\ Completed(a) \in Nat /\ a.now = Completed(a) + Len(a.flight)
      /\ c.batch \in Nat \ {0} /\ c.k \in Nat \ {0} /\ c.m \in Nat \ {0} /\ c.blocks \in Nat \ {0}
  BY Zenon, <1>1, <1>2, AloneFacts
<1> DEFINE gone == a.kept[(a.now - Len(a.flight)) % c.batch]
           job == Head(a.flight)
<1>4. /\ a.pc = "next" /\ a.flight # <<>> /\ matrix' = matrix /\ k_data' = k_data
      /\ dead' = dead \cup {gone}
      /\ wrong' = wrong \cup (IF job.matrix # job.recipe \/ job.matrix \in dead THEN {"matrix"} ELSE {})
                        \cup (IF gone \in dead THEN {"deleted twice"} ELSE {})
                        \cup (IF \E p \in 0..(c.k - 1) : k_data[job.block][p] # job.recipe THEN {"shards"} ELSE {})
  BY Zenon, <1>0 DEF Dequeue, Kept
<1>41. a.flight \in Seq(EcJobs)
  BY Zenon, <1>2 DEF Works
<1>42. /\ Tail(a.flight) \in Seq(EcJobs) /\ Len(Tail(a.flight)) = Len(a.flight) - 1 /\ Len(a.flight) >= 1
       /\ job = a.flight[1]
       /\ \A i \in 1..(Len(a.flight) - 1) : Tail(a.flight)[i] = a.flight[i + 1]
  <2> SUFFICES ASSUME NEW f \in Seq(EcJobs), f # <<>>
               PROVE  /\ Tail(f) \in Seq(EcJobs) /\ Len(Tail(f)) = Len(f) - 1 /\ Len(f) >= 1
                      /\ Head(f) = f[1]
                      /\ \A i \in 1..(Len(f) - 1) : Tail(f)[i] = f[i + 1]
    BY Zenon, <1>4, <1>41
  <2>1. Tail(f) \in Seq(EcJobs) /\ Len(Tail(f)) = Len(f) - 1
    OBVIOUS
  <2>2. Len(f) >= 1 /\ Head(f) = f[1]
    OBVIOUS
  <2>3. \A i \in 1..(Len(f) - 1) : Tail(f)[i] = f[i + 1]
    OBVIOUS
  <2> QED  BY Zenon, <2>1, <2>2, <2>3
<1>43. a.now = Completed(a) + Len(a.flight) /\ Completed(a) + 1 \in (Completed(a) + 1)..a.now
  BY SMTT(20), <1>3, <1>42
<1>44. JobRight(a, c, Completed(a) + 1)
  BY Zenon, <1>2, <1>43 DEF InFlight
<1>45. /\ (Completed(a) + 1) - Completed(a) = 1 /\ (Completed(a) + 1) - 1 = Completed(a)
       /\ a.now - Len(a.flight) = Completed(a)
  BY <1>3 DEF Completed
<1>46. /\ job = [recipe |-> <<1, Completed(a) + 1>>, matrix |-> <<1, Completed(a) + 1>>, block |-> Completed(a) % c.blocks]
       /\ gone = <<1, Completed(a) + 1>>
  BY Zenon, <1>42, <1>44, <1>45 DEF JobRight
<1> HIDE DEF job, gone
<1>47. gone \in Recipes /\ gone \notin dead /\ job.matrix = gone /\ job.recipe = gone
  <2>1. gone \in Recipes
    BY SMTT(20), <1>3, <1>46 DEF Recipes
  <2>2. \A d \in dead : d[2] <= Completed(a)
    BY Zenon, <1>2 DEF MatrixOwn
  <2>3. gone[2] = Completed(a) + 1
    BY Zenon, <1>46
  <2>4. gone \notin dead
    BY <1>3, <2>2, <2>3
  <2> QED  BY Zenon, <1>46, <2>1, <2>4
<1>5. /\ b \in Works(c) /\ b.pc = "next" /\ b.now = a.now /\ b.flight = Tail(a.flight) /\ b.kept = a.kept
  <2>1. Tail(a.flight) \in Seq(EcJobs)
    BY Zenon, <1>42
  <2>2. b = [a EXCEPT !.flight = Tail(a.flight)]
    BY Zenon, <1>0
  <2> HIDE DEF job
  <2> QED  BY Zenon, <1>2, <1>4, <2>1, <2>2 DEF Works
<1>6. Completed(b) = Completed(a) + 1
  BY <1>3, <1>5, <1>42 DEF Completed
<1>7. InFlight(b, c)
  <2>1. ASSUME NEW j \in ((Completed(a) + 1) + 1)..a.now PROVE JobRight(b, c, j)
    <3>1. JobRight(a, c, j)
      BY <1>2, <1>3 DEF InFlight
    <3>2. j - (Completed(a) + 1) \in 1..(Len(a.flight) - 1) /\ (j - (Completed(a) + 1)) + 1 = j - Completed(a)
      <4>1. a.now \in Nat /\ Completed(a) \in Nat /\ Len(a.flight) \in Nat /\ a.now = Completed(a) + Len(a.flight)
        BY Zenon, <1>3
      <4>2. j \in Int /\ (Completed(a) + 1) + 1 <= j /\ j <= a.now
        BY <4>1
      <4>3. ASSUME NEW e \in Nat, NEW l \in Nat, NEW n \in Nat, n = e + l, (e + 1) + 1 <= j, j <= n
            PROVE  j - (e + 1) \in 1..(l - 1) /\ (j - (e + 1)) + 1 = j - e
        <5>1. j \in Int
          BY Zenon, <4>2
        <5> QED  BY SMTT(30), <4>3, <5>1
      <4> QED  BY <4>1, <4>2, <4>3, Zenon
    <3>3. b.flight[j - Completed(b)] = a.flight[j - Completed(a)]
      BY <1>5, <1>6, <1>42, <3>2, ZenonT(30)
    <3> QED  BY Zenon, <1>5, <3>1, <3>3 DEF JobRight
  <2>2. Len(b.flight) <= c.batch
    BY SMTT(20), <1>2, <1>3, <1>5, <1>42 DEF InFlight
  <2>3. Completed(b) \in Nat
    BY SMTT(30), <1>3, <1>6
  <2> QED  BY Zenon, <1>5, <1>6, <2>1, <2>2, <2>3 DEF InFlight
<1>8. MatrixOwn(b, matrix, dead')
  <2>1. \A d \in dead' : d[2] <= Completed(a) + 1
    <3>1. \A d \in dead : d[2] <= Completed(a) /\ d[2] \in Nat
      BY Zenon, <1>1, <1>2 DEF MatrixOwn, Alone, Recipes
    <3>2. gone[2] = Completed(a) + 1
      BY Zenon, <1>46
    <3>3. \A u, v \in Nat : u <= v => u <= v + 1
      OBVIOUS
    <3>4. \A d \in dead : d[2] <= Completed(a) + 1
      BY <1>3, <3>1, <3>3, Zenon
    <3>5. Completed(a) + 1 <= Completed(a) + 1
      BY <1>3
    <3> QED  BY Zenon, <1>4, <3>2, <3>4, <3>5
  <2> QED  BY Zenon, <1>5, <1>6, <2>1 DEF MatrixOwn
<1>9. Roomy(c) => ShardsOwn(b, c, k_data)
  <2>1. \A j \in ((Completed(a) + 1) + 1)..a.now : j \in (Completed(a) + 1)..a.now
    BY <1>3
  <2> QED  BY Zenon, <1>2, <1>5, <1>6, <2>1 DEF ShardsOwn
<1>10. wrong' \cap {"matrix", "deleted twice"} = {}
  BY Zenon, <1>1, <1>4, <1>47 DEF Alone
<1>11. ASSUME Roomy(c) PROVE "shards" \notin wrong'
  <2>1. Holding(c, k_data, Completed(a) + 1)
    BY Zenon, <1>2, <1>43, <1>11 DEF ShardsOwn
  <2>2. ~\E p \in 0..(c.k - 1) : k_data[job.block][p] # job.recipe
    BY Zenon, <1>45, <1>46, <2>1 DEF Holding
  <2> QED  BY Zenon, <1>1, <1>4, <1>47, <1>11, <2>2 DEF Alone
<1>12. dead' \subseteq Recipes
  BY Zenon, <1>1, <1>4, <1>47 DEF Alone
<1> QED  BY Zenon, <1>1, <1>4, <1>5, <1>7, <1>8, <1>9, <1>10, <1>11, <1>12 DEF Alone

\* Every step of the threads keeps the invariant.
LEMMA EcKeeps == EcInv /\ [ENext]_evars => EcInv'
<1> SUFFICES ASSUME EcInv, [ENext]_evars PROVE EcInv'
  BY Zenon
<1>1. CASE UNCHANGED evars
  BY Zenon, <1>1 DEF EcInv, evars
<1>2. ASSUME ENext PROVE cfg' = cfg
  BY Zenon, <1>2 DEF ENext, Begin, CopyShard, CreateMatrix, SetMatrix, KeepAndSubmit, Dequeue
<1>3. CASE ENext /\ cfg.threads # 1
  BY Zenon, <1>2, <1>3 DEF EcInv
<1>4. CASE ENext /\ cfg.threads = 1
  <2>1. EThreads = {1}
    BY <1>4 DEF EThreads
  <2>2. Begin(1) \/ CopyShard(1) \/ CreateMatrix(1) \/ SetMatrix(1) \/ KeepAndSubmit(1) \/ Dequeue(1)
    BY Zenon, <1>4, <2>1 DEF ENext
  <2> QED  BY Zenon, <1>4, <2>2, BeginKeeps, CopyKeeps, CreateKeeps, SetKeeps, SubmitKeeps, DequeueKeeps
<1> QED  BY Zenon, <1>1, <1>3, <1>4

\* With one thread a decoding job uses the matrix made for it, deleted once,
\* for any batch; and with a block for every job of a batch and k <= m the
\* shards copied for it.
THEOREM DecodesOwnInputs == ESpec => []JobInputsOwn
<1>1. EcInv => JobInputsOwn
  <2> SUFFICES ASSUME EcInv, ~(cfg.threads > 1) PROVE JobInputsOwn
    BY Zenon DEF JobInputsOwn
  <2>1. /\ cfg.threads \in Nat \ {0} /\ cfg.batch \in Nat \ {0} /\ cfg.blocks \in Nat \ {0}
        /\ cfg.k \in Nat \ {0} /\ cfg.m \in Nat \ {0}
    BY Zenon, EcConfig DEF EcInv
  <2>2. Alone(th[1], cfg, k_data, matrix, dead, wrong)
    BY <2>1 DEF EcInv
  <2>3. wrong \cap {"matrix", "deleted twice"} = {} /\ (Roomy(cfg) => "shards" \notin wrong)
    BY Zenon, <2>2 DEF Alone
  <2>4. ~Roomy(cfg) => cfg.batch > cfg.blocks \/ cfg.k > cfg.m
    BY <2>1 DEF Roomy
  <2> QED  BY Zenon, <2>3, <2>4 DEF JobInputsOwn
<1> QED  BY <1>1, EcStarts, EcKeeps, PTL DEF ESpec

=============================================================================
