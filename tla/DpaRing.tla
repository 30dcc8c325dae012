------------------------------ MODULE DpaRing ------------------------------
(***************************************************************************)
(* One DPA thread that reflects packets: the NIC fills receive buffers and *)
(* completion entries, the event handler polls the completion queue by     *)
(* owner bit, rewrites the header in the receive buffer, posts that same   *)
(* buffer on the send queue, rings the doorbell, reposts the receive entry *)
(* and steps the completion queue; the NIC transmits from the send queue.  *)
(* Sources: flexio/dpa_refactor (host main and device handler) and         *)
(* wrapper_flexio (queue memory, ring operations).                         *)
(*                                                                         *)
(* The 16-bit and 32-bit counters of the code wrap at WqeMod and CtrMod.   *)
(* rx_n, rd_n and tx_n count packets received, consumed and transmitted;   *)
(* they never wrap and only the NIC's own side reads rx_n and tx_n.        *)
(***************************************************************************)
EXTENDS MacSwap

CONSTANTS Depth,       \* entries of RQ, CQ and SQ (1 << LOG_*_RING_DEPTH)
          WqeMod,      \* 2^16: wqe_counter of a CQE, doorbell records
          CtrMod,      \* 2^32: cq_idx, sq_pi, sq_wqe_seg_idx
          Frames,      \* frames the wire can carry: [hdr, len]
          MaxPackets,  \* bound: packets of one behaviour
          MaxInFlight  \* bound: packets received and not yet transmitted

ASSUME DepthAssumption == Depth \in Nat \ {0}
ASSUME WqeModAssumption == WqeMod \in Nat /\ \E k \in 2..WqeMod : WqeMod = Depth * k
ASSUME CtrModAssumption == CtrMod \in Nat /\ \E k \in 1..CtrMod : CtrMod = 4 * (WqeMod * k)
ASSUME FramesAssumption == Frames \subseteq [hdr : Hdr, len : Nat]
ASSUME BoundAssumption == MaxPackets \in Nat /\ MaxInFlight \in Nat

VARIABLES
  host,             \* step of main(): "init", "rule", "run", "up"
  is_initalized,    \* dev_ctx fields
  rq_on_host,       \* where main() put the buffers; read after the init RPC only
  cq_idx,
  cq_hw_owner_bit,
  sq_wqe_seg_idx,
  sq_pi,
  pc,               \* where the event handler is
  cur,              \* the handler's locals: rq_data, data_sz, swqe
  wb,               \* stores of the handler not yet written back
  cqe,              \* CQ ring, as the NIC writes it
  rxbuf,            \* receive buffers
  sqe,              \* data segments of the SQ ring
  rq_dbr,           \* RQ doorbell record
  sq_db,            \* last SQ doorbell
  rx_n, rd_n, tx_n, \* packet counts
  wire              \* last packet transmitted

devVars == <<is_initalized, rq_on_host>>
cqVars  == <<cq_idx, cq_hw_owner_bit, rd_n>>
sqVars  == <<sq_wqe_seg_idx, sq_pi>>
nicVars == <<cqe, rx_n, tx_n, wire>>
vars == <<host, devVars, cqVars, sqVars, nicVars, pc, cur, wb, rxbuf, sqe, rq_dbr, sq_db>>

Slots == 0..(Depth - 1)
Slot(i) == i % Depth
\* Number of the pass over the ring, as the one bit the NIC writes.
Epoch(i) == (i \div Depth) % 2

NoBuf == -1
NoPacket == [id |-> -1]
Blank == [id |-> -1]

HandlerSteps == {"process", "prepare", "writeback", "ring", "step_rq", "step_cq"}
----------------------------------------------------------------------------
(* Host side *)

\* CQ::allocate_cq_memory: every CQE starts with owner bit 1.  "n" is the
\* number of the completion last written there; the initial ones belong to
\* the pass before the first.
InitCqe == [s \in Slots |-> [owner |-> 1, wqe_counter |-> 0, len |-> 0, n |-> s - Depth]]

\* RQ::RQ publishes this many receive entries before any packet arrives.
BugPostedAtStart == Depth + 1
PostedAtStart == Depth

Init ==
  /\ host = "init"
  /\ is_initalized = FALSE
  /\ rq_on_host \in BOOLEAN
  /\ cq_idx = 0 /\ cq_hw_owner_bit = 0
  /\ sq_wqe_seg_idx = 0 /\ sq_pi = 0
  /\ pc = "off"
  /\ cur = [buf |-> 0, len |-> 0, at |-> 0]
  /\ wb = {}
  /\ cqe = InitCqe
  /\ rxbuf = [s \in Slots |-> Blank]
  /\ sqe = [s \in Slots |-> [buf |-> NoBuf, len |-> 0]]
  /\ rq_dbr = PostedAtStart % WqeMod
  /\ sq_db = 0
  /\ rx_n = 0 /\ rd_n = 0 /\ tx_n = 0
  /\ wire = NoPacket

\* The init RPC: init_cq, init_rq, init_sq, init_send_sq.
DeviceInit ==
  /\ host = "init"
  /\ host' = "rule"
  /\ cq_idx' = 0
  /\ cq_hw_owner_bit' = 1
  /\ sq_wqe_seg_idx' = 0
  /\ sqe' = [s \in Slots |-> [buf |-> NoBuf, len |-> 0]]
  /\ is_initalized' = TRUE
  /\ UNCHANGED <<rq_on_host, rd_n, sq_pi, nicVars, pc, cur, wb, rxbuf, rq_dbr, sq_db>>

\* Installing the steering rule: from here on packets reach the RQ.
CreateRule ==
  /\ host = "rule"
  /\ host' = "run"
  /\ UNCHANGED <<devVars, cqVars, sqVars, nicVars, pc, cur, wb, rxbuf, sqe, rq_dbr, sq_db>>

EventHandlerRun ==
  /\ host = "run"
  /\ host' = "up"
  /\ pc' = "start"
  /\ UNCHANGED <<devVars, cqVars, sqVars, nicVars, cur, wb, rxbuf, sqe, rq_dbr, sq_db>>
----------------------------------------------------------------------------
(* The NIC (external; modelled from how the code uses it) *)

Posted == rq_dbr # rx_n % WqeMod

\* A packet arrives while a receive entry is posted: the buffer, then the CQE.
NicReceive(f) ==
  /\ host \in {"run", "up"}
  /\ Posted
  /\ rx_n < MaxPackets
  /\ rx_n - tx_n < MaxInFlight
  /\ rxbuf' = [rxbuf EXCEPT ![Slot(rx_n)] =
                 [id |-> rx_n, orig |-> f, hdr |-> f.hdr]]
  /\ cqe' = [cqe EXCEPT ![Slot(rx_n)] =
                 [owner |-> Epoch(rx_n), wqe_counter |-> rx_n % WqeMod,
                  len |-> f.len, n |-> rx_n]]
  /\ rx_n' = rx_n + 1
  /\ UNCHANGED <<host, devVars, cqVars, sqVars, tx_n, wire, pc, cur, wb, sqe, rq_dbr, sq_db>>

\* The next send entry behind the doorbell is read, and its buffer sent.
NicTransmit ==
  /\ sq_db # tx_n % WqeMod
  /\ LET e == sqe[Slot(tx_n)]
     IN  wire' = [id |-> rxbuf[e.buf].id, orig |-> rxbuf[e.buf].orig,
                  hdr |-> rxbuf[e.buf].hdr, len |-> e.len]
  /\ tx_n' = tx_n + 1
  /\ UNCHANGED <<host, devVars, cqVars, sqVars, cqe, rx_n, pc, cur, wb, rxbuf, sqe, rq_dbr, sq_db>>
----------------------------------------------------------------------------
(* The event handler *)

HandlerStart ==
  /\ pc = "start"
  /\ pc' = IF is_initalized THEN "poll" ELSE "off"
  /\ UNCHANGED <<host, devVars, cqVars, sqVars, nicVars, cur, wb, rxbuf, sqe, rq_dbr, sq_db>>

CqeReady == cqe[Slot(cq_idx)].owner # cq_hw_owner_bit

\* while (flexio_dev_cqe_get_owner(cqe) != cq_hw_owner_bit)
Poll ==
  /\ pc = "poll"
  /\ pc' = IF CqeReady THEN "process" ELSE "poll"
  /\ UNCHANGED <<host, devVars, cqVars, sqVars, nicVars, cur, wb, rxbuf, sqe, rq_dbr, sq_db>>

\* receive_packet: init_dpa_rq_ring gives receive entry i the i-th buffer.
RxBufOf(c) == Slot(c.wqe_counter)

\* The data segment get_next_data_sqe hands out.
DataSqe == ((sq_wqe_seg_idx + 2) % (4 * Depth)) \div 4

\* The handler's locals rq_data, data_sz and swqe are cur.buf, cur.len, cur.at.

\* The header rewrite lands in the receive buffer, in host memory (reached
\* through the window) or in DPA memory; send entries are in DPA memory.
Loc(store) == IF store = "hdr" /\ rq_on_host THEN "window" ELSE "memory"

\* receive_packet and the rewrite of the header (process_packet[_host]).
ProcessPacket ==
  /\ pc = "process"
  /\ cur' = [buf |-> RxBufOf(cqe[Slot(cq_idx)]), len |-> cqe[Slot(cq_idx)].len,
             at |-> cur.at]
  /\ wb' = wb \cup {"hdr"}
  /\ pc' = "prepare"
  /\ UNCHANGED <<host, devVars, cqVars, sqVars, nicVars, rxbuf, sqe, rq_dbr, sq_db>>

\* prepare_send_packet
PrepareSend ==
  /\ pc = "prepare"
  /\ cur' = [cur EXCEPT !.at = DataSqe]
  /\ wb' = wb \cup {"sqe"}
  /\ sq_wqe_seg_idx' = (sq_wqe_seg_idx + 4) % CtrMod
  /\ pc' = "writeback"
  /\ UNCHANGED <<host, devVars, cqVars, sq_pi, nicVars, rxbuf, sqe, rq_dbr, sq_db>>

\* A dirty line leaves the DPA cache, at the latest at the writeback.
HdrVisible ==
  /\ "hdr" \in wb
  /\ wb' = wb \ {"hdr"}
  /\ rxbuf' = [rxbuf EXCEPT ![cur.buf].hdr = SwapMac(@)]
  /\ UNCHANGED <<host, devVars, cqVars, sqVars, nicVars, pc, cur, sqe, rq_dbr, sq_db>>

SqeVisible ==
  /\ "sqe" \in wb
  /\ wb' = wb \ {"sqe"}
  /\ sqe' = [sqe EXCEPT ![cur.at] = [buf |-> cur.buf, len |-> cur.len]]
  /\ UNCHANGED <<host, devVars, cqVars, sqVars, nicVars, pc, cur, rxbuf, rq_dbr, sq_db>>

\* finish_send_packet writes back DPA memory, finish_send_packet_host the
\* window as well.
WrittenBack == {"memory"} \cup (IF rq_on_host THEN {"window"} ELSE {})

\* finish_send_packet[_host], up to the doorbell: wait for the writebacks.
Writeback ==
  /\ pc = "writeback"
  /\ \A store \in wb : Loc(store) \notin WrittenBack
  /\ sq_pi' = (sq_pi + 1) % CtrMod
  /\ pc' = "ring"
  /\ UNCHANGED <<host, devVars, cqVars, sq_wqe_seg_idx, nicVars, wb, cur, rxbuf, sqe,
                 rq_dbr, sq_db>>

BugRingDoorbell ==
  /\ pc = "ring"
  /\ sq_db' = (sq_pi - 1) % WqeMod
  /\ pc' = "step_rq"
  /\ UNCHANGED <<host, devVars, cqVars, sqVars, nicVars, wb, cur, rxbuf, sqe, rq_dbr>>
\* flexio_dev_qp_sq_ring_db
RingDoorbell ==
  /\ pc = "ring"
  /\ sq_db' = sq_pi % WqeMod
  /\ pc' = "step_rq"
  /\ UNCHANGED <<host, devVars, cqVars, sqVars, nicVars, wb, cur, rxbuf, sqe, rq_dbr>>

\* step_rq: one more receive entry is posted.
StepRq ==
  /\ pc = "step_rq"
  /\ rq_dbr' = (rq_dbr + 1) % WqeMod
  /\ pc' = "step_cq"
  /\ UNCHANGED <<host, devVars, cqVars, sqVars, nicVars, wb, cur, rxbuf, sqe, sq_db>>

BugNextOwnerBit(i) == cq_hw_owner_bit
\* The owner bit the handler takes for "not yet written", after stepping to i.
NextOwnerBit(i) == IF Slot(i) = 0 THEN 1 - cq_hw_owner_bit ELSE cq_hw_owner_bit

\* step_cq; the CQ doorbell record takes the value of cq_idx.
StepCq ==
  /\ pc = "step_cq"
  /\ cq_idx' = (cq_idx + 1) % CtrMod
  /\ cq_hw_owner_bit' = NextOwnerBit((cq_idx + 1) % CtrMod)
  /\ rd_n' = rd_n + 1
  /\ pc' = "poll"
  /\ UNCHANGED <<host, devVars, sqVars, nicVars, wb, cur, rxbuf, sqe, rq_dbr, sq_db>>

Handler ==
  \/ HandlerStart \/ Poll \/ ProcessPacket \/ PrepareSend \/ Writeback
  \/ RingDoorbell \/ StepRq \/ StepCq

Next ==
  \/ DeviceInit \/ CreateRule \/ EventHandlerRun
  \/ \E f \in Frames : NicReceive(f)
  \/ NicTransmit
  \/ HdrVisible \/ SqeVisible
  \/ Handler

Spec == Init /\ [][Next]_vars

\* The host program runs, the DPA thread is scheduled, dirty lines are
\* written back, and the NIC drains its send queue; packets need not come.
Fairness ==
  /\ WF_vars(DeviceInit \/ CreateRule \/ EventHandlerRun)
  /\ WF_vars(Handler)
  /\ WF_vars(HdrVisible) /\ WF_vars(SqeVisible)
  /\ WF_vars(NicTransmit)

FairSpec == Spec /\ Fairness
----------------------------------------------------------------------------
(* Properties *)

Packets == [id : 0..MaxPackets, orig : Frames, hdr : Hdr]

\* Every variable keeps the range its C type and the queue depths give it.
TypeOK ==
  /\ host \in {"init", "rule", "run", "up"}
  /\ is_initalized \in BOOLEAN /\ rq_on_host \in BOOLEAN
  /\ cq_idx \in 0..(CtrMod - 1) /\ cq_hw_owner_bit \in {0, 1}
  /\ sq_wqe_seg_idx \in 0..(CtrMod - 1) /\ sq_pi \in 0..(CtrMod - 1)
  /\ pc \in {"off", "start", "poll"} \cup HandlerSteps
  /\ wb \subseteq {"hdr", "sqe"}
  /\ cur \in [buf : Slots, len : Nat, at : Slots]
  /\ cqe \in [Slots -> [owner : {0, 1}, wqe_counter : 0..(WqeMod - 1), len : Nat, n : Int]]
  /\ rxbuf \in [Slots -> {Blank} \cup Packets]
  /\ sqe \in [Slots -> [buf : Slots \cup {NoBuf}, len : Nat]]
  /\ rq_dbr \in 0..(WqeMod - 1) /\ sq_db \in 0..(WqeMod - 1)
  /\ rx_n \in Nat /\ rd_n \in Nat /\ tx_n \in Nat

\* The handler's owner-bit test answers exactly "is there a completion I have
\* not consumed", across every wrap of the ring and of the 16/32-bit counters:
\* no completion is seen twice, taken early, or missed.
PollExact == pc = "poll" => (CqeReady <=> rd_n < rx_n)

\* The NIC may have Depth + 1 completions outstanding, but only between
\* step_rq and step_cq, and then the one it overwrites has been read: a
\* completion still to be read is never overwritten.
CqeKept ==
  /\ rx_n - rd_n <= Depth + (IF pc = "step_cq" THEN 1 ELSE 0)
  /\ \A i \in rd_n..(rx_n - 1) :
       i > rd_n \/ pc # "step_cq" => cqe[Slot(i)].n = i

\* The handler rewrites and sends the buffer of the packet whose turn it is,
\* and the NIC has not put another packet there meanwhile.
RightBuffer ==
  pc \in {"prepare", "writeback", "ring", "step_rq"} =>
    /\ rxbuf[cur.buf].id = rd_n
    /\ cur.len = rxbuf[cur.buf].orig.len

\* The k-th packet on the wire is the k-th packet received, sent back to its
\* sender with its own length (process_packet's contract).
EchoInOrder ==
  wire # NoPacket =>
    /\ wire.id = tx_n - 1
    /\ wire.hdr = Reflected(wire.orig.hdr)
    /\ wire.len = wire.orig.len

\* Every packet that reaches the RQ is sent back, also the ones that arrive
\* between the steering rule and the first run of the handler.
EveryPacketEchoed ==
  \A k \in 1..MaxPackets : (rx_n = k) ~> (tx_n >= k)

\* The comment above the event handler, "Once all packets in the CQ are
\* processed, the CQ will be rearmed to receive new packets events": the
\* handler leaves its loop, arms the CQ and gives up the thread.
Rearmed ==
  (pc = "poll" /\ rd_n = rx_n /\ rx_n = MaxPackets) ~> (pc = "off")

\* The reflector this thread implements when no more than Depth packets are
\* in flight between the two sides of the NIC.
Waiting == [j \in 1..(rx_n - tx_n) |-> rxbuf[Slot(tx_n + j - 1)].orig]
LastOut == IF wire = NoPacket THEN NoPacket ELSE [hdr |-> wire.hdr, len |-> wire.len]
Abstract == INSTANCE Reflector WITH
  queue <- Waiting, out <- LastOut, NoFrame <- NoPacket, Capacity <- Depth

\* Every behaviour of the rings is a behaviour of the FIFO reflector.
ImplementsReflector == Abstract!Spec
============================================================================
