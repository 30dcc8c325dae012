---------------------------- MODULE ReceiveControl ----------------------------
(***************************************************************************)
(* rdma_bench/receive_control.cpp: worker cores take telemetry packets     *)
(* from their queues, unwrap a clock of 18 bits into 64-bit time stamps    *)
(* and append them; after SIGINT the main core waits for the workers and   *)
(* merges the vectors of all queues.  The network delays, reorders and     *)
(* loses packets.                                                          *)
(***************************************************************************)
EXTENDS Integers, Sequences, SequencesExt, FiniteSetsExt

CONSTANTS Cores,       \* the queues, one per worker core (TX_RX_QUEUE, 1 as shipped)
          Clock,       \* 1 << 18, the clock's modulus
          Low,         \* 100000: below it a smaller stamp means a wrap
          SeqFloor,    \* 10000000: late packets above it are dropped
          Gaps,        \* bound: ticks between two packets of one queue
          MaxSent      \* bound: packets sent
ASSUME ClockAssumption == Low \in 1..Clock /\ MaxSent \in 1..(SeqFloor - 1)

VARIABLES
  src,      \* per queue: seq and time of the last packet sent
  wire,     \* packets under way: [queue, seq, time]
  core,     \* per core: out_timestamp_last, out_timestamp_acc, last_seq_num, vec, pc
  cause,    \* per queue: what may spoil the stamps: "gap" or "late"
  truth,    \* per queue: the true times of the entries of vec
  quit,     \* force_quit
  merged    \* result of MergeResult, or <<>>
rvars == <<src, wire, core, cause, truth, quit, merged>>

RInit ==
  /\ \E s \in {0, SeqFloor} : src = [q \in Cores |-> [seq |-> s, time |-> 0]]
  /\ wire = {} /\ quit = FALSE /\ merged = <<>>
  /\ core = [q \in Cores |-> [last |-> 0, acc |-> 0, seq |-> 0, vec |-> <<>>, pc |-> "loop"]]
  /\ cause = [q \in Cores |-> {}] /\ truth = [q \in Cores |-> <<>>]

Emit(q) ==
  /\ ~quit /\ MapThenSumSet(LAMBDA r : src[r].seq % SeqFloor, Cores) < MaxSent
  /\ \E g \in Gaps :
       /\ src' = [src EXCEPT ![q] = [seq |-> @.seq + 1, time |-> @.time + g]]
       /\ wire' = wire \cup {[queue |-> q, seq |-> src[q].seq + 1, time |-> src[q].time + g]}
  /\ UNCHANGED <<core, cause, truth, quit, merged>>
LosePacket ==
  /\ \E p \in wire : wire' = wire \ {p}
  /\ UNCHANGED <<src, core, cause, truth, quit, merged>>

\* A late packet of a high sequence number is dropped.
Late(c, seq) == seq < c.seq /\ seq > SeqFloor
Unwrap(c, out) == IF out < c.last /\ out < Low THEN c.acc + Clock ELSE c.acc
\* keep: out_depth > 19
BugRecorded(c, out, seq, keep) ==
  LET acc == Unwrap(c, out) IN
    [c EXCEPT !.seq = seq, !.acc = acc, !.last = IF keep THEN out ELSE @,
              !.vec = IF keep THEN Append(@, acc + out) ELSE @]
Recorded(c, out, seq, keep) ==
  LET acc == Unwrap(c, out) IN
    [c EXCEPT !.seq = seq, !.acc = acc, !.last = out,
              !.vec = IF keep THEN Append(@, acc + out) ELSE @]
l2fwd_main_loop(q) ==
  /\ core[q].pc = "loop"
  /\ \E p \in {m \in wire : m.queue = q}, keep \in BOOLEAN :
       LET out == p.time % Clock
           c == core[q]
           before == c.acc + c.last     \* the last packet's time, if nothing spoilt it
       IN
         /\ wire' = wire \ {p}
         /\ IF Late(c, p.seq) THEN UNCHANGED <<core, cause, truth>>
            ELSE /\ core' = [core EXCEPT ![q] = Recorded(c, out, p.seq, keep)]
                 /\ truth' = [truth EXCEPT ![q] = IF keep THEN Append(@, p.time) ELSE @]
                 /\ cause' = [cause EXCEPT ![q] = @
                       \cup (IF p.seq < c.seq THEN {"late"} ELSE {})
                       \cup (IF p.time \div Clock > before \div Clock
                                /\ (p.time - before >= Clock \/ out >= Low) THEN {"gap"} ELSE {})]
  /\ UNCHANGED <<src, quit, merged>>
LeaveLoop_(q) ==
  /\ core[q].pc = "loop" /\ quit
  /\ core' = [core EXCEPT ![q].pc = "end"]
  /\ UNCHANGED <<src, wire, cause, truth, quit, merged>>
signal_handler ==
  /\ ~quit /\ quit' = TRUE
  /\ UNCHANGED <<src, wire, core, cause, truth, merged>>

\* The heads of all arrays are in the queue; the first array whose head equals
\* the smallest is advanced.
RECURSIVE MergeFrom(_, _)
MergeFrom(arrs, pos) ==
  LET heads == {i \in DOMAIN arrs : pos[i] <= Len(arrs[i])} IN
    IF heads = {} THEN <<>>
    ELSE LET top == CHOOSE t \in {arrs[i][pos[i]] : i \in heads} : \A i \in heads : t <= arrs[i][pos[i]]
             idx == CHOOSE i \in heads : arrs[i][pos[i]] = top /\ \A j \in heads : arrs[j][pos[j]] = top => i <= j
         IN <<top>> \o MergeFrom(arrs, [pos EXCEPT ![idx] = @ + 1])
MergeResult(arrs) ==
  IF Len(arrs) = 1 THEN arrs[1] ELSE MergeFrom(arrs, [i \in DOMAIN arrs |-> 1])
\* After rte_eal_wait_lcore for every worker.  arrs[i][0] of an empty vector is
\* undefined when there are several: the model stops there.
Merge ==
  /\ quit /\ merged = <<>> /\ \A q \in Cores : core[q].pc = "end"
  /\ Cardinality(Cores) > 1 => \A q \in Cores : core[q].vec # <<>>
  /\ LET qs == SetToSortSeq(Cores, <) IN
       merged' = << MergeResult([i \in DOMAIN qs |-> core[qs[i]].vec]) >>
  /\ UNCHANGED <<src, wire, core, cause, truth, quit>>

RNext ==
  \/ \E q \in Cores : Emit(q) \/ l2fwd_main_loop(q) \/ LeaveLoop_(q)
  \/ LosePacket \/ signal_handler \/ Merge
----------------------------------------------------------------------------
(* Properties *)

\* A core's stamps are the true times of the packets it kept, as if the clock
\* had never wrapped, and the file holds the stamps of all cores, each once and
\* in the order of time (the sort after the merge is commented out), however
\* packets are lost or delayed: if each wrap is followed within Low ticks by a
\* packet of the queue, and no delayed packet was taken, which can happen only
\* while sequence numbers are below SeqFloor.
FileTrue ==
  LET many(t, s) == Cardinality({i \in DOMAIN s : s[i] = t})
      times == UNION {ToSet(truth[q]) : q \in Cores}
  IN
    /\ \A q \in Cores : cause[q] = {} => core[q].vec = truth[q]
    /\ \A q \in Cores : src[q].seq >= SeqFloor => "late" \notin cause[q]
    /\ merged # <<>> /\ (\A q \in Cores : cause[q] = {}) =>
         /\ \A i \in 1..(Len(merged[1]) - 1) : merged[1][i] <= merged[1][i + 1]
         /\ \A t \in times \cup ToSet(merged[1]) :
              many(t, merged[1]) = MapThenSumSet(LAMBDA q : many(t, truth[q]), Cores)
=============================================================================
