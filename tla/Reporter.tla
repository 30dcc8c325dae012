------------------------------ MODULE Reporter ------------------------------
(***************************************************************************)
(* The statistics of the benchmark workers (utils/bench/reporter.h), the   *)
(* clock arithmetic behind their latencies (utils/hs_clock.h) and the      *)
(* once-a-second collection by the main thread (simple_reporter.h), which  *)
(* reads the workers' counters while they are being written.               *)
(*                                                                         *)
(* A worker subtracts the time at which an operation starts and adds the   *)
(* time at which it ends, so that one 64-bit number holds the sum of all   *)
(* latencies.  The clock counts nanoseconds since 1970: a handful of       *)
(* operations in flight exceeds the signed range, and the build wraps.     *)
(***************************************************************************)
EXTENDS Integers, Sequences, SequencesExt, FiniteSetsExt

CONSTANTS Threads,     \* the indices of worker_stats
          Word,        \* the modulus of the timer: 2^64 in the code
          Epoch,       \* the clock when the benchmark starts
          Ticks,       \* bound: how far the clock runs
          MaxStarts,   \* bound: operations started
          MaxReports   \* life_time: collections of the main thread

ASSUME ReporterAssumption == /\ Threads \subseteq Nat
                             /\ Word % 2 = 0
                             /\ Epoch < Word

VARIABLES clock,              \* high_resolution_clock::now()
          num_ops_finished,   \* per worker
          time_point,         \* per worker: the timer, as a residue
          started,            \* per worker: starts of the operations in flight
          adding,             \* per worker: finish_batch_op before add_now_time
          spent,              \* history: latencies of the finished operations
          starts,             \* history: operations started
          to_read,            \* reporter: fields still to be read
          new_stat, last_stat,
          gaps,               \* history: the sum of all gaps reported
          quiet,              \* history: no operation open since it began
          reports

rpvars == <<clock, num_ops_finished, time_point, started, adding, spent, starts,
            to_read, new_stat, last_stat, gaps, quiet, reports>>

NoStat == [ops |-> 0, timer |-> 0]
\* get_now_timepoint: the residue as a signed number
Signed(n) == IF n < Word \div 2 THEN n ELSE n - Word
SumOver(f) == MapThenSumSet(LAMBDA w : f[w], Threads)
\* The fields in the order in which report_collect reads them: worker by
\* worker, the number of operations first
Fields == LET ws == SetToSortSeq(Threads, <)
          IN  [i \in 1 .. 2 * Len(ws) |->
                 <<ws[(i + 1) \div 2], IF i % 2 = 1 THEN "ops" ELSE "timer">>]

RpInit ==
  /\ clock = Epoch
  /\ num_ops_finished = [w \in Threads |-> 0]
  /\ time_point = [w \in Threads |-> 0]
  /\ started = [w \in Threads |-> <<>>]
  /\ adding = [w \in Threads |-> 0]
  /\ spent = [w \in Threads |-> 0]
  /\ starts = [w \in Threads |-> 0]
  /\ to_read = <<>>
  /\ new_stat = NoStat /\ last_stat = NoStat /\ gaps = NoStat
  /\ quiet = TRUE /\ reports = 0

-----------------------------------------------------------------------------
Tick ==
  /\ clock < Epoch + Ticks
  /\ clock' = clock + 1
  /\ UNCHANGED <<num_ops_finished, time_point, started, adding, spent, starts,
                 to_read, new_stat, last_stat, gaps, quiet, reports>>

reporterSide == <<to_read, new_stat, last_stat, gaps, reports>>

start_one_op(w) ==
  /\ adding[w] = 0 /\ SumOver(starts) < MaxStarts
  /\ time_point' = [time_point EXCEPT ![w] = (@ - clock) % Word]
  /\ started' = [started EXCEPT ![w] = Append(@, clock)]
  /\ starts' = [starts EXCEPT ![w] = @ + 1]
  /\ quiet' = FALSE
  /\ UNCHANGED <<clock, num_ops_finished, adding, spent, reporterSide>>

\* finish_batch_op: the counter first ...
finish_batch_op(w, n) ==
  /\ adding[w] = 0 /\ n <= Len(started[w])
  /\ num_ops_finished' = [num_ops_finished EXCEPT ![w] = @ + n]
  /\ adding' = [adding EXCEPT ![w] = n]
  /\ UNCHANGED <<clock, time_point, started, spent, starts, quiet, reporterSide>>

BugAddNowTime(w) ==
  /\ adding[w] > 0
  /\ time_point' = [time_point EXCEPT ![w] = (@ + clock) % Word]
  /\ spent' = [spent EXCEPT ![w] =
                 @ + FoldLeft(LAMBDA s, t : s + (clock - t), 0,
                              SubSeq(started[w], 1, adding[w]))]
  /\ started' = [started EXCEPT ![w] = SubSeq(@, adding[w] + 1, Len(@))]
  /\ adding' = [adding EXCEPT ![w] = 0]
  /\ UNCHANGED <<clock, num_ops_finished, starts, quiet, reporterSide>>
\* ... and then the timer: the present time once for every operation
add_now_time(w) ==
  /\ adding[w] > 0
  /\ time_point' = [time_point EXCEPT ![w] = (@ + clock * adding[w]) % Word]
  /\ spent' = [spent EXCEPT ![w] =
                 @ + FoldLeft(LAMBDA s, t : s + (clock - t), 0,
                              SubSeq(started[w], 1, adding[w]))]
  /\ started' = [started EXCEPT ![w] = SubSeq(@, adding[w] + 1, Len(@))]
  /\ adding' = [adding EXCEPT ![w] = 0]
  /\ UNCHANGED <<clock, num_ops_finished, starts, quiet, reporterSide>>

-----------------------------------------------------------------------------
workerSide == <<clock, num_ops_finished, time_point, started, adding, spent, starts>>

\* report: the main thread begins a collection
Collect ==
  /\ to_read = <<>> /\ reports < MaxReports
  /\ reports' = reports + 1
  /\ to_read' = Fields
  /\ new_stat' = NoStat
  /\ quiet' = \A w \in Threads : started[w] = <<>>
  /\ UNCHANGED <<workerSide, last_stat, gaps>>

\* The gap to the last collection is what is printed
Subtract ==
  /\ gaps' = [ops |-> gaps.ops + (new_stat'.ops - last_stat.ops),
              timer |-> (gaps.timer + (new_stat'.timer - last_stat.timer)) % Word]
  /\ last_stat' = new_stat'

\* One field is read and added; after the last one the gap is reported.
report_collect ==
  /\ to_read # <<>>
  /\ LET w == Head(to_read)[1]
     IN  new_stat' = IF Head(to_read)[2] = "ops"
                     THEN [new_stat EXCEPT !.ops = @ + num_ops_finished[w]]
                     ELSE [new_stat EXCEPT !.timer = (@ + time_point[w]) % Word]
  /\ to_read' = Tail(to_read)
  /\ IF Len(to_read) = 1 THEN Subtract ELSE UNCHANGED <<last_stat, gaps>>
  /\ UNCHANGED <<workerSide, quiet, reports>>

RpNext ==
  \/ Tick
  \/ \E w \in Threads : \/ start_one_op(w)
                        \/ \E n \in 1 .. MaxStarts : finish_batch_op(w, n)
                        \/ add_now_time(w)
  \/ Collect
  \/ report_collect

-----------------------------------------------------------------------------
(* Properties *)

\* When no operation was open from the beginning of a collection to now, the
\* gaps printed so far add up: to all operations, and to their true latencies,
\* although the timers have left the signed range while operations were in
\* flight (minus_now_time and add_now_time work on nanoseconds since 1970).
LatencySurvivesWrap ==
  to_read = <<>> /\ quiet /\ (\A w \in Threads : adding[w] = 0) =>
    gaps.ops = SumOver(num_ops_finished) /\ Signed(gaps.timer) = SumOver(spent)
=============================================================================
