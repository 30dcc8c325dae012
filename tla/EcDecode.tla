------------------------------ MODULE EcDecode ------------------------------
(***************************************************************************)
(* What the threads of ec_bench_decoding share: the surviving shards that  *)
(* enqueue_job copies into k_data, and the one decoding_matrix of ec_obj.  *)
(* A recipe, the random set of lost shards a job draws, is known by the    *)
(* job that drew it.  Each thread's engine completes in order (TaskBench   *)
(* has the order of completions).                                          *)
(***************************************************************************)
EXTENDS Integers, Sequences

CONSTANT EcConfigs   \* records: threads, batch, blocks, k, m, jobs (bound: jobs of a thread)

\* The slots of a batch and the blocks are taken modulo their numbers, and a
\* code has data and parity shards.
ASSUME EcAssumption ==
  EcConfigs \subseteq [threads : Nat \ {0}, batch : Nat \ {0}, blocks : Nat \ {0},
                      k : Nat \ {0}, m : Nat \ {0}, jobs : Nat]

VARIABLES
  cfg,      \* ec_config
  k_data,   \* for each block, the recipe each shard was copied for
  matrix,   \* ec_obj.decoding_matrix: the recipe it was made for
  th,       \* threads: pc, now, pos (pos_j), job (the one being built), flight, kept
  dead,     \* matrices deleted
  wrong     \* what went wrong with some job
evars == <<cfg, k_data, matrix, th, dead, wrong>>

Nobody == <<0, 0>>
EThreads == 1..cfg.threads
Recipe(t) == <<t, th[t].now + 1>>
Block(n) == n % cfg.blocks
Kept(n) == n % cfg.batch

EInit ==
  /\ cfg \in EcConfigs
  /\ k_data = [b \in 0..(cfg.blocks - 1) |-> [p \in 0..(cfg.k - 1) |-> Nobody]]
  /\ matrix = Nobody /\ dead = {} /\ wrong = {}
  /\ th = [t \in EThreads |-> [pc |-> "next", now |-> 0, pos |-> 0, job |-> Nobody, flight |-> <<>>,
                               kept |-> [s \in 0..(cfg.batch - 1) |-> Nobody]]]

EGo(t, l) == th' = [th EXCEPT ![t].pc = l]

\* The loops: enqueue while the batch is not full, else dequeue first; the
\* last batch is only dequeued.
Begin(t) ==
  /\ th[t].pc = "next" /\ Len(th[t].flight) < cfg.batch /\ th[t].now < cfg.jobs
  /\ th' = [th EXCEPT ![t].pc = "copy", ![t].pos = 0]
  /\ UNCHANGED <<cfg, k_data, matrix, dead, wrong>>

BugCopyAll(t) ==
  /\ th[t].pc = "copy"
  /\ k_data' = [k_data EXCEPT ![Block(th[t].now)][th[t].pos] = Recipe(t)]
  /\ th' = [th EXCEPT ![t].pos = @ + 1, ![t].pc = IF th[t].pos + 1 >= cfg.m - 1 THEN "matrix" ELSE "copy"]
  /\ UNCHANGED <<cfg, matrix, dead, wrong>>
\* memcpy of the next surviving shard; the loop breaks after m of them, and
\* ends after the k that survive.
CopyShard(t) ==
  /\ th[t].pc = "copy"
  /\ k_data' = [k_data EXCEPT ![Block(th[t].now)][th[t].pos] = Recipe(t)]
  /\ th' = [th EXCEPT ![t].pos = @ + 1,
                      ![t].pc = IF th[t].pos + 1 \in {cfg.m, cfg.k} THEN "matrix" ELSE "copy"]
  /\ UNCHANGED <<cfg, matrix, dead, wrong>>

\* config->ec_obj.decoding_matrix = create_recover_matrix(...)
CreateMatrix(t) ==
  /\ th[t].pc = "matrix"
  /\ matrix' = Recipe(t)
  /\ EGo(t, "set")
  /\ UNCHANGED <<cfg, k_data, dead, wrong>>
\* job_recover.set_matrix(config->ec_obj.decoding_matrix)
SetMatrix(t) ==
  /\ th[t].pc = "set"
  /\ th' = [th EXCEPT ![t].job = matrix, ![t].pc = "keep"]
  /\ UNCHANGED <<cfg, k_data, matrix, dead, wrong>>
\* decoding_matrix[mod_i] = config->ec_obj.decoding_matrix, then submit
KeepAndSubmit(t) ==
  /\ th[t].pc = "keep"
  /\ th' = [th EXCEPT ![t].kept[Kept(th[t].now)] = matrix, ![t].now = @ + 1, ![t].pc = "next",
                      ![t].flight = Append(@, [recipe |-> Recipe(t), matrix |-> th[t].job, block |-> Block(th[t].now)])]
  /\ UNCHANGED <<cfg, k_data, matrix, dead, wrong>>

\* The engine has read shards and matrix when the job completes; dequeue_job
\* then deletes the matrix kept for the slot.
Dequeue(t) ==
  /\ th[t].pc = "next" /\ th[t].flight # <<>>
  /\ Len(th[t].flight) = cfg.batch \/ th[t].now = cfg.jobs
  /\ LET j == Head(th[t].flight)
         gone == th[t].kept[Kept(th[t].now - Len(th[t].flight))] IN
       /\ th' = [th EXCEPT ![t].flight = Tail(@)]
       /\ dead' = dead \cup {gone}
       /\ wrong' = wrong \cup (IF j.matrix # j.recipe \/ j.matrix \in dead THEN {"matrix"} ELSE {})
                         \cup (IF gone \in dead THEN {"deleted twice"} ELSE {})
                         \cup (IF \E p \in 0..(cfg.k - 1) : k_data[j.block][p] # j.recipe THEN {"shards"} ELSE {})
  /\ UNCHANGED <<cfg, k_data, matrix>>

ENext ==
  \E t \in EThreads :
    Begin(t) \/ CopyShard(t) \/ CreateMatrix(t) \/ SetMatrix(t) \/ KeepAndSubmit(t) \/ Dequeue(t)

ESpec == EInit /\ [][ENext]_evars
----------------------------------------------------------------------------
(* Properties *)

\* A job decodes the k shards that survive its own random set with the matrix
\* made for that set, and every matrix is deleted once.  The matrix is right
\* with one thread, whatever the batch; two threads write and read
\* decoding_matrix without a lock and may swap, lose or delete twice.  The
\* shards need one thread, as many blocks as jobs in flight and no more data
\* than parity shards: with k > m (the defaults are 12 and 4) the copying stops
\* after m of them, and with more jobs than blocks one is refilled under a job.
JobInputsOwn ==
  /\ wrong \cap {"matrix", "deleted twice"} # {} => cfg.threads > 1
  /\ "shards" \in wrong => cfg.threads > 1 \/ cfg.batch > cfg.blocks \/ cfg.k > cfg.m
=============================================================================
