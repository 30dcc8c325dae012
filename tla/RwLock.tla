------------------------------- MODULE RwLock -------------------------------
(***************************************************************************)
(* spinlock_rw_mutex of utils/spinlock_mutex.h: readers_count and          *)
(* writer_lock are two separate atomics, and every load, fetch_add,        *)
(* fetch_sub, compare-exchange and store of them is a step of its own.     *)
(* Each thread calls one of the four lock operations, is inside its        *)
(* section, and unlocks.  Steps are sequentially consistent.               *)
(***************************************************************************)
EXTENDS Integers, FiniteSets

CONSTANTS Threads,
          Calls    \* the lock operations threads use

ASSUME ThreadsAssumption == IsFiniteSet(Threads)
ASSUME CallsAssumption ==
  Calls \subseteq {"lock_read", "try_lock_read", "lock_write", "try_lock_write"}

VARIABLES readers_count, writer_lock,
          pc    \* per thread: the next atomic operation of its call

vars == <<readers_count, writer_lock, pc>>

Init ==
  /\ readers_count = 0
  /\ writer_lock = FALSE
  /\ pc = [t \in Threads |-> "idle"]

Goto(t, at) == pc' = [pc EXCEPT ![t] = at]

Call(t) ==
  /\ pc[t] = "idle"
  /\ \/ "lock_read"      \in Calls /\ Goto(t, "lr_spin")
     \/ "try_lock_read"  \in Calls /\ Goto(t, "tr_test")
     \/ "lock_write"     \in Calls /\ Goto(t, "lw_readers")
     \/ "try_lock_write" \in Calls /\ Goto(t, "tw_cas")
  /\ UNCHANGED <<readers_count, writer_lock>>
----------------------------------------------------------------------------
(* lock_read, try_lock_read, unlock_read *)

BugReadSpin(t) ==
  /\ pc[t] = "lr_spin"
  /\ Goto(t, IF writer_lock THEN "lr_add" ELSE "lr_spin")
  /\ UNCHANGED <<readers_count, writer_lock>>
\* while (writer_lock) {}
ReadSpin(t) ==
  /\ pc[t] = "lr_spin"
  /\ Goto(t, IF writer_lock THEN "lr_spin" ELSE "lr_add")
  /\ UNCHANGED <<readers_count, writer_lock>>

ReadAdd(t) ==
  /\ pc[t] = "lr_add"
  /\ readers_count' = readers_count + 1
  /\ Goto(t, "lr_check")
  /\ UNCHANGED writer_lock

\* A writer may have come in since the spin.
ReadCheck(t) ==
  /\ pc[t] = "lr_check"
  /\ Goto(t, IF writer_lock THEN "lr_back" ELSE "reading")
  /\ UNCHANGED <<readers_count, writer_lock>>

ReadBack(t) ==
  /\ pc[t] = "lr_back"
  /\ readers_count' = readers_count - 1
  /\ Goto(t, "lr_spin")
  /\ UNCHANGED writer_lock

TryReadTest(t) ==
  /\ pc[t] = "tr_test"
  /\ Goto(t, IF writer_lock THEN "idle" ELSE "tr_add")
  /\ UNCHANGED <<readers_count, writer_lock>>

TryReadAdd(t) ==
  /\ pc[t] = "tr_add"
  /\ readers_count' = readers_count + 1
  /\ Goto(t, "reading")
  /\ UNCHANGED writer_lock

UnlockRead(t) ==
  /\ pc[t] = "reading"
  /\ readers_count' = readers_count - 1
  /\ Goto(t, "idle")
  /\ UNCHANGED writer_lock
----------------------------------------------------------------------------
(* lock_write, try_lock_write, unlock_write *)

\* The two loads of while (readers_count != 0 || writer_lock) {}
WriteReaders(t) ==
  /\ pc[t] = "lw_readers"
  /\ Goto(t, IF readers_count # 0 THEN "lw_readers" ELSE "lw_writer")
  /\ UNCHANGED <<readers_count, writer_lock>>

WriteWriter(t) ==
  /\ pc[t] = "lw_writer"
  /\ Goto(t, IF writer_lock THEN "lw_readers" ELSE "lw_cas")
  /\ UNCHANGED <<readers_count, writer_lock>>

BugTake(t) ==
  /\ writer_lock' = TRUE
  /\ Goto(t, "writing")
  /\ UNCHANGED readers_count
\* The compare-exchange from false to true that succeeds.
Take(t) ==
  /\ ~writer_lock
  /\ writer_lock' = TRUE
  /\ Goto(t, "writing")
  /\ UNCHANGED readers_count

WriteTake(t) == pc[t] = "lw_cas" /\ Take(t)

\* compare_exchange_weak may fail without reason.
WriteRetry(t) ==
  /\ pc[t] = "lw_cas"
  /\ Goto(t, "lw_readers")
  /\ UNCHANGED <<readers_count, writer_lock>>

TryWriteTake(t) == pc[t] = "tw_cas" /\ Take(t)

TryWriteFail(t) ==
  /\ pc[t] = "tw_cas"
  /\ writer_lock
  /\ Goto(t, "idle")
  /\ UNCHANGED <<readers_count, writer_lock>>

UnlockWrite(t) ==
  /\ pc[t] = "writing"
  /\ writer_lock' = FALSE
  /\ Goto(t, "idle")
  /\ UNCHANGED readers_count
----------------------------------------------------------------------------
\* What a thread does once it has called an operation.
Step(t) ==
  \/ ReadSpin(t) \/ ReadAdd(t) \/ ReadCheck(t) \/ ReadBack(t)
  \/ TryReadTest(t) \/ TryReadAdd(t) \/ UnlockRead(t)
  \/ WriteReaders(t) \/ WriteWriter(t) \/ WriteTake(t) \/ WriteRetry(t)
  \/ TryWriteTake(t) \/ TryWriteFail(t) \/ UnlockWrite(t)

Next == \E t \in Threads : Call(t) \/ Step(t)

Spec == Init /\ [][Next]_vars

\* Threads run, leave their sections, and a compare-exchange that is tried
\* again and again while the lock is free does not fail for ever; no thread
\* has to call.
Fairness == \A t \in Threads : WF_vars(Step(t)) /\ SF_vars(WriteTake(t))

FairSpec == Spec /\ Fairness
----------------------------------------------------------------------------
(* Properties *)

Reading == {t \in Threads : pc[t] = "reading"}
Writing == {t \in Threads : pc[t] = "writing"}
\* Threads that have incremented readers_count and not yet decremented it.
Counted == {t \in Threads : pc[t] \in {"lr_check", "lr_back", "reading"}}

Labels == {"idle", "lr_spin", "lr_add", "lr_check", "lr_back", "reading", "tr_test",
           "tr_add", "lw_readers", "lw_writer", "lw_cas", "tw_cas", "writing"}

\* readers_count is a count and never negative, writer_lock a Boolean.
TypeOK ==
  /\ readers_count \in Nat
  /\ writer_lock \in BOOLEAN
  /\ pc \in [Threads -> Labels]

\* readers_count is exact: the readers inside plus those between their
\* fetch_add and their fetch_sub, so that the back-off of lock_read never
\* loses or leaks a count.
CountExact == readers_count = Cardinality(Counted)

\* writer_lock is held by exactly one thread when it is set, and by none when
\* it is not: two writers are never in their sections together.
OneWriter ==
  /\ \A t, u \in Writing : t = u
  /\ writer_lock <=> Writing # {}

\* The contract of the class, "Spin until there are no readers or writers" in
\* lock_write and "Lock acquired successfully for reading" in lock_read: no
\* reader is inside while a writer is.
ReadersExcludeWriters == Reading = {} \/ Writing = {}

\* A thread that spins in lock_read or lock_write is never the victim of a
\* jam: some thread gets into its section.
Blocked == \E t \in Threads :
  pc[t] \in {"lr_spin", "lr_add", "lr_check", "lr_back", "lw_readers", "lw_writer", "lw_cas"}
SomeoneEnters == Blocked ~> (Reading # {} \/ Writing # {})
=============================================================================
