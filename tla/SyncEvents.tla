----------------------------- MODULE SyncEvents -----------------------------
(***************************************************************************)
(* The SYNC mode of channel_bench: two ends take turns on two sync events. *)
(* An end whose turn it is raises its event by four in four updates (add,  *)
(* add, set, set); the other one polls that event.  The sender owns both   *)
(* events and deletes them as soon as it is finished.                      *)
(***************************************************************************)
EXTENDS Integers

CONSTANT Rounds      \* 100000 / 4: wait_index ends at 4 * Rounds

ASSUME RoundsAssumption == Rounds \in Nat

Ends == {"sender", "receiver"}
Other(e) == IF e = "sender" THEN "receiver" ELSE "sender"
Limit == 4 * Rounds

VARIABLES
  pc,           \* where each end is
  value,        \* the event each end publishes to
  waitIndex,    \* wait_index of each end
  fetched,      \* the value read from the other end's event
  alive         \* the events exist

syncVars == <<pc, value, waitIndex, fetched, alive>>

SyncInit ==
  /\ pc = [e \in Ends |-> "get_pub"]
  /\ value = [e \in Ends |-> 0]
  /\ waitIndex = [e \in Ends |-> 0]
  /\ fetched = [e \in Ends |-> 0]
  /\ alive = TRUE

\* A job on a deleted event may fail, and the exception ends the loop; or
\* it reads what is left there.
Fail(e) ==
  /\ ~alive
  /\ pc' = [pc EXCEPT ![e] = "done"]
  /\ UNCHANGED <<value, waitIndex, fetched, alive>>

\* The end's own event is read only to be timed.
GetPub(e) ==
  /\ pc[e] = "get_pub"
  /\ \/ pc' = [pc EXCEPT ![e] = "get_sub"] /\ UNCHANGED <<value, waitIndex, fetched, alive>>
     \/ Fail(e)

GetSub(e) ==
  /\ pc[e] = "get_sub"
  /\ \/ /\ fetched' = [fetched EXCEPT ![e] = value[Other(e)]]
        /\ pc' = [pc EXCEPT ![e] = "test"]
        /\ UNCHANGED <<value, waitIndex, alive>>
     \/ Fail(e)

MyTurn(e) ==
  fetched[e] = IF e = "sender" THEN waitIndex[e] ELSE waitIndex[e] + 4

BugFinishedEarly(e) == waitIndex[e] = Limit
\* The sender leaves the loop when it has seen the last answer, the receiver
\* when it has given it.
Finished(e) ==
  waitIndex[e] = Limit /\ (e = "sender" => MyTurn(e))

Test(e) ==
  /\ pc[e] = "test"
  /\ pc' = [pc EXCEPT ![e] =
              IF Finished(e) THEN "delete" ELSE IF MyTurn(e) THEN "add_async" ELSE "get_pub"]
  /\ UNCHANGED <<value, waitIndex, fetched, alive>>

Publish(e, v) == value' = [value EXCEPT ![e] = v]

AddAsync(e) ==
  /\ pc[e] = "add_async"
  /\ Publish(e, value[e] + 1)
  /\ pc' = [pc EXCEPT ![e] = "add_sync"]
  /\ UNCHANGED <<waitIndex, fetched, alive>>

BugAddSync(e) ==
  /\ pc[e] = "add_sync"
  /\ Publish(e, value[e] + 3)
  /\ pc' = [pc EXCEPT ![e] = "set_sync"]
  /\ UNCHANGED <<waitIndex, fetched, alive>>
AddSync(e) ==
  /\ pc[e] = "add_sync"
  /\ Publish(e, value[e] + 1)
  /\ pc' = [pc EXCEPT ![e] = "set_sync"]
  /\ UNCHANGED <<waitIndex, fetched, alive>>

SetSync(e) ==
  /\ pc[e] = "set_sync"
  /\ Publish(e, waitIndex[e] + 3)
  /\ pc' = [pc EXCEPT ![e] = "set_async"]
  /\ UNCHANGED <<waitIndex, fetched, alive>>

BugSetAsync(e) ==
  /\ pc[e] = "set_async"
  /\ Publish(e, waitIndex[e] + 3)
  /\ pc' = [pc EXCEPT ![e] = "count"]
  /\ UNCHANGED <<waitIndex, fetched, alive>>
SetAsync(e) ==
  /\ pc[e] = "set_async"
  /\ Publish(e, waitIndex[e] + 4)
  /\ pc' = [pc EXCEPT ![e] = "count"]
  /\ UNCHANGED <<waitIndex, fetched, alive>>

Count(e) ==
  /\ pc[e] = "count"
  /\ waitIndex' = [waitIndex EXCEPT ![e] = @ + 4]
  /\ pc' = [pc EXCEPT ![e] = "get_pub"]
  /\ UNCHANGED <<value, fetched, alive>>

\* delete sub_config, delete publish_config: the events die with the end
\* that created them.
Delete(e) ==
  /\ pc[e] = "delete"
  /\ pc' = [pc EXCEPT ![e] = "done"]
  /\ alive' = (alive /\ e # "sender")
  /\ UNCHANGED <<value, waitIndex, fetched>>

Step(e) ==
  \/ GetPub(e) \/ GetSub(e) \/ Test(e)
  \/ AddAsync(e) \/ AddSync(e) \/ SetSync(e) \/ SetAsync(e) \/ Count(e)
  \/ Delete(e)

SyncNext == \E e \in Ends : Step(e)

SyncSpec == SyncInit /\ [][SyncNext]_syncVars

\* Two processes of two machines: each keeps running.
SyncFairSpec == SyncSpec /\ \A e \in Ends : WF_syncVars(Step(e))
----------------------------------------------------------------------------
Publishing(e) == pc[e] \in {"add_async", "add_sync", "set_sync", "set_async"}

\* Every variable has its type.
SyncTypeOK ==
  /\ pc \in [Ends -> {"get_pub", "get_sub", "test", "add_async", "add_sync",
                      "set_sync", "set_async", "count", "delete", "done"}]
  /\ value \in [Ends -> 0..Limit]
  /\ waitIndex \in [Ends -> Nat]
  /\ fetched \in [Ends -> Nat]
  /\ alive \in BOOLEAN

\* The intermediate values of a publication never let the other end start:
\* handle_sync_sender and handle_sync_receiver never update their events at
\* the same time.
TakeTurns == ~(Publishing("sender") /\ Publishing("receiver"))

\* The receiver is never ahead of the sender and never more than one round
\* behind what the sender has published.
LockStep ==
  /\ value["receiver"] <= value["sender"]
  /\ value["sender"] <= value["receiver"] + 4

\* No end updates an event after the sender has deleted it.
NoLateUpdate == Publishing("sender") \/ Publishing("receiver") => alive

\* Both ends come to the end of the test with every round made.
AllRounds == <>(\A e \in Ends : pc[e] = "done" /\ waitIndex[e] = Limit)
=============================================================================
