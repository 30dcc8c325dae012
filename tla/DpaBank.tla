------------------------------ MODULE DpaBank ------------------------------
(***************************************************************************)
(* The DPA bank of flexio/dpa_small_bank.  Client and server handlers run  *)
(* on DPA threads and exchange one Ethernet frame per request; frames of   *)
(* client thread c are steered to server thread c.  Rows have plain spin   *)
(* locks.  A frame that finds no receive entry is dropped by the NIC and   *)
(* nothing sends it again.  Balances are not modelled: handler_finish of   *)
(* the client leaves the balance fields of the request unset.              *)
(***************************************************************************)
EXTENDS Integers, FiniteSets, Sequences

CONSTANTS DpaThreads,   \* client threads, and as many server threads
          DpaConcurrency,  \* CONCURRENCY: transitions per client thread
          DTxns,        \* the <<thread, slot>> pairs whose first frame is not lost
          DpaAccounts   \* 0..NUM_ACCOUNTS-1
ASSUME DpaBankAssumption ==
  DTxns \subseteq DpaThreads \X Nat /\ DpaConcurrency \in Nat /\ 0 \in DpaAccounts

VARIABLES
  locked,    \* spinlock_s of every row
  tran,      \* transitions of the client threads, and where the request is
  handler,   \* what each server thread is doing
  granted,   \* history: rows whose lock a transaction believes to hold
  stolen     \* history: a failed GET_LOCK released a lock it had not taken

dpaVars == <<locked, tran, handler, granted, stolen>>

DRows == {"checking", "saving"} \X DpaAccounts
DPos == 1..4
DRowOf(t, p) == <<IF p \in {1, 3} THEN "checking" ELSE "saving",
                  IF p \in {1, 2} THEN tran[t].user1 ELSE tran[t].user2>>

\* init_transition: the type of a slot, the users it starts with, the
\* positions its type locks.
TypeOf(index) ==
  LET below(percent) == index * 100 < percent * DpaConcurrency
  IN  CASE below(15) -> "Amalgamate"
        [] ~below(15) /\ below(30) -> "Balance"
        [] ~below(30) /\ below(45) -> "DepositChecking"
        [] ~below(45) /\ below(70) -> "SendPayment"
        [] ~below(70) /\ below(85) -> "TransactSavings"
        [] OTHER -> "WriteCheck"
FirstUsers(type) ==
  {p \in DpaAccounts \X DpaAccounts :
     /\ type \in {"Balance", "DepositChecking"} => p[1] = p[2]
     /\ type \in {"TransactSavings", "WriteCheck"} => p[2] = 0}
DLocks == [Amalgamate |-> {1, 4}, Balance |-> {}, DepositChecking |-> {1},
           SendPayment |-> {1, 3}, TransactSavings |-> {2}, WriteCheck |-> {1}]

NoUsers(at) == [user1 |-> 0, user2 |-> 0, at |-> at]
Resting == [op |-> "rest"]

DpaInit ==
  /\ locked = [r \in DRows |-> FALSE]
  /\ tran = [t \in DTxns |-> NoUsers("PING")]
  /\ handler = [c \in DpaThreads |-> Resting]
  /\ granted = [t \in DTxns |-> {}]
  /\ stolen = FALSE
----------------------------------------------------------------------------
(* Client handler *)

\* The answer to the PING starts a GET_DATA in every slot.
PingAnswered(c) ==
  /\ \E t \in DTxns : t[1] = c /\ tran[t].at = "PING"
  /\ \E u \in [{t \in DTxns : t[1] = c} -> DpaAccounts \X DpaAccounts] :
       /\ \A t \in DOMAIN u : u[t] \in FirstUsers(TypeOf(t[2]))
       /\ tran' = [t \in DTxns |-> IF t \notin DOMAIN u THEN tran[t]
                     ELSE [user1 |-> u[t][1], user2 |-> u[t][2], at |-> "GET_DATA"]]
  /\ UNCHANGED <<locked, handler, granted, stolen>>

\* A FINISH answer and a refused GET_LOCK start a GET_DATA for users drawn
\* from the cycle and instruction counters.
Reload(t) ==
  /\ tran[t].at \in {"finished", "refused"}
  /\ \E u, v \in DpaAccounts :
       tran' = [tran EXCEPT ![t] = [user1 |-> u, user2 |-> v, at |-> "GET_DATA"]]
  /\ UNCHANGED <<locked, handler, granted, stolen>>

ClientLock(t) ==
  /\ tran[t].at = "data"
  /\ tran' = [tran EXCEPT ![t].at = "GET_LOCK"]
  /\ UNCHANGED <<locked, handler, granted, stolen>>

ClientFinish(t) ==
  /\ tran[t].at = "granted"
  /\ tran' = [tran EXCEPT ![t].at = "FINISH"]
  /\ UNCHANGED <<locked, handler, granted, stolen>>

\* The NIC drops the frame of a request or of an answer.
DropFrame(t) ==
  /\ tran[t].at \notin {"lost", "PING"}
  /\ \A c \in DpaThreads : handler[c] # Resting => handler[c].txn # t
  /\ tran' = [tran EXCEPT ![t] = NoUsers("lost")]
  /\ UNCHANGED <<locked, handler, granted, stolen>>
----------------------------------------------------------------------------
(* Server handler: process_packet *)

\* GET_DATA reads balances and takes no lock.
GetData(t) ==
  /\ handler[t[1]] = Resting /\ tran[t].at = "GET_DATA"
  /\ tran' = [tran EXCEPT ![t].at = "data"]
  /\ UNCHANGED <<locked, handler, granted, stolen>>

ServerReceive(t) ==
  /\ handler[t[1]] = Resting /\ tran[t].at \in {"GET_LOCK", "FINISH"}
  /\ handler' = [handler EXCEPT ![t[1]] =
       [op |-> tran[t].at, txn |-> t, left |-> DLocks[TypeOf(t[2])], flag |-> 0, failed |-> FALSE]]
  /\ UNCHANGED <<locked, tran, granted, stolen>>

Lowest(S) == CHOOSE p \in S : \A q \in S : p <= q
\* The next position of GET_LOCK's or FINISH's chain of ifs.
Cur(c) == Lowest(handler[c].left)
CurRow(c) == DRowOf(handler[c].txn, Cur(c))
BelievedBy(t, r) == [granted EXCEPT ![t] = @ \cup {r}]

\* spin_trylock (external) returns this when the lock is taken.
FailValue == 1

BugTryLock(c) ==
  /\ handler[c].op = "GET_LOCK" /\ ~handler[c].failed /\ handler[c].left # {}
  /\ locked' = [locked EXCEPT ![CurRow(c)] = TRUE]
  /\ granted' = BelievedBy(handler[c].txn, CurRow(c))
  /\ handler' = [handler EXCEPT ![c].flag = 2 ^ (Cur(c) - 1), ![c].left = @ \ {Cur(c)}]
  /\ UNCHANGED <<tran, stolen>>
\* lock_flag is overwritten by every spin_trylock; a success then adds the
\* bit of the position, a failure leaves FailValue there.
TryLock(c) ==
  /\ handler[c].op = "GET_LOCK" /\ ~handler[c].failed /\ handler[c].left # {}
  /\ IF locked[CurRow(c)]
     THEN /\ handler' = [handler EXCEPT ![c].flag = FailValue, ![c].failed = TRUE]
          /\ UNCHANGED <<locked, granted>>
     ELSE /\ locked' = [locked EXCEPT ![CurRow(c)] = TRUE]
          /\ granted' = BelievedBy(handler[c].txn, CurRow(c))
          /\ handler' = [handler EXCEPT ![c].flag = 2 ^ (Cur(c) - 1), ![c].left = @ \ {Cur(c)}]
  /\ UNCHANGED <<tran, stolen>>

AnswerLock(c) ==
  /\ handler[c].op = "GET_LOCK" /\ ~handler[c].failed /\ handler[c].left = {}
  /\ tran' = [tran EXCEPT ![handler[c].txn].at = "granted"]
  /\ handler' = [handler EXCEPT ![c] = Resting]
  /\ UNCHANGED <<locked, granted, stolen>>

\* The rows that the failure path unlocks: the bits of lock_flag.
UnlockedOnFailure(t, flag) ==
  {DRowOf(t, p) : p \in {q \in DPos : (flag \div 2 ^ (q - 1)) % 2 = 1}}

RefuseLock(c) ==
  /\ handler[c].op = "GET_LOCK" /\ handler[c].failed
  /\ LET t == handler[c].txn
         rows == UnlockedOnFailure(t, handler[c].flag)
     IN  /\ locked' = [r \in DRows |-> IF r \in rows THEN FALSE ELSE locked[r]]
         /\ stolen' = (stolen \/ \E r \in rows : locked[r] /\ r \notin granted[t])
         /\ granted' = [granted EXCEPT ![t] = {}]
         /\ tran' = [tran EXCEPT ![t] = NoUsers("refused")]
  /\ handler' = [handler EXCEPT ![c] = Resting]

\* FINISH stores the changed balances and releases the locks one by one.
FinishUnlock(c) ==
  /\ handler[c].op = "FINISH" /\ handler[c].left # {}
  /\ handler' = [handler EXCEPT ![c].left = @ \ {Cur(c)}]
  /\ locked' = [locked EXCEPT ![CurRow(c)] = FALSE]
  /\ granted' = [granted EXCEPT ![handler[c].txn] = @ \ {CurRow(c)}]
  /\ UNCHANGED <<tran, stolen>>

AnswerFinish(c) ==
  /\ handler[c].op = "FINISH" /\ handler[c].left = {}
  /\ tran' = [tran EXCEPT ![handler[c].txn] = NoUsers("finished")]
  /\ handler' = [handler EXCEPT ![c] = Resting]
  /\ UNCHANGED <<locked, granted, stolen>>

DpaServer(c) ==
  \/ TryLock(c) \/ AnswerLock(c) \/ RefuseLock(c) \/ FinishUnlock(c) \/ AnswerFinish(c)

DpaNext ==
  \/ \E t \in DTxns : Reload(t) \/ ClientLock(t) \/ ClientFinish(t) \/ DropFrame(t) \/ GetData(t) \/ ServerReceive(t)
  \/ \E c \in DpaThreads : PingAnswered(c) \/ DpaServer(c)

DpaSpec == DpaInit /\ [][DpaNext]_dpaVars
----------------------------------------------------------------------------
(* Properties *)

\* Until a failed GET_LOCK has released a row it had not taken, the lock words
\* are exactly the locks granted, one transaction each.  (It can: lock_flag
\* holds the failing call's return value and not what was taken.)  Even after
\* that no lock word stays set without a transaction that still has to FINISH.
ExactUntilStolen ==
  /\ \A r \in DRows : locked[r] => \E t \in DTxns : r \in granted[t]
  /\ ~stolen =>
       /\ \A t \in DTxns : \A r \in granted[t] : locked[r]
       /\ \A t, u \in DTxns : t # u => granted[t] \cap granted[u] = {}
============================================================================
