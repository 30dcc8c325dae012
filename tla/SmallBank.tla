----------------------------- MODULE SmallBank -----------------------------
(***************************************************************************)
(* The host bank of test_suite/small_bank: client threads run transactions *)
(* as GET_DATA, GET_LOCK and FINISH requests, and server threads keep the  *)
(* account tables, with one reader-writer spin lock per row.  Client       *)
(* thread c talks to server thread c, so the requests of one client are    *)
(* handled one after the other and those of two clients interleave.        *)
(*                                                                         *)
(* A handler goes over the positions of its transaction twice, in order    *)
(* and one access to a shared row per step: "first" are those it has still *)
(* to load, lock or store, "unlock" those it has then still to release.    *)
(* Balances are doubles that start near 2^63: adding a small amount to     *)
(* such a value changes nothing, see Fadd.                                 *)
(***************************************************************************)
EXTENDS Integers, FiniteSets, FiniteSetsExt

CONSTANTS Clients,     \* client threads, and as many server threads
          TxSlots,     \* transactions one client keeps in flight (concurrency)
          Accounts,
          TypesUsed,   \* transaction types of this instance
          MaxCommits,  \* bound: transactions that commit in one behaviour
          Big          \* SIZE_MAX / 2, the initial balance; the amount is 1

ASSUME BankAssumption ==
  /\ IsFiniteSet(Clients) /\ IsFiniteSet(TxSlots) /\ Big \in Nat \ {0}
  /\ TypesUsed \subseteq {"Amalgamate", "Balance", "DepositChecking", "SendPayment",
                          "TransactSavings", "WriteCheck"}

VARIABLES
  readers, writer,   \* spinlock_rw_mutex of every row
  balance,           \* balance of every row
  trans,             \* ClientContext::transitions, with the request in flight
  serving,           \* what each server thread is doing
  commits,
  serial, overlapped \* history: balances of a serial execution; was one impossible

bankVars == <<readers, writer, balance, trans, serving, commits, serial, overlapped>>

Txns == Clients \X TxSlots
Rows == {"checking", "saving"} \X Accounts
Pos == 1..4          \* user1 checking, user1 saving, user2 checking, user2 saving
RowOf(t, p) == <<IF p \in {1, 3} THEN "checking" ELSE "saving",
                 IF p \in {1, 2} THEN trans[t].user1 ELSE trans[t].user2>>

Types == {"Amalgamate", "Balance", "DepositChecking", "SendPayment",
          "TransactSavings", "WriteCheck"}
Paired == {"Amalgamate", "SendPayment"}    \* two different users

\* The Transition constructor: lock_user* of a type, by position.
LockOf == [Amalgamate      |-> <<"write", "no", "no", "write">>,
           Balance         |-> <<"read", "read", "no", "no">>,
           DepositChecking |-> <<"write", "no", "no", "no">>,
           SendPayment     |-> <<"write", "no", "write", "no">>,
           TransactSavings |-> <<"no", "write", "no", "no">>,
           WriteCheck      |-> <<"write", "read", "no", "no">>]
\* changed_user* of a type.
Changed(type) == {p \in Pos : LockOf[type][p] = "write"}
Locked(type) == {p \in Pos : LockOf[type][p] # "no"}

\* IEEE doubles: next to a value of the size of Big, 1 is below half an ulp.
Fadd(x, y) ==
  IF x >= Big \/ y >= Big THEN ((x + y + (Big \div 2)) \div Big) * Big ELSE x + y

\* handler_finish: the new balance of position p, from the balances GET_DATA
\* returned.
NewBalance(type, p, seen) ==
  CASE type = "Amalgamate" -> IF p = 4 THEN Fadd(seen[1], seen[4]) ELSE 0
    [] type = "DepositChecking" -> Fadd(seen[1], 1)
    [] type = "SendPayment" -> Fadd(seen[p], IF p = 1 THEN -1 ELSE 1)
    [] type = "TransactSavings" -> Fadd(seen[2], -1)
    [] type = "WriteCheck" -> Fadd(seen[1], -1)

Unseen == <<0, 0, 0, 0>>
NewTransitions ==
  {[type |-> ty, user1 |-> u, user2 |-> v, at |-> "GET_DATA", seen |-> Unseen] :
     ty \in TypesUsed, u \in Accounts, v \in Accounts}
\* generateRandomType and generateRandomNumber.
Fresh == {r \in NewTransitions : (r.type \in Paired) = (r.user1 # r.user2)}

Idle == [op |-> "idle"]

BankInit ==
  /\ readers = [r \in Rows |-> 0] /\ writer = [r \in Rows |-> FALSE]
  /\ balance = [r \in Rows |-> Big]
  /\ trans = [t \in Txns |-> [type |-> "Balance", at |-> "start"]]
  /\ serving = [c \in Clients |-> Idle]
  /\ commits = 0
  /\ serial = balance /\ overlapped = FALSE
----------------------------------------------------------------------------
(* Client threads: the callback of a response queues the next request and   *)
(* the worker's handler sends it.                                           *)

\* The leader's first GET_DATA, callback_finish, and callback_get_lock when
\* the locks were refused: handler_get_data draws a new transition.
StartTransaction(t) ==
  /\ trans[t].at \in {"start", "finished", "refused"}
  /\ commits < MaxCommits
  /\ \E r \in Fresh : trans' = [trans EXCEPT ![t] = r]
  /\ UNCHANGED <<readers, writer, balance, serving, commits, serial, overlapped>>

\* callback_get_data, handler_get_lock
RequestLocks(t) ==
  /\ trans[t].at = "data"
  /\ trans' = [trans EXCEPT ![t].at = "GET_LOCK"]
  /\ UNCHANGED <<readers, writer, balance, serving, commits, serial, overlapped>>

\* callback_get_lock on success, handler_finish
RequestFinish(t) ==
  /\ trans[t].at = "granted"
  /\ trans' = [trans EXCEPT ![t].at = "FINISH"]
  /\ UNCHANGED <<readers, writer, balance, serving, commits, serial, overlapped>>

\* The worker leaves its loop when ctrl_c_pressed is set, wherever its
\* transactions are; a request already sent is still served.  Locks that were
\* granted stay taken, for nobody sends the FINISH.
Quit(c) ==
  /\ \A t \in Txns : t[1] = c => trans[t].at \in {"data", "granted", "refused", "finished"}
  /\ trans' = [t \in Txns |->
       IF t[1] # c THEN trans[t]
       ELSE IF trans[t].at = "granted" THEN [trans[t] EXCEPT !.at = "abandoned"]
       ELSE [type |-> "Balance", at |-> "quit"]]
  /\ UNCHANGED <<readers, writer, balance, serving, commits, serial, overlapped>>
----------------------------------------------------------------------------
(* Server threads *)

GetDataSteps(type) == [first |-> Locked(type), unlock |-> {}]
GetLockSteps(type) == [first |-> Locked(type), unlock |-> {}]
BugFinishStepsDrop(type) == [first |-> Changed(type) \ {4}, unlock |-> Locked(type)]
FinishSteps(type) == [first |-> Changed(type), unlock |-> Locked(type)]

StepsOf(type, op) ==
  CASE op = "GET_DATA" -> GetDataSteps(type)
    [] op = "GET_LOCK" -> GetLockSteps(type)
    [] op = "FINISH" -> FinishSteps(type)

\* A handler at its start.
Entered(op, t) ==
  LET s == StepsOf(trans[t].type, op)
  IN  [op |-> op, txn |-> t, first |-> s.first, unlock |-> s.unlock,
       tested |-> FALSE, taken |-> {}, failed |-> FALSE]

\* The serial execution commits where the real one begins to write.
ApplySerially(t) ==
  LET type == trans[t].type
      seen == [p \in Pos |-> serial[RowOf(t, p)]]
  IN  [r \in Rows |-> IF \E p \in Changed(type) : RowOf(t, p) = r
                      THEN NewBalance(type, CHOOSE p \in Changed(type) : RowOf(t, p) = r, seen)
                      ELSE serial[r]]

BugServe(t) ==
  /\ serving[t[1]] = Idle
  /\ trans[t].at \in {"GET_DATA", "GET_LOCK"}
  /\ serving' = [serving EXCEPT ![t[1]] = Entered(trans[t].at, t)]
  /\ UNCHANGED <<readers, writer, balance, trans, commits, serial, overlapped>>
Serve(t) ==
  /\ serving[t[1]] = Idle
  /\ trans[t].at \in {"GET_DATA", "GET_LOCK", "FINISH"}
  /\ serving' = [serving EXCEPT ![t[1]] = Entered(trans[t].at, t)]
  /\ IF trans[t].at = "FINISH"
     THEN /\ serial' = ApplySerially(t)
          /\ overlapped' = (overlapped \/
               \E p \in Locked(trans[t].type) : trans[t].seen[p] # balance[RowOf(t, p)])
     ELSE UNCHANGED <<serial, overlapped>>
  /\ UNCHANGED <<readers, writer, balance, trans, commits>>

\* Server thread c is in its first pass over the positions of handler op, at
\* position AtPos and row AtRow.
Access(c, op) == serving[c] # Idle /\ serving[c].op = op /\ serving[c].first # {}
AtPos(c) == Min(serving[c].first)
AtRow(c) == RowOf(serving[c].txn, AtPos(c))
KindOf(t, p) == LockOf[trans[t].type][p]
AtKind(c) == KindOf(serving[c].txn, AtPos(c))
Advance(c) == serving' = [serving EXCEPT ![c].first = @ \ {AtPos(c)}]

Load(c) ==
  /\ Access(c, "GET_DATA")
  /\ trans' = [trans EXCEPT ![serving[c].txn].seen[AtPos(c)] = balance[AtRow(c)]]
  /\ Advance(c)
  /\ UNCHANGED <<readers, writer, balance, commits, serial, overlapped>>

\* A lock was refused: release what was taken, in the order of the rows.
BugGiveUp(c) ==
  serving' = [serving EXCEPT ![c].failed = TRUE, ![c].first = {}]
GiveUp(c) ==
  serving' = [serving EXCEPT ![c].failed = TRUE, ![c].first = {}, ![c].unlock = serving[c].taken]

\* try_lock_read loads writer_lock, then adds a reader.
TestWriter(c) ==
  /\ Access(c, "GET_LOCK") /\ AtKind(c) = "read" /\ ~serving[c].tested
  /\ IF writer[AtRow(c)] THEN GiveUp(c) ELSE serving' = [serving EXCEPT ![c].tested = TRUE]
  /\ UNCHANGED <<readers, writer, balance, trans, commits, serial, overlapped>>

Taken(c) ==
  serving' = [serving EXCEPT ![c].first = @ \ {AtPos(c)}, ![c].tested = FALSE,
                             ![c].taken = @ \cup {AtPos(c)}]

AddReader(c) ==
  /\ Access(c, "GET_LOCK") /\ AtKind(c) = "read" /\ serving[c].tested
  /\ readers' = [readers EXCEPT ![AtRow(c)] = @ + 1]
  /\ Taken(c)
  /\ UNCHANGED <<writer, balance, trans, commits, serial, overlapped>>

\* try_lock_write: one compare-exchange of writer_lock.
TakeWriter(c) ==
  /\ Access(c, "GET_LOCK") /\ AtKind(c) = "write"
  /\ IF writer[AtRow(c)]
     THEN GiveUp(c) /\ UNCHANGED writer
     ELSE Taken(c) /\ writer' = [writer EXCEPT ![AtRow(c)] = TRUE]
  /\ UNCHANGED <<readers, balance, trans, commits, serial, overlapped>>

Store(c) ==
  /\ Access(c, "FINISH")
  /\ LET t == serving[c].txn
     IN  balance' = [balance EXCEPT ![AtRow(c)] =
                       NewBalance(trans[t].type, AtPos(c), trans[t].seen)]
  /\ Advance(c)
  /\ UNCHANGED <<readers, writer, trans, commits, serial, overlapped>>

BugReleasing(c) == serving[c] # Idle /\ serving[c].unlock # {}
\* The first pass is over: FINISH, and GET_LOCK when it failed, release rows.
Releasing(c) == serving[c] # Idle /\ serving[c].first = {} /\ serving[c].unlock # {}

Unlock(c) ==
  /\ Releasing(c)
  /\ LET t == serving[c].txn
         p == Min(serving[c].unlock)
         r == RowOf(t, p)
     IN  /\ \/ /\ KindOf(t, p) = "read"
               /\ readers' = [readers EXCEPT ![r] = @ - 1]
               /\ UNCHANGED writer
            \/ /\ KindOf(t, p) = "write"
               /\ writer' = [writer EXCEPT ![r] = FALSE]
               /\ UNCHANGED readers
         /\ serving' = [serving EXCEPT ![c].unlock = @ \ {p}]
  /\ UNCHANGED <<balance, trans, commits, serial, overlapped>>

\* enqueue_response; the client learns the outcome.
Outcome(h) ==
  CASE h.op = "GET_DATA" -> "data"
    [] h.op = "GET_LOCK" -> IF h.failed THEN "refused" ELSE "granted"
    [] h.op = "FINISH" -> "finished"

Respond(c) ==
  /\ serving[c] # Idle /\ serving[c].first = {} /\ serving[c].unlock = {}
  /\ LET o == Outcome(serving[c])
     IN  trans' = IF o \in {"refused", "finished"}     \* the next GET_DATA overwrites it
                  THEN [trans EXCEPT ![serving[c].txn] = [type |-> "Balance", at |-> o]]
                  ELSE [trans EXCEPT ![serving[c].txn].at = o]
  /\ commits' = IF serving[c].op = "FINISH" THEN commits + 1 ELSE commits
  /\ serving' = [serving EXCEPT ![c] = Idle]
  /\ UNCHANGED <<readers, writer, balance, serial, overlapped>>

ServerStep(c) ==
  \/ Load(c) \/ TestWriter(c) \/ AddReader(c) \/ TakeWriter(c) \/ Store(c) \/ Unlock(c) \/ Respond(c)

ClientStep(t) == StartTransaction(t) \/ RequestLocks(t) \/ RequestFinish(t)

BankNext ==
  \/ \E t \in Txns : ClientStep(t) \/ Serve(t)
  \/ \E c \in Clients : ServerStep(c) \/ Quit(c)

BankSpec == BankInit /\ [][BankNext]_bankVars
----------------------------------------------------------------------------
(* Properties *)

\* Positions whose lock a transaction holds: granted ones until FINISH has
\* released them, and those its GET_LOCK has taken and not given back.
Holds(t, p) ==
  LET h == serving[t[1]]
      active == h # Idle /\ h.txn = t
  IN  /\ p \in Locked(trans[t].type)
      /\ \/ trans[t].at \in {"granted", "abandoned"}
         \/ trans[t].at = "FINISH" /\ (active => p \in h.unlock)
         \/ trans[t].at = "GET_LOCK" /\ active /\ p \in h.taken /\ (h.failed => p \in h.unlock)

Holders(r, kind) == {x \in Txns \X Pos : /\ Holds(x[1], x[2]) /\ RowOf(x[1], x[2]) = r
                                          /\ KindOf(x[1], x[2]) = kind}

\* The lock words are exactly what the transactions hold: get_lock_handler's
\* roll-back gives back what it took and nothing else, and FINISH releases
\* what GET_LOCK granted, whatever the interleaving of the server threads.
LocksExact ==
  \A r \in Rows :
    /\ readers[r] = Cardinality(Holders(r, "read"))
    /\ Cardinality(Holders(r, "write")) = IF writer[r] THEN 1 ELSE 0

\* finish_handler stores into a row only while the transaction it serves is
\* the one holder of that row's write lock.
StoresUnderLock ==
  [][\A r \in Rows : balance'[r] # balance[r] =>
       \E c \in Clients : /\ Access(c, "FINISH") /\ AtRow(c) = r
                          /\ Holders(r, "write") = {<<serving[c].txn, AtPos(c)>>}]_bankVars

\* Balances are computed from GET_DATA, which takes no lock.  As long as no
\* transaction committed from a balance that changed meanwhile, the tables
\* hold what the same transactions leave when run one by one.
SerialUnlessOverlapped ==
  (~overlapped /\ \A c \in Clients : serving[c] # Idle => serving[c].op # "FINISH")
    => balance = serial

\* Locks that were granted are given back, unless the client that holds them
\* is stopped: once transactions stop committing none keeps a row.
LocksReleased == <>[](\A t \in Txns : trans[t].at \notin {"granted", "FINISH"})
============================================================================
