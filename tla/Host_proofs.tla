---------------------------- MODULE Host_proofs ----------------------------
(***************************************************************************)
(* Locks and host helpers: the spin locks of the DPA bank, with any threads*)
(* and transactions; the reader-writer lock of the host bank, for every    *)
(* finite set of threads and every choice of operations they use; the      *)
(* exchange of RDMA parameters; and the shadow of a memory pool, for any   *)
(* address width and any list of chunks, whichever mappings fail.          *)
(***************************************************************************)
EXTENDS DpaBank, RwLock, ParamExchange, MempoolShadow, TLAPS
----------------------------------------------------------------------------
(* The DPA bank *)

Ats == {"PING", "GET_DATA", "data", "GET_LOCK", "granted", "FINISH", "finished", "refused", "lost"}
LocksOf(t) == DLocks[TypeOf(t[2])]
DRowsAt(t, S) == {DRowOf(t, p) : p \in S}
Working == [op : {"GET_LOCK", "FINISH"}, txn : DTxns, left : SUBSET DPos,
            flag : {0} \cup {2 ^ (p - 1) : p \in DPos} \cup {FailValue}, failed : BOOLEAN]
Busy(t) == handler[t[1]] # Resting /\ handler[t[1]].txn = t

DpaTypes ==
  /\ locked \in [DRows -> BOOLEAN]
  /\ tran \in [DTxns -> [user1 : DpaAccounts, user2 : DpaAccounts, at : Ats]]
  /\ handler \in [DpaThreads -> {Resting} \cup Working]
  /\ granted \in [DTxns -> SUBSET DRows]
  /\ stolen \in BOOLEAN

\* A server thread works for a transaction of its client thread, at the
\* request that transaction waits for; GET_LOCK has taken at most position 1
\* when it is not yet through.
HandlersFit ==
  \A c \in DpaThreads : handler[c] # Resting =>
    /\ handler[c].txn[1] = c
    /\ tran[handler[c].txn].at = handler[c].op
    /\ handler[c].left \subseteq LocksOf(handler[c].txn)
    /\ handler[c].op = "GET_LOCK" /\ handler[c].left # {} => LocksOf(handler[c].txn) \ handler[c].left \subseteq {1}
    /\ handler[c].failed => handler[c].op = "GET_LOCK" /\ handler[c].flag = FailValue /\ handler[c].left # {}

\* The positions whose lock a transaction believes to hold.
Held(t) ==
  CASE tran[t].at = "GET_LOCK" /\ Busy(t) -> LocksOf(t) \ handler[t[1]].left
    [] tran[t].at = "granted" \/ (tran[t].at = "FINISH" /\ ~Busy(t)) -> LocksOf(t)
    [] tran[t].at = "FINISH" /\ Busy(t) -> handler[t[1]].left
    [] OTHER -> {}

\* What it was granted is no more than that, and exactly that, one row for
\* each position, until a lock is stolen.
OwnHeld(t) ==
  tran[t].at # "lost" =>
    /\ granted[t] \subseteq DRowsAt(t, Held(t))
    /\ ~stolen => /\ granted[t] = DRowsAt(t, Held(t))
                  /\ \A p, q \in Held(t) : DRowOf(t, p) = DRowOf(t, q) => p = q
GrantedHeld == \A t \in DTxns : OwnHeld(t)

\* The answer to its PING starts all transactions of a client thread.
PingTogether ==
  \A t, u \in DTxns : t[1] = u[1] /\ tran[t].at = "PING" => tran[u].at = "PING"

DpaInv == DpaTypes /\ HandlersFit /\ GrantedHeld /\ PingTogether /\ ExactUntilStolen
----------------------------------------------------------------------------
\* The positions a type locks.
LEMMA LocksShape ==
  ASSUME NEW t \in DTxns
  PROVE  LocksOf(t) \in {{1, 4}, {}, {1}, {1, 3}, {2}}
<1>1. TypeOf(t[2]) \in {"Amalgamate", "Balance", "DepositChecking", "SendPayment", "TransactSavings", "WriteCheck"}
  BY ZenonT(30), DpaBankAssumption DEF TypeOf
<1> QED  BY <1>1 DEF LocksOf, DLocks

\* The lowest position of a non-empty set of positions.
LEMMA LowestOf ==
  ASSUME NEW t \in DTxns, NEW S \in SUBSET LocksOf(t), S # {}
  PROVE  /\ Lowest(S) \in S /\ Lowest(S) \in DPos
         /\ LocksOf(t) \ S \subseteq {1} /\ S \ {Lowest(S)} # {} => LocksOf(t) \ (S \ {Lowest(S)}) \subseteq {1}
<1>1. S \subseteq DPos
  BY LocksShape DEF DPos
<1>2. \E p \in S : \A q \in S : p <= q
  BY LocksShape
<1>3. Lowest(S) \in S /\ \A q \in S : Lowest(S) <= q
  BY Zenon, <1>2 DEF Lowest
<1> QED  BY <1>1, <1>3, LocksShape

\* A row of the tables.
LEMMA RowInTable ==
  ASSUME DpaTypes, NEW t \in DTxns, NEW p
  PROVE  DRowOf(t, p) \in DRows
BY Zenon DEF DpaTypes, DRowOf, DRows

\* The failure path unlocks the row of position 1.
LEMMA FailureUnlocks ==
  ASSUME NEW t
  PROVE  UnlockedOnFailure(t, FailValue) = {DRowOf(t, 1)}
<1>1. 2 ^ (1 - 1) = 1 /\ 2 ^ (2 - 1) = 2 /\ 2 ^ (3 - 1) = 4 /\ 2 ^ (4 - 1) = 8
  OBVIOUS
<1>2. 1 \div 1 = 1 /\ 1 \div 2 = 0 /\ 1 \div 4 = 0 /\ 1 \div 8 = 0 /\ 1 % 2 = 1 /\ 0 % 2 = 0
  OBVIOUS
<1>3. \A q \in DPos : (1 \div 2 ^ (q - 1)) % 2 = 1 <=> q = 1
  <2> SUFFICES ASSUME NEW q \in DPos PROVE (1 \div 2 ^ (q - 1)) % 2 = 1 <=> q = 1
    BY Zenon
  <2>1. CASE q = 1
    BY Zenon, <1>1, <1>2, <2>1
  <2>2. CASE q = 2
    BY Zenon, <1>1, <1>2, <2>2
  <2>3. CASE q = 3
    BY Zenon, <1>1, <1>2, <2>3
  <2>4. CASE q = 4
    BY Zenon, <1>1, <1>2, <2>4
  <2> QED  BY <2>1, <2>2, <2>3, <2>4 DEF DPos
<1> DEFINE Bit(q) == (1 \div 2 ^ (q - 1)) % 2 = 1
<1>4. {q \in DPos : Bit(q)} = {1}
  <2>1. \A q \in DPos : Bit(q) <=> q = 1
    BY Zenon, <1>3
  <2>2. 1 \in DPos
    BY DEF DPos
  <2> HIDE DEF Bit
  <2> QED  BY Zenon, <2>1, <2>2
<1> QED  BY Zenon, <1>4 DEF UnlockedOnFailure, FailValue

\* The first state of the DPA bank: no row is locked.
LEMMA DpaStarts == DpaInit => DpaInv
<1> SUFFICES ASSUME DpaInit PROVE DpaInv
  BY Zenon
<1>1. DpaTypes
  BY Zenon, DpaBankAssumption DEF DpaInit, DpaTypes, NoUsers, Ats
<1>2. HandlersFit
  BY Zenon DEF DpaInit, HandlersFit
<1>3. GrantedHeld
  BY ZenonT(30) DEF DpaInit, GrantedHeld, OwnHeld, NoUsers, Held, DRowsAt
<1>4. ExactUntilStolen
  BY Zenon DEF DpaInit, ExactUntilStolen
<1>5. PingTogether
  BY Zenon DEF DpaInit, PingTogether, NoUsers
<1> QED  BY Zenon, <1>1, <1>2, <1>3, <1>4, <1>5 DEF DpaInv

\* A transaction that a step leaves alone keeps what it holds.
LEMMA HeldKept ==
  ASSUME NEW u \in DTxns, tran'[u] = tran[u], granted'[u] = granted[u], ~stolen' => ~stolen,
         handler'[u[1]] = handler[u[1]] \/ (~Busy(u) /\ ~Busy(u)'), OwnHeld(u)
  PROVE  OwnHeld(u)'
<1>1. Held(u)' = Held(u)
  BY Zenon DEF Held, Busy
<1>2. \A p : DRowOf(u, p)' = DRowOf(u, p)
  BY Zenon DEF DRowOf
<1>3. DRowsAt(u, Held(u))' = DRowsAt(u, Held(u))
  BY Zenon, <1>1, <1>2 DEF DRowsAt
<1> QED  BY ZenonT(30), <1>1, <1>2, <1>3 DEF OwnHeld

\* A step of one transaction outside the server.
LEMMA ClientStepKeeps ==
  ASSUME DpaInv, NEW t \in DTxns, NEW r \in [user1 : DpaAccounts, user2 : DpaAccounts, at : Ats],
         tran' = [tran EXCEPT ![t] = r], UNCHANGED <<locked, handler, granted, stolen>>,
         ~Busy(t), OwnHeld(t)', tran[t].at # "PING", r.at # "PING"
  PROVE  DpaInv'
<1>1. DpaTypes'
  BY Zenon DEF DpaInv, DpaTypes
<1>2. \A u \in DTxns : u # t => tran'[u] = tran[u]
  BY Zenon DEF DpaInv, DpaTypes
<1>3. HandlersFit'
  <2> SUFFICES ASSUME NEW c \in DpaThreads, handler[c] # Resting
               PROVE  tran'[handler[c].txn].at = handler[c].op
    BY ZenonT(30) DEF DpaInv, HandlersFit, LocksOf
  <2>1. handler[c].txn \in DTxns /\ handler[c].txn[1] = c /\ tran[handler[c].txn].at = handler[c].op
    BY Zenon DEF DpaInv, DpaTypes, Working, HandlersFit
  <2>2. handler[c].txn # t
    BY Zenon, <2>1 DEF Busy
  <2> QED  BY Zenon, <1>2, <2>1, <2>2
<1>4. GrantedHeld'
  <2> SUFFICES ASSUME NEW u \in DTxns PROVE OwnHeld(u)'
    BY Zenon DEF GrantedHeld
  <2>1. CASE u = t
    BY Zenon, <2>1
  <2>2. CASE u # t
    BY Zenon, <1>2, <2>2, HeldKept DEF DpaInv, GrantedHeld
  <2> QED  BY Zenon, <2>1, <2>2
<1>5. ExactUntilStolen'
  BY Zenon DEF DpaInv, ExactUntilStolen
<1>6. PingTogether'
  BY Zenon DEF DpaInv, DpaTypes, PingTogether
<1> QED  BY Zenon, <1>1, <1>3, <1>4, <1>5, <1>6 DEF DpaInv

\* The client threads keep the invariant.
LEMMA ClientKeeps ==
  ASSUME DpaInv, NEW t \in DTxns,
         Reload(t) \/ ClientLock(t) \/ ClientFinish(t) \/ DropFrame(t) \/ GetData(t)
  PROVE  DpaInv'
<1>0. tran[t] \in [user1 : DpaAccounts, user2 : DpaAccounts, at : Ats] /\ t[1] \in DpaThreads
  BY Zenon, DpaBankAssumption DEF DpaInv, DpaTypes
<1>1. tran[t].at \notin {"GET_LOCK", "FINISH"} => ~Busy(t)
  BY <1>0 DEF Busy, DpaInv, DpaTypes, Working, HandlersFit
<1>2. OwnHeld(t)
  BY Zenon DEF DpaInv, GrantedHeld
<1>3. CASE Reload(t)
  <2>1. PICK u \in DpaAccounts, v \in DpaAccounts :
          tran' = [tran EXCEPT ![t] = [user1 |-> u, user2 |-> v, at |-> "GET_DATA"]]
    BY Zenon, <1>3 DEF Reload
  <2>2. granted[t] = {}
    BY Zenon, <1>2, <1>3 DEF Reload, OwnHeld, Held, DRowsAt
  <2>3. OwnHeld(t)'
    BY Zenon, <2>1, <2>2, <1>3 DEF Reload, OwnHeld, Held, DRowsAt, DpaInv, DpaTypes
  <2> QED  BY Zenon, <1>1, <1>3, <2>1, <2>3, ClientStepKeeps DEF Reload, Ats
<1>4. CASE ClientLock(t)
  <2> DEFINE r == [tran[t] EXCEPT !.at = "GET_LOCK"]
  <2>1. tran' = [tran EXCEPT ![t] = r] /\ r \in [user1 : DpaAccounts, user2 : DpaAccounts, at : Ats]
    BY Zenon, <1>0, <1>4 DEF ClientLock, Ats
  <2>2. granted[t] = {} /\ ~Busy(t) /\ ~Busy(t)'
    BY Zenon, <1>1, <1>2, <1>4 DEF ClientLock, OwnHeld, Held, DRowsAt, Busy
  <2>3. OwnHeld(t)'
    BY <2>1, <2>2, <1>4 DEF ClientLock, OwnHeld, Held, DRowsAt, DpaInv, DpaTypes
  <2> QED  BY Zenon, <1>4, <2>1, <2>2, <2>3, ClientStepKeeps DEF ClientLock
<1>5. CASE ClientFinish(t)
  <2> DEFINE r == [tran[t] EXCEPT !.at = "FINISH"]
  <2>1. tran' = [tran EXCEPT ![t] = r] /\ r \in [user1 : DpaAccounts, user2 : DpaAccounts, at : Ats]
    BY Zenon, <1>0, <1>5 DEF ClientFinish, Ats
  <2>2. ~Busy(t) /\ ~Busy(t)'
    BY Zenon, <1>1, <1>5 DEF ClientFinish, Busy
  <2>3. Held(t)' = Held(t) /\ \A p : DRowOf(t, p)' = DRowOf(t, p)
    BY ZenonT(30), <1>0, <2>1, <2>2, <1>5 DEF ClientFinish, Held, DRowOf, LocksOf, DpaInv, DpaTypes
  <2>4. OwnHeld(t)'
    BY <1>0, <2>1, <2>3, <1>2, <1>5 DEF ClientFinish, OwnHeld, DRowsAt, DpaInv, DpaTypes
  <2> QED  BY Zenon, <1>5, <2>1, <2>2, <2>4, ClientStepKeeps DEF ClientFinish
<1>6. CASE DropFrame(t)
  <2>1. ~Busy(t)
    BY Zenon, <1>0, <1>6 DEF DropFrame, Busy
  <2>2. NoUsers("lost") \in [user1 : DpaAccounts, user2 : DpaAccounts, at : Ats]
    BY Zenon, DpaBankAssumption DEF NoUsers, Ats
  <2>3. OwnHeld(t)'
    BY Zenon, <1>6 DEF DropFrame, OwnHeld, NoUsers, DpaInv, DpaTypes
  <2> QED  BY Zenon, <1>6, <2>1, <2>2, <2>3, ClientStepKeeps DEF DropFrame, NoUsers
<1>7. CASE GetData(t)
  <2> DEFINE r == [tran[t] EXCEPT !.at = "data"]
  <2>1. tran' = [tran EXCEPT ![t] = r] /\ r \in [user1 : DpaAccounts, user2 : DpaAccounts, at : Ats]
    BY Zenon, <1>0, <1>7 DEF GetData, Ats
  <2>2. granted[t] = {} /\ ~Busy(t)
    BY Zenon, <1>1, <1>2, <1>7 DEF GetData, OwnHeld, Held, DRowsAt
  <2>3. OwnHeld(t)'
    BY <2>1, <2>2, <1>7 DEF GetData, OwnHeld, Held, DRowsAt, DpaInv, DpaTypes
  <2> QED  BY Zenon, <1>7, <2>1, <2>2, <2>3, ClientStepKeeps DEF GetData
<1> QED  BY Zenon, <1>3, <1>4, <1>5, <1>6, <1>7

\* PING touches no lock.
LEMMA PingKeeps ==
  ASSUME DpaInv, NEW c \in DpaThreads, PingAnswered(c)
  PROVE  DpaInv'
<1>1. PICK u \in [{t \in DTxns : t[1] = c} -> DpaAccounts \X DpaAccounts] :
         tran' = [t \in DTxns |-> IF t \notin DOMAIN u THEN tran[t]
                    ELSE [user1 |-> u[t][1], user2 |-> u[t][2], at |-> "GET_DATA"]]
  BY Zenon DEF PingAnswered
<1>2. \A t \in DTxns : t[1] # c => tran'[t] = tran[t]
  BY Zenon, <1>1
<1>3. \A t \in DTxns : t[1] = c => /\ tran'[t] \in [user1 : DpaAccounts, user2 : DpaAccounts, at : Ats]
                                   /\ tran'[t].at = "GET_DATA" /\ tran[t].at = "PING"
  BY ZenonT(30), <1>1 DEF PingAnswered, DpaInv, PingTogether, Ats
<1>4. UNCHANGED <<locked, handler, granted, stolen>>
  BY Zenon DEF PingAnswered
<1>5. DpaTypes'
  BY Zenon, <1>1, <1>2, <1>3, <1>4 DEF DpaInv, DpaTypes
<1>6. HandlersFit'
  <2> SUFFICES ASSUME NEW d \in DpaThreads, handler[d] # Resting
               PROVE  tran'[handler[d].txn].at = handler[d].op
    BY Zenon, <1>4 DEF DpaInv, HandlersFit, LocksOf
  <2>1. /\ handler[d].txn \in DTxns /\ handler[d].txn[1] = d /\ tran[handler[d].txn].at = handler[d].op
        /\ handler[d].op # "PING"
    BY Zenon DEF DpaInv, DpaTypes, Working, HandlersFit
  <2> QED  BY Zenon, <1>2, <1>3, <2>1
<1>7. GrantedHeld'
  <2> SUFFICES ASSUME NEW t \in DTxns PROVE OwnHeld(t)'
    BY Zenon DEF GrantedHeld
  <2>1. OwnHeld(t)
    BY Zenon DEF DpaInv, GrantedHeld
  <2>2. CASE t[1] # c
    BY Zenon, <1>2, <1>4, <2>1, <2>2, HeldKept
  <2>3. CASE t[1] = c
    <3>1. granted[t] = {}
      BY ZenonT(30), <1>3, <2>1, <2>3 DEF OwnHeld, Held, DRowsAt
    <3> QED  BY Zenon, <1>3, <1>4, <2>3, <3>1 DEF OwnHeld, Held, DRowsAt
  <2> QED  BY Zenon, <2>2, <2>3
<1>8. PingTogether'
  BY <1>2, <1>3 DEF DpaInv, PingTogether
<1>9. ExactUntilStolen'
  BY Zenon, <1>4 DEF DpaInv, ExactUntilStolen
<1> QED  BY Zenon, <1>5, <1>6, <1>7, <1>8, <1>9 DEF DpaInv

\* What a step of a server thread for transaction t does: the thread goes on with
\* h, the transaction with r, and the others keep their locks.
ServerMoves(t, h, r) ==
  /\ handler' = [handler EXCEPT ![t[1]] = h] /\ tran' = [tran EXCEPT ![t] = r]
  /\ \A u \in DTxns : u # t => granted'[u] = granted[u] /\ (u[1] = t[1] => ~Busy(u))
  /\ ~stolen' => ~stolen
  /\ tran[t].at # "PING" /\ r.at # "PING"
  /\ h # Resting => /\ h.txn = t /\ r.at = h.op /\ h.left \subseteq LocksOf(t)
                    /\ h.op = "GET_LOCK" /\ h.left # {} => LocksOf(t) \ h.left \subseteq {1}
                    /\ h.failed => h.op = "GET_LOCK" /\ h.flag = FailValue /\ h.left # {}

\* A step of a server thread for transaction t.
LEMMA ServerStepKeeps ==
  ASSUME DpaInv, NEW t \in DTxns, NEW h \in {Resting} \cup Working,
         NEW r \in [user1 : DpaAccounts, user2 : DpaAccounts, at : Ats],
         DpaTypes', ServerMoves(t, h, r), OwnHeld(t)', ExactUntilStolen'
  PROVE  DpaInv'
<1> USE DEF ServerMoves
<1>0. t[1] \in DpaThreads
  BY Zenon, DpaBankAssumption
<1>1. \A u \in DTxns : u # t => tran'[u] = tran[u]
  BY Zenon DEF DpaInv, DpaTypes
<1>2. handler'[t[1]] = h /\ \A d \in DpaThreads : d # t[1] => handler'[d] = handler[d]
  BY Zenon, <1>0 DEF DpaInv, DpaTypes
<1>3. tran'[t] = r
  BY Zenon DEF DpaInv, DpaTypes
<1>4. HandlersFit'
  <2> SUFFICES ASSUME NEW d \in DpaThreads, handler'[d] # Resting
               PROVE  /\ handler'[d].txn[1] = d
                      /\ tran'[handler'[d].txn].at = handler'[d].op
                      /\ handler'[d].left \subseteq LocksOf(handler'[d].txn)
                      /\ handler'[d].op = "GET_LOCK" /\ handler'[d].left # {}
                           => LocksOf(handler'[d].txn) \ handler'[d].left \subseteq {1}
                      /\ handler'[d].failed => handler'[d].op = "GET_LOCK" /\ handler'[d].flag = FailValue /\ handler'[d].left # {}
    BY Zenon DEF HandlersFit, LocksOf
  <2>1. CASE d = t[1]
    BY ZenonT(30), <1>2, <1>3, <2>1
  <2>2. CASE d # t[1]
    <3>1. handler[d].txn \in DTxns
      BY Zenon, <1>2, <2>2 DEF DpaInv, DpaTypes, Working
    <3>2. handler[d].txn[1] = d
      BY Zenon, <1>2, <2>2 DEF DpaInv, HandlersFit
    <3> QED  BY <1>1, <1>2, <2>2, <3>1, <3>2 DEF DpaInv, HandlersFit
  <2> QED  BY Zenon, <2>1, <2>2
<1>5. GrantedHeld'
  <2> SUFFICES ASSUME NEW u \in DTxns PROVE OwnHeld(u)'
    BY Zenon DEF GrantedHeld
  <2>1. CASE u = t
    BY Zenon, <2>1
  <2>2. CASE u # t
    <3>1. u[1] \in DpaThreads
      BY Zenon, DpaBankAssumption
    <3>2. u[1] = t[1] => ~Busy(u) /\ ~Busy(u)'
      BY <1>2, <2>2 DEF Busy
    <3>3. u[1] # t[1] => handler'[u[1]] = handler[u[1]]
      BY Zenon, <1>2, <3>1
    <3> QED  BY Zenon, <1>1, <2>2, <3>2, <3>3, HeldKept DEF DpaInv, GrantedHeld
  <2> QED  BY Zenon, <2>1, <2>2
<1>6. PingTogether'
  BY <1>1, <1>3 DEF DpaInv, PingTogether
<1> QED  BY Zenon, <1>4, <1>5, <1>6 DEF DpaInv

\* A server thread that receives a frame keeps the invariant.
LEMMA ReceiveKeeps ==
  ASSUME DpaInv, NEW t \in DTxns, ServerReceive(t)
  PROVE  DpaInv'
<1> DEFINE h == [op |-> tran[t].at, txn |-> t, left |-> LocksOf(t), flag |-> 0, failed |-> FALSE]
<1>1. handler' = [handler EXCEPT ![t[1]] = h] /\ UNCHANGED <<locked, tran, granted, stolen>>
  BY Zenon DEF ServerReceive, LocksOf
<1>2. LocksOf(t) \subseteq DPos
  BY LocksShape DEF DPos
<1>3. h \in Working
  BY Zenon, <1>2 DEF ServerReceive, Working
<1>4. t[1] \in DpaThreads /\ tran[t] \in [user1 : DpaAccounts, user2 : DpaAccounts, at : Ats]
  BY Zenon, DpaBankAssumption DEF DpaInv, DpaTypes
<1>5. handler'[t[1]] = h /\ h # Resting /\ ~Busy(t) /\ Busy(t)'
  BY <1>1, <1>4 DEF DpaInv, DpaTypes, ServerReceive, Busy, Resting
<1>6. OwnHeld(t)'
  <2>1. OwnHeld(t)
    BY Zenon DEF DpaInv, GrantedHeld
  <2>2. CASE tran[t].at = "GET_LOCK"
    <3>1. Held(t) = {} /\ Held(t)' = {}
      BY <1>1, <1>5, <2>2 DEF Held
    <3> QED  BY Zenon, <1>1, <2>1, <2>2, <3>1 DEF OwnHeld, DRowsAt
  <2>3. CASE tran[t].at = "FINISH"
    <3>1. Held(t) = LocksOf(t) /\ Held(t)' = LocksOf(t)
      BY <1>1, <1>5, <2>3 DEF Held, LocksOf
    <3> QED  BY <1>1, <2>1, <2>3, <3>1 DEF OwnHeld, DRowsAt, DRowOf
  <2> QED  BY Zenon, <2>2, <2>3 DEF ServerReceive
<1>7. DpaTypes' /\ ExactUntilStolen'
  BY Zenon, <1>1, <1>3 DEF DpaInv, DpaTypes, ExactUntilStolen
<1>8. tran' = [tran EXCEPT ![t] = tran[t]]
  BY Zenon, <1>1 DEF DpaInv, DpaTypes
<1>9. \A u \in DTxns : u # t /\ u[1] = t[1] => ~Busy(u)
  BY Zenon DEF ServerReceive, Busy
<1>10. tran[t].at \in {"GET_LOCK", "FINISH"} /\ h.op = tran[t].at /\ h.txn = t /\ h.left = LocksOf(t) /\ ~h.failed
  BY Zenon DEF ServerReceive
<1> HIDE DEF h
<1>11. ServerMoves(t, h, tran[t])
  BY Zenon, <1>1, <1>8, <1>9, <1>10 DEF ServerMoves
<1> QED  BY Zenon, <1>3, <1>4, <1>6, <1>7, <1>11, ServerStepKeeps

\* What a server thread that is at work knows.
LEMMA AtWork ==
  ASSUME DpaInv, NEW c \in DpaThreads, handler[c] # Resting
  PROVE  LET t == handler[c].txn
         IN  /\ t \in DTxns /\ t[1] = c /\ Busy(t) /\ handler[c] \in Working
             /\ tran[t].at = handler[c].op /\ tran[t] \in [user1 : DpaAccounts, user2 : DpaAccounts, at : Ats]
             /\ \A u \in DTxns : u # t /\ u[1] = c => ~Busy(u)
             /\ OwnHeld(t)
             /\ handler[c].op = "GET_LOCK" => Held(t) = LocksOf(t) \ handler[c].left
             /\ handler[c].op = "FINISH" => Held(t) = handler[c].left
<1> DEFINE t == handler[c].txn
<1>1. handler[c] \in Working /\ t \in DTxns
  BY Zenon DEF DpaInv, DpaTypes, Working
<1>2. t[1] = c /\ tran[t].at = handler[c].op
  BY Zenon DEF DpaInv, HandlersFit
<1>3. Busy(t) /\ \A u \in DTxns : u # t /\ u[1] = c => ~Busy(u)
  BY Zenon, <1>2 DEF Busy
<1>4. OwnHeld(t) /\ tran[t] \in [user1 : DpaAccounts, user2 : DpaAccounts, at : Ats]
  BY Zenon, <1>1 DEF DpaInv, GrantedHeld, DpaTypes
<1>5. /\ handler[c].op = "GET_LOCK" => Held(t) = LocksOf(t) \ handler[c].left
      /\ handler[c].op = "FINISH" => Held(t) = handler[c].left
  BY Zenon, <1>2, <1>3 DEF Held
<1> QED  BY Zenon, <1>1, <1>2, <1>3, <1>4, <1>5

\* A try-lock of GET_LOCK keeps the invariant.
LEMMA TryLockKeeps ==
  ASSUME DpaInv, NEW c \in DpaThreads, handler[c] # Resting, TryLock(c)
  PROVE  DpaInv'
<1> SUFFICES ASSUME NEW t, t = handler[c].txn, NEW L, L = handler[c].left,
                    NEW p, p = Cur(c), NEW R, R = DRowOf(t, p)
             PROVE  DpaInv'
  BY Zenon
<1>1. /\ t \in DTxns /\ t[1] = c /\ Busy(t) /\ handler[c] \in Working
      /\ tran[t].at = "GET_LOCK" /\ tran[t] \in [user1 : DpaAccounts, user2 : DpaAccounts, at : Ats]
      /\ \A u \in DTxns : u # t /\ u[1] = c => ~Busy(u)
      /\ OwnHeld(t) /\ Held(t) = LocksOf(t) \ L
  BY Zenon, AtWork DEF TryLock
<1>2. /\ L # {} /\ L \subseteq LocksOf(t) /\ LocksOf(t) \ L \subseteq {1} /\ handler[c].op = "GET_LOCK"
      /\ ~handler[c].failed
  BY Zenon DEF TryLock, DpaInv, HandlersFit
<1>3. /\ p \in L /\ p \in DPos
      /\ L \ {p} # {} => LocksOf(t) \ (L \ {p}) \subseteq {1}
  BY ZenonT(30), <1>1, <1>2, LowestOf DEF Cur
<1>4. R \in DRows /\ CurRow(c) = R
  BY Zenon, <1>1, RowInTable DEF DpaInv, CurRow
<1>5. tran' = [tran EXCEPT ![t] = tran[t]] /\ tran' = tran /\ stolen' = stolen
  BY Zenon DEF TryLock, DpaInv, DpaTypes
<1>6. \A q : DRowOf(t, q)' = DRowOf(t, q)
  BY Zenon, <1>5 DEF DRowOf
<1>7. CASE locked[R]
  <2> DEFINE h == [handler[c] EXCEPT !.flag = FailValue, !.failed = TRUE]
  <2>1. handler' = [handler EXCEPT ![c] = h] /\ UNCHANGED <<locked, granted>>
    BY Zenon, <1>4, <1>7 DEF TryLock
  <2>2. h \in Working /\ h.txn = t /\ h.op = "GET_LOCK" /\ h.left = L /\ h.flag = FailValue /\ h # Resting
    BY Zenon, <1>1, <1>2 DEF Working, Resting
  <2>3. handler'[c] = h
    BY Zenon, <2>1 DEF DpaInv, DpaTypes
  <2> HIDE DEF h
  <2>4. Busy(t)' /\ Held(t)' = Held(t)
    BY Zenon, <1>1, <1>5, <2>2, <2>3 DEF Busy, Held, LocksOf
  <2>5. OwnHeld(t)'
    BY <1>1, <1>5, <1>6, <2>1, <2>4 DEF OwnHeld, DRowsAt
  <2>6. DpaTypes' /\ ExactUntilStolen'
    BY Zenon, <1>5, <2>1, <2>2 DEF DpaInv, DpaTypes, ExactUntilStolen
  <2>7. ServerMoves(t, h, tran[t])
    BY Zenon, <1>1, <1>2, <1>5, <2>1, <2>2 DEF ServerMoves
  <2> QED  BY Zenon, <1>1, <2>2, <2>5, <2>6, <2>7, ServerStepKeeps
<1>8. CASE ~locked[R]
  <2> DEFINE h == [handler[c] EXCEPT !.flag = 2 ^ (p - 1), !.left = L \ {p}]
  <2>1. /\ handler' = [handler EXCEPT ![c] = h] /\ locked' = [locked EXCEPT ![R] = TRUE]
        /\ granted' = [granted EXCEPT ![t] = @ \cup {R}]
    BY Zenon, <1>4, <1>8 DEF TryLock, BelievedBy
  <2>2. h \in Working /\ h.txn = t /\ h.op = "GET_LOCK" /\ h.left = L \ {p} /\ ~h.failed /\ h # Resting
    BY ZenonT(30), <1>1, <1>2, <1>3 DEF Working, Resting
  <2>3. handler'[c] = h
    BY Zenon, <2>1 DEF DpaInv, DpaTypes
  <2> HIDE DEF h
  <2>4. Busy(t)' /\ Held(t)' = Held(t) \cup {p}
    BY <1>1, <1>2, <1>3, <1>5, <2>2, <2>3 DEF Busy, Held, LocksOf
  <2>5. /\ granted'[t] = granted[t] \cup {R} /\ \A u \in DTxns : u # t => granted'[u] = granted[u]
        /\ locked'[R] = TRUE /\ \A r \in DRows : r # R => locked'[r] = locked[r]
    BY Zenon, <1>1, <1>4, <2>1 DEF DpaInv, DpaTypes
  <2>6. DRowsAt(t, Held(t))' = DRowsAt(t, Held(t)) \cup {R}
    BY <1>6, <2>4 DEF DRowsAt
  <2>7. ~stolen => \A u \in DTxns : R \notin granted[u]
    BY Zenon, <1>8 DEF DpaInv, ExactUntilStolen
  <2>8. OwnHeld(t)'
    <3>1. granted[t] \subseteq DRowsAt(t, Held(t))
      BY Zenon, <1>1 DEF OwnHeld
    <3>2. ~stolen => \A a, b \in Held(t) \cup {p} : DRowOf(t, a) = DRowOf(t, b) => a = b
      BY <1>1, <2>7 DEF OwnHeld, DRowsAt
    <3>3. ~stolen => granted[t] = DRowsAt(t, Held(t))
      BY Zenon, <1>1 DEF OwnHeld
    <3>4. granted'[t] \subseteq DRowsAt(t, Held(t))' /\ (~stolen' => granted'[t] = DRowsAt(t, Held(t))')
      BY ZenonT(30), <1>5, <2>5, <2>6, <3>1, <3>3
    <3>5. ~stolen' => \A a, b \in Held(t)' : DRowOf(t, a)' = DRowOf(t, b)' => a = b
      BY <1>5, <1>6, <2>4, <3>2
    <3> QED  BY Zenon, <3>4, <3>5 DEF OwnHeld
  <2>9. DpaTypes'
    BY Zenon, <1>4, <1>5, <2>1, <2>2 DEF DpaInv, DpaTypes
  <2>10. ExactUntilStolen'
    <3>1. \A r \in DRows : locked'[r] => \E u \in DTxns : r \in granted'[u]
      BY <1>1, <2>5 DEF DpaInv, ExactUntilStolen
    <3>2. ~stolen => \A u \in DTxns : \A r \in granted'[u] : locked'[r]
      BY <2>5 DEF DpaInv, DpaTypes, ExactUntilStolen
    <3>3. ~stolen => \A u, v \in DTxns : u # v => granted'[u] \cap granted'[v] = {}
      BY <2>5, <2>7 DEF DpaInv, ExactUntilStolen
    <3> QED  BY Zenon, <1>5, <3>1, <3>2, <3>3 DEF ExactUntilStolen
  <2>11. /\ L \ {p} \subseteq LocksOf(t)
         /\ h.left # {} => LocksOf(t) \ h.left \subseteq {1}
    BY Zenon, <1>2, <1>3, <2>2
  <2>12. ServerMoves(t, h, tran[t])
    BY Zenon, <1>1, <1>5, <2>1, <2>2, <2>5, <2>11 DEF ServerMoves
  <2> QED  BY Zenon, <1>1, <2>2, <2>8, <2>9, <2>10, <2>12, ServerStepKeeps
<1> QED  BY Zenon, <1>7, <1>8

\* The answer to a GET_LOCK that took all its locks keeps the invariant.
LEMMA AnswerLockKeeps ==
  ASSUME DpaInv, NEW c \in DpaThreads, handler[c] # Resting, AnswerLock(c)
  PROVE  DpaInv'
<1> SUFFICES ASSUME NEW t, t = handler[c].txn PROVE  DpaInv'
  BY Zenon
<1> DEFINE r == [tran[t] EXCEPT !.at = "granted"]
<1>1. /\ t \in DTxns /\ t[1] = c /\ tran[t].at = "GET_LOCK"
      /\ tran[t] \in [user1 : DpaAccounts, user2 : DpaAccounts, at : Ats]
      /\ \A u \in DTxns : u # t /\ u[1] = c => ~Busy(u)
      /\ OwnHeld(t) /\ Held(t) = LocksOf(t) \ {}
  BY Zenon, AtWork DEF AnswerLock
<1>2. /\ tran' = [tran EXCEPT ![t] = r] /\ handler' = [handler EXCEPT ![c] = Resting]
      /\ UNCHANGED <<locked, granted, stolen>>
  BY Zenon DEF AnswerLock
<1>3. /\ r \in [user1 : DpaAccounts, user2 : DpaAccounts, at : Ats] /\ r.at = "granted"
      /\ r.user1 = tran[t].user1 /\ r.user2 = tran[t].user2
  BY Zenon, <1>1 DEF Ats
<1>4. tran'[t] = r
  BY Zenon, <1>1, <1>2 DEF DpaInv, DpaTypes
<1> HIDE DEF r
<1>5. Held(t)' = Held(t) /\ \A q : DRowOf(t, q)' = DRowOf(t, q)
  BY Zenon, <1>1, <1>3, <1>4 DEF Held, LocksOf, DRowOf
<1>6. OwnHeld(t)'
  BY <1>1, <1>2, <1>5 DEF OwnHeld, DRowsAt
<1>7. DpaTypes' /\ ExactUntilStolen'
  BY Zenon, <1>2, <1>3 DEF DpaInv, DpaTypes, ExactUntilStolen
<1>8. ServerMoves(t, Resting, r)
  BY Zenon, <1>1, <1>2, <1>3 DEF ServerMoves
<1> QED  BY Zenon, <1>1, <1>3, <1>6, <1>7, <1>8, ServerStepKeeps

\* The answer to FINISH keeps the invariant.
LEMMA AnswerFinishKeeps ==
  ASSUME DpaInv, NEW c \in DpaThreads, handler[c] # Resting, AnswerFinish(c)
  PROVE  DpaInv'
<1> SUFFICES ASSUME NEW t, t = handler[c].txn PROVE  DpaInv'
  BY Zenon
<1> DEFINE r == NoUsers("finished")
<1>1. /\ t \in DTxns /\ t[1] = c /\ tran[t].at = "FINISH"
      /\ \A u \in DTxns : u # t /\ u[1] = c => ~Busy(u)
      /\ OwnHeld(t) /\ Held(t) = {}
  BY Zenon, AtWork DEF AnswerFinish
<1>2. /\ tran' = [tran EXCEPT ![t] = r] /\ handler' = [handler EXCEPT ![c] = Resting]
      /\ UNCHANGED <<locked, granted, stolen>>
  BY Zenon DEF AnswerFinish
<1>3. r \in [user1 : DpaAccounts, user2 : DpaAccounts, at : Ats] /\ r.at = "finished"
  BY Zenon, DpaBankAssumption DEF Ats, NoUsers
<1>4. tran'[t] = r
  BY Zenon, <1>1, <1>2 DEF DpaInv, DpaTypes
<1> HIDE DEF r
<1>5. Held(t)' = {} /\ granted[t] = {}
  BY <1>1, <1>3, <1>4 DEF Held, OwnHeld, DRowsAt
<1>6. OwnHeld(t)'
  BY Zenon, <1>2, <1>5 DEF OwnHeld, DRowsAt
<1>7. DpaTypes' /\ ExactUntilStolen'
  BY Zenon, <1>2, <1>3 DEF DpaInv, DpaTypes, ExactUntilStolen
<1>8. ServerMoves(t, Resting, r)
  BY Zenon, <1>1, <1>2, <1>3 DEF ServerMoves
<1> QED  BY Zenon, <1>1, <1>3, <1>6, <1>7, <1>8, ServerStepKeeps

\* The roll-back of a GET_LOCK keeps the invariant, unless it steals.
LEMMA RefuseLockKeeps ==
  ASSUME DpaInv, NEW c \in DpaThreads, handler[c] # Resting, RefuseLock(c)
  PROVE  DpaInv'
<1> SUFFICES ASSUME NEW t, t = handler[c].txn, NEW R, R = DRowOf(t, 1) PROVE  DpaInv'
  BY Zenon
<1> DEFINE r == NoUsers("refused")
<1>1. /\ t \in DTxns /\ t[1] = c /\ tran[t].at = "GET_LOCK"
      /\ \A u \in DTxns : u # t /\ u[1] = c => ~Busy(u)
      /\ OwnHeld(t) /\ Held(t) = LocksOf(t) \ handler[c].left
  BY Zenon, AtWork DEF RefuseLock
<1>2. handler[c].flag = FailValue /\ Held(t) \subseteq {1}
  BY Zenon, <1>1 DEF RefuseLock, DpaInv, HandlersFit
<1>3. UnlockedOnFailure(t, handler[c].flag) = {R}
  BY Zenon, <1>2, FailureUnlocks
<1>4. /\ tran' = [tran EXCEPT ![t] = r] /\ handler' = [handler EXCEPT ![c] = Resting]
      /\ locked' = [w \in DRows |-> IF w \in {R} THEN FALSE ELSE locked[w]]
      /\ stolen' = (stolen \/ \E w \in {R} : locked[w] /\ w \notin granted[t])
      /\ granted' = [granted EXCEPT ![t] = {}]
  BY Zenon, <1>3 DEF RefuseLock
<1>5. r \in [user1 : DpaAccounts, user2 : DpaAccounts, at : Ats] /\ r.at = "refused"
  BY Zenon, DpaBankAssumption DEF Ats, NoUsers
<1>6. /\ tran'[t] = r /\ granted'[t] = {} /\ \A u \in DTxns : u # t => granted'[u] = granted[u]
      /\ R \in DRows /\ \A w \in DRows : locked'[w] = (w # R /\ locked[w])
  BY Zenon, <1>1, <1>4, RowInTable DEF DpaInv, DpaTypes
<1> HIDE DEF r
<1>7. granted[t] \subseteq {R}
  BY ZenonT(30), <1>1, <1>2 DEF OwnHeld, DRowsAt
<1>8. OwnHeld(t)'
  <2>1. Held(t)' = {}
    BY Zenon, <1>5, <1>6 DEF Held
  <2> QED  BY Zenon, <1>6, <2>1 DEF OwnHeld, DRowsAt
<1>9. DpaTypes'
  BY Zenon, <1>4, <1>5 DEF DpaInv, DpaTypes
<1>10. ExactUntilStolen'
  <2>1. \A w \in DRows : locked'[w] => \E u \in DTxns : w \in granted'[u]
    BY Zenon, <1>6, <1>7 DEF DpaInv, ExactUntilStolen
  <2>2. ~stolen' => ~stolen /\ (locked[R] => R \in granted[t])
    BY Zenon, <1>4
  <2>3. ~stolen' => \A u \in DTxns : \A w \in granted'[u] : locked'[w]
    <3> SUFFICES ASSUME ~stolen', NEW u \in DTxns, NEW w \in granted'[u] PROVE locked'[w]
      BY Zenon
    <3>1. u # t /\ w \in granted[u] /\ w \in DRows /\ locked[w]
      BY ZenonT(30), <1>6, <2>2 DEF DpaInv, DpaTypes, ExactUntilStolen
    <3>2. w # R
      BY <1>1, <2>2, <3>1 DEF DpaInv, ExactUntilStolen
    <3> QED  BY Zenon, <1>6, <3>1, <3>2
  <2>4. ~stolen' => \A u, v \in DTxns : u # v => granted'[u] \cap granted'[v] = {}
    BY <1>6, <2>2 DEF DpaInv, ExactUntilStolen
  <2> QED  BY Zenon, <2>1, <2>3, <2>4 DEF ExactUntilStolen
<1>11. ~stolen' => ~stolen
  BY Zenon, <1>4
<1>12. ServerMoves(t, Resting, r)
  BY Zenon, <1>1, <1>4, <1>5, <1>6, <1>11 DEF ServerMoves
<1> QED  BY Zenon, <1>1, <1>5, <1>8, <1>9, <1>10, <1>12, ServerStepKeeps

\* An unlock of FINISH keeps the invariant.
LEMMA FinishUnlockKeeps ==
  ASSUME DpaInv, NEW c \in DpaThreads, handler[c] # Resting, FinishUnlock(c)
  PROVE  DpaInv'
<1> SUFFICES ASSUME NEW t, t = handler[c].txn, NEW L, L = handler[c].left,
                    NEW p, p = Cur(c), NEW R, R = DRowOf(t, p)
             PROVE  DpaInv'
  BY Zenon
<1> DEFINE h == [handler[c] EXCEPT !.left = L \ {p}]
<1>1. /\ t \in DTxns /\ t[1] = c /\ tran[t].at = "FINISH" /\ handler[c] \in Working
      /\ tran[t] \in [user1 : DpaAccounts, user2 : DpaAccounts, at : Ats]
      /\ \A u \in DTxns : u # t /\ u[1] = c => ~Busy(u)
      /\ OwnHeld(t) /\ Held(t) = L
  BY Zenon, AtWork DEF FinishUnlock
<1>2. L # {} /\ L \subseteq LocksOf(t) /\ handler[c].op = "FINISH"
  BY Zenon DEF FinishUnlock, DpaInv, HandlersFit
<1>3. p \in L /\ p \in DPos
  BY Zenon, <1>1, <1>2, LowestOf DEF Cur
<1>4. R \in DRows /\ CurRow(c) = R
  BY Zenon, <1>1, RowInTable DEF DpaInv, CurRow
<1>5. tran' = [tran EXCEPT ![t] = tran[t]] /\ tran' = tran /\ stolen' = stolen
  BY Zenon DEF FinishUnlock, DpaInv, DpaTypes
<1>6. \A q : DRowOf(t, q)' = DRowOf(t, q)
  BY Zenon, <1>5 DEF DRowOf
<1>7. /\ handler' = [handler EXCEPT ![c] = h] /\ locked' = [locked EXCEPT ![R] = FALSE]
      /\ granted' = [granted EXCEPT ![t] = @ \ {R}]
  BY Zenon, <1>4 DEF FinishUnlock
<1>8. h \in Working /\ h.txn = t /\ h.op = "FINISH" /\ h.left = L \ {p} /\ h # Resting /\ h.failed = handler[c].failed
  BY Zenon, <1>1, <1>2, <1>3 DEF Working, Resting
<1>9. handler'[c] = h
  BY Zenon, <1>7 DEF DpaInv, DpaTypes
<1> HIDE DEF h
<1>10. Held(t)' = Held(t) \ {p}
  BY Zenon, <1>1, <1>5, <1>8, <1>9 DEF Busy, Held, LocksOf
<1>11. /\ granted'[t] = granted[t] \ {R} /\ \A u \in DTxns : u # t => granted'[u] = granted[u]
       /\ \A w \in DRows : locked'[w] = (w # R /\ locked[w])
  BY Zenon, <1>1, <1>4, <1>7 DEF DpaInv, DpaTypes
<1>12. granted[t] \ {R} \subseteq DRowsAt(t, Held(t) \ {p})
  BY ZenonT(30), <1>1 DEF OwnHeld, DRowsAt
<1>13. DRowsAt(t, Held(t))' = DRowsAt(t, Held(t) \ {p})
  BY Zenon, <1>6, <1>10 DEF DRowsAt
<1>14. ~stolen => /\ granted[t] \ {R} = DRowsAt(t, Held(t) \ {p}) /\ R \in granted[t]
                  /\ \A a, b \in Held(t) : DRowOf(t, a) = DRowOf(t, b) => a = b
  BY <1>1, <1>3, <1>12 DEF OwnHeld, DRowsAt
<1>15. OwnHeld(t)'
  <2>1. granted'[t] \subseteq DRowsAt(t, Held(t))' /\ (~stolen' => granted'[t] = DRowsAt(t, Held(t))')
    BY ZenonT(30), <1>5, <1>11, <1>12, <1>13, <1>14
  <2>2. ~stolen' => \A a, b \in Held(t)' : DRowOf(t, a)' = DRowOf(t, b)' => a = b
    BY <1>5, <1>6, <1>10, <1>14
  <2> QED  BY Zenon, <2>1, <2>2 DEF OwnHeld
<1>16. DpaTypes'
  BY Zenon, <1>4, <1>5, <1>7, <1>8 DEF DpaInv, DpaTypes
<1>17. ExactUntilStolen'
  <2>1. \A w \in DRows : locked'[w] => \E u \in DTxns : w \in granted'[u]
    BY ZenonT(30), <1>11 DEF DpaInv, ExactUntilStolen
  <2>2. ~stolen' => \A u \in DTxns : \A w \in granted'[u] : locked'[w]
    <3> SUFFICES ASSUME ~stolen', NEW u \in DTxns, NEW w \in granted'[u] PROVE locked'[w]
      BY Zenon
    <3>1. w \in granted[u] /\ w \in DRows /\ locked[w]
      BY SMTT(30), <1>5, <1>11 DEF DpaInv, DpaTypes, ExactUntilStolen
    <3>2. w # R
      BY <1>1, <1>5, <1>11, <1>14, <3>1 DEF DpaInv, ExactUntilStolen
    <3> QED  BY Zenon, <1>11, <3>1, <3>2
  <2>3. ~stolen' => \A u, v \in DTxns : u # v => granted'[u] \cap granted'[v] = {}
    BY <1>5, <1>11 DEF DpaInv, ExactUntilStolen
  <2> QED  BY Zenon, <2>1, <2>2, <2>3 DEF ExactUntilStolen
<1>18. ~handler[c].failed
  BY Zenon, <1>1, <1>2 DEF DpaInv, HandlersFit
<1>19. ServerMoves(t, h, tran[t])
  BY Zenon, <1>1, <1>2, <1>5, <1>7, <1>8, <1>11, <1>18 DEF ServerMoves
<1> QED  BY Zenon, <1>1, <1>8, <1>15, <1>16, <1>17, <1>19, ServerStepKeeps

\* Every step of the DPA bank keeps the invariant.
LEMMA DpaKeeps ==
  ASSUME DpaInv, [DpaNext]_dpaVars
  PROVE  DpaInv'
<1>1. CASE DpaNext
  <2>1. ASSUME NEW t \in DTxns, Reload(t) \/ ClientLock(t) \/ ClientFinish(t) \/ DropFrame(t) \/ GetData(t) PROVE DpaInv'
    BY Zenon, <2>1, ClientKeeps
  <2>2. ASSUME NEW t \in DTxns, ServerReceive(t) PROVE DpaInv'
    BY Zenon, <2>2, ReceiveKeeps
  <2>3. ASSUME NEW c \in DpaThreads, PingAnswered(c) PROVE DpaInv'
    BY Zenon, <2>3, PingKeeps
  <2>4. ASSUME NEW c \in DpaThreads, DpaServer(c) PROVE DpaInv'
    <3>0. Resting.op = "rest"
      BY Zenon DEF Resting
    <3>1. handler[c] # Resting
      BY Zenon, <2>4, <3>0 DEF DpaServer, TryLock, AnswerLock, RefuseLock, FinishUnlock, AnswerFinish
    <3> QED  BY Zenon, <2>4, <3>1, TryLockKeeps, AnswerLockKeeps, RefuseLockKeeps, FinishUnlockKeeps, AnswerFinishKeeps DEF DpaServer
  <2> QED  BY Zenon, <1>1, <2>1, <2>2, <2>3, <2>4 DEF DpaNext
<1>2. CASE UNCHANGED dpaVars
  <2>1. DpaTypes' /\ HandlersFit' /\ PingTogether' /\ ExactUntilStolen'
    BY <1>2 DEF dpaVars, DpaInv, DpaTypes, HandlersFit, PingTogether, ExactUntilStolen
  <2>2. ASSUME NEW t \in DTxns PROVE OwnHeld(t)'
    <3>1. OwnHeld(t)
      BY Zenon DEF DpaInv, GrantedHeld
    <3>2. Held(t)' = Held(t) /\ \A S : DRowsAt(t, S)' = DRowsAt(t, S)
      BY Zenon, <1>2 DEF dpaVars, Held, Busy, LocksOf, DRowsAt, DRowOf
    <3>3. \A q : DRowOf(t, q)' = DRowOf(t, q)
      BY Zenon, <1>2 DEF dpaVars, DRowOf
    <3> QED  BY ZenonT(30), <1>2, <3>1, <3>2, <3>3 DEF dpaVars, OwnHeld
  <2> QED  BY Zenon, <2>1, <2>2 DEF DpaInv, GrantedHeld
<1> QED  BY Zenon, <1>1, <1>2

\* Until a failed GET_LOCK of the DPA server has released a row it had not
\* taken, the lock words are exactly the locks granted, one transaction each,
\* and even after that no lock word stays set without a holder.
THEOREM DpaLocksExact == DpaSpec => []ExactUntilStolen
<1>1. DpaInv /\ [DpaNext]_dpaVars => DpaInv'
  BY Zenon, DpaKeeps
<1>2. DpaInv => ExactUntilStolen
  BY Zenon DEF DpaInv
<1> QED  BY <1>1, <1>2, DpaStarts, PTL DEF DpaSpec
Waiting == {"start", "bound"}
Over == {"got", "done"}

PTypeOK ==
  /\ ids \in [Peers -> SUBSET AllIds]
  /\ server \in [Peers -> [AllIds -> Waiting \cup Over]]
  /\ client \in [Peers -> [AllIds -> {"send", "absent", "returned"}]]
  /\ got \in [Peers -> [AllIds -> SUBSET (Peers \X AllIds)]]
  /\ after \in [Peers -> [AllIds -> 0..Resends]]
  /\ net \in [Messages -> Nat]
  /\ lost \in [Peers -> [AllIds -> 0..Resends]]

\* Datagrams under way come from the worker with the id of the port.
Routed == \A m \in Messages : net[m] > 0 => m[3] = <<Peer(m[1]), m[2]>>
\* What the server thread has received.
GotRight == \A p \in Peers, i \in AllIds : server[p][i] \in Over => got[p][i] = {<<Peer(p), i>>}
\* The main thread joins the server thread, and that slept for a second.
Joined == \A p \in Peers, i \in AllIds :
            /\ client[p][i] = "returned" => server[p][i] = "done"
            /\ server[p][i] = "done" => after[p][i] = Resends
\* As long as the other side waits, each datagram of the last second is under
\* way or lost.
Accounted ==
  \A p \in Peers, i \in AllIds :
    server[Peer(p)][i] \in Waiting =>
      after[p][i] <= lost[Peer(p)][i] + net[<<Peer(p), i, <<p, i>>>>]

ExchangeInv == PTypeOK /\ Routed /\ GotRight /\ Joined /\ Accounted
-----------------------------------------------------------------------------
\* There are two sides, and each is the other's peer.
LEMMA PeerFacts ==
  ASSUME NEW p \in Peers
  PROVE  Peer(p) \in Peers /\ Peer(p) # p /\ Peer(Peer(p)) = p
BY PeersAssumption DEF Peer

\* The update of one entry of a table of sides and ids.
LEMMA Updated ==
  ASSUME NEW S, NEW T, NEW V, NEW f \in [S -> [T -> V]], NEW p \in S, NEW i \in T, NEW v \in V,
         NEW g, g = [f EXCEPT ![p][i] = v]
  PROVE  /\ g \in [S -> [T -> V]]
         /\ \A q \in S, j \in T : g[q][j] = IF q = p /\ j = i THEN v ELSE f[q][j]
BY SMT

\* Counting up to Resends stays within the bound.
LEMMA MoreFacts ==
  ASSUME NEW n \in 0..Resends
  PROVE  /\ More(n) \in 0..Resends
         /\ More(n) = n + 1 \/ (More(n) = n /\ n = Resends)
BY ResendsAssumption DEF More

\* The states in which receive_and_send_rdma_param begins satisfy the invariant.
LEMMA ExchangeStarts == PInit => ExchangeInv
<1> SUFFICES ASSUME PInit PROVE ExchangeInv  BY Zenon
<1>1. PTypeOK
  BY ResendsAssumption DEF PInit, PTypeOK, AllIds, Waiting, Over
<1>2. Routed /\ GotRight /\ Joined
  BY DEF PInit, Routed, GotRight, Joined, Over
<1>3. Accounted
  <2> SUFFICES ASSUME NEW p \in Peers, NEW i \in AllIds
               PROVE  after[p][i] <= lost[Peer(p)][i] + net[<<Peer(p), i, <<p, i>>>>]
    BY Zenon DEF Accounted
  <2>1. <<Peer(p), i, <<p, i>>>> \in Messages
    BY Zenon, PeerFacts DEF Messages
  <2> QED  BY <2>1, PeerFacts DEF PInit
<1> QED  BY Zenon, <1>1, <1>2, <1>3 DEF ExchangeInv

\* Binding the port keeps the invariant.
LEMMA BindKeeps ==
  ASSUME ExchangeInv, NEW p \in Peers, NEW i \in AllIds, Bind(p, i)
  PROVE  ExchangeInv'
<1> USE DEF ExchangeInv
<1>1. /\ server' \in [Peers -> [AllIds -> Waiting \cup Over]]
      /\ \A q \in Peers, j \in AllIds :
           server'[q][j] = IF q = p /\ j = i THEN "bound" ELSE server[q][j]
  <2>1. server \in [Peers -> [AllIds -> Waiting \cup Over]] /\ "bound" \in Waiting \cup Over
    BY Zenon DEF PTypeOK, Waiting
  <2> QED  BY ZenonT(30), <2>1, Updated DEF Bind
<1>2. UNCHANGED <<ids, client, got, after, net, lost>> /\ server[p][i] = "start"
  BY Zenon DEF Bind
<1>3. PTypeOK'  BY Zenon, <1>1, <1>2 DEF PTypeOK
<1>4. Routed'  BY Zenon, <1>2 DEF Routed
<1>5. GotRight'  BY ZenonT(30), <1>1, <1>2 DEF GotRight, Over
<1>6. Joined'  BY <1>1, <1>2 DEF Joined
<1>7. Accounted'  BY Zenon, <1>1, <1>2, PeerFacts DEF Accounted, Waiting
<1> QED  BY Zenon, <1>3, <1>4, <1>5, <1>6, <1>7

\* A datagram sent is under way or lost, and counted.
LEMMA SendKeeps ==
  ASSUME ExchangeInv, NEW p \in Peers, NEW i \in AllIds, Send(p, i)
  PROVE  ExchangeInv'
<1> USE DEF ExchangeInv
<1> DEFINE m == <<Peer(p), i, <<p, i>>>>
<1>0. /\ Peer(p) \in Peers /\ Peer(p) # p /\ Peer(Peer(p)) = p
      /\ m \in Messages
  BY Zenon, PeerFacts DEF Messages
<1>1. UNCHANGED <<ids, server, client, got>> /\ server[p][i] # "done"
  BY Zenon DEF Send
<1>2. /\ after' \in [Peers -> [AllIds -> 0..Resends]]
      /\ \A q \in Peers, j \in AllIds : after'[q][j] =
           IF q = p /\ j = i THEN IF server[p][i] = "got" THEN More(after[p][i]) ELSE after[p][i]
                             ELSE after[q][j]
  <2> DEFINE v == IF server[p][i] = "got" THEN More(after[p][i]) ELSE after[p][i]
  <2>1. after \in [Peers -> [AllIds -> 0..Resends]] /\ v \in 0..Resends
    BY Zenon, MoreFacts DEF PTypeOK
  <2>2. after' = [after EXCEPT ![p][i] = v]
    BY Zenon DEF Send
  <2> HIDE DEF v
  <2>3. /\ after' \in [Peers -> [AllIds -> 0..Resends]]
        /\ \A q \in Peers, j \in AllIds : after'[q][j] = IF q = p /\ j = i THEN v ELSE after[q][j]
    BY ZenonT(30), <2>1, <2>2, Updated
  <2> QED  BY Zenon, <2>3 DEF v
<1>3. CASE net[m] < MaxNet /\ net' = [net EXCEPT ![m] = @ + 1] /\ lost' = lost
  <2>1. net' \in [Messages -> Nat] /\ net'[m] = net[m] + 1 /\ \A n \in Messages : n # m => net'[n] = net[n]
    BY <1>0, <1>3 DEF PTypeOK
  <2>2. PTypeOK'  BY Zenon, <1>1, <1>2, <1>3, <2>1 DEF PTypeOK
  <2>3. Routed'
    BY <1>0, <2>1 DEF Routed
  <2>4. GotRight'  BY Zenon, <1>1 DEF GotRight
  <2>5. Joined'  BY <1>1, <1>2 DEF Joined
  <2>6. Accounted'
    <3> SUFFICES ASSUME NEW q \in Peers, NEW j \in AllIds, server[Peer(q)][j] \in Waiting
                 PROVE  after'[q][j] <= lost[Peer(q)][j] + net'[<<Peer(q), j, <<q, j>>>>]
      BY Zenon, <1>1, <1>3 DEF Accounted
    <3>1. Peer(q) \in Peers /\ <<Peer(q), j, <<q, j>>>> \in Messages
      BY Zenon, PeerFacts DEF Messages
    <3>2. after[q][j] <= lost[Peer(q)][j] + net[<<Peer(q), j, <<q, j>>>>]
      BY Zenon DEF Accounted
    <3>3. after[q][j] \in 0..Resends /\ lost[Peer(q)][j] \in 0..Resends /\ net[<<Peer(q), j, <<q, j>>>>] \in Nat
      BY Zenon, <3>1 DEF PTypeOK
    <3>4. CASE q = p /\ j = i
      BY <3>4, <3>2, <3>3, <1>2, <2>1, MoreFacts
    <3>5. CASE ~(q = p /\ j = i)
      <4>1. <<Peer(q), j, <<q, j>>>> # m
        BY Zenon, <3>5
      <4> QED  BY Zenon, <4>1, <3>5, <3>1, <3>2, <3>3, <1>2, <2>1
    <3> QED  BY Zenon, <3>4, <3>5
  <2> QED  BY Zenon, <2>2, <2>3, <2>4, <2>5, <2>6
<1>4. CASE net[m] = MaxNet /\ net' = net /\ lost' = [lost EXCEPT ![Peer(p)][i] = More(@)]
  <2>1. /\ lost' \in [Peers -> [AllIds -> 0..Resends]]
        /\ \A q \in Peers, j \in AllIds :
             lost'[q][j] = IF q = Peer(p) /\ j = i THEN More(lost[Peer(p)][i]) ELSE lost[q][j]
    <3>1. lost \in [Peers -> [AllIds -> 0..Resends]] /\ More(lost[Peer(p)][i]) \in 0..Resends
      BY Zenon, <1>0, MoreFacts DEF PTypeOK
    <3> QED  BY ZenonT(30), <3>1, <1>0, <1>4, Updated
  <2>2. PTypeOK'  BY Zenon, <1>1, <1>2, <1>4, <2>1 DEF PTypeOK
  <2>3. Routed'  BY Zenon, <1>4 DEF Routed
  <2>4. GotRight'  BY Zenon, <1>1 DEF GotRight
  <2>5. Joined'  BY <1>1, <1>2 DEF Joined
  <2>6. Accounted'
    <3> SUFFICES ASSUME NEW q \in Peers, NEW j \in AllIds, server[Peer(q)][j] \in Waiting
                 PROVE  after'[q][j] <= lost'[Peer(q)][j] + net[<<Peer(q), j, <<q, j>>>>]
      BY Zenon, <1>1, <1>4 DEF Accounted
    <3>1. Peer(q) \in Peers /\ Peer(Peer(q)) = q /\ <<Peer(q), j, <<q, j>>>> \in Messages
      BY Zenon, PeerFacts DEF Messages
    <3>2. after[q][j] <= lost[Peer(q)][j] + net[<<Peer(q), j, <<q, j>>>>]
      BY Zenon DEF Accounted
    <3>3. after[q][j] \in 0..Resends /\ lost[Peer(q)][j] \in 0..Resends /\ net[<<Peer(q), j, <<q, j>>>>] \in Nat
      BY Zenon, <3>1 DEF PTypeOK
    <3>4. CASE q = p /\ j = i
      BY <3>4, <3>1, <3>2, <3>3, <1>2, <2>1, MoreFacts
    <3>5. CASE ~(q = p /\ j = i)
      <4>1. ~(Peer(q) = Peer(p) /\ j = i)
        BY Zenon, <3>5, <3>1, <1>0
      <4> QED  BY Zenon, <4>1, <3>5, <3>1, <3>2, <3>3, <1>2, <2>1
    <3> QED  BY Zenon, <3>4, <3>5
  <2> QED  BY Zenon, <2>2, <2>3, <2>4, <2>5, <2>6
<1> QED  BY Zenon, <1>3, <1>4 DEF Send

\* The first datagram taken from the socket is the peer's.
LEMMA ReceptionKeeps ==
  ASSUME ExchangeInv, NEW p \in Peers, NEW i \in AllIds, NEW m \in Messages, Receive(p, i, m)
  PROVE  ExchangeInv'
<1> USE DEF ExchangeInv
<1>1. UNCHANGED <<ids, client, after, lost>> /\ server[p][i] = "bound"
  BY Zenon DEF Receive
<1>2. /\ server' \in [Peers -> [AllIds -> Waiting \cup Over]]
      /\ \A q \in Peers, j \in AllIds :
           server'[q][j] = IF q = p /\ j = i THEN "got" ELSE server[q][j]
  <2>1. server \in [Peers -> [AllIds -> Waiting \cup Over]] /\ "got" \in Waiting \cup Over
    BY Zenon DEF PTypeOK, Over
  <2> QED  BY ZenonT(30), <2>1, Updated DEF Receive
<1>3. m[3] = <<Peer(p), i>> /\ m[3] \in Peers \X AllIds
  BY Zenon DEF Receive, Routed, Messages
<1>4. /\ got' \in [Peers -> [AllIds -> SUBSET (Peers \X AllIds)]]
      /\ \A q \in Peers, j \in AllIds :
           got'[q][j] = IF q = p /\ j = i THEN {<<Peer(p), i>>} ELSE got[q][j]
  <2>1. got \in [Peers -> [AllIds -> SUBSET (Peers \X AllIds)]] /\ {m[3]} \in SUBSET (Peers \X AllIds)
    BY Zenon, <1>3 DEF PTypeOK
  <2>2. got' = [got EXCEPT ![p][i] = {m[3]}]
    BY Zenon DEF Receive
  <2> QED  BY <2>1, <2>2, <1>3, Updated
<1>5. net' \in [Messages -> Nat] /\ \A n \in Messages : n # m => net'[n] = net[n]
  BY DEF Receive, PTypeOK
<1>6. net'[m] <= net[m]
  BY DEF Receive, PTypeOK
<1>7. PTypeOK'  BY Zenon, <1>1, <1>2, <1>4, <1>5 DEF PTypeOK
<1>8. Routed'
  <2> SUFFICES ASSUME NEW n \in Messages, net'[n] > 0
               PROVE  n[3] = <<Peer(n[1]), n[2]>>
    BY Zenon DEF Routed
  <2>1. net[n] > 0
    BY Zenon, <1>5, <1>6 DEF Receive, PTypeOK
  <2> QED  BY Zenon, <2>1 DEF Routed
<1>9. GotRight'  BY ZenonT(30), <1>2, <1>4 DEF GotRight
<1>10. Joined'  BY <1>1, <1>2 DEF Joined
<1>11. Accounted'
  <2> SUFFICES ASSUME NEW q \in Peers, NEW j \in AllIds, server'[Peer(q)][j] \in Waiting
               PROVE  after[q][j] <= lost[Peer(q)][j] + net'[<<Peer(q), j, <<q, j>>>>]
    BY Zenon, <1>1 DEF Accounted
  <2>1. Peer(q) \in Peers /\ <<Peer(q), j, <<q, j>>>> \in Messages
    BY Zenon, PeerFacts DEF Messages
  <2>2. ~(Peer(q) = p /\ j = i) /\ server[Peer(q)][j] \in Waiting
    BY Zenon, <1>2, <2>1 DEF Waiting
  <2>3. <<Peer(q), j, <<q, j>>>> # m
    BY <2>2 DEF Receive
  <2> QED  BY Zenon, <2>1, <2>2, <2>3, <1>5 DEF Accounted
<1> QED  BY Zenon, <1>7, <1>8, <1>9, <1>10, <1>11

\* A datagram that is dropped is counted as lost.
LEMMA DropKeeps ==
  ASSUME ExchangeInv, NEW m \in Messages, Drop(m)
  PROVE  ExchangeInv'
<1> USE DEF ExchangeInv
<1>1. UNCHANGED <<ids, server, client, got, after>> /\ net[m] > 0
  BY Zenon DEF Drop
<1>2. m[1] \in Peers /\ m[2] \in AllIds /\ m = <<m[1], m[2], m[3]>>
  BY DEF Messages
<1>3. /\ net' \in [Messages -> Nat] /\ net'[m] = net[m] - 1
      /\ \A n \in Messages : n # m => net'[n] = net[n]
  BY DEF Drop, PTypeOK
<1>4. /\ lost' \in [Peers -> [AllIds -> 0..Resends]]
      /\ \A q \in Peers, j \in AllIds :
           lost'[q][j] = IF q = m[1] /\ j = m[2] THEN More(lost[m[1]][m[2]]) ELSE lost[q][j]
  <2>1. lost \in [Peers -> [AllIds -> 0..Resends]] /\ More(lost[m[1]][m[2]]) \in 0..Resends
    BY Zenon, <1>2, MoreFacts DEF PTypeOK
  <2>2. lost' = [lost EXCEPT ![m[1]][m[2]] = More(lost[m[1]][m[2]])]
    BY Zenon DEF Drop
  <2> QED  BY ZenonT(30), <2>1, <2>2, <1>2, Updated
<1>5. PTypeOK'  BY Zenon, <1>1, <1>3, <1>4 DEF PTypeOK
<1>6. Routed'  BY Zenon, <1>1, <1>3 DEF Routed
<1>7. GotRight' /\ Joined'  BY Zenon, <1>1 DEF GotRight, Joined
<1>8. Accounted'
  <2> SUFFICES ASSUME NEW q \in Peers, NEW j \in AllIds, server[Peer(q)][j] \in Waiting
               PROVE  after[q][j] <= lost'[Peer(q)][j] + net'[<<Peer(q), j, <<q, j>>>>]
    BY Zenon, <1>1 DEF Accounted
  <2> DEFINE n == <<Peer(q), j, <<q, j>>>>
  <2>1. Peer(q) \in Peers /\ n \in Messages /\ n[1] = Peer(q) /\ n[2] = j
    BY Zenon, PeerFacts DEF Messages
  <2>2. after[q][j] <= lost[Peer(q)][j] + net[n]
    BY Zenon DEF Accounted
  <2>3. after[q][j] \in 0..Resends /\ lost[Peer(q)][j] \in 0..Resends /\ net[n] \in Nat
    BY Zenon, <2>1 DEF PTypeOK
  <2>4. CASE n = m
    BY SMTT(30), <2>1, <2>2, <2>3, <2>4, <1>3, <1>4, MoreFacts
  <2>5. CASE n # m
    <3>1. net'[n] = net[n]
      BY Zenon, <2>1, <2>5, <1>3
    <3>2. lost'[Peer(q)][j] \in {lost[Peer(q)][j], More(lost[Peer(q)][j])}
      BY Zenon, <2>1, <1>4
    <3> QED  BY <3>1, <3>2, <2>2, <2>3, MoreFacts
  <2> QED  BY Zenon, <2>4, <2>5
<1> QED  BY Zenon, <1>5, <1>6, <1>7, <1>8

\* done is set after a second of repeating.
LEMMA DoneKeeps ==
  ASSUME ExchangeInv, NEW p \in Peers, NEW i \in AllIds, Done(p, i)
  PROVE  ExchangeInv'
<1> USE DEF ExchangeInv
<1>1. /\ server' \in [Peers -> [AllIds -> Waiting \cup Over]]
      /\ \A q \in Peers, j \in AllIds :
           server'[q][j] = IF q = p /\ j = i THEN "done" ELSE server[q][j]
  <2>1. server \in [Peers -> [AllIds -> Waiting \cup Over]] /\ "done" \in Waiting \cup Over
    BY Zenon DEF PTypeOK, Over
  <2> QED  BY ZenonT(30), <2>1, Updated DEF Done
<1>2. UNCHANGED <<ids, client, got, after, net, lost>> /\ server[p][i] = "got" /\ after[p][i] = Resends
  BY Zenon DEF Done
<1>3. PTypeOK'  BY Zenon, <1>1, <1>2 DEF PTypeOK
<1>4. Routed'  BY Zenon, <1>2 DEF Routed
<1>5. GotRight'  BY ZenonT(30), <1>1, <1>2 DEF GotRight, Over
<1>6. Joined'  BY <1>1, <1>2 DEF Joined
<1>7. Accounted'  BY ZenonT(30), <1>1, <1>2, PeerFacts DEF Accounted, Waiting
<1> QED  BY Zenon, <1>3, <1>4, <1>5, <1>6, <1>7

\* The main thread returns after it has joined the server thread.
LEMMA ReturnsKeeps ==
  ASSUME ExchangeInv, NEW p \in Peers, NEW i \in AllIds, Returns(p, i)
  PROVE  ExchangeInv'
<1> USE DEF ExchangeInv
<1>1. /\ client' \in [Peers -> [AllIds -> {"send", "absent", "returned"}]]
      /\ \A q \in Peers, j \in AllIds :
           client'[q][j] = IF q = p /\ j = i THEN "returned" ELSE client[q][j]
  BY ZenonT(30), Updated DEF Returns, PTypeOK
<1>2. UNCHANGED <<ids, server, got, after, net, lost>> /\ server[p][i] = "done"
  BY Zenon DEF Returns
<1>3. PTypeOK'  BY Zenon, <1>1, <1>2 DEF PTypeOK
<1>4. Routed' /\ GotRight' /\ Accounted'  BY Zenon, <1>2 DEF Routed, GotRight, Accounted
<1>5. Joined'  BY ZenonT(30), <1>1, <1>2 DEF Joined
<1> QED  BY Zenon, <1>3, <1>4, <1>5
-----------------------------------------------------------------------------
\* ExchangeInv holds in every state of the exchange.
THEOREM ExchangeInvariant == PSpec => []ExchangeInv
<1>1. ExchangeInv /\ [PNext]_pvars => ExchangeInv'
  <2> SUFFICES ASSUME ExchangeInv, [PNext]_pvars PROVE ExchangeInv'  BY Zenon
  <2>1. CASE UNCHANGED pvars
    BY Zenon, <2>1 DEF pvars, ExchangeInv, PTypeOK, Routed, GotRight, Joined, Accounted
  <2>2. ASSUME NEW p \in Peers, NEW i \in AllIds, PSide(p, i) PROVE ExchangeInv'
    BY Zenon, <2>2, BindKeeps, SendKeeps, DoneKeeps, ReturnsKeeps DEF PSide
  <2>3. CASE PDeliver
    BY Zenon, <2>3, ReceptionKeeps DEF PDeliver
  <2>4. ASSUME NEW m \in Messages, Drop(m) PROVE ExchangeInv'
    BY Zenon, <2>4, DropKeeps
  <2> QED  BY Zenon, <2>1, <2>2, <2>3, <2>4 DEF PNext
<1> QED  BY <1>1, ExchangeStarts, PTL DEF PSpec

\* A worker of rdma_bench connects to the peer's worker with its own id, for
\* any ids and any loss, duplication and reordering of datagrams.
THEOREM ConnectsToPeer == PSpec => []RightPeer
<1>1. ExchangeInv => RightPeer
  BY Zenon DEF ExchangeInv, Joined, GotRight, RightPeer, Over
<1> QED  BY <1>1, ExchangeInvariant, PTL

\* A side whose peer has returned waits in vain only when all Resends datagrams
\* of the peer's last second were lost, for any number of them.
THEOREM ForsakenByLoss == PSpec => []ForsakenOnlyByLoss
<1>1. ExchangeInv => ForsakenOnlyByLoss
  <2> SUFFICES ASSUME ExchangeInv, NEW p \in Peers, NEW i \in AllIds,
                      client[p][i] = "returned", server[Peer(p)][i] \in {"start", "bound"},
                      \A m \in Messages : net[m] > 0 => m[1] # Peer(p) \/ m[2] # i
               PROVE  lost[Peer(p)][i] >= Resends
    BY Zenon DEF ForsakenOnlyByLoss
  <2> DEFINE m == <<Peer(p), i, <<p, i>>>>
  <2>1. Peer(p) \in Peers /\ m \in Messages
    BY Zenon, PeerFacts DEF Messages
  <2>2. net[m] = 0
    <3>1. m[1] = Peer(p) /\ m[2] = i
      BY Zenon
    <3>2. ~(net[m] > 0)
      BY Zenon, <2>1, <3>1
    <3>3. net[m] \in Nat
      BY Zenon, <2>1 DEF ExchangeInv, PTypeOK
    <3> HIDE DEF m
    <3> QED  BY <3>2, <3>3
  <2>3. after[p][i] = Resends
    BY Zenon DEF ExchangeInv, Joined
  <2>4. after[p][i] <= lost[Peer(p)][i] + net[m]
    BY Zenon DEF ExchangeInv, Accounted, Waiting
  <2>5. lost[Peer(p)][i] \in 0..Resends
    BY Zenon, <2>1 DEF ExchangeInv, PTypeOK
  <2> HIDE DEF m
  <2> QED  BY <2>2, <2>3, <2>4, <2>5, ResendsAssumption
<1> QED  BY <1>1, ExchangeInvariant, PTL

INSTANCE WellFoundedInduction

Shadows == [chunks : Chunks, ext : BOOLEAN, next : Nat, mmap_arr : Seq(Nat),
            live : SUBSET Nat, ret : {"no", "shadow", "NULL"}]

\* The array lists the mappings; as long as none failed it lists the chunks in
\* order; a shadow that is returned has them all.
Listed(s) ==
  /\ s.live \subseteq Range(s.mmap_arr)
  /\ s.ret = "NULL" => s.live = {}
  /\ s.next <= Len(s.chunks) + 1 /\ Len(s.mmap_arr) < s.next
  /\ Len(s.mmap_arr) + 1 = s.next => \A i \in 1..Len(s.mmap_arr) : s.mmap_arr[i] = i
  /\ s.ext /\ s.ret # "NULL" => Len(s.mmap_arr) + 1 = s.next
  /\ s.ret = "shadow" => s.next = Len(s.chunks) + 1 /\ Len(s.mmap_arr) = Len(s.chunks)

ShadowInv == shadow \in Shadows /\ Listed(shadow)
-----------------------------------------------------------------------------
\* A pool is a finite list of chunks.
LEMMA ChunkList ==
  ASSUME NEW cs \in Chunks
  PROVE  cs \in Seq((0..AddrMod) \X (0..AddrMod)) /\ Len(cs) \in Nat
BY ChunksAssumption

\* Every chunk lies below the end of the address space.
LEMMA ChunkAt ==
  ASSUME NEW cs \in Chunks, NEW i \in 1..Len(cs)
  PROVE  cs[i] \in (0..AddrMod) \X (0..AddrMod) /\ cs[i][1] + cs[i][2] < AddrMod
BY SMTT(20), ChunksAssumption

\* The states in which a shadow is created satisfy the invariant.
LEMMA ShadowStarts == ShInit => ShadowInv
<1> SUFFICES ASSUME NEW cs \in Chunks, NEW e \in BOOLEAN,
                    shadow = [chunks |-> cs, ext |-> e, next |-> 1, mmap_arr |-> <<>>,
                              live |-> {}, ret |-> "no"]
             PROVE  ShadowInv
  BY Zenon DEF ShInit
<1> QED  BY ChunkList DEF ShadowInv, Shadows, Listed

\* A further mapping is listed.
LEMMA MappedKeeps ==
  ASSUME NEW s \in Shadows, Listed(s), s.ret = "no", s.next <= Len(s.chunks)
  PROVE  Mapped(s) \in Shadows /\ Listed(Mapped(s))
<1> DEFINE t == Mapped(s)
           a == Append(s.mmap_arr, s.next)
           l == s.live \cup {s.next}
<1>1. /\ s.mmap_arr \in Seq(Nat) /\ s.next \in Nat /\ s.chunks \in Chunks /\ s.live \subseteq Nat
      /\ Len(s.chunks) \in Nat /\ Len(s.mmap_arr) \in Nat /\ s.ext \in BOOLEAN
  BY ChunkList DEF Shadows
<1>2. /\ a \in Seq(Nat) /\ Len(a) = Len(s.mmap_arr) + 1 /\ DOMAIN a = 1..Len(a)
      /\ \A i \in 1..Len(s.mmap_arr) : a[i] = s.mmap_arr[i]
      /\ a[Len(s.mmap_arr) + 1] = s.next
  BY <1>1
<1>3. l \in SUBSET Nat
  BY Zenon, <1>1
<1>4. l \subseteq Range(a)
  <2> SUFFICES ASSUME NEW k \in l PROVE \E i \in DOMAIN a : a[i] = k
    BY Zenon DEF Range
  <2>1. CASE k = s.next
    BY SMTT(30), <2>1, <1>1, <1>2
  <2>2. CASE k \in s.live
    <3>1. PICK i \in DOMAIN s.mmap_arr : s.mmap_arr[i] = k
      BY Zenon, <2>2 DEF Listed, Range
    <3>2. i \in 1..Len(s.mmap_arr)
      BY <1>1
    <3> HIDE DEF a
    <3>3. i \in DOMAIN a /\ a[i] = k
      BY <3>1, <3>2, <1>1, <1>2
    <3> QED  BY Zenon, <3>3
  <2> QED  BY Zenon, <2>1, <2>2
<1>5. t = [s EXCEPT !.mmap_arr = a, !.live = l, !.next = s.next + 1]
  BY Zenon DEF Mapped
<1> HIDE DEF t, a, l
<1>6. /\ t.chunks = s.chunks /\ t.ext = s.ext /\ t.next = s.next + 1
      /\ t.mmap_arr = a /\ t.live = l /\ t.ret = s.ret
  BY Zenon, <1>5 DEF Shadows
<1>7. t \in Shadows
  <2>1. s.next + 1 \in Nat
    BY <1>1
  <2> QED  BY Zenon, <1>2, <1>3, <1>5, <2>1 DEF Shadows
<1>8. Len(a) + 1 = t.next => \A i \in 1..Len(a) : a[i] = i
  <2> SUFFICES ASSUME Len(a) + 1 = t.next, NEW i \in 1..Len(a) PROVE a[i] = i
    BY Zenon
  <2>1. Len(s.mmap_arr) + 1 = s.next
    BY SMTT(30), <1>1, <1>2, <1>6
  <2>2. \A k \in 1..Len(s.mmap_arr) : s.mmap_arr[k] = k
    BY Zenon, <2>1 DEF Listed
  <2>3. CASE i \in 1..Len(s.mmap_arr)
    BY Zenon, <2>2, <2>3, <1>2
  <2>4. CASE i = Len(s.mmap_arr) + 1
    BY Zenon, <2>1, <2>4, <1>2
  <2> QED  BY <2>3, <2>4, <1>1, <1>2
<1>9. /\ s.next <= Len(s.chunks) + 1 /\ Len(s.mmap_arr) < s.next
      /\ s.ext => Len(s.mmap_arr) + 1 = s.next
  BY Zenon DEF Listed
<1>10. Listed(t)
  <2>1. t.live \subseteq Range(t.mmap_arr) /\ t.ret = "no"
    BY Zenon, <1>4, <1>6
  <2>2. /\ t.next <= Len(t.chunks) + 1 /\ Len(t.mmap_arr) < t.next
        /\ t.ext => Len(t.mmap_arr) + 1 = t.next
    <3>1. Len(a) = Len(s.mmap_arr) + 1
      BY Zenon, <1>2
    <3>2. s.next + 1 <= Len(s.chunks) + 1 /\ Len(a) < s.next + 1 /\ (s.ext => Len(a) + 1 = s.next + 1)
      BY <1>1, <1>9, <3>1
    <3> QED  BY Zenon, <1>6, <3>2
  <2>3. t.mmap_arr = a
    BY Zenon, <1>6
  <2>4. Len(t.mmap_arr) + 1 = t.next => \A i \in 1..Len(t.mmap_arr) : t.mmap_arr[i] = i
    BY Zenon, <1>8, <2>3
  <2> QED  BY Zenon, <2>1, <2>2, <2>4 DEF Listed
<1> QED  BY Zenon, <1>7, <1>10 DEF t

\* Destroying the shadow removes every mapping it lists.
LEMMA DestroyKeeps ==
  ASSUME NEW s \in Shadows, Listed(s)
  PROVE  dpdk_mempool_shadow_destroy(s) \in Shadows /\ Listed(dpdk_mempool_shadow_destroy(s))
<1> DEFINE t == dpdk_mempool_shadow_destroy(s)
<1>1. /\ t.chunks = s.chunks /\ t.ext = s.ext /\ t.next = s.next
      /\ t.mmap_arr = s.mmap_arr /\ t.live = s.live \ Range(s.mmap_arr) /\ t.ret = "NULL"
  BY Zenon DEF dpdk_mempool_shadow_destroy, Shadows
<1>2. t \in Shadows
  BY Zenon DEF dpdk_mempool_shadow_destroy, Shadows
<1>3. t.live = {}
  BY Zenon, <1>1 DEF Listed
<1> HIDE DEF t
<1>4. Listed(t)
  BY Zenon, <1>1, <1>3 DEF Listed
<1> QED  BY Zenon, <1>2, <1>4 DEF t

\* ShadowInv holds in every state.
THEOREM ShadowInvariant == ShSpec => []ShadowInv
<1>1. ShadowInv /\ [ShNext]_svars => ShadowInv'
  <2> SUFFICES ASSUME ShadowInv, [ShNext]_svars PROVE ShadowInv'  BY Zenon
  <2> USE DEF ShadowInv
  <2>0. /\ shadow.chunks \in Chunks /\ Len(shadow.chunks) \in Nat /\ shadow.next \in Nat
        /\ shadow.mmap_arr \in Seq(Nat) /\ Len(shadow.mmap_arr) \in Nat
    BY ChunkList DEF Shadows
  <2>1. CASE UNCHANGED svars
    BY Zenon, <2>1 DEF svars
  <2>2. ASSUME shadow' = [shadow EXCEPT !.next = @ + 1], ~shadow.ext, shadow.ret = "no",
               shadow.next <= Len(shadow.chunks)
        PROVE  ShadowInv'
    <3>1. shadow' \in Shadows
      BY SMTT(30), <2>0, <2>2 DEF Shadows
    <3>2. /\ shadow'.chunks = shadow.chunks /\ shadow'.ext = shadow.ext
          /\ shadow'.next = shadow.next + 1 /\ shadow'.mmap_arr = shadow.mmap_arr
          /\ shadow'.live = shadow.live /\ shadow'.ret = shadow.ret
      BY Zenon, <2>2 DEF Shadows
    <3>3. Listed(shadow')
      BY SMTT(30), <2>0, <2>2, <3>2 DEF Listed
    <3> QED  BY Zenon, <3>1, <3>3
  <2>3. ASSUME NEW r \in {"shadow", "NULL"}, shadow' = [shadow EXCEPT !.ret = r], shadow.ret = "no",
               r = "NULL" => shadow.live = {},
               r = "shadow" => /\ shadow.next = Len(shadow.chunks) + 1
                               /\ Len(shadow.mmap_arr) = Len(shadow.chunks)
        PROVE  ShadowInv'
    <3>1. shadow' \in Shadows
      BY Zenon, <2>3 DEF Shadows
    <3>2. /\ shadow'.chunks = shadow.chunks /\ shadow'.ext = shadow.ext
          /\ shadow'.next = shadow.next /\ shadow'.mmap_arr = shadow.mmap_arr
          /\ shadow'.live = shadow.live /\ shadow'.ret = r
      BY Zenon, <2>3 DEF Shadows
    <3>3. Listed(shadow')
      BY Zenon, <2>0, <2>3, <3>2 DEF Listed
    <3> QED  BY Zenon, <3>1, <3>3
  <2>4. CASE dpdk_chunk_to_mmap_cb
    BY Zenon, <2>4, <2>2, MappedKeeps DEF dpdk_chunk_to_mmap_cb
  <2>5. CASE dpdk_ext_chunk_to_mmap
    BY Zenon, <2>5, MappedKeeps, DestroyKeeps DEF dpdk_ext_chunk_to_mmap
  <2>6. CASE NoMemory
    <3>1. shadow.live = {}
      BY <2>0, <2>6 DEF NoMemory, Listed, Range
    <3> QED  BY Zenon, <3>1, <2>3, <2>6 DEF NoMemory
  <2>7. CASE dpdk_mempool_shadow_create
    <3>1. shadow.next = Len(shadow.chunks) + 1
      BY <2>0, <2>7 DEF dpdk_mempool_shadow_create, Listed
    <3> QED  BY Zenon, <3>1, <2>3, <2>7, DestroyKeeps DEF dpdk_mempool_shadow_create
  <2>8. CASE dpdk_mempool_shadow_create_extbuf
    <3>1. shadow.next = Len(shadow.chunks) + 1 /\ Len(shadow.mmap_arr) = Len(shadow.chunks)
      BY <2>0, <2>8 DEF dpdk_mempool_shadow_create_extbuf, Listed
    <3> QED  BY Zenon, <3>1, <2>3, <2>8 DEF dpdk_mempool_shadow_create_extbuf
  <2>9. CASE ShDestroy
    BY Zenon, <2>9, DestroyKeeps DEF ShDestroy
  <2> QED  BY Zenon, <2>1, <2>4, <2>5, <2>6, <2>7, <2>8, <2>9 DEF ShNext
<1> QED  BY <1>1, ShadowStarts, PTL DEF ShSpec

\* dpdk_mempool_shadow_create and its extbuf variant leave no mapping behind
\* when they return NULL, whichever chunk failed and however many there are.
THEOREM NoMappingLeaks == ShSpec => []NoMappingLeft
<1>1. ShadowInv => NoMappingLeft
  BY Zenon DEF ShadowInv, Listed, NoMappingLeft
<1> QED  BY <1>1, ShadowInvariant, PTL

\* The test of find_buf_by_data on one mapping is exact: no sum overflows in a
\* way that lets a range in or keeps one out.
LEMMA InMmapExact ==
  ASSUME NEW b \in 0..AddrMod, NEW n \in 0..AddrMod, b + n < AddrMod,
         NEW start \in 0..(AddrMod - 1), NEW size \in 0..(AddrMod - 1)
  PROVE  InMmap(<<b, n>>, start, size) <=> (b <= start /\ start < b + n /\ start + size <= b + n)
<1>1. (b + n) % AddrMod = b + n
  BY AddrModAssumption
<1>2. start < b + n => (b + n - start) % AddrMod = b + n - start
  BY AddrModAssumption
<1> QED  BY <1>1, <1>2, AddrModAssumption DEF InMmap

\* A set of numbers that is not empty has a least one.
LEMMA LeastExists ==
  ASSUME NEW S, S \subseteq Nat, S # {}
  PROVE  \E i \in S : \A j \in S : i <= j
<1> DEFINE R == {ss \in Nat \X Nat : ss[1] < ss[2]}
<1>1. IsWellFoundedOn(R, Nat)
  BY Zenon, NatLessThanWellFounded DEF OpToRel
<1>2. PICK i \in S : \A j \in S : ~(<<j, i>> \in R)
  <2> HIDE DEF R
  <2> QED  BY ZenonT(30), <1>1, WFMin
<1>3. ASSUME NEW j \in S PROVE i <= j
  <2>1. i \in Nat /\ j \in Nat
    BY Zenon
  <2>2. j < i => <<j, i>> \in R
    BY Zenon, <2>1
  <2>3. ~(<<j, i>> \in R)
    BY Zenon, <1>2
  <2> HIDE DEF R
  <2> QED  BY <2>1, <2>2, <2>3
<1> QED  BY Zenon, <1>3

\* The search of dpdk_mempool_shadow_find_buf_by_data succeeds exactly for the
\* ranges that lie in one chunk, for any width of addresses and any pool.
THEOREM SearchIsExact == ShSpec => []FoundExactly
<1>1. ShadowInv => FoundExactly
  <2> SUFFICES ASSUME ShadowInv, shadow.ret = "shadow",
                      NEW start \in 0..(AddrMod - 1), NEW size \in 0..(AddrMod - 1)
               PROVE  (dpdk_mempool_shadow_find_buf_by_data(shadow, start, size) # 0) =
                      (\E i \in DOMAIN shadow.chunks :
                         LET c == shadow.chunks[i]
                         IN  c[1] <= start /\ start < c[1] + c[2] /\ start + size <= c[1] + c[2])
    BY Zenon DEF FoundExactly
  <2> DEFINE cs == shadow.chunks
             arr == shadow.mmap_arr
             Holds(i) == cs[i][1] <= start /\ start < cs[i][1] + cs[i][2] /\ start + size <= cs[i][1] + cs[i][2]
             hits == {i \in DOMAIN arr : InMmap(cs[arr[i]], start, size)}
  <2>1. cs \in Chunks /\ cs \in Seq((0..AddrMod) \X (0..AddrMod)) /\ Len(cs) \in Nat /\ arr \in Seq(Nat)
    BY Zenon, ChunkList DEF ShadowInv, Shadows
  <2>2. Len(arr) = Len(cs) /\ \A i \in 1..Len(arr) : arr[i] = i
    BY Zenon, <2>1 DEF ShadowInv, Listed
  <2>3. DOMAIN arr = 1..Len(cs) /\ DOMAIN cs = 1..Len(cs)
    BY <2>1, <2>2
  <2>4. ASSUME NEW i \in 1..Len(cs) PROVE InMmap(cs[i], start, size) <=> Holds(i)
    <3>1. cs[i] \in (0..AddrMod) \X (0..AddrMod) /\ cs[i][1] + cs[i][2] < AddrMod
      BY Zenon, <2>1, <2>4, ChunkAt
    <3>2. cs[i] = <<cs[i][1], cs[i][2]>> /\ cs[i][1] \in 0..AddrMod /\ cs[i][2] \in 0..AddrMod
      BY <3>1
    <3> HIDE DEF cs
    <3> QED  BY Zenon, <3>1, <3>2, InMmapExact
  <2>5. hits = {i \in 1..Len(cs) : Holds(i)}
    BY Zenon, <2>2, <2>3, <2>4
  <2>6. dpdk_mempool_shadow_find_buf_by_data(shadow, start, size) =
          IF hits = {} THEN 0 ELSE CHOOSE i \in hits : \A j \in hits : i <= j
    BY Zenon DEF dpdk_mempool_shadow_find_buf_by_data
  <2>7. hits # {} => (CHOOSE i \in hits : \A j \in hits : i <= j) # 0
    <3>1. hits \subseteq Nat /\ 0 \notin hits
      BY <2>5
    <3> HIDE DEF hits
    <3> QED  BY Zenon, <3>1, LeastExists
  <2> QED  BY ZenonT(30), <2>3, <2>5, <2>6, <2>7
<1> QED  BY <1>1, ShadowInvariant, PTL

INSTANCE FiniteSetTheorems

LockInv == TypeOK /\ CountExact /\ OneWriter

\* A step that counts thread t, or stops counting it, moves the cardinality
\* by one; any other step leaves it.
LEMMA CountMoves ==
  ASSUME TypeOK, NEW t \in Threads, NEW at \in Labels, Goto(t, at)
  PROVE  LET in  == pc[t] \in {"lr_check", "lr_back", "reading"}
             out == at \in {"lr_check", "lr_back", "reading"}
         IN  /\ IsFiniteSet(Counted) /\ Cardinality(Counted) \in Nat
             /\ Cardinality(Counted') \in Nat
             /\ (in <=> out) => Cardinality(Counted') = Cardinality(Counted)
             /\ ~in /\ out => Cardinality(Counted') = Cardinality(Counted) + 1
             /\ in /\ ~out => Cardinality(Counted') = Cardinality(Counted) - 1
<1> DEFINE C == {"lr_check", "lr_back", "reading"}
<1>1. IsFiniteSet(Counted) /\ Cardinality(Counted) \in Nat
  BY Zenon, ThreadsAssumption, FS_Subset, FS_CardinalityType DEF Counted
<1>2. /\ pc[t] \in C <=> t \in Counted
      /\ at \in C => Counted' = Counted \cup {t}
      /\ at \notin C => Counted' = Counted \ {t}
  BY Zenon DEF Counted, Goto, TypeOK
<1>3. /\ Cardinality(Counted \cup {t}) = IF t \in Counted THEN Cardinality(Counted)
                                         ELSE Cardinality(Counted) + 1
      /\ Cardinality(Counted \ {t}) = IF t \in Counted THEN Cardinality(Counted) - 1
                                      ELSE Cardinality(Counted)
  BY Zenon, <1>1, FS_AddElement, FS_RemoveElement
<1>4. Cardinality(Counted') \in Nat
  <2>1. IsFiniteSet(Counted \cup {t}) /\ IsFiniteSet(Counted \ {t})
    BY Zenon, <1>1, FS_AddElement, FS_RemoveElement
  <2>2. QED
    BY Zenon, <1>2, <2>1, FS_CardinalityType
<1>5. QED
  BY Zenon, <1>1, <1>2, <1>3, <1>4

\* Before any thread has started the count is zero and the invariant holds.
LEMMA LockInvInit == Init => LockInv
<1> SUFFICES ASSUME Init PROVE LockInv
  BY Zenon
<1>1. TypeOK /\ OneWriter
  BY Zenon DEF Init, TypeOK, Labels, OneWriter, Writing
<1>2. Counted = {}
  BY Zenon DEF Init, Counted
<1>3. QED
  BY Zenon, <1>1, <1>2, FS_EmptySet DEF LockInv, CountExact, Init

\* Every step moves one thread to another label, and changes the two atomics
\* as the labels say.
LEMMA StepShape ==
  ASSUME TypeOK, NEW t \in Threads, Call(t) \/ Step(t)
  PROVE  \E at \in Labels :
           LET in  == pc[t] \in {"lr_check", "lr_back", "reading"}
               out == at \in {"lr_check", "lr_back", "reading"}
           IN  /\ Goto(t, at)
               /\ readers_count' = readers_count + (IF out /\ ~in THEN 1
                                     ELSE IF in /\ ~out THEN -1 ELSE 0)
               /\ at = "writing" => pc[t] # "writing" /\ ~writer_lock /\ writer_lock' = TRUE
               /\ pc[t] = "writing" => at # "writing" /\ writer_lock' = FALSE
               /\ at # "writing" /\ pc[t] # "writing" => UNCHANGED writer_lock
  <1>1. CASE Call(t)
    BY SMTT(30), <1>1 DEF Call, TypeOK, Labels
  <1>2. CASE ReadSpin(t) \/ ReadCheck(t) \/ TryReadTest(t) \/ WriteReaders(t)
               \/ WriteWriter(t) \/ WriteRetry(t) \/ TryWriteFail(t)
    BY <1>2 DEF ReadSpin, ReadCheck, TryReadTest, WriteReaders, WriteWriter, WriteRetry,
                TryWriteFail, TypeOK, Labels
  <1>3. CASE ReadAdd(t) \/ ReadBack(t) \/ TryReadAdd(t) \/ UnlockRead(t)
    BY Zenon, <1>3 DEF ReadAdd, ReadBack, TryReadAdd, UnlockRead, TypeOK, Labels
  <1>4. CASE WriteTake(t) \/ TryWriteTake(t) \/ UnlockWrite(t)
    BY <1>4 DEF WriteTake, TryWriteTake, Take, UnlockWrite, TypeOK, Labels
  <1>5. QED
    BY ZenonT(30), <1>1, <1>2, <1>3, <1>4 DEF Step

\* Every step of a reader or a writer keeps it.
LEMMA LockInvNext == LockInv /\ [Next]_vars => LockInv'
<1> SUFFICES ASSUME LockInv, [Next]_vars PROVE LockInv'
  BY Zenon
<1>1. CASE UNCHANGED vars
  BY Zenon, <1>1 DEF vars, LockInv, TypeOK, CountExact, Counted, OneWriter, Writing
<1>2. CASE Next
  <2>1. PICK t \in Threads : Call(t) \/ Step(t)
    BY Zenon, <1>2 DEF Next
  <2> DEFINE C == {"lr_check", "lr_back", "reading"}
  <2>2. PICK at \in Labels :
          /\ Goto(t, at)
          /\ readers_count' = readers_count + (IF at \in C /\ pc[t] \notin C THEN 1
                                ELSE IF pc[t] \in C /\ at \notin C THEN -1 ELSE 0)
          /\ at = "writing" => pc[t] # "writing" /\ ~writer_lock /\ writer_lock' = TRUE
          /\ pc[t] = "writing" => at # "writing" /\ writer_lock' = FALSE
          /\ at # "writing" /\ pc[t] # "writing" => UNCHANGED writer_lock
    BY Zenon, <2>1, StepShape DEF LockInv
  <2>3. pc' \in [Threads -> Labels]
    BY Zenon, <2>2 DEF Goto, LockInv, TypeOK
  <2>4. readers_count' = Cardinality(Counted') /\ Cardinality(Counted') \in Nat
    BY <2>2, CountMoves DEF LockInv, CountExact
  <2>5. Writing' = IF at = "writing" THEN Writing \cup {t} ELSE Writing \ {t}
    BY Zenon, <2>2 DEF Writing, Goto, LockInv, TypeOK
  <2>6. pc[t] = "writing" <=> t \in Writing
    BY Zenon DEF Writing
  <2>7. OneWriter'
    <3>1. CASE at = "writing"
      <4>1. Writing = {}
        BY Zenon, <2>2, <3>1 DEF LockInv, OneWriter
      <4>2. QED
        BY Zenon, <2>2, <2>5, <3>1, <4>1 DEF OneWriter
    <3>2. CASE at # "writing" /\ pc[t] = "writing"
      <4>1. Writing = {t}
        BY ZenonT(30), <2>6, <3>2 DEF LockInv, OneWriter
      <4>2. QED
        BY ZenonT(30), <2>2, <2>5, <3>2, <4>1 DEF OneWriter
    <3>3. CASE at # "writing" /\ pc[t] # "writing"
      <4>1. Writing' = Writing
        BY ZenonT(30), <2>5, <2>6, <3>3
      <4>2. QED
        BY SMTT(30), <2>2, <3>3, <4>1 DEF LockInv, OneWriter
    <3>4. QED
      BY Zenon, <3>1, <3>2, <3>3
  <2>8. writer_lock' \in BOOLEAN
    BY Zenon, <2>2 DEF LockInv, TypeOK
  <2>9. QED
    BY Zenon, <2>3, <2>4, <2>7, <2>8 DEF LockInv, TypeOK, CountExact
<1>3. QED
  BY Zenon, <1>1, <1>2

\* LockInv is an invariant of the lock.
LEMMA LockInvariant == Spec => []LockInv
  BY LockInvInit, LockInvNext, PTL DEF Spec

\* readers_count is never negative and the two atomics keep their types.
THEOREM LockTypes == Spec => []TypeOK
<1>1. LockInv => TypeOK
  BY ZenonT(30) DEF LockInv
<1>2. QED
  BY <1>1, LockInvariant, PTL

\* readers_count counts exactly the readers inside and those backing off, so
\* neither lock_read's retry nor a failed try_lock_read leaks a count.
THEOREM ReadersCounted == Spec => []CountExact
<1>1. LockInv => CountExact
  BY Zenon DEF LockInv
<1>2. QED
  BY <1>1, LockInvariant, PTL

\* lock_write and try_lock_write never admit two writers.
THEOREM WritersExclude == Spec => []OneWriter
<1>1. LockInv => OneWriter
  BY Zenon DEF LockInv
<1>2. QED
  BY <1>1, LockInvariant, PTL
=============================================================================
