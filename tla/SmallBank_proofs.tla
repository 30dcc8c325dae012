-------------------------- MODULE SmallBank_proofs --------------------------
(***************************************************************************)
(* The host bank, for any accounts, clients and transactions: the locks of *)
(* every row are held by exactly the transactions that were granted them,  *)
(* a balance changes only under its row's writer lock, and the tables hold *)
(* what the transactions leave one by one unless one of them committed     *)
(* from a balance that had changed.                                        *)
(***************************************************************************)
EXTENDS SmallBank, FiniteSetTheorems, TLAPS

----------------------------------------------------------------------------
(* The host bank *)

\* A transition that was drawn, and one between two transactions.
Drawn == [type : Types, user1 : Accounts, user2 : Accounts,
          at : {"GET_DATA", "data", "GET_LOCK", "granted", "FINISH", "abandoned"}, seen : [Pos -> Int]]
Brief == [type : {"Balance"}, at : {"start", "refused", "finished", "quit"}]
Handling == [op : {"GET_DATA", "GET_LOCK", "FINISH"}, txn : Txns, first : SUBSET Pos, unlock : SUBSET Pos,
             tested : BOOLEAN, taken : SUBSET Pos, failed : BOOLEAN]

BankTypes ==
  /\ readers \in [Rows -> Int] /\ writer \in [Rows -> BOOLEAN]
  /\ balance \in [Rows -> Int] /\ serial \in [Rows -> Int] /\ overlapped \in BOOLEAN
  /\ trans \in [Txns -> Drawn \cup Brief]
  /\ serving \in [Clients -> {Idle} \cup Handling]

\* What a handler h that serves a transition of this type has done.
DoneSoFar(h, type) ==
  /\ h.op = "GET_DATA" => h.first \subseteq Locked(type) /\ h.unlock = {}
  /\ h.op = "GET_LOCK" /\ ~h.failed =>
       h.first \subseteq Locked(type) /\ h.taken = Locked(type) \ h.first /\ h.unlock = {}
  /\ h.op = "GET_LOCK" /\ h.failed =>
       h.first = {} /\ h.unlock \subseteq h.taken /\ h.taken \subseteq Locked(type)
  /\ h.op = "FINISH" =>
       /\ h.first \subseteq Changed(type) /\ h.unlock \subseteq Locked(type)
       /\ h.first # {} => h.unlock = Locked(type)
\* Server thread c, whose handler is h, serves a request that is in flight.
Fits(h, c, tr) ==
  h # Idle => /\ h.txn[1] = c /\ tr[h.txn] \in Drawn /\ tr[h.txn].at = h.op
              /\ DoneSoFar(h, tr[h.txn].type)
ServingFits == \A c \in Clients : Fits(serving[c], c, trans)

\* Holds, RowOf and KindOf as functions of the handler and the transition.
HoldsAs(h, r, t, p) ==
  LET active == h # Idle /\ h.txn = t
  IN  /\ p \in Locked(r.type)
      /\ \/ r.at \in {"granted", "abandoned"}
         \/ r.at = "FINISH" /\ (active => p \in h.unlock)
         \/ r.at = "GET_LOCK" /\ active /\ p \in h.taken /\ (h.failed => p \in h.unlock)

\* The stores of FINISH that are still to come.
Pending(c, p) == serving[c] # Idle /\ serving[c].op = "FINISH" /\ p \in serving[c].first
PendingRight(c, p) ==
  serial[RowOf(serving[c].txn, p)] = NewBalance(trans[serving[c].txn].type, p, trans[serving[c].txn].seen)
NonePending(r) == \A c \in Clients, p \in Pos : Pending(c, p) => RowOf(serving[c].txn, p) # r
Settled ==
  ~overlapped => /\ \A c \in Clients, p \in Pos : Pending(c, p) => PendingRight(c, p)
                 /\ \A r \in Rows : NonePending(r) => balance[r] = serial[r]

BankInv == BankTypes /\ ServingFits /\ LocksExact /\ Settled
----------------------------------------------------------------------------
\* Holds, with the state it reads as arguments.
LEMMA HoldsIs == \A t, p : Holds(t, p) <=> HoldsAs(serving[t[1]], trans[t], t, p)
BY Zenon DEF Holds, HoldsAs

\* The same for the next state.
LEMMA HoldsIsNext == \A t, p : Holds(t, p)' <=> HoldsAs(serving'[t[1]], trans'[t], t, p)
BY Zenon DEF Holds, HoldsAs

\* Only transactions of the clients hold locks, so the holders of a row are
\* finitely many.
LEMMA Finite == \A r, k : IsFiniteSet(Holders(r, k)) /\ IsFiniteSet(Holders(r, k)')
<1>1. IsFiniteSet(Txns)
  BY Zenon, BankAssumption, FS_Product DEF Txns
<1>2. IsFiniteSet(Pos)
  <2>1. 1 \in Int /\ 4 \in Int
    OBVIOUS
  <2> QED  BY Zenon, <2>1, FS_Interval DEF Pos
<1>3. IsFiniteSet(Txns \X Pos)
  BY Zenon, <1>1, <1>2, FS_Product
<1>4. \A r, k : Holders(r, k) \subseteq Txns \X Pos /\ Holders(r, k)' \subseteq Txns \X Pos
  BY Zenon DEF Holders
<1> QED  BY Zenon, <1>3, <1>4, FS_Subset

\* Which holders a step leaves alone.
SameHold(u, p) ==
  /\ Holds(u, p)' <=> Holds(u, p)
  /\ Holds(u, p) => RowOf(u, p)' = RowOf(u, p) /\ KindOf(u, p)' = KindOf(u, p)

\* A step that changes no holder of a row keeps their number.
LEMMA HoldersKept ==
  ASSUME \A u \in Txns, p \in Pos : SameHold(u, p)
  PROVE  \A r, k : Holders(r, k)' = Holders(r, k)
BY Zenon DEF Holders, SameHold

\* A step that makes one transaction position a holder adds one.
LEMMA HoldersGain ==
  ASSUME NEW t \in Txns, NEW q \in Pos, ~Holds(t, q), Holds(t, q)',
         \A u \in Txns, p \in Pos : <<u, p>> # <<t, q>> => SameHold(u, p)
  PROVE  \A r, k : /\ <<t, q>> \notin Holders(r, k)
                   /\ Holders(r, k)' = IF RowOf(t, q)' = r /\ KindOf(t, q)' = k
                                       THEN Holders(r, k) \cup {<<t, q>>} ELSE Holders(r, k)
BY DEF Holders, SameHold

\* A step that ends one holding takes one away.
LEMMA HoldersLose ==
  ASSUME NEW t \in Txns, NEW q \in Pos, Holds(t, q), ~Holds(t, q)',
         \A u \in Txns, p \in Pos : <<u, p>> # <<t, q>> => SameHold(u, p)
  PROVE  \A r, k : /\ RowOf(t, q) = r /\ KindOf(t, q) = k => <<t, q>> \in Holders(r, k)
                   /\ Holders(r, k)' = IF RowOf(t, q) = r /\ KindOf(t, q) = k
                                       THEN Holders(r, k) \ {<<t, q>>} ELSE Holders(r, k)
BY DEF Holders, SameHold

\* The lock a type takes at a position.
LEMMA LockKinds ==
  ASSUME NEW type \in Types
  PROVE  /\ Locked(type) \subseteq Pos /\ Changed(type) \subseteq Locked(type)
         /\ \A p \in Pos : LockOf[type][p] \in {"no", "read", "write"}
         /\ \A p \in Locked(type) : LockOf[type][p] \in {"read", "write"}
         /\ \A p \in Changed(type) : LockOf[type][p] = "write"
<1>1. ASSUME NEW p \in Pos PROVE LockOf[type][p] \in {"no", "read", "write"}
  BY DEF Types, LockOf, Pos
<1> QED  BY Zenon, <1>1 DEF Locked, Changed

\* The position a pass is at.
LEMMA MinOf ==
  ASSUME NEW S \in SUBSET Pos, S # {}
  PROVE  Min(S) \in S
<1>1. \E p \in S : \A q \in S : p <= q
  <2>1. Pos = {1, 2, 3, 4}
    BY DEF Pos
  <2>2. CASE 1 \in S
    BY <2>1, <2>2
  <2>3. CASE 1 \notin S /\ 2 \in S
    BY <2>1, <2>3
  <2>4. CASE 1 \notin S /\ 2 \notin S /\ 3 \in S
    BY <2>1, <2>4
  <2>5. CASE 1 \notin S /\ 2 \notin S /\ 3 \notin S
    <3>1. S = {4}
      BY Zenon, <2>1, <2>5
    <3> QED  BY <3>1
  <2> QED  BY Zenon, <2>2, <2>3, <2>4, <2>5
<1> QED  BY Zenon, <1>1 DEF Min

\* A step of a server thread for transaction t, which leaves it transition r
\* and the thread handler h.
ServesTo(t, r, h) ==
  /\ r \in Drawn \cup Brief /\ h \in {Idle} \cup Handling
  /\ trans' = [trans EXCEPT ![t] = r] /\ serving' = [serving EXCEPT ![t[1]] = h]
  /\ serving[t[1]] # Idle => serving[t[1]].txn = t
  /\ h # Idle => h.txn = t /\ r \in Drawn /\ r.at = h.op /\ DoneSoFar(h, r.type)

\* What a step that turns transaction t into r and its server thread into h
\* leaves alone.
LEMMA ServerStepShape ==
  ASSUME BankTypes, ServingFits, NEW t \in Txns, NEW r, NEW h, ServesTo(t, r, h)
  PROVE  /\ trans'[t] = r /\ serving'[t[1]] = h /\ t[1] \in Clients
         /\ trans' \in [Txns -> Drawn \cup Brief] /\ serving' \in [Clients -> {Idle} \cup Handling]
         /\ ServingFits'
         /\ \A u \in Txns, p \in Pos : u # t => SameHold(u, p)
         /\ \A u \in Txns : u # t => trans'[u] = trans[u]
         /\ \A c \in Clients : c # t[1] => serving'[c] = serving[c] /\ (serving[c] # Idle => serving[c].txn \in Txns \ {t})
<1> USE DEF ServesTo
<1>1. t[1] \in Clients /\ \A u \in Txns : u[1] \in Clients
  BY Zenon DEF Txns
<1>2. /\ trans'[t] = r /\ \A u \in Txns : u # t => trans'[u] = trans[u]
      /\ trans' \in [Txns -> Drawn \cup Brief]
  BY Zenon DEF BankTypes
<1>3. /\ serving'[t[1]] = h /\ \A c \in Clients : c # t[1] => serving'[c] = serving[c]
      /\ serving' \in [Clients -> {Idle} \cup Handling]
  BY Zenon, <1>1 DEF BankTypes
<1>4. ASSUME NEW c \in Clients, c # t[1], serving[c] # Idle PROVE serving[c].txn \in Txns \ {t}
  BY Zenon, <1>4 DEF BankTypes, Handling, ServingFits, Fits
<1>5. ServingFits'
  <2> SUFFICES ASSUME NEW c \in Clients PROVE Fits(serving'[c], c, trans')
    BY Zenon DEF ServingFits, Fits
  <2>1. CASE c = t[1]
    BY Zenon, <1>2, <1>3, <2>1 DEF Fits
  <2>2. CASE c # t[1]
    <3>1. Fits(serving[c], c, trans)
      BY Zenon DEF ServingFits
    <3> QED  BY Zenon, <1>2, <1>3, <1>4, <2>2, <3>1 DEF Fits
  <2> QED  BY Zenon, <2>1, <2>2
<1>6. ASSUME NEW u \in Txns, NEW p \in Pos, u # t PROVE SameHold(u, p)
  <2>1. HoldsAs(serving'[u[1]], trans[u], u, p) <=> HoldsAs(serving[u[1]], trans[u], u, p)
    <3>1. CASE u[1] = t[1]
      BY ZenonT(30), <1>3, <1>6, <3>1 DEF HoldsAs
    <3>2. CASE u[1] # t[1]
      BY Zenon, <1>1, <1>3, <3>2
    <3> QED  BY Zenon, <3>1, <3>2
  <2>2. Holds(u, p)' <=> Holds(u, p)
    BY Zenon, <1>2, <1>6, <2>1, HoldsIs, HoldsIsNext
  <2>3. RowOf(u, p)' = RowOf(u, p) /\ KindOf(u, p)' = KindOf(u, p)
    BY Zenon, <1>2, <1>6 DEF RowOf, KindOf
  <2> QED  BY Zenon, <2>2, <2>3 DEF SameHold
<1> QED  BY Zenon, <1>1, <1>2, <1>3, <1>4, <1>5, <1>6

\* A step of a client for a transaction no server thread is at.
LEMMA ClientStepShape ==
  ASSUME BankTypes, ServingFits, NEW t \in Txns, NEW r \in Drawn \cup Brief,
         trans' = [trans EXCEPT ![t] = r], serving' = serving,
         trans[t].at \notin {"GET_DATA", "GET_LOCK", "FINISH"}
  PROVE  /\ trans'[t] = r
         /\ trans' \in [Txns -> Drawn \cup Brief]
         /\ ServingFits'
         /\ \A u \in Txns, p \in Pos : u # t => SameHold(u, p)
         /\ serving[t[1]] # Idle => serving[t[1]].txn # t
         /\ \A c \in Clients : serving[c] # Idle => trans'[serving[c].txn] = trans[serving[c].txn]
<1>2. /\ trans'[t] = r /\ \A u \in Txns : u # t => trans'[u] = trans[u]
      /\ trans' \in [Txns -> Drawn \cup Brief]
  BY Zenon DEF BankTypes
<1>3. ASSUME NEW c \in Clients, serving[c] # Idle PROVE serving[c].txn \in Txns \ {t}
  BY ZenonT(30), <1>3 DEF BankTypes, Handling, ServingFits, Fits
<1>4. ServingFits'
  <2> SUFFICES ASSUME NEW c \in Clients PROVE Fits(serving'[c], c, trans')
    BY Zenon DEF ServingFits, Fits
  <2>1. Fits(serving[c], c, trans)
    BY Zenon DEF ServingFits
  <2> QED  BY Zenon, <1>2, <1>3, <2>1 DEF Fits
<1>5. ASSUME NEW u \in Txns, NEW p \in Pos, u # t PROVE SameHold(u, p)
  <2>1. Holds(u, p)' <=> Holds(u, p)
    BY Zenon, <1>2, <1>5, HoldsIs, HoldsIsNext
  <2>2. RowOf(u, p)' = RowOf(u, p) /\ KindOf(u, p)' = KindOf(u, p)
    BY Zenon, <1>2, <1>5 DEF RowOf, KindOf
  <2> QED  BY Zenon, <2>1, <2>2 DEF SameHold
<1>6. t[1] \in Clients
  BY Zenon DEF Txns
<1> QED  BY Zenon, <1>2, <1>3, <1>4, <1>5, <1>6

\* Steps that change no lock.
LEMMA LocksKept ==
  ASSUME LocksExact, UNCHANGED <<readers, writer>>, \A u \in Txns, p \in Pos : SameHold(u, p)
  PROVE  LocksExact'
BY Zenon, HoldersKept DEF LocksExact

\* Steps that change no balance.
LEMMA SettledKept ==
  ASSUME Settled, UNCHANGED <<balance, serial, overlapped>>,
         \A c \in Clients, p \in Pos :
           /\ Pending(c, p)' <=> Pending(c, p)
           /\ Pending(c, p) => /\ serving'[c].txn = serving[c].txn
                              /\ trans'[serving[c].txn] = trans[serving[c].txn]
  PROVE  Settled'
<1>1. \A c \in Clients, p \in Pos : Pending(c, p) => (RowOf(serving[c].txn, p)' = RowOf(serving[c].txn, p))
  BY Zenon DEF RowOf
<1>2. \A c \in Clients, p \in Pos : Pending(c, p) => (PendingRight(c, p)' <=> PendingRight(c, p))
  BY Zenon, <1>1 DEF PendingRight
<1>3. \A r : NonePending(r)' <=> NonePending(r)
  BY <1>1 DEF NonePending
<1> QED  BY Zenon, <1>2, <1>3 DEF Settled

----------------------------------------------------------------------------
\* The first state of the bank: no lock is held, nothing is pending.
LEMMA BankStarts == BankInit => BankInv
<1> SUFFICES ASSUME BankInit PROVE BankInv
  BY Zenon
<1>0. Big \in Int
  BY BankAssumption
<1>1. BankTypes
  <2>1. [type |-> "Balance", at |-> "start"] \in Brief
    BY Zenon DEF Brief
  <2>2. trans \in [Txns -> Drawn \cup Brief]
    BY Zenon, <2>1 DEF BankInit
  <2>3. readers \in [Rows -> Int] /\ writer \in [Rows -> BOOLEAN] /\ balance \in [Rows -> Int]
    BY <1>0 DEF BankInit
  <2>4. serving \in [Clients -> {Idle} \cup Handling]
    BY Zenon DEF BankInit
  <2> QED  BY Zenon, <2>2, <2>3, <2>4 DEF BankInit, BankTypes
<1>2. ServingFits
  BY Zenon DEF BankInit, ServingFits, Fits
<1>3. LocksExact
  <2>1. \A r, k : Holders(r, k) = {}
    BY Zenon DEF BankInit, Holders, Holds, Txns
  <2> QED  BY Zenon, <2>1, FS_EmptySet DEF LocksExact, BankInit
<1>4. Settled
  BY Zenon DEF BankInit, Settled, Pending
<1> QED  BY Zenon, <1>1, <1>2, <1>3, <1>4 DEF BankInv

\* Sending a request, and taking its response, keep the invariant.
LEMMA ClientKeepsBank ==
  ASSUME BankInv, NEW t \in Txns, ClientStep(t)
  PROVE  BankInv'
<1> USE DEF BankInv
<1>1. \E r \in Drawn \cup Brief :
        /\ trans' = [trans EXCEPT ![t] = r]
        /\ \A p \in Pos : /\ HoldsAs(serving[t[1]], r, t, p) <=> HoldsAs(serving[t[1]], trans[t], t, p)
                          /\ HoldsAs(serving[t[1]], trans[t], t, p)
                               => r.user1 = trans[t].user1 /\ r.user2 = trans[t].user2 /\ r.type = trans[t].type
  <2>0. trans[t] \in Drawn \cup Brief /\ (serving[t[1]] # Idle => serving[t[1]].txn # t \/ trans[t].at = serving[t[1]].op)
    BY Zenon DEF BankTypes, ServingFits, Fits, Txns
  <2>1. CASE StartTransaction(t)
    <3>1. PICK r \in Fresh : trans' = [trans EXCEPT ![t] = r]
      BY Zenon, <2>1 DEF StartTransaction
    <3>2. r \in Drawn /\ r.at = "GET_DATA"
      <4>1. r \in NewTransitions /\ Unseen \in [Pos -> Int]
        BY DEF Fresh, Unseen, Pos
      <4> QED  BY <4>1, BankAssumption DEF NewTransitions, Drawn, Types
    <3>3. trans[t].at \in {"start", "finished", "refused"}
      BY Zenon, <2>1 DEF StartTransaction
    <3> QED  BY Zenon, <3>1, <3>2, <3>3 DEF HoldsAs
  <2>2. CASE RequestLocks(t)
    <3> DEFINE r == [trans[t] EXCEPT !.at = "GET_LOCK"]
    <3>1. trans[t] \in Drawn /\ trans[t].at = "data"
      BY Zenon, <2>0, <2>2 DEF RequestLocks, Brief
    <3>2. trans' = [trans EXCEPT ![t] = r] /\ r \in Drawn /\ r.at = "GET_LOCK"
      BY Zenon, <2>2, <3>1 DEF RequestLocks, Drawn
    <3>3. serving[t[1]] # Idle => serving[t[1]].txn # t
      BY Zenon, <2>0, <3>1 DEF BankTypes, Handling, Txns
    <3> HIDE DEF r
    <3> QED  BY Zenon, <3>1, <3>2, <3>3 DEF HoldsAs
  <2>3. CASE RequestFinish(t)
    <3> DEFINE r == [trans[t] EXCEPT !.at = "FINISH"]
    <3>1. trans[t] \in Drawn /\ trans[t].at = "granted"
      BY Zenon, <2>0, <2>3 DEF RequestFinish, Brief
    <3>2. /\ trans' = [trans EXCEPT ![t] = r] /\ r \in Drawn /\ r.at = "FINISH"
          /\ r.user1 = trans[t].user1 /\ r.user2 = trans[t].user2 /\ r.type = trans[t].type
      BY Zenon, <2>3, <3>1 DEF RequestFinish, Drawn
    <3>3. serving[t[1]] # Idle => serving[t[1]].txn # t
      BY Zenon, <2>0, <3>1 DEF BankTypes, Handling, Txns
    <3> HIDE DEF r
    <3> QED  BY Zenon, <3>1, <3>2, <3>3 DEF HoldsAs
  <2> QED  BY Zenon, <2>1, <2>2, <2>3 DEF ClientStep
<1>2. /\ trans[t].at \notin {"GET_DATA", "GET_LOCK", "FINISH"}
      /\ UNCHANGED <<readers, writer, balance, serving, serial, overlapped>>
  BY Zenon DEF ClientStep, StartTransaction, RequestLocks, RequestFinish
<1>3. PICK r \in Drawn \cup Brief :
        /\ trans' = [trans EXCEPT ![t] = r]
        /\ \A p \in Pos : /\ HoldsAs(serving[t[1]], r, t, p) <=> HoldsAs(serving[t[1]], trans[t], t, p)
                          /\ HoldsAs(serving[t[1]], trans[t], t, p)
                               => r.user1 = trans[t].user1 /\ r.user2 = trans[t].user2 /\ r.type = trans[t].type
  BY Zenon, <1>1
<1>4. /\ trans'[t] = r /\ trans' \in [Txns -> Drawn \cup Brief] /\ ServingFits'
      /\ \A u \in Txns, p \in Pos : u # t => SameHold(u, p)
      /\ \A c \in Clients : serving[c] # Idle => trans'[serving[c].txn] = trans[serving[c].txn]
  BY Zenon, <1>2, <1>3, ClientStepShape
<1>5. \A p \in Pos : SameHold(t, p)
  BY Zenon, <1>2, <1>3, <1>4, HoldsIs, HoldsIsNext DEF SameHold, RowOf, KindOf
<1>6. LocksExact'
  BY Zenon, <1>2, <1>4, <1>5, LocksKept
<1>7. Settled'
  BY Zenon, <1>2, <1>4, SettledKept DEF Pending
<1>8. BankTypes'
  BY Zenon, <1>2, <1>4 DEF BankTypes
<1> QED  BY Zenon, <1>4, <1>6, <1>7, <1>8

\* A client that quits keeps the invariant; its locks stay held.
LEMMA QuitKeeps ==
  ASSUME BankInv, NEW c \in Clients, Quit(c)
  PROVE  BankInv'
<1> USE DEF BankInv
<1>1. /\ \A t \in Txns : t[1] = c => trans[t].at \in {"data", "granted", "refused", "finished"}
      /\ UNCHANGED <<readers, writer, balance, serving, serial, overlapped>>
      /\ trans' = [t \in Txns |->
           IF t[1] # c THEN trans[t]
           ELSE IF trans[t].at = "granted" THEN [trans[t] EXCEPT !.at = "abandoned"]
           ELSE [type |-> "Balance", at |-> "quit"]]
  BY Zenon DEF Quit
<1>2. \A d \in Clients : serving[d] # Idle => serving[d].txn \in Txns /\ serving[d].txn[1] = d /\ d # c
  BY <1>1 DEF BankTypes, Handling, ServingFits, Fits
<1>3. ASSUME NEW t \in Txns
      PROVE  /\ trans'[t] \in Drawn \cup Brief
             /\ t[1] # c => trans'[t] = trans[t]
             /\ t[1] = c /\ trans[t].at = "granted" =>
                  /\ trans'[t] \in Drawn /\ trans'[t].at = "abandoned" /\ trans'[t].type = trans[t].type
                  /\ trans'[t].user1 = trans[t].user1 /\ trans'[t].user2 = trans[t].user2
             /\ t[1] = c /\ trans[t].at # "granted" => trans'[t].at = "quit"
  <2>0. trans[t] \in Drawn \cup Brief
    BY Zenon DEF BankTypes
  <2>1. CASE t[1] # c
    BY Zenon, <1>1, <2>0, <2>1
  <2>2. CASE t[1] = c /\ trans[t].at = "granted"
    <3>1. trans[t] \in Drawn
      BY Zenon, <2>0, <2>2 DEF Brief
    <3>2. trans'[t] = [trans[t] EXCEPT !.at = "abandoned"]
      BY Zenon, <1>1, <2>2
    <3> QED  BY Zenon, <2>2, <3>1, <3>2 DEF Drawn
  <2>3. CASE t[1] = c /\ trans[t].at # "granted"
    <3>1. trans'[t] = [type |-> "Balance", at |-> "quit"]
      BY Zenon, <1>1, <2>3
    <3> QED  BY <2>3, <3>1 DEF Brief
  <2> QED  BY Zenon, <2>1, <2>2, <2>3
<1>4. trans' \in [Txns -> Drawn \cup Brief]
  BY Zenon, <1>1, <1>3
<1>5. \A d \in Clients : serving[d] # Idle => trans'[serving[d].txn] = trans[serving[d].txn]
  BY <1>2, <1>3
<1>6. ServingFits'
  <2> SUFFICES ASSUME NEW d \in Clients PROVE Fits(serving'[d], d, trans')
    BY Zenon DEF ServingFits, Fits
  <2>1. Fits(serving[d], d, trans)
    BY Zenon DEF ServingFits
  <2> QED  BY Zenon, <1>1, <1>5, <2>1 DEF Fits
<1>7. ASSUME NEW t \in Txns, NEW p \in Pos PROVE SameHold(t, p)
  <2>1. CASE t[1] # c
    <3>1. trans'[t] = trans[t]
      BY Zenon, <1>3, <2>1
    <3> QED  BY ZenonT(30), <1>1, <3>1, HoldsIs, HoldsIsNext DEF SameHold, RowOf, KindOf
  <2>2. CASE t[1] = c
    <3>1. trans[t].at \in {"data", "granted", "refused", "finished"}
      BY Zenon, <1>1, <2>2
    <3>2. HoldsAs(serving[t[1]], trans[t], t, p) <=> HoldsAs(serving[t[1]], trans'[t], t, p)
      BY Zenon, <1>3, <2>2, <3>1 DEF HoldsAs
    <3>3. Holds(t, p) => trans[t].at = "granted"
      BY Zenon, <3>1, HoldsIs DEF HoldsAs
    <3>4. Holds(t, p) => RowOf(t, p)' = RowOf(t, p) /\ KindOf(t, p)' = KindOf(t, p)
      BY Zenon, <1>3, <2>2, <3>3 DEF RowOf, KindOf
    <3> QED  BY Zenon, <1>1, <3>2, <3>4, HoldsIs, HoldsIsNext DEF SameHold
  <2> QED  BY Zenon, <2>1, <2>2
<1>8. LocksExact'
  BY Zenon, <1>1, <1>7, LocksKept
<1>9. Settled'
  BY Zenon, <1>1, <1>5, SettledKept DEF Pending
<1>10. BankTypes'
  BY Zenon, <1>1, <1>4 DEF BankTypes
<1> QED  BY Zenon, <1>6, <1>8, <1>9, <1>10

----------------------------------------------------------------------------
(* Server steps *)

\* The rows of a transaction are rows of the tables.
LEMMA RowInTables ==
  ASSUME NEW t, trans[t] \in Drawn, NEW p
  PROVE  RowOf(t, p) \in Rows
BY Zenon DEF Drawn, RowOf, Rows

\* What a server thread that is at work knows.
LEMMA AtWorkBank ==
  ASSUME BankTypes, ServingFits, NEW c \in Clients, serving[c] # Idle
  PROVE  /\ serving[c] \in Handling /\ serving[c].txn \in Txns /\ serving[c].txn[1] = c
         /\ trans[serving[c].txn] \in Drawn /\ trans[serving[c].txn].at = serving[c].op
         /\ trans[serving[c].txn].type \in Types
         /\ DoneSoFar(serving[c], trans[serving[c].txn].type)
BY Zenon DEF BankTypes, ServingFits, Fits, Handling, Drawn

\* A step of server thread c that keeps the transition and leaves handler h.
HandlerTo(c, h) ==
  /\ serving[c] # Idle /\ h \in Handling /\ h.txn = serving[c].txn /\ h.op = serving[c].op
  /\ DoneSoFar(h, trans[serving[c].txn].type)
  /\ trans' = trans /\ serving' = [serving EXCEPT ![c] = h]

\* What such a step for transaction t leaves behind.
HandlerDone(c, t, h) ==
  /\ serving'[c] = h /\ serving' \in [Clients -> {Idle} \cup Handling] /\ ServingFits'
  /\ \A u \in Txns, p \in Pos : u # t => SameHold(u, p)
  /\ \A d \in Clients : d # c => serving'[d] = serving[d]
  /\ \A p : RowOf(t, p)' = RowOf(t, p) /\ KindOf(t, p)' = KindOf(t, p)
  /\ \A p : Holds(t, p)' <=> HoldsAs(h, trans[t], t, p)
  /\ \A p : Holds(t, p) <=> HoldsAs(serving[c], trans[t], t, p)

\* A server step that keeps the transition.
LEMMA HandlerStep ==
  ASSUME BankTypes, ServingFits, NEW c \in Clients, NEW t, t = serving[c].txn, NEW h, HandlerTo(c, h)
  PROVE  HandlerDone(c, t, h)
<1> USE DEF HandlerTo
<1>1. /\ t \in Txns /\ t[1] = c /\ trans[t] \in Drawn /\ trans[t].at = serving[c].op
  BY Zenon, AtWorkBank
<1>2. trans' = [trans EXCEPT ![t] = trans[t]] /\ serving' = [serving EXCEPT ![t[1]] = h]
  BY Zenon, <1>1 DEF BankTypes
<1>3. \A p : RowOf(t, p)' = RowOf(t, p) /\ KindOf(t, p)' = KindOf(t, p)
  BY Zenon DEF RowOf, KindOf
<1>4. ServesTo(t, trans[t], h)
  BY Zenon, <1>1, <1>2 DEF ServesTo
<1>5. /\ serving'[t[1]] = h /\ serving' \in [Clients -> {Idle} \cup Handling] /\ ServingFits'
      /\ \A u \in Txns, p \in Pos : u # t => SameHold(u, p)
      /\ \A d \in Clients : d # t[1] => serving'[d] = serving[d]
  BY ZenonT(30), <1>1, <1>4, ServerStepShape
<1>6. ASSUME NEW p PROVE Holds(t, p)' <=> HoldsAs(h, trans[t], t, p)
  <2>1. Holds(t, p)' <=> HoldsAs(serving'[t[1]], trans'[t], t, p)
    BY Zenon, HoldsIsNext
  <2>2. trans'[t] = trans[t]
    BY Zenon
  <2> QED  BY Zenon, <1>5, <2>1, <2>2
<1>7. ASSUME NEW p PROVE Holds(t, p) <=> HoldsAs(serving[c], trans[t], t, p)
  <2>1. Holds(t, p) <=> HoldsAs(serving[t[1]], trans[t], t, p)
    BY Zenon, HoldsIs
  <2> QED  BY Zenon, <1>1, <2>1
<1> QED  BY Zenon, <1>1, <1>3, <1>5, <1>6, <1>7 DEF HandlerDone

\* A server thread that takes up a request other than FINISH keeps the
\* invariant.
LEMMA ServeKeeps ==
  ASSUME BankTypes, ServingFits, LocksExact, NEW t \in Txns, Serve(t)
  PROVE  /\ trans' = trans /\ LocksExact' /\ ServingFits' /\ serving' \in [Clients -> {Idle} \cup Handling]
         /\ serving[t[1]] = Idle /\ trans[t] \in Drawn /\ serving'[t[1]].op = trans[t].at /\ serving'[t[1]].txn = t
         /\ serving'[t[1]] # Idle
         /\ trans[t].at = "FINISH" => serving'[t[1]].first = Changed(trans[t].type)
         /\ \A d \in Clients : d # t[1] => serving'[d] = serving[d]
         /\ UNCHANGED <<readers, writer, balance>>
<1>1. /\ serving[t[1]] = Idle /\ trans[t].at \in {"GET_DATA", "GET_LOCK", "FINISH"}
      /\ serving' = [serving EXCEPT ![t[1]] = Entered(trans[t].at, t)]
      /\ UNCHANGED <<readers, writer, balance, trans, commits>>
  BY Zenon DEF Serve
<1> SUFFICES ASSUME NEW h, h = Entered(trans[t].at, t), NEW type, type = trans[t].type,
                    NEW op, op = trans[t].at
             PROVE  /\ LocksExact' /\ ServingFits' /\ serving' \in [Clients -> {Idle} \cup Handling]
                    /\ trans[t] \in Drawn /\ serving'[t[1]].op = trans[t].at /\ serving'[t[1]].txn = t
                    /\ serving'[t[1]] # Idle
                    /\ trans[t].at = "FINISH" => serving'[t[1]].first = Changed(trans[t].type)
                    /\ \A d \in Clients : d # t[1] => serving'[d] = serving[d]
  BY Zenon, <1>1
<1>2. trans[t] \in Drawn /\ type \in Types
  BY Zenon, <1>1 DEF BankTypes, Brief, Drawn
<1>3. /\ h.op = op /\ h.txn = t /\ h.taken = {} /\ ~h.failed
      /\ h.first = (IF op = "FINISH" THEN Changed(type) ELSE Locked(type))
      /\ h.unlock = (IF op = "FINISH" THEN Locked(type) ELSE {})
      /\ h \in Handling
  <2> DEFINE w == StepsOf(type, op)
  <2>1. /\ w.first = (IF op = "FINISH" THEN Changed(type) ELSE Locked(type))
        /\ w.unlock = (IF op = "FINISH" THEN Locked(type) ELSE {})
    BY Zenon, <1>1 DEF StepsOf, GetDataSteps, GetLockSteps, FinishSteps
  <2>2. h = [op |-> op, txn |-> t, first |-> w.first, unlock |-> w.unlock,
             tested |-> FALSE, taken |-> {}, failed |-> FALSE]
    BY Zenon DEF Entered
  <2>3. Changed(type) \subseteq Pos /\ Locked(type) \subseteq Pos
    BY Zenon, <1>2, LockKinds
  <2> HIDE DEF w
  <2> QED  BY <1>1, <2>1, <2>2, <2>3 DEF Handling
<1>4. DoneSoFar(h, type) /\ h # Idle
  <2>1. h # Idle
    BY <1>1, <1>3 DEF Idle
  <2> QED  BY Zenon, <1>1, <1>3, <2>1 DEF DoneSoFar
<1>5. trans' = [trans EXCEPT ![t] = trans[t]]
  BY Zenon, <1>1 DEF BankTypes
<1>6. /\ serving'[t[1]] = h /\ serving' \in [Clients -> {Idle} \cup Handling] /\ ServingFits'
      /\ \A u \in Txns, p \in Pos : u # t => SameHold(u, p)
      /\ \A d \in Clients : d # t[1] => serving'[d] = serving[d]
  <2>1. ServesTo(t, trans[t], h)
    BY Zenon, <1>1, <1>2, <1>3, <1>4, <1>5 DEF ServesTo
  <2> QED  BY <2>1, ServerStepShape
<1>7. \A p \in Pos : SameHold(t, p)
  <2>1. \A p \in Pos : HoldsAs(h, trans[t], t, p) <=> HoldsAs(serving[t[1]], trans[t], t, p)
    BY Zenon, <1>1, <1>3, <1>4 DEF HoldsAs
  <2> QED  BY ZenonT(30), <1>1, <1>6, <2>1, HoldsIs, HoldsIsNext DEF SameHold, RowOf, KindOf
<1>8. LocksExact'
  BY Zenon, <1>1, <1>6, <1>7, LocksKept
<1> QED  BY Zenon, <1>2, <1>3, <1>4, <1>6, <1>8

\* A row has at most one holder of its write lock.
LEMMA OneWriter ==
  ASSUME LocksExact, NEW r \in Rows, NEW x \in Holders(r, "write"), NEW y \in Holders(r, "write")
  PROVE  x = y /\ Holders(r, "write") = {x}
<1>1. Cardinality(Holders(r, "write")) \in {0, 1} /\ IsFiniteSet(Holders(r, "write"))
  BY Zenon, Finite DEF LocksExact
<1>2. Cardinality(Holders(r, "write")) = 1
  BY Zenon, <1>1, FS_EmptySet
<1>3. \E z : Holders(r, "write") = {z}
  BY Zenon, <1>1, <1>2, FS_Singleton
<1> QED  BY <1>3

\* A load of GET_DATA keeps the invariant.
LEMMA LoadKeeps ==
  ASSUME BankInv, NEW c \in Clients, Load(c)
  PROVE  BankInv'
<1> USE DEF BankInv
<1> SUFFICES ASSUME NEW t, t = serving[c].txn, NEW p, p = AtPos(c), NEW v, v = balance[AtRow(c)],
                    NEW r, r = [trans[t] EXCEPT !.seen = [trans[t].seen EXCEPT ![p] = v]],
                    NEW h, h = [serving[c] EXCEPT !.first = @ \ {p}]
             PROVE  BankInv'
  BY Zenon
<1>1. /\ serving[c] # Idle /\ serving[c].op = "GET_DATA" /\ serving[c].first # {}
      /\ trans' = [trans EXCEPT ![t] = r] /\ serving' = [serving EXCEPT ![c] = h]
      /\ UNCHANGED <<readers, writer, balance, serial, overlapped>>
  BY Zenon DEF Load, Access, Advance
<1>2. /\ serving[c] \in Handling /\ t \in Txns /\ t[1] = c /\ trans[t] \in Drawn /\ trans[t].at = "GET_DATA"
      /\ DoneSoFar(serving[c], trans[t].type)
  BY Zenon, <1>1, AtWorkBank
<1>3. p \in Pos /\ v \in Int
  <2>1. p \in Pos
    BY Zenon, <1>1, <1>2, MinOf DEF AtPos, Handling
  <2>2. AtRow(c) \in Rows
    BY Zenon, <1>2, RowInTables DEF AtRow
  <2> QED  BY Zenon, <2>1, <2>2 DEF BankTypes
<1>4. /\ r \in Drawn /\ r.at = "GET_DATA" /\ r.type = trans[t].type
  BY Zenon, <1>2, <1>3 DEF Drawn
<1>5. /\ h \in Handling /\ h.txn = t /\ h.op = "GET_DATA" /\ h.first = serving[c].first \ {p} /\ h.unlock = serving[c].unlock
  BY Zenon, <1>1, <1>2 DEF Handling
<1>6. DoneSoFar(h, r.type)
  <2>1. serving[c].first \subseteq Locked(r.type) /\ serving[c].unlock = {}
    BY Zenon, <1>1, <1>2, <1>4 DEF DoneSoFar
  <2> QED  BY Zenon, <1>5, <2>1 DEF DoneSoFar
<1>7. ServesTo(t, r, h)
  BY ZenonT(30), <1>1, <1>2, <1>4, <1>5, <1>6 DEF ServesTo
<1>8. /\ trans'[t] = r /\ serving'[c] = h
      /\ trans' \in [Txns -> Drawn \cup Brief] /\ serving' \in [Clients -> {Idle} \cup Handling]
      /\ ServingFits'
      /\ \A u \in Txns, q \in Pos : u # t => SameHold(u, q)
      /\ \A u \in Txns : u # t => trans'[u] = trans[u]
      /\ \A d \in Clients : d # c => serving'[d] = serving[d] /\ (serving[d] # Idle => serving[d].txn \in Txns \ {t})
  BY SMTT(30), <1>2, <1>7, ServerStepShape
<1>9. \A q \in Pos : SameHold(t, q)
  <2>1. \A q \in Pos : ~HoldsAs(h, r, t, q) /\ ~HoldsAs(serving[c], trans[t], t, q)
    BY Zenon, <1>2, <1>4 DEF HoldsAs
  <2> SUFFICES ASSUME NEW q \in Pos PROVE ~Holds(t, q)' /\ ~Holds(t, q)
    BY Zenon DEF SameHold
  <2>2. Holds(t, q)' <=> HoldsAs(serving'[t[1]], trans'[t], t, q)
    BY Zenon, HoldsIsNext
  <2>3. Holds(t, q) <=> HoldsAs(serving[t[1]], trans[t], t, q)
    BY ZenonT(30), HoldsIs
  <2> QED  BY <1>2, <1>8, <2>1, <2>2, <2>3
<1>10. LocksExact'
  BY <1>1, <1>8, <1>9, LocksKept
<1>11. Settled'
  <2>1. \A d \in Clients, q \in Pos :
           /\ Pending(d, q)' <=> Pending(d, q)
           /\ Pending(d, q) => /\ serving'[d].txn = serving[d].txn
                              /\ trans'[serving[d].txn] = trans[serving[d].txn]
    BY Zenon, <1>1, <1>5, <1>8 DEF Pending
  <2> QED  BY Zenon, <1>1, <2>1, SettledKept
<1>12. BankTypes'
  BY Zenon, <1>1, <1>8 DEF BankTypes
<1> QED  BY Zenon, <1>8, <1>10, <1>11, <1>12

\* A step of GET_LOCK, of a release or of a response leaves the balances alone.
LEMMA NoPendingKept ==
  ASSUME BankInv, NEW c \in Clients, NEW h, serving'[c] = h,
         \A d \in Clients : d # c => serving'[d] = serving[d],
         \A q \in Pos : ~Pending(c, q), h # Idle => h.op # "FINISH" \/ h.first = {},
         trans' = trans, UNCHANGED <<balance, serial, overlapped>>
  PROVE  Settled'
<1>1. \A d \in Clients, q \in Pos :
           /\ Pending(d, q)' <=> Pending(d, q)
           /\ Pending(d, q) => serving'[d].txn = serving[d].txn /\ trans'[serving[d].txn] = trans[serving[d].txn]
  BY Zenon DEF Pending
<1> QED  BY Zenon, <1>1, SettledKept DEF BankInv

\* GET_LOCK that finds a row taken, and turns to its roll-back, keeps the
\* invariant.
LEMMA RefusedKeeps ==
  ASSUME BankInv, NEW c \in Clients, Access(c, "GET_LOCK"), GiveUp(c),
         UNCHANGED <<readers, writer, balance, trans, serial, overlapped>>
  PROVE  BankInv'
<1> USE DEF BankInv
<1> SUFFICES ASSUME NEW t, t = serving[c].txn,
                    NEW h, h = [serving[c] EXCEPT !.failed = TRUE, !.first = {}, !.unlock = serving[c].taken]
             PROVE  BankInv'
  BY Zenon
<1>1. serving[c] # Idle /\ serving[c].op = "GET_LOCK" /\ serving[c].first # {} /\ serving' = [serving EXCEPT ![c] = h]
  BY Zenon DEF GiveUp, Access
<1>2. /\ serving[c] \in Handling /\ t \in Txns /\ t[1] = c /\ trans[t] \in Drawn /\ trans[t].at = "GET_LOCK"
      /\ DoneSoFar(serving[c], trans[t].type)
  BY Zenon, <1>1, AtWorkBank
<1>3. /\ h \in Handling /\ h.txn = t /\ h.op = "GET_LOCK" /\ h.first = {} /\ h.failed
      /\ h.unlock = serving[c].taken /\ h.taken = serving[c].taken /\ h # Idle
  BY Zenon, <1>1, <1>2 DEF Handling, Idle
<1>4. ~serving[c].failed /\ serving[c].taken = Locked(trans[t].type) \ serving[c].first
  BY Zenon, <1>1, <1>2 DEF DoneSoFar
<1>5. DoneSoFar(h, trans[t].type)
  BY Zenon, <1>2, <1>3, <1>4 DEF DoneSoFar
<1>6. /\ serving'[c] = h /\ serving' \in [Clients -> {Idle} \cup Handling] /\ ServingFits'
      /\ \A u \in Txns, p \in Pos : u # t => SameHold(u, p)
      /\ \A d \in Clients : d # c => serving'[d] = serving[d]
      /\ \A p : RowOf(t, p)' = RowOf(t, p) /\ KindOf(t, p)' = KindOf(t, p)
      /\ \A p : Holds(t, p)' <=> HoldsAs(h, trans[t], t, p)
      /\ \A p : Holds(t, p) <=> HoldsAs(serving[c], trans[t], t, p)
  <2>1. HandlerTo(c, h)
    BY Zenon, <1>1, <1>3, <1>5 DEF HandlerTo
  <2>2. HandlerDone(c, t, h)
    BY Zenon, <2>1, HandlerStep
  <2> QED  BY Zenon, <2>2 DEF HandlerDone
<1>7. \A q \in Pos : SameHold(t, q)
  <2>1. \A q \in Pos : HoldsAs(h, trans[t], t, q) <=> HoldsAs(serving[c], trans[t], t, q)
    BY Zenon, <1>1, <1>2, <1>3, <1>4 DEF HoldsAs
  <2> QED  BY Zenon, <1>6, <2>1 DEF SameHold
<1>8. LocksExact'
  BY Zenon, <1>6, <1>7, LocksKept
<1>9. Settled'
  BY Zenon, <1>1, <1>3, <1>6, NoPendingKept DEF Pending
<1>10. BankTypes'
  BY Zenon, <1>6 DEF BankTypes
<1> QED  BY Zenon, <1>6, <1>8, <1>9, <1>10

\* A test of the writer flag by try_lock_read keeps the invariant.
LEMMA TestWriterKeeps ==
  ASSUME BankInv, NEW c \in Clients, TestWriter(c)
  PROVE  BankInv'
<1>0. Access(c, "GET_LOCK") /\ UNCHANGED <<readers, writer, balance, trans, commits, serial, overlapped>>
  BY Zenon DEF TestWriter
<1>1. CASE writer[AtRow(c)]
  BY Zenon, <1>0, <1>1, RefusedKeeps DEF TestWriter
<1>2. CASE ~writer[AtRow(c)]
  <2> USE DEF BankInv
  <2> SUFFICES ASSUME NEW t, t = serving[c].txn, NEW h, h = [serving[c] EXCEPT !.tested = TRUE]
               PROVE  BankInv'
    BY Zenon
  <2>1. serving[c] # Idle /\ serving[c].op = "GET_LOCK" /\ serving' = [serving EXCEPT ![c] = h]
    BY Zenon, <1>0, <1>2 DEF TestWriter, Access
  <2>2. /\ serving[c] \in Handling /\ t \in Txns /\ t[1] = c /\ trans[t] \in Drawn /\ trans[t].at = "GET_LOCK"
        /\ DoneSoFar(serving[c], trans[t].type)
    BY Zenon, <2>1, AtWorkBank
  <2>3. /\ h \in Handling /\ h.txn = t /\ h.op = "GET_LOCK" /\ h.first = serving[c].first /\ h.failed = serving[c].failed
        /\ h.unlock = serving[c].unlock /\ h.taken = serving[c].taken /\ h # Idle
    BY ZenonT(30), <2>1, <2>2 DEF Handling, Idle
  <2>5. DoneSoFar(h, trans[t].type)
    BY <2>2, <2>3 DEF DoneSoFar
  <2>6. /\ serving'[c] = h /\ serving' \in [Clients -> {Idle} \cup Handling] /\ ServingFits'
        /\ \A u \in Txns, p \in Pos : u # t => SameHold(u, p)
        /\ \A d \in Clients : d # c => serving'[d] = serving[d]
        /\ \A p : RowOf(t, p)' = RowOf(t, p) /\ KindOf(t, p)' = KindOf(t, p)
        /\ \A p : Holds(t, p)' <=> HoldsAs(h, trans[t], t, p)
        /\ \A p : Holds(t, p) <=> HoldsAs(serving[c], trans[t], t, p)
    <3>1. HandlerTo(c, h)
      BY Zenon, <1>0, <2>1, <2>3, <2>5 DEF HandlerTo
    <3>2. HandlerDone(c, t, h)
      BY Zenon, <3>1, HandlerStep
    <3> QED  BY Zenon, <3>2 DEF HandlerDone
  <2>7. \A q \in Pos : SameHold(t, q)
    <3>1. \A q \in Pos : HoldsAs(h, trans[t], t, q) <=> HoldsAs(serving[c], trans[t], t, q)
      BY Zenon, <2>1, <2>2, <2>3 DEF HoldsAs
    <3> QED  BY Zenon, <2>6, <3>1 DEF SameHold
  <2>8. LocksExact'
    BY Zenon, <1>0, <2>6, <2>7, LocksKept
  <2>9. Settled'
    BY Zenon, <1>0, <2>1, <2>3, <2>6, NoPendingKept DEF Pending
  <2>10. BankTypes'
    BY Zenon, <1>0, <2>6 DEF BankTypes
  <2> QED  BY Zenon, <2>6, <2>8, <2>9, <2>10
<1> QED  BY Zenon, <1>1, <1>2

\* get_lock_handler takes the lock of the position it is at.
LEMMA TakenKeeps ==
  ASSUME BankInv, NEW c \in Clients, Access(c, "GET_LOCK"), Taken(c),
         UNCHANGED <<balance, trans, serial, overlapped>>
  PROVE  /\ serving' \in [Clients -> {Idle} \cup Handling] /\ ServingFits' /\ Settled'
         /\ AtRow(c) \in Rows
         /\ \A r, k : /\ <<serving[c].txn, AtPos(c)>> \notin Holders(r, k)
                       /\ Holders(r, k)' = IF AtRow(c) = r /\ AtKind(c) = k
                                           THEN Holders(r, k) \cup {<<serving[c].txn, AtPos(c)>>} ELSE Holders(r, k)
<1> USE DEF BankInv
<1> SUFFICES ASSUME NEW t, t = serving[c].txn, NEW p, p = AtPos(c),
                    NEW h, h = [serving[c] EXCEPT !.first = @ \ {p}, !.tested = FALSE, !.taken = @ \cup {p}]
             PROVE  /\ serving' \in [Clients -> {Idle} \cup Handling] /\ ServingFits' /\ Settled'
                    /\ AtRow(c) \in Rows
                    /\ \A r, k : /\ <<t, p>> \notin Holders(r, k)
                                  /\ Holders(r, k)' = IF AtRow(c) = r /\ AtKind(c) = k
                                                      THEN Holders(r, k) \cup {<<t, p>>} ELSE Holders(r, k)
  BY Zenon
<1>1. serving[c] # Idle /\ serving[c].op = "GET_LOCK" /\ serving[c].first # {} /\ serving' = [serving EXCEPT ![c] = h]
  BY Zenon DEF Taken, Access
<1>2. /\ serving[c] \in Handling /\ t \in Txns /\ t[1] = c /\ trans[t] \in Drawn /\ trans[t].at = "GET_LOCK"
      /\ DoneSoFar(serving[c], trans[t].type)
  BY Zenon, <1>1, AtWorkBank
<1>3. p \in serving[c].first /\ p \in Pos
  BY Zenon, <1>1, <1>2, MinOf DEF AtPos, Handling
<1>4. /\ h \in Handling /\ h.txn = t /\ h.op = "GET_LOCK" /\ h.first = serving[c].first \ {p} /\ h.failed = serving[c].failed
      /\ h.unlock = serving[c].unlock /\ h.taken = serving[c].taken \cup {p} /\ h # Idle
  BY Zenon, <1>1, <1>2, <1>3 DEF Handling, Idle
<1>5. /\ ~serving[c].failed /\ serving[c].first \subseteq Locked(trans[t].type)
      /\ serving[c].taken = Locked(trans[t].type) \ serving[c].first /\ serving[c].unlock = {}
  BY Zenon, <1>1, <1>2, <1>3 DEF DoneSoFar
<1>6. DoneSoFar(h, trans[t].type)
  BY ZenonT(30), <1>3, <1>4, <1>5 DEF DoneSoFar
<1>7. HandlerTo(c, h)
  BY Zenon, <1>1, <1>4, <1>6 DEF HandlerTo
<1>8. /\ serving'[c] = h /\ serving' \in [Clients -> {Idle} \cup Handling] /\ ServingFits'
      /\ \A u \in Txns, q \in Pos : u # t => SameHold(u, q)
      /\ \A d \in Clients : d # c => serving'[d] = serving[d]
      /\ \A q : RowOf(t, q)' = RowOf(t, q) /\ KindOf(t, q)' = KindOf(t, q)
      /\ \A q : Holds(t, q)' <=> HoldsAs(h, trans[t], t, q)
      /\ \A q : Holds(t, q) <=> HoldsAs(serving[c], trans[t], t, q)
  <2>1. HandlerDone(c, t, h)
    BY Zenon, <1>7, HandlerStep
  <2> QED  BY Zenon, <2>1 DEF HandlerDone
<1>9. ~Holds(t, p) /\ Holds(t, p)'
  BY Zenon, <1>1, <1>2, <1>3, <1>4, <1>5, <1>8 DEF HoldsAs
<1>10. \A q \in Pos : q # p => SameHold(t, q)
  <2>1. \A q \in Pos : q # p => (HoldsAs(h, trans[t], t, q) <=> HoldsAs(serving[c], trans[t], t, q))
    BY Zenon, <1>1, <1>2, <1>4, <1>5 DEF HoldsAs
  <2> QED  BY Zenon, <1>8, <2>1 DEF SameHold
<1>11. \A r, k : /\ <<t, p>> \notin Holders(r, k)
                 /\ Holders(r, k)' = IF RowOf(t, p)' = r /\ KindOf(t, p)' = k
                                     THEN Holders(r, k) \cup {<<t, p>>} ELSE Holders(r, k)
  <2>1. \A u \in Txns, q \in Pos : <<u, q>> # <<t, p>> => SameHold(u, q)
    BY ZenonT(30), <1>8, <1>10
  <2> QED  BY Zenon, <1>2, <1>3, <1>9, <2>1, HoldersGain
<1>12. RowOf(t, p)' = AtRow(c) /\ KindOf(t, p)' = AtKind(c) /\ AtRow(c) \in Rows
  BY Zenon, <1>2, <1>8, RowInTables DEF AtRow, AtKind
<1>13. Settled'
  BY Zenon, <1>1, <1>4, <1>8, NoPendingKept DEF Pending
<1> QED  BY Zenon, <1>8, <1>11, <1>12, <1>13

\* The reader counted by try_lock_read is one more holder.
LEMMA AddReaderKeeps ==
  ASSUME BankInv, NEW c \in Clients, AddReader(c)
  PROVE  BankInv'
<1> USE DEF BankInv
<1>1. /\ Access(c, "GET_LOCK") /\ Taken(c) /\ AtKind(c) = "read"
      /\ readers' = [readers EXCEPT ![AtRow(c)] = @ + 1]
      /\ UNCHANGED <<writer, balance, trans, serial, overlapped>>
  BY Zenon DEF AddReader
<1> SUFFICES ASSUME NEW x, x = <<serving[c].txn, AtPos(c)>>, NEW a, a = AtRow(c)
             PROVE  BankInv'
  BY Zenon
<1>2. /\ serving' \in [Clients -> {Idle} \cup Handling] /\ ServingFits' /\ Settled' /\ a \in Rows
      /\ \A r, k : /\ x \notin Holders(r, k)
                    /\ Holders(r, k)' = IF a = r /\ AtKind(c) = k THEN Holders(r, k) \cup {x} ELSE Holders(r, k)
  BY Zenon, <1>1, TakenKeeps
<1>3. LocksExact'
  <2> SUFFICES ASSUME NEW r \in Rows
               PROVE  /\ readers'[r] = Cardinality(Holders(r, "read")')
                      /\ Cardinality(Holders(r, "write")') = IF writer'[r] THEN 1 ELSE 0
    BY Zenon DEF LocksExact
  <2>1. Holders(r, "write")' = Holders(r, "write")
    BY Zenon, <1>1, <1>2
  <2>2. CASE r = a
    <3>1. Holders(r, "read")' = Holders(r, "read") \cup {x} /\ x \notin Holders(r, "read")
      BY Zenon, <1>1, <1>2, <2>2
    <3>2. Cardinality(Holders(r, "read")') = Cardinality(Holders(r, "read")) + 1
      BY Zenon, <3>1, Finite, FS_AddElement
    <3> QED  BY Zenon, <1>1, <2>1, <2>2, <3>2 DEF LocksExact, BankTypes
  <2>3. CASE r # a
    BY Zenon, <1>1, <1>2, <2>1, <2>3 DEF LocksExact, BankTypes
  <2> QED  BY Zenon, <2>2, <2>3
<1>4. BankTypes'
  <2>1. readers' \in [Rows -> Int]
    BY <1>1, <1>2 DEF BankTypes
  <2> QED  BY Zenon, <1>1, <1>2, <2>1 DEF BankTypes
<1> QED  BY Zenon, <1>2, <1>3, <1>4

\* The compare-exchange of try_lock_write makes one more holder.
LEMMA TakeWriterKeeps ==
  ASSUME BankInv, NEW c \in Clients, TakeWriter(c)
  PROVE  BankInv'
<1> USE DEF BankInv
<1>1. /\ Access(c, "GET_LOCK") /\ AtKind(c) = "write"
      /\ UNCHANGED <<readers, balance, trans, serial, overlapped>>
  BY Zenon DEF TakeWriter
<1>2. CASE writer[AtRow(c)]
  BY Zenon, <1>1, <1>2, RefusedKeeps DEF TakeWriter
<1>3. CASE ~writer[AtRow(c)]
  <2> SUFFICES ASSUME NEW x, x = <<serving[c].txn, AtPos(c)>>, NEW a, a = AtRow(c)
               PROVE  BankInv'
    BY Zenon
  <2>1. Taken(c) /\ writer' = [writer EXCEPT ![a] = TRUE]
    BY Zenon, <1>3 DEF TakeWriter
  <2>2. /\ serving' \in [Clients -> {Idle} \cup Handling] /\ ServingFits' /\ Settled' /\ a \in Rows
        /\ \A r, k : /\ x \notin Holders(r, k)
                      /\ Holders(r, k)' = IF a = r /\ AtKind(c) = k THEN Holders(r, k) \cup {x} ELSE Holders(r, k)
    BY Zenon, <1>1, <2>1, TakenKeeps
  <2>3. LocksExact'
    <3> SUFFICES ASSUME NEW r \in Rows
                 PROVE  /\ readers'[r] = Cardinality(Holders(r, "read")')
                        /\ Cardinality(Holders(r, "write")') = IF writer'[r] THEN 1 ELSE 0
      BY Zenon DEF LocksExact
    <3>1. Holders(r, "read")' = Holders(r, "read")
      BY Zenon, <1>1, <2>2
    <3>2. CASE r = a
      <4>1. Holders(r, "write")' = Holders(r, "write") \cup {x} /\ x \notin Holders(r, "write")
        BY Zenon, <1>1, <2>2, <3>2
      <4>2. Cardinality(Holders(r, "write")') = Cardinality(Holders(r, "write")) + 1
        BY Zenon, <4>1, Finite, FS_AddElement
      <4>3. Cardinality(Holders(r, "write")) = 0
        BY Zenon, <1>3, <3>2 DEF LocksExact
      <4> QED  BY SMTT(30), <1>1, <2>1, <3>1, <3>2, <4>2, <4>3 DEF LocksExact, BankTypes
    <3>3. CASE r # a
      BY Zenon, <1>1, <2>1, <2>2, <3>1, <3>3 DEF LocksExact, BankTypes
    <3> QED  BY Zenon, <3>2, <3>3
  <2>4. BankTypes'
    <3>1. writer' \in [Rows -> BOOLEAN]
      BY Zenon, <2>1 DEF BankTypes
    <3> QED  BY Zenon, <1>1, <2>2, <3>1 DEF BankTypes
  <2> QED  BY Zenon, <2>2, <2>3, <2>4
<1> QED  BY Zenon, <1>2, <1>3

\* An unlock, of roll-back or FINISH, takes away the holder it releases.
LEMMA UnlockKeeps ==
  ASSUME BankInv, NEW c \in Clients, Unlock(c)
  PROVE  BankInv'
<1> USE DEF BankInv
<1> SUFFICES ASSUME NEW t, t = serving[c].txn, NEW p, p = Min(serving[c].unlock), NEW a, a = RowOf(t, p),
                    NEW h, h = [serving[c] EXCEPT !.unlock = @ \ {p}]
             PROVE  BankInv'
  BY Zenon
<1>1. /\ serving[c] # Idle /\ serving[c].first = {} /\ serving[c].unlock # {} /\ serving' = [serving EXCEPT ![c] = h]
      /\ UNCHANGED <<balance, trans, serial, overlapped>>
      /\ \/ KindOf(t, p) = "read" /\ readers' = [readers EXCEPT ![a] = @ - 1] /\ UNCHANGED writer
         \/ KindOf(t, p) = "write" /\ writer' = [writer EXCEPT ![a] = FALSE] /\ UNCHANGED readers
  BY Zenon DEF Unlock, Releasing
<1>2. /\ serving[c] \in Handling /\ t \in Txns /\ t[1] = c /\ trans[t] \in Drawn /\ trans[t].at = serving[c].op
      /\ trans[t].type \in Types /\ DoneSoFar(serving[c], trans[t].type)
  BY Zenon, <1>1, AtWorkBank
<1>3. p \in serving[c].unlock /\ p \in Pos
  BY Zenon, <1>1, <1>2, MinOf DEF Handling
<1>4. /\ h \in Handling /\ h.txn = t /\ h.op = serving[c].op /\ h.first = {} /\ h.failed = serving[c].failed
      /\ h.unlock = serving[c].unlock \ {p} /\ h.taken = serving[c].taken
  BY Zenon, <1>1, <1>2, <1>3 DEF Handling
<1>41. h # Idle /\ serving[c].op \in {"GET_DATA", "GET_LOCK", "FINISH"}
  BY Zenon, <1>2, <1>4 DEF Handling, Idle
<1>5. /\ \/ serving[c].op = "FINISH"
         \/ serving[c].op = "GET_LOCK" /\ serving[c].failed /\ serving[c].unlock \subseteq serving[c].taken
      /\ serving[c].unlock \subseteq Locked(trans[t].type)
  BY ZenonT(30), <1>1, <1>2, <1>41 DEF DoneSoFar
<1>6. DoneSoFar(h, trans[t].type)
  BY <1>2, <1>4 DEF DoneSoFar
<1>7. HandlerTo(c, h)
  BY Zenon, <1>1, <1>4, <1>6 DEF HandlerTo
<1>8. /\ serving'[c] = h /\ serving' \in [Clients -> {Idle} \cup Handling] /\ ServingFits'
      /\ \A u \in Txns, q \in Pos : u # t => SameHold(u, q)
      /\ \A d \in Clients : d # c => serving'[d] = serving[d]
      /\ \A q : RowOf(t, q)' = RowOf(t, q) /\ KindOf(t, q)' = KindOf(t, q)
      /\ \A q : Holds(t, q)' <=> HoldsAs(h, trans[t], t, q)
      /\ \A q : Holds(t, q) <=> HoldsAs(serving[c], trans[t], t, q)
  <2>1. HandlerDone(c, t, h)
    BY Zenon, <1>7, HandlerStep
  <2> QED  BY Zenon, <2>1 DEF HandlerDone
<1>9. Holds(t, p) /\ ~Holds(t, p)'
  BY ZenonT(30), <1>1, <1>2, <1>3, <1>4, <1>41, <1>5, <1>8 DEF HoldsAs
<1>10. \A q \in Pos : q # p => SameHold(t, q)
  <2>1. \A q \in Pos : q # p => (HoldsAs(h, trans[t], t, q) <=> HoldsAs(serving[c], trans[t], t, q))
    BY ZenonT(30), <1>1, <1>2, <1>4, <1>41, <1>5 DEF HoldsAs
  <2> QED  BY ZenonT(30), <1>8, <2>1 DEF SameHold
<1>11. \A r, k : /\ a = r /\ KindOf(t, p) = k => <<t, p>> \in Holders(r, k)
                 /\ Holders(r, k)' = IF a = r /\ KindOf(t, p) = k
                                     THEN Holders(r, k) \ {<<t, p>>} ELSE Holders(r, k)
  <2>1. \A u \in Txns, q \in Pos : <<u, q>> # <<t, p>> => SameHold(u, q)
    BY Zenon, <1>8, <1>10
  <2> QED  BY SMTT(30), <1>2, <1>3, <1>9, <2>1, HoldersLose
<1>12. a \in Rows
  BY Zenon, <1>2, RowInTables
<1>13. Settled'
  BY Zenon, <1>1, <1>4, <1>8, NoPendingKept DEF Pending
<1>14. ASSUME NEW r \in Rows
       PROVE  /\ readers'[r] = Cardinality(Holders(r, "read")')
              /\ Cardinality(Holders(r, "write")') = IF writer'[r] THEN 1 ELSE 0
  <2>1. /\ readers[r] = Cardinality(Holders(r, "read"))
        /\ Cardinality(Holders(r, "write")) = IF writer[r] THEN 1 ELSE 0
    BY Zenon DEF LocksExact
  <2>2. /\ Cardinality(Holders(r, "read")) \in Nat
        /\ <<t, p>> \in Holders(r, "read") => Cardinality(Holders(r, "read") \ {<<t, p>>}) = Cardinality(Holders(r, "read")) - 1
    BY Zenon, Finite, FS_RemoveElement, FS_CardinalityType
  <2>3. <<t, p>> \in Holders(r, "write") => Cardinality(Holders(r, "write") \ {<<t, p>>}) = Cardinality(Holders(r, "write")) - 1
    BY Zenon, Finite, FS_RemoveElement
  <2>4. CASE KindOf(t, p) = "read" /\ readers' = [readers EXCEPT ![a] = @ - 1] /\ UNCHANGED writer
    <3>1. Holders(r, "write")' = Holders(r, "write")
      BY Zenon, <1>11, <2>4
    <3>2. readers'[r] = IF r = a THEN readers[r] - 1 ELSE readers[r]
      BY Zenon, <2>4 DEF BankTypes
    <3> QED  BY Zenon, <1>11, <2>1, <2>2, <2>4, <3>1, <3>2
  <2>5. CASE KindOf(t, p) = "write" /\ writer' = [writer EXCEPT ![a] = FALSE] /\ UNCHANGED readers
    <3>1. Holders(r, "read")' = Holders(r, "read")
      BY Zenon, <1>11, <2>5
    <3>2. CASE r = a
      <4>1. <<t, p>> \in Holders(r, "write") /\ Holders(r, "write")' = Holders(r, "write") \ {<<t, p>>}
        BY Zenon, <1>11, <2>5, <3>2
      <4>2. Cardinality(Holders(r, "write")) = 1
        <5>1. Cardinality(Holders(r, "write")) \in {0, 1}
          BY Zenon, <2>1
        <5>2. Cardinality(Holders(r, "write")) # 0
          BY Zenon, <4>1, Finite, FS_EmptySet
        <5> QED  BY Zenon, <5>1, <5>2
      <4>3. ~writer'[r]
        BY Zenon, <2>5, <3>2 DEF BankTypes
      <4> QED  BY SMTT(30), <2>1, <2>3, <2>5, <3>1, <4>1, <4>2, <4>3
    <3>3. CASE r # a
      <4>1. Holders(r, "write")' = Holders(r, "write") /\ writer'[r] = writer[r]
        BY Zenon, <1>11, <2>5, <3>3 DEF BankTypes
      <4> QED  BY Zenon, <2>1, <2>5, <3>1, <4>1
    <3> QED  BY Zenon, <3>2, <3>3
  <2> QED  BY Zenon, <1>1, <2>4, <2>5
<1>15. LocksExact'
  BY Zenon, <1>14 DEF LocksExact
<1>16. BankTypes'
  <2>1. readers' \in [Rows -> Int] /\ writer' \in [Rows -> BOOLEAN]
    <3>1. CASE readers' = [readers EXCEPT ![a] = @ - 1] /\ UNCHANGED writer
      BY <1>12, <3>1 DEF BankTypes
    <3>2. CASE writer' = [writer EXCEPT ![a] = FALSE] /\ UNCHANGED readers
      BY Zenon, <3>2 DEF BankTypes
    <3> QED  BY Zenon, <1>1, <3>1, <3>2
  <2> QED  BY Zenon, <1>1, <1>8, <2>1 DEF BankTypes
<1> QED  BY Zenon, <1>8, <1>13, <1>15, <1>16

\* The response of a handler keeps the invariant.
LEMMA RespondKeeps ==
  ASSUME BankInv, NEW c \in Clients, Respond(c)
  PROVE  BankInv'
<1> USE DEF BankInv
<1> SUFFICES ASSUME NEW t, t = serving[c].txn, NEW o, o = Outcome(serving[c]),
                    NEW r, r = IF o \in {"refused", "finished"} THEN [type |-> "Balance", at |-> o]
                               ELSE [trans[t] EXCEPT !.at = o]
             PROVE  BankInv'
  BY Zenon
<1>1. /\ serving[c] # Idle /\ serving[c].first = {} /\ serving[c].unlock = {}
      /\ serving' = [serving EXCEPT ![c] = Idle] /\ trans' = [trans EXCEPT ![t] = r]
      /\ UNCHANGED <<readers, writer, balance, serial, overlapped>>
  BY Zenon DEF Respond
<1>2. /\ serving[c] \in Handling /\ t \in Txns /\ t[1] = c /\ trans[t] \in Drawn /\ trans[t].at = serving[c].op
      /\ trans[t].type \in Types /\ DoneSoFar(serving[c], trans[t].type)
  BY Zenon, <1>1, AtWorkBank
<1>3. serving[c].op \in {"GET_DATA", "GET_LOCK", "FINISH"} /\ serving[c].failed \in BOOLEAN
  BY Zenon, <1>2 DEF Handling
<1>4. /\ r \in Drawn \cup Brief
      /\ \/ serving[c].op = "GET_DATA" /\ r.at = "data"
         \/ serving[c].op = "GET_LOCK" /\ serving[c].failed /\ r.at = "refused"
         \/ /\ serving[c].op = "GET_LOCK" /\ ~serving[c].failed /\ r.at = "granted"
            /\ r.type = trans[t].type /\ r.user1 = trans[t].user1 /\ r.user2 = trans[t].user2
         \/ serving[c].op = "FINISH" /\ r.at = "finished"
  <2>1. CASE serving[c].op = "GET_DATA"
    <3>1. o = "data"
      BY Zenon, <2>1 DEF Outcome
    <3> QED  BY Zenon, <1>2, <2>1, <3>1 DEF Drawn
  <2>2. CASE serving[c].op = "GET_LOCK" /\ serving[c].failed
    <3>1. o = "refused"
      BY Zenon, <2>2 DEF Outcome
    <3> QED  BY Zenon, <1>2, <2>2, <3>1 DEF Brief
  <2>3. CASE serving[c].op = "GET_LOCK" /\ ~serving[c].failed
    <3>1. o = "granted"
      BY Zenon, <2>3 DEF Outcome
    <3> QED  BY Zenon, <1>2, <2>3, <3>1 DEF Drawn
  <2>4. CASE serving[c].op = "FINISH"
    <3>1. o = "finished"
      BY Zenon, <2>4 DEF Outcome
    <3> QED  BY Zenon, <1>2, <2>4, <3>1 DEF Brief
  <2>5. \/ serving[c].op = "GET_DATA" \/ serving[c].op = "FINISH"
        \/ serving[c].op = "GET_LOCK" /\ serving[c].failed
        \/ serving[c].op = "GET_LOCK" /\ ~serving[c].failed
    BY <1>3, Zenon
  <2> QED  BY <2>1, <2>2, <2>3, <2>4, <2>5, Zenon
<1>5. ServesTo(t, r, Idle)
  BY ZenonT(30), <1>1, <1>2, <1>4 DEF ServesTo
<1>6. /\ trans'[t] = r /\ serving'[c] = Idle
      /\ trans' \in [Txns -> Drawn \cup Brief] /\ serving' \in [Clients -> {Idle} \cup Handling]
      /\ ServingFits'
      /\ \A u \in Txns, q \in Pos : u # t => SameHold(u, q)
      /\ \A u \in Txns : u # t => trans'[u] = trans[u]
      /\ \A d \in Clients : d # c => serving'[d] = serving[d] /\ (serving[d] # Idle => serving[d].txn \in Txns \ {t})
  BY <1>2, <1>5, ServerStepShape
<1>7. ASSUME NEW q \in Pos PROVE SameHold(t, q)
  <2>1. Holds(t, q)' <=> HoldsAs(serving'[t[1]], trans'[t], t, q)
    BY Zenon, HoldsIsNext
  <2>2. Holds(t, q) <=> HoldsAs(serving[t[1]], trans[t], t, q)
    BY Zenon, HoldsIs
  <2>3. HoldsAs(Idle, r, t, q) <=> HoldsAs(serving[c], trans[t], t, q)
    BY Zenon, <1>1, <1>2, <1>4 DEF HoldsAs, DoneSoFar
  <2>4. Holds(t, q) => trans[t].at = "GET_LOCK" /\ ~serving[c].failed
    BY Zenon, <1>1, <1>2, <1>3, <2>2 DEF HoldsAs
  <2>5. Holds(t, q) => r.type = trans[t].type /\ r.user1 = trans[t].user1 /\ r.user2 = trans[t].user2
    BY Zenon, <1>2, <1>4, <2>4
  <2>6. Holds(t, q) => RowOf(t, q)' = RowOf(t, q) /\ KindOf(t, q)' = KindOf(t, q)
    BY Zenon, <1>6, <2>5 DEF RowOf, KindOf
  <2> QED  BY Zenon, <1>2, <1>6, <2>1, <2>2, <2>3, <2>6 DEF SameHold
<1>8. LocksExact'
  BY <1>1, <1>6, <1>7, LocksKept
<1>9. Settled'
  <2>1. \A d \in Clients, q \in Pos :
           /\ Pending(d, q)' <=> Pending(d, q)
           /\ Pending(d, q) => /\ serving'[d].txn = serving[d].txn
                              /\ trans'[serving[d].txn] = trans[serving[d].txn]
    BY Zenon, <1>1, <1>6 DEF Pending
  <2> QED  BY Zenon, <1>1, <2>1, SettledKept
<1>10. BankTypes'
  BY Zenon, <1>1, <1>6 DEF BankTypes
<1> QED  BY Zenon, <1>6, <1>8, <1>9, <1>10

----------------------------------------------------------------------------
(* Balances *)

\* The sum of two balances is a number.
LEMMA FaddInt == \A x, y \in Int : Fadd(x, y) \in Int
<1> SUFFICES ASSUME NEW x \in Int, NEW y \in Int PROVE Fadd(x, y) \in Int
  BY Zenon
<1>1. Big \in Int /\ Big > 0
  BY BankAssumption
<1>2. Big \div 2 \in Int
  BY <1>1
<1>3. x + y + (Big \div 2) \in Int
  BY <1>2
<1>4. (x + y + (Big \div 2)) \div Big \in Int
  BY <1>1, <1>3
<1>5. ((x + y + (Big \div 2)) \div Big) * Big \in Int
  BY <1>1, <1>4
<1> QED  BY <1>5 DEF Fadd

\* What a type changes, and that its new balances depend on those alone.
LEMMA ChangedOf ==
  /\ Changed("Amalgamate") = {1, 4} /\ Changed("Balance") = {} /\ Changed("DepositChecking") = {1}
  /\ Changed("SendPayment") = {1, 3} /\ Changed("TransactSavings") = {2} /\ Changed("WriteCheck") = {1}
<1>1. Pos = {1, 2, 3, 4}
  BY DEF Pos
<1> QED  BY <1>1 DEF Changed, LockOf

\* The balances a transaction writes depend only on the rows it changes.
LEMMA NewBalanceReads ==
  ASSUME NEW type \in Types, NEW p \in Changed(type), NEW s \in [Pos -> Int], NEW z \in [Pos -> Int],
         \A q \in Changed(type) : s[q] = z[q]
  PROVE  NewBalance(type, p, s) = NewBalance(type, p, z) /\ NewBalance(type, p, s) \in Int
<1>0. Pos = {1, 2, 3, 4}
  BY DEF Pos
<1>1. CASE type = "Amalgamate"
  <2>1. s[1] = z[1] /\ s[4] = z[4] /\ Fadd(s[1], s[4]) \in Int
    BY Zenon, <1>0, <1>1, ChangedOf, FaddInt
  <2> QED  BY <1>1, <2>1 DEF NewBalance
<1>2. CASE type = "DepositChecking"
  <2>1. s[1] = z[1] /\ Fadd(s[1], 1) \in Int
    BY <1>0, <1>2, ChangedOf, FaddInt
  <2> QED  BY Zenon, <1>2, <2>1 DEF NewBalance
<1>3. CASE type = "SendPayment"
  <2>1. s[p] = z[p] /\ s[p] \in Int
    BY Zenon, <1>0, <1>3, ChangedOf
  <2>2. \A x \in Int : Fadd(x, 1) \in Int /\ Fadd(x, -1) \in Int
    BY FaddInt
  <2>3. Fadd(s[p], 1) \in Int /\ Fadd(s[p], -1) \in Int
    BY Zenon, <2>1, <2>2
  <2> QED  BY Zenon, <1>3, <2>1, <2>2, <2>3 DEF NewBalance
<1>4. CASE type = "TransactSavings"
  <2>1. s[2] = z[2] /\ Fadd(s[2], -1) \in Int
    BY <1>0, <1>4, ChangedOf, FaddInt
  <2> QED  BY Zenon, <1>4, <2>1 DEF NewBalance
<1>5. CASE type = "WriteCheck"
  <2>1. s[1] = z[1] /\ Fadd(s[1], -1) \in Int
    BY <1>0, <1>5, ChangedOf, FaddInt
  <2> QED  BY Zenon, <1>5, <2>1 DEF NewBalance
<1>6. CASE type = "Balance"
  BY Zenon, <1>6, ChangedOf
<1> QED  BY Zenon, <1>1, <1>2, <1>3, <1>4, <1>5, <1>6 DEF Types

\* A store of FINISH, made under the write lock, keeps the invariant.
LEMMA StoreKeeps ==
  ASSUME BankInv, NEW c \in Clients, Store(c)
  PROVE  BankInv'
<1> USE DEF BankInv
<1> SUFFICES ASSUME NEW t, t = serving[c].txn, NEW p, p = AtPos(c), NEW a, a = RowOf(t, p),
                    NEW v, v = NewBalance(trans[t].type, p, trans[t].seen),
                    NEW h, h = [serving[c] EXCEPT !.first = @ \ {p}]
             PROVE  BankInv'
  BY Zenon
<1>1. /\ serving[c] # Idle /\ serving[c].op = "FINISH" /\ serving[c].first # {} /\ serving' = [serving EXCEPT ![c] = h]
      /\ balance' = [balance EXCEPT ![a] = v]
      /\ UNCHANGED <<readers, writer, trans, serial, overlapped>>
  BY Zenon DEF Store, Access, Advance, AtRow
<1>2. /\ serving[c] \in Handling /\ t \in Txns /\ t[1] = c /\ trans[t] \in Drawn /\ trans[t].at = "FINISH"
      /\ trans[t].type \in Types /\ DoneSoFar(serving[c], trans[t].type)
  BY Zenon, <1>1, AtWorkBank
<1>3. p \in serving[c].first /\ p \in Pos
  BY Zenon, <1>1, <1>2, MinOf DEF AtPos, Handling
<1>4. /\ h \in Handling /\ h.txn = t /\ h.op = "FINISH" /\ h.first = serving[c].first \ {p}
      /\ h.unlock = serving[c].unlock
  BY Zenon, <1>1, <1>2, <1>3 DEF Handling
<1>5. h # Idle /\ serving[c].first \subseteq Changed(trans[t].type) /\ serving[c].unlock = Locked(trans[t].type)
  BY Zenon, <1>1, <1>2, <1>4 DEF DoneSoFar, Idle
<1>6. DoneSoFar(h, trans[t].type)
  BY Zenon, <1>4, <1>5 DEF DoneSoFar
<1>7. HandlerTo(c, h)
  BY Zenon, <1>1, <1>4, <1>6 DEF HandlerTo
<1>8. /\ serving'[c] = h /\ serving' \in [Clients -> {Idle} \cup Handling] /\ ServingFits'
      /\ \A u \in Txns, q \in Pos : u # t => SameHold(u, q)
      /\ \A d \in Clients : d # c => serving'[d] = serving[d]
      /\ \A q : RowOf(t, q)' = RowOf(t, q) /\ KindOf(t, q)' = KindOf(t, q)
      /\ \A q : Holds(t, q)' <=> HoldsAs(h, trans[t], t, q)
      /\ \A q : Holds(t, q) <=> HoldsAs(serving[c], trans[t], t, q)
  <2>1. HandlerDone(c, t, h)
    BY Zenon, <1>7, HandlerStep
  <2> QED  BY Zenon, <2>1 DEF HandlerDone
<1>9. \A q \in Pos : SameHold(t, q)
  <2>1. \A q \in Pos : HoldsAs(h, trans[t], t, q) <=> HoldsAs(serving[c], trans[t], t, q)
    BY Zenon, <1>1, <1>2, <1>4, <1>5 DEF HoldsAs
  <2> QED  BY Zenon, <1>8, <2>1 DEF SameHold
<1>10. LocksExact'
  BY ZenonT(30), <1>1, <1>8, <1>9, LocksKept
<1>11. a \in Rows /\ v \in Int
  <2>1. trans[t].seen \in [Pos -> Int]
    BY Zenon, <1>2 DEF Drawn
  <2> QED  BY ZenonT(30), <1>2, <1>3, <1>5, <2>1, RowInTables, NewBalanceReads
<1>12. \A d \in Clients, q \in Pos : Pending(d, q)' <=> (Pending(d, q) /\ ~(d = c /\ q = p))
  BY Zenon, <1>1, <1>3, <1>4, <1>5, <1>8 DEF Pending
<1>13. \A d \in Clients : serving[d] # Idle => serving'[d].txn = serving[d].txn
  BY Zenon, <1>1, <1>4, <1>8
<1>14. Pending(c, p)
  BY Zenon, <1>1, <1>3 DEF Pending
<1>15. \A d \in Clients, q \in Pos : Pending(d, q) =>
           /\ RowOf(serving[d].txn, q)' = RowOf(serving[d].txn, q)
           /\ PendingRight(d, q)' <=> PendingRight(d, q)
  <2>1. trans' = trans /\ serial' = serial
    BY Zenon, <1>1
  <2>2. \A u, q : RowOf(u, q)' = RowOf(u, q)
    BY Zenon, <2>1 DEF RowOf
  <2> QED  BY Zenon, <1>13, <2>1, <2>2 DEF Pending, PendingRight
<1>16. Settled'
  <2>1. ASSUME ~overlapped, NEW d \in Clients, NEW q \in Pos, Pending(d, q)'
        PROVE  PendingRight(d, q)'
    BY Zenon, <1>12, <1>15, <2>1 DEF Settled
  <2>2. ASSUME ~overlapped, NEW r \in Rows, NonePending(r)'
        PROVE  balance'[r] = serial'[r]
    <3>1. CASE r = a
      <4>1. PendingRight(c, p)
        BY Zenon, <1>3, <1>14, <2>2 DEF Settled
      <4>2. serial[a] = v
        BY Zenon, <4>1 DEF PendingRight
      <4> QED  BY Zenon, <1>1, <1>11, <3>1, <4>2 DEF BankTypes
    <3>2. CASE r # a
      <4>1. NonePending(r)
        <5> SUFFICES ASSUME NEW d \in Clients, NEW q \in Pos, Pending(d, q) PROVE RowOf(serving[d].txn, q) # r
          BY Zenon DEF NonePending
        <5>1. CASE d = c /\ q = p
          BY Zenon, <3>2, <5>1
        <5>2. CASE ~(d = c /\ q = p)
          <6>1. Pending(d, q)'
            BY Zenon, <1>12, <5>2
          <6>2. RowOf(serving[d].txn, q)' # r
            BY Zenon, <2>2, <6>1 DEF NonePending
          <6> QED  BY Zenon, <1>15, <6>2
        <5> QED  BY Zenon, <5>1, <5>2
      <4> QED  BY Zenon, <1>1, <2>2, <3>2, <4>1 DEF Settled, BankTypes
    <3> QED  BY Zenon, <3>1, <3>2
  <2> QED  BY Zenon, <1>1, <2>1, <2>2 DEF Settled
<1>17. BankTypes'
  <2>1. balance' \in [Rows -> Int]
    BY Zenon, <1>1, <1>11 DEF BankTypes
  <2> QED  BY Zenon, <1>1, <1>8, <2>1 DEF BankTypes
<1> QED  BY Zenon, <1>8, <1>10, <1>16, <1>17

\* A pending store holds the write lock of its row.
LEMMA PendingHolds ==
  ASSUME BankInv, NEW c \in Clients, NEW p \in Pos, Pending(c, p)
  PROVE  <<serving[c].txn, p>> \in Holders(RowOf(serving[c].txn, p), "write")
<1> SUFFICES ASSUME NEW t, t = serving[c].txn PROVE <<t, p>> \in Holders(RowOf(t, p), "write")
  BY Zenon
<1>1. serving[c] # Idle /\ serving[c].op = "FINISH" /\ p \in serving[c].first
  BY Zenon DEF Pending
<1>2. /\ t \in Txns /\ t[1] = c /\ trans[t].at = "FINISH"
      /\ trans[t].type \in Types /\ DoneSoFar(serving[c], trans[t].type)
  BY Zenon, <1>1, AtWorkBank DEF BankInv
<1>3. p \in Changed(trans[t].type) /\ p \in Locked(trans[t].type) /\ p \in serving[c].unlock
  BY ZenonT(30), <1>1, <1>2, LockKinds DEF DoneSoFar
<1>4. Holds(t, p)
  BY Zenon, <1>1, <1>2, <1>3 DEF Holds
<1>5. KindOf(t, p) = "write"
  BY Zenon, <1>2, <1>3, LockKinds DEF KindOf
<1> QED  BY Zenon, <1>2, <1>4, <1>5 DEF Holders

\* The transaction applied alone gives what it is about to store, leaves the other
\* rows, and no store still to come is to a row it changes.
FinishApplied(t, type) ==
  /\ \A p \in Changed(type) : ApplySerially(t)[RowOf(t, p)] = NewBalance(type, p, trans[t].seen)
  /\ \A r \in Rows : (\A p \in Changed(type) : RowOf(t, p) # r) => ApplySerially(t)[r] = serial[r]
  /\ \A c \in Clients, q \in Pos, p \in Changed(type) : Pending(c, q) => RowOf(serving[c].txn, q) # RowOf(t, p)

\* finish_handler begins: its balances are those of a serial execution.
LEMMA ServeFinish ==
  ASSUME BankInv, NEW t \in Txns, serving[t[1]] = Idle, trans[t].at = "FINISH", trans[t] \in Drawn,
         NEW type, type = trans[t].type, ~overlapped,
         \A p \in Locked(type) : trans[t].seen[p] = balance[RowOf(t, p)]
  PROVE  FinishApplied(t, type)
<1> USE DEF BankInv
<1> DEFINE s == [p \in Pos |-> serial[RowOf(t, p)]]
<1>1. type \in Types /\ trans[t].seen \in [Pos -> Int] /\ \A p : RowOf(t, p) \in Rows
  BY Zenon, RowInTables DEF Drawn
<1>2. s \in [Pos -> Int]
  BY Zenon, <1>1 DEF BankTypes
<1>3. Changed(type) \subseteq Pos /\ Changed(type) \subseteq Locked(type)
  BY Zenon, <1>1, LockKinds
<1>4. \A p \in Changed(type) : <<t, p>> \in Holders(RowOf(t, p), "write")
  BY ZenonT(30), <1>1, <1>3, LockKinds DEF Holders, Holds, KindOf
<1>5. ASSUME NEW c \in Clients, NEW q \in Pos, NEW p \in Changed(type), Pending(c, q)
      PROVE  RowOf(serving[c].txn, q) # RowOf(t, p)
  <2>1. serving[c].txn # t
    <3>1. serving[c] # Idle
      BY Zenon, <1>5 DEF Pending
    <3>2. serving[c].txn[1] = c
      BY Zenon, <3>1, AtWorkBank
    <3> QED  BY Zenon, <3>1, <3>2
  <2>2. <<serving[c].txn, q>> \in Holders(RowOf(serving[c].txn, q), "write")
    BY Zenon, <1>5, PendingHolds
  <2> SUFFICES ASSUME RowOf(serving[c].txn, q) = RowOf(t, p) PROVE FALSE
    BY Zenon
  <2>3. \A r \in Rows : r = RowOf(t, p) => <<serving[c].txn, q>> = <<t, p>>
    <3> SUFFICES ASSUME NEW r \in Rows, r = RowOf(t, p) PROVE <<serving[c].txn, q>> = <<t, p>>
      BY Zenon
    <3>1. <<serving[c].txn, q>> \in Holders(r, "write") /\ <<t, p>> \in Holders(r, "write")
      BY Zenon, <1>4, <2>2
    <3> QED  BY ZenonT(30), <3>1, OneWriter
  <2> QED  BY Zenon, <1>1, <2>1, <2>3
<1>6. \A p \in Changed(type) : trans[t].seen[p] = s[p]
  <2> SUFFICES ASSUME NEW p \in Changed(type) PROVE trans[t].seen[p] = s[p]
    BY Zenon
  <2>1. NonePending(RowOf(t, p))
    BY Zenon, <1>5 DEF NonePending
  <2>2. balance[RowOf(t, p)] = serial[RowOf(t, p)]
    BY Zenon, <1>1, <2>1 DEF Settled
  <2> QED  BY Zenon, <1>3, <2>2
<1>7. \A p, q \in Changed(type) : RowOf(t, p) = RowOf(t, q) => p = q
  <2> SUFFICES ASSUME NEW p \in Changed(type), NEW q \in Changed(type), RowOf(t, p) = RowOf(t, q) PROVE p = q
    BY Zenon
  <2> SUFFICES ASSUME NEW r \in Rows, r = RowOf(t, p) PROVE p = q
    BY Zenon, <1>1
  <2>0. <<t, p>> \in Holders(r, "write") /\ <<t, q>> \in Holders(r, "write")
    BY Zenon, <1>4
  <2>1. <<t, p>> = <<t, q>>
    BY Zenon, <2>0, OneWriter
  <2> QED  BY Zenon, <2>1
<1> HIDE DEF s
<1>8. ASSUME NEW p \in Changed(type)
      PROVE  NewBalance(type, p, s) = NewBalance(type, p, trans[t].seen)
  BY Zenon, <1>1, <1>2, <1>6, NewBalanceReads
<1>9. ApplySerially(t) = [r \in Rows |-> IF \E p \in Changed(type) : RowOf(t, p) = r
                      THEN NewBalance(type, CHOOSE p \in Changed(type) : RowOf(t, p) = r, s)
                      ELSE serial[r]]
  BY Zenon DEF ApplySerially, s
<1>10. ASSUME NEW p \in Changed(type)
       PROVE  ApplySerially(t)[RowOf(t, p)] = NewBalance(type, p, trans[t].seen)
  <2>1. p = CHOOSE q \in Changed(type) : RowOf(t, q) = RowOf(t, p)
    BY Zenon, <1>7
  <2>2. ApplySerially(t)[RowOf(t, p)] = NewBalance(type, CHOOSE q \in Changed(type) : RowOf(t, q) = RowOf(t, p), s)
    BY Zenon, <1>1, <1>9
  <2> QED  BY Zenon, <1>8, <2>1, <2>2
<1>11. \A r \in Rows : (\A p \in Changed(type) : RowOf(t, p) # r) => ApplySerially(t)[r] = serial[r]
  BY Zenon, <1>9
<1> QED  BY Zenon, <1>5, <1>10, <1>11 DEF FinishApplied

\* ApplySerially keeps the balances integers.
LEMMA SeriallyTyped ==
  ASSUME BankTypes, NEW t \in Txns, trans[t] \in Drawn
  PROVE  ApplySerially(t) \in [Rows -> Int]
<1> DEFINE s == [p \in Pos |-> serial[RowOf(t, p)]]
<1> DEFINE type == trans[t].type
<1>1. type \in Types /\ \A p : RowOf(t, p) \in Rows
  BY Zenon, RowInTables DEF Drawn
<1>2. s \in [Pos -> Int]
  BY Zenon, <1>1 DEF BankTypes
<1>3. ApplySerially(t) = [r \in Rows |-> IF \E p \in Changed(type) : RowOf(t, p) = r
                      THEN NewBalance(type, CHOOSE p \in Changed(type) : RowOf(t, p) = r, s)
                      ELSE serial[r]]
  BY Zenon DEF ApplySerially
<1> HIDE DEF s, type
<1>4. ASSUME NEW r \in Rows
      PROVE  (IF \E p \in Changed(type) : RowOf(t, p) = r
                      THEN NewBalance(type, CHOOSE p \in Changed(type) : RowOf(t, p) = r, s)
                      ELSE serial[r]) \in Int
  <2>1. CASE \E p \in Changed(type) : RowOf(t, p) = r
    <3> DEFINE q == CHOOSE p \in Changed(type) : RowOf(t, p) = r
    <3>1. q \in Changed(type)
      BY Zenon, <2>1
    <3> HIDE DEF q
    <3>2. NewBalance(type, q, s) \in Int
      BY Zenon, <1>1, <1>2, <3>1, NewBalanceReads
    <3> QED  BY Zenon, <2>1, <3>2 DEF q
  <2>2. CASE ~\E p \in Changed(type) : RowOf(t, p) = r
    BY Zenon, <2>2 DEF BankTypes
  <2> QED  BY Zenon, <2>1, <2>2
<1> QED  BY Zenon, <1>3, <1>4

\* A server thread that takes up FINISH keeps the invariant: what it will store
\* is decided, and no other thread is to store into those rows.
LEMMA ServeKeepsBank ==
  ASSUME BankInv, NEW t \in Txns, Serve(t)
  PROVE  BankInv'
<1> USE DEF BankInv
<1>1. /\ trans' = trans /\ LocksExact' /\ ServingFits' /\ serving' \in [Clients -> {Idle} \cup Handling]
      /\ serving[t[1]] = Idle /\ trans[t] \in Drawn /\ serving'[t[1]].op = trans[t].at /\ serving'[t[1]].txn = t
      /\ serving'[t[1]] # Idle
      /\ trans[t].at = "FINISH" => serving'[t[1]].first = Changed(trans[t].type)
      /\ \A d \in Clients : d # t[1] => serving'[d] = serving[d]
      /\ UNCHANGED <<readers, writer, balance>>
  BY Zenon, ServeKeeps
<1>11. /\ trans' = trans /\ balance' = balance /\ serving'[t[1]].txn = t /\ serving[t[1]] = Idle
       /\ \A d \in Clients : d # t[1] => serving'[d] = serving[d]
  BY <1>1, Zenon
<1>12. serving'[t[1]].op = trans[t].at /\ serving'[t[1]] # Idle
       /\ (trans[t].at = "FINISH" => serving'[t[1]].first = Changed(trans[t].type))
  BY <1>1, Zenon
<1>2. CASE trans[t].at # "FINISH"
  <2>1. UNCHANGED <<serial, overlapped>>
    BY Zenon, <1>2 DEF Serve
  <2>2. \A d \in Clients, q \in Pos :
           /\ Pending(d, q)' <=> Pending(d, q)
           /\ Pending(d, q) => /\ serving'[d].txn = serving[d].txn
                              /\ trans'[serving[d].txn] = trans[serving[d].txn]
    BY Zenon, <1>11, <1>12, <1>2 DEF Pending
  <2>3. Settled'
    <3>1. Settled /\ UNCHANGED <<balance, serial, overlapped>>
      BY <1>11, <2>1, Zenon
    <3> QED  BY <2>2, <3>1, SettledKept, Zenon
  <2>4. BankTypes'
    BY Zenon, <1>1, <2>1 DEF BankTypes
  <2> QED  BY Zenon, <1>1, <2>3, <2>4
<1>3. CASE trans[t].at = "FINISH"
  <2> SUFFICES ASSUME NEW type, type = trans[t].type
               PROVE  BankInv'
    BY Zenon
  <2>1. /\ serial' = ApplySerially(t)
        /\ overlapped' = (overlapped \/ \E p \in Locked(type) : trans[t].seen[p] # balance[RowOf(t, p)])
    BY Zenon, <1>3 DEF Serve
  <2>2. BankTypes'
    <3>1. serial' \in [Rows -> Int]
      BY Zenon, <1>1, <2>1, SeriallyTyped
    <3>2. overlapped' \in BOOLEAN
      BY Zenon, <2>1 DEF BankTypes
    <3> QED  BY Zenon, <1>1, <3>1, <3>2 DEF BankTypes
  <2>3. Settled'
    <3> SUFFICES ASSUME ~overlapped' PROVE Settled'
      BY Zenon DEF Settled
    <3>1. ~overlapped /\ \A p \in Locked(type) : trans[t].seen[p] = balance[RowOf(t, p)]
      BY Zenon, <2>1
    <3>2. /\ \A p \in Changed(type) : serial'[RowOf(t, p)] = NewBalance(type, p, trans[t].seen)
          /\ \A r \in Rows : (\A p \in Changed(type) : RowOf(t, p) # r) => serial'[r] = serial[r]
          /\ \A c \in Clients, q \in Pos, p \in Changed(type) : Pending(c, q) => RowOf(serving[c].txn, q) # RowOf(t, p)
      <4>1. serving[t[1]] = Idle /\ trans[t] \in Drawn
        BY <1>1, Zenon
      <4>2. FinishApplied(t, type)
        BY Zenon, <1>3, <3>1, <4>1, ServeFinish
      <4> QED  BY Zenon, <2>1, <4>2 DEF FinishApplied
    <3>3. Changed(type) \subseteq Pos /\ t[1] \in Clients
      BY Zenon, <1>1, LockKinds DEF Drawn, Txns
    <3>4. \A q \in Pos : Pending(t[1], q)' <=> q \in Changed(type)
      BY Zenon, <1>12, <1>3 DEF Pending
    <3>5. \A d \in Clients, q \in Pos : d # t[1] => (Pending(d, q)' <=> Pending(d, q))
      BY Zenon, <1>11 DEF Pending
    <3>6. \A d \in Clients : \A q : d # t[1] => RowOf(serving[d].txn, q)' = RowOf(serving[d].txn, q)
      BY Zenon, <1>11 DEF RowOf
    <3>7. \A q : RowOf(serving[t[1]].txn, q)' = RowOf(t, q)
      BY Zenon, <1>11 DEF RowOf
    <3>8. ASSUME NEW d \in Clients, NEW q \in Pos, Pending(d, q)' PROVE PendingRight(d, q)'
      <4>1. CASE d = t[1]
        <5>1. serial'[RowOf(serving[d].txn, q)'] = NewBalance(type, q, trans[t].seen)
          BY Zenon, <3>2, <3>4, <3>7, <3>8, <4>1
        <5>2. trans'[serving'[d].txn] = trans[t]
          BY <1>11, <4>1, Zenon
        <5> QED  BY <5>1, <5>2, Zenon DEF PendingRight
      <4>2. CASE d # t[1]
        <5>0. Pending(d, q)
          BY <3>5, <3>8, <4>2, Zenon
        <5>1. PendingRight(d, q) /\ serving[d] # Idle
          <6>1. Settled
            BY Zenon
          <6> QED  BY <3>1, <5>0, <6>1, Zenon DEF Settled, Pending
        <5>2. RowOf(serving[d].txn, q) \in Rows
          BY <5>1, AtWorkBank, RowInTables, Zenon
        <5>3. serial'[RowOf(serving[d].txn, q)] = serial[RowOf(serving[d].txn, q)]
          BY <3>2, <5>0, <5>2, Zenon
        <5>4. serial'[RowOf(serving[d].txn, q)'] = serial[RowOf(serving[d].txn, q)]
          BY <3>6, <4>2, <5>3, Zenon
        <5>5. serving'[d] = serving[d]
          BY <1>11, <4>2, Zenon
        <5> QED  BY <1>11, <5>1, <5>4, <5>5, Zenon DEF PendingRight
      <4> QED  BY <4>1, <4>2, Zenon
    <3>9. ASSUME NEW r \in Rows, NonePending(r)' PROVE balance'[r] = serial'[r]
      <4>1. \A p \in Changed(type) : RowOf(t, p) # r
        BY Zenon, <3>3, <3>4, <3>7, <3>9 DEF NonePending
      <4>2. NonePending(r)
        <5> SUFFICES ASSUME NEW d \in Clients, NEW q \in Pos, Pending(d, q) PROVE RowOf(serving[d].txn, q) # r
          BY Zenon DEF NonePending
        <5>1. d # t[1]
          BY Zenon, <1>11 DEF Pending, Idle
        <5>2. Pending(d, q)'
          BY Zenon, <3>5, <5>1
        <5>3. RowOf(serving[d].txn, q)' # r
          BY Zenon, <3>9, <5>2 DEF NonePending
        <5> QED  BY Zenon, <3>6, <5>1, <5>3
      <4>3. serial'[r] = serial[r]
        BY <3>2, <4>1, Zenon
      <4>4. balance[r] = serial[r]
        <5>1. Settled
          BY Zenon
        <5> QED  BY <3>1, <4>2, <5>1, Zenon DEF Settled
      <4> QED  BY <1>11, <4>3, <4>4, Zenon
    <3> QED  BY Zenon, <3>8, <3>9 DEF Settled
  <2> QED  BY Zenon, <1>1, <2>2, <2>3
<1> QED  BY Zenon, <1>2, <1>3

\* Every step of the bank keeps the invariant.
LEMMA BankKeeps == BankInv /\ [BankNext]_bankVars => BankInv'
<1> SUFFICES ASSUME BankInv, [BankNext]_bankVars PROVE BankInv'
  BY Zenon
<1>1. ASSUME NEW t \in Txns, ClientStep(t) PROVE BankInv'
  BY Zenon, <1>1, ClientKeepsBank
<1>2. ASSUME NEW t \in Txns, Serve(t) PROVE BankInv'
  BY Zenon, <1>2, ServeKeepsBank
<1>3. ASSUME NEW c \in Clients, ServerStep(c) PROVE BankInv'
  BY Zenon, <1>3, LoadKeeps, TestWriterKeeps, AddReaderKeeps, TakeWriterKeeps, StoreKeeps, UnlockKeeps, RespondKeeps
     DEF ServerStep
<1>4. ASSUME NEW c \in Clients, Quit(c) PROVE BankInv'
  BY Zenon, <1>4, QuitKeeps
<1>5. CASE UNCHANGED bankVars
  <2>1. \A u \in Txns, p \in Pos : SameHold(u, p)
    BY <1>5 DEF bankVars, SameHold, Holds, RowOf, KindOf
  <2>2. LocksExact'
    BY Zenon, <1>5, <2>1, LocksKept DEF bankVars, BankInv
  <2>3. Settled'
    BY Zenon, <1>5, SettledKept DEF bankVars, BankInv, Pending
  <2>4. BankTypes' /\ ServingFits'
    BY Zenon, <1>5 DEF bankVars, BankInv, BankTypes, ServingFits
  <2> QED  BY Zenon, <2>2, <2>3, <2>4 DEF BankInv
<1> QED  BY Zenon, <1>1, <1>2, <1>3, <1>4, <1>5 DEF BankNext

\* The invariant of the host bank holds in every behaviour.
LEMMA BankInvariant == BankSpec => []BankInv
BY BankStarts, BankKeeps, PTL DEF BankSpec

\* Every reader-writer word of the host bank counts exactly the transactions
\* that hold it, for any number of client threads, slots and accounts.
THEOREM BankLocksExact == BankSpec => []LocksExact
<1>1. BankInv => LocksExact
  BY Zenon DEF BankInv
<1> QED  BY <1>1, BankInvariant, PTL

\* finish_handler stores only into rows whose write lock its transaction,
\* and nobody else, holds.
THEOREM BankStoresUnderLock == BankSpec => StoresUnderLock
<1> DEFINE Guarded == \A r \in Rows : balance'[r] # balance[r] =>
                         \E c \in Clients : /\ Access(c, "FINISH") /\ AtRow(c) = r
                                            /\ Holders(r, "write") = {<<serving[c].txn, AtPos(c)>>}
<1>1. BankInv /\ [BankNext]_bankVars => [Guarded]_bankVars
  <2> SUFFICES ASSUME BankInv, BankNext, NEW r \in Rows, balance'[r] # balance[r]
               PROVE  \E c \in Clients : /\ Access(c, "FINISH") /\ AtRow(c) = r
                                         /\ Holders(r, "write") = {<<serving[c].txn, AtPos(c)>>}
    BY Zenon
  <2>1. PICK c \in Clients : Store(c)
    BY Zenon DEF BankNext, ClientStep, StartTransaction, RequestLocks, RequestFinish, Serve, Quit, ServerStep, Load,
           TestWriter, AddReader, TakeWriter, Unlock, Respond
  <2>2. Access(c, "FINISH") /\ AtRow(c) = r
    <3>1. \A v : balance' = [balance EXCEPT ![AtRow(c)] = v] => AtRow(c) = r
      BY Zenon DEF BankInv, BankTypes
    <3> QED  BY Zenon, <2>1, <3>1 DEF Store
  <2>3. Pending(c, AtPos(c)) /\ AtPos(c) \in Pos
    <3>1. serving[c] # Idle /\ serving[c].op = "FINISH" /\ serving[c].first # {}
      BY Zenon, <2>2 DEF Access
    <3>2. serving[c].first \subseteq Pos
      BY Zenon, <3>1, AtWorkBank DEF BankInv, Handling
    <3> QED  BY Zenon, <3>1, <3>2, MinOf DEF Pending, AtPos
  <2>4. <<serving[c].txn, AtPos(c)>> \in Holders(r, "write")
    BY Zenon, <2>2, <2>3, PendingHolds DEF AtRow
  <2>5. Holders(r, "write") = {<<serving[c].txn, AtPos(c)>>}
    BY ZenonT(30), <2>4, OneWriter DEF BankInv
  <2> QED  BY Zenon, <2>2, <2>5
<1> QED  BY <1>1, BankInvariant, PTL DEF BankSpec, StoresUnderLock

\* As long as no FINISH used balances that changed since its GET_DATA, the
\* tables hold what a serial execution of the same transactions leaves.
THEOREM BankSerial == BankSpec => []SerialUnlessOverlapped
<1>1. BankInv => SerialUnlessOverlapped
  <2> SUFFICES ASSUME BankInv, ~overlapped, \A c \in Clients : serving[c] # Idle => serving[c].op # "FINISH"
               PROVE  balance = serial
    BY Zenon DEF SerialUnlessOverlapped
  <2>1. \A r \in Rows : NonePending(r)
    BY Zenon DEF NonePending, Pending
  <2>2. \A r \in Rows : balance[r] = serial[r]
    BY Zenon, <2>1 DEF BankInv, Settled
  <2> QED  BY <2>2 DEF BankInv, BankTypes
<1> QED  BY <1>1, BankInvariant, PTL
============================================================================
