--------------------------- MODULE DpaRing_proofs ---------------------------
(***************************************************************************)
(* Proofs about DpaRing, for every ring depth, counter width that is a     *)
(* multiple of it, set of frames and bound; and that the rings implement   *)
(* the FIFO reflector while at most Depth packets are between the NIC's    *)
(* two sides.  The code takes no send completion before it reuses a send   *)
(* entry or reposts a receive buffer: that bound is what makes the reuse   *)
(* safe.                                                                   *)
(***************************************************************************)
EXTENDS DpaRing, TLAPS

----------------------------------------------------------------------------
(* Ring indices: a counter taken modulo a ring size *)

\* Division with remainder.
LEMMA DivModExists ==
  ASSUME NEW n \in Nat \ {0}, NEW a \in Int
  PROVE  /\ a = n * (a \div n) + (a % n)
         /\ a \div n \in Int
         /\ a % n \in 0..(n - 1)
  OBVIOUS

\* A quotient and a remainder in range are the ones \div and % give.
LEMMA DivModUnique ==
  ASSUME NEW n \in Nat \ {0}, NEW q \in Int, NEW r \in 0..(n - 1)
  PROVE  /\ (n * q + r) % n = r
         /\ (n * q + r) \div n = q
  OBVIOUS

\* A counter that wraps at a multiple of the ring size still gives the slot.
LEMMA ModMod ==
  ASSUME NEW n \in Nat \ {0}, NEW k \in Nat \ {0}, NEW a \in Int
  PROVE  (a % (n * k)) % n = a % n
<1> DEFINE m == n * k
           q == a \div m
           b == a % m
           p == b \div n
           r == b % n
<1>1. m \in Nat \ {0}
  OBVIOUS
<1>2. a = m * q + b /\ q \in Int /\ b \in 0..(m - 1)
  BY Zenon, <1>1, DivModExists
<1>3. b = n * p + r /\ p \in Int /\ r \in 0..(n - 1)
  BY <1>2, DivModExists
<1> HIDE DEF q, b, p, r
<1>4. a = n * (k * q + p) + r
  BY <1>2, <1>3
<1>5. k * q + p \in Int
  BY <1>2, <1>3
<1>6. a % n = r
  BY Zenon, <1>3, <1>4, <1>5, DivModUnique
<1>7. QED
  BY Zenon, <1>6 DEF r, b

\* One step of a wrapped counter is one step of the counter.
LEMMA ModNext ==
  ASSUME NEW n \in Nat \ {0}, NEW a \in Int
  PROVE  ((a % n) + 1) % n = (a + 1) % n
<1> DEFINE q == a \div n
           r == a % n
<1>1. a = n * q + r /\ q \in Int /\ r \in 0..(n - 1)
  BY Zenon, DivModExists
<1> HIDE DEF q, r
<1>2. CASE r + 1 < n
  <2>1. a + 1 = n * q + (r + 1) /\ r + 1 \in 0..(n - 1) /\ r + 1 = n * 0 + (r + 1)
    BY <1>1, <1>2
  <2>2. (a + 1) % n = r + 1 /\ (r + 1) % n = r + 1
    BY SMTT(30), <2>1, <1>1, DivModUnique
  <2>3. QED
    BY Zenon, <2>2 DEF r
<1>3. CASE r + 1 = n
  <2>1. a + 1 = n * (q + 1) + 0 /\ r + 1 = n * 1 + 0 /\ q + 1 \in Int /\ 0 \in 0..(n - 1)
    BY <1>1, <1>3
  <2>2. (a + 1) % n = 0
    BY Zenon, <2>1, DivModUnique
  <2>3. (n * 1 + 0) % n = 0
    BY <2>1, DivModUnique
  <2>4. QED
    BY Zenon, <2>1, <2>2, <2>3, <1>1 DEF r
<1>4. QED
  BY <1>1, <1>2, <1>3

\* A window no longer than the ring never maps two counters to one slot.
LEMMA ModDistinct ==
  ASSUME NEW n \in Nat \ {0}, NEW a \in Int, NEW b \in Int, a < b, b < a + n
  PROVE  a % n # b % n
<1> SUFFICES ASSUME a % n = b % n PROVE FALSE
  BY Zenon
<1> DEFINE p == a \div n
           q == b \div n
           r == a % n
<1>1. a = n * p + r /\ b = n * q + r /\ p \in Int /\ q \in Int /\ r \in 0..(n - 1)
  BY Zenon, DivModExists
<1> HIDE DEF p, q, r
<1>2. b - a = n * (q - p) /\ 0 < b - a /\ b - a < n
  BY <1>1
<1>3. CASE q - p <= 0
  BY <1>1, <1>2, <1>3
<1>4. CASE q - p >= 1
  BY <1>1, <1>2, <1>4
<1>5. QED
  BY <1>1, <1>3, <1>4

\* A whole pass over the ring comes back to the same slot, one pass later.
LEMMA ModPeriod ==
  ASSUME NEW n \in Nat \ {0}, NEW a \in Int
  PROVE  (a + n) % n = a % n /\ (a + n) \div n = (a \div n) + 1
  BY SMTT(30)

\* The pass number changes exactly when the slot comes back to 0.
LEMMA DivNext ==
  ASSUME NEW n \in Nat \ {0}, NEW a \in Int
  PROVE  (a + 1) \div n = IF (a + 1) % n = 0 THEN (a \div n) + 1 ELSE a \div n
<1> DEFINE q == a \div n
           r == a % n
<1>1. a = n * q + r /\ q \in Int /\ r \in 0..(n - 1)
  BY Zenon, DivModExists
<1> HIDE DEF q, r
<1>2. CASE r + 1 < n
  <2>1. a + 1 = n * q + (r + 1) /\ r + 1 \in 0..(n - 1)
    BY <1>1, <1>2
  <2>2. (a + 1) % n = r + 1 /\ (a + 1) \div n = q
    BY <2>1, <1>1, DivModUnique
  <2>3. QED
    BY <2>2, <1>1 DEF q
<1>3. CASE r + 1 = n
  <2>1. a + 1 = n * (q + 1) + 0 /\ q + 1 \in Int /\ 0 \in 0..(n - 1)
    BY <1>1, <1>3
  <2>2. (a + 1) % n = 0 /\ (a + 1) \div n = q + 1
    BY Zenon, <2>1, DivModUnique
  <2>3. QED
    BY Zenon, <2>2 DEF q
<1>4. QED
  BY <1>1, <1>2, <1>3

----------------------------------------------------------------------------
\* One when the handler is in one of the steps S, else zero.
At(S) == IF pc \in S THEN 1 ELSE 0

\* The host's program order, and the handler off until the host runs it.
OrderInv ==
  /\ host = "init" => pc = "off" /\ ~is_initalized
  /\ host # "init" => is_initalized
  /\ host # "up" => pc = "off"
  /\ pc \notin HandlerSteps \cup {"poll"} => rd_n = 0
  /\ host \in {"init", "rule"} => rx_n = 0

\* The wrapped counters stand for the packet counts.
CounterInv ==
  /\ cq_idx = rd_n % CtrMod
  /\ host # "init" => cq_hw_owner_bit = 1 - Epoch(rd_n)
  /\ rq_dbr = (rd_n + Depth + At({"step_cq"})) % WqeMod

\* The NIC is ahead of the handler by at most the posted receive entries.
WindowInv ==
  /\ rd_n + At(HandlerSteps) <= rx_n
  /\ rx_n <= rd_n + Depth + At({"step_cq"})

\* Each CQE is the latest completion of its slot, the buffer likewise.
CqeInv ==
  \A s \in Slots :
    /\ Slot(cqe[s].n) = s
    /\ cqe[s].owner = Epoch(cqe[s].n)
    /\ rx_n - Depth <= cqe[s].n /\ cqe[s].n < rx_n
    /\ cqe[s].n >= 0 => /\ cqe[s].wqe_counter = cqe[s].n % WqeMod
                        /\ rxbuf[s] \in Packets
                        /\ rxbuf[s].id = cqe[s].n
                        /\ rxbuf[s].orig.len = cqe[s].len

\* The handler's locals name the buffer of the packet whose turn it is.
LocalInv ==
  pc \in {"prepare", "writeback", "ring", "step_rq"} =>
    /\ cur.buf = Slot(rd_n)
    /\ cur.len = cqe[Slot(rd_n)].len

\* Stores are pending only between being made and the writeback.
PendingInv ==
  /\ "hdr" \in wb => pc \in {"prepare", "writeback"}
  /\ "sqe" \in wb => pc = "writeback"

RingInv ==
  /\ TypeOK /\ OrderInv /\ CounterInv /\ WindowInv /\ CqeInv /\ LocalInv /\ PendingInv
----------------------------------------------------------------------------
(* Ring indices *)

\* The counters wrap at a multiple of the ring depth and of the WQE counters.
LEMMA CtrModFacts ==
  /\ \E k \in Nat \ {0} : CtrMod = Depth * k
  /\ \E k \in Nat \ {0} : CtrMod = WqeMod * k
  /\ CtrMod \in Nat \ {0}
<1>1. PICK j \in 2..WqeMod : WqeMod = Depth * j
  BY Zenon, WqeModAssumption
<1>2. PICK k \in 1..CtrMod : CtrMod = 4 * (WqeMod * k)
  BY Zenon, CtrModAssumption
<1>3. WqeMod \in Nat \ {0} /\ CtrMod \in Nat /\ j \in Nat \ {0} /\ k \in Nat \ {0}
  BY <1>1, <1>2, WqeModAssumption, CtrModAssumption, DepthAssumption
<1>4. CtrMod = WqeMod * (4 * k) /\ 4 * k \in Nat \ {0}
  BY <1>2, <1>3
<1>5. CtrMod = Depth * (j * (4 * k)) /\ j * (4 * k) \in Nat \ {0}
  BY <1>1, <1>3, <1>4, DepthAssumption
<1>6. CtrMod # 0
  BY <1>3, <1>4
<1>7. QED
  BY Zenon, <1>3, <1>4, <1>5, <1>6

\* The WQE counters wrap at a multiple of the depth greater than the depth.
LEMMA WqeModFacts ==
  /\ \E k \in Nat \ {0} : WqeMod = Depth * k
  /\ WqeMod \in Nat /\ WqeMod > Depth
<1>1. PICK k \in 2..WqeMod : WqeMod = Depth * k
  BY Zenon, WqeModAssumption
<1>2. k \in Nat \ {0} /\ Depth * k >= Depth * 2
  BY <1>1, DepthAssumption, WqeModAssumption
<1>3. QED
  BY <1>1, <1>2, DepthAssumption, WqeModAssumption

\* A wrapped counter is in range, and steps like the counter.
LEMMA WrapFacts ==
  ASSUME NEW i \in Int
  PROVE  /\ i % CtrMod \in 0..(CtrMod - 1)
         /\ i % WqeMod \in 0..(WqeMod - 1)
         /\ ((i % CtrMod) + 1) % CtrMod = (i + 1) % CtrMod
         /\ ((i % WqeMod) + 1) % WqeMod = (i + 1) % WqeMod
<1>1. CtrMod \in Nat \ {0}
  BY Zenon, CtrModFacts
<1>2. WqeMod \in Nat \ {0}
  BY WqeModFacts, DepthAssumption
<1>3. QED
  BY Zenon, <1>1, <1>2, DivModExists, ModNext

\* Counters start at zero in every width.
LEMMA WrapZero == 0 % CtrMod = 0 /\ 0 % WqeMod = 0
<1>1. CtrMod \in Nat \ {0} /\ WqeMod \in Nat \ {0}
  BY CtrModFacts, WqeModFacts, DepthAssumption
<1>2. CtrMod * 0 + 0 = 0 /\ WqeMod * 0 + 0 = 0 /\ 0 \in 0..(CtrMod - 1) /\ 0 \in 0..(WqeMod - 1)
  BY <1>1
<1>3. (CtrMod * 0 + 0) % CtrMod = 0
  BY <1>1, <1>2, DivModUnique
<1>4. (WqeMod * 0 + 0) % WqeMod = 0
  BY <1>1, <1>2, DivModUnique
<1>5. QED
  BY Zenon, <1>2, <1>3, <1>4

\* Slots and epochs of an index, and of the index after it.
LEMMA SlotFacts ==
  ASSUME NEW i \in Int
  PROVE  /\ Slot(i) \in Slots
         /\ Epoch(i) \in {0, 1}
         /\ Epoch(i + 1) = IF Slot(i + 1) = 0 THEN 1 - Epoch(i) ELSE Epoch(i)
         /\ Slot(i - Depth) = Slot(i)
         /\ Epoch(i - Depth) = 1 - Epoch(i)
<1>1. Slot(i) \in Slots
  BY Zenon, DepthAssumption, DivModExists DEF Slot, Slots
<1>2. i \div Depth \in Int
  BY Zenon, DepthAssumption, DivModExists
<1>3. (i + 1) \div Depth = IF (i + 1) % Depth = 0 THEN (i \div Depth) + 1 ELSE i \div Depth
  BY Zenon, DepthAssumption, DivNext
<1>4. /\ (i - Depth + Depth) % Depth = (i - Depth) % Depth
      /\ (i - Depth + Depth) \div Depth = ((i - Depth) \div Depth) + 1
      /\ (i - Depth) \div Depth \in Int
  <2>1. i - Depth \in Int
    BY DepthAssumption
  <2>2. QED
    BY Zenon, <2>1, DepthAssumption, DivModExists, ModPeriod
<1>5. i - Depth + Depth = i
  BY DepthAssumption
<1>6. \A e \in Int : e % 2 \in {0, 1} /\ (e + 1) % 2 = 1 - (e % 2)
  OBVIOUS
<1>7. Epoch(i) \in {0, 1}
  BY Zenon, <1>2, <1>6 DEF Epoch
<1>8. Epoch(i + 1) = IF Slot(i + 1) = 0 THEN 1 - Epoch(i) ELSE Epoch(i)
  BY Zenon, <1>2, <1>3, <1>6 DEF Epoch, Slot
<1>9. Slot(i - Depth) = Slot(i)
  BY Zenon, <1>4, <1>5 DEF Slot
<1>10. Epoch(i) = 1 - Epoch(i - Depth)
  BY Zenon, <1>4, <1>5, <1>6 DEF Epoch
<1>11. Epoch(i - Depth) \in {0, 1}
  BY Zenon, <1>4, <1>6 DEF Epoch
<1>12. QED
  BY <1>1, <1>7, <1>8, <1>9, <1>10, <1>11

\* Two indices less than a ring apart are in different slots.
LEMMA SlotDistinct ==
  ASSUME NEW i \in Int, NEW j \in Int, i < j, j < i + Depth
  PROVE  Slot(i) # Slot(j)
  BY Zenon, DepthAssumption, ModDistinct DEF Slot

\* Masking a wrapped counter gives the slot of the counter.
LEMMA SlotOfWrapped ==
  ASSUME NEW i \in Int
  PROVE  Slot(i % CtrMod) = Slot(i) /\ Slot(i % WqeMod) = Slot(i)
<1>1. PICK k \in Nat \ {0} : CtrMod = Depth * k
  BY Zenon, CtrModFacts
<1>2. PICK j \in Nat \ {0} : WqeMod = Depth * j
  BY Zenon, WqeModFacts
<1>3. (i % (Depth * k)) % Depth = i % Depth /\ (i % (Depth * j)) % Depth = i % Depth
  BY Zenon, DepthAssumption, ModMod
<1>4. QED
  BY Zenon, <1>1, <1>2, <1>3 DEF Slot

\* The only completion of a slot in a window of Depth is the one asked for.
LEMMA SlotUnique ==
  ASSUME NEW i \in Int, NEW j \in Int, NEW lo \in Int, Slot(i) = Slot(j),
         lo <= i, i < lo + Depth, lo <= j, j < lo + Depth
  PROVE  i = j
<1>1. CASE i < j
  BY <1>1, SlotDistinct, DepthAssumption
<1>2. CASE j < i
  BY <1>2, SlotDistinct, DepthAssumption
<1>3. QED
  BY <1>1, <1>2
----------------------------------------------------------------------------
(* The handler's view of the completion queue *)

\* The first entry is entry 0 of epoch 0.
LEMMA EpochZero == Slot(0) = 0 /\ Epoch(0) = 0
<1>1. Depth * 0 + 0 = 0 /\ 0 \in 0..(Depth - 1)
  BY DepthAssumption
<1>2. 0 % Depth = 0 /\ 0 \div Depth = 0
  BY <1>1, DepthAssumption, DivModUnique
<1>3. QED
  BY <1>2 DEF Slot, Epoch

\* The CQE the handler looks at is that of its packet, once there is one.
LEMMA CurrentCqe ==
  ASSUME RingInv, rd_n < rx_n, pc # "step_cq"
  PROVE  /\ Slot(cq_idx) = Slot(rd_n)
         /\ Slot(rd_n) \in Slots
         /\ cqe[Slot(rd_n)].n = rd_n
         /\ cqe[Slot(rd_n)].wqe_counter = rd_n % WqeMod
         /\ rxbuf[Slot(rd_n)] \in Packets
         /\ rxbuf[Slot(rd_n)].id = rd_n
         /\ rxbuf[Slot(rd_n)].orig.len = cqe[Slot(rd_n)].len
<1>1. rd_n \in Int /\ rx_n \in Int /\ Depth \in Int /\ rd_n >= 0
  BY DepthAssumption DEF RingInv, TypeOK
<1>2. Slot(cq_idx) = Slot(rd_n) /\ Slot(rd_n) \in Slots
  BY Zenon, <1>1, SlotOfWrapped, SlotFacts DEF RingInv, CounterInv
<1>3. rx_n <= rd_n + Depth
  BY <1>1 DEF RingInv, WindowInv, At
<1> DEFINE n == cqe[Slot(rd_n)].n
<1>4. n \in Int /\ Slot(n) = Slot(rd_n) /\ rx_n - Depth <= n /\ n < rx_n
  BY Zenon, <1>2 DEF RingInv, TypeOK, CqeInv
<1> HIDE DEF n
<1>5. n = rd_n
  <2>1. rx_n - Depth \in Int /\ rx_n - Depth <= rd_n /\ rd_n < rx_n - Depth + Depth
        /\ n < rx_n - Depth + Depth
    BY <1>1, <1>3, <1>4
  <2>2. QED
    BY Zenon, <1>1, <1>4, <2>1, SlotUnique
<1>6. QED
  BY Zenon, <1>1, <1>2, <1>5 DEF n, RingInv, CqeInv

\* The owner-bit test tells the handler exactly whether a packet waits.
LEMMA PollExactInv == RingInv => PollExact
<1> SUFFICES ASSUME RingInv, pc = "poll" PROVE CqeReady <=> rd_n < rx_n
  BY Zenon DEF PollExact
<1>1. rd_n \in Int /\ rx_n \in Int /\ rd_n <= rx_n /\ Depth \in Nat \ {0}
  BY DepthAssumption DEF RingInv, TypeOK, WindowInv, At, HandlerSteps
<1>2. host # "init"
  BY Zenon DEF RingInv, OrderInv
<1>3. cq_hw_owner_bit = 1 - Epoch(rd_n) /\ Epoch(rd_n) \in {0, 1}
  BY Zenon, <1>1, <1>2, SlotFacts DEF RingInv, CounterInv
<1>4. CASE rd_n < rx_n
  BY <1>3, <1>4, CurrentCqe DEF CqeReady, RingInv, CqeInv
<1>5. CASE rd_n = rx_n
  <2>1. Slot(cq_idx) = Slot(rd_n) /\ Slot(rd_n) \in Slots
    BY Zenon, <1>1, SlotOfWrapped, SlotFacts DEF RingInv, CounterInv
  <2> DEFINE n == cqe[Slot(rd_n)].n
  <2>2. n \in Int /\ Slot(n) = Slot(rd_n) /\ rx_n - Depth <= n /\ n < rx_n
        /\ cqe[Slot(rd_n)].owner = Epoch(n)
    BY Zenon, <2>1 DEF RingInv, TypeOK, CqeInv
  <2> HIDE DEF n
  <2>3. rd_n - Depth \in Int /\ Slot(rd_n - Depth) = Slot(rd_n)
        /\ Epoch(rd_n - Depth) = 1 - Epoch(rd_n)
    BY <1>1, SlotFacts
  <2>4. n = rd_n - Depth
    <3>1. rd_n - Depth <= n /\ n < rd_n - Depth + Depth
          /\ rd_n - Depth < rd_n - Depth + Depth
      BY <1>1, <1>5, <2>2
    <3>2. QED
      BY <2>2, <2>3, <3>1, SlotUnique
  <2>5. QED
    <3>1. cqe[Slot(cq_idx)].owner = 1 - Epoch(rd_n)
      BY Zenon, <2>1, <2>2, <2>3, <2>4
    <3>2. QED
      BY <1>1, <1>3, <1>5, <3>1 DEF CqeReady
<1>6. QED
  BY <1>1, <1>4, <1>5
----------------------------------------------------------------------------
(* RingInv is inductive *)

\* The two overlapping stores do what the rewrite is for.
LEMMA SwapMacReflects ==
  ASSUME NEW h \in Hdr
  PROVE  SwapMac(h) = Reflected(h) /\ SwapMac(h) \in Hdr
  BY IPv4Assumption DEF Hdr, HdrLen, SwapMac, Store8, Load8, WithEthertype, Reflected

\* The initialised rings satisfy the invariant.
LEMMA RingInvInit == Init => RingInv
<1> SUFFICES ASSUME Init PROVE RingInv
  BY Zenon
<1> USE DepthAssumption
<1>1. 0 \in 0..(CtrMod - 1) /\ 0 \in 0..(WqeMod - 1) /\ 0 \in Slots
  BY CtrModFacts, WqeModFacts DEF Slots
<1>2. Depth % WqeMod \in 0..(WqeMod - 1) /\ 0 % CtrMod = 0
  BY WrapFacts, WrapZero
<1>3. \A s \in Slots : /\ s - Depth \in Int
                       /\ Slot(s - Depth) = s
                       /\ Epoch(s - Depth) = 1
  <2> SUFFICES ASSUME NEW s \in Slots
               PROVE s - Depth \in Int /\ Slot(s - Depth) = s /\ Epoch(s - Depth) = 1
    BY Zenon
  <2>1. s \in Int /\ Depth * 0 + s = s /\ s \in 0..(Depth - 1)
    BY DEF Slots
  <2>2. s % Depth = s /\ s \div Depth = 0
    BY <2>1, DivModUnique
  <2>3. Slot(s) = s /\ Epoch(s) = 0
    BY <2>2 DEF Slot, Epoch
  <2>4. QED
    BY <2>1, <2>3, SlotFacts
<1>4. TypeOK
  <2>1. \A s \in Slots : [owner |-> 1, wqe_counter |-> 0, len |-> 0, n |-> s - Depth]
                \in [owner : {0, 1}, wqe_counter : 0..(WqeMod - 1), len : Nat, n : Int]
    BY Zenon, <1>1, <1>3
  <2>2. cqe \in [Slots -> [owner : {0, 1}, wqe_counter : 0..(WqeMod - 1), len : Nat, n : Int]]
    BY Zenon, <2>1 DEF Init, InitCqe
  <2>3. QED
    BY Zenon, <1>1, <1>2, <2>2 DEF Init, TypeOK, PostedAtStart
<1>5. OrderInv /\ LocalInv /\ PendingInv
  BY Zenon DEF Init, OrderInv, LocalInv, PendingInv, HandlerSteps
<1>6. CounterInv /\ WindowInv
  BY <1>2 DEF Init, CounterInv, WindowInv, At, HandlerSteps, PostedAtStart
<1>7. CqeInv
  <2> SUFFICES ASSUME NEW s \in Slots
               PROVE  /\ Slot(cqe[s].n) = s
                      /\ cqe[s].owner = Epoch(cqe[s].n)
                      /\ rx_n - Depth <= cqe[s].n /\ cqe[s].n < rx_n
                      /\ ~(cqe[s].n >= 0)
    BY Zenon DEF CqeInv
  <2>1. cqe[s].n = s - Depth /\ cqe[s].owner = 1 /\ rx_n = 0
    BY Zenon DEF Init, InitCqe
  <2>2. QED
    BY <1>3, <2>1 DEF Slots
<1>8. QED
  BY Zenon, <1>4, <1>5, <1>6, <1>7 DEF RingInv

\* The NIC may write a completion Depth + 1 ahead without touching an unread one.
LEMMA RingInvReceive ==
  ASSUME RingInv, NEW f \in Frames, NicReceive(f)
  PROVE  RingInv'
<1> USE DepthAssumption
<1>1. rd_n \in Nat /\ rx_n \in Nat /\ Slot(rx_n) \in Slots /\ f \in [hdr : Hdr, len : Nat]
  BY SlotFacts, FramesAssumption DEF RingInv, TypeOK
<1>2. rx_n < rd_n + Depth + At({"step_cq"})
  BY <1>1 DEF RingInv, WindowInv, CounterInv, NicReceive, Posted, At
<1> DEFINE c == [owner |-> Epoch(rx_n), wqe_counter |-> rx_n % WqeMod,
                 len |-> f.len, n |-> rx_n]
           p == [id |-> rx_n, orig |-> f, hdr |-> f.hdr]
<1>3. p \in Packets
  BY <1>1, BoundAssumption DEF NicReceive, Packets
<1>4. c \in [owner : {0, 1}, wqe_counter : 0..(WqeMod - 1), len : Nat, n : Int]
  BY <1>1, SlotFacts, WrapFacts
<1>5. /\ rxbuf' = [rxbuf EXCEPT ![Slot(rx_n)] = p]
      /\ cqe' = [cqe EXCEPT ![Slot(rx_n)] = c]
      /\ rx_n' = rx_n + 1
      /\ UNCHANGED <<host, devVars, cqVars, sqVars, tx_n, wire, pc, cur, wb, sqe, rq_dbr, sq_db>>
      /\ host \in {"run", "up"}
  BY Zenon DEF NicReceive
<1>6. /\ p.id = rx_n /\ p.orig.len = f.len /\ c.n = rx_n /\ c.owner = Epoch(rx_n)
      /\ c.wqe_counter = rx_n % WqeMod /\ c.len = f.len
  BY Zenon
<1> HIDE DEF c, p
<1>7. TypeOK'
  BY <1>1, <1>3, <1>4, <1>5 DEF RingInv, TypeOK, devVars, cqVars, sqVars
<1>8. OrderInv' /\ PendingInv'
  BY Zenon, <1>5 DEF RingInv, OrderInv, PendingInv, HandlerSteps, devVars, cqVars, sqVars
<1>9. CounterInv' /\ WindowInv'
  BY <1>1, <1>2, <1>5 DEF RingInv, CounterInv, WindowInv, At, HandlerSteps, cqVars
<1>10. CqeInv'
  <2> SUFFICES ASSUME NEW s \in Slots
               PROVE  /\ Slot(cqe'[s].n) = s
                      /\ cqe'[s].owner = Epoch(cqe'[s].n)
                      /\ rx_n' - Depth <= cqe'[s].n /\ cqe'[s].n < rx_n'
                      /\ cqe'[s].n >= 0 => /\ cqe'[s].wqe_counter = cqe'[s].n % WqeMod
                                           /\ rxbuf'[s] \in Packets
                                           /\ rxbuf'[s].id = cqe'[s].n
                                           /\ rxbuf'[s].orig.len = cqe'[s].len
    BY Zenon DEF CqeInv, Slots, Slot, Epoch, Packets
  <2>1. CASE s = Slot(rx_n)
    <3>1. cqe'[s] = c /\ rxbuf'[s] = p
      BY Zenon, <1>5, <2>1 DEF RingInv, TypeOK
    <3>2. QED
      BY <1>1, <1>3, <1>5, <1>6, <2>1, <3>1
  <2>2. CASE s # Slot(rx_n)
    <3>1. cqe'[s] = cqe[s] /\ rxbuf'[s] = rxbuf[s] /\ cqe[s].n \in Int
      BY Zenon, <1>5, <2>2 DEF RingInv, TypeOK
    <3>2. cqe[s].n # rx_n - Depth
      BY <1>1, <2>2, SlotFacts DEF RingInv, CqeInv
    <3>3. QED
      BY <1>1, <1>5, <3>1, <3>2 DEF RingInv, CqeInv
  <2>3. QED
    BY Zenon, <2>1, <2>2
<1>11. LocalInv'
  <2> SUFFICES ASSUME pc \in {"prepare", "writeback", "ring", "step_rq"}
               PROVE  cur.buf = Slot(rd_n) /\ cur.len = cqe'[Slot(rd_n)].len
    BY Zenon, <1>5 DEF LocalInv, cqVars, Slot
  <2>1. rd_n < rx_n /\ rx_n < rd_n + Depth
    BY <1>1, <1>2 DEF RingInv, WindowInv, At, HandlerSteps
  <2>2. Slot(rd_n) # Slot(rx_n) /\ Slot(rd_n) \in Slots
    BY SMTT(30), <1>1, <2>1, SlotDistinct, SlotFacts
  <2>3. cqe'[Slot(rd_n)] = cqe[Slot(rd_n)]
    BY Zenon, <1>5, <2>2 DEF RingInv, TypeOK
  <2>4. QED
    BY Zenon, <2>3 DEF RingInv, LocalInv
<1>12. QED
  BY Zenon, <1>7, <1>8, <1>9, <1>10, <1>11 DEF RingInv

\* The handler takes up the packet whose turn it is.
LEMMA RingInvProcess ==
  ASSUME RingInv, ProcessPacket
  PROVE  RingInv'
<1>1. rd_n \in Nat /\ rx_n \in Nat /\ rd_n < rx_n /\ pc = "process"
  BY DEF RingInv, TypeOK, WindowInv, At, HandlerSteps, ProcessPacket
<1>2. /\ Slot(cq_idx) = Slot(rd_n) /\ Slot(rd_n) \in Slots
      /\ cqe[Slot(rd_n)].wqe_counter = rd_n % WqeMod
  BY Zenon, <1>1, CurrentCqe
<1>3. RxBufOf(cqe[Slot(cq_idx)]) = Slot(rd_n)
  BY <1>1, <1>2, SlotOfWrapped DEF RxBufOf
<1>4. /\ cur' = [buf |-> Slot(rd_n), len |-> cqe[Slot(rd_n)].len, at |-> cur.at]
      /\ wb' = wb \cup {"hdr"} /\ pc' = "prepare"
      /\ UNCHANGED <<host, devVars, cqVars, sqVars, nicVars, rxbuf, sqe, rq_dbr, sq_db>>
  BY Zenon, <1>2, <1>3 DEF ProcessPacket
<1>5. TypeOK'
  BY Zenon, <1>2, <1>4 DEF RingInv, TypeOK, HandlerSteps, devVars, cqVars, sqVars, nicVars
<1>6. OrderInv' /\ PendingInv'
  BY Zenon, <1>1, <1>4 DEF RingInv, OrderInv, PendingInv, HandlerSteps, devVars, cqVars, nicVars
<1>7. CounterInv' /\ WindowInv'
  BY Zenon, <1>1, <1>4 DEF RingInv, CounterInv, WindowInv, At, HandlerSteps, cqVars, nicVars
<1>8. CqeInv'
  BY Zenon, <1>4 DEF RingInv, CqeInv, nicVars
<1>9. LocalInv'
  BY Zenon, <1>4 DEF LocalInv, cqVars, nicVars
<1>10. QED
  BY Zenon, <1>5, <1>6, <1>7, <1>8, <1>9 DEF RingInv

\* A rewritten header becoming visible changes no counter.
LEMMA RingInvHdrVisible ==
  ASSUME RingInv, HdrVisible
  PROVE  RingInv'
<1>1. pc \in {"prepare", "writeback"} /\ rd_n < rx_n /\ rx_n \in Nat /\ rd_n \in Nat
  BY DEF RingInv, TypeOK, PendingInv, WindowInv, At, HandlerSteps, HdrVisible
<1>2. cur.buf = Slot(rd_n) /\ Slot(rd_n) \in Slots /\ rxbuf[Slot(rd_n)] \in Packets
  BY Zenon, <1>1, CurrentCqe DEF RingInv, LocalInv
<1> DEFINE b == Slot(rd_n)
           p == [rxbuf[b] EXCEPT !.hdr = SwapMac(rxbuf[b].hdr)]
<1>3. p \in Packets /\ p.id = rxbuf[b].id /\ p.orig = rxbuf[b].orig
  BY Zenon, <1>2, SwapMacReflects DEF Packets
<1>4. /\ wb' = wb \ {"hdr"} /\ rxbuf' = [rxbuf EXCEPT ![b] = p]
      /\ UNCHANGED <<host, devVars, cqVars, sqVars, nicVars, pc, cur, sqe, rq_dbr, sq_db>>
  BY Zenon, <1>2 DEF HdrVisible
<1> HIDE DEF p
<1>5. TypeOK'
  BY Zenon, <1>2, <1>3, <1>4 DEF RingInv, TypeOK, devVars, cqVars, sqVars, nicVars
<1>6. OrderInv' /\ PendingInv' /\ LocalInv'
  BY Zenon, <1>4 DEF RingInv, OrderInv, PendingInv, LocalInv, devVars, cqVars, nicVars
<1>7. CounterInv' /\ WindowInv'
  BY Zenon, <1>4 DEF RingInv, CounterInv, WindowInv, At, cqVars, nicVars
<1>8. CqeInv'
  <2>1. \A s \in Slots : /\ rxbuf[s] \in Packets => rxbuf'[s] \in Packets
                         /\ rxbuf'[s].id = rxbuf[s].id /\ rxbuf'[s].orig = rxbuf[s].orig
    BY Zenon, <1>2, <1>3, <1>4 DEF RingInv, TypeOK
  <2>2. cqe' = cqe /\ rx_n' = rx_n
    BY Zenon, <1>4 DEF nicVars
  <2>3. QED
    BY Zenon, <2>1, <2>2 DEF RingInv, CqeInv
<1>9. QED
  BY Zenon, <1>5, <1>6, <1>7, <1>8 DEF RingInv

\* Stepping the CQ flips the owner bit exactly at a wrap.
LEMMA RingInvStepCq ==
  ASSUME RingInv, StepCq
  PROVE  RingInv'
<1>1. /\ rd_n \in Nat /\ rx_n \in Nat /\ pc = "step_cq" /\ host = "up"
      /\ rd_n + 1 <= rx_n /\ rx_n <= rd_n + Depth + 1
      /\ cq_idx = rd_n % CtrMod /\ cq_hw_owner_bit = 1 - Epoch(rd_n)
      /\ rq_dbr = (rd_n + Depth + 1) % WqeMod
  BY Zenon DEF RingInv, TypeOK, WindowInv, CounterInv, OrderInv, At, HandlerSteps, StepCq
<1>2. cq_idx' = (rd_n + 1) % CtrMod /\ cq_idx' \in 0..(CtrMod - 1)
  BY <1>1, WrapFacts DEF StepCq
<1>3. cq_hw_owner_bit' = 1 - Epoch(rd_n + 1) /\ cq_hw_owner_bit' \in {0, 1}
  <2>1. Slot((rd_n + 1) % CtrMod) = Slot(rd_n + 1)
    BY <1>1, SlotOfWrapped
  <2>2. cq_hw_owner_bit' = IF Slot(rd_n + 1) = 0 THEN 1 - cq_hw_owner_bit ELSE cq_hw_owner_bit
    BY SMTT(30), <1>1, <2>1, WrapFacts DEF StepCq, NextOwnerBit
  <2>3. Epoch(rd_n) \in {0, 1}
        /\ Epoch(rd_n + 1) = IF Slot(rd_n + 1) = 0 THEN 1 - Epoch(rd_n) ELSE Epoch(rd_n)
    BY <1>1, SlotFacts
  <2>4. QED
    BY <1>1, <2>2, <2>3
<1>4. /\ rd_n' = rd_n + 1 /\ pc' = "poll"
      /\ UNCHANGED <<host, devVars, sqVars, nicVars, wb, cur, rxbuf, sqe, rq_dbr, sq_db>>
  BY Zenon DEF StepCq
<1>5. TypeOK'
  BY <1>1, <1>2, <1>3, <1>4 DEF RingInv, TypeOK, devVars, sqVars, nicVars
<1>6. OrderInv' /\ PendingInv' /\ LocalInv'
  BY Zenon, <1>1, <1>4 DEF RingInv, OrderInv, PendingInv, LocalInv, HandlerSteps, devVars, nicVars
<1>7. WindowInv'
  BY <1>1, <1>4, DepthAssumption DEF WindowInv, At, HandlerSteps, nicVars
<1>8. CounterInv'
  <2>1. rd_n + 1 + Depth + 0 = rd_n + Depth + 1
    BY <1>1, DepthAssumption
  <2>2. QED
    BY Zenon, <1>1, <1>2, <1>3, <1>4, <2>1 DEF CounterInv, At
<1>9. CqeInv'
  BY Zenon, <1>4 DEF RingInv, CqeInv, nicVars
<1>10. QED
  BY Zenon, <1>5, <1>6, <1>7, <1>8, <1>9 DEF RingInv

\* Steps that touch neither the CQ ring, the buffers nor the packet counts
\* keep what RingInv says about them.
LEMMA CqeInvFrame ==
  ASSUME CqeInv, UNCHANGED <<cqe, rxbuf, rx_n>>
  PROVE  CqeInv'
  BY Zenon DEF CqeInv

\* The data entry of a send is an entry of the SQ.
LEMMA DataSqeRange == TypeOK => DataSqe \in Slots
<1> SUFFICES ASSUME TypeOK PROVE DataSqe \in Slots
  BY Zenon
<1> USE DepthAssumption
<1> DEFINE y == (sq_wqe_seg_idx + 2) % (4 * Depth)
<1>1. sq_wqe_seg_idx + 2 \in Int /\ 4 * Depth \in Nat \ {0}
  BY CtrModFacts DEF TypeOK
<1>2. y \in 0..(4 * Depth - 1)
  BY Zenon, <1>1, DivModExists
<1> HIDE DEF y
<1>3. y \div 4 \in 0..(Depth - 1)
  BY <1>2
<1>4. QED
  BY Zenon, <1>3 DEF DataSqe, Slots, y

\* Host calls keep the invariant.
LEMMA RingInvHost ==
  ASSUME RingInv, DeviceInit \/ CreateRule \/ EventHandlerRun
  PROVE  RingInv'
<1>1. CASE DeviceInit
  <2>1. /\ host = "init" /\ host' = "rule" /\ rd_n = 0 /\ rx_n = 0 /\ pc = "off"
        /\ cq_idx' = 0 /\ cq_hw_owner_bit' = 1 /\ sq_wqe_seg_idx' = 0 /\ is_initalized'
        /\ sqe' = [s \in Slots |-> [buf |-> NoBuf, len |-> 0]]
        /\ UNCHANGED <<rq_on_host, rd_n, sq_pi, nicVars, pc, cur, wb, rxbuf, rq_dbr, sq_db>>
    BY Zenon, <1>1 DEF DeviceInit, RingInv, OrderInv, HandlerSteps
  <2>2. TypeOK'
    BY <2>1, CtrModFacts DEF RingInv, TypeOK, DeviceInit, nicVars
  <2>3. CounterInv'
    BY <2>1, WrapZero, EpochZero DEF RingInv, CounterInv, At
  <2>4. OrderInv' /\ WindowInv' /\ LocalInv' /\ PendingInv'
    BY Zenon, <2>1 DEF RingInv, OrderInv, WindowInv, LocalInv, PendingInv, At, HandlerSteps, nicVars
  <2>5. CqeInv'
    BY Zenon, <2>1, CqeInvFrame DEF RingInv, nicVars
  <2>6. QED
    BY Zenon, <2>2, <2>3, <2>4, <2>5 DEF RingInv
<1>2. CASE CreateRule \/ EventHandlerRun
  <2>1. UNCHANGED <<devVars, cqVars, sqVars, nicVars, cur, wb, rxbuf, sqe, rq_dbr, sq_db>>
    BY Zenon, <1>2 DEF CreateRule, EventHandlerRun
  <2>2. \/ host = "rule" /\ host' = "run" /\ UNCHANGED pc
        \/ host = "run" /\ host' = "up" /\ pc' = "start"
    BY Zenon, <1>2 DEF CreateRule, EventHandlerRun
  <2>3. TypeOK'
    BY Zenon, <2>1, <2>2 DEF RingInv, TypeOK, devVars, cqVars, sqVars, nicVars
  <2>4. pc = "off"
    BY Zenon, <2>2 DEF RingInv, OrderInv
  <2>5. OrderInv' /\ PendingInv' /\ LocalInv'
    BY Zenon, <2>1, <2>2, <2>4 DEF RingInv, OrderInv, PendingInv, LocalInv, HandlerSteps, devVars,
       cqVars, nicVars
  <2>6. CounterInv' /\ WindowInv'
    BY Zenon, <2>1, <2>2, <2>4 DEF RingInv, CounterInv, WindowInv, At, HandlerSteps, cqVars, nicVars
  <2>7. CqeInv'
    BY Zenon, <2>1, CqeInvFrame DEF RingInv, nicVars
  <2>8. QED
    BY Zenon, <2>3, <2>5, <2>6, <2>7 DEF RingInv
<1>3. QED
  BY Zenon, <1>1, <1>2

\* The NIC transmits only what was rung.
LEMMA RingInvTransmit ==
  ASSUME RingInv, NicTransmit
  PROVE  RingInv'
<1>1. /\ tx_n' = tx_n + 1
      /\ UNCHANGED <<host, devVars, cqVars, sqVars, cqe, rx_n, pc, cur, wb, rxbuf, sqe, rq_dbr, sq_db>>
  BY Zenon DEF NicTransmit
<1>2. TypeOK'
  BY <1>1 DEF RingInv, TypeOK, devVars, cqVars, sqVars
<1>3. OrderInv' /\ CounterInv' /\ WindowInv' /\ LocalInv' /\ PendingInv'
  BY Zenon, <1>1 DEF RingInv, OrderInv, CounterInv, WindowInv, LocalInv, PendingInv, At, devVars, cqVars
<1>4. CqeInv'
  BY Zenon, <1>1, CqeInvFrame DEF RingInv
<1>5. QED
  BY Zenon, <1>2, <1>3, <1>4 DEF RingInv

\* A WQE becoming visible changes no counter.
LEMMA RingInvSqeVisible ==
  ASSUME RingInv, SqeVisible
  PROVE  RingInv'
<1>1. /\ wb' = wb \ {"sqe"}
      /\ sqe' = [sqe EXCEPT ![cur.at] = [buf |-> cur.buf, len |-> cur.len]]
      /\ UNCHANGED <<host, devVars, cqVars, sqVars, nicVars, pc, cur, rxbuf, rq_dbr, sq_db>>
  BY Zenon DEF SqeVisible
<1>2. TypeOK'
  BY Zenon, <1>1 DEF RingInv, TypeOK, devVars, cqVars, sqVars, nicVars
<1>3. OrderInv' /\ CounterInv' /\ WindowInv' /\ LocalInv' /\ PendingInv'
  BY Zenon, <1>1 DEF RingInv, OrderInv, CounterInv, WindowInv, LocalInv, PendingInv, At, devVars,
     cqVars, nicVars
<1>4. CqeInv'
  BY Zenon, <1>1, CqeInvFrame DEF RingInv, nicVars
<1>5. QED
  BY Zenon, <1>2, <1>3, <1>4 DEF RingInv

\* The handler's other steps move its program counter and one queue index.
LEMMA RingInvHandler ==
  ASSUME RingInv,
         HandlerStart \/ Poll \/ PrepareSend \/ Writeback \/ RingDoorbell \/ StepRq
  PROVE  RingInv'
<1>1. UNCHANGED <<host, devVars, cqVars, nicVars, rxbuf, sqe>>
  BY Zenon DEF HandlerStart, Poll, PrepareSend, Writeback, RingDoorbell, StepRq
<1>2. CqeInv'
  BY Zenon, <1>1, CqeInvFrame DEF RingInv, nicVars
<1>3. CASE HandlerStart \/ Poll
  <2>1. /\ UNCHANGED <<sqVars, cur, wb, rq_dbr, sq_db>>
        /\ \/ pc = "start" /\ pc' = IF is_initalized THEN "poll" ELSE "off"
           \/ pc = "poll" /\ pc' = IF CqeReady THEN "process" ELSE "poll"
    BY Zenon, <1>3 DEF HandlerStart, Poll
  <2>2. TypeOK'
    BY Zenon, <1>1, <2>1 DEF RingInv, TypeOK, HandlerSteps, devVars, cqVars, sqVars, nicVars
  <2>3. pc' = "process" => rd_n < rx_n
    BY Zenon, <2>1, PollExactInv DEF PollExact
  <2>4. host = "up" /\ is_initalized
    BY Zenon, <2>1 DEF RingInv, OrderInv
  <2>5. OrderInv' /\ LocalInv' /\ PendingInv'
    BY Zenon, <1>1, <2>1, <2>4 DEF RingInv, OrderInv, LocalInv, PendingInv, HandlerSteps, devVars,
       cqVars, nicVars
  <2>6. CounterInv' /\ WindowInv'
    BY <1>1, <2>1, <2>3, <2>4 DEF RingInv, TypeOK, CounterInv, WindowInv, At, HandlerSteps,
       cqVars, nicVars
  <2>7. QED
    BY Zenon, <1>2, <2>2, <2>5, <2>6 DEF RingInv
<1>4. CASE PrepareSend
  <2>1. /\ pc = "prepare" /\ pc' = "writeback"
        /\ cur' = [cur EXCEPT !.at = DataSqe] /\ wb' = wb \cup {"sqe"}
        /\ sq_wqe_seg_idx' = (sq_wqe_seg_idx + 4) % CtrMod
        /\ UNCHANGED <<sq_pi, rq_dbr, sq_db>>
    BY Zenon, <1>4 DEF PrepareSend
  <2>2. DataSqe \in Slots
    BY Zenon, DataSqeRange DEF RingInv
  <2>3. sq_wqe_seg_idx' \in 0..(CtrMod - 1)
    <3>1. sq_wqe_seg_idx + 4 \in Int
      BY CtrModFacts DEF RingInv, TypeOK
    <3>2. QED
      BY Zenon, <2>1, <3>1, WrapFacts
  <2>4. TypeOK'
    BY Zenon, <1>1, <2>1, <2>2, <2>3 DEF RingInv, TypeOK, HandlerSteps, devVars, cqVars, nicVars
  <2>5. OrderInv' /\ LocalInv' /\ PendingInv'
    BY Zenon, <1>1, <2>1, <2>2 DEF RingInv, TypeOK, OrderInv, LocalInv, PendingInv, HandlerSteps,
       devVars, cqVars, nicVars
  <2>6. CounterInv' /\ WindowInv'
    BY Zenon, <1>1, <2>1 DEF RingInv, CounterInv, WindowInv, At, HandlerSteps, cqVars, nicVars
  <2>7. QED
    BY Zenon, <1>2, <2>4, <2>5, <2>6 DEF RingInv
<1>5. CASE Writeback \/ RingDoorbell
  <2>1. /\ UNCHANGED <<sq_wqe_seg_idx, wb, cur, rq_dbr>>
        /\ \/ /\ pc = "writeback" /\ pc' = "ring" /\ sq_pi' = (sq_pi + 1) % CtrMod
              /\ wb = {} /\ UNCHANGED sq_db
           \/ /\ pc = "ring" /\ pc' = "step_rq" /\ sq_db' = sq_pi % WqeMod /\ UNCHANGED sq_pi
    BY Zenon, <1>5 DEF Writeback, RingDoorbell, Loc, WrittenBack, sqVars
  <2>2. (sq_pi + 1) % CtrMod \in 0..(CtrMod - 1) /\ sq_pi % WqeMod \in 0..(WqeMod - 1)
    <3>1. sq_pi \in Int /\ sq_pi + 1 \in Int
      BY CtrModFacts DEF RingInv, TypeOK
    <3>2. QED
      BY Zenon, <3>1, WrapFacts
  <2>3. TypeOK'
    BY Zenon, <1>1, <2>1, <2>2 DEF RingInv, TypeOK, HandlerSteps, devVars, cqVars, nicVars
  <2>4. OrderInv' /\ LocalInv' /\ PendingInv'
    BY Zenon, <1>1, <2>1 DEF RingInv, OrderInv, LocalInv, PendingInv, HandlerSteps, devVars, cqVars,
       nicVars
  <2>5. CounterInv' /\ WindowInv'
    BY Zenon, <1>1, <2>1 DEF RingInv, CounterInv, WindowInv, At, HandlerSteps, cqVars, nicVars
  <2>6. QED
    BY Zenon, <1>2, <2>3, <2>4, <2>5 DEF RingInv
<1>6. CASE StepRq
  <2>1. /\ pc = "step_rq" /\ pc' = "step_cq" /\ rq_dbr' = (rq_dbr + 1) % WqeMod
        /\ UNCHANGED <<sqVars, wb, cur, sq_db>>
    BY Zenon, <1>6 DEF StepRq
  <2>2. rq_dbr = (rd_n + Depth + 0) % WqeMod /\ rd_n + Depth + 0 \in Int
    BY <2>1, DepthAssumption DEF RingInv, TypeOK, CounterInv, At
  <2>3. rq_dbr' = (rd_n + Depth + 0 + 1) % WqeMod /\ rq_dbr' \in 0..(WqeMod - 1)
    BY <2>1, <2>2, WrapFacts
  <2>4. rd_n + Depth + 0 + 1 = rd_n + Depth + 1
    BY DepthAssumption DEF RingInv, TypeOK
  <2>5. TypeOK'
    BY Zenon, <1>1, <2>1, <2>3 DEF RingInv, TypeOK, HandlerSteps, devVars, cqVars, sqVars, nicVars
  <2>6. OrderInv' /\ LocalInv' /\ PendingInv'
    BY Zenon, <1>1, <2>1 DEF RingInv, OrderInv, LocalInv, PendingInv, HandlerSteps, devVars, cqVars,
       nicVars
  <2>7. CounterInv'
    BY Zenon, <1>1, <2>1, <2>3, <2>4 DEF RingInv, CounterInv, At, cqVars
  <2>8. WindowInv'
    BY <1>1, <2>1, DepthAssumption DEF RingInv, TypeOK, WindowInv, At, HandlerSteps, cqVars, nicVars
  <2>9. QED
    BY Zenon, <1>2, <2>5, <2>6, <2>7, <2>8 DEF RingInv
<1>7. QED
  BY Zenon, <1>3, <1>4, <1>5, <1>6

\* Every step keeps the invariant.
LEMMA RingInvNext == RingInv /\ [Next]_vars => RingInv'
<1> SUFFICES ASSUME RingInv, [Next]_vars PROVE RingInv'
  BY Zenon
<1>1. CASE UNCHANGED vars
  BY ZenonT(30), <1>1 DEF vars, devVars, cqVars, sqVars, nicVars, RingInv, TypeOK, OrderInv, CounterInv,
     WindowInv, CqeInv, LocalInv, PendingInv, At
<1>2. CASE Handler
  BY Zenon, <1>2, RingInvHandler, RingInvProcess, RingInvStepCq DEF Handler
<1>3. QED
  BY Zenon, <1>1, <1>2, RingInvHost, RingInvReceive, RingInvTransmit, RingInvHdrVisible,
     RingInvSqeVisible DEF Next

\* The inductive invariant holds in every reachable state.
LEMMA RingInvariant == Spec => []RingInv
<1>1. Init => RingInv
  BY Zenon, RingInvInit
<1>2. RingInv /\ [Next]_vars => RingInv'
  BY Zenon, RingInvNext
<1>3. QED
  BY <1>1, <1>2, PTL DEF Spec
----------------------------------------------------------------------------
(* What follows *)

\* Every variable of the rings, the handler and the NIC keeps its type.
THEOREM TypeCorrect == Spec => []TypeOK
<1>1. RingInv => TypeOK
  BY Zenon DEF RingInv
<1>2. QED
  BY <1>1, RingInvariant, PTL

\* The owner-bit poll of the event handler (flexio_dev_cqe_get_owner(cqe) !=
\* cq_hw_owner_bit) is exact: true if and only if the NIC has delivered a
\* packet the handler has not consumed.
THEOREM PollIsExact == Spec => []PollExact
  BY RingInvariant, PollExactInv, PTL

\* No completion is overwritten before the handler has read it, although
\* step_rq lets the NIC run Depth + 1 completions ahead of step_cq.
THEOREM CompletionsKept == Spec => []CqeKept
<1>1. RingInv => CqeKept
  <2> SUFFICES ASSUME RingInv PROVE CqeKept
    BY Zenon
  <2>1. rd_n \in Nat /\ rx_n \in Nat /\ Depth \in Nat \ {0}
    BY Zenon, DepthAssumption DEF RingInv, TypeOK
  <2>2. rx_n - rd_n <= Depth + (IF pc = "step_cq" THEN 1 ELSE 0)
    BY <2>1 DEF RingInv, WindowInv, At
  <2>3. ASSUME NEW i \in rd_n..(rx_n - 1), i > rd_n \/ pc # "step_cq"
        PROVE  cqe[Slot(i)].n = i
    <3>1. i \in Int /\ rx_n - Depth \in Int /\ rx_n - Depth <= i /\ i < rx_n - Depth + Depth
      BY <2>1, <2>2, <2>3
    <3>2. Slot(i) \in Slots
      BY Zenon, <3>1, SlotFacts
    <3>3. /\ cqe[Slot(i)].n \in Int /\ Slot(cqe[Slot(i)].n) = Slot(i)
          /\ rx_n - Depth <= cqe[Slot(i)].n /\ cqe[Slot(i)].n < rx_n - Depth + Depth
      <4>1. cqe[Slot(i)].n \in Int
        BY Zenon, <3>2 DEF RingInv, TypeOK
      <4>2. /\ Slot(cqe[Slot(i)].n) = Slot(i)
            /\ rx_n - Depth <= cqe[Slot(i)].n /\ cqe[Slot(i)].n < rx_n
        BY Zenon, <3>2 DEF RingInv, CqeInv
      <4>3. QED
        BY <2>1, <4>1, <4>2
    <3>4. QED
      BY Zenon, <3>1, <3>3, SlotUnique
  <2>4. QED
    BY Zenon, <2>2, <2>3 DEF CqeKept
<1>2. QED
  BY <1>1, RingInvariant, PTL

\* The handler works on the buffer of the packet whose turn it is, from the
\* header rewrite until the entry is reposted.
THEOREM BufferIsRight == Spec => []RightBuffer
<1>1. RingInv => RightBuffer
  <2> SUFFICES ASSUME RingInv, pc \in {"prepare", "writeback", "ring", "step_rq"}
               PROVE  rxbuf[cur.buf].id = rd_n /\ cur.len = rxbuf[cur.buf].orig.len
    BY Zenon DEF RightBuffer
  <2>1. rd_n < rx_n
    BY DEF RingInv, TypeOK, WindowInv, At, HandlerSteps
  <2>2. QED
    BY Zenon, <2>1, CurrentCqe DEF RingInv, LocalInv
<1>2. QED
  BY <1>1, RingInvariant, PTL

INSTANCE SequenceTheorems

\* Packets handed to the NIC for sending.
Rung == rd_n + At({"step_rq", "step_cq"})

\* The send side's wrapped counters stand for packet counts.
SendCounterInv ==
  /\ sq_wqe_seg_idx = (4 * (rd_n + At({"writeback", "ring", "step_rq", "step_cq"}))) % CtrMod
  /\ sq_pi = (rd_n + At({"ring", "step_rq", "step_cq"})) % CtrMod
  /\ sq_db = Rung % WqeMod
  /\ tx_n <= Rung
  /\ rx_n <= tx_n + Depth

\* Buffer b holds its packet as received, or ready to be sent back.
AsReceived(b) == rxbuf[b].hdr = rxbuf[b].orig.hdr
Rewritten(b) == rxbuf[b].hdr = SwapMac(rxbuf[b].orig.hdr)
Entry(b) == sqe[b] = [buf |-> b, len |-> rxbuf[b].orig.len]

\* A packet waiting to be sent has its entry written and its header rewritten.
SendInv == \A i \in tx_n..(Rung - 1) : Rewritten(Slot(i)) /\ Entry(Slot(i))

\* A packet waiting for the handler is as it was received.
WaitInv ==
  \A i \in rd_n..(rx_n - 1) :
    i > rd_n \/ pc \in {"off", "start", "poll", "process"} => AsReceived(Slot(i))

\* The packet the handler is working on.
WorkInv ==
  /\ pc \in {"prepare", "writeback", "ring"} =>
       IF "hdr" \in wb THEN AsReceived(cur.buf) ELSE Rewritten(cur.buf)
  /\ pc \in {"writeback", "ring"} =>
       /\ cur.at = Slot(rd_n)
       /\ "sqe" \notin wb => sqe[cur.at] = [buf |-> cur.buf, len |-> cur.len]

EchoInv == RingInv /\ SendCounterInv /\ SendInv /\ WaitInv /\ WorkInv
----------------------------------------------------------------------------
(* Facts about the two windows *)

\* The masked segment index is the slot of the packet it is handed out for.
LEMMA DataSqeSlot ==
  ASSUME NEW k \in Nat, sq_wqe_seg_idx = (4 * k) % CtrMod
  PROVE  DataSqe = Slot(k)
<1> USE DepthAssumption
<1>1. PICK j \in 2..WqeMod : WqeMod = Depth * j
  BY Zenon, WqeModAssumption
<1>2. PICK c \in 1..CtrMod : CtrMod = 4 * (WqeMod * c)
  BY Zenon, CtrModAssumption
<1>3. j \in Int /\ c \in Int /\ CtrMod \in Nat \ {0}
  BY <1>1, <1>2, WqeModAssumption, CtrModFacts
<1> DEFINE q == (4 * k) \div CtrMod
           p == k \div Depth
           r == k % Depth
<1>4. 4 * k = CtrMod * q + sq_wqe_seg_idx /\ q \in Int /\ sq_wqe_seg_idx \in Int
  BY <1>3, DivModExists
<1>5. k = Depth * p + r /\ p \in Int /\ r \in 0..(Depth - 1)
  BY DivModExists
<1> HIDE DEF q, p, r
<1>6. CtrMod = (4 * Depth) * (j * c)
  BY <1>1, <1>2, <1>3
<1>7. CtrMod * q = (4 * Depth) * ((j * c) * q)
  BY <1>3, <1>4, <1>6
<1> DEFINE e == (j * c) * q
           z == p - e
<1>8. e \in Int /\ z \in Int
  BY <1>3, <1>4, <1>5
<1>9. CtrMod * q = (4 * Depth) * e
  BY Zenon, <1>7
<1> HIDE DEF e
<1>10. (4 * Depth) * z = (4 * Depth) * p - (4 * Depth) * e
  BY <1>5, <1>8
<1> HIDE DEF z
<1>11. 4 * k = (4 * Depth) * p + 4 * r
  BY <1>5
<1>12. sq_wqe_seg_idx + 2 = (4 * Depth) * z + (4 * r + 2)
  <2>1. (4 * Depth) * p \in Int /\ (4 * Depth) * e \in Int /\ (4 * Depth) * z \in Int
    BY <1>5, <1>8
  <2>2. QED
    BY <1>4, <1>5, <1>9, <1>10, <1>11, <2>1
<1>13. 4 * Depth \in Nat \ {0} /\ 4 * r + 2 \in 0..(4 * Depth - 1)
  BY <1>5
<1>14. (sq_wqe_seg_idx + 2) % (4 * Depth) = 4 * r + 2
  <2> DEFINE d == 4 * Depth
             w == 4 * r + 2
  <2>1. d \in Nat \ {0} /\ w \in 0..(d - 1)
    BY Zenon, <1>13
  <2>2. sq_wqe_seg_idx + 2 = d * z + w
    BY Zenon, <1>12
  <2> HIDE DEF d, w
  <2>3. (sq_wqe_seg_idx + 2) % d = w
    BY Zenon, <1>8, <2>1, <2>2, DivModUnique
  <2>4. QED
    BY Zenon, <2>3 DEF d, w
<1>15. (4 * r + 2) \div 4 = r
  BY SMTT(30), <1>5
<1>16. QED
  BY Zenon, <1>14, <1>15 DEF DataSqe, Slot, r

\* Every packet received and not yet sent is still in its own buffer.
LEMMA InFlight ==
  ASSUME EchoInv, NEW i \in tx_n..(rx_n - 1)
  PROVE  /\ i \in Nat /\ Slot(i) \in Slots
         /\ cqe[Slot(i)].n = i
         /\ rxbuf[Slot(i)] \in Packets
         /\ rxbuf[Slot(i)].id = i
         /\ rxbuf[Slot(i)].orig.len = cqe[Slot(i)].len
<1>1. tx_n \in Nat /\ rx_n \in Nat /\ Depth \in Nat /\ i \in Nat /\ rx_n <= tx_n + Depth
  BY DepthAssumption DEF EchoInv, RingInv, TypeOK, SendCounterInv
<1>2. Slot(i) \in Slots
  BY <1>1, SlotFacts
<1> DEFINE n == cqe[Slot(i)].n
<1>3. n \in Int /\ Slot(n) = Slot(i) /\ rx_n - Depth <= n /\ n < rx_n
  BY Zenon, <1>2 DEF EchoInv, RingInv, TypeOK, CqeInv
<1> HIDE DEF n
<1>4. n = i
  <2> DEFINE lo == rx_n - Depth
  <2>1. lo \in Int /\ lo <= i /\ i < lo + Depth /\ lo <= n /\ n < lo + Depth /\ i \in Int
    BY <1>1, <1>3
  <2> HIDE DEF lo
  <2>2. QED
    BY Zenon, <1>3, <2>1, SlotUnique
<1>5. QED
  BY SMTT(30), <1>1, <1>2, <1>4 DEF n, EchoInv, RingInv, CqeInv

\* Where the counts stand, as arithmetic.
LEMMA Counts ==
  ASSUME EchoInv
  PROVE  /\ rx_n \in Nat /\ rd_n \in Nat /\ tx_n \in Nat /\ Depth \in Nat \ {0}
         /\ Rung \in Nat /\ tx_n <= Rung /\ Rung <= rx_n /\ rx_n <= tx_n + Depth
         /\ rd_n <= Rung
         /\ pc \in HandlerSteps => rd_n < rx_n
  BY DepthAssumption DEF EchoInv, RingInv, TypeOK, WindowInv, SendCounterInv, Rung, At, HandlerSteps

\* The buffer the handler works on is not one of those waiting to be sent.
LEMMA WorkIsApart ==
  ASSUME EchoInv, pc \in {"process", "prepare", "writeback", "ring"},
         NEW i \in tx_n..(rx_n - 1), i # rd_n
  PROVE  Slot(i) # Slot(rd_n)
<1>1. rd_n < rx_n /\ i \in Int /\ Rung = rd_n
  BY Counts DEF Rung, At, HandlerSteps
<1>2. CASE i < rd_n
  BY <1>1, <1>2, Counts, SlotDistinct
<1>3. CASE rd_n < i
  BY <1>1, <1>3, Counts, SlotDistinct
<1>4. QED
  BY <1>1, <1>2, <1>3, Counts
----------------------------------------------------------------------------
(* EchoInv is inductive *)

\* Nothing has been received or sent at first.
LEMMA EchoInvInit == Init => EchoInv
<1> SUFFICES ASSUME Init PROVE EchoInv
  BY Zenon
<1>1. RingInv
  BY Zenon, RingInvInit
<1>2. /\ rd_n = 0 /\ rx_n = 0 /\ tx_n = 0 /\ pc = "off" /\ sq_wqe_seg_idx = 0
      /\ sq_pi = 0 /\ sq_db = 0 /\ At({"step_rq", "step_cq"}) = 0
      /\ At({"ring", "step_rq", "step_cq"}) = 0
      /\ At({"writeback", "ring", "step_rq", "step_cq"}) = 0
  BY Zenon DEF Init, At
<1>3. Rung = 0 /\ 4 * (0 + 0) = 0 /\ 0 + 0 = 0
  BY <1>2 DEF Rung
<1>4. SendCounterInv
  BY <1>2, <1>3, WrapZero, DepthAssumption DEF SendCounterInv
<1>5. SendInv /\ WaitInv /\ WorkInv
  BY <1>2, <1>3 DEF SendInv, WaitInv, WorkInv
<1>6. QED
  BY Zenon, <1>1, <1>4, <1>5 DEF EchoInv

\* A packet received with at most Depth in flight overwrites no frame to be sent.
LEMMA EchoInvReceive ==
  ASSUME EchoInv, MaxInFlight <= Depth, NEW f \in Frames, NicReceive(f), RingInv'
  PROVE  EchoInv'
<1> DEFINE p == [id |-> rx_n, orig |-> f, hdr |-> f.hdr]
<1>1. /\ rxbuf' = [rxbuf EXCEPT ![Slot(rx_n)] = p]
      /\ rx_n' = rx_n + 1 /\ rx_n - tx_n < MaxInFlight
      /\ UNCHANGED <<rd_n, tx_n, pc, cur, wb, sqe, sq_db, sq_wqe_seg_idx, sq_pi>>
  BY Zenon DEF NicReceive, cqVars, sqVars
<1>2. p.hdr = p.orig.hdr
  BY Zenon
<1> HIDE DEF p
<1>3. rx_n < tx_n + Depth
  BY <1>1, Counts, BoundAssumption
<1>4. Rung' = Rung
  BY Zenon, <1>1 DEF Rung, At
<1>5. SendCounterInv'
  BY <1>1, <1>3, <1>4, Counts DEF EchoInv, SendCounterInv, At
<1>6. \A i \in tx_n..(rx_n - 1) : /\ Slot(i) \in Slots /\ Slot(i) # Slot(rx_n)
                                  /\ rxbuf'[Slot(i)] = rxbuf[Slot(i)]
  <2> SUFFICES ASSUME NEW i \in tx_n..(rx_n - 1)
               PROVE  /\ Slot(i) \in Slots /\ Slot(i) # Slot(rx_n)
                      /\ rxbuf'[Slot(i)] = rxbuf[Slot(i)]
    BY Zenon
  <2>1. i \in Int /\ i < rx_n /\ rx_n < i + Depth /\ rx_n \in Int
    BY <1>3, Counts
  <2>2. QED
    BY Zenon, <1>1, <2>1, SlotDistinct, SlotFacts DEF EchoInv, RingInv, TypeOK
<1>7. SendInv'
  <2>1. \A i \in tx_n..(Rung - 1) : i \in tx_n..(rx_n - 1)
    BY Counts
  <2>2. QED
    BY Zenon, <1>1, <1>4, <1>6, <2>1 DEF EchoInv, SendInv, Rewritten, Entry
<1>8. WaitInv'
  <2> SUFFICES ASSUME NEW i \in rd_n..rx_n,
                      i > rd_n \/ pc \in {"off", "start", "poll", "process"}
               PROVE  rxbuf'[Slot(i)].hdr = rxbuf'[Slot(i)].orig.hdr
    BY <1>1, Counts DEF WaitInv, AsReceived
  <2>1. CASE i = rx_n
    <3>1. rxbuf'[Slot(rx_n)] = p
      <4>1. rx_n \in Int /\ Slot(rx_n) \in Slots
        BY Counts, SlotFacts
      <4>2. DOMAIN rxbuf = Slots
        BY Zenon DEF EchoInv, RingInv, TypeOK
      <4>3. QED
        BY Zenon, <1>1, <4>1, <4>2
    <3>2. QED
      BY Zenon, <1>2, <2>1, <3>1
  <2>2. CASE i # rx_n
    <3>1. tx_n <= i
      BY Counts, <2>2 DEF Rung, At, HandlerSteps
    <3>2. i \in tx_n..(rx_n - 1) /\ i \in rd_n..(rx_n - 1)
      BY <2>2, <3>1, Counts
    <3>3. QED
      BY Zenon, <1>6, <3>2 DEF EchoInv, WaitInv, AsReceived
  <2>3. QED
    BY ZenonT(30), <2>1, <2>2
<1>9. WorkInv'
  <2>1. CASE pc \in {"prepare", "writeback", "ring"}
    <3>1. cur.buf = Slot(rd_n) /\ rd_n \in tx_n..(rx_n - 1)
      BY <2>1, Counts DEF EchoInv, RingInv, LocalInv, Rung, At, HandlerSteps
    <3>2. rxbuf'[cur.buf] = rxbuf[cur.buf]
      BY <1>6, <3>1
    <3>3. QED
      BY Zenon, <1>1, <3>2 DEF EchoInv, WorkInv, AsReceived, Rewritten
  <2>2. CASE pc \notin {"prepare", "writeback", "ring"}
    BY Zenon, <1>1, <2>2 DEF WorkInv
  <2>3. QED
    BY Zenon, <2>1, <2>2
<1>10. QED
  BY Zenon, <1>5, <1>7, <1>8, <1>9 DEF EchoInv

\* The frame transmitted is the reflection of the packet with its number.
LEMMA EchoInvTransmit ==
  ASSUME EchoInv, NicTransmit, RingInv'
  PROVE  EchoInv'
<1>1. /\ tx_n' = tx_n + 1 /\ sq_db # tx_n % WqeMod
      /\ UNCHANGED <<rd_n, rx_n, pc, cur, wb, rxbuf, sqe, sq_db, sq_wqe_seg_idx, sq_pi>>
  BY Zenon DEF NicTransmit, cqVars, sqVars
<1>2. tx_n < Rung /\ Rung' = Rung
  BY <1>1, Counts DEF EchoInv, SendCounterInv, Rung, At
<1>3. SendCounterInv'
  BY SMTT(30), <1>1, <1>2, Counts DEF EchoInv, SendCounterInv, At
<1>4. SendInv'
  BY <1>1, <1>2, Counts DEF EchoInv, SendInv, Rewritten, Entry
<1>5. WaitInv' /\ WorkInv'
  BY Zenon, <1>1 DEF EchoInv, WaitInv, WorkInv, AsReceived, Rewritten
<1>6. QED
  BY Zenon, <1>3, <1>4, <1>5 DEF EchoInv

\* A header becoming visible makes the frame in its slot the reflected one.
LEMMA EchoInvHdrVisible ==
  ASSUME EchoInv, HdrVisible, RingInv'
  PROVE  EchoInv'
<1>1. /\ "hdr" \in wb /\ wb' = wb \ {"hdr"}
      /\ rxbuf' = [rxbuf EXCEPT ![cur.buf].hdr = SwapMac(@)]
      /\ UNCHANGED <<rd_n, rx_n, tx_n, pc, cur, sqe, sq_db, sq_wqe_seg_idx, sq_pi>>
  BY Zenon DEF HdrVisible, cqVars, sqVars, nicVars
<1>2. pc \in {"prepare", "writeback"} /\ cur.buf = Slot(rd_n)
  BY Zenon, <1>1 DEF EchoInv, RingInv, PendingInv, LocalInv
<1>3. Rung = rd_n /\ Rung' = rd_n /\ rd_n < rx_n
  BY <1>1, <1>2, Counts DEF Rung, At, HandlerSteps
<1>4. /\ Slot(rd_n) \in Slots /\ rxbuf[Slot(rd_n)] \in Packets
      /\ rxbuf[Slot(rd_n)].hdr = rxbuf[Slot(rd_n)].orig.hdr
  <2>1. rd_n \in tx_n..(rx_n - 1)
    BY <1>3, Counts
  <2>2. QED
    BY Zenon, <1>1, <1>2, <2>1, InFlight DEF EchoInv, WorkInv, AsReceived
<1>5. /\ rxbuf'[Slot(rd_n)].hdr = SwapMac(rxbuf'[Slot(rd_n)].orig.hdr)
      /\ rxbuf'[Slot(rd_n)].orig = rxbuf[Slot(rd_n)].orig
  BY Zenon, <1>1, <1>2, <1>4 DEF Packets, EchoInv, RingInv, TypeOK
<1>6. \A i \in tx_n..(rx_n - 1) : i # rd_n => rxbuf'[Slot(i)] = rxbuf[Slot(i)]
  <2> SUFFICES ASSUME NEW i \in tx_n..(rx_n - 1), i # rd_n
               PROVE  rxbuf'[Slot(i)] = rxbuf[Slot(i)]
    BY Zenon
  <2>1. Slot(i) # Slot(rd_n) /\ Slot(i) \in Slots
    BY Zenon, <1>2, WorkIsApart, InFlight
  <2>2. QED
    BY Zenon, <1>1, <1>2, <2>1 DEF EchoInv, RingInv, TypeOK
<1>7. SendCounterInv'
  BY Zenon, <1>1, <1>3 DEF EchoInv, SendCounterInv, At
<1>8. SendInv'
  <2>1. \A i \in tx_n..(Rung - 1) : i \in tx_n..(rx_n - 1) /\ i # rd_n
    BY <1>3, Counts
  <2>2. QED
    BY Zenon, <1>1, <1>3, <1>6, <2>1 DEF EchoInv, SendInv, Rewritten, Entry
<1>9. WaitInv'
  <2>1. \A i \in rd_n..(rx_n - 1) : i \in tx_n..(rx_n - 1)
    BY <1>3, Counts
  <2>2. \A i \in rd_n..(rx_n - 1) : i > rd_n => i # rd_n
    BY Counts
  <2>3. QED
    BY Zenon, <1>1, <1>2, <1>6, <2>1, <2>2 DEF EchoInv, WaitInv, AsReceived
<1>10. WorkInv'
  BY Zenon, <1>1, <1>2, <1>5 DEF EchoInv, WorkInv, Rewritten
<1>11. QED
  BY Zenon, <1>7, <1>8, <1>9, <1>10 DEF EchoInv

\* A WQE becoming visible names the slot of its packet.
LEMMA EchoInvSqeVisible ==
  ASSUME EchoInv, SqeVisible, RingInv'
  PROVE  EchoInv'
<1>1. /\ "sqe" \in wb /\ wb' = wb \ {"sqe"}
      /\ sqe' = [sqe EXCEPT ![cur.at] = [buf |-> cur.buf, len |-> cur.len]]
      /\ UNCHANGED <<rd_n, rx_n, tx_n, pc, cur, rxbuf, sq_db, sq_wqe_seg_idx, sq_pi>>
  BY Zenon DEF SqeVisible, cqVars, sqVars, nicVars
<1>2. pc = "writeback" /\ cur.at = Slot(rd_n)
  BY Zenon, <1>1 DEF EchoInv, RingInv, PendingInv, WorkInv
<1>3. Rung = rd_n /\ Rung' = rd_n /\ rd_n < rx_n
  BY <1>1, <1>2, Counts DEF Rung, At, HandlerSteps
<1>4. Slot(rd_n) \in Slots /\ sqe'[cur.at] = [buf |-> cur.buf, len |-> cur.len]
  BY ZenonT(30), <1>1, <1>2, Counts, SlotFacts DEF EchoInv, RingInv, TypeOK
<1>5. \A i \in tx_n..(Rung - 1) : sqe'[Slot(i)] = sqe[Slot(i)]
  <2> SUFFICES ASSUME NEW i \in tx_n..(Rung - 1)
               PROVE  sqe'[Slot(i)] = sqe[Slot(i)]
    BY Zenon
  <2>1. i \in tx_n..(rx_n - 1) /\ i # rd_n
    BY <1>3, Counts
  <2>2. Slot(i) # Slot(rd_n) /\ Slot(i) \in Slots
    BY Zenon, <1>2, <2>1, WorkIsApart, InFlight
  <2>3. QED
    BY Zenon, <1>1, <1>2, <2>2 DEF EchoInv, RingInv, TypeOK
<1>6. SendCounterInv'
  BY Zenon, <1>1, <1>3 DEF EchoInv, SendCounterInv, At
<1>7. SendInv'
  BY Zenon, <1>1, <1>3, <1>5 DEF EchoInv, SendInv, Rewritten, Entry
<1>8. WaitInv' /\ WorkInv'
  BY Zenon, <1>1, <1>2, <1>4 DEF EchoInv, WaitInv, WorkInv, AsReceived, Rewritten
<1>9. QED
  BY Zenon, <1>6, <1>7, <1>8 DEF EchoInv

\* Adding four segments, or one entry, commutes with the wrap at CtrMod.
LEMMA WrapSteps ==
  ASSUME NEW k \in Nat
  PROVE  /\ (((4 * k) % CtrMod) + 4) % CtrMod = (4 * (k + 1)) % CtrMod
         /\ ((k % CtrMod) + 1) % CtrMod = (k + 1) % CtrMod
         /\ (k % CtrMod) % WqeMod = k % WqeMod
<1> DEFINE a == 4 * k
<1>1. a \in Int /\ 4 * (k + 1) = a + 4 /\ k \in Int
  OBVIOUS
<1> HIDE DEF a
<1>2. ((a % CtrMod) + 1) % CtrMod = (a + 1) % CtrMod
  BY Zenon, <1>1, WrapFacts
<1>3. \A x \in Int : ((x % CtrMod) + 4) % CtrMod = (x + 4) % CtrMod
  <2> SUFFICES ASSUME NEW x \in Int
               PROVE  ((x % CtrMod) + 4) % CtrMod = (x + 4) % CtrMod
    BY Zenon
  <2> DEFINE n == CtrMod
             q == x \div n
             r == x % n
             u == (r + 4) \div n
             v == (r + 4) % n
             z == q + u
  <2>1. n \in Nat \ {0}
    BY Zenon, CtrModFacts
  <2> HIDE DEF n
  <2>2. x = n * q + r /\ q \in Int /\ r \in Int
    BY <2>1, DivModExists
  <2> HIDE DEF q, r
  <2>3. r + 4 \in Int
    BY <2>2
  <2>4. r + 4 = n * u + v /\ u \in Int /\ v \in 0..(n - 1)
    BY Zenon, <2>1, <2>3, DivModExists
  <2> HIDE DEF u
  <2>5. z \in Int /\ n * z = n * q + n * u
    BY <2>1, <2>2, <2>4
  <2> HIDE DEF z
  <2>6. x + 4 = n * z + v
    <3>1. n * q \in Int /\ n * u \in Int /\ n * z \in Int /\ v \in Int
      BY <2>1, <2>2, <2>4, <2>5
    <3> HIDE DEF v
    <3>2. QED
      BY <2>2, <2>4, <2>5, <3>1
  <2> HIDE DEF v
  <2>7. (x + 4) % n = v
    <3>1. x + 4 \in Int /\ z \in Int /\ v \in 0..(n - 1)
      BY <2>4, <2>5
    <3>2. QED
      BY Zenon, <2>1, <2>6, <3>1, DivModUnique
  <2>8. QED
    BY Zenon, <2>7 DEF v, r, n
<1>4. ((k % CtrMod) + 1) % CtrMod = (k + 1) % CtrMod
  BY Zenon, <1>1, WrapFacts
<1>5. (k % CtrMod) % WqeMod = k % WqeMod
  <2>1. PICK j \in Nat \ {0} : CtrMod = WqeMod * j
    BY Zenon, CtrModFacts
  <2>2. WqeMod \in Nat \ {0}
    BY WqeModFacts, DepthAssumption
  <2>3. QED
    BY ZenonT(30), <1>1, <2>1, <2>2, ModMod
<1>6. ((a % CtrMod) + 4) % CtrMod = (a + 4) % CtrMod
  BY Zenon, <1>1, <1>3
<1>7. QED
  BY Zenon, <1>1, <1>4, <1>5, <1>6 DEF a

\* Host calls send nothing.
LEMMA EchoInvHost ==
  ASSUME EchoInv, DeviceInit \/ CreateRule \/ EventHandlerRun, RingInv'
  PROVE  EchoInv'
<1>1. /\ UNCHANGED <<rd_n, rx_n, tx_n, cur, wb, rxbuf, sq_db, sq_pi>>
      /\ pc = "off" /\ pc' \in {"off", "start"} /\ rd_n = 0
      /\ \/ UNCHANGED <<sqe, sq_wqe_seg_idx>>
         \/ rx_n = 0 /\ sq_wqe_seg_idx' = 0
  BY Zenon DEF DeviceInit, CreateRule, EventHandlerRun, cqVars, sqVars, nicVars, EchoInv,
         RingInv, OrderInv, HandlerSteps
<1>2. Rung = 0 /\ Rung' = 0 /\ tx_n = 0
  BY <1>1, Counts DEF Rung, At
<1>3. SendCounterInv'
  <2>1. sq_wqe_seg_idx' = 0
    BY SMTT(30), <1>1, WrapZero DEF EchoInv, SendCounterInv, At
  <2>2. QED
    BY <1>1, <1>2, <2>1, WrapZero DEF EchoInv, SendCounterInv, At
<1>4. SendInv' /\ WorkInv'
  BY <1>1, <1>2 DEF SendInv, WorkInv
<1>5. WaitInv'
  BY Zenon, <1>1 DEF EchoInv, WaitInv, AsReceived
<1>6. QED
  BY Zenon, <1>3, <1>4, <1>5 DEF EchoInv

\* The handler prepares the WQE of the packet in hand.
LEMMA EchoInvPrepare ==
  ASSUME EchoInv, ProcessPacket \/ PrepareSend, RingInv'
  PROVE  EchoInv'
<1>1. /\ UNCHANGED <<rd_n, rx_n, tx_n, rxbuf, sqe, sq_db, sq_pi>>
      /\ pc \in {"process", "prepare"} /\ pc' \in {"prepare", "writeback"}
  BY Zenon DEF ProcessPacket, PrepareSend, cqVars, sqVars, nicVars
<1>2. Rung = rd_n /\ Rung' = rd_n /\ rd_n \in rd_n..(rx_n - 1)
  BY <1>1, Counts DEF Rung, At, HandlerSteps
<1>3. SendInv'
  BY Zenon, <1>1, <1>2 DEF EchoInv, SendInv, Rewritten, Entry
<1>4. WaitInv'
  BY Zenon, <1>1 DEF EchoInv, WaitInv, AsReceived
<1>5. CASE ProcessPacket
  <2>1. /\ pc = "process" /\ pc' = "prepare" /\ "hdr" \in wb'
        /\ UNCHANGED sq_wqe_seg_idx
    BY Zenon, <1>5 DEF ProcessPacket, sqVars
  <2>2. cur'.buf = Slot(rd_n)
    BY Zenon, <1>1, <2>1 DEF RingInv, LocalInv, Slot
  <2>3. WorkInv'
    BY Zenon, <1>1, <1>2, <2>1, <2>2 DEF EchoInv, WaitInv, WorkInv, AsReceived
  <2>4. SendCounterInv'
    BY Zenon, <1>1, <1>2, <2>1 DEF EchoInv, SendCounterInv, At
  <2>5. QED
    BY Zenon, <1>3, <1>4, <2>3, <2>4 DEF EchoInv
<1>6. CASE PrepareSend
  <2>1. /\ pc = "prepare" /\ pc' = "writeback" /\ wb' = wb \cup {"sqe"}
        /\ cur' = [cur EXCEPT !.at = DataSqe]
        /\ sq_wqe_seg_idx' = (sq_wqe_seg_idx + 4) % CtrMod
    BY Zenon, <1>6 DEF PrepareSend
  <2>2. sq_wqe_seg_idx = (4 * rd_n) % CtrMod
    BY <2>1, Counts DEF EchoInv, SendCounterInv, At
  <2>3. DataSqe = Slot(rd_n)
    BY Zenon, <2>2, Counts, DataSqeSlot
  <2>4. cur'.at = Slot(rd_n) /\ cur'.buf = cur.buf /\ cur'.len = cur.len
    BY Zenon, <2>1, <2>3 DEF EchoInv, RingInv, TypeOK
  <2>5. WorkInv'
    BY Zenon, <1>1, <2>1, <2>4 DEF EchoInv, WorkInv, AsReceived, Rewritten, Slot
  <2>6. sq_wqe_seg_idx' = (4 * (rd_n + 1)) % CtrMod
    BY Zenon, <2>1, <2>2, Counts, WrapSteps
  <2>7. SendCounterInv'
    BY Zenon, <1>1, <1>2, <2>1, <2>6 DEF EchoInv, SendCounterInv, At
  <2>8. QED
    BY Zenon, <1>3, <1>4, <2>5, <2>7 DEF EchoInv
<1>7. QED
  BY Zenon, <1>5, <1>6

\* The doorbell announces the frame in hand and no other.
LEMMA EchoInvRing ==
  ASSUME EchoInv, Writeback \/ RingDoorbell, RingInv'
  PROVE  EchoInv'
<1>1. /\ UNCHANGED <<rd_n, rx_n, tx_n, rxbuf, sqe, sq_wqe_seg_idx, cur, wb>>
      /\ pc \in {"writeback", "ring"} /\ pc' \in {"ring", "step_rq"}
  BY Zenon DEF Writeback, RingDoorbell, cqVars, sqVars, nicVars
<1>2. Rung = rd_n /\ rd_n \in tx_n..(rx_n - 1)
  BY <1>1, Counts DEF Rung, At, HandlerSteps
<1>3. WaitInv'
  BY Zenon, <1>1 DEF EchoInv, WaitInv, AsReceived
<1>4. CASE Writeback
  <2>1. /\ pc = "writeback" /\ pc' = "ring" /\ sq_db' = sq_db
        /\ sq_pi' = (sq_pi + 1) % CtrMod
    BY Zenon, <1>4 DEF Writeback
  <2>2. Rung' = rd_n /\ sq_pi' = (rd_n + 1) % CtrMod
    <3>1. sq_pi = rd_n % CtrMod
      BY <2>1, Counts DEF EchoInv, SendCounterInv, At
    <3>2. QED
      BY SMTT(30), <1>1, <2>1, <3>1, Counts, WrapSteps DEF Rung, At
  <2>3. SendCounterInv'
    BY Zenon, <1>1, <1>2, <2>1, <2>2, Counts DEF EchoInv, SendCounterInv, At
  <2>4. SendInv'
    BY ZenonT(30), <1>1, <1>2, <2>2 DEF EchoInv, SendInv, Rewritten, Entry
  <2>5. WorkInv'
    BY Zenon, <1>1, <2>1 DEF EchoInv, WorkInv, AsReceived, Rewritten, Slot
  <2>6. QED
    BY Zenon, <1>3, <2>3, <2>4, <2>5 DEF EchoInv
<1>5. CASE RingDoorbell
  <2>1. /\ pc = "ring" /\ pc' = "step_rq" /\ sq_pi' = sq_pi /\ sq_db' = sq_pi % WqeMod
    BY Zenon, <1>5 DEF RingDoorbell, sqVars
  <2>2. Rung' = rd_n + 1 /\ sq_db' = (rd_n + 1) % WqeMod
    <3>1. sq_pi = (rd_n + 1) % CtrMod /\ rd_n + 1 \in Nat
      BY <2>1, Counts DEF EchoInv, SendCounterInv, At
    <3>2. QED
      BY Zenon, <1>1, <2>1, <3>1, WrapSteps DEF Rung, At
  <2>3. SendCounterInv'
    BY <1>1, <1>2, <2>1, <2>2, Counts DEF EchoInv, SendCounterInv, At
  <2>4. Rewritten(Slot(rd_n)) /\ Entry(Slot(rd_n))
    <3>1. wb = {} /\ cur.buf = Slot(rd_n) /\ cur.at = Slot(rd_n)
      BY <2>1 DEF EchoInv, RingInv, TypeOK, PendingInv, LocalInv, WorkInv
    <3>2. cur.len = rxbuf[Slot(rd_n)].orig.len
      BY Zenon, <1>2, <2>1, InFlight DEF EchoInv, RingInv, LocalInv
    <3>3. QED
      BY ZenonT(30), <2>1, <3>1, <3>2 DEF EchoInv, WorkInv, Entry
  <2>5. SendInv'
    <3>1. \A i \in tx_n..(Rung' - 1) : i \in tx_n..(Rung - 1) \/ i = rd_n
      BY <1>2, <2>2, Counts
    <3>2. QED
      BY Zenon, <1>1, <2>4, <3>1 DEF EchoInv, SendInv, Rewritten, Entry
  <2>6. WorkInv'
    BY Zenon, <2>1 DEF WorkInv
  <2>7. QED
    BY Zenon, <1>3, <2>3, <2>5, <2>6 DEF EchoInv
<1>6. QED
  BY Zenon, <1>4, <1>5

\* Stepping the rings leaves the frames sent alone.
LEMMA EchoInvStep ==
  ASSUME EchoInv, HandlerStart \/ Poll \/ StepRq \/ StepCq, RingInv'
  PROVE  EchoInv'
<1>1. UNCHANGED <<rx_n, tx_n, rxbuf, sqe, sq_wqe_seg_idx, sq_pi, sq_db, cur, wb>>
  BY Zenon DEF HandlerStart, Poll, StepRq, StepCq, cqVars, sqVars, nicVars
<1>2. \/ rd_n' = rd_n /\ pc \in {"start", "poll"} /\ pc' \in {"off", "poll", "process"}
      \/ rd_n' = rd_n /\ pc = "step_rq" /\ pc' = "step_cq"
      \/ rd_n' = rd_n + 1 /\ pc = "step_cq" /\ pc' = "poll"
  BY Zenon DEF HandlerStart, Poll, StepRq, StepCq, cqVars
<1>3. /\ Rung' = Rung
      /\ (rd_n + At({"writeback", "ring", "step_rq", "step_cq"}))'
           = rd_n + At({"writeback", "ring", "step_rq", "step_cq"})
      /\ (rd_n + At({"ring", "step_rq", "step_cq"}))'
           = rd_n + At({"ring", "step_rq", "step_cq"})
  BY <1>2, Counts DEF Rung, At
<1>4. SendCounterInv'
  BY Zenon, <1>1, <1>3 DEF EchoInv, SendCounterInv
<1>5. SendInv'
  BY Zenon, <1>1, <1>3 DEF EchoInv, SendInv, Rewritten, Entry
<1>6. WaitInv'
  <2>1. CASE rd_n' = rd_n
    <3>1. pc' \in {"off", "poll", "process"} => pc \in {"start", "poll"}
      BY <1>2, <2>1, Counts
    <3>2. QED
      BY Zenon, <1>1, <2>1, <1>2, <3>1 DEF EchoInv, WaitInv, AsReceived
  <2>2. CASE rd_n' = rd_n + 1
    <3>1. \A i \in rd_n'..(rx_n - 1) : i \in rd_n..(rx_n - 1) /\ i > rd_n
      BY <2>2, Counts
    <3>2. QED
      BY Zenon, <1>1, <3>1 DEF EchoInv, WaitInv, AsReceived
  <2>3. QED
    BY Zenon, <1>2, <2>1, <2>2
<1>7. WorkInv'
  BY Zenon, <1>2 DEF WorkInv
<1>8. QED
  BY Zenon, <1>4, <1>5, <1>6, <1>7 DEF EchoInv

\* Every step keeps EchoInv.
LEMMA EchoInvNext ==
  ASSUME MaxInFlight <= Depth
  PROVE  EchoInv /\ [Next]_vars => EchoInv'
<1> SUFFICES ASSUME EchoInv, [Next]_vars PROVE EchoInv'
  BY Zenon
<1>1. RingInv'
  BY Zenon, RingInvNext DEF EchoInv
<1>2. CASE UNCHANGED vars
  <2>1. UNCHANGED <<rd_n, rx_n, tx_n, rxbuf, sqe, sq_wqe_seg_idx, sq_pi, sq_db, cur, wb, pc>>
    BY Zenon, <1>2 DEF vars, cqVars, sqVars, nicVars
  <2>2. QED
    BY Zenon, <1>1, <2>1 DEF EchoInv, SendCounterInv, SendInv, WaitInv, WorkInv, Rung, At,
                      AsReceived, Rewritten, Entry
<1>3. CASE \E f \in Frames : NicReceive(f)
  BY Zenon, <1>1, <1>3, EchoInvReceive
<1>4. QED
  BY Zenon, <1>1, <1>2, <1>3, EchoInvHost, EchoInvTransmit, EchoInvHdrVisible, EchoInvSqeVisible,
     EchoInvPrepare, EchoInvRing, EchoInvStep DEF Next, Handler

\* EchoInv holds while at most Depth packets are in flight.
LEMMA EchoInvariant ==
  ASSUME MaxInFlight <= Depth
  PROVE  Spec => []EchoInv
<1>1. Init => EchoInv
  BY Zenon, EchoInvInit
<1>2. EchoInv /\ [Next]_vars => EchoInv'
  BY Zenon, EchoInvNext
<1>3. QED
  BY <1>1, <1>2, PTL DEF Spec
----------------------------------------------------------------------------
(* What follows *)

\* The packet the NIC transmits: the oldest one it has not sent, rewritten.
LEMMA Transmitted ==
  ASSUME EchoInv, NicTransmit
  PROVE  LET p == rxbuf[Slot(tx_n)]
         IN  /\ tx_n < rx_n /\ p \in Packets
             /\ wire' = [id |-> tx_n, orig |-> p.orig, hdr |-> Reflected(p.orig.hdr),
                         len |-> p.orig.len]
<1> DEFINE p == rxbuf[Slot(tx_n)]
<1>1. sq_db # tx_n % WqeMod
  BY Zenon DEF NicTransmit
<1>2. tx_n < Rung
  BY <1>1, Counts DEF EchoInv, SendCounterInv
<1>3. tx_n \in tx_n..(Rung - 1) /\ tx_n \in tx_n..(rx_n - 1) /\ tx_n < rx_n
  BY <1>2, Counts
<1>4. p \in Packets /\ p.id = tx_n
  BY Zenon, <1>3, InFlight
<1>5. p.hdr = SwapMac(p.orig.hdr) /\ sqe[Slot(tx_n)] = [buf |-> Slot(tx_n), len |-> p.orig.len]
  BY Zenon, <1>3 DEF EchoInv, SendInv, Rewritten, Entry
<1>6. p.orig.hdr \in Hdr
  BY Zenon, <1>4, FramesAssumption DEF Packets
<1>7. p.hdr = Reflected(p.orig.hdr)
  BY Zenon, <1>5, <1>6, SwapMacReflects
<1>8. wire' = [id |-> p.id, orig |-> p.orig, hdr |-> p.hdr, len |-> p.orig.len]
  <2>1. sqe[Slot(tx_n)].buf = Slot(tx_n) /\ sqe[Slot(tx_n)].len = p.orig.len
    BY <1>5
  <2>2. QED
    BY Zenon, <2>1 DEF NicTransmit
<1>9. QED
  BY ZenonT(30), <1>3, <1>4, <1>7, <1>8

\* With at most Depth packets between the NIC's two sides, the k-th packet
\* process_packet's thread puts on the wire is the k-th received, addressed
\* back to its sender, for every depth, counter width and packet count.
THEOREM EchoesInOrder ==
  ASSUME MaxInFlight <= Depth
  PROVE  Spec => []EchoInOrder
<1>1. Init => EchoInOrder
  BY Zenon DEF Init, EchoInOrder
<1>2. EchoInv /\ EchoInOrder /\ [Next]_vars => EchoInOrder'
  <2> SUFFICES ASSUME EchoInv, EchoInOrder, [Next]_vars PROVE EchoInOrder'
    BY Zenon
  <2>1. CASE NicTransmit
    <3> DEFINE p == rxbuf[Slot(tx_n)]
    <3>1. wire' = [id |-> tx_n, orig |-> p.orig, hdr |-> Reflected(p.orig.hdr),
                   len |-> p.orig.len]
      BY Zenon, <2>1, Transmitted
    <3> HIDE DEF p
    <3>2. tx_n' = tx_n + 1 /\ tx_n \in Nat
      BY Zenon, <2>1, Counts DEF NicTransmit
    <3>3. QED
      BY <3>1, <3>2 DEF EchoInOrder
  <2>2. CASE ~NicTransmit
    <3>1. UNCHANGED <<tx_n, wire>>
      BY Zenon, <2>2 DEF Next, vars, nicVars, Handler, DeviceInit, CreateRule, EventHandlerRun,
        NicReceive, HdrVisible, SqeVisible, HandlerStart, Poll, ProcessPacket, PrepareSend,
        Writeback, RingDoorbell, StepRq, StepCq
    <3>2. QED
      BY Zenon, <3>1 DEF EchoInOrder
  <2>3. QED
    BY Zenon, <2>1, <2>2
<1>3. QED
  BY <1>1, <1>2, EchoInvariant, PTL DEF Spec

\* The abstract queue as a sequence.
LEMMA WaitingIsSeq ==
  ASSUME EchoInv
  PROVE  /\ Waiting \in Seq(Frames) /\ Len(Waiting) = rx_n - tx_n
         /\ DOMAIN Waiting = 1..(rx_n - tx_n)
<1>1. rx_n - tx_n \in Nat
  BY Counts
<1>2. \A j \in 1..(rx_n - tx_n) : rxbuf[Slot(tx_n + j - 1)].orig \in Frames
  <2> SUFFICES ASSUME NEW j \in 1..(rx_n - tx_n)
               PROVE  rxbuf[Slot(tx_n + j - 1)].orig \in Frames
    BY Zenon
  <2>1. tx_n + j - 1 \in tx_n..(rx_n - 1)
    BY Counts
  <2>2. QED
    BY Zenon, <2>1, InFlight DEF Packets
<1>3. Waiting \in [1..(rx_n - tx_n) -> Frames]
  BY Zenon, <1>2 DEF Waiting
<1>4. QED
  BY <1>1, <1>3

\* An initial state of the rings maps to an initial state of the reflector.
LEMMA RefineInit == Init => Abstract!Init
<1> SUFFICES ASSUME Init PROVE Waiting = <<>> /\ LastOut = NoPacket
  BY Zenon DEF Abstract!Init
<1>1. EchoInv /\ rx_n = 0 /\ tx_n = 0 /\ wire = NoPacket
  BY Zenon, EchoInvInit DEF Init
<1>2. Waiting \in Seq(Frames) /\ Len(Waiting) = 0
  BY <1>1, WaitingIsSeq
<1>3. QED
  BY <1>1, <1>2 DEF LastOut

\* Receiving a packet is the reflector's receive.
LEMMA RefineReceive ==
  ASSUME EchoInv, EchoInv', MaxInFlight <= Depth, NEW f \in Frames, NicReceive(f)
  PROVE  Abstract!Receive(f)
<1>1. /\ rxbuf' = [rxbuf EXCEPT ![Slot(rx_n)] = [id |-> rx_n, orig |-> f, hdr |-> f.hdr]]
      /\ rx_n' = rx_n + 1 /\ rx_n - tx_n < MaxInFlight /\ tx_n' = tx_n /\ wire' = wire
  BY Zenon DEF NicReceive
<1>2. Slot(rx_n) \in Slots /\ rx_n \in Int /\ rxbuf'[Slot(rx_n)].orig = f
  <2>1. rx_n \in Int /\ Slot(rx_n) \in Slots
    BY Counts, SlotFacts
  <2>2. DOMAIN rxbuf = Slots
    BY Zenon DEF EchoInv, RingInv, TypeOK
  <2>3. QED
    BY Zenon, <1>1, <2>1, <2>2
<1>3. rx_n - tx_n < Depth
  BY <1>1, Counts, BoundAssumption
<1>4. \A j \in 1..(rx_n - tx_n) : rxbuf'[Slot(tx_n + j - 1)] = rxbuf[Slot(tx_n + j - 1)]
  <2> SUFFICES ASSUME NEW j \in 1..(rx_n - tx_n)
               PROVE  rxbuf'[Slot(tx_n + j - 1)] = rxbuf[Slot(tx_n + j - 1)]
    BY Zenon
  <2> DEFINE i == tx_n + j - 1
  <2>1. i \in Int /\ i < rx_n /\ rx_n < i + Depth
    BY <1>3, Counts
  <2> HIDE DEF i
  <2>2. Slot(i) \in Slots /\ Slot(i) # Slot(rx_n)
    BY Zenon, <1>2, <2>1, SlotDistinct, SlotFacts
  <2>3. rxbuf'[Slot(i)] = rxbuf[Slot(i)]
    BY Zenon, <1>1, <2>2 DEF EchoInv, RingInv, TypeOK
  <2>4. QED
    BY Zenon, <2>3 DEF i
<1>5. /\ Waiting' = [j \in DOMAIN Waiting' |-> Waiting'[j]]
      /\ DOMAIN Waiting' = 1..(rx_n + 1 - tx_n)
      /\ \A j \in 1..(rx_n + 1 - tx_n) : Waiting'[j] = rxbuf'[Slot(tx_n + j - 1)].orig
  <2>1. Waiting' = [j \in 1..(rx_n' - tx_n') |-> rxbuf'[Slot(tx_n' + j - 1)].orig]
    BY Zenon DEF Waiting, Slot
  <2>2. Waiting' = [j \in DOMAIN Waiting' |-> Waiting'[j]]
    BY Zenon, <2>1
  <2>3. DOMAIN Waiting' = 1..(rx_n' - tx_n')
    BY Zenon, <2>1
  <2>4. \A j \in DOMAIN Waiting' : Waiting'[j] = rxbuf'[Slot(tx_n' + j - 1)].orig
    BY Zenon, <2>1
  <2>5. rx_n' = rx_n + 1 /\ tx_n' = tx_n
    BY Zenon, <1>1
  <2>6. DOMAIN Waiting' = 1..(rx_n + 1 - tx_n)
    BY <2>3, <2>5, Counts
  <2>7. QED
    BY Zenon, <2>2, <2>4, <2>5, <2>6
<1>6. Waiting' = Append(Waiting, f)
  <2>1. /\ Append(Waiting, f) \in Seq(Frames)
        /\ Len(Append(Waiting, f)) = rx_n - tx_n + 1
        /\ \A j \in 1..(rx_n - tx_n) : Append(Waiting, f)[j] = Waiting[j]
        /\ Append(Waiting, f)[rx_n - tx_n + 1] = f
    BY WaitingIsSeq
  <2>2. /\ DOMAIN Append(Waiting, f) = 1..(rx_n - tx_n + 1)
        /\ Append(Waiting, f) = [j \in DOMAIN Append(Waiting, f) |-> Append(Waiting, f)[j]]
    <3>1. Append(Waiting, f) \in [1..(rx_n - tx_n + 1) -> Frames]
      BY Zenon, <2>1, LenProperties
    <3>2. QED
      BY Zenon, <3>1
  <2>3. \A j \in 1..(rx_n - tx_n + 1) : Waiting'[j] = Append(Waiting, f)[j]
    <3> SUFFICES ASSUME NEW j \in 1..(rx_n - tx_n + 1)
                 PROVE  Waiting'[j] = Append(Waiting, f)[j]
      BY Zenon
    <3>1. CASE j = rx_n - tx_n + 1
      <4>0. tx_n + j - 1 = rx_n /\ j \in 1..(rx_n + 1 - tx_n)
        BY <3>1, Counts
      <4>1. Waiting'[j] = rxbuf'[Slot(tx_n + j - 1)].orig
        BY Zenon, <1>5, <4>0
      <4>2. QED
        BY Zenon, <1>2, <2>1, <3>1, <4>0, <4>1
    <3>2. CASE j # rx_n - tx_n + 1
      <4>1. j \in 1..(rx_n - tx_n)
        BY <3>2, Counts
      <4>2. Waiting'[j] = Waiting[j]
        <5>1. Waiting'[j] = rxbuf'[Slot(tx_n + j - 1)].orig
          BY SMTT(30), <1>5, <4>1, Counts
        <5>2. Waiting[j] = rxbuf[Slot(tx_n + j - 1)].orig
          BY Zenon, <4>1 DEF Waiting
        <5>3. QED
          BY Zenon, <1>4, <4>1, <5>1, <5>2
      <4>3. QED
        BY Zenon, <2>1, <4>1, <4>2
    <3>3. QED
      BY Zenon, <3>1, <3>2
  <2>4. rx_n + 1 - tx_n = rx_n - tx_n + 1
    BY Counts
  <2>5. QED
    BY Zenon, <1>5, <2>2, <2>3, <2>4
<1>7. LastOut' = LastOut
  BY Zenon, <1>1 DEF LastOut
<1>8. QED
  BY Zenon, <1>3, <1>6, <1>7, WaitingIsSeq DEF Abstract!Receive

\* Transmitting a frame is the reflector's send.
LEMMA RefineTransmit ==
  ASSUME EchoInv, NicTransmit
  PROVE  Abstract!Send
<1> DEFINE p == rxbuf[Slot(tx_n)]
<1>1. /\ tx_n < rx_n /\ p \in Packets
      /\ wire' = [id |-> tx_n, orig |-> p.orig, hdr |-> Reflected(p.orig.hdr),
                  len |-> p.orig.len]
  BY Zenon, Transmitted
<1>2. tx_n' = tx_n + 1 /\ rx_n' = rx_n /\ rxbuf' = rxbuf
  BY Zenon DEF NicTransmit
<1>3. /\ Waiting \in Seq(Frames) /\ Len(Waiting) = rx_n - tx_n /\ Waiting # <<>>
      /\ Waiting[1] = p.orig /\ Head(Waiting) = p.orig
  <2>1. Waiting \in Seq(Frames) /\ Len(Waiting) = rx_n - tx_n /\ Waiting # <<>>
    BY SMTT(30), <1>1, Counts, WaitingIsSeq
  <2>2. 1 \in 1..(rx_n - tx_n) /\ tx_n + 1 - 1 = tx_n
    BY <1>1, Counts
  <2>3. Waiting[1] = p.orig
    BY Zenon, <2>2 DEF Waiting
  <2>4. QED
    BY <2>1, <2>3
<1> HIDE DEF p
<1>4. LastOut' = Abstract!Reply(Head(Waiting))
  <2>1. wire' # NoPacket
    BY Zenon, <1>1, Counts DEF NoPacket
  <2>2. Abstract!Reflected(p.orig.hdr) = Reflected(p.orig.hdr)
    BY Zenon DEF Reflected, Abstract!Reflected, HdrLen, Abstract!HdrLen
  <2>3. LastOut' = [hdr |-> Reflected(p.orig.hdr), len |-> p.orig.len]
    BY Zenon, <1>1, <2>1 DEF LastOut, NoPacket
  <2>4. QED
    BY Zenon, <1>3, <2>2, <2>3 DEF Abstract!Reply
<1>5. Waiting' = Tail(Waiting)
  <2>1. Waiting' = [j \in 1..(rx_n' - tx_n') |-> rxbuf'[Slot(tx_n' + j - 1)].orig]
    BY Zenon DEF Waiting, Slot
  <2>2. Waiting' = [j \in DOMAIN Waiting' |-> Waiting'[j]]
    BY Zenon, <2>1
  <2>3. DOMAIN Waiting' = 1..(rx_n' - tx_n')
    BY Zenon, <2>1
  <2>4. \A j \in DOMAIN Waiting' : Waiting'[j] = rxbuf'[Slot(tx_n' + j - 1)].orig
    BY Zenon, <2>1
  <2>5. DOMAIN Waiting' = 1..(rx_n - tx_n - 1)
    BY <1>2, <2>3, Counts
  <2>6. /\ Tail(Waiting) \in Seq(Frames) /\ Len(Tail(Waiting)) = rx_n - tx_n - 1
        /\ \A j \in 1..(rx_n - tx_n - 1) : Tail(Waiting)[j] = Waiting[j + 1]
    BY ZenonT(30), <1>3, HeadTailProperties
  <2>7. /\ DOMAIN Tail(Waiting) = 1..(rx_n - tx_n - 1)
        /\ Tail(Waiting) = [j \in DOMAIN Tail(Waiting) |-> Tail(Waiting)[j]]
    <3>1. Tail(Waiting) \in [1..(rx_n - tx_n - 1) -> Frames]
      BY Zenon, <2>6, LenProperties
    <3>2. QED
      BY Zenon, <3>1
  <2>8. \A j \in 1..(rx_n - tx_n - 1) : Waiting'[j] = Tail(Waiting)[j]
    <3> SUFFICES ASSUME NEW j \in 1..(rx_n - tx_n - 1)
                 PROVE  Waiting'[j] = Tail(Waiting)[j]
      BY Zenon
    <3>1. Waiting'[j] = rxbuf[Slot(tx_n + 1 + j - 1)].orig
      BY Zenon, <1>2, <2>4, <2>5
    <3>2. Tail(Waiting)[j] = Waiting[j + 1] /\ j + 1 \in 1..(rx_n - tx_n)
      BY SMTT(30), <2>6, Counts
    <3>3. Waiting[j + 1] = rxbuf[Slot(tx_n + (j + 1) - 1)].orig
      BY Zenon, <3>2 DEF Waiting
    <3>4. tx_n + 1 + j - 1 = tx_n + (j + 1) - 1
      BY Counts
    <3>5. QED
      BY Zenon, <3>1, <3>2, <3>3, <3>4
  <2>9. QED
    BY Zenon, <2>2, <2>5, <2>7, <2>8
<1>6. QED
  BY Zenon, <1>3, <1>4, <1>5 DEF Abstract!Send

\* Every other step leaves the reflector alone.
LEMMA RefineStutter ==
  ASSUME EchoInv, [Next]_vars, ~NicTransmit, ~(\E f \in Frames : NicReceive(f))
  PROVE  UNCHANGED <<Waiting, LastOut>>
<1>1. UNCHANGED <<tx_n, rx_n, wire>>
  BY Zenon DEF Next, vars, nicVars, Handler, DeviceInit, CreateRule, EventHandlerRun, HdrVisible,
    SqeVisible, HandlerStart, Poll, ProcessPacket, PrepareSend, Writeback, RingDoorbell,
    StepRq, StepCq
<1>2. \A s \in Slots : rxbuf[s] \in Packets => rxbuf'[s].orig = rxbuf[s].orig
  <2>1. CASE HdrVisible
    BY Zenon, <2>1 DEF HdrVisible, EchoInv, RingInv, TypeOK, Packets
  <2>2. CASE ~HdrVisible
    BY Zenon, <2>2 DEF Next, vars, Handler, DeviceInit, CreateRule, EventHandlerRun, SqeVisible,
      HandlerStart, Poll, ProcessPacket, PrepareSend, Writeback, RingDoorbell, StepRq, StepCq
  <2>3. QED
    BY Zenon, <2>1, <2>2
<1>3. Waiting' = [j \in 1..(rx_n' - tx_n') |-> rxbuf'[Slot(tx_n' + j - 1)].orig]
  BY Zenon DEF Waiting, Slot
<1>4. Waiting' = [j \in 1..(rx_n - tx_n) |-> rxbuf'[Slot(tx_n + j - 1)].orig]
  BY Zenon, <1>1, <1>3
<1>5. \A j \in 1..(rx_n - tx_n) :
        rxbuf'[Slot(tx_n + j - 1)].orig = rxbuf[Slot(tx_n + j - 1)].orig
  <2> SUFFICES ASSUME NEW j \in 1..(rx_n - tx_n)
               PROVE  rxbuf'[Slot(tx_n + j - 1)].orig = rxbuf[Slot(tx_n + j - 1)].orig
    BY Zenon
  <2>1. tx_n + j - 1 \in tx_n..(rx_n - 1)
    BY Counts
  <2>2. QED
    BY Zenon, <1>2, <2>1, InFlight
<1>6. Waiting' = Waiting
  BY Zenon, <1>4, <1>5 DEF Waiting
<1>7. LastOut' = LastOut
  BY Zenon, <1>1 DEF LastOut
<1>8. QED
  BY Zenon, <1>6, <1>7

\* The rings, doorbells and owner bits of the event handler implement the
\* FIFO reflector, as long as the NIC keeps at most Depth packets between
\* receiving and sending.
THEOREM RingRefinesReflector ==
  ASSUME MaxInFlight <= Depth
  PROVE  Spec => ImplementsReflector
<1>1. Init => Abstract!Init
  BY Zenon, RefineInit
<1>2. EchoInv /\ EchoInv' /\ [Next]_vars => [Abstract!Next]_(Abstract!vars)
  <2> SUFFICES ASSUME EchoInv, EchoInv', [Next]_vars
               PROVE  Abstract!Next \/ UNCHANGED <<Waiting, LastOut>>
    BY Zenon DEF Abstract!vars
  <2>1. CASE \E f \in Frames : NicReceive(f)
    BY Zenon, <2>1, RefineReceive DEF Abstract!Next
  <2>2. CASE NicTransmit
    BY Zenon, <2>2, RefineTransmit DEF Abstract!Next
  <2>3. QED
    BY Zenon, <2>1, <2>2, RefineStutter
<1>3. QED
  BY <1>1, <1>2, EchoInvariant, PTL DEF Spec, ImplementsReflector, Abstract!Spec
=============================================================================
