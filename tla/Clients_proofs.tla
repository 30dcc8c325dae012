--------------------------- MODULE Clients_proofs ---------------------------
(***************************************************************************)
(* Two clients that number what they keep in flight.  ChannelRtt: for any  *)
(* number of requests in flight, the timer read for an answer was started for*)
(* its request.  BankClient: for any number of buffer slots, queue size and*)
(* concurrency, transactions in flight have slots of their own and the queue*)
(* between the two threads loses none.                                     *)
(***************************************************************************)
EXTENDS ChannelRtt, BankClient, FiniteSetTheorems, TLAPS

----------------------------------------------------------------------------
(* Ring indices: a counter taken modulo a ring size *)

\* Division with remainder.
LEMMA DivModExists ==
  ASSUME NEW n \in Nat \ {0}, NEW a \in Int
  PROVE  /\ a = n * (a \div n) + (a % n)
         /\ a \div n \in Int
         /\ a % n \in 0..(n - 1)
  OBVIOUS

\* A quotient and a remainder in range are the ones \div and % give.
LEMMA DivModUnique ==
  ASSUME NEW n \in Nat \ {0}, NEW q \in Int, NEW r \in 0..(n - 1)
  PROVE  /\ (n * q + r) % n = r
         /\ (n * q + r) \div n = q
  OBVIOUS

\* A counter that wraps at a multiple of the ring size still gives the slot.
LEMMA ModMod ==
  ASSUME NEW n \in Nat \ {0}, NEW k \in Nat \ {0}, NEW a \in Int
  PROVE  (a % (n * k)) % n = a % n
<1> DEFINE m == n * k
           q == a \div m
           b == a % m
           p == b \div n
           r == b % n
<1>1. m \in Nat \ {0}
  OBVIOUS
<1>2. a = m * q + b /\ q \in Int /\ b \in 0..(m - 1)
  BY Zenon, <1>1, DivModExists
<1>3. b = n * p + r /\ p \in Int /\ r \in 0..(n - 1)
  BY <1>2, DivModExists
<1> HIDE DEF q, b, p, r
<1>4. a = n * (k * q + p) + r
  BY <1>2, <1>3
<1>5. k * q + p \in Int
  BY <1>2, <1>3
<1>6. a % n = r
  BY Zenon, <1>3, <1>4, <1>5, DivModUnique
<1>7. QED
  BY Zenon, <1>6 DEF r, b

\* One step of a wrapped counter is one step of the counter.
LEMMA ModNext ==
  ASSUME NEW n \in Nat \ {0}, NEW a \in Int
  PROVE  ((a % n) + 1) % n = (a + 1) % n
<1> DEFINE q == a \div n
           r == a % n
<1>1. a = n * q + r /\ q \in Int /\ r \in 0..(n - 1)
  BY Zenon, DivModExists
<1> HIDE DEF q, r
<1>2. CASE r + 1 < n
  <2>1. a + 1 = n * q + (r + 1) /\ r + 1 \in 0..(n - 1) /\ r + 1 = n * 0 + (r + 1)
    BY <1>1, <1>2
  <2>2. (a + 1) % n = r + 1 /\ (r + 1) % n = r + 1
    BY <2>1, <1>1, DivModUnique
  <2>3. QED
    BY Zenon, <2>2 DEF r
<1>3. CASE r + 1 = n
  <2>1. a + 1 = n * (q + 1) + 0 /\ r + 1 = n * 1 + 0 /\ q + 1 \in Int /\ 0 \in 0..(n - 1)
    BY <1>1, <1>3
  <2>2. (a + 1) % n = 0
    BY Zenon, <2>1, DivModUnique
  <2>3. (n * 1 + 0) % n = 0
    BY <2>1, DivModUnique
  <2>4. QED
    BY Zenon, <2>1, <2>2, <2>3, <1>1 DEF r
<1>4. QED
  BY <1>1, <1>2, <1>3

\* A window no longer than the ring never maps two counters to one slot.
LEMMA ModDistinct ==
  ASSUME NEW n \in Nat \ {0}, NEW a \in Int, NEW b \in Int, a < b, b < a + n
  PROVE  a % n # b % n
<1> SUFFICES ASSUME a % n = b % n PROVE FALSE
  BY Zenon
<1> DEFINE p == a \div n
           q == b \div n
           r == a % n
<1>1. a = n * p + r /\ b = n * q + r /\ p \in Int /\ q \in Int /\ r \in 0..(n - 1)
  BY Zenon, DivModExists
<1> HIDE DEF p, q, r
<1>2. b - a = n * (q - p) /\ 0 < b - a /\ b - a < n
  BY <1>1
<1>3. CASE q - p <= 0
  BY <1>1, <1>2, <1>3
<1>4. CASE q - p >= 1
  BY <1>1, <1>2, <1>4
<1>5. QED
  BY <1>1, <1>3, <1>4

\* A whole pass over the ring comes back to the same slot, one pass later.
LEMMA ModPeriod ==
  ASSUME NEW n \in Nat \ {0}, NEW a \in Int
  PROVE  (a + n) % n = a % n /\ (a + n) \div n = (a \div n) + 1
  BY SMTT(30)

----------------------------------------------------------------------------
(* The round trips of channel_bench *)

\* A sequence of consecutive numbers from a on.
Run(s, a) == s \in Seq(Nat) /\ \A i \in 1..Len(s) : s[i] = a + i - 1

\* The number of the next answer, whether the receiver holds a request, and
\* the requests made so far.
Awaited == IF pc["sender"] = "send" THEN now_msg_index + 1 ELSE now_msg_index
InHand == IF pc["receiver"] = "send" THEN 1 ELSE 0
Made == sent + now_msg_index
AtWork(e) == pc[e] \in {"fill", "loop", "recv", "send"}

RttTypes ==
  /\ pc \in [Ends -> {"fill", "loop", "recv", "send", "done", "failed", "thrown"}]
  /\ chan \in [Ends -> Seq(Nat)] /\ sent \in 0..Batch /\ now_msg_index \in Nat /\ hand \in Nat
  /\ timer \in [0..(Batch - 1) -> Nat]

\* The number of the first request that the receiver has still to take.
Untaken == Awaited + Len(chan["sender"]) + InHand
TimersRun(tm, a, b) == \A n \in a..(b - 1) : tm[Slot(n)] = n

\* While the sender is at work: the answers, the request in the receiver's
\* hand and the requests on the channel are numbered without a gap, and the
\* timers of the window run for them.
RttInOrder ==
  AtWork("sender") =>
    /\ pc["sender"] = "fill" => now_msg_index = 0 /\ sent < Batch
    /\ pc["sender"] # "fill" => sent = Batch
    /\ Run(chan["sender"], Awaited)
    /\ pc["receiver"] = "send" => hand = Awaited + Len(chan["sender"])
    /\ Untaken <= Made
    /\ AtWork("receiver") => Run(chan["receiver"], Untaken) /\ Untaken + Len(chan["receiver"]) = Made
    /\ TimersRun(timer, Awaited, Made)
RttInv == RttTypes /\ RttInOrder

\* The sizes of the messages on their way.
LEMMA RttNumbers ==
  ASSUME RttTypes
  PROVE  /\ Batch \in Nat \ {0} /\ "sender" \in Ends /\ "receiver" \in Ends
         /\ Len(chan["sender"]) \in Nat /\ Len(chan["receiver"]) \in Nat
         /\ Awaited \in Nat /\ InHand \in {0, 1} /\ Made \in Nat /\ Untaken \in Nat
         /\ sent \in Nat /\ now_msg_index \in Nat /\ Untaken = Awaited + Len(chan["sender"]) + InHand
<1>1. Batch \in Nat \ {0} /\ "sender" \in Ends /\ "receiver" \in Ends
  BY Zenon, BatchAssumption DEF Ends
<1>2. Len(chan["sender"]) \in Nat /\ Len(chan["receiver"]) \in Nat /\ sent \in Nat
  BY <1>1 DEF RttTypes
<1>3. Awaited \in Nat /\ InHand \in {0, 1} /\ Made \in Nat
  BY <1>2 DEF Awaited, InHand, Made, RttTypes
<1> QED  BY <1>1, <1>2, <1>3 DEF RttTypes, Untaken

\* Appending its successor to a run of consecutive numbers gives a run.
LEMMA RunAppend ==
  ASSUME NEW a \in Nat, NEW s, Run(s, a)
  PROVE  Run(Append(s, a + Len(s)), a) /\ Len(Append(s, a + Len(s))) = Len(s) + 1
<1>1. s \in Seq(Nat) /\ Len(s) \in Nat
  BY DEF Run
<1>2. Append(s, a + Len(s)) \in Seq(Nat) /\ Len(Append(s, a + Len(s))) = Len(s) + 1
  BY <1>1
<1>3. ASSUME NEW i \in 1..(Len(s) + 1) PROVE Append(s, a + Len(s))[i] = a + i - 1
  <2>1. CASE i = Len(s) + 1
    BY <1>1, <2>1
  <2>2. CASE i \in 1..Len(s)
    BY <1>1, <2>2 DEF Run
  <2> QED  BY <1>1, <2>1, <2>2
<1> QED  BY Zenon, <1>2, <1>3 DEF Run

\* The tail of a run is a run that starts one later.
LEMMA RunTail ==
  ASSUME NEW a \in Nat, NEW s, Run(s, a), s # <<>>
  PROVE  Run(Tail(s), a + 1) /\ Len(s) = Len(Tail(s)) + 1 /\ Head(s) = a
<1>1. s \in Seq(Nat) /\ Len(s) \in Nat /\ Len(s) > 0
  BY DEF Run
<1>2. Tail(s) \in Seq(Nat) /\ Len(s) = Len(Tail(s)) + 1 /\ \A i \in 1..Len(Tail(s)) : Tail(s)[i] = s[i + 1]
  BY <1>1
<1> QED  BY <1>1, <1>2 DEF Run

\* At first nothing is on its way.
LEMMA RttStarts == Init => RttInv
<1> SUFFICES ASSUME Init PROVE RttInv
  BY Zenon
<1>0. Batch \in Nat \ {0}
  BY Zenon, BatchAssumption
<1>1. RttTypes
  BY <1>0 DEF Init, RttTypes, Ends
<1>2. RttInOrder
  BY <1>0 DEF Init, RttInOrder, Ends, Run, Awaited, InHand, Made, AtWork, Untaken, TimersRun
<1> QED  BY Zenon, <1>1, <1>2 DEF RttInv

\* Nothing is lost: a channel that could be full holds a whole batch.
LEMMA SendFits ==
  ASSUME RttInv, NEW e \in Ends, NEW m \in Nat, SendTo(e, m), Len(chan[e]) < Batch
  PROVE  chan' = [chan EXCEPT ![e] = Append(@, m)]
BY Zenon DEF SendTo, ChannelSize

\* The sender's first batch keeps the order.
LEMMA FillKeeps ==
  ASSUME RttInv, Fill
  PROVE  RttInv'
<1> USE DEF RttInv
<1>0. /\ Batch \in Nat \ {0} /\ "sender" \in Ends /\ "receiver" \in Ends
      /\ Len(chan["sender"]) \in Nat /\ Len(chan["receiver"]) \in Nat
      /\ Awaited \in Nat /\ InHand \in {0, 1} /\ Made \in Nat /\ Untaken \in Nat
      /\ sent \in Nat /\ now_msg_index \in Nat /\ Untaken = Awaited + Len(chan["sender"]) + InHand
  BY Zenon, RttNumbers
<1>1. /\ pc["sender"] = "fill" /\ timer' = [timer EXCEPT ![Slot(sent)] = sent] /\ SendTo("receiver", sent)
      /\ sent' = sent + 1 /\ pc' = [pc EXCEPT !["sender"] = IF sent + 1 = Batch THEN "loop" ELSE "fill"]
      /\ now_msg_index' = now_msg_index /\ hand' = hand
  BY Zenon DEF Fill, Goto
<1>2. AtWork("sender") /\ now_msg_index = 0 /\ sent < Batch
  BY Zenon, <1>1 DEF AtWork, RttInOrder
<1>21. Awaited = 0 /\ Made = sent
  BY <1>0, <1>1, <1>2 DEF Awaited, Made
<1>22. /\ Run(chan["sender"], Awaited) /\ Untaken <= Made /\ TimersRun(timer, Awaited, Made)
       /\ pc["receiver"] = "send" => hand = Awaited + Len(chan["sender"])
       /\ AtWork("receiver") => Run(chan["receiver"], Untaken) /\ Untaken + Len(chan["receiver"]) = Made
  BY Zenon, <1>2 DEF RttInOrder
<1>4. pc'["sender"] \in {"fill", "loop"} /\ pc'["receiver"] = pc["receiver"]
  BY Zenon, <1>0, <1>1 DEF RttTypes
<1>5. chan'["sender"] = chan["sender"] /\ chan' \in [Ends -> Seq(Nat)]
  BY <1>0, <1>1 DEF SendTo, RttTypes, Ends
<1>6. AtWork("receiver") => chan'["receiver"] = Append(chan["receiver"], sent)
  <2>1. AtWork("receiver") => Len(chan["receiver"]) < Batch
    <3>1. \A u, l \in Nat : u + l = sent => l < Batch
      BY <1>0, <1>2
    <3>2. AtWork("receiver") => Untaken + Len(chan["receiver"]) = sent
      BY Zenon, <1>21, <1>22
    <3> QED  BY <1>0, <3>1, <3>2, Zenon
  <2>2. AtWork("receiver") => chan' = [chan EXCEPT !["receiver"] = Append(@, sent)]
    BY Zenon, <1>0, <1>1, <2>1, SendFits
  <2> QED  BY Zenon, <1>0, <2>2 DEF RttTypes
<1>7. /\ Awaited' = 0 /\ Made' = sent + 1 /\ InHand' = InHand
      /\ AtWork("receiver")' <=> AtWork("receiver")
  BY <1>0, <1>1, <1>2, <1>4 DEF Awaited, Made, InHand, AtWork
<1>71. Untaken' = Untaken
  BY Zenon, <1>0, <1>5, <1>7, <1>21 DEF Untaken
<1>8. \A n \in 0..sent : Slot(n) = n
  BY <1>0, <1>2 DEF Slot
<1>9. TimersRun(timer', 0, sent + 1)
  <2>1. \A n \in 0..(sent - 1) : timer[n] = n
    BY <1>0, <1>8, <1>21, <1>22 DEF TimersRun
  <2>2. \A n \in 0..sent : timer'[n] = n
    BY SMTT(30), <1>0, <1>1, <1>2, <1>8, <2>1 DEF RttTypes
  <2> QED  BY <1>0, <1>8, <2>2 DEF TimersRun
<1>10. RttTypes'
  <2>1. timer' \in [0..(Batch - 1) -> Nat]
    BY Zenon, <1>0, <1>1 DEF RttTypes
  <2>2. sent' \in 0..Batch
    BY <1>0, <1>1, <1>2
  <2>3. pc' \in [Ends -> {"fill", "loop", "recv", "send", "done", "failed", "thrown"}]
    BY Zenon, <1>1 DEF RttTypes
  <2> QED  BY Zenon, <1>1, <1>5, <2>1, <2>2, <2>3 DEF RttTypes
<1>11. AtWork("receiver") => Run(chan'["receiver"], Untaken) /\ Untaken + Len(chan'["receiver"]) = sent + 1
  <2> SUFFICES ASSUME AtWork("receiver")
               PROVE  Run(chan'["receiver"], Untaken) /\ Untaken + Len(chan'["receiver"]) = sent + 1
    BY Zenon
  <2>1. Run(chan["receiver"], Untaken) /\ sent = Untaken + Len(chan["receiver"])
    BY Zenon, <1>21, <1>22
  <2>2. /\ Run(Append(chan["receiver"], Untaken + Len(chan["receiver"])), Untaken)
        /\ Len(Append(chan["receiver"], Untaken + Len(chan["receiver"]))) = Len(chan["receiver"]) + 1
    BY <1>0, <2>1, RunAppend, Zenon
  <2>3. chan'["receiver"] = Append(chan["receiver"], Untaken + Len(chan["receiver"]))
    BY <1>6, <2>1, Zenon
  <2>4. \A u, l \in Nat : sent = u + l => u + (l + 1) = sent + 1
    BY <1>0
  <2>5. Untaken + (Len(chan["receiver"]) + 1) = sent + 1
    BY <1>0, <2>1, <2>4, Zenon
  <2> QED  BY <2>2, <2>3, <2>5, Zenon
<1>12. /\ pc'["sender"] = "fill" => sent + 1 < Batch
       /\ pc'["sender"] # "fill" => sent + 1 = Batch
  BY <1>0, <1>1, <1>2 DEF RttTypes
<1>13. RttInOrder'
  <2>1. Untaken' <= Made'
    BY <1>0, <1>7, <1>71, <1>21, <1>22
  <2>2. AtWork("receiver")' => Run(chan'["receiver"], Untaken') /\ Untaken' + Len(chan'["receiver"]) = Made'
    BY Zenon, <1>7, <1>71, <1>11
  <2>3. Run(chan'["sender"], Awaited')
    BY Zenon, <1>5, <1>7, <1>21, <1>22
  <2>4. pc'["receiver"] = "send" => hand' = Awaited' + Len(chan'["sender"])
    BY Zenon, <1>1, <1>4, <1>5, <1>7, <1>21, <1>22
  <2>5. TimersRun(timer', Awaited', Made')
    BY Zenon, <1>7, <1>9
  <2>6. /\ pc'["sender"] = "fill" => now_msg_index' = 0 /\ sent' < Batch
        /\ pc'["sender"] # "fill" => sent' = Batch
    BY Zenon, <1>1, <1>2, <1>12
  <2> QED  BY Zenon, <2>1, <2>2, <2>3, <2>4, <2>5, <2>6 DEF RttInOrder, TimersRun
<1> QED  BY Zenon, <1>10, <1>13

\* Steps that only move one end.
LEMMA MoveKeeps ==
  ASSUME RttInv, NEW e \in Ends, NEW l, Goto(e, l), UNCHANGED <<chan, sent, now_msg_index, timer, hand>>,
         \/ pc[e] = "loop" /\ l = "recv"
         \/ l \in {"done", "failed", "thrown"}
  PROVE  RttInv'
<1> USE DEF RttInv
<1>0. /\ Batch \in Nat \ {0} /\ "sender" \in Ends /\ "receiver" \in Ends
      /\ Len(chan["sender"]) \in Nat /\ Len(chan["receiver"]) \in Nat
      /\ Awaited \in Nat /\ InHand \in {0, 1} /\ Made \in Nat /\ Untaken \in Nat
      /\ sent \in Nat /\ now_msg_index \in Nat /\ Untaken = Awaited + Len(chan["sender"]) + InHand
  BY Zenon, RttNumbers
<1>1. pc' = [pc EXCEPT ![e] = l] /\ l \in {"recv", "done", "failed", "thrown"}
  BY Zenon DEF Goto
<1>2. RttTypes'
  BY Zenon, <1>1 DEF RttTypes
<1>22. AtWork("sender") =>
         /\ pc["sender"] = "fill" => now_msg_index = 0 /\ sent < Batch
         /\ pc["sender"] # "fill" => sent = Batch
         /\ Run(chan["sender"], Awaited) /\ Untaken <= Made /\ TimersRun(timer, Awaited, Made)
         /\ pc["receiver"] = "send" => hand = Awaited + Len(chan["sender"])
         /\ AtWork("receiver") => Run(chan["receiver"], Untaken) /\ Untaken + Len(chan["receiver"]) = Made
  BY Zenon DEF RttInOrder
<1>3. RttInOrder'
  <2> SUFFICES ASSUME AtWork("sender")' PROVE RttInOrder'
    BY Zenon DEF RttInOrder
  <2>0. e \in {"sender", "receiver"}
    BY Zenon DEF Ends
  <2>7. CASE e = "sender"
    <3>1. pc["sender"] = "loop" /\ pc'["sender"] = "recv" /\ pc'["receiver"] = pc["receiver"]
      BY Zenon, <1>0, <1>1, <2>7 DEF AtWork, RttTypes
    <3>2. /\ AtWork("sender") /\ (AtWork("receiver")' <=> AtWork("receiver"))
          /\ Awaited' = Awaited /\ InHand' = InHand /\ Made' = Made
      BY Zenon, <3>1 DEF AtWork, Awaited, InHand, Made
    <3>3. Untaken' = Untaken
      BY Zenon, <3>2 DEF Untaken
    <3> QED  BY Zenon, <1>22, <3>1, <3>2, <3>3 DEF RttInOrder, TimersRun
  <2>8. CASE e = "receiver"
    <3>1. pc'["sender"] = pc["sender"] /\ pc'["receiver"] = l
      BY Zenon, <1>0, <1>1, <2>8 DEF RttTypes
    <3>2. AtWork("sender") /\ Awaited' = Awaited /\ InHand' = 0 /\ Made' = Made
      BY Zenon, <1>1, <3>1 DEF AtWork, Awaited, InHand, Made
    <3>3. Untaken' = Awaited + Len(chan["sender"])
      BY <1>0, <3>2 DEF Untaken
    <3>4. Untaken' <= Made'
      <4>1. Awaited + Len(chan["sender"]) <= Untaken
        BY <1>0
      <4> QED  BY <1>0, <1>22, <3>2, <3>3, <4>1
    <3>5. AtWork("receiver")' => /\ Run(chan'["receiver"], Untaken') /\ Untaken' + Len(chan'["receiver"]) = Made'
      <4>1. CASE l = "recv" /\ pc["receiver"] = "loop"
        <5>1. AtWork("receiver") /\ InHand = 0
          BY Zenon, <4>1 DEF AtWork, InHand
        <5>2. Untaken' = Untaken
          BY <1>0, <3>3, <5>1
        <5> QED  BY Zenon, <1>22, <3>2, <5>1, <5>2
      <4>2. CASE l \in {"done", "failed", "thrown"}
        BY Zenon, <3>1, <4>2 DEF AtWork
      <4> QED  BY Zenon, <2>8, <4>1, <4>2
    <3> QED  BY Zenon, <1>1, <1>22, <3>1, <3>2, <3>4, <3>5 DEF RttInOrder, TimersRun
  <2> QED  BY Zenon, <2>0, <2>7, <2>8
<1> QED  BY Zenon, <1>2, <1>3

\* The receiver's taking of a request keeps the order.
LEMMA TakeRequestKeeps ==
  ASSUME RttInv, TakeRequest
  PROVE  RttInv'
<1> USE DEF RttInv
<1>0. /\ Batch \in Nat \ {0} /\ "sender" \in Ends /\ "receiver" \in Ends
      /\ Len(chan["sender"]) \in Nat /\ Len(chan["receiver"]) \in Nat
      /\ Awaited \in Nat /\ InHand \in {0, 1} /\ Made \in Nat /\ Untaken \in Nat
      /\ sent \in Nat /\ now_msg_index \in Nat /\ Untaken = Awaited + Len(chan["sender"]) + InHand
  BY Zenon, RttNumbers
<1>22. AtWork("sender") =>
         /\ pc["sender"] = "fill" => now_msg_index = 0 /\ sent < Batch
         /\ pc["sender"] # "fill" => sent = Batch
         /\ Run(chan["sender"], Awaited) /\ Untaken <= Made /\ TimersRun(timer, Awaited, Made)
         /\ pc["receiver"] = "send" => hand = Awaited + Len(chan["sender"])
         /\ AtWork("receiver") => Run(chan["receiver"], Untaken) /\ Untaken + Len(chan["receiver"]) = Made
  BY Zenon DEF RttInOrder
<1>1. /\ pc["receiver"] = "recv" /\ chan["receiver"] # <<>> /\ hand' = Head(chan["receiver"])
      /\ chan' = [chan EXCEPT !["receiver"] = Tail(@)] /\ pc' = [pc EXCEPT !["receiver"] = "send"]
      /\ sent' = sent /\ now_msg_index' = now_msg_index /\ timer' = timer
  BY Zenon DEF TakeRequest, Goto
<1>2. /\ chan'["sender"] = chan["sender"] /\ chan'["receiver"] = Tail(chan["receiver"])
      /\ pc'["sender"] = pc["sender"] /\ pc'["receiver"] = "send"
  BY Zenon, <1>0, <1>1 DEF RttTypes
<1>3. RttTypes'
  <2>1. chan["receiver"] \in Seq(Nat)
    BY Zenon, <1>0 DEF RttTypes
  <2>2. hand' \in Nat /\ Tail(chan["receiver"]) \in Seq(Nat)
    BY <1>1, <2>1
  <2>3. chan' \in [Ends -> Seq(Nat)]
    BY Zenon, <1>1, <2>2 DEF RttTypes
  <2> QED  BY Zenon, <1>1, <2>2, <2>3 DEF RttTypes
<1>4. /\ Awaited' = Awaited /\ InHand = 0 /\ InHand' = 1 /\ Made' = Made /\ AtWork("receiver")
      /\ AtWork("sender")' <=> AtWork("sender")
  BY Zenon, <1>1, <1>2 DEF Awaited, InHand, Made, AtWork
<1>5. Untaken' = Untaken + 1 /\ Untaken = Awaited + Len(chan["sender"])
  BY <1>0, <1>2, <1>4 DEF Untaken
<1>6. RttInOrder'
  <2> SUFFICES ASSUME AtWork("sender") PROVE RttInOrder'
    BY Zenon, <1>4 DEF RttInOrder
  <2>0. /\ Run(Tail(chan["receiver"]), Untaken + 1) /\ Len(chan["receiver"]) = Len(Tail(chan["receiver"])) + 1
        /\ Head(chan["receiver"]) = Untaken
    BY <1>0, <1>1, <1>4, <1>22, RunTail, Zenon
  <2>01. Len(Tail(chan["receiver"])) \in Nat
    BY <2>0 DEF Run
  <2>03. Untaken + (Len(Tail(chan["receiver"])) + 1) = Made
    BY <1>4, <1>22, <2>0, Zenon
  <2>04. Untaken + 1 + Len(Tail(chan["receiver"])) = Made /\ Untaken + 1 <= Made
    <3> DEFINE k == Len(Tail(chan["receiver"]))
    <3>1. k \in Nat /\ Untaken + (k + 1) = Made
      BY Zenon, <2>01, <2>03
    <3>2. Untaken \in Nat /\ Made \in Nat
      BY Zenon, <1>0
    <3> HIDE DEF k
    <3>3. Untaken + 1 + k = Made /\ Untaken + 1 <= Made
      BY <3>1, <3>2
    <3> QED  BY Zenon, <3>3 DEF k
  <2>1. Untaken' <= Made'
    BY <1>4, <1>5, <2>04, Zenon
  <2>2. AtWork("receiver")' => Run(chan'["receiver"], Untaken') /\ Untaken' + Len(chan'["receiver"]) = Made'
    BY <1>2, <1>4, <1>5, <2>0, <2>04, Zenon
  <2>3. Run(chan'["sender"], Awaited')
    BY Zenon, <1>2, <1>4, <1>22
  <2>4. pc'["receiver"] = "send" => hand' = Awaited' + Len(chan'["sender"])
    BY Zenon, <1>1, <1>2, <1>4, <1>5, <2>0
  <2>5. TimersRun(timer', Awaited', Made')
    BY Zenon, <1>1, <1>4, <1>22
  <2>6. /\ pc'["sender"] = "fill" => now_msg_index' = 0 /\ sent' < Batch
        /\ pc'["sender"] # "fill" => sent' = Batch
    BY Zenon, <1>1, <1>2, <1>22
  <2> QED  BY Zenon, <2>1, <2>2, <2>3, <2>4, <2>5, <2>6 DEF RttInOrder, TimersRun
<1> QED  BY Zenon, <1>3, <1>6

\* The receiver's answer keeps the order.
LEMMA AnswerKeeps ==
  ASSUME RttInv, Answer
  PROVE  RttInv'
<1> USE DEF RttInv
<1>0. /\ Batch \in Nat \ {0} /\ "sender" \in Ends /\ "receiver" \in Ends
      /\ Len(chan["sender"]) \in Nat /\ Len(chan["receiver"]) \in Nat
      /\ Awaited \in Nat /\ InHand \in {0, 1} /\ Made \in Nat /\ Untaken \in Nat
      /\ sent \in Nat /\ now_msg_index \in Nat /\ Untaken = Awaited + Len(chan["sender"]) + InHand
  BY Zenon, RttNumbers
<1>22. AtWork("sender") =>
         /\ pc["sender"] = "fill" => now_msg_index = 0 /\ sent < Batch
         /\ pc["sender"] # "fill" => sent = Batch
         /\ Run(chan["sender"], Awaited) /\ Untaken <= Made /\ TimersRun(timer, Awaited, Made)
         /\ pc["receiver"] = "send" => hand = Awaited + Len(chan["sender"])
         /\ AtWork("receiver") => Run(chan["receiver"], Untaken) /\ Untaken + Len(chan["receiver"]) = Made
  BY Zenon DEF RttInOrder
<1>1. /\ pc["receiver"] = "send" /\ SendTo("sender", hand) /\ pc' = [pc EXCEPT !["receiver"] = "loop"]
      /\ hand' = hand /\ sent' = sent /\ now_msg_index' = now_msg_index /\ timer' = timer
  BY Zenon DEF Answer, Goto
<1>2. /\ chan'["receiver"] = chan["receiver"] /\ chan' \in [Ends -> Seq(Nat)]
      /\ pc'["sender"] = pc["sender"] /\ pc'["receiver"] = "loop"
  BY <1>0, <1>1 DEF RttTypes, SendTo, Ends
<1>3. RttTypes'
  BY Zenon, <1>1, <1>2 DEF RttTypes
<1>4. /\ Awaited' = Awaited /\ InHand = 1 /\ InHand' = 0 /\ Made' = Made /\ AtWork("receiver")
      /\ AtWork("sender")' <=> AtWork("sender")
  BY Zenon, <1>1, <1>2 DEF Awaited, InHand, Made, AtWork
<1>6. RttInOrder'
  <2> SUFFICES ASSUME AtWork("sender") PROVE RttInOrder'
    BY Zenon, <1>4 DEF RttInOrder
  <2>01. Len(chan["sender"]) < Batch
    <3>1. now_msg_index <= Awaited /\ Made = sent + now_msg_index /\ sent <= Batch
      BY <1>0 DEF Awaited, Made, RttTypes
    <3>2. \A a, b, k, n, s \in Nat : n <= a /\ s <= b /\ a + k + 1 <= s + n => k < b
      OBVIOUS
    <3>3. Awaited + Len(chan["sender"]) + 1 <= sent + now_msg_index
      BY Zenon, <1>0, <1>4, <1>22, <3>1
    <3> QED  BY <1>0, <3>1, <3>2, <3>3, Zenon
  <2>02. chan' = [chan EXCEPT !["sender"] = Append(@, hand)]
    <3>1. hand \in Nat
      BY Zenon DEF RttTypes
    <3> QED  BY Zenon, <1>0, <1>1, <2>01, <3>1, SendFits
  <2>03. chan'["sender"] = Append(chan["sender"], Awaited + Len(chan["sender"]))
    BY Zenon, <1>0, <1>1, <1>22, <2>02 DEF RttTypes
  <2>04. Run(chan'["sender"], Awaited) /\ Len(chan'["sender"]) = Len(chan["sender"]) + 1
    <3>1. /\ Run(Append(chan["sender"], Awaited + Len(chan["sender"])), Awaited)
          /\ Len(Append(chan["sender"], Awaited + Len(chan["sender"]))) = Len(chan["sender"]) + 1
      BY <1>0, <1>22, RunAppend, Zenon
    <3> QED  BY <2>03, <3>1, Zenon
  <2>05. Untaken' = Untaken
    <3>1. Untaken' = Awaited' + Len(chan'["sender"]) + InHand'
      BY Zenon DEF Untaken
    <3> QED  BY <1>0, <1>4, <2>04, <3>1
  <2>1. Untaken' <= Made'
    BY Zenon, <1>4, <1>22, <2>05
  <2>2. AtWork("receiver")' => Run(chan'["receiver"], Untaken') /\ Untaken' + Len(chan'["receiver"]) = Made'
    BY Zenon, <1>2, <1>4, <1>22, <2>05
  <2>3. Run(chan'["sender"], Awaited')
    BY Zenon, <1>4, <2>04
  <2>4. pc'["receiver"] = "send" => hand' = Awaited' + Len(chan'["sender"])
    BY Zenon, <1>2
  <2>5. TimersRun(timer', Awaited', Made')
    BY Zenon, <1>1, <1>4, <1>22
  <2>6. /\ pc'["sender"] = "fill" => now_msg_index' = 0 /\ sent' < Batch
        /\ pc'["sender"] # "fill" => sent' = Batch
    BY Zenon, <1>1, <1>2, <1>22
  <2> QED  BY Zenon, <2>1, <2>2, <2>3, <2>4, <2>5, <2>6 DEF RttInOrder, TimersRun
<1> QED  BY Zenon, <1>3, <1>6

\* The sender's taking of an answer keeps the order.
LEMMA TakeAnswerKeeps ==
  ASSUME RttInv, TakeAnswer
  PROVE  RttInv'
<1> USE DEF RttInv
<1>0. /\ Batch \in Nat \ {0} /\ "sender" \in Ends /\ "receiver" \in Ends
      /\ Len(chan["sender"]) \in Nat /\ Len(chan["receiver"]) \in Nat
      /\ Awaited \in Nat /\ InHand \in {0, 1} /\ Made \in Nat /\ Untaken \in Nat
      /\ sent \in Nat /\ now_msg_index \in Nat /\ Untaken = Awaited + Len(chan["sender"]) + InHand
  BY Zenon, RttNumbers
<1>22. AtWork("sender") =>
         /\ pc["sender"] = "fill" => now_msg_index = 0 /\ sent < Batch
         /\ pc["sender"] # "fill" => sent = Batch
         /\ Run(chan["sender"], Awaited) /\ Untaken <= Made /\ TimersRun(timer, Awaited, Made)
         /\ pc["receiver"] = "send" => hand = Awaited + Len(chan["sender"])
         /\ AtWork("receiver") => Run(chan["receiver"], Untaken) /\ Untaken + Len(chan["receiver"]) = Made
  BY Zenon DEF RttInOrder
<1>1. /\ pc["sender"] = "recv" /\ chan["sender"] # <<>>
      /\ chan' = [chan EXCEPT !["sender"] = Tail(@)] /\ pc' = [pc EXCEPT !["sender"] = "send"]
      /\ hand' = hand /\ sent' = sent /\ now_msg_index' = now_msg_index /\ timer' = timer
  BY Zenon DEF TakeAnswer, Goto
<1>2. /\ chan'["receiver"] = chan["receiver"] /\ chan'["sender"] = Tail(chan["sender"])
      /\ pc'["receiver"] = pc["receiver"] /\ pc'["sender"] = "send"
  BY Zenon, <1>0, <1>1 DEF RttTypes
<1>3. RttTypes'
  <2>1. chan["sender"] \in Seq(Nat)
    BY Zenon, <1>0 DEF RttTypes
  <2>2. Tail(chan["sender"]) \in Seq(Nat)
    BY <1>1, <2>1
  <2>3. chan' \in [Ends -> Seq(Nat)]
    BY Zenon, <1>1, <2>2 DEF RttTypes
  <2> QED  BY Zenon, <1>1, <2>3 DEF RttTypes
<1>4. /\ Awaited' = Awaited + 1 /\ InHand' = InHand /\ Made' = Made /\ AtWork("sender")
      /\ AtWork("receiver")' <=> AtWork("receiver")
  BY Zenon, <1>1, <1>2 DEF Awaited, InHand, Made, AtWork
<1>6. RttInOrder'
  <2>0. /\ Run(Tail(chan["sender"]), Awaited + 1) /\ Len(chan["sender"]) = Len(Tail(chan["sender"])) + 1
    BY <1>0, <1>1, <1>4, <1>22, RunTail, Zenon
  <2>01. Len(Tail(chan["sender"])) \in Nat
    BY <2>0 DEF Run
  <2>02. Untaken' = Untaken /\ Awaited' + Len(chan'["sender"]) = Awaited + Len(chan["sender"])
    <3>1. Untaken' = Awaited' + Len(chan'["sender"]) + InHand'
      BY Zenon DEF Untaken
    <3>2. \A a, k \in Nat : \A h \in {0, 1} : a + 1 + k + h = a + (k + 1) + h /\ a + 1 + k = a + (k + 1)
      OBVIOUS
    <3>3. Awaited + 1 + Len(Tail(chan["sender"])) = Awaited + (Len(Tail(chan["sender"])) + 1)
      BY <1>0, <2>01, <3>2, ZenonT(30)
    <3>4. Awaited + 1 + Len(Tail(chan["sender"])) + InHand = Awaited + (Len(Tail(chan["sender"])) + 1) + InHand
      BY <1>0, <2>01, <3>2, ZenonT(30)
    <3> QED  BY <1>0, <1>2, <1>4, <2>0, <3>1, <3>3, <3>4, Zenon
  <2>1. Untaken' <= Made'
    BY Zenon, <1>4, <1>22, <2>02
  <2>2. AtWork("receiver")' => Run(chan'["receiver"], Untaken') /\ Untaken' + Len(chan'["receiver"]) = Made'
    BY Zenon, <1>2, <1>4, <1>22, <2>02
  <2>3. Run(chan'["sender"], Awaited')
    BY Zenon, <1>2, <1>4, <2>0
  <2>4. pc'["receiver"] = "send" => hand' = Awaited' + Len(chan'["sender"])
    BY <1>1, <1>2, <1>4, <1>22, <2>02, Zenon
  <2>5. TimersRun(timer', Awaited', Made')
    BY <1>0, <1>1, <1>4, <1>22 DEF TimersRun
  <2>6. /\ pc'["sender"] = "fill" => now_msg_index' = 0 /\ sent' < Batch
        /\ pc'["sender"] # "fill" => sent' = Batch
    BY Zenon, <1>1, <1>2, <1>4, <1>22
  <2> QED  BY Zenon, <2>1, <2>2, <2>3, <2>4, <2>5, <2>6 DEF RttInOrder, TimersRun
<1> QED  BY Zenon, <1>3, <1>6

\* The request sent for an answer keeps the order.
LEMMA RequestKeeps ==
  ASSUME RttInv, Request
  PROVE  RttInv'
<1> USE DEF RttInv
<1>0. /\ Batch \in Nat \ {0} /\ "sender" \in Ends /\ "receiver" \in Ends
      /\ Len(chan["sender"]) \in Nat /\ Len(chan["receiver"]) \in Nat
      /\ Awaited \in Nat /\ InHand \in {0, 1} /\ Made \in Nat /\ Untaken \in Nat
      /\ sent \in Nat /\ now_msg_index \in Nat /\ Untaken = Awaited + Len(chan["sender"]) + InHand
  BY Zenon, RttNumbers
<1>22. AtWork("sender") =>
         /\ pc["sender"] = "fill" => now_msg_index = 0 /\ sent < Batch
         /\ pc["sender"] # "fill" => sent = Batch
         /\ Run(chan["sender"], Awaited) /\ Untaken <= Made /\ TimersRun(timer, Awaited, Made)
         /\ pc["receiver"] = "send" => hand = Awaited + Len(chan["sender"])
         /\ AtWork("receiver") => Run(chan["receiver"], Untaken) /\ Untaken + Len(chan["receiver"]) = Made
  BY Zenon DEF RttInOrder
<1>1. /\ pc["sender"] = "send" /\ timer' = [timer EXCEPT ![Slot(now_msg_index)] = now_msg_index + Batch]
      /\ SendTo("receiver", now_msg_index + Batch) /\ now_msg_index' = now_msg_index + 1
      /\ pc' = [pc EXCEPT !["sender"] = "loop"]
      /\ hand' = hand /\ sent' = sent
  BY Zenon DEF Request, Goto
<1>2. /\ chan'["sender"] = chan["sender"] /\ chan' \in [Ends -> Seq(Nat)]
      /\ pc'["receiver"] = pc["receiver"] /\ pc'["sender"] = "loop"
  <2>1. now_msg_index + Batch \in Nat
    BY <1>0
  <2> QED  BY <1>0, <1>1, <2>1 DEF RttTypes, SendTo, Ends
<1>4. AtWork("sender") /\ sent = Batch /\ Awaited = now_msg_index + 1
  BY Zenon, <1>1, <1>22 DEF AtWork, Awaited
<1>5. /\ Awaited' = Awaited /\ InHand' = InHand /\ Made' = Made + 1 /\ Made = now_msg_index + Batch
      /\ AtWork("receiver")' <=> AtWork("receiver")
  BY <1>0, <1>1, <1>2, <1>4 DEF Awaited, InHand, Made, AtWork
<1>51. Untaken' = Untaken
  BY Zenon, <1>2, <1>5 DEF Untaken
<1>52. now_msg_index \in Int /\ now_msg_index + Batch \in Nat
  BY <1>0
<1>53. Slot(now_msg_index) \in 0..(Batch - 1) /\ Slot(now_msg_index + Batch) = Slot(now_msg_index)
  BY <1>0, <1>52, DivModExists, ModPeriod, Zenon DEF Slot
<1>3. RttTypes'
  <2>1. timer' \in [0..(Batch - 1) -> Nat]
    BY Zenon, <1>1, <1>52, <1>53 DEF RttTypes
  <2>2. pc' \in [Ends -> {"fill", "loop", "recv", "send", "done", "failed", "thrown"}]
    BY Zenon, <1>1 DEF RttTypes
  <2>3. now_msg_index' \in Nat
    BY <1>0, <1>1
  <2> QED  BY Zenon, <1>1, <1>2, <2>1, <2>2, <2>3 DEF RttTypes
<1>6. AtWork("receiver") => Run(chan'["receiver"], Untaken) /\ Untaken + Len(chan'["receiver"]) = Made + 1
  <2> SUFFICES ASSUME AtWork("receiver")
               PROVE  Run(chan'["receiver"], Untaken) /\ Untaken + Len(chan'["receiver"]) = Made + 1
    BY Zenon
  <2>1. Run(chan["receiver"], Untaken) /\ Untaken + Len(chan["receiver"]) = Made
    BY Zenon, <1>4, <1>22
  <2>2. Len(chan["receiver"]) < Batch
    <3>1. \A u, a, k, n, h \in Nat : u = a + k + h /\ a = n + 1 => \A r \in Nat : u + r = n + Batch => r < Batch
      BY <1>0
    <3>2. InHand \in Nat
      BY <1>0
    <3>3. Untaken + Len(chan["receiver"]) = now_msg_index + Batch
      BY Zenon, <1>5, <2>1
    <3> QED  BY <1>0, <1>4, <3>1, <3>2, <3>3, Zenon
  <2>3. chan' = [chan EXCEPT !["receiver"] = Append(@, now_msg_index + Batch)]
    BY Zenon, <1>0, <1>1, <1>52, <2>2, SendFits
  <2>4. chan'["receiver"] = Append(chan["receiver"], Untaken + Len(chan["receiver"]))
    BY Zenon, <1>0, <1>5, <2>1, <2>3 DEF RttTypes
  <2>5. Run(chan'["receiver"], Untaken) /\ Len(chan'["receiver"]) = Len(chan["receiver"]) + 1
    <3>1. /\ Run(Append(chan["receiver"], Untaken + Len(chan["receiver"])), Untaken)
          /\ Len(Append(chan["receiver"], Untaken + Len(chan["receiver"]))) = Len(chan["receiver"]) + 1
      BY <1>0, <2>1, RunAppend, Zenon
    <3> QED  BY <2>4, <3>1, Zenon
  <2>6. \A u, r \in Nat : u + (r + 1) = u + r + 1
    OBVIOUS
  <2>7. Untaken + (Len(chan["receiver"]) + 1) = Untaken + Len(chan["receiver"]) + 1
    BY <1>0, <2>6, Zenon
  <2> QED  BY <2>1, <2>5, <2>7, Zenon
<1>7. TimersRun(timer', Awaited, Made + 1)
  <2> SUFFICES ASSUME NEW n \in Awaited..Made PROVE timer'[Slot(n)] = n
    BY <1>0 DEF TimersRun
  <2>1. CASE n = now_msg_index + Batch
    BY Zenon, <1>1, <1>53, <2>1 DEF RttTypes
  <2>2. CASE n # now_msg_index + Batch
    <3>1. n \in Int /\ now_msg_index < n /\ n < now_msg_index + Batch /\ n \in Awaited..(Made - 1)
      BY <1>0, <1>4, <1>5, <2>2
    <3>2. Slot(now_msg_index) # Slot(n)
      BY <1>0, <1>52, <3>1, ModDistinct, Zenon DEF Slot
    <3>3. Slot(n) \in 0..(Batch - 1)
      BY <1>0, <3>1, DivModExists, Zenon DEF Slot
    <3>4. timer[Slot(n)] = n
      BY Zenon, <1>4, <1>22, <3>1 DEF TimersRun
    <3> QED  BY Zenon, <1>1, <3>2, <3>3, <3>4 DEF RttTypes
  <2> QED  BY Zenon, <2>1, <2>2
<1>8. RttInOrder'
  <2>1. Untaken' <= Made'
    <3>1. Untaken <= Made
      BY Zenon, <1>4, <1>22
    <3>2. Untaken <= Made + 1
      BY <1>0, <3>1
    <3> QED  BY Zenon, <1>5, <1>51, <3>2
  <2>2. AtWork("receiver")' => Run(chan'["receiver"], Untaken') /\ Untaken' + Len(chan'["receiver"]) = Made'
    BY Zenon, <1>5, <1>51, <1>6
  <2>3. Run(chan'["sender"], Awaited')
    BY Zenon, <1>2, <1>4, <1>5, <1>22
  <2>4. pc'["receiver"] = "send" => hand' = Awaited' + Len(chan'["sender"])
    BY <1>1, <1>2, <1>4, <1>5, <1>22, Zenon
  <2>5. TimersRun(timer', Awaited', Made')
    BY Zenon, <1>5, <1>7
  <2>6. /\ pc'["sender"] = "fill" => now_msg_index' = 0 /\ sent' < Batch
        /\ pc'["sender"] # "fill" => sent' = Batch
    BY Zenon, <1>1, <1>2, <1>4
  <2> QED  BY Zenon, <2>1, <2>2, <2>3, <2>4, <2>5, <2>6 DEF RttInOrder, TimersRun
<1> QED  BY Zenon, <1>3, <1>8

\* Every step of the two ends keeps the invariant.
LEMMA RttKeeps == RttInv /\ [Next]_vars => RttInv'
<1> SUFFICES ASSUME RttInv, [Next]_vars PROVE RttInv'
  BY Zenon
<1>1. ASSUME NEW e \in Ends, Loop(e) PROVE RttInv'
  <2>1. CASE Goto(e, "recv")
    BY Zenon, <1>1, <2>1, MoveKeeps DEF Loop
  <2>2. CASE Goto(e, "done")
    BY Zenon, <1>1, <2>2, MoveKeeps DEF Loop
  <2> QED  BY Zenon, <1>1, <2>1, <2>2 DEF Loop
<1>2. ASSUME NEW e \in Ends, RecvStopped(e) PROVE RttInv'
  BY Zenon, <1>2, MoveKeeps DEF RecvStopped
<1>3. ASSUME NEW e \in Ends, PeerLost(e) PROVE RttInv'
  BY Zenon, <1>3, MoveKeeps DEF PeerLost
<1>4. ASSUME UNCHANGED <<pc, chan, sent, now_msg_index, timer, hand>> PROVE RttInv'
  BY Zenon, <1>4 DEF RttInv, RttTypes, RttInOrder, AtWork, Awaited, Made, InHand, Untaken, TimersRun
<1>5. "sender" \in Ends /\ "receiver" \in Ends
  BY Zenon DEF Ends
<1> QED  BY Zenon, <1>1, <1>2, <1>3, <1>4, <1>5, FillKeeps, TakeRequestKeeps, AnswerKeeps, TakeAnswerKeeps, RequestKeeps
            DEF Next, Sender, Receiver, StopRunner, StopEndpoint, vars

\* Whatever the batch size, the answer that handle_rtt_sender takes is to the
\* request for which the timer of its slot was started.
THEOREM RttTimerMatches == Spec => []TimerMatches
<1>1. RttInv => TimerMatches
  <2> SUFFICES ASSUME RttInv, pc["sender"] = "recv", chan["sender"] # <<>>
               PROVE  Head(chan["sender"]) = timer[Slot(now_msg_index)]
    BY Zenon DEF TimerMatches
  <2> USE DEF RttInv
<2>0. /\ Batch \in Nat \ {0} /\ "sender" \in Ends /\ "receiver" \in Ends
        /\ Len(chan["sender"]) \in Nat /\ Len(chan["receiver"]) \in Nat
        /\ Awaited \in Nat /\ InHand \in {0, 1} /\ Made \in Nat /\ Untaken \in Nat
        /\ sent \in Nat /\ now_msg_index \in Nat /\ Untaken = Awaited + Len(chan["sender"]) + InHand
    BY Zenon, RttNumbers
  <2>1. /\ Awaited = now_msg_index /\ Run(chan["sender"], Awaited) /\ Untaken <= Made
        /\ TimersRun(timer, Awaited, Made)
    BY Zenon DEF RttInOrder, AtWork, Awaited
  <2>2. /\ Run(Tail(chan["sender"]), Awaited + 1) /\ Len(chan["sender"]) = Len(Tail(chan["sender"])) + 1
        /\ Head(chan["sender"]) = Awaited
    BY <2>0, <2>1, RunTail, Zenon
  <2>3. Len(chan["sender"]) > 0
    BY <2>0, <2>2 DEF Run
  <2>4. Awaited < Made
    BY <2>0, <2>1, <2>3
  <2>5. timer[Slot(Awaited)] = Awaited
    BY <2>0, <2>1, <2>4 DEF TimersRun
  <2> QED  BY Zenon, <2>1, <2>2, <2>5
<1> QED  BY <1>1, RttStarts, RttKeeps, PTL DEF Spec


----------------------------------------------------------------------------
(* The slots of a bank client *)

Ping == Msg("PING", 0)
Requests == [type : {"GET_DATA", "GET_LOCK", "FINISH"}, id : Nat]
Steps == {"index", "cell"}

ClientTypes ==
  /\ head \in Nat /\ tail \in Nat
  /\ cells \in [0..(QueueSize - 1) -> {Empty, Ping} \cup Requests]
  /\ thread \in [{"leader", "worker"} ->
       {NoOp} \cup [op : {"push"}, step : Steps, idx : Nat, msg : {Ping} \cup Requests]
              \cup [op : {"pop"}, step : Steps, idx : Nat, msg : {Empty}]]
  /\ leader \in [at : {"ping", "pop", "load", "store"}, made : 0..Concurrency, id : Nat]
  /\ worker \in [at : {"size", "pops", "events", "store"}, left : Int, id : Nat, got : {Empty} \cup Requests]
  /\ req_id_ \in Nat /\ flight \subseteq {Ping} \cup Requests
  /\ raced \in BOOLEAN /\ overtaken \in BOOLEAN

\* Where the two threads are: the leader drops an element before it makes a
\* request, a thread inside push or pop does nothing else, and req_id_ follows
\* the requests made until a callback moves it.
ClientControl ==
  /\ leader.at \in {"ping", "pop"} \/ thread["leader"].op = "pop" => leader.made = 0
  /\ leader.at = "store" => Free("leader") /\ leader.made < Concurrency
  /\ worker.at \in {"events", "store"} => Free("worker")
  /\ worker.got # Empty <=> worker.at = "store"
  /\ ~raced => ~(thread["leader"].op = "push" /\ thread["worker"].op = "push")
  /\ ~overtaken /\ leader.made < Concurrency => req_id_ % Concurrency = (leader.made + 1) % Concurrency
  /\ ~overtaken /\ leader.at = "store" => leader.id % Concurrency = (leader.made + 1) % Concurrency

SlotOf(a) == a[3].id % Concurrency
\* A set of n places, each of which has a slot of its own, of the first n ids.
Numbered(P, n) ==
  /\ IsFiniteSet(P) /\ Cardinality(P) = n
  /\ \A a, b \in P : SlotOf(a) = SlotOf(b) => a = b
  /\ \A a \in P : \E k \in 1..n : SlotOf(a) = k % Concurrency

ClientInv ==
  /\ ClientTypes /\ ClientControl
  /\ ~raced /\ ~overtaken => Numbered(Places, leader.made)
----------------------------------------------------------------------------
\* A step that moves an element from one place to another keeps the account of
\* the elements.
LEMMA NumberedMoves ==
  ASSUME NEW P, NEW n, Numbered(P, n), NEW a \in P, NEW b, SlotOf(b) = SlotOf(a)
  PROVE  Numbered((P \ {a}) \cup {b}, n)
<1>1. IsFiniteSet(P \ {a}) /\ Cardinality(P \ {a}) = Cardinality(P) - 1
  BY Zenon, FS_RemoveElement DEF Numbered
<1>2. Cardinality(P) \in Nat
  BY Zenon, FS_CardinalityType DEF Numbered
<1>3. IsFiniteSet((P \ {a}) \cup {b}) /\ Cardinality((P \ {a}) \cup {b}) = n
  <2>1. IsFiniteSet((P \ {a}) \cup {b}) /\ Cardinality((P \ {a}) \cup {b}) = Cardinality(P \ {a}) + 1
    <3>1. b \notin P \ {a}
      BY Zenon DEF Numbered
    <3> QED  BY Zenon, <1>1, <3>1, FS_AddElement
  <2> QED  BY <1>1, <1>2, <2>1 DEF Numbered
<1>4. \A x, y \in (P \ {a}) \cup {b} : SlotOf(x) = SlotOf(y) => x = y
  BY Zenon DEF Numbered
<1>5. \A x \in (P \ {a}) \cup {b} : \E k \in 1..n : SlotOf(x) = k % Concurrency
  BY Zenon DEF Numbered
<1> QED  BY Zenon, <1>3, <1>4, <1>5 DEF Numbered

\* A step that puts an element into an empty place adds it to the account.
LEMMA AddKeeps ==
  ASSUME NEW P, NEW n \in Nat, Numbered(P, n), n < Concurrency, NEW b, SlotOf(b) = (n + 1) % Concurrency
  PROVE  Numbered(P \cup {b}, n + 1)
<1>0. Concurrency \in Nat \ {0}
  BY Zenon, ClientAssumption
<1>1. ASSUME NEW k \in 1..n PROVE k % Concurrency # (n + 1) % Concurrency
  <2>1. k \in Int /\ n + 1 \in Int /\ k < n + 1 /\ n + 1 < k + Concurrency
    BY <1>0
  <2> QED  BY <1>0, <2>1, ModDistinct, Zenon
<1>2. \A a \in P : SlotOf(a) # SlotOf(b)
  BY ZenonT(30), <1>1 DEF Numbered
<1>3. IsFiniteSet(P \cup {b}) /\ Cardinality(P \cup {b}) = n + 1
  BY Zenon, <1>2, FS_AddElement DEF Numbered
<1>4. \A x, y \in P \cup {b} : SlotOf(x) = SlotOf(y) => x = y
  BY Zenon, <1>2 DEF Numbered
<1>5. \A x \in P \cup {b} : \E k \in 1..(n + 1) : SlotOf(x) = k % Concurrency
  BY DEF Numbered
<1> QED  BY Zenon, <1>3, <1>4, <1>5 DEF Numbered

\* An id keeps its slot when Concurrency is added to it, and when the counter
\* wraps.
LEMMA SlotKept ==
  ASSUME NEW i \in Nat
  PROVE  /\ NextId(i) \in Nat /\ NextId(i) % Concurrency = i % Concurrency
         /\ (i % IdMod) \in Nat /\ (i % IdMod) % Concurrency = i % Concurrency
         /\ (i % Buffers) % Concurrency = i % Concurrency
<1> DEFINE c == Concurrency
           kb == Buffers \div c
           ki == IdMod \div c
<1>0. c \in Nat \ {0} /\ Buffers \in Nat \ {0} /\ IdMod \in Nat \ {0} /\ Buffers % c = 0 /\ IdMod % c = 0
  BY Zenon, ClientAssumption
<1>1. Buffers = c * kb /\ kb \in Int /\ IdMod = c * ki /\ ki \in Int
  BY <1>0, DivModExists
<1>2. kb \in Nat \ {0} /\ ki \in Nat \ {0}
  <2> HIDE DEF kb, ki
  <2> QED  BY <1>0, <1>1
<1> HIDE DEF kb, ki, c
<1>3. ASSUME NEW j \in Nat PROVE (j % IdMod) % c = j % c /\ (j % Buffers) % c = j % c /\ j % IdMod \in Nat
  <2>0. j \in Int
    OBVIOUS
  <2>1. (j % (c * kb)) % c = j % c
    BY <1>0, <1>2, <2>0, ModMod, Zenon
  <2>2. (j % (c * ki)) % c = j % c
    BY <1>0, <1>2, <2>0, ModMod, Zenon
  <2>3. j % IdMod \in 0..(IdMod - 1)
    BY <1>0, DivModExists
  <2> QED  BY <1>0, <1>1, <2>1, <2>2, <2>3
<1>4. (i + c) % c = i % c
  <2>1. i \in Int
    OBVIOUS
  <2> QED  BY <1>0, <2>1, ModPeriod, Zenon
<1>5. i + c \in Nat
  BY <1>0
<1>6. NextId(i) = (i + c) % IdMod /\ Concurrency = c
  BY Zenon DEF NextId, c
<1> QED  BY Zenon, <1>3, <1>4, <1>5, <1>6

----------------------------------------------------------------------------
(* The four kinds of places *)

CellPlaces == {<<"cell", i, cells[i]>> : i \in {j \in 0..(QueueSize - 1) : cells[j] \in Requests}}
RpcPlaces == {<<"rpc", 0, m>> : m \in flight \cap Requests}
PushPlaces == {<<"push", 0, thread[x].msg>> :
                 x \in {y \in {"leader", "worker"} : thread[y].op = "push" /\ thread[y].msg \in Requests}}
NextPlaces == {<<"next", 0, m>> : m \in {worker.got} \cap Requests}

\* What is a request, and what is not.
LEMMA RequestFacts ==
  /\ Empty \notin Requests /\ Ping \notin Requests /\ Empty # Ping
  /\ Ping.type = "PING" /\ \A m \in Requests : m.type # "PING" /\ m # Empty /\ m.id \in Nat
  /\ \A i \in Nat : Msg("GET_DATA", i) \in Requests /\ Msg("GET_DATA", i).id = i
<1>1. Empty.type = "EMPTY" /\ Ping.type = "PING"
  BY Zenon DEF Empty, Ping, Msg
<1>2. \A m \in Requests : m.type \in {"GET_DATA", "GET_LOCK", "FINISH"} /\ m.id \in Nat
  BY Zenon DEF Requests
<1>3. \A i \in Nat : Msg("GET_DATA", i) \in Requests /\ Msg("GET_DATA", i).id = i
  BY Zenon DEF Requests, Msg
<1> QED  BY Zenon, <1>1, <1>2, <1>3

PlacesSplit == Places = CellPlaces \cup RpcPlaces \cup PushPlaces \cup NextPlaces

\* The places of the elements, by kind.
LEMMA PlacesKinds == ClientTypes => PlacesSplit
<1> SUFFICES ASSUME ClientTypes PROVE Places = CellPlaces \cup RpcPlaces \cup PushPlaces \cup NextPlaces
  BY Zenon DEF PlacesSplit
<1>1. Queued = {j \in 0..(QueueSize - 1) : cells[j] \in Requests}
  <2>1. DOMAIN cells = 0..(QueueSize - 1) /\ \A j \in DOMAIN cells : cells[j] \in {Empty, Ping} \cup Requests
    BY Zenon DEF ClientTypes
  <2> QED  BY Zenon, <2>1, RequestFacts DEF Queued, Ping
<1>2. {f \in flight : f.type # "PING"} = flight \cap Requests
  BY Zenon, RequestFacts DEF ClientTypes
<1>3. {<<"push", 0, m>> : m \in {f \in Pushing : f.type # "PING"}} = PushPlaces
  <2>1. DOMAIN thread = {"leader", "worker"}
    BY Zenon DEF ClientTypes
  <2>2. \A x \in DOMAIN thread : thread[x].op = "push" => thread[x].msg \in {Ping} \cup Requests
    BY <2>1 DEF ClientTypes, NoOp
  <2> QED  BY <2>1, <2>2, RequestFacts DEF Pushing, PushPlaces
<1>4. {worker.got} \ {Empty} = {worker.got} \cap Requests
  BY ZenonT(30), RequestFacts DEF ClientTypes
<1> QED  BY Zenon, <1>1, <1>2, <1>3, <1>4 DEF Places, CellPlaces, RpcPlaces, NextPlaces

\* A client starts with its slots free and its queue empty.
LEMMA ClientStarts == ClientInit => ClientInv
<1> SUFFICES ASSUME ClientInit PROVE ClientInv
  BY Zenon
<1>0. /\ Concurrency \in Nat \ {0} /\ QueueSize \in Nat \ {0} /\ IdMod \in Nat \ {0}
  BY Zenon, ClientAssumption
<1>1. ClientTypes
  <2>1. cells \in [0..(QueueSize - 1) -> {Empty, Ping} \cup Requests] /\ thread \in [{"leader", "worker"} -> {NoOp}]
    BY Zenon DEF ClientInit
  <2>2. leader \in [at : {"ping", "pop", "load", "store"}, made : 0..Concurrency, id : Nat]
    BY <1>0 DEF ClientInit
  <2>3. worker \in [at : {"size", "pops", "events", "store"}, left : Int, id : Nat, got : {Empty} \cup Requests]
    BY DEF ClientInit
  <2> QED  BY Zenon, <2>1, <2>2, <2>3 DEF ClientInit, ClientTypes
<1>2. ClientControl
  BY <1>0 DEF ClientInit, ClientControl, NoOp, Free
<1>3. Places = {}
  <2>1. CellPlaces = {}
    BY Zenon, <1>1, RequestFacts DEF CellPlaces, ClientInit
  <2>2. RpcPlaces = {}
    BY Zenon DEF RpcPlaces, ClientInit
  <2>3. PushPlaces = {}
    BY Zenon DEF PushPlaces, ClientInit, NoOp
  <2>4. NextPlaces = {}
    BY Zenon, RequestFacts DEF NextPlaces, ClientInit
  <2> QED  BY Zenon, <1>1, <2>1, <2>2, <2>3, <2>4, PlacesKinds DEF PlacesSplit
<1>4. Numbered(Places, 0)
  BY Zenon, <1>3, FS_EmptySet DEF Numbered
<1> QED  BY Zenon, <1>1, <1>2, <1>4 DEF ClientInv, ClientInit

----------------------------------------------------------------------------
\* Starting a queue operation.
LEMMA BeginFacts ==
  ASSUME ClientTypes, NEW x \in {"leader", "worker"}, NEW op \in {"push", "pop"}, NEW m,
         m \in IF op = "push" THEN {Ping} \cup Requests ELSE {Empty},
         BeginOp(x, op, m)
  PROVE  /\ thread' \in [{"leader", "worker"} ->
               {NoOp} \cup [op : {"push"}, step : Steps, idx : Nat, msg : {Ping} \cup Requests]
                      \cup [op : {"pop"}, step : Steps, idx : Nat, msg : {Empty}]]
         /\ raced' \in BOOLEAN /\ (~raced' => ~raced)
         /\ thread'[x].op = op /\ thread'[x].msg = m
         /\ \A y \in {"leader", "worker"} : y # x => thread'[y] = thread[y] /\ (~raced' => thread[y].op # op)
<1>1. DOMAIN thread = {"leader", "worker"} /\ x \in DOMAIN thread
  BY Zenon DEF ClientTypes
<1> DEFINE o == [op |-> op, step |-> "index", idx |-> 0, msg |-> m]
<1>2. o \in [op : {"push"}, step : Steps, idx : Nat, msg : {Ping} \cup Requests]
             \cup [op : {"pop"}, step : Steps, idx : Nat, msg : {Empty}]
  BY Zenon DEF Steps
<1>3. o.op = op /\ o.msg = m
  BY Zenon
<1>4. thread' = [thread EXCEPT ![x] = o]
  BY Zenon DEF BeginOp
<1> HIDE DEF o
<1>5. thread'[x] = o /\ \A y \in {"leader", "worker"} : y # x => thread'[y] = thread[y]
  BY Zenon, <1>1, <1>4
<1>6. raced' \in BOOLEAN /\ (~raced' => ~raced /\ \A y \in {"leader", "worker"} : y # x => thread[y].op # op)
  BY Zenon, <1>1 DEF BeginOp, ClientTypes
<1>7. thread' \in [{"leader", "worker"} ->
               {NoOp} \cup [op : {"push"}, step : Steps, idx : Nat, msg : {Ping} \cup Requests]
                      \cup [op : {"pop"}, step : Steps, idx : Nat, msg : {Empty}]]
  BY Zenon, <1>1, <1>2, <1>4 DEF ClientTypes
<1> QED  BY Zenon, <1>3, <1>5, <1>6, <1>7

\* Threads outside the queue and steps inside it that move no element.
LEMMA SamePlaces ==
  ASSUME ClientInv, ClientTypes', ClientControl', ~raced /\ (~overtaken' => ~overtaken),
         UNCHANGED <<cells, flight>>, leader'.made = leader.made, worker'.got = worker.got,
         PushPlaces' = PushPlaces
  PROVE  ClientInv'
<1>1. CellPlaces' = CellPlaces /\ RpcPlaces' = RpcPlaces /\ NextPlaces' = NextPlaces
  BY Zenon DEF CellPlaces, RpcPlaces, NextPlaces
<1>2. Places' = Places
  <2>1. PlacesSplit'
    BY PlacesKinds, PTL
  <2>2. PlacesSplit
    BY Zenon, PlacesKinds DEF ClientInv
  <2> QED  BY Zenon, <1>1, <2>1, <2>2 DEF PlacesSplit
<1> QED  BY Zenon, <1>2 DEF ClientInv

\* Steps that take a transaction from one place to another.
LEMMA MovedPlace ==
  ASSUME ClientInv, ClientTypes', ClientControl', ~raced, ~overtaken' => ~overtaken,
         leader'.made = leader.made, NEW a, NEW b, SlotOf(b) = SlotOf(a),
         ~raced' /\ ~overtaken' => a \in Places /\ Places' = (Places \ {a}) \cup {b}
  PROVE  ClientInv'
<1> SUFFICES ASSUME ~raced', ~overtaken' PROVE Numbered(Places', leader'.made)
  BY Zenon DEF ClientInv
<1>1. Numbered(Places, leader.made)
  BY Zenon DEF ClientInv
<1> QED  BY <1>1, NumberedMoves

\* The tag of a place tells its kind.
LEMMA PlaceTags ==
  /\ \A a \in CellPlaces : a[1] = "cell"
  /\ \A a \in RpcPlaces : a[1] = "rpc"
  /\ \A a \in PushPlaces : a[1] = "push"
  /\ \A a \in NextPlaces : a[1] = "next"
BY DEF CellPlaces, RpcPlaces, PushPlaces, NextPlaces

\* Taking an index of the queue keeps the invariant.
LEMMA TakeIndexKeeps ==
  ASSUME ClientInv, NEW x \in {"leader", "worker"}, TakeIndex(x)
  PROVE  ClientInv'
<1>0. IndexMod \in Nat \ {0} /\ ClientTypes /\ thread[x] # NoOp /\ x \in DOMAIN thread
  BY Zenon, ClientAssumption DEF ClientInv, ClientTypes, TakeIndex, Free
<1> DEFINE i == IF thread[x].op = "push" THEN head ELSE tail
           o == [thread[x] EXCEPT !.step = "cell", !.idx = i]
<1>1. thread' = [thread EXCEPT ![x] = o]
  BY Zenon DEF TakeIndex
<1>2. /\ o.op = thread[x].op /\ o.msg = thread[x].msg
      /\ o \in [op : {"push"}, step : Steps, idx : Nat, msg : {Ping} \cup Requests]
             \cup [op : {"pop"}, step : Steps, idx : Nat, msg : {Empty}]
  <2>1. CASE thread[x].op = "push"
    <3>1. thread[x] \in [op : {"push"}, step : Steps, idx : Nat, msg : {Ping} \cup Requests]
      BY Zenon, <1>0, <2>1 DEF ClientTypes
    <3>2. i \in Nat
      BY Zenon, <1>0 DEF ClientTypes
    <3> HIDE DEF i
    <3> QED  BY Zenon, <3>1, <3>2 DEF Steps
  <2>2. CASE thread[x].op # "push"
    <3>1. thread[x] \in [op : {"pop"}, step : Steps, idx : Nat, msg : {Empty}]
      BY Zenon, <1>0, <2>2 DEF ClientTypes
    <3>2. i \in Nat
      BY Zenon, <1>0 DEF ClientTypes
    <3> HIDE DEF i
    <3> QED  BY Zenon, <3>1, <3>2 DEF Steps
  <2> QED  BY Zenon, <2>1, <2>2
<1>3. /\ thread'[x] = o /\ o # NoOp /\ \A y \in {"leader", "worker"} : y # x => thread'[y] = thread[y]
      /\ \A y \in {"leader", "worker"} : thread'[y].op = thread[y].op /\ thread'[y].msg = thread[y].msg
  BY ZenonT(30), <1>0, <1>1, <1>2 DEF ClientTypes, NoOp
<1> HIDE DEF o
<1>4. head' \in Nat /\ tail' \in Nat
  <2>1. (head + 1) % IndexMod \in Nat /\ (tail + 1) % IndexMod \in Nat
    BY <1>0 DEF ClientTypes
  <2> QED  BY Zenon, <1>0, <2>1 DEF TakeIndex, ClientTypes
<1>5. ClientTypes'
  <2>1. thread' \in [{"leader", "worker"} ->
               {NoOp} \cup [op : {"push"}, step : Steps, idx : Nat, msg : {Ping} \cup Requests]
                      \cup [op : {"pop"}, step : Steps, idx : Nat, msg : {Empty}]]
    BY Zenon, <1>0, <1>1, <1>2 DEF ClientTypes
  <2>2. UNCHANGED <<cells, leader, worker, req_id_, flight, raced, overtaken>>
    BY Zenon DEF TakeIndex
  <2> QED  BY Zenon, <1>0, <1>4, <2>1, <2>2 DEF ClientTypes
<1>6. ClientControl'
  <2>1. \A y \in {"leader", "worker"} : Free(y)' = Free(y)
    BY Zenon, <1>0, <1>3 DEF Free
  <2> QED  BY Zenon, <1>3, <2>1 DEF ClientInv, ClientControl, TakeIndex
<1>7. PushPlaces' = PushPlaces
  BY <1>3 DEF PushPlaces
<1> QED  BY Zenon, <1>5, <1>6, <1>7, SamePlaces DEF TakeIndex

\* Writing a cell of the queue keeps the invariant.
LEMMA PutCellKeeps ==
  ASSUME ClientInv, NEW x \in {"leader", "worker"}, PutCell(x)
  PROVE  ClientInv'
<1>0. ClientTypes /\ QueueSize \in Nat \ {0} /\ x \in DOMAIN thread
  BY Zenon, ClientAssumption DEF ClientInv, ClientTypes
<1> SUFFICES ASSUME NEW i, i = Cell(thread[x].idx), NEW m, m = thread[x].msg PROVE ClientInv'
  BY Zenon
<1>1. thread[x] \in [op : {"push"}, step : Steps, idx : Nat, msg : {Ping} \cup Requests]
  BY Zenon, <1>0 DEF ClientTypes, PutCell, Free
<1>2. i \in 0..(QueueSize - 1) /\ m \in {Ping} \cup Requests
  BY <1>0, <1>1 DEF Cell
<1>3. /\ cells[i] = Empty /\ cells' = [cells EXCEPT ![i] = m] /\ thread' = [thread EXCEPT ![x] = NoOp]
      /\ ~raced /\ UNCHANGED <<head, tail, leader, worker, req_id_, flight, raced, overtaken>>
  BY Zenon DEF PutCell
<1>4. ClientTypes'
  BY Zenon, <1>0, <1>2, <1>3 DEF ClientTypes
<1>5. /\ thread'[x] = NoOp /\ NoOp.op = "none" /\ \A y \in {"leader", "worker"} : y # x => thread'[y] = thread[y]
      /\ \A j \in 0..(QueueSize - 1) : cells'[j] = IF j = i THEN m ELSE cells[j]
  BY Zenon, <1>0, <1>3 DEF ClientTypes, NoOp
<1>6. ClientControl'
  BY Zenon, <1>3, <1>5 DEF ClientInv, ClientControl, Free
<1>7. \A y \in {"leader", "worker"} : y # x => thread[y].op # "push"
  BY Zenon, <1>1, <1>3 DEF ClientInv, ClientControl
<1>8. PushPlaces' = {} /\ PushPlaces = {<<"push", 0, k>> : k \in {m} \cap Requests}
  BY <1>1, <1>5, <1>7 DEF PushPlaces
<1>9. RpcPlaces' = RpcPlaces /\ NextPlaces' = NextPlaces
  BY Zenon, <1>3 DEF RpcPlaces, NextPlaces
<1>10. CellPlaces' = CellPlaces \cup {<<"cell", i, k>> : k \in {m} \cap Requests}
  BY <1>2, <1>3, <1>5, RequestFacts DEF CellPlaces
<1>11. PlacesSplit /\ PlacesSplit'
  <2>1. PlacesSplit'
    BY <1>4, PlacesKinds, PTL
  <2> QED  BY Zenon, <1>0, <2>1, PlacesKinds
<1>12. CASE m \in Requests
  <2> DEFINE a == <<"push", 0, m>>
             b == <<"cell", i, m>>
  <2>1. SlotOf(a) = SlotOf(b)
    BY Zenon DEF SlotOf
  <2>2. PushPlaces = {a} /\ PushPlaces' = {} /\ CellPlaces' = CellPlaces \cup {b} /\ a[1] = "push"
    BY Zenon, <1>8, <1>10, <1>12
  <2> HIDE DEF a, b
  <2>3. a \in Places /\ Places' = (Places \ {a}) \cup {b}
    <3>1. a \notin CellPlaces /\ a \notin RpcPlaces /\ a \notin NextPlaces
      BY Zenon, <2>2, PlaceTags
    <3> QED  BY Zenon, <1>9, <1>11, <2>2, <3>1 DEF PlacesSplit
  <2> QED  BY Zenon, <1>3, <1>4, <1>6, <2>1, <2>3, MovedPlace
<1>13. CASE m \notin Requests
  <2>1. Places' = Places
    BY <1>8, <1>9, <1>10, <1>11, <1>13 DEF PlacesSplit
  <2> QED  BY Zenon, <1>3, <1>4, <1>6, <2>1 DEF ClientInv
<1> QED  BY Zenon, <1>12, <1>13

\* Reading and emptying a cell of the queue keeps the invariant.
LEMMA GetCellKeeps ==
  ASSUME ClientInv, NEW x \in {"leader", "worker"}, GetCell(x)
  PROVE  ClientInv'
<1>0. ClientTypes /\ QueueSize \in Nat \ {0} /\ x \in DOMAIN thread
  BY Zenon, ClientAssumption DEF ClientInv, ClientTypes
<1> SUFFICES ASSUME NEW i, i = Cell(thread[x].idx), NEW m, m = cells[i] PROVE ClientInv'
  BY Zenon
<1>1. thread[x] \in [op : {"pop"}, step : Steps, idx : Nat, msg : {Empty}]
  BY Zenon, <1>0 DEF ClientTypes, GetCell, Free
<1>2. i \in 0..(QueueSize - 1)
  BY <1>0, <1>1 DEF Cell
<1>3. /\ m # Empty /\ cells' = [cells EXCEPT ![i] = Empty] /\ thread' = [thread EXCEPT ![x] = NoOp]
      /\ flight' = IF x = "worker" THEN flight \cup {m} ELSE flight
      /\ ~raced /\ UNCHANGED <<head, tail, leader, worker, req_id_, raced, overtaken>>
  BY Zenon DEF GetCell
<1>3a. m \in {Ping} \cup Requests
  BY Zenon, <1>0, <1>2, <1>3 DEF ClientTypes
<1>4. ClientTypes'
  BY Zenon, <1>0, <1>2, <1>3, <1>3a DEF ClientTypes
<1>5. /\ thread'[x] = NoOp /\ NoOp.op = "none" /\ \A y \in {"leader", "worker"} : y # x => thread'[y] = thread[y]
      /\ \A j \in 0..(QueueSize - 1) : cells'[j] = IF j = i THEN Empty ELSE cells[j]
  BY Zenon, <1>0, <1>3 DEF ClientTypes, NoOp
<1>6. ClientControl'
  BY Zenon, <1>3, <1>5 DEF ClientInv, ClientControl, Free
<1>8. PushPlaces' = PushPlaces
  BY <1>1, <1>5 DEF PushPlaces
<1>9. NextPlaces' = NextPlaces
  BY Zenon, <1>3 DEF NextPlaces
<1>10. CellPlaces' = CellPlaces \ {<<"cell", i, m>>}
  BY <1>2, <1>3, <1>5, RequestFacts DEF CellPlaces
<1>11. PlacesSplit /\ PlacesSplit'
  <2>1. PlacesSplit'
    BY <1>4, PlacesKinds, PTL
  <2> QED  BY Zenon, <1>0, <2>1, PlacesKinds
<1>12. CASE m \in Requests
  <2> DEFINE a == <<"cell", i, m>>
             b == <<"rpc", 0, m>>
  <2>1. SlotOf(a) = SlotOf(b) /\ a \in CellPlaces /\ a[1] = "cell"
    BY Zenon, <1>2, <1>12 DEF SlotOf, CellPlaces
  <2>2. x = "worker" => RpcPlaces' = RpcPlaces \cup {b}
    BY Zenon, <1>3, <1>12 DEF RpcPlaces
  <2> HIDE DEF a, b
  <2>3. a \in Places /\ a \notin RpcPlaces /\ a \notin NextPlaces /\ a \notin PushPlaces
    BY Zenon, <1>11, <2>1, PlaceTags DEF PlacesSplit
  <2>4. ~overtaken => x # "leader"
    <3> SUFFICES ASSUME ~overtaken, x = "leader" PROVE FALSE
      BY Zenon
    <3>1. leader.made = 0
      BY Zenon, <1>1 DEF ClientInv, ClientControl
    <3>2. \E k \in 1..0 : SlotOf(a) = k % Concurrency
      BY Zenon, <1>3, <2>3, <3>1 DEF ClientInv, Numbered
    <3> QED  BY <3>2
  <2>5. ~overtaken => Places' = (Places \ {a}) \cup {b}
    BY ZenonT(30), <1>8, <1>9, <1>10, <1>11, <2>2, <2>3, <2>4 DEF PlacesSplit, a
  <2> QED  BY Zenon, <1>3, <1>4, <1>6, <2>1, <2>3, <2>5, MovedPlace
<1>13. CASE m \notin Requests
  <2>1. RpcPlaces' = RpcPlaces
    BY Zenon, <1>3, <1>13 DEF RpcPlaces
  <2>2. CellPlaces' = CellPlaces
    BY <1>10, <1>13 DEF CellPlaces
  <2>3. Places' = Places
    BY Zenon, <1>8, <1>9, <1>11, <2>1, <2>2 DEF PlacesSplit
  <2> QED  BY Zenon, <1>3, <1>4, <1>6, <2>3 DEF ClientInv
<1> QED  BY Zenon, <1>12, <1>13

\* The steps of the leader that load or send keep the invariant.
LEMMA LeaderKeeps ==
  ASSUME ClientInv, LeaderPing \/ LeaderPop \/ LeaderLoad
  PROVE  ClientInv'
<1>0. ClientTypes /\ ClientControl
  BY Zenon DEF ClientInv
<1>1. CASE LeaderPing
  <2>1. BeginOp("leader", "push", Ping) /\ leader' = [leader EXCEPT !.at = "pop"] /\ leader.at = "ping" /\ ~raced
        /\ UNCHANGED <<head, tail, cells, worker, req_id_, flight, overtaken>> /\ thread["leader"] = NoOp
    BY Zenon, <1>1 DEF LeaderPing, Ping, Free
  <2>2. leader'.at = "pop" /\ leader'.made = leader.made /\ leader'.id = leader.id
        /\ leader' \in [at : {"ping", "pop", "load", "store"}, made : 0..Concurrency, id : Nat]
    BY Zenon, <1>0, <2>1 DEF ClientTypes
  <2>3. /\ thread' \in [{"leader", "worker"} ->
               {NoOp} \cup [op : {"push"}, step : Steps, idx : Nat, msg : {Ping} \cup Requests]
                      \cup [op : {"pop"}, step : Steps, idx : Nat, msg : {Empty}]]
        /\ raced' \in BOOLEAN /\ thread'["leader"].op = "push" /\ thread'["leader"].msg = Ping
        /\ thread'["worker"] = thread["worker"] /\ (~raced' => thread["worker"].op # "push")
    BY Zenon, <1>0, <2>1, BeginFacts
  <2>4. ClientTypes'
    BY Zenon, <1>0, <2>1, <2>2, <2>3 DEF ClientTypes
  <2>5. ClientControl'
    BY Zenon, <1>0, <2>1, <2>2, <2>3 DEF ClientControl, Free
  <2>6. PushPlaces' = PushPlaces
    BY <2>1, <2>3, RequestFacts DEF PushPlaces, NoOp
  <2> QED  BY Zenon, <2>1, <2>2, <2>4, <2>5, <2>6, SamePlaces
<1>2. CASE LeaderPop
  <2>1. BeginOp("leader", "pop", Empty) /\ leader' = [leader EXCEPT !.at = "load"] /\ leader.at = "pop" /\ ~raced
        /\ UNCHANGED <<head, tail, cells, worker, req_id_, flight, overtaken>> /\ thread["leader"] = NoOp
    BY Zenon, <1>2 DEF LeaderPop, Free
  <2>2. leader'.at = "load" /\ leader'.made = leader.made /\ leader'.id = leader.id
        /\ leader' \in [at : {"ping", "pop", "load", "store"}, made : 0..Concurrency, id : Nat]
    BY Zenon, <1>0, <2>1 DEF ClientTypes
  <2>3. /\ thread' \in [{"leader", "worker"} ->
               {NoOp} \cup [op : {"push"}, step : Steps, idx : Nat, msg : {Ping} \cup Requests]
                      \cup [op : {"pop"}, step : Steps, idx : Nat, msg : {Empty}]]
        /\ raced' \in BOOLEAN /\ thread'["leader"].op = "pop"
        /\ thread'["worker"] = thread["worker"]
    BY Zenon, <1>0, <2>1, BeginFacts
  <2>4. ClientTypes'
    BY Zenon, <1>0, <2>1, <2>2, <2>3 DEF ClientTypes
  <2>5. ClientControl'
    BY Zenon, <1>0, <2>1, <2>2, <2>3 DEF ClientControl, Free
  <2>6. PushPlaces' = PushPlaces
    BY <2>1, <2>3, RequestFacts DEF PushPlaces, NoOp
  <2> QED  BY Zenon, <2>1, <2>2, <2>4, <2>5, <2>6, SamePlaces
<1>3. CASE LeaderLoad
  <2>1. leader' = [leader EXCEPT !.at = "store", !.id = req_id_] /\ leader.at = "load" /\ leader.made < Concurrency
        /\ ~raced /\ Free("leader")
        /\ UNCHANGED <<head, tail, cells, thread, worker, req_id_, flight, raced, overtaken>>
    BY Zenon, <1>3 DEF LeaderLoad
  <2>2. leader'.at = "store" /\ leader'.made = leader.made /\ leader'.id = req_id_
        /\ leader' \in [at : {"ping", "pop", "load", "store"}, made : 0..Concurrency, id : Nat]
    BY Zenon, <1>0, <2>1 DEF ClientTypes
  <2>4. ClientTypes'
    BY Zenon, <1>0, <2>1, <2>2 DEF ClientTypes
  <2>5. ClientControl'
    BY Zenon, <1>0, <2>1, <2>2 DEF ClientControl, Free
  <2>6. PushPlaces' = PushPlaces
    BY Zenon, <2>1 DEF PushPlaces
  <2> QED  BY Zenon, <2>1, <2>2, <2>4, <2>5, <2>6, SamePlaces
<1> QED  BY Zenon, <1>1, <1>2, <1>3

\* The leader's store of req_id_ keeps the invariant.
LEMMA LeaderStoreKeeps ==
  ASSUME ClientInv, LeaderStore
  PROVE  ClientInv'
<1>0. ClientTypes /\ ClientControl /\ Concurrency \in Nat \ {0} /\ IdMod \in Nat \ {0}
  BY Zenon, ClientAssumption DEF ClientInv
<1> SUFFICES ASSUME NEW k, k = leader.id, NEW n, n = leader.made PROVE ClientInv'
  BY Zenon
<1>1. /\ BeginOp("leader", "push", Msg("GET_DATA", k)) /\ leader' = [leader EXCEPT !.at = "load", !.made = @ + 1]
      /\ leader.at = "store" /\ ~raced /\ req_id_' = (k + 1) % IdMod
      /\ UNCHANGED <<head, tail, cells, worker, flight, overtaken>>
  BY Zenon DEF LeaderStore
<1>2. /\ thread["leader"] = NoOp /\ n < Concurrency /\ k \in Nat /\ n \in Nat
      /\ ~overtaken => k % Concurrency = (n + 1) % Concurrency
  BY <1>0, <1>1 DEF ClientTypes, ClientControl, Free
<1>3. leader'.at = "load" /\ leader'.made = n + 1
      /\ leader' \in [at : {"ping", "pop", "load", "store"}, made : 0..Concurrency, id : Nat]
  <2>1. leader \in [at : {"ping", "pop", "load", "store"}, made : 0..Concurrency, id : Nat]
    BY Zenon, <1>0 DEF ClientTypes
  <2>2. n + 1 \in 0..Concurrency
    BY <1>0, <1>2
  <2>3. leader' = [leader EXCEPT !.at = "load", !.made = n + 1]
    BY Zenon, <1>1
  <2> QED  BY Zenon, <2>1, <2>2, <2>3
<1> DEFINE m == Msg("GET_DATA", k)
<1>4. m \in Requests /\ m.id = k
  BY Zenon, <1>2, RequestFacts
<1> HIDE DEF m
<1>5. /\ thread' \in [{"leader", "worker"} ->
             {NoOp} \cup [op : {"push"}, step : Steps, idx : Nat, msg : {Ping} \cup Requests]
                    \cup [op : {"pop"}, step : Steps, idx : Nat, msg : {Empty}]]
      /\ raced' \in BOOLEAN /\ thread'["leader"].op = "push" /\ thread'["leader"].msg = m
      /\ thread'["worker"] = thread["worker"] /\ (~raced' => thread["worker"].op # "push")
  BY Zenon, <1>0, <1>1, <1>4, BeginFacts DEF m
<1>6. (k + 1) % IdMod \in Nat /\ ((k + 1) % IdMod) % Concurrency = (k + 1) % Concurrency
  BY <1>2, SlotKept
<1>7. ClientTypes'
  BY Zenon, <1>0, <1>1, <1>3, <1>5, <1>6 DEF ClientTypes
<1>8. ~overtaken => (k + 1) % Concurrency = (n + 1 + 1) % Concurrency
  <2>0. k \in Int /\ n + 1 \in Int /\ Concurrency \in Nat \ {0}
    BY <1>0, <1>2
  <2>1. ((k % Concurrency) + 1) % Concurrency = (k + 1) % Concurrency
    BY Zenon, <2>0, ModNext
  <2>2. (((n + 1) % Concurrency) + 1) % Concurrency = (n + 1 + 1) % Concurrency
    BY Zenon, <2>0, ModNext
  <2> QED  BY Zenon, <1>2, <2>1, <2>2
<1>9. ClientControl'
  <2>1. leader'.at \notin {"ping", "pop", "store"} /\ thread'["leader"].op # "pop"
    BY Zenon, <1>3, <1>5
  <2>2. worker'.at \in {"events", "store"} => Free("worker")'
    BY Zenon, <1>0, <1>1, <1>5 DEF ClientControl, Free
  <2>3. ~overtaken' => req_id_' % Concurrency = (leader'.made + 1) % Concurrency
    BY Zenon, <1>1, <1>3, <1>6, <1>8
  <2> QED  BY ZenonT(30), <1>0, <1>1, <1>5, <2>1, <2>2, <2>3 DEF ClientControl
<1>10. PushPlaces' = PushPlaces \cup {<<"push", 0, m>>}
  BY <1>2, <1>4, <1>5 DEF PushPlaces, NoOp
<1>11. CellPlaces' = CellPlaces /\ RpcPlaces' = RpcPlaces /\ NextPlaces' = NextPlaces
  BY Zenon, <1>1 DEF CellPlaces, RpcPlaces, NextPlaces
<1>12. Places' = Places \cup {<<"push", 0, m>>}
  <2>1. PlacesSplit'
    BY <1>7, PlacesKinds, PTL
  <2>2. PlacesSplit
    BY Zenon, <1>0, PlacesKinds
  <2> QED  BY Zenon, <1>10, <1>11, <2>1, <2>2 DEF PlacesSplit
<1>13. ~raced' /\ ~overtaken' => Numbered(Places', leader'.made)
  <2> SUFFICES ASSUME ~overtaken PROVE Numbered(Places', n + 1)
    BY Zenon, <1>1, <1>3
  <2>1. Numbered(Places, n)
    BY Zenon, <1>1 DEF ClientInv
  <2>2. SlotOf(<<"push", 0, m>>) = (n + 1) % Concurrency
    BY Zenon, <1>2, <1>4 DEF SlotOf
  <2> QED  BY Zenon, <1>2, <1>12, <2>1, <2>2, AddKeeps
<1> QED  BY Zenon, <1>7, <1>9, <1>13 DEF ClientInv

\* The worker's reading of the queue's size, its pops and its empty polls keep
\* the invariant.
LEMMA WorkerKeeps ==
  ASSUME ClientInv, WasSize \/ WorkerPop \/ NoEvent
  PROVE  ClientInv'
<1>0. ClientTypes /\ ClientControl /\ IndexMod \in Nat \ {0}
  BY Zenon, ClientAssumption DEF ClientInv
<1>1. CASE WasSize \/ NoEvent \/ (WorkerPop /\ worker.left = 0)
  <2>1. /\ ~raced /\ UNCHANGED <<head, tail, cells, thread, leader, req_id_, flight, raced, overtaken>>
        /\ \E at \in {"size", "pops", "events"}, l \in Int : worker' = [worker EXCEPT !.at = at, !.left = l]
    <3>1. CASE WasSize
      <4> DEFINE n == (head - tail) % IndexMod
                 l == IF n <= IndexMod \div 2 THEN n ELSE 0
      <4>1. n \in Int /\ l \in Int
        BY <1>0 DEF ClientTypes
      <4>2. worker' = [worker EXCEPT !.at = "pops", !.left = l]
        BY Zenon, <3>1 DEF WasSize
      <4> HIDE DEF l
      <4> QED  BY Zenon, <3>1, <4>1, <4>2 DEF WasSize
    <3>2. CASE NoEvent
      <4>1. worker' = [worker EXCEPT !.at = "size", !.left = worker.left] /\ worker.left \in Int
        BY Zenon, <1>0, <3>2 DEF NoEvent, ClientTypes
      <4> QED  BY Zenon, <3>2, <4>1 DEF NoEvent
    <3>3. CASE WorkerPop /\ worker.left = 0
      <4>1. worker' = [worker EXCEPT !.at = "events", !.left = worker.left] /\ worker.left \in Int
        BY Zenon, <1>0, <3>3 DEF WorkerPop, ClientTypes
      <4> QED  BY Zenon, <3>3, <4>1 DEF WorkerPop
    <3> QED  BY Zenon, <1>1, <3>1, <3>2, <3>3
  <2>2. /\ worker'.got = worker.got /\ worker'.at # "store"
        /\ worker' \in [at : {"size", "pops", "events", "store"}, left : Int, id : Nat, got : {Empty} \cup Requests]
    BY ZenonT(30), <1>0, <2>1 DEF ClientTypes
  <2>3. worker'.at \in {"events", "store"} => Free("worker")
    BY Zenon, <1>0, <1>1, <2>1 DEF WasSize, NoEvent, WorkerPop, ClientControl, ClientTypes
  <2>4. worker.at # "store"
    BY Zenon, <1>1 DEF WasSize, NoEvent, WorkerPop
  <2>5. ClientTypes'
    BY Zenon, <1>0, <2>1, <2>2 DEF ClientTypes
  <2>6. ClientControl'
    BY Zenon, <1>0, <2>1, <2>2, <2>3, <2>4 DEF ClientControl, Free
  <2>7. PushPlaces' = PushPlaces
    BY Zenon, <2>1 DEF PushPlaces
  <2> QED  BY Zenon, <2>1, <2>2, <2>5, <2>6, <2>7, SamePlaces
<1>2. CASE WorkerPop /\ worker.left # 0
  <2>1. /\ BeginOp("worker", "pop", Empty) /\ worker' = [worker EXCEPT !.left = @ - 1] /\ worker.at = "pops" /\ ~raced
        /\ UNCHANGED <<head, tail, cells, leader, req_id_, flight, overtaken>> /\ thread["worker"] = NoOp
    BY Zenon, <1>2 DEF WorkerPop, Free
  <2>2. /\ worker'.got = worker.got /\ worker'.at = worker.at
        /\ worker' \in [at : {"size", "pops", "events", "store"}, left : Int, id : Nat, got : {Empty} \cup Requests]
    BY SMTT(30), <1>0, <2>1 DEF ClientTypes
  <2>3. /\ thread' \in [{"leader", "worker"} ->
               {NoOp} \cup [op : {"push"}, step : Steps, idx : Nat, msg : {Ping} \cup Requests]
                      \cup [op : {"pop"}, step : Steps, idx : Nat, msg : {Empty}]]
        /\ raced' \in BOOLEAN /\ thread'["worker"].op = "pop" /\ thread'["leader"] = thread["leader"]
    BY Zenon, <1>0, <2>1, BeginFacts
  <2>4. ClientTypes'
    BY Zenon, <1>0, <2>1, <2>2, <2>3 DEF ClientTypes
  <2>5. ClientControl'
    BY Zenon, <1>0, <2>1, <2>2, <2>3 DEF ClientControl, Free
  <2>6. PushPlaces' = PushPlaces
    BY <2>1, <2>3 DEF PushPlaces, NoOp
  <2> QED  BY Zenon, <2>1, <2>2, <2>4, <2>5, <2>6, SamePlaces
<1> QED  BY Zenon, <1>1, <1>2

\* What a callback answers keeps the id.
LEMMA AnswerFacts ==
  ASSUME NEW m \in {Ping} \cup Requests, NEW ok \in BOOLEAN
  PROVE  /\ m = Ping => FollowUp(m, ok) = Ping
         /\ m # Ping /\ FollowUp(m, ok) # Empty => FollowUp(m, ok) \in Requests /\ FollowUp(m, ok).id = m.id
<1>1. m = Ping => FollowUp(m, ok) = Ping
  BY Zenon, RequestFacts DEF FollowUp, Ping
<1>2. ASSUME m # Ping, FollowUp(m, ok) # Empty PROVE FollowUp(m, ok) \in Requests /\ FollowUp(m, ok).id = m.id
  <2>1. m \in Requests /\ m.type \in {"GET_DATA", "GET_LOCK", "FINISH"} /\ m.id \in Nat
    BY Zenon, <1>2 DEF Requests
  <2>2. m.type = "GET_DATA" => FollowUp(m, ok) = Msg("GET_LOCK", m.id)
    BY Zenon DEF FollowUp
  <2>3. m.type = "GET_LOCK" => FollowUp(m, ok) = Msg("FINISH", m.id)
    BY Zenon, <1>2 DEF FollowUp
  <2>4. m.type # "FINISH"
    BY Zenon, <1>2 DEF FollowUp
  <2> QED  BY SMTT(30), <2>1, <2>2, <2>3, <2>4 DEF Msg, Requests
<1> QED  BY Zenon, <1>1, <1>2

\* A callback that leaves req_id_ alone keeps the invariant.
LEMMA CallbackSameKeeps ==
  ASSUME ClientInv, NEW m \in flight, NEW ok \in BOOLEAN, CallbackSame(m, ok)
  PROVE  ClientInv'
<1>0. ClientTypes /\ ClientControl /\ m \in {Ping} \cup Requests
  BY Zenon DEF ClientInv, ClientTypes
<1> SUFFICES ASSUME NEW w, w = FollowUp(m, ok) PROVE ClientInv'
  BY Zenon
<1>1. /\ BeginOp("worker", "push", w) /\ worker' = [worker EXCEPT !.at = "size"] /\ worker.at = "events" /\ ~raced
      /\ w # Empty /\ flight' = flight \ {m} /\ UNCHANGED <<head, tail, cells, leader, req_id_, overtaken>>
  BY Zenon DEF CallbackSame
<1>2. thread["worker"] = NoOp /\ worker.got = Empty
  BY Zenon, <1>0, <1>1 DEF ClientControl, Free
<1>3. (m = Ping => w = Ping) /\ (m # Ping => w \in Requests /\ w.id = m.id)
  BY Zenon, <1>0, <1>1, AnswerFacts
<1>4. /\ worker'.got = worker.got /\ worker'.at = "size"
      /\ worker' \in [at : {"size", "pops", "events", "store"}, left : Int, id : Nat, got : {Empty} \cup Requests]
  BY Zenon, <1>0, <1>1 DEF ClientTypes
<1>5. /\ thread' \in [{"leader", "worker"} ->
             {NoOp} \cup [op : {"push"}, step : Steps, idx : Nat, msg : {Ping} \cup Requests]
                    \cup [op : {"pop"}, step : Steps, idx : Nat, msg : {Empty}]]
      /\ raced' \in BOOLEAN /\ thread'["worker"].op = "push" /\ thread'["worker"].msg = w
      /\ thread'["leader"] = thread["leader"] /\ (~raced' => thread["leader"].op # "push")
  BY Zenon, <1>0, <1>1, <1>3, BeginFacts
<1>6. ClientTypes'
  BY Zenon, <1>0, <1>1, <1>4, <1>5 DEF ClientTypes
<1>7. ClientControl'
  BY Zenon, <1>0, <1>1, <1>2, <1>4, <1>5 DEF ClientControl, Free
<1>8. CellPlaces' = CellPlaces /\ NextPlaces' = NextPlaces
  BY Zenon, <1>1, <1>4 DEF CellPlaces, NextPlaces
<1>9. PlacesSplit /\ PlacesSplit'
  <2>1. PlacesSplit'
    BY <1>6, PlacesKinds, PTL
  <2> QED  BY Zenon, <1>0, <2>1, PlacesKinds
<1>10. CASE m = Ping
  <2>1. RpcPlaces' = RpcPlaces
    BY Zenon, <1>1, <1>10, RequestFacts DEF RpcPlaces
  <2>2. PushPlaces' = PushPlaces
    BY <1>2, <1>3, <1>5, <1>10, RequestFacts DEF PushPlaces, NoOp
  <2>3. Places' = Places
    BY Zenon, <1>8, <1>9, <2>1, <2>2 DEF PlacesSplit
  <2> QED  BY Zenon, <1>1, <1>6, <1>7, <2>3 DEF ClientInv
<1>11. CASE m # Ping
  <2> DEFINE a == <<"rpc", 0, m>>
             b == <<"push", 0, w>>
  <2>1. SlotOf(a) = SlotOf(b) /\ a \in RpcPlaces /\ a[1] = "rpc"
    BY Zenon, <1>0, <1>3, <1>11 DEF SlotOf, RpcPlaces
  <2>2. RpcPlaces' = RpcPlaces \ {a}
    BY SMTT(30), <1>0, <1>1, <1>11 DEF RpcPlaces
  <2>3. PushPlaces' = PushPlaces \cup {b}
    BY SMTT(30), <1>2, <1>3, <1>5, <1>11 DEF PushPlaces, NoOp
  <2> HIDE DEF a, b
  <2>4. a \in Places /\ a \notin CellPlaces /\ a \notin NextPlaces /\ a \notin PushPlaces
    BY Zenon, <1>9, <2>1, PlaceTags DEF PlacesSplit
  <2>5. Places' = (Places \ {a}) \cup {b}
    BY ZenonT(30), <1>8, <1>9, <2>1, <2>2, <2>3, <2>4 DEF PlacesSplit
  <2> QED  BY Zenon, <1>1, <1>6, <1>7, <2>1, <2>4, <2>5, MovedPlace
<1> QED  BY Zenon, <1>10, <1>11

\* A callback's load of req_id_ keeps the invariant.
LEMMA CallbackLoadKeeps ==
  ASSUME ClientInv, NEW m \in flight, NEW ok \in BOOLEAN, CallbackLoad(m, ok)
  PROVE  ClientInv'
<1>0. ClientTypes /\ ClientControl /\ m \in {Ping} \cup Requests
  BY Zenon DEF ClientInv, ClientTypes
<1>1. /\ worker' = [worker EXCEPT !.at = "store", !.id = req_id_, !.got = m] /\ worker.at = "events" /\ ~raced
      /\ FollowUp(m, ok) = Empty /\ flight' = flight \ {m}
      /\ UNCHANGED <<head, tail, cells, thread, leader, req_id_, raced, overtaken>>
  BY Zenon DEF CallbackLoad
<1>2. thread["worker"] = NoOp /\ worker.got = Empty
  BY Zenon, <1>0, <1>1 DEF ClientControl, Free
<1>3. m \in Requests /\ m # Empty
  BY Zenon, <1>0, <1>1, AnswerFacts, RequestFacts
<1>4. /\ worker'.got = m /\ worker'.at = "store"
      /\ worker' \in [at : {"size", "pops", "events", "store"}, left : Int, id : Nat, got : {Empty} \cup Requests]
  BY Zenon, <1>0, <1>1, <1>3 DEF ClientTypes
<1>6. ClientTypes'
  BY Zenon, <1>0, <1>1, <1>4 DEF ClientTypes
<1>7. ClientControl'
  BY Zenon, <1>0, <1>1, <1>2, <1>3, <1>4 DEF ClientControl, Free
<1>8. CellPlaces' = CellPlaces /\ PushPlaces' = PushPlaces
  BY Zenon, <1>1 DEF CellPlaces, PushPlaces
<1>9. PlacesSplit /\ PlacesSplit'
  <2>1. PlacesSplit'
    BY <1>6, PlacesKinds, PTL
  <2> QED  BY Zenon, <1>0, <2>1, PlacesKinds
<1> DEFINE a == <<"rpc", 0, m>>
           b == <<"next", 0, m>>
<1>10. SlotOf(a) = SlotOf(b) /\ a \in RpcPlaces /\ a[1] = "rpc"
  BY Zenon, <1>3 DEF SlotOf, RpcPlaces
<1>11. RpcPlaces' = RpcPlaces \ {a}
  BY SMTT(30), <1>1, <1>3 DEF RpcPlaces
<1>12. NextPlaces' = {b} /\ NextPlaces = {}
  BY SMTT(30), <1>2, <1>3, <1>4, RequestFacts DEF NextPlaces
<1> HIDE DEF a, b
<1>13. a \in Places /\ a \notin CellPlaces /\ a \notin PushPlaces
  BY Zenon, <1>9, <1>10, PlaceTags DEF PlacesSplit
<1>14. Places' = (Places \ {a}) \cup {b}
  BY Zenon, <1>8, <1>9, <1>10, <1>11, <1>12, <1>13 DEF PlacesSplit
<1> QED  BY ZenonT(30), <1>1, <1>6, <1>7, <1>10, <1>13, <1>14, MovedPlace

\* A callback's store of req_id_ keeps the invariant.
LEMMA CallbackStoreKeeps ==
  ASSUME ClientInv, CallbackStore
  PROVE  ClientInv'
<1>0. ClientTypes /\ ClientControl /\ IdMod \in Nat \ {0}
  BY Zenon, ClientAssumption DEF ClientInv
<1> SUFFICES ASSUME NEW m, m = worker.got, NEW w, w = Msg("GET_DATA", NextId(m.id)) PROVE ClientInv'
  BY Zenon
<1>1. /\ BeginOp("worker", "push", w) /\ worker' = [worker EXCEPT !.at = "size", !.id = 0, !.got = Empty]
      /\ worker.at = "store" /\ ~raced /\ req_id_' = (worker.id + 1) % IdMod
      /\ overtaken' = (overtaken \/ leader.made < Concurrency)
      /\ UNCHANGED <<head, tail, cells, leader, flight>>
  BY Zenon DEF CallbackStore
<1>2. thread["worker"] = NoOp /\ m \in Requests
  BY Zenon, <1>0, <1>1 DEF ClientControl, ClientTypes, Free
<1>3. w \in Requests /\ w.id % Concurrency = m.id % Concurrency
  BY Zenon, <1>2, RequestFacts, SlotKept
<1>4. /\ worker'.got = Empty /\ worker'.at = "size"
      /\ worker' \in [at : {"size", "pops", "events", "store"}, left : Int, id : Nat, got : {Empty} \cup Requests]
  BY Zenon, <1>0, <1>1 DEF ClientTypes
<1>5. /\ thread' \in [{"leader", "worker"} ->
             {NoOp} \cup [op : {"push"}, step : Steps, idx : Nat, msg : {Ping} \cup Requests]
                    \cup [op : {"pop"}, step : Steps, idx : Nat, msg : {Empty}]]
      /\ raced' \in BOOLEAN /\ thread'["worker"].op = "push" /\ thread'["worker"].msg = w
      /\ thread'["leader"] = thread["leader"] /\ (~raced' => thread["leader"].op # "push")
  BY Zenon, <1>0, <1>1, <1>3, BeginFacts
<1>6. ClientTypes'
  <2>1. req_id_' \in Nat /\ overtaken' \in BOOLEAN
    BY SMTT(30), <1>0, <1>1 DEF ClientTypes
  <2> QED  BY Zenon, <1>0, <1>1, <1>4, <1>5, <2>1 DEF ClientTypes
<1>7. ClientControl'
  <2>1. overtaken' \/ (~(leader'.made < Concurrency) /\ leader'.at # "store")
    <3>1. leader.at = "store" => leader.made < Concurrency
      BY Zenon, <1>0 DEF ClientControl
    <3>2. leader.made < Concurrency => overtaken'
      BY Zenon, <1>1
    <3> QED  BY Zenon, <1>1, <3>1, <3>2
  <2> QED  BY Zenon, <1>0, <1>1, <1>4, <1>5, <2>1 DEF ClientControl, Free
<1>8. CellPlaces' = CellPlaces /\ RpcPlaces' = RpcPlaces
  BY Zenon, <1>1 DEF CellPlaces, RpcPlaces
<1>9. PlacesSplit /\ PlacesSplit'
  <2>1. PlacesSplit'
    BY <1>6, PlacesKinds, PTL
  <2> QED  BY Zenon, <1>0, <2>1, PlacesKinds
<1> DEFINE a == <<"next", 0, m>>
           b == <<"push", 0, w>>
<1>10. SlotOf(a) = SlotOf(b) /\ a[1] = "next"
  BY Zenon, <1>3 DEF SlotOf
<1>11. NextPlaces' = {} /\ NextPlaces = {a}
  BY SMTT(30), <1>2, <1>4, RequestFacts DEF NextPlaces
<1>12. PushPlaces' = PushPlaces \cup {b}
  BY <1>2, <1>3, <1>5 DEF PushPlaces, NoOp
<1> HIDE DEF a, b
<1>13. a \in Places /\ a \notin CellPlaces /\ a \notin PushPlaces /\ a \notin RpcPlaces
  BY Zenon, <1>9, <1>10, <1>11, PlaceTags DEF PlacesSplit
<1>14. Places' = (Places \ {a}) \cup {b}
  BY Zenon, <1>8, <1>9, <1>11, <1>12, <1>13 DEF PlacesSplit
<1>15. ~overtaken' => ~overtaken
  BY Zenon, <1>1
<1> QED  BY Zenon, <1>1, <1>6, <1>7, <1>10, <1>13, <1>14, <1>15, MovedPlace

\* Every step of a client keeps the invariant.
LEMMA ClientKeepsInv ==
  ASSUME ClientInv, [ClientNext]_clientVars
  PROVE  ClientInv'
<1>1. CASE ClientNext
  BY Zenon, <1>1, TakeIndexKeeps, PutCellKeeps, GetCellKeeps, LeaderKeeps, LeaderStoreKeeps, WorkerKeeps,
     CallbackSameKeeps, CallbackLoadKeeps, CallbackStoreKeeps DEF ClientNext
<1>2. CASE UNCHANGED clientVars
  <2>0. ClientTypes /\ ClientControl
    BY Zenon DEF ClientInv
  <2>0a. UNCHANGED <<head, tail, cells, thread, leader, worker, req_id_, flight, raced, overtaken>>
    BY Zenon, <1>2 DEF clientVars
  <2>1. ClientTypes'
    BY Zenon, <2>0, <2>0a DEF ClientTypes
  <2>1a. ClientControl'
    BY Zenon, <2>0, <2>0a DEF ClientControl, Free
  <2>2. Places' = Places
    BY <1>2 DEF clientVars, Places, Queued, Pushing
  <2> QED  BY Zenon, <1>2, <2>1, <2>1a, <2>2 DEF clientVars, ClientInv
<1> QED  BY Zenon, <1>1, <1>2

\* Unless a callback moved req_id_ while the leader was still numbering its
\* first requests, no two transactions of a client share a buffer slot, for
\* every concurrency that divides kAppMaxBuffer.
THEOREM ClientSlotsDistinct == ClientSpec => []SlotsDistinct
<1>1. ClientInv => SlotsDistinct
  <2> SUFFICES ASSUME ClientInv, ~raced, ~overtaken, NEW a \in Places, NEW b \in Places, a # b
               PROVE  a[3].id % Buffers # b[3].id % Buffers
    BY Zenon DEF SlotsDistinct
  <2>1. SlotOf(a) # SlotOf(b)
    BY Zenon DEF ClientInv, Numbered
  <2>2. a[3].id \in Nat /\ b[3].id \in Nat
    <3>1. \A p \in CellPlaces \cup RpcPlaces \cup PushPlaces \cup NextPlaces : p[3] \in Requests
      BY SMTT(30) DEF CellPlaces, RpcPlaces, PushPlaces, NextPlaces
    <3> QED  BY Zenon, <3>1, PlacesKinds, RequestFacts DEF PlacesSplit, ClientInv
  <2> QED  BY ZenonT(30), <2>1, <2>2, SlotKept DEF SlotOf
<1>2. ClientInv /\ [ClientNext]_clientVars => ClientInv'
  BY Zenon, ClientKeepsInv
<1> QED  BY <1>1, <1>2, ClientStarts, PTL DEF ClientSpec

\* While the queue has one producer and one consumer at a time, a client
\* neither loses nor duplicates a transaction.
THEOREM ClientLosesNothing == ClientSpec => []NothingLost
<1>1. ClientInv => NothingLost
  BY Zenon DEF ClientInv, Numbered, NothingLost
<1>2. ClientInv /\ [ClientNext]_clientVars => ClientInv'
  BY Zenon, ClientKeepsInv
<1> QED  BY <1>1, <1>2, ClientStarts, PTL DEF ClientSpec
=============================================================================
