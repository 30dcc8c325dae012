------------------------- MODULE DpaPrograms_proofs -------------------------
(***************************************************************************)
(* What the device functions of the DPA applications do, for every         *)
(* application, placement, packet and ring size: on the context that       *)
(* dpa_device_init made, each program stays on its own context, pairs its  *)
(* table accesses, announces what it writes, answers a reflector's packet  *)
(* once, and reaches host memory through the right window.                 *)
(***************************************************************************)
EXTENDS DpaPrograms, TLAPS

----------------------------------------------------------------------------
(* Programs that are right *)

\* The operations of the programs, and the packets an application gets.
OpNames == {"window", "load", "store", "mac", "headers", "take", "bump", "post", "ring",
            "get", "put", "step", "drain", "count"}
Buffers == {"rx", "tx", "kv"}
Args == Buffers \cup {"mem", "win"} \cup Keys
Ops == OpNames \X Args \X Tids
Messages(ap) == IF ap = "kv" THEN Keys ELSE {"ok", "odd", "ping"}

\* A put follows the get of its entry, and only handlers aggregate.
Aggregates(a, s) == \A i \in 1..Len(s) :
  /\ s[i][1] \in {"get", "put"} => a # RPC /\ s[i][2] \in Keys
  /\ s[i][1] = "put" /\ i > 1 => s[i - 1][1] = "get" /\ s[i - 1][2] = s[i][2]
\* A reflector's handler ends a packet with post, doorbell and step.
Answers(s) == \A i \in 1..Len(s) :
  /\ s[i][1] = "step" <=> i = Len(s)
  /\ s[i][1] = "ring" <=> i = Len(s) - 1
  /\ s[i][1] = "post" <=> i = Len(s) - 2
  /\ s[i][1] # "drain"
\* A handler that starts only configures its window.
Configures(s) == \A i \in 1..Len(s) : s[i][1] = "window"
\* What is written into the send buffer, or posted, is announced by a doorbell.
SendBuffer(ap) == IF ap \in Reflectors THEN "rx" ELSE "tx"
Held(p, b) == IF b = "kv" THEN p.kv ELSE IF b = "tx" THEN p.tx ELSE p.rx
Writes(ap, op) == \/ op[1] = "store" /\ op[2] = SendBuffer(ap)
                  \/ op[1] \in {"mac", "headers"} /\ SendBuffer(ap) = "tx"
Clears(ap, p, op) == op[1] = "ring" /\ (op[2] # "mem" \/ Held(p, SendBuffer(ap)) # "host")
Announces(ap, p, a, s) == \A i \in 1..Len(s) :
  /\ s[i][1] = "post" => \E j \in (i + 1)..Len(s) : s[j][1] = "ring"
  /\ Writes(ap, s[i]) /\ ~(a = RPC /\ ap = "send_mt") =>
       \E j \in (i + 1)..Len(s) : Clears(ap, p, s[j])
\* Completions are taken by handlers alone, and the one a packet was found in is
\* taken before the queue is emptied.
Consumes(a, s) == \A i \in 1..Len(s) : s[i][1] \in {"step", "drain"} =>
  a # RPC /\ \A j \in (i + 1)..Len(s) : s[j][1] # "step"
\* A handler uses its own context, a program of the RPC thread one context.
OwnContext(a, s) == \A i \in 1..Len(s) : IF a = RPC THEN s[i][3] = s[1][3] ELSE s[i][3] = a

\* The memory key of a buffer, and the key a handler's window has between packets.
KeyOf(p, b) == IF b = "tx" /\ p.shared THEN "rx" ELSE b
Home(ap, p) == IF ap = "kv" THEN "kv" ELSE IF p.rx = "host" THEN "rx" ELSE KeyOf(p, "tx")
NeedsHome(ap, p) == IF ap = "kv" THEN p.kv = "host" ELSE ap # "hostrq" /\ "host" \in {p.rx, p.tx}
Touches(op) == IF op[1] \in {"load", "store", "mac", "headers"} THEN {op[2]}
               ELSE IF op[1] \in {"get", "put"} THEN {"kv"} ELSE {}
\* The window, w at first, has key k when operation i of s is reached.
LastKey(p, s, i, w, k) ==
  \/ \E j \in 1..(i - 1) : /\ s[j][1] = "window" /\ KeyOf(p, s[j][2]) = k
                           /\ \A l \in (j + 1)..(i - 1) : s[l][1] # "window"
  \/ w = k /\ \A l \in 1..(i - 1) : s[l][1] # "window"
\* With the window at w first, the program s of a finds every host buffer it touches
\* behind the window, touches a table in dpa_kv only, and leaves the window at home.
Windowed(ap, p, a, s, w) ==
  /\ \A i \in 1..Len(s) : \A b \in Touches(s[i]) :
       /\ ap # "hostrq" /\ Held(p, b) = "host" => LastKey(p, s, i, w, KeyOf(p, b))
       /\ b = "kv" => ap = "kv"
  /\ a # RPC /\ NeedsHome(ap, p) => LastKey(p, s, Len(s) + 1, w, Home(ap, p))

\* A program is right for application ap with placement p and actor a.
Good(ap, p, a, s) ==
  /\ s \in Seq(Ops)
  /\ OwnContext(a, s)
  /\ Aggregates(a, s)
  /\ Consumes(a, s)
  /\ Announces(ap, p, a, s)
  /\ ap \in Reflectors => IF a = RPC THEN s = <<>> ELSE Configures(s) \/ Answers(s)

\* What remains of a right program after one of its operations is right.
LEMMA GoodTail ==
  ASSUME NEW ap, NEW p, NEW a, NEW s, Good(ap, p, a, s), s # <<>>
  PROVE  Good(ap, p, a, Tail(s)) /\ Head(s) = s[1]
<1>1. /\ s \in Seq(Ops) /\ Tail(s) \in Seq(Ops) /\ Len(Tail(s)) = Len(s) - 1 /\ Len(s) \in Nat \ {0}
      /\ \A i \in 1..(Len(s) - 1) : Tail(s)[i] = s[i + 1]
      /\ Head(s) = s[1]
  BY DEF Good
<1> DEFINE r == Tail(s)
<1> HIDE DEF r
<1>2. OwnContext(a, r)
  BY <1>1 DEF Good, OwnContext, r
<1>3. Aggregates(a, r)
  BY <1>1 DEF Good, Aggregates, r
<1>3a. Consumes(a, r)
  <2>1. SUFFICES ASSUME NEW i \in 1..Len(r), r[i][1] \in {"step", "drain"}
        PROVE  a # RPC /\ \A j \in (i + 1)..Len(r) : r[j][1] # "step"
    BY Zenon DEF Consumes
  <2>2. /\ i + 1 \in 1..Len(s) /\ r[i] = s[i + 1]
        /\ \A j \in (i + 1)..Len(r) : j + 1 \in ((i + 1) + 1)..Len(s) /\ r[j] = s[j + 1]
    BY <1>1 DEF r
  <2>3. Consumes(a, s) /\ s[i + 1][1] \in {"step", "drain"}
    BY Zenon, <2>1, <2>2 DEF Good
  <2>4. a # RPC /\ \A j \in ((i + 1) + 1)..Len(s) : s[j][1] # "step"
    BY Zenon, <2>2, <2>3 DEF Consumes
  <2>5. QED
    BY Zenon, <2>2, <2>4
<1>4. Announces(ap, p, a, r)
  <2>1. SUFFICES ASSUME NEW i \in 1..Len(r)
        PROVE /\ r[i][1] = "post" => \E j \in (i + 1)..Len(r) : r[j][1] = "ring"
              /\ Writes(ap, r[i]) /\ ~(a = RPC /\ ap = "send_mt") =>
                   \E j \in (i + 1)..Len(r) : Clears(ap, p, r[j])
    BY Zenon DEF Announces
  <2>2. i + 1 \in 1..Len(s) /\ r[i] = s[i + 1] /\ \A j \in (i + 2)..Len(s) : j - 1 \in (i + 1)..Len(r) /\ s[j] = r[j - 1]
    BY <1>1 DEF r
  <2>3. Announces(ap, p, a, s)
    BY Zenon DEF Good
  <2>4. ASSUME r[i][1] = "post" PROVE \E j \in (i + 1)..Len(r) : r[j][1] = "ring"
    <3>1. PICK j \in (i + 2)..Len(s) : s[j][1] = "ring"
      BY <2>2, <2>3, <2>4 DEF Announces
    <3>2. j - 1 \in (i + 1)..Len(r) /\ r[j - 1][1] = "ring"
      BY Zenon, <2>2, <3>1
    <3>3. QED
      BY Zenon, <3>2
  <2>5. ASSUME Writes(ap, r[i]), ~(a = RPC /\ ap = "send_mt")
        PROVE  \E j \in (i + 1)..Len(r) : Clears(ap, p, r[j])
    <3>1. PICK j \in (i + 2)..Len(s) : Clears(ap, p, s[j])
      BY <2>2, <2>3, <2>5 DEF Announces
    <3>2. j - 1 \in (i + 1)..Len(r) /\ Clears(ap, p, r[j - 1])
      BY Zenon, <2>2, <3>1
    <3>3. QED
      BY Zenon, <3>2
  <2>6. QED
    BY Zenon, <2>4, <2>5
<1>5. ap \in Reflectors => IF a = RPC THEN r = <<>> ELSE Configures(r) \/ Answers(r)
  <2>1. SUFFICES ASSUME ap \in Reflectors, a # RPC PROVE Configures(r) \/ Answers(r)
    BY Zenon, <1>1 DEF Good
  <2>2. CASE Configures(s)
    BY <1>1, <2>2 DEF Configures, r
  <2>3. CASE Answers(s)
    <3>1. SUFFICES ASSUME NEW i \in 1..Len(r)
          PROVE  /\ r[i][1] = "step" <=> i = Len(r)
                 /\ r[i][1] = "ring" <=> i = Len(r) - 1
                 /\ r[i][1] = "post" <=> i = Len(r) - 2
                 /\ r[i][1] # "drain"
      BY Zenon DEF Answers
    <3>2. i + 1 \in 1..Len(s) /\ r[i] = s[i + 1] /\ Len(s) = Len(r) + 1 /\ Len(r) \in Nat /\ i \in Int
      BY <1>1 DEF r
    <3>3. /\ s[i + 1][1] = "step" <=> i + 1 = Len(s)
          /\ s[i + 1][1] = "ring" <=> i + 1 = Len(s) - 1
          /\ s[i + 1][1] = "post" <=> i + 1 = Len(s) - 2
          /\ s[i + 1][1] # "drain"
      BY Zenon, <2>3, <3>2 DEF Answers
    <3>4. QED
      BY <3>2, <3>3
  <2>4. QED
    BY Zenon, <2>1, <2>2, <2>3 DEF Good
<1>6. QED
  BY Zenon, <1>1, <1>2, <1>3, <1>3a, <1>4, <1>5 DEF Good, r

----------------------------------------------------------------------------
\* The operations of one context are operations.
OpSet(t) == \A n \in OpNames, b \in Args : <<n, b, t>> \in Ops

\* The operations of every context are operations.
LEMMA OpsAreOps == \A t \in Tids : OpSet(t)
BY Zenon DEF OpSet, Ops

\* Only packets are touched, and the window stays where it is.
Plain(a, s) ==
  /\ s \in Seq(Ops) /\ OwnContext(a, s) /\ Consumes(a, s)
  /\ \A i \in 1..Len(s) : s[i][1] \notin {"get", "put"}
  /\ \A i \in 1..Len(s) : s[i][1] \in {"load", "store", "mac", "headers"} => s[i][2] \in {"rx", "tx"}
Still(s) == \A i \in 1..Len(s) : s[i][1] # "window"
NotPut(s) == s # <<>> => s[1][1] # "put"

\* A program whose operation k is a doorbell that writes back the send buffer, and which
\* neither writes nor posts from k on, announces all it writes and posts.
LEMMA AnnouncesBy ==
  ASSUME NEW ap, NEW p, NEW a, NEW s \in Seq(Ops), NEW k \in 1..Len(s), Clears(ap, p, s[k]),
         \A i \in k..Len(s) : s[i][1] # "post" /\ ~Writes(ap, s[i])
  PROVE  Announces(ap, p, a, s)
<1>1. \A i \in 1..Len(s) : s[i][1] = "post" \/ Writes(ap, s[i]) => k \in (i + 1)..Len(s)
  OBVIOUS
<1>2. s[k][1] = "ring"
  BY Zenon DEF Clears
<1>3. QED
  BY Zenon, <1>1, <1>2 DEF Announces

\* Outside the reflectors, a plain program that announces what it writes is right.
LEMMA PlainGood ==
  ASSUME NEW ap, ap \notin Reflectors, NEW p, NEW a, NEW s, Plain(a, s), Announces(ap, p, a, s)
  PROVE  Good(ap, p, a, s) /\ NotPut(s)
BY DEF Plain, Good, Aggregates, NotPut

PlacedAs(ap, p, c) ==
  /\ ap \in Reflectors => c.rx = p.rx /\ p.tx = p.rx /\ p.shared
  /\ ap \in Batches => p.tx = "dpa"
  /\ ap = "ddio" => c.rx = p.rx
  /\ ap = "kv" => c.rx = p.rx /\ c.kv = p.kv
  /\ ap \in PingPongs \cup {"send_mt"} => c.rx = p.rx /\ c.tx = p.tx /\ (p.shared \/ p.rx = "dpa")
  /\ ap \in Banks => p.rx = "dpa" /\ p.tx = "dpa"
  /\ ap # "kv" => p.kv = "dpa"
  /\ p.rx \in Memories /\ p.tx \in Memories /\ p.kv \in Memories

\* dpa_device_init leaves in the device context the placement main has chosen, in every
\* application.
LEMMA DevicePlaced ==
  ASSUME NEW ap \in Apps, NEW p \in Placements(ap)
  PROVE  PlacedAs(ap, p, DeviceInit(ap, p))
<1> USE DEF Placements, Placement, Memories, SharedPlacements, Keeps, PlacedAs, DeviceInit, Reflectors, Batches, PingPongs, Banks
<1>1. CASE ap = "refactor"
  BY <1>1 DEF refactor_device_init
<1>2. CASE ap = "mt"
  BY <1>2 DEF mt_device_init
<1>3. CASE ap = "nf"
  BY <1>3 DEF nf_device_init
<1>4. CASE ap = "workingset"
  BY <1>4 DEF workingset_device_init
<1>5. CASE ap = "random"
  BY <1>5 DEF random_device_init
<1>6. CASE ap = "ddio"
  BY <1>6 DEF ddio_device_init
<1>7. CASE ap = "hostrq"
  BY <1>7 DEF hostrq_device_init
<1>8. CASE ap = "kv"
  BY <1>8 DEF kv_device_init
<1>9. CASE ap = "send"
  BY <1>9 DEF send_device_init
<1>10. CASE ap = "ntp"
  BY <1>10 DEF ntp_device_init
<1>11. CASE ap = "send_mt"
  BY <1>11 DEF send_mt_device_init
<1>12. CASE ap = "bank_client"
  BY <1>12 DEF bank_client_device_init
<1>13. CASE ap = "bank_server"
  BY <1>13 DEF bank_server_device_init
<1> HIDE DEF Placements, Placement, Memories, SharedPlacements, Keeps, PlacedAs, DeviceInit
<1>14. QED
  BY Zenon, <1>1, <1>2, <1>3, <1>4, <1>5, <1>6, <1>7, <1>8, <1>9, <1>10, <1>11, <1>12, <1>13
  DEF Apps, Threaded

\* process_packet of every reflector is right: it rings the doorbell of the memory its
\* packets are in.
LEMMA ReflectorsGood ==
  ASSUME NEW who \in Reflectors, NEW where, NEW dev, PlacedAs(who, where, dev), NEW msg, NEW tid \in Tids
  PROVE  LET s == Process(who, dev, msg, tid)
         IN  Good(who, where, tid, s) /\ NotPut(s) /\ Plain(tid, s) /\ Still(s) /\ Len(s) > 3
\* The program of a reflector's packet: loads, the store of the swapped addresses, then
\* post, doorbell r and step.
<1> DEFINE IsReflection(s, t, r) ==
             /\ s \in Seq(Ops) /\ Len(s) >= 5
             /\ \A i \in 1..Len(s) : s[i][3] = t
             /\ \A i \in 1..(Len(s) - 4) : s[i][1] = "load" /\ s[i][2] \in {"rx", "tx"}
             /\ s[Len(s) - 3] = <<"store", "rx", t>> /\ s[Len(s) - 2] = <<"post", "rx", t>>
             /\ s[Len(s) - 1] = <<"ring", r, t>> /\ s[Len(s)] = <<"step", "rx", t>>
<1> HIDE DEF IsReflection
\* Every process_packet that swaps the addresses of the packet it got, with or without a
\* scan of it first, is a reflection.
<1>SwapIs. ASSUME NEW t \in Tids, NEW m
           PROVE  /\ IsReflection(Swap(t) \o finish_send_packet(t) \o <<<<"step", "rx", t>>>>, t, "mem")
                  /\ IsReflection(Swap(t) \o finish_send_packet_host(t) \o <<<<"step", "rx", t>>>>, t, "win")
                  /\ IsReflection(Scan(m, t) \o Swap(t) \o finish_send_packet(t) \o <<<<"step", "rx", t>>>>, t, "mem")
                  /\ IsReflection(Scan(m, t) \o Swap(t) \o finish_send_packet_host(t) \o <<<<"step", "rx", t>>>>, t, "win")
                  /\ IsReflection(Scan(m, t) \o (IF m = "ok" THEN Load("tx", t) ELSE <<>>) \o Swap(t)
                                  \o finish_send_packet(t) \o <<<<"step", "rx", t>>>>, t, "mem")
                  /\ IsReflection(Scan(m, t) \o Scan(m, t) \o Swap(t) \o finish_send_packet_host(t)
                                  \o <<<<"step", "rx", t>>>>, t, "win")
  <2> USE <1>SwapIs
  <2>1. OpSet(t)
    BY Zenon, OpsAreOps
  <2>2. /\ IsReflection(Swap(t) \o finish_send_packet(t) \o <<<<"step", "rx", t>>>>, t, "mem")
        /\ IsReflection(Swap(t) \o finish_send_packet_host(t) \o <<<<"step", "rx", t>>>>, t, "win")
    BY <2>1 DEF IsReflection, Swap, Load, Store, prepare_send_packet, finish_send_packet,
       finish_send_packet_host, OpSet, OpNames, Args, Buffers
  <2>3a. IsReflection(Scan(m, t) \o Swap(t) \o finish_send_packet(t) \o <<<<"step", "rx", t>>>>, t, "mem")
    <3>1. CASE m = "ok"
      BY <2>1, <3>1 DEF IsReflection, Swap, Scan, Load, Store, prepare_send_packet, finish_send_packet,
         finish_send_packet_host, OpSet, OpNames, Args, Buffers
    <3>2. CASE m # "ok"
      BY <2>1, <3>2 DEF IsReflection, Swap, Scan, Load, Store, prepare_send_packet, finish_send_packet,
         finish_send_packet_host, OpSet, OpNames, Args, Buffers
    <3>3. QED
      BY Zenon, <3>1, <3>2
  <2>3b. IsReflection(Scan(m, t) \o Swap(t) \o finish_send_packet_host(t) \o <<<<"step", "rx", t>>>>, t, "win")
    <3>1. CASE m = "ok"
      BY <2>1, <3>1 DEF IsReflection, Swap, Scan, Load, Store, prepare_send_packet, finish_send_packet,
         finish_send_packet_host, OpSet, OpNames, Args, Buffers
    <3>2. CASE m # "ok"
      BY <2>1, <3>2 DEF IsReflection, Swap, Scan, Load, Store, prepare_send_packet, finish_send_packet,
         finish_send_packet_host, OpSet, OpNames, Args, Buffers
    <3>3. QED
      BY Zenon, <3>1, <3>2
  <2>4. IsReflection(Scan(m, t) \o (IF m = "ok" THEN Load("tx", t) ELSE <<>>) \o Swap(t)
                     \o finish_send_packet(t) \o <<<<"step", "rx", t>>>>, t, "mem")
    <3>1. CASE m = "ok"
      BY <2>1, <3>1 DEF IsReflection, Swap, Scan, Load, Store, prepare_send_packet, finish_send_packet,
         finish_send_packet_host, OpSet, OpNames, Args, Buffers
    <3>2. CASE m # "ok"
      BY <2>1, <3>2 DEF IsReflection, Swap, Scan, Load, Store, prepare_send_packet, finish_send_packet,
         finish_send_packet_host, OpSet, OpNames, Args, Buffers
    <3>3. QED
      BY Zenon, <3>1, <3>2
  <2>5. IsReflection(Scan(m, t) \o Scan(m, t) \o Swap(t) \o finish_send_packet_host(t)
                     \o <<<<"step", "rx", t>>>>, t, "win")
    <3>1. CASE m = "ok"
      BY <2>1, <3>1 DEF IsReflection, Swap, Scan, Load, Store, prepare_send_packet, finish_send_packet,
         finish_send_packet_host, OpSet, OpNames, Args, Buffers
    <3>2. CASE m # "ok"
      BY <2>1, <3>2 DEF IsReflection, Swap, Scan, Load, Store, prepare_send_packet, finish_send_packet,
         finish_send_packet_host, OpSet, OpNames, Args, Buffers
    <3>3. QED
      BY Zenon, <3>1, <3>2
  <2>6. QED
    BY Zenon, <2>2, <2>3a, <2>3b, <2>4, <2>5
\* A reflection that rings the doorbell its receive buffer needs is right for a
\* reflector.
<1>ReflectionGood. ASSUME NEW ap \in Reflectors, NEW p, NEW t \in Tids, NEW s, NEW r, IsReflection(s, t, r),
                          r # "mem" \/ p.rx # "host"
                   PROVE  Good(ap, p, t, s) /\ NotPut(s) /\ Plain(t, s) /\ Still(s) /\ Len(s) > 3
  <2> USE <1>ReflectionGood
  <2>0. Len(s) > 3
    BY DEF IsReflection
  <2>1. Plain(t, s) /\ Still(s) /\ Aggregates(t, s) /\ Answers(s) /\ NotPut(s)
    <3>1. /\ Len(s) \in Nat /\ Len(s) >= 5 /\ t # RPC
          /\ \A i \in 1..(Len(s) - 4) : s[i][1] = "load" /\ s[i][2] \in {"rx", "tx"}
          /\ s[Len(s) - 3][2] = "rx" /\ s[Len(s) - 3][1] = "store" /\ s[Len(s) - 2][1] = "post"
          /\ s[Len(s) - 1][1] = "ring" /\ s[Len(s)][1] = "step"
      BY ThreadsAssumption DEF IsReflection, Tids, RPC
    <3>2. \A i \in 1..Len(s) : i \in 1..(Len(s) - 4) \/ i = Len(s) - 3 \/ i = Len(s) - 2 \/ i = Len(s) - 1 \/ i = Len(s)
      BY <3>1
    <3>3. Answers(s)
      BY Zenon, <3>1, <3>2 DEF Answers
    <3>4. \A i \in 1..Len(s) : s[i][1] \notin {"get", "put"}
      BY Zenon, <3>1, <3>2
    <3>4a. Still(s)
      BY Zenon, <3>1, <3>2 DEF Still
    <3>4b. \A i \in 1..Len(s) : s[i][1] \in {"load", "store", "mac", "headers"} => s[i][2] \in {"rx", "tx"}
      BY Zenon, <3>1, <3>2
    <3>5. s \in Seq(Ops) /\ OwnContext(t, s) /\ Aggregates(t, s) /\ NotPut(s) /\ Plain(t, s) /\ Still(s)
      <4>1. s \in Seq(Ops) /\ OwnContext(t, s)
        BY Zenon, <3>1 DEF IsReflection, OwnContext
      <4>2. Aggregates(t, s) /\ NotPut(s)
        BY <3>1, <3>4 DEF Aggregates, NotPut
      <4>2a. Consumes(t, s)
        BY SMTT(30), <3>1, <3>3 DEF Consumes, Answers
      <4>3. Plain(t, s) /\ Still(s)
        BY Zenon, <3>4, <3>4a, <3>4b, <4>1, <4>2a DEF Plain
      <4>4. QED
        BY Zenon, <4>1, <4>2, <4>3
    <3>6. QED
      BY Zenon, <3>3, <3>4, <3>5
  <2>2. Announces(ap, p, t, s)
    <3>1. Clears(ap, p, s[Len(s) - 1])
      BY DEF IsReflection, Clears, SendBuffer, Held
    <3>2. \A i \in (Len(s) - 1)..Len(s) : s[i][1] # "post" /\ ~Writes(ap, s[i])
      BY SMTT(30) DEF IsReflection, Writes
    <3>3. Len(s) - 1 \in 1..Len(s)
      BY DEF IsReflection
    <3>4. QED
      BY Zenon, <2>1, <3>1, <3>2, <3>3, AnnouncesBy DEF Plain
  <2>3. t # RPC
    BY ThreadsAssumption DEF Tids, RPC
  <2>4. QED
    BY Zenon, <2>0, <2>1, <2>2, <2>3 DEF Good, Plain
<1> DEFINE r == IF who # "bank_server" /\ dev.rx = "host" THEN "win" ELSE "mem"
<1>1. IsReflection(Process(who, dev, msg, tid), tid, r)
  <2>1. CASE who = "refactor"
    BY Zenon, <2>1, <1>SwapIs DEF Process, refactor_process_packet, refactor_process_packet_host
  <2>2. CASE who = "mt"
    BY Zenon, <2>2, <1>SwapIs DEF Process, mt_process_packet, mt_process_packet_host
  <2>3. CASE who = "nf"
    BY Zenon, <2>3, <1>SwapIs DEF Process, nf_process_packet, nf_process_packet_host
  <2>4. CASE who = "workingset"
    BY Zenon, <2>4, <1>SwapIs DEF Process, workingset_process_packet, workingset_process_packet_host
  <2>5. CASE who = "random"
    BY Zenon, <2>5, <1>SwapIs DEF Process, random_process_packet, random_process_packet_host
  <2>6. CASE who = "bank_server"
    BY Zenon, <2>6, <1>SwapIs DEF Process, bank_server_process_packet
  <2>7. QED
    BY Zenon, <2>1, <2>2, <2>3, <2>4, <2>5, <2>6 DEF Reflectors
<1>2. r # "mem" \/ where.rx # "host"
  BY Zenon DEF PlacedAs, Banks
<1>3. QED
  BY Zenon, <1>1, <1>2, <1>ReflectionGood

\* What is in a loop of n turns over the operations ops, and where.
LEMMA RepeatIs ==
  ASSUME NEW n \in Nat, NEW L \in Nat \ {0}, NEW ops \in Seq(Ops), Len(ops) = L
  PROVE  /\ Repeat(n, ops) \in Seq(Ops) /\ Len(Repeat(n, ops)) = n * L
         /\ \A i \in 1..(n * L) : Repeat(n, ops)[i] = ops[1 + ((i - 1) % L)]
<1>1. n * L \in Nat
  OBVIOUS
<1>2. \A i \in 1..(n * L) : 1 + ((i - 1) % L) \in 1..L
  BY <1>1
<1>3. QED
  BY <1>1, <1>2 DEF Repeat

\* One frame of the send_mt handler, and the first packet of a pinger, in DPA memory and
\* through the window.
IsFrame(s, t, r) ==
  /\ Len(s) = 5 /\ s[1] = <<"take", "tx", t>> /\ s[2] = <<"bump", "tx", t>>
  /\ s[3] = <<"mac", "tx", t>> /\ s[4] = <<"post", "tx", t>>
  /\ s[5] = <<"ring", r, t>>
IsFirst(s, t, r) ==
  /\ Len(s) = 6 /\ s[1] = <<"take", "tx", t>> /\ s[2] = <<"bump", "tx", t>>
  /\ s[3] = <<"headers", "tx", t>> /\ s[4] = <<"post", "tx", t>>
  /\ s[5] = <<"store", "tx", t>> /\ s[6] = <<"ring", r, t>>
IsFirstHost(s, t, r) ==
  /\ Len(s) = 7 /\ s[1] = <<"take", "tx", t>> /\ s[2] = <<"bump", "tx", t>>
  /\ s[3] = <<"window", "tx", t>> /\ s[4] = <<"headers", "tx", t>>
  /\ s[5] = <<"post", "tx", t>> /\ s[6] = <<"store", "tx", t>>
  /\ s[7] = <<"ring", r, t>>

\* send_packet_dpa and send_packet_on_host each send one frame, with the doorbell of
\* their memory.
LEMMA FrameIs ==
  ASSUME NEW t \in Tids
  PROVE  /\ send_packet_dpa(t) \in Seq(Ops) /\ IsFrame(send_packet_dpa(t), t, "mem")
         /\ send_packet_on_host(t) \in Seq(Ops) /\ IsFrame(send_packet_on_host(t), t, "win")
<1>1. OpSet(t)
  BY Zenon, OpsAreOps
<1>2. QED
  BY <1>1 DEF send_packet_dpa, send_packet_on_host, get_next_send_buf, prepare_send_packet, finish_send_packet,
     finish_send_packet_host, IsFrame, OpSet, OpNames, Args, Buffers

\* The first packet of send and ntp has its headers written through the window iff the
\* send buffer is on the host.
LEMMA FirstIs ==
  ASSUME NEW ap \in PingPongs, NEW c, NEW t \in Tids
  PROVE  LET s == FirstPacket(ap, c, t)
         IN  /\ s \in Seq(Ops)
             /\ IF c.tx = "host" THEN IsFirstHost(s, t, "win") ELSE IsFirst(s, t, "mem")
<1> DEFINE s == FirstPacket(ap, c, t)
<1>1. OpSet(t)
  BY Zenon, OpsAreOps
<1>2. s = get_next_send_buf(t) \o WindowTx(c, t) \o Headers(t) \o prepare_send_packet("tx", t) \o Stamp(t)
          \o IF c.tx = "host" THEN finish_send_packet_host(t) ELSE finish_send_packet(t)
  BY Zenon DEF FirstPacket, PingPongs, send_first_packet, ntp_first_packet
<1> HIDE DEF s
<1>3. s \in Seq(Ops)
  BY SMTT(30), <1>1, <1>2 DEF get_next_send_buf, WindowTx, get_host_buffer_with_dtctx, Headers, Stamp, Store, prepare_send_packet,
     finish_send_packet, finish_send_packet_host, OpSet, OpNames, Args, Buffers
<1>4. IF c.tx = "host" THEN IsFirstHost(s, t, "win") ELSE IsFirst(s, t, "mem")
  BY <1>2 DEF get_next_send_buf, WindowTx, get_host_buffer_with_dtctx, Headers, Stamp, Store, prepare_send_packet,
     finish_send_packet, finish_send_packet_host, IsFirst, IsFirstHost
<1>5. QED
  BY Zenon, <1>3, <1>4 DEF s

\* A frame or a first packet that rings the doorbell of its memory is right.
LEMMA FramesGood ==
  ASSUME NEW ap, ap \notin Reflectors, NEW p, NEW a \in Actors, NEW t \in Tids, a = RPC \/ a = t, NEW r, NEW s \in Seq(Ops),
         IsFrame(s, t, r) \/ IsFirst(s, t, r) \/ IsFirstHost(s, t, r), r # "mem" \/ p.tx # "host"
  PROVE  Good(ap, p, a, s) /\ NotPut(s) /\ Plain(a, s) /\ (~IsFirstHost(s, t, r) => Still(s))
<1>1. SendBuffer(ap) = "tx"
  BY Zenon DEF SendBuffer
<1>2. Plain(a, s) /\ Len(s) \in 1..Len(s) /\ s[Len(s)] = <<"ring", r, t>>
  <2>1. CASE IsFrame(s, t, r)
    BY <2>1 DEF Plain, OwnContext, Consumes, IsFrame
  <2>2. CASE IsFirst(s, t, r)
    BY <2>2 DEF Plain, OwnContext, Consumes, IsFirst
  <2>3. CASE IsFirstHost(s, t, r)
    BY <2>3 DEF Plain, OwnContext, Consumes, IsFirstHost
  <2>4. QED
    BY Zenon, <2>1, <2>2, <2>3
<1>3. Clears(ap, p, s[Len(s)]) /\ \A i \in Len(s)..Len(s) : s[i][1] # "post" /\ ~Writes(ap, s[i])
  BY <1>1, <1>2 DEF Clears, Writes, Held
<1>4. IsFrame(s, t, r) \/ IsFirst(s, t, r) => Still(s)
  BY SMTT(30) DEF IsFrame, IsFirst, Still
<1>5. QED
  BY Zenon, <1>2, <1>3, <1>4, AnnouncesBy, PlainGood DEF NotPut

\* Operation i of a loop over the send buffers, and of one over the frames of a bank
\* client, counting from 0.
PrepareStep(i) == IF i % 3 = 0 THEN "take" ELSE IF i % 3 = 1 THEN "bump" ELSE "headers"
FrameStep(i) == IF i % 4 = 0 THEN "take" ELSE IF i % 4 = 1 THEN "bump" ELSE IF i % 4 = 2 THEN "store" ELSE "post"
\* The loop of the first-packet RPCs writes the headers of every send buffer once.
LEMMA PrepareIs ==
  ASSUME NEW t \in Tids
  PROVE  LET u == Repeat(Depth, get_next_send_buf(t) \o Headers(t))
         IN  /\ u \in Seq(Ops) /\ Len(u) = 3 * Depth
             /\ \A i \in 1..(3 * Depth) : u[i] = <<PrepareStep(i - 1), "tx", t>>
<1> DEFINE ops == get_next_send_buf(t) \o Headers(t)
<1>1. OpSet(t)
  BY Zenon, OpsAreOps
<1>2. ops \in Seq(Ops) /\ Len(ops) = 3
  BY <1>1 DEF get_next_send_buf, Headers, OpSet, OpNames, Args, Buffers
<1>3. ops[1] = <<"take", "tx", t>> /\ ops[2] = <<"bump", "tx", t>> /\ ops[3] = <<"headers", "tx", t>>
  BY DEF get_next_send_buf, Headers
<1> HIDE DEF ops
<1>4. \A k \in Nat : ops[1 + (k % 3)] = <<PrepareStep(k), "tx", t>>
  <2>1. TAKE k \in Nat
  <2>2. k % 3 = 0 \/ k % 3 = 1 \/ k % 3 = 2
    OBVIOUS
  <2>3. QED
    BY <1>3, <2>2 DEF PrepareStep
<1>5. Depth \in Nat /\ Depth * 3 = 3 * Depth /\ \A i \in 1..(3 * Depth) : i - 1 \in Nat
  BY DepthAssumption
<1>6. /\ Repeat(Depth, ops) \in Seq(Ops) /\ Len(Repeat(Depth, ops)) = Depth * 3
      /\ \A i \in 1..(Depth * 3) : Repeat(Depth, ops)[i] = ops[1 + ((i - 1) % 3)]
  <2>1. 3 \in Nat \ {0}
    OBVIOUS
  <2>2. QED
    BY Zenon, <1>2, <1>5, <2>1, RepeatIs
<1>7. \A i \in 1..(3 * Depth) : Repeat(Depth, ops)[i] = <<PrepareStep(i - 1), "tx", t>>
  BY Zenon, <1>4, <1>5, <1>6
<1>8. QED
  BY Zenon, <1>5, <1>6, <1>7 DEF ops

\* What is in the concatenation of two programs, and where.
LEMMA ConcatIs ==
  ASSUME NEW u \in Seq(Ops), NEW v \in Seq(Ops)
  PROVE  /\ u \o v \in Seq(Ops) /\ Len(u \o v) = Len(u) + Len(v)
         /\ \A i \in 1..Len(u) : (u \o v)[i] = u[i]
         /\ \A i \in 1..Len(v) : (u \o v)[Len(u) + i] = v[i]
OBVIOUS

\* The same for a program and one more operation.
LEMMA AppendIs ==
  ASSUME NEW o \in Ops, NEW u \in Seq(Ops)
  PROVE  /\ u \o <<o>> \in Seq(Ops) /\ Len(u \o <<o>>) = Len(u) + 1 /\ (u \o <<o>>)[Len(u) + 1] = o
         /\ \A i \in 1..Len(u) : (u \o <<o>>)[i] = u[i]
OBVIOUS

\* The same for one operation and a program.
LEMMA PrependIs ==
  ASSUME NEW o \in Ops, NEW u \in Seq(Ops)
  PROVE  /\ <<o>> \o u \in Seq(Ops) /\ Len(<<o>> \o u) = Len(u) + 1 /\ (<<o>> \o u)[1] = o
         /\ \A i \in 1..Len(u) : (<<o>> \o u)[i + 1] = u[i]
OBVIOUS

\* A frame of the bank client takes a buffer, moves on, writes it and posts it.
LEMMA BankFrameIs ==
  ASSUME NEW t \in Tids, NEW n \in Nat \ {0}
  PROVE  /\ BankFrame(t) \in Seq(Ops) /\ Len(BankFrame(t)) = 4
         /\ \A k \in Nat : BankFrame(t)[1 + (k % 4)] = <<FrameStep(k), "tx", t>>
         /\ \A i \in 1..4 : BankFrame(t)[i] = <<FrameStep(i - 1), "tx", t>>
         /\ Repeat(n, BankFrame(t)) \in Seq(Ops) /\ Len(Repeat(n, BankFrame(t))) = 4 * n
         /\ \A i \in 1..(4 * n) : Repeat(n, BankFrame(t))[i] = <<FrameStep(i - 1), "tx", t>>
<1> DEFINE ops == BankFrame(t)
<1>1. OpSet(t)
  BY Zenon, OpsAreOps
<1>2. ops \in Seq(Ops) /\ Len(ops) = 4
  BY <1>1 DEF BankFrame, get_next_send_buf, Store, prepare_send_packet, OpSet, OpNames, Args, Buffers
<1>3. /\ ops[1] = <<"take", "tx", t>> /\ ops[2] = <<"bump", "tx", t>>
      /\ ops[3] = <<"store", "tx", t>> /\ ops[4] = <<"post", "tx", t>>
  BY DEF BankFrame, get_next_send_buf, Store, prepare_send_packet
<1> HIDE DEF ops
<1>4. \A k \in Nat : ops[1 + (k % 4)] = <<FrameStep(k), "tx", t>>
  <2>1. TAKE k \in Nat
  <2>2. k % 4 = 0 \/ k % 4 = 1 \/ k % 4 = 2 \/ k % 4 = 3
    OBVIOUS
  <2>3. QED
    BY <1>3, <2>2 DEF FrameStep
<1>5. n \in Nat /\ n * 4 = 4 * n /\ (\A i \in 1..(4 * n) : i - 1 \in Nat) /\ 4 \in Nat \ {0}
  OBVIOUS
<1>6. /\ Repeat(n, ops) \in Seq(Ops) /\ Len(Repeat(n, ops)) = n * 4
      /\ \A i \in 1..(n * 4) : Repeat(n, ops)[i] = ops[1 + ((i - 1) % 4)]
  BY ZenonT(30), <1>2, <1>5, RepeatIs
<1>7. \A i \in 1..(4 * n) : Repeat(n, ops)[i] = <<FrameStep(i - 1), "tx", t>>
  BY Zenon, <1>4, <1>5, <1>6
<1>8. \A i \in 1..4 : ops[i] = <<FrameStep(i - 1), "tx", t>>
  BY <1>3 DEF FrameStep
<1>9. QED
  BY Zenon, <1>2, <1>4, <1>5, <1>6, <1>7, <1>8 DEF ops

----------------------------------------------------------------------------

\* The key of the window at an operation stays what it is when the first operation is
\* done.
LEMMA LastKeyTail ==
  ASSUME NEW p, NEW s \in Seq(Ops), s # <<>>, NEW i \in 1..Len(s), NEW w, NEW k, LastKey(p, s, i + 1, w, k)
  PROVE  LastKey(p, Tail(s), i, IF s[1][1] = "window" THEN KeyOf(p, s[1][2]) ELSE w, k)
<1> DEFINE r == Tail(s)
           v == IF s[1][1] = "window" THEN KeyOf(p, s[1][2]) ELSE w
<1>1. \A l \in 1..(Len(s) - 1) : r[l] = s[l + 1]
  OBVIOUS
<1>2. Len(s) \in Nat /\ i \in Nat /\ i <= Len(s)
  OBVIOUS
<1> HIDE DEF r
<1>3. CASE w = k /\ \A l \in 1..i : s[l][1] # "window"
  <2>1. s[1][1] # "window" /\ \A l \in 1..(i - 1) : r[l][1] # "window"
    BY <1>1, <1>2, <1>3
  <2>2. QED
    BY Zenon, <1>3, <2>1 DEF LastKey, r
<1>4. ASSUME NEW j \in 1..i, s[j][1] = "window", KeyOf(p, s[j][2]) = k, \A l \in (j + 1)..i : s[l][1] # "window"
      PROVE  LastKey(p, r, i, v, k)
  <2>1. CASE j = 1
    <3>1. v = k /\ \A l \in 1..(i - 1) : r[l][1] # "window"
      <4>1. v = k
        BY Zenon, <1>4, <2>1
      <4>2. \A l \in 1..(i - 1) : l \in 1..(Len(s) - 1) /\ l + 1 \in (j + 1)..i
        BY <1>2, <2>1
      <4>3. QED
        BY Zenon, <1>1, <1>4, <4>1, <4>2
    <3>2. QED
      BY Zenon, <3>1 DEF LastKey
  <2>2. CASE j # 1
    <3>1. /\ j - 1 \in 1..(i - 1) /\ r[j - 1] = s[j]
          /\ \A l \in ((j - 1) + 1)..(i - 1) : r[l][1] # "window"
      <4>1. j - 1 \in 1..(i - 1) /\ j - 1 \in 1..(Len(s) - 1) /\ (j - 1) + 1 = j
        BY <1>2, <2>2
      <4>2. \A l \in ((j - 1) + 1)..(i - 1) : l \in 1..(Len(s) - 1) /\ l + 1 \in (j + 1)..i
        BY <1>2, <2>2
      <4>3. r[j - 1] = s[j]
        BY Zenon, <1>1, <4>1
      <4>4. QED
        BY Zenon, <1>1, <1>4, <4>1, <4>2, <4>3
    <3>2. QED
      BY Zenon, <1>4, <3>1 DEF LastKey
  <2>3. QED
    BY Zenon, <2>1, <2>2
<1>5. (i + 1) - 1 = i
  BY <1>2
<1>6. QED
  BY Zenon, <1>3, <1>4, <1>5 DEF LastKey, r

\* What remains of a program that finds its windows finds them, with the window as the
\* first operation left it.
LEMMA WindowedTail ==
  ASSUME NEW ap, NEW p, NEW a, NEW s \in Seq(Ops), s # <<>>, NEW w, Windowed(ap, p, a, s, w)
  PROVE  Windowed(ap, p, a, Tail(s), IF s[1][1] = "window" THEN KeyOf(p, s[1][2]) ELSE w)
<1> DEFINE r == Tail(s)
           v == IF s[1][1] = "window" THEN KeyOf(p, s[1][2]) ELSE w
<1>1. /\ Len(s) \in Nat \ {0} /\ Len(r) = Len(s) - 1 /\ Len(r) + 1 = Len(s)
      /\ \A l \in 1..(Len(s) - 1) : r[l] = s[l + 1]
  OBVIOUS
<1>2. ASSUME NEW i \in 1..Len(r), NEW b \in Touches(r[i]), ap # "hostrq", Held(p, b) = "host"
      PROVE  LastKey(p, r, i, v, KeyOf(p, b))
  <2>1. i \in 1..Len(s) /\ i + 1 \in 1..Len(s) /\ r[i] = s[i + 1]
    BY <1>1
  <2>2. LastKey(p, s, i + 1, w, KeyOf(p, b))
    BY Zenon, <1>2, <2>1 DEF Windowed
  <2>3. QED
    BY Zenon, <2>1, <2>2, LastKeyTail
<1>3. ASSUME a # RPC, NeedsHome(ap, p) PROVE LastKey(p, r, Len(r) + 1, v, Home(ap, p))
  <2>1. LastKey(p, s, Len(s) + 1, w, Home(ap, p)) /\ Len(s) \in 1..Len(s)
    BY <1>1, <1>3 DEF Windowed
  <2>2. QED
    BY Zenon, <1>1, <2>1, LastKeyTail
<1>4. QED
  BY SMTT(20), <1>2, <1>3 DEF Windowed

OneHome(ap, p) == \A b \in {"rx", "tx"} : Held(p, b) = "host" => KeyOf(p, b) = Home(ap, p) /\ (ap # "hostrq" => NeedsHome(ap, p))

\* Outside kv all host buffers of an application are behind one key, in every placement
\* of its main.
LEMMA PlacedOneHome ==
  ASSUME NEW ap \in Apps, ap # "kv", NEW p, NEW c, PlacedAs(ap, p, c)
  PROVE  OneHome(ap, p)
BY Zenon DEF Apps, Reflectors, Batches, PingPongs, Banks, Threaded, PlacedAs, OneHome, Held, KeyOf, Home, NeedsHome

\* A program that leaves the window alone finds its buffers if the window is at home.
LEMMA StillWindowed ==
  ASSUME NEW ap, ap # "kv", NEW p, OneHome(ap, p), NEW a, NEW s, Plain(a, s), Still(s), NEW w,
         NeedsHome(ap, p) => w = Home(ap, p)
  PROVE  Windowed(ap, p, a, s, w)
<1>1. Len(s) \in Nat
  BY DEF Plain
<1>2. \A i \in 1..(Len(s) + 1) : \A k : w = k => LastKey(p, s, i, w, k)
  BY <1>1 DEF LastKey, Still
<1>3. ASSUME NEW i \in 1..Len(s), NEW b \in Touches(s[i]), ap # "hostrq", Held(p, b) = "host"
      PROVE  LastKey(p, s, i, w, KeyOf(p, b))
  <2>1. b \in {"rx", "tx"}
    BY Zenon DEF Plain, Touches
  <2>2. w = KeyOf(p, b)
    BY Zenon, <1>3, <2>1 DEF OneHome
  <2>3. QED
    BY <1>1, <1>2, <2>2
<1>4. ASSUME NeedsHome(ap, p) PROVE LastKey(p, s, Len(s) + 1, w, Home(ap, p))
  BY <1>1, <1>2, <1>4
<1>5. \A i \in 1..Len(s) : "kv" \notin Touches(s[i])
  BY Zenon DEF Plain, Touches
<1>6. QED
  BY Zenon, <1>3, <1>4, <1>5 DEF Windowed

\* process_packet of every application, on the context its dpa_device_init made, is
\* right, and finds its windows if the handler's window is at home.
LEMMA ProcessFit ==
  ASSUME NEW who \in Apps, who # "send_mt", NEW where \in Placements(who), NEW msg \in Messages(who), NEW tid \in Tids,
         NEW key, NeedsHome(who, where) => key = Home(who, where)
  PROVE  LET s == Process(who, DeviceInit(who, where), msg, tid)
         IN  Good(who, where, tid, s) /\ NotPut(s) /\ Windowed(who, where, tid, s, key) /\ (who \in Reflectors => Len(s) > 3)
\* process_packet of dpa_ddio and dpa_hostrq, which reads and drains, is right.
<1>BatchesGood. ASSUME NEW ap \in Batches, NEW p, NEW c, PlacedAs(ap, p, c), NEW m, NEW t \in Tids
                PROVE  LET s == Process(ap, c, m, t) IN Good(ap, p, t, s) /\ NotPut(s) /\ Plain(t, s) /\ Still(s)
  <2> USE <1>BatchesGood
  <2> DEFINE s == BatchPacket(m, t)
  <2>1. OpSet(t) /\ t # RPC
    BY OpsAreOps, ThreadsAssumption DEF Tids, RPC
  <2>2. Process(ap, c, m, t) = s /\ ap \notin Reflectors /\ SendBuffer(ap) = "tx"
    BY Zenon DEF Process, ddio_process_packet, hostrq_process_packet, Batches, Reflectors, SendBuffer
  <2>3. Plain(t, s) /\ Still(s)
    <3>1. CASE m = "odd"
      BY <2>1, <3>1 DEF Plain, Still, OwnContext, Consumes, BatchPacket, OpSet, OpNames, Args, Buffers
    <3>2. CASE m # "odd"
      <4>1. s \in Seq(Ops) /\ Len(s) = 11
        BY <2>1, <3>2 DEF BatchPacket, Load, Store, get_next_send_buf, prepare_send_packet,
           finish_send_packet, OpSet, OpNames, Args, Buffers
      <4>2. /\ s[1] = <<"load", "rx", t>> /\ s[2] = <<"store", "rx", t>> /\ s[3] = <<"take", "tx", t>>
            /\ s[4] = <<"bump", "tx", t>> /\ s[5] = <<"store", "tx", t>> /\ s[6] = <<"post", "tx", t>>
            /\ s[7] = <<"step", "rx", t>> /\ s[8] = <<"drain", "rx", t>> /\ s[9] = <<"load", "tx", t>>
            /\ s[10] = <<"ring", "mem", t>> /\ s[11] = <<"count", "rx", t>>
        BY <3>2 DEF BatchPacket, Load, Store, get_next_send_buf, prepare_send_packet, finish_send_packet
      <4> HIDE DEF s
      <4>3. QED
        BY <2>1, <4>1, <4>2 DEF Plain, Still, OwnContext, Consumes
    <3>3. QED
      BY Zenon, <3>1, <3>2
  <2>4. Announces(ap, p, t, s)
    <3>1. CASE m = "odd"
      BY <3>1, <2>2 DEF BatchPacket, Announces, Writes
    <3>2. CASE m # "odd"
      <4>1. 10 \in 1..Len(s) /\ s[10] = <<"ring", "mem", t>> /\ \A i \in 10..Len(s) : s[i][1] \in {"ring", "count"}
        BY <3>2 DEF BatchPacket, Load, Store, get_next_send_buf, prepare_send_packet, finish_send_packet
      <4>2. Clears(ap, p, s[10]) /\ \A i \in 10..Len(s) : s[i][1] # "post" /\ ~Writes(ap, s[i])
        BY <2>2, <4>1 DEF Clears, Writes, PlacedAs, Held
      <4>3. QED
        BY Zenon, <2>3, <4>1, <4>2, AnnouncesBy DEF Plain
    <3>3. QED
      BY Zenon, <3>1, <3>2
  <2>5. QED
    BY Zenon, <2>2, <2>3, <2>4, PlainGood DEF NotPut
\* process_packet of dpa_kv is right: its put follows the get of the same entry.
<1>KvGood. ASSUME NEW p, NEW c, NEW m \in Keys, NEW t \in Tids
           PROVE  Good("kv", p, t, Process("kv", c, m, t)) /\ NotPut(Process("kv", c, m, t))
  <2> USE <1>KvGood
  <2> DEFINE s == Process("kv", c, m, t)
  <2>1. OpSet(t) /\ t # RPC
    BY OpsAreOps, ThreadsAssumption DEF Tids, RPC
  <2>0. <<"get", m, t>> \in Ops /\ <<"put", m, t>> \in Ops
    BY Zenon, <2>1 DEF OpSet, OpNames, Args
  <2>2. s = (IF c.rx = "host" THEN kv_process_packet_host(c, m, t) ELSE kv_process_packet(c, m, t)) \o <<<<"step", "rx", t>>>>
    BY Zenon DEF Process
  <2> HIDE DEF s
  <2>3. /\ s \in Seq(Ops) /\ OwnContext(t, s) /\ Aggregates(t, s) /\ Consumes(t, s) /\ NotPut(s)
        /\ \A i \in 1..Len(s) : s[i][1] \in {"window", "load", "get", "put", "step"}
    <3>1. CASE c.rx # "host"
      <4>1. s \in Seq(Ops) /\ Len(s) = 4
        BY <2>0, <2>1, <2>2, <3>1 DEF kv_process_packet, kv_process_packet_host, WindowKv,
           get_host_buffer_with_dtctx, Load, Aggregate, OpSet, OpNames, Args, Buffers
      <4>2. s[1] = <<"load", "rx", t>> /\ s[2] = <<"get", m, t>> /\ s[3] = <<"put", m, t>> /\ s[4] = <<"step", "rx", t>>
        BY <2>2, <3>1 DEF kv_process_packet, kv_process_packet_host, WindowKv,
           get_host_buffer_with_dtctx, Load, Aggregate
      <4>3. QED
        BY <2>1, <4>1, <4>2 DEF OwnContext, Aggregates, Consumes, NotPut
    <3>2. CASE c.rx = "host" /\ c.kv = "host"
      <4>1. s \in Seq(Ops) /\ Len(s) = 6
        BY <2>0, <2>1, <2>2, <3>2 DEF kv_process_packet, kv_process_packet_host, WindowKv,
           get_host_buffer_with_dtctx, Load, Aggregate, OpSet, OpNames, Args, Buffers
      <4>2. s[1] = <<"window", "rx", t>> /\ s[2] = <<"load", "rx", t>> /\ s[3] = <<"window", "kv", t>> /\ s[4] = <<"get", m, t>> /\ s[5] = <<"put", m, t>> /\ s[6] = <<"step", "rx", t>>
        BY <2>2, <3>2 DEF kv_process_packet, kv_process_packet_host, WindowKv,
           get_host_buffer_with_dtctx, Load, Aggregate
      <4>3. QED
        BY <2>1, <4>1, <4>2 DEF OwnContext, Aggregates, Consumes, NotPut
    <3>3. CASE c.rx = "host" /\ c.kv # "host"
      <4>1. s \in Seq(Ops) /\ Len(s) = 5
        BY <2>0, <2>1, <2>2, <3>3 DEF kv_process_packet, kv_process_packet_host, WindowKv,
           get_host_buffer_with_dtctx, Load, Aggregate, OpSet, OpNames, Args, Buffers
      <4>2. s[1] = <<"window", "rx", t>> /\ s[2] = <<"load", "rx", t>> /\ s[3] = <<"get", m, t>> /\ s[4] = <<"put", m, t>> /\ s[5] = <<"step", "rx", t>>
        BY <2>2, <3>3 DEF kv_process_packet, kv_process_packet_host, WindowKv,
           get_host_buffer_with_dtctx, Load, Aggregate
      <4>3. QED
        BY <2>1, <4>1, <4>2 DEF OwnContext, Aggregates, Consumes, NotPut
    <3>4. QED
      BY Zenon, <3>1, <3>2, <3>3
  <2>4. Announces("kv", p, t, s)
    BY Zenon, <2>3 DEF Announces, Writes
  <2>5. QED
    BY Zenon, <2>3, <2>4 DEF Good, Reflectors, s
\* process_packet of dpa_kv finds the packet and the table behind its one window, in all
\* four placements, and leaves the window on the table.
<1>KvWindowed. ASSUME NEW p, NEW c, PlacedAs("kv", p, c), NEW m \in Keys, NEW t \in Tids, NEW w, p.kv = "host" => w = "kv"
               PROVE  Windowed("kv", p, t, Process("kv", c, m, t), w)
  <2> USE <1>KvWindowed
  <2> DEFINE s == Process("kv", c, m, t)
  <2>1. s = (IF c.rx = "host" THEN kv_process_packet_host(c, m, t) ELSE kv_process_packet(c, m, t)) \o <<<<"step", "rx", t>>>>
    BY Zenon DEF Process
  <2>2. /\ c.rx = p.rx /\ c.kv = p.kv /\ Home("kv", p) = "kv" /\ (NeedsHome("kv", p) <=> p.kv = "host")
        /\ KeyOf(p, "kv") = "kv" /\ KeyOf(p, "rx") = "rx"
    BY Zenon DEF PlacedAs, Home, NeedsHome, KeyOf
  <2> HIDE DEF s
  <2>3. CASE p.rx # "host"
    <3>1. Len(s) = 4
      BY <2>1, <2>2, <2>3 DEF kv_process_packet, Load, Aggregate
    <3>2. s[1] = <<"load", "rx", t>> /\ s[2] = <<"get", m, t>> /\ s[3] = <<"put", m, t>> /\ s[4] = <<"step", "rx", t>>
      BY <2>1, <2>2, <2>3 DEF kv_process_packet, Load, Aggregate
    <3>3. p.kv = "host" => \A i \in 1..5 : LastKey(p, s, i, w, "kv")
      BY <3>2 DEF LastKey
    <3>4. Touches(s[1]) = {"rx"} /\ Touches(s[2]) = {"kv"} /\ Touches(s[3]) = {"kv"} /\ Touches(s[4]) = {}
      BY <3>2 DEF Touches
    <3>5. ASSUME NEW i \in 1..Len(s), NEW b \in Touches(s[i]), Held(p, b) = "host" PROVE LastKey(p, s, i, w, KeyOf(p, b))
      <4>1. i = 1 \/ i = 2 \/ i = 3 \/ i = 4
        BY <3>1
      <4>2. QED
        BY <2>2, <2>3, <3>3, <3>4, <3>5, <4>1 DEF Held
    <3>6. NeedsHome("kv", p) => LastKey(p, s, Len(s) + 1, w, Home("kv", p))
      BY SMTT(30), <2>2, <2>3, <3>1, <3>3
    <3>7. QED
      BY Zenon, <3>5, <3>6 DEF Windowed, s
  <2>4. CASE p.rx = "host" /\ p.kv = "host"
    <3>1. Len(s) = 6
      BY <2>1, <2>2, <2>4 DEF kv_process_packet_host, WindowKv, get_host_buffer_with_dtctx, Load, Aggregate
    <3>2. /\ s[1] = <<"window", "rx", t>> /\ s[2] = <<"load", "rx", t>> /\ s[3] = <<"window", "kv", t>>
          /\ s[4] = <<"get", m, t>> /\ s[5] = <<"put", m, t>> /\ s[6] = <<"step", "rx", t>>
      BY SMTT(30), <2>1, <2>2, <2>4 DEF kv_process_packet_host, WindowKv, get_host_buffer_with_dtctx, Load, Aggregate
    <3>3. LastKey(p, s, 2, w, "rx") /\ LastKey(p, s, 4, w, "kv") /\ LastKey(p, s, 5, w, "kv") /\ LastKey(p, s, 7, w, "kv")
      BY <2>2, <3>2 DEF LastKey
    <3>4. Touches(s[1]) = {} /\ Touches(s[2]) = {"rx"} /\ Touches(s[3]) = {} /\ Touches(s[4]) = {"kv"} /\ Touches(s[5]) = {"kv"} /\ Touches(s[6]) = {}
      BY <3>2 DEF Touches
    <3>5. ASSUME NEW i \in 1..Len(s), NEW b \in Touches(s[i]), Held(p, b) = "host" PROVE LastKey(p, s, i, w, KeyOf(p, b))
      <4>1. i = 1 \/ i = 2 \/ i = 3 \/ i = 4 \/ i = 5 \/ i = 6
        BY <3>1
      <4>2. QED
        BY Zenon, <2>2, <2>4, <3>3, <3>4, <3>5, <4>1 DEF Held
    <3>6. NeedsHome("kv", p) => LastKey(p, s, Len(s) + 1, w, Home("kv", p))
      BY <2>2, <2>4, <3>1, <3>3
    <3>7. QED
      BY Zenon, <3>5, <3>6 DEF Windowed, s
  <2>5. CASE p.rx = "host" /\ p.kv # "host"
    <3>1. Len(s) = 5
      BY <2>1, <2>2, <2>5 DEF kv_process_packet_host, WindowKv, get_host_buffer_with_dtctx, Load, Aggregate
    <3>2. /\ s[1] = <<"window", "rx", t>> /\ s[2] = <<"load", "rx", t>> /\ s[3] = <<"get", m, t>>
          /\ s[4] = <<"put", m, t>> /\ s[5] = <<"step", "rx", t>>
      BY <2>1, <2>2, <2>5 DEF kv_process_packet_host, WindowKv, get_host_buffer_with_dtctx, Load, Aggregate
    <3>3. LastKey(p, s, 2, w, "rx")
      BY <2>2, <3>2 DEF LastKey
    <3>4. Touches(s[1]) = {} /\ Touches(s[2]) = {"rx"} /\ Touches(s[3]) = {"kv"} /\ Touches(s[4]) = {"kv"} /\ Touches(s[5]) = {}
      BY <3>2 DEF Touches
    <3>5. ASSUME NEW i \in 1..Len(s), NEW b \in Touches(s[i]), Held(p, b) = "host" PROVE LastKey(p, s, i, w, KeyOf(p, b))
      <4>1. i = 1 \/ i = 2 \/ i = 3 \/ i = 4 \/ i = 5
        BY <3>1
      <4>2. QED
        BY Zenon, <2>2, <2>5, <3>3, <3>4, <3>5, <4>1 DEF Held
    <3>6. NeedsHome("kv", p) => LastKey(p, s, Len(s) + 1, w, Home("kv", p))
      BY Zenon, <2>2, <2>5, <3>1, <3>3
    <3>7. QED
      BY Zenon, <3>5, <3>6 DEF Windowed, s
  <2>6. QED
    BY Zenon, <2>3, <2>4, <2>5 DEF s
\* What send and ntp do for a packet of their own, with doorbell r.
<1> DEFINE IsAnswer(s, t, r) ==
             /\ Len(s) = 8 /\ s[1] = <<"load", "rx", t>> /\ s[2] = <<"take", "tx", t>>
             /\ s[3] = <<"bump", "tx", t>> /\ s[4] = <<"headers", "tx", t>>
             /\ s[5] = <<"post", "tx", t>> /\ s[6] = <<"store", "tx", t>>
             /\ s[7] = <<"ring", r, t>> /\ s[8] = <<"step", "rx", t>>
<1> HIDE DEF IsAnswer
\* What they do for any other packet.
<1> DEFINE IsSkipped(s, t) == \/ Len(s) = 1 /\ s[1] = <<"step", "rx", t>>
                              \/ Len(s) = 2 /\ s[1] = <<"load", "rx", t>> /\ s[2] = <<"step", "rx", t>>
<1> HIDE DEF IsSkipped
\* process_packet of dpa_send and dpa_ntp answers its own packets with the doorbell of
\* the send buffer's memory and skips the others.
<1>PingPongIs. ASSUME NEW ap \in PingPongs, NEW c, NEW m, NEW t \in Tids
               PROVE  LET s == Process(ap, c, m, t)
                      IN  /\ s \in Seq(Ops)
                          /\ m = "odd" => IsSkipped(s, t)
                          /\ m # "odd" => IsAnswer(s, t, IF c.tx = "host" THEN "win" ELSE "mem")
  <2> USE <1>PingPongIs
  <2> DEFINE s == Process(ap, c, m, t)
  <2>1. OpSet(t)
    BY Zenon, OpsAreOps
  <2> USE DEF get_next_send_buf, Headers, Stamp, Load, Store, prepare_send_packet, finish_send_packet, finish_send_packet_host,
      IsAnswer, IsSkipped
  <2>2. CASE ap = "send"
    <3>1. s = (IF c.tx = "host" THEN send_process_packet_host(m, t) ELSE send_process_packet(m, t)) \o <<<<"step", "rx", t>>>>
      BY Zenon, <2>2 DEF Process
    <3> HIDE DEF s
    <3>2. s \in Seq(Ops)
      BY <2>1, <3>1 DEF send_process_packet, send_process_packet_host, send_prepare_packet, send_prepare_packet_host,
         OpSet, OpNames, Args, Buffers
    <3>3. m = "odd" => IsSkipped(s, t)
      BY <3>1 DEF send_process_packet, send_process_packet_host
    <3>4. m # "odd" => IsAnswer(s, t, IF c.tx = "host" THEN "win" ELSE "mem")
      BY <3>1 DEF send_process_packet, send_process_packet_host, send_prepare_packet, send_prepare_packet_host
    <3>5. QED
      BY Zenon, <3>2, <3>3, <3>4 DEF s
  <2>3. CASE ap = "ntp"
    <3>1. s = (IF c.tx = "host" THEN ntp_process_packet_host(m, t) ELSE ntp_process_packet(m, t)) \o <<<<"step", "rx", t>>>>
      BY Zenon, <2>3 DEF Process
    <3> HIDE DEF s
    <3>2. s \in Seq(Ops)
      BY <2>1, <3>1 DEF ntp_process_packet, ntp_process_packet_host, ntp_prepare_packet, ntp_prepare_packet_host,
         OpSet, OpNames, Args, Buffers
    <3>3. m = "odd" => IsSkipped(s, t)
      BY <3>1 DEF ntp_process_packet, ntp_process_packet_host
    <3>4. m # "odd" => IsAnswer(s, t, IF c.tx = "host" THEN "win" ELSE "mem")
      BY <3>1 DEF ntp_process_packet, ntp_process_packet_host, ntp_prepare_packet, ntp_prepare_packet_host
    <3>5. QED
      BY Zenon, <3>2, <3>3, <3>4 DEF s
  <2>4. QED
    BY Zenon, <2>2, <2>3 DEF PingPongs
\* Such a program is right when the doorbell is the one the send buffer needs.
<1>AnswerGood. ASSUME NEW ap, ap \notin Reflectors, NEW p, NEW t \in Tids, NEW r, NEW s \in Seq(Ops), IsAnswer(s, t, r) \/ IsSkipped(s, t),
                      r # "mem" \/ p.tx # "host"
               PROVE  Good(ap, p, t, s) /\ NotPut(s) /\ Plain(t, s) /\ Still(s)
  <2> USE <1>AnswerGood
  <2>1. t # RPC /\ SendBuffer(ap) = "tx"
    BY ThreadsAssumption DEF Tids, RPC, SendBuffer
  <2>2. CASE IsAnswer(s, t, r)
    <3>1. Plain(t, s) /\ Still(s)
      BY SMTT(30), <2>1, <2>2 DEF Plain, Still, OwnContext, Consumes, IsAnswer
    <3>2. 7 \in 1..Len(s) /\ Clears(ap, p, s[7]) /\ \A i \in 7..Len(s) : s[i][1] # "post" /\ ~Writes(ap, s[i])
      BY <2>1, <2>2 DEF IsAnswer, Clears, Writes, Held
    <3>3. QED
      BY Zenon, <3>1, <3>2, AnnouncesBy, PlainGood DEF NotPut
  <2>3. CASE IsSkipped(s, t)
    <3>1. Plain(t, s) /\ Still(s)
      BY SMTT(30), <2>1, <2>3 DEF Plain, Still, OwnContext, Consumes, IsSkipped
    <3>2. Announces(ap, p, t, s)
      BY <2>3 DEF IsSkipped, Announces, Writes
    <3>3. QED
      BY ZenonT(30), <3>1, <3>2, PlainGood DEF NotPut
  <2>4. QED
    BY Zenon, <2>2, <2>3
\* The bank client's answer: one frame, or Concurrency of them, one doorbell.
<1> DEFINE IsBankAnswer(s, t) == \E n \in {1, Concurrency} :
             /\ Len(s) = 4 * n + 3
             /\ s[1] = <<"load", "rx", t>>
             /\ \A i \in 1..(4 * n) : s[i + 1] = <<FrameStep(i - 1), "tx", t>>
             /\ s[4 * n + 2] = <<"ring", "mem", t>>
             /\ s[4 * n + 3] = <<"step", "rx", t>>
<1> HIDE DEF IsBankAnswer
\* The bank client answers a packet with one frame, or with Concurrency frames when it
\* is the ping.
<1>BankAnswerIs. ASSUME NEW c, NEW m, NEW t \in Tids
                 PROVE  Process("bank_client", c, m, t) \in Seq(Ops) /\ IsBankAnswer(Process("bank_client", c, m, t), t)
  <2> USE <1>BankAnswerIs
  <2> DEFINE n == IF m = "ping" THEN Concurrency ELSE 1
             v == IF m = "ping" THEN Repeat(Concurrency, BankFrame(t)) ELSE BankFrame(t)
             x == <<"load", "rx", t>>
             y == <<"ring", "mem", t>>
             z == <<"step", "rx", t>>
             s == Process("bank_client", c, m, t)
  <2>1. s = (<<x>> \o (v \o <<y>>)) \o <<z>>
    BY Zenon DEF Process, bank_client_process_packet, Load, finish_send_packet, finish_send_packet_batch
  <2>2. n \in Nat \ {0} /\ n \in {1, Concurrency}
    BY DepthAssumption
  <2>3. v \in Seq(Ops) /\ Len(v) = 4 * n /\ \A i \in 1..(4 * n) : v[i] = <<FrameStep(i - 1), "tx", t>>
    <3>1. CASE m = "ping"
      BY Zenon, <2>2, <3>1, BankFrameIs
    <3>2. CASE m # "ping"
      <4>1. v = BankFrame(t) /\ n = 1 /\ 4 * n = 4
        BY <3>2
      <4>2. QED
        BY Zenon, <2>2, <4>1, BankFrameIs
    <3>3. QED
      BY Zenon, <3>1, <3>2
  <2>4. x \in Ops /\ y \in Ops /\ z \in Ops
    BY Zenon, OpsAreOps DEF OpSet, OpNames, Args, Buffers
  <2> HIDE DEF n, v, x, y, z, s
  <2> DEFINE b == v \o <<y>>
             d == <<x>> \o b
  <2>5. b \in Seq(Ops) /\ Len(b) = Len(v) + 1 /\ b[Len(v) + 1] = y /\ \A i \in 1..Len(v) : b[i] = v[i]
    BY Zenon, <2>3, <2>4, AppendIs
  <2>6. d \in Seq(Ops) /\ Len(d) = Len(b) + 1 /\ d[1] = x /\ \A i \in 1..Len(b) : d[i + 1] = b[i]
    BY Zenon, <2>4, <2>5, PrependIs
  <2>7. s \in Seq(Ops) /\ Len(s) = Len(d) + 1 /\ s[Len(d) + 1] = z /\ \A i \in 1..Len(d) : s[i] = d[i]
    BY ZenonT(30), <2>1, <2>4, <2>6, AppendIs
  <2> HIDE DEF b, d
  <2>8. Len(v) = 4 * n /\ Len(b) = 4 * n + 1 /\ Len(d) = 4 * n + 2 /\ Len(s) = 4 * n + 3 /\ s[4 * n + 3] = z
    BY <2>2, <2>3, <2>5, <2>6, <2>7
  <2>9. s[1] = x /\ s[4 * n + 2] = y /\ \A i \in 1..(4 * n) : s[i + 1] = v[i]
    BY <2>2, <2>5, <2>6, <2>7, <2>8
  <2>10. QED
    BY Zenon, <2>2, <2>3, <2>7, <2>8, <2>9 DEF IsBankAnswer, x, y, z, s
\* The bank client's answer is right when its send buffer is in DPA memory.
<1>BankAnswerGood. ASSUME NEW p, p.tx # "host", NEW t \in Tids, NEW s \in Seq(Ops), IsBankAnswer(s, t)
                   PROVE  Good("bank_client", p, t, s) /\ NotPut(s) /\ Plain(t, s) /\ Still(s)
  <2> USE <1>BankAnswerGood
  <2>1. PICK n \in {1, Concurrency} :
        /\ Len(s) = 4 * n + 3
        /\ s[1] = <<"load", "rx", t>>
        /\ \A i \in 1..(4 * n) : s[i + 1] = <<FrameStep(i - 1), "tx", t>>
        /\ s[4 * n + 2] = <<"ring", "mem", t>>
        /\ s[4 * n + 3] = <<"step", "rx", t>>
    BY Zenon DEF IsBankAnswer
  <2>2. n \in Nat /\ t # RPC
    BY DepthAssumption, ThreadsAssumption DEF Tids, RPC
  <2>3. \A i \in 1..Len(s) : /\ s[i][3] = t /\ s[i][1] \in {"load", "take", "bump", "store", "post", "ring", "step"}
                             /\ s[i][1] # "ring" => s[i][2] \in {"rx", "tx"}
                             /\ s[i][1] = "step" => i = Len(s)
    <3>1. TAKE i \in 1..Len(s)
    <3>2. CASE i - 1 \in 1..(4 * n)
      <4>1. (i - 1) + 1 = i
        BY <2>1
      <4>2. s[i] = <<FrameStep((i - 1) - 1), "tx", t>>
        BY Zenon, <2>1, <3>2, <4>1
      <4>3. QED
        BY <4>2 DEF FrameStep
    <3>3. CASE i \in {1, 4 * n + 2, 4 * n + 3}
      <4>1. s[i] = <<"load", "rx", t>> \/ s[i] = <<"ring", "mem", t>> \/ (i = Len(s) /\ s[i] = <<"step", "rx", t>>)
        BY Zenon, <2>1, <3>3
      <4>2. QED
        BY <4>1
    <3>4. Len(s) = 4 * n + 3
      BY Zenon, <2>1
    <3>5. i - 1 \in 1..(4 * n) \/ i \in {1, 4 * n + 2, 4 * n + 3}
      BY <2>2, <3>4
    <3>6. QED
      BY Zenon, <3>2, <3>3, <3>5
  <2>4. Plain(t, s) /\ Still(s)
    <3>1. \A i \in 1..Len(s) : s[i][3] = t
      BY Zenon, <2>3
    <3>2. OwnContext(t, s)
      BY Zenon, <2>2, <3>1 DEF OwnContext
    <3>3. (\A i \in 1..Len(s) : s[i][1] \notin {"get", "put"}) /\ Still(s)
      BY Zenon, <2>3 DEF Still
    <3>4. \A i \in 1..Len(s) : s[i][1] \in {"load", "store", "mac", "headers"} => s[i][2] \in {"rx", "tx"}
      BY Zenon, <2>3
    <3>4a. Consumes(t, s)
      BY <2>2, <2>3 DEF Consumes
    <3>5. QED
      BY Zenon, <3>2, <3>3, <3>4, <3>4a DEF Plain
  <2>5. 4 * n + 2 \in 1..Len(s) /\ Clears("bank_client", p, s[4 * n + 2])
        /\ \A i \in (4 * n + 2)..Len(s) : s[i][1] # "post" /\ ~Writes("bank_client", s[i])
    <3>1. Len(s) = 4 * n + 3
      BY Zenon, <2>1
    <3>2. 4 * n + 2 \in 1..Len(s) /\ \A i \in (4 * n + 2)..Len(s) : i \in {4 * n + 2, 4 * n + 3}
      BY <2>2, <3>1
    <3>3. s[4 * n + 2] = <<"ring", "mem", t>> /\ s[4 * n + 3] = <<"step", "rx", t>>
      BY Zenon, <2>1
    <3>4. QED
      BY <3>2, <3>3 DEF Clears, Writes, Held, SendBuffer, Reflectors
  <2>6. QED
    BY Zenon, <2>4, <2>5, AnnouncesBy, PlainGood DEF NotPut, Reflectors
<1> DEFINE dev == DeviceInit(who, where)
           s == Process(who, dev, msg, tid)
<1>1. PlacedAs(who, where, dev)
  BY Zenon, DevicePlaced
<1> HIDE DEF dev
<1>2. CASE who = "kv"
  BY Zenon, <1>1, <1>2, <1>KvGood, <1>KvWindowed DEF Messages, NeedsHome, Home, Reflectors, dev
<1>3. CASE who # "kv"
  <2>1. OneHome(who, where)
    BY Zenon, <1>1, <1>3, PlacedOneHome
  <2>2. SUFFICES Good(who, where, tid, s) /\ NotPut(s) /\ Plain(tid, s) /\ Still(s) /\ (who \in Reflectors => Len(s) > 3)
    BY Zenon, <1>3, <2>1, StillWindowed DEF dev
  <2>3. CASE who \in Reflectors
    BY Zenon, <1>1, <2>3, ReflectorsGood
  <2>4. CASE who \in Batches
    BY Zenon, <1>1, <2>4, <1>BatchesGood DEF Batches, Reflectors
  <2>5. CASE who \in PingPongs
    <3>1. s \in Seq(Ops) /\ (IsAnswer(s, tid, IF dev.tx = "host" THEN "win" ELSE "mem") \/ IsSkipped(s, tid))
      BY Zenon, <2>5, <1>PingPongIs
    <3>2. who \notin Reflectors /\ ((IF dev.tx = "host" THEN "win" ELSE "mem") # "mem" \/ where.tx # "host")
      BY Zenon, <1>1, <2>5 DEF PlacedAs, PingPongs, Reflectors
    <3>3. QED
      BY Zenon, <3>1, <3>2, <1>AnswerGood
  <2>6. CASE who = "bank_client"
    <3>1. where.tx # "host"
      BY Zenon, <1>1, <2>6 DEF PlacedAs, Banks
    <3>2. QED
      BY Zenon, <2>6, <3>1, <1>BankAnswerIs, <1>BankAnswerGood DEF Reflectors
  <2>7. QED
    BY Zenon, <1>3, <2>3, <2>4, <2>5, <2>6 DEF Apps, Threaded, Banks, Reflectors
<1>4. QED
  BY Zenon, <1>2, <1>3

\* What a handler does before its first packet is right, and brings its window home,
\* whatever the window was.
LEMMA StartFit ==
  ASSUME NEW who \in Apps, NEW where \in Placements(who), NEW tid \in Tids, NEW key
  PROVE  LET s == Start(who, DeviceInit(who, where), tid)
         IN  Good(who, where, tid, s) /\ Configures(s) /\ Windowed(who, where, tid, s, key)
<1> DEFINE IsStart(ap, p, s, t) ==
             /\ s \in Seq(Ops)
             /\ \A i \in 1..Len(s) : s[i][1] = "window" /\ s[i][3] = t
             /\ NeedsHome(ap, p) => Len(s) >= 1 /\ KeyOf(p, s[Len(s)][2]) = Home(ap, p)
<1> HIDE DEF IsStart
\* What a handler does before its first packet configures its window if it needs one,
\* and nothing else.
<1>StartIs. ASSUME NEW ap \in Apps, NEW p, NEW c, PlacedAs(ap, p, c), NEW t \in Tids
            PROVE  IsStart(ap, p, Start(ap, c, t), t)
  <2> USE <1>StartIs
  <2>1. OpSet(t)
    BY Zenon, OpsAreOps
  <2>2. CASE ap \in {"refactor", "mt", "nf", "workingset", "random", "ddio"}
    <3>1. Start(ap, c, t) = WindowRx(c, t)
      <4>1. CASE ap = "refactor"
        BY Zenon, <4>1 DEF Start, Banks, refactor_event_handler
      <4>2. CASE ap = "mt"
        BY Zenon, <4>2 DEF Start, Banks, mt_event_handler
      <4>3. CASE ap = "nf"
        BY Zenon, <4>3 DEF Start, Banks, nf_event_handler
      <4>4. CASE ap = "workingset"
        BY Zenon, <4>4 DEF Start, Banks, workingset_event_handler
      <4>5. CASE ap = "random"
        BY Zenon, <4>5 DEF Start, Banks, random_event_handler
      <4>6. CASE ap = "ddio"
        BY Zenon, <4>6 DEF Start, Banks, ddio_event_handler
      <4>7. QED
        BY Zenon, <4>1, <4>2, <4>3, <4>4, <4>5, <4>6, <2>2
    <3>2. c.rx = p.rx /\ (p.rx # "host" => p.tx # "host") /\ ap # "kv"
      BY Zenon, <2>2 DEF PlacedAs, Reflectors, Batches
    <3>3. QED
      BY <2>1, <3>1, <3>2 DEF IsStart, WindowRx, get_host_buffer_with_dtctx, NeedsHome, Home, KeyOf,
         OpSet, OpNames, Args, Buffers
  <2>3. CASE ap \in Banks \cup {"hostrq"}
    <3>1. Start(ap, c, t) = <<>>
      BY Zenon, <2>3 DEF Start, Banks, hostrq_event_handler
    <3>2. ~NeedsHome(ap, p)
      BY Zenon, <2>3 DEF NeedsHome, PlacedAs, Banks
    <3>3. QED
      BY <3>1, <3>2 DEF IsStart
  <2>4. CASE ap \in PingPongs \cup {"send_mt"}
    <3>1. Start(ap, c, t) = WindowRx(c, t) \o WindowTx(c, t)
      <4>1. CASE ap = "send"
        BY Zenon, <4>1 DEF Start, Banks, send_event_handler
      <4>2. CASE ap = "ntp"
        BY Zenon, <4>2 DEF Start, Banks, ntp_event_handler
      <4>3. CASE ap = "send_mt"
        BY Zenon, <4>3 DEF Start, Banks, send_mt_event_handler
      <4>4. QED
        BY Zenon, <4>1, <4>2, <4>3, <2>4 DEF PingPongs
    <3>2. c.rx = p.rx /\ c.tx = p.tx /\ (p.shared \/ p.rx = "dpa") /\ ap # "kv"
      BY Zenon, <2>4 DEF PlacedAs, PingPongs
    <3>3. CASE c.tx = "host" /\ c.rx = "host"
      BY <2>1, <3>1, <3>2, <3>3 DEF IsStart, WindowRx, WindowTx, get_host_buffer_with_dtctx, Home, KeyOf,
         OpSet, OpNames, Args, Buffers
    <3>4. CASE c.tx = "host" /\ c.rx # "host"
      BY <2>1, <3>1, <3>2, <3>4 DEF IsStart, WindowRx, WindowTx, get_host_buffer_with_dtctx, Home, KeyOf,
         OpSet, OpNames, Args, Buffers
    <3>5. CASE c.tx # "host" /\ c.rx = "host"
      BY <2>1, <3>1, <3>2, <3>5 DEF IsStart, WindowRx, WindowTx, get_host_buffer_with_dtctx, Home, KeyOf,
         OpSet, OpNames, Args, Buffers
    <3>6. CASE c.tx # "host" /\ c.rx # "host"
      BY <3>1, <3>2, <3>6 DEF IsStart, WindowRx, WindowTx, NeedsHome
    <3>7. QED
      BY Zenon, <3>3, <3>4, <3>5, <3>6
  <2>5. CASE ap = "kv"
    <3>0. c.rx = p.rx /\ c.kv = p.kv
      BY Zenon, <2>5 DEF PlacedAs
    <3>1. Start(ap, c, t) = WindowRx(c, t) \o WindowKv(c, t) /\ c.rx = p.rx /\ c.kv = p.kv
      BY Zenon, <2>5, <3>0 DEF Start, Banks, kv_event_handler
    <3>2. (NeedsHome(ap, p) <=> p.kv = "host") /\ Home(ap, p) = "kv" /\ KeyOf(p, "kv") = "kv"
      BY Zenon, <2>5 DEF NeedsHome, Home, KeyOf
    <3>3. CASE c.kv = "host" /\ c.rx = "host"
      BY <2>1, <3>1, <3>2, <3>3 DEF IsStart, WindowRx, WindowKv, get_host_buffer_with_dtctx, OpSet, OpNames, Args, Buffers
    <3>4. CASE c.kv = "host" /\ c.rx # "host"
      BY <2>1, <3>1, <3>2, <3>4 DEF IsStart, WindowRx, WindowKv, get_host_buffer_with_dtctx, OpSet, OpNames, Args, Buffers
    <3>5. CASE c.kv # "host"
      BY <2>1, <3>1, <3>2, <3>5 DEF IsStart, WindowRx, WindowKv, get_host_buffer_with_dtctx, OpSet, OpNames, Args, Buffers
    <3>6. QED
      BY Zenon, <3>3, <3>4, <3>5
  <2>6. QED
    BY Zenon, <2>2, <2>3, <2>4, <2>5 DEF Apps, Reflectors, Batches, PingPongs, Threaded, Banks
<1> DEFINE s == Start(who, DeviceInit(who, where), tid)
<1>1. IsStart(who, where, s, tid)
  BY Zenon, DevicePlaced, <1>StartIs
<1>2. tid # RPC
  BY ThreadsAssumption DEF Tids, RPC
<1> HIDE DEF s
<1>3. s \in Seq(Ops) /\ Len(s) \in Nat /\ \A i \in 1..Len(s) : s[i][1] = "window" /\ s[i][3] = tid
  BY <1>1 DEF IsStart
<1>4. Good(who, where, tid, s) /\ Configures(s)
  <2>1. OwnContext(tid, s) /\ Configures(s)
    BY Zenon, <1>2, <1>3 DEF OwnContext, Configures
  <2>2. Aggregates(tid, s) /\ Consumes(tid, s)
    BY Zenon, <1>3 DEF Aggregates, Consumes
  <2>3. Announces(who, where, tid, s)
    BY Zenon, <1>3 DEF Announces, Writes
  <2>4. QED
    BY Zenon, <1>2, <1>3, <2>1, <2>2, <2>3 DEF Good
<1>5. \A i \in 1..Len(s) : Touches(s[i]) = {}
  BY Zenon, <1>3 DEF Touches
<1>6. NeedsHome(who, where) => LastKey(where, s, Len(s) + 1, key, Home(who, where))
  <2>1. HAVE NeedsHome(who, where)
  <2>2. Len(s) >= 1 /\ KeyOf(where, s[Len(s)][2]) = Home(who, where)
    BY Zenon, <1>1, <2>1 DEF IsStart
  <2>3. /\ Len(s) \in 1..((Len(s) + 1) - 1) /\ s[Len(s)][1] = "window"
        /\ \A l \in (Len(s) + 1)..((Len(s) + 1) - 1) : s[l][1] # "window"
    BY <1>3, <2>2
  <2>4. QED
    BY Zenon, <2>2, <2>3 DEF LastKey
<1>7. QED
  BY Zenon, <1>4, <1>5, <1>6 DEF Windowed, s

\* The frame the send_mt handler sends is right, finds its window and takes no
\* completion.
LEMMA FrameFit ==
  ASSUME NEW p \in Placements("send_mt"), NEW t \in Tids, NEW w, NeedsHome("send_mt", p) => w = Home("send_mt", p)
  PROVE  LET s == IF DeviceInit("send_mt", p).tx = "host" THEN send_packet_on_host(t) ELSE send_packet_dpa(t)
         IN  /\ Good("send_mt", p, t, s) /\ NotPut(s) /\ Windowed("send_mt", p, t, s, w)
             /\ \A i \in 1..Len(s) : s[i][1] # "step"
<1> DEFINE c == DeviceInit("send_mt", p)
           s == IF c.tx = "host" THEN send_packet_on_host(t) ELSE send_packet_dpa(t)
           r == IF c.tx = "host" THEN "win" ELSE "mem"
<1>1. "send_mt" \in Apps /\ "send_mt" \notin Reflectors /\ t \in Actors
  BY Zenon DEF Apps, Threaded, Reflectors, Actors
<1>2. PlacedAs("send_mt", p, c)
  BY Zenon, <1>1, DevicePlaced
<1> HIDE DEF c
<1>3. s \in Seq(Ops) /\ IsFrame(s, t, r)
  BY Zenon, FrameIs
<1>4. r # "mem" \/ p.tx # "host"
  BY Zenon, <1>2 DEF PlacedAs
<1> HIDE DEF s, r
<1>5. Good("send_mt", p, t, s) /\ NotPut(s) /\ Plain(t, s)
  BY Zenon, <1>1, <1>3, <1>4, FramesGood
<1>6. Still(s) /\ \A i \in 1..Len(s) : s[i][1] # "step"
  BY <1>3 DEF IsFrame, Still
<1>7. OneHome("send_mt", p)
  BY Zenon, <1>1, <1>2, PlacedOneHome
<1>8. QED
  BY Zenon, <1>5, <1>6, <1>7, StillWindowed DEF s, c

Firsts == PingPongs \cup {"send_mt", "bank_client"}

\* The first-packet RPC of every application that has one is right and finds its
\* windows, whatever the window was.
LEMMA FirstFit ==
  ASSUME NEW who \in Firsts, NEW where \in Placements(who), NEW tid \in Tids, NEW key
  PROVE  LET s == FirstPacket(who, DeviceInit(who, where), tid)
         IN  Good(who, where, RPC, s) /\ NotPut(s) /\ Windowed(who, where, RPC, s, key)
\* A loop over all send buffers, after w window configurations.
<1> DEFINE IsPrepare(s, t, w) ==
             /\ Len(s) = 3 * Depth + w /\ w \in {0, 1}
             /\ w = 1 => s[1] = <<"window", "tx", t>>
             /\ \A i \in 1..(3 * Depth) : s[i + w] = <<PrepareStep(i - 1), "tx", t>>
<1> HIDE DEF IsPrepare
\* The first-packet RPC of dpa_send_mt configures the window if the send buffer is on
\* the host, and writes all headers.
<1>SendMtFirstIs. ASSUME NEW c, NEW t \in Tids
                  PROVE  LET s == send_mt_first_packet(c, t)
                         IN  s \in Seq(Ops) /\ IsPrepare(s, t, IF c.tx = "host" THEN 1 ELSE 0)
  <2> USE <1>SendMtFirstIs
  <2> DEFINE ops == get_next_send_buf(t) \o Headers(t)
             u == Repeat(Depth, ops)
  <2>1. send_mt_first_packet(c, t) = WindowTx(c, t) \o u
    BY Zenon DEF send_mt_first_packet, send_mt_prepare_packet_host, send_mt_prepare_packet
  <2>2. /\ u \in Seq(Ops) /\ Len(u) = 3 * Depth
        /\ \A i \in 1..(3 * Depth) : u[i] = <<PrepareStep(i - 1), "tx", t>>
    BY Zenon, PrepareIs
  <2>3. <<"window", "tx", t>> \in Ops
    BY Zenon, OpsAreOps DEF OpSet, OpNames, Args, Buffers
  <2> HIDE DEF u
  <2>4. Depth \in Nat
    BY Zenon, DepthAssumption
  <2>5. CASE c.tx = "host"
    <3>1. WindowTx(c, t) = <<<<"window", "tx", t>>>>
      BY Zenon, <2>5 DEF WindowTx, get_host_buffer_with_dtctx
    <3> DEFINE f == <<<<"window", "tx", t>>>> \o u
    <3>2. /\ f \in Seq(Ops) /\ Len(f) = Len(u) + 1 /\ f[1] = <<"window", "tx", t>>
          /\ \A i \in 1..Len(u) : f[i + 1] = u[i]
      BY Zenon, <2>2, <2>3, PrependIs
    <3> HIDE DEF f
    <3>3. Len(f) = 3 * Depth + 1
      BY Zenon, <2>2, <3>2
    <3>4. \A i \in 1..(3 * Depth) : f[i + 1] = <<PrepareStep(i - 1), "tx", t>>
      BY Zenon, <2>2, <3>2
    <3>5. IsPrepare(f, t, 1)
      BY Zenon, <3>2, <3>3, <3>4 DEF IsPrepare
    <3>6. send_mt_first_packet(c, t) = f
      BY Zenon, <2>1, <3>1 DEF f
    <3>7. QED
      BY Zenon, <2>5, <3>2, <3>5, <3>6
  <2>6. CASE c.tx # "host"
    <3>1. WindowTx(c, t) = <<>>
      BY Zenon, <2>6 DEF WindowTx
    <3>2. QED
      BY SMTT(30), <2>1, <2>2, <2>3, <2>4, <2>6, <3>1 DEF IsPrepare
  <2>7. QED
    BY Zenon, <2>5, <2>6
\* Writing the headers alone is right for dpa_send_mt: its handlers announce them.
<1>PreparesGood. ASSUME NEW p, NEW t \in Tids, NEW s \in Seq(Ops), NEW w, IsPrepare(s, t, w)
                 PROVE  Good("send_mt", p, RPC, s) /\ NotPut(s) /\ Plain(RPC, s)
  <2> USE <1>PreparesGood
  <2>0. Depth \in Nat /\ Len(s) \in Nat
    BY DepthAssumption
  <2>1. /\ Depth \in Nat /\ Len(s) \in Nat /\ Len(s) = 3 * Depth + w /\ w \in {0, 1}
        /\ \A i \in 1..(3 * Depth) : s[i + w] = <<PrepareStep(i - 1), "tx", t>>
        /\ w = 1 => s[1] = <<"window", "tx", t>>
    BY Zenon, <2>0 DEF IsPrepare
  <2>2. \A i \in 1..Len(s) : s[i][3] = t /\ s[i][2] = "tx" /\ s[i][1] \in {"window", "take", "bump", "headers"}
    <3>1. TAKE i \in 1..Len(s)
    <3>2. CASE i - w \in 1..(3 * Depth)
      <4>1. (i - w) + w = i
        BY <2>1
      <4>2. s[i] = <<PrepareStep((i - w) - 1), "tx", t>>
        BY Zenon, <2>1, <3>2, <4>1
      <4>3. QED
        BY <4>2 DEF PrepareStep
    <3>3. CASE i - w \notin 1..(3 * Depth)
      BY <2>1, <3>3
    <3>4. QED
      BY Zenon, <3>2, <3>3
  <2>3. Plain(RPC, s)
    <3>1. 1 \in 1..Len(s)
      BY <2>1, DepthAssumption
    <3>2. OwnContext(RPC, s)
      BY Zenon, <2>2, <3>1 DEF OwnContext
    <3>3. QED
      BY Zenon, <2>2, <3>2 DEF Plain, Consumes
  <2>4. Announces("send_mt", p, RPC, s)
    BY Zenon, <2>2 DEF Announces
  <2>5. QED
    BY Zenon, <2>3, <2>4, PlainGood DEF NotPut, Reflectors
\* The loop over the send buffers touches these alone, and configures the window at most
\* before it.
<1>PrepareTouches. ASSUME NEW t \in Tids, NEW s \in Seq(Ops), NEW w, IsPrepare(s, t, w)
                   PROVE  \A i \in 1..Len(s) : Touches(s[i]) \subseteq {"tx"} /\ (i > w => s[i][1] # "window")
  <2> USE <1>PrepareTouches
  <2>0. Depth \in Nat /\ Len(s) \in Nat
    BY DepthAssumption
  <2>1. /\ Depth \in Nat /\ Len(s) \in Nat /\ Len(s) = 3 * Depth + w /\ w \in {0, 1}
        /\ \A i \in 1..(3 * Depth) : s[i + w] = <<PrepareStep(i - 1), "tx", t>>
        /\ w = 1 => s[1] = <<"window", "tx", t>>
    BY Zenon, <2>0 DEF IsPrepare
  <2>2. TAKE i \in 1..Len(s)
  <2>3. CASE i - w \in 1..(3 * Depth)
    <3>1. (i - w) + w = i
      BY <2>1
    <3>2. s[i] = <<PrepareStep((i - w) - 1), "tx", t>>
      BY Zenon, <2>1, <2>3, <3>1
    <3>3. QED
      BY <3>2 DEF PrepareStep, Touches
  <2>4. CASE i - w \notin 1..(3 * Depth)
    <3>1. i = 1 /\ w = 1
      BY <2>1, <2>4
    <3>2. QED
      BY <2>1, <3>1 DEF Touches
  <2>5. QED
    BY Zenon, <2>3, <2>4
\* The first packet of the bank client: all headers, one frame, one doorbell.
<1> DEFINE IsPing(s, t) ==
             /\ Len(s) = 3 * Depth + 5
             /\ \A i \in 1..(3 * Depth) : s[i] = <<PrepareStep(i - 1), "tx", t>>
             /\ \A i \in 1..4 : s[3 * Depth + i] = <<FrameStep(i - 1), "tx", t>>
             /\ s[3 * Depth + 5] = <<"ring", "mem", t>>
<1> HIDE DEF IsPing
\* The first-packet RPC of the bank client writes all headers and sends one frame.
<1>BankPingIs. ASSUME NEW c, NEW t \in Tids
               PROVE  bank_ping_packet(c, t) \in Seq(Ops) /\ IsPing(bank_ping_packet(c, t), t)
  <2> USE <1>BankPingIs
  <2> DEFINE ops == get_next_send_buf(t) \o Headers(t)
             u == Repeat(Depth, ops)
             v == BankFrame(t)
             w == <<"ring", "mem", t>>
  <2>1. bank_ping_packet(c, t) = u \o (v \o <<w>>)
    BY Zenon DEF bank_ping_packet, bank_prepare_packet, send_ping_packet, finish_send_packet
  <2>2. /\ u \in Seq(Ops) /\ Len(u) = 3 * Depth
        /\ \A i \in 1..(3 * Depth) : u[i] = <<PrepareStep(i - 1), "tx", t>>
    BY Zenon, PrepareIs
  <2>3. v \in Seq(Ops) /\ Len(v) = 4 /\ \A i \in 1..4 : v[i] = <<FrameStep(i - 1), "tx", t>>
    BY Zenon, BankFrameIs, DepthAssumption
  <2>4. w \in Ops
    BY Zenon, OpsAreOps DEF OpSet, OpNames, Args, Buffers
  <2>5. Depth \in Nat
    BY Zenon, DepthAssumption
  <2> HIDE DEF u, v, w
  <2> DEFINE x == v \o <<w>>
  <2>6. x \in Seq(Ops) /\ Len(x) = Len(v) + 1 /\ x[Len(v) + 1] = w /\ \A i \in 1..Len(v) : x[i] = v[i]
    BY Zenon, <2>3, <2>4, AppendIs
  <2> HIDE DEF x
  <2>7. /\ Len(x) = 5 /\ x[5] = w
        /\ \A i \in 1..4 : x[i] = <<FrameStep(i - 1), "tx", t>>
    BY <2>3, <2>6
  <2> DEFINE z == u \o x
  <2>8. /\ z \in Seq(Ops) /\ Len(z) = Len(u) + Len(x)
        /\ \A i \in 1..Len(u) : z[i] = u[i]
        /\ \A i \in 1..Len(x) : z[Len(u) + i] = x[i]
    BY Zenon, <2>2, <2>6, ConcatIs
  <2> HIDE DEF z
  <2>9. IsPing(z, t)
    <3>1. Len(z) = 3 * Depth + 5
      BY Zenon, <2>2, <2>5, <2>7, <2>8
    <3>2. \A i \in 1..(3 * Depth) : z[i] = <<PrepareStep(i - 1), "tx", t>>
      BY Zenon, <2>2, <2>8
    <3>3. 5 \in 1..Len(x) /\ \A i \in 1..4 : i \in 1..Len(x)
      BY <2>7
    <3>4. \A i \in 1..4 : z[3 * Depth + i] = <<FrameStep(i - 1), "tx", t>>
      BY Zenon, <2>2, <2>7, <2>8, <3>3
    <3>5. z[3 * Depth + 5] = <<"ring", "mem", t>>
      BY Zenon, <2>2, <2>7, <2>8, <3>3 DEF w
    <3>6. QED
      BY Zenon, <3>1, <3>2, <3>4, <3>5 DEF IsPing
  <2>10. QED
    BY Zenon, <2>1, <2>8, <2>9 DEF x, z
\* The first packet of the bank client is right when its send buffer is in DPA memory.
<1>PingGood. ASSUME NEW p, p.tx # "host", NEW t \in Tids, NEW s \in Seq(Ops), IsPing(s, t)
             PROVE  Good("bank_client", p, RPC, s) /\ NotPut(s) /\ Plain(RPC, s)
  <2> USE <1>PingGood
  <2>1. /\ Depth \in Nat /\ Len(s) \in Nat /\ Len(s) = 3 * Depth + 5
        /\ \A i \in 1..(3 * Depth) : s[i] = <<PrepareStep(i - 1), "tx", t>>
        /\ \A i \in 1..4 : s[3 * Depth + i] = <<FrameStep(i - 1), "tx", t>>
        /\ s[Len(s)] = <<"ring", "mem", t>>
    <3>1. Depth \in Nat /\ Len(s) \in Nat
      BY DepthAssumption
    <3>2. QED
      BY Zenon, <3>1 DEF IsPing
  <2>2. \A i \in 1..Len(s) : /\ s[i][3] = t /\ s[i][1] \in {"take", "bump", "headers", "store", "post", "ring"}
                             /\ s[i][1] # "ring" => s[i][2] = "tx"
    <3>1. TAKE i \in 1..Len(s)
    <3>2. CASE i \in 1..(3 * Depth)
      <4>1. s[i] = <<PrepareStep(i - 1), "tx", t>>
        BY Zenon, <2>1, <3>2
      <4>2. QED
        BY <4>1 DEF PrepareStep
    <3>3. CASE i - 3 * Depth \in 1..4
      <4>1. 3 * Depth + (i - 3 * Depth) = i
        BY <2>1
      <4>2. s[i] = <<FrameStep((i - 3 * Depth) - 1), "tx", t>>
        BY Zenon, <2>1, <3>3, <4>1
      <4>3. QED
        BY <4>2 DEF FrameStep
    <3>4. CASE i = Len(s)
      BY <2>1, <3>4
    <3>5. i \in 1..(3 * Depth) \/ i - 3 * Depth \in 1..4 \/ i = Len(s)
      <4>1. Depth \in Nat /\ Len(s) = 3 * Depth + 5
        BY Zenon, <2>1
      <4>2. QED
        BY <4>1
    <3>6. QED
      BY Zenon, <3>2, <3>3, <3>4, <3>5
  <2>3. Plain(RPC, s)
    <3>1. 1 \in 1..Len(s)
      BY <2>1
    <3>2. \A i \in 1..Len(s) : s[i][3] = t
      BY Zenon, <2>2
    <3>3. OwnContext(RPC, s)
      BY Zenon, <3>1, <3>2 DEF OwnContext
    <3>4. \A i \in 1..Len(s) : s[i][1] \notin {"get", "put"}
      BY Zenon, <2>2
    <3>5. \A i \in 1..Len(s) : s[i][1] \in {"load", "store", "mac", "headers"} => s[i][2] \in {"rx", "tx"}
      BY Zenon, <2>2
    <3>5a. Consumes(RPC, s)
      BY Zenon, <2>2 DEF Consumes
    <3>6. QED
      BY Zenon, <3>3, <3>4, <3>5, <3>5a DEF Plain
  <2>4. Len(s) \in 1..Len(s) /\ Clears("bank_client", p, s[Len(s)])
        /\ \A i \in Len(s)..Len(s) : s[i][1] # "post" /\ ~Writes("bank_client", s[i])
    <3>1. Len(s) \in 1..Len(s) /\ \A i \in Len(s)..Len(s) : i = Len(s)
      BY <2>1
    <3>2. s[Len(s)] = <<"ring", "mem", t>>
      BY Zenon, <2>1
    <3>3. QED
      BY <3>1, <3>2 DEF Clears, Writes, Held, SendBuffer, Reflectors
  <2>5. QED
    BY Zenon, <2>3, <2>4, AnnouncesBy, PlainGood DEF NotPut, Reflectors
\* The first packet of the bank client touches send buffers alone.
<1>PingTouches. ASSUME NEW t \in Tids, NEW s \in Seq(Ops), IsPing(s, t)
                PROVE  \A i \in 1..Len(s) : Touches(s[i]) \subseteq {"tx"}
  <2> USE <1>PingTouches
  <2>1. /\ Depth \in Nat /\ Len(s) \in Nat /\ Len(s) = 3 * Depth + 5
        /\ \A i \in 1..(3 * Depth) : s[i] = <<PrepareStep(i - 1), "tx", t>>
        /\ \A i \in 1..4 : s[3 * Depth + i] = <<FrameStep(i - 1), "tx", t>>
        /\ s[Len(s)] = <<"ring", "mem", t>>
    <3>1. Depth \in Nat /\ Len(s) \in Nat
      BY DepthAssumption
    <3>2. QED
      BY Zenon, <3>1 DEF IsPing
  <2>2. TAKE i \in 1..Len(s)
  <2>3. CASE i \in 1..(3 * Depth)
    <3>1. s[i] = <<PrepareStep(i - 1), "tx", t>>
      BY Zenon, <2>1, <2>3
    <3>2. s[i][2] = "tx" /\ s[i][1] \in {"take", "bump", "headers"}
      BY <3>1 DEF PrepareStep
    <3>3. QED
      BY Zenon, <3>2 DEF Touches
  <2>4. CASE i - 3 * Depth \in 1..4
    <3>1. 3 * Depth + (i - 3 * Depth) = i
      BY <2>1
    <3>2. s[i] = <<FrameStep((i - 3 * Depth) - 1), "tx", t>>
      BY Zenon, <2>1, <2>4, <3>1
    <3>3. QED
      BY <3>2 DEF FrameStep, Touches
  <2>5. CASE i = Len(s)
    BY <2>1, <2>5 DEF Touches
  <2>6. i \in 1..(3 * Depth) \/ i - 3 * Depth \in 1..4 \/ i = Len(s)
    <3>1. Depth \in Nat /\ Len(s) = 3 * Depth + 5
      BY Zenon, <2>1
    <3>2. QED
      BY <3>1
  <2>7. QED
    BY Zenon, <2>3, <2>4, <2>5, <2>6
\* The touches of a first-packet function come after its window call, if it needs one.
<1>OpensWindowed. ASSUME NEW ap, NEW p, NEW s \in Seq(Ops), \A i \in 1..Len(s) : Touches(s[i]) \subseteq {"tx"}, NEW w,
                         NEW k \in Nat, p.tx = "host" => /\ k \in 1..Len(s) /\ s[k] = <<"window", "tx", s[k][3]>>
                                                         /\ \A i \in (k + 1)..Len(s) : s[i][1] # "window"
                                                         /\ \A i \in 1..k : Touches(s[i]) = {}
                  PROVE  Windowed(ap, p, RPC, s, w)
  <2> USE <1>OpensWindowed
  <2>1. Len(s) \in Nat
    OBVIOUS
  <2>2. ASSUME NEW i \in 1..Len(s), NEW b \in Touches(s[i]), ap # "hostrq", Held(p, b) = "host"
        PROVE  LastKey(p, s, i, w, KeyOf(p, b))
    <3>1. b = "tx"
      BY Zenon
    <3>2. p.tx = "host"
      BY Zenon, <2>2, <3>1 DEF Held
    <3>3. i \notin 1..k
      BY Zenon, <3>2
    <3>4. /\ k \in 1..(i - 1) /\ s[k][1] = "window" /\ s[k][2] = "tx"
          /\ \A l \in (k + 1)..(i - 1) : s[l][1] # "window"
      BY <2>1, <3>2, <3>3
    <3>5. QED
      BY Zenon, <3>1, <3>4 DEF LastKey
  <2>3. QED
    BY Zenon, <2>2 DEF Windowed
<1> DEFINE dev == DeviceInit(who, where)
           s == FirstPacket(who, dev, tid)
           r == IF dev.tx = "host" THEN "win" ELSE "mem"
<1>1. who \in Apps /\ who \notin Reflectors /\ RPC \in Actors /\ 0 \in Nat /\ 1 \in Nat /\ 3 \in Nat
  BY Zenon DEF Apps, Firsts, PingPongs, Threaded, Banks, Reflectors, Actors
<1>2. PlacedAs(who, where, dev)
  BY Zenon, <1>1, DevicePlaced
<1>3. who # "bank_client" => dev.tx = where.tx
  BY Zenon, <1>2 DEF PlacedAs, Firsts
<1>4. who = "bank_client" => where.tx # "host"
  BY Zenon, <1>2 DEF PlacedAs, Banks
<1> HIDE DEF dev
<1>5. CASE who \in PingPongs
  <2>1. s \in Seq(Ops) /\ IF dev.tx = "host" THEN IsFirstHost(s, tid, r) ELSE IsFirst(s, tid, r)
    BY Zenon, <1>5, FirstIs
  <2>2. dev.tx = where.tx /\ (r # "mem" \/ where.tx # "host")
    BY Zenon, <1>3, <1>5 DEF PingPongs
  <2> HIDE DEF s, r
  <2>3. Good(who, where, RPC, s) /\ NotPut(s)
    <3>1. IsFrame(s, tid, r) \/ IsFirst(s, tid, r) \/ IsFirstHost(s, tid, r)
      BY Zenon, <2>1
    <3>2. QED
      BY Zenon, <1>1, <2>1, <2>2, <3>1, FramesGood
  <2>4. CASE dev.tx = "host"
    <3>1. /\ Len(s) = 7 /\ s[3] = <<"window", "tx", tid>>
          /\ s[4][1] # "window" /\ s[5][1] # "window" /\ s[6][1] # "window" /\ s[7][1] # "window"
      BY SMTT(30), <2>1, <2>4 DEF IsFirstHost
    <3>2. /\ Touches(s[1]) = {} /\ Touches(s[2]) = {} /\ Touches(s[3]) = {} /\ Touches(s[4]) = {"tx"}
          /\ Touches(s[5]) = {} /\ Touches(s[6]) = {"tx"} /\ Touches(s[7]) = {}
      BY <2>1, <2>4 DEF IsFirstHost, Touches
    <3>3. /\ 3 \in 1..Len(s) /\ s[3] = <<"window", "tx", s[3][3]>>
          /\ \A i \in (3 + 1)..Len(s) : s[i][1] # "window"
      BY <3>1
    <3>4. (\A i \in 1..3 : Touches(s[i]) = {}) /\ \A i \in 1..Len(s) : Touches(s[i]) \subseteq {"tx"}
      BY <3>1, <3>2
    <3>5. QED
      BY Zenon, <1>1, <2>1, <2>3, <3>3, <3>4, <1>OpensWindowed DEF s, dev
  <2>5. CASE dev.tx # "host"
    <3>1. \A i \in 1..Len(s) : Touches(s[i]) \subseteq {"tx"}
      <4>1. /\ Len(s) = 6 /\ Touches(s[1]) = {} /\ Touches(s[2]) = {} /\ Touches(s[3]) = {"tx"}
            /\ Touches(s[4]) = {} /\ Touches(s[5]) = {"tx"} /\ Touches(s[6]) = {}
        BY <2>1, <2>5 DEF IsFirst, Touches
      <4>2. QED
        BY <4>1
    <3>2. QED
      BY Zenon, <1>1, <2>1, <2>2, <2>3, <2>5, <3>1, <1>OpensWindowed DEF s, dev
  <2>6. QED
    BY Zenon, <2>4, <2>5
<1>6. CASE who = "send_mt"
  <2> DEFINE v == IF dev.tx = "host" THEN 1 ELSE 0
  <2>1. s \in Seq(Ops) /\ IsPrepare(s, tid, v)
    BY Zenon, <1>6, <1>SendMtFirstIs DEF FirstPacket
  <2>2. dev.tx = where.tx /\ v \in Nat
    BY Zenon, <1>3, <1>6
  <2> HIDE DEF s, v
  <2>3. Good(who, where, RPC, s) /\ NotPut(s)
    BY Zenon, <1>6, <2>1, <1>PreparesGood
  <2>4. \A i \in 1..Len(s) : Touches(s[i]) \subseteq {"tx"} /\ (i > v => s[i][1] # "window")
    BY Zenon, <2>1, <1>PrepareTouches
  <2>5. where.tx = "host" => /\ v \in 1..Len(s) /\ s[v] = <<"window", "tx", s[v][3]>>
                             /\ \A i \in (v + 1)..Len(s) : s[i][1] # "window"
                             /\ \A i \in 1..v : Touches(s[i]) = {}
    <3>1. HAVE where.tx = "host"
    <3>2. v = 1 /\ Len(s) \in Nat /\ Len(s) >= 1 /\ s[1] = <<"window", "tx", tid>>
      BY <2>1, <2>2, <3>1, DepthAssumption DEF IsPrepare, v
    <3>3. QED
      BY <2>4, <3>2 DEF Touches
  <2>6. QED
    BY Zenon, <2>1, <2>2, <2>3, <2>4, <2>5, <1>OpensWindowed DEF s, dev
<1>7. CASE who = "bank_client"
  <2>1. s \in Seq(Ops) /\ IsPing(s, tid)
    BY Zenon, <1>7, <1>BankPingIs DEF FirstPacket
  <2> HIDE DEF s
  <2>2. Good(who, where, RPC, s) /\ NotPut(s)
    BY Zenon, <1>4, <1>7, <2>1, <1>PingGood
  <2>3. \A i \in 1..Len(s) : Touches(s[i]) \subseteq {"tx"}
    BY Zenon, <2>1, <1>PingTouches
  <2>4. QED
    BY Zenon, <1>1, <1>4, <1>7, <2>1, <2>2, <2>3, <1>OpensWindowed DEF s, dev
<1>8. QED
  BY Zenon, <1>5, <1>6, <1>7 DEF Firsts
=============================================================================
