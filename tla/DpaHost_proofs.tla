--------------------------- MODULE DpaHost_proofs ---------------------------
(***************************************************************************)
(* The mains of the DPA applications, for any number of threads, any first *)
(* thread and any placement of the buffers: where main stands in its program*)
(* says what exists, which contexts are initialised, what the one flow matcher*)
(* holds and which tables there are; hence every call finds what it needs. *)
(***************************************************************************)
EXTENDS DpaHost, TLAPS

----------------------------------------------------------------------------
(* What the host has done *)

\* The calls a main can make.
CallNames == {"create", "init", "field", "clear", "table", "rule", "run", "wait", "first", "stop"}
Whats == Global \cup {"handler", "rq_cq", "sq_cq", "rq", "sq", "init", "run", "dst", "src", "rx", "tx", "tx_root", "match", "events", "rpc"}
HostCalls == CallNames \X Whats \X Tids

\* The programs, call by call.
IsSingle(s) ==
  /\ Len(s) = 24
  /\ s[1] = Create("ctx", 0) /\ s[2] = Create("pd", 0) /\ s[3] = Create("process", 0)
  /\ s[4] = Create("window", 0) /\ s[5] = Create("uar", 0) /\ s[6] = Create("stream", 0)
  /\ s[7] = Create("handler", 0) /\ s[8] = Create("rq_cq", 0) /\ s[9] = Create("sq_cq", 0)
  /\ s[10] = Create("rq", 0) /\ s[11] = Create("sq", 0) /\ s[12] = <<"init", "init", 0>>
  /\ s[13] = <<"field", "dst", 0>> /\ s[14] = <<"table", "rx", 0>>
  /\ s[15] = <<"field", "dst", 0>> /\ s[16] = <<"rule", "rx", 0>>
  /\ s[17] = <<"clear", "match", 0>> /\ s[18] = <<"field", "src", 0>>
  /\ s[19] = <<"table", "tx_root", 0>> /\ s[20] = <<"table", "tx", 0>>
  /\ s[21] = <<"field", "src", 0>> /\ s[22] = <<"rule", "tx_root", 0>>
  /\ s[23] = <<"rule", "tx", 0>> /\ s[24] = <<"run", "run", 0>>
IsHostrq(s) ==
  /\ Len(s) = 24
  /\ s[1] = Create("ctx", 0) /\ s[2] = Create("pd", 0) /\ s[3] = Create("process", 0)
  /\ s[4] = Create("uar", 0) /\ s[5] = Create("stream", 0) /\ s[6] = Create("window", 0)
  /\ s[7] = Create("handler", 0) /\ s[8] = Create("rq_cq", 0) /\ s[9] = Create("sq_cq", 0)
  /\ s[10] = Create("rq", 0) /\ s[11] = Create("sq", 0) /\ s[12] = <<"init", "init", 0>>
  /\ s[13] = <<"field", "dst", 0>> /\ s[14] = <<"table", "rx", 0>>
  /\ s[15] = <<"field", "dst", 0>> /\ s[16] = <<"rule", "rx", 0>>
  /\ s[17] = <<"clear", "match", 0>> /\ s[18] = <<"field", "src", 0>>
  /\ s[19] = <<"table", "tx_root", 0>> /\ s[20] = <<"table", "tx", 0>>
  /\ s[21] = <<"field", "src", 0>> /\ s[22] = <<"rule", "tx_root", 0>>
  /\ s[23] = <<"rule", "tx", 0>> /\ s[24] = <<"run", "run", 0>>
IsTables(s) ==
  /\ Len(s) = 13
  /\ s[1] = Create("ctx", 0) /\ s[2] = Create("pd", 0) /\ s[3] = Create("process", 0)
  /\ s[4] = Create("window", 0) /\ s[5] = Create("uar", 0) /\ s[6] = Create("stream", 0)
  /\ s[7] = <<"field", "dst", 0>> /\ s[8] = <<"table", "rx", 0>> /\ s[9] = <<"clear", "match", 0>>
  /\ s[10] = <<"field", "src", 0>> /\ s[11] = <<"table", "tx_root", 0>>
  /\ s[12] = <<"table", "tx", 0>> /\ s[13] = <<"clear", "match", 0>>
IsPerThread(s, t) ==
  /\ Len(s) = 14
  /\ s[1] = Create("handler", t) /\ s[2] = Create("rq_cq", t) /\ s[3] = Create("sq_cq", t)
  /\ s[4] = Create("rq", t) /\ s[5] = Create("sq", t) /\ s[6] = <<"init", "init", t>>
  /\ s[7] = <<"field", "dst", t>> /\ s[8] = <<"rule", "rx", t>> /\ s[9] = <<"clear", "match", t>>
  /\ s[10] = <<"field", "src", t>> /\ s[11] = <<"rule", "tx_root", t>>
  /\ s[12] = <<"rule", "tx", t>> /\ s[13] = <<"clear", "match", t>> /\ s[14] = <<"run", "run", t>>

\* Whose main calls the RPC for the first packets.
Callers == PingPongs \cup {"send_mt", "bank_client"}

\* What follows the loop.
After(s) ==
  /\ Len(s) \in 1..3
  /\ s[1][1] \in {"first", "wait"} /\ (s[1][1] = "first" => app \in Callers)
  /\ Len(s) > 1 => s[2][1] = "wait"
  /\ Len(s) > 2 => s[3][1] = "stop"
  /\ s[1][2] # "init" /\ (Len(s) > 1 => s[2][2] # "init") /\ (Len(s) > 2 => s[3][2] # "init")
  /\ s[1][2] # "run" /\ (Len(s) > 1 => s[2][2] # "run") /\ (Len(s) > 2 => s[3][2] # "run")

\* The program main is in.
HostProg ==
  IF loop > g_thread_num THEN Main(app).after
  ELSE IF app \in Threaded /\ loop > 0 THEN PerThread(begin_thread + loop - 1)
  ELSE Main(app).before

\* What main was started with.
SettingsInv ==
  /\ app \in Apps /\ place \in Placements(app)
  /\ begin_thread \in Tids /\ g_thread_num \in 1..MAX_THREADS /\ begin_thread + g_thread_num <= MAX_THREADS
  /\ app \notin Threaded => g_thread_num = 1
  /\ app \notin Threaded \ Banks => begin_thread = 0
  /\ loop \in Nat /\ loop <= g_thread_num + 1
  /\ app \notin Threaded => loop >= 1

\* Which of the listed programs main is in, by its place in the loop.
LEMMA HostProgIs ==
  ASSUME SettingsInv
  PROVE  /\ HostProg \in Seq(HostCalls)
         /\ loop > g_thread_num => After(HostProg)
         /\ loop <= g_thread_num /\ app \notin Threaded => IsSingle(HostProg) \/ IsHostrq(HostProg)
         /\ loop <= g_thread_num /\ app \in Threaded /\ loop = 0 => IsTables(HostProg)
         /\ loop <= g_thread_num /\ app \in Threaded /\ loop > 0 =>
              begin_thread + loop - 1 \in Tids /\ IsPerThread(HostProg, begin_thread + loop - 1)
\* The calls of a turn of the loop, listed one by one.
<1>PerThreadIs. ASSUME NEW t \in Tids
                PROVE  PerThread(t) \in Seq(HostCalls) /\ IsPerThread(PerThread(t), t)
  <2> USE <1>PerThreadIs
  <2>1. \A n \in CallNames, x \in Whats : <<n, x, t>> \in HostCalls
    BY Zenon DEF HostCalls
  <2>2. PerThread(t) \in Seq(HostCalls)
    BY <2>1 DEF PerThread, Queues, Create, Field, Table, Rule, Clear, Run, CallNames, Whats, Global
  <2>3. IsPerThread(PerThread(t), t)
    BY DEF IsPerThread, PerThread, Queues, Create, Field, Table, Rule, Clear, Run
  <2>4. QED
    BY Zenon, <2>2, <2>3
\* The calls of the single-threaded mains, listed one by one.
<1>SingleIs. /\ Single \in Seq(HostCalls) /\ IsSingle(Single)
             /\ hostrq_main.before \in Seq(HostCalls) /\ IsHostrq(hostrq_main.before)
  <2>1. \A n \in CallNames, x \in Whats : <<n, x, 0>> \in HostCalls
    BY ThreadsAssumption DEF HostCalls, Tids
  <2>2. Single \in Seq(HostCalls)
    BY <2>1 DEF Single, Setup, Steer, Queues, Create, Field, Table, Rule, Clear, Run, CallNames, Whats, Global
  <2>3. IsSingle(Single)
    BY DEF IsSingle, Single, Setup, Steer, Queues, Create, Field, Table, Rule, Clear, Run
  <2>4. hostrq_main.before \in Seq(HostCalls)
    BY <2>1 DEF hostrq_main, Calls, Steer, Queues, Create, Field, Table, Rule, Clear, Run, CallNames, Whats, Global
  <2>5. IsHostrq(hostrq_main.before)
    BY DEF hostrq_main, Calls, IsHostrq, Steer, Queues, Create, Field, Table, Rule, Clear, Run
  <2>6. QED
    BY Zenon, <2>2, <2>3, <2>4, <2>5
\* The calls of the multi-threaded mains before the loop, listed one by one.
<1>TablesIs. Setup \o Tables \in Seq(HostCalls) /\ IsTables(Setup \o Tables)
  <2>1. \A n \in CallNames, x \in Whats : <<n, x, 0>> \in HostCalls
    BY ThreadsAssumption DEF HostCalls, Tids
  <2>2. Setup \o Tables \in Seq(HostCalls)
    BY <2>1 DEF Setup, Tables, Create, Field, Table, Rule, Clear, Run, CallNames, Whats, Global
  <2>3. IsTables(Setup \o Tables)
    BY DEF IsTables, Setup, Tables, Create, Field, Table, Rule, Clear, Run
  <2>4. QED
    BY Zenon, <2>2, <2>3
<1>1. CASE loop > g_thread_num
  <2>1. HostProg = Main(app).after
    BY Zenon, <1>1 DEF HostProg
  <2>2. /\ <<"wait", "events", 0>> \in HostCalls /\ <<"first", "rpc", 0>> \in HostCalls
        /\ <<"stop", "rpc", 0>> \in HostCalls
    BY ThreadsAssumption DEF HostCalls, CallNames, Whats, Tids
  <2>3. \/ Main(app).after = Wait
        \/ Main(app).after = First \o Wait /\ app \in Callers
        \/ Main(app).after = First \o Wait \o Stop /\ app \in Callers
    BY Zenon DEF SettingsInv, Apps, Reflectors, Batches, PingPongs, Threaded, Banks, Callers, Main, Calls,
           refactor_main, workingset_main, random_main, ddio_main, send_main, ntp_main, hostrq_main, mt_main,
           nf_main, kv_main, send_mt_main, bank_client_main, bank_server_main
  <2>4. /\ Wait \in Seq(HostCalls) /\ First \o Wait \in Seq(HostCalls)
        /\ First \o Wait \o Stop \in Seq(HostCalls)
    BY <2>2 DEF Wait, First, Stop
  <2>5. /\ Len(Wait) = 1 /\ Wait[1] = <<"wait", "events", 0>>
        /\ Len(First \o Wait) = 2 /\ (First \o Wait)[1] = <<"first", "rpc", 0>>
        /\ (First \o Wait)[2] = <<"wait", "events", 0>>
        /\ Len(First \o Wait \o Stop) = 3 /\ (First \o Wait \o Stop)[1] = <<"first", "rpc", 0>>
        /\ (First \o Wait \o Stop)[2] = <<"wait", "events", 0>>
        /\ (First \o Wait \o Stop)[3] = <<"stop", "rpc", 0>>
    BY DEF Wait, First, Stop
  <2>7. After(Main(app).after)
    <3>1. CASE Main(app).after = Wait
      BY <3>1, <2>5 DEF After
    <3>2. CASE Main(app).after = First \o Wait /\ app \in Callers
      BY <3>2, <2>5 DEF After
    <3>3. CASE Main(app).after = First \o Wait \o Stop /\ app \in Callers
      BY <3>3, <2>5 DEF After
    <3>4. QED
      BY Zenon, <2>3, <3>1, <3>2, <3>3
  <2>8. Main(app).after \in Seq(HostCalls)
    BY <2>3, <2>4, Zenon
  <2>9. ~(loop <= g_thread_num)
    BY <1>1 DEF SettingsInv
  <2>10. QED
    BY <2>1, <2>7, <2>8, <2>9, Zenon
<1>2. CASE loop <= g_thread_num /\ app \notin Threaded
  <2>1. HostProg = Main(app).before
    BY <1>2 DEF HostProg, SettingsInv
  <2>2. Main(app).before = Single \/ Main(app).before = hostrq_main.before
    BY Zenon, <1>2 DEF SettingsInv, Apps, Reflectors, Batches, PingPongs, Threaded, Banks, Callers, Main, Calls,
           refactor_main, workingset_main, random_main, ddio_main, send_main, ntp_main
  <2>3. QED
    BY <1>2, <2>1, <2>2, <1>SingleIs DEF SettingsInv
<1>3. CASE loop <= g_thread_num /\ app \in Threaded /\ loop = 0
  <2>1. HostProg = Main(app).before
    BY <1>3 DEF HostProg, SettingsInv
  <2>2. Main(app).before = Setup \o Tables
    BY Zenon, <1>3 DEF SettingsInv, Threaded, Banks, Main, Calls, mt_main, nf_main, kv_main, send_mt_main,
           bank_client_main, bank_server_main
  <2>3. QED
    BY <1>3, <2>1, <2>2, <1>TablesIs DEF SettingsInv
<1>4. CASE loop <= g_thread_num /\ app \in Threaded /\ loop > 0
  <2>1. HostProg = PerThread(begin_thread + loop - 1)
    BY <1>4 DEF HostProg, SettingsInv
  <2>2. begin_thread + loop - 1 \in Tids
    BY <1>4, ThreadsAssumption DEF SettingsInv, Tids
  <2>3. PerThread(begin_thread + loop - 1) \in Seq(HostCalls)
        /\ IsPerThread(PerThread(begin_thread + loop - 1), begin_thread + loop - 1)
    BY <2>2, <1>PerThreadIs, Zenon
  <2>4. QED
    BY <1>4, <2>1, <2>2, <2>3 DEF SettingsInv
<1>5. QED
  BY <1>1, <1>2, <1>3, <1>4, ThreadsAssumption DEF SettingsInv

----------------------------------------------------------------------------
(* How the host moves *)

Makers == {"create", "init", "run", "first"}
Effect(c, mt) == IF c[1] = "field" THEN mt \cup {c[2]} ELSE IF c[1] = "clear" THEN {} ELSE mt

\* The next call of the program, with its effect on objects, matcher and tables.
HostCall ==
  /\ host # <<>> /\ host' = Tail(host) /\ loop' = loop /\ UNCHANGED fixed
  /\ made' = made \cup IF Head(host)[1] \in Makers THEN {<<What, Tid>>} ELSE {}
  /\ matcher' = Effect(Head(host), matcher)
  /\ tables' = IF Head(host)[1] = "table" THEN Append(tables, <<What, matcher>>) ELSE tables

\* A step of main is the next call of its program or a turn of the loop.
LEMMA HostMoves ==
  ASSUME HostNext
  PROVE  HostCall \/ next_thread
<1>1. CASE next_thread
  BY Zenon, <1>1
<1>2. ASSUME NEW name \in Makers, make(name)  PROVE HostCall
  BY Zenon, <1>2 DEF make, NextCall, HostCall, Effect, Makers
<1>3. CASE set_mac
  BY Zenon, <1>3 DEF set_mac, NextCall, HostCall, Effect, Makers, What
<1>4. CASE clear
  BY Zenon, <1>4 DEF clear, NextCall, HostCall, Effect, Makers
<1>5. CASE create_flow_table
  BY Zenon, <1>5 DEF create_flow_table, NextCall, HostCall, Effect, Makers
<1>6. CASE create_dr_rule
  BY Zenon, <1>6 DEF create_dr_rule, NextCall, HostCall, Effect, Makers
<1>7. ASSUME NEW name \in {"wait", "stop"}, leave(name)  PROVE HostCall
  BY Zenon, <1>7 DEF leave, NextCall, HostCall, Effect, Makers
<1>8. QED
  BY Zenon, <1>1, <1>2, <1>3, <1>4, <1>5, <1>6, <1>7 DEF HostNext, Makers

----------------------------------------------------------------------------
(* The host's own invariant *)

Single1(s) == IsSingle(s) \/ IsHostrq(s)
\* The fields of the matcher after d calls.
FieldsAt(single, d) ==
  IF single THEN (IF d \in 13..16 THEN {"dst"} ELSE IF d >= 18 THEN {"src"} ELSE {})
  ELSE IF d \in 7..8 THEN {"dst"} ELSE IF d \in 10..12 THEN {"src"} ELSE {}
HasIn(T, x, f) == \E i \in DOMAIN T : T[i] = <<x, f>>
HasTable(x, f) == HasIn(tables, x, f)

\* How many calls the listed programs have.
LEMMA Lengths ==
  ASSUME NEW s, NEW t
  PROVE  /\ Single1(s) => Len(s) = 24
         /\ IsTables(s) => Len(s) = 13
         /\ IsPerThread(s, t) => Len(s) = 14
BY Zenon DEF Single1, IsSingle, IsHostrq, IsTables, IsPerThread

\* How many calls of its program main has made.
Done == Len(HostProg) - Len(host)
\* main has made the first Done calls of its program, and what they make exists.
HostInv ==
  /\ host \in Seq(HostCalls) /\ Len(host) <= Len(HostProg)
  /\ \A i \in 1..Len(host) : host[i] = HostProg[Done + i]
  /\ \A j \in 1..Done : HostProg[j][1] \in Makers => <<HostProg[j][2], HostProg[j][3]>> \in made
  /\ (app \in Threaded /\ loop > 0) \/ loop > g_thread_num => \A g \in Global : <<g, 0>> \in made
\* The contexts of the finished turns are initialised, and no others but the current one.
ReadyInv ==
  /\ \A t \in Tids : begin_thread <= t /\ t < begin_thread + loop - 1 => Ready(t)
  /\ \A t \in Tids : Ready(t) => begin_thread <= t /\ t < begin_thread + loop
\* The matcher has the fields of the last calls, and the tables made so far are there.
FlowInv ==
  /\ loop <= g_thread_num => matcher = FieldsAt(app \notin Threaded, Done)
  /\ tables \in Seq({"rx", "tx", "tx_root"} \X SUBSET {"dst", "src"})
  /\ Done >= (IF app \in Threaded THEN 8 ELSE 14) \/ (app \in Threaded /\ loop > 0) => HasTable("rx", {"dst"})
  /\ Done >= (IF app \in Threaded THEN 11 ELSE 19) \/ (app \in Threaded /\ loop > 0) =>
       HasTable("tx_root", {"src"})
  /\ Done >= (IF app \in Threaded THEN 12 ELSE 20) \/ (app \in Threaded /\ loop > 0) => HasTable("tx", {"src"})

\* After a call main stands one place further in the same program.
LEMMA HostAdvances ==
  ASSUME SettingsInv, HostInv, HostCall
  PROVE  /\ SettingsInv' /\ HostProg' = HostProg /\ Done' = Done + 1 /\ Done \in Nat
         /\ Done + 1 <= Len(HostProg)
         /\ Head(host) = HostProg[Done + 1] /\ Head(host) \in HostCalls /\ host' \in Seq(HostCalls)
         /\ Len(host') = Len(host) - 1
         /\ \A i \in 1..Len(host') : host'[i] = HostProg[Done + 1 + i]
<1>1. SettingsInv'
  BY Zenon DEF SettingsInv, HostCall, fixed
<1>2. HostProg' = HostProg
  BY Zenon DEF HostProg, HostCall, fixed
<1>3. HostProg \in Seq(HostCalls)
  BY Zenon, HostProgIs
<1> HIDE DEF HostProg
<1>4. /\ Len(host) \in Nat /\ Len(host) > 0 /\ host' = Tail(host) /\ Len(host') = Len(host) - 1
      /\ host' \in Seq(HostCalls)
      /\ Head(host) = host[1] /\ host[1] \in HostCalls /\ \A i \in 1..Len(host') : host'[i] = host[i + 1]
  BY DEF HostInv, HostCall
<1>5. Len(HostProg) \in Nat /\ Len(HostProg)' = Len(HostProg)
  BY <1>2, <1>3
<1>6. Done \in Nat /\ Done' = Done + 1 /\ Done + 1 <= Len(HostProg)
  BY <1>4, <1>5 DEF Done, HostInv
<1>7. Head(host) = HostProg[Done + 1]
  BY <1>4 DEF HostInv
<1>8. \A i \in 1..Len(host') : host'[i] = HostProg[Done + 1 + i]
  <2>1. TAKE i \in 1..Len(host')
  <2>2. i + 1 \in 1..Len(host) /\ Done + (i + 1) = Done + 1 + i
    BY <1>4, <1>6
  <2>3. QED
    BY Zenon, <1>4, <2>2 DEF HostInv
<1>9. QED
  BY Zenon, <1>1, <1>2, <1>4, <1>6, <1>7, <1>8

\* A call keeps the matcher and the tables in step with the program.
LEMMA CallKeepsFlow ==
  ASSUME SettingsInv, HostInv, FlowInv, HostCall
  PROVE  FlowInv'
\* The fields of the matcher after each call of a single-threaded main.
<1>SingleFields. ASSUME NEW s, Single1(s), NEW d \in 0..23
                 PROVE  Effect(s[d + 1], FieldsAt(TRUE, d)) = FieldsAt(TRUE, d + 1)
  <2> USE <1>SingleFields
  <2>1. CASE d \in 0..11
    BY <2>1 DEF Single1, IsSingle, IsHostrq, Effect, FieldsAt, Create
  <2>2. CASE d \in 12..17
    <3>1. /\ s[13] = <<"field", "dst", 0>> /\ s[14] = <<"table", "rx", 0>>
          /\ s[15] = <<"field", "dst", 0>> /\ s[16] = <<"rule", "rx", 0>>
          /\ s[17] = <<"clear", "match", 0>> /\ s[18] = <<"field", "src", 0>>
      BY Zenon DEF Single1, IsSingle, IsHostrq
    <3>2. QED
      BY SMTT(20), <2>2, <3>1 DEF Effect, FieldsAt
  <2>3. CASE d \in 18..23
    <3>1. s[d + 1][1] \in {"table", "rule", "run"} \/ (s[d + 1][1] = "field" /\ s[d + 1][2] = "src")
      BY <2>3 DEF Single1, IsSingle, IsHostrq
    <3>2. FieldsAt(TRUE, d) = {"src"} /\ FieldsAt(TRUE, d + 1) = {"src"}
      BY <2>3 DEF FieldsAt
    <3>3. QED
      BY Zenon, <3>1, <3>2 DEF Effect
  <2>4. d \in 0..11 \/ d \in 12..17 \/ d \in 18..23
    OBVIOUS
  <2>5. QED
    BY <2>1, <2>2, <2>3, <2>4, Zenon
\* The fields of the matcher after each call of a multi-threaded main.
<1>ThreadedFields. ASSUME NEW s, NEW t, NEW d \in Nat,
                          (IsTables(s) /\ d <= 12) \/ (IsPerThread(s, t) /\ d <= 13)
                   PROVE  Effect(s[d + 1], FieldsAt(FALSE, d)) = FieldsAt(FALSE, d + 1)
  <2> USE <1>ThreadedFields
  <2>1. CASE IsTables(s) /\ d \in 0..5
    BY <2>1 DEF IsTables, Effect, FieldsAt, Create
  <2>2. CASE IsTables(s) /\ d \in 6..12
    BY <2>2 DEF IsTables, Effect, FieldsAt
  <2>3. CASE IsPerThread(s, t) /\ d \in 0..5
    BY <2>3 DEF IsPerThread, Effect, FieldsAt, Create
  <2>4. CASE IsPerThread(s, t) /\ d \in 6..9
    BY SMTT(30), <2>4 DEF IsPerThread, Effect, FieldsAt
  <2>5. CASE IsPerThread(s, t) /\ d \in 10..13
    BY <2>5 DEF IsPerThread, Effect, FieldsAt
  <2>6. d <= 12 => d \in 0..5 \/ d \in 6..12
    OBVIOUS
  <2>7. d <= 13 => d \in 0..5 \/ d \in 6..9 \/ d \in 10..13
    OBVIOUS
  <2>8. QED
    BY <2>1, <2>2, <2>3, <2>4, <2>5, <2>6, <2>7, Zenon
\* A table that exists keeps existing when another is created.
<1>TablesGrow. ASSUME NEW T \in Seq({"rx", "tx", "tx_root"} \X SUBSET {"dst", "src"}), NEW y, NEW g, NEW x, NEW f,
                      HasIn(T, x, f)
               PROVE  HasIn(Append(T, <<y, g>>), x, f)
  <2> USE <1>TablesGrow
  <2> DEFINE Pairs == {"rx", "tx", "tx_root"} \X SUBSET {"dst", "src"}
  <2>1. T \in Seq(Pairs)
    BY Zenon
  <2> HIDE DEF Pairs
  <2>2. PICK i \in DOMAIN T : T[i] = <<x, f>>
    BY Zenon DEF HasIn
  <2>3. i \in DOMAIN Append(T, <<y, g>>) /\ Append(T, <<y, g>>)[i] = <<x, f>>
    BY <2>1, <2>2
  <2>4. QED
    BY Zenon, <2>3 DEF HasIn
\* The table just created exists, with the fields of the matcher.
<1>TableAdded. ASSUME NEW T \in Seq({"rx", "tx", "tx_root"} \X SUBSET {"dst", "src"}), NEW x, NEW f
               PROVE  HasIn(Append(T, <<x, f>>), x, f)
  <2> USE <1>TableAdded
  <2> DEFINE Pairs == {"rx", "tx", "tx_root"} \X SUBSET {"dst", "src"}
  <2>1. T \in Seq(Pairs)
    BY Zenon
  <2> HIDE DEF Pairs
  <2>2. Len(T) + 1 \in DOMAIN Append(T, <<x, f>>) /\ Append(T, <<x, f>>)[Len(T) + 1] = <<x, f>>
    BY <2>1
  <2>3. QED
    BY Zenon, <2>2 DEF HasIn
\* Where the programs of the host make their tables.
<1>TableCalls. ASSUME SettingsInv, NEW d \in Nat, d < Len(HostProg), HostProg[d + 1][1] = "table"
               PROVE  /\ loop <= g_thread_num
                      /\ app \notin Threaded => <<d, HostProg[d + 1][2]>> \in {<<13, "rx">>, <<18, "tx_root">>, <<19, "tx">>}
                      /\ app \in Threaded => <<d, HostProg[d + 1][2]>> \in {<<7, "rx">>, <<10, "tx_root">>, <<11, "tx">>}
  <2> USE <1>TableCalls
  <2>1. CASE loop > g_thread_num
    <3>1. After(HostProg) /\ HostProg \in Seq(HostCalls)
      BY Zenon, <2>1, HostProgIs
    <3> HIDE DEF HostProg
    <3>2. d + 1 = 1 \/ d + 1 = 2 \/ d + 1 = 3
      BY <3>1 DEF After
    <3>3. QED
      BY <3>1, <3>2 DEF After
  <2>2. CASE loop <= g_thread_num /\ app \notin Threaded
    <3>1. Single1(HostProg)
      BY Zenon, <2>2, HostProgIs DEF Single1
    <3>2. Len(HostProg) = 24
      BY <3>1, Lengths, Zenon
    <3> HIDE DEF HostProg
    <3>3. /\ HostProg[1][1] # "table" /\ HostProg[2][1] # "table" /\ HostProg[3][1] # "table" /\ HostProg[4][1] # "table" /\ HostProg[5][1] # "table"
          /\ HostProg[6][1] # "table" /\ HostProg[7][1] # "table" /\ HostProg[8][1] # "table" /\ HostProg[9][1] # "table" /\ HostProg[10][1] # "table"
          /\ HostProg[11][1] # "table" /\ HostProg[12][1] # "table" /\ HostProg[13][1] # "table" /\ HostProg[15][1] # "table" /\ HostProg[16][1] # "table"
          /\ HostProg[17][1] # "table" /\ HostProg[18][1] # "table" /\ HostProg[21][1] # "table" /\ HostProg[22][1] # "table" /\ HostProg[23][1] # "table"
          /\ HostProg[24][1] # "table"
          /\ HostProg[14][2] = "rx" /\ HostProg[19][2] = "tx_root" /\ HostProg[20][2] = "tx"
      <4>1. CASE IsSingle(HostProg)
        BY <4>1 DEF IsSingle, Create
      <4>2. CASE IsHostrq(HostProg)
        BY <4>2 DEF IsHostrq, Create
      <4>3. QED
        BY Zenon, <3>1, <4>1, <4>2 DEF Single1
    <3>4. d + 1 = 1 \/ d + 1 = 2 \/ d + 1 = 3 \/ d + 1 = 4 \/ d + 1 = 5 \/ d + 1 = 6 \/ d + 1 = 7 \/
          d + 1 = 8 \/ d + 1 = 9 \/ d + 1 = 10 \/ d + 1 = 11 \/ d + 1 = 12 \/ d + 1 = 13 \/ d + 1 =
          14 \/ d + 1 = 15 \/ d + 1 = 16 \/ d + 1 = 17 \/ d + 1 = 18 \/ d + 1 = 19 \/ d + 1 = 20 \/
          d + 1 = 21 \/ d + 1 = 22 \/ d + 1 = 23 \/ d + 1 = 24
      BY <3>2
    <3>5. d = 13 \/ d = 18 \/ d = 19
      <4>1. \A j : HostProg[j][1] = "table" /\ j = d + 1 => j = 14 \/ j = 19 \/ j = 20
        BY <3>3, <3>4, ZenonT(30)
      <4>2. QED
        BY <4>1
    <3>6. QED
      BY SMTT(30), <2>2, <3>3, <3>5
  <2>3. CASE loop <= g_thread_num /\ app \in Threaded /\ loop = 0
    <3>1. IsTables(HostProg)
      BY Zenon, <2>3, HostProgIs DEF Single1
    <3>2. Len(HostProg) = 13
      BY <3>1, Lengths, Zenon
    <3> HIDE DEF HostProg
    <3>3. /\ HostProg[1][1] # "table" /\ HostProg[2][1] # "table" /\ HostProg[3][1] # "table" /\ HostProg[4][1] # "table" /\ HostProg[5][1] # "table"
          /\ HostProg[6][1] # "table" /\ HostProg[7][1] # "table" /\ HostProg[9][1] # "table" /\ HostProg[10][1] # "table" /\ HostProg[13][1] # "table"
          /\ HostProg[8][2] = "rx" /\ HostProg[11][2] = "tx_root" /\ HostProg[12][2] = "tx"
      BY <3>1 DEF IsTables, Create
    <3>4. d + 1 = 1 \/ d + 1 = 2 \/ d + 1 = 3 \/ d + 1 = 4 \/ d + 1 = 5 \/ d + 1 = 6 \/ d + 1 = 7 \/
          d + 1 = 8 \/ d + 1 = 9 \/ d + 1 = 10 \/ d + 1 = 11 \/ d + 1 = 12 \/ d + 1 = 13
      BY <3>2
    <3>5. d = 7 \/ d = 10 \/ d = 11
      <4>1. \A j : HostProg[j][1] = "table" /\ j = d + 1 => j = 8 \/ j = 11 \/ j = 12
        BY <3>3, <3>4, Zenon
      <4>2. QED
        BY <4>1
    <3>6. QED
      BY <2>3, <3>3, <3>5
  <2>4. CASE loop <= g_thread_num /\ app \in Threaded /\ loop > 0
    <3>1. IsPerThread(HostProg, begin_thread + loop - 1)
      BY Zenon, <2>4, HostProgIs DEF Single1
    <3>2. Len(HostProg) = 14
      BY <3>1, Lengths, Zenon
    <3> HIDE DEF HostProg
    <3>3. /\ HostProg[1][1] # "table" /\ HostProg[2][1] # "table" /\ HostProg[3][1] # "table" /\ HostProg[4][1] # "table" /\ HostProg[5][1] # "table"
          /\ HostProg[6][1] # "table" /\ HostProg[7][1] # "table" /\ HostProg[8][1] # "table" /\ HostProg[9][1] # "table" /\ HostProg[10][1] # "table"
          /\ HostProg[11][1] # "table" /\ HostProg[12][1] # "table" /\ HostProg[13][1] # "table" /\ HostProg[14][1] # "table"
      BY <3>1 DEF IsPerThread, Create
    <3>4. d + 1 = 1 \/ d + 1 = 2 \/ d + 1 = 3 \/ d + 1 = 4 \/ d + 1 = 5 \/ d + 1 = 6 \/ d + 1 = 7 \/
          d + 1 = 8 \/ d + 1 = 9 \/ d + 1 = 10 \/ d + 1 = 11 \/ d + 1 = 12 \/ d + 1 = 13 \/ d + 1 =
          14
      BY <3>2
    <3>5. QED
      BY Zenon, <2>4, <3>3, <3>4 DEF SettingsInv
  <2>5. QED
    BY <2>1, <2>2, <2>3, <2>4 DEF SettingsInv
<1>1. /\ Done' = Done + 1 /\ Done \in Nat /\ Done + 1 <= Len(HostProg) /\ HostProg \in Seq(HostCalls)
      /\ Head(host) = HostProg[Done + 1] /\ Head(host) \in HostCalls
  BY Zenon, HostAdvances, HostProgIs
<1>2. app' = app /\ loop' = loop /\ g_thread_num' = g_thread_num
  BY Zenon DEF HostCall, fixed
<1> DEFINE c == Head(host)
<1>3. ASSUME loop <= g_thread_num
      PROVE  matcher' = FieldsAt(app' \notin Threaded, Done')
  <2>1. matcher' = Effect(HostProg[Done + 1], FieldsAt(app \notin Threaded, Done))
    BY Zenon, <1>1, <1>3 DEF HostCall, FlowInv
  <2>2. CASE app \notin Threaded
    <3>1. Single1(HostProg)
      BY Zenon, <1>3, <2>2, HostProgIs DEF Single1
    <3>2. Done \in 0..23
      <4>1. Len(HostProg) = 24
        BY <3>1, Lengths, Zenon
      <4>2. QED
        BY <1>1, <4>1
    <3>3. Effect(HostProg[Done + 1], FieldsAt(TRUE, Done)) = FieldsAt(TRUE, Done + 1)
      BY <3>1, <3>2, <1>SingleFields, Zenon
    <3>4. (app \notin Threaded) = TRUE /\ (app' \notin Threaded) = TRUE
      BY Zenon, <1>2, <2>2
    <3>5. QED
      BY Zenon, <1>1, <2>1, <3>3, <3>4
  <2>3. CASE app \in Threaded
    <3>1. IsTables(HostProg) \/ IsPerThread(HostProg, begin_thread + loop - 1)
      BY <1>3, <2>3, HostProgIs DEF SettingsInv
    <3>2. (IsTables(HostProg) /\ Done <= 12) \/ (IsPerThread(HostProg, begin_thread + loop - 1) /\ Done <= 13)
      <4>1. /\ IsTables(HostProg) => Len(HostProg) = 13
            /\ IsPerThread(HostProg, begin_thread + loop - 1) => Len(HostProg) = 14
        BY Lengths, Zenon
      <4>2. QED
        BY <1>1, <3>1, <4>1
    <3>3. Effect(HostProg[Done + 1], FieldsAt(FALSE, Done)) = FieldsAt(FALSE, Done + 1)
      BY <1>1, <3>2, <1>ThreadedFields, Zenon
    <3>4. (app \notin Threaded) = FALSE /\ (app' \notin Threaded) = FALSE
      BY Zenon, <1>2, <2>3
    <3>5. QED
      BY Zenon, <1>1, <2>1, <3>3, <3>4
  <2>4. QED
    BY Zenon, <2>2, <2>3
<1>4. ASSUME c[1] = "table"
      PROVE  /\ loop <= g_thread_num /\ Done < Len(HostProg)
             /\ app \notin Threaded => <<Done, c[2]>> \in {<<13, "rx">>, <<18, "tx_root">>, <<19, "tx">>}
             /\ app \in Threaded => <<Done, c[2]>> \in {<<7, "rx">>, <<10, "tx_root">>, <<11, "tx">>}
  <2>1. Done < Len(HostProg) /\ HostProg[Done + 1][1] = "table" /\ HostProg[Done + 1][2] = c[2]
    BY <1>1, <1>4
  <2>2. QED
    BY Zenon, <1>1, <2>1, <1>TableCalls
<1>5. tables' = Append(tables, <<c[2], matcher>>) \/ tables' = tables
  BY Zenon DEF HostCall, What
<1>6. c[1] = "table" => matcher \in {{"dst"}, {"src"}}
  BY <1>1, <1>4 DEF FlowInv, FieldsAt
<1>7. tables' \in Seq({"rx", "tx", "tx_root"} \X SUBSET {"dst", "src"})
  <2>1. c[1] = "table" => <<c[2], matcher>> \in {"rx", "tx", "tx_root"} \X SUBSET {"dst", "src"}
    BY Zenon, <1>4, <1>6
  <2> DEFINE Pairs == {"rx", "tx", "tx_root"} \X SUBSET {"dst", "src"}
  <2>2. tables \in Seq(Pairs) /\ (c[1] = "table" => <<c[2], matcher>> \in Pairs)
    BY Zenon, <2>1 DEF FlowInv
  <2> HIDE DEF Pairs
  <2>3. tables' \in Seq(Pairs)
    BY <2>2 DEF HostCall, What
  <2>4. QED
    BY Zenon, <2>3 DEF Pairs
<1>8. \A x, f : HasIn(tables, x, f) => HasIn(tables', x, f)
  BY <1>5, <1>TablesGrow, Zenon DEF FlowInv
<1>9. c[1] = "table" => HasIn(tables', c[2], matcher)
  <2>1. c[1] = "table" => tables' = Append(tables, <<c[2], matcher>>)
    BY Zenon DEF HostCall, What
  <2>2. HasIn(Append(tables, <<c[2], matcher>>), c[2], matcher)
    BY <1>TableAdded, Zenon DEF FlowInv
  <2>3. QED
    BY Zenon, <2>1, <2>2
<1>10. ASSUME loop <= g_thread_num, app \notin Threaded
       PROVE  /\ Done + 1 = 14 => c[1] = "table" /\ c[2] = "rx" /\ matcher = {"dst"}
              /\ Done + 1 = 19 => c[1] = "table" /\ c[2] = "tx_root" /\ matcher = {"src"}
              /\ Done + 1 = 20 => c[1] = "table" /\ c[2] = "tx" /\ matcher = {"src"}
  <2>1. Single1(HostProg)
    BY Zenon, <1>10, HostProgIs DEF Single1
  <2>2. /\ HostProg[14] = <<"table", "rx", 0>> /\ HostProg[19] = <<"table", "tx_root", 0>>
        /\ HostProg[20] = <<"table", "tx", 0>>
    BY <2>1, Zenon DEF Single1, IsSingle, IsHostrq
  <2>3. /\ Done = 13 => matcher = {"dst"}
        /\ Done = 18 \/ Done = 19 => matcher = {"src"}
    BY <1>10 DEF FlowInv, FieldsAt
  <2>4. QED
    BY SMTT(20), <1>1, <2>2, <2>3
<1>11. ASSUME app \in Threaded, loop = 0
       PROVE  /\ Done + 1 = 8 => c[1] = "table" /\ c[2] = "rx" /\ matcher = {"dst"}
              /\ Done + 1 = 11 => c[1] = "table" /\ c[2] = "tx_root" /\ matcher = {"src"}
              /\ Done + 1 = 12 => c[1] = "table" /\ c[2] = "tx" /\ matcher = {"src"}
  <2>1. IsTables(HostProg) /\ loop <= g_thread_num
    BY <1>11, HostProgIs DEF SettingsInv
  <2>2. /\ HostProg[8] = <<"table", "rx", 0>> /\ HostProg[11] = <<"table", "tx_root", 0>>
        /\ HostProg[12] = <<"table", "tx", 0>>
    BY <2>1, Zenon DEF IsTables
  <2>3. /\ Done = 7 => matcher = {"dst"}
        /\ Done = 10 \/ Done = 11 => matcher = {"src"}
    BY <1>11, <2>1 DEF FlowInv, FieldsAt
  <2>4. QED
    BY <1>1, <2>2, <2>3
<1>12. loop > g_thread_num => Done + 1 <= 3
  <2>1. loop > g_thread_num => After(HostProg)
    BY Zenon, HostProgIs
  <2>2. QED
    BY <1>1, <2>1 DEF After
<1> HIDE DEF c
<1>14. (Done >= (IF app \in Threaded THEN 8 ELSE 14) \/ (app \in Threaded /\ loop > 0)
          => HasTable("rx", {"dst"}))'
  <2>1. /\ HasIn(tables, "rx", {"dst"}) => HasIn(tables', "rx", {"dst"})
        /\ c[1] = "table" /\ c[2] = "rx" /\ matcher = {"dst"} => HasIn(tables', "rx", {"dst"})
    BY <1>8, <1>9, Zenon
  <2>2. Done >= (IF app \in Threaded THEN 8 ELSE 14) \/ (app \in Threaded /\ loop > 0)
          => HasIn(tables, "rx", {"dst"})
    BY Zenon DEF FlowInv, HasTable
  <2>3. CASE app \in Threaded /\ loop > 0
    BY Zenon, <2>1, <2>2, <2>3 DEF HasTable
  <2>4. CASE app \in Threaded /\ loop = 0
    BY <1>1, <1>2, <1>11, <2>1, <2>2, <2>4 DEF HasTable
  <2>5. CASE app \notin Threaded
    BY <1>1, <1>2, <1>10, <1>12, <2>1, <2>2, <2>5 DEF HasTable, SettingsInv
  <2>6. QED
    BY <2>3, <2>4, <2>5 DEF SettingsInv
<1>15. (Done >= (IF app \in Threaded THEN 11 ELSE 19) \/ (app \in Threaded /\ loop > 0)
          => HasTable("tx_root", {"src"}))'
  <2>1. /\ HasIn(tables, "tx_root", {"src"}) => HasIn(tables', "tx_root", {"src"})
        /\ c[1] = "table" /\ c[2] = "tx_root" /\ matcher = {"src"} => HasIn(tables', "tx_root", {"src"})
    BY <1>8, <1>9, Zenon
  <2>2. Done >= (IF app \in Threaded THEN 11 ELSE 19) \/ (app \in Threaded /\ loop > 0)
          => HasIn(tables, "tx_root", {"src"})
    BY Zenon DEF FlowInv, HasTable
  <2>3. CASE app \in Threaded /\ loop > 0
    BY Zenon, <2>1, <2>2, <2>3 DEF HasTable
  <2>4. CASE app \in Threaded /\ loop = 0
    BY <1>1, <1>2, <1>11, <2>1, <2>2, <2>4 DEF HasTable
  <2>5. CASE app \notin Threaded
    BY <1>1, <1>2, <1>10, <1>12, <2>1, <2>2, <2>5 DEF HasTable, SettingsInv
  <2>6. QED
    BY <2>3, <2>4, <2>5 DEF SettingsInv
<1>16. (Done >= (IF app \in Threaded THEN 12 ELSE 20) \/ (app \in Threaded /\ loop > 0)
          => HasTable("tx", {"src"}))'
  <2>1. /\ HasIn(tables, "tx", {"src"}) => HasIn(tables', "tx", {"src"})
        /\ c[1] = "table" /\ c[2] = "tx" /\ matcher = {"src"} => HasIn(tables', "tx", {"src"})
    BY <1>8, <1>9, Zenon
  <2>2. Done >= (IF app \in Threaded THEN 12 ELSE 20) \/ (app \in Threaded /\ loop > 0)
          => HasIn(tables, "tx", {"src"})
    BY Zenon DEF FlowInv, HasTable
  <2>3. CASE app \in Threaded /\ loop > 0
    BY Zenon, <2>1, <2>2, <2>3 DEF HasTable
  <2>4. CASE app \in Threaded /\ loop = 0
    BY <1>1, <1>2, <1>11, <2>1, <2>2, <2>4 DEF HasTable
  <2>5. CASE app \notin Threaded
    BY <1>1, <1>2, <1>10, <1>12, <2>1, <2>2, <2>5 DEF HasTable, SettingsInv
  <2>6. QED
    BY <2>3, <2>4, <2>5 DEF SettingsInv
<1>17. QED
  BY Zenon, <1>2, <1>3, <1>7, <1>14, <1>15, <1>16 DEF FlowInv

\* A call that neither initialises a context nor sends first packets; only a run is called so.
Odd(c) == c[1] # "first" /\ c[1] # "init" /\ c[2] # "init" /\ (c[1] = "run" <=> c[2] = "run")

\* Where the programs of the host initialise a context and call the first-packet RPC.
LEMMA InitCalls ==
  ASSUME SettingsInv, NEW d \in Nat, d < Len(HostProg)
  PROVE  /\ HostProg[d + 1][1] = "first" => app \in Callers /\ loop > g_thread_num
         /\ HostProg[d + 1][1] = "run" <=> HostProg[d + 1][2] = "run"
         /\ HostProg[d + 1][1] = "init" \/ HostProg[d + 1][2] = "init" =>
              /\ HostProg[d + 1][1] = "init" /\ HostProg[d + 1][2] = "init"
              /\ HostProg[d + 1][3] = begin_thread + loop - 1
              /\ loop > 0 /\ loop <= g_thread_num
<1>1. CASE loop > g_thread_num
  <2>1. After(HostProg) /\ HostProg \in Seq(HostCalls)
    BY Zenon, <1>1, HostProgIs
  <2> HIDE DEF HostProg
  <2>2. Len(HostProg) \in 1..3
    BY Zenon, <2>1 DEF After
  <2>4. d + 1 = 1 \/ d + 1 = 2 \/ d + 1 = 3
    <3>1. \A n \in 1..3 : d < n => d + 1 = 1 \/ d + 1 = 2 \/ d + 1 = 3
      OBVIOUS
    <3>2. QED
      BY Zenon, <2>2, <3>1
  <2>3. QED
    <3>1. /\ HostProg[d + 1][1] # "init" /\ HostProg[d + 1][2] # "init" /\ (HostProg[d + 1][1] = "first" => app \in Callers)
          /\ HostProg[d + 1][1] # "run" /\ HostProg[d + 1][2] # "run"
      BY <2>1, <2>2, <2>4 DEF After
    <3>2. QED
      BY Zenon, <1>1, <3>1
<1>2. CASE loop <= g_thread_num /\ app \notin Threaded
  <2>1. Single1(HostProg)
    BY Zenon, <1>2, HostProgIs DEF Single1
  <2>2. Len(HostProg) = 24
    BY <2>1, Lengths, Zenon
  <2> HIDE DEF HostProg
  <2>3. /\ Odd(HostProg[1]) /\ Odd(HostProg[2]) /\ Odd(HostProg[3]) /\ Odd(HostProg[4]) /\ Odd(HostProg[5]) /\ Odd(HostProg[6])
        /\ Odd(HostProg[7]) /\ Odd(HostProg[8]) /\ Odd(HostProg[9]) /\ Odd(HostProg[10]) /\ Odd(HostProg[11])
        /\ Odd(HostProg[13]) /\ Odd(HostProg[14]) /\ Odd(HostProg[15]) /\ Odd(HostProg[16]) /\ Odd(HostProg[17]) /\ Odd(HostProg[18])
        /\ Odd(HostProg[19]) /\ Odd(HostProg[20]) /\ Odd(HostProg[21]) /\ Odd(HostProg[22]) /\ Odd(HostProg[23]) /\ Odd(HostProg[24])
    <3>1. CASE IsSingle(HostProg)
      BY <3>1 DEF IsSingle, Create, Odd
    <3>2. CASE IsHostrq(HostProg)
      BY <3>2 DEF IsHostrq, Create, Odd
    <3>3. QED
      BY Zenon, <2>1, <3>1, <3>2 DEF Single1
  <2>4. \A j \in 1..24 : j = 1 \/ j = 2 \/ j = 3 \/ j = 4 \/ j = 5 \/ j = 6 \/ j = 7 \/ j = 8 \/ j = 9 \/ j =
              10 \/ j = 11 \/ j = 12 \/ j = 13 \/ j = 14 \/ j = 15 \/ j = 16 \/ j = 17 \/ j = 18 \/
              j = 19 \/ j = 20 \/ j = 21 \/ j = 22 \/ j = 23 \/ j = 24
    OBVIOUS
  <2>5. \A j \in 1..24 : j # 12 => Odd(HostProg[j])
    BY <2>3, <2>4, Zenon
  <2>6. d + 1 \in 1..24
    BY <2>2
  <2>7. HostProg[12] = <<"init", "init", 0>>
    BY <2>1, Zenon DEF Single1, IsSingle, IsHostrq
  <2>8. CASE d + 1 = 12
    BY <1>2, <2>7, <2>8 DEF SettingsInv
  <2>9. QED
    BY Zenon, <2>5, <2>6, <2>8 DEF Odd
<1>3. CASE loop <= g_thread_num /\ app \in Threaded /\ loop = 0
  <2>1. IsTables(HostProg)
    BY Zenon, <1>3, HostProgIs DEF Single1
  <2>2. Len(HostProg) = 13
    BY <2>1, Lengths, Zenon
  <2> HIDE DEF HostProg
  <2>3. /\ Odd(HostProg[1]) /\ Odd(HostProg[2]) /\ Odd(HostProg[3]) /\ Odd(HostProg[4]) /\ Odd(HostProg[5]) /\ Odd(HostProg[6])
        /\ Odd(HostProg[7]) /\ Odd(HostProg[8]) /\ Odd(HostProg[9]) /\ Odd(HostProg[10]) /\ Odd(HostProg[11]) /\ Odd(HostProg[12])
        /\ Odd(HostProg[13])
    BY <2>1 DEF IsTables, Create, Odd
  <2>4. \A j \in 1..13 : j = 1 \/ j = 2 \/ j = 3 \/ j = 4 \/ j = 5 \/ j = 6 \/ j = 7 \/ j = 8 \/ j = 9 \/ j =
              10 \/ j = 11 \/ j = 12 \/ j = 13
    OBVIOUS
  <2>5. \A j \in 1..13 : Odd(HostProg[j])
    BY <2>3, <2>4, Zenon
  <2>6. d + 1 \in 1..13
    BY <2>2
  <2>7. QED
    BY Zenon, <2>5, <2>6 DEF Odd
<1>4. CASE loop <= g_thread_num /\ app \in Threaded /\ loop > 0
  <2>1. IsPerThread(HostProg, begin_thread + loop - 1)
    BY Zenon, <1>4, HostProgIs DEF Single1
  <2>2. Len(HostProg) = 14
    BY <2>1, Lengths, Zenon
  <2> HIDE DEF HostProg
  <2>3. /\ Odd(HostProg[1]) /\ Odd(HostProg[2]) /\ Odd(HostProg[3]) /\ Odd(HostProg[4]) /\ Odd(HostProg[5])
        /\ Odd(HostProg[7]) /\ Odd(HostProg[8]) /\ Odd(HostProg[9]) /\ Odd(HostProg[10]) /\ Odd(HostProg[11]) /\ Odd(HostProg[12])
        /\ Odd(HostProg[13]) /\ Odd(HostProg[14])
    BY <2>1 DEF IsPerThread, Create, Odd
  <2>4. \A j \in 1..14 : j = 1 \/ j = 2 \/ j = 3 \/ j = 4 \/ j = 5 \/ j = 6 \/ j = 7 \/ j = 8 \/ j = 9 \/ j =
              10 \/ j = 11 \/ j = 12 \/ j = 13 \/ j = 14
    OBVIOUS
  <2>5. \A j \in 1..14 : j # 6 => Odd(HostProg[j])
    BY <2>3, <2>4, Zenon
  <2>6. d + 1 \in 1..14
    BY <2>2
  <2>7. HostProg[6] = <<"init", "init", begin_thread + loop - 1>>
    BY <2>1, Zenon DEF IsPerThread
  <2>8. CASE d + 1 = 6
    BY <1>4, <2>7, <2>8 DEF SettingsInv
  <2>9. QED
    BY Zenon, <2>5, <2>6, <2>8 DEF Odd
<1>5. QED
  BY <1>1, <1>2, <1>3, <1>4 DEF SettingsInv

\* A call keeps what exists, and which contexts are ready, in step with the program.
LEMMA CallKeepsHost ==
  ASSUME SettingsInv, HostInv, ReadyInv, HostCall
  PROVE  HostInv' /\ ReadyInv'
<1>1. /\ Done' = Done + 1 /\ Done \in Nat /\ Done + 1 <= Len(HostProg) /\ HostProg' = HostProg
      /\ Head(host) = HostProg[Done + 1] /\ host' \in Seq(HostCalls) /\ Len(host') = Len(host) - 1
      /\ \A i \in 1..Len(host') : host'[i] = HostProg[Done + 1 + i]
  BY Zenon, HostAdvances
<1>2. /\ app' = app /\ loop' = loop /\ g_thread_num' = g_thread_num /\ begin_thread' = begin_thread
      /\ made \subseteq made'
  BY Zenon DEF HostCall, fixed
<1> DEFINE c == HostProg[Done + 1]
<1> HIDE DEF HostProg
<1>3. /\ c[1] \in Makers => made' = made \cup {<<c[2], c[3]>>}
      /\ c[1] \notin Makers => made' = made
  BY Zenon, <1>1 DEF HostCall, What, Tid, Makers
<1>4. Done < Len(HostProg)
  BY <1>1, HostProgIs
<1>5. /\ c[1] = "first" => app \in Callers /\ loop > g_thread_num
      /\ c[1] = "init" \/ c[2] = "init" =>
           /\ c[1] = "init" /\ c[2] = "init" /\ c[3] = begin_thread + loop - 1
           /\ loop > 0 /\ loop <= g_thread_num
  BY <1>1, <1>4, InitCalls, Zenon
<1>6. HostInv'
  <2>1. (\A j \in 1..Done : HostProg[j][1] \in Makers => <<HostProg[j][2], HostProg[j][3]>> \in made)'
    <3>1. ASSUME NEW j \in 1..(Done + 1), HostProg[j][1] \in Makers
          PROVE  <<HostProg[j][2], HostProg[j][3]>> \in made'
      <4>1. CASE j = Done + 1
        BY Zenon, <1>3, <3>1, <4>1
      <4>2. CASE j # Done + 1
        <5>1. j \in 1..Done
          BY <1>1, <4>2
        <5>2. QED
          BY Zenon, <1>2, <3>1, <5>1 DEF HostInv
      <4>3. QED
        BY Zenon, <4>1, <4>2
    <3>2. QED
      BY Zenon, <1>1, <3>1
  <2>2. (\A i \in 1..Len(host) : host[i] = HostProg[Done + i])'
    BY Zenon, <1>1
  <2>3. (Len(host) <= Len(HostProg))'
    BY <1>1, HostProgIs DEF HostInv
  <2>4. QED
    BY Zenon, <1>1, <1>2, <2>1, <2>2, <2>3 DEF HostInv
<1>7. ASSUME NEW t \in Tids, <<"init", t>> \in made', <<"init", t>> \notin made
      PROVE  c[1] = "init" /\ t = begin_thread + loop - 1 /\ loop > 0
  <2>1. c[1] \in Makers /\ <<"init", t>> = <<c[2], c[3]>>
    BY Zenon, <1>3, <1>7
  <2>2. QED
    BY Zenon, <1>5, <2>1
<1>8. ReadyInv'
  <2>1. (\A t \in Tids : begin_thread <= t /\ t < begin_thread + loop - 1 => Ready(t))'
    BY Zenon, <1>2 DEF ReadyInv, Ready
  <2>2. (\A t \in Tids : Ready(t) => begin_thread <= t /\ t < begin_thread + loop)'
    <3>1. ASSUME NEW t \in Tids, <<"init", t>> \in made'
          PROVE  begin_thread <= t /\ t < begin_thread + loop
      <4>1. CASE <<"init", t>> \in made
        BY Zenon, <4>1 DEF ReadyInv, Ready
      <4>2. CASE <<"init", t>> \notin made
        BY <1>7, <3>1, <4>2 DEF SettingsInv, Tids
      <4>3. QED
        BY Zenon, <4>1, <4>2
    <3>2. QED
      BY Zenon, <1>2, <3>1 DEF Ready
  <2>5. QED
    BY Zenon, <2>1, <2>2 DEF ReadyInv
<1>9. QED
  BY Zenon, <1>6, <1>8

\* The program main is in is a sequence of calls.
LEMMA HostProgSeq == SettingsInv => HostProg \in Seq(HostCalls)
BY Zenon, HostProgIs

\* A turn of the loop, or leaving it, finds the finished program complete.
LEMMA TurnKeeps ==
  ASSUME SettingsInv, HostInv, ReadyInv, FlowInv, next_thread
  PROVE  SettingsInv' /\ HostInv' /\ ReadyInv' /\ FlowInv'
\* When a program of the host is done: what it has made.
<1>ProgramDone. ASSUME SettingsInv, HostInv, host = <<>>, loop <= g_thread_num
                PROVE  /\ \A g \in Global : <<g, 0>> \in made
                       /\ loop > 0 => <<"init", begin_thread + loop - 1>> \in made
                       /\ Done = (IF app \notin Threaded THEN 24 ELSE IF loop = 0 THEN 13 ELSE 14)
  <2> USE <1>ProgramDone
  <2>1. HostProg \in Seq(HostCalls)
    BY Zenon, HostProgIs
  <2>2. Done = Len(HostProg) /\ Len(host) = 0
    BY <2>1 DEF Done
  <2>3. \A j \in 1..Len(HostProg) : HostProg[j][1] \in Makers => <<HostProg[j][2], HostProg[j][3]>> \in made
    BY Zenon, <2>2 DEF HostInv
  <2>8. "create" \in Makers /\ "init" \in Makers
    BY Zenon DEF Makers
  <2>4. CASE app \notin Threaded
    <3>1. Single1(HostProg) /\ begin_thread + loop - 1 = 0
      BY <2>4, HostProgIs DEF Single1, SettingsInv
    <3>2. Len(HostProg) = 24
      BY <3>1, Lengths, Zenon
    <3>3. 1 \in 1..24 /\ 2 \in 1..24 /\ 3 \in 1..24 /\ 4 \in 1..24 /\ 5 \in 1..24 /\ 6 \in 1..24 /\ 12 \in 1..24
      OBVIOUS
    <3>4. HostProg[12][1] = "init" /\ HostProg[12][2] = "init" /\ HostProg[12][3] = 0
      <4>1. HostProg[12] = <<"init", "init", 0>>
        BY Zenon, <3>1 DEF Single1, IsSingle, IsHostrq
      <4> QED  BY <4>1
    <3>8. /\ HostProg[1][1] = "create" /\ HostProg[2][1] = "create" /\ HostProg[3][1] = "create"
          /\ HostProg[4][1] = "create" /\ HostProg[5][1] = "create" /\ HostProg[6][1] = "create"
          /\ HostProg[1][3] = 0 /\ HostProg[2][3] = 0 /\ HostProg[3][3] = 0
          /\ HostProg[4][3] = 0 /\ HostProg[5][3] = 0 /\ HostProg[6][3] = 0
      <4>1. /\ HostProg[1] = Create("ctx", 0) /\ HostProg[2] = Create("pd", 0) /\ HostProg[3] = Create("process", 0)
            /\ HostProg[4] = Create("window", 0) \/ HostProg[4] = Create("uar", 0)
            /\ HostProg[5] = Create("uar", 0) \/ HostProg[5] = Create("stream", 0)
            /\ HostProg[6] = Create("stream", 0) \/ HostProg[6] = Create("window", 0)
        BY Zenon, <3>1 DEF Single1, IsSingle, IsHostrq
      <4>2. \A x : Create(x, 0)[1] = "create" /\ Create(x, 0)[3] = 0
        BY DEF Create
      <4> QED  BY Zenon, <4>1, <4>2
    <3>9. \A g \in Global : \E j \in 1..6 : HostProg[j][2] = g
      <4>1. CASE IsSingle(HostProg)
        <5>1. /\ HostProg[1][2] = "ctx" /\ HostProg[2][2] = "pd" /\ HostProg[3][2] = "process"
              /\ HostProg[4][2] = "window" /\ HostProg[5][2] = "uar" /\ HostProg[6][2] = "stream"
          BY <4>1 DEF IsSingle, Create
        <5>2. QED
          BY <5>1 DEF Global
      <4>2. CASE IsHostrq(HostProg)
        <5>1. /\ HostProg[1][2] = "ctx" /\ HostProg[2][2] = "pd" /\ HostProg[3][2] = "process"
              /\ HostProg[4][2] = "uar" /\ HostProg[5][2] = "stream" /\ HostProg[6][2] = "window"
          BY <4>2 DEF IsHostrq, Create
        <5>2. QED
          BY <5>1 DEF Global
      <4>3. QED
        BY Zenon, <3>1, <4>1, <4>2 DEF Single1
    <3>10. \A j \in 1..6 : <<HostProg[j][2], 0>> \in made
      <4>1. \A j \in 1..6 : j \in 1..24 /\ HostProg[j][1] = "create" /\ HostProg[j][3] = 0
        BY <3>8
      <4>2. QED
        BY <2>3, <2>8, <3>2, <4>1, Zenon
    <3>5. \A g \in Global : <<g, 0>> \in made
      BY <3>9, <3>10, Zenon
    <3>6. <<"init", 0>> \in made
      BY <2>3, <2>8, <3>2, <3>3, <3>4, Zenon
    <3>7. QED
      BY Zenon, <2>2, <2>4, <3>1, <3>2, <3>5, <3>6
  <2>5. CASE app \in Threaded /\ loop = 0
    <3>1. IsTables(HostProg)
      BY Zenon, <2>5, HostProgIs
    <3>2. Len(HostProg) = 13
      BY <3>1, Lengths, Zenon
    <3>3. 1 \in 1..13 /\ 2 \in 1..13 /\ 3 \in 1..13 /\ 4 \in 1..13 /\ 5 \in 1..13 /\ 6 \in 1..13
      OBVIOUS
    <3>4. \A g \in Global : \E j \in 1..13 : HostProg[j][1] = "create" /\ HostProg[j][2] = g /\ HostProg[j][3] = 0
      BY <3>1, <3>3 DEF IsTables, Create, Global
    <3>5. \A g \in Global : <<g, 0>> \in made
      BY <2>3, <2>8, <3>2, <3>4, ZenonT(30)
    <3>6. QED
      BY <2>2, <2>5, <3>2, <3>5
  <2>6. CASE app \in Threaded /\ loop > 0
    <3>1. IsPerThread(HostProg, begin_thread + loop - 1)
      BY Zenon, <2>6, HostProgIs
    <3>2. Len(HostProg) = 14
      BY <3>1, Lengths, Zenon
    <3>3. /\ HostProg[6][1] = "init" /\ HostProg[6][2] = "init" /\ HostProg[6][3] = begin_thread + loop - 1
          /\ 6 \in 1..14
      BY <3>1 DEF IsPerThread
    <3>4. <<"init", begin_thread + loop - 1>> \in made
      BY <2>3, <2>8, <3>2, <3>3, Zenon
    <3>5. \A g \in Global : <<g, 0>> \in made
      BY Zenon, <2>6 DEF HostInv
    <3>6. QED
      BY <2>2, <2>6, <3>2, <3>4, <3>5
  <2>7. QED
    BY <2>4, <2>5, <2>6 DEF SettingsInv
<1>1. /\ app' = app /\ place' = place /\ begin_thread' = begin_thread /\ g_thread_num' = g_thread_num
      /\ loop' = loop + 1 /\ host = <<>> /\ loop <= g_thread_num /\ made' = made
      /\ matcher' = matcher /\ tables' = tables
      /\ host' = IF loop < g_thread_num THEN PerThread(begin_thread + loop) ELSE Main(app).after
  BY Zenon DEF next_thread, fixed
<1>2. SettingsInv'
  BY <1>1 DEF SettingsInv
<1>3. loop < g_thread_num => app \in Threaded
  BY DEF SettingsInv
<1>4. HostProg' = host'
  <2>1. CASE loop < g_thread_num
    <3>1. begin_thread + (loop + 1) - 1 = begin_thread + loop /\ ~(loop + 1 > g_thread_num) /\ loop + 1 > 0
      BY <2>1 DEF SettingsInv, Tids
    <3>2. QED
      BY Zenon, <1>1, <1>3, <2>1, <3>1 DEF HostProg
  <2>2. CASE ~(loop < g_thread_num)
    BY <1>1, <2>2 DEF HostProg, SettingsInv
  <2>3. QED
    BY Zenon, <2>1, <2>2
<1>5. host' \in Seq(HostCalls)
  <2>1. (HostProg \in Seq(HostCalls))'
    BY <1>2, HostProgSeq, PTL
  <2>2. QED
    BY Zenon, <1>4, <2>1
<1>6. Done' = 0
  BY <1>4, <1>5 DEF Done
<1>7. /\ \A g \in Global : <<g, 0>> \in made
      /\ loop > 0 => <<"init", begin_thread + loop - 1>> \in made
      /\ Done = (IF app \notin Threaded THEN 24 ELSE IF loop = 0 THEN 13 ELSE 14)
  BY Zenon, <1>1, <1>ProgramDone
<1>8. HostInv'
  <2>1. (\A i \in 1..Len(host) : host[i] = HostProg[Done + i])'
    BY <1>4, <1>5, <1>6
  <2>2. QED
    BY <1>1, <1>4, <1>5, <1>6, <1>7, <2>1 DEF HostInv
<1>9. ReadyInv'
  <2>1. ASSUME NEW t \in Tids, begin_thread <= t, t < begin_thread + loop
        PROVE  <<"init", t>> \in made
    <3>1. CASE t = begin_thread + loop - 1
      BY <1>7, <2>1, <3>1 DEF SettingsInv, Tids
    <3>2. CASE t # begin_thread + loop - 1
      BY <2>1, <3>2 DEF ReadyInv, Ready, SettingsInv, Tids
    <3>3. QED
      BY Zenon, <3>1, <3>2
  <2>2. (\A t \in Tids : begin_thread <= t /\ t < begin_thread + loop - 1 => Ready(t))'
    BY <1>1, <2>1 DEF Ready, SettingsInv, Tids
  <2>3. (\A t \in Tids : Ready(t) => begin_thread <= t /\ t < begin_thread + loop)'
    BY <1>1 DEF ReadyInv, Ready, SettingsInv, Tids
  <2>4. QED
    BY Zenon, <1>1, <2>2, <2>3 DEF ReadyInv, Ready, SettingsInv
<1>10. FlowInv'
  <2>1. (loop <= g_thread_num => matcher = FieldsAt(app \notin Threaded, Done))'
    <3>1. ASSUME loop < g_thread_num
          PROVE  matcher = FieldsAt(FALSE, 0)
      <4>1. matcher = FieldsAt(app \notin Threaded, Done) /\ (app \notin Threaded) = FALSE
        BY Zenon, <1>1, <1>3, <3>1 DEF FlowInv
      <4>2. Done = 13 \/ Done = 14
        BY Zenon, <1>3, <1>7, <3>1
      <4>3. FieldsAt(FALSE, 13) = {} /\ FieldsAt(FALSE, 14) = {} /\ FieldsAt(FALSE, 0) = {}
        BY DEF FieldsAt
      <4>4. QED
        BY Zenon, <4>1, <4>2, <4>3
    <3>2. loop + 1 <= g_thread_num => loop < g_thread_num
      BY DEF SettingsInv
    <3>3. loop < g_thread_num => (app \notin Threaded) = FALSE
      BY Zenon, <1>3
    <3>4. QED
      BY Zenon, <1>1, <1>6, <3>1, <3>2, <3>3
  <2>2. app \in Threaded => HasTable("rx", {"dst"}) /\ HasTable("tx_root", {"src"}) /\ HasTable("tx", {"src"})
    BY <1>7 DEF FlowInv, SettingsInv
  <2>3. app \in Threaded => HasTable("rx", {"dst"})' /\ HasTable("tx_root", {"src"})' /\ HasTable("tx", {"src"})'
    BY Zenon, <1>1, <2>2 DEF HasTable
  <2>4. QED
    BY <1>1, <1>6, <2>1, <2>3 DEF FlowInv
<1>11. QED
  BY Zenon, <1>2, <1>8, <1>9, <1>10

MainInv == SettingsInv /\ HostInv /\ ReadyInv /\ FlowInv

\* The invariant of main holds at the start, with any of its settings.
LEMMA MainInvInit == HostInit => MainInv
<1> SUFFICES ASSUME HostInit  PROVE MainInv
  BY Zenon
<1>1. app \in Apps /\ \E c \in Configs[app] : place = c.place /\ begin_thread = c.begin /\ g_thread_num = c.num
  BY Zenon DEF HostInit
<1>2. PICK c \in Settings(app) : place = c.place /\ begin_thread = c.begin /\ g_thread_num = c.num
  BY <1>1, ConfigAssumption, Zenon
<1>3. SettingsInv
  BY <1>1, <1>2, ThreadsAssumption DEF Settings, HostInit, SettingsInv, Tids
<1>4. /\ host = Main(app).before /\ loop = (IF app \in Threaded THEN 0 ELSE g_thread_num)
      /\ made = {} /\ matcher = {} /\ tables = <<>>
  BY Zenon DEF HostInit
<1>5. HostProg = host /\ host \in Seq(HostCalls)
  <2>1. HostProg = host
    BY <1>3, <1>4 DEF HostProg, SettingsInv
  <2>2. QED
    BY Zenon, <1>3, <2>1, HostProgIs
<1>6. Done = 0 /\ Len(host) \in Nat /\ Len(HostProg) = Len(host)
  BY <1>5 DEF Done
<1>7. HostInv
  BY <1>3, <1>4, <1>5, <1>6 DEF HostInv, SettingsInv
<1>8. ReadyInv
  BY <1>3, <1>4, ThreadsAssumption DEF ReadyInv, Ready, SettingsInv, Tids
<1>9. FlowInv
  <2>1. \A b : FieldsAt(b, 0) = {}
    BY DEF FieldsAt
  <2>2. QED
    BY <1>3, <1>4, <1>6, <2>1 DEF FlowInv, SettingsInv
<1>10. QED
  BY Zenon, <1>3, <1>7, <1>8, <1>9 DEF MainInv

\* Every step of main keeps its invariant.
LEMMA MainInvStep == MainInv /\ [HostNext]_hostVars => MainInv'
<1> SUFFICES ASSUME MainInv, [HostNext]_hostVars  PROVE MainInv'
  BY Zenon
<1> USE DEF MainInv
<1>1. CASE HostCall
  BY Zenon, <1>1, CallKeepsHost, CallKeepsFlow, HostAdvances
<1>2. CASE next_thread
  BY Zenon, <1>2, TurnKeeps
<1>3. CASE UNCHANGED hostVars
  <2>1. /\ app' = app /\ place' = place /\ begin_thread' = begin_thread /\ g_thread_num' = g_thread_num
        /\ loop' = loop /\ host' = host /\ made' = made /\ matcher' = matcher /\ tables' = tables
    BY Zenon, <1>3 DEF hostVars, fixed
  <2>2. SettingsInv'
    BY Zenon, <2>1 DEF SettingsInv
  <2>3. HostProg' = HostProg
    BY Zenon, <2>1 DEF HostProg
  <2>4. Done' = Done
    BY Zenon, <2>1, <2>3 DEF Done
  <2>5. HostInv'
    BY Zenon, <2>1, <2>3, <2>4 DEF HostInv
  <2>6. ReadyInv'
    BY Zenon, <2>1 DEF ReadyInv, Ready
  <2>7. FlowInv'
    BY <2>1, <2>4, Zenon DEF FlowInv, HasTable
  <2>8. QED
    BY Zenon, <2>2, <2>5, <2>6, <2>7
<1>4. QED
  BY Zenon, <1>1, <1>2, <1>3, HostMoves

----------------------------------------------------------------------------
(* What a call needs *)

\* The next call of main, and that what the calls before it make exists.
LEMMA NextIs ==
  ASSUME MainInv, host # <<>>
  PROVE  /\ Done \in Nat /\ Done + 1 \in 1..Len(HostProg) /\ Head(host) = HostProg[Done + 1]
         /\ \A k \in 1..Len(HostProg) : k < Done + 1 /\ HostProg[k][1] \in Makers =>
              <<HostProg[k][2], HostProg[k][3]>> \in made
<1>1. HostProg \in Seq(HostCalls)
  BY Zenon, HostProgIs DEF MainInv
<1> HIDE DEF HostProg
<1>2. Len(HostProg) \in Nat
  BY <1>1
<1>3. Len(host) \in Nat /\ Len(host) > 0 /\ Head(host) = host[1] /\ Len(host) <= Len(HostProg)
  BY DEF MainInv, HostInv
<1>4. Done \in Nat /\ Done + 1 \in 1..Len(HostProg) /\ 1 \in 1..Len(host)
  BY <1>2, <1>3 DEF Done
<1>5. Head(host) = HostProg[Done + 1]
  BY Zenon, <1>3, <1>4 DEF MainInv, HostInv
<1>6. \A k \in 1..Len(HostProg) : k < Done + 1 => k \in 1..Done
  BY <1>2, <1>4
<1>7. QED
  BY Zenon, <1>4, <1>5, <1>6 DEF MainInv, HostInv

\* The needs of the next call of main.
LEMMA NeedsHold == MainInv => NeedsMet
\* What each kind of call needs, with the getters of the wrapper looked up.
<1>NeedsAre. ASSUME NEW t
             PROVE  /\ NeedsOf("ctx", t) = {} /\ NeedsOf("pd", t) \subseteq {<<"ctx", 0>>}
                    /\ NeedsOf("process", t) \subseteq {<<"ctx", 0>>} /\ NeedsOf("uar", t) \subseteq {<<"process", 0>>}
                    /\ NeedsOf("window", t) \subseteq {<<"process", 0>>, <<"pd", 0>>}
                    /\ NeedsOf("stream", t) \subseteq {<<"process", 0>>, <<"uar", 0>>}
                    /\ NeedsOf("handler", t) \subseteq {<<"process", 0>>}
                    /\ NeedsOf("rq_cq", t) \subseteq {<<"handler", t>>, <<"uar", 0>>, <<"process", 0>>}
                    /\ NeedsOf("sq_cq", t) \subseteq {<<"uar", 0>>, <<"process", 0>>}
                    /\ NeedsOf("rq", t) \subseteq {<<"rq_cq", t>>, <<"pd", 0>>, <<"process", 0>>}
                    /\ NeedsOf("sq", t) \subseteq {<<"sq_cq", t>>, <<"uar", 0>>, <<"pd", 0>>, <<"process", 0>>, <<"rq", t>>}
                    /\ NeedsOf("init", t) \subseteq {<<"rq_cq", t>>, <<"rq", t>>, <<"sq_cq", t>>, <<"sq", t>>, <<"window", 0>>}
                    /\ NeedsOf("rule", t) \subseteq {<<"rq", t>>} /\ NeedsOf("run", t) \subseteq {<<"handler", t>>, <<"init", t>>}
  BY <1>NeedsAre, Zenon DEF NeedsOf, Needs, Global, SharedSqNeeds
\* The positions of the calls that need something, and of those that make rules.
<1>SingleCalls. ASSUME NEW s, Single1(s), NEW j \in 1..24
                PROVE  /\ s[j][1] \in {"create", "init", "run"} => j \in 1..12 \/ j = 24
                       /\ s[j][1] = "rule" => j = 16 \/ j = 22 \/ j = 23
  <2> USE <1>SingleCalls
  <2>1. /\ s[13][1] = "field" /\ s[15][1] = "field" /\ s[18][1] = "field" /\ s[21][1] = "field"
        /\ s[14][1] = "table" /\ s[19][1] = "table" /\ s[20][1] = "table" /\ s[17][1] = "clear"
        /\ s[1][1] = "create" /\ s[2][1] = "create" /\ s[3][1] = "create" /\ s[4][1] = "create"
        /\ s[5][1] = "create" /\ s[6][1] = "create" /\ s[7][1] = "create" /\ s[8][1] = "create"
        /\ s[9][1] = "create" /\ s[10][1] = "create" /\ s[11][1] = "create" /\ s[12][1] = "init"
        /\ s[24][1] = "run" /\ s[16][1] = "rule" /\ s[22][1] = "rule" /\ s[23][1] = "rule"
    <3>1. CASE IsSingle(s)
      BY <3>1 DEF IsSingle, Create
    <3>2. CASE IsHostrq(s)
      BY <3>2 DEF IsHostrq, Create
    <3>3. QED
      BY Zenon, <3>1, <3>2 DEF Single1
  <2>2. CASE j \in 1..12 \/ j = 24
    <3>1. j = 1 \/ j = 2 \/ j = 3 \/ j = 4 \/ j = 5 \/ j = 6 \/ j = 7 \/ j = 8 \/ j = 9 \/ j = 10 \/ j = 11 \/ j = 12 \/ j = 24
      BY <2>2
    <3>2. s[j][1] # "rule"
      BY Zenon, <2>1, <3>1
    <3>3. QED
      BY Zenon, <2>2, <3>2
  <2>3. CASE j \in 13..23
    <3>1. j = 13 \/ j = 15 \/ j = 18 \/ j = 21 \/ j = 14 \/ j = 19 \/ j = 20 \/ j = 17 \/ j = 16 \/ j = 22 \/ j = 23
      BY <2>3
    <3>2. QED
      BY ZenonT(30), <2>1, <3>1
  <2>4. QED
    BY <2>2, <2>3
\* In a single-threaded main every call comes after the calls that make what it needs.
<1>SingleNeeds. ASSUME NEW s, Single1(s), NEW j \in 1..24, j \in 1..12 \/ j = 24, NEW M,
                       \A k \in 1..24 : k < j /\ s[k][1] \in Makers => <<s[k][2], s[k][3]>> \in M
                PROVE  NeedsOf(s[j][2], s[j][3]) \subseteq M
  <2> USE <1>SingleNeeds
  <2>1. "create" \in Makers /\ "init" \in Makers
    BY Zenon DEF Makers
  <2>2. /\ s[1][1] = "create" /\ s[1][2] = "ctx" /\ s[1][3] = 0
        /\ s[2][1] = "create" /\ s[2][2] = "pd" /\ s[2][3] = 0
        /\ s[3][1] = "create" /\ s[3][2] = "process" /\ s[3][3] = 0
        /\ s[4][1] = "create" /\ s[4][3] = 0 /\ s[5][1] = "create" /\ s[5][3] = 0
        /\ s[6][1] = "create" /\ s[6][3] = 0
        /\ \/ s[4][2] = "window" /\ s[5][2] = "uar" /\ s[6][2] = "stream"
           \/ s[4][2] = "uar" /\ s[5][2] = "stream" /\ s[6][2] = "window"
        /\ s[7][1] = "create" /\ s[7][2] = "handler" /\ s[7][3] = 0
        /\ s[8][1] = "create" /\ s[8][2] = "rq_cq" /\ s[8][3] = 0
        /\ s[9][1] = "create" /\ s[9][2] = "sq_cq" /\ s[9][3] = 0
        /\ s[10][1] = "create" /\ s[10][2] = "rq" /\ s[10][3] = 0
        /\ s[11][1] = "create" /\ s[11][2] = "sq" /\ s[11][3] = 0
        /\ s[12][1] = "init" /\ s[12][2] = "init" /\ s[12][3] = 0
        /\ s[24][2] = "run" /\ s[24][3] = 0
    <3>1. CASE IsSingle(s)
      BY SMTT(30), <3>1 DEF IsSingle, Create
    <3>2. CASE IsHostrq(s)
      BY <3>2 DEF IsHostrq, Create
    <3>3. QED
      BY Zenon, <3>1, <3>2 DEF Single1
  <2>3. /\ 1 \in 1..24 /\ 2 \in 1..24 /\ 3 \in 1..24 /\ 4 \in 1..24 /\ 5 \in 1..24 /\ 6 \in 1..24
        /\ 7 \in 1..24 /\ 8 \in 1..24 /\ 9 \in 1..24 /\ 10 \in 1..24 /\ 11 \in 1..24 /\ 12 \in 1..24
    OBVIOUS
  <2>4. /\ 1 < j => <<"ctx", 0>> \in M
        /\ 2 < j => <<"pd", 0>> \in M
        /\ 3 < j => <<"process", 0>> \in M
        /\ 4 < j => <<s[4][2], 0>> \in M
        /\ 5 < j => <<s[5][2], 0>> \in M
        /\ 6 < j => <<s[6][2], 0>> \in M
    BY ZenonT(30), <2>1, <2>2, <2>3
  <2>5. /\ 7 < j => <<"handler", 0>> \in M
        /\ 8 < j => <<"rq_cq", 0>> \in M
        /\ 9 < j => <<"sq_cq", 0>> \in M
        /\ 10 < j => <<"rq", 0>> \in M
        /\ 11 < j => <<"sq", 0>> \in M
        /\ 12 < j => <<"init", 0>> \in M
    BY ZenonT(30), <2>1, <2>2, <2>3
  <2>7. /\ NeedsOf("ctx", 0) \subseteq M
        /\ 1 < j => NeedsOf("pd", 0) \subseteq M /\ NeedsOf("process", 0) \subseteq M
        /\ 3 < j => NeedsOf("uar", 0) \subseteq M /\ NeedsOf("handler", 0) \subseteq M
        /\ 2 < j /\ 3 < j => NeedsOf("window", 0) \subseteq M
        /\ 3 < j /\ <<"uar", 0>> \in M => NeedsOf("stream", 0) \subseteq M
    BY Zenon, <2>4, <1>NeedsAre
  <2>8. /\ 3 < j /\ 7 < j /\ <<"uar", 0>> \in M => NeedsOf("rq_cq", 0) \subseteq M
        /\ 3 < j /\ <<"uar", 0>> \in M => NeedsOf("sq_cq", 0) \subseteq M
        /\ 2 < j /\ 3 < j /\ 8 < j => NeedsOf("rq", 0) \subseteq M
        /\ 2 < j /\ 3 < j /\ 9 < j /\ 10 < j /\ <<"uar", 0>> \in M => NeedsOf("sq", 0) \subseteq M
        /\ 8 < j /\ 9 < j /\ 10 < j /\ 11 < j /\ <<"window", 0>> \in M => NeedsOf("init", 0) \subseteq M
        /\ 7 < j /\ 12 < j => NeedsOf("run", 0) \subseteq M
    <3>1. /\ NeedsOf("rq_cq", 0) \subseteq {<<"handler", 0>>, <<"uar", 0>>, <<"process", 0>>}
          /\ NeedsOf("sq_cq", 0) \subseteq {<<"uar", 0>>, <<"process", 0>>}
          /\ NeedsOf("rq", 0) \subseteq {<<"rq_cq", 0>>, <<"pd", 0>>, <<"process", 0>>}
          /\ NeedsOf("sq", 0) \subseteq {<<"sq_cq", 0>>, <<"uar", 0>>, <<"pd", 0>>, <<"process", 0>>, <<"rq", 0>>}
      BY Zenon, <1>NeedsAre
    <3>2. /\ NeedsOf("init", 0) \subseteq {<<"rq_cq", 0>>, <<"rq", 0>>, <<"sq_cq", 0>>, <<"sq", 0>>, <<"window", 0>>}
          /\ NeedsOf("run", 0) \subseteq {<<"handler", 0>>, <<"init", 0>>}
      BY Zenon, <1>NeedsAre
    <3>3. /\ 3 < j /\ 7 < j /\ <<"uar", 0>> \in M => NeedsOf("rq_cq", 0) \subseteq M
          /\ 3 < j /\ <<"uar", 0>> \in M => NeedsOf("sq_cq", 0) \subseteq M
          /\ 2 < j /\ 3 < j /\ 8 < j => NeedsOf("rq", 0) \subseteq M
      BY Zenon, <2>4, <2>5, <3>1
    <3>4. 2 < j /\ 3 < j /\ 9 < j /\ 10 < j /\ <<"uar", 0>> \in M => NeedsOf("sq", 0) \subseteq M
      BY Zenon, <2>4, <2>5, <3>1
    <3>5. /\ 8 < j /\ 9 < j /\ 10 < j /\ 11 < j /\ <<"window", 0>> \in M => NeedsOf("init", 0) \subseteq M
          /\ 7 < j /\ 12 < j => NeedsOf("run", 0) \subseteq M
      BY Zenon, <2>5, <3>2
    <3>6. QED
      BY Zenon, <3>3, <3>4, <3>5
  <2>9. /\ s[4][2] = "uar" /\ 4 < j => <<"uar", 0>> \in M
        /\ 4 < j /\ 5 < j /\ 6 < j => <<"uar", 0>> \in M /\ <<"window", 0>> \in M
        /\ s[6][2] = "stream" /\ 5 < j => <<"uar", 0>> \in M
    BY Zenon, <2>2, <2>4
  <2>10. QED
    <3>1. CASE j \in 1..6
      BY SMTT(20), <2>2, <2>7, <2>9, <3>1
    <3>2. CASE j \in 7..12 \/ j = 24
      BY <2>2, <2>7, <2>8, <2>9, <3>2
    <3>3. QED
      BY <3>1, <3>2
\* Before the loop every call comes after the calls that make what it needs.
<1>TablesNeeds. ASSUME NEW s, IsTables(s), NEW j \in 1..13, NEW M,
                       \A k \in 1..13 : k < j /\ s[k][1] \in Makers => <<s[k][2], s[k][3]>> \in M
                PROVE  /\ s[j][1] \in {"create", "init", "run"} => NeedsOf(s[j][2], s[j][3]) \subseteq M
                       /\ s[j][1] # "rule"
  <2> USE <1>TablesNeeds
  <2>1. "create" \in Makers
    BY Zenon DEF Makers
  <2>2. /\ s[1][1] = "create" /\ s[1][2] = "ctx" /\ s[1][3] = 0
        /\ s[2][1] = "create" /\ s[2][2] = "pd" /\ s[2][3] = 0
        /\ s[3][1] = "create" /\ s[3][2] = "process" /\ s[3][3] = 0
        /\ s[4][1] = "create" /\ s[4][2] = "window" /\ s[4][3] = 0
        /\ s[5][1] = "create" /\ s[5][2] = "uar" /\ s[5][3] = 0
        /\ s[6][1] = "create" /\ s[6][2] = "stream" /\ s[6][3] = 0
    BY DEF IsTables, Create
  <2>3. 1 \in 1..13 /\ 2 \in 1..13 /\ 3 \in 1..13 /\ 5 \in 1..13
    OBVIOUS
  <2>4. /\ 1 < j => <<"ctx", 0>> \in M
        /\ 2 < j => <<"pd", 0>> \in M
        /\ 3 < j => <<"process", 0>> \in M
        /\ 5 < j => <<"uar", 0>> \in M
    BY Zenon, <2>1, <2>2, <2>3
  <2>5. /\ NeedsOf("ctx", 0) \subseteq M
        /\ 1 < j => NeedsOf("pd", 0) \subseteq M /\ NeedsOf("process", 0) \subseteq M
        /\ 3 < j => NeedsOf("uar", 0) \subseteq M
        /\ 2 < j /\ 3 < j => NeedsOf("window", 0) \subseteq M
        /\ 3 < j /\ 5 < j => NeedsOf("stream", 0) \subseteq M
    BY Zenon, <2>4, <1>NeedsAre
  <2>6. CASE j \in 1..6
    BY <2>2, <2>5, <2>6
  <2>7. CASE j \in 7..13
    BY SMTT(20), <2>7 DEF IsTables
  <2>8. QED
    BY <2>6, <2>7
\* In a turn of the loop every call comes after the calls that make what it needs.
<1>PerThreadNeeds. ASSUME NEW s, NEW t, IsPerThread(s, t), NEW j \in 1..14, NEW M,
                          \A g \in Global : <<g, 0>> \in M,
                          \A k \in 1..14 : k < j /\ s[k][1] \in Makers => <<s[k][2], s[k][3]>> \in M
                   PROVE  /\ s[j][1] \in {"create", "init", "run"} => NeedsOf(s[j][2], s[j][3]) \subseteq M
                          /\ s[j][1] = "rule" => \/ j = 8 /\ s[j][2] = "rx"
                                                 \/ j = 11 /\ s[j][2] = "tx_root"
                                                 \/ j = 12 /\ s[j][2] = "tx"
                          /\ s[j][1] = "rule" => NeedsOf("rule", s[j][3]) \subseteq M
  <2> USE <1>PerThreadNeeds
  <2>1. "create" \in Makers /\ "init" \in Makers
    BY Zenon DEF Makers
  <2>2. /\ s[1][1] = "create" /\ s[1][2] = "handler" /\ s[1][3] = t
        /\ s[2][1] = "create" /\ s[2][2] = "rq_cq" /\ s[2][3] = t
        /\ s[3][1] = "create" /\ s[3][2] = "sq_cq" /\ s[3][3] = t
        /\ s[4][1] = "create" /\ s[4][2] = "rq" /\ s[4][3] = t
        /\ s[5][1] = "create" /\ s[5][2] = "sq" /\ s[5][3] = t
        /\ s[6][1] = "init" /\ s[6][2] = "init" /\ s[6][3] = t
    BY DEF IsPerThread, Create
  <2>3. /\ s[7][1] = "field" /\ s[8][1] = "rule" /\ s[8][2] = "rx" /\ s[8][3] = t
        /\ s[9][1] = "clear" /\ s[10][1] = "field"
        /\ s[11][1] = "rule" /\ s[11][2] = "tx_root" /\ s[11][3] = t
        /\ s[12][1] = "rule" /\ s[12][2] = "tx" /\ s[12][3] = t /\ s[13][1] = "clear"
        /\ s[14][1] = "run" /\ s[14][2] = "run" /\ s[14][3] = t
    BY DEF IsPerThread, Create
  <2>4. <<"pd", 0>> \in M /\ <<"process", 0>> \in M /\ <<"uar", 0>> \in M /\ <<"window", 0>> \in M
    BY Zenon DEF Global
  <2>5. 1 \in 1..14 /\ 2 \in 1..14 /\ 3 \in 1..14 /\ 4 \in 1..14 /\ 5 \in 1..14 /\ 6 \in 1..14
    OBVIOUS
  <2>6. /\ 1 < j => <<"handler", t>> \in M
        /\ 2 < j => <<"rq_cq", t>> \in M
        /\ 3 < j => <<"sq_cq", t>> \in M
        /\ 4 < j => <<"rq", t>> \in M
        /\ 5 < j => <<"sq", t>> \in M
        /\ 6 < j => <<"init", t>> \in M
    BY Zenon, <2>1, <2>2, <2>5
  <2>7. /\ NeedsOf("handler", t) \subseteq M /\ NeedsOf("sq_cq", t) \subseteq M
        /\ 1 < j => NeedsOf("rq_cq", t) \subseteq M
        /\ 2 < j => NeedsOf("rq", t) \subseteq M
        /\ 3 < j /\ 4 < j => NeedsOf("sq", t) \subseteq M
    BY ZenonT(30), <2>4, <2>6, <1>NeedsAre
  <2>8. /\ 2 < j /\ 3 < j /\ 4 < j /\ 5 < j => NeedsOf("init", t) \subseteq M
        /\ 4 < j => NeedsOf("rule", t) \subseteq M
        /\ 1 < j /\ 6 < j => NeedsOf("run", t) \subseteq M
    BY Zenon, <2>4, <2>6, <1>NeedsAre
  <2>9. CASE j \in 1..6
    BY <2>2, <2>7, <2>8, <2>9
  <2>10. CASE j = 7 \/ j = 9 \/ j = 10 \/ j = 13
    BY Zenon, <2>3, <2>10
  <2>11. CASE j = 8 \/ j = 11 \/ j = 12
    BY <2>3, <2>8, <2>11
  <2>12. CASE j = 14
    BY <2>3, <2>8, <2>12
  <2>13. QED
    BY <2>9, <2>10, <2>11, <2>12
\* The rules of the mains find their tables.
<1>SingleRules. ASSUME MainInv, loop <= g_thread_num, app \notin Threaded, Single1(HostProg),
                       Done + 1 = 16 \/ Done + 1 = 22 \/ Done + 1 = 23
                PROVE  HasTable(HostProg[Done + 1][2], matcher)
  <2> USE <1>SingleRules
  <2> HIDE DEF HostProg
  <2>1. HostProg[16][2] = "rx" /\ HostProg[22][2] = "tx_root" /\ HostProg[23][2] = "tx"
    <3>1. CASE IsSingle(HostProg)
      BY <3>1 DEF IsSingle
    <3>2. CASE IsHostrq(HostProg)
      BY <3>2 DEF IsHostrq
    <3>3. QED
      BY Zenon, <3>1, <3>2 DEF Single1
  <2>2. matcher = FieldsAt(TRUE, Done)
    BY Zenon DEF MainInv, FlowInv
  <2>3. FieldsAt(TRUE, 15) = {"dst"} /\ FieldsAt(TRUE, 21) = {"src"} /\ FieldsAt(TRUE, 22) = {"src"}
    BY DEF FieldsAt
  <2>4. Done \in Int
    BY HostProgIs DEF Done, MainInv, HostInv
  <2>5. CASE Done + 1 = 16
    <3>1. Done = 15 /\ Done >= 14
      BY <2>4, <2>5
    <3>2. HasTable("rx", {"dst"})
      BY Zenon, <3>1 DEF MainInv, FlowInv
    <3>3. QED
      BY Zenon, <2>1, <2>2, <2>3, <2>5, <3>1, <3>2
  <2>6. CASE Done + 1 = 22
    <3>1. Done = 21 /\ Done >= 19
      BY <2>4, <2>6
    <3>2. HasTable("tx_root", {"src"})
      BY Zenon, <3>1 DEF MainInv, FlowInv
    <3>3. QED
      BY Zenon, <2>1, <2>2, <2>3, <2>6, <3>1, <3>2
  <2>7. CASE Done + 1 = 23
    <3>1. Done = 22 /\ Done >= 20
      BY <2>4, <2>7
    <3>2. HasTable("tx", {"src"})
      BY Zenon, <3>1 DEF MainInv, FlowInv
    <3>3. QED
      BY Zenon, <2>1, <2>2, <2>3, <2>7, <3>1, <3>2
  <2>8. QED
    BY Zenon, <2>5, <2>6, <2>7
\* The rules of a turn of the loop find the tables made before it.
<1>ThreadRules. ASSUME MainInv, loop <= g_thread_num, app \in Threaded, loop > 0,
                       NEW x, \/ Done + 1 = 8 /\ x = "rx"
                              \/ Done + 1 = 11 /\ x = "tx_root"
                              \/ Done + 1 = 12 /\ x = "tx"
                PROVE  HasTable(x, matcher)
  <2> USE <1>ThreadRules
  <2>1. Done \in Int
    BY HostProgIs DEF Done, MainInv, HostInv
  <2>2. Done = 7 \/ Done = 10 \/ Done = 11
    BY <2>1
  <2>3. matcher = FieldsAt(FALSE, Done)
    BY Zenon DEF MainInv, FlowInv
  <2>4. FieldsAt(FALSE, 7) = {"dst"} /\ FieldsAt(FALSE, 10) = {"src"} /\ FieldsAt(FALSE, 11) = {"src"}
    BY DEF FieldsAt
  <2>5. HasTable("rx", {"dst"}) /\ HasTable("tx_root", {"src"}) /\ HasTable("tx", {"src"})
    BY Zenon DEF MainInv, FlowInv
  <2>6. /\ Done + 1 = 8 => Done = 7
        /\ Done + 1 = 11 => Done = 10
        /\ Done + 1 = 12 => Done = 11
    BY <2>1
  <2>7. QED
    BY Zenon, <2>3, <2>4, <2>5, <2>6
<1> SUFFICES ASSUME MainInv, host # <<>>  PROVE NeedsMet
  BY Zenon DEF NeedsMet
<1> DEFINE j == Done + 1
<1>1. /\ j \in 1..Len(HostProg) /\ What = HostProg[j][2] /\ Tid = HostProg[j][3] /\ Head(host)[1] = HostProg[j][1]
      /\ \A k \in 1..Len(HostProg) : k < j /\ HostProg[k][1] \in Makers =>
           <<HostProg[k][2], HostProg[k][3]>> \in made
  BY Zenon, NextIs DEF What, Tid
<1> HIDE DEF HostProg, j
<1>2. CASE loop > g_thread_num
  <2>1. After(HostProg)
    BY Zenon, <1>2, HostProgIs DEF MainInv
  <2>2. j = 1 \/ j = 2 \/ j = 3
    BY <1>1, <2>1 DEF After
  <2>3. HostProg[j][1] \in {"first", "wait", "stop"}
    BY <1>1, <2>1, <2>2 DEF After
  <2>4. QED
    BY Zenon, <1>1, <2>3 DEF NeedsMet
<1>3. CASE loop <= g_thread_num /\ app \notin Threaded
  <2>1. Single1(HostProg)
    BY Zenon, <1>3, HostProgIs DEF MainInv, Single1
  <2>2. Len(HostProg) = 24
    BY Zenon, <2>1, Lengths
  <2>3. HostProg[j][1] \in {"create", "init", "run"} => NeedsOf(HostProg[j][2], HostProg[j][3]) \subseteq made
    BY Zenon, <1>1, <2>1, <2>2, <1>SingleCalls, <1>SingleNeeds
  <2>4. ASSUME HostProg[j][1] = "rule"
        PROVE  HasTable(HostProg[j][2], matcher) /\ NeedsOf("rule", HostProg[j][3]) \subseteq made
    <3>1. j = 16 \/ j = 22 \/ j = 23
      BY Zenon, <1>1, <2>1, <2>2, <2>4, <1>SingleCalls
    <3>2. HasTable(HostProg[j][2], matcher)
      BY Zenon, <1>3, <2>1, <3>1, <1>SingleRules DEF j
    <3>3. HostProg[10] = <<"create", "rq", 0>> /\ HostProg[j][3] = 0
      <4>1. /\ HostProg[10] = Create("rq", 0) /\ HostProg[16] = <<"rule", "rx", 0>>
            /\ HostProg[22] = <<"rule", "tx_root", 0>> /\ HostProg[23] = <<"rule", "tx", 0>>
        BY Zenon, <2>1 DEF Single1, IsSingle, IsHostrq
      <4>2. HostProg[16][3] = 0 /\ HostProg[22][3] = 0 /\ HostProg[23][3] = 0
        BY <4>1
      <4>3. QED
        BY Zenon, <3>1, <4>1, <4>2 DEF Create
    <3>4. 10 \in 1..24 /\ 10 < j /\ HostProg[10][1] \in Makers /\ HostProg[10][2] = "rq" /\ HostProg[10][3] = 0
      BY <3>1, <3>3 DEF Makers
    <3>5. <<"rq", 0>> \in made
      BY Zenon, <1>1, <2>2, <3>4
    <3>6. NeedsOf("rule", 0) \subseteq {<<"rq", 0>>}
      BY Zenon, <1>NeedsAre
    <3>7. QED
      BY Zenon, <3>2, <3>3, <3>5, <3>6
  <2>5. QED
    BY Zenon, <1>1, <2>3, <2>4 DEF NeedsMet, HasTable, HasIn
<1>4. CASE loop <= g_thread_num /\ app \in Threaded /\ loop = 0
  <2>1. IsTables(HostProg)
    BY Zenon, <1>4, HostProgIs DEF MainInv
  <2>2. Len(HostProg) = 13
    BY Zenon, <2>1, Lengths
  <2>3. /\ HostProg[j][1] \in {"create", "init", "run"} => NeedsOf(HostProg[j][2], HostProg[j][3]) \subseteq made
        /\ HostProg[j][1] # "rule"
    BY Zenon, <1>1, <2>1, <2>2, <1>TablesNeeds
  <2>4. QED
    BY Zenon, <1>1, <2>3 DEF NeedsMet
<1>5. CASE loop <= g_thread_num /\ app \in Threaded /\ loop > 0
  <2>1. IsPerThread(HostProg, begin_thread + loop - 1)
    BY Zenon, <1>5, HostProgIs DEF MainInv
  <2>2. Len(HostProg) = 14
    BY Zenon, <2>1, Lengths
  <2>3. \A g \in Global : <<g, 0>> \in made
    BY Zenon, <1>5 DEF MainInv, HostInv
  <2>4. /\ HostProg[j][1] \in {"create", "init", "run"} => NeedsOf(HostProg[j][2], HostProg[j][3]) \subseteq made
        /\ HostProg[j][1] = "rule" => \/ j = 8 /\ HostProg[j][2] = "rx"
                                      \/ j = 11 /\ HostProg[j][2] = "tx_root"
                                      \/ j = 12 /\ HostProg[j][2] = "tx"
        /\ HostProg[j][1] = "rule" => NeedsOf("rule", HostProg[j][3]) \subseteq made
    BY Zenon, <1>1, <2>1, <2>2, <2>3, <1>PerThreadNeeds
  <2>5. HostProg[j][1] = "rule" => HasTable(HostProg[j][2], matcher)
    BY Zenon, <1>5, <2>4, <1>ThreadRules DEF j
  <2>6. QED
    BY Zenon, <1>1, <2>4, <2>5 DEF NeedsMet, HasTable, HasIn
<1>6. QED
  BY <1>2, <1>3, <1>4, <1>5 DEF MainInv, SettingsInv

\* What a device function can rely on: the first-packet RPC is called for
\* applications that have one and, where there is one context, after its
\* initialisation; handlers are run on initialised contexts; and thread 0's
\* context is the first to be initialised when it is used at all.
HostReady ==
  /\ host # <<>> =>
       /\ Tid \in Tids /\ (What = "init" <=> Head(host)[1] = "init") /\ (What = "run" <=> Head(host)[1] = "run")
       /\ Head(host)[1] = "first" => app \in Callers /\ (app \notin Threaded => Ready(0))
       /\ Head(host)[1] = "run" => Ready(Tid)
  /\ begin_thread = 0 => \A t \in Tids : Ready(t) => Ready(0)
\* It follows from the place in the program.
LEMMA ReadyHolds == MainInv => HostReady
<1> SUFFICES ASSUME MainInv  PROVE HostReady
  BY Zenon
<1>1. /\ loop \in Nat /\ g_thread_num \in Nat /\ g_thread_num >= 1 /\ begin_thread \in Nat /\ 0 \in Tids
      /\ \A t \in Tids : t \in Nat
  BY ThreadsAssumption DEF MainInv, SettingsInv, Tids
<1>2. ASSUME begin_thread = 0, NEW t \in Tids, Ready(t) PROVE Ready(0)
  <2>1. t < begin_thread + loop
    BY Zenon, <1>2 DEF MainInv, ReadyInv
  <2>2. t = 0 \/ (begin_thread <= 0 /\ 0 < begin_thread + loop - 1)
    BY <1>1, <1>2, <2>1
  <2>3. QED
    BY Zenon, <1>1, <1>2, <2>2 DEF MainInv, ReadyInv
<1>3. ASSUME host # <<>>
      PROVE  /\ Tid \in Tids /\ (What = "init" <=> Head(host)[1] = "init") /\ (What = "run" <=> Head(host)[1] = "run")
             /\ Head(host)[1] = "first" => app \in Callers /\ (app \notin Threaded => Ready(0))
             /\ Head(host)[1] = "run" => Ready(Tid)
  <2>1. /\ Done \in Nat /\ Done + 1 \in 1..Len(HostProg) /\ Head(host) = HostProg[Done + 1]
    BY Zenon, <1>3, NextIs
  <2>2. HostProg \in Seq(HostCalls)
    BY Zenon, HostProgIs DEF MainInv
  <2>3. /\ HostProg[Done + 1][1] = "first" => app \in Callers /\ loop > g_thread_num
        /\ HostProg[Done + 1][1] = "run" <=> HostProg[Done + 1][2] = "run"
        /\ HostProg[Done + 1][1] = "init" \/ HostProg[Done + 1][2] = "init" =>
             HostProg[Done + 1][1] = "init" /\ HostProg[Done + 1][2] = "init"
    <3>1. Done < Len(HostProg)
      BY <2>1, <2>2
    <3>2. QED
      BY Zenon, <2>1, <3>1, InitCalls DEF MainInv
  <2> HIDE DEF HostProg
  <2>4. Tid \in Tids
    BY <2>1, <2>2 DEF Tid, HostCalls
  <2>5. (What = "init" <=> Head(host)[1] = "init") /\ (What = "run" <=> Head(host)[1] = "run")
    BY Zenon, <2>1, <2>3 DEF What
  <2>6. ASSUME Head(host)[1] = "first" PROVE app \in Callers /\ (app \notin Threaded => Ready(0))
    <3>1. app \in Callers /\ loop > g_thread_num
      BY Zenon, <2>1, <2>3, <2>6
    <3>2. app \notin Threaded => begin_thread <= 0 /\ 0 < begin_thread + loop - 1
      BY <1>1, <3>1 DEF MainInv, SettingsInv
    <3>3. QED
      BY Zenon, <1>1, <3>1, <3>2 DEF MainInv, ReadyInv
  <2>7. ASSUME Head(host)[1] = "run" PROVE Ready(Tid)
    <3>1. NeedsOf("run", Tid) \subseteq made
      BY Zenon, <1>3, <2>5, <2>7, NeedsHold DEF NeedsMet
    <3>2. <<"init", Tid>> \in NeedsOf("run", Tid)
      BY Zenon DEF NeedsOf, Needs, Global
    <3>3. QED
      BY Zenon, <3>1, <3>2 DEF Ready
  <2>8. QED
    BY Zenon, <2>4, <2>5, <2>6, <2>7
<1>4. QED
  BY Zenon, <1>2, <1>3 DEF HostReady

\* Where the programs of the host run a handler: it is their last call.
LEMMA RunCalls ==
  ASSUME SettingsInv, NEW d \in Nat, d < Len(HostProg), HostProg[d + 1][1] = "run"
  PROVE  d + 1 = Len(HostProg) /\ HostProg[d + 1][3] = begin_thread + loop - 1 /\ loop <= g_thread_num
<1>1. CASE loop > g_thread_num
  <2>1. After(HostProg) /\ HostProg \in Seq(HostCalls)
    BY Zenon, <1>1, HostProgIs
  <2> HIDE DEF HostProg
  <2>2. Len(HostProg) \in 1..3
    BY Zenon, <2>1 DEF After
  <2>3. d + 1 = 1 \/ d + 1 = 2 \/ d + 1 = 3
    <3>1. \A n \in 1..3 : d < n => d + 1 = 1 \/ d + 1 = 2 \/ d + 1 = 3
      OBVIOUS
    <3>2. QED
      BY Zenon, <2>2, <3>1
  <2>4. HostProg[d + 1][1] # "run"
    BY <2>1, <2>2, <2>3 DEF After
  <2>5. QED
    BY Zenon, <2>4
<1>2. CASE loop <= g_thread_num /\ app \notin Threaded
  <2>1. Single1(HostProg)
    BY Zenon, <1>2, HostProgIs DEF Single1
  <2>2. Len(HostProg) = 24
    BY Zenon, <2>1, Lengths
  <2> HIDE DEF HostProg
  <2>3. /\ HostProg[1][1] # "run" /\ HostProg[2][1] # "run" /\ HostProg[3][1] # "run" /\ HostProg[4][1] # "run" /\ HostProg[5][1] # "run"
        /\ HostProg[6][1] # "run" /\ HostProg[7][1] # "run" /\ HostProg[8][1] # "run" /\ HostProg[9][1] # "run" /\ HostProg[10][1] # "run"
        /\ HostProg[11][1] # "run" /\ HostProg[12][1] # "run" /\ HostProg[13][1] # "run" /\ HostProg[14][1] # "run" /\ HostProg[15][1] # "run"
        /\ HostProg[16][1] # "run" /\ HostProg[17][1] # "run" /\ HostProg[18][1] # "run" /\ HostProg[19][1] # "run" /\ HostProg[20][1] # "run"
        /\ HostProg[21][1] # "run" /\ HostProg[22][1] # "run" /\ HostProg[23][1] # "run"
    <3>1. CASE IsSingle(HostProg)
      BY <3>1 DEF IsSingle, Create
    <3>2. CASE IsHostrq(HostProg)
      BY <3>2 DEF IsHostrq, Create
    <3>3. QED
      BY Zenon, <2>1, <3>1, <3>2 DEF Single1
  <2>4. \A j \in 1..24 : j = 1 \/ j = 2 \/ j = 3 \/ j = 4 \/ j = 5 \/ j = 6 \/ j = 7 \/ j = 8 \/ j = 9 \/ j = 10 \/
              j = 11 \/ j = 12 \/ j = 13 \/ j = 14 \/ j = 15 \/ j = 16 \/ j = 17 \/ j = 18 \/ j = 19 \/ j = 20 \/
              j = 21 \/ j = 22 \/ j = 23 \/ j = 24
    OBVIOUS
  <2>5. d + 1 \in 1..24
    BY <2>2
  <2>6. d + 1 = 24
    BY Zenon, <2>3, <2>4, <2>5
  <2>7. HostProg[24] = <<"run", "run", 0>>
    BY Zenon, <2>1 DEF Single1, IsSingle, IsHostrq
  <2>8. begin_thread + loop - 1 = 0
    BY <1>2 DEF SettingsInv
  <2>9. HostProg[24][3] = 0
    BY <2>7
  <2>10. QED
    BY Zenon, <1>2, <2>2, <2>6, <2>8, <2>9
<1>3. CASE loop <= g_thread_num /\ app \in Threaded /\ loop = 0
  <2>1. IsTables(HostProg)
    BY Zenon, <1>3, HostProgIs
  <2>2. Len(HostProg) = 13
    BY Zenon, <2>1, Lengths
  <2> HIDE DEF HostProg
  <2>3. /\ HostProg[1][1] # "run" /\ HostProg[2][1] # "run" /\ HostProg[3][1] # "run" /\ HostProg[4][1] # "run" /\ HostProg[5][1] # "run"
        /\ HostProg[6][1] # "run" /\ HostProg[7][1] # "run" /\ HostProg[8][1] # "run" /\ HostProg[9][1] # "run" /\ HostProg[10][1] # "run"
        /\ HostProg[11][1] # "run" /\ HostProg[12][1] # "run" /\ HostProg[13][1] # "run"
    BY <2>1 DEF IsTables, Create
  <2>4. \A j \in 1..13 : j = 1 \/ j = 2 \/ j = 3 \/ j = 4 \/ j = 5 \/ j = 6 \/ j = 7 \/ j = 8 \/ j = 9 \/ j = 10 \/
              j = 11 \/ j = 12 \/ j = 13
    OBVIOUS
  <2>5. d + 1 \in 1..13
    BY <2>2
  <2>6. QED
    BY Zenon, <2>3, <2>4, <2>5
<1>4. CASE loop <= g_thread_num /\ app \in Threaded /\ loop > 0
  <2>1. IsPerThread(HostProg, begin_thread + loop - 1)
    BY Zenon, <1>4, HostProgIs
  <2>2. Len(HostProg) = 14
    BY Zenon, <2>1, Lengths
  <2> HIDE DEF HostProg
  <2>3. /\ HostProg[1][1] # "run" /\ HostProg[2][1] # "run" /\ HostProg[3][1] # "run" /\ HostProg[4][1] # "run" /\ HostProg[5][1] # "run"
        /\ HostProg[6][1] # "run" /\ HostProg[7][1] # "run" /\ HostProg[8][1] # "run" /\ HostProg[9][1] # "run" /\ HostProg[10][1] # "run"
        /\ HostProg[11][1] # "run" /\ HostProg[12][1] # "run" /\ HostProg[13][1] # "run"
    BY <2>1 DEF IsPerThread, Create
  <2>4. \A j \in 1..14 : j = 1 \/ j = 2 \/ j = 3 \/ j = 4 \/ j = 5 \/ j = 6 \/ j = 7 \/ j = 8 \/ j = 9 \/ j = 10 \/
              j = 11 \/ j = 12 \/ j = 13 \/ j = 14
    OBVIOUS
  <2>5. d + 1 \in 1..14
    BY <2>2
  <2>6. d + 1 = 14
    BY Zenon, <2>3, <2>4, <2>5
  <2>7. HostProg[14] = <<"run", "run", begin_thread + loop - 1>>
    BY Zenon, <2>1 DEF IsPerThread
  <2>8. HostProg[14][3] = begin_thread + loop - 1
    BY <2>7
  <2>9. QED
    BY Zenon, <1>4, <2>2, <2>6, <2>8
<1>5. QED
  BY <1>1, <1>2, <1>3, <1>4 DEF SettingsInv

\* The handlers run are those of the finished turns.
RunInv ==
  \A t \in Tids : <<"run", t>> \in made =>
    t < begin_thread + loop - 1 \/ (t = begin_thread + loop - 1 /\ host = <<>>)
\* A main runs no handler twice.
LEMMA RunInvInit == HostInit => RunInv
BY Zenon DEF HostInit, RunInv

\* Every step of main keeps RunInv: event_handler_run is the last call of a turn, and
\* names the thread of that turn.
LEMMA RunInvStep == MainInv /\ RunInv /\ [HostNext]_hostVars => RunInv'
<1> SUFFICES ASSUME MainInv, RunInv, [HostNext]_hostVars  PROVE RunInv'
  BY Zenon
<1>1. loop \in Nat /\ begin_thread \in Nat /\ \A t \in Tids : t \in Nat
  BY ThreadsAssumption DEF MainInv, SettingsInv, Tids
<1>2. CASE UNCHANGED hostVars
  BY Zenon, <1>2 DEF RunInv, hostVars, fixed
<1>3. CASE next_thread
  <2>1. begin_thread' = begin_thread /\ made' = made /\ loop' = loop + 1
    BY Zenon, <1>3 DEF next_thread, fixed
  <2>2. QED
    BY <1>1, <2>1 DEF RunInv
<1>4. CASE HostCall
  <2>1. /\ host # <<>> /\ host' = Tail(host) /\ loop' = loop /\ begin_thread' = begin_thread
        /\ made' \subseteq made \cup {<<What, Tid>>}
    BY Zenon, <1>4 DEF HostCall, fixed
  <2>2. \A t \in Tids : <<"run", t>> \in made => t < begin_thread + loop - 1
    BY Zenon, <2>1 DEF RunInv
  <2>3. CASE Head(host)[1] = "run"
    <3>1. /\ Done \in Nat /\ Done + 1 \in 1..Len(HostProg) /\ Head(host) = HostProg[Done + 1]
      BY Zenon, <2>1, NextIs
    <3>2. HostProg \in Seq(HostCalls) /\ SettingsInv
      BY Zenon, HostProgIs DEF MainInv
    <3>3. Done < Len(HostProg)
      BY <3>1, <3>2
    <3>4. Done + 1 = Len(HostProg) /\ HostProg[Done + 1][3] = begin_thread + loop - 1
      BY Zenon, <2>3, <3>1, <3>2, <3>3, RunCalls
    <3> HIDE DEF HostProg
    <3>5. Tid = begin_thread + loop - 1
      BY Zenon, <3>1, <3>4 DEF Tid
    <3>6. host' = <<>>
      <4>1. host \in Seq(HostCalls) /\ Len(host) \in Nat
        BY DEF MainInv, HostInv
      <4>2. Len(HostProg) \in Nat /\ (Len(HostProg) - Len(host)) + 1 = Len(HostProg)
        BY <3>2, <3>4 DEF Done
      <4>3. Len(host) = 1
        <5>1. \A x, y \in Nat : (x - y) + 1 = x => y = 1
          OBVIOUS
        <5>2. QED
          BY Zenon, <4>1, <4>2, <5>1
      <4>4. QED
        BY <2>1, <4>1, <4>3
    <3>7. QED
      BY Zenon, <2>1, <2>2, <3>5, <3>6 DEF RunInv
  <2>4. CASE Head(host)[1] # "run"
    <3>1. What # "run"
      BY Zenon, <2>1, <2>4, ReadyHolds DEF HostReady
    <3>2. \A t \in Tids : <<"run", t>> \in made' => <<"run", t>> \in made
      BY Zenon, <2>1, <3>1
    <3>3. QED
      BY Zenon, <2>1, <2>2, <3>2 DEF RunInv
  <2>5. QED
    BY Zenon, <2>3, <2>4
<1>5. QED
  BY Zenon, <1>2, <1>3, <1>4, HostMoves

\* A handler that main is about to run does not run yet.
LEMMA RunOnce == MainInv /\ RunInv /\ host # <<>> /\ Head(host)[1] = "run" => <<"run", Tid>> \notin made
<1> SUFFICES ASSUME MainInv, RunInv, host # <<>>, Head(host)[1] = "run"  PROVE <<"run", Tid>> \notin made
  BY Zenon
<1>1. /\ Done \in Nat /\ Done + 1 \in 1..Len(HostProg) /\ Head(host) = HostProg[Done + 1]
  BY Zenon, NextIs
<1>2. HostProg \in Seq(HostCalls) /\ SettingsInv
  BY Zenon, HostProgIs DEF MainInv
<1>3. Done < Len(HostProg)
  BY <1>1, <1>2
<1>4. HostProg[Done + 1][3] = begin_thread + loop - 1
  BY Zenon, <1>1, <1>2, <1>3, RunCalls
<1> HIDE DEF HostProg
<1>5. Tid = begin_thread + loop - 1 /\ Tid \in Tids
  BY Zenon, <1>1, <1>4, ReadyHolds DEF Tid, HostReady
<1>6. Tid \in Nat
  BY <1>5, ThreadsAssumption DEF Tids
<1>7. ~(Tid < begin_thread + loop - 1)
  BY <1>5, <1>6
<1>8. QED
  BY Zenon, <1>5, <1>7 DEF RunInv

\* What main has done, in every state.
THEOREM HostInvariant == HostSpec => []MainInv
BY MainInvInit, MainInvStep, PTL DEF HostSpec

\* Every call of main on the wrapper finds what its Asserts demand.
THEOREM CallsFindTheirNeeds == HostSpec => []NeedsMet
BY HostInvariant, NeedsHold, PTL
=============================================================================
