---------------------------- MODULE DpaApp_proofs ----------------------------
(***************************************************************************)
(* The DPA applications at run time, for any number of threads, any ring   *)
(* size and any bound on the packets: the device implements its host, its  *)
(* windows are right, what it writes is announced, reflectors answer every *)
(* packet once and the aggregation table is exact.  The steps of the       *)
(* device are first sorted by what they do to the programs; the invariant  *)
(* then follows from what DpaPrograms_proofs says about each program.      *)
(***************************************************************************)
EXTENDS DpaApp, DpaHost_proofs, DpaPrograms_proofs
----------------------------------------------------------------------------
(* The invariant *)

Wqes == {"tx", "rx"} \X Nat
DevTypes ==
  /\ todo \in [Actors -> Seq(Ops)] /\ act \in [Tids -> BOOLEAN]
  /\ win \in [Actors -> Args \cup {None}] /\ dirty \in [Actors -> SUBSET Args]
  /\ cur \in [Actors -> Nat] /\ frames \in [Actors -> Seq(Wqes)]
  /\ txi \in [Tids -> Nat] /\ rxi \in [Tids -> Nat] /\ rxq \in [Tids -> Seq(Messages(app))]
  /\ arrived \in [Tids -> Nat] /\ sent \in [Tids -> Nat]
  /\ kv \in [Keys -> Nat] /\ added \in [Keys -> Nat]

\* What is known of the contexts: those initialised hold the placement of main,
\* handlers run on them and on no others, and so does the first-packet RPC.
CtxInv ==
  /\ ctx = [t \in Tids |-> ctx[t]] /\ rpc \in 0..MAX_THREADS /\ entry \in BOOLEAN
  /\ \A t \in Tids : Ready(t) => ctx[t] = DeviceInit(app, place)
  /\ \A t \in Tids : act[t] \/ todo[t] # <<>> => <<"run", t>> \in made
  /\ \A t \in Tids : <<"run", t>> \in made => Ready(t)
  /\ rpc # MAX_THREADS => app \in Callers /\ (app \notin Threaded => rpc = 0 /\ Ready(0))
  /\ todo[RPC] # <<>> => app \in Callers
  /\ app = "kv" /\ Ready(0) => entry
  /\ app \notin PingPongs \cup {"bank_client"} => \A t \in Tids : wire[t] = <<>>

\* What each actor has yet to do is the rest of a program that is right for its
\* application and placement, with the window as it is now.
Started(a) == a = RPC \/ act[a] \/ todo[a] # <<>>
ProgInv ==
  \A a \in Actors : /\ Good(app, place, a, todo[a])
                    /\ Started(a) => Windowed(app, place, a, todo[a], win[a])

\* A handler about to take a completion finds one.
NoStep(s) == \A i \in 1..Len(s) : s[i][1] # "step"
QueueInv == \A t \in Tids : rxq[t] = <<>> => NoStep(todo[t])

DevInv == MainInv /\ RunInv /\ DevTypes /\ CtxInv /\ ProgInv /\ QueueInv

\* A thread between the load and the store of += has the entry's present value,
\* and is alone with it.
At(a, name) == todo[a] # <<>> /\ Op(a)[1] = name
KvInv ==
  "overlapped" \notin hist =>
    /\ kv = added
    /\ \A a \in Tids : At(a, "put") => cur[a] = kv[Arg(a)]
    /\ \A a, b \in Tids : At(a, "put") /\ At(b, "put") /\ Arg(a) = Arg(b) => a = b

\* A reflector has one frame written when it rings, and none otherwise.
AnswerInv ==
  app \in Reflectors => \A t \in Tids :
    /\ Len(frames[t]) = IF At(t, "ring") THEN 1 ELSE 0
    /\ sent[t] + Len(rxq[t]) = arrived[t] + IF At(t, "step") THEN 1 ELSE 0

\* What is written or posted will be announced.
AnnounceInv ==
  \A a \in Actors :
    /\ frames[a] # <<>> => \E j \in 1..Len(todo[a]) : todo[a][j][1] = "ring"
    /\ SendBuffer(app) \in dirty[a] /\ ~(a = RPC /\ app = "send_mt") =>
         \E j \in 1..Len(todo[a]) : Clears(app, place, todo[a][j])

----------------------------------------------------------------------------
(* The steps of the device, by what they do to the programs *)

ActChanges(a) == act' \in [Tids -> BOOLEAN] /\ \A t \in Tids \ {a} : act'[t] = act[t]
\* An actor makes the next access of its program.
Advances(a) ==
  /\ todo[a] # <<>> /\ todo' = [todo EXCEPT ![a] = Tail(@)]
  /\ win' = IF Op(a)[1] = "window" THEN [win EXCEPT ![a] = KeyOf(place, Arg(a))] ELSE win
  /\ dirty' = IF Op(a)[1] = "store" THEN [dirty EXCEPT ![a] = @ \cup {Arg(a)}]
              ELSE IF Op(a)[1] \in {"mac", "headers"} THEN [dirty EXCEPT ![a] = @ \cup {"tx"}]
              ELSE IF Op(a)[1] = "ring"
                   THEN [dirty EXCEPT ![a] = {b \in @ : Arg(a) = "mem" /\ Held(place, b) = "host"}]
              ELSE dirty
  /\ cur' = IF Op(a)[1] = "take" THEN [cur EXCEPT ![a] = txi[Ctx(a)]]
            ELSE IF Op(a)[1] = "get" THEN [cur EXCEPT ![a] = kv[Arg(a)]] ELSE cur
  /\ frames' = IF Op(a)[1] = "post"
               THEN [frames EXCEPT ![a] = Append(@, IF Arg(a) = "tx" THEN <<"tx", cur[a]>>
                                                    ELSE <<"rx", rxi[Ctx(a)]>>)]
               ELSE IF Op(a)[1] = "ring" THEN [frames EXCEPT ![a] = <<>>] ELSE frames
  /\ txi' = IF Op(a)[1] = "bump" THEN [txi EXCEPT ![Ctx(a)] = (cur[a] + 1) % Depth] ELSE txi
  /\ rxi' = IF Op(a)[1] = "step" THEN [rxi EXCEPT ![a] = (@ + 1) % Depth] ELSE rxi
  /\ rxq' = IF Op(a)[1] = "step" THEN [rxq EXCEPT ![a] = Tail(@)] ELSE rxq
  /\ sent' = IF Op(a)[1] = "ring" /\ app \in Reflectors
             THEN [sent EXCEPT ![Ctx(a)] = @ + Len(frames[a])] ELSE sent
  /\ kv' = IF Op(a)[1] = "put" THEN [kv EXCEPT ![Arg(a)] = cur[a] + 1] ELSE kv
  /\ added' = IF Op(a)[1] = "put" THEN [added EXCEPT ![Arg(a)] = @ + 1] ELSE added
  /\ hist \subseteq hist' /\ (Op(a)[1] = "get" /\ Adding(Arg(a)) # {} => "overlapped" \in hist')
  /\ ActChanges(a) /\ UNCHANGED <<app, place, arrived>>
\* A batch handler takes one more completion before it goes on.
Drains(a) ==
  /\ At(a, "drain") /\ rxq[a] # <<>>
  /\ rxq' = [rxq EXCEPT ![a] = Tail(@)] /\ rxi' = [rxi EXCEPT ![a] = (@ + 1) % Depth]
  /\ UNCHANGED <<app, place, act, todo, win, dirty, cur, frames, txi, arrived, sent, kv, added, hist>>
\* A handler or the RPC begins a program that is right for it.
Begins(a, s) ==
  /\ todo[a] = <<>> /\ todo' = [todo EXCEPT ![a] = s]
  /\ Good(app, place, a, s) /\ NotPut(s) /\ Windowed(app, place, a, s, win[a])
  /\ a \in Tids /\ rxq[a] = <<>> => NoStep(s)
  /\ app \in Reflectors => Configures(s) \/ Len(s) > 3
  /\ ActChanges(a)
  /\ UNCHANGED <<app, place, win, dirty, cur, frames, txi, rxi, rxq, arrived, sent, kv, added, hist>>
\* Nothing happens to the programs.
Rests ==
  /\ act' \in [Tids -> BOOLEAN] /\ \A t \in Tids : act'[t] => act[t]
  /\ rxq' \in [Tids -> Seq(Messages(app))] /\ arrived' \in [Tids -> Nat]
  /\ \A t \in Tids : rxq'[t] = <<>> => rxq[t] = <<>>
  /\ app \in Reflectors => \A t \in Tids : Len(rxq'[t]) - Len(rxq[t]) = arrived'[t] - arrived[t]
  /\ hist \subseteq hist'
  /\ UNCHANGED <<app, place, todo, win, dirty, cur, frames, txi, rxi, sent, kv, added>>
DevStep ==
  \/ \E a \in Actors : Advances(a) \/ Drains(a) \/ \E s : Begins(a, s)
  \/ Rests

\* Each access of a program advances it, or drains one completion.
LEMMA AccessAdvances ==
  ASSUME NEW a \in Actors, act \in [Tids -> BOOLEAN], UNCHANGED <<hostVars, rpc, ctx>>,
         \/ window_mkey_config(a) \/ load(a) \/ store(a) \/ write_header(a) \/ take(a) \/ bump(a)
         \/ write_wqe(a) \/ ring_db(a) \/ get(a) \/ put(a) \/ step(a) \/ drain(a) \/ count(a)
  PROVE  Advances(a) \/ Drains(a)
<1> USE DEF NextOp, ActChanges, sendVars, ringVars, kvVars, hostVars, fixed
<1>1. CASE window_mkey_config(a)
  BY Zenon, <1>1 DEF window_mkey_config, Advances, Key, KeyOf
<1>2. CASE load(a)
  BY Zenon, <1>2 DEF load, Advances
<1>3. CASE store(a)
  BY Zenon, <1>3 DEF store, Advances
<1>4. CASE write_header(a)
  BY Zenon, <1>4 DEF write_header, Advances
<1>5. CASE take(a)
  BY Zenon, <1>5 DEF take, Advances
<1>6. CASE bump(a)
  BY Zenon, <1>6 DEF bump, Advances
<1>7. CASE write_wqe(a)
  BY Zenon, <1>7 DEF write_wqe, Advances
<1>8. CASE ring_db(a)
  BY Zenon, <1>8 DEF ring_db, Advances, Where, Held
<1>9. CASE get(a)
  BY Zenon, <1>9 DEF get, Advances
<1>10. CASE put(a)
  BY Zenon, <1>10 DEF put, Advances
<1>11. CASE step(a)
  BY Zenon, <1>11 DEF step, Advances
<1>12. CASE drain(a)
  BY Zenon, <1>12 DEF drain, Advances, Drains, At
<1>13. CASE count(a)
  BY Zenon, <1>13 DEF count, Advances
<1>14. QED
  BY ZenonT(30), <1>1, <1>2, <1>3, <1>4, <1>5, <1>6, <1>7, <1>8, <1>9, <1>10, <1>11, <1>12, <1>13

\* Handlers and the RPC thread are different actors; the threads of a main are threads
\* of the device, and its setting is one of its application's.
LEMMA Populations ==
  ASSUME MainInv
  PROVE  /\ Threads \subseteq Tids /\ Tids \subseteq Actors /\ RPC \in Actors /\ RPC \notin Tids
         /\ \A a \in Actors : a # RPC => a \in Tids
         /\ app \in Apps /\ place \in Placements(app) /\ 0 \in Tids
         /\ \A t \in Tids : t # MAX_THREADS
BY ThreadsAssumption DEF MainInv, SettingsInv, Threads, Tids, Actors, RPC

\* The window of a handler between two packets.
LEMMA HomeBetween ==
  ASSUME MainInv, ProgInv, NEW t \in Tids, act[t], todo[t] = <<>>, NeedsHome(app, place)
  PROVE  win[t] = Home(app, place)
<1>1. t \in Actors /\ t # RPC /\ Started(t)
  BY Zenon, Populations DEF Started
<1>2. Windowed(app, place, t, <<>>, win[t])
  BY Zenon, <1>1 DEF ProgInv
<1>3. LastKey(place, <<>>, 1, win[t], Home(app, place))
  <2>1. Len(<<>>) + 1 = 1
    OBVIOUS
  <2>2. QED
    BY Zenon, <1>1, <1>2, <2>1 DEF Windowed
<1>4. QED
  BY <1>3 DEF LastKey

\* A handler that finds a packet, stops, or is activated again, begins a right program
\* or rests.
LEMMA HandlerBegins ==
  ASSUME DevInv, UNCHANGED <<hostVars, rpc, ctx>>, NEW t \in Threads, event_handler(t) \/ activate(t)
  PROVE  DevStep
<1>1. /\ t \in Tids /\ t \in Actors /\ t # RPC /\ app \in Apps /\ place \in Placements(app)
      /\ DevTypes /\ ProgInv /\ MainInv /\ app' = app /\ place' = place /\ todo[t] = <<>>
  BY Zenon, Populations DEF DevInv, hostVars, fixed, event_handler, activate
<1>2. <<"run", t>> \in made => ctx[t] = DeviceInit(app, place)
  BY Zenon, <1>1 DEF DevInv, CtxInv
<1>3. act[t] => <<"run", t>> \in made
  BY Zenon, <1>1 DEF DevInv, CtxInv
<1>4. CASE activate(t)
  <2> DEFINE s == Start(app, ctx[t], t)
  <2>1. s = Start(app, DeviceInit(app, place), t)
    BY Zenon, <1>2, <1>4 DEF activate
  <2> HIDE DEF s
  <2>2. Good(app, place, t, s) /\ Configures(s) /\ Windowed(app, place, t, s, win[t])
    BY Zenon, <1>1, <2>1, StartFit
  <2>3. NotPut(s) /\ NoStep(s)
    <3>1. s \in Seq(Ops)
      BY Zenon, <2>2 DEF Good
    <3>2. QED
      BY <2>2, <3>1 DEF Configures, NotPut, NoStep
  <2>4. todo' = [todo EXCEPT ![t] = s] /\ act' = [act EXCEPT ![t] = TRUE]
    BY Zenon, <1>4 DEF activate, s
  <2>5. UNCHANGED <<win, dirty, cur, frames, txi, rxi, rxq, arrived, sent, kv, added, hist>>
    BY Zenon, <1>4 DEF activate, sendVars, ringVars, kvVars
  <2>6. ActChanges(t)
    BY Zenon, <1>1, <2>4 DEF ActChanges, DevTypes
  <2>7. Begins(t, s)
    BY ZenonT(30), <1>1, <2>2, <2>3, <2>4, <2>5, <2>6 DEF Begins
  <2>8. QED
    BY Zenon, <1>1, <2>7 DEF DevStep
<1>5. CASE event_handler(t)
  <2>1. /\ act[t] /\ ctx[t] = DeviceInit(app, place) /\ (NeedsHome(app, place) => win[t] = Home(app, place))
        /\ UNCHANGED <<win, dirty, cur, frames, txi, rxi, rxq, arrived, sent, kv, added, hist>>
    <3>1. act[t] /\ UNCHANGED <<win, dirty, cur, frames, txi, rxi, rxq, arrived, sent, kv, added, hist>>
      BY ZenonT(30), <1>5 DEF event_handler, sendVars, ringVars, kvVars
    <3>2. QED
      BY ZenonT(30), <1>1, <1>2, <1>3, <3>1, HomeBetween
  <2>2. CASE app = "send_mt" /\ ~stop
    <3> DEFINE s == IF DeviceInit("send_mt", place).tx = "host" THEN send_packet_on_host(t) ELSE send_packet_dpa(t)
    <3>1. todo' = [todo EXCEPT ![t] = s] /\ act' = [act EXCEPT ![t] = ~stop]
      BY ZenonT(30), <1>5, <2>1, <2>2 DEF event_handler
    <3>2. /\ Good(app, place, t, s) /\ NotPut(s) /\ Windowed(app, place, t, s, win[t])
          /\ \A i \in 1..Len(s) : s[i][1] # "step"
      BY ZenonT(30), <1>1, <2>1, <2>2, FrameFit
    <3> HIDE DEF s
    <3>3. ActChanges(t) /\ app \notin Reflectors
      BY ZenonT(30), <1>1, <2>2, <3>1 DEF ActChanges, DevTypes, Reflectors
    <3>4. Begins(t, s)
      BY ZenonT(30), <1>1, <2>1, <3>1, <3>2, <3>3 DEF Begins, NoStep
    <3>5. QED
      BY Zenon, <1>1, <3>4 DEF DevStep
  <2>3. CASE app # "send_mt" /\ rxq[t] # <<>>
    <3> DEFINE m == Head(rxq[t])
               s == Process(app, DeviceInit(app, place), m, t)
    <3>1. todo' = [todo EXCEPT ![t] = s] /\ act' = act
      BY ZenonT(30), <1>5, <2>1, <2>3 DEF event_handler
    <3>2. m \in Messages(app)
      BY SMTT(30), <1>1, <2>3 DEF DevTypes
    <3> HIDE DEF m
    <3>3. Good(app, place, t, s) /\ NotPut(s) /\ Windowed(app, place, t, s, win[t]) /\ (app \in Reflectors => Len(s) > 3)
      BY ZenonT(30), <1>1, <2>1, <2>3, <3>2, ProcessFit
    <3> HIDE DEF s
    <3>4. ActChanges(t)
      BY Zenon, <1>1, <3>1 DEF ActChanges, DevTypes
    <3>5. Begins(t, s)
      BY ZenonT(30), <1>1, <2>1, <2>3, <3>1, <3>3, <3>4 DEF Begins
    <3>6. QED
      BY Zenon, <1>1, <3>5 DEF DevStep
  <2>4. CASE IF app = "send_mt" THEN stop ELSE rxq[t] = <<>>
    <3>1. todo' = todo /\ (act' = [act EXCEPT ![t] = FALSE] \/ act' = [act EXCEPT ![t] = ~stop])
      <4>1. CASE app = "send_mt"
        <5>1. todo' = [todo EXCEPT ![t] = <<>>] /\ act' = [act EXCEPT ![t] = ~stop]
          BY ZenonT(30), <1>5, <2>4, <4>1 DEF event_handler
        <5>2. QED
          BY ZenonT(30), <1>1, <5>1 DEF DevTypes
      <4>2. CASE app # "send_mt"
        BY ZenonT(30), <1>5, <2>4, <4>2 DEF event_handler
      <4>3. QED
        BY Zenon, <4>1, <4>2
    <3>2. act' \in [Tids -> BOOLEAN] /\ \A u \in Tids : act'[u] => act[u]
      BY ZenonT(30), <1>1, <2>1, <3>1 DEF DevTypes
    <3>2a. Rests
      BY SMTT(30), <1>1, <2>1, <3>1, <3>2 DEF Rests, DevTypes
    <3>3. QED
      BY Zenon, <3>2a DEF DevStep
  <2>5. QED
    BY Zenon, <2>2, <2>3, <2>4
<1>6. QED
  BY Zenon, <1>4, <1>5

\* Every step of the device model is a step of main, or none.
LEMMA HostPart ==
  ASSUME [DNext]_dvars
  PROVE  [HostNext]_hostVars /\ app' = app /\ place' = place
<1>1. CASE HostStep
  <2>1. HostNext
    BY Zenon, <1>1 DEF HostStep, host_call, device_init, event_handler_run, first_packet, stop_rpc, HostNext
  <2>2. UNCHANGED fixed
    BY Zenon, <1>1 DEF HostStep, host_call, device_init, event_handler_run, first_packet, stop_rpc,
       next_thread, make, set_mac, clear, create_flow_table, create_dr_rule, leave, NextCall
  <2>3. QED
    BY ZenonT(30), <2>1, <2>2 DEF fixed
<1>2. CASE next_context
  BY Zenon, <1>2 DEF next_context, hostVars, fixed
<1>3. CASE UNCHANGED <<hostVars, rpc, ctx>>
  BY Zenon, <1>3 DEF hostVars, fixed
<1>4. CASE UNCHANGED dvars
  BY Zenon, <1>4 DEF dvars, hostVars, fixed
<1>5. QED
  BY ZenonT(30), <1>1, <1>2, <1>3, <1>4 DEF DNext

\* A step that changes nothing the programs see rests.
LEMMA StillRests ==
  ASSUME DevTypes, app' = app, place' = place,
         UNCHANGED <<act, todo, win, dirty, cur, frames, txi, rxi, rxq, arrived, sent, kv, added, hist>>
  PROVE  Rests
BY DEF Rests, DevTypes

\* A step of main begins the program of the handler it runs, and otherwise leaves the
\* programs alone.
LEMMA HostSteps ==
  ASSUME DevInv, HostStep, app' = app, place' = place
  PROVE  DevStep
<1>1. CASE event_handler_run
  <2> DEFINE s == Start(app, ctx[Tid], Tid)
  <2>1. host # <<>> /\ Head(host)[1] = "run"
    BY Zenon, <1>1 DEF event_handler_run, make, NextCall
  <2>2. Tid \in Tids /\ Ready(Tid) /\ <<"run", Tid>> \notin made /\ MainInv /\ DevTypes
    BY Zenon, <2>1, ReadyHolds, RunOnce DEF HostReady, DevInv
  <2>3. /\ ctx[Tid] = DeviceInit(app, place) /\ todo[Tid] = <<>> /\ Tid \in Actors
        /\ app \in Apps /\ place \in Placements(app)
    BY Zenon, <2>2, Populations DEF DevInv, CtxInv
  <2>4. todo' = [todo EXCEPT ![Tid] = s] /\ act' = [act EXCEPT ![Tid] = Ready(Tid)]
    BY Zenon, <1>1, <2>2 DEF event_handler_run
  <2>5. UNCHANGED <<win, dirty, cur, frames, txi, rxi, rxq, arrived, sent, kv, added, hist>>
    BY Zenon, <1>1 DEF event_handler_run, sendVars, ringVars, kvVars
  <2> DEFINE t == Tid
  <2> HIDE DEF t
  <2>6. s = Start(app, DeviceInit(app, place), t)
    BY Zenon, <2>3 DEF t
  <2> HIDE DEF s
  <2>7. Good(app, place, t, s) /\ Configures(s) /\ Windowed(app, place, t, s, win[t])
    BY Zenon, <2>2, <2>3, <2>6, StartFit DEF t
  <2>8. NotPut(s) /\ NoStep(s)
    <3>1. s \in Seq(Ops)
      BY Zenon, <2>7 DEF Good
    <3>2. QED
      BY <2>7, <3>1 DEF Configures, NotPut, NoStep
  <2>9. ActChanges(t)
    BY Zenon, <2>2, <2>4 DEF ActChanges, DevTypes, Ready, t
  <2>10. Begins(t, s)
    BY ZenonT(30), <2>3, <2>4, <2>5, <2>7, <2>8, <2>9 DEF Begins, t
  <2>11. QED
    BY ZenonT(30), <2>3, <2>10 DEF DevStep, t
<1>2. CASE host_call \/ device_init \/ first_packet \/ stop_rpc
  <2>1. UNCHANGED <<act, todo, win, dirty, cur, frames, txi, rxi, rxq, arrived, sent, kv, added, hist>>
    BY Zenon, <1>2 DEF host_call, device_init, first_packet, stop_rpc, deviceVars, sendVars, ringVars, kvVars
  <2>2. QED
    BY ZenonT(30), <2>1, StillRests DEF DevStep, DevInv
<1>3. QED
  BY Zenon, <1>1, <1>2 DEF HostStep

\* The first-packet RPC begins the program of the context it has come to, or passes it
\* over.
LEMMA RpcSteps ==
  ASSUME DevInv, next_context, app' = app, place' = place
  PROVE  DevStep
<1>1. /\ todo[RPC] = <<>> /\ rpc \in Tids /\ rpc # MAX_THREADS
      /\ UNCHANGED <<act, win, dirty, cur, frames, txi, rxi, rxq, arrived, sent, kv, added, hist>>
  <2>1. rpc \in 0..MAX_THREADS /\ rpc < MAX_THREADS
    BY Zenon DEF DevInv, CtxInv, next_context
  <2>2. QED
    BY SMTT(30), <2>1, ThreadsAssumption DEF next_context, sendVars, ringVars, kvVars, Tids
<1>2. DevTypes /\ MainInv /\ RPC \in Actors /\ RPC \notin Tids /\ app \in Apps /\ place \in Placements(app)
  BY Zenon, Populations DEF DevInv
<1>3. CASE app \in Threaded /\ ~Ready(rpc)
  <2>1. todo' = todo
    BY Zenon, <1>1, <1>2, <1>3 DEF next_context, DevTypes
  <2>2. QED
    BY Zenon, <1>1, <1>2, <2>1, StillRests DEF DevStep
<1>4. CASE ~(app \in Threaded /\ ~Ready(rpc))
  <2> DEFINE s == FirstPacket(app, DeviceInit(app, place), rpc)
  <2>1. app \in Firsts /\ Ready(rpc) /\ app \notin Reflectors
    BY Zenon, <1>1, <1>4 DEF DevInv, CtxInv, Callers, Firsts, PingPongs, Reflectors
  <2>2. ctx[rpc] = DeviceInit(app, place)
    BY Zenon, <1>1, <2>1 DEF DevInv, CtxInv
  <2>3. todo' = [todo EXCEPT ![RPC] = s]
    BY Zenon, <1>4, <2>2 DEF next_context
  <2>4. Good(app, place, RPC, s) /\ NotPut(s) /\ Windowed(app, place, RPC, s, win[RPC])
    BY Zenon, <1>1, <1>2, <2>1, FirstFit
  <2> HIDE DEF s
  <2>5. ActChanges(RPC)
    BY Zenon, <1>1, <1>2 DEF ActChanges, DevTypes
  <2>6. Begins(RPC, s)
    BY ZenonT(30), <1>1, <1>2, <2>1, <2>3, <2>4, <2>5 DEF Begins
  <2>7. QED
    BY Zenon, <1>2, <2>6 DEF DevStep
<1>5. QED
  BY Zenon, <1>3, <1>4

\* Appending to a queue makes it one longer.
LEMMA Appended ==
  ASSUME NEW S, NEW q \in Seq(S), NEW m \in S
  PROVE  /\ Append(q, m) \in Seq(S) /\ Len(Append(q, m)) = Len(q) + 1 /\ Len(q) \in Nat
         /\ Append(q, m) # <<>>
<1>1. Append(q, m) \in Seq(S) /\ Len(Append(q, m)) = Len(q) + 1 /\ Len(q) \in Nat
  OBVIOUS
<1>2. QED
  BY <1>1

\* The NIC and the wire leave the programs alone; what they deliver to a reflector they
\* count.
LEMMA NicSteps ==
  ASSUME DevInv, NicStep, UNCHANGED <<hostVars, rpc, ctx>>
  PROVE  DevStep
<1>1. PICK t \in Threads : Transmit(t) \/ Echo(t) \/ Lose(t)
        \/ \E m \in {"ok", "odd"} \cup Keys : ClientSends(t, m) \/ ForeignPacket(t, m)
  BY Zenon DEF NicStep
<1>2. /\ t \in Tids /\ DevTypes /\ app' = app /\ place' = place
      /\ app \notin PingPongs \cup {"bank_client"} => wire[t] = <<>>
  BY Zenon, Populations DEF DevInv, CtxInv, hostVars, fixed
<1>3. CASE Transmit(t) \/ Lose(t)
  <2>1. UNCHANGED <<act, todo, win, dirty, cur, frames, txi, rxi, rxq, arrived, sent, kv, added, hist>>
    BY Zenon, <1>3 DEF Transmit, Lose, sendVars, kvVars
  <2>2. QED
    BY ZenonT(30), <1>2, <2>1, StillRests DEF DevStep
<1>4. ASSUME NEW m \in Messages(app), rxq' = [rxq EXCEPT ![t] = Append(@, m)],
             arrived' = [arrived EXCEPT ![t] = @ + 1]
               \/ (app \notin Reflectors /\ (arrived' = arrived \/ arrived' = [arrived EXCEPT ![t] = 1])),
             hist \subseteq hist',
             UNCHANGED <<act, todo, win, dirty, cur, frames, txi, rxi, sent, kv, added>>
      PROVE  DevStep
  <2>1. /\ rxq \in [Tids -> Seq(Messages(app))] /\ arrived \in [Tids -> Nat]
        /\ Append(rxq[t], m) \in Seq(Messages(app)) /\ Append(rxq[t], m) # <<>>
        /\ Len(Append(rxq[t], m)) = Len(rxq[t]) + 1 /\ \A u \in Tids : Len(rxq[u]) \in Nat
    <3>1. rxq \in [Tids -> Seq(Messages(app))] /\ arrived \in [Tids -> Nat]
      BY Zenon, <1>2 DEF DevTypes
    <3>2. rxq[t] \in Seq(Messages(app)) /\ \A u \in Tids : Len(rxq[u]) \in Nat
      BY <1>2, <3>1
    <3>3. QED
      BY Zenon, <1>4, <3>1, <3>2, Appended
  <2>1a. /\ rxq' \in [Tids -> Seq(Messages(app))]
         /\ \A u \in Tids : rxq'[u] = IF u = t THEN Append(rxq[t], m) ELSE rxq[u]
    BY ZenonT(30), <1>2, <1>4, <2>1
  <2>1b. /\ arrived' \in [Tids -> Nat]
         /\ app \in Reflectors => \A u \in Tids : arrived'[u] = IF u = t THEN arrived[t] + 1 ELSE arrived[u]
    BY SMTT(30), <1>2, <1>4, <2>1
  <2>2. app \in Reflectors => \A u \in Tids : Len(rxq'[u]) - Len(rxq[u]) = arrived'[u] - arrived[u]
    <3>1. SUFFICES ASSUME app \in Reflectors, NEW u \in Tids PROVE Len(rxq'[u]) - Len(rxq[u]) = arrived'[u] - arrived[u]
      BY Zenon
    <3>2. CASE u = t
      BY SMTT(20), <2>1, <2>1a, <2>1b, <3>1, <3>2
    <3>3. CASE u # t
      BY SMTT(20), <2>1, <2>1a, <2>1b, <3>1, <3>3
    <3>4. QED
      BY Zenon, <3>2, <3>3
  <2>2a. \A u \in Tids : rxq'[u] = <<>> => rxq[u] = <<>>
    BY Zenon, <2>1, <2>1a
  <2>3. Rests
    BY ZenonT(30), <1>2, <1>4, <2>1a, <2>1b, <2>2, <2>2a DEF Rests, DevTypes
  <2>4. QED
    BY Zenon, <2>3 DEF DevStep
<1>5. CASE Echo(t)
  <2> DEFINE m == IF app # "bank_client" \/ arrived[t] > 0 THEN "ok" ELSE "ping"
  <2>1. app \in PingPongs \cup {"bank_client"} /\ rxq' = [rxq EXCEPT ![t] = Append(@, m)]
    BY Zenon, <1>2, <1>5 DEF Echo, Deliver
  <2>2. m \in Messages(app) /\ app \notin Reflectors
    BY Zenon, <2>1 DEF Messages, PingPongs, Reflectors
  <2>3. /\ arrived' = arrived \/ arrived' = [arrived EXCEPT ![t] = 1]
        /\ UNCHANGED <<act, todo, win, dirty, cur, frames, txi, rxi, sent, kv, added>> /\ hist' = hist
    BY Zenon, <1>5 DEF Echo, kvVars
  <2> HIDE DEF m
  <2>4. QED
    BY Zenon, <1>4, <2>1, <2>2, <2>3
<1>6. ASSUME NEW m, ClientSends(t, m) \/ ForeignPacket(t, m) PROVE DevStep
  <2>1. rxq' = [rxq EXCEPT ![t] = Append(@, m)] /\ m \in Messages(app) /\ hist \subseteq hist'
    BY Zenon, <1>6 DEF ClientSends, ForeignPacket, Deliver, Messages, PingPongs
  <2>2. /\ arrived' = [arrived EXCEPT ![t] = @ + 1] \/ (app \notin Reflectors /\ arrived' = arrived)
        /\ UNCHANGED <<act, todo, win, dirty, cur, frames, txi, rxi, sent, kv, added>>
    BY Zenon, <1>6 DEF ClientSends, ForeignPacket, kvVars, PingPongs, Reflectors
  <2>3. QED
    BY ZenonT(30), <1>4, <2>1, <2>2
<1>7. QED
  BY Zenon, <1>1, <1>3, <1>5, <1>6

\* Every step of the device is a DevStep.
LEMMA DevSteps == DevInv /\ [DNext]_dvars => DevStep
<1> SUFFICES ASSUME DevInv, [DNext]_dvars PROVE DevStep
  BY Zenon
<1>1. app' = app /\ place' = place /\ act \in [Tids -> BOOLEAN] /\ DevTypes
  BY Zenon, HostPart DEF DevInv, DevTypes
<1>2. CASE UNCHANGED dvars
  <2>1. UNCHANGED <<act, todo, win, dirty, cur, frames, txi, rxi, rxq, arrived, sent, kv, added, hist>>
    BY Zenon, <1>2 DEF dvars, deviceVars, sendVars, ringVars, kvVars
  <2>2. QED
    BY ZenonT(30), <1>1, <2>1, StillRests DEF DevStep
<1>3. CASE HostStep
  BY Zenon, <1>1, <1>3, HostSteps
<1>4. CASE next_context
  BY Zenon, <1>1, <1>4, RpcSteps
<1>5. CASE NicStep /\ UNCHANGED <<hostVars, rpc, ctx>>
  BY Zenon, <1>5, NicSteps
<1>6. CASE DeviceStep /\ UNCHANGED <<hostVars, rpc, ctx>>
  BY ZenonT(30), <1>1, <1>6, AccessAdvances, HandlerBegins DEF DeviceStep, DevStep
<1>7. QED
  BY ZenonT(30), <1>2, <1>3, <1>4, <1>5, <1>6 DEF DNext

----------------------------------------------------------------------------
(* The invariant is kept *)

\* The next operation of an actor, and what its program being right says about it.
LEMMA NextAccess ==
  ASSUME DevInv, NEW a \in Actors, todo[a] # <<>>
  PROVE  /\ Op(a) = todo[a][1] /\ 1 \in 1..Len(todo[a]) /\ Op(a) \in Ops /\ Arg(a) \in Args /\ Ctx(a) \in Tids
         /\ a # RPC => Ctx(a) = a
         /\ Op(a)[1] \in {"get", "put"} => a \in Tids /\ Arg(a) \in Keys
         /\ Op(a)[1] \in {"step", "drain"} => a \in Tids /\ NoStep(Tail(todo[a]))
         /\ Op(a)[1] = "step" => rxq[a] # <<>>
         /\ Tail(todo[a]) \in Seq(Ops) /\ Good(app, place, a, Tail(todo[a]))
<1> DEFINE s == todo[a]
<1>1. s \in Seq(Ops) /\ Good(app, place, a, s) /\ MainInv
  BY Zenon DEF DevInv, DevTypes, ProgInv
<1>2. a # RPC => a \in Tids
  BY Zenon, <1>1, Populations
<1> HIDE DEF s
<1>3. s # <<>> /\ Op(a) = Head(s) /\ Arg(a) = Head(s)[2] /\ Ctx(a) = Head(s)[3]
  BY Zenon DEF Op, Arg, Ctx, s
<1>4. Good(app, place, a, Tail(s)) /\ Head(s) = s[1]
  BY Zenon, <1>1, <1>3, GoodTail
<1>5. 1 \in 1..Len(s) /\ s[1] \in Ops /\ Tail(s) \in Seq(Ops)
  BY SMTT(30), <1>1, <1>3
<1>6. s[1][2] \in Args /\ s[1][3] \in Tids
  BY Zenon, <1>5 DEF Ops
<1>7. OwnContext(a, s) /\ Aggregates(a, s) /\ Consumes(a, s)
  BY Zenon, <1>1 DEF Good
<1>8. a # RPC => s[1][3] = a
  BY Zenon, <1>5, <1>7 DEF OwnContext
<1>9. s[1][1] \in {"get", "put"} => a # RPC /\ s[1][2] \in Keys
  BY Zenon, <1>5, <1>7 DEF Aggregates
<1>10. s[1][1] \in {"step", "drain"} => a # RPC /\ NoStep(Tail(s))
  <2>1. HAVE s[1][1] \in {"step", "drain"}
  <2>2. a # RPC /\ \A j \in (1 + 1)..Len(s) : s[j][1] # "step"
    BY Zenon, <1>5, <1>7, <2>1 DEF Consumes
  <2>3. \A j \in 1..Len(Tail(s)) : j + 1 \in (1 + 1)..Len(s) /\ Tail(s)[j] = s[j + 1]
    BY SMTT(30), <1>1, <1>3
  <2>4. QED
    BY Zenon, <2>2, <2>3 DEF NoStep
<1>11. s[1][1] = "step" => rxq[a] # <<>>
  <2>1. HAVE s[1][1] = "step"
  <2>2. a \in Tids
    BY Zenon, <1>2, <1>10, <2>1
  <2>3. QED
    BY Zenon, <1>5, <2>1, <2>2 DEF DevInv, QueueInv, NoStep, s
<1>12. QED
  BY ZenonT(30), <1>2, <1>3, <1>4, <1>5, <1>6, <1>8, <1>9, <1>10, <1>11 DEF s

\* An access keeps the types.
LEMMA AdvanceTypes ==
  ASSUME DevInv, NEW a \in Actors, Advances(a)
  PROVE  DevTypes'
<1>1. todo[a] # <<>> /\ DevTypes /\ app' = app /\ Depth \in Nat \ {0} /\ a \in Actors
  BY Zenon, DepthAssumption DEF Advances, DevInv
<1>2. /\ Arg(a) \in Args /\ Ctx(a) \in Tids /\ Tail(todo[a]) \in Seq(Ops)
      /\ Op(a)[1] \in {"get", "put"} => Arg(a) \in Keys
      /\ Op(a)[1] = "step" => a \in Tids /\ rxq[a] # <<>>
  BY Zenon, <1>1, NextAccess
<1>3. todo' \in [Actors -> Seq(Ops)] /\ act' \in [Tids -> BOOLEAN]
  BY Zenon, <1>1, <1>2 DEF Advances, ActChanges, DevTypes
<1>4. win' \in [Actors -> Args \cup {None}]
  <2>1. KeyOf(place, Arg(a)) \in Args
    BY Zenon, <1>2 DEF KeyOf, Args, Buffers
  <2>2. QED
    BY Zenon, <1>1, <2>1 DEF Advances, DevTypes
<1>5. dirty' \in [Actors -> SUBSET Args]
  <2>1. dirty[a] \subseteq Args /\ "tx" \in Args
    BY Zenon, <1>1 DEF DevTypes, Args, Buffers
  <2>2. /\ dirty[a] \cup {Arg(a)} \in SUBSET Args /\ dirty[a] \cup {"tx"} \in SUBSET Args
        /\ {b \in dirty[a] : Arg(a) = "mem" /\ Held(place, b) = "host"} \in SUBSET Args
    BY Zenon, <1>2, <2>1
  <2>3. QED
    BY Zenon, <1>1, <2>2 DEF Advances, DevTypes
<1>6. cur' \in [Actors -> Nat]
  BY Zenon, <1>1, <1>2 DEF Advances, DevTypes
<1>7. frames' \in [Actors -> Seq(Wqes)]
  <2>1. <<"tx", cur[a]>> \in Wqes /\ <<"rx", rxi[Ctx(a)]>> \in Wqes /\ frames[a] \in Seq(Wqes) /\ <<>> \in Seq(Wqes)
    BY <1>1, <1>2 DEF DevTypes, Wqes
  <2>2. \A w \in Wqes : Append(frames[a], w) \in Seq(Wqes)
    BY <2>1
  <2>3. QED
    BY ZenonT(30), <1>1, <2>1, <2>2 DEF Advances, DevTypes
<1>8. txi' \in [Tids -> Nat] /\ rxi' \in [Tids -> Nat]
  <2>1. (cur[a] + 1) % Depth \in Nat /\ (a \in Tids => (rxi[a] + 1) % Depth \in Nat)
    BY SMTT(20), <1>1 DEF DevTypes
  <2>2. QED
    BY ZenonT(30), <1>1, <1>2, <2>1 DEF Advances, DevTypes
<1>9. rxq' \in [Tids -> Seq(Messages(app))]
  <2>1. Op(a)[1] = "step" => Tail(rxq[a]) \in Seq(Messages(app))
    BY <1>1, <1>2 DEF DevTypes
  <2>2. QED
    BY Zenon, <1>1, <2>1 DEF Advances, DevTypes
<1>10. arrived' \in [Tids -> Nat] /\ sent' \in [Tids -> Nat]
  <2>1. frames[a] \in Seq(Wqes) /\ sent[Ctx(a)] \in Nat /\ arrived' = arrived
    BY Zenon, <1>1, <1>2 DEF Advances, DevTypes
  <2>2. sent[Ctx(a)] + Len(frames[a]) \in Nat
    BY <2>1
  <2>3. sent' = sent \/ sent' = [sent EXCEPT ![Ctx(a)] = sent[Ctx(a)] + Len(frames[a])]
    BY Zenon DEF Advances
  <2>4. QED
    BY ZenonT(30), <1>1, <1>2, <2>1, <2>2, <2>3 DEF DevTypes
<1>11. kv' \in [Keys -> Nat] /\ added' \in [Keys -> Nat]
  <2>1. CASE Op(a)[1] = "put"
    <3>1. kv' = [kv EXCEPT ![Arg(a)] = cur[a] + 1] /\ added' = [added EXCEPT ![Arg(a)] = added[Arg(a)] + 1]
      BY Zenon, <2>1 DEF Advances
    <3>2. Arg(a) \in Keys /\ cur[a] \in Nat /\ added[Arg(a)] \in Nat
      BY Zenon, <1>1, <1>2, <2>1 DEF DevTypes
    <3>3. QED
      BY <1>1, <3>1, <3>2 DEF DevTypes
  <2>2. CASE Op(a)[1] # "put"
    BY Zenon, <1>1, <2>2 DEF Advances, DevTypes
  <2>3. QED
    BY ZenonT(30), <2>1, <2>2
<1>12. QED
  BY ZenonT(30), <1>1, <1>3, <1>4, <1>5, <1>6, <1>7, <1>8, <1>9, <1>10, <1>11 DEF DevTypes

\* Every step keeps the types.
LEMMA TypesStep == DevInv /\ DevStep => DevTypes'
<1> SUFFICES ASSUME DevInv, DevStep PROVE DevTypes'
  BY Zenon
<1>1. DevTypes /\ Depth \in Nat \ {0}
  BY Zenon, DepthAssumption DEF DevInv
<1>2. ASSUME NEW a \in Actors, Drains(a) PROVE DevTypes'
  <2>1. a \in Tids
    BY Zenon, <1>2, NextAccess DEF Drains, At
  <2>2. Tail(rxq[a]) \in Seq(Messages(app)) /\ (rxi[a] + 1) % Depth \in Nat
    BY SMTT(30), <1>1, <1>2, <2>1 DEF DevTypes, Drains
  <2>3. QED
    BY ZenonT(30), <1>1, <1>2, <2>1, <2>2 DEF DevTypes, Drains
<1>3. ASSUME NEW a \in Actors, NEW s, Begins(a, s) PROVE DevTypes'
  <2>1. s \in Seq(Ops)
    BY Zenon, <1>3 DEF Begins, Good
  <2>2. QED
    BY Zenon, <1>1, <1>3, <2>1 DEF DevTypes, Begins, ActChanges
<1>4. CASE Rests
  BY Zenon, <1>1, <1>4 DEF DevTypes, Rests
<1>5. QED
  BY Zenon, <1>2, <1>3, <1>4, AdvanceTypes DEF DevStep

\* Every step leaves right programs that find their windows.
LEMMA ProgStep == DevInv /\ DevStep => ProgInv'
<1> SUFFICES ASSUME DevInv, DevStep PROVE ProgInv'
  BY Zenon
<1>1. DevTypes /\ ProgInv /\ \A a \in Actors : a # RPC => a \in Tids
  BY Zenon, Populations DEF DevInv
<1>2. ASSUME NEW a \in Actors, app' = app, place' = place, todo' \in [Actors -> Seq(Ops)],
             \A b \in Actors \ {a} : todo'[b] = todo[b] /\ win'[b] = win[b] /\ (b \in Tids => act'[b] = act[b]),
             Good(app, place, a, todo'[a]), Windowed(app, place, a, todo'[a], win'[a])
      PROVE  ProgInv'
  <2>1. ASSUME NEW b \in Actors PROVE Good(app', place', b, todo'[b]) /\ (Started(b)' => Windowed(app', place', b, todo'[b], win'[b]))
    <3>1. CASE b = a
      BY ZenonT(30), <1>2, <3>1
    <3>2. CASE b # a
      <4>1. Started(b)' <=> Started(b)
        BY ZenonT(30), <1>1, <1>2, <3>2 DEF Started
      <4>2. QED
        BY ZenonT(30), <1>1, <1>2, <3>2, <4>1 DEF ProgInv
    <3>3. QED
      BY Zenon, <3>1, <3>2
  <2>2. QED
    BY Zenon, <2>1 DEF ProgInv
<1>3. ASSUME NEW a \in Actors, Advances(a) PROVE ProgInv'
  <2>1. /\ todo[a] \in Seq(Ops) /\ todo[a] # <<>> /\ Op(a) = todo[a][1] /\ Tail(todo[a]) \in Seq(Ops)
        /\ Good(app, place, a, Tail(todo[a])) /\ Arg(a) = todo[a][1][2]
    BY Zenon, <1>1, <1>3, NextAccess DEF Advances, DevTypes, Arg
  <2>2. Windowed(app, place, a, todo[a], win[a])
    BY ZenonT(30), <1>1, <2>1 DEF ProgInv, Started
  <2>3. Windowed(app, place, a, Tail(todo[a]), IF todo[a][1][1] = "window" THEN KeyOf(place, todo[a][1][2]) ELSE win[a])
    BY ZenonT(30), <2>1, <2>2, WindowedTail
  <2>4. todo' = [todo EXCEPT ![a] = Tail(todo[a])] /\ ActChanges(a) /\ app' = app /\ place' = place
    BY ZenonT(30), <1>3 DEF Advances
  <2>5. win' = IF todo[a][1][1] = "window" THEN [win EXCEPT ![a] = KeyOf(place, todo[a][1][2])] ELSE win
    BY Zenon, <1>3, <2>1 DEF Advances
  <2>6. /\ todo'[a] = Tail(todo[a]) /\ win'[a] = IF todo[a][1][1] = "window" THEN KeyOf(place, todo[a][1][2]) ELSE win[a]
        /\ todo' \in [Actors -> Seq(Ops)]
        /\ \A b \in Actors \ {a} : todo'[b] = todo[b] /\ win'[b] = win[b] /\ (b \in Tids => act'[b] = act[b])
    BY ZenonT(30), <1>1, <2>1, <2>4, <2>5 DEF DevTypes, ActChanges
  <2>7. QED
    BY ZenonT(30), <1>2, <2>1, <2>3, <2>4, <2>6
<1>4. ASSUME NEW a \in Actors, NEW s, Begins(a, s) PROVE ProgInv'
  <2>1. /\ s \in Seq(Ops) /\ Good(app, place, a, s) /\ Windowed(app, place, a, s, win[a])
        /\ app' = app /\ place' = place /\ win' = win /\ todo' = [todo EXCEPT ![a] = s] /\ ActChanges(a)
    BY Zenon, <1>4 DEF Begins, Good
  <2>2. /\ todo'[a] = s /\ todo' \in [Actors -> Seq(Ops)]
        /\ \A b \in Actors \ {a} : todo'[b] = todo[b] /\ win'[b] = win[b] /\ (b \in Tids => act'[b] = act[b])
    BY Zenon, <1>1, <2>1 DEF DevTypes, ActChanges
  <2>3. QED
    BY ZenonT(30), <1>2, <2>1, <2>2
<1>5. ASSUME NEW a \in Actors, Drains(a) PROVE ProgInv'
  BY Zenon, <1>1, <1>5 DEF Drains, ProgInv, Started
<1>6. CASE Rests
  BY Zenon, <1>1, <1>6 DEF Rests, ProgInv, Started
<1>7. QED
  BY ZenonT(30), <1>3, <1>4, <1>5, <1>6 DEF DevStep

\* Every step keeps QueueInv: only the handler takes completions from its queue, one for
\* each step operation.
LEMMA QueueStep == DevInv /\ DevStep => QueueInv'
<1> SUFFICES ASSUME DevInv, DevStep, NEW t \in Tids, rxq'[t] = <<>> PROVE NoStep(todo'[t])
  BY Zenon DEF QueueInv, NoStep
<1>1. DevTypes /\ QueueInv /\ t \in Actors /\ DevTypes'
  BY Zenon, Populations, TypesStep DEF DevInv
<1>2. ASSUME NEW a \in Actors, Advances(a) PROVE NoStep(todo'[t])
  <2>1. todo[a] # <<>> /\ todo' = [todo EXCEPT ![a] = Tail(todo[a])] /\ Tail(todo[a]) \in Seq(Ops)
    BY Zenon, <1>2, NextAccess DEF Advances
  <2>2. CASE Op(a)[1] = "step"
    <3>1. NoStep(Tail(todo[a])) /\ rxq' = [rxq EXCEPT ![a] = Tail(rxq[a])]
      BY Zenon, <1>2, <2>1, <2>2, NextAccess DEF Advances
    <3>2. CASE t = a
      BY Zenon, <1>1, <2>1, <3>1, <3>2 DEF DevTypes
    <3>3. CASE t # a
      BY ZenonT(30), <1>1, <2>1, <3>1, <3>3 DEF DevTypes, QueueInv
    <3>4. QED
      BY Zenon, <3>2, <3>3
  <2>3. CASE Op(a)[1] # "step"
    <3>1. rxq' = rxq /\ NoStep(todo[t])
      BY Zenon, <1>1, <1>2, <2>3 DEF Advances, QueueInv
    <3>2. CASE t = a
      <4>1. todo'[t] = Tail(todo[t]) /\ todo[t] \in Seq(Ops) /\ todo[t] # <<>>
        BY ZenonT(30), <1>1, <2>1, <3>2 DEF DevTypes
      <4>2. \A j \in 1..Len(Tail(todo[t])) : j + 1 \in 1..Len(todo[t]) /\ Tail(todo[t])[j] = todo[t][j + 1]
        BY <4>1
      <4>3. QED
        BY Zenon, <3>1, <4>1, <4>2 DEF NoStep
    <3>3. CASE t # a
      BY ZenonT(30), <1>1, <2>1, <3>1, <3>3 DEF DevTypes
    <3>4. QED
      BY Zenon, <3>2, <3>3
  <2>4. QED
    BY Zenon, <2>2, <2>3
<1>3. ASSUME NEW a \in Actors, NEW s, Begins(a, s) PROVE NoStep(todo'[t])
  <2>1. CASE t = a
    BY Zenon, <1>1, <1>3, <2>1 DEF DevTypes, Begins
  <2>2. CASE t # a
    BY ZenonT(30), <1>1, <1>3, <2>2 DEF DevTypes, Begins, QueueInv
  <2>3. QED
    BY Zenon, <2>1, <2>2
<1>4. ASSUME NEW a \in Actors, Drains(a) PROVE NoStep(todo'[t])
  <2>1. NoStep(Tail(todo[a])) /\ todo[a] # <<>> /\ todo[a][1][1] = "drain" /\ todo' = todo /\ rxq' = [rxq EXCEPT ![a] = Tail(rxq[a])]
    BY Zenon, <1>4, NextAccess DEF Drains, At
  <2>2. CASE t = a
    <3>1. todo[t] \in Seq(Ops) /\ todo[t] # <<>>
      BY Zenon, <1>1, <2>1, <2>2 DEF DevTypes
    <3>2. \A j \in 1..Len(todo[t]) : j = 1 \/ (j - 1 \in 1..Len(Tail(todo[t])) /\ todo[t][j] = Tail(todo[t])[j - 1])
      BY SMTT(30), <3>1
    <3>3. QED
      BY ZenonT(30), <2>1, <2>2, <3>2 DEF NoStep
  <2>3. CASE t # a
    BY ZenonT(30), <1>1, <2>1, <2>3 DEF DevTypes, QueueInv
  <2>4. QED
    BY Zenon, <2>2, <2>3
<1>5. CASE Rests
  BY Zenon, <1>1, <1>5 DEF Rests, QueueInv
<1>6. QED
  BY ZenonT(30), <1>2, <1>3, <1>4, <1>5 DEF DevStep

\* What a step leaves initialised and running.
MadeSame == \A t \in Tids : /\ <<"init", t>> \in made' <=> <<"init", t>> \in made
                            /\ <<"run", t>> \in made' <=> <<"run", t>> \in made
RunsSame ==
  /\ \A t \in Tids : act'[t] \/ todo'[t] # <<>> => act[t] \/ todo[t] # <<>> \/ <<"run", t>> \in made'
  /\ todo'[RPC] # <<>> => todo[RPC] # <<>> \/ app \in Callers
WireSame == app \notin PingPongs \cup {"bank_client"} => \A t \in Tids : wire'[t] = wire[t]

\* A step that initialises no context, runs no handler and starts nothing on others
\* keeps CtxInv.
LEMMA CtxSame ==
  ASSUME CtxInv, app' = app, place' = place, ctx' = ctx, MadeSame, RunsSame, WireSame, entry' = entry,
         rpc' \in 0..MAX_THREADS,
         rpc' # MAX_THREADS => app \in Callers /\ (app \notin Threaded => rpc' = 0 /\ Ready(0)), 0 \in Tids
  PROVE  CtxInv'
<1>1. ctx' = [t \in Tids |-> ctx'[t]] /\ rpc' \in 0..MAX_THREADS /\ entry' \in BOOLEAN
  BY Zenon DEF CtxInv
<1>2. \A t \in Tids : <<"init", t>> \in made' => ctx'[t] = DeviceInit(app', place')
  BY Zenon DEF CtxInv, MadeSame, Ready
<1>3. \A t \in Tids : /\ act'[t] \/ todo'[t] # <<>> => <<"run", t>> \in made'
                      /\ <<"run", t>> \in made' => <<"init", t>> \in made'
  BY Zenon DEF CtxInv, MadeSame, RunsSame, Ready
<1>4. rpc' # MAX_THREADS => app' \in Callers /\ (app' \notin Threaded => rpc' = 0 /\ <<"init", 0>> \in made')
  BY Zenon DEF MadeSame, Ready
<1>5. (todo'[RPC] # <<>> => app' \in Callers) /\ (app' = "kv" /\ <<"init", 0>> \in made' => entry')
  BY Zenon DEF CtxInv, MadeSame, RunsSame, Ready
<1>6. app' \notin PingPongs \cup {"bank_client"} => \A t \in Tids : wire'[t] = <<>>
  BY Zenon DEF CtxInv, WireSame
<1>7. QED
  BY ZenonT(30), <1>1, <1>2, <1>3, <1>4, <1>5, <1>6 DEF CtxInv, Ready

\* The handlers' steps keep CtxInv.
LEMMA DeviceCtx ==
  ASSUME DevInv, DeviceStep, UNCHANGED <<hostVars, rpc, ctx>>
  PROVE  CtxInv'
<1>1. /\ CtxInv /\ DevTypes /\ MainInv /\ app' = app /\ place' = place /\ made' = made /\ ctx' = ctx /\ rpc' = rpc
      /\ 0 \in Tids /\ Threads \subseteq Tids /\ Tids \subseteq Actors /\ RPC \in Actors /\ RPC \notin Tids
  BY Zenon, Populations DEF DevInv, hostVars, fixed
<1>2. SUFFICES RunsSame /\ wire' = wire /\ entry' = entry
  BY Zenon, <1>1, CtxSame DEF MadeSame, WireSame, CtxInv
<1>3. ASSUME NEW a \in Actors,
             \/ window_mkey_config(a) \/ load(a) \/ store(a) \/ write_header(a) \/ take(a) \/ bump(a)
             \/ write_wqe(a) \/ ring_db(a) \/ get(a) \/ put(a) \/ step(a) \/ drain(a) \/ count(a)
      PROVE  RunsSame /\ wire' = wire /\ entry' = entry
  <2>1. wire' = wire /\ entry' = entry
    BY Zenon, <1>3 DEF window_mkey_config, load, store, write_header, take, bump, write_wqe, ring_db, get, put,
       step, drain, count, ringVars, kvVars
  <2>2. /\ todo[a] # <<>>
        /\ todo' = todo \/ todo' = [todo EXCEPT ![a] = Tail(todo[a])]
        /\ \A t \in Tids \ {a} : act'[t] = act[t]
    <3>1. Advances(a) \/ Drains(a)
      BY ZenonT(30), <1>1, <1>3, AccessAdvances DEF DevTypes
    <3>2. QED
      BY Zenon, <3>1 DEF Advances, Drains, At, ActChanges
  <2>3. RunsSame
    BY ZenonT(30), <1>1, <2>2 DEF RunsSame, DevTypes
  <2>4. QED
    BY Zenon, <2>1, <2>3
<1>4. ASSUME NEW t \in Threads, event_handler(t) \/ activate(t)
      PROVE  RunsSame /\ wire' = wire /\ entry' = entry
  <2>1. wire' = wire /\ entry' = entry
    BY Zenon, <1>4 DEF event_handler, activate, ringVars, kvVars
  <2>2. t \in Tids /\ <<"run", t>> \in made'
    BY Zenon, <1>1, <1>4 DEF event_handler, activate, CtxInv
  <2>3. /\ \E s : todo' = [todo EXCEPT ![t] = s]
        /\ \E v : act' = [act EXCEPT ![t] = v]
    <3>1. todo = [todo EXCEPT ![t] = todo[t]] /\ act = [act EXCEPT ![t] = act[t]]
      BY Zenon, <1>1, <2>2 DEF DevTypes
    <3>2. QED
      BY Zenon, <1>4, <3>1 DEF event_handler, activate
  <2>4. QED
    BY ZenonT(30), <1>1, <2>1, <2>2, <2>3 DEF RunsSame, DevTypes
<1>5. QED
  BY Zenon, <1>3, <1>4 DEF DeviceStep

\* The steps of the NIC and the wire keep CtxInv: only senders have frames on the wire.
LEMMA NicCtx ==
  ASSUME DevInv, NicStep, UNCHANGED <<hostVars, rpc, ctx>>
  PROVE  CtxInv'
<1>1. /\ CtxInv /\ app' = app /\ place' = place /\ made' = made /\ ctx' = ctx /\ rpc' = rpc
      /\ 0 \in Tids /\ Threads \subseteq Tids
  BY Zenon, Populations DEF DevInv, hostVars, fixed
<1>2. PICK t \in Threads : Transmit(t) \/ Echo(t) \/ Lose(t)
        \/ \E m \in {"ok", "odd"} \cup Keys : ClientSends(t, m) \/ ForeignPacket(t, m)
  BY Zenon DEF NicStep
<1>3. act' = act /\ todo' = todo /\ entry' = entry
  BY Zenon, <1>2 DEF Transmit, Echo, Lose, ClientSends, ForeignPacket, kvVars
<1>4. WireSame
  <2>1. SUFFICES ASSUME app \notin PingPongs \cup {"bank_client"} PROVE wire' = wire
    BY Zenon DEF WireSame
  <2>2. wire[t] = <<>>
    BY Zenon, <1>1, <2>1 DEF CtxInv
  <2>3. QED
    BY ZenonT(30), <1>2, <2>1, <2>2 DEF Transmit, Echo, Lose, ClientSends, ForeignPacket
<1>5. QED
  BY ZenonT(30), <1>1, <1>3, <1>4, CtxSame DEF MadeSame, RunsSame, CtxInv

\* Main's steps keep CtxInv: dpa_device_init is called for a thread before its handler
\* is run.
LEMMA HostCtx ==
  ASSUME DevInv, HostStep, app' = app, place' = place
  PROVE  CtxInv'
<1>1. CtxInv /\ DevTypes /\ MainInv /\ HostReady /\ 0 \in Tids /\ RPC \notin Tids /\ \A u \in Tids : u # MAX_THREADS
  BY ZenonT(30), Populations, ReadyHolds DEF DevInv
<1>2. CASE host_call \/ stop_rpc
  <2>1. /\ rpc' = rpc /\ ctx' = ctx /\ act' = act /\ todo' = todo /\ wire' = wire /\ entry' = entry
    BY Zenon, <1>2 DEF host_call, stop_rpc, deviceVars, ringVars, kvVars
  <2>2. made' = made \/ (host # <<>> /\ Head(host)[1] = "create" /\ made' = made \cup {<<What, Tid>>})
    BY Zenon, <1>2 DEF host_call, stop_rpc, next_thread, make, set_mac, clear, create_flow_table, create_dr_rule, leave, NextCall
  <2>3. MadeSame
    BY SMTT(30), <1>1, <2>2 DEF MadeSame, HostReady
  <2>4. QED
    BY ZenonT(30), <1>1, <2>1, <2>3, CtxSame DEF RunsSame, WireSame, CtxInv
<1>3. CASE first_packet
  <2>1. /\ rpc' = 0 /\ ctx' = ctx /\ act' = act /\ todo' = todo /\ wire' = wire /\ entry' = entry
    BY Zenon, <1>3 DEF first_packet, deviceVars, ringVars, kvVars
  <2>2. host # <<>> /\ Head(host)[1] = "first" /\ made' = made \cup {<<What, Tid>>}
    BY Zenon, <1>3 DEF first_packet, make, NextCall
  <2>3. MadeSame /\ app \in Callers /\ (app \notin Threaded => Ready(0)) /\ rpc' \in 0..MAX_THREADS
    BY SMTT(30), <1>1, <2>1, <2>2, ThreadsAssumption DEF MadeSame, HostReady
  <2>4. QED
    BY ZenonT(30), <1>1, <2>1, <2>3, CtxSame DEF RunsSame, WireSame
<1>4. CASE event_handler_run
  <2>1. /\ rpc' = rpc /\ ctx' = ctx /\ wire' = wire /\ entry' = entry
    BY Zenon, <1>4 DEF event_handler_run, ringVars, kvVars
  <2>2. host # <<>> /\ Head(host)[1] = "run" /\ made' = made \cup {<<What, Tid>>}
    BY Zenon, <1>4 DEF event_handler_run, make, NextCall
  <2> DEFINE u == Tid
  <2>3. u \in Tids /\ Ready(u) /\ What = "run"
    BY Zenon, <1>1, <2>2 DEF HostReady
  <2>4. (\E s : todo' = [todo EXCEPT ![u] = s]) /\ \E v : act' = [act EXCEPT ![u] = v]
    BY Zenon, <1>4 DEF event_handler_run
  <2>5. made' = made \cup {<<"run", u>>}
    BY Zenon, <2>2, <2>3
  <2> HIDE DEF u
  <2>6. /\ \A t \in Tids \ {u} : act'[t] = act[t] /\ todo'[t] = todo[t]
        /\ todo'[RPC] = todo[RPC] /\ <<"run", u>> \in made'
    <3>1. RPC \in Actors /\ Tids \subseteq Actors
      BY Zenon DEF Actors
    <3>2. QED
      BY ZenonT(30), <1>1, <2>3, <2>4, <2>5, <3>1 DEF DevTypes
  <2>7. \A t \in Tids : /\ <<"init", t>> \in made' <=> <<"init", t>> \in made
                        /\ <<"run", t>> \in made' => <<"run", t>> \in made \/ t = u
                        /\ <<"run", t>> \in made => <<"run", t>> \in made'
    BY Zenon, <2>5
  <2>8. \A t \in Tids : /\ act'[t] \/ todo'[t] # <<>> => <<"run", t>> \in made'
                        /\ <<"run", t>> \in made' => <<"init", t>> \in made'
    BY Zenon, <1>1, <2>3, <2>6, <2>7 DEF CtxInv, Ready
  <2>9. QED
    BY ZenonT(30), <1>1, <2>1, <2>6, <2>7, <2>8 DEF CtxInv, Ready
<1>5. CASE device_init
  <2>1. /\ rpc' = rpc /\ wire' = wire /\ act' = act /\ todo' = todo
        /\ ctx' = [ctx EXCEPT ![Tid] = DeviceInit(app, place)]
        /\ entry' = (entry \/ (app = "kv" /\ Tid = 0))
    BY Zenon, <1>5 DEF device_init, ringVars
  <2>2. host # <<>> /\ Head(host)[1] = "init" /\ made' = made \cup {<<What, Tid>>}
    BY Zenon, <1>5 DEF device_init, make, NextCall
  <2> DEFINE u == Tid
  <2>3. u \in Tids /\ What = "init"
    BY Zenon, <1>1, <2>2 DEF HostReady
  <2>4. made' = made \cup {<<"init", u>>} /\ ctx' = [ctx EXCEPT ![u] = DeviceInit(app, place)]
    BY ZenonT(30), <2>1, <2>2, <2>3
  <2>4a. entry' = (entry \/ (app = "kv" /\ u = 0))
    BY Zenon, <2>1
  <2> HIDE DEF u
  <2>5. \A t \in Tids : /\ <<"run", t>> \in made' <=> <<"run", t>> \in made
                        /\ <<"init", t>> \in made' <=> (<<"init", t>> \in made \/ t = u)
    BY Zenon, <2>4
  <2>6. ctx' = [t \in Tids |-> ctx'[t]] /\ \A t \in Tids : <<"init", t>> \in made' => ctx'[t] = DeviceInit(app', place')
    BY ZenonT(30), <1>1, <2>3, <2>4, <2>5 DEF CtxInv, Ready
  <2>7. entry' \in BOOLEAN /\ (app' = "kv" /\ <<"init", 0>> \in made' => entry')
    BY ZenonT(30), <1>1, <2>4a, <2>5 DEF CtxInv, Ready
  <2>8. \A t \in Tids : /\ act'[t] \/ todo'[t] # <<>> => <<"run", t>> \in made'
                        /\ <<"run", t>> \in made' => <<"init", t>> \in made'
    BY Zenon, <1>1, <2>1, <2>5 DEF CtxInv, Ready
  <2>9. QED
    BY ZenonT(30), <1>1, <2>1, <2>5, <2>6, <2>7, <2>8 DEF CtxInv, Ready
<1>6. QED
  BY ZenonT(30), <1>2, <1>3, <1>4, <1>5 DEF HostStep

\* The steps of the first-packet RPC keep CtxInv.
LEMMA RpcCtx ==
  ASSUME DevInv, next_context
  PROVE  CtxInv'
<1>1. /\ CtxInv /\ DevTypes /\ MainInv /\ app' = app /\ place' = place /\ made' = made /\ ctx' = ctx
      /\ act' = act /\ wire' = wire /\ entry' = entry /\ 0 \in Tids /\ RPC \notin Tids
  BY Zenon, Populations DEF DevInv, next_context, hostVars, fixed, ringVars, kvVars
<1>2. /\ rpc \in 0..MAX_THREADS /\ rpc < MAX_THREADS /\ rpc' = IF app \in Threaded THEN rpc + 1 ELSE MAX_THREADS
      /\ \E s : todo' = [todo EXCEPT ![RPC] = s]
  BY Zenon, <1>1 DEF next_context, CtxInv
<1>3. rpc' \in 0..MAX_THREADS /\ app \in Callers /\ (app \notin Threaded => rpc' = MAX_THREADS)
  BY SMTT(30), <1>1, <1>2, ThreadsAssumption DEF CtxInv
<1>4. \A t \in Tids : todo'[t] = todo[t]
  <2>1. Tids \subseteq Actors
    BY Zenon DEF Actors
  <2>2. QED
    BY ZenonT(30), <1>1, <1>2, <2>1 DEF DevTypes
<1>5. RunsSame /\ MadeSame /\ WireSame
  BY Zenon, <1>1, <1>3, <1>4 DEF RunsSame, MadeSame, WireSame
<1>6. QED
  BY ZenonT(30), <1>1, <1>3, <1>5, CtxSame

\* Every step keeps CtxInv.
LEMMA CtxStep == DevInv /\ [DNext]_dvars => CtxInv'
<1> SUFFICES ASSUME DevInv, [DNext]_dvars PROVE CtxInv'
  BY Zenon
<1>1. app' = app /\ place' = place /\ CtxInv
  BY Zenon, HostPart DEF DevInv
<1>2. CASE UNCHANGED dvars
  BY Zenon, <1>1, <1>2 DEF CtxInv, Ready, dvars, hostVars, fixed, deviceVars, ringVars, kvVars
<1>3. QED
  BY ZenonT(30), <1>1, <1>2, HostCtx, RpcCtx, NicCtx, DeviceCtx DEF DNext

\* The invariant is inductive.
LEMMA DevInvStep == DevInv /\ [DNext]_dvars => DevInv'
<1> SUFFICES ASSUME DevInv, [DNext]_dvars PROVE DevInv'
  BY Zenon
<1>1. DevStep /\ [HostNext]_hostVars /\ MainInv /\ RunInv
  BY Zenon, DevSteps, HostPart DEF DevInv
<1>2. MainInv' /\ RunInv'
  BY ZenonT(30), <1>1, MainInvStep, RunInvStep
<1>3. QED
  BY ZenonT(30), <1>1, <1>2, TypesStep, ProgStep, QueueStep, CtxStep DEF DevInv

\* The invariant holds when main starts.
LEMMA DevInvInit == DInit => DevInv
<1> SUFFICES ASSUME DInit PROVE DevInv
  BY Zenon
<1>1. HostInit /\ MainInv /\ RunInv /\ made = {}
  BY Zenon, MainInvInit, RunInvInit DEF DInit, HostInit
<1>2. /\ Tids \subseteq Actors /\ RPC \in Actors /\ MAX_THREADS \in 0..MAX_THREADS /\ RPC \notin Tids
      /\ \A a \in Actors : a # RPC => a \in Tids
  BY SMTT(30), <1>1, Populations, ThreadsAssumption
<1>3. DevTypes
  BY DEF DInit, DevTypes
<1>4. /\ \A a \in Actors : todo[a] = <<>>
      /\ \A t \in Tids : act[t] = FALSE /\ wire[t] = <<>>
  BY Zenon DEF DInit
<1>5. CtxInv
  BY Zenon, <1>1, <1>2, <1>4 DEF DInit, CtxInv, Ready
<1>6. ProgInv
  <2>1. ASSUME NEW a \in Actors PROVE Good(app, place, a, <<>>) /\ (a = RPC => Windowed(app, place, a, <<>>, win[a]))
    BY DEF Good, OwnContext, Aggregates, Consumes, Announces, Configures, Windowed
  <2>2. QED
    BY ZenonT(30), <1>2, <1>4, <2>1 DEF ProgInv, Started
<1>7. QueueInv
  BY <1>2, <1>4 DEF QueueInv, NoStep
<1>8. QED
  BY ZenonT(30), <1>1, <1>3, <1>5, <1>6, <1>7 DEF DevInv

----------------------------------------------------------------------------
(* What the applications promise *)

\* Every step keeps KvInv.
LEMMA KvStep == DevInv /\ KvInv /\ DevStep => KvInv'
<1> SUFFICES ASSUME DevInv, KvInv, DevStep, "overlapped" \notin hist'
             PROVE  /\ kv' = added'
                    /\ \A a \in Tids : At(a, "put")' => cur'[a] = kv'[Arg(a)']
                    /\ \A a, b \in Tids : At(a, "put")' /\ At(b, "put")' /\ Arg(a)' = Arg(b)' => a = b
  BY Zenon DEF KvInv
<1>1. DevTypes /\ Tids \subseteq Actors
  BY Zenon, Populations DEF DevInv
<1>2. CASE "overlapped" \in hist
  BY ZenonT(30), <1>2 DEF DevStep, Advances, Drains, Begins, Rests
<1>3. CASE "overlapped" \notin hist
  <2>1. /\ kv = added
        /\ \A a \in Tids : At(a, "put") => cur[a] = kv[Arg(a)]
        /\ \A a, b \in Tids : At(a, "put") /\ At(b, "put") /\ Arg(a) = Arg(b) => a = b
    BY Zenon, <1>3 DEF KvInv
  <2>2. ASSUME NEW c \in Actors, Advances(c)
        PROVE  /\ kv' = added'
               /\ \A a \in Tids : At(a, "put")' => cur'[a] = kv'[Arg(a)']
               /\ \A a, b \in Tids : At(a, "put")' /\ At(b, "put")' /\ Arg(a)' = Arg(b)' => a = b
    <3>1. todo[c] # <<>> /\ todo[c] \in Seq(Ops) /\ todo' = [todo EXCEPT ![c] = Tail(todo[c])]
      BY ZenonT(30), <1>1, <2>2 DEF Advances, DevTypes
    <3>2. \A b \in Tids \ {c} : (At(b, "put")' <=> At(b, "put")) /\ Arg(b)' = Arg(b)
      BY ZenonT(30), <1>1, <3>1 DEF At, Op, Arg, DevTypes
    <3>3. At(c, "put")' => Op(c)[1] = "get" /\ Arg(c)' = Arg(c)
      <4>1. HAVE At(c, "put")'
      <4>2. Tail(todo[c]) # <<>> /\ Head(Tail(todo[c]))[1] = "put" /\ Arg(c)' = Head(Tail(todo[c]))[2]
        BY ZenonT(30), <1>1, <3>1, <4>1 DEF At, Op, Arg, DevTypes
      <4>3. 2 \in 1..Len(todo[c]) /\ Head(Tail(todo[c])) = todo[c][2] /\ Head(todo[c]) = todo[c][1]
        BY SMTT(30), <3>1, <4>2
      <4>4. Aggregates(c, todo[c])
        BY ZenonT(30) DEF DevInv, ProgInv, Good
      <4>5. todo[c][2 - 1][1] = "get" /\ todo[c][2 - 1][2] = todo[c][2][2]
        BY SMTT(30), <4>2, <4>3, <4>4 DEF Aggregates
      <4>6. QED
        BY SMTT(30), <4>2, <4>3, <4>5 DEF Op, Arg
    <3>4. CASE Op(c)[1] = "put"
      <4>1. /\ c \in Tids /\ Arg(c) \in Keys /\ At(c, "put")
            /\ kv' = [kv EXCEPT ![Arg(c)] = cur[c] + 1] /\ added' = [added EXCEPT ![Arg(c)] = added[Arg(c)] + 1] /\ cur' = cur
        BY ZenonT(30), <2>2, <3>1, <3>4, NextAccess DEF Advances, At
      <4>2. ~At(c, "put")'
        BY Zenon, <3>3, <3>4
      <4>3. cur[c] = added[Arg(c)]
        BY Zenon, <2>1, <4>1
      <4>4. ASSUME NEW a \in Tids, At(a, "put")' PROVE cur'[a] = kv'[Arg(a)'] /\ At(a, "put") /\ Arg(a)' = Arg(a)
        <5>1. a # c /\ At(a, "put") /\ Arg(a)' = Arg(a)
          BY ZenonT(30), <3>2, <4>2, <4>4
        <5>2. Arg(a) # Arg(c) /\ cur[a] = kv[Arg(a)] /\ Arg(a) \in Keys
          BY ZenonT(30), <1>1, <2>1, <4>1, <5>1, NextAccess DEF At
        <5>3. QED
          BY ZenonT(30), <1>1, <4>1, <5>1, <5>2 DEF DevTypes
      <4>5. QED
        BY ZenonT(30), <2>1, <4>1, <4>3, <4>4
    <3>5. CASE Op(c)[1] = "get"
      <4>1. /\ c \in Tids /\ kv' = kv /\ added' = added /\ cur' = [cur EXCEPT ![c] = kv[Arg(c)]] /\ Adding(Arg(c)) = {}
        BY ZenonT(30), <2>2, <3>1, <3>5, NextAccess DEF Advances
      <4>2. \A b \in Tids : At(b, "put") => Arg(b) # Arg(c)
        BY Zenon, <4>1 DEF Adding, At
      <4>3. ~At(c, "put")
        BY ZenonT(30), <3>5 DEF At
      <4>4. \A b \in Tids \ {c} : cur'[b] = cur[b] /\ cur'[c] = kv[Arg(c)]
        BY ZenonT(30), <1>1, <4>1 DEF DevTypes
      <4>4a. cur'[c] = kv[Arg(c)]
        BY Zenon, <1>1, <4>1 DEF DevTypes
      <4>5. \A a \in Tids : At(a, "put")' => cur'[a] = kv'[Arg(a)']
        BY ZenonT(30), <2>1, <3>2, <3>3, <4>1, <4>4, <4>4a
      <4>6. \A a, b \in Tids : At(a, "put")' /\ At(b, "put")' /\ Arg(a)' = Arg(b)' => a = b
        BY ZenonT(30), <2>1, <3>2, <3>3, <4>2
      <4>7. QED
        BY ZenonT(30), <2>1, <4>1, <4>5, <4>6
    <3>6. CASE Op(c)[1] \notin {"get", "put"}
      <4>1. kv' = kv /\ added' = added /\ (\A b \in Tids \ {c} : cur'[b] = cur[b]) /\ ~At(c, "put")'
        BY ZenonT(30), <1>1, <2>2, <3>3, <3>6 DEF Advances, DevTypes
      <4>2. QED
        BY Zenon, <2>1, <3>2, <4>1
    <3>7. QED
      BY ZenonT(30), <3>4, <3>5, <3>6
  <2>3. ASSUME NEW c \in Actors, NEW s, Begins(c, s)
        PROVE  /\ kv' = added'
               /\ \A a \in Tids : At(a, "put")' => cur'[a] = kv'[Arg(a)']
               /\ \A a, b \in Tids : At(a, "put")' /\ At(b, "put")' /\ Arg(a)' = Arg(b)' => a = b
    <3>1. /\ s \in Seq(Ops) /\ NotPut(s) /\ todo' = [todo EXCEPT ![c] = s] /\ kv' = kv /\ added' = added /\ cur' = cur
      BY Zenon, <2>3 DEF Begins, Good
    <3>2. \A b \in Tids \ {c} : (At(b, "put")' <=> At(b, "put")) /\ Arg(b)' = Arg(b)
      BY Zenon, <1>1, <3>1 DEF At, Op, Arg, DevTypes
    <3>3. ~At(c, "put")'
      <4>1. s # <<>> => Head(s) = s[1]
        BY <3>1
      <4>2. QED
        BY ZenonT(30), <1>1, <3>1, <4>1 DEF At, Op, NotPut, DevTypes
    <3>4. QED
      BY ZenonT(30), <2>1, <3>1, <3>2, <3>3
  <2>4. CASE Rests \/ \E c \in Actors : Drains(c)
    <3>1. kv' = kv /\ added' = added /\ cur' = cur /\ todo' = todo
      BY Zenon, <2>4 DEF Rests, Drains
    <3>2. \A b : (At(b, "put")' <=> At(b, "put")) /\ Arg(b)' = Arg(b)
      BY Zenon, <3>1 DEF At, Op, Arg
    <3>3. QED
      BY Zenon, <2>1, <3>1, <3>2
  <2>5. QED
    BY Zenon, <2>2, <2>3, <2>4 DEF DevStep
<1>4. QED
  BY Zenon, <1>2, <1>3

\* The first two operations of a program.
LEMMA TailFacts ==
  ASSUME NEW S, NEW s \in Seq(S), s # <<>>
  PROVE  /\ Len(s) \in Nat \ {0} /\ 1 \in 1..Len(s) /\ Head(s) = s[1]
         /\ Tail(s) # <<>> <=> Len(s) > 1
         /\ Len(s) > 1 => 2 \in 1..Len(s) /\ Head(Tail(s)) = s[2]
<1>1. /\ Len(s) \in Nat \ {0} /\ 1 \in 1..Len(s) /\ Head(s) = s[1]
      /\ Tail(s) \in Seq(S) /\ Len(Tail(s)) = Len(s) - 1
      /\ \A i \in 1..(Len(s) - 1) : Tail(s)[i] = s[i + 1]
  OBVIOUS
<1> DEFINE r == Tail(s)
<1>2. r \in Seq(S) /\ Len(r) = Len(s) - 1
  BY Zenon, <1>1
<1>3. Len(s) > 1 => 2 \in 1..Len(s) /\ Head(Tail(s)) = s[2]
  BY SMTT(30), <1>1
<1> HIDE DEF r
<1>4. (r = <<>> => Len(r) = 0) /\ (r # <<>> => Len(r) # 0)
  <2>1. ASSUME r = <<>> PROVE Len(r) = 0
    BY ZenonT(30), <2>1
  <2>2. ASSUME r # <<>> PROVE Len(r) # 0
    BY SMTT(20), <1>2, <2>2
  <2>3. QED
    BY ZenonT(30), <2>1, <2>2
<1>5. r # <<>> <=> Len(s) > 1
  BY <1>1, <1>2, <1>4
<1>6. QED
  BY Zenon, <1>1, <1>3, <1>5 DEF r

\* Every step keeps AnswerInv: a reflector's packet is counted when it arrives, answered
\* at the doorbell and taken off the queue at the step after it.
LEMMA AnswerStep == DevInv /\ AnswerInv /\ DevStep => AnswerInv'
<1> DEFINE Posted(t) == Len(frames[t]) = IF At(t, "ring") THEN 1 ELSE 0
           Answered(t) == sent[t] + Len(rxq[t]) = arrived[t] + IF At(t, "step") THEN 1 ELSE 0
<1> HIDE DEF Posted, Answered
<1> SUFFICES ASSUME DevInv, AnswerInv, DevStep, app' \in Reflectors, NEW t \in Tids
             PROVE  Posted(t)' /\ Answered(t)'
  BY Zenon DEF AnswerInv, Posted, Answered
<1>1. /\ app \in Reflectors /\ Posted(t) /\ Answered(t) /\ t \in Actors /\ t # RPC /\ DevTypes /\ DevTypes'
      /\ \A a \in Actors : a # RPC => a \in Tids
  <2>1. app' = app
    BY Zenon DEF DevStep, Advances, Drains, Begins, Rests
  <2>2. QED
    BY Zenon, <2>1, Populations, TypesStep DEF DevInv, AnswerInv, Posted, Answered
<1>2. /\ frames[t] \in Seq(Wqes) /\ rxq[t] \in Seq(Messages(app)) /\ sent[t] \in Nat /\ arrived[t] \in Nat
      /\ Len(rxq[t]) \in Nat /\ Len(frames[t]) \in Nat /\ todo[t] \in Seq(Ops)
  BY SMTT(20), <1>1 DEF DevTypes
<1>3. ASSUME todo'[t] = todo[t], frames'[t] = frames[t], sent'[t] = sent[t], arrived'[t] = arrived[t], rxq'[t] = rxq[t]
      PROVE  Posted(t)' /\ Answered(t)'
  BY Zenon, <1>1, <1>3 DEF Posted, Answered, At, Op
<1>4. ASSUME NEW a \in Actors, Advances(a) PROVE Posted(t)' /\ Answered(t)'
  <2>1. /\ todo[a] # <<>> /\ todo' = [todo EXCEPT ![a] = Tail(todo[a])] /\ Op(a) = todo[a][1] /\ a # RPC
        /\ Configures(todo[a]) \/ Answers(todo[a])
    <3>1. todo[a] # <<>> /\ todo' = [todo EXCEPT ![a] = Tail(todo[a])] /\ Op(a) = todo[a][1]
      BY Zenon, <1>4, NextAccess DEF Advances
    <3>2. QED
      BY Zenon, <1>1, <3>1 DEF DevInv, ProgInv, Good
  <2>2. a \in Tids /\ Ctx(a) = a /\ arrived' = arrived
    BY Zenon, <1>1, <1>4, <2>1, NextAccess DEF Advances
  <2>3. CASE a # t
    <3>1. todo'[t] = todo[t] /\ frames'[t] = frames[t] /\ sent'[t] = sent[t] /\ arrived'[t] = arrived[t] /\ rxq'[t] = rxq[t]
      BY ZenonT(30), <1>1, <1>4, <2>1, <2>2, <2>3 DEF Advances, DevTypes
    <3>2. QED
      BY Zenon, <1>3, <3>1
  <2>4. CASE a = t
    <3> DEFINE s == todo[t]
               n == Len(s)
    <3>1. s \in Seq(Ops) /\ s # <<>> /\ n \in Nat \ {0} /\ todo'[t] = Tail(s) /\ Op(t) = s[1] /\ 1 \in 1..n
      BY SMTT(20), <1>1, <1>2, <2>1, <2>4 DEF DevTypes
    <3>2. /\ n \in Nat \ {0} /\ 1 \in 1..n
          /\ Tail(s) # <<>> <=> n > 1
          /\ n > 1 => 2 \in 1..n /\ Head(Tail(s)) = s[2]
      BY Zenon, <3>1, TailFacts
    <3>3. n > 1 => 2 \in 1..n /\ Head(Tail(s)) = s[2]
      BY Zenon, <3>2
    <3>4. \A x : (At(t, x) <=> s[1][1] = x) /\ (At(t, x)' <=> n > 1 /\ s[2][1] = x)
      BY Zenon, <3>1, <3>2, <3>3 DEF At, Op
    <3> HIDE DEF n
    <3>5. CASE Configures(s)
      <4>1. s[1][1] = "window" /\ (n > 1 => s[2][1] = "window")
        BY Zenon, <3>2, <3>3, <3>5 DEF Configures, n
      <4>2. /\ ~At(t, "ring") /\ ~At(t, "step") /\ ~At(t, "ring")' /\ ~At(t, "step")'
        BY Zenon, <3>4, <4>1
      <4>3. frames'[t] = frames[t] /\ sent'[t] = sent[t] /\ arrived'[t] = arrived[t] /\ rxq'[t] = rxq[t]
        BY ZenonT(30), <1>4, <2>2, <2>4, <3>1, <4>1 DEF Advances
      <4>4. QED
        BY Zenon, <1>1, <4>2, <4>3 DEF Posted, Answered
    <3>6. CASE Answers(s)
      <4>1. /\ s[1][1] = "step" <=> n = 1
            /\ s[1][1] = "ring" <=> n = 2
            /\ s[1][1] = "post" <=> n = 3
            /\ n > 1 => (s[2][1] = "step" <=> n = 2)
            /\ n > 1 => (s[2][1] = "ring" <=> n = 3)
        <5>1. \A i \in 1..n : /\ s[i][1] = "step" <=> i = n
                              /\ s[i][1] = "ring" <=> i = n - 1
                              /\ s[i][1] = "post" <=> i = n - 2
          BY Zenon, <3>6 DEF Answers, n
        <5>2. /\ s[1][1] = "step" <=> 1 = n
              /\ s[1][1] = "ring" <=> 1 = n - 1
              /\ s[1][1] = "post" <=> 1 = n - 2
          BY Zenon, <3>2, <5>1
        <5>3. n > 1 => (s[2][1] = "step" <=> 2 = n) /\ (s[2][1] = "ring" <=> 2 = n - 1)
          BY Zenon, <3>3, <5>1
        <5>4. n \in Nat
          BY Zenon, <3>2
        <5>5. QED
          BY SMTT(30), <5>2, <5>3, <5>4
      <4>2. /\ At(t, "step") <=> n = 1
            /\ At(t, "ring") <=> n = 2
            /\ At(t, "step")' <=> n = 2
            /\ At(t, "ring")' <=> n = 3
        <5>1. /\ At(t, "step") <=> s[1][1] = "step"
              /\ At(t, "ring") <=> s[1][1] = "ring"
              /\ At(t, "step")' <=> n > 1 /\ s[2][1] = "step"
              /\ At(t, "ring")' <=> n > 1 /\ s[2][1] = "ring"
          BY Zenon, <3>4
        <5>2. (n = 2 => n > 1) /\ (n = 3 => n > 1)
          BY <3>2
        <5>3. QED
          BY ZenonT(30), <4>1, <5>1, <5>2
      <4>3. CASE n = 1
        <5>1. /\ s[1][1] = "step" /\ frames'[t] = frames[t] /\ sent'[t] = sent[t] /\ arrived'[t] = arrived[t]
              /\ rxq'[t] = Tail(rxq[t])
          BY ZenonT(30), <1>1, <1>4, <2>2, <2>4, <3>1, <4>1, <4>3 DEF Advances, DevTypes
        <5>2. rxq[t] # <<>>
          BY ZenonT(30), <1>4, <2>1, <2>4, <3>1, <5>1, NextAccess
        <5>3. Len(rxq'[t]) = Len(rxq[t]) - 1
          BY SMTT(30), <1>2, <5>1, <5>2
        <5>4. /\ At(t, "step") /\ ~At(t, "ring") /\ ~At(t, "step")' /\ ~At(t, "ring")'
          BY <4>2, <4>3
        <5>5. Len(frames[t]) = 0 /\ sent[t] + Len(rxq[t]) = arrived[t] + 1
          BY Zenon, <1>1, <5>4 DEF Posted, Answered
        <5>6. Len(frames'[t]) = 0 /\ sent'[t] + Len(rxq'[t]) = arrived'[t] + 0
          <6>1. \A x, y, z \in Nat : x + y = z + 1 => x + (y - 1) = z + 0
            OBVIOUS
          <6>2. sent[t] + (Len(rxq[t]) - 1) = arrived[t] + 0
            BY ZenonT(30), <1>2, <5>5, <6>1
          <6>3. QED
            BY Zenon, <5>1, <5>3, <5>5, <6>2
        <5>7. QED
          BY Zenon, <5>4, <5>6 DEF Posted, Answered
      <4>4. CASE n = 2
        <5>1. /\ s[1][1] = "ring" /\ frames'[t] = <<>> /\ sent'[t] = sent[t] + Len(frames[t]) /\ arrived'[t] = arrived[t]
              /\ rxq'[t] = rxq[t]
          BY ZenonT(30), <1>1, <1>4, <2>2, <2>4, <3>1, <4>1, <4>4 DEF Advances, DevTypes
        <5>2. QED
          BY SMTT(20), <1>1, <1>2, <4>2, <4>4, <5>1 DEF Posted, Answered
      <4>5. CASE n = 3
        <5>1. s[1][1] = "post"
          BY Zenon, <4>1, <4>5
        <5>2. /\ \E w \in Wqes : frames'[t] = Append(frames[t], w)
              /\ sent'[t] = sent[t] /\ arrived'[t] = arrived[t] /\ rxq'[t] = rxq[t]
          <6>1. /\ frames' = [frames EXCEPT ![t] = Append(@, IF Arg(t) = "tx" THEN <<"tx", cur[t]>> ELSE <<"rx", rxi[Ctx(t)]>>)]
                /\ sent' = sent /\ arrived' = arrived /\ rxq' = rxq
            BY ZenonT(30), <1>4, <2>2, <2>4, <3>1, <5>1 DEF Advances
          <6>2. (IF Arg(t) = "tx" THEN <<"tx", cur[t]>> ELSE <<"rx", rxi[Ctx(t)]>>) \in Wqes
            BY ZenonT(30), <1>1, <2>2, <2>4 DEF DevTypes, Wqes
          <6>3. QED
            BY Zenon, <1>1, <6>1, <6>2 DEF DevTypes
        <5>3. Len(frames'[t]) = Len(frames[t]) + 1
          BY <1>2, <5>2
        <5>4. QED
          BY SMTT(20), <1>1, <1>2, <4>2, <4>5, <5>2, <5>3 DEF Posted, Answered
      <4>6. CASE n > 3
        <5>1. s[1][1] \notin {"step", "ring", "post"}
          <6>1. n # 1 /\ n # 2 /\ n # 3
            BY <3>2, <4>6
          <6>2. QED
            BY Zenon, <4>1, <6>1
        <5>2. frames'[t] = frames[t] /\ sent'[t] = sent[t] /\ arrived'[t] = arrived[t] /\ rxq'[t] = rxq[t]
          BY ZenonT(30), <1>4, <2>2, <2>4, <3>1, <5>1 DEF Advances
        <5>3. /\ ~At(t, "step") /\ ~At(t, "ring") /\ ~At(t, "step")' /\ ~At(t, "ring")'
          <6>1. n # 1 /\ n # 2 /\ n # 3
            BY <3>2, <4>6
          <6>2. QED
            BY ZenonT(30), <4>2, <6>1
        <5>4. QED
          BY Zenon, <1>1, <5>2, <5>3 DEF Posted, Answered
      <4>7. QED
        BY SMTT(20), <3>2, <4>3, <4>4, <4>5, <4>6
    <3>7. QED
      BY Zenon, <2>1, <2>4, <3>5, <3>6
  <2>5. QED
    BY Zenon, <2>3, <2>4
<1>5. ASSUME NEW a \in Actors, NEW s, Begins(a, s) PROVE Posted(t)' /\ Answered(t)'
  <2>1. /\ todo' = [todo EXCEPT ![a] = s] /\ todo[a] = <<>> /\ s \in Seq(Ops) /\ Good(app, place, a, s)
        /\ Configures(s) \/ Len(s) > 3
        /\ frames'[t] = frames[t] /\ sent'[t] = sent[t] /\ arrived'[t] = arrived[t] /\ rxq'[t] = rxq[t]
    BY Zenon, <1>1, <1>5 DEF Begins, Good
  <2>2. CASE a # t
    BY Zenon, <1>1, <1>3, <2>1, <2>2 DEF DevTypes
  <2>3. CASE a = t
    <3>1. Configures(s) \/ Answers(s)
      BY Zenon, <1>1, <2>1, <2>3 DEF Good
    <3>2. s # <<>> => 1 \in 1..Len(s) /\ Head(s) = s[1] /\ Len(s) \in Nat
      BY SMTT(20), <2>1
    <3>3. s # <<>> => s[1][1] # "ring" /\ s[1][1] # "step"
      BY SMTT(20), <2>1, <3>1, <3>2 DEF Configures, Answers
    <3>4. todo'[t] = s
      BY Zenon, <1>1, <2>1, <2>3 DEF DevTypes
    <3>5. /\ ~At(t, "ring") /\ ~At(t, "step") /\ ~At(t, "ring")' /\ ~At(t, "step")'
      BY ZenonT(30), <2>1, <2>3, <3>2, <3>3, <3>4 DEF At, Op
    <3>6. QED
      BY Zenon, <1>1, <2>1, <3>5 DEF Posted, Answered
  <2>4. QED
    BY Zenon, <2>2, <2>3
<1>6. ASSUME NEW a \in Actors, Drains(a) PROVE FALSE
  <2>1. todo[a] # <<>> /\ todo[a][1][1] = "drain" /\ 1 \in 1..Len(todo[a])
    BY Zenon, <1>6, NextAccess DEF Drains, At
  <2>2. Configures(todo[a]) \/ Answers(todo[a])
    BY Zenon, <1>1, <2>1 DEF DevInv, ProgInv, Good
  <2>3. QED
    BY Zenon, <2>1, <2>2 DEF Configures, Answers
<1>7. CASE Rests
  <2>1. /\ todo'[t] = todo[t] /\ frames'[t] = frames[t] /\ sent'[t] = sent[t]
        /\ Len(rxq'[t]) - Len(rxq[t]) = arrived'[t] - arrived[t]
    BY Zenon, <1>1, <1>7 DEF Rests
  <2>2. Len(rxq'[t]) \in Nat /\ arrived'[t] \in Nat
    BY <1>1 DEF DevTypes
  <2>3. (At(t, "ring")' <=> At(t, "ring")) /\ (At(t, "step")' <=> At(t, "step"))
    BY Zenon, <2>1 DEF At, Op
  <2>4. Posted(t)'
    BY Zenon, <1>1, <2>1, <2>3 DEF Posted
  <2>5. \E v \in {0, 1} : sent[t] + Len(rxq[t]) = arrived[t] + v /\ v = IF At(t, "step") THEN 1 ELSE 0
    BY Zenon, <1>1 DEF Answered
  <2>6. PICK v \in {0, 1} : sent[t] + Len(rxq[t]) = arrived[t] + v /\ v = IF At(t, "step") THEN 1 ELSE 0
    BY Zenon, <2>5
  <2>7. sent'[t] + Len(rxq'[t]) = arrived'[t] + v
    <3> DEFINE x == sent[t]
               y == Len(rxq[t])
               z == arrived[t]
               u == Len(rxq'[t])
               w == arrived'[t]
    <3>1. x \in Nat /\ y \in Nat /\ z \in Nat /\ u \in Nat /\ w \in Nat /\ x + y = z + v /\ u - y = w - z
      BY Zenon, <1>2, <2>1, <2>2, <2>6
    <3> HIDE DEF x, y, z, u, w
    <3>2. x + u = w + v
      BY <3>1
    <3>3. QED
      BY Zenon, <2>1, <3>2 DEF x, u, w
  <2>8. v = IF At(t, "step")' THEN 1 ELSE 0
    BY Zenon, <2>3, <2>6
  <2>9. QED
    BY Zenon, <2>4, <2>7, <2>8 DEF Answered
<1>8. QED
  BY Zenon, <1>4, <1>5, <1>6, <1>7 DEF DevStep

\* Every step keeps AnnounceInv.
LEMMA AnnounceStep == DevInv /\ AnnounceInv /\ DevStep => AnnounceInv'
<1> DEFINE RingsFor(a) == frames[a] # <<>> => \E j \in 1..Len(todo[a]) : todo[a][j][1] = "ring"
           ClearsFor(a) == SendBuffer(app) \in dirty[a] /\ ~(a = RPC /\ app = "send_mt") =>
                             \E j \in 1..Len(todo[a]) : Clears(app, place, todo[a][j])
<1> HIDE DEF RingsFor, ClearsFor
<1> SUFFICES ASSUME DevInv, AnnounceInv, DevStep, NEW a \in Actors
             PROVE  RingsFor(a)' /\ ClearsFor(a)'
  BY Zenon DEF AnnounceInv, RingsFor, ClearsFor
<1>1. RingsFor(a) /\ ClearsFor(a) /\ DevTypes
  BY Zenon DEF DevInv, AnnounceInv, RingsFor, ClearsFor
<1>2. ASSUME todo'[a] = todo[a], frames'[a] = frames[a], dirty'[a] = dirty[a], app' = app, place' = place
      PROVE  RingsFor(a)' /\ ClearsFor(a)'
  BY Zenon, <1>1, <1>2 DEF RingsFor, ClearsFor
<1>3. ASSUME NEW c \in Actors, Advances(c) PROVE RingsFor(a)' /\ ClearsFor(a)'
  <2>1. todo[c] # <<>> /\ todo' = [todo EXCEPT ![c] = Tail(todo[c])] /\ Op(c) = todo[c][1] /\ app' = app /\ place' = place
    BY Zenon, <1>3, NextAccess DEF Advances
  <2>2. CASE c # a
    <3>1. todo'[a] = todo[a] /\ frames'[a] = frames[a] /\ dirty'[a] = dirty[a]
      BY Zenon, <1>1, <1>3, <2>1, <2>2 DEF Advances, DevTypes
    <3>2. QED
      BY Zenon, <1>2, <2>1, <3>1
  <2>3. CASE c = a
    <3> DEFINE s == todo[a]
               r == Tail(s)
    <3>1. s \in Seq(Ops) /\ s # <<>> /\ todo'[a] = r /\ Op(a) = s[1] /\ 1 \in 1..Len(s) /\ Arg(a) = s[1][2]
      BY SMTT(20), <1>1, <2>1, <2>3 DEF DevTypes, Arg
    <3>2. \A j \in 1..Len(s) : j # 1 => j \in (1 + 1)..Len(s) /\ j - 1 \in 1..Len(r) /\ r[j - 1] = s[j]
      BY <3>1
    <3>3. Announces(app, place, a, s)
      BY Zenon DEF DevInv, ProgInv, Good
    <3>3a. \A j \in (1 + 1)..Len(s) : j \in 1..Len(s) /\ j # 1
      BY <3>1
    <3> HIDE DEF s, r
    <3>4. ASSUME frames'[a] # <<>> PROVE \E j \in 1..Len(r) : r[j][1] = "ring"
      <4>1. s[1][1] # "ring"
        BY ZenonT(30), <1>1, <1>3, <2>3, <3>1, <3>4 DEF Advances, DevTypes
      <4>2. \E j \in 1..Len(s) : j # 1 /\ s[j][1] = "ring"
        <5>1. CASE s[1][1] = "post"
          BY ZenonT(30), <3>1, <3>3, <3>3a, <5>1 DEF Announces
        <5>2. CASE s[1][1] # "post"
          <6>1. frames'[a] = frames[a]
            BY ZenonT(30), <1>3, <2>3, <3>1, <4>1, <5>2 DEF Advances
          <6>2. \E j \in 1..Len(s) : s[j][1] = "ring"
            BY Zenon, <1>1, <3>4, <6>1 DEF RingsFor, s
          <6>3. QED
            BY Zenon, <4>1, <6>2
        <5>3. QED
          BY Zenon, <5>1, <5>2
      <4>3. QED
        BY Zenon, <3>2, <4>2
    <3>5. ASSUME SendBuffer(app) \in dirty'[a], ~(a = RPC /\ app = "send_mt")
          PROVE  \E j \in 1..Len(r) : Clears(app, place, r[j])
      <4>1. \E j \in 1..Len(s) : j # 1 /\ Clears(app, place, s[j])
        <5>1. CASE Writes(app, s[1])
          BY ZenonT(30), <3>1, <3>3, <3>3a, <3>5, <5>1 DEF Announces
        <5>2. CASE ~Writes(app, s[1])
          <6>1. SendBuffer(app) \in dirty[a] /\ ~Clears(app, place, s[1])
            <7>1. CASE s[1][1] = "ring"
              <8>1. dirty'[a] = {b \in dirty[a] : Arg(a) = "mem" /\ Held(place, b) = "host"}
                BY ZenonT(30), <1>1, <1>3, <2>3, <3>1, <7>1 DEF Advances, DevTypes
              <8>2. QED
                BY Zenon, <3>1, <3>5, <8>1 DEF Clears
            <7>2. CASE s[1][1] # "ring"
              <8>1. \/ dirty'[a] = dirty[a]
                    \/ s[1][1] = "store" /\ dirty'[a] = dirty[a] \cup {s[1][2]}
                    \/ s[1][1] \in {"mac", "headers"} /\ dirty'[a] = dirty[a] \cup {"tx"}
                BY ZenonT(30), <1>1, <1>3, <2>3, <3>1, <7>2 DEF Advances, DevTypes
              <8>2. QED
                BY ZenonT(30), <3>5, <5>2, <7>2, <8>1 DEF Writes, Clears
            <7>3. QED
              BY Zenon, <7>1, <7>2
          <6>2. \E j \in 1..Len(s) : Clears(app, place, s[j])
            BY Zenon, <1>1, <3>5, <6>1 DEF ClearsFor, s
          <6>3. QED
            BY Zenon, <6>1, <6>2
        <5>3. QED
          BY Zenon, <5>1, <5>2
      <4>2. PICK j \in 1..Len(s) : j # 1 /\ Clears(app, place, s[j])
        BY Zenon, <4>1
      <4>3. j - 1 \in 1..Len(r) /\ Clears(app, place, r[j - 1])
        BY ZenonT(30), <3>2, <4>2
      <4>4. QED
        BY Zenon, <4>3
    <3>6. QED
      BY ZenonT(30), <2>1, <3>1, <3>4, <3>5 DEF RingsFor, ClearsFor
  <2>4. QED
    BY Zenon, <2>2, <2>3
<1>4. ASSUME NEW c \in Actors, NEW s, Begins(c, s) PROVE RingsFor(a)' /\ ClearsFor(a)'
  <2>1. /\ todo' = [todo EXCEPT ![c] = s] /\ todo[c] = <<>> /\ frames' = frames /\ dirty' = dirty
        /\ app' = app /\ place' = place
    BY Zenon, <1>4 DEF Begins
  <2>2. CASE c # a
    BY Zenon, <1>1, <1>2, <2>1, <2>2 DEF DevTypes
  <2>3. CASE c = a
    <3>1. 1..Len(todo[a]) = {}
      BY <2>1, <2>3
    <3>2. QED
      BY Zenon, <1>1, <2>1, <3>1 DEF RingsFor, ClearsFor
  <2>4. QED
    BY Zenon, <2>2, <2>3
<1>5. CASE Rests \/ \E c \in Actors : Drains(c)
  BY Zenon, <1>2, <1>5 DEF Rests, Drains
<1>6. QED
  BY Zenon, <1>3, <1>4, <1>5 DEF DevStep

\* The three hold when main starts.
LEMMA PromisesInit == DInit => KvInv /\ AnswerInv /\ AnnounceInv
<1> SUFFICES ASSUME DInit PROVE KvInv /\ AnswerInv /\ AnnounceInv
  BY Zenon
<1>1. \A a \in Actors : todo[a] = <<>> /\ frames[a] = <<>> /\ dirty[a] = {}
  BY Zenon DEF DInit
<1>2. Tids \subseteq Actors
  BY Zenon DEF Actors
<1>3. \A t \in Tids : \A x : ~At(t, x)
  BY Zenon, <1>1, <1>2 DEF At
<1>4. KvInv
  BY Zenon, <1>3 DEF DInit, KvInv
<1>5. AnswerInv
  BY Zenon, <1>1, <1>2, <1>3 DEF DInit, AnswerInv
<1>6. AnnounceInv
  BY Zenon, <1>1 DEF AnnounceInv
<1>7. QED
  BY Zenon, <1>4, <1>5, <1>6

\* The invariant says that the windows are right.
LEMMA WindowHolds == DevInv => WindowRight
<1> SUFFICES ASSUME DevInv, NEW a \in Actors, NEW b \in Accesses(a)
             PROVE  /\ Where(b) = "host" /\ app # "hostrq" => win[a] = Key(b)
                    /\ b = "kv" /\ begin_thread = 0 => entry
  BY Zenon DEF WindowRight
<1>1. todo[a] # <<>> /\ b \in Touches(Op(a))
  BY Zenon DEF Accesses, Touches, Arg
<1>2. Op(a) = todo[a][1] /\ 1 \in 1..Len(todo[a])
  BY Zenon, <1>1, NextAccess
<1>3. Windowed(app, place, a, todo[a], win[a]) /\ MainInv /\ CtxInv
  BY Zenon, <1>1 DEF DevInv, ProgInv, Started
<1>4. /\ app # "hostrq" /\ Held(place, b) = "host" => LastKey(place, todo[a], 1, win[a], KeyOf(place, b))
      /\ b = "kv" => app = "kv"
  BY Zenon, <1>1, <1>2, <1>3 DEF Windowed
<1>5. ASSUME Where(b) = "host", app # "hostrq" PROVE win[a] = Key(b)
  <2>1. LastKey(place, todo[a], 1, win[a], KeyOf(place, b))
    BY Zenon, <1>4, <1>5 DEF Where, Held
  <2>2. QED
    BY <2>1 DEF LastKey, KeyOf, Key
<1>6. ASSUME b = "kv", begin_thread = 0 PROVE entry
  <2>1. app = "kv" /\ app \notin Callers
    BY Zenon, <1>4, <1>6 DEF Callers, PingPongs
  <2>2. a \in Tids /\ 0 \in Tids
    BY Zenon, <1>1, <1>3, <2>1, Populations DEF CtxInv
  <2>3. Ready(a)
    BY Zenon, <1>1, <1>3, <2>2 DEF CtxInv
  <2>4. Ready(0)
    BY ZenonT(30), <1>3, <1>6, <2>2, <2>3, ReadyHolds DEF HostReady
  <2>5. QED
    BY Zenon, <1>3, <2>1, <2>4 DEF CtxInv
<1>7. QED
  BY Zenon, <1>5, <1>6

\* An actor with nothing left to do has announced what it wrote.
LEMMA WrittenHolds == AnnounceInv => WrittenBack
<1> SUFFICES ASSUME AnnounceInv, NEW a \in Actors, todo[a] = <<>>
             PROVE  /\ frames[a] = <<>>
                    /\ ~(a = RPC /\ app = "send_mt") => SendBuffer(app) \notin dirty[a]
  BY Zenon DEF WrittenBack, SendBuffer
<1>1. 1..Len(todo[a]) = {}
  OBVIOUS
<1>2. QED
  BY Zenon, <1>1 DEF AnnounceInv

\* The account of the packets implies that those not in the queue are answered.
LEMMA AnsweredHolds == AnswerInv => EveryPacketAnswered
BY Zenon DEF AnswerInv, EveryPacketAnswered, At

\* KvInv says that nothing is lost.
LEMMA KvHolds == KvInv => KvExact
BY Zenon DEF KvInv, KvExact

\* The device with its host implements the host alone: whatever handlers, RPC and NIC do
\* in between, main makes its calls as DpaHost says it does.
THEOREM DeviceRunsMain == DSpec => HostSpec
<1>1. DInit => HostInit
  BY Zenon DEF DInit
<1>2. [DNext]_dvars => [HostNext]_hostVars
  BY Zenon, HostPart
<1>3. QED
  BY <1>1, <1>2, PTL DEF DSpec, HostSpec

\* With the device running beside it, every call of a main of flexio/dpa_* still finds
\* the objects it needs.
THEOREM DeviceCallsFindTheirNeeds == DSpec => []NeedsMet
BY DeviceRunsMain, CallsFindTheirNeeds, PTL

\* Every reachable state of the device satisfies DevInv, for every number of threads,
\* ring size, placement and application.
THEOREM DeviceInvariant == DSpec => []DevInv
BY DevInvInit, DevInvStep, PTL DEF DSpec

\* A device function reaches a buffer in host memory only while its window carries that
\* buffer's memory key (dpa_hostrq, which configures none, apart), and the table of
\* dpa_kv only after thread 0's initialisation has set global_entry_ptr, if begin_thread
\* is 0.
THEOREM WindowsAreRight == DSpec => []WindowRight
BY DeviceInvariant, WindowHolds, PTL

\* A handler or an RPC that has finished has posted no frame without ringing the
\* doorbell for it, and has written back what it wrote into its send buffer before a
\* doorbell; the headers that dpa_send_mt's first-packet RPC leaves to the handlers are
\* the exception.
THEOREM DeviceWritesBack == DSpec => []WrittenBack
<1>1. DInit => AnnounceInv
  BY Zenon, PromisesInit
<1>2. DevInv /\ AnnounceInv /\ [DNext]_dvars => AnnounceInv'
  BY ZenonT(30), DevSteps, AnnounceStep
<1>3. QED
  BY <1>1, <1>2, DeviceInvariant, WrittenHolds, PTL DEF DSpec

\* A reflector answers every packet that arrived and is no longer in its queue, once and
\* only once.
THEOREM ReflectorsAnswer == DSpec => []EveryPacketAnswered
<1>1. DInit => AnswerInv
  BY ZenonT(30), PromisesInit
<1>2. DevInv /\ AnswerInv /\ [DNext]_dvars => AnswerInv'
  BY Zenon, DevSteps, AnswerStep
<1>3. QED
  BY <1>1, <1>2, DeviceInvariant, AnsweredHolds, PTL DEF DSpec

\* As long as no two threads have added to one entry at the same time, the table of
\* dpa_kv holds exactly what was added.
THEOREM AggregationExact == DSpec => []KvExact
<1>1. DInit => KvInv
  BY Zenon, PromisesInit
<1>2. DevInv /\ KvInv /\ [DNext]_dvars => KvInv'
  BY Zenon, DevSteps, KvStep
<1>3. QED
  BY <1>1, <1>2, DeviceInvariant, KvHolds, PTL DEF DSpec
=============================================================================
