------------------------------- MODULE DpaHost -------------------------------
(***************************************************************************)
(* The host side of a flexio/dpa_* application: main makes its calls on    *)
(* the FlexIO wrapper one after another, those of the loop over the        *)
(* threads once for each.  What a call does on the device is added by      *)
(* module DpaApp.                                                          *)
(***************************************************************************)
EXTENDS DpaMains

CONSTANT Configs    \* the settings each application is run with
ASSUME ConfigAssumption == \A a \in Apps : Configs[a] \subseteq Settings(a)

VARIABLES
  app, place,     \* the program and its buffer placement
  begin_thread, g_thread_num, \* its flags: the first thread, how many
  host, loop,     \* calls main makes before the next turn of its loop; that turn
  made,           \* what exists: <<kind, thread>>
  matcher, tables, rules  \* fields of the flow matcher, of each table, of each rule
fixed == <<app, place, begin_thread, g_thread_num>>
hostVars == <<fixed, host, loop, made, matcher, tables, rules>>

HostInit ==
  /\ app \in Apps
  /\ \E c \in Configs[app] : place = c.place /\ begin_thread = c.begin /\ g_thread_num = c.num
  /\ host = Main(app).before /\ loop = IF app \in Threaded THEN 0 ELSE g_thread_num
  /\ made = {} /\ matcher = {} /\ tables = <<>> /\ rules = <<>>

NextCall(name) == host # <<>> /\ Head(host)[1] = name /\ host' = Tail(host) /\ UNCHANGED <<fixed, loop>>
What == Head(host)[2]
Tid == Head(host)[3]
Ready(t) == <<"init", t>> \in made
NeedsOf(x, t) == {<<k, IF k \in Global THEN 0 ELSE t>> :
  k \in Needs[x] \cup IF x = "sq" /\ place.shared THEN SharedSqNeeds ELSE {}}

\* A turn of the loop over the threads, or what follows the loop.
next_thread ==
  /\ host = <<>> /\ loop <= g_thread_num
  /\ host' = IF loop < g_thread_num THEN PerThread(begin_thread + loop) ELSE Main(app).after
  /\ loop' = loop + 1
  /\ UNCHANGED <<fixed, made, matcher, tables, rules>>
\* "create" of an object, "init" of a device context, "run" of a handler,
\* "first" for the RPC that sends the first packets.
make(name) ==
  /\ NextCall(name) /\ made' = made \cup {<<What, Tid>>}
  /\ UNCHANGED <<matcher, tables, rules>>
set_mac ==
  /\ NextCall("field") /\ matcher' = matcher \cup {What}
  /\ UNCHANGED <<made, tables, rules>>
clear ==
  /\ NextCall("clear") /\ matcher' = {}
  /\ UNCHANGED <<made, tables, rules>>
create_flow_table ==
  /\ NextCall("table") /\ tables' = Append(tables, <<What, matcher>>)
  /\ UNCHANGED <<made, matcher, rules>>
create_dr_rule ==
  /\ NextCall("rule") /\ rules' = Append(rules, <<What, matcher, Tid>>)
  /\ UNCHANGED <<made, matcher, tables>>
\* "wait" for force_quit, or for a stop_time call that finds the aggregation
\* stopped; "stop" for the RPC that sets is_stop.
leave(name) == NextCall(name) /\ UNCHANGED <<made, matcher, tables, rules>>

HostNext ==
  \/ next_thread \/ set_mac \/ clear \/ create_flow_table \/ create_dr_rule
  \/ \E name \in {"create", "init", "run", "first"} : make(name)
  \/ \E name \in {"wait", "stop"} : leave(name)
HostSpec == HostInit /\ [][HostNext]_hostVars
----------------------------------------------------------------------------
(* Properties *)

\* Every call main makes on the wrapper finds what its Asserts demand, and no
\* handler is started before its context is initialised (it would never run).
\* A rule finds its table, and in the one flow_matcher of main, which is cleared
\* and set in step with the tables, exactly the fields that table masks.
NeedsMet ==
  /\ (host # <<>> /\ Head(host)[1] \in {"create", "init", "run"}) => NeedsOf(What, Tid) \subseteq made
  /\ (host # <<>> /\ Head(host)[1] = "rule") =>
       /\ \E i \in DOMAIN tables : tables[i] = <<What, matcher>>
       /\ What = "rx" => NeedsOf("rule", Tid) \subseteq made
=============================================================================
