------------------------------ MODULE DpdkPorts ------------------------------
(***************************************************************************)
(* utils/dpdk: dpdk_queues_and_ports_init and _fini, with the ports, the   *)
(* mbuf pool, the hairpin queues and the stateful flow table (SFT), whose  *)
(* rules only matter by their creation failing.  A function is the sequence of its driver calls <<call, a, b>>;  *)
(* any call of the initialisation may fail, and then the code's own        *)
(* clean-up runs.  GPU_SUPPORT is not compiled in.                         *)
(***************************************************************************)
EXTENDS Integers, Sequences, SequencesExt, FiniteSets

CONSTANTS MaxPorts     \* RTE_MAX_ETHPORTS
ASSUME MaxPortsAssumption == MaxPorts \in Nat \ {0}

PortIds == 0..(MaxPorts - 1)
Sorted(S) == SetToSortSeq(S, <)
Reversed(S) == SetToSortSeq(S, >)
\* for (n = 0; ...) { if (++n >= nb_ports) break; }: at least one turn
FirstPorts(seq, n) == SubSeq(seq, 1, IF n = 0 THEN (IF seq = <<>> THEN 0 ELSE 1) ELSE IF n < Len(seq) THEN n ELSE Len(seq))
EachPort(seq, F(_)) == FlattenSeq([i \in 1..Len(seq) |-> F(seq[i])])
Twin(p) == IF p % 2 = 0 THEN p + 1 ELSE p - 1        \* port ^ 1

\* c: valid (the ports of the driver), nb_ports, hairpin, self, sft,
\* state (how many of enable_state_hairpin and enable_state_drop)
Peers_(c, p) ==
  IF ~c.hairpin THEN {}
  ELSE IF Twin(p) \in c.valid THEN (IF c.self THEN {p} ELSE {}) \cup {Twin(p)} ELSE {p}
----------------------------------------------------------------------------
(* Hairpin queues *)

bind_hairpin_queues(c, p) ==
  LET peers == Sorted(Peers_(c, p)) IN
    [i \in 1..Len(peers) |-> <<"bind", p, <<p, peers[i]>> >>] \o
    [i \in 1..Len(peers) |-> <<"bind", p, <<peers[i], p>> >>]
unbind_hairpin_queues(c, p) ==
  LET peers == Sorted(Peers_(c, p)) IN
    [i \in 1..Len(peers) |-> <<"unbind", p, <<p, peers[i]>> >>] \o
    [i \in 1..Len(peers) |-> <<"unbind", p, <<peers[i], p>> >>]
disable_hairpin_queues(c, n) ==
  EachPort(Sorted({p \in c.valid : p < n}), LAMBDA p : unbind_hairpin_queues(c, p))
enable_hairpin_queues(c) ==
  EachPort(FirstPorts(Sorted(c.valid), c.nb_ports), LAMBDA p : bind_hairpin_queues(c, p))

(* Ports: information, configuration, promiscuous mode, RX queues (which    *)
(* take the pool), TX queues, hairpin queues, isolation, start              *)
port_init(c, p) == [s \in 1..8 |-> <<"port", p, s>>]
BugPortsLast(c, n) ==
  EachPort(FirstPorts(Reversed({p \in c.valid : 0 < p /\ p <= n}), c.nb_ports), LAMBDA p : << <<"close", p, 0>> >>)
  \o << <<"free_pool", 0, 0>> >>
\* From port n downwards, nb_ports of them
dpdk_ports_fini(c, n) ==
  EachPort(FirstPorts(Reversed({p \in c.valid : p <= n}), c.nb_ports), LAMBDA p : << <<"close", p, 0>> >>)
  \o << <<"free_pool", 0, 0>> >>
dpdk_ports_init(c) ==
  << <<"pool", 0, 0>> >> \o (IF c.sft THEN << <<"metadata", 0, 0>> >> ELSE <<>>) \o
  EachPort(FirstPorts(Sorted(c.valid), c.nb_ports), LAMBDA p : port_init(c, p))
----------------------------------------------------------------------------
(* SFT rules, n of them for a port *)

Rules(p, n) == [i \in 1..n |-> <<"rule", p, i>>]
create_rules_sft_offload(c) ==
  IF c.nb_ports > 2 THEN << <<"reject", 0, 0>> >>
  ELSE EachPort(Sorted(0..(c.nb_ports - 1)), LAMBDA p :
         Rules(p, 4)                             \* jump to SFT, by IP version and protocol
         \o Rules(p, 2)                          \* RSS, hairpin of what is not L4
         \o Rules(p, c.state)                    \* hairpin and drop by SFT state
         \o Rules(p, 4))                         \* fragments, forwarded or hairpinned
dpdk_sft_init(c) == << <<"sft", 0, 0>>, <<"rss", 0, 0>> >> \o create_rules_sft_offload(c)

----------------------------------------------------------------------------
dpdk_queues_and_ports_init(c) ==
  << <<"count", 0, 0>> >>
  \o (IF c.nb_ports > 0 THEN dpdk_ports_init(c) ELSE <<>>)
  \o (IF c.hairpin THEN enable_hairpin_queues(c) ELSE <<>>)
  \o (IF c.sft THEN dpdk_sft_init(c) ELSE <<>>)
dpdk_queues_and_ports_fini(c) ==
  (IF c.sft THEN << <<"sft_fini", 0, 0>> >> ELSE <<>>)
  \o disable_hairpin_queues(c, MaxPorts) \o dpdk_ports_fini(c, MaxPorts)

\* What runs after a call fails: the returns and the labels at the end of
\* dpdk_queues_and_ports_init
CleanUp(c, op) ==
  CASE op[1] \in {"count", "pool", "metadata"} -> <<>>
    [] op[1] = "port" -> dpdk_ports_fini(c, op[2])
    [] op[1] = "bind" -> disable_hairpin_queues(c, op[2]) \o dpdk_ports_fini(c, MaxPorts)
    [] op[1] = "rss" -> << <<"sft_fini", 0, 0>> >> \o disable_hairpin_queues(c, MaxPorts) \o dpdk_ports_fini(c, MaxPorts)
    [] OTHER -> disable_hairpin_queues(c, MaxPorts) \o dpdk_ports_fini(c, MaxPorts)
----------------------------------------------------------------------------
VARIABLES
  conf,     \* the application's configuration and the driver's ports
  calls,    \* driver calls still to make
  phase,    \* "init", "cleanup", "up", "fini", "failed" or "down"
  fault,    \* the call that failed
  eth,      \* per port: "closed", "configured", "queues" or "started"
  bound,    \* hairpin pairs <<tx port, rx port>> bound
  pool,     \* mbuf_pool: "null", "live" or "freed"
  sft,      \* rte_sft_init without rte_sft_fini
  flaws     \* misuse of the driver seen
dvars == <<conf, calls, phase, fault, eth, bound, pool, sft, flaws>>

PInitConf ==
  [valid : SUBSET PortIds, nb_ports : 0..MaxPorts, hairpin : BOOLEAN, self : BOOLEAN,
   sft : BOOLEAN, state : 0..2]
DInit_ ==
  /\ conf \in {c \in PInitConf : (~c.sft => c.state = 0) /\ (~c.hairpin => ~c.self)}
  /\ calls = dpdk_queues_and_ports_init(conf)
  /\ phase = "init" /\ fault = "none"
  /\ eth = [p \in PortIds |-> "closed"] /\ bound = {}
  /\ pool = "null" /\ sft = FALSE /\ flaws = {}

\* Calls that cannot succeed: too few ports, peers or ports that are not started
Refused(op) ==
  CASE op[1] = "count" -> conf.nb_ports > 0 /\ Cardinality(conf.valid) < conf.nb_ports
    [] op[1] = "bind" -> \E i \in 1..2 : eth[op[3][i]] # "started"
    [] op[1] = "rss" -> eth[0] # "started"
    [] op[1] = "rule" -> eth[op[2]] # "started"
    [] op[1] = "reject" -> TRUE
    [] OTHER -> FALSE

\* The effect of a call that succeeds
EthAfter(op) ==
  CASE op[1] = "port" /\ op[3] = 2 -> [eth EXCEPT ![op[2]] = "configured"]
    [] op[1] = "port" /\ op[3] = 4 -> [eth EXCEPT ![op[2]] = "queues"]
    [] op[1] = "port" /\ op[3] = 8 -> [eth EXCEPT ![op[2]] = "started"]
    [] op[1] = "close" -> [eth EXCEPT ![op[2]] = "closed"]
    [] OTHER -> eth
FlawsAfter(op) ==
  flaws
  \cup (IF op[1] = "close" /\ eth[op[2]] = "closed" THEN {"stranger closed"} ELSE {})
  \cup (IF op[1] = "close" /\ \E b \in bound : op[2] \in {b[1], b[2]} THEN {"closed while bound"} ELSE {})
  \cup (IF op[1] = "free_pool" /\ pool = "live" /\ \E p \in PortIds : eth[p] \in {"queues", "started"} THEN {"pool in use"} ELSE {})

Call ==
  /\ phase \in {"init", "cleanup", "fini"} /\ calls # <<>>
  /\ LET op == calls[1] IN
       /\ phase = "init" => ~Refused(op)
       /\ calls' = Tail(calls)
       /\ eth' = EthAfter(op) /\ flaws' = FlawsAfter(op)
       /\ bound' = CASE op[1] = "bind" -> bound \cup {op[3]} [] op[1] = "unbind" -> bound \ {op[3]} [] OTHER -> bound
       /\ pool' = CASE op[1] = "pool" -> "live"
                    [] op[1] = "free_pool" /\ pool = "live" -> "freed"
                    [] OTHER -> pool
       /\ sft' = CASE op[1] = "sft" -> TRUE [] op[1] = "sft_fini" -> FALSE [] OTHER -> sft
  /\ UNCHANGED <<conf, phase, fault>>
Failure ==
  /\ phase = "init" /\ calls # <<>> /\ (calls[1][1] = "count" => Refused(calls[1]))
  /\ phase' = "cleanup" /\ fault' = calls[1][1] /\ calls' = CleanUp(conf, calls[1])
  /\ UNCHANGED <<conf, eth, bound, pool, sft, flaws>>
Succeeded ==
  /\ phase = "init" /\ calls = <<>> /\ phase' = "up"
  /\ UNCHANGED <<conf, calls, fault, eth, bound, pool, sft, flaws>>
Finish ==
  /\ phase = "up" /\ phase' = "fini" /\ calls' = dpdk_queues_and_ports_fini(conf)
  /\ UNCHANGED <<conf, fault, eth, bound, pool, sft, flaws>>
Over ==
  /\ phase \in {"cleanup", "fini"} /\ calls = <<>>
  /\ phase' = IF phase = "fini" THEN "down" ELSE "failed"
  /\ UNCHANGED <<conf, calls, fault, eth, bound, pool, sft, flaws>>
DpdkNext == Call \/ Failure \/ Succeeded \/ Finish \/ Over
----------------------------------------------------------------------------
(* Properties *)

Surplus == Cardinality(conf.valid) > conf.nb_ports

\* After a failed initialisation or after fini nothing is left: no port, pool
\* or flow table; and on the way hairpin queues are unbound before their port is
\* closed, ports are closed before the pool their queues draw on is freed, and
\* only ports this application configured are closed.  The exceptions are the code's: ports_fini counts nb_ports
\* from the highest port down, init from the lowest up, so with surplus ports
\* it closes others; a failed metadata registration leaves the pool, and a
\* failed rule the flow table; a port that failed before it was configured is
\* closed as well; when binding fails after the first pair of a port,
\* enable_hairpin_queues unbinds only the ports before it.
TakenDown ==
  /\ "pool in use" \in flaws => Surplus /\ fault # "port"
  /\ "stranger closed" \in flaws => Surplus \/ fault = "port"
  /\ "closed while bound" \in flaws => fault = "bind"
  /\ phase \in {"failed", "down"} =>
       /\ (\A p \in PortIds : eth[p] = "closed") \/ (Surplus /\ fault # "port")
       /\ pool # "live" \/ fault = "metadata"
       /\ ~sft \/ fault \in {"rule", "reject"}
=============================================================================
