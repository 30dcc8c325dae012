---------------------------- MODULE ParamExchange ----------------------------
(***************************************************************************)
(* receive_and_send_rdma_param: the two sides of rdma_bench exchange their *)
(* connection parameters over UDP.  On each side a server thread waits for *)
(* one datagram and sets done a second later; the main thread repeats its  *)
(* own datagram every 0.3 s until done.  Every worker thread does so on    *)
(* the port of its thread id.  Datagrams may be lost, duplicated or        *)
(* overtake one another, and are dropped while nobody has bound the port.  *)
(***************************************************************************)
EXTENDS Integers

CONSTANTS Peers,     \* the two sides
          Ids,       \* sets of thread ids a side may have: from bind_offset on
          Resends,   \* datagrams sent in the second between reception and done
          MaxNet     \* bound: copies of one datagram under way; further ones are lost
ASSUME PeersAssumption == \E a, b \in Peers : a # b /\ Peers = {a, b}
ASSUME ResendsAssumption == Resends \in Nat /\ MaxNet \in Nat

VARIABLES
  ids,      \* the thread ids of each side
  server,   \* "start", "bound", "got" or "done", for each side and id
  client,   \* "send" or "returned"
  got,      \* receive_info: {} or one <<side, id>>
  after,    \* datagrams sent since reception, up to Resends
  net,      \* how many datagrams are on their way, by <<to, port, from>>
  lost      \* datagrams to this side and port lost or dropped, up to Resends
pvars == <<ids, server, client, got, after, net, lost>>

AllIds == UNION Ids
Peer(p) == CHOOSE q \in Peers : q # p
Messages == Peers \X AllIds \X (Peers \X AllIds)
More(n) == IF n < Resends THEN n + 1 ELSE n

PInit ==
  /\ ids \in [Peers -> Ids]
  /\ server = [p \in Peers |-> [i \in AllIds |-> "start"]]
  /\ client = [p \in Peers |-> [i \in AllIds |-> IF i \in ids[p] THEN "send" ELSE "absent"]]
  /\ got = [p \in Peers |-> [i \in AllIds |-> {}]]
  /\ after = [p \in Peers |-> [i \in AllIds |-> 0]]
  /\ net = [m \in Messages |-> 0]
  /\ lost = [p \in Peers |-> [i \in AllIds |-> 0]]

\* UDPServer server(port + thread_id), in the thread, after the client may have begun
Bind(p, i) ==
  /\ i \in ids[p] /\ server[p][i] = "start"
  /\ server' = [server EXCEPT ![p][i] = "bound"]
  /\ UNCHANGED <<ids, client, got, after, net, lost>>

\* client.send to port + thread_id of the other side
Send(p, i) ==
  /\ client[p][i] = "send" /\ server[p][i] # "done"
  /\ LET m == <<Peer(p), i, <<p, i>>>> IN
       \/ net[m] < MaxNet /\ net' = [net EXCEPT ![m] = @ + 1] /\ lost' = lost
       \/ net[m] = MaxNet /\ net' = net /\ lost' = [lost EXCEPT ![Peer(p)][i] = More(@)]
  /\ after' = [after EXCEPT ![p][i] = IF server[p][i] = "got" THEN More(@) ELSE @]
  /\ UNCHANGED <<ids, server, client, got>>

\* recv_blocking takes the first datagram; the others stay in the socket.
Receive(p, i, m) ==
  /\ net[m] > 0 /\ m[1] = p /\ m[2] = i
  /\ server[p][i] = "bound"
  /\ server' = [server EXCEPT ![p][i] = "got"]
  /\ got' = [got EXCEPT ![p][i] = {m[3]}]
  /\ net' \in {net, [net EXCEPT ![m] = @ - 1]}     \* a duplicate may follow
  /\ UNCHANGED <<ids, client, after, lost>>

\* A datagram is lost, or finds no socket, or one that is read no more.
Drop(m) ==
  /\ net[m] > 0
  /\ net' = [net EXCEPT ![m] = @ - 1]
  /\ lost' = [lost EXCEPT ![m[1]][m[2]] = More(@)]
  /\ UNCHANGED <<ids, server, client, got, after>>

BugDone(p, i) ==
  /\ server[p][i] = "got"
  /\ server' = [server EXCEPT ![p][i] = "done"]
  /\ UNCHANGED <<ids, client, got, after, net, lost>>
\* sleep(1); done = true
Done(p, i) ==
  /\ server[p][i] = "got" /\ after[p][i] = Resends
  /\ server' = [server EXCEPT ![p][i] = "done"]
  /\ UNCHANGED <<ids, client, got, after, net, lost>>

\* join, rt_assert(exports.size() == 1), return
Returns(p, i) ==
  /\ client[p][i] = "send" /\ server[p][i] = "done"
  /\ client' = [client EXCEPT ![p][i] = "returned"]
  /\ UNCHANGED <<ids, server, got, after, net, lost>>

PSide(p, i) == Bind(p, i) \/ Send(p, i) \/ Done(p, i) \/ Returns(p, i)
PDeliver == \E p \in Peers, i \in AllIds, m \in Messages : Receive(p, i, m)
PNext == (\E p \in Peers, i \in AllIds : PSide(p, i)) \/ PDeliver \/ \E m \in Messages : Drop(m)
PSpec == PInit /\ [][PNext]_pvars
----------------------------------------------------------------------------
(* Properties *)

\* What a worker connects to is the parameter of the peer's worker with its
\* own id, in spite of duplicates and of the ports all workers share an
\* address with; the rt_assert on exports.size() never fails.
RightPeer ==
  \A p \in Peers, i \in AllIds : client[p][i] = "returned" => got[p][i] = {<<Peer(p), i>>}

\* A side stops repeating its datagram although nothing acknowledges it.  The
\* other side is then left waiting for ever only if every one of the Resends
\* datagrams sent during the sleep(1) was lost or came before the port was
\* bound.
ForsakenOnlyByLoss ==
  \A p \in Peers, i \in AllIds :
    /\ client[p][i] = "returned" /\ i \in ids[Peer(p)]
    /\ server[Peer(p)][i] \in {"start", "bound"}
    /\ \A m \in Messages : net[m] > 0 => m[1] # Peer(p) \/ m[2] # i
    => lost[Peer(p)][i] >= Resends

=============================================================================
