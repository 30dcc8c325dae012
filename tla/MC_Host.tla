------------------------------ MODULE MC_Host ------------------------------
(***************************************************************************)
(* The parts of the host programs that share no state, each in behaviours  *)
(* of its own: part says which one moves, the others keep one fixed state. *)
(***************************************************************************)
EXTENDS ChannelRtt, TaskBench, EcDecode, ParamExchange, ChannelSetup,
        DpdkPorts, MempoolShadow, ReceiveControl, Reporter

VARIABLES
  part,
  readers, writer, balance, trans, serving, commits, serial, overlapped    \* SmallBank

MCClients == {1, 2}
MCTypes == {"Amalgamate", "WriteCheck"}
Bank == INSTANCE SmallBank WITH Clients <- MCClients, TxSlots <- {1}, Accounts <- {1, 2},
                                TypesUsed <- MCTypes, MaxCommits <- 1, Big <- 100
bvars == <<readers, writer, balance, trans, serving, commits, serial, overlapped>>
EC(t, b, n, k, m, j) == [threads |-> t, batch |-> b, blocks |-> n, k |-> k, m |-> m, jobs |-> j]
FirstEc == EC(1, 2, 2, 2, 2, 5)
MCEc == {FirstEc, EC(1, 2, 2, 2, 3, 4), EC(1, 2, 1, 2, 2, 4),
         EC(1, 1, 1, 2, 1, 3), EC(1, 3, 3, 1, 2, 7), EC(2, 1, 2, 2, 2, 2)}
MCIds == {{0}, {1}}
MCPeers == {"sender", "receiver"}
MCChunks == {<<>>, << <<1, 3>> >>, << <<2, 4>>, <<7, 5>> >>, << <<9, 6>>, <<0, 4>>, <<4, 3>> >>}
MCGaps == {1, 4, 9}

HInit ==
  /\ part \in {"rtt", "task", "ec", "param", "channel", "dpdk", "shadow", "recv", "report", "bank"}
  /\ Init
  /\ TInit /\ (part # "task" => w.app = "dma" /\ w.fifo /\ x.offset = 0 /\ x.long)
  /\ EInit /\ (part # "ec" => cfg = FirstEc)
  /\ PInit /\ (part # "param" => ids = [p \in Peers |-> {0}])
  /\ CInit /\ (part # "channel" => /\ setup.build = "dma" /\ setup.sender = [e \in CEnds |-> e = "client"]
                                  /\ setup.tail = [e \in CEnds |-> FALSE])
  /\ DInit_ /\ (part # "dpdk" => conf.valid = {0} /\ conf.nb_ports = 1 /\ ~conf.hairpin /\ ~conf.sft)
  /\ ShInit /\ (part # "shadow" => shadow.chunks = <<>> /\ ~shadow.ext)
  /\ RInit /\ (part # "recv" => src = [q \in Cores |-> [seq |-> 0, time |-> 0]])
  /\ RpInit
  /\ Bank!BankInit

hvars == <<part, vars, tvars, evars, pvars, cvars, dvars, svars, rvars, rpvars, bvars>>
HNext ==
  /\ UNCHANGED part
  /\ \/ part = "rtt" /\ Next /\ UNCHANGED <<tvars, evars, pvars, cvars, dvars, svars, rvars, rpvars, bvars>>
     \/ part = "task" /\ TNext /\ UNCHANGED <<vars, evars, pvars, cvars, dvars, svars, rvars, rpvars, bvars>>
     \/ part = "ec" /\ ENext /\ UNCHANGED <<vars, tvars, pvars, cvars, dvars, svars, rvars, rpvars, bvars>>
     \/ part = "param" /\ PNext /\ UNCHANGED <<vars, tvars, evars, cvars, dvars, svars, rvars, rpvars, bvars>>
     \/ part = "channel" /\ CNext /\ UNCHANGED <<vars, tvars, evars, pvars, dvars, svars, rvars, rpvars, bvars>>
     \/ part = "dpdk" /\ DpdkNext /\ UNCHANGED <<vars, tvars, evars, pvars, cvars, svars, rvars, rpvars, bvars>>
     \/ part = "shadow" /\ ShNext /\ UNCHANGED <<vars, tvars, evars, pvars, cvars, dvars, rvars, rpvars, bvars>>
     \/ part = "recv" /\ RNext /\ UNCHANGED <<vars, tvars, evars, pvars, cvars, dvars, svars, rpvars, bvars>>
     \/ part = "report" /\ RpNext /\ UNCHANGED <<vars, tvars, evars, pvars, cvars, dvars, svars, rvars, bvars>>
     \/ part = "bank" /\ Bank!BankNext /\ UNCHANGED <<vars, tvars, evars, pvars, cvars, dvars, svars, rvars, rpvars>>
\* Every thread and engine of the parts with liveness properties goes on, and
\* their clocks run on.
HSpec ==
  /\ HInit /\ [][HNext]_hvars
  /\ WF_tvars(part = "task" /\ Worker) /\ WF_tvars(part = "task" /\ MainThread)
  /\ WF_tvars(part = "task" /\ Exporter) /\ WF_tvars(part = "task" /\ EngineCompletes)
  /\ WF_cvars(part = "channel" /\ (start_listen \/ ep_connect)) /\ WF_cvars(part = "channel" /\ DmaDone)
  /\ \A e \in CEnds : WF_cvars(part = "channel" /\ CEnd(e)) /\ WF_cvars(part = "channel" /\ stop_recv_and_send(e))
  /\ \A t \in Bank!Txns : /\ WF_bvars(part = "bank" /\ (Bank!RequestLocks(t) \/ Bank!RequestFinish(t)))
                          /\ WF_bvars(part = "bank" /\ Bank!Serve(t))
  /\ \A c \in MCClients : WF_bvars(part = "bank" /\ Bank!ServerStep(c))
----------------------------------------------------------------------------
(* The liveness properties, each of the behaviours of its part *)

\* The workers of the task benchmarks come to their end (WorkerEnds of TaskBench).
WorkersEnd == part = "task" => WorkerEnds
\* perform_client_routine and perform_server_routine return or die (ChannelEnds
\* of ChannelSetup).
ChannelsEnd == part = "channel" => ChannelEnds
\* finish_handler releases what get_lock_handler granted, unless the client is
\* stopped (LocksReleased of SmallBank).
GrantedReleased == part = "bank" => Bank!LocksReleased
============================================================================
