---------------------------- MODULE MCServices -----------------------------
(* Instances of the components around the pipelines that run threads of    *)
(* their own or serve clients: learning, configuration swap, the PI        *)
(* implementation, ports, queues, the debugger, the PSA switch and the     *)
(* small targets, periodic tasks and the replay of capture files.  They    *)
(* share no state in the program, so one run explores each of them alone:  *)
(* active names the one that takes steps, and the others stay in an        *)
(* initial state.                                                          *)
EXTENDS LearnEngine, RuntimeConfig, PiTables, PiSelection, DevicePorts,
        PacketPipe, RateQueue, PacketDebugger, PsaSwitch,
        PeriodicTasks, PcapReplay, BasicTargets, TLC

VARIABLE active

-----------------------------------------------------------------------------
(* RuntimeConfig: two programs that define the same names differently.     *)
MCRcKindOf == [c \in {"none", "one", "two"} |-> [n \in {"T", "R"} |->
   CASE c = "none" -> "NONE" [] c = "one" /\ n = "T" -> "SIMPLE" [] c = "two" /\ n = "T" -> "INDIRECT_WS"
    [] c = "one" -> "register" [] c = "two" -> "counter"]]

-----------------------------------------------------------------------------
(* PiTables: two clients on one key of a direct and of an indirect table.  *)
PiAct(x) == [fn |-> "f", data |-> x]
PiCallOf(op, tb, k, p, a, ttl, b) == [op |-> op, tbl |-> tb, key |-> k, prio |-> p, act |-> a, ttl |-> ttl, bytes |-> b]
MCPiCalls == { PiCallOf("add","T","k1",0,PiAct(<<0,1>>),1,-1), PiCallOf("add","T","k1",1,PiAct(<<1,0>>),0,1),
  PiCallOf("delete","T","k1",0,PiAct(<<0,1>>),0,-1), PiCallOf("modify","T","k1",1,PiAct(<<0,0>>),0,-1),
  PiCallOf("fetch","T","k1",0,PiAct(<<0,1>>),0,-1),PiCallOf("fetch_all","T","k1",0,PiAct(<<0,1>>),0,-1),
  PiCallOf("write_counter","T","k1",0,PiAct(<<0,1>>),0,1),
  PiCallOf("add","W","k1",0,1,0,-1), PiCallOf("modify","W","k1",0,5,0,-1),
  PiCallOf("notify","T","k1",0,0,0,-1),
  PiCallOf("set_default","W","k1",0,4,0,-1), PiCallOf("reset_default","W","k1",0,4,0,-1)}

-----------------------------------------------------------------------------
(* PacketDebugger: a packet and its clone.                                  *)
MCDgPackets == {<<1, 0>>, <<1, 1>>}

-----------------------------------------------------------------------------
(* PsaSwitch: a multicast group of two ports; unicast, clone and drop,     *)
(* clone and resubmit, multicast.                                          *)
MCPsaGroups == [g \in {1} |-> <<<<1,5>>,<<2,6>>>>]
MCPsConfigs == {[mgid|->1,port|->1],[mgid|->0,port|->2]}
PsaOutcome(c,d,r,m,p) == [clone|->c,drop|->d,resubmit|->r,mgid|->m,port|->p]
MCPsOutcomes == {PsaOutcome(FALSE,FALSE,FALSE,0,1),PsaOutcome(FALSE,FALSE,FALSE,0,99),PsaOutcome(TRUE,TRUE,FALSE,0,1),PsaOutcome(TRUE,FALSE,TRUE,0,1),PsaOutcome(FALSE,FALSE,FALSE,1,1)}

-----------------------------------------------------------------------------
(* PeriodicTasks: a fast and a slow task.  BasicTargets: a group of three.   *)
MCInterval == [t1 |-> 1, t2 |-> 2]
MCBtGroup == <<1, 2, 3>>
MCReplayInputs == {<<>>, <<1, 2>>, <<2>>}

-----------------------------------------------------------------------------
ServicesInit ==
  /\ active \in {"LearnEngine", "RuntimeConfig", "PiTables", "PiSelection",
                "DevicePorts", "PacketPipe", "BlockingQueue", "RateQueue",
                "PacketDebugger", "PsaSwitch", "PeriodicTasks", "PcapReplay",
                "BasicTargets"}
  /\ LearnInit
  /\ active # "LearnEngine" => ~with_timeout /\ max_samples = Min(MaxSamplesSet)
  /\ RcInit /\ PiInit /\ PsInit /\ DpInit /\ PkInit
  /\ BqInit /\ RqInit /\ DgInit /\ PsaInit
  /\ TaskInit /\ ReplayInit /\ BtInit
  /\ active # "PcapReplay" => ~rpTiming
  /\ active # "BasicTargets" => btTarget = "l2_switch"

bigVars == <<learnVars, cxVars, piVars, psVars, dpVars, pkVars, bqVars, rqVars, dgVars,
             psaVars>>
smallVars == <<taskVars, rpVars, btVars>>

LearnStep ==
  /\ active = "LearnEngine" /\ LearnNext
  /\ UNCHANGED <<active, cxVars, piVars, psVars, dpVars, pkVars, bqVars,
                 rqVars, dgVars, psaVars, smallVars>>

ConfigStep ==
  /\ active = "RuntimeConfig" /\ RcNext
  /\ UNCHANGED <<active, learnVars, piVars, psVars, dpVars, pkVars, bqVars,
                 rqVars, dgVars, psaVars, smallVars>>

PiTablesStep ==
  /\ active = "PiTables" /\ PiNext
  /\ UNCHANGED <<active, learnVars, cxVars, psVars, dpVars, pkVars, bqVars,
                 rqVars, dgVars, psaVars, smallVars>>

PiSelectionStep ==
  /\ active = "PiSelection" /\ PsNext
  /\ UNCHANGED <<active, learnVars, cxVars, piVars, dpVars, pkVars, bqVars,
                 rqVars, dgVars, psaVars, smallVars>>

PortsStep ==
  /\ active = "DevicePorts" /\ DpNext
  /\ UNCHANGED <<active, learnVars, cxVars, piVars, psVars, pkVars, bqVars,
                 rqVars, dgVars, psaVars, smallVars>>

PipeStep ==
  /\ active = "PacketPipe" /\ PkNext
  /\ UNCHANGED <<active, learnVars, cxVars, piVars, psVars, dpVars, bqVars,
                 rqVars, dgVars, psaVars, smallVars>>

BlockingQueueStep ==
  /\ active = "BlockingQueue" /\ BqNext
  /\ UNCHANGED <<active, learnVars, cxVars, piVars, psVars, dpVars, pkVars,
                 rqVars, dgVars, psaVars, smallVars>>

RateQueueStep ==
  /\ active = "RateQueue" /\ RqNext
  /\ UNCHANGED <<active, learnVars, cxVars, piVars, psVars, dpVars, pkVars,
                 bqVars, dgVars, psaVars, smallVars>>

DebuggerStep ==
  /\ active = "PacketDebugger" /\ DgNext
  /\ UNCHANGED <<active, learnVars, cxVars, piVars, psVars, dpVars, pkVars,
                 bqVars, rqVars, psaVars, smallVars>>

PsaStep ==
  /\ active = "PsaSwitch" /\ PsaNext
  /\ UNCHANGED <<active, learnVars, cxVars, piVars, psVars, dpVars, pkVars,
                 bqVars, rqVars, dgVars, smallVars>>

TasksStep ==
  /\ active = "PeriodicTasks" /\ TaskNext
  /\ UNCHANGED <<active, bigVars, rpVars, btVars>>

ReplayStep ==
  /\ active = "PcapReplay" /\ ReplayNext
  /\ UNCHANGED <<active, bigVars, taskVars, btVars>>

BasicTargetsStep ==
  /\ active = "BasicTargets" /\ BtNext
  /\ UNCHANGED <<active, bigVars, taskVars, rpVars>>

ServicesNext ==
  \/ LearnStep \/ ConfigStep \/ PiTablesStep
  \/ PiSelectionStep \/ PortsStep \/ PipeStep
  \/ BlockingQueueStep \/ RateQueueStep \/ DebuggerStep
  \/ PsaStep \/ TasksStep \/ ReplayStep \/ BasicTargetsStep

servicesVars == <<active, bigVars, smallVars>>

(* Fairness: each component's threads run while it is the active one.      *)

\* The transmit thread runs and its deadline passes, and a thread woken in
\* swap_buffers gets the mutex.  Packets, acks and requests need not come.
LearnFairness ==
  /\ WF_learnVars(active = "LearnEngine" /\ TransmitStep)
  /\ WF_learnVars(active = "LearnEngine" /\ Elapse)
  /\ \A t \in LearnThreads : WF_learnVars(active = "LearnEngine" /\ SwapWoken(t))

\* A thread in do_swap runs, and a packet in the switch is done some day.
ConfigFairness ==
  /\ \A t \in RcThreads : WF_cxVars(active = "RuntimeConfig" /\ SwapStep(t))
  /\ \A p \in RcPackets : WF_cxVars(active = "RuntimeConfig" /\ PacketDone(p))

\* The select thread and the threads in port_add and port_remove run; packets
\* and link changes need not happen.
PortsFairness ==
  /\ WF_dpVars(active = "DevicePorts" /\ SelectStep)
  /\ \A t \in DpThreads : WF_dpVars(active = "DevicePorts" /\ DpThreadStep(t))

ServicesSpec ==
  /\ ServicesInit /\ [][ServicesNext]_servicesVars
  /\ LearnFairness /\ ConfigFairness /\ PortsFairness

-----------------------------------------------------------------------------
\* The select thread reads from open ports only, and a removal ends unless it
\* has taken the lock from under the select thread (bmi_port.c).
PortsServed ==
  /\ [](active = "DevicePorts" => DpTypeOK /\ SelectsOnOpenPorts)
  /\ RemovalEnds
=============================================================================
