--------------------------- MODULE RuntimeConfig ---------------------------
(***************************************************************************)
(* The runtime interface of the switch and the configuration swap:         *)
(* Standard_server.cpp (the Thrift handlers), switch.h and switch.cpp      *)
(* (SwitchWContexts) and context.cpp (Context).                            *)
(*                                                                         *)
(* A context holds two pointers to a P4Objects: p4objects, which packets   *)
(* use, and p4objects_rt, which every request reads and writes.  They      *)
(* differ between load_new_config and the swap.  A P4Objects is named here *)
(* by a number, in the order they are made; 0 is the one the switch was    *)
(* started with.  Of what a request changes only the P4Objects it changes  *)
(* is kept.  Packet::change_context, which no target calls, is left out.   *)
(*                                                                         *)
(* Each critical section of request_mutex and each call of the PHV pools   *)
(* is one step; config_mutex and process_packet_mutex are held over        *)
(* several.  The process aborts where an assertion of the code fails.      *)
(***************************************************************************)
EXTENDS Naturals, FiniteSets, Sequences

CONSTANTS
  RcThreads,    \* threads of the Thrift server, one per client connection
  RcCxts,       \* number of contexts
  RcPackets,    \* identities of the packets
  RcConfigs,    \* configuration texts that clients load
  RcFirst,      \* the text the switch is started with
  RcNoP4,       \* started with --no-p4: RcFirst is empty
  RcNames,      \* names of objects that clients use
  RcKindOf,     \* what each text defines under each name
  RcMaxLoads,   \* bound on the P4Objects made by load_new_config
  RcMaxHops     \* clones a P4 program makes of one packet and of its clones

Nobody == "nobody"

TableKinds == {"SIMPLE", "INDIRECT", "INDIRECT_WS"}

\* What a name can stand for; "NONE" is no object of the configuration.
RcKinds == TableKinds \cup {"NONE", "act_prof", "counter", "meter", "register", "vset", "calc"}

ASSUME RcAssumption ==
  /\ RcCxts \in Nat \ {0} /\ RcMaxLoads \in Nat /\ RcMaxHops \in Nat
  /\ IsFiniteSet(RcPackets) /\ Nobody \notin RcThreads
  /\ \A x \in RcConfigs \cup {RcFirst}, n \in RcNames : RcKindOf[x][n] \in RcKinds

VARIABLES
  rcRunning,    \* p4objects of each context
  rcRt,         \* p4objects_rt of each context
  rcOrdered,    \* swap_ordered of each context
  rcTexts,      \* the text each P4Objects was made from, in order
  rcCurrent,    \* current_config
  rcLoaded,     \* config_loaded
  rcStarted,    \* start_and_return has returned
  rcOwner,      \* the thread in do_swap, holder of config_mutex and, alone, of
                \* process_packet_mutex
  rcPacket,     \* each packet: its context, its PHV's P4Objects, hops left
  rcPool,       \* phvs: the P4Objects of each free PHV of each context
  rcFactory,    \* phv_factory: the P4Objects a new PHV is made from
  rcTouched,    \* the <<context, P4Objects>> the last request changed
  rcThread,     \* what each thread of the server is doing
  rcAborted     \* an assertion failed

cxVars == <<rcRunning, rcRt, rcOrdered, rcTexts, rcCurrent, rcLoaded,
            rcStarted, rcOwner, rcPacket, rcPool, rcFactory, rcTouched,
            rcThread, rcAborted>>

configState == <<rcRunning, rcRt, rcOrdered, rcTexts, rcCurrent, rcLoaded>>
packetState == <<rcPacket, rcPool, rcFactory>>

RcCxt == 1..RcCxts
NoPacket == [cxt |-> 0, phv |-> 0, hops |-> 0]
IdleThread == [op |-> "idle", cxt |-> 1, text |-> RcFirst,
               kind |-> "NONE", read |-> "NONE"]

RcInit ==
  /\ rcRunning = [c \in RcCxt |-> 0]
  /\ rcRt = [c \in RcCxt |-> 0]
  /\ rcOrdered = [c \in RcCxt |-> FALSE]
  /\ rcTexts = <<>>
  /\ rcCurrent = RcFirst
  /\ rcLoaded = ~RcNoP4
  /\ rcStarted = FALSE
  /\ rcOwner = Nobody
  /\ rcPacket = [p \in RcPackets |-> NoPacket]
  /\ rcPool = [c \in RcCxt |-> <<>>]
  /\ rcFactory = [c \in RcCxt |-> 0]
  /\ rcTouched = <<1, 0>>
  /\ rcThread = [t \in RcThreads |-> IdleThread]
  /\ rcAborted = FALSE

TextOf(k) == IF k = 0 THEN RcFirst ELSE rcTexts[k]

\* What p4objects_rt of context c knows under the name n.
KindAt(c, n) == RcKindOf[TextOf(rcRt[c])][n]

Goto(t, s) == rcThread' = [rcThread EXCEPT ![t] = s]
At(t, op) == ~rcAborted /\ rcThread[t].op = op

-----------------------------------------------------------------------------
(* Requests, as Context answers them: the name is looked up in p4objects_rt *)
(* under request_mutex, the object's type is checked, and the object's own  *)
(* operation runs.                                                          *)

TableCode(k, accepted) ==
  IF k \notin TableKinds THEN "INVALID_TABLE_NAME"
  ELSE IF k \notin accepted THEN "WRONG_TABLE_TYPE" ELSE "SUCCESS"

NamedCode(k, kind, error) == IF k = kind THEN "SUCCESS" ELSE error

\* Operations of a table with direct actions.
MtCode(k) == TableCode(k, {"SIMPLE"})

\* Operations of every table: entry count, clear, direct counters and meters.
MtAnyCode(k) == TableCode(k, TableKinds)

\* MatchTableIndirectWS derives from MatchTableIndirect, so both pass the cast.
MtIndirectCode(k) == TableCode(k, {"INDIRECT", "INDIRECT_WS"})
MtIndirectWsCode(k) == TableCode(k, {"INDIRECT_WS"})

ActProfCode(k) == NamedCode(k, "act_prof", "INVALID_ACTION_PROFILE_NAME")
CounterCode(k) == NamedCode(k, "counter", "INVALID_COUNTER_NAME")
MeterCode(k) == NamedCode(k, "meter", "INVALID_METER_NAME")
RegisterCode(k) == NamedCode(k, "register", "INVALID_REGISTER_NAME")
VsetCode(k) == NamedCode(k, "vset", "INVALID_PARSE_VSET_NAME")
CalcCode(k) == NamedCode(k, "calc", "INVALID_CALCULATION_NAME")

\* The object's own operation either applies or refuses (table full, bad
\* handle, bad index ...); on an error code the handler throws and nothing has
\* changed.
Forward(t, c, code) ==
  /\ At(t, "idle")
  /\ \/ /\ code = "SUCCESS"
        /\ rcTouched' = <<c, rcRt[c]>>
     \/ UNCHANGED rcTouched
  /\ UNCHANGED <<configState, packetState, rcStarted, rcOwner, rcThread,
                 rcAborted>>

\* SwitchWContexts answers with the codes of the context the request names.
MtAt(c, n) == {MtCode(KindAt(c, n)), MtAnyCode(KindAt(c, n))}
DirectAt(c, n) == {MtAnyCode(KindAt(c, n))}
ActProfAt(c, n) == {ActProfCode(KindAt(c, n))}
MtIndirectAt(c, n) == {MtIndirectCode(KindAt(c, n)), MtIndirectWsCode(KindAt(c, n))}
ArrayAt(c, n) == {CounterCode(KindAt(c, n)), MeterCode(KindAt(c, n)),
                  RegisterCode(KindAt(c, n))}
OtherAt(c, n) == {VsetCode(KindAt(c, n)), CalcCode(KindAt(c, n))}

\* The Thrift handlers of each family.
MtRequest(t, c, n) == \E code \in MtAt(c, n) : Forward(t, c, code)
DirectRequest(t, c, n) == \E code \in DirectAt(c, n) : Forward(t, c, code)
ActProfRequest(t, c, n) == \E code \in ActProfAt(c, n) : Forward(t, c, code)
MtIndirectRequest(t, c, n) == \E code \in MtIndirectAt(c, n) : Forward(t, c, code)
ArrayRequest(t, c, n) == \E code \in ArrayAt(c, n) : Forward(t, c, code)
OtherRequest(t, c, n) == \E code \in OtherAt(c, n) : Forward(t, c, code)

\* bm_mt_get_entries, bm_mt_get_entry, bm_mt_get_default_entry and
\* bm_mt_get_entry_from_key ask for the type in one critical section and for
\* the entries of a table of that type in another.
GetType(t, c, n) ==
  /\ At(t, "idle")
  /\ KindAt(c, n) \in TableKinds      \* NONE: an empty answer
  /\ Goto(t, [IdleThread EXCEPT !.op = "get", !.cxt = c, !.kind = KindAt(c, n)])
  /\ UNCHANGED <<configState, packetState, rcStarted, rcOwner, rcTouched,
                 rcAborted>>

\* The types of table that a cast to each type accepts.
CastTo(kind) ==
  CASE kind = "SIMPLE" -> {"SIMPLE"}
    [] kind = "INDIRECT" -> {"INDIRECT", "INDIRECT_WS"}
    [] kind = "INDIRECT_WS" -> {"INDIRECT_WS"}

GetEntry(t, n) ==
  /\ At(t, "get")
  /\ LET c == rcThread[t].cxt
         kind == rcThread[t].kind
     IN Goto(t, IF TableCode(KindAt(c, n), CastTo(kind)) = "SUCCESS"
                THEN [rcThread[t] EXCEPT !.op = "answer", !.read = KindAt(c, n)]
                ELSE IdleThread)
  /\ UNCHANGED <<configState, packetState, rcStarted, rcOwner, rcTouched,
                 rcAborted>>

\* The answer is formatted (build_action_entry) and sent.
SendAnswer(t) ==
  /\ At(t, "answer")
  /\ Goto(t, IdleThread)
  /\ UNCHANGED <<configState, packetState, rcStarted, rcOwner, rcTouched,
                 rcAborted>>

\* reset_state, one context at a time; simple_switch adds nothing to it.
ResetState(t) ==
  \/ /\ At(t, "idle")
     /\ Goto(t, [IdleThread EXCEPT !.op = "reset"])
     /\ UNCHANGED <<configState, packetState, rcStarted, rcOwner, rcTouched,
                    rcAborted>>
  \/ /\ At(t, "reset")
     /\ LET c == rcThread[t].cxt
        IN /\ rcTouched' = <<c, rcRt[c]>>
           /\ Goto(t, IF c = RcCxts THEN IdleThread
                      ELSE [rcThread[t] EXCEPT !.cxt = c + 1])
     /\ UNCHANGED <<configState, packetState, rcStarted, rcOwner, rcAborted>>

-----------------------------------------------------------------------------
(* Loading a configuration and swapping to it.                              *)

LoadNewConfig(t, text) ==
  /\ At(t, "idle")
  /\ Goto(t, [IdleThread EXCEPT !.op = "load", !.text = text])
  /\ UNCHANGED <<configState, packetState, rcStarted, rcOwner, rcTouched,
                 rcAborted>>

\* Context::load_new_config.  The status of init_objects is not looked at: a
\* text that does not load leaves the objects it managed to make.
LoadContext(t) ==
  /\ At(t, "load")
  /\ LET c == rcThread[t].cxt
     IN IF rcRunning[c] # rcRt[c]
        THEN Goto(t, IdleThread) /\ UNCHANGED <<rcRt, rcTexts>> \* ONGOING_SWAP
        ELSE /\ Len(rcTexts) < RcMaxLoads
             /\ rcTexts' = Append(rcTexts, rcThread[t].text)
             /\ rcRt' = [rcRt EXCEPT ![c] = Len(rcTexts) + 1]
             /\ Goto(t, IF c < RcCxts THEN [rcThread[t] EXCEPT !.cxt = c + 1]
                        ELSE [rcThread[t] EXCEPT !.op = "loaded"])
  /\ UNCHANGED <<rcRunning, rcOrdered, rcCurrent, rcLoaded, packetState,
                 rcStarted, rcOwner, rcTouched, rcAborted>>

\* current_config is set at the end of the load, not at the swap.
LoadDone(t) ==
  /\ At(t, "loaded")
  /\ rcOwner = Nobody
  /\ rcCurrent' = rcThread[t].text
  /\ Goto(t, IdleThread)
  /\ UNCHANGED <<rcRunning, rcRt, rcOrdered, rcTexts, rcLoaded, packetState,
                 rcStarted, rcOwner, rcTouched, rcAborted>>

SwapConfigs(t) ==
  /\ At(t, "idle")
  /\ Goto(t, [IdleThread EXCEPT !.op = "order"])
  /\ UNCHANGED <<configState, packetState, rcStarted, rcOwner, rcTouched,
                 rcAborted>>

\* Context::swap_configs, one context at a time.
OrderContext(t) ==
  /\ At(t, "order")
  /\ LET c == rcThread[t].cxt
     IN IF rcRunning[c] = rcRt[c]
        THEN rcOrdered' = rcOrdered /\ Goto(t, IdleThread)     \* NO_ONGOING_SWAP
        ELSE /\ rcOrdered' = [rcOrdered EXCEPT ![c] = TRUE]
             /\ Goto(t, IF c < RcCxts
                        THEN [IdleThread EXCEPT !.op = "order", !.cxt = c + 1]
                        ELSE [IdleThread EXCEPT !.op = "swap"])
  /\ UNCHANGED <<rcRunning, rcRt, rcTexts, rcCurrent, rcLoaded, packetState,
                 rcStarted, rcOwner, rcTouched, rcAborted>>

\* swap_configs takes config_mutex; do_swap fails its caller's assertion when
\* no context has a swap ordered any more, and takes process_packet_mutex.
SwapLock(t) ==
  /\ At(t, "swap")
  /\ rcOwner = Nobody
  /\ rcLoaded' = TRUE
  /\ IF \E c \in RcCxt : rcOrdered[c]
     THEN /\ rcOwner' = t
          /\ Goto(t, [IdleThread EXCEPT !.op = "drain"])
          /\ UNCHANGED rcAborted
     ELSE rcAborted' = TRUE /\ UNCHANGED <<rcOwner, rcThread>>
  /\ UNCHANGED <<rcRunning, rcRt, rcOrdered, rcTexts, rcCurrent, packetState,
                 rcStarted, rcTouched>>

InUse(c) == Cardinality({p \in RcPackets : rcPacket[p].cxt = c})

Advance(t, c) == IF c < RcCxts
                 THEN [IdleThread EXCEPT !.op = "drain", !.cxt = c + 1]
                 ELSE [IdleThread EXCEPT !.op = "notify"]

\* A mutation of SwapDrain: the PHVs in use are not waited for.
SwapDrainNoWait(t) ==
  /\ At(t, "drain")
  /\ LET c == rcThread[t].cxt
     IN Goto(t, IF ~rcOrdered[c] THEN Advance(t, c)
                ELSE [rcThread[t] EXCEPT !.op = "install"])
  /\ UNCHANGED <<configState, packetState, rcStarted, rcOwner, rcTouched,
                 rcAborted>>

\* The loop that yields until no packet has a PHV of the context.
SwapDrain(t) ==
  /\ At(t, "drain")
  /\ LET c == rcThread[t].cxt
     IN \/ ~rcOrdered[c] /\ Goto(t, Advance(t, c))
        \/ /\ rcOrdered[c] /\ InUse(c) = 0
           /\ Goto(t, [rcThread[t] EXCEPT !.op = "install"])
  /\ UNCHANGED <<configState, packetState, rcStarted, rcOwner, rcTouched,
                 rcAborted>>

\* Context::do_swap, then the PHV pool of the context is told of the new
\* factory; it asserts that it has no PHV in use.
SwapInstall(t) ==
  /\ At(t, "install")
  /\ LET c == rcThread[t].cxt
     IN /\ rcRunning' = [rcRunning EXCEPT ![c] = rcRt[c]]
        /\ rcOrdered' = [rcOrdered EXCEPT ![c] = FALSE]
        /\ rcFactory' = [rcFactory EXCEPT ![c] = rcRt[c]]
        /\ rcPool' = [rcPool EXCEPT ![c] = <<>>]
        /\ rcAborted' = (InUse(c) # 0)
        /\ Goto(t, Advance(t, c))
  /\ UNCHANGED <<rcRt, rcTexts, rcCurrent, rcLoaded, rcPacket,
                 rcStarted, rcOwner, rcTouched>>

\* swap_notify; the locks are released and start_and_return is notified.
SwapDone(t) ==
  /\ At(t, "notify")
  /\ rcOwner' = Nobody
  /\ Goto(t, IdleThread)
  /\ UNCHANGED <<configState, packetState, rcStarted, rcTouched, rcAborted>>

\* start_and_return waits on config_loaded under config_mutex.
StartAndReturn ==
  /\ ~rcAborted /\ ~rcStarted
  /\ rcLoaded /\ rcOwner = Nobody
  /\ rcStarted' = TRUE
  /\ UNCHANGED <<configState, packetState, rcOwner, rcTouched, rcThread,
                 rcAborted>>

-----------------------------------------------------------------------------
(* Packets and the PHV pools.                                               *)

\* PHVPool::get: the free PHV released last, or a new one from the factory.
PhvFrom(c) == IF rcPool[c] = <<>> THEN rcFactory[c]
              ELSE rcPool[c][Len(rcPool[c])]
PoolAfterGet(pool, c) ==
  IF pool[c] = <<>> THEN pool
  ELSE [pool EXCEPT ![c] = SubSeq(@, 1, Len(@) - 1)]

\* new_packet and new_packet_ptr, under process_packet_mutex (shared).
NewPacket(p, c) ==
  /\ ~rcAborted /\ rcStarted /\ rcOwner = Nobody
  /\ rcPacket[p] = NoPacket
  /\ rcPacket' = [rcPacket EXCEPT ![p] =
                    [cxt |-> c, phv |-> PhvFrom(c), hops |-> RcMaxHops]]
  /\ rcPool' = PoolAfterGet(rcPool, c)
  /\ UNCHANGED <<configState, rcFactory, rcStarted, rcOwner,
                 rcTouched, rcThread, rcAborted>>

\* Packet::clone_*: a PHV of the same context, without process_packet_mutex.
ClonePacket(p, q) ==
  /\ ~rcAborted
  /\ rcPacket[p] # NoPacket /\ rcPacket[p].hops > 0 /\ rcPacket[q] = NoPacket
  /\ LET c == rcPacket[p].cxt
         hops == rcPacket[p].hops - 1
     IN /\ rcPacket' = [rcPacket EXCEPT
             ![p].hops = hops,
             ![q] = [cxt |-> c, phv |-> PhvFrom(c), hops |-> hops]]
        /\ rcPool' = PoolAfterGet(rcPool, c)
  /\ UNCHANGED <<configState, rcFactory, rcStarted, rcOwner,
                 rcTouched, rcThread, rcAborted>>

\* A mutation of PacketDone: the PHV is not given back.
PacketDoneLeaks(p) ==
  /\ ~rcAborted
  /\ rcPacket[p] # NoPacket
  /\ UNCHANGED cxVars

\* ~Packet gives the PHV back to the pool.
PacketDone(p) ==
  /\ ~rcAborted
  /\ rcPacket[p] # NoPacket
  /\ rcPacket' = [rcPacket EXCEPT ![p] = NoPacket]
  /\ rcPool' = [rcPool EXCEPT ![rcPacket[p].cxt] = Append(@, rcPacket[p].phv)]
  /\ UNCHANGED <<configState, rcFactory, rcStarted, rcOwner,
                 rcTouched, rcThread, rcAborted>>

SwapStep(t) == \/ LoadContext(t) \/ LoadDone(t) \/ OrderContext(t)
               \/ SwapLock(t) \/ SwapDrain(t) \/ SwapInstall(t) \/ SwapDone(t)

RcNext ==
  \/ \E t \in RcThreads, c \in RcCxt, n \in RcNames :
       \/ MtRequest(t, c, n) \/ ActProfRequest(t, c, n)
       \/ MtIndirectRequest(t, c, n) \/ ArrayRequest(t, c, n)
       \/ DirectRequest(t, c, n) \/ OtherRequest(t, c, n)
       \/ GetType(t, c, n)
  \/ \E t \in RcThreads, n \in RcNames : GetEntry(t, n)
  \/ \E t \in RcThreads : SendAnswer(t) \/ ResetState(t) \/ SwapConfigs(t) \/ SwapStep(t)
  \/ \E t \in RcThreads, text \in RcConfigs : LoadNewConfig(t, text)
  \/ StartAndReturn
  \/ \E p \in RcPackets, c \in RcCxt : NewPacket(p, c)
  \/ \E p, q \in RcPackets : ClonePacket(p, q)
  \/ \E p \in RcPackets : PacketDone(p)

RcSpec == RcInit /\ [][RcNext]_cxVars

-----------------------------------------------------------------------------
RcTypeOK ==
  /\ \A c \in RcCxt : /\ rcRunning[c] \in 0..RcMaxLoads
                      /\ rcRt[c] \in 0..RcMaxLoads
                      /\ rcOrdered[c] \in BOOLEAN
                      /\ Len(rcPool[c]) <= Cardinality(RcPackets)
  /\ rcCurrent \in RcConfigs \cup {RcFirst}
  /\ rcOwner \in RcThreads \cup {Nobody}
  /\ rcTouched \in RcCxt \X (0..RcMaxLoads)

\* Every packet in the switch has a PHV made by the configuration its context
\* runs (parser, pipelines and deparser are looked up in p4objects at every
\* stage): do_swap stops new packets and waits for the old ones (switch.cpp do_swap, new_packet; phv_source.cpp).
PhvIsOfRunningConfig ==
  \A p \in RcPackets :
    rcPacket[p] # NoPacket => rcPacket[p].phv = rcRunning[rcPacket[p].cxt]

\* An answer that carries an entry carries one of a table of the type the
\* handler formats it as, although a load_new_config can replace the objects
\* between its two calls (Standard_server.cpp bm_mt_get_entry; context.cpp
\* mt_get_entry).
AnswerHasItsType ==
  \A t \in RcThreads :
    rcThread[t].read # "NONE" => rcThread[t].read \in CastTo(rcThread[t].kind)

\* A thread that ordered a swap ends it: packets drain while new ones are held
\* off (switch.cpp do_swap).
SwapEnds ==
  \A t \in RcThreads :
    rcThread[t].op \in {"order", "swap"} ~> rcThread[t].op = "idle" \/ rcAborted

\* No packet carries another configuration's PHV and no answer another
\* configuration's type (switch.cpp, context.cpp).
SwapSafe == RcTypeOK /\ PhvIsOfRunningConfig /\ AnswerHasItsType

-----------------------------------------------------------------------------
(* The inductive invariant behind SwapSafe.                                *)

RcTexts == RcConfigs \cup {RcFirst}

\* What a thread of the server can be doing.
RcOps == {"idle", "get", "answer", "reset", "load", "loaded", "order",
          "swap", "drain", "install", "notify"}
ThreadStates ==
  [op : RcOps, cxt : RcCxt, text : RcTexts, kind : RcKinds, read : RcKinds]

RcTyped ==
  /\ rcRunning \in [RcCxt -> 0..RcMaxLoads] /\ rcRt \in [RcCxt -> 0..RcMaxLoads]
  /\ rcOrdered \in [RcCxt -> BOOLEAN]
  /\ rcTexts \in Seq(RcTexts) /\ Len(rcTexts) <= RcMaxLoads
  /\ \A c \in RcCxt : rcRt[c] <= Len(rcTexts)
  /\ rcCurrent \in RcTexts /\ rcOwner \in RcThreads \cup {Nobody}
  /\ rcTouched \in RcCxt \X (0..RcMaxLoads)
  /\ rcPacket \in [RcPackets -> [cxt : 0..RcCxts, phv : 0..RcMaxLoads, hops : Nat]]
  /\ rcPool \in [RcCxt -> Seq(0..RcMaxLoads)] /\ rcFactory \in [RcCxt -> 0..RcMaxLoads]
  /\ rcThread \in [RcThreads -> ThreadStates]

\* Factory, free PHVs and packets are all of the configuration that runs.
PhvInv ==
  /\ rcFactory = rcRunning
  /\ \A c \in RcCxt : \A i \in 1..Len(rcPool[c]) : rcPool[c][i] = rcRunning[c]
  /\ \A p \in RcPackets : rcPacket[p] # NoPacket =>
       rcPacket[p].cxt \in RcCxt /\ rcPacket[p].phv = rcRunning[rcPacket[p].cxt]

\* A thread in do_swap holds the locks, and the context it installs has no
\* packet.
DrainInv ==
  \A t \in RcThreads :
    /\ rcThread[t].op \in {"drain", "install", "notify"} => rcOwner = t
    /\ rcThread[t].op = "install" => \A p \in RcPackets : rcPacket[p].cxt # rcThread[t].cxt

\* The PHVs of a context, free and in use, are no more than there were packets.
PoolBound == \A c \in RcCxt : Len(rcPool[c]) + InUse(c) <= Cardinality(RcPackets)

SwapInv == RcTyped /\ PhvInv /\ DrainInv /\ PoolBound /\ AnswerHasItsType
=============================================================================
