--------------------------- MODULE ServicesProofs ---------------------------
(* Proofs about the components around the pipelines that run threads of    *)
(* their own, for every value of their constants.                          *)
EXTENDS RuntimeConfig, PeriodicTasks, PacketDebugger, LearnEngine,
        FiniteSetTheorems, TLAPS

(* Periodic tasks.                                                         *)

\* Every step of the task list, its loop and the clock keeps TaskInv.
LEMMA TaskStep == TaskInv /\ [TaskNext]_taskVars => TaskInv'
<1> SUFFICES ASSUME TaskInv, [TaskNext]_taskVars PROVE TaskInv'
  OBVIOUS
<1>0. /\ TaskTypeOK /\ RunDuringLifetime /\ LoopNeverOversleeps
      /\ taskLife \in [Tasks -> {"none", "made", "alive", "dying", "gone"}]
      /\ taskShifted \in BOOLEAN /\ taskEarly \in BOOLEAN
      /\ taskLoop \in {"until", "execute"} => taskTop \in Tasks
      /\ taskLoop = "until" => taskTop \in taskQueue \/ taskShifted
  BY DEF TaskInv, TasksSound
<1> USE <1>0, TaskAssumption
<1>1. ASSUME NEW t \in Tasks, MakeTask(t) PROVE TaskInv'
  BY <1>1 DEF MakeTask, TaskInv, TasksSound, TaskTypeOK, RunDuringLifetime,
              LoopNeverOversleeps, IsTop
<1>2. ASSUME NEW t \in Tasks, RegisterTask(t) PROVE TaskInv'
  BY <1>2 DEF RegisterTask, QueueFree, TaskInv, TasksSound, TaskTypeOK,
              RunDuringLifetime, LoopNeverOversleeps
<1>3. ASSUME NEW t \in Tasks, DestroyTask(t) PROVE TaskInv'
  BY <1>3 DEF DestroyTask, TaskInv, TasksSound, TaskTypeOK, RunDuringLifetime,
              LoopNeverOversleeps, IsTop
<1>4. ASSUME NEW t \in Tasks, UnregisterTask(t) PROVE TaskInv'
  BY <1>4 DEF UnregisterTask, QueueFree, TaskInv, TasksSound, TaskTypeOK,
              RunDuringLifetime, LoopNeverOversleeps
<1>5. CASE StartTasks
  BY <1>5 DEF StartTasks, QueueFree, TaskInv, TasksSound, TaskTypeOK,
              RunDuringLifetime, LoopNeverOversleeps
<1>6. CASE JoinTasks
  BY <1>6 DEF JoinTasks, QueueFree, TaskInv, TasksSound, TaskTypeOK,
              RunDuringLifetime, LoopNeverOversleeps
<1>7. CASE TasksJoined \/ LoopWoken \/ LoopAgain
  BY <1>7 DEF TasksJoined, LoopWoken, LoopAgain, TaskInv, TasksSound, TaskTypeOK,
              RunDuringLifetime, LoopNeverOversleeps
<1>8. CASE LoopTest
  BY <1>8 DEF LoopTest, TaskInv, TasksSound, TaskTypeOK, RunDuringLifetime,
              LoopNeverOversleeps, IsTop
<1>9. CASE LoopTake
  BY <1>9 DEF LoopTake, TimedOut, TaskInv, TasksSound, TaskTypeOK,
              RunDuringLifetime, LoopNeverOversleeps, IsTop
<1>10. CASE LoopExecuted
  BY <1>10 DEF LoopExecuted, TaskInv, TasksSound, TaskTypeOK, RunDuringLifetime,
               LoopNeverOversleeps
<1>11. CASE TaskClock
  BY <1>11 DEF TaskClock, TaskInv, TasksSound, TaskTypeOK, RunDuringLifetime,
               LoopNeverOversleeps, IsTop
<1>12. CASE UNCHANGED taskVars
  BY <1>12 DEF taskVars, TaskInv, TasksSound, TaskTypeOK, RunDuringLifetime,
               LoopNeverOversleeps, IsTop
<1>13. QED
  BY <1>1, <1>2, <1>3, <1>4, <1>5, <1>6, <1>7, <1>8, <1>9, <1>10, <1>11, <1>12
     DEF TaskNext

\* Periodic functions run during the lifetime of their task, when they are due,
\* and the loop never sleeps through a registration or a join.
THEOREM TasksAreSound == TaskSpec => []TasksSound
<1>1. TaskInit => TaskInv
  <2> SUFFICES ASSUME TaskInit PROVE TaskInv
    OBVIOUS
  <2>1. TaskTypeOK
    BY TaskAssumption DEF TaskInit, TaskTypeOK
  <2>2. RunDuringLifetime /\ LoopNeverOversleeps
    BY DEF TaskInit, RunDuringLifetime, LoopNeverOversleeps
  <2>3. taskShifted \in BOOLEAN /\ taskEarly \in BOOLEAN
    BY DEF TaskInit
  <2>4. QED
    BY <2>1, <2>2, <2>3 DEF TaskInit, TaskInv, TasksSound
<1>2. TaskInv => TasksSound
  BY DEF TaskInv
<1>3. QED
  BY <1>1, <1>2, TaskStep, PTL DEF TaskSpec

-----------------------------------------------------------------------------
(* Configuration swap: it is safe for every number of clients, contexts,   *)
(* packets and loads.                                                      *)


\* What the invariant says of one thread.
LEMMA ThreadFacts ==
  ASSUME SwapInv, NEW t \in RcThreads
  PROVE  /\ rcThread[t] \in ThreadStates /\ rcThread[t].op \in RcOps
         /\ rcThread[t].cxt \in RcCxt /\ rcThread[t].text \in RcTexts
         /\ RcFirst \in RcTexts /\ 1 \in RcCxt
         /\ IdleThread \in ThreadStates
         /\ IdleThread.op = "idle" /\ IdleThread.read = "NONE"
<1>1. RcFirst \in RcTexts /\ 1 \in RcCxt
  BY RcAssumption DEF RcTexts, RcCxt
<1>2. rcThread[t] \in ThreadStates
  BY DEF SwapInv, RcTyped
<1>3. IdleThread \in ThreadStates /\ IdleThread.op = "idle" /\ IdleThread.read = "NONE"
  BY <1>1 DEF IdleThread, ThreadStates, RcOps, RcKinds
<1>4. QED
  BY <1>1, <1>2, <1>3 DEF ThreadStates

\* The kind of a name is looked up in a text that was loaded.
LEMMA KindAtType ==
  ASSUME SwapInv, NEW c \in RcCxt, NEW n \in RcNames
  PROVE  KindAt(c, n) \in RcKinds
<1>1. rcRt[c] \in 0..RcMaxLoads /\ rcRt[c] <= Len(rcTexts) /\ rcTexts \in Seq(RcTexts)
  BY DEF SwapInv, RcTyped
<1>2. TextOf(rcRt[c]) \in RcTexts
  BY <1>1, RcAssumption DEF TextOf, RcTexts
<1>3. QED
  BY <1>2, RcAssumption DEF KindAt, RcTexts

\* The context after c, as the server goes through the contexts.
LEMMA NextContext ==
  ASSUME NEW c \in RcCxt
  PROVE  c # RcCxts \/ c < RcCxts => c + 1 \in RcCxt
  BY RcAssumption DEF RcCxt

\* A step that moves one thread to a state outside do_swap and changes no
\* packet keeps what the invariant says of threads and packets.
LEMMA ThreadMoves ==
  ASSUME SwapInv, NEW t \in RcThreads, NEW s \in ThreadStates,
         s.op \notin {"drain", "install", "notify"},
         s.read # "NONE" => s.read \in CastTo(s.kind),
         rcThread' = [rcThread EXCEPT ![t] = s],
         UNCHANGED <<rcPacket, rcPool, rcFactory, rcRunning, rcOwner>>
  PROVE  /\ rcThread' \in [RcThreads -> ThreadStates]
         /\ PhvInv' /\ DrainInv' /\ PoolBound' /\ AnswerHasItsType'
<1>1. \A u \in RcThreads : rcThread'[u] = IF u = t THEN s ELSE rcThread[u]
  BY DEF SwapInv, RcTyped
<1>2. rcThread' \in [RcThreads -> ThreadStates]
  BY DEF SwapInv, RcTyped
<1>4. PhvInv'
  BY DEF SwapInv, PhvInv
<1>5. DrainInv'
  BY <1>1 DEF SwapInv, DrainInv
<1>6. PoolBound'
  BY DEF SwapInv, PoolBound, InUse
<1>7. AnswerHasItsType'
  BY <1>1 DEF SwapInv, AnswerHasItsType
<1>8. QED
  BY <1>2, <1>4, <1>5, <1>6, <1>7

\* Requests read and write p4objects_rt and leave swap and packets alone.
LEMMA RequestKeeps ==
  ASSUME SwapInv, NEW t \in RcThreads,
         \/ \E c \in RcCxt : \E code : Forward(t, c, code)
         \/ \E c \in RcCxt, n \in RcNames : GetType(t, c, n)
         \/ \E n \in RcNames : GetEntry(t, n)
         \/ SendAnswer(t) \/ ResetState(t) \/ SwapConfigs(t)
         \/ \E text \in RcConfigs : LoadNewConfig(t, text)
  PROVE  SwapInv'
<1>0. RcTyped /\ PhvInv /\ DrainInv /\ PoolBound /\ AnswerHasItsType
  BY DEF SwapInv
<1>a. rcTouched \in RcCxt \X (0..RcMaxLoads)
  BY <1>0 DEF RcTyped
<1>1. ASSUME NEW s \in ThreadStates, s.op \notin {"drain", "install", "notify"},
             s.read # "NONE" => s.read \in CastTo(s.kind),
             rcThread' = [rcThread EXCEPT ![t] = s],
             rcTouched' \in RcCxt \X (0..RcMaxLoads),
             UNCHANGED <<configState, packetState, rcOwner>>
      PROVE  SwapInv'
  <2>1. /\ rcThread' \in [RcThreads -> ThreadStates]
        /\ PhvInv' /\ DrainInv' /\ PoolBound' /\ AnswerHasItsType'
    BY <1>1, ThreadMoves DEF configState, packetState
  <2>2. RcTyped'
    BY <1>0, <1>1, <2>1 DEF RcTyped, configState, packetState
  <2>3. QED
    BY <2>1, <2>2 DEF SwapInv
<1>2. ASSUME NEW c \in RcCxt, NEW code, Forward(t, c, code) PROVE SwapInv'
  <2>0. rcTouched' = <<c, rcRt[c]>> \/ rcTouched' = rcTouched
    BY <1>2 DEF Forward
  <2>1. rcTouched' \in RcCxt \X (0..RcMaxLoads)
    BY <1>0, <2>0 DEF RcTyped
  <2>2. UNCHANGED <<configState, packetState, rcOwner, rcThread>>
    BY <1>2 DEF Forward
  <2>3. RcTyped'
    BY <1>0, <2>1, <2>2 DEF RcTyped, configState, packetState
  <2>4. PhvInv' /\ DrainInv' /\ PoolBound' /\ AnswerHasItsType'
    BY <1>0, <2>2 DEF PhvInv, DrainInv, PoolBound, InUse, AnswerHasItsType,
                      configState, packetState
  <2>5. QED
    BY <2>3, <2>4 DEF SwapInv
<1>3. ASSUME NEW c \in RcCxt, NEW n \in RcNames, GetType(t, c, n) PROVE SwapInv'
  <2> DEFINE s == [IdleThread EXCEPT !.op = "get", !.cxt = c, !.kind = KindAt(c, n)]
  <2>1. s \in ThreadStates /\ s.op = "get" /\ s.read = "NONE"
    BY ThreadFacts, KindAtType DEF ThreadStates, RcOps
  <2>2. /\ rcThread' = [rcThread EXCEPT ![t] = s] /\ rcTouched' = rcTouched
        /\ UNCHANGED <<configState, packetState, rcOwner>>
    BY <1>3 DEF GetType, Goto
  <2> HIDE DEF s
  <2>3. QED
    BY <1>1, <1>a, <2>1, <2>2
<1>4. ASSUME NEW n \in RcNames, GetEntry(t, n) PROVE SwapInv'
  <2> DEFINE r == rcThread[t]
             k == KindAt(r.cxt, n)
             a == [r EXCEPT !.op = "answer", !.read = k]
             ok == TableCode(k, CastTo(r.kind)) = "SUCCESS"
  <2>1. ok => k \in CastTo(r.kind)
    BY DEF TableCode
  <2>2. k \in RcKinds /\ r \in ThreadStates
    BY ThreadFacts, KindAtType
  <2>a. /\ rcThread' = [rcThread EXCEPT ![t] = IF ok THEN a ELSE IdleThread]
        /\ UNCHANGED <<configState, packetState, rcOwner, rcTouched>>
    BY <1>4 DEF GetEntry, Goto
  <2> HIDE DEF k, r, ok
  <2>3. a \in ThreadStates /\ a.op = "answer" /\ a.read = k /\ a.kind = r.kind
    BY <2>2 DEF ThreadStates, RcOps
  <2> HIDE DEF a
  <2>4. CASE ok
    BY <1>1, <1>a, <2>1, <2>3, <2>a, <2>4
  <2>5. CASE ~ok
    BY <1>1, <1>a, <2>a, <2>5, ThreadFacts
  <2>6. QED
    BY <2>4, <2>5
<1>5. CASE SendAnswer(t)
  BY <1>1, <1>5, <1>a, ThreadFacts DEF SendAnswer, Goto
<1>6. CASE SwapConfigs(t)
  <2> DEFINE s == [IdleThread EXCEPT !.op = "order"]
  <2>1. s \in ThreadStates /\ s.op = "order" /\ s.read = "NONE"
    BY ThreadFacts DEF ThreadStates, RcOps
  <2>2. /\ rcThread' = [rcThread EXCEPT ![t] = s] /\ rcTouched' = rcTouched
        /\ UNCHANGED <<configState, packetState, rcOwner>>
    BY <1>6 DEF SwapConfigs, Goto
  <2> HIDE DEF s
  <2>3. QED
    BY <1>1, <1>a, <2>1, <2>2
<1>7. ASSUME NEW text \in RcConfigs, LoadNewConfig(t, text) PROVE SwapInv'
  <2> DEFINE s == [IdleThread EXCEPT !.op = "load", !.text = text]
  <2>1. s \in ThreadStates /\ s.op = "load" /\ s.read = "NONE"
    BY ThreadFacts DEF ThreadStates, RcOps, RcTexts
  <2>2. /\ rcThread' = [rcThread EXCEPT ![t] = s] /\ rcTouched' = rcTouched
        /\ UNCHANGED <<configState, packetState, rcOwner>>
    BY <1>7 DEF LoadNewConfig, Goto
  <2> HIDE DEF s
  <2>3. QED
    BY <1>1, <1>a, <2>1, <2>2
<1>8. CASE ResetState(t)
  <2>1. CASE rcThread' = [rcThread EXCEPT ![t] = [IdleThread EXCEPT !.op = "reset"]]
             /\ UNCHANGED <<configState, packetState, rcOwner, rcTouched>>
    <3> DEFINE s == [IdleThread EXCEPT !.op = "reset"]
    <3>1. s \in ThreadStates /\ s.op = "reset" /\ s.read = "NONE"
      BY ThreadFacts DEF ThreadStates, RcOps
    <3> HIDE DEF s
    <3>2. QED
      BY <1>1, <1>a, <2>1, <3>1 DEF s
  <2>2. CASE /\ rcThread[t].op = "reset"
             /\ rcTouched' = <<rcThread[t].cxt, rcRt[rcThread[t].cxt]>>
             /\ rcThread' = [rcThread EXCEPT ![t] = IF rcThread[t].cxt = RcCxts THEN IdleThread
                        ELSE [rcThread[t] EXCEPT !.cxt = rcThread[t].cxt + 1]]
             /\ UNCHANGED <<configState, packetState, rcOwner>>
    <3>1. rcTouched' \in RcCxt \X (0..RcMaxLoads)
      BY <1>0, <2>2, ThreadFacts DEF RcTyped
    <3>3. CASE rcThread[t].cxt = RcCxts
      BY <1>1, <2>2, <3>1, <3>3, ThreadFacts
    <3>4. CASE rcThread[t].cxt # RcCxts
      <4> DEFINE c == rcThread[t].cxt + 1
                 s == [rcThread[t] EXCEPT !.cxt = c]
      <4>0. c \in RcCxt
        BY <3>4, ThreadFacts, NextContext
      <4> HIDE DEF c
      <4>1. s \in ThreadStates /\ s.op = "reset" /\ s.read = rcThread[t].read
            /\ s.kind = rcThread[t].kind
        BY <2>2, <4>0, ThreadFacts DEF ThreadStates
      <4>2. rcThread' = [rcThread EXCEPT ![t] = s]
        BY <2>2, <3>4 DEF c
      <4> HIDE DEF s
      <4>3. QED
        BY <1>0, <1>1, <2>2, <3>1, <4>1, <4>2 DEF AnswerHasItsType
    <3>5. QED
      BY <3>3, <3>4
  <2>3. QED
    BY <1>8, <2>1, <2>2 DEF ResetState, Goto, At
<1>9. QED
  BY <1>2, <1>3, <1>4, <1>5, <1>6, <1>7, <1>8

\* Loading and ordering go through the contexts and change what a swap will
\* install, not what packets use.
LEMMA LoadKeeps ==
  ASSUME SwapInv, NEW t \in RcThreads,
         LoadContext(t) \/ LoadDone(t) \/ OrderContext(t)
  PROVE  SwapInv'
<1>0. RcTyped /\ PhvInv /\ DrainInv /\ PoolBound /\ AnswerHasItsType
  BY DEF SwapInv
<1> DEFINE r == rcThread[t]
<1>a. r \in ThreadStates /\ r.cxt \in RcCxt /\ r.text \in RcTexts
  BY ThreadFacts
<1>b. r.read # "NONE" => r.read \in CastTo(r.kind)
  BY <1>0 DEF AnswerHasItsType
<1> HIDE DEF r
<1>1. ASSUME NEW s \in ThreadStates, s.op \notin {"drain", "install", "notify"},
             s.read # "NONE" => s.read \in CastTo(s.kind),
             rcThread' = [rcThread EXCEPT ![t] = s],
             rcRt' \in [RcCxt -> 0..RcMaxLoads], rcOrdered' \in [RcCxt -> BOOLEAN],
             rcTexts' \in Seq(RcTexts), Len(rcTexts') <= RcMaxLoads,
             \A c \in RcCxt : rcRt'[c] <= Len(rcTexts'),
             rcCurrent' \in RcTexts,
             UNCHANGED <<rcRunning, packetState, rcOwner, rcTouched>>
      PROVE  SwapInv'
  <2>1. /\ rcThread' \in [RcThreads -> ThreadStates]
        /\ PhvInv' /\ DrainInv' /\ PoolBound' /\ AnswerHasItsType'
    BY <1>1, ThreadMoves DEF packetState
  <2>2. RcTyped'
    BY <1>0, <1>1, <2>1 DEF RcTyped, packetState
  <2>3. QED
    BY <2>1, <2>2 DEF SwapInv
<1>c. /\ rcRt \in [RcCxt -> 0..RcMaxLoads] /\ rcOrdered \in [RcCxt -> BOOLEAN]
      /\ rcTexts \in Seq(RcTexts) /\ Len(rcTexts) <= RcMaxLoads
      /\ \A c \in RcCxt : rcRt[c] <= Len(rcTexts)
      /\ rcCurrent \in RcTexts
  BY <1>0 DEF RcTyped
<1>2. CASE LoadDone(t)
  BY <1>1, <1>2, <1>a, <1>c, ThreadFacts DEF LoadDone, Goto, r
<1>3. CASE LoadContext(t)
  <2>1. CASE rcThread' = [rcThread EXCEPT ![t] = IdleThread] /\ UNCHANGED <<rcRt, rcTexts>>
    BY <1>1, <1>3, <1>c, <2>1, ThreadFacts DEF LoadContext
  <2>2. CASE /\ Len(rcTexts) < RcMaxLoads
             /\ rcTexts' = Append(rcTexts, r.text)
             /\ rcRt' = [rcRt EXCEPT ![r.cxt] = Len(rcTexts) + 1]
             /\ rcThread' = [rcThread EXCEPT ![t] =
                  IF r.cxt < RcCxts THEN [r EXCEPT !.cxt = r.cxt + 1]
                  ELSE [r EXCEPT !.op = "loaded"]]
    <3>1. rcTexts' \in Seq(RcTexts) /\ Len(rcTexts') = Len(rcTexts) + 1
      BY <1>a, <1>c, <2>2
    <3>2. Len(rcTexts') <= RcMaxLoads /\ Len(rcTexts) + 1 \in 0..RcMaxLoads
      BY <1>c, <2>2, <3>1, RcAssumption
    <3>3. rcRt' \in [RcCxt -> 0..RcMaxLoads]
      BY <1>a, <1>c, <2>2, <3>2
    <3>4. \A c \in RcCxt : rcRt'[c] <= Len(rcTexts')
      BY <1>a, <1>c, <2>2, <3>1, RcAssumption
    <3>5. UNCHANGED <<rcRunning, rcOrdered, rcCurrent, packetState, rcOwner, rcTouched>>
          /\ r.op = "load"
      BY <1>3 DEF LoadContext, At, r
    <3>6. CASE r.cxt < RcCxts
      <4> DEFINE c == r.cxt + 1
                 s == [r EXCEPT !.cxt = c]
      <4>1. c \in RcCxt
        BY <1>a, <3>6, NextContext
      <4> HIDE DEF c
      <4>2. s \in ThreadStates /\ s.op = "load" /\ s.read = r.read /\ s.kind = r.kind
        BY <1>a, <3>5, <4>1 DEF ThreadStates
      <4>3. rcThread' = [rcThread EXCEPT ![t] = s]
        BY <2>2, <3>6 DEF c
      <4> HIDE DEF s
      <4>4. QED
        BY <1>1, <1>b, <1>c, <3>1, <3>2, <3>3, <3>4, <3>5, <4>2, <4>3
    <3>7. CASE ~(r.cxt < RcCxts)
      <4> DEFINE s == [r EXCEPT !.op = "loaded"]
      <4>1. s \in ThreadStates /\ s.op = "loaded" /\ s.read = r.read /\ s.kind = r.kind
        BY <1>a DEF ThreadStates, RcOps
      <4>2. rcThread' = [rcThread EXCEPT ![t] = s]
        BY <2>2, <3>7
      <4> HIDE DEF s
      <4>3. QED
        BY <1>1, <1>b, <1>c, <3>1, <3>2, <3>3, <3>4, <3>5, <4>1, <4>2
    <3>8. QED
      BY <3>6, <3>7
  <2>3. QED
    BY <1>3, <2>1, <2>2 DEF LoadContext, Goto, r
<1>4. CASE OrderContext(t)
  <2>1. CASE rcThread' = [rcThread EXCEPT ![t] = IdleThread] /\ UNCHANGED rcOrdered
    BY <1>1, <1>4, <1>c, <2>1, ThreadFacts DEF OrderContext
  <2>2. CASE /\ rcOrdered' = [rcOrdered EXCEPT ![r.cxt] = TRUE]
             /\ rcThread' = [rcThread EXCEPT ![t] =
                  IF r.cxt < RcCxts
                  THEN [IdleThread EXCEPT !.op = "order", !.cxt = r.cxt + 1]
                  ELSE [IdleThread EXCEPT !.op = "swap"]]
    <3>1. rcOrdered' \in [RcCxt -> BOOLEAN]
      BY <1>a, <1>c, <2>2
    <3>2. UNCHANGED <<rcRunning, rcRt, rcTexts, rcCurrent, packetState, rcOwner, rcTouched>>
      BY <1>4 DEF OrderContext
    <3>3. CASE r.cxt < RcCxts
      <4> DEFINE c == r.cxt + 1
                 s == [IdleThread EXCEPT !.op = "order", !.cxt = c]
      <4>1. c \in RcCxt
        BY <1>a, <3>3, NextContext
      <4> HIDE DEF c
      <4>2. s \in ThreadStates /\ s.op = "order" /\ s.read = "NONE"
        BY <4>1, ThreadFacts DEF ThreadStates, RcOps
      <4>3. rcThread' = [rcThread EXCEPT ![t] = s]
        BY <2>2, <3>3 DEF c
      <4> HIDE DEF s
      <4>4. QED
        BY <1>1, <1>c, <3>1, <3>2, <4>2, <4>3
    <3>4. CASE ~(r.cxt < RcCxts)
      <4> DEFINE s == [IdleThread EXCEPT !.op = "swap"]
      <4>1. s \in ThreadStates /\ s.op = "swap" /\ s.read = "NONE"
        BY ThreadFacts DEF ThreadStates, RcOps
      <4>2. rcThread' = [rcThread EXCEPT ![t] = s]
        BY <2>2, <3>4
      <4> HIDE DEF s
      <4>3. QED
        BY <1>1, <1>c, <3>1, <3>2, <4>1, <4>2
    <3>5. QED
      BY <3>3, <3>4
  <2>3. QED
    BY <1>4, <2>1, <2>2 DEF OrderContext, Goto, r
<1>5. QED
  BY <1>2, <1>3, <1>4

-----------------------------------------------------------------------------
\* The packets of a context are a finite set.
LEMMA InUseFinite ==
  ASSUME NEW c, NEW f
  PROVE  /\ IsFiniteSet({p \in RcPackets : f[p].cxt = c})
         /\ Cardinality({p \in RcPackets : f[p].cxt = c}) \in Nat
         /\ Cardinality({p \in RcPackets : f[p].cxt = c}) <= Cardinality(RcPackets)
         /\ Cardinality(RcPackets) \in Nat
<1> DEFINE U == {p \in RcPackets : f[p].cxt = c}
<1>1. U \subseteq RcPackets /\ IsFiniteSet(RcPackets)
  BY RcAssumption
<1>2. QED
  BY <1>1, FS_Subset, FS_CardinalityType

\* How many packets of a context there are, and how many there will be.
LEMMA InUseNat ==
  ASSUME NEW c
  PROVE  /\ InUse(c) \in Nat /\ InUse(c)' \in Nat
         /\ InUse(c) <= Cardinality(RcPackets) /\ InUse(c)' <= Cardinality(RcPackets)
         /\ Cardinality(RcPackets) \in Nat
<1>1. /\ Cardinality({p \in RcPackets : rcPacket[p].cxt = c}) \in Nat
      /\ Cardinality({p \in RcPackets : rcPacket[p].cxt = c}) <= Cardinality(RcPackets)
      /\ Cardinality(RcPackets) \in Nat
  BY InUseFinite
<1>2. /\ Cardinality({p \in RcPackets : rcPacket'[p].cxt = c}) \in Nat
      /\ Cardinality({p \in RcPackets : rcPacket'[p].cxt = c}) <= Cardinality(RcPackets)
  BY InUseFinite
<1>3. QED
  BY <1>1, <1>2 DEF InUse

\* A context has no packet in use when their number is 0.
LEMMA InUseZero ==
  ASSUME NEW c, InUse(c) = 0
  PROVE  \A p \in RcPackets : rcPacket[p].cxt # c
<1> DEFINE U == {p \in RcPackets : rcPacket[p].cxt = c}
<1>1. IsFiniteSet(U) /\ Cardinality(U) = 0
  BY InUseFinite DEF InUse
<1>2. U = {}
  BY <1>1, FS_EmptySet
<1>3. QED
  BY <1>2

\* do_swap: only the thread that holds the locks installs a configuration, in a
\* context whose packets are gone.
LEMMA SwapKeeps ==
  ASSUME SwapInv, NEW t \in RcThreads,
         SwapLock(t) \/ SwapDrain(t) \/ SwapInstall(t) \/ SwapDone(t)
  PROVE  SwapInv'
<1>0. RcTyped /\ PhvInv /\ DrainInv /\ PoolBound /\ AnswerHasItsType
  BY DEF SwapInv
<1> DEFINE r == rcThread[t]
           c == r.cxt
           adv == Advance(t, c)
<1>a. /\ r \in ThreadStates /\ c \in RcCxt /\ r.op \in RcOps
      /\ IdleThread \in ThreadStates
  BY ThreadFacts
<1>b. /\ adv \in ThreadStates /\ adv.op \in {"drain", "notify"} /\ adv.read = "NONE"
  <2>1. CASE c < RcCxts
    <3> DEFINE d == c + 1
    <3>1. d \in RcCxt
      BY <1>a, <2>1, NextContext
    <3>2. adv = [IdleThread EXCEPT !.op = "drain", !.cxt = d]
      BY <2>1 DEF Advance
    <3> HIDE DEF d, adv
    <3>3. QED
      BY <3>1, <3>2, ThreadFacts DEF ThreadStates, RcOps
  <2>2. CASE ~(c < RcCxts)
    <3>1. adv = [IdleThread EXCEPT !.op = "notify"]
      BY <2>2 DEF Advance
    <3> HIDE DEF adv
    <3>2. QED
      BY <3>1, ThreadFacts DEF ThreadStates, RcOps
  <2>3. QED
    BY <2>1, <2>2
<1>c. r.read # "NONE" => r.read \in CastTo(r.kind)
  BY <1>0 DEF AnswerHasItsType
<1> HIDE DEF adv
<1>1. ASSUME NEW s \in ThreadStates, s.op \in {"drain", "install", "notify"} => rcOwner' = t,
             s.op = "install" => \A p \in RcPackets : rcPacket[p].cxt # s.cxt,
             s.read # "NONE" => s.read \in CastTo(s.kind),
             rcThread' = [rcThread EXCEPT ![t] = s],
             rcOwner' \in RcThreads \cup {Nobody},
             rcOwner' = rcOwner \/ rcOwner = Nobody \/ rcOwner = t,
             rcPacket' = rcPacket
      PROVE  /\ rcThread' \in [RcThreads -> ThreadStates]
             /\ DrainInv' /\ AnswerHasItsType'
  <2>1. \A u \in RcThreads : rcThread'[u] = IF u = t THEN s ELSE rcThread[u]
    BY <1>0, <1>1 DEF RcTyped
  <2>2. rcThread' \in [RcThreads -> ThreadStates]
    BY <1>0, <1>1 DEF RcTyped
  <2>3. ASSUME NEW u \in RcThreads, u # t, rcThread[u].op \in {"drain", "install", "notify"}
        PROVE  rcOwner' = u
    BY <1>0, <1>1, <2>3, RcAssumption DEF DrainInv
  <2>4. DrainInv'
    BY <1>0, <1>1, <2>1, <2>3 DEF DrainInv
  <2>5. AnswerHasItsType'
    BY <1>0, <1>1, <2>1 DEF AnswerHasItsType
  <2>6. QED
    BY <2>2, <2>4, <2>5
<1>2. ASSUME UNCHANGED <<rcRunning, rcRt, rcOrdered, rcTexts, rcCurrent, packetState, rcTouched>>,
             rcOwner' \in RcThreads \cup {Nobody},
             rcThread' \in [RcThreads -> ThreadStates],
             DrainInv', AnswerHasItsType'
      PROVE  SwapInv'
  <2>1. RcTyped'
    BY <1>0, <1>2 DEF RcTyped, packetState
  <2>2. PhvInv' /\ PoolBound'
    BY <1>0, <1>2 DEF PhvInv, PoolBound, InUse, packetState
  <2>3. QED
    BY <1>2, <2>1, <2>2 DEF SwapInv
<1>3. CASE SwapLock(t)
  <2>0. /\ rcOwner = Nobody
        /\ UNCHANGED <<rcRunning, rcRt, rcOrdered, rcTexts, rcCurrent, packetState, rcTouched>>
    BY <1>3 DEF SwapLock
  <2>1. CASE rcOwner' = t /\ rcThread' = [rcThread EXCEPT ![t] = [IdleThread EXCEPT !.op = "drain"]]
    <3> DEFINE s == [IdleThread EXCEPT !.op = "drain"]
    <3>1. s \in ThreadStates /\ s.op = "drain" /\ s.read = "NONE"
      BY ThreadFacts DEF ThreadStates, RcOps
    <3>2. rcThread' = [rcThread EXCEPT ![t] = s]
      BY <2>1
    <3> HIDE DEF s
    <3>3. /\ rcThread' \in [RcThreads -> ThreadStates]
          /\ DrainInv' /\ AnswerHasItsType'
      BY <1>1, <2>0, <2>1, <3>1, <3>2 DEF packetState
    <3>4. QED
      BY <1>2, <2>0, <2>1, <3>3
  <2>2. CASE UNCHANGED <<rcOwner, rcThread>>
    <3>1. rcThread' \in [RcThreads -> ThreadStates] /\ rcOwner' \in RcThreads \cup {Nobody}
      BY <1>0, <2>2 DEF RcTyped
    <3>2. DrainInv' /\ AnswerHasItsType'
      BY <1>0, <2>0, <2>2 DEF DrainInv, AnswerHasItsType, packetState
    <3>3. QED
      BY <1>2, <2>0, <3>1, <3>2
  <2>3. QED
    BY <1>3, <2>1, <2>2 DEF SwapLock, Goto
<1>4. CASE SwapDrain(t)
  <2>0. /\ rcOwner = t /\ rcOwner' = rcOwner /\ r.op = "drain" /\ rcPacket' = rcPacket
        /\ UNCHANGED <<rcRunning, rcRt, rcOrdered, rcTexts, rcCurrent, packetState, rcTouched>>
    BY <1>0, <1>4 DEF SwapDrain, At, DrainInv, configState, packetState
  <2>1. CASE rcThread' = [rcThread EXCEPT ![t] = adv]
    <3>1. /\ rcThread' \in [RcThreads -> ThreadStates]
          /\ DrainInv' /\ AnswerHasItsType'
      BY <1>1, <1>b, <2>0, <2>1
    <3>2. QED
      BY <1>2, <2>0, <3>1
  <2>2. CASE InUse(c) = 0 /\ rcThread' = [rcThread EXCEPT ![t] = [r EXCEPT !.op = "install"]]
    <3> DEFINE s == [r EXCEPT !.op = "install"]
    <3>1. s \in ThreadStates /\ s.op = "install" /\ s.cxt = c /\ s.read = r.read /\ s.kind = r.kind
      BY <1>a DEF ThreadStates, RcOps
    <3>2. rcThread' = [rcThread EXCEPT ![t] = s] /\ \A p \in RcPackets : rcPacket[p].cxt # c
      BY <2>2, InUseZero
    <3> HIDE DEF s, r
    <3>3. /\ rcThread' \in [RcThreads -> ThreadStates]
          /\ DrainInv' /\ AnswerHasItsType'
      BY <1>1, <1>c, <2>0, <3>1, <3>2
    <3>4. QED
      BY <1>2, <2>0, <3>3
  <2>3. QED
    BY <1>4, <2>1, <2>2 DEF SwapDrain, Goto, adv
<1>5. CASE SwapDone(t)
  <2>0. /\ rcOwner = t /\ rcOwner' = Nobody /\ rcThread' = [rcThread EXCEPT ![t] = IdleThread]
        /\ rcPacket' = rcPacket
        /\ UNCHANGED <<rcRunning, rcRt, rcOrdered, rcTexts, rcCurrent, packetState, rcTouched>>
    BY <1>0, <1>5 DEF SwapDone, Goto, At, DrainInv, configState, packetState
  <2>1. /\ rcThread' \in [RcThreads -> ThreadStates]
        /\ DrainInv' /\ AnswerHasItsType'
    BY <1>1, <2>0, ThreadFacts
  <2>2. QED
    BY <1>2, <2>0, <2>1
<1>6. CASE SwapInstall(t)
  <2>0. /\ rcOwner = t /\ rcOwner' = rcOwner /\ rcPacket' = rcPacket
        /\ rcThread' = [rcThread EXCEPT ![t] = adv]
        /\ \A p \in RcPackets : rcPacket[p].cxt # c
        /\ rcRunning' = [rcRunning EXCEPT ![c] = rcRt[c]]
        /\ rcOrdered' = [rcOrdered EXCEPT ![c] = FALSE]
        /\ rcFactory' = [rcFactory EXCEPT ![c] = rcRt[c]]
        /\ rcPool' = [rcPool EXCEPT ![c] = <<>>]
        /\ UNCHANGED <<rcRt, rcTexts, rcCurrent, rcTouched>>
    BY <1>0, <1>6 DEF SwapInstall, Goto, At, DrainInv, adv
  <2>1. /\ rcThread' \in [RcThreads -> ThreadStates]
        /\ DrainInv' /\ AnswerHasItsType'
    BY <1>1, <1>b, <2>0
  <2> HIDE DEF c, r
  <2>2. RcTyped'
    <3>1. rcRunning' \in [RcCxt -> 0..RcMaxLoads] /\ rcFactory' \in [RcCxt -> 0..RcMaxLoads]
      BY <1>0, <1>a, <2>0 DEF RcTyped
    <3>2. rcOrdered' \in [RcCxt -> BOOLEAN]
      BY <1>0, <1>a, <2>0 DEF RcTyped
    <3>3. rcPool' \in [RcCxt -> Seq(0..RcMaxLoads)]
      BY <1>0, <1>a, <2>0 DEF RcTyped
    <3>4. QED
      BY <1>0, <2>0, <2>1, <3>1, <3>2, <3>3 DEF RcTyped
  <2>3. PhvInv'
    <3>1. \A e \in RcCxt : /\ rcRunning'[e] = IF e = c THEN rcRt[c] ELSE rcRunning[e]
                           /\ rcPool'[e] = IF e = c THEN <<>> ELSE rcPool[e]
      BY <1>0, <1>a, <2>0 DEF RcTyped
    <3>2. rcFactory' = rcRunning'
      BY <1>0, <2>0 DEF PhvInv
    <3>3. \A e \in RcCxt : \A i \in 1..Len(rcPool'[e]) : rcPool'[e][i] = rcRunning'[e]
      BY <1>0, <3>1 DEF PhvInv
    <3>4. \A p \in RcPackets : rcPacket[p] # NoPacket =>
             rcPacket[p].cxt \in RcCxt /\ rcPacket[p].phv = rcRunning'[rcPacket[p].cxt]
      BY <1>0, <2>0, <3>1 DEF PhvInv
    <3>5. QED
      BY <2>0, <3>2, <3>3, <3>4 DEF PhvInv
  <2>4. PoolBound'
    <3>1. ASSUME NEW e \in RcCxt
          PROVE  Len(rcPool'[e]) + InUse(e)' <= Cardinality(RcPackets)
      <4>1. InUse(e)' = InUse(e) /\ InUse(e) \in Nat /\ InUse(e) <= Cardinality(RcPackets)
            /\ Cardinality(RcPackets) \in Nat
        BY <2>0, InUseFinite DEF InUse
      <4>2. CASE e = c
        <5>1. Len(rcPool'[e]) = 0
          BY <1>0, <1>a, <2>0, <4>2 DEF RcTyped
        <5>2. QED
          BY <4>1, <5>1
      <4>3. CASE e # c
        BY <1>0, <1>a, <2>0, <4>1, <4>3 DEF RcTyped, PoolBound
      <4>4. QED
        BY <4>2, <4>3
    <3>2. QED
      BY <3>1 DEF PoolBound
  <2>5. QED
    BY <2>1, <2>2, <2>3, <2>4 DEF SwapInv
<1>7. QED
  BY <1>3, <1>4, <1>5, <1>6

\* PHVPool::get gives a PHV of the running configuration and leaves the others.
LEMMA PoolGet ==
  ASSUME SwapInv, NEW c \in RcCxt, NEW pool, pool = PoolAfterGet(rcPool, c)
  PROVE  /\ PhvFrom(c) \in 0..RcMaxLoads /\ PhvFrom(c) = rcRunning[c]
         /\ pool \in [RcCxt -> Seq(0..RcMaxLoads)]
         /\ \A e \in RcCxt : \A i \in 1..Len(pool[e]) : pool[e][i] = rcRunning[e]
         /\ \A e \in RcCxt : e # c => pool[e] = rcPool[e]
         /\ Len(pool[c]) = (IF Len(rcPool[c]) = 0 THEN 0 ELSE Len(rcPool[c]) - 1)
<1>0. /\ rcPool \in [RcCxt -> Seq(0..RcMaxLoads)] /\ rcFactory = rcRunning
      /\ rcRunning \in [RcCxt -> 0..RcMaxLoads]
      /\ \A e \in RcCxt : \A i \in 1..Len(rcPool[e]) : rcPool[e][i] = rcRunning[e]
  BY DEF SwapInv, RcTyped, PhvInv
<1>1. CASE rcPool[c] = <<>>
  BY <1>0, <1>1 DEF PhvFrom, PoolAfterGet
<1>2. CASE rcPool[c] # <<>>
  <2> DEFINE q == rcPool[c]
             n == Len(q)
             f == SubSeq(q, 1, n - 1)
  <2>1. q \in Seq(0..RcMaxLoads) /\ n \in Nat /\ n # 0 /\ n \in 1..Len(q)
    BY <1>0, <1>2
  <2>2. PhvFrom(c) = q[n] /\ pool = [rcPool EXCEPT ![c] = f]
    BY <1>2 DEF PhvFrom, PoolAfterGet
  <2>3. q[n] = rcRunning[c]
    BY <1>0, <2>1
  <2>4. f \in Seq(0..RcMaxLoads) /\ Len(f) = n - 1 /\ \A i \in 1..n-1 : f[i] = q[i]
    <3>1. n - 1 \in Nat /\ 1..n-1 \subseteq 1..Len(q)
      BY <2>1
    <3>2. f = [i \in 1..n-1 |-> q[i]]
      BY <2>1, <3>1
    <3>3. \A i \in 1..n-1 : q[i] \in 0..RcMaxLoads
      BY <1>0, <2>1, <3>1 DEF q
    <3> HIDE DEF f, n, q
    <3>4. f \in [1..n-1 -> 0..RcMaxLoads]
      BY <3>2, <3>3
    <3>5. PICK m \in Nat : m = n - 1
      BY <3>1
    <3>6. f \in [1..m -> 0..RcMaxLoads] /\ f = [i \in 1..m |-> q[i]]
      BY <3>2, <3>4, <3>5
    <3>7. f \in Seq(0..RcMaxLoads) /\ Len(f) = m
      BY <3>6
    <3>8. QED
      BY <3>2, <3>5, <3>7
  <2>5. \A i \in 1..Len(f) : f[i] = rcRunning[c]
    <3>1. \A i \in 1..n-1 : q[i] = rcRunning[c]
      BY <1>0, <2>1
    <3>2. QED
      BY <2>4, <3>1
  <2> HIDE DEF f, n
  <2>6. \A e \in RcCxt : pool[e] = IF e = c THEN f ELSE rcPool[e]
    BY <1>0, <2>2
  <2>7. pool \in [RcCxt -> Seq(0..RcMaxLoads)]
    BY <1>0, <2>2, <2>4
  <2>8. \A e \in RcCxt : \A i \in 1..Len(pool[e]) : pool[e][i] = rcRunning[e]
    BY <1>0, <2>5, <2>6
  <2>9. Len(pool[c]) = n - 1 /\ n # 0 /\ n = Len(rcPool[c])
    BY <2>1, <2>4, <2>6 DEF n
  <2>10. QED
    BY <1>0, <2>2, <2>3, <2>6, <2>7, <2>8, <2>9
<1>3. QED
  BY <1>1, <1>2

\* One packet more of context c, and no other change of who is in which.
LEMMA InUseGrows ==
  ASSUME NEW q \in RcPackets, NEW U, NEW V, U \subseteq RcPackets, q \notin U,
         V = U \cup {q}
  PROVE  Cardinality(V) = Cardinality(U) + 1
  BY RcAssumption, FS_Subset, FS_AddElement

\* Who is in another context does not change with packet q.
LEMMA InUseSame ==
  ASSUME NEW e, NEW q \in RcPackets, NEW f, NEW g, f[q].cxt # e, g[q].cxt # e,
         \A p \in RcPackets : p # q => g[p].cxt = f[p].cxt
  PROVE  Cardinality({p \in RcPackets : g[p].cxt = e})
           = Cardinality({p \in RcPackets : f[p].cxt = e})
<1>1. {p \in RcPackets : g[p].cxt = e} = {p \in RcPackets : f[p].cxt = e}
  OBVIOUS
<1>2. QED
  BY <1>1

\* A packet q that gets a PHV of context c: new from outside or a clone.
LEMMA PacketEnters ==
  ASSUME SwapInv, NEW c \in RcCxt, NEW q \in RcPackets, NEW h \in Nat,
         rcPacket[q] = NoPacket,
         rcPacket' \in [RcPackets -> [cxt : 0..RcCxts, phv : 0..RcMaxLoads, hops : Nat]],
         rcPacket'[q] = [cxt |-> c, phv |-> PhvFrom(c), hops |-> h],
         \A p \in RcPackets : p # q => /\ rcPacket'[p].cxt = rcPacket[p].cxt
                                       /\ rcPacket'[p].phv = rcPacket[p].phv
                                       /\ (rcPacket[p] = NoPacket => rcPacket'[p] = NoPacket),
         \A t \in RcThreads : rcThread[t].op = "install" => rcThread[t].cxt # c,
         rcPool' = PoolAfterGet(rcPool, c),
         UNCHANGED <<configState, rcFactory, rcOwner, rcTouched, rcThread>>
  PROVE  SwapInv'
<1>0. RcTyped /\ PhvInv /\ DrainInv /\ PoolBound /\ AnswerHasItsType
  BY DEF SwapInv
<1>1. /\ PhvFrom(c) \in 0..RcMaxLoads /\ PhvFrom(c) = rcRunning[c]
      /\ rcPool' \in [RcCxt -> Seq(0..RcMaxLoads)]
      /\ \A e \in RcCxt : \A i \in 1..Len(rcPool'[e]) : rcPool'[e][i] = rcRunning[e]
      /\ \A e \in RcCxt : e # c => rcPool'[e] = rcPool[e]
      /\ Len(rcPool'[c]) = (IF Len(rcPool[c]) = 0 THEN 0 ELSE Len(rcPool[c]) - 1)
  BY PoolGet
<1>a. rcPacket[q].cxt = 0 /\ 0 \notin RcCxt /\ rcPacket'[q].cxt = c
      /\ rcPacket'[q].phv = rcRunning[c]
  BY <1>1, RcAssumption DEF NoPacket, RcCxt
<1>2. RcTyped'
  BY <1>0, <1>1 DEF RcTyped, configState
<1>3. PhvInv'
  <2>1. rcFactory' = rcRunning' /\ rcRunning' = rcRunning
    BY <1>0 DEF PhvInv, configState
  <2>2. ASSUME NEW p \in RcPackets, rcPacket'[p] # NoPacket
        PROVE  rcPacket'[p].cxt \in RcCxt /\ rcPacket'[p].phv = rcRunning[rcPacket'[p].cxt]
    <3>1. CASE p = q
      BY <1>a, <3>1
    <3>2. CASE p # q
      BY <1>0, <2>2, <3>2 DEF PhvInv
    <3>3. QED
      BY <3>1, <3>2
  <2>3. QED
    BY <1>1, <2>1, <2>2 DEF PhvInv
<1>4. DrainInv'
  BY <1>0, <1>a DEF DrainInv
<1>5. PoolBound'
  <2>1. ASSUME NEW e \in RcCxt
        PROVE  Len(rcPool'[e]) + InUse(e)' <= Cardinality(RcPackets)
    <3>0. /\ InUse(e) \in Nat /\ InUse(e)' \in Nat /\ InUse(e)' <= Cardinality(RcPackets)
          /\ Cardinality(RcPackets) \in Nat /\ Len(rcPool[e]) \in Nat
      <4>1. Len(rcPool[e]) \in Nat
        BY <1>0, <2>1 DEF RcTyped
      <4>2. QED
        BY <4>1, InUseNat DEF InUse
    <3>1. Len(rcPool[e]) + InUse(e) <= Cardinality(RcPackets)
      BY <1>0 DEF PoolBound
    <3>2. CASE e = c
      <4>1. InUse(e)' = InUse(e) + 1
        <5> DEFINE U == {p \in RcPackets : rcPacket[p].cxt = e}
                   V == {p \in RcPackets : rcPacket'[p].cxt = e}
        <5>1. U \subseteq RcPackets /\ q \notin U /\ V = U \cup {q}
          BY <1>a, <3>2
        <5>2. InUse(e) = Cardinality(U) /\ InUse(e)' = Cardinality(V)
          BY DEF InUse
        <5> HIDE DEF U, V
        <5>3. QED
          BY <5>1, <5>2, InUseGrows
      <4>2. QED
        BY <1>1, <3>0, <3>1, <3>2, <4>1
    <3>3. CASE e # c
      <4>1. InUse(e)' = InUse(e)
        BY <1>a, <2>1, <3>3, InUseSame DEF InUse
      <4>2. QED
        BY <1>1, <2>1, <3>1, <3>3, <4>1
    <3>4. QED
      BY <3>2, <3>3
  <2>2. QED
    BY <2>1 DEF PoolBound
<1>6. AnswerHasItsType'
  BY <1>0 DEF AnswerHasItsType
<1>7. QED
  BY <1>2, <1>3, <1>4, <1>5, <1>6 DEF SwapInv

\* Packets come, are cloned and go; none comes while a thread is in do_swap, and
\* a context without packets has none to clone.
LEMMA PacketKeeps ==
  ASSUME SwapInv,
         \/ \E p \in RcPackets, c \in RcCxt : NewPacket(p, c)
         \/ \E p, q \in RcPackets : ClonePacket(p, q)
         \/ \E p \in RcPackets : PacketDone(p)
  PROVE  SwapInv'
<1>0. RcTyped /\ PhvInv /\ DrainInv /\ PoolBound /\ AnswerHasItsType
  BY DEF SwapInv
<1> DEFINE P == [cxt : 0..RcCxts, phv : 0..RcMaxLoads, hops : Nat]
<1>a. rcPacket \in [RcPackets -> P]
  BY <1>0 DEF RcTyped
<1>b. \A c \in RcCxt : PhvFrom(c) \in 0..RcMaxLoads /\ c \in 0..RcCxts
  BY PoolGet, RcAssumption DEF RcCxt
<1>1. ASSUME NEW q \in RcPackets, NEW c \in RcCxt, NewPacket(q, c) PROVE SwapInv'
  <2> DEFINE v == [cxt |-> c, phv |-> PhvFrom(c), hops |-> RcMaxHops]
  <2>1. /\ rcPacket[q] = NoPacket /\ rcOwner = Nobody
        /\ rcPacket' = [rcPacket EXCEPT ![q] = v]
        /\ rcPool' = PoolAfterGet(rcPool, c)
        /\ UNCHANGED <<configState, rcFactory, rcOwner, rcTouched, rcThread>>
    BY <1>1 DEF NewPacket
  <2>2. v \in P
    BY <1>b, RcAssumption
  <2>3. rcPacket' \in [RcPackets -> P] /\ rcPacket'[q] = v
        /\ \A p \in RcPackets : p # q => rcPacket'[p] = rcPacket[p]
    BY <1>a, <2>1, <2>2
  <2>4. \A t \in RcThreads : rcThread[t].op # "install"
    BY <1>0, <2>1, RcAssumption DEF DrainInv
  <2>5. QED
    BY <2>1, <2>3, <2>4, PacketEnters, RcAssumption
<1>2. ASSUME NEW p \in RcPackets, NEW q \in RcPackets, ClonePacket(p, q) PROVE SwapInv'
  <2> DEFINE c == rcPacket[p].cxt
             h == rcPacket[p].hops - 1
             v == [cxt |-> c, phv |-> PhvFrom(c), hops |-> h]
             w == [rcPacket[p] EXCEPT !.hops = h]
  <2>1. /\ rcPacket[p] # NoPacket /\ rcPacket[p].hops > 0 /\ rcPacket[q] = NoPacket /\ p # q
        /\ rcPacket' = [rcPacket EXCEPT ![p].hops = h, ![q] = v]
        /\ rcPool' = PoolAfterGet(rcPool, c)
        /\ UNCHANGED <<configState, rcFactory, rcOwner, rcTouched, rcThread>>
    BY <1>2 DEF ClonePacket
  <2>2. c \in RcCxt /\ h \in Nat
    BY <1>0, <1>a, <2>1 DEF PhvInv
  <2>3. v \in P
    BY <1>b, <2>2
  <2>4. w \in P /\ w.cxt = c /\ w.phv = rcPacket[p].phv
    BY <1>a, <2>2
  <2>5. rcPacket' = [x \in RcPackets |-> IF x = q THEN v ELSE IF x = p THEN w ELSE rcPacket[x]]
    BY <1>a, <2>1
  <2> HIDE DEF v, w, h, P
  <2>6. rcPacket' \in [RcPackets -> P]
    BY <1>a, <2>3, <2>4, <2>5
  <2>7. rcPacket'[q] = v /\ \A x \in RcPackets : x # q =>
                              /\ rcPacket'[x].cxt = rcPacket[x].cxt
                              /\ rcPacket'[x].phv = rcPacket[x].phv
                              /\ (rcPacket[x] = NoPacket => rcPacket'[x] = NoPacket)
    BY <2>1, <2>4, <2>5
  <2>8. \A t \in RcThreads : rcThread[t].op = "install" => rcThread[t].cxt # c
    BY <1>0 DEF DrainInv
  <2> HIDE DEF c
  <2>9. QED
    BY <2>1, <2>2, <2>6, <2>7, <2>8, PacketEnters DEF v, P
<1>3. ASSUME NEW p \in RcPackets, PacketDone(p) PROVE SwapInv'
  <2> DEFINE c == rcPacket[p].cxt
             v == rcPacket[p].phv
  <2>1. /\ rcPacket[p] # NoPacket
        /\ rcPacket' = [rcPacket EXCEPT ![p] = NoPacket]
        /\ rcPool' = [rcPool EXCEPT ![c] = Append(@, v)]
        /\ UNCHANGED <<configState, rcFactory, rcOwner, rcTouched, rcThread>>
    BY <1>3 DEF PacketDone
  <2>2. c \in RcCxt /\ v = rcRunning[c] /\ v \in 0..RcMaxLoads
    BY <1>0, <1>a, <2>1 DEF PhvInv
  <2>3. NoPacket \in P /\ NoPacket.cxt = 0 /\ 0 \notin RcCxt
    BY RcAssumption DEF NoPacket, RcCxt
  <2>4. /\ rcPacket' \in [RcPackets -> P] /\ rcPacket'[p] = NoPacket
        /\ \A x \in RcPackets : x # p => rcPacket'[x] = rcPacket[x]
    BY <1>a, <2>1, <2>3
  <2>5. /\ rcPool' \in [RcCxt -> Seq(0..RcMaxLoads)]
        /\ \A e \in RcCxt : e # c => rcPool'[e] = rcPool[e]
        /\ rcPool'[c] = Append(rcPool[c], v)
        /\ rcPool[c] \in Seq(0..RcMaxLoads)
    <3>1. rcPool \in [RcCxt -> Seq(0..RcMaxLoads)] /\ rcPool[c] \in Seq(0..RcMaxLoads)
      BY <1>0, <2>2 DEF RcTyped
    <3>2. Append(rcPool[c], v) \in Seq(0..RcMaxLoads)
      BY <2>2, <3>1
    <3>3. rcPool' = [rcPool EXCEPT ![c] = Append(rcPool[c], v)]
      BY <2>1, <2>2, <3>1
    <3> HIDE DEF c, v
    <3>4. QED
      BY <2>2, <3>1, <3>2, <3>3
  <2>c. rcPacket[p].cxt = c
    OBVIOUS
  <2> HIDE DEF c, v
  <2>6. Len(rcPool'[c]) = Len(rcPool[c]) + 1
        /\ \A i \in 1..Len(rcPool'[c]) : rcPool'[c][i] = rcRunning[c]
    BY <1>0, <2>2, <2>5 DEF PhvInv
  <2>7. RcTyped'
    BY <1>0, <2>1, <2>4, <2>5 DEF RcTyped, configState
  <2>8. PhvInv'
    <3>1. rcFactory' = rcRunning' /\ rcRunning' = rcRunning
      BY <1>0, <2>1 DEF PhvInv, configState
    <3>2. \A e \in RcCxt : \A i \in 1..Len(rcPool'[e]) : rcPool'[e][i] = rcRunning[e]
      BY <1>0, <2>5, <2>6 DEF PhvInv
    <3>3. \A x \in RcPackets : rcPacket'[x] # NoPacket =>
             rcPacket'[x].cxt \in RcCxt /\ rcPacket'[x].phv = rcRunning[rcPacket'[x].cxt]
      BY <1>0, <2>4 DEF PhvInv
    <3>4. QED
      BY <3>1, <3>2, <3>3 DEF PhvInv
  <2>9. DrainInv'
    <3>1. ASSUME NEW t \in RcThreads, rcThread[t].op = "install", NEW x \in RcPackets
          PROVE  rcPacket'[x].cxt # rcThread[t].cxt
      BY <1>0, <2>3, <2>4, <3>1, ThreadFacts DEF DrainInv
    <3>2. QED
      BY <1>0, <2>1, <3>1 DEF DrainInv
  <2>10. PoolBound'
    <3>1. ASSUME NEW e \in RcCxt
          PROVE  Len(rcPool'[e]) + InUse(e)' <= Cardinality(RcPackets)
      <4>0. /\ InUse(e) \in Nat /\ InUse(e)' \in Nat
            /\ Cardinality(RcPackets) \in Nat /\ Len(rcPool[e]) \in Nat
        <5>1. Len(rcPool[e]) \in Nat
          BY <1>0, <3>1 DEF RcTyped
        <5>2. QED
          BY <5>1, InUseNat DEF InUse
      <4>1. Len(rcPool[e]) + InUse(e) <= Cardinality(RcPackets)
        BY <1>0 DEF PoolBound
      <4>2. CASE e = c
        <5>1. InUse(e) = InUse(e)' + 1
          <6> DEFINE U == {x \in RcPackets : rcPacket'[x].cxt = e}
                     V == {x \in RcPackets : rcPacket[x].cxt = e}
          <6>1. U \subseteq RcPackets /\ p \notin U /\ V = U \cup {p}
            BY <2>2, <2>3, <2>4, <2>c, <4>2
          <6>2. InUse(e)' = Cardinality(U) /\ InUse(e) = Cardinality(V)
            BY DEF InUse
          <6> HIDE DEF U, V
          <6>3. QED
            BY <6>1, <6>2, InUseGrows
        <5>2. QED
          BY <2>6, <4>0, <4>1, <4>2, <5>1
      <4>3. CASE e # c
        <5>1. InUse(e)' = InUse(e)
          BY <2>3, <2>4, <2>c, <3>1, <4>3, InUseSame DEF InUse
        <5>2. QED
          BY <2>5, <3>1, <4>1, <4>3, <5>1
      <4>4. QED
        BY <4>2, <4>3
    <3>2. QED
      BY <3>1 DEF PoolBound
  <2>11. AnswerHasItsType'
    BY <1>0, <2>1 DEF AnswerHasItsType
  <2>12. QED
    BY <2>7, <2>8, <2>9, <2>10, <2>11 DEF SwapInv
<1>4. QED
  BY <1>1, <1>2, <1>3

-----------------------------------------------------------------------------
\* The switch starts with one configuration, no packets and idle threads.
LEMMA SwapInit == RcInit => SwapInv
<1> SUFFICES ASSUME RcInit PROVE SwapInv
  OBVIOUS
<1>0. RcFirst \in RcTexts /\ 1 \in RcCxt /\ 0 \notin RcCxt
  BY RcAssumption DEF RcTexts, RcCxt
<1>1. IdleThread \in ThreadStates /\ IdleThread.op = "idle" /\ IdleThread.read = "NONE"
  BY <1>0 DEF IdleThread, ThreadStates, RcOps, RcKinds
<1>2. RcTyped
  <2>1. rcOrdered \in [RcCxt -> BOOLEAN]
    BY DEF RcInit
  <2>2. rcPacket \in [RcPackets -> [cxt : 0..RcCxts, phv : 0..RcMaxLoads, hops : Nat]]
    BY RcAssumption DEF RcInit, NoPacket
  <2>3. rcTexts \in Seq(RcTexts) /\ Len(rcTexts) = 0
    BY DEF RcInit
  <2>4. QED
    BY <1>0, <1>1, <2>1, <2>2, <2>3, RcAssumption DEF RcInit, RcTyped
<1>3. PhvInv
  BY DEF RcInit, PhvInv
<1>4. DrainInv /\ AnswerHasItsType
  BY <1>1 DEF RcInit, DrainInv, AnswerHasItsType
<1>5. PoolBound
  <2>1. ASSUME NEW c \in RcCxt PROVE Len(rcPool[c]) + InUse(c) <= Cardinality(RcPackets)
    <3>1. rcPool[c] = <<>> /\ Len(rcPool[c]) = 0
      BY DEF RcInit
    <3>2. InUse(c) \in Nat /\ InUse(c) <= Cardinality(RcPackets)
          /\ Cardinality(RcPackets) \in Nat
      BY InUseNat
    <3> HIDE DEF RcInit
    <3>3. QED
      BY <3>1, <3>2
  <2>2. QED
    BY <2>1 DEF PoolBound
<1>6. QED
  BY <1>2, <1>3, <1>4, <1>5 DEF SwapInv

\* SwapInv is an invariant of the runtime interface and the swap.
THEOREM SwapInvariant == RcSpec => []SwapInv
<1>1. SwapInv /\ [RcNext]_cxVars => SwapInv'
  <2> SUFFICES ASSUME SwapInv, [RcNext]_cxVars PROVE SwapInv'
    OBVIOUS
  <2>1. ASSUME NEW t \in RcThreads, NEW c \in RcCxt, NEW n \in RcNames,
               \/ MtRequest(t, c, n) \/ ActProfRequest(t, c, n)
               \/ MtIndirectRequest(t, c, n) \/ ArrayRequest(t, c, n)
               \/ DirectRequest(t, c, n) \/ OtherRequest(t, c, n)
        PROVE  SwapInv'
    BY <2>1, RequestKeeps DEF MtRequest, ActProfRequest, MtIndirectRequest,
                              ArrayRequest, DirectRequest, OtherRequest
  <2>2. ASSUME NEW t \in RcThreads, SwapStep(t) PROVE SwapInv'
    BY <2>2, LoadKeeps, SwapKeeps DEF SwapStep
  <2>3. CASE StartAndReturn
    <3>1. UNCHANGED <<configState, packetState, rcOwner, rcTouched, rcThread>>
      BY <2>3 DEF StartAndReturn
    <3>2. QED
      BY <3>1 DEF SwapInv, RcTyped, PhvInv, DrainInv, PoolBound, InUse,
                  AnswerHasItsType, configState, packetState
  <2>4. CASE UNCHANGED cxVars
    BY <2>4 DEF cxVars, SwapInv, RcTyped, PhvInv, DrainInv, PoolBound, InUse,
                AnswerHasItsType
  <2>5. ASSUME NEW t \in RcThreads, NEW c \in RcCxt, NEW n \in RcNames, GetType(t, c, n)
        PROVE  SwapInv'
    BY <2>5, RequestKeeps
  <2>6. ASSUME NEW t \in RcThreads, NEW n \in RcNames, GetEntry(t, n) PROVE SwapInv'
    BY <2>6, RequestKeeps
  <2>7. ASSUME NEW t \in RcThreads, SendAnswer(t) \/ ResetState(t) \/ SwapConfigs(t)
        PROVE  SwapInv'
    BY <2>7, RequestKeeps
  <2>8. ASSUME NEW t \in RcThreads, NEW text \in RcConfigs, LoadNewConfig(t, text)
        PROVE  SwapInv'
    BY <2>8, RequestKeeps
  <2>9. QED
    BY <2>1, <2>2, <2>3, <2>4, <2>5, <2>6, <2>7, <2>8, PacketKeeps DEF RcNext
<1>2. QED
  BY <1>1, SwapInit, PTL DEF RcSpec

\* A configuration swap is safe: every packet has a PHV of the configuration its
\* context runs, and every answer an entry of the type it is formatted as.
THEOREM SwapIsSafe == RcSpec => []SwapSafe
<1>1. SwapInv => SwapSafe
  <2> SUFFICES ASSUME SwapInv PROVE SwapSafe
    OBVIOUS
  <2>1. RcTypeOK
    <3>1. ASSUME NEW c \in RcCxt PROVE Len(rcPool[c]) <= Cardinality(RcPackets)
      <4>1. Len(rcPool[c]) \in Nat /\ InUse(c) \in Nat /\ Cardinality(RcPackets) \in Nat
            /\ Len(rcPool[c]) + InUse(c) <= Cardinality(RcPackets)
        BY InUseNat DEF SwapInv, RcTyped, PoolBound
      <4>2. QED
        BY <4>1
    <3>2. ASSUME NEW c \in RcCxt PROVE rcOrdered[c] \in BOOLEAN
      BY DEF SwapInv, RcTyped
    <3>3. QED
      BY <3>1, <3>2 DEF SwapInv, RcTyped, RcTypeOK, RcTexts
  <2>2. PhvIsOfRunningConfig
    BY DEF SwapInv, PhvInv, PhvIsOfRunningConfig
  <2>3. QED
    BY <2>1, <2>2 DEF SwapInv, SwapSafe
<1>2. QED
  BY <1>1, SwapInvariant, PTL

(* The packet debugger.                                                    *)

\* notify_all leaves who waits for something else where it is.
LEMMA DgWaking ==
  ASSUME DgTypes
  PROVE  /\ WakeContinue(dgPkt) \in [DgPackets -> [pc : {"none", "call", "wait continue",
                                                         "wait resume", "gone"}, n : Nat]]
         /\ WakeResume(dgPkt) \in [DgPackets -> [pc : {"none", "call", "wait continue",
                                                       "wait resume", "gone"}, n : Nat]]
         /\ WakeContinue(WakeResume(dgPkt)) \in
              [DgPackets -> [pc : {"none", "call", "wait continue", "wait resume", "gone"}, n : Nat]]
         /\ \A p \in DgPackets :
              /\ WakeContinue(dgPkt)[p].pc # "wait continue"
              /\ WakeContinue(dgPkt)[p].n = dgPkt[p].n
              /\ WakeContinue(dgPkt)[p].pc = "wait resume" => dgPkt[p].pc = "wait resume"
              /\ WakeResume(dgPkt)[p].pc # "wait resume"
              /\ WakeResume(dgPkt)[p].pc = "wait continue" => dgPkt[p].pc = "wait continue"
              /\ WakeContinue(WakeResume(dgPkt))[p].pc \notin {"wait continue", "wait resume"}
<1>1. dgPkt \in [DgPackets -> [pc : {"none", "call", "wait continue", "wait resume", "gone"},
                              n : Nat]]
  BY DEF DgTypes
<1>2. ASSUME NEW f \in [DgPackets -> [pc : {"none", "call", "wait continue", "wait resume", "gone"},
                                     n : Nat]]
      PROVE  /\ WakeContinue(f) \in [DgPackets -> [pc : {"none", "call", "wait continue",
                                                         "wait resume", "gone"}, n : Nat]]
             /\ WakeResume(f) \in [DgPackets -> [pc : {"none", "call", "wait continue",
                                                       "wait resume", "gone"}, n : Nat]]
             /\ \A p \in DgPackets :
                  /\ WakeContinue(f)[p].pc # "wait continue"
                  /\ WakeContinue(f)[p].n = f[p].n
                  /\ WakeContinue(f)[p].pc = "wait resume" => f[p].pc = "wait resume"
                  /\ WakeResume(f)[p].pc # "wait resume"
                  /\ WakeResume(f)[p].pc = "wait continue" => f[p].pc = "wait continue"
  BY DEF WakeContinue, WakeResume
<1> DEFINE up == WakeResume(dgPkt)
<1>3. /\ up \in [DgPackets -> [pc : {"none", "call", "wait continue", "wait resume", "gone"},
                                  n : Nat]]
      /\ \A p \in DgPackets : up[p].pc # "wait resume"
  BY <1>1, <1>2
<1> HIDE DEF up
<1>4. /\ WakeContinue(up) \in
           [DgPackets -> [pc : {"none", "call", "wait continue", "wait resume", "gone"}, n : Nat]]
      /\ \A p \in DgPackets : WakeContinue(up)[p].pc \notin {"wait continue", "wait resume"}
  BY <1>2, <1>3
<1>5. QED
  BY <1>1, <1>2, <1>4 DEF up

\* DgInv after a handler of the request thread, from the flags it leaves, whom
\* it wakes and whether it replies.
LEMMA DgHandled ==
  ASSUME DgInv, NEW flags \in [can_continue : BOOLEAN, attached : BOOLEAN, break_next : BOOLEAN,
                               break_packet_in : BOOLEAN, stop_packet_in : BOOLEAN],
         NEW pkt \in [DgPackets -> [pc : {"none", "call", "wait continue", "wait resume", "gone"},
                                    n : Nat]],
         NEW replies \in BOOLEAN, Handler(flags, pkt, replies),
         dgWatch' \in BOOLEAN, dgFilter' \subseteq DgPackets,
         \A p \in DgPackets :
           /\ pkt[p].pc = "wait continue" => ~flags.can_continue
           /\ pkt[p].pc = "wait resume" => flags.stop_packet_in /\ pkt[p].n = 0,
         dgCount.changes = 0 =>
           /\ ~flags.attached => /\ ~dgWatch' /\ ~flags.break_packet_in /\ ~flags.break_next
                                 /\ replies
           /\ flags.attached /\ flags.can_continue => ~replies
           /\ flags.break_next => flags.can_continue
  PROVE  DgInv'
<1>1. /\ dgReq.pc = "dispatch" /\ dgReq' = [dgReq EXCEPT !.pc = "reply"]
      /\ dgFlags' = flags /\ dgPkt' = pkt /\ dgRegs' = dgRegs /\ dgCount' = dgCount
  BY DEF Handler
<1>2. CASE replies
  <2>1. dgReply' = TRUE /\ dgFault' = (dgFault \/ dgReply)
    BY <1>2 DEF Handler, SendReply
  <2>2. dgReply' \in BOOLEAN /\ dgFault' \in BOOLEAN /\ dgReply'
    BY <2>1, Zenon DEF DgInv, DgTypes
  <2>3. DgTypes'
    BY <1>1, <2>2 DEF DgInv, DgTypes, DgTypeOK
  <2>4. dgCount'.changes = 0 => InStep'
    BY <1>1, <1>2, <2>1, <2>2 DEF DgInv, InStep, DgTypes
  <2>5. NobodyAsleep'
    BY <1>1 DEF NobodyAsleep
  <2>6. QED
    BY <2>3, <2>4, <2>5 DEF DgInv
<1>3. CASE ~replies
  <2>1. dgReply' = dgReply /\ dgFault' = dgFault
    BY <1>3 DEF Handler
  <2>3. DgTypes'
    BY <1>1, <2>1 DEF DgInv, DgTypes, DgTypeOK
  <2>4. dgCount'.changes = 0 => InStep'
    BY <1>1, <1>3, <2>1 DEF DgInv, InStep, DgTypes
  <2>5. NobodyAsleep'
    BY <1>1 DEF NobodyAsleep
  <2>6. QED
    BY <2>3, <2>4, <2>5 DEF DgInv
<1>4. QED
  BY <1>2, <1>3

\* Every request keeps DgInv.
LEMMA DgServe ==
  ASSUME DgInv,
         \/ ReqContinue \/ ReqNext \/ ReqGetValue \/ ReqGetBacktrace
         \/ ReqBreakPacketIn \/ ReqRemovePacketIn \/ ReqStopPacketIn \/ ReqResume
         \/ ReqFilter \/ ReqSetWatchpoint \/ ReqUnsetWatchpoint \/ ReqReset \/ ReqAttach \/ ReqDetach
  PROVE  DgInv'
<1> DEFINE Flags == [can_continue : BOOLEAN, attached : BOOLEAN, break_next : BOOLEAN,
                     break_packet_in : BOOLEAN, stop_packet_in : BOOLEAN]
           Pkts == [DgPackets -> [pc : {"none", "call", "wait continue", "wait resume", "gone"},
                                  n : Nat]]
<1>1. /\ dgFlags \in Flags /\ dgPkt \in Pkts /\ dgWatch \in BOOLEAN /\ dgFilter \subseteq DgPackets
      /\ NobodyAsleep
      /\ WakeContinue(dgPkt) \in Pkts /\ WakeResume(dgPkt) \in Pkts
      /\ WakeContinue(WakeResume(dgPkt)) \in Pkts
  BY DgWaking DEF DgInv, DgTypes, DgTypeOK
<1>2. \A p \in DgPackets :
        /\ WakeContinue(dgPkt)[p].pc # "wait continue"
        /\ WakeContinue(dgPkt)[p].n = dgPkt[p].n
        /\ WakeContinue(dgPkt)[p].pc = "wait resume" => dgPkt[p].pc = "wait resume"
        /\ WakeResume(dgPkt)[p].pc # "wait resume"
        /\ WakeResume(dgPkt)[p].pc = "wait continue" => dgPkt[p].pc = "wait continue"
        /\ WakeContinue(WakeResume(dgPkt))[p].pc \notin {"wait continue", "wait resume"}
  BY DgWaking DEF DgInv
<1>3. dgCount.changes = 0 /\ dgReq.pc = "dispatch" =>
        /\ ~dgFlags.attached => dgReq.type = "ATTACH" /\ ~dgFlags.break_next
        /\ dgFlags.attached => ~dgFlags.can_continue
        /\ dgFlags.break_next => dgFlags.can_continue
  BY DEF DgInv, InStep
<1>4. CASE ReqContinue
  <2> DEFINE fl == [dgFlags EXCEPT !.can_continue = TRUE]
             pk == WakeContinue(dgPkt)
  <2>1. /\ fl \in Flags /\ fl.can_continue /\ fl.attached = dgFlags.attached
        /\ fl.stop_packet_in = dgFlags.stop_packet_in
    BY <1>1
  <2>2. Handler(fl, pk, FALSE) /\ dgReq.type = "CONTINUE" /\ UNCHANGED <<dgWatch, dgFilter>>
    BY <1>4, Zenon DEF ReqContinue
  <2>3. dgReq.pc = "dispatch"
    BY <2>2 DEF Handler
  <2>4. \A p \in DgPackets :
           /\ pk[p].pc = "wait continue" => ~fl.can_continue
           /\ pk[p].pc = "wait resume" => fl.stop_packet_in /\ pk[p].n = 0
    BY <1>1, <1>2, <2>1, ZenonT(40) DEF NobodyAsleep
  <2>5. dgWatch' \in BOOLEAN /\ dgFilter' \subseteq DgPackets /\ FALSE \in BOOLEAN
    BY <1>1, <2>2, Zenon
  <2> HIDE DEF fl, pk
  <2>6. dgCount.changes = 0 => fl.attached
    BY <1>3, <2>1, <2>2, <2>3
  <2>7. pk \in Pkts
    BY <1>1 DEF pk
  <2>8. QED
    BY <2>1, <2>2, <2>4, <2>5, <2>6, <2>7, DgHandled
<1>5. CASE ReqNext
  <2> DEFINE fl == [dgFlags EXCEPT !.can_continue = TRUE, !.break_next = TRUE]
             pk == WakeContinue(dgPkt)
  <2>1. /\ fl \in Flags /\ fl.can_continue /\ fl.attached = dgFlags.attached
        /\ fl.stop_packet_in = dgFlags.stop_packet_in
    BY <1>1
  <2>2. Handler(fl, pk, FALSE) /\ dgReq.type = "NEXT" /\ UNCHANGED <<dgWatch, dgFilter>>
    BY <1>5, Zenon DEF ReqNext
  <2>3. dgReq.pc = "dispatch"
    BY <2>2 DEF Handler
  <2>4. \A p \in DgPackets :
           /\ pk[p].pc = "wait continue" => ~fl.can_continue
           /\ pk[p].pc = "wait resume" => fl.stop_packet_in /\ pk[p].n = 0
    BY <1>1, <1>2, <2>1, ZenonT(40) DEF NobodyAsleep
  <2>5. dgWatch' \in BOOLEAN /\ dgFilter' \subseteq DgPackets /\ FALSE \in BOOLEAN
    BY <1>1, <2>2, Zenon
  <2> HIDE DEF fl, pk
  <2>6. dgCount.changes = 0 => fl.attached
    BY <1>3, <2>1, <2>2, <2>3
  <2>7. pk \in Pkts
    BY <1>1 DEF pk
  <2>8. QED
    BY <2>1, <2>2, <2>4, <2>5, <2>6, <2>7, DgHandled
<1>6. ASSUME NEW fl \in Flags, fl.can_continue = dgFlags.can_continue,
             fl.attached = dgFlags.attached, fl.break_next = dgFlags.break_next,
             fl.stop_packet_in \/ ~dgFlags.stop_packet_in,
             Handler(fl, dgPkt, TRUE), dgReq.type # "ATTACH" \/ dgFlags.attached,
             dgWatch' \in BOOLEAN, dgFilter' \subseteq DgPackets
      PROVE  DgInv'
  <2>1. dgReq.pc = "dispatch"
    BY <1>6 DEF Handler
  <2>2. \A p \in DgPackets :
           /\ dgPkt[p].pc = "wait continue" => ~fl.can_continue
           /\ dgPkt[p].pc = "wait resume" => fl.stop_packet_in /\ dgPkt[p].n = 0
    BY <1>1, <1>6 DEF NobodyAsleep
  <2>3. QED
    BY <1>1, <1>3, <1>6, <2>1, <2>2, DgHandled
<1>7. CASE ReqGetValue \/ ReqGetBacktrace \/ ReqFilter \/ ReqSetWatchpoint \/ ReqUnsetWatchpoint
  <2>1. /\ Handler(dgFlags, dgPkt, TRUE) /\ dgReq.type # "ATTACH" 
        /\ dgFilter' = dgFilter \/ \E p \in DgPackets : dgFilter' \in {{}, {p}, {q \in DgPackets : q[1] = p[1]}}
        /\ dgWatch' = dgWatch \/ dgWatch' = TRUE \/ dgWatch' = FALSE
    BY <1>7, Zenon DEF ReqGetValue, ReqGetBacktrace, ReqFilter, ReqSetWatchpoint, ReqUnsetWatchpoint
  <2>2. dgWatch' \in BOOLEAN
    BY <1>1, <2>1, Zenon
  <2>3. dgFilter' \subseteq DgPackets
    BY <1>1, <2>1
  <2>4. QED
    BY <1>1, <1>6, <2>1, <2>2, <2>3
<1>8. CASE ReqBreakPacketIn
  <2> DEFINE fl == [dgFlags EXCEPT !.break_packet_in = TRUE]
  <2>1. /\ fl \in Flags /\ fl.can_continue = dgFlags.can_continue
        /\ fl.attached = dgFlags.attached /\ fl.break_next = dgFlags.break_next
        /\ fl.stop_packet_in = dgFlags.stop_packet_in
    BY <1>1
  <2>2. Handler(fl, dgPkt, TRUE) /\ dgReq.type # "ATTACH" /\ UNCHANGED <<dgWatch, dgFilter>>
    BY <1>8, Zenon DEF ReqBreakPacketIn
  <2> HIDE DEF fl
  <2>3. QED
    BY <1>1, <1>6, <2>1, <2>2
<1>9. CASE ReqRemovePacketIn
  <2> DEFINE fl == [dgFlags EXCEPT !.break_packet_in = FALSE]
  <2>1. /\ fl \in Flags /\ fl.can_continue = dgFlags.can_continue
        /\ fl.attached = dgFlags.attached /\ fl.break_next = dgFlags.break_next
        /\ fl.stop_packet_in = dgFlags.stop_packet_in
    BY <1>1
  <2>2. Handler(fl, dgPkt, TRUE) /\ dgReq.type # "ATTACH" /\ UNCHANGED <<dgWatch, dgFilter>>
    BY <1>9, Zenon DEF ReqRemovePacketIn
  <2> HIDE DEF fl
  <2>3. QED
    BY <1>1, <1>6, <2>1, <2>2
<1>10. CASE ReqStopPacketIn
  <2> DEFINE fl == [dgFlags EXCEPT !.stop_packet_in = TRUE]
  <2>1. /\ fl \in Flags /\ fl.can_continue = dgFlags.can_continue
        /\ fl.attached = dgFlags.attached /\ fl.break_next = dgFlags.break_next
        /\ fl.stop_packet_in
    BY <1>1
  <2>2. Handler(fl, dgPkt, TRUE) /\ dgReq.type # "ATTACH" /\ UNCHANGED <<dgWatch, dgFilter>>
    BY <1>10, Zenon DEF ReqStopPacketIn
  <2> HIDE DEF fl
  <2>3. QED
    BY <1>1, <1>6, <2>1, <2>2
<1>11. ASSUME NEW fl \in Flags, fl.can_continue = dgFlags.can_continue,
              fl.attached = dgFlags.attached, fl.break_next = dgFlags.break_next,
              Handler(fl, WakeResume(dgPkt), TRUE), dgReq.type # "ATTACH",
              dgWatch' \in BOOLEAN, dgFilter' \subseteq DgPackets
      PROVE  DgInv'
  <2> DEFINE pk == WakeResume(dgPkt)
  <2>1. dgReq.pc = "dispatch"
    BY <1>11 DEF Handler
  <2>2. \A p \in DgPackets :
           /\ pk[p].pc = "wait continue" => ~fl.can_continue
           /\ pk[p].pc = "wait resume" => fl.stop_packet_in /\ pk[p].n = 0
    BY <1>1, <1>2, <1>11 DEF NobodyAsleep
  <2>3. Handler(fl, pk, TRUE) /\ pk \in Pkts
    BY <1>1, <1>11
  <2> HIDE DEF pk
  <2>4. QED
    BY <1>1, <1>3, <1>11, <2>1, <2>2, <2>3, DgHandled, ZenonT(40)
<1>12. CASE ReqResume
  <2> DEFINE fl == [dgFlags EXCEPT !.stop_packet_in = FALSE]
  <2>1. /\ fl \in Flags /\ fl.can_continue = dgFlags.can_continue
        /\ fl.attached = dgFlags.attached /\ fl.break_next = dgFlags.break_next
    BY <1>1
  <2>2. Handler(fl, WakeResume(dgPkt), TRUE) /\ dgReq.type # "ATTACH" /\ UNCHANGED <<dgWatch, dgFilter>>
    BY <1>12, Zenon DEF ReqResume
  <2> HIDE DEF fl
  <2>3. QED
    BY <1>1, <1>11, <2>1, <2>2
<1>13. CASE ReqReset
  <2> DEFINE fl == ResetFlags(dgFlags)
  <2>1. /\ fl \in Flags /\ fl.can_continue = dgFlags.can_continue
        /\ fl.attached = dgFlags.attached /\ fl.break_next = dgFlags.break_next
    BY <1>1 DEF ResetFlags
  <2>2. Handler(fl, WakeResume(dgPkt), TRUE) /\ dgReq.type # "ATTACH" /\ dgWatch' = FALSE /\ dgFilter' = {}
    BY <1>13, Zenon DEF ReqReset
  <2>3. dgWatch' \in BOOLEAN /\ dgFilter' \subseteq DgPackets
    BY <2>2, Zenon
  <2> HIDE DEF fl
  <2>4. QED
    BY <1>11, <2>1, <2>2, <2>3
<1>14. CASE ReqAttach /\ dgFlags.attached
  <2>1. Handler(dgFlags, dgPkt, TRUE) /\ UNCHANGED <<dgWatch, dgFilter>>
    BY <1>14 DEF ReqAttach
  <2>2. QED
    BY <1>1, <1>6, <1>14, <2>1
<1>15. CASE ReqAttach /\ ~dgFlags.attached
  <2> DEFINE fl == [ResetFlags(dgFlags) EXCEPT !.attached = TRUE, !.can_continue = FALSE]
             pk == WakeResume(dgPkt)
  <2>1. /\ fl \in Flags /\ ~fl.can_continue /\ fl.attached /\ fl.break_next = dgFlags.break_next
    BY <1>1 DEF ResetFlags
  <2>2. Handler(fl, pk, TRUE) /\ dgReq.type = "ATTACH" /\ dgWatch' = FALSE /\ dgFilter' = {}
    BY <1>15, Zenon DEF ReqAttach
  <2>3. dgWatch' \in BOOLEAN /\ dgFilter' \subseteq DgPackets
    BY <2>2, Zenon
  <2>4. dgReq.pc = "dispatch"
    BY <2>2 DEF Handler
  <2>5. \A p \in DgPackets :
           /\ pk[p].pc = "wait continue" => ~fl.can_continue
           /\ pk[p].pc = "wait resume" => fl.stop_packet_in /\ pk[p].n = 0
    BY <1>2, <2>1
  <2> HIDE DEF fl, pk
  <2>6. pk \in Pkts
    BY <1>1 DEF pk
  <2>7. QED
    BY <1>3, <1>15, <2>1, <2>2, <2>3, <2>4, <2>5, <2>6, DgHandled
<1>16. CASE ReqDetach
  <2> DEFINE fl == [ResetFlags(dgFlags) EXCEPT !.attached = FALSE, !.can_continue = TRUE]
             pk == WakeContinue(WakeResume(dgPkt))
  <2>1. /\ fl \in Flags /\ fl.can_continue /\ ~fl.attached /\ fl.break_next = dgFlags.break_next
        /\ ~fl.break_packet_in
    BY <1>1 DEF ResetFlags
  <2>2. Handler(fl, pk, TRUE) /\ dgReq.type # "ATTACH" /\ dgWatch' = FALSE /\ dgFilter' = {}
    BY <1>16, Zenon DEF ReqDetach
  <2>3. dgWatch' \in BOOLEAN /\ dgFilter' \subseteq DgPackets
    BY <2>2, Zenon
  <2>4. dgReq.pc = "dispatch"
    BY <2>2 DEF Handler
  <2>5. \A p \in DgPackets :
           /\ pk[p].pc = "wait continue" => ~fl.can_continue
           /\ pk[p].pc = "wait resume" => fl.stop_packet_in /\ pk[p].n = 0
    BY <1>2
  <2> HIDE DEF fl, pk
  <2>6. pk \in Pkts
    BY <1>1 DEF pk
  <2>7. QED
    BY <1>3, <2>1, <2>2, <2>3, <2>4, <2>5, <2>6, DgHandled
<1>17. QED
  BY <1>4, <1>5, <1>7, <1>8, <1>9, <1>10, <1>12, <1>13, <1>14, <1>15, <1>16

\* The packet returns from its call; the others stay where they are.
LEMMA DgReturned ==
  ASSUME DgTypes, NEW p \in DgPackets, DgReturns(p)
  PROVE  /\ dgPkt' \in [DgPackets -> [pc : {"none", "call", "wait continue", "wait resume", "gone"},
                                      n : Nat]]
         /\ \A q \in DgPackets : dgPkt'[q].pc \in {"none", "gone"} \/ dgPkt'[q] = dgPkt[q]
<1> DEFINE pc == IF dgPkt[p].n = DgMaxUpdates + 1 THEN "gone" ELSE "none"
           n == dgPkt[p].n + 1
           after == [pc |-> pc, n |-> n]
<1>1. dgPkt \in [DgPackets -> [pc : {"none", "call", "wait continue", "wait resume", "gone"},
                              n : Nat]]
  BY DEF DgTypes
<1>2. pc \in {"none", "gone"} /\ n \in Nat
  <2>1. dgPkt[p].n \in Nat
    BY <1>1
  <2>2. QED
    BY <2>1
<1>3. dgPkt' = [dgPkt EXCEPT ![p] = after]
  BY DEF DgReturns
<1> HIDE DEF pc, n
<1>4. /\ after \in [pc : {"none", "call", "wait continue", "wait resume", "gone"}, n : Nat]
      /\ after.pc \in {"none", "gone"}
  BY <1>2
<1> HIDE DEF after
<1>5. QED
  BY <1>1, <1>3, <1>4

\* A packet calls, waits, or goes on with its call: DgInv stays.
LEMMA DgPacketMoves ==
  ASSUME DgInv, NEW p \in DgPackets, DgCall(p) \/ DgWait(p) \/ PacketOut(p)
  PROVE  DgInv'
<1> DEFINE Pcs == {"none", "call", "wait continue", "wait resume", "gone"}
<1>1. dgPkt \in [DgPackets -> [pc : Pcs, n : Nat]] /\ DgMaxUpdates \in Nat /\ NobodyAsleep
  BY DgAssumption DEF DgInv, DgTypes
<1>2. /\ UNCHANGED <<dgFlags, dgWatch, dgFilter, dgReply, dgReq, dgFault, dgCount>>
      /\ DOMAIN dgRegs' \subseteq DgPackets
  BY DEF DgInv, DgTypes, DgTypeOK, DgCall, DgWait, PacketOut
<1>3. dgPkt' \in [DgPackets -> [pc : Pcs, n : Nat]] /\ NobodyAsleep'
  <2>1. CASE DgCall(p)
    BY <1>1, <1>2, <2>1 DEF DgCall, NobodyAsleep
  <2>2. CASE DgWait(p)
    BY <1>1, <1>2, <2>2, ZenonT(40) DEF DgWait, NobodyAsleep
  <2>3. CASE PacketOut(p)
    <3>1. DgReturns(p) /\ DgTypes
      BY <2>3 DEF PacketOut, DgInv
    <3>2. QED
      BY <1>1, <1>2, <3>1, DgReturned DEF NobodyAsleep
  <2>4. QED
    BY <2>1, <2>2, <2>3
<1>4. DgTypes'
  BY <1>2, <1>3 DEF DgInv, DgTypes, DgTypeOK
<1>5. dgCount'.changes = 0 => InStep'
  BY <1>2 DEF DgInv, InStep
<1>6. QED
  BY <1>3, <1>4, <1>5 DEF DgInv

\* An event of a packet breaks only while the request thread waits for it.
LEMMA DgPacketBreaks ==
  ASSUME DgInv, NEW p \in DgPackets, PacketIn(p) \/ NotifyUpdate(p)
  PROVE  DgInv'
<1> DEFINE Pcs == {"none", "call", "wait continue", "wait resume", "gone"}
           Flags == [can_continue : BOOLEAN, attached : BOOLEAN, break_next : BOOLEAN,
                     break_packet_in : BOOLEAN, stop_packet_in : BOOLEAN]
           stopped == [dgFlags EXCEPT !.can_continue = FALSE, !.break_next = FALSE]
<1>1. /\ dgPkt \in [DgPackets -> [pc : Pcs, n : Nat]] /\ DgMaxUpdates \in Nat /\ NobodyAsleep
      /\ dgFlags \in Flags
  BY DgAssumption DEF DgInv, DgTypes
<1>2. /\ UNCHANGED <<dgWatch, dgFilter, dgReq, dgCount>> /\ dgFlags.can_continue
      /\ DOMAIN dgRegs' \subseteq DgPackets /\ DgReturns(p)
  BY DEF DgInv, DgTypes, DgTypeOK, PacketIn, NotifyUpdate
<1>3. \/ UNCHANGED <<dgFlags, dgReply, dgFault>>
      \/ /\ dgFlags.break_next \/ dgFlags.break_packet_in \/ dgWatch
         /\ dgFlags' = stopped /\ SendReply
  <2>1. CASE PacketIn(p)
    BY <2>1, Zenon DEF PacketIn, DgBreak
  <2>2. CASE NotifyUpdate(p)
    BY <2>2, Zenon DEF NotifyUpdate, DgBreak
  <2>3. QED
    BY <2>1, <2>2
<1>4. /\ dgPkt' \in [DgPackets -> [pc : Pcs, n : Nat]]
      /\ \A q \in DgPackets : dgPkt'[q].pc \in {"none", "gone"} \/ dgPkt'[q] = dgPkt[q]
  BY <1>2, DgReturned DEF DgInv
<1>5. CASE UNCHANGED <<dgFlags, dgReply, dgFault>>
  <2>1. DgTypes'
    BY <1>2, <1>4, <1>5 DEF DgInv, DgTypes, DgTypeOK
  <2>2. dgCount'.changes = 0 => InStep'
    BY <1>2, <1>5 DEF DgInv, InStep
  <2>3. NobodyAsleep'
    BY <1>1, <1>4, <1>5 DEF NobodyAsleep
  <2>4. QED
    BY <2>1, <2>2, <2>3 DEF DgInv
<1>6. CASE /\ dgFlags.break_next \/ dgFlags.break_packet_in \/ dgWatch
           /\ dgFlags' = stopped /\ SendReply
  <2>1. /\ stopped \in Flags /\ ~stopped.can_continue /\ ~stopped.break_next
        /\ stopped.attached = dgFlags.attached /\ stopped.stop_packet_in = dgFlags.stop_packet_in
    BY <1>1
  <2>2. dgReply' = TRUE /\ dgFault' = (dgFault \/ dgReply) /\ dgFlags' = stopped
    BY <1>6 DEF SendReply
  <2>3. dgReply' \in BOOLEAN /\ dgFault' \in BOOLEAN /\ dgReply'
    BY <2>2, Zenon DEF DgInv, DgTypes
  <2> HIDE DEF stopped
  <2>4. DgTypes'
    BY <1>2, <1>4, <2>1, <2>2, <2>3 DEF DgInv, DgTypes, DgTypeOK
  <2>5. dgCount'.changes = 0 => InStep'
    BY <1>2, <1>6, <2>1, <2>2, <2>3 DEF DgInv, InStep, DgTypes
  <2>6. NobodyAsleep'
    BY <1>1, <1>4, <2>1, <2>2 DEF NobodyAsleep
  <2>7. QED
    BY <2>4, <2>5, <2>6 DEF DgInv
<1>7. QED
  BY <1>3, <1>5, <1>6

\* A change of configuration wakes nobody, and finds nobody who sleeps until
\* packets may come in.
LEMMA DgConfigChange == ASSUME DgInv, ConfigChange PROVE DgInv'
<1> DEFINE flags == ResetFlags(dgFlags)
<1>1. /\ flags \in [can_continue : BOOLEAN, attached : BOOLEAN, break_next : BOOLEAN,
                    break_packet_in : BOOLEAN, stop_packet_in : BOOLEAN]
      /\ flags.can_continue = dgFlags.can_continue
  BY DEF DgInv, DgTypes, ResetFlags
<1>2. /\ dgFlags' = flags /\ dgReply' = TRUE /\ dgFault' = (dgFault \/ dgReply)
      /\ dgWatch' = FALSE /\ dgFilter' = {} /\ UNCHANGED <<dgRegs, dgReq, dgPkt>>
      /\ dgCount' = [dgCount EXCEPT !.changes = @ + 1]
      /\ \A p \in DgPackets : NoPhv(p)
  BY DEF ConfigChange, SendReply
<1>3. dgReply' \in BOOLEAN /\ dgFault' \in BOOLEAN /\ dgWatch' \in BOOLEAN
  BY <1>2, Zenon DEF DgInv, DgTypes
<1> HIDE DEF flags
<1>4. dgCount' \in [requests : Nat, changes : Nat] /\ dgCount'.changes # 0
  <2> DEFINE n == dgCount.changes + 1
  <2>1. dgCount \in [requests : Nat, changes : Nat] /\ n \in Nat /\ n # 0
    <3>1. dgCount \in [requests : Nat, changes : Nat] /\ dgCount.changes \in Nat
      BY DEF DgInv, DgTypes
    <3>2. QED
      BY <3>1
  <2>2. dgCount' = [dgCount EXCEPT !.changes = n]
    BY <1>2
  <2> HIDE DEF n
  <2>3. QED
    BY <2>1, <2>2
<1>5. DgTypes'
  BY <1>1, <1>2, <1>3, <1>4 DEF DgInv, DgTypes, DgTypeOK
<1>6. NobodyAsleep'
  <2> SUFFICES ASSUME NEW p \in DgPackets
               PROVE  /\ dgPkt[p].pc = "wait continue" => ~flags.can_continue
                      /\ dgPkt[p].pc # "wait resume"
    BY <1>2 DEF NobodyAsleep
  <2>1. NoPhv(p) /\ DgMaxUpdates \in Nat
    BY <1>2, DgAssumption
  <2>2. dgPkt[p].pc = "wait resume" => dgPkt[p].n = 0
    BY DEF DgInv, NobodyAsleep
  <2>3. dgPkt[p].pc # "wait resume"
    <3>1. CASE dgPkt[p].pc = "none"
      BY <3>1
    <3>2. CASE dgPkt[p].n > DgMaxUpdates
      <4>1. dgPkt[p].n # 0
        BY <2>1, <3>2
      <4>2. QED
        BY <2>2, <4>1
    <3>3. QED
      BY <2>1, <3>1, <3>2 DEF NoPhv
  <2>4. QED
    BY <1>1, <2>3 DEF DgInv, NobodyAsleep
<1>7. QED
  BY <1>4, <1>5, <1>6 DEF DgInv

\* The request thread takes a request, sends a reply or gives up waiting for one.
LEMMA DgThread ==
  ASSUME DgInv, (\E type \in DgRequests : RequestIn(type)) \/ SendToClient \/ KeepAlive
  PROVE  DgInv'
<1>1. ASSUME NEW type \in DgRequests, RequestIn(type) PROVE DgInv'
  <2>1. /\ dgReply' = FALSE /\ dgReq' = [pc |-> "dispatch", type |-> type] /\ dgReq.pc = "recv"
        /\ type = "ATTACH" \/ dgFlags.attached
        /\ dgCount' = [dgCount EXCEPT !.requests = @ + 1]
        /\ UNCHANGED <<dgFlags, dgWatch, dgFilter, dgRegs, dgPkt, dgFault>>
    BY <1>1 DEF RequestIn
  <2>2. dgReply' \in BOOLEAN /\ ~dgReply'
    BY <2>1, Zenon
  <2>3. dgCount' \in [requests : Nat, changes : Nat] /\ dgCount'.changes = dgCount.changes
    <3> DEFINE n == dgCount.requests + 1
    <3>1. dgCount \in [requests : Nat, changes : Nat] /\ n \in Nat
      <4>1. dgCount \in [requests : Nat, changes : Nat] /\ dgCount.requests \in Nat
        BY DEF DgInv, DgTypes
      <4>2. QED
        BY <4>1
    <3>2. dgCount' = [dgCount EXCEPT !.requests = n]
      BY <2>1
    <3> HIDE DEF n
    <3>3. QED
      BY <3>1, <3>2
  <2>4. DgTypes'
    BY <2>1, <2>2, <2>3 DEF DgInv, DgTypes, DgTypeOK
  <2>5. dgCount'.changes = 0 => InStep'
    BY <2>1, <2>2, <2>3 DEF DgInv, InStep
  <2>6. NobodyAsleep'
    BY <2>1 DEF DgInv, NobodyAsleep
  <2>7. QED
    BY <2>4, <2>5, <2>6 DEF DgInv
<1>2. CASE SendToClient
  <2>1. DgTypes'
    BY <1>2 DEF DgInv, DgTypes, DgTypeOK, SendToClient
  <2>2. dgCount'.changes = 0 => InStep'
    BY <1>2 DEF DgInv, InStep, SendToClient
  <2>3. NobodyAsleep'
    BY <1>2 DEF DgInv, NobodyAsleep, SendToClient
  <2>4. QED
    BY <2>1, <2>2, <2>3 DEF DgInv
<1>3. CASE KeepAlive
  <2> DEFINE stopped == [dgFlags EXCEPT !.can_continue = FALSE, !.break_next = FALSE]
  <2>1. /\ stopped \in [can_continue : BOOLEAN, attached : BOOLEAN, break_next : BOOLEAN,
                        break_packet_in : BOOLEAN, stop_packet_in : BOOLEAN]
        /\ ~stopped.can_continue /\ ~stopped.break_next
        /\ stopped.attached = dgFlags.attached /\ stopped.stop_packet_in = dgFlags.stop_packet_in
        /\ stopped.break_packet_in = dgFlags.break_packet_in
    BY DEF DgInv, DgTypes
  <2>2. /\ dgFlags' = stopped /\ dgReply' = TRUE /\ dgFault' = (dgFault \/ dgReply)
        /\ dgReq.pc = "reply" /\ ~dgReply
        /\ UNCHANGED <<dgWatch, dgFilter, dgRegs, dgReq, dgPkt, dgCount>>
    BY <1>3 DEF KeepAlive, SendReply
  <2>3. dgReply' \in BOOLEAN /\ dgFault' \in BOOLEAN /\ dgReply'
    BY <2>2, Zenon DEF DgInv, DgTypes
  <2> HIDE DEF stopped
  <2>4. DgTypes'
    BY <2>1, <2>2, <2>3 DEF DgInv, DgTypes, DgTypeOK
  <2>5. dgCount'.changes = 0 => InStep'
    BY <2>1, <2>2, <2>3 DEF DgInv, InStep, DgTypes
  <2>6. NobodyAsleep'
    BY <2>1, <2>2 DEF DgInv, NobodyAsleep
  <2>7. QED
    BY <2>4, <2>5, <2>6 DEF DgInv
<1>4. QED
  BY <1>1, <1>2, <1>3

\* The debugger's invariant: without a client nothing can break; with one, as
\* long as the configuration has not changed, the switch runs only while the
\* request thread waits for the event that will be its reply; and whoever
\* sleeps has something to wait for (debugger.cpp).
THEOREM DebuggerInvariant == DgSpec => []DgInv
<1>1. DgInit => DgInv
  <2> SUFFICES ASSUME DgInit PROVE DgInv
    OBVIOUS
  <2>1. dgWatch \in BOOLEAN /\ dgReply \in BOOLEAN /\ dgFault \in BOOLEAN /\ dgRegs = <<>>
    BY Zenon DEF DgInit
  <2>2. DOMAIN dgRegs \subseteq DgPackets
    BY <2>1
  <2>3. DgTypes
    BY <2>1, <2>2 DEF DgInit, DgTypes, DgTypeOK
  <2>4. InStep /\ NobodyAsleep
    BY DEF DgInit, InStep, NobodyAsleep
  <2>5. QED
    BY <2>3, <2>4 DEF DgInv
<1>2. DgInv /\ [DgNext]_dgVars => DgInv'
  <2> SUFFICES ASSUME DgInv, [DgNext]_dgVars PROVE DgInv'
    OBVIOUS
  <2>1. CASE UNCHANGED dgVars
    BY <2>1, ZenonT(40) DEF dgVars, DgInv, DgTypes, DgTypeOK, InStep, NobodyAsleep
  <2>2. ASSUME NEW p \in DgPackets,
               DgCall(p) \/ DgWait(p) \/ PacketIn(p) \/ NotifyUpdate(p) \/ PacketOut(p)
        PROVE  DgInv'
    BY <2>2, DgPacketMoves, DgPacketBreaks
  <2>3. CASE DgNext
    BY <2>2, <2>3, DgConfigChange, DgThread, DgServe DEF DgNext
  <2>4. QED
    BY <2>1, <2>3
<1>3. QED
  BY <1>1, <1>2, PTL DEF DgSpec

\* The client and the packet threads keep in step: as long as the configuration
\* has not changed no reply is overwritten and an attached client that is not
\* waiting has stopped the switch; and no packet sleeps through a wake-up
\* (debugger.cpp), for any number of packets, requests and updates.
THEOREM DebuggerIsSound == DgSpec => []DebuggerSound
<1>1. DgInv => DebuggerSound
  <2> SUFFICES ASSUME DgInv PROVE DebuggerSound
    OBVIOUS
  <2>1. DgTypeOK
    BY DEF DgInv, DgTypes
  <2>2. OneReplyPerRequest
    BY DEF DgInv, InStep, NobodyAsleep, OneReplyPerRequest
  <2>3. QED
    BY <2>1, <2>2 DEF DebuggerSound
<1>2. QED
  BY <1>1, DebuggerInvariant, PTL

-----------------------------------------------------------------------------
(* The learning engine: its filter, its unacknowledged buffers and the     *)
(* message it sends agree.  FilterInv is about the filter and the buffers  *)
(* the client has not acknowledged, MessageInv about the transmit thread,  *)
(* which reads buffer_id and buffer_tmp without the mutex.                 *)

-----------------------------------------------------------------------------
(* One unacknowledged buffer.                                              *)

\* A buffer record, or the empty one that AddSample starts from.
BufferRecs == [buffer : Seq(Samples), unacked_count : Nat, freed : SUBSET Nat]

\* The samples of a buffer are finitely many.
LEMMA UnackedFinite ==
  ASSUME NEW old \in BufferRecs
  PROVE  /\ IsFiniteSet(Unacked(old)) /\ Cardinality(Unacked(old)) \in Nat
         /\ Unacked(old) \subseteq Samples
<1>1. Unacked(old) \subseteq Samples
  BY DEF BufferRecs, Unacked, Open
<1>2. QED
  BY <1>1, LearnAssumption, FS_Subset, FS_CardinalityType

\* What is open in a buffer that has got a new sample s.
LEMMA AppendOpens ==
  ASSUME NEW old \in BufferRecs, NEW s \in Samples, NEW rec,
         rec.buffer = Append(old.buffer, s), rec.freed = old.freed,
         rec.unacked_count = old.unacked_count + 1,
         old.freed \subseteq DOMAIN old.buffer, s \notin Unacked(old),
         \A i, j \in Open(old) : old.buffer[i] = old.buffer[j] => i = j,
         old.unacked_count = Cardinality(Unacked(old))
  PROVE  /\ rec.freed \subseteq DOMAIN rec.buffer
         /\ Unacked(rec) = Unacked(old) \cup {s}
         /\ \A i, j \in Open(rec) : rec.buffer[i] = rec.buffer[j] => i = j
         /\ rec.unacked_count = Cardinality(Unacked(rec))
<1> DEFINE q == old.buffer
           n == Len(q)
<1>1. q \in Seq(Samples) /\ n \in Nat /\ DOMAIN q = 1..n /\ old.freed \subseteq 1..n
  BY DEF BufferRecs
<1>2. rec.buffer = Append(q, s) /\ rec.freed = old.freed /\ rec.unacked_count = old.unacked_count + 1
  OBVIOUS
<1>q. old.buffer = q
  OBVIOUS
<1> HIDE DEF q
<1>3. DOMAIN rec.buffer = 1..n+1 /\ rec.buffer[n+1] = s /\ \A i \in 1..n : rec.buffer[i] = q[i]
  BY <1>1, <1>2
<1> HIDE DEF n
<1>4. Open(rec) = Open(old) \cup {n + 1} /\ Open(old) \subseteq 1..n /\ n + 1 \notin Open(old)
  BY <1>1, <1>2, <1>3, <1>q DEF Open
<1>5. rec.freed \subseteq DOMAIN rec.buffer
  BY <1>1, <1>2, <1>3
<1>6. \A i \in Open(old) : rec.buffer[i] = q[i] /\ q[i] \in Unacked(old)
  BY <1>3, <1>4, <1>q DEF Unacked
<1>7. Unacked(rec) = Unacked(old) \cup {s}
  <2>1. Unacked(rec) = {rec.buffer[i] : i \in Open(old) \cup {n + 1}}
    BY <1>4 DEF Unacked
  <2>2. QED
    <3>1. ASSUME NEW x \in Unacked(rec) PROVE x \in Unacked(old) \cup {s}
      <4>1. PICK i \in Open(old) \cup {n + 1} : x = rec.buffer[i]
        BY <2>1
      <4>2. QED
        BY <1>3, <1>6, <4>1
    <3>2. ASSUME NEW x \in Unacked(old) PROVE x \in Unacked(rec)
      <4>1. PICK i \in Open(old) : x = q[i]
        BY <1>q DEF Unacked
      <4>2. QED
        BY <1>6, <2>1, <4>1
    <3>3. s \in Unacked(rec)
      BY <1>3, <2>1
    <3>4. QED
      BY <3>1, <3>2, <3>3
<1>8. \A i, j \in Open(rec) : rec.buffer[i] = rec.buffer[j] => i = j
  <2> SUFFICES ASSUME NEW i \in Open(rec), NEW j \in Open(rec), rec.buffer[i] = rec.buffer[j]
               PROVE  i = j
    OBVIOUS
  <2>1. CASE i \in Open(old) /\ j \in Open(old)
    <3>1. old.buffer[i] = old.buffer[j]
      BY <1>6, <1>q, <2>1
    <3>2. QED
      BY <2>1, <3>1
  <2>2. CASE i \in Open(old) /\ j = n + 1
    <3>1. rec.buffer[j] = s /\ rec.buffer[i] \in Unacked(old)
      BY <1>3, <1>6, <2>2
    <3>2. QED
      BY <3>1
  <2>3. CASE i = n + 1 /\ j \in Open(old)
    BY <1>3, <1>6, <2>3
  <2>4. QED
    BY <1>4, <2>1, <2>2, <2>3
<1>9. Cardinality(Unacked(rec)) = Cardinality(Unacked(old)) + 1
  BY <1>7, UnackedFinite, FS_AddElement, ZenonT(40)
<1>10. QED
  BY <1>2, <1>5, <1>7, <1>8, <1>9

\* Sample i of a buffer is acknowledged for the first time.
LEMMA AckCloses ==
  ASSUME NEW old \in OldBuffers, NEW i \in Open(old), NEW rec \in BufferRecs,
         rec.buffer = old.buffer, rec.freed = old.freed \cup {i},
         rec.unacked_count = old.unacked_count - 1,
         old.freed \subseteq DOMAIN old.buffer,
         \A k, j \in Open(old) : old.buffer[k] = old.buffer[j] => k = j,
         old.unacked_count = Cardinality(Unacked(old))
  PROVE  /\ rec.freed \subseteq DOMAIN rec.buffer
         /\ old.buffer[i] \in Unacked(old)
         /\ Unacked(rec) = Unacked(old) \ {old.buffer[i]}
         /\ \A k, j \in Open(rec) : rec.buffer[k] = rec.buffer[j] => k = j
         /\ rec.unacked_count = Cardinality(Unacked(rec))
         /\ rec.unacked_count = 0 => Unacked(rec) = {}
<1>0. old \in BufferRecs
  BY DEF OldBuffers, BufferRecs
<1>1. Open(rec) = Open(old) \ {i}
  BY DEF Open
<1>2. old.buffer[i] \in Unacked(old)
  BY DEF Unacked
<1>3. Unacked(rec) = Unacked(old) \ {old.buffer[i]}
  <2>1. Unacked(rec) = {old.buffer[k] : k \in Open(old) \ {i}}
    BY <1>1 DEF Unacked
  <2>2. QED
    BY <2>1 DEF Unacked
<1>4. Cardinality(Unacked(rec)) = Cardinality(Unacked(old)) - 1
  <2>1. IsFiniteSet(Unacked(old))
    BY <1>0, UnackedFinite
  <2> DEFINE U == Unacked(old)
             x == old.buffer[i]
  <2>2. IsFiniteSet(U) /\ x \in U /\ Unacked(rec) = U \ {x}
    BY <1>2, <1>3, <2>1
  <2> HIDE DEF U, x
  <2>3. Cardinality(U \ {x}) = Cardinality(U) - 1
    BY <2>2, FS_RemoveElement
  <2>4. QED
    BY <2>2, <2>3 DEF U
<1>5. Cardinality(Unacked(rec)) = 0 => Unacked(rec) = {}
  BY UnackedFinite, FS_EmptySet
<1>6. QED
  BY <1>1, <1>2, <1>3, <1>4, <1>5 DEF Open

-----------------------------------------------------------------------------
(* The filter and the buffers.                                             *)

\* FilterInv of a given filter and given buffers.
BufferOK(old) ==
  /\ old.freed \subseteq DOMAIN old.buffer
  /\ \A i, j \in Open(old) : old.buffer[i] = old.buffer[j] => i = j
  /\ old.unacked_count = Cardinality(Unacked(old))
FilterOK(flt, ob) ==
  /\ \A x : x \in flt <=> \E b \in DOMAIN ob : x \in Unacked(ob[b])
  /\ \A b, c \in DOMAIN ob : b # c => \A x : ~(x \in Unacked(ob[b]) /\ x \in Unacked(ob[c]))
  /\ \A b \in DOMAIN ob : BufferOK(ob[b])

\* FilterInv as a predicate of the values it depends on.
LEMMA FilterIs ==
  /\ FilterInv <=> (~reacked => FilterOK(filter, old_buffers))
  /\ FilterInv' <=> (~reacked' => FilterOK(filter', old_buffers'))
<1>1. ASSUME NEW flt, NEW ob
      PROVE  (flt = UNION {Unacked(ob[b]) : b \in DOMAIN ob})
               <=> \A x : x \in flt <=> \E b \in DOMAIN ob : x \in Unacked(ob[b])
  OBVIOUS
<1>2. ASSUME NEW ob
      PROVE  (\A b, c \in DOMAIN ob : b # c => Unacked(ob[b]) \cap Unacked(ob[c]) = {})
               <=> \A b, c \in DOMAIN ob : b # c =>
                     \A x : ~(x \in Unacked(ob[b]) /\ x \in Unacked(ob[c]))
  OBVIOUS
<1>3. (filter = UNION {Unacked(old_buffers[b]) : b \in DOMAIN old_buffers})
        <=> \A x : x \in filter <=> \E b \in DOMAIN old_buffers : x \in Unacked(old_buffers[b])
  BY <1>1
<1>4. (filter' = UNION {Unacked(old_buffers'[b]) : b \in DOMAIN old_buffers'})
        <=> \A x : x \in filter' <=> \E b \in DOMAIN old_buffers' : x \in Unacked(old_buffers'[b])
  BY <1>1
<1>5. FilterInv <=> (~reacked => FilterOK(filter, old_buffers))
  BY <1>2, <1>3 DEF FilterInv, FilterOK, BufferOK
<1>6. FilterInv' <=> (~reacked' => FilterOK(filter', old_buffers'))
  BY <1>2, <1>4 DEF FilterInv, FilterOK, BufferOK, Unacked, Open
<1>7. QED
  BY <1>5, <1>6

\* Sample s makes buffer b0, before old, into rec; the buffers ob become ob2.
Added(flt, ob, s, b0, old, rec, ob2) ==
  /\ s \in Samples /\ s \notin flt /\ old \in BufferRecs
  /\ ob \in [DOMAIN ob -> OldBuffers] /\ FilterOK(flt, ob)
  /\ b0 \in DOMAIN ob => old = ob[b0]
  /\ b0 \notin DOMAIN ob => old.buffer = <<>> /\ old.unacked_count = 0 /\ old.freed = {}
  /\ rec.buffer = Append(old.buffer, s) /\ rec.freed = old.freed
  /\ rec.unacked_count = old.unacked_count + 1
  /\ DOMAIN ob2 = DOMAIN ob \cup {b0} /\ ob2[b0] = rec
  /\ \A b \in DOMAIN ob : b # b0 => ob2[b] = ob[b]

\* The filter when a sample is added to buffer b0.
LEMMA FilterAdd ==
  ASSUME NEW flt, NEW ob, NEW s, NEW b0, NEW old, NEW rec, NEW ob2,
         Added(flt, ob, s, b0, old, rec, ob2)
  PROVE  FilterOK(flt \cup {s}, ob2)
<1> USE DEF Added
<1>1. BufferOK(old) /\ s \notin Unacked(old)
      /\ \A x \in Unacked(old) : x \in flt /\ b0 \in DOMAIN ob /\ x \in Unacked(ob[b0])
  <2>1. CASE b0 \in DOMAIN ob
    BY <2>1 DEF FilterOK
  <2>2. CASE b0 \notin DOMAIN ob
    <3>1. old.buffer = <<>> /\ old.unacked_count = 0 /\ old.freed = {}
      BY <2>2
    <3>2. Open(old) = {} /\ Unacked(old) = {}
      BY <3>1 DEF Open, Unacked
    <3>3. QED
      BY <3>1, <3>2, FS_EmptySet DEF BufferOK
  <2>3. QED
    BY <2>1, <2>2
<1>2. BufferOK(rec) /\ Unacked(rec) = Unacked(old) \cup {s}
  <2>1. /\ old.freed \subseteq DOMAIN old.buffer /\ s \notin Unacked(old)
        /\ \A i, j \in Open(old) : old.buffer[i] = old.buffer[j] => i = j
        /\ old.unacked_count = Cardinality(Unacked(old))
    BY <1>1 DEF BufferOK
  <2>2. /\ rec.buffer = Append(old.buffer, s) /\ rec.freed = old.freed
        /\ rec.unacked_count = old.unacked_count + 1
    OBVIOUS
  <2>3. /\ rec.freed \subseteq DOMAIN rec.buffer
        /\ Unacked(rec) = Unacked(old) \cup {s}
        /\ \A i, j \in Open(rec) : rec.buffer[i] = rec.buffer[j] => i = j
        /\ rec.unacked_count = Cardinality(Unacked(rec))
    BY ONLY <2>1, <2>2, AppendOpens, old \in BufferRecs, s \in Samples
  <2>4. QED
    BY ONLY <2>3 DEF BufferOK
<1>3. /\ DOMAIN ob2 = DOMAIN ob \cup {b0} /\ ob2[b0] = rec
      /\ \A b \in DOMAIN ob : b # b0 => ob2[b] = ob[b]
  OBVIOUS
<1>o. b0 \in DOMAIN ob => old = ob[b0]
  OBVIOUS
<1>4. ASSUME NEW x PROVE x \in flt \cup {s} <=> \E b \in DOMAIN ob2 : x \in Unacked(ob2[b])
  <2>1. ASSUME x \in flt PROVE \E b \in DOMAIN ob2 : x \in Unacked(ob2[b])
    <3>1. PICK b \in DOMAIN ob : x \in Unacked(ob[b])
      BY <2>1 DEF FilterOK
    <3>2. CASE b = b0
      BY <1>2, <1>3, <1>o, <3>1, <3>2
    <3>3. CASE b # b0
      BY <1>3, <3>1, <3>3
    <3>4. QED
      BY <3>2, <3>3
  <2>2. ASSUME x = s PROVE \E b \in DOMAIN ob2 : x \in Unacked(ob2[b])
    BY <1>2, <1>3, <2>2
  <2>3. ASSUME NEW b \in DOMAIN ob2, x \in Unacked(ob2[b]) PROVE x \in flt \cup {s}
    <3>1. CASE b = b0
      BY <1>1, <1>2, <1>3, <2>3, <3>1
    <3>2. CASE b # b0
      BY <1>3, <2>3, <3>2 DEF FilterOK
    <3>3. QED
      BY <3>1, <3>2
  <2>4. QED
    BY <2>1, <2>2, <2>3
<1>5. ASSUME NEW b \in DOMAIN ob, b # b0, NEW x \in Unacked(ob[b]) PROVE x \notin Unacked(rec)
  BY <1>1, <1>2, <1>5 DEF FilterOK
<1>6. ASSUME NEW b \in DOMAIN ob2, NEW c \in DOMAIN ob2, b # c, NEW x,
             x \in Unacked(ob2[b]), x \in Unacked(ob2[c])
      PROVE  FALSE
  <2>1. CASE b = b0
    BY <1>3, <1>5, <1>6, <2>1
  <2>2. CASE c = b0
    BY <1>3, <1>5, <1>6, <2>2
  <2>3. CASE b # b0 /\ c # b0
    BY <1>3, <1>6, <2>3 DEF FilterOK
  <2>4. QED
    BY <2>1, <2>2, <2>3
<1>7. ASSUME NEW b \in DOMAIN ob2 PROVE BufferOK(ob2[b])
  BY <1>2, <1>3 DEF FilterOK
<1>8. \A b, c \in DOMAIN ob2 : b # c => \A x : ~(x \in Unacked(ob2[b]) /\ x \in Unacked(ob2[c]))
  BY ONLY <1>6
<1>9. /\ \A x : x \in flt \cup {s} <=> \E b \in DOMAIN ob2 : x \in Unacked(ob2[b])
      /\ \A b \in DOMAIN ob2 : BufferOK(ob2[b])
  BY ONLY <1>4, <1>7
<1>10. QED
  BY ONLY <1>8, <1>9 DEF FilterOK

\* The ack of sample i makes buffer b0, before old, into rec; when it was the
\* last one the buffer is gone.
Acked(flt, ob, b0, old, i, rec, ob2) ==
  /\ FilterOK(flt, ob) /\ b0 \in DOMAIN ob /\ old = ob[b0] /\ old \in OldBuffers
  /\ i \in Open(old) /\ rec \in BufferRecs
  /\ rec.buffer = old.buffer /\ rec.freed = old.freed \cup {i}
  /\ rec.unacked_count = old.unacked_count - 1
  /\ \/ rec.unacked_count = 0 /\ DOMAIN ob2 = DOMAIN ob \ {b0}
     \/ rec.unacked_count # 0 /\ DOMAIN ob2 = DOMAIN ob /\ ob2[b0] = rec
  /\ \A b \in DOMAIN ob : b # b0 => ob2[b] = ob[b]

\* The filter when sample i of buffer b0 is acknowledged for the first time.
LEMMA FilterAck ==
  ASSUME NEW flt, NEW ob, NEW b0, NEW old, NEW i, NEW rec, NEW ob2,
         Acked(flt, ob, b0, old, i, rec, ob2)
  PROVE  FilterOK(flt \ {old.buffer[i]}, ob2)
<1> USE DEF Acked
<1>0. BufferOK(old)
  BY DEF FilterOK
<1> DEFINE s == old.buffer[i]
<1>1. /\ BufferOK(rec) /\ s \in Unacked(old) /\ Unacked(rec) = Unacked(old) \ {s}
      /\ rec.unacked_count = 0 => Unacked(rec) = {}
  BY <1>0, AckCloses DEF BufferOK
<1>o. Unacked(old) = Unacked(ob[b0])
  OBVIOUS
<1> HIDE DEF s
<1>2. DOMAIN ob2 \subseteq DOMAIN ob /\ \A b \in DOMAIN ob2 : ob2[b] = IF b = b0 THEN rec ELSE ob[b]
  OBVIOUS
<1>3. \A b \in DOMAIN ob2 : Unacked(ob2[b]) \subseteq Unacked(ob[b])
  BY <1>1, <1>2, <1>o
<1>4. ASSUME NEW x PROVE x \in flt \ {s} <=> \E b \in DOMAIN ob2 : x \in Unacked(ob2[b])
  <2>1. ASSUME x \in flt, x # s PROVE \E b \in DOMAIN ob2 : x \in Unacked(ob2[b])
    <3>1. PICK b \in DOMAIN ob : x \in Unacked(ob[b])
      BY <2>1 DEF FilterOK
    <3>2. CASE b = b0
      <4>1. x \in Unacked(rec)
        BY <1>1, <1>o, <2>1, <3>1, <3>2
      <4>2. b0 \in DOMAIN ob2 /\ ob2[b0] = rec
        BY <1>1, <4>1
      <4>3. QED
        BY <4>1, <4>2
    <3>3. CASE b # b0
      <4>1. b \in DOMAIN ob2 /\ ob2[b] = ob[b]
        BY <3>3
      <4>2. QED
        BY <3>1, <4>1
    <3>4. QED
      BY <3>2, <3>3
  <2>2. ASSUME NEW b \in DOMAIN ob2, x \in Unacked(ob2[b]) PROVE x \in flt /\ x # s
    <3>1. b \in DOMAIN ob /\ x \in Unacked(ob[b])
      BY <1>2, <1>3, <2>2
    <3>2. x \in flt
      BY <3>1 DEF FilterOK
    <3>3. CASE b = b0
      BY <1>1, <1>2, <2>2, <3>2, <3>3
    <3>4. CASE b # b0
      BY <1>1, <1>o, <3>1, <3>2, <3>4 DEF FilterOK
    <3>5. QED
      BY <3>3, <3>4
  <2>3. QED
    BY <2>1, <2>2
<1>5. \A b, c \in DOMAIN ob2 : b # c => \A x : ~(x \in Unacked(ob2[b]) /\ x \in Unacked(ob2[c]))
  BY <1>2, <1>3 DEF FilterOK
<1>6. \A b \in DOMAIN ob2 : BufferOK(ob2[b])
  BY <1>1, <1>2 DEF FilterOK
<1>7. QED
  BY <1>4, <1>5, <1>6 DEF FilterOK, s

\* The filter when buffer b0 is acknowledged: the size tells whether it is all.
LEMMA FilterAckBuffer ==
  ASSUME NEW flt, flt \subseteq Samples, NEW ob, NEW b0 \in DOMAIN ob, ob[b0] \in OldBuffers, NEW ob2,
         FilterOK(flt, ob), NEW flt2,
         DOMAIN ob2 = DOMAIN ob \ {b0}, \A b \in DOMAIN ob2 : ob2[b] = ob[b],
         \/ ob[b0].unacked_count = Cardinality(flt) /\ flt2 = {}
         \/ flt2 = flt \ Unacked(ob[b0])
  PROVE  FilterOK(flt2, ob2)
<1> DEFINE U == Unacked(ob[b0])
<1>1. U \subseteq flt /\ ob[b0].unacked_count = Cardinality(U) /\ IsFiniteSet(flt)
  BY LearnAssumption, FS_Subset DEF FilterOK, BufferOK
<1>2. flt2 = flt \ U
  <2>1. CASE ob[b0].unacked_count = Cardinality(flt) /\ flt2 = {}
    <3> HIDE DEF U
    <3>1. Cardinality(flt) = Cardinality(U)
      BY <1>1, <2>1
    <3>2. flt = U
      BY <1>1, <3>1, FS_Subset
    <3>3. QED
      BY <2>1, <3>2
  <2>2. CASE flt2 = flt \ Unacked(ob[b0])
    BY <2>2
  <2>3. QED
    BY <2>1, <2>2
<1>3. DOMAIN ob2 = DOMAIN ob \ {b0} /\ \A b \in DOMAIN ob2 : ob2[b] = ob[b]
  OBVIOUS
<1>4. ASSUME NEW x PROVE x \in flt2 <=> \E b \in DOMAIN ob2 : x \in Unacked(ob2[b])
  <2>1. ASSUME x \in flt, x \notin U PROVE \E b \in DOMAIN ob2 : x \in Unacked(ob2[b])
    <3>1. PICK b \in DOMAIN ob : x \in Unacked(ob[b])
      BY <2>1 DEF FilterOK
    <3>2. b # b0
      BY <2>1, <3>1
    <3>3. QED
      BY <1>3, <3>1, <3>2
  <2>2. ASSUME NEW b \in DOMAIN ob2, x \in Unacked(ob2[b]) PROVE x \in flt /\ x \notin U
    BY <1>3, <2>2 DEF FilterOK
  <2>3. QED
    BY <1>2, <2>1, <2>2
<1>5. QED
  BY <1>3, <1>4 DEF FilterOK

-----------------------------------------------------------------------------
(* The message in flight.                                                  *)

\* MessageInv of given values of the variables.
MessageOK(ob, bid, tld, t, m, buf, tmp) ==
  /\ DOMAIN ob \subseteq 0..bid
  /\ \A b \in tld : b < bid
  /\ t \in {"send", "sent"} => tmp # <<>>
  /\ t = "sent" => m = [id |-> bid - 1, samples |-> tmp]
  /\ buf = IF bid \in DOMAIN ob THEN ob[bid].buffer ELSE <<>>
  /\ tmp # <<>> /\ bid - 1 \in DOMAIN ob => ob[bid - 1].buffer = tmp

\* MessageInv as a predicate of the values it depends on.
LEMMA MessageIs ==
  /\ MessageInv <=>
       (resets = 0 => MessageOK(old_buffers, buffer_id, told, tx, msg, buffer, buffer_tmp))
  /\ MessageInv' <=>
       (resets' = 0 => MessageOK(old_buffers', buffer_id', told', tx', msg', buffer', buffer_tmp'))
BY DEF MessageInv, MessageOK

\* The buffer is handed to the transmit thread under the next id.
LEMMA MessageSwap ==
  ASSUME NEW ob, NEW bid \in Nat, NEW tld, tld \subseteq Int, NEW t, NEW m, NEW s, NEW t2,
         MessageOK(ob, bid, tld, t, m, s, <<>>),
         t2 # "sent", t2 = "send" => s # <<>>
  PROVE  MessageOK(ob, bid + 1, tld, t2, m, <<>>, s)
<1>1. DOMAIN ob \subseteq 0..bid + 1 /\ bid + 1 \notin DOMAIN ob
  BY DEF MessageOK
<1>2. \A b \in tld : b < bid + 1
  BY DEF MessageOK
<1>3. bid \in DOMAIN ob => ob[bid].buffer = s
  BY DEF MessageOK
<1>4. (bid + 1) - 1 = bid
  OBVIOUS
<1>5. QED
  BY <1>1, <1>2, <1>3, <1>4 DEF MessageOK

\* A buffer is acknowledged, sample by sample or at once.
LEMMA MessageAck ==
  ASSUME NEW ob, NEW bid, NEW tld, NEW t, NEW m, NEW s, NEW tmp, NEW ob2, NEW b0 \in tld,
         bid \in Nat, tld \subseteq Int,
         MessageOK(ob, bid, tld, t, m, s, tmp),
         DOMAIN ob2 = DOMAIN ob \/ DOMAIN ob2 = DOMAIN ob \ {b0},
         \A b \in DOMAIN ob2 : ob2[b].buffer = ob[b].buffer
  PROVE  MessageOK(ob2, bid, tld, t, m, s, tmp)
<1>1. b0 # bid
  BY DEF MessageOK
<1>2. bid \in DOMAIN ob2 <=> bid \in DOMAIN ob
  BY <1>1
<1>3. QED
  BY <1>2 DEF MessageOK

-----------------------------------------------------------------------------
(* The steps.                                                              *)

\* The types, of the buffers and of the rest.
BuffersTyped(ob) == ob \in [DOMAIN ob -> OldBuffers] /\ DOMAIN ob \subseteq 0..MaxBuffers
RestTyped ==
  /\ buffer \in Seq(Samples) /\ buffer_tmp \in Seq(Samples)
  /\ buffer_id \in 0..MaxBuffers
  /\ max_samples \in MaxSamplesSet
  /\ with_timeout \in BOOLEAN /\ due \in BOOLEAN
  /\ filter \subseteq Samples
  /\ can_swap \subseteq LearnThreads /\ woken \subseteq LearnThreads
  /\ tx \in {"test", "wait", "timed", "send", "sent", "exited"}
  /\ msg \in [id : -1..MaxBuffers, samples : Seq(Samples)]
  /\ told \subseteq -1..MaxBuffers
  /\ resets \in 0..MaxResets
  /\ reacked \in BOOLEAN

\* LearnInv, part by part.
LEMMA LearnInvIs ==
  /\ LearnInv <=> RestTyped /\ BuffersTyped(old_buffers) /\ FilterInv /\ MessageInv
  /\ LearnInv' <=> RestTyped' /\ BuffersTyped(old_buffers') /\ FilterInv' /\ MessageInv'
<1>1. ASSUME NEW ob
      PROVE  ob \in [DOMAIN ob -> OldBuffers] /\ DOMAIN ob \subseteq 0..MaxBuffers
             <=> /\ ob \in [DOMAIN ob -> OldBuffers]
                 /\ \A b \in DOMAIN ob :
                      /\ b \in 0..MaxBuffers
                      /\ ob[b].buffer \in Seq(Samples)
                      /\ ob[b].unacked_count \in Nat
                      /\ ob[b].freed \subseteq Nat
  BY DEF OldBuffers
<1>2. LearnInv <=> RestTyped /\ BuffersTyped(old_buffers) /\ FilterInv /\ MessageInv
  BY <1>1 DEF LearnInv, LearnTypeOK, RestTyped, BuffersTyped
<1>3. LearnInv' <=> RestTyped' /\ BuffersTyped(old_buffers') /\ FilterInv' /\ MessageInv'
  BY <1>1 DEF LearnInv, LearnTypeOK, RestTyped, BuffersTyped, OldBuffers
<1>4. QED
  BY <1>2, <1>3

\* The variables that process_full_buffer changes keep their types.
ListTyped ==
  /\ buffer \in Seq(Samples) /\ buffer_tmp \in Seq(Samples)
  /\ buffer_id \in 0..MaxBuffers /\ due \in BOOLEAN
  /\ can_swap \subseteq LearnThreads
  /\ tx \in {"test", "wait", "timed", "send", "sent", "exited"}

\* process_full_buffer, whoever calls it
LEMMA ProcessKeeps ==
  ASSUME RestTyped, NEW t \in LearnThreads, NEW s \in Seq(Samples), buffer_id < MaxBuffers,
         ProcessFullBuffer(t, s), NEW ob
  PROVE  /\ ListTyped'
         /\ MessageOK(ob, buffer_id, told, tx, msg, s, buffer_tmp)
              => MessageOK(ob, buffer_id', told, tx', msg, buffer', buffer_tmp')
<1>0. buffer_id \in Nat /\ buffer_id + 1 \in 0..MaxBuffers /\ told \subseteq Int
  BY LearnAssumption DEF RestTyped
<1>1. CASE buffer_tmp # <<>>
  <2>1. buffer' = s /\ can_swap' = can_swap \cup {t} /\ UNCHANGED <<buffer_tmp, buffer_id, due, tx>>
    BY <1>1 DEF ProcessFullBuffer
  <2>2. QED
    BY <2>1 DEF RestTyped, ListTyped
<1>2. CASE buffer_tmp = <<>>
  <2>1. /\ buffer' = <<>> /\ buffer_tmp' = s /\ due' = FALSE /\ buffer_id' = buffer_id + 1
        /\ tx' = (IF tx \in {"wait", "timed"} THEN "test" ELSE tx) /\ can_swap' = can_swap
    BY <1>2 DEF ProcessFullBuffer, SwapBuffers, WakeTransmit
  <2>2. ListTyped'
    <3>0. <<>> \in Seq(Samples)
      OBVIOUS
    <3>1. buffer' \in Seq(Samples) /\ buffer_tmp' \in Seq(Samples) /\ due' \in BOOLEAN
      BY <2>1, <3>0
    <3>2. tx' \in {"test", "wait", "timed", "send", "sent", "exited"}
      BY <2>1 DEF RestTyped
    <3>3. buffer_id' \in 0..MaxBuffers /\ can_swap' \subseteq LearnThreads
      BY <1>0, <2>1 DEF RestTyped
    <3>4. QED
      BY <3>1, <3>2, <3>3 DEF ListTyped
  <2>3. ASSUME MessageOK(ob, buffer_id, told, tx, msg, s, buffer_tmp)
        PROVE  MessageOK(ob, buffer_id', told, tx', msg, buffer', buffer_tmp')
    <3>1. tx' # "send" /\ tx' # "sent"
      BY <1>2, <2>1, <2>3 DEF MessageOK
    <3>2. MessageOK(ob, buffer_id + 1, told, tx', msg, <<>>, s)
      BY <1>0, <1>2, <2>3, <3>1, MessageSwap
    <3>3. QED
      BY <2>1, <3>2
  <2>4. QED
    BY <2>2, <2>3
<1>3. QED
  BY <1>1, <1>2

\* A step that touches neither the filter nor the buffers.
LEMMA FilterSame ==
  ASSUME FilterInv, UNCHANGED <<filter, old_buffers, reacked>>
  PROVE  FilterInv'
BY FilterIs

\* A thread that waited in swap_buffers goes on.
LEMMA SwapWokenKeeps ==
  ASSUME LearnInv, NEW t \in LearnThreads, SwapWoken(t)
  PROVE  LearnInv'
<1>1. RestTyped /\ BuffersTyped(old_buffers) /\ FilterInv /\ MessageInv
  BY LearnInvIs
<1>2. /\ buffer_id < MaxBuffers /\ ProcessFullBuffer(t, buffer) /\ woken' = woken \ {t}
      /\ UNCHANGED <<max_samples, with_timeout, filter, old_buffers, msg, told, resets, reacked>>
  BY DEF SwapWoken
<1>3. buffer \in Seq(Samples)
  BY <1>1 DEF RestTyped
<1>4. /\ ListTyped'
      /\ MessageOK(old_buffers, buffer_id, told, tx, msg, buffer, buffer_tmp)
           => MessageOK(old_buffers, buffer_id', told, tx', msg, buffer', buffer_tmp')
  BY <1>1, <1>2, <1>3, ProcessKeeps
<1>5. RestTyped' /\ BuffersTyped(old_buffers')
  BY <1>1, <1>2, <1>4 DEF RestTyped, ListTyped
<1>6. MessageInv'
  BY <1>1, <1>2, <1>4, MessageIs
<1>7. QED
  BY <1>1, <1>2, <1>5, <1>6, FilterSame, LearnInvIs

\* set_max_samples may swap the buffers.
LEMMA SetMaxSamplesKeeps ==
  ASSUME LearnInv, NEW t \in RpcThreads, NEW n \in MaxSamplesSet, SetMaxSamples(t, n)
  PROVE  LearnInv'
<1>1. RestTyped /\ BuffersTyped(old_buffers) /\ FilterInv /\ MessageInv
  BY LearnInvIs
<1>2. /\ buffer_id < MaxBuffers /\ max_samples' = n
      /\ UNCHANGED <<with_timeout, filter, old_buffers, woken, msg, told, resets, reacked>>
  BY DEF SetMaxSamples
<1>3. buffer \in Seq(Samples) /\ t \in LearnThreads
  BY <1>1 DEF RestTyped, LearnThreads
<1>4. /\ ListTyped'
      /\ MessageOK(old_buffers, buffer_id, told, tx, msg, buffer, buffer_tmp)
           => MessageOK(old_buffers, buffer_id', told, tx', msg, buffer', buffer_tmp')
  <2>1. CASE ProcessFullBuffer(t, buffer)
    BY <1>1, <1>2, <1>3, <2>1, ProcessKeeps
  <2>2. CASE UNCHANGED <<buffer, buffer_tmp, buffer_id, due, tx, can_swap>>
    BY <1>1, <2>2 DEF RestTyped, ListTyped
  <2>3. QED
    BY <2>1, <2>2 DEF SetMaxSamples
<1>5. RestTyped' /\ BuffersTyped(old_buffers')
  BY <1>1, <1>2, <1>4 DEF RestTyped, ListTyped
<1>6. MessageInv'
  BY <1>1, <1>2, <1>4, MessageIs
<1>7. QED
  BY <1>1, <1>2, <1>5, <1>6, FilterSame, LearnInvIs

\* add_sample puts a sample in filter and buffer together.
LEMMA AddSampleKeeps ==
  ASSUME LearnInv, NEW s \in Samples, AddSample(s)
  PROVE  LearnInv'
<1> DEFINE grown == Append(buffer, s)
           old == IF buffer_id \in DOMAIN old_buffers THEN old_buffers[buffer_id]
                  ELSE [buffer |-> <<>>, unacked_count |-> 0, freed |-> {}]
           rec == [old EXCEPT !.buffer = Append(@, s), !.unacked_count = @ + 1]
<1>1. RestTyped /\ BuffersTyped(old_buffers) /\ FilterInv /\ MessageInv
  BY LearnInvIs
<1>2. /\ s \notin filter /\ buffer_id < MaxBuffers /\ filter' = filter \cup {s}
      /\ UNCHANGED <<max_samples, with_timeout, woken, msg, told, resets, reacked>>
      /\ old_buffers' = [b \in DOMAIN old_buffers \cup {buffer_id} |->
                          IF b = buffer_id THEN rec ELSE old_buffers[b]]
  BY DEF AddSample
<1>3. \/ buffer' = grown /\ due' = FALSE /\ WakeTransmit /\ UNCHANGED <<buffer_tmp, buffer_id, can_swap>>
      \/ ProcessFullBuffer(Learner, grown)
      \/ buffer' = grown /\ UNCHANGED <<due, tx, buffer_tmp, buffer_id, can_swap>>
  BY DEF AddSample
<1>4. grown \in Seq(Samples) /\ Learner \in LearnThreads /\ buffer_id \in 0..MaxBuffers
  BY <1>1 DEF RestTyped, LearnThreads
<1>5. old \in BufferRecs
  <2>1. CASE buffer_id \in DOMAIN old_buffers
    BY <1>1, <2>1 DEF BuffersTyped, OldBuffers, BufferRecs
  <2>2. CASE buffer_id \notin DOMAIN old_buffers
    BY <2>2 DEF BufferRecs
  <2>3. QED
    BY <2>1, <2>2
<1>6. rec = [old EXCEPT !.buffer = Append(@, s), !.unacked_count = @ + 1]
  OBVIOUS
<1>o. old = IF buffer_id \in DOMAIN old_buffers THEN old_buffers[buffer_id]
            ELSE [buffer |-> <<>>, unacked_count |-> 0, freed |-> {}]
  OBVIOUS
<1>g. grown = Append(buffer, s)
  OBVIOUS
<1> HIDE DEF old, rec, grown
<1>7. /\ rec \in OldBuffers /\ rec.buffer = Append(old.buffer, s) /\ rec.freed = old.freed
      /\ rec.unacked_count = old.unacked_count + 1
  <2> DEFINE x == Append(old.buffer, s)
             y == old.unacked_count + 1
  <2>1. old \in [buffer : Seq(Samples), unacked_count : Nat, freed : SUBSET Nat]
    BY <1>5 DEF BufferRecs
  <2>2. rec = [old EXCEPT !.buffer = x, !.unacked_count = y]
    BY <1>6, <2>1
  <2>3. x \in Seq(Samples) /\ y \in Nat \ {0}
    BY <2>1
  <2> HIDE DEF x, y
  <2>4. rec \in [buffer : Seq(Samples), unacked_count : Nat \ {0}, freed : SUBSET Nat]
    BY <2>1, <2>2, <2>3
  <2>5. rec.buffer = x /\ rec.unacked_count = y /\ rec.freed = old.freed
    BY <2>1, <2>2
  <2>6. QED
    BY <2>4, <2>5 DEF OldBuffers, x, y
<1>8. BuffersTyped(old_buffers')
  BY <1>1, <1>2, <1>4, <1>7 DEF BuffersTyped
<1>9. FilterInv'
  <2>1. ASSUME ~reacked PROVE FilterOK(filter', old_buffers')
    <3>1. FilterOK(filter, old_buffers) /\ old_buffers \in [DOMAIN old_buffers -> OldBuffers]
      BY <1>1, <2>1, FilterIs DEF BuffersTyped
    <3>2. /\ DOMAIN old_buffers' = DOMAIN old_buffers \cup {buffer_id}
          /\ old_buffers'[buffer_id] = rec
          /\ \A b \in DOMAIN old_buffers : b # buffer_id => old_buffers'[b] = old_buffers[b]
      BY <1>2
    <3>3. /\ buffer_id \in DOMAIN old_buffers => old = old_buffers[buffer_id]
          /\ buffer_id \notin DOMAIN old_buffers =>
               old.buffer = <<>> /\ old.unacked_count = 0 /\ old.freed = {}
      BY <1>o
    <3>4. FilterOK(filter \cup {s}, old_buffers')
      <4>1. /\ s \in Samples /\ s \notin filter /\ old \in BufferRecs
            /\ rec.buffer = Append(old.buffer, s) /\ rec.freed = old.freed
            /\ rec.unacked_count = old.unacked_count + 1
        BY <1>2, <1>5, <1>7
      <4>2. Added(filter, old_buffers, s, buffer_id, old, rec, old_buffers')
        BY ONLY <3>1, <3>2, <3>3, <4>1 DEF Added
      <4>3. QED
        BY ONLY <4>2, FilterAdd
    <3>5. QED
      BY <1>2, <3>4
  <2>2. QED
    BY <1>2, <2>1, FilterIs
<1>10. ASSUME resets = 0
       PROVE  MessageOK(old_buffers', buffer_id, told, tx, msg, grown, buffer_tmp)
  <2>1. MessageOK(old_buffers, buffer_id, told, tx, msg, buffer, buffer_tmp)
    BY <1>1, <1>10, MessageIs
  <2>2. buffer = old.buffer
    BY <1>o, <2>1 DEF MessageOK
  <2>3. /\ DOMAIN old_buffers' = DOMAIN old_buffers \cup {buffer_id}
        /\ old_buffers'[buffer_id].buffer = grown
        /\ \A b \in DOMAIN old_buffers : b # buffer_id => old_buffers'[b] = old_buffers[b]
    BY <1>2, <1>7, <1>g, <2>2
  <2>4. buffer_id - 1 # buffer_id /\ buffer_id \in Nat
    BY <1>4
  <2>5. QED
    BY <2>1, <2>3, <2>4 DEF MessageOK
<1>11. /\ ListTyped'
       /\ MessageOK(old_buffers', buffer_id, told, tx, msg, grown, buffer_tmp)
            => MessageOK(old_buffers', buffer_id', told, tx', msg, buffer', buffer_tmp')
  <2>1. CASE ProcessFullBuffer(Learner, grown)
    BY <1>1, <1>2, <1>4, <2>1, ProcessKeeps
  <2>2. CASE /\ buffer' = grown /\ due' = FALSE /\ WakeTransmit
             /\ UNCHANGED <<buffer_tmp, buffer_id, can_swap>>
    <3>1. ListTyped'
      BY <1>1, <1>4, <2>2 DEF RestTyped, ListTyped, WakeTransmit
    <3>2. tx' \in {"send", "sent"} => tx' = tx
      BY <2>2 DEF WakeTransmit
    <3>3. QED
      BY <2>2, <3>1, <3>2 DEF MessageOK
  <2>3. CASE buffer' = grown /\ UNCHANGED <<due, tx, buffer_tmp, buffer_id, can_swap>>
    BY <1>1, <1>4, <2>3 DEF RestTyped, ListTyped
  <2>4. QED
    BY <1>3, <2>1, <2>2, <2>3
<1>12. RestTyped'
  BY <1>1, <1>2, <1>11 DEF RestTyped, ListTyped
<1>13. MessageInv'
  BY <1>2, <1>10, <1>11, MessageIs
<1>14. QED
  BY <1>8, <1>9, <1>12, <1>13, LearnInvIs

\* set_timeout, the passing of time and the transmit thread: the filter and the
\* buffers stay as they are.
LEMMA TimeKeeps ==
  ASSUME LearnInv, Elapse \/ \E b \in BOOLEAN : SetTimeout(b)
  PROVE  LearnInv'
<1>1. RestTyped /\ BuffersTyped(old_buffers) /\ FilterInv /\ MessageInv
  BY LearnInvIs
<1>2. /\ due' \in BOOLEAN /\ with_timeout' \in BOOLEAN
      /\ UNCHANGED <<buffer, buffer_id, max_samples, filter, old_buffers,
                     buffer_tmp, can_swap, woken, tx, msg, told, resets, reacked>>
  BY <1>1 DEF Elapse, SetTimeout, RestTyped
<1>3. RestTyped' /\ BuffersTyped(old_buffers')
  BY <1>1, <1>2 DEF RestTyped
<1>4. QED
  BY <1>1, <1>2, <1>3, FilterSame, MessageIs, LearnInvIs

\* The transmit thread waits, times out or is told to stop.
LEMMA TransmitWaits ==
  ASSUME LearnInv, TransmitWait \/ TransmitTimeout \/ StopTransmit
  PROVE  LearnInv'
<1>1. RestTyped /\ BuffersTyped(old_buffers) /\ FilterInv /\ MessageInv
  BY LearnInvIs
<1>2. /\ tx' \in {"test", "wait", "timed", "exited"}
      /\ UNCHANGED <<buffer, buffer_id, max_samples, with_timeout, due, filter, old_buffers,
                     buffer_tmp, can_swap, woken, msg, told, resets, reacked>>
  BY DEF TransmitWait, TransmitTimeout, StopTransmit
<1>3. RestTyped' /\ BuffersTyped(old_buffers')
  BY <1>1, <1>2 DEF RestTyped
<1>4. MessageInv'
  BY <1>1, <1>2, MessageIs DEF MessageOK
<1>5. QED
  BY <1>1, <1>2, <1>3, <1>4, FilterSame, LearnInvIs

\* The transmit thread finds a buffer to send, or takes one at the deadline.
LEMMA TransmitStarts ==
  ASSUME LearnInv, TransmitStart
  PROVE  LearnInv'
<1>1. RestTyped /\ BuffersTyped(old_buffers) /\ FilterInv /\ MessageInv
  BY LearnInvIs
<1>2. /\ tx = "test" /\ tx' = "send"
      /\ UNCHANGED <<max_samples, with_timeout, filter, old_buffers, can_swap,
                     woken, msg, told, resets, reacked>>
  BY DEF TransmitStart
<1>3. CASE buffer_tmp # <<>> /\ UNCHANGED <<buffer, buffer_tmp, buffer_id, due>>
  <2>1. RestTyped' /\ BuffersTyped(old_buffers')
    BY <1>1, <1>2, <1>3 DEF RestTyped
  <2>2. MessageInv'
    BY <1>1, <1>2, <1>3, MessageIs DEF MessageOK
  <2>3. QED
    BY <1>1, <1>2, <2>1, <2>2, FilterSame, LearnInvIs
<1>4. CASE buffer_tmp = <<>> /\ buffer # <<>> /\ buffer_id < MaxBuffers /\ SwapBuffers(buffer)
  <2>0. buffer_id \in Nat /\ buffer_id + 1 \in 0..MaxBuffers /\ told \subseteq Int
    BY <1>1, <1>4, LearnAssumption DEF RestTyped
  <2>1. buffer' = <<>> /\ buffer_tmp' = buffer /\ due' = FALSE /\ buffer_id' = buffer_id + 1
    BY <1>4 DEF SwapBuffers
  <2>2. ListTyped'
    <3>1. <<>> \in Seq(Samples)
      OBVIOUS
    <3>2. QED
      BY <1>1, <1>2, <2>0, <2>1, <3>1 DEF RestTyped, ListTyped
  <2>3. RestTyped' /\ BuffersTyped(old_buffers')
    BY <1>1, <1>2, <2>2 DEF RestTyped, ListTyped
  <2>4. ASSUME resets = 0
        PROVE  MessageOK(old_buffers, buffer_id + 1, told, "send", msg, <<>>, buffer)
    <3>1. MessageOK(old_buffers, buffer_id, told, tx, msg, buffer, <<>>)
      BY <1>1, <1>4, <2>4, MessageIs
    <3>2. QED
      BY <1>4, <2>0, <3>1, MessageSwap
  <2>5. MessageInv'
    BY <1>2, <2>1, <2>4, MessageIs
  <2>6. QED
    BY <1>1, <1>2, <2>3, <2>5, FilterSame, LearnInvIs
<1>5. QED
  BY <1>3, <1>4 DEF TransmitStart

\* The transmit thread sends the buffer it took.
LEMMA TransmitSends ==
  ASSUME LearnInv, TransmitSend \/ TransmitEnd
  PROVE  LearnInv'
<1>1. RestTyped /\ BuffersTyped(old_buffers) /\ FilterInv /\ MessageInv
  BY LearnInvIs
<1>2. CASE TransmitSend
  <2>1. /\ tx = "send" /\ msg' = [id |-> buffer_id - 1, samples |-> buffer_tmp]
        /\ told' = told \cup {buffer_id - 1} /\ tx' = "sent"
        /\ UNCHANGED <<buffer, buffer_id, max_samples, with_timeout, due, filter,
                       old_buffers, buffer_tmp, can_swap, woken, resets, reacked>>
    BY <1>2 DEF TransmitSend
  <2>2. buffer_id - 1 \in -1..MaxBuffers /\ buffer_id - 1 < buffer_id
    BY <1>1, LearnAssumption DEF RestTyped
  <2>3. RestTyped' /\ BuffersTyped(old_buffers')
    BY <1>1, <2>1, <2>2 DEF RestTyped
  <2>4. MessageInv'
    BY <1>1, <2>1, <2>2, MessageIs DEF MessageOK
  <2>5. QED
    BY <1>1, <2>1, <2>3, <2>4, FilterSame, LearnInvIs
<1>3. CASE TransmitEnd
  <2>1. /\ buffer_tmp' = <<>> /\ tx' = "test" /\ msg' = NoMsg
        /\ UNCHANGED <<buffer, buffer_id, max_samples, with_timeout, due, filter,
                       old_buffers, told, resets, reacked>>
    BY <1>3 DEF TransmitEnd
  <2>2. can_swap' \subseteq LearnThreads /\ woken' \subseteq LearnThreads
    BY <1>1, <1>3 DEF TransmitEnd, RestTyped
  <2>3. NoMsg \in [id : -1..MaxBuffers, samples : Seq(Samples)]
    BY LearnAssumption DEF NoMsg
  <2>4. RestTyped' /\ BuffersTyped(old_buffers')
    BY <1>1, <2>1, <2>2, <2>3 DEF RestTyped
  <2>5. MessageInv'
    BY <1>1, <2>1, MessageIs DEF MessageOK
  <2>6. QED
    BY <1>1, <2>1, <2>4, <2>5, FilterSame, LearnInvIs
<1>4. QED
  BY <1>2, <1>3

\* An erase of a freed reference removes at most one sample.
LEMMA ErasedShrinks ==
  ASSUME NEW f, NEW g \in ErasedFreed(f)
  PROVE  g \subseteq f
BY DEF ErasedFreed

\* An ack takes one sample out of its buffer and out of the filter.
LEMMA AckKeeps ==
  ASSUME LearnInv, NEW b, NEW i, Ack(b, i)
  PROVE  LearnInv'
<1> DEFINE old == old_buffers[b]
           left == old.unacked_count - 1
           rec == [old EXCEPT !.unacked_count = left, !.freed = @ \cup {i}]
<1>1. RestTyped /\ BuffersTyped(old_buffers) /\ FilterInv /\ MessageInv
  BY LearnInvIs
<1>2. /\ b \in told /\ b \in DOMAIN old_buffers /\ i \in DOMAIN old.buffer
      /\ filter' \in IF i \in old.freed THEN ErasedFreed(filter) ELSE {filter \ {old.buffer[i]}}
      /\ reacked' = (reacked \/ i \in old.freed)
      /\ UNCHANGED <<buffer, buffer_id, max_samples, with_timeout, due, buffer_tmp,
                     can_swap, woken, tx, msg, told, resets>>
  BY DEF Ack
<1>3. old_buffers' = IF left = 0 THEN Without(b)
                     ELSE [old_buffers EXCEPT ![b].unacked_count = left,
                                              ![b].freed = @ \cup {i}]
  BY DEF Ack
<1>4. old \in OldBuffers /\ i \in Nat /\ left \in Nat
  BY <1>1, <1>2 DEF BuffersTyped, OldBuffers
<1>5. /\ rec.buffer = old.buffer /\ rec.freed = old.freed \cup {i} /\ rec.unacked_count = left
      /\ rec \in BufferRecs
      /\ left # 0 => rec \in OldBuffers
  <2> DEFINE x == old.freed \cup {i}
             y == left
             o == old
  <2>1. o \in [buffer : Seq(Samples), unacked_count : Nat \ {0}, freed : SUBSET Nat]
    BY <1>4 DEF OldBuffers
  <2>2. rec = [o EXCEPT !.unacked_count = y, !.freed = x]
    BY <1>4, <2>1
  <2>3. x \in SUBSET Nat /\ y \in Nat
    BY <1>4 DEF OldBuffers
  <2> HIDE DEF x, y, o
  <2>4. rec.buffer = o.buffer /\ rec.freed = x /\ rec.unacked_count = y
    BY <2>1, <2>2
  <2>5. rec \in [buffer : Seq(Samples), unacked_count : Nat, freed : SUBSET Nat]
    BY <2>1, <2>2, <2>3
  <2>6. y # 0 => rec \in [buffer : Seq(Samples), unacked_count : Nat \ {0}, freed : SUBSET Nat]
    BY <2>1, <2>2, <2>3
  <2>7. QED
    BY <2>4, <2>5, <2>6 DEF OldBuffers, BufferRecs, x, y, o
<1>6. /\ left = 0 => old_buffers' = [c \in DOMAIN old_buffers \ {b} |-> old_buffers[c]]
      /\ left # 0 => old_buffers' = [old_buffers EXCEPT ![b] = rec]
  BY <1>1, <1>2, <1>3, <1>4 DEF Without, BuffersTyped, OldBuffers
<1>o. old = old_buffers[b]
  OBVIOUS
<1>l. left = old.unacked_count - 1
  OBVIOUS
<1> HIDE DEF old, left, rec
<1>7. /\ old_buffers' \in [DOMAIN old_buffers' -> OldBuffers]
      /\ \A c \in DOMAIN old_buffers : c # b => old_buffers'[c] = old_buffers[c]
      /\ \/ left = 0 /\ DOMAIN old_buffers' = DOMAIN old_buffers \ {b}
         \/ left # 0 /\ DOMAIN old_buffers' = DOMAIN old_buffers /\ old_buffers'[b] = rec
  <2>1. CASE left = 0
    <3>1. old_buffers' = [c \in DOMAIN old_buffers \ {b} |-> old_buffers[c]]
      BY <1>6, <2>1
    <3>2. QED
      BY <1>1, <2>1, <3>1 DEF BuffersTyped
  <2>2. CASE left # 0
    <3>1. old_buffers' = [old_buffers EXCEPT ![b] = rec] /\ rec \in OldBuffers
      BY <1>5, <1>6, <2>2
    <3>2. QED
      BY <1>1, <1>2, <2>2, <3>1 DEF BuffersTyped
  <2>3. QED
    BY <2>1, <2>2
<1>8. BuffersTyped(old_buffers')
  BY <1>1, <1>7 DEF BuffersTyped
<1>9. filter' \subseteq filter
  BY <1>2, ErasedShrinks
<1>10. RestTyped'
  BY <1>1, <1>2, <1>9 DEF RestTyped
<1>11. FilterInv'
  <2>1. ASSUME ~reacked' PROVE FilterOK(filter', old_buffers')
    <3>1. ~reacked /\ i \notin old.freed /\ filter' = filter \ {old.buffer[i]}
      BY <1>2, <2>1
    <3>2. FilterOK(filter, old_buffers) /\ i \in Open(old)
      BY <1>1, <1>2, <3>1, FilterIs DEF Open
    <3>3. Acked(filter, old_buffers, b, old, i, rec, old_buffers')
      <4>1. /\ b \in DOMAIN old_buffers /\ old = old_buffers[b] /\ old \in OldBuffers
            /\ rec \in BufferRecs /\ rec.buffer = old.buffer /\ rec.freed = old.freed \cup {i}
            /\ rec.unacked_count = old.unacked_count - 1
        BY <1>2, <1>4, <1>5, <1>o, <1>l
      <4>2. /\ \/ rec.unacked_count = 0 /\ DOMAIN old_buffers' = DOMAIN old_buffers \ {b}
               \/ /\ rec.unacked_count # 0 /\ DOMAIN old_buffers' = DOMAIN old_buffers
                  /\ old_buffers'[b] = rec
            /\ \A c \in DOMAIN old_buffers : c # b => old_buffers'[c] = old_buffers[c]
        BY <1>5, <1>7
      <4>3. QED
        BY ONLY <3>2, <4>1, <4>2 DEF Acked
    <3>4. FilterOK(filter \ {old.buffer[i]}, old_buffers')
      BY ONLY <3>3, FilterAck
    <3>5. QED
      BY <3>1, <3>4
  <2>2. QED
    BY <2>1, FilterIs
<1>12. MessageInv'
  <2>1. ASSUME resets = 0
        PROVE  MessageOK(old_buffers', buffer_id, told, tx, msg, buffer, buffer_tmp)
    <3>1. MessageOK(old_buffers, buffer_id, told, tx, msg, buffer, buffer_tmp)
      BY <1>1, <2>1, MessageIs
    <3>2. \A c \in DOMAIN old_buffers' : old_buffers'[c].buffer = old_buffers[c].buffer
      BY <1>5, <1>7, <1>o
    <3>3. buffer_id \in Nat /\ told \subseteq Int
      BY <1>1 DEF RestTyped
    <3>4. QED
      BY <1>2, <1>7, <3>1, <3>2, <3>3, MessageAck
  <2>2. QED
    BY <1>2, <2>1, MessageIs
<1>13. QED
  BY <1>8, <1>10, <1>11, <1>12, LearnInvIs

\* An ack of a buffer takes its samples out of the filter; freed ones end the claim.
LEMMA AckBufferKeeps ==
  ASSUME LearnInv, NEW b, AckBuffer(b)
  PROVE  LearnInv'
<1> DEFINE old == old_buffers[b]
           rest == filter \ {old.buffer[i] : i \in DOMAIN old.buffer \ old.freed}
<1>1. RestTyped /\ BuffersTyped(old_buffers) /\ FilterInv /\ MessageInv
  BY LearnInvIs
<1>2. /\ b \in told /\ b \in DOMAIN old_buffers
      /\ \/ old.unacked_count = Cardinality(filter) /\ filter' = {} /\ reacked' = reacked
         \/ /\ filter' \in IF old.freed = {} THEN {rest} ELSE ErasedFreed(rest)
            /\ reacked' = (reacked \/ old.freed # {})
      /\ old_buffers' = Without(b)
      /\ UNCHANGED <<buffer, buffer_id, max_samples, with_timeout, due, buffer_tmp,
                     can_swap, woken, tx, msg, told, resets>>
  BY DEF AckBuffer
<1>3. rest = filter \ Unacked(old_buffers[b])
  BY DEF Unacked, Open
<1>4. old = old_buffers[b]
  OBVIOUS
<1> HIDE DEF old, rest
<1>5. /\ old_buffers' = [c \in DOMAIN old_buffers \ {b} |-> old_buffers[c]]
      /\ DOMAIN old_buffers' = DOMAIN old_buffers \ {b}
      /\ \A c \in DOMAIN old_buffers' : old_buffers'[c] = old_buffers[c]
  BY <1>2 DEF Without
<1>6. BuffersTyped(old_buffers')
  BY <1>1, <1>5 DEF BuffersTyped
<1>7. filter' \subseteq filter
  BY <1>2, <1>3, ErasedShrinks
<1>8. reacked' \in BOOLEAN
  BY <1>1, <1>2 DEF RestTyped
<1>9. RestTyped'
  BY <1>1, <1>2, <1>7, <1>8 DEF RestTyped
<1>10. FilterInv'
  <2>1. ASSUME ~reacked' PROVE FilterOK(filter', old_buffers')
    <3>1. /\ ~reacked
          /\ \/ old_buffers[b].unacked_count = Cardinality(filter) /\ filter' = {}
             \/ filter' = filter \ Unacked(old_buffers[b])
      <4>1. CASE old.unacked_count = Cardinality(filter) /\ filter' = {} /\ reacked' = reacked
        BY <1>4, <2>1, <4>1
      <4>2. CASE /\ filter' \in IF old.freed = {} THEN {rest} ELSE ErasedFreed(rest)
                 /\ reacked' = (reacked \/ old.freed # {})
        <5>1. ~reacked /\ old.freed = {}
          BY <2>1, <4>2
        <5>2. filter' = rest
          BY <4>2, <5>1
        <5>3. QED
          BY <1>3, <5>1, <5>2
      <4>3. QED
        BY <1>2, <4>1, <4>2
    <3>2. FilterOK(filter, old_buffers)
      BY <1>1, <3>1, FilterIs
    <3>3. filter \subseteq Samples /\ old_buffers[b] \in OldBuffers
      BY <1>1, <1>2 DEF RestTyped, BuffersTyped
    <3>4. QED
      BY ONLY <1>2, <1>5, <3>1, <3>2, <3>3, FilterAckBuffer
  <2>2. QED
    BY <2>1, FilterIs
<1>11. MessageInv'
  <2>1. ASSUME resets = 0
        PROVE  MessageOK(old_buffers', buffer_id, told, tx, msg, buffer, buffer_tmp)
    <3>1. MessageOK(old_buffers, buffer_id, told, tx, msg, buffer, buffer_tmp)
      BY <1>1, <2>1, MessageIs
    <3>2. \A c \in DOMAIN old_buffers' : old_buffers'[c].buffer = old_buffers[c].buffer
      BY <1>5
    <3>3. buffer_id \in Nat /\ told \subseteq Int
      BY <1>1 DEF RestTyped
    <3>4. QED
      BY <1>2, <1>5, <3>1, <3>2, <3>3, MessageAck
  <2>2. QED
    BY <1>2, <2>1, MessageIs
<1>12. QED
  BY <1>6, <1>9, <1>10, <1>11, LearnInvIs

\* No buffer, no filter.
LEMMA NothingFiltered ==
  BuffersTyped(NoBuffers) /\ FilterOK({}, NoBuffers)
<1>1. DOMAIN NoBuffers = {} /\ NoBuffers \in [{} -> OldBuffers]
  BY DEF NoBuffers
<1>2. QED
  BY <1>1 DEF BuffersTyped, FilterOK

\* reset_state forgets filter and buffers together.
LEMMA ResetKeeps ==
  ASSUME LearnInv, LearnResetState
  PROVE  LearnInv'
<1>1. RestTyped
  BY LearnInvIs
<1>2. /\ resets < MaxResets /\ resets' = resets + 1
      /\ buffer' = <<>> /\ buffer_id' = 0 /\ due' = FALSE
      /\ filter' = {} /\ old_buffers' = NoBuffers /\ buffer_tmp' = <<>>
      /\ UNCHANGED <<max_samples, with_timeout, can_swap, woken, tx, msg, told, reacked>>
  BY DEF LearnResetState
<1>3. <<>> \in Seq(Samples)
  OBVIOUS
<1>4. resets' \in 0..MaxResets /\ resets' # 0 /\ buffer_id' \in 0..MaxBuffers
  BY <1>1, <1>2, LearnAssumption DEF RestTyped
<1>5. RestTyped'
  BY <1>1, <1>2, <1>3, <1>4 DEF RestTyped
<1>6. FilterInv' /\ MessageInv' /\ BuffersTyped(old_buffers')
  BY <1>2, <1>4, NothingFiltered, FilterIs, MessageIs
<1>7. QED
  BY <1>5, <1>6, LearnInvIs

\* At the start filter and buffers are empty.
LEMMA LearnStarts ==
  ASSUME LearnInit
  PROVE  LearnInv
<1>1. /\ filter = {} /\ old_buffers = NoBuffers /\ told = {} /\ tx = "test" /\ buffer_id = 0
      /\ buffer = <<>> /\ buffer_tmp = <<>>
  BY DEF LearnInit
<1>2. DOMAIN NoBuffers = {}
  BY DEF NoBuffers
<1>3. <<>> \in Seq(Samples) /\ NoMsg \in [id : -1..MaxBuffers, samples : Seq(Samples)]
  BY LearnAssumption DEF NoMsg
<1>4. RestTyped
  <2>1. /\ buffer \in Seq(Samples) /\ buffer_tmp \in Seq(Samples) /\ filter \subseteq Samples
        /\ msg \in [id : -1..MaxBuffers, samples : Seq(Samples)] /\ told \subseteq -1..MaxBuffers
    BY <1>1, <1>3 DEF LearnInit
  <2>2. buffer_id \in 0..MaxBuffers /\ resets \in 0..MaxResets
    BY LearnAssumption DEF LearnInit
  <2>3. /\ with_timeout \in BOOLEAN /\ due \in BOOLEAN /\ reacked \in BOOLEAN
        /\ can_swap \subseteq LearnThreads /\ woken \subseteq LearnThreads
        /\ max_samples \in MaxSamplesSet
        /\ tx \in {"test", "wait", "timed", "send", "sent", "exited"}
    BY DEF LearnInit
  <2>4. QED
    BY <2>1, <2>2, <2>3 DEF RestTyped
<1>5. FilterInv /\ BuffersTyped(old_buffers)
  BY <1>1, NothingFiltered, FilterIs
<1>6. MessageInv
  BY <1>1, <1>2 DEF MessageInv
<1>7. QED
  BY <1>4, <1>5, <1>6, LearnInvIs

-----------------------------------------------------------------------------
\* The inductive invariant of the learning engine: until the client acknowledges
\* a sample twice, the filter is made of the open samples of the buffers, no
\* sample is open in two places and every unacked_count is exact; until a reset,
\* the two newest buffers are buffer_tmp and buffer, and no swap comes between
\* the transmit thread's reads of the id and the samples (learning.cpp).
THEOREM LearnInvariant == LearnSpec => []LearnInv
<1>1. LearnInit => LearnInv
  BY LearnStarts
<1>2. LearnInv /\ [LearnNext]_learnVars => LearnInv'
  <2> SUFFICES ASSUME LearnInv, [LearnNext]_learnVars PROVE LearnInv'
    OBVIOUS
  <2>1. ASSUME NEW s \in Samples, AddSample(s) PROVE LearnInv'
    BY <2>1, AddSampleKeeps
  <2>2. ASSUME NEW t \in LearnThreads, SwapWoken(t) PROVE LearnInv'
    BY <2>2, SwapWokenKeeps
  <2>3. ASSUME NEW t \in RpcThreads, NEW n \in MaxSamplesSet, SetMaxSamples(t, n) PROVE LearnInv'
    BY <2>3, SetMaxSamplesKeeps
  <2>4. ASSUME Elapse \/ \E b \in BOOLEAN : SetTimeout(b) PROVE LearnInv'
    BY <2>4, TimeKeeps
  <2>5. ASSUME TransmitStep \/ StopTransmit PROVE LearnInv'
    BY <2>5, TransmitWaits, TransmitStarts, TransmitSends DEF TransmitStep
  <2>6. ASSUME NEW b \in told, AckBuffer(b) \/ \E i \in 1..Cardinality(Samples) : Ack(b, i)
        PROVE  LearnInv'
    BY <2>6, AckKeeps, AckBufferKeeps
  <2>7. ASSUME LearnResetState PROVE LearnInv'
    BY <2>7, ResetKeeps
  <2>8. ASSUME UNCHANGED learnVars PROVE LearnInv'
    <3>1. RestTyped /\ BuffersTyped(old_buffers) /\ FilterInv /\ MessageInv
      BY LearnInvIs
    <3>2. RestTyped' /\ BuffersTyped(old_buffers')
      BY <2>8, <3>1 DEF learnVars, RestTyped
    <3>3. FilterInv' /\ MessageInv'
      BY <2>8, <3>1, FilterIs, MessageIs DEF learnVars
    <3>4. QED
      BY <3>2, <3>3, LearnInvIs
  <2>9. QED
    BY <2>1, <2>2, <2>3, <2>4, <2>5, <2>6, <2>7, <2>8 DEF LearnNext
<1>3. QED
  BY <1>1, <1>2, PTL DEF LearnSpec

\* Filter, unacknowledged buffers and the message being sent agree in every
\* state of the learning engine: the size test of ack_buffer clears nobody
\* else's samples, and an ack of a message acknowledges the samples it carried.
THEOREM LearningIsSound == LearnSpec => []LearningSound
<1>1. LearnInv => LearningSound
  <2> SUFFICES ASSUME LearnInv PROVE LearningSound
    OBVIOUS
  <2>1. LearnTypeOK /\ FilterInv /\ MessageInv
    BY DEF LearnInv
  <2>2. FilterMatchesBuffers
    BY <2>1 DEF FilterInv, FilterMatchesBuffers, Unacked, Open
  <2>3. ASSUME resets = 0, tx = "sent", msg.id \in DOMAIN old_buffers
        PROVE  old_buffers[msg.id].buffer = msg.samples
    <3>1. /\ msg = [id |-> buffer_id - 1, samples |-> buffer_tmp] /\ buffer_tmp # <<>>
          /\ buffer_id - 1 \in DOMAIN old_buffers => old_buffers[buffer_id - 1].buffer = buffer_tmp
      BY <2>1, <2>3 DEF MessageInv
    <3>2. msg.id = buffer_id - 1 /\ msg.samples = buffer_tmp
      BY <3>1
    <3>3. QED
      BY <2>3, <3>1, <3>2
  <2>4. QED
    BY <2>1, <2>2, <2>3 DEF LearningSound, MessageNamesBuffer
<1>2. QED
  BY <1>1, LearnInvariant, PTL
====
