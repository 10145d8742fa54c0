------------------------ MODULE HandlerPipelineProofs ------------------------
(* Proofs about HandlerPipeline.                                           *)
EXTENDS HandlerPipeline, FiniteSetTheorems, TLAPS

USE DEF Absent, NoTime

LEMMA SaveHandlerType ==
  ASSUME NEW i \in InputType \cup MapType PROVE SaveHandler(i) \in StoredType
BY ClockAssumption DEF SaveHandler, StoredType, InputType, MapType

LEMMA GetHandlerType ==
  ASSUME NEW row \in StoredType PROVE GetHandler(row) \in MapType
BY DEF GetHandler, StoredType, MapType

LEMMA StoredIsMap == StoredType \subseteq MapType
BY DEF StoredType, MapType

LEMMA NotNoRow == NoRow \notin MapType /\ NoRow \notin StoredType
BY NoRowAssumption, StoredIsMap

LEMMA NewLimiterType == NewLimiter \in LimiterType
BY DEF NewLimiter, LimiterType

\* A quotient lies between 0 and the dividend, and grows with it.
LEMMA DivRange ==
  ASSUME NEW t \in Nat, NEW m \in Nat \ {0}
  PROVE  t \div m \in Nat /\ t \div m <= t
OBVIOUS

LEMMA DivMonotone ==
  ASSUME NEW t \in Nat, NEW m \in Nat \ {0}
  PROVE  t \div m <= (t + 1) \div m
OBVIOUS

LEMMA WindowInTimes ==
  ASSUME NEW t \in Times
  PROVE  MinuteOf(t) \in Times /\ HourOf(t) \in Times
BY DivRange, ClockAssumption, BoundAssumption DEF Times, MinuteOf, HourOf, Nats

LEMMA CountsType ==
  ASSUME NEW c \in [Times -> Nat], NEW w \in Times, NEW o \in Int
  PROVE  /\ Bump(c, w) \in [Times -> Nat]
         /\ Purge(c, o) \in [Times -> Nat]
BY DEF Bump, Purge

LEMMA RecordedType ==
  ASSUME NEW l \in LimiterType, NEW s, now \in Times
  PROVE  Recorded(l, s) \in LimiterType
<1> DEFINE om == (now - 2 * HourLen) \div MinuteLen
           oh == (now - 2 * HourLen) \div HourLen
<1>0. om \in Int /\ oh \in Int /\ MinuteOf(now) \in Times /\ HourOf(now) \in Times
  BY ClockAssumption, WindowInTimes DEF Times
<1> HIDE DEF om, oh
<1>1. Purge(Bump(l.minute, MinuteOf(now)), om) \in [Times -> Nat]
  BY <1>0, CountsType DEF LimiterType
<1>2. Purge(Bump(l.hour, HourOf(now)), oh) \in [Times -> Nat]
  BY <1>0, CountsType DEF LimiterType
<1>3. [q \in Senders |-> Purge(IF q = s THEN Bump(l.sender[q], HourOf(now))
                               ELSE l.sender[q], oh)] \in [Senders -> [Times -> Nat]]
  BY <1>0, CountsType DEF LimiterType
<1> QED BY <1>1, <1>2, <1>3 DEF Recorded, LimiterType, om, oh

LEMMA StatsType ==
  ASSUME NEW row \in StoredType \cup {NoRow}, NEW ok \in BOOLEAN, now \in Times
  PROVE  UpdateHandlerStats(row, ok) \in StoredType \cup {NoRow}
<1>1. CASE row = NoRow
  BY <1>1 DEF UpdateHandlerStats
<1>2. CASE row # NoRow /\ ok
  BY <1>2 DEF UpdateHandlerStats, StoredType
<1>3. CASE row # NoRow /\ ~ok
  <2>1. PICK n, m : n = row.execs + 1 /\ m = row.errs + 1
    OBVIOUS
  <2>2. n \in Nat /\ m \in Nat
    BY <1>3, <2>1 DEF StoredType
  <2>3. [row EXCEPT !.execs = n, !.errs = m, !.lastErr = now] \in StoredType
    BY <1>3, <2>2 DEF StoredType
  <2>4. UpdateHandlerStats(row, ok) = [row EXCEPT !.execs = n, !.errs = m, !.lastErr = now]
    BY <1>3, <2>1 DEF UpdateHandlerStats
  <2> QED BY <2>3, <2>4
<1> QED BY <1>1, <1>2, <1>3

LEMMA IdleTypes == /\ IdleExec \in ExecType
                   /\ IdleExecs \in [Goroutines -> [Handlers -> ExecType]]
                   /\ IdleOp \in OpType
BY DEF IdleExec, IdleExecs, ExecType, IdleOp, OpType, PCs

LEMMA StartupType ==
  ASSUME NEW rows \in [Handlers -> StoredType \cup {NoRow}]
  PROVE  StartupCache(rows) \in [Handlers -> MapType \cup {NoRow}]
BY GetHandlerType DEF StartupCache

LEMMA MergeType ==
  ASSUME NEW v \in MapType, NEW i \in Inputs, NEW given
  PROVE  Merge(v, i, given) \in MapType
<1> DEFINE c  == IF "cfg" \in given THEN i.cfg ELSE v.cfg
           e  == IF "enabled" \in given THEN i.enabled ELSE v.enabled
           b  == IF "cb" \in given THEN i.cb ELSE v.cb
           t  == IF "threshold" \in given THEN i.threshold ELSE v.threshold
           rs == IF "reset" \in given THEN i.reset ELSE v.reset
<1>1. i \in InputType
  BY InputAssumption
<1>2. /\ c \in Configs /\ e \in BOOLEAN /\ b \in {"on", "off", "absent"}
      /\ t \in Nat \cup {Absent} /\ rs \in Nat \cup {Absent}
  BY <1>1 DEF MapType, InputType
<1>3. Merge(v, i, given) = [v EXCEPT !.cfg = c, !.enabled = e, !.cb = b, !.threshold = t,
                                     !.reset = rs]
  BY DEF Merge
<1> HIDE DEF c, e, b, t, rs
<1> QED BY <1>2, <1>3 DEF MapType

LEMMA TypeInit == Init => TypeOK
BY SaveHandlerType, InputAssumption, StartupType, NewLimiterType, IdleTypes, BoundAssumption
   DEF Init, TypeOK, Times, Nats

BoundType == [events : Nat, ops : Nat, faults : Nat]

\* A statement that fails is counted.
LEMMA FaultType ==
  ASSUME TypeOK, Fault PROVE bound' \in BoundType
<1>1. bound \in BoundType /\ bound' = [bound EXCEPT !.faults = @ + 1]
  BY DEF TypeOK, Fault, BoundType
<1> QED BY <1>1 DEF BoundType

LEMMA LogType ==
  ASSUME TypeOK, NEW h \in Handlers, NEW ok \in BOOLEAN, LogExecution(h, ok)
  PROVE  /\ log' \in [Handlers -> [ok : Nat, failed : Nat]]
         /\ lost' \in [Handlers -> Nat]
         /\ bound' \in BoundType
<1>1. CASE UNCHANGED <<lost, bound>> /\ log' = IF ok THEN [log EXCEPT ![h].ok = @ + 1]
                                               ELSE [log EXCEPT ![h].failed = @ + 1]
  BY <1>1 DEF TypeOK, BoundType
<1>2. CASE Fault /\ lost' = [lost EXCEPT ![h] = @ + 1] /\ UNCHANGED log
  BY <1>2, FaultType DEF TypeOK
<1> QED BY <1>1, <1>2 DEF LogExecution

LEMMA BecomeType ==
  ASSUME TypeOK, NEW g \in Goroutines, NEW h \in Handlers, NEW e \in ExecType,
         Become(g, h, e)
  PROVE  exec' \in [Goroutines -> [Handlers -> ExecType]]
BY DEF TypeOK, Become

LEMMA ExecUpdates ==
  ASSUME NEW e \in ExecType, NEW pc \in PCs
  PROVE  /\ [e EXCEPT !.pc = pc] \in ExecType
         /\ \A ok \in BOOLEAN : [e EXCEPT !.pc = pc, !.ok = ok] \in ExecType
         /\ \A v \in MapType \cup {NoRow} : [e EXCEPT !.pc = pc, !.view = v] \in ExecType
BY DEF ExecType

LEMMA GotoType ==
  ASSUME TypeOK, NEW g \in Goroutines, NEW h \in Handlers, NEW pc \in PCs,
         Goto(g, h, pc)
  PROVE  exec' \in [Goroutines -> [Handlers -> ExecType]]
<1>0. exec[g][h] \in ExecType
  BY DEF TypeOK
<1>1. [exec[g][h] EXCEPT !.pc = pc] \in ExecType
  BY <1>0, ExecUpdates
<1> QED BY <1>1, BecomeType DEF Goto

LEMMA BreakerSetType ==
  ASSUME NEW row \in StoredType, NEW ok \in BOOLEAN
  PROVE  BreakerSet(row, ok) \in MapType
BY GetHandlerType DEF BreakerSet, MapType

LEMMA DbUpdateType ==
  ASSUME TypeOK, NEW h \in Handlers, NEW row \in StoredType \cup {NoRow},
         db' = [db EXCEPT ![h] = row]
  PROVE  db' \in [Handlers -> StoredType \cup {NoRow}]
BY DEF TypeOK

\* Every step of a handler's goroutine keeps the types.
LEMMA TypeExecute ==
  ASSUME TypeOK, PendingSaves, NEW g \in Goroutines, NEW h \in Handlers,
         ExecuteHandler(g, h) \/ SendReturns(g, h)
  PROVE  TypeOK'
<1> USE DEF TypeOK
<1>b. bound \in BoundType /\ (Fault => bound' \in BoundType)
  BY FaultType DEF BoundType
<1>e. exec[g][h] \in ExecType /\ exec[g][h].ok \in BOOLEAN
  BY DEF ExecType
<1>1. CASE RecordExecution(g, h)
  <2>1. limiter' \in [Handlers -> LimiterType]
    BY <1>1, RecordedType DEF RecordExecution
  <2>2. exec' \in [Goroutines -> [Handlers -> ExecType]]
    BY <1>1, GotoType DEF RecordExecution, PCs
  <2> QED BY <1>1, <2>1, <2>2 DEF RecordExecution
<1>2. CASE LogInvalidAction(g, h)
  <2>1. LogExecution(h, FALSE) /\ Become(g, h, IdleExec)
    BY <1>2 DEF LogInvalidAction, Finish
  <2>2. /\ log' \in [Handlers -> [ok : Nat, failed : Nat]]
        /\ lost' \in [Handlers -> Nat] /\ bound' \in BoundType
    BY <2>1, LogType
  <2>3. exec' \in [Goroutines -> [Handlers -> ExecType]]
    BY <2>1, BecomeType, IdleTypes
  <2> QED BY <1>2, <2>2, <2>3 DEF LogInvalidAction, BoundType
<1>3. CASE RunAction(g, h) \/ SendReturns(g, h)
  <2>1. \/ \E ok \in BOOLEAN : Become(g, h, [exec[g][h] EXCEPT !.pc = "log", !.ok = ok])
        \/ Become(g, h, [exec[g][h] EXCEPT !.pc = "send"])
    BY <1>3 DEF RunAction, SendReturns, Goto
  <2>2. "log" \in PCs /\ "send" \in PCs
    BY DEF PCs
  <2>3. /\ \A ok \in BOOLEAN : [exec[g][h] EXCEPT !.pc = "log", !.ok = ok] \in ExecType
        /\ [exec[g][h] EXCEPT !.pc = "send"] \in ExecType
    BY <1>e, <2>2, ExecUpdates
  <2>4. exec' \in [Goroutines -> [Handlers -> ExecType]]
    BY <2>1, <2>3, BecomeType
  <2> QED BY <1>3, <2>4 DEF RunAction, SendReturns
<1>4. CASE LogHandlerExecution(g, h)
  <2>1. LogExecution(h, exec[g][h].ok)
    BY <1>4 DEF LogHandlerExecution
  <2>2. exec' \in [Goroutines -> [Handlers -> ExecType]]
    BY <1>4, GotoType DEF LogHandlerExecution, PCs
  <2>3. /\ log' \in [Handlers -> [ok : Nat, failed : Nat]]
        /\ lost' \in [Handlers -> Nat] /\ bound' \in BoundType
    BY <1>e, <2>1, LogType
  <2> QED BY <1>4, <2>2, <2>3 DEF LogHandlerExecution, BoundType
<1>5. CASE ReadCircuitBreaker(g, h)
  <2>1. \/ /\ db[h] # NoRow
           /\ Become(g, h, [exec[g][h] EXCEPT !.pc = "cbSave",
                              !.view = BreakerSet(db[h], exec[g][h].ok)])
        \/ Become(g, h, [exec[g][h] EXCEPT !.pc = "stats"])
    BY <1>5 DEF ReadCircuitBreaker, Goto
  <2>2. /\ [exec[g][h] EXCEPT !.pc = "stats"] \in ExecType
        /\ db[h] # NoRow => [exec[g][h] EXCEPT !.pc = "cbSave",
                               !.view = BreakerSet(db[h], exec[g][h].ok)] \in ExecType
    BY <1>e, BreakerSetType, ExecUpdates DEF PCs
  <2>3. exec' \in [Goroutines -> [Handlers -> ExecType]]
    BY <2>1, <2>2, BecomeType
  <2>4. bound' \in BoundType
    BY <1>5, <1>b DEF ReadCircuitBreaker
  <2> QED BY <1>5, <2>3, <2>4 DEF ReadCircuitBreaker, BoundType
<1>6. CASE SaveCircuitBreaker(g, h)
  <2>1. [exec[g][h] EXCEPT !.pc = "stats", !.view = NoRow] \in ExecType
    BY <1>e, ExecUpdates DEF PCs
  <2>2. exec' \in [Goroutines -> [Handlers -> ExecType]]
    BY <1>6, <2>1, BecomeType DEF SaveCircuitBreaker
  <2>3. SaveHandler(exec[g][h].view) \in StoredType
    BY <1>6, SaveHandlerType DEF SaveCircuitBreaker, PendingSaves
  <2>4. db' \in [Handlers -> StoredType \cup {NoRow}]
    BY <1>6, <2>3 DEF SaveCircuitBreaker
  <2>5. bound' \in BoundType
    BY <1>6, <1>b DEF SaveCircuitBreaker
  <2> QED BY <1>6, <2>2, <2>4, <2>5 DEF SaveCircuitBreaker, BoundType
<1>7. CASE RecordStats(g, h)
  <2>1. UpdateHandlerStats(db[h], exec[g][h].ok) \in StoredType \cup {NoRow}
    BY <1>e, StatsType
  <2>2. db' \in [Handlers -> StoredType \cup {NoRow}]
    BY <1>7, <2>1 DEF RecordStats
  <2>3. exec' \in [Goroutines -> [Handlers -> ExecType]]
    BY <1>7, BecomeType, IdleTypes DEF RecordStats, Finish
  <2>4. bound' \in BoundType
    BY <1>7, <1>b DEF RecordStats
  <2> QED BY <1>7, <2>2, <2>3, <2>4 DEF RecordStats, BoundType
<1> QED BY <1>1, <1>2, <1>3, <1>4, <1>5, <1>6, <1>7 DEF ExecuteHandler

LEMMA OpTypes ==
  ASSUME NEW h \in Handlers, NEW v \in MapType, NEW w \in MapType \cup {NoRow},
         NEW T \in SUBSET Handlers, NEW o \in OpType
  PROVE  /\ [IdleOp EXCEPT !.pc = "update", !.h = h, !.view = v] \in OpType
         /\ [IdleOp EXCEPT !.pc = "load", !.todo = T] \in OpType
         /\ [o EXCEPT !.todo = @ \ {h}, !.loaded[h] = w] \in OpType
BY IdleTypes DEF OpType

\* So does every handler operation of the main loop.
LEMMA TypeOperation ==
  ASSUME TypeOK, PendingSaves, HandlerOperation
  PROVE  TypeOK'
<1> USE DEF TypeOK, BeginOp, pipelineVars
<1>1. ASSUME NEW h \in Handlers, NEW i \in Inputs, RegisterHandler(h, i)
      PROVE  TypeOK'
  <2>1. SaveHandler(i) \in StoredType
    BY SaveHandlerType, InputAssumption
  <2> QED BY <1>1, <2>1 DEF RegisterHandler
<1>2. ASSUME NEW h \in Handlers, DeleteHandler(h)
      PROVE  TypeOK'
  BY <1>2 DEF DeleteHandler
<1>3. ASSUME NEW h \in Handlers, NEW e \in BOOLEAN, UpdateHandlerEnabled(h, e)
      PROVE  TypeOK'
  <2>1. db[h] # NoRow => [db[h] EXCEPT !.enabled = e] \in StoredType
    BY DEF StoredType
  <2>2. db' \in [Handlers -> StoredType \cup {NoRow}]
    BY <1>3, <2>1 DEF UpdateHandlerEnabled
  <2> QED BY <1>3, <2>2 DEF UpdateHandlerEnabled
<1>4. ASSUME NEW h \in Handlers, NEW i \in Inputs, NEW given,
             UpdateHandlerRead(h, i, given)
      PROVE  TypeOK'
  <2>1. Merge(GetHandler(db[h]), i, given) \in MapType
    BY <1>4, GetHandlerType, MergeType DEF UpdateHandlerRead
  <2>2. op' \in OpType
    BY <1>4, <2>1, OpTypes DEF UpdateHandlerRead
  <2> QED BY <1>4, <2>2 DEF UpdateHandlerRead
<1>5. CASE UpdateHandlerSave
  <2>1. op.h \in Handlers /\ SaveHandler(op.view) \in StoredType
    BY <1>5, SaveHandlerType DEF UpdateHandlerSave, PendingSaves
  <2>2. db' \in [Handlers -> StoredType \cup {NoRow}]
    BY <1>5, <2>1 DEF UpdateHandlerSave
  <2>3. bound' \in BoundType
    BY <1>5, FaultType DEF UpdateHandlerSave, BoundType
  <2> QED BY <1>5, <2>2, <2>3, IdleTypes DEF UpdateHandlerSave, BoundType
<1>6. CASE LoadHandlersList
  <2>1. op' = [IdleOp EXCEPT !.pc = "load", !.todo = ListEnabled]
    BY <1>6 DEF LoadHandlersList
  <2>2. op' \in OpType
    BY <2>1, IdleTypes DEF ListEnabled, OpType
  <2> QED BY <1>6, <2>2 DEF LoadHandlersList
<1>7. ASSUME NEW h \in Handlers, LoadHandlersGet(h)
      PROVE  TypeOK'
  <2>1. (IF db[h] = NoRow THEN NoRow ELSE GetHandler(db[h])) \in MapType \cup {NoRow}
    BY GetHandlerType
  <2>2. op' \in OpType
    <3>1. /\ [op EXCEPT !.todo = @ \ {h}] \in OpType
          /\ \A w \in MapType \cup {NoRow} :
                [op EXCEPT !.todo = @ \ {h}, !.loaded[h] = w] \in OpType
      BY DEF OpType
    <3> QED BY <1>7, <2>1, <3>1 DEF LoadHandlersGet
  <2>3. bound' \in BoundType
    BY <1>7, FaultType DEF LoadHandlersGet, BoundType
  <2> QED BY <1>7, <2>2, <2>3 DEF LoadHandlersGet, BoundType
<1>8. CASE LoadHandlersDone
  BY <1>8, IdleTypes DEF LoadHandlersDone, OpType
<1> QED BY <1>1, <1>2, <1>3, <1>4, <1>5, <1>6, <1>7, <1>8 DEF HandlerOperation

LEMMA TypeNext ==
  ASSUME TypeOK, PendingSaves, [Next]_vars
  PROVE  TypeOK'
<1> USE DEF TypeOK
<1>1. ASSUME NEW g \in Goroutines, NEW s \in Senders, ExecuteHandlersForEvent(g, s)
      PROVE  TypeOK'
  <2>1. \A h \in Handlers : cache[h] # NoRow =>
           [IdleExec EXCEPT !.pc = "start", !.from = s,
                            !.valid = cache[h].cfg.valid] \in ExecType
    <3> SUFFICES ASSUME NEW h \in Handlers, cache[h] # NoRow
                 PROVE  [IdleExec EXCEPT !.pc = "start", !.from = s,
                            !.valid = cache[h].cfg.valid] \in ExecType
      OBVIOUS
    <3>1. cache[h].cfg \in ConfigType
      BY ConfigAssumption DEF MapType
    <3>2. PICK v \in BOOLEAN : v = cache[h].cfg.valid
      BY <3>1 DEF ConfigType
    <3>3. [IdleExec EXCEPT !.pc = "start", !.from = s, !.valid = v] \in ExecType
      BY IdleTypes DEF ExecType, PCs
    <3> QED BY <3>2, <3>3
  <2>2. exec' \in [Goroutines -> [Handlers -> ExecType]]
    BY <1>1, <2>1, IdleTypes DEF ExecuteHandlersForEvent, Matches
  <2>3. bound' \in [events : Nat, ops : Nat, faults : Nat]
    <3>1. bound' = [bound EXCEPT !.events = @ + 1]
      BY <1>1 DEF ExecuteHandlersForEvent
    <3> QED BY <3>1
  <2> QED BY <1>1, <2>2, <2>3 DEF ExecuteHandlersForEvent
<1>2. ASSUME NEW g \in Goroutines, NEW h \in Handlers,
             ExecuteHandler(g, h) \/ SendReturns(g, h)
      PROVE  TypeOK'
  BY <1>2, TypeExecute
<1>3. CASE HandlerOperation
  BY <1>3, TypeOperation
<1>4. CASE Restart
  BY <1>4, StartupType, NewLimiterType, IdleTypes DEF Restart
<1>5. CASE Tick
  BY <1>5, BoundAssumption DEF Tick, Times, Nats, pipelineVars
<1>6. CASE UNCHANGED vars
  BY <1>6 DEF vars
<1> QED BY <1>1, <1>2, <1>3, <1>4, <1>5, <1>6 DEF Next

-----------------------------------------------------------------------------
(* Type correctness.                                                       *)

\* What a step of one goroutine leaves alone.
LEMMA BecomeFrame ==
  ASSUME TypeOK, NEW g \in Goroutines, NEW h \in Handlers, NEW e, Become(g, h, e)
  PROVE  \A g2 \in Goroutines, h2 \in Handlers :
            exec'[g2][h2] = IF g2 = g /\ h2 = h THEN e ELSE exec[g2][h2]
BY DEF TypeOK, Become

LEMMA PendingInit == Init => PendingSaves
BY DEF Init, PendingSaves, IdleExecs, IdleExec, IdleOp

LEMMA PendingNext ==
  ASSUME TypeOK, PendingSaves, [Next]_vars
  PROVE  PendingSaves'
<1> DEFINE Maps(ex) == \A g \in Goroutines, h \in Handlers :
                          ex[g][h].pc = "cbSave" => ex[g][h].view \in MapType
<1>1. ASSUME NEW g \in Goroutines, NEW s \in Senders, ExecuteHandlersForEvent(g, s)
      PROVE  PendingSaves'
  BY <1>1 DEF TypeOK, PendingSaves, ExecuteHandlersForEvent, IdleExec
<1>2. ASSUME NEW g \in Goroutines, NEW h \in Handlers,
             ExecuteHandler(g, h) \/ SendReturns(g, h)
      PROVE  PendingSaves'
  <2>1. op' = op
    BY <1>2 DEF ExecuteHandler, RecordExecution, LogInvalidAction, RunAction, SendReturns,
         LogHandlerExecution, ReadCircuitBreaker, SaveCircuitBreaker, RecordStats
  <2>e. exec[g][h] \in ExecType
    BY DEF TypeOK
  <2>2. ASSUME NEW e, Become(g, h, e), e.pc = "cbSave" => e.view \in MapType
        PROVE  PendingSaves'
    <3>1. Maps(exec')
      BY <2>2, BecomeFrame DEF PendingSaves
    <3> QED BY <2>1, <3>1 DEF PendingSaves
  <2>3. ASSUME NEW pc \in PCs \ {"cbSave"}, Goto(g, h, pc)
        PROVE  PendingSaves'
    BY <2>2, <2>3, <2>e DEF Goto, ExecType
  <2>4. CASE ReadCircuitBreaker(g, h)
    <3>1. \/ /\ db[h] # NoRow
             /\ Become(g, h, [exec[g][h] EXCEPT !.pc = "cbSave",
                                !.view = BreakerSet(db[h], exec[g][h].ok)])
          \/ Goto(g, h, "stats")
      BY <2>4 DEF ReadCircuitBreaker
    <3>2. db[h] # NoRow => [exec[g][h] EXCEPT !.pc = "cbSave",
                              !.view = BreakerSet(db[h], exec[g][h].ok)].view \in MapType
      <4>1. db[h] # NoRow => BreakerSet(db[h], exec[g][h].ok) \in MapType
        BY <2>e, BreakerSetType DEF TypeOK, ExecType
      <4> QED BY <4>1, <2>e DEF ExecType
    <3> QED BY <2>2, <2>3, <3>1, <3>2 DEF PCs
  <2>5. CASE RunAction(g, h) \/ SendReturns(g, h)
    <3>1. \/ \E ok \in BOOLEAN : Become(g, h, [exec[g][h] EXCEPT !.pc = "log", !.ok = ok])
          \/ Goto(g, h, "send")
      BY <2>5 DEF RunAction, SendReturns
    <3>2. \A ok \in BOOLEAN : [exec[g][h] EXCEPT !.pc = "log", !.ok = ok].pc = "log"
      BY <2>e DEF ExecType
    <3> QED BY <2>2, <2>3, <3>1, <3>2 DEF PCs
  <2>6. CASE SaveCircuitBreaker(g, h)
    <3>1. [exec[g][h] EXCEPT !.pc = "stats", !.view = NoRow].pc = "stats"
      BY <2>e DEF ExecType
    <3> QED BY <2>2, <2>6, <3>1 DEF SaveCircuitBreaker
  <2>7. CASE LogInvalidAction(g, h) \/ RecordStats(g, h)
    BY <2>2, <2>7 DEF LogInvalidAction, RecordStats, Finish, IdleExec
  <2>8. CASE RecordExecution(g, h) \/ LogHandlerExecution(g, h)
    BY <2>3, <2>8 DEF RecordExecution, LogHandlerExecution, PCs
  <2> QED BY <1>2, <2>4, <2>5, <2>6, <2>7, <2>8 DEF ExecuteHandler
<1>3. CASE HandlerOperation
  <2>1. exec' = exec
    BY <1>3 DEF HandlerOperation, RegisterHandler, DeleteHandler, UpdateHandlerEnabled,
         UpdateHandlerRead, UpdateHandlerSave, LoadHandlersList, LoadHandlersGet,
         LoadHandlersDone, pipelineVars
  <2>2. ASSUME NEW h \in Handlers, NEW i \in Inputs, NEW given,
               UpdateHandlerRead(h, i, given)
        PROVE  op'.h \in Handlers /\ op'.view \in MapType
    <3>1. Merge(GetHandler(db[h]), i, given) \in MapType
      BY <2>2, GetHandlerType, MergeType DEF UpdateHandlerRead, TypeOK
    <3> QED BY <2>2, <3>1 DEF UpdateHandlerRead, IdleOp
  <2>3. op'.pc = "update" => op'.h \in Handlers /\ op'.view \in MapType
    <3>1. ASSUME NEW h \in Handlers, LoadHandlersGet(h)
          PROVE  op'.pc = "load"
      BY <3>1 DEF LoadHandlersGet, TypeOK, OpType
    <3>2. CASE LoadHandlersList
      BY <3>2 DEF LoadHandlersList, IdleOp
    <3>3. CASE UpdateHandlerSave \/ LoadHandlersDone
      BY <3>3 DEF UpdateHandlerSave, LoadHandlersDone, IdleOp
    <3>4. ASSUME NEW h \in Handlers, NEW i, NEW e,
                 RegisterHandler(h, i) \/ DeleteHandler(h) \/ UpdateHandlerEnabled(h, e)
          PROVE  op'.pc = "idle"
      BY <3>4 DEF RegisterHandler, DeleteHandler, UpdateHandlerEnabled, BeginOp
    <3> QED BY <1>3, <2>2, <3>1, <3>2, <3>3, <3>4 DEF HandlerOperation
  <2> QED BY <2>1, <2>3 DEF PendingSaves
<1>4. CASE Restart
  BY <1>4 DEF Restart, PendingSaves, IdleExecs, IdleExec, IdleOp
<1>5. CASE Tick \/ UNCHANGED vars
  BY <1>5 DEF Tick, vars, pipelineVars, PendingSaves
<1> QED BY <1>1, <1>2, <1>3, <1>4, <1>5 DEF Next

\* Rows, cached maps, limiters and goroutines keep their types, and whoever is
\* about to call SaveHandler has a map to save.
THEOREM TypeCorrect == Spec => [](TypeOK /\ PendingSaves)
<1>1. Init => TypeOK /\ PendingSaves
  BY TypeInit, PendingInit
<1>2. TypeOK /\ PendingSaves /\ [Next]_vars => (TypeOK /\ PendingSaves)'
  BY TypeNext, PendingNext
<1> QED BY <1>1, <1>2, PTL DEF Spec

-----------------------------------------------------------------------------
(* The circuit breaker.                                                    *)

LEMMA SavedClosed == \A x : SaveHandler(x).state = "closed"
BY DEF SaveHandler

LEMMA GetKeepsState ==
  ASSUME NEW row \in StoredType PROVE GetHandler(row).state = row.state
BY DEF GetHandler, StoredType

LEMMA StatsKeepState ==
  ASSUME NEW row \in StoredType, NEW ok, row # NoRow
  PROVE  UpdateHandlerStats(row, ok).state = row.state
BY DEF UpdateHandlerStats, StoredType

LEMMA BreakerNext ==
  ASSUME TypeOK, PendingSaves, BreakerInv, [Next]_vars
  PROVE  BreakerInv'
<1> DEFINE Closed(f) == \A h \in Handlers : f[h] # NoRow => f[h].state = "closed"
<1>0. Closed(db) /\ Closed(cache) /\ Closed(op.loaded)
  BY DEF BreakerInv, BreakerNeverOpen
<1> SUFFICES Closed(db') /\ Closed(cache') /\ Closed(op'.loaded)
  BY DEF BreakerInv, BreakerNeverOpen
<1>1. ASSUME NEW g \in Goroutines, NEW s \in Senders, ExecuteHandlersForEvent(g, s)
      PROVE  Closed(db') /\ Closed(cache') /\ Closed(op'.loaded)
  BY <1>0, <1>1 DEF ExecuteHandlersForEvent
<1>2. ASSUME NEW g \in Goroutines, NEW h \in Handlers,
             ExecuteHandler(g, h) \/ SendReturns(g, h)
      PROVE  Closed(db') /\ Closed(cache') /\ Closed(op'.loaded)
  <2>1. cache' = cache /\ op' = op
    BY <1>2 DEF ExecuteHandler, RecordExecution, LogInvalidAction, RunAction, SendReturns,
         LogHandlerExecution, ReadCircuitBreaker, SaveCircuitBreaker, RecordStats
  <2>2. CASE SaveCircuitBreaker(g, h)
    BY <1>0, <2>1, <2>2, SavedClosed DEF SaveCircuitBreaker, TypeOK
  <2>3. CASE RecordStats(g, h)
    <3>1. db' \in {db, [db EXCEPT ![h] = UpdateHandlerStats(db[h], exec[g][h].ok)]}
      BY <2>3 DEF RecordStats
    <3>2. db[h] = NoRow => UpdateHandlerStats(db[h], exec[g][h].ok) = NoRow
      BY DEF UpdateHandlerStats
    <3>3. db[h] # NoRow => UpdateHandlerStats(db[h], exec[g][h].ok).state = "closed"
      BY <1>0, StatsKeepState DEF TypeOK
    <3> QED BY <1>0, <2>1, <3>1, <3>2, <3>3 DEF TypeOK
  <2>4. CASE ~SaveCircuitBreaker(g, h) /\ ~RecordStats(g, h)
    BY <1>0, <1>2, <2>1, <2>4 DEF ExecuteHandler, RecordExecution, LogInvalidAction,
         RunAction, SendReturns, LogHandlerExecution, ReadCircuitBreaker
  <2> QED BY <2>2, <2>3, <2>4
<1>3. CASE HandlerOperation
  <2>1. ASSUME NEW h \in Handlers, NEW i \in Inputs, RegisterHandler(h, i)
        PROVE  Closed(db') /\ Closed(cache') /\ Closed(op'.loaded)
    BY <1>0, <2>1, SavedClosed DEF RegisterHandler, pipelineVars, TypeOK
  <2>2. ASSUME NEW h \in Handlers, DeleteHandler(h)
        PROVE  Closed(db') /\ Closed(cache') /\ Closed(op'.loaded)
    BY <1>0, <2>2 DEF DeleteHandler, pipelineVars, TypeOK
  <2>3. ASSUME NEW h \in Handlers, NEW e \in BOOLEAN, UpdateHandlerEnabled(h, e)
        PROVE  Closed(db') /\ Closed(cache') /\ Closed(op'.loaded)
    <3>1. db[h] # NoRow => [db[h] EXCEPT !.enabled = e].state = "closed"
      BY <1>0 DEF TypeOK, StoredType
    <3> QED BY <1>0, <2>3, <3>1 DEF UpdateHandlerEnabled, pipelineVars, TypeOK
  <2>4. ASSUME NEW h \in Handlers, NEW i \in Inputs, NEW given,
               UpdateHandlerRead(h, i, given)
        PROVE  Closed(db') /\ Closed(cache') /\ Closed(op'.loaded)
    BY <1>0, <2>4 DEF UpdateHandlerRead, pipelineVars, IdleOp
  <2>5. CASE UpdateHandlerSave
    BY <1>0, <2>5, SavedClosed DEF UpdateHandlerSave, pipelineVars, IdleOp, TypeOK
  <2>6. CASE LoadHandlersList
    BY <1>0, <2>6 DEF LoadHandlersList, pipelineVars, IdleOp
  <2>7. ASSUME NEW h \in Handlers, LoadHandlersGet(h)
        PROVE  Closed(db') /\ Closed(cache') /\ Closed(op'.loaded)
    <3>1. op'.loaded \in {op.loaded, [op.loaded EXCEPT ![h] = IF db[h] = NoRow THEN NoRow
                                                               ELSE GetHandler(db[h])]}
      BY <2>7 DEF LoadHandlersGet, TypeOK, OpType
    <3>2. db[h] # NoRow => GetHandler(db[h]).state = "closed"
      BY <1>0, GetKeepsState DEF TypeOK
    <3>3. Closed(op'.loaded)
      BY <1>0, <3>1, <3>2 DEF TypeOK, OpType
    <3> QED BY <1>0, <2>7, <3>3 DEF LoadHandlersGet, pipelineVars
  <2>8. CASE LoadHandlersDone
    BY <1>0, <2>8 DEF LoadHandlersDone, IdleOp
  <2> QED BY <1>3, <2>1, <2>2, <2>3, <2>4, <2>5, <2>6, <2>7, <2>8 DEF HandlerOperation
<1>4. CASE Restart
  <2>1. Closed(StartupCache(db))
    BY <1>0, GetKeepsState DEF StartupCache, TypeOK
  <2> QED BY <1>0, <1>4, <2>1 DEF Restart, IdleOp
<1>5. CASE Tick \/ UNCHANGED vars
  BY <1>0, <1>5 DEF Tick, vars, pipelineVars
<1> QED BY <1>1, <1>2, <1>3, <1>4, <1>5 DEF Next

\* Whatever the threshold, however often a handler fails and however the
\* goroutines interleave, no row and no cached map ever has an open breaker:
\* isCircuitBreakerOpen never suppresses a handler.
THEOREM BreakerIneffective == Spec => []BreakerNeverOpen
<1>1. Init => BreakerInv
  <2> SUFFICES ASSUME Init PROVE BreakerInv
    OBVIOUS
  <2>1. \A h \in Handlers : db[h] # NoRow => db[h].state = "closed"
    BY SavedClosed DEF Init
  <2>2. db \in [Handlers -> StoredType \cup {NoRow}]
    BY TypeInit DEF TypeOK
  <2>3. \A h \in Handlers : cache[h] # NoRow => cache[h].state = "closed"
    BY <2>1, <2>2, GetKeepsState DEF Init, StartupCache
  <2> QED BY <2>1, <2>3 DEF Init, BreakerInv, BreakerNeverOpen, IdleOp
<1>2. TypeOK /\ PendingSaves /\ BreakerInv /\ [Next]_vars => BreakerInv'
  BY BreakerNext
<1>3. BreakerInv => BreakerNeverOpen
  BY DEF BreakerInv
<1> QED BY <1>1, <1>2, <1>3, TypeCorrect, PTL DEF Spec

-----------------------------------------------------------------------------
(* The rate limits.                                                        *)

LEMMA SlotCount ==
  /\ Cardinality(Goroutines) \in Nat
  /\ \A P \in SUBSET Goroutines : /\ IsFiniteSet(P)
                                  /\ Cardinality(P) \in Nat
                                  /\ Cardinality(P) <= Cardinality(Goroutines)
BY GoroutineAssumption, FS_CardinalityType, FS_Subset

LEMMA OvershootMonotone ==
  ASSUME NEW n \in Nat, NEW m \in Nat, n <= m, NEW L \in SUBSET Nat,
         WithinOvershoot(m, L)
  PROVE  WithinOvershoot(n, L)
BY SlotCount DEF WithinOvershoot

\* An execution moves from the unrecorded ones into the current window.
LEMMA WindowRecord ==
  ASSUME NEW c \in [Times -> Nat], NEW cur \in Times, NEW L \in SUBSET Nat,
         NEW P \in SUBSET Goroutines, NEW g \in P, NEW o \in Int,
         WindowInv(c, cur, P, L)
  PROVE  WindowInv(Purge(Bump(c, cur), o), cur, P \ {g}, L)
<1> DEFINE d == Purge(Bump(c, cur), o)
<1>1. /\ d \in [Times -> Nat]
      /\ d[cur] <= c[cur] + 1
      /\ \A w \in Times : w # cur => d[w] <= c[w]
  BY DEF Purge, Bump, Times
<1>2. Cardinality(P \ {g}) = Cardinality(P) - 1 /\ Cardinality(P) \in Nat
      /\ Cardinality(P \ {g}) \in Nat
  BY SlotCount, FS_RemoveElement
<1> HIDE DEF d
<1>3. WithinOvershoot(d[cur] + Cardinality(P \ {g}), L)
  <2>1. d[cur] + Cardinality(P \ {g}) <= c[cur] + Cardinality(P)
    BY <1>1, <1>2
  <2> QED BY <1>1, <1>2, <2>1, OvershootMonotone DEF WindowInv
<1>4. ASSUME NEW w \in Times PROVE WithinOvershoot(d[w], L)
  <2>1. CASE w = cur
    <3>1. d[cur] <= d[cur] + Cardinality(P \ {g})
      BY <1>1, <1>2
    <3> QED BY <2>1, <3>1, <1>1, <1>2, <1>3, OvershootMonotone
  <2>2. CASE w # cur
    BY <2>2, <1>1, OvershootMonotone DEF WindowInv
  <2> QED BY <2>1, <2>2
<1>5. ASSUME NEW w \in Times, w > cur PROVE d[w] = 0
  <2>1. c[w] = 0 /\ w # cur
    BY <1>5 DEF WindowInv, Times
  <2>2. d[w] <= 0 /\ d[w] \in Nat
    BY <1>1, <2>1
  <2> QED BY <2>2
<1> QED BY <1>3, <1>4, <1>5 DEF WindowInv, d

LEMMA WindowPurge ==
  ASSUME NEW c \in [Times -> Nat], NEW cur \in Times, NEW L \in SUBSET Nat,
         NEW P \in SUBSET Goroutines, NEW o \in Int, WindowInv(c, cur, P, L)
  PROVE  WindowInv(Purge(c, o), cur, P, L)
<1> DEFINE d == Purge(c, o)
<1>1. d \in [Times -> Nat] /\ \A w \in Times : d[w] <= c[w]
  BY DEF Purge, Times
<1> HIDE DEF d
<1>2. WithinOvershoot(d[cur] + Cardinality(P), L)
  BY <1>1, SlotCount, OvershootMonotone DEF WindowInv
<1>3. \A w \in Times : WithinOvershoot(d[w], L)
  BY <1>1, OvershootMonotone DEF WindowInv
<1>4. \A w \in Times : w > cur => d[w] = 0
  BY <1>1 DEF WindowInv
<1> QED BY <1>2, <1>3, <1>4 DEF WindowInv, d

\* The clock moves on: the next window starts from zero.
LEMMA WindowTick ==
  ASSUME NEW c \in [Times -> Nat], NEW cur \in Times, NEW cur2 \in Times, cur <= cur2,
         NEW L \in SUBSET (Nat \ {0}), NEW P \in SUBSET Goroutines,
         WindowInv(c, cur, P, L)
  PROVE  WindowInv(c, cur2, P, L)
<1>1. \A w \in Times : w > cur2 => c[w] = 0
  BY DEF WindowInv, Times
<1>2. WithinOvershoot(c[cur2] + Cardinality(P), L)
  <2>1. CASE cur2 = cur
    BY <2>1 DEF WindowInv
  <2>2. CASE cur2 # cur
    <3>1. c[cur2] = 0
      BY <2>2 DEF WindowInv, Times
    <3>2. CASE Cardinality(P) = 0
      BY <3>1, <3>2 DEF WithinOvershoot
    <3>3. CASE Cardinality(P) # 0
      <4>1. PICK l \in L : TRUE
        BY <3>3, SlotCount DEF WindowInv, WithinOvershoot
      <4>2. Cardinality(P) <= l - 1 + Cardinality(Goroutines)
        BY SlotCount
      <4> QED BY <3>1, <4>2, SlotCount DEF WithinOvershoot
    <3> QED BY <3>2, <3>3
  <2> QED BY <2>1, <2>2
<1> QED BY <1>1, <1>2 DEF WindowInv

\* A match found the current window below a limit: whatever is in flight
\* afterwards is within the bound.
LEMMA WindowMatch ==
  ASSUME NEW c \in [Times -> Nat], NEW cur \in Times, NEW L \in SUBSET Nat,
         NEW P, NEW Q \in SUBSET Goroutines, NEW l \in L, c[cur] < l,
         WindowInv(c, cur, P, L)
  PROVE  WindowInv(c, cur, Q, L)
<1>1. c[cur] + Cardinality(Q) <= l - 1 + Cardinality(Goroutines)
  BY SlotCount
<1> QED BY <1>1 DEF WindowInv, WithinOvershoot

LEMMA WindowZero ==
  ASSUME NEW cur \in Times, NEW L
  PROVE  WindowInv([w \in Times |-> 0], cur, {}, L)
BY FS_EmptySet DEF WindowInv, WithinOvershoot

LEMMA LimitSets ==
  /\ {c.perMinute : c \in Configs} \in SUBSET Nat
  /\ {c.perHour : c \in Configs} \in SUBSET Nat
  /\ {c.perSender : c \in Configs} \in SUBSET Nat
BY ConfigAssumption DEF ConfigType

\* Steps that leave the limiters, the clock and the unrecorded executions alone.
LEMMA OvershootFrame ==
  ASSUME OvershootInv, limiter' = limiter, now' = now,
         \A g \in Goroutines, h \in Handlers :
            \/ exec'[g][h] = exec[g][h]
            \/ exec'[g][h].pc # "start" /\ exec[g][h].pc # "start"
  PROVE  OvershootInv'
<1>1. ASSUME NEW h \in Handlers
      PROVE  /\ Unrecorded(h)' = Unrecorded(h)
             /\ \A s \in Senders : UnrecordedFrom(h, s)' = UnrecordedFrom(h, s)
  BY DEF Unrecorded, UnrecordedFrom
<1> QED BY <1>1 DEF OvershootInv, MinuteInv, HourInv, SenderInv

LEMMA OvershootExecute ==
  ASSUME TypeOK, OvershootInv, NEW g \in Goroutines, NEW h \in Handlers,
         ExecuteHandler(g, h) \/ SendReturns(g, h)
  PROVE  OvershootInv'
<1>e. exec[g][h] \in ExecType
  BY DEF TypeOK
<1>1. CASE RecordExecution(g, h)
  <2> DEFINE s == exec[g][h].from
             om == (now - 2 * HourLen) \div MinuteLen
             oh == (now - 2 * HourLen) \div HourLen
  <2>0. /\ now \in Times /\ om \in Int /\ oh \in Int
        /\ MinuteOf(now) \in Times /\ HourOf(now) \in Times
    BY ClockAssumption, WindowInTimes DEF TypeOK, Times
  <2>1. PICK pc \in PCs : pc # "start" /\ Goto(g, h, pc)
    BY <1>1 DEF RecordExecution, PCs
  <2>2. \A g2 \in Goroutines, h2 \in Handlers :
           IF g2 = g /\ h2 = h THEN exec'[g2][h2].pc # "start"
                               ELSE exec'[g2][h2] = exec[g2][h2]
    <3>1. [exec[g][h] EXCEPT !.pc = pc].pc = pc
      BY <1>e DEF ExecType
    <3>2. Become(g, h, [exec[g][h] EXCEPT !.pc = pc])
      BY <2>1 DEF Goto
    <3>3. \A g2 \in Goroutines, h2 \in Handlers : exec'[g2][h2] =
             IF g2 = g /\ h2 = h THEN [exec[g][h] EXCEPT !.pc = pc] ELSE exec[g2][h2]
      BY <3>2, BecomeFrame
    <3> QED BY <2>1, <3>1, <3>3
  <2>3. exec[g][h].pc = "start" /\ now' = now
    BY <1>1 DEF RecordExecution
  <2>4. ASSUME NEW k \in Handlers
        PROVE  /\ Unrecorded(k) \in SUBSET Goroutines
               /\ Unrecorded(k)' = IF k = h THEN Unrecorded(k) \ {g} ELSE Unrecorded(k)
               /\ \A q : UnrecordedFrom(k, q)' =
                     IF k = h /\ q = s THEN UnrecordedFrom(k, q) \ {g}
                                      ELSE UnrecordedFrom(k, q)
    BY <2>2, <2>3 DEF Unrecorded, UnrecordedFrom
  <2>5. g \in Unrecorded(h) /\ g \in UnrecordedFrom(h, s)
    BY <2>3 DEF Unrecorded, UnrecordedFrom
  <2>6. /\ limiter[h] \in LimiterType
        /\ limiter'[h] = Recorded(limiter[h], s)
        /\ \A k \in Handlers : k # h => limiter'[k] = limiter[k]
    BY <1>1 DEF RecordExecution, TypeOK
  <2>7. /\ limiter'[h].minute = Purge(Bump(limiter[h].minute, MinuteOf(now)), om)
        /\ limiter'[h].hour = Purge(Bump(limiter[h].hour, HourOf(now)), oh)
        /\ \A q \in Senders : limiter'[h].sender[q] =
              Purge(IF q = s THEN Bump(limiter[h].sender[q], HourOf(now))
                             ELSE limiter[h].sender[q], oh)
    BY <2>6 DEF Recorded
  <2> HIDE DEF om, oh, s
  <2>8. ASSUME MinuteInv(h) PROVE MinuteInv(h)'
    <3>1. limiter[h].minute \in [Times -> Nat]
      BY <2>6 DEF LimiterType
    <3>2. WindowInv(limiter'[h].minute, MinuteOf(now), Unrecorded(h) \ {g},
                    {c.perMinute : c \in Configs})
      BY <2>0, <2>4, <2>5, <2>7, <2>8, <3>1, LimitSets, WindowRecord DEF MinuteInv
    <3> QED BY <2>3, <2>4, <3>2 DEF MinuteInv
  <2>9. ASSUME HourInv(h) PROVE HourInv(h)'
    <3>1. limiter[h].hour \in [Times -> Nat]
      BY <2>6 DEF LimiterType
    <3>2. WindowInv(limiter'[h].hour, HourOf(now), Unrecorded(h) \ {g},
                    {c.perHour : c \in Configs})
      BY <2>0, <2>4, <2>5, <2>7, <2>9, <3>1, LimitSets, WindowRecord DEF HourInv
    <3> QED BY <2>3, <2>4, <3>2 DEF HourInv
  <2>10. ASSUME NEW q \in Senders, SenderInv(h, q) PROVE SenderInv(h, q)'
    <3>1. limiter[h].sender[q] \in [Times -> Nat]
      BY <2>6 DEF LimiterType
    <3>2. UnrecordedFrom(h, q) \in SUBSET Goroutines
      BY DEF UnrecordedFrom, Unrecorded
    <3>3. CASE q = s
      <4>1. WindowInv(limiter'[h].sender[q], HourOf(now), UnrecordedFrom(h, q) \ {g},
                      {c.perSender : c \in Configs})
        BY <2>0, <2>5, <2>7, <2>10, <3>1, <3>2, <3>3, LimitSets, WindowRecord DEF SenderInv
      <4> QED BY <2>3, <2>4, <3>3, <4>1 DEF SenderInv
    <3>4. CASE q # s
      <4>1. WindowInv(limiter'[h].sender[q], HourOf(now), UnrecordedFrom(h, q),
                      {c.perSender : c \in Configs})
        BY <2>0, <2>7, <2>10, <3>1, <3>2, <3>4, LimitSets, WindowPurge DEF SenderInv
      <4> QED BY <2>3, <2>4, <3>4, <4>1 DEF SenderInv
    <3> QED BY <3>3, <3>4
  <2>11. ASSUME NEW k \in Handlers, k # h
         PROVE  /\ MinuteInv(k)' <=> MinuteInv(k)
                /\ HourInv(k)' <=> HourInv(k)
                /\ \A q \in Senders : SenderInv(k, q)' <=> SenderInv(k, q)
    BY <2>3, <2>4, <2>6, <2>11 DEF MinuteInv, HourInv, SenderInv
  <2> QED BY <2>8, <2>9, <2>10, <2>11 DEF OvershootInv
<1>2. CASE ~RecordExecution(g, h)
  <2>1. limiter' = limiter /\ now' = now /\ exec[g][h].pc # "start"
    BY <1>2 DEF ExecuteHandler, LogInvalidAction, RunAction, SendReturns, LogHandlerExecution,
         ReadCircuitBreaker, SaveCircuitBreaker, RecordStats
  <2>2. PICK e : Become(g, h, e) /\ e.pc # "start"
    <3>1. ASSUME NEW pc \in PCs \ {"start"}
          PROVE  /\ [exec[g][h] EXCEPT !.pc = pc].pc # "start"
                 /\ \A x : [exec[g][h] EXCEPT !.pc = pc, !.ok = x].pc # "start"
                 /\ \A x : [exec[g][h] EXCEPT !.pc = pc, !.view = x].pc # "start"
      BY <1>e DEF ExecType
    <3>2. IdleExec.pc # "start"
      BY DEF IdleExec
    <3>3. CASE LogInvalidAction(g, h) \/ RecordStats(g, h)
      BY <3>2, <3>3 DEF LogInvalidAction, RecordStats, Finish
    <3>4. CASE LogHandlerExecution(g, h)
      BY <3>1, <3>4 DEF LogHandlerExecution, Goto, PCs
    <3>5. CASE RunAction(g, h) \/ SendReturns(g, h)
      <4>1. \/ \E ok \in BOOLEAN : Become(g, h, [exec[g][h] EXCEPT !.pc = "log", !.ok = ok])
            \/ Become(g, h, [exec[g][h] EXCEPT !.pc = "send"])
        BY <3>5 DEF RunAction, SendReturns, Goto
      <4> QED BY <3>1, <4>1 DEF PCs
    <3>6. CASE SaveCircuitBreaker(g, h)
      BY <3>1, <3>6 DEF SaveCircuitBreaker, PCs
    <3>7. CASE ReadCircuitBreaker(g, h)
      <4>1. \/ Become(g, h, [exec[g][h] EXCEPT !.pc = "cbSave",
                              !.view = BreakerSet(db[h], exec[g][h].ok)])
            \/ Become(g, h, [exec[g][h] EXCEPT !.pc = "stats"])
        BY <3>7 DEF ReadCircuitBreaker, Goto
      <4> QED BY <3>1, <4>1 DEF PCs
    <3> QED BY <1>2, <3>3, <3>4, <3>5, <3>6, <3>7 DEF ExecuteHandler
  <2> QED BY <2>1, <2>2, BecomeFrame, OvershootFrame
<1> QED BY <1>1, <1>2

LEMMA OvershootMatch ==
  ASSUME TypeOK, OvershootInv, NEW g \in Goroutines, NEW s \in Senders,
         ExecuteHandlersForEvent(g, s)
  PROVE  OvershootInv'
<1>0. /\ now' = now /\ limiter' = limiter /\ now \in Times
      /\ MinuteOf(now) \in Times /\ HourOf(now) \in Times
  BY WindowInTimes DEF ExecuteHandlersForEvent, TypeOK
<1>1. \A g2 \in Goroutines, h \in Handlers : exec'[g2][h] =
         IF g2 # g THEN exec[g2][h]
         ELSE IF Matches(h, s) THEN [IdleExec EXCEPT !.pc = "start", !.from = s,
                                                     !.valid = cache[h].cfg.valid]
         ELSE IdleExec
  BY DEF ExecuteHandlersForEvent, TypeOK
<1>2. \A h \in Handlers : exec[g][h].pc = "idle"
  BY DEF ExecuteHandlersForEvent, SlotIdle
<1>3. \A v : [IdleExec EXCEPT !.pc = "start", !.from = s, !.valid = v].from = s
  BY DEF IdleExec
<1> SUFFICES ASSUME NEW h \in Handlers
             PROVE  /\ (\A c \in Configs : c.perMinute > 0) => MinuteInv(h)'
                    /\ (\A c \in Configs : c.perHour > 0) => HourInv(h)'
                    /\ (\A c \in Configs : c.perSender > 0) =>
                          \A q \in Senders : SenderInv(h, q)'
  BY DEF OvershootInv
<1>t. limiter[h] \in LimiterType
  BY DEF TypeOK
<1>4. /\ Unrecorded(h)' \in SUBSET Goroutines
      /\ \A q : UnrecordedFrom(h, q)' \in SUBSET Goroutines
      /\ \A q : q # s => UnrecordedFrom(h, q)' = UnrecordedFrom(h, q)
      /\ ~Matches(h, s) => /\ Unrecorded(h)' = Unrecorded(h)
                           /\ UnrecordedFrom(h, s)' = UnrecordedFrom(h, s)
  <2>1. IdleExec.pc = "idle"
    BY DEF IdleExec
  <2>2. Unrecorded(h)' \in SUBSET Goroutines
        /\ \A q : UnrecordedFrom(h, q)' \in SUBSET Goroutines
    BY DEF Unrecorded, UnrecordedFrom
  <2>3. ~Matches(h, s) => \A g2 \in Goroutines :
           \/ exec'[g2][h] = exec[g2][h]
           \/ exec'[g2][h].pc # "start" /\ exec[g2][h].pc # "start"
    BY <1>1, <1>2, <2>1
  <2>4. ~Matches(h, s) => /\ Unrecorded(h)' = Unrecorded(h)
                          /\ UnrecordedFrom(h, s)' = UnrecordedFrom(h, s)
    BY <2>3 DEF Unrecorded, UnrecordedFrom
  <2>5. ASSUME NEW q, q # s PROVE UnrecordedFrom(h, q)' = UnrecordedFrom(h, q)
    <3>1. \A g2 \in Goroutines :
             \/ exec'[g2][h] = exec[g2][h]
             \/ exec[g2][h].pc # "start" /\ exec'[g2][h].pc # "start"
             \/ exec[g2][h].pc # "start" /\ exec'[g2][h].from # q
      <4> SUFFICES ASSUME NEW g2 \in Goroutines
                   PROVE  \/ exec'[g2][h] = exec[g2][h]
                          \/ exec[g2][h].pc # "start" /\ exec'[g2][h].pc # "start"
                          \/ exec[g2][h].pc # "start" /\ exec'[g2][h].from # q
        OBVIOUS
      <4>1. CASE g2 # g
        BY <4>1, <1>1
      <4>2. CASE g2 = g /\ ~Matches(h, s)
        BY <4>2, <1>1, <1>2, <2>1
      <4>3. CASE g2 = g /\ Matches(h, s)
        <5>1. PICK v : exec'[g][h] = [IdleExec EXCEPT !.pc = "start", !.from = s, !.valid = v]
          BY <4>3, <1>1
        <5> QED BY <4>3, <5>1, <1>2, <1>3, <2>5
      <4> QED BY <4>1, <4>2, <4>3
    <3> QED BY <3>1 DEF Unrecorded, UnrecordedFrom
  <2> QED BY <2>2, <2>4, <2>5
<1>5. CASE ~Matches(h, s)
  <2>1. \A q : UnrecordedFrom(h, q)' = UnrecordedFrom(h, q)
    BY <1>4, <1>5
  <2> QED BY <1>0, <1>4, <1>5, <2>1 DEF OvershootInv, MinuteInv, HourInv, SenderInv
<1>6. CASE Matches(h, s)
  <2>1. cache[h].cfg \in Configs /\ CheckRateLimits(cache[h], limiter[h], s)
    BY <1>6 DEF Matches, TypeOK, MapType
  <2>2. ASSUME \A c \in Configs : c.perMinute > 0
        PROVE  MinuteInv(h)'
    <3>1. limiter[h].minute[MinuteOf(now)] < cache[h].cfg.perMinute
      BY <2>1, <2>2 DEF CheckRateLimits
    <3>2. WindowInv(limiter[h].minute, MinuteOf(now), Unrecorded(h)',
                    {c.perMinute : c \in Configs})
      <4>1. WindowInv(limiter[h].minute, MinuteOf(now), Unrecorded(h),
                      {c.perMinute : c \in Configs})
        BY <2>2 DEF OvershootInv, MinuteInv
      <4>2. limiter[h].minute \in [Times -> Nat]
        BY <1>t DEF LimiterType
      <4> QED BY <1>0, <1>4, <2>1, <3>1, <4>1, <4>2, LimitSets, WindowMatch
    <3> QED BY <1>0, <3>2 DEF MinuteInv
  <2>3. ASSUME \A c \in Configs : c.perHour > 0
        PROVE  HourInv(h)'
    <3>1. limiter[h].hour[HourOf(now)] < cache[h].cfg.perHour
      BY <2>1, <2>3 DEF CheckRateLimits
    <3>2. WindowInv(limiter[h].hour, HourOf(now), Unrecorded(h)',
                    {c.perHour : c \in Configs})
      <4>1. WindowInv(limiter[h].hour, HourOf(now), Unrecorded(h),
                      {c.perHour : c \in Configs})
        BY <2>3 DEF OvershootInv, HourInv
      <4>2. limiter[h].hour \in [Times -> Nat]
        BY <1>t DEF LimiterType
      <4> QED BY <1>0, <1>4, <2>1, <3>1, <4>1, <4>2, LimitSets, WindowMatch
    <3> QED BY <1>0, <3>2 DEF HourInv
  <2>4. ASSUME \A c \in Configs : c.perSender > 0, NEW q \in Senders
        PROVE  SenderInv(h, q)'
    <3>1. SenderInv(h, q)
      BY <2>4 DEF OvershootInv
    <3>2. CASE q # s
      BY <1>0, <1>4, <3>1, <3>2 DEF SenderInv
    <3>3. CASE q = s
      <4>1. limiter[h].sender[s][HourOf(now)] < cache[h].cfg.perSender
        BY <2>1, <2>4 DEF CheckRateLimits
      <4>2. limiter[h].sender[s] \in [Times -> Nat]
        BY <1>t DEF LimiterType
      <4>3. WindowInv(limiter[h].sender[s], HourOf(now), UnrecordedFrom(h, s)',
                      {c.perSender : c \in Configs})
        <5>1. WindowInv(limiter[h].sender[s], HourOf(now), UnrecordedFrom(h, s),
                        {c.perSender : c \in Configs})
          BY <3>1, <3>3 DEF SenderInv
        <5> QED BY <1>0, <1>4, <2>1, <4>1, <4>2, <5>1, LimitSets, WindowMatch
      <4> QED BY <1>0, <3>3, <4>3 DEF SenderInv
    <3> QED BY <3>2, <3>3
  <2> QED BY <2>2, <2>3, <2>4
<1> QED BY <1>5, <1>6

LEMMA OvershootTick ==
  ASSUME TypeOK, OvershootInv, Tick PROVE OvershootInv'
<1>0. /\ now \in Times /\ now' \in Times /\ now' = now + 1
      /\ limiter' = limiter /\ exec' = exec
  BY BoundAssumption DEF Tick, TypeOK, Times, Nats, pipelineVars
<1>1. /\ MinuteOf(now) \in Times /\ MinuteOf(now') \in Times
      /\ MinuteOf(now) <= MinuteOf(now')
      /\ HourOf(now) \in Times /\ HourOf(now') \in Times
      /\ HourOf(now) <= HourOf(now')
  <2>1. /\ MinuteOf(now) \in Times /\ MinuteOf(now') \in Times
        /\ HourOf(now) \in Times /\ HourOf(now') \in Times
    BY <1>0, WindowInTimes
  <2>2. now \in Nat
    BY <1>0 DEF Times
  <2>3. /\ now \div MinuteLen <= (now + 1) \div MinuteLen
        /\ now \div HourLen <= (now + 1) \div HourLen
    BY <2>2, DivMonotone, ClockAssumption
  <2> QED BY <1>0, <2>1, <2>3 DEF MinuteOf, HourOf
<1> SUFFICES ASSUME NEW h \in Handlers
             PROVE  /\ (\A c \in Configs : c.perMinute > 0) => MinuteInv(h)'
                    /\ (\A c \in Configs : c.perHour > 0) => HourInv(h)'
                    /\ (\A c \in Configs : c.perSender > 0) =>
                          \A q \in Senders : SenderInv(h, q)'
  BY DEF OvershootInv
<1>2. /\ Unrecorded(h)' = Unrecorded(h) /\ Unrecorded(h) \in SUBSET Goroutines
      /\ \A q : /\ UnrecordedFrom(h, q)' = UnrecordedFrom(h, q)
                /\ UnrecordedFrom(h, q) \in SUBSET Goroutines
  BY <1>0 DEF Unrecorded, UnrecordedFrom
<1>3. /\ limiter[h].minute \in [Times -> Nat] /\ limiter[h].hour \in [Times -> Nat]
      /\ \A q \in Senders : limiter[h].sender[q] \in [Times -> Nat]
  BY DEF TypeOK, LimiterType
<1>4. ASSUME \A c \in Configs : c.perMinute > 0
      PROVE  MinuteInv(h)'
  <2>1. {c.perMinute : c \in Configs} \in SUBSET (Nat \ {0})
    BY <1>4, LimitSets
  <2>2. WindowInv(limiter[h].minute, MinuteOf(now), Unrecorded(h),
                  {c.perMinute : c \in Configs})
    BY <1>4 DEF OvershootInv, MinuteInv
  <2>3. WindowInv(limiter[h].minute, MinuteOf(now'), Unrecorded(h),
                  {c.perMinute : c \in Configs})
    BY <1>1, <1>2, <1>3, <2>1, <2>2, WindowTick
  <2> QED BY <1>0, <1>2, <2>3 DEF MinuteInv
<1>5. ASSUME \A c \in Configs : c.perHour > 0
      PROVE  HourInv(h)'
  <2>1. {c.perHour : c \in Configs} \in SUBSET (Nat \ {0})
    BY <1>5, LimitSets
  <2>2. WindowInv(limiter[h].hour, HourOf(now), Unrecorded(h),
                  {c.perHour : c \in Configs})
    BY <1>5 DEF OvershootInv, HourInv
  <2>3. WindowInv(limiter[h].hour, HourOf(now'), Unrecorded(h),
                  {c.perHour : c \in Configs})
    BY <1>1, <1>2, <1>3, <2>1, <2>2, WindowTick
  <2> QED BY <1>0, <1>2, <2>3 DEF HourInv
<1>6. ASSUME \A c \in Configs : c.perSender > 0, NEW q \in Senders
      PROVE  SenderInv(h, q)'
  <2>1. {c.perSender : c \in Configs} \in SUBSET (Nat \ {0})
    BY <1>6, LimitSets
  <2>2. WindowInv(limiter[h].sender[q], HourOf(now), UnrecordedFrom(h, q),
                  {c.perSender : c \in Configs})
    BY <1>6 DEF OvershootInv, SenderInv
  <2>3. WindowInv(limiter[h].sender[q], HourOf(now'), UnrecordedFrom(h, q),
                  {c.perSender : c \in Configs})
    BY <1>1, <1>2, <1>3, <2>1, <2>2, WindowTick
  <2> QED BY <1>0, <1>2, <2>3 DEF SenderInv
<1> QED BY <1>4, <1>5, <1>6

\* No limiter, no goroutine: the state of a process that has just started.
LEMMA OvershootStart ==
  ASSUME now \in Times, limiter = [h \in Handlers |-> NewLimiter], exec = IdleExecs
  PROVE  OvershootInv
<1>1. MinuteOf(now) \in Times /\ HourOf(now) \in Times
  BY WindowInTimes
<1>2. ASSUME NEW h \in Handlers
      PROVE  /\ Unrecorded(h) = {} /\ \A s : UnrecordedFrom(h, s) = {}
             /\ limiter[h].minute = [w \in Times |-> 0]
             /\ limiter[h].hour = [w \in Times |-> 0]
             /\ \A s \in Senders : limiter[h].sender[s] = [w \in Times |-> 0]
  BY DEF Unrecorded, UnrecordedFrom, IdleExecs, IdleExec, NewLimiter
<1> QED BY <1>1, <1>2, WindowZero DEF OvershootInv, MinuteInv, HourInv, SenderInv

LEMMA OvershootNext ==
  ASSUME TypeOK, OvershootInv, [Next]_vars PROVE OvershootInv'
<1>1. CASE HandlerOperation
  <2>1. exec' = exec /\ limiter' = limiter /\ now' = now
    BY <1>1 DEF HandlerOperation, RegisterHandler, DeleteHandler, UpdateHandlerEnabled,
         UpdateHandlerRead, UpdateHandlerSave, LoadHandlersList, LoadHandlersGet,
         LoadHandlersDone, pipelineVars
  <2> QED BY <2>1, OvershootFrame
<1>2. CASE Restart
  <2>1. /\ now' \in Times /\ limiter' = [h \in Handlers |-> NewLimiter]
        /\ exec' = IdleExecs
    BY <1>2 DEF Restart, TypeOK
  <2>2. (now \in Times /\ limiter = [h \in Handlers |-> NewLimiter] /\ exec = IdleExecs
           => OvershootInv)'
    BY OvershootStart, PTL
  <2> QED BY <2>1, <2>2
<1>3. CASE UNCHANGED vars
  BY <1>3, OvershootFrame DEF vars
<1> QED BY <1>1, <1>2, <1>3, OvershootMatch, OvershootExecute, OvershootTick DEF Next

\* For every number of concurrent events, every set of limits and every length
\* of a minute and an hour, a window exceeds the limit by less than the number
\* of events in flight.
THEOREM OvershootBounded == Spec => []LimitOvershootBounded
<1>1. Init => OvershootInv
  <2>1. Init => now \in Times
    BY BoundAssumption DEF Init, Times, Nats
  <2> QED BY <2>1, OvershootStart DEF Init
<1>2. TypeOK /\ OvershootInv /\ [Next]_vars => OvershootInv'
  BY OvershootNext
<1>3. OvershootInv => LimitOvershootBounded
  BY DEF OvershootInv, LimitOvershootBounded, MinuteInv, HourInv, SenderInv, WindowInv
<1> QED BY <1>1, <1>2, <1>3, TypeCorrect, PTL DEF Spec
-----------------------------------------------------------------------------
(* The audit log.                                                          *)

\* The statistics of a handler; a row that is gone has none, and a row that is saved
\* starts again from 0.
Execs(h) == IF db[h] = NoRow THEN 0 ELSE db[h].execs
Errs(h) == IF db[h] = NoRow THEN 0 ELSE db[h].errs

\* The failures, and the executions, that the log has or lost a line of.
Failures(h) == log[h].failed + lost[h]
Lines(h) == log[h].ok + log[h].failed + lost[h]

\* AuditLogCoversStats for one handler, whether or not it has a row: SaveHandler may
\* bring the row back while executions of the old one are still to be added.
Audited(h) ==
    /\ Errs(h) + Cardinality(UnaccountedFailed(h)) <= Failures(h)
    /\ Execs(h) + Cardinality(Unaccounted(h)) <= Lines(h)

AuditInv == \A h \in Handlers : Audited(h)

\* Counting executions: a part has no more elements, one more element adds at most one,
\* and one element less takes one away.
LEMMA ExecCount ==
  /\ \A P, Q \in SUBSET Goroutines : P \subseteq Q => Cardinality(P) <= Cardinality(Q)
  /\ \A P, Q \in SUBSET Goroutines, g \in Goroutines :
        P \subseteq Q \cup {g} => Cardinality(P) <= Cardinality(Q) + 1
  /\ \A P, Q \in SUBSET Goroutines : \A g \in Q :
        P \subseteq Q \ {g} => Cardinality(P) + 1 <= Cardinality(Q)
<1>1. ASSUME NEW P \in SUBSET Goroutines, NEW Q \in SUBSET Goroutines, P \subseteq Q
      PROVE  Cardinality(P) <= Cardinality(Q)
  BY <1>1, SlotCount, FS_Subset
<1>2. ASSUME NEW P \in SUBSET Goroutines, NEW Q \in SUBSET Goroutines, NEW g \in Goroutines,
             P \subseteq Q \cup {g}
      PROVE  Cardinality(P) <= Cardinality(Q) + 1
  <2>1. Cardinality(Q \cup {g}) = Cardinality(Q) \/ Cardinality(Q \cup {g}) = Cardinality(Q) + 1
    BY SlotCount, FS_AddElement, Zenon
  <2>2. Q \cup {g} \in SUBSET Goroutines /\ Cardinality(Q) \in Nat
    BY SlotCount
  <2>3. Cardinality(P) <= Cardinality(Q \cup {g}) /\ Cardinality(P) \in Nat
    BY <1>1, <1>2, <2>2, SlotCount
  <2> QED BY <2>1, <2>2, <2>3
<1>3. ASSUME NEW P \in SUBSET Goroutines, NEW Q \in SUBSET Goroutines, NEW g \in Q,
             P \subseteq Q \ {g}
      PROVE  Cardinality(P) + 1 <= Cardinality(Q)
  <2>1. Cardinality(Q \ {g}) = Cardinality(Q) - 1
    BY SlotCount, FS_RemoveElement
  <2>2. Cardinality(P) <= Cardinality(Q \ {g}) /\ Cardinality(P) \in Nat /\ Cardinality(Q) \in Nat
    BY <1>1, <1>3, SlotCount
  <2> QED BY <2>1, <2>2
<1> QED BY <1>1, <1>2, <1>3

LEMMA AuditTypes ==
  ASSUME TypeOK, NEW h \in Handlers
  PROVE  /\ Execs(h) \in Nat /\ Errs(h) \in Nat
         /\ Failures(h) \in Nat /\ Lines(h) \in Nat
         /\ Unaccounted(h) \in SUBSET Goroutines
         /\ UnaccountedFailed(h) \in SUBSET Goroutines
         /\ Cardinality(Unaccounted(h)) \in Nat
         /\ Cardinality(UnaccountedFailed(h)) \in Nat
<1>1. /\ Unaccounted(h) \in SUBSET Goroutines
      /\ UnaccountedFailed(h) \in SUBSET Goroutines
  BY DEF Unaccounted, UnaccountedFailed
<1>2. Execs(h) \in Nat /\ Errs(h) \in Nat
  BY DEF TypeOK, Execs, Errs, StoredType
<1>3. Failures(h) \in Nat /\ Lines(h) \in Nat
  BY DEF TypeOK, Failures, Lines
<1> QED BY <1>1, <1>2, <1>3, SlotCount

\* The same in the next state.
LEMMA AuditTypesNext ==
  ASSUME TypeOK', NEW h \in Handlers
  PROVE  /\ Execs(h)' \in Nat /\ Errs(h)' \in Nat
         /\ Failures(h)' \in Nat /\ Lines(h)' \in Nat
         /\ Unaccounted(h)' \in SUBSET Goroutines
         /\ UnaccountedFailed(h)' \in SUBSET Goroutines
         /\ Cardinality(Unaccounted(h)') \in Nat
         /\ Cardinality(UnaccountedFailed(h)') \in Nat
<1>1. /\ Unaccounted(h)' \in SUBSET Goroutines
      /\ UnaccountedFailed(h)' \in SUBSET Goroutines
  BY DEF Unaccounted, UnaccountedFailed
<1>2. Execs(h)' \in Nat /\ Errs(h)' \in Nat
  BY DEF TypeOK, Execs, Errs, StoredType
<1>3. Failures(h)' \in Nat /\ Lines(h)' \in Nat
  BY DEF TypeOK, Failures, Lines
<1> QED BY <1>1, <1>2, <1>3, SlotCount

\* No execution has to be added that was not there before, the statistics do not grow, and
\* the log does not shrink.
LEMMA AuditShrinks ==
  ASSUME TypeOK, TypeOK', NEW h \in Handlers, Audited(h),
         Unaccounted(h)' \subseteq Unaccounted(h),
         UnaccountedFailed(h)' \subseteq UnaccountedFailed(h),
         Execs(h)' <= Execs(h), Errs(h)' <= Errs(h),
         Failures(h) <= Failures(h)', Lines(h) <= Lines(h)'
  PROVE  Audited(h)'
<1>1. /\ Cardinality(Unaccounted(h)') <= Cardinality(Unaccounted(h))
      /\ Cardinality(UnaccountedFailed(h)') <= Cardinality(UnaccountedFailed(h))
  BY AuditTypes, AuditTypesNext, ExecCount
<1>2. Errs(h)' + Cardinality(UnaccountedFailed(h)') <= Failures(h)'
  BY <1>1, AuditTypes, AuditTypesNext DEF Audited
<1>3. Execs(h)' + Cardinality(Unaccounted(h)') <= Lines(h)'
  BY <1>1, AuditTypes, AuditTypesNext DEF Audited
<1> QED BY <1>2, <1>3 DEF Audited

\* What a step of one goroutine does to the executions that are still to be added.
LEMMA BecomeUnaccounted ==
  ASSUME TypeOK, NEW g \in Goroutines, NEW h \in Handlers, NEW e, Become(g, h, e)
  PROVE  /\ Unaccounted(h)' \subseteq Unaccounted(h) \cup {g}
         /\ UnaccountedFailed(h)' \subseteq UnaccountedFailed(h) \cup {g}
         /\ e.pc \notin {"cbRead", "cbSave", "stats"} =>
               /\ Unaccounted(h)' \subseteq Unaccounted(h) \ {g}
               /\ UnaccountedFailed(h)' \subseteq UnaccountedFailed(h) \ {g}
         /\ e.ok => UnaccountedFailed(h)' \subseteq UnaccountedFailed(h) \ {g}
         /\ \A h2 \in Handlers : h2 # h =>
               /\ Unaccounted(h2)' = Unaccounted(h2)
               /\ UnaccountedFailed(h2)' = UnaccountedFailed(h2)
<1>1. \A g2 \in Goroutines, h2 \in Handlers :
         exec'[g2][h2] = IF g2 = g /\ h2 = h THEN e ELSE exec[g2][h2]
  BY BecomeFrame
<1> QED BY <1>1 DEF Unaccounted, UnaccountedFailed

\* One execution is one line more, in the log or lost.
LEMMA LoggedLine ==
  ASSUME TypeOK, NEW h \in Handlers, NEW ok \in BOOLEAN, LogExecution(h, ok)
  PROVE  /\ Lines(h)' = Lines(h) + 1
         /\ ~ok => Failures(h)' = Failures(h) + 1
         /\ ok => Failures(h)' >= Failures(h)
<1>0. lost[h] \in Nat /\ log[h].ok \in Nat /\ log[h].failed \in Nat
  BY DEF TypeOK
<1>1. \/ /\ lost'[h] = lost[h]
         /\ log'[h].ok = IF ok THEN log[h].ok + 1 ELSE log[h].ok
         /\ log'[h].failed = IF ok THEN log[h].failed ELSE log[h].failed + 1
      \/ lost'[h] = lost[h] + 1 /\ log'[h] = log[h]
  BY DEF LogExecution, TypeOK
<1> QED BY <1>0, <1>1 DEF Lines, Failures

\* A log line is written before its execution counts as to be added.
LEMMA AuditLogged ==
  ASSUME TypeOK, TypeOK', NEW g \in Goroutines, NEW h \in Handlers, Audited(h),
         LogHandlerExecution(g, h)
  PROVE  Audited(h)'
<1>1. /\ exec[g][h].pc = "log" /\ db' = db /\ exec[g][h] \in ExecType
      /\ Become(g, h, [exec[g][h] EXCEPT !.pc = "cbRead"])
  BY DEF LogHandlerExecution, Goto, TypeOK
<1>2. [exec[g][h] EXCEPT !.pc = "cbRead"].ok = exec[g][h].ok
  BY <1>1 DEF ExecType
<1>3. Execs(h)' = Execs(h) /\ Errs(h)' = Errs(h)
  BY <1>1 DEF Execs, Errs
<1>4. Cardinality(Unaccounted(h)') <= Cardinality(Unaccounted(h)) + 1
  BY <1>1, BecomeUnaccounted, AuditTypes, AuditTypesNext, ExecCount
<1>5. /\ Lines(h)' = Lines(h) + 1
      /\ ~exec[g][h].ok => Failures(h)' = Failures(h) + 1
      /\ exec[g][h].ok => Failures(h)' >= Failures(h)
  BY <1>1, LoggedLine DEF LogHandlerExecution, ExecType
<1>6. Execs(h)' + Cardinality(Unaccounted(h)') <= Lines(h)'
  BY <1>3, <1>4, <1>5, AuditTypes, AuditTypesNext DEF Audited
<1>7. CASE exec[g][h].ok
  <2>1. UnaccountedFailed(h)' \subseteq UnaccountedFailed(h)
    <3>1. PICK e : e = [exec[g][h] EXCEPT !.pc = "cbRead"]
      OBVIOUS
    <3>2. Become(g, h, e) /\ e.ok
      BY <1>1, <1>2, <1>7, <3>1
    <3> QED BY <3>2, BecomeUnaccounted
  <2>2. Cardinality(UnaccountedFailed(h)') <= Cardinality(UnaccountedFailed(h))
    BY <2>1, AuditTypes, AuditTypesNext, ExecCount
  <2>3. Errs(h)' + Cardinality(UnaccountedFailed(h)') <= Failures(h)'
    BY <1>3, <1>5, <1>7, <2>2, AuditTypes, AuditTypesNext DEF Audited
  <2> QED BY <1>6, <2>3 DEF Audited
<1>8. CASE ~exec[g][h].ok
  <2>1. Cardinality(UnaccountedFailed(h)') <= Cardinality(UnaccountedFailed(h)) + 1
    BY <1>1, BecomeUnaccounted, AuditTypes, AuditTypesNext, ExecCount
  <2>2. Errs(h)' + Cardinality(UnaccountedFailed(h)') <= Failures(h)'
    BY <1>3, <1>5, <1>8, <2>1, AuditTypes, AuditTypesNext DEF Audited
  <2> QED BY <1>6, <2>2 DEF Audited
<1> QED BY <1>7, <1>8

\* UpdateHandlerStats counts an execution, and a failed one as an error.
LEMMA StatsCount ==
  ASSUME NEW row \in StoredType, NEW ok \in BOOLEAN, now \in Times
  PROVE  LET new == UpdateHandlerStats(row, ok)
         IN  /\ new \in StoredType
             /\ new.execs = row.execs + 1
             /\ ok => new.errs = row.errs
             /\ ~ok => new.errs = row.errs + 1
<1>0. row # NoRow
  BY NotNoRow
<1>1. CASE ok
  BY <1>0, <1>1 DEF UpdateHandlerStats, StoredType
<1>2. CASE ~ok
  <2>1. PICK n, m : n = row.execs + 1 /\ m = row.errs + 1
    OBVIOUS
  <2>2. UpdateHandlerStats(row, ok) = [row EXCEPT !.execs = n, !.errs = m, !.lastErr = now]
    BY <1>0, <1>2, <2>1 DEF UpdateHandlerStats
  <2>3. n \in Nat /\ m \in Nat
    BY <2>1 DEF StoredType
  <2> QED BY <1>2, <2>1, <2>2, <2>3 DEF StoredType
<1> QED BY <1>1, <1>2

\* The statistics take over an execution that was to be added.
LEMMA AuditStats ==
  ASSUME TypeOK, TypeOK', NEW g \in Goroutines, NEW h \in Handlers, Audited(h),
         RecordStats(g, h)
  PROVE  Audited(h)'
<1>1. /\ exec[g][h].pc = "stats" /\ exec[g][h].ok \in BOOLEAN
      /\ Become(g, h, IdleExec) /\ IdleExec.pc = "idle"
      /\ db'[h] \in {db[h], UpdateHandlerStats(db[h], exec[g][h].ok)}
      /\ Failures(h)' = Failures(h) /\ Lines(h)' = Lines(h)
  BY DEF RecordStats, Finish, TypeOK, ExecType, IdleExec, Failures, Lines
<1>2. /\ Unaccounted(h)' \subseteq Unaccounted(h) \ {g}
      /\ UnaccountedFailed(h)' \subseteq UnaccountedFailed(h) \ {g}
  BY <1>1, BecomeUnaccounted
<1>3. CASE db[h] = NoRow \/ db'[h] = db[h]
  <2>1. db'[h] = db[h]
    BY <1>1, <1>3 DEF UpdateHandlerStats
  <2>2. Execs(h)' = Execs(h) /\ Errs(h)' = Errs(h)
    BY <2>1 DEF Execs, Errs
  <2> QED BY <1>1, <1>2, <2>2, AuditTypes, AuditShrinks
<1>4. CASE db[h] # NoRow /\ db'[h] = UpdateHandlerStats(db[h], exec[g][h].ok)
  <2>1. db[h] \in StoredType /\ db'[h] # NoRow
    <3>1. db[h] \in StoredType
      BY <1>4 DEF TypeOK
    <3>2. UpdateHandlerStats(db[h], exec[g][h].ok) \in StoredType
      BY <1>1, <3>1, StatsCount DEF TypeOK
    <3> QED BY <1>1, <3>1, <3>2, NotNoRow
  <2>2. Execs(h) = db[h].execs /\ Errs(h) = db[h].errs
    BY <1>4 DEF Execs, Errs
  <2>3. Execs(h)' = db'[h].execs /\ Errs(h)' = db'[h].errs
    BY <2>1 DEF Execs, Errs
  <2>4. Execs(h)' = Execs(h) + 1
    BY <1>1, <1>4, <2>1, <2>2, <2>3, StatsCount DEF TypeOK
  <2>5. g \in Unaccounted(h)
    BY <1>1 DEF Unaccounted
  <2>6. Cardinality(Unaccounted(h)') + 1 <= Cardinality(Unaccounted(h))
    BY <1>2, <2>5, AuditTypes, AuditTypesNext, ExecCount
  <2>7. Execs(h)' + Cardinality(Unaccounted(h)') <= Lines(h)'
    BY <1>1, <2>4, <2>6, AuditTypes, AuditTypesNext DEF Audited
  <2>8. CASE exec[g][h].ok
    <3>1. Errs(h)' = Errs(h)
      BY <1>1, <1>4, <2>1, <2>2, <2>3, <2>8, StatsCount DEF TypeOK
    <3>2. Cardinality(UnaccountedFailed(h)') <= Cardinality(UnaccountedFailed(h))
      BY <1>2, AuditTypes, AuditTypesNext, ExecCount
    <3>3. Errs(h)' + Cardinality(UnaccountedFailed(h)') <= Failures(h)'
      BY <1>1, <3>1, <3>2, AuditTypes, AuditTypesNext DEF Audited
    <3> QED BY <2>7, <3>3 DEF Audited
  <2>9. CASE ~exec[g][h].ok
    <3>1. Errs(h)' = Errs(h) + 1
      BY <1>1, <1>4, <2>1, <2>2, <2>3, <2>9, StatsCount DEF TypeOK
    <3>2. g \in UnaccountedFailed(h)
      BY <2>5, <2>9 DEF UnaccountedFailed
    <3>3. Cardinality(UnaccountedFailed(h)') + 1 <= Cardinality(UnaccountedFailed(h))
      BY <1>2, <3>2, AuditTypes, AuditTypesNext, ExecCount
    <3>4. Errs(h)' + Cardinality(UnaccountedFailed(h)') <= Failures(h)'
      BY <1>1, <3>1, <3>3, AuditTypes, AuditTypesNext DEF Audited
    <3> QED BY <2>7, <3>4 DEF Audited
  <2> QED BY <2>8, <2>9
<1> QED BY <1>1, <1>3, <1>4

\* Every step of a handler's goroutine.
LEMMA AuditExecute ==
  ASSUME TypeOK, TypeOK', AuditInv, NEW g \in Goroutines, NEW h \in Handlers,
         ExecuteHandler(g, h) \/ SendReturns(g, h)
  PROVE  AuditInv'
<1>e. exec[g][h] \in ExecType /\ exec[g][h].ok \in BOOLEAN
  BY DEF TypeOK, ExecType
<1>1. /\ \E e : Become(g, h, e)
      /\ \A h2 \in Handlers : h2 # h => db'[h2] = db[h2] /\ log'[h2] = log[h2] /\ lost'[h2] = lost[h2]
  <2>1. CASE RecordExecution(g, h)
    BY <2>1 DEF RecordExecution, Goto
  <2>2. CASE LogInvalidAction(g, h)
    BY <2>2 DEF LogInvalidAction, LogExecution, Finish, TypeOK
  <2>3. CASE RunAction(g, h) \/ SendReturns(g, h)
    BY <2>3 DEF RunAction, SendReturns, Goto
  <2>4. CASE LogHandlerExecution(g, h)
    BY <2>4 DEF LogHandlerExecution, LogExecution, Goto, TypeOK
  <2>5. CASE ReadCircuitBreaker(g, h)
    BY <2>5 DEF ReadCircuitBreaker, Goto
  <2>6. CASE SaveCircuitBreaker(g, h)
    BY <2>6 DEF SaveCircuitBreaker, TypeOK
  <2>7. CASE RecordStats(g, h)
    BY <2>7 DEF RecordStats, Finish, TypeOK
  <2> QED BY <2>1, <2>2, <2>3, <2>4, <2>5, <2>6, <2>7 DEF ExecuteHandler
<1>2. ASSUME NEW h2 \in Handlers, h2 # h PROVE Audited(h2)'
  <2>1. /\ Unaccounted(h2)' = Unaccounted(h2)
        /\ UnaccountedFailed(h2)' = UnaccountedFailed(h2)
    BY <1>1, <1>2, BecomeUnaccounted
  <2>2. /\ Execs(h2)' = Execs(h2) /\ Errs(h2)' = Errs(h2)
        /\ Failures(h2)' = Failures(h2) /\ Lines(h2)' = Lines(h2)
    BY <1>1, <1>2 DEF Execs, Errs, Failures, Lines
  <2> QED BY <2>1, <2>2, AuditTypes, AuditShrinks DEF AuditInv
<1>3. Audited(h)
  BY DEF AuditInv
<1>4. ASSUME NEW e, Become(g, h, e),
             \/ e.pc \notin {"cbRead", "cbSave", "stats"}
             \/ g \in Unaccounted(h) /\ e.ok = exec[g][h].ok,
             Execs(h)' <= Execs(h), Errs(h)' <= Errs(h),
             Failures(h) <= Failures(h)', Lines(h) <= Lines(h)'
      PROVE  Audited(h)'
  <2>1. /\ Unaccounted(h)' \subseteq Unaccounted(h)
        /\ UnaccountedFailed(h)' \subseteq UnaccountedFailed(h)
    <3>1. CASE e.pc \notin {"cbRead", "cbSave", "stats"}
      BY <1>4, <3>1, BecomeUnaccounted
    <3>2. CASE g \in Unaccounted(h) /\ e.ok = exec[g][h].ok
      <4>1. Unaccounted(h)' \subseteq Unaccounted(h)
        BY <1>4, <3>2, BecomeUnaccounted
      <4>2. CASE exec[g][h].ok
        BY <1>4, <3>2, <4>1, <4>2, BecomeUnaccounted
      <4>3. CASE ~exec[g][h].ok
        <5>1. g \in UnaccountedFailed(h)
          BY <3>2, <4>3 DEF UnaccountedFailed
        <5>2. UnaccountedFailed(h)' \subseteq UnaccountedFailed(h) \cup {g}
          BY <1>4, BecomeUnaccounted
        <5> QED BY <4>1, <5>1, <5>2
      <4> QED BY <4>2, <4>3
    <3> QED BY <1>4, <3>1, <3>2
  <2> QED BY <1>3, <1>4, <2>1, AuditShrinks
<1>5. ASSUME db' = db, log' = log, lost' = lost
      PROVE  /\ Execs(h)' <= Execs(h) /\ Errs(h)' <= Errs(h)
             /\ Failures(h) <= Failures(h)' /\ Lines(h) <= Lines(h)'
  <2>1. /\ Execs(h)' = Execs(h) /\ Errs(h)' = Errs(h)
        /\ Failures(h)' = Failures(h) /\ Lines(h)' = Lines(h)
    BY <1>5 DEF Execs, Errs, Failures, Lines
  <2> QED BY <1>5, <2>1, AuditTypes
<1>6. Audited(h)'
  <2>1. CASE RecordExecution(g, h)
    <3>1. PICK pc \in {"run", "logInvalid"} : Become(g, h, [exec[g][h] EXCEPT !.pc = pc])
      BY <2>1 DEF RecordExecution, Goto
    <3>2. [exec[g][h] EXCEPT !.pc = pc].pc = pc
      BY <1>e DEF ExecType
    <3>3. db' = db /\ log' = log /\ lost' = lost
      BY <2>1 DEF RecordExecution
    <3> QED BY <1>4, <1>5, <3>1, <3>2, <3>3
  <2>2. CASE LogInvalidAction(g, h)
    <3>1. Become(g, h, IdleExec) /\ IdleExec.pc = "idle" /\ db' = db
      BY <2>2 DEF LogInvalidAction, Finish, IdleExec
    <3>3. Failures(h) <= Failures(h)' /\ Lines(h) <= Lines(h)'
      <4>1. LogExecution(h, FALSE)
        BY <2>2 DEF LogInvalidAction
      <4>2. Lines(h)' = Lines(h) + 1 /\ Failures(h)' = Failures(h) + 1
        BY <4>1, LoggedLine
      <4> QED BY <4>2, AuditTypes
    <3>4. Execs(h)' = Execs(h) /\ Errs(h)' = Errs(h)
      BY <3>1 DEF Execs, Errs
    <3> QED BY <1>4, <3>1, <3>3, <3>4, AuditTypes
  <2>3. CASE RunAction(g, h) \/ SendReturns(g, h)
    <3>1. \/ \E ok \in BOOLEAN : Become(g, h, [exec[g][h] EXCEPT !.pc = "log", !.ok = ok])
          \/ Become(g, h, [exec[g][h] EXCEPT !.pc = "send"])
      BY <2>3 DEF RunAction, SendReturns, Goto
    <3>2. /\ \A ok \in BOOLEAN : [exec[g][h] EXCEPT !.pc = "log", !.ok = ok].pc = "log"
          /\ [exec[g][h] EXCEPT !.pc = "send"].pc = "send"
      BY <1>e DEF ExecType
    <3>3. db' = db /\ log' = log /\ lost' = lost
      BY <2>3 DEF RunAction, SendReturns
    <3> QED BY <1>4, <1>5, <3>1, <3>2, <3>3
  <2>4. CASE LogHandlerExecution(g, h)
    BY <1>3, <2>4, AuditLogged
  <2>5. CASE ReadCircuitBreaker(g, h)
    <3>1. db' = db /\ log' = log /\ lost' = lost /\ exec[g][h].pc = "cbRead"
      BY <2>5 DEF ReadCircuitBreaker
    <3>2. g \in Unaccounted(h)
      BY <3>1 DEF Unaccounted
    <3>3. PICK e : Become(g, h, e) /\ e.ok = exec[g][h].ok
      <4>1. \/ Become(g, h, [exec[g][h] EXCEPT !.pc = "cbSave",
                              !.view = BreakerSet(db[h], exec[g][h].ok)])
            \/ Become(g, h, [exec[g][h] EXCEPT !.pc = "stats"])
        BY <2>5 DEF ReadCircuitBreaker, Goto
      <4>2. /\ [exec[g][h] EXCEPT !.pc = "stats"].ok = exec[g][h].ok
            /\ \A v : [exec[g][h] EXCEPT !.pc = "cbSave", !.view = v].ok = exec[g][h].ok
        BY <1>e DEF ExecType
      <4> QED BY <4>1, <4>2
    <3> QED BY <1>4, <1>5, <3>1, <3>2, <3>3
  <2>6. CASE SaveCircuitBreaker(g, h)
    <3>1. /\ log' = log /\ lost' = lost /\ exec[g][h].pc = "cbSave"
          /\ Become(g, h, [exec[g][h] EXCEPT !.pc = "stats", !.view = NoRow])
          /\ db'[h] \in {db[h], SaveHandler(exec[g][h].view)}
      BY <2>6 DEF SaveCircuitBreaker, TypeOK
    <3>2. g \in Unaccounted(h)
      BY <3>1 DEF Unaccounted
    <3>3. [exec[g][h] EXCEPT !.pc = "stats", !.view = NoRow].ok = exec[g][h].ok
      BY <1>e DEF ExecType
    <3>4. \/ Execs(h)' = 0 /\ Errs(h)' = 0
          \/ Execs(h)' = Execs(h) /\ Errs(h)' = Errs(h)
      BY <3>1 DEF Execs, Errs, SaveHandler
    <3>5. /\ Execs(h)' <= Execs(h) /\ Errs(h)' <= Errs(h)
          /\ Failures(h) <= Failures(h)' /\ Lines(h) <= Lines(h)'
      BY <3>1, <3>4, AuditTypes DEF Failures, Lines
    <3>6. PICK e : Become(g, h, e) /\ e.ok = exec[g][h].ok
      BY <3>1, <3>3
    <3> QED BY <1>4, <3>2, <3>5, <3>6
  <2>7. CASE RecordStats(g, h)
    BY <1>3, <2>7, AuditStats
  <2> QED BY <2>1, <2>2, <2>3, <2>4, <2>5, <2>6, <2>7 DEF ExecuteHandler
<1> QED BY <1>2, <1>6 DEF AuditInv

\* A step that starts no execution's accounting and writes no log line, and after which a
\* row has the statistics it had, or none.
LEMMA AuditRows ==
  ASSUME TypeOK, TypeOK', AuditInv, log' = log, lost' = lost,
         \A h \in Handlers : /\ Unaccounted(h)' \subseteq Unaccounted(h)
                             /\ UnaccountedFailed(h)' \subseteq UnaccountedFailed(h)
                             /\ Execs(h)' \in {0, Execs(h)} /\ Errs(h)' \in {0, Errs(h)}
  PROVE  AuditInv'
<1> SUFFICES ASSUME NEW h \in Handlers PROVE Audited(h)'
  BY DEF AuditInv
<1>1. /\ Execs(h)' <= Execs(h) /\ Errs(h)' <= Errs(h)
      /\ Failures(h)' = Failures(h) /\ Lines(h)' = Lines(h)
  BY AuditTypes DEF Failures, Lines
<1> QED BY <1>1, AuditTypes, AuditShrinks DEF AuditInv

\* Handler operations save rows without statistics, or leave them as they are.
LEMMA AuditOperation ==
  ASSUME TypeOK, TypeOK', AuditInv, HandlerOperation PROVE AuditInv'
<1>1. log' = log /\ lost' = lost /\ exec' = exec
  BY DEF HandlerOperation, RegisterHandler, DeleteHandler, UpdateHandlerEnabled,
         UpdateHandlerRead, UpdateHandlerSave, LoadHandlersList, LoadHandlersGet,
         LoadHandlersDone, pipelineVars
<1>2. \A h \in Handlers : /\ Unaccounted(h)' = Unaccounted(h)
                          /\ UnaccountedFailed(h)' = UnaccountedFailed(h)
  BY <1>1 DEF Unaccounted, UnaccountedFailed
<1>3. \A x : SaveHandler(x).execs = 0 /\ SaveHandler(x).errs = 0
  BY DEF SaveHandler
<1>4. ASSUME NEW h \in Handlers
      PROVE  Execs(h)' \in {0, Execs(h)} /\ Errs(h)' \in {0, Errs(h)}
  <2>1. CASE db'[h] = db[h] \/ db'[h] = NoRow
    BY <2>1 DEF Execs, Errs
  <2>2. CASE \E x : db'[h] = SaveHandler(x)
    BY <1>3, <2>2 DEF Execs, Errs
  <2>3. CASE db[h] # NoRow /\ \E x : db'[h] = [db[h] EXCEPT !.enabled = x]
    <3>1. db[h] \in StoredType
      BY <2>3 DEF TypeOK
    <3>2. db'[h].execs = db[h].execs /\ db'[h].errs = db[h].errs
      BY <2>3, <3>1 DEF StoredType
    <3> QED BY <2>3, <3>2 DEF Execs, Errs
  <2>4. ASSUME NEW i \in Handlers, NEW x, db' = [db EXCEPT ![i] = x]
        PROVE  db'[h] = db[h] \/ db'[h] = x
    BY <2>4 DEF TypeOK
  <2>5. ASSUME NEW i \in Handlers, NEW y \in Inputs, RegisterHandler(i, y)
        PROVE  db'[h] = db[h] \/ \E x : db'[h] = SaveHandler(x)
    BY <2>4, <2>5 DEF RegisterHandler
  <2>6. ASSUME NEW i \in Handlers, DeleteHandler(i)
        PROVE  db'[h] = db[h] \/ db'[h] = NoRow
    BY <2>4, <2>6 DEF DeleteHandler
  <2>7. ASSUME NEW i \in Handlers, NEW y \in BOOLEAN, UpdateHandlerEnabled(i, y)
        PROVE  \/ db'[h] = db[h]
               \/ db[h] # NoRow /\ db'[h] = [db[h] EXCEPT !.enabled = y]
    BY <2>7 DEF UpdateHandlerEnabled, TypeOK
  <2>8. ASSUME UpdateHandlerSave
        PROVE  db'[h] = db[h] \/ \E x : db'[h] = SaveHandler(x)
    BY <2>8 DEF UpdateHandlerSave, TypeOK
  <2>9. ASSUME NEW i \in Handlers, NEW y, NEW z, UpdateHandlerRead(i, y, z)
        PROVE  db'[h] = db[h]
    BY <2>9 DEF UpdateHandlerRead
  <2>10. ASSUME LoadHandlersList \/ LoadHandlersDone \/ \E i \in Handlers : LoadHandlersGet(i)
         PROVE  db'[h] = db[h]
    BY <2>10 DEF LoadHandlersList, LoadHandlersDone, LoadHandlersGet
  <2> QED BY <2>1, <2>2, <2>3, <2>5, <2>6, <2>7, <2>8, <2>9, <2>10 DEF HandlerOperation
<1> QED BY <1>1, <1>2, <1>4, AuditRows

LEMMA AuditNext ==
  ASSUME TypeOK, TypeOK', AuditInv, [Next]_vars PROVE AuditInv'
<1>0. ASSUME db' = db PROVE \A h \in Handlers : Execs(h)' = Execs(h) /\ Errs(h)' = Errs(h)
  BY <1>0 DEF Execs, Errs
<1>1. ASSUME NEW g \in Goroutines, NEW s \in Senders, ExecuteHandlersForEvent(g, s)
      PROVE  AuditInv'
  <2>1. db' = db /\ log' = log /\ lost' = lost
    BY <1>1 DEF ExecuteHandlersForEvent
  <2>2. \A g2 \in Goroutines, h \in Handlers :
           \/ exec'[g2][h] = exec[g2][h]
           \/ exec'[g2][h].pc \in {"start", "idle"}
    BY <1>1 DEF ExecuteHandlersForEvent, TypeOK, IdleExec
  <2>3. \A h \in Handlers : /\ Unaccounted(h)' \subseteq Unaccounted(h)
                            /\ UnaccountedFailed(h)' \subseteq UnaccountedFailed(h)
    BY <2>2 DEF Unaccounted, UnaccountedFailed
  <2> QED BY <1>0, <2>1, <2>3, AuditRows
<1>2. CASE Restart
  <2>1. db' = db /\ log' = log /\ lost' = lost /\ exec' = IdleExecs
    BY <1>2 DEF Restart
  <2>2. \A h \in Handlers : Unaccounted(h)' = {} /\ UnaccountedFailed(h)' = {}
    BY <2>1 DEF Unaccounted, UnaccountedFailed, IdleExecs, IdleExec
  <2> QED BY <1>0, <2>1, <2>2, AuditRows
<1>3. CASE Tick \/ UNCHANGED vars
  <2>1. db' = db /\ log' = log /\ lost' = lost /\ exec' = exec
    BY <1>3 DEF Tick, vars, pipelineVars
  <2>2. \A h \in Handlers : /\ Unaccounted(h)' = Unaccounted(h)
                            /\ UnaccountedFailed(h)' = UnaccountedFailed(h)
    BY <2>1 DEF Unaccounted, UnaccountedFailed
  <2> QED BY <1>0, <2>1, <2>2, AuditRows
<1> QED BY <1>1, <1>2, <1>3, AuditExecute, AuditOperation DEF Next

\* For every number of concurrent events and operations, the counters of a handler's row
\* are covered by lines of handler_executions and by the lines that could not be inserted,
\* through breaker saves of stale rows, deletions, registrations, crashes and any number
\* of failed statements.
THEOREM StatsAudited == Spec => []AuditLogCoversStats
<1>1. Init => AuditInv
  <2> SUFFICES ASSUME Init, NEW h \in Handlers PROVE Audited(h)
    BY DEF AuditInv
  <2>1. Unaccounted(h) = {} /\ UnaccountedFailed(h) = {}
    BY DEF Init, Unaccounted, UnaccountedFailed, IdleExecs, IdleExec
  <2>2. Execs(h) = 0 /\ Errs(h) = 0
    BY DEF Init, Execs, Errs, SaveHandler
  <2>3. Failures(h) = 0 /\ Lines(h) = 0
    BY DEF Init, Failures, Lines
  <2> QED BY <2>1, <2>2, <2>3, FS_EmptySet DEF Audited
<1>2. TypeOK /\ TypeOK' /\ AuditInv /\ [Next]_vars => AuditInv'
  BY AuditNext
<1>3. AuditInv => AuditLogCoversStats
  BY DEF AuditInv, Audited, Execs, Errs, Failures, Lines, AuditLogCoversStats
<1> QED BY <1>1, <1>2, <1>3, TypeCorrect, PTL DEF Spec

=============================================================================
