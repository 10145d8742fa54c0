--------------------------- MODULE HandlerPipeline ---------------------------
(***************************************************************************)
(* The event-handler pipeline of the MCP tool (cmd/whatsapp_mcp):          *)
(*                                                                         *)
(*  - the rows of event_handlers and handler_executions (database.go);     *)
(*  - the EventMatcher: a cached copy of the enabled rows, and one         *)
(*    in-memory RateLimiter per handler (event_matcher.go);                *)
(*  - the ActionExecutor: one goroutine per incoming event, which starts   *)
(*    one goroutine per matching handler (action_executor.go);             *)
(*  - the handler operations of the MCP main loop, which run one at a time *)
(*    but concurrently with all those goroutines (operations.go).          *)
(*                                                                         *)
(* A step is one critical section or one SQL statement: everything between *)
(* two of them touches only the goroutine's own memory.  MatchEvent looks  *)
(* at one limiter at a time; its checks of different handlers commute, so  *)
(* it is one step.  What a handler's action does (a Python call over MCP,  *)
(* WhatsApp sends) is external: it ends in success or in an error, or it   *)
(* waits in SendMessage, which need not return.  The errors of the         *)
(* statements that executeHandler runs are discarded.                      *)
(***************************************************************************)
EXTENDS Integers, Sequences, FiniteSets

CONSTANTS
    Handlers,       \* handler_id values
    Senders,        \* JIDs in the "from" field of events
    Goroutines,     \* slots for events whose handlers are still running
    Configs,        \* event_filter, action and limits a handler may have
    Inputs,         \* handler definitions the client sends
    NoRow,          \* no such row, no such map entry
    MinuteLen, HourLen,                 \* clock ticks per minute, per hour
    DefaultThreshold, DefaultReset,     \* SaveHandler's defaults
    MaxTime, MaxEvents,         \* bounds of the model: the clock, events,
    MaxOps, MaxFaults           \* operations and restarts, failed statements

Absent == -1        \* a key missing from a handler map
NoTime == -1        \* the zero time.Time, a NULL timestamp
Times == 0..MaxTime
Nats(S) == \A x \in S : x \in Nat

(***************************************************************************)
(* cfg groups the columns that every path copies together: the filter      *)
(* (`from`: the accepted senders, {} for no constraint), whether `action`  *)
(* is a JSON object, and the limits (0: not set).                          *)
(***************************************************************************)
ConfigType == [from : SUBSET Senders, valid : BOOLEAN, perMinute : Nat,
               perHour : Nat, perSender : Nat, cooldown : Nat]

InputType == [cfg : Configs, enabled : BOOLEAN, cb : {"on", "off", "absent"},
              threshold : Nat \cup {Absent}, reset : Nat \cup {Absent}]

\* A row of event_handlers, and the map GetHandler makes of it.
StoredType == [cfg : Configs, enabled : BOOLEAN, cb : {"on", "off"},
               threshold : Nat, reset : Nat,
               execs : Nat, errs : Nat, state : {"closed", "open"},
               lastErr : Times \cup {NoTime}]

MapType == [cfg : Configs, enabled : BOOLEAN, cb : {"on", "off", "absent"},
            threshold : Nat \cup {Absent}, reset : Nat \cup {Absent},
            execs : Nat, errs : Nat, state : {"closed", "open"},
            lastErr : Times \cup {NoTime}]

ASSUME ConfigAssumption == Configs \subseteq ConfigType
ASSUME InputAssumption == Inputs \subseteq InputType
ASSUME NoRowAssumption == NoRow \notin MapType
ASSUME GoroutineAssumption == IsFiniteSet(Goroutines)
ASSUME ClockAssumption == /\ MinuteLen \in Nat \ {0}
                          /\ HourLen \in Nat \ {0}
                          /\ DefaultThreshold \in Nat
                          /\ DefaultReset \in Nat
ASSUME BoundAssumption == Nats({MaxTime, MaxEvents, MaxOps, MaxFaults})

VARIABLES
    db,         \* event_handlers: handler -> row or NoRow
    log,        \* handler_executions: handler -> number of successes, failures
    lost,       \* handler -> lines that LogHandlerExecution failed to insert
    cache,      \* EventMatcher.handlers
    limiter,    \* EventMatcher.rateLimits
    exec,       \* goroutine slot -> handler -> state of executeHandler
    op,         \* the operation the main loop is in the middle of
    now,        \* the wall clock
    bound       \* events, operations (restarts too) and faults so far

pipelineVars == <<cache, limiter, exec>>
vars == <<db, log, lost, cache, limiter, exec, op, now, bound>>

-----------------------------------------------------------------------------
(* The database.                                                           *)

\* Mutant of SaveHandler: absent keys are stored without their defaults.
SaveHandlerNoDefaults(h) ==
    [cfg |-> h.cfg, enabled |-> h.enabled, cb |-> IF h.cb = "off" THEN "off" ELSE "on",
     threshold |-> h.threshold, reset |-> h.reset,
     execs |-> 0, errs |-> 0, state |-> "closed", lastErr |-> NoTime]

\* SaveHandler's INSERT OR REPLACE names only the configuration columns:
\* the replaced row gets the column defaults for all the others.
SaveHandler(h) ==
    [cfg       |-> h.cfg,
     enabled   |-> h.enabled,
     cb        |-> IF h.cb = "off" THEN "off" ELSE "on",
     threshold |-> IF h.threshold = Absent THEN DefaultThreshold ELSE h.threshold,
     reset     |-> IF h.reset = Absent THEN DefaultReset ELSE h.reset,
     execs     |-> 0,
     errs      |-> 0,
     state     |-> "closed",
     lastErr   |-> NoTime]

\* GetHandler's map has the circuit breaker keys only if the breaker is on.
GetHandler(row) ==
    IF row.cb = "on" THEN row
    ELSE [row EXCEPT !.cb = "absent", !.threshold = Absent, !.reset = Absent]

\* ListHandlers(enabledOnly = true): the ids of the enabled rows.
ListEnabled == {h \in Handlers : db[h] # NoRow /\ db[h].enabled}

\* Mutant of UpdateHandlerStats: every execution counts as an error.
UpdateHandlerStatsAllErrors(row, ok) ==
    IF row = NoRow THEN NoRow
    ELSE [row EXCEPT !.execs = @ + 1, !.errs = @ + 1, !.lastErr = now]

\* UpdateHandlerStats: an UPDATE, without effect when the row is gone.
UpdateHandlerStats(row, ok) ==
    IF row = NoRow THEN NoRow
    ELSE IF ok THEN [row EXCEPT !.execs = @ + 1]
    ELSE [row EXCEPT !.execs = @ + 1, !.errs = @ + 1, !.lastErr = now]

\* A statement fails.
Fault ==
    /\ bound.faults < MaxFaults
    /\ bound' = [bound EXCEPT !.faults = @ + 1]

\* LogHandlerExecution: an INSERT, whose error nobody looks at.
LogExecution(h, ok) ==
    \/ /\ log' = IF ok THEN [log EXCEPT ![h].ok = @ + 1]
                      ELSE [log EXCEPT ![h].failed = @ + 1]
       /\ UNCHANGED <<lost, bound>>
    \/ /\ Fault
       /\ lost' = [lost EXCEPT ![h] = @ + 1]
       /\ UNCHANGED log

-----------------------------------------------------------------------------
(* The rate limiter.  A window missing from a Go map counts 0.             *)

MinuteOf(t) == t \div MinuteLen
HourOf(t) == t \div HourLen

NewLimiter == [minute |-> [w \in Times |-> 0],
               hour   |-> [w \in Times |-> 0],
               sender |-> [s \in Senders |-> [w \in Times |-> 0]],
               last   |-> NoTime]

Bump(counts, w) == [counts EXCEPT ![w] = @ + 1]
Purge(counts, oldest) == [w \in Times |-> IF w < oldest THEN 0 ELSE counts[w]]

\* RecordExecution: count the execution, then forget windows that ended more
\* than two hours ago.
Recorded(l, s) ==
    LET oldestMinute == (now - 2 * HourLen) \div MinuteLen
        oldestHour   == (now - 2 * HourLen) \div HourLen
    IN  [minute |-> Purge(Bump(l.minute, MinuteOf(now)), oldestMinute),
         hour   |-> Purge(Bump(l.hour, HourOf(now)), oldestHour),
         sender |-> [q \in Senders |->
                       Purge(IF q = s THEN Bump(l.sender[q], HourOf(now))
                                      ELSE l.sender[q], oldestHour)],
         last   |-> now]

\* Mutant of CheckRateLimits: off by one in the per-minute limit.
CheckRateLimitsOffByOne(row, l, s) ==
    /\ row.cfg.perMinute > 0 => l.minute[MinuteOf(now)] <= row.cfg.perMinute
    /\ row.cfg.perHour > 0 => l.hour[HourOf(now)] < row.cfg.perHour
    /\ row.cfg.perSender > 0 => l.sender[s][HourOf(now)] <= row.cfg.perSender

CheckRateLimits(row, l, s) ==
    /\ row.cfg.perMinute > 0 => l.minute[MinuteOf(now)] < row.cfg.perMinute
    /\ row.cfg.perHour > 0 => l.hour[HourOf(now)] < row.cfg.perHour
    /\ row.cfg.perSender > 0 => l.sender[s][HourOf(now)] < row.cfg.perSender

CheckCooldown(row, l) ==
    row.cfg.cooldown = 0 \/ l.last = NoTime \/ now - l.last >= row.cfg.cooldown

IsCircuitBreakerOpen(row) ==
    /\ row.cb = "on"
    /\ row.state = "open"
    /\ row.lastErr # NoTime
    /\ now - row.lastErr < row.reset

MatchesFilter(row, s) == row.cfg.from = {} \/ s \in row.cfg.from

Matches(h, s) ==
    /\ cache[h] # NoRow
    /\ cache[h].enabled
    /\ ~IsCircuitBreakerOpen(cache[h])
    /\ CheckRateLimits(cache[h], limiter[h], s)
    /\ CheckCooldown(cache[h], limiter[h])
    /\ MatchesFilter(cache[h], s)

-----------------------------------------------------------------------------
(* executeHandler: one goroutine per event slot and handler.               *)

PCs == {"idle", "start", "logInvalid", "run", "send", "log", "cbRead", "cbSave", "stats"}

\* from, valid: of the event and of the cached row; ok: the outcome; view: the
\* map UpdateCircuitBreaker is about to save.
IdleExec == [pc |-> "idle", from |-> NoRow, valid |-> FALSE, ok |-> FALSE,
             view |-> NoRow]

ExecType == [pc : PCs, from : Senders \cup {NoRow}, valid : BOOLEAN,
             ok : BOOLEAN, view : MapType \cup {NoRow}]

\* Slot g has no handler goroutine left.
SlotIdle(g) == \A h \in Handlers : exec[g][h].pc = "idle"

\* handlersMutex is write-locked while LoadHandlers runs.
MatcherFree == op.pc # "load"

\* ExecuteHandlersForEvent: MatchEvent, then `go executeHandler` per match.
ExecuteHandlersForEvent(g, s) ==
    /\ bound.events < MaxEvents
    /\ SlotIdle(g)
    /\ MatcherFree
    /\ exec' = [exec EXCEPT ![g] = [h \in Handlers |->
                    IF Matches(h, s)
                    THEN [IdleExec EXCEPT !.pc = "start", !.from = s,
                                          !.valid = cache[h].cfg.valid]
                    ELSE IdleExec]]
    /\ bound' = [bound EXCEPT !.events = @ + 1]
    /\ UNCHANGED <<db, log, lost, cache, limiter, op, now>>

Become(g, h, e) == exec' = [exec EXCEPT ![g][h] = e]
Goto(g, h, pc) == Become(g, h, [exec[g][h] EXCEPT !.pc = pc])
Finish(g, h) == Become(g, h, IdleExec)

RecordExecution(g, h) ==
    /\ exec[g][h].pc = "start"
    /\ limiter' = [limiter EXCEPT ![h] = Recorded(@, exec[g][h].from)]
    /\ Goto(g, h, IF exec[g][h].valid THEN "run" ELSE "logInvalid")
    /\ UNCHANGED <<db, log, lost, cache, op, now, bound>>

\* "Invalid action definition": logged as a failure; neither the breaker nor
\* the statistics hear of it.
LogInvalidAction(g, h) ==
    /\ exec[g][h].pc = "logInvalid"
    /\ LogExecution(h, FALSE)
    /\ Finish(g, h)
    /\ UNCHANGED <<db, cache, limiter, op, now>>

\* The action, and the actions it returns, end with success or failure, or come to a
\* SendMessage: callMCPTool has a timeout, SendMessage has a context that never ends.
RunAction(g, h) ==
    /\ exec[g][h].pc = "run"
    /\ \/ \E ok \in BOOLEAN :
             Become(g, h, [exec[g][h] EXCEPT !.pc = "log", !.ok = ok])
       \/ Goto(g, h, "send")
    /\ UNCHANGED <<db, log, lost, cache, limiter, op, now, bound>>

\* SendMessage returns, and with it the action; its result only counts.
SendReturns(g, h) ==
    /\ exec[g][h].pc = "send"
    /\ Become(g, h, [exec[g][h] EXCEPT !.pc = "log", !.ok = TRUE])
    /\ UNCHANGED <<db, log, lost, cache, limiter, op, now, bound>>

LogHandlerExecution(g, h) ==
    /\ exec[g][h].pc = "log"
    /\ LogExecution(h, exec[g][h].ok)
    /\ Goto(g, h, "cbRead")
    /\ UNCHANGED <<db, cache, limiter, op, now>>

\* UpdateCircuitBreaker, up to its SaveHandler: a missing row, a breaker that
\* is off, and a failure below the threshold return without saving.
BreakerMustSave(view, ok) ==
    view.cb = "on" /\ (ok \/ view.errs >= view.threshold)

BreakerSet(row, ok) ==
    [GetHandler(row) EXCEPT !.state = IF ok THEN "closed" ELSE "open"]


ReadCircuitBreaker(g, h) ==
    /\ exec[g][h].pc = "cbRead"
    /\ \/ /\ IF db[h] # NoRow /\ BreakerMustSave(GetHandler(db[h]), exec[g][h].ok)
             THEN Become(g, h, [exec[g][h] EXCEPT !.pc = "cbSave",
                                                  !.view = BreakerSet(db[h], exec[g][h].ok)])
             ELSE Goto(g, h, "stats")
          /\ UNCHANGED bound
       \/ Fault /\ Goto(g, h, "stats")
    /\ UNCHANGED <<db, log, lost, cache, limiter, op, now>>

SaveCircuitBreaker(g, h) ==
    /\ exec[g][h].pc = "cbSave"
    /\ \/ db' = [db EXCEPT ![h] = SaveHandler(exec[g][h].view)] /\ UNCHANGED bound
       \/ Fault /\ UNCHANGED db
    /\ Become(g, h, [exec[g][h] EXCEPT !.pc = "stats", !.view = NoRow])
    /\ UNCHANGED <<log, lost, cache, limiter, op, now>>

RecordStats(g, h) ==
    /\ exec[g][h].pc = "stats"
    /\ \/ db' = [db EXCEPT ![h] = UpdateHandlerStats(@, exec[g][h].ok)] /\ UNCHANGED bound
       \/ Fault /\ UNCHANGED db
    /\ Finish(g, h)
    /\ UNCHANGED <<log, lost, cache, limiter, op, now>>

ExecuteHandler(g, h) ==
    \/ RecordExecution(g, h)
    \/ LogInvalidAction(g, h)
    \/ RunAction(g, h)
    \/ LogHandlerExecution(g, h)
    \/ ReadCircuitBreaker(g, h)
    \/ SaveCircuitBreaker(g, h)
    \/ RecordStats(g, h)

-----------------------------------------------------------------------------
(* Handler operations: the main loop runs one at a time.                   *)

IdleOp == [pc |-> "idle", h |-> NoRow, view |-> NoRow, todo |-> {},
           loaded |-> [h \in Handlers |-> NoRow]]

OpType == [pc : {"idle", "update", "load"}, h : Handlers \cup {NoRow},
           view : MapType \cup {NoRow}, todo : SUBSET Handlers,
           loaded : [Handlers -> MapType \cup {NoRow}]]

BeginOp ==
    /\ op.pc = "idle"
    /\ bound.ops < MaxOps
    /\ bound' = [bound EXCEPT !.ops = @ + 1]

RegisterHandler(h, i) ==
    /\ BeginOp
    /\ db' = [db EXCEPT ![h] = SaveHandler(i)]
    /\ UNCHANGED <<log, lost, pipelineVars, op, now>>

DeleteHandler(h) ==
    /\ BeginOp
    /\ db' = [db EXCEPT ![h] = NoRow]
    /\ UNCHANGED <<log, lost, pipelineVars, op, now>>

\* enable_handler and disable_handler: an UPDATE, without effect when the row
\* is missing (the operation still answers success).
UpdateHandlerEnabled(h, enabled) ==
    /\ BeginOp
    /\ db' = [db EXCEPT ![h] = IF @ = NoRow THEN NoRow
                               ELSE [@ EXCEPT !.enabled = enabled]]
    /\ UNCHANGED <<log, lost, pipelineVars, op, now>>

\* update_handler, first half: read the row and merge the keys of the input
\* (those in `given`) into its map.  "Handler not found" changes nothing.
Merge(view, i, given) ==
    [view EXCEPT !.cfg       = IF "cfg" \in given THEN i.cfg ELSE @,
                 !.enabled   = IF "enabled" \in given THEN i.enabled ELSE @,
                 !.cb        = IF "cb" \in given THEN i.cb ELSE @,
                 !.threshold = IF "threshold" \in given THEN i.threshold ELSE @,
                 !.reset     = IF "reset" \in given THEN i.reset ELSE @]

UpdateHandlerRead(h, i, given) ==
    /\ BeginOp
    /\ db[h] # NoRow
    /\ op' = [IdleOp EXCEPT !.pc = "update", !.h = h,
                            !.view = Merge(GetHandler(db[h]), i, given)]
    /\ UNCHANGED <<db, log, lost, pipelineVars, now>>

UpdateHandlerSave ==
    /\ op.pc = "update"
    /\ \/ db' = [db EXCEPT ![op.h] = SaveHandler(op.view)] /\ UNCHANGED bound
       \/ Fault /\ UNCHANGED db
    /\ op' = IdleOp
    /\ UNCHANGED <<log, lost, pipelineVars, now>>

\* reload_handlers: LoadHandlers lists the enabled ids, reads the rows one by
\* one, leaving out those it cannot read, and then replaces the cache; MatchEvent
\* waits for it.
LoadHandlersList ==
    /\ BeginOp
    /\ op' = [IdleOp EXCEPT !.pc = "load", !.todo = ListEnabled]
    /\ UNCHANGED <<db, log, lost, pipelineVars, now>>

LoadHandlersGet(h) ==
    /\ op.pc = "load"
    /\ h \in op.todo
    /\ \/ /\ op' = [op EXCEPT !.todo = @ \ {h},
                              !.loaded[h] = IF db[h] = NoRow THEN NoRow
                                            ELSE GetHandler(db[h])]
          /\ UNCHANGED bound
       \/ Fault /\ op' = [op EXCEPT !.todo = @ \ {h}]
    /\ UNCHANGED <<db, log, lost, pipelineVars, now>>

LoadHandlersDone ==
    /\ op.pc = "load"
    /\ op.todo = {}
    /\ cache' = op.loaded
    /\ op' = IdleOp
    /\ UNCHANGED <<db, log, lost, limiter, exec, now, bound>>

HandlerOperation ==
    \/ \E h \in Handlers, i \in Inputs : RegisterHandler(h, i)
    \/ \E h \in Handlers : DeleteHandler(h)
    \/ \E h \in Handlers, e \in BOOLEAN : UpdateHandlerEnabled(h, e)
    \/ \E h \in Handlers, i \in Inputs,
          given \in SUBSET {"cfg", "enabled", "cb", "threshold", "reset"} :
             UpdateHandlerRead(h, i, given)
    \/ UpdateHandlerSave
    \/ LoadHandlersList
    \/ \E h \in Handlers : LoadHandlersGet(h)
    \/ LoadHandlersDone

-----------------------------------------------------------------------------
\* What initializeSystem leaves in memory: the cache loaded from the rows, no
\* limiter, no goroutine.
StartupCache(rows) == [h \in Handlers |->
    IF rows[h] # NoRow /\ rows[h].enabled THEN GetHandler(rows[h]) ELSE NoRow]

IdleExecs == [g \in Goroutines |-> [h \in Handlers |-> IdleExec]]

\* The process dies, or shuts down, and starts again: the rows survive, every
\* goroutine is lost where it stood.
Restart ==
    /\ bound.ops < MaxOps
    /\ bound' = [bound EXCEPT !.ops = @ + 1]
    /\ cache' = StartupCache(db)
    /\ limiter' = [h \in Handlers |-> NewLimiter]
    /\ exec' = IdleExecs
    /\ op' = IdleOp
    /\ UNCHANGED <<db, log, lost, now>>

Tick ==
    /\ now < MaxTime
    /\ now' = now + 1
    /\ UNCHANGED <<db, log, lost, pipelineVars, op, bound>>

\* The tool starts on a database that already has some registered handlers.
Init ==
    /\ db \in [Handlers -> {SaveHandler(i) : i \in Inputs} \cup {NoRow}]
    /\ log = [h \in Handlers |-> [ok |-> 0, failed |-> 0]]
    /\ lost = [h \in Handlers |-> 0]
    /\ cache = StartupCache(db)
    /\ limiter = [h \in Handlers |-> NewLimiter]
    /\ exec = IdleExecs
    /\ op = IdleOp
    /\ now = 0
    /\ bound = [events |-> 0, ops |-> 0, faults |-> 0]

Next ==
    \/ \E g \in Goroutines, s \in Senders : ExecuteHandlersForEvent(g, s)
    \/ \E g \in Goroutines, h \in Handlers : ExecuteHandler(g, h) \/ SendReturns(g, h)
    \/ HandlerOperation
    \/ Restart
    \/ Tick

Spec == Init /\ [][Next]_vars

\* The Go scheduler runs every ready goroutine, callMCPTool gives up after 30
\* seconds, and the main loop finishes the operation it is in.  SendMessage owes
\* nothing: a message that is retried waits without a timeout (send.go).
Fairness ==
    /\ \A g \in Goroutines, h \in Handlers : WF_vars(ExecuteHandler(g, h))
    /\ WF_vars(UpdateHandlerSave \/ LoadHandlersDone
                  \/ \E h \in Handlers : LoadHandlersGet(h))

FairSpec == Spec /\ Fairness

-----------------------------------------------------------------------------
(* Properties.                                                             *)

LimiterType == [minute : [Times -> Nat], hour : [Times -> Nat],
                sender : [Senders -> [Times -> Nat]], last : Times \cup {NoTime}]

\* Type invariant of the pipeline: rows, cached maps, limiters and goroutines.
TypeOK ==
    /\ db \in [Handlers -> StoredType \cup {NoRow}]
    /\ log \in [Handlers -> [ok : Nat, failed : Nat]]
    /\ lost \in [Handlers -> Nat]
    /\ cache \in [Handlers -> MapType \cup {NoRow}]
    /\ limiter \in [Handlers -> LimiterType]
    /\ exec \in [Goroutines -> [Handlers -> ExecType]]
    /\ op \in OpType
    /\ now \in Times
    /\ bound \in [events : Nat, ops : Nat, faults : Nat]

\* A goroutine, or an operation, that is about to save a handler has its map.
PendingSaves ==
    /\ \A g \in Goroutines, h \in Handlers :
          exec[g][h].pc = "cbSave" => exec[g][h].view \in MapType
    /\ op.pc = "update" => op.h \in Handlers /\ op.view \in MapType

\* Executions of h that were matched and are not recorded yet, all of them or
\* those of sender s.
Unrecorded(h) == {g \in Goroutines : exec[g][h].pc = "start"}
UnrecordedFrom(h, s) == {g \in Unrecorded(h) : exec[g][h].from = s}

\* n is no more than some limit in force plus the events that may be in flight.
WithinOvershoot(n, limits) ==
    n = 0 \/ \E l \in limits : n <= l - 1 + Cardinality(Goroutines)

\* MatchEvent compares the counters with the limits, executeHandler increments
\* them later in another goroutine, so limits can be exceeded; but when every
\* configuration sets a limit, no window (minute, hour, hour of one sender)
\* ever counts more than the limit plus the events in flight less one,
\* whatever is reloaded, updated or purged in between.
LimitOvershootBounded ==
    \A h \in Handlers, w \in Times :
       /\ (\A c \in Configs : c.perMinute > 0) =>
             WithinOvershoot(limiter[h].minute[w], {c.perMinute : c \in Configs})
       /\ (\A c \in Configs : c.perHour > 0) =>
             WithinOvershoot(limiter[h].hour[w], {c.perHour : c \in Configs})
       /\ (\A c \in Configs : c.perSender > 0) => \A s \in Senders :
             WithinOvershoot(limiter[h].sender[s][w], {c.perSender : c \in Configs})

\* One family of windows, cur the current one and P the unrecorded executions
\* that will count in it: they are already within the bound, and no window of
\* the future counts anything.
WindowInv(counts, cur, P, limits) ==
    /\ \A w \in Times : WithinOvershoot(counts[w], limits)
    /\ \A w \in Times : w > cur => counts[w] = 0
    /\ WithinOvershoot(counts[cur] + Cardinality(P), limits)

MinuteInv(h) == WindowInv(limiter[h].minute, MinuteOf(now), Unrecorded(h),
                          {c.perMinute : c \in Configs})
HourInv(h) == WindowInv(limiter[h].hour, HourOf(now), Unrecorded(h),
                        {c.perHour : c \in Configs})
SenderInv(h, s) == WindowInv(limiter[h].sender[s], HourOf(now), UnrecordedFrom(h, s),
                             {c.perSender : c \in Configs})

\* The inductive form of LimitOvershootBounded.
OvershootInv ==
    \A h \in Handlers :
       /\ (\A c \in Configs : c.perMinute > 0) => MinuteInv(h)
       /\ (\A c \in Configs : c.perHour > 0) => HourInv(h)
       /\ (\A c \in Configs : c.perSender > 0) => \A s \in Senders : SenderInv(h, s)

\* No circuit breaker is ever open, in the table or in the cache: the only
\* statement that could store "open" is SaveHandler's REPLACE, which puts the
\* column back to its default (database.go, SaveHandler).
BreakerNeverOpen ==
    \A h \in Handlers : /\ db[h] # NoRow => db[h].state = "closed"
                        /\ cache[h] # NoRow => cache[h].state = "closed"

\* The same for the maps a reload has read so far, which makes it inductive.
BreakerInv ==
    /\ BreakerNeverOpen
    /\ \A h \in Handlers : op.loaded[h] # NoRow => op.loaded[h].state = "closed"

\* Executions of h whose log line is written and whose statistics are not.
Unaccounted(h) ==
    {g \in Goroutines : exec[g][h].pc \in {"cbRead", "cbSave", "stats"}}
UnaccountedFailed(h) == {g \in Unaccounted(h) : ~exec[g][h].ok}

\* The statistics in a handler's row never claim more executions, or more
\* errors, than the audit log has lines, counting the executions that have
\* still to be added: through saves of stale rows, deletions, crashes and failed
\* statements.  The error of LogHandlerExecution is discarded, and the statistics
\* are updated all the same: every line that could not be inserted counts as one
\* that the statistics may have more.
AuditLogCoversStats ==
    \A h \in Handlers : db[h] # NoRow =>
       /\ db[h].errs + Cardinality(UnaccountedFailed(h)) <= log[h].failed + lost[h]
       /\ db[h].execs + Cardinality(Unaccounted(h)) <= log[h].ok + log[h].failed + lost[h]


\* "Circuit Breakers - Auto-disable failing handlers" (README.md): a handler that was never
\* edited, has never succeeded and has failed more often than its threshold is disabled by
\* its breaker, once nothing of it is running.
FailingHandlersDisabled ==
    \A h \in Handlers :
        /\ db[h] # NoRow /\ db[h].cb = "on" /\ bound.ops = 0
        /\ log[h].ok = 0 /\ log[h].failed > db[h].threshold
        /\ \A g \in Goroutines : exec[g][h].pc = "idle"
        => db[h].state = "open" \/ ~db[h].enabled
=============================================================================
