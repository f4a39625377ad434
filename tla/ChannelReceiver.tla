--------------------------- MODULE ChannelReceiver ---------------------------
(***************************************************************************)
(* One native channel receiver: the detached process                       *)
(* hermes_runtime/channel_agent/service.py with its SQLite inbox           *)
(* hermes_runtime/channel_agent/state.py.                                   *)
(*                                                                          *)
(* The process is one asyncio loop.  The main loop (run) takes the queued   *)
(* updates in order of receipt, asks a router for the task each belongs to  *)
(* and starts at most MaxWorkers native workers, one per task.  Listeners,  *)
(* the control socket, the workers and the approval waiters are coroutines  *)
(* of the same loop: they run only while the main loop is suspended at an   *)
(* await (Yielded).  What is in SQLite survives a crash, the rest does not. *)
(***************************************************************************)
EXTENDS FiniteSets, Naturals

CONSTANTS
  Events,       \* provider updates, keyed as the inbox keys them
  Tasks,        \* task ids the router may create
  Approvals,    \* ids of approval requests (a bound: their number)
  Installed,    \* native frameworks the owner may select
  MaxWorkers,   \* concurrent native turns (2 in the code)
  MaxAttempts,  \* routing attempts before an update fails (3 in the code)
  InboxLimit,   \* queued updates before intake refuses (500 in the code)
  PassLimit,    \* rows read in one pass (30 in the code)
  MaxPending,   \* approvals pending at once (4 in the code)
  NoTask, NoEvent

Frameworks == {"codex", "claude_code"}

ASSUME ReceiverAssumption ==
  /\ IsFiniteSet(Tasks)
  /\ NoTask \notin Tasks
  /\ NoEvent \notin Events
  /\ Installed \subseteq Frameworks /\ Installed # {}
  /\ MaxWorkers \in Nat \ {0}
  /\ MaxAttempts \in Nat \ {0}
  /\ InboxLimit \in Nat /\ PassLimit \in Nat /\ MaxPending \in Nat

VARIABLES
  \* durable: table events
  event,      \* state column ("absent": no row)
  received,   \* for each row, the rows received before it
  taskOf,     \* task_id column
  attempts,   \* route_attempts column
  resting,    \* rows whose retry_at lies in the future
  \* durable: table tasks
  task,       \* status column ("none": no row)
  owner,      \* framework column
  \* durable: table approvals
  decision,   \* decision column; "none": no row, "pending": NULL
  asker,      \* task_id column
  \* the process
  active,     \* the --framework of the running or of the last receiver
  pc,         \* where the main loop stands
  rows,       \* rows of the current pass still to be handled
  routing,    \* the row the main loop awaits a routing decision for
  worker,     \* self.workers: how far the asyncio task of each task id is
  turn,       \* the row a worker was started for
  waiters,    \* approval coroutines still polling their row
  draining,   \* self.draining
  intake,     \* the listeners
  shutdown    \* self.shutdown, and what set it

inboxVars == <<event, received, taskOf, attempts, resting>>
taskVars  == <<task, owner>>
askVars   == <<decision, asker, waiters>>
loopVars  == <<active, pc, rows, routing>>
workVars  == <<worker, turn>>
rpcVars   == <<draining, intake, shutdown>>
vars == <<inboxVars, taskVars, askVars, loopVars, workVars, rpcVars>>

EventStates == {"absent", "queued", "running", "done", "failed", "interrupted"}
TaskStates  == {"none", "queued", "running", "waiting", "completed", "failed",
                "interrupted"}
\* "created": asyncio.create_task was called and the coroutine has not begun;
\* "unwinding": cancelled, run_native is closing the native process;
\* "cleanup": in the finally block, awaiting transports.stop_typing;
\* "leaked": the coroutine ended and its key was never popped.
Phases == {"idle", "created", "native", "unwinding", "cleanup", "leaked"}

TypeOK ==
  /\ event \in [Events -> EventStates]
  /\ received \in [Events -> SUBSET Events]
  /\ taskOf \in [Events -> Tasks \cup {NoTask}]
  /\ attempts \in [Events -> 0 .. MaxAttempts]
  /\ resting \subseteq Events
  /\ task \in [Tasks -> TaskStates]
  /\ owner \in [Tasks -> Installed \cup {"none"}]
  /\ decision \in [Approvals -> {"none", "pending", "allow", "deny"}]
  /\ asker \in [Approvals -> Tasks \cup {NoTask}]
  /\ active \in Installed
  /\ pc \in {"down", "rows", "routing", "sleep", "exit"}
  /\ rows \subseteq Events
  /\ routing \in Events \cup {NoEvent}
  /\ worker \in [Tasks -> Phases]
  /\ turn \in [Tasks -> Events \cup {NoEvent}]
  /\ waiters \subseteq Approvals
  /\ draining \in BOOLEAN
  /\ intake \in {"open", "closing", "closed"}
  /\ shutdown \in {"no", "stop", "halt"}

-----------------------------------------------------------------------------

Queued  == {e \in Events : event[e] = "queued"}
Pending == {a \in Approvals : decision[a] = "pending"}
\* self.workers: a leaked key still counts.
Slots   == {t \in Tasks : worker[t] # "idle"}
Live    == {"native", "unwinding"}
Yielded == pc \in {"routing", "sleep", "exit"}

\* State.queued(ready_only=True): ORDER BY received LIMIT PassLimit
ReadyRows ==
  LET ready == Queued \ resting
  IN  {e \in ready : Cardinality(ready \cap received[e]) < PassLimit}

\* A row is a copy of its record, but only the loop that holds it routes it or
\* starts its turn, so the columns it uses are still those of the table.
NextRow(e) == e \in rows /\ rows \cap received[e] = {}

\* Once every coroutine has been given its first step, the loop may resume what
\* waits longer: create_task put the step in the ready queue before the await.
WorkersBegun == \A t \in Tasks : worker[t] # "created"

Init ==
  /\ event = [e \in Events |-> "absent"]
  /\ received = [e \in Events |-> {}]
  /\ taskOf = [e \in Events |-> NoTask]
  /\ attempts = [e \in Events |-> 0]
  /\ resting = {}
  /\ task = [t \in Tasks |-> "none"]
  /\ owner = [t \in Tasks |-> "none"]
  /\ decision = [a \in Approvals |-> "none"]
  /\ asker = [a \in Approvals |-> NoTask]
  /\ active \in Installed
  /\ pc = "down"
  /\ rows = {}
  /\ routing = NoEvent
  /\ worker = [t \in Tasks |-> "idle"]
  /\ turn = [t \in Tasks |-> NoEvent]
  /\ waiters = {}
  /\ draining = FALSE
  /\ intake = "closed"
  /\ shutdown = "stop"

-----------------------------------------------------------------------------
(* Life of the process                                                     *)

\* Mutant of Recover: what was dispatched is queued again.
RecoverRequeues ==
  /\ event' = [e \in Events |-> IF event[e] = "running" THEN "queued" ELSE event[e]]
  /\ task' = [t \in Tasks |->
                IF task[t] \in {"running", "waiting"} THEN "interrupted" ELSE task[t]]
  /\ decision' = [a \in Approvals |->
                    IF decision[a] = "pending" THEN "deny" ELSE decision[a]]

\* State.recover
Recover ==
  /\ event' = [e \in Events |->
                 IF event[e] = "running" THEN "interrupted" ELSE event[e]]
  /\ task' = [t \in Tasks |->
                IF task[t] \in {"running", "waiting"} THEN "interrupted" ELSE task[t]]
  /\ decision' = [a \in Approvals |->
                    IF decision[a] = "pending" THEN "deny" ELSE decision[a]]

\* control.start_native spawned the service, flock granted the lock and the
\* transports are started.  Control starts another framework only after a stop
\* was accepted and the receiver has gone (control.reconcile).
Start(f) ==
  /\ pc = "down"
  /\ f = active \/ shutdown = "stop"
  /\ Recover
  /\ active' = f
  /\ pc' = "sleep"
  /\ draining' = FALSE /\ intake' = "open" /\ shutdown' = "no"
  /\ UNCHANGED <<received, taskOf, attempts, resting, owner, asker, waiters,
                 rows, routing, workVars>>

\* Codex.close cancels the approval coroutines of its own session first; those of
\* Claude Code serve a socket connection, which nobody cancels.
Orphans(ended) == {a \in waiters : active = "codex" /\ asker[a] \in ended}
Deny(asks) == [a \in Approvals |->
                 IF a \in asks /\ decision[a] = "pending" THEN "deny" ELSE decision[a]]

\* Mutant of Cancelled: the key is popped while the native process still closes.
CancelledFreesSlot(phase) == IF phase = "native" THEN "idle" ELSE phase

\* Cancellation of the asyncio task of a worker, at whichever await it stands.
Cancelled(phase) ==
  CASE phase = "created" -> "leaked"
    [] phase = "native"  -> "unwinding"
    [] phase = "cleanup" -> "leaked"
    [] OTHER             -> phase

Cancel(cancelled) ==
  /\ worker' = [t \in Tasks |-> IF t \in cancelled THEN Cancelled(worker[t])
                                                 ELSE worker[t]]
  /\ decision' = Deny(Orphans(cancelled))
  /\ waiters' = waiters \ Orphans(cancelled)

\* Everything of the process that is not in SQLite is gone.
Gone(why) ==
  /\ pc' = "down"
  /\ rows' = {} /\ routing' = NoEvent
  /\ worker' = [t \in Tasks |-> "idle"]
  /\ turn' = [t \in Tasks |-> NoEvent]
  /\ waiters' = {}
  /\ draining' = FALSE /\ intake' = "closed" /\ shutdown' = why
  /\ UNCHANGED active

Crash ==
  /\ pc # "down"
  /\ Gone("no")
  /\ UNCHANGED <<inboxVars, taskVars, decision, asker>>

\* The loop ends on shutdown, or because the status publisher died.
Exit ==
  /\ pc = "sleep" /\ WorkersBegun
  /\ pc' = "exit"
  /\ Cancel(Slots)
  /\ UNCHANGED <<inboxVars, taskVars, asker, active, rows, routing, turn, rpcVars>>

\* asyncio.gather over the workers, transports.close, socket unlinked
Down ==
  /\ pc = "exit"
  /\ \A t \in Tasks : worker[t] \in {"idle", "leaked"}
  /\ Gone(shutdown)
  /\ UNCHANGED <<inboxVars, taskVars, decision, asker>>

-----------------------------------------------------------------------------
(* Intake                                                                  *)

\* State.ingest, through Transports.accept
Ingest(e) ==
  /\ Yielded
  /\ intake \in {"open", "closing"}
  /\ event[e] = "absent"
  /\ Cardinality(Queued) < InboxLimit
  /\ event' = [event EXCEPT ![e] = "queued"]
  /\ received' = [received EXCEPT ![e] = {f \in Events : event[f] # "absent"}]
  /\ UNCHANGED <<taskOf, attempts, resting, taskVars, askVars, loopVars,
                 workVars, rpcVars>>

\* Stop is a control of a draft or of a working status, which a turn of the task
\* has put there; the setting that names the task outlives that turn.
Stoppable(t) ==
  \E e \in Events : taskOf[e] = t /\ event[e] \notin {"absent", "queued"}

\* The owner pressed Stop: Service.stop_task.
StopTask(t) ==
  /\ Yielded
  /\ intake \in {"open", "closing"}
  /\ Stoppable(t)
  /\ worker[t] \notin {"idle", "leaked", "unwinding"}
  /\ Cancel({t})
  /\ UNCHANGED <<inboxVars, taskVars, asker, loopVars, turn, rpcVars>>

-----------------------------------------------------------------------------
(* The main loop                                                           *)

BeginPass ==
  /\ pc = "sleep" /\ shutdown = "no" /\ WorkersBegun
  /\ pc' = "rows"
  /\ rows' = ReadyRows
  /\ UNCHANGED <<inboxVars, taskVars, askVars, active, routing, workVars, rpcVars>>

EndPass ==
  /\ pc = "rows"
  /\ rows = {} \/ Cardinality(Slots) >= MaxWorkers
  /\ pc' = "sleep"
  /\ rows' = {}
  /\ UNCHANGED <<inboxVars, taskVars, askVars, active, routing, workVars, rpcVars>>

\* Mutant of StartUnlessBusy: without `task_id not in self.workers`.
StartEvenIfBusy(e, t) ==
  /\ worker' = [worker EXCEPT ![t] = "created"]
  /\ turn' = [turn EXCEPT ![t] = e]

\* `if task_id and task_id not in self.workers: create_task(self.work(...))`
StartUnlessBusy(e, t) ==
  IF worker[t] = "idle"
  THEN /\ worker' = [worker EXCEPT ![t] = "created"]
       /\ turn' = [turn EXCEPT ![t] = e]
  ELSE UNCHANGED workVars

\* Mutant of RowAvailable: the number of workers is not looked at in every pass.
RowAlwaysAvailable(e) == pc = "rows" /\ NextRow(e)

RowAvailable(e) ==
  /\ pc = "rows"
  /\ NextRow(e)
  /\ Cardinality(Slots) < MaxWorkers

\* The row was routed in an earlier pass, or before a restart.
ResumeRow(e) ==
  /\ RowAvailable(e)
  /\ taskOf[e] # NoTask
  /\ rows' = rows \ {e}
  /\ StartUnlessBusy(e, taskOf[e])
  /\ UNCHANGED <<inboxVars, taskVars, askVars, active, pc, routing, rpcVars>>

RouteBegin(e) ==
  /\ RowAvailable(e)
  /\ taskOf[e] = NoTask
  /\ rows' = rows \ {e}
  /\ routing' = e
  /\ pc' = "routing"
  /\ UNCHANGED <<inboxVars, taskVars, askVars, active, workVars, rpcVars>>

RouteReturns(e) ==
  /\ pc = "routing" /\ routing = e /\ WorkersBegun
  /\ pc' = "rows"
  /\ routing' = NoEvent

\* State.route accepted the decision: a new task, or one of this framework
RouteDone(e, t) ==
  /\ RouteReturns(e)
  /\ \/ /\ task[t] = "none"
        /\ task' = [task EXCEPT ![t] = "queued"]
        /\ owner' = [owner EXCEPT ![t] = active]
     \/ /\ owner[t] = active
        /\ UNCHANGED taskVars
  /\ taskOf' = [taskOf EXCEPT ![e] = t]
  /\ StartUnlessBusy(e, t)
  /\ UNCHANGED <<event, received, attempts, resting, askVars, active, rows, rpcVars>>

\* The /activity command is answered by the router itself.
RouteCommand(e) ==
  /\ RouteReturns(e)
  /\ event' = [event EXCEPT ![e] = "done"]
  /\ UNCHANGED <<received, taskOf, attempts, resting, taskVars, askVars, active,
                 rows, workVars, rpcVars>>

\* State.route_failed(permanent=True): an invalid decision, a task of another
\* framework, an unavailable explicit task
RouteInvalid(e) ==
  /\ RouteReturns(e)
  /\ event' = [event EXCEPT ![e] = "failed"]
  /\ attempts' = [attempts EXCEPT ![e] = @ + 1]
  /\ UNCHANGED <<received, taskOf, resting, taskVars, askVars, active, rows, workVars,
                 rpcVars>>

\* Mutants of RouteUnavailable: the limit is off by one; failures are not counted.
RouteOnceMore(e) ==
  /\ RouteReturns(e)
  /\ attempts' = [attempts EXCEPT ![e] = @ + 1]
  /\ IF attempts[e] >= MaxAttempts
     THEN event' = [event EXCEPT ![e] = "failed"] /\ UNCHANGED resting
     ELSE resting' = resting \cup {e} /\ UNCHANGED event
  /\ UNCHANGED <<received, taskOf, taskVars, askVars, active, rows, workVars,
                 rpcVars>>

RouteForever(e) ==
  /\ RouteReturns(e)
  /\ resting' = resting \cup {e}
  /\ UNCHANGED <<event, received, taskOf, attempts, taskVars, askVars, active, rows,
                 workVars, rpcVars>>

\* State.route_failed: the column is compared before it is incremented.  retry_at
\* is read of queued rows alone.
RouteUnavailable(e) ==
  /\ RouteReturns(e)
  /\ attempts' = [attempts EXCEPT ![e] = @ + 1]
  /\ IF attempts[e] >= MaxAttempts - 1
     THEN event' = [event EXCEPT ![e] = "failed"] /\ UNCHANGED resting
     ELSE resting' = resting \cup {e} /\ UNCHANGED event
  /\ UNCHANGED <<received, taskOf, taskVars, askVars, active, rows, workVars,
                 rpcVars>>

\* thirty seconds have passed
RetryDue(e) ==
  /\ e \in resting
  /\ resting' = resting \ {e}
  /\ UNCHANGED <<event, received, taskOf, attempts, taskVars, askVars, loopVars,
                 workVars, rpcVars>>

-----------------------------------------------------------------------------
(* Workers                                                                 *)

\* The first step of Service.work: both rows are marked before any native I/O.
WorkerBegins(t) ==
  /\ Yielded
  /\ worker[t] = "created"
  /\ event' = [event EXCEPT ![turn[t]] = "running"]
  /\ task' = [task EXCEPT ![t] = "running"]
  /\ worker' = [worker EXCEPT ![t] = "native"]
  /\ UNCHANGED <<received, taskOf, attempts, resting, owner, askVars, loopVars,
                 turn, rpcVars>>

\* How a turn ends: the status of the task and the state of the row.
Ends == {<<"completed", "done">>, <<"failed", "failed">>,
         <<"interrupted", "interrupted">>}

\* Mutant of TurnEnds: the proposals of the turn stay pending.
TurnEndsUndecided(t, end) ==
  /\ Yielded
  /\ \/ worker[t] = "native" /\ end[2] # "interrupted"
     \/ worker[t] = "unwinding" /\ end[2] = "interrupted"
  /\ task' = [task EXCEPT ![t] = end[1]]
  /\ event' = [event EXCEPT ![turn[t]] = end[2]]
  /\ worker' = [worker EXCEPT ![t] = "cleanup"]
  /\ UNCHANGED <<received, taskOf, attempts, resting, owner, askVars, loopVars,
                 turn, rpcVars>>

\* A turn returned or raised (native), or its cancellation reached Service.work
\* (unwinding).  The finally block denies what is still pending and starts to
\* await stop_typing.  Codex.close cancels the approvals it knows before it waits
\* for the process to end, and reads on: the ones that come late keep polling.
TurnEnds(t, end) ==
  /\ Yielded
  /\ \/ worker[t] = "native" /\ end[2] # "interrupted"
     \/ worker[t] = "unwinding" /\ end[2] = "interrupted"
  /\ task' = [task EXCEPT ![t] = end[1]]
  /\ event' = [event EXCEPT ![turn[t]] = end[2]]
  /\ decision' = Deny({a \in Approvals : asker[a] = t})
  /\ \E late \in SUBSET Orphans({t}) :
       waiters' = IF worker[t] = "native" THEN waiters \ (Orphans({t}) \ late) ELSE waiters
  /\ worker' = [worker EXCEPT ![t] = "cleanup"]
  /\ UNCHANGED <<received, taskOf, attempts, resting, owner, asker, loopVars,
                 turn, rpcVars>>

\* Mutant of WorkerLeaves: the key is not popped.
WorkerLeavesKey(t) ==
  /\ Yielded
  /\ worker[t] = "cleanup"
  /\ worker' = [worker EXCEPT ![t] = "leaked"]
  /\ UNCHANGED <<inboxVars, taskVars, askVars, loopVars, turn, rpcVars>>

\* stop_typing returned: self.workers.pop(task_id)
WorkerLeaves(t) ==
  /\ Yielded
  /\ worker[t] = "cleanup"
  /\ worker' = [worker EXCEPT ![t] = "idle"]
  /\ turn' = [turn EXCEPT ![t] = NoEvent]
  /\ UNCHANGED <<inboxVars, taskVars, askVars, loopVars, rpcVars>>

\* Service.work writes the row and the task in two transactions; the process may
\* die between them.
CrashAsWorkerBegins(t) ==
  /\ Yielded
  /\ worker[t] = "created"
  /\ event' = [event EXCEPT ![turn[t]] = "running"]
  /\ Gone("no")
  /\ UNCHANGED <<received, taskOf, attempts, resting, taskVars, decision, asker>>

CrashAsTurnEnds(t, end) ==
  /\ Yielded
  /\ \/ worker[t] = "native" /\ end[2] # "interrupted"
     \/ worker[t] = "unwinding" /\ end[2] = "interrupted"
  /\ task' = [task EXCEPT ![t] = end[1]]
  /\ Gone("no")
  /\ UNCHANGED <<inboxVars, owner, decision, asker>>

-----------------------------------------------------------------------------
(* Approvals                                                               *)

\* Service.approval: the capability lives until the native process is closed.
Ask(a, t) ==
  /\ Yielded
  /\ worker[t] \in Live
  /\ decision[a] = "none"
  /\ Cardinality(Pending) < MaxPending
  /\ decision' = [decision EXCEPT ![a] = "pending"]
  /\ asker' = [asker EXCEPT ![a] = t]
  /\ waiters' = waiters \cup {a}
  /\ task' = [task EXCEPT ![t] = "waiting"]
  /\ UNCHANGED <<inboxVars, owner, loopVars, workVars, rpcVars>>

\* Mutant of Approve: without `AND decision IS NULL`.
ApproveAgain(a, d) ==
  /\ Yielded
  /\ decision[a] # "none"
  /\ decision' = [decision EXCEPT ![a] = d]
  /\ UNCHANGED <<inboxVars, taskVars, asker, waiters, loopVars, workVars, rpcVars>>

\* State.approve, through the control socket
Approve(a, d) ==
  /\ Yielded
  /\ decision[a] = "pending"
  /\ decision' = [decision EXCEPT ![a] = d]
  /\ UNCHANGED <<inboxVars, taskVars, asker, waiters, loopVars, workVars, rpcVars>>

\* The poll of Service.approval found a decision, whoever wrote it.
WaiterWakes(a) ==
  /\ Yielded
  /\ a \in waiters
  /\ \/ /\ shutdown = "no"
        /\ decision[a] # "pending"
        /\ task' = [task EXCEPT ![asker[a]] = "running"]
        /\ UNCHANGED decision
     \/ /\ shutdown # "no"
        /\ decision' = Deny({a})
        /\ UNCHANGED task
  /\ waiters' = waiters \ {a}
  /\ UNCHANGED <<inboxVars, owner, asker, loopVars, workVars, rpcVars>>

-----------------------------------------------------------------------------
(* Requests of the control process                                         *)

\* Service.connection "drain": stop_intake is awaited before the reply.
Drain ==
  /\ Yielded
  /\ draining' = TRUE
  /\ intake' = IF intake = "open" THEN "closing" ELSE intake
  /\ UNCHANGED <<inboxVars, taskVars, askVars, loopVars, workVars, shutdown>>

\* Transports.stop_intake: the listeners are cancelled, a mail poll is awaited.
IntakeStops ==
  /\ Yielded
  /\ intake = "closing"
  /\ intake' = "closed"
  /\ UNCHANGED <<inboxVars, taskVars, askVars, loopVars, workVars, draining, shutdown>>

Resume ==
  /\ Yielded
  /\ draining
  /\ draining' = FALSE
  /\ intake' = "open"
  /\ UNCHANGED <<inboxVars, taskVars, askVars, loopVars, workVars, shutdown>>

\* Mutant of Stop: without `or self.state.queued()`.
StopWithQueue ==
  /\ Yielded
  /\ draining /\ intake = "closed"
  /\ Slots = {}
  /\ shutdown' = "stop"
  /\ UNCHANGED <<inboxVars, taskVars, askVars, loopVars, workVars, draining, intake>>

\* Accepted only without workers and queued rows.  Control asks for it after the
\* reply to a drain, never otherwise.
Stop ==
  /\ Yielded
  /\ draining /\ intake = "closed"
  /\ Slots = {} /\ Queued = {}
  /\ shutdown' = "stop"
  /\ UNCHANGED <<inboxVars, taskVars, askVars, loopVars, workVars, draining, intake>>

\* "halt" of control.suspend, and SIGTERM or SIGINT
Halt ==
  /\ Yielded
  /\ shutdown' = "halt"
  /\ UNCHANGED <<inboxVars, taskVars, askVars, loopVars, workVars, draining, intake>>

-----------------------------------------------------------------------------

MainLoop ==
  \/ BeginPass \/ EndPass
  \/ \E e \in Events :
       \/ ResumeRow(e) \/ RouteBegin(e) \/ RouteCommand(e) \/ RouteInvalid(e)
       \/ RouteUnavailable(e) \/ (\E t \in Tasks : RouteDone(e, t))

Work ==
  \E t \in Tasks :
    \/ WorkerBegins(t) \/ WorkerLeaves(t)
    \/ \E end \in Ends : TurnEnds(t, end)

Asking ==
  \E a \in Approvals :
    \/ \E t \in Tasks : Ask(a, t)
    \/ \E d \in {"allow", "deny"} : Approve(a, d)
    \/ WaiterWakes(a)

Crashes ==
  \/ Crash
  \/ \E t \in Tasks : \/ CrashAsWorkerBegins(t)
                      \/ \E end \in Ends : CrashAsTurnEnds(t, end)

Requests == Drain \/ IntakeStops \/ Resume \/ Stop \/ Halt

Next ==
  \/ \E f \in Installed : Start(f)
  \/ Exit \/ Down
  \/ \E e \in Events : Ingest(e) \/ RetryDue(e)
  \/ \E t \in Tasks : StopTask(t)
  \/ MainLoop \/ Work \/ Asking \/ Requests \/ Crashes

Spec == Init /\ [][Next]_vars

-----------------------------------------------------------------------------
(* Safety                                                                  *)

(* While the receiver is up, a row marked running is the turn of a live     *)
(* worker of its own task.  Two running rows therefore never share a task   *)
(* ("Updates to the same task wait for its current turn", README.md).       *)
RunningRowHasWorker ==
  pc # "down" =>
    \A e \in Events : event[e] = "running" =>
      \E t \in Tasks : taskOf[e] = t /\ turn[t] = e /\ worker[t] \in Live

(* self.workers never holds more than MaxWorkers keys, whatever is started   *)
(* while the loop waits for a router in the middle of a pass.                *)
WorkersBounded == Cardinality(Slots) <= MaxWorkers

(* A worker never resumes a task of another framework, also not through a    *)
(* row that was routed before the framework changed: native session ids are  *)
(* not interchangeable (State.route, README.md).                             *)
NoForeignTurn == \A t \in Slots : owner[t] = active

(* An approval is pending only while the turn that asked for it is live: the *)
(* owner is never shown a proposal of a turn that is over.                   *)
PendingHasTurn == pc # "down" => \A a \in Pending : worker[asker[a]] \in Live

(* A dispatched row never becomes queued again, over crashes, restarts and   *)
(* stops: what it may have done is never repeated (State.recover).           *)
NeverReplayed ==
  [][\A e \in Events : event[e] \notin {"absent", "queued"} =>
       event'[e] \notin {"absent", "queued"}]_vars

(* The task of a row is chosen once, and a decision on an approval is final,  *)
(* whichever of the owner, the end of the turn and a restart came first.     *)
ChosenOnce ==
  [][/\ \A e \in Events : taskOf[e] # NoTask => taskOf'[e] = taskOf[e]
     /\ \A a \in Approvals : decision[a] \in {"allow", "deny"} =>
          decision'[a] = decision[a]]_vars

WorkerStarts == \E t \in Tasks : worker[t] = "idle" /\ worker'[t] # "idle"

(* A receiver whose stop was accepted starts no turn any more: the framework *)
(* that takes over meets no second worker (control.reconcile).               *)
StoppedStartsNoWorker == [][shutdown = "stop" => ~WorkerStarts]_vars

-----------------------------------------------------------------------------
(* The abstract specification it implements                                *)

LedgerTurn ==
  [e \in Events |->
     CASE event[e] = "absent"  -> "absent"
       [] event[e] = "queued"  -> "waiting"
       [] event[e] = "running" -> "running"
       [] OTHER                -> "settled"]

Ledger == INSTANCE TurnLedger
          WITH Updates <- Events, Hosts <- Tasks, NoHost <- NoTask,
               Width <- MaxWorkers, turn <- LedgerTurn, host <- taskOf

(* Whatever crashes, stops and restarts, an update runs at most once, never  *)
(* beside another update of its task, and never beside MaxWorkers others     *)
(* (README.md, "Updates to the same task wait for its current turn").        *)
ImplementsLedger == Ledger!Spec

-----------------------------------------------------------------------------
(* The inductive invariant behind them (proved in ChannelReceiver_proofs)   *)

(* A worker's turn is a row of its own task, in the state its phase says.    *)
TurnsMatch ==
  \A t \in Slots :
    /\ turn[t] \in Events
    /\ taskOf[turn[t]] = t
    /\ worker[t] = "created" => event[turn[t]] = "queued"
    /\ worker[t] \in Live => event[turn[t]] = "running"
    /\ worker[t] = "cleanup" => event[turn[t]] \notin {"absent", "queued", "running"}

(* What the pass still holds is queued and has no worker about to begin it.  *)
PassIsFresh ==
  /\ \A e \in rows : /\ event[e] = "queued"
                     /\ \A t \in Slots : worker[t] = "created" => turn[t] # e
  /\ rows # {} => pc \in {"rows", "routing"}
  /\ pc = "routing" => /\ routing \in Events \ rows
                       /\ event[routing] = "queued"
                       /\ taskOf[routing] = NoTask

(* Unserved rows have attempts left, and only received rows have a task.     *)
UnservedRows ==
  \A e \in Events :
    /\ event[e] \in {"absent", "queued"} => attempts[e] < MaxAttempts
    /\ event[e] = "absent" => taskOf[e] = NoTask

(* Rows that wait for their turn belong to tasks of the selected framework.  *)
RoutedRowsOwned ==
  /\ \A e \in Queued : taskOf[e] # NoTask => owner[taskOf[e]] = active
  /\ \A t \in Tasks : task[t] = "none" => owner[t] = "none"

(* A receiver that is down, or whose stop was accepted, has nothing in hand. *)
NothingInHand ==
  /\ pc = "down" => Slots = {}
  /\ shutdown = "stop" => /\ pc \in {"down", "sleep", "exit"}
                          /\ Slots = {}
                          /\ \A e \in Queued : taskOf[e] = NoTask

(* Every request for an approval names the task whose turn made it.          *)
AskersKnown == \A a \in Approvals : decision[a] # "none" => asker[a] \in Tasks

(* While the router is awaited a worker may be started when it returns.      *)
RoutingHasSlot == pc = "routing" => Cardinality(Slots) < MaxWorkers

IInv ==
  /\ TypeOK /\ TurnsMatch /\ PassIsFresh /\ UnservedRows /\ RoutedRowsOwned
  /\ NothingInHand /\ AskersKnown
  /\ RunningRowHasWorker /\ NoForeignTurn /\ PendingHasTurn
  /\ RoutingHasSlot /\ WorkersBounded

-----------------------------------------------------------------------------
(* Statements of the documentation that the code does not keep              *)

(* README.md: "Crash recovery marks dispatched but incomplete turns           *)
(* interrupted."  After a restart no task is left queued without a queued    *)
(* row that will run it.                                                     *)
QueuedTaskHasRow ==
  pc # "down" =>
    \A t \in Tasks : task[t] = "queued" =>
      \E e \in Events : taskOf[e] = t /\ event[e] = "queued"

-----------------------------------------------------------------------------
(* Liveness                                                                *)

\* A native turn ends, a routing session is bounded by two minutes, thirty seconds
\* pass.  Other coroutines get their step only while the main loop is suspended, but
\* every pass ends in a sleep of a second, which runs all that are ready: SF.
Fairness ==
  /\ WF_vars(BeginPass) /\ WF_vars(EndPass) /\ SF_vars(IntakeStops)
  /\ WF_vars(shutdown # "no" /\ Exit) /\ WF_vars(Down)
  /\ \A e \in Events :
       /\ WF_vars(ResumeRow(e)) /\ WF_vars(RouteBegin(e)) /\ WF_vars(RetryDue(e))
       /\ WF_vars(\/ RouteCommand(e) \/ RouteInvalid(e) \/ RouteUnavailable(e)
                  \/ \E t \in Tasks : RouteDone(e, t))
  /\ \A t \in Tasks :
       /\ SF_vars(WorkerBegins(t)) /\ SF_vars(WorkerLeaves(t))
       /\ SF_vars(\E end \in Ends : TurnEnds(t, end))
  /\ \A a \in Approvals : SF_vars(WaiterWakes(a))

FairSpec == Spec /\ Fairness

\* A receiver that is left alone: nobody presses Stop, nothing crashes or halts.
CalmNext ==
  \/ \E f \in Installed : Start(f)
  \/ Down \/ (shutdown # "no" /\ Exit)
  \/ \E e \in Events : Ingest(e) \/ RetryDue(e)
  \/ MainLoop \/ Work \/ Asking
  \/ Drain \/ IntakeStops \/ Resume \/ Stop

CalmSpec == Init /\ [][CalmNext]_vars /\ Fairness

\* An approval of an earlier turn may have set the status of t when its poll woke.
Haunted(t) == worker[t] = "idle" /\ \E a \in Approvals : asker[a] = t

(* "Stop native intake, finish committed native work": a receiver that stays *)
(* in draining becomes quiet and lets go of its workers, so that the stop    *)
(* control sends next is accepted.  The status control reads first settles   *)
(* too, but for a task that an approval outlived (see TasksSettle).          *)
DrainFinishes ==
  []<>(~draining \/ pc = "down"
       \/ /\ Queued = {} /\ Slots = {}
          /\ \A t \in Tasks : task[t] \in {"running", "waiting", "queued"} => Haunted(t))

(* Every queued update leaves the queue while the receiver stays up: "A live *)
(* PID alone must not strand intake permanently."                            *)
UpdatesServed ==
  \A e \in Events : event[e] = "queued" ~> (event[e] # "queued" \/ pc = "down")

(* The status of a task settles once its turn is over and intake is drained:  *)
(* control waits for it (README.md, "finish committed native work").         *)
TasksSettle ==
  []<>(~draining \/ pc = "down"
       \/ \A t \in Tasks : task[t] \notin {"running", "waiting"})

=============================================================================
