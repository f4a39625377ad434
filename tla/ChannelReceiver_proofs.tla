----------------------- MODULE ChannelReceiver_proofs -----------------------
(***************************************************************************)
(* Proofs about ChannelReceiver, for all values of its constants.           *)
(*                                                                          *)
(* IInv is inductive.  All of it but the two conjuncts about the number of   *)
(* workers is CoreInv, which every action keeps by itself: one lemma per     *)
(* action, in the order of the module, and under it one step per conjunct    *)
(* the action can disturb.  The number of workers needs the cardinality of   *)
(* finite sets and has lemmas of its own.                                   *)
(***************************************************************************)
EXTENDS ChannelReceiver, TLAPS, FiniteSetTheorems

CoreInv ==
  /\ TypeOK /\ TurnsMatch /\ PassIsFresh /\ UnservedRows /\ RoutedRowsOwned
  /\ NothingInHand /\ AskersKnown
  /\ RunningRowHasWorker /\ NoForeignTurn /\ PendingHasTurn

\* The groups of variables, and the sets the conjuncts speak of.
USE DEF inboxVars, taskVars, askVars, loopVars, workVars, rpcVars
USE DEF Slots, Queued, Pending, Live

-----------------------------------------------------------------------------
(* Every action keeps CoreInv                                               *)

\* Recovery settles what was dispatched; the new process has nothing in hand.
LEMMA StartKeeps ==
  ASSUME CoreInv, NEW f \in Installed, Start(f)
  PROVE  CoreInv'
<1>. USE DEF CoreInv, Start, Recover
<1>1. TypeOK'
  <2>1. draining' \in BOOLEAN
    BY Zenon
  <2>. QED
    BY <2>1, ReceiverAssumption DEF TypeOK, Phases, EventStates, TaskStates,
         Frameworks
<1>2. TurnsMatch'
  BY DEF TurnsMatch, NothingInHand
<1>3. PassIsFresh'
  BY DEF PassIsFresh
<1>4. UnservedRows'
  BY DEF UnservedRows
<1>5. RoutedRowsOwned'
  BY DEF RoutedRowsOwned, NothingInHand
<1>6. NothingInHand'
  BY DEF NothingInHand
<1>7. AskersKnown'
  BY DEF AskersKnown
<1>8. RunningRowHasWorker'
  BY DEF RunningRowHasWorker
<1>9. NoForeignTurn'
  BY DEF NoForeignTurn, NothingInHand
<1>10. PendingHasTurn'
  BY DEF PendingHasTurn
<1>. QED BY <1>1, <1>2, <1>3, <1>4, <1>5, <1>6, <1>7, <1>8, <1>9, <1>10

\* A crash leaves the durable rows and an empty process.
LEMMA CrashKeeps ==
  ASSUME CoreInv, Crash
  PROVE  CoreInv'
<1>. USE DEF CoreInv, Crash, Gone
<1>1. TypeOK'
  <2>1. draining' \in BOOLEAN
    BY Zenon
  <2>. QED
    BY <2>1, ReceiverAssumption DEF TypeOK, Phases, EventStates, TaskStates,
         Frameworks
<1>2. TurnsMatch'
  BY DEF TurnsMatch
<1>3. PassIsFresh'
  BY DEF PassIsFresh
<1>4. NothingInHand'
  BY DEF NothingInHand
<1>5. RunningRowHasWorker'
  BY DEF RunningRowHasWorker
<1>6. NoForeignTurn'
  BY DEF NoForeignTurn
<1>7. PendingHasTurn'
  BY DEF PendingHasTurn
<1>8. (UnservedRows /\ RoutedRowsOwned /\ AskersKnown)'
  BY DEF UnservedRows, RoutedRowsOwned, AskersKnown
<1>. QED BY <1>1, <1>2, <1>3, <1>4, <1>5, <1>6, <1>7, <1>8

\* The loop ends and cancels its workers.
LEMMA ExitKeeps ==
  ASSUME CoreInv, Exit
  PROVE  CoreInv'
<1>. USE DEF CoreInv, Exit, Cancel, Cancelled, Deny, Orphans
<1>1. TypeOK'
  BY ReceiverAssumption DEF TypeOK, Phases, EventStates, TaskStates, Frameworks
<1>2. TurnsMatch'
  BY DEF TurnsMatch
<1>3. PassIsFresh'
  BY DEF PassIsFresh
<1>4. NothingInHand'
  BY DEF NothingInHand
<1>5. AskersKnown'
  BY DEF AskersKnown
<1>6. RunningRowHasWorker'
  BY DEF RunningRowHasWorker
<1>7. NoForeignTurn'
  BY DEF NoForeignTurn
<1>8. PendingHasTurn'
  BY DEF PendingHasTurn, AskersKnown
<1>9. (UnservedRows /\ RoutedRowsOwned)'
  BY DEF UnservedRows, RoutedRowsOwned
<1>. QED BY <1>1, <1>2, <1>3, <1>4, <1>5, <1>6, <1>7, <1>8, <1>9

\* The process goes when its workers have ended.
LEMMA DownKeeps ==
  ASSUME CoreInv, Down
  PROVE  CoreInv'
<1>. USE DEF CoreInv, Down, Gone
<1>1. TypeOK'
  <2>1. draining' \in BOOLEAN
    BY Zenon
  <2>. QED
    BY <2>1, ReceiverAssumption DEF TypeOK, Phases, EventStates, TaskStates,
         Frameworks
<1>2. TurnsMatch'
  BY DEF TurnsMatch
<1>3. PassIsFresh'
  BY DEF PassIsFresh
<1>4. NothingInHand'
  BY DEF NothingInHand
<1>5. RunningRowHasWorker'
  BY DEF RunningRowHasWorker
<1>6. NoForeignTurn'
  BY DEF NoForeignTurn
<1>7. PendingHasTurn'
  BY DEF PendingHasTurn
<1>8. (UnservedRows /\ RoutedRowsOwned /\ AskersKnown)'
  BY DEF UnservedRows, RoutedRowsOwned, AskersKnown
<1>. QED BY <1>1, <1>2, <1>3, <1>4, <1>5, <1>6, <1>7, <1>8

\* A new row is queued and belongs to no task.
LEMMA IngestKeeps ==
  ASSUME CoreInv, NEW e \in Events, Ingest(e)
  PROVE  CoreInv'
<1>. USE DEF CoreInv, Ingest
<1>1. TypeOK'
  BY ReceiverAssumption DEF TypeOK, Phases, EventStates, TaskStates, Frameworks
<1>2. TurnsMatch'
  BY DEF TurnsMatch
<1>3. PassIsFresh'
  BY DEF PassIsFresh
<1>4. UnservedRows'
  BY DEF UnservedRows
<1>5. RoutedRowsOwned'
  BY DEF RoutedRowsOwned, UnservedRows
<1>6. NothingInHand'
  BY DEF NothingInHand, UnservedRows
<1>7. RunningRowHasWorker'
  BY DEF RunningRowHasWorker
<1>8. (AskersKnown /\ NoForeignTurn /\ PendingHasTurn)'
  BY DEF AskersKnown, NoForeignTurn, PendingHasTurn
<1>. QED BY <1>1, <1>2, <1>3, <1>4, <1>5, <1>6, <1>7, <1>8

\* Stop cancels one worker.
LEMMA StopTaskKeeps ==
  ASSUME CoreInv, NEW t \in Tasks, StopTask(t)
  PROVE  CoreInv'
<1>. USE DEF CoreInv, StopTask, Stoppable, Cancel, Cancelled, Deny, Orphans
<1>1. TypeOK'
  BY ReceiverAssumption DEF TypeOK, Phases, EventStates, TaskStates, Frameworks
<1>2. TurnsMatch'
  BY DEF TurnsMatch
<1>3. PassIsFresh'
  BY DEF PassIsFresh
<1>4. NothingInHand'
  BY DEF NothingInHand
<1>5. AskersKnown'
  BY DEF AskersKnown
<1>6. RunningRowHasWorker'
  BY DEF RunningRowHasWorker
<1>7. NoForeignTurn'
  BY DEF NoForeignTurn
<1>8. PendingHasTurn'
  BY DEF PendingHasTurn, AskersKnown
<1>9. (UnservedRows /\ RoutedRowsOwned)'
  BY DEF UnservedRows, RoutedRowsOwned
<1>. QED BY <1>1, <1>2, <1>3, <1>4, <1>5, <1>6, <1>7, <1>8, <1>9

\* A pass starts with queued rows only.
LEMMA BeginPassKeeps ==
  ASSUME CoreInv, BeginPass
  PROVE  CoreInv'
<1>. USE DEF CoreInv, BeginPass, ReadyRows, WorkersBegun
<1>1. TypeOK'
  BY ReceiverAssumption DEF TypeOK, Phases, EventStates, TaskStates, Frameworks
<1>2. PassIsFresh'
  BY DEF PassIsFresh
<1>3. NothingInHand'
  BY DEF NothingInHand
<1>4. RunningRowHasWorker'
  BY DEF RunningRowHasWorker
<1>5. PendingHasTurn'
  BY DEF PendingHasTurn
<1>6. (TurnsMatch /\ UnservedRows /\ RoutedRowsOwned /\ AskersKnown /\
     NoForeignTurn)'
  BY DEF TurnsMatch, UnservedRows, RoutedRowsOwned, AskersKnown, NoForeignTurn
<1>. QED BY <1>1, <1>2, <1>3, <1>4, <1>5, <1>6

\* A pass ends with no rows in hand.
LEMMA EndPassKeeps ==
  ASSUME CoreInv, EndPass
  PROVE  CoreInv'
<1>. USE DEF CoreInv, EndPass
<1>1. TypeOK'
  BY ReceiverAssumption DEF TypeOK, Phases, EventStates, TaskStates, Frameworks
<1>2. PassIsFresh'
  BY DEF PassIsFresh
<1>3. NothingInHand'
  BY DEF NothingInHand
<1>4. RunningRowHasWorker'
  BY DEF RunningRowHasWorker
<1>5. PendingHasTurn'
  BY DEF PendingHasTurn
<1>6. (TurnsMatch /\ UnservedRows /\ RoutedRowsOwned /\ AskersKnown /\
     NoForeignTurn)'
  BY DEF TurnsMatch, UnservedRows, RoutedRowsOwned, AskersKnown, NoForeignTurn
<1>. QED BY <1>1, <1>2, <1>3, <1>4, <1>5, <1>6

\* A routed row starts a worker of its task, or waits.
LEMMA ResumeRowKeeps ==
  ASSUME CoreInv, NEW e \in Events, ResumeRow(e)
  PROVE  CoreInv'
<1>. USE DEF CoreInv, ResumeRow, RowAvailable, NextRow, StartUnlessBusy
<1>1. TypeOK'
  BY ReceiverAssumption DEF TypeOK, Phases, EventStates, TaskStates, Frameworks
<1>2. TurnsMatch'
  BY ReceiverAssumption DEF TurnsMatch, TypeOK, PassIsFresh, Phases,
       EventStates, TaskStates, Frameworks
<1>3. PassIsFresh'
  BY ReceiverAssumption DEF PassIsFresh, TypeOK, Phases, EventStates,
       TaskStates, Frameworks
<1>4. NothingInHand'
  BY DEF NothingInHand
<1>5. RunningRowHasWorker'
  BY ReceiverAssumption DEF RunningRowHasWorker, TypeOK, Phases, EventStates,
       TaskStates, Frameworks
<1>6. NoForeignTurn'
  BY ReceiverAssumption DEF NoForeignTurn, TypeOK, PassIsFresh, RoutedRowsOwned,
       Phases, EventStates, TaskStates, Frameworks
<1>7. PendingHasTurn'
  BY ReceiverAssumption DEF PendingHasTurn, TypeOK, AskersKnown, Phases,
       EventStates, TaskStates, Frameworks
<1>8. (UnservedRows /\ RoutedRowsOwned /\ AskersKnown)'
  BY DEF UnservedRows, RoutedRowsOwned, AskersKnown
<1>. QED BY <1>1, <1>2, <1>3, <1>4, <1>5, <1>6, <1>7, <1>8

\* A row without a task is handed to the router.
LEMMA RouteBeginKeeps ==
  ASSUME CoreInv, NEW e \in Events, RouteBegin(e)
  PROVE  CoreInv'
<1>. USE DEF CoreInv, RouteBegin, RowAvailable, NextRow
<1>1. TypeOK'
  BY ReceiverAssumption DEF TypeOK, Phases, EventStates, TaskStates, Frameworks
<1>2. PassIsFresh'
  BY DEF PassIsFresh
<1>3. NothingInHand'
  BY DEF NothingInHand
<1>4. RunningRowHasWorker'
  BY DEF RunningRowHasWorker
<1>5. PendingHasTurn'
  BY DEF PendingHasTurn
<1>6. (TurnsMatch /\ UnservedRows /\ RoutedRowsOwned /\ AskersKnown /\
     NoForeignTurn)'
  BY DEF TurnsMatch, UnservedRows, RoutedRowsOwned, AskersKnown, NoForeignTurn
<1>. QED BY <1>1, <1>2, <1>3, <1>4, <1>5, <1>6

\* The router's decision gives the row a task of the framework.
LEMMA RouteDoneKeeps ==
  ASSUME CoreInv, NEW e \in Events, NEW t \in Tasks, RouteDone(e, t)
  PROVE  CoreInv'
<1>. USE DEF CoreInv, RouteDone, RouteReturns, WorkersBegun, StartUnlessBusy
<1>1. TypeOK'
  BY ReceiverAssumption DEF TypeOK, Phases, EventStates, TaskStates, Frameworks
<1>2. TurnsMatch'
  BY ReceiverAssumption DEF TurnsMatch, TypeOK, PassIsFresh, Phases,
       EventStates, TaskStates, Frameworks
<1>3. PassIsFresh'
  BY ReceiverAssumption DEF PassIsFresh, TypeOK, Phases, EventStates,
       TaskStates, Frameworks
<1>4. UnservedRows'
  BY DEF UnservedRows, PassIsFresh
<1>5. RoutedRowsOwned'
  BY ReceiverAssumption DEF RoutedRowsOwned, TypeOK, Phases, EventStates,
       TaskStates, Frameworks
<1>6. NothingInHand'
  BY DEF NothingInHand
<1>7. RunningRowHasWorker'
  BY ReceiverAssumption DEF RunningRowHasWorker, TypeOK, PassIsFresh, Phases,
       EventStates, TaskStates, Frameworks
<1>8. NoForeignTurn'
  BY ReceiverAssumption DEF NoForeignTurn, TypeOK, Phases, EventStates,
       TaskStates, Frameworks
<1>9. PendingHasTurn'
  BY ReceiverAssumption DEF PendingHasTurn, TypeOK, AskersKnown, Phases,
       EventStates, TaskStates, Frameworks
<1>10. AskersKnown'
  BY DEF AskersKnown
<1>. QED BY <1>1, <1>2, <1>3, <1>4, <1>5, <1>6, <1>7, <1>8, <1>9, <1>10

\* A command of the router settles the row.
LEMMA RouteCommandKeeps ==
  ASSUME CoreInv, NEW e \in Events, RouteCommand(e)
  PROVE  CoreInv'
<1>. USE DEF CoreInv, RouteCommand, RouteReturns, WorkersBegun
<1>1. TypeOK'
  BY ReceiverAssumption DEF TypeOK, Phases, EventStates, TaskStates, Frameworks
<1>2. TurnsMatch'
  BY DEF TurnsMatch, PassIsFresh
<1>3. PassIsFresh'
  BY DEF PassIsFresh
<1>4. UnservedRows'
  BY DEF UnservedRows
<1>5. RoutedRowsOwned'
  BY DEF RoutedRowsOwned
<1>6. NothingInHand'
  BY DEF NothingInHand
<1>7. RunningRowHasWorker'
  BY DEF RunningRowHasWorker
<1>8. PendingHasTurn'
  BY DEF PendingHasTurn
<1>9. (AskersKnown /\ NoForeignTurn)'
  BY DEF AskersKnown, NoForeignTurn
<1>. QED BY <1>1, <1>2, <1>3, <1>4, <1>5, <1>6, <1>7, <1>8, <1>9

\* An invalid decision fails the row.
LEMMA RouteInvalidKeeps ==
  ASSUME CoreInv, NEW e \in Events, RouteInvalid(e)
  PROVE  CoreInv'
<1>. USE DEF CoreInv, RouteInvalid, RouteReturns, WorkersBegun
<1>1. TypeOK'
  BY ReceiverAssumption DEF TypeOK, PassIsFresh, UnservedRows, Phases,
       EventStates, TaskStates, Frameworks
<1>2. TurnsMatch'
  BY DEF TurnsMatch, PassIsFresh
<1>3. PassIsFresh'
  BY DEF PassIsFresh
<1>4. UnservedRows'
  BY ReceiverAssumption DEF UnservedRows, TypeOK, Phases, EventStates,
       TaskStates, Frameworks
<1>5. RoutedRowsOwned'
  BY DEF RoutedRowsOwned
<1>6. NothingInHand'
  BY DEF NothingInHand
<1>7. RunningRowHasWorker'
  BY DEF RunningRowHasWorker
<1>8. PendingHasTurn'
  BY DEF PendingHasTurn
<1>9. (AskersKnown /\ NoForeignTurn)'
  BY DEF AskersKnown, NoForeignTurn
<1>. QED BY <1>1, <1>2, <1>3, <1>4, <1>5, <1>6, <1>7, <1>8, <1>9

\* An unavailable router costs an attempt.
LEMMA RouteUnavailableKeeps ==
  ASSUME CoreInv, NEW e \in Events, RouteUnavailable(e)
  PROVE  CoreInv'
<1>. USE DEF CoreInv, RouteUnavailable, RouteReturns, WorkersBegun
<1>1. TypeOK'
  BY ReceiverAssumption DEF TypeOK, PassIsFresh, UnservedRows, Phases,
       EventStates, TaskStates, Frameworks
<1>2. TurnsMatch'
  BY ReceiverAssumption DEF TurnsMatch, TypeOK, PassIsFresh, Phases,
       EventStates, TaskStates, Frameworks
<1>3. PassIsFresh'
  BY ReceiverAssumption DEF PassIsFresh, TypeOK, Phases, EventStates,
       TaskStates, Frameworks
<1>4. UnservedRows'
  BY ReceiverAssumption DEF UnservedRows, TypeOK, Phases, EventStates,
       TaskStates, Frameworks
<1>5. RoutedRowsOwned'
  BY ReceiverAssumption DEF RoutedRowsOwned, TypeOK, Phases, EventStates,
       TaskStates, Frameworks
<1>6. NothingInHand'
  BY DEF NothingInHand
<1>7. RunningRowHasWorker'
  BY ReceiverAssumption DEF RunningRowHasWorker, TypeOK, Phases, EventStates,
       TaskStates, Frameworks
<1>8. PendingHasTurn'
  BY DEF PendingHasTurn
<1>9. (AskersKnown /\ NoForeignTurn)'
  BY DEF AskersKnown, NoForeignTurn
<1>. QED BY <1>1, <1>2, <1>3, <1>4, <1>5, <1>6, <1>7, <1>8, <1>9

\* A rested row may be routed again.
LEMMA RetryDueKeeps ==
  ASSUME CoreInv, NEW e \in Events, RetryDue(e)
  PROVE  CoreInv'
<1>. USE DEF CoreInv, RetryDue
<1>1. TypeOK'
  BY ReceiverAssumption DEF TypeOK, Phases, EventStates, TaskStates, Frameworks
<1>2. (TurnsMatch /\ PassIsFresh /\ UnservedRows /\ RoutedRowsOwned /\
     NothingInHand /\ AskersKnown /\ RunningRowHasWorker /\ NoForeignTurn /\
     PendingHasTurn)'
  BY DEF TurnsMatch, PassIsFresh, UnservedRows, RoutedRowsOwned, NothingInHand,
       AskersKnown, RunningRowHasWorker, NoForeignTurn, PendingHasTurn
<1>. QED BY <1>1, <1>2

\* The first step of a worker marks its row and its task.
LEMMA WorkerBeginsKeeps ==
  ASSUME CoreInv, NEW t \in Tasks, WorkerBegins(t)
  PROVE  CoreInv'
<1>. USE DEF CoreInv, WorkerBegins, Yielded
<1>1. TypeOK'
  BY ReceiverAssumption DEF TypeOK, TurnsMatch, Phases, EventStates, TaskStates,
       Frameworks
<1>2. TurnsMatch'
  BY ReceiverAssumption DEF TurnsMatch, TypeOK, Phases, EventStates, TaskStates,
       Frameworks
<1>3. PassIsFresh'
  BY ReceiverAssumption DEF PassIsFresh, TypeOK, TurnsMatch, Phases,
       EventStates, TaskStates, Frameworks
<1>4. UnservedRows'
  BY DEF UnservedRows
<1>5. RoutedRowsOwned'
  BY DEF RoutedRowsOwned
<1>6. NothingInHand'
  BY DEF NothingInHand
<1>7. RunningRowHasWorker'
  BY ReceiverAssumption DEF RunningRowHasWorker, TypeOK, TurnsMatch, Phases,
       EventStates, TaskStates, Frameworks
<1>8. NoForeignTurn'
  BY DEF NoForeignTurn
<1>9. PendingHasTurn'
  BY DEF PendingHasTurn
<1>10. AskersKnown'
  BY DEF AskersKnown
<1>. QED BY <1>1, <1>2, <1>3, <1>4, <1>5, <1>6, <1>7, <1>8, <1>9, <1>10

\* The end of a turn settles row, task and approvals.
LEMMA TurnEndsKeeps ==
  ASSUME CoreInv, NEW t \in Tasks, NEW end \in Ends, TurnEnds(t, end)
  PROVE  CoreInv'
<1>. USE DEF CoreInv, TurnEnds, Ends, Deny, Orphans, Yielded
<1>1. TypeOK'
  BY ReceiverAssumption DEF TypeOK, TurnsMatch, Phases, EventStates, TaskStates,
       Frameworks
<1>2. TurnsMatch'
  BY ReceiverAssumption DEF TurnsMatch, TypeOK, Phases, EventStates, TaskStates,
       Frameworks
<1>3. PassIsFresh'
  BY DEF PassIsFresh, TurnsMatch
<1>4. UnservedRows'
  BY DEF UnservedRows
<1>5. RoutedRowsOwned'
  BY DEF RoutedRowsOwned
<1>6. NothingInHand'
  BY DEF NothingInHand
<1>7. AskersKnown'
  BY DEF AskersKnown
<1>8. RunningRowHasWorker'
  BY ReceiverAssumption DEF RunningRowHasWorker, TypeOK, Phases, EventStates,
       TaskStates, Frameworks
<1>9. NoForeignTurn'
  BY DEF NoForeignTurn
<1>10. PendingHasTurn'
  BY DEF PendingHasTurn
<1>. QED BY <1>1, <1>2, <1>3, <1>4, <1>5, <1>6, <1>7, <1>8, <1>9, <1>10

\* A worker lets go of its key.
LEMMA WorkerLeavesKeeps ==
  ASSUME CoreInv, NEW t \in Tasks, WorkerLeaves(t)
  PROVE  CoreInv'
<1>. USE DEF CoreInv, WorkerLeaves, Yielded
<1>1. TypeOK'
  BY ReceiverAssumption DEF TypeOK, Phases, EventStates, TaskStates, Frameworks
<1>2. TurnsMatch'
  BY ReceiverAssumption DEF TurnsMatch, TypeOK, Phases, EventStates, TaskStates,
       Frameworks
<1>3. PassIsFresh'
  BY DEF PassIsFresh
<1>4. NothingInHand'
  BY DEF NothingInHand
<1>5. RunningRowHasWorker'
  BY DEF RunningRowHasWorker
<1>6. NoForeignTurn'
  BY DEF NoForeignTurn
<1>7. PendingHasTurn'
  BY DEF PendingHasTurn
<1>8. (UnservedRows /\ RoutedRowsOwned /\ AskersKnown)'
  BY DEF UnservedRows, RoutedRowsOwned, AskersKnown
<1>. QED BY <1>1, <1>2, <1>3, <1>4, <1>5, <1>6, <1>7, <1>8

\* A crash between the two writes that begin a turn.
LEMMA CrashAsWorkerBeginsKeeps ==
  ASSUME CoreInv, NEW t \in Tasks, CrashAsWorkerBegins(t)
  PROVE  CoreInv'
<1>. USE DEF CoreInv, CrashAsWorkerBegins, Gone
<1>1. TypeOK'
  <2>1. draining' \in BOOLEAN
    BY Zenon
  <2>. QED
    BY <2>1, ReceiverAssumption DEF TypeOK, Phases, EventStates, TaskStates,
         Frameworks
<1>2. TurnsMatch'
  BY DEF TurnsMatch
<1>3. PassIsFresh'
  BY DEF PassIsFresh
<1>4. UnservedRows'
  BY DEF UnservedRows
<1>5. RoutedRowsOwned'
  BY DEF RoutedRowsOwned
<1>6. NothingInHand'
  BY DEF NothingInHand
<1>7. RunningRowHasWorker'
  BY DEF RunningRowHasWorker
<1>8. NoForeignTurn'
  BY DEF NoForeignTurn
<1>9. PendingHasTurn'
  BY DEF PendingHasTurn
<1>10. AskersKnown'
  BY DEF AskersKnown
<1>. QED BY <1>1, <1>2, <1>3, <1>4, <1>5, <1>6, <1>7, <1>8, <1>9, <1>10

\* A crash between the two writes that end a turn.
LEMMA CrashAsTurnEndsKeeps ==
  ASSUME CoreInv, NEW t \in Tasks, NEW end \in Ends, CrashAsTurnEnds(t, end)
  PROVE  CoreInv'
<1>. USE DEF CoreInv, CrashAsTurnEnds, Gone, Ends
<1>1. TypeOK'
  <2>1. draining' \in BOOLEAN
    BY Zenon
  <2>. QED
    BY <2>1, ReceiverAssumption DEF TypeOK, Phases, EventStates, TaskStates,
         Frameworks
<1>2. TurnsMatch'
  BY DEF TurnsMatch
<1>3. PassIsFresh'
  BY DEF PassIsFresh
<1>4. RoutedRowsOwned'
  BY DEF RoutedRowsOwned
<1>5. NothingInHand'
  BY DEF NothingInHand
<1>6. RunningRowHasWorker'
  BY DEF RunningRowHasWorker
<1>7. NoForeignTurn'
  BY DEF NoForeignTurn
<1>8. PendingHasTurn'
  BY DEF PendingHasTurn
<1>9. (UnservedRows /\ AskersKnown)'
  BY DEF UnservedRows, AskersKnown
<1>. QED BY <1>1, <1>2, <1>3, <1>4, <1>5, <1>6, <1>7, <1>8, <1>9

\* A live turn asks for an approval.
LEMMA AskKeeps ==
  ASSUME CoreInv, NEW a \in Approvals, NEW t \in Tasks, Ask(a, t)
  PROVE  CoreInv'
<1>. USE DEF CoreInv, Ask
<1>1. TypeOK'
  BY ReceiverAssumption DEF TypeOK, Phases, EventStates, TaskStates, Frameworks
<1>2. RoutedRowsOwned'
  BY DEF RoutedRowsOwned
<1>3. AskersKnown'
  BY ReceiverAssumption DEF AskersKnown, TypeOK, Phases, EventStates,
       TaskStates, Frameworks
<1>4. PendingHasTurn'
  BY ReceiverAssumption DEF PendingHasTurn, TypeOK, Phases, EventStates,
       TaskStates, Frameworks
<1>5. (TurnsMatch /\ PassIsFresh /\ UnservedRows /\ NothingInHand /\
     RunningRowHasWorker /\ NoForeignTurn)'
  BY DEF TurnsMatch, PassIsFresh, UnservedRows, NothingInHand,
       RunningRowHasWorker, NoForeignTurn
<1>. QED BY <1>1, <1>2, <1>3, <1>4, <1>5

\* The owner decides.
LEMMA ApproveKeeps ==
  ASSUME CoreInv, NEW a \in Approvals, NEW d \in {"allow", "deny"}, Approve(a, d)
  PROVE  CoreInv'
<1>. USE DEF CoreInv, Approve
<1>1. TypeOK'
  BY ReceiverAssumption DEF TypeOK, Phases, EventStates, TaskStates, Frameworks
<1>2. AskersKnown'
  BY DEF AskersKnown
<1>3. PendingHasTurn'
  BY DEF PendingHasTurn
<1>4. (TurnsMatch /\ PassIsFresh /\ UnservedRows /\ RoutedRowsOwned /\
     NothingInHand /\ RunningRowHasWorker /\ NoForeignTurn)'
  BY DEF TurnsMatch, PassIsFresh, UnservedRows, RoutedRowsOwned, NothingInHand,
       RunningRowHasWorker, NoForeignTurn
<1>. QED BY <1>1, <1>2, <1>3, <1>4

\* An approval coroutine finds a decision or a shutdown.
LEMMA WaiterWakesKeeps ==
  ASSUME CoreInv, NEW a \in Approvals, WaiterWakes(a)
  PROVE  CoreInv'
<1>. USE DEF CoreInv, WaiterWakes, Deny
<1>1. TypeOK'
  BY ReceiverAssumption DEF TypeOK, Phases, EventStates, TaskStates, Frameworks
<1>2. RoutedRowsOwned'
  BY ReceiverAssumption DEF RoutedRowsOwned, TypeOK, Phases, EventStates,
       TaskStates, Frameworks
<1>3. AskersKnown'
  BY DEF AskersKnown
<1>4. PendingHasTurn'
  BY DEF PendingHasTurn
<1>5. (TurnsMatch /\ PassIsFresh /\ UnservedRows /\ NothingInHand /\
     RunningRowHasWorker /\ NoForeignTurn)'
  BY DEF TurnsMatch, PassIsFresh, UnservedRows, NothingInHand,
       RunningRowHasWorker, NoForeignTurn
<1>. QED BY <1>1, <1>2, <1>3, <1>4, <1>5

\* Intake is told to stop.
LEMMA DrainKeeps ==
  ASSUME CoreInv, Drain
  PROVE  CoreInv'
<1>. USE DEF CoreInv, Drain
<1>1. TypeOK'
  BY ReceiverAssumption DEF TypeOK, Phases, EventStates, TaskStates, Frameworks
<1>2. (TurnsMatch /\ PassIsFresh /\ UnservedRows /\ RoutedRowsOwned /\
     NothingInHand /\ AskersKnown /\ RunningRowHasWorker /\ NoForeignTurn /\
     PendingHasTurn)'
  BY DEF TurnsMatch, PassIsFresh, UnservedRows, RoutedRowsOwned, NothingInHand,
       AskersKnown, RunningRowHasWorker, NoForeignTurn, PendingHasTurn
<1>. QED BY <1>1, <1>2

\* Intake has stopped.
LEMMA IntakeStopsKeeps ==
  ASSUME CoreInv, IntakeStops
  PROVE  CoreInv'
<1>. USE DEF CoreInv, IntakeStops
<1>1. TypeOK'
  BY ReceiverAssumption DEF TypeOK, Phases, EventStates, TaskStates, Frameworks
<1>2. (TurnsMatch /\ PassIsFresh /\ UnservedRows /\ RoutedRowsOwned /\
     NothingInHand /\ AskersKnown /\ RunningRowHasWorker /\ NoForeignTurn /\
     PendingHasTurn)'
  BY DEF TurnsMatch, PassIsFresh, UnservedRows, RoutedRowsOwned, NothingInHand,
       AskersKnown, RunningRowHasWorker, NoForeignTurn, PendingHasTurn
<1>. QED BY <1>1, <1>2

\* Intake is opened again.
LEMMA ResumeKeeps ==
  ASSUME CoreInv, Resume
  PROVE  CoreInv'
<1>. USE DEF CoreInv, Resume
<1>1. TypeOK'
  <2>1. draining' \in BOOLEAN
    BY Zenon
  <2>. QED
    BY <2>1, ReceiverAssumption DEF TypeOK, Phases, EventStates, TaskStates,
         Frameworks
<1>2. (TurnsMatch /\ PassIsFresh /\ UnservedRows /\ RoutedRowsOwned /\
     NothingInHand /\ AskersKnown /\ RunningRowHasWorker /\ NoForeignTurn /\
     PendingHasTurn)'
  BY DEF TurnsMatch, PassIsFresh, UnservedRows, RoutedRowsOwned, NothingInHand,
       AskersKnown, RunningRowHasWorker, NoForeignTurn, PendingHasTurn
<1>. QED BY <1>1, <1>2

\* An accepted stop finds no worker and no queued row.
LEMMA StopKeeps ==
  ASSUME CoreInv, Stop
  PROVE  CoreInv'
<1>. USE DEF CoreInv, Stop, Yielded
<1>1. TypeOK'
  BY ReceiverAssumption DEF TypeOK, Phases, EventStates, TaskStates, Frameworks
<1>2. NothingInHand'
  BY DEF NothingInHand, PassIsFresh
<1>3. (TurnsMatch /\ PassIsFresh /\ UnservedRows /\ RoutedRowsOwned /\
     AskersKnown /\ RunningRowHasWorker /\ NoForeignTurn /\ PendingHasTurn)'
  BY DEF TurnsMatch, PassIsFresh, UnservedRows, RoutedRowsOwned, AskersKnown,
       RunningRowHasWorker, NoForeignTurn, PendingHasTurn
<1>. QED BY <1>1, <1>2, <1>3

\* A halt changes neither rows nor workers.
LEMMA HaltKeeps ==
  ASSUME CoreInv, Halt
  PROVE  CoreInv'
<1>. USE DEF CoreInv, Halt
<1>1. TypeOK'
  BY ReceiverAssumption DEF TypeOK, Phases, EventStates, TaskStates, Frameworks
<1>2. NothingInHand'
  BY DEF NothingInHand
<1>3. (TurnsMatch /\ PassIsFresh /\ UnservedRows /\ RoutedRowsOwned /\
     AskersKnown /\ RunningRowHasWorker /\ NoForeignTurn /\ PendingHasTurn)'
  BY DEF TurnsMatch, PassIsFresh, UnservedRows, RoutedRowsOwned, AskersKnown,
       RunningRowHasWorker, NoForeignTurn, PendingHasTurn
<1>. QED BY <1>1, <1>2, <1>3

-----------------------------------------------------------------------------
(* The number of workers                                                    *)

CapacityInv == RoutingHasSlot /\ WorkersBounded

HIDE DEF Slots

\* The keys of self.workers are task ids, of which there are finitely many.
LEMMA SlotsFinite == IsFiniteSet(Slots) /\ Cardinality(Slots) \in Nat
BY ReceiverAssumption, FS_Subset, FS_CardinalityType DEF Slots

\* A step that starts no worker does not add to their number.
LEMMA SlotsShrink ==
  ASSUME Slots' \subseteq Slots
  PROVE  Cardinality(Slots') \in Nat /\ Cardinality(Slots') <= Cardinality(Slots)
BY SlotsFinite, FS_Subset, FS_CardinalityType

\* A step that starts the worker of one task adds at most one.
LEMMA SlotsGrow ==
  ASSUME NEW t \in Tasks, Slots' \subseteq Slots \cup {t}
  PROVE  Cardinality(Slots') \in Nat /\ Cardinality(Slots') <= Cardinality(Slots) + 1
<1>1. /\ IsFiniteSet(Slots \cup {t})
      /\ Cardinality(Slots \cup {t}) =
           IF t \in Slots THEN Cardinality(Slots) ELSE Cardinality(Slots) + 1
  BY SlotsFinite, FS_AddElement
<1>2. /\ IsFiniteSet(Slots')
      /\ Cardinality(Slots') <= Cardinality(Slots \cup {t})
  BY <1>1, FS_Subset
<1>. QED BY <1>1, <1>2, SlotsFinite, FS_CardinalityType

\* The main loop looks at the number of workers before it awaits the router and before
\* it starts a worker; every other step starts none.
LEMMA CapacityKeeps ==
  ASSUME CoreInv, CapacityInv, [Next]_vars
  PROVE  CapacityInv'
<1>. USE DEF CapacityInv, RoutingHasSlot, WorkersBounded
<1>1. CASE /\ Slots' \subseteq Slots
           /\ pc' = "routing" => pc = "routing"
  BY <1>1, SlotsShrink, SlotsFinite, ReceiverAssumption
<1>2. ASSUME NEW e \in Events, RouteBegin(e)
      PROVE  CapacityInv'
  <2>1. Slots' \subseteq Slots /\ Cardinality(Slots) < MaxWorkers
    BY <1>2 DEF RouteBegin, RowAvailable, Slots
  <2>. QED BY <2>1, SlotsShrink, SlotsFinite, ReceiverAssumption
<1>3. ASSUME NEW e \in Events, ResumeRow(e)
      PROVE  CapacityInv'
  <2>1. taskOf[e] \in Tasks
    BY <1>3 DEF CoreInv, TypeOK, ResumeRow
  <2>2. /\ Slots' \subseteq Slots \cup {taskOf[e]}
        /\ Cardinality(Slots) < MaxWorkers /\ pc' = "rows"
    BY <1>3, <2>1 DEF CoreInv, TypeOK, ResumeRow, RowAvailable, StartUnlessBusy,
         Slots
  <2>. QED BY <2>1, <2>2, SlotsGrow, SlotsFinite, ReceiverAssumption
<1>4. ASSUME NEW e \in Events, NEW t \in Tasks, RouteDone(e, t)
      PROVE  CapacityInv'
  <2>1. Slots' \subseteq Slots \cup {t}
    BY <1>4 DEF CoreInv, TypeOK, RouteDone, StartUnlessBusy, Slots
  <2>2. Cardinality(Slots) < MaxWorkers /\ pc' = "rows"
    BY <1>4 DEF RouteDone, RouteReturns
  <2>. QED BY <2>1, <2>2, SlotsGrow, SlotsFinite, ReceiverAssumption
<1>5. CASE UNCHANGED vars
  BY <1>1, <1>5 DEF vars, Slots
<1>6. CASE \/ \E f \in Installed : Start(f)
           \/ Exit \/ Down \/ Crashes
           \/ \E t \in Tasks : StopTask(t)
  <2>1. /\ Slots' \subseteq Slots
        /\ pc' = "routing" => pc = "routing"
    <3>1. CASE Down \/ Crashes
      BY <3>1 DEF Down, Crashes, Crash, CrashAsWorkerBegins, CrashAsTurnEnds, Gone, Slots
    <3>2. CASE \E f \in Installed : Start(f)
      BY <3>2 DEF Start, Slots
    <3>3. CASE Exit \/ \E t \in Tasks : StopTask(t)
      BY <3>3 DEF Exit, StopTask, Cancel, Cancelled, Slots
    <3>. QED BY <1>6, <3>1, <3>2, <3>3
  <2>. QED BY <1>1, <2>1
<1>7. CASE Work
  <2>1. ASSUME NEW t \in Tasks, WorkerBegins(t) \/ WorkerLeaves(t)
                               \/ \E end \in Ends : TurnEnds(t, end)
        PROVE  Slots' \subseteq Slots /\ pc' = pc
    BY <2>1 DEF WorkerBegins, WorkerLeaves, TurnEnds, CoreInv, TypeOK, Slots
  <2>. QED BY <1>1, <1>7, <2>1 DEF Work
<1>8. CASE Asking \/ Requests \/ \E e \in Events : Ingest(e) \/ RetryDue(e)
  BY <1>1, <1>8 DEF Asking, Ask, Approve, WaiterWakes, Requests, Drain, IntakeStops,
       Resume, Stop, Halt, Ingest, RetryDue, Slots
<1>9. CASE MainLoop
  <2>1. CASE BeginPass \/ EndPass
    BY <1>1, <2>1 DEF BeginPass, EndPass, Slots
  <2>2. ASSUME NEW e \in Events,
               RouteCommand(e) \/ RouteInvalid(e) \/ RouteUnavailable(e)
        PROVE  CapacityInv'
    BY <1>1, <2>2 DEF RouteCommand, RouteInvalid, RouteUnavailable, RouteReturns,
         Slots
  <2>. QED BY <1>2, <1>3, <1>4, <1>9, <2>1, <2>2 DEF MainLoop
<1>. QED BY <1>5, <1>6, <1>7, <1>8, <1>9 DEF Next

-----------------------------------------------------------------------------
(* The theorems                                                             *)

\* The first state: nothing is received and the process is down.
LEMMA InitInv == Init => IInv
<1>. SUFFICES ASSUME Init PROVE IInv
  OBVIOUS
<1>. USE DEF Init
<1>1. CoreInv
  <2>1. TypeOK
    <3>1. draining \in BOOLEAN
      BY Zenon
    <3>. QED
      BY <3>1, ReceiverAssumption DEF TypeOK, Phases, EventStates, TaskStates,
           Frameworks
  <2>2. /\ TurnsMatch /\ PassIsFresh /\ RoutedRowsOwned /\ NothingInHand
        /\ AskersKnown /\ RunningRowHasWorker /\ NoForeignTurn /\ PendingHasTurn
    BY DEF TurnsMatch, PassIsFresh, RoutedRowsOwned, NothingInHand, AskersKnown,
         RunningRowHasWorker, NoForeignTurn, PendingHasTurn, Slots
  <2>3. UnservedRows
    BY ReceiverAssumption DEF UnservedRows
  <2>. QED BY <2>1, <2>2, <2>3 DEF CoreInv
<1>2. Slots = {}
  BY DEF Slots
<1>3. Cardinality(Slots) = 0
  BY <1>2, FS_EmptySet
<1>4. CapacityInv
  BY <1>3, ReceiverAssumption DEF CapacityInv, RoutingHasSlot, WorkersBounded
<1>. QED BY <1>1, <1>4 DEF IInv, CoreInv, CapacityInv

\* No step breaks CoreInv.
LEMMA CoreKeeps == CoreInv /\ [Next]_vars => CoreInv'
<1>. SUFFICES ASSUME CoreInv, [Next]_vars PROVE CoreInv'
  OBVIOUS
<1>1. CASE UNCHANGED vars
  BY <1>1 DEF vars, CoreInv, TypeOK, TurnsMatch, PassIsFresh, UnservedRows,
       RoutedRowsOwned, NothingInHand, AskersKnown, RunningRowHasWorker, NoForeignTurn,
       PendingHasTurn, Slots
<1>2. CASE \/ \E f \in Installed : Start(f)
           \/ Exit \/ Down
           \/ \E e \in Events : Ingest(e) \/ RetryDue(e)
           \/ \E t \in Tasks : StopTask(t)
  BY <1>2, StartKeeps, ExitKeeps, DownKeeps, IngestKeeps, RetryDueKeeps, StopTaskKeeps
<1>3. CASE MainLoop
  BY <1>3, BeginPassKeeps, EndPassKeeps, ResumeRowKeeps, RouteBeginKeeps,
     RouteDoneKeeps, RouteCommandKeeps, RouteInvalidKeeps, RouteUnavailableKeeps
     DEF MainLoop
<1>4. CASE Work
  BY <1>4, WorkerBeginsKeeps, WorkerLeavesKeeps, TurnEndsKeeps DEF Work
<1>5. CASE Asking
  BY <1>5, AskKeeps, ApproveKeeps, WaiterWakesKeeps DEF Asking
<1>6. CASE Requests
  BY <1>6, DrainKeeps, IntakeStopsKeeps, ResumeKeeps, StopKeeps, HaltKeeps DEF Requests
<1>7. CASE Crashes
  BY <1>7, CrashKeeps, CrashAsWorkerBeginsKeeps, CrashAsTurnEndsKeeps DEF Crashes
<1>. QED BY <1>1, <1>2, <1>3, <1>4, <1>5, <1>6, <1>7 DEF Next

\* IInv holds in every reachable state.
THEOREM Invariance == Spec => []IInv
<1>1. Init => IInv
  BY InitInv
<1>2. IInv /\ [Next]_vars => IInv'
  BY CoreKeeps, CapacityKeeps DEF IInv, CoreInv, CapacityInv
<1>. QED BY <1>1, <1>2, PTL DEF Spec

\* Every variable keeps its type: in particular route_attempts never exceeds
\* MaxAttempts, and owner names a framework that may be selected.
THEOREM TypeCorrect == Spec => []TypeOK
<1>1. IInv => TypeOK
  BY DEF IInv
<1>. QED BY <1>1, Invariance, PTL

\* A running row is the turn of a live worker of its own task, so updates of a task wait
\* for its current turn (Service.run, Service.work, State.recover).
THEOREM RunningRowsServed == Spec => []RunningRowHasWorker
<1>1. IInv => RunningRowHasWorker
  BY DEF IInv
<1>. QED BY <1>1, Invariance, PTL

\* There are never more than MaxWorkers workers, although the loop counts them before it
\* awaits the router and starts one after it (Service.run).
THEOREM CapacityKept == Spec => []WorkersBounded
<1>1. IInv => WorkersBounded
  BY DEF IInv
<1>. QED BY <1>1, Invariance, PTL

\* No worker serves a task of another framework, over any number of handovers
\* (State.route, control.reconcile).
THEOREM FrameworksKeptApart == Spec => []NoForeignTurn
<1>1. IInv => NoForeignTurn
  BY DEF IInv
<1>. QED BY <1>1, Invariance, PTL

\* An approval the owner can see belongs to a live turn (Service.approval, Service.work).
THEOREM ProposalsAreLive == Spec => []PendingHasTurn
<1>1. IInv => PendingHasTurn
  BY DEF IInv
<1>. QED BY <1>1, Invariance, PTL

-----------------------------------------------------------------------------
(* Action properties                                                        *)

Dispatched(e) == event[e] \notin {"absent", "queued"}

\* Only rows that are absent or queued are written back to the queue.
LEMMA DispatchedStays ==
  ASSUME IInv, Next, NEW e \in Events, Dispatched(e)
  PROVE  Dispatched(e)'
<1>. USE DEF Dispatched, IInv, TypeOK
<1>1. CASE event' = event
  BY <1>1
<1>2. ASSUME NEW f \in Installed, Start(f)
      PROVE  Dispatched(e)'
  BY <1>2 DEF Start, Recover
<1>3. ASSUME NEW f \in Events,
             Ingest(f) \/ RouteCommand(f) \/ RouteInvalid(f) \/ RouteUnavailable(f)
      PROVE  Dispatched(e)'
  BY <1>3 DEF Ingest, RouteCommand, RouteInvalid, RouteUnavailable
<1>4. ASSUME NEW t \in Tasks,
             \/ WorkerBegins(t) \/ CrashAsWorkerBegins(t)
             \/ \E end \in Ends : TurnEnds(t, end)
      PROVE  Dispatched(e)'
  BY <1>4 DEF WorkerBegins, CrashAsWorkerBegins, TurnEnds, Ends
<1>5. CASE \/ Exit \/ Down \/ Crash
           \/ \E f \in Events : RetryDue(f)
           \/ \E t \in Tasks : \/ StopTask(t) \/ WorkerLeaves(t)
                              \/ \E end \in Ends : CrashAsTurnEnds(t, end)
  BY <1>1, <1>5 DEF Exit, Down, Crash, RetryDue, StopTask, WorkerLeaves, CrashAsTurnEnds
<1>6. CASE Asking \/ Requests
  BY <1>1, <1>6 DEF Asking, Ask, Approve, WaiterWakes, Requests, Drain, IntakeStops,
       Resume, Stop, Halt
<1>7. CASE MainLoop
  <2>1. CASE \/ BeginPass \/ EndPass
             \/ \E f \in Events : \/ ResumeRow(f) \/ RouteBegin(f)
                                 \/ \E t \in Tasks : RouteDone(f, t)
    BY <1>1, <2>1 DEF BeginPass, EndPass, ResumeRow, RouteBegin, RouteDone
  <2>. QED BY <1>3, <1>7, <2>1 DEF MainLoop
<1>. QED BY <1>2, <1>3, <1>4, <1>5, <1>6, <1>7 DEF Next, Work, Crashes

\* What was dispatched is never queued again, whatever crashes and restarts come
\* (State.recover, Service.work).
THEOREM NothingReplayed == Spec => NeverReplayed
<1>1. ASSUME IInv, [Next]_vars
      PROVE  [\A e \in Events : event[e] \notin {"absent", "queued"} =>
                event'[e] \notin {"absent", "queued"}]_vars
  BY <1>1, DispatchedStays DEF Dispatched
<1>. QED BY <1>1, Invariance, PTL DEF Spec, NeverReplayed

\* A stopped receiver is not in the middle of a pass, the only place that starts workers.
LEMMA OnlyPassesStart ==
  ASSUME IInv, Next, shutdown = "stop"
  PROVE  ~WorkerStarts
<1>1. CASE Slots' \subseteq Slots
  BY <1>1 DEF WorkerStarts, Slots
<1>2. pc \notin {"rows", "routing"}
  BY DEF IInv, NothingInHand
<1>3. CASE MainLoop
  <2>1. CASE BeginPass
    BY <2>1, <1>1 DEF BeginPass, Slots
  <2>. QED
    BY <1>2, <1>3, <2>1 DEF MainLoop, EndPass, ResumeRow, RouteBegin, RowAvailable,
         RouteDone, RouteCommand, RouteInvalid, RouteUnavailable, RouteReturns
<1>4. CASE \/ \E f \in Installed : Start(f)
           \/ Exit \/ Down \/ Crashes
           \/ \E t \in Tasks : StopTask(t)
  <2>1. CASE Down \/ Crashes
    BY <2>1, <1>1 DEF Down, Crashes, Crash, CrashAsWorkerBegins, CrashAsTurnEnds, Gone,
         Slots
  <2>2. CASE \E f \in Installed : Start(f)
    BY <2>2, <1>1 DEF Start, Slots
  <2>3. CASE Exit \/ \E t \in Tasks : StopTask(t)
    BY <2>3, <1>1 DEF Exit, StopTask, Cancel, Cancelled, Slots
  <2>. QED BY <1>4, <2>1, <2>2, <2>3
<1>5. CASE Work
  <2>1. ASSUME NEW t \in Tasks, WorkerBegins(t) \/ WorkerLeaves(t)
                               \/ \E end \in Ends : TurnEnds(t, end)
        PROVE  Slots' \subseteq Slots
    BY <2>1 DEF WorkerBegins, WorkerLeaves, TurnEnds, IInv, TypeOK, Slots
  <2>. QED BY <1>1, <1>5, <2>1 DEF Work
<1>6. CASE Asking \/ Requests \/ \E e \in Events : Ingest(e) \/ RetryDue(e)
  BY <1>1, <1>6 DEF Asking, Ask, Approve, WaiterWakes, Requests, Drain, IntakeStops,
       Resume, Stop, Halt, Ingest, RetryDue, Slots
<1>. QED BY <1>3, <1>4, <1>5, <1>6 DEF Next

\* After its stop was accepted a receiver starts no turn (Service.connection, and
\* control.reconcile, which starts the next receiver).
THEOREM StopIsFinal == Spec => StoppedStartsNoWorker
<1>1. ASSUME IInv, [Next]_vars
      PROVE  [shutdown = "stop" => ~WorkerStarts]_vars
  BY <1>1, OnlyPassesStart
<1>. QED BY <1>1, Invariance, PTL DEF Spec, StoppedStartsNoWorker

\* A step that leaves the tasks of the rows and the decisions alone.
LEMMA ChoicesKept ==
  ASSUME UNCHANGED taskOf, UNCHANGED decision \/ Recover \/ \E asks : decision' = Deny(asks), TypeOK
  PROVE  /\ \A e \in Events : taskOf[e] # NoTask => taskOf'[e] = taskOf[e]
         /\ \A a \in Approvals : decision[a] \in {"allow", "deny"} => decision'[a] = decision[a]
  BY DEF Recover, Deny, TypeOK

\* The task of a row is chosen once, and a decision on an approval is final: the end of a turn, Stop,
\* a restart and the owner only ever decide what is pending (State.route, State.approve, State.recover).
THEOREM ChoicesFinal == Spec => ChosenOnce
<1> DEFINE Final == /\ \A e \in Events : taskOf[e] # NoTask => taskOf'[e] = taskOf[e]
                    /\ \A a \in Approvals : decision[a] \in {"allow", "deny"} =>
                         decision'[a] = decision[a]
<1>1. ASSUME IInv, Next PROVE Final
  <2>0. TypeOK /\ PassIsFresh
    BY <1>1 DEF IInv
  <2>1. CASE \/ \E f \in Installed : Start(f)
             \/ Exit \/ Down \/ Crashes
             \/ \E t \in Tasks : StopTask(t)
    BY <2>0, <2>1, ChoicesKept
       DEF Start, Exit, Cancel, Down, Crashes, Crash, CrashAsWorkerBegins, CrashAsTurnEnds, Gone, StopTask
  <2>2. CASE \E e \in Events : Ingest(e) \/ RetryDue(e)
    BY <2>0, <2>2, ChoicesKept DEF Ingest, RetryDue
  <2>3. CASE MainLoop
    <3>1. ASSUME NEW e \in Events, NEW t \in Tasks, RouteDone(e, t) PROVE Final
      <4>1. taskOf[e] = NoTask
        BY <2>0, <3>1 DEF RouteDone, RouteReturns, PassIsFresh
      <4>. QED BY <2>0, <3>1, <4>1 DEF RouteDone, TypeOK
    <3>2. CASE UNCHANGED <<taskOf, decision>>
      BY <2>0, <3>2, ChoicesKept
    <3>. QED BY <2>3, <3>1, <3>2 DEF MainLoop, BeginPass, EndPass, ResumeRow, RouteBegin, RouteCommand,
                RouteInvalid, RouteUnavailable
  <2>4. CASE Work
    BY <2>0, <2>4, ChoicesKept DEF Work, WorkerBegins, WorkerLeaves, TurnEnds
  <2>5. CASE Asking
    BY <2>0, <2>5, ChoicesKept DEF Asking, Ask, Approve, WaiterWakes, Deny, TypeOK
  <2>6. CASE Requests
    BY <2>0, <2>6, ChoicesKept DEF Requests, Drain, IntakeStops, Resume, Stop, Halt
  <2>. QED BY <1>1, <2>1, <2>2, <2>3, <2>4, <2>5, <2>6 DEF Next
<1>2. ASSUME IInv, [Next]_vars PROVE [Final]_vars
  BY <1>1, <1>2
<1>. QED BY <1>2, Invariance, PTL DEF Spec, ChosenOnce

-----------------------------------------------------------------------------
(* The receiver implements the ledger of turns                              *)

\* What a step of the receiver is in the ledger: a row's life goes on, or stays.
LEMMA LedgerStutters ==
  ASSUME UNCHANGED <<event, taskOf>>
  PROVE  UNCHANGED Ledger!vars
  BY DEF Ledger!vars, LedgerTurn

\* The ledger counts as FiniteSets does.
LEMMA SameCount == \A S : Ledger!Cardinality(S) = Cardinality(S)
  BY Zenon DEF Ledger!Cardinality, Cardinality

\* The rows that run belong to different workers.
LEMMA RunningIsServed ==
  ASSUME IInv, pc # "down", NEW t \in Tasks, worker[t] = "created"
  PROVE  /\ \A e \in Ledger!Running : taskOf[e] # t
         /\ Cardinality(Ledger!Running) < MaxWorkers
<1> DEFINE Others == Slots \ {t}
           host == [e \in Ledger!Running |-> taskOf[e]]
<1>0. \A e \in Ledger!Running : e \in Events /\ event[e] = "running"
  BY DEF Ledger!Running, LedgerTurn
<1>1. \A e \in Ledger!Running : taskOf[e] \in Others /\ turn[taskOf[e]] = e
  BY <1>0 DEF IInv, RunningRowHasWorker, Slots
<1>2. host \in Injection(Ledger!Running, Others)
  <2>1. host \in [Ledger!Running -> Others]
    BY <1>1
  <2>2. ASSUME NEW d \in Ledger!Running, NEW e \in Ledger!Running, host[d] = host[e] PROVE d = e
    BY <1>1, <2>2
  <2>. QED BY <2>1, <2>2 DEF Injection, IsInjective
<1>3. IsFiniteSet(Others) /\ Cardinality(Others) = Cardinality(Slots) - 1
  <2>1. t \in Slots
    BY DEF Slots
  <2>. QED BY <2>1, SlotsFinite, FS_RemoveElement
<1>4. IsFiniteSet(Ledger!Running) /\ Cardinality(Ledger!Running) <= Cardinality(Others)
  BY <1>2, <1>3, FS_Injection
<1>5. Cardinality(Slots) <= MaxWorkers /\ MaxWorkers \in Nat
  BY ReceiverAssumption DEF IInv, WorkersBounded
<1>6. Cardinality(Ledger!Running) \in Nat
  BY <1>4, FS_CardinalityType
<1>7. Cardinality(Ledger!Running) < MaxWorkers
  BY <1>3, <1>4, <1>5, <1>6, SlotsFinite
<1>. QED BY <1>1, <1>7

\* A worker's first step is the dispatch of its row, also when the process dies in the middle of it.
LEMMA Dispatches ==
  ASSUME IInv, pc # "down", NEW t \in Tasks, worker[t] = "created",
         event' = [event EXCEPT ![turn[t]] = "running"], UNCHANGED taskOf
  PROVE  \E e \in Events : Ledger!Dispatch(e)
<1>1. turn[t] \in Events /\ taskOf[turn[t]] = t /\ event[turn[t]] = "queued"
  BY DEF IInv, TurnsMatch, Slots
<1>2. LedgerTurn[turn[t]] = "waiting" /\ LedgerTurn' = [LedgerTurn EXCEPT ![turn[t]] = "running"]
  BY <1>1 DEF LedgerTurn, IInv, TypeOK
<1>. QED BY <1>1, <1>2, RunningIsServed, SameCount DEF Ledger!Dispatch

\* A row that waits for no task is settled without a turn.
LEMMA Drops ==
  ASSUME IInv, NEW e \in Events, RouteReturns(e), UNCHANGED taskOf,
         NEW s \in {"done", "failed"}, event' = [event EXCEPT ![e] = s]
  PROVE  Ledger!Drop(e)
<1>1. event[e] = "queued" /\ taskOf[e] = NoTask
  BY DEF IInv, PassIsFresh, RouteReturns
<1>2. LedgerTurn[e] = "waiting" /\ LedgerTurn' = [LedgerTurn EXCEPT ![e] = "settled"]
  BY <1>1 DEF LedgerTurn, IInv, TypeOK
<1>. QED BY <1>1, <1>2 DEF Ledger!Drop

LEMMA LedgerStep ==
  ASSUME IInv, Next
  PROVE  [Ledger!Next]_(Ledger!vars)
<1>. USE DEF IInv
<1>1. ASSUME NEW f \in Installed, Start(f) PROVE Ledger!Recover
  <2>1. event' = [e \in Events |-> IF event[e] = "running" THEN "interrupted" ELSE event[e]]
        /\ taskOf' = taskOf
    BY <1>1 DEF Start, Recover
  <2>. QED BY <2>1 DEF Ledger!Recover, Ledger!Running, LedgerTurn, TypeOK
<1>2. ASSUME NEW e \in Events, Ingest(e) PROVE Ledger!Accept(e)
  <2>1. event[e] = "absent" /\ event' = [event EXCEPT ![e] = "queued"] /\ taskOf' = taskOf
    BY <1>2 DEF Ingest
  <2>. QED BY <2>1 DEF Ledger!Accept, LedgerTurn, TypeOK
<1>3. ASSUME NEW e \in Events, NEW t \in Tasks, RouteDone(e, t) PROVE Ledger!Assign(e, t)
  <2>1. event[e] = "queued" /\ taskOf[e] = NoTask /\ event' = event
        /\ taskOf' = [taskOf EXCEPT ![e] = t]
    BY <1>3 DEF RouteDone, RouteReturns, PassIsFresh
  <2>. QED BY <2>1 DEF Ledger!Assign, LedgerTurn
<1>4. ASSUME NEW e \in Events, RouteCommand(e) \/ RouteInvalid(e)
      PROVE  Ledger!Drop(e)
  <2>1. \E s \in {"done", "failed"} : event' = [event EXCEPT ![e] = s]
    BY <1>4 DEF RouteCommand, RouteInvalid
  <2>2. RouteReturns(e) /\ UNCHANGED taskOf
    BY <1>4 DEF RouteCommand, RouteInvalid
  <2>. QED BY <2>1, <2>2, Drops
<1>5. ASSUME NEW e \in Events, RouteUnavailable(e)
      PROVE  Ledger!Drop(e) \/ UNCHANGED Ledger!vars
  <2>1. RouteReturns(e) /\ UNCHANGED taskOf
        /\ (event' = [event EXCEPT ![e] = "failed"] \/ UNCHANGED event)
    BY <1>5 DEF RouteUnavailable
  <2>. QED BY <2>1, Drops, LedgerStutters
<1>6. ASSUME NEW t \in Tasks, WorkerBegins(t) \/ CrashAsWorkerBegins(t)
      PROVE  \E e \in Events : Ledger!Dispatch(e)
  <2>1. pc # "down" /\ worker[t] = "created" /\ event' = [event EXCEPT ![turn[t]] = "running"]
        /\ UNCHANGED taskOf
    BY <1>6 DEF WorkerBegins, CrashAsWorkerBegins, Yielded
  <2>. QED BY <2>1, Dispatches
<1>7. ASSUME NEW t \in Tasks, NEW end \in Ends, TurnEnds(t, end)
      PROVE  \E e \in Events : Ledger!Settle(e)
  <2>1. turn[t] \in Events /\ event[turn[t]] = "running"
    BY <1>7 DEF TurnEnds, TurnsMatch, Slots
  <2>2. event' = [event EXCEPT ![turn[t]] = end[2]] /\ taskOf' = taskOf
        /\ end[2] \in {"done", "failed", "interrupted"}
    BY <1>7 DEF TurnEnds, Ends
  <2>3. LedgerTurn[turn[t]] = "running" /\ LedgerTurn' = [LedgerTurn EXCEPT ![turn[t]] = "settled"]
    BY <2>1, <2>2 DEF LedgerTurn, TypeOK
  <2>. QED BY <2>1, <2>2, <2>3 DEF Ledger!Settle
<1>8. CASE \/ Exit \/ Down \/ Crash
           \/ \E e \in Events : RetryDue(e)
           \/ \E t \in Tasks : \/ StopTask(t) \/ WorkerLeaves(t)
                              \/ \E end \in Ends : CrashAsTurnEnds(t, end)
  BY <1>8, LedgerStutters DEF Exit, Down, Crash, RetryDue, StopTask, WorkerLeaves, CrashAsTurnEnds
<1>9. CASE Asking \/ Requests
  BY <1>9, LedgerStutters DEF Asking, Ask, Approve, WaiterWakes, Requests, Drain, IntakeStops, Resume, Stop,
     Halt
<1>10. CASE MainLoop
  <2>1. CASE BeginPass \/ EndPass \/ \E e \in Events : ResumeRow(e) \/ RouteBegin(e)
    BY <2>1, LedgerStutters DEF BeginPass, EndPass, ResumeRow, RouteBegin
  <2>. QED BY <1>3, <1>4, <1>5, <1>10, <2>1 DEF MainLoop, Ledger!Next
<1>. QED BY <1>1, <1>2, <1>6, <1>7, <1>8, <1>9, <1>10 DEF Next, Work, Crashes, Ledger!Next

\* Over crashes, restarts, stops and handovers the receiver keeps what the ledger promises of each update:
\* a task chosen before it runs, one run at most, alone in its task, beside fewer than MaxWorkers others.
THEOREM KeepsTheLedger == Spec => ImplementsLedger
<1>1. Init => Ledger!Init
  BY DEF Init, Ledger!Init, LedgerTurn
<1>2. IInv /\ [Next]_vars => [Ledger!Next]_(Ledger!vars)
  BY LedgerStep, LedgerStutters DEF vars
<1>. QED BY <1>1, <1>2, Invariance, PTL DEF Spec, ImplementsLedger, Ledger!Spec
=============================================================================
