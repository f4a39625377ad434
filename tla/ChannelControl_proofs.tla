----------------------- MODULE ChannelControl_proofs -----------------------
(***************************************************************************)
(* Proofs about ChannelControl, for every set of commands.                  *)
(*                                                                          *)
(* IInv is inductive: one lemma per action, in the order of the module.  The *)
(* safety properties are consequences of it; HandoverWaits needs the step    *)
(* that commits a handover as well.                                         *)
(***************************************************************************)
EXTENDS ChannelControl, TLAPS

Ownership ==
  ReceiverRecorded /\ AwaitsMatch /\ GatewayRecorded /\ StartupAlone /\ LoneProcess

\* The groups of variables and the writes of mode.json.
USE DEF modeVars, receiverVars, gatewayVars, jobVars, Select, Mark
USE DEF IInv, TypeOK, Ownership

\* No command has the name of one of the other jobs.
LEMMA JobNames == \A c \in Commands : c \notin {"none", "reconcile", "park", "email"}
  BY ControlAssumption DEF Selections

-----------------------------------------------------------------------------
(* Every action keeps IInv                                                  *)

(* A spawned process takes the lock, or exits.                              *)
LEMMA SpawnLocksKeeps ==
  ASSUME IInv, NEW f \in Natives, SpawnLocks(f)
  PROVE  IInv'
<1>. USE DEF SpawnLocks
<1>1. SelectionTyped'
  BY Zenon DEF SelectionTyped, JobTyped, Settled, HermesSelected, Frameworks,
       Natives, Statuses, Selected
<1>2. ReceiverTyped'
  BY Zenon DEF ReceiverTyped, AwaitsMatch, Natives, Live
<1>3. GatewayTyped'
  BY Zenon DEF GatewayTyped
<1>4. JobTyped' /\ JobAwaits'
  <2>1. JobTyped'
    BY JobNames, Zenon DEF JobTyped, Awaits
  <2>2. JobAwaits'
    BY JobNames, Zenon DEF JobTyped, JobAwaits
  <2>. QED BY <2>1, <2>2
<1>5. Ownership'
  BY Zenon DEF SelectionTyped, JobTyped, Frameworks, Natives, Settled,
       HermesSelected, Live, Selections, ReceiverRecorded, AwaitsMatch,
       GatewayRecorded, StartupAlone, LoneProcess
<1>. QED BY <1>1, <1>2, <1>3, <1>4, <1>5

(* A spawned process dies.                                                  *)
LEMMA SpawnDiesKeeps ==
  ASSUME IInv, NEW f \in Natives, SpawnDies(f)
  PROVE  IInv'
<1>. USE DEF SpawnDies
<1>1. SelectionTyped'
  BY Zenon DEF SelectionTyped, JobTyped, Settled, HermesSelected, Frameworks,
       Natives, Statuses, Selected
<1>2. ReceiverTyped'
  BY Zenon DEF ReceiverTyped, AwaitsMatch, Natives, Live
<1>3. GatewayTyped'
  BY Zenon DEF GatewayTyped
<1>4. JobTyped' /\ JobAwaits'
  <2>1. JobTyped'
    BY JobNames, Zenon DEF JobTyped, Awaits
  <2>2. JobAwaits'
    BY JobNames, Zenon DEF JobTyped, JobAwaits
  <2>. QED BY <2>1, <2>2
<1>5. Ownership'
  BY Zenon DEF SelectionTyped, JobTyped, Frameworks, Natives, Settled,
       HermesSelected, Live, Selections, ReceiverRecorded, AwaitsMatch,
       GatewayRecorded, StartupAlone, LoneProcess
<1>. QED BY <1>1, <1>2, <1>3, <1>4, <1>5

(* The receiver ends.                                                       *)
LEMMA ReceiverGoneKeeps ==
  ASSUME IInv, ReceiverGone
  PROVE  IInv'
<1>. USE DEF ReceiverGone
<1>1. SelectionTyped'
  BY Zenon DEF SelectionTyped, JobTyped, Settled, HermesSelected, Frameworks,
       Natives, Statuses, Selected
<1>2. ReceiverTyped'
  BY Zenon DEF ReceiverTyped, AwaitsMatch, Natives, Live
<1>3. GatewayTyped'
  BY Zenon DEF GatewayTyped
<1>4. JobTyped' /\ JobAwaits'
  <2>1. JobTyped'
    BY JobNames, Zenon DEF JobTyped, Awaits
  <2>2. JobAwaits'
    BY JobNames, Zenon DEF JobTyped, JobAwaits
  <2>. QED BY <2>1, <2>2
<1>5. Ownership'
  BY Zenon DEF SelectionTyped, JobTyped, Frameworks, Natives, Settled,
       HermesSelected, Live, Selections, ReceiverRecorded, AwaitsMatch,
       GatewayRecorded, StartupAlone, LoneProcess
<1>. QED BY <1>1, <1>2, <1>3, <1>4, <1>5

(* An update arrives.                                                       *)
LEMMA IntakeKeeps ==
  ASSUME IInv, Intake
  PROVE  IInv'
<1>. USE DEF Intake
<1>1. SelectionTyped'
  BY Zenon DEF SelectionTyped, JobTyped, Settled, HermesSelected, Frameworks,
       Natives, Statuses, Selected
<1>2. ReceiverTyped'
  BY Zenon DEF ReceiverTyped, AwaitsMatch, Natives, Live
<1>3. GatewayTyped'
  BY Zenon DEF GatewayTyped
<1>4. JobTyped' /\ JobAwaits'
  <2>1. JobTyped'
    BY JobNames, Zenon DEF JobTyped, Awaits
  <2>2. JobAwaits'
    BY JobNames, Zenon DEF JobTyped, JobAwaits
  <2>. QED BY <2>1, <2>2
<1>5. Ownership'
  BY Zenon DEF SelectionTyped, JobTyped, Frameworks, Natives, Settled,
       HermesSelected, Live, Selections, ReceiverRecorded, AwaitsMatch,
       GatewayRecorded, StartupAlone, LoneProcess
<1>. QED BY <1>1, <1>2, <1>3, <1>4, <1>5

(* A turn settles.                                                          *)
LEMMA WorkSettlesKeeps ==
  ASSUME IInv, WorkSettles
  PROVE  IInv'
<1>. USE DEF WorkSettles
<1>1. SelectionTyped'
  BY Zenon DEF SelectionTyped, JobTyped, Settled, HermesSelected, Frameworks,
       Natives, Statuses, Selected
<1>2. ReceiverTyped'
  BY Zenon DEF ReceiverTyped, AwaitsMatch, Natives, Live
<1>3. GatewayTyped'
  BY Zenon DEF GatewayTyped
<1>4. JobTyped' /\ JobAwaits'
  <2>1. JobTyped'
    BY JobNames, Zenon DEF JobTyped, Awaits
  <2>2. JobAwaits'
    BY JobNames, Zenon DEF JobTyped, JobAwaits
  <2>. QED BY <2>1, <2>2
<1>5. Ownership'
  BY Zenon DEF SelectionTyped, JobTyped, Frameworks, Natives, Settled,
       HermesSelected, Live, Selections, ReceiverRecorded, AwaitsMatch,
       GatewayRecorded, StartupAlone, LoneProcess
<1>. QED BY <1>1, <1>2, <1>3, <1>4, <1>5

(* A worker leaves.                                                         *)
LEMMA SlotFreedKeeps ==
  ASSUME IInv, SlotFreed
  PROVE  IInv'
<1>. USE DEF SlotFreed
<1>1. SelectionTyped'
  BY Zenon DEF SelectionTyped, JobTyped, Settled, HermesSelected, Frameworks,
       Natives, Statuses, Selected
<1>2. ReceiverTyped'
  BY Zenon DEF ReceiverTyped, AwaitsMatch, Natives, Live
<1>3. GatewayTyped'
  BY Zenon DEF GatewayTyped
<1>4. JobTyped' /\ JobAwaits'
  <2>1. JobTyped'
    BY JobNames, Zenon DEF JobTyped, Awaits
  <2>2. JobAwaits'
    BY JobNames, Zenon DEF JobTyped, JobAwaits
  <2>. QED BY <2>1, <2>2
<1>5. Ownership'
  BY Zenon DEF SelectionTyped, JobTyped, Frameworks, Natives, Settled,
       HermesSelected, Live, Selections, ReceiverRecorded, AwaitsMatch,
       GatewayRecorded, StartupAlone, LoneProcess
<1>. QED BY <1>1, <1>2, <1>3, <1>4, <1>5

(* The gateway dies.                                                        *)
LEMMA GatewayDiesKeeps ==
  ASSUME IInv, GatewayDies
  PROVE  IInv'
<1>. USE DEF GatewayDies
<1>1. SelectionTyped'
  BY Zenon DEF SelectionTyped, JobTyped, Settled, HermesSelected, Frameworks,
       Natives, Statuses, Selected
<1>2. ReceiverTyped'
  BY Zenon DEF ReceiverTyped, AwaitsMatch, Natives, Live
<1>3. GatewayTyped'
  BY Zenon DEF GatewayTyped
<1>4. JobTyped' /\ JobAwaits'
  <2>1. JobTyped'
    BY JobNames, Zenon DEF JobTyped, Awaits
  <2>2. JobAwaits'
    BY JobNames, Zenon DEF JobTyped, JobAwaits
  <2>. QED BY <2>1, <2>2
<1>5. Ownership'
  BY Zenon DEF SelectionTyped, JobTyped, Frameworks, Natives, Settled,
       HermesSelected, Live, Selections, ReceiverRecorded, AwaitsMatch,
       GatewayRecorded, StartupAlone, LoneProcess
<1>. QED BY <1>1, <1>2, <1>3, <1>4, <1>5

(* request_switch keeps the selection or moves the desired framework.       *)
LEMMA SwitchKeeps ==
  ASSUME IInv, Switch
  PROVE  IInv'
<1>. USE DEF Switch, Goal, Activate, Raise, Finish
<1>1. SelectionTyped'
  BY Zenon DEF SelectionTyped, JobTyped, Settled, HermesSelected, Frameworks,
       Natives, Statuses, Selected
<1>2. ReceiverTyped'
  BY Zenon DEF ReceiverTyped, AwaitsMatch, Natives, Live
<1>3. GatewayTyped'
  BY Zenon DEF GatewayTyped
<1>4. JobTyped' /\ JobAwaits'
  <2>1. JobTyped'
    BY JobNames, Zenon DEF JobTyped, Awaits
  <2>2. JobAwaits'
    BY JobNames, Zenon DEF JobTyped, JobAwaits
  <2>. QED BY <2>1, <2>2
<1>5. Ownership'
  BY Zenon DEF SelectionTyped, JobTyped, Frameworks, Natives, Settled,
       HermesSelected, Live, Selections, ReceiverRecorded, AwaitsMatch,
       GatewayRecorded, StartupAlone, LoneProcess
<1>. QED BY <1>1, <1>2, <1>3, <1>4, <1>5

(* start_native probes, and spawns only beside no receiver.                 *)
LEMMA ProbeKeeps ==
  ASSUME IInv, Probe
  PROVE  IInv'
<1>. USE DEF Probe, Spawn, Wanted, Started, Activate, Return, Raise, Finish, Await
<1>1. SelectionTyped'
  BY Zenon DEF SelectionTyped, JobTyped, Settled, HermesSelected, Frameworks,
       Natives, Statuses, Selected
<1>2. ReceiverTyped'
  BY Zenon DEF ReceiverTyped, AwaitsMatch, Natives, Live
<1>3. GatewayTyped'
  BY Zenon DEF GatewayTyped
<1>4. JobTyped' /\ JobAwaits'
  <2>1. JobTyped'
    BY JobNames, Zenon DEF JobTyped, Awaits
  <2>2. JobAwaits'
    BY JobNames, Zenon DEF JobTyped, JobAwaits
  <2>. QED BY <2>1, <2>2
<1>5. Ownership'
  BY Zenon DEF SelectionTyped, JobTyped, Frameworks, Natives, Settled,
       HermesSelected, Live, Selections, ReceiverRecorded, AwaitsMatch,
       GatewayRecorded, StartupAlone, LoneProcess
<1>. QED BY <1>1, <1>2, <1>3, <1>4, <1>5

(* start_native replaces a stale receiver.                                  *)
LEMMA ReplaceKeeps ==
  ASSUME IInv, Replace
  PROVE  IInv'
<1>. USE DEF Replace, Stop, Spawn, Wanted, Raise, Finish, Await
<1>1. SelectionTyped'
  BY Zenon DEF SelectionTyped, JobTyped, Settled, HermesSelected, Frameworks,
       Natives, Statuses, Selected
<1>2. ReceiverTyped'
  BY Zenon DEF ReceiverTyped, AwaitsMatch, Natives, Live
<1>3. GatewayTyped'
  BY Zenon DEF GatewayTyped
<1>4. JobTyped' /\ JobAwaits'
  <2>1. JobTyped'
    BY JobNames, Zenon DEF JobTyped, Awaits
  <2>2. JobAwaits'
    BY JobNames, Zenon DEF JobTyped, JobAwaits
  <2>. QED BY <2>1, <2>2
<1>5. Ownership'
  BY Zenon DEF SelectionTyped, JobTyped, Frameworks, Natives, Settled,
       HermesSelected, Live, Selections, ReceiverRecorded, AwaitsMatch,
       GatewayRecorded, StartupAlone, LoneProcess
<1>. QED BY <1>1, <1>2, <1>3, <1>4, <1>5

(* start_native spawns the replacement.                                     *)
LEMMA ReplacedKeeps ==
  ASSUME IInv, Replaced
  PROVE  IInv'
<1>. USE DEF Replaced, Spawn, Wanted, Await
<1>1. SelectionTyped'
  BY Zenon DEF SelectionTyped, JobTyped, Settled, HermesSelected, Frameworks,
       Natives, Statuses, Selected
<1>2. ReceiverTyped'
  BY Zenon DEF ReceiverTyped, AwaitsMatch, Natives, Live
<1>3. GatewayTyped'
  BY Zenon DEF GatewayTyped
<1>4. JobTyped' /\ JobAwaits'
  <2>1. JobTyped'
    BY JobNames, Zenon DEF JobTyped, Awaits
  <2>2. JobAwaits'
    BY JobNames, Zenon DEF JobTyped, JobAwaits
  <2>. QED BY <2>1, <2>2
<1>5. Ownership'
  BY Zenon DEF SelectionTyped, JobTyped, Frameworks, Natives, Settled,
       HermesSelected, Live, Selections, ReceiverRecorded, AwaitsMatch,
       GatewayRecorded, StartupAlone, LoneProcess
<1>. QED BY <1>1, <1>2, <1>3, <1>4, <1>5

(* start_native has its receiver.                                           *)
LEMMA PollKeeps ==
  ASSUME IInv, Poll
  PROVE  IInv'
<1>. USE DEF Poll, Started, Activate, Return, Finish, Await
<1>1. SelectionTyped'
  BY Zenon DEF SelectionTyped, JobTyped, Settled, HermesSelected, Frameworks,
       Natives, Statuses, Selected
<1>2. ReceiverTyped'
  BY Zenon DEF ReceiverTyped, AwaitsMatch, Natives, Live
<1>3. GatewayTyped'
  BY Zenon DEF GatewayTyped
<1>4. JobTyped' /\ JobAwaits'
  <2>1. JobTyped'
    BY JobNames, Zenon DEF JobTyped, Awaits
  <2>2. JobAwaits'
    BY JobNames, Zenon DEF JobTyped, JobAwaits
  <2>. QED BY <2>1, <2>2
<1>5. Ownership'
  BY Zenon DEF SelectionTyped, JobTyped, Frameworks, Natives, Settled,
       HermesSelected, Live, Selections, ReceiverRecorded, AwaitsMatch,
       GatewayRecorded, StartupAlone, LoneProcess
<1>. QED BY <1>1, <1>2, <1>3, <1>4, <1>5

(* A bounded wait is over.                                                  *)
LEMMA GivesUpKeeps ==
  ASSUME IInv, GivesUp
  PROVE  IInv'
<1>. USE DEF GivesUp, Raise, Finish
<1>1. SelectionTyped'
  BY Zenon DEF SelectionTyped, JobTyped, Settled, HermesSelected, Frameworks,
       Natives, Statuses, Selected
<1>2. ReceiverTyped'
  BY Zenon DEF ReceiverTyped, AwaitsMatch, Natives, Live
<1>3. GatewayTyped'
  BY Zenon DEF GatewayTyped
<1>4. JobTyped' /\ JobAwaits'
  <2>1. JobTyped'
    BY JobNames, Zenon DEF JobTyped, Awaits
  <2>2. JobAwaits'
    BY JobNames, Zenon DEF JobTyped, JobAwaits
  <2>. QED BY <2>1, <2>2
<1>5. Ownership'
  BY Zenon DEF SelectionTyped, JobTyped, Frameworks, Natives, Settled,
       HermesSelected, Live, Selections, ReceiverRecorded, AwaitsMatch,
       GatewayRecorded, StartupAlone, LoneProcess
<1>. QED BY <1>1, <1>2, <1>3, <1>4, <1>5

(* The gateway is started while Hermes is active.                           *)
LEMMA RunGatewayKeeps ==
  ASSUME IInv, RunGateway
  PROVE  IInv'
<1>. USE DEF RunGateway, Activate, Return, Finish
<1>1. SelectionTyped'
  BY Zenon DEF SelectionTyped, JobTyped, Settled, HermesSelected, Frameworks,
       Natives, Statuses, Selected
<1>2. ReceiverTyped'
  BY Zenon DEF ReceiverTyped, AwaitsMatch, Natives, Live
<1>3. GatewayTyped'
  BY Zenon DEF GatewayTyped
<1>4. JobTyped' /\ JobAwaits'
  <2>1. JobTyped'
    BY JobNames, Zenon DEF JobTyped, Awaits
  <2>2. JobAwaits'
    BY JobNames, Zenon DEF JobTyped, JobAwaits
  <2>. QED BY <2>1, <2>2
<1>5. Ownership'
  <2>1. active' = "hermes" \/ unasked'
    <3>1. active = "hermes" \/ job = "import_legacy_tinyhat_secrets"
      BY Zenon DEF AwaitsMatch
    <3>2. active' = active
      BY Zenon
    <3>. QED BY <3>1, <3>2, Zenon
  <2>2. GatewayRecorded'
    BY <2>1, Zenon DEF GatewayRecorded
  <2>. QED BY <2>2, Zenon DEF SelectionTyped, JobTyped, Frameworks, Natives, Settled,
         HermesSelected, Live, Selections, ReceiverRecorded, AwaitsMatch,
         StartupAlone, LoneProcess
<1>. QED BY <1>1, <1>2, <1>3, <1>4, <1>5

(* The Hermes CLI fails.                                                    *)
LEMMA CliFailsKeeps ==
  ASSUME IInv, CliFails
  PROVE  IInv'
<1>. USE DEF CliFails, Raise, Finish
<1>1. SelectionTyped'
  BY Zenon DEF SelectionTyped, JobTyped, Settled, HermesSelected, Frameworks,
       Natives, Statuses, Selected
<1>2. ReceiverTyped'
  BY Zenon DEF ReceiverTyped, AwaitsMatch, Natives, Live
<1>3. GatewayTyped'
  BY Zenon DEF GatewayTyped
<1>4. JobTyped' /\ JobAwaits'
  <2>1. JobTyped'
    BY JobNames, Zenon DEF JobTyped, Awaits
  <2>2. JobAwaits'
    BY JobNames, Zenon DEF JobTyped, JobAwaits
  <2>. QED BY <2>1, <2>2
<1>5. Ownership'
  BY Zenon DEF SelectionTyped, JobTyped, Frameworks, Natives, Settled,
       HermesSelected, Live, Selections, ReceiverRecorded, AwaitsMatch,
       GatewayRecorded, StartupAlone, LoneProcess
<1>. QED BY <1>1, <1>2, <1>3, <1>4, <1>5

(* A drained receiver resumes.                                              *)
LEMMA ResumeReceiverKeeps ==
  ASSUME IInv, ResumeReceiver
  PROVE  IInv'
<1>. USE DEF ResumeReceiver, Activate, Raise, Finish
<1>1. SelectionTyped'
  BY Zenon DEF SelectionTyped, JobTyped, Settled, HermesSelected, Frameworks,
       Natives, Statuses, Selected
<1>2. ReceiverTyped'
  BY Zenon DEF ReceiverTyped, AwaitsMatch, Natives, Live
<1>3. GatewayTyped'
  BY Zenon DEF GatewayTyped
<1>4. JobTyped' /\ JobAwaits'
  <2>1. JobTyped'
    BY JobNames, Zenon DEF JobTyped, Awaits
  <2>2. JobAwaits'
    BY JobNames, Zenon DEF JobTyped, JobAwaits
  <2>. QED BY <2>1, <2>2
<1>5. Ownership'
  BY Zenon DEF SelectionTyped, JobTyped, Frameworks, Natives, Settled,
       HermesSelected, Live, Selections, ReceiverRecorded, AwaitsMatch,
       GatewayRecorded, StartupAlone, LoneProcess
<1>. QED BY <1>1, <1>2, <1>3, <1>4, <1>5

(* A drain fails; the intake is stopped.                                    *)
LEMMA DrainFailsKeeps ==
  ASSUME IInv, DrainFails
  PROVE  IInv'
<1>. USE DEF DrainFails, Wanted, Raise, Finish
<1>1. SelectionTyped'
  BY Zenon DEF SelectionTyped, JobTyped, Settled, HermesSelected, Frameworks,
       Natives, Statuses, Selected
<1>2. ReceiverTyped'
  BY Zenon DEF ReceiverTyped, AwaitsMatch, Natives, Live
<1>3. GatewayTyped'
  BY Zenon DEF GatewayTyped
<1>4. JobTyped' /\ JobAwaits'
  <2>1. JobTyped'
    BY JobNames, Zenon DEF JobTyped, Awaits
  <2>2. JobAwaits'
    BY JobNames, Zenon DEF JobTyped, JobAwaits
  <2>. QED BY <2>1, <2>2
<1>5. Ownership'
  BY Zenon DEF SelectionTyped, JobTyped, Frameworks, Natives, Settled,
       HermesSelected, Live, Selections, ReceiverRecorded, AwaitsMatch,
       GatewayRecorded, StartupAlone, LoneProcess
<1>. QED BY <1>1, <1>2, <1>3, <1>4, <1>5

(* reconcile drains the receiver.                                           *)
LEMMA DrainReceiverKeeps ==
  ASSUME IInv, DrainReceiver
  PROVE  IInv'
<1>. USE DEF DrainReceiver, Return, Raise, Finish, Await
<1>1. SelectionTyped'
  BY Zenon DEF SelectionTyped, JobTyped, Settled, HermesSelected, Frameworks,
       Natives, Statuses, Selected
<1>2. ReceiverTyped'
  BY Zenon DEF ReceiverTyped, AwaitsMatch, Natives, Live
<1>3. GatewayTyped'
  BY Zenon DEF GatewayTyped
<1>4. JobTyped' /\ JobAwaits'
  <2>1. JobTyped'
    BY JobNames, Zenon DEF JobTyped, Awaits
  <2>2. JobAwaits'
    BY JobNames, Zenon DEF JobTyped, JobAwaits
  <2>. QED BY <2>1, <2>2
<1>5. Ownership'
  BY Zenon DEF SelectionTyped, JobTyped, Frameworks, Natives, Settled,
       HermesSelected, Live, Selections, ReceiverRecorded, AwaitsMatch,
       GatewayRecorded, StartupAlone, LoneProcess
<1>. QED BY <1>1, <1>2, <1>3, <1>4, <1>5

(* reconcile stops it.                                                      *)
LEMMA ReleaseReceiverKeeps ==
  ASSUME IInv, ReleaseReceiver
  PROVE  IInv'
<1>. USE DEF ReleaseReceiver, Stop, Raise, Finish, Await
<1>1. SelectionTyped'
  BY Zenon DEF SelectionTyped, JobTyped, Settled, HermesSelected, Frameworks,
       Natives, Statuses, Selected
<1>2. ReceiverTyped'
  BY Zenon DEF ReceiverTyped, AwaitsMatch, Natives, Live
<1>3. GatewayTyped'
  BY Zenon DEF GatewayTyped
<1>4. JobTyped' /\ JobAwaits'
  <2>1. JobTyped'
    BY JobNames, Zenon DEF JobTyped, Awaits
  <2>2. JobAwaits'
    BY JobNames, Zenon DEF JobTyped, JobAwaits
  <2>. QED BY <2>1, <2>2
<1>5. Ownership'
  <2>. USE DEF Natives, HermesSelected, Live
  <2>1. ReceiverRecorded' /\ GatewayRecorded' /\ StartupAlone' /\ LoneProcess'
    BY Zenon DEF AwaitsMatch, ReceiverRecorded, GatewayRecorded, StartupAlone,
         LoneProcess
  <2>2. AwaitsMatch'
    <3>1. CASE Raise
      <4>1. pc' = "idle"
        BY <3>1, Zenon
      <4>. QED BY <4>1 DEF AwaitsMatch
    <3>2. CASE ~Raise
      <4>1. /\ Live /\ ~busy /\ leaving' = TRUE /\ pc' = "released"
            /\ UNCHANGED <<active, spawned, busy>>
        BY <3>2, Zenon
      <4>2. active \in Natives /\ spawned = {}
        BY <4>1, Zenon DEF AwaitsMatch, LoneProcess
      <4>. QED BY <4>1, <4>2, Zenon DEF AwaitsMatch
    <3>. QED BY <3>1, <3>2
  <2>. QED BY <2>1, <2>2
<1>. QED BY <1>1, <1>2, <1>3, <1>4, <1>5

(* reconcile commits once the socket is gone.                               *)
LEMMA ReceiverReleasedKeeps ==
  ASSUME IInv, ReceiverReleased
  PROVE  IInv'
<1>. USE DEF ReceiverReleased, Commit
<1>1. SelectionTyped'
  BY Zenon DEF SelectionTyped, JobTyped, Settled, HermesSelected, Frameworks,
       Natives, Statuses, Selected
<1>2. ReceiverTyped'
  BY Zenon DEF ReceiverTyped, AwaitsMatch, Natives, Live
<1>3. GatewayTyped'
  BY Zenon DEF GatewayTyped
<1>4. JobTyped' /\ JobAwaits'
  <2>1. JobTyped'
    BY JobNames, Zenon DEF JobTyped, Awaits
  <2>2. JobAwaits'
    BY JobNames, Zenon DEF JobTyped, JobAwaits
  <2>. QED BY <2>1, <2>2
<1>5. Ownership'
  BY Zenon DEF SelectionTyped, JobTyped, Frameworks, Natives, Settled,
       HermesSelected, Live, Selections, ReceiverRecorded, AwaitsMatch,
       GatewayRecorded, StartupAlone, LoneProcess
<1>. QED BY <1>1, <1>2, <1>3, <1>4, <1>5

(* reconcile stops the gateway.                                             *)
LEMMA StopGatewayKeeps ==
  ASSUME IInv, StopGateway
  PROVE  IInv'
<1>. USE DEF StopGateway, Await
<1>1. SelectionTyped'
  BY Zenon DEF SelectionTyped, JobTyped, Settled, HermesSelected, Frameworks,
       Natives, Statuses, Selected
<1>2. ReceiverTyped'
  BY Zenon DEF ReceiverTyped, AwaitsMatch, Natives, Live
<1>3. GatewayTyped'
  BY Zenon DEF GatewayTyped
<1>4. JobTyped' /\ JobAwaits'
  <2>1. JobTyped'
    BY JobNames, Zenon DEF JobTyped, Awaits
  <2>2. JobAwaits'
    BY JobNames, Zenon DEF JobTyped, JobAwaits
  <2>. QED BY <2>1, <2>2
<1>5. Ownership'
  BY Zenon DEF SelectionTyped, JobTyped, Frameworks, Natives, Settled,
       HermesSelected, Live, Selections, ReceiverRecorded, AwaitsMatch,
       GatewayRecorded, StartupAlone, LoneProcess
<1>. QED BY <1>1, <1>2, <1>3, <1>4, <1>5

(* reconcile uninstalls it and commits.                                     *)
LEMMA UninstallGatewayKeeps ==
  ASSUME IInv, UninstallGateway
  PROVE  IInv'
<1>. USE DEF UninstallGateway, Commit
<1>1. SelectionTyped'
  BY Zenon DEF SelectionTyped, JobTyped, Settled, HermesSelected, Frameworks,
       Natives, Statuses, Selected
<1>2. ReceiverTyped'
  BY Zenon DEF ReceiverTyped, AwaitsMatch, Natives, Live
<1>3. GatewayTyped'
  BY Zenon DEF GatewayTyped
<1>4. JobTyped' /\ JobAwaits'
  <2>1. JobTyped'
    BY JobNames, Zenon DEF JobTyped, Awaits
  <2>2. JobAwaits'
    BY JobNames, Zenon DEF JobTyped, JobAwaits
  <2>. QED BY <2>1, <2>2
<1>5. Ownership'
  <2>1. active = "hermes" /\ desired \in Natives /\ gateway = "down"
    BY Zenon DEF AwaitsMatch
  <2>2. spawned = {} /\ receiver = "none"
    BY <2>1 DEF ReceiverRecorded, ReceiverTyped, Natives
  <2>3. ReceiverRecorded'
    BY <2>2, Zenon DEF ReceiverRecorded
  <2>4. AwaitsMatch' /\ GatewayRecorded' /\ LoneProcess'
    BY <2>1, <2>2, Zenon DEF AwaitsMatch, GatewayRecorded, LoneProcess, Natives, Live
  <2>5. StartupAlone'
    BY <2>1, Zenon DEF StartupAlone, HermesSelected, Natives
  <2>. QED BY <2>3, <2>4, <2>5
<1>. QED BY <1>1, <1>2, <1>3, <1>4, <1>5

(* suspend halts the receiver.                                              *)
LEMMA HaltReceiverKeeps ==
  ASSUME IInv, HaltReceiver
  PROVE  IInv'
<1>. USE DEF HaltReceiver, Return, Finish, Await
<1>1. SelectionTyped'
  BY Zenon DEF SelectionTyped, JobTyped, Settled, HermesSelected, Frameworks,
       Natives, Statuses, Selected
<1>2. ReceiverTyped'
  BY Zenon DEF ReceiverTyped, AwaitsMatch, Natives, Live
<1>3. GatewayTyped'
  BY Zenon DEF GatewayTyped
<1>4. JobTyped' /\ JobAwaits'
  <2>1. JobTyped'
    BY JobNames, Zenon DEF JobTyped, Awaits
  <2>2. JobAwaits'
    BY JobNames, Zenon DEF JobTyped, JobAwaits
  <2>. QED BY <2>1, <2>2
<1>5. Ownership'
  BY Zenon DEF SelectionTyped, JobTyped, Frameworks, Natives, Settled,
       HermesSelected, Live, Selections, ReceiverRecorded, AwaitsMatch,
       GatewayRecorded, StartupAlone, LoneProcess
<1>. QED BY <1>1, <1>2, <1>3, <1>4, <1>5

(* The halted receiver is gone.                                             *)
LEMMA ReceiverHaltedKeeps ==
  ASSUME IInv, ReceiverHalted
  PROVE  IInv'
<1>. USE DEF ReceiverHalted, Return, Finish, Await
<1>1. SelectionTyped'
  BY Zenon DEF SelectionTyped, JobTyped, Settled, HermesSelected, Frameworks,
       Natives, Statuses, Selected
<1>2. ReceiverTyped'
  BY Zenon DEF ReceiverTyped, AwaitsMatch, Natives, Live
<1>3. GatewayTyped'
  BY Zenon DEF GatewayTyped
<1>4. JobTyped' /\ JobAwaits'
  <2>1. JobTyped'
    BY JobNames, Zenon DEF JobTyped, Awaits
  <2>2. JobAwaits'
    BY JobNames, Zenon DEF JobTyped, JobAwaits
  <2>. QED BY <2>1, <2>2
<1>5. Ownership'
  BY Zenon DEF SelectionTyped, JobTyped, Frameworks, Natives, Settled,
       HermesSelected, Live, Selections, ReceiverRecorded, AwaitsMatch,
       GatewayRecorded, StartupAlone, LoneProcess
<1>. QED BY <1>1, <1>2, <1>3, <1>4, <1>5

(* stop_hermes stops the gateway.                                           *)
LEMMA StopHermesKeeps ==
  ASSUME IInv, StopHermes
  PROVE  IInv'
<1>. USE DEF StopHermes, Return, Finish
<1>1. SelectionTyped'
  BY Zenon DEF SelectionTyped, JobTyped, Settled, HermesSelected, Frameworks,
       Natives, Statuses, Selected
<1>2. ReceiverTyped'
  BY Zenon DEF ReceiverTyped, AwaitsMatch, Natives, Live
<1>3. GatewayTyped'
  BY Zenon DEF GatewayTyped
<1>4. JobTyped' /\ JobAwaits'
  <2>1. JobTyped'
    BY JobNames, Zenon DEF JobTyped, Awaits
  <2>2. JobAwaits'
    BY JobNames, Zenon DEF JobTyped, JobAwaits
  <2>. QED BY <2>1, <2>2
<1>5. Ownership'
  BY Zenon DEF SelectionTyped, JobTyped, Frameworks, Natives, Settled,
       HermesSelected, Live, Selections, ReceiverRecorded, AwaitsMatch,
       GatewayRecorded, StartupAlone, LoneProcess
<1>. QED BY <1>1, <1>2, <1>3, <1>4, <1>5

(* stop_for_configuration drains.                                           *)
LEMMA FreezeKeeps ==
  ASSUME IInv, Freeze
  PROVE  IInv'
<1>. USE DEF Freeze, Raise, Finish, Await
<1>1. SelectionTyped'
  BY Zenon DEF SelectionTyped, JobTyped, Settled, HermesSelected, Frameworks,
       Natives, Statuses, Selected
<1>2. ReceiverTyped'
  BY Zenon DEF ReceiverTyped, AwaitsMatch, Natives, Live
<1>3. GatewayTyped'
  BY Zenon DEF GatewayTyped
<1>4. JobTyped' /\ JobAwaits'
  <2>1. JobTyped'
    BY JobNames, Zenon DEF JobTyped, Awaits
  <2>2. JobAwaits'
    BY JobNames, Zenon DEF JobTyped, JobAwaits
  <2>. QED BY <2>1, <2>2
<1>5. Ownership'
  BY Zenon DEF SelectionTyped, JobTyped, Frameworks, Natives, Settled,
       HermesSelected, Live, Selections, ReceiverRecorded, AwaitsMatch,
       GatewayRecorded, StartupAlone, LoneProcess
<1>. QED BY <1>1, <1>2, <1>3, <1>4, <1>5

(* stop_for_configuration refuses.                                          *)
LEMMA RefuseKeeps ==
  ASSUME IInv, Refuse
  PROVE  IInv'
<1>. USE DEF Refuse, Raise, Finish
<1>1. SelectionTyped'
  BY Zenon DEF SelectionTyped, JobTyped, Settled, HermesSelected, Frameworks,
       Natives, Statuses, Selected
<1>2. ReceiverTyped'
  BY Zenon DEF ReceiverTyped, AwaitsMatch, Natives, Live
<1>3. GatewayTyped'
  BY Zenon DEF GatewayTyped
<1>4. JobTyped' /\ JobAwaits'
  <2>1. JobTyped'
    BY JobNames, Zenon DEF JobTyped, Awaits
  <2>2. JobAwaits'
    BY JobNames, Zenon DEF JobTyped, JobAwaits
  <2>. QED BY <2>1, <2>2
<1>5. Ownership'
  BY Zenon DEF SelectionTyped, JobTyped, Frameworks, Natives, Settled,
       HermesSelected, Live, Selections, ReceiverRecorded, AwaitsMatch,
       GatewayRecorded, StartupAlone, LoneProcess
<1>. QED BY <1>1, <1>2, <1>3, <1>4, <1>5

(* stop_for_configuration stops the receiver.                               *)
LEMMA LayDownKeeps ==
  ASSUME IInv, LayDown
  PROVE  IInv'
<1>. USE DEF LayDown, Stop, Raise, Finish, Await
<1>1. SelectionTyped'
  BY Zenon DEF SelectionTyped, JobTyped, Settled, HermesSelected, Frameworks,
       Natives, Statuses, Selected
<1>2. ReceiverTyped'
  BY Zenon DEF ReceiverTyped, AwaitsMatch, Natives, Live
<1>3. GatewayTyped'
  BY Zenon DEF GatewayTyped
<1>4. JobTyped' /\ JobAwaits'
  <2>1. JobTyped'
    BY JobNames, Zenon DEF JobTyped, Awaits
  <2>2. JobAwaits'
    BY JobNames, Zenon DEF JobTyped, JobAwaits
  <2>. QED BY <2>1, <2>2
<1>5. Ownership'
  BY Zenon DEF SelectionTyped, JobTyped, Frameworks, Natives, Settled,
       HermesSelected, Live, Selections, ReceiverRecorded, AwaitsMatch,
       GatewayRecorded, StartupAlone, LoneProcess
<1>. QED BY <1>1, <1>2, <1>3, <1>4, <1>5

(* The configuration is written.                                            *)
LEMMA LaidDownKeeps ==
  ASSUME IInv, LaidDown
  PROVE  IInv'
<1>. USE DEF LaidDown, Raise, Finish, Await
<1>1. SelectionTyped'
  BY Zenon DEF SelectionTyped, JobTyped, Settled, HermesSelected, Frameworks,
       Natives, Statuses, Selected
<1>2. ReceiverTyped'
  BY Zenon DEF ReceiverTyped, AwaitsMatch, Natives, Live
<1>3. GatewayTyped'
  BY Zenon DEF GatewayTyped
<1>4. JobTyped' /\ JobAwaits'
  <2>1. JobTyped'
    BY JobNames, Zenon DEF JobTyped, Awaits
  <2>2. JobAwaits'
    BY JobNames, Zenon DEF JobTyped, JobAwaits
  <2>. QED BY <2>1, <2>2
<1>5. Ownership'
  BY Zenon DEF SelectionTyped, JobTyped, Frameworks, Natives, Settled,
       HermesSelected, Live, Selections, ReceiverRecorded, AwaitsMatch,
       GatewayRecorded, StartupAlone, LoneProcess
<1>. QED BY <1>1, <1>2, <1>3, <1>4, <1>5

(* A command gets the lock.                                                 *)
LEMMA CommandBeginsKeeps ==
  ASSUME IInv, CommandBegins
  PROVE  IInv'
<1>. USE DEF CommandBegins, RequestSwitch, Suspend, RestartHermes, Configure, Begin,
       OverAtOnce, HermesSelected
<1>1. SelectionTyped'
  BY Zenon DEF SelectionTyped, JobTyped, Settled, HermesSelected, Frameworks,
       Natives, Statuses, Selected
<1>2. ReceiverTyped'
  BY Zenon DEF ReceiverTyped, AwaitsMatch, Natives, Live
<1>3. GatewayTyped'
  BY Zenon DEF GatewayTyped
<1>4. JobTyped' /\ JobAwaits'
  <2>1. JobTyped'
    BY JobNames, Zenon DEF JobTyped, Awaits
  <2>2. JobAwaits'
    BY JobNames, Zenon DEF JobTyped, JobAwaits
  <2>. QED BY <2>1, <2>2
<1>5. Ownership'
  BY Zenon DEF SelectionTyped, JobTyped, Frameworks, Natives, Settled,
       HermesSelected, Live, Selections, ReceiverRecorded, AwaitsMatch,
       GatewayRecorded, StartupAlone, LoneProcess
<1>. QED BY <1>1, <1>2, <1>3, <1>4, <1>5

(* The email set-up gets the lock.                                          *)
LEMMA EmailBeginsKeeps ==
  ASSUME IInv, EmailBegins
  PROVE  IInv'
<1>. USE DEF EmailBegins, Configure, Begin
<1>1. SelectionTyped'
  BY Zenon DEF SelectionTyped, JobTyped, Settled, HermesSelected, Frameworks,
       Natives, Statuses, Selected
<1>2. ReceiverTyped'
  BY Zenon DEF ReceiverTyped, AwaitsMatch, Natives, Live
<1>3. GatewayTyped'
  BY Zenon DEF GatewayTyped
<1>4. JobTyped' /\ JobAwaits'
  <2>1. JobTyped'
    BY JobNames, Zenon DEF JobTyped, Awaits
  <2>2. JobAwaits'
    BY JobNames, Zenon DEF JobTyped, JobAwaits
  <2>. QED BY <2>1, <2>2
<1>5. Ownership'
  BY Zenon DEF SelectionTyped, JobTyped, Frameworks, Natives, Settled,
       HermesSelected, Live, Selections, ReceiverRecorded, AwaitsMatch,
       GatewayRecorded, StartupAlone, LoneProcess
<1>. QED BY <1>1, <1>2, <1>3, <1>4, <1>5

(* schedule parks the receiver.                                             *)
LEMMA ParkBeginsKeeps ==
  ASSUME IInv, ParkBegins
  PROVE  IInv'
<1>. USE DEF ParkBegins, Suspend, Begin
<1>1. SelectionTyped'
  BY Zenon DEF SelectionTyped, JobTyped, Settled, HermesSelected, Frameworks,
       Natives, Statuses, Selected
<1>2. ReceiverTyped'
  BY Zenon DEF ReceiverTyped, AwaitsMatch, Natives, Live
<1>3. GatewayTyped'
  BY Zenon DEF GatewayTyped
<1>4. JobTyped' /\ JobAwaits'
  <2>1. JobTyped'
    BY JobNames, Zenon DEF JobTyped, Awaits
  <2>2. JobAwaits'
    BY JobNames, Zenon DEF JobTyped, JobAwaits
  <2>. QED BY <2>1, <2>2
<1>5. Ownership'
  BY Zenon DEF SelectionTyped, JobTyped, Frameworks, Natives, Settled,
       HermesSelected, Live, Selections, ReceiverRecorded, AwaitsMatch,
       GatewayRecorded, StartupAlone, LoneProcess
<1>. QED BY <1>1, <1>2, <1>3, <1>4, <1>5

(* schedule reconciles.                                                     *)
LEMMA ReconcileBeginsKeeps ==
  ASSUME IInv, ReconcileBegins
  PROVE  IInv'
<1>. USE DEF ReconcileBegins, RequestSwitch, Settled, Begin, OverAtOnce
<1>1. SelectionTyped'
  BY Zenon DEF SelectionTyped, JobTyped, Settled, HermesSelected, Frameworks,
       Natives, Statuses, Selected
<1>2. ReceiverTyped'
  BY Zenon DEF ReceiverTyped, AwaitsMatch, Natives, Live
<1>3. GatewayTyped'
  BY Zenon DEF GatewayTyped
<1>4. JobTyped' /\ JobAwaits'
  <2>1. JobTyped'
    BY JobNames, Zenon DEF JobTyped, Awaits
  <2>2. JobAwaits'
    BY JobNames, Zenon DEF JobTyped, JobAwaits
  <2>. QED BY <2>1, <2>2
<1>5. Ownership'
  BY Zenon DEF SelectionTyped, JobTyped, Frameworks, Natives, Settled,
       HermesSelected, Live, Selections, ReceiverRecorded, AwaitsMatch,
       GatewayRecorded, StartupAlone, LoneProcess
<1>. QED BY <1>1, <1>2, <1>3, <1>4, <1>5

(* A command arrives.                                                       *)
LEMMA CommandArrivesKeeps ==
  ASSUME IInv, NEW c \in Commands, CommandArrives(c)
  PROVE  IInv'
<1>. USE DEF CommandArrives
<1>1. SelectionTyped'
  BY Zenon DEF SelectionTyped, JobTyped, Settled, HermesSelected, Frameworks,
       Natives, Statuses, Selected
<1>2. ReceiverTyped'
  BY Zenon DEF ReceiverTyped, AwaitsMatch, Natives, Live
<1>3. GatewayTyped'
  BY Zenon DEF GatewayTyped
<1>4. JobTyped' /\ JobAwaits'
  <2>1. JobTyped'
    BY JobNames, Zenon DEF JobTyped, Awaits
  <2>2. JobAwaits'
    BY JobNames, Zenon DEF JobTyped, JobAwaits
  <2>. QED BY <2>1, <2>2
<1>5. Ownership'
  BY Zenon DEF SelectionTyped, JobTyped, Frameworks, Natives, Settled,
       HermesSelected, Live, Selections, ReceiverRecorded, AwaitsMatch,
       GatewayRecorded, StartupAlone, LoneProcess
<1>. QED BY <1>1, <1>2, <1>3, <1>4, <1>5

(* The bring-up of the gateway begins.                                      *)
LEMMA StartupBeginsKeeps ==
  ASSUME IInv, StartupBegins
  PROVE  IInv'
<1>. USE DEF StartupBegins
<1>1. SelectionTyped'
  BY Zenon DEF SelectionTyped, JobTyped, Settled, HermesSelected, Frameworks,
       Natives, Statuses, Selected
<1>2. ReceiverTyped'
  BY Zenon DEF ReceiverTyped, AwaitsMatch, Natives, Live
<1>3. GatewayTyped'
  BY Zenon DEF GatewayTyped
<1>4. JobTyped' /\ JobAwaits'
  <2>1. JobTyped'
    BY JobNames, Zenon DEF JobTyped, Awaits
  <2>2. JobAwaits'
    BY JobNames, Zenon DEF JobTyped, JobAwaits
  <2>. QED BY <2>1, <2>2
<1>5. Ownership'
  <2>1. job \notin Selections
    BY ControlAssumption DEF JobTyped, JobAwaits, Selections
  <2>2. StartupAlone'
    BY <2>1, Zenon DEF StartupAlone, HermesSelected
  <2>3. ReceiverRecorded' /\ AwaitsMatch' /\ GatewayRecorded' /\ LoneProcess'
    BY Zenon DEF ReceiverRecorded, AwaitsMatch, GatewayRecorded, LoneProcess, Live
  <2>. QED BY <2>2, <2>3
<1>. QED BY <1>1, <1>2, <1>3, <1>4, <1>5

(* The bring-up of the gateway ends.                                        *)
LEMMA StartupEndsKeeps ==
  ASSUME IInv, StartupEnds
  PROVE  IInv'
<1>. USE DEF StartupEnds
<1>1. SelectionTyped'
  BY Zenon DEF SelectionTyped, JobTyped, Settled, HermesSelected, Frameworks,
       Natives, Statuses, Selected
<1>2. ReceiverTyped'
  BY Zenon DEF ReceiverTyped, AwaitsMatch, Natives, Live
<1>3. GatewayTyped'
  BY Zenon DEF GatewayTyped
<1>4. JobTyped' /\ JobAwaits'
  <2>1. JobTyped'
    BY JobNames, Zenon DEF JobTyped, Awaits
  <2>2. JobAwaits'
    BY JobNames, Zenon DEF JobTyped, JobAwaits
  <2>. QED BY <2>1, <2>2
<1>5. Ownership'
  BY Zenon DEF SelectionTyped, JobTyped, Frameworks, Natives, Settled,
       HermesSelected, Live, Selections, ReceiverRecorded, AwaitsMatch,
       GatewayRecorded, StartupAlone, LoneProcess
<1>. QED BY <1>1, <1>2, <1>3, <1>4, <1>5

(* The assignment changes.                                                  *)
LEMMA PlatformMovesKeeps ==
  ASSUME IInv, PlatformMoves
  PROVE  IInv'
<1>. USE DEF PlatformMoves
<1>1. SelectionTyped'
  BY Zenon DEF SelectionTyped, JobTyped, Settled, HermesSelected, Frameworks,
       Natives, Statuses, Selected
<1>2. ReceiverTyped'
  BY Zenon DEF ReceiverTyped, AwaitsMatch, Natives, Live
<1>3. GatewayTyped'
  BY Zenon DEF GatewayTyped
<1>4. JobTyped' /\ JobAwaits'
  <2>1. JobTyped'
    BY JobNames, Zenon DEF JobTyped, Awaits
  <2>2. JobAwaits'
    BY JobNames, Zenon DEF JobTyped, JobAwaits
  <2>. QED BY <2>1, <2>2
<1>5. Ownership'
  BY Zenon DEF SelectionTyped, JobTyped, Frameworks, Natives, Settled,
       HermesSelected, Live, Selections, ReceiverRecorded, AwaitsMatch,
       GatewayRecorded, StartupAlone, LoneProcess
<1>. QED BY <1>1, <1>2, <1>3, <1>4, <1>5

(* The control process restarts.                                            *)
LEMMA ControlRestartsKeeps ==
  ASSUME IInv, ControlRestarts
  PROVE  IInv'
<1>. USE DEF ControlRestarts
<1>1. SelectionTyped'
  BY Zenon DEF SelectionTyped, JobTyped, Settled, HermesSelected, Frameworks,
       Natives, Statuses, Selected
<1>2. ReceiverTyped'
  BY Zenon DEF ReceiverTyped, AwaitsMatch, Natives, Live
<1>3. GatewayTyped'
  BY Zenon DEF GatewayTyped
<1>4. JobTyped' /\ JobAwaits'
  <2>1. JobTyped'
    BY JobNames, Zenon DEF JobTyped, Awaits
  <2>2. JobAwaits'
    BY JobNames, Zenon DEF JobTyped, JobAwaits
  <2>. QED BY <2>1, <2>2
<1>5. Ownership'
  BY Zenon DEF SelectionTyped, JobTyped, Frameworks, Natives, Settled,
       HermesSelected, Live, Selections, ReceiverRecorded, AwaitsMatch,
       GatewayRecorded, StartupAlone, LoneProcess
<1>. QED BY <1>1, <1>2, <1>3, <1>4, <1>5

(* The Computer reboots.                                                    *)
LEMMA RebootKeeps ==
  ASSUME IInv, Reboot
  PROVE  IInv'
<1>. USE DEF Reboot
<1>1. SelectionTyped'
  BY Zenon DEF SelectionTyped, JobTyped, Settled, HermesSelected, Frameworks,
       Natives, Statuses, Selected
<1>2. ReceiverTyped'
  BY Zenon DEF ReceiverTyped, AwaitsMatch, Natives, Live
<1>3. GatewayTyped'
  BY Zenon DEF GatewayTyped
<1>4. JobTyped' /\ JobAwaits'
  <2>1. JobTyped'
    BY JobNames, Zenon DEF JobTyped, Awaits
  <2>2. JobAwaits'
    BY JobNames, Zenon DEF JobTyped, JobAwaits
  <2>. QED BY <2>1, <2>2
<1>5. Ownership'
  BY Zenon DEF SelectionTyped, JobTyped, Frameworks, Natives, Settled,
       HermesSelected, Live, Selections, ReceiverRecorded, AwaitsMatch,
       GatewayRecorded, StartupAlone, LoneProcess
<1>. QED BY <1>1, <1>2, <1>3, <1>4, <1>5

-----------------------------------------------------------------------------
(* The specification                                                        *)

(* At the start Hermes is active and nothing runs.                          *)
LEMMA InitInv == Init => IInv
  BY ControlAssumption, Zenon
     DEF Init, SelectionTyped, ReceiverTyped, GatewayTyped, JobTyped, JobAwaits,
         Frameworks, Statuses, Awaits, Natives, ReceiverRecorded, AwaitsMatch,
         GatewayRecorded, StartupAlone, LoneProcess, HermesSelected, Live, Selections

(* No step of the system breaks IInv.                                       *)
LEMMA StepKeeps ==
  ASSUME IInv, [Next]_vars
  PROVE  IInv'

<1>1. CASE Receivers
  BY <1>1, SpawnLocksKeeps, SpawnDiesKeeps, ReceiverGoneKeeps, IntakeKeeps,
       WorkSettlesKeeps, SlotFreedKeeps
       DEF Receivers, ReceiverLeaves
<1>2. CASE Steps
  BY <1>2, SwitchKeeps, ProbeKeeps, ReplaceKeeps, ReplacedKeeps, PollKeeps,
       GivesUpKeeps, RunGatewayKeeps, CliFailsKeeps, ResumeReceiverKeeps,
       DrainFailsKeeps, DrainReceiverKeeps, ReleaseReceiverKeeps,
       ReceiverReleasedKeeps, StopGatewayKeeps, UninstallGatewayKeeps,
       HaltReceiverKeeps, ReceiverHaltedKeeps, StopHermesKeeps, FreezeKeeps,
       RefuseKeeps, LayDownKeeps, LaidDownKeeps
       DEF Steps
<1>3. CASE Begins
  BY <1>3, CommandBeginsKeeps, EmailBeginsKeeps, ParkBeginsKeeps,
       ReconcileBeginsKeeps, CommandArrivesKeeps, StartupBeginsKeeps,
       StartupEndsKeeps, PlatformMovesKeeps
       DEF Begins
<1>4. CASE Faults
  BY <1>4, ReceiverGoneKeeps, GatewayDiesKeeps, ControlRestartsKeeps, RebootKeeps
       DEF Faults, ReceiverCrash
<1>5. CASE UNCHANGED vars
  <2>. USE <1>5 DEF vars
  <2>1. SelectionTyped' /\ ReceiverTyped' /\ GatewayTyped' /\ JobTyped' /\ JobAwaits'
    <3>1. SelectionTyped' /\ GatewayTyped'
      BY Zenon DEF SelectionTyped, GatewayTyped
    <3>2. ReceiverTyped'
      BY Zenon DEF ReceiverTyped
    <3>3. JobTyped' /\ JobAwaits'
      BY Zenon DEF JobTyped, JobAwaits
    <3>. QED BY <3>1, <3>2, <3>3
  <2>2. Ownership'
    BY Zenon DEF ReceiverRecorded, AwaitsMatch, GatewayRecorded, StartupAlone,
         LoneProcess, HermesSelected, Live
  <2>. QED BY <2>1, <2>2
<1>. QED BY <1>1, <1>2, <1>3, <1>4, <1>5 DEF Next

(* Only the two commits of a handover change the framework that is active.   *)
LEMMA OnlyHandovers ==
  ASSUME [Next]_vars, ~ReceiverReleased, ~UninstallGateway
  PROVE  active' = active
<1>1. CASE Receivers
  BY <1>1, Zenon DEF Receivers, SpawnLocks, SpawnDies, ReceiverGone, Intake,
       WorkSettles, SlotFreed, ReceiverLeaves
<1>2. CASE Steps
  <2>1. CASE Switch
    BY <2>1, Zenon DEF Switch, Goal, Activate, Raise, Finish
  <2>2. CASE Probe
    BY <2>2, Zenon DEF Probe, Spawn, Wanted, Started, Activate, Return, Raise,
       Finish, Await
  <2>3. CASE Replace
    BY <2>3, Zenon DEF Replace, Stop, Spawn, Wanted, Raise, Finish, Await
  <2>4. CASE Replaced
    BY <2>4, Zenon DEF Replaced, Spawn, Wanted, Await
  <2>5. CASE Poll
    BY <2>5, Zenon DEF Poll, Started, Activate, Return, Finish, Await
  <2>6. CASE GivesUp
    BY <2>6, Zenon DEF GivesUp, Raise, Finish
  <2>7. CASE RunGateway
    BY <2>7, Zenon DEF RunGateway, Activate, Return, Finish
  <2>8. CASE CliFails
    BY <2>8, Zenon DEF CliFails, Raise, Finish
  <2>9. CASE ResumeReceiver
    BY <2>9, Zenon DEF ResumeReceiver, Activate, Raise, Finish
  <2>10. CASE DrainFails
    BY <2>10, Zenon DEF DrainFails, Wanted, Raise, Finish
  <2>11. CASE DrainReceiver
    BY <2>11, Zenon DEF DrainReceiver, Return, Raise, Finish, Await
  <2>12. CASE ReleaseReceiver
    BY <2>12, Zenon DEF ReleaseReceiver, Stop, Raise, Finish, Await
  <2>13. CASE StopGateway
    BY <2>13, Zenon DEF StopGateway, Await
  <2>14. CASE HaltReceiver
    BY <2>14, Zenon DEF HaltReceiver, Return, Finish, Await
  <2>15. CASE ReceiverHalted
    BY <2>15, Zenon DEF ReceiverHalted, Return, Finish, Await
  <2>16. CASE StopHermes
    BY <2>16, Zenon DEF StopHermes, Return, Finish
  <2>17. CASE Freeze
    BY <2>17, Zenon DEF Freeze, Raise, Finish, Await
  <2>18. CASE Refuse
    BY <2>18, Zenon DEF Refuse, Raise, Finish
  <2>19. CASE LayDown
    BY <2>19, Zenon DEF LayDown, Stop, Raise, Finish, Await
  <2>20. CASE LaidDown
    BY <2>20, Zenon DEF LaidDown, Raise, Finish, Await
  <2>. QED BY <1>2, <2>1, <2>2, <2>3, <2>4, <2>5, <2>6, <2>7, <2>8, <2>9, <2>10,
       <2>11, <2>12, <2>13, <2>14, <2>15, <2>16, <2>17, <2>18, <2>19, <2>20
       DEF Steps
<1>3. CASE Begins
  <2>1. CASE CommandBegins
    BY <2>1, Zenon DEF CommandBegins, RequestSwitch, Suspend, RestartHermes,
       Configure, Begin, OverAtOnce, HermesSelected
  <2>2. CASE EmailBegins
    BY <2>2, Zenon DEF EmailBegins, Configure, Begin
  <2>3. CASE ParkBegins
    BY <2>3, Zenon DEF ParkBegins, Suspend, Begin
  <2>4. CASE ReconcileBegins
    BY <2>4, Zenon DEF ReconcileBegins, RequestSwitch, Settled, Begin, OverAtOnce
  <2>5. CASE \E c \in Commands : CommandArrives(c)
    BY <2>5, Zenon DEF CommandArrives
  <2>6. CASE StartupBegins
    BY <2>6, Zenon DEF StartupBegins
  <2>7. CASE StartupEnds
    BY <2>7, Zenon DEF StartupEnds
  <2>8. CASE PlatformMoves
    BY <2>8, Zenon DEF PlatformMoves
  <2>. QED BY <1>3, <2>1, <2>2, <2>3, <2>4, <2>5, <2>6, <2>7, <2>8
       DEF Begins
<1>4. CASE Faults
  BY <1>4, Zenon DEF Faults, ReceiverGone, GatewayDies, ControlRestarts, Reboot,
       ReceiverCrash
<1>5. CASE UNCHANGED vars
  BY <1>5 DEF vars
<1>. QED BY <1>1, <1>2, <1>3, <1>4, <1>5 DEF Next

(* IInv holds in every reachable state, whichever commands the platform sends. *)
THEOREM Invariance == Spec => []IInv
<1>1. Init => IInv
  BY InitInv
<1>2. IInv /\ [Next]_vars => IInv'
  BY StepKeeps
<1>. QED BY <1>1, <1>2, PTL DEF Spec

(* Every variable keeps its type; a job stands at an await exactly while it holds *)
(* configuration_lock, and a job that is a command is the command task's.    *)
THEOREM TypeCorrect == Spec => []TypeOK
<1>1. IInv => TypeOK
  BY Zenon
<1>. QED BY <1>1, Invariance, PTL

(* Ownership leaves a native framework only when its committed work is done    *)
(* (control.reconcile: drain, stop, wait for the socket).                    *)
THEOREM WorkIsFinished == Spec => HandoverWaits
<1>1. ASSUME IInv, [Next]_vars, active' # active, active \in Natives
      PROVE  ~busy /\ ~Live
  <2>1. active # "hermes"
    BY <1>1 DEF Natives
  <2>2. ~UninstallGateway
    BY <1>1, <2>1, Zenon DEF AwaitsMatch, UninstallGateway
  <2>3. CASE ReceiverReleased
    BY <1>1, <2>3, Zenon DEF AwaitsMatch, ReceiverReleased
  <2>4. CASE ~ReceiverReleased
    BY <1>1, <2>2, <2>4, OnlyHandovers
  <2>. QED BY <2>3, <2>4
<1>2. IInv /\ [Next]_vars =>
        [active' # active /\ active \in Natives => ~busy /\ ~Live]_vars
  BY <1>1
<1>. QED BY <1>2, Invariance, PTL DEF Spec, HandoverWaits

(* The gateway and a native receiver never serve the channels together,       *)
(* whatever fails or restarts, unless the gateway was started by the command   *)
(* that does not ask for the mode (control.py).                              *)
THEOREM ExclusiveReceiver == Spec => []OneReceiver
<1>1. IInv => OneReceiver
  BY Zenon DEF OneReceiver, ReceiverRecorded, GatewayRecorded, ReceiverTyped, Natives,
       Live
<1>. QED BY <1>1, Invariance, PTL

(* Every native receiver, running or on its way, is of the framework on record, *)
(* so that a restarted control process supervises it (control.reconcile).    *)
THEOREM RecordedReceiver == Spec => []ReceiverRecorded
<1>1. IInv => ReceiverRecorded
  BY Zenon
<1>. QED BY <1>1, Invariance, PTL

(* A gateway that a reboot would bring back is installed only while Hermes is *)
(* active, or since it was started unasked (control.reconcile).              *)
THEOREM GatewayStaysAway == Spec => []NoReturningGateway
<1>1. IInv => NoReturningGateway
  BY Zenon DEF NoReturningGateway, GatewayRecorded
<1>. QED BY <1>1, Invariance, PTL

=============================================================================
