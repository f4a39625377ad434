---------------------------- MODULE UpdateNotices ----------------------------
(***************************************************************************)
(* check_and_stage_updates from the platform's side: one command brings    *)
(* the runtime and the Tinyhat plugin to the exact targets the platform    *)
(* selects, the owner is told by Telegram at most MaxAttempts times, and   *)
(* what has not been settled yet is remembered in two files, the markers,  *)
(* until the platform accepts a result that settles it.  A report once a   *)
(* day tells the platform that something is still open.                    *)
(*                                                                         *)
(* Requests and answers may be lost, a command is repeated until its       *)
(* result is accepted, Telegram may fail or deliver without saying so,     *)
(* files may refuse to be written, and the process may die between any two *)
(* steps.  How a staged release is activated is RuntimeUpdate; here the    *)
(* next start does it in one step or fails.                                *)
(***************************************************************************)
EXTENDS Integers, FiniteSets

CONSTANTS
  Releases,     \* exact runtime targets, ordered as their numbers are
  Plugins,      \* exact plugin targets
  Installed,    \* what the Computer was installed with
  MaxAttempts,  \* MAX_RUNTIME_NOTICE_ATTEMPTS = MAX_PLUGIN_NOTICE_ATTEMPTS
  MaxFaults,    \* bound: deaths of the process, and steps of it that fail
  MaxMoves,     \* bound: times the platform selects other targets
  MaxAdmin      \* bound: update_tinyhat_plugin commands of an operator

ASSUME TargetsAssumption ==
  /\ Releases \subseteq Nat \ {0} /\ Releases # {}
  /\ Plugins # {} /\ Plugins \cap Int = {}
  /\ Installed \in [ref : Releases, plug : Plugins]
ASSUME LimitsAssumption ==
  /\ MaxAttempts \in Nat \ {0}
  /\ MaxFaults \in Nat /\ MaxMoves \in Nat /\ MaxAdmin \in Nat

VARIABLES
  onDisk,      \* the release the current records name
  staged,      \* the staged release
  activation,  \* the release written into ACTIVATE_ON_RESTART
  plugin,      \* the commit the installed plugin proves, or Partial: files without proof
  marker,      \* pending_runtime_notice.json and pending_plugin_repair.json
  pc,          \* where the process and its command stand
  job,         \* the locals of the command under way
  restart,     \* restart_requested
  targets,     \* the exact targets the platform selects
  command,     \* the command the platform offers with every heartbeat
  hint,        \* what it concludes from reports: is a command due, and for a recovery?
  accepted,    \* the target of the settled notice it accepted, by kind
  covered,     \* the release announced by a plugin notice or by an accepted one
  sends,       \* messages handed to Telegram since the marker was recorded, by kind
  told,        \* did Telegram confirm one of them?
  owed,        \* did the command change the plugin since a plugin notice was last accepted?
  faults, moves, admin

disk     == <<onDisk, staged, activation, plugin>>
process  == <<pc, job, restart>>
platform == <<targets, command, hint>>
history  == <<accepted, covered, sends, told, owed>>
counts   == <<faults, moves, admin>>
vars     == <<disk, marker, process, platform, history, counts>>

None    == 0
Partial == -1   \* a plugin directory without the commit it came from
Unseen  == -2   \* discovery could not read the plugin directory
Kinds   == {"runtime", "plugin"}

NoMarker == [state |-> "none", target |-> None, attempts |-> 0, sent |-> FALSE]
Marker(state, target) == [state |-> state, target |-> target, attempts |-> 0, sent |-> FALSE]

Markers(k) ==
  {NoMarker} \union
  [state    : IF k = "runtime" THEN {"unacknowledged"} ELSE {"repair", "unacknowledged"},
   target   : IF k = "runtime" THEN Releases ELSE Plugins,
   attempts : 0..MaxAttempts,
   sent     : BOOLEAN]

Commands == [ref : Releases, plug : Plugins, recovery : BOOLEAN]
NoCommand == [ref |-> None, plug |-> None, recovery |-> FALSE]

(* What a report lets the platform conclude: that a command is due, and one that recovers. *)
Hints  == [ask : BOOLEAN, recovery : BOOLEAN]
NoHint == [ask |-> FALSE, recovery |-> FALSE]

NoJob == [spec |-> NoCommand, live |-> FALSE, available |-> FALSE, pending |-> FALSE,
          staging |-> "none", before |-> Unseen, outdated |-> "no", repair |-> FALSE,
          rerror |-> FALSE, perror |-> FALSE, changed |-> FALSE, code |-> FALSE,
          promoted |-> FALSE, requested |-> FALSE, created |-> FALSE,
          kind |-> "none", settled |-> FALSE]

Jobs == [spec : Commands \union {NoCommand}, live : BOOLEAN, available : BOOLEAN,
         pending : BOOLEAN, staging : {"none", "now", "already"},
         before : Plugins \union {Partial, Unseen}, outdated : {"yes", "no", "unknown"},
         repair : BOOLEAN, rerror : BOOLEAN, perror : BOOLEAN, changed : BOOLEAN,
         code : BOOLEAN, promoted : BOOLEAN, requested : BOOLEAN, created : BOOLEAN,
         kind : Kinds \union {"none"}, settled : BOOLEAN]

Steps == {"off", "idle", "stage", "recover", "install", "metadata", "enable", "record",
          "reserve_runtime", "activate", "notice", "send", "outcome", "finish", "post", "ack"}

TypeOK ==
  /\ onDisk \in Releases /\ {staged, activation} \subseteq Releases \union {None}
  /\ plugin \in Plugins \union {Partial}
  /\ \A k \in Kinds : marker[k] \in Markers(k)
  /\ pc \in Steps /\ job \in Jobs /\ restart \in BOOLEAN
  /\ targets \in [ref : Releases, plug : Plugins]
  /\ command \in Commands \union {NoCommand}
  /\ {hint} \subseteq Hints
  /\ sends \in [Kinds -> 0..MaxAttempts]

Init ==
  /\ onDisk = Installed.ref /\ staged = None /\ activation = None /\ plugin = Installed.plug
  /\ marker = [k \in Kinds |-> NoMarker]
  /\ pc = "idle" /\ job = NoJob /\ restart = FALSE
  /\ targets = Installed /\ command = NoCommand /\ hint = NoHint
  /\ accepted = [k \in Kinds |-> None] /\ covered = None /\ sends = [k \in Kinds |-> 0]
  /\ told = [k \in Kinds |-> FALSE] /\ owed = FALSE
  /\ faults = 0 /\ moves = 0 /\ admin = 0

(* An operation that may raise. *)
Try(ok) ==
  /\ ok \/ faults < MaxFaults
  /\ faults' = IF ok THEN faults ELSE faults + 1
  /\ UNCHANGED <<moves, admin>>

(* The marker of kind k names exactly this target. *)
Names(k, target) == marker[k].state # "none" /\ marker[k].target = target

(* A marker recorded afresh is an obligation of its own. *)
Record(k, m) ==
  /\ marker' = [marker EXCEPT ![k] = m]
  /\ sends' = [sends EXCEPT ![k] = 0]
  /\ told' = [told EXCEPT ![k] = FALSE]
  /\ accepted' = [accepted EXCEPT ![k] = None]
Keep == UNCHANGED <<marker, sends, told, accepted>>

-----------------------------------------------------------------------------
(* The platform.  It is external: what the code does with its answers shows what it may say. *)

(* A channel advances: the targets it selects are newer. *)
PlatformMoves(v, p) ==
  /\ moves < MaxMoves
  /\ v >= targets.ref
  /\ targets' = [ref |-> v, plug |-> p] /\ targets' # targets
  /\ hint' = [hint EXCEPT !.ask = TRUE]
  /\ moves' = moves + 1
  /\ UNCHANGED <<disk, marker, process, command, history, faults, admin>>

(* It queues a command for its current targets, unless that very command waits already; the
   result of the one it replaces will be ignored. *)
Dispatch ==
  /\ hint.ask
  /\ \/ command = NoCommand
     \/ [ref |-> command.ref, plug |-> command.plug] # targets
     \/ hint.recovery /\ ~command.recovery
  /\ command' = [ref |-> targets.ref, plug |-> targets.plug, recovery |-> hint.recovery]
  /\ hint' = NoHint
  /\ job' = [job EXCEPT !.live = FALSE]
  /\ UNCHANGED <<disk, marker, pc, restart, targets, history, counts>>

-----------------------------------------------------------------------------
(* The process. *)

(* Startup activates what is staged, or fails and leaves everything for the next start. *)
Start ==
  /\ pc = "off"
  /\ \E ok \in BOOLEAN :
       IF activation # None /\ staged # None
       THEN /\ Try(ok)
            /\ onDisk' = IF ok THEN staged ELSE onDisk
            /\ staged' = IF ok THEN None ELSE staged
            /\ activation' = IF ok THEN None ELSE activation
            /\ covered' = IF ok THEN None ELSE covered
       ELSE /\ ok /\ activation' = None /\ UNCHANGED <<onDisk, staged, covered, counts>>
  /\ pc' = "idle"
  /\ UNCHANGED <<plugin, marker, job, restart, platform, accepted, sends, told, owed>>

(* The main loop leaves when a restart is requested and no command is running; the check under
   way is cancelled. *)
ExitForRestart ==
  /\ pc = "idle" /\ restart
  /\ pc' = "off" /\ restart' = FALSE
  /\ UNCHANGED <<disk, marker, job, platform, history, counts>>

Crash ==
  /\ pc # "off" /\ Try(FALSE)
  /\ pc' = "off" /\ job' = NoJob /\ restart' = FALSE
  /\ UNCHANGED <<disk, marker, platform, history>>

(* An operator's update_tinyhat_plugin: it keeps no marker. *)
UpdateTinyhatPlugin(p) ==
  /\ pc = "idle" /\ admin < MaxAdmin
  /\ plugin' = p /\ plugin # p
  /\ admin' = admin + 1
  /\ UNCHANGED <<onDisk, staged, activation, marker, process, platform, history,
                 faults, moves>>

(* Is the plugin another than the command's target?  Unknown when the target did not resolve. *)
Outdated(resolved) ==
  IF ~resolved THEN "unknown" ELSE IF plugin = command.plug THEN "no" ELSE "yes"

(* A target that cannot be resolved still leaves a snapshot of what is installed, unless that
   cannot be read either. *)
Snapshots(resolved) == IF resolved THEN {plugin} ELSE {plugin, Unseen}

(* A heartbeat brings the command: its targets are compared with what is installed. *)
Discover ==
  /\ pc = "idle" /\ command # NoCommand
  /\ \E ok \in BOOLEAN :
       /\ Try(ok)
       /\ \E seen \in Snapshots(ok) :
            job' = [NoJob EXCEPT !.spec = command, !.live = TRUE,
                                 !.available = command.ref > onDisk,
                                 !.pending = activation = command.ref,
                                 !.before = seen, !.outdated = Outdated(ok)]
  /\ pc' = "stage"
  /\ UNCHANGED <<disk, marker, restart, platform, history>>

Stage ==
  /\ pc = "stage"
  /\ \E ok \in BOOLEAN :
       IF job.available /\ staged # job.spec.ref
       THEN /\ Try(ok)
            /\ staged' = IF ok THEN job.spec.ref ELSE staged
            /\ job' = [job EXCEPT !.rerror = ~ok, !.staging = IF ok THEN "now" ELSE "none"]
       ELSE /\ ok
            /\ job' = [job EXCEPT !.staging = IF job.available THEN "already" ELSE "none"]
            /\ UNCHANGED <<staged, counts>>
  /\ pc' = "recover"
  /\ UNCHANGED <<onDisk, activation, plugin, marker, restart, platform, history>>

-----------------------------------------------------------------------------
(* The plugin. *)

Plug    == marker["plugin"]
Repairs == Plug.state = "repair" /\ Plug.target = job.spec.plug
Settles == Plug.state = "unacknowledged" /\ Plug.target = job.spec.plug
Proven  == job.before = job.spec.plug

(* Mutant of OlderRepair: a repair of an earlier target is left to the command for that target. *)
ForgetsOlderRepair == FALSE

(* An older repair is repaired at the current target. *)
OlderRepair == job.spec.recovery /\ Plug.state = "repair" /\ ~Repairs
(* An older notice is replaced by one for the target that is installed already. *)
Promotes == job.spec.recovery /\ Plug.state = "unacknowledged" /\ ~Settles /\ Proven
(* The marker says installed, the directory says otherwise. *)
Gone == Settles /\ job.before # Unseen /\ ~Proven

(* Mutant of NeedsRepairMarker: the installer runs on the strength of discovery alone. *)
NeverMarksRepair == FALSE

(* The repair is on record before the installer touches the plugin. *)
NeedsRepairMarker == ~Repairs

(* What the markers ask for: settle an earlier installation, replace an obligation that the
   disk has overtaken, or (re)install, with a repair marker written first. *)
Recover ==
  /\ pc = "recover"
  /\ \E ok \in BOOLEAN :
       IF Promotes
       THEN /\ Try(ok)
            /\ IF ok THEN Record("plugin", Marker("unacknowledged", job.spec.plug)) ELSE Keep
            /\ job' = [job EXCEPT !.promoted = ok, !.changed = ok, !.perror = ~ok]
            /\ pc' = "record"
       ELSE IF (Settles /\ ~Gone) \/ job.outdated = "unknown"
                \/ ~(job.outdated = "yes" \/ Repairs \/ OlderRepair \/ Gone)
       THEN /\ ok /\ Keep /\ UNCHANGED counts
            /\ job' = [job EXCEPT !.changed = Settles /\ ~Gone,
                                  !.perror = job.outdated = "unknown" /\ ~(Settles /\ ~Gone)]
            /\ pc' = "record"
       ELSE /\ job' = [job EXCEPT !.repair = Repairs \/ OlderRepair \/ Gone, !.perror = ~ok]
            /\ pc' = IF ok THEN "install" ELSE "record"
            /\ IF NeedsRepairMarker
               THEN /\ Try(ok)
                    /\ IF ok THEN Record("plugin", Marker("repair", job.spec.plug)) ELSE Keep
               ELSE ok /\ Keep /\ UNCHANGED counts
  /\ UNCHANGED <<disk, restart, platform, covered, owed>>

(* The command goes on without the plugin: what the failed installer left still counts as a
   change of this command when the exact target landed. *)
PluginFails(left) ==
  LET landed == left = job.spec.plug /\ ~Proven
  IN  /\ job' = [job EXCEPT !.perror = TRUE, !.changed = landed, !.code = landed]
      /\ pc' = "record"

(* Files and proof are those of the target: only enable it again. *)
AlreadyInstalled ==
  /\ plugin = job.spec.plug
  /\ pc' = "enable" /\ UNCHANGED <<plugin, job, owed, counts>>

(* The target was fetched and its files are in place, not yet their proof. *)
ReplaceFiles ==
  /\ plugin # job.spec.plug
  /\ plugin' = Partial /\ owed' = TRUE
  /\ job' = [job EXCEPT !.code = TRUE]
  /\ pc' = "metadata" /\ UNCHANGED counts

(* The exact commit cannot be fetched, or the CLI refuses it. *)
FetchFails == Try(FALSE) /\ PluginFails(plugin) /\ UNCHANGED <<plugin, owed>>

(* update_tinyhat_plugin. *)
Install ==
  /\ pc = "install"
  /\ AlreadyInstalled \/ ReplaceFiles \/ FetchFails
  /\ UNCHANGED <<onDisk, staged, activation, marker, restart, platform, accepted, covered,
                 sends, told>>

WriteMetadata ==
  /\ pc = "metadata"
  /\ \E ok \in BOOLEAN :
       /\ Try(ok)
       /\ IF ok THEN plugin' = job.spec.plug /\ pc' = "enable" /\ UNCHANGED job
                ELSE PluginFails(plugin) /\ UNCHANGED plugin
  /\ UNCHANGED <<onDisk, staged, activation, marker, restart, platform, history>>

(* The plugin is enabled and the repair becomes an obligation to tell the owner. *)
EndInstall ==
  /\ pc = "enable"
  /\ \E ok \in BOOLEAN :
       /\ Try(ok)
       /\ IF ok
          THEN /\ Record("plugin", Marker("unacknowledged", job.spec.plug))
               /\ job' = [job EXCEPT !.changed = job.code \/ job.repair \/ job.outdated = "yes"]
               /\ pc' = "record"
          ELSE PluginFails(plugin) /\ Keep
  /\ UNCHANGED <<disk, restart, platform, covered, owed>>

-----------------------------------------------------------------------------
(* The runtime's own activation and the notice that goes before it. *)

Ref         == job.spec.ref
Current     == ~job.available /\ Ref = onDisk
PluginOwns  == job.changed /\ ~job.perror
StagedHere  == job.available /\ job.staging # "none"
Overtaken   == marker["runtime"].state # "none" /\ ~Names("runtime", Ref)

(* Does the command record an obligation for its target?  An older one is replaced when the
   disk has overtaken it; a new one goes before the marker that makes the release activatable. *)
RecordsRuntime ==
  /\ ~job.rerror /\ ~job.pending /\ ~Names("runtime", Ref)
  /\ (Overtaken /\ Current) \/ (~PluginOwns /\ StagedHere)

RecordRuntimeNotice ==
  /\ pc = "record"
  /\ \E ok \in BOOLEAN :
       IF RecordsRuntime
       THEN /\ Try(ok)
            /\ IF ok THEN Record("runtime", Marker("unacknowledged", Ref)) ELSE Keep
            /\ job' = [job EXCEPT !.rerror = ~ok]
       ELSE ok /\ Keep /\ UNCHANGED <<job, counts>>
  /\ pc' = "activate"
  /\ UNCHANGED <<disk, restart, platform, covered, owed>>

ReadyToActivate == ~job.rerror /\ (job.pending \/ StagedHere)

RequestActivation ==
  /\ pc = "activate"
  /\ \E ok \in BOOLEAN :
       IF ReadyToActivate /\ ~job.pending
       THEN /\ Try(ok)
            /\ activation' = IF ok THEN Ref ELSE activation
            /\ covered' = IF ok /\ PluginOwns THEN Ref ELSE covered
            /\ job' = [job EXCEPT !.rerror = ~ok, !.requested = ok, !.created = ok]
       ELSE /\ ok /\ UNCHANGED <<activation, covered, counts>>
            /\ job' = [job EXCEPT !.requested = ReadyToActivate]
  /\ pc' = "notice"
  /\ UNCHANGED <<onDisk, staged, plugin, marker, restart, platform, accepted, sends, told,
                 owed>>

-----------------------------------------------------------------------------
(* Notices. *)

RuntimeChanged == ~job.rerror /\ (job.staging = "now" \/ job.requested)

AnnouncesActivation ==
  ~job.rerror /\ job.requested /\ (job.staging = "now" \/ job.created) /\ Names("runtime", Ref)
ReplaysNotice == ~job.rerror /\ ~job.requested /\ Names("runtime", Ref) /\ Current

NoticeKind ==
  IF PluginOwns THEN "plugin"
  ELSE IF AnnouncesActivation \/ ReplaysNotice THEN "runtime" ELSE "none"

Exhausted(k) == marker[k].attempts >= MaxAttempts

(* Mutant of Reserve: the attempt is not counted before the message goes out. *)
ReserveNothing(k) == marker' = marker

(* The attempt is counted before the message goes out: a crash after it costs one try. *)
Reserve(k) ==
  marker' = [marker EXCEPT ![k].attempts = @ + 1, ![k].sent = FALSE]

(* Nothing to tell, a stored outcome told once more to the platform only, or one more try. *)
BeginNotice ==
  /\ pc = "notice"
  /\ LET k == NoticeKind
     IN  \/ /\ k = "none"
            /\ pc' = "finish" /\ UNCHANGED <<marker, job, counts>>
         \/ /\ k # "none" /\ (marker[k].sent \/ Exhausted(k))
            /\ job' = [job EXCEPT !.kind = k, !.settled = TRUE]
            /\ pc' = "finish" /\ UNCHANGED <<marker, counts>>
         \/ /\ k # "none" /\ ~marker[k].sent /\ ~Exhausted(k)
            /\ job' = [job EXCEPT !.kind = k]
            /\ \E ok \in BOOLEAN :
                 /\ Try(ok)
                 /\ IF ok THEN Reserve(k) ELSE UNCHANGED marker
                 /\ pc' = IF ok THEN "send" ELSE "finish"
  /\ UNCHANGED <<disk, restart, platform, history>>

(* Telegram confirms the message, or does not: whether the owner got it is then unknown. *)
SendNotice ==
  /\ pc = "send"
  /\ sends' = [sends EXCEPT ![job.kind] = @ + 1]
  /\ \E confirmed \in BOOLEAN :
       /\ told' = [told EXCEPT ![job.kind] = @ \/ confirmed]
       /\ job' = [job EXCEPT !.settled = confirmed \/ Exhausted(job.kind)]
       /\ pc' = IF confirmed THEN "outcome" ELSE "finish"
  /\ UNCHANGED <<disk, marker, restart, platform, accepted, covered, owed,
                 counts>>

(* The outcome is recorded if the file can be written; a failure leaves what Reserve wrote. *)
RecordOutcome ==
  /\ pc = "outcome"
  /\ \E ok \in BOOLEAN :
       /\ Try(ok)
       /\ marker' = IF ok THEN [marker EXCEPT ![job.kind].sent = TRUE] ELSE marker
  /\ pc' = "finish"
  /\ UNCHANGED <<disk, job, restart, platform, history>>

(* A change asks for a restart of the runtime, a replayed notice does not. *)
FinishCommand ==
  /\ pc = "finish"
  /\ restart' = (restart \/ RuntimeChanged \/ job.code \/ job.promoted)
  /\ pc' = "post"
  /\ UNCHANGED <<disk, marker, job, platform, history, counts>>

-----------------------------------------------------------------------------
(* The result of the command and its acknowledgement. *)

Target(k) == IF k = "runtime" THEN job.spec.ref ELSE job.spec.plug

EndCommand == pc' = "idle" /\ job' = NoJob

(* The platform takes the result of the command it still offers and ignores any other. *)
Accept ==
  IF job.live
  THEN /\ command' = NoCommand
       /\ accepted' = [k \in Kinds |-> IF k = job.kind /\ job.settled THEN Target(k)
                                       ELSE accepted[k]]
       /\ covered' = IF job.kind = "runtime" /\ job.settled THEN job.spec.ref ELSE covered
       /\ owed' = (owed /\ ~(job.kind = "plugin" /\ job.settled))
  ELSE UNCHANGED <<command, accepted, covered, owed>>

(* Mutant of Acknowledges: an ignored result settles the notice as well. *)
AcknowledgesIgnored == job.settled

(* acknowledge_check_and_stage_result goes on only when the answer says "not ignored" and the
   result carries a settled notice. *)
Acknowledges == job.live /\ job.settled

(* The result arrives and so does the answer. *)
PostAnswered ==
  /\ pc = "post"
  /\ Accept
  /\ IF Acknowledges THEN pc' = "ack" /\ UNCHANGED job ELSE EndCommand
  /\ UNCHANGED <<disk, marker, restart, targets, hint, sends, told, counts>>

(* The request is lost, or only its answer: the command ends all the same. *)
PostUnanswered ==
  /\ pc = "post"
  /\ Accept \/ UNCHANGED <<command, accepted, covered, owed>>
  /\ EndCommand
  /\ UNCHANGED <<disk, marker, restart, targets, hint, sends, told, counts>>

(* The file goes if it still names what the command settled. *)
Acknowledge ==
  /\ pc = "ack"
  /\ \E ok \in BOOLEAN :
       /\ Try(ok)
       /\ IF ok /\ Names(job.kind, Target(job.kind)) /\ marker[job.kind].state = "unacknowledged"
          THEN Record(job.kind, NoMarker) ELSE Keep
  /\ EndCommand
  /\ UNCHANGED <<disk, restart, platform, covered, owed>>

-----------------------------------------------------------------------------
(* The daily report; ScheduledCheck has its delivery in detail.  The platform may act on it much
   later, when what it said is long settled. *)
Report ==
  /\ pc # "off"
  /\ \E k \in Kinds : marker[k].state # "none" \/ onDisk # targets.ref \/ plugin # targets.plug
  /\ hint' = [ask |-> TRUE, recovery |-> Plug.state # "none"]
  /\ hint' # hint
  /\ UNCHANGED <<disk, marker, process, targets, command, history, counts>>

-----------------------------------------------------------------------------
Installing == Install \/ WriteMetadata \/ EndInstall
Notifying  == BeginNotice \/ SendNotice \/ RecordOutcome

Command ==
  \/ Discover \/ Stage \/ Recover \/ Installing \/ RecordRuntimeNotice \/ RequestActivation
  \/ Notifying \/ FinishCommand

Next ==
  \/ \E v \in Releases, p \in Plugins : PlatformMoves(v, p)
  \/ \E p \in Plugins : UpdateTinyhatPlugin(p)
  \/ Dispatch \/ Start \/ ExitForRestart \/ Crash
  \/ Command \/ PostAnswered \/ PostUnanswered \/ Acknowledge
  \/ Report

(* systemd starts the process again, its steps end, days pass, and a request repeated for ever
   is answered in the end.  A restart requested while commands keep coming finds a moment
   between two of them. *)
Fairness ==
  /\ WF_vars(Start) /\ SF_vars(ExitForRestart)
  /\ WF_vars(Command) /\ WF_vars(PostAnswered \/ PostUnanswered) /\ SF_vars(PostAnswered)
  /\ WF_vars(Acknowledge)
  /\ SF_vars(Report) /\ WF_vars(Dispatch)

Spec == Init /\ [][Next]_vars /\ Fairness

-----------------------------------------------------------------------------
(* The owner hears of one update at most MaxAttempts times, whatever is repeated, lost or cut
   off: every message was counted in the marker before it went out. *)
BoundedNotices ==
  \A k \in Kinds :
    /\ sends[k] <= MaxAttempts
    /\ marker[k].state # "none" => sends[k] <= marker[k].attempts

(* The command never changes the plugin, nor makes a release activatable, behind the owner's
   back: until the platform has accepted a settled notice the marker is there to ask for one.
   A plugin notice stands for the runtime updated beside it. *)
UpdateRemembered ==
  /\ owed => Plug.state # "none"
  /\ activation # None /\ activation = staged => Names("runtime", staged) \/ covered = staged

(* A marker goes only after the platform accepted a result that settles exactly its target,
   and then Telegram has confirmed a message or all attempts are spent. *)
SettlementAccepted ==
  [][\A k \in Kinds :
       marker[k].state # "none" /\ marker'[k].state = "none" =>
         /\ accepted[k] = marker[k].target
         /\ told[k] \/ marker[k].attempts = MaxAttempts]_vars

(* Whatever was interrupted, no obligation stays open for ever: the daily report brings the
   command back until it is settled. *)
ObligationsSettle ==
  \A k \in Kinds : marker[k].state # "none" ~> marker[k].state = "none"
=============================================================================
