--------------------------- MODULE ChannelControl ---------------------------
(***************************************************************************)
(* Which receiver owns the channels of a Computer: the Hermes gateway or a   *)
(* native receiver of one framework (hermes_runtime/channel_agent/control.py *)
(* and its callers).                                                         *)
(*                                                                          *)
(* The control process (main.py) keeps the selection in mode.json.  Under    *)
(* one asyncio lock (configuration_lock) it runs one job at a time: a        *)
(* platform command, the supervision of the receiver (reconcile) or the      *)
(* email set-up.  A job awaits the native receiver's socket or the Hermes    *)
(* CLI between its steps.  The native receiver is a detached process that    *)
(* outlives the control process; ChannelReceiver models it in detail.        *)
(***************************************************************************)
EXTENDS FiniteSets, Naturals

CONSTANTS
  Commands      \* commands the platform sends

Natives == {"codex", "claude_code"}
Frameworks == Natives \cup {"hermes"}

Selections == {"channels_use_hermes", "channels_use_codex", "channels_use_claude_code"}
Selected(c) ==
  IF c = "channels_use_hermes" THEN "hermes"
  ELSE IF c = "channels_use_codex" THEN "codex" ELSE "claude_code"

\* heal_hermes stands for the commands run_command refuses while a native framework
\* is selected, import_legacy_tinyhat_secrets for those that restart the gateway
\* without being asked for the mode.
ASSUME ControlAssumption ==
  Commands \subseteq
    Selections \cup {"stop_hermes", "start_hermes", "heal_hermes", "apply_config",
                     "import_legacy_tinyhat_secrets"}

VARIABLES
  \* mode.json
  active,    \* the framework that owns the channels
  desired,   \* the framework selected last
  status,
  rearm,     \* a receiver parked for its assignment is started when it returns
  \* the detached native receiver
  spawned,   \* processes on their way to receiver.lock; of two of one framework
             \* the one that comes second is taken to exit as it finds the lock held
  receiver,  \* framework of the process that holds the lock and the socket
  leaving,   \* its shutdown is set
  draining,  \* its intake is stopped
  busy,      \* queued rows, or tasks that are queued, running or waiting
  held,      \* a worker whose task has settled still has its key
  stale,     \* it runs the code of an earlier runtime version
  \* the Hermes gateway
  gateway,   \* "up" or "down"
  service,   \* its service is installed: it returns on a reboot
  unasked,   \* history: it was started beside a native framework by a command that did not ask
  \* the control process
  job,       \* holder of configuration_lock
  pc,        \* the await it stands at
  then,      \* what the job does once start_native returns
  command,   \* the command task, waiting for the lock or holding it
  startup,   \* the one-shot bring-up of the gateway, which takes no lock
  platform   \* state in the last heartbeat response

modeVars     == <<active, desired, status, rearm>>
receiverVars == <<spawned, receiver, leaving, draining, busy, held, stale>>
gatewayVars  == <<gateway, service, unasked>>
jobVars      == <<job, pc, then, command>>
vars == <<modeVars, receiverVars, gatewayVars, jobVars, startup, platform>>

Statuses == {"running", "starting", "switching", "suspended", "failed"}
Awaits   == {"idle", "preflight", "probe", "replace", "replaced", "poll", "resume", "drain",
             "release", "released", "stop gateway", "uninstall gateway",
             "run gateway", "halt", "halted", "stop hermes",
             "freeze", "refuse", "lay down", "laid down"}

SelectionTyped ==
  /\ active \in Frameworks /\ desired \in Frameworks
  /\ status \in Statuses /\ rearm \in BOOLEAN
ReceiverTyped ==
  /\ spawned \subseteq Natives /\ receiver \in Natives \cup {"none"}
  /\ leaving \in BOOLEAN /\ draining \in BOOLEAN /\ busy \in BOOLEAN
  /\ held \in BOOLEAN /\ stale \in BOOLEAN
GatewayTyped ==
  /\ gateway \in {"up", "down"} /\ service \in BOOLEAN /\ unasked \in BOOLEAN
  /\ startup \in {"pending", "running", "over"} /\ platform \in {"assigned", "parked"}
JobTyped ==
  /\ job \in Commands \cup {"none", "reconcile", "park", "email"}
  /\ pc \in Awaits
  /\ then \in {"return", "keep", "resume", "handover", "activate"}
  /\ command \in Commands \cup {"none"}
JobAwaits == (job = "none" <=> pc = "idle") /\ (job \in Commands => command = job)
TypeOK == SelectionTyped /\ ReceiverTyped /\ GatewayTyped /\ JobTyped /\ JobAwaits

Live == receiver # "none"

Init ==
  /\ active = "hermes" /\ desired = "hermes" /\ status = "running" /\ rearm = FALSE
  /\ spawned = {} /\ receiver = "none"
  /\ leaving = FALSE /\ draining = FALSE /\ busy = FALSE /\ held = FALSE /\ stale = FALSE
  /\ gateway = "down" /\ service = FALSE /\ unasked = FALSE
  /\ job = "none" /\ pc = "idle" /\ then = "return" /\ command = "none"
  /\ startup = "pending"
  /\ platform = "assigned"

-----------------------------------------------------------------------------
(* The receivers                                                           *)

\* service.run: the lock is free, or the process exits at once.
SpawnLocks(f) ==
  /\ f \in spawned
  /\ spawned' = spawned \ {f}
  /\ IF Live
     THEN UNCHANGED <<receiver, leaving, draining, held, stale>>
     ELSE /\ receiver' = f
          /\ leaving' = FALSE /\ draining' = FALSE /\ held' = FALSE /\ stale' = FALSE
  /\ UNCHANGED <<modeVars, busy, gatewayVars, jobVars, startup, platform>>

SpawnDies(f) ==
  /\ f \in spawned
  /\ spawned' = spawned \ {f}
  /\ UNCHANGED <<modeVars, receiver, leaving, draining, busy, held, stale, gatewayVars,
                 jobVars, startup, platform>>

\* The receiver ends because it was told to, or it crashes; its inbox is on disk.
ReceiverGone ==
  /\ Live
  /\ receiver' = "none"
  /\ leaving' = FALSE /\ draining' = FALSE /\ held' = FALSE /\ stale' = FALSE
  /\ UNCHANGED <<modeVars, spawned, busy, gatewayVars, jobVars, startup, platform>>

ReceiverLeaves == leaving /\ ReceiverGone
ReceiverCrash  == ~leaving /\ ReceiverGone

Intake ==
  /\ Live /\ ~draining /\ ~leaving
  /\ busy' = TRUE
  /\ UNCHANGED <<modeVars, spawned, receiver, leaving, draining, held, stale, gatewayVars,
                 jobVars, startup, platform>>

\* The last turn has settled its row and its task, and awaits stop_typing.
WorkSettles ==
  /\ Live /\ busy
  /\ busy' = FALSE /\ held' = TRUE
  /\ UNCHANGED <<modeVars, spawned, receiver, leaving, draining, stale, gatewayVars,
                 jobVars, startup, platform>>

SlotFreed ==
  /\ held
  /\ held' = FALSE
  /\ UNCHANGED <<modeVars, spawned, receiver, leaving, draining, busy, stale, gatewayVars,
                 jobVars, startup, platform>>

GatewayDies ==
  /\ gateway = "up"
  /\ gateway' = "down"
  /\ UNCHANGED <<modeVars, receiverVars, service, unasked, jobVars, startup, platform>>

-----------------------------------------------------------------------------
(* Jobs: what they share                                                    *)

\* What is saved as the selection replaces the whole record.
Select(f, s) == active' = f /\ desired' = f /\ status' = s /\ rearm' = FALSE
Mark(s) == status' = s /\ UNCHANGED <<active, desired, rearm>>

Finish ==
  /\ job' = "none" /\ pc' = "idle" /\ then' = "return"
  /\ command' = IF job = command THEN "none" ELSE command
Return == Finish /\ UNCHANGED modeVars
Activate == Finish /\ Select(active, "running")
\* schedule() marks what reconcile raises; a command reports it to the platform.
Raise ==
  /\ Finish
  /\ IF job = "reconcile" THEN Mark("failed") ELSE UNCHANGED modeVars
Await(step) == pc' = step /\ UNCHANGED <<modeVars, job, then, command>>

\* The framework that start_native starts.
Wanted == active

\* start_native returned to its caller; the caller goes on without an await.
Started ==
  \/ then = "return" /\ Return
  \/ then = "keep" /\ (Return \/ (~draining /\ Activate))
  \/ then = "resume" /\ IF stale THEN Return ELSE Await("resume")
  \/ then = "handover" /\ Await("drain")
  \/ then = "activate" /\ Activate

Spawn ==
  /\ spawned' = spawned \cup {Wanted}
  /\ Await("poll")
  /\ UNCHANGED <<receiver, leaving, draining, busy, held, stale>>

\* start_native asks for the status, which a live receiver answers in time; one of
\* an earlier runtime is drained.
Probe ==
  /\ pc = "probe"
  /\ \/ ~Live /\ Spawn
     \/ Live /\ receiver # Wanted /\ Raise /\ UNCHANGED receiverVars
     \/ receiver = Wanted /\ ~stale /\ Started /\ UNCHANGED receiverVars
     \/ /\ receiver = Wanted /\ stale
        /\ draining' = TRUE
        /\ IF busy THEN Started ELSE Await("replace")
        /\ UNCHANGED <<spawned, receiver, leaving, busy, held, stale>>
  /\ UNCHANGED <<gatewayVars, startup, platform>>

\* The receiver's answer to "stop": refused while it holds work.
Stop(next) ==
  \/ /\ Live /\ ~busy /\ ~held
     /\ leaving' = TRUE
     /\ Await(next)
     /\ UNCHANGED <<spawned, receiver, draining, busy, held, stale>>
  \/ /\ Live /\ (busy \/ held)
     /\ Raise
     /\ UNCHANGED receiverVars

Replace ==
  /\ pc = "replace"
  /\ Stop("replaced") \/ (~Live /\ Spawn)
  /\ UNCHANGED <<gatewayVars, startup, platform>>

Replaced ==
  /\ pc = "replaced"
  /\ ~Live
  /\ Spawn
  /\ UNCHANGED <<gatewayVars, startup, platform>>

\* The new receiver has its channels.
Poll ==
  /\ pc = "poll"
  /\ Live /\ ~draining
  /\ Started
  /\ UNCHANGED <<receiverVars, gatewayVars, startup, platform>>

\* A bounded wait is over: for the receiver to go, or for the new one to be ready.
GivesUp ==
  /\ \/ pc \in {"replaced", "released", "halted", "laid down"} /\ Live
     \/ pc = "poll"
  /\ Raise
  /\ UNCHANGED <<receiverVars, gatewayVars, startup, platform>>

\* The drain is answered by an error, or not within 45 s: the listeners are stopped
\* all the same.  start_native takes the timeout for a receiver that has gone, and the
\* process it spawns then exits as it finds the lock held.
DrainFails ==
  /\ pc \in {"drain", "freeze"} \/ (pc = "probe" /\ receiver = Wanted /\ stale)
  /\ Live
  /\ draining' = TRUE
  /\ Raise
  /\ UNCHANGED <<spawned, receiver, leaving, busy, held, stale, gatewayVars, startup,
                 platform>>

\* `hermes gateway` stop, start and, if need be, install
RunGateway ==
  /\ pc = "run gateway"
  /\ gateway' = "up" /\ service' = TRUE
  /\ unasked' = (active # "hermes" /\ job = "import_legacy_tinyhat_secrets")
  /\ IF then = "activate" THEN Activate ELSE Return
  /\ UNCHANGED <<receiverVars, startup, platform>>

\* The Hermes CLI fails, or does not confirm what it was asked for.
CliFails ==
  /\ pc \in {"stop gateway", "uninstall gateway", "run gateway"}
  /\ gateway' \in {gateway, "down"}
  /\ Raise
  /\ UNCHANGED <<receiverVars, service, unasked, startup, platform>>

-----------------------------------------------------------------------------
(* Commands and supervision                                                 *)

\* A job begins when the lock is free and stops at an await, or is over at once.
Begin(name, step, after) == job' = name /\ pc' = step /\ then' = after
OverAtOnce(name) ==
  /\ UNCHANGED <<job, pc, then>>
  /\ command' = IF name = command THEN "none" ELSE command

\* request_switch awaits the preflight of the framework unless the bring-up of the
\* gateway is under way.
RequestSwitch(name) ==
  IF startup = "running"
  THEN /\ OverAtOnce(name)
       /\ IF name = "reconcile" THEN Mark("failed") ELSE UNCHANGED modeVars
  ELSE Begin(name, "preflight", "return") /\ UNCHANGED <<modeVars, command>>

\* suspend: the selection is fenced before the receiver is told to halt.
Suspend(name, again) ==
  /\ desired' = active /\ status' = "suspended" /\ rearm' = again /\ UNCHANGED active
  /\ Begin(name, IF active = "hermes" THEN "stop hermes" ELSE "halt", "return")
  /\ UNCHANGED command

\* apply_config, and the email set-up that runs without a command
Configure(name) ==
  /\ Begin(name, IF active = "hermes" THEN "run gateway" ELSE "freeze", "return")
  /\ UNCHANGED <<modeVars, command>>

RestartHermes(name, after) ==
  /\ Begin(name, "run gateway", after)
  /\ UNCHANGED <<modeVars, command>>

HermesSelected == active = "hermes" /\ desired = "hermes"

\* run_command, once the command task has the lock
CommandBegins ==
  /\ job = "none" /\ command # "none"
  /\ \/ command \in Selections /\ RequestSwitch(command)
     \/ command = "stop_hermes" /\ Suspend(command, FALSE)
     \/ /\ command = "start_hermes"
        /\ IF active \in Natives THEN RequestSwitch(command)
           ELSE IF HermesSelected THEN RestartHermes(command, "activate")
           ELSE OverAtOnce(command) /\ UNCHANGED modeVars
     \/ /\ command \in {"heal_hermes", "import_legacy_tinyhat_secrets"}
        /\ IF command = "heal_hermes" => HermesSelected
           THEN RestartHermes(command, "return")
           ELSE OverAtOnce(command) /\ UNCHANGED modeVars
     \/ command = "apply_config" /\ Configure(command)
  /\ UNCHANGED <<receiverVars, gatewayVars, startup, platform>>

EmailBegins ==
  /\ job = "none"
  /\ Configure("email")
  /\ UNCHANGED <<receiverVars, gatewayVars, startup, platform>>

\* schedule: an unassigned Computer parks its native receiver.
ParkBegins ==
  /\ job = "none" /\ platform = "parked"
  /\ active \in Natives
  /\ Suspend("park", TRUE)
  /\ UNCHANGED <<receiverVars, gatewayVars, startup, platform>>

\* schedule: reconcile, up to its first await
Settled == active = desired
ReconcileBegins ==
  /\ job = "none" /\ platform = "assigned"
  /\ \/ /\ Settled
        /\ \/ status = "suspended" /\ rearm
           \/ HermesSelected /\ status \in {"failed", "starting"}
        /\ RequestSwitch("reconcile")
     \/ /\ Settled /\ status # "suspended" /\ active \in Natives
        /\ Begin("reconcile", "probe", "keep")
        /\ UNCHANGED <<modeVars, command>>
     \/ /\ ~Settled
        /\ IF active \in Natives
           THEN Begin("reconcile", "probe", "handover")
           ELSE Begin("reconcile", "stop gateway", "handover")
        /\ UNCHANGED <<modeVars, command>>
     \/ /\ ~Settled                              \* the preflight of the target fails
        /\ status # "failed"
        /\ Mark("failed")
        /\ UNCHANGED jobVars
  /\ UNCHANGED <<receiverVars, gatewayVars, startup, platform>>

-----------------------------------------------------------------------------
(* Steps of the jobs                                                        *)

\* The framework request_switch was called with.
Goal == IF job \in Selections THEN Selected(job) ELSE active

\* request_switch, after the preflight: start the framework that is active already,
\* or leave the handover to reconcile.
Switch ==
  /\ pc = "preflight"
  /\ \/ /\ Goal = active
        /\ IF Goal = "hermes" /\ status \notin {"failed", "starting", "suspended"}
           THEN Activate
           ELSE /\ pc' = IF Goal = "hermes" THEN "run gateway" ELSE "probe"
                /\ then' = IF Goal = "hermes" THEN "activate" ELSE "resume"
                /\ UNCHANGED <<modeVars, job, command>>
     \/ /\ Goal # active
        /\ desired' = Goal /\ status' = "switching" /\ UNCHANGED <<active, rearm>>
        /\ Finish
     \/ Raise
  /\ UNCHANGED <<receiverVars, gatewayVars, startup, platform>>

\* request_switch: a receiver that was drained takes up its intake again.
ResumeReceiver ==
  /\ pc = "resume"
  /\ \/ Live /\ draining' = FALSE /\ Activate
     \/ ~Live /\ UNCHANGED draining /\ Raise
  /\ UNCHANGED <<spawned, receiver, leaving, busy, held, stale, gatewayVars, startup,
                 platform>>

\* Mutants of DrainReceiver: it halts the receiver; it reopens the intake while there
\* is work.
DrainByHalting ==
  /\ pc = "drain"
  /\ \/ Live /\ leaving' = TRUE /\ Await("released")
     \/ ~Live /\ UNCHANGED leaving /\ Raise
  /\ UNCHANGED <<spawned, receiver, draining, busy, held, stale, gatewayVars, startup,
                 platform>>

DrainAndReopen ==
  /\ pc = "drain"
  /\ \/ Live /\ draining' = ~busy /\ (IF busy THEN Return ELSE Await("release"))
     \/ ~Live /\ UNCHANGED draining /\ Raise
  /\ UNCHANGED <<spawned, receiver, leaving, busy, held, stale, gatewayVars, startup,
                 platform>>

\* reconcile: drain, then stop, then wait for the socket to go away
DrainReceiver ==
  /\ pc = "drain"
  /\ \/ Live /\ draining' = TRUE /\ (IF busy THEN Return ELSE Await("release"))
     \/ ~Live /\ UNCHANGED draining /\ Raise
  /\ UNCHANGED <<spawned, receiver, leaving, busy, held, stale, gatewayVars, startup,
                 platform>>

ReleaseReceiver ==
  /\ pc = "release"
  /\ Stop("released") \/ (~Live /\ Raise /\ UNCHANGED receiverVars)
  /\ UNCHANGED <<gatewayVars, startup, platform>>

\* The selection is committed before the next receiver is started.
Commit ==
  /\ Select(desired, "starting")
  /\ pc' = IF desired = "hermes" THEN "run gateway" ELSE "probe"
  /\ then' = "activate"
  /\ UNCHANGED <<job, command>>

\* Mutant of ReceiverReleased: it does not wait for the socket.
ReleasedAtOnce ==
  /\ pc = "released"
  /\ Commit
  /\ UNCHANGED <<receiverVars, gatewayVars, startup, platform>>

ReceiverReleased ==
  /\ pc = "released"
  /\ ~Live
  /\ Commit
  /\ UNCHANGED <<receiverVars, gatewayVars, startup, platform>>

\* `hermes gateway stop`, then a status that must confirm it
StopGateway ==
  /\ pc = "stop gateway"
  /\ gateway' = "down"
  /\ Await("uninstall gateway")
  /\ UNCHANGED <<receiverVars, service, unasked, startup, platform>>

\* Mutant of UninstallGateway: the stopped gateway stays enabled.
LeaveGatewayEnabled ==
  /\ pc = "uninstall gateway"
  /\ Commit
  /\ UNCHANGED <<receiverVars, gatewayVars, startup, platform>>

UninstallGateway ==
  /\ pc = "uninstall gateway"
  /\ service' = FALSE /\ unasked' = FALSE
  /\ Commit
  /\ UNCHANGED <<receiverVars, gateway, startup, platform>>

\* suspend: no socket means no receiver.
HaltReceiver ==
  /\ pc = "halt"
  /\ IF Live
     THEN leaving' = TRUE /\ Await("halted")
     ELSE /\ UNCHANGED leaving
          /\ IF job = "stop_hermes" THEN Await("stop hermes") ELSE Return
  /\ UNCHANGED <<spawned, receiver, draining, busy, held, stale, gatewayVars, startup,
                 platform>>

ReceiverHalted ==
  /\ pc = "halted"
  /\ ~Live
  /\ IF job = "stop_hermes" THEN Await("stop hermes") ELSE Return
  /\ UNCHANGED <<receiverVars, gatewayVars, startup, platform>>

\* The command stop_hermes itself, after run_command has suspended the selection.
StopHermes ==
  /\ pc = "stop hermes"
  /\ gateway' \in {gateway, "down"}
  /\ Return
  /\ UNCHANGED <<receiverVars, service, unasked, startup, platform>>

\* stop_for_configuration
Freeze ==
  /\ pc = "freeze"
  /\ \/ Live /\ draining' = TRUE /\ Await(IF busy THEN "refuse" ELSE "lay down")
     \/ ~Live /\ UNCHANGED draining /\ Await("laid down")
  /\ UNCHANGED <<spawned, receiver, leaving, busy, held, stale, gatewayVars, startup,
                 platform>>

Refuse ==
  /\ pc = "refuse"
  /\ draining' = (draining /\ ~Live)
  /\ Raise
  /\ UNCHANGED <<spawned, receiver, leaving, busy, held, stale, gatewayVars, startup,
                 platform>>

LayDown ==
  /\ pc = "lay down"
  /\ Stop("laid down") \/ (~Live /\ Raise /\ UNCHANGED receiverVars)
  /\ UNCHANGED <<gatewayVars, startup, platform>>

\* The credentials are written, which may fail, and the receiver is started again.
LaidDown ==
  /\ pc = "laid down"
  /\ ~Live
  /\ Await("probe") \/ Raise
  /\ UNCHANGED <<receiverVars, gatewayVars, startup, platform>>

-----------------------------------------------------------------------------
(* The control process                                                      *)

\* _maybe_start_command: one command task at a time
CommandArrives(c) ==
  /\ command = "none"
  /\ command' = c
  /\ UNCHANGED <<modeVars, receiverVars, gatewayVars, job, pc, then, startup, platform>>

PlatformMoves ==
  /\ platform' \in {"assigned", "parked"} \ {platform}
  /\ UNCHANGED <<modeVars, receiverVars, gatewayVars, jobVars, startup>>

\* Mutant of StartupBegins: it does not look at the command task.
StartupBesideCommand ==
  /\ startup = "pending"
  /\ HermesSelected
  /\ platform = "assigned"
  /\ startup' = "running"
  /\ UNCHANGED <<modeVars, receiverVars, gatewayVars, jobVars, platform>>

\* _maybe_start_gateway_reconcile
StartupBegins ==
  /\ startup = "pending"
  /\ HermesSelected
  /\ command = "none"
  /\ platform = "assigned"
  /\ startup' = "running"
  /\ UNCHANGED <<modeVars, receiverVars, gatewayVars, jobVars, platform>>

\* heal_hermes restarts the gateway, and installs its service if need be.
StartupEnds ==
  /\ startup = "running"
  /\ startup' = "over"
  /\ \/ gateway' = "up" /\ service' = TRUE
     \/ gateway' \in {gateway, "down"} /\ UNCHANGED service
  /\ UNCHANGED <<modeVars, receiverVars, unasked, jobVars, platform>>

\* The control process ends, for an update or by a crash, and is started again.
\* What is detached, or belongs to the Hermes service, goes on.
ControlRestarts ==
  /\ job' = "none" /\ pc' = "idle" /\ then' = "return" /\ command' = "none"
  /\ startup' = "pending"
  /\ stale' \in {stale, Live}
  /\ UNCHANGED <<modeVars, spawned, receiver, leaving, draining, busy, held, gatewayVars,
                 platform>>

\* Only an installed service returns by itself.
Reboot ==
  /\ spawned' = {} /\ receiver' = "none"
  /\ leaving' = FALSE /\ draining' = FALSE /\ held' = FALSE /\ stale' = FALSE
  /\ gateway' = IF service THEN "up" ELSE "down"
  /\ job' = "none" /\ pc' = "idle" /\ then' = "return" /\ command' = "none"
  /\ startup' = "pending"
  /\ UNCHANGED <<modeVars, busy, service, unasked, platform>>

-----------------------------------------------------------------------------

Receivers ==
  \/ \E f \in Natives : SpawnLocks(f) \/ SpawnDies(f)
  \/ ReceiverLeaves \/ Intake \/ WorkSettles \/ SlotFreed

Steps ==
  \/ Switch \/ Probe \/ Replace \/ Replaced \/ Poll \/ GivesUp \/ ResumeReceiver
  \/ DrainFails \/ RunGateway \/ CliFails
  \/ DrainReceiver \/ ReleaseReceiver \/ ReceiverReleased
  \/ StopGateway \/ UninstallGateway
  \/ HaltReceiver \/ ReceiverHalted \/ StopHermes
  \/ Freeze \/ Refuse \/ LayDown \/ LaidDown

Begins ==
  \/ CommandBegins \/ EmailBegins \/ ParkBegins \/ ReconcileBegins
  \/ \E c \in Commands : CommandArrives(c)
  \/ StartupBegins \/ StartupEnds \/ PlatformMoves

Faults == ReceiverCrash \/ GatewayDies \/ ControlRestarts \/ Reboot

Next == Receivers \/ Steps \/ Begins \/ Faults

Spec == Init /\ [][Next]_vars

-----------------------------------------------------------------------------
(* Safety                                                                   *)

(* The Hermes gateway and a native receiver never serve the channels at the  *)
(* same time, over handovers, failures, restarts of the control process and  *)
(* reboots ("exclusive receiver supervision", control.py).  The exception    *)
(* lasts from the one command that restarts the gateway without asking for   *)
(* the mode until the gateway is uninstalled, or started as the owner.       *)
OneReceiver == gateway = "up" /\ Live => unasked

(* The claim without the exception.                                          *)
GatewayAlone == ~(gateway = "up" /\ Live)

(* A native receiver is of the framework recorded as active, so that a        *)
(* control process that restarts finds and supervises it.                    *)
ReceiverRecorded == spawned \cup ({receiver} \ {"none"}) \subseteq {active}

(* A gateway that returns on the next reboot never belongs to a Computer     *)
(* whose native framework is active (reconcile uninstalls it), unless it was *)
(* started unasked.                                                          *)
NoReturningGateway == service => active = "hermes" \/ unasked

(* Ownership leaves a native framework only when its committed work is done. *)
HandoverWaits ==
  [][active' # active /\ active \in Natives => ~busy /\ ~Live]_vars

-----------------------------------------------------------------------------
(* The inductive invariant behind them (proved in ChannelControl_proofs)    *)

(* A job that manages a native receiver runs while one is active, a job that *)
(* manages the gateway while Hermes is, and the last step before a commit    *)
(* finds nothing that could still come up.                                   *)
AwaitsMatch ==
  /\ pc \in {"probe", "replace", "replaced", "poll", "resume", "drain", "release",
            "released", "freeze", "refuse", "lay down", "laid down"} =>
       active \in Natives
  /\ pc \in {"stop gateway", "uninstall gateway"} => active = "hermes"
  /\ pc = "run gateway" => active = "hermes" \/ job = "import_legacy_tinyhat_secrets"
  /\ pc \in {"stop gateway", "uninstall gateway"} => desired \in Natives
  /\ pc = "uninstall gateway" => gateway = "down"
  /\ pc = "released" => spawned = {} /\ ~busy /\ (Live => leaving)

(* The gateway runs, or may return, only while Hermes is active, unless it   *)
(* was started unasked.                                                      *)
GatewayRecorded == gateway = "up" \/ service => active = "hermes" \/ unasked

(* The bring-up of the gateway is not overtaken by a selection.              *)
StartupAlone ==
  startup = "running" => /\ HermesSelected
                         /\ ~(pc = "preflight" /\ job \in Selections)

(* No process is on its way to a lock that is held.                          *)
LoneProcess == Live => spawned = {}

IInv ==
  /\ TypeOK /\ ReceiverRecorded /\ AwaitsMatch /\ GatewayRecorded /\ StartupAlone
  /\ LoneProcess

-----------------------------------------------------------------------------
(* Liveness                                                                  *)

\* Bounded waits (rpc 45 s, 40 probes, CLI timeouts) end every await of a job; a turn
\* ends, and a receiver leaves once told to.  What may fail does not fail for ever:
\* SF of the outcomes that go on.
Fairness ==
  /\ WF_vars(Steps) /\ SF_vars(CommandBegins) /\ WF_vars(StartupEnds)
  /\ WF_vars(WorkSettles) /\ WF_vars(SlotFreed) /\ WF_vars(ReceiverLeaves)
  /\ SF_vars(\E f \in Natives : SpawnLocks(f)) /\ SF_vars(Poll)
  /\ SF_vars(Probe) /\ SF_vars(DrainReceiver)
  /\ SF_vars(pc = "released" /\ ReceiverLeaves)
  /\ SF_vars(ReconcileBegins /\ job' = "reconcile")
  /\ SF_vars(RunGateway) /\ SF_vars(StopGateway) /\ SF_vars(UninstallGateway)

\* Nothing crashes, the Computer stays assigned, and no credentials change.
CalmNext ==
  \/ Receivers \/ Steps
  \/ CommandBegins \/ ReconcileBegins \/ StartupBegins \/ StartupEnds
  \/ \E c \in Commands : CommandArrives(c)

CalmSpec == Init /\ [][CalmNext]_vars /\ Fairness

(* A selection the owner made is carried out or replaced by another one: no   *)
(* failure of a step, and no turn in progress, blocks the handover for ever. *)
SwitchSettles == ~Settled ~> Settled

(* A receiver whose intake was stopped is stopped, replaced or resumed: "The  *)
(* normal supervisor retries activation if applying credentials fails"       *)
(* (apply_config.py).                                                        *)
IntakeRestored == draining ~> ~draining

=============================================================================
