# TLA+ models of the Tinyhat Hermes runtime

This directory models the concurrent and the interruptible parts of `hermes_runtime`, checks the models
with TLC and proves the safety properties of all of them with TLAPS. Every definition is translated from
the source; `PROJECT.json` maps each of them to the lines it stands for, lists the hazards of the code and
the findings.

## The system

A *Computer* runs one control process (`hermes_runtime/main.py`). Every few seconds it posts a heartbeat
to the platform; the answer carries the state of the assignment and at most one command. Channels
(Telegram, Slack, e-mail) are served either by the Hermes gateway, an external service driven through its
CLI, or by a *native receiver*: a detached process that runs Codex or Claude Code turns.

| Component | State | Operations | Hard parts |
| --- | --- | --- | --- |
| Channel receiver (`channel_agent/service.py`, `state.py`, `native.py`) | SQLite tables `events`, `tasks`, `approvals`, `actions`, `settings`; `workers`, `draining`, `shutdown` in memory | ingest, route, work, approve, stop a task, drain, resume, stop, halt, recover | coroutines of one loop interleave at every await; cancellation at any await; crash between two transactions |
| Channel control (`channel_agent/control.py`, `configure.py`, `commands/channel_agent.py`, `commands/__init__.py`) | `mode.json`; the configuration lock; spawned processes | select, hand over, start and replace a receiver, park, change credentials | the receiver outlives the control process; every step may fail or be cut off by a restart or a reboot |
| Transports (`transports.py`) | provider cursors, sockets, status leases | receive, acknowledge, send, typing feedback | repeated delivery, uncertain sends |
| Heartbeat and command loop (`main.py`, `local_ledger.py`, `client.py`) | command task, update check task, `restart_requested` | run a command, report it, restart | the report may be lost after the effect |
| Update pipeline (`update_artifacts.py`, `stage_update`, `activate_update`, bootstrap) | staged package, `staged/VERSION`, marker, installed package and its `.next`/`.previous`, `current/*` | stage, activate, swap, recover | power loss between any two file operations |
| Combined update and plugin (`update_orchestrator.py`, `*_settlement.py`, `plugin_manager.py`) | recovery and notice markers | check and stage, send notices, acknowledge | lost results, repeated commands, targets that advance |
| Gateway (`gateway_service.py`, `gateway_readiness.py`, `heal_hermes`, `start_hermes`, `stop_hermes`) | the gateway's service and process generation | start, restart with evidence, stop | deadlines, fallbacks, evidence of an older generation |
| Channel credentials (`configure_channels.py`, `configure_telegram.py`) | installed credentials, applied markers, webhooks, restart notices | fence, snapshot, install, restart, verify, restore | failure in the middle, an owner that changes under it, one gateway for all providers |
| Hat repository (`hat_repository.py`, `github_credential_helper.py`) | a clone, its pending markers, a deletion journal, a lock file | checkout, sync, reset, delete_local | kill between any two steps, lost pushes and answers, directories swapped by others |
| Codex sign-in (`telegram_codex_auth.py`, `activate_codex_auth_models.py`) | a pid file, a start lock, a status file, two credential stores | start, worker, activate | processes that meet only in files; locks that age; reused process numbers |
| E-mail onboarding (`email_onboarding.py`) | fingerprint, attempts, backoff | configure, restart the gateway | bounded retries |
| Others | files | inventory, secrets, private access, installers | see `PROJECT.json` |

Interaction: jobs of the control process that touch a receiver hold one asyncio lock
(`configuration_lock`). They talk to the native receiver over a Unix socket (`rpc`) and to the gateway
through the Hermes CLI. The bring-up of the gateway after an assignment holds no lock. The native receiver
serves the socket from the same loop that runs its turns.

What makes the components correct:

* receiver: an update runs at most once, one at a time per task, at most two at once, only in the
  framework its task belongs to; crashes never replay a dispatched update; approvals are decided once and
  die with their turn; a drain ends; every queued update is eventually served;
* control: the gateway and a native receiver never serve together; a selection is carried out; committed
  work is finished before a handover; a suspended Computer starts nothing; intake that was stopped comes back;
* update pipeline: whatever crashes, the next start has a package to import; the records name what is
  installed; an activation that did not happen is reported and tried again;
* combined update: the owner hears of a change a bounded number of times, and no change is forgotten before
  the platform has accepted that it was told;
* gateway: only the condemned process is signalled, who stops the gateway starts it again, and "healed" and
  "ready" rest on evidence of the generation that serves;
* channel credentials: a success that a later restart ended is noticed; after a change of owner nothing runs
  on with the former owner's credentials; no provider starves behind one that fails;
* Hat repository: a pushed commit is recorded or still marked; only the validated directory is emptied;
  deletions and pending commits are finished however often they are cut off;
* Codex sign-in: "connected" is true of what the gateway uses, and no leftover refuses a sign-in for ever.

## Modules

| Module | Models |
| --- | --- |
| `TurnLedger` | what a receiver promises about updates: waiting, at most once running, settled for ever |
| `ChannelReceiver` | the receiver process with its inbox; implements `TurnLedger` (`ImplementsLedger`) |
| `ChannelControl` | selection, supervision, the receivers and the gateway it keeps apart |
| `AtomicUpdate` | what an update promises of the installed release, though many file operations replace it |
| `RuntimeUpdate` | staging, activation at startup and the package swap, step by step with crashes; implements `AtomicUpdate` (`ImplementsAtomicUpdate`) |
| `UpdateNotices` | the combined update seen from the platform: markers, notices, lost results, settlement |
| `GatewayHeal` | one heal of the gateway beside the bring-up, the probe and the gateway's supervisor |
| `ConfigureChannels` | the installation of chat providers on the one gateway they share |
| `HatRepository` | the clone of a Hat repository under interruptions and other processes |
| `CodexSignIn` | the sign-in started from Telegram: starters, workers, credential stores, gateway |
| `*_proofs` | TLAPS proofs about each of the eight components |
| `MC_*` | a small instance of each for TLC |

`ChannelControl` has an abstract receiver (framework, leaving, draining, busy, held, stale) where
`ChannelReceiver` has the detailed one; the guard of its `Stop` is the one of `ChannelReceiver!Stop`, with
`busy` for queued rows or unsettled tasks and `held` for a worker whose task has settled.

### ChannelReceiver

The process is one asyncio loop. `pc` is where its main loop stands: `rows` (inside a pass, nothing else
runs), `routing` (it awaits the router), `sleep` (between passes), `exit` (the `finally` block of `run`),
`down`. Every other coroutine takes its steps only while `pc` is one of the awaits (`Yielded`).

| Model | Code |
| --- | --- |
| `event`, `received`, `taskOf`, `attempts`, `resting` | columns of `events`; `resting` stands for `retry_at` in the future |
| `task`, `owner` | `status` and `framework` of `tasks` |
| `decision`, `asker` | `decision` and `task_id` of `approvals` |
| `worker[t]` | the entry of `t` in `self.workers` and how far its coroutine is |
| `Recover`, `Start` | `State.recover`, the head of `Service.run` |
| `BeginPass`, `ResumeRow`, `RouteBegin`, `Route*`, `EndPass` | the loop of `Service.run`, `Service.route`, `State.route`, `State.route_failed` |
| `WorkerBegins`, `TurnEnds`, `WorkerLeaves`, `Cancelled` | `Service.work` and its cancellation |
| `Ask`, `Approve`, `WaiterWakes` | `Service.approval`, `State.approve` |
| `Drain`, `IntakeStops`, `Resume`, `Stop`, `Halt` | `Service.connection` |
| `Crash`, `CrashAsWorkerBegins`, `CrashAsTurnEnds` | the process dies, also between two transactions of `Service.work` |

A cancellation meets a worker at one of its awaits (`Cancelled`): before its first step the coroutine never
runs and its key stays (`leaked`); in a native turn it unwinds; in the `finally` block the rest is skipped.
The poll of a Claude Code approval (`waiters`) outlives its turn, and so may that of a Codex approval which
arrives while `Codex.close` waits for its process (`TurnEnds` keeps some of them polling).
Messages, prompts and what a turn does are left out: a turn ends in one of three ways (`Ends`), and the
router's decision is any task the code would accept, a refusal or a failure.

### ChannelControl

`job` holds the configuration lock and `pc` names the await it stands at; `then` is what it does once
`start_native` returns. A step ends at the next await, so what the code does between two awaits is one
action. `Raise` is an exception: supervision records it as `failed`, a command reports it.
`ControlRestarts` and `Reboot` end the job at any await and leave what is detached, or on disk.
The commands stand for their kind: `heal_hermes` for those `run_command` refuses while a native framework
is selected, `import_legacy_tinyhat_secrets` for those that restart the gateway without asking. `unasked` is
history: the gateway that is up, or comes back on a reboot, was started by one of the latter.

Left out: a change of assignment (`bind`), the steps of `configure_native` between its stop and its start
(`apply_config` has the same shape), a preflight that fails after the reconcile took other steps (it comes
first), a CLI subprocess that outlives a killed control process. Two processes of one framework on their
way to `receiver.lock` count as one: the second exits as it finds the lock held.

### RuntimeUpdate

`pc` is the step the process stands at: `off`, the launcher (`boot`, `import`), the steps of an activation
(`Activating`), `serve`, and `deciding` in the middle of `check_and_stage_updates`, where the plugin update
is awaited. One action of a startup is one file operation.

| Model | Code |
| --- | --- |
| `package`, `next`, `previous`, `launcher` | `hermes_runtime` and its two neighbours, the bootstrap file |
| `version`, `commit`, `marker`, `failed` | `current/VERSION`, `current/COMMIT_SHA`, `ACTIVATE_ON_RESTART`, `updates/last_activation_error.json` |
| `staged` | `staged/runtime` (package and bootstrap), `staged/VERSION`, `staged/metadata.json` |
| `StageUpdate`, `ActivateUpdate`, `RestartRuntimeService` | the commands of an operator |
| `CheckAndStage`, `RequestActivation`, `FinishCheck` | `check_and_stage_updates` before and after the plugin update |
| `RestorePackage`, `BootRepair`, `ActivationRepair` | `recover_interrupted_package_swap`, in the bootstrap and in the activation |
| `CopyPackage` ... `InstallLauncher` | `activate_staged_runtime_code` |
| `RecordVersion` ... `EndActivation` | the rest of `activate_staged_on_startup`, and the re-execution |
| `Die`, `ActivationFails`, `CutOff` | a crash or an exception at any step, with what a cut write or copy leaves |

A release stands for its ref, its commit and its `__version__`, which the release process keeps in step.
`Partial` is a directory half copied or a file left empty, `Unfinished` what a staging that stopped half way
leaves. Commands other than `check_and_stage_updates` have no await that matters and are one action. Staging
is one action too, and a failure of it leaves the area in any state between its file operations
(`StagingCuts`): it removes the staged package first and writes its records last. `torn` is history: what is
installed came from such an area, or waits for one that is gone. The `.next` file of the bootstrap is left
out: every activation writes it before it is moved. The notices and the plugin are left out; a plugin that changed may ask for a restart,
and a notice that cannot be recorded stops an activation (`FinishCheck`).

### UpdateNotices

`pc` is the step of the one command under way, `job` its locals. The platform is part of the model: it
offers `check_and_stage_updates` with exact `targets` until it has accepted a result (`Report`), and takes a
daily report for a reason to offer it again (`Dispatch`). `marker` holds `pending_runtime_notice.json` and
`pending_plugin_repair.json`. `told`, `sends`, `owed`, `covered` and `accepted` are history: what Telegram
confirmed, what was handed to it, and what the platform took. The activation of a release is one step here
(it is `RuntimeUpdate` in detail), the readiness probe before a notice an outcome.

### GatewayHeal

A *generation* is one life of the gateway process. The model has the three owners of a gateway (a systemd
unit, another supervisor, nobody) and the paths of the heal for each: the official restart with its
fallbacks, the paired stop and start, the exact exit by signals through a pidfd, the foreground start.
`clock` keeps of the deadline what the code tells apart: ample, only the reserve left, over; it passes
(`Tick`) at any time, between a stop and the start that should follow it as well. `file` is
`gateway_state.json` with the process it names and the generation whose connection its row shows; `recent`
holds the generations that wrote a row or a line since the heal began, which is all that the code asks of a
unit's evidence (`Writers`). The bring-up and the heartbeat's probe run beside.

### ConfigureChannels

`pc` is the step of the command; a step ends at each question to the platform or to Telegram, at each
restart, and at each file. `todo` is the set of providers the command has not finished, taken in the order
of the platform's list (`Place`). `Holds`/`FenceFails` are `current()`; `Says`/`Lost`/`AckFails` are `acknowledge`
(taken, or failed with or without having been taken). `job` is the work on one provider: what it wrote, what
it must restore, whether it recovers, and whether the gateway it started was healthy.

| Model | Code |
| --- | --- |
| `mine`, `saved`, `status` | the platform's assignment, revisions and reported status |
| `installed`, `applied`, `files`, `webhook`, `notice` | values and marker of the adapter, Telegram's files, its webhook, the owner's restart notice |
| `gateway`, `loaded`, `link` | the one gateway, the credentials it read when it started, and what its status rows show while the command waits for them |
| `Snapshot` ... `Fenced` | the `try` block of the loop of `run` up to the restart |
| `Refresh`, `Demote`, `Refreshed` | `refresh_survivors` |
| `Stage`, `Cycle`, `Unstage`, `Thrown` | `_run_gateway_for_managed_setup`: the restart, and one that raises |
| `Report`, `Undo`, `Stage`, `Rehook` | its `except` block |
| `Ends`, `Stop` | the outer `except`: a rejected command that changed anything calls `stop_hermes` |

Nobody looks whether the stop of a restart worked: a generation it left running may be found healthy and is
then taken for the new one, with the credentials it has `loaded`. `link` is constant in a generation: it stands
for the evidence in the windows of twenty and five seconds.
The plugin's adapter (`capabilities/channels/runtime.py`) is outside the repository; it reads and writes what
its names say. Left out: providers this runtime does not know, which are only answered; `configure_telegram`,
which installs without a way back; spontaneous restarts of the gateway.

### HatRepository

`at` says which directory stands under each of the three names (the target, the staging name and the
quarantine), `tree` what is left of it; a commit is a number with its history in `past`. Each process first
asks the platform and then takes the lock (`Prepare`, `Acquire`); everything behind the lock is `pc` of its
holder. Kills, cancellations and swaps draw on `MaxCuts`, failed commands and lost answers on `MaxFaults`; a
push that failed, or was given up, may still arrive (`inflight`), also after the fetch that did not see it has
led to the reset of its commit (`undone`).

### CodexSignIn

Starters (`caller`) and workers (`worker`) are processes of their own that meet in files. A grant is a
number: the CLI and Hermes each get one of their own, a later one revokes the earlier. What the gateway
serves with (`served`) is what it read when it last started. `NumberTaken` gives the number in `worker.pid`
to another program, for as long as that one likes, and `Age` makes the start lock older than a minute.

## Runs

| Run | Shows | Bounds |
| --- | --- | --- |
| `receiver_turns` | safety of turns and the refinement of `TurnLedger` | 3 updates, 3 tasks, 2 workers, passes of 2 rows, 1 routing attempt, both frameworks, no approvals |
| `receiver_approvals` | decisions of approvals | 2 updates, 2 tasks, 2 requests, 1 pending at a time |
| `receiver_drain` | a drain ends, and every queued update leaves the queue (liveness) | 2 updates of which 1 may wait in the inbox, 2 tasks, 1 worker, passes of 1 row, 2 attempts, 1 request |
| `control_ownership` | exclusive receivers, records, handover waits | every kind of command, the unguarded import too, all faults |
| `control_switch` | a selection is carried out (liveness) | the three selections, no crashes |
| `update_activation` | the swap and its records over crashes, failures and operator commands, half stagings included; the refinement of `AtomicUpdate`; a selected release arrives (liveness) | 2 releases, one of them without a launcher, 2 crashes, 1 failure, 1 operator command |
| `update_notices` | bounded notices, nothing forgotten, settlement; every obligation settles (liveness) | 2 releases, 2 plugin commits, 2 attempts, 1 fault, 1 move of the targets, 1 operator command |
| `gateway_heal` | signals, evidence, paired stop; a heal ends (liveness) | 3 generations, 1 heal, 1 fault |
| `configure_channels` | stale success, change of owner; saved providers get an answer (liveness) | Telegram with 2 revisions, the second wrong, and Slack; 1 fault; 1 kill or change of owner |
| `hat_repository` | pushed commits, foreign directories; deletions and pending commits finish (liveness) | 2 processes, 2 clones, 2 commits, 1 fault, 1 cut |
| `codex_sign_in` | a truthful status; a start recovers (liveness) | a quick command and the runtime, 2 workers, 1 fault, 2 cuts: a killed worker whose number is used again is two |
| `receiver_zombie_status` | violation: the code does not keep a statement of its documentation (see *Findings*) | 1 update, 1 task, 1 request |

Three updates with two workers are the least at which a third turn could start while two run and at which
an update waits behind a busy task while another passes it; two tasks could not tell a lost slot from a
busy task. Both frameworks are needed for handovers. Approvals are independent of the number of updates
once two turns can hold one each. `ChannelControl` has no bounds but its set of commands: its state is
finite as it is. In `RuntimeUpdate` the second crash can meet the repair of the first, a failure
can leave a staging or an activation half done, and two releases are enough for a step forward and back; the
bounds count what goes wrong, never the daily command of the platform. Symmetry is used in runs without liveness only.

In `GatewayHeal` the third generation is the one that takes the place of a new one while it is verified. In
`ConfigureChannels` the provider that is wrong comes first, so that the one behind it can starve, and the
second is the survivor of its restarts; one fault can be the failure of the recovery of a wrong revision. In
`HatRepository` one cut interrupts an operation and the next call of the same process resumes it, the second
clone is the one that comes after a deletion, and two commits are a pending one and a foreign one. In
`CodexSignIn` two workers are the two that may overlap.

Deadlock is checked except in `update_notices` and in the runs of the gateway, the channel credentials and the
sign-in: these rest when the platform has nothing open, the heals are used up, the Computer belongs to someone else,
or the workers are used up.

### Fairness

`ChannelReceiver!Fairness`: the main loop steps weakly fairly. Coroutines get their steps only while the
main loop is suspended, but each pass ends in a sleep of one second, which lets every ready coroutine run:
strong fairness. Turns end (the native process has a timeout or the owner stops it), the router is bounded
by two minutes, thirty seconds of rest pass. `CalmSpec` adds that nobody presses Stop and nothing crashes:
a drain that is crashed starts anew.

`ChannelControl!Fairness`: each await of a job is bounded by a timeout, so a job steps weakly fairly;
supervision is scheduled on every heartbeat; what may fail does not fail for ever (strong fairness of the
outcomes that go on); the work of a receiver settles, which fails where an approval outlives its turn (the
finding of `receiver_zombie_status`). `CalmSpec` has no crashes, parking or credential changes.

`RuntimeUpdate!Fairness`: systemd restarts the process (`Restart=always`) and every step of a startup ends;
the platform repeats its command daily (weak fairness); the exit for a restart needs a moment without a
command, which comes again and again although each one may be missed (strong fairness). The model bounds
crashes, failures and operator commands: while they go on for ever nothing need arrive.

`UpdateNotices`: the process is restarted, a command that runs goes on (each of its calls has a timeout), a
report or a daily post that is repeated gets through at last (strong fairness), and the platform offers what
is due. `GatewayHeal`: the heal steps, for every wait in it is bounded, and time passes; nothing is assumed
of the gateway. `ConfigureChannels`: the command steps, and the platform sends the next one; faults, kills
and new revisions are bounded. `HatRepository`: the holder of the lock goes on, and calls come again and get
the lock in their turn. `CodexSignIn`: processes that run go on, time passes, and the owner presses again;
nothing is assumed of the owner's answer to a login, or of a program that has got a worker's number.

## Proofs

Every safety invariant and every action property that a passing run checks is a theorem, for every value of
the constants under the named assumptions of its module: numbers are natural numbers, sets that are counted
are finite, placeholders are none of the real values, `Place` and `Last` give each provider a place and a
last revision, `Installed` is a target. Each module has an inductive invariant `IInv` that TLC checked on its
instance before it was proved, one lemma for each action or for each part of it, and `Invariance`
(`SafetyInvariance` in `RuntimeUpdate_proofs`), from which the other theorems follow. The type invariants are
part of `IInv` and theorems of their own (`TypeCorrect`); the runs check them where a fault of the code could
break them, the bound of the routing attempts and the files of an update. All theorems are about `Spec` as it
is checked; where the code does not keep a claim everywhere, the property names the exception (`unasked`,
`torn`, `undone`, `model # "unproven"`), and *Findings* says how TLC shows that it is needed.

*Receiver.* `RunningRowHasWorker` is not inductive: a worker that begins makes its row running, so the row
and the task of each phase must be known (`TurnsMatch`); a row may be started twice unless the rows of the
pass have no worker about to begin (`PassIsFresh`); the pool bound needs `RoutingHasSlot`, the slot that was
free before the await and is still free after it; `NoForeignTurn` needs that routed rows belong to the
active framework (`RoutedRowsOwned`), which holds over a handover because a stop is refused while rows are
queued and nothing is in hand afterwards (`NothingInHand`). `NeverReplayed`, `ChosenOnce` and
`StoppedStartsNoWorker` follow step by step from `IInv`; `ChosenOnce` rests on `PassIsFresh`, by which the
row that is routed has no task yet.

`KeepsTheLedger` is the refinement of `TurnLedger`: each action is one step of the ledger or a stutter
(`LedgerStep`), also the crash between the two transactions of a worker's first step, which is a dispatch.
The ledger asks that a dispatched update is alone in its task and finds fewer than `Width` running; both come
from `RunningIsServed`, which sends each running row to its worker: that is an injection into the slots
without the slot of the worker about to begin, of which there are fewer than `MaxWorkers`.

*Control.* `OneReceiver` needs that the gateway is up only while Hermes is recorded as active
(`GatewayRecorded`) and a native process only while its framework is (`ReceiverRecorded`), for every await
of every job (`AwaitsMatch`), that the bring-up without the lock is not overtaken by a selection
(`StartupAlone`), and that no process is on its way to a held lock (`LoneProcess`). Only `GatewayRecorded` has the
exception `unasked`, for the command that restarts the gateway without asking for the mode; what concerns the
native receivers, `HandoverWaits` among it, has none.

*Update pipeline.* Everything is proved for stagings that stop anywhere, of which `torn` remembers those that were
installed or that an installation waits for. `RecordAgrees` speaks of a serving process; what carries it over
crashes is `DisagreementOwed`: files and records differ only while a marker and a whole staged release are
there to repeat the activation, or after such a staging. It is preserved because the activation removes
`staged/VERSION` first and the marker last, and because each step knows how far the steps before it have come
and whether the area is whole (`Progress`, `Sound`). `AlwaysBootable` needs `PackageKept`: the package is missing
only while a copy waits beside it; and `LauncherKept`: half a launcher is never started.

`KeepsAtomicUpdate` is the refinement of `AtomicUpdate`. Its `installed` is the release that package,
launcher and both records agree on, or nothing while they differ; its `recorded` is `current/COMMIT_SHA`,
which is written last and so tells what the installation was when it last was whole. A file operation either
takes the installation apart (`Break`), makes it whole (`Mend`) or is a stutter; `UseUp`, the removal of
`staged/VERSION`, needs from `Progress` that the staged release is whole by then, and `Withdraw`, the removal
of the marker, that nothing is staged. A staging that stops half way spoils the offer (`Spoil`), and only from
a spoiled offer may an activation end with anything (`Wreck`).

*Combined update.* `BoundedNotices` is about a message that was sent and a counter in a file: it holds over
lost answers because the attempt is counted before the message goes out, so that at the step `send` there
are fewer messages than attempts (`NoticeKept`). A marker may be replaced by that of a newer target, so
`UpdateRemembered` needs that targets only grow, in the staging area, the marker and the command alike
(`TargetsGrow`): then what an acknowledgement covers is the release that would be activated (`Announced`). A
plugin is touched only behind its marker (`PluginOnRecord`).

*Gateway.* `SignalsOnlyOld` needs `Bound`: the handle that the exact exit opened is the process found, or a
process that is none of the gateway's, and then the process found is gone and the check after the opening
refuses. `ReadyIsProven` needs that the rows of the record are of a generation that connected, and not
younger than the process it names (`Truthful`). `VerifiedAfresh` needs that the generation under proof is
younger than the one found and that whoever runs and connected before the heal began is the one found
(`Younger`): the row that confirms a heal was written since, though for a unit not always by the generation
that it confirms. `StopIsPaired` needs to know, at each step, whether a stop was admitted and whether a start, a
newer generation or the end of the time answers it (`Pairing`). `Ways` keeps the paths of the owners apart.

*Channel credentials.* `NoStaleSuccess` speaks of what the next command would skip. Between commands it rests
on the bookkeeping of the one that ran: the providers left are those without an outcome (`Outcomes`) and the
next command does not skip one that is left (`StillToDo`), a provider under recovery was reported
(`Recovery`), and when a success is confirmed no look at the gateway has found a survivor down (`Evidence`); a provider
whose readiness is unknown counts as served, as in the code. A model that a killed command had set is left
out (`model # "unproven"`).
`RejectedIsStopped` needs that a command that does not call itself changed has left the disk as it found it
(`Rejection`). Both hold for any number of providers in any order, any of them wrong.

*Hat repository.* A deletion empties only what it has validated by identity, and neither the journal nor a
call in progress can come to name another's directory (`DeletesOurs`, with `NamesKept` for what may stand
under each name). `UnrecordedIsPending` speaks of pushes that nobody waits for any more, so the invariant
speaks of all commits that the branch has or may still get (`LiveIsPending`). It is kept since a marked
commit stands on commits of the branch only (`MarkedOnTop`), so that a push brings at most that one, since
histories only grow (`Ancestry`), and since each step of a sync knows what the marker says and that what it
gives up is recorded or was taken back (`SyncKnows`). A push that was reported as failed may land after its
commit was taken back; then the changes of the commit are in the clone (`UndoneKept`), and the next sync
finds the branch ahead.

*Codex sign-in.* `ConnectedIsServed` was true when the worker looked; it stays true because the grant of
Hermes is never older than one a worker obtained (`GrantsGrow`) and because no later restart undoes the proof
of a worker that restarted the gateway (`ProofKept`).

Model-checked only: the liveness properties (`DrainFinishes`, `UpdatesServed`, `SwitchSettles`,
`UpdateArrives`, `ObligationsSettle`, `HealEnds`, `SavedSettles`, `DeletionFinishes`, `PendingSettles`,
`StartRecovers`), since neither fairness nor `ENABLED` is within the prover's reach.

## Findings

The run `receiver_zombie_status` shows: the poll of an approval outlives its turn and sets the settled task
back to running (`service.py:184`); a switch then waits for ever (`PROJECT.json` quotes the lines).

The following were found with TLC in the same way. Each is a violation of a definition of the modules under
the configuration given here, which has no run of its own. Where the exception of a property stands for one of
them, the definition is the claim without the exception.

| Where | What the code does | How to see it |
| --- | --- | --- |
| `service.py:470-493` | a cancellation before a worker's first step, or in its cleanup, leaks its slot, against `service.py:514-515` | `UpdatesServed` under `FairSpec`, 2 updates, 1 task, 1 worker |
| `service.py:434-436` | a crash between two transactions leaves a queued task without a row, against `README.md:114-115` | `QueuedTaskHasRow` under `Spec`, 1 update, 1 task |
| `configure.py:32` | a refused change of credentials leaves intake stopped and supervision does not see it, against `apply_config.py:171` | `IntakeRestored` under `CalmSpec`, `Commands <- Configures` |
| `import_legacy_tinyhat_secrets.py:56` | the import of old secrets restarts the gateway beside a native receiver, against `README.md:110-111` | `GatewayAlone` under `Spec`, `Commands <- Imports` |
| `update_artifacts.py:134` | a download that fails removes the staged package and leaves its version; the next activation records a release that was never installed (`main.py:153-168`), and no later check notices, against `README.md:531-533` | `PromotesStaged` with 1 failure, 1 operator command and no crashes |
| `gateway_readiness.py:644-650` | a unit's new generation, which never connected, is verified on a row which its predecessor wrote after the heal began, against `gateway_readiness.py:641-643` | `VerifiedServed` with 2 generations, 1 heal, 1 fault |
| `telegram_codex_auth.py:1106` | a worker is killed and its number given to another program: every press is answered with "already running", and no worker comes | `PressingHelps` with 2 workers, no faults, 1 cut |
| `configure_channels.py:404-421` | cut off after `ensure_model` and a restart for Telegram, the next command skips every provider and reports success over rows of Slack that are down, against `configure_channels.py:534-535` | `SuccessNoticed` with `Connected = {slack}`, no faults, 1 cut |

Met while modelling, and stated by no property: a credential change starts the receiver of a parked Computer
(`control.py:358`). A plain restart activates whatever was staged last if a marker is there
(`README.md:557-560`). Staging cut off by a crash while an activation is pending installs half a package. A
release staged after a failed activation is activated without a notice when a crash comes first. Two workers
of the Codex sign-in may run at once, against `tests/test_telegram_codex_auth.py:454`. An interrupted Hat
deletion followed by a checkout occupies both names and is refused for ever, and so is one cut off between
`rmdir` and its last record (`hat_repository.py:1367-1375`); a sync cut off between `git commit` and its
complete marker refuses every later one. A push that was reported as failed and lands later brings a commit to
the branch that the clone has taken back and the platform has no record of (`hat_repository.py:1018-1075`); a
later sync finds the branch ahead of it. `configure_channels` does not look whether the stop of the gateway
after a rejection worked (`configure_channels.py:656`), nor the one before a restart
(`configure_telegram.py:2264`), and a webhook whose deletion lost its answer is not
restored.

## Not modelled

The identity of a directory is unique for ever in `HatRepository`, where the code compares `(st_dev, st_ino)`: that
the number of a directory which is gone is given to a new one before it is compared is left out.

Cursors and acknowledgements of the providers and the uncertain sends (`transports.py`, `state.py:206`): the
receiver's model takes an update up in one transaction and leaves the sends of a turn out. The schedule of
the daily check, the backoff of the e-mail onboarding and other times. The older setup command
`configure_telegram`. The plugin bridge's commands, which forward one call each. Browser sign-in, private
access, installers, speech, desktop and inventory files: single processes or single atomic writes without a
protocol. `PROJECT.json` lists every component with its reason.

## Plan

1. Done: the eight components above with their runs.
2. Done: every safety invariant and action property of the passing runs as a theorem, and the refinements of
   `TurnLedger` and `AtomicUpdate`.
3. Next: abstract specifications of other components (the life of a commit for `HatRepository`, the
   obligation to tell the owner for `UpdateNotices`) with their refinements.
