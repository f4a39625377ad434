-------------------------- MODULE ConfigureChannels --------------------------
(***************************************************************************)
(* configure_channels on a Computer that runs Hermes: it reads the chat    *)
(* providers the owner saved on the platform, installs the credentials of  *)
(* those that are not connected, one after the other as the platform lists *)
(* them, and restarts the one gateway that serves them all.  Each restart  *)
(* replaces the generation the earlier successes were observed on, so      *)
(* these are looked at again.                                              *)
(*                                                                         *)
(* The platform can give the Computer to another owner at any time; the    *)
(* command asks before each change (a fence) and stops the gateway when it *)
(* learns of it too late.  Saved credentials are revisions; loaded are the *)
(* ones the running generation was started with, and link is what its rows *)
(* show while the command waits for them.  The platform ignores an answer  *)
(* about an older revision.                                                *)
(***************************************************************************)
EXTENDS Integers

CONSTANTS
  Providers,   \* the supported providers
  Place,       \* their places in the list of the platform
  Telegram,    \* the provider with a webhook, a menu and settings of its own
  Bad,         \* pairs <<provider, revision>> with which no connection succeeds
  Connected,   \* the providers that are connected before the first command
  Last,        \* bound: the last revision saved of each provider
  MaxFaults,   \* bound: requests, files and restarts that fail
  MaxCuts      \* bound: kills of the command's process, and the change of owner

ASSUME TelegramAssumption == Telegram \in Providers
ASSUME PlaceAssumption    == Place \in [Providers -> Nat]
ASSUME LastAssumption     == Last \in [Providers -> Nat \ {0}]
ASSUME ConnectedAssumption == Connected \subseteq Providers
ASSUME LimitsAssumption   == MaxFaults \in Nat /\ MaxCuts \in Nat

VARIABLES
  mine, saved, status,     \* the platform: assignment, revision and reported status of a provider
  installed, applied,      \* this Computer: the credentials in place, the marker of their success
  files, model, notice,    \* Telegram's settings are prepared; the model; the owner's restart notice
  webhook,                 \* where Telegram delivers: parked at the platform, or gone
  gateway, loaded, link,   \* the gateway, the credentials it read, and what its rows say
  pc, todo, seen, outcome, \* the command: its step, the providers left, what it read and found
  job,                     \* its work on one of them
  changed, before, ending, \* it changed something; what it found on disk; how it ended
  faults, cuts

platform == <<mine, saved, status>>
disk     == <<installed, files, model>>
running  == <<gateway, loaded, link>>
command  == <<todo, seen, outcome, changed, before>>
vars     == <<platform, disk, applied, notice, webhook, running, command, pc, job, ending, faults, cuts>>

Revisions == UNION {0..Last[p] : p \in Providers}
Failed    == "failed"
Parts     == {"network", "quick commands", "plugin commands", "menu"}
Nothing   == [p \in Providers |-> "none"]
Unread    == [p \in Providers |-> 0]
NoJob     == [provider |-> Telegram, wrote |-> FALSE, restarted |-> FALSE, released |-> FALSE,
              recovering |-> FALSE, raises |-> FALSE, sound |-> FALSE, snapshot |-> 0,
              hook |-> "gone", line |-> "owner"]

Init ==
  /\ mine = TRUE /\ saved = [p \in Providers |-> 1]
  /\ status = [p \in Providers |-> IF p \in Connected THEN "connected" ELSE "pending"]
  /\ installed = [p \in Providers |-> IF p \in Connected THEN 1 ELSE 0]
  /\ applied = installed /\ loaded = installed
  /\ files = {} /\ model \in {"empty", "set"} /\ notice = "owner" /\ webhook = "parked"
  /\ gateway = "healthy"
  /\ link = [p \in Providers |-> IF p \in Connected THEN "up" ELSE "unknown"]
  /\ pc = "idle" /\ todo = {} /\ seen = Unread /\ outcome = Nothing /\ job = NoJob
  /\ changed = FALSE /\ before = <<>> /\ ending = "none"
  /\ faults = 0 /\ cuts = 0

TypeOK ==
  /\ mine \in BOOLEAN /\ saved \in [Providers -> Revisions]
  /\ status \in [Providers -> {"pending", "connected", Failed}]
  /\ installed \in [Providers -> Revisions] /\ applied \in [Providers -> Revisions]
  /\ files \subseteq Parts /\ model \in {"empty", "unproven", "set"}
  /\ notice \in {"owner", "managed", "default"} /\ webhook \in {"parked", "gone"}
  /\ gateway \in {"healthy", "sick", "down"} /\ loaded \in [Providers -> Revisions]
  /\ link \in [Providers -> {"up", "down", "unknown"}]
  /\ outcome \in [Providers -> {"none", "connected", Failed}] /\ changed \in BOOLEAN
  /\ ending \in {"none", "done", Failed, "cut", "rejected", "unstopped", "killed"}
  /\ seen \in [Providers -> Revisions]

-----------------------------------------------------------------------------
Fault == faults < MaxFaults /\ faults' = faults + 1
Fine  == UNCHANGED faults
At(s) == pc = s /\ UNCHANGED cuts
Goes(s) == pc' = s /\ UNCHANGED ending
Now   == job.provider

(* Mutant of Ends: a gateway that was not restarted is left alone. *)
EndsUntouched(why) ==
  IF why = "rejected" /\ job.restarted THEN Goes("stop") ELSE pc' = "over" /\ ending' = why

(* An exception or the last return: a rejected command that changed anything stops the gateway. *)
Ends(why) ==
  IF why = "rejected" /\ changed THEN Goes("stop") ELSE pc' = "over" /\ ending' = why

(* current(): the assignment is rejected, or cannot be checked. *)
Holds      == mine /\ Fine
FenceFails ==
  /\ \/ ~mine /\ Fine /\ Ends("rejected")
     \/ Fault /\ Ends("cut")
  /\ UNCHANGED <<platform, disk, applied, notice, webhook, running, command, job>>

(* acknowledge(): the platform takes it, or it fails with or without having been taken. *)
Says(p, s) ==
  /\ status' = IF seen[p] = saved[p] THEN [status EXCEPT ![p] = s] ELSE status
  /\ UNCHANGED <<mine, saved>>
Lost(p, s) == Fault /\ mine /\ (Says(p, s) \/ UNCHANGED platform)
AckFails(p, s) ==
  /\ \/ ~mine /\ Fine /\ UNCHANGED platform /\ Ends("rejected")
     \/ Lost(p, s) /\ Ends("cut")
  /\ UNCHANGED <<disk, applied, notice, webhook, running, command, job>>

Local  == UNCHANGED platform                              \* nothing is sent
OnDisk == UNCHANGED <<disk, applied, notice, webhook>>
Plain  == OnDisk /\ UNCHANGED <<running, seen, before>>

-----------------------------------------------------------------------------
(* The platform and the process. *)

Save(p) ==
  /\ mine /\ saved[p] < Last[p]
  /\ saved' = [saved EXCEPT ![p] = @ + 1] /\ status' = [status EXCEPT ![p] = "pending"]
  /\ UNCHANGED <<mine, disk, applied, notice, webhook, running, command, pc, job, ending, faults, cuts>>

Reassign ==
  /\ mine /\ mine' = FALSE /\ cuts < MaxCuts /\ cuts' = cuts + 1
  /\ UNCHANGED <<saved, status, disk, applied, notice, webhook, running, command, pc, job, ending,
                 faults>>

Kill ==
  /\ pc \notin {"idle", "over"} /\ cuts < MaxCuts /\ cuts' = cuts + 1
  /\ pc' = "over" /\ ending' = "killed"
  /\ UNCHANGED <<platform, disk, applied, notice, webhook, running, command, job, faults>>

-----------------------------------------------------------------------------
(* What is to be done. *)

Skips(p) == status[p] = "connected" /\ applied[p] = saved[p]

(* Mutant of Listed: providers that are skipped are no concern of this command. *)
ListedNone(all) == Nothing
Listed(all) == [p \in Providers |-> IF Skips(p) /\ ~all THEN "connected" ELSE "none"]

Start ==
  /\ At("idle") /\ mine /\ Goes("fetch") /\ Fine
  /\ before' = disk
  /\ Local /\ OnDisk /\ UNCHANGED <<running, todo, seen, outcome, changed, job>>

(* What the command remembers is gone with it. *)
Leave ==
  /\ At("over") /\ pc' = "idle" /\ Fine
  /\ todo' = {} /\ seen' = Unread /\ outcome' = Nothing /\ job' = NoJob /\ changed' = FALSE
  /\ IF ending = "rejected" THEN UNCHANGED <<before, ending>> ELSE before' = <<>> /\ ending' = "none"
  /\ Local /\ OnDisk /\ UNCHANGED running

Fetch ==
  /\ At("fetch") /\ Holds /\ seen' = saved
  /\ LET all == model = "empty" IN
       /\ todo' = {p \in Providers : all \/ ~Skips(p)}
       /\ outcome' = Listed(all)
       /\ IF all THEN Goes("seed")
          ELSE IF todo' = {} THEN Ends("done") ELSE Goes("next")
  /\ Local /\ OnDisk /\ UNCHANGED <<running, job, changed, before>>

(* ensure_model: only an empty model is set; what the helper has written stands when it times out. *)
Seed ==
  /\ At("seed") /\ Local
  /\ \/ Fine /\ model' = "unproven" /\ changed' = TRUE /\ Goes("seeded")
     \/ Fault /\ model' \in {model, "unproven"} /\ UNCHANGED changed /\ Ends("cut")
  /\ UNCHANGED <<installed, files, applied, notice, webhook, running, todo, seen, outcome, before, job>>

Seeded ==
  /\ At("seeded") /\ Holds /\ Goes("next")
  /\ Local /\ Plain /\ UNCHANGED <<todo, outcome, changed, job>>

(* The next provider: its values are read before anything of it is replaced. *)
Snapshot ==
  /\ At("next") /\ todo # {} /\ mine
  /\ \E p \in todo :
       /\ \A q \in todo : Place[p] <= Place[q]
       /\ job' = [NoJob EXCEPT !.provider = p, !.snapshot = installed[p]]
       /\ \/ Fine /\ Goes(IF p = Telegram THEN "look" ELSE "install")
          \/ Fault /\ Goes("refuse")
  /\ Local /\ Plain /\ UNCHANGED <<todo, outcome, changed>>

Finish ==
  /\ At("next") /\ todo = {} /\ Fine /\ Ends("done")
  /\ model' = IF model = "unproven" THEN "set" ELSE model
  /\ Local /\ UNCHANGED <<installed, files, applied, notice, webhook, running, command, job>>

(* This provider is dealt with. *)
Passes(found) ==
  /\ outcome' = [outcome EXCEPT ![Now] = found] /\ todo' = todo \ {Now} /\ Goes("next")

Refuse ==
  /\ At("refuse") /\ mine /\ Fine /\ Says(Now, Failed) /\ Passes(Failed)
  /\ Plain /\ UNCHANGED <<changed, job>>

-----------------------------------------------------------------------------
(* Installation. *)

Fails == Goes("report") /\ job' = [job EXCEPT !.recovering = TRUE]

Look ==
  /\ At("look") /\ Local
  /\ \/ Fine /\ changed' = TRUE /\ job' = [job EXCEPT !.hook = webhook] /\ Goes("network")
     \/ Fault /\ Fails /\ UNCHANGED changed
  /\ Plain /\ UNCHANGED <<todo, outcome>>

(* One of Telegram's files. *)
Writes(step, part, next) ==
  /\ At(step) /\ Local
  /\ \/ Fine /\ files' = files \union {part} /\ Goes(next) /\ UNCHANGED job
     \/ Fault /\ files' \in {files, files \union {part}} /\ Fails
  /\ UNCHANGED <<installed, model, applied, notice, webhook, running, command>>

SeedNetwork    == Writes("network", "network", "quick")
QuickCommands  == Writes("quick", "quick commands", "plugin")
PluginCommands == Writes("plugin", "plugin commands", "priority")
MenuPriority   == Writes("priority", "menu", "install")

Install ==
  /\ At("install") /\ Local /\ changed' = TRUE
  /\ LET new == [installed EXCEPT ![Now] = seen[Now]] IN
       \/ /\ Fine /\ installed' = new /\ job' = [job EXCEPT !.wrote = TRUE]
          /\ Goes(IF Now = Telegram THEN "release" ELSE "commit")
       \/ /\ Fault /\ installed' \in {installed, new} /\ Goes("report")
          /\ job' = [job EXCEPT !.wrote = TRUE, !.recovering = TRUE]
  /\ UNCHANGED <<files, model, applied, notice, webhook, running, todo, seen, outcome, before>>

(* deleteWebhook: an answer that is lost leaves it deleted. *)
Release ==
  /\ At("release") /\ Local
  /\ \/ Fine /\ webhook' = "gone" /\ job' = [job EXCEPT !.released = TRUE] /\ Goes("menu")
     \/ Fault /\ webhook' \in {webhook, "gone"} /\ Fails
  /\ UNCHANGED <<disk, applied, notice, running, command>>

Menu ==
  /\ At("menu") /\ Local /\ Plain /\ UNCHANGED <<todo, outcome, changed>>
  /\ \/ Fine /\ Goes("commit") /\ UNCHANGED job
     \/ Fault /\ Fails

Commit ==
  /\ At("commit") /\ Holds /\ Goes("stage") /\ job' = [job EXCEPT !.restarted = TRUE]
  /\ Local /\ Plain /\ UNCHANGED <<todo, outcome, changed>>

-----------------------------------------------------------------------------
(* The restart: the owner's notice is silenced for it, and put back. *)

(* Nobody looks at whether the stop worked. *)
Stage ==
  /\ At("stage") /\ Local
  /\ \/ /\ \/ Fine /\ gateway' = "down"
           \/ Fault /\ UNCHANGED gateway
        /\ notice' = "managed" /\ Goes("cycle")
        /\ job' = [job EXCEPT !.line = IF notice = "managed" THEN "default" ELSE notice]
     \/ /\ Fault /\ UNCHANGED <<notice, gateway>>
        /\ IF job.recovering THEN Goes("refresh") /\ job' = [job EXCEPT !.raises = TRUE, !.sound = FALSE]
           ELSE Ends("cut") /\ UNCHANGED job
  /\ UNCHANGED <<disk, applied, webhook, loaded, link, command>>

(* What the rows of a generation with the credentials held can say of a provider. *)
Shows(held, p) ==
  IF held[p] = 0 \/ <<p, held[p]>> \in Bad THEN {"down", "unknown"} ELSE {"up", "down", "unknown"}

(* A generation the stop has left alone is found healthy as it is; it can write its rows again. *)
Cycle ==
  /\ At("cycle") /\ Local
  /\ \/ /\ Fine /\ gateway' = "healthy" /\ Goes("unstage")
        /\ \/ loaded' = installed
           \/ gateway = "healthy" /\ UNCHANGED loaded
        /\ link' \in [Providers -> {"up", "down", "unknown"}]
        /\ \A p \in Providers : link'[p] \in Shows(loaded', p)
     \/ Fault /\ gateway' = "sick" /\ pc' \in {"unstage", "thrown"} /\ UNCHANGED <<ending, loaded, link>>
  /\ job' = [job EXCEPT !.sound = gateway' = "healthy"]
  /\ OnDisk /\ UNCHANGED command

PutBack ==
  /\ \/ Fine /\ notice' = job.line
     \/ Fault /\ UNCHANGED notice
  /\ UNCHANGED <<disk, applied, webhook, running, command>>

Unstage ==
  /\ At("unstage") /\ Local /\ PutBack
  /\ job' = [job EXCEPT !.line = "owner"]
  /\ Goes(IF ~job.recovering THEN "fence" ELSE IF job.released THEN "rehook" ELSE "refresh")

(* The restart raised an exception of its own. *)
Thrown ==
  /\ At("thrown") /\ Local /\ PutBack
  /\ job' = [job EXCEPT !.line = "owner", !.raises = TRUE]
  /\ IF job.recovering THEN Goes("refresh") ELSE Ends("cut")

Fenced ==
  /\ At("fence") /\ Holds /\ Goes("refresh")
  /\ Local /\ Plain /\ UNCHANGED <<todo, outcome, changed, job>>

-----------------------------------------------------------------------------
(* refresh_survivors: success observed on an earlier generation is taken back when this one is
   unhealthy or every look at it failed; what is unknown keeps its success. *)

Survivors == {p \in Providers : outcome[p] = "connected"}
Gone      == {p \in Survivors : ~job.sound \/ link[p] = "down"}

(* Mutant of AfterRecovery: a provider that failed ends the command. *)
EndsAlways == Ends(Failed) /\ UNCHANGED <<todo, outcome>>
AfterRecovery ==
  IF job.raises \/ (job.restarted /\ ~job.sound)
    THEN Ends(Failed) /\ UNCHANGED <<todo, outcome>>
    ELSE Passes(Failed)
Onward ==
  IF job.recovering THEN AfterRecovery ELSE Goes("judge") /\ UNCHANGED <<todo, outcome>>

Refresh ==
  /\ At("refresh") /\ Local /\ Plain /\ UNCHANGED <<changed, job>>
  /\ IF Survivors = {} THEN Fine /\ Onward
     ELSE Holds /\ Goes("demote") /\ UNCHANGED <<todo, outcome>>

Demote(p) ==
  /\ At("demote") /\ p \in Gone /\ mine /\ Fine /\ Says(p, Failed) /\ Goes("demote")
  /\ outcome' = [outcome EXCEPT ![p] = Failed]
  /\ Plain /\ UNCHANGED <<todo, changed, job>>

Refreshed ==
  /\ At("demote") /\ Gone = {} /\ Fine /\ Local /\ Onward
  /\ Plain /\ UNCHANGED <<changed, job>>

-----------------------------------------------------------------------------
(* What this provider's rows say. *)

Judge ==
  /\ At("judge") /\ Local /\ Fine
  /\ IF ~job.sound \/ link[Now] = "down" THEN Fails
     ELSE UNCHANGED job /\ Goes(IF link[Now] = "up" THEN "confirm" ELSE "unsure")
  /\ Plain /\ UNCHANGED <<todo, outcome, changed>>

(* A healthy gateway without evidence stays, and the owner has to ask again. *)
Unsure ==
  /\ At("unsure") /\ mine /\ Fine /\ Says(Now, Failed) /\ Passes(Failed)
  /\ Plain /\ UNCHANGED <<changed, job>>

Confirm ==
  /\ At("confirm") /\ mine /\ Fine /\ Says(Now, "connected") /\ Goes("record")
  /\ Plain /\ UNCHANGED <<todo, outcome, changed, job>>

Record ==
  /\ At("record") /\ Local
  /\ \/ /\ Fine /\ applied' = [applied EXCEPT ![Now] = seen[Now]]
        /\ IF Now = Telegram THEN Passes("connected")
           ELSE Goes("identify") /\ UNCHANGED <<todo, outcome>>
     \/ Fault /\ Ends("cut") /\ UNCHANGED <<applied, todo, outcome>>
  /\ UNCHANGED <<disk, notice, webhook, running, seen, changed, before, job>>

(* report_slack_identity: only its fences matter, a failed report is logged. *)
Identify ==
  /\ At("identify") /\ Holds /\ Passes("connected")
  /\ Local /\ Plain /\ UNCHANGED <<changed, job>>

-----------------------------------------------------------------------------
(* A confirmed failure: it is reported, and what was there before is put back. *)

Report ==
  /\ At("report") /\ mine
  /\ \/ Fine /\ Says(Now, Failed) /\ job' = [job EXCEPT !.sound = FALSE]
     \/ Lost(Now, Failed) /\ job' = [job EXCEPT !.sound = FALSE, !.raises = TRUE]
  /\ IF job.wrote THEN Goes("undo") /\ UNCHANGED <<todo, outcome>>
     ELSE IF job'.raises THEN Ends(Failed) /\ UNCHANGED <<todo, outcome>> ELSE Passes(Failed)
  /\ Plain /\ UNCHANGED changed

Undo ==
  /\ At("undo") /\ mine /\ Local
  /\ LET old == [installed EXCEPT ![Now] = job.snapshot] IN
       \/ /\ Fine /\ installed' = old /\ UNCHANGED job
          /\ IF job.restarted THEN Goes("stage") /\ UNCHANGED <<todo, outcome>>
             ELSE IF job.released THEN Goes("rehook") /\ UNCHANGED <<todo, outcome>>
             ELSE AfterRecovery
       \/ /\ Fault /\ installed' \in {installed, old} /\ job' = [job EXCEPT !.raises = TRUE]
          /\ UNCHANGED <<todo, outcome>>
          /\ IF job.restarted THEN Goes("refresh") ELSE Ends(Failed)
  /\ UNCHANGED <<files, model, applied, notice, webhook, running, seen, changed, before>>

Rehook ==
  /\ At("rehook") /\ mine /\ Local
  /\ \/ /\ Fine /\ webhook' = job.hook /\ UNCHANGED job
        /\ IF job.restarted THEN Goes("refresh") /\ UNCHANGED <<todo, outcome>> ELSE AfterRecovery
     \/ /\ Fault /\ webhook' \in {webhook, job.hook} /\ job' = [job EXCEPT !.raises = TRUE]
        /\ UNCHANGED <<todo, outcome>>
        /\ IF job.restarted THEN Goes("refresh") ELSE Ends(Failed)
  /\ UNCHANGED <<disk, applied, notice, running, seen, changed, before>>

(* stop_hermes; its answer is not looked at. *)
Stop ==
  /\ At("stop") /\ pc' = "over" /\ Local
  /\ \/ Fine /\ gateway' = "down" /\ ending' = "rejected"
     \/ Fault /\ UNCHANGED gateway /\ ending' = "unstopped"
  /\ UNCHANGED <<disk, applied, notice, webhook, loaded, link, command, job>>

-----------------------------------------------------------------------------
(* The steps that ask the platform, and are refused or left without an answer. *)
Unanswered ==
  /\ UNCHANGED cuts
  /\ \/ pc \in {"fetch", "seeded", "commit", "fence", "identify", "undo", "rehook"} /\ FenceFails
     \/ pc = "next" /\ todo # {} /\ FenceFails
     \/ pc = "refresh" /\ Survivors # {} /\ FenceFails
     \/ pc \in {"refuse", "unsure"} /\ AckFails(Now, Failed)
     \/ pc = "confirm" /\ AckFails(Now, "connected")
     \/ \E p \in Gone : pc = "demote" /\ AckFails(p, Failed)
     \/ /\ pc = "report" /\ ~mine /\ Fine /\ Ends("rejected")
        /\ UNCHANGED <<platform, disk, applied, notice, webhook, running, command, job>>

Prepares == Fetch \/ Seed \/ Seeded \/ Snapshot \/ Finish \/ Refuse
Prepare  == SeedNetwork \/ QuickCommands \/ PluginCommands \/ MenuPriority
Installs == Look \/ Prepare \/ Install \/ Release \/ Menu \/ Commit \/ Stage \/ Cycle \/ Unstage \/ Thrown
            \/ Fenced
Verifies == Refresh \/ (\E p \in Providers : Demote(p)) \/ Refreshed \/ Judge \/ Unsure \/ Confirm
            \/ Record \/ Identify
Recovers == Report \/ Undo \/ Rehook \/ Stop
Command  == Start \/ Leave \/ Prepares \/ Installs \/ Verifies \/ Recovers \/ Unanswered

Next == Command \/ (\E p \in Providers : Save(p)) \/ Reassign \/ Kill

(* A command that runs goes on, and the platform sends the next one. *)
Spec == Init /\ [][Next]_vars /\ WF_vars(Command)

-----------------------------------------------------------------------------
(* A provider that the next command would take for connected and skip is not down at the running
   gateway, or another provider is left to do, so that the restart for it looks at this one again:
   over every failed, cut or killed command, no lost success goes unnoticed. *)
Noticed ==
  \/ \A p \in Providers : Skips(p) => gateway = "healthy" /\ link[p] # "down"
  \/ \E p \in Providers : ~Skips(p)

(* So it is for every model but one that a command set and did not live to finish with: that all
   providers have to be done again for it is remembered nowhere. *)
NoStaleSuccess == mine /\ model # "unproven" => Noticed

(* "Every restart replaces the generation supporting earlier success, including providers skipped as
   already applied": between two commands, also those of a command that had set the model. *)
SuccessNoticed == mine /\ pc = "idle" => Noticed

(* When the Computer belongs to someone else and the command learned it after changing anything,
   the gateway does not run on with the credentials of the owner before. *)
RejectedIsStopped ==
  ending = "rejected" /\ disk # before => gateway = "down"

(* What the owner saved gets an answer: a provider that always fails does not keep the command from
   the ones behind it. *)
SavedSettles ==
  \A p \in Providers : status[p] = "pending" ~> status[p] # "pending" \/ ~mine
=============================================================================
