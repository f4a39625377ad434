----------------------- MODULE ConfigureChannels_proofs -----------------------
(***************************************************************************)
(* Proofs about ConfigureChannels, for any set of providers, listed in any *)
(* order, any revisions, wrong credentials and faults.                     *)
(*                                                                         *)
(* IInv has three groups of parts.  Of the command's memory: the providers *)
(* left are those without an outcome, and a failed one is not connected at *)
(* the platform (OnIt, Outcomes, StillToDo).  Of the provider at work:     *)
(* what its recovery has reported, and what the gateway's rows show when a *)
(* success is confirmed (Recovery, Evidence).  Of a rejection: it comes    *)
(* after the owner has changed, and a command that has not marked itself   *)
(* as changed has left the disk as it was (Rejection).                     *)
(***************************************************************************)
EXTENDS ConfigureChannels, TLAPS

-----------------------------------------------------------------------------
(* The inductive invariant *)

(* The steps on one provider, and all that follow the list of providers. *)
Works  == {"refuse", "look", "network", "quick", "plugin", "priority", "install", "release", "menu",
           "commit", "stage", "cycle", "unstage", "thrown", "fence", "refresh", "demote", "judge", "unsure",
           "confirm", "record", "identify", "report", "undo", "rehook"}
Active == Works \union {"next", "seed", "seeded"}

Jobs == [provider : Providers, wrote : BOOLEAN, restarted : BOOLEAN, released : BOOLEAN,
         recovering : BOOLEAN, raises : BOOLEAN, sound : BOOLEAN, snapshot : Revisions,
         hook : {"parked", "gone"}, line : {"owner", "managed", "default"}]

CommandTyped == todo \subseteq Providers /\ job \in Jobs

OnIt ==
  /\ pc \in Works => Now \in todo
  /\ pc \in {"seed", "seeded"} => todo # {}

(* A provider is left, connected or failed; the platform does not show a failed one as connected,
   nor one that was saved again. *)
Outcomes ==
  pc \in Active => \A p \in Providers :
    /\ p \in todo <=> outcome[p] = "none"
    /\ outcome[p] = Failed => status[p] # "connected"
    /\ seen[p] # saved[p] => status[p] = "pending"

(* The next command would take up again what this one has left. *)
StillToDo ==
  pc \in Active \ {"seed"} /\ model # "unproven" =>
    \A p \in todo : ~Skips(p) \/ (p = Now /\ pc \in {"record", "identify"})

(* A provider whose recovery goes on was reported as failed, or the command will not pass it. *)
Recovery ==
  /\ pc \in {"report", "undo", "rehook"} => job.recovering
  /\ pc \in Works \ {"report"} /\ job.recovering => job.raises \/ status[Now] # "connected"
  /\ pc \in {"judge", "unsure", "confirm", "record", "identify"} => ~job.recovering

(* The running gateway serves every provider this command counts as connected. *)
SurvivorsServed == \A p \in Survivors : link[p] # "down"

Evidence ==
  /\ pc \in Works \ {"cycle"} /\ job.sound => gateway = "healthy"
  /\ pc = "judge" /\ job.sound => SurvivorsServed
  /\ pc \in {"unsure", "confirm", "record", "identify"} => job.sound /\ SurvivorsServed
  /\ pc \in {"confirm", "record", "identify"} => link[Now] = "up"
  /\ pc = "next" /\ todo = {} =>
       (\E p \in Providers : outcome[p] = Failed) \/ (gateway = "healthy" /\ SurvivorsServed)

(* A rejection is final. *)
Rejection ==
  /\ ending = "rejected" => ~mine /\ pc \in {"idle", "over"}
  /\ pc = "stop" => ~mine
  /\ pc \notin {"idle", "over"} /\ ~changed => disk = before
  /\ pc \in {"network", "quick", "plugin", "priority"} => changed
  /\ pc \in Works /\ job.wrote => changed
  /\ pc = "undo" => job.wrote

IInv ==
  /\ TypeOK /\ CommandTyped /\ OnIt /\ Outcomes /\ StillToDo /\ Recovery /\ Evidence /\ Rejection
  /\ NoStaleSuccess /\ RejectedIsStopped
-----------------------------------------------------------------------------
(* Types *)

USE DEF vars, platform, disk, running, command, Fault, Fine, At, Goes, Holds, Local, OnDisk, Plain,
        Failed, Now

PlatformTyped ==
  /\ mine \in BOOLEAN /\ saved \in [Providers -> Revisions]
  /\ status \in [Providers -> {"pending", "connected", Failed}]
DiskTyped ==
  /\ installed \in [Providers -> Revisions] /\ applied \in [Providers -> Revisions]
  /\ files \subseteq Parts /\ model \in {"empty", "unproven", "set"}
RunTyped ==
  /\ notice \in {"owner", "managed", "default"} /\ webhook \in {"parked", "gone"}
  /\ gateway \in {"healthy", "sick", "down"} /\ loaded \in [Providers -> Revisions]
  /\ link \in [Providers -> {"up", "down", "unknown"}]
MemoryTyped ==
  /\ outcome \in [Providers -> {"none", "connected", Failed}] /\ changed \in BOOLEAN
  /\ ending \in {"none", "done", Failed, "cut", "rejected", "unstopped", "killed"}
  /\ seen \in [Providers -> Revisions]

LEMMA TypeParts == TypeOK <=> PlatformTyped /\ DiskTyped /\ RunTyped /\ MemoryTyped
  BY DEF TypeOK, PlatformTyped, DiskTyped, RunTyped, MemoryTyped

LEMMA RevisionsTyped ==
  /\ Revisions \subseteq Nat
  /\ \A p \in Providers : 0 \in Revisions /\ 1 \in Revisions
  /\ \A p \in Providers, n \in Nat : n < Last[p] => n + 1 \in Revisions
<1>1. \A p \in Providers : Last[p] \in Nat \ {0}
  BY LastAssumption
<1>2. \A p \in Providers, n \in Nat : n <= Last[p] => n \in Revisions
  BY <1>1 DEF Revisions
<1>3. Revisions \subseteq Nat
  BY DEF Revisions
<1>. QED BY <1>1, <1>2, <1>3

LEMMA NoJobTyped == NoJob \in Jobs
  BY RevisionsTyped, TelegramAssumption DEF NoJob, Jobs

LEMMA TypeInit == Init => TypeOK /\ CommandTyped
<1>. SUFFICES ASSUME Init PROVE TypeOK /\ CommandTyped
  OBVIOUS
<1>1. PlatformTyped /\ DiskTyped
  BY RevisionsTyped DEF Init, PlatformTyped, DiskTyped
<1>2. RunTyped /\ MemoryTyped
  BY RevisionsTyped DEF Init, RunTyped, MemoryTyped, Nothing, Unread
<1>. QED BY <1>1, <1>2, TypeParts, NoJobTyped DEF Init, CommandTyped

(* Only an answer of the command, the owner's saving, or a new assignment changes the platform. *)
LEMMA PlatformMoves ==
  ASSUME CommandTyped, [Next]_vars
  PROVE  \/ Local
         \/ \E p \in Providers, s \in {"connected", Failed} : Says(p, s)
         \/ \E p \in Providers : Save(p)
         \/ Reassign
<1>0. Now \in Providers
  BY DEF CommandTyped, Jobs
<1>1. CASE Start \/ Leave \/ Prepares
  BY <1>0, <1>1 DEF Start, Leave, Prepares, Fetch, Seed, Seeded, Snapshot, Finish, Refuse
<1>2. CASE Installs
  BY <1>0, <1>2 DEF Installs, Look, Prepare, SeedNetwork, QuickCommands, PluginCommands, MenuPriority,
     Writes, Install, Release, Menu, Commit, Stage, Cycle, Unstage, Thrown, PutBack, Fenced
<1>3. CASE Verifies
  BY <1>0, <1>3 DEF Verifies, Refresh, Demote, Refreshed, Judge, Unsure, Confirm, Record, Identify
<1>4. CASE Recovers
  BY <1>0, <1>4 DEF Recovers, Report, Lost, Undo, Rehook, Stop
<1>5. CASE Unanswered
  <2>1. Gone \subseteq Providers
    BY DEF Gone, Survivors
  <2>. QED BY <1>0, <1>5, <2>1 DEF Unanswered, FenceFails, AckFails, Lost
<1>. QED BY <1>1, <1>2, <1>3, <1>4, <1>5 DEF Next, Command, Kill

LEMMA PlatformStep ==
  ASSUME PlatformTyped, CommandTyped, [Next]_vars
  PROVE  PlatformTyped'
<1>1. ASSUME NEW p \in Providers, Save(p) PROVE PlatformTyped'
  <2>1. saved[p] \in Nat /\ Last[p] \in Nat
    BY RevisionsTyped, LastAssumption DEF PlatformTyped
  <2>2. saved[p] + 1 \in Revisions
    BY <1>1, <2>1, RevisionsTyped DEF Save
  <2>. QED BY <1>1, <2>2 DEF Save, PlatformTyped
<1>2. ASSUME NEW p \in Providers, NEW s \in {"connected", Failed}, Says(p, s) PROVE PlatformTyped'
  BY <1>2 DEF Says, PlatformTyped
<1>. QED BY <1>1, <1>2, PlatformMoves DEF Reassign, PlatformTyped

LEMMA DiskStep ==
  ASSUME DiskTyped, MemoryTyped, CommandTyped, [Next]_vars
  PROVE  DiskTyped'
<1>0. Now \in Providers /\ seen[Now] \in Revisions /\ job.snapshot \in Revisions
  BY DEF CommandTyped, Jobs, MemoryTyped
<1>1. CASE Start \/ Leave \/ Prepares
  BY <1>1 DEF Start, Leave, Prepares, Fetch, Seed, Seeded, Snapshot, Finish, Refuse, DiskTyped
<1>2. CASE Prepare \/ Install
  BY <1>0, <1>2 DEF Prepare, SeedNetwork, QuickCommands, PluginCommands, MenuPriority, Writes, Install,
     DiskTyped, Parts
<1>3. CASE Look \/ Release \/ Menu \/ Commit \/ Stage \/ Cycle \/ Unstage \/ Thrown \/ Fenced
  BY <1>3 DEF Look, Release, Menu, Commit, Stage, Cycle, Unstage, Thrown, PutBack, Fenced, DiskTyped
<1>4. CASE Verifies
  BY <1>0, <1>4 DEF Verifies, Refresh, Demote, Refreshed, Judge, Unsure, Confirm, Record, Identify, DiskTyped
<1>5. CASE Recovers
  BY <1>0, <1>5 DEF Recovers, Report, Undo, Rehook, Stop, DiskTyped
<1>6. CASE Unanswered
  BY <1>6 DEF Unanswered, FenceFails, AckFails, DiskTyped
<1>7. CASE (\E p \in Providers : Save(p)) \/ Reassign \/ Kill \/ UNCHANGED vars
  BY <1>7 DEF Save, Reassign, Kill, DiskTyped
<1>. QED BY <1>1, <1>2, <1>3, <1>4, <1>5, <1>6, <1>7 DEF Next, Command, Installs

LEMMA RunStep ==
  ASSUME DiskTyped, RunTyped, CommandTyped, [Next]_vars
  PROVE  RunTyped'
<1>0. job.hook \in {"parked", "gone"} /\ job.line \in {"owner", "managed", "default"}
  BY DEF CommandTyped, Jobs
<1>1. CASE Start \/ Leave \/ Prepares
  BY <1>1 DEF Start, Leave, Prepares, Fetch, Seed, Seeded, Snapshot, Finish, Refuse, RunTyped
<1>2. CASE Prepare \/ Install \/ Look \/ Release \/ Menu \/ Commit \/ Stage \/ Unstage \/ Thrown \/ Fenced
  BY <1>0, <1>2 DEF Prepare, SeedNetwork, QuickCommands, PluginCommands, MenuPriority, Writes, Install,
     Look, Release, Menu, Commit, Stage, Unstage, Thrown, PutBack, Fenced, RunTyped
<1>3. CASE Cycle
  BY <1>3 DEF Cycle, DiskTyped, RunTyped
<1>4. CASE Verifies
  BY <1>4 DEF Verifies, Refresh, Demote, Refreshed, Judge, Unsure, Confirm, Record, Identify, RunTyped
<1>5. CASE Recovers
  BY <1>0, <1>5 DEF Recovers, Report, Undo, Rehook, Stop, RunTyped
<1>6. CASE Unanswered
  BY <1>6 DEF Unanswered, FenceFails, AckFails, RunTyped
<1>7. CASE (\E p \in Providers : Save(p)) \/ Reassign \/ Kill \/ UNCHANGED vars
  BY <1>7 DEF Save, Reassign, Kill, RunTyped
<1>. QED BY <1>1, <1>2, <1>3, <1>4, <1>5, <1>6, <1>7 DEF Next, Command, Installs

LEMMA MemoryStep ==
  ASSUME MemoryTyped, PlatformTyped, CommandTyped, [Next]_vars
  PROVE  MemoryTyped'
<1>0. Now \in Providers /\ Gone \subseteq Providers
  BY DEF CommandTyped, Jobs, Gone, Survivors
<1>1. CASE Start \/ Leave \/ Seed \/ Seeded \/ Snapshot \/ Finish \/ Refuse
  BY <1>0, <1>1, RevisionsTyped
     DEF Start, Leave, Seed, Seeded, Snapshot, Finish, Refuse, Passes, Ends, Nothing, Unread, MemoryTyped
<1>2. CASE Fetch
  BY <1>2 DEF Fetch, Listed, Ends, MemoryTyped, PlatformTyped
<1>3. CASE Installs
  BY <1>3 DEF Installs, Prepare, SeedNetwork, QuickCommands, PluginCommands, MenuPriority, Writes, Install,
     Look, Release, Menu, Commit, Stage, Cycle, Unstage, Thrown, PutBack, Fenced, Fails, Ends, MemoryTyped
<1>4. CASE Verifies
  BY <1>0, <1>4 DEF Verifies, Refresh, Demote, Refreshed, Judge, Unsure, Confirm, Record, Identify, Fails,
     Onward, AfterRecovery, Passes, Ends, MemoryTyped
<1>5. CASE Recovers
  BY <1>0, <1>5 DEF Recovers, Report, Undo, Rehook, Stop, AfterRecovery, Passes, Ends, MemoryTyped
<1>6. CASE Unanswered
  BY <1>6 DEF Unanswered, FenceFails, AckFails, Ends, MemoryTyped
<1>7. CASE (\E p \in Providers : Save(p)) \/ Reassign \/ Kill \/ UNCHANGED vars
  BY <1>7 DEF Save, Reassign, Kill, MemoryTyped
<1>. QED BY <1>1, <1>2, <1>3, <1>4, <1>5, <1>6, <1>7 DEF Next, Command, Prepares

LEMMA CommandStep ==
  ASSUME DiskTyped, RunTyped, CommandTyped, [Next]_vars
  PROVE  CommandTyped'
<1>1. CASE Leave \/ Snapshot
  BY <1>1, NoJobTyped DEF Leave, Snapshot, NoJob, Jobs, CommandTyped, DiskTyped
<1>2. CASE Start \/ Fetch \/ Seed \/ Seeded \/ Finish \/ Refuse
  BY <1>2 DEF Start, Fetch, Seed, Seeded, Finish, Refuse, Passes, CommandTyped
<1>3. CASE Prepare \/ Install \/ Look \/ Release \/ Menu \/ Commit \/ Fenced
  BY <1>3 DEF Prepare, SeedNetwork, QuickCommands, PluginCommands, MenuPriority, Writes, Install,
     Look, Release, Menu, Commit, Fenced, Fails, CommandTyped, Jobs, RunTyped
<1>4. CASE Stage \/ Cycle \/ Unstage \/ Thrown
  BY <1>4 DEF Stage, Cycle, Unstage, Thrown, PutBack, CommandTyped, Jobs, RunTyped
<1>5. CASE Verifies
  BY <1>5 DEF Verifies, Refresh, Demote, Refreshed, Judge, Unsure, Confirm, Record, Identify, Fails,
     Onward, AfterRecovery, Passes, CommandTyped, Jobs
<1>6. CASE Recovers
  BY <1>6 DEF Recovers, Report, Undo, Rehook, Stop, AfterRecovery, Passes, CommandTyped, Jobs
<1>7. CASE Unanswered
  BY <1>7 DEF Unanswered, FenceFails, AckFails, CommandTyped
<1>8. CASE (\E p \in Providers : Save(p)) \/ Reassign \/ Kill \/ UNCHANGED vars
  BY <1>8 DEF Save, Reassign, Kill, CommandTyped
<1>. QED BY <1>1, <1>2, <1>3, <1>4, <1>5, <1>6, <1>7, <1>8 DEF Next, Command, Prepares, Installs

LEMMA TypeStep ==
  ASSUME TypeOK, CommandTyped, [Next]_vars
  PROVE  TypeOK' /\ CommandTyped'
<1>1. PlatformTyped /\ DiskTyped /\ RunTyped /\ MemoryTyped
  BY TypeParts
<1>2. PlatformTyped' /\ DiskTyped' /\ RunTyped' /\ MemoryTyped' /\ CommandTyped'
  BY <1>1, PlatformStep, DiskStep, RunStep, MemoryStep, CommandStep
<1>. QED BY <1>2 DEF TypeOK, PlatformTyped, DiskTyped, RunTyped, MemoryTyped

-----------------------------------------------------------------------------
(* The command's memory *)

(* Only the next provider, and the end of the command, put another one in hand. *)
LEMMA SameProvider ==
  ASSUME CommandTyped, [Next]_vars, ~Leave, ~Snapshot
  PROVE  Now' = Now
<1>. USE DEF CommandTyped, Jobs
<1>1. CASE Start \/ Fetch \/ Seed \/ Seeded \/ Finish \/ Refuse
  BY <1>1 DEF Start, Fetch, Seed, Seeded, Finish, Refuse
<1>2. CASE Prepare
  BY <1>2 DEF Prepare, SeedNetwork, QuickCommands, PluginCommands, MenuPriority, Writes, Fails
<1>3. CASE Look \/ Install \/ Release \/ Menu \/ Commit \/ Stage \/ Cycle \/ Unstage \/ Thrown \/ Fenced
  BY <1>3 DEF Look, Install, Release, Menu, Commit, Stage, Cycle, Unstage, Thrown, PutBack, Fenced, Fails
<1>4. CASE Verifies
  BY <1>4 DEF Verifies, Refresh, Demote, Refreshed, Judge, Unsure, Confirm, Record, Identify, Fails
<1>5. CASE Recovers
  BY <1>5 DEF Recovers, Report, Undo, Rehook, Stop
<1>6. CASE Unanswered
  BY <1>6 DEF Unanswered, FenceFails, AckFails
<1>7. CASE (\E p \in Providers : Save(p)) \/ Reassign \/ Kill \/ UNCHANGED vars
  BY <1>7 DEF Save, Reassign, Kill
<1>. QED BY <1>1, <1>2, <1>3, <1>4, <1>5, <1>6, <1>7 DEF Next, Command, Prepares, Installs

LEMMA OnItStep ==
  ASSUME OnIt, CommandTyped, [Next]_vars
  PROVE  OnIt'
<1>. USE DEF OnIt, Works
<1>1. CASE Start \/ Leave
  BY <1>1 DEF Start, Leave
<1>2. CASE Fetch
  BY <1>2, TelegramAssumption DEF Fetch, Ends
<1>3. CASE Seed \/ Seeded \/ Snapshot \/ Finish \/ Refuse
  BY <1>3 DEF Seed, Seeded, Snapshot, NoJob, Finish, Refuse, Passes, Ends
<1>4. CASE Prepare
  BY <1>4 DEF Prepare, SeedNetwork, QuickCommands, PluginCommands, MenuPriority, Writes, Fails, CommandTyped, Jobs
<1>5. CASE Look \/ Install \/ Release \/ Menu \/ Commit \/ Fenced
  BY <1>5 DEF Look, Install, Release, Menu, Commit, Fenced, Fails, CommandTyped, Jobs
<1>6. CASE Stage \/ Cycle \/ Unstage \/ Thrown
  BY <1>6 DEF Stage, Cycle, Unstage, Thrown, PutBack, Ends, CommandTyped, Jobs
<1>7. CASE Verifies
  BY <1>7 DEF Verifies, Refresh, Demote, Refreshed, Judge, Unsure, Confirm, Record, Identify, Fails,
     Onward, AfterRecovery, Passes, Ends, CommandTyped, Jobs
<1>8. CASE Recovers
  <2>1. Now' = Now
    BY <1>8, SameProvider DEF Recovers, Report, Undo, Rehook, Stop, Leave, Snapshot, Next, Command
  <2>. QED BY <1>8, <2>1 DEF Recovers, Report, Undo, Rehook, Stop, AfterRecovery, Passes, Ends
<1>9. CASE Unanswered
  BY <1>9 DEF Unanswered, FenceFails, AckFails, Ends
<1>10. CASE (\E p \in Providers : Save(p)) \/ Reassign \/ Kill \/ UNCHANGED vars
  BY <1>10 DEF Save, Reassign, Kill
<1>. QED BY <1>1, <1>2, <1>3, <1>4, <1>5, <1>6, <1>7, <1>8, <1>9, <1>10
            DEF Next, Command, Prepares, Installs

(* The installation neither tells the platform anything nor deals with a provider. *)
LEMMA InstallsKeep ==
  ASSUME Installs
  PROVE  UNCHANGED <<platform, todo, seen, outcome, applied, before>> /\ pc \in Works
<1>1. CASE Prepare
  BY <1>1 DEF Prepare, SeedNetwork, QuickCommands, PluginCommands, MenuPriority, Writes, Works
<1>2. CASE Look \/ Install \/ Release \/ Menu \/ Commit \/ Stage \/ Cycle \/ Unstage \/ Thrown \/ Fenced
  BY <1>2 DEF Look, Install, Release, Menu, Commit, Stage, Cycle, Unstage, Thrown, PutBack, Fenced, Works
<1>. QED BY <1>1, <1>2 DEF Installs

(* A refused or lost answer ends the command. *)
LEMMA UnansweredEnds ==
  ASSUME Unanswered
  PROVE  pc' \in {"stop", "over"}
  BY DEF Unanswered, FenceFails, AckFails, Ends

(* After a failure is reported, the platform does not show the provider as connected. *)
LEMMA FailureSaid ==
  ASSUME PlatformTyped, NEW p \in Providers, seen[p] # saved[p] => status[p] = "pending", Says(p, Failed)
  PROVE  /\ saved' = saved /\ status'[p] # "connected"
         /\ \A q \in Providers : status'[q] = status[q] \/ (status'[q] = Failed /\ seen[q] = saved[q])
  BY DEF PlatformTyped, Says

LEMMA SuccessSaid ==
  ASSUME PlatformTyped, NEW p \in Providers, Says(p, "connected")
  PROVE  /\ saved' = saved
         /\ \A q \in Providers : status'[q] = status[q] \/ (q = p /\ seen[q] = saved[q])
  BY DEF PlatformTyped, Says

LEMMA OutcomesStep ==
  ASSUME TypeOK, CommandTyped, OnIt, Outcomes, Recovery, [Next]_vars
  PROVE  Outcomes'
<1>. SUFFICES ASSUME pc' \in Active PROVE Outcomes'
  BY DEF Outcomes
<1>. USE DEF Outcomes
<1>0. PlatformTyped /\ MemoryTyped /\ Now \in Providers
  BY TypeParts DEF CommandTyped, Jobs
<1>1. CASE Start \/ Leave \/ Unanswered \/ Kill
  BY <1>1, UnansweredEnds DEF Start, Leave, Kill, Active, Works
<1>2. CASE Fetch
  BY <1>2 DEF Fetch, Listed
<1>3. CASE Seed \/ Seeded \/ Snapshot \/ Finish
  BY <1>3 DEF Seed, Seeded, Snapshot, Finish, Active
<1>4. CASE Installs
  BY <1>4, InstallsKeep DEF Active
<1>5. ASSUME Says(Now, Failed), pc \in Works, UNCHANGED seen,
             UNCHANGED <<todo, outcome>> \/ Passes(Failed)
      PROVE  Outcomes'
  <2>1. seen[Now] # saved[Now] => status[Now] = "pending"
    BY <1>0, <1>5 DEF Active
  <2>. QED BY <1>0, <1>5, <2>1, FailureSaid DEF Active, MemoryTyped, Passes
<1>6. CASE Refuse \/ Unsure
  BY <1>5, <1>6 DEF Refuse, Unsure, Works
<1>7. CASE Refresh \/ Refreshed
  <2>1. UNCHANGED <<platform, seen>> /\ pc \in Works
    BY <1>7 DEF Refresh, Refreshed, Works
  <2>2. UNCHANGED <<todo, outcome>> \/ (Passes(Failed) /\ job.recovering /\ ~job.raises)
    BY <1>7 DEF Refresh, Refreshed, Onward, AfterRecovery
  <2>3. pc # "report" /\ (job.recovering => job.raises \/ status[Now] # "connected")
    BY <1>7, <2>1 DEF Refresh, Refreshed, Recovery
  <2>. QED BY <1>0, <2>1, <2>2, <2>3 DEF Active, MemoryTyped, Passes
<1>8. ASSUME NEW p \in Providers, Demote(p) PROVE Outcomes'
  <2>1. p \in Survivors /\ pc \in Active /\ Says(p, Failed) /\ UNCHANGED <<seen, todo>>
        /\ outcome' = [outcome EXCEPT ![p] = Failed]
    BY <1>8 DEF Demote, Gone, Active, Works
  <2>2. seen[p] # saved[p] => status[p] = "pending"
    BY <2>1
  <2>3. p \notin todo
    BY <2>1 DEF Survivors
  <2>. QED BY <1>0, <2>1, <2>2, <2>3, FailureSaid DEF MemoryTyped
<1>9. CASE Judge
  BY <1>9 DEF Judge, Active, Works
<1>10. CASE Confirm
  <2>1. Says(Now, "connected") /\ pc \in Works /\ UNCHANGED <<seen, todo, outcome>>
    BY <1>10 DEF Confirm, Works
  <2>2. outcome[Now] = "none"
    BY <1>0, <2>1 DEF OnIt, Active
  <2>. QED BY <1>0, <2>1, <2>2, SuccessSaid DEF Active
<1>11. CASE Record \/ Identify
  <2>1. UNCHANGED <<platform, seen>> /\ pc \in Works
        /\ (UNCHANGED <<todo, outcome>> \/ Passes("connected"))
    BY <1>11 DEF Record, Identify, Works
  <2>. QED BY <1>0, <2>1 DEF Active, MemoryTyped, Passes
<1>12. CASE Report
  <2>1. pc \in Works /\ UNCHANGED seen
        /\ (Says(Now, Failed) \/ (UNCHANGED platform /\ job'.raises))
    BY <1>12 DEF Report, Lost, Works, CommandTyped, Jobs
  <2>2. UNCHANGED <<todo, outcome>> \/ (Passes(Failed) /\ ~job'.raises)
    BY <1>12 DEF Report
  <2>. QED BY <1>5, <2>1, <2>2 DEF Active
<1>13. CASE Undo \/ Rehook
  <2>1. UNCHANGED <<platform, seen>> /\ pc \in Works
    BY <1>13 DEF Undo, Rehook, Works
  <2>2. UNCHANGED <<todo, outcome>> \/ (Passes(Failed) /\ ~job.raises)
    BY <1>13 DEF Undo, Rehook, AfterRecovery
  <2>3. job.raises \/ status[Now] # "connected"
    BY <1>13 DEF Undo, Rehook, Recovery, Works
  <2>. QED BY <1>0, <2>1, <2>2, <2>3 DEF Active, MemoryTyped, Passes
<1>14. CASE Stop
  BY <1>14 DEF Stop, Active, Works
<1>15. ASSUME NEW p \in Providers, Save(p) PROVE Outcomes'
  BY <1>0, <1>15 DEF Save, PlatformTyped
<1>16. CASE Reassign \/ UNCHANGED vars
  BY <1>16 DEF Reassign
<1>. QED BY <1>1, <1>2, <1>3, <1>4, <1>6, <1>7, <1>8, <1>9, <1>10, <1>11, <1>12, <1>13, <1>14, <1>15, <1>16
            DEF Next, Command, Prepares, Verifies, Recovers

LEMMA RecoveryStep ==
  ASSUME TypeOK, CommandTyped, OnIt, Outcomes, Recovery, [Next]_vars
  PROVE  Recovery'
<1>. USE DEF Recovery
<1>0. PlatformTyped /\ Now \in Providers /\ job \in Jobs
  BY TypeParts DEF CommandTyped, Jobs
<1>1. CASE Start \/ Leave \/ Unanswered \/ Kill
  BY <1>1, UnansweredEnds DEF Start, Leave, Kill, Works
<1>2. CASE Fetch \/ Seed \/ Seeded \/ Finish \/ Refuse
  BY <1>2 DEF Fetch, Seed, Seeded, Finish, Refuse, Passes, Ends, Works
<1>3. CASE Snapshot
  BY <1>3 DEF Snapshot, NoJob, Works
<1>4. CASE Installs
  <2>1. Now' = Now /\ UNCHANGED status /\ pc \in Works \ {"report"}
    BY <1>0, <1>4, SameProvider, InstallsKeep
       DEF Installs, Prepare, SeedNetwork, QuickCommands, PluginCommands, MenuPriority, Writes, Look, Install,
           Release, Menu, Commit, Stage, Cycle, Unstage, Thrown, PutBack, Fenced, Leave, Snapshot, Works
  <2>2. CASE Prepare
    BY <1>0, <2>1, <2>2 DEF Prepare, SeedNetwork, QuickCommands, PluginCommands, MenuPriority, Writes, Fails, Jobs
  <2>3. CASE Look \/ Install \/ Release \/ Menu \/ Commit \/ Fenced
    BY <1>0, <2>1, <2>3 DEF Look, Install, Release, Menu, Commit, Fenced, Fails, Jobs
  <2>4. CASE Stage \/ Cycle \/ Unstage \/ Thrown
    BY <1>0, <2>1, <2>4 DEF Stage, Cycle, Unstage, Thrown, PutBack, Ends, Jobs, Works
  <2>. QED BY <1>4, <2>2, <2>3, <2>4 DEF Installs
<1>5. CASE Refresh \/ Refreshed
  <2>1. UNCHANGED <<job, platform>> /\ pc \in Works \ {"report"}
    BY <1>5 DEF Refresh, Refreshed, Works
  <2>2. pc' = "judge" => ~job.recovering
    BY <1>5 DEF Refresh, Refreshed, Onward, AfterRecovery, Passes, Ends
  <2>3. pc' \in {"demote", "judge", "next", "stop", "over"}
    BY <1>5 DEF Refresh, Refreshed, Onward, AfterRecovery, Passes, Ends
  <2>. QED BY <2>1, <2>2, <2>3 DEF Works
<1>6. ASSUME NEW p \in Providers, Demote(p) PROVE Recovery'
  <2>1. Says(p, Failed) /\ UNCHANGED <<job, seen>> /\ pc = "demote" /\ pc' = "demote"
    BY <1>6 DEF Demote
  <2>2. seen[p] # saved[p] => status[p] = "pending"
    BY <2>1 DEF Outcomes, Active, Works
  <2>. QED BY <1>0, <2>1, <2>2, FailureSaid DEF Works
<1>7. CASE Judge \/ Unsure \/ Confirm \/ Record \/ Identify
  BY <1>0, <1>7 DEF Judge, Unsure, Confirm, Record, Identify, Fails, Passes, Ends, Works, Jobs
<1>8. CASE Report
  <2>1. /\ pc' \in {"undo", "next", "stop", "over"} /\ Now' = Now /\ UNCHANGED seen
        /\ job'.recovering = job.recovering /\ (Says(Now, Failed) \/ job'.raises)
    BY <1>0, <1>8 DEF Report, Lost, Passes, Ends, Jobs
  <2>2. seen[Now] # saved[Now] => status[Now] = "pending"
    BY <1>0, <1>8 DEF Report, Outcomes, Active, Works
  <2>. QED BY <1>0, <1>8, <2>1, <2>2, FailureSaid DEF Report, Works
<1>9. CASE Undo
  <2>1. /\ pc \in Works \ {"report"} /\ Now' = Now /\ UNCHANGED status
        /\ job'.recovering = job.recovering /\ (job.raises => job'.raises)
    BY <1>0, <1>9 DEF Undo, Works, Jobs
  <2>2. pc' \in {"stage", "rehook", "refresh", "next", "stop", "over"}
    BY <1>9 DEF Undo, AfterRecovery, Passes, Ends
  <2>. QED BY <1>9, <2>1, <2>2 DEF Undo, Works
<1>10. CASE Rehook
  <2>1. /\ pc \in Works \ {"report"} /\ Now' = Now /\ UNCHANGED status
        /\ job'.recovering = job.recovering /\ (job.raises => job'.raises)
    BY <1>0, <1>10 DEF Rehook, Works, Jobs
  <2>2. pc' \in {"refresh", "next", "stop", "over"}
    BY <1>10 DEF Rehook, AfterRecovery, Passes, Ends
  <2>. QED BY <2>1, <2>2 DEF Works
<1>11. CASE Stop
  BY <1>11 DEF Stop, Works
<1>12. ASSUME NEW p \in Providers, Save(p) PROVE Recovery'
  BY <1>0, <1>12 DEF Save, PlatformTyped
<1>13. CASE Reassign \/ UNCHANGED vars
  BY <1>13 DEF Reassign
<1>. QED BY <1>1, <1>2, <1>3, <1>4, <1>5, <1>6, <1>7, <1>8, <1>9, <1>10, <1>11, <1>12, <1>13
            DEF Next, Command, Prepares, Verifies, Recovers

LEMMA StillToDoStep ==
  ASSUME TypeOK, CommandTyped, OnIt, Outcomes, StillToDo, [Next]_vars
  PROVE  StillToDo'
<1>. USE DEF StillToDo
<1>0. PlatformTyped /\ DiskTyped /\ Now \in Providers /\ todo \subseteq Providers
  BY TypeParts DEF CommandTyped, Jobs
<1>1. CASE Start \/ Leave \/ Unanswered \/ Kill \/ Stop
  BY <1>1, UnansweredEnds DEF Start, Leave, Kill, Stop, Active, Works
<1>2. CASE Fetch
  BY <1>2 DEF Fetch, Ends, Skips, Active, Works
<1>3. CASE Seed \/ Finish
  BY <1>3 DEF Seed, Finish, Ends, Active, Works
<1>4. ASSUME UNCHANGED <<status, saved, applied, model>>, todo' \subseteq todo, pc \in Active \ {"seed"},
             \/ pc \notin {"record", "identify"}
             \/ pc' = pc /\ Now' = Now
             \/ Now \notin todo'
      PROVE  StillToDo'
  BY <1>4 DEF Skips, Works
<1>5. CASE Seeded \/ Snapshot
  BY <1>4, <1>5 DEF Seeded, Snapshot, Active, Works
<1>6. CASE Installs
  <2>1. UNCHANGED <<todo, status, saved, applied>> /\ pc \in Works \ {"record", "identify"}
    BY <1>6, InstallsKeep
       DEF Installs, Prepare, SeedNetwork, QuickCommands, PluginCommands, MenuPriority, Writes, Look, Install,
           Release, Menu, Commit, Stage, Cycle, Unstage, Thrown, PutBack, Fenced, Works
  <2>2. UNCHANGED model
    BY <1>6 DEF Installs, Prepare, SeedNetwork, QuickCommands, PluginCommands, MenuPriority, Writes, Look,
                Install, Release, Menu, Commit, Stage, Cycle, Unstage, Thrown, PutBack, Fenced
  <2>. QED BY <1>4, <2>1, <2>2 DEF Active, Works
<1>7. ASSUME NEW p \in Providers, Says(p, Failed), UNCHANGED <<seen, applied, model>>, todo' \subseteq todo,
             pc \in Works \ {"record", "identify"}
      PROVE  StillToDo'
  <2>1. seen[p] # saved[p] => status[p] = "pending"
    BY <1>7 DEF Outcomes, Active
  <2>2. \A q \in Providers : Skips(q)' => Skips(q)
    BY <1>0, <1>7, <2>1, FailureSaid DEF Skips
  <2>. QED BY <1>0, <1>7, <2>2 DEF Active, Works
<1>8. CASE Refuse \/ Unsure
  BY <1>0, <1>7, <1>8 DEF Refuse, Unsure, Passes, Works
<1>9. CASE Refresh \/ Refreshed \/ Judge
  BY <1>4, <1>9 DEF Refresh, Refreshed, Judge, Onward, AfterRecovery, Passes, Active, Works
<1>10. ASSUME NEW p \in Providers, Demote(p) PROVE StillToDo'
  BY <1>7, <1>10 DEF Demote, Works
<1>11. CASE Confirm
  <2>1. Says(Now, "connected") /\ pc = "confirm" /\ pc' = "record" /\ UNCHANGED <<todo, job, applied, model>>
    BY <1>11 DEF Confirm
  <2>2. \A q \in Providers \ {Now} : Skips(q)' => Skips(q)
    BY <1>0, <2>1, SuccessSaid DEF Says, PlatformTyped, Skips
  <2>. QED BY <1>0, <2>1, <2>2 DEF Active, Works
<1>12. CASE Record
  <2>1. \/ pc' \in {"stop", "over"}
        \/ /\ applied' = [applied EXCEPT ![Now] = seen[Now]] /\ UNCHANGED <<platform, model, job>>
           /\ pc = "record"
           /\ \/ todo' = todo \ {Now} /\ pc' = "next"
              \/ todo' = todo /\ pc' = "identify"
    BY <1>12 DEF Record, Passes, Ends
  <2>2. CASE pc' \notin {"stop", "over"}
    <3>1. \A q \in Providers \ {Now} : Skips(q)' => Skips(q)
      BY <1>0, <2>1, <2>2 DEF DiskTyped, Skips
    <3>. QED BY <1>0, <2>1, <2>2, <3>1 DEF Active, Works
  <2>. QED BY <2>2 DEF Active, Works
<1>13. CASE Identify
  BY <1>4, <1>13 DEF Identify, Passes, Active, Works
<1>14. CASE Report
  <2>1. /\ pc \in Works \ {"record", "identify"} /\ UNCHANGED <<seen, applied, model>>
        /\ todo' \subseteq todo \/ pc' \in {"stop", "over"}
    BY <1>14 DEF Report, Passes, Works
  <2>2. Says(Now, Failed) \/ UNCHANGED platform
    BY <1>14 DEF Report, Lost
  <2>. QED BY <1>0, <1>4, <1>7, <2>1, <2>2 DEF Active, Works
<1>15. CASE Undo \/ Rehook
  BY <1>4, <1>15 DEF Undo, Rehook, AfterRecovery, Passes, Active, Works
<1>16. ASSUME NEW p \in Providers, Save(p) PROVE StillToDo'
  BY <1>0, <1>16 DEF Save, PlatformTyped, Skips
<1>17. CASE Reassign \/ UNCHANGED vars
  BY <1>17 DEF Reassign, Skips
<1>. QED BY <1>1, <1>2, <1>3, <1>5, <1>6, <1>8, <1>9, <1>10, <1>11, <1>12, <1>13, <1>14, <1>15, <1>16, <1>17
            DEF Next, Command, Prepares, Verifies, Recovers

-----------------------------------------------------------------------------
(* The gateway's evidence *)

LEMMA EvidenceStep ==
  ASSUME TypeOK, CommandTyped, OnIt, Evidence, Recovery, [Next]_vars
  PROVE  Evidence'
<1>. USE DEF Evidence, SurvivorsServed, Survivors
<1>0. MemoryTyped /\ RunTyped /\ Now \in Providers /\ job \in Jobs
  BY TypeParts DEF CommandTyped, Jobs
<1>1. CASE Start \/ Leave \/ Unanswered \/ Kill \/ Stop
  BY <1>1, UnansweredEnds DEF Start, Leave, Kill, Stop, Works
<1>2. CASE Fetch \/ Seed \/ Seeded \/ Finish
  BY <1>2, TelegramAssumption DEF Fetch, Seed, Seeded, Finish, Ends, OnIt, Works
<1>3. CASE Snapshot
  BY <1>3 DEF Snapshot, NoJob, Works
<1>4. ASSUME Passes(Failed) PROVE Evidence'
  BY <1>0, <1>4 DEF Passes, MemoryTyped, Works
<1>5. ASSUME Passes("connected"), link[Now] = "up", SurvivorsServed, UNCHANGED <<link, gateway>>,
             gateway = "healthy"
      PROVE  Evidence'
  BY <1>0, <1>5 DEF Passes, MemoryTyped, Works
<1>6. CASE Refuse \/ Unsure
  BY <1>4, <1>6 DEF Refuse, Unsure
<1>7. CASE Prepare
  BY <1>0, <1>7 DEF Prepare, SeedNetwork, QuickCommands, PluginCommands, MenuPriority, Writes, Fails, Works, Jobs
<1>8. CASE Look \/ Install \/ Release \/ Menu \/ Commit \/ Unstage \/ Thrown \/ Fenced
  <2>1. CASE Look \/ Install \/ Release \/ Menu \/ Commit \/ Fenced
    BY <1>0, <2>1 DEF Look, Install, Release, Menu, Commit, Fenced, Fails, Works, Jobs
  <2>2. CASE Unstage \/ Thrown
    BY <1>0, <2>2 DEF Unstage, Thrown, PutBack, Ends, Works, Jobs
  <2>. QED BY <1>8, <2>1, <2>2
<1>9. CASE Stage
  BY <1>0, <1>9 DEF Stage, Ends, Works, Jobs
<1>10. CASE Cycle
  <2>1. /\ gateway' \in {"healthy", "sick"} /\ job' = [job EXCEPT !.sound = gateway' = "healthy"]
        /\ pc' \in {"unstage", "thrown"}
    BY <1>10 DEF Cycle
  <2>. QED BY <1>0, <2>1 DEF Jobs
<1>11. CASE Refresh \/ Refreshed
  <2>1. UNCHANGED <<job, gateway, link>> /\ pc \in Works \ {"cycle"}
    BY <1>11 DEF Refresh, Refreshed, Works
  <2>2. job.sound => gateway = "healthy"
    BY <2>1
  <2>3. CASE pc' = "judge"
    <3>1. UNCHANGED outcome /\ Gone = {}
      BY <1>11, <2>3 DEF Refresh, Refreshed, Onward, AfterRecovery, Passes, Ends, Gone
    <3>2. job.sound => SurvivorsServed
      BY <3>1 DEF Gone
    <3>. QED BY <2>1, <2>2, <2>3, <3>1, <3>2
  <2>4. CASE pc' = "next"
    BY <1>4, <1>11, <2>4 DEF Refresh, Refreshed, Onward, AfterRecovery, Ends
  <2>5. pc' \in {"judge", "next", "demote", "stop", "over"}
    BY <1>11 DEF Refresh, Refreshed, Onward, AfterRecovery, Passes, Ends
  <2>. QED BY <2>1, <2>2, <2>3, <2>4, <2>5 DEF Works
<1>12. ASSUME NEW p \in Providers, Demote(p) PROVE Evidence'
  BY <1>12 DEF Demote, Works
<1>13. CASE Judge
  BY <1>0, <1>13 DEF Judge, Fails, Works, Jobs
<1>14. CASE Confirm
  BY <1>14 DEF Confirm, Works
<1>15. CASE Record \/ Identify
  <2>1. /\ UNCHANGED <<job, gateway, link>> /\ link[Now] = "up" /\ SurvivorsServed /\ job.sound
        /\ gateway = "healthy"
    BY <1>15 DEF Record, Identify, Works
  <2>2. \/ Passes("connected")
        \/ pc' \in {"stop", "over"}
        \/ pc' = "identify" /\ UNCHANGED outcome
    BY <1>15 DEF Record, Identify, Ends
  <2>. QED BY <1>5, <2>1, <2>2 DEF Works
<1>16. CASE Report
  <2>1. \/ Passes(Failed)
        \/ pc' \in {"stop", "over"}
        \/ pc' = "undo" /\ ~job'.sound
    BY <1>0, <1>16 DEF Report, Ends, Jobs
  <2>. QED BY <1>4, <2>1 DEF Works
<1>17. CASE Undo \/ Rehook
  <2>1. \/ Passes(Failed)
        \/ pc' \in {"stop", "over", "stage", "rehook", "refresh"}
    BY <1>17 DEF Undo, Rehook, AfterRecovery, Ends
  <2>2. UNCHANGED gateway /\ job'.sound = job.sound /\ pc \in Works \ {"cycle"}
    BY <1>0, <1>17 DEF Undo, Rehook, Works, Jobs
  <2>. QED BY <1>4, <2>1, <2>2 DEF Works
<1>18. CASE (\E p \in Providers : Save(p)) \/ Reassign \/ UNCHANGED vars
  BY <1>18 DEF Save, Reassign
<1>. QED BY <1>1, <1>2, <1>3, <1>6, <1>7, <1>8, <1>9, <1>10, <1>11, <1>12, <1>13, <1>14, <1>15, <1>16, <1>17, <1>18
            DEF Next, Command, Prepares, Installs, Verifies, Recovers

-----------------------------------------------------------------------------
(* Rejections *)

(* Only the owner before can be given up: by the platform, not by a command. *)
LEMMA MineStep ==
  ASSUME CommandTyped, [Next]_vars
  PROVE  mine' = mine \/ (mine /\ ~mine' /\ Reassign)
  BY PlatformMoves DEF Says, Save, Reassign

(* How a command comes to be rejected. *)
LEMMA RejectionIsFound ==
  ASSUME Rejection, RunTyped, CommandTyped, [Next]_vars, ending # "rejected", ending' = "rejected"
  PROVE  /\ ~mine /\ pc \notin {"idle", "over"} /\ pc' = "over"
         /\ \/ ~changed /\ UNCHANGED <<disk, before>>
            \/ gateway' = "down"
<1>. USE DEF Ends
<1>1. CASE Unanswered
  BY <1>1 DEF Unanswered, FenceFails, AckFails, Lost
<1>2. CASE Stop
  BY <1>2 DEF Stop, Rejection
<1>3. CASE Start \/ Leave \/ Prepares
  BY <1>3 DEF Start, Leave, Prepares, Fetch, Seed, Seeded, Snapshot, Finish, Refuse, Passes
<1>4. CASE Prepare
  BY <1>4 DEF Prepare, SeedNetwork, QuickCommands, PluginCommands, MenuPriority, Writes, Fails
<1>5. CASE Look \/ Install \/ Release \/ Menu \/ Commit \/ Stage \/ Cycle \/ Unstage \/ Thrown \/ Fenced
  BY <1>5 DEF Look, Install, Release, Menu, Commit, Stage, Cycle, Unstage, Thrown, PutBack, Fenced, Fails
<1>6. CASE Verifies
  BY <1>6 DEF Verifies, Refresh, Demote, Refreshed, Judge, Unsure, Confirm, Record, Identify, Fails,
     Onward, AfterRecovery, Passes
<1>7. CASE Report \/ Undo \/ Rehook
  BY <1>7 DEF Report, Undo, Rehook, AfterRecovery, Passes
<1>8. CASE (\E p \in Providers : Save(p)) \/ Reassign \/ Kill \/ UNCHANGED vars
  BY <1>8 DEF Save, Reassign, Kill
<1>. QED BY <1>1, <1>2, <1>3, <1>4, <1>5, <1>6, <1>7, <1>8 DEF Next, Command, Installs, Recovers

(* Where a command goes from where it is. *)
LEMMA StopComesLate ==
  ASSUME CommandTyped, [Next]_vars, pc # "stop", pc' = "stop"
  PROVE  ~mine
<1>. USE DEF Ends
<1>1. CASE Unanswered
  BY <1>1 DEF Unanswered, FenceFails, AckFails, Lost
<1>2. CASE Start \/ Leave \/ Prepares
  BY <1>2 DEF Start, Leave, Prepares, Fetch, Seed, Seeded, Snapshot, Finish, Refuse, Passes
<1>3. CASE Prepare
  BY <1>3 DEF Prepare, SeedNetwork, QuickCommands, PluginCommands, MenuPriority, Writes, Fails
<1>4. CASE Look \/ Install \/ Release \/ Menu \/ Commit \/ Stage \/ Cycle \/ Unstage \/ Thrown \/ Fenced
  BY <1>4 DEF Look, Install, Release, Menu, Commit, Stage, Cycle, Unstage, Thrown, PutBack, Fenced, Fails
<1>5. CASE Verifies
  BY <1>5 DEF Verifies, Refresh, Demote, Refreshed, Judge, Unsure, Confirm, Record, Identify, Fails,
     Onward, AfterRecovery, Passes
<1>6. CASE Recovers
  BY <1>6 DEF Recovers, Report, Undo, Rehook, Stop, AfterRecovery, Passes
<1>7. CASE (\E p \in Providers : Save(p)) \/ Reassign \/ Kill \/ UNCHANGED vars
  BY <1>7 DEF Save, Reassign, Kill
<1>. QED BY <1>1, <1>2, <1>3, <1>4, <1>5, <1>6, <1>7 DEF Next, Command, Installs

(* A command that has not marked itself as changed leaves the disk as it found it. *)
LEMMA Untouched ==
  ASSUME CommandTyped, Rejection, [Next]_vars, ~changed', pc \notin {"idle", "over"},
         pc' \notin {"idle", "over"}
  PROVE  ~changed /\ UNCHANGED <<disk, before>>
<1>. USE DEF Rejection
<1>1. CASE Prepares
  BY <1>1 DEF Prepares, Fetch, Seed, Seeded, Snapshot, Finish, Refuse, Ends
<1>2. CASE Prepare \/ Install
  BY <1>2 DEF Prepare, SeedNetwork, QuickCommands, PluginCommands, MenuPriority, Writes, Install
<1>3. CASE Look \/ Release \/ Menu \/ Commit \/ Stage \/ Cycle \/ Unstage \/ Thrown \/ Fenced
  BY <1>3 DEF Look, Release, Menu, Commit, Stage, Cycle, Unstage, Thrown, PutBack, Fenced
<1>4. CASE Verifies
  BY <1>4 DEF Verifies, Refresh, Demote, Refreshed, Judge, Unsure, Confirm, Record, Identify
<1>5. CASE Recovers
  BY <1>5 DEF Recovers, Report, Undo, Rehook, Stop, Works
<1>6. CASE Unanswered
  BY <1>6 DEF Unanswered, FenceFails, AckFails
<1>7. CASE Start \/ Leave \/ (\E p \in Providers : Save(p)) \/ Reassign \/ Kill \/ UNCHANGED vars
  BY <1>7 DEF Start, Leave, Save, Reassign, Kill
<1>. QED BY <1>1, <1>2, <1>3, <1>4, <1>5, <1>6, <1>7 DEF Next, Command, Installs

(* It marks itself as changed before it writes. *)
LEMMA MarkedStep ==
  ASSUME CommandTyped, MemoryTyped, Rejection, [Next]_vars
  PROVE  /\ pc' \in {"network", "quick", "plugin", "priority"} => changed'
         /\ pc' \in Works /\ job'.wrote => changed'
         /\ pc' = "undo" => job'.wrote
<1>. USE DEF Rejection, Works
<1>0. job \in Jobs /\ changed \in BOOLEAN
  BY DEF CommandTyped, MemoryTyped
<1>1. CASE Start \/ Leave \/ Unanswered \/ Kill
  BY <1>1, UnansweredEnds DEF Start, Leave, Kill
<1>2. CASE Fetch \/ Seed \/ Seeded \/ Finish \/ Refuse
  BY <1>2 DEF Fetch, Seed, Seeded, Finish, Refuse, Passes, Ends
<1>3. CASE Snapshot
  BY <1>3 DEF Snapshot, NoJob
<1>4. CASE Prepare
  BY <1>0, <1>4 DEF Prepare, SeedNetwork, QuickCommands, PluginCommands, MenuPriority, Writes, Fails, Jobs
<1>5. CASE Look \/ Install \/ Release \/ Menu \/ Commit \/ Fenced
  BY <1>0, <1>5 DEF Look, Install, Release, Menu, Commit, Fenced, Fails, Jobs
<1>6. CASE Stage \/ Cycle \/ Unstage \/ Thrown
  BY <1>0, <1>6 DEF Stage, Cycle, Unstage, Thrown, PutBack, Ends, Jobs
<1>7. CASE Verifies
  BY <1>0, <1>7 DEF Verifies, Refresh, Demote, Refreshed, Judge, Unsure, Confirm, Record, Identify, Fails,
     Onward, AfterRecovery, Passes, Ends, Jobs
<1>8. CASE Recovers
  <2>1. job'.wrote = job.wrote /\ UNCHANGED changed /\ pc \in Works \union {"stop"}
    BY <1>0, <1>8 DEF Recovers, Report, Undo, Rehook, Stop, Jobs
  <2>2. pc' = "undo" => job.wrote
    BY <1>8 DEF Recovers, Report, Undo, Rehook, Stop, AfterRecovery, Passes, Ends
  <2>3. pc = "stop" => pc' = "over"
    BY <1>8 DEF Recovers, Report, Undo, Rehook, Stop
  <2>4. pc' \notin {"network", "quick", "plugin", "priority"}
    BY <1>8 DEF Recovers, Report, Undo, Rehook, Stop, AfterRecovery, Passes, Ends
  <2>. QED BY <2>1, <2>2, <2>3, <2>4
<1>9. CASE (\E p \in Providers : Save(p)) \/ Reassign \/ UNCHANGED vars
  BY <1>9 DEF Save, Reassign
<1>. QED BY <1>1, <1>2, <1>3, <1>4, <1>5, <1>6, <1>7, <1>8, <1>9 DEF Next, Command, Prepares, Installs

(* A rejected command, once over, is the last one. *)
LEMMA RejectedRests ==
  ASSUME Rejection, [Next]_vars, ending = "rejected"
  PROVE  UNCHANGED <<disk, before, gateway, mine>> /\ pc' \in {"idle", "over"}
<1>1. pc \in {"idle", "over"} /\ ~mine
  BY DEF Rejection
<1>2. ~Prepares /\ ~Verifies
  BY <1>1 DEF Prepares, Fetch, Seed, Seeded, Snapshot, Finish, Refuse, Verifies, Refresh, Demote, Refreshed,
              Judge, Unsure, Confirm, Record, Identify
<1>3. ~Installs /\ ~Recovers
  BY <1>1, InstallsKeep DEF Works, Recovers, Report, Undo, Rehook, Stop
<1>4. ~Unanswered /\ ~Start
  BY <1>1 DEF Unanswered, Start
<1>. QED BY <1>1, <1>2, <1>3, <1>4 DEF Next, Command, Leave, Save, Reassign, Kill

LEMMA Started ==
  ASSUME [Next]_vars, pc \in {"idle", "over"}, pc' \notin {"idle", "over"}
  PROVE  Start
<1>1. ~Prepares /\ ~Verifies
  BY DEF Prepares, Fetch, Seed, Seeded, Snapshot, Finish, Refuse, Verifies, Refresh, Demote, Refreshed,
              Judge, Unsure, Confirm, Record, Identify
<1>2. ~Installs /\ ~Recovers
  BY InstallsKeep DEF Works, Recovers, Report, Undo, Rehook, Stop
<1>. QED BY <1>1, <1>2 DEF Next, Command, Leave, Save, Reassign, Kill, Unanswered

LEMMA RejectionStep ==
  ASSUME TypeOK, CommandTyped, Rejection, [Next]_vars
  PROVE  Rejection'
<1>0. RunTyped /\ MemoryTyped
  BY TypeParts
<1>1. ending' = "rejected" => ~mine' /\ pc' \in {"idle", "over"}
  <2>1. CASE ending = "rejected"
    BY <2>1, RejectedRests DEF Rejection
  <2>2. CASE ending # "rejected"
    BY <1>0, <2>2, RejectionIsFound, MineStep
  <2>. QED BY <2>1, <2>2
<1>2. pc' = "stop" => ~mine'
  BY StopComesLate, MineStep DEF Rejection
<1>3. pc' \notin {"idle", "over"} /\ ~changed' => disk' = before'
  <2>1. CASE pc \in {"idle", "over"}
    BY <2>1, Started DEF Start
  <2>2. CASE pc \notin {"idle", "over"}
    BY <2>2, Untouched DEF Rejection
  <2>. QED BY <2>1, <2>2
<1>. QED BY <1>0, <1>1, <1>2, <1>3, MarkedStep DEF Rejection

LEMMA RejectedStep ==
  ASSUME TypeOK, CommandTyped, Rejection, RejectedIsStopped, [Next]_vars
  PROVE  RejectedIsStopped'
<1>1. CASE ending = "rejected"
  BY <1>1, RejectedRests DEF RejectedIsStopped
<1>2. CASE ending # "rejected"
  BY <1>2, RejectionIsFound, TypeParts DEF RejectedIsStopped, Rejection
<1>. QED BY <1>1, <1>2

-----------------------------------------------------------------------------
(* No lost success goes unnoticed *)

Served(p) == gateway = "healthy" /\ link[p] # "down"

LEMMA SameStale ==
  ASSUME NoStaleSuccess, mine' => mine, UNCHANGED <<model, status, applied, saved, gateway, link>>
  PROVE  NoStaleSuccess'
  BY DEF NoStaleSuccess, Noticed, Skips

(* A provider that is left, or was said to have failed, makes the next command look again. *)
LEMMA LeftIsEnough ==
  ASSUME NEW p \in Providers, ~Skips(p)'
  PROVE  NoStaleSuccess'
  BY DEF NoStaleSuccess, Noticed

LEMMA FailureNoticed ==
  ASSUME TypeOK, Outcomes, NoStaleSuccess, NEW p \in Providers, pc \in Active, Says(p, Failed),
         UNCHANGED <<seen, model, applied, gateway, link>>
  PROVE  NoStaleSuccess'
<1>1. PlatformTyped /\ (seen[p] # saved[p] => status[p] = "pending")
  BY TypeParts DEF Outcomes
<1>2. ~Skips(p)'
  BY <1>1, FailureSaid DEF Skips
<1>. QED BY <1>2, LeftIsEnough

(* When the list is dealt with, everything the next command would skip is served: so it is for all but
   the last provider while its success is confirmed and recorded. *)
LEMMA SkippedServed ==
  ASSUME CommandTyped, MemoryTyped, Outcomes, StillToDo, Evidence, model # "unproven",
         pc \in {"confirm", "record", "identify"}, NEW p \in Providers \ {Now}, Skips(p)
  PROVE  Served(p)
<1>1. pc \in Active \ {"seed", "cycle"} /\ pc \in Works \ {"cycle"}
  BY DEF Active, Works
<1>2. outcome[p] # "none" /\ outcome[p] # Failed
  BY <1>1 DEF Outcomes, StillToDo, Skips
<1>3. p \in Survivors
  BY <1>2 DEF MemoryTyped, Survivors
<1>. QED BY <1>1, <1>3 DEF Evidence, SurvivorsServed, Served

LEMMA ConfirmedServed ==
  ASSUME TypeOK, CommandTyped, Outcomes, StillToDo, Evidence, NoStaleSuccess,
         pc \in {"confirm", "record", "identify"}, UNCHANGED <<model, gateway, link, saved>>,
         \A q \in Providers \ {Now} : Skips(q)' => Skips(q)
  PROVE  NoStaleSuccess'
<1>1. MemoryTyped /\ Now \in Providers
  BY TypeParts DEF CommandTyped, Jobs
<1>2. Served(Now)
  BY DEF Evidence, Served, Works
<1>3. model # "unproven" => \A q \in Providers : Skips(q)' => Served(q)
  BY <1>1, <1>2, SkippedServed
<1>. QED BY <1>3 DEF NoStaleSuccess, Noticed, Served

LEMMA FinishedServed ==
  ASSUME TypeOK, CommandTyped, Outcomes, Evidence, Finish
  PROVE  NoStaleSuccess'
<1>0. MemoryTyped /\ pc = "next" /\ todo = {} /\ UNCHANGED <<platform, applied, running>>
  BY TypeParts DEF Finish
<1>1. CASE \E p \in Providers : outcome[p] = Failed
  <2>1. PICK p \in Providers : outcome[p] = Failed
    BY <1>1
  <2>2. ~Skips(p)'
    BY <1>0, <2>1 DEF Outcomes, Active, Skips
  <2>. QED BY <2>2, LeftIsEnough
<1>2. CASE gateway = "healthy" /\ SurvivorsServed
  <2>1. \A p \in Providers : outcome[p] # "none"
    BY <1>0 DEF Outcomes, Active
  <2>2. \A p \in Providers : Skips(p) => p \in Survivors
    BY <1>0, <2>1 DEF Outcomes, Active, Skips, Survivors, MemoryTyped
  <2>. QED BY <1>0, <1>2, <2>2 DEF SurvivorsServed, NoStaleSuccess, Noticed, Skips
<1>. QED BY <1>0, <1>1, <1>2 DEF Evidence

LEMMA StaleStep ==
  ASSUME IInv, [Next]_vars
  PROVE  NoStaleSuccess'
<1>. USE DEF IInv
<1>0. /\ PlatformTyped /\ DiskTyped /\ MemoryTyped /\ Now \in Providers
      /\ (mine' => mine)
  BY TypeParts, MineStep DEF CommandTyped, Jobs
<1>1. CASE Start \/ Leave \/ Fetch \/ Seeded \/ Snapshot
  BY <1>0, <1>1, SameStale DEF Start, Leave, Fetch, Seeded, Snapshot
<1>2. CASE Seed
  <2>1. CASE model' = "unproven"
    BY <2>1 DEF NoStaleSuccess, Noticed
  <2>2. CASE UNCHANGED model
    BY <1>0, <1>2, <2>2, SameStale DEF Seed
  <2>. QED BY <1>2, <2>1, <2>2 DEF Seed
<1>3. CASE Finish
  BY <1>3, FinishedServed
<1>4. CASE Refuse \/ Unsure
  <2>1. pc \in Active /\ Says(Now, Failed) /\ UNCHANGED <<seen, model, applied, gateway, link>>
    BY <1>4 DEF Refuse, Unsure, Active, Works
  <2>. QED BY <1>0, <2>1, FailureNoticed
<1>5. CASE Prepare \/ Look \/ Install \/ Release \/ Menu \/ Commit \/ Unstage \/ Thrown \/ Fenced
  <2>1. UNCHANGED <<model, status, applied, saved, gateway, link>>
    BY <1>5 DEF Prepare, SeedNetwork, QuickCommands, PluginCommands, MenuPriority, Writes, Look, Install,
                Release, Menu, Commit, Unstage, Thrown, PutBack, Fenced
  <2>. QED BY <1>0, <2>1, SameStale
<1>6. CASE Stage \/ Cycle
  <2>1. pc \in {"stage", "cycle"} /\ UNCHANGED <<platform, applied, model>>
    BY <1>6 DEF Stage, Cycle
  <2>2. Now \in todo
    BY <2>1 DEF OnIt, Works
  <2>3. CASE model # "unproven"
    <3>1. ~Skips(Now)
      BY <2>1, <2>2, <2>3 DEF StillToDo, Active, Works
    <3>. QED BY <1>0, <2>1, <3>1 DEF Skips, NoStaleSuccess, Noticed
  <2>. QED BY <2>1, <2>3 DEF NoStaleSuccess, Noticed
<1>7. CASE Refresh \/ Refreshed \/ Judge \/ Undo \/ Rehook \/ Identify
  BY <1>0, <1>7, SameStale DEF Refresh, Refreshed, Judge, Undo, Rehook, Identify
<1>8. ASSUME NEW p \in Providers, Demote(p) PROVE NoStaleSuccess'
  BY <1>8, FailureNoticed DEF Demote, Active, Works
<1>9. ASSUME Says(Now, "connected"), pc = "confirm", UNCHANGED <<model, applied, gateway, link>>
      PROVE  NoStaleSuccess'
  <2>1. saved' = saved /\ \A q \in Providers \ {Now} : status'[q] = status[q]
    BY <1>0, <1>9 DEF Says, PlatformTyped
  <2>2. \A q \in Providers \ {Now} : Skips(q)' => Skips(q)
    BY <1>9, <2>1 DEF Skips
  <2>. QED BY <1>9, <2>1, <2>2, ConfirmedServed
<1>10. CASE Confirm
  BY <1>9, <1>10 DEF Confirm
<1>11. CASE Record
  <2>1. UNCHANGED <<platform, model, gateway, link>> /\ pc = "record"
        /\ (applied' = [applied EXCEPT ![Now] = seen[Now]] \/ UNCHANGED applied)
    BY <1>11 DEF Record
  <2>2. \A q \in Providers \ {Now} : applied'[q] = applied[q]
    BY <1>0, <2>1 DEF DiskTyped
  <2>3. \A q \in Providers \ {Now} : Skips(q)' => Skips(q)
    BY <2>1, <2>2 DEF Skips
  <2>. QED BY <2>1, <2>3, ConfirmedServed
<1>12. CASE Report
  <2>1. /\ pc \in Active /\ UNCHANGED <<seen, model, applied, gateway, link>>
        /\ (Says(Now, Failed) \/ UNCHANGED platform)
    BY <1>12 DEF Report, Lost, Active, Works
  <2>. QED BY <1>0, <2>1, FailureNoticed, SameStale
<1>13. CASE Stop
  BY <1>0, <1>13 DEF Stop, Rejection, NoStaleSuccess, Noticed
<1>14. CASE Unanswered
  <2>1. UNCHANGED <<seen, model, applied, gateway, link>>
    BY <1>14 DEF Unanswered, FenceFails, AckFails
  <2>2. \/ UNCHANGED platform
        \/ pc \in {"refuse", "unsure"} /\ Says(Now, Failed)
        \/ pc = "confirm" /\ Says(Now, "connected")
        \/ pc = "demote" /\ \E p \in Gone : Says(p, Failed)
    BY <1>14 DEF Unanswered, FenceFails, AckFails, Lost
  <2>3. Gone \subseteq Providers
    BY DEF Gone, Survivors
  <2>. QED BY <1>0, <1>9, <2>1, <2>2, <2>3, FailureNoticed, SameStale DEF Active, Works
<1>15. ASSUME NEW p \in Providers, Save(p) PROVE NoStaleSuccess'
  <2>1. ~Skips(p)'
    BY <1>0, <1>15 DEF Save, PlatformTyped, Skips
  <2>. QED BY <2>1, LeftIsEnough
<1>16. CASE Reassign \/ Kill \/ UNCHANGED vars
  BY <1>0, <1>16, SameStale DEF Reassign, Kill
<1>. QED BY <1>1, <1>2, <1>3, <1>4, <1>5, <1>6, <1>7, <1>8, <1>10, <1>11, <1>12, <1>13, <1>14, <1>15, <1>16
            DEF Next, Command, Prepares, Installs, Verifies, Recovers

-----------------------------------------------------------------------------
(* The theorems *)

LEMMA Initial == Init => IInv
<1>. SUFFICES ASSUME Init PROVE IInv
  OBVIOUS
<1>1. TypeOK /\ CommandTyped
  BY TypeInit
<1>2. OnIt /\ Outcomes /\ StillToDo /\ Recovery /\ Evidence
  BY DEF Init, OnIt, Outcomes, StillToDo, Recovery, Evidence, Active, Works
<1>3. Rejection /\ RejectedIsStopped
  BY DEF Init, Rejection, RejectedIsStopped, Works
<1>4. NoStaleSuccess
  BY TelegramAssumption DEF Init, NoStaleSuccess, Noticed, Skips
<1>. QED BY <1>1, <1>2, <1>3, <1>4 DEF IInv

LEMMA Inductive == IInv /\ [Next]_vars => IInv'
<1>. SUFFICES ASSUME IInv, [Next]_vars PROVE IInv'
  OBVIOUS
<1>. QED
  BY TypeStep, OnItStep, OutcomesStep, StillToDoStep, RecoveryStep, EvidenceStep, RejectionStep, RejectedStep,
     StaleStep DEF IInv

(* Every state of configure_channels, over any number of commands, savings, faults and kills, is in
   the inductive invariant. *)
THEOREM Invariance == Spec => []IInv
  BY Initial, Inductive, PTL DEF Spec

(* The revisions of _run_owned stay among those that were saved, and each field has its values. *)
THEOREM TypeCorrect == Spec => []TypeOK
  BY Invariance, PTL DEF IInv

(* Unless a command has set the model and was cut off before its end (model = "unproven", where it is
   false): what the next configure_channels would skip is not down at the running gateway, as far as its
   rows tell, or it will restart the gateway for another provider and look at this one again.  Rows that
   tell nothing count as not down.  However commands fail, are refused or killed, stops of the gateway do
   not work, and whatever the owner saves meanwhile. *)
THEOREM StaleNoticed == Spec => []NoStaleSuccess
  BY Invariance, PTL DEF IInv

(* After a command is rejected because the Computer was given to another owner, the gateway is down if
   the command changed anything on disk. *)
THEOREM StoppedWhenRejected == Spec => []RejectedIsStopped
  BY Invariance, PTL DEF IInv
=============================================================================
