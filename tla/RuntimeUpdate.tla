---------------------------- MODULE RuntimeUpdate ----------------------------
(***************************************************************************)
(* The update pipeline of the control process: a release is staged under   *)
(* the state directory, a marker asks for its activation, the process      *)
(* exits, and the next startup swaps the installed package, records what   *)
(* it installed, clears the staging area and re-executes itself.           *)
(*                                                                         *)
(* Every startup step is one file operation, and the machine may die or    *)
(* the operation may raise at any of them; so may the steps of a staging.  *)
(* A release stands for its ref, its commit and the files of its package;  *)
(* None is a missing file and Partial one that was cut off (a directory    *)
(* half copied or half removed, a file opened for writing and left empty). *)
(* Unfinished is what a staging that stopped half way leaves in the        *)
(* staging area, wherever it is copied to afterwards.                      *)
(***************************************************************************)
EXTENDS Integers

CONSTANTS
  Versions,       \* the releases, ordered as their numbers are
  Initial,        \* the release the Computer was installed with
  WithLauncher,   \* the releases that ship the bootstrap file
  MaxCrashes,     \* bound: deaths of the process or of the machine
  MaxFailures,    \* bound: operations that raise
  MaxAdmin        \* bound: commands of an operator

ASSUME ReleasesAssumption ==
  /\ Versions \subseteq Nat \ {0}
  /\ Initial \in Versions
  /\ WithLauncher \subseteq Versions
ASSUME BoundsAssumption ==
  /\ MaxCrashes \in Nat /\ MaxFailures \in Nat /\ MaxAdmin \in Nat

VARIABLES
  package,   \* hermes_runtime in the install prefix
  next,      \* hermes_runtime.next
  previous,  \* hermes_runtime.previous
  launcher,  \* tinyhat_hermes_runtime_bootstrap.py in the install prefix
  version,   \* current/VERSION
  commit,    \* current/COMMIT_SHA
  staged,    \* staged/runtime, staged/VERSION and staged/metadata.json
  marker,    \* ACTIVATE_ON_RESTART, with the ref written into it
  failed,    \* does updates/last_activation_error.json exist?
  pc,        \* where the process stands
  code,      \* the release the process imported
  restart,   \* restart_requested
  swapped,   \* code_swapped of the activation under way
  job,       \* the check_and_stage_updates command under way
  wanted,    \* the channel and exact release the platform selects
  torn,      \* history: the installation was made, or left, by a staging that stopped half way
  crashes, failures, admin

disk    == <<package, next, previous, launcher, version, commit, staged, marker, failed>>
process == <<pc, code, restart, swapped, job>>
counts  == <<crashes, failures, admin>>
vars    == <<disk, process, wanted, torn, counts>>

None       == 0
Partial    == -1
Unfinished == -2
Content    == Versions \union {None, Partial, Unfinished}

Channels == {"lts", "custom"}   \* latest decides as lts does
NoJob    == [ref |-> None, available |-> FALSE, error |-> FALSE]

(* The steps of activate_staged_on_startup that touch a file. *)
Activating ==
  {"repair", "copy", "retire", "install", "launcher", "record", "commit",
   "clear_version", "clear_metadata", "clear_runtime", "unmark", "clear_error"}

Steps == Activating \union {"off", "boot", "import", "startup", "serve", "deciding"}

(* VERSION may be left empty but is never missing: a missing one would be replaced by the
   release of the first installation (ensure_state). *)
TypeOK ==
  /\ {package, next, previous, launcher, version, commit, marker, code} \subseteq Content
  /\ version # None
  /\ staged \in [package : Content, launcher : Content, version : Content, sha : Content]
  /\ failed \in BOOLEAN /\ restart \in BOOLEAN /\ swapped \in BOOLEAN
  /\ pc \in Steps
  /\ job \in [ref : Versions \union {None}, available : BOOLEAN, error : BOOLEAN]
  /\ wanted \in [channel : Channels, ref : Versions] /\ torn \in BOOLEAN
  /\ crashes \in 0..MaxCrashes /\ failures \in 0..MaxFailures /\ admin \in 0..MaxAdmin

Init ==
  /\ package = Initial /\ next = None /\ previous = None /\ launcher = Initial
  /\ version = Initial /\ commit = Initial
  /\ staged = [package |-> None, launcher |-> None, version |-> None, sha |-> None]
  /\ marker = None /\ failed = FALSE
  /\ pc = "off" /\ code = None /\ restart = FALSE /\ swapped = FALSE /\ job = NoJob
  /\ wanted = [channel |-> "custom", ref |-> Initial] /\ torn = FALSE
  /\ crashes = 0 /\ failures = 0 /\ admin = 0

-----------------------------------------------------------------------------
(* Staging. *)

(* The staging area after prepare_staged_runtime and the two records. *)
Staged(v) ==
  [package |-> v, launcher |-> IF v \in WithLauncher THEN v ELSE None, version |-> v, sha |-> v]

Sound == staged = Staged(staged.version)

(* The installed files are those of the release that the records name. *)
Agreement ==
  /\ version \in Versions /\ package = version /\ commit = version
  /\ version \in WithLauncher => launcher = version

(* The staging area when staging v raised or was cut off: the old package is removed first, the
   new one copied, then its launcher, and the two records are written last.  A command refused
   before it touches a file leaves everything as it was. *)
StagingCuts(v) ==
  LET old == staged
      new == Staged(v)
  IN  {old}
      \union {[old EXCEPT !.package = p, !.launcher = l] :
                 p \in {None, Unfinished}, l \in {None, old.launcher}}
      \union {[old EXCEPT !.package = v, !.launcher = l] : l \in {None, Unfinished, new.launcher}}
      \union {[new EXCEPT !.version = r, !.sha = old.sha] : r \in {Partial, v}}
      \union {[new EXCEPT !.sha = Partial]}

(* stage_update: the files of v replace the staging area, or the command fails.  An installation
   that waits to be completed from the area loses what it waits for. *)
Stage(v, ok) ==
  /\ staged' \in IF ok THEN {Staged(v)} ELSE StagingCuts(v)
  /\ torn' = (torn \/ (~Agreement /\ ~Sound'))

(* The decision of the update check about the release the platform selects. *)
MatchesCurrent(v) == v \in {version, code, commit}
Newer(v) == v > IF version \in Versions THEN version ELSE code
UpdateAvailable(channel, v) == ~MatchesCurrent(v) /\ (channel = "lts" => Newer(v))

StagedMatches(v)     == staged.version = v /\ staged.sha = v
ActivationPending(v) == marker = v

-----------------------------------------------------------------------------
(* Commands of the running process.  One runs at a time; between two of them the process may
   exit for a requested restart. *)

Serving == pc = "serve"

(* An operator stages a release. *)
StageUpdate(v) ==
  /\ Serving /\ admin < MaxAdmin
  /\ \E ok \in BOOLEAN : Stage(v, ok)
  /\ admin' = admin + 1
  /\ UNCHANGED <<package, next, previous, launcher, version, commit, marker, failed, process,
                 wanted, crashes, failures>>

(* An operator activates what is staged. *)
ActivateUpdate ==
  /\ Serving /\ admin < MaxAdmin
  /\ staged.version \in Versions
  /\ marker' = staged.version
  /\ restart' = TRUE
  /\ admin' = admin + 1
  /\ UNCHANGED <<package, next, previous, launcher, version, commit, staged, failed, pc, code,
                 swapped, job, wanted, torn, crashes, failures>>

(* An operator asks for a plain restart. *)
RestartRuntimeService ==
  /\ Serving /\ admin < MaxAdmin
  /\ restart' = TRUE
  /\ admin' = admin + 1
  /\ UNCHANGED <<disk, pc, code, swapped, job, wanted, torn, crashes, failures>>

(* check_and_stage_updates up to the plugin update: discovery and, when the release is not the
   current one and not staged already, staging. *)
CheckAndStage ==
  LET v         == wanted.ref
      available == UpdateAvailable(wanted.channel, v)
      stages    == available /\ ~StagedMatches(v)
  IN  /\ Serving
      /\ \E ok \in BOOLEAN :
           /\ ok \/ (stages /\ failures < MaxFailures)
           /\ IF stages THEN Stage(v, ok) ELSE UNCHANGED <<staged, torn>>
           /\ failures' = IF ok THEN failures ELSE failures + 1
           /\ job' = [ref |-> v, available |-> available, error |-> ~ok]
      /\ pc' = "deciding"
      /\ UNCHANGED <<package, next, previous, launcher, version, commit, marker, failed, code,
                     restart, swapped, wanted, crashes, admin>>

ReadyToActivate == ~job.error /\ (ActivationPending(job.ref) \/ job.available)

(* Mutant of RequestActivation: a marker that is already there asks for no restart. *)
RequestActivationOnce ==
  /\ pc = "deciding" /\ ReadyToActivate
  /\ marker' = job.ref
  /\ restart' = IF ActivationPending(job.ref) THEN restart ELSE TRUE
  /\ pc' = "serve" /\ job' = NoJob
  /\ UNCHANGED <<package, next, previous, launcher, version, commit, staged, failed, code,
                 swapped, wanted, torn, counts>>

(* The command ends: a release that is staged, or whose marker survived an earlier startup, is
   marked and the restart requested. *)
RequestActivation ==
  /\ pc = "deciding" /\ ReadyToActivate
  /\ marker' = job.ref
  /\ restart' = TRUE
  /\ pc' = "serve" /\ job' = NoJob
  /\ UNCHANGED <<package, next, previous, launcher, version, commit, staged, failed, code,
                 swapped, wanted, torn, counts>>

(* The command ends without an activation: nothing to activate, or the owner's notice or the
   marker could not be written.  A changed plugin still asks for a restart. *)
FinishCheck ==
  /\ pc = "deciding"
  /\ ReadyToActivate => failures < MaxFailures /\ ~ActivationPending(job.ref)
  /\ failures' = IF ReadyToActivate THEN failures + 1 ELSE failures
  /\ marker' \in IF ReadyToActivate THEN {marker, Partial} ELSE {marker}
  /\ restart' \in {restart, TRUE}
  /\ pc' = "serve" /\ job' = NoJob
  /\ UNCHANGED <<package, next, previous, launcher, version, commit, staged, failed, code,
                 swapped, wanted, torn, crashes, admin>>

(* The main loop returns once a restart is requested and no command runs. *)
ExitForRestart ==
  /\ Serving /\ restart
  /\ pc' = "off" /\ code' = None /\ restart' = FALSE
  /\ UNCHANGED <<disk, swapped, job, wanted, torn, counts>>

-----------------------------------------------------------------------------
(* Startup: the launcher repairs the package directory, then imports it. *)

(* systemd starts the launcher again; half of one cannot run. *)
Runs == launcher \in Versions

Start ==
  /\ pc = "off" /\ Runs
  /\ pc' = "boot"
  /\ UNCHANGED <<disk, code, restart, swapped, job, wanted, torn, counts>>

(* What rmtree with ignore_errors may leave of a directory. *)
Remains(directory) == {None} \union IF directory = None THEN {} ELSE {Partial}
StagedRemains == {None} \union IF staged.package = None THEN {} ELSE {Unfinished}

(* A missing package is restored from the new copy or from the old one, by one rename. *)
RestorePackage ==
  /\ pc \in {"boot", "repair"} /\ package = None
  /\ package' = IF next # None THEN next ELSE previous
  /\ next' = None
  /\ previous' = IF next # None THEN previous ELSE None
  /\ UNCHANGED <<launcher, version, commit, staged, marker, failed, process, wanted, torn, counts>>

(* Mutant of DiscardCopies: the copies go before the package is known to be there. *)
DiscardAlways ==
  /\ next' \in Remains(next) /\ previous' \in Remains(previous)
  /\ UNCHANGED <<package, launcher, version, commit, staged, marker, failed>>

(* A present package makes the copies beside it obsolete. *)
DiscardCopies ==
  /\ package # None
  /\ next' \in Remains(next) /\ previous' \in Remains(previous)
  /\ UNCHANGED <<package, launcher, version, commit, staged, marker, failed>>

BootRepair ==
  /\ pc = "boot" /\ DiscardCopies
  /\ pc' = "import"
  /\ UNCHANGED <<code, restart, swapped, job, wanted, torn, counts>>

(* A package that is not whole cannot be imported: the process exits and is started again, for
   ever, and the model stays here. *)
ImportRuntime ==
  /\ pc = "import" /\ package \in Versions
  /\ code' = package
  /\ pc' = "startup"
  /\ UNCHANGED <<disk, restart, swapped, job, wanted, torn, counts>>

(* activate_staged_on_startup without a marker, or with one and nothing staged. *)
NothingToActivate ==
  /\ pc = "startup"
  /\ marker = None \/ staged.version \notin Versions
  /\ marker' = None
  /\ pc' = "serve"
  /\ UNCHANGED <<package, next, previous, launcher, version, commit, staged, failed, code,
                 restart, swapped, job, wanted, torn, counts>>

(* Mutant of BeginActivation: it does not ask whether a version is staged. *)
BeginUnstaged ==
  /\ pc = "startup"
  /\ marker # None
  /\ pc' = "repair"
  /\ torn' = (torn \/ ~Sound)
  /\ UNCHANGED <<disk, code, restart, swapped, job, wanted, counts>>

BeginActivation ==
  /\ pc = "startup"
  /\ marker # None /\ staged.version \in Versions
  /\ pc' = "repair"
  /\ torn' = (torn \/ ~Sound)
  /\ UNCHANGED <<disk, code, restart, swapped, job, wanted, counts>>

-----------------------------------------------------------------------------
(* activate_staged_runtime_code. *)

(* Without a staged package there is nothing to swap, and the records follow at once. *)
ActivationRepair ==
  /\ pc = "repair" /\ DiscardCopies
  /\ pc' = IF staged.package = None THEN "record" ELSE "copy"
  /\ UNCHANGED <<code, restart, swapped, job, wanted, torn, counts>>

CopyPackage ==
  /\ pc = "copy"
  /\ next' = staged.package
  /\ pc' = "retire"
  /\ UNCHANGED <<package, previous, launcher, version, commit, staged, marker, failed, code,
                 restart, swapped, job, wanted, torn, counts>>

RetirePackage ==
  /\ pc = "retire"
  /\ previous' = package /\ package' = None
  /\ pc' = "install"
  /\ UNCHANGED <<next, launcher, version, commit, staged, marker, failed, code, restart,
                 swapped, job, wanted, torn, counts>>

InstallPackage ==
  /\ pc = "install"
  /\ package' = next /\ next' = None
  /\ pc' = "launcher"
  /\ UNCHANGED <<previous, launcher, version, commit, staged, marker, failed, code, restart,
                 swapped, job, wanted, torn, counts>>

(* Mutant of InstallLauncher: the marker goes as soon as the code is swapped. *)
UnmarkAtSwap ==
  /\ pc = "launcher"
  /\ previous' \in Remains(previous)
  /\ launcher' = IF staged.launcher # None THEN staged.launcher ELSE launcher
  /\ marker' = None
  /\ swapped' = TRUE
  /\ pc' = "record"
  /\ UNCHANGED <<package, next, version, commit, staged, failed, code, restart, job, wanted, torn,
                 counts>>

InstallLauncher ==
  /\ pc = "launcher"
  /\ previous' \in Remains(previous)
  /\ launcher' = IF staged.launcher # None THEN staged.launcher ELSE launcher
  /\ swapped' = TRUE
  /\ pc' = "record"
  /\ UNCHANGED <<package, next, version, commit, staged, marker, failed, code, restart, job,
                 wanted, torn, counts>>

-----------------------------------------------------------------------------
(* The records of what is installed, then the end of the staging area and of the marker. *)

RecordVersion ==
  /\ pc = "record"
  /\ version' = staged.version
  /\ pc' = "commit"
  /\ UNCHANGED <<package, next, previous, launcher, commit, staged, marker, failed, code,
                 restart, swapped, job, wanted, torn, counts>>

(* Metadata that cannot be read names no commit, and the record of one is removed. *)
RecordCommit ==
  /\ pc = "commit"
  /\ commit' = IF staged.sha \in Versions THEN staged.sha ELSE None
  /\ pc' = "clear_version"
  /\ UNCHANGED <<package, next, previous, launcher, version, staged, marker, failed, code,
                 restart, swapped, job, wanted, torn, counts>>

ClearStaged(at, cleared, then) ==
  /\ pc = at
  /\ staged' = cleared
  /\ pc' = then
  /\ UNCHANGED <<package, next, previous, launcher, version, commit, marker, failed, code,
                 restart, swapped, job, wanted, counts>>

ClearVersion  ==   \* files and records are now all of this area
  /\ ClearStaged("clear_version", [staged EXCEPT !.version = None], "clear_metadata")
  /\ torn' = ~Sound
ClearMetadata ==
  /\ ClearStaged("clear_metadata", [staged EXCEPT !.sha = None], "clear_runtime")
  /\ UNCHANGED torn
ClearRuntime  ==
  /\ UNCHANGED torn
  /\ \E left \in StagedRemains :
       ClearStaged("clear_runtime", [staged EXCEPT !.package = left, !.launcher = None], "unmark")

Unmark ==
  /\ pc = "unmark"
  /\ marker' = None
  /\ pc' = "clear_error"
  /\ UNCHANGED <<package, next, previous, launcher, version, commit, staged, failed, code,
                 restart, swapped, job, wanted, torn, counts>>

(* The activation is over: swapped code is run by executing the launcher anew. *)
EndActivation ==
  /\ pc = "clear_error"
  /\ failed' = FALSE
  /\ pc' = IF ~swapped THEN "serve" ELSE IF Runs THEN "boot" ELSE "off"
  /\ code' = IF swapped THEN None ELSE code
  /\ swapped' = FALSE
  /\ UNCHANGED <<package, next, previous, launcher, version, commit, staged, marker, restart,
                 job, wanted, torn, counts>>

-----------------------------------------------------------------------------
(* What may go wrong. *)

(* The files as an operation that stopped half way leaves them. *)
CutOff ==
  /\ next' \in {next} \union IF pc = "copy" THEN {None, Partial} ELSE {}
  /\ version' \in {version} \union IF pc = "record" THEN {Partial} ELSE {}
  /\ commit' \in {commit} \union IF pc = "commit" THEN {Partial} ELSE {}
  /\ UNCHANGED <<package, previous, launcher, staged, marker>>

(* The process is killed or the machine loses power. *)
Die ==
  /\ pc # "off" /\ crashes < MaxCrashes
  /\ CutOff
  /\ pc' = "off" /\ code' = None /\ restart' = FALSE /\ swapped' = FALSE /\ job' = NoJob
  /\ crashes' = crashes + 1
  /\ UNCHANGED <<failed, wanted, torn, failures, admin>>

(* Mutants of ActivationFails: it gives the activation up; the error is not recorded. *)
FailsForGood ==
  /\ pc \in Activating /\ failures < MaxFailures
  /\ marker' = None /\ failed' = TRUE
  /\ pc' = "serve" /\ swapped' = FALSE
  /\ failures' = failures + 1
  /\ UNCHANGED <<package, next, previous, launcher, version, commit, staged, code, restart, job,
                 wanted, torn, crashes, admin>>

FailsSilently ==
  /\ pc \in Activating /\ failures < MaxFailures
  /\ CutOff
  /\ pc' = "serve" /\ swapped' = FALSE
  /\ failures' = failures + 1
  /\ UNCHANGED <<failed, code, restart, job, wanted, torn, crashes, admin>>

(* A step of the activation raises: the error is recorded and the process goes on to serve. *)
ActivationFails ==
  /\ pc \in Activating /\ failures < MaxFailures
  /\ CutOff
  /\ failed' = TRUE
  /\ pc' = "serve" /\ swapped' = FALSE
  /\ failures' = failures + 1
  /\ UNCHANGED <<code, restart, job, wanted, torn, crashes, admin>>

(* The platform selects another channel or release. *)
PlatformSelects(channel, v) ==
  /\ wanted' = [channel |-> channel, ref |-> v]
  /\ wanted' # wanted
  /\ UNCHANGED <<disk, process, torn, counts>>

-----------------------------------------------------------------------------
Startup ==
  \/ Start \/ RestorePackage \/ BootRepair \/ ImportRuntime
  \/ NothingToActivate \/ BeginActivation

Activation ==
  \/ ActivationRepair \/ CopyPackage \/ RetirePackage \/ InstallPackage \/ InstallLauncher
  \/ RecordVersion \/ RecordCommit \/ ClearVersion \/ ClearMetadata \/ ClearRuntime
  \/ Unmark \/ EndActivation

Operator ==
  \/ \E v \in Versions : StageUpdate(v)
  \/ ActivateUpdate
  \/ RestartRuntimeService

Next ==
  \/ Startup \/ Activation
  \/ Operator
  \/ CheckAndStage \/ RequestActivation \/ FinishCheck \/ ExitForRestart
  \/ Die \/ ActivationFails
  \/ \E channel \in Channels, v \in Versions : PlatformSelects(channel, v)

(* systemd restarts the process and every step of it ends; the platform keeps sending the
   command, but not so often that the loop never finds a moment without one. *)
Fairness ==
  /\ WF_vars(Startup) /\ WF_vars(Activation)
  /\ WF_vars(CheckAndStage) /\ WF_vars(RequestActivation \/ FinishCheck)
  /\ SF_vars(ExitForRestart)

Spec == Init /\ [][Next]_vars /\ Fairness

-----------------------------------------------------------------------------
(* A crash at any moment leaves a launcher and a package that it can import after its repair: a
   release, never a directory half copied or half removed, and never nothing.  Only what was
   half staged already can be installed half. *)
CanBoot(file) == file \in Versions \/ (torn /\ file = Unfinished)

AlwaysBootable ==
  /\ CanBoot(launcher)
  /\ CanBoot(IF package # None THEN package ELSE IF next # None THEN next ELSE previous)

(* Whatever crashed or failed before: a Computer that serves and has no activation pending has
   installed exactly the release and the commit it reports, and runs it unless it also reports
   an activation error.  Discovery compares the platform's target with these records.  The
   exception is an installation that was made from a staging area that is not whole, or whose
   area was cut off before it was complete; the next activation of a whole one puts it right. *)
RecordAgrees ==
  Serving /\ marker = None /\ ~torn => Agreement /\ (code = version \/ failed)

(* The claim without the exception: what is recorded as the current release is what the staged
   package was replaced with. *)
PromotesStaged == Serving /\ marker = None => package = version

(* The activation of a release that is still pending while the process serves and is not about to
   restart is one that failed, and the error is there for the heartbeat to report. *)
PendingIsExplained ==
  Serving /\ marker \in Versions /\ ~restart => failed

(* A release the platform goes on selecting is run in the end, unless an activation that stopped
   half way left a record of it, and then the error says so, or the installation comes from half a
   staging: a marker that survived a failed startup does not stop the retries.  On a release
   channel a newer release satisfies the platform too. *)
Satisfies(v) ==
  IF wanted.channel = "custom" THEN v = wanted.ref ELSE v >= wanted.ref

Arrived ==
  Serving /\ (Satisfies(code) \/ (failed /\ (Satisfies(version) \/ Satisfies(commit))))

UpdateArrives ==
  \A channel \in Channels, v \in Versions :
    <>[](wanted = [channel |-> channel, ref |-> v]) => []<>(Arrived \/ torn)

-----------------------------------------------------------------------------
(* The abstract specification the pipeline implements. *)

Whole    == IF Agreement THEN version ELSE None
Recorded == IF commit \in Versions THEN commit ELSE None
Offered  == IF staged.version \notin Versions THEN None
            ELSE IF Sound THEN staged.version ELSE Unfinished

Atomic == INSTANCE AtomicUpdate
          WITH Releases <- Versions, Nothing <- None, Spoiled <- Unfinished, installed <- Whole,
               recorded <- Recorded, offered <- Offered, asked <- marker # None,
               serving <- pc \in {"serve", "deciding"}

(* Twelve file operations, any of which may be the last before a crash, look like one: the
   installation is taken apart only behind a marker and a staged release, a whole one stays there
   until files and records are of one release again, and never under a process that serves. *)
ImplementsAtomicUpdate == Atomic!Spec

-----------------------------------------------------------------------------
(* The inductive strengthening. *)

StagedKnown == {staged.package, staged.launcher} \subseteq Versions \union {None, Unfinished}

(* A package is missing only while a copy of it waits beside it, and a half one is half staged. *)
PackageKept ==
  /\ package # None => CanBoot(package)
  /\ package = None => CanBoot(next)
  /\ pc \in {"import", "copy", "retire"} => package # None

(* A half launcher is never started, so that the activation that brought it was the last. *)
LauncherKept ==
  /\ CanBoot(launcher)
  /\ pc \in {"boot", "import", "startup", "repair", "copy", "retire", "install", "launcher"} =>
       launcher \in Versions
  /\ pc \in {"record", "commit", "clear_version"} /\ launcher \notin Versions => ~Sound

(* How far the activation has brought the installed files. *)
Swapping == {"copy", "retire", "install", "launcher", "record", "commit", "clear_version"}
Cleared  == {"clear_metadata", "clear_runtime", "unmark", "clear_error"}

Progress ==
  /\ pc \in Swapping \union {"repair"} =>
       marker # None /\ staged.version \in Versions /\ (Sound \/ torn)
  /\ pc \in {"copy", "retire", "install"} => staged.package # None
  /\ pc \in {"retire", "install"} => next = staged.package
  /\ pc = "install" => package = None
  /\ pc \in {"launcher", "record", "commit", "clear_version"} =>
       package # None /\ (Sound => package = staged.version)
  /\ pc \in {"record", "commit", "clear_version"} /\ Sound =>
       swapped /\ (staged.version \in WithLauncher => launcher = staged.version)
  /\ pc \in {"commit", "clear_version"} => version = staged.version
  /\ pc = "clear_version" /\ Sound => commit = staged.version
  /\ pc \in Cleared => staged.version = None /\ (torn \/ (Agreement /\ swapped))
  /\ pc = "deciding" => job.ref \in Versions

(* Files and records disagree only while an activation is owed that will make them agree, or the
   staging it needs stopped half way. *)
DisagreementOwed == ~Agreement => torn \/ (marker # None /\ staged.version \in Versions /\ Sound)

CodeCurrent ==
  /\ pc = "startup" => code = package
  /\ pc \in {"serve", "deciding"} => code = package \/ failed \/ torn

PendingKnown ==
  /\ pc \in {"serve", "deciding"} /\ marker \in Versions /\ ~restart => failed
  /\ pc = "clear_error" => marker = None

IInv ==
  /\ TypeOK /\ StagedKnown /\ PackageKept /\ LauncherKept /\ Progress /\ DisagreementOwed
  /\ CodeCurrent /\ PendingKnown
=============================================================================
