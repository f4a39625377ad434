------------------------ MODULE RuntimeUpdate_proofs ------------------------
(***************************************************************************)
(* Proofs about RuntimeUpdate, for every set of releases and every bound,  *)
(* whatever crashes, fails or is cut off.                                  *)
(*                                                                         *)
(* IInv is inductive: one step per action, in the order of the module.     *)
(* Under it every action is a step of AtomicUpdate or leaves it as it was. *)
(***************************************************************************)
EXTENDS RuntimeUpdate, TLAPS

USE DEF disk, process, counts, None, Partial, Unfinished, Content, Steps, Activating

-----------------------------------------------------------------------------
(* Types *)

StagingArea ==
  [package : Content, launcher : Content, version : Content, sha : Content]

LEMMA StagingTyped ==
  ASSUME NEW v \in Versions, NEW ok \in BOOLEAN, TypeOK, Stage(v, ok)
  PROVE  staged' \in StagingArea
<1>1. staged \in StagingArea /\ Staged(v) \in StagingArea
  BY DEF TypeOK, Staged, StagingArea
<1>2. v \in Content /\ {None, Partial, Unfinished} \subseteq Content
  OBVIOUS
<1>3. ASSUME NEW old \in StagingArea, NEW l \in Content, NEW p \in Content
      PROVE  /\ [old EXCEPT !.package = p, !.launcher = l] \in StagingArea
             /\ [old EXCEPT !.version = p, !.sha = l] \in StagingArea
             /\ [old EXCEPT !.sha = l] \in StagingArea
             /\ old.launcher \in Content /\ old.sha \in Content
  BY DEF StagingArea
<1>4. ASSUME NEW area \in StagingCuts(v)
      PROVE  area \in StagingArea
  <2>1. CASE \E p \in {None, Unfinished}, l \in {None, staged.launcher} :
                area = [staged EXCEPT !.package = p, !.launcher = l]
    <3>1. PICK p \in {None, Unfinished}, l \in {None, staged.launcher} :
             area = [staged EXCEPT !.package = p, !.launcher = l]
      BY <2>1
    <3>2. p \in Content /\ l \in Content
      BY <1>1, <1>2, <1>3
    <3>. QED BY <1>1, <1>3, <3>1, <3>2
  <2>2. CASE \E l \in {None, Unfinished, Staged(v).launcher} :
                area = [staged EXCEPT !.package = v, !.launcher = l]
    <3>1. PICK l \in {None, Unfinished, Staged(v).launcher} :
             area = [staged EXCEPT !.package = v, !.launcher = l]
      BY <2>2
    <3>2. v \in Content /\ l \in Content
      BY <1>1, <1>2, <1>3
    <3>. QED BY <1>1, <1>3, <3>1, <3>2
  <2>3. CASE \E r \in {Partial, v} :
                area = [Staged(v) EXCEPT !.version = r, !.sha = staged.sha]
    <3>1. PICK r \in {Partial, v} : area = [Staged(v) EXCEPT !.version = r, !.sha = staged.sha]
      BY <2>3
    <3>2. r \in Content /\ staged.sha \in Content
      BY <1>1, <1>2, <1>3
    <3>. QED BY <1>1, <1>3, <3>1, <3>2
  <2>4. CASE area = staged \/ area = [Staged(v) EXCEPT !.sha = Partial]
    BY <1>1, <1>2, <1>3, <2>4
  <2>. QED BY <1>4, <2>1, <2>2, <2>3, <2>4 DEF StagingCuts
<1>. QED BY <1>1, <1>4 DEF Stage

(* What a staging leaves, whole or not. *)
LEMMA StagingEffect ==
  ASSUME NEW v \in Versions, NEW ok \in BOOLEAN, TypeOK, StagedKnown, Stage(v, ok)
  PROVE  /\ staged' \in StagingArea /\ StagedKnown'
         /\ torn => torn'
         /\ ~Agreement => torn' \/ Sound'
         /\ staged'.version \in {staged.version, v, Partial}
<1>1. staged' \in StagingArea /\ staged \in StagingArea
  BY StagingTyped DEF TypeOK, StagingArea
<1>2. /\ {staged'.package, staged'.launcher} \subseteq Versions \union {None, Unfinished}
      /\ staged'.version \in {staged.version, v, Partial}
  <2>1. CASE ok
    BY <2>1 DEF Stage, Staged
  <2>2. CASE ~ok
    <3>1. staged' \in StagingCuts(v)
      BY <2>2 DEF Stage
    <3>2. CASE staged' = staged
      BY <3>2 DEF StagedKnown
    <3>3. CASE \E p \in {None, Unfinished}, l \in {None, staged.launcher} :
                 staged' = [staged EXCEPT !.package = p, !.launcher = l]
      BY <1>1, <3>3 DEF StagedKnown, StagingArea
    <3>4. CASE \E l \in {None, Unfinished, Staged(v).launcher} :
                 staged' = [staged EXCEPT !.package = v, !.launcher = l]
      BY <1>1, <3>4 DEF Staged, StagingArea
    <3>5. CASE \/ \E r \in {Partial, v} :
                   staged' = [Staged(v) EXCEPT !.version = r, !.sha = staged.sha]
               \/ staged' = [Staged(v) EXCEPT !.sha = Partial]
      BY <3>5 DEF Staged
    <3>. QED BY <3>1, <3>2, <3>3, <3>4, <3>5 DEF StagingCuts
  <2>. QED BY <2>1, <2>2
<1>3. (torn => torn') /\ (~Agreement => torn' \/ Sound')
  BY Zenon DEF Stage
<1>. QED BY <1>1, <1>2, <1>3 DEF StagedKnown

(* An activation under way has a version to record. *)
RecordNamed ==
  pc \in {"repair", "copy", "retire", "install", "launcher", "record"} =>
    staged.version \in Versions

LEMMA NamedStep ==
  ASSUME RecordNamed, [Next]_vars
  PROVE  RecordNamed'
  BY DEF RecordNamed, Next, vars, Startup, Activation, Operator, Serving, StageUpdate,
         ActivateUpdate, RestartRuntimeService, CheckAndStage, RequestActivation, FinishCheck,
         ExitForRestart, Start, RestorePackage, DiscardCopies, BootRepair, ImportRuntime,
         NothingToActivate, BeginActivation, ActivationRepair, CopyPackage, RetirePackage,
         InstallPackage, InstallLauncher, RecordVersion, RecordCommit, ClearStaged,
         ClearVersion, ClearMetadata, ClearRuntime, Unmark, EndActivation, CutOff, Die,
         ActivationFails, PlatformSelects

LEMMA TypeStep ==
  ASSUME TypeOK, RecordNamed, [Next]_vars
  PROVE  TypeOK'
<1>1. ASSUME NEW v \in Versions, StageUpdate(v) PROVE TypeOK'
  <2>1. staged' \in StagingArea
    BY <1>1, StagingTyped DEF StageUpdate
  <2>2. torn' \in BOOLEAN
    BY <1>1, Zenon DEF StageUpdate, Stage
  <2>. QED BY <1>1, <2>1, <2>2, BoundsAssumption DEF TypeOK, StagingArea, StageUpdate, Serving
<1>2. CASE ActivateUpdate
  BY <1>2, ReleasesAssumption, BoundsAssumption DEF TypeOK, ActivateUpdate, Serving
<1>3. CASE RestartRuntimeService
  BY <1>3, ReleasesAssumption, BoundsAssumption DEF TypeOK, RestartRuntimeService, Serving
<1>4. CASE CheckAndStage
  <2>1. wanted.ref \in Versions /\ wanted.channel \in Channels
    BY DEF TypeOK
  <2>2. staged' \in StagingArea
    BY <1>4, <2>1, StagingTyped DEF TypeOK, StagingArea, CheckAndStage
  <2>3. job' \in [ref : Versions \union {None}, available : BOOLEAN, error : BOOLEAN]
    <3>1. UpdateAvailable(wanted.channel, wanted.ref) \in BOOLEAN
      BY DEF UpdateAvailable
    <3>. QED BY <1>4, <2>1, <3>1 DEF CheckAndStage
  <2>4. torn' \in BOOLEAN
    BY <1>4, Zenon DEF CheckAndStage, Stage, TypeOK
  <2>. QED BY <1>4, <2>2, <2>3, <2>4, BoundsAssumption
    DEF TypeOK, StagingArea, CheckAndStage, Serving
<1>5. CASE RequestActivation
  BY <1>5, ReleasesAssumption, BoundsAssumption
     DEF TypeOK, RequestActivation, NoJob, ReadyToActivate
<1>6. CASE FinishCheck
  <2>1. ({package, next, previous, launcher, version, commit, marker, code} \subseteq Content
         /\ version # None)'
    BY <1>6, ReleasesAssumption DEF TypeOK, FinishCheck, NoJob, ReadyToActivate, ActivationPending
  <2>2. staged' \in StagingArea
    BY <1>6 DEF TypeOK, StagingArea, FinishCheck, NoJob, ReadyToActivate, ActivationPending
  <2>3. (failed \in BOOLEAN /\ restart \in BOOLEAN /\ swapped \in BOOLEAN)'
    BY <1>6, Zenon DEF TypeOK, FinishCheck, NoJob, ReadyToActivate, ActivationPending
  <2>4. job' \in [ref : Versions \union {None}, available : BOOLEAN, error : BOOLEAN]
    BY <1>6 DEF TypeOK, FinishCheck, NoJob, ReadyToActivate, ActivationPending
  <2>5. pc' \in Steps
    BY <1>6 DEF TypeOK, FinishCheck, NoJob, ReadyToActivate, ActivationPending
  <2>6. (crashes \in 0..MaxCrashes /\ failures \in 0..MaxFailures /\ admin \in 0..MaxAdmin)'
    BY <1>6, BoundsAssumption DEF TypeOK, FinishCheck, NoJob, ReadyToActivate, ActivationPending
  <2>7. UNCHANGED <<wanted, torn>>
    BY <1>6 DEF FinishCheck, NoJob, ReadyToActivate, ActivationPending
  <2>. QED BY <2>1, <2>2, <2>3, <2>4, <2>5, <2>6, <2>7 DEF TypeOK, StagingArea
<1>7. CASE ExitForRestart
  <2>1. ({package, next, previous, launcher, version, commit, marker, code} \subseteq Content
         /\ version # None)'
    BY <1>7, ReleasesAssumption DEF TypeOK, ExitForRestart, Serving
  <2>2. staged' \in StagingArea
    BY <1>7 DEF TypeOK, StagingArea, ExitForRestart, Serving
  <2>3. (failed \in BOOLEAN /\ restart \in BOOLEAN /\ swapped \in BOOLEAN)'
    BY <1>7, Zenon DEF TypeOK, ExitForRestart, Serving
  <2>4. job' \in [ref : Versions \union {None}, available : BOOLEAN, error : BOOLEAN]
    BY <1>7 DEF TypeOK, ExitForRestart, Serving
  <2>5. pc' \in Steps
    BY <1>7 DEF TypeOK, ExitForRestart, Serving
  <2>6. (crashes \in 0..MaxCrashes /\ failures \in 0..MaxFailures /\ admin \in 0..MaxAdmin)'
    BY <1>7, BoundsAssumption DEF TypeOK, ExitForRestart, Serving
  <2>7. UNCHANGED <<wanted, torn>>
    BY <1>7 DEF ExitForRestart, Serving
  <2>. QED BY <2>1, <2>2, <2>3, <2>4, <2>5, <2>6, <2>7 DEF TypeOK, StagingArea
<1>8. CASE Start
  BY <1>8, ReleasesAssumption, BoundsAssumption DEF TypeOK, Start
<1>9. CASE RestorePackage
  BY <1>9, ReleasesAssumption, BoundsAssumption DEF TypeOK, RestorePackage
<1>10. CASE BootRepair
  BY <1>10, ReleasesAssumption, BoundsAssumption DEF TypeOK, BootRepair, DiscardCopies, Remains
<1>11. CASE ImportRuntime
  BY <1>11, ReleasesAssumption, BoundsAssumption DEF TypeOK, ImportRuntime
<1>12. CASE NothingToActivate
  BY <1>12, ReleasesAssumption, BoundsAssumption DEF TypeOK, NothingToActivate
<1>13. CASE BeginActivation
  BY <1>13, ReleasesAssumption, BoundsAssumption DEF TypeOK, BeginActivation
<1>14. CASE ActivationRepair
  BY <1>14, ReleasesAssumption, BoundsAssumption
     DEF TypeOK, ActivationRepair, DiscardCopies, Remains
<1>15. CASE CopyPackage
  BY <1>15, ReleasesAssumption, BoundsAssumption DEF TypeOK, CopyPackage
<1>16. CASE RetirePackage
  BY <1>16, ReleasesAssumption, BoundsAssumption DEF TypeOK, RetirePackage
<1>17. CASE InstallPackage
  BY <1>17, ReleasesAssumption, BoundsAssumption DEF TypeOK, InstallPackage
<1>18. CASE InstallLauncher
  BY <1>18, ReleasesAssumption, BoundsAssumption DEF TypeOK, InstallLauncher, Remains
<1>19. CASE RecordVersion
  BY <1>19, ReleasesAssumption DEF TypeOK, RecordNamed, RecordVersion
<1>20. CASE RecordCommit
  BY <1>20, ReleasesAssumption, BoundsAssumption DEF TypeOK, RecordCommit
<1>21. CASE ClearVersion
  BY <1>21, ReleasesAssumption, BoundsAssumption DEF TypeOK, ClearVersion, ClearStaged
<1>22. CASE ClearMetadata
  BY <1>22, ReleasesAssumption, BoundsAssumption DEF TypeOK, ClearMetadata, ClearStaged
<1>23. CASE ClearRuntime
  <2>1. ({package, next, previous, launcher, version, commit, marker, code} \subseteq Content
         /\ version # None)'
    BY <1>23, ReleasesAssumption DEF TypeOK, ClearRuntime, ClearStaged, StagedRemains
  <2>2. staged' \in StagingArea
    BY <1>23 DEF TypeOK, StagingArea, ClearRuntime, ClearStaged, StagedRemains
  <2>3. (failed \in BOOLEAN /\ restart \in BOOLEAN /\ swapped \in BOOLEAN)'
    BY <1>23, Zenon DEF TypeOK, ClearRuntime, ClearStaged, StagedRemains
  <2>4. job' \in [ref : Versions \union {None}, available : BOOLEAN, error : BOOLEAN]
    BY <1>23 DEF TypeOK, ClearRuntime, ClearStaged, StagedRemains
  <2>5. pc' \in Steps
    BY <1>23 DEF TypeOK, ClearRuntime, ClearStaged, StagedRemains
  <2>6. (crashes \in 0..MaxCrashes /\ failures \in 0..MaxFailures /\ admin \in 0..MaxAdmin)'
    BY <1>23, BoundsAssumption DEF TypeOK, ClearRuntime, ClearStaged, StagedRemains
  <2>7. UNCHANGED <<wanted, torn>>
    BY <1>23 DEF ClearRuntime, ClearStaged, StagedRemains
  <2>. QED BY <2>1, <2>2, <2>3, <2>4, <2>5, <2>6, <2>7 DEF TypeOK, StagingArea
<1>24. CASE Unmark
  BY <1>24, ReleasesAssumption, BoundsAssumption DEF TypeOK, Unmark
<1>25. CASE EndActivation
  <2>1. ({package, next, previous, launcher, version, commit, marker, code} \subseteq Content
         /\ version # None)'
    BY <1>25, ReleasesAssumption DEF TypeOK, EndActivation
  <2>2. staged' \in StagingArea
    BY <1>25 DEF TypeOK, StagingArea, EndActivation
  <2>3. (failed \in BOOLEAN /\ restart \in BOOLEAN /\ swapped \in BOOLEAN)'
    BY <1>25, Zenon DEF TypeOK, EndActivation
  <2>4. job' \in [ref : Versions \union {None}, available : BOOLEAN, error : BOOLEAN]
    BY <1>25 DEF TypeOK, EndActivation
  <2>5. pc' \in Steps
    BY <1>25 DEF TypeOK, EndActivation
  <2>6. (crashes \in 0..MaxCrashes /\ failures \in 0..MaxFailures /\ admin \in 0..MaxAdmin)'
    BY <1>25, BoundsAssumption DEF TypeOK, EndActivation
  <2>7. UNCHANGED <<wanted, torn>>
    BY <1>25 DEF EndActivation
  <2>. QED BY <2>1, <2>2, <2>3, <2>4, <2>5, <2>6, <2>7 DEF TypeOK, StagingArea
<1>26. CASE Die
  <2>1. ({package, next, previous, launcher, version, commit, marker, code} \subseteq Content
         /\ version # None)'
    BY <1>26, ReleasesAssumption DEF TypeOK, Die, CutOff, NoJob
  <2>2. staged' \in StagingArea
    BY <1>26 DEF TypeOK, StagingArea, Die, CutOff, NoJob
  <2>3. (failed \in BOOLEAN /\ restart \in BOOLEAN /\ swapped \in BOOLEAN)'
    BY <1>26, Zenon DEF TypeOK, Die, CutOff, NoJob
  <2>4. job' \in [ref : Versions \union {None}, available : BOOLEAN, error : BOOLEAN]
    BY <1>26 DEF TypeOK, Die, CutOff, NoJob
  <2>5. pc' \in Steps
    BY <1>26 DEF TypeOK, Die, CutOff, NoJob
  <2>6. (crashes \in 0..MaxCrashes /\ failures \in 0..MaxFailures /\ admin \in 0..MaxAdmin)'
    BY <1>26, BoundsAssumption DEF TypeOK, Die, CutOff, NoJob
  <2>7. UNCHANGED <<wanted, torn>>
    BY <1>26 DEF Die, CutOff, NoJob
  <2>. QED BY <2>1, <2>2, <2>3, <2>4, <2>5, <2>6, <2>7 DEF TypeOK, StagingArea
<1>27. CASE ActivationFails
  <2>1. ({package, next, previous, launcher, version, commit, marker, code} \subseteq Content
         /\ version # None)'
    BY <1>27, ReleasesAssumption DEF TypeOK, ActivationFails, CutOff
  <2>2. staged' \in StagingArea
    BY <1>27 DEF TypeOK, StagingArea, ActivationFails, CutOff
  <2>3. (failed \in BOOLEAN /\ restart \in BOOLEAN /\ swapped \in BOOLEAN)'
    BY <1>27, Zenon DEF TypeOK, ActivationFails, CutOff
  <2>4. job' \in [ref : Versions \union {None}, available : BOOLEAN, error : BOOLEAN]
    BY <1>27 DEF TypeOK, ActivationFails, CutOff
  <2>5. pc' \in Steps
    BY <1>27 DEF TypeOK, ActivationFails, CutOff
  <2>6. (crashes \in 0..MaxCrashes /\ failures \in 0..MaxFailures /\ admin \in 0..MaxAdmin)'
    BY <1>27, BoundsAssumption DEF TypeOK, ActivationFails, CutOff
  <2>7. UNCHANGED <<wanted, torn>>
    BY <1>27 DEF ActivationFails, CutOff
  <2>. QED BY <2>1, <2>2, <2>3, <2>4, <2>5, <2>6, <2>7 DEF TypeOK, StagingArea
<1>28. ASSUME NEW channel \in Channels, NEW v \in Versions, PlatformSelects(channel, v)
       PROVE  TypeOK'
  BY <1>28 DEF TypeOK, PlatformSelects
<1>29. CASE UNCHANGED vars
  BY <1>29 DEF TypeOK, vars
<1>. QED
  BY <1>1, <1>2, <1>3, <1>4, <1>5, <1>6, <1>7, <1>8, <1>9, <1>10, <1>11, <1>12, <1>13, <1>14,
     <1>15, <1>16, <1>17, <1>18, <1>19, <1>20, <1>21, <1>22, <1>23, <1>24, <1>25, <1>26, <1>27,
     <1>28, <1>29
     DEF Next, Startup, Activation, Operator

LEMMA TypeInit == Init => TypeOK
<1>. SUFFICES ASSUME Init PROVE TypeOK
  OBVIOUS
<1>1. /\ {package, next, previous, launcher, version, commit, marker, code} \subseteq Content
      /\ version # None
  BY ReleasesAssumption DEF Init
<1>2. staged \in StagingArea
  BY DEF Init, StagingArea
<1>3. failed \in BOOLEAN /\ restart \in BOOLEAN /\ swapped \in BOOLEAN
  BY Zenon DEF Init
<1>4. job \in [ref : Versions \union {None}, available : BOOLEAN, error : BOOLEAN]
  BY DEF Init, NoJob
<1>5. pc \in Steps /\ wanted \in [channel : Channels, ref : Versions] /\ torn \in BOOLEAN
  BY ReleasesAssumption DEF Init, Channels
<1>6. crashes \in 0..MaxCrashes /\ failures \in 0..MaxFailures /\ admin \in 0..MaxAdmin
  BY BoundsAssumption DEF Init
<1>. QED BY <1>1, <1>2, <1>3, <1>4, <1>5, <1>6 DEF TypeOK, StagingArea

(* Every variable keeps its type, whatever crashes, fails or is cut off. *)
THEOREM TypeCorrect == Spec => []TypeOK
<1>1. Init => RecordNamed
  BY DEF Init, RecordNamed
<1>. QED BY <1>1, TypeInit, TypeStep, NamedStep, PTL DEF Spec

-----------------------------------------------------------------------------
(* The invariant *)

(* Every step preserves IInv. *)
LEMMA SafetyStep ==
  ASSUME IInv, [Next]_vars
  PROVE  IInv'
<1>. USE DEF IInv
<1>0. TypeOK /\ TypeOK'
  <2>1. RecordNamed
    BY DEF RecordNamed, Progress, Swapping
  <2>. QED BY <2>1, TypeStep
<1>1. ASSUME NEW v \in Versions, StageUpdate(v) PROVE IInv'
  <2>1. /\ pc = "serve" /\ pc' = "serve"
        /\ UNCHANGED <<package, next, previous, launcher, version, commit, marker, failed, code,
                       restart, job>>
    BY <1>1 DEF StageUpdate, Serving
  <2>2. /\ StagedKnown' /\ (torn => torn') /\ (~Agreement => torn' \/ Sound')
        /\ staged'.version \in Versions \union {staged.version, Partial}
    BY <1>1, StagingEffect DEF StageUpdate
  <2>4. StagedKnown' /\ PackageKept' /\ LauncherKept'
    BY <1>1, <2>1, <2>2 DEF PackageKept, LauncherKept, CanBoot
  <2>5. Progress'
    BY <1>1, <1>0, <2>1, <2>2 DEF Progress, Swapping, Cleared, TypeOK
  <2>6. DisagreementOwed'
    <3>1. Sound' => staged'.version # Partial
      BY <2>2, ReleasesAssumption DEF Sound, Staged, StagedKnown
    <3>2. Agreement' <=> Agreement
      BY <2>1 DEF Agreement
    <3>. QED BY <2>1, <2>2, <3>1, <3>2 DEF DisagreementOwed
  <2>7. CodeCurrent' /\ PendingKnown'
    BY <1>1, <2>1, <2>2 DEF CodeCurrent, PendingKnown
  <2>. QED BY <1>0, <2>4, <2>5, <2>6, <2>7
<1>2. CASE ActivateUpdate
  <2>1. StagedKnown' /\ PackageKept' /\ LauncherKept'
    BY <1>0, <1>2, ReleasesAssumption
       DEF StagedKnown, PackageKept, LauncherKept, CanBoot, Sound, Progress, Swapping,
           ActivateUpdate, Serving
  <2>2. Progress'
    BY <1>0, <1>2, ReleasesAssumption
       DEF Progress, Swapping, Cleared, Sound, Staged, Agreement, DisagreementOwed, StagedKnown,
           PackageKept, CanBoot, ActivateUpdate, Serving
  <2>3. DisagreementOwed'
    BY <1>0, <1>2, ReleasesAssumption
       DEF DisagreementOwed, Agreement, Sound, Staged, Progress, Swapping, Cleared, ActivateUpdate,
           Serving
  <2>4. CodeCurrent' /\ PendingKnown'
    BY <1>0, <1>2, ReleasesAssumption
       DEF CodeCurrent, PendingKnown, Progress, Swapping, Cleared, Agreement, DisagreementOwed,
           ActivateUpdate, Serving
  <2>. QED BY <1>0, <2>1, <2>2, <2>3, <2>4
<1>3. CASE RestartRuntimeService
  <2>1. StagedKnown' /\ PackageKept' /\ LauncherKept'
    BY <1>0, <1>3, ReleasesAssumption
       DEF StagedKnown, PackageKept, LauncherKept, CanBoot, Sound, Progress, Swapping,
           RestartRuntimeService, Serving
  <2>2. Progress'
    BY <1>0, <1>3, ReleasesAssumption
       DEF Progress, Swapping, Cleared, Sound, Staged, Agreement, DisagreementOwed, StagedKnown,
           PackageKept, CanBoot, RestartRuntimeService, Serving
  <2>3. DisagreementOwed'
    BY <1>0, <1>3, ReleasesAssumption
       DEF DisagreementOwed, Agreement, Sound, Staged, Progress, Swapping, Cleared,
           RestartRuntimeService, Serving
  <2>4. CodeCurrent' /\ PendingKnown'
    BY <1>0, <1>3, ReleasesAssumption
       DEF CodeCurrent, PendingKnown, Progress, Swapping, Cleared, Agreement, DisagreementOwed,
           RestartRuntimeService, Serving
  <2>. QED BY <1>0, <2>1, <2>2, <2>3, <2>4
<1>4. CASE CheckAndStage
  <2>1. /\ pc = "serve" /\ pc' = "deciding" /\ job'.ref \in Versions
        /\ UNCHANGED <<package, next, previous, launcher, version, commit, marker, failed, code,
                       restart>>
    BY <1>0, <1>4 DEF CheckAndStage, Serving, TypeOK
  <2>2. /\ StagedKnown' /\ (torn => torn') /\ (~Agreement => torn' \/ Sound' \/ UNCHANGED staged)
        /\ staged'.version \in Versions \union {staged.version, Partial}
    <3>1. wanted.ref \in Versions
      BY <1>0 DEF TypeOK
    <3>2. CASE UNCHANGED <<staged, torn>>
      BY <3>2 DEF StagedKnown
    <3>3. CASE \E ok \in BOOLEAN : Stage(wanted.ref, ok)
      BY <1>0, <3>1, <3>3, StagingEffect
    <3>. QED BY <1>4, <3>2, <3>3 DEF CheckAndStage
  <2>4. StagedKnown' /\ PackageKept' /\ LauncherKept'
    BY <1>4, <2>1, <2>2 DEF PackageKept, LauncherKept, CanBoot
  <2>5. Progress'
    BY <1>4, <1>0, <2>1, <2>2 DEF Progress, Swapping, Cleared, TypeOK
  <2>6. DisagreementOwed'
    <3>1. Sound' => staged'.version # Partial
      BY <2>2, ReleasesAssumption DEF Sound, Staged, StagedKnown
    <3>2. Agreement' <=> Agreement
      BY <2>1 DEF Agreement
    <3>. QED BY <2>1, <2>2, <3>1, <3>2 DEF DisagreementOwed, Sound
  <2>7. CodeCurrent' /\ PendingKnown'
    BY <1>4, <2>1, <2>2 DEF CodeCurrent, PendingKnown
  <2>. QED BY <1>0, <2>4, <2>5, <2>6, <2>7
<1>5. CASE RequestActivation
  <2>1. StagedKnown' /\ PackageKept' /\ LauncherKept'
    BY <1>0, <1>5, ReleasesAssumption
       DEF StagedKnown, PackageKept, LauncherKept, CanBoot, Sound, Progress, Swapping,
           RequestActivation, ReadyToActivate, NoJob
  <2>2. Progress'
    BY <1>0, <1>5, ReleasesAssumption
       DEF Progress, Swapping, Cleared, Sound, Staged, Agreement, DisagreementOwed, StagedKnown,
           PackageKept, CanBoot, RequestActivation, ReadyToActivate, NoJob
  <2>3. DisagreementOwed'
    BY <1>0, <1>5, ReleasesAssumption
       DEF DisagreementOwed, Agreement, Sound, Staged, Progress, Swapping, Cleared,
           RequestActivation, ReadyToActivate, NoJob
  <2>4. CodeCurrent' /\ PendingKnown'
    BY <1>0, <1>5, ReleasesAssumption
       DEF CodeCurrent, PendingKnown, Progress, Swapping, Cleared, Agreement, DisagreementOwed,
           RequestActivation, ReadyToActivate, NoJob
  <2>. QED BY <1>0, <2>1, <2>2, <2>3, <2>4
<1>6. CASE FinishCheck
  <2>1. StagedKnown' /\ PackageKept' /\ LauncherKept'
    BY <1>0, <1>6, ReleasesAssumption
       DEF StagedKnown, PackageKept, LauncherKept, CanBoot, Sound, Progress, Swapping, FinishCheck,
           NoJob
  <2>2. Progress'
    BY <1>0, <1>6, ReleasesAssumption
       DEF Progress, Swapping, Cleared, Sound, Staged, Agreement, DisagreementOwed, StagedKnown,
           PackageKept, CanBoot, FinishCheck, NoJob
  <2>3. DisagreementOwed'
    BY <1>0, <1>6, ReleasesAssumption
       DEF DisagreementOwed, Agreement, Sound, Staged, Progress, Swapping, Cleared, FinishCheck,
           NoJob
  <2>4. CodeCurrent' /\ PendingKnown'
    <3>1. ~restart' => ~restart
      BY <1>6, Zenon DEF FinishCheck
    <3>2. /\ marker' \in {marker, Partial} /\ pc = "deciding" /\ pc' = "serve"
          /\ UNCHANGED <<package, code, failed, torn>>
      BY <1>6 DEF FinishCheck
    <3>. QED BY <3>1, <3>2, ReleasesAssumption DEF CodeCurrent, PendingKnown
  <2>. QED BY <1>0, <2>1, <2>2, <2>3, <2>4
<1>7. CASE ExitForRestart
  <2>1. StagedKnown' /\ PackageKept' /\ LauncherKept'
    BY <1>0, <1>7, ReleasesAssumption
       DEF StagedKnown, PackageKept, LauncherKept, CanBoot, Sound, Progress, Swapping,
           ExitForRestart, Serving
  <2>2. Progress'
    BY <1>0, <1>7, ReleasesAssumption
       DEF Progress, Swapping, Cleared, Sound, Staged, Agreement, DisagreementOwed, StagedKnown,
           PackageKept, CanBoot, ExitForRestart, Serving
  <2>3. DisagreementOwed'
    BY <1>0, <1>7, ReleasesAssumption
       DEF DisagreementOwed, Agreement, Sound, Staged, Progress, Swapping, Cleared, ExitForRestart,
           Serving
  <2>4. CodeCurrent' /\ PendingKnown'
    BY <1>0, <1>7, ReleasesAssumption
       DEF CodeCurrent, PendingKnown, Progress, Swapping, Cleared, Agreement, DisagreementOwed,
           ExitForRestart, Serving
  <2>. QED BY <1>0, <2>1, <2>2, <2>3, <2>4
<1>8. CASE Start
  <2>1. StagedKnown' /\ PackageKept' /\ LauncherKept'
    BY <1>0, <1>8, ReleasesAssumption
       DEF StagedKnown, PackageKept, LauncherKept, CanBoot, Sound, Progress, Swapping, Start, Runs
  <2>2. Progress'
    BY <1>0, <1>8, ReleasesAssumption
       DEF Progress, Swapping, Cleared, Sound, Staged, Agreement, DisagreementOwed, StagedKnown,
           PackageKept, CanBoot, Start, Runs
  <2>3. DisagreementOwed'
    BY <1>0, <1>8, ReleasesAssumption
       DEF DisagreementOwed, Agreement, Sound, Staged, Progress, Swapping, Cleared, Start, Runs
  <2>4. CodeCurrent' /\ PendingKnown'
    BY <1>0, <1>8, ReleasesAssumption
       DEF CodeCurrent, PendingKnown, Progress, Swapping, Cleared, Agreement, DisagreementOwed,
           Start, Runs
  <2>. QED BY <1>0, <2>1, <2>2, <2>3, <2>4
<1>9. CASE RestorePackage
  <2>1. StagedKnown' /\ PackageKept' /\ LauncherKept'
    BY <1>0, <1>9, ReleasesAssumption
       DEF StagedKnown, PackageKept, LauncherKept, CanBoot, Sound, Progress, Swapping,
           RestorePackage
  <2>2. Progress'
    BY <1>0, <1>9, ReleasesAssumption
       DEF Progress, Swapping, Cleared, Sound, Staged, Agreement, DisagreementOwed, StagedKnown,
           PackageKept, CanBoot, RestorePackage
  <2>3. DisagreementOwed'
    BY <1>0, <1>9, ReleasesAssumption
       DEF DisagreementOwed, Agreement, Sound, Staged, Progress, Swapping, Cleared, RestorePackage
  <2>4. CodeCurrent' /\ PendingKnown'
    BY <1>0, <1>9, ReleasesAssumption
       DEF CodeCurrent, PendingKnown, Progress, Swapping, Cleared, Agreement, DisagreementOwed,
           RestorePackage
  <2>. QED BY <1>0, <2>1, <2>2, <2>3, <2>4
<1>10. CASE BootRepair
  <2>1. StagedKnown' /\ PackageKept' /\ LauncherKept'
    BY <1>0, <1>10, ReleasesAssumption
       DEF StagedKnown, PackageKept, LauncherKept, CanBoot, Sound, Progress, Swapping, BootRepair,
           DiscardCopies, Remains
  <2>2. Progress'
    BY <1>0, <1>10, ReleasesAssumption
       DEF Progress, Swapping, Cleared, Sound, Staged, Agreement, DisagreementOwed, StagedKnown,
           PackageKept, CanBoot, BootRepair, DiscardCopies, Remains
  <2>3. DisagreementOwed'
    BY <1>0, <1>10, ReleasesAssumption
       DEF DisagreementOwed, Agreement, Sound, Staged, Progress, Swapping, Cleared, BootRepair,
           DiscardCopies, Remains
  <2>4. CodeCurrent' /\ PendingKnown'
    BY <1>0, <1>10, ReleasesAssumption
       DEF CodeCurrent, PendingKnown, Progress, Swapping, Cleared, Agreement, DisagreementOwed,
           BootRepair, DiscardCopies, Remains
  <2>. QED BY <1>0, <2>1, <2>2, <2>3, <2>4
<1>11. CASE ImportRuntime
  <2>1. StagedKnown' /\ PackageKept' /\ LauncherKept'
    BY <1>0, <1>11, ReleasesAssumption
       DEF StagedKnown, PackageKept, LauncherKept, CanBoot, Sound, Progress, Swapping,
           ImportRuntime
  <2>2. Progress'
    BY <1>0, <1>11, ReleasesAssumption
       DEF Progress, Swapping, Cleared, Sound, Staged, Agreement, DisagreementOwed, StagedKnown,
           PackageKept, CanBoot, ImportRuntime
  <2>3. DisagreementOwed'
    BY <1>0, <1>11, ReleasesAssumption
       DEF DisagreementOwed, Agreement, Sound, Staged, Progress, Swapping, Cleared, ImportRuntime
  <2>4. CodeCurrent' /\ PendingKnown'
    BY <1>0, <1>11, ReleasesAssumption
       DEF CodeCurrent, PendingKnown, Progress, Swapping, Cleared, Agreement, DisagreementOwed,
           ImportRuntime
  <2>. QED BY <1>0, <2>1, <2>2, <2>3, <2>4
<1>12. CASE NothingToActivate
  <2>1. StagedKnown' /\ PackageKept' /\ LauncherKept'
    BY <1>0, <1>12, ReleasesAssumption
       DEF StagedKnown, PackageKept, LauncherKept, CanBoot, Sound, Progress, Swapping,
           NothingToActivate
  <2>2. Progress'
    BY <1>0, <1>12, ReleasesAssumption
       DEF Progress, Swapping, Cleared, Sound, Staged, Agreement, DisagreementOwed, StagedKnown,
           PackageKept, CanBoot, NothingToActivate
  <2>3. DisagreementOwed'
    BY <1>0, <1>12, ReleasesAssumption
       DEF DisagreementOwed, Agreement, Sound, Staged, Progress, Swapping, Cleared,
           NothingToActivate
  <2>4. CodeCurrent' /\ PendingKnown'
    BY <1>0, <1>12, ReleasesAssumption
       DEF CodeCurrent, PendingKnown, Progress, Swapping, Cleared, Agreement, DisagreementOwed,
           NothingToActivate
  <2>. QED BY <1>0, <2>1, <2>2, <2>3, <2>4
<1>13. CASE BeginActivation
  <2>1. StagedKnown' /\ PackageKept' /\ LauncherKept'
    BY <1>0, <1>13, ReleasesAssumption
       DEF StagedKnown, PackageKept, LauncherKept, CanBoot, Sound, Progress, Swapping,
           BeginActivation
  <2>2. Progress'
    BY <1>0, <1>13, ReleasesAssumption
       DEF Progress, Swapping, Cleared, Sound, Staged, Agreement, DisagreementOwed, StagedKnown,
           PackageKept, CanBoot, BeginActivation
  <2>3. DisagreementOwed'
    BY <1>0, <1>13, ReleasesAssumption
       DEF DisagreementOwed, Agreement, Sound, Staged, Progress, Swapping, Cleared, BeginActivation
  <2>4. CodeCurrent' /\ PendingKnown'
    BY <1>0, <1>13, ReleasesAssumption
       DEF CodeCurrent, PendingKnown, Progress, Swapping, Cleared, Agreement, DisagreementOwed,
           BeginActivation
  <2>. QED BY <1>0, <2>1, <2>2, <2>3, <2>4
<1>14. CASE ActivationRepair
  <2>1. StagedKnown' /\ PackageKept' /\ LauncherKept'
    BY <1>0, <1>14, ReleasesAssumption
       DEF StagedKnown, PackageKept, LauncherKept, CanBoot, Sound, Progress, Swapping,
           ActivationRepair, DiscardCopies, Remains
  <2>2. Progress'
    BY <1>0, <1>14, ReleasesAssumption
       DEF Progress, Swapping, Cleared, Sound, Staged, Agreement, DisagreementOwed, StagedKnown,
           PackageKept, CanBoot, ActivationRepair, DiscardCopies, Remains
  <2>3. DisagreementOwed'
    BY <1>0, <1>14, ReleasesAssumption
       DEF DisagreementOwed, Agreement, Sound, Staged, Progress, Swapping, Cleared,
           ActivationRepair, DiscardCopies, Remains
  <2>4. CodeCurrent' /\ PendingKnown'
    BY <1>0, <1>14, ReleasesAssumption
       DEF CodeCurrent, PendingKnown, Progress, Swapping, Cleared, Agreement, DisagreementOwed,
           ActivationRepair, DiscardCopies, Remains
  <2>. QED BY <1>0, <2>1, <2>2, <2>3, <2>4
<1>15. CASE CopyPackage
  <2>1. StagedKnown' /\ PackageKept' /\ LauncherKept'
    BY <1>0, <1>15, ReleasesAssumption
       DEF StagedKnown, PackageKept, LauncherKept, CanBoot, Sound, Progress, Swapping, CopyPackage
  <2>2. Progress'
    BY <1>0, <1>15, ReleasesAssumption
       DEF Progress, Swapping, Cleared, Sound, Staged, Agreement, DisagreementOwed, StagedKnown,
           PackageKept, CanBoot, CopyPackage
  <2>3. DisagreementOwed'
    BY <1>0, <1>15, ReleasesAssumption
       DEF DisagreementOwed, Agreement, Sound, Staged, Progress, Swapping, Cleared, CopyPackage
  <2>4. CodeCurrent' /\ PendingKnown'
    BY <1>0, <1>15, ReleasesAssumption
       DEF CodeCurrent, PendingKnown, Progress, Swapping, Cleared, Agreement, DisagreementOwed,
           CopyPackage
  <2>. QED BY <1>0, <2>1, <2>2, <2>3, <2>4
<1>16. CASE RetirePackage
  <2>1. StagedKnown' /\ PackageKept' /\ LauncherKept'
    BY <1>0, <1>16, ReleasesAssumption
       DEF StagedKnown, PackageKept, LauncherKept, CanBoot, Sound, Progress, Swapping, Staged,
           RetirePackage
  <2>2. Progress'
    BY <1>0, <1>16, ReleasesAssumption
       DEF Progress, Swapping, Cleared, Sound, Staged, Agreement, DisagreementOwed, StagedKnown,
           PackageKept, CanBoot, RetirePackage
  <2>3. DisagreementOwed'
    BY <1>0, <1>16, ReleasesAssumption
       DEF DisagreementOwed, Agreement, Sound, Staged, Progress, Swapping, Cleared, RetirePackage
  <2>4. CodeCurrent' /\ PendingKnown'
    BY <1>0, <1>16, ReleasesAssumption
       DEF CodeCurrent, PendingKnown, Progress, Swapping, Cleared, Agreement, DisagreementOwed,
           RetirePackage
  <2>. QED BY <1>0, <2>1, <2>2, <2>3, <2>4
<1>17. CASE InstallPackage
  <2>1. StagedKnown' /\ PackageKept' /\ LauncherKept'
    BY <1>0, <1>17, ReleasesAssumption
       DEF StagedKnown, PackageKept, LauncherKept, CanBoot, Sound, Progress, Swapping,
           InstallPackage
  <2>2. Progress'
    BY <1>0, <1>17, ReleasesAssumption
       DEF Progress, Swapping, Cleared, Sound, Staged, Agreement, DisagreementOwed, StagedKnown,
           PackageKept, CanBoot, InstallPackage
  <2>3. DisagreementOwed'
    BY <1>0, <1>17, ReleasesAssumption
       DEF DisagreementOwed, Agreement, Sound, Staged, Progress, Swapping, Cleared, InstallPackage
  <2>4. CodeCurrent' /\ PendingKnown'
    BY <1>0, <1>17, ReleasesAssumption
       DEF CodeCurrent, PendingKnown, Progress, Swapping, Cleared, Agreement, DisagreementOwed,
           InstallPackage
  <2>. QED BY <1>0, <2>1, <2>2, <2>3, <2>4
<1>18. CASE InstallLauncher
  <2>1. StagedKnown' /\ PackageKept' /\ LauncherKept'
    BY <1>0, <1>18, ReleasesAssumption
       DEF StagedKnown, PackageKept, LauncherKept, CanBoot, Sound, Progress, Swapping, Staged,
           InstallLauncher, Remains
  <2>2. Progress'
    BY <1>0, <1>18, ReleasesAssumption
       DEF Progress, Swapping, Cleared, Sound, Staged, Agreement, DisagreementOwed, StagedKnown,
           PackageKept, CanBoot, InstallLauncher, Remains
  <2>3. DisagreementOwed'
    BY <1>0, <1>18, ReleasesAssumption
       DEF DisagreementOwed, Agreement, Sound, Staged, Progress, Swapping, Cleared,
           InstallLauncher, Remains
  <2>4. CodeCurrent' /\ PendingKnown'
    BY <1>0, <1>18, ReleasesAssumption
       DEF CodeCurrent, PendingKnown, Progress, Swapping, Cleared, Agreement, DisagreementOwed,
           InstallLauncher, Remains
  <2>. QED BY <1>0, <2>1, <2>2, <2>3, <2>4
<1>19. CASE RecordVersion
  <2>1. StagedKnown' /\ PackageKept' /\ LauncherKept'
    BY <1>0, <1>19, ReleasesAssumption
       DEF StagedKnown, PackageKept, LauncherKept, CanBoot, Sound, Progress, Swapping,
           RecordVersion
  <2>2. Progress'
    BY <1>0, <1>19, ReleasesAssumption
       DEF Progress, Swapping, Cleared, Sound, Staged, Agreement, DisagreementOwed, StagedKnown,
           PackageKept, CanBoot, RecordVersion
  <2>3. DisagreementOwed'
    BY <1>0, <1>19, ReleasesAssumption
       DEF DisagreementOwed, Agreement, Sound, Staged, Progress, Swapping, Cleared, RecordVersion
  <2>4. CodeCurrent' /\ PendingKnown'
    BY <1>0, <1>19, ReleasesAssumption
       DEF CodeCurrent, PendingKnown, Progress, Swapping, Cleared, Agreement, DisagreementOwed,
           RecordVersion
  <2>. QED BY <1>0, <2>1, <2>2, <2>3, <2>4
<1>20. CASE RecordCommit
  <2>1. StagedKnown' /\ PackageKept' /\ LauncherKept'
    BY <1>0, <1>20, ReleasesAssumption
       DEF StagedKnown, PackageKept, LauncherKept, CanBoot, Sound, Progress, Swapping, RecordCommit
  <2>2. Progress'
    BY <1>0, <1>20, ReleasesAssumption
       DEF Progress, Swapping, Cleared, Sound, Staged, Agreement, DisagreementOwed, StagedKnown,
           PackageKept, CanBoot, RecordCommit
  <2>3. DisagreementOwed'
    BY <1>0, <1>20, ReleasesAssumption
       DEF DisagreementOwed, Agreement, Sound, Staged, Progress, Swapping, Cleared, RecordCommit
  <2>4. CodeCurrent' /\ PendingKnown'
    BY <1>0, <1>20, ReleasesAssumption
       DEF CodeCurrent, PendingKnown, Progress, Swapping, Cleared, Agreement, DisagreementOwed,
           RecordCommit
  <2>. QED BY <1>0, <2>1, <2>2, <2>3, <2>4
<1>21. CASE ClearVersion
  <2>0. /\ staged' = [staged EXCEPT !.version = None] /\ torn' = ~Sound
        /\ pc = "clear_version" /\ pc' = "clear_metadata"
        /\ UNCHANGED <<package, next, previous, launcher, version, commit, swapped, job>>
    BY <1>21 DEF ClearVersion, ClearStaged
  <2>1. StagedKnown' /\ PackageKept' /\ LauncherKept'
    <3>1. staged'.package = staged.package /\ staged'.launcher = staged.launcher
      BY <1>0, <2>0 DEF TypeOK
    <3>2. Sound => package \in Versions /\ launcher \in Versions
      BY <2>0 DEF Progress, Swapping, LauncherKept
    <3>3. package # None /\ (package \in Versions \/ package = Unfinished)
          /\ (launcher \in Versions \/ launcher = Unfinished)
      BY <2>0 DEF Progress, PackageKept, LauncherKept, CanBoot
    <3>. QED BY <2>0, <3>1, <3>2, <3>3 DEF StagedKnown, PackageKept, LauncherKept, CanBoot
  <2>2. Progress'
    <3>1. staged'.version = None
      BY <1>0, <2>0 DEF TypeOK
    <3>2. Sound => Agreement' /\ swapped
      BY <2>0 DEF Progress, Swapping, Agreement
    <3>. QED BY <2>0, <3>1, <3>2 DEF Progress, Swapping, Cleared
  <2>3. DisagreementOwed'
    BY <1>0, <1>21, ReleasesAssumption
       DEF DisagreementOwed, Agreement, Sound, Staged, Progress, Swapping, Cleared, ClearVersion,
           ClearStaged
  <2>4. CodeCurrent' /\ PendingKnown'
    BY <1>0, <1>21, ReleasesAssumption
       DEF CodeCurrent, PendingKnown, Progress, Swapping, Cleared, Agreement, DisagreementOwed,
           ClearVersion, ClearStaged
  <2>. QED BY <1>0, <2>1, <2>2, <2>3, <2>4
<1>22. CASE ClearMetadata
  <2>1. StagedKnown' /\ PackageKept' /\ LauncherKept'
    BY <1>0, <1>22, ReleasesAssumption
       DEF StagedKnown, PackageKept, LauncherKept, CanBoot, Sound, Progress, Swapping,
           ClearMetadata, ClearStaged
  <2>2. Progress'
    BY <1>0, <1>22, ReleasesAssumption
       DEF Progress, Swapping, Cleared, Sound, Staged, Agreement, DisagreementOwed, StagedKnown,
           PackageKept, CanBoot, ClearMetadata, ClearStaged
  <2>3. DisagreementOwed'
    BY <1>0, <1>22, ReleasesAssumption
       DEF DisagreementOwed, Agreement, Sound, Staged, Progress, Swapping, Cleared, ClearMetadata,
           ClearStaged
  <2>4. CodeCurrent' /\ PendingKnown'
    BY <1>0, <1>22, ReleasesAssumption
       DEF CodeCurrent, PendingKnown, Progress, Swapping, Cleared, Agreement, DisagreementOwed,
           ClearMetadata, ClearStaged
  <2>. QED BY <1>0, <2>1, <2>2, <2>3, <2>4
<1>23. CASE ClearRuntime
  <2>1. StagedKnown' /\ PackageKept' /\ LauncherKept'
    BY <1>0, <1>23, ReleasesAssumption
       DEF StagedKnown, PackageKept, LauncherKept, CanBoot, Sound, Progress, Swapping,
           ClearRuntime, ClearStaged, StagedRemains
  <2>2. Progress'
    BY <1>0, <1>23, ReleasesAssumption
       DEF Progress, Swapping, Cleared, Sound, Staged, Agreement, DisagreementOwed, StagedKnown,
           PackageKept, CanBoot, ClearRuntime, ClearStaged, StagedRemains
  <2>3. DisagreementOwed'
    BY <1>0, <1>23, ReleasesAssumption
       DEF DisagreementOwed, Agreement, Sound, Staged, Progress, Swapping, Cleared, ClearRuntime,
           ClearStaged, StagedRemains
  <2>4. CodeCurrent' /\ PendingKnown'
    BY <1>0, <1>23, ReleasesAssumption
       DEF CodeCurrent, PendingKnown, Progress, Swapping, Cleared, Agreement, DisagreementOwed,
           ClearRuntime, ClearStaged, StagedRemains
  <2>. QED BY <1>0, <2>1, <2>2, <2>3, <2>4
<1>24. CASE Unmark
  <2>1. StagedKnown' /\ PackageKept' /\ LauncherKept'
    BY <1>0, <1>24, ReleasesAssumption
       DEF StagedKnown, PackageKept, LauncherKept, CanBoot, Sound, Progress, Swapping, Unmark
  <2>2. Progress'
    BY <1>0, <1>24, ReleasesAssumption
       DEF Progress, Swapping, Cleared, Sound, Staged, Agreement, DisagreementOwed, StagedKnown,
           PackageKept, CanBoot, Unmark
  <2>3. DisagreementOwed'
    BY <1>0, <1>24, ReleasesAssumption
       DEF DisagreementOwed, Agreement, Sound, Staged, Progress, Swapping, Cleared, Unmark
  <2>4. CodeCurrent' /\ PendingKnown'
    BY <1>0, <1>24, ReleasesAssumption
       DEF CodeCurrent, PendingKnown, Progress, Swapping, Cleared, Agreement, DisagreementOwed,
           Unmark
  <2>. QED BY <1>0, <2>1, <2>2, <2>3, <2>4
<1>25. CASE EndActivation
  <2>1. StagedKnown' /\ PackageKept' /\ LauncherKept'
    BY <1>0, <1>25, ReleasesAssumption
       DEF StagedKnown, PackageKept, LauncherKept, CanBoot, Sound, Progress, Swapping,
           EndActivation, Runs
  <2>2. Progress'
    BY <1>0, <1>25, ReleasesAssumption
       DEF Progress, Swapping, Cleared, Sound, Staged, Agreement, DisagreementOwed, StagedKnown,
           PackageKept, CanBoot, EndActivation, Runs
  <2>3. DisagreementOwed'
    BY <1>0, <1>25, ReleasesAssumption
       DEF DisagreementOwed, Agreement, Sound, Staged, Progress, Swapping, Cleared, EndActivation,
           Runs
  <2>4. CodeCurrent' /\ PendingKnown'
    BY <1>0, <1>25, ReleasesAssumption
       DEF CodeCurrent, PendingKnown, Progress, Swapping, Cleared, Agreement, DisagreementOwed,
           EndActivation, Runs
  <2>. QED BY <1>0, <2>1, <2>2, <2>3, <2>4
<1>26. CASE Die
  <2>1. StagedKnown' /\ PackageKept' /\ LauncherKept'
    BY <1>0, <1>26, ReleasesAssumption
       DEF StagedKnown, PackageKept, LauncherKept, CanBoot, Sound, Progress, Swapping, Die, CutOff,
           NoJob
  <2>2. Progress'
    BY <1>0, <1>26, ReleasesAssumption
       DEF Progress, Swapping, Cleared, Sound, Staged, Agreement, DisagreementOwed, StagedKnown,
           PackageKept, CanBoot, Die, CutOff, NoJob
  <2>3. DisagreementOwed'
    BY <1>0, <1>26, ReleasesAssumption
       DEF DisagreementOwed, Agreement, Sound, Staged, Progress, Swapping, Cleared, Die, CutOff,
           NoJob
  <2>4. CodeCurrent' /\ PendingKnown'
    BY <1>0, <1>26, ReleasesAssumption
       DEF CodeCurrent, PendingKnown, Progress, Swapping, Cleared, Agreement, DisagreementOwed,
           Die, CutOff, NoJob
  <2>. QED BY <1>0, <2>1, <2>2, <2>3, <2>4
<1>27. CASE ActivationFails
  <2>1. StagedKnown' /\ PackageKept' /\ LauncherKept'
    BY <1>0, <1>27, ReleasesAssumption
       DEF StagedKnown, PackageKept, LauncherKept, CanBoot, Sound, Progress, Swapping,
           ActivationFails, CutOff
  <2>2. Progress'
    BY <1>0, <1>27, ReleasesAssumption
       DEF Progress, Swapping, Cleared, Sound, Staged, Agreement, DisagreementOwed, StagedKnown,
           PackageKept, CanBoot, ActivationFails, CutOff
  <2>3. DisagreementOwed'
    BY <1>0, <1>27, ReleasesAssumption
       DEF DisagreementOwed, Agreement, Sound, Staged, Progress, Swapping, Cleared,
           ActivationFails, CutOff
  <2>4. CodeCurrent' /\ PendingKnown'
    BY <1>0, <1>27, ReleasesAssumption
       DEF CodeCurrent, PendingKnown, Progress, Swapping, Cleared, Agreement, DisagreementOwed,
           ActivationFails, CutOff
  <2>. QED BY <1>0, <2>1, <2>2, <2>3, <2>4
<1>28. ASSUME NEW channel \in Channels, NEW v \in Versions, PlatformSelects(channel, v)
       PROVE  IInv'
  BY <1>0, <1>28
     DEF PlatformSelects, StagedKnown, PackageKept, LauncherKept, CanBoot, Progress,
         DisagreementOwed, Agreement, Sound, CodeCurrent, PendingKnown
<1>29. CASE UNCHANGED vars
  BY <1>0, <1>29
     DEF vars, StagedKnown, PackageKept, LauncherKept, CanBoot, Progress, DisagreementOwed,
         Agreement, Sound, CodeCurrent, PendingKnown
<1>. QED
  BY <1>1, <1>2, <1>3, <1>4, <1>5, <1>6, <1>7, <1>8, <1>9, <1>10, <1>11, <1>12, <1>13, <1>14,
     <1>15, <1>16, <1>17, <1>18, <1>19, <1>20, <1>21, <1>22, <1>23, <1>24, <1>25, <1>26, <1>27,
     <1>28, <1>29
     DEF Next, Startup, Activation, Operator

LEMMA SafetyInit == Init => IInv
<1>. SUFFICES ASSUME Init PROVE IInv
  OBVIOUS
<1>1. TypeOK
  BY TypeInit
<1>2. StagedKnown /\ PackageKept /\ LauncherKept /\ Agreement
  BY ReleasesAssumption DEF Init, StagedKnown, PackageKept, LauncherKept, CanBoot, Agreement
<1>3. Progress /\ CodeCurrent /\ PendingKnown
  BY DEF Init, Progress, Swapping, Cleared, CodeCurrent, PendingKnown
<1>. QED BY <1>1, <1>2, <1>3 DEF IInv, DisagreementOwed

(* IInv holds in every reachable state. *)
THEOREM SafetyInvariance == Spec => []IInv
<1>1. IInv /\ [Next]_vars => IInv'
  BY SafetyStep
<1>. QED BY SafetyInit, <1>1, PTL DEF Spec

(* A crash at any moment leaves a launcher and a package that it can import, unless they are of
   half a staging (_recover_interrupted_package_swap). *)
THEOREM Bootable == Spec => []AlwaysBootable
<1>1. IInv => AlwaysBootable
  BY ReleasesAssumption DEF IInv, PackageKept, LauncherKept, CanBoot, AlwaysBootable
<1>. QED BY SafetyInvariance, <1>1, PTL

(* A Computer that serves with no activation pending has installed what it reports, unless what
   it activated last was half staged. *)
THEOREM Agrees == Spec => []RecordAgrees
<1>1. IInv => RecordAgrees
  BY DEF IInv, DisagreementOwed, CodeCurrent, Agreement, RecordAgrees, Serving
<1>. QED BY SafetyInvariance, <1>1, PTL

(* An activation that stays pending has reported why. *)
THEOREM Explained == Spec => []PendingIsExplained
<1>1. IInv => PendingIsExplained
  BY DEF IInv, PendingKnown, PendingIsExplained, Serving
<1>. QED BY SafetyInvariance, <1>1, PTL

-----------------------------------------------------------------------------
(* The pipeline implements the atomic update *)

Up == pc \in {"serve", "deciding"}

(* What is whole is what was recorded last, and something is whole unless files and records
   disagree. *)
LEMMA WholeIsRecorded ==
  /\ Agreement => Whole = version /\ Recorded = version /\ version \in Versions
  /\ ~Agreement => Whole = None
  BY DEF Whole, Recorded, Agreement

LEMMA SameInstallation ==
  ASSUME UNCHANGED <<package, launcher, version, commit>>
  PROVE  UNCHANGED <<Whole, Recorded>>
  BY DEF Whole, Recorded, Agreement

LEMMA SameOffer ==
  ASSUME UNCHANGED staged \/ {staged.version, staged'.version} = {None}
  PROVE  UNCHANGED Offered
<1>1. None \notin Versions
  BY ReleasesAssumption
<1>. QED BY <1>1 DEF Offered, Sound

(* A version that is staged is offered, whole or not. *)
LEMMA StagedIsOffered ==
  ASSUME staged.version \in Versions
  PROVE  /\ Offered # None
         /\ Sound => Offered = staged.version
         /\ ~Sound => Offered = Unfinished
  BY ReleasesAssumption DEF Offered

(* A step that touches neither the installation nor what is offered and asked for. *)
LEMMA AtomicStutters ==
  ASSUME UNCHANGED <<package, launcher, version, commit, marker, Offered>>, Up' <=> Up
  PROVE  UNCHANGED Atomic!vars
  BY SameInstallation DEF Atomic!vars, Up

(* A step of the repair, the swap or the records, which may complete the installation. *)
LEMMA Mends ==
  ASSUME ~Up, ~Up', UNCHANGED <<staged, marker>>,
         Agreement => UNCHANGED <<package, launcher, version, commit>>,
         Agreement' => \/ Agreement
                       \/ version' = Recorded
                       \/ marker # None /\ version' = Offered,
         ~Agreement' => UNCHANGED commit
  PROVE  Atomic!Mend \/ UNCHANGED Atomic!vars
<1>1. UNCHANGED Offered
  BY SameOffer
<1>2. CASE Agreement
  <2>1. UNCHANGED <<package, launcher, version, commit, marker>> /\ (Up' <=> Up)
    BY <1>2
  <2>. QED BY <1>1, <2>1, AtomicStutters
<1>3. CASE ~Agreement /\ ~Agreement'
  <2>1. UNCHANGED <<Whole, Recorded>>
    BY <1>3 DEF Whole, Recorded
  <2>. QED BY <1>1, <2>1 DEF Atomic!vars, Up
<1>4. CASE ~Agreement /\ Agreement'
  <2>1. Whole = None /\ Whole' = version' /\ Recorded' = version' /\ version' \in Versions
    BY <1>4 DEF Whole, Recorded, Agreement
  <2>2. version' \in {Recorded} \union IF marker # None THEN {Offered} ELSE {}
    BY <1>4
  <2>. QED BY <1>1, <2>1, <2>2 DEF Atomic!Mend, Up
<1>. QED BY <1>2, <1>3, <1>4

(* What half a staging does to the installation. *)
LEMMA Wrecks ==
  ASSUME ~Up, marker # None, staged.version \in Versions, ~Sound, UNCHANGED <<staged, marker>>
  PROVE  Atomic!Wreck
<1>1. UNCHANGED Offered /\ Offered = Unfinished
  BY SameOffer, StagedIsOffered
<1>2. {Whole', Recorded'} \subseteq Versions \union {None}
  BY DEF Whole, Recorded, Agreement
<1>. QED BY <1>1, <1>2 DEF Atomic!Wreck, Up

LEMMA AtomicCommands ==
  ASSUME IInv,
         \/ Operator \/ CheckAndStage \/ RequestActivation \/ FinishCheck \/ ExitForRestart
  PROVE  Atomic!Next \/ UNCHANGED Atomic!vars
<1>. USE DEF Up
<1>1. CASE (\E v \in Versions : StageUpdate(v)) \/ CheckAndStage
  <2>1. Up /\ Up' /\ UNCHANGED <<package, launcher, version, commit, marker>>
    BY <1>1 DEF StageUpdate, CheckAndStage, Serving
  <2>2. CASE Offered' \in Versions
    BY <2>1, <2>2, SameInstallation DEF Atomic!Offer, Atomic!Next
  <2>3. CASE Offered' \notin Versions
    <3>1. Offered' \in {Unfinished, None}
      BY <2>3 DEF Offered
    <3>. QED BY <2>1, <3>1, SameInstallation DEF Atomic!Spoil, Atomic!Next
  <2>. QED BY <2>2, <2>3
<1>2. CASE ActivateUpdate \/ RequestActivation \/ FinishCheck
  <2>1. Up /\ Up' /\ UNCHANGED <<package, launcher, version, commit, staged>>
    BY <1>2 DEF ActivateUpdate, RequestActivation, FinishCheck, Serving
  <2>2. marker' \in Versions \union {Partial, marker}
    BY <1>2 DEF ActivateUpdate, RequestActivation, FinishCheck, IInv, Progress
  <2>3. UNCHANGED <<Offered, Whole, Recorded>>
    BY <2>1, SameOffer, SameInstallation
  <2>4. CASE marker' = marker
    BY <2>1, <2>3, <2>4 DEF Atomic!vars
  <2>5. CASE marker' # None
    BY <2>1, <2>3, <2>5 DEF Atomic!Ask, Atomic!Next
  <2>. QED BY <2>2, <2>4, <2>5, ReleasesAssumption
<1>3. CASE RestartRuntimeService
  BY <1>3, AtomicStutters, SameOffer DEF RestartRuntimeService, Serving
<1>4. CASE ExitForRestart
  BY <1>4, SameInstallation, SameOffer DEF ExitForRestart, Serving, Atomic!GoDown, Atomic!Next
<1>. QED BY <1>1, <1>2, <1>3, <1>4 DEF Operator

LEMMA AtomicStartup ==
  ASSUME IInv, Startup
  PROVE  Atomic!Next \/ UNCHANGED Atomic!vars
<1>. USE DEF Up
<1>0. UNCHANGED staged
  BY DEF Startup, Start, RestorePackage, BootRepair, DiscardCopies, ImportRuntime,
         NothingToActivate, BeginActivation
<1>1. CASE Start \/ BootRepair \/ ImportRuntime \/ BeginActivation
  BY <1>0, <1>1, AtomicStutters, SameOffer
     DEF Start, BootRepair, DiscardCopies, ImportRuntime, BeginActivation
<1>2. CASE RestorePackage
  <2>1. ~Agreement
    BY <1>2, ReleasesAssumption DEF RestorePackage, Agreement
  <2>2. Agreement' => version' = Recorded
    BY <1>2 DEF RestorePackage, Agreement, Recorded
  <2>. QED BY <1>2, <2>1, <2>2, Mends DEF RestorePackage, Atomic!Next
<1>3. CASE NothingToActivate
  <2>1. marker = None \/ Offered = None
    BY <1>3 DEF NothingToActivate, Offered
  <2>2. UNCHANGED <<Offered, Whole, Recorded>>
    BY <1>0, <1>3, SameOffer, SameInstallation DEF NothingToActivate
  <2>3. CASE marker = None
    BY <1>3, <2>2, <2>3 DEF NothingToActivate, Atomic!ComeUp, Atomic!Next
  <2>4. CASE Offered = None
    BY <1>3, <2>2, <2>4 DEF NothingToActivate, Atomic!Withdraw, Atomic!Next
  <2>. QED BY <2>1, <2>3, <2>4
<1>. QED BY <1>1, <1>2, <1>3 DEF Startup

(* A step of the activation until the staged version is removed: it takes the installation apart
   or brings it nearer to the staged release. *)
LEMMA AtomicSwap ==
  ASSUME IInv, \/ ActivationRepair \/ CopyPackage \/ RetirePackage \/ InstallPackage
               \/ InstallLauncher \/ RecordVersion \/ RecordCommit
  PROVE  Atomic!Next \/ UNCHANGED Atomic!vars
<1>. USE DEF Up
<1>0. /\ UNCHANGED <<staged, marker>> /\ ~Up /\ ~Up'
      /\ marker # None /\ staged.version \in Versions
  BY DEF ActivationRepair, DiscardCopies, CopyPackage, RetirePackage, InstallPackage,
         InstallLauncher, RecordVersion, RecordCommit, IInv, Progress, Swapping
<1>1. CASE ~Sound
  BY <1>0, <1>1, Wrecks DEF Atomic!Next
<1>2. CASE ActivationRepair \/ CopyPackage
  BY <1>0, <1>2, AtomicStutters, SameOffer DEF ActivationRepair, DiscardCopies, CopyPackage
<1>3. CASE Sound /\ RetirePackage
  <2>1. ~Agreement' /\ Recorded' = Recorded
    BY <1>3, ReleasesAssumption DEF RetirePackage, Agreement, Recorded
  <2>2. Whole' = None /\ UNCHANGED Offered /\ Offered # None
    BY <1>0, <2>1, SameOffer, StagedIsOffered DEF Whole
  <2>. QED BY <1>0, <2>1, <2>2 DEF Atomic!Break, Atomic!Next
<1>4. CASE Sound /\ InstallPackage
  <2>1. next = Offered
    BY <1>0, <1>4, StagedIsOffered
       DEF InstallPackage, IInv, Progress, Swapping, Sound, Staged
  <2>2. Agreement' => version' = Offered
    BY <1>4, <2>1 DEF InstallPackage, Agreement
  <2>3. ~Agreement
    BY <1>4, ReleasesAssumption DEF InstallPackage, IInv, Progress, Agreement
  <2>. QED BY <1>0, <1>4, <2>2, <2>3, Mends DEF InstallPackage, Atomic!Next
<1>5. CASE Sound /\ InstallLauncher
  <2>1. package = staged.version /\ staged = Staged(staged.version)
    BY <1>5 DEF InstallLauncher, IInv, Progress, Sound
  <2>2. Agreement' => version' = Offered
    BY <1>0, <1>5, <2>1, StagedIsOffered DEF InstallLauncher, Agreement
  <2>3. Agreement => launcher' = launcher
    BY <1>5, <2>1, ReleasesAssumption DEF InstallLauncher, Agreement, Staged
  <2>. QED BY <1>0, <1>5, <2>2, <2>3, Mends DEF InstallLauncher, Atomic!Next
<1>6. CASE Sound /\ RecordVersion
  <2>1. package = staged.version
    BY <1>6 DEF RecordVersion, IInv, Progress
  <2>2. Agreement => version' = version
    BY <1>6, <2>1 DEF RecordVersion, Agreement
  <2>3. version' = Offered
    BY <1>0, <1>6, StagedIsOffered DEF RecordVersion
  <2>. QED BY <1>0, <1>6, <2>2, <2>3, Mends DEF RecordVersion, Atomic!Next
<1>7. CASE Sound /\ RecordCommit
  <2>1. /\ package = staged.version /\ version = staged.version
        /\ staged = Staged(staged.version)
        /\ (version \in WithLauncher => launcher = version) /\ version \in Versions
    BY <1>0, <1>7 DEF RecordCommit, IInv, Progress, Sound
  <2>2. commit' = staged.version /\ UNCHANGED <<package, launcher, version>>
    BY <1>7, <2>1 DEF RecordCommit, Staged
  <2>3. Agreement' /\ version' = Offered
    BY <1>0, <1>7, <2>1, <2>2, StagedIsOffered DEF Agreement
  <2>4. Agreement => commit' = commit
    BY <2>1, <2>2 DEF Agreement
  <2>. QED BY <1>0, <1>7, <2>1, <2>2, <2>3, <2>4, Mends DEF RecordCommit, Atomic!Next
<1>. QED BY <1>1, <1>2, <1>3, <1>4, <1>5, <1>6, <1>7

(* The rest of an activation: the staged release, then the marker goes. *)
LEMMA AtomicEnd ==
  ASSUME IInv, ClearVersion \/ ClearMetadata \/ ClearRuntime \/ Unmark \/ EndActivation
  PROVE  Atomic!Next \/ UNCHANGED Atomic!vars
<1>. USE DEF Up
<1>0. UNCHANGED <<Whole, Recorded>>
  BY SameInstallation
     DEF ClearVersion, ClearMetadata, ClearRuntime, ClearStaged, Unmark, EndActivation
<1>1. CASE ClearVersion
  <2>1. marker # None /\ staged.version \in Versions
    BY <1>1 DEF ClearVersion, ClearStaged, IInv, Progress, Swapping
  <2>2. staged \in StagingArea
    BY DEF IInv, TypeOK, StagingArea
  <2>3. staged'.version = None
    BY <1>1, <2>2 DEF ClearVersion, ClearStaged, StagingArea
  <2>4. Offered' = None /\ Offered # None
    BY <2>1, <2>3, StagedIsOffered, ReleasesAssumption DEF Offered
  <2>5. Offered \in {Whole, Unfinished}
    <3>1. CASE Sound
      <4>1. Agreement /\ version = staged.version
        BY <1>1, <2>1, <3>1 DEF ClearVersion, ClearStaged, IInv, Progress, Agreement
      <4>. QED BY <2>1, <3>1, <4>1, WholeIsRecorded, StagedIsOffered
    <3>2. CASE ~Sound
      BY <2>1, <3>2, StagedIsOffered
    <3>. QED BY <3>1, <3>2
  <2>. QED BY <1>0, <1>1, <2>1, <2>4, <2>5 DEF ClearVersion, ClearStaged, Atomic!UseUp, Atomic!Next
<1>2. CASE ClearMetadata \/ ClearRuntime
  <2>1. staged.version = None /\ staged \in StagingArea
    BY <1>2 DEF ClearMetadata, ClearRuntime, ClearStaged, IInv, TypeOK, Progress, Cleared,
                StagingArea
  <2>2. staged'.version = None
    BY <1>2, <2>1 DEF ClearMetadata, ClearRuntime, ClearStaged, StagingArea
  <2>3. UNCHANGED Offered
    BY <2>1, <2>2, SameOffer
  <2>. QED BY <1>2, <2>3, AtomicStutters DEF ClearMetadata, ClearRuntime, ClearStaged
<1>3. CASE Unmark
  <2>1. Offered = None /\ UNCHANGED Offered
    BY <1>3, SameOffer, ReleasesAssumption DEF Unmark, IInv, Progress, Cleared, Offered
  <2>. QED BY <1>0, <1>3, <2>1 DEF Unmark, Atomic!Withdraw, Atomic!Next
<1>4. CASE EndActivation
  <2>1. UNCHANGED <<Offered, marker>> /\ ~Up /\ (Up' <=> ~swapped)
    BY <1>4, SameOffer DEF EndActivation
  <2>2. CASE swapped
    BY <1>0, <2>1, <2>2 DEF Atomic!vars
  <2>3. CASE ~swapped
    BY <1>0, <2>1, <2>3 DEF Atomic!ComeUp, Atomic!Next
  <2>. QED BY <2>2, <2>3
<1>. QED BY <1>1, <1>2, <1>3, <1>4

(* What is cut off leaves the installation, or takes it apart. *)
LEMMA AtomicFaults ==
  ASSUME IInv, Die \/ ActivationFails
  PROVE  Atomic!Next \/ UNCHANGED Atomic!vars
<1>. USE DEF Up
<1>1. UNCHANGED <<package, launcher, staged, marker, Offered>>
  BY SameOffer DEF Die, ActivationFails, CutOff
<1>2. CASE UNCHANGED <<version, commit>>
  <2>1. UNCHANGED <<Whole, Recorded>>
    BY <1>1, <1>2, SameInstallation
  <2>2. CASE Up' <=> Up
    BY <1>1, <1>2, <2>2, AtomicStutters
  <2>3. CASE Up /\ ~Up'
    BY <1>1, <2>1, <2>3 DEF Atomic!GoDown, Atomic!Next
  <2>4. CASE ~Up /\ Up'
    BY <1>1, <2>1, <2>4 DEF Atomic!ComeUp, Atomic!Next
  <2>. QED BY <2>2, <2>3, <2>4
<1>3. CASE ~UNCHANGED <<version, commit>>
  <2>1. \/ pc = "record" /\ version' = Partial /\ commit' = commit
        \/ pc = "commit" /\ commit' = Partial /\ version' = version
    BY <1>3 DEF Die, ActivationFails, CutOff
  <2>2. ~Up /\ marker # None /\ Offered # None
    BY <2>1, StagedIsOffered DEF IInv, Progress, Swapping
  <2>3. ~Agreement' /\ Recorded' \in {Recorded, None}
    BY <2>1, ReleasesAssumption DEF Agreement, Recorded
  <2>4. Whole' = None
    BY <2>3 DEF Whole
  <2>. QED BY <1>1, <2>2, <2>3, <2>4 DEF Atomic!Break, Atomic!Next
<1>. QED BY <1>2, <1>3

LEMMA AtomicStep ==
  ASSUME IInv, [Next]_vars
  PROVE  [Atomic!Next]_(Atomic!vars)
<1>1. CASE \/ UNCHANGED vars
           \/ \E channel \in Channels, v \in Versions : PlatformSelects(channel, v)
  BY <1>1, AtomicStutters, SameOffer DEF vars, PlatformSelects, Up
<1>2. CASE Activation
  BY <1>2, AtomicSwap, AtomicEnd DEF Activation
<1>. QED BY <1>1, <1>2, AtomicCommands, AtomicStartup, AtomicFaults DEF Next

(* An installation that many file operations replace, any of which may be the last before a
   crash, changes like an atomic one: it is taken apart only for a request and an offer that
   stand until it is whole again, and never while a process serves; only what is offered half
   staged may take it elsewhere (activate_staged_runtime_code, recover_interrupted_package_swap). *)
THEOREM KeepsAtomicUpdate == Spec => ImplementsAtomicUpdate
<1>1. Init => Atomic!Init
  BY ReleasesAssumption DEF Init, Atomic!Init, Whole, Recorded, Agreement, Offered
<1>2. IInv /\ [Next]_vars => [Atomic!Next]_(Atomic!vars)
  BY AtomicStep
<1>. QED BY <1>1, <1>2, SafetyInvariance, PTL DEF Spec, ImplementsAtomicUpdate, Atomic!Spec
=============================================================================
