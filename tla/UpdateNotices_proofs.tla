------------------------- MODULE UpdateNotices_proofs -------------------------
(***************************************************************************)
(* Proofs about UpdateNotices, for all releases, plugins and limits.       *)
(*                                                                         *)
(* IInv has four parts: targets only grow (TargetsGrow); a release that a  *)
(* start would activate was announced (Announced); a plugin is touched     *)
(* only behind its marker (PluginOnRecord); and what a notice may claim is *)
(* in the markers (NoticeKept).                                            *)
(***************************************************************************)
EXTENDS UpdateNotices, TLAPS

-----------------------------------------------------------------------------
(* The inductive invariant *)

Run     == marker["runtime"]
Working == pc \notin {"off", "idle"}
Deciding == {"stage", "recover", "install", "metadata", "enable", "record", "activate", "notice"}

(* Nothing on the disk is newer than v. *)
NoneAbove(v) == staged <= v /\ activation <= v /\ (Run.state # "none" => Run.target <= v)

(* Channels only advance: no command asks for less than an earlier one left behind, and what is
   to be activated is newer than what runs. *)
TargetsGrow ==
  /\ NoneAbove(targets.ref) /\ command.ref <= targets.ref
  /\ command.ref # None => NoneAbove(command.ref)
  /\ Working =>
       /\ job.spec \in Commands /\ NoneAbove(Ref) /\ Ref <= targets.ref
       /\ command.ref # None => Ref <= command.ref
       /\ job.available => Ref > onDisk
       /\ job.staging # "none" => staged = Ref
  /\ activation # None => activation > onDisk

(* A release with an activation marker was announced, or a newer one is staged over it; the
   second part is what an acknowledgement of a newer announcement rests on. *)
Announced ==
  /\ activation # None =>
       Names("runtime", activation) \/ covered = activation \/ staged > activation
  /\ activation # None /\ Run.state # "none" /\ Run.target > activation => staged > activation
  /\ pc = "activate" /\ StagedHere /\ ~job.rerror /\ ~job.pending /\ ~PluginOwns =>
       Names("runtime", Ref)
  /\ pc = "ack" /\ job.kind = "runtime" => covered = Ref

(* The installer works behind a repair marker, and a change it made stays on record. *)
PluginOnRecord ==
  /\ pc \in {"install", "metadata", "enable"} => Repairs
  /\ pc \in {"record", "activate", "notice"} /\ PluginOwns => Settles
  /\ owed => Plug.state # "none"
  /\ pc = "ack" /\ job.kind = "plugin" => ~owed

(* What a command claims of its notice is in the marker of its own target. *)
NoticeKept ==
  /\ \A k \in Kinds : marker[k].state # "none" /\ marker[k].sent => told[k]
  /\ pc \in Deciding => job.kind = "none" /\ ~job.settled
  /\ Working /\ job.kind # "none" => Names(job.kind, Target(job.kind))
  /\ Working /\ job.settled =>
       job.kind \in Kinds /\ (told[job.kind] \/ marker[job.kind].attempts = MaxAttempts)
  /\ pc = "send" => job.kind \in Kinds /\ sends[job.kind] < marker[job.kind].attempts
  /\ pc = "outcome" => job.kind \in Kinds /\ told[job.kind]
  /\ pc = "ack" => job.settled /\ accepted[job.kind] = Target(job.kind)

(* Types that TypeOK leaves to the definitions: markers and histories are functions. *)
AnyMarker ==
  [state : {"none", "repair", "unacknowledged"}, target : Releases \union Plugins \union {None},
   attempts : 0..MaxAttempts, sent : BOOLEAN]
Shapes ==
  /\ marker \in [Kinds -> AnyMarker] /\ told \in [Kinds -> BOOLEAN]
  /\ DOMAIN accepted = Kinds /\ faults \in 0..MaxFaults

IInv == TypeOK /\ Shapes /\ TargetsGrow /\ Announced /\ PluginOnRecord /\ NoticeKept /\ BoundedNotices

-----------------------------------------------------------------------------
(* Types *)

USE DEF disk, process, platform, history, counts, None, Kinds

DiskTyped ==
  /\ onDisk \in Releases /\ {staged, activation} \subseteq Releases \union {None}
  /\ plugin \in Plugins \union {Partial}
MarkersTyped ==
  /\ \A k \in Kinds : marker[k] \in Markers(k)
  /\ sends \in [Kinds -> 0..MaxAttempts]
  /\ marker \in [Kinds -> AnyMarker] /\ told \in [Kinds -> BOOLEAN] /\ DOMAIN accepted = Kinds
JobTyped == job \in Jobs
PlatformTyped ==
  /\ targets \in [ref : Releases, plug : Plugins]
  /\ command \in Commands \union {NoCommand} /\ hint \in Hints
StepTyped == pc \in Steps /\ restart \in BOOLEAN /\ faults \in 0..MaxFaults

LEMMA TypeParts ==
  TypeOK /\ Shapes <=> DiskTyped /\ MarkersTyped /\ JobTyped /\ PlatformTyped /\ StepTyped
  BY DEF TypeOK, Shapes, DiskTyped, MarkersTyped, JobTyped, PlatformTyped, StepTyped

(* The markers of each kind, without the conditions of the definition. *)
LEMMA MarkersOfKind ==
  /\ Markers("runtime") = {NoMarker} \union
       [state : {"unacknowledged"}, target : Releases, attempts : 0..MaxAttempts, sent : BOOLEAN]
  /\ Markers("plugin") = {NoMarker} \union
       [state : {"repair", "unacknowledged"}, target : Plugins, attempts : 0..MaxAttempts,
        sent : BOOLEAN]
  BY DEF Markers

LEMMA MarkersAny ==
  ASSUME NEW k \in Kinds, NEW m \in Markers(k)
  PROVE  m \in AnyMarker
<1>1. NoMarker \in AnyMarker
  BY LimitsAssumption DEF AnyMarker, NoMarker
<1>2. CASE k = "runtime"
  BY <1>1, <1>2, MarkersOfKind DEF AnyMarker
<1>3. CASE k = "plugin"
  BY <1>1, <1>3, MarkersOfKind DEF AnyMarker
<1>. QED BY <1>2, <1>3

(* A marker that is there keeps its kind when an attempt is counted or an outcome recorded. *)
LEMMA MarkerStays ==
  ASSUME NEW k \in Kinds, NEW m \in Markers(k), m.state # "none",
         NEW a \in 0..MaxAttempts, NEW b \in BOOLEAN
  PROVE  [m EXCEPT !.attempts = a, !.sent = b] \in Markers(k)
<1>1. m # NoMarker
  BY DEF NoMarker
<1>2. CASE k = "runtime"
  BY <1>1, <1>2, MarkersOfKind
<1>3. CASE k = "plugin"
  BY <1>1, <1>3, MarkersOfKind
<1>. QED BY <1>2, <1>3

(* A recorded marker starts a history of its own and leaves the other kind alone. *)
LEMMA RecordFacts ==
  ASSUME MarkersTyped, NEW k \in Kinds, NEW m \in Markers(k), Record(k, m)
  PROVE  /\ MarkersTyped'
         /\ marker'[k] = m /\ sends'[k] = 0 /\ told'[k] = FALSE /\ accepted'[k] = None
         /\ \A j \in Kinds \ {k} :
              /\ marker'[j] = marker[j] /\ sends'[j] = sends[j]
              /\ told'[j] = told[j] /\ accepted'[j] = accepted[j]
<1>1. m \in AnyMarker
  BY MarkersAny
<1>2. marker' \in [Kinds -> AnyMarker] /\ marker'[k] = m /\ \A j \in Kinds \ {k} : marker'[j] = marker[j]
  BY <1>1 DEF MarkersTyped, Record
<1>3. sends' \in [Kinds -> 0..MaxAttempts] /\ sends'[k] = 0 /\ \A j \in Kinds \ {k} : sends'[j] = sends[j]
  BY LimitsAssumption DEF MarkersTyped, Record
<1>4. told' \in [Kinds -> BOOLEAN] /\ told'[k] = FALSE /\ \A j \in Kinds \ {k} : told'[j] = told[j]
  BY DEF MarkersTyped, Record
<1>5. DOMAIN accepted' = Kinds /\ accepted'[k] = None
      /\ \A j \in Kinds \ {k} : accepted'[j] = accepted[j]
  BY DEF MarkersTyped, Record
<1>6. \A j \in Kinds : marker'[j] \in Markers(j)
  BY <1>2 DEF MarkersTyped
<1>. QED BY <1>2, <1>3, <1>4, <1>5, <1>6 DEF MarkersTyped

LEMMA MarkersMade ==
  /\ \A k \in Kinds : NoMarker \in Markers(k)
  /\ \A v \in Releases : Marker("unacknowledged", v) \in Markers("runtime")
  /\ \A p \in Plugins : /\ Marker("unacknowledged", p) \in Markers("plugin")
                        /\ Marker("repair", p) \in Markers("plugin")
  BY LimitsAssumption DEF Markers, Marker

LEMMA ReserveFacts ==
  ASSUME MarkersTyped, NEW k \in Kinds, Reserve(k), ~Exhausted(k), marker[k].state # "none"
  PROVE  /\ \A j \in Kinds : marker'[j] \in Markers(j)
         /\ marker' \in [Kinds -> AnyMarker]
         /\ marker'[k].state = marker[k].state /\ marker'[k].target = marker[k].target
         /\ marker'[k].attempts = marker[k].attempts + 1 /\ marker'[k].sent = FALSE
         /\ \A j \in Kinds \ {k} : marker'[j] = marker[j]
<1>. DEFINE m == [marker[k] EXCEPT !.attempts = marker[k].attempts + 1, !.sent = FALSE]
<1>1. marker[k] \in AnyMarker /\ marker[k] \in Markers(k)
  BY DEF MarkersTyped
<1>2. marker[k].attempts + 1 \in 0..MaxAttempts
  BY <1>1, LimitsAssumption DEF AnyMarker, Exhausted
<1>3. m \in Markers(k) /\ m \in AnyMarker
  BY <1>1, <1>2, MarkerStays, MarkersAny
<1>4. marker' = [marker EXCEPT ![k] = m]
  BY <1>1 DEF Reserve, MarkersTyped, AnyMarker
<1>5. /\ m.state = marker[k].state /\ m.target = marker[k].target
      /\ m.attempts = marker[k].attempts + 1 /\ m.sent = FALSE
  BY <1>1 DEF AnyMarker
<1>. HIDE DEF m
<1>6. marker' \in [Kinds -> AnyMarker] /\ marker'[k] = m /\ \A j \in Kinds \ {k} : marker'[j] = marker[j]
  BY <1>3, <1>4 DEF MarkersTyped
<1>. QED BY <1>3, <1>5, <1>6 DEF MarkersTyped

LEMMA OutcomeFacts ==
  ASSUME MarkersTyped, NEW k \in Kinds, marker' = [marker EXCEPT ![k].sent = TRUE],
         marker[k].state # "none"
  PROVE  /\ \A j \in Kinds : marker'[j] \in Markers(j)
         /\ marker' \in [Kinds -> AnyMarker]
         /\ marker'[k].state = marker[k].state /\ marker'[k].target = marker[k].target
         /\ marker'[k].attempts = marker[k].attempts
         /\ \A j \in Kinds \ {k} : marker'[j] = marker[j]
<1>. DEFINE m == [marker[k] EXCEPT !.attempts = marker[k].attempts, !.sent = TRUE]
<1>1. marker[k] \in AnyMarker /\ marker[k] \in Markers(k)
  BY DEF MarkersTyped
<1>2. marker[k].attempts \in 0..MaxAttempts
  BY <1>1 DEF AnyMarker
<1>3. m \in Markers(k) /\ m \in AnyMarker
  BY <1>1, <1>2, MarkerStays, MarkersAny
<1>4. marker' = [marker EXCEPT ![k] = m]
  BY <1>1 DEF MarkersTyped, AnyMarker
<1>5. /\ m.state = marker[k].state /\ m.target = marker[k].target
      /\ m.attempts = marker[k].attempts
  BY <1>1 DEF AnyMarker
<1>. HIDE DEF m
<1>6. marker' \in [Kinds -> AnyMarker] /\ marker'[k] = m /\ \A j \in Kinds \ {k} : marker'[j] = marker[j]
  BY <1>3, <1>4 DEF MarkersTyped
<1>. QED BY <1>3, <1>5, <1>6 DEF MarkersTyped
LEMMA TypeInit == Init => TypeOK /\ Shapes
<1>. SUFFICES ASSUME Init PROVE TypeOK /\ Shapes
  OBVIOUS
<1>1. DiskTyped
  <2>1. Installed.ref \in Releases /\ Installed.plug \in Plugins
    BY TargetsAssumption
  <2>. QED BY <2>1 DEF Init, DiskTyped
<1>5. StepTyped
  <2>1. pc \in Steps
    BY DEF Init, Steps
  <2>2. 0 \in 0..MaxFaults
    BY LimitsAssumption
  <2>. QED BY <2>1, <2>2 DEF Init, StepTyped
<1>2. MarkersTyped
  <2>1. NoMarker \in AnyMarker /\ \A k \in Kinds : NoMarker \in Markers(k)
    BY MarkersAny, MarkersMade
  <2>. QED BY <2>1, LimitsAssumption DEF Init, MarkersTyped
<1>3. JobTyped
  BY DEF Init, JobTyped, Jobs, NoJob
<1>4. PlatformTyped
  BY TargetsAssumption DEF Init, PlatformTyped, Hints, NoHint
<1>. QED BY <1>1, <1>2, <1>3, <1>4, <1>5, TypeParts

(* What a command does with its job, action by action. *)
LEMMA DiscoverTyped ==
  ASSUME DiskTyped, PlatformTyped, Discover
  PROVE  /\ job' \in Jobs /\ job'.spec = command /\ command \in Commands
         /\ job'.available = (command.ref > onDisk) /\ job'.pending = (activation = command.ref)
         /\ job'.staging = "none" /\ job'.kind = "none" /\ job'.settled = FALSE
<1>1. PICK ok \in BOOLEAN, seen \in {plugin, Unseen} :
         job' = [NoJob EXCEPT !.spec = command, !.live = TRUE,
                              !.available = command.ref > onDisk,
                              !.pending = activation = command.ref,
                              !.before = seen, !.outdated = Outdated(ok)]
  BY DEF Discover, Snapshots
<1>2. command \in Commands
  BY DEF Discover, PlatformTyped
<1>3. seen \in Plugins \union {Partial, Unseen}
  BY DEF DiskTyped
<1>4. Outdated(ok) \in {"yes", "no", "unknown"}
  BY DEF Outdated
<1>5. (command.ref > onDisk) \in BOOLEAN /\ (activation = command.ref) \in BOOLEAN
  OBVIOUS
<1>. QED BY <1>1, <1>2, <1>3, <1>4, <1>5 DEF Jobs, NoJob

(* PluginFails and the plain updates of booleans. *)
LEMMA JobStep ==
  ASSUME JobTyped, DiskTyped, PlatformTyped, [Next]_vars
  PROVE  JobTyped'
<1>0. NoJob \in Jobs
  BY DEF Jobs, NoJob
<1>. USE DEF JobTyped
<1>1. ASSUME NEW v \in Releases, NEW p \in Plugins, PlatformMoves(v, p) PROVE JobTyped'
  BY <1>1 DEF PlatformMoves
<1>2. ASSUME NEW p \in Plugins, UpdateTinyhatPlugin(p) PROVE JobTyped'
  BY <1>2 DEF UpdateTinyhatPlugin
<1>3. CASE Dispatch
  BY <1>3 DEF Dispatch, Jobs
<1>4. CASE Start \/ ExitForRestart \/ Crash
  BY <1>0, <1>4 DEF Start, ExitForRestart, Crash
<1>5. CASE Discover
  BY <1>5, DiscoverTyped
<1>6. CASE Stage
  <2>1. \/ \E b \in BOOLEAN, t \in {"now", "none"} :
             job' = [job EXCEPT !.rerror = b, !.staging = t]
        \/ \E t \in {"already", "none"} : job' = [job EXCEPT !.staging = t]
    BY <1>6 DEF Stage
  <2>2. ASSUME NEW b \in BOOLEAN, NEW t \in {"now", "none"},
               job' = [job EXCEPT !.rerror = b, !.staging = t]
        PROVE  JobTyped'
    BY <2>2 DEF Jobs
  <2>3. ASSUME NEW t \in {"already", "none"}, job' = [job EXCEPT !.staging = t]
        PROVE  JobTyped'
    BY <2>3 DEF Jobs
  <2>. QED BY <2>1, <2>2, <2>3
<1>7. CASE Recover
  <2>1. \/ \E b \in BOOLEAN, c \in BOOLEAN :
             job' = [job EXCEPT !.promoted = b, !.changed = b, !.perror = c]
        \/ \E b \in BOOLEAN, c \in BOOLEAN : job' = [job EXCEPT !.changed = b, !.perror = c]
        \/ \E b \in BOOLEAN, c \in BOOLEAN : job' = [job EXCEPT !.repair = b, !.perror = c]
    <3>1. (Settles /\ ~Gone) \in BOOLEAN /\ (Repairs \/ OlderRepair \/ Gone) \in BOOLEAN
          /\ (job.outdated = "unknown" /\ ~(Settles /\ ~Gone)) \in BOOLEAN
      OBVIOUS
    <3>. QED BY <1>7, <3>1 DEF Recover
  <2>2. ASSUME NEW b \in BOOLEAN, NEW c \in BOOLEAN,
               \/ job' = [job EXCEPT !.promoted = b, !.changed = b, !.perror = c]
               \/ job' = [job EXCEPT !.changed = b, !.perror = c]
               \/ job' = [job EXCEPT !.repair = b, !.perror = c]
        PROVE  JobTyped'
    <3>1. CASE job' = [job EXCEPT !.promoted = b, !.changed = b, !.perror = c]
      BY <3>1 DEF Jobs
    <3>2. CASE job' = [job EXCEPT !.changed = b, !.perror = c]
      BY <3>2 DEF Jobs
    <3>3. CASE job' = [job EXCEPT !.repair = b, !.perror = c]
      BY <3>3 DEF Jobs
    <3>. QED BY <2>2, <3>1, <3>2, <3>3
  <2>. QED BY <2>1, <2>2
<1>18. ASSUME NEW b \in BOOLEAN, job' = [job EXCEPT !.perror = TRUE, !.changed = b, !.code = b]
       PROVE  JobTyped'
  BY <1>18 DEF Jobs
<1>19. ASSUME NEW p, PluginFails(p) PROVE JobTyped'
  <2>1. (p = job.spec.plug /\ ~Proven) \in BOOLEAN
    OBVIOUS
  <2>. QED BY <1>18, <1>19, <2>1 DEF PluginFails
<1>8. CASE Install
  <2>1. job' = job \/ job' = [job EXCEPT !.code = TRUE] \/ PluginFails(plugin)
    BY <1>8 DEF Install, AlreadyInstalled, ReplaceFiles, FetchFails
  <2>2. CASE job' = [job EXCEPT !.code = TRUE]
    BY <2>2 DEF Jobs
  <2>. QED BY <1>19, <2>1, <2>2
<1>9. CASE WriteMetadata
  <2>1. job' = job \/ PluginFails(plugin)
    BY <1>9 DEF WriteMetadata
  <2>. QED BY <1>19, <2>1
<1>10. CASE EndInstall
  <2>1. (\E b \in BOOLEAN : job' = [job EXCEPT !.changed = b]) \/ PluginFails(plugin)
    <3>1. (job.code \/ job.repair \/ job.outdated = "yes") \in BOOLEAN
      OBVIOUS
    <3>. QED BY <1>10, <3>1 DEF EndInstall
  <2>2. ASSUME NEW b \in BOOLEAN, job' = [job EXCEPT !.changed = b] PROVE JobTyped'
    BY <2>2 DEF Jobs
  <2>. QED BY <1>19, <2>1, <2>2
<1>11. CASE RecordRuntimeNotice
  <2>1. job' = job \/ \E b \in BOOLEAN : job' = [job EXCEPT !.rerror = b]
    BY <1>11 DEF RecordRuntimeNotice
  <2>2. ASSUME NEW b \in BOOLEAN, job' = [job EXCEPT !.rerror = b] PROVE JobTyped'
    BY <2>2 DEF Jobs
  <2>. QED BY <2>1, <2>2
<1>12. CASE RequestActivation
  <2>1. ReadyToActivate \in BOOLEAN
    BY DEF ReadyToActivate
  <2>2. \/ \E b \in BOOLEAN, c \in BOOLEAN :
             job' = [job EXCEPT !.rerror = b, !.requested = c, !.created = c]
        \/ job' = [job EXCEPT !.requested = ReadyToActivate]
    BY <1>12 DEF RequestActivation
  <2>3. ASSUME NEW b \in BOOLEAN, NEW c \in BOOLEAN,
               job' = [job EXCEPT !.rerror = b, !.requested = c, !.created = c]
        PROVE  JobTyped'
    BY <2>3 DEF Jobs
  <2>4. ASSUME NEW b \in BOOLEAN, job' = [job EXCEPT !.requested = b] PROVE JobTyped'
    BY <2>4 DEF Jobs
  <2>. QED BY <2>1, <2>2, <2>3, <2>4
<1>13. CASE BeginNotice
  <2>1. NoticeKind \in Kinds \union {"none"}
    BY DEF NoticeKind
  <2>2. \/ job' = job \/ job' = [job EXCEPT !.kind = NoticeKind, !.settled = TRUE]
        \/ job' = [job EXCEPT !.kind = NoticeKind]
    BY <1>13 DEF BeginNotice
  <2>3. ASSUME NEW k \in Kinds \union {"none"}, job' = [job EXCEPT !.kind = k, !.settled = TRUE]
        PROVE  JobTyped'
    BY <2>3 DEF Jobs
  <2>4. ASSUME NEW k \in Kinds \union {"none"}, job' = [job EXCEPT !.kind = k] PROVE JobTyped'
    BY <2>4 DEF Jobs
  <2>. QED BY <2>1, <2>2, <2>3, <2>4
<1>14. CASE SendNotice
  <2>1. PICK b \in BOOLEAN : job' = [job EXCEPT !.settled = b]
    <3>1. \A c \in BOOLEAN : (c \/ Exhausted(job.kind)) \in BOOLEAN
      OBVIOUS
    <3>. QED BY <1>14, <3>1 DEF SendNotice
  <2>. QED BY <2>1 DEF Jobs
<1>15. CASE RecordOutcome \/ FinishCommand
  BY <1>15 DEF RecordOutcome, FinishCommand
<1>16. CASE PostAnswered \/ PostUnanswered \/ Acknowledge
  BY <1>0, <1>16 DEF PostAnswered, PostUnanswered, Acknowledge, EndCommand
<1>17. CASE Report \/ UNCHANGED vars
  BY <1>17 DEF Report, vars
<1>. QED
  BY <1>1, <1>2, <1>3, <1>4, <1>5, <1>6, <1>7, <1>8, <1>9, <1>10, <1>11, <1>12, <1>13, <1>14,
     <1>15, <1>16, <1>17
     DEF Next, Command, Installing, Notifying

LEMMA DiskStep ==
  ASSUME DiskTyped, JobTyped, PlatformTyped, TargetsGrow, [Next]_vars
  PROVE  DiskTyped'
<1>. USE DEF DiskTyped
<1>1. Working => job.spec \in Commands /\ job.spec.ref \in Releases /\ job.spec.plug \in Plugins
  BY DEF TargetsGrow, Commands
<1>2. ASSUME NEW p \in Plugins, UpdateTinyhatPlugin(p) PROVE DiskTyped'
  BY <1>2 DEF UpdateTinyhatPlugin
<1>3. CASE Start
  BY <1>3 DEF Start
<1>4. CASE Stage
  BY <1>1, <1>4 DEF Stage, Working
<1>5. CASE Install \/ WriteMetadata
  BY <1>1, <1>5 DEF Install, AlreadyInstalled, ReplaceFiles, FetchFails, WriteMetadata, Working
<1>6. CASE RequestActivation
  BY <1>1, <1>6 DEF RequestActivation, Working, Ref
<1>7. CASE Crash \/ ExitForRestart \/ Dispatch \/ Report \/ UNCHANGED vars
            \/ \E v \in Releases, p \in Plugins : PlatformMoves(v, p)
  BY <1>7 DEF Crash, ExitForRestart, Dispatch, Report, vars, PlatformMoves
<1>8. CASE Discover \/ Recover \/ EndInstall \/ RecordRuntimeNotice \/ Notifying
            \/ FinishCommand \/ PostAnswered \/ PostUnanswered \/ Acknowledge
  BY <1>8 DEF Discover, Recover, EndInstall, RecordRuntimeNotice, Notifying, BeginNotice,
              SendNotice, RecordOutcome, FinishCommand, PostAnswered, PostUnanswered, Acknowledge
<1>. QED BY <1>2, <1>3, <1>4, <1>5, <1>6, <1>7, <1>8 DEF Next, Command, Installing

LEMMA PlatformStep ==
  ASSUME PlatformTyped, [Next]_vars
  PROVE  PlatformTyped'
<1>. USE DEF PlatformTyped
<1>1. ASSUME NEW v \in Releases, NEW p \in Plugins, PlatformMoves(v, p) PROVE PlatformTyped'
  BY <1>1 DEF PlatformMoves, Hints
<1>2. CASE Dispatch
  <2>1. [ref |-> targets.ref, plug |-> targets.plug, recovery |-> hint.recovery] \in Commands
    BY DEF Commands, Hints
  <2>2. NoHint \in Hints
    BY DEF Hints, NoHint
  <2>. QED BY <1>2, <2>1, <2>2 DEF Dispatch
<1>3. CASE Report
  BY <1>3 DEF Report, Hints
<1>4. CASE PostAnswered \/ PostUnanswered
  BY <1>4 DEF PostAnswered, PostUnanswered, Accept
<1>5. CASE Start \/ Crash \/ ExitForRestart \/ UNCHANGED vars
            \/ \E p \in Plugins : UpdateTinyhatPlugin(p)
  BY <1>5 DEF Start, Crash, ExitForRestart, vars, UpdateTinyhatPlugin
<1>6. CASE Command \/ Acknowledge
  BY <1>6 DEF Command, Discover, Stage, Recover, Installing, Install, WriteMetadata, EndInstall,
              RecordRuntimeNotice, RequestActivation, Notifying, BeginNotice, SendNotice,
              RecordOutcome, FinishCommand, Acknowledge
<1>. QED BY <1>1, <1>2, <1>3, <1>4, <1>5, <1>6 DEF Next

LEMMA StepStep ==
  ASSUME StepTyped, [Next]_vars
  PROVE  StepTyped'
<1>0. ASSUME NEW ok \in BOOLEAN, Try(ok) PROVE faults' \in 0..MaxFaults
  BY <1>0, LimitsAssumption DEF Try, StepTyped
<1>1. CASE Start \/ Crash \/ ExitForRestart \/ Dispatch \/ Report
  BY <1>0, <1>1 DEF StepTyped, Steps, Start, Crash, ExitForRestart, Dispatch, Report
<1>2. ASSUME NEW v \in Releases, NEW p \in Plugins, PlatformMoves(v, p) PROVE StepTyped'
  BY <1>2 DEF StepTyped, PlatformMoves
<1>12. ASSUME NEW p \in Plugins, UpdateTinyhatPlugin(p) PROVE StepTyped'
  BY <1>12 DEF StepTyped, UpdateTinyhatPlugin
<1>3. CASE Discover \/ Stage
  BY <1>0, <1>3 DEF StepTyped, Steps, Discover, Stage
<1>4. CASE RecordRuntimeNotice \/ RequestActivation
  BY <1>0, <1>4 DEF StepTyped, Steps, RecordRuntimeNotice, RequestActivation
<1>5. CASE Recover
  BY <1>0, <1>5 DEF StepTyped, Steps, Recover
<1>6. CASE Install
  BY <1>0, <1>6 DEF StepTyped, Steps, Install, AlreadyInstalled, ReplaceFiles, FetchFails, PluginFails
<1>7. CASE WriteMetadata \/ EndInstall
  BY <1>0, <1>7 DEF StepTyped, Steps, WriteMetadata, EndInstall, PluginFails
<1>8. CASE Notifying
  BY <1>0, <1>8 DEF StepTyped, Steps, Notifying, BeginNotice, SendNotice, RecordOutcome
<1>9. CASE FinishCommand
  <2>1. (restart \/ RuntimeChanged \/ job.code \/ job.promoted) \in BOOLEAN
    OBVIOUS
  <2>. QED BY <1>9, <2>1 DEF StepTyped, Steps, FinishCommand
<1>10. CASE PostAnswered \/ PostUnanswered \/ Acknowledge
  BY <1>0, <1>10 DEF StepTyped, Steps, PostAnswered, PostUnanswered, Acknowledge, EndCommand
<1>11. CASE UNCHANGED vars
  BY <1>11 DEF StepTyped, vars
<1>. QED
  BY <1>1, <1>2, <1>3, <1>4, <1>5, <1>6, <1>7, <1>8, <1>9, <1>10, <1>11, <1>12
     DEF Next, Command, Installing

LEMMA Numbers ==
  ASSUME DiskTyped, PlatformTyped, MarkersTyped
  PROVE  /\ Releases \subseteq Nat \ {0}
         /\ onDisk \in Nat /\ onDisk > 0 /\ staged \in Nat /\ activation \in Nat
         /\ targets.ref \in Nat /\ targets.ref > 0 /\ command.ref \in Nat
         /\ Run.state # "none" => Run.target \in Releases
         /\ job.spec \in Commands => Ref \in Releases /\ job.spec.plug \in Plugins
<1>0. \A v \in Releases \union {None} : v \in Nat /\ (v # None => v > 0)
  BY TargetsAssumption
<1>1. onDisk \in Nat /\ onDisk > 0 /\ staged \in Nat /\ activation \in Nat
  <2>1. onDisk \in Releases /\ staged \in Releases \union {None}
        /\ activation \in Releases \union {None}
    BY DEF DiskTyped
  <2>2. 0 \notin Releases
    BY TargetsAssumption
  <2>. QED BY <1>0, <2>1, <2>2
<1>2. targets.ref \in Nat /\ targets.ref > 0 /\ command.ref \in Nat
  <2>1. targets.ref \in Releases
    BY DEF PlatformTyped
  <2>2. command.ref \in Releases \union {None}
    BY DEF PlatformTyped, Commands, NoCommand
  <2>3. 0 \notin Releases
    BY TargetsAssumption
  <2>. QED BY <1>0, <2>1, <2>2, <2>3
<1>3. Run.state # "none" => Run.target \in Releases
  BY MarkersOfKind DEF MarkersTyped, Run, NoMarker
<1>4. job.spec \in Commands => Ref \in Releases /\ job.spec.plug \in Plugins
  BY DEF Ref, Commands
<1>. QED BY <1>1, <1>2, <1>3, <1>4, TargetsAssumption

(* A notice is about a marker that is there. *)
LEMMA NoticeHasMarker ==
  ASSUME PluginOnRecord, pc = "notice", NoticeKind # "none"
  PROVE  NoticeKind \in Kinds /\ Names(NoticeKind, Target(NoticeKind))
         /\ (NoticeKind = "plugin" => Settles)
<1>1. CASE PluginOwns
  BY <1>1 DEF NoticeKind, PluginOnRecord, Settles, Plug, Names, Target
<1>2. CASE ~PluginOwns
  BY <1>2 DEF NoticeKind, AnnouncesActivation, ReplaysNotice, Names, Target, Ref
<1>. QED BY <1>1, <1>2

LEMMA MarkersStep ==
  ASSUME MarkersTyped, JobTyped, PlatformTyped, DiskTyped, TargetsGrow, PluginOnRecord, NoticeKept,
         [Next]_vars
  PROVE  MarkersTyped'
<1>1. Working => job.spec.ref \in Releases /\ job.spec.plug \in Plugins
  BY DEF TargetsGrow, Commands
<1>2. Keep => MarkersTyped'
  BY DEF Keep, MarkersTyped
<1>3. CASE Recover
  BY <1>1, <1>2, <1>3, RecordFacts, MarkersMade DEF Recover, Working
<1>4. CASE EndInstall
  BY <1>1, <1>2, <1>4, RecordFacts, MarkersMade DEF EndInstall, Working
<1>5. CASE RecordRuntimeNotice
  BY <1>1, <1>2, <1>5, RecordFacts, MarkersMade DEF RecordRuntimeNotice, Working, Ref
<1>6. CASE BeginNotice
  <2>1. CASE marker' = marker
    BY <1>6, <2>1 DEF BeginNotice, MarkersTyped
  <2>2. CASE marker' # marker
    <3>1. NoticeKind # "none" /\ Reserve(NoticeKind) /\ ~Exhausted(NoticeKind)
          /\ UNCHANGED history /\ pc = "notice"
      BY <1>6, <2>2 DEF BeginNotice
    <3>2. NoticeKind \in Kinds /\ marker[NoticeKind].state # "none"
      BY <3>1, NoticeHasMarker DEF Names
    <3>3. (\A j \in Kinds : marker'[j] \in Markers(j)) /\ marker' \in [Kinds -> AnyMarker]
      BY <3>1, <3>2, ReserveFacts
    <3>. QED BY <3>1, <3>3 DEF MarkersTyped
  <2>. QED BY <2>1, <2>2
<1>7. CASE SendNotice
  <2>1. job.kind \in Kinds /\ sends[job.kind] < marker[job.kind].attempts
    BY <1>7 DEF SendNotice, NoticeKept
  <2>2. marker[job.kind].attempts \in 0..MaxAttempts
    BY <2>1 DEF MarkersTyped, AnyMarker
  <2>3. sends' \in [Kinds -> 0..MaxAttempts]
    <3>1. sends[job.kind] + 1 \in 0..MaxAttempts
      BY <2>1, <2>2, LimitsAssumption DEF MarkersTyped
    <3>. QED BY <1>7, <2>1, <3>1 DEF SendNotice, MarkersTyped
  <2>4. told' \in [Kinds -> BOOLEAN]
    BY <1>7, <2>1 DEF SendNotice, MarkersTyped
  <2>. QED BY <1>7, <2>3, <2>4 DEF SendNotice, MarkersTyped
<1>8. CASE RecordOutcome
  <2>1. job.kind \in Kinds /\ marker[job.kind].state # "none"
    BY <1>8 DEF RecordOutcome, NoticeKept, Working, Names
  <2>2. marker' = marker \/ marker' = [marker EXCEPT ![job.kind].sent = TRUE]
    BY <1>8 DEF RecordOutcome
  <2>3. (\A j \in Kinds : marker'[j] \in Markers(j)) /\ marker' \in [Kinds -> AnyMarker]
    BY <2>1, <2>2, OutcomeFacts DEF MarkersTyped
  <2>. QED BY <1>8, <2>3 DEF RecordOutcome, MarkersTyped
<1>9. CASE PostAnswered \/ PostUnanswered
  BY <1>9 DEF PostAnswered, PostUnanswered, Accept, MarkersTyped
<1>10. CASE Acknowledge
  <2>1. job.kind \in Kinds
    BY <1>10 DEF Acknowledge, NoticeKept, Working
  <2>. QED BY <1>2, <1>10, <2>1, RecordFacts, MarkersMade DEF Acknowledge
<1>11. CASE Start \/ Crash \/ ExitForRestart \/ UNCHANGED vars \/ Dispatch \/ Report
            \/ (\E p \in Plugins : UpdateTinyhatPlugin(p))
            \/ \E v \in Releases, p \in Plugins : PlatformMoves(v, p)
  BY <1>11 DEF Start, Crash, ExitForRestart, vars, Dispatch, Report, UpdateTinyhatPlugin,
              PlatformMoves, MarkersTyped
<1>12. CASE Discover \/ Stage \/ Install \/ WriteMetadata \/ RequestActivation \/ FinishCommand
  BY <1>12 DEF Discover, Stage, Install, WriteMetadata, RequestActivation, FinishCommand,
               MarkersTyped
<1>. QED
  BY <1>3, <1>4, <1>5, <1>6, <1>7, <1>8, <1>9, <1>10, <1>11, <1>12
     DEF Next, Command, Installing, Notifying

(* Every conjunct of IInv that is about types holds after a step. *)
LEMMA TypeStep ==
  ASSUME IInv, [Next]_vars
  PROVE  /\ DiskTyped' /\ MarkersTyped' /\ JobTyped' /\ PlatformTyped' /\ StepTyped'
         /\ (TypeOK /\ Shapes)'
<1>1. DiskTyped /\ MarkersTyped /\ JobTyped /\ PlatformTyped /\ StepTyped
  BY TypeParts DEF IInv
<1>2. DiskTyped' /\ MarkersTyped' /\ JobTyped' /\ PlatformTyped' /\ StepTyped'
  BY <1>1, DiskStep, MarkersStep, JobStep, PlatformStep, StepStep DEF IInv
<1>. QED BY <1>2, TypeParts DEF TypeOK, Shapes, DiskTyped, MarkersTyped, JobTyped, PlatformTyped, StepTyped

-----------------------------------------------------------------------------
(* What each step leaves of its command *)

(* The orders of a command and what it found stay as they are until it ends. *)
LEMMA OrdersKept ==
  ASSUME JobTyped, [Next]_vars, Working, Working'
  PROVE  /\ job'.spec = job.spec /\ job'.available = job.available
         /\ job'.pending = job.pending /\ job'.before = job.before
         /\ ~Stage => job'.staging = job.staging
<1>. DEFINE Same == /\ job'.spec = job.spec /\ job'.available = job.available
                    /\ job'.pending = job.pending /\ job'.before = job.before
            Kept == Same /\ job'.staging = job.staging
<1>0. job' = job => Kept
  OBVIOUS
<1>19. ASSUME NEW p, PluginFails(p) PROVE Kept
  BY <1>19 DEF PluginFails, JobTyped, Jobs
<1>1. CASE Dispatch \/ Report \/ UNCHANGED vars
            \/ \E v \in Releases, p \in Plugins : PlatformMoves(v, p)
  BY <1>0, <1>1 DEF Dispatch, Report, vars, PlatformMoves, JobTyped, Jobs
<1>2. CASE Start \/ ExitForRestart \/ Crash \/ Discover
            \/ \E p \in Plugins : UpdateTinyhatPlugin(p)
  BY <1>2 DEF Start, ExitForRestart, Crash, UpdateTinyhatPlugin, Discover, Working
<1>3. CASE Stage
  BY <1>3 DEF Stage, JobTyped, Jobs
<1>4. CASE Recover
  BY <1>4 DEF Recover, JobTyped, Jobs
<1>5. CASE Install
  BY <1>0, <1>5, <1>19 DEF Install, AlreadyInstalled, ReplaceFiles, FetchFails, JobTyped, Jobs
<1>6. CASE WriteMetadata
  BY <1>0, <1>6, <1>19 DEF WriteMetadata
<1>7. CASE EndInstall
  BY <1>7, <1>19 DEF EndInstall, JobTyped, Jobs
<1>8. CASE RecordRuntimeNotice
  BY <1>0, <1>8 DEF RecordRuntimeNotice, JobTyped, Jobs
<1>9. CASE RequestActivation
  BY <1>9 DEF RequestActivation, JobTyped, Jobs
<1>10. CASE BeginNotice
  BY <1>0, <1>10 DEF BeginNotice, JobTyped, Jobs
<1>11. CASE SendNotice
  BY <1>11 DEF SendNotice, JobTyped, Jobs
<1>12. CASE RecordOutcome \/ FinishCommand
  BY <1>0, <1>12 DEF RecordOutcome, FinishCommand
<1>13. CASE PostAnswered \/ PostUnanswered \/ Acknowledge
  BY <1>0, <1>13 DEF PostAnswered, PostUnanswered, Acknowledge, EndCommand, Working
<1>. QED
  BY <1>1, <1>2, <1>3, <1>4, <1>5, <1>6, <1>7, <1>8, <1>9, <1>10, <1>11, <1>12, <1>13
     DEF Next, Command, Installing, Notifying

(* What a command tells, and whether that is settled, is decided by its notice alone. *)
LEMMA NoticeOfJobKept ==
  ASSUME JobTyped, [Next]_vars, Working, Working', ~BeginNotice
  PROVE  job'.kind = job.kind /\ (~SendNotice => job'.settled = job.settled)
<1>. DEFINE Kept == job'.kind = job.kind /\ job'.settled = job.settled
<1>0. job' = job => Kept
  OBVIOUS
<1>19. ASSUME NEW p, PluginFails(p) PROVE Kept
  BY <1>19 DEF PluginFails, JobTyped, Jobs
<1>1. CASE Dispatch \/ Report \/ UNCHANGED vars
            \/ \E v \in Releases, p \in Plugins : PlatformMoves(v, p)
  BY <1>0, <1>1 DEF Dispatch, Report, vars, PlatformMoves, JobTyped, Jobs
<1>2. CASE Start \/ ExitForRestart \/ Crash \/ Discover
            \/ \E p \in Plugins : UpdateTinyhatPlugin(p)
  BY <1>2 DEF Start, ExitForRestart, Crash, UpdateTinyhatPlugin, Discover, Working
<1>3. CASE Stage
  BY <1>3 DEF Stage, JobTyped, Jobs
<1>4. CASE Recover
  BY <1>4 DEF Recover, JobTyped, Jobs
<1>5. CASE Install
  BY <1>0, <1>5, <1>19 DEF Install, AlreadyInstalled, ReplaceFiles, FetchFails, JobTyped, Jobs
<1>6. CASE WriteMetadata
  BY <1>0, <1>6, <1>19 DEF WriteMetadata
<1>7. CASE EndInstall
  BY <1>7, <1>19 DEF EndInstall, JobTyped, Jobs
<1>8. CASE RecordRuntimeNotice
  BY <1>0, <1>8 DEF RecordRuntimeNotice, JobTyped, Jobs
<1>9. CASE RequestActivation
  BY <1>9 DEF RequestActivation, JobTyped, Jobs
<1>11. CASE SendNotice
  BY <1>11 DEF SendNotice, JobTyped, Jobs
<1>12. CASE RecordOutcome \/ FinishCommand
  BY <1>0, <1>12 DEF RecordOutcome, FinishCommand
<1>13. CASE PostAnswered \/ PostUnanswered \/ Acknowledge
  BY <1>0, <1>13 DEF PostAnswered, PostUnanswered, Acknowledge, EndCommand, Working
<1>. QED
  BY <1>1, <1>2, <1>3, <1>4, <1>5, <1>6, <1>7, <1>8, <1>9, <1>11, <1>12, <1>13
     DEF Next, Command, Installing, Notifying

(* Counting an attempt and recording an outcome leave what a marker stands for. *)
Same(k) == marker'[k].state = marker[k].state /\ marker'[k].target = marker[k].target

LEMMA MarkersKept ==
  ASSUME IInv, [Next]_vars, NEW k \in Kinds,
         ~Acknowledge,
         k = "runtime" => ~RecordRuntimeNotice,
         k = "plugin" => ~Recover /\ ~EndInstall
  PROVE  Same(k)
<1>0. /\ MarkersTyped /\ PluginOnRecord /\ NoticeKept
      /\ TargetsGrow
  BY TypeParts DEF IInv
<1>1. (marker' = marker \/ Keep) => Same(k)
  BY DEF Keep, Same
<1>2. CASE Recover \/ EndInstall
  <2>1. k # "plugin" /\ Working
    BY <1>2 DEF Recover, EndInstall, Working
  <2>2. job.spec \in Commands
    BY <1>0, <2>1 DEF TargetsGrow
  <2>3. job.spec.plug \in Plugins
    BY <2>2 DEF Commands
  <2>4. Keep \/ Record("plugin", Marker("unacknowledged", job.spec.plug))
             \/ Record("plugin", Marker("repair", job.spec.plug))
    BY <1>2 DEF Recover, EndInstall
  <2>. QED BY <1>0, <1>1, <2>1, <2>3, <2>4, RecordFacts, MarkersMade DEF Same
<1>3. CASE RecordRuntimeNotice
  <2>1. k # "runtime" /\ Working
    BY <1>3 DEF RecordRuntimeNotice, Working
  <2>2. job.spec \in Commands
    BY <1>0, <2>1 DEF TargetsGrow
  <2>3. Ref \in Releases
    BY <2>2 DEF Commands, Ref
  <2>4. Keep \/ Record("runtime", Marker("unacknowledged", Ref))
    BY <1>3 DEF RecordRuntimeNotice
  <2>. QED BY <1>0, <1>1, <2>1, <2>3, <2>4, RecordFacts, MarkersMade DEF Same
<1>4. CASE BeginNotice
  <2>1. CASE marker' = marker
    BY <1>1, <2>1
  <2>2. CASE marker' # marker
    <3>1. NoticeKind # "none" /\ Reserve(NoticeKind) /\ ~Exhausted(NoticeKind) /\ pc = "notice"
      BY <1>4, <2>2 DEF BeginNotice
    <3>2. NoticeKind \in Kinds /\ marker[NoticeKind].state # "none"
      BY <1>0, <3>1, NoticeHasMarker DEF Names
    <3>. QED BY <1>0, <3>1, <3>2, ReserveFacts DEF Same
  <2>. QED BY <2>1, <2>2
<1>5. CASE RecordOutcome
  <2>1. job.kind \in Kinds /\ marker[job.kind].state # "none"
    BY <1>0, <1>5 DEF RecordOutcome, NoticeKept, Working, Names
  <2>2. marker' = marker \/ marker' = [marker EXCEPT ![job.kind].sent = TRUE]
    BY <1>5 DEF RecordOutcome
  <2>. QED BY <1>0, <1>1, <2>1, <2>2, OutcomeFacts DEF Same
<1>6. CASE Start \/ Crash \/ ExitForRestart \/ UNCHANGED vars \/ Dispatch \/ Report
            \/ (\E p \in Plugins : UpdateTinyhatPlugin(p))
            \/ \E v \in Releases, p \in Plugins : PlatformMoves(v, p)
  BY <1>1, <1>6 DEF Start, Crash, ExitForRestart, vars, Dispatch, Report, UpdateTinyhatPlugin,
              PlatformMoves
<1>7. CASE Discover \/ Stage \/ Install \/ WriteMetadata \/ RequestActivation \/ FinishCommand
            \/ PostAnswered \/ PostUnanswered \/ SendNotice
  BY <1>1, <1>7 DEF Discover, Stage, Install, WriteMetadata, RequestActivation, FinishCommand,
               PostAnswered, PostUnanswered, SendNotice
<1>. QED
  BY <1>2, <1>3, <1>4, <1>5, <1>6, <1>7 DEF Next, Command, Installing, Notifying

-----------------------------------------------------------------------------
(* Targets grow *)

(* What a step needs of the numbers of the state before it. *)
LEMMA Facts ==
  ASSUME IInv
  PROVE  /\ DiskTyped /\ MarkersTyped /\ JobTyped /\ PlatformTyped /\ StepTyped
         /\ TargetsGrow /\ Announced /\ PluginOnRecord /\ NoticeKept /\ BoundedNotices
         /\ onDisk \in Nat /\ onDisk > 0 /\ staged \in Nat /\ activation \in Nat
         /\ targets.ref \in Nat /\ command.ref \in Nat
         /\ Run.state # "none" => Run.target \in Nat /\ Run.target > 0
         /\ Working => /\ job.spec \in Commands /\ Ref \in Nat /\ Ref > 0
                       /\ Ref \in Releases /\ job.spec.plug \in Plugins
<1>1. DiskTyped /\ MarkersTyped /\ JobTyped /\ PlatformTyped /\ StepTyped
  BY TypeParts DEF IInv
<1>2. Working => job.spec \in Commands
  BY DEF IInv, TargetsGrow
<1>3. \A v \in Releases : v \in Nat /\ v > 0
  BY TargetsAssumption
<1>. QED BY <1>1, <1>2, <1>3, Numbers DEF IInv

(* A recorded runtime notice names the command's release. *)
LEMMA RuntimeRecorded ==
  ASSUME IInv, RecordRuntimeNotice
  PROVE  \/ /\ RecordsRuntime /\ Record("runtime", Marker("unacknowledged", Ref))
            /\ marker'["runtime"].state = "unacknowledged" /\ marker'["runtime"].target = Ref
         \/ RecordsRuntime /\ Keep /\ job' = [job EXCEPT !.rerror = TRUE]
         \/ ~RecordsRuntime /\ Keep /\ job' = job
<1>1. Ref \in Releases
  BY Facts DEF RecordRuntimeNotice, Working
<1>2. CASE Record("runtime", Marker("unacknowledged", Ref)) /\ RecordsRuntime
  <2>1. marker'["runtime"] = Marker("unacknowledged", Ref)
    BY <1>1, <1>2, Facts, MarkersMade, RecordFacts
  <2>. QED BY <1>2, <2>1 DEF Marker
<1>3. CASE RecordsRuntime /\ Keep /\ job' = [job EXCEPT !.rerror = TRUE]
  BY <1>3
<1>. QED BY <1>2, <1>3 DEF RecordRuntimeNotice

LEMMA AcknowledgeRemoves ==
  ASSUME IInv, Acknowledge
  PROVE  /\ job.kind \in Kinds
         /\ \A k \in Kinds \ {job.kind} : Same(k)
         /\ \/ Keep
            \/ /\ Record(job.kind, NoMarker) /\ marker'[job.kind].state = "none"
               /\ marker[job.kind].state # "none" /\ marker[job.kind].target = Target(job.kind)
<1>1. job.kind \in Kinds
  BY Facts DEF Acknowledge, NoticeKept, Working
<1>2. CASE Keep
  BY <1>1, <1>2 DEF Keep, Same
<1>3. CASE Record(job.kind, NoMarker) /\ Names(job.kind, Target(job.kind))
  <2>1. marker'[job.kind] = NoMarker /\ \A k \in Kinds \ {job.kind} : Same(k)
    BY <1>1, <1>3, Facts, MarkersMade, RecordFacts DEF Same
  <2>. QED BY <1>1, <1>3, <2>1 DEF NoMarker, Names
<1>. QED BY <1>2, <1>3 DEF Acknowledge

LEMMA TargetsGrowStep ==
  ASSUME IInv, [Next]_vars
  PROVE  TargetsGrow'
<1>. DEFINE Above(v) == NoneAbove(v)
            Disk == onDisk' = onDisk /\ staged' = staged /\ activation' = activation
<1>1. ASSUME NEW v \in Releases, NEW p \in Plugins, PlatformMoves(v, p) PROVE TargetsGrow'
  <2>1. v \in Nat /\ targets'.ref = v /\ v >= targets.ref
    BY <1>1, TargetsAssumption DEF PlatformMoves
  <2>. QED BY <1>1, <2>1, Facts DEF PlatformMoves, TargetsGrow, NoneAbove, Run, Ref, Working
<1>2. CASE Dispatch
  <2>1. command'.ref = targets.ref
    BY <1>2 DEF Dispatch
  <2>2. job'.spec = job.spec /\ job'.available = job.available /\ job'.staging = job.staging
    BY <1>2, Facts DEF Dispatch, JobTyped, Jobs
  <2>. QED BY <1>2, <2>1, <2>2, Facts DEF Dispatch, TargetsGrow, NoneAbove, Run, Ref, Working
<1>3. CASE Start
  BY <1>3, Facts DEF Start, TargetsGrow, NoneAbove, Run, Working
<1>4. CASE ExitForRestart \/ Crash
  BY <1>4, Facts DEF ExitForRestart, Crash, TargetsGrow, NoneAbove, Run, Working
<1>5. ASSUME NEW p \in Plugins, UpdateTinyhatPlugin(p) PROVE TargetsGrow'
  BY <1>5, Facts DEF UpdateTinyhatPlugin, TargetsGrow, NoneAbove, Run, Working
<1>6. CASE Discover
  <2>1. /\ job'.spec = command /\ command \in Commands
        /\ job'.available = (command.ref > onDisk) /\ job'.staging = "none"
    BY <1>6, Facts, DiscoverTyped
  <2>2. command.ref \in Releases /\ command.ref # None
    BY <2>1, TargetsAssumption DEF Commands
  <2>3. Disk /\ marker' = marker /\ targets' = targets /\ command' = command
    BY <1>6 DEF Discover
  <2>4. Ref' = command.ref
    BY <2>1 DEF Ref
  <2>5. job'.available => Ref' > onDisk
    BY <2>1, <2>4
  <2>6. NoneAbove(command.ref) /\ NoneAbove(targets.ref) /\ command.ref <= targets.ref
        /\ (activation # None => activation > onDisk)
    BY <2>2, Facts DEF TargetsGrow
  <2>7. NoneAbove(Ref)' /\ NoneAbove(targets.ref)' /\ NoneAbove(command.ref)'
    BY <2>3, <2>4, <2>6 DEF NoneAbove, Run
  <2>. QED BY <2>1, <2>3, <2>4, <2>5, <2>6, <2>7, Facts DEF TargetsGrow
<1>7. CASE Stage
  <2>1. /\ Working /\ Working' /\ onDisk' = onDisk /\ activation' = activation
        /\ marker' = marker /\ targets' = targets /\ command' = command
    BY <1>7 DEF Stage, Working
  <2>2. job'.spec = job.spec /\ job'.available = job.available
    BY <2>1, Facts, OrdersKept
  <2>3. (staged' = staged \/ staged' = Ref) /\ (job'.staging # "none" => staged' = Ref)
    BY <1>7, Facts DEF Stage, Ref, JobTyped, Jobs
  <2>. QED BY <2>1, <2>2, <2>3, Facts DEF TargetsGrow, NoneAbove, Run, Ref
<1>8. CASE RecordRuntimeNotice
  <2>1. /\ Working /\ Working' /\ Disk /\ targets' = targets /\ command' = command
    BY <1>8 DEF RecordRuntimeNotice, Working
  <2>2. job'.spec = job.spec /\ job'.available = job.available /\ job'.staging = job.staging
    BY <1>8, <2>1, Facts, OrdersKept DEF RecordRuntimeNotice, Stage
  <2>3. marker' = marker \/ marker'["runtime"].target = Ref
    BY <1>8, RuntimeRecorded DEF Keep
  <2>. QED BY <2>1, <2>2, <2>3, Facts DEF TargetsGrow, NoneAbove, Run, Ref
<1>9. CASE RequestActivation
  <2>1. /\ Working /\ Working' /\ onDisk' = onDisk /\ staged' = staged
        /\ marker' = marker /\ targets' = targets /\ command' = command
    BY <1>9 DEF RequestActivation, Working
  <2>2. job'.spec = job.spec /\ job'.available = job.available /\ job'.staging = job.staging
    BY <1>9, <2>1, Facts, OrdersKept DEF RequestActivation, Stage
  <2>3. activation' = activation \/ (activation' = Ref /\ job.available)
    BY <1>9 DEF RequestActivation, ReadyToActivate, StagedHere
  <2>. QED BY <2>1, <2>2, <2>3, Facts DEF TargetsGrow, NoneAbove, Run, Ref
<1>10. CASE Acknowledge
  <2>1. ~Working' /\ Disk /\ targets' = targets /\ command' = command
    BY <1>10 DEF Acknowledge, EndCommand, Working
  <2>2. Same("runtime") \/ marker'["runtime"].state = "none"
    BY <1>10, AcknowledgeRemoves DEF Keep, Same
  <2>. QED BY <2>1, <2>2, Facts DEF TargetsGrow, NoneAbove, Run, Same
<1>11. CASE PostAnswered \/ PostUnanswered
  <2>1. /\ Working /\ Disk /\ marker' = marker /\ targets' = targets
        /\ command' = command \/ command' = NoCommand
        /\ ~Working' \/ job' = job
    BY <1>11 DEF PostAnswered, PostUnanswered, Accept, EndCommand, Working
  <2>. QED BY <2>1, Facts DEF TargetsGrow, NoneAbove, Run, Ref, NoCommand
<1>12. CASE Recover \/ Installing \/ Notifying \/ FinishCommand
  <2>1. /\ Working /\ Working' /\ Disk /\ targets' = targets /\ command' = command
        /\ ~Acknowledge /\ ~RecordRuntimeNotice /\ ~Stage
    BY <1>12 DEF Recover, Installing, Install, AlreadyInstalled, ReplaceFiles, FetchFails,
                 PluginFails, WriteMetadata, EndInstall, Notifying, BeginNotice,
                 SendNotice, RecordOutcome, FinishCommand, Working, Acknowledge,
                 RecordRuntimeNotice, Stage
  <2>2. job'.spec = job.spec /\ job'.available = job.available /\ job'.staging = job.staging
    BY <2>1, Facts, OrdersKept
  <2>3. Same("runtime")
    BY <2>1, MarkersKept
  <2>. QED BY <2>1, <2>2, <2>3, Facts DEF TargetsGrow, NoneAbove, Run, Ref, Same
<1>13. CASE Report \/ UNCHANGED vars
  BY <1>13, Facts DEF Report, vars, TargetsGrow, NoneAbove, Run, Ref, Working
<1>. QED
  BY <1>1, <1>2, <1>3, <1>4, <1>5, <1>6, <1>7, <1>8, <1>9, <1>10, <1>11, <1>12, <1>13
     DEF Next, Command

-----------------------------------------------------------------------------
(* What a start would activate was announced *)

(* A step that leaves the disk, the announcements and the runtime's marker alone keeps the part
   of Announced that is about them. *)
LEMMA AnnouncedKept ==
  ASSUME IInv, activation' = activation, staged' = staged, covered' = covered, Same("runtime"),
         pc' \notin {"activate", "ack"}
  PROVE  Announced'
  BY Facts DEF Announced, Names, Run, Same

LEMMA AnnouncedStep ==
  ASSUME IInv, [Next]_vars
  PROVE  Announced'
<1>. DEFINE Disk == staged' = staged /\ activation' = activation /\ covered' = covered
<1>1. CASE \/ \E v \in Releases, p \in Plugins : PlatformMoves(v, p)
           \/ Report \/ UNCHANGED vars
  BY <1>1, Facts DEF PlatformMoves, Report, vars, Announced, Names, Run, Ref, StagedHere, PluginOwns
<1>2. CASE Dispatch
  <2>1. /\ job'.spec = job.spec /\ job'.available = job.available /\ job'.staging = job.staging
        /\ job'.rerror = job.rerror /\ job'.pending = job.pending /\ job'.kind = job.kind
        /\ job'.changed = job.changed /\ job'.perror = job.perror
    BY <1>2, Facts DEF Dispatch, JobTyped, Jobs
  <2>2. Disk /\ marker' = marker /\ pc' = pc
    BY <1>2 DEF Dispatch
  <2>. QED BY <2>1, <2>2, Facts DEF Announced, Names, Run, Ref, StagedHere, PluginOwns
<1>3. CASE Start
  BY <1>3, Facts DEF Start, Announced, Names, Run
<1>4. CASE ExitForRestart \/ Crash \/ (\E p \in Plugins : UpdateTinyhatPlugin(p)) \/ Discover
  <2>1. Disk /\ Same("runtime") /\ pc' \notin {"activate", "ack"}
    BY <1>4 DEF ExitForRestart, Crash, UpdateTinyhatPlugin, Discover, Same
  <2>. QED BY <2>1, AnnouncedKept
<1>5. CASE Recover \/ Installing \/ Notifying \/ FinishCommand
  <2>1. Disk /\ pc' \notin {"activate", "ack"} /\ ~Acknowledge /\ ~RecordRuntimeNotice
    BY <1>5 DEF Recover, Installing, Install, AlreadyInstalled, ReplaceFiles, FetchFails,
                PluginFails, WriteMetadata, EndInstall, Notifying, BeginNotice,
                SendNotice, RecordOutcome, FinishCommand, Acknowledge, RecordRuntimeNotice
  <2>. QED BY <2>1, MarkersKept, AnnouncedKept
<1>6. CASE Stage
  <2>1. /\ marker' = marker /\ covered' = covered /\ activation' = activation
        /\ pc' = "recover" /\ Working
        /\ staged' = staged \/ staged' = Ref
    BY <1>6 DEF Stage, Ref, Working
  <2>2. Same("runtime")
    BY <2>1 DEF Same
  <2>3. CASE staged' = staged
    BY <2>1, <2>2, <2>3, AnnouncedKept
  <2>4. CASE staged' = Ref /\ activation # None
    <3>1. staged <= Ref /\ activation <= Ref /\ (Run.state # "none" => Run.target <= Ref)
      BY <2>1, Facts DEF TargetsGrow, NoneAbove
    <3>2. CASE activation = Ref
      BY <2>1, <2>4, <3>1, <3>2, Facts DEF Announced, Names, Run
    <3>3. CASE activation < Ref
      BY <2>1, <2>4, <3>3, Facts DEF Announced
    <3>. QED BY <2>1, <3>1, <3>2, <3>3, Facts
  <2>. QED BY <2>1, <2>3, <2>4 DEF Announced
<1>7. CASE RecordRuntimeNotice
  <2>1. Disk /\ onDisk' = onDisk /\ pc' = "activate" /\ Working /\ Working'
    BY <1>7 DEF RecordRuntimeNotice, Working
  <2>2. /\ job'.spec = job.spec /\ job'.available = job.available /\ job'.staging = job.staging
        /\ job'.pending = job.pending
    BY <1>7, <2>1, Facts, OrdersKept DEF RecordRuntimeNotice, Stage
  <2>3. job'.changed = job.changed /\ job'.perror = job.perror
    BY <1>7, Facts DEF RecordRuntimeNotice, JobTyped, Jobs
  <2>4. CASE RecordsRuntime /\ Record("runtime", Marker("unacknowledged", Ref))
             /\ marker'["runtime"].state = "unacknowledged" /\ marker'["runtime"].target = Ref
    <3>1. activation # None /\ activation # Ref => staged > activation
      <4>1. activation <= Ref /\ (job.staging # "none" => staged = Ref)
            /\ (activation # None => activation > onDisk)
        BY <2>1, Facts DEF TargetsGrow, NoneAbove
      <4>2. Current \/ StagedHere
        BY <2>4 DEF RecordsRuntime
      <4>. QED BY <2>1, <4>1, <4>2, Facts DEF Current, StagedHere
    <3>. QED BY <2>1, <2>2, <2>4, <3>1, Facts DEF Announced, Names, Run, Ref
  <2>5. CASE Keep /\ RecordsRuntime /\ job' = [job EXCEPT !.rerror = TRUE]
    <3>1. job'.rerror = TRUE
      BY <2>5, Facts DEF JobTyped, Jobs
    <3>. QED BY <2>1, <2>5, <3>1, Facts DEF Announced, Names, Run, Keep
  <2>6. CASE Keep /\ ~RecordsRuntime /\ job' = job
    <3>1. StagedHere /\ ~job.rerror /\ ~job.pending /\ ~PluginOwns => Names("runtime", Ref)
      BY <2>6 DEF RecordsRuntime
    <3>. QED BY <2>1, <2>6, <3>1, Facts DEF Announced, Names, Run, Keep, Ref, StagedHere, PluginOwns
  <2>. QED BY <1>7, <2>4, <2>5, <2>6, RuntimeRecorded
<1>8. CASE RequestActivation
  <2>1. /\ marker' = marker /\ staged' = staged /\ pc = "activate" /\ pc' = "notice"
        /\ \/ activation' = activation /\ covered' = covered
           \/ /\ ReadyToActivate /\ ~job.pending /\ activation' = Ref
              /\ covered' = (IF PluginOwns THEN Ref ELSE covered)
    BY <1>8 DEF RequestActivation
  <2>2. CASE activation' = activation /\ covered' = covered
    BY <2>1, <2>2, AnnouncedKept DEF Same
  <2>3. CASE /\ ReadyToActivate /\ ~job.pending /\ activation' = Ref
             /\ covered' = IF PluginOwns THEN Ref ELSE covered
    <3>1. Names("runtime", Ref) \/ covered' = Ref
      BY <2>1, <2>3, Facts DEF Announced, ReadyToActivate
    <3>2. Run.state # "none" => Run.target <= Ref
      BY <2>1, Facts DEF TargetsGrow, NoneAbove, Working
    <3>. QED BY <2>1, <2>3, <3>1, <3>2, Facts DEF Announced, Names, Run, Working
  <2>. QED BY <2>1, <2>2, <2>3
<1>9. CASE PostAnswered \/ PostUnanswered
  <2>1. /\ marker' = marker /\ staged' = staged /\ activation' = activation /\ pc = "post"
        /\ pc' # "activate"
        /\ \/ covered' = covered
           \/ job.kind = "runtime" /\ job.settled /\ covered' = Ref
    BY <1>9 DEF PostAnswered, PostUnanswered, Accept, EndCommand, Ref
  <2>2. pc' = "ack" /\ job'.kind = "runtime" => covered' = Ref'
    BY <1>9 DEF PostAnswered, PostUnanswered, Accept, EndCommand, Acknowledges, Ref
  <2>3. activation # None =>
          Names("runtime", activation) \/ covered' = activation \/ staged > activation
    <3>1. CASE covered' = covered
      BY <3>1, Facts DEF Announced
    <3>2. CASE job.kind = "runtime" /\ covered' = Ref /\ activation # None
      <4>1. Run.state # "none" /\ Run.target = Ref /\ activation <= Ref
        BY <2>1, <3>2, Facts DEF NoticeKept, TargetsGrow, NoneAbove, Working, Names, Run, Target, Ref
      <4>. QED BY <2>1, <3>2, <4>1, Facts DEF Announced, Working
    <3>. QED BY <2>1, <3>1, <3>2
  <2>. QED BY <2>1, <2>2, <2>3, Facts DEF Announced, Names, Run
<1>10. CASE Acknowledge
  <2>1. /\ staged' = staged /\ activation' = activation /\ covered' = covered
        /\ pc = "ack" /\ pc' = "idle"
    BY <1>10 DEF Acknowledge, EndCommand
  <2>2. CASE Same("runtime")
    BY <2>1, <2>2, AnnouncedKept
  <2>3. CASE /\ job.kind = "runtime" /\ marker'["runtime"].state = "none"
             /\ Run.state # "none" /\ Run.target = Ref
    <3>1. covered = Ref
      BY <2>1, <2>3, Facts DEF Announced
    <3>. QED BY <2>1, <2>3, <3>1, Facts DEF Announced, Names, Run
  <2>. QED BY <1>10, <2>2, <2>3, AcknowledgeRemoves DEF Keep, Same, Run, Target, Ref
<1>. QED
  BY <1>1, <1>2, <1>3, <1>4, <1>5, <1>6, <1>7, <1>8, <1>9, <1>10 DEF Next, Command

-----------------------------------------------------------------------------
(* A plugin is touched only behind its marker *)

LEMMA PluginFailed ==
  ASSUME JobTyped, NEW p, PluginFails(p)
  PROVE  ~PluginOwns' /\ pc' = "record"
<1>1. job'.perror = TRUE
  BY DEF PluginFails, JobTyped, Jobs
<1>. QED BY <1>1 DEF PluginFails, PluginOwns

LEMMA PluginOnRecordStep ==
  ASSUME IInv, [Next]_vars
  PROVE  PluginOnRecord'
<1>0. JobTyped /\ MarkersTyped /\ PluginOnRecord
      /\ (Working => job.spec \in Commands /\ job.spec.plug \in Plugins)
  BY Facts
<1>. USE DEF Repairs, Settles, Plug
<1>1. CASE \/ \E v \in Releases, p \in Plugins : PlatformMoves(v, p)
           \/ Report \/ UNCHANGED vars
  BY <1>0, <1>1 DEF PlatformMoves, Report, vars, PluginOnRecord, PluginOwns
<1>2. CASE Dispatch
  <2>1. /\ job'.spec = job.spec /\ job'.changed = job.changed /\ job'.perror = job.perror
        /\ job'.kind = job.kind
    BY <1>0, <1>2 DEF Dispatch, JobTyped, Jobs
  <2>. QED BY <1>0, <1>2, <2>1 DEF Dispatch, PluginOnRecord, PluginOwns
<1>3. CASE Start \/ ExitForRestart \/ Crash \/ (\E p \in Plugins : UpdateTinyhatPlugin(p)) \/ Discover
  <2>1. marker' = marker /\ owed' = owed /\ pc' \in {"off", "idle", "stage"}
    BY <1>3 DEF Start, ExitForRestart, Crash, UpdateTinyhatPlugin, Discover
  <2>. QED BY <1>0, <2>1 DEF PluginOnRecord
<1>4. CASE Stage
  BY <1>0, <1>4 DEF Stage, PluginOnRecord
<1>5. CASE Recover
  <2>0. Working /\ owed' = owed /\ Working' /\ pc' \in {"install", "record"}
    BY <1>5 DEF Recover, Working
  <2>1. job'.spec = job.spec
    BY <1>5, <2>0, <1>0, OrdersKept
  <2>2. CASE Promotes
    <3>1. CASE Record("plugin", Marker("unacknowledged", job.spec.plug))
      <4>1. marker'["plugin"] = Marker("unacknowledged", job.spec.plug)
        BY <1>0, <2>0, <3>1, MarkersMade, RecordFacts
      <4>. QED BY <1>5, <2>0, <2>1, <2>2, <4>1 DEF Recover, PluginOnRecord, Marker
    <3>2. CASE Keep /\ job' = [job EXCEPT !.promoted = FALSE, !.changed = FALSE, !.perror = TRUE]
      <4>1. job'.perror = TRUE
        BY <1>0, <3>2 DEF JobTyped, Jobs
      <4>. QED BY <1>0, <1>5, <2>0, <2>2, <3>2, <4>1 DEF Recover, PluginOnRecord, PluginOwns, Keep
    <3>. QED BY <1>5, <2>2, <3>1, <3>2 DEF Recover
  <2>3. CASE Keep /\ pc' = "record" /\ (Settles \/ job'.changed = FALSE \/ job'.perror = TRUE)
    BY <1>0, <2>0, <2>1, <2>3 DEF PluginOnRecord, PluginOwns, Keep
  <2>4. CASE /\ ~Promotes
             /\ (Settles /\ ~Gone) \/ job.outdated = "unknown"
                  \/ ~(job.outdated = "yes" \/ Repairs \/ OlderRepair \/ Gone)
    <3>1. Keep /\ pc' = "record"
      BY <1>5, <2>4 DEF Recover
    <3>2. job' = [job EXCEPT !.changed = Settles /\ ~Gone,
                             !.perror = job.outdated = "unknown" /\ ~(Settles /\ ~Gone)]
      BY <1>5, <2>4 DEF Recover
    <3>3. job'.changed = (Settles /\ ~Gone)
      BY <1>0, <3>2 DEF JobTyped, Jobs
    <3>. QED BY <2>3, <3>1, <3>3
  <2>5. CASE /\ ~Promotes
             /\ ~((Settles /\ ~Gone) \/ job.outdated = "unknown"
                   \/ ~(job.outdated = "yes" \/ Repairs \/ OlderRepair \/ Gone))
    <3>1. PICK ok \in BOOLEAN :
            /\ job' = [job EXCEPT !.repair = Repairs \/ OlderRepair \/ Gone, !.perror = ~ok]
            /\ pc' = IF ok THEN "install" ELSE "record"
            /\ IF NeedsRepairMarker
               THEN IF ok THEN Record("plugin", Marker("repair", job.spec.plug)) ELSE Keep
               ELSE ok /\ Keep
      BY <1>5, <2>5 DEF Recover
    <3>2. job'.perror = ~ok
      BY <1>0, <3>1 DEF JobTyped, Jobs
    <3>3. CASE ~ok
      BY <2>3, <3>1, <3>2, <3>3
    <3>4. CASE ok /\ ~NeedsRepairMarker
      BY <1>0, <2>0, <2>1, <3>1, <3>4 DEF PluginOnRecord, NeedsRepairMarker, Keep
    <3>5. CASE ok /\ NeedsRepairMarker
      <4>1. marker'["plugin"] = Marker("repair", job.spec.plug)
        BY <1>0, <2>0, <3>1, <3>5, MarkersMade, RecordFacts
      <4>. QED BY <2>0, <2>1, <3>1, <3>5, <4>1 DEF PluginOnRecord, Marker
    <3>. QED BY <3>3, <3>4, <3>5
  <2>. QED BY <2>2, <2>4, <2>5
<1>6. CASE Install
  <2>0. Working /\ Working' /\ marker' = marker /\ pc = "install" /\ pc' \in {"enable", "metadata", "record"}
    BY <1>6 DEF Install, AlreadyInstalled, ReplaceFiles, FetchFails, PluginFails, Working
  <2>1. job'.spec = job.spec
    BY <1>6, <2>0, <1>0, OrdersKept
  <2>2. pc' = "record" => ~PluginOwns'
    BY <1>0, <1>6, <2>0, PluginFailed DEF Install, AlreadyInstalled, ReplaceFiles, FetchFails
  <2>. QED BY <1>0, <2>0, <2>1, <2>2 DEF PluginOnRecord
<1>7. CASE WriteMetadata
  <2>0. /\ Working /\ Working' /\ marker' = marker /\ pc = "metadata"
        /\ pc' \in {"enable", "record"} /\ owed' = owed
    BY <1>7 DEF WriteMetadata, PluginFails, Working
  <2>1. job'.spec = job.spec
    BY <1>7, <2>0, <1>0, OrdersKept
  <2>2. pc' = "record" => ~PluginOwns'
    BY <1>0, <1>7, <2>0, PluginFailed DEF WriteMetadata
  <2>. QED BY <1>0, <2>0, <2>1, <2>2 DEF PluginOnRecord
<1>8. CASE EndInstall
  <2>0. /\ Working /\ Working' /\ pc = "enable" /\ pc' = "record" /\ owed' = owed
    BY <1>8 DEF EndInstall, PluginFails, Working
  <2>1. job'.spec = job.spec
    BY <1>8, <2>0, <1>0, OrdersKept
  <2>2. CASE Record("plugin", Marker("unacknowledged", job.spec.plug))
    <3>1. marker'["plugin"] = Marker("unacknowledged", job.spec.plug)
      BY <1>0, <2>0, <2>2, MarkersMade, RecordFacts
    <3>. QED BY <2>0, <2>1, <3>1 DEF PluginOnRecord, Marker
  <2>3. CASE Keep /\ PluginFails(plugin)
    BY <1>0, <2>0, <2>1, <2>3, PluginFailed DEF PluginOnRecord, Keep
  <2>. QED BY <1>8, <2>2, <2>3 DEF EndInstall
<1>9. CASE RecordRuntimeNotice \/ RequestActivation
  <2>0. /\ Working /\ Working' /\ pc' \in {"activate", "notice"} /\ owed' = owed
        /\ pc \in {"record", "activate"} /\ ~Acknowledge /\ ~Recover /\ ~EndInstall
    BY <1>9 DEF RecordRuntimeNotice, RequestActivation, Working, Acknowledge, Recover, EndInstall
  <2>1. job'.spec = job.spec
    BY <2>0, <1>0, OrdersKept
  <2>2. job'.changed = job.changed /\ job'.perror = job.perror
    BY <1>0, <1>9 DEF RecordRuntimeNotice, RequestActivation, JobTyped, Jobs
  <2>3. Same("plugin")
    BY <2>0, MarkersKept
  <2>. QED BY <1>0, <2>0, <2>1, <2>2, <2>3 DEF PluginOnRecord, PluginOwns, Same
<1>10. CASE Notifying \/ FinishCommand
  <2>0. /\ owed' = owed /\ pc' \in {"finish", "send", "outcome", "post"}
        /\ ~Acknowledge /\ ~Recover /\ ~EndInstall
    BY <1>10 DEF Notifying, BeginNotice, SendNotice, RecordOutcome, FinishCommand, Acknowledge,
                 Recover, EndInstall
  <2>1. Same("plugin")
    BY <2>0, MarkersKept
  <2>. QED BY <1>0, <2>0, <2>1 DEF PluginOnRecord, Same
<1>11. CASE PostAnswered \/ PostUnanswered
  <2>1. marker' = marker /\ pc' \in {"idle", "ack"}
    BY <1>11 DEF PostAnswered, PostUnanswered, EndCommand
  <2>2. owed' => owed
    BY <1>11, Zenon DEF PostAnswered, PostUnanswered, Accept
  <2>3. pc' = "ack" /\ job'.kind = "plugin" => ~owed'
    <3>1. pc' = "ack" => job' = job /\ job.live /\ job.settled /\ Accept
      BY <1>11 DEF PostAnswered, PostUnanswered, EndCommand, Acknowledges
    <3>. QED BY <3>1, Zenon DEF Accept
  <2>. QED BY <1>0, <2>1, <2>2, <2>3 DEF PluginOnRecord
<1>12. CASE Acknowledge
  <2>1. owed' = owed /\ pc' = "idle" /\ pc = "ack"
    BY <1>12 DEF Acknowledge, EndCommand
  <2>2. Same("plugin") \/ job.kind = "plugin"
    BY <1>12, AcknowledgeRemoves
  <2>. QED BY <1>0, <2>1, <2>2 DEF PluginOnRecord, Same
<1>. QED
  BY <1>1, <1>2, <1>3, <1>4, <1>5, <1>6, <1>7, <1>8, <1>9, <1>10, <1>11, <1>12
     DEF Next, Command, Installing

-----------------------------------------------------------------------------
(* What a notice may claim is in the markers *)

(* The histories of a recorded marker start afresh, those of the other kind go on. *)
LEMMA RecordedAfresh ==
  ASSUME IInv, NEW k \in Kinds, NEW m \in Markers(k), Record(k, m), m.attempts = 0, m.sent = FALSE
  PROVE  /\ \A j \in Kinds : marker'[j].state # "none" /\ marker'[j].sent => told'[j]
         /\ \A j \in Kinds : marker'[j].state # "none" => sends'[j] <= marker'[j].attempts
<1>1. /\ marker'[k] = m /\ sends'[k] = 0
      /\ \A j \in Kinds \ {k} : marker'[j] = marker[j] /\ sends'[j] = sends[j] /\ told'[j] = told[j]
  BY Facts, RecordFacts
<1>. QED BY <1>1, Facts DEF NoticeKept, BoundedNotices

(* What NoticeKept and BoundedNotices say of a marker, without the command. *)
Counted ==
  \A k \in Kinds : marker[k].state # "none" =>
    (marker[k].sent => told[k]) /\ sends[k] <= marker[k].attempts

(* The marker an action records, if any, is a new one. *)
LEMMA RecordOrKeep ==
  ASSUME IInv, NEW k \in Kinds, NEW t, NEW s \in {"unacknowledged", "repair"},
         Keep \/ Record(k, NoMarker)
         \/ (Marker(s, t) \in Markers(k) /\ Record(k, Marker(s, t)))
  PROVE  Counted'
<1>1. CASE Keep
  BY <1>1, Facts DEF Keep, Counted, NoticeKept, BoundedNotices
<1>2. CASE Record(k, NoMarker)
  BY <1>2, RecordedAfresh, MarkersMade DEF Counted, NoMarker
<1>3. CASE Marker(s, t) \in Markers(k) /\ Record(k, Marker(s, t))
  BY <1>3, RecordedAfresh DEF Counted, Marker
<1>. QED BY <1>1, <1>2, <1>3

LEMMA CountedStep ==
  ASSUME IInv, [Next]_vars
  PROVE  Counted'
<1>0. MarkersTyped /\ NoticeKept /\ BoundedNotices /\ Counted
  BY Facts DEF Counted, NoticeKept, BoundedNotices
<1>1. CASE Recover \/ EndInstall
  <2>1. job.spec.plug \in Plugins
    BY <1>1, Facts DEF Recover, EndInstall, Working
  <2>2. \/ Keep \/ Record("plugin", Marker("unacknowledged", job.spec.plug))
        \/ Record("plugin", Marker("repair", job.spec.plug))
    BY <1>1 DEF Recover, EndInstall
  <2>. QED BY <2>1, <2>2, MarkersMade, RecordOrKeep
<1>2. CASE RecordRuntimeNotice
  <2>1. Ref \in Releases
    BY <1>2, Facts DEF RecordRuntimeNotice, Working
  <2>. QED BY <1>2, <2>1, MarkersMade, RecordOrKeep, RuntimeRecorded
<1>3. CASE Acknowledge
  BY <1>3, AcknowledgeRemoves, RecordOrKeep
<1>4. CASE BeginNotice
  <2>1. told' = told /\ sends' = sends
    BY <1>4 DEF BeginNotice
  <2>2. CASE marker' = marker
    BY <1>0, <2>1, <2>2 DEF Counted
  <2>3. CASE marker' # marker
    <3>1. NoticeKind # "none" /\ Reserve(NoticeKind) /\ ~Exhausted(NoticeKind) /\ pc = "notice"
      BY <1>4, <2>3 DEF BeginNotice
    <3>2. NoticeKind \in Kinds /\ marker[NoticeKind].state # "none"
      BY <3>1, Facts, NoticeHasMarker DEF Names
    <3>3. /\ marker'[NoticeKind].attempts = marker[NoticeKind].attempts + 1
          /\ marker'[NoticeKind].sent = FALSE
          /\ \A j \in Kinds \ {NoticeKind} : marker'[j] = marker[j]
      BY <1>0, <3>1, <3>2, ReserveFacts
    <3>4. sends[NoticeKind] \in Int /\ marker[NoticeKind].attempts \in Int
      BY <1>0, <3>2 DEF MarkersTyped, AnyMarker
    <3>. QED BY <1>0, <2>1, <3>2, <3>3, <3>4 DEF Counted
  <2>. QED BY <2>2, <2>3
<1>5. CASE SendNotice
  <2>1. job.kind \in Kinds /\ sends[job.kind] < marker[job.kind].attempts /\ marker' = marker
    BY <1>0, <1>5 DEF SendNotice, NoticeKept
  <2>2. sends[job.kind] \in Int /\ marker[job.kind].attempts \in Int
    BY <1>0, <2>1 DEF MarkersTyped, AnyMarker
  <2>3. /\ sends'[job.kind] = sends[job.kind] + 1
        /\ \A j \in Kinds \ {job.kind} : sends'[j] = sends[j] /\ told'[j] = told[j]
    BY <1>0, <1>5, <2>1 DEF SendNotice, MarkersTyped
  <2>4. told[job.kind] => told'[job.kind]
    <3>1. PICK c \in BOOLEAN : told' = [told EXCEPT ![job.kind] = @ \/ c]
      BY <1>5 DEF SendNotice
    <3>2. told'[job.kind] = (told[job.kind] \/ c)
      BY <1>0, <2>1, <3>1 DEF MarkersTyped
    <3>. QED BY <3>2
  <2>. QED BY <1>0, <2>1, <2>2, <2>3, <2>4 DEF Counted
<1>6. CASE RecordOutcome
  <2>1. job.kind \in Kinds /\ marker[job.kind].state # "none" /\ told[job.kind]
    BY <1>0, <1>6 DEF RecordOutcome, NoticeKept, Working, Names
  <2>2. told' = told /\ sends' = sends
        /\ (marker' = marker \/ marker' = [marker EXCEPT ![job.kind].sent = TRUE])
    BY <1>6 DEF RecordOutcome
  <2>3. CASE marker' = marker
    BY <1>0, <2>2, <2>3 DEF Counted
  <2>4. CASE marker' = [marker EXCEPT ![job.kind].sent = TRUE]
    <3>1. /\ marker'[job.kind].attempts = marker[job.kind].attempts
          /\ \A j \in Kinds \ {job.kind} : marker'[j] = marker[j]
      BY <1>0, <2>1, <2>4, OutcomeFacts
    <3>. QED BY <1>0, <2>1, <2>2, <3>1 DEF Counted
  <2>. QED BY <2>2, <2>3, <2>4
<1>7. CASE \/ Start \/ Crash \/ ExitForRestart \/ UNCHANGED vars \/ Dispatch \/ Report
           \/ \E p \in Plugins : UpdateTinyhatPlugin(p)
           \/ \E v \in Releases, p \in Plugins : PlatformMoves(v, p)
  BY <1>0, <1>7 DEF Start, Crash, ExitForRestart, vars, Dispatch, Report, UpdateTinyhatPlugin,
              PlatformMoves, Counted
<1>8. CASE Discover \/ Stage \/ Install \/ WriteMetadata \/ RequestActivation \/ FinishCommand
           \/ PostAnswered \/ PostUnanswered
  BY <1>0, <1>8 DEF Discover, Stage, Install, WriteMetadata, RequestActivation, FinishCommand,
               PostAnswered, PostUnanswered, Counted
<1>. QED
  BY <1>1, <1>2, <1>3, <1>4, <1>5, <1>6, <1>7, <1>8 DEF Next, Command, Installing, Notifying

(* The part of NoticeKept that is about the command under way. *)
JobKept ==
  /\ pc \in Deciding => job.kind = "none" /\ ~job.settled
  /\ Working /\ job.kind # "none" => Names(job.kind, Target(job.kind))
  /\ Working /\ job.settled =>
       job.kind \in Kinds /\ (told[job.kind] \/ marker[job.kind].attempts = MaxAttempts)
  /\ pc = "send" => job.kind \in Kinds /\ sends[job.kind] < marker[job.kind].attempts
  /\ pc = "outcome" => job.kind \in Kinds /\ told[job.kind]
  /\ pc = "ack" => job.settled /\ accepted[job.kind] = Target(job.kind)

(* The second half of a begun notice: exhausted, or told before. *)
LEMMA BegunSettled ==
  ASSUME IInv, NEW k \in Kinds, marker[k].state # "none", marker[k].sent \/ Exhausted(k)
  PROVE  told[k] \/ marker[k].attempts = MaxAttempts
<1>1. marker[k].attempts \in 0..MaxAttempts
  BY Facts DEF MarkersTyped, AnyMarker
<1>2. CASE Exhausted(k)
  BY <1>1, <1>2, LimitsAssumption DEF Exhausted
<1>3. CASE marker[k].sent
  BY <1>3, Facts DEF NoticeKept
<1>. QED BY <1>2, <1>3

LEMMA JobKeptStep ==
  ASSUME IInv, [Next]_vars
  PROVE  JobKept'
<1>0. JobTyped /\ MarkersTyped /\ JobKept
      /\ (Working => job.spec \in Commands /\ job.spec.plug \in Plugins)
  BY Facts DEF NoticeKept, JobKept
<1>1. CASE \/ \E v \in Releases, p \in Plugins : PlatformMoves(v, p)
           \/ Report \/ UNCHANGED vars
  BY <1>0, <1>1 DEF PlatformMoves, Report, vars, JobKept, Working, Names, Target
<1>2. CASE Dispatch
  <2>1. job'.spec = job.spec /\ job'.settled = job.settled /\ job'.kind = job.kind
    BY <1>0, <1>2 DEF Dispatch, JobTyped, Jobs
  <2>. QED BY <1>0, <1>2, <2>1 DEF Dispatch, JobKept, Working, Names, Target
<1>3. CASE \/ Start \/ ExitForRestart \/ Crash \/ (\E p \in Plugins : UpdateTinyhatPlugin(p))
           \/ PostUnanswered \/ Acknowledge
  <2>1. pc' \in {"off", "idle"}
    BY <1>3 DEF Start, ExitForRestart, Crash, UpdateTinyhatPlugin, PostUnanswered, Acknowledge, EndCommand
  <2>. QED BY <2>1 DEF JobKept, Working, Deciding
<1>4. CASE Discover
  <2>1. pc' = "stage" /\ job'.kind = "none" /\ job'.settled = FALSE
    BY <1>4, Facts, DiscoverTyped DEF Discover
  <2>. QED BY <2>1 DEF JobKept
<1>5. CASE Stage \/ Recover \/ Installing \/ RecordRuntimeNotice \/ RequestActivation
  <2>1. /\ pc \in Deciding /\ pc' \in Deciding /\ Working /\ Working'
        /\ ~BeginNotice /\ ~SendNotice
    BY <1>5 DEF Stage, Recover, Installing, Install, AlreadyInstalled, ReplaceFiles, FetchFails,
                PluginFails, WriteMetadata, EndInstall, RecordRuntimeNotice, RequestActivation,
                Deciding, Working, BeginNotice, SendNotice
  <2>2. job'.kind = "none" /\ ~job'.settled
    BY <1>0, <2>1, NoticeOfJobKept DEF JobKept
  <2>. QED BY <2>1, <2>2 DEF JobKept, Deciding
<1>6. CASE BeginNotice
  <2>1. /\ Working /\ Working' /\ pc = "notice" /\ pc' \in {"finish", "send"} /\ told' = told
        /\ sends' = sends
    BY <1>6 DEF BeginNotice, Working
  <2>2. job'.spec = job.spec /\ job.kind = "none" /\ ~job.settled
    BY <1>0, <1>6, <2>1, OrdersKept DEF JobKept, Deciding
  <2>3. CASE NoticeKind = "none"
    BY <1>6, <2>1, <2>2, <2>3 DEF BeginNotice, JobKept, Deciding
  <2>4. CASE NoticeKind # "none"
    <3>. DEFINE k == NoticeKind
    <3>1. k \in Kinds /\ Names(k, Target(k)) /\ marker[k].state # "none"
      BY <1>6, <2>4, Facts, NoticeHasMarker DEF BeginNotice, Names
    <3>2. job'.kind = k
      BY <1>0, <1>6, <2>4 DEF BeginNotice, JobTyped, Jobs
    <3>3. Same(k)
      BY <1>6, <3>1, MarkersKept DEF BeginNotice, Acknowledge, RecordRuntimeNotice, Recover, EndInstall
    <3>4. Names(job.kind, Target(job.kind))'
      BY <2>2, <3>1, <3>2, <3>3 DEF Names, Target, Same
    <3>5. CASE marker' = marker /\ pc' = "finish" /\ (marker[k].sent \/ Exhausted(k))
      BY <2>1, <3>1, <3>2, <3>4, <3>5, BegunSettled DEF JobKept, Deciding
    <3>6. CASE job' = [job EXCEPT !.kind = k]
      <4>1. ~job'.settled
        BY <1>0, <2>2, <3>6 DEF JobTyped, Jobs
      <4>2. pc' = "send" => sends'[k] < marker'[k].attempts
        <5>1. SUFFICES ASSUME pc' = "send" PROVE sends'[k] < marker'[k].attempts
          OBVIOUS
        <5>2. Reserve(k) /\ ~Exhausted(k)
          BY <1>6, <2>4, <5>1 DEF BeginNotice
        <5>3. marker'[k].attempts = marker[k].attempts + 1
          BY <1>0, <3>1, <5>2, ReserveFacts
        <5>4. sends[k] <= marker[k].attempts /\ sends[k] \in Int /\ marker[k].attempts \in Int
          BY <1>0, <3>1, Facts DEF BoundedNotices, MarkersTyped, AnyMarker
        <5>. QED BY <2>1, <5>3, <5>4
      <4>. QED BY <2>1, <3>1, <3>2, <3>4, <4>1, <4>2 DEF JobKept, Deciding
    <3>. QED BY <1>6, <2>4, <3>5, <3>6 DEF BeginNotice
  <2>. QED BY <2>3, <2>4
<1>7. CASE SendNotice
  <2>1. /\ Working /\ Working' /\ marker' = marker /\ ~BeginNotice /\ pc = "send"
    BY <1>7 DEF SendNotice, Working, BeginNotice
  <2>2. job'.spec = job.spec /\ job'.kind = job.kind /\ job.kind \in Kinds
    BY <1>0, <2>1, OrdersKept, NoticeOfJobKept DEF JobKept
  <2>3. PICK c \in BOOLEAN :
          /\ told' = [told EXCEPT ![job.kind] = @ \/ c]
          /\ job' = [job EXCEPT !.settled = c \/ Exhausted(job.kind)]
          /\ pc' = IF c THEN "outcome" ELSE "finish"
    BY <1>7 DEF SendNotice
  <2>4. (c => told'[job.kind]) /\ (job'.settled => c \/ Exhausted(job.kind))
    <3>1. told'[job.kind] = (told[job.kind] \/ c)
      BY <1>0, <2>2, <2>3 DEF MarkersTyped
    <3>2. job'.settled = (c \/ Exhausted(job.kind))
      BY <1>0, <2>3 DEF JobTyped, Jobs
    <3>. QED BY <3>1, <3>2
  <2>5. Exhausted(job.kind) => marker[job.kind].attempts = MaxAttempts
    <3>1. marker[job.kind].attempts \in 0..MaxAttempts
      BY <1>0, <2>2 DEF MarkersTyped, AnyMarker
    <3>. QED BY <3>1, LimitsAssumption DEF Exhausted
  <2>6. Names(job.kind, Target(job.kind))'
    BY <1>0, <2>1, <2>2 DEF JobKept, Names, Target
  <2>. QED BY <2>1, <2>2, <2>3, <2>4, <2>5, <2>6 DEF JobKept, Deciding
<1>8. CASE RecordOutcome \/ FinishCommand
  <2>1. /\ Working /\ Working' /\ told' = told /\ job' = job /\ pc' \in {"finish", "post"}
        /\ ~Acknowledge /\ ~RecordRuntimeNotice /\ ~Recover /\ ~EndInstall
    BY <1>8 DEF RecordOutcome, FinishCommand, Working, Acknowledge, RecordRuntimeNotice, Recover,
                EndInstall
  <2>2. \A k \in Kinds : Same(k)
    BY <2>1, MarkersKept
  <2>3. \A k \in Kinds : marker[k].state # "none" => marker'[k].attempts = marker[k].attempts
    <3>1. CASE marker' = marker
      BY <3>1
    <3>2. CASE RecordOutcome /\ marker' = [marker EXCEPT ![job.kind].sent = TRUE]
      <4>1. job.kind \in Kinds /\ marker[job.kind].state # "none"
        BY <1>0, <3>2 DEF RecordOutcome, JobKept, Working, Names
      <4>. QED BY <1>0, <3>2, <4>1, OutcomeFacts
    <3>. QED BY <1>8, <3>1, <3>2 DEF RecordOutcome, FinishCommand
  <2>4. job.kind # "none" => job.kind \in Kinds
    BY <1>0 DEF JobTyped, Jobs
  <2>5. job.kind # "none" => Names(job.kind, Target(job.kind))'
    BY <1>0, <2>1, <2>2, <2>4 DEF JobKept, Names, Target, Same
  <2>. QED BY <1>0, <2>1, <2>3, <2>4, <2>5 DEF JobKept, Deciding, Names
<1>9. CASE PostAnswered
  <2>1. CASE pc' = "idle"
    BY <2>1 DEF JobKept, Working, Deciding
  <2>2. CASE Acknowledges /\ pc' = "ack" /\ job' = job
    <3>1. /\ marker' = marker /\ told' = told /\ Working /\ job.settled
          /\ accepted' = [k \in Kinds |-> IF k = job.kind /\ job.settled THEN Target(k)
                                          ELSE accepted[k]]
      BY <1>9, <2>2 DEF PostAnswered, Accept, Acknowledges, Working
    <3>2. job.kind \in Kinds
      BY <1>0, <3>1 DEF JobKept
    <3>3. accepted'[job.kind] = Target(job.kind)
      BY <3>1, <3>2
    <3>4. Target(job.kind)' = Target(job.kind)
          /\ (Names(job.kind, Target(job.kind)))' = Names(job.kind, Target(job.kind))
      BY <2>2, <3>1 DEF Target, Names
    <3>. QED BY <1>0, <2>2, <3>1, <3>2, <3>3, <3>4 DEF JobKept, Deciding
  <2>. QED BY <1>9, <2>1, <2>2 DEF PostAnswered, EndCommand
<1>. QED
  BY <1>1, <1>2, <1>3, <1>4, <1>5, <1>6, <1>7, <1>8, <1>9 DEF Next, Command, Notifying

-----------------------------------------------------------------------------
(* Theorems *)

LEMMA InvarianceInit == Init => IInv
<1>. SUFFICES ASSUME Init PROVE IInv
  OBVIOUS
<1>1. TypeOK /\ Shapes
  BY TypeInit
<1>2. /\ staged = 0 /\ activation = 0 /\ pc = "idle" /\ owed = FALSE
      /\ marker = [k \in Kinds |-> NoMarker] /\ sends = [k \in Kinds |-> 0]
      /\ command.ref = 0
  BY DEF Init, NoCommand
<1>3. \A k \in Kinds : marker[k].state = "none" /\ marker[k].sent = FALSE /\ sends[k] = 0
  BY <1>2 DEF NoMarker
<1>4. targets.ref \in Nat
  BY <1>1, TypeParts, Numbers
<1>5. TargetsGrow
  BY <1>2, <1>3, <1>4 DEF TargetsGrow, NoneAbove, Run, Working
<1>6. Announced /\ PluginOnRecord
  BY <1>2, <1>3 DEF Announced, PluginOnRecord
<1>7. NoticeKept /\ BoundedNotices
  BY <1>2, <1>3, LimitsAssumption DEF NoticeKept, BoundedNotices, Working, Deciding
<1>. QED BY <1>1, <1>5, <1>6, <1>7 DEF IInv

LEMMA InvarianceStep ==
  ASSUME IInv, [Next]_vars
  PROVE  IInv'
<1>1. (TypeOK /\ Shapes)' /\ MarkersTyped'
  BY TypeStep
<1>2. TargetsGrow' /\ Announced' /\ PluginOnRecord'
  BY TargetsGrowStep, AnnouncedStep, PluginOnRecordStep
<1>3. Counted' /\ JobKept'
  BY CountedStep, JobKeptStep
<1>4. NoticeKept'
  BY <1>3 DEF Counted, JobKept, NoticeKept
<1>5. \A k \in Kinds : sends'[k] <= MaxAttempts
  BY <1>1, LimitsAssumption DEF MarkersTyped
<1>6. BoundedNotices'
  BY <1>3, <1>5 DEF Counted, BoundedNotices
<1>. QED BY <1>1, <1>2, <1>4, <1>6 DEF IInv

(* The inductive invariant holds in every reachable state. *)
THEOREM Invariance == Spec => []IInv
<1>1. Init => IInv
  BY InvarianceInit
<1>2. IInv /\ [Next]_vars => IInv'
  BY InvarianceStep
<1>. QED BY <1>1, <1>2, PTL DEF Spec

(* Every variable keeps its type: the markers name targets of their own kind, attempts stay within
   MaxAttempts, a command has targets or is none. *)
THEOREM TypeCorrect == Spec => []TypeOK
<1>1. IInv => TypeOK
  BY DEF IInv
<1>. QED BY <1>1, Invariance, PTL

(* The owner hears of one update at most MaxAttempts times (plugin_settlement.py and
   runtime_notice_settlement.py count an attempt in the marker before it goes out). *)
THEOREM NoticesBounded == Spec => []BoundedNotices
<1>1. IInv => BoundedNotices
  BY DEF IInv
<1>. QED BY <1>1, Invariance, PTL

(* A changed plugin, and a release that the next start would activate, are on record in a marker
   until the platform has accepted a settled notice. *)
THEOREM Remembered == Spec => []UpdateRemembered
<1>1. IInv => UpdateRemembered
  <2>. SUFFICES ASSUME IInv PROVE UpdateRemembered
    OBVIOUS
  <2>1. owed => Plug.state # "none"
    BY DEF IInv, PluginOnRecord
  <2>2. activation # None /\ activation = staged => Names("runtime", staged) \/ covered = staged
    BY Facts DEF Announced
  <2>. QED BY <2>1, <2>2 DEF UpdateRemembered
<1>. QED BY <1>1, Invariance, PTL

(* A marker is removed only when the platform accepted its own target, told or exhausted. *)
SettlementStep ==
  \A k \in Kinds :
    marker[k].state # "none" /\ marker'[k].state = "none" =>
      /\ accepted[k] = marker[k].target
      /\ told[k] \/ marker[k].attempts = MaxAttempts

(* Recording a marker removes none. *)
LEMMA RecordsSome ==
  ASSUME IInv, NEW j \in Kinds, NEW m \in Markers(j), Record(j, m), m.state # "none",
         NEW k \in Kinds, marker'[k].state = "none"
  PROVE  Same(k)
<1>1. marker'[j] = m /\ \A i \in Kinds \ {j} : marker'[i] = marker[i]
  BY Facts, RecordFacts
<1>. QED BY <1>1 DEF Same

LEMMA SettlementOfStep ==
  ASSUME IInv, [Next]_vars
  PROVE  SettlementStep
<1>. SUFFICES ASSUME NEW k \in Kinds, marker[k].state # "none", marker'[k].state = "none"
              PROVE  accepted[k] = marker[k].target
                     /\ (told[k] \/ marker[k].attempts = MaxAttempts)
  BY DEF SettlementStep
<1>1. ~Same(k)
  BY DEF Same
<1>2. CASE Recover \/ EndInstall
  <2>1. job.spec.plug \in Plugins
    BY <1>2, Facts DEF Recover, EndInstall, Working
  <2>2. \/ Keep \/ Record("plugin", Marker("unacknowledged", job.spec.plug))
        \/ Record("plugin", Marker("repair", job.spec.plug))
    BY <1>2 DEF Recover, EndInstall
  <2>. QED BY <1>1, <2>1, <2>2, RecordsSome, MarkersMade DEF Keep, Same, Marker
<1>3. CASE RecordRuntimeNotice
  <2>1. Ref \in Releases
    BY <1>3, Facts DEF RecordRuntimeNotice, Working
  <2>2. Keep \/ Record("runtime", Marker("unacknowledged", Ref))
    BY <1>3, RuntimeRecorded
  <2>. QED BY <1>1, <2>1, <2>2, RecordsSome, MarkersMade DEF Keep, Same, Marker
<1>4. CASE Acknowledge
  <2>1. k = job.kind /\ marker[k].target = Target(k)
    BY <1>1, <1>4, AcknowledgeRemoves DEF Keep, Same
  <2>2. pc = "ack" /\ Working
    BY <1>4 DEF Acknowledge, Working
  <2>. QED BY <2>1, <2>2, Facts DEF NoticeKept
<1>. QED BY <1>1, <1>2, <1>3, <1>4, MarkersKept

(* Both markers are kept until the platform accepted what they stand for
   (acknowledge_check_and_stage_result in update_orchestrator.py). *)
THEOREM Settlement == Spec => SettlementAccepted
<1>1. IInv /\ [Next]_vars => [SettlementStep]_vars
  BY SettlementOfStep
<1>. QED BY <1>1, Invariance, PTL DEF Spec, SettlementAccepted, SettlementStep
=============================================================================
