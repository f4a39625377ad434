-------------------------- MODULE GatewayHeal_proofs --------------------------
(***************************************************************************)
(* Proofs about GatewayHeal, for any number of generations, heals and      *)
(* faults.                                                                 *)
(*                                                                         *)
(* IInv has five parts: each path of the heal is taken by the owner it is  *)
(* for (Ways); one life is over before the next, and the record of the     *)
(* gateway speaks of generations that connected (Truthful); the handle is  *)
(* bound to the old process or to one that is none of the gateway's        *)
(* (Bound); whatever admits a stop has a start before it, a newer          *)
(* generation in hand, or no time left (Pairing); and what is probed and   *)
(* confirmed is younger than what the command found (Younger).             *)
(***************************************************************************)
EXTENDS GatewayHeal, TLAPS

-----------------------------------------------------------------------------
(* The inductive invariant *)

(* Each step is on the path of its owner. *)
Ways ==
  /\ pc \in {"discover", "official", "settle", "rediscover", "kill", "raced", "pair"} => owner = "unit"
  /\ pc \in {"read", "admit", "reconcile"} \union StopSteps \union StartSteps => owner # "unit"

(* Only the latest generation runs.  The record names one that was alive, and a row that was written
   by one that connected no later. *)
Truthful ==
  /\ alive \subseteq {gen}
  /\ file.row <= file.gen
  /\ file.row # None => file.row \in served

(* Nothing was signalled before the handle was bound, and then only what it is bound to. *)
Bound ==
  /\ pc \in {"discover", "read"} => hit = {}
  /\ pc \in {"recheck", "term", "termwait", "recheck9", "kill9"} =>
       handle = before \/ (handle = Stranger /\ before \notin alive)
  /\ pc \in {"term", "termwait", "recheck9", "kill9"} => handle = before

(* A stop or a kill was admitted only on the way to a start, which asks first for the status only
   when the command has failed. *)
Pairing ==
  /\ pc \in {"discover", "official", "settle", "rediscover", "read", "admit"} => ~admitted
  /\ pc = "paired" /\ admitted => failed \/ before \notin alive
  /\ pc = "precheck" /\ admitted => failed
  /\ pc = "foreground" => restarted \/ owner = "nobody"
  /\ pc \in {"verify", "probe", "confirm"} /\ admitted =>
       restarted \/ Changed(after) \/ (owner # "unit" /\ ~TimeLeft)

(* The generations that the heal compares; one that connected before the command began runs no
   longer, or it is the one that was found. *)
Younger ==
  /\ owner # "unit" /\ pc \notin {"idle", "done"} => before <= file.gen
  /\ pc \notin {"idle", "done", "discover", "read"} =>
       \A g \in alive \intersect served : g \in recent \/ g = before
  /\ pc \in {"probe", "confirm"} => after > before
  /\ pc = "confirm" => IF owner = "unit" THEN \E g \in recent : g <= after ELSE after \in served

IInv == TypeOK /\ Ways /\ Truthful /\ Bound /\ SignalsOnlyOld /\ Pairing /\ Younger /\ ReadyIsProven

-----------------------------------------------------------------------------
(* Types *)

USE DEF world, locals, ghosts, others, None, Stranger, Fine, Fault, GoTo

OwnerTyped == owner \in Owners
WorldTyped ==
  /\ gen \in 0..MaxGenerations
  /\ alive \subseteq Generations /\ hung \subseteq Generations /\ asked \subseteq Generations
  /\ served \subseteq 1..gen /\ recent \subseteq served /\ alive \subseteq 1..gen
  /\ job \in BOOLEAN /\ (job => owner = "unit")
  /\ file \in [gen : 0..gen, row : 0..gen]
StepTyped ==
  /\ pc \in Steps /\ clock \in {"ample", "tight", "over"}
  /\ verdict \in {"none", "verified", "unverified", "cancelled"}
  /\ bringup \in {"due", "precheck", "start", "foreground", "told", "over"}
FlagTyped ==
  /\ failed \in BOOLEAN /\ cancelled \in BOOLEAN /\ known \in BOOLEAN
  /\ admitted \in BOOLEAN /\ restarted \in BOOLEAN
ChoiceTyped ==
  /\ before \in 0..gen /\ after \in 0..gen
  /\ handle \in 0..gen \union {Stranger} /\ hit \subseteq 0..gen \union {Stranger}
ReportTyped == reported \in State

LEMMA TypeParts ==
  TypeOK <=> /\ OwnerTyped /\ WorldTyped /\ StepTyped /\ FlagTyped /\ ChoiceTyped /\ ReportTyped
             /\ (pc \in StopSteps => owner # "unit")
  BY DEF TypeOK, OwnerTyped, WorldTyped, StepTyped, FlagTyped, ChoiceTyped, ReportTyped

LEMMA TypeInit == Init => TypeOK
<1>. SUFFICES ASSUME Init PROVE TypeOK
  OBVIOUS
<1>1. WorldTyped /\ OwnerTyped
  <2>1. /\ owner \in Owners /\ gen = 1 /\ job = FALSE /\ asked = {}
        /\ alive \subseteq {1} /\ hung \subseteq {1} /\ served \subseteq {1}
        /\ recent = {}
        /\ file \in [gen : {0, 1}, row : {0, 1}]
    BY DEF Init
  <2>2. 1..gen = {1} /\ 0..gen = {0, 1} /\ {1} \subseteq 1..MaxGenerations /\ 1 \in 0..MaxGenerations
    BY <2>1, LimitsAssumption
  <2>. QED BY <2>1, <2>2 DEF WorldTyped, OwnerTyped, Generations
<1>2. StepTyped /\ FlagTyped /\ pc \notin StopSteps
  BY DEF Init, StepTyped, FlagTyped, Steps, StopSteps
<1>3. ChoiceTyped /\ ReportTyped
  BY LimitsAssumption DEF Init, ChoiceTyped, ReportTyped, State
<1>. QED BY <1>1, <1>2, <1>3, TypeParts

(* The generations grow older and never come back: what is alive after a step was alive before it, or
   is the next generation; what has connected, and the latest record, stay.  Whoever connects does so
   since the latest heal began. *)
Ages ==
  /\ gen \in Nat /\ gen' \in Nat /\ gen <= gen'
  /\ \/ alive' \subseteq alive /\ gen' = gen
     \/ gen' = gen + 1 /\ alive' = {gen + 1} /\ served' = served
  /\ served \subseteq served' /\ file.gen <= file'.gen
  /\ recent \subseteq recent' \/ pc \in {"idle", "done"}
  /\ served' \ served \subseteq recent'

LEMMA BootAges ==
  ASSUME WorldTyped, Boot, gen < MaxGenerations, job' => owner' = "unit", job' \in BOOLEAN
  PROVE  WorldTyped' /\ Ages
<1>1. /\ gen' = gen + 1 /\ alive' = {gen + 1} /\ UNCHANGED <<hung, asked, file, served, recent>>
      /\ gen \in Nat
  BY LimitsAssumption DEF Boot, WorldTyped
<1>2. gen' \in 1..MaxGenerations /\ 1..gen \subseteq 1..gen' /\ 0..gen \subseteq 0..gen'
  BY <1>1, LimitsAssumption DEF WorldTyped
<1>3. file' \in [gen : 0..gen', row : 0..gen']
  BY <1>1, <1>2 DEF WorldTyped
<1>4. file.gen <= file'.gen
  BY <1>1 DEF WorldTyped
<1>. QED BY <1>1, <1>2, <1>3, <1>4, LimitsAssumption DEF WorldTyped, Ages, Generations

(* Nothing of the world is younger than before. *)
LEMMA SameAges ==
  ASSUME WorldTyped, UNCHANGED <<gen, served, recent, owner>>, alive' \subseteq alive, hung' \subseteq Generations,
         asked' \subseteq Generations, job' \in BOOLEAN, job' => owner' = "unit",
         file' \in [gen : 0..gen, row : 0..gen], file.gen <= file'.gen
  PROVE  WorldTyped' /\ Ages
  BY LimitsAssumption DEF WorldTyped, Ages

LEMMA StillAges ==
  ASSUME WorldTyped, UNCHANGED <<world, owner>>
  PROVE  WorldTyped' /\ Ages
<1>1. file.gen \in Nat
  BY DEF WorldTyped
<1>. QED BY <1>1, LimitsAssumption DEF WorldTyped, Ages

LEMMA NewLifeAges ==
  ASSUME WorldTyped, NewLife \/ CliStart \/ UNCHANGED world, UNCHANGED owner
  PROVE  WorldTyped' /\ Ages
<1>1. CASE UNCHANGED world
  BY <1>1, StillAges
<1>2. CASE NewLife /\ ~UNCHANGED world
  <2>1. Boot /\ UNCHANGED job /\ gen < MaxGenerations
    BY <1>2 DEF NewLife
  <2>. QED BY <2>1, BootAges DEF WorldTyped
<1>3. CASE CliStart /\ ~NewLife /\ ~UNCHANGED world
  <2>1. owner = "unit" /\ job' = TRUE /\ UNCHANGED <<gen, alive, hung, asked, file, served, recent>>
    BY <1>3 DEF CliStart
  <2>2. file.gen \in Nat
    BY DEF WorldTyped
  <2>. QED BY <2>1, <2>2, SameAges DEF WorldTyped
<1>. QED BY <1>1, <1>2, <1>3

LEMMA WorldStep ==
  ASSUME OwnerTyped, WorldTyped, ChoiceTyped, Ways, [Next]_vars
  PROVE  UNCHANGED owner /\ WorldTyped' /\ Ages
<1>0. UNCHANGED <<world, owner>> => UNCHANGED owner /\ WorldTyped' /\ Ages
  BY StillAges
<1>a. file.gen \in Nat /\ file.row \in Nat /\ gen \in Nat /\ job \in BOOLEAN
  BY LimitsAssumption DEF WorldTyped
<1>1. ASSUME NEW g \in Generations, WriteRecord(g) \/ Connect(g) PROVE UNCHANGED owner /\ WorldTyped' /\ Ages
  <2>1. g \in 1..gen /\ UNCHANGED <<owner, gen, alive, hung, asked, job>>
    BY <1>1 DEF WriteRecord, Connect, Serves, WorldTyped
  <2>2. CASE WriteRecord(g)
    <3>1. file' = [file EXCEPT !.gen = g] /\ file.gen < g /\ UNCHANGED <<served, recent>>
      BY <2>2 DEF WriteRecord
    <3>2. file' \in [gen : 0..gen, row : 0..gen] /\ file.gen <= file'.gen
      BY <1>a, <2>1, <3>1 DEF WorldTyped
    <3>. QED BY <2>1, <3>1, <3>2, SameAges DEF WorldTyped
  <2>3. CASE Connect(g)
    <3>1. /\ file' = [file EXCEPT !.row = g]
          /\ served' = served \union {g} /\ recent' = recent \union {g}
      BY <2>3 DEF Connect
    <3>2. file' \in [gen : 0..gen, row : 0..gen] /\ file'.gen = file.gen
      BY <1>a, <2>1, <3>1 DEF WorldTyped
    <3>3. served' \subseteq 1..gen /\ recent' \subseteq served'
      BY <2>1, <3>1 DEF WorldTyped
    <3>. QED BY <1>a, <2>1, <3>1, <3>2, <3>3, LimitsAssumption DEF WorldTyped, Ages
  <2>. QED BY <1>1, <2>2, <2>3
<1>2. ASSUME NEW g \in Generations, Leave(g) \/ Perish(g) PROVE UNCHANGED owner /\ WorldTyped' /\ Ages
  <2>0. /\ UNCHANGED <<owner, gen, hung, asked, served, recent>> /\ alive' = alive \ {g}
        /\ job' = job \/ job' = (job \/ owner = "unit")
    BY <1>2 DEF Leave, Perish
  <2>1. job' \in BOOLEAN /\ (job' => owner = "unit")
    <3>1. CASE owner = "unit"
      <4>1. job' = job \/ job' = TRUE
        BY <2>0, <3>1, Zenon
      <4>. QED BY <1>a, <2>0, <3>1, <4>1
    <3>2. CASE owner # "unit"
      <4>1. job' = job
        BY <1>a, <2>0, <3>2
      <4>. QED BY <1>a, <2>0, <4>1 DEF WorldTyped
    <3>. QED BY <3>1, <3>2
  <2>2. file' = file \/ file' = [file EXCEPT !.row = None]
    BY <1>2 DEF Leave, Perish
  <2>3. file' \in [gen : 0..gen, row : 0..gen] /\ file'.gen = file.gen
    BY <1>a, <2>2 DEF WorldTyped
  <2>. QED BY <1>a, <2>0, <2>1, <2>3, SameAges DEF WorldTyped
<1>3. CASE RunJob
  BY <1>3, BootAges DEF RunJob
<1>12. CASE Begin
  <2>1. /\ UNCHANGED <<owner, gen, alive, hung, asked, job, file, served>> /\ recent' = {}
        /\ pc \in {"idle", "done"}
    BY <1>12 DEF Begin
  <2>. QED BY <1>a, <2>1, LimitsAssumption DEF WorldTyped, Ages
<1>4. CASE Tick \/ CancelTask \/ EndCancelled \/ Deadline \/ BringUpBegins \/ Inspect \/ UNCHANGED vars
  BY <1>0, <1>4 DEF Tick, CancelTask, EndCancelled, Deadline, BringUpBegins, BringUpKeeps,
                    Inspect, vars
<1>5. CASE Proving
  BY <1>0, <1>5 DEF Proving, Verify, Probe, Confirm
<1>6. CASE DiscoverUnit \/ Settle \/ Rediscover \/ Raced
  BY <1>0, <1>6 DEF DiscoverUnit, Settle, Rediscover, Raced, UnitKeeps
<1>7. CASE OfficialRestart \/ Kill \/ Pair
  <2>1. /\ UNCHANGED <<owner, gen, hung, file, served, recent>> /\ alive' \subseteq alive /\ owner = "unit"
        /\ asked' \subseteq Generations /\ job' \in BOOLEAN
    BY <1>7, <1>a DEF OfficialRestart, Kill, Pair, UnitKeeps, Ways, WorldTyped
  <2>. QED BY <1>a, <2>1, SameAges DEF WorldTyped
<1>8. CASE ReadOld \/ Admit \/ WaitForExit \/ OpenHandle \/ Recheck \/ WaitForTerm \/ Reconcile
  BY <1>0, <1>8 DEF ReadOld, Admit, WaitForExit, OpenHandle, Recheck, WaitForTerm, Reconcile, ManagedKeeps
<1>9. CASE Stop \/ Terminate \/ KillExact
  <2>1. Reached \ {Stranger} \subseteq alive
    BY DEF Reached
  <2>2. /\ UNCHANGED <<owner, gen, hung, job, file, served, recent>> /\ alive' \subseteq alive
        /\ asked' \subseteq Generations
    BY <1>9, <2>1 DEF Stop, Terminate, KillExact, ManagedKeeps, WorldTyped
  <2>. QED BY <1>a, <2>2, SameAges DEF WorldTyped
<1>10. CASE Starting
  <2>1. UNCHANGED owner /\ (NewLife \/ CliStart \/ UNCHANGED world)
    BY <1>10 DEF Starting, PairedStart, Precheck, StartLeg, ForegroundLeg, StartKeeps
  <2>. QED BY <2>1, NewLifeAges
<1>11. CASE BringUpStarts \/ BringUpEnds
  <2>1. UNCHANGED owner /\ (NewLife \/ CliStart \/ UNCHANGED world)
    BY <1>11 DEF BringUpStarts, BringUpEnds, BringUpKeeps
  <2>. QED BY <2>1, NewLifeAges
<1>. QED
  BY <1>1, <1>2, <1>3, <1>4, <1>5, <1>6, <1>7, <1>8, <1>9, <1>10, <1>11, <1>12
     DEF Next, Gateway, Heal, UnitHeal, ManagedHeal

(* What happens beside the heal. *)
Aside == Gateway \/ BringUpBegins \/ BringUpStarts \/ BringUpEnds \/ Inspect \/ UNCHANGED vars

LEMMA AsideKeeps ==
  ASSUME Aside
  PROVE  UNCHANGED <<pc, locals, ghosts>>
  BY DEF Aside, Gateway, WriteRecord, Connect, Leave, Perish, RunJob, BringUpBegins, BringUpStarts,
         BringUpEnds, BringUpKeeps, Inspect, vars

(* The heal and its deadline leave the bring-up and the report of the heartbeat alone. *)
LEMMA HealKeeps ==
  ASSUME Begin \/ Heal \/ Tick \/ CancelTask
  PROVE  UNCHANGED others
<1>1. CASE Begin \/ Tick \/ CancelTask \/ EndCancelled \/ Deadline \/ Proving
  BY <1>1 DEF Begin, Tick, CancelTask, EndCancelled, Deadline, Proving, Verify, Probe, Confirm
<1>2. CASE UnitHeal
  BY <1>2 DEF UnitHeal, DiscoverUnit, OfficialRestart, Settle, Rediscover, Kill, Raced, Pair, UnitKeeps
<1>3. CASE ManagedHeal
  BY <1>3 DEF ManagedHeal, ReadOld, Admit, Stop, WaitForExit, OpenHandle, Recheck, Terminate, WaitForTerm,
              KillExact, Reconcile, ManagedKeeps
<1>4. CASE Starting
  BY <1>4 DEF Starting, PairedStart, Precheck, StartLeg, ForegroundLeg, StartKeeps
<1>. QED BY <1>1, <1>2, <1>3, <1>4 DEF Heal

LEMMA StepStep ==
  ASSUME StepTyped, [Next]_vars
  PROVE  StepTyped'
<1>. USE DEF StepTyped, Steps, UnitSteps, StopSteps, StartSteps, Finish
<1>1. CASE Aside
  <2>1. UNCHANGED <<pc, clock, verdict>>
    BY <1>1, AsideKeeps
  <2>2. bringup' \in {"due", "precheck", "start", "foreground", "told", "over"}
    BY <1>1 DEF Aside, Gateway, WriteRecord, Connect, Leave, Perish, RunJob, BringUpBegins,
                BringUpStarts, BringUpEnds, Inspect, vars
  <2>. QED BY <2>1, <2>2
<1>2. CASE Begin \/ Tick \/ CancelTask \/ EndCancelled \/ Deadline \/ Proving
  BY <1>2 DEF Begin, Tick, CancelTask, EndCancelled, Deadline, Proving, Verify, Probe, Confirm
<1>3. CASE UnitHeal
  BY <1>3 DEF UnitHeal, DiscoverUnit, OfficialRestart, Settle, Rediscover, Kill, Raced, Pair, UnitKeeps,
              AfterKill
<1>4. CASE ManagedHeal
  BY <1>4 DEF ManagedHeal, ReadOld, Admit, Stop, WaitForExit, OpenHandle, Recheck, Terminate, WaitForTerm,
              KillExact, Reconcile, ManagedKeeps, Protected, Await
<1>5. CASE Starting
  BY <1>5 DEF Starting, PairedStart, Precheck, StartLeg, ForegroundLeg, StartKeeps, AfterStart
<1>. QED BY <1>1, <1>2, <1>3, <1>4, <1>5 DEF Next, Aside, Heal

LEMMA WaysStep ==
  ASSUME StepTyped, Ways, [Next]_vars, UNCHANGED owner
  PROVE  Ways' /\ (pc' \in StopSteps => owner' # "unit")
<1>. USE DEF Ways, StopSteps, StartSteps, Finish
<1>1. CASE Aside
  BY <1>1, AsideKeeps
<1>2. CASE Begin \/ Tick \/ CancelTask \/ EndCancelled \/ Deadline \/ Proving
  BY <1>2 DEF Begin, Tick, CancelTask, EndCancelled, Deadline, Proving, Verify, Probe, Confirm
<1>3. CASE UnitHeal
  BY <1>3 DEF UnitHeal, DiscoverUnit, OfficialRestart, Settle, Rediscover, Kill, Raced, Pair, UnitKeeps,
              AfterKill
<1>4. CASE ManagedHeal
  BY <1>4 DEF ManagedHeal, ReadOld, Admit, Stop, WaitForExit, OpenHandle, Recheck, Terminate, WaitForTerm,
              KillExact, Reconcile, ManagedKeeps, Protected, Await
<1>5. CASE Starting
  BY <1>5 DEF Starting, PairedStart, Precheck, StartLeg, ForegroundLeg, StartKeeps, AfterStart
<1>. QED BY <1>1, <1>2, <1>3, <1>4, <1>5 DEF Next, Aside, Heal

LEMMA FlagStep ==
  ASSUME FlagTyped, [Next]_vars
  PROVE  FlagTyped'
<1>. USE DEF FlagTyped
<1>1. CASE Aside
  BY <1>1, AsideKeeps
<1>2. CASE Begin \/ Tick \/ CancelTask \/ EndCancelled \/ Deadline \/ Proving
  BY <1>2 DEF Begin, Tick, CancelTask, EndCancelled, Deadline, Proving, Verify, Probe, Confirm
<1>3. CASE UnitHeal
  BY <1>3 DEF UnitHeal, DiscoverUnit, OfficialRestart, Settle, Rediscover, Kill, Raced, Pair, UnitKeeps
<1>4. CASE ReadOld \/ Admit \/ Stop \/ OpenHandle \/ Terminate \/ Reconcile
  BY <1>4 DEF ReadOld, Admit, Stop, OpenHandle, Terminate, Reconcile, ManagedKeeps
<1>5. CASE WaitForExit \/ WaitForTerm \/ Recheck \/ KillExact
  <2>1. UNCHANGED <<cancelled, known, admitted, restarted>>
    BY <1>5 DEF WaitForExit, WaitForTerm, Recheck, KillExact, ManagedKeeps
  <2>2. \E b \in BOOLEAN : failed' = (failed \/ b)
    <3>1. CASE WaitForExit \/ WaitForTerm
      BY <3>1 DEF WaitForExit, WaitForTerm, Await
    <3>2. CASE Recheck \/ KillExact
      BY <3>2 DEF Recheck, KillExact
    <3>. QED BY <1>5, <3>1, <3>2
  <2>. QED BY <2>1, <2>2
<1>6. CASE PairedStart \/ Precheck
  BY <1>6 DEF PairedStart, Precheck, StartKeeps
<1>7. CASE StartLeg \/ ForegroundLeg
  <2>1. UNCHANGED <<failed, cancelled, known, admitted>>
    BY <1>7 DEF StartLeg, ForegroundLeg, StartKeeps
  <2>2. restarted' = (TimeLeft /\ owner # "nobody") \/ restarted' = (restarted \/ TimeLeft)
    BY <1>7 DEF StartLeg, ForegroundLeg
  <2>3. restarted' \in BOOLEAN
    BY <2>2, Zenon
  <2>. QED BY <2>1, <2>3
<1>. QED BY <1>1, <1>2, <1>3, <1>4, <1>5, <1>6, <1>7 DEF Next, Aside, Heal, ManagedHeal, Starting

LEMMA RecordedIsOld ==
  ASSUME WorldTyped
  PROVE  /\ Recorded \in 0..gen /\ gen \in 0..gen /\ 0 \in 0..gen /\ gen \in Nat
         /\ (Recorded # None => Recorded = file.gen /\ Recorded \in alive)
  BY LimitsAssumption DEF WorldTyped, Recorded

(* The snapshots of a unit. *)
LEMMA SnapshotsAre ==
  ASSUME WorldTyped, NEW s \in Snapshots
  PROVE  s[1] \in 0..gen /\ s[1] \in {None, gen} /\ (s[1] = None \/ s[1] = gen) /\ (s[2] => s[1] = None)
         /\ s[2] \in BOOLEAN
<1>1. gen \in 0..gen /\ 0 \in 0..gen
  BY LimitsAssumption DEF WorldTyped
<1>2. CASE s = <<gen, FALSE>>
  BY <1>1, <1>2
<1>3. CASE s = <<None, TRUE>>
  BY <1>1, <1>3
<1>. QED BY <1>2, <1>3 DEF Snapshots

LEMMA ChoiceStep ==
  ASSUME WorldTyped, ChoiceTyped, Ages, [Next]_vars
  PROVE  ChoiceTyped'
<1>. DEFINE Old == /\ before' \in 0..gen /\ after' \in 0..gen
                   /\ handle' \in 0..gen \union {Stranger} /\ hit' \subseteq 0..gen \union {Stranger}
<1>0. SUFFICES Old
  <2>1. 0..gen \subseteq 0..gen'
    BY DEF Ages
  <2>. QED BY <2>1 DEF ChoiceTyped
<1>. USE RecordedIsOld DEF ChoiceTyped
<1>1. CASE Aside
  BY <1>1, AsideKeeps
<1>2. CASE Begin \/ Tick \/ CancelTask \/ EndCancelled \/ Deadline
  BY <1>2 DEF Begin, Tick, CancelTask, EndCancelled, Deadline
<1>3. CASE Proving
  BY <1>3 DEF Proving, Verify, Probe, Confirm
<1>4. CASE DiscoverUnit \/ Settle \/ Rediscover \/ Raced
  <2>1. UNCHANGED <<handle, hit>> /\ (\E s \in Snapshots : /\ before' \in {before, s[1]}
                                                           /\ after' \in {after, s[1]})
    BY <1>4 DEF DiscoverUnit, Settle, Rediscover, Raced, UnitKeeps
  <2>. QED BY <2>1, SnapshotsAre
<1>5. CASE OfficialRestart \/ Kill \/ Pair
  BY <1>5 DEF OfficialRestart, Kill, Pair, UnitKeeps
<1>6. CASE ReadOld \/ Admit \/ Stop \/ WaitForExit \/ Recheck \/ WaitForTerm \/ Reconcile
  BY <1>6 DEF ReadOld, Admit, Stop, WaitForExit, Recheck, WaitForTerm, Reconcile, ManagedKeeps
<1>7. CASE OpenHandle
  BY <1>7 DEF OpenHandle, ManagedKeeps
<1>8. CASE Terminate \/ KillExact
  BY <1>8 DEF Terminate, KillExact, ManagedKeeps, Reached
<1>9. CASE Starting
  BY <1>9 DEF Starting, PairedStart, Precheck, StartLeg, ForegroundLeg, StartKeeps
<1>. QED BY <1>1, <1>2, <1>3, <1>4, <1>5, <1>6, <1>7, <1>8, <1>9
         DEF Next, Aside, Heal, UnitHeal, ManagedHeal

-----------------------------------------------------------------------------
(* The record and the heartbeat *)

LEMMA TruthfulStep ==
  ASSUME WorldTyped, Truthful, Ages, [Next]_vars
  PROVE  Truthful'
<1>0. /\ file.gen \in Nat /\ file.row \in Nat /\ served \subseteq served' /\ file.gen <= file'.gen
      /\ (alive \subseteq {gen} => alive' \subseteq {gen'})
  <2>1. alive \subseteq {gen} => alive' \subseteq {gen'}
    BY DEF Ages
  <2>2. file.gen \in Nat /\ file.row \in Nat
    BY LimitsAssumption DEF WorldTyped
  <2>. QED BY <2>1, <2>2 DEF Ages
<1>1. file' = file => Truthful'
  BY <1>0 DEF Truthful
<1>2. ASSUME NEW g \in Generations, WriteRecord(g) PROVE Truthful'
  <2>1. file' = [file EXCEPT !.gen = g] /\ g \in Nat /\ file.gen < g
    BY <1>2 DEF WriteRecord, Generations
  <2>2. file'.row = file.row /\ file'.gen = g
    BY <2>1 DEF WorldTyped
  <2>. QED BY <1>0, <2>1, <2>2 DEF Truthful
<1>3. ASSUME NEW g \in Generations, Connect(g) PROVE Truthful'
  <2>1. file' = [file EXCEPT !.row = g] /\ g \in Nat /\ file.gen = g /\ g \in served'
    BY <1>3 DEF Connect, Generations
  <2>2. file'.row = g /\ file'.gen = g
    BY <2>1 DEF WorldTyped
  <2>. QED BY <1>0, <2>1, <2>2 DEF Truthful
<1>4. ASSUME NEW g \in Generations, Leave(g) PROVE Truthful'
  <2>1. file' = file \/ file' = [file EXCEPT !.row = None]
    BY <1>4 DEF Leave
  <2>2. file' = file \/ (file'.row = None /\ file'.gen = file.gen)
    BY <2>1 DEF WorldTyped
  <2>. QED BY <1>0, <1>1, <2>2 DEF Truthful
<1>5. CASE \/ (\E g \in Generations : Perish(g)) \/ RunJob
           \/ BringUpBegins \/ BringUpStarts \/ BringUpEnds \/ Inspect \/ UNCHANGED vars
  BY <1>1, <1>5 DEF Perish, RunJob, Boot, BringUpBegins, BringUpStarts, BringUpEnds, BringUpKeeps, Inspect,
                    CliStart, NewLife, vars
<1>6. CASE Begin \/ Tick \/ CancelTask \/ EndCancelled \/ Deadline \/ Proving
  BY <1>1, <1>6 DEF Begin, Tick, CancelTask, EndCancelled, Deadline, Proving, Verify, Probe, Confirm
<1>7. CASE UnitHeal
  BY <1>1, <1>7 DEF UnitHeal, DiscoverUnit, OfficialRestart, Settle, Rediscover, Kill, Raced, Pair
<1>8. CASE ManagedHeal
  BY <1>1, <1>8 DEF ManagedHeal, ReadOld, Admit, Stop, WaitForExit, OpenHandle, Recheck, Terminate,
                    WaitForTerm, KillExact, Reconcile
<1>9. CASE Starting
  BY <1>1, <1>9 DEF Starting, PairedStart, Precheck, StartLeg, ForegroundLeg, CliStart, NewLife, Boot
<1>. QED BY <1>2, <1>3, <1>4, <1>5, <1>6, <1>7, <1>8, <1>9 DEF Next, Gateway, Heal

(* Evidence for g was written by one of the writers that count, which connected, and which is no
   younger than g. *)
LEMMA EvidenceOf ==
  ASSUME WorldTyped, Truthful, NEW g \in Nat \ {0}, NEW W, None \notin W,
         "connected" \in Evidence(g, W)
  PROVE  \E h \in served \intersect W : h <= g
<1>0. file.gen \in Nat /\ file.row \in Nat /\ file.row <= file.gen
  BY LimitsAssumption DEF WorldTyped, Truthful
<1>1. CASE file.gen # g
  <2>1. g \in served \intersect W
    BY <1>1 DEF Evidence, StateEvidence, OtherEvidence
  <2>. QED BY <2>1
<1>2. CASE file.gen = g
  <2>1. file.row \in W
    BY <1>2 DEF Evidence, StateEvidence
  <2>2. file.row # None /\ file.row \in served
    BY <1>0, <2>1 DEF Truthful
  <2>. QED BY <1>0, <1>2, <2>1, <2>2
<1>. QED BY <1>1, <1>2

LEMMA ReportStep ==
  ASSUME WorldTyped, Truthful, Ages, ReportTyped, ReadyIsProven, [Next]_vars
  PROVE  ReportTyped' /\ ReadyIsProven'
<1>0. served \subseteq served' /\ 0..gen \subseteq 0..MaxGenerations /\ 0 \in 0..MaxGenerations
      /\ gen \in 0..gen
  BY LimitsAssumption DEF Ages, WorldTyped
<1>1. reported' = reported => ReportTyped' /\ ReadyIsProven'
  BY <1>0 DEF ReportTyped, ReadyIsProven
<1>2. CASE Gateway \/ BringUpBegins \/ BringUpStarts \/ UNCHANGED vars
  BY <1>1, <1>2 DEF Gateway, WriteRecord, Connect, Leave, Perish, RunJob, BringUpBegins, BringUpStarts, vars
<1>3. CASE Begin \/ Heal \/ Tick \/ CancelTask
  BY <1>1, <1>3, HealKeeps
<1>4. CASE BringUpEnds
  <2>1. \E b \in BOOLEAN : reported' = [ready |-> b, gen |-> None]
    <3>1. reported' = [ready |-> Healthy, gen |-> IF Healthy THEN None ELSE None]
      BY <1>4 DEF BringUpEnds, Report
    <3>2. Healthy \in BOOLEAN
      BY DEF Healthy
    <3>. QED BY <3>1, <3>2
  <2>. QED BY <1>0, <2>1 DEF ReportTyped, ReadyIsProven, State
<1>5. CASE Inspect
  <2>. DEFINE Sure(old, e) == Healthy /\ ((Found # None /\ ProofHolds(Found) /\ ~old) \/ e = "connected")
  <2>1. PICK old \in BOOLEAN, e \in (IF Found = None THEN {"unknown"} ELSE Evidence(Found, {Found})) :
          reported' = Report(Sure(old, e), Found)
    BY <1>5 DEF Inspect
  <2>2. Found \in 0..gen
    BY <1>0, RecordedIsOld DEF Found
  <2>3. CASE ~Sure(old, e)
    <3>1. reported' = [ready |-> FALSE, gen |-> None]
      BY <2>1, <2>3 DEF Report
    <3>. QED BY <1>0, <3>1 DEF ReportTyped, ReadyIsProven, State
  <2>4. CASE Sure(old, e)
    <3>1. reported' = [ready |-> TRUE, gen |-> Found]
      BY <2>1, <2>4 DEF Report
    <3>2. Found # None => Found \in served
      <4>1. CASE Found # None /\ ProofHolds(Found)
        BY <4>1 DEF ProofHolds, ReadyIsProven
      <4>2. CASE Found # None /\ e = "connected"
        <5>1. Found \in Nat \ {0} /\ "connected" \in Evidence(Found, {Found}) /\ None \notin {Found}
          BY <1>0, <2>1, <2>2, <4>2
        <5>2. \E h \in served \intersect {Found} : h <= Found
          BY <5>1, EvidenceOf
        <5>. QED BY <5>2
      <4>. QED BY <2>4, <4>1, <4>2
    <3>. QED BY <1>0, <2>2, <3>1, <3>2 DEF ReportTyped, ReadyIsProven, State
  <2>. QED BY <2>3, <2>4
<1>. QED BY <1>2, <1>3, <1>4, <1>5 DEF Next

-----------------------------------------------------------------------------
(* Signals *)

LEMMA BoundStep ==
  ASSUME WorldTyped, ChoiceTyped, Bound, SignalsOnlyOld, Ages, [Next]_vars
  PROVE  Bound' /\ SignalsOnlyOld'
<1>. USE DEF Bound, SignalsOnlyOld
<1>0. before \notin alive => before \notin alive'
  BY DEF Ages, ChoiceTyped
<1>1. CASE Aside \/ Tick \/ CancelTask
  <2>1. UNCHANGED <<pc, before, handle, hit>>
    BY <1>1, AsideKeeps DEF Tick, CancelTask
  <2>. QED BY <1>0, <2>1
<1>2. CASE Begin
  BY <1>2 DEF Begin
<1>3. CASE EndCancelled \/ Deadline \/ Proving
  BY <1>3 DEF EndCancelled, Deadline, Proving, Verify, Probe, Confirm, Finish
<1>4. CASE UnitHeal
  <2>1. /\ UNCHANGED <<handle, hit>> /\ (before' = before \/ hit = {})
        /\ pc' \in {"official", "settle", "verify", "rediscover", "pair", "kill", "raced", "done"}
    BY <1>4 DEF UnitHeal, DiscoverUnit, OfficialRestart, Settle, Rediscover, Kill, Raced, Pair,
                UnitKeeps, AfterKill, Finish
  <2>. QED BY <2>1
<1>5. CASE ReadOld \/ Admit \/ Stop \/ WaitForExit \/ Reconcile
  <2>1. /\ UNCHANGED <<handle, hit>> /\ (before' = before \/ hit = {})
        /\ pc' \in {"admit", "paired", "stop", "wait", "open", "reconcile", "done"}
    BY <1>5 DEF ReadOld, Admit, Stop, WaitForExit, Reconcile, ManagedKeeps, Protected, Await, Finish
  <2>. QED BY <2>1
<1>6. CASE OpenHandle
  BY <1>0, <1>6 DEF OpenHandle, ManagedKeeps, Protected
<1>7. CASE Recheck
  <2>1. UNCHANGED <<before, handle, hit, alive>>
    BY <1>7 DEF Recheck, ManagedKeeps
  <2>2. \/ Reconfirmed /\ pc' \in {"term", "kill9", "reconcile"}
        \/ pc' \in {"paired", "reconcile"}
    BY <1>7 DEF Recheck, Protected
  <2>. QED BY <1>7, <2>1, <2>2 DEF Recheck, Reconfirmed
<1>8. CASE Terminate
  <2>1. handle = before /\ hit' = hit \union Reached /\ UNCHANGED <<before, handle>>
        /\ pc' \in {"termwait", "reconcile"}
    BY <1>8 DEF Terminate, ManagedKeeps, Protected
  <2>. QED BY <2>1 DEF Reached
<1>9. CASE WaitForTerm
  BY <1>9 DEF WaitForTerm, ManagedKeeps, Await
<1>10. CASE KillExact
  <2>1. handle = before /\ hit' = hit \union Reached /\ UNCHANGED <<before, handle>>
        /\ pc' \in {"paired", "reconcile"}
    BY <1>10 DEF KillExact, ManagedKeeps, Protected
  <2>. QED BY <2>1 DEF Reached
<1>11. CASE Starting
  BY <1>11 DEF Starting, PairedStart, Precheck, StartLeg, ForegroundLeg, StartKeeps, AfterStart, Finish
<1>. QED BY <1>1, <1>2, <1>3, <1>4, <1>5, <1>6, <1>7, <1>8, <1>9, <1>10, <1>11
         DEF Next, Aside, Heal, ManagedHeal

-----------------------------------------------------------------------------
(* Every stop has its start *)

LEMMA PairingStep ==
  ASSUME WorldTyped, FlagTyped, StepTyped, ChoiceTyped, Ways, Bound, Pairing, Ages, UNCHANGED owner,
         [Next]_vars
  PROVE  Pairing'
<1>. USE DEF Pairing, StartSteps, Changed, TimeLeft
<1>0. before \notin alive => before \notin alive'
  BY DEF Ages, ChoiceTyped
<1>1. CASE Aside \/ CancelTask
  <2>1. UNCHANGED <<pc, before, after, clock, failed, admitted, restarted>>
    BY <1>1, AsideKeeps DEF CancelTask
  <2>. QED BY <1>0, <2>1
<1>2. CASE Tick
  <2>1. UNCHANGED <<pc, before, after, failed, admitted, restarted>> /\ clock # "over"
    BY <1>2 DEF Tick
  <2>. QED BY <1>0, <2>1
<1>3. CASE Begin \/ EndCancelled \/ Deadline
  BY <1>3 DEF Begin, EndCancelled, Deadline, Finish
<1>4. CASE Proving
  <2>1. UNCHANGED <<before, clock, admitted, restarted>> /\ pc' \in {"probe", "confirm", "verify", "done"}
        /\ pc \in {"verify", "probe", "confirm"}
        /\ (after' = after \/ Changed(after'))
    BY <1>4 DEF Proving, Verify, Probe, Confirm, Finish
  <2>. QED BY <2>1
<1>5. CASE DiscoverUnit \/ OfficialRestart \/ Settle \/ Rediscover
  <2>1. UNCHANGED <<admitted, restarted>> /\ ~admitted /\ pc' \notin StartSteps
    BY <1>5 DEF DiscoverUnit, OfficialRestart, Settle, Rediscover, UnitKeeps, Finish
  <2>. QED BY <2>1
<1>6. CASE Kill
  BY <1>6 DEF Kill, AfterKill
<1>7. CASE Raced
  <2>1. PICK s \in Snapshots : /\ after' = IF s[2] THEN after ELSE s[1]
                               /\ GoTo(IF Changed(s[1]) /\ ~cancelled THEN "verify" ELSE "pair")
    BY <1>7 DEF Raced
  <2>2. UNCHANGED before
    BY <1>7 DEF Raced
  <2>. QED BY <2>1, <2>2, SnapshotsAre
<1>8. CASE Pair
  BY <1>8 DEF Pair, Finish
<1>9. CASE ReadOld \/ Admit
  BY <1>9 DEF ReadOld, Admit, Finish
<1>10. CASE Stop \/ Terminate
  BY <1>10 DEF Stop, Terminate, Protected
<1>11. CASE WaitForExit \/ WaitForTerm
  <2>1. UNCHANGED <<before, alive>> /\ pc' \in {"open", "recheck9", "paired", "reconcile"}
        /\ (pc' = "paired" => failed' \/ before \notin alive)
    BY <1>11 DEF WaitForExit, WaitForTerm, Await, Activity
  <2>. QED BY <2>1
<1>12. CASE OpenHandle
  BY <1>12 DEF OpenHandle, Protected
<1>13. CASE Recheck
  <2>1. UNCHANGED <<before, alive>> /\ pc' \in {"term", "kill9", "paired", "reconcile"}
        /\ (pc' = "paired" => failed' \/ before \notin alive)
    BY <1>13 DEF Recheck, Protected
  <2>. QED BY <2>1
<1>14. CASE KillExact
  <2>1. before' = before /\ pc' \in {"paired", "reconcile"} /\ handle = before
        /\ ((alive' = alive \ Reached) \/ failed' = (failed \/ before \in alive))
        /\ (alive' = alive \/ alive' = alive \ Reached)
    BY <1>14 DEF KillExact, Protected, Bound
  <2>2. failed' \/ before \notin alive'
    BY <2>1 DEF Reached
  <2>. QED BY <2>1, <2>2
<1>15. CASE Reconcile
  <2>1. UNCHANGED <<before, alive>> /\ pc' \in {"paired", "done"} /\ (pc' = "paired" => before \notin alive)
    BY <1>15 DEF Reconcile, Activity, Finish
  <2>. QED BY <2>1
<1>16. CASE PairedStart
  BY <1>16 DEF PairedStart, StartKeeps, Finish
<1>17. CASE Precheck
  <2>1. UNCHANGED <<before, after, failed, admitted, restarted>> /\ pc = "precheck"
        /\ (pc' = "verify" => ~failed) /\ pc' \in {"start", "done", "verify"}
    BY <1>17 DEF Precheck, StartKeeps, AfterStart, Finish
  <2>. QED BY <2>1
<1>18. CASE StartLeg \/ ForegroundLeg
  <2>1. UNCHANGED <<before, after, admitted, clock>> /\ pc' \in {"foreground", "done", "verify"}
        /\ (pc' = "foreground" => TimeLeft /\ restarted' = (TimeLeft /\ owner # "nobody"))
        /\ (pc' = "verify" => restarted' \/ ~TimeLeft)
    BY <1>18 DEF StartLeg, ForegroundLeg, StartKeeps, AfterStart, Finish
  <2>2. owner # "unit"
    BY <1>18 DEF StartLeg, ForegroundLeg, Ways
  <2>. QED BY <2>1, <2>2
<1>. QED BY <1>1, <1>2, <1>3, <1>4, <1>5, <1>6, <1>7, <1>8, <1>9, <1>10, <1>11, <1>12, <1>13, <1>14,
            <1>15, <1>16, <1>17, <1>18 DEF Next, Aside, Heal, UnitHeal, ManagedHeal, Starting

(* The end of a heal. *)
PairedEnd ==
  \/ restarted' \/ Changed(after')
  \/ owner # "unit" /\ (alive' # {} \/ (clock = "over" /\ verdict' # "verified"))

LEMMA EndIsPaired ==
  ASSUME IInv, [Next]_vars, pc # "done", pc' = "done", admitted'
  PROVE  PairedEnd
<1>. USE DEF Pairing, StartSteps, PairedEnd, TimeLeft
<1>0. Pairing /\ Ways /\ WorldTyped /\ ChoiceTyped /\ Younger
  BY TypeParts DEF IInv
<1>1. CASE Aside \/ Tick \/ CancelTask \/ Begin
  BY <1>1, AsideKeeps DEF Tick, CancelTask, Begin
<1>2. CASE EndCancelled \/ Deadline
  <2>1. UNCHANGED <<admitted, restarted, after, before>> /\ verdict' # "verified"
        /\ pc \in {"discover", "official", "settle", "rediscover", "verify", "probe", "confirm", "read", "admit"}
    BY <1>2 DEF EndCancelled, Deadline, WatchedSteps, Finish
  <2>. QED BY <1>0, <2>1 DEF Changed
<1>3. CASE Proving
  <2>1. UNCHANGED <<admitted, restarted, after, before>> /\ pc \in {"probe", "confirm"}
    BY <1>3 DEF Proving, Verify, Probe, Confirm
  <2>2. after # None /\ after # before
    BY <1>0, <2>1, LimitsAssumption DEF Younger, ChoiceTyped, WorldTyped
  <2>. QED BY <2>1, <2>2 DEF Changed
<1>4. CASE UnitHeal
  <2>1. CASE DiscoverUnit \/ OfficialRestart \/ Settle \/ Rediscover
    BY <1>0, <2>1 DEF DiscoverUnit, OfficialRestart, Settle, Rediscover
  <2>2. CASE Kill \/ Raced \/ Pair
    BY <2>2 DEF Kill, Raced, Pair, AfterKill
  <2>. QED BY <1>4, <2>1, <2>2 DEF UnitHeal
<1>5. CASE ManagedHeal
  <2>1. CASE ReadOld \/ Admit
    BY <1>0, <2>1 DEF ReadOld, Admit
  <2>2. CASE Reconcile
    <3>1. owner # "unit" /\ alive' = alive
      BY <1>0, <2>2 DEF Reconcile, Ways
    <3>2. before \in alive \/ Recorded \notin {None, before}
      BY <2>2 DEF Reconcile, Activity
    <3>3. alive # {}
      BY <1>0, <3>2, RecordedIsOld
    <3>. QED BY <3>1, <3>3
  <2>3. CASE ~ReadOld /\ ~Admit /\ ~Reconcile
    BY <1>5, <2>3 DEF ManagedHeal, Stop, WaitForExit, OpenHandle, Recheck, Terminate, WaitForTerm, KillExact,
                      Protected, Await
  <2>. QED BY <2>1, <2>2, <2>3
<1>6. CASE Starting
  <2>0. owner # "unit"
    BY <1>0, <1>6 DEF Starting, PairedStart, Precheck, StartLeg, ForegroundLeg, Ways
  <2>1. CASE PairedStart
    BY <2>0, <2>1 DEF PairedStart, Finish
  <2>2. CASE Precheck
    <3>1. Healthy /\ alive' = alive
      BY <2>2 DEF Precheck
    <3>. QED BY <2>0, <3>1 DEF Healthy
  <2>3. CASE StartLeg \/ ForegroundLeg
    <3>1. verdict' # "verified" /\ (restarted' \/ ~TimeLeft)
      BY <2>3 DEF StartLeg, ForegroundLeg, AfterStart, Finish
    <3>. QED BY <2>0, <3>1
  <2>. QED BY <1>6, <2>1, <2>2, <2>3 DEF Starting
<1>. QED BY <1>1, <1>2, <1>3, <1>4, <1>5, <1>6 DEF Next, Aside, Heal

-----------------------------------------------------------------------------
(* What is confirmed is younger than what was found *)

(* Of those that run, whoever connects does so since the heal began. *)
LEMMA NewcomersRecent ==
  ASSUME WorldTyped, WorldTyped', Ages, pc \notin {"idle", "done"},
         \A g \in alive \intersect served : g \in recent \/ g = before
  PROVE  \A g \in alive' \intersect served' : g \in recent' \/ g = before
<1>. SUFFICES ASSUME NEW g \in alive' \intersect served'
              PROVE  g \in recent' \/ g = before
  OBVIOUS
<1>1. CASE g \notin served
  BY <1>1 DEF Ages
<1>2. CASE g \in served
  <2>1. g # gen + 1
    BY <1>2, LimitsAssumption DEF WorldTyped
  <2>2. g \in alive
    BY <2>1 DEF Ages
  <2>. QED BY <1>2, <2>2 DEF Ages
<1>. QED BY <1>1, <1>2

LEMMA YoungerStep ==
  ASSUME WorldTyped, WorldTyped', ChoiceTyped, Ways, Truthful, Younger, Ages, UNCHANGED owner,
         [Next]_vars
  PROVE  Younger'
<1>0. /\ file.gen \in Nat /\ file'.gen \in Nat /\ file.gen <= file'.gen /\ served \subseteq served'
      /\ before \in Nat /\ after \in Nat /\ before <= gen /\ gen \in Nat
  <2>1. file'.gen \in Nat /\ file.gen \in Nat
    BY LimitsAssumption DEF WorldTyped
  <2>. QED BY <2>1, LimitsAssumption DEF WorldTyped, ChoiceTyped, Ages
<1>. DEFINE Known == \A g \in alive \intersect served : g \in recent \/ g = before
<1>n. pc \notin {"idle", "done", "discover", "read"} /\ before' = before => Known'
  BY NewcomersRecent DEF Younger
<1>r. pc \notin {"idle", "done"} => recent \subseteq recent'
  BY DEF Ages
<1>. HIDE DEF Known
<1>y. /\ owner # "unit" /\ pc \notin {"idle", "done"} => before <= file.gen
      /\ pc \in {"probe", "confirm"} => after > before
      /\ pc = "confirm" => IF owner = "unit" THEN \E g \in recent : g <= after ELSE after \in served
  BY DEF Younger
<1>q. SUFFICES
        /\ owner' # "unit" /\ pc' \notin {"idle", "done"} => before' <= file'.gen
        /\ pc' \notin {"idle", "done", "discover", "read"} => Known'
        /\ pc' \in {"probe", "confirm"} => after' > before'
        /\ pc' = "confirm" => IF owner' = "unit" THEN \E g \in recent' : g <= after' ELSE after' \in served'
  BY DEF Younger, Known
<1>1. CASE Aside \/ Tick \/ CancelTask
  <2>1. UNCHANGED <<pc, before, after>>
    BY <1>1, AsideKeeps DEF Tick, CancelTask
  <2>2. before <= file.gen => before <= file'.gen
    BY <1>0
  <2>. QED BY <1>0, <1>n, <1>r, <1>y, <2>1, <2>2
<1>2. CASE Begin \/ EndCancelled \/ Deadline
  BY <1>0, <1>2 DEF Begin, EndCancelled, Deadline, Finish
<1>3. CASE Verify
  <2>1. UNCHANGED <<before, world>> /\ pc = "verify" /\ pc' = "probe"
    BY <1>3 DEF Verify
  <2>2. after' > before
    <3>1. CASE owner = "unit"
      BY <1>0, <1>3, <3>1 DEF Verify, Changed
    <3>2. CASE owner # "unit"
      <4>1. after' = file.gen /\ file.gen # before
        BY <1>3, <3>2, RecordedIsOld DEF Verify
      <4>. QED BY <1>0, <1>y, <2>1, <3>2, <4>1
    <3>. QED BY <3>1, <3>2
  <2>. QED BY <1>0, <1>n, <1>y, <2>1, <2>2
<1>4. CASE Probe
  <2>1. UNCHANGED <<before, after, world>> /\ pc = "probe" /\ pc' \in {"confirm", "done", "verify"}
        /\ (pc' = "confirm" => "connected" \in Evidence(after, Writers))
    BY <1>4 DEF Probe, Finish
  <2>2. before < after /\ after \in Nat \ {0}
    BY <1>0, <1>y, <2>1
  <2>3. None \notin Writers
    BY <2>2, LimitsAssumption DEF Writers, WorldTyped
  <2>4. ASSUME pc' = "confirm" PROVE \E g \in served \intersect Writers : g <= after
    BY <2>1, <2>2, <2>3, <2>4, EvidenceOf
  <2>. QED BY <1>0, <1>n, <1>y, <2>1, <2>2, <2>4 DEF Writers
<1>5. CASE Confirm
  BY <1>5 DEF Confirm, Finish
<1>6. CASE DiscoverUnit
  <2>1. UNCHANGED world /\ owner = "unit" /\ pc' \in {"official", "done"}
        /\ (pc' # "done" => before' = gen)
    <3>1. PICK s \in Snapshots : before' = s[1] /\ IF s[2] THEN Finish("unverified") ELSE GoTo("official")
      BY <1>6 DEF DiscoverUnit
    <3>2. CASE s = <<gen, FALSE>>
      BY <1>6, <3>1, <3>2 DEF DiscoverUnit, Ways, Finish
    <3>3. CASE s = <<None, TRUE>>
      BY <1>6, <3>1, <3>3 DEF DiscoverUnit, Ways, Finish
    <3>. QED BY <3>1, <3>2, <3>3 DEF Snapshots
  <2>2. before' = gen => Known'
    BY <2>1 DEF Known, Truthful
  <2>. QED BY <2>1, <2>2
<1>7. CASE UnitHeal /\ ~DiscoverUnit
  <2>1. owner = "unit" /\ pc' \notin {"probe", "confirm"} /\ before' = before
        /\ pc \notin {"idle", "done", "discover", "read"}
    BY <1>7 DEF UnitHeal, OfficialRestart, Settle, Rediscover, Kill, Raced, Pair, UnitKeeps, AfterKill,
                Finish, Ways
  <2>. QED BY <1>n, <2>1
<1>8. CASE ReadOld
  <2>1. PICK blind \in BOOLEAN :
          LET old == IF blind THEN None ELSE Recorded
          IN  /\ before' = old
              /\ IF old = None /\ (Healthy \/ alive # {}) THEN Finish("unverified") ELSE GoTo("admit")
    BY <1>8 DEF ReadOld
  <2>2. UNCHANGED world /\ pc' \in {"admit", "done"} /\ before' \in {None, Recorded}
        /\ (pc' # "done" => alive = {} \/ (before' = Recorded /\ Recorded # None))
    BY <1>8, <2>1 DEF ReadOld, Finish
  <2>3. Recorded <= file.gen /\ (Recorded # None => alive \subseteq {Recorded})
    BY <1>0, RecordedIsOld DEF Truthful
  <2>4. pc' # "done" => Known'
    BY <2>2, <2>3 DEF Known
  <2>. QED BY <1>0, <2>2, <2>3, <2>4
<1>9. CASE ManagedHeal /\ ~ReadOld
  <2>1. file' = file /\ pc \notin {"idle", "done", "discover", "read"} /\ pc' \notin {"probe", "confirm"}
        /\ before' = before
    BY <1>9 DEF ManagedHeal, Admit, Stop, WaitForExit, OpenHandle, Recheck, Terminate, WaitForTerm,
                KillExact, Reconcile, Protected, Await, Finish
  <2>. QED BY <1>0, <1>n, <1>y, <2>1
<1>10. CASE Starting
  <2>1. before' = before /\ pc \notin {"idle", "done", "discover", "read"} /\ pc' \notin {"probe", "confirm"}
    BY <1>10 DEF Starting, PairedStart, Precheck, StartLeg, ForegroundLeg, StartKeeps, AfterStart, Finish
  <2>. QED BY <1>0, <1>n, <1>y, <2>1
<1>. QED BY <1>1, <1>2, <1>3, <1>4, <1>5, <1>6, <1>7, <1>8, <1>9, <1>10 DEF Next, Aside, Heal, Proving

(* Only the last look verifies. *)
LEMMA VerifiedByConfirm ==
  ASSUME [Next]_vars, verdict' = "verified", verdict # "verified"
  PROVE  Confirm /\ Confirmed
<1>1. CASE Aside \/ Tick \/ CancelTask \/ Begin \/ EndCancelled \/ Deadline
  BY <1>1, AsideKeeps DEF Tick, CancelTask, Begin, EndCancelled, Deadline, Finish
<1>2. CASE Proving
  BY <1>2 DEF Proving, Verify, Probe, Confirm, Finish
<1>3. CASE UnitHeal
  BY <1>3 DEF UnitHeal, DiscoverUnit, OfficialRestart, Settle, Rediscover, Kill, Raced, Pair, AfterKill,
              Finish
<1>4. CASE ManagedHeal
  BY <1>4 DEF ManagedHeal, ReadOld, Admit, Stop, WaitForExit, OpenHandle, Recheck, Terminate, WaitForTerm,
              KillExact, Reconcile, Protected, Await, Finish
<1>5. CASE Starting
  BY <1>5 DEF Starting, PairedStart, Precheck, StartLeg, ForegroundLeg, AfterStart, Finish
<1>. QED BY <1>1, <1>2, <1>3, <1>4, <1>5 DEF Next, Aside, Heal

-----------------------------------------------------------------------------
(* Theorems *)

LEMMA InvarianceInit == Init => IInv
<1>. SUFFICES ASSUME Init PROVE IInv
  OBVIOUS
<1>1. TypeOK
  BY TypeInit
<1>2. Ways /\ Bound /\ SignalsOnlyOld /\ Pairing /\ Younger /\ ReadyIsProven
  BY DEF Init, Ways, Bound, SignalsOnlyOld, Pairing, Younger, ReadyIsProven, StopSteps, StartSteps
<1>3. Truthful
  BY DEF Init, Truthful
<1>. QED BY <1>1, <1>2, <1>3 DEF IInv

LEMMA InvarianceStep == IInv /\ [Next]_vars => IInv'
<1>. SUFFICES ASSUME IInv, [Next]_vars PROVE IInv'
  OBVIOUS
<1>0. /\ OwnerTyped /\ WorldTyped /\ StepTyped /\ FlagTyped /\ ChoiceTyped /\ ReportTyped
      /\ Ways /\ Truthful /\ Bound /\ SignalsOnlyOld /\ Pairing /\ Younger /\ ReadyIsProven
  BY TypeParts DEF IInv
<1>1. UNCHANGED owner /\ WorldTyped' /\ Ages
  BY <1>0, WorldStep
<1>2. OwnerTyped' /\ StepTyped' /\ FlagTyped' /\ ChoiceTyped'
  BY <1>0, <1>1, StepStep, FlagStep, ChoiceStep DEF OwnerTyped
<1>3. Ways' /\ (pc' \in StopSteps => owner' # "unit")
  BY <1>0, <1>1, WaysStep
<1>4. ReportTyped' /\ ReadyIsProven'
  BY <1>0, <1>1, ReportStep
<1>5. TypeOK'
  BY <1>1, <1>2, <1>3, <1>4
     DEF TypeOK, OwnerTyped, WorldTyped, StepTyped, FlagTyped, ChoiceTyped, ReportTyped
<1>6. Truthful' /\ Bound' /\ SignalsOnlyOld' /\ Pairing' /\ Younger'
  BY <1>0, <1>1, TruthfulStep, BoundStep, PairingStep, YoungerStep
<1>. QED BY <1>3, <1>4, <1>5, <1>6 DEF IInv

(* The heal, the gateway beside it and the heartbeat only ever reach states of IInv. *)
THEOREM Invariance == Spec => []IInv
  BY InvarianceInit, InvarianceStep, PTL DEF Spec

(* Every variable keeps its type: no generation is named that never lived. *)
THEOREM TypeCorrect == Spec => []TypeOK
<1>1. IInv => TypeOK
  BY DEF IInv
<1>. QED BY Invariance, <1>1, PTL

(* A signal of the exact exit reaches the process that the command found and no other, though the
   number of a process that is gone may be given to any other program. *)
THEOREM OldAlone == Spec => []SignalsOnlyOld
<1>1. IInv => SignalsOnlyOld
  BY DEF IInv
<1>. QED BY Invariance, <1>1, PTL

(* The heartbeat calls only a generation ready that has been connected. *)
THEOREM ReadyProven == Spec => []ReadyIsProven
<1>1. IInv => ReadyIsProven
  BY DEF IInv
<1>. QED BY Invariance, <1>1, PTL

(* "Healed" is said of a later generation, that runs, on evidence from after the heal began. *)
THEOREM Afresh == Spec => VerifiedAfresh
<1>. DEFINE A == verdict' = "verified" /\ verdict # "verified" =>
                   /\ after > before /\ after \in alive
                   /\ \E g \in recent : g <= after
                   /\ owner # "unit" => after \in recent
<1>1. IInv /\ [Next]_vars => A
  <2>. SUFFICES ASSUME IInv, [Next]_vars, verdict' = "verified", verdict # "verified"
                PROVE  /\ after > before /\ after \in alive
                       /\ \E g \in recent : g <= after
                       /\ owner # "unit" => after \in recent
    OBVIOUS
  <2>1. pc = "confirm" /\ Confirmed
    BY VerifiedByConfirm DEF Confirm
  <2>2. Younger /\ WorldTyped /\ ChoiceTyped
    BY TypeParts DEF IInv
  <2>3. /\ after > before /\ \A g \in alive \intersect served : g \in recent \/ g = before
        /\ IF owner = "unit" THEN \E g \in recent : g <= after ELSE after \in served
    BY <2>1, <2>2 DEF Younger
  <2>4. after \in Nat /\ before \in Nat /\ after # None /\ after # before
    BY <2>2, <2>3, LimitsAssumption DEF ChoiceTyped, WorldTyped
  <2>5. after \in alive
    BY <2>1, <2>2, <2>4, RecordedIsOld DEF Confirmed
  <2>6. owner # "unit" => after \in recent /\ after <= after
    BY <2>3, <2>4, <2>5
  <2>. QED BY <2>3, <2>5, <2>6
<1>2. IInv /\ [Next]_vars => [A]_vars
  BY <1>1
<1>. QED BY Invariance, <1>2, PTL DEF Spec, VerifiedAfresh

(* Whoever kills a unit asks for its start before the command ends, or saw a newer generation; a stop
   elsewhere is followed by a start, unless a gateway runs at the end or the deadline is over. *)
THEOREM StopPaired == Spec => StopIsPaired
<1>. DEFINE A == pc # "done" /\ pc' = "done" /\ admitted' => PairedEnd
<1>1. IInv /\ [Next]_vars => A
  BY EndIsPaired
<1>2. IInv /\ [Next]_vars => [A]_vars
  BY <1>1
<1>. QED BY Invariance, <1>2, PTL DEF Spec, StopIsPaired, PairedEnd
=============================================================================
