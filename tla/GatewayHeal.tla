----------------------------- MODULE GatewayHeal -----------------------------
(***************************************************************************)
(* heal_hermes with a restart: stop the old generation of the gateway,     *)
(* start another, and say "healed" only when the new one has proved that   *)
(* it is connected.  Beside it run the bring-up after a start of the       *)
(* process, which starts the gateway once, and the heartbeat, which        *)
(* reports what it can prove of the generation it finds.                   *)
(*                                                                         *)
(* A generation is one life of the gateway process.  It belongs to a       *)
(* systemd unit, to another supervisor, or to nobody: then the runtime     *)
(* starts it in the foreground.  It may hang, die, be asked to stop and    *)
(* not obey; commands fail, answers are missed, the heal is cancelled, and *)
(* one deadline covers it all.                                             *)
(***************************************************************************)
EXTENDS Integers, FiniteSets

CONSTANTS
  MaxGenerations,  \* bound: lives of the gateway
  MaxHeals,        \* bound: heal commands
  MaxFaults        \* bound: commands that fail, probes that answer nothing, lives cut short

ASSUME LimitsAssumption ==
  MaxGenerations \in Nat \ {0} /\ MaxHeals \in Nat /\ MaxFaults \in Nat

VARIABLES
  owner,    \* who owns the gateway on this host
  gen,      \* the latest generation
  alive,    \* the generations that run
  hung,     \* those that neither serve nor obey a stop
  asked,    \* those that were asked to stop
  job,      \* systemd has a start of the unit queued
  file,     \* gateway_state.json: whose process, and whose "connected" row (None: not connected)
  served,   \* history: the generations that connected to Telegram
  recent,   \* those that wrote so since the heal began: what the times of the rows tell
  pc,       \* the heal command
  before, after, \* the generations it compares
  clock,    \* what is left of its deadline: ample (the reserve is intact), tight, over
  failed,   \* failure_reason is set
  cancelled,\* its task was cancelled
  known,    \* gateway_known_stopped
  handle,   \* the process its pidfd is bound to
  verdict,  \* what it reported
  admitted, restarted,  \* a stop or kill was admitted; a start was asked for after it
  hit,      \* history: the processes it signalled
  bringup,  \* the one-shot bring-up task
  reported, \* gateway_state: ready, and for which generation
  heals, faults

world   == <<gen, alive, hung, asked, job, file, served, recent>>
locals  == <<before, after, clock, failed, cancelled, known, handle, verdict>>
ghosts  == <<admitted, restarted, hit>>
others  == <<bringup, reported>>
vars    == <<owner, world, pc, locals, ghosts, others, heals, faults>>

None        == 0
Stranger    == -1   \* another program that was given the number of a process that is gone
Generations == 1..MaxGenerations
Owners      == {"unit", "supervisor", "nobody"}

UnitSteps  == {"discover", "official", "settle", "rediscover", "kill", "raced", "pair",
               "verify", "probe", "confirm"}
StopSteps  == {"stop", "wait", "open", "recheck", "term", "termwait", "recheck9", "kill9"}
StartSteps == {"paired", "precheck", "start", "foreground"}
Steps == {"idle", "read", "admit", "reconcile", "done"} \union UnitSteps \union StopSteps
           \union StartSteps

State  == [ready : BOOLEAN, gen : 0..MaxGenerations]

TypeOK ==
  /\ owner \in Owners /\ gen \in 0..MaxGenerations
  /\ alive \subseteq Generations /\ hung \subseteq Generations /\ asked \subseteq Generations
  /\ served \subseteq 1..gen /\ recent \subseteq served /\ alive \subseteq 1..gen
  /\ job \in BOOLEAN /\ (job => owner = "unit")
  /\ file \in [gen : 0..gen, row : 0..gen]
  /\ pc \in Steps /\ (pc \in StopSteps => owner # "unit")
  /\ {before, after} \subseteq 0..gen
  /\ clock \in {"ample", "tight", "over"}
  /\ {failed, cancelled, known, admitted, restarted} \subseteq BOOLEAN
  /\ handle \in 0..gen \union {Stranger} /\ hit \subseteq 0..gen \union {Stranger}
  /\ verdict \in {"none", "verified", "unverified", "cancelled"}
  /\ bringup \in {"due", "precheck", "start", "foreground", "told", "over"}
  /\ reported \in State

(* A gateway that serves, one that hangs, or none; the file may be of an earlier life. *)
Init ==
  /\ owner \in Owners /\ gen = 1 /\ job = FALSE /\ asked = {} /\ recent = {}
  /\ \/ alive = {1} /\ hung = {} /\ served = {1} /\ file = [gen |-> 1, row |-> 1]
     \/ alive = {1} /\ hung = {1} /\ served = {1} /\ file = [gen |-> 1, row |-> 1]
     \/ alive = {} /\ hung = {} /\ served = {1} /\ file = [gen |-> 1, row |-> 1]
     \/ alive = {} /\ hung = {} /\ served = {} /\ file = [gen |-> None, row |-> None]
  /\ pc = "idle" /\ before = None /\ after = None /\ clock = "ample"
  /\ failed = FALSE /\ cancelled = FALSE /\ known = FALSE /\ handle = None /\ verdict = "none"
  /\ admitted = FALSE /\ restarted = FALSE /\ hit = {}
  /\ bringup = "due" /\ reported = [ready |-> FALSE, gen |-> None]
  /\ heals = 0 /\ faults = 0

Fault == faults < MaxFaults /\ faults' = faults + 1
Fine  == UNCHANGED faults

-----------------------------------------------------------------------------
(* The gateway and its supervisor, as far as the code relies on them. *)

(* A new life, in the place of whatever ran: it has not written its own record yet. *)
Boot ==
  /\ gen' = gen + 1
  /\ alive' = {gen + 1}
  /\ UNCHANGED <<hung, asked, file, served, recent>>
NewLife == IF gen < MaxGenerations THEN Boot /\ UNCHANGED job ELSE UNCHANGED world

Serves(g) == g \in alive \ hung

(* Its record names the process and keeps the platform rows it finds; one that still says
   "starting" is no evidence and is left out. *)
WriteRecord(g) ==
  /\ Serves(g) /\ file.gen < g
  /\ file' = [file EXCEPT !.gen = g]
  /\ UNCHANGED <<owner, gen, alive, hung, asked, job, served, recent, pc, locals, ghosts, others,
                 heals, faults>>

(* It connects, for the first time or again: the row gets the time of this. *)
Connect(g) ==
  /\ Serves(g) /\ file.gen = g
  /\ file' = [file EXCEPT !.row = g]
  /\ served' = served \union {g} /\ recent' = recent \union {g}
  /\ UNCHANGED <<owner, gen, alive, hung, asked, job, pc, locals, ghosts, others, heals, faults>>

(* It obeys a stop and says so in its record. *)
Leave(g) ==
  /\ Serves(g) /\ g \in asked
  /\ alive' = alive \ {g}
  /\ file' = IF file.gen = g THEN [file EXCEPT !.row = None] ELSE file
  /\ UNCHANGED <<owner, gen, hung, asked, job, served, recent, pc, locals, ghosts, others, heals,
                 faults>>

(* It dies and its record stays; a unit is started again. *)
Perish(g) ==
  /\ g \in alive /\ Fault
  /\ alive' = alive \ {g}
  /\ job' = (job \/ owner = "unit")
  /\ UNCHANGED <<owner, gen, hung, asked, file, served, recent, pc, locals, ghosts, others, heals>>

(* systemd starts the unit once the earlier life is over. *)
RunJob ==
  /\ job /\ alive = {} /\ gen < MaxGenerations
  /\ job' = FALSE /\ Boot
  /\ UNCHANGED <<owner, pc, locals, ghosts, others, heals, faults>>

(* hermes gateway status. *)
Healthy == alive \ hung # {}

(* read_gateway_runtime_generation: the recorded process, if it is that very process. *)
Recorded == IF file.gen \in alive THEN file.gen ELSE None

(* hermes gateway start: a supervisor starts what is down. *)
CliStart ==
  CASE owner = "unit"       ->
         job' = TRUE /\ UNCHANGED <<gen, alive, hung, asked, file, served, recent>>
    [] owner = "supervisor" -> IF alive = {} THEN NewLife ELSE UNCHANGED world
    [] OTHER                -> UNCHANGED world

-----------------------------------------------------------------------------
(* The deadline. *)

(* Waits before the paired start are cut off where the reserve begins, but nothing stops the clock:
   a process group that is slow to die, or a late wake-up, may use up the reserve as well. *)
Tick ==
  /\ pc \notin {"idle", "done"}
  /\ \/ clock = "ample" /\ clock' = "tight"
     \/ clock = "tight" /\ clock' = "over"
  /\ UNCHANGED <<owner, world, pc, before, after, failed, cancelled, known, handle, verdict,
                 ghosts, others, heals, faults>>

TimeLeft == clock # "over"

(* The main loop ends and cancels the command's task. *)
CancelTask ==
  /\ pc \notin {"idle", "done"} /\ ~cancelled
  /\ cancelled' = TRUE
  /\ UNCHANGED <<owner, world, pc, before, after, clock, failed, known, handle, verdict, ghosts,
                 others, heals, faults>>

Finish(v) == pc' = "done" /\ verdict' = IF cancelled THEN "cancelled" ELSE v
GoTo(p)   == pc' = p /\ UNCHANGED verdict

Begin ==
  /\ pc \in {"idle", "done"} /\ heals < MaxHeals
  /\ heals' = heals + 1
  /\ pc' = IF owner = "unit" THEN "discover" ELSE "read"
  /\ before' = None /\ after' = None /\ clock' = "ample" /\ failed' = FALSE
  /\ cancelled' = FALSE /\ known' = FALSE /\ handle' = None /\ verdict' = "none"
  /\ admitted' = FALSE /\ restarted' = FALSE /\ hit' = {} /\ recent' = {}
  /\ UNCHANGED <<owner, gen, alive, hung, asked, job, file, served, others, faults>>

(* Outside the protected steps a cancellation ends the command where it waits. *)
EndCancelled ==
  /\ cancelled
  /\ pc \in {"discover", "official", "settle", "rediscover", "verify", "probe", "confirm", "read",
             "admit"}
  /\ Finish("cancelled")
  /\ UNCHANGED <<owner, world, before, after, clock, failed, cancelled, known, handle, ghosts,
                 others, heals, faults>>

(* Mutant of WatchedSteps: the loop that waits for evidence has no deadline. *)
WatchedEarly == {"read", "admit"}

WatchedSteps == {"read", "admit", "verify", "probe", "confirm"}

Deadline ==
  /\ clock = "over" /\ pc \in WatchedSteps
  /\ Finish("unverified")
  /\ UNCHANGED <<owner, world, before, after, clock, failed, cancelled, known, handle, ghosts,
                 others, heals, faults>>

-----------------------------------------------------------------------------
(* The gateway is a systemd unit: official restart, then at most one kill and start. *)

UnitKeeps == UNCHANGED <<owner, clock, cancelled, known, handle, hit, others, heals>>

(* gateway_generation_changed and _same: a snapshot that was not read (None) is neither. *)
Changed(g)    == g # None /\ g # before
Snapshots     == {<<gen, FALSE>>, <<None, TRUE>>}
Taken(s)      == IF s[2] THEN Fault ELSE Fine
StoppedUnit   == alive = {}

DiscoverUnit ==
  /\ pc = "discover" /\ ~cancelled
  /\ \E s \in Snapshots :
       /\ Taken(s)
       /\ before' = s[1]
       /\ IF s[2] THEN Finish("unverified") ELSE GoTo("official")
  /\ UnitKeeps /\ UNCHANGED <<world, after, failed, admitted, restarted>>

(* The stop and start jobs outlive the command that asked for them and its time limit. *)
OfficialRestart ==
  /\ pc = "official" /\ ~cancelled
  /\ \/ asked' = asked \union alive /\ job' = TRUE /\ Fine
     \/ UNCHANGED <<asked, job>> /\ Fault
  /\ GoTo("settle")
  /\ UnitKeeps
  /\ UNCHANGED <<gen, alive, hung, file, served, recent, before, after, failed, admitted,
                 restarted>>

(* The first look after the restart. *)
Settle ==
  /\ pc = "settle" /\ ~cancelled
  /\ \E s \in Snapshots :
       /\ Taken(s)
       /\ after' = s[1]
       /\ GoTo(IF Changed(s[1]) /\ ~StoppedUnit THEN "verify" ELSE "rediscover")
  /\ UnitKeeps /\ UNCHANGED <<world, before, failed, admitted, restarted>>

(* The full reserve must be left for reset and start before anything is killed. *)
FallbackFits == clock = "ample"

(* A second look decides: a generation that came up meanwhile is left alone, one that is proven
   to be the old one, or a new one proven dead, is cycled once. *)
Rediscover ==
  /\ pc = "rediscover" /\ ~cancelled
  /\ \E s \in Snapshots :
       /\ Taken(s)
       /\ LET dead == Changed(after) /\ s[1] = after
              old  == ~Changed(after) /\ s[1] = before
          IN  IF s[2] THEN Finish("unverified") /\ UNCHANGED after
              ELSE /\ after' = s[1]
                   /\ IF (dead \/ old) /\ StoppedUnit
                      THEN IF FallbackFits THEN GoTo("pair") ELSE Finish("unverified")
                      ELSE IF old
                      THEN IF FallbackFits THEN GoTo("kill") ELSE Finish("unverified")
                      ELSE GoTo("verify")
  /\ UnitKeeps /\ UNCHANGED <<world, before, failed, admitted, restarted>>

(* Mutant of AfterKill: the kill is not protected against a cancellation. *)
CancelledKill == IF cancelled THEN Finish("cancelled") ELSE GoTo("raced")

AfterKill == GoTo(IF cancelled THEN "pair" ELSE "raced")

(* systemctl kill of the whole unit; its answer may be missed after it took effect. *)
Kill ==
  /\ pc = "kill"
  /\ admitted' = TRUE
  /\ \/ alive' = {} /\ Fine  /\ GoTo("pair")
     \/ alive' = {} /\ Fault /\ AfterKill
     \/ UNCHANGED alive /\ Fault /\ AfterKill
  /\ job' = (job \/ alive' # alive)
  /\ UnitKeeps
  /\ UNCHANGED <<gen, hung, asked, file, served, recent, before, after, failed, restarted>>

Raced ==
  /\ pc = "raced"
  /\ \E s \in Snapshots :
       /\ Taken(s)
       /\ after' = IF s[2] THEN after ELSE s[1]
       /\ GoTo(IF Changed(s[1]) /\ ~cancelled THEN "verify" ELSE "pair")
  /\ UnitKeeps /\ UNCHANGED <<world, before, failed, admitted, restarted>>

(* Reset and start, the shielded pair: a cancellation waits for its end. *)
Pair ==
  /\ pc = "pair"
  /\ restarted' = TRUE
  /\ \/ Fine /\ job' = TRUE /\ (IF cancelled THEN Finish("cancelled") ELSE GoTo("verify"))
     \/ Fault /\ UNCHANGED job /\ Finish("unverified")
  /\ UnitKeeps
  /\ UNCHANGED <<gen, alive, hung, asked, file, served, recent, before, after, failed, admitted>>

(* Until the deadline: a changed and active generation is probed. *)
Verify ==
  /\ pc = "verify" /\ ~cancelled /\ TimeLeft
  /\ IF owner = "unit"
     THEN Changed(gen) /\ gen \in alive /\ after' = gen
     ELSE Recorded \notin {None, before} /\ after' = Recorded
  /\ GoTo("probe")
  /\ UNCHANGED <<owner, world, before, clock, failed, cancelled, known, handle, ghosts, others,
                 heals, faults>>

-----------------------------------------------------------------------------
(* Evidence.  A row, a line of the journal or of the log counts when its writer is among the writers
   whose rows are young enough: any that wrote since the heal began for a unit, whoever it was, and
   the process itself where the row is compared with the start of the process. *)

(* _runtime_state_telegram_evidence: is the record of another process, it says nothing. *)
StateEvidence(g, writers) ==
  IF file.gen # g THEN "unknown" ELSE IF file.row \in writers THEN "connected" ELSE "no"

(* The journal of exactly this invocation, or the log that the foreground gateway appended. *)
OtherEvidence(g, writers) == IF g \in served \intersect writers THEN "connected" ELSE "no"

(* probe_functional_readiness. *)
Evidence(g, writers) ==
  LET state == StateEvidence(g, writers)
  IN  IF state # "unknown" THEN {state}
      ELSE IF owner = "unit" THEN {OtherEvidence(g, writers), "unknown"}
      ELSE {IF owner = "nobody" THEN OtherEvidence(g, writers) ELSE "unknown"}

(* Mutant of Writers: a row counts whenever it was written. *)
WritersEver == served

(* Whose rows are younger than since_unix. *)
Writers == IF owner = "unit" THEN recent ELSE {after}

(* A healthy unit without any evidence ends the heal; otherwise it looks again. *)
Probe ==
  /\ pc = "probe" /\ ~cancelled /\ TimeLeft
  /\ \E e \in Evidence(after, Writers) :
       IF Healthy /\ e = "connected" THEN GoTo("confirm")
       ELSE IF Healthy /\ e = "unknown" /\ owner = "unit" THEN Finish("unverified")
       ELSE GoTo("verify")
  /\ UNCHANGED <<owner, world, before, after, clock, failed, cancelled, known, handle, ghosts,
                 others, heals, faults>>

(* After the evidence was read the generation must still be the same, and alive. *)
Confirmed == IF owner = "unit" THEN gen = after /\ after \in alive ELSE Recorded = after

Confirm ==
  /\ pc = "confirm" /\ ~cancelled
  /\ \E blind \in BOOLEAN :
       /\ IF blind THEN Fault ELSE Fine
       /\ Finish(IF Confirmed /\ ~blind /\ (owner = "unit" => TimeLeft) THEN "verified"
                 ELSE "unverified")
  /\ UNCHANGED <<owner, world, before, after, clock, failed, cancelled, known, handle, ghosts,
                 others, heals>>

-----------------------------------------------------------------------------
(* No systemd: stop the recorded process, by signals to exactly it if need be, and start. *)

ManagedKeeps == UNCHANGED <<owner, clock, cancelled, others, heals>>

(* The recorded process and the answer of the status command. *)
ReadOld ==
  /\ pc = "read" /\ ~cancelled
  /\ \E blind \in BOOLEAN :
       /\ IF blind THEN Fault ELSE Fine
       /\ LET old == IF blind THEN None ELSE Recorded
          IN  /\ before' = old
              /\ IF old = None /\ (Healthy \/ alive # {})
                 THEN Finish("unverified")
                 ELSE GoTo("admit")
  /\ ManagedKeeps /\ UNCHANGED <<world, after, failed, known, handle, ghosts>>

StopFits == clock = "ample"

(* A process that is gone already needs no stop; one that was replaced is not ours to stop. *)
Admit ==
  /\ pc = "admit" /\ ~cancelled /\ TimeLeft
  /\ IF before = None \/ (before \notin alive /\ Recorded = None)
     THEN GoTo("paired") /\ UNCHANGED admitted
     ELSE IF Recorded # before \/ ~StopFits
     THEN Finish("unverified") /\ UNCHANGED admitted
     ELSE GoTo("stop") /\ admitted' = TRUE
  /\ ManagedKeeps
  /\ UNCHANGED <<world, before, after, failed, known, handle, restarted, hit, faults>>

(* Mutant of Protected: a cancelled stop ends at once. *)
Unprotected(p) == IF cancelled THEN Finish("cancelled") ELSE GoTo(p)

(* From here on a cancellation waits until it is clear whether the old process is gone. *)
Protected(p) == GoTo(IF cancelled THEN "reconcile" ELSE p)

Stop ==
  /\ pc = "stop"
  /\ \/ asked' = asked \union alive /\ Fine
     \/ UNCHANGED asked /\ Fault
  /\ Protected("wait")
  /\ ManagedKeeps
  /\ UNCHANGED <<gen, alive, hung, job, file, served, recent, before, after, failed, known, handle,
                 ghosts>>

(* gateway_runtime_generation_active: a live process may be unreadable. *)
Activity == IF before \in alive THEN {"yes", "unknown"} ELSE {"no"}

(* The grace period: gone, unreadable (then the start goes first and the command fails), or still
   there when the time is up; the next signal needs time before the reserve. *)
Await(next) ==
  \E a \in Activity :
    /\ IF a = "unknown" THEN Fault ELSE Fine
    /\ failed' = (failed \/ a = "unknown" \/ (a = "yes" /\ ~StopFits))
    /\ IF cancelled THEN GoTo("reconcile") ELSE GoTo(IF a = "yes" /\ StopFits THEN next ELSE "paired")

WaitForExit ==
  /\ pc = "wait" /\ Await("open")
  /\ ManagedKeeps /\ UNCHANGED <<world, before, after, known, handle, ghosts>>

(* The number of the process is opened: whoever has it now. *)
OpenHandle ==
  /\ pc = "open"
  /\ \/ /\ before \in alive
        /\ handle' = before /\ Protected("recheck")
     \/ /\ before \notin alive
        /\ handle' = Stranger /\ Protected("recheck")
     \/ /\ before \notin alive
        /\ UNCHANGED handle /\ Protected("paired")
  /\ ManagedKeeps /\ UNCHANGED <<world, before, after, failed, known, ghosts, faults>>

(* Mutant of Reconfirmed: the check before the number was opened is taken for good. *)
ReconfirmedBefore == TRUE

Reconfirmed == before \in alive /\ Recorded = before

(* The record and the process are read again once the handle is bound, and before the second
   signal. *)
Recheck ==
  /\ pc \in {"recheck", "recheck9"}
  /\ IF Reconfirmed
     THEN Protected(IF pc = "recheck" THEN "term" ELSE "kill9") /\ UNCHANGED failed
     ELSE Protected("paired") /\ failed' = (failed \/ before \in alive)
  /\ ManagedKeeps /\ UNCHANGED <<world, before, after, known, handle, ghosts, faults>>

(* A handle is bound to one process: it reaches that one or nobody. *)
Reached == IF handle \in alive \union {Stranger} THEN {handle} ELSE {}

Terminate ==
  /\ pc = "term"
  /\ hit' = hit \union Reached
  /\ asked' = asked \union (Reached \ {Stranger})
  /\ Protected("termwait")
  /\ ManagedKeeps
  /\ UNCHANGED <<gen, alive, hung, job, file, served, recent, before, after, failed, known,
                 handle, admitted, restarted, faults>>

WaitForTerm ==
  /\ pc = "termwait" /\ Await("recheck9")
  /\ ManagedKeeps /\ UNCHANGED <<world, before, after, known, handle, ghosts>>

KillExact ==
  /\ pc = "kill9"
  /\ hit' = hit \union Reached
  /\ \/ alive' = alive \ Reached /\ Fine /\ UNCHANGED failed
     \/ UNCHANGED alive /\ Fault /\ failed' = (failed \/ before \in alive)
  /\ Protected("paired")
  /\ ManagedKeeps
  /\ UNCHANGED <<gen, hung, asked, job, file, served, recent, before, after, known, handle,
                 admitted, restarted>>

(* A cancelled stop starts the gateway again when the old process is positively gone, and leaves
   everything alone when that cannot be told within the grace period. *)
Reconcile ==
  /\ pc = "reconcile"
  /\ \E a \in Activity :
       /\ IF a = "unknown" THEN Fault ELSE Fine
       /\ IF a = "no" /\ Recorded \in {None, before} THEN GoTo("paired") ELSE Finish("cancelled")
  /\ ManagedKeeps /\ UNCHANGED <<world, before, after, failed, known, handle, ghosts>>

-----------------------------------------------------------------------------
(* start_hermes, whose every leg is refused once the time is over: as the second half of the heal,
   and once as the bring-up. *)

AfterStart ==
  IF cancelled THEN Finish("cancelled") ELSE IF failed THEN Finish("unverified") ELSE GoTo("verify")

StartKeeps == UNCHANGED <<owner, before, after, clock, failed, cancelled, handle, admitted, hit,
                          others, heals>>

(* Only a process that is positively gone lets the start skip its own look. *)
PairedStart ==
  /\ pc = "paired"
  /\ IF TimeLeft
     THEN /\ known' = (before = None \/ before \notin alive)
          /\ GoTo(IF known' THEN "start" ELSE "precheck")
     ELSE Finish("unverified") /\ UNCHANGED known
  /\ StartKeeps /\ UNCHANGED <<world, restarted, faults>>

(* A status command that hangs is no healthy gateway; it may use up the time. *)
Precheck ==
  /\ pc = "precheck"
  /\ \/ Fine  /\ (IF Healthy /\ TimeLeft THEN AfterStart ELSE GoTo("start"))
     \/ Fault /\ GoTo("start")
  /\ StartKeeps /\ UNCHANGED <<world, known, restarted>>

StartLeg ==
  /\ pc = "start"
  /\ \/ TimeLeft /\ CliStart /\ Fine
     \/ TimeLeft /\ UNCHANGED world /\ Fault
     \/ ~TimeLeft /\ UNCHANGED world /\ Fine
  /\ restarted' = (TimeLeft /\ owner # "nobody")
  /\ IF TimeLeft THEN GoTo("foreground") ELSE AfterStart
  /\ StartKeeps /\ UNCHANGED known

(* Where nobody supervises the gateway it is run in the foreground; after a proven stop only if
   no other one has come up. *)
NeedsForeground(knownStopped) ==
  owner = "nobody" /\ (knownStopped => ~Healthy /\ Recorded = None)

ForegroundLeg ==
  /\ pc = "foreground"
  /\ IF TimeLeft /\ NeedsForeground(known) THEN NewLife ELSE UNCHANGED world
  /\ restarted' = (restarted \/ TimeLeft)
  /\ AfterStart
  /\ StartKeeps /\ UNCHANGED <<known, faults>>

Report(ready, g) == [ready |-> ready, gen |-> IF ready THEN g ELSE None]

BringUpKeeps == UNCHANGED <<owner, pc, locals, ghosts, heals>>

(* Once per life of the process, and not while a command runs. *)
BringUpBegins ==
  /\ bringup = "due" /\ pc \in {"idle", "done"}
  /\ bringup' = "precheck"
  /\ BringUpKeeps /\ UNCHANGED <<world, reported, faults>>

BringUpStarts ==
  /\ \/ /\ bringup = "precheck"
        /\ bringup' = IF Healthy THEN "told" ELSE "start"
        /\ UNCHANGED <<world, faults>>
     \/ /\ bringup = "start"
        /\ CliStart \/ UNCHANGED world
        /\ bringup' = "foreground" /\ Fine
  /\ BringUpKeeps /\ UNCHANGED reported

(* Its result says that the gateway runs, not that it is connected, and names no generation. *)
BringUpEnds ==
  /\ \/ /\ bringup = "foreground"
        /\ IF NeedsForeground(FALSE) THEN NewLife ELSE UNCHANGED world
     \/ bringup = "told" /\ UNCHANGED world
  /\ bringup' = "over"
  /\ reported' = Report(Healthy, None)
  /\ BringUpKeeps /\ UNCHANGED faults

-----------------------------------------------------------------------------
(* The heartbeat. *)

Found == IF owner = "unit" THEN gen ELSE Recorded

(* Mutant of ProofHolds: what was proved of one generation is believed of the next. *)
ProofInherited(g) == reported.ready

(* What was proved of a generation some time ago is taken over for the same one. *)
ProofHolds(g) == reported.ready /\ reported.gen = g

(* A proof may be too old to be taken over. *)
Inspect ==
  /\ \E old \in BOOLEAN, e \in IF Found = None THEN {"unknown"} ELSE Evidence(Found, {Found}) :
       reported' = Report(Healthy /\ ((Found # None /\ ProofHolds(Found) /\ ~old)
                                        \/ e = "connected"), Found)
  /\ UNCHANGED <<owner, world, pc, locals, ghosts, bringup, heals, faults>>

-----------------------------------------------------------------------------
UnitHeal ==
  DiscoverUnit \/ OfficialRestart \/ Settle \/ Rediscover \/ Kill \/ Raced \/ Pair
ManagedHeal ==
  \/ ReadOld \/ Admit \/ Stop \/ WaitForExit \/ OpenHandle \/ Recheck \/ Terminate
  \/ WaitForTerm \/ KillExact \/ Reconcile
Starting == PairedStart \/ Precheck \/ StartLeg \/ ForegroundLeg
Proving  == Verify \/ Probe \/ Confirm
Heal     == UnitHeal \/ ManagedHeal \/ Starting \/ Proving \/ EndCancelled \/ Deadline

Gateway ==
  \/ \E g \in Generations : WriteRecord(g) \/ Connect(g) \/ Leave(g) \/ Perish(g)
  \/ RunJob

Next ==
  \/ Gateway \/ Begin \/ Heal \/ Tick \/ CancelTask
  \/ BringUpBegins \/ BringUpStarts \/ BringUpEnds
  \/ Inspect

(* Time passes and calls return, each within its own limit. *)
Fairness == WF_vars(Heal) /\ WF_vars(Tick)

Spec == Init /\ [][Next]_vars /\ Fairness

-----------------------------------------------------------------------------
(* "Healed" is said of a generation that came after the one the command found and runs at that
   moment, and only on a row or a line that was written since the command began; where no systemd
   unit owns the gateway, by that generation itself. *)
VerifiedAfresh ==
  [][verdict' = "verified" /\ verdict # "verified" =>
       /\ after > before /\ after \in alive
       /\ \E g \in recent : g <= after
       /\ owner # "unit" => after \in recent]_vars

(* gateway_readiness.py:600-603, 640-643 say that no process inherits the row of its predecessor:
   the generation that is called healed is connected, or was. *)
VerifiedServed == verdict = "verified" => after \in served

(* Signals of the exact exit reach the process the command found and no other, though its number
   may be given to another program at any time. *)
SignalsOnlyOld == hit \subseteq {before}

(* Whoever kills a unit asks for its start, also when a call fails, an answer is missed, the time
   runs out or the command is cancelled half way, unless it saw a newer generation.  Elsewhere a stop
   that was admitted is followed by a start before the command ends, unless a gateway runs at its end
   or the deadline is over; then it does not say that it healed. *)
StopIsPaired ==
  [][pc # "done" /\ pc' = "done" /\ admitted' =>
       \/ restarted' \/ Changed(after')
       \/ owner # "unit" /\ (alive' # {} \/ (clock = "over" /\ verdict' # "verified"))]_vars

(* The heartbeat calls a generation ready only if that generation has been connected. *)
ReadyIsProven == reported.ready /\ reported.gen # None => reported.gen \in served

(* A heal ends: every loop of it watches the deadline or a grace period. *)
HealEnds == pc \notin {"idle", "done"} ~> pc = "done"
=============================================================================
