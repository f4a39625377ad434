----------------------------- MODULE CodexSignIn -----------------------------
(***************************************************************************)
(* The sign-in to OpenAI Codex that the owner starts from Telegram.  Each  *)
(* press is a short process: it looks for a running worker, claims a start *)
(* lock that expires after a minute, and has the user manager run a worker *)
(* outside the gateway.  The worker signs in the Codex CLI, then Hermes    *)
(* with a grant of its own, sets the models and restarts the gateway.      *)
(*                                                                         *)
(* activate_codex_auth_models does the same with the credentials it finds, *)
(* in the runtime and beside any worker; for a Computer that comes from    *)
(* OpenClaw it presses start itself.  A grant is a number, newer is        *)
(* greater; what the gateway uses is what it read when it last started.    *)
(***************************************************************************)
EXTENDS Integers

CONSTANTS
  Callers,     \* processes that press start: quick commands, and the runtime
  Runtime,     \* the caller that runs activate_codex_auth_models
  MaxWorkers,  \* bound: workers over time
  MaxFaults,   \* bound: failed launches, notices, switches and restarts
  MaxCuts      \* bound: killed processes, and process numbers used again

ASSUME CallersAssumption == Runtime \in Callers
ASSUME LimitsAssumption  == MaxWorkers \in Nat \ {0} /\ MaxFaults \in Nat /\ MaxCuts \in Nat

Workers == 1..MaxWorkers
None    == 0
Grants  == Nat

VARIABLES
  caller,    \* the step of each process that presses start
  lock,      \* worker.starting: absent, younger or older than a minute
  pidFile,   \* worker.pid: the worker it names
  reused,    \* the number in worker.pid is that of another program now
  worker,    \* the step of each worker
  status,    \* status.json: its writer and its state
  cli, hermes,   \* the grants in the stores of the Codex CLI and of Hermes
  got,           \* the grant each worker obtained for Hermes
  loose,         \* a login of the CLI that its worker has given up still waits for the owner
  model,         \* Hermes is configured for Codex
  served,        \* what the gateway uses: its grant and whether Codex is its model
  legacy,        \* this Computer had an OpenAI login under OpenClaw
  issued, faults, cuts

starting == <<caller, lock>>
stores   == <<cli, hermes, issued, loose>>
config   == <<model, served>>
vars     == <<starting, pidFile, reused, worker, status, stores, got, config, legacy, faults, cuts>>

CallerSteps == {"idle", "look", "claim", "aged", "reopen", "launch",
                "notice", "picker", "media", "gateway"}
WorkerSteps == {"none", "pid", "unlock", "login", "wait", "picker", "media", "restart", "verified",
                "unverified", "ended", "killed"}

TypeOK ==
  /\ caller \in [Callers -> CallerSteps] /\ lock \in {"absent", "fresh", "old"}
  /\ pidFile \in {None} \union Workers /\ reused \in BOOLEAN
  /\ worker \in [Workers -> WorkerSteps]
  /\ status \in [by : {None} \union Workers, state : {"none", "waiting", "failed", "connected"}]
  /\ cli \in Grants /\ hermes \in Grants /\ got \in [Workers -> Grants]
  /\ loose \in BOOLEAN /\ model \in BOOLEAN /\ served \in [grant : Grants, codex : BOOLEAN]
  /\ legacy \in BOOLEAN /\ issued \in Grants

Init ==
  /\ caller = [c \in Callers |-> "idle"] /\ lock = "absent" /\ pidFile = None /\ reused = FALSE
  /\ worker = [w \in Workers |-> "none"] /\ status = [by |-> None, state |-> "none"]
  /\ cli = None /\ hermes = None /\ got = [w \in Workers |-> None] /\ loose = FALSE
  /\ model = FALSE /\ served = [grant |-> None, codex |-> FALSE] /\ legacy \in BOOLEAN
  /\ issued = 0 /\ faults = 0 /\ cuts = 0

Fault == faults < MaxFaults /\ faults' = faults + 1
CutOff == cuts < MaxCuts /\ cuts' = cuts + 1
Fine  == UNCHANGED faults

-----------------------------------------------------------------------------
(* A press of start. *)

Lives(w)  == worker[w] \notin {"none", "ended", "killed"}
Unused    == {w \in Workers : worker[w] = "none"}

(* kill(pid, 0) also finds another program with the number of a worker that is gone. *)
Running == pidFile # None /\ (Lives(pidFile) \/ reused)

Steps(c, s) == caller' = [caller EXCEPT ![c] = s]
StartKeeps  == UNCHANGED <<pidFile, reused, status, stores, got, config, legacy, cuts>>

Press(c) ==
  /\ caller[c] = "idle" /\ Unused # {}
  /\ Steps(c, "look")
  /\ StartKeeps /\ UNCHANGED <<lock, worker, faults>>

Look(c) ==
  /\ caller[c] = "look"
  /\ Steps(c, IF Running THEN "idle" ELSE "claim")
  /\ StartKeeps /\ UNCHANGED <<lock, worker, faults>>

(* Mutant of Expired: a start lock stays until somebody removes it. *)
NeverExpires == FALSE

Expired == lock = "old"

(* O_CREAT | O_EXCL; a lock of more than a minute is removed and created again, in two calls. *)
Claim(c) ==
  /\ caller[c] = "claim"
  /\ IF lock = "absent" THEN lock' = "fresh" /\ Steps(c, "launch")
     ELSE UNCHANGED lock /\ Steps(c, IF Expired THEN "aged" ELSE "idle")
  /\ StartKeeps /\ UNCHANGED <<worker, faults>>

BreakLock(c) ==
  /\ caller[c] = "aged"
  /\ lock' = "absent"
  /\ Steps(c, IF lock = "absent" THEN "idle" ELSE "reopen")
  /\ StartKeeps /\ UNCHANGED <<worker, faults>>

Reopen(c) ==
  /\ caller[c] = "reopen"
  /\ IF lock = "absent" THEN lock' = "fresh" /\ Steps(c, "launch")
     ELSE UNCHANGED lock /\ Steps(c, "idle")
  /\ StartKeeps /\ UNCHANGED <<worker, faults>>

(* systemd-run may fail, or its answer may come too late: the lock is released although the
   worker starts. *)
Launch(c) ==
  /\ caller[c] = "launch"
  /\ Steps(c, "idle")
  /\ \/ /\ Unused # {} /\ \E w \in Unused :
             worker' = [worker EXCEPT ![w] = "pid"] /\ \A u \in Unused : w <= u
        /\ \/ UNCHANGED lock /\ Fine
           \/ lock' = "absent" /\ Fault
     \/ UNCHANGED worker /\ lock' = "absent" /\ Fault
     \/ Unused = {} /\ UNCHANGED worker /\ lock' = "absent" /\ Fine
  /\ StartKeeps

Age ==
  /\ lock = "fresh" /\ lock' = "old"
  /\ StartKeeps /\ UNCHANGED <<caller, worker, faults>>

-----------------------------------------------------------------------------
(* The worker. *)

Goes(w, s)  == worker' = [worker EXCEPT ![w] = s]
Says(w, s)  == status' = [by |-> w, state |-> s]
WorkerKeeps == UNCHANGED <<caller, reused, legacy, cuts>>
Issue       == issued' = issued + 1

WritePid(w) ==
  /\ worker[w] = "pid"
  /\ pidFile' = w /\ reused' = FALSE /\ Goes(w, "unlock")
  /\ UNCHANGED <<caller, lock, status, stores, got, config, legacy, faults, cuts>>

(* Whoever's lock it is by now. *)
Unlock(w) ==
  /\ worker[w] = "unlock"
  /\ lock' = "absent" /\ Goes(w, "login") /\ Says(w, "waiting")
  /\ WorkerKeeps /\ UNCHANGED <<pidFile, stores, got, config, faults>>

(* The CLI is started, and its link and code are sent to the owner.  When sending raises, the login
   is given up and goes on by itself. *)
SendCode(w) ==
  /\ worker[w] = "login"
  /\ \/ Goes(w, "wait") /\ UNCHANGED <<status, loose>> /\ Fine
     \/ loose' = TRUE /\ Goes(w, "ended") /\ Says(w, "failed") /\ Fault
  /\ WorkerKeeps /\ UNCHANGED <<lock, pidFile, cli, hermes, issued, got, config>>

(* A fresh grant for the CLI, whatever it says of an old one, if the owner enters the code. *)
Login(w) ==
  /\ worker[w] = "wait"
  /\ \/ /\ Issue /\ cli' = issued + 1
        /\ Goes(w, "picker") /\ Says(w, "waiting")
     \/ Goes(w, "ended") /\ Says(w, "failed") /\ UNCHANGED <<cli, issued>>
  /\ WorkerKeeps /\ UNCHANGED <<lock, pidFile, hermes, loose, got, config, faults>>

LateLogin ==
  /\ loose /\ loose' = FALSE
  /\ Issue /\ cli' = issued + 1
  /\ UNCHANGED <<starting, pidFile, reused, worker, status, hermes, got, config, legacy, faults, cuts>>

(* The model picker of Hermes with a new sign-in: it may stop before the sign-in, or between it and
   the choice of the model. *)
Picker(w) ==
  /\ worker[w] = "picker"
  /\ \/ /\ Issue /\ hermes' = issued + 1 /\ got' = [got EXCEPT ![w] = issued + 1]
        /\ \/ model' = TRUE /\ Goes(w, "media") /\ UNCHANGED status /\ Fine
           \/ UNCHANGED model /\ Goes(w, "ended") /\ Says(w, "failed") /\ Fault
     \/ /\ Goes(w, "ended") /\ Says(w, "failed")
        /\ UNCHANGED <<hermes, got, model, issued>> /\ Fine
  /\ WorkerKeeps /\ UNCHANGED <<lock, pidFile, cli, loose, served>>

(* The voice and image models are set as far as it goes; a failure is only mentioned. *)
Media(w) ==
  /\ worker[w] = "media" /\ Goes(w, "restart")
  /\ WorkerKeeps /\ UNCHANGED <<lock, pidFile, status, stores, got, config, faults>>

Fresh == [grant |-> hermes, codex |-> model]

(* heal_hermes: a new gateway is verified, or not, or the old one goes on. *)
RestartGateway(outcome) ==
  \/ outcome = "verified" /\ served' = Fresh /\ Fine
  \/ outcome = "unverified" /\ served' = Fresh /\ Fault
  \/ outcome = "kept" /\ UNCHANGED served /\ Fault

(* Mutant of Healthy: any healthy gateway will do, also the one that was to be replaced. *)
AnyHealthy(outcome) == outcome \in {"verified", "kept"}

Healthy(outcome) == outcome = "verified"

Restart(w) ==
  /\ worker[w] = "restart"
  /\ \E o \in {"verified", "unverified", "kept"} :
       RestartGateway(o) /\ Goes(w, IF Healthy(o) THEN "verified" ELSE "unverified")
  /\ WorkerKeeps /\ UNCHANGED <<lock, pidFile, status, stores, got, model>>

Report(w) ==
  /\ worker[w] \in {"verified", "unverified"}
  /\ Goes(w, "ended") /\ Says(w, IF worker[w] = "verified" THEN "connected" ELSE "failed")
  /\ WorkerKeeps /\ UNCHANGED <<lock, pidFile, stores, got, config, faults>>

Work(w) ==
  WritePid(w) \/ Unlock(w) \/ SendCode(w) \/ Login(w) \/ Picker(w) \/ Media(w) \/ Restart(w) \/ Report(w)

-----------------------------------------------------------------------------
(* activate_codex_auth_models, in the runtime. *)

ActivationKeeps == UNCHANGED <<lock, pidFile, reused, worker, status, cli, issued, loose, got,
                               legacy, cuts>>
Activates(s) == Steps(Runtime, s)

(* Both tools also report a login whose grant has been revoked. *)
HermesSignedIn == hermes # None
CliSignedIn    == cli # None

(* A login that either tool reports is used; otherwise a login of OpenClaw leads to a new one,
   announced unless a worker runs. *)
Activate ==
  /\ caller[Runtime] = "idle"
  /\ IF HermesSignedIn \/ CliSignedIn THEN Activates("picker")
     ELSE legacy /\ Unused # {} /\ Activates(IF Running THEN "look" ELSE "notice")
  /\ ActivationKeeps /\ UNCHANGED <<hermes, config, faults>>

Notice ==
  /\ caller[Runtime] = "notice"
  /\ \/ Activates("look") /\ Fine
     \/ Activates("idle") /\ Fault
  /\ ActivationKeeps /\ UNCHANGED <<hermes, config>>

(* The picker imports the grant of the CLI only when Hermes has none; it may stop before that,
   between the import and the choice of the model, or after both. *)
Imported == IF hermes = None THEN cli ELSE hermes

Switch ==
  /\ caller[Runtime] = "picker"
  /\ \/ hermes' = Imported /\ model' = TRUE /\ Activates("media") /\ Fine
     \/ /\ \/ hermes' \in {hermes, Imported} /\ UNCHANGED model
           \/ hermes' = Imported /\ model' = TRUE
        /\ Activates("idle") /\ Fault
  /\ ActivationKeeps /\ UNCHANGED served

(* Here a failure ends the command, with the model switched; a restart is optional. *)
ConfigureMedia ==
  /\ caller[Runtime] = "media"
  /\ Activates("idle") \/ Activates("gateway")
  /\ ActivationKeeps /\ UNCHANGED <<hermes, config, faults>>

ActivationRestart ==
  /\ caller[Runtime] = "gateway" /\ Activates("idle")
  /\ \E o \in {"verified", "unverified", "kept"} : RestartGateway(o)
  /\ ActivationKeeps /\ UNCHANGED <<hermes, model>>

-----------------------------------------------------------------------------
(* Outside. *)

(* The gateway is also restarted by others. *)
GatewayRestarts ==
  /\ served # Fresh /\ served' = Fresh
  /\ UNCHANGED <<starting, pidFile, reused, worker, status, stores, got, model, legacy, faults, cuts>>

KillCaller(c) ==
  /\ caller[c] # "idle" /\ CutOff /\ Steps(c, "idle")
  /\ UNCHANGED <<lock, pidFile, reused, worker, status, stores, got, config, legacy, faults>>

KillWorker(w) ==
  /\ Lives(w) /\ CutOff /\ Goes(w, "killed")
  /\ UNCHANGED <<starting, pidFile, reused, status, stores, got, config, legacy, faults>>

NumberTaken ==
  /\ pidFile # None /\ ~Lives(pidFile) /\ ~reused /\ CutOff /\ reused' = TRUE
  /\ UNCHANGED <<starting, pidFile, worker, status, stores, got, config, legacy, faults>>

NumberFree ==
  /\ reused /\ reused' = FALSE
  /\ UNCHANGED <<starting, pidFile, worker, status, stores, got, config, legacy, faults, cuts>>

-----------------------------------------------------------------------------
Call(c) == Look(c) \/ Claim(c) \/ BreakLock(c) \/ Reopen(c) \/ Launch(c)
Activation == Notice \/ Switch \/ ConfigureMedia \/ ActivationRestart

Next ==
  \/ \E c \in Callers : Press(c) \/ Call(c) \/ KillCaller(c)
  \/ Activate \/ Activation
  \/ \E w \in Workers : Work(w) \/ KillWorker(w)
  \/ Age \/ LateLogin \/ GatewayRestarts \/ NumberTaken \/ NumberFree

(* A process that runs goes on, time passes, and the owner presses again.  Nothing says that a
   program which took the number of a worker ever ends. *)
Fairness ==
  /\ WF_vars(\E c \in Callers : Call(c)) /\ WF_vars(Activation)
  /\ WF_vars(\E c \in Callers \ {Runtime} : Press(c))
  /\ WF_vars(Age)

Spec == Init /\ [][Next]_vars /\ Fairness

-----------------------------------------------------------------------------
(* While the status says connected, the gateway answers with Codex and with the grant that this
   sign-in obtained for Hermes, or a newer one: never with the revoked grant the owner came to
   replace, although other workers, the activation command and restarts come between. *)
ConnectedIsServed ==
  status.state = "connected" =>
    served.codex /\ got[status.by] # None /\ served.grant >= got[status.by]

(* Whatever is killed between the look, the lock and the worker, an owner who presses again gets a
   worker in the end: no lock is left that refuses every press, and a number in worker.pid does so
   only while another program has it. *)
NobodyWorks    == Unused # {} /\ \A w \in Workers : ~Lives(w)
StartRecovers  == NobodyWorks ~> ~NobodyWorks \/ reused

(* The claim without the exception: "run /codex_auth to try again". *)
PressingHelps == NobodyWorks ~> ~NobodyWorks
=============================================================================
