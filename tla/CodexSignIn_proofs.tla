-------------------------- MODULE CodexSignIn_proofs --------------------------
(***************************************************************************)
(* Proofs about CodexSignIn, for every set of callers, every number of     *)
(* workers and every bound on faults and kills.                            *)
(*                                                                         *)
(* ConnectedIsServed is not inductive: what the status says was true when  *)
(* the worker looked, and it has to stay true while other workers, the     *)
(* activation command and restarts change the stores.  It does, because    *)
(* the grant of Hermes is never older than one a worker obtained           *)
(* (GrantsGrow), and because the proof of a worker that restarted the      *)
(* gateway is not undone by a later restart (ProofKept).                   *)
(***************************************************************************)
EXTENDS CodexSignIn, TLAPS

USE DEF starting, stores, config, Workers, None, Grants, CallerSteps, WorkerSteps

-----------------------------------------------------------------------------
(* Types *)

(* The parts of TypeOK. *)
ProcessesTyped ==
  /\ caller \in [Callers -> CallerSteps] /\ lock \in {"absent", "fresh", "old"}
  /\ pidFile \in {None} \union Workers /\ reused \in BOOLEAN
  /\ worker \in [Workers -> WorkerSteps]
  /\ status \in [by : {None} \union Workers, state : {"none", "waiting", "failed", "connected"}]
  /\ legacy \in BOOLEAN
StoresTyped ==
  /\ cli \in Grants /\ hermes \in Grants /\ issued \in Grants
  /\ got \in [Workers -> Grants]
FlagsTyped == loose \in BOOLEAN /\ model \in BOOLEAN
GatewayTyped == served \in [grant : Grants, codex : BOOLEAN]

LEMMA TypeParts == TypeOK <=> ProcessesTyped /\ StoresTyped /\ FlagsTyped /\ GatewayTyped
  BY DEF TypeOK, ProcessesTyped, StoresTyped, FlagsTyped, GatewayTyped

LEMMA TypeInit == Init => TypeOK
<1>. SUFFICES ASSUME Init PROVE TypeOK
  OBVIOUS
<1>1. ProcessesTyped /\ StoresTyped
  BY CallersAssumption, LimitsAssumption DEF Init, ProcessesTyped, StoresTyped
<1>2. FlagsTyped
  BY DEF Init, FlagsTyped
<1>3. GatewayTyped
  BY DEF Init, GatewayTyped
<1>. QED BY <1>1, <1>2, <1>3, TypeParts

(* A gateway that starts reads what is configured then. *)
LEMMA FreshTyped ==
  ASSUME StoresTyped, FlagsTyped
  PROVE  /\ Fresh \in [grant : Grants, codex : BOOLEAN]
         /\ Fresh.grant = hermes /\ (model => Fresh.codex)
  BY DEF StoresTyped, FlagsTyped, Fresh

(* Which action writes what: presses and kills move processes, the rest is the workers', the
   activation's and the gateway's. *)
LEMMA ProcessesStep ==
  ASSUME ProcessesTyped, [Next]_vars
  PROVE  ProcessesTyped'
<1>. USE LimitsAssumption, CallersAssumption DEF ProcessesTyped
<1>1. ASSUME NEW c \in Callers, Press(c) \/ Call(c) \/ KillCaller(c) PROVE ProcessesTyped'
  <2>1. CASE Launch(c)
    <3>1. caller' \in [Callers -> CallerSteps] /\ lock' \in {"absent", "fresh", "old"}
      BY <2>1 DEF Launch, Steps
    <3>2. worker' \in [Workers -> WorkerSteps]
      BY <2>1 DEF Launch, Unused
    <3>. QED BY <2>1, <3>1, <3>2 DEF Launch, StartKeeps
  <2>2. CASE Press(c) \/ Look(c) \/ Claim(c) \/ BreakLock(c) \/ Reopen(c) \/ KillCaller(c)
    BY <2>2 DEF Press, Look, Claim, BreakLock, Reopen, KillCaller, Steps, StartKeeps
  <2>. QED BY <1>1, <2>1, <2>2 DEF Call
<1>2. ASSUME NEW w \in Workers, Work(w) \/ KillWorker(w) PROVE ProcessesTyped'
  <2>. USE DEF Goes, Says, WorkerKeeps
  <2>1. CASE WritePid(w) \/ KillWorker(w)
    BY <2>1 DEF WritePid, KillWorker
  <2>5. CASE Unlock(w)
    BY <2>5 DEF Unlock
  <2>2. CASE SendCode(w)
    BY <2>2 DEF SendCode
  <2>3. CASE Login(w)
    BY <2>3 DEF Login
  <2>4. CASE Picker(w) \/ Media(w)
    BY <2>4 DEF Picker, Media
  <2>6. CASE Restart(w) \/ Report(w)
    BY <2>6 DEF Restart, Report
  <2>. QED BY <1>2, <2>1, <2>2, <2>3, <2>4, <2>5, <2>6 DEF Work
<1>3. CASE Activate \/ Activation
  BY <1>3 DEF Activate, Activation, Notice, Switch, Imported, ConfigureMedia, ActivationRestart,
              ActivationKeeps, Activates, Steps
<1>4. CASE Age \/ LateLogin \/ GatewayRestarts \/ NumberTaken \/ NumberFree \/ UNCHANGED vars
  BY <1>4 DEF Age, LateLogin, GatewayRestarts, NumberTaken, NumberFree, StartKeeps, vars
<1>. QED BY <1>1, <1>2, <1>3, <1>4 DEF Next

LEMMA StoresStep ==
  ASSUME StoresTyped, [Next]_vars
  PROVE  StoresTyped'
<1>. USE DEF StoresTyped
<1>1. ASSUME NEW c \in Callers, Press(c) \/ Call(c) \/ KillCaller(c) PROVE StoresTyped'
  BY <1>1 DEF Press, Call, Look, Claim, BreakLock, Reopen, Launch, KillCaller, StartKeeps
<1>2. ASSUME NEW w \in Workers, Work(w) \/ KillWorker(w) PROVE StoresTyped'
  BY <1>2 DEF Work, WritePid, Unlock, SendCode, Login, Picker, Media, Restart, Report,
              KillWorker, Issue
<1>3. CASE Activate \/ Activation
  BY <1>3 DEF Activate, Activation, Notice, Switch, Imported, ConfigureMedia, ActivationRestart,
              ActivationKeeps
<1>4. CASE Age \/ LateLogin \/ GatewayRestarts \/ NumberTaken \/ NumberFree \/ UNCHANGED vars
  BY <1>4 DEF Age, LateLogin, GatewayRestarts, NumberTaken, NumberFree, StartKeeps, Issue, vars
<1>. QED BY <1>1, <1>2, <1>3, <1>4 DEF Next

LEMMA FlagsStep ==
  ASSUME FlagsTyped, [Next]_vars
  PROVE  FlagsTyped'
<1>. USE DEF FlagsTyped
<1>1. ASSUME NEW c \in Callers, Press(c) \/ Call(c) \/ KillCaller(c) PROVE FlagsTyped'
  BY <1>1 DEF Press, Call, Look, Claim, BreakLock, Reopen, Launch, KillCaller, StartKeeps
<1>2. ASSUME NEW w \in Workers, Work(w) \/ KillWorker(w) PROVE FlagsTyped'
  BY <1>2 DEF Work, WritePid, Unlock, SendCode, Login, Picker, Media, Restart, Report, KillWorker
<1>3. CASE Activate \/ Activation
  BY <1>3 DEF Activate, Activation, Notice, Switch, Imported, ConfigureMedia, ActivationRestart,
              ActivationKeeps
<1>4. CASE Age \/ LateLogin \/ GatewayRestarts \/ NumberTaken \/ NumberFree \/ UNCHANGED vars
  BY <1>4 DEF Age, LateLogin, GatewayRestarts, NumberTaken, NumberFree, StartKeeps, vars
<1>. QED BY <1>1, <1>2, <1>3, <1>4 DEF Next

LEMMA GatewayStep ==
  ASSUME GatewayTyped, StoresTyped, FlagsTyped, [Next]_vars
  PROVE  GatewayTyped'
<1>0. Fresh \in [grant : Grants, codex : BOOLEAN]
  BY FreshTyped
<1>. USE DEF GatewayTyped
<1>1. ASSUME NEW c \in Callers, Press(c) \/ Call(c) \/ KillCaller(c) PROVE GatewayTyped'
  BY <1>1 DEF Press, Call, Look, Claim, BreakLock, Reopen, Launch, KillCaller, StartKeeps
<1>2. ASSUME NEW w \in Workers, Work(w) \/ KillWorker(w) PROVE GatewayTyped'
  BY <1>0, <1>2 DEF Work, WritePid, Unlock, SendCode, Login, Picker, Media, Restart, Report,
                    KillWorker, RestartGateway
<1>3. CASE Activate \/ Activation
  BY <1>0, <1>3
     DEF Activate, Activation, Notice, Switch, Imported, ConfigureMedia, ActivationRestart,
         ActivationKeeps, RestartGateway
<1>4. CASE Age \/ LateLogin \/ GatewayRestarts \/ NumberTaken \/ NumberFree \/ UNCHANGED vars
  BY <1>0, <1>4 DEF Age, LateLogin, GatewayRestarts, NumberTaken, NumberFree, StartKeeps, vars
<1>. QED BY <1>1, <1>2, <1>3, <1>4 DEF Next

LEMMA TypeStep ==
  ASSUME TypeOK, [Next]_vars
  PROVE  TypeOK'
<1>1. ProcessesTyped' /\ StoresTyped' /\ FlagsTyped' /\ GatewayTyped'
  BY TypeParts, ProcessesStep, StoresStep, FlagsStep, GatewayStep
<1>. QED BY <1>1 DEF TypeOK, ProcessesTyped, StoresTyped, FlagsTyped, GatewayTyped

(* Every file, store and process keeps its type. *)
THEOREM TypeCorrect == Spec => []TypeOK
  BY TypeInit, TypeStep, PTL DEF Spec

-----------------------------------------------------------------------------
(* The inductive invariant *)

(* Grants are numbered as they are issued, and Hermes is never left with one that is older than
   what a worker obtained for it: a new sign-in replaces the grant, an import fills a gap only. *)
GrantsGrow ==
  /\ cli <= issued /\ hermes <= issued
  /\ \A w \in Workers : got[w] <= hermes

(* A worker comes to the restart only with a grant and with Codex as the model. *)
SignedIn(w) == model /\ got[w] # None

(* What the gateway was started with is at least what this worker obtained. *)
Serves(w) == served.codex /\ served.grant >= got[w]

ProofKept ==
  \A w \in Workers :
    /\ worker[w] \in {"media", "restart", "verified"} => SignedIn(w)
    /\ worker[w] = "verified" => Serves(w)

(* The status is the word of a worker that is done, whose sign-in nothing has undone. *)
ConnectedKept ==
  status.state = "connected" =>
    /\ status.by \in Workers /\ worker[status.by] = "ended"
    /\ SignedIn(status.by) /\ Serves(status.by)

IInv == TypeOK /\ GrantsGrow /\ ProofKept /\ ConnectedKept

USE DEF SignedIn, Serves

LEMMA SafetyInit == Init => IInv
  BY TypeInit DEF Init, IInv, GrantsGrow, ProofKept, ConnectedKept

(* What the steps below need of the types. *)
LEMMA Typed ==
  ASSUME TypeOK
  PROVE  /\ worker \in [Workers -> WorkerSteps]
         /\ StoresTyped /\ FlagsTyped
         /\ served.grant \in Nat
         /\ Fresh.grant = hermes /\ (model => Fresh.codex)
<1>1. StoresTyped /\ FlagsTyped /\ GatewayTyped /\ ProcessesTyped
  BY TypeParts
<1>. QED BY <1>1, FreshTyped DEF GatewayTyped, ProcessesTyped

(* A press changes no store, no gateway and no status; a worker that it launches is new. *)
LEMMA PressStep ==
  ASSUME IInv, NEW c \in Callers, Press(c) \/ Call(c) \/ KillCaller(c)
  PROVE  GrantsGrow' /\ ProofKept' /\ ConnectedKept'
<1>0. GrantsGrow /\ ProofKept /\ ConnectedKept /\ worker \in [Workers -> WorkerSteps]
  BY Typed DEF IInv
<1>1. CASE Launch(c)
  <2>1. GrantsGrow'
    BY <1>0, <1>1 DEF GrantsGrow, Launch, StartKeeps
  <2>2. ProofKept'
    BY <1>0, <1>1 DEF ProofKept, Launch, Unused, StartKeeps
  <2>3. ConnectedKept'
    BY <1>0, <1>1 DEF ConnectedKept, Launch, Unused, StartKeeps
  <2>. QED BY <2>1, <2>2, <2>3
<1>2. CASE Press(c) \/ Look(c) \/ Claim(c) \/ BreakLock(c) \/ Reopen(c) \/ KillCaller(c)
  BY <1>0, <1>2 DEF GrantsGrow, ProofKept, ConnectedKept, Press, Look, Claim, BreakLock, Reopen,
                    KillCaller, StartKeeps
<1>. QED BY <1>1, <1>2 DEF Call

(* A worker speaks for itself only, and signs Hermes in with the newest grant. *)
LEMMA WorkStep ==
  ASSUME IInv, NEW w \in Workers, Work(w) \/ KillWorker(w)
  PROVE  GrantsGrow' /\ ProofKept' /\ ConnectedKept'
<1>. USE DEF Goes, Says, WorkerKeeps
<1>0. /\ GrantsGrow /\ ProofKept /\ ConnectedKept /\ worker \in [Workers -> WorkerSteps]
      /\ StoresTyped /\ served.grant \in Nat
      /\ Fresh.grant = hermes /\ (model => Fresh.codex)
  BY Typed DEF IInv
<1>1. CASE WritePid(w) \/ Unlock(w) \/ SendCode(w) \/ Media(w) \/ KillWorker(w)
  <2>0. /\ worker[w] \notin {"none", "ended", "killed", "verified"} \/ KillWorker(w)
        /\ Lives(w)
        /\ \E s \in {"unlock", "login", "wait", "ended", "restart", "killed"} :
             Goes(w, s) /\ (s = "restart" => worker[w] = "media")
        /\ UNCHANGED status \/ status'.state # "connected"
        /\ UNCHANGED <<cli, hermes, issued, got, config>>
    BY <1>1 DEF WritePid, Unlock, SendCode, Media, KillWorker, Lives
  <2>1. GrantsGrow'
    BY <1>0, <2>0 DEF GrantsGrow
  <2>2. ProofKept'
    BY <1>0, <2>0 DEF ProofKept
  <2>3. ConnectedKept'
    BY <1>0, <2>0 DEF ConnectedKept, Lives
  <2>. QED BY <2>1, <2>2, <2>3
<1>2. CASE Login(w)
  <2>. USE <1>0, <1>2 DEF Login, Issue
  <2>1. GrantsGrow'
    BY DEF GrantsGrow, StoresTyped
  <2>2. ProofKept'
    BY DEF ProofKept
  <2>3. ConnectedKept'
    BY DEF ConnectedKept
  <2>. QED BY <2>1, <2>2, <2>3
<1>3. CASE Picker(w)
  <2>0. /\ worker[w] = "picker" /\ UNCHANGED <<cli, served>>
        /\ UNCHANGED status \/ status'.state # "connected"
    BY <1>3 DEF Picker
  <2>1. CASE /\ hermes' = issued + 1 /\ issued' = issued + 1 /\ got' = [got EXCEPT ![w] = issued + 1]
             /\ \/ model' = TRUE /\ Goes(w, "media")
                \/ UNCHANGED model /\ Goes(w, "ended")
    <3>0. /\ issued \in Nat /\ got \in [Workers -> Nat] /\ hermes \in Nat /\ cli \in Nat
          /\ worker \in [Workers -> WorkerSteps]
      BY <1>0 DEF StoresTyped
    <3>1. GrantsGrow'
      BY <1>0, <2>0, <2>1, <3>0 DEF GrantsGrow
    <3>2. ProofKept'
      <4>. SUFFICES ASSUME NEW v \in Workers
                    PROVE  /\ worker'[v] \in {"media", "restart", "verified"} => SignedIn(v)'
                           /\ worker'[v] = "verified" => Serves(v)'
        BY DEF ProofKept
      <4>1. CASE v = w
        <5>1. got'[v] # None
          BY <2>1, <3>0, <4>1
        <5>2. worker'[v] = "ended" \/ (worker'[v] = "media" /\ model' = TRUE)
          BY <2>1, <3>0, <4>1
        <5>. QED BY <5>1, <5>2
      <4>2. CASE v # w
        <5>1. worker'[v] = worker[v] /\ got'[v] = got[v]
          BY <2>1, <3>0, <4>2
        <5>2. model => model'
          BY <2>1, Zenon
        <5>. QED BY <1>0, <2>0, <5>1, <5>2 DEF ProofKept
      <4>. QED BY <4>1, <4>2
    <3>3. ConnectedKept'
      <4>. SUFFICES ASSUME status'.state = "connected" PROVE ConnectedKept'
        BY DEF ConnectedKept
      <4>1. /\ status' = status /\ status.by \in Workers /\ status.by # w
            /\ worker[status.by] = "ended" /\ model /\ got[status.by] # None
            /\ served' = served /\ Serves(status.by)
        BY <1>0, <2>0 DEF ConnectedKept
      <4>2. got'[status.by] = got[status.by] /\ worker'[status.by] = worker[status.by] /\ model'
        BY <1>0, <2>1, <3>0, <4>1
      <4>. QED BY <4>1, <4>2 DEF ConnectedKept
    <3>. QED BY <3>1, <3>2, <3>3
  <2>2. CASE Goes(w, "ended") /\ UNCHANGED <<hermes, got, model, issued>>
    BY <1>0, <2>0, <2>2 DEF GrantsGrow, ProofKept, ConnectedKept
  <2>. QED BY <1>3, <2>1, <2>2 DEF Picker, Issue
<1>4. CASE Restart(w)
  <2>. USE <1>0, <1>4 DEF Restart, RestartGateway
  <2>1. GrantsGrow'
    BY DEF GrantsGrow
  <2>2. ProofKept'
    BY DEF ProofKept, GrantsGrow, StoresTyped, Healthy
  <2>3. ConnectedKept'
    BY DEF ConnectedKept, GrantsGrow, StoresTyped
  <2>. QED BY <2>1, <2>2, <2>3
<1>5. CASE Report(w)
  <2>. USE <1>0, <1>5 DEF Report
  <2>1. GrantsGrow'
    BY DEF GrantsGrow
  <2>2. ProofKept'
    BY DEF ProofKept
  <2>3. ConnectedKept'
    BY DEF ConnectedKept, ProofKept
  <2>. QED BY <2>1, <2>2, <2>3
<1>. QED BY <1>1, <1>2, <1>3, <1>4, <1>5 DEF Work

(* The activation command never takes a grant from Hermes nor Codex from the models. *)
LEMMA ActivationStep ==
  ASSUME IInv, Activate \/ Activation
  PROVE  GrantsGrow' /\ ProofKept' /\ ConnectedKept'
<1>. USE DEF ActivationKeeps
<1>0. /\ GrantsGrow /\ ProofKept /\ ConnectedKept
      /\ StoresTyped /\ Fresh.grant = hermes /\ (model => Fresh.codex)
  BY Typed DEF IInv
<1>1. CASE Activate \/ Notice \/ ConfigureMedia
  BY <1>0, <1>1 DEF GrantsGrow, ProofKept, ConnectedKept, Activate, Notice, ConfigureMedia
<1>2. CASE Switch
  <2>. USE <1>0, <1>2 DEF Switch, Imported
  <2>1. GrantsGrow'
    BY DEF GrantsGrow, StoresTyped
  <2>2. ProofKept' /\ ConnectedKept'
    BY DEF ProofKept, ConnectedKept
  <2>. QED BY <2>1, <2>2
<1>3. CASE ActivationRestart
  <2>. USE <1>0, <1>3 DEF ActivationRestart, RestartGateway
  <2>1. GrantsGrow'
    BY DEF GrantsGrow
  <2>2. ProofKept' /\ ConnectedKept'
    BY DEF ProofKept, ConnectedKept, GrantsGrow, StoresTyped
  <2>. QED BY <2>1, <2>2
<1>. QED BY <1>1, <1>2, <1>3 DEF Activation

LEMMA OutsideStep ==
  ASSUME IInv, Age \/ LateLogin \/ GatewayRestarts \/ NumberTaken \/ NumberFree \/ UNCHANGED vars
  PROVE  GrantsGrow' /\ ProofKept' /\ ConnectedKept'
<1>0. /\ GrantsGrow /\ ProofKept /\ ConnectedKept
      /\ StoresTyped /\ Fresh.grant = hermes /\ (model => Fresh.codex)
  BY Typed DEF IInv
<1>1. CASE Age \/ NumberTaken \/ NumberFree \/ UNCHANGED vars
  BY <1>0, <1>1 DEF GrantsGrow, ProofKept, ConnectedKept, Age, NumberTaken, NumberFree,
                    StartKeeps, vars
<1>2. CASE LateLogin
  <2>1. GrantsGrow'
    BY <1>0, <1>2 DEF GrantsGrow, StoresTyped, LateLogin, Issue
  <2>2. ProofKept' /\ ConnectedKept'
    BY <1>0, <1>2 DEF ProofKept, ConnectedKept, LateLogin
  <2>. QED BY <2>1, <2>2
<1>3. CASE GatewayRestarts
  <2>1. GrantsGrow'
    BY <1>0, <1>3 DEF GrantsGrow, GatewayRestarts
  <2>2. ProofKept' /\ ConnectedKept'
    BY <1>0, <1>3 DEF ProofKept, ConnectedKept, GrantsGrow, StoresTyped, GatewayRestarts
  <2>. QED BY <2>1, <2>2
<1>. QED BY <1>1, <1>2, <1>3

(* IInv holds in every reachable state. *)
THEOREM Invariance == Spec => []IInv
<1>1. IInv /\ [Next]_vars => IInv'
  <2>. SUFFICES ASSUME IInv, [Next]_vars PROVE IInv'
    OBVIOUS
  <2>1. TypeOK'
    BY TypeStep DEF IInv
  <2>2. GrantsGrow' /\ ProofKept' /\ ConnectedKept'
    BY PressStep, WorkStep, ActivationStep, OutsideStep DEF Next
  <2>. QED BY <2>1, <2>2 DEF IInv
<1>. QED BY SafetyInit, <1>1, PTL DEF Spec

(* What the owner reads is true of the gateway: it answers with Codex and with the grant of this
   sign-in or a newer one, whoever works, restarts or dies in between. *)
THEOREM ConnectedServed == Spec => []ConnectedIsServed
<1>1. IInv => ConnectedIsServed
  BY DEF IInv, ConnectedKept, ConnectedIsServed
<1>. QED BY Invariance, <1>1, PTL
=============================================================================
