----------------------------- MODULE TurnLedger -----------------------------
(***************************************************************************)
(* What a native channel receiver promises about the updates it accepts,    *)
(* whatever happens to its process: an update is waiting, then at most once *)
(* running, then settled for ever; its task is chosen once, before it runs; *)
(* updates of one task never run together, and no more than Width updates   *)
(* run at once.  ChannelReceiver implements this specification.             *)
(***************************************************************************)
EXTENDS FiniteSets, Naturals

CONSTANTS
  Updates,  \* accepted provider updates
  Hosts,    \* tasks
  NoHost,
  Width     \* turns that may run at once

VARIABLES
  turn,     \* life of an update
  host      \* its task

vars == <<turn, host>>

Running == {u \in Updates : turn[u] = "running"}

Init ==
  /\ turn = [u \in Updates |-> "absent"]
  /\ host = [u \in Updates |-> NoHost]

Accept(u) ==
  /\ turn[u] = "absent"
  /\ turn' = [turn EXCEPT ![u] = "waiting"]
  /\ UNCHANGED host

Assign(u, h) ==
  /\ turn[u] = "waiting" /\ host[u] = NoHost
  /\ host' = [host EXCEPT ![u] = h]
  /\ UNCHANGED turn

\* An update that belongs to no task is settled without a turn.
Drop(u) ==
  /\ turn[u] = "waiting" /\ host[u] = NoHost
  /\ turn' = [turn EXCEPT ![u] = "settled"]
  /\ UNCHANGED host

Dispatch(u) ==
  /\ turn[u] = "waiting" /\ host[u] \in Hosts
  /\ \A v \in Running : host[v] # host[u]
  /\ Cardinality(Running) < Width
  /\ turn' = [turn EXCEPT ![u] = "running"]
  /\ UNCHANGED host

Settle(u) ==
  /\ turn[u] = "running"
  /\ turn' = [turn EXCEPT ![u] = "settled"]
  /\ UNCHANGED host

\* What ran when the process died is not run again.
Recover ==
  /\ turn' = [u \in Updates |-> IF u \in Running THEN "settled" ELSE turn[u]]
  /\ UNCHANGED host

Next ==
  \/ \E u \in Updates :
       \/ Accept(u) \/ Drop(u) \/ Dispatch(u) \/ Settle(u)
       \/ \E h \in Hosts : Assign(u, h)
  \/ Recover

Spec == Init /\ [][Next]_vars

=============================================================================
