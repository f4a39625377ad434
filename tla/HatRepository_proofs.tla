------------------------- MODULE HatRepository_proofs -------------------------
(***************************************************************************)
(* Proofs about HatRepository, for any number of processes, clones,        *)
(* commits and faults.                                                     *)
(*                                                                         *)
(* IInv has two halves.  For deletion: what a call has validated, and what *)
(* the journal names, is a clone of ours (DeletesOurs).  For sync: history *)
(* only grows (Ancestry), a marked commit stands on what the remote branch *)
(* has already (MarkedOnTop), each step of a sync knows what the marker of *)
(* its clone says (SyncKnows), a commit that the branch has, or that is    *)
(* still on its way to it, is recorded, marked or taken back               *)
(* (LiveIsPending), and what a commit that was taken back has changed      *)
(* stays in its clone (UndoneKept).                                        *)
(***************************************************************************)
EXTENDS HatRepository, TLAPS

-----------------------------------------------------------------------------
(* The inductive invariant *)

Newest == First + commits
Line(c) == past[c] \union {c}

SyncSteps == {"resume", "repush", "fetch", "commit", "mark", "marked", "push", "check", "restore",
              "record", "unmark", "unmarked"}

(* The holder of the lock runs the steps of its own operation. *)
Held ==
  /\ pc # "idle" => lock \in Procs /\ Op \in Ops
  /\ pc \in SyncSteps => Op = "sync" /\ Target \in Clones
  /\ pc \in {"reconcile", "clone", "disable", "enable", "refresh"} => Op \in {"checkout", "sync"}
  /\ pc = "enable" => Target \in Clones

(* The names lead to clones of ours, or to another's directory, which is never under the staging
   name. *)
NamesKept ==
  /\ at["staging"] \in Clones \union {None}
  /\ at["staging"] # None => tree[at["staging"]] = "cloning"
  /\ \A n \in {"target", "quarantine"} : at[n] # None => tree[at[n]] \notin {"unused", "cloning"}
  /\ pc = "clone" /\ at["staging"] = None => \E t \in Clones : tree[t] = "unused"

(* Whatever is to be emptied was validated as a clone of ours. *)
DeletesOurs ==
  /\ tree[Foreign] = "whole"
  /\ journal # NoJournal => journal.tree \in Clones
  /\ pc = "inspect" => seen \in Clones \/ Target \notin Clones
  /\ pc \in {"recheck", "quarantine", "compare", "phase", "open", "empty"} => seen \in Clones
  /\ pc \in {"open", "empty", "rmdir", "removed"} => journal.tree \in Clones

(* Commits are numbered as they are made; a history goes back to the first. *)
Ancestry ==
  /\ remote <= Newest /\ \A c \in inflight : c <= Newest
  /\ \A t \in Clones : head[t] <= Newest /\ marker[t].head <= Newest
  /\ \A c \in Commits : \A d \in past[c] : d < c /\ c <= Newest /\ past[d] \subseteq past[c]
  /\ \A c \in Commits : origin[c] # None =>
       c <= Newest /\ tree[origin[c]] \notin {"unused", "cloning"}

(* Below a marked commit is only what the remote branch has. *)
MarkedOnTop ==
  /\ \A t \in Clones : marker[t].set = "whole" =>
       /\ marker[t].head \in Commits /\ past[marker[t].head] \subseteq Line(remote)
       /\ origin[marker[t].head] = t
  /\ pc \in {"commit", "mark", "marked"} => head[Target] \in Commits
  /\ pc \in {"mark", "marked"} => origin[head[Target]] = Target
  /\ pc = "commit" => Line(head[Target]) \subseteq Line(remote)
  /\ pc \in {"mark", "marked"} => past[head[Target]] \subseteq Line(remote)

(* The commits that the branch has, or may come to have without another push. *)
Live == {d \in Commits : d \in Line(remote) \/ \E c \in inflight : d \in Line(c)}

(* What a sync knows of the marker of its clone. *)
SyncKnows ==
  /\ pc \in {"fetch", "commit", "mark"} => Mine.set = "none"
  /\ pc = "marked" => Mine.set = "torn"
  /\ pc \in {"mark", "marked"} => base \in past[head[Target]]
  /\ pc \in {"repush", "push", "check", "restore", "record", "unmark"} => Mine.set = "whole"
  /\ pc \in {"repush", "push", "check", "restore"} => head[Target] = Mine.head
  /\ pc \in {"push", "check", "restore"} => base \in past[Mine.head]
  /\ pc \in {"unmark", "unmarked"} => Mine.head \in recorded \union undone

LiveIsPending ==
  \A c \in Live \ (recorded \union undone) :
    origin[c] # None /\ tree[origin[c]] = "whole" =>
      marker[origin[c]].set = "whole" /\ marker[origin[c]].head = c

(* A commit that was taken back: its changes are in the worktree, or in a later commit. *)
UndoneKept ==
  \A c \in undone :
    /\ c \in Commits /\ origin[c] \in Clones /\ tree[origin[c]] \notin {"unused", "cloning"}
    /\ tree[origin[c]] = "whole" => dirty[origin[c]] \/ head[origin[c]] > c

IInv ==
  /\ TypeOK /\ Held /\ NamesKept /\ DeletesOurs /\ Ancestry /\ MarkedOnTop /\ SyncKnows /\ LiveIsPending
  /\ UndoneKept

-----------------------------------------------------------------------------
(* Types *)

USE DEF locals, calls, trees, hub, None, First, Paths, Target, Mine, Present, At, Op

Ledger == <<head, marker, remote, inflight, past, origin, recorded, undone, commits>>

CallTyped ==
  /\ call \in [Procs -> {"none", "prepared", "found"} \union Ops] /\ lock \in Procs \union {Nobody}
  /\ pc \in Steps /\ retried \in BOOLEAN
TreeTyped ==
  /\ seen \in {None} \union Trees /\ at \in [Paths -> {None} \union Trees]
  /\ tree \in [Trees -> {"unused", "cloning", "whole", "partial", "empty", "gone"}]
  /\ journal \in Journal
FlagTyped ==
  /\ helper \in [Trees -> BOOLEAN] /\ known \in [Trees -> BOOLEAN] /\ dirty \in [Trees -> BOOLEAN]
  /\ grant \in BOOLEAN
LedgerTyped ==
  /\ base \in {None} \union Commits /\ head \in [Trees -> {None} \union Commits]
  /\ marker \in [Trees -> Marker] /\ remote \in Commits /\ inflight \subseteq Commits
  /\ past \in [Commits -> SUBSET Commits] /\ origin \in [Commits -> {None} \union Clones]
  /\ recorded \subseteq Commits /\ undone \subseteq Commits /\ commits \in 0..MaxCommits

LEMMA TypeParts == TypeOK <=> CallTyped /\ TreeTyped /\ FlagTyped /\ LedgerTyped
  BY DEF TypeOK, CallTyped, TreeTyped, FlagTyped, LedgerTyped

LEMMA Numbers ==
  /\ MaxTrees \in Nat /\ MaxTrees > 0 /\ MaxCommits \in Nat
  /\ Commits \subseteq Nat /\ 1 \in Commits /\ 0 \notin Commits /\ Clones \subseteq Nat
  /\ 0 \notin Clones /\ 0 \notin Trees /\ Foreign \notin Clones /\ Foreign \in Trees
  /\ Clones \subseteq Trees /\ (\A t \in Trees : t \notin Clones => t = Foreign)
  BY LimitsAssumption DEF Commits, Clones, Trees, Foreign

LEMMA TypeInit == Init => TypeOK
<1>. SUFFICES ASSUME Init PROVE TypeOK
  OBVIOUS
<1>1. CallTyped
  BY DEF Init, CallTyped, Steps
<1>2. TreeTyped
  BY Numbers DEF Init, TreeTyped, Journal, NoJournal
<1>3. FlagTyped
  BY DEF Init, FlagTyped
<1>4. LedgerTyped
  <2>1. NoMarker \in Marker
    BY DEF NoMarker, Marker
  <2>. QED BY <2>1, Numbers DEF Init, LedgerTyped
<1>. QED BY <1>1, <1>2, <1>3, <1>4, TypeParts

(* The end of a call. *)
LEMMA EndTyped ==
  ASSUME CallTyped, End
  PROVE  CallTyped' /\ pc' = "idle" /\ seen' = None /\ base' = None
  BY DEF CallTyped, End, Steps

LEMMA CallStep ==
  ASSUME CallTyped, [Next]_vars
  PROVE  CallTyped'
<1>. USE DEF CallTyped, Steps, Goes, Sees
<1>0. End => CallTyped'
  BY EndTyped
<1>1. ASSUME NEW p \in Procs, Prepare(p) \/ Find(p) PROVE CallTyped'
  BY <1>1 DEF Prepare, Find
<1>2. ASSUME NEW p \in Procs, NEW o \in Ops, Acquire(p, o) PROVE CallTyped'
  BY <1>2 DEF Acquire, FirstStep, Ops
<1>3. CASE Checkout
  BY <1>0, <1>3 DEF Checkout, Reconcile, Clone, Disable, Enable, Refresh
<1>4. CASE Resume \/ Fetch \/ Commit \/ Mark
  BY <1>0, <1>4 DEF Resume, Fetch, Commit, Mark, TakenUp
<1>5. CASE Repush \/ Push
  BY <1>0, <1>5 DEF Repush, Push, Pushes
<1>6. CASE Check \/ Restore \/ Record \/ Unmark
  BY <1>0, <1>6 DEF Check, Restore, Record, Unmark, Outcome, AfterRecord
<1>7. CASE Reset \/ Revoke
  BY <1>0, <1>7 DEF Reset, Revoke
<1>8. CASE ReadJournal
  BY <1>0, <1>8 DEF ReadJournal, BeginDeletion, ResumesAt
<1>9. CASE Inspect \/ RecheckTree \/ Quarantine \/ Compare \/ WritePhase
  BY <1>0, <1>9 DEF Inspect, RecheckTree, Quarantine, Compare, WritePhase, PutBack
<1>10. CASE Open \/ Empty
  BY <1>0, <1>10 DEF Open, Empty, PutBack
<1>11. CASE Rmdir \/ WriteRemoved \/ ClearJournal
  BY <1>0, <1>11 DEF Rmdir, WriteRemoved, ClearJournal
<1>12. CASE Cut
  BY <1>0, <1>12 DEF Cut
<1>13. CASE Edit \/ OthersPush \/ (\E c \in inflight : Arrive(c)) \/ \E n \in Paths : Swap(n)
  BY <1>13 DEF Edit, OthersPush, Arrive, Swap, OutsideKeeps
<1>14. CASE UNCHANGED vars
  BY <1>14 DEF vars
<1>. QED
  BY <1>1, <1>2, <1>3, <1>4, <1>5, <1>6, <1>7, <1>8, <1>9, <1>10, <1>11, <1>12, <1>13, <1>14
     DEF Next, Work, Sync, DeleteLocal

LEMMA FlagStep ==
  ASSUME FlagTyped, [Next]_vars
  PROVE  FlagTyped'
<1>. USE DEF FlagTyped
<1>1. ASSUME NEW p \in Procs, Prepare(p) \/ Find(p) PROVE FlagTyped'
  BY <1>1 DEF Prepare, Find
<1>2. ASSUME NEW p \in Procs, NEW o \in Ops, Acquire(p, o) PROVE FlagTyped'
  BY <1>2 DEF Acquire
<1>3. CASE Checkout
  BY <1>3 DEF Checkout, Reconcile, Clone, Disable, Enable, Refresh
<1>4. CASE Sync
  BY <1>4 DEF Sync, Resume, Repush, Fetch, Commit, Mark, Push, Check, Restore, Record, Unmark,
              SyncKeeps
<1>5. CASE Reset \/ Revoke \/ Cut
  BY <1>5 DEF Reset, Revoke, Cut
<1>6. CASE ReadJournal \/ Inspect \/ RecheckTree \/ Quarantine \/ Compare \/ WritePhase \/ Open
  BY <1>6 DEF ReadJournal, Inspect, RecheckTree, Quarantine, Compare, WritePhase, Open, DeleteKeeps
<1>7. CASE Empty \/ Rmdir \/ WriteRemoved \/ ClearJournal
  BY <1>7 DEF Empty, Rmdir, WriteRemoved, ClearJournal, DeleteKeeps
<1>8. CASE Edit \/ OthersPush \/ (\E c \in inflight : Arrive(c)) \/ \E n \in Paths : Swap(n)
  BY <1>8 DEF Edit, OthersPush, Arrive, Swap, OutsideKeeps
<1>9. CASE UNCHANGED vars
  BY <1>9 DEF vars
<1>. QED
  BY <1>1, <1>2, <1>3, <1>4, <1>5, <1>6, <1>7, <1>8, <1>9 DEF Next, Work, DeleteLocal

(* A clone can be begun only where one is unused. *)
LEMMA UnusedClone ==
  ASSUME NamesKept, pc = "clone", at["staging"] = None
  PROVE  Unused \in Clones /\ tree[Unused] = "unused"
<1>1. \E t \in Clones : tree[t] = "unused"
  BY DEF NamesKept
<1>. QED BY <1>1 DEF Unused

(* Sync leaves the names, the directories and the journal alone. *)
LEMMA SyncFrame ==
  ASSUME Sync
  PROVE  UNCHANGED <<at, tree, helper, known, journal>> /\ (seen' = seen \/ seen' = None)
  BY DEF Sync, Resume, Repush, Fetch, Commit, Mark, Push, Check, Restore, Record, Unmark, SyncKeeps,
         Pushes, AfterRecord, Goes, End

LEMMA TreeStep ==
  ASSUME TreeTyped, NamesKept, DeletesOurs, [Next]_vars
  PROVE  TreeTyped'
<1>. USE Numbers DEF TreeTyped, Goes, Sees
<1>0. End => seen' = None
  BY DEF End
<1>1. ASSUME NEW p \in Procs, Prepare(p) \/ Find(p) PROVE TreeTyped'
  BY <1>1 DEF Prepare, Find
<1>2. ASSUME NEW p \in Procs, NEW o \in Ops, Acquire(p, o) PROVE TreeTyped'
  BY <1>2 DEF Acquire
<1>3. CASE Reconcile \/ Disable \/ Enable \/ Refresh
  BY <1>0, <1>3 DEF Reconcile, Disable, Enable, Refresh
<1>4. CASE Clone
  <2>1. CASE at["staging"] = None
    <3>1. Unused \in Trees
      BY <1>4, <2>1, UnusedClone DEF Clone
    <3>2. /\ at' = [at EXCEPT !["staging"] = Unused] /\ tree' = [tree EXCEPT ![Unused] = "cloning"]
          /\ seen' = seen /\ journal' = journal
      BY <1>4, <2>1 DEF Clone
    <3>. QED BY <3>1, <3>2
  <2>2. CASE at["staging"] # None
    BY <1>0, <1>4, <2>2 DEF Clone, NamesKept
  <2>. QED BY <2>1, <2>2
<1>5. CASE Sync
  BY <1>5, SyncFrame
<1>6. CASE Reset \/ Revoke \/ Cut
  BY <1>0, <1>6 DEF Reset, Revoke, Cut
<1>7. CASE ReadJournal
  BY <1>0, <1>7 DEF ReadJournal, BeginDeletion, Journal
<1>8. CASE Inspect \/ RecheckTree \/ Quarantine
  BY <1>0, <1>8 DEF Inspect, RecheckTree, Quarantine, Journal
<1>9. CASE Compare \/ WritePhase \/ Open
  <2>1. PutBack => at' \in [Paths -> {None} \union Trees] /\ journal' \in Journal /\ seen' = None
    BY <1>0 DEF PutBack, Present, Journal, NoJournal
  <2>. QED BY <1>0, <1>9, <2>1 DEF Compare, WritePhase, Open, Journal, DeleteKeeps
<1>10. CASE Empty
  BY <1>10 DEF Empty, DeletesOurs
<1>11. CASE Rmdir \/ WriteRemoved \/ ClearJournal
  BY <1>0, <1>11 DEF Rmdir, WriteRemoved, ClearJournal, Journal, NoJournal
<1>12. CASE Edit \/ OthersPush \/ (\E c \in inflight : Arrive(c))
  BY <1>12 DEF Edit, OthersPush, Arrive, OutsideKeeps
<1>14. ASSUME NEW n \in Paths, Swap(n) PROVE TreeTyped'
  <2>1. at' = [at EXCEPT ![n] = Foreign] /\ seen' = seen /\ tree' = tree /\ journal' = journal
    BY <1>14 DEF Swap, OutsideKeeps
  <2>. QED BY <2>1
<1>13. CASE UNCHANGED vars
  BY <1>13 DEF vars
<1>. QED
  BY <1>1, <1>2, <1>3, <1>4, <1>5, <1>6, <1>7, <1>8, <1>9, <1>10, <1>11, <1>12, <1>13, <1>14
     DEF Next, Work, Checkout, DeleteLocal

(* The steps that neither make, move nor record a commit. *)
LEMMA LedgerFrame ==
  ASSUME \/ \E p \in Procs : Prepare(p) \/ Find(p) \/ \E o \in Ops : Acquire(p, o)
         \/ Cut \/ Reconcile \/ Disable \/ Enable \/ Reset \/ Revoke
         \/ (DeleteLocal /\ ~Empty) \/ Resume \/ Fetch \/ Check
         \/ Edit \/ (\E n \in Paths : Swap(n)) \/ UNCHANGED vars
         \/ (Clone /\ (at["staging"] = None \/ ~grant))
  PROVE  UNCHANGED Ledger
<1>1. CASE \E p \in Procs : Prepare(p) \/ Find(p) \/ \E o \in Ops : Acquire(p, o)
  BY <1>1 DEF Prepare, Find, Acquire, Ledger
<1>2. CASE Cut \/ Reconcile \/ Disable \/ Enable \/ Reset \/ Revoke \/ UNCHANGED vars
            \/ (Clone /\ (at["staging"] = None \/ ~grant))
  BY <1>2 DEF Cut, Reconcile, Disable, Enable, Reset, Revoke, vars, Clone, Ledger
<1>3. CASE DeleteLocal /\ ~Empty
  BY <1>3 DEF DeleteLocal, ReadJournal, Inspect, RecheckTree, Quarantine, Compare, WritePhase, Open,
              Rmdir, WriteRemoved, ClearJournal, DeleteKeeps, Ledger
<1>4. CASE Resume \/ Fetch \/ Check
  BY <1>4 DEF Resume, Fetch, Check, SyncKeeps, NoCommit, Ledger
<1>5. CASE Edit \/ \E n \in Paths : Swap(n)
  BY <1>5 DEF Edit, Swap, OutsideKeeps, Ledger
<1>. QED BY <1>1, <1>2, <1>3, <1>4, <1>5

(* The step of base. *)
LEMMA BaseStep ==
  ASSUME LedgerTyped, Held, [Next]_vars
  PROVE  base' \in {None} \union Commits
<1>. USE DEF LedgerTyped, Goes, Sees
<1>0. End => base' = None
  BY DEF End
<1>1. CASE \/ \E p \in Procs : Prepare(p) \/ Find(p) \/ \E o \in Ops : Acquire(p, o)
           \/ Cut \/ UNCHANGED vars \/ Checkout \/ Reset \/ Revoke
  BY <1>0, <1>1 DEF Prepare, Find, Acquire, Cut, vars, Checkout, Reconcile, Clone, Disable, Enable,
                    Refresh, Reset, Revoke
<1>2. CASE Resume
  <2>1. Target \in Trees
    BY <1>2, Numbers DEF Resume, At, Held, SyncSteps
  <2>2. Mine.base \in {None} \union Commits
    BY <2>1 DEF Marker
  <2>. QED BY <1>0, <1>2, <2>2 DEF Resume
<1>3. CASE Commit
  <2>1. Target \in Trees
    BY <1>3, Numbers DEF Commit, At, Held, SyncSteps
  <2>. QED BY <1>3, <2>1 DEF Commit
<1>4. CASE Repush \/ Fetch \/ Mark \/ Push \/ Check \/ Restore \/ Record \/ Unmark
  BY <1>0, <1>4 DEF Repush, Fetch, Mark, Push, Check, Restore, Record, Unmark, Pushes, AfterRecord
<1>5. CASE DeleteLocal
  BY <1>0, <1>5 DEF DeleteLocal, ReadJournal, Inspect, RecheckTree, Quarantine, Compare, WritePhase,
                    Open, Empty, Rmdir, WriteRemoved, ClearJournal, BeginDeletion, PutBack
<1>6. CASE Edit \/ OthersPush \/ (\E c \in inflight : Arrive(c)) \/ \E n \in Paths : Swap(n)
  BY <1>6 DEF Edit, OthersPush, Arrive, Swap, OutsideKeeps
<1>. QED BY <1>1, <1>2, <1>3, <1>4, <1>5, <1>6 DEF Next, Work, Sync

LEMMA CommitNumbers ==
  ASSUME LedgerTyped
  PROVE  /\ Newest \in Nat /\ Newest \in Commits /\ commits \in Nat
         /\ NewCommit = Newest + 1 /\ (commits < MaxCommits => NewCommit \in Commits)
         /\ remote \in Nat /\ remote > 0 /\ inflight \subseteq Nat
         /\ \A c \in Commits : c \in Nat /\ c > 0
  BY Numbers DEF LedgerTyped, Newest, NewCommit, Commits

LEMMA LedgerStep ==
  ASSUME LedgerTyped, Held, MarkedOnTop, SyncKnows, DeletesOurs, NamesKept, [Next]_vars
  PROVE  LedgerTyped'
<1>0. base' \in {None} \union Commits
  BY BaseStep
<1>. DEFINE Rest == /\ head' \in [Trees -> {None} \union Commits] /\ marker' \in [Trees -> Marker]
                    /\ remote' \in Commits /\ inflight' \subseteq Commits
                    /\ past' \in [Commits -> SUBSET Commits]
                    /\ origin' \in [Commits -> {None} \union Clones]
                    /\ recorded' \subseteq Commits /\ undone' \subseteq Commits
                    /\ commits' \in 0..MaxCommits
<1>1. SUFFICES Rest
  BY <1>0 DEF LedgerTyped
<1>2. UNCHANGED Ledger => Rest
  BY DEF Ledger, LedgerTyped
<1>3. NoMarker \in Marker
  BY DEF NoMarker, Marker
<1>4. pc \in SyncSteps => Target \in Trees /\ Target \in Clones
  BY Numbers DEF Held
<1>5. CASE Clone /\ at["staging"] # None /\ grant
  BY <1>5, Numbers DEF Clone, LedgerTyped, NamesKept
<1>6. CASE Refresh
  BY <1>6 DEF Refresh, LedgerTyped
<1>7. CASE Commit
  <2>1. Target \in Clones /\ Target \in Trees /\ head[Target] \in Commits
    BY <1>4, <1>7 DEF Commit, At, SyncSteps, MarkedOnTop
  <2>2. NewCommit \in Commits /\ commits + 1 \in 0..MaxCommits
    BY <1>7, CommitNumbers, Numbers DEF Commit, LedgerTyped
  <2>3. past[head[Target]] \union {head[Target]} \subseteq Commits
    BY <2>1 DEF LedgerTyped
  <2>. QED BY <1>7, <2>1, <2>2, <2>3 DEF Commit, LedgerTyped, SyncKeeps
<1>8. CASE Mark
  <2>1. Target \in Trees
    BY <1>4, <1>8 DEF Mark, SyncSteps
  <2>2. [set |-> IF pc = "mark" THEN "torn" ELSE "whole", head |-> head[Target], base |-> base] \in Marker
    BY <2>1 DEF LedgerTyped, Marker
  <2>. QED BY <1>8, <2>2 DEF Mark, LedgerTyped, SyncKeeps, NoCommit
<1>9. CASE Repush \/ Push
  <2>1. Target \in Clones /\ head[Target] \in Commits
    BY <1>4, <1>9 DEF Repush, Push, At, SyncSteps, MarkedOnTop, SyncKnows
  <2>2. /\ remote' = remote \/ remote' = head[Target]
        /\ inflight' = inflight \/ inflight' = inflight \union {head[Target]}
        /\ UNCHANGED <<head, marker, past, origin, recorded, undone, commits>>
    BY <1>9 DEF Repush, Push, Pushes, SyncKeeps, NoCommit
  <2>. QED BY <2>1, <2>2 DEF LedgerTyped
<1>10. CASE Restore
  <2>1. Mine.head \in Commits
    BY <1>4, <1>10 DEF Restore, At, SyncSteps, MarkedOnTop, SyncKnows
  <2>. QED BY <1>10, <2>1 DEF Restore, LedgerTyped, SyncKeeps
<1>11. CASE Record
  <2>1. Mine.head \in Commits
    BY <1>4, <1>11 DEF Record, At, SyncSteps, MarkedOnTop, SyncKnows
  <2>. QED BY <1>11, <2>1 DEF Record, LedgerTyped, SyncKeeps, NoCommit
<1>12. CASE Unmark
  <2>1. Target \in Trees
    BY <1>4, <1>12 DEF Unmark, SyncSteps
  <2>2. [marker[Target] EXCEPT !.set = "torn"] \in Marker
    BY <2>1 DEF LedgerTyped, Marker
  <2>. QED BY <1>3, <1>12, <2>1, <2>2 DEF Unmark, LedgerTyped, SyncKeeps, NoCommit
<1>13. CASE Empty
  BY <1>3, <1>13 DEF Empty, LedgerTyped
<1>14. CASE OthersPush
  <2>1. NewCommit \in Commits /\ commits + 1 \in 0..MaxCommits
    BY <1>14, CommitNumbers, Numbers DEF OthersPush, LedgerTyped
  <2>2. past[remote] \union {remote} \subseteq Commits
    BY DEF LedgerTyped
  <2>. QED BY <1>14, <2>1, <2>2 DEF OthersPush, LedgerTyped, OutsideKeeps
<1>15. CASE \E c \in inflight : Arrive(c)
  BY <1>15 DEF Arrive, LedgerTyped, OutsideKeeps
<1>. QED
  BY <1>2, <1>5, <1>6, <1>7, <1>8, <1>9, <1>10, <1>11, <1>12, <1>13, <1>14, <1>15, LedgerFrame
     DEF Next, Work, Checkout, Sync, DeleteLocal

-----------------------------------------------------------------------------
(* Who holds the lock, and what the names lead to *)

(* A step of a deletion stays with deletion. *)
LEMMA DeleteFrame ==
  ASSUME DeleteLocal
  PROVE  \/ End
         \/ /\ UNCHANGED calls
            /\ pc' \notin SyncSteps \union
                 {"reconcile", "clone", "disable", "enable", "refresh", "idle"}
  BY DEF DeleteLocal, ReadJournal, Inspect, RecheckTree, Quarantine, Compare, WritePhase, Open, Empty,
         Rmdir, WriteRemoved, ClearJournal, BeginDeletion, PutBack, ResumesAt, Goes, Sees, SyncSteps

LEMMA HeldStep ==
  ASSUME TypeOK, Held, [Next]_vars
  PROVE  Held'
<1>. USE DEF Goes, Sees
<1>0. End => Held'
  BY DEF End, Held, SyncSteps
<1>1. CallTyped
  BY TypeParts
<1>2. ASSUME NEW p \in Procs, Prepare(p) \/ Find(p) PROVE Held'
  <2>1. call[p] = "none" /\ UNCHANGED <<lock, pc, at>> /\ \A q \in Procs \ {p} : call'[q] = call[q]
    BY <1>1, <1>2 DEF Prepare, Find, CallTyped
  <2>2. pc # "idle" => lock # p
    BY <2>1 DEF Held, Ops
  <2>. QED BY <2>1, <2>2 DEF Held, SyncSteps
<1>3. ASSUME NEW p \in Procs, NEW o \in Ops, Acquire(p, o) PROVE Held'
  <2>1. lock' = p /\ call'[p] = o /\ pc' = FirstStep(o)
    BY <1>1, <1>3 DEF Acquire, CallTyped
  <2>. QED BY <2>1 DEF Held, FirstStep, SyncSteps, Ops
<1>4. CASE Reconcile \/ Clone \/ Refresh
  <2>1. End \/ (UNCHANGED calls /\ pc' \in {"clone", "disable"} /\ pc \in {"reconcile", "clone"})
    BY <1>4 DEF Reconcile, Clone, Refresh
  <2>. QED BY <1>0, <2>1 DEF Held, SyncSteps
<1>5. CASE Disable \/ Enable
  BY <1>0, <1>5 DEF Disable, Enable, Held, SyncSteps
<1>6. CASE Sync
  <2>1. at' = at /\ pc \in SyncSteps /\ (End \/ (UNCHANGED calls /\ pc' \in SyncSteps))
    BY <1>6 DEF Sync, Resume, Repush, Fetch, Commit, Mark, Push, Check, Restore, Record, Unmark,
                SyncKeeps, Pushes, AfterRecord, TakenUp, Outcome, SyncSteps
  <2>. QED BY <1>0, <2>1 DEF Held, SyncSteps
<1>7. CASE Reset \/ Revoke \/ Cut
  BY <1>0, <1>7 DEF Reset, Revoke, Cut, Held, SyncSteps
<1>8. CASE DeleteLocal
  <2>1. pc # "idle"
    BY <1>8 DEF DeleteLocal, ReadJournal, Inspect, RecheckTree, Quarantine, Compare, WritePhase, Open,
                Empty, Rmdir, WriteRemoved, ClearJournal
  <2>. QED BY <1>0, <1>8, <2>1, DeleteFrame DEF Held
<1>9. CASE Edit \/ OthersPush \/ (\E c \in inflight : Arrive(c)) \/ UNCHANGED vars
  BY <1>9 DEF Edit, OthersPush, Arrive, OutsideKeeps, vars, Held
<1>10. ASSUME NEW n \in Paths, Swap(n) PROVE Held'
  <2>1. UNCHANGED <<call, lock, pc>> /\ (lock = Nobody \/ Op = "delete")
    BY <1>10 DEF Swap, OutsideKeeps
  <2>2. pc = "idle" \/ Op = "delete"
    BY <2>1, UsesAssumption DEF Held
  <2>3. pc \notin SyncSteps \union {"reconcile", "clone", "disable", "enable", "refresh"}
    BY <2>2 DEF Held, SyncSteps
  <2>4. pc # "idle" => lock \in Procs /\ call[lock] \in Ops
    BY DEF Held
  <2>. QED BY <2>1, <2>3, <2>4 DEF Held
<1>. QED
  BY <1>2, <1>3, <1>4, <1>5, <1>6, <1>7, <1>8, <1>9, <1>10 DEF Next, Work, Checkout

(* A step that touches neither the names nor the directories, and begins no clone. *)
LEMMA NamesSame ==
  ASSUME NamesKept, UNCHANGED <<at, tree>>, pc' = "clone" => pc = "clone"
  PROVE  NamesKept'
  BY DEF NamesKept

LEMMA NamesStep ==
  ASSUME TypeOK, Held, NamesKept, DeletesOurs, [Next]_vars
  PROVE  NamesKept'
<1>0. TreeTyped /\ Foreign \in Trees /\ tree[Foreign] = "whole" /\ Clones \subseteq Trees
      /\ 0 \notin Trees
  BY TypeParts, Numbers DEF DeletesOurs
<1>. USE DEF Goes, Sees
<1>1. CASE \/ \E p \in Procs : Prepare(p) \/ Find(p) \/ \E o \in Ops : Acquire(p, o)
           \/ Disable \/ Enable \/ Refresh \/ Sync \/ Reset \/ Revoke \/ Cut
           \/ Edit \/ OthersPush \/ (\E c \in inflight : Arrive(c)) \/ UNCHANGED vars
  <2>1. CASE \E p \in Procs : Prepare(p) \/ Find(p) \/ \E o \in Ops : Acquire(p, o)
    BY <2>1, NamesSame DEF Prepare, Find, Acquire, FirstStep, Ops
  <2>2. CASE Disable \/ Enable \/ Refresh \/ Reset \/ Revoke \/ Cut
    BY <2>2, NamesSame DEF Disable, Enable, Refresh, Reset, Revoke, Cut, End
  <2>3. CASE Sync
    <3>1. pc' # "clone"
      BY <2>3 DEF Sync, Resume, Repush, Fetch, Commit, Mark, Push, Check, Restore, Record, Unmark,
                  SyncKeeps, Pushes, AfterRecord, TakenUp, Outcome, End
    <3>. QED BY <2>3, <3>1, SyncFrame, NamesSame
  <2>4. CASE Edit \/ OthersPush \/ (\E c \in inflight : Arrive(c)) \/ UNCHANGED vars
    BY <2>4, NamesSame DEF Edit, OthersPush, Arrive, OutsideKeeps, vars
  <2>. QED BY <1>1, <2>1, <2>2, <2>3, <2>4
<1>2. CASE Reconcile
  <2>1. /\ at' = [at EXCEPT !["staging"] = None]
        /\ tree' = IF at["staging"] = None THEN tree ELSE [tree EXCEPT ![at["staging"]] = "gone"]
    BY <1>2 DEF Reconcile
  <2>2. at'["staging"] = None /\ \A n \in {"target", "quarantine"} : at'[n] = at[n]
    BY <1>0, <2>1 DEF TreeTyped
  <2>3. \A t \in Trees : tree'[t] = tree[t] \/ (tree'[t] = "gone" /\ tree[t] = "cloning")
    BY <1>0, <2>1 DEF TreeTyped, NamesKept
  <2>4. pc' = "clone" => \E t \in Clones : tree[t] = "unused"
    BY <1>2 DEF Reconcile, End
  <2>. QED BY <1>0, <2>2, <2>3, <2>4 DEF NamesKept, TreeTyped
<1>3. CASE Clone
  <2>1. CASE at["staging"] = None
    <3>1. Unused \in Clones /\ tree[Unused] = "unused"
      BY <1>3, <2>1, UnusedClone DEF Clone
    <3>2. /\ at' = [at EXCEPT !["staging"] = Unused] /\ tree' = [tree EXCEPT ![Unused] = "cloning"]
      BY <1>3, <2>1 DEF Clone
    <3>3. at'["staging"] = Unused /\ tree'[Unused] = "cloning"
          /\ (\A n \in {"target", "quarantine"} : at'[n] = at[n])
          /\ \A t \in Trees \ {Unused} : tree'[t] = tree[t]
      BY <1>0, <3>1, <3>2 DEF TreeTyped
    <3>. QED BY <1>0, <3>1, <3>3 DEF NamesKept, TreeTyped
  <2>2. CASE at["staging"] # None /\ grant
    <3>. DEFINE t == at["staging"]
    <3>1. /\ at' = [at EXCEPT !["staging"] = None, !["target"] = t]
          /\ tree' = [tree EXCEPT ![t] = "whole"] /\ pc' # "clone"
      BY <1>3, <2>2 DEF Clone
    <3>2. at'["staging"] = None /\ at'["target"] = t /\ at'["quarantine"] = at["quarantine"]
          /\ tree'[t] = "whole" /\ \A u \in Trees \ {t} : tree'[u] = tree[u]
      BY <1>0, <2>2, <3>1 DEF TreeTyped
    <3>. QED BY <1>0, <3>1, <3>2 DEF NamesKept, TreeTyped
  <2>3. CASE at["staging"] # None /\ ~grant
    <3>1. /\ at' = [at EXCEPT !["staging"] = None]
          /\ tree' = [tree EXCEPT ![at["staging"]] = "gone"] /\ pc' # "clone"
      BY <1>3, <2>3 DEF Clone, End
    <3>2. at'["staging"] = None /\ \A n \in {"target", "quarantine"} : at'[n] = at[n]
      BY <1>0, <3>1 DEF TreeTyped
    <3>3. \A u \in Trees : tree'[u] = tree[u] \/ tree'[u] = "gone"
      BY <1>0, <3>1 DEF TreeTyped
    <3>. QED BY <1>0, <3>1, <3>2, <3>3 DEF NamesKept, TreeTyped
  <2>. QED BY <2>1, <2>2, <2>3
<1>4. CASE DeleteLocal
  <2>1. pc' # "clone"
    BY <1>4, DeleteFrame DEF End
  <2>2. CASE UNCHANGED <<at, tree>>
    BY <2>1, <2>2, NamesSame
  <2>3. CASE Quarantine /\ Target # None
    <3>1. tree' = tree /\ at' = [at EXCEPT !["target"] = None, !["quarantine"] = Target]
      BY <2>3 DEF Quarantine, DeleteKeeps
    <3>. QED BY <1>0, <2>1, <3>1 DEF NamesKept, TreeTyped
  <2>4. CASE PutBack /\ tree' = tree
    <3>1. at' = at \/ at' = [at EXCEPT !["target"] = at["quarantine"], !["quarantine"] = None]
      BY <2>4 DEF PutBack
    <3>. QED BY <1>0, <2>1, <2>4, <3>1 DEF NamesKept, TreeTyped
  <2>5. CASE Empty
    <3>1. at' = at /\ seen \in Clones /\ tree[seen] \in {"whole", "partial"}
          /\ tree' = [tree EXCEPT ![seen] = IF @ = "whole" THEN "partial" ELSE "empty"]
      BY <2>5 DEF Empty, DeletesOurs
    <3>2. \A u \in Trees : \/ tree'[u] = tree[u]
                            \/ (tree'[u] \in {"partial", "empty"} /\ tree[u] \in {"whole", "partial"})
      BY <1>0, <3>1 DEF TreeTyped
    <3>. QED BY <1>0, <2>1, <3>1, <3>2 DEF NamesKept, TreeTyped
  <2>6. CASE Rmdir /\ at["quarantine"] # None /\ tree[at["quarantine"]] = "empty"
    <3>1. /\ tree' = [tree EXCEPT ![at["quarantine"]] = "gone"]
          /\ at' = [at EXCEPT !["quarantine"] = None]
      BY <2>6 DEF Rmdir
    <3>2. \A u \in Trees : tree'[u] = tree[u] \/ (tree'[u] = "gone" /\ tree[u] = "empty")
      BY <1>0, <2>6, <3>1 DEF TreeTyped
    <3>3. at'["quarantine"] = None /\ \A n \in {"target", "staging"} : at'[n] = at[n]
      BY <1>0, <3>1 DEF TreeTyped
    <3>. QED BY <1>0, <2>1, <3>2, <3>3 DEF NamesKept, TreeTyped
  <2>. QED BY <1>4, <2>2, <2>3, <2>4, <2>5, <2>6
           DEF DeleteLocal, ReadJournal, Inspect, RecheckTree, Quarantine, Compare, WritePhase, Open,
               Rmdir, WriteRemoved, ClearJournal, DeleteKeeps
<1>5. ASSUME NEW n \in Paths, Swap(n) PROVE NamesKept'
  <2>1. at' = [at EXCEPT ![n] = Foreign] /\ n # "staging" /\ tree' = tree /\ pc' = pc
    BY <1>5 DEF Swap, OutsideKeeps
  <2>. QED BY <1>0, <2>1 DEF NamesKept, TreeTyped
<1>. QED BY <1>1, <1>2, <1>3, <1>4, <1>5 DEF Next, Work, Checkout

(* The steps of a deletion that know what they are about to remove. *)
Chosen == {"recheck", "quarantine", "compare", "phase", "open", "empty"}

LEMMA DeletesOursStep ==
  ASSUME TypeOK, Held, NamesKept, DeletesOurs, [Next]_vars
  PROVE  DeletesOurs'
<1>0. TreeTyped /\ Foreign \in Trees /\ Foreign \notin Clones /\ Clones \subseteq Trees
      /\ 0 \notin Trees /\ (\A t \in Trees : t \notin Clones => t = Foreign)
  BY TypeParts, Numbers
<1>. USE DEF Goes, Sees
<1>a. ASSUME tree'[Foreign] = "whole", journal' = journal \/ journal' = NoJournal,
             pc' \notin Chosen \union {"inspect", "rmdir", "removed"}
      PROVE  DeletesOurs'
  BY <1>a DEF DeletesOurs, Chosen
<1>1. CASE \/ \E p \in Procs : Prepare(p) \/ Find(p)
           \/ Edit \/ OthersPush \/ (\E c \in inflight : Arrive(c)) \/ UNCHANGED vars
  BY <1>1 DEF Prepare, Find, Edit, OthersPush, Arrive, OutsideKeeps, vars, DeletesOurs
<1>2. CASE \/ \E p \in Procs : \E o \in Ops : Acquire(p, o)
           \/ Disable \/ Enable \/ Refresh \/ Reset \/ Revoke \/ Cut
  <2>1. tree' = tree /\ journal' = journal /\ pc' \in {"reconcile", "disable", "reset", "read", "enable",
                                                    "resume", "refresh", "revoke", "idle"}
    BY <1>2 DEF Acquire, FirstStep, Disable, Enable, Refresh, Reset, Revoke, Cut, End, Ops
  <2>. QED BY <1>a, <2>1 DEF DeletesOurs, Chosen
<1>3. CASE Sync
  <2>1. tree' = tree /\ journal' = journal
    BY <1>3, SyncFrame
  <2>2. pc' \in SyncSteps \union {"idle"}
    BY <1>3 DEF Sync, Resume, Repush, Fetch, Commit, Mark, Push, Check, Restore, Record, Unmark,
                Pushes, AfterRecord, TakenUp, Outcome, End, SyncSteps
  <2>. QED BY <1>a, <2>1, <2>2 DEF DeletesOurs, Chosen, SyncSteps
<1>4. CASE Reconcile \/ Clone
  <2>1. journal' = journal /\ pc' \in {"clone", "disable", "idle"}
    BY <1>4 DEF Reconcile, Clone, End
  <2>2. tree'[Foreign] = "whole"
    <3>1. CASE Clone /\ at["staging"] = None
      BY <1>0, <3>1, UnusedClone DEF Clone, DeletesOurs, TreeTyped
    <3>2. CASE at["staging"] # None \/ Reconcile
      BY <1>0, <1>4, <3>2 DEF Reconcile, Clone, NamesKept, DeletesOurs, TreeTyped
    <3>. QED BY <1>4, <3>1, <3>2
  <2>. QED BY <1>a, <2>1, <2>2 DEF Chosen
<1>5. CASE ReadJournal
  <2>0. UNCHANGED <<at, tree, journal>>
    BY <1>5 DEF ReadJournal, DeleteKeeps
  <2>1. CASE End \/ pc' = "clear"
    BY <1>a, <2>0, <2>1 DEF End, DeletesOurs, Chosen
  <2>2. CASE Sees(Target, "inspect") /\ Target # None
    BY <1>0, <2>0, <2>2 DEF DeletesOurs, TreeTyped
  <2>3. CASE journal # NoJournal /\ seen' = journal.tree /\ pc' \in {"phase", "quarantine"}
    BY <2>0, <2>3 DEF DeletesOurs
  <2>. QED BY <1>5, <2>1, <2>2, <2>3 DEF ReadJournal, BeginDeletion, ResumesAt
<1>6. CASE Inspect
  <2>1. UNCHANGED <<at, tree, journal>>
    BY <1>6 DEF Inspect, DeleteKeeps
  <2>. QED BY <1>6, <2>1 DEF Inspect, End, DeletesOurs
<1>7. CASE RecheckTree
  <2>1. UNCHANGED <<at, tree>>
    BY <1>7 DEF RecheckTree, DeleteKeeps
  <2>. QED BY <1>7, <2>1 DEF RecheckTree, End, DeletesOurs
<1>8. CASE Quarantine
  <2>1. UNCHANGED <<tree, journal>>
    BY <1>8 DEF Quarantine, DeleteKeeps
  <2>. QED BY <1>8, <2>1 DEF Quarantine, End, DeletesOurs
<1>9. CASE Compare \/ WritePhase
  <2>1. UNCHANGED tree
    BY <1>9 DEF Compare, WritePhase, DeleteKeeps
  <2>. QED BY <1>9, <2>1 DEF Compare, WritePhase, PutBack, End, DeletesOurs
<1>10. CASE Open
  <2>1. UNCHANGED tree
    BY <1>10 DEF Open, DeleteKeeps
  <2>. QED BY <1>10, <2>1 DEF Open, SameTree, PutBack, End, DeletesOurs
<1>11. CASE Empty
  <2>1. /\ journal' = journal /\ seen' = seen /\ seen \in Clones /\ pc' \in {"empty", "rmdir"}
        /\ tree' = [tree EXCEPT ![seen] = IF @ = "whole" THEN "partial" ELSE "empty"]
        /\ journal.tree \in Clones
    BY <1>11 DEF Empty, DeletesOurs
  <2>2. tree'[Foreign] = "whole"
    BY <1>0, <2>1 DEF DeletesOurs, TreeTyped
  <2>. QED BY <2>1, <2>2 DEF DeletesOurs
<1>12. CASE Rmdir
  <2>1. tree' = tree \/ (tree[at["quarantine"]] = "empty"
                         /\ tree' = [tree EXCEPT ![at["quarantine"]] = "gone"])
    BY <1>12 DEF Rmdir
  <2>2. tree'[Foreign] = "whole"
    BY <1>0, <2>1 DEF DeletesOurs, TreeTyped
  <2>3. journal' = journal /\ pc = "rmdir" /\ pc' \in {"removed", "idle"}
    BY <1>12 DEF Rmdir, DeleteKeeps, End
  <2>. QED BY <2>2, <2>3 DEF DeletesOurs
<1>13. CASE WriteRemoved
  <2>1. tree' = tree /\ journal'.tree = journal.tree /\ journal.tree \in Clones /\ pc' = "clear"
    BY <1>0, <1>13 DEF WriteRemoved, DeleteKeeps, DeletesOurs, TreeTyped, Journal
  <2>. QED BY <2>1 DEF DeletesOurs
<1>14. CASE ClearJournal
  BY <1>14, <1>a DEF ClearJournal, DeleteKeeps, End, DeletesOurs, Chosen
<1>15. ASSUME NEW n \in Paths, Swap(n) PROVE DeletesOurs'
  <2>1. /\ at' = [at EXCEPT ![n] = Foreign] /\ UNCHANGED <<tree, journal, pc, seen>>
    BY <1>15 DEF Swap, OutsideKeeps
  <2>2. at'["target"] = at["target"] \/ at'["target"] = Foreign
    BY <1>0, <2>1 DEF TreeTyped
  <2>. QED BY <1>0, <2>1, <2>2 DEF DeletesOurs
<1>. QED
  BY <1>1, <1>2, <1>3, <1>4, <1>5, <1>6, <1>7, <1>8, <1>9, <1>10, <1>11, <1>12, <1>13, <1>14, <1>15
     DEF Next, Work, Checkout, DeleteLocal

-----------------------------------------------------------------------------
(* Commits *)

History == Ancestry /\ MarkedOnTop /\ SyncKnows /\ LiveIsPending

(* No step makes a directory whole, or new, that was not; but Clone. *)
Faded == \A t \in Clones : /\ tree'[t] = "whole" => tree[t] = "whole"
                           /\ tree'[t] \in {"unused", "cloning"} => tree[t] \in {"unused", "cloning"}

(* A step after which no sync knows more than before. *)
Quiet == /\ UNCHANGED Ledger /\ Faded
         /\ pc' \notin SyncSteps \ {"resume"} \/ UNCHANGED <<pc, base, Target>>

LEMMA QuietKeeps ==
  ASSUME LedgerTyped, Held, History, Quiet
  PROVE  History'
<1>. USE DEF Quiet, Ledger, History
<1>1. Ancestry'
  BY DEF Ancestry, Faded, LedgerTyped, Newest
<1>2. MarkedOnTop'
  BY DEF MarkedOnTop, SyncSteps, Line
<1>3. SyncKnows'
  BY DEF SyncKnows, SyncSteps, Line, Live
<1>4. LiveIsPending'
  <2>1. Live' = Live
    BY DEF Live, Line
  <2>2. Live \subseteq Commits
    BY Numbers DEF Live, Line, LedgerTyped
  <2>. QED BY <2>1, <2>2 DEF LiveIsPending, Faded, LedgerTyped
<1>. QED BY <1>1, <1>2, <1>3, <1>4

(* The calls, checkout without its clone, reset, most of delete_local, and what other programs do
   to directories. *)
LEMMA QuietSteps ==
  ASSUME TypeOK, Held, NamesKept, DeletesOurs,
         \/ \E p \in Procs : Prepare(p) \/ Find(p) \/ \E o \in Ops : Acquire(p, o)
         \/ Cut \/ Reconcile \/ Disable \/ Enable \/ Reset \/ Revoke \/ (DeleteLocal /\ ~Empty)
         \/ Edit \/ (\E n \in Paths : Swap(n)) \/ UNCHANGED vars
         \/ (Clone /\ (at["staging"] = None \/ ~grant))
  PROVE  Quiet
<1>0. TreeTyped /\ Clones \subseteq Trees
  BY TypeParts, Numbers
<1>1. UNCHANGED Ledger
  BY LedgerFrame
<1>2. UNCHANGED tree => Faded
  BY DEF Faded
<1>. USE DEF Goes, Sees
<1>3. CASE \E p \in Procs : Prepare(p) \/ Find(p)
  BY <1>1, <1>2, <1>3 DEF Prepare, Find, Quiet
<1>4. CASE \E p \in Procs : \E o \in Ops : Acquire(p, o)
  BY <1>1, <1>2, <1>4 DEF Acquire, FirstStep, Quiet, SyncSteps, Ops
<1>5. CASE Cut \/ Disable \/ Enable \/ Reset \/ Revoke
  BY <1>1, <1>2, <1>5 DEF Cut, Disable, Enable, Reset, Revoke, End, Quiet, SyncSteps
<1>6. CASE Reconcile
  <2>1. tree' = IF at["staging"] = None THEN tree ELSE [tree EXCEPT ![at["staging"]] = "gone"]
    BY <1>6 DEF Reconcile
  <2>2. Faded
    BY <1>0, <2>1 DEF TreeTyped, Faded
  <2>. QED BY <1>1, <1>6, <2>2 DEF Reconcile, End, Quiet, SyncSteps
<1>7. CASE Clone /\ (at["staging"] = None \/ ~grant)
  <2>1. pc' \in {"clone", "idle"}
    BY <1>7 DEF Clone, End
  <2>2. CASE at["staging"] = None
    <3>1. Unused \in Clones /\ tree[Unused] = "unused" /\ tree' = [tree EXCEPT ![Unused] = "cloning"]
      BY <1>7, <2>2, UnusedClone DEF Clone
    <3>2. Faded
      BY <1>0, <3>1 DEF TreeTyped, Faded
    <3>. QED BY <1>1, <2>1, <3>2 DEF Quiet, SyncSteps
  <2>3. CASE at["staging"] # None /\ ~grant
    <3>1. tree' = [tree EXCEPT ![at["staging"]] = "gone"]
      BY <1>7, <2>3 DEF Clone
    <3>2. Faded
      BY <1>0, <3>1 DEF TreeTyped, Faded
    <3>. QED BY <1>1, <2>1, <3>2 DEF Quiet, SyncSteps
  <2>. QED BY <1>7, <2>2, <2>3
<1>8. CASE DeleteLocal /\ ~Empty
  <2>1. pc' \notin SyncSteps
    BY <1>8, DeleteFrame DEF End, SyncSteps
  <2>2. tree' = tree \/ tree' = [tree EXCEPT ![at["quarantine"]] = "gone"]
    BY <1>8 DEF DeleteLocal, ReadJournal, Inspect, RecheckTree, Quarantine, Compare, WritePhase, Open,
              Rmdir, WriteRemoved, ClearJournal
  <2>3. Faded
    BY <1>0, <2>2 DEF TreeTyped, Faded
  <2>. QED BY <1>1, <2>1, <2>3 DEF Quiet
<1>9. CASE Edit \/ UNCHANGED vars
  BY <1>1, <1>2, <1>9 DEF Edit, OutsideKeeps, vars, Quiet
<1>10. ASSUME NEW n \in Paths, Swap(n) PROVE Quiet
  <2>1. UNCHANGED <<call, lock, pc, tree>> /\ (lock = Nobody \/ Op = "delete")
    BY <1>10 DEF Swap, OutsideKeeps
  <2>2. pc \notin SyncSteps
    BY <2>1, UsesAssumption DEF Held, SyncSteps
  <2>. QED BY <1>1, <1>2, <2>1, <2>2 DEF Quiet
<1>. QED
  BY <1>3, <1>4, <1>5, <1>6, <1>7, <1>8, <1>9, <1>10

(* The clone arrives from the remote branch: nothing was ever made in it. *)
LEMMA CloneKeeps ==
  ASSUME TypeOK, NamesKept, History, Clone, at["staging"] # None, grant
  PROVE  History'
<1>. USE DEF Goes, History
<1>. DEFINE t == at["staging"]
<1>0. LedgerTyped /\ TreeTyped /\ Clones \subseteq Trees /\ t \in Clones /\ tree[t] = "cloning"
  BY TypeParts, Numbers DEF NamesKept
<1>1. /\ tree' = [tree EXCEPT ![t] = "whole"] /\ head' = [head EXCEPT ![t] = remote]
      /\ UNCHANGED <<marker, remote, inflight, past, origin, recorded, undone, commits>>
      /\ pc' = "disable"
  BY DEF Clone
<1>2. tree'[t] = "whole" /\ (\A u \in Trees \ {t} : tree'[u] = tree[u])
      /\ \A u \in Trees : head'[u] = head[u] \/ head'[u] = remote
  BY <1>0, <1>1 DEF TreeTyped, LedgerTyped
<1>3. \A c \in Commits : origin[c] # t
  BY <1>0, Numbers DEF Ancestry
<1>4. Ancestry'
  BY <1>0, <1>1, <1>2, <1>3 DEF Ancestry, LedgerTyped, Newest
<1>5. MarkedOnTop' /\ SyncKnows'
  BY <1>1 DEF MarkedOnTop, SyncKnows, Line
<1>6. LiveIsPending'
  <2>1. Live' = Live /\ Live \subseteq Commits
    BY <1>0, <1>1, Numbers DEF Live, Line, LedgerTyped
  <2>. QED BY <1>0, <1>1, <1>2, <1>3, <2>1 DEF LiveIsPending, LedgerTyped
<1>. QED BY <1>4, <1>5, <1>6

LEMMA RefreshKeeps ==
  ASSUME TypeOK, History, Refresh
  PROVE  History'
<1>. USE DEF History
<1>0. LedgerTyped /\ Clones \subseteq Trees
  BY TypeParts, Numbers
<1>1. /\ head' = head \/ head' = [head EXCEPT ![Target] = remote]
      /\ UNCHANGED <<tree, marker, remote, inflight, past, origin, recorded, undone, commits>>
      /\ pc' = "idle"
  BY DEF Refresh, End
<1>2. \A u \in Trees : head'[u] = head[u] \/ head'[u] = remote
  BY <1>0, <1>1 DEF LedgerTyped
<1>3. Ancestry'
  BY <1>0, <1>1, <1>2 DEF Ancestry, Newest
<1>4. MarkedOnTop' /\ SyncKnows' /\ LiveIsPending'
  BY <1>1 DEF MarkedOnTop, SyncKnows, LiveIsPending, Live, Line
<1>. QED BY <1>3, <1>4

(* What every step of a sync knows of its clone. *)
LEMMA SyncClone ==
  ASSUME TypeOK, Held, pc \in SyncSteps
  PROVE  /\ LedgerTyped /\ TreeTyped /\ Clones \subseteq Trees /\ 0 \notin Trees /\ Live \subseteq Commits
         /\ Target \in Clones /\ Mine \in Marker
<1>1. LedgerTyped /\ TreeTyped /\ Clones \subseteq Trees /\ 0 \notin Trees /\ Target \in Clones
  BY TypeParts, Numbers DEF Held
<1>2. Live \subseteq Commits
  BY <1>1, Numbers DEF Live, Line, LedgerTyped
<1>3. Mine \in Marker
  BY <1>1 DEF LedgerTyped
<1>. QED BY <1>1, <1>2, <1>3

(* The steps of sync that only look. *)
LEMMA LookKeeps ==
  ASSUME TypeOK, Held, History, Resume \/ Fetch \/ Check
  PROVE  History'
<1>. USE DEF Goes, History
<1>0. UNCHANGED Ledger /\ UNCHANGED <<at, tree>>
  BY LedgerFrame, SyncFrame DEF Sync
<1>1. pc \in SyncSteps
  BY DEF Resume, Fetch, Check, SyncSteps
<1>2. LedgerTyped /\ Mine \in Marker
  BY <1>1, SyncClone
<1>3. CASE End
  <2>1. Quiet
    BY <1>0, <1>3 DEF End, Quiet, Faded, SyncSteps
  <2>. QED BY <1>2, <2>1, QuietKeeps
<1>4. Ancestry' /\ LiveIsPending'
  BY <1>0 DEF Ledger, Ancestry, LiveIsPending, Live, Line, Newest
<1>5. CASE Resume /\ ~End
  <2>1. \/ Mine.set = "none" /\ pc' = "fetch"
        \/ Mine.set = "whole" /\ head[Target] = Mine.head /\ pc' \in {"repush", "record"}
    BY <1>2, <1>5 DEF Resume, TakenUp, Marker
  <2>2. MarkedOnTop' /\ SyncKnows'
    BY <1>0, <2>1 DEF Ledger, MarkedOnTop, SyncKnows, Line, Live
  <2>. QED BY <1>4, <2>2
<1>6. CASE Fetch /\ ~End
  <2>1. pc = "fetch" /\ head[Target] = remote /\ pc' = "commit"
    BY <1>6 DEF Fetch
  <2>2. MarkedOnTop' /\ SyncKnows'
    BY <1>0, <1>2, <2>1 DEF Ledger, MarkedOnTop, SyncKnows, Line, Live, LedgerTyped
  <2>. QED BY <1>4, <2>2
<1>7. CASE Check /\ ~End
  <2>1. pc = "check" /\ base' = base /\ pc' \in {"record", "restore"}
        /\ (pc' = "restore" => remote = base /\ head[Target] = Mine.head)
    BY <1>7 DEF Check, Outcome
  <2>2. MarkedOnTop' /\ SyncKnows'
    BY <1>0, <2>1 DEF Ledger, MarkedOnTop, SyncKnows, Line
  <2>. QED BY <1>4, <2>2
<1>. QED BY <1>3, <1>5, <1>6, <1>7

(* The new commit: nothing that is known yet has its number. *)
LEMMA CommitKeeps ==
  ASSUME TypeOK, Held, NamesKept, History, Commit
  PROVE  History'
<1>. USE DEF History
<1>. DEFINE h == head[Target]  N == NewCommit
<1>1. pc = "commit" /\ pc \in SyncSteps
  BY DEF Commit, SyncSteps
<1>2. LedgerTyped /\ Live \subseteq Commits /\ Target \in Clones /\ Clones \subseteq Trees
  BY <1>1, SyncClone
<1>3. h \in Commits /\ Line(h) \subseteq Line(remote) /\ tree[Target] \notin {"unused", "cloning"}
  BY <1>1, <1>2, Numbers DEF MarkedOnTop, NamesKept
<1>4. N \in Commits /\ N = Newest + 1 /\ N > Newest /\ Newest \in Nat
  BY <1>2, CommitNumbers DEF Commit
<1>5. /\ \A t \in Clones : head'[t] = IF t = Target THEN N ELSE head[t]
      /\ \A c \in Commits : past'[c] = IF c = N THEN Line(h) ELSE past[c]
      /\ \A c \in Commits : origin'[c] = IF c = N THEN Target ELSE origin[c]
      /\ UNCHANGED <<at, tree, marker, remote, inflight, recorded, undone>> /\ Newest' = N
      /\ base' = h /\ pc' = "mark"
  BY <1>2, <1>4 DEF Commit, LedgerTyped, SyncKeeps, Newest, Line, NewCommit
<1>6. \A c \in Commits : c \in Nat
  BY <1>2, CommitNumbers
<1>7. /\ \A c \in Commits : c <= Newest => c # N
      /\ remote # N /\ N \notin inflight /\ \A t \in Clones : marker[t].head # N
  BY <1>2, <1>4, <1>6, CommitNumbers DEF Ancestry
<1>8. \A c \in Commits : \A d \in past[c] : d \in Commits /\ d # N
  BY <1>2, <1>4, <1>6 DEF Ancestry, LedgerTyped
<1>9. Ancestry'
  <2>1. remote <= N /\ \A c \in inflight : c <= N
    BY <1>2, <1>4, CommitNumbers DEF Ancestry
  <2>2. ASSUME NEW t \in Clones PROVE head'[t] <= N /\ marker'[t].head <= N
    <3>0. head[t] \in {None} \union Commits /\ marker[t] \in Marker
      BY <1>2 DEF LedgerTyped
    <3>1. head[t] \in Nat /\ marker[t].head \in Nat
      <4>1. marker[t].head \in {None} \union Commits
        BY <3>0 DEF Marker
      <4>2. {None} \union Commits \subseteq Nat
        BY Numbers
      <4>. QED BY <3>0, <4>1, <4>2
    <3>2. head[t] <= Newest /\ marker[t].head <= Newest
      BY DEF Ancestry
    <3>3. N \in Nat
      BY <1>4
    <3>. HIDE DEF N
    <3>. QED BY <1>4, <1>5, <3>1, <3>2, <3>3
  <2>3. ASSUME NEW c \in Commits, NEW d \in past'[c]
        PROVE  d < c /\ c <= N /\ past'[d] \subseteq past'[c]
    <3>1. CASE c = N
      <4>1. d \in Line(h) /\ d \in Commits /\ d # N
        BY <1>2, <1>3, <1>5, <1>8, <1>7, <3>1 DEF Line, LedgerTyped, Ancestry
      <4>2. d <= h /\ h <= Newest /\ past[d] \subseteq past[h]
        BY <1>2, <1>3, <1>6, <4>1 DEF Line, Ancestry
      <4>3. d < c /\ c <= N
        <5>1. N \in Nat /\ h \in Nat /\ d \in Nat
          BY <1>3, <1>4, <1>6, <4>1
        <5>. HIDE DEF N, h
        <5>. QED BY <1>4, <3>1, <4>2, <5>1
      <4>4. past'[d] = past[d] /\ past'[c] = past[h] \union {h}
        BY <1>5, <3>1, <4>1 DEF Line
      <4>. QED BY <4>2, <4>3, <4>4
    <3>2. CASE c # N
      <4>1. d \in past[c] /\ d \in Commits /\ d # N
        BY <1>5, <1>8, <3>2
      <4>2. d < c /\ c <= Newest /\ past[d] \subseteq past[c]
        BY <4>1 DEF Ancestry
      <4>. QED BY <1>4, <1>5, <1>6, <3>2, <4>1, <4>2
    <3>. QED BY <3>1, <3>2
  <2>4. ASSUME NEW c \in Commits, origin'[c] # None
        PROVE  c <= N /\ tree'[origin'[c]] \notin {"unused", "cloning"}
    BY <1>3, <1>4, <1>5, <1>6, <2>4 DEF Ancestry
  <2>. QED BY <1>5, <2>1, <2>2, <2>3, <2>4 DEF Ancestry
<1>10. Line(remote)' = Line(remote) /\ Live' = Live
  BY <1>2, <1>5, <1>7 DEF Line, Live, LedgerTyped
<1>11. MarkedOnTop'
  <2>1. ASSUME NEW t \in Clones, marker'[t].set = "whole"
        PROVE  /\ marker'[t].head \in Commits /\ past'[marker'[t].head] \subseteq Line(remote)
               /\ origin'[marker'[t].head] = t
    <3>1. marker[t].head \in Commits /\ marker[t].head # N
      BY <1>5, <1>7, <2>1 DEF MarkedOnTop
    <3>. QED BY <1>5, <2>1, <3>1 DEF MarkedOnTop
  <2>2. Target' = Target /\ head'[Target] = N /\ origin'[N] = Target /\ past'[N] = Line(h)
    BY <1>2, <1>4, <1>5
  <2>. QED BY <1>3, <1>4, <1>5, <1>10, <2>1, <2>2 DEF MarkedOnTop
<1>12. SyncKnows'
  <2>1. h \in Line(h)
    BY DEF Line
  <2>. QED BY <1>1, <1>2, <1>4, <1>5, <2>1 DEF SyncKnows
<1>13. LiveIsPending'
  <2>1. N \notin Live
    BY <1>2, <1>7, <1>8 DEF Live, Line, LedgerTyped
  <2>. QED BY <1>2, <1>5, <1>10, <2>1 DEF LiveIsPending
<1>. QED BY <1>9, <1>11, <1>12, <1>13

LEMMA MarkKeeps ==
  ASSUME TypeOK, Held, History, Mark
  PROVE  History'
<1>. USE DEF History, Goes
<1>1. pc \in {"mark", "marked"} /\ pc \in SyncSteps
  BY DEF Mark, SyncSteps
<1>2. LedgerTyped /\ Live \subseteq Commits /\ Target \in Clones /\ Clones \subseteq Trees
  BY <1>1, SyncClone
<1>3. /\ \A t \in Clones : t # Target => marker'[t] = marker[t]
      /\ marker'[Target] = [set |-> IF pc = "mark" THEN "torn" ELSE "whole",
                            head |-> head[Target], base |-> base]
      /\ UNCHANGED <<at, tree, head, remote, inflight, past, origin, recorded, undone, commits, base>>
      /\ pc' = IF pc = "mark" THEN "marked" ELSE "push"
  BY <1>2 DEF Mark, SyncKeeps, NoCommit, LedgerTyped
<1>4. /\ marker'[Target].head = head[Target]
      /\ marker'[Target].set = IF pc = "mark" THEN "torn" ELSE "whole"
  BY <1>3
<1>5. Ancestry'
  BY <1>2, <1>3, <1>4 DEF Ancestry, Newest
<1>6. MarkedOnTop'
  BY <1>1, <1>2, <1>3, <1>4 DEF MarkedOnTop, Line
<1>7. SyncKnows'
  BY <1>1, <1>3, <1>4 DEF SyncKnows, Line
<1>8. LiveIsPending'
  <2>1. Mine.set # "whole"
    BY <1>1 DEF SyncKnows
  <2>2. \A c \in Live : origin[c] # None => origin[c] \in Clones
    BY <1>2 DEF LedgerTyped
  <2>3. Live' = Live
    BY <1>3 DEF Live, Line
  <2>. QED BY <1>3, <2>1, <2>2, <2>3 DEF LiveIsPending
<1>. QED BY <1>5, <1>6, <1>7, <1>8

(* A commit that another stands on brings its own history along. *)
LEMMA LineUp ==
  ASSUME Ancestry, NEW b \in Commits, NEW a \in Line(b)
  PROVE  Line(a) \subseteq Line(b)
  BY DEF Ancestry, Line

(* The remote branch takes the commit of the clone, or the push is given up and may still arrive:
   what is new on the branch, or on its way, is this commit alone. *)
LEMMA PushKeeps ==
  ASSUME TypeOK, Held, History, Repush \/ Push
  PROVE  History'
<1>. USE DEF History, Goes
<1>. DEFINE h == head[Target]
<1>1. pc \in {"repush", "push"} /\ pc \in SyncSteps
  BY DEF Repush, Push, SyncSteps
<1>2. LedgerTyped /\ Live \subseteq Commits /\ Target \in Clones /\ Clones \subseteq Trees
  BY <1>1, SyncClone
<1>3. UNCHANGED <<at, tree, head, marker, past, origin, recorded, undone, commits>>
  BY DEF Repush, Push, SyncKeeps, NoCommit
<1>4. Mine.set = "whole" /\ Mine.head = h /\ h \in Commits /\ origin[h] = Target
      /\ past[h] \subseteq Line(remote)
  BY <1>1, <1>2 DEF SyncKnows, MarkedOnTop
<1>5. /\ \/ UNCHANGED <<remote, inflight>>
         \/ remote \in Line(h) /\ remote' = h /\ UNCHANGED inflight
         \/ UNCHANGED remote /\ inflight' = inflight \union {h}
      /\ \/ End
         \/ UNCHANGED base /\ pc' = "record"
         \/ UNCHANGED base /\ pc' = "check" /\ pc = "push"
  BY DEF Repush, Push, Pushes, Accepted, Line
<1>6. Line(remote) \subseteq Line(remote)' /\ Live' \subseteq Live \union {h}
  <2>1. \A c \in Commits : Line(c)' = Line(c)
    BY <1>3 DEF Line
  <2>2. remote \in Line(h) => Line(remote) \subseteq Line(h)
    BY <1>4, LineUp
  <2>3. Line(h) \subseteq Line(remote) \union {h}
    BY <1>4 DEF Line
  <2>. QED BY <1>2, <1>3, <1>4, <1>5, <2>1, <2>2, <2>3 DEF Live, Line, LedgerTyped
<1>7. Ancestry'
  <2>1. h <= Newest
    BY <1>2 DEF Ancestry
  <2>. QED BY <1>3, <1>5, <2>1 DEF Ancestry, Newest
<1>8. MarkedOnTop'
  BY <1>3, <1>5, <1>6 DEF MarkedOnTop, End
<1>9. SyncKnows'
  <2>1. CASE End
    BY <2>1 DEF End, SyncKnows
  <2>2. CASE UNCHANGED base /\ pc' = "record"
    BY <1>3, <1>4, <2>2 DEF SyncKnows
  <2>3. CASE UNCHANGED base /\ pc' = "check" /\ pc = "push"
    BY <1>3, <2>3 DEF SyncKnows
  <2>. QED BY <1>5, <2>1, <2>2, <2>3
<1>10. LiveIsPending'
  BY <1>3, <1>4, <1>6 DEF LiveIsPending
<1>. QED BY <1>7, <1>8, <1>9, <1>10

LEMMA RestoreKeeps ==
  ASSUME TypeOK, Held, History, Restore
  PROVE  History'
<1>. USE DEF History, Goes
<1>1. pc = "restore" /\ pc \in SyncSteps
  BY DEF Restore, SyncSteps
<1>2. LedgerTyped /\ Target \in Clones /\ Clones \subseteq Trees
  BY <1>1, SyncClone
<1>3. /\ head' = [head EXCEPT ![Target] = base] /\ pc' = "unmark"
      /\ UNCHANGED <<at, tree, marker, remote, inflight, past, origin, recorded, commits>>
      /\ undone \subseteq undone' /\ Mine.head \in undone'
  BY DEF Restore, SyncKeeps
<1>4. base <= Newest
  <2>1. Mine.head \in Commits /\ base \in past[Mine.head] /\ base \in Commits
    BY <1>1, <1>2 DEF SyncKnows, MarkedOnTop, LedgerTyped
  <2>2. base < Mine.head /\ Mine.head <= Newest
    BY <1>2, <2>1 DEF Ancestry
  <2>. QED BY <1>2, <2>1, <2>2, CommitNumbers
<1>5. Ancestry'
  BY <1>2, <1>3, <1>4 DEF Ancestry, Newest, LedgerTyped
<1>6. MarkedOnTop' /\ SyncKnows' /\ LiveIsPending'
  BY <1>1, <1>3 DEF MarkedOnTop, SyncKnows, LiveIsPending, Live, Line
<1>. QED BY <1>5, <1>6

LEMMA RecordKeeps ==
  ASSUME TypeOK, Held, History, Record
  PROVE  History'
<1>. USE DEF History, Goes
<1>1. pc = "record" /\ pc \in SyncSteps
  BY DEF Record, SyncSteps
<1>2. /\ recorded \subseteq recorded' /\ UNCHANGED <<at, tree, head, marker, remote, inflight, past,
                                                  origin, undone, commits>>
      /\ pc' = "idle" \/ (pc' = "unmark" /\ Mine.head \in recorded')
  BY DEF Record, AfterRecord, End, SyncKeeps, NoCommit
<1>3. Live' = Live /\ Ancestry' /\ MarkedOnTop'
  BY <1>2 DEF Live, Line, Ancestry, MarkedOnTop, Newest
<1>4. SyncKnows'
  BY <1>1, <1>2 DEF SyncKnows
<1>5. LiveIsPending'
  BY <1>2, <1>3 DEF LiveIsPending
<1>. QED BY <1>3, <1>4, <1>5

(* The marker goes when its commit is recorded, or is nowhere but in the clone. *)
LEMMA UnmarkKeeps ==
  ASSUME TypeOK, Held, History, Unmark
  PROVE  History'
<1>. USE DEF History, Goes
<1>1. pc \in {"unmark", "unmarked"} /\ pc \in SyncSteps
  BY DEF Unmark, SyncSteps
<1>2. LedgerTyped /\ Live \subseteq Commits /\ Target \in Clones /\ Clones \subseteq Trees /\ Mine \in Marker
  BY <1>1, SyncClone
<1>3. /\ \A t \in Clones : t # Target => marker'[t] = marker[t]
      /\ marker'[Target].set # "whole"
      /\ marker'[Target].head = Mine.head \/ (marker'[Target].head = None /\ pc' = "idle")
      /\ pc' \in {"unmarked", "idle"}
      /\ UNCHANGED <<at, tree, head, remote, inflight, past, origin, recorded, undone, commits>>
  BY <1>2 DEF Unmark, End, SyncKeeps, NoCommit, LedgerTyped, Marker, NoMarker
<1>4. Mine.head \in recorded \union undone /\ Live' = Live
  BY <1>1, <1>3 DEF SyncKnows, Live, Line
<1>5. Ancestry'
  <2>1. None <= Newest
    BY <1>2, CommitNumbers
  <2>. QED BY <1>2, <1>3, <2>1 DEF Ancestry, Newest
<1>6. MarkedOnTop'
  BY <1>3 DEF MarkedOnTop, Line
<1>7. SyncKnows'
  BY <1>3, <1>4 DEF SyncKnows
<1>8. LiveIsPending'
  <2>1. \A c \in Live : origin[c] # None => origin[c] \in Clones
    BY <1>2 DEF LedgerTyped
  <2>. QED BY <1>3, <1>4, <2>1 DEF LiveIsPending
<1>. QED BY <1>5, <1>6, <1>7, <1>8

(* A directory that is emptied takes its commits and its marker with it. *)
LEMMA EmptyKeeps ==
  ASSUME TypeOK, DeletesOurs, History, Empty
  PROVE  History'
<1>. USE DEF History, Goes
<1>1. LedgerTyped /\ TreeTyped /\ seen \in Clones /\ Clones \subseteq Trees /\ None <= Newest
  BY TypeParts, Numbers, CommitNumbers DEF Empty, DeletesOurs
<1>2. /\ tree[seen] \in {"whole", "partial"} /\ tree'[seen] \in {"partial", "empty"}
      /\ head'[seen] = None /\ marker'[seen].head = None /\ marker'[seen].set = "none"
      /\ \A t \in Clones \ {seen} : tree'[t] = tree[t] /\ head'[t] = head[t] /\ marker'[t] = marker[t]
      /\ UNCHANGED <<remote, inflight, past, origin, recorded, undone, commits>>
      /\ pc' \in {"empty", "rmdir"}
  BY <1>1 DEF Empty, TreeTyped, LedgerTyped, NoMarker
<1>3. Ancestry'
  BY <1>1, <1>2 DEF Ancestry, LedgerTyped, Newest
<1>4. MarkedOnTop' /\ SyncKnows'
  BY <1>2 DEF MarkedOnTop, SyncKnows, Line
<1>5. LiveIsPending'
  <2>1. Live' = Live /\ Live \subseteq Commits
    BY <1>1, <1>2, Numbers DEF Live, Line, LedgerTyped
  <2>. QED BY <1>1, <1>2, <2>1 DEF LiveIsPending, LedgerTyped
<1>. QED BY <1>3, <1>4, <1>5

(* A commit of others is made in no clone. *)
LEMMA OthersPushKeeps ==
  ASSUME TypeOK, Held, History, OthersPush
  PROVE  History'
<1>. USE DEF History
<1>. DEFINE N == NewCommit
<1>1. LedgerTyped /\ Live \subseteq Commits
  BY TypeParts, Numbers DEF Live, Line, LedgerTyped
<1>2. N \in Commits /\ N = Newest + 1 /\ N > Newest /\ Newest \in Nat /\ remote \in Nat
  BY <1>1, CommitNumbers DEF OthersPush
<1>3. /\ \A c \in Commits : past'[c] = IF c = N THEN Line(remote) ELSE past[c]
      /\ remote' = N /\ Newest' = N /\ pc # "commit"
      /\ UNCHANGED <<at, tree, head, marker, inflight, origin, recorded, undone, base, pc>>
  BY <1>1, <1>2 DEF OthersPush, OutsideKeeps, LedgerTyped, Newest, Line, NewCommit
<1>4. \A c \in Commits : c \in Nat
  BY <1>1, CommitNumbers
<1>5. /\ \A c \in Commits : c <= Newest => c # N
      /\ remote # N /\ N \notin inflight
      /\ \A t \in Clones : marker[t].head # N /\ head[t] # N
  BY <1>1, <1>2, <1>4, CommitNumbers DEF Ancestry
<1>6. origin[N] = None
  BY <1>2, <1>5 DEF Ancestry
<1>7. \A c \in Commits : \A d \in past[c] : d \in Commits /\ d # N
  BY <1>1, <1>2, <1>4 DEF Ancestry, LedgerTyped
<1>8. Ancestry'
  <2>1. \A c \in inflight : c <= N
    BY <1>1, <1>2, CommitNumbers DEF Ancestry
  <2>2. ASSUME NEW t \in Clones PROVE head[t] <= N /\ marker[t].head <= N
    <3>1. head[t] \in {None} \union Commits /\ marker[t] \in Marker
      BY <1>1, Numbers DEF LedgerTyped
    <3>2. marker[t].head \in {None} \union Commits
      BY <3>1 DEF Marker
    <3>3. {None} \union Commits \subseteq Nat
      BY Numbers
    <3>4. head[t] <= Newest /\ marker[t].head <= Newest /\ head[t] \in Nat /\ marker[t].head \in Nat
      BY <3>1, <3>2, <3>3 DEF Ancestry
    <3>5. N \in Nat
      BY <1>2
    <3>. HIDE DEF N
    <3>. QED BY <1>2, <3>4, <3>5
  <2>3. ASSUME NEW c \in Commits, NEW d \in past'[c]
        PROVE  d < c /\ c <= N /\ past'[d] \subseteq past'[c]
    <3>1. CASE c = N
      <4>1. d \in Line(remote) /\ d \in Commits /\ d # N
        BY <1>1, <1>3, <1>7, <1>5, <3>1 DEF Line, LedgerTyped
      <4>2. d <= remote /\ remote <= Newest /\ past[d] \subseteq past[remote]
        BY <1>1, <1>2, <1>4, <4>1 DEF Line, Ancestry, LedgerTyped
      <4>3. d < c /\ c <= N
        <5>1. N \in Nat /\ d \in Nat
          BY <1>2, <1>4, <4>1
        <5>. HIDE DEF N
        <5>. QED BY <1>2, <3>1, <4>2, <5>1
      <4>4. past'[d] = past[d] /\ past'[c] = past[remote] \union {remote}
        BY <1>3, <3>1, <4>1 DEF Line
      <4>. QED BY <4>2, <4>3, <4>4
    <3>2. CASE c # N
      <4>1. d \in past[c] /\ d \in Commits /\ d # N
        BY <1>3, <1>7, <3>2
      <4>2. d < c /\ c <= Newest /\ past[d] \subseteq past[c]
        BY <4>1 DEF Ancestry
      <4>3. c <= N
        <5>1. N \in Nat /\ c \in Nat
          BY <1>2, <1>4
        <5>. HIDE DEF N
        <5>. QED BY <1>2, <4>2, <5>1
      <4>. QED BY <1>3, <3>2, <4>1, <4>2, <4>3
    <3>. QED BY <3>1, <3>2
  <2>4. ASSUME NEW c \in Commits, origin[c] # None
        PROVE  c <= N /\ tree[origin[c]] \notin {"unused", "cloning"}
    <3>1. c <= Newest /\ tree[origin[c]] \notin {"unused", "cloning"}
      BY <2>4 DEF Ancestry
    <3>2. N \in Nat /\ c \in Nat
      BY <1>2, <1>4
    <3>. HIDE DEF N
    <3>. QED BY <1>2, <3>1, <3>2
  <2>5. N <= N
    BY <1>2
  <2>. QED BY <1>3, <2>1, <2>2, <2>3, <2>4, <2>5 DEF Ancestry
<1>9. /\ Line(remote) \subseteq Line(remote)' /\ Live' \subseteq Live \union {N}
  BY <1>1, <1>2, <1>3, <1>5 DEF Line, Live, LedgerTyped
<1>10. N \notin Live
  BY <1>1, <1>5, <1>7 DEF Live, Line, LedgerTyped
<1>11. MarkedOnTop'
  <2>1. ASSUME NEW t \in Clones, marker[t].set = "whole"
        PROVE  past'[marker[t].head] \subseteq Line(remote)'
    <3>1. marker[t].head \in Commits /\ past[marker[t].head] \subseteq Line(remote)
      BY <2>1 DEF MarkedOnTop
    <3>. QED BY <1>3, <1>5, <1>9, <3>1
  <2>2. ASSUME pc \in {"mark", "marked"} PROVE past'[head[Target]] \subseteq Line(remote)'
    <3>1. Target \in Clones /\ head[Target] \in Commits /\ past[head[Target]] \subseteq Line(remote)
      BY <2>2 DEF MarkedOnTop, Held, SyncSteps
    <3>. QED BY <1>3, <1>5, <1>9, <3>1
  <2>. QED BY <1>3, <2>1, <2>2 DEF MarkedOnTop
<1>12. SyncKnows'
  <2>1. ASSUME pc \in {"mark", "marked"} PROVE past'[head[Target]] = past[head[Target]]
    BY <1>3, <1>5, <2>1 DEF MarkedOnTop, Held, SyncSteps
  <2>2. ASSUME pc \in {"push", "check", "restore"} PROVE past'[Mine.head] = past[Mine.head]
    BY <1>3, <1>5, <2>2 DEF MarkedOnTop, SyncKnows, Held, SyncSteps
  <2>. QED BY <1>3, <2>1, <2>2 DEF SyncKnows
<1>13. LiveIsPending'
  BY <1>3, <1>6, <1>9 DEF LiveIsPending
<1>. QED BY <1>8, <1>11, <1>12, <1>13

(* The push that was given up arrives, or comes too late. *)
LEMMA ArriveKeeps ==
  ASSUME TypeOK, Held, History, NEW c \in inflight, Arrive(c)
  PROVE  History'
<1>. USE DEF History
<1>1. LedgerTyped /\ c \in Commits
  BY TypeParts DEF LedgerTyped
<1>2. /\ inflight' \subseteq inflight /\ remote' = IF remote \in past[c] THEN c ELSE remote
      /\ UNCHANGED <<at, tree, head, marker, past, origin, recorded, undone, commits, base, pc>>
  BY DEF Arrive, OutsideKeeps
<1>3. Line(remote) \subseteq Line(remote)' /\ Live' \subseteq Live
  <2>1. remote \in past[c] => Line(remote) \subseteq Line(c)
    BY <1>1, LineUp DEF Line
  <2>2. \A d \in Commits : Line(d)' = Line(d)
    BY <1>2 DEF Line
  <2>3. remote' \in Commits /\ Line(remote)' = past[remote'] \union {remote'}
    BY <1>1, <1>2 DEF LedgerTyped, Line
  <2>. QED BY <1>1, <1>2, <2>1, <2>2, <2>3 DEF Live, Line, LedgerTyped
<1>4. Ancestry'
  BY <1>2 DEF Ancestry, Newest
<1>5. MarkedOnTop'
  <2>1. pc = "commit" => Line(head[Target])' = Line(head[Target])
    BY <1>2 DEF Line
  <2>. QED BY <1>2, <1>3, <2>1 DEF MarkedOnTop
<1>6. SyncKnows' /\ LiveIsPending'
  BY <1>2, <1>3 DEF SyncKnows, LiveIsPending
<1>. QED BY <1>4, <1>5, <1>6

(* What was taken back is put away only in a later commit: the worktree stays as it is until then. *)
LEMMA UndoneStep ==
  ASSUME TypeOK, Held, NamesKept, DeletesOurs, History, UndoneKept, [Next]_vars
  PROVE  UndoneKept'
<1>0. LedgerTyped /\ TreeTyped /\ FlagTyped /\ Clones \subseteq Trees /\ 0 \notin Trees
  BY TypeParts, Numbers
<1>1. \A c \in Commits : c \in Nat
  BY <1>0, CommitNumbers
(* A step that takes nothing back, makes no directory new, and leaves each whole one its worktree
   or moves it on. *)
<1>a. ASSUME undone' = undone, origin' = origin \/ \A c \in undone : origin'[c] = origin[c],
             \A t \in Clones : tree[t] \notin {"unused", "cloning"} =>
               /\ tree'[t] \notin {"unused", "cloning"}
               /\ tree'[t] = "whole" =>
                    /\ tree[t] = "whole"
                    /\ \/ dirty'[t]
                       \/ dirty'[t] = dirty[t] /\ head'[t] = head[t]
                       \/ \A c \in undone : origin[c] = t => head'[t] > c
      PROVE  UndoneKept'
  BY <1>a DEF UndoneKept
<1>. USE DEF Goes, Sees
<1>2. CASE \/ \E p \in Procs : Prepare(p) \/ Find(p) \/ \E o \in Ops : Acquire(p, o)
           \/ Cut \/ Disable \/ Enable \/ Reset \/ Revoke \/ UNCHANGED vars
  <2>1. UNCHANGED <<undone, origin, tree, dirty, head>>
    BY <1>2 DEF Prepare, Find, Acquire, Cut, Disable, Enable, Reset, Revoke, vars
  <2>. QED BY <1>a, <2>1
<1>3. CASE OthersPush \/ (\E c \in inflight : Arrive(c)) \/ \E n \in Paths : Swap(n)
  <2>1. UNCHANGED <<undone, origin, tree, dirty, head>>
    BY <1>3 DEF OthersPush, Arrive, Swap, OutsideKeeps
  <2>. QED BY <1>a, <2>1
<1>4. CASE Resume \/ Repush \/ Fetch \/ Mark \/ Push \/ Check \/ Record \/ Unmark
  <2>1. UNCHANGED <<undone, origin, tree, dirty, head>>
    BY <1>4 DEF Resume, Repush, Fetch, Mark, Push, Check, Record, Unmark, SyncKeeps, NoCommit
  <2>. QED BY <1>a, <2>1
<1>5. CASE Edit
  <2>1. UNCHANGED <<undone, origin, tree, head>> /\ dirty' = [dirty EXCEPT ![Target] = TRUE]
    BY <1>5 DEF Edit, OutsideKeeps
  <2>. QED BY <1>0, <1>a, <2>1 DEF FlagTyped
<1>6. CASE Reconcile
  <2>1. /\ UNCHANGED <<undone, origin, dirty, head>>
        /\ tree' = IF at["staging"] = None THEN tree ELSE [tree EXCEPT ![at["staging"]] = "gone"]
    BY <1>6 DEF Reconcile
  <2>. QED BY <1>0, <1>a, <2>1 DEF TreeTyped
<1>7. CASE Clone
  <2>1. UNCHANGED <<undone, origin, dirty>>
    BY <1>7 DEF Clone
  <2>2. CASE at["staging"] = None
    <3>1. Unused \in Clones /\ tree[Unused] = "unused"
      BY <1>7, <2>2, UnusedClone DEF Clone
    <3>2. head' = head /\ tree' = [tree EXCEPT ![Unused] = "cloning"]
      BY <1>7, <2>2 DEF Clone
    <3>. QED BY <1>0, <1>a, <2>1, <3>1, <3>2 DEF TreeTyped
  <2>3. CASE at["staging"] # None
    <3>1. tree[at["staging"]] = "cloning" /\ at["staging"] \in Trees
      BY <1>0, <2>3 DEF NamesKept
    <3>2. \A t \in Trees \ {at["staging"]} : tree'[t] = tree[t] /\ head'[t] = head[t]
      BY <1>0, <1>7, <2>3, <3>1 DEF Clone, TreeTyped, LedgerTyped
    <3>. QED BY <1>0, <1>a, <2>1, <3>1, <3>2
  <2>. QED BY <2>2, <2>3
<1>8. CASE Refresh
  <2>1. UNCHANGED <<undone, origin, tree, dirty>>
    BY <1>8 DEF Refresh
  <2>2. CASE head' = head
    BY <1>a, <2>1, <2>2
  <2>3. CASE head' # head
    <3>1. ~dirty[Target] /\ head[Target] \in past[remote] /\ head' = [head EXCEPT ![Target] = remote]
      BY <1>8, <2>3 DEF Refresh
    <3>2. ASSUME NEW c \in undone, origin[c] = Target, tree[Target] = "whole" PROVE remote > c
      <4>1. head[Target] > c /\ c \in Nat /\ Target \in Clones
        BY <1>1, <3>1, <3>2 DEF UndoneKept
      <4>2. head[Target] \in Commits /\ head[Target] < remote /\ remote \in Nat
        BY <1>0, <3>1, CommitNumbers DEF History, Ancestry, LedgerTyped
      <4>. QED BY <1>1, <4>1, <4>2
    <3>3. \A t \in Trees : head'[t] = IF t = Target THEN remote ELSE head[t]
      BY <1>0, <3>1 DEF LedgerTyped
    <3>. QED BY <1>0, <1>a, <2>1, <3>2, <3>3
  <2>. QED BY <2>2, <2>3
<1>9. CASE Commit
  <2>0. Target \in Clones
    BY <1>9 DEF Commit, Held, SyncSteps
  <2>1. NewCommit \in Commits /\ NewCommit = Newest + 1 /\ Newest \in Nat
    BY <1>0, <1>9, CommitNumbers DEF Commit
  <2>2. /\ undone' = undone /\ tree' = tree
        /\ \A t \in Trees : head'[t] = IF t = Target THEN NewCommit ELSE head[t]
        /\ \A t \in Trees \ {Target} : dirty'[t] = dirty[t]
        /\ \A c \in Commits : origin'[c] = IF c = NewCommit THEN Target ELSE origin[c]
    BY <1>0, <1>9, <2>1 DEF Commit, SyncKeeps, LedgerTyped, FlagTyped
  <2>3. \A c \in undone : c \in Commits /\ c <= Newest
    BY Numbers DEF UndoneKept, History, Ancestry
  <2>4. \A c \in undone : c # NewCommit /\ NewCommit > c
    <3>. SUFFICES ASSUME NEW c \in undone PROVE c # NewCommit /\ NewCommit > c
      OBVIOUS
    <3>1. c \in Nat /\ c <= Newest
      BY <1>1, <2>3
    <3>. QED BY <2>1, <3>1
  <2>5. \A c \in undone : origin'[c] = origin[c]
    BY <2>2, <2>3, <2>4
  <2>. QED BY <1>0, <1>a, <2>2, <2>4, <2>5
<1>10. CASE Restore
  <2>1. Target \in Clones /\ Mine.head \in Commits /\ origin[Mine.head] = Target
        /\ tree[Target] \notin {"unused", "cloning"}
    BY <1>10, Numbers DEF Restore, Held, SyncSteps, History, SyncKnows, MarkedOnTop, NamesKept
  <2>2. /\ undone' = undone \union {Mine.head} /\ UNCHANGED <<tree, origin>>
        /\ dirty'[Target] = TRUE
        /\ \A t \in Trees \ {Target} : dirty'[t] = dirty[t] /\ head'[t] = head[t]
    BY <1>0, <1>10, <2>1 DEF Restore, SyncKeeps, LedgerTyped, FlagTyped
  <2>. QED BY <1>0, <2>1, <2>2 DEF UndoneKept
<1>11. CASE Empty
  <2>1. /\ UNCHANGED <<undone, origin>> /\ seen \in Clones /\ tree'[seen] \in {"partial", "empty"}
        /\ \A t \in Clones \ {seen} : tree'[t] = tree[t] /\ head'[t] = head[t] /\ dirty'[t] = dirty[t]
    BY <1>0, <1>11 DEF Empty, DeletesOurs, TreeTyped, LedgerTyped, FlagTyped
  <2>. QED BY <1>a, <2>1
<1>12. CASE DeleteLocal /\ ~Empty
  <2>1. UNCHANGED <<undone, origin, dirty, head>>
    BY <1>12 DEF DeleteLocal, ReadJournal, Inspect, RecheckTree, Quarantine, Compare, WritePhase, Open,
                Rmdir, WriteRemoved, ClearJournal, DeleteKeeps
  <2>2. tree' = tree \/ tree' = [tree EXCEPT ![at["quarantine"]] = "gone"]
    BY <1>12 DEF DeleteLocal, ReadJournal, Inspect, RecheckTree, Quarantine, Compare, WritePhase, Open,
                Rmdir, WriteRemoved, ClearJournal, DeleteKeeps
  <2>. QED BY <1>0, <1>a, <2>1, <2>2 DEF TreeTyped
<1>. QED
  BY <1>2, <1>3, <1>4, <1>5, <1>6, <1>7, <1>8, <1>9, <1>10, <1>11, <1>12
     DEF Next, Work, Checkout, Sync

LEMMA HistoryStep ==
  ASSUME TypeOK, Held, NamesKept, DeletesOurs, History, [Next]_vars
  PROVE  History'
<1>1. Quiet => History'
  BY QuietKeeps, TypeParts
<1>2. CASE \/ \E p \in Procs : Prepare(p) \/ Find(p) \/ \E o \in Ops : Acquire(p, o)
           \/ Cut \/ Reset \/ Revoke \/ DeleteLocal
           \/ Edit \/ (\E n \in Paths : Swap(n)) \/ UNCHANGED vars
  BY <1>1, <1>2, QuietSteps, EmptyKeeps
<1>3. CASE Checkout
  BY <1>1, <1>3, QuietSteps, CloneKeeps, RefreshKeeps DEF Checkout
<1>4. CASE Sync
  BY <1>4, LookKeeps, CommitKeeps, MarkKeeps, PushKeeps, RestoreKeeps, RecordKeeps, UnmarkKeeps DEF Sync
<1>5. CASE OthersPush \/ \E c \in inflight : Arrive(c)
  BY <1>5, OthersPushKeeps, ArriveKeeps
<1>. QED BY <1>2, <1>3, <1>4, <1>5 DEF Next, Work

-----------------------------------------------------------------------------
(* Theorems *)

LEMMA InvarianceInit == Init => IInv
<1>. SUFFICES ASSUME Init PROVE IInv
  OBVIOUS
<1>1. TypeOK
  BY TypeInit
<1>2. Held /\ NamesKept /\ DeletesOurs
  BY Numbers DEF Init, Held, NamesKept, DeletesOurs, NoJournal, SyncSteps
<1>3. Newest = 1
  BY DEF Init, Newest
<1>4. Ancestry /\ MarkedOnTop
  BY <1>3, Numbers DEF Init, Ancestry, MarkedOnTop, NoMarker
<1>5. SyncKnows /\ LiveIsPending /\ UndoneKept
  BY Numbers DEF Init, SyncKnows, LiveIsPending, UndoneKept, Live, Line
<1>. QED BY <1>1, <1>2, <1>4, <1>5 DEF IInv

LEMMA InvarianceStep == IInv /\ [Next]_vars => IInv'
<1>. SUFFICES ASSUME IInv, [Next]_vars PROVE IInv'
  OBVIOUS
<1>1. TypeOK'
  <2>1. CallTyped /\ TreeTyped /\ FlagTyped /\ LedgerTyped
    BY TypeParts DEF IInv
  <2>2. CallTyped' /\ TreeTyped' /\ FlagTyped' /\ LedgerTyped'
    BY <2>1, CallStep, TreeStep, FlagStep, LedgerStep DEF IInv
  <2>. QED BY <2>2 DEF TypeOK, CallTyped, TreeTyped, FlagTyped, LedgerTyped
<1>2. Held' /\ NamesKept' /\ DeletesOurs'
  BY HeldStep, NamesStep, DeletesOursStep DEF IInv
<1>3. History' /\ UndoneKept'
  BY HistoryStep, UndoneStep DEF IInv, History
<1>. QED BY <1>1, <1>2, <1>3 DEF IInv, History

(* The calls, the lock, the clones and the commits only ever reach states of IInv. *)
THEOREM Invariance == Spec => []IInv
  BY InvarianceInit, InvarianceStep, PTL DEF Spec

(* Every variable keeps its type, in particular the program counter of the holder of the lock. *)
THEOREM TypeCorrect == Spec => []TypeOK
<1>1. IInv => TypeOK
  BY DEF IInv
<1>. QED BY Invariance, <1>1, PTL

(* delete_local empties what it has validated: a directory of another program, put in the place of
   the clone between any two of its steps or before its resumption, stays whole. *)
THEOREM OthersKept == Spec => []OthersTreesKept
<1>1. IInv => OthersTreesKept
  BY DEF IInv, DeletesOurs, OthersTreesKept
<1>. QED BY Invariance, <1>1, PTL

(* A commit that sync has made and the remote branch has, by a push that was answered, lost, given
   up or reported as failed, is recorded by the platform, marked as pending in its clone, or was
   taken back there with its changes kept. *)
THEOREM UnrecordedPending == Spec => []UnrecordedIsPending
<1>1. IInv => UnrecordedIsPending
  <2>. SUFFICES ASSUME IInv, NEW c \in Line(remote) \ recorded,
                       origin[c] # None, tree[origin[c]] = "whole"
                PROVE  \/ marker[origin[c]].set = "whole" /\ marker[origin[c]].head = c
                       \/ c \in undone /\ (dirty[origin[c]] \/ head[origin[c]] > c)
    BY DEF UnrecordedIsPending, Line
  <2>1. c \in Live
    BY TypeParts DEF IInv, Live, Line, LedgerTyped
  <2>. QED BY <2>1 DEF IInv, LiveIsPending, UndoneKept
<1>. QED BY Invariance, <1>1, PTL

(* A clone is marked with a commit of its own only, and below that commit is nothing that the
   remote branch does not have: a sync never pushes more than one new commit. *)
THEOREM OnePending == Spec => []MarkedOnTop
<1>1. IInv => MarkedOnTop
  BY DEF IInv
<1>. QED BY Invariance, <1>1, PTL
=============================================================================
