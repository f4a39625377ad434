---------------------------- MODULE HatRepository ----------------------------
(***************************************************************************)
(* The local clone of one granted Hat repository: checkout, sync, reset    *)
(* and delete_local, called by several processes of the Computer at once   *)
(* and serialised by a file lock, with the platform and the remote host    *)
(* outside.  A call asks the platform for access before it has the lock.   *)
(*                                                                         *)
(* sync commits the chosen changes, marks the commit as pending in the     *)
(* Git configuration of the clone, pushes it and has the platform record   *)
(* it; a later sync resumes from the marker.  delete_local moves exactly   *)
(* the directory it has validated into quarantine, writes each phase to a  *)
(* journal, and resumes from the journal.  A process may be killed, or its *)
(* call cancelled, between any two steps; commands of Git fail, answers    *)
(* are lost, others push, and another program may swap a directory.        *)
(***************************************************************************)
EXTENDS Integers, FiniteSets

CONSTANTS
  Procs,       \* processes that call hat_repository.run
  Uses,        \* bound: the operations each process calls
  MaxTrees,    \* bound: clones over time
  MaxCommits,  \* bound: commits after the first
  MaxFaults,   \* bound: failed commands and lost answers
  MaxCuts      \* bound: kills and cancellations, and directories swapped by others

Ops     == {"checkout", "sync", "reset", "delete"}

Nobody  == "nobody"

ASSUME UsesAssumption == Nobody \notin Procs /\ Uses \in [Procs -> SUBSET Ops]
ASSUME LimitsAssumption ==
  MaxTrees \in Nat \ {0} /\ MaxCommits \in Nat /\ MaxFaults \in Nat /\ MaxCuts \in Nat

VARIABLES
  call,     \* the call of each process, what it has done before it has the lock
  lock,     \* the process that holds the lock of the checkout
  pc,       \* where the holder is
  seen,     \* the directory it looked at (stat)
  base,     \* the head it started its commit from
  retried,  \* it resumes: an earlier pending commit, an earlier deletion
  at,       \* the directory under each of the three names
  tree,     \* what is left of each directory
  helper,   \* its credential helper is configured
  known,    \* its identity (handle, grant, owner, repository) is recorded in it
  head, dirty,   \* its commit, and whether it holds selected changes
  marker,   \* its pending-sync keys
  journal,  \* the deletion journal
  grant,    \* the platform: the grant is active
  remote,   \* the branch at the remote host
  inflight, \* pushes that failed, or were given up, and may still arrive
  past, origin, recorded, \* the commits: what came before, the clone where sync made it, and
                          \* whether the platform has recorded it
  undone,   \* history: commits taken back after a fetch that saw the branch without them
  commits, resets, faults, cuts

locals  == <<pc, seen, base, retried>>
calls   == <<call, lock>>
trees   == <<at, tree, helper, known, head, dirty, marker>>
hub     == <<grant, remote, inflight, past, origin, recorded, undone, commits>>
vars    == <<calls, locals, trees, journal, hub, resets, faults, cuts>>

None    == 0
First   == 1
Commits == First..(First + MaxCommits)
(* A directory is its identity (st_dev, st_ino).  The directory of another program has one of its
   own: the clone it takes the place of is moved aside and still there, so that its number is not
   free for another. *)
Foreign == MaxTrees + 1
Clones  == 1..MaxTrees
Trees   == Clones \union {Foreign}
Paths   == {"target", "staging", "quarantine"}

Steps == {"idle", "reconcile", "clone", "disable", "enable", "refresh",
          "resume", "repush", "fetch", "commit", "mark", "marked", "push", "check", "restore",
          "record", "unmark", "unmarked", "reset", "revoke",
          "read", "inspect", "recheck", "quarantine", "compare", "phase", "open", "empty",
          "rmdir", "removed", "clear"}

Marker   == [set : {"none", "torn", "whole"}, head : {None} \union Commits,
             base : {None} \union Commits]
NoMarker == [set |-> "none", head |-> None, base |-> None]
Journal  == [phase : {"none", "validated", "quarantined", "removed"}, tree : {None} \union Trees]
NoJournal == [phase |-> "none", tree |-> None]

TypeOK ==
  /\ call \in [Procs -> {"none", "prepared", "found"} \union Ops] /\ lock \in Procs \union {Nobody}
  /\ pc \in Steps /\ seen \in {None} \union Trees /\ base \in {None} \union Commits
  /\ retried \in BOOLEAN
  /\ at \in [Paths -> {None} \union Trees]
  /\ tree \in [Trees -> {"unused", "cloning", "whole", "partial", "empty", "gone"}]
  /\ helper \in [Trees -> BOOLEAN] /\ known \in [Trees -> BOOLEAN]
  /\ head \in [Trees -> {None} \union Commits] /\ dirty \in [Trees -> BOOLEAN]
  /\ marker \in [Trees -> Marker] /\ journal \in Journal
  /\ grant \in BOOLEAN /\ remote \in Commits /\ inflight \subseteq Commits
  /\ past \in [Commits -> SUBSET Commits]
  /\ origin \in [Commits -> {None} \union Clones] /\ recorded \subseteq Commits /\ undone \subseteq Commits
  /\ commits \in 0..MaxCommits

Init ==
  /\ call = [p \in Procs |-> "none"] /\ lock = Nobody
  /\ pc = "idle" /\ seen = None /\ base = None /\ retried = FALSE
  /\ at = [n \in Paths |-> None]
  /\ tree = [t \in Trees |-> IF t = Foreign THEN "whole" ELSE "unused"]
  /\ helper = [t \in Trees |-> FALSE] /\ known = [t \in Trees |-> FALSE]
  /\ head = [t \in Trees |-> None] /\ dirty = [t \in Trees |-> FALSE]
  /\ marker = [t \in Trees |-> NoMarker] /\ journal = NoJournal
  /\ grant = FALSE /\ remote = First /\ inflight = {}
  /\ past = [c \in Commits |-> {}] /\ origin = [c \in Commits |-> None] /\ recorded = {} /\ undone = {}
  /\ commits = 0
  /\ resets = 0 /\ faults = 0 /\ cuts = 0

Fault == faults < MaxFaults /\ faults' = faults + 1
CutOff == cuts < MaxCuts /\ cuts' = cuts + 1
Fine  == UNCHANGED faults

Target == at["target"]

-----------------------------------------------------------------------------
(* Calls and the lock. *)

(* checkout and sync first ask for access, which makes the grant active. *)
Prepare(p) ==
  /\ call[p] = "none" /\ Uses[p] \intersect {"checkout", "sync"} # {}
  /\ call' = [call EXCEPT ![p] = "prepared"] /\ grant' = TRUE
  /\ UNCHANGED <<lock, locals, trees, journal, remote, inflight, past, origin, recorded, undone,
                 commits, resets, faults, cuts>>

(* reset looks for the clone first. *)
Find(p) ==
  /\ call[p] = "none" /\ "reset" \in Uses[p] /\ resets = 0 /\ Target \in Clones
  /\ call' = [call EXCEPT ![p] = "found"] /\ resets' = 1
  /\ UNCHANGED <<lock, locals, trees, journal, hub, faults, cuts>>

Before(o) == CASE o = "delete" -> "none" [] o = "reset" -> "found" [] OTHER -> "prepared"

FirstStep(o) ==
  CASE o = "checkout" -> IF Target = None THEN "reconcile" ELSE "disable"
    [] o = "sync"     -> "disable"
    [] o = "reset"    -> "reset"
    [] o = "delete"   -> "read"

Acquire(p, o) ==
  /\ lock = Nobody /\ o \in Uses[p] /\ call[p] = Before(o)
  /\ lock' = p /\ call' = [call EXCEPT ![p] = o] /\ pc' = FirstStep(o)
  /\ UNCHANGED <<seen, base, retried, trees, journal, hub, resets, faults, cuts>>

(* The call returns or raises; the lock is released and nothing but the files remains. *)
End ==
  /\ pc' = "idle" /\ seen' = None /\ base' = None /\ retried' = FALSE
  /\ lock' = Nobody /\ call' = [call EXCEPT ![lock] = "none"]

Goes(s)  == pc' = s /\ UNCHANGED <<calls, seen, base, retried>>
At(s)    == pc = s
Op       == call[lock]

(* The process is killed, or its call is cancelled: the step under way is finished or not begun. *)
Cut ==
  /\ lock # Nobody /\ CutOff /\ End
  /\ UNCHANGED <<trees, journal, hub, resets, faults>>

-----------------------------------------------------------------------------
(* checkout: clone under a staging name, rename, configure, fetch, fast-forward. *)

(* A clone that an earlier call left under the staging name is removed. *)
Reconcile ==
  /\ At("reconcile")
  /\ at' = [at EXCEPT !["staging"] = None]
  /\ tree' = IF at["staging"] = None THEN tree ELSE [tree EXCEPT ![at["staging"]] = "gone"]
  /\ IF \E t \in Clones : tree[t] = "unused" THEN Goes("clone") ELSE End
  /\ UNCHANGED <<helper, known, head, dirty, marker, journal, hub, resets, faults, cuts>>

Unused == CHOOSE t \in Clones : tree[t] = "unused"

Clone ==
  /\ At("clone")
  /\ \/ /\ at["staging"] = None
        /\ at' = [at EXCEPT !["staging"] = Unused]
        /\ tree' = [tree EXCEPT ![Unused] = "cloning"]
        /\ Goes("clone") /\ UNCHANGED head
     \/ /\ at["staging"] # None /\ grant
        /\ LET t == at["staging"]
           IN  /\ at' = [at EXCEPT !["staging"] = None, !["target"] = t]
               /\ tree' = [tree EXCEPT ![t] = "whole"]
               /\ head' = [head EXCEPT ![t] = remote]
        /\ Goes("disable")
     \/ /\ at["staging"] # None /\ ~grant
        /\ at' = [at EXCEPT !["staging"] = None]
        /\ tree' = [tree EXCEPT ![at["staging"]] = "gone"]
        /\ UNCHANGED head /\ End
  /\ UNCHANGED <<helper, known, dirty, marker, journal, hub, resets, faults, cuts>>

(* _configure_checkout, for checkout and sync: every inherited helper is shadowed, then the
   helper of this grant is added and the identity recorded. *)
Disable ==
  /\ At("disable")
  /\ IF Target \in Clones
     THEN helper' = [helper EXCEPT ![Target] = FALSE] /\ Goes("enable")
     ELSE UNCHANGED helper /\ End
  /\ UNCHANGED <<at, tree, known, head, dirty, marker, journal, hub, resets, faults, cuts>>

Enable ==
  /\ At("enable")
  /\ helper' = [helper EXCEPT ![Target] = TRUE]
  /\ known' = [known EXCEPT ![Target] = TRUE]
  /\ Goes(IF Op = "sync" THEN "resume" ELSE "refresh")
  /\ UNCHANGED <<at, tree, head, dirty, marker, journal, hub, resets, faults, cuts>>

(* A command of Git that talks to the remote host needs the helper and an active grant. *)
Reaches == helper[Target] /\ grant

(* A clean clone follows the remote branch; one with changes, or ahead of it, is left alone. *)
Refresh ==
  /\ At("refresh")
  /\ End
  /\ IF Reaches /\ ~dirty[Target] /\ head[Target] \in past[remote]
     THEN head' = [head EXCEPT ![Target] = remote]
     ELSE UNCHANGED head
  /\ UNCHANGED <<at, tree, helper, known, dirty, marker, journal, hub, resets, faults, cuts>>

-----------------------------------------------------------------------------
(* sync. *)

SyncKeeps == UNCHANGED <<at, tree, helper, known, journal, grant, resets, cuts>>
NoCommit  == UNCHANGED <<past, origin, undone, commits>>
Mine      == marker[Target]

(* Mutant of TakenUp: sync goes on to a commit of its own. *)
PassedOver == "fetch"

TakenUp == IF remote = Mine.base THEN "repush" ELSE "record"

(* The pending commit is taken up if its keys are all there and the clone still ends with it. *)
Resume ==
  /\ At("resume")
  /\ IF Mine.set = "torn" THEN End
     ELSE IF Mine.set = "none" THEN Goes("fetch")
     ELSE IF head[Target] = Mine.head /\ Reaches
             /\ remote \in {Mine.base, Mine.head}
          THEN /\ pc' = TakenUp
               /\ retried' = TRUE /\ base' = Mine.base /\ UNCHANGED <<calls, seen>>
          ELSE End
  /\ SyncKeeps /\ NoCommit /\ UNCHANGED <<head, dirty, marker, remote, inflight, recorded, faults>>

(* git push: it is accepted when the branch is still where the commit began, and its answer may
   be lost; one that failed, or was given up after its time, may still arrive later. *)
Accepted == Reaches /\ remote \in past[head[Target]] \union {head[Target]}

Pushes(done, failed) ==
  \/ Accepted /\ remote' = head[Target] /\ Goes(done) /\ UNCHANGED inflight /\ Fine
  \/ Accepted /\ remote' = head[Target] /\ failed /\ UNCHANGED inflight /\ Fault
  \/ ~Accepted /\ UNCHANGED <<remote, inflight>> /\ failed /\ Fine
  \/ Accepted /\ UNCHANGED <<remote, inflight>> /\ failed /\ Fault
  \/ Accepted /\ UNCHANGED remote /\ inflight' = inflight \union {head[Target]}
     /\ (failed \/ End) /\ Fault

Repush ==
  /\ At("repush") /\ Pushes("record", End)
  /\ SyncKeeps /\ NoCommit /\ UNCHANGED <<head, dirty, marker, recorded>>

(* A new commit needs a clone that is level with the remote branch, and changes. *)
Fetch ==
  /\ At("fetch")
  /\ IF Reaches /\ head[Target] = remote /\ dirty[Target] /\ commits < MaxCommits
     THEN Goes("commit") ELSE End
  /\ SyncKeeps /\ NoCommit /\ UNCHANGED <<head, dirty, marker, remote, inflight, recorded, faults>>

NewCommit == First + commits + 1

Commit ==
  /\ At("commit") /\ commits < MaxCommits
  /\ head' = [head EXCEPT ![Target] = NewCommit]
  /\ dirty' = [dirty EXCEPT ![Target] = FALSE]
  /\ past' = [past EXCEPT ![NewCommit] = past[head[Target]] \union {head[Target]}]
  /\ origin' = [origin EXCEPT ![NewCommit] = Target] /\ commits' = commits + 1
  /\ base' = head[Target] /\ pc' = "mark" /\ UNCHANGED <<calls, seen, retried>>
  /\ SyncKeeps /\ UNCHANGED <<undone, marker, remote, inflight, recorded, faults>>

(* Three keys, one git command each: a kill leaves some of them. *)
Mark ==
  /\ pc \in {"mark", "marked"}
  /\ marker' = [marker EXCEPT ![Target] = [set |-> IF pc = "mark" THEN "torn" ELSE "whole",
                                           head |-> head[Target], base |-> base]]
  /\ Goes(IF pc = "mark" THEN "marked" ELSE "push")
  /\ SyncKeeps /\ NoCommit /\ UNCHANGED <<head, dirty, remote, inflight, recorded, faults>>

Push ==
  /\ At("push")
  /\ Pushes("record", Goes("check"))
  /\ SyncKeeps /\ NoCommit /\ UNCHANGED <<head, dirty, marker, recorded>>

(* After a failed push the remote branch decides: the commit is there, or nothing is, or it
   cannot be told. *)
Outcome ==
  IF ~Reaches THEN "unknown"
  ELSE IF remote = Mine.head THEN "record"
  ELSE IF remote = base /\ head[Target] = Mine.head THEN "restore" ELSE "unknown"

Check ==
  /\ At("check")
  /\ IF Outcome = "unknown" THEN End ELSE Goes(Outcome)
  /\ SyncKeeps /\ NoCommit /\ UNCHANGED <<head, dirty, marker, remote, inflight, recorded, faults>>

(* git reset --mixed: the commit is undone, its changes stay in the worktree.  The push that
   failed may arrive all the same. *)
Restore ==
  /\ At("restore")
  /\ head' = [head EXCEPT ![Target] = base] /\ dirty' = [dirty EXCEPT ![Target] = TRUE]
  /\ undone' = undone \union {Mine.head} /\ Goes("unmark")
  /\ SyncKeeps /\ UNCHANGED <<past, origin, commits, marker, remote, inflight, recorded, faults>>

(* Mutant of AfterRecord: the marker is cleared whatever the platform answered. *)
ClearedAnyway(answered) == Goes("unmark")

AfterRecord(answered) == IF answered THEN Goes("unmark") ELSE End

(* The platform verifies the pushed commit with the remote host and records it. *)
Record ==
  /\ At("record")
  /\ \/ Fine /\ recorded' = recorded \union {Mine.head} /\ AfterRecord(TRUE)
     \/ Fault /\ recorded' = recorded \union {Mine.head} /\ AfterRecord(FALSE)
     \/ Fault /\ UNCHANGED recorded /\ AfterRecord(FALSE)
  /\ SyncKeeps /\ NoCommit /\ UNCHANGED <<head, dirty, marker, remote, inflight>>

Unmark ==
  /\ pc \in {"unmark", "unmarked"}
  /\ marker' = [marker EXCEPT ![Target] = IF pc = "unmark" THEN [@ EXCEPT !.set = "torn"]
                                          ELSE NoMarker]
  /\ IF pc = "unmark" THEN Goes("unmarked") ELSE End
  /\ SyncKeeps /\ NoCommit /\ UNCHANGED <<head, dirty, remote, inflight, recorded, faults>>

-----------------------------------------------------------------------------
(* reset: credentials off in the clone, then the grant is revoked. *)

Reset ==
  /\ At("reset")
  /\ IF Target \in Clones /\ known[Target]
     THEN helper' = [helper EXCEPT ![Target] = FALSE] /\ Goes("revoke")
     ELSE UNCHANGED helper /\ End
  /\ UNCHANGED <<at, tree, known, head, dirty, marker, journal, hub, resets, faults, cuts>>

Revoke ==
  /\ At("revoke") /\ End
  /\ \/ Fine /\ grant' = FALSE
     \/ Fault /\ UNCHANGED grant
  /\ UNCHANGED <<trees, journal, remote, inflight, past, origin, recorded, undone, commits, resets,
                 cuts>>

-----------------------------------------------------------------------------
(* delete_local. *)

DeleteKeeps == UNCHANGED <<known, head, dirty, marker, hub, resets, faults, cuts>>
Sees(t, s)  == seen' = t /\ pc' = s /\ UNCHANGED <<calls, base, retried>>
Present(n)  == at[n] # None

(* Mutant of ResumesAt: a resumed deletion begins at the rename. *)
RenamesAgain == "quarantine"

ResumesAt == IF Present("quarantine") THEN "phase" ELSE "quarantine"

(* Without a journal a directory in quarantine is left for inspection by hand. *)
BeginDeletion ==
  IF Present("quarantine") \/ Target = None THEN End ELSE Sees(Target, "inspect")

(* Is a deletion journaled, only the directory of the journal may be taken, under one name. *)
ReadJournal ==
  /\ At("read")
  /\ LET pending == IF Present("quarantine") THEN at["quarantine"] ELSE Target
     IN  IF journal = NoJournal
         THEN BeginDeletion
         ELSE IF ~Present("target") /\ ~Present("quarantine") /\ journal.phase = "removed"
         THEN Goes("clear")
         ELSE IF (Present("target") /\ Present("quarantine")) \/ journal.phase = "removed"
                 \/ pending # journal.tree
         THEN End
         ELSE /\ seen' = pending /\ retried' = TRUE
              /\ pc' = ResumesAt
              /\ UNCHANGED <<calls, base>>
  /\ DeleteKeeps /\ UNCHANGED <<at, tree, helper, journal>>

(* Handle, owner, repository and remote are compared; the credentials are taken away. *)
Inspect ==
  /\ At("inspect")
  /\ IF Target \in Clones /\ known[Target]
     THEN helper' = [helper EXCEPT ![Target] = FALSE] /\ Goes("recheck")
     ELSE UNCHANGED helper /\ End
  /\ DeleteKeeps /\ UNCHANGED <<at, tree, journal>>

RecheckTree ==
  /\ At("recheck")
  /\ IF Target = seen
     THEN journal' = [phase |-> "validated", tree |-> seen] /\ Goes("quarantine")
     ELSE UNCHANGED journal /\ End
  /\ DeleteKeeps /\ UNCHANGED <<at, tree, helper>>

(* The rename takes whatever is there under the name. *)
Quarantine ==
  /\ At("quarantine")
  /\ IF Target = None THEN UNCHANGED at /\ End
     ELSE /\ at' = [at EXCEPT !["target"] = None, !["quarantine"] = Target]
          /\ Goes(IF retried THEN "phase" ELSE "compare")
  /\ DeleteKeeps /\ UNCHANGED <<tree, helper, journal>>

(* Back under its name, unless something new is there, and without a journal. *)
PutBack ==
  /\ at' = IF Target = None /\ Present("quarantine")
           THEN [at EXCEPT !["target"] = at["quarantine"], !["quarantine"] = None] ELSE at
  /\ journal' = NoJournal /\ End

(* Mutant of SameTree: the name is trusted. *)
SameName == TRUE

(* _same_file *)
SameTree == at["quarantine"] = seen

Compare ==
  /\ At("compare")
  /\ IF SameTree THEN Goes("phase") /\ UNCHANGED <<at, journal>> ELSE PutBack
  /\ DeleteKeeps /\ UNCHANGED <<tree, helper>>

WritePhase ==
  /\ At("phase")
  /\ journal' = [phase |-> "quarantined", tree |-> seen] /\ Goes("open")
  /\ DeleteKeeps /\ UNCHANGED <<at, tree, helper>>

(* The directory is opened once and compared; what is removed is what was opened. *)
Open ==
  /\ At("open")
  /\ IF ~Present("quarantine") THEN UNCHANGED <<at, journal>> /\ End
     ELSE IF SameTree
     THEN /\ Sees(at["quarantine"], IF tree[at["quarantine"]] = "empty" THEN "rmdir" ELSE "empty")
          /\ UNCHANGED <<at, journal>>
     ELSE IF retried THEN UNCHANGED <<at, journal>> /\ End
     ELSE PutBack
  /\ DeleteKeeps /\ UNCHANGED <<tree, helper>>

Empty ==
  /\ At("empty")
  /\ tree[seen] \in {"whole", "partial"}
  /\ tree' = [tree EXCEPT ![seen] = IF @ = "whole" THEN "partial" ELSE "empty"]
  /\ helper' = [helper EXCEPT ![seen] = FALSE] /\ known' = [known EXCEPT ![seen] = FALSE]
  /\ head' = [head EXCEPT ![seen] = None] /\ dirty' = [dirty EXCEPT ![seen] = FALSE]
  /\ marker' = [marker EXCEPT ![seen] = NoMarker]
  /\ Goes(IF tree[seen] = "whole" THEN "empty" ELSE "rmdir")
  /\ UNCHANGED <<at, journal, hub, resets, faults, cuts>>

(* By name again, but only an empty directory goes. *)
Rmdir ==
  /\ At("rmdir")
  /\ IF Present("quarantine") /\ tree[at["quarantine"]] = "empty"
     THEN /\ tree' = [tree EXCEPT ![at["quarantine"]] = "gone"]
          /\ at' = [at EXCEPT !["quarantine"] = None] /\ Goes("removed")
     ELSE UNCHANGED <<tree, at>> /\ End
  /\ DeleteKeeps /\ UNCHANGED <<helper, journal>>

WriteRemoved ==
  /\ At("removed")
  /\ journal' = [journal EXCEPT !.phase = "removed"] /\ Goes("clear")
  /\ DeleteKeeps /\ UNCHANGED <<at, tree, helper>>

ClearJournal ==
  /\ At("clear")
  /\ journal' = NoJournal /\ End
  /\ DeleteKeeps /\ UNCHANGED <<at, tree, helper>>

-----------------------------------------------------------------------------
(* Outside: the agent edits the clone, others push, a late push arrives, another program puts its
   own directory in the place of ours. *)

OutsideKeeps == UNCHANGED <<calls, locals, helper, known, marker, journal, grant, recorded,
                            undone, resets>>

Edit ==
  /\ Target \in Clones /\ tree[Target] = "whole" /\ ~dirty[Target] /\ commits < MaxCommits
  /\ dirty' = [dirty EXCEPT ![Target] = TRUE]
  /\ OutsideKeeps /\ UNCHANGED <<at, tree, head, remote, inflight, past, origin, commits, faults, cuts>>

OthersPush ==   \* pc: a bound again, the commit that sync is about to make is still counted
  /\ commits < MaxCommits /\ pc # "commit"
  /\ remote' = NewCommit /\ commits' = commits + 1
  /\ past' = [past EXCEPT ![NewCommit] = past[remote] \union {remote}]
  /\ OutsideKeeps /\ UNCHANGED <<at, tree, head, dirty, inflight, origin, faults, cuts>>

Arrive(c) ==
  /\ inflight' = inflight \ {c}
  /\ remote' = IF remote \in past[c] THEN c ELSE remote
  /\ OutsideKeeps /\ UNCHANGED <<at, tree, head, dirty, past, origin, commits, faults, cuts>>

(* Bound: only around a deletion; elsewhere a directory that is not our clone ends a call. *)
Swap(n) ==
  /\ CutOff /\ n \in {"target", "quarantine"} /\ at[n] \in Clones
  /\ IF lock = Nobody THEN journal # NoJournal ELSE Op = "delete"
  /\ at' = [at EXCEPT ![n] = Foreign]
  /\ OutsideKeeps /\ UNCHANGED <<tree, head, dirty, remote, inflight, past, origin, commits, faults>>

-----------------------------------------------------------------------------
Checkout == Reconcile \/ Clone \/ Disable \/ Enable \/ Refresh
Sync ==
  \/ Resume \/ Repush \/ Fetch \/ Commit \/ Mark \/ Push \/ Check \/ Restore \/ Record \/ Unmark
DeleteLocal ==
  \/ ReadJournal \/ Inspect \/ RecheckTree \/ Quarantine \/ Compare \/ WritePhase \/ Open \/ Empty
  \/ Rmdir \/ WriteRemoved \/ ClearJournal
Work == Checkout \/ Sync \/ Reset \/ Revoke \/ DeleteLocal

Next ==
  \/ \E p \in Procs : Prepare(p) \/ Find(p) \/ \E o \in Ops : Acquire(p, o)
  \/ Work \/ Cut
  \/ Edit \/ OthersPush \/ \E c \in inflight : Arrive(c)
  \/ \E n \in Paths : Swap(n)

(* A step under way is taken, and a call that did not succeed is made again and gets the lock
   some time. *)
Fairness ==
  /\ WF_vars(Work)
  /\ SF_vars(\E p \in Procs : Prepare(p))
  /\ \A o \in {"sync", "delete", "reset"} : SF_vars(\E p \in Procs : Acquire(p, o))

Spec == Init /\ [][Next]_vars /\ Fairness

-----------------------------------------------------------------------------
(* What another program put in the place of the clone, at any moment of a deletion and of its
   resumption, is never emptied. *)
OthersTreesKept == tree[Foreign] = "whole"

(* A commit of sync that has reached the remote branch, by a push whose answer was lost or that
   arrived late, is recorded by the platform; or still marked in its clone, so that a later sync
   takes it up instead of making another; or it was taken back when a fetch saw the branch without
   it, and then what it changed is not lost in the clone: it waits in the worktree, or in a later
   commit. *)
UnrecordedIsPending ==
  \A c \in (past[remote] \union {remote}) \ recorded :
    LET t == origin[c]
    IN  t # None /\ tree[t] = "whole" =>
          \/ marker[t].set = "whole" /\ marker[t].head = c
          \/ c \in undone /\ (dirty[t] \/ head[t] > c)

(* A clone whose deletion is journaled goes away in the end, however often the deletion is cut
   off, unless another directory has taken one of its two names: a swapped one, or the new clone
   of a checkout that came between. *)
DeletionFinishes ==
  \A t \in Clones :
    journal.tree = t ~> tree[t] = "gone" \/ \E n \in {"target", "quarantine"} : at[n] \notin {t, None}

(* A pending commit is settled in the end while the clone still ends with it and nobody else has
   pushed: it is recorded, or undone. *)
Resumable(t) ==
  LET m == marker[t]
  IN  /\ Target = t /\ m.set = "whole" /\ head[t] = m.head /\ m.head \notin recorded
      /\ remote \in {m.base, m.head}
PendingSettles == \A t \in Clones : Resumable(t) ~> ~Resumable(t)
=============================================================================
