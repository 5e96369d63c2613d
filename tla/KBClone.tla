------------------------------ MODULE KBClone ------------------------------
(***************************************************************************)
(* The kb working copy (cache dir, kb-clone) across runs.  A run starts    *)
(* with git.Source.Pull on it and ends with runMaintenance, whose PR       *)
(* backend creates and checks out a proposal branch in the same working    *)
(* copy.  What go-git's PullContext answers is modelled from how           *)
(* fetchAndReset uses it.                                                  *)
(*                                                                         *)
(* The remote branch is a line of commits 1..remote.  A proposal commit is *)
(* numbered too; the operator may merge it, and later commits of the       *)
(* remote then contain it.                                                 *)
(***************************************************************************)
EXTENDS Naturals

CONSTANTS Writeback,   \* TRUE when kb_writeback wires the PR backend
          MaxCommits,  \* bound: commits of the remote
          MaxProps,    \* bound: proposal commits
          MaxFaults    \* bound: failing calls and crashes

ASSUME CloneAssumption ==
    /\ Writeback \in BOOLEAN
    /\ MaxCommits \in Nat \ {0}
    /\ MaxProps \in Nat
    /\ MaxFaults \in Nat

VARIABLES remote,    \* newest commit of the kb's branch on the remote
          mergedAt,  \* mergedAt[n]: remote commit that merged proposal n, or 0
          tracking,  \* the newest commit the clone has fetched, 0 without clone
          mainAt,    \* commit of the clone's local base branch
          head,      \* what HEAD is: branch, remote commit below it, proposal
          props,     \* proposal commits made so far
          pc, snap,  \* the run: position, and the commit its snapshot holds
          pulled,    \* observation: the newest commit any snapshot has held
          faults

vars == <<remote, mergedAt, tracking, mainAt, head, props, pc, snap, pulled, faults>>

NoHead == [branch |-> "none", base |-> 0, prop |-> 0]

TypeOK ==
    /\ remote \in 1..MaxCommits
    /\ mergedAt \in [1..MaxProps -> 0..MaxCommits]
    /\ tracking \in 0..MaxCommits
    /\ mainAt \in 0..MaxCommits
    /\ head \in [branch : {"none", "main", "maint"}, base : 0..MaxCommits, prop : 0..MaxProps]
    /\ props \in 0..MaxProps
    /\ pc \in {"idle", "run"}
    /\ snap \in 0..MaxCommits
    /\ pulled \in 0..MaxCommits
    /\ faults \in 0..MaxFaults

Init ==
    /\ remote = 1
    /\ mergedAt = [n \in 1..MaxProps |-> 0]
    /\ tracking = 0
    /\ mainAt = 0
    /\ head = NoHead
    /\ props = 0
    /\ pc = "idle"
    /\ snap = 0
    /\ pulled = 0
    /\ faults = 0
-----------------------------------------------------------------------------
(* The remote. *)

RemoteCommit ==
    /\ remote < MaxCommits
    /\ remote' = remote + 1
    /\ UNCHANGED <<mergedAt, tracking, mainAt, head, props, pc, snap, pulled, faults>>

\* The operator pushes the proposal branch and merges it.
MergeProposal(n) ==
    /\ n <= props
    /\ mergedAt[n] = 0
    /\ remote < MaxCommits
    /\ remote' = remote + 1
    /\ mergedAt' = [mergedAt EXCEPT ![n] = remote + 1]
    /\ UNCHANGED <<tracking, mainAt, head, props, pc, snap, pulled, faults>>
-----------------------------------------------------------------------------
(* Pull *)

Fault ==
    /\ faults < MaxFaults
    /\ faults' = faults + 1

\* The snapshot is read from the working tree of HEAD, now at commit c.
Loaded(c) ==
    /\ snap' = c
    /\ pulled' = IF c > pulled THEN c ELSE pulled
    /\ pc' = "run"
    /\ UNCHANGED faults

\* Pull returns an error: the run is over.
Aborted ==
    /\ pc' = "idle"
    /\ UNCHANGED <<snap, pulled>>

Clone ==
    /\ pc = "idle"
    /\ head = NoHead
    /\ tracking' = remote
    /\ mainAt' = remote
    /\ head' = [branch |-> "main", base |-> remote, prop |-> 0]
    /\ Loaded(remote) \/ (Aborted /\ Fault)
    /\ UNCHANGED <<remote, mergedAt, props>>

\* The clone, or a fetch, fails and leaves things as they were.
FetchError ==
    /\ pc = "idle"
    /\ Aborted
    /\ Fault
    /\ UNCHANGED <<remote, mergedAt, tracking, mainAt, head, props>>

\* HEAD's commits are all among those of remote commit c.
FastForward(c) ==
    /\ head.base <= c
    /\ head.prop # 0 => mergedAt[head.prop] # 0 /\ mergedAt[head.prop] <= c

\* HEAD has every commit up to remote commit c.
AheadOf(c) == head.base >= c

\* PullContext after a fetch: moved is whether the fetch brought anything.
PullContext(moved, c) ==
    IF ~moved /\ AheadOf(c) THEN "up to date"
    ELSE IF FastForward(c) THEN "forwarded" ELSE "diverged"

\* HEAD's branch moves to commit c.
MoveHead(c) ==
    /\ head' = [branch |-> head.branch, base |-> c, prop |-> 0]
    /\ mainAt' = IF head.branch = "main" THEN c ELSE mainAt

\* Mutant: a divergence is taken for success and HEAD is kept.
FetchKeepsDiverged ==
    /\ pc = "idle"
    /\ head # NoHead
    /\ tracking' = remote
    /\ \/ /\ PullContext(tracking < remote, remote) = "forwarded"
          /\ MoveHead(remote)
          /\ Loaded(remote)
       \/ /\ PullContext(tracking < remote, remote) # "forwarded"
          /\ UNCHANGED <<head, mainAt>>
          /\ Loaded(head.base)
    /\ UNCHANGED <<remote, mergedAt, props>>

\* fetchAndReset, then the read of the working tree, which may fail.
FetchAndReset ==
    /\ pc = "idle"
    /\ head # NoHead
    /\ tracking' = remote
    /\ \/ /\ PullContext(tracking < remote, remote) = "forwarded"
          /\ MoveHead(remote)
          /\ Loaded(remote) \/ (Aborted /\ Fault)
       \/ /\ PullContext(tracking < remote, remote) = "up to date"
          /\ UNCHANGED <<head, mainAt>>
          /\ Loaded(head.base) \/ (Aborted /\ Fault)
       \/ /\ PullContext(tracking < remote, remote) = "diverged"
          /\ UNCHANGED <<head, mainAt, faults>>
          /\ Aborted
    /\ UNCHANGED <<remote, mergedAt, props>>
-----------------------------------------------------------------------------
(* runMaintenance, the last step of a run. *)

\* No write-back, no proposals, or an error before the checkout.
NothingSubmitted ==
    /\ pc = "run"
    /\ pc' = "idle"
    /\ UNCHANGED <<remote, mergedAt, tracking, mainAt, head, props, snap, pulled, faults>>

\* Mutant: the proposal is committed on a detached HEAD.
SubmitDetached ==
    /\ pc = "run"
    /\ Writeback
    /\ props < MaxProps
    /\ props' = props + 1
    /\ head' = [branch |-> "detached", base |-> mainAt, prop |-> props + 1]
    /\ pc' = "idle"
    /\ UNCHANGED <<remote, mergedAt, tracking, mainAt, snap, pulled, faults>>

\* prbackend.Submit: a branch off the local base branch, checked out.
Submit ==
    /\ pc = "run"
    /\ Writeback
    /\ props < MaxProps
    /\ props' = props + 1
    /\ head' = [branch |-> "maint", base |-> mainAt, prop |-> props + 1]
    /\ pc' = "idle"
    /\ UNCHANGED <<remote, mergedAt, tracking, mainAt, snap, pulled, faults>>

\* Submit fails, or the process dies, between the checkout and the commit.
SubmitError ==
    /\ pc = "run"
    /\ Writeback
    /\ Fault
    /\ head' = [branch |-> "maint", base |-> mainAt, prop |-> 0]
    /\ pc' = "idle"
    /\ UNCHANGED <<remote, mergedAt, tracking, mainAt, props, snap, pulled>>

Run == Clone \/ FetchAndReset \/ NothingSubmitted

Next ==
    \/ Run \/ FetchError \/ Submit \/ SubmitError
    \/ RemoteCommit \/ \E n \in 1..MaxProps : MergeProposal(n)

Spec == Init /\ [][Next]_vars

\* The scheduler keeps starting runs, and a run comes to its end.
FairSpec == Spec /\ WF_vars(Run)
-----------------------------------------------------------------------------
(***************************************************************************)
(* A Pull that succeeds hands the run the newest commit it fetched,        *)
(* whatever branch an earlier run left checked out in the clone, whatever  *)
(* failed half way in that run and whatever the operator merged since.     *)
(***************************************************************************)
SnapshotIsFetched == pc = "run" => snap = tracking

(***************************************************************************)
(* No snapshot is older than an earlier one: diffDrivenSkip would compare  *)
(* against a commit that is not in the past.                               *)
(***************************************************************************)
SnapshotNeverRewinds == [][pc' = "run" => snap' >= pulled]_vars

(***************************************************************************)
(* Every commit of the remote reaches some run's snapshot.  fetchAndReset  *)
(* says of the clone: "Force-reset after handles any local divergence".    *)
(***************************************************************************)
EveryCommitIsPulled == \A c \in 1..MaxCommits : (remote = c) ~> (pulled >= c)
=============================================================================
