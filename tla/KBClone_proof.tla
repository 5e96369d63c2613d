---------------------------- MODULE KBClone_proof ----------------------------
(***************************************************************************)
(* Proofs about KBClone, for any number of commits, proposals and faults.  *)
(***************************************************************************)
EXTENDS KBClone, TLAPS

(***************************************************************************)
(* What the clone knows is never ahead of what it fetched.  SnapshotIs-    *)
(* Fetched needs it: an "up to date" pull reads HEAD's own commit, and     *)
(* that is the fetched one only because HEAD is not beyond it.             *)
(***************************************************************************)
Behind ==
    /\ tracking <= remote
    /\ head.base <= tracking
    /\ mainAt <= tracking
    /\ pulled <= tracking

IInv == TypeOK /\ Behind /\ SnapshotIsFetched

\* Before the first run there is no clone and no snapshot.
LEMMA InitIInv == Init => IInv
BY CloneAssumption DEF Init, IInv, TypeOK, Behind, SnapshotIsFetched, NoHead

\* Every step keeps the clone behind its remote and the snapshot current.
LEMMA NextIInv == IInv /\ [Next]_vars => IInv'
<1> SUFFICES ASSUME IInv, [Next]_vars PROVE IInv'
  OBVIOUS
<1> USE CloneAssumption DEF IInv, TypeOK, Behind, SnapshotIsFetched
<1>1. CASE UNCHANGED vars
  BY <1>1 DEF vars
<1>2. CASE RemoteCommit
  BY <1>2 DEF RemoteCommit
<1>3. ASSUME NEW n \in 1..MaxProps, MergeProposal(n) PROVE IInv'
  BY <1>3 DEF MergeProposal
<1>4. CASE Clone
  BY <1>4 DEF Clone, Loaded, Aborted, Fault
<1>5. CASE FetchError
  BY <1>5 DEF FetchError, Aborted, Fault
<1>6. CASE FetchAndReset
  <2>0. tracking' = remote /\ UNCHANGED <<remote, mergedAt, props>>
    BY <1>6 DEF FetchAndReset
  <2>1. ASSUME MoveHead(remote), Loaded(remote) \/ (Aborted /\ Fault) PROVE IInv'
    BY <2>0, <2>1 DEF MoveHead, Loaded, Aborted, Fault
  <2>2. ASSUME PullContext(tracking < remote, remote) = "up to date",
               UNCHANGED <<head, mainAt>>, Loaded(head.base) \/ (Aborted /\ Fault)
        PROVE  IInv'
    <3>1. head.base = remote /\ tracking = remote
      BY <2>2 DEF PullContext, AheadOf
    <3>2. head' = head /\ mainAt' = mainAt
      BY <2>2
    <3>3. CASE Loaded(head.base)
      BY <2>0, <3>1, <3>2, <3>3 DEF Loaded
    <3>4. CASE Aborted /\ Fault
      BY <2>0, <3>1, <3>2, <3>4 DEF Aborted, Fault
    <3> QED
      BY <2>2, <3>3, <3>4
  <2>3. ASSUME UNCHANGED <<head, mainAt, faults>>, Aborted PROVE IInv'
    BY <2>0, <2>3 DEF Aborted
  <2> QED
    BY <1>6, <2>1, <2>2, <2>3 DEF FetchAndReset
<1>7. CASE NothingSubmitted
  BY <1>7 DEF NothingSubmitted
<1>8. CASE Submit
  BY <1>8 DEF Submit
<1>9. CASE SubmitError
  BY <1>9 DEF SubmitError, Fault
<1> QED
  BY <1>1, <1>2, <1>3, <1>4, <1>5, <1>6, <1>7, <1>8, <1>9 DEF Next, Run

\* The inductive invariant holds in every behaviour.
LEMMA SpecIInv == Spec => []IInv
BY InitIInv, NextIInv, PTL DEF Spec

(***************************************************************************)
(* The state of the clone keeps its type under Pull, Submit and every      *)
(* failure of them: HEAD stays on the base branch or on a proposal's.      *)
(***************************************************************************)
THEOREM TypeCorrect == Spec => []TypeOK
<1>1. IInv => TypeOK
  BY DEF IInv
<1> QED
  BY <1>1, SpecIInv, PTL

(***************************************************************************)
(* A Pull that succeeds always returns the newest commit it fetched,       *)
(* whatever prbackend.Submit left behind in the working copy.              *)
(***************************************************************************)
THEOREM PullIsCurrent == Spec => []SnapshotIsFetched
<1>1. IInv => SnapshotIsFetched
  BY DEF IInv
<1> QED
  BY <1>1, SpecIInv, PTL

(***************************************************************************)
(* The commits that successive runs see never go back in time.             *)
(***************************************************************************)
THEOREM PullIsMonotonic == Spec => SnapshotNeverRewinds
<1>1. IInv /\ IInv' /\ [Next]_vars => [pc' = "run" => snap' >= pulled]_vars
  <2> SUFFICES ASSUME IInv, IInv', [Next]_vars, pc' = "run", ~UNCHANGED vars
               PROVE  snap' >= pulled
    BY DEF vars
  <2>1. snap' = tracking' /\ pulled' <= tracking'
    BY DEF IInv, Behind, SnapshotIsFetched
  <2>2. pulled <= pulled'
    <3>1. UNCHANGED pulled \/ \E c \in {remote, head.base} : Loaded(c)
      BY DEF Next, Run, Clone, FetchError, FetchAndReset, NothingSubmitted, Submit,
             SubmitError, RemoteCommit, MergeProposal, Aborted, vars
    <3>2. ASSUME NEW c \in {remote, head.base}, Loaded(c) PROVE pulled <= pulled'
      BY <3>2 DEF Loaded, IInv, TypeOK
    <3> QED
      BY <3>1, <3>2 DEF IInv, TypeOK
  <2> QED
    BY <2>1, <2>2 DEF IInv, TypeOK
<1> QED
  BY <1>1, SpecIInv, PTL DEF Spec, SnapshotNeverRewinds
=============================================================================
