--------------------------- MODULE WikiLock_proof ---------------------------
(***************************************************************************)
(* Proofs about WikiLock, for any set of processes and any configuration.  *)
(***************************************************************************)
EXTENDS WikiLock, TLAPS

\* All processes of a wiki use one cache dir.
OneCacheDir == \A p, q \in Procs : WikiOf[p] = WikiOf[q] => BaseOf[p] = BaseOf[q]

(***************************************************************************)
(* The converse of NoStaleLock: a process that went past a lock holds it.  *)
(* Neither direction is inductive alone: Release and CloseRunState clear   *)
(* the slot of a directory, which only leaves the other processes' locks   *)
(* in place because the slot names the process that clears it.             *)
(***************************************************************************)
LocksHeld ==
    \A p \in Procs :
        /\ pc[p] \in {"compose", "open", "run", "close", "release"} => flock[dir[p]] = p
        /\ pc[p] \in {"run", "close"} => bolt[BaseOf[p]] = p

IInv == TypeOK /\ LocksHeld /\ NoStaleLock

\* The directories of a process are among Dirs.
LEMMA DirsOfProcs ==
    \A p \in Procs : BaseOf[p] \in Dirs /\ TempOf[WikiOf[p]] \in Dirs
BY DEF Dirs

\* Initially every lock is free and nobody is inside.
LEMMA InitIInv == Init => IInv
<1> SUFFICES ASSUME Init PROVE IInv
  OBVIOUS
<1>1. TypeOK
  BY DirsOfProcs, LockAssumption DEF Init, TypeOK, PC
<1>2. LocksHeld
  BY DEF Init, LocksHeld
<1>3. NoStaleLock
  BY DEF Init, NoStaleLock
<1> QED
  BY <1>1, <1>2, <1>3 DEF IInv

\* Every step of every process keeps the types.
LEMMA NextTypeOK == TypeOK /\ [Next]_vars => TypeOK'
<1> SUFFICES ASSUME TypeOK, [Next]_vars PROVE TypeOK'
  OBVIOUS
<1>1. CASE UNCHANGED vars
  BY <1>1 DEF TypeOK, vars
<1>2. ASSUME NEW p \in Procs, Step(p) PROVE TypeOK'
  <2>1. CASE WikiLockPath(p)
    BY <2>1, DirsOfProcs, LockAssumption DEF WikiLockPath, Goto, Fault, NoFault, TypeOK, PC
  <2>2. CASE Acquire(p)
    BY <2>2 DEF Acquire, Goto, NoFault, TypeOK, PC
  <2>3. CASE Refused(p)
    BY <2>3 DEF Refused, Goto, NoFault, TypeOK, PC
  <2>4. CASE Compose(p)
    BY <2>4 DEF Compose, Goto, NoFault, TypeOK, PC
  <2>5. CASE OpenRunState(p)
    BY <2>5 DEF OpenRunState, Goto, NoFault, TypeOK, PC
  <2>6. CASE OpenTimeout(p)
    BY <2>6 DEF OpenTimeout, Goto, NoFault, TypeOK, PC
  <2>7. CASE RunEnds(p)
    BY <2>7 DEF RunEnds, Goto, NoFault, TypeOK, PC
  <2>8. CASE CloseRunState(p)
    BY <2>8 DEF CloseRunState, Goto, NoFault, TypeOK, PC
  <2>9. CASE Release(p)
    BY <2>9 DEF Release, Goto, NoFault, TypeOK, PC
  <2> QED
    BY <1>2, <2>1, <2>2, <2>3, <2>4, <2>5, <2>6, <2>7, <2>8, <2>9 DEF Step
<1>3. ASSUME NEW p \in Procs, Failure(p) PROVE TypeOK'
  <2>1. CASE AcquireError(p)
    BY <2>1, LockAssumption DEF AcquireError, Goto, Fault, TypeOK, PC
  <2>2. CASE ComposeError(p)
    BY <2>2, LockAssumption DEF ComposeError, Goto, Fault, TypeOK, PC
  <2>3. CASE Crash(p)
    BY <2>3, LockAssumption DEF Crash, Dropped, Fault, TypeOK, PC
  <2> QED
    BY <1>3, <2>1, <2>2, <2>3 DEF Failure
<1> QED
  BY <1>1, <1>2, <1>3 DEF Next

\* Every step keeps who holds which lock in line with where the holders are.
LEMMA NextIInv == IInv /\ [Next]_vars => IInv'
<1> SUFFICES ASSUME IInv, [Next]_vars PROVE LocksHeld' /\ NoStaleLock'
  BY NextTypeOK DEF IInv
<1> USE DirsOfProcs, LockAssumption DEF IInv, TypeOK, LocksHeld, NoStaleLock
<1>1. CASE UNCHANGED vars
  BY <1>1 DEF vars
<1>2. ASSUME NEW p \in Procs, Step(p) PROVE LocksHeld' /\ NoStaleLock'
  <2>1. CASE WikiLockPath(p)
    BY <2>1 DEF WikiLockPath, Goto
  <2>2. CASE Acquire(p)
    BY <2>2 DEF Acquire, Goto
  <2>3. CASE Refused(p)
    BY <2>3 DEF Refused, Goto
  <2>4. CASE Compose(p)
    BY <2>4 DEF Compose, Goto
  <2>5. CASE OpenRunState(p)
    BY <2>5 DEF OpenRunState, Goto
  <2>6. CASE OpenTimeout(p)
    BY <2>6 DEF OpenTimeout, Goto
  <2>7. CASE RunEnds(p)
    BY <2>7 DEF RunEnds, Goto
  <2>8. CASE CloseRunState(p)
    BY <2>8 DEF CloseRunState, Goto
  <2>9. CASE Release(p)
    BY <2>9 DEF Release, Goto
  <2> QED
    BY <1>2, <2>1, <2>2, <2>3, <2>4, <2>5, <2>6, <2>7, <2>8, <2>9 DEF Step
<1>3. ASSUME NEW p \in Procs, Failure(p) PROVE LocksHeld' /\ NoStaleLock'
  <2>1. CASE AcquireError(p)
    BY <2>1 DEF AcquireError, Goto
  <2>2. CASE ComposeError(p)
    BY <2>2 DEF ComposeError, Goto
  <2>3. CASE Crash(p)
    BY <2>3 DEF Crash, Dropped
  <2> QED
    BY <1>3, <2>1, <2>2, <2>3 DEF Failure
<1> QED
  BY <1>1, <1>2, <1>3 DEF Next

(***************************************************************************)
(* The inductive invariant holds in every behaviour of runFromConfig.      *)
(***************************************************************************)
LEMMA SpecIInv == Spec => []IInv
BY InitIInv, NextIInv, PTL DEF Spec

(***************************************************************************)
(* Every process is at a step of runFromConfig, and a lock is held by one  *)
(* of the processes or free.                                               *)
(***************************************************************************)
THEOREM TypeCorrect == Spec => []TypeOK
<1>1. IInv => TypeOK
  BY DEF IInv
<1> QED
  BY <1>1, SpecIInv, PTL

(***************************************************************************)
(* There are no stale locks, however many processes crash, are refused or  *)
(* fall back to the temp dir: what lock.go and bbolt hold belongs to a     *)
(* live process that took it.                                              *)
(***************************************************************************)
THEOREM NoStaleLocks == Spec => []NoStaleLock
<1>1. IInv => NoStaleLock
  BY DEF IInv
<1> QED
  BY <1>1, SpecIInv, PTL

\* With one cache dir per wiki, bbolt's lock separates the active processes.
LEMMA IInvExcludes == OneCacheDir /\ IInv => OneRunPerWiki
<1> SUFFICES ASSUME OneCacheDir, IInv, NEW p \in Active, NEW q \in Active,
                    WikiOf[p] = WikiOf[q]
             PROVE  p = q
  BY DEF OneRunPerWiki
<1>1. BaseOf[p] = BaseOf[q]
  BY DEF OneCacheDir, Active
<1>2. bolt[BaseOf[p]] = p /\ bolt[BaseOf[q]] = q
  BY DEF IInv, LocksHeld, Active
<1> QED
  BY <1>1, <1>2

(***************************************************************************)
(* Two runs never work on the same wiki at once, for any number of         *)
(* processes, whichever lock file each of them took, provided the          *)
(* processes of a wiki share its cache dir.                                *)
(***************************************************************************)
THEOREM Exclusive == OneCacheDir => (Spec => []OneRunPerWiki)
<1> SUFFICES ASSUME OneCacheDir PROVE Spec => []OneRunPerWiki
  OBVIOUS
<1>1. IInv => OneRunPerWiki
  BY IInvExcludes
<1> QED
  BY <1>1, SpecIInv, PTL

\* A step of runFromConfig enters, leaves, or is invisible to the promise.
LEMMA StepRefines ==
    OneCacheDir /\ IInv /\ IInv' /\ [Next]_vars => [Exclusion!Next]_Active
<1> SUFFICES ASSUME OneCacheDir, IInv, IInv', [Next]_vars
             PROVE  Exclusion!Next \/ Active' = Active
  OBVIOUS
<1> USE DEF IInv, TypeOK, Active
<1>1. CASE UNCHANGED vars
  BY <1>1 DEF vars
<1>2. ASSUME NEW p \in Procs, OpenRunState(p) PROVE Exclusion!Next
  <2>1. p \notin Active /\ Active' = Active \cup {p}
    BY <1>2 DEF OpenRunState, Goto
  <2>2. \A q \in Active : WikiOf[q] # WikiOf[p]
    <3>1. OneRunPerWiki'
      BY IInvExcludes, <1>2 DEF OneRunPerWiki, OneCacheDir, LocksHeld
    <3> QED
      BY <2>1, <3>1 DEF OneRunPerWiki
  <2>3. Exclusion!Enter(p)
    BY <2>1, <2>2 DEF Exclusion!Enter
  <2> QED
    BY <2>3 DEF Exclusion!Next
<1>3. ASSUME NEW p \in Procs, CloseRunState(p) PROVE Exclusion!Next
  <2>1. p \in Active /\ Active' = Active \ {p}
    BY <1>3 DEF CloseRunState, Goto
  <2>2. Exclusion!Leave(p)
    BY <2>1 DEF Exclusion!Leave
  <2> QED
    BY <2>2 DEF Exclusion!Next
<1>4. ASSUME NEW p \in Procs, Crash(p) PROVE Exclusion!Next \/ Active' = Active
  <2>1. Active' = Active \ {p}
    BY <1>4 DEF Crash
  <2>2. p \in Active => Exclusion!Leave(p)
    BY <2>1 DEF Exclusion!Leave
  <2>3. p \notin Active => Active' = Active
    BY <2>1
  <2> QED
    BY <2>2, <2>3 DEF Exclusion!Next
<1>5. ASSUME NEW p \in Procs,
             \/ WikiLockPath(p) \/ Acquire(p) \/ Refused(p) \/ Compose(p)
             \/ OpenTimeout(p) \/ RunEnds(p) \/ Release(p)
             \/ AcquireError(p) \/ ComposeError(p)
      PROVE  Active' = Active
  BY <1>5 DEF WikiLockPath, Acquire, Refused, Compose, OpenTimeout, RunEnds,
              Release, AcquireError, ComposeError, Goto
<1> QED
  BY <1>1, <1>2, <1>3, <1>4, <1>5 DEF Next, Step, Failure

(***************************************************************************)
(* runFromConfig implements the promise of package lock: seen from the     *)
(* wiki, its processes enter and leave their runs one at a time.           *)
(***************************************************************************)
THEOREM Implements == OneCacheDir => (Spec => Promise)
<1> SUFFICES ASSUME OneCacheDir PROVE Spec => Promise
  OBVIOUS
<1>1. Init => Exclusion!Init
  BY DEF Init, Exclusion!Init, Active
<1>2. IInv /\ IInv' /\ [Next]_vars => [Exclusion!Next]_Active
  BY StepRefines
<1> QED
  BY <1>1, <1>2, SpecIInv, PTL DEF Spec, Promise, Exclusion!Spec
=============================================================================
