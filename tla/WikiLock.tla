------------------------------ MODULE WikiLock ------------------------------
(***************************************************************************)
(* Starting and ending curator processes: runFromConfig chooses the lock   *)
(* file, takes a non-blocking flock on it, composes its parts, opens the   *)
(* run-state database (which bbolt locks, waiting up to a second), runs    *)
(* the orchestrator, closes the database and releases the lock.  The       *)
(* kernel drops both locks of a process that dies.                         *)
(***************************************************************************)
EXTENDS Naturals

CONSTANTS Procs,     \* curator processes
          WikiOf,    \* WikiOf[p]: the wiki of p's configuration
          BaseOf,    \* BaseOf[p]: its cache dir, configured or below $HOME
          TempOf,    \* TempOf[w]: the directory of wiki w below the temp dir
          NoProc,
          MaxFaults  \* bound: failing calls and crashes

Dirs == {BaseOf[p] : p \in Procs} \cup {TempOf[WikiOf[p]] : p \in Procs}

ASSUME LockAssumption ==
    /\ NoProc \notin Procs
    /\ \A p, q \in Procs : BaseOf[p] # TempOf[WikiOf[q]]
    /\ MaxFaults \in Nat

VARIABLES pc,      \* where each process is in runFromConfig
          dir,     \* the directory of its lock file
          flock,   \* per directory: the process holding curator.lock
          bolt,    \* per directory: the process holding runstate.bolt
          faults

vars == <<pc, dir, flock, bolt, faults>>

PC == {"out", "lock", "compose", "open", "run", "close", "release"}

TypeOK ==
    /\ pc \in [Procs -> PC]
    /\ dir \in [Procs -> Dirs]
    /\ flock \in [Dirs -> Procs \cup {NoProc}]
    /\ bolt \in [Dirs -> Procs \cup {NoProc}]
    /\ faults \in 0..MaxFaults

Init ==
    /\ pc = [p \in Procs |-> "out"]
    /\ dir = [p \in Procs |-> BaseOf[p]]
    /\ flock = [d \in Dirs |-> NoProc]
    /\ bolt = [d \in Dirs |-> NoProc]
    /\ faults = 0

Fault ==
    /\ faults < MaxFaults
    /\ faults' = faults + 1

NoFault == UNCHANGED faults

Goto(p, from, to) ==
    /\ pc[p] = from
    /\ pc' = [pc EXCEPT ![p] = to]

\* Mutant: with no cache dir the run goes on without a lock directory.
WikiLockPathNone(p) ==
    /\ Goto(p, "out", "lock")
    /\ \/ dir' = [dir EXCEPT ![p] = BaseOf[p]] /\ NoFault
       \/ dir' = [dir EXCEPT ![p] = "none"] /\ Fault
    /\ UNCHANGED <<flock, bolt>>

\* wikiLockPath: the cache dir, or the temp dir when MkdirAll fails.
WikiLockPath(p) ==
    /\ Goto(p, "out", "lock")
    /\ \/ dir' = [dir EXCEPT ![p] = BaseOf[p]] /\ NoFault
       \/ dir' = [dir EXCEPT ![p] = TempOf[WikiOf[p]]] /\ Fault
    /\ UNCHANGED <<flock, bolt>>

Acquire(p) ==
    /\ Goto(p, "lock", "compose")
    /\ flock[dir[p]] = NoProc
    /\ flock' = [flock EXCEPT ![dir[p]] = p]
    /\ NoFault
    /\ UNCHANGED <<dir, bolt>>

\* ErrLocked: the run is refused.
Refused(p) ==
    /\ Goto(p, "lock", "out")
    /\ flock[dir[p]] # NoProc
    /\ NoFault
    /\ UNCHANGED <<dir, flock, bolt>>

\* The lock file cannot be opened or flock fails otherwise.
AcquireError(p) ==
    /\ Goto(p, "lock", "out")
    /\ Fault
    /\ UNCHANGED <<dir, flock, bolt>>

\* Spec store, kb source, wiki target, LLM client, sinks.
Compose(p) ==
    /\ Goto(p, "compose", "open")
    /\ NoFault
    /\ UNCHANGED <<dir, flock, bolt>>

\* Mutant: the database is opened without waiting for its lock.
OpenUnlocked(p) ==
    /\ Goto(p, "open", "run")
    /\ bolt' = [bolt EXCEPT ![BaseOf[p]] = p]
    /\ NoFault
    /\ UNCHANGED <<dir, flock>>

\* runstate.Open: bbolt takes the database lock of the cache dir.
OpenRunState(p) ==
    /\ Goto(p, "open", "run")
    /\ bolt[BaseOf[p]] = NoProc
    /\ bolt' = [bolt EXCEPT ![BaseOf[p]] = p]
    /\ NoFault
    /\ UNCHANGED <<dir, flock>>

\* bbolt gives up after its second.
OpenTimeout(p) ==
    /\ Goto(p, "open", "release")
    /\ bolt[BaseOf[p]] # NoProc
    /\ NoFault
    /\ UNCHANGED <<dir, flock, bolt>>

\* A part cannot be composed, or the cache dir or database not opened.
ComposeError(p) ==
    /\ Goto(p, "compose", "release") \/ Goto(p, "open", "release")
    /\ Fault
    /\ UNCHANGED <<dir, flock, bolt>>

\* A cache composed after the database, or an error of Run: same defers.
RunEnds(p) ==
    /\ Goto(p, "run", "close")
    /\ NoFault
    /\ UNCHANGED <<dir, flock, bolt>>

\* Deferred calls run last in, first out: the database is closed first.
CloseRunState(p) ==
    /\ Goto(p, "close", "release")
    /\ bolt' = [bolt EXCEPT ![BaseOf[p]] = NoProc]
    /\ NoFault
    /\ UNCHANGED <<dir, flock>>

\* Mutant: Release always unlocks the file in the cache dir.
ReleaseBase(p) ==
    /\ Goto(p, "release", "out")
    /\ flock' = [flock EXCEPT ![BaseOf[p]] = NoProc]
    /\ NoFault
    /\ UNCHANGED <<dir, bolt>>

Release(p) ==
    /\ Goto(p, "release", "out")
    /\ flock' = [flock EXCEPT ![dir[p]] = NoProc]
    /\ NoFault
    /\ UNCHANGED <<dir, bolt>>

\* Mutant: a lock outlives its process, as one kept in a PID file would.
Kept(locks, p) == [d \in Dirs |-> locks[d]]

\* The locks are flock(2) locks: the kernel drops them with the files of p.
Dropped(locks, p) == [d \in Dirs |-> IF locks[d] = p THEN NoProc ELSE locks[d]]

Crash(p) ==
    /\ pc[p] # "out"
    /\ pc' = [pc EXCEPT ![p] = "out"]
    /\ flock' = Dropped(flock, p)
    /\ bolt' = Dropped(bolt, p)
    /\ Fault
    /\ UNCHANGED dir

Step(p) ==
    \/ WikiLockPath(p) \/ Acquire(p) \/ Refused(p) \/ Compose(p)
    \/ OpenRunState(p) \/ OpenTimeout(p) \/ RunEnds(p)
    \/ CloseRunState(p) \/ Release(p)

Failure(p) == AcquireError(p) \/ ComposeError(p) \/ Crash(p)

Next == \E p \in Procs : Step(p) \/ Failure(p)

Spec == Init /\ [][Next]_vars

\* Every process is started again and again and gets CPU time.
FairSpec == Spec /\ \A p \in Procs : WF_vars(Step(p))
-----------------------------------------------------------------------------
\* The processes that may touch wiki, clone and caches.
Active == {p \in Procs : pc[p] \in {"run", "close"}}

(***************************************************************************)
(* Two processes of one wiki are never both inside a run (package lock:    *)
(* "so two curator runs can never operate on the same wiki concurrently"), *)
(* also when one of them fell back to the lock file in the temp dir, as    *)
(* long as the wiki has one cache dir: bbolt's lock is the second barrier. *)
(***************************************************************************)
OneRunPerWiki == \A p, q \in Active : WikiOf[p] = WikiOf[q] => p = q

(***************************************************************************)
(* No stale locks: a lock is held by a process that is between taking and  *)
(* giving it back, at the place it took it (package lock: "there is no     *)
(* stale-lock problem").                                                   *)
(***************************************************************************)
NoStaleLock ==
    \A d \in Dirs :
        /\ flock[d] # NoProc =>
              /\ pc[flock[d]] \in {"compose", "open", "run", "close", "release"}
              /\ dir[flock[d]] = d
        /\ bolt[d] # NoProc =>
              pc[bolt[d]] \in {"run", "close"} /\ BaseOf[bolt[d]] = d

\* The detailed protocol implements the promise.
Exclusion == INSTANCE RunExclusion WITH active <- Active
Promise   == Exclusion!Spec

(***************************************************************************)
(* Runs keep happening: whatever crashed or was refused, some process of   *)
(* every wiki gets into a run again and again.                             *)
(***************************************************************************)
RunsKeepHappening ==
    \A w \in {WikiOf[p] : p \in Procs} :
        []<>(\E p \in Procs : WikiOf[p] = w /\ pc[p] = "run")
=============================================================================
