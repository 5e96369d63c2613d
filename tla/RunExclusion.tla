--------------------------- MODULE RunExclusion ---------------------------
(***************************************************************************)
(* What internal/lock promises the rest of the curator: at any time at     *)
(* most one process works on a wiki.                                       *)
(***************************************************************************)
CONSTANTS Procs,   \* curator processes
          WikiOf   \* WikiOf[p]: the wiki that p's configuration names

VARIABLE active    \* the processes inside Orchestrator.Run

Init == active = {}

Enter(p) ==
    /\ p \notin active
    /\ \A q \in active : WikiOf[q] # WikiOf[p]
    /\ active' = active \cup {p}

Leave(p) ==
    /\ p \in active
    /\ active' = active \ {p}

Next == \E p \in Procs : Enter(p) \/ Leave(p)

Spec == Init /\ [][Next]_active
=============================================================================
