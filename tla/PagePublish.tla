---------------------------- MODULE PagePublish ----------------------------
(***************************************************************************)
(* The life of one page across curator runs: a run renders the spec, reads *)
(* the wiki, merges, reads the history, uploads, records the run state,    *)
(* hands the raw render to the OnRendered sink and reports.  Each call to  *)
(* the wiki or to the run-state cache is a step of its own; humans edit,   *)
(* the kb and the spec move, calls fail and the process dies in between.   *)
(* (orchestrator.go processSpec, reconcileAndPush, publishClusterPage;     *)
(* reconciler.go; adapters/wiki; cache/runstate; main.go sinks.)           *)
(*                                                                         *)
(* The per-wiki lock lets one run at a time reach this code (WikiLock).    *)
(***************************************************************************)
EXTENDS PageContent, Sequences

CONSTANTS Target,     \* wiki_target.type; "markdown" pushes to a memory target
          OutDir,     \* TRUE when the run has --out: the sink writes to disk
          GitKB,      \* TRUE for kb_source.type git, FALSE for local
          Racing,     \* TRUE when a human may edit while a run is active
          MaxKB,      \* bound: kb versions (of the areas the spec includes)
          MaxHash,    \* bound: versions of the spec file
          MaxRevs,    \* bound: revisions of the page
          MaxEdits,   \* bound: human edits
          MaxFaults   \* bound: failing calls and crashes

ASSUME PublishAssumption ==
    /\ Target \in {"memory", "mediawiki", "markdown"}
    /\ OutDir \in BOOLEAN
    /\ GitKB \in BOOLEAN
    /\ Racing \in BOOLEAN
    /\ MaxKB \in Nat \ {0}
    /\ MaxHash \in Nat \ {0}
    /\ MaxRevs \in Nat
    /\ MaxEdits \in Nat
    /\ MaxFaults \in Nat

VARIABLES kb, hash,                       \* the world: kb version, spec version
          hist,                           \* the wiki: revisions, oldest first
          rs,                             \* run-state record of the spec
          pc, snap, last, current,        \* the run: position, inputs, reads
          humans, newRev, status,         \* the run: what it will report
          faults,                         \* faults that have happened
          base, late, reported            \* observation only, see Observation

world    == <<kb, hash>>
runVars  == <<pc, snap, last, current, humans, newRev, status>>
vars     == <<kb, hash, hist, rs, pc, snap, last, current, humans, newRev, status,
              faults, base, late, reported>>

(***************************************************************************)
(* Observation.  base is the length of the history when the run started,   *)
(* late the human revisions made between the run's last read of the wiki   *)
(* and its last upload, reported the human revisions some emitted report   *)
(* names.  No action reads them.                                           *)
(***************************************************************************)

Revision == [bot : BOOLEAN, content : Content]

\* A revision id is its index; 0 is the empty id.
SpecState == [rev : Nat, commit : Nat]
NoState   == [rev |-> 0, commit |-> 0]

Status == {"none", "Rendered", "Skipped", "Failed"}
PC == {"idle", "get", "history", "push", "persist", "noop", "sink", "report"}

TypeOK ==
    /\ kb \in 1..MaxKB
    /\ hash \in 1..MaxHash
    /\ hist \in Seq(Revision)
    /\ rs \in SpecState
    /\ pc \in PC
    /\ snap \in [hash : Nat, kb : Nat]
    /\ last \in Nat
    /\ current \in Content
    /\ humans \in SUBSET Nat
    /\ newRev \in Nat
    /\ status \in Status
    /\ faults \in 0..MaxFaults
    /\ base \in Nat
    /\ late \in SUBSET Nat
    /\ reported \in SUBSET Nat

Init ==
    /\ kb = 1
    /\ hash = 1
    /\ hist = <<>>
    /\ rs = NoState
    /\ pc = "idle"
    /\ snap = [hash |-> 0, kb |-> 0]
    /\ last = 0
    /\ current = NoPage
    /\ humans = {}
    /\ newRev = 0
    /\ status = "none"
    /\ faults = 0
    /\ base = 0
    /\ late = {}
    /\ reported = {}
-----------------------------------------------------------------------------
(* The wiki target. *)

Latest == IF hist = <<>> THEN NoPage ELSE hist[Len(hist)].content

(***************************************************************************)
(* UpsertPage.  memory adds a revision on every call; MediaWiki answers    *)
(* "no change" for a text identical to the page, which the adapter treats  *)
(* as success.                                                             *)
(***************************************************************************)
UpsertPage(text) ==
    hist' = IF Target = "mediawiki" /\ Latest = text
              THEN hist
              ELSE Append(hist, [bot |-> TRUE, content |-> text])

\* The revision id UpsertPage returns: MediaWiki's Revision carries none.
UpsertedID == IF Target = "mediawiki" THEN 0 ELSE Len(hist) + 1

\* composeOnRenderedSink.
Sink == IF OutDir THEN "disk"
        ELSE IF Target \in {"mediawiki", "memory"} THEN "wiki" ELSE "none"

\* The edits below are possible for a human at this moment.
MayEdit ==
    /\ Racing \/ pc = "idle"
    /\ Len(hist) + 2 < MaxRevs
    /\ Len(SelectSeq(hist, LAMBDA r : ~r.bot)) < MaxEdits

HumanWrites(text) ==
    /\ hist' = Append(hist, [bot |-> FALSE, content |-> text])
    /\ late' = IF pc \in {"push", "persist", "sink"} THEN late \cup {Len(hist) + 1} ELSE late
    /\ UNCHANGED <<world, rs, runVars, faults, base, reported>>

\* A human creates the page before the curator does.
HumanCreate ==
    /\ MayEdit
    /\ hist = <<>>
    /\ HumanWrites(ForeignPage(1))

\* A human rewrites the body of a block, leaving its markers in place.
HumanPolish(b) ==
    /\ MayEdit
    /\ hist # <<>>
    /\ Latest.blk[b].prov # NoProv
    /\ HumanWrites(WithBody(Latest, b, Typed(Len(hist) + 1)))

\* A human edits text outside the markers.
HumanFrame ==
    /\ MayEdit
    /\ hist # <<>>
    /\ HumanWrites([form |-> Latest.form, frame |-> Typed(Len(hist) + 1), blk |-> Latest.blk])
-----------------------------------------------------------------------------
(* The world. *)

KBCommit ==
    /\ kb < MaxKB
    /\ kb' = kb + 1
    /\ UNCHANGED <<hash, hist, rs, runVars, faults, base, late, reported>>

SpecEdit ==
    /\ hash < MaxHash
    /\ hash' = hash + 1
    /\ UNCHANGED <<kb, hist, rs, runVars, faults, base, late, reported>>
-----------------------------------------------------------------------------
(* The run. *)

Fault ==
    /\ faults < MaxFaults
    /\ faults' = faults + 1

NoFault == UNCHANGED faults

\* The commit id of a snapshot: a local kb has none.
Commit(k) == IF GitKB THEN k ELSE 0

\* diffDrivenSkip: a record exists and no included area changed since.
DiffDrivenSkip(st, k) == st.commit # 0 /\ st.commit = Commit(k)

Begin(next, st) ==
    /\ pc = "idle"
    /\ Len(hist) + 2 <= MaxRevs
    /\ pc' = next
    /\ status' = st
    /\ snap' = [hash |-> hash, kb |-> kb]
    /\ base' = Len(hist)
    /\ last' = 0
    /\ current' = NoPage
    /\ humans' = {}
    /\ newRev' = 0
    /\ late' = {}
    /\ UNCHANGED <<world, hist, rs, reported>>

StartRender ==
    /\ ~DiffDrivenSkip(rs, kb)
    /\ Begin("get", "Rendered")
    /\ NoFault

StartSkip ==
    /\ DiffDrivenSkip(rs, kb)
    /\ Begin("report", "Skipped")
    /\ NoFault

\* RunState.Get or DiffSince fails: the spec is rendered although nothing changed.
StartDiffError ==
    /\ DiffDrivenSkip(rs, kb)
    /\ Begin("get", "Rendered")
    /\ Fault

\* A frontend, a pass or the backend fails.
StartRenderError ==
    /\ ~DiffDrivenSkip(rs, kb)
    /\ Begin("report", "Failed")
    /\ Fault

Rendered == Render(snap.hash, snap.kb)

\* A step of the run: it fails the spec result, or goes on to next.
FailTo ==
    /\ Fault
    /\ pc' = "report"
    /\ status' = "Failed"

\* Reconcile up to its no-op test, for the id lookupLastBotRev returned.
Reconcile(lastBotRevID) ==
    /\ pc = "get"
    /\ last' = lastBotRevID
    /\ current' = Latest
    /\ pc' = IF hist = <<>> THEN "push"
             ELSE IF MergeBlocks(Latest, Rendered) = Latest THEN "noop" ELSE "history"
    /\ UNCHANGED <<world, hist, rs, snap, humans, newRev, status, base, late, reported>>

GetPage == Reconcile(rs.rev) /\ NoFault

\* The record cannot be read: lookupLastBotRev answers "", first-render mode.
GetPageForgets == Reconcile(0) /\ Fault

GetPageError ==
    /\ pc = "get"
    /\ FailTo
    /\ UNCHANGED <<world, hist, rs, snap, last, current, humans, newRev, base, late, reported>>

\* Mutant: the scan skips the revision right after the bot's.
DetectHumanEditsOffByOne(lastBotRevID) ==
    {i \in 1..Len(hist) : i > lastBotRevID + 1 /\ ~hist[i].bot}

\* detectHumanEdits: in first-render mode (no last id) nothing is returned.
DetectHumanEdits(lastBotRevID) ==
    IF lastBotRevID = 0 THEN {}
    ELSE {i \in 1..Len(hist) : i > lastBotRevID /\ ~hist[i].bot}

History ==
    /\ pc = "history"
    /\ humans' = DetectHumanEdits(last)
    /\ pc' = "push"
    /\ NoFault
    /\ UNCHANGED <<world, hist, rs, snap, last, current, newRev, status, base, late, reported>>

HistoryError ==
    /\ pc = "history"
    /\ FailTo
    /\ UNCHANGED <<world, hist, rs, snap, last, current, humans, newRev, base, late, reported>>

\* What the run uploads: the merge with the page as GetPage saw it.
PushedText == IF current = NoPage THEN Rendered ELSE MergeBlocks(current, Rendered)

Push ==
    /\ pc = "push"
    /\ UpsertPage(PushedText)
    /\ newRev' = UpsertedID
    /\ pc' = "persist"
    /\ NoFault
    /\ UNCHANGED <<world, rs, snap, last, current, humans, status, base, late, reported>>

\* Mutant: the run state is recorded although the upload failed.
PushErrorRecorded ==
    /\ pc = "push"
    /\ UNCHANGED hist
    /\ FailTo
    /\ rs' = [rev |-> last, commit |-> Commit(snap.kb)]
    /\ UNCHANGED <<world, snap, last, current, humans, newRev, base, late, reported>>

\* The upload fails before, or after, the wiki applied it.
PushError ==
    /\ pc = "push"
    /\ UpsertPage(PushedText) \/ UNCHANGED hist
    /\ FailTo
    /\ UNCHANGED <<world, rs, snap, last, current, humans, newRev, base, late, reported>>

\* Mutant: the record takes the head of the kb, not the pulled commit.
PersistHeadCommit(revID) ==
    /\ rs' = [rev |-> revID, commit |-> Commit(kb)]
    /\ NoFault

\* persistRunState(specID, revID, kbCommit) and the move to the sink.
PersistRunState(revID) ==
    /\ rs' = [rev |-> revID, commit |-> Commit(snap.kb)]
    /\ NoFault

\* The cache write fails; the error is dropped.
PersistDropped ==
    /\ Fault
    /\ UNCHANGED rs

Persist ==
    /\ pc = "persist"
    /\ PersistRunState(newRev) \/ PersistDropped
    /\ pc' = "sink"
    /\ UNCHANGED <<world, hist, snap, last, current, humans, newRev, status, base, late, reported>>

\* Mutant: a no-op records the revision the page is at.
NoOpRecordsCurrent ==
    /\ pc = "noop"
    /\ PersistRunState(Len(hist)) \/ PersistDropped
    /\ pc' = "sink"
    /\ status' = "Skipped"
    /\ UNCHANGED <<world, hist, snap, last, current, humans, newRev, base, late, reported>>

\* Mutant: a no-op reports the reconciler's action as its status.
NoOpReportsAction ==
    /\ pc = "noop"
    /\ PersistRunState(last) \/ PersistDropped
    /\ pc' = "sink"
    /\ status' = "NoOp"
    /\ UNCHANGED <<world, hist, snap, last, current, humans, newRev, base, late, reported>>

NoOp ==
    /\ pc = "noop"
    /\ PersistRunState(last) \/ PersistDropped
    /\ pc' = "sink"
    /\ status' = "Skipped"
    /\ UNCHANGED <<world, hist, snap, last, current, humans, newRev, base, late, reported>>

\* OnRendered: the wiki sink uploads the raw render.
OnRendered ==
    /\ pc = "sink"
    /\ IF Sink = "wiki" THEN UpsertPage(Rendered) ELSE UNCHANGED hist
    /\ pc' = "report"
    /\ NoFault
    /\ UNCHANGED <<world, rs, snap, last, current, humans, newRev, status, base, late, reported>>

OnRenderedError ==
    /\ pc = "sink"
    /\ Sink # "none"
    /\ (Sink = "wiki" /\ UpsertPage(Rendered)) \/ UNCHANGED hist
    /\ FailTo
    /\ UNCHANGED <<world, rs, snap, last, current, humans, newRev, base, late, reported>>

\* The report is emitted.  A Failed result carries no human edits.
Report ==
    /\ pc = "report"
    /\ reported' = IF status = "Failed" THEN reported ELSE reported \cup humans
    /\ pc' = "idle"
    /\ NoFault
    /\ UNCHANGED <<world, hist, rs, snap, last, current, humans, newRev, status, base, late>>

\* The process dies; its memory and its report are gone, the wiki is not.
\* (The memory target would be gone too: its runs share one process.)
Crash ==
    /\ Target = "mediawiki"
    /\ pc # "idle"
    /\ Fault
    /\ pc' = "idle"
    /\ status' = "none"
    /\ UNCHANGED <<world, hist, rs, snap, last, current, humans, newRev, base, late, reported>>

Step ==
    \/ GetPage \/ History \/ Push \/ Persist \/ NoOp \/ OnRendered \/ Report

Start == StartRender \/ StartSkip

Failure ==
    \/ StartDiffError \/ StartRenderError \/ GetPageForgets \/ GetPageError
    \/ HistoryError \/ PushError \/ OnRenderedError \/ Crash

Human == HumanCreate \/ HumanFrame \/ (\E b \in Blocks : HumanPolish(b))

World == KBCommit \/ SpecEdit

Next == Start \/ Step \/ Failure \/ Human \/ World

Spec == Init /\ [][Next]_vars
-----------------------------------------------------------------------------
(* What the steps promise. *)

Machine == Blocks \ Editorial

IsHuman(i) == i \in 1..Len(hist) /\ ~hist[i].bot

\* Revision j, a write of the curator, removed the words of revision i.
RemovedBy(j, i) ==
    /\ j \in 2..Len(hist)
    /\ hist[j].bot
    /\ HasText(hist[j - 1].content, i)
    /\ ~HasText(hist[j].content, i)

\* No human revision since the run began.
Undisturbed == \A i \in (base + 1)..Len(hist) : hist[i].bot

\* The run reached the end of processSpec without an error.
Finished == pc = "report" /\ status # "Failed" /\ (status = "Skipped" => current # NoPage)

(***************************************************************************)
(* The run-state record names a revision the curator itself wrote, or      *)
(* none.  detectHumanEdits stops at this id: a record that named a human   *)
(* revision would hide that edit and every older one from all reports.     *)
(***************************************************************************)
RunStateRevIsBot ==
    rs.rev # 0 => rs.rev \in 1..Len(hist) /\ hist[rs.rev].bot

(***************************************************************************)
(* diffDrivenSkip is sound: while the recorded commit makes the next run   *)
(* skip the spec, the machine blocks of the curator's last revision come   *)
(* from the current kb, also after failed uploads, dropped cache writes,   *)
(* crashes and commits that land during a run.                             *)
(***************************************************************************)
SkipIsSound ==
    DiffDrivenSkip(rs, kb) =>
        \E j \in 1..Len(hist) :
            /\ hist[j].bot
            /\ \A i \in (j + 1)..Len(hist) : ~hist[i].bot
            /\ \A m \in Machine : hist[j].content.blk[m].body.kb = kb

(***************************************************************************)
(* Human polish on an editorial block whose provenance the new render      *)
(* repeats is still on the page when the run reports (merge.go: "human     *)
(* polish survives").                                                      *)
(***************************************************************************)
PolishSurvivesRun ==
    (pc = "report" /\ base > 0 /\ Undisturbed) =>
        \A b \in Editorial :
            (/\ hist[base].content.blk[b].prov # NoProv
             /\ hist[base].content.blk[b].prov = Rendered.blk[b].prov)
            => Latest.blk[b].body = hist[base].content.blk[b].body

(***************************************************************************)
(* When a run finishes, machine blocks hold what the snapshot generates    *)
(* and tracked editorial blocks hold that or human words; also when the    *)
(* reconciler answered no-op.                                              *)
(***************************************************************************)
FinishedRunIsFresh ==
    (Finished /\ Undisturbed) =>
        /\ \A m \in Machine : Latest.blk[m].body = Gen(snap.hash, snap.kb)
        /\ \A t \in Tracked :
              \/ Latest.blk[t].body.human # 0
              \/ Latest.blk[t].body = Gen(snap.hash, snap.kb)

(***************************************************************************)
(* A run that reports Rendered and knew its last revision names every      *)
(* newer human edit its uploads removed, except the edits that landed      *)
(* between its history read and its last upload.                           *)
(***************************************************************************)
RenderedRunNamesItsOverwrites ==
    (pc = "report" /\ status = "Rendered" /\ last # 0) =>
        \A j \in (base + 1)..Len(hist) : \A i \in (last + 1)..Len(hist) :
            (IsHuman(i) /\ RemovedBy(j, i)) => i \in humans \cup late

(***************************************************************************)
(* Between runs, every human edit the curator removed from a page it had   *)
(* already written is named in an emitted report (reconciler.go: "the run  *)
(* report ALWAYS surfaces them so nothing happens silently").              *)
(***************************************************************************)
NoSilentOverwrite ==
    pc = "idle" =>
        \A i, j \in 1..Len(hist) :
            (/\ IsHuman(i)
             /\ RemovedBy(j, i)
             /\ \E k \in 1..i : hist[k].bot)
            => i \in reported

(***************************************************************************)
(* Fairness: the scheduler keeps starting runs and a live process takes    *)
(* its next step; faults and human edits happen or not.                    *)
(***************************************************************************)
FairSpec == Spec /\ WF_vars(Start) /\ WF_vars(Step)

Published(k) ==
    \E j \in 1..Len(hist) :
        hist[j].bot /\ \A m \in Machine : hist[j].content.blk[m].body.kb >= k

(***************************************************************************)
(* Every kb commit reaches the page, however the faults fall: no failure   *)
(* leaves a record that makes all later runs skip an unpublished commit.   *)
(***************************************************************************)
EveryCommitIsPublished == \A k \in 1..MaxKB : (kb = k) ~> Published(k)
=============================================================================
