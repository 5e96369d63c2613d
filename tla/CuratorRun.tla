----------------------------- MODULE CuratorRun -----------------------------
(***************************************************************************)
(* One curator run after another over a whole wiki: Orchestrator.Run pulls *)
(* the kb and the spec stores, walks the specs in id order (validate,      *)
(* retire a superseded leaf, expand an auto hub, skip by diff, or render   *)
(* and publish), publishes the doc-spec cluster, prunes orphaned pages     *)
(* against the manifest and reports.  Between and during runs the kb, the  *)
(* specs and the pages change; calls fail and the process dies.            *)
(*                                                                         *)
(* A page is abstracted to what produced it; how one page is merged and    *)
(* pushed call by call is the subject of PagePublish.  Here a wiki call    *)
(* that fails may or may not have been applied, and a run-state write may  *)
(* be dropped (persistRunState ignores the error).                         *)
(***************************************************************************)
EXTENDS NavMap

CONSTANTS AutoHubs,      \* the specs that are hubs with members: auto
          Misrouted,     \* the specs whose wiki: field names another wiki
          AreasOf,       \* AreasOf[s]: the include.areas of spec s
          HubTitles,     \* the section titles an auto hub declares
          FirstPage,     \* FirstPage[s]: the page spec s declares at first
          DocPage,       \* the parent page of the one doc-spec cluster
          ReturnsRevID,  \* UpsertPage returns an id: memory, not mediawiki
          Pruning,       \* TRUE when cfg.OrphanPruning wires a manifest
          World,         \* which changes of the world happen, see Change
          MaxChanges,    \* bound: changes of the world
          MaxFaults      \* bound: failing calls and crashes

ASSUME RunAssumption ==
    /\ AutoHubs \subseteq Specs /\ Misrouted \subseteq Specs
    /\ AreasOf \in [Specs -> SUBSET Areas]
    /\ HubTitles \in Seq(Nat \ {0})
    /\ FirstPage \in [Specs -> Pages]
    /\ DocPage \in Pages
    /\ ReturnsRevID \in BOOLEAN /\ Pruning \in BOOLEAN
    /\ MaxChanges \in Nat /\ MaxFaults \in Nat

VARIABLES kb,        \* kb version, per area
          store,     \* the *.spec.md files
          doc,       \* the *.doc.yaml file
          wiki,      \* the pages
          rs,        \* run-state records
          manifest,  \* page-manifest.json
          pc, snap, specList, docFile, docOK, todo, orphans, failed,  \* the run
          redirecting,  \* the page whose checks let a redirect through, or NoParent
          raced,     \* observation only: a human has written that page since
          changes, faults

env     == <<kb, store, doc, changes>>
run     == <<pc, snap, specList, docFile, docOK, todo, orphans, failed, redirecting>>
upload  == <<redirecting, raced>>
vars    == <<kb, store, doc, wiki, rs, manifest, pc, snap, specList, docFile,
             docOK, todo, orphans, failed, redirecting, raced, changes, faults>>

Snapshot  == [Areas -> Nat]
SpecFile  == [on : BOOLEAN, page : Pages]
DocFile   == [on : BOOLEAN, supersedes : SUBSET Pages]
NoDoc     == [on |-> FALSE, supersedes |-> {}]

(***************************************************************************)
(* A page.  by is the spec that rendered it (0: the cluster), kb the       *)
(* versions of that spec's areas, nav the sections of an auto hub, to      *)
(* the target of a redirect.  newer holds the specs that have, on this     *)
(* page, a human revision newer than their recorded bot revision.          *)
(*                                                                         *)
(* A page a human took over has a text of their own: one without a trace   *)
(* of the curator, or a lookalike, which looksCuratorOwned takes for the   *)
(* curator's because it is a #REDIRECT or mentions mykb-curator.           *)
(***************************************************************************)
Takeover == {"human", "lookalike"}
Kind == {"none", "render", "redirect"} \cup Takeover
Page == [kind : Kind, by : Specs \cup {0}, kb : Snapshot, nav : Seq(HubSection),
         to : Pages \cup {NoParent}, newer : SUBSET Specs]

Zero    == [a \in Areas |-> 0]
NoState == [has |-> FALSE, known |-> FALSE, commit |-> Zero]

TypeOK ==
    /\ kb \in Snapshot
    /\ store \in [Specs -> SpecFile]
    /\ doc \in DocFile
    /\ wiki \in [Pages -> Page]
    /\ \A p \in Pages : wiki[p].kind = "redirect" => wiki[p].to \in Pages
    /\ rs \in [Specs -> [has : BOOLEAN, known : BOOLEAN, commit : Snapshot]]
    /\ manifest \in SUBSET Pages
    /\ pc \in {"idle", "specs", "guard", "retire", "docs", "load", "prune", "replace", "report"}
    /\ redirecting \in Pages \cup {NoParent}
    /\ raced \in BOOLEAN
    /\ snap \in Snapshot
    /\ specList \in [Specs -> SpecFile]
    /\ docFile \in DocFile
    /\ docOK \in BOOLEAN
    /\ todo \in SUBSET Specs
    /\ orphans \in SUBSET Pages
    /\ failed \in SUBSET (Specs \cup {0})
    /\ changes \in 0..MaxChanges
    /\ faults \in 0..MaxFaults

Init ==
    /\ kb = [a \in Areas |-> 1]
    /\ store = [s \in Specs |-> [on |-> TRUE, page |-> FirstPage[s]]]
    /\ doc = [on |-> TRUE, supersedes |-> {}]
    /\ wiki = [p \in Pages |-> [kind |-> "none", by |-> 0, kb |-> Zero, nav |-> <<>>,
                                to |-> NoParent, newer |-> {}]]
    /\ rs = [s \in Specs |-> NoState]
    /\ manifest = {}
    /\ pc = "idle"
    /\ snap = Zero
    /\ specList = [s \in Specs |-> [on |-> FALSE, page |-> FirstPage[s]]]
    /\ docFile = NoDoc
    /\ docOK = TRUE
    /\ todo = {}
    /\ orphans = {}
    /\ failed = {}
    /\ redirecting = NoParent
    /\ raced = FALSE
    /\ changes = 0
    /\ faults = 0
-----------------------------------------------------------------------------
(* Changes of the world.  World names the kinds that happen. *)

\* written: the pages a human writes.
Change(kind, written) ==
    /\ kind \in World
    /\ changes < MaxChanges
    /\ changes' = changes + 1
    /\ raced' = (raced \/ redirecting \in written)
    /\ UNCHANGED <<rs, manifest, run, faults>>

KBCommit(a) ==
    /\ Change("kb", {})
    /\ kb' = [kb EXCEPT ![a] = @ + 1]
    /\ UNCHANGED <<store, doc, wiki>>

RemoveSpec(s) ==
    /\ Change("remove", {})
    /\ store[s].on
    /\ store' = [store EXCEPT ![s].on = FALSE]
    /\ UNCHANGED <<kb, doc, wiki>>

\* A deleted spec file comes back.
RestoreSpec(s) ==
    /\ Change("restore", {})
    /\ ~store[s].on
    /\ store' = [store EXCEPT ![s].on = TRUE]
    /\ UNCHANGED <<kb, doc, wiki>>

\* A spec file gets another page: title.
RenamePage(s, p) ==
    /\ Change("rename", {})
    /\ \A t \in Specs : store[t].page # p
    /\ p # DocPage
    /\ store' = [store EXCEPT ![s].page = p]
    /\ UNCHANGED <<kb, doc, wiki>>

\* The cluster starts, or stops, superseding a leaf page.
ToggleSupersede(p) ==
    /\ Change("supersede", {})
    /\ doc.on /\ p # DocPage
    /\ doc' = [doc EXCEPT !.supersedes = IF p \in @ THEN @ \ {p} ELSE @ \cup {p}]
    /\ UNCHANGED <<kb, store, wiki>>

\* The doc-spec file is deleted.
RemoveDoc ==
    /\ Change("doc", {})
    /\ doc.on
    /\ doc' = NoDoc
    /\ UNCHANGED <<kb, store, wiki>>

\* A human edits a curator page and leaves its markers in place.
HumanEdit(p) ==
    /\ Change("edit", {p})
    /\ wiki[p].kind = "render"
    /\ wiki' = [wiki EXCEPT ![p].newer = Specs]
    /\ UNCHANGED <<kb, store, doc>>

\* A human replaces a page, markers and all.
HumanTakeover(p, kind) ==
    /\ Change("takeover", {p})
    /\ wiki' = [wiki EXCEPT ![p] = [@ EXCEPT !.kind = kind, !.newer = Specs]]
    /\ UNCHANGED <<kb, store, doc>>
-----------------------------------------------------------------------------
(* What a run works with. *)

Fault ==
    /\ faults < MaxFaults
    /\ faults' = faults + 1

NoFault == UNCHANGED faults

Listed == {s \in Specs : specList[s].on}

\* buildSupersedeMap: every superseded title maps to the cluster's parent.
Superseded(p) == p \in docFile.supersedes

\* Mutant: the doc-spec pages are forgotten.
OwnedSpecPages == {specList[s].page : s \in Listed}

\* ownedPages.
OwnedPages ==
    {specList[s].page : s \in Listed} \cup (IF docFile.on THEN {DocPage} ELSE {})

\* buildNavMap: every page but the retired leaves.
NavPages ==
    {<<s, specList[s].page>> : s \in {t \in Listed : ~Superseded(specList[t].page)}}
        \cup (IF docFile.on THEN {<<0, DocPage>>} ELSE {})

\* The kb areas that show on the page of spec s.
AreasIn(s) ==
    IF s \in AutoHubs THEN AreasOf[s] \cup ShownAreas(NavPages, specList[s].page)
    ELSE IF s = 0 THEN Areas ELSE AreasOf[s]

\* What frontend, passes and backend make of spec s (0: of the cluster).
RenderOf(s) ==
    [kind |-> "render", by |-> s,
     kb |-> [a \in Areas |-> IF a \in AreasIn(s) THEN snap[a] ELSE 0],
     nav |-> IF s \in AutoHubs
               THEN ExpandAuto(HubTitles, Members(NavPages, specList[s].page))
               ELSE <<>>,
     to |-> NoParent]

RedirectTo(p) ==
    [kind |-> "redirect", by |-> 0, kb |-> Zero, nav |-> <<>>, to |-> p]

\* The content of a page, without the bookkeeping of who edited last.
ContentOf(p) ==
    [kind |-> wiki[p].kind, by |-> wiki[p].by, kb |-> wiki[p].kb,
     nav |-> wiki[p].nav, to |-> wiki[p].to]

\* wiki' after the curator wrote c to page p and spec s recorded it or not.
Written(p, c, newer) ==
    wiki' = [wiki EXCEPT ![p] = [kind |-> c.kind, by |-> c.by, kb |-> c.kb, nav |-> c.nav,
                                 to |-> c.to, newer |-> newer]]

\* persistRunState: the record of spec s after a write, or after none.
Record(s, wrote) ==
    rs' = [rs EXCEPT ![s] = [has |-> TRUE,
                             known |-> IF wrote THEN ReturnsRevID ELSE @.known,
                             commit |-> snap]]

\* changed areas since the recorded commit, as DiffSince reports them.
DiffSince(commit) == {a \in Areas : commit[a] # snap[a]}

DiffDrivenSkip(s) ==
    /\ rs[s].has
    /\ \/ rs[s].commit = snap
       \/ AreasOf[s] \cap DiffSince(rs[s].commit) = {}

\* Mutant: an auto hub is skipped like any other spec.
NeverExempt(s) == FALSE

\* An auto hub depends on other specs: it is never skipped.
Exempt(s) == s \in AutoHubs
-----------------------------------------------------------------------------
(* Orchestrator.Run *)

\* KB.Pull, Specs.Pull, DocSpecs.Pull; a doc pull error leaves no files.
Pull ==
    /\ pc = "idle"
    /\ pc' = "specs"
    /\ snap' = kb
    /\ specList' = store
    /\ todo' = {s \in Specs : store[s].on}
    /\ \/ docFile' = doc /\ docOK' = TRUE /\ NoFault
       \/ docFile' = NoDoc /\ docOK' = FALSE /\ Fault
    /\ failed' = {}
    /\ orphans' = {}
    /\ UNCHANGED <<env, wiki, rs, manifest, upload>>

\* KB.Pull or Specs.Pull fails: the run is over before it touched a page.
PullError ==
    /\ pc = "idle"
    /\ Fault
    /\ UNCHANGED <<env, wiki, rs, manifest, run, raced>>

\* The loop is at the spec with the smallest id left.
At(s, step) ==
    /\ pc = step
    /\ s \in todo
    /\ \A t \in todo : s <= t

\* The loop goes on to the next spec.
Done(s) ==
    /\ todo' = todo \ {s}
    /\ pc' = "specs"
    /\ redirecting' = NoParent
    /\ raced' = FALSE
    /\ UNCHANGED <<env, manifest, snap, specList, docFile, docOK, orphans>>

Turn(s) == At(s, "specs") /\ Done(s)

PageOf(s) == specList[s].page

\* validateSpecForWiki fails.
RejectMisrouted(s) ==
    /\ Turn(s)
    /\ s \in Misrouted
    /\ failed' = failed \cup {s}
    /\ NoFault
    /\ UNCHANGED <<wiki, rs>>

\* Mutant: the commit is recorded although the write failed.
FailedWriteRecorded(s, p, c) ==
    /\ Fault
    /\ failed' = failed \cup {s}
    /\ UNCHANGED wiki
    /\ Record(s, FALSE)

\* A write that fails, applied or not, and is not recorded.
FailedWrite(s, p, c) ==
    /\ Fault
    /\ failed' = failed \cup {s}
    /\ Written(p, c, wiki[p].newer) \/ UNCHANGED wiki
    /\ UNCHANGED rs

\* A write that succeeds; its record may be dropped.
RecordedWrite(s, p, c) ==
    /\ UNCHANGED failed
    /\ \/ Written(p, c, wiki[p].newer \ {s}) /\ Record(s, TRUE) /\ NoFault
       \/ Written(p, c, wiki[p].newer) /\ UNCHANGED rs /\ Fault

\* Nothing to write: only the record moves to the pulled commit.
RecordedNoOp(s) ==
    /\ UNCHANGED <<wiki, failed>>
    /\ \/ Record(s, FALSE) /\ NoFault
       \/ UNCHANGED rs /\ Fault

\* Mutant: the human-edit guard is missing.
RetireNeverBlocked(s) == FALSE

\* A human revision newer than the recorded one blocks retireLeaf.
HumanEditsSinceBot(s) == s \in wiki[PageOf(s)].newer

(***************************************************************************)
(* retireLeaf makes three calls to the wiki, between which humans write:   *)
(* GetPage, HumanEditsSinceBot if there is a page and a recorded revision, *)
(* and UpsertPage, without a base revision.                                *)
(***************************************************************************)
RetiringLeaf(s, step) ==
    /\ At(s, step)
    /\ s \notin Misrouted
    /\ Superseded(PageOf(s))

\* GetPage finds the redirect, or fails.
LeafStays(s) ==
    /\ RetiringLeaf(s, "specs")
    /\ Done(s)
    /\ \/ ContentOf(PageOf(s)) = RedirectTo(DocPage) /\ RecordedNoOp(s)
       \/ Fault /\ failed' = failed \cup {s} /\ UNCHANGED <<wiki, rs>>

\* The next step of retireLeaf; its redirect goes to page.
ToRedirect(step, page) ==
    /\ pc' = step
    /\ redirecting' = page
    /\ UNCHANGED <<env, wiki, rs, manifest, snap, specList, docFile, docOK, todo, orphans, failed, raced>>

GetLeaf(s) ==
    /\ RetiringLeaf(s, "specs")
    /\ ContentOf(PageOf(s)) # RedirectTo(DocPage)
    /\ IF wiki[PageOf(s)].kind # "none" /\ rs[s].known
         THEN ToRedirect("guard", NoParent)
         ELSE ToRedirect("retire", PageOf(s))
    /\ NoFault

LeafBlocked(s) ==
    /\ RetiringLeaf(s, "guard")
    /\ HumanEditsSinceBot(s)
    /\ Done(s)
    /\ NoFault
    /\ UNCHANGED <<wiki, rs, failed>>

\* No human edit; or the record or the history cannot be read, which retireLeaf ignores.
LeafNotBlocked(s) ==
    /\ RetiringLeaf(s, "guard")
    /\ (~HumanEditsSinceBot(s) /\ NoFault) \/ Fault
    /\ ToRedirect("retire", PageOf(s))

RedirectLeaf(s) ==
    /\ RetiringLeaf(s, "retire")
    /\ Done(s)
    /\ \/ RecordedWrite(s, PageOf(s), RedirectTo(DocPage))
       \/ FailedWrite(s, PageOf(s), RedirectTo(DocPage))

SkipSpec(s) ==
    /\ Turn(s)
    /\ s \notin Misrouted
    /\ ~Exempt(s)
    /\ ~Superseded(PageOf(s))
    /\ DiffDrivenSkip(s)
    /\ NoFault
    /\ UNCHANGED <<wiki, rs, failed>>

\* processSpec.  Whether a page that already is the render is written again
\* depends on its layout (PagePublish), so both may happen.
ProcessSpec(s) ==
    /\ Turn(s)
    /\ s \notin Misrouted
    /\ ~Superseded(PageOf(s))
    /\ Exempt(s) \/ ~DiffDrivenSkip(s)
    /\ \/ /\ ContentOf(PageOf(s)) = RenderOf(s)
          /\ RecordedNoOp(s)
       \/ RecordedWrite(s, PageOf(s), RenderOf(s))
       \/ FailedWrite(s, PageOf(s), RenderOf(s))

\* RunState.Get or DiffSince fails: the spec is rendered, not skipped.
DiffError(s) ==
    /\ Turn(s)
    /\ s \notin Misrouted
    /\ ~Exempt(s)
    /\ ~Superseded(PageOf(s))
    /\ DiffDrivenSkip(s)
    /\ Fault
    /\ Written(PageOf(s), RenderOf(s), wiki[PageOf(s)].newer \ {s})
    /\ Record(s, TRUE)
    /\ UNCHANGED failed

SpecsDone ==
    /\ pc = "specs"
    /\ todo = {}
    /\ pc' = "docs"
    /\ NoFault
    /\ UNCHANGED <<env, wiki, rs, manifest, snap, specList, docFile, docOK, todo, orphans, failed, upload>>

\* runDocSpecs: the cluster page is published, or its synthesis or upload fails.
RunDocSpecs ==
    /\ pc = "docs"
    /\ pc' = "load"
    /\ \/ ~docFile.on /\ UNCHANGED <<wiki, failed>> /\ NoFault
       \/ docFile.on /\ Written(DocPage, RenderOf(0), wiki[DocPage].newer)
                     /\ UNCHANGED failed /\ NoFault
       \/ docFile.on /\ failed' = failed \cup {0} /\ Fault
                     /\ (Written(DocPage, RenderOf(0), wiki[DocPage].newer) \/ UNCHANGED wiki)
    /\ UNCHANGED <<env, rs, manifest, snap, specList, docFile, docOK, todo, orphans, upload>>

\* Mutant: a failed doc-spec pull does not stop pruning.
MayPrunePartialView == Pruning /\ OwnedPages # {}

\* pruneOrphans: the guards, and the load of the manifest.
MayPrune == Pruning /\ docOK /\ OwnedPages # {}

LoadManifest ==
    /\ pc = "load"
    /\ \/ /\ MayPrune
          /\ pc' = "prune" /\ orphans' = manifest \ OwnedPages /\ NoFault
       \/ /\ ~MayPrune
          /\ pc' = "report" /\ orphans' = {} /\ NoFault
       \/ /\ MayPrune
          /\ pc' = "report" /\ orphans' = {} /\ Fault
    /\ UNCHANGED <<env, wiki, rs, manifest, snap, specList, docFile, docOK, todo, failed, upload>>

\* Mutant: any page counts as the curator's.
LooksPresent(p) == wiki[p].kind # "none"

\* looksCuratorOwned: markers, a redirect or a mention of mykb-curator.
LooksCuratorOwned(p) == wiki[p].kind \in {"render", "redirect", "lookalike"}

\* Mutant: a flat orphan is redirected too.
RetirableFlat(p) == wiki[p].kind # "none" /\ LooksCuratorOwned(p)

\* retireOrphan turns the orphan into a redirect to its subpath parent.
Retirable(p) ==
    /\ Parent[p] # NoParent
    /\ wiki[p].kind # "none"
    /\ ContentOf(p) # RedirectTo(Parent[p])
    /\ LooksCuratorOwned(p)

\* GetPage and the checks of retireOrphan.
GetOrphan(p) ==
    /\ pc = "prune"
    /\ p \in orphans
    /\ \/ /\ (~Retirable(p) /\ NoFault) \/ Fault
          /\ orphans' = orphans \ {p}
          /\ UNCHANGED <<pc, upload>>
       \/ /\ Retirable(p) /\ NoFault
          /\ pc' = "replace" /\ redirecting' = p
          /\ UNCHANGED <<orphans, raced>>
    /\ UNCHANGED <<env, wiki, rs, manifest, snap, specList, docFile, docOK, todo, failed>>

\* UpsertPage, without a base revision: whatever the page has become is replaced.
RedirectOrphan(p) ==
    /\ pc = "replace"
    /\ p = redirecting
    /\ orphans' = orphans \ {p}
    /\ pc' = "prune"
    /\ redirecting' = NoParent
    /\ raced' = FALSE
    /\ \/ Written(p, RedirectTo(Parent[p]), wiki[p].newer) /\ NoFault
       \/ (Written(p, RedirectTo(Parent[p]), wiki[p].newer) \/ UNCHANGED wiki) /\ Fault
    /\ UNCHANGED <<env, rs, manifest, snap, specList, docFile, docOK, todo, failed>>

\* Manifest.Save, whatever became of the orphans.
SaveManifest ==
    /\ pc = "prune"
    /\ orphans = {}
    /\ pc' = "report"
    /\ \/ manifest' = OwnedPages /\ NoFault
       \/ UNCHANGED manifest /\ Fault
    /\ UNCHANGED <<env, wiki, rs, snap, specList, docFile, docOK, todo, orphans, failed, upload>>

Report ==
    /\ pc = "report"
    /\ pc' = "idle"
    /\ NoFault
    /\ UNCHANGED <<env, wiki, rs, manifest, snap, specList, docFile, docOK, todo, orphans, failed, upload>>

\* The process dies.  A memory target would not outlive it.
Crash ==
    /\ ~ReturnsRevID
    /\ pc # "idle"
    /\ pc' = "idle"
    /\ Fault
    /\ redirecting' = NoParent
    /\ raced' = FALSE
    /\ UNCHANGED <<env, wiki, rs, manifest, snap, specList, docFile, docOK, todo, orphans, failed>>

SpecStep ==
    \E s \in Specs :
        \/ RejectMisrouted(s)
        \/ LeafStays(s) \/ GetLeaf(s) \/ LeafBlocked(s) \/ LeafNotBlocked(s) \/ RedirectLeaf(s)
        \/ SkipSpec(s) \/ DiffError(s) \/ ProcessSpec(s)

RunStep ==
    \/ Pull \/ SpecStep \/ SpecsDone \/ RunDocSpecs \/ LoadManifest
    \/ (\E p \in Pages : GetOrphan(p) \/ RedirectOrphan(p)) \/ SaveManifest \/ Report

WorldStep ==
    \/ \E a \in Areas : KBCommit(a)
    \/ \E s \in Specs : RemoveSpec(s) \/ RestoreSpec(s)
    \/ \E s \in Specs, p \in Pages : RenamePage(s, p)
    \/ \E p \in Pages : ToggleSupersede(p)
    \/ RemoveDoc
    \/ \E p \in Pages : HumanEdit(p)
    \/ \E p \in Pages, kind \in Takeover : HumanTakeover(p, kind)

Next == RunStep \/ PullError \/ Crash \/ WorldStep

Spec == Init /\ [][Next]_vars

\* The scheduler keeps starting runs and a live run takes its next step.
FairSpec == Spec /\ WF_vars(RunStep)
-----------------------------------------------------------------------------
(* What runs promise. *)

(***************************************************************************)
(* Pruning never takes down a page some spec file named when the run       *)
(* pulled: not when the spec failed to render, not when the doc-spec pull  *)
(* failed, not after a crash (pruneOrphans: "Guards against false          *)
(* positives").  Checked while no spec file changes during the run.        *)
(***************************************************************************)
PruneSparesOwnedPages ==
    [][\A p \in Pages :
         (/\ pc = "replace"
          /\ wiki'[p].kind = "redirect"
          /\ wiki[p].kind = "render")
         => p \notin OwnedPages /\ (doc.on => p # DocPage)]_vars

(***************************************************************************)
(* The only page of a human's own text that a run prunes is one that was   *)
(* taken over after retireOrphan read it ("don't clobber a page a human    *)
(* took over"): whenever the takeover came before that, in this run, in an *)
(* earlier one or since a failed attempt, the page stays.  UpsertPage has  *)
(* no base revision, so a takeover between the two calls is lost; and a    *)
(* lookalike is not known for a human's.                                   *)
(***************************************************************************)
PruneSparesTakenOverPages ==
    [][\A p \in Pages :
         (/\ pc \in {"prune", "replace"}
          /\ wiki[p].kind = "human"
          /\ ~(raced /\ p = redirecting))
         => wiki'[p].kind \in Takeover]_vars

\* Spec s is to be rendered by the run that is reporting.
Live(s) == s \in Listed /\ s \notin Misrouted /\ ~Superseded(PageOf(s))

UnsharedPage(s) == \A t \in Listed : PageOf(t) = PageOf(s) => t = s

(***************************************************************************)
(* When a run reports, the page of every live spec that did not fail is    *)
(* what the spec and the pulled kb make of it, also when this run skipped  *)
(* the spec and whatever failed in earlier runs.                           *)
(***************************************************************************)
CompletedRunIsFresh ==
    (pc = "report" /\ docOK) =>
        \A s \in Specs \ failed :
            (Live(s) /\ UnsharedPage(s) /\ wiki[PageOf(s)].kind \notin Takeover) =>
                ContentOf(PageOf(s)) = RenderOf(s)

\* The entry of spec s, and those of the pages placed below page p by a nav: block or
\* their subpath.
Entry(s)  == <<s, IF s = 0 THEN DocPage ELSE PageOf(s)>>
Placed(p) == {s \in Listed \cup (IF docFile.on THEN {0} ELSE {}) :
                 LET q == Entry(s)[2] IN
                 /\ s = 0 \/ ~Superseded(q)
                 /\ p = IF Nav[s].parent = NoParent THEN Parent[q] ELSE Nav[s].parent}

(***************************************************************************)
(* When a run reports, an auto hub that did not fail has exactly one link  *)
(* to each page placed below it, whatever section the page asks for, none  *)
(* to a retired or removed page, and shows for each its area's summary of  *)
(* this kb, although neither the hub's spec nor its areas changed when its *)
(* members did (autohub.go: "no member is silently dropped").              *)
(***************************************************************************)
HubListsItsPages ==
    (pc = "report" /\ docOK) =>
        \A h \in AutoHubs \ failed :
            LET w == wiki[PageOf(h)] IN
            (Live(h) /\ UnsharedPage(h) /\ w.kind \notin Takeover) =>
                /\ \A at \in Slots(w.nav) : \E s \in Placed(PageOf(h)) : Link(w.nav, at) = Entry(s)
                /\ \A s \in Placed(PageOf(h)) :
                      /\ \E at \in Slots(w.nav) :
                            \A other \in Slots(w.nav) : Link(w.nav, other) = Entry(s) <=> other = at
                      /\ Nav[s].area # NoArea => w.kb[Nav[s].area] = snap[Nav[s].area]

(***************************************************************************)
(* While nothing has failed, a page the curator rendered is at the end of  *)
(* every run one that is still owned or has no parent to redirect to: a    *)
(* removed spec does not leave its page behind (navigation-DESIGN 11).     *)
(***************************************************************************)
NoLingeringOrphan ==
    (pc = "report" /\ faults = 0 /\ Pruning /\ OwnedPages # {}) =>
        \A p \in Pages :
            (wiki[p].kind = "render" /\ Parent[p] # NoParent) => p \in OwnedPages

(***************************************************************************)
(* A superseded leaf that a human edited since its spec rendered it is     *)
(* replaced by a redirect only if the edit came after HumanEditsSinceBot   *)
(* (navigation-DESIGN 3.4: "never redirect over a human-edited leaf"), as  *)
(* long as the guard can be evaluated: no record was lost and the history  *)
(* answers.  UpsertPage has no base revision, so an edit between the two   *)
(* calls is lost.  The guard asks for the record of the spec, not of the   *)
(* page, so it protects a page only while it belongs to the spec that      *)
(* rendered it: a spec that takes over the page of another has no revision *)
(* to compare with.                                                        *)
(***************************************************************************)
EditedLeaf(p) ==
    /\ wiki[p].kind = "render"
    /\ wiki[p].by \in wiki[p].newer
    /\ \A s \in Listed : PageOf(s) = p => s = wiki[p].by

RetireSparesEditedLeaf ==
    [][\A p \in Pages :
         (/\ pc \in {"specs", "guard", "retire"}
          /\ faults' = 0
          /\ EditedLeaf(p)
          /\ ~(raced /\ p = redirecting))
         => wiki'[p].kind # "redirect"]_vars

(***************************************************************************)
(* When the world and the faults stop, the wiki settles on what the specs  *)
(* and the kb say, for good.                                               *)
(***************************************************************************)
WikiIsCurrent ==
    \A s \in Specs :
        (store[s].on /\ s \notin Misrouted /\ ~(store[s].page \in doc.supersedes)) =>
            /\ wiki[store[s].page].kind = "render"
            /\ wiki[store[s].page].by = s
            /\ \A a \in AreasOf[s] : wiki[store[s].page].kb[a] = kb[a]

EventuallyCurrent == <>[]WikiIsCurrent
=============================================================================
