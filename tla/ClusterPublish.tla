--------------------------- MODULE ClusterPublish ---------------------------
(***************************************************************************)
(* One doc-spec cluster across curator runs: a run looks the cluster up in *)
(* the cluster cache; on a miss every page is synthesised, then page after *)
(* page goes through the passes, the Judge and the bounded refine loop, is *)
(* published, and a cluster without a failed page is cached.               *)
(* (orchestrator.go runDocSpecs, processClusterPage, publishClusterPage;   *)
(* refine.go; judge.go; cluster; clustercache; architecture; passes.)      *)
(*                                                                         *)
(* A page is published in two uploads: first the reconciler's merge, which *)
(* keeps the prose bodies the wiki has for the same doc-spec, then, by the *)
(* OnRendered sink, the raw render.  With --out the sink writes a file and *)
(* the merge is what stays on the wiki.  (PagePublish has the calls of one *)
(* upload, and the humans.)                                                *)
(*                                                                         *)
(* One section of every page has a git: source, a local clone that moves   *)
(* under the run; the resolver asks for its commit and for its content in  *)
(* two calls (sources/git).  ClusterKey covers the doc-spec and the kb but *)
(* not the clone.                                                          *)
(***************************************************************************)
EXTENDS Naturals, FiniteSets, FiniteSetsExt

CONSTANTS NPages,      \* pages of the cluster; page 1 is the parent
          NSections,   \* sections of a page
          Judged,      \* the prose sections that declare an intent
          Restyled,    \* sections whose title a style rule rewrites
          MaxIters,    \* judge.max_refine_iterations; 0 is report-only
          OutDir,      \* TRUE with --out: the sink is a directory, not the wiki
          GitSection,  \* the section with the git: source
          MaxGit,      \* bound: positions of the clone's ref
          MaxKB,       \* bound: kb versions of the areas the cluster reads
          MaxSpec,     \* bound: versions of each page of the doc-spec
          MaxFaults    \* bound: failing calls and crashes

ASSUME ClusterAssumption ==
    /\ NPages \in Nat \ {0}
    /\ NSections \in Nat \ {0}
    /\ Judged \subseteq 1..NSections
    /\ Restyled \subseteq 1..NSections
    /\ MaxIters \in Nat
    /\ OutDir \in BOOLEAN
    /\ GitSection \in 1..NSections
    /\ MaxGit \in Nat \ {0}
    /\ MaxKB \in Nat \ {0}
    /\ MaxSpec \in Nat \ {0}
    /\ MaxFaults \in Nat

Pages    == 1..NPages
Sections == 1..NSections

VARIABLES spec, kb, git,             \* the world; git is where the ref stands
          cache,                     \* the cluster cache, a file per key
          wiki,                      \* what each page shows
          pc, snap, hit, page,       \* the run: position, inputs, page in hand
          commit, drafts,            \* the commit rev-parse gave (0: none yet), and
                                     \* what each page read of the clone
          doc, seen,                 \* the document, and what the Judge saw of it
          todo, revised, iters,      \* the refine loop: failing sections to rewrite,
          prevFail, first,           \* whether one was, rounds, failing sections
          results, failed,           \* pages that came out well, and that failed
          faults,
          began                      \* observation: where the ref stood at the start

world    == <<spec, kb, git>>
readVars == <<commit, drafts, began>>
loopVars == <<todo, revised, iters, prevFail, first>>
vars     == <<spec, kb, git, cache, wiki, pc, snap, hit, page, commit, drafts, doc, seen,
              todo, revised, iters, prevFail, first, results, failed, faults, began>>

(***************************************************************************)
(* A section is the number of times the run rewrote it and the marker      *)
(* pairs around its blocks.  A document adds the doc-spec and the kb it is *)
(* made of, which a run never changes, and the digest of the git: source:  *)
(* the commit it is labelled with and the commit its content is of.        *)
(***************************************************************************)
Section  == [att : 0..MaxIters, marks : Nat]
Inputs   == [spec : [Pages -> 1..MaxSpec], kb : 1..MaxKB]
Digest   == [commit : 0..MaxGit, content : 0..MaxGit]
Document == [of : Inputs, git : Digest, sec : [Sections -> Section]]

(***************************************************************************)
(* A page as published: what its prose bodies are made of, the marker      *)
(* pairs of its sections and whether the last verdict is about this very   *)
(* text.                                                                   *)
(***************************************************************************)
PageResult == [of : Inputs, git : Digest, marks : [Sections -> Nat], judged : BOOLEAN]

NoInputs   == [spec |-> [p \in Pages |-> 1], kb |-> 1]
NoDigest   == [commit |-> 0, content |-> 0]
NoDocument == [of |-> NoInputs, git |-> NoDigest, sec |-> [s \in Sections |-> [att |-> 0, marks |-> 0]]]

PC == {"idle", "lookup", "synth", "apply", "review", "revise", "publish", "next",
       "sink", "store", "report"}

TypeOK ==
    /\ spec \in [Pages -> 1..MaxSpec]
    /\ kb \in 1..MaxKB
    /\ git \in 1..MaxGit
    /\ \A k \in DOMAIN cache : k \in Inputs /\ DOMAIN cache[k] \subseteq Pages
    /\ \A p \in DOMAIN wiki : p \in Pages /\ wiki[p] \in PageResult
    /\ pc \in PC
    /\ snap \in Inputs
    /\ hit \in BOOLEAN
    /\ page \in 0..NPages
    /\ commit \in 0..MaxGit /\ began \in 0..MaxGit
    /\ DOMAIN drafts \subseteq Pages /\ \A p \in DOMAIN drafts : drafts[p] \in Digest
    /\ doc \in Document
    /\ seen \in Document
    /\ todo \subseteq Sections
    /\ revised \in BOOLEAN
    /\ iters \in 0..MaxIters
    /\ prevFail \in 0..NSections
    /\ first \in 0..NSections
    /\ DOMAIN results \subseteq Pages
    /\ failed \subseteq Pages
    /\ faults \in 0..MaxFaults

Empty == [k \in {} |-> {}]

Init ==
    /\ spec = [p \in Pages |-> 1]
    /\ kb = 1
    /\ git = 1
    /\ cache = Empty
    /\ wiki = Empty
    /\ pc = "idle"
    /\ snap = NoInputs
    /\ hit = FALSE
    /\ page = 0
    /\ commit = 0
    /\ drafts = Empty
    /\ began = 0
    /\ doc = NoDocument
    /\ seen = NoDocument
    /\ todo = {}
    /\ revised = FALSE
    /\ iters = 0
    /\ prevFail = 0
    /\ first = 0
    /\ results = Empty
    /\ failed = {}
    /\ faults = 0
-----------------------------------------------------------------------------
(* The world. *)

\* The doc-spec of page p is edited, in the title, intent or sources of every section.
SpecEdit(p) ==
    /\ spec[p] < MaxSpec
    /\ spec' = [spec EXCEPT ![p] = spec[p] + 1]
    /\ UNCHANGED <<kb, git, cache, wiki, pc, snap, hit, page, readVars, doc, seen,
                   loopVars, results, failed, faults>>

KBCommit ==
    /\ kb < MaxKB
    /\ kb' = kb + 1
    /\ UNCHANGED <<spec, git, cache, wiki, pc, snap, hit, page, readVars, doc, seen,
                   loopVars, results, failed, faults>>

\* Somebody pulls or commits in the clone: the ref moves on.
GitMove ==
    /\ git < MaxGit
    /\ git' = git + 1
    /\ UNCHANGED <<spec, kb, cache, wiki, pc, snap, hit, page, readVars, doc, seen,
                   loopVars, results, failed, faults>>
-----------------------------------------------------------------------------
(* Keys, and the way through a cluster's pages. *)

Fault ==
    /\ faults < MaxFaults
    /\ faults' = faults + 1

NoFault == UNCHANGED faults

\* f with the value v at x.
With(f, x, v) == [y \in DOMAIN f \cup {x} |-> IF y = x THEN v ELSE f[y]]

\* hashDocPage, HashKBSubset: the version stands for the content.
HashDocPage(in, p) == in.spec[p]
HashKBSubset(in)   == in.kb

\* Mutant: the children are left out of the key.
ClusterKeyOfParent(in) ==
    [spec |-> [p \in Pages |-> HashDocPage(in, 1)], kb |-> HashKBSubset(in)]

\* ClusterKey.  What git: sources resolve to is not part of it.
ClusterKey(in) ==
    [spec |-> [p \in Pages |-> HashDocPage(in, p)], kb |-> HashKBSubset(in)]

Key == ClusterKey(snap)

\* synthProse: the sources are read and the LLM writes a text without markers.
SynthProse(att) == [att |-> att, marks |-> 0]

\* The passes take up page p as Cluster.Render drafted it.
TakeUp(p) ==
    /\ pc' = "apply"
    /\ page' = p
    /\ doc' = [of |-> snap, git |-> drafts[p], sec |-> [s \in Sections |-> SynthProse(0)]]
    /\ seen' = NoDocument
    /\ todo' = {}
    /\ revised' = FALSE
    /\ iters' = 0
    /\ prevFail' = 0
    /\ first' = 0

\* Page p is published as the cache has it, without passes and Judge.
Republish(p) ==
    /\ pc' = "publish"
    /\ page' = p
    /\ UNCHANGED <<doc, seen, loopVars>>
-----------------------------------------------------------------------------
(* runDocSpecs *)

Start ==
    /\ pc = "idle"
    /\ pc' = "lookup"
    /\ snap' = [spec |-> spec, kb |-> kb]
    /\ began' = git
    /\ results' = Empty
    /\ failed' = {}
    /\ NoFault
    /\ UNCHANGED <<world, cache, wiki, hit, page, commit, drafts, doc, seen, loopVars>>

LookupHit ==
    /\ pc = "lookup"
    /\ Key \in DOMAIN cache
    /\ hit' = TRUE
    /\ pc' = "next"
    /\ NoFault
    /\ UNCHANGED <<world, cache, wiki, snap, page, readVars, doc, seen, loopVars, results, failed>>

\* No entry, or one that cannot be read: a warning and a miss.
LookupMiss ==
    /\ pc = "lookup"
    /\ IF Key \in DOMAIN cache THEN Fault ELSE NoFault
    /\ hit' = FALSE
    /\ pc' = "synth"
    /\ UNCHANGED <<world, cache, wiki, snap, page, readVars, doc, seen, loopVars, results, failed>>

\* git rev-parse: the commit the digest will be labelled with.
RevParse == commit = 0 /\ commit' = git

\* Mutant: the resolver answers from its last digest of the page.
DigestMemo(p) ==
    IF p \in DOMAIN wiki THEN wiki[p].git ELSE [commit |-> commit, content |-> git]

\* git show, by the ref and not by the commit: the content of this moment.
DigestOf(p) == [commit |-> commit, content |-> git]

Unread == Pages \ DOMAIN drafts

\* resolveSources of the next page, in its two calls.
ResolveCommit ==
    /\ pc = "synth"
    /\ Unread # {}
    /\ RevParse
    /\ NoFault
    /\ UNCHANGED <<world, cache, wiki, pc, snap, hit, page, drafts, doc, seen,
                   loopVars, results, failed, began>>

ResolveContent ==
    /\ pc = "synth"
    /\ commit # 0
    /\ drafts' = With(drafts, Min(Unread), DigestOf(Min(Unread)))
    /\ commit' = 0
    /\ NoFault
    /\ UNCHANGED <<world, cache, wiki, pc, snap, hit, page, doc, seen,
                   loopVars, results, failed, began>>

\* Cluster.Render: every page, from the pulled spec and snapshot.
RenderCluster ==
    /\ pc = "synth"
    /\ Unread = {}
    /\ pc' = "next"
    /\ NoFault
    /\ UNCHANGED <<world, cache, wiki, snap, hit, page, readVars, doc, seen, loopVars, results, failed>>

\* One page that cannot be synthesised fails the whole file.
RenderError ==
    /\ pc = "synth"
    /\ Fault
    /\ failed' = Pages
    /\ pc' = "report"
    /\ UNCHANGED <<world, cache, wiki, snap, hit, page, readVars, doc, seen, loopVars, results>>
-----------------------------------------------------------------------------
(* refine.Loop.Run for the page in hand.  The passes change the Sections   *)
(* slice in place, so the pre-pass document, the applied document and the  *)
(* one under review are the same document.                                 *)

\* The page's result is Failed; nothing of it is published.
PageFails ==
    /\ Fault
    /\ failed' = failed \cup {page}
    /\ pc' = "next"
    /\ commit' = 0
    /\ UNCHANGED <<world, cache, wiki, snap, hit, page, drafts, doc, seen, loopVars, results, began>>

\* Mutant: blocks are wrapped without a look at their neighbours.
WrapAgain(sec) == [sec EXCEPT !.marks = sec.marks + 1]

\* wrapBlocks: blocks that alreadyWrapped finds between their markers stay.
WrapBlocks(sec) == IF sec.marks = 0 THEN [sec EXCEPT !.marks = 1] ELSE sec

\* Pipeline.Apply over all sections.
Apply ==
    /\ pc = "apply"
    /\ doc' = [doc EXCEPT !.sec = [s \in Sections |-> WrapBlocks(doc.sec[s])]]
    /\ pc' = "review"
    /\ NoFault
    /\ UNCHANGED <<world, cache, wiki, snap, hit, page, readVars, seen, loopVars, results, failed>>

\* A broken link, or a diagram that cannot be uploaded.
ApplyError == pc = "apply" /\ PageFails

\* Judge.Review looks a section up by its title, which a restyled heading no longer is.
\* A failing set: what the LLM rejects, an answer that cannot be parsed included.
Reports == {F \in SUBSET Judged : Judged \cap Restyled \subseteq F}

\* The loop goes round once more, after n rounds and with F failing.
Revising(n, F) == n < MaxIters /\ F # {}

\* Mutant: rounds without progress go on until the budget is spent.
NoProgressNever(F) == FALSE

\* A round that left no fewer failing sections is the last.
NoProgress(F) == Cardinality(F) >= prevFail

\* The review of the draft (first) or of a revision.
Review ==
    /\ pc = "review"
    /\ \E F \in Reports :
         /\ todo' = F
         /\ prevFail' = Cardinality(F)
         /\ IF revised
              THEN /\ iters' = iters + 1
                   /\ pc' = IF ~NoProgress(F) /\ Revising(iters + 1, F) THEN "revise" ELSE "publish"
                   /\ UNCHANGED first
              ELSE /\ first' = Cardinality(F)
                   /\ pc' = IF Revising(0, F) THEN "revise" ELSE "publish"
                   /\ UNCHANGED iters
    /\ seen' = doc
    /\ revised' = FALSE
    /\ NoFault
    /\ UNCHANGED <<world, cache, wiki, snap, hit, page, readVars, doc, results, failed>>

\* The LLM call of a review fails.
ReviewError == pc = "review" /\ PageFails

\* spliceSection finds the section by its title, in the document as the passes left it.
SpliceSection(s) ==
    IF s \in Restyled
      THEN UNCHANGED <<doc, revised>>
      ELSE /\ doc' = [doc EXCEPT !.sec[s] = SynthProse(doc.sec[s].att + 1),
                                 !.git = IF s = GitSection THEN DigestOf(page) ELSE @]
           /\ revised' = TRUE

\* ReviseSection for the next failing verdict, and the splice.
ReviseSection ==
    /\ pc = "revise"
    /\ todo # {}
    /\ Min(todo) = GitSection => commit # 0
    /\ SpliceSection(Min(todo))
    /\ todo' = todo \ {Min(todo)}
    /\ commit' = 0
    /\ NoFault
    /\ UNCHANGED <<world, cache, wiki, pc, snap, hit, page, drafts, seen, iters,
                   prevFail, first, results, failed, began>>

\* The sources of a section with a git: source are read again, in two calls.
ReviseCommit ==
    /\ pc = "revise"
    /\ todo # {} /\ Min(todo) = GitSection
    /\ RevParse
    /\ NoFault
    /\ UNCHANGED <<world, cache, wiki, pc, snap, hit, page, drafts, doc, seen,
                   loopVars, results, failed, began>>

\* A source that cannot be resolved, or a failing LLM call.
ReviseError ==
    /\ pc = "revise"
    /\ todo # {}
    /\ PageFails

\* Every failing section has had its turn.
RoundDone ==
    /\ pc = "revise"
    /\ todo = {}
    /\ pc' = IF revised THEN "apply" ELSE "publish"
    /\ NoFault
    /\ UNCHANGED <<world, cache, wiki, snap, hit, page, readVars, doc, seen, loopVars, results, failed>>
-----------------------------------------------------------------------------
(* publishClusterPage, the next page, and the cache. *)

Published ==
    IF hit THEN cache[Key][page]
    ELSE [of |-> doc.of, git |-> doc.git, marks |-> [s \in Sections |-> doc.sec[s].marks], judged |-> seen = doc]

(***************************************************************************)
(* MergeBlocks.  A prose block's provenance is a hash of the page's        *)
(* doc-spec, not of the kb or of the LLM's answer: as long as the page has *)
(* not changed in the doc-spec, the bodies on the wiki stay, whichever run *)
(* wrote them, and no verdict of this run is about them.                   *)
(***************************************************************************)
Merged ==
    IF page \in DOMAIN wiki /\ HashDocPage(wiki[page].of, page) = HashDocPage(Published.of, page)
      THEN [wiki[page] EXCEPT !.marks = Published.marks, !.judged = FALSE]
      ELSE Published

\* reconcileAndPush.
PublishClusterPage ==
    /\ pc = "publish"
    /\ wiki' = With(wiki, page, Merged)
    /\ pc' = "sink"
    /\ NoFault
    /\ UNCHANGED <<world, cache, snap, hit, page, readVars, doc, seen, loopVars, results, failed>>

\* Backend, reconciler or upload fail, the upload before or after it was applied.
PublishError ==
    /\ pc = "publish"
    /\ wiki' = With(wiki, page, Merged) \/ UNCHANGED wiki
    /\ Fault
    /\ failed' = failed \cup {page}
    /\ pc' = "next"
    /\ UNCHANGED <<world, cache, snap, hit, page, readVars, doc, seen, loopVars, results>>

\* Mutant: the sink is left out for a cluster from the cache.
SinkWritesFresh == wiki' = IF OutDir \/ hit THEN wiki ELSE With(wiki, page, Published)

\* What the sink does with the raw render.
SinkWrites == wiki' = IF OutDir THEN wiki ELSE With(wiki, page, Published)

OnRendered ==
    /\ pc = "sink"
    /\ SinkWrites
    /\ results' = With(results, page, Published)
    /\ pc' = "next"
    /\ NoFault
    /\ UNCHANGED <<world, cache, snap, hit, page, readVars, doc, seen, loopVars, failed>>

\* The sink fails, applied or not: the page is reported as failed.
OnRenderedError ==
    /\ pc = "sink"
    /\ SinkWrites \/ UNCHANGED wiki
    /\ Fault
    /\ failed' = failed \cup {page}
    /\ pc' = "next"
    /\ UNCHANGED <<world, cache, snap, hit, page, readVars, doc, seen, loopVars, results>>

\* The pages the loop of runDocSpecs still has before it.
Rest == {p \in IF hit THEN DOMAIN cache[Key] ELSE Pages : p > page}

NextPage ==
    /\ pc = "next"
    /\ IF Rest # {}
         THEN IF hit THEN Republish(Min(Rest)) ELSE TakeUp(Min(Rest))
         ELSE /\ pc' = IF hit THEN "report" ELSE "store"
              /\ UNCHANGED <<page, doc, seen, loopVars>>
    /\ NoFault
    /\ UNCHANGED <<world, cache, wiki, snap, hit, readVars, results, failed>>

\* Mutant: the pages that came out well are cached.
StorablePartly == TRUE

\* Only a cluster without a failed page is cached.
Storable == failed = {}

\* ClusterCache.Set, atomic by rename; it may fail.
Store ==
    /\ pc = "store"
    /\ \/ cache' = (IF Storable THEN With(cache, Key, results) ELSE cache) /\ NoFault
       \/ Storable /\ UNCHANGED cache /\ Fault
    /\ pc' = "report"
    /\ UNCHANGED <<world, wiki, snap, hit, page, readVars, doc, seen, loopVars, results, failed>>

\* The memory of a run is gone.
Ended ==
    /\ pc' = "idle"
    /\ snap' = NoInputs
    /\ hit' = FALSE
    /\ page' = 0
    /\ commit' = 0
    /\ drafts' = Empty
    /\ began' = 0
    /\ doc' = NoDocument
    /\ seen' = NoDocument
    /\ todo' = {}
    /\ revised' = FALSE
    /\ iters' = 0
    /\ prevFail' = 0
    /\ first' = 0
    /\ results' = Empty
    /\ failed' = {}
    /\ UNCHANGED <<world, cache, wiki>>

Report ==
    /\ pc = "report"
    /\ Ended
    /\ NoFault

Crash ==
    /\ pc # "idle"
    /\ Ended
    /\ Fault

Step ==
    \/ Start \/ LookupHit \/ LookupMiss \/ ResolveCommit \/ ResolveContent \/ RenderCluster
    \/ Apply \/ Review \/ ReviseCommit \/ ReviseSection \/ RoundDone
    \/ PublishClusterPage \/ OnRendered \/ NextPage \/ Store \/ Report

Failure ==
    \/ RenderError \/ ApplyError \/ ReviewError \/ ReviseError
    \/ PublishError \/ OnRenderedError \/ Crash

World == KBCommit \/ GitMove \/ \E p \in Pages : SpecEdit(p)

Next == Step \/ Failure \/ World

Spec == Init /\ [][Next]_vars

\* The scheduler keeps starting runs, and a run's process takes its steps.
FairSpec == Spec /\ WF_vars(Step)
-----------------------------------------------------------------------------
(***************************************************************************)
(* A cached cluster has all its pages, each made from the spec and kb its  *)
(* key stands for and each with the verdict on exactly its text: no page   *)
(* that failed, and nothing of an earlier run, gets into the cache.        *)
(***************************************************************************)
CachedClusterIsWhole ==
    \A k \in DOMAIN cache :
        /\ DOMAIN cache[k] = Pages
        /\ \A p \in Pages : cache[k][p].of = k /\ cache[k][p].judged

(***************************************************************************)
(* The verdict a run reports with a published page is about the text the   *)
(* wiki shows: no section is rewritten after the last review and published *)
(* unreviewed, although the loop rewrites the document in place, and none  *)
(* of an earlier run's bodies is left of the merge.  This takes the sink's *)
(* upload: with --out the merge stays, and where the sink fails or the     *)
(* process dies before it, so it does on a page the run reports as failed, *)
(* or does not report.                                                     *)
(***************************************************************************)
PublishedAsJudged == \A p \in DOMAIN results : wiki[p].judged

(***************************************************************************)
(* Every section reaches the wiki between one pair of markers, however     *)
(* often the loop sent the document through the passes: the reconciler     *)
(* finds blocks by their markers (refine.go: "so non-idempotent passes     *)
(* (e.g. zone markers) are never double-applied").                         *)
(***************************************************************************)
MarkedOnce == \A p \in DOMAIN wiki : \A s \in Sections : wiki[p].marks[s] = 1

(***************************************************************************)
(* The loop costs no more rounds than the first review found failing       *)
(* sections, whatever its budget: "no progress" ends it.                   *)
(***************************************************************************)
RefineConverges == iters <= first

(***************************************************************************)
(* Where the sink is the wiki, a run without a failed page leaves every    *)
(* page as the pulled spec and kb make it, whether it came from the cache  *)
(* or not: nothing of the merge, which keeps the bodies of an older kb,    *)
(* survives the sink.                                                      *)
(***************************************************************************)
OkRunIsFresh ==
    pc = "report" /\ failed = {} =>
        \A p \in Pages : p \in DOMAIN wiki /\ wiki[p].of = snap

(***************************************************************************)
(* What a run synthesised itself shows the clone as it stood at the start  *)
(* of the run or later, and is never labelled with a commit newer than its *)
(* content, although the ref moves between the resolver's two calls,       *)
(* between pages and between review rounds.  The sink is the wiki; and a   *)
(* run that takes the cluster from the cache republishes what an earlier   *)
(* run read.                                                               *)
(***************************************************************************)
GitContentIsCurrent ==
    pc = "report" /\ failed = {} /\ ~hit =>
        \A p \in Pages :
            /\ wiki[p].git.content >= began
            /\ wiki[p].git.content >= wiki[p].git.commit

(***************************************************************************)
(* Every kb commit reaches every page: failing calls and crashes delay it, *)
(* a page that failed is tried again and never hidden by the cache.        *)
(***************************************************************************)
ClusterCatchesUp ==
    \A k \in 1..MaxKB :
        (kb = k) ~> (\A p \in Pages : p \in DOMAIN wiki /\ wiki[p].of.kb >= k)
=============================================================================
