# A TLA+ model of mykb-curator

mykb-curator turns a knowledge base (kb) and a set of page specifications into
wiki pages, again and again, on pages that people also edit. This directory
holds TLA+ modules that model the parts of it where order, failure and
concurrency decide whether it is correct, TLC configurations that check them on
small instances, and TLAPS proofs for every instance. Paths below are relative
to the repository root (`src/`).

## 1. The system

A *run* (`mykb-curator run`, started by cron) takes the per-wiki lock, opens its
caches, pulls the kb and the specs, and then walks

1. the `*.spec.md` files in id order: reject one of another wiki, turn a
   superseded leaf into a redirect, expand an auto hub, skip a spec whose kb
   areas did not change since the recorded commit, or render, reconcile with the
   wiki page, upload and record;
2. the `*.doc.yaml` clusters: cached pages, or LLM synthesis, passes, Judge and
   refine loop per page, then the same reconcile and upload;
3. the manifest of owned pages: pages no spec owns any more become redirects;
4. the maintenance checks, whose proposals are committed to branches of the kb
   clone;

and reports. A second program, `serve` with the Node agent service, lets a
person change doc-specs in a chat: a model calls tools, a gate holds every
mutation until the person approves it, and the curator API writes the file.

| Component | State | Operations | Correct when |
|---|---|---|---|
| Orchestrator (`internal/orchestrator`) | per-run: snapshot, specs, owned pages | `Run`, `processSpec`, `reconcileAndPush`, `retireLeaf`, `runDocSpecs`, `pruneOrphans` | pages of finished specs are fresh; skipping is sound; owned and taken-over pages are not pruned |
| Reconciler (`rendering/reconciler`) | none | `Reconcile`, `MergeBlocks`, `detectHumanEdits` | human polish on unchanged blocks survives; removed edits are reported |
| Wiki targets (`adapters/wiki`) | pages with revisions | `GetPage`, `UpsertPage`, `History`, `HumanEditsSinceBot` | revision ids identify the curator's writes |
| Run-state cache (`cache/runstate`) | last bot revision and kb commit per spec, in bbolt | `Open`, `Get`, `Set`, `Close` | the record names a bot revision and a published commit |
| Manifest (`cache/manifest`) | owned titles of the last run | `Load`, `Save` | accounts for every page the curator made |
| Navigation (`internal/nav`, `buildNavMap`) | none, computed per run | `Placement`, `ResolvePlacement`, `Members`, auto hub expansion | a hub lists its pages, and is rendered again when they change |
| Git sources (`sources/git`) | a second clone, which other tools move | `Resolve` (commit, then content by ref), digest | what is synthesised is what the ref held |
| Lock (`internal/lock`, `cmd/mykb-curator`) | flock on a file | `Acquire`, `Release` | one run per wiki, no stale lock |
| Git kb source and PR backend | one working copy, shared | `Pull`, `DiffSince`; `Submit` | snapshots are current and never go back |
| Cluster, cluster cache, passes, Judge, refine | cached page results per key | `Render`, `Get`, `Set`, `Apply`, `Review`, `ReviseSection` | only whole clusters are cached; what is published was judged; the loop ends |
| Curator API, docedit (`adapters/curatorapi`) | doc-spec files | get, put, preview, propose-entry | no invalid spec is written |
| Agent service (`agent-service/src`) | pending proposals, counters | `/chat`, gate, `/approve` | nothing is applied unapproved, twice, or other than shown |
| LLM clients, report sinks, config, pi-wrapper | files, network | I/O | not modelled |

*Interaction.* The orchestrator calls everything else synchronously; the wiki,
the kb remote and the spec files are shared with people who change them at any
time; successive runs communicate only through the run state, the manifest, the
cluster cache, the clone and the wiki itself; concurrent runs meet in the lock
file and in bbolt's file lock. In the agent service, turns and approvals
interleave at every `await` and share one gate.

*What is hard.* Human edits that race an upload; an error or a crash between an
upload and the record of it; cache writes whose errors are dropped; a view of
the world that is partial because one pull failed; a working copy that the
previous run left on another branch; documents rewritten in place by a loop with
four exits; approvals and puts in flight together. `PROJECT.json` lists each of
these under `hazards` at the line where it bites.

## 2. Modules

| Module | Models | Composition |
|---|---|---|
| `PageContent` | blocks, provenance, the block merge | constant-level, extended by `PagePublish` |
| `PagePublish` | one page across runs, call by call | extends `PageContent` |
| `PagePublish_proof` | proofs about one page | extends `PagePublish` |
| `MarkerText` | the same page as text: markers, the scanner, the merge, edits anywhere | stands below `PageContent`: a page there has the blocks of its render; here that is checked and proved |
| `MarkerText_proof` | proofs about scanner and merge on every text | extends `MarkerText` |
| `NavMap` | placement of pages, members of a hub, their order, the areas a hub shows | constant-level, extended by `CuratorRun` |
| `CuratorRun` | a whole run over specs, hub, cluster page, manifest | extends `NavMap`; a page is what produced it; the calls of one page are `PagePublish` |
| `KBClone`, `KBClone_proof` | the kb clone under Pull and Submit | |
| `RunExclusion` | what the lock promises: one active run per wiki | abstract specification |
| `WikiLock`, `WikiLock_proof` | lock file, fallback path, bbolt's lock, order of the deferred calls | refines `RunExclusion` by `active <- Active` |
| `CuratorRun_proof` | proofs about placement, order and expansion of hubs, types, pruning and retiring | extends `CuratorRun` |
| `CuratorFresh_proof` | proofs about what pages hold after a run: skipping, auto hubs | extends `CuratorRun_proof` |
| `ClusterPublish`, `ClusterPublish_proof` | one doc-spec cluster across runs: cache, synthesis, passes, Judge, refine loop, merge and sink | each of the two uploads is one step; the calls of one, and the humans, are `PagePublish` |
| `SpecChat`, `SpecChat_proof` | chat turns, gate, approvals, the API's put | |
| `MC*` | give the constants of a module values for TLC | |

### PageContent and PagePublish

A text is reduced to where it came from: the spec version and kb version it was
generated from, or the human revision that typed it. A page is a set of marked
blocks, each with a provenance, and one text around them. `MergeBlocks` and
`ChooseBody` are `merge.go`; `Form` keeps the one thing about layout that
matters, the newline `writeBlock` adds.

The run is `StartRender` (or `StartSkip`, `StartDiffError`, `StartRenderError`),
`GetPage`, `History`, `Push`, `Persist` or `NoOp`, `OnRendered`, `Report`; each
is one call to the wiki or the cache, so that a human edit, a commit or a crash
fits in between, and each has its error action. An upload that answers with an
error may have been applied. `Target` chooses the adapter: `memory` returns
revision ids, `mediawiki` returns none and makes no revision of an identical
text. `base`, `late` and `reported` only observe; `late` holds the human
revisions of this run's window from its history read to its last upload, and
`Begin` empties it: what raced an earlier run is that run's excuse, not this one's.

### MarkerText

A text is a sequence of tokens: line breaks, BEGIN and END markers with id, zone
and provenance, headings, generated text (with the entry and version it is
about) and words a person typed (with the block they were typed into).
`Render` is the order in which `ApplyZoneMarkers` and a backend write them,
`Parse` is `wikiparse.go` (a scan from one END to the next BEGIN, an unclosed
BEGIN ends it), `MergeBlocks`, `ChooseBody` and `WriteBlock` are `merge.go`
with its line breaks. A block id is a position, as in `blockIDFor`. A person
types, erases one token or pastes a marker or a line break at any position.
`Layouts` are the section lists that entries which come and go can produce.

### NavMap and CuratorRun

`NavMap` is `internal/nav`, `buildNavMap` and `autohub.go`: the placement of a page from its
spec's fields or from its title (`SubpathParent`), the members of a hub with
the hub's own section list first and the rest under Other, and the order
(`SortKey`, `Less`; the last two fields of a key are the place among the specs,
where a stable sort leaves equals). `Members` is the set of pages of a hub,
`InOrder` puts a set of them in that order, `ExpandAuto` gives the sections of
the hub, `ShownAreas` the areas from which they take text.

`Pull` takes what the stores return, `SpecStep` handles the next spec (one action
per branch of `Run`'s loop), then `RunDocSpecs`, `LoadManifest`, the orphans,
`SaveManifest`, `Report`. Publishing a page is one step here, but a redirect is
not, because it replaces a whole page without the reconciler: `retireLeaf` is
`GetLeaf` (or `LeafStays`), `LeafBlocked` or `LeafNotBlocked` for
`HumanEditsSinceBot`, and `RedirectLeaf`; `retireOrphan` is `GetOrphan` and
`RedirectOrphan`. People write between these calls, and `UpsertPage` has no base
revision; `redirecting` is the page in hand, and `raced` observes that somebody
wrote it meanwhile. A takeover (`HumanTakeover`) is a text without a trace of the
curator, or a `lookalike`: a #REDIRECT or a text that mentions mykb-curator, which
`looksCuratorOwned` takes for the curator's. `World` names which changes an instance makes: kb
commits, removed, restored and renamed specs, supersede lists, human edits and
takeovers. What a hub shows is part of what produced its page, so a hub that was
skipped while its members changed is a stale page like any other (`Exempt` is
the code's answer to that). The misrouted spec, the auto hub and a cluster page
below a leaf are in the instances.

### KBClone

The remote is a number of commits, the clone a HEAD with branch, base and
proposal. `PullContext` is go-git's rule (up to date, fast-forward, diverged), the
rest is `git.go` and `prbackend.go`.

### WikiLock and RunExclusion

A process chooses its lock path, takes the lock, composes (may fail), opens
bbolt (may time out), runs, closes and releases. `Crash` drops the locks of the
process, as the kernel does.

### ClusterPublish

A section is the number of times the run rewrote it and the marker pairs around
its blocks; a document adds the spec and kb versions it is made of. Verdicts are
chosen freely among those the Judge can give. The Sections slice is shared by
all stages, so there is one `doc`, rewritten in place; `seen` remembers the
document of the last review. A heading that a style rule rewrote is not found by
the Judge nor by `spliceSection` (`Restyled`). One section may have a git:
source: `ResolveCommit` asks for the commit of the ref and `ResolveContent` for
what it holds, two git commands between which the clone can move (`GitMove`);
`ReviseCommit` does it again for every revision.

A page is uploaded twice. `PublishClusterPage` is `reconcileAndPush`: it uploads
`Merged`, in which prose bodies of the wiki stay as long as the page is unchanged
in the doc-spec (provenance covers neither the kb nor the answer of the LLM), so
that no verdict of this run is about them. `OnRendered` is the sink: the raw render
over it, or, with `--out` (`OutDir`), a file. Either may fail, applied or not, and
the process may die between them. A `SpecEdit` edits every section of a page.

### SpecChat

JavaScript runs to the next `await`, so `gate`, `beginTurn` and `takePending` are
atomic. A put is three steps (read and check, truncate, write), because
`os.WriteFile` is no atomic replace and the API takes no lock. A put that writes
after another one truncated or wrote may leave a mixture of both texts.
`Restart` is a new life of the service: gate state is gone, ids start over, the
pages people have open are still there (`shown`).

## 3. Runs

| Run | Instance | Shows |
|---|---|---|
| `PublishFaults` | wiki sink, memory target, 2 kb and 2 spec versions, 2 racing edits, 2 faults | the record names a bot revision; a Rendered run names what it removed, except edits in its own read-to-upload window |
| `PublishCrash` | MediaWiki with `--out`, 1 edit, 2 faults, fair | skipping is sound, polish survives, finished runs are fresh, every commit is published |
| `MarkerEdits` | MediaWiki text, 3 names, 2 edits anywhere, 1 change of kb, layout or spec | the merge settles, repairs markers, keeps typed words and does not move them to another entry |
| `RunFaults` | hub, leaf, cluster page, every kind of change (3), 1 fault, revision ids | pruning spares owned pages, and those taken over before it read them; hubs list their pages; in the behaviours without a fault, no lingering orphan, and no redirect over an edit that the guard could see |
| `RunFresh` | 3 specs, one misrouted, 2 changes, 2 faults, fair | completed runs are fresh; the wiki settles when the world does |
| `CloneWriteback` | 5 commits, 3 proposals, 3 faults | a successful Pull is current and monotonic |
| `LockFaults` | 2 processes of one wiki, 1 of another, 4 faults, fair | exclusion (also as refinement), no stale lock, runs keep happening |
| `ClusterFaults` | 2 pages of 3 sections (2 judged, 1 restyled), budget 3, wiki sink, a moving git: clone, 1 fault, fair | whole cache entries, judged texts on the pages reported as published, one marker pair, convergence, freshness, current git content, progress |
| `ChatFaults` | 2 turns, 2 approvals in flight, 2 lives, 1 fault, fair | approval, once-only application, stable ids, preview budget, valid files, turns end |
| `SinkOverwritesPolish` | MediaWiki without `--out` | violation: the raw render is uploaded after the merge |
| `MediaWikiHidesEdits` | MediaWiki | violation: no revision id, removed edits are never reported |
| `CloneDiverges` | write-back, 2 commits | violation: the clone stays diverged, no later commit is pulled |

*Bounds.* Every bound is a constant. Two versions of kb and spec separate "old"
from "new"; a third kb version would repeat the second. Two faults let the second
fall into the recovery from the first; one is enough where a run has no state
that outlives two. `RunFresh` has two changes, so that two commits, or a commit and
a removal or an edit, meet two faults; its invariant is proved for any number of
both, and `RunFaults` has three. Seven revisions hold three runs with both uploads and an
edit. In `MarkerEdits` two edits can damage a marker and type next to it, or
erase the END of one block and paste one elsewhere; one change suffices because
a merge looks only at the page and one render. The git: clone of `ClusterFaults`
moves once, before, between or after the two calls. Three blocks are the three kinds of provenance: machine, editorial, and
editorial that covers the kb. Two pages make a parent and a child, two judged
sections let the failing count fall, stay or rise. Two turns and two approvals
are what an overlap needs.

*Deadlock.* Where the world is bounded and a crash budget or revision budget is
used up, an instance may stop although the system would not; those
configurations say `CHECK_DEADLOCK FALSE`. `LockFaults` and `ClusterFaults` check
deadlock.

*Fairness.* Cron keeps starting runs and a live process takes its next step:
weak fairness of the steps of a run. In `SpecChat` the timer of `agent.mjs` fires
and the API answers; the model may call tools for ever. Nothing is assumed of
people, of the model, of faults or of restarts.

*What the properties leave open.* `RenderedRunNamesItsOverwrites` excepts the
edits in the run's own window (`late`), because the code has no way to see them.
`PruneSparesTakenOverPages` and `RetireSparesEditedLeaf` except, for the same reason,
what happens between the check and the upload of one and the same redirect
(`raced`; without the exception TLC finds the overwritten takeover and the
overwritten edit at once), and a lookalike has no protection. `PublishedAsJudged`
is about pages that a run reports as published, where the sink is the wiki: a page
whose sink failed, or whose run died before it, shows the merge, and with `--out`
every page does. `OkRunIsFresh` and `GitContentIsCurrent` need the wiki sink too.
`CompletedRunIsFresh` is checked in a world without edited, renamed and
un-superseded specs; `NoLingeringOrphan` and `RetireSparesEditedLeaf` speak of
behaviours without a fault; section 6 says what happens otherwise. In
`ClusterPublish` `OkRunIsFresh` is about spec and kb, and `GitContentIsCurrent`
about runs that synthesise: a cache hit publishes the content of the run that
filled the cache. `BodyIsAboutItsEntry` is checked for blocks whose hash covers
their entry, which the projection frontend writes and the editorial one does
not. `RetireSparesEditedLeaf` speaks of a page that still belongs to the spec that
rendered it: the guard looks up the record of the spec, so a spec renamed onto a
page of another has nothing to compare with (section 6). `TypeOK` of
`ClusterPublish` and `SpecChat` is no property of a run; it is proved, as are the
types of `PagePublish`, `KBClone` and `WikiLock`.

## 4. Proofs

All in TLAPS, for every value of the constants that the named assumptions allow.

`PagePublish_proof` (assumptions `ContentAssumption`, `PublishAssumption`)
- `MergeIsIdempotent`: merging a render twice is merging it once. From the
  definition of `ChooseBody`: the merged block has the render's provenance.
- `TypeCorrect`: `TypeOK` is inductive; the merge lemmas give the type of what is
  uploaded.
- `RecordedRevIsBot`: `RunStateRevIsBot` is not inductive by itself: `Persist`
  records a revision that `Push` made one step earlier. `RevInv` adds that the
  revision in hand (`newRev`, `last`) is a bot revision and that revisions are
  never removed.
- `SkippingIsSound`: `SkipInv` bounds the recorded commit by the run's snapshot and
  by what the curator's last revision holds, and says that a run about to record
  has published. A no-op, and MediaWiki's "no change", publish nothing: there
  `OwnText` is needed, that generated text on the page is the curator's last
  (people type over a body, they do not restore one).
- `FinishedRunsAreFresh`: `PageInv`. A kept body is fresh because every page is
  `Honest`: a tracked block holds human words or what its provenance names.
- `PolishSurvives`, under the hypothesis `Sink # "wiki"` (a run with `--out`, or the
  markdown target; without it run `SinkOverwritesPolish` refutes the property):
  `PolishInv` carries the page from the start of an undisturbed run to its merge.
- `RenderedRunsNameOverwrites`: `NamedInv` (all edits since the last bot revision
  are named or in this run's window until the last upload) and `WordsInv` (no revision has
  words of a later one, so an upload removes only older edits).

`KBClone_proof` (`CloneAssumption`)
- `TypeCorrect`: `TypeOK` is inductive.
- `PullIsCurrent`: `SnapshotIsFetched`, with `Behind` (clone, base branch and
  snapshots are no newer than what was fetched, which is no newer than the
  remote): only then does "up to date" mean that HEAD is the fetched commit.
- `PullIsMonotonic`: from the same invariant.

`WikiLock_proof` (`LockAssumption`)
- `TypeCorrect`: `TypeOK` is inductive.
- `NoStaleLocks`: with the converse, `LocksHeld`: a process between taking and
  releasing a lock holds it.
- `Exclusive` and `Implements`: if all processes of a wiki share a cache dir
  (`OneCacheDir`, an assumption of the theorem), bbolt's lock alone makes runs
  exclusive, so the fallback of the lock path does no harm, and every step maps
  to `Enter`, `Leave` or a stutter of `RunExclusion`.

`SpecChat_proof` (`ChatAssumption`)
- `TypeCorrect`, `NothingIsUnapproved`, `AppliesOnce`, `AppliesWhatWasShown`,
  `PreviewsAreBounded`, `FileIsValid`, from one inductive invariant. The part about
  approval: ids are issued by the running counter and name one proposal per life of
  the service, a proposal is in one place (pending, in a request, or in the log),
  and whatever a request holds it took under an id the person was shown. The parts
  about the file (what a put has read and will write is valid) and about previews
  (per-turn counters against the number of turns) stand by themselves.

`ClusterPublish_proof` (`ClusterAssumption`)
- `TypeCorrect`, `CachesWholeClusters`, `PublishesWhatWasJudged`, `MarksOnce`,
  `RefineTerminatesEarly`, `OkRunsAreFresh`, `GitContentStaysCurrent`, from one
  inductive invariant of ten named parts; `PublishesWhatWasJudged`, `OkRunsAreFresh`
  and `GitContentStaysCurrent` under the hypothesis `~OutDir` (the sink is the wiki). `LoopInv` is the variant of the refine
  loop: rounds spent plus sections still failing never exceed the first count.
  `ReviewInv` is the reason that the published document is the reviewed one: a round
  that rewrote a section always goes back to the passes and the Judge. The wiki as a
  whole is only `Marked` (`WikiInv`), since merges are on it. `ProgressInv`
  and `ResultsInv` say that every page behind the loop has a result which the wiki
  shows, or has failed; `ReadInv` orders what the git: resolver answered.
- Lemmas: `MinIsLeast` (the next page is the least one left), `KeyIsSnap` (the
  cluster key determines spec and kb), `ReportCount` (the Judge's count),
  `PublishedIsSound` and `MergedIsMarked` (the two texts that are uploaded).

`CuratorRun_proof`, first part: the operators of `NavMap` (`NavAssumption`)
- `LessOrders`: the order of `Build` is a strict total order of members of
  different specs. It is a lexicographic order of five keys, and the last one is
  the place the spec has among the specs.
- `InOrderSorts`: for a finite set of members, `InOrder` has each at one place,
  and the smaller at the earlier place. The number of members before a member is
  its rank; ranks differ and are below the number of members, so they are all of
  them (`FS_Injection` and the facts about cardinality of the library).
- `ExpandedLinks`: an expanded hub has one link for each member and no other, if
  the titles differ.

`CuratorRun_proof`, second part: the runs (`RunAssumption` and `NavAssumption`)
- `TypeCorrect`: `TypeOK`, from two inductive invariants. `Typed` is the type of
  pages and stores; with it the pages handed to `Build` are at most one per spec
  (`NavEntries`), which the lemmas of the first part ask for. `RestTyped` is the
  rest.
- `PruningSparesOwnedPages`, `PruningSparesTakenOverPages`, action properties of any
  run with any failing pull: from `ViewInv` (what a run knows of the owned pages
  when it prunes), `WindowInv` (between the check and the upload of a redirect the
  page is what was checked, or `raced`) and the steps.
- `RetiringSparesEditedLeaves`, under `ReturnsRevID` (the memory target; MediaWiki
  returns no ids and the guard never applies, section 6): `KnownInv` says that while
  nothing failed, a page its own spec rendered has a recorded revision, so that the
  guard is evaluated, and `WindowInv` that a leaf which passed it has no edit in it
  but one of the window.
- `OrphansDoNotLinger`: `OrphanInv` says that while nothing failed the manifest, or
  the run that is under way, accounts for every rendered page below a parent.

`CuratorFresh_proof`
- `CompletedRunsAreFresh`, under `OwnPages`: the world restores, renames and
  supersedes no spec, and specs start with pages of their own that are not the
  cluster's. The instance of run `RunFresh` satisfies it; section 6 says what the
  code does without it. `RecordInv` ties the commit recorded for a spec to the kb
  its page is of, and `TurnInv` to the specs whose turn in the run is over.
- `HubsListTheirPages`, in any world and after any fault, under `DistinctTitles` (a
  hub that declares a section title twice lists the pages of the section twice)
  and `HubsApart` (no auto hub has the page of the cluster, which is written over
  it). `HubTurnInv`: a hub whose turn in this run is over and did not fail is
  rendered from this run's placement; `PlacedEntries` translates the placement of
  the code, resolved parents of pages that are not superseded, to the one the
  property names, and `ExpandedLinks` does the rest.

`MarkerText_proof` (`TextAssumption`): all four properties of `MarkerEdits`, for any
names, layouts and any number of edits and changes.
- What `Parse` computes. `Parse` is a recursive function of positions, so nothing is
  proved by induction on texts; instead `ScanFrom` says what it is for D to be the
  blocks of a text (each the first one behind the one before, none behind the
  last), `ParseScans` that the result of `Parse` is such a D, and `OneScan`, by the
  least place at which two could differ, that there is no other. That the recursive
  definitions of `Parse` and of `FlattenSeq` denote functions at all is proved too
  (`ChainExists`, `FlattenIs`).
- What the merge writes. `LaidOut` gives the position of every token of a render with
  other bodies; `RewriteScans` shows that its blocks are a `ScanFrom` of the merged
  text, hence by `OneScan` what the next `Parse` finds: no body has the END of its own
  block (`ChosenBody`), because the scanner ended it at the first.
- `RepairsMarkers` and `Settles` follow on every page that is a sequence of tokens
  (`IsText`, the invariant); `Settles` also needs that no two blocks of a render have
  the same id (`RenderIs`).
- `OwnEntries`, under `OneSpecHash`: at most one kind of block has a hash that does
  not name its entry. The projection frontend is such; for the editorial one the
  statement is false (section 6). `TidyInv`: while no marker was touched, each BEGIN
  of the page is followed by its END, with no marker and only text about its own
  entry between. `MergeTidy` is the step that a run takes, `InsertedTidy` and
  `RemovedTidy` are those of a person.
- `WordsSurvive`: `PairedInv`, the observed markers are numbered as a render numbers
  them. Then the scan of the page reaches the block (`BegunIsBlock`: every earlier
  BEGIN is closed before the next marker), no earlier block has its id, and the merge
  keeps its body (`KeptText`).

Every inductive invariant was model-checked on the instances of section 3 before it
was proved.

Only model-checked:
- the liveness properties (`EveryCommitIsPublished`, `EventuallyCurrent`,
  `RunsKeepHappening`, `ClusterCatchesUp`, `TurnsEnd`): fairness and ENABLED are out
  of this prover's reach.

Every other property of a run that is expected to pass is stated by a theorem.

## 5. Not modelled

- LLM clients and their cache, report sinks, configuration, command line, the pi
  wrapper: I/O around the modelled steps.
- The regular expressions of `wikiparse`, markdown and wikitext rendering of a
  block's own text, YAML and JSONL parsing: their result is the model's data.
- The 50-revision window of `History`: it is read only with a recorded revision
  id, and no upload of the MediaWiki target returns one, so it is not reached as
  deployed.
- Which files of a git: source a digest quotes, and the entry tags in the
  cluster key.
- The line diff of the reports (`unifiedish`).
- What the maintenance checks propose; only what `Submit` does to the clone.

## 6. Disagreements between code and documents

Three have a run (section 3). The others were met while modelling; the models
show them under other instances or properties, or they lie just outside:

- `internal/orchestrator/orchestrator.go:650` uploads without a base revision; an
  edit in the window is lost. `docs/DESIGN.md:912` promises `basetimestamp`.
- `orchestrator.go:604`: a failing sink returns a result without `HumanEdits`;
  the edits that were just removed are in no report
  (`reconciler.go:6`, "ALWAYS surfaces them").
- `orchestrator.go:630` drops `PreExistingContent`; `reconciler.go:61` says it is
  surfaced.
- `reconciler/merge.go:90`: the second render of an unchanged page is not a no-op,
  because of the added newline (`docs/engineering-principles.md:206`).
- `frontends/editorial/editorial.go:70`: `InputHash` leaves out the kb
  (`ir/ir.go:69`, "spec section + source contents").
- `orchestrator.go:494`: an edited or renamed spec is skipped while the kb stands
  still; the comment at `:497` relies on the IR cache, which is not asked.
- The same skip keeps the redirect of a leaf that is no longer superseded
  (`docs/navigation-DESIGN.md:169`, "restores content").
- `orchestrator.go:842`: an orphaned cluster page below the leaf it superseded
  redirects to that leaf and the leaf to it (`docs/navigation-DESIGN.md:342`).
- `orchestrator.go:817`: an orphan whose retirement failed leaves the manifest
  (`docs/navigation-DESIGN.md:326`).
- `orchestrator.go:898`: without revision ids the human-edit guard of a leaf never
  applies (`docs/navigation-DESIGN.md:180`).
- `orchestrator.go:898`: the guard asks for the record of the spec, not of the page.
  A spec renamed onto a page that another spec rendered has no record there, and
  when it is superseded its redirect goes over human edits
  (`docs/navigation-DESIGN.md:180`).
- `orchestrator.go:842` and `:905` upload a redirect without a base revision: a page
  taken over after `GetPage` (`:830`), or a leaf edited after `HumanEditsSinceBot`
  (`:899`), is overwritten (comment at `:823`, "don't clobber a page a human took
  over"; `docs/navigation-DESIGN.md:179`, "never redirect over a human-edited leaf").
- `orchestrator.go:852`: a human's own redirect, or a text of theirs that mentions
  mykb-curator, counts as the curator's and is replaced (the same comment).
- `orchestrator.go:388` uploads a cluster page as a merge with bodies of earlier
  runs, which no review saw; when the sink at `:406` fails, or the process dies
  before it, that is what the wiki shows, and with `--out` always.
- `orchestrator.go:838`: an orphan edited between its markers is retired
  (`docs/navigation-DESIGN.md:352`).
- `orchestrator.go:757`: a failed doc-spec pull renders a retired leaf again
  (comment at `:217`).
- `cmd/mykb-curator/main.go:668`: with the fallback path two processes both hold a
  lock file; bbolt still separates them (comment at `:666`). With two `$HOME`s
  nothing does (`main.go:663`; `internal/lock/lock.go:1`).
- `frontends/editorial/editorial.go:74` gives all blocks the hash of the spec, and
  ids are positions: when the model lays the sections out differently, a kept
  body stands under another heading (`passes/zonemarkers/zonemarkers.go:13`,
  `ir/ir.go:69`).
- `wikiparse.go:135`: one erased END hides all later blocks of the page; their
  polish is lost (`reconciler/merge.go`, "human polish survives").
- The projection frontend's area header has an empty `InputHash`; `provenance= -->`
  is not recognised as a BEGIN, so that block is always generated anew.
- `sources/git/git.go:79` reads the commit and `:96` the content by ref: the label
  on a digest may be older than its content.
- `orchestrator.go:516`: a hub with explicit links takes link text from `area:`, but
  is skipped unless `include.areas` names that area (`internal/nav/nav.go:31`, "stays fresh
  from the brain (same mechanism as an explicit hub link's `area:`)").
- `buildNavMap` places the pages of misrouted specs too: an auto hub lists pages
  that this wiki never gets.
- `orchestrator.go:842` redirects an orphan to its parent title, whether or not a
  page stands there.
- `pipelines/maintenance/prbackend/prbackend.go` forks from the local base branch,
  which Pull no longer moves once HEAD is on a proposal branch: after a merged
  proposal, later ones start from an old commit.
- `protected_blocks` (`docs/DESIGN.md:466`) is parsed and not used; one invalid
  spec fails the whole Pull (`docs/DESIGN.md:909`).
- `rendering/refine/refine.go:7`: passes are applied again to sections that were
  not revised, because the Sections slice is shared. Zone markers stand that
  (`MarkedOnce`); a terminology rule whose replacement contains the term does not.
- A heading rewritten by a style rule makes the Judge report the section as
  missing, and its revision is thrown away (`refine.go:171`).
- `refine.go:122`: a round that made things worse is published; the better draft
  is gone.
- `rendering/cluster/cachekey.go:87`, "changes iff the synthesis inputs change":
  git: contents and entry tags are inputs and are not in the key.
- `agent-service/src/gate.mjs:35`: overlapping turns reset each other's counter,
  so a turn may preview twice (`gate.mjs:12`, "at most one preview per user turn").
- `gate.mjs:60`: after a restart `p1` is another proposal; a page opened before can
  approve what it never showed (`gate.mjs:7`, "stable id").
- `internal/adapters/curatorapi/curatorapi.go:395`: two puts lose an update or mix
  their texts; a crash leaves an empty file.

## 7. Plan

Done: the modules above, in the order of section 2.

1. Compose: `ClusterPublish` as the `RunDocSpecs` step of `CuratorRun`, and an
   abstract "each page holds what its owner makes of spec and kb" that both
   implement.
2. Extend: `DiffSince` as a function of two commits, and maintenance proposals in
   `KBClone`.
3. Prove: the refinement of item 1; that `PageContent` is what `MarkerText` does to
   pages whose markers are in order (`MergeTidy` is the first step).
