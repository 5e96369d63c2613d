------------------------- MODULE CuratorFresh_proof -------------------------
(***************************************************************************)
(* What the pages of CuratorRun hold when a run reports.  The page of a    *)
(* spec that did not fail is of the pulled kb, also when the run skipped   *)
(* it; and an auto hub, which is never skipped, lists exactly the pages    *)
(* placed below it.                                                        *)
(***************************************************************************)
EXTENDS CuratorRun_proof

(***************************************************************************)
(* The world in which a skipped spec is a fresh one: every spec has a page *)
(* of its own and keeps it, and the cluster retires none.  (A spec that    *)
(* comes back, moves or stops being superseded still has its record, which *)
(* is about a page that has become a redirect or belongs to another.)      *)
(***************************************************************************)
OwnPages ==
    /\ World \cap {"restore", "rename", "supersede"} = {}
    /\ \A s, t \in Specs : FirstPage[s] = FirstPage[t] => s = t
    /\ \A s \in Specs : FirstPage[s] # DocPage

\* The latest kb a page or a record can be of.
Latest == IF pc = "idle" THEN kb ELSE snap

\* Spec s is still there, for the run under way if not for the next one.
Kept(s) == IF pc = "idle" THEN store[s].on ELSE specList[s].on

\* Specs stay where they are, those of the store are in the run, and the kb grows.
HomeInv ==
    /\ \A s \in Specs : store[s].page = FirstPage[s] /\ specList[s].page = FirstPage[s]
    /\ doc.supersedes = {} /\ docFile.supersedes = {}
    /\ pc # "idle" => \A s \in Specs : store[s].on => specList[s].on
    /\ \A a \in Areas : snap[a] <= kb[a]

(***************************************************************************)
(* Page w is a render of spec s, of the kb at commit or later, and not     *)
(* beyond last: a write whose record was lost leaves the page ahead of the *)
(* record, never behind it.                                                *)
(***************************************************************************)
Shows(w, s, commit, last) ==
    /\ w.kind = "render" /\ w.by = s /\ w.nav = <<>> /\ w.to = NoParent
    /\ \A a \in AreasOf[s] : commit[a] <= w.kb[a] /\ w.kb[a] <= last[a]
    /\ \A a \in Areas \ AreasOf[s] : w.kb[a] = 0

\* A spec with a record has its page on the wiki, unless a human took it over.
Recorded(s) ==
    Kept(s) /\ rs[s].has =>
        /\ \A a \in Areas : rs[s].commit[a] <= Latest[a]
        /\ wiki[FirstPage[s]].kind \in Takeover \/ Shows(wiki[FirstPage[s]], s, rs[s].commit, Latest)

RecordInv == \A s \in Specs \ AutoHubs : Recorded(s)

\* The specs that had their turn are rendered.
TurnInv ==
    pc # "idle" =>
        \A s \in Listed \ (todo \cup failed) :
            s \notin Misrouted /\ wiki[FirstPage[s]].kind \notin Takeover => ContentOf(FirstPage[s]) = RenderOf(s)

FreshInv == HomeInv /\ RecordInv /\ TurnInv
-----------------------------------------------------------------------------
(* Renders. *)

\* What a spec renders to depends on the run's inputs only.
LEMMA KeepsRender ==
    ASSUME UNCHANGED <<snap, specList, docFile>>, NEW s
    PROVE  RenderOf(s)' = RenderOf(s)
BY DEF RenderOf, AreasIn, NavPages, Listed, Superseded

\* A spec that is not an auto hub shows its own areas only.
LEMMA RenderOfSpec ==
    ASSUME Typed, NEW s \in Specs \ AutoHubs
    PROVE  /\ RenderOf(s) = [kind |-> "render", by |-> s, kb |-> RenderOf(s).kb, nav |-> <<>>, to |-> NoParent]
           /\ RenderOf(s).kb \in Snapshot
           /\ \A a \in Areas : RenderOf(s).kb[a] = IF a \in AreasOf[s] THEN snap[a] ELSE 0
<1>1. AreasIn(s) = AreasOf[s]
  BY NavAssumption DEF AreasIn
<1>2. RenderOf(s) = [kind |-> "render", by |-> s,
                     kb |-> [a \in Areas |-> IF a \in AreasOf[s] THEN snap[a] ELSE 0],
                     nav |-> <<>>, to |-> NoParent]
  BY <1>1 DEF RenderOf
<1> QED
  BY <1>2 DEF Typed, Snapshot

\* A page that shows a render of s, of a kb nobody has changed since, is its render.
LEMMA ShownIsRender ==
    ASSUME Typed, NEW s \in Specs \ AutoHubs, NEW p \in Pages, NEW commit \in Snapshot,
           Shows(wiki[p], s, commit, snap), \A a \in AreasOf[s] : commit[a] = snap[a]
    PROVE  ContentOf(p) = RenderOf(s)
<1> DEFINE w == wiki[p]
<1>1. IsPage(w) /\ AreasOf[s] \subseteq Areas
  BY RunAssumption DEF Typed
<1>2. \A a \in Areas : w.kb[a] = IF a \in AreasOf[s] THEN snap[a] ELSE 0
  BY <1>1 DEF Shows, IsPage, Typed, Snapshot
<1>3. w.kb = RenderOf(s).kb
  <2>1. w.kb \in Snapshot /\ RenderOf(s).kb \in Snapshot
    BY <1>1, RenderOfSpec DEF IsPage
  <2>2. \A a \in Areas : w.kb[a] = RenderOf(s).kb[a]
    BY <1>2, RenderOfSpec
  <2> HIDE DEF w
  <2> QED
    BY <2>1, <2>2 DEF Snapshot
<1>4. ContentOf(p) = [kind |-> "render", by |-> s, kb |-> w.kb, nav |-> <<>>, to |-> NoParent]
  BY DEF ContentOf, Shows
<1> QED
  BY <1>3, <1>4, RenderOfSpec

\* A page that is the render of s shows it, of any commit of the record that is not later.
LEMMA RenderIsShown ==
    ASSUME Typed, NEW s \in Specs \ AutoHubs, NEW w, NEW commit \in Snapshot,
           w.kind = "render", w.by = s, w.kb = RenderOf(s).kb, w.nav = <<>>, w.to = NoParent,
           \A a \in Areas : commit[a] <= snap[a]
    PROVE  Shows(w, s, commit, snap)
<1>1. AreasOf[s] \subseteq Areas
  BY RunAssumption
<1>2. \A a \in Areas : w.kb[a] = IF a \in AreasOf[s] THEN snap[a] ELSE 0
  BY RenderOfSpec
<1> QED
  BY <1>1, <1>2 DEF Shows, Typed, Snapshot
-----------------------------------------------------------------------------
(* Steps. *)

\* Nobody moves, restores or retires a spec.
LEMMA NextHomeInv == ASSUME OwnPages, Typed, HomeInv, Next PROVE HomeInv'
<1> USE DEF env, run, upload
<1>0. \A a \in Areas : kb[a] \in Nat /\ snap[a] \in Nat
  BY DEF Typed, Snapshot
<1>1. ASSUME NEW a \in Areas, KBCommit(a) PROVE HomeInv'
  <2>1. \A b \in Areas : kb[b] <= kb'[b]
    BY <1>0, <1>1 DEF KBCommit, Typed, Snapshot
  <2>2. \A b \in Areas : snap[b] <= kb'[b]
    BY <1>0, <1>1, <2>1 DEF KBCommit, Typed, Snapshot, HomeInv
  <2> QED
    BY <1>1, <2>2 DEF KBCommit, Change, HomeInv
<1>2. ASSUME NEW s \in Specs, RemoveSpec(s) PROVE HomeInv'
  <2>1. \A t \in Specs : store'[t].page = store[t].page /\ (store'[t].on => store[t].on)
    BY <1>2 DEF RemoveSpec, Typed, SpecFile
  <2> QED
    BY <1>2, <2>1 DEF RemoveSpec, Change, HomeInv
<1>3. CASE RemoveDoc
  BY <1>3 DEF RemoveDoc, Change, HomeInv, NoDoc
<1>4. ASSUME NEW p \in Pages, HumanEdit(p) \/ \E kind \in Takeover : HumanTakeover(p, kind) PROVE HomeInv'
  BY <1>4 DEF HumanEdit, HumanTakeover, Change, HomeInv
<1>5. WorldStep => \/ \E a \in Areas : KBCommit(a)
                   \/ \E s \in Specs : RemoveSpec(s)
                   \/ RemoveDoc
                   \/ \E p \in Pages : HumanEdit(p) \/ \E kind \in Takeover : HumanTakeover(p, kind)
  BY DEF OwnPages, WorldStep, RestoreSpec, RenamePage, ToggleSupersede, Change
<1>6. CASE Pull
  BY <1>0, <1>6 DEF Pull, HomeInv, NoDoc
<1>7. ASSUME NEW s \in Specs, SpecTurn(s) PROVE HomeInv'
  BY <1>7, TurnOutcome DEF Outcome, Ends, At, Done, InTurn, HomeInv
<1>8. CASE \/ SpecsDone \/ RunDocSpecs \/ LoadManifest \/ SaveManifest \/ Report \/ PullError \/ Crash
           \/ \E p \in Pages : GetOrphan(p) \/ RedirectOrphan(p)
  <2>1. UNCHANGED <<kb, store, doc, snap, specList, docFile>> /\ (pc' # "idle" => pc # "idle")
    BY <1>8 DEF SpecsDone, RunDocSpecs, LoadManifest, SaveManifest, Report,
                PullError, Crash, GetOrphan, RedirectOrphan
  <2> QED
    BY <2>1 DEF HomeInv
<1>9. ASSUME NEW s \in Specs, Checks(s) PROVE HomeInv'
  BY <1>9, CheckStep DEF HomeInv
<1> QED
  BY <1>1, <1>2, <1>3, <1>4, <1>5, <1>6, <1>7, <1>8, <1>9 DEF Next, RunStep, SpecStep, SpecTurn, Checks

\* Specs do not come back, and what may be shown only gets later.
LEMMA KeptAndLatest ==
    ASSUME OwnPages, Typed, HomeInv, Next
    PROVE  /\ \A s \in Specs : Kept(s)' => Kept(s)
           /\ \A a \in Areas : Latest[a] \in Nat /\ Latest'[a] \in Nat /\ Latest[a] <= Latest'[a]
<1> USE DEF env, run, upload, Kept, Latest
<1>0. \A a \in Areas : kb[a] \in Nat /\ snap[a] \in Nat /\ snap[a] <= kb[a]
  BY DEF Typed, Snapshot, HomeInv
<1>1. CASE WorldStep
  <2>1. pc' = pc /\ specList' = specList /\ snap' = snap
    BY <1>1, WorldView
  <2>2. \A s \in Specs : store'[s].on => store[s].on
    <3>1. ASSUME NEW s \in Specs, RemoveSpec(s) PROVE \A t \in Specs : store'[t].on => store[t].on
      BY <3>1 DEF RemoveSpec, Typed, SpecFile
    <3>2. store' = store \/ \E s \in Specs : RemoveSpec(s)
      BY <1>1 DEF OwnPages, WorldStep, KBCommit, RestoreSpec, RenamePage, ToggleSupersede, RemoveDoc,
                  HumanEdit, HumanTakeover, Change
    <3> QED
      BY <3>1, <3>2
  <2>3. \A a \in Areas : kb'[a] \in Nat /\ kb[a] <= kb'[a]
    <3>1. ASSUME NEW a \in Areas, KBCommit(a) PROVE \A b \in Areas : kb'[b] \in Nat /\ kb[b] <= kb'[b]
      BY <1>0, <3>1 DEF KBCommit, Typed, Snapshot
    <3>2. kb' = kb \/ \E a \in Areas : KBCommit(a)
      BY <1>1 DEF WorldStep, RemoveSpec, RestoreSpec, RenamePage, ToggleSupersede, RemoveDoc,
                  HumanEdit, HumanTakeover
    <3> QED
      BY <1>0, <3>1, <3>2
  <2> QED
    BY <1>0, <2>1, <2>2, <2>3
<1>2. CASE Pull
  BY <1>0, <1>2 DEF Pull
<1>3. ASSUME NEW s \in Specs, SpecTurn(s) \/ Checks(s)
      PROVE  UNCHANGED <<kb, store, snap, specList>> /\ pc # "idle" /\ pc' # "idle"
  BY <1>3, TurnOutcome, CheckStep DEF Outcome, Ends, At, Done, InTurn
<1>4. CASE \/ SpecsDone \/ RunDocSpecs \/ LoadManifest \/ SaveManifest \/ Report \/ PullError \/ Crash
           \/ \E p \in Pages : GetOrphan(p) \/ RedirectOrphan(p)
  <2>1. UNCHANGED <<kb, store, snap, specList>> /\ (pc' # "idle" => pc # "idle") /\ (pc' = pc \/ pc # "idle")
    BY <1>4 DEF SpecsDone, RunDocSpecs, LoadManifest, SaveManifest, Report,
                PullError, Crash, GetOrphan, RedirectOrphan
  <2> QED
    BY <1>0, <2>1 DEF HomeInv
<1>5. CASE UNCHANGED <<kb, store, snap, specList>> /\ pc # "idle" /\ pc' # "idle"
  BY <1>0, <1>5
<1> QED
  BY <1>1, <1>2, <1>3, <1>4, <1>5 DEF Next, RunStep, SpecStep, SpecTurn, Checks

\* The page of spec s, which is kept, changes in its turn or through a human.
LEMMA WhoChangesHome ==
    ASSUME OwnPages, Typed, ViewInv, WindowInv, HomeInv, Next, NEW s \in Specs, Kept(s),
           wiki'[FirstPage[s]] # wiki[FirstPage[s]]
    PROVE  (SpecTurn(s) /\ Outcome(s) /\ Renders(s)) \/ ByHuman(FirstPage[s])
<1> DEFINE p == FirstPage[s]
<1>0. p \in Pages
  BY RunAssumption
<1>1. ~ByCluster(p)
  BY DEF ByCluster, OwnPages
<1>2. ~ByPruning(p)
  BY DEF ByPruning, RedirectOrphan, WindowInv, Kept, ViewInv, OwnedPages, Listed, HomeInv
<1>3. ASSUME NEW t \in Specs, ByRetire(p, t) PROVE FALSE
  <2>1. ~Superseded(PageOf(t)) /\ t = s
    BY <1>3 DEF ByRetire, HomeInv, Superseded, PageOf, OwnPages
  <2>2. Leaves(t) \/ Renders(t)
    BY <1>3, <2>1 DEF ByRetire, Outcome, Redirects
  <2>3. CASE Renders(t)
    <3>1. PICK newer : wiki'[PageOf(t)] = RenderPage(t, newer)
      BY <1>3, <2>3, TurnPages DEF ByRetire
    <3> QED
      BY <1>3, <3>1 DEF ByRetire, RenderPage
  <2> QED
    BY <2>1, <2>2, <2>3 DEF Leaves
<1>4. ASSUME NEW t \in Specs, ByRender(p, t) PROVE SpecTurn(s) /\ Outcome(s) /\ Renders(s)
  <2>1. t = s /\ SpecTurn(s) /\ Outcome(s) /\ p = PageOf(s)
    BY <1>4 DEF ByRender, HomeInv, PageOf, OwnPages
  <2>2. ~Redirects(s)
    BY <1>4, <2>1, TurnPages DEF ByRender
  <2> QED
    BY <2>1, <2>2 DEF Outcome, Leaves
<1> QED
  BY <1>0, <1>1, <1>2, <1>3, <1>4, WhoChanges

\* Every step leaves a recorded spec with its page.
LEMMA NextRecordInv ==
    ASSUME OwnPages, Typed, ViewInv, WindowInv, HomeInv, RecordInv, Next PROVE RecordInv'
<1> SUFFICES ASSUME NEW s \in Specs \ AutoHubs, Kept(s)', rs'[s].has
             PROVE  /\ \A a \in Areas : rs'[s].commit[a] <= Latest'[a]
                    /\ \/ wiki'[FirstPage[s]].kind \in Takeover
                       \/ Shows(wiki'[FirstPage[s]], s, rs'[s].commit, Latest')
  BY DEF RecordInv, Recorded
<1> DEFINE p == FirstPage[s]
<1>0. /\ Kept(s) /\ p \in Pages
      /\ \A a \in Areas : Latest[a] \in Nat /\ Latest'[a] \in Nat /\ Latest[a] <= Latest'[a]
      /\ AreasOf[s] \subseteq Areas
  BY KeptAndLatest, RunAssumption
<1>1. IsPage(wiki[p]) /\ rs[s].commit \in Snapshot
  BY <1>0 DEF Typed
<1>2. CASE SpecTurn(s)
  <2>1. Outcome(s) /\ PageOf(s) = p /\ UNCHANGED snap /\ pc # "idle" /\ pc' # "idle" /\ ~Superseded(PageOf(s))
    BY <1>2, TurnOutcome DEF Outcome, Ends, At, Done, InTurn, HomeInv, PageOf, Superseded
  <2>2. Latest = snap /\ Latest' = snap
    BY <2>1 DEF Latest
  <2>3. rs'[s].commit \in Snapshot /\ \A a \in Areas : rs'[s].commit[a] <= snap[a]
    <3>1. CASE rs'[s] = rs[s]
      BY <1>0, <1>1, <2>2, <3>1 DEF RecordInv, Recorded
    <3>2. CASE rs'[s] # rs[s]
      <4>1. rs'[s].commit = snap
        BY <2>1, <3>2, TurnPages
      <4> QED
        BY <4>1 DEF Typed, Snapshot
    <3> QED
      BY <3>1, <3>2
  <2>4. ASSUME NEW w, w.kind = "render", w.by = s, w.kb = RenderOf(s).kb, w.nav = <<>>, w.to = NoParent
        PROVE  Shows(w, s, rs'[s].commit, snap)
    BY <2>3, <2>4, RenderIsShown
  <2>5. CASE Renders(s)
    <3>1. PICK newer : wiki'[p] = RenderPage(s, newer)
      BY <2>1, <2>5, TurnPages
    <3>2. /\ wiki'[p].kind = "render" /\ wiki'[p].by = s /\ wiki'[p].kb = RenderOf(s).kb
          /\ wiki'[p].nav = RenderOf(s).nav /\ wiki'[p].to = NoParent
      BY <3>1 DEF RenderPage
    <3>3. RenderOf(s).nav = <<>>
      BY RenderOfSpec
    <3>4. Shows(wiki'[p], s, rs'[s].commit, snap)
      BY <2>4, <3>2, <3>3
    <3> QED
      BY <2>2, <2>3, <3>4
  <2>6. CASE Leaves(s) /\ rs'[s] = rs[s]
    BY <1>0, <2>2, <2>6 DEF Leaves, RecordInv, Recorded
  <2>7. CASE Leaves(s) /\ ContentOf(p) = RenderOf(s)
    <3>1. /\ wiki[p].kind = RenderOf(s).kind /\ wiki[p].by = RenderOf(s).by /\ wiki[p].kb = RenderOf(s).kb
          /\ wiki[p].nav = RenderOf(s).nav /\ wiki[p].to = RenderOf(s).to
      BY <2>7 DEF ContentOf
    <3>2. RenderOf(s).kind = "render" /\ RenderOf(s).by = s /\ RenderOf(s).nav = <<>> /\ RenderOf(s).to = NoParent
      BY RenderOfSpec
    <3>3. Shows(wiki[p], s, rs'[s].commit, snap)
      BY <2>4, <3>1, <3>2
    <3> QED
      BY <2>2, <2>3, <2>7, <3>3 DEF Leaves
  <2> QED
    BY <2>1, <2>5, <2>6, <2>7 DEF Outcome, Leaves, Redirects
<1>3. CASE ~SpecTurn(s)
  <2>1. rs'[s] = rs[s]
    BY <1>3, WhoRecords
  <2>2. /\ \A a \in Areas : rs[s].commit[a] <= Latest[a]
        /\ wiki[p].kind \in Takeover \/ Shows(wiki[p], s, rs[s].commit, Latest)
    BY <1>0, <2>1 DEF RecordInv, Recorded
  <2>3. \A a \in Areas : rs[s].commit[a] \in Nat /\ wiki[p].kb[a] \in Nat
    BY <1>1 DEF IsPage, Snapshot
  <2>4. \A a \in Areas : rs[s].commit[a] <= Latest'[a]
    BY <1>0, <2>2, <2>3
  <2>5. \/ wiki'[p].kind \in Takeover
        \/ /\ wiki'[p].kind = wiki[p].kind /\ wiki'[p].by = wiki[p].by /\ wiki'[p].kb = wiki[p].kb
           /\ wiki'[p].nav = wiki[p].nav /\ wiki'[p].to = wiki[p].to
    <3>1. CASE wiki'[p] = wiki[p]
      BY <3>1
    <3>2. CASE wiki'[p] # wiki[p]
      <4>1. ByHuman(p)
        BY <1>0, <1>3, <3>2, WhoChangesHome
      <4> QED
        BY <4>1 DEF ByHuman, EditedPage, Takeover
    <3> QED
      BY <3>1, <3>2
  <2>6. ASSUME Shows(wiki[p], s, rs[s].commit, Latest), wiki'[p].kind \notin Takeover
        PROVE  Shows(wiki'[p], s, rs[s].commit, Latest')
    BY <1>0, <2>3, <2>5, <2>6 DEF Shows
  <2> QED
    BY <2>1, <2>2, <2>4, <2>5, <2>6
<1> QED
  BY <1>2, <1>3

\* Within a run its inputs stay what they are, and specs leave the list in their turn.
LEMMA WithinRun ==
    ASSUME Typed, Next, ~Pull, pc' # "idle"
    PROVE  /\ UNCHANGED <<snap, specList, docFile>> /\ pc # "idle" /\ failed \subseteq failed'
           /\ todo' = todo \/ \E t \in todo : SpecTurn(t) /\ t \in Specs /\ todo' = todo \ {t}
<1> USE DEF env, run, upload
<1> DEFINE Goal ==
      /\ UNCHANGED <<snap, specList, docFile>> /\ pc # "idle" /\ failed \subseteq failed'
      /\ todo' = todo \/ \E t \in todo : SpecTurn(t) /\ t \in Specs /\ todo' = todo \ {t}
<1>1. ASSUME NEW t \in Specs, SpecTurn(t) PROVE Goal
  BY <1>1, TurnOutcome DEF Outcome, Ends, At, Done, InTurn
<1>2. WorldStep => Goal
  BY WorldView
<1>3. CASE \/ SpecsDone \/ RunDocSpecs \/ LoadManifest \/ SaveManifest \/ Report \/ PullError \/ Crash
           \/ \E q \in Pages : GetOrphan(q) \/ RedirectOrphan(q)
  BY <1>3 DEF SpecsDone, RunDocSpecs, LoadManifest, SaveManifest, Report,
              PullError, Crash, GetOrphan, RedirectOrphan
<1>4. ASSUME NEW t \in Specs, Checks(t) PROVE Goal
  BY <1>4, CheckStep
<1> QED
  BY <1>1, <1>2, <1>3, <1>4 DEF Next, RunStep, SpecStep, SpecTurn, Checks

\* Every turn that does not fail leaves the render, and nothing undoes it during the run.
LEMMA NextTurnInv ==
    ASSUME OwnPages, Typed, ViewInv, WindowInv, HomeInv, RecordInv, TurnInv, Next PROVE TurnInv'
<1> SUFFICES ASSUME pc' # "idle", NEW s \in Listed', s \notin todo', s \notin failed', s \notin Misrouted,
                    wiki'[FirstPage[s]].kind \notin Takeover
             PROVE  ContentOf(FirstPage[s])' = RenderOf(s)'
  BY DEF TurnInv
<1> USE DEF env, run, upload
<1> DEFINE p == FirstPage[s]
<1>0. s \in Specs /\ p \in Pages
  BY RunAssumption DEF Listed
<1>1. ~Pull
  BY DEF Pull, Listed
<1>2. /\ UNCHANGED <<snap, specList, docFile>> /\ pc # "idle" /\ failed \subseteq failed'
      /\ todo' = todo \/ \E t \in todo : SpecTurn(t) /\ t \in Specs /\ todo' = todo \ {t}
  BY <1>1, WithinRun
<1>3. RenderOf(s)' = RenderOf(s) /\ Listed' = Listed /\ s \in Listed /\ Kept(s)
  BY <1>2, KeepsRender, KeepsView DEF Listed, Kept
<1>4. CASE SpecTurn(s)
  <2>1. Outcome(s) /\ PageOf(s) = p /\ ~Superseded(PageOf(s))
    BY <1>0, <1>4, TurnOutcome DEF HomeInv, PageOf, Superseded
  <2>2. CASE Renders(s)
    <3>1. PICK newer : wiki'[p] = RenderPage(s, newer)
      BY <1>0, <2>1, <2>2, TurnPages
    <3>2. ContentOf(p)' = [kind |-> "render", by |-> s, kb |-> RenderOf(s).kb, nav |-> RenderOf(s).nav,
                           to |-> NoParent]
      BY <3>1 DEF ContentOf, RenderPage
    <3>3. RenderOf(s) = [kind |-> "render", by |-> s, kb |-> RenderOf(s).kb, nav |-> RenderOf(s).nav,
                         to |-> NoParent]
      BY DEF RenderOf
    <3> QED
      BY <1>3, <3>2, <3>3
  <2>3. CASE wiki' = wiki /\ ContentOf(p) = RenderOf(s)
    BY <1>3, <2>3 DEF ContentOf
  <2>4. CASE wiki' = wiki /\ ~Exempt(s) /\ DiffDrivenSkip(s)
    <3>1. s \in Specs \ AutoHubs /\ rs[s].has /\ rs[s].commit \in Snapshot
      BY <1>0, <2>4 DEF Exempt, DiffDrivenSkip, Typed
    <3>2. Shows(wiki[p], s, rs[s].commit, snap)
      BY <1>2, <1>3, <2>4, <3>1 DEF RecordInv, Recorded, Latest
    <3>3. \A a \in AreasOf[s] : rs[s].commit[a] = snap[a]
      BY <1>0, <2>4, RunAssumption DEF DiffDrivenSkip, DiffSince
    <3>4. ContentOf(p) = RenderOf(s)
      BY <1>0, <3>1, <3>2, <3>3, ShownIsRender
    <3> QED
      BY <2>3, <2>4, <3>4
  <2> QED
    BY <2>1, <2>2, <2>3, <2>4 DEF Outcome, Leaves, Redirects
<1>5. CASE ~SpecTurn(s)
  <2>1. s \notin todo /\ s \notin failed
    BY <1>2, <1>5
  <2>2. CASE wiki'[p] = wiki[p]
    BY <1>2, <1>3, <2>1, <2>2 DEF TurnInv, ContentOf
  <2>3. CASE wiki'[p] # wiki[p]
    <3>1. ByHuman(p)
      BY <1>0, <1>3, <1>5, <2>3, WhoChangesHome
    <3>2. wiki'[p] = EditedPage(wiki[p], wiki[p].kind) /\ wiki[p].kind \notin Takeover
      BY <3>1 DEF ByHuman, EditedPage, Takeover
    <3>3. ContentOf(p)' = ContentOf(p)
      BY <3>2 DEF ContentOf, EditedPage
    <3> QED
      BY <1>2, <1>3, <2>1, <3>2, <3>3 DEF TurnInv
  <2> QED
    BY <2>2, <2>3
<1> QED
  BY <1>4, <1>5

(***************************************************************************)
(* When a run reports, the page of every live spec that did not fail is    *)
(* what the pulled kb makes of it, skipped or not, whatever failed in      *)
(* earlier runs and whichever records were lost: where every spec keeps a  *)
(* page of its own.                                                        *)
(***************************************************************************)
THEOREM CompletedRunsAreFresh ==
    ASSUME OwnPages
    PROVE  Spec => []CompletedRunIsFresh
<1>1. Init => FreshInv
  <2> SUFFICES ASSUME Init PROVE FreshInv
    OBVIOUS
  <2>1. HomeInv
    BY DEF Init, HomeInv, NoDoc, Zero
  <2>2. \A s \in Specs : ~rs[s].has
    BY DEF Init, NoState
  <2>3. pc = "idle"
    BY DEF Init
  <2> QED
    BY <2>1, <2>2, <2>3 DEF FreshInv, RecordInv, Recorded, TurnInv
<1>2. IInv /\ FreshInv /\ [Next]_vars => FreshInv'
  <2> SUFFICES ASSUME IInv, FreshInv, [Next]_vars PROVE FreshInv'
    OBVIOUS
  <2>1. CASE Next
    BY <2>1, NextHomeInv, NextRecordInv, NextTurnInv DEF IInv, FreshInv
  <2>2. CASE UNCHANGED vars
    <3>1. HomeInv'
      BY <2>2 DEF vars, FreshInv, HomeInv
    <3>2. RecordInv'
      BY <2>2 DEF vars, FreshInv, RecordInv, Recorded, Kept, Latest
    <3>3. \A s : RenderOf(s)' = RenderOf(s)
      BY <2>2, KeepsRender DEF vars
    <3>4. TurnInv'
      BY <2>2, <3>3 DEF vars, FreshInv, TurnInv, Listed, ContentOf
    <3> QED
      BY <3>1, <3>2, <3>4 DEF FreshInv
  <2> QED
    BY <2>1, <2>2
<1>3. IInv /\ FreshInv => CompletedRunIsFresh
  <2> SUFFICES ASSUME IInv, FreshInv, pc = "report", NEW s \in Specs \ failed, Live(s),
                      wiki[PageOf(s)].kind \notin Takeover
               PROVE  ContentOf(PageOf(s)) = RenderOf(s)
    BY DEF CompletedRunIsFresh
  <2>1. PageOf(s) = FirstPage[s] /\ s \in Listed /\ s \notin Misrouted
    BY DEF FreshInv, HomeInv, PageOf, Live
  <2>2. s \notin todo
    BY DEF IInv, ViewInv
  <2> QED
    BY <2>1, <2>2 DEF FreshInv, TurnInv
<1> QED
  BY <1>1, <1>2, <1>3, SpecIInv, PTL DEF Spec
-----------------------------------------------------------------------------
(* Auto hubs, in any world. *)

\* The titles a hub declares differ: a section that is named twice would list its pages twice.
DistinctTitles == \A i, j \in DOMAIN HubTitles : HubTitles[i] = HubTitles[j] => i = j

\* No auto hub declares the page of the cluster, which is written after the specs.
HubsApart == \A h \in AutoHubs : FirstPage[h] # DocPage

ApartInv == \A h \in AutoHubs : store[h].page # DocPage /\ specList[h].page # DocPage

\* An auto hub that had its turn is rendered from the placement of this run's pages.
HubTurnInv ==
    pc # "idle" =>
        \A h \in AutoHubs \ (todo \cup failed) :
            (Live(h) /\ UnsharedPage(h) /\ wiki[PageOf(h)].kind \notin Takeover) =>
                ContentOf(PageOf(h)) = RenderOf(h)

\* A page's title does not become the cluster's.
LEMMA NextApartInv == ASSUME Typed, ApartInv, Next PROVE ApartInv'
<1> USE DEF env, run, upload
<1>0. AutoHubs \subseteq Specs
  BY RunAssumption
<1>1. ASSUME NEW s \in Specs, RemoveSpec(s) \/ RestoreSpec(s) PROVE ApartInv'
  <2>1. \A t \in Specs : store'[t].page = store[t].page
    <3>1. CASE RemoveSpec(s)
      BY <3>1 DEF RemoveSpec, Typed, SpecFile
    <3>2. CASE RestoreSpec(s)
      BY <3>2 DEF RestoreSpec, Typed, SpecFile
    <3> QED
      BY <1>1, <3>1, <3>2
  <2> QED
    BY <1>0, <1>1, <2>1 DEF RemoveSpec, RestoreSpec, Change, ApartInv
<1>2. ASSUME NEW s \in Specs, NEW p \in Pages, RenamePage(s, p) PROVE ApartInv'
  <2>1. \A t \in Specs : store'[t].page \in {store[t].page, p}
    BY <1>2 DEF RenamePage, Typed, SpecFile
  <2> QED
    BY <1>0, <1>2, <2>1 DEF RenamePage, Change, ApartInv
<1>3. CASE UNCHANGED <<store, specList>>
  BY <1>3 DEF ApartInv
<1>4. CASE Pull
  BY <1>4 DEF Pull, ApartInv
<1>5. ASSUME NEW s \in Specs, SpecTurn(s) PROVE UNCHANGED <<store, specList>>
  BY <1>5, TurnOutcome DEF Outcome, Ends, Done, env
<1>6. WorldStep => \/ UNCHANGED <<store, specList>>
                   \/ \E s \in Specs : RemoveSpec(s) \/ RestoreSpec(s)
                   \/ \E s \in Specs, p \in Pages : RenamePage(s, p)
  BY DEF WorldStep, KBCommit, ToggleSupersede, RemoveDoc, HumanEdit, HumanTakeover, Change
<1>7. CASE \/ SpecsDone \/ RunDocSpecs \/ LoadManifest \/ SaveManifest \/ Report \/ PullError \/ Crash
           \/ \E p \in Pages : GetOrphan(p) \/ RedirectOrphan(p)
  BY <1>3, <1>7 DEF SpecsDone, RunDocSpecs, LoadManifest, SaveManifest, Report,
                    PullError, Crash, GetOrphan, RedirectOrphan
<1>8. ASSUME NEW s \in Specs, Checks(s) PROVE UNCHANGED <<store, specList>>
  BY <1>8, CheckStep
<1> QED
  BY <1>1, <1>2, <1>3, <1>4, <1>5, <1>6, <1>7, <1>8 DEF Next, RunStep, SpecStep, SpecTurn, Checks

\* During a run the page of a live hub is written in the hub's turn or by a human.
LEMMA WhoChangesHub ==
    ASSUME Typed, ViewInv, WindowInv, ApartInv, Next, NEW h \in AutoHubs, Live(h), UnsharedPage(h),
           wiki'[PageOf(h)] # wiki[PageOf(h)]
    PROVE  (SpecTurn(h) /\ Outcome(h)) \/ ByHuman(PageOf(h))
<1> DEFINE p == PageOf(h)
<1>0. h \in Listed /\ p \in Pages
  BY DEF Live, Listed, PageOf, Typed, SpecFile
<1>1. ~ByCluster(p)
  BY DEF ByCluster, ApartInv, PageOf
<1>2. ~ByPruning(p)
  BY <1>0 DEF ByPruning, RedirectOrphan, WindowInv, ViewInv, OwnedPages, PageOf
<1>3. ASSUME NEW t \in Specs, SpecTurn(t), Outcome(t), p = PageOf(t) PROVE t = h
  <2>1. t \in Listed
    BY <1>3 DEF Outcome, Ends, At, Done, InTurn, ViewInv
  <2> QED
    BY <1>3, <2>1 DEF UnsharedPage
<1> QED
  BY <1>0, <1>1, <1>2, <1>3, WhoChanges DEF ByRender, ByRetire

\* A hub is rendered in every run, and nothing undoes that before the run reports.
LEMMA NextHubTurnInv == ASSUME Typed, ViewInv, WindowInv, ApartInv, HubTurnInv, Next PROVE HubTurnInv'
<1> SUFFICES ASSUME pc' # "idle", NEW h \in AutoHubs, h \notin todo', h \notin failed', Live(h)',
                    UnsharedPage(h)', (wiki[PageOf(h)].kind)' \notin Takeover
             PROVE  ContentOf(PageOf(h))' = RenderOf(h)'
  BY DEF HubTurnInv
<1> DEFINE p == PageOf(h)
<1>0. h \in Specs
  BY RunAssumption
<1>1. ~Pull
  BY DEF Pull, Live, Listed
<1>2. /\ UNCHANGED <<snap, specList, docFile>> /\ pc # "idle" /\ failed \subseteq failed'
      /\ todo' = todo \/ \E t \in todo : SpecTurn(t) /\ t \in Specs /\ todo' = todo \ {t}
  BY <1>1, WithinRun
<1>3. RenderOf(h)' = RenderOf(h) /\ PageOf(h)' = p /\ Live(h) /\ UnsharedPage(h)
  BY <1>2, KeepsRender DEF Live, UnsharedPage, Listed, Superseded, PageOf
<1>4. wiki'[p].kind \notin Takeover
  BY <1>3
<1>5. CASE SpecTurn(h)
  <2>1. Outcome(h) /\ ~Superseded(PageOf(h)) /\ h \notin Misrouted
    BY <1>0, <1>3, <1>5, TurnOutcome DEF Live
  <2>2. CASE Renders(h)
    <3>1. PICK newer : wiki'[p] = RenderPage(h, newer)
      BY <1>0, <2>1, <2>2, TurnPages
    <3>2. ContentOf(p)' = [kind |-> "render", by |-> h, kb |-> RenderOf(h).kb, nav |-> RenderOf(h).nav,
                           to |-> NoParent]
      BY <1>3, <3>1 DEF ContentOf, RenderPage
    <3>3. RenderOf(h) = [kind |-> "render", by |-> h, kb |-> RenderOf(h).kb, nav |-> RenderOf(h).nav,
                         to |-> NoParent]
      BY DEF RenderOf
    <3> QED
      BY <1>3, <3>2, <3>3
  <2>3. CASE wiki' = wiki /\ ContentOf(p) = RenderOf(h)
    BY <1>3, <2>3 DEF ContentOf
  <2> QED
    BY <2>1, <2>2, <2>3 DEF Outcome, Leaves, Redirects, Exempt
<1>6. CASE ~SpecTurn(h)
  <2>1. h \notin todo /\ h \notin failed
    BY <1>2, <1>6
  <2>2. CASE wiki'[p] = wiki[p]
    BY <1>2, <1>3, <1>4, <2>1, <2>2 DEF HubTurnInv, ContentOf
  <2>3. CASE wiki'[p] # wiki[p]
    <3>1. ByHuman(p)
      BY <1>3, <1>6, <2>3, WhoChangesHub
    <3>2. wiki'[p] = EditedPage(wiki[p], wiki[p].kind) /\ wiki[p].kind \notin Takeover
      BY <1>4, <3>1 DEF ByHuman, EditedPage, Takeover
    <3>3. ContentOf(p)' = ContentOf(p)
      BY <1>3, <3>2 DEF ContentOf, EditedPage
    <3> QED
      BY <1>2, <1>3, <2>1, <3>2, <3>3 DEF HubTurnInv
  <2> QED
    BY <2>2, <2>3
<1> QED
  BY <1>5, <1>6

\* The members of a page's hub are the entries of the pages placed below it.
LEMMA PlacedEntries ==
    ASSUME Typed, NEW p
    PROVE  /\ \A s \in Placed(p) : Entry(s) \in Members(NavPages, p) /\ s \in Specs \cup {0}
           /\ \A e \in Members(NavPages, p) : \E s \in Placed(p) : e = Entry(s)
<1>0. 0 \notin Specs /\ Listed \subseteq Specs /\ DocPage \in Pages
  BY NavAssumption, RunAssumption DEF Listed
<1>1. \A s \in Listed : specList[s].page \in Pages /\ Entry(s) = <<s, specList[s].page>>
  BY <1>0 DEF Typed, SpecFile, Entry, PageOf
<1>2. Entry(0) = <<0, DocPage>>
  BY DEF Entry
<1>3. ASSUME NEW e
      PROVE  e \in NavPages <=> \/ \E s \in Listed : ~Superseded(specList[s].page) /\ e = Entry(s)
                                \/ docFile.on /\ e = Entry(0)
  BY <1>1, <1>2 DEF NavPages
<1>4. ASSUME NEW s \in Specs \cup {0}, NEW q \in Pages, Entry(s) = <<s, q>>
      PROVE  /\ Entry(s) \in Entries /\ Entry(s)[1] = s /\ Entry(s)[2] = q
             /\ Member[Entry(s)].parent = IF Nav[s].parent = NoParent THEN Parent[q] ELSE Nav[s].parent
  <2>1. Entry(s) \in Entries
    BY <1>4 DEF Entries
  <2>2. Entry(s)[1] = s /\ Entry(s)[2] = q
    BY <1>4
  <2> QED
    BY <2>1, <2>2, MemberFields
<1>5. ASSUME NEW s \in Placed(p) PROVE Entry(s) \in Members(NavPages, p) /\ s \in Specs \cup {0}
  <2>1. CASE s \in Listed
    <3>1. s # 0 /\ s \in Specs
      BY <1>0, <2>1
    <3>2. ~Superseded(specList[s].page) /\ Entry(s) \in NavPages
      BY <1>1, <1>3, <2>1, <3>1 DEF Placed
    <3>3. Member[Entry(s)].parent = p
      BY <1>1, <1>4, <2>1, <3>1 DEF Placed
    <3> QED
      BY <3>1, <3>2, <3>3 DEF Members
  <2>2. CASE s = 0 /\ docFile.on
    <3>1. Entry(s) \in NavPages
      BY <1>3, <2>2
    <3>2. Member[Entry(s)].parent = p
      BY <1>0, <1>2, <1>4, <2>2 DEF Placed
    <3> QED
      BY <2>2, <3>1, <3>2 DEF Members
  <2> QED
    BY <2>1, <2>2 DEF Placed
<1>6. ASSUME NEW e \in Members(NavPages, p) PROVE \E s \in Placed(p) : e = Entry(s)
  <2>0. e \in NavPages /\ Member[e].parent = p
    BY DEF Members
  <2>1. ASSUME NEW s \in Listed, ~Superseded(specList[s].page), e = Entry(s) PROVE s \in Placed(p)
    <3>1. Entry(s)[2] = specList[s].page
      BY <1>1
    <3>2. p = IF Nav[s].parent = NoParent THEN Parent[specList[s].page] ELSE Nav[s].parent
      BY <1>0, <1>1, <1>4, <2>0, <2>1
    <3> QED
      BY <2>1, <3>1, <3>2 DEF Placed
  <2>2. ASSUME docFile.on, e = Entry(0) PROVE 0 \in Placed(p)
    <3>1. p = IF Nav[0].parent = NoParent THEN Parent[DocPage] ELSE Nav[0].parent
      BY <1>0, <1>2, <1>4, <2>0, <2>2
    <3>2. Entry(0)[2] = DocPage
      BY <1>2
    <3> QED
      BY <2>2, <3>1, <3>2 DEF Placed
  <2> QED
    BY <1>3, <2>0, <2>1, <2>2
<1> QED
  BY <1>5, <1>6

(***************************************************************************)
(* When a run reports, every auto hub that did not fail has exactly one    *)
(* link to each page placed below it and no other link, and shows the      *)
(* pulled summaries of their areas, whatever specs came, went or moved and *)
(* whatever failed before.                                                 *)
(***************************************************************************)
THEOREM HubsListTheirPages ==
    ASSUME DistinctTitles, HubsApart
    PROVE  Spec => []HubListsItsPages
<1>1. Init => ApartInv /\ HubTurnInv
  BY RunAssumption DEF Init, ApartInv, HubTurnInv, HubsApart
<1>2. IInv /\ ApartInv /\ HubTurnInv /\ [Next]_vars => (ApartInv /\ HubTurnInv)'
  <2> SUFFICES ASSUME IInv, ApartInv, HubTurnInv, [Next]_vars PROVE ApartInv' /\ HubTurnInv'
    OBVIOUS
  <2>1. CASE Next
    BY <2>1, NextApartInv, NextHubTurnInv DEF IInv
  <2>2. CASE UNCHANGED vars
    <3>1. ApartInv'
      BY <2>2 DEF vars, ApartInv
    <3>2. \A s : RenderOf(s)' = RenderOf(s)
      BY <2>2, KeepsRender DEF vars
    <3>3. HubTurnInv'
      BY <2>2, <3>2 DEF vars, HubTurnInv, Live, UnsharedPage, Listed, Superseded, PageOf, ContentOf
    <3> QED
      BY <3>1, <3>3
  <2> QED
    BY <2>1, <2>2
<1>3. IInv /\ HubTurnInv => HubListsItsPages
  <2> SUFFICES ASSUME IInv, HubTurnInv, pc = "report", NEW h \in AutoHubs \ failed, Live(h),
                      UnsharedPage(h), wiki[PageOf(h)].kind \notin Takeover
               PROVE  LET w == wiki[PageOf(h)] IN
                      /\ \A at \in Slots(w.nav) : \E s \in Placed(PageOf(h)) : Link(w.nav, at) = Entry(s)
                      /\ \A s \in Placed(PageOf(h)) :
                            /\ \E at \in Slots(w.nav) :
                                  \A other \in Slots(w.nav) : Link(w.nav, other) = Entry(s) <=> other = at
                            /\ Nav[s].area # NoArea => w.kb[Nav[s].area] = snap[Nav[s].area]
    BY DEF HubListsItsPages
  <2> DEFINE p == PageOf(h)
             w == wiki[p]
             members == Members(NavPages, p)
  <2>1. ContentOf(p) = RenderOf(h)
    BY DEF IInv, ViewInv, HubTurnInv
  <2>2. w.nav = RenderOf(h).nav /\ w.kb = RenderOf(h).kb
    BY <2>1 DEF ContentOf
  <2>3. /\ RenderOf(h).nav = ExpandAuto(HubTitles, members)
        /\ RenderOf(h).kb = [a \in Areas |-> IF a \in AreasIn(h) THEN snap[a] ELSE 0]
        /\ AreasIn(h) = AreasOf[h] \cup ShownAreas(NavPages, p)
    BY DEF RenderOf, AreasIn, PageOf
  <2>4. OnePerSpec(members)
    BY NavEntries DEF IInv
  <2>5. PICK n \in Nat : HubTitles \in [1..n -> Nat] /\ \A i, j \in 1..n : HubTitles[i] = HubTitles[j] => i = j
    <3>1. HubTitles \in Seq(Nat)
      BY RunAssumption
    <3>2. HubTitles \in [1..Len(HubTitles) -> Nat] /\ Len(HubTitles) \in Nat
      BY <3>1
    <3> QED
      BY <3>2 DEF DistinctTitles
  <2>6. /\ \A at \in Slots(w.nav) : Link(w.nav, at) \in members
        /\ \A e \in members : \E at \in Slots(w.nav) :
              \A other \in Slots(w.nav) : Link(w.nav, other) = e <=> other = at
    <3> DEFINE nav == ExpandAuto(HubTitles, members)
    <3>1. w.nav = nav
      BY <2>2, <2>3
    <3> HIDE DEF members, w
    <3>2. /\ \A at \in Slots(nav) : Link(nav, at) \in members
          /\ \A e \in members : \E at \in Slots(nav) :
                \A other \in Slots(nav) : Link(nav, other) = e <=> other = at
      BY <2>4, <2>5, ExpandedLinks
    <3> HIDE DEF nav
    <3> QED
      BY <3>1, <3>2
  <2>7. ASSUME NEW s \in Placed(p), Nav[s].area # NoArea PROVE w.kb[Nav[s].area] = snap[Nav[s].area]
    <3>1. Entry(s) \in members /\ Entry(s) \in Entries /\ Entry(s)[1] = s
      BY <2>4, PlacedEntries DEF IInv, OnePerSpec, Entry
    <3>2. Member[Entry(s)].area = Nav[s].area /\ Nav[s].area \in Areas
      BY <2>7, <3>1, MemberFields
    <3>3. Nav[s].area \in AreasIn(h)
      BY <2>3, <2>7, <3>1, <3>2 DEF ShownAreas
    <3> QED
      BY <2>2, <2>3, <3>2, <3>3
  <2> HIDE DEF w, members
  <2>8. \A at \in Slots(w.nav) : \E s \in Placed(p) : Link(w.nav, at) = Entry(s)
    BY <2>6, PlacedEntries DEF IInv, members
  <2>9. \A s \in Placed(p) : \E at \in Slots(w.nav) :
           \A other \in Slots(w.nav) : Link(w.nav, other) = Entry(s) <=> other = at
    BY <2>6, PlacedEntries DEF IInv, members
  <2> QED
    BY <2>7, <2>8, <2>9 DEF w
<1> QED
  BY <1>1, <1>2, <1>3, SpecIInv, PTL DEF Spec
=============================================================================
