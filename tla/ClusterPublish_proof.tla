----------------------- MODULE ClusterPublish_proof -----------------------
(***************************************************************************)
(* Proofs about ClusterPublish, for any number of pages and sections, any  *)
(* choice of judged, restyled and git: sections, any refine budget, and    *)
(* any number of faults, of doc-spec and kb versions and of commits.       *)
(***************************************************************************)
EXTENDS ClusterPublish, FiniteSetTheorems, WellFoundedInduction, TLAPS

\* The run has a page in hand.
AtPage == pc \in {"apply", "review", "revise", "publish", "sink"}

\* The run has synthesised the cluster.
Synthesised == ~hit /\ (AtPage \/ pc \in {"next", "store"})

\* A digest is not older than the run, and not labelled newer than it is.
Current(d) == d.content >= began /\ d.content >= d.commit

\* A page as it may stand on the wiki, the merge of an upload without its sink included.
Marked(r) == r \in PageResult /\ \A s \in Sections : r.marks[s] = 1

\* A page as a run may report it: judged as it is.
Sound(r) == Marked(r) /\ r.judged

(***************************************************************************)
(* What a run has in memory starts from nothing; a hit goes on to publish  *)
(* an entry that exists.                                                   *)
(***************************************************************************)
RunInv ==
    /\ pc \in {"idle", "lookup", "synth"} => page = 0 /\ results = Empty /\ failed = {}
    /\ pc \in {"idle", "lookup"} => drafts = Empty /\ commit = 0
    /\ hit => pc \in {"next", "publish", "sink", "report"} /\ Key \in DOMAIN cache
    /\ pc = "synth" /\ commit # 0 => Unread # {}
    /\ AtPage => page \in Pages

\* The resolver's answers: the ref stands no earlier than any of them.
ReadInv ==
    /\ began <= git /\ commit <= git
    /\ \A p \in DOMAIN drafts : Current(drafts[p])
    /\ Synthesised => DOMAIN drafts = Pages
    /\ AtPage /\ ~hit => Current(doc.git) /\ doc.of = snap

(***************************************************************************)
(* A section is rewritten at most once a round, and only those that wait   *)
(* for their turn are still a round behind.                                *)
(***************************************************************************)
AttemptInv ==
    /\ pc \in {"apply", "review"} =>
          \A s \in Sections : doc.sec[s].att <= IF revised THEN iters + 1 ELSE iters
    /\ pc = "revise" =>
          /\ \A s \in Sections : doc.sec[s].att <= iters + 1
          /\ \A s \in todo : doc.sec[s].att <= iters

(***************************************************************************)
(* While the loop goes round, each round spent is a failing section fewer: *)
(* the rounds and the sections still failing never exceed the first count. *)
(***************************************************************************)
Looping == pc = "revise" \/ (pc \in {"apply", "review"} /\ revised)

LoopInv ==
    /\ iters <= first
    /\ Looping => iters < MaxIters /\ prevFail > 0 /\ iters + prevFail <= first
    /\ pc \in {"apply", "review"} /\ ~revised => iters = 0

(***************************************************************************)
(* The document under review is marked once; it differs from the reviewed  *)
(* one only in a round that rewrote a section, and such a round goes back  *)
(* to the passes and the Judge.                                            *)
(***************************************************************************)
ReviewInv ==
    /\ pc \in {"apply", "revise"} => \A s \in Sections : doc.sec[s].marks \in {0, 1}
    /\ (pc \in {"review", "publish", "sink"} /\ ~hit) \/ (pc = "revise" /\ ~revised)
          => \A s \in Sections : doc.sec[s].marks = 1
    /\ (pc \in {"publish", "sink"} /\ ~hit) \/ (pc = "revise" /\ ~revised) => seen = doc

\* The pages behind the loop over the cluster have a result or have failed.
ProgressInv ==
    /\ \A p \in DOMAIN results : p \in Pages /\ IF AtPage THEN p < page ELSE p <= page
    /\ AtPage => \A p \in Pages : p < page => p \in DOMAIN results \cup failed
    /\ pc = "next" => \A p \in Pages : p <= page => p \in DOMAIN results \cup failed
    /\ pc \in {"store", "report"} => Pages \subseteq DOMAIN results \cup failed

(***************************************************************************)
(* What is recorded as published is made of the run's inputs, and is what  *)
(* the wiki shows unless the sink is a directory.                          *)
(***************************************************************************)
ResultsInv ==
    \A p \in DOMAIN results :
        /\ Sound(results[p])
        /\ results[p].of = snap
        /\ ~hit => Current(results[p].git)
        /\ ~OutDir => p \in DOMAIN wiki /\ wiki[p] = results[p]

WikiInv == \A p \in DOMAIN wiki : p \in Pages /\ Marked(wiki[p])

CacheInv ==
    \A k \in DOMAIN cache :
        /\ k \in Inputs
        /\ DOMAIN cache[k] = Pages
        /\ \A p \in Pages : Sound(cache[k][p]) /\ cache[k][p].of = k

IInv == /\ TypeOK /\ RunInv /\ ReadInv /\ AttemptInv /\ LoopInv /\ ReviewInv
        /\ ProgressInv /\ ResultsInv /\ WikiInv /\ CacheInv
-----------------------------------------------------------------------------
(* The operators. *)

\* Min is the least member of a set of numbers.
LEMMA MinIsLeast ==
    ASSUME NEW S \in SUBSET Nat, S # {}
    PROVE  Min(S) \in S /\ \A y \in S : Min(S) <= y
<1> DEFINE Less == OpToRel(<, Nat)
<1>1. IsWellFoundedOn(Less, Nat)
  BY NatLessThanWellFounded
<1> HIDE DEF Less
<1>2. PICK x \in S : \A y \in S : ~ (<<y, x>> \in Less)
  BY <1>1, WFMin
<1>3. \A y \in S : x <= y
  <2> SUFFICES ASSUME NEW y \in S, ~(x <= y) PROVE FALSE
    OBVIOUS
  <2>1. y < x
    OBVIOUS
  <2>2. <<y, x>> \in Less
    BY <2>1 DEF Less, OpToRel
  <2> QED
    BY <1>2, <2>2
<1> QED
  BY <1>3 DEF Min

\* What With does: one more entry, the others as they were.
LEMMA WithEntry ==
    ASSUME NEW f, NEW x, NEW v
    PROVE  /\ DOMAIN With(f, x, v) = DOMAIN f \cup {x}
           /\ With(f, x, v)[x] = v
           /\ \A y \in DOMAIN f : y # x => With(f, x, v)[y] = f[y]
BY DEF With

\* The key of the run's inputs is those inputs: nothing of them is left out.
LEMMA KeyIsSnap == ASSUME snap \in Inputs PROVE Key = snap
BY DEF Key, ClusterKey, HashDocPage, HashKBSubset, Inputs

\* The Judge's count of failing sections.
LEMMA ReportCount ==
    ASSUME NEW F \in Reports
    PROVE  F \subseteq Sections /\ Cardinality(F) \in 0..NSections /\ (F # {} => Cardinality(F) > 0)
<1>1. IsFiniteSet(Sections) /\ Cardinality(Sections) = NSections
  BY ClusterAssumption, FS_Interval DEF Sections
<1>2. F \subseteq Sections
  BY ClusterAssumption DEF Reports, Sections
<1>3. IsFiniteSet(F) /\ Cardinality(F) <= Cardinality(Sections)
  BY <1>1, <1>2, FS_Subset
<1>4. Cardinality(F) \in Nat
  BY <1>3, FS_CardinalityType
<1>5. F # {} => Cardinality(F) # 0
  BY <1>3, FS_EmptySet
<1> QED
  BY <1>1, <1>2, <1>3, <1>4, <1>5, ClusterAssumption

\* The next section to rewrite, the next page to read and the next page to publish.
LEMMA NextInLine ==
    ASSUME TypeOK
    PROVE  /\ todo # {} => Min(todo) \in todo
           /\ Unread # {} => Min(Unread) \in Unread
           /\ Rest # {} /\ (hit => DOMAIN cache[Key] = Pages) =>
                 /\ Min(Rest) \in Pages
                 /\ Min(Rest) > page
                 /\ \A p \in Pages : p < Min(Rest) => p <= page
<1>1. /\ todo \in SUBSET Nat
      /\ Unread \in SUBSET Nat
  BY DEF TypeOK, Sections, Unread, Pages
<1>2. ASSUME Rest # {}, hit => DOMAIN cache[Key] = Pages
      PROVE  /\ Min(Rest) \in Pages
             /\ Min(Rest) > page
             /\ \A p \in Pages : p < Min(Rest) => p <= page
  <2>1. Rest = {p \in Pages : p > page}
    BY <1>2 DEF Rest
  <2>2. Rest \in SUBSET Nat
    BY <2>1 DEF Pages
  <2>3. Min(Rest) \in Rest /\ \A y \in Rest : Min(Rest) <= y
    BY <2>2, <1>2, MinIsLeast
  <2>4. PICK m : m = Min(Rest)
    OBVIOUS
  <2>5. m \in Pages /\ m > page /\ \A y \in Pages : y > page => m <= y
    BY <2>1, <2>3, <2>4
  <2>6. page \in Nat /\ Pages \subseteq Nat
    BY ClusterAssumption DEF TypeOK, Pages
  <2>7. \A p \in Pages : p < m => p <= page
    BY <2>5, <2>6
  <2> QED
    BY <2>4, <2>5, <2>7
<1> QED
  BY <1>1, <1>2, MinIsLeast

\* The raw render of the page in hand, from the loop or from the cache.
LEMMA PublishedIsSound ==
    ASSUME IInv, pc \in {"publish", "sink"}
    PROVE  /\ Sound(Published)
           /\ Published.of = snap
           /\ ~hit => Current(Published.git)
<1> USE DEF IInv
<1>1. page \in Pages
  BY DEF RunInv, AtPage
<1>2. CASE hit
  <2>1. snap \in DOMAIN cache
    BY <1>2, KeyIsSnap DEF RunInv, TypeOK
  <2> QED
    BY <1>1, <1>2, <2>1, KeyIsSnap DEF Published, CacheInv, TypeOK
<1>3. CASE ~hit
  <2> DEFINE r == [of |-> doc.of, git |-> doc.git,
                   marks |-> [s \in Sections |-> doc.sec[s].marks], judged |-> seen = doc]
  <2>1. Published = r
    BY <1>3 DEF Published
  <2>2. doc.of = snap /\ Current(doc.git) /\ seen = doc /\ \A s \in Sections : doc.sec[s].marks = 1
    BY <1>3 DEF ReadInv, ReviewInv, AtPage
  <2>3. doc.of \in Inputs /\ doc.git \in Digest
    BY DEF TypeOK, Document
  <2>4. r \in PageResult
    BY <2>2, <2>3 DEF PageResult
  <2> QED
    BY <2>1, <2>2, <2>4 DEF Sound, Marked, Current
<1> QED
  BY <1>2, <1>3

\* The reconciler takes the bodies of the wiki, but the markers of the new render.
LEMMA MergedIsMarked ==
    ASSUME IInv, pc = "publish"
    PROVE  page \in Pages /\ Marked(Merged)
<1>1. page \in Pages
  BY DEF IInv, RunInv, AtPage
<1>2. Marked(Published)
  BY PublishedIsSound DEF Sound
<1>3. CASE page \in DOMAIN wiki
  <2> DEFINE kept == [wiki[page] EXCEPT !.marks = Published.marks, !.judged = FALSE]
  <2>1. wiki[page] \in PageResult
    BY <1>3 DEF IInv, WikiInv, Marked
  <2>2. kept \in PageResult /\ kept.marks = Published.marks
    BY <1>2, <2>1 DEF Marked, PageResult
  <2>3. Marked(kept)
    BY <1>2, <2>2 DEF Marked
  <2> HIDE DEF kept
  <2>4. Merged = kept \/ Merged = Published
    BY DEF Merged, kept
  <2> QED
    BY <1>1, <1>2, <2>3, <2>4
<1>4. CASE page \notin DOMAIN wiki
  BY <1>1, <1>2, <1>4 DEF Merged
<1> QED
  BY <1>3, <1>4
-----------------------------------------------------------------------------
(* Types. *)

\* The first run finds nothing cached and nothing published.
LEMMA InitIInv == Init => IInv
<1> SUFFICES ASSUME Init PROVE IInv
  OBVIOUS
<1> USE ClusterAssumption
<1>1. DOMAIN Empty = {}
  BY DEF Empty
<1>2. NoInputs \in Inputs /\ NoDigest \in Digest
  BY DEF NoInputs, NoDigest, Inputs, Digest
<1>3. NoDocument \in Document
  BY <1>2 DEF NoDocument, Document, Section
<1>4. TypeOK
  <2>1. hit \in BOOLEAN /\ revised \in BOOLEAN
    BY DEF Init
  <2> QED
    BY <1>1, <1>2, <1>3, <2>1 DEF Init, TypeOK, PC
<1>5. RunInv /\ ReadInv /\ AttemptInv /\ LoopInv /\ ReviewInv
  BY <1>1 DEF Init, RunInv, ReadInv, AttemptInv, LoopInv, ReviewInv, AtPage, Looping, Synthesised
<1>6. ProgressInv /\ ResultsInv /\ WikiInv /\ CacheInv
  BY <1>1 DEF Init, ProgressInv, ResultsInv, WikiInv, CacheInv, AtPage
<1> QED
  BY <1>4, <1>5, <1>6 DEF IInv

\* The end of a run, by report or crash, forgets everything but wiki and cache.
LEMMA EndedIInv == ASSUME IInv, Ended, faults' \in 0..MaxFaults PROVE IInv'
<1> USE ClusterAssumption DEF Ended, IInv, world
<1>1. DOMAIN Empty = {}
  BY DEF Empty
<1>2. NoInputs \in Inputs /\ NoDigest \in Digest
  BY DEF NoInputs, NoDigest, Inputs, Digest
<1>3. NoDocument \in Document
  BY <1>2 DEF NoDocument, Document, Section
<1>4. TypeOK'
  <2>1. hit' \in BOOLEAN /\ revised' \in BOOLEAN
    OBVIOUS
  <2> QED
    BY <1>1, <1>2, <1>3, <2>1 DEF TypeOK, PC
<1>5. RunInv' /\ ReadInv' /\ AttemptInv' /\ LoopInv' /\ ReviewInv'
  BY <1>1 DEF TypeOK, RunInv, ReadInv, AttemptInv, LoopInv, ReviewInv, AtPage, Looping, Synthesised
<1>6. ProgressInv' /\ ResultsInv' /\ WikiInv' /\ CacheInv'
  BY <1>1 DEF ProgressInv, ResultsInv, WikiInv, CacheInv, AtPage, Sound, Marked
<1> QED
  BY <1>4, <1>5, <1>6 DEF IInv

\* Every step within a run, and every change of the world, keeps the types.
LEMMA NextTypeOK ==
    ASSUME IInv, Next, ~Report, ~Crash PROVE TypeOK'
<1> USE ClusterAssumption DEF IInv, world, readVars, loopVars, NoFault, Fault
<1>1. CASE World
  BY <1>1 DEF World, KBCommit, GitMove, SpecEdit, TypeOK
<1>2. CASE Start
  <2>1. DOMAIN Empty = {}
    BY DEF Empty
  <2>2. snap' \in Inputs
    BY <1>2 DEF Start, TypeOK, Inputs
  <2> QED
    BY <1>2, <2>1, <2>2 DEF Start, TypeOK, PC
<1>3. CASE LookupHit \/ LookupMiss
  <2>1. hit' \in BOOLEAN
    BY <1>3 DEF LookupHit, LookupMiss
  <2> QED
    BY <1>3, <2>1 DEF LookupHit, LookupMiss, TypeOK, PC
<1>4. CASE ResolveCommit \/ ReviseCommit
  BY <1>4 DEF ResolveCommit, ReviseCommit, RevParse, TypeOK
<1>5. CASE ResolveContent
  <2>0. Unread # {}
    BY <1>5 DEF ResolveContent, RunInv
  <2>1. Min(Unread) \in Pages
    BY <1>5, <2>0, NextInLine DEF Unread
  <2>2. DigestOf(Min(Unread)) \in Digest
    BY DEF DigestOf, Digest, TypeOK
  <2>3. DOMAIN drafts' \subseteq Pages /\ \A p \in DOMAIN drafts' : drafts'[p] \in Digest
    BY <1>5, <2>1, <2>2, WithEntry DEF ResolveContent, TypeOK, With
  <2> QED
    BY <1>5, <2>3 DEF ResolveContent, TypeOK
<1>6. CASE RenderCluster \/ RenderError
  BY <1>6 DEF RenderCluster, RenderError, TypeOK, PC
<1>7. CASE Apply
  <2>1. \A s \in Sections : WrapBlocks(doc.sec[s]) \in Section
    BY DEF WrapBlocks, TypeOK, Document, Section
  <2>2. doc' \in Document
    BY <1>7, <2>1 DEF Apply, TypeOK, Document
  <2> QED
    BY <1>7, <2>2 DEF Apply, TypeOK, PC
<1>8. CASE ApplyError \/ ReviewError \/ ReviseError
  <2>1. AtPage
    BY <1>8 DEF ApplyError, ReviewError, ReviseError, AtPage
  <2> QED
    BY <1>8, <2>1 DEF ApplyError, ReviewError, ReviseError, PageFails, TypeOK, PC, RunInv
<1>9. CASE Review
  <2>1. PICK F \in Reports :
          /\ todo' = F
          /\ prevFail' = Cardinality(F)
          /\ IF revised
               THEN iters' = iters + 1 /\ first' = first
               ELSE first' = Cardinality(F) /\ iters' = iters
    BY <1>9 DEF Review
  <2>2. pc' \in PC
    BY <1>9 DEF Review, PC
  <2>3. iters' \in 0..MaxIters
    BY <1>9, <2>1 DEF Review, LoopInv, Looping, TypeOK
  <2> QED
    BY <1>9, <2>1, <2>2, <2>3, ReportCount DEF Review, TypeOK
<1>10. CASE ReviseSection
  <2>1. Min(todo) \in todo /\ Min(todo) \in Sections
    BY <1>10, NextInLine DEF ReviseSection, TypeOK
  <2>2. SynthProse(doc.sec[Min(todo)].att + 1) \in Section
    BY <1>10, <2>1 DEF ReviseSection, SynthProse, Section, AttemptInv, LoopInv, Looping, TypeOK, Document
  <2>3. DigestOf(page) \in Digest
    BY DEF DigestOf, Digest, TypeOK
  <2>4. doc' \in Document /\ revised' \in BOOLEAN
    <3> DEFINE s == Min(todo)
    <3> DEFINE d == IF s = GitSection THEN DigestOf(page) ELSE doc.git
    <3> DEFINE v == SynthProse(doc.sec[s].att + 1)
    <3>1. d \in Digest
      BY <2>3 DEF TypeOK, Document
    <3>2. CASE s \in Restyled
      BY <1>10, <3>2 DEF ReviseSection, SpliceSection, TypeOK
    <3>3. CASE s \notin Restyled
      <4>1. doc' = [doc EXCEPT !.sec[s] = v, !.git = d] /\ revised' = TRUE
        BY <1>10, <3>3 DEF ReviseSection, SpliceSection
      <4>2. s \in Sections /\ v \in Section
        BY <2>1, <2>2
      <4> HIDE DEF s, d, v
      <4>3. doc' = [of |-> doc.of, git |-> d, sec |-> [doc.sec EXCEPT ![s] = v]]
        BY <4>1 DEF TypeOK, Document
      <4>4. [doc.sec EXCEPT ![s] = v] \in [Sections -> Section]
        BY <4>2 DEF TypeOK, Document
      <4>5. revised' \in BOOLEAN
        BY <4>1
      <4> QED
        BY <4>3, <4>4, <4>5, <3>1 DEF TypeOK, Document
    <3> QED
      BY <3>2, <3>3
  <2> QED
    BY <1>10, <2>4 DEF ReviseSection, TypeOK
<1>11. CASE RoundDone
  BY <1>11 DEF RoundDone, TypeOK, PC
<1>12. CASE PublishClusterPage \/ PublishError
  <2>1. page \in Pages /\ Merged \in PageResult
    BY <1>12, MergedIsMarked DEF PublishClusterPage, PublishError, Marked
  <2>2. \A p \in DOMAIN wiki' : p \in Pages /\ wiki'[p] \in PageResult
    BY <1>12, <2>1 DEF PublishClusterPage, PublishError, TypeOK, With
  <2> QED
    <3>1. CASE PublishClusterPage
      BY <3>1, <2>2 DEF PublishClusterPage, TypeOK, PC
    <3>2. CASE PublishError
      BY <3>2, <2>1, <2>2 DEF PublishError, TypeOK, PC
    <3> QED
      BY <1>12, <3>1, <3>2
<1>13. CASE NextPage
  <2>1. hit => DOMAIN cache[Key] = Pages
    BY DEF RunInv, CacheInv
  <2>2. CASE Rest # {} /\ hit
    <3>1. Republish(Min(Rest)) /\ Min(Rest) \in 0..NPages
      BY <1>13, <2>1, <2>2, NextInLine DEF NextPage, Pages
    <3> QED
      BY <1>13, <3>1 DEF NextPage, Republish, TypeOK, PC
  <2>3. CASE Rest # {} /\ ~hit
    <3> DEFINE p == Min(Rest)
    <3>1. p \in Pages
      BY <2>3, NextInLine
    <3>2. drafts[p] \in Digest
      BY <1>13, <2>3, <3>1 DEF NextPage, ReadInv, Synthesised, TypeOK
    <3>3. TakeUp(p)
      BY <1>13, <2>3 DEF NextPage
    <3> HIDE DEF p
    <3>4. \A s \in Sections : SynthProse(0) \in Section
      BY DEF SynthProse, Section
    <3>5. doc' \in Document
      BY <3>2, <3>3, <3>4 DEF TakeUp, TypeOK, Document
    <3>6. NoDocument \in Document
      BY DEF NoDocument, NoInputs, NoDigest, Document, Inputs, Digest, Section
    <3>7. revised' \in BOOLEAN
      BY <3>3 DEF TakeUp
    <3> QED
      BY <1>13, <3>1, <3>3, <3>5, <3>6, <3>7 DEF NextPage, TakeUp, TypeOK, PC, Pages
  <2>4. CASE Rest = {}
    BY <1>13, <2>4 DEF NextPage, TypeOK, PC
  <2> QED
    BY <2>2, <2>3, <2>4
<1>14. CASE Store
  <2>1. snap \in Inputs /\ DOMAIN results \subseteq Pages
    BY DEF TypeOK
  <2>2. \A k \in DOMAIN cache' : k \in Inputs /\ DOMAIN cache'[k] \subseteq Pages
    BY <1>14, <2>1, KeyIsSnap, WithEntry DEF Store, TypeOK, With
  <2> QED
    BY <1>14, <2>2 DEF Store, TypeOK, PC
<1>15. CASE OnRendered \/ OnRenderedError
  <2>1. pc = "sink" /\ page \in Pages
    BY <1>15 DEF OnRendered, OnRenderedError, RunInv, AtPage
  <2>2. Published \in PageResult
    BY <2>1, PublishedIsSound DEF Sound, Marked
  <2>3. \A p \in DOMAIN wiki' : p \in Pages /\ wiki'[p] \in PageResult
    BY <1>15, <2>1, <2>2 DEF OnRendered, OnRenderedError, SinkWrites, TypeOK, With
  <2>4. DOMAIN results' \subseteq Pages
    BY <1>15, <2>1 DEF OnRendered, OnRenderedError, TypeOK, With
  <2> QED
    <3>1. CASE OnRendered
      BY <3>1, <2>3, <2>4 DEF OnRendered, TypeOK, PC
    <3>2. CASE OnRenderedError
      BY <3>2, <2>1, <2>3 DEF OnRenderedError, TypeOK, PC
    <3> QED
      BY <1>15, <3>1, <3>2
<1> QED
  BY <1>1, <1>2, <1>3, <1>4, <1>5, <1>6, <1>7, <1>8, <1>9, <1>10, <1>11, <1>12, <1>13, <1>14, <1>15
     DEF Next, Step, Failure
-----------------------------------------------------------------------------
(* A page of the cluster after the other. *)

\* A run goes through its phases in order, and a hit stays a hit on an existing entry.
LEMMA NextRunInv ==
    ASSUME IInv, Next, ~Report, ~Crash PROVE RunInv'
<1> USE DEF IInv, world, readVars, loopVars, Key, AtPage, Unread
<1>1. CASE World
  BY <1>1 DEF World, KBCommit, GitMove, SpecEdit, RunInv
<1>2. CASE Start \/ LookupHit \/ LookupMiss
  BY <1>2 DEF Start, LookupHit, LookupMiss, RunInv
<1>3. CASE ResolveCommit \/ ResolveContent \/ RenderCluster \/ RenderError
  BY <1>3 DEF ResolveCommit, ResolveContent, RenderCluster, RenderError, RunInv
<1>4. CASE Apply \/ ApplyError \/ ReviewError \/ ReviseError
  BY <1>4 DEF Apply, ApplyError, ReviewError, ReviseError, PageFails, RunInv
<1>5. CASE Review
  <2>1. pc' \in {"revise", "publish"}
    BY <1>5 DEF Review
  <2> QED
    BY <1>5, <2>1 DEF Review, RunInv
<1>6. CASE ReviseCommit \/ ReviseSection \/ RoundDone
  BY <1>6 DEF ReviseCommit, ReviseSection, RoundDone, RunInv
<1>7. CASE PublishClusterPage \/ PublishError \/ OnRendered \/ OnRenderedError
  BY <1>7 DEF PublishClusterPage, PublishError, OnRendered, OnRenderedError, RunInv
<1>8. CASE NextPage
  <2>1. hit => DOMAIN cache[Key] = Pages
    BY DEF RunInv, CacheInv
  <2>2. CASE Rest # {}
    <3>1. Min(Rest) \in Pages
      BY <2>1, <2>2, NextInLine
    <3>2. pc' \in {"apply", "publish"} /\ page' \in Pages /\ (hit => pc' = "publish")
      BY <1>8, <2>2, <3>1 DEF NextPage, TakeUp, Republish
    <3> QED
      BY <1>8, <3>2 DEF NextPage, RunInv
  <2>3. CASE Rest = {}
    BY <1>8, <2>3 DEF NextPage, RunInv
  <2> QED
    BY <2>2, <2>3
<1>9. CASE Store
  BY <1>9, WithEntry DEF Store, RunInv
<1> QED
  BY <1>1, <1>2, <1>3, <1>4, <1>5, <1>6, <1>7, <1>8, <1>9 DEF Next, Step, Failure

\* The ref only moves on, and whatever is read of it is read at its present position.
LEMMA NextReadInv ==
    ASSUME IInv, Next, ~Report, ~Crash PROVE ReadInv'
<1> USE DEF IInv, world, readVars, AtPage, Synthesised, Current
<1>0. git \in Nat /\ began \in Nat /\ commit \in Nat
  BY DEF TypeOK
<1>1. CASE World
  BY <1>0, <1>1 DEF World, KBCommit, GitMove, SpecEdit, ReadInv
<1>2. CASE Start
  <2>1. DOMAIN drafts = {}
    BY <1>2 DEF Start, RunInv, Empty
  <2> QED
    BY <1>0, <1>2, <2>1 DEF Start, ReadInv, RunInv
<1>3. CASE LookupHit \/ LookupMiss
  BY <1>3 DEF LookupHit, LookupMiss, ReadInv
<1>4. CASE ResolveCommit \/ ReviseCommit
  BY <1>0, <1>4 DEF ResolveCommit, ReviseCommit, RevParse, ReadInv
<1>5. CASE ResolveContent
  <2>1. Current(DigestOf(Min(Unread)))
    BY DEF ReadInv, DigestOf
  <2>2. \A p \in DOMAIN drafts' : Current(drafts'[p])
    BY <1>5, <2>1 DEF ResolveContent, With, ReadInv
  <2> QED
    BY <1>0, <1>5, <2>2 DEF ResolveContent, ReadInv
<1>6. CASE RenderCluster \/ RenderError
  BY <1>6 DEF RenderCluster, RenderError, ReadInv, Unread, TypeOK
<1>7. CASE Apply
  BY <1>7 DEF Apply, ReadInv, TypeOK, Document
<1>8. CASE ApplyError \/ ReviewError \/ ReviseError
  BY <1>0, <1>8 DEF ApplyError, ReviewError, ReviseError, PageFails, ReadInv
<1>9. CASE Review
  BY <1>9 DEF Review, ReadInv
<1>10. CASE ReviseSection
  <2>1. Current(DigestOf(page))
    BY DEF ReadInv, DigestOf
  <2>2. ~hit /\ Current(doc.git) /\ doc.of = snap
    BY <1>10 DEF ReviseSection, ReadInv, RunInv
  <2>3. Current(doc'.git) /\ doc'.of = doc.of
    BY <1>10, <2>1, <2>2 DEF ReviseSection, SpliceSection, TypeOK, Document
  <2> QED
    BY <1>0, <1>10, <2>2, <2>3 DEF ReviseSection, ReadInv
<1>11. CASE RoundDone
  BY <1>11 DEF RoundDone, ReadInv
<1>12. CASE PublishClusterPage \/ PublishError \/ OnRendered \/ OnRenderedError
  BY <1>12 DEF PublishClusterPage, PublishError, OnRendered, OnRenderedError, ReadInv
<1>13. CASE NextPage
  <2>1. CASE Rest # {} /\ ~hit
    <3>1. Min(Rest) \in Pages /\ TakeUp(Min(Rest))
      BY <1>13, <2>1, NextInLine DEF NextPage
    <3>2. Current(drafts[Min(Rest)])
      BY <1>13, <2>1, <3>1 DEF NextPage, ReadInv
    <3> QED
      BY <1>13, <2>1, <3>1, <3>2 DEF NextPage, TakeUp, ReadInv
  <2>2. CASE Rest = {} \/ hit
    BY <1>13, <2>2 DEF NextPage, Republish, ReadInv
  <2> QED
    BY <2>1, <2>2
<1>14. CASE Store
  BY <1>14 DEF Store, ReadInv
<1> QED
  BY <1>1, <1>2, <1>3, <1>4, <1>5, <1>6, <1>7, <1>8, <1>9, <1>10, <1>11, <1>12, <1>13, <1>14
     DEF Next, Step, Failure
-----------------------------------------------------------------------------
(* The refine loop. *)

\* Steps outside the loop: the run is not between the passes and the publication,
\* or leaves them, and the loop's state stays.
LEMMA OutsideLoop ==
    ASSUME IInv, UNCHANGED loopVars, pc' \notin {"apply", "review", "revise"},
           pc' \in {"publish", "sink"} => hit' \/ (pc = "publish" /\ ~hit /\ UNCHANGED <<doc, seen>>)
    PROVE  AttemptInv' /\ LoopInv' /\ ReviewInv'
BY DEF IInv, loopVars, AttemptInv, LoopInv, Looping, ReviewInv

\* Steps of the world and of the resolver leave the loop as it is.
LEMMA BesideLoop ==
    ASSUME IInv, UNCHANGED <<pc, hit, doc, seen, loopVars>>
    PROVE  AttemptInv' /\ LoopInv' /\ ReviewInv'
BY DEF IInv, loopVars, AttemptInv, LoopInv, Looping, ReviewInv

\* The passes, the Judge and the rewriting of sections keep the loop's accounts.
LEMMA NextLoopInv ==
    ASSUME IInv, Next, ~Report, ~Crash PROVE AttemptInv' /\ LoopInv' /\ ReviewInv'
<1> USE DEF IInv
<1>0. /\ iters \in Nat /\ first \in Nat /\ prevFail \in Nat /\ MaxIters \in Nat
      /\ \A s \in Sections : doc.sec[s].att \in Nat /\ doc.sec[s].marks \in Nat
  BY ClusterAssumption DEF TypeOK, Document, Section
<1>1. CASE World \/ ResolveCommit \/ ReviseCommit \/ ResolveContent
  <2>1. UNCHANGED <<pc, hit, doc, seen, loopVars>>
    BY <1>1 DEF World, KBCommit, GitMove, SpecEdit, ResolveCommit, ReviseCommit, ResolveContent
  <2> QED
    BY <2>1, BesideLoop
<1>2. CASE \/ Start \/ LookupHit \/ LookupMiss \/ RenderCluster \/ RenderError
           \/ ApplyError \/ ReviewError \/ ReviseError \/ PublishClusterPage \/ PublishError
           \/ OnRendered \/ OnRenderedError \/ Store
  <2>1. /\ UNCHANGED loopVars /\ pc' \notin {"apply", "review", "revise", "publish"}
        /\ pc' = "sink" => pc = "publish" /\ UNCHANGED <<hit, doc, seen>>
    BY <1>2 DEF Start, LookupHit, LookupMiss, RenderCluster, RenderError, ApplyError, ReviewError,
                ReviseError, PageFails, PublishClusterPage, PublishError, OnRendered, OnRenderedError, Store
  <2> QED
    BY <2>1, OutsideLoop
<1>3. CASE Apply
  <2>1. \A s \in Sections : doc'.sec[s].att = doc.sec[s].att /\ doc'.sec[s].marks = 1
    BY <1>0, <1>3 DEF Apply, WrapBlocks, ReviewInv, TypeOK, Document, Section
  <2>2. AttemptInv'
    BY <1>3, <2>1 DEF Apply, AttemptInv, loopVars
  <2>3. LoopInv'
    BY <1>3 DEF Apply, LoopInv, Looping, loopVars
  <2>4. ReviewInv'
    BY <1>3, <2>1 DEF Apply, ReviewInv
  <2> QED
    BY <2>2, <2>3, <2>4
<1>4. CASE Review
  <2>1. PICK F \in Reports :
          /\ todo' = F
          /\ prevFail' = Cardinality(F)
          /\ IF revised
               THEN /\ iters' = iters + 1
                    /\ pc' = IF ~NoProgress(F) /\ Revising(iters + 1, F) THEN "revise" ELSE "publish"
                    /\ first' = first
               ELSE /\ first' = Cardinality(F)
                    /\ pc' = IF Revising(0, F) THEN "revise" ELSE "publish"
                    /\ iters' = iters
    BY <1>4 DEF Review
  <2>2. /\ F \subseteq Sections /\ Cardinality(F) \in Nat
        /\ F # {} => Cardinality(F) > 0
    BY ReportCount
  <2>3. pc = "review" /\ revised' = FALSE /\ doc' = doc /\ seen' = doc
    BY <1>4 DEF Review
  <2>4. LoopInv'
    BY <1>0, <2>1, <2>2, <2>3 DEF LoopInv, Looping, NoProgress, Revising
  <2>5. AttemptInv'
    BY <1>0, <2>1, <2>2, <2>3 DEF AttemptInv, LoopInv
  <2>6. \A s \in Sections : doc.sec[s].marks = 1
    BY <1>4 DEF Review, ReviewInv, RunInv
  <2>7. ReviewInv'
    BY <2>1, <2>3, <2>6 DEF ReviewInv
  <2> QED
    BY <2>4, <2>5, <2>7
<1>5. CASE ReviseSection
  <2> DEFINE s == Min(todo)
  <2>1. s \in todo /\ s \in Sections /\ pc = "revise" /\ pc' = "revise" /\ todo' = todo \ {s}
    BY <1>5, NextInLine DEF ReviseSection, TypeOK
  <2>2. UNCHANGED <<seen, iters, prevFail, first>>
    BY <1>5 DEF ReviseSection
  <2>3. \/ UNCHANGED <<doc, revised>>
        \/ /\ revised' = TRUE
           /\ \A u \in Sections :
                 /\ doc'.sec[u].att = IF u = s THEN doc.sec[s].att + 1 ELSE doc.sec[u].att
                 /\ doc'.sec[u].marks = IF u = s THEN 0 ELSE doc.sec[u].marks
    <3>1. CASE s \in Restyled
      BY <1>5, <3>1 DEF ReviseSection, SpliceSection
    <3>2. CASE s \notin Restyled
      <4>1. /\ revised' = TRUE
            /\ doc'.sec = [doc.sec EXCEPT ![s] = SynthProse(doc.sec[s].att + 1)]
        BY <1>5, <3>2 DEF ReviseSection, SpliceSection, TypeOK, Document
      <4>2. doc.sec \in [Sections -> Section]
        BY DEF TypeOK, Document
      <4> DEFINE v == SynthProse(doc.sec[s].att + 1)
      <4>3. v.att = doc.sec[s].att + 1 /\ v.marks = 0
        BY DEF SynthProse
      <4> HIDE DEF s, v
      <4>4. \A u \in Sections : doc'.sec[u] = IF u = s THEN v ELSE doc.sec[u]
        BY <2>1, <4>1, <4>2 DEF v
      <4> QED
        BY <4>1, <4>3, <4>4
    <3> QED
      BY <3>1, <3>2
  <2> HIDE DEF s
  <2>4. AttemptInv'
    BY <1>0, <2>1, <2>2, <2>3 DEF AttemptInv, TypeOK
  <2>5. LoopInv'
    BY <2>1, <2>2 DEF LoopInv, Looping
  <2>6. ReviewInv'
    BY <2>1, <2>2, <2>3 DEF ReviewInv
  <2> QED
    BY <2>4, <2>5, <2>6
<1>6. CASE RoundDone
  <2>1. AttemptInv'
    BY <1>6 DEF RoundDone, AttemptInv, loopVars
  <2>2. LoopInv'
    BY <1>6 DEF RoundDone, LoopInv, Looping, loopVars
  <2>3. ReviewInv'
    BY <1>6 DEF RoundDone, ReviewInv, loopVars
  <2> QED
    BY <2>1, <2>2, <2>3
<1>7. CASE NextPage
  <2>1. CASE Rest # {} /\ ~hit
    <3>1. TakeUp(Min(Rest))
      BY <1>7, <2>1 DEF NextPage
    <3>2. \A s \in Sections : doc'.sec[s] = [att |-> 0, marks |-> 0]
      BY <3>1 DEF TakeUp, SynthProse
    <3> QED
      BY <3>1, <3>2 DEF TakeUp, AttemptInv, LoopInv, Looping, ReviewInv
  <2>2. CASE Rest = {} \/ hit
    <3>1. /\ UNCHANGED loopVars /\ pc' \notin {"apply", "review", "revise", "sink"}
          /\ pc' = "publish" => hit'
      BY <1>7, <2>2 DEF NextPage, Republish
    <3> QED
      BY <3>1, OutsideLoop
  <2> QED
    BY <2>1, <2>2
<1> QED
  BY <1>1, <1>2, <1>3, <1>4, <1>5, <1>6, <1>7 DEF Next, Step, Failure
-----------------------------------------------------------------------------
(* Results, wiki and cache. *)

\* The loop over the cluster leaves no page behind without a result or a failure.
LEMMA NextProgressInv ==
    ASSUME IInv, Next, ~Report, ~Crash PROVE ProgressInv'
<1> USE DEF IInv, AtPage
<1>0. page \in Nat /\ Pages \subseteq Nat
  BY ClusterAssumption DEF TypeOK, Pages
<1>1. CASE World \/ LookupHit \/ LookupMiss \/ ResolveCommit \/ ResolveContent \/ RenderCluster
  <2>1. UNCHANGED <<page, results, failed>>
    BY <1>1 DEF World, KBCommit, GitMove, SpecEdit, LookupHit, LookupMiss, ResolveCommit,
                ResolveContent, RenderCluster
  <2>2. pc' = pc \/ (pc \in {"lookup", "synth"} /\ pc' \in {"synth", "next"})
    BY <1>1 DEF World, KBCommit, GitMove, SpecEdit, LookupHit, LookupMiss, ResolveCommit,
                ResolveContent, RenderCluster
  <2>3. 0 \notin Pages
    BY DEF Pages
  <2> QED
    BY <1>0, <2>1, <2>2, <2>3 DEF ProgressInv, RunInv
<1>2. CASE Start
  BY <1>2 DEF Start, ProgressInv, Empty
<1>3. CASE RenderError
  BY <1>3 DEF RenderError, ProgressInv
<1>4. CASE Apply \/ Review \/ ReviseCommit \/ ReviseSection \/ RoundDone \/ PublishClusterPage
  <2>1. UNCHANGED <<page, results, failed>> /\ AtPage /\ AtPage'
    BY <1>4 DEF Apply, Review, ReviseCommit, ReviseSection, RoundDone, PublishClusterPage
  <2> QED
    BY <2>1 DEF ProgressInv
<1>5. CASE ApplyError \/ ReviewError \/ ReviseError \/ PublishError \/ OnRendered \/ OnRenderedError
  <2>1. AtPage /\ pc' = "next" /\ page' = page
    BY <1>5 DEF ApplyError, ReviewError, ReviseError, PageFails, PublishError, OnRendered, OnRenderedError
  <2>2. /\ DOMAIN results \subseteq DOMAIN results' /\ failed \subseteq failed'
        /\ DOMAIN results' \subseteq DOMAIN results \cup {page}
        /\ page \in DOMAIN results' \cup failed'
    BY <1>5 DEF ApplyError, ReviewError, ReviseError, PageFails, PublishError, OnRendered, OnRenderedError, With
  <2>3. \A p \in Pages : p <= page <=> p < page \/ p = page
    BY <1>0
  <2>4. page \in Pages /\ DOMAIN results \subseteq Pages
    BY <2>1 DEF RunInv, TypeOK
  <2>5. \A p \in DOMAIN results' : p \in Pages /\ p <= page
    BY <2>1, <2>2, <2>3, <2>4 DEF ProgressInv
  <2>6. \A p \in Pages : p <= page => p \in DOMAIN results' \cup failed'
    BY <2>1, <2>2, <2>3 DEF ProgressInv
  <2> QED
    BY <2>1, <2>5, <2>6 DEF ProgressInv
<1>6. CASE NextPage
  <2>1. hit => DOMAIN cache[Key] = Pages
    BY DEF RunInv, CacheInv
  <2>2. UNCHANGED <<results, failed>> /\ pc = "next"
    BY <1>6 DEF NextPage
  <2>3. CASE Rest # {}
    <3>1. /\ Min(Rest) \in Pages /\ Min(Rest) > page
          /\ \A p \in Pages : p < Min(Rest) => p <= page
      BY <2>1, <2>3, NextInLine
    <3>2. pc' \in {"apply", "publish"} /\ page' = Min(Rest)
      BY <1>6, <2>3 DEF NextPage, TakeUp, Republish
    <3>3. PICK m : m = Min(Rest)
      OBVIOUS
    <3>4. m \in Nat /\ m > page
      BY <1>0, <3>1, <3>3
    <3>5. \A p \in Pages : p <= page => p < m
      BY <1>0, <3>4
    <3> QED
      BY <1>0, <2>2, <3>1, <3>2, <3>3, <3>5 DEF ProgressInv
  <2>4. CASE Rest = {}
    <3>1. \A p \in Pages : p <= page
      BY <1>0, <2>1, <2>4 DEF Rest
    <3>2. pc' \in {"report", "store"} /\ page' = page
      BY <1>6, <2>4 DEF NextPage
    <3> QED
      BY <1>0, <2>2, <3>1, <3>2 DEF ProgressInv
  <2> QED
    BY <2>3, <2>4
<1>7. CASE Store
  BY <1>7 DEF Store, ProgressInv
<1> QED
  BY <1>1, <1>2, <1>3, <1>4, <1>5, <1>6, <1>7 DEF Next, Step, Failure

\* Pages are published one at a time, each once, and none but the page in hand.
LEMMA NextPublishedInv ==
    ASSUME IInv, Next, ~Report, ~Crash PROVE ResultsInv' /\ WikiInv' /\ CacheInv'
<1> USE DEF IInv
<1>1. CASE \/ World \/ ResolveCommit \/ ReviseCommit \/ ResolveContent \/ RenderCluster \/ RenderError
           \/ LookupMiss \/ LookupHit \/ Apply \/ ApplyError \/ Review \/ ReviewError
           \/ ReviseSection \/ ReviseError \/ RoundDone \/ NextPage
  <2>1. UNCHANGED <<wiki, results, cache, snap, began>>
    BY <1>1 DEF World, KBCommit, GitMove, SpecEdit, LookupHit, LookupMiss, ResolveCommit, ReviseCommit,
                ResolveContent, RenderCluster, RenderError, Apply, ApplyError, Review, ReviewError,
                ReviseSection, ReviseError, PageFails, RoundDone, NextPage, readVars
  <2>2. hit' = hit \/ results = Empty
    BY <1>1 DEF World, KBCommit, GitMove, SpecEdit, LookupHit, LookupMiss, ResolveCommit, ReviseCommit,
                ResolveContent, RenderCluster, RenderError, Apply, ApplyError, Review, ReviewError,
                ReviseSection, ReviseError, PageFails, RoundDone, NextPage, RunInv
  <2>3. DOMAIN Empty = {}
    BY DEF Empty
  <2> QED
    BY <2>1, <2>2, <2>3 DEF ResultsInv, WikiInv, CacheInv, Sound, Marked, Current
<1>2. CASE Start
  <2>1. DOMAIN results' = {}
    BY <1>2 DEF Start, Empty
  <2> QED
    BY <1>2, <2>1 DEF Start, ResultsInv, WikiInv, CacheInv, Sound, Marked
<1>3. CASE PublishClusterPage \/ PublishError
  <2>1. /\ pc = "publish" /\ UNCHANGED <<cache, snap, hit, began, results>>
        /\ wiki' = With(wiki, page, Merged) \/ wiki' = wiki
    BY <1>3 DEF PublishClusterPage, PublishError, readVars
  <2>2. page \in Pages /\ Marked(Merged) /\ page \notin DOMAIN results
    BY <2>1, MergedIsMarked, ClusterAssumption DEF AtPage, ProgressInv, Pages
  <2>3. WikiInv'
    BY <2>1, <2>2 DEF With, WikiInv, Marked
  <2>4. ResultsInv'
    BY <2>1, <2>2 DEF With, ResultsInv, Sound, Marked, Current
  <2>5. CacheInv'
    BY <2>1 DEF CacheInv, Sound, Marked
  <2> QED
    BY <2>3, <2>4, <2>5
<1>4. CASE Store
  <2>1. UNCHANGED <<wiki, results, snap, hit, began>>
    BY <1>4 DEF Store, readVars
  <2>2. CASE cache' = cache
    BY <2>1, <2>2 DEF ResultsInv, WikiInv, CacheInv, Sound, Marked, Current
  <2>3. CASE failed = {} /\ cache' = With(cache, snap, results)
    <3>1. DOMAIN results = Pages
      BY <1>4, <2>3 DEF Store, ProgressInv
    <3>2. CacheInv'
      BY <2>1, <2>3, <3>1 DEF With, CacheInv, ResultsInv, Sound, Marked, TypeOK
    <3> QED
      BY <2>1, <3>2 DEF ResultsInv, WikiInv, Sound, Marked, Current
  <2> QED
    BY <1>4, <2>2, <2>3, KeyIsSnap DEF Store, Storable, TypeOK
<1>5. CASE OnRendered \/ OnRenderedError
  <2>1. /\ pc = "sink" /\ UNCHANGED <<cache, snap, hit, began>>
        /\ \/ wiki' = IF OutDir THEN wiki ELSE With(wiki, page, Published)
           \/ wiki' = wiki /\ results' = results
        /\ \/ /\ results' = With(results, page, Published)
              /\ wiki' = IF OutDir THEN wiki ELSE With(wiki, page, Published)
           \/ results' = results
    BY <1>5 DEF OnRendered, OnRenderedError, SinkWrites, readVars
  <2>2. page \in Pages /\ page \notin DOMAIN results
    BY <2>1, ClusterAssumption DEF RunInv, AtPage, ProgressInv, Pages
  <2>3. Sound(Published) /\ Published.of = snap /\ (~hit => Current(Published.git))
    BY <2>1, PublishedIsSound
  <2>4. WikiInv'
    BY <2>1, <2>2, <2>3 DEF With, WikiInv, Sound, Marked
  <2>5. ResultsInv'
    BY <2>1, <2>2, <2>3 DEF With, ResultsInv, Sound, Marked, Current
  <2>6. CacheInv'
    BY <2>1 DEF CacheInv, Sound, Marked
  <2> QED
    BY <2>4, <2>5, <2>6
<1> QED
  BY <1>1, <1>2, <1>3, <1>4, <1>5 DEF Next, Step, Failure
-----------------------------------------------------------------------------
\* The inductive step.
LEMMA NextIInv == IInv /\ [Next]_vars => IInv'
<1> SUFFICES ASSUME IInv, [Next]_vars PROVE IInv'
  OBVIOUS
<1>1. CASE UNCHANGED vars
  BY <1>1 DEF vars, IInv, TypeOK, RunInv, ReadInv, AttemptInv, LoopInv, ReviewInv, ProgressInv,
              ResultsInv, WikiInv, CacheInv, AtPage, Synthesised, Current, Sound, Marked, Looping, Unread, Key
<1>2. CASE Report \/ Crash
  <2>1. faults' \in 0..MaxFaults
    BY <1>2, ClusterAssumption DEF Report, Crash, Fault, NoFault, IInv, TypeOK
  <2> QED
    BY <1>2, <2>1, EndedIInv DEF Report, Crash
<1>3. CASE Next /\ ~Report /\ ~Crash
  BY <1>3, NextTypeOK, NextRunInv, NextReadInv, NextLoopInv, NextProgressInv, NextPublishedInv DEF IInv
<1> QED
  BY <1>1, <1>2, <1>3

\* The inductive invariant holds throughout.
LEMMA Invariant == Spec => []IInv
BY InitIInv, NextIInv, PTL DEF Spec

(***************************************************************************)
(* A section is rewritten at most once a round and a page gets no more     *)
(* rounds than refine.go's budget; every other value has its type too.     *)
(***************************************************************************)
THEOREM TypeCorrect == Spec => []TypeOK
<1>1. IInv => TypeOK
  BY DEF IInv
<1> QED
  BY <1>1, Invariant, PTL

(***************************************************************************)
(* Only whole clusters are cached, made from what their key stands for and *)
(* judged as they are: a run that reaches Store without a failed page has  *)
(* a result for every page of the loop over the cluster.                   *)
(***************************************************************************)
THEOREM CachesWholeClusters == Spec => []CachedClusterIsWhole
<1>1. IInv => CachedClusterIsWhole
  BY DEF IInv, CacheInv, CachedClusterIsWhole, Sound
<1> QED
  BY <1>1, Invariant, PTL

(***************************************************************************)
(* Where the sink is the wiki, a page that a run reports as published      *)
(* shows exactly the text of its verdict: a round that rewrote a section   *)
(* goes back through the passes and the Judge, the bodies that the merge   *)
(* of the first upload kept are replaced by the sink's, and no later step  *)
(* of the run touches the page again.  With --out it does not hold.        *)
(***************************************************************************)
THEOREM PublishesWhatWasJudged ==
    ASSUME ~OutDir PROVE Spec => []PublishedAsJudged
<1>1. IInv => PublishedAsJudged
  BY DEF IInv, ResultsInv, PublishedAsJudged, Sound
<1> QED
  BY <1>1, Invariant, PTL

(***************************************************************************)
(* Zone markers are never applied twice, however often the loop sends the  *)
(* document through the passes: what the wiki shows is marked once.        *)
(***************************************************************************)
THEOREM MarksOnce == Spec => []MarkedOnce
<1>1. IInv => MarkedOnce
  BY DEF IInv, WikiInv, MarkedOnce, Marked
<1> QED
  BY <1>1, Invariant, PTL

(***************************************************************************)
(* The refine loop takes no more rounds than the first review found        *)
(* failing sections, whatever max_refine_iterations allows.                *)
(***************************************************************************)
THEOREM RefineTerminatesEarly == Spec => []RefineConverges
<1>1. IInv => RefineConverges
  BY DEF IInv, LoopInv, RefineConverges
<1> QED
  BY <1>1, Invariant, PTL

(***************************************************************************)
(* Where the sink is the wiki, a run that fails no page leaves every page  *)
(* as its inputs make it, from the cache or not: the key leaves nothing of *)
(* the inputs out, and no body that the merge kept survives.               *)
(***************************************************************************)
THEOREM OkRunsAreFresh ==
    ASSUME ~OutDir PROVE Spec => []OkRunIsFresh
<1>1. IInv => OkRunIsFresh
  BY DEF IInv, ProgressInv, ResultsInv, OkRunIsFresh
<1> QED
  BY <1>1, Invariant, PTL

(***************************************************************************)
(* Where the sink is the wiki, what a run synthesised itself shows the     *)
(* clone no older than the start of the run, and is not labelled newer     *)
(* than it is.                                                             *)
(***************************************************************************)
THEOREM GitContentStaysCurrent ==
    ASSUME ~OutDir PROVE Spec => []GitContentIsCurrent
<1>1. IInv => GitContentIsCurrent
  BY DEF IInv, ProgressInv, ResultsInv, GitContentIsCurrent, Current
<1> QED
  BY <1>1, Invariant, PTL
===========================================================================
