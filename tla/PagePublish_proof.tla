------------------------- MODULE PagePublish_proof -------------------------
(***************************************************************************)
(* Proofs about PagePublish and PageContent, for any page layout, wiki     *)
(* target and number of runs, edits and faults.                            *)
(***************************************************************************)
EXTENDS PagePublish, SequenceTheorems, TLAPS

-----------------------------------------------------------------------------
(* The merge. *)

\* The texts the model builds are texts.
LEMMA TextTypes ==
    /\ \A h, k \in Nat : Gen(h, k) \in Text
    /\ \A r \in Nat : Typed(r) \in Text
    /\ NoBlock \in Block
    /\ NoPage \in Content
    /\ \A r \in Nat : ForeignPage(r) \in Content
BY DEF Gen, Typed, Text, NoBlock, NoProv, Prov, Block, NoPage, ForeignPage, Content, Form

\* A render is a page.
LEMMA RenderType == \A h, k \in Nat : Render(h, k) \in Content
<1> SUFFICES ASSUME NEW h \in Nat, NEW k \in Nat PROVE Render(h, k) \in Content
  OBVIOUS
<1>1. Gen(h, k) \in Text
  BY TextTypes
<1>2. \A b \in Blocks : InputHash(b, h, k) \in Prov
  BY DEF InputHash, Prov
<1> QED
  BY <1>1, <1>2 DEF Render, Content, Form, Block

\* The merge of two pages is a page.
LEMMA MergeType == \A c, n \in Content : MergeBlocks(c, n) \in Content
<1> SUFFICES ASSUME NEW c \in Content, NEW n \in Content
             PROVE  MergeBlocks(c, n) \in Content
  OBVIOUS
<1>1. \A b \in Blocks : ChooseBody(b, c, n) \in Text
  BY DEF ChooseBody, Content, Block
<1> QED
  BY <1>1 DEF MergeBlocks, Content, Form, Block

(***************************************************************************)
(* Merging the same render into a page it was merged into changes nothing: *)
(* for any page a human left behind, the reconciler's second answer is     *)
(* no-op, so the curator and the wiki do not push each other to and fro.   *)
(***************************************************************************)
THEOREM MergeIsIdempotent ==
    \A c, n \in Content : MergeBlocks(MergeBlocks(c, n), n) = MergeBlocks(c, n)
<1> SUFFICES ASSUME NEW c \in Content, NEW n \in Content
             PROVE  MergeBlocks(MergeBlocks(c, n), n) = MergeBlocks(c, n)
  OBVIOUS
<1> DEFINE m == MergeBlocks(c, n)
<1>1. \A b \in Blocks : m.blk[b].prov = n.blk[b].prov /\ m.blk[b].body = ChooseBody(b, c, n)
  BY DEF MergeBlocks
<1>2. \A b \in Blocks : ChooseBody(b, m, n) = ChooseBody(b, c, n)
  <2> HIDE DEF m
  <2> QED
    BY <1>1 DEF ChooseBody
<1> QED
  BY <1>2 DEF MergeBlocks
-----------------------------------------------------------------------------
(* Types. *)

\* What GetPage answers is a page.
LEMMA LatestType == hist \in Seq(Revision) => Latest \in Content
<1> SUFFICES ASSUME hist \in Seq(Revision) PROVE Latest \in Content
  OBVIOUS
<1>1. CASE hist = <<>>
  BY <1>1, TextTypes DEF Latest
<1>2. CASE hist # <<>>
  <2>1. hist[Len(hist)] \in Revision
    BY <1>2
  <2> QED
    BY <1>2, <2>1 DEF Latest, Revision
<1> QED
  BY <1>1, <1>2

\* What an upload leaves is a history, one revision longer or the same.
LEMMA UpsertType ==
    ASSUME hist \in Seq(Revision), NEW c \in Content, UpsertPage(c)
    PROVE  /\ hist' \in Seq(Revision)
           /\ \/ hist' = hist
              \/ hist' = Append(hist, [bot |-> TRUE, content |-> c])
<1>1. [bot |-> TRUE, content |-> c] \in Revision
  BY DEF Revision
<1> QED
  BY <1>1 DEF UpsertPage

\* What a run renders and uploads are pages.
LEMMA RunTypes == TypeOK => Rendered \in Content /\ PushedText \in Content
BY RenderType, MergeType DEF TypeOK, Rendered, PushedText

\* Init satisfies the types.
LEMMA InitTypeOK == Init => TypeOK
BY PublishAssumption, TextTypes DEF Init, TypeOK, NoState, SpecState, PC, Status

\* The start of a run.
LEMMA BeginTypeOK ==
    ASSUME TypeOK, NEW next \in PC, NEW st \in Status, Begin(next, st), NoFault \/ Fault
    PROVE  TypeOK'
BY TextTypes, PublishAssumption DEF Begin, NoFault, Fault, TypeOK, world

\* What the humans write.
LEMMA HumanTypeOK ==
    ASSUME TypeOK, NEW c \in Content, HumanWrites(c) PROVE TypeOK'
<1>1. [bot |-> FALSE, content |-> c] \in Revision
  BY DEF Revision
<1>2. hist' \in Seq(Revision)
  BY <1>1 DEF HumanWrites, TypeOK
<1>3. late' \in SUBSET Nat
  <2>1. Len(hist) + 1 \in Nat
    BY DEF TypeOK
  <2> QED
    BY <2>1 DEF HumanWrites, TypeOK
<1> QED
  BY <1>2, <1>3 DEF HumanWrites, TypeOK, world, runVars

\* The record of a run.
LEMMA PersistTypeOK ==
    ASSUME TypeOK, NEW r \in Nat, PersistRunState(r) \/ PersistDropped
    PROVE  rs' \in SpecState /\ faults' \in 0..MaxFaults
<1>1. [rev |-> r, commit |-> Commit(snap.kb)] \in SpecState
  BY DEF Commit, TypeOK, SpecState
<1> QED
  BY <1>1, PublishAssumption DEF PersistRunState, PersistDropped, NoFault, Fault, TypeOK

\* Every step keeps the types.
LEMMA NextTypeOK == TypeOK /\ [Next]_vars => TypeOK'
<1> SUFFICES ASSUME TypeOK, [Next]_vars PROVE TypeOK'
  OBVIOUS
<1>0. Latest \in Content /\ Rendered \in Content /\ PushedText \in Content
  BY LatestType, RunTypes DEF TypeOK
<1>1. CASE UNCHANGED vars
  BY <1>1 DEF TypeOK, vars
<1>2. CASE StartRender \/ StartSkip \/ StartDiffError \/ StartRenderError
  <2>1. /\ "get" \in PC /\ "report" \in PC
        /\ "Rendered" \in Status /\ "Skipped" \in Status /\ "Failed" \in Status
    BY DEF PC, Status
  <2>2. CASE StartRender
    BY <2>1, <2>2, BeginTypeOK DEF StartRender
  <2>3. CASE StartSkip
    BY <2>1, <2>3, BeginTypeOK DEF StartSkip
  <2>4. CASE StartDiffError
    BY <2>1, <2>4, BeginTypeOK DEF StartDiffError
  <2>5. CASE StartRenderError
    BY <2>1, <2>5, BeginTypeOK DEF StartRenderError
  <2> QED
    BY <1>2, <2>2, <2>3, <2>4, <2>5
<1>3. CASE GetPage \/ GetPageForgets
  <2>1. PICK r \in Nat : Reconcile(r)
    BY <1>3 DEF GetPage, GetPageForgets, TypeOK, SpecState
  <2>2. faults' \in 0..MaxFaults
    BY <1>3, PublishAssumption DEF GetPage, GetPageForgets, NoFault, Fault, TypeOK
  <2>3. pc' \in PC
    BY <2>1 DEF Reconcile, PC
  <2> QED
    BY <2>1, <2>2, <2>3, <1>0 DEF Reconcile, TypeOK, world
<1>4. CASE GetPageError \/ HistoryError
  <2>1. CASE GetPageError
    BY <2>1, PublishAssumption DEF GetPageError, FailTo, Fault, TypeOK, PC, Status, world
  <2>2. CASE HistoryError
    BY <2>2, PublishAssumption DEF HistoryError, FailTo, Fault, TypeOK, PC, Status, world
  <2> QED
    BY <1>4, <2>1, <2>2
<1>5. CASE History
  <2>1. DetectHumanEdits(last) \in SUBSET Nat
    BY DEF DetectHumanEdits, TypeOK
  <2> QED
    BY <1>5, <2>1 DEF History, NoFault, TypeOK, PC, world
<1>6. CASE Push
  <2>1. hist' \in Seq(Revision)
    BY <1>6, <1>0, UpsertType DEF Push, TypeOK
  <2>2. UpsertedID \in Nat
    BY DEF UpsertedID, TypeOK
  <2> QED
    BY <1>6, <2>1, <2>2 DEF Push, NoFault, TypeOK, PC, world
<1>7. CASE PushError
  <2>1. hist' \in Seq(Revision)
    BY <1>7, <1>0, UpsertType DEF PushError, TypeOK
  <2> QED
    BY <1>7, <2>1, PublishAssumption DEF PushError, FailTo, Fault, TypeOK, PC, Status, world
<1>8. CASE Persist
  <2>1. rs' \in SpecState /\ faults' \in 0..MaxFaults
    BY <1>8, PersistTypeOK DEF Persist, TypeOK
  <2> QED
    BY <1>8, <2>1 DEF Persist, TypeOK, PC, world
<1>9. CASE NoOp
  <2>1. rs' \in SpecState /\ faults' \in 0..MaxFaults
    BY <1>9, PersistTypeOK DEF NoOp, TypeOK
  <2> QED
    BY <1>9, <2>1 DEF NoOp, TypeOK, PC, Status, world
<1>10. CASE OnRendered
  <2>1. hist' \in Seq(Revision)
    BY <1>10, <1>0, UpsertType DEF OnRendered, TypeOK
  <2> QED
    BY <1>10, <2>1 DEF OnRendered, NoFault, TypeOK, PC, world
<1>11. CASE OnRenderedError
  <2>1. hist' \in Seq(Revision)
    BY <1>11, <1>0, UpsertType DEF OnRenderedError, TypeOK
  <2> QED
    BY <1>11, <2>1, PublishAssumption
       DEF OnRenderedError, FailTo, Fault, TypeOK, PC, Status, world
<1>12. CASE Report
  BY <1>12 DEF Report, NoFault, TypeOK, PC, world
<1>13. CASE Crash
  BY <1>13, PublishAssumption DEF Crash, Fault, TypeOK, PC, Status, world
<1>14. CASE HumanCreate
  BY <1>14, HumanTypeOK, TextTypes DEF HumanCreate
<1>15. CASE HumanFrame
  <2>1. Typed(Len(hist) + 1) \in Text
    BY TextTypes DEF TypeOK
  <2>2. [form |-> Latest.form, frame |-> Typed(Len(hist) + 1), blk |-> Latest.blk] \in Content
    BY <2>1, <1>0 DEF Content
  <2> QED
    BY <1>15, <2>2, HumanTypeOK DEF HumanFrame
<1>16. ASSUME NEW b \in Blocks, HumanPolish(b) PROVE TypeOK'
  <2>1. Typed(Len(hist) + 1) \in Text
    BY TextTypes DEF TypeOK
  <2>2. WithBody(Latest, b, Typed(Len(hist) + 1)) \in Content
    BY <2>1, <1>0 DEF WithBody, Content, Block
  <2> QED
    BY <1>16, <2>2, HumanTypeOK DEF HumanPolish
<1>17. CASE KBCommit
  BY <1>17, PublishAssumption DEF KBCommit, TypeOK, runVars
<1>18. CASE SpecEdit
  BY <1>18, PublishAssumption DEF SpecEdit, TypeOK, runVars
<1> QED
  BY <1>1, <1>2, <1>3, <1>4, <1>5, <1>6, <1>7, <1>8, <1>9, <1>10, <1>11, <1>12,
     <1>13, <1>14, <1>15, <1>16, <1>17, <1>18
     DEF Next, Start, Step, Failure, Human, World

(***************************************************************************)
(* Type correctness: every run, edit and fault leaves well-formed pages,   *)
(* records and reports.                                                    *)
(***************************************************************************)
THEOREM TypeCorrect == Spec => []TypeOK
BY InitTypeOK, NextTypeOK, PTL DEF Spec
-----------------------------------------------------------------------------
(* The recorded revision. *)

\* Id r is none, or that of a revision the curator wrote.
BotRev(r) == r # 0 => r \in 1..Len(hist) /\ hist[r].bot

(***************************************************************************)
(* The record can only be trusted together with the two ids on their way   *)
(* to it: the one a run read at its start, which a no-op writes back, and  *)
(* the one its upload returned.  RunStateRevIsBot is BotRev(rs.rev).       *)
(***************************************************************************)
RevInv == TypeOK /\ BotRev(rs.rev) /\ BotRev(last) /\ BotRev(newRev)

\* A history that grew at its end still has the revisions it had.
LEMMA BotRevGrows ==
    ASSUME hist \in Seq(Revision), NEW r \in Nat, BotRev(r),
           hist' = hist \/ \E x \in Revision : hist' = Append(hist, x)
    PROVE  BotRev(r)'
<1>1. CASE hist' = hist
  BY <1>1 DEF BotRev
<1>2. ASSUME NEW x \in Revision, hist' = Append(hist, x) PROVE BotRev(r)'
  BY <1>2 DEF BotRev
<1> QED
  BY <1>1, <1>2

\* Every step leaves the history as it is or adds one revision at its end.
LEMMA HistoryGrows ==
    ASSUME TypeOK, [Next]_vars
    PROVE  hist' = hist \/ \E x \in Revision : hist' = Append(hist, x)
<1>0. Latest \in Content /\ Rendered \in Content /\ PushedText \in Content
  BY LatestType, RunTypes DEF TypeOK
<1>1. ASSUME NEW c \in Content, UpsertPage(c)
      PROVE  hist' = hist \/ \E x \in Revision : hist' = Append(hist, x)
  <2>1. [bot |-> TRUE, content |-> c] \in Revision
    BY DEF Revision
  <2> QED
    BY <1>1, <2>1 DEF UpsertPage
<1>2. ASSUME NEW c \in Content, HumanWrites(c)
      PROVE  \E x \in Revision : hist' = Append(hist, x)
  <2>1. [bot |-> FALSE, content |-> c] \in Revision
    BY DEF Revision
  <2> QED
    BY <1>2, <2>1 DEF HumanWrites
<1>3. CASE Push \/ PushError \/ OnRendered \/ OnRenderedError
  BY <1>0, <1>1, <1>3 DEF Push, PushError, OnRendered, OnRenderedError
<1>4. CASE Human
  <2>1. Typed(Len(hist) + 1) \in Text
    BY TextTypes DEF TypeOK
  <2>2. [form |-> Latest.form, frame |-> Typed(Len(hist) + 1), blk |-> Latest.blk] \in Content
    BY <2>1, <1>0 DEF Content
  <2>3. \A b \in Blocks : WithBody(Latest, b, Typed(Len(hist) + 1)) \in Content
    BY <2>1, <1>0 DEF WithBody, Content, Block
  <2>4. ForeignPage(1) \in Content
    BY TextTypes
  <2> QED
    BY <1>2, <1>4, <2>2, <2>3, <2>4 DEF Human, HumanCreate, HumanFrame, HumanPolish
<1>5. CASE Start \/ StartDiffError \/ StartRenderError
  BY <1>5 DEF Start, StartRender, StartSkip, StartDiffError, StartRenderError, Begin
<1>6. CASE GetPage \/ GetPageForgets \/ GetPageError \/ History \/ HistoryError
  BY <1>6 DEF GetPage, GetPageForgets, Reconcile, GetPageError, History, HistoryError
<1>7. CASE Persist \/ NoOp \/ Report \/ Crash \/ World \/ UNCHANGED vars
  BY <1>7 DEF Persist, NoOp, Report, Crash, World, KBCommit, SpecEdit, vars
<1> QED
  BY <1>3, <1>4, <1>5, <1>6, <1>7 DEF Next, Step, Failure

\* An upload that returns an id has added the revision of that id.
LEMMA UpsertedIsBot ==
    ASSUME hist \in Seq(Revision), NEW c \in Content, UpsertPage(c)
    PROVE  UpsertedID # 0 => UpsertedID \in 1..Len(hist') /\ hist'[UpsertedID].bot
<1>1. CASE Target = "mediawiki"
  BY <1>1 DEF UpsertedID
<1>2. CASE Target # "mediawiki"
  <2>1. hist' = Append(hist, [bot |-> TRUE, content |-> c])
    BY <1>2 DEF UpsertPage
  <2>2. [bot |-> TRUE, content |-> c] \in Revision
    BY DEF Revision
  <2> QED
    BY <1>2, <2>1, <2>2 DEF UpsertedID
<1> QED
  BY <1>1, <1>2

\* Every step moves only ids of the curator's own revisions.
LEMMA NextRevInv == RevInv /\ [Next]_vars => RevInv'
<1> SUFFICES ASSUME RevInv, [Next]_vars PROVE RevInv'
  OBVIOUS
<1>0. TypeOK /\ TypeOK' /\ PushedText \in Content
  BY NextTypeOK, RunTypes DEF RevInv
<1>1. \A r \in Nat : BotRev(r) => BotRev(r)'
  BY <1>0, HistoryGrows, BotRevGrows DEF TypeOK
<1>2. BotRev(0)'
  BY DEF BotRev
<1>3. ASSUME \/ rs'.rev = rs.rev \/ rs'.rev = last \/ rs'.rev = newRev,
             \/ last' = last \/ last' = 0 \/ last' = rs.rev,
             \/ newRev' = newRev \/ newRev' = 0
      PROVE  RevInv'
  <2>1. rs.rev \in Nat /\ last \in Nat /\ newRev \in Nat
    BY <1>0 DEF TypeOK, SpecState
  <2>2. BotRev(rs.rev)' /\ BotRev(last)' /\ BotRev(newRev)'
    BY <1>1, <1>2, <1>3, <2>1 DEF RevInv, BotRev
  <2> QED
    BY <1>0, <2>2 DEF RevInv
<1>4. CASE Push
  <2>1. BotRev(newRev)'
    BY <1>0, <1>4, UpsertedIsBot DEF Push, BotRev, TypeOK
  <2>2. BotRev(rs.rev)' /\ BotRev(last)'
    BY <1>0, <1>1, <1>4 DEF Push, RevInv, BotRev, TypeOK, SpecState
  <2> QED
    BY <1>0, <2>1, <2>2 DEF RevInv
<1>5. CASE Persist \/ NoOp
  BY <1>3, <1>5 DEF Persist, NoOp, PersistRunState, PersistDropped
<1>6. CASE GetPage \/ GetPageForgets
  BY <1>3, <1>6 DEF GetPage, GetPageForgets, Reconcile
<1>7. CASE Start \/ StartDiffError \/ StartRenderError
  BY <1>3, <1>7 DEF Start, StartRender, StartSkip, StartDiffError, StartRenderError, Begin
<1>8. CASE GetPageError \/ History \/ HistoryError \/ PushError
  BY <1>3, <1>8 DEF GetPageError, History, HistoryError, PushError
<1>9. CASE OnRendered \/ OnRenderedError \/ Report \/ Crash
  BY <1>3, <1>9 DEF OnRendered, OnRenderedError, Report, Crash
<1>10. CASE Human \/ World \/ UNCHANGED vars
  BY <1>3, <1>10 DEF Human, HumanCreate, HumanFrame, HumanPolish, HumanWrites,
                    World, KBCommit, SpecEdit, runVars, vars
<1> QED
  BY <1>4, <1>5, <1>6, <1>7, <1>8, <1>9, <1>10 DEF Next, Step, Failure

(***************************************************************************)
(* The run-state record names a revision of the curator or none: no        *)
(* failure, crash or concurrent edit makes detectHumanEdits stop at a      *)
(* human's revision.                                                       *)
(***************************************************************************)
THEOREM RecordedRevIsBot == Spec => []RunStateRevIsBot
<1>1. Init => RevInv
  BY InitTypeOK DEF RevInv, BotRev, Init, NoState
<1>2. RevInv => RunStateRevIsBot
  BY DEF RevInv, BotRev, RunStateRevIsBot
<1> QED
  BY <1>1, <1>2, NextRevInv, PTL DEF Spec
-----------------------------------------------------------------------------
(* What people and the curator write. *)

\* The revisions of a history with one more at its end.
LEMMA Appended ==
    ASSUME NEW h \in Seq(Revision), NEW x \in Revision
    PROVE  /\ Append(h, x) \in Seq(Revision)
           /\ Len(Append(h, x)) = Len(h) + 1
           /\ Append(h, x)[Len(h) + 1] = x
           /\ \A i \in 1..Len(h) : Append(h, x)[i] = h[i] /\ h[i] \in Revision
OBVIOUS

\* What GetPage answers next: the page as it was, or the revision just added.
LEMMA LatestNext ==
    ASSUME hist \in Seq(Revision)
    PROVE  /\ hist' = hist => Latest' = Latest
           /\ \A x \in Revision : hist' = Append(hist, x) => Latest' = x.content
<1>1. hist' = hist => Latest' = Latest
  BY DEF Latest
<1>2. ASSUME NEW x \in Revision, hist' = Append(hist, x) PROVE Latest' = x.content
  <2>1. hist' # <<>> /\ Len(hist') = Len(hist) + 1 /\ hist'[Len(hist) + 1] = x
    BY <1>2, Appended
  <2> QED
    BY <2>1 DEF Latest
<1> QED
  BY <1>1, <1>2

\* Page c is page old with nothing changed but words of revision r.
HumanText(c, old, r) ==
    /\ c \in Content
    /\ c.frame = old.frame \/ c.frame = Typed(r)
    /\ \A b \in Blocks :
          /\ c.blk[b].prov = old.blk[b].prov
          /\ c.blk[b].body = old.blk[b].body \/ c.blk[b].body = Typed(r)

\* An edit adds a human revision of that kind and leaves the run alone.
LEMMA HumanShape ==
    ASSUME TypeOK, Human
    PROVE  \E c \in Content : HumanText(c, Latest, Len(hist) + 1) /\ HumanWrites(c)
<1>0. Latest \in Content /\ Typed(Len(hist) + 1) \in Text
  BY LatestType, TextTypes DEF TypeOK
<1>1. CASE HumanCreate
  <2>1. ForeignPage(1) \in Content /\ Len(hist) + 1 = 1 /\ Latest = NoPage
    BY <1>1, TextTypes DEF HumanCreate, Latest
  <2>2. HumanText(ForeignPage(1), Latest, Len(hist) + 1)
    BY <2>1 DEF HumanText, ForeignPage, NoPage
  <2> QED
    BY <1>1, <2>1, <2>2 DEF HumanCreate
<1>2. CASE HumanFrame
  <2> DEFINE c == [form |-> Latest.form, frame |-> Typed(Len(hist) + 1), blk |-> Latest.blk]
  <2>1. c \in Content
    BY <1>0 DEF Content
  <2>2. HumanText(c, Latest, Len(hist) + 1)
    BY <2>1 DEF HumanText
  <2> QED
    BY <1>2, <2>1, <2>2 DEF HumanFrame
<1>3. ASSUME NEW b \in Blocks, HumanPolish(b)
      PROVE  \E c \in Content : HumanText(c, Latest, Len(hist) + 1) /\ HumanWrites(c)
  <2> DEFINE c == WithBody(Latest, b, Typed(Len(hist) + 1))
  <2>1. c \in Content
    BY <1>0 DEF WithBody, Content, Block
  <2>2. HumanText(c, Latest, Len(hist) + 1)
    BY <2>1, <1>0 DEF HumanText, WithBody, Content, Block
  <2> QED
    BY <1>3, <2>1, <2>2 DEF HumanPolish
<1> QED
  BY <1>1, <1>2, <1>3 DEF Human

\* Page c has the blocks of the render of snapshot s: their provenances, and
\* the machine bodies.
GeneratedText(c, s) ==
    /\ c \in Content
    /\ \A b \in Blocks : c.blk[b].prov = InputHash(b, s.hash, s.kb)
    /\ \A m \in Machine : c.blk[m].body = Gen(s.hash, s.kb)

\* Merging a render into any page gives such a page.
LEMMA MergeIsGenerated ==
    ASSUME NEW c \in Content, NEW s \in [hash : Nat, kb : Nat]
    PROVE  GeneratedText(MergeBlocks(c, Render(s.hash, s.kb)), s)
<1>1. MergeBlocks(c, Render(s.hash, s.kb)) \in Content
  BY RenderType, MergeType
<1> QED
  BY <1>1 DEF GeneratedText, MergeBlocks, ChooseBody, Render, Machine

\* Both texts a run uploads are such pages.
LEMMA UploadsAreGenerated ==
    ASSUME TypeOK PROVE GeneratedText(Rendered, snap) /\ GeneratedText(PushedText, snap)
<1>1. GeneratedText(Rendered, snap)
  BY RunTypes DEF GeneratedText, Rendered, Render, Machine
<1>2. GeneratedText(PushedText, snap)
  BY <1>1, MergeIsGenerated DEF PushedText, Rendered, TypeOK
<1> QED
  BY <1>1, <1>2
-----------------------------------------------------------------------------
(* Skipping. *)

\* Revision j is the curator's last one in history h.
IsLastBot(h, j) ==
    /\ j \in 1..Len(h)
    /\ h[j].bot
    /\ \A i \in (j + 1)..Len(h) : ~h[i].bot

\* The curator's last revision has its machine blocks from kb versions lo to hi.
LastBotWithin(h, lo, hi) ==
    \E j \in 1..Len(h) :
        /\ IsLastBot(h, j)
        /\ \A m \in Machine : h[j].content.blk[m].body.kb \in lo..hi

(***************************************************************************)
(* Page c, the last of history h, was never the curator's, or its          *)
(* generated machine bodies are those of the curator's last revision:      *)
(* people type over a body and never restore one.                          *)
(***************************************************************************)
OwnText(h, c) ==
    \/ \A b \in Blocks : c.blk[b].prov.hash = 0 /\ c.blk[b].body.hash = 0
    \/ \E j \in 1..Len(h) :
          /\ IsLastBot(h, j)
          /\ \A m \in Machine :
                c.blk[m].body.hash # 0 => h[j].content.blk[m].body = c.blk[m].body

(***************************************************************************)
(* The recorded commit is no newer than the snapshot of the last run, and  *)
(* no newer than the curator's last revision.  A run that is about to      *)
(* record its commit has published it: by its upload, or because it found  *)
(* its own text on the page, which is where OwnText is needed.             *)
(***************************************************************************)
SkipInv ==
    /\ snap.kb <= kb
    /\ pc # "idle" => snap.hash # 0
    /\ OwnText(hist, Latest)
    /\ rs.commit <= snap.kb
    /\ rs.commit # 0 => LastBotWithin(hist, rs.commit, snap.kb)
    /\ pc \in {"noop", "persist"} => LastBotWithin(hist, snap.kb, snap.kb)

\* An upload makes its revision the curator's last.
LEMMA LastBotUploads ==
    ASSUME NEW h \in Seq(Revision), NEW c \in Content
    PROVE  LET h2 == Append(h, [bot |-> TRUE, content |-> c])
           IN  IsLastBot(h2, Len(h) + 1) /\ h2[Len(h) + 1].content = c /\ Len(h) + 1 \in 1..Len(h2)
<1> DEFINE x == [bot |-> TRUE, content |-> c]
<1>1. x \in Revision
  BY DEF Revision
<1>2. /\ Len(Append(h, x)) = Len(h) + 1
      /\ Append(h, x)[Len(h) + 1] = x
      /\ Len(h) \in Nat
  BY <1>1, Appended
<1> QED
  BY <1>2 DEF IsLastBot

\* An edit leaves the curator's last revision the last.
LEMMA LastBotStays ==
    ASSUME NEW h \in Seq(Revision), NEW c \in Content, NEW j \in 1..Len(h), IsLastBot(h, j)
    PROVE  LET h2 == Append(h, [bot |-> FALSE, content |-> c])
           IN  IsLastBot(h2, j) /\ h2[j] = h[j] /\ j \in 1..Len(h2)
<1> DEFINE x == [bot |-> FALSE, content |-> c]
<1>1. x \in Revision
  BY DEF Revision
<1>2. /\ Len(Append(h, x)) = Len(h) + 1
      /\ Append(h, x)[Len(h) + 1] = x
      /\ \A i \in 1..Len(h) : Append(h, x)[i] = h[i]
      /\ Len(h) \in Nat
  BY <1>1, Appended
<1>3. \A i \in (j + 1)..(Len(h) + 1) : i \in (j + 1)..Len(h) \/ i = Len(h) + 1
  BY <1>2
<1>4. \A i \in (j + 1)..Len(h) : i \in 1..Len(h)
  BY <1>2
<1> QED
  BY <1>2, <1>3, <1>4 DEF IsLastBot

\* After an upload the curator's last revision holds the run's kb version.
LEMMA UploadSkipInv ==
    ASSUME TypeOK, SkipInv, snap.hash # 0,
           NEW c, GeneratedText(c, snap), UpsertPage(c)
    PROVE  OwnText(hist', Latest') /\ LastBotWithin(hist', snap.kb, snap.kb)
<1>0. c \in Content /\ hist \in Seq(Revision) /\ snap.kb \in Nat
  BY DEF GeneratedText, TypeOK
<1>1. \A m \in Machine : m \in Blocks /\ c.blk[m].body = Gen(snap.hash, snap.kb)
  BY DEF GeneratedText, Machine
<1>2. snap.kb \in snap.kb..snap.kb
  BY <1>0
<1>3. CASE hist' = Append(hist, [bot |-> TRUE, content |-> c])
  <2>1. PICK j \in 1..Len(hist') : IsLastBot(hist', j) /\ hist'[j].content = c
    BY <1>0, <1>3, LastBotUploads
  <2>2. Latest' = c
    <3>1. [bot |-> TRUE, content |-> c] \in Revision
      BY <1>0 DEF Revision
    <3> QED
      BY <1>0, <1>3, <3>1, LatestNext
  <2>3. OwnText(hist', Latest')
    BY <2>1, <2>2 DEF OwnText
  <2>4. LastBotWithin(hist', snap.kb, snap.kb)
    BY <1>1, <1>2, <2>1 DEF LastBotWithin, Gen
  <2> QED
    BY <2>3, <2>4
<1>4. CASE hist' = hist /\ Latest = c
  <2>1. PICK b \in Blocks : TRUE
    BY ContentAssumption
  <2>2. Latest.blk[b].prov.hash # 0
    <3>1. Latest.blk[b].prov = InputHash(b, snap.hash, snap.kb)
      BY <1>4 DEF GeneratedText
    <3>2. InputHash(b, snap.hash, snap.kb).hash = snap.hash
      BY DEF InputHash
    <3> QED
      BY <3>1, <3>2
  <2>3. PICK j \in 1..Len(hist) :
            /\ IsLastBot(hist, j)
            /\ \A m \in Machine :
                Latest.blk[m].body.hash # 0 => hist[j].content.blk[m].body = Latest.blk[m].body
    BY <2>1, <2>2 DEF SkipInv, OwnText
  <2>4. \A m \in Machine : hist[j].content.blk[m].body.kb = snap.kb
    BY <1>1, <1>4, <2>3 DEF Gen
  <2>5. LastBotWithin(hist, snap.kb, snap.kb)
    BY <1>2, <2>3, <2>4 DEF LastBotWithin
  <2>6. Latest' = Latest
    BY <1>0, <1>4, LatestNext
  <2> QED
    BY <1>4, <2>5, <2>6 DEF SkipInv
<1> QED
  BY <1>3, <1>4 DEF UpsertPage

\* A no-op found the run's kb version in the curator's last revision.
LEMMA NoOpSkipInv ==
    ASSUME TypeOK, SkipInv, snap.hash # 0, MergeBlocks(Latest, Rendered) = Latest
    PROVE  LastBotWithin(hist, snap.kb, snap.kb)
<1>0. Latest \in Content /\ snap.kb \in Nat
  BY LatestType DEF TypeOK
<1>1. GeneratedText(Latest, snap)
  BY <1>0, MergeIsGenerated DEF Rendered, TypeOK
<1>2. PICK b \in Blocks : TRUE
  BY ContentAssumption
<1>3. Latest.blk[b].prov.hash # 0
  <2>1. Latest.blk[b].prov = InputHash(b, snap.hash, snap.kb)
    BY <1>1 DEF GeneratedText
  <2>2. InputHash(b, snap.hash, snap.kb).hash = snap.hash
    BY DEF InputHash
  <2> QED
    BY <2>1, <2>2
<1>4. PICK j \in 1..Len(hist) :
          /\ IsLastBot(hist, j)
          /\ \A m \in Machine :
                Latest.blk[m].body.hash # 0 => hist[j].content.blk[m].body = Latest.blk[m].body
  BY <1>2, <1>3 DEF SkipInv, OwnText
<1>5. \A m \in Machine : hist[j].content.blk[m].body.kb = snap.kb
  BY <1>1, <1>4 DEF GeneratedText, Gen
<1>6. snap.kb \in snap.kb..snap.kb
  BY <1>0
<1> QED
  BY <1>4, <1>5, <1>6 DEF LastBotWithin

\* An edit changes neither the curator's last revision nor what it holds.
LEMMA HumanSkipInv ==
    ASSUME TypeOK, SkipInv, Human PROVE SkipInv'
<1>1. PICK c \in Content : HumanText(c, Latest, Len(hist) + 1) /\ HumanWrites(c)
  BY HumanShape
<1>2. hist \in Seq(Revision) /\ hist' = Append(hist, [bot |-> FALSE, content |-> c])
  BY <1>1 DEF HumanWrites, TypeOK
<1>3. [bot |-> FALSE, content |-> c] \in Revision
  BY DEF Revision
<1>4. Latest' = c
  BY <1>2, <1>3, LatestNext
<1>5. \A j \in 1..Len(hist) :
          IsLastBot(hist, j) => IsLastBot(hist', j) /\ hist'[j] = hist[j] /\ j \in 1..Len(hist')
  BY <1>2, LastBotStays
<1>6. OwnText(hist', Latest')
  <2>1. CASE \A b \in Blocks : Latest.blk[b].prov.hash = 0 /\ Latest.blk[b].body.hash = 0
    BY <1>1, <1>4, <2>1 DEF HumanText, OwnText, Typed
  <2>2. ASSUME NEW j \in 1..Len(hist), IsLastBot(hist, j),
               \A m \in Machine :
                  Latest.blk[m].body.hash # 0 => hist[j].content.blk[m].body = Latest.blk[m].body
        PROVE  OwnText(hist', Latest')
    <3>1. \A m \in Machine : c.blk[m].body.hash # 0 => c.blk[m].body = Latest.blk[m].body
      BY <1>1 DEF HumanText, Typed, Machine
    <3> QED
      BY <1>4, <1>5, <2>2, <3>1 DEF OwnText
  <2> QED
    BY <2>1, <2>2 DEF SkipInv, OwnText
<1>7. \A lo, hi \in Nat : LastBotWithin(hist, lo, hi) => LastBotWithin(hist', lo, hi)
  BY <1>5 DEF LastBotWithin
<1>8. UNCHANGED <<kb, rs, snap, pc>>
  BY <1>1 DEF HumanWrites, world, runVars
<1>9. rs.commit \in Nat /\ snap.kb \in Nat
  BY DEF TypeOK, SpecState
<1> QED
  BY <1>6, <1>7, <1>8, <1>9 DEF SkipInv

\* Raising the upper bound.
LEMMA WithinWidens ==
    ASSUME NEW h, NEW lo \in Nat, NEW hi \in Nat, NEW hi2 \in Nat, hi <= hi2,
           LastBotWithin(h, lo, hi)
    PROVE  LastBotWithin(h, lo, hi2)
<1>1. lo..hi \subseteq lo..hi2
  OBVIOUS
<1> QED
  BY <1>1 DEF LastBotWithin

\* Lowering the lower bound.
LEMMA WithinDeepens ==
    ASSUME NEW h, NEW lo \in Nat, NEW hi \in Nat, NEW lo2 \in Nat, lo2 <= lo,
           LastBotWithin(h, lo, hi)
    PROVE  LastBotWithin(h, lo2, hi)
<1>1. lo..hi \subseteq lo2..hi
  OBVIOUS
<1> QED
  BY <1>1 DEF LastBotWithin

\* Every step keeps the record behind the page.
LEMMA NextSkipInv == TypeOK /\ SkipInv /\ [Next]_vars => SkipInv'
<1> SUFFICES ASSUME TypeOK, SkipInv, [Next]_vars PROVE SkipInv'
  OBVIOUS
<1>0. /\ hist \in Seq(Revision) /\ rs.commit \in Nat /\ snap.kb \in Nat
      /\ kb \in Nat /\ hash \in Nat \ {0}
  BY PublishAssumption DEF TypeOK, SpecState
<1>1. hist' = hist => Latest' = Latest
  BY <1>0, LatestNext
<1>2. CASE Human
  BY <1>2, HumanSkipInv
<1>3. CASE Start \/ StartDiffError \/ StartRenderError
  <2>1. /\ pc' \in {"get", "report"}
        /\ snap' = [hash |-> hash, kb |-> kb]
        /\ UNCHANGED <<kb, hash, hist, rs>>
    BY <1>3 DEF Start, StartRender, StartSkip, StartDiffError, StartRenderError, Begin, world
  <2>2. rs.commit # 0 => LastBotWithin(hist, rs.commit, kb)
    BY <1>0, WithinWidens DEF SkipInv
  <2> QED
    BY <1>0, <1>1, <2>1, <2>2 DEF SkipInv
<1>4. CASE GetPage \/ GetPageForgets
  <2>1. /\ pc = "get" /\ UNCHANGED <<kb, hist, rs, snap>>
        /\ pc' = "noop" => MergeBlocks(Latest, Rendered) = Latest
        /\ pc' \in {"push", "noop", "history"}
    BY <1>4 DEF GetPage, GetPageForgets, Reconcile, world
  <2>2. pc' = "noop" => LastBotWithin(hist, snap.kb, snap.kb)
    BY <2>1, NoOpSkipInv DEF SkipInv
  <2> QED
    BY <1>1, <2>1, <2>2 DEF SkipInv
<1>5. CASE Push \/ PushError \/ OnRendered \/ OnRenderedError
  <2>1. /\ pc # "idle" /\ UNCHANGED <<kb, rs, snap>> /\ pc' \in {"persist", "report"}
        /\ pc' = "persist" => Push
    BY <1>5 DEF Push, PushError, OnRendered, OnRenderedError, FailTo, world
  <2>2. snap.hash # 0
    BY <2>1 DEF SkipInv
  <2>3. ASSUME NEW c, GeneratedText(c, snap), UpsertPage(c) PROVE SkipInv'
    <3>1. OwnText(hist', Latest') /\ LastBotWithin(hist', snap.kb, snap.kb)
      BY <2>2, <2>3, UploadSkipInv
    <3>2. rs.commit <= snap.kb
      BY DEF SkipInv
    <3>3. LastBotWithin(hist', rs.commit, snap.kb)
      BY <1>0, <3>1, <3>2, WithinDeepens
    <3> QED
      BY <2>1, <3>1, <3>3 DEF SkipInv
  <2>4. CASE hist' = hist /\ ~Push
    BY <1>1, <2>1, <2>4 DEF SkipInv
  <2> QED
    BY <1>5, <2>3, <2>4, UploadsAreGenerated DEF Push, PushError, OnRendered, OnRenderedError
<1>6. CASE Persist \/ NoOp
  <2>1. /\ pc \in {"noop", "persist"} /\ pc' = "sink" /\ UNCHANGED <<kb, hist, snap>>
        /\ rs' = rs \/ rs'.commit = Commit(snap.kb)
    BY <1>6 DEF Persist, NoOp, PersistRunState, PersistDropped, world
  <2>2. LastBotWithin(hist, snap.kb, snap.kb)
    BY <2>1 DEF SkipInv
  <2>3. rs'.commit = rs.commit \/ rs'.commit = snap.kb \/ rs'.commit = 0
    BY <2>1 DEF Commit
  <2> QED
    BY <1>0, <1>1, <2>1, <2>2, <2>3 DEF SkipInv
<1>7. CASE GetPageError \/ History \/ HistoryError \/ Report \/ Crash
  <2>1. pc # "idle" /\ pc' \in {"report", "push", "idle"} /\ UNCHANGED <<kb, hist, rs, snap>>
    BY <1>7 DEF GetPageError, History, HistoryError, Report, Crash, FailTo, world
  <2> QED
    BY <1>1, <2>1 DEF SkipInv
<1>8. CASE World \/ UNCHANGED vars
  <2>1. UNCHANGED <<hist, rs, snap, pc>> /\ kb <= kb'
    BY <1>0, <1>8 DEF World, KBCommit, SpecEdit, runVars, vars
  <2>2. snap.kb <= kb'
    BY <1>0, <2>1, NextTypeOK DEF SkipInv, TypeOK
  <2> QED
    BY <1>1, <2>1, <2>2 DEF SkipInv
<1> QED
  BY <1>2, <1>3, <1>4, <1>5, <1>6, <1>7, <1>8 DEF Next, Step, Failure

(***************************************************************************)
(* diffDrivenSkip is sound: whenever the recorded commit makes the next    *)
(* run skip the spec, the curator's last revision holds the current kb,    *)
(* for every target and sink, however uploads fail, cache writes are       *)
(* dropped, processes die and edits and commits land during a run.         *)
(***************************************************************************)
THEOREM SkippingIsSound == Spec => []SkipIsSound
<1>1. Init => SkipInv
  BY DEF Init, SkipInv, OwnText, Latest, NoPage, NoBlock, NoProv, Gen, NoState
<1>2. TypeOK /\ SkipInv => SkipIsSound
  <2> SUFFICES ASSUME TypeOK, SkipInv, DiffDrivenSkip(rs, kb)
               PROVE  \E j \in 1..Len(hist) :
                          /\ hist[j].bot
                          /\ \A i \in (j + 1)..Len(hist) : ~hist[i].bot
                          /\ \A m \in Machine : hist[j].content.blk[m].body.kb = kb
    BY DEF SkipIsSound
  <2>0. rs.commit \in Nat /\ snap.kb \in Nat /\ kb \in Nat
    BY PublishAssumption DEF TypeOK, SpecState
  <2>1. rs.commit # 0 /\ rs.commit = kb
    BY DEF DiffDrivenSkip, Commit
  <2>2. rs.commit = kb /\ snap.kb = kb
    BY <2>0, <2>1 DEF SkipInv
  <2>3. LastBotWithin(hist, kb, kb)
    BY <2>1, <2>2 DEF SkipInv
  <2>4. \A n \in kb..kb : n = kb
    BY <2>0
  <2> QED
    BY <2>3, <2>4 DEF LastBotWithin, IsLastBot
<1> QED
  BY <1>1, <1>2, NextSkipInv, InitTypeOK, NextTypeOK, PTL DEF Spec
-----------------------------------------------------------------------------
(* Freshness. *)

(***************************************************************************)
(* A tracked block of page c holds human words or what its provenance      *)
(* names.  This is why keeping the body of a block whose provenance did    *)
(* not move keeps it fresh.                                                *)
(***************************************************************************)
Honest(c) ==
    \A t \in Tracked :
        \/ c.blk[t].body.human # 0
        \/ c.blk[t].body = Gen(c.blk[t].prov.hash, c.blk[t].prov.kb)

\* The steps of a run after which the page holds what the run generated.
Settled == pc \in {"noop", "persist", "sink"} \/ Finished

(***************************************************************************)
(* The inductive invariant: the pages a run sees and leaves are honest,    *)
(* and from its upload or no-op on the page has the blocks of its render,  *)
(* unless a person saved it since the run began.                           *)
(***************************************************************************)
PageInv ==
    /\ base <= Len(hist)
    /\ Honest(Latest)
    /\ Honest(current)
    /\ (Settled /\ Undisturbed) => GeneratedText(Latest, snap)

\* Renders are honest, and merging them into honest pages gives honest pages.
LEMMA HonestUploads ==
    ASSUME NEW c \in Content, Honest(c), NEW s \in [hash : Nat, kb : Nat]
    PROVE  /\ Honest(Render(s.hash, s.kb))
           /\ Honest(MergeBlocks(c, Render(s.hash, s.kb)))
<1> DEFINE new == Render(s.hash, s.kb)
<1>0. \A t \in Tracked : t \in Blocks /\ t \in Editorial
  BY ContentAssumption
<1>1. \A t \in Tracked : /\ new.blk[t].body = Gen(s.hash, s.kb)
                         /\ new.blk[t].prov.hash = s.hash
                         /\ new.blk[t].prov.kb = s.kb
  BY <1>0 DEF Render, InputHash
<1>2. Honest(new)
  BY <1>1 DEF Honest
<1>3. ASSUME NEW t \in Tracked
      PROVE  LET x == MergeBlocks(c, new).blk[t]
             IN  x.body.human # 0 \/ x.body = Gen(x.prov.hash, x.prov.kb)
  <2>1. /\ MergeBlocks(c, new).blk[t].prov = new.blk[t].prov
        /\ MergeBlocks(c, new).blk[t].body = ChooseBody(t, c, new)
    BY <1>0 DEF MergeBlocks
  <2>2. CASE c.blk[t].prov = new.blk[t].prov /\ ChooseBody(t, c, new) = c.blk[t].body
    BY <2>1, <2>2 DEF Honest
  <2>3. CASE ChooseBody(t, c, new) = new.blk[t].body
    BY <2>1, <2>3, <1>2 DEF Honest
  <2> QED
    BY <2>2, <2>3 DEF ChooseBody
<1> QED
  BY <1>2, <1>3 DEF Honest

\* An honest page with the blocks of a render is fresh.
LEMMA HonestIsFresh ==
    ASSUME NEW c, NEW s, Honest(c), GeneratedText(c, s)
    PROVE  /\ \A m \in Machine : c.blk[m].body = Gen(s.hash, s.kb)
           /\ \A t \in Tracked : c.blk[t].body.human # 0 \/ c.blk[t].body = Gen(s.hash, s.kb)
<1>1. \A t \in Tracked : c.blk[t].prov = InputHash(t, s.hash, s.kb)
  BY ContentAssumption DEF GeneratedText
<1>2. \A t \in Tracked : /\ InputHash(t, s.hash, s.kb).hash = s.hash
                         /\ InputHash(t, s.hash, s.kb).kb = s.kb
  BY DEF InputHash
<1> QED
  BY <1>1, <1>2 DEF Honest, GeneratedText

\* An edit keeps a page honest.
LEMMA HonestHumans ==
    ASSUME NEW c, NEW old, NEW r \in Nat \ {0}, HumanText(c, old, r), Honest(old)
    PROVE  Honest(c)
<1>1. \A t \in Tracked : t \in Blocks
  BY ContentAssumption
<1>2. Typed(r).human # 0
  BY DEF Typed
<1> QED
  BY <1>1, <1>2 DEF HumanText, Honest

\* After an upload the page is the uploaded text.
LEMMA UploadedIsLatest ==
    ASSUME hist \in Seq(Revision), NEW c \in Content, UpsertPage(c)
    PROVE  Latest' = c
<1>1. [bot |-> TRUE, content |-> c] \in Revision
  BY DEF Revision
<1> QED
  BY <1>1, LatestNext DEF UpsertPage

\* An edit disturbs the run; an upload does not hide an edit.
LEMMA Disturbs ==
    ASSUME TypeOK, base <= Len(hist), base' = base
    PROVE  /\ Human => ~Undisturbed'
           /\ Undisturbed' /\ [Next]_vars => Undisturbed
           /\ [Next]_vars => Len(hist) <= Len(hist')
           /\ [Next]_vars => \A i \in 1..Len(hist) : hist'[i] = hist[i]
<1>0. hist \in Seq(Revision) /\ base \in Nat /\ Len(hist) \in Nat
  BY DEF TypeOK
<1>1. ASSUME Human PROVE ~Undisturbed'
  <2>1. PICK c \in Content : HumanWrites(c)
    BY <1>1, HumanShape
  <2>2. [bot |-> FALSE, content |-> c] \in Revision
    BY DEF Revision
  <2>3. Len(hist') = Len(hist) + 1 /\ ~hist'[Len(hist) + 1].bot
    BY <1>0, <2>1, <2>2, Appended DEF HumanWrites
  <2>4. Len(hist) + 1 \in (base' + 1)..Len(hist')
    BY <1>0, <2>3
  <2> QED
    BY <2>3, <2>4 DEF Undisturbed
<1>2. ASSUME [Next]_vars
      PROVE  Len(hist) <= Len(hist') /\ \A i \in 1..Len(hist) : hist'[i] = hist[i]
  <2>1. CASE hist' = hist
    BY <1>0, <2>1
  <2>2. ASSUME NEW x \in Revision, hist' = Append(hist, x)
        PROVE  Len(hist) <= Len(hist') /\ \A i \in 1..Len(hist) : hist'[i] = hist[i]
    BY <1>0, <2>2, Appended
  <2> QED
    BY <1>2, <2>1, <2>2, HistoryGrows
<1>3. ASSUME Undisturbed', [Next]_vars PROVE Undisturbed
  <2> SUFFICES ASSUME NEW i \in (base + 1)..Len(hist) PROVE hist[i].bot
    BY DEF Undisturbed
  <2>1. Len(hist') \in Nat
    BY <1>3, NextTypeOK DEF TypeOK
  <2>2. i \in 1..Len(hist) /\ i \in (base' + 1)..Len(hist')
    BY <1>0, <1>2, <1>3, <2>1
  <2> QED
    BY <1>2, <1>3, <2>2 DEF Undisturbed
<1> QED
  BY <1>1, <1>2, <1>3

\* Every step keeps the pages honest and the run's page its own.
LEMMA NextPageInv == TypeOK /\ PageInv /\ [Next]_vars => PageInv'
<1> SUFFICES ASSUME TypeOK, PageInv, [Next]_vars PROVE PageInv'
  OBVIOUS
<1>0. /\ hist \in Seq(Revision) /\ base \in Nat /\ Len(hist) \in Nat /\ Len(hist') \in Nat
      /\ Latest \in Content /\ current \in Content /\ snap \in [hash : Nat, kb : Nat]
  BY NextTypeOK, LatestType DEF TypeOK
<1>1. hist' = hist => Latest' = Latest
  BY <1>0, LatestNext
<1>2. Honest(NoPage)
  BY ContentAssumption DEF Honest, NoPage, NoBlock, NoProv, Gen
<1>3. CASE Human
  <2>1. PICK c \in Content : HumanText(c, Latest, Len(hist) + 1) /\ HumanWrites(c)
    BY <1>3, HumanShape
  <2>2. [bot |-> FALSE, content |-> c] \in Revision
    BY DEF Revision
  <2>3. Latest' = c /\ UNCHANGED <<base, current>> /\ Len(hist') = Len(hist) + 1
    BY <1>0, <2>1, <2>2, LatestNext, Appended DEF HumanWrites, runVars
  <2>4. Honest(Latest')
    BY <1>0, <2>1, <2>3, HonestHumans DEF PageInv
  <2>5. ~Undisturbed'
    BY <1>3, <2>3, Disturbs DEF PageInv
  <2> QED
    BY <1>0, <2>3, <2>4, <2>5 DEF PageInv
<1>4. CASE Start \/ StartDiffError \/ StartRenderError
  <2>1. /\ pc' = "get" \/ (pc' = "report" /\ status' \in {"Skipped", "Failed"})
        /\ current' = NoPage /\ base' = Len(hist) /\ hist' = hist
    BY <1>4 DEF Start, StartRender, StartSkip, StartDiffError, StartRenderError, Begin
  <2>2. ~Settled'
    BY <2>1 DEF Settled, Finished
  <2> QED
    BY <1>0, <1>1, <1>2, <2>1, <2>2 DEF PageInv
<1>5. CASE GetPage \/ GetPageForgets
  <2>1. /\ UNCHANGED <<hist, base, snap>> /\ current' = Latest
        /\ pc' \in {"push", "history", "noop"}
        /\ pc' = "noop" => MergeBlocks(Latest, Rendered) = Latest
    BY <1>5 DEF GetPage, GetPageForgets, Reconcile
  <2>2. MergeBlocks(Latest, Rendered) = Latest => GeneratedText(Latest, snap)
    BY <1>0, MergeIsGenerated DEF Rendered
  <2>3. Settled' => pc' = "noop"
    BY <2>1 DEF Settled, Finished
  <2> QED
    BY <1>1, <2>1, <2>2, <2>3 DEF PageInv
<1>6. CASE Push \/ PushError \/ OnRendered \/ OnRenderedError
  <2>1. UNCHANGED <<base, current, snap>>
    BY <1>6 DEF Push, PushError, OnRendered, OnRenderedError
  <2>2. Len(hist) <= Len(hist')
    BY <2>1, Disturbs DEF PageInv
  <2>3. ASSUME NEW c, GeneratedText(c, snap), Honest(c), UpsertPage(c) PROVE PageInv'
    <3>1. Latest' = c
      BY <1>0, <2>3, UploadedIsLatest DEF GeneratedText
    <3> QED
      BY <1>0, <2>1, <2>2, <2>3, <3>1 DEF PageInv
  <2>4. Honest(Rendered) /\ Honest(PushedText)
    BY <1>0, HonestUploads DEF Rendered, PushedText, PageInv
  <2>5. CASE hist' = hist /\ OnRendered
    <3>1. pc = "sink" /\ UNCHANGED status
      BY <2>5 DEF OnRendered
    <3>2. Undisturbed' => Undisturbed
      BY <2>1, <2>5 DEF Undisturbed
    <3> QED
      BY <1>1, <2>1, <2>5, <3>1, <3>2 DEF PageInv, Settled
  <2>6. CASE hist' = hist /\ (PushError \/ OnRenderedError)
    <3>1. pc' = "report" /\ status' = "Failed"
      BY <2>6 DEF PushError, OnRenderedError, FailTo
    <3>2. ~Settled'
      BY <3>1 DEF Settled, Finished
    <3> QED
      BY <1>1, <2>1, <2>6, <3>2 DEF PageInv
  <2> QED
    BY <1>6, <2>3, <2>4, <2>5, <2>6, UploadsAreGenerated
       DEF Push, PushError, OnRendered, OnRenderedError
<1>7. CASE Persist \/ NoOp
  <2>1. /\ pc \in {"noop", "persist"} /\ pc' = "sink"
        /\ UNCHANGED <<hist, snap, base, current>>
    BY <1>7 DEF Persist, NoOp
  <2>2. Undisturbed' => Undisturbed
    BY <2>1 DEF Undisturbed
  <2> QED
    BY <1>1, <2>1, <2>2 DEF PageInv, Settled
<1>8. CASE GetPageError \/ History \/ HistoryError \/ Report \/ Crash
  <2>1. /\ UNCHANGED <<hist, base, current>>
        /\ pc' \in {"push", "idle"} \/ (pc' = "report" /\ status' = "Failed")
    BY <1>8 DEF GetPageError, History, HistoryError, Report, Crash, FailTo
  <2>2. ~Settled'
    BY <2>1 DEF Settled, Finished
  <2> QED
    BY <1>1, <2>1, <2>2 DEF PageInv
<1>9. CASE World \/ UNCHANGED vars
  <2>1. UNCHANGED <<hist, base, current, snap, pc, status>>
    BY <1>9 DEF World, KBCommit, SpecEdit, runVars, vars
  <2>2. (Undisturbed' => Undisturbed) /\ (Settled' => Settled)
    BY <2>1 DEF Undisturbed, Settled, Finished
  <2> QED
    BY <1>1, <2>1, <2>2 DEF PageInv
<1> QED
  BY <1>3, <1>4, <1>5, <1>6, <1>7, <1>8, <1>9 DEF Next, Step, Failure

\* The first state.
LEMMA InitPageInv == Init => PageInv
<1> SUFFICES ASSUME Init PROVE PageInv
  OBVIOUS
<1>1. Honest(NoPage)
  BY ContentAssumption DEF Honest, NoPage, NoBlock, NoProv, Gen
<1> QED
  BY <1>1 DEF Init, PageInv, Latest, Settled, Finished

(***************************************************************************)
(* A run that finishes leaves a fresh page: machine blocks hold what its   *)
(* snapshot generates, tracked editorial blocks that or human words, also  *)
(* when the reconciler answered no-op, for every target and sink.          *)
(***************************************************************************)
THEOREM FinishedRunsAreFresh == Spec => []FinishedRunIsFresh
<1>1. PageInv => FinishedRunIsFresh
  BY HonestIsFresh DEF PageInv, FinishedRunIsFresh, Settled
<1> QED
  BY <1>1, InitPageInv, NextPageInv, InitTypeOK, NextTypeOK, PTL DEF Spec
-----------------------------------------------------------------------------
(* Polish. *)

\* Page c has the bodies of page old in the editorial blocks whose provenance
\* the render repeats.
Kept(old, c, new) ==
    \A b \in Editorial :
        (old.blk[b].prov # NoProv /\ old.blk[b].prov = new.blk[b].prov)
        => c.blk[b].body = old.blk[b].body

(***************************************************************************)
(* While nobody saves the page during a run, the page the run found is the *)
(* one it reads, and the one it merges into; its upload keeps the polish.  *)
(* One upload per run is essential: a second one, of the raw render, does  *)
(* not (run SinkOverwritesPolish).                                         *)
(***************************************************************************)
PolishInv ==
    Undisturbed =>
        /\ pc \in {"get", "history", "push", "noop"} => Len(hist) = base
        /\ pc \in {"history", "push"} => current = Latest
        /\ (pc # "idle" /\ base > 0) => Kept(hist[base].content, Latest, Rendered)

\* The text a run uploads keeps the polish of the page it read.
LEMMA UploadKeeps ==
    ASSUME TypeOK PROVE Kept(current, PushedText, Rendered)
<1>1. CASE current = NoPage
  BY <1>1, ContentAssumption DEF Kept, NoPage, NoBlock
<1>2. CASE current # NoPage
  BY <1>2, ContentAssumption DEF Kept, PushedText, MergeBlocks, ChooseBody
<1> QED
  BY <1>1, <1>2

\* Without the wiki sink, every step keeps the polish.
LEMMA NextPolishInv ==
    ASSUME Sink # "wiki"
    PROVE  TypeOK /\ PageInv /\ PolishInv /\ [Next]_vars => PolishInv'
<1> SUFFICES ASSUME TypeOK, PageInv, PolishInv, [Next]_vars, Undisturbed' PROVE PolishInv'
  BY DEF PolishInv
<1>0. /\ hist \in Seq(Revision) /\ base \in Nat /\ Len(hist) \in Nat
      /\ base <= Len(hist) /\ PushedText \in Content
  BY RunTypes DEF TypeOK, PageInv
<1>1. hist' = hist => Latest' = Latest
  BY <1>0, LatestNext
<1>2. base' = base => Undisturbed /\ ~Human
  BY <1>0, Disturbs
<1>3. ASSUME UNCHANGED <<hist, base, snap>>,
             pc' = pc \/ pc' \in {"persist", "sink", "report", "idle"},
             pc # "idle" \/ pc' = "idle",
             pc' \in {"history", "push"} => current' = current
      PROVE  PolishInv'
  <2>1. Rendered' = Rendered /\ Latest' = Latest /\ Undisturbed
    BY <1>1, <1>2, <1>3 DEF Rendered
  <2> QED
    BY <1>3, <2>1 DEF PolishInv
<1>4. CASE Human
  <2>1. base' = base
    BY <1>4 DEF Human, HumanCreate, HumanFrame, HumanPolish, HumanWrites
  <2> QED
    BY <1>2, <1>4, <2>1
<1>5. CASE Start \/ StartDiffError \/ StartRenderError
  <2>1. pc' \in {"get", "report"} /\ base' = Len(hist) /\ hist' = hist
    BY <1>5 DEF Start, StartRender, StartSkip, StartDiffError, StartRenderError, Begin
  <2>2. base' > 0 => Latest' = hist'[base'].content
    BY <1>0, <1>1, <2>1 DEF Latest
  <2>3. base' > 0 => Kept(hist'[base'].content, Latest', Rendered')
    BY <2>2 DEF Kept
  <2> QED
    BY <2>1, <2>3 DEF PolishInv
<1>6. CASE GetPage \/ GetPageForgets
  <2>1. /\ pc = "get" /\ pc' \in {"push", "history", "noop"}
        /\ current' = Latest /\ UNCHANGED <<hist, base, snap>>
    BY <1>6 DEF GetPage, GetPageForgets, Reconcile
  <2>2. Rendered' = Rendered /\ Latest' = Latest /\ Undisturbed
    BY <1>1, <1>2, <2>1 DEF Rendered
  <2> QED
    BY <2>1, <2>2 DEF PolishInv
<1>7. CASE (Push \/ PushError) /\ UpsertPage(PushedText)
  <2>1. pc = "push" /\ pc' \in {"persist", "report"} /\ UNCHANGED <<base, snap>>
    BY <1>7 DEF Push, PushError, FailTo
  <2>2. Latest' = PushedText
    BY <1>0, <1>7, UploadedIsLatest
  <2>3. Rendered' = Rendered /\ Undisturbed
    BY <1>2, <2>1 DEF Rendered
  <2>4. current = Latest /\ Len(hist) = base
    BY <2>1, <2>3 DEF PolishInv
  <2>5. base > 0 => hist'[base] = hist[base] /\ hist[base].content = current
    BY <1>0, <2>1, <2>4, Disturbs DEF Latest
  <2>6. base > 0 => Kept(hist'[base].content, Latest', Rendered')
    BY <2>2, <2>3, <2>5, UploadKeeps
  <2> QED
    BY <2>1, <2>6 DEF PolishInv
<1>8. CASE PushError /\ UNCHANGED hist
  <2>1. pc = "push" /\ pc' = "report" /\ UNCHANGED <<hist, base, snap>>
    BY <1>8 DEF PushError, FailTo
  <2> QED
    BY <1>3, <2>1
<1>9. CASE OnRendered \/ OnRenderedError
  <2>1. pc = "sink" /\ pc' = "report" /\ UNCHANGED <<hist, base, snap>>
    BY <1>9 DEF OnRendered, OnRenderedError, FailTo
  <2> QED
    BY <1>3, <2>1
<1>10. CASE Persist \/ NoOp \/ GetPageError \/ HistoryError
  <2>1. pc # "idle" /\ pc' \in {"sink", "report"} /\ UNCHANGED <<hist, base, snap>>
    BY <1>10 DEF Persist, NoOp, GetPageError, HistoryError, FailTo
  <2> QED
    BY <1>3, <2>1
<1>11. CASE History
  <2>1. pc = "history" /\ pc' = "push" /\ UNCHANGED <<hist, base, snap, current>>
    BY <1>11 DEF History
  <2>2. Rendered' = Rendered /\ Latest' = Latest /\ Undisturbed
    BY <1>1, <1>2, <2>1 DEF Rendered
  <2> QED
    BY <2>1, <2>2 DEF PolishInv
<1>12. CASE Report \/ Crash
  <2>1. pc' = "idle" /\ UNCHANGED <<hist, base, snap>>
    BY <1>12 DEF Report, Crash
  <2> QED
    BY <1>3, <2>1
<1>13. CASE World \/ UNCHANGED vars
  <2>1. UNCHANGED <<hist, base, snap, pc, current>>
    BY <1>13 DEF World, KBCommit, SpecEdit, runVars, vars
  <2>2. Rendered' = Rendered /\ Latest' = Latest /\ Undisturbed
    BY <1>1, <1>2, <2>1 DEF Rendered
  <2> QED
    BY <2>1, <2>2 DEF PolishInv
<1> QED
  BY <1>4, <1>5, <1>6, <1>7, <1>8, <1>9, <1>10, <1>11, <1>12, <1>13
     DEF Next, Step, Failure, Push, PushError

(***************************************************************************)
(* Human polish survives a run, whatever fails in it, when the OnRendered  *)
(* sink does not upload to the wiki: a run with --out, or the markdown     *)
(* target.                                                                 *)
(***************************************************************************)
THEOREM PolishSurvives ==
    ASSUME Sink # "wiki"
    PROVE  Spec => []PolishSurvivesRun
<1>1. Init => PolishInv
  BY DEF Init, PolishInv
<1>2. TypeOK /\ PageInv /\ PolishInv => PolishSurvivesRun
  BY DEF PolishInv, PolishSurvivesRun, Kept
<1>3. TypeOK /\ PageInv /\ PolishInv /\ [Next]_vars => PolishInv'
  BY NextPolishInv
<1> QED
  BY <1>1, <1>2, <1>3, InitPageInv, NextPageInv, InitTypeOK, NextTypeOK, PTL DEF Spec
-----------------------------------------------------------------------------
(* Removed edits. *)

\* The words on page c are of revisions up to n.
WordsUpTo(c, n) ==
    c.frame.human <= n /\ \A b \in Blocks : c.blk[b].body.human <= n

\* No revision has words of a later one, so what an upload removes is older
\* than the upload.
WordsInv ==
    /\ \A k \in 1..Len(hist) : WordsUpTo(hist[k].content, k)
    /\ WordsUpTo(current, Len(hist))

(***************************************************************************)
(* Until the last upload of a run, every human revision since the curator's*)
(* last one is named or in the window; afterwards, every one that a later  *)
(* upload can have removed.                                                *)
(***************************************************************************)
NamedInv ==
    last # 0 =>
        /\ (pc \in {"push", "persist"} \/ (pc = "sink" /\ status = "Rendered")) =>
              \A i \in (last + 1)..Len(hist) : ~hist[i].bot => i \in humans \cup late
        /\ (pc = "report" /\ status = "Rendered") =>
              \A i \in (last + 1)..Len(hist) : \A j \in (i + 1)..Len(hist) :
                  (~hist[i].bot /\ hist[j].bot) => i \in humans \cup late

\* Words up to n are words up to a later revision.
LEMMA WordsWiden ==
    ASSUME NEW c \in Content, NEW n \in Nat, NEW k \in Nat, n <= k, WordsUpTo(c, n)
    PROVE  WordsUpTo(c, k)
BY DEF WordsUpTo, Content, Text, Block

\* A merge has no words but those of the page it merged into.
LEMMA MergeWords ==
    ASSUME NEW c \in Content, NEW n \in Nat, WordsUpTo(c, n), NEW s \in [hash : Nat, kb : Nat]
    PROVE  /\ WordsUpTo(Render(s.hash, s.kb), n)
           /\ WordsUpTo(MergeBlocks(c, Render(s.hash, s.kb)), n)
BY DEF WordsUpTo, Render, MergeBlocks, ChooseBody, Gen

\* The page has words of its revisions only.
LEMMA LatestWords ==
    ASSUME TypeOK, WordsInv PROVE WordsUpTo(Latest, Len(hist))
<1>0. hist \in Seq(Revision) /\ Len(hist) \in Nat
  BY DEF TypeOK
<1>1. CASE hist = <<>>
  BY <1>0, <1>1 DEF Latest, NoPage, NoBlock, Gen, WordsUpTo
<1>2. CASE hist # <<>>
  <2>1. Len(hist) \in 1..Len(hist)
    BY <1>0, <1>2
  <2> QED
    BY <1>2, <2>1 DEF Latest, WordsInv
<1> QED
  BY <1>1, <1>2

\* Every step adds words of its own revision only.
LEMMA NextWordsInv == TypeOK /\ WordsInv /\ [Next]_vars => WordsInv'
<1> SUFFICES ASSUME TypeOK, WordsInv, [Next]_vars PROVE WordsInv'
  OBVIOUS
<1>0. /\ hist \in Seq(Revision) /\ Len(hist) \in Nat /\ current \in Content
      /\ Latest \in Content /\ snap \in [hash : Nat, kb : Nat]
  BY LatestType DEF TypeOK
<1>1. WordsUpTo(Latest, Len(hist)) /\ WordsUpTo(NoPage, Len(hist))
  BY <1>0, LatestWords DEF WordsUpTo, NoPage, NoBlock, Gen
<1>2. ASSUME hist' = hist, current' \in {current, Latest, NoPage} PROVE WordsInv'
  BY <1>1, <1>2 DEF WordsInv
<1>3. ASSUME NEW x \in Revision, hist' = Append(hist, x), current' = current,
             WordsUpTo(x.content, Len(hist) + 1)
      PROVE  WordsInv'
  <2>1. /\ Len(hist') = Len(hist) + 1 /\ hist'[Len(hist) + 1] = x
        /\ \A i \in 1..Len(hist) : hist'[i] = hist[i]
    BY <1>0, <1>3, Appended
  <2>2. WordsUpTo(current, Len(hist) + 1)
    BY <1>0, WordsWiden DEF WordsInv
  <2>3. \A k \in 1..(Len(hist) + 1) : k \in 1..Len(hist) \/ k = Len(hist) + 1
    BY <1>0
  <2> QED
    BY <1>3, <2>1, <2>2, <2>3 DEF WordsInv
<1>4. ASSUME NEW c \in Content, WordsUpTo(c, Len(hist)), UpsertPage(c), current' = current
      PROVE  WordsInv'
  <2>1. [bot |-> TRUE, content |-> c] \in Revision
    BY DEF Revision
  <2>2. WordsUpTo(c, Len(hist) + 1)
    BY <1>0, <1>4, WordsWiden
  <2> QED
    BY <1>2, <1>3, <1>4, <2>1, <2>2 DEF UpsertPage
<1>5. CASE Human
  <2>1. PICK c \in Content : HumanText(c, Latest, Len(hist) + 1) /\ HumanWrites(c)
    BY <1>5, HumanShape
  <2>2. [bot |-> FALSE, content |-> c] \in Revision
    BY DEF Revision
  <2>3. WordsUpTo(Latest, Len(hist) + 1)
    BY <1>0, <1>1, WordsWiden
  <2>4. Typed(Len(hist) + 1).human <= Len(hist) + 1
    BY <1>0 DEF Typed
  <2>5. WordsUpTo(c, Len(hist) + 1)
    BY <2>1, <2>3, <2>4 DEF HumanText, WordsUpTo
  <2> QED
    BY <1>3, <2>1, <2>2, <2>5 DEF HumanWrites, runVars
<1>6. CASE Push \/ PushError \/ OnRendered \/ OnRenderedError
  <2>1. WordsUpTo(Rendered, Len(hist)) /\ WordsUpTo(PushedText, Len(hist))
    BY <1>0, MergeWords DEF Rendered, PushedText, WordsInv
  <2>2. Rendered \in Content /\ PushedText \in Content
    BY RunTypes
  <2> QED
    BY <1>2, <1>4, <1>6, <2>1, <2>2 DEF Push, PushError, OnRendered, OnRenderedError
<1>7. CASE Start \/ StartDiffError \/ StartRenderError \/ GetPage \/ GetPageForgets
  BY <1>2, <1>7 DEF Start, StartRender, StartSkip, StartDiffError, StartRenderError, Begin,
                    GetPage, GetPageForgets, Reconcile
<1>8. CASE Persist \/ NoOp \/ GetPageError \/ History \/ HistoryError \/ Report \/ Crash
  BY <1>2, <1>8 DEF Persist, NoOp, GetPageError, History, HistoryError, Report, Crash
<1>9. CASE World \/ UNCHANGED vars
  BY <1>2, <1>9 DEF World, KBCommit, SpecEdit, runVars, vars
<1> QED
  BY <1>5, <1>6, <1>7, <1>8, <1>9 DEF Next, Step, Failure

\* Every step keeps the removed edits named.
LEMMA NextNamedInv == RevInv /\ NamedInv /\ [Next]_vars => NamedInv'
<1> SUFFICES ASSUME RevInv, NamedInv, [Next]_vars, last' # 0 PROVE NamedInv'
  BY DEF NamedInv
<1>0. TypeOK /\ hist \in Seq(Revision) /\ Len(hist) \in Nat /\ last \in Nat
  BY DEF RevInv, TypeOK
<1>1. ASSUME pc' \in {"idle", "get", "history", "noop"} \/ (pc' = "sink" /\ status' # "Rendered")
             \/ (pc' = "report" /\ status' # "Rendered")
      PROVE  NamedInv'
  BY <1>1 DEF NamedInv
<1>2. CASE Human
  <2>1. PICK c \in Content : HumanWrites(c)
    BY <1>0, <1>2, HumanShape
  <2>2. [bot |-> FALSE, content |-> c] \in Revision
    BY DEF Revision
  <2>3. /\ Len(hist') = Len(hist) + 1 /\ ~hist'[Len(hist) + 1].bot
        /\ \A i \in 1..Len(hist) : hist'[i] = hist[i]
    BY <1>0, <2>1, <2>2, Appended DEF HumanWrites
  <2>4. UNCHANGED <<last, pc, status, humans>>
    BY <2>1 DEF HumanWrites, runVars
  <2>5. /\ late \subseteq late'
        /\ pc \in {"push", "persist", "sink"} => Len(hist) + 1 \in late'
    BY <2>1 DEF HumanWrites
  <2>6. ASSUME pc \in {"push", "persist"} \/ (pc = "sink" /\ status = "Rendered"),
               NEW i \in (last + 1)..Len(hist'), ~hist'[i].bot
        PROVE  i \in humans \cup late'
    <3>1. CASE i = Len(hist) + 1
      BY <2>5, <2>6, <3>1
    <3>2. CASE i \in (last + 1)..Len(hist)
      <4>1. i \in 1..Len(hist)
        BY <1>0, <3>2
      <4>2. ~hist[i].bot
        BY <2>3, <2>6, <4>1
      <4> QED
        BY <2>4, <2>5, <2>6, <3>2, <4>2 DEF NamedInv
    <3> QED
      BY <1>0, <2>3, <3>1, <3>2
  <2>7. ASSUME pc = "report", status = "Rendered",
               NEW i \in (last + 1)..Len(hist'), NEW j \in (i + 1)..Len(hist'),
               ~hist'[i].bot, hist'[j].bot
        PROVE  i \in humans \cup late'
    <3>1. j # Len(hist) + 1
      BY <2>3, <2>7
    <3>2. i \in (last + 1)..Len(hist) /\ j \in (i + 1)..Len(hist)
      BY <1>0, <2>3, <3>1
    <3>3. i \in 1..Len(hist) /\ j \in 1..Len(hist)
      BY <1>0, <3>2
    <3>4. ~hist[i].bot /\ hist[j].bot
      BY <2>3, <2>7, <3>3
    <3> QED
      BY <2>4, <2>5, <2>7, <3>2, <3>4 DEF NamedInv
  <2> QED
    BY <2>4, <2>6, <2>7 DEF NamedInv
<1>3. CASE Start \/ StartDiffError \/ StartRenderError
  BY <1>3 DEF Start, StartRender, StartSkip, StartDiffError, StartRenderError, Begin
<1>4. CASE GetPage \/ GetPageForgets
  <2>1. last' = rs.rev /\ (pc' = "push" => hist = <<>>) /\ pc' \in {"push", "noop", "history"}
    BY <1>4 DEF GetPage, GetPageForgets, Reconcile
  <2>2. rs.rev \in 1..Len(hist)
    BY <2>1 DEF RevInv, BotRev
  <2>3. pc' # "push"
    BY <2>1, <2>2
  <2> QED
    BY <1>1, <2>1, <2>3
<1>5. CASE History
  <2>1. /\ pc' = "push" /\ UNCHANGED <<hist, last, late>>
        /\ humans' = {i \in 1..Len(hist) : i > last /\ ~hist[i].bot}
    BY <1>5 DEF History, DetectHumanEdits
  <2>2. \A i \in (last + 1)..Len(hist) : i \in 1..Len(hist) /\ i > last
    BY <1>0
  <2> QED
    BY <2>1, <2>2 DEF NamedInv
<1>6. CASE Push \/ OnRendered
  <2>1. /\ UNCHANGED <<last, humans, late, status>>
        /\ pc' \in {"persist", "report"}
        /\ pc' = "persist" => pc = "push"
        /\ pc' = "report" => pc = "sink"
    BY <1>6 DEF Push, OnRendered
  <2>2. CASE pc' = "report" /\ status' # "Rendered"
    BY <1>1, <2>2
  <2>3. CASE pc' = "persist" \/ status = "Rendered"
    <3>1. \A i \in (last + 1)..Len(hist) : ~hist[i].bot => i \in humans \cup late
      BY <2>1, <2>3 DEF NamedInv
    <3>2. \/ hist' = hist
          \/ \E c \in Content : hist' = Append(hist, [bot |-> TRUE, content |-> c])
      BY <1>0, <1>6, RunTypes, UpsertType DEF Push, OnRendered
    <3>3. \A i \in (last + 1)..Len(hist') : ~hist'[i].bot => i \in humans \cup late
      <4>1. ASSUME NEW c \in Content, hist' = Append(hist, [bot |-> TRUE, content |-> c]),
                   NEW i \in (last + 1)..Len(hist'), ~hist'[i].bot
            PROVE  i \in humans \cup late
        <5>1. [bot |-> TRUE, content |-> c] \in Revision
          BY DEF Revision
        <5>2. /\ Len(hist') = Len(hist) + 1 /\ hist'[Len(hist) + 1].bot
              /\ \A k \in 1..Len(hist) : hist'[k] = hist[k]
          BY <1>0, <4>1, <5>1, Appended
        <5>3. i # Len(hist) + 1
          BY <4>1, <5>2
        <5>4. i \in (last + 1)..Len(hist) /\ i \in 1..Len(hist)
          BY <1>0, <5>2, <5>3
        <5> QED
          BY <3>1, <4>1, <5>2, <5>4
      <4>2. CASE hist' = hist
        BY <3>1, <4>2
      <4> QED
        BY <3>2, <4>1, <4>2
    <3> QED
      BY <2>1, <3>3 DEF NamedInv
  <2> QED
    BY <2>1, <2>2, <2>3
<1>7. CASE GetPageError \/ HistoryError \/ PushError \/ OnRenderedError
  BY <1>1, <1>7 DEF GetPageError, HistoryError, PushError, OnRenderedError, FailTo
<1>8. CASE Persist
  <2>1. pc = "persist" /\ pc' = "sink" /\ UNCHANGED <<hist, last, humans, late, status>>
    BY <1>8 DEF Persist
  <2> QED
    BY <2>1 DEF NamedInv
<1>9. CASE NoOp \/ Report \/ Crash
  BY <1>1, <1>9 DEF NoOp, Report, Crash
<1>10. CASE World \/ UNCHANGED vars
  <2>1. UNCHANGED <<hist, last, humans, late, status, pc>>
    BY <1>10 DEF World, KBCommit, SpecEdit, runVars, vars
  <2> QED
    BY <2>1 DEF NamedInv
<1> QED
  BY <1>2, <1>3, <1>4, <1>5, <1>6, <1>7, <1>8, <1>9, <1>10 DEF Next, Step, Failure

(***************************************************************************)
(* A run that reports Rendered and knew the curator's last revision names  *)
(* every newer human edit its uploads removed, except those that landed    *)
(* between its history read and its last upload.                           *)
(***************************************************************************)
THEOREM RenderedRunsNameOverwrites == Spec => []RenderedRunNamesItsOverwrites
<1>1. Init => RevInv /\ WordsInv /\ NamedInv
  BY InitTypeOK DEF Init, RevInv, BotRev, NoState, WordsInv, WordsUpTo, NamedInv,
                    NoPage, NoBlock, Gen
<1>2. RevInv /\ WordsInv /\ NamedInv => RenderedRunNamesItsOverwrites
  <2> SUFFICES ASSUME RevInv, WordsInv, NamedInv, pc = "report", status = "Rendered", last # 0,
                      NEW j \in (base + 1)..Len(hist), NEW i \in (last + 1)..Len(hist),
                      IsHuman(i), RemovedBy(j, i)
               PROVE  i \in humans \cup late
    BY DEF RenderedRunNamesItsOverwrites
  <2>0. hist \in Seq(Revision) /\ Len(hist) \in Nat /\ base \in Nat /\ last \in Nat
    BY DEF RevInv, TypeOK
  <2>1. j \in 2..Len(hist) /\ hist[j].bot /\ HasText(hist[j - 1].content, i)
    BY DEF RemovedBy
  <2>2. j - 1 \in 1..Len(hist) /\ j \in Nat /\ i \in Nat
    BY <2>0, <2>1
  <2>3. i <= j - 1
    BY <2>1, <2>2 DEF WordsInv, WordsUpTo, HasText
  <2>4. j \in (i + 1)..Len(hist)
    BY <2>0, <2>1, <2>2, <2>3
  <2>5. ~hist[i].bot
    BY DEF IsHuman
  <2> QED
    BY <2>1, <2>4, <2>5 DEF NamedInv
<1>3. RevInv => TypeOK
  BY DEF RevInv
<1> QED
  BY <1>1, <1>2, <1>3, NextRevInv, NextWordsInv, NextNamedInv, PTL DEF Spec
=============================================================================
