----------------------------- MODULE MarkerText -----------------------------
(***************************************************************************)
(* The text of one page: the CURATOR markers a backend writes around the   *)
(* blocks of a render, the scanner that finds them again on the wiki page  *)
(* (wikiparse.go) and the merge that rewrites the page (merge.go).         *)
(* PagePublish takes for granted that a page has the blocks of its render; *)
(* here a human may type, erase and paste anywhere, the markers included.  *)
(*                                                                         *)
(* A text is a sequence of tokens: a line break, a marker, a heading or    *)
(* front-matter comment with its own line breaks, or a run of other text,  *)
(* which carries where it comes from.                                      *)
(***************************************************************************)
EXTENDS Naturals, Sequences, FiniteSetsExt, SequencesExt

CONSTANTS Backend,     \* "mediawiki" or "markdown"
          Names,       \* what blocks are about: kb entries, an area header
          Machine,     \* the names whose block is of zone "machine"
          Hashed,      \* Hashed[b]: what the InputHash of block b covers:
                       \* "entry" spec and entry, "spec" the spec, "none" it is ""
          Layouts,     \* the section lists the frontend may produce
          FirstLayout, \* the one the first run sees
          MaxChanges,  \* bound: kb commits and spec edits
          MaxEdits     \* bound: human edits

ASSUME TextAssumption ==
    /\ Backend \in {"mediawiki", "markdown"}
    /\ Machine \subseteq Names
    /\ Hashed \in [Names -> {"entry", "spec", "none"}]
    /\ Layouts \subseteq Seq(Seq(Names)) /\ FirstLayout \in Layouts
    /\ MaxChanges \in Nat /\ MaxEdits \in Nat

VARIABLES updated,  \* updated[b]: version of the kb entry b
          layout,   \* the sections and blocks a render has now
          spec,     \* version of the spec
          page,     \* the wiki page, <<>> before the first run
          changes, edits,
          markers, shown, torn  \* observation: the markers, numbered, and the
                                \* layout of the last render written, and
                                \* whether a human has touched a marker

vars == <<updated, layout, spec, page, changes, edits, markers, shown, torn>>
-----------------------------------------------------------------------------
(* Tokens. *)

NL            == <<"nl">>
Begin(id, zone, hash) == <<"begin", id, zone, hash>>
End(id)       == <<"end", id>>
Heading(i)    == <<"heading", i>>
FrontMatter(v) == <<"front", v>>
Gen(b, v)     == <<"gen", b, v>>
Typed(n, b)   == <<"typed", b, n>>   \* human words, typed into block b

IsMarker(t) == t[1] \in {"begin", "end"}

\* beginRE: an attribute needs a value, so "provenance= -->" does not match.
IsBegin(t) == t[1] = "begin" /\ t[4] # <<>>
-----------------------------------------------------------------------------
(* What the passes and a backend write. *)

Zone(b) == IF b \in Machine THEN "machine" ELSE "editorial"

\* Mutant: the hash of an entry block covers the spec alone.
InputHashOfSpec(b) == <<spec>>

InputHash(b) ==
    CASE Hashed[b] = "entry" -> <<spec, b, updated[b]>>
      [] Hashed[b] = "spec"  -> <<spec>>
      [] Hashed[b] = "none"  -> <<>>

\* blockIDFor: the position, not the name.
BlockID(i, j) == <<i, j>>

\* writeSection of the markdown backend ends every block with a line break.
Gap == IF Backend = "markdown" THEN <<NL>> ELSE <<>>

\* ApplyZoneMarkers around one block, and writeBlock of the backend.
BlockText(i, j) ==
    LET b == layout[i][j] IN
    <<Begin(BlockID(i, j), Zone(b), InputHash(b)), NL>> \o Gap
        \o <<Gen(b, updated[b]), NL, NL>>
        \o <<End(BlockID(i, j)), NL>> \o Gap

SectionText(i) ==
    <<Heading(i)>> \o FlattenSeq([j \in DOMAIN layout[i] |-> BlockText(i, j)])

Render ==
    <<FrontMatter(<<spec, updated>>)>> \o FlattenSeq([i \in DOMAIN layout |-> SectionText(i)])
-----------------------------------------------------------------------------
(* wikiparse.Parse.  A block is the pair of positions of its markers; 0 is *)
(* "not found".                                                            *)

First(S) == IF S = {} THEN 0 ELSE Min(S)

NextBegin(s, p) == First({i \in p..Len(s) : IsBegin(s[i])})

\* endREFor: the first END with the id of the BEGIN at b.
NextEnd(s, b) == First({i \in (b + 1)..Len(s) : s[i] = End(s[b][2])})

\* The first block from position p on; its end is 0 if there is none.
NextBlock(s, p) ==
    LET b == NextBegin(s, p) IN
    [begin |-> b, end |-> IF b = 0 THEN 0 ELSE NextEnd(s, b)]

\* Mutant: a page with a BEGIN that is never closed has no blocks at all.
ParseStrict(s) ==
    LET scan[p \in 1..(Len(s) + 1)] ==
            LET k == NextBlock(s, p)
            IN  IF k.end = 0 THEN <<>> ELSE <<k>> \o scan[k.end + 1]
    IN  IF \E i \in DOMAIN s : IsBegin(s[i]) /\ NextEnd(s, i) = 0 THEN <<>> ELSE scan[1]

\* The scan; a BEGIN that is never closed ends it.
Parse(s) ==
    LET scan[p \in 1..(Len(s) + 1)] ==
            LET k == NextBlock(s, p)
            IN  IF k.end = 0 THEN <<>> ELSE <<k>> \o scan[k.end + 1]
    IN  scan[1]

\* One leading and one trailing line break are not part of a body.
TrimPrefix(s) == IF s # <<>> /\ Head(s) = NL THEN Tail(s) ELSE s

\* Mutant: the line break writeBlock puts before END stays in the body.
TrimSuffixNever(s) == s

TrimSuffix(s) == IF s # <<>> /\ Last(s) = NL THEN Front(s) ELSE s

Body(s, k) == TrimSuffix(TrimPrefix(SubSeq(s, k.begin + 1, k.end - 1)))

\* Prologue, and what follows each block (FollowingText; Epilogue after the last).
Prologue(s, blocks) == IF blocks = <<>> THEN s ELSE SubSeq(s, 1, blocks[1].begin - 1)

Following(s, blocks, n) ==
    SubSeq(s, blocks[n].end + 1, IF n < Len(blocks) THEN blocks[n + 1].begin - 1 ELSE Len(s))
-----------------------------------------------------------------------------
(* MergeBlocks(existing, new). *)

\* BlockByID: the first block of that id, 0 if there is none.
BlockByID(s, blocks, id) == First({n \in DOMAIN blocks : s[blocks[n].begin][2] = id})

\* chooseBody for block nb of the render; a recognised hash is never empty.
ChooseBody(existing, exDoc, new, nb) ==
    LET m == BlockByID(existing, exDoc, new[nb.begin][2]) IN
    IF /\ new[nb.begin][3] = "editorial"
       /\ m # 0
       /\ existing[exDoc[m].begin][4] = new[nb.begin][4]
      THEN Body(existing, exDoc[m])
      ELSE Body(new, nb)

\* Mutant: the provenance attribute is left out.
WriteBlockNoHash(begin, body) ==
    <<Begin(begin[2], begin[3], <<>>), NL>> \o body \o <<NL, End(begin[2]), NL>>

WriteBlock(begin, body) ==
    <<begin, NL>> \o body \o <<NL, End(begin[2]), NL>>

MergeBlocks(existing, new) ==
    LET exDoc  == Parse(existing)
        newDoc == Parse(new)
        blocks == [n \in DOMAIN newDoc |->
                     WriteBlock(new[newDoc[n].begin], ChooseBody(existing, exDoc, new, newDoc[n]))
                         \o Following(new, newDoc, n)]
    IN  Prologue(new, newDoc) \o FlattenSeq(blocks)
-----------------------------------------------------------------------------
Init ==
    /\ updated = [b \in Names |-> 1]
    /\ layout = FirstLayout
    /\ spec = 1
    /\ page = <<>>
    /\ changes = 0
    /\ edits = 0
    /\ markers = {}
    /\ shown = layout
    /\ torn = FALSE

\* A kb entry is edited; its Updated field moves.
KBEntry(b) ==
    /\ Hashed[b] = "entry"
    /\ changes < MaxChanges
    /\ changes' = changes + 1
    /\ updated' = [updated EXCEPT ![b] = @ + 1]
    /\ UNCHANGED <<layout, spec, page, edits, markers, shown, torn>>

\* Entries come and go: the blocks of the next render take other positions.
KBLayout(l) ==
    /\ changes < MaxChanges
    /\ l # layout
    /\ changes' = changes + 1
    /\ layout' = l
    /\ UNCHANGED <<updated, spec, page, edits, markers, shown, torn>>

SpecEdit ==
    /\ changes < MaxChanges
    /\ changes' = changes + 1
    /\ spec' = spec + 1
    /\ UNCHANGED <<updated, layout, page, edits, markers, shown, torn>>

\* The markers of s up to position i, each with its number.
MarkersUpTo(s, i)  == {m \in 1..i : IsMarker(s[m])}
Numbered(s, i) == {<<Cardinality(MarkersUpTo(s, m)), s[m]>> : m \in MarkersUpTo(s, i)}

\* Reconcile: the first render as it is, then the merge; no write if nothing differs.
Curate ==
    LET text == IF page = <<>> THEN Render ELSE MergeBlocks(page, Render) IN
    /\ text # page
    /\ page' = text
    /\ markers' = Numbered(Render, Len(Render))
    /\ shown' = layout
    /\ UNCHANGED <<updated, layout, spec, changes, edits, torn>>

\* The last marker at or before position i.
MarkerBefore(s, i) == Max({0} \cup MarkersUpTo(s, i))

\* The name of the block a human who types after position i sees around the cursor.
NameAt(i) ==
    LET m == MarkerBefore(page, i) IN
    IF torn \/ m = 0 \/ page[m][1] = "end" THEN "outside"
    ELSE shown[page[m][2][1]][page[m][2][2]]

HumanEdit(text, touchesMarker) ==
    /\ page # <<>>
    /\ edits < MaxEdits
    /\ edits' = edits + 1
    /\ page' = text
    /\ torn' = (torn \/ touchesMarker)
    /\ UNCHANGED <<updated, layout, spec, changes, markers, shown>>

HumanTypes(i) ==
    HumanEdit(SubSeq(page, 1, i) \o <<Typed(edits + 1, NameAt(i))>> \o SubSeq(page, i + 1, Len(page)),
              FALSE)

HumanErases(i) ==
    HumanEdit(RemoveAt(page, i), IsMarker(page[i]))

\* A line break, or a copy of a marker of the page, is put after position i.
HumanPastes(i, t) ==
    HumanEdit(SubSeq(page, 1, i) \o <<t>> \o SubSeq(page, i + 1, Len(page)), IsMarker(t))

Human ==
    \/ \E i \in 0..Len(page) : HumanTypes(i)
    \/ \E i \in 1..Len(page) : HumanErases(i)
    \/ \E i \in 0..Len(page), t \in {NL} \cup {m \in Range(page) : IsMarker(m)} : HumanPastes(i, t)

\* What changes before the first run is the first run's input: FirstLayout, version 1.
World ==
    /\ page # <<>>
    /\ (\E b \in Names : KBEntry(b)) \/ (\E l \in Layouts : KBLayout(l)) \/ SpecEdit

Next == Curate \/ Human \/ World

Spec == Init /\ [][Next]_vars
-----------------------------------------------------------------------------
(* What the next run makes of the page, whatever a human did to it. *)

Between(s, k) == {s[i] : i \in (k.begin + 1)..(k.end - 1)}

(***************************************************************************)
(* A merge is a fixed point of the next: the run after the next one finds  *)
(* nothing to write.  writeBlock adds a line break after every END and     *)
(* around every body; Parse must take back exactly those, on any page a    *)
(* human left behind, or the page grows by a line in every run.            *)
(***************************************************************************)
MergeSettles ==
    page # <<>> =>
        LET r == Render
            m == MergeBlocks(page, r)
        IN  MergeBlocks(m, r) = m

(***************************************************************************)
(* However the markers were erased, moved or doubled, the merged page has  *)
(* the blocks of the render, in its order and with its provenance, and the *)
(* render's text around them, one line break more behind every END: a body *)
(* kept from the wiki never hides the block after it from the next scan.   *)
(***************************************************************************)
MergeRepairsMarkers ==
    page # <<>> =>
        LET r  == Render
            m  == MergeBlocks(page, r)
            rd == Parse(r)
            md == Parse(m)
        IN  /\ Len(md) = Len(rd)
            /\ Prologue(m, md) = Prologue(r, rd)
            /\ \A n \in DOMAIN rd :
                  /\ m[md[n].begin] = r[rd[n].begin]
                  /\ Following(m, md, n) = <<NL>> \o Following(r, rd, n)

(***************************************************************************)
(* Words typed into an editorial block whose BEGIN marker the render       *)
(* repeats survive the merge as long as the markers up to that block are   *)
(* as its render had them and its END is still there: damage further       *)
(* down the page costs nothing (merge.go: "human polish survives").        *)
(***************************************************************************)
TypedWordsSurvive ==
    \A i \in 1..Len(page) :
        LET m == MarkerBefore(page, i) IN
        (/\ page[i][1] = "typed"
         /\ m # 0 /\ IsBegin(page[m]) /\ page[m][3] = "editorial"
         /\ page[m] \in Range(Render)
         /\ Numbered(page, m) \subseteq markers
         /\ \E e \in i..Len(page) : page[e] = End(page[m][2]))
        => page[i] \in Range(MergeBlocks(page, Render))

(***************************************************************************)
(* On a page whose markers nobody touched, a merged block holds only text  *)
(* about its own entry: block ids are positions, so after entries came and *)
(* went only the InputHash keeps the text of the entry that stood there    *)
(* before out of the block.                                                *)
(***************************************************************************)
BodyIsAboutItsEntry ==
    (page # <<>> /\ ~torn) =>
        LET m == MergeBlocks(page, Render)
            blocks == Parse(m)
        IN
        \A n \in DOMAIN blocks :
            LET id == m[blocks[n].begin][2] IN
            \A t \in Between(m, blocks[n]) :
                t[1] \in {"gen", "typed"} => t[2] = layout[id[1]][id[2]]
=============================================================================
