---------------------------- MODULE PageContent ----------------------------
(***************************************************************************)
(* What a curator page consists of, and the block-level merge of the page  *)
(* that is on the wiki with a fresh render (reconciler/merge.go).          *)
(*                                                                         *)
(* A text is abstracted to where it came from: the spec hash and the kb    *)
(* version it was generated from, or the human revision that typed it.     *)
(* Text outside the CURATOR markers (front matter, headings, footer) is    *)
(* one text, the frame.                                                    *)
(***************************************************************************)
EXTENDS Naturals

CONSTANTS Blocks,     \* ids of the marked blocks of the page
          Editorial,  \* the blocks of zone "editorial"; the others are "machine"
          Tracked     \* editorial blocks whose InputHash covers the kb entry

ASSUME ContentAssumption ==
    /\ Blocks # {}
    /\ Editorial \subseteq Blocks
    /\ Tracked \subseteq Editorial

Text == [hash : Nat, kb : Nat, human : Nat]
Prov == [hash : Nat, kb : Nat]
Block == [prov : Prov, body : Text]

(***************************************************************************)
(* "rendered" is the layout of a backend, "merged" the layout writeBlock   *)
(* leaves: it emits a newline after END and then FollowingText, which      *)
(* already begins with the newline that followed END in the render, so a   *)
(* merged page has one more newline per block.  "foreign" is a page no     *)
(* curator wrote, "none" the answer nil of GetPage.                        *)
(***************************************************************************)
Form == {"rendered", "merged", "foreign", "none"}
Content == [form : Form, frame : Text, blk : [Blocks -> Block]]

Gen(h, k) == [hash |-> h, kb |-> k, human |-> 0]
Typed(r)  == [hash |-> 0, kb |-> 0, human |-> r]
NoProv    == [hash |-> 0, kb |-> 0]
NoBlock   == [prov |-> NoProv, body |-> Gen(0, 0)]

NoPage == [form |-> "none", frame |-> Gen(0, 0), blk |-> [b \in Blocks |-> NoBlock]]

ForeignPage(r) ==
    [form |-> "foreign", frame |-> Typed(r), blk |-> [b \in Blocks |-> NoBlock]]

(***************************************************************************)
(* The provenance the frontends stamp.  projection hashes spec, entry and  *)
(* the entry's Updated field; editorial and architecture hash the spec     *)
(* text only, so their provenance does not move with the kb.               *)
(***************************************************************************)
InputHash(b, h, k) == [hash |-> h, kb |-> IF b \in Tracked THEN k ELSE 0]

\* frontend -> passes -> backend, for spec hash h and kb version k.
Render(h, k) ==
    [form  |-> "rendered",
     frame |-> Gen(h, k),
     blk   |-> [b \in Blocks |-> [prov |-> InputHash(b, h, k), body |-> Gen(h, k)]]]

\* Mutant: the fresh body always wins.
ChooseNewBody(b, existing, new) == new.blk[b].body

\* Mutant: the zone is not looked at.
ChooseAnyZone(b, existing, new) ==
    IF existing.blk[b].prov # NoProv /\ existing.blk[b].prov = new.blk[b].prov
      THEN existing.blk[b].body
      ELSE new.blk[b].body

\* chooseBody: which body the merged page carries for block b.
ChooseBody(b, existing, new) ==
    IF /\ b \in Editorial
       /\ existing.blk[b].prov # NoProv
       /\ existing.blk[b].prov = new.blk[b].prov
      THEN existing.blk[b].body
      ELSE new.blk[b].body

MergeBlocks(existing, new) ==
    [form  |-> "merged",
     frame |-> new.frame,
     blk   |-> [b \in Blocks |-> [prov |-> new.blk[b].prov,
                                  body |-> ChooseBody(b, existing, new)]]]

\* Page c with text t as the body of block b.
WithBody(c, b, t) ==
    [form  |-> c.form,
     frame |-> c.frame,
     blk   |-> [x \in Blocks |-> IF x = b THEN [prov |-> c.blk[x].prov, body |-> t]
                                          ELSE c.blk[x]]]

\* Whether the words human revision r typed are on a page with content c.
HasText(c, r) == c.frame.human = r \/ \E b \in Blocks : c.blk[b].body.human = r
=============================================================================
