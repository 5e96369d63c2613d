------------------------------- MODULE NavMap -------------------------------
(***************************************************************************)
(* Where pages stand below hubs: the placement a spec declares (nav:), its *)
(* default from the subpath, the map of hub members (internal/nav) and the *)
(* sections an auto hub makes of them (frontends/hub).                     *)
(*                                                                         *)
(* Section titles and labels are numbers, in their alphabetical order; 0   *)
(* is the empty string.                                                    *)
(***************************************************************************)
EXTENDS Naturals, Sequences, FiniteSets, Functions

CONSTANTS Areas,        \* kb areas
          NoArea,
          Pages,        \* page titles
          Parent,       \* Parent[p]: the subpath parent of p, or NoParent
          NoParent,
          LastSegment,  \* LastSegment[p]: the label made from the title of p
          Specs,        \* spec ids; numbers, so that Pull's sort is <
          Nav           \* Nav[s]: the nav: block of spec s, of the cluster for 0

\* A nav: block; parent, label and area may be missing.
Placement == [parent : Pages \cup {NoParent}, section : Nat, order : Nat, label : Nat,
              area : Areas \cup {NoArea}]

ASSUME NavAssumption ==
    /\ NoArea \notin Areas
    /\ NoParent \notin Pages
    /\ Parent \in [Pages -> Pages \cup {NoParent}]
    /\ LastSegment \in [Pages -> Nat \ {0}]
    /\ Specs \subseteq Nat \ {0} /\ IsFiniteSet(Specs)
    /\ Nav \in [Specs \cup {0} -> Placement]

SubpathParent(p) == Parent[p]

Resolve(p, nav) ==
    [nav EXCEPT !.parent = IF @ = NoParent THEN SubpathParent(p) ELSE @,
                !.label  = IF @ = 0 THEN LastSegment[p] ELSE @]

\* A member of a hub is a spec (0: the cluster) with the page it has.
Entries == (Specs \cup {0}) \X Pages
Member  == [e \in Entries |-> Resolve(e[2], Nav[e[1]])]

HubSection == [title : Nat, links : Seq(Entries)]

\* buildNavMap hands Build the specs in order of their ids and then the cluster.
SortKey(e) == <<Member[e].section, Member[e].order, Member[e].label, IF e[1] = 0 THEN 1 ELSE 0, e[1]>>

\* sort.SliceStable by section, order and label: equals stay as they came.
Less(e, f) ==
    \E k \in 1..5 :
        /\ \A i \in 1..(k - 1) : SortKey(e)[i] = SortKey(f)[i]
        /\ SortKey(e)[k] < SortKey(f)[k]

Ordered == {pair \in {<<e, f>> : e \in Entries, f \in Entries} : Less(pair[1], pair[2])}

\* The members of a set, at most one per spec, in the order of Build.
InOrder(M) ==
    [k \in 1..Cardinality(M) |-> CHOOSE e \in M : Cardinality({f \in M : <<f, e>> \in Ordered}) = k - 1]

\* Build(pages)[hub].
Members(pages, hub) == {e \in pages : Member[e].parent = hub}

\* The trailing "Other" section, title 0, if there is anything to put in it.
Other(titles, members) ==
    LET rest == {e \in members : Member[e].section \notin Range(titles)} IN
    IF rest = {} THEN <<>> ELSE <<[title |-> 0, links |-> InOrder(rest)]>>

\* Every declared section, in the hub's order, and then the rest.
ExpandAuto(titles, members) ==
    [i \in DOMAIN titles |->
        [title |-> titles[i], links |-> InOrder({e \in members : Member[e].section = titles[i]})]]
      \o Other(titles, members)

\* The links of the sections nav, by their places.
Slots(nav)    == UNION {{i} \X DOMAIN nav[i].links : i \in DOMAIN nav}
Link(nav, at) == nav[at[1]].links[at[2]]

\* hub.Build: a link without a blurb shows the summary of its area.
ShownAreas(pages, hub) ==
    {Member[e].area : e \in Members(pages, hub)} \ {NoArea}
=============================================================================
