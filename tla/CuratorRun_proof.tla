-------------------------- MODULE CuratorRun_proof --------------------------
(***************************************************************************)
(* Proofs about CuratorRun, for any set of specs, pages and areas, any     *)
(* placement of the pages, and any number of runs, changes and faults.     *)
(***************************************************************************)
EXTENDS CuratorRun, FiniteSetTheorems, TLAPS
-----------------------------------------------------------------------------
(***************************************************************************)
(* First, what the operators of NavMap compute: the order of Build is a    *)
(* strict total order, InOrder lists every member once and in that order,  *)
(* and an expanded auto hub has one link for each of its members, in the   *)
(* section the member asks for or in the last.                             *)
(***************************************************************************)

\* Members, at most one for each spec.
OnePerSpec(M) == M \subseteq Entries /\ \A e, f \in M : e[1] = f[1] => e = f

\* The order of two sort keys.
Lex(a, b) == \E k \in 1..5 : (\A i \in 1..(k - 1) : a[i] = b[i]) /\ a[k] < b[k]
-----------------------------------------------------------------------------
(* Placement. *)

\* What Resolve keeps of a nav: block, and the parent it fills in.
LEMMA MemberFields ==
    ASSUME NEW e \in Entries
    PROVE  /\ e[1] \in Specs \cup {0} /\ e[2] \in Pages
           /\ Member[e].section = Nav[e[1]].section
           /\ Member[e].order = Nav[e[1]].order
           /\ Member[e].area = Nav[e[1]].area
           /\ Member[e].parent = IF Nav[e[1]].parent = NoParent THEN Parent[e[2]] ELSE Nav[e[1]].parent
           /\ Member[e].section \in Nat /\ Member[e].order \in Nat /\ Member[e].label \in Nat
           /\ Member[e].area \in Areas \cup {NoArea}
<1>1. e[1] \in Specs \cup {0} /\ e[2] \in Pages
  BY DEF Entries
<1>2. Nav[e[1]] \in Placement /\ LastSegment[e[2]] \in Nat
  BY <1>1, NavAssumption
<1>3. PICK nav \in Placement : nav = Nav[e[1]]
  BY <1>2
<1>4. Member[e] = Resolve(e[2], nav)
  BY <1>3 DEF Member
<1> DEFINE parent == IF nav.parent = NoParent THEN Parent[e[2]] ELSE nav.parent
           label  == IF nav.label = 0 THEN LastSegment[e[2]] ELSE nav.label
<1>5. Resolve(e[2], nav) = [parent |-> parent, section |-> nav.section, order |-> nav.order,
                            label |-> label, area |-> nav.area]
  <2>1. nav = [parent |-> nav.parent, section |-> nav.section, order |-> nav.order, label |-> nav.label,
               area |-> nav.area]
    BY DEF Placement
  <2>2. Resolve(e[2], nav) = [[nav EXCEPT !.parent = parent] EXCEPT !.label = label]
    BY <2>1 DEF Resolve, SubpathParent
  <2> HIDE DEF parent, label
  <2>3. [nav EXCEPT !.parent = parent] = [parent |-> parent, section |-> nav.section, order |-> nav.order,
                                          label |-> nav.label, area |-> nav.area]
    BY <2>1
  <2> QED
    BY <2>2, <2>3
<1>6. label \in Nat /\ nav.section \in Nat /\ nav.order \in Nat /\ nav.area \in Areas \cup {NoArea}
  BY <1>2 DEF Placement
<1> HIDE DEF label
<1> QED
  BY <1>1, <1>3, <1>4, <1>5, <1>6

\* A sort key is five numbers.
LEMMA SortKeys == ASSUME NEW e \in Entries PROVE SortKey(e) \in [1..5 -> Nat]
<1>1. e[1] \in Nat
  <2>1. e[1] \in Specs \/ e[1] = 0
    BY MemberFields
  <2>2. \A n \in Specs : n \in Nat
    BY NavAssumption
  <2>3. 0 \in Nat
    OBVIOUS
  <2> QED
    BY <2>1, <2>2, <2>3
<1> QED
  BY <1>1, MemberFields DEF SortKey
-----------------------------------------------------------------------------
(* The order. *)

LEMMA LexIrreflexive == ASSUME NEW a \in [1..5 -> Nat] PROVE ~Lex(a, a)
BY DEF Lex

LEMMA LexTransitive ==
    ASSUME NEW a \in [1..5 -> Nat], NEW b \in [1..5 -> Nat], NEW c \in [1..5 -> Nat], Lex(a, b), Lex(b, c)
    PROVE  Lex(a, c)
<1>1. PICK j \in 1..5 : (\A i \in 1..(j - 1) : a[i] = b[i]) /\ a[j] < b[j]
  BY DEF Lex
<1>2. PICK k \in 1..5 : (\A i \in 1..(k - 1) : b[i] = c[i]) /\ b[k] < c[k]
  BY DEF Lex
<1>3. CASE j <= k
  <2>1. (\A i \in 1..(j - 1) : a[i] = c[i]) /\ a[j] < c[j]
    BY <1>1, <1>2, <1>3
  <2> QED
    BY <2>1 DEF Lex
<1>4. CASE k < j
  <2>1. (\A i \in 1..(k - 1) : a[i] = c[i]) /\ a[k] < c[k]
    BY <1>1, <1>2, <1>4
  <2> QED
    BY <2>1 DEF Lex
<1> QED
  BY <1>3, <1>4

LEMMA LexTotal ==
    ASSUME NEW a \in [1..5 -> Nat], NEW b \in [1..5 -> Nat], \E k \in 1..5 : a[k] # b[k]
    PROVE  Lex(a, b) \/ Lex(b, a)
<1>1. PICK k \in 1..5 : a[k] # b[k] /\ \A i \in 1..(k - 1) : a[i] = b[i]
  <2>1. CASE a[1] # b[1]
    BY <2>1
  <2>2. CASE a[1] = b[1] /\ a[2] # b[2]
    BY <2>2
  <2>3. CASE a[1] = b[1] /\ a[2] = b[2] /\ a[3] # b[3]
    BY <2>3
  <2>4. CASE a[1] = b[1] /\ a[2] = b[2] /\ a[3] = b[3] /\ a[4] # b[4]
    BY <2>4
  <2>5. CASE a[1] = b[1] /\ a[2] = b[2] /\ a[3] = b[3] /\ a[4] = b[4] /\ a[5] # b[5]
    BY <2>5
  <2> QED
    BY <2>1, <2>2, <2>3, <2>4, <2>5
<1>2. a[k] < b[k] \/ b[k] < a[k]
  BY <1>1
<1> QED
  BY <1>1, <1>2 DEF Lex

\* The members of a hub are in a strict total order: no two specs have the same key.
LEMMA LessOrders ==
    ASSUME NEW M, OnePerSpec(M)
    PROVE  /\ \A e \in M : ~Less(e, e)
           /\ \A e, f, g \in M : Less(e, f) /\ Less(f, g) => Less(e, g)
           /\ \A e, f \in M : e # f => Less(e, f) \/ Less(f, e)
<1>1. \A e, f : Less(e, f) <=> Lex(SortKey(e), SortKey(f))
  BY DEF Less, Lex
<1>2. \A e \in M : SortKey(e) \in [1..5 -> Nat]
  BY SortKeys DEF OnePerSpec
<1>3. ASSUME NEW e \in M, NEW f \in M, e # f PROVE Less(e, f) \/ Less(f, e)
  <2>1. SortKey(e)[5] = e[1] /\ SortKey(f)[5] = f[1]
    BY DEF SortKey
  <2>2. e[1] # f[1]
    BY <1>3 DEF OnePerSpec
  <2> QED
    BY <1>1, <1>2, <2>1, <2>2, LexTotal
<1>4. \A e \in M : ~Less(e, e)
  BY <1>1, <1>2, LexIrreflexive
<1>5. \A e, f, g \in M : Less(e, f) /\ Less(f, g) => Less(e, g)
  BY <1>1, <1>2, LexTransitive
<1> QED
  BY <1>3, <1>4, <1>5

\* There are no more members than specs and the cluster.
LEMMA MembersFinite == ASSUME NEW M, OnePerSpec(M) PROVE IsFiniteSet(M) /\ Cardinality(M) \in Nat
<1>1. IsFiniteSet(Specs \cup {0})
  BY NavAssumption, FS_AddElement
<1> DEFINE spec == [e \in M |-> e[1]]
<1>2. spec \in Injection(M, Specs \cup {0})
  <2>1. \A e \in M : e[1] \in Specs \cup {0}
    BY MemberFields DEF OnePerSpec
  <2>2. \A e, f \in M : spec[e] = spec[f] => e = f
    BY DEF OnePerSpec
  <2>3. spec \in [M -> Specs \cup {0}]
    BY <2>1
  <2> HIDE DEF spec
  <2> QED
    BY <2>2, <2>3 DEF Injection, IsInjective
<1>3. IsFiniteSet(M)
  BY <1>1, <1>2, FS_Injection
<1> QED
  BY <1>3, FS_CardinalityType

LEMMA OrderedPairs == \A e, f \in Entries : <<e, f>> \in Ordered <=> Less(e, f)
<1> SUFFICES ASSUME NEW e \in Entries, NEW f \in Entries PROVE <<e, f>> \in Ordered <=> Less(e, f)
  OBVIOUS
<1>1. <<e, f>> \in {<<x, y>> : x \in Entries, y \in Entries} /\ <<e, f>>[1] = e /\ <<e, f>>[2] = f
  OBVIOUS
<1> QED
  BY <1>1 DEF Ordered

\* InOrder sorts: it has every member at one place, and the smaller at the earlier place.
LEMMA InOrderSorts ==
    ASSUME NEW M, OnePerSpec(M)
    PROVE  /\ InOrder(M) \in [1..Cardinality(M) -> M]
           /\ \A e \in M : \E k \in 1..Cardinality(M) :
                 \A j \in 1..Cardinality(M) : InOrder(M)[j] = e <=> j = k
           /\ \A j, k \in 1..Cardinality(M) : Less(InOrder(M)[j], InOrder(M)[k]) => j < k
<1> DEFINE n         == Cardinality(M)
           before(e) == {f \in M : <<f, e>> \in Ordered}
           rank      == [e \in M |-> Cardinality(before(e)) + 1]
<1>0. IsFiniteSet(M) /\ n \in Nat
  BY MembersFinite
<1>p. \A e, f \in M : <<f, e>> \in Ordered <=> Less(f, e)
  BY OrderedPairs DEF OnePerSpec
<1>1. ASSUME NEW e \in M
      PROVE  IsFiniteSet(before(e)) /\ Cardinality(before(e)) \in Nat /\ Cardinality(before(e)) < n
  <2>1. before(e) \in SUBSET M /\ before(e) # M
    BY <1>p, LessOrders
  <2>2. IsFiniteSet(before(e)) /\ Cardinality(before(e)) <= n /\ Cardinality(before(e)) # n
    BY <1>0, <2>1, FS_Subset
  <2>3. Cardinality(before(e)) \in Nat
    BY <2>2, FS_CardinalityType
  <2> HIDE DEF n, before
  <2> QED
    BY <1>0, <2>2, <2>3
<1>2. ASSUME NEW e \in M, NEW f \in M, Less(e, f) PROVE rank[e] < rank[f]
  <2>1. before(e) \in SUBSET before(f) /\ before(f) # before(e)
    BY <1>p, <1>2, LessOrders
  <2>2. Cardinality(before(e)) <= Cardinality(before(f)) /\ Cardinality(before(e)) # Cardinality(before(f))
    BY <1>1, <2>1, FS_Subset
  <2>3. rank[e] = Cardinality(before(e)) + 1 /\ rank[f] = Cardinality(before(f)) + 1
    OBVIOUS
  <2> HIDE DEF rank, before
  <2> QED
    BY <1>1, <2>2, <2>3
<1>3. rank \in [M -> 1..n]
  <2>1. \A e \in M : Cardinality(before(e)) + 1 \in 1..n
    <3> HIDE DEF before, n
    <3> QED
      BY <1>0, <1>1
  <2> QED
    BY <2>1
<1>4. \A e \in M : rank[e] = Cardinality(before(e)) + 1
  OBVIOUS
<1> HIDE DEF rank
<1>5. \A e, f \in M : rank[e] = rank[f] => e = f
  <2> SUFFICES ASSUME NEW e \in M, NEW f \in M, rank[e] = rank[f], e # f PROVE FALSE
    OBVIOUS
  <2>1. Less(e, f) \/ Less(f, e)
    BY LessOrders
  <2>2. rank[e] \in Nat /\ rank[f] \in Nat
    BY <1>0, <1>3
  <2> QED
    BY <1>2, <2>1, <2>2
<1>6. \A k \in 1..n : \E e \in M : rank[e] = k
  <2>1. rank \in Injection(M, 1..n)
    BY <1>3, <1>5 DEF Injection, IsInjective
  <2>2. IsFiniteSet(1..n) /\ Cardinality(1..n) = n
    BY <1>0, FS_Interval
  <2>3. rank \in Surjection(M, 1..n)
    BY <2>1, <2>2, FS_Injection
  <2> QED
    BY <2>3 DEF Surjection
<1>7. ASSUME NEW k \in 1..n PROVE InOrder(M)[k] \in M /\ rank[InOrder(M)[k]] = k
  <2>1. InOrder(M)[k] = CHOOSE e \in M : Cardinality(before(e)) = k - 1
    BY DEF InOrder
  <2>2. \E e \in M : Cardinality(before(e)) = k - 1
    <3>1. PICK e \in M : rank[e] = k
      BY <1>6
    <3>2. Cardinality(before(e)) + 1 = k /\ Cardinality(before(e)) \in Nat
      BY <1>1, <1>4, <3>1
    <3>3. Cardinality(before(e)) = k - 1
      <4> HIDE DEF before
      <4> QED
        BY <3>2
    <3> QED
      BY <3>3
  <2>3. InOrder(M)[k] \in M /\ Cardinality(before(InOrder(M)[k])) = k - 1
    BY <2>1, <2>2
  <2> HIDE DEF before
  <2> QED
    BY <1>0, <1>4, <2>3
<1>8. InOrder(M) \in [1..n -> M]
  <2> DEFINE at(k) == CHOOSE e \in M : Cardinality({f \in M : <<f, e>> \in Ordered}) = k - 1
  <2>1. InOrder(M) = [k \in 1..n |-> at(k)]
    BY DEF InOrder
  <2> HIDE DEF at, n
  <2>2. \A k \in 1..n : InOrder(M)[k] = at(k)
    BY <2>1
  <2> QED
    BY <1>7, <2>1, <2>2
<1>9. ASSUME NEW e \in M PROVE \E k \in 1..n : \A j \in 1..n : InOrder(M)[j] = e <=> j = k
  <2>1. rank[e] \in 1..n
    BY <1>3
  <2>2. \A j \in 1..n : InOrder(M)[j] = e <=> j = rank[e]
    BY <1>5, <1>7, <2>1
  <2> QED
    BY <2>1, <2>2
<1>10. ASSUME NEW j \in 1..n, NEW k \in 1..n, Less(InOrder(M)[j], InOrder(M)[k]) PROVE j < k
  BY <1>2, <1>7, <1>10
<1> QED
  BY <1>8, <1>9, <1>10
-----------------------------------------------------------------------------
(* The sections of an auto hub. *)

\* The members of section i of an expanded hub.
InSection(titles, members, i) == {e \in members : Member[e].section = titles[i]}
Rest(titles, members) == {e \in members : Member[e].section \notin Range(titles)}

\* What ExpandAuto makes of n titles: a section for each, and one more for what is left.
LEMMA ExpandedSections ==
    ASSUME NEW n \in Nat, NEW titles \in [1..n -> Nat], NEW members, OnePerSpec(members)
    PROVE  LET nav == ExpandAuto(titles, members) IN
           /\ nav \in Seq(HubSection)
           /\ DOMAIN nav = 1..(IF Rest(titles, members) = {} THEN n ELSE n + 1)
           /\ \A i \in 1..n : nav[i].links = InOrder(InSection(titles, members, i))
           /\ Rest(titles, members) # {} => nav[n + 1].links = InOrder(Rest(titles, members))
<1> DEFINE section(i) == [title |-> titles[i], links |-> InOrder(InSection(titles, members, i))]
           rest       == Rest(titles, members)
           last       == [title |-> 0, links |-> InOrder(rest)]
           nav        == ExpandAuto(titles, members)
<1>1. \A M \in SUBSET members : InOrder(M) \in Seq(Entries)
  <2> SUFFICES ASSUME NEW M \in SUBSET members PROVE InOrder(M) \in Seq(Entries)
    OBVIOUS
  <2>1. OnePerSpec(M)
    BY DEF OnePerSpec
  <2>2. InOrder(M) \in [1..Cardinality(M) -> Entries] /\ Cardinality(M) \in Nat
    BY <2>1, InOrderSorts, MembersFinite DEF OnePerSpec
  <2> QED
    BY <2>2
<1>2. \A i \in 1..n : section(i) \in HubSection
  BY <1>1 DEF HubSection, InSection
<1>3. last \in HubSection
  BY <1>1 DEF HubSection, Rest
<1> DEFINE declared == [i \in 1..n |-> section(i)]
<1>4. DOMAIN titles = 1..n /\ declared \in Seq(HubSection) /\ Len(declared) = n
  <2>1. declared \in [1..n -> HubSection]
    BY <1>2
  <2> HIDE DEF declared
  <2> QED
    BY <2>1
<1>5. nav = declared \o (IF rest = {} THEN <<>> ELSE <<last>>)
  BY <1>4 DEF ExpandAuto, Other, InSection, Rest
<1>6. \A i \in 1..n : declared[i].links = InOrder(InSection(titles, members, i))
  OBVIOUS
<1>7. last.links = InOrder(rest)
  OBVIOUS
<1> HIDE DEF declared, last, nav, rest
<1>8. CASE rest = {}
  <2>1. nav = declared
    BY <1>4, <1>5, <1>8
  <2> QED
    BY <1>4, <1>6, <1>8, <2>1 DEF nav, rest
<1>9. CASE rest # {}
  <2>1. nav = Append(declared, last)
    BY <1>3, <1>4, <1>5, <1>9
  <2>2. /\ nav \in Seq(HubSection) /\ DOMAIN nav = 1..(n + 1)
        /\ \A i \in 1..n : nav[i] = declared[i]
        /\ nav[n + 1] = last
    BY <1>3, <1>4, <2>1
  <2> QED
    BY <1>6, <1>7, <1>9, <2>2 DEF nav, rest
<1> QED
  BY <1>8, <1>9

\* A place is a section and a place in it.
LEMMA SlotPairs ==
    ASSUME NEW nav
    PROVE  /\ \A i \in DOMAIN nav : \A k \in DOMAIN nav[i].links : <<i, k>> \in Slots(nav)
           /\ \A at \in Slots(nav) : \E i \in DOMAIN nav : \E k \in DOMAIN nav[i].links : at = <<i, k>>
<1>1. ASSUME NEW i \in DOMAIN nav, NEW k \in DOMAIN nav[i].links PROVE <<i, k>> \in Slots(nav)
  <2>1. <<i, k>> \in {i} \X DOMAIN nav[i].links
    OBVIOUS
  <2> QED
    BY <2>1 DEF Slots
<1>2. ASSUME NEW at \in Slots(nav) PROVE \E i \in DOMAIN nav : \E k \in DOMAIN nav[i].links : at = <<i, k>>
  <2>1. PICK i \in DOMAIN nav : at \in {i} \X DOMAIN nav[i].links
    BY DEF Slots
  <2>2. PICK j \in {i}, k \in DOMAIN nav[i].links : at = <<j, k>>
    BY <2>1
  <2> QED
    BY <2>2
<1> QED
  BY <1>1, <1>2

(***************************************************************************)
(* Every link of an expanded auto hub is a member's, and every member has  *)
(* exactly one (autohub.go: "no member is silently dropped").              *)
(***************************************************************************)
THEOREM ExpandedLinks ==
    ASSUME NEW n \in Nat, NEW titles \in [1..n -> Nat], NEW members, OnePerSpec(members),
           \A i, j \in 1..n : titles[i] = titles[j] => i = j
    PROVE  LET nav == ExpandAuto(titles, members) IN
           /\ \A at \in Slots(nav) : Link(nav, at) \in members
           /\ \A e \in members : \E at \in Slots(nav) :
                 \A other \in Slots(nav) : Link(nav, other) = e <=> other = at
<1> DEFINE nav     == ExpandAuto(titles, members)
           part(i) == IF i \in 1..n THEN InSection(titles, members, i) ELSE Rest(titles, members)
<1>0. DOMAIN titles = 1..n
  OBVIOUS
<1>1. /\ DOMAIN nav \in SUBSET (1..(n + 1)) /\ 1..n \subseteq DOMAIN nav
      /\ Rest(titles, members) # {} => n + 1 \in DOMAIN nav
  BY ExpandedSections
<1>2. ASSUME NEW i \in DOMAIN nav PROVE nav[i].links = InOrder(part(i))
  <2>1. CASE i \in 1..n
    BY <2>1, ExpandedSections
  <2>2. CASE i \notin 1..n
    <3>1. i = n + 1 /\ Rest(titles, members) # {}
      BY <1>1, <2>2, ExpandedSections
    <3>2. nav[n + 1].links = InOrder(Rest(titles, members))
      BY <3>1, ExpandedSections
    <3> QED
      BY <2>2, <3>1, <3>2
  <2> QED
    BY <2>1, <2>2
<1>3. \A i : part(i) \subseteq members /\ OnePerSpec(part(i))
  BY DEF InSection, Rest, OnePerSpec
<1>4. \A e \in members : \E i \in DOMAIN nav : e \in part(i)
  <2> SUFFICES ASSUME NEW e \in members PROVE \E i \in DOMAIN nav : e \in part(i)
    OBVIOUS
  <2>1. CASE \E i \in 1..n : titles[i] = Member[e].section
    BY <1>1, <2>1 DEF InSection
  <2>2. CASE ~\E i \in 1..n : titles[i] = Member[e].section
    <3>1. e \in Rest(titles, members)
      BY <1>0, <2>2 DEF Rest, Range
    <3>2. n + 1 \in DOMAIN nav /\ n + 1 \notin 1..n
      BY <1>1, <3>1
    <3> QED
      BY <3>1, <3>2
  <2> QED
    BY <2>1, <2>2
<1>5. \A i, j \in DOMAIN nav : \A e : e \in part(i) /\ e \in part(j) => i = j
  <2> SUFFICES ASSUME NEW i \in DOMAIN nav, NEW j \in DOMAIN nav, NEW e, e \in part(i), e \in part(j)
               PROVE  i = j
    OBVIOUS
  <2>1. \A k \in DOMAIN nav : e \in part(k) => (k \in 1..n <=> Member[e].section \in Range(titles))
    BY <1>0 DEF InSection, Rest, Range
  <2>2. CASE i \in 1..n /\ j \in 1..n
    BY <2>2 DEF InSection
  <2>3. CASE i \notin 1..n /\ j \notin 1..n
    <3>1. \A k \in 1..(n + 1) : k \notin 1..n => k = n + 1
      OBVIOUS
    <3> QED
      BY <1>1, <2>3, <3>1
  <2> QED
    BY <2>1, <2>2, <2>3
<1> HIDE DEF nav, part
<1>6. \A i \in DOMAIN nav : /\ nav[i].links \in [1..Cardinality(part(i)) -> part(i)]
                            /\ DOMAIN nav[i].links = 1..Cardinality(part(i))
  BY <1>2, <1>3, InOrderSorts
<1>7. ASSUME NEW at \in Slots(nav)
      PROVE  /\ at = <<at[1], at[2]>> /\ at[1] \in DOMAIN nav
             /\ at[2] \in 1..Cardinality(part(at[1])) /\ Link(nav, at) \in part(at[1])
  <2>1. PICK i \in DOMAIN nav : \E k \in DOMAIN nav[i].links : at = <<i, k>>
    BY SlotPairs
  <2>2. PICK k \in DOMAIN nav[i].links : at = <<i, k>>
    BY <2>1
  <2>3. k \in 1..Cardinality(part(i)) /\ nav[i].links[k] \in part(i)
    BY <1>6
  <2> QED
    BY <2>2, <2>3 DEF Link
<1>8. ASSUME NEW e \in members
      PROVE  \E at \in Slots(nav) : \A other \in Slots(nav) : Link(nav, other) = e <=> other = at
  <2>1. PICK i \in DOMAIN nav : e \in part(i)
    BY <1>4
  <2>2. PICK k \in 1..Cardinality(part(i)) :
               \A j \in 1..Cardinality(part(i)) : InOrder(part(i))[j] = e <=> j = k
    BY <1>3, <2>1, InOrderSorts
  <2>3. <<i, k>> \in Slots(nav)
    BY <1>6, SlotPairs
  <2>4. ASSUME NEW other \in Slots(nav) PROVE Link(nav, other) = e <=> other = <<i, k>>
    <3>1. CASE other[1] = i
      <4>1. Link(nav, other) = InOrder(part(i))[other[2]]
        BY <1>2, <3>1 DEF Link
      <4>2. Link(nav, other) = e <=> other[2] = k
        BY <1>7, <2>2, <3>1, <4>1
      <4> QED
        BY <1>7, <3>1, <4>2
    <3>2. CASE other[1] # i
      <4>1. Link(nav, other) \in part(other[1]) /\ other[1] \in DOMAIN nav
        BY <1>7
      <4>2. Link(nav, other) # e
        BY <1>5, <2>1, <3>2, <4>1
      <4> QED
        BY <3>2, <4>2
    <3> QED
      BY <3>1, <3>2
  <2> QED
    BY <2>3, <2>4
<1>9. \A at \in Slots(nav) : Link(nav, at) \in members
  BY <1>3, <1>7
<1> QED
  BY <1>8, <1>9 DEF nav
-----------------------------------------------------------------------------
(* The runs. *)

(***************************************************************************)
(* What the proofs need of the types; the rest of TypeOK is proved last.   *)
(***************************************************************************)
IsPage(w) ==
    /\ w = [kind |-> w.kind, by |-> w.by, kb |-> w.kb, nav |-> w.nav, to |-> w.to, newer |-> w.newer]
    /\ w.kind \in Kind
    /\ w.by \in Specs \cup {0}
    /\ w.kb \in Snapshot
    /\ w.nav \in Seq(HubSection)
    /\ w.to \in Pages \cup {NoParent} /\ (w.kind = "redirect" => w.to \in Pages)
    /\ w.newer \in SUBSET Specs

\* The steps of a run, and those in a spec's turn.
Steps  == {"idle", "specs", "guard", "retire", "docs", "load", "prune", "replace", "report"}
InTurn == {"specs", "guard", "retire"}

\* A redirect goes to a page, that of an orphan on to the page's parent.
TargetTyped ==
    /\ redirecting \in Pages \cup {NoParent}
    /\ pc \in {"retire", "replace"} => redirecting \in Pages
    /\ pc = "replace" => Parent[redirecting] # NoParent
    /\ raced \in BOOLEAN

Typed ==
    /\ kb \in Snapshot /\ snap \in Snapshot
    /\ store \in [Specs -> SpecFile] /\ specList \in [Specs -> SpecFile]
    /\ doc \in DocFile /\ docFile \in DocFile
    /\ wiki = [p \in Pages |-> wiki[p]] /\ \A p \in Pages : IsPage(wiki[p])
    /\ rs \in [Specs -> [has : BOOLEAN, known : BOOLEAN, commit : Snapshot]]
    /\ pc \in Steps
    /\ TargetTyped
    /\ docOK \in BOOLEAN
    /\ faults \in Nat

(***************************************************************************)
(* A run prunes with a whole view of the files, against the pages it owns  *)
(* itself: the view is that of the pull, and nothing widens it later.      *)
(***************************************************************************)
ViewInv ==
    /\ pc \in InTurn => todo \subseteq Listed
    /\ pc \in {"docs", "load", "prune", "replace", "report"} => todo = {}
    /\ pc \in {"prune", "replace"} => docOK /\ orphans \cap OwnedPages = {}
    /\ pc # "idle" /\ docOK /\ doc.on => docFile.on

\* While nothing failed, the spec that rendered a page knows its revision.
KnownInv ==
    faults = 0 /\ ReturnsRevID =>
        \A p \in Pages : wiki[p].kind = "render" /\ wiki[p].by \in Specs => rs[wiki[p].by].known

\* The pages pruning is responsible for.
Rendered == {p \in Pages : wiki[p].kind = "render" /\ Parent[p] # NoParent}

(***************************************************************************)
(* While nothing failed, every rendered page is in the manifest between    *)
(* runs, and within a run in the manifest, owned or still to be pruned.    *)
(***************************************************************************)
OrphanInv ==
    faults = 0 /\ Pruning =>
        /\ docOK
        /\ pc \in {"idle", "report"} => Rendered \subseteq manifest
        /\ pc \in InTurn \cup {"docs", "load"} => Rendered \subseteq manifest \cup OwnedPages
        /\ pc \in {"prune", "replace"} => Rendered \subseteq orphans \cup OwnedPages
        /\ pc = "report" /\ OwnedPages # {} => manifest = OwnedPages

(***************************************************************************)
(* What the checks found before a redirect still holds at the upload, if   *)
(* no human wrote the page in between: the orphan is none of the run's     *)
(* own and no text of a human's own, the leaf has no edit its record would *)
(* have shown.                                                             *)
(***************************************************************************)
WindowInv ==
    /\ pc = "replace" =>
         /\ redirecting \in orphans
         /\ ~raced => wiki[redirecting].kind # "human"
    /\ pc = "retire" =>
         /\ \A s \in Specs : At(s, "retire") => redirecting = PageOf(s)
         /\ ~raced /\ faults = 0 /\ ReturnsRevID => ~EditedLeaf(redirecting)

IInv == Typed /\ ViewInv /\ KnownInv /\ OrphanInv /\ WindowInv
-----------------------------------------------------------------------------
(* Types. *)

\* A redirect is a page the wiki may hold.
RedirectPage(p, newer) ==
    [kind |-> "redirect", by |-> 0, kb |-> Zero, nav |-> <<>>, to |-> p, newer |-> newer]

\* So is a render.
RenderPage(s, newer) ==
    [kind |-> "render", by |-> s, kb |-> RenderOf(s).kb, nav |-> RenderOf(s).nav,
     to |-> NoParent, newer |-> newer]

\* What a write leaves on a page.
LEMMA WrittenPages ==
    ASSUME NEW p \in Pages, NEW newer
    PROVE  /\ \A q : Written(p, RedirectTo(q), newer) =>
                 wiki' = [wiki EXCEPT ![p] = RedirectPage(q, newer)]
           /\ \A s : Written(p, RenderOf(s), newer) =>
                 wiki' = [wiki EXCEPT ![p] = RenderPage(s, newer)]
BY DEF Written, RedirectTo, RenderOf, RedirectPage, RenderPage

\* The entries buildNavMap collects are of listed specs, one of each, and of the cluster.
LEMMA NavEntries == Typed => \A p : OnePerSpec(Members(NavPages, p))
<1> SUFFICES ASSUME Typed, NEW p PROVE OnePerSpec(Members(NavPages, p))
  OBVIOUS
<1>1. 0 \notin Specs /\ Listed \subseteq Specs /\ DocPage \in Pages
  BY NavAssumption, RunAssumption DEF Listed
<1>2. \A s \in Listed : specList[s].page \in Pages
  BY <1>1 DEF Typed, SpecFile
<1>3. \A e \in NavPages : \/ \E s \in Listed : e = <<s, specList[s].page>>
                          \/ e = <<0, DocPage>>
  BY DEF NavPages
<1>4. NavPages \subseteq Entries
  BY <1>1, <1>2, <1>3 DEF Entries
<1>5. \A e, f \in NavPages : e[1] = f[1] => e = f
  BY <1>1, <1>3
<1> QED
  BY <1>4, <1>5 DEF Members, OnePerSpec

\* So the sections of an auto hub are sections with links to entries.
LEMMA RenderNav == Typed => \A s \in Specs \cup {0} : RenderOf(s).nav \in Seq(HubSection)
<1> SUFFICES ASSUME Typed, NEW s \in Specs \cup {0} PROVE RenderOf(s).nav \in Seq(HubSection)
  OBVIOUS
<1>1. PICK n \in Nat : HubTitles \in [1..n -> Nat]
  <2>1. HubTitles \in Seq(Nat)
    BY RunAssumption
  <2> QED
    BY <2>1
<1>2. ExpandAuto(HubTitles, Members(NavPages, specList[s].page)) \in Seq(HubSection)
  BY <1>1, NavEntries, ExpandedSections
<1> QED
  BY <1>2 DEF RenderOf

LEMMA WrittenTyped ==
    /\ \A q \in Pages : \A newer \in SUBSET Specs : IsPage(RedirectPage(q, newer))
    /\ Typed => \A s \in Specs \cup {0} : \A newer \in SUBSET Specs : IsPage(RenderPage(s, newer))
<1>1. Zero \in Snapshot
  BY DEF Zero, Snapshot
<1>2. ASSUME Typed, NEW s \in Specs \cup {0} PROVE RenderOf(s).kb \in Snapshot
  BY <1>2 DEF RenderOf, Typed, Snapshot
<1>3. \A q \in Pages : \A newer \in SUBSET Specs : IsPage(RedirectPage(q, newer))
  BY <1>1 DEF IsPage, RedirectPage, Kind
<1>4. Typed => \A s \in Specs \cup {0} : \A newer \in SUBSET Specs : IsPage(RenderPage(s, newer))
  BY <1>2, RenderNav DEF IsPage, RenderPage, Kind
<1> QED
  BY <1>3, <1>4

\* The pages stay pages whoever writes them.
LEMMA KeepsPages ==
    ASSUME Typed, NEW p \in Pages, NEW w, IsPage(w), wiki' = [wiki EXCEPT ![p] = w]
    PROVE  /\ wiki' = [q \in Pages |-> wiki'[q]] /\ wiki'[p] = w
           /\ \A q \in Pages : IsPage(wiki'[q]) /\ (q # p => wiki'[q] = wiki[q])
BY DEF Typed, IsPage

\* What a human leaves of a page.
EditedPage(w, kind) ==
    [kind |-> kind, by |-> w.by, kb |-> w.kb, nav |-> w.nav, to |-> w.to, newer |-> Specs]

\* An edit keeps all of a page but its last editor, a takeover its kind neither.
LEMMA HumanPages ==
    ASSUME Typed, NEW p \in Pages
    PROVE  /\ HumanEdit(p) => wiki' = [wiki EXCEPT ![p] = EditedPage(wiki[p], wiki[p].kind)]
           /\ \A kind : HumanTakeover(p, kind) => wiki' = [wiki EXCEPT ![p] = EditedPage(wiki[p], kind)]
           /\ \A kind \in Takeover \cup {wiki[p].kind} : IsPage(EditedPage(wiki[p], kind))
<1>0. IsPage(wiki[p])
  BY DEF Typed
<1>1. PICK w : w = wiki[p] /\ IsPage(w)
  BY <1>0
<1>2. [w EXCEPT !.newer = Specs] = EditedPage(w, w.kind)
  BY <1>1 DEF IsPage, EditedPage
<1>3. ASSUME NEW kind PROVE [w EXCEPT !.kind = kind, !.newer = Specs] = EditedPage(w, kind)
  <2> DEFINE v == [kind |-> kind, by |-> w.by, kb |-> w.kb, nav |-> w.nav, to |-> w.to,
                   newer |-> w.newer]
  <2>1. [w EXCEPT !.kind = kind] = v
    BY <1>1 DEF IsPage
  <2>2. [w EXCEPT !.kind = kind, !.newer = Specs] = [[w EXCEPT !.kind = kind] EXCEPT !.newer = Specs]
    OBVIOUS
  <2>3. [v EXCEPT !.newer = Specs] = EditedPage(w, kind)
    BY DEF EditedPage
  <2> QED
    BY <2>1, <2>2, <2>3
<1>4. \A kind \in Takeover \cup {w.kind} : IsPage(EditedPage(w, kind))
  BY <1>1 DEF IsPage, EditedPage, Kind, Takeover
<1>5. HumanEdit(p) => wiki' = [wiki EXCEPT ![p] = [w EXCEPT !.newer = Specs]]
  BY <1>1 DEF HumanEdit
<1>6. ASSUME NEW kind, HumanTakeover(p, kind)
      PROVE  wiki' = [wiki EXCEPT ![p] = [w EXCEPT !.kind = kind, !.newer = Specs]]
  BY <1>1, <1>6 DEF HumanTakeover
<1>7. HumanEdit(p) => wiki' = [wiki EXCEPT ![p] = EditedPage(wiki[p], wiki[p].kind)]
  BY <1>1, <1>2, <1>5
<1>8. ASSUME NEW kind, HumanTakeover(p, kind)
      PROVE  wiki' = [wiki EXCEPT ![p] = EditedPage(wiki[p], kind)]
  <2>1. wiki' = [wiki EXCEPT ![p] = [w EXCEPT !.kind = kind, !.newer = Specs]]
    BY <1>6, <1>8
  <2>2. [w EXCEPT !.kind = kind, !.newer = Specs] = EditedPage(w, kind)
    BY <1>3
  <2> QED
    BY <1>1, <2>1, <2>2
<1> QED
  BY <1>1, <1>4, <1>7, <1>8

\* At the start there are files, no pages and no records.
LEMMA InitTyped == Init => Typed
<1> SUFFICES ASSUME Init PROVE Typed
  OBVIOUS
<1> USE NavAssumption, RunAssumption DEF Init
<1>1. Zero \in Snapshot /\ kb \in Snapshot
  BY DEF Zero, Snapshot
<1>2. wiki = [p \in Pages |-> wiki[p]] /\ \A p \in Pages : IsPage(wiki[p])
  <2> DEFINE blank == [kind |-> "none", by |-> 0, kb |-> Zero, nav |-> <<>>, to |-> NoParent, newer |-> {}]
  <2>1. IsPage(blank)
    <3>1. <<>> \in Seq(HubSection)
      OBVIOUS
    <3> QED
      BY <1>1, <3>1 DEF IsPage, Kind
  <2>2. wiki = [p \in Pages |-> blank]
    OBVIOUS
  <2> HIDE DEF blank
  <2> QED
    BY <2>1, <2>2
<1>3. store \in [Specs -> SpecFile] /\ specList \in [Specs -> SpecFile]
  BY DEF SpecFile
<1>4. doc \in DocFile /\ docFile \in DocFile
  BY DEF DocFile, NoDoc
<1>5. rs \in [Specs -> [has : BOOLEAN, known : BOOLEAN, commit : Snapshot]]
  BY <1>1 DEF NoState
<1>6. docOK \in BOOLEAN /\ pc \in Steps /\ TargetTyped
  BY DEF Steps, TargetTyped
<1> QED
  BY <1>1, <1>2, <1>3, <1>4, <1>5, <1>6 DEF Typed

\* A step that leaves pages, records and files as they are keeps them typed.
LEMMA KeepsTypes ==
    ASSUME Typed, UNCHANGED <<kb, snap, store, specList, doc, docFile, wiki, rs, docOK>>,
           pc' \in Steps, TargetTyped', faults' \in Nat
    PROVE  Typed'
BY DEF Typed, IsPage

\* The records after a spec's turn.
LEMMA RecordTyped ==
    ASSUME Typed, NEW s \in Specs, NEW wrote \in BOOLEAN, Record(s, wrote)
    PROVE  /\ rs' \in [Specs -> [has : BOOLEAN, known : BOOLEAN, commit : Snapshot]]
           /\ \A t \in Specs : t # s => rs'[t] = rs[t]
           /\ rs'[s].has /\ rs'[s].commit = snap
           /\ rs'[s].known = IF wrote THEN ReturnsRevID ELSE rs[s].known
<1> DEFINE r == [has |-> TRUE, known |-> IF wrote THEN ReturnsRevID ELSE rs[s].known, commit |-> snap]
<1>1. rs' = [rs EXCEPT ![s] = r]
  BY DEF Record
<1>2. (IF wrote THEN ReturnsRevID ELSE rs[s].known) \in BOOLEAN
  BY RunAssumption DEF Typed
<1>3. r \in [has : BOOLEAN, known : BOOLEAN, commit : Snapshot]
  BY <1>2 DEF Typed
<1> HIDE DEF r
<1>4. rs'[s] = r /\ rs' \in [Specs -> [has : BOOLEAN, known : BOOLEAN, commit : Snapshot]]
      /\ \A t \in Specs : t # s => rs'[t] = rs[t]
  BY <1>1, <1>3 DEF Typed
<1> QED
  BY <1>4 DEF r
-----------------------------------------------------------------------------
(* A spec's turn leaves its page, redirects it or renders it. *)

Faults == faults' = faults \/ faults' = faults + 1

Leaves(s) ==
    /\ wiki' = wiki
    /\ \/ s \in failed' /\ rs' = rs
       \/ rs' = rs /\ ~Exempt(s) /\ s \notin Misrouted /\ DiffDrivenSkip(s)
       \/ Superseded(PageOf(s)) /\ (rs' = rs \/ Record(s, FALSE))
       \/ ContentOf(PageOf(s)) = RenderOf(s) /\ s \notin Misrouted /\ (rs' = rs \/ Record(s, FALSE))

Redirects(s) ==
    /\ Superseded(PageOf(s))
    /\ \E newer \in SUBSET Specs : wiki' = [wiki EXCEPT ![PageOf(s)] = RedirectPage(DocPage, newer)]
    /\ rs' = rs \/ Record(s, TRUE)

Renders(s) ==
    /\ s \notin Misrouted
    /\ \E newer \in SUBSET Specs : wiki' = [wiki EXCEPT ![PageOf(s)] = RenderPage(s, newer)]
    /\ (rs' = rs /\ faults' # 0) \/ Record(s, TRUE)

\* The turn of spec s ends, from whichever step it has reached.
Ends(s) == pc \in InTurn /\ At(s, pc) /\ Done(s)

Outcome(s) ==
    /\ Ends(s)
    /\ Faults
    /\ failed \subseteq failed' /\ failed' \subseteq failed \cup {s}
    /\ Leaves(s) \/ Redirects(s) \/ Renders(s)

SpecTurn(s) ==
    \/ RejectMisrouted(s) \/ LeafStays(s) \/ LeafBlocked(s) \/ RedirectLeaf(s)
    \/ SkipSpec(s) \/ DiffError(s) \/ ProcessSpec(s)

\* A call of retireLeaf that only reads.
Checks(s) == GetLeaf(s) \/ LeafNotBlocked(s)

\* The actions that end a spec's turn have these outcomes only.
LEMMA TurnOutcome ==
    ASSUME Typed, NEW s \in Specs, SpecTurn(s) PROVE Outcome(s)
<1>0. PageOf(s) \in Pages
  BY DEF PageOf, Typed, SpecFile
<1>9. (Fault => faults' # 0 /\ Faults) /\ (NoFault => Faults)
  BY DEF Typed, Fault, NoFault, Faults
<1>10. wiki[PageOf(s)].newer \in SUBSET Specs /\ wiki[PageOf(s)].newer \ {s} \in SUBSET Specs
  BY <1>0 DEF Typed, IsPage
<1>7. Turn(s) => Ends(s)
  BY DEF Turn, Ends, At, InTurn
<1>8. ASSUME NEW step \in InTurn, RetiringLeaf(s, step), Done(s) PROVE Ends(s) /\ Superseded(PageOf(s))
  BY <1>8 DEF RetiringLeaf, Ends, At
<1> USE <1>7, <1>9 DEF Outcome
<1>1. CASE RejectMisrouted(s)
  BY <1>1 DEF RejectMisrouted, Leaves
<1>2. CASE SkipSpec(s)
  BY <1>2 DEF SkipSpec, Leaves
<1>3. CASE DiffError(s)
  <2>1. wiki' = [wiki EXCEPT ![PageOf(s)] = RenderPage(s, wiki[PageOf(s)].newer \ {s})]
    BY <1>0, <1>3, WrittenPages DEF DiffError
  <2> QED
    BY <1>3, <1>10, <2>1 DEF DiffError, Renders
<1>4. CASE LeafStays(s) \/ LeafBlocked(s)
  <2>1. Superseded(PageOf(s)) /\ Ends(s)
    BY <1>4, <1>8 DEF LeafStays, LeafBlocked, InTurn
  <2> QED
    BY <1>4, <2>1 DEF LeafStays, LeafBlocked, RecordedNoOp, Leaves
<1>5. CASE RedirectLeaf(s)
  <2>0. Superseded(PageOf(s)) /\ Ends(s)
    BY <1>5, <1>8 DEF RedirectLeaf, InTurn
  <2>1. CASE RecordedWrite(s, PageOf(s), RedirectTo(DocPage))
    <3>1. \E newer \in SUBSET Specs : wiki' = [wiki EXCEPT ![PageOf(s)] = RedirectPage(DocPage, newer)]
      BY <1>0, <1>10, <2>1, WrittenPages DEF RecordedWrite
    <3> QED
      BY <2>0, <2>1, <3>1 DEF RecordedWrite, Redirects
  <2>2. CASE FailedWrite(s, PageOf(s), RedirectTo(DocPage))
    <3>1. \/ wiki' = wiki
          \/ \E newer \in SUBSET Specs : wiki' = [wiki EXCEPT ![PageOf(s)] = RedirectPage(DocPage, newer)]
      BY <1>0, <1>10, <2>2, WrittenPages DEF FailedWrite
    <3> QED
      BY <2>0, <2>2, <3>1 DEF FailedWrite, Redirects, Leaves
  <2> QED
    BY <1>5, <2>1, <2>2 DEF RedirectLeaf
<1>6. CASE ProcessSpec(s)
  <2>1. CASE ContentOf(PageOf(s)) = RenderOf(s) /\ RecordedNoOp(s)
    BY <1>6, <2>1 DEF ProcessSpec, RecordedNoOp, Leaves
  <2>2. CASE RecordedWrite(s, PageOf(s), RenderOf(s))
    <3>1. \E newer \in SUBSET Specs : wiki' = [wiki EXCEPT ![PageOf(s)] = RenderPage(s, newer)]
      <4>1. ASSUME NEW newer \in SUBSET Specs, Written(PageOf(s), RenderOf(s), newer)
            PROVE  wiki' = [wiki EXCEPT ![PageOf(s)] = RenderPage(s, newer)]
        BY <1>0, <4>1, WrittenPages
      <4> QED
        BY <1>10, <2>2, <4>1 DEF RecordedWrite
    <3> QED
      BY <1>0, <1>6, <2>2, <3>1 DEF ProcessSpec, RecordedWrite, Renders
  <2>3. CASE FailedWrite(s, PageOf(s), RenderOf(s))
    <3>1. \/ wiki' = wiki
          \/ \E newer \in SUBSET Specs : wiki' = [wiki EXCEPT ![PageOf(s)] = RenderPage(s, newer)]
      BY <1>0, <1>10, <2>3, WrittenPages DEF FailedWrite
    <3> QED
      BY <1>0, <1>6, <2>3, <3>1 DEF ProcessSpec, FailedWrite, Renders, Leaves
  <2> QED
    BY <1>6, <2>1, <2>2, <2>3 DEF ProcessSpec
<1> QED
  BY <1>1, <1>2, <1>3, <1>4, <1>5, <1>6 DEF SpecTurn

\* The page of the spec after its turn, and the others.
LEMMA TurnPages ==
    ASSUME Typed, NEW s \in Specs, Outcome(s)
    PROVE  /\ wiki' = [p \in Pages |-> wiki'[p]] /\ \A p \in Pages : IsPage(wiki'[p])
           /\ \A p \in Pages : p # PageOf(s) => wiki'[p] = wiki[p]
           /\ PageOf(s) \in Pages
           /\ Redirects(s) => wiki'[PageOf(s)].kind = "redirect"
           /\ Renders(s) => \E newer \in SUBSET Specs : wiki'[PageOf(s)] = RenderPage(s, newer)
           /\ rs' \in [Specs -> [has : BOOLEAN, known : BOOLEAN, commit : Snapshot]]
           /\ \A t \in Specs : t # s => rs'[t] = rs[t]
           /\ rs'[s] # rs[s] => rs'[s].has /\ rs'[s].commit = snap
           /\ rs[s].known /\ ReturnsRevID => rs'[s].known
<1>0. PageOf(s) \in Pages
  BY DEF PageOf, Typed, SpecFile
<1>1. rs' = rs \/ \E wrote \in BOOLEAN : Record(s, wrote)
  BY DEF Outcome, Leaves, Redirects, Renders
<1> DEFINE Records ==
      /\ rs' \in [Specs -> [has : BOOLEAN, known : BOOLEAN, commit : Snapshot]]
      /\ \A t \in Specs : t # s => rs'[t] = rs[t]
      /\ rs'[s] # rs[s] => rs'[s].has /\ rs'[s].commit = snap
      /\ rs[s].known /\ ReturnsRevID => rs'[s].known
<1>2. Records
  <2>1. CASE rs' = rs
    BY <2>1 DEF Typed
  <2>2. ASSUME NEW wrote \in BOOLEAN, Record(s, wrote)
        PROVE  Records
    BY <2>2, RecordTyped
  <2> QED
    BY <1>1, <2>1, <2>2
<1>3. \/ wiki' = wiki /\ ~Redirects(s) /\ ~Renders(s)
      \/ \E newer \in SUBSET Specs : wiki' = [wiki EXCEPT ![PageOf(s)] = RedirectPage(DocPage, newer)]
      \/ \E newer \in SUBSET Specs : wiki' = [wiki EXCEPT ![PageOf(s)] = RenderPage(s, newer)]
  BY DEF Outcome, Leaves, Redirects, Renders
<1>4. \A newer \in SUBSET Specs : IsPage(RedirectPage(DocPage, newer)) /\ IsPage(RenderPage(s, newer))
  BY WrittenTyped, RunAssumption
<1> DEFINE Others ==
      /\ wiki' = [p \in Pages |-> wiki'[p]]
      /\ \A p \in Pages : IsPage(wiki'[p]) /\ (p # PageOf(s) => wiki'[p] = wiki[p])
<1>5. Others
  <2>1. CASE wiki' = wiki
    BY <2>1 DEF Typed, IsPage
  <2>2. ASSUME NEW newer \in SUBSET Specs, wiki' = [wiki EXCEPT ![PageOf(s)] = RedirectPage(DocPage, newer)]
        PROVE  Others
    BY <1>0, <1>4, <2>2, KeepsPages
  <2>3. ASSUME NEW newer \in SUBSET Specs, wiki' = [wiki EXCEPT ![PageOf(s)] = RenderPage(s, newer)]
        PROVE  Others
    BY <1>0, <1>4, <2>3, KeepsPages
  <2> QED
    BY <1>3, <2>1, <2>2, <2>3
<1>6. Redirects(s) => wiki'[PageOf(s)].kind = "redirect"
  BY <1>0 DEF Redirects, RedirectPage, Typed
<1>7. Renders(s) => \E newer \in SUBSET Specs : wiki'[PageOf(s)] = RenderPage(s, newer)
  BY <1>0 DEF Renders, Typed
<1> QED
  BY <1>0, <1>2, <1>5, <1>6, <1>7
-----------------------------------------------------------------------------
(* The steps that change a page, apart from a spec's turn. *)

\* runDocSpecs writes the cluster page or nothing.
LEMMA DocStep ==
    ASSUME Typed, RunDocSpecs
    PROVE  /\ Faults
           /\ \/ wiki' = wiki
              \/ docFile.on /\ \E newer \in SUBSET Specs : wiki' = [wiki EXCEPT ![DocPage] = RenderPage(0, newer)]
<1>1. ASSUME NEW newer \in SUBSET Specs, Written(DocPage, RenderOf(0), newer)
      PROVE  wiki' = [wiki EXCEPT ![DocPage] = RenderPage(0, newer)]
  BY <1>1, WrittenPages, RunAssumption
<1>2. wiki[DocPage].newer \in SUBSET Specs
  BY RunAssumption DEF Typed, IsPage
<1> QED
  BY <1>1, <1>2 DEF RunDocSpecs, Faults, Fault, NoFault

\* retireOrphan reads an orphan and drops it, or goes on to redirect it.
LEMMA OrphanRead ==
    ASSUME Typed, NEW p \in Pages, GetOrphan(p)
    PROVE  /\ Faults /\ wiki' = wiki /\ pc = "prune" /\ p \in orphans
           /\ \/ pc' = "prune" /\ orphans' = orphans \ {p} /\ (Retirable(p) => faults' # 0)
              \/ pc' = "replace" /\ redirecting' = p /\ orphans' = orphans /\ raced' = raced /\ Retirable(p)
BY DEF GetOrphan, Faults, Fault, NoFault, Typed

\* Then it is a redirect, or left as it is by a call that failed.
LEMMA OrphanStep ==
    ASSUME Typed, NEW p \in Pages, RedirectOrphan(p)
    PROVE  /\ Faults /\ Parent[p] \in Pages
           /\ \/ wiki' = wiki /\ faults' # 0
              \/ \E newer \in SUBSET Specs : wiki' = [wiki EXCEPT ![p] = RedirectPage(Parent[p], newer)]
<1>1. ASSUME NEW newer \in SUBSET Specs, Written(p, RedirectTo(Parent[p]), newer)
      PROVE  wiki' = [wiki EXCEPT ![p] = RedirectPage(Parent[p], newer)]
  BY <1>1, WrittenPages
<1>2. Fault => faults' # 0
  BY DEF Fault, Typed
<1>3. wiki[p].newer \in SUBSET Specs
  BY DEF Typed, IsPage
<1>4. Parent[p] \in Pages
  BY NavAssumption DEF RedirectOrphan, Typed, TargetTyped
<1> QED
  BY <1>1, <1>2, <1>3, <1>4 DEF RedirectOrphan, Faults, Fault, NoFault

\* The reading steps of retireLeaf move the run on, and nothing else.
LEMMA CheckStep ==
    ASSUME Typed, NEW s \in Specs, Checks(s)
    PROVE  /\ Faults /\ pc \in {"specs", "guard"} /\ pc' \in {"guard", "retire"}
           /\ pc' = "retire" => redirecting' = PageOf(s)
           /\ s \in todo /\ \A t \in todo : s <= t
           /\ UNCHANGED <<kb, store, doc, wiki, rs, manifest, snap, specList, docFile, docOK, todo, orphans,
                          failed, raced, changes>>
BY DEF Checks, GetLeaf, LeafNotBlocked, RetiringLeaf, ToRedirect, At, env, Faults, Fault, NoFault

\* Whatever a step does to the pages, they stay pages.
LEMMA NextPages ==
    ASSUME Typed, Next PROVE wiki' = [p \in Pages |-> wiki'[p]] /\ \A p \in Pages : IsPage(wiki'[p])
<1> DEFINE Goal == wiki' = [p \in Pages |-> wiki'[p]] /\ \A p \in Pages : IsPage(wiki'[p])
<1>1. ASSUME NEW s \in Specs, SpecTurn(s) PROVE Goal
  BY <1>1, TurnOutcome, TurnPages
<1>2. CASE RunDocSpecs
  <2>1. CASE wiki' = wiki
    BY <2>1 DEF Typed, IsPage
  <2>2. ASSUME NEW newer \in SUBSET Specs, wiki' = [wiki EXCEPT ![DocPage] = RenderPage(0, newer)] PROVE Goal
    BY <2>2, WrittenTyped, KeepsPages, RunAssumption
  <2> QED
    BY <1>2, <2>1, <2>2, DocStep
<1>3. ASSUME NEW p \in Pages, RedirectOrphan(p) PROVE Goal
  <2>1. CASE wiki' = wiki
    BY <2>1 DEF Typed, IsPage
  <2>2. ASSUME NEW newer \in SUBSET Specs, Parent[p] \in Pages,
               wiki' = [wiki EXCEPT ![p] = RedirectPage(Parent[p], newer)]
        PROVE  Goal
    <3>1. IsPage(RedirectPage(Parent[p], newer))
      BY <2>2, WrittenTyped
    <3> QED
      BY <2>2, <3>1, KeepsPages
  <2> QED
    BY <1>3, <2>1, <2>2, OrphanStep
<1>4. ASSUME NEW p \in Pages, HumanEdit(p) \/ \E kind \in Takeover : HumanTakeover(p, kind) PROVE Goal
  <2>1. PICK kind \in Takeover \cup {wiki[p].kind} : wiki' = [wiki EXCEPT ![p] = EditedPage(wiki[p], kind)]
    BY <1>4, HumanPages
  <2> QED
    BY <2>1, HumanPages, KeepsPages
<1>5. CASE wiki' = wiki
  BY <1>5 DEF Typed, IsPage
<1>6. \/ \E s \in Specs : SpecTurn(s)
      \/ RunDocSpecs
      \/ \E p \in Pages : RedirectOrphan(p) \/ HumanEdit(p) \/ \E kind \in Takeover : HumanTakeover(p, kind)
      \/ wiki' = wiki
  <2>1. \A s \in Specs : Checks(s) => wiki' = wiki
    BY CheckStep
  <2>2. \A p \in Pages : GetOrphan(p) => wiki' = wiki
    BY OrphanRead
  <2> QED
    BY <2>1, <2>2 DEF Next, RunStep, SpecStep, SpecTurn, Checks, WorldStep, Pull, SpecsDone, LoadManifest,
         SaveManifest, Report, PullError, Crash, KBCommit, RemoveSpec, RestoreSpec, RenamePage, ToggleSupersede, RemoveDoc
<1> QED
  BY <1>1, <1>2, <1>3, <1>4, <1>5, <1>6

\* Every step keeps the types.
LEMMA NextTyped == ASSUME Typed, Next PROVE Typed'
<1> USE DEF Fault, NoFault, env, run, upload, Steps, TargetTyped
<1>0. wiki' = [p \in Pages |-> wiki'[p]] /\ \A p \in Pages : IsPage(wiki'[p])
  BY NextPages
<1>1. ASSUME NEW s \in Specs, SpecTurn(s) PROVE Typed'
  <2>1. Outcome(s)
    BY <1>1, TurnOutcome
  <2>2. rs' \in [Specs -> [has : BOOLEAN, known : BOOLEAN, commit : Snapshot]]
    BY <2>1, TurnPages
  <2>3. /\ UNCHANGED <<kb, store, doc, snap, specList, docFile, docOK>> /\ pc' = "specs"
        /\ redirecting' = NoParent /\ raced' = FALSE
    BY <2>1 DEF Outcome, Ends, Done
  <2>4. faults' \in Nat
    BY <2>1 DEF Outcome, Faults, Typed
  <2> QED
    BY <1>0, <2>2, <2>3, <2>4 DEF Typed
<1>2. CASE RunDocSpecs
  BY <1>0, <1>2, DocStep DEF RunDocSpecs, Faults, Typed
<1>3. ASSUME NEW p \in Pages, GetOrphan(p) \/ RedirectOrphan(p) PROVE Typed'
  <2>1. CASE GetOrphan(p)
    BY <1>0, <2>1, OrphanRead DEF GetOrphan, Retirable, Faults, Typed
  <2>2. CASE RedirectOrphan(p)
    <3>1. /\ UNCHANGED <<kb, store, doc, snap, specList, docFile, docOK, rs>> /\ pc' = "prune"
          /\ redirecting' = NoParent /\ raced' = FALSE
      BY <2>2 DEF RedirectOrphan
    <3>2. faults' \in Nat
      BY <2>2, OrphanStep DEF Faults, Typed
    <3> QED
      BY <1>0, <3>1, <3>2 DEF Typed
  <2> QED
    BY <1>3, <2>1, <2>2
<1>10. ASSUME NEW s \in Specs, Checks(s) PROVE Typed'
  <2>1. PageOf(s) \in Pages
    BY DEF PageOf, Typed, SpecFile
  <2>2. TargetTyped'
    BY <1>10, <2>1, CheckStep DEF Checks, GetLeaf, LeafNotBlocked, ToRedirect, Typed
  <2> QED
    BY <1>10, <2>2, CheckStep, KeepsTypes DEF Faults, Typed
<1>4. CASE Pull
  <2>1. docOK' \in BOOLEAN
    BY <1>4 DEF Pull
  <2>2. NoDoc \in DocFile
    BY DEF DocFile, NoDoc
  <2>3. docFile' \in DocFile
    BY <1>4, <2>2 DEF Pull, Typed
  <2> QED
    BY <1>0, <1>4, <2>1, <2>3 DEF Pull, Typed
<1>5. CASE SpecsDone \/ LoadManifest \/ SaveManifest \/ Report \/ PullError \/ Crash
  <2>1. /\ UNCHANGED <<kb, snap, store, specList, doc, docFile, wiki, rs, docOK>>
        /\ (pc' = pc /\ UNCHANGED upload) \/ pc' \in {"idle", "docs", "prune", "report"}
        /\ UNCHANGED upload \/ (redirecting' = NoParent /\ raced' = FALSE)
        /\ faults' = faults \/ faults' = faults + 1
    BY <1>5 DEF SpecsDone, LoadManifest, SaveManifest, Report, PullError, Crash
  <2>2. pc' \in Steps /\ faults' \in Nat
    BY <2>1 DEF Typed
  <2>3. TargetTyped'
    <3>1. CASE UNCHANGED upload
      BY <2>1, <3>1 DEF Typed
    <3>2. CASE redirecting' = NoParent /\ raced' = FALSE
      BY <2>1, <3>2 DEF Typed
    <3> QED
      BY <2>1, <3>1, <3>2
  <2> QED
    BY <2>1, <2>2, <2>3, KeepsTypes
<1>6. ASSUME NEW a \in Areas, KBCommit(a) PROVE Typed'
  BY <1>0, <1>6 DEF KBCommit, Change, Typed, Snapshot
<1>7. ASSUME NEW s \in Specs, NEW p \in Pages, RemoveSpec(s) \/ RestoreSpec(s) \/ RenamePage(s, p)
      PROVE  Typed'
  <2>1. \A f \in SpecFile : /\ [f EXCEPT !.on = FALSE] \in SpecFile
                            /\ [f EXCEPT !.on = TRUE] \in SpecFile
                            /\ [f EXCEPT !.page = p] \in SpecFile
    BY DEF SpecFile
  <2>2. store' \in [Specs -> SpecFile]
    <3>1. \E f \in SpecFile : store' = [store EXCEPT ![s] = f]
      <4>1. store[s] \in SpecFile
        BY DEF Typed
      <4>2. CASE RemoveSpec(s)
        BY <4>1, <4>2, <2>1 DEF RemoveSpec
      <4>3. CASE RestoreSpec(s)
        BY <4>1, <4>3, <2>1 DEF RestoreSpec
      <4>4. CASE RenamePage(s, p)
        BY <4>1, <4>4, <2>1 DEF RenamePage
      <4> QED
        BY <1>7, <4>2, <4>3, <4>4
    <3> QED
      BY <3>1 DEF Typed
  <2> QED
    BY <1>0, <1>7, <2>2 DEF RemoveSpec, RestoreSpec, RenamePage, Change, Typed
<1>8. ASSUME NEW p \in Pages, ToggleSupersede(p) \/ RemoveDoc PROVE Typed'
  <2>1. CASE ToggleSupersede(p)
    <3>1. (IF p \in doc.supersedes THEN doc.supersedes \ {p} ELSE doc.supersedes \cup {p}) \in SUBSET Pages
      BY DEF Typed, DocFile
    <3>2. doc' \in DocFile
      BY <2>1, <3>1 DEF ToggleSupersede, Typed, DocFile
    <3> QED
      BY <1>0, <2>1, <3>2 DEF ToggleSupersede, Change, Typed
  <2>2. CASE RemoveDoc
    <3>1. NoDoc \in DocFile
      BY DEF DocFile, NoDoc
    <3> QED
      BY <1>0, <2>2, <3>1 DEF RemoveDoc, Change, Typed
  <2> QED
    BY <1>8, <2>1, <2>2
<1>9. ASSUME NEW p \in Pages, HumanEdit(p) \/ \E kind \in Takeover : HumanTakeover(p, kind) PROVE Typed'
  BY <1>0, <1>9 DEF HumanEdit, HumanTakeover, Change, Typed
<1> QED
  BY <1>1, <1>2, <1>3, <1>4, <1>5, <1>6, <1>7, <1>8, <1>9, <1>10, RunAssumption
     DEF Next, RunStep, SpecStep, SpecTurn, Checks, WorldStep
-----------------------------------------------------------------------------
(* The run's view of the files. *)

\* Every step but the pull keeps what the run has listed, and with it what it owns.
LEMMA KeepsView ==
    ASSUME UNCHANGED <<specList, docFile>>
    PROVE  Listed' = Listed /\ OwnedPages' = OwnedPages
BY DEF Listed, OwnedPages

\* A step of the world changes no part of the run, and turns the doc-spec off at most.
LEMMA WorldView ==
    ASSUME Typed, WorldStep
    PROVE  /\ UNCHANGED <<rs, manifest, pc, snap, specList, docFile, docOK, todo, orphans, failed,
                          redirecting, faults>>
           /\ doc'.on => doc.on
           /\ raced => raced'
<1>1. \E kind, written : Change(kind, written)
  BY DEF WorldStep, KBCommit, RemoveSpec, RestoreSpec, RenamePage, ToggleSupersede, RemoveDoc,
         HumanEdit, HumanTakeover
<1>2. ASSUME NEW p \in Pages, ToggleSupersede(p) PROVE doc'.on => doc.on
  BY <1>2 DEF ToggleSupersede
<1>3. RemoveDoc => (doc'.on => doc.on)
  BY DEF RemoveDoc, NoDoc
<1>4. doc' = doc \/ RemoveDoc \/ \E p \in Pages : ToggleSupersede(p)
  BY DEF WorldStep, KBCommit, RemoveSpec, RestoreSpec, RenamePage, HumanEdit, HumanTakeover
<1> QED
  BY <1>1, <1>2, <1>3, <1>4 DEF Change, run

\* Every step keeps the run's view whole.
LEMMA NextViewInv == ASSUME Typed, ViewInv, Next PROVE ViewInv'
<1> USE DEF env, run, upload, InTurn
<1>1. CASE WorldStep
  BY <1>1, WorldView, KeepsView DEF ViewInv
<1>2. CASE Pull
  BY <1>2 DEF Pull, ViewInv, Listed, NoDoc
<1>3. ASSUME NEW s \in Specs, SpecTurn(s) PROVE ViewInv'
  <2>1. Ends(s)
    BY <1>3, TurnOutcome DEF Outcome
  <2> QED
    BY <2>1, KeepsView DEF Ends, At, Done, ViewInv
<1>4. CASE LoadManifest
  <2>1. UNCHANGED <<specList, docFile, docOK, doc, todo>> /\ pc = "load"
    BY <1>4 DEF LoadManifest
  <2>2. pc' = "prune" => docOK /\ orphans' \cap OwnedPages = {}
    BY <1>4 DEF LoadManifest, MayPrune
  <2>3. pc' \in {"prune", "report"}
    BY <1>4 DEF LoadManifest
  <2> QED
    BY <2>1, <2>2, <2>3, KeepsView DEF ViewInv
<1>5. ASSUME NEW p \in Pages, GetOrphan(p) \/ RedirectOrphan(p) PROVE ViewInv'
  BY <1>5, KeepsView DEF GetOrphan, RedirectOrphan, ViewInv
<1>7. ASSUME NEW s \in Specs, Checks(s) PROVE ViewInv'
  BY <1>7, CheckStep, KeepsView DEF ViewInv
<1>6. CASE SpecsDone \/ RunDocSpecs \/ SaveManifest \/ Report \/ PullError \/ Crash
  <2>1. /\ UNCHANGED <<specList, docFile, docOK, doc, todo, orphans>>
        /\ pc' \in {"docs", "load", "report", "idle"}
        /\ pc' = "idle" \/ pc \in {"docs", "prune", "report"} \/ (pc = "specs" /\ todo = {})
    BY <1>6 DEF SpecsDone, RunDocSpecs, SaveManifest, Report, PullError, Crash
  <2> QED
    BY <2>1 DEF ViewInv
<1> QED
  BY <1>1, <1>2, <1>3, <1>4, <1>5, <1>6, <1>7 DEF Next, RunStep, SpecStep, SpecTurn, Checks
-----------------------------------------------------------------------------
(* Records, and what becomes of the pages. *)

\* Page p changes because the cluster, a spec, the pruning or a human changed it.
ByCluster(p) ==
    /\ RunDocSpecs /\ docFile.on /\ p = DocPage
    /\ wiki'[p].kind = "render" /\ wiki'[p].by = 0

ByRender(p, s) ==
    /\ SpecTurn(s) /\ Outcome(s) /\ p = PageOf(s)
    /\ wiki'[p].kind = "render" /\ wiki'[p].by = s /\ (faults' = 0 => Record(s, TRUE))

ByRetire(p, s) ==
    /\ SpecTurn(s) /\ Outcome(s) /\ p = PageOf(s)
    /\ wiki'[p].kind = "redirect" /\ RedirectLeaf(s)

ByPruning(p) == RedirectOrphan(p) /\ wiki'[p].kind = "redirect"

ByHuman(p) ==
    /\ WorldStep
    /\ \E kind \in Takeover \cup {wiki[p].kind} : wiki'[p] = EditedPage(wiki[p], kind)
    /\ p = redirecting => raced'

\* The world changes pages through humans.
LEMMA WorldPages ==
    ASSUME Typed, WorldStep, NEW p \in Pages, wiki'[p] # wiki[p]
    PROVE  ByHuman(p)
<1>1. PICK q \in Pages : HumanEdit(q) \/ \E kind \in Takeover : HumanTakeover(q, kind)
  BY DEF WorldStep, KBCommit, RemoveSpec, RestoreSpec, RenamePage, ToggleSupersede, RemoveDoc
<1>2. PICK kind \in Takeover \cup {wiki[q].kind} : wiki' = [wiki EXCEPT ![q] = EditedPage(wiki[q], kind)]
  BY <1>1, HumanPages
<1>3. p = q /\ wiki'[p] = EditedPage(wiki[p], kind)
  BY <1>2 DEF Typed
<1>4. q = redirecting => raced'
  BY <1>1 DEF HumanEdit, HumanTakeover, Change
<1> QED
  BY <1>2, <1>3, <1>4 DEF ByHuman

\* A human may turn a page into their own, and nothing else of it.
LEMMA HumanKinds ==
    ASSUME NEW p, ByHuman(p)
    PROVE  wiki'[p].by = wiki[p].by /\ wiki'[p].kind \in Takeover \cup {wiki[p].kind}
BY DEF ByHuman, EditedPage

\* Nobody else changes a page.
LEMMA WhoChanges ==
    ASSUME Typed, Next, NEW p \in Pages, wiki'[p] # wiki[p]
    PROVE  \/ ByCluster(p) \/ ByPruning(p) \/ ByHuman(p)
           \/ \E s \in Specs : ByRender(p, s) \/ ByRetire(p, s)
<1> DEFINE Goal == \/ ByCluster(p) \/ ByPruning(p) \/ ByHuman(p)
                   \/ \E s \in Specs : ByRender(p, s) \/ ByRetire(p, s)
<1>1. ASSUME NEW s \in Specs, SpecTurn(s) PROVE Goal
  <2>1. Outcome(s)
    BY <1>1, TurnOutcome
  <2>2. p = PageOf(s)
    BY <2>1, TurnPages
  <2>3. CASE Renders(s)
    <3>1. PICK newer \in SUBSET Specs : wiki'[p] = RenderPage(s, newer)
      BY <2>1, <2>2, <2>3, TurnPages
    <3>2. wiki'[p].kind = "render" /\ wiki'[p].by = s
      BY <3>1 DEF RenderPage
    <3>3. faults' = 0 => Record(s, TRUE)
      BY <2>3 DEF Renders
    <3> QED
      BY <1>1, <2>1, <2>2, <3>2, <3>3 DEF ByRender
  <2>4. CASE Redirects(s)
    <3>1. RedirectLeaf(s)
      BY <1>1, <2>4 DEF SpecTurn, RejectMisrouted, LeafStays, LeafBlocked, SkipSpec, DiffError, ProcessSpec,
                        RecordedNoOp, Redirects
    <3> QED
      BY <1>1, <2>1, <2>2, <2>4, <3>1, TurnPages DEF ByRetire
  <2> QED
    BY <2>1, <2>3, <2>4 DEF Outcome, Leaves
<1>2. CASE RunDocSpecs
  <2>1. PICK newer \in SUBSET Specs : docFile.on /\ wiki' = [wiki EXCEPT ![DocPage] = RenderPage(0, newer)]
    BY <1>2, DocStep
  <2>2. p = DocPage /\ wiki'[p] = RenderPage(0, newer)
    BY <2>1 DEF Typed
  <2> QED
    BY <1>2, <2>1, <2>2 DEF ByCluster, RenderPage
<1>3. ASSUME NEW q \in Pages, RedirectOrphan(q) PROVE Goal
  <2>1. PICK newer \in SUBSET Specs : wiki' = [wiki EXCEPT ![q] = RedirectPage(Parent[q], newer)]
    BY <1>3, OrphanStep
  <2>2. p = q /\ wiki'[p] = RedirectPage(Parent[q], newer)
    BY <2>1 DEF Typed
  <2> QED
    BY <1>3, <2>2 DEF ByPruning, RedirectPage
<1>4. CASE WorldStep
  BY <1>4, WorldPages
<1>5. \/ \E s \in Specs : SpecTurn(s)
      \/ RunDocSpecs
      \/ \E q \in Pages : RedirectOrphan(q)
      \/ WorldStep
  BY CheckStep, OrphanRead
     DEF Next, RunStep, SpecStep, SpecTurn, Checks, Pull, SpecsDone, LoadManifest, SaveManifest, Report,
         PullError, Crash
<1> QED
  BY <1>1, <1>2, <1>3, <1>4, <1>5

\* Faults are only ever added.
LEMMA FaultsGrow == ASSUME Typed, Next, faults' = 0 PROVE faults = 0
<1>1. Faults
  <2>1. ASSUME NEW s \in Specs, SpecTurn(s) PROVE Faults
    BY <2>1, TurnOutcome DEF Outcome
  <2>2. WorldStep => faults' = faults
    BY WorldView
  <2> QED
    BY <2>1, <2>2, DocStep, OrphanRead, OrphanStep, CheckStep
       DEF Next, RunStep, SpecStep, SpecTurn, Checks, Pull, SpecsDone, LoadManifest,
           SaveManifest, Report, PullError, Crash, Fault, NoFault, Faults
<1> QED
  BY <1>1 DEF Faults, Typed

\* The records change in a spec's turn only.
LEMMA WhoRecords ==
    ASSUME Typed, Next, NEW t \in Specs, rs'[t] # rs[t]
    PROVE  SpecTurn(t) /\ Outcome(t) /\ rs'[t].has /\ rs'[t].commit = snap
           /\ (rs[t].known /\ ReturnsRevID => rs'[t].known)
<1>1. \E s \in Specs : SpecTurn(s)
  BY WorldView, CheckStep
     DEF Next, RunStep, SpecStep, SpecTurn, Checks, Pull, SpecsDone, RunDocSpecs, LoadManifest,
         GetOrphan, RedirectOrphan, SaveManifest, Report, PullError, Crash
<1> QED
  BY <1>1, TurnOutcome, TurnPages

\* Every render that succeeds is recorded with its revision.
LEMMA NextKnownInv == ASSUME Typed, KnownInv, Next PROVE KnownInv'
<1> SUFFICES ASSUME faults' = 0, ReturnsRevID, NEW p \in Pages,
                    wiki'[p].kind = "render", wiki'[p].by \in Specs
             PROVE  rs'[wiki'[p].by].known
  BY DEF KnownInv
<1>1. faults = 0
  BY FaultsGrow
<1>2. ASSUME NEW t \in Specs, rs[t].known PROVE rs'[t].known
  BY <1>2, WhoRecords
<1>3. CASE wiki'[p].by = wiki[p].by /\ wiki[p].kind = "render"
  BY <1>1, <1>2, <1>3 DEF KnownInv
<1>4. CASE wiki'[p] # wiki[p]
  <2>1. CASE ByCluster(p)
    BY <2>1, NavAssumption DEF ByCluster
  <2>2. CASE ByPruning(p)
    BY <2>2 DEF ByPruning
  <2>3. CASE ByHuman(p)
    BY <1>3, <2>3, HumanKinds DEF Takeover
  <2>4. ASSUME NEW s \in Specs, ByRender(p, s) PROVE rs'[wiki'[p].by].known
    BY <2>4, RecordTyped DEF ByRender
  <2>5. ASSUME NEW s \in Specs, ByRetire(p, s) PROVE rs'[wiki'[p].by].known
    BY <2>5 DEF ByRetire
  <2> QED
    BY <1>4, <2>1, <2>2, <2>3, <2>4, <2>5, WhoChanges
<1> QED
  BY <1>3, <1>4

\* A page that is rendered after a step was so before, or is owned by the run.
LEMMA RenderedGrows ==
    ASSUME Typed, ViewInv, Next
    PROVE  Rendered' \subseteq Rendered \cup OwnedPages
<1> SUFFICES ASSUME NEW p \in Pages, wiki'[p].kind = "render", wiki[p].kind # "render"
             PROVE  p \in OwnedPages
  BY DEF Rendered
<1>1. CASE ByCluster(p)
  BY <1>1 DEF ByCluster, OwnedPages
<1>2. CASE ByPruning(p)
  BY <1>2 DEF ByPruning
<1>3. CASE ByHuman(p)
  BY <1>3, HumanKinds DEF Takeover
<1>4. ASSUME NEW s \in Specs, ByRender(p, s) PROVE p \in OwnedPages
  <2>1. s \in Listed
    BY <1>4 DEF ByRender, Outcome, Ends, At, Done, InTurn, ViewInv
  <2> QED
    BY <1>4, <2>1 DEF ByRender, OwnedPages, PageOf
<1>5. ASSUME NEW s \in Specs, ByRetire(p, s) PROVE p \in OwnedPages
  BY <1>5 DEF ByRetire
<1> QED
  BY <1>1, <1>2, <1>3, <1>4, <1>5, WhoChanges

\* Every step keeps track of the rendered pages.
LEMMA NextOrphanInv == ASSUME Typed, ViewInv, OrphanInv, Next PROVE OrphanInv'
<1> SUFFICES ASSUME faults' = 0, Pruning PROVE OrphanInv'
  BY DEF OrphanInv
<1> USE DEF env, run, upload, InTurn
<1>0. faults = 0 /\ ~Fault
  BY FaultsGrow DEF Fault
<1>9. Rendered' \subseteq Rendered \cup OwnedPages /\ (wiki' = wiki => Rendered' = Rendered)
  BY RenderedGrows DEF Rendered
<1>1. CASE WorldStep
  <2>1. Rendered' \subseteq Rendered
    <3> SUFFICES ASSUME NEW p \in Pages, wiki'[p].kind = "render" PROVE wiki[p].kind = "render"
      BY DEF Rendered
    <3>1. CASE ByHuman(p)
      BY <3>1, HumanKinds DEF Takeover
    <3> QED
      BY <1>1, <3>1, WorldPages
  <2> QED
    BY <1>0, <1>1, <2>1, WorldView, KeepsView DEF OrphanInv
<1>2. CASE Pull
  BY <1>0, <1>2, <1>9 DEF Pull, OrphanInv
<1>3. ASSUME NEW s \in Specs, SpecTurn(s) PROVE OrphanInv'
  <2>1. Ends(s)
    BY <1>3, TurnOutcome DEF Outcome
  <2> QED
    BY <1>0, <1>9, <2>1, KeepsView DEF Ends, At, Done, OrphanInv
<1>4. CASE SpecsDone \/ RunDocSpecs
  <2>1. /\ pc \in {"specs", "docs"} /\ pc' \in {"docs", "load"}
        /\ UNCHANGED <<specList, docFile, docOK, manifest>>
    BY <1>4 DEF SpecsDone, RunDocSpecs
  <2> QED
    BY <1>0, <1>9, <2>1, KeepsView DEF OrphanInv
<1>5. CASE LoadManifest
  <2>1. /\ pc = "load" /\ UNCHANGED <<specList, docFile, docOK, manifest, wiki>>
        /\ \/ pc' = "prune" /\ orphans' = manifest \ OwnedPages
           \/ pc' = "report" /\ OwnedPages = {}
    BY <1>0, <1>5 DEF LoadManifest, MayPrune, OrphanInv
  <2> QED
    BY <1>0, <1>9, <2>1, KeepsView DEF OrphanInv
<1>6. ASSUME NEW p \in Pages, RedirectOrphan(p) PROVE OrphanInv'
  <2>1. /\ pc = "replace" /\ pc' = "prune" /\ orphans' = orphans \ {p}
        /\ UNCHANGED <<specList, docFile, docOK, manifest>>
    BY <1>6 DEF RedirectOrphan
  <2>2. p \notin Rendered'
    <3>1. PICK newer \in SUBSET Specs : wiki' = [wiki EXCEPT ![p] = RedirectPage(Parent[p], newer)]
      BY <1>6, OrphanStep
    <3>2. wiki'[p] = RedirectPage(Parent[p], newer)
      BY <3>1 DEF Typed
    <3> QED
      BY <3>2 DEF RedirectPage, Rendered
  <2> QED
    BY <1>0, <1>9, <2>1, <2>2, KeepsView DEF OrphanInv
<1>10. ASSUME NEW p \in Pages, GetOrphan(p) PROVE OrphanInv'
  <2>1. UNCHANGED <<specList, docFile, docOK, manifest, wiki>> /\ pc = "prune" /\ pc' \in {"prune", "replace"}
    BY <1>10, OrphanRead DEF GetOrphan
  <2>2. orphans' = orphans \/ (orphans' = orphans \ {p} /\ p \notin Rendered)
    BY <1>10, OrphanRead DEF Retirable, Rendered, LooksCuratorOwned, ContentOf, RedirectTo
  <2> QED
    BY <1>0, <1>9, <2>1, <2>2, KeepsView DEF OrphanInv
<1>11. ASSUME NEW s \in Specs, Checks(s) PROVE OrphanInv'
  BY <1>0, <1>9, <1>11, CheckStep, KeepsView DEF OrphanInv
<1>7. CASE SaveManifest
  BY <1>0, <1>7, <1>9, KeepsView DEF SaveManifest, OrphanInv
<1>8. CASE Report
  BY <1>0, <1>8, <1>9, KeepsView DEF Report, OrphanInv
<1> QED
  BY <1>0, <1>1, <1>2, <1>3, <1>4, <1>5, <1>6, <1>7, <1>8, <1>10, <1>11
     DEF Next, RunStep, SpecStep, SpecTurn, Checks, PullError, Crash

\* What a check found lasts until a human writes the page.
LEMMA NextWindowInv == ASSUME Typed, ViewInv, KnownInv, WindowInv, Next PROVE WindowInv'
<1> USE DEF env, run, upload, InTurn
<1>1. CASE WorldStep
  <2>1. UNCHANGED <<pc, todo, specList, orphans, redirecting, faults>> /\ (raced => raced')
    BY <1>1, WorldView
  <2>2. ~raced' /\ redirecting \in Pages => wiki'[redirecting] = wiki[redirecting]
    BY <1>1, WorldPages DEF ByHuman
  <2>3. pc \in {"retire", "replace"} => redirecting \in Pages
    BY DEF Typed, TargetTyped
  <2> QED
    BY <2>1, <2>2, <2>3 DEF WindowInv, At, PageOf, EditedLeaf, Listed
<1>2. ASSUME NEW s \in Specs, Checks(s), pc' = "retire" PROVE WindowInv'
  <2>1. /\ redirecting' = PageOf(s) /\ s \in todo /\ \A t \in todo : s <= t
        /\ UNCHANGED <<wiki, todo, specList, rs>> /\ pc \in InTurn
    BY <1>2, CheckStep
  <2>2. \A t \in Specs : At(t, "retire")' => t = s
    BY <2>1, NavAssumption DEF At
  <2>3. (\A q : EditedLeaf(q)' = EditedLeaf(q)) /\ PageOf(s)' = PageOf(s)
    BY <2>1 DEF EditedLeaf, Listed, PageOf
  <2>4. ASSUME faults' = 0, ReturnsRevID, EditedLeaf(PageOf(s)) PROVE FALSE
    <3>1. s \in Listed /\ PageOf(s) \in Pages
      BY <2>1 DEF ViewInv, PageOf, Typed, SpecFile
    <3>2. wiki[PageOf(s)].kind = "render" /\ wiki[PageOf(s)].by = s /\ s \in wiki[PageOf(s)].newer
      BY <2>4, <3>1 DEF EditedLeaf
    <3>3. rs[s].known
      BY <2>4, <3>1, <3>2, FaultsGrow DEF KnownInv
    <3>4. LeafNotBlocked(s)
      BY <1>2, <3>2, <3>3 DEF Checks, GetLeaf, ToRedirect
    <3> QED
      BY <2>4, <3>2, <3>4 DEF LeafNotBlocked, HumanEditsSinceBot, Fault, Typed
  <2> QED
    BY <1>2, <2>1, <2>2, <2>3, <2>4 DEF WindowInv
<1>3. ASSUME NEW p \in Pages, GetOrphan(p), pc' = "replace" PROVE WindowInv'
  BY <1>3, OrphanRead DEF WindowInv, Retirable, LooksCuratorOwned
<1>4. CASE pc' \notin {"retire", "replace"}
  BY <1>4 DEF WindowInv
<1>5. ASSUME NEW s \in Specs, SpecTurn(s) PROVE pc' = "specs"
  BY <1>5, TurnOutcome DEF Outcome, Ends, Done
<1> QED
  BY <1>1, <1>2, <1>3, <1>4, <1>5
     DEF Next, RunStep, SpecStep, SpecTurn, Checks, Pull, SpecsDone, RunDocSpecs, LoadManifest, RedirectOrphan,
         GetOrphan, SaveManifest, Report, PullError, Crash, GetLeaf, LeafNotBlocked, ToRedirect
-----------------------------------------------------------------------------
(* The theorems. *)

\* The inductive invariant holds in every behaviour.
LEMMA SpecIInv == Spec => []IInv
<1>1. Init => IInv
  <2> SUFFICES ASSUME Init PROVE IInv
    OBVIOUS
  <2>1. \A p \in Pages : wiki[p].kind = "none"
    BY DEF Init
  <2> QED
    BY <2>1, InitTyped DEF Init, IInv, ViewInv, KnownInv, OrphanInv, WindowInv, InTurn, Rendered
<1>2. IInv /\ [Next]_vars => IInv'
  <2> SUFFICES ASSUME IInv, [Next]_vars PROVE IInv'
    OBVIOUS
  <2>1. CASE Next
    BY <2>1, NextTyped, NextViewInv, NextKnownInv, NextOrphanInv, NextWindowInv DEF IInv
  <2>2. CASE UNCHANGED vars
    <3>1. Typed'
      BY <2>2, KeepsTypes DEF vars, IInv, Typed, TargetTyped
    <3>2. ViewInv'
      BY <2>2, KeepsView DEF vars, IInv, ViewInv
    <3>3. KnownInv'
      BY <2>2 DEF vars, IInv, KnownInv
    <3>4. Rendered' = Rendered
      BY <2>2 DEF vars, Rendered
    <3>5. OrphanInv'
      BY <2>2, <3>4, KeepsView DEF vars, IInv, OrphanInv
    <3>6. WindowInv'
      BY <2>2 DEF vars, IInv, WindowInv, At, PageOf, EditedLeaf, Listed
    <3> QED
      BY <3>1, <3>2, <3>3, <3>5, <3>6 DEF IInv
  <2> QED
    BY <2>1, <2>2
<1> QED
  BY <1>1, <1>2, PTL DEF Spec

\* Only pruning turns a page into a redirect while a run prunes.
LEMMA PruneStep ==
    ASSUME IInv, Next, NEW p \in Pages, pc \in {"prune", "replace"}, wiki'[p] # wiki[p]
    PROVE  ByPruning(p) \/ ByHuman(p)
<1>1. ~ByCluster(p) /\ \A s \in Specs : ~ByRender(p, s) /\ ~ByRetire(p, s)
  BY DEF ByCluster, RunDocSpecs, ByRender, ByRetire, Outcome, Ends, At, Done, InTurn
<1> QED
  BY <1>1, WhoChanges DEF IInv

(***************************************************************************)
(* Pruning spares the pages of the spec files the run pulled, and the page *)
(* of the doc-spec as long as its file is there: a run that could not pull *)
(* the doc-specs does not prune, and the orphans exclude what it owns.     *)
(***************************************************************************)
THEOREM PruningSparesOwnedPages == Spec => PruneSparesOwnedPages
<1>1. IInv /\ [Next]_vars =>
        [\A p \in Pages :
           (/\ pc = "replace"
            /\ wiki'[p].kind = "redirect"
            /\ wiki[p].kind = "render")
           => p \notin OwnedPages /\ (doc.on => p # DocPage)]_vars
  <2> SUFFICES ASSUME IInv, Next, NEW p \in Pages, pc = "replace",
                      wiki'[p].kind = "redirect", wiki[p].kind = "render"
               PROVE  p \notin OwnedPages /\ (doc.on => p # DocPage)
    OBVIOUS
  <2>1. RedirectOrphan(p)
    <3>1. wiki'[p] # wiki[p] /\ ~ByHuman(p)
      BY HumanKinds DEF Takeover
    <3> QED
      BY <3>1, PruneStep DEF ByPruning
  <2>2. p \in orphans /\ docOK /\ orphans \cap OwnedPages = {} /\ (doc.on => docFile.on)
    BY <2>1 DEF RedirectOrphan, IInv, ViewInv, WindowInv
  <2> QED
    BY <2>2 DEF OwnedPages
<1> QED
  BY <1>1, SpecIInv, PTL DEF Spec, PruneSparesOwnedPages

(***************************************************************************)
(* Pruning overwrites a human's own text only if it became that after      *)
(* retireOrphan had read the page.                                         *)
(***************************************************************************)
THEOREM PruningSparesTakenOverPages == Spec => PruneSparesTakenOverPages
<1>1. IInv /\ [Next]_vars =>
        [\A p \in Pages :
           (/\ pc \in {"prune", "replace"}
            /\ wiki[p].kind = "human"
            /\ ~(raced /\ p = redirecting))
           => wiki'[p].kind \in Takeover]_vars
  <2> SUFFICES ASSUME IInv, Next, NEW p \in Pages, pc \in {"prune", "replace"}, wiki[p].kind = "human",
                      ~(raced /\ p = redirecting)
               PROVE  wiki'[p].kind \in Takeover
    OBVIOUS
  <2>1. ~ByPruning(p)
    BY DEF ByPruning, RedirectOrphan, IInv, WindowInv, Typed, TargetTyped
  <2> QED
    BY <2>1, PruneStep, HumanKinds DEF Takeover
<1> QED
  BY <1>1, SpecIInv, PTL DEF Spec, PruneSparesTakenOverPages

(***************************************************************************)
(* A leaf that a human edited since its spec rendered it is redirected     *)
(* over only if the edit came after the guard, on a wiki whose UpsertPage  *)
(* returns revisions and while no call failed: then the spec that rendered *)
(* a page knows the revision to compare with.                              *)
(***************************************************************************)
THEOREM RetiringSparesEditedLeaves ==
    ASSUME ReturnsRevID
    PROVE  Spec => RetireSparesEditedLeaf
<1>1. IInv /\ [Next]_vars =>
        [\A p \in Pages :
           (/\ pc \in {"specs", "guard", "retire"}
            /\ faults' = 0
            /\ EditedLeaf(p)
            /\ ~(raced /\ p = redirecting))
           => wiki'[p].kind # "redirect"]_vars
  <2> SUFFICES ASSUME IInv, Next, NEW p \in Pages, pc \in {"specs", "guard", "retire"}, faults' = 0,
                      EditedLeaf(p), ~(raced /\ p = redirecting), wiki'[p].kind = "redirect"
               PROVE  FALSE
    OBVIOUS
  <2>1. PICK s \in Specs : ByRetire(p, s)
    <3>1. wiki'[p] # wiki[p] /\ ~ByHuman(p)
      BY HumanKinds DEF EditedLeaf, Takeover
    <3>2. ~ByCluster(p) /\ ~ByPruning(p) /\ \A s \in Specs : ~ByRender(p, s)
      BY DEF ByCluster, ByPruning, RedirectOrphan, ByRender
    <3> QED
      BY <3>1, <3>2, WhoChanges DEF IInv
  <2>2. pc = "retire" /\ At(s, "retire") /\ p = PageOf(s)
    BY <2>1 DEF ByRetire, RedirectLeaf, RetiringLeaf, At
  <2>3. p = redirecting /\ ~raced /\ faults = 0
    BY <2>2, FaultsGrow DEF IInv, WindowInv, Typed, TargetTyped
  <2> QED
    BY <2>2, <2>3 DEF IInv, WindowInv
<1> QED
  BY <1>1, SpecIInv, PTL DEF Spec, RetireSparesEditedLeaf

(***************************************************************************)
(* While nothing has failed, no rendered page outlives its spec file by    *)
(* more than a run: the manifest has every page that may become an orphan. *)
(***************************************************************************)
THEOREM OrphansDoNotLinger == Spec => []NoLingeringOrphan
<1>1. IInv => NoLingeringOrphan
  BY DEF IInv, OrphanInv, NoLingeringOrphan, Rendered
<1> QED
  BY <1>1, SpecIInv, PTL
-----------------------------------------------------------------------------
(* The rest of the types: what a run works with, and the bounds. *)

RestTyped ==
    /\ manifest \in SUBSET Pages /\ orphans \in SUBSET Pages
    /\ todo \in SUBSET Specs /\ failed \in SUBSET (Specs \cup {0})
    /\ changes \in 0..MaxChanges /\ faults \in 0..MaxFaults

\* Every action counts its fault, if it has one.
LEMMA FaultOrNot == ASSUME Next PROVE Fault \/ NoFault
<1>1. WorldStep => NoFault
  BY DEF WorldStep, KBCommit, RemoveSpec, RestoreSpec, RenamePage, ToggleSupersede, RemoveDoc,
         HumanEdit, HumanTakeover, Change, NoFault
<1>2. SpecStep => Fault \/ NoFault
  BY DEF SpecStep, RejectMisrouted, LeafStays, GetLeaf, LeafBlocked, LeafNotBlocked, RedirectLeaf, SkipSpec, DiffError,
         ProcessSpec, RecordedNoOp, RecordedWrite, FailedWrite
<1>3. Pull \/ SpecsDone \/ RunDocSpecs \/ LoadManifest \/ SaveManifest \/ Report \/ PullError \/ Crash
        => Fault \/ NoFault
  BY DEF Pull, SpecsDone, RunDocSpecs, LoadManifest, SaveManifest, Report, PullError, Crash
<1>4. \A p \in Pages : GetOrphan(p) \/ RedirectOrphan(p) => Fault \/ NoFault
  BY DEF GetOrphan, RedirectOrphan
<1> QED
  BY <1>1, <1>2, <1>3, <1>4 DEF Next, RunStep

\* Every step keeps within the run's lists and the bounds.
LEMMA NextRestTyped == ASSUME Typed, RestTyped, Next PROVE RestTyped'
<1> USE DEF env, run, upload
<1>0. OwnedPages \subseteq Pages
  BY RunAssumption DEF OwnedPages, Listed, Typed, SpecFile
<1>1. faults' \in 0..MaxFaults
  BY FaultOrNot, RunAssumption DEF RestTyped, Fault, NoFault
<1>2. ASSUME NEW s \in Specs, SpecTurn(s) PROVE RestTyped'
  <2>1. /\ UNCHANGED <<manifest, orphans, changes>> /\ todo' = todo \ {s}
        /\ failed' \subseteq failed \cup {s}
    BY <1>2, TurnOutcome DEF Outcome, Ends, At, Done, InTurn
  <2> QED
    BY <1>1, <2>1 DEF RestTyped
<1>3. CASE WorldStep
  <2>1. changes' \in 0..MaxChanges
    <3>1. \E kind, written : Change(kind, written)
      BY <1>3 DEF WorldStep, KBCommit, RemoveSpec, RestoreSpec, RenamePage, ToggleSupersede, RemoveDoc,
                  HumanEdit, HumanTakeover
    <3> QED
      BY <3>1, RunAssumption DEF Change, RestTyped
  <2> QED
    BY <1>1, <1>3, <2>1, WorldView DEF RestTyped
<1>4. CASE Pull
  BY <1>1, <1>4 DEF Pull, RestTyped
<1>5. ASSUME NEW p \in Pages, GetOrphan(p) \/ RedirectOrphan(p) PROVE RestTyped'
  BY <1>1, <1>5 DEF GetOrphan, RedirectOrphan, RestTyped
<1>9. ASSUME NEW s \in Specs, Checks(s) PROVE RestTyped'
  BY <1>1, <1>9, CheckStep DEF RestTyped
<1>6. CASE LoadManifest \/ SaveManifest
  BY <1>0, <1>1, <1>6 DEF LoadManifest, SaveManifest, RestTyped
<1>7. CASE RunDocSpecs
  BY <1>1, <1>7 DEF RunDocSpecs, RestTyped
<1>8. CASE SpecsDone \/ Report \/ PullError \/ Crash
  BY <1>1, <1>8 DEF SpecsDone, Report, PullError, Crash, RestTyped
<1> QED
  BY <1>2, <1>3, <1>4, <1>5, <1>6, <1>7, <1>8, <1>9 DEF Next, RunStep, SpecStep, SpecTurn, Checks

(***************************************************************************)
(* Files, pages, records and the run keep their types, the sections of     *)
(* every auto hub's page included, in any number of runs, changes and      *)
(* faults.                                                                 *)
(***************************************************************************)
THEOREM TypeCorrect == Spec => []TypeOK
<1>1. Init => RestTyped
  BY RunAssumption DEF Init, RestTyped
<1>2. IInv /\ RestTyped /\ [Next]_vars => RestTyped'
  <2>1. IInv /\ RestTyped /\ Next => RestTyped'
    BY NextRestTyped DEF IInv
  <2>2. RestTyped /\ UNCHANGED vars => RestTyped'
    BY DEF vars, RestTyped
  <2> QED
    BY <2>1, <2>2
<1>3. IInv /\ RestTyped => TypeOK
  <2> SUFFICES ASSUME Typed, RestTyped PROVE TypeOK
    BY DEF IInv
  <2>1. \A p \in Pages : wiki[p] \in Page /\ (wiki[p].kind = "redirect" => wiki[p].to \in Pages)
    <3> SUFFICES ASSUME NEW p \in Pages
                 PROVE  wiki[p] \in Page /\ (wiki[p].kind = "redirect" => wiki[p].to \in Pages)
      OBVIOUS
    <3>1. PICK w : w = wiki[p] /\ IsPage(w)
      BY DEF Typed
    <3> QED
      BY <3>1 DEF IsPage, Page
  <2>2. wiki \in [Pages -> Page]
    BY <2>1 DEF Typed
  <2> QED
    BY <2>1, <2>2 DEF Typed, TargetTyped, Steps, RestTyped, TypeOK
<1> QED
  BY <1>1, <1>2, <1>3, SpecIInv, PTL DEF Spec
=============================================================================
