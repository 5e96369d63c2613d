-------------------------- MODULE MarkerText_proof --------------------------
(***************************************************************************)
(* Proofs about MarkerText, for any names, layouts and number of changes   *)
(* and human edits: what the scanner and the merge make of every text.     *)
(*                                                                         *)
(* The scan of a text is the one sequence of first blocks there is         *)
(* (ScanFrom, OneScan).  A merged text is the render with other bodies,    *)
(* laid out at known positions (LaidOut), from which its scan follows.     *)
(* Markers are in order (Tidy) in a render, in a merge of texts in order,  *)
(* and after every human edit that touches no marker.                      *)
(***************************************************************************)
EXTENDS MarkerText, SequenceTheorems, FiniteSetTheorems, WellFoundedInduction, TLAPS
-----------------------------------------------------------------------------
(* Least and greatest numbers. *)

LEMMA LeastNat ==
    ASSUME NEW S \in SUBSET Nat, S # {}
    PROVE  \E n \in S : \A m \in S : n <= m
<1>1. PICK n \in S : \A m \in S : ~(<<m, n>> \in OpToRel(<, Nat))
  BY NatLessThanWellFounded, WFMin
<1>2. \A m \in S : ~(m < n)
  BY <1>1 DEF OpToRel
<1> QED
  BY <1>2

\* First(S) is the least number of S.
LEMMA FirstIs ==
    ASSUME NEW S \in SUBSET (Nat \ {0})
    PROVE  /\ First(S) \in Nat
           /\ First(S) = 0 <=> S = {}
           /\ S # {} => First(S) \in S /\ \A m \in S : First(S) <= m
<1>1. CASE S = {}
  BY <1>1 DEF First
<1>2. CASE S # {}
  <2>1. \E n \in S : \A m \in S : n <= m
    BY <1>2, LeastNat
  <2>2. Min(S) \in S /\ \A m \in S : Min(S) <= m
    BY <2>1 DEF Min
  <2>3. First(S) = Min(S)
    BY <1>2 DEF First
  <2> QED
    BY <1>2, <2>2, <2>3
<1> QED
  BY <1>1, <1>2
-----------------------------------------------------------------------------
(* The scanner. *)

Blocks == [begin : Nat, end : Nat]

\* k is the first block of s from p on.
IsBlock(s, p, k) ==
    /\ k \in Blocks
    /\ p <= k.begin /\ k.begin < k.end /\ k.end <= Len(s)
    /\ IsBegin(s[k.begin]) /\ \A i \in p..(k.begin - 1) : ~IsBegin(s[i])
    /\ s[k.end] = End(s[k.begin][2])
    /\ \A i \in (k.begin + 1)..(k.end - 1) : s[i] # End(s[k.begin][2])

\* s has no block from p on: the first BEGIN, if there is one, is never closed.
NoBlock(s, p) ==
    \/ \A i \in p..Len(s) : ~IsBegin(s[i])
    \/ \E b \in p..Len(s) :
          /\ IsBegin(s[b]) /\ \A i \in p..(b - 1) : ~IsBegin(s[i])
          /\ \A i \in (b + 1)..Len(s) : s[i] # End(s[b][2])

LEMMA NextBeginIs ==
    ASSUME NEW s, Len(s) \in Nat, NEW p \in Nat \ {0}
    PROVE  /\ NextBegin(s, p) \in Nat
           /\ NextBegin(s, p) = 0 => \A i \in p..Len(s) : ~IsBegin(s[i])
           /\ NextBegin(s, p) # 0 =>
                 /\ NextBegin(s, p) \in p..Len(s) /\ IsBegin(s[NextBegin(s, p)])
                 /\ \A i \in p..(NextBegin(s, p) - 1) : ~IsBegin(s[i])
<1> DEFINE S == {i \in p..Len(s) : IsBegin(s[i])}
<1>1. S \in SUBSET (Nat \ {0}) /\ NextBegin(s, p) = First(S)
  BY DEF NextBegin
<1>2. \A i \in p..Len(s) : IsBegin(s[i]) <=> i \in S
  OBVIOUS
<1>3. /\ First(S) \in Nat
      /\ First(S) = 0 <=> S = {}
      /\ S # {} => First(S) \in S /\ \A m \in S : First(S) <= m
  BY <1>1, FirstIs
<1>4. S \subseteq p..Len(s)
  OBVIOUS
<1>5. CASE S = {}
  BY <1>1, <1>2, <1>3, <1>5
<1>6. CASE S # {}
  <2>1. NextBegin(s, p) \in S /\ \A m \in S : NextBegin(s, p) <= m
    BY <1>1, <1>3, <1>6
  <2>2. \A i \in p..(NextBegin(s, p) - 1) : i \notin S
    <3> HIDE DEF S
    <3> QED
      BY <1>1, <1>3, <2>1
  <2>3. \A i \in p..(NextBegin(s, p) - 1) : i \in p..Len(s)
    BY <1>1, <1>3, <1>4, <2>1
  <2> QED
    BY <1>1, <1>2, <1>3, <1>4, <1>6, <2>1, <2>2, <2>3
<1> QED
  BY <1>5, <1>6

LEMMA NextEndIs ==
    ASSUME NEW s, Len(s) \in Nat, NEW b \in Nat
    PROVE  /\ NextEnd(s, b) \in Nat
           /\ NextEnd(s, b) = 0 => \A i \in (b + 1)..Len(s) : s[i] # End(s[b][2])
           /\ NextEnd(s, b) # 0 =>
                 /\ NextEnd(s, b) \in (b + 1)..Len(s) /\ s[NextEnd(s, b)] = End(s[b][2])
                 /\ \A i \in (b + 1)..(NextEnd(s, b) - 1) : s[i] # End(s[b][2])
<1> DEFINE S == {i \in (b + 1)..Len(s) : s[i] = End(s[b][2])}
<1>1. S \in SUBSET (Nat \ {0}) /\ NextEnd(s, b) = First(S)
  BY DEF NextEnd
<1>2. \A i \in (b + 1)..Len(s) : s[i] = End(s[b][2]) <=> i \in S
  OBVIOUS
<1>3. /\ First(S) \in Nat
      /\ First(S) = 0 <=> S = {}
      /\ S # {} => First(S) \in S /\ \A m \in S : First(S) <= m
  BY <1>1, FirstIs
<1>4. S \subseteq (b + 1)..Len(s)
  OBVIOUS
<1>5. CASE S = {}
  BY <1>1, <1>2, <1>3, <1>5
<1>6. CASE S # {}
  <2>1. NextEnd(s, b) \in S /\ \A m \in S : NextEnd(s, b) <= m
    BY <1>1, <1>3, <1>6
  <2>2. \A i \in (b + 1)..(NextEnd(s, b) - 1) : i \notin S
    <3> HIDE DEF S
    <3> QED
      BY <1>1, <1>3, <2>1
  <2>3. \A i \in (b + 1)..(NextEnd(s, b) - 1) : i \in (b + 1)..Len(s)
    BY <1>1, <1>3, <1>4, <2>1
  <2> QED
    BY <1>1, <1>2, <1>3, <1>4, <1>6, <2>1, <2>2, <2>3
<1> QED
  BY <1>5, <1>6

\* NextBlock finds the first block, if there is one.
LEMMA NextBlockIs ==
    ASSUME NEW s, Len(s) \in Nat, NEW p \in Nat \ {0}
    PROVE  /\ NextBlock(s, p) \in Blocks
           /\ NextBlock(s, p).end = 0 => NoBlock(s, p)
           /\ NextBlock(s, p).end # 0 => IsBlock(s, p, NextBlock(s, p))
<1> DEFINE b == NextBegin(s, p)
           e == NextEnd(s, b)
<1>1. b \in Nat /\ e \in Nat
  BY NextBeginIs, NextEndIs
<1>2. NextBlock(s, p) = [begin |-> b, end |-> IF b = 0 THEN 0 ELSE e]
  BY DEF NextBlock
<1>3. NextBlock(s, p) \in Blocks
  BY <1>1, <1>2 DEF Blocks
<1>4. CASE b = 0
  BY <1>2, <1>3, <1>4, NextBeginIs DEF NoBlock
<1>5. CASE b # 0 /\ e = 0
  <2>1. /\ b \in p..Len(s) /\ IsBegin(s[b]) /\ \A i \in p..(b - 1) : ~IsBegin(s[i])
        /\ \A i \in (b + 1)..Len(s) : s[i] # End(s[b][2])
    BY <1>1, <1>5, NextBeginIs, NextEndIs
  <2> QED
    BY <1>2, <1>3, <1>5, <2>1 DEF NoBlock
<1>6. CASE b # 0 /\ e # 0
  <2>1. /\ b \in p..Len(s) /\ IsBegin(s[b]) /\ \A i \in p..(b - 1) : ~IsBegin(s[i])
        /\ e \in (b + 1)..Len(s) /\ s[e] = End(s[b][2])
        /\ \A i \in (b + 1)..(e - 1) : s[i] # End(s[b][2])
    BY <1>1, <1>6, NextBeginIs, NextEndIs
  <2>2. NextBlock(s, p).begin = b /\ NextBlock(s, p).end = e
    BY <1>2, <1>6
  <2> HIDE DEF b, e
  <2> QED
    BY <1>1, <1>3, <1>6, <2>1, <2>2 DEF IsBlock
<1> QED
  BY <1>4, <1>5, <1>6

\* There is one first block, or none.
LEMMA OneFirstBlock ==
    ASSUME NEW s, Len(s) \in Nat, NEW p \in Nat \ {0}, NEW k, IsBlock(s, p, k)
    PROVE  /\ ~NoBlock(s, p)
           /\ \A l : IsBlock(s, p, l) => l = k
<1>1. k \in Blocks /\ k.begin \in Nat /\ k.end \in Nat /\ k = [begin |-> k.begin, end |-> k.end]
  BY DEF IsBlock, Blocks
<1>2. ~NoBlock(s, p)
  <2>1. k.begin \in p..Len(s) /\ k.end \in (k.begin + 1)..Len(s)
    BY <1>1 DEF IsBlock
  <2> SUFFICES ASSUME NEW b \in p..Len(s), IsBegin(s[b]), \A i \in p..(b - 1) : ~IsBegin(s[i]),
                      \A i \in (b + 1)..Len(s) : s[i] # End(s[b][2])
               PROVE  FALSE
    BY <2>1 DEF NoBlock, IsBlock
  <2>2. b = k.begin
    BY <1>1, <2>1 DEF IsBlock
  <2> QED
    BY <2>1, <2>2 DEF IsBlock
<1>3. ASSUME NEW l, IsBlock(s, p, l) PROVE l = k
  <2>1. l \in Blocks /\ l.begin \in Nat /\ l.end \in Nat /\ l = [begin |-> l.begin, end |-> l.end]
    BY <1>3 DEF IsBlock, Blocks
  <2>2. l.begin = k.begin
    BY <1>1, <1>3, <2>1 DEF IsBlock
  <2>3. l.end = k.end
    BY <1>1, <1>3, <2>1, <2>2 DEF IsBlock
  <2> QED
    BY <1>1, <2>1, <2>2, <2>3
<1> QED
  BY <1>2, <1>3
-----------------------------------------------------------------------------
(* Parse. *)

\* The recursion of the scan is well-founded: every block ends behind its start.
LEMMA ChainExists ==
    ASSUME NEW N \in Nat, NEW block \in [1..(N + 1) -> Blocks],
           \A p \in 1..(N + 1) : block[p].end = 0 \/ block[p].end \in p..N
    PROVE  \E f \in [1..(N + 1) -> Seq(Blocks)] :
              \A p \in 1..(N + 1) :
                 f[p] = IF block[p].end = 0 THEN <<>> ELSE <<block[p]>> \o f[block[p].end + 1]
<1> DEFINE Part(c) == \E f \in [(N + 2 - c)..(N + 1) -> Seq(Blocks)] :
                         \A p \in (N + 2 - c)..(N + 1) :
                            f[p] = IF block[p].end = 0 THEN <<>> ELSE <<block[p]>> \o f[block[p].end + 1]
           Missing == {c \in 0..(N + 1) : ~Part(c)}
<1>1. SUFFICES ASSUME ~Part(N + 1) PROVE FALSE
  <2>1. N + 2 - (N + 1) = 1
    OBVIOUS
  <2> QED
    BY <2>1
<1>2. PICK c \in Missing : \A d \in Missing : c <= d
  <2>1. Missing \in SUBSET Nat /\ N + 1 \in Missing
    BY <1>1
  <2> QED
    BY <2>1, LeastNat
<1>3. c \in 0..(N + 1) /\ ~Part(c) /\ \A d \in 0..(c - 1) : Part(d)
  <2>1. \A d \in 0..(c - 1) : d \in 0..(N + 1) /\ ~(c <= d)
    BY <1>2
  <2> HIDE DEF Part
  <2> QED
    BY <1>2, <2>1
<1>4. CASE c = 0
  <2>1. [p \in (N + 2 - c)..(N + 1) |-> <<>>] \in [(N + 2 - c)..(N + 1) -> Seq(Blocks)]
    OBVIOUS
  <2>2. (N + 2 - c)..(N + 1) = {}
    BY <1>4
  <2> QED
    BY <1>3, <2>1, <2>2
<1>5. CASE c # 0
  <2> DEFINE q == N + 2 - c
  <2>1. /\ q \in 1..(N + 1) /\ N + 2 - (c - 1) = q + 1
        /\ c - 1 \in 0..(c - 1)
    BY <1>3, <1>5
  <2>2. PICK f \in [(q + 1)..(N + 1) -> Seq(Blocks)] :
               \A p \in (q + 1)..(N + 1) :
                  f[p] = IF block[p].end = 0 THEN <<>> ELSE <<block[p]>> \o f[block[p].end + 1]
    BY <1>3, <2>1
  <2> DEFINE new == IF block[q].end = 0 THEN <<>> ELSE <<block[q]>> \o f[block[q].end + 1]
             g   == [p \in q..(N + 1) |-> IF p = q THEN new ELSE f[p]]
  <2> HIDE DEF q
  <2>3. block[q] \in Blocks /\ block[q].end \in Nat /\ (block[q].end = 0 \/ block[q].end \in q..N)
    BY <2>1 DEF Blocks
  <2>4. new \in Seq(Blocks)
    <3>1. CASE block[q].end = 0
      BY <3>1
    <3>2. CASE block[q].end # 0
      <4>1. f[block[q].end + 1] \in Seq(Blocks) /\ <<block[q]>> \in Seq(Blocks)
        BY <2>1, <2>2, <2>3, <3>2
      <4> QED
        BY <3>2, <4>1
    <3> QED
      BY <3>1, <3>2
  <2>5. \A p \in q..(N + 1) : p = q \/ p \in (q + 1)..(N + 1)
    BY <2>1
  <2>6. g \in [q..(N + 1) -> Seq(Blocks)]
    <3> HIDE DEF new
    <3>1. \A p \in q..(N + 1) : (IF p = q THEN new ELSE f[p]) \in Seq(Blocks)
      BY <2>2, <2>4, <2>5
    <3> QED
      BY <3>1
  <2>7. \A p \in (q + 1)..(N + 1) : g[p] = f[p] /\ p \in q..(N + 1)
    BY <2>1
  <2>8. g[q] = new
    BY <2>1
  <2> HIDE DEF g
  <2>9. \A p \in q..(N + 1) :
           g[p] = IF block[p].end = 0 THEN <<>> ELSE <<block[p]>> \o g[block[p].end + 1]
    <3> SUFFICES ASSUME NEW p \in q..(N + 1)
                 PROVE  g[p] = IF block[p].end = 0 THEN <<>> ELSE <<block[p]>> \o g[block[p].end + 1]
      OBVIOUS
    <3>1. block[p].end = 0 \/ g[block[p].end + 1] = f[block[p].end + 1]
      <4>1. p \in 1..(N + 1) /\ (block[p].end = 0 \/ block[p].end \in p..N)
        BY <2>1
      <4>2. block[p].end = 0 \/ block[p].end + 1 \in (q + 1)..(N + 1)
        BY <2>1, <4>1
      <4> QED
        BY <2>7, <4>2
    <3> QED
      BY <2>2, <2>5, <2>7, <2>8, <3>1
  <2> QED
    BY <1>3, <2>6, <2>9 DEF q
<1> QED
  BY <1>4, <1>5

\* Where the search for block n of D begins, when that for the first begins at p.
Start(D, p, n) == IF n = 1 THEN p ELSE D[n - 1].end + 1

\* D is what the scan of s finds from p on.
ScanFrom(s, p, D) ==
    /\ D \in Seq(Blocks)
    /\ \A n \in 1..Len(D) : IsBlock(s, Start(D, p, n), D[n])
    /\ NoBlock(s, Start(D, p, Len(D) + 1))

\* The function that Parse computes.
IsScan(s, f) ==
    f = [p \in 1..(Len(s) + 1) |->
            LET k == NextBlock(s, p)
            IN  IF k.end = 0 THEN <<>> ELSE <<k>> \o f[k.end + 1]]

LEMMA ParseIsScan ==
    ASSUME NEW s, Len(s) \in Nat
    PROVE  \E f : IsScan(s, f) /\ Parse(s) = f[1]
<1> DEFINE N     == Len(s)
           block == [p \in 1..(N + 1) |-> NextBlock(s, p)]
           scan  == CHOOSE f : IsScan(s, f)
<1>1. Parse(s) = scan[1]
  BY DEF Parse, IsScan
<1>2. \E f : IsScan(s, f)
  <2>1. \A p \in 1..(N + 1) :
           NextBlock(s, p) \in Blocks /\ (NextBlock(s, p).end = 0 \/ NextBlock(s, p).end \in p..N)
    <3> SUFFICES ASSUME NEW p \in 1..(N + 1)
                 PROVE  NextBlock(s, p) \in Blocks /\ (NextBlock(s, p).end = 0 \/ NextBlock(s, p).end \in p..N)
      OBVIOUS
    <3>1. NextBlock(s, p) \in Blocks /\ (NextBlock(s, p).end # 0 => IsBlock(s, p, NextBlock(s, p)))
      BY NextBlockIs
    <3>2. NextBlock(s, p).begin \in Nat /\ NextBlock(s, p).end \in Nat
      BY <3>1 DEF Blocks
    <3> QED
      BY <3>1, <3>2 DEF IsBlock
  <2>2. /\ block \in [1..(N + 1) -> Blocks]
        /\ \A p \in 1..(N + 1) : block[p].end = 0 \/ block[p].end \in p..N
    BY <2>1
  <2>3. PICK f \in [1..(N + 1) -> Seq(Blocks)] :
               \A p \in 1..(N + 1) :
                  f[p] = IF block[p].end = 0 THEN <<>> ELSE <<block[p]>> \o f[block[p].end + 1]
    <3> HIDE DEF block
    <3> QED
      BY <2>2, ChainExists
  <2>4. \A p \in 1..(N + 1) :
           f[p] = LET k == NextBlock(s, p)
                  IN  IF k.end = 0 THEN <<>> ELSE <<k>> \o f[k.end + 1]
    BY <2>3
  <2>5. f = [p \in 1..(N + 1) |-> f[p]]
    BY <2>3
  <2>6. IsScan(s, f)
    <3> DEFINE e(p) == LET k == NextBlock(s, p)
                       IN  IF k.end = 0 THEN <<>> ELSE <<k>> \o f[k.end + 1]
    <3>1. \A p \in 1..(N + 1) : f[p] = e(p)
      BY <2>4
    <3> HIDE DEF e
    <3>2. f = [p \in 1..(N + 1) |-> e(p)]
      BY <2>5, <3>1
    <3> QED
      BY <3>2 DEF IsScan, e
  <2> QED
    BY <2>6
<1>3. IsScan(s, scan)
  BY <1>2
<1> QED
  BY <1>1, <1>3

\* One block and the scan behind it.
LEMMA ScanStep ==
    ASSUME NEW s, Len(s) \in Nat, NEW p \in Nat \ {0}, NEW k, IsBlock(s, p, k),
           NEW E, ScanFrom(s, k.end + 1, E)
    PROVE  ScanFrom(s, p, <<k>> \o E)
<1> DEFINE D == <<k>> \o E
<1>1. k \in Blocks /\ k.end \in Nat /\ E \in Seq(Blocks)
  BY DEF IsBlock, ScanFrom, Blocks
<1>2. D \in Seq(Blocks) /\ Len(D) = Len(E) + 1 /\ D[1] = k /\ \A n \in 2..(Len(E) + 1) : D[n] = E[n - 1]
  BY <1>1
<1>3. Len(E) \in Nat
  BY <1>1
<1> HIDE DEF D
<1>4. Start(D, p, 1) = p
  BY DEF Start
<1>5. \A n \in 2..(Len(E) + 2) : Start(D, p, n) = Start(E, k.end + 1, n - 1)
  <2> SUFFICES ASSUME NEW n \in 2..(Len(E) + 2) PROVE Start(D, p, n) = Start(E, k.end + 1, n - 1)
    OBVIOUS
  <2>1. CASE n = 2
    BY <1>2, <2>1 DEF Start
  <2>2. CASE n # 2
    <3>1. n - 1 \in 2..(Len(E) + 1) /\ n # 1 /\ n - 1 # 1
      BY <1>3, <2>2
    <3> QED
      BY <1>2, <3>1 DEF Start
  <2> QED
    BY <2>1, <2>2
<1>6. ASSUME NEW n \in 1..Len(D) PROVE IsBlock(s, Start(D, p, n), D[n])
  <2>1. CASE n = 1
    BY <1>2, <1>4, <2>1
  <2>2. CASE n # 1
    <3>1. n \in 2..(Len(E) + 2) /\ n \in 2..(Len(E) + 1) /\ n - 1 \in 1..Len(E)
      BY <1>2, <1>3, <2>2
    <3>2. IsBlock(s, Start(E, k.end + 1, n - 1), E[n - 1])
      BY <3>1 DEF ScanFrom
    <3> QED
      BY <1>2, <1>5, <3>1, <3>2
  <2> QED
    BY <2>1, <2>2
<1>7. NoBlock(s, Start(D, p, Len(D) + 1))
  <2>1. Len(D) + 1 \in 2..(Len(E) + 2) /\ Len(D) + 1 - 1 = Len(E) + 1
    BY <1>2, <1>3
  <2> QED
    BY <1>5, <2>1 DEF ScanFrom
<1> QED
  BY <1>2, <1>6, <1>7 DEF ScanFrom, D

\* Parse returns what the scan finds from the beginning.
LEMMA ParseScans == ASSUME NEW s, Len(s) \in Nat PROVE ScanFrom(s, 1, Parse(s))
<1>1. PICK f : IsScan(s, f) /\ Parse(s) = f[1]
  BY ParseIsScan
<1> DEFINE N == Len(s)
           Wrong == {d \in 0..N : ~ScanFrom(s, N + 1 - d, f[N + 1 - d])}
<1>2. SUFFICES ASSUME N \in Wrong PROVE FALSE
  <2>1. N \in 0..N /\ N + 1 - N = 1
    OBVIOUS
  <2> QED
    BY <1>1, <2>1
<1>3. PICK d \in Wrong : \A c \in Wrong : d <= c
  <2>1. Wrong \in SUBSET Nat
    OBVIOUS
  <2> QED
    BY <1>2, <2>1, LeastNat
<1> DEFINE p == N + 1 - d
           k == NextBlock(s, p)
<1>4. d \in 0..N /\ p \in 1..(N + 1) /\ p \in Nat \ {0} /\ ~ScanFrom(s, p, f[p])
  BY <1>3
<1>5. \A q \in (p + 1)..(N + 1) : ScanFrom(s, q, f[q])
  <2> SUFFICES ASSUME NEW q \in (p + 1)..(N + 1) PROVE ScanFrom(s, q, f[q])
    OBVIOUS
  <2>1. N + 1 - q \in 0..N /\ ~(d <= N + 1 - q) /\ N + 1 - (N + 1 - q) = q
    BY <1>4
  <2>2. N + 1 - q \notin Wrong
    <3> HIDE DEF Wrong, N
    <3> QED
      BY <1>3, <2>1
  <2> QED
    BY <2>1, <2>2
<1> HIDE DEF p
<1>6. f[p] = IF k.end = 0 THEN <<>> ELSE <<k>> \o f[k.end + 1]
  BY <1>1, <1>4 DEF IsScan
<1>7. /\ k \in Blocks
      /\ k.end = 0 => NoBlock(s, p)
      /\ k.end # 0 => IsBlock(s, p, k)
  BY <1>4, NextBlockIs
<1> HIDE DEF k
<1>8. CASE k.end = 0
  <2>1. Start(<<>>, p, Len(<<>>) + 1) = p
    BY DEF Start
  <2> QED
    BY <1>4, <1>6, <1>7, <1>8, <2>1 DEF ScanFrom
<1>9. CASE k.end # 0
  <2>1. k.end \in p..N /\ k.end + 1 \in (p + 1)..(N + 1)
    BY <1>4, <1>7, <1>9 DEF IsBlock, Blocks
  <2>2. ScanFrom(s, k.end + 1, f[k.end + 1])
    BY <1>5, <2>1
  <2>3. ScanFrom(s, p, <<k>> \o f[k.end + 1])
    BY <1>4, <1>7, <1>9, <2>2, ScanStep
  <2> QED
    BY <1>4, <1>6, <1>9, <2>3
<1> QED
  BY <1>8, <1>9

\* Blocks of a scan end before the next search, so every search begins in Nat \ {0}.
LEMMA Starts ==
    ASSUME NEW s, NEW D, ScanFrom(s, 1, D)
    PROVE  /\ Len(D) \in Nat
           /\ \A n \in 1..(Len(D) + 1) : Start(D, 1, n) \in Nat \ {0}
<1>1. D \in Seq(Blocks) /\ Len(D) \in Nat
  BY DEF ScanFrom
<1>2. ASSUME NEW n \in 1..(Len(D) + 1) PROVE Start(D, 1, n) \in Nat \ {0}
  <2>1. CASE n = 1
    BY <2>1 DEF Start
  <2>2. CASE n # 1
    <3>1. n - 1 \in 1..Len(D)
      BY <1>1, <2>2
    <3>2. D[n - 1] \in Blocks
      BY <1>1, <3>1, ElementOfSeq
    <3>3. D[n - 1].end \in Nat
      BY <3>2 DEF Blocks
    <3> QED
      BY <2>2, <3>3 DEF Start
  <2> QED
    BY <2>1, <2>2
<1> QED
  BY <1>1, <1>2

\* There is one scan.
LEMMA OneScan ==
    ASSUME NEW s, Len(s) \in Nat, NEW D, ScanFrom(s, 1, D)
    PROVE  Parse(s) = D
<1> DEFINE P == Parse(s)
<1>1. ScanFrom(s, 1, P)
  BY ParseScans
<1> HIDE DEF P
<1>2. D \in Seq(Blocks) /\ P \in Seq(Blocks) /\ Len(D) \in Nat /\ Len(P) \in Nat
  BY <1>1 DEF ScanFrom
<1> DEFINE Apart == {n \in Nat \ {0} : n <= Len(D) /\ n <= Len(P) /\ D[n] # P[n]}
<1>3. Apart = {}
  <2> SUFFICES ASSUME Apart # {} PROVE FALSE
    OBVIOUS
  <2>1. PICK n \in Apart : \A m \in Apart : n <= m
    <3>1. Apart \in SUBSET Nat
      OBVIOUS
    <3> QED
      BY <3>1, LeastNat
  <2>2. n \in 1..Len(D) /\ n \in 1..Len(P) /\ n \in 1..(Len(D) + 1) /\ D[n] # P[n]
    BY <1>2
  <2>3. n = 1 \/ D[n - 1] = P[n - 1]
    <3>1. n = 1 \/ (n - 1 \in Nat \ {0} /\ n - 1 <= Len(D) /\ n - 1 <= Len(P) /\ ~(n <= n - 1))
      BY <1>2, <2>2
    <3> QED
      BY <2>1, <3>1
  <2>4. Start(D, 1, n) = Start(P, 1, n) /\ Start(D, 1, n) \in Nat \ {0}
    BY <2>2, <2>3, Starts DEF Start
  <2>5. IsBlock(s, Start(D, 1, n), D[n]) /\ IsBlock(s, Start(D, 1, n), P[n])
    BY <1>1, <2>2, <2>4 DEF ScanFrom
  <2> QED
    BY <2>2, <2>4, <2>5, OneFirstBlock
<1>4. \A n \in 1..Len(D) : n <= Len(P) => D[n] = P[n]
  <2> SUFFICES ASSUME NEW n \in 1..Len(D), n <= Len(P) PROVE D[n] = P[n]
    OBVIOUS
  <2>1. n \in Nat \ {0} /\ n <= Len(D)
    BY <1>2
  <2> QED
    BY <1>3, <2>1
<1>5. ~(Len(D) < Len(P))
  <2> SUFFICES ASSUME Len(D) < Len(P) PROVE FALSE
    OBVIOUS
  <2> DEFINE n == Len(D) + 1
  <2>1. n \in 1..Len(P) /\ (n = 1 \/ n - 1 \in 1..Len(D)) /\ n - 1 <= Len(P) /\ n \in 1..(Len(D) + 1)
    BY <1>2
  <2>2. Start(D, 1, n) = Start(P, 1, n) /\ Start(D, 1, n) \in Nat \ {0}
    BY <1>4, <2>1, Starts DEF Start
  <2>3. NoBlock(s, Start(D, 1, n)) /\ IsBlock(s, Start(P, 1, n), P[n])
    BY <1>1, <2>1 DEF ScanFrom
  <2> QED
    BY <2>2, <2>3, OneFirstBlock
<1>6. ~(Len(P) < Len(D))
  <2> SUFFICES ASSUME Len(P) < Len(D) PROVE FALSE
    OBVIOUS
  <2> DEFINE n == Len(P) + 1
  <2>1. n \in 1..Len(D) /\ (n = 1 \/ n - 1 \in 1..Len(D)) /\ n - 1 <= Len(P) /\ n \in 1..(Len(P) + 1)
    BY <1>2
  <2>2. Start(D, 1, n) = Start(P, 1, n) /\ Start(P, 1, n) \in Nat \ {0}
    BY <1>1, <1>4, <2>1, Starts DEF Start
  <2>3. NoBlock(s, Start(P, 1, n)) /\ IsBlock(s, Start(D, 1, n), D[n])
    BY <1>1, <2>1 DEF ScanFrom
  <2> QED
    BY <2>2, <2>3, OneFirstBlock
<1> QED
  BY <1>2, <1>4, <1>5, <1>6, SeqEqual DEF P
-----------------------------------------------------------------------------
(* Concatenation. *)

\* x is the concatenation of the first k sequences of ss; off[n] is where ss[n] begins.
LaidTo(ss, k, off, x) ==
    /\ off \in [1..(k + 1) -> Nat] /\ off[1] = 0
    /\ \A n \in 1..k : off[n + 1] = off[n] + Len(ss[n])
    /\ \A n \in 1..k : \A m \in (n + 1)..(k + 1) : off[n] + Len(ss[n]) <= off[m]
    /\ Len(x) = off[k + 1]
    /\ \A n \in 1..k : \A r \in 1..Len(ss[n]) : x[off[n] + r] = ss[n][r]

LEMMA LayOne ==
    ASSUME NEW T, NEW ss \in Seq(Seq(T)), NEW k \in Nat, k + 1 <= Len(ss),
           NEW off, NEW x \in Seq(T), LaidTo(ss, k, off, x)
    PROVE  \E off2 : LaidTo(ss, k + 1, off2, x \o ss[k + 1])
<1> DEFINE len  == Len(ss[k + 1])
           off2 == [n \in 1..(k + 2) |-> IF n = k + 2 THEN off[k + 1] + len ELSE off[n]]
           y    == x \o ss[k + 1]
<1>1. ss[k + 1] \in Seq(T) /\ len \in Nat
  BY ElementOfSeq
<1>2. off \in [1..(k + 1) -> Nat] /\ off[k + 1] \in Nat /\ Len(x) = off[k + 1]
  BY DEF LaidTo
<1>3. /\ Len(y) = Len(x) + len
      /\ \A i \in 1..Len(x) : y[i] = x[i]
      /\ \A r \in 1..len : y[Len(x) + r] = ss[k + 1][r]
  BY <1>1, ConcatProperties
<1>4. off2 \in [1..(k + 2) -> Nat]
  BY <1>1, <1>2
<1>5. off2[k + 2] = off[k + 1] + len /\ \A n \in 1..(k + 1) : off2[n] = off[n]
  OBVIOUS
<1> HIDE DEF off2, len, y
<1>6. \A n \in 1..(k + 1) : off2[n + 1] = off2[n] + Len(ss[n])
  <2> SUFFICES ASSUME NEW n \in 1..(k + 1) PROVE off2[n + 1] = off2[n] + Len(ss[n])
    OBVIOUS
  <2>1. CASE n = k + 1
    BY <1>5, <2>1 DEF len
  <2>2. CASE n # k + 1
    <3>1. n \in 1..k /\ n + 1 \in 1..(k + 1)
      BY <2>2
    <3> QED
      BY <1>5, <3>1 DEF LaidTo
  <2> QED
    BY <2>1, <2>2
<1>7. ASSUME NEW n \in 1..k PROVE Len(ss[n]) \in Nat /\ off[n] \in Nat /\ off[n] + Len(ss[n]) <= Len(x)
  <2>1. n \in 1..Len(ss) /\ n \in 1..(k + 1) /\ k + 1 \in (n + 1)..(k + 1)
    OBVIOUS
  <2>2. ss[n] \in Seq(T)
    BY <2>1, ElementOfSeq
  <2>3. off[n] + Len(ss[n]) <= off[k + 1]
    BY <2>1 DEF LaidTo
  <2>4. Len(ss[n]) \in Nat /\ off[n] \in Nat
    BY <1>2, <2>1, <2>2
  <2> QED
    BY <1>2, <2>3, <2>4
<1>12. \A n \in 1..(k + 1) : \A m \in (n + 1)..(k + 2) : off2[n] + Len(ss[n]) <= off2[m]
  <2> SUFFICES ASSUME NEW n \in 1..(k + 1), NEW m \in (n + 1)..(k + 2)
               PROVE  off2[n] + Len(ss[n]) <= off2[m]
    OBVIOUS
  <2>1. CASE n = k + 1
    <3>1. m = k + 2
      BY <2>1
    <3> QED
      BY <1>1, <1>2, <1>5, <2>1, <3>1 DEF len
  <2>2. CASE n # k + 1 /\ m = k + 2
    <3>1. n \in 1..k
      BY <2>2
    <3>2. Len(ss[n]) \in Nat /\ off[n] \in Nat /\ off[n] + Len(ss[n]) <= off[k + 1]
      BY <1>2, <1>7, <3>1
    <3>3. off2[n] = off[n] /\ off2[m] = off[k + 1] + len
      BY <1>5, <2>2
    <3> QED
      BY <1>1, <1>2, <3>2, <3>3
  <2>3. CASE n # k + 1 /\ m # k + 2
    <3>1. n \in 1..k /\ m \in (n + 1)..(k + 1) /\ m \in 1..(k + 1)
      BY <2>3
    <3> QED
      BY <1>5, <3>1 DEF LaidTo
  <2> QED
    BY <2>1, <2>2, <2>3
<1>8. \A n \in 1..(k + 1) : \A r \in 1..Len(ss[n]) : y[off2[n] + r] = ss[n][r]
  <2> SUFFICES ASSUME NEW n \in 1..(k + 1), NEW r \in 1..Len(ss[n]) PROVE y[off2[n] + r] = ss[n][r]
    OBVIOUS
  <2>1. CASE n = k + 1
    BY <1>2, <1>3, <1>5, <2>1 DEF len
  <2>2. CASE n # k + 1
    <3>1. n \in 1..k
      BY <2>2
    <3>2. off[n] + r \in 1..Len(x)
      BY <1>7, <3>1
    <3>3. x[off[n] + r] = ss[n][r]
      BY <3>1 DEF LaidTo
    <3> QED
      BY <1>3, <1>5, <3>2, <3>3
  <2> QED
    BY <2>1, <2>2
<1>9. Len(y) = off2[k + 2] /\ off2[1] = 0
  BY <1>2, <1>3, <1>5 DEF LaidTo
<1>10. k + 1 + 1 = k + 2
  OBVIOUS
<1>11. LaidTo(ss, k + 1, off2, y)
  BY <1>4, <1>6, <1>12, <1>8, <1>9, <1>10 DEF LaidTo
<1> QED
  BY <1>11 DEF y

\* The function that FlattenSeq computes.
IsFlatten(ss, f) == f = [i \in 1..Len(ss) |-> IF i = 1 THEN ss[i] ELSE f[i - 1] \o ss[i]]

LEMMA FlattenIs ==
    ASSUME NEW T, NEW ss \in Seq(Seq(T)), ss # <<>>
    PROVE  \E f : IsFlatten(ss, f) /\ FlattenSeq(ss) = f[Len(ss)]
<1> DEFINE N        == Len(ss)
           flatten  == CHOOSE f : IsFlatten(ss, f)
           Part(c)  == \E f : f = [i \in 1..c |-> IF i = 1 THEN ss[i] ELSE f[i - 1] \o ss[i]]
           Missing  == {c \in Nat : ~Part(c)}
<1>1. N \in Nat /\ N # 0
  BY EmptySeq
<1>2. FlattenSeq(ss) = flatten[N]
  BY <1>1 DEF FlattenSeq, IsFlatten
<1>3. Missing = {}
  <2> SUFFICES ASSUME Missing # {} PROVE FALSE
    OBVIOUS
  <2>1. PICK c \in Missing : \A d \in Missing : c <= d
    <3>1. Missing \in SUBSET Nat
      OBVIOUS
    <3> HIDE DEF Missing
    <3> QED
      BY <3>1, LeastNat
  <2>2. c \in Nat /\ ~Part(c)
    BY <2>1
  <2>3. c # 0
    <3> SUFFICES ASSUME c = 0 PROVE FALSE
      OBVIOUS
    <3> DEFINE f == [i \in 1..0 |-> 0]
    <3>1. f = [i \in 1..0 |-> IF i = 1 THEN ss[i] ELSE f[i - 1] \o ss[i]]
      OBVIOUS
    <3> QED
      BY <2>2, <3>1
  <2>4. Part(c - 1)
    <3>1. c - 1 \in Nat /\ ~(c <= c - 1)
      BY <2>2, <2>3
    <3> HIDE DEF Part
    <3> QED
      BY <2>1, <3>1
  <2>5. PICK f : f = [i \in 1..(c - 1) |-> IF i = 1 THEN ss[i] ELSE f[i - 1] \o ss[i]]
    BY <2>4
  <2> DEFINE g == [i \in 1..c |-> IF i = c THEN (IF i = 1 THEN ss[i] ELSE f[i - 1] \o ss[i]) ELSE f[i]]
  <2>6. \A i \in 1..(c - 1) : g[i] = f[i] /\ f[i] = IF i = 1 THEN ss[i] ELSE f[i - 1] \o ss[i]
    <3> DEFINE e(i) == IF i = 1 THEN ss[i] ELSE f[i - 1] \o ss[i]
    <3>1. f = [i \in 1..(c - 1) |-> e(i)]
      BY <2>5
    <3> HIDE DEF e
    <3>2. \A i \in 1..(c - 1) : f[i] = e(i)
      BY <3>1
    <3>3. \A i \in 1..(c - 1) : g[i] = f[i]
      BY <2>2
    <3> QED
      BY <3>2, <3>3 DEF e
  <2>7. \A i \in 1..c : g[i] = IF i = 1 THEN ss[i] ELSE g[i - 1] \o ss[i]
    <3> SUFFICES ASSUME NEW i \in 1..c PROVE g[i] = IF i = 1 THEN ss[i] ELSE g[i - 1] \o ss[i]
      OBVIOUS
    <3>1. i = 1 \/ (i - 1 \in 1..(c - 1) /\ g[i - 1] = f[i - 1])
      BY <2>2, <2>6
    <3>2. CASE i = c
      BY <3>1, <3>2
    <3>3. CASE i # c
      <4>1. i \in 1..(c - 1)
        BY <2>2, <3>3
      <4> HIDE DEF g
      <4> QED
        BY <2>6, <3>1, <4>1
    <3> QED
      BY <3>2, <3>3
  <2>8. g = [i \in 1..c |-> g[i]]
    OBVIOUS
  <2> HIDE DEF g
  <2>9. g = [i \in 1..c |-> IF i = 1 THEN ss[i] ELSE g[i - 1] \o ss[i]]
    <3> DEFINE e(i) == IF i = 1 THEN ss[i] ELSE g[i - 1] \o ss[i]
    <3>1. \A i \in 1..c : g[i] = e(i)
      BY <2>7
    <3> HIDE DEF e
    <3>2. g = [i \in 1..c |-> e(i)]
      BY <2>8, <3>1
    <3> QED
      BY <3>2 DEF e
  <2> QED
    BY <2>2, <2>9
<1>4. Part(N)
  <2> HIDE DEF Part
  <2> QED
    BY <1>1, <1>3
<1>5. IsFlatten(ss, flatten)
  BY <1>4 DEF IsFlatten
<1> QED
  BY <1>2, <1>5

\* FlattenSeq lays its sequences out one behind the other.
LEMMA Flattened ==
    ASSUME NEW T, NEW ss \in Seq(Seq(T))
    PROVE  /\ FlattenSeq(ss) \in Seq(T)
           /\ \E off : LaidTo(ss, Len(ss), off, FlattenSeq(ss))
<1>0. Len(ss) \in Nat
  OBVIOUS
<1>1. CASE ss = <<>>
  <2>1. FlattenSeq(ss) = <<>> /\ Len(ss) = 0
    BY <1>1 DEF FlattenSeq
  <2>2. LaidTo(ss, 0, [n \in 1..1 |-> 0], <<>>)
    BY DEF LaidTo
  <2> QED
    BY <2>1, <2>2
<1>2. CASE ss # <<>>
  <2>1. PICK f : IsFlatten(ss, f) /\ FlattenSeq(ss) = f[Len(ss)]
    BY <1>2, FlattenIs
  <2> DEFINE Laid(c) == f[c] \in Seq(T) /\ \E off : LaidTo(ss, c, off, f[c])
             Bad     == {c \in 1..Len(ss) : ~Laid(c)}
  <2>2. f[1] = ss[1] /\ \A i \in 2..Len(ss) : f[i] = f[i - 1] \o ss[i]
    <3>1. 1 \in 1..Len(ss)
      BY <1>0, <1>2, EmptySeq
    <3> DEFINE e(i) == IF i = 1 THEN ss[i] ELSE f[i - 1] \o ss[i]
    <3>2. f = [i \in 1..Len(ss) |-> e(i)]
      BY <2>1 DEF IsFlatten
    <3> HIDE DEF e
    <3>3. \A i \in 1..Len(ss) : f[i] = e(i)
      BY <3>2
    <3>4. f[1] = e(1) /\ \A i \in 2..Len(ss) : f[i] = e(i)
      BY <1>0, <3>1, <3>3
    <3>5. e(1) = ss[1] /\ \A i \in 2..Len(ss) : e(i) = f[i - 1] \o ss[i]
      <4>1. \A i \in 2..Len(ss) : i # 1
        BY <1>0
      <4> QED
        BY <4>1 DEF e
    <3> QED
      BY <3>4, <3>5
  <2>3. Bad = {}
    <3> SUFFICES ASSUME Bad # {} PROVE FALSE
      OBVIOUS
    <3>1. PICK c \in Bad : \A d \in Bad : c <= d
      <4>1. Bad \in SUBSET Nat
        OBVIOUS
      <4> HIDE DEF Bad
      <4> QED
        BY <4>1, LeastNat
    <3>2. c \in 1..Len(ss) /\ ~Laid(c)
      BY <3>1
    <3>3. ss[c] \in Seq(T) /\ ss[1] \in Seq(T)
      BY <1>0, <3>2, ElementOfSeq
    <3>4. CASE c = 1
      <4>1. LaidTo(ss, 0, [n \in 1..1 |-> 0], <<>>) /\ <<>> \in Seq(T)
        BY DEF LaidTo
      <4>2. \E off : LaidTo(ss, 1, off, <<>> \o ss[1])
        <5>1. 0 + 1 <= Len(ss) /\ 0 + 1 = 1
          BY <3>2, <3>4
        <5> QED
          BY <4>1, <5>1, LayOne
      <4>3. <<>> \o ss[1] = ss[1]
        BY <3>3, ConcatEmptySeq
      <4> QED
        BY <2>2, <3>2, <3>3, <3>4, <4>2, <4>3
    <3>5. CASE c # 1
      <4>1. c - 1 \in 1..Len(ss) /\ ~(c <= c - 1) /\ c - 1 \in Nat /\ c - 1 + 1 = c /\ c \in 2..Len(ss)
        BY <1>0, <3>2, <3>5
      <4>2. Laid(c - 1)
        <5> HIDE DEF Laid
        <5> QED
          BY <3>1, <4>1
      <4>3. PICK off : LaidTo(ss, c - 1, off, f[c - 1])
        BY <4>2
      <4>4. \E off2 : LaidTo(ss, c, off2, f[c - 1] \o ss[c])
        <5>1. c - 1 + 1 <= Len(ss) /\ f[c - 1] \in Seq(T)
          BY <3>2, <4>1, <4>2
        <5>2. \E off2 : LaidTo(ss, c - 1 + 1, off2, f[c - 1] \o ss[c - 1 + 1])
          BY <4>1, <4>3, <5>1, LayOne
        <5> QED
          BY <4>1, <5>2
      <4>5. f[c] = f[c - 1] \o ss[c] /\ f[c] \in Seq(T)
        BY <2>2, <3>3, <4>1, <4>2, ConcatProperties
      <4> QED
        BY <3>2, <4>4, <4>5
    <3> QED
      BY <3>4, <3>5
  <2>4. Len(ss) \in 1..Len(ss)
    BY <1>0, <1>2, EmptySeq
  <2>5. Laid(Len(ss))
    <3> HIDE DEF Laid
    <3> QED
      BY <2>3, <2>4
  <2> QED
    BY <2>1, <2>5
<1> QED
  BY <1>1, <1>2
-----------------------------------------------------------------------------
(* Bodies. *)

LEMMA SubText ==
    ASSUME NEW T, NEW s \in Seq(T), NEW a \in Nat \ {0}, NEW b \in Nat, b <= Len(s), a <= b + 1
    PROVE  /\ SubSeq(s, a, b) \in Seq(T)
           /\ Len(SubSeq(s, a, b)) = b - a + 1
           /\ \A i \in 1..(b - a + 1) : SubSeq(s, a, b)[i] = s[a + i - 1]
<1>1. \A i \in a..b : s[i] \in T
  BY ElementOfSeq
<1>2. a \in Int /\ b \in Int
  OBVIOUS
<1>3. /\ SubSeq(s, a, b) \in Seq(T)
      /\ Len(SubSeq(s, a, b)) = IF a <= b THEN b - a + 1 ELSE 0
      /\ \A i \in 1..(b - a + 1) : SubSeq(s, a, b)[i] = s[a + i - 1]
  BY <1>1, <1>2, SubSeqProperties
<1> QED
  BY <1>3

\* The first b tokens, and those behind the first a.
LEMMA PrefixText ==
    ASSUME NEW T, NEW s \in Seq(T), NEW b \in Nat, b <= Len(s)
    PROVE  /\ SubSeq(s, 1, b) \in Seq(T) /\ Len(SubSeq(s, 1, b)) = b
           /\ \A i \in 1..b : SubSeq(s, 1, b)[i] = s[i]
<1>1. /\ SubSeq(s, 1, b) \in Seq(T) /\ Len(SubSeq(s, 1, b)) = b - 1 + 1
      /\ \A i \in 1..(b - 1 + 1) : SubSeq(s, 1, b)[i] = s[1 + i - 1]
  BY SubText
<1>2. b - 1 + 1 = b /\ \A i \in 1..b : 1 + i - 1 = i
  OBVIOUS
<1> QED
  BY <1>1, <1>2

LEMMA SuffixText ==
    ASSUME NEW T, NEW s \in Seq(T), NEW a \in Nat, NEW b \in Nat, a <= b, b <= Len(s)
    PROVE  /\ SubSeq(s, a + 1, b) \in Seq(T) /\ Len(SubSeq(s, a + 1, b)) = b - a
           /\ \A i \in 1..(b - a) : SubSeq(s, a + 1, b)[i] = s[a + i]
<1> DEFINE c == a + 1
<1>1. c \in Nat \ {0} /\ c <= b + 1
  OBVIOUS
<1>2. b - c + 1 = b - a /\ \A i \in 1..(b - a) : c + i - 1 = a + i
  OBVIOUS
<1> HIDE DEF c
<1>3. /\ SubSeq(s, c, b) \in Seq(T) /\ Len(SubSeq(s, c, b)) = b - c + 1
      /\ \A i \in 1..(b - c + 1) : SubSeq(s, c, b)[i] = s[c + i - 1]
  BY <1>1, SubText
<1>4. /\ SubSeq(s, c, b) \in Seq(T) /\ Len(SubSeq(s, c, b)) = b - a
      /\ \A i \in 1..(b - a) : SubSeq(s, c, b)[i] = s[a + i]
  BY <1>2, <1>3
<1> QED
  BY <1>4 DEF c

\* w is a and then b.
IsJoin(w, a, b, T) ==
    /\ w \in Seq(T) /\ Len(w) = Len(a) + Len(b)
    /\ \A i \in 1..Len(a) : w[i] = a[i]
    /\ \A i \in 1..Len(b) : w[Len(a) + i] = b[i]

LEMMA JoinedText ==
    ASSUME NEW T, NEW a \in Seq(T), NEW b \in Seq(T)
    PROVE  IsJoin(a \o b, a, b, T)
  BY ConcatProperties DEF IsJoin

LEMMA TrimPrefixIs ==
    ASSUME NEW T, NEW u \in Seq(T)
    PROVE  /\ TrimPrefix(u) \in Seq(T)
           /\ Range(TrimPrefix(u)) \subseteq Range(u)
           /\ \A t \in Range(u) : t # NL => t \in Range(TrimPrefix(u))
<1>1. CASE ~(u # <<>> /\ Head(u) = NL)
  BY <1>1 DEF TrimPrefix
<1>2. CASE u # <<>> /\ Head(u) = NL
  <2>1. TrimPrefix(u) = Tail(u)
    BY <1>2 DEF TrimPrefix
  <2>2. /\ Tail(u) \in Seq(T) /\ Len(Tail(u)) = Len(u) - 1 /\ Len(u) \in Nat \ {0}
        /\ \A i \in 1..Len(Tail(u)) : Tail(u)[i] = u[i + 1]
    BY <1>2, HeadTailProperties, EmptySeq
  <2>3. u[1] = NL
    BY <1>2
  <2>4. Range(Tail(u)) = {Tail(u)[i] : i \in 1..Len(Tail(u))} /\ Range(u) = {u[i] : i \in 1..Len(u)}
    BY <2>2, RangeEquality
  <2>5. \A i \in 1..Len(Tail(u)) : i + 1 \in 1..Len(u)
    BY <2>2
  <2>6. \A i \in 1..Len(u) : i = 1 \/ (i - 1 \in 1..Len(Tail(u)) /\ Tail(u)[i - 1] = u[i])
    BY <2>2
  <2>7. Range(Tail(u)) \subseteq Range(u)
    BY <2>2, <2>4, <2>5
  <2>8. \A t \in Range(u) : t # NL => t \in Range(Tail(u))
    BY <2>3, <2>4, <2>6
  <2> QED
    BY <2>1, <2>2, <2>7, <2>8
<1> QED
  BY <1>1, <1>2

LEMMA TrimSuffixIs ==
    ASSUME NEW T, NEW u \in Seq(T)
    PROVE  /\ TrimSuffix(u) \in Seq(T)
           /\ Range(TrimSuffix(u)) \subseteq Range(u)
           /\ \A t \in Range(u) : t # NL => t \in Range(TrimSuffix(u))
<1>1. CASE ~(u # <<>> /\ Last(u) = NL)
  BY <1>1 DEF TrimSuffix
<1>2. CASE u # <<>> /\ Last(u) = NL
  <2>1. TrimSuffix(u) = Front(u)
    BY <1>2 DEF TrimSuffix
  <2>2. Len(u) \in Nat \ {0} /\ u[Len(u)] = NL
    BY <1>2, EmptySeq DEF Last
  <2>3. /\ Front(u) \in Seq(T) /\ Len(Front(u)) = Len(u) - 1
        /\ \A i \in 1..(Len(u) - 1) : Front(u)[i] = u[i]
    <3> DEFINE n == Len(u) - 1
    <3>1. n \in Nat /\ n <= Len(u)
      BY <2>2
    <3>2. Front(u) = SubSeq(u, 1, n)
      BY DEF Front
    <3> HIDE DEF n
    <3>3. /\ Front(u) \in Seq(T) /\ Len(Front(u)) = n
          /\ \A i \in 1..n : Front(u)[i] = u[i]
      BY <3>1, <3>2, PrefixText
    <3> QED
      BY <3>3 DEF n
  <2>4. Range(Front(u)) = {Front(u)[i] : i \in 1..(Len(u) - 1)} /\ Range(u) = {u[i] : i \in 1..Len(u)}
    BY <2>3, RangeEquality
  <2>5. \A i \in 1..Len(u) : i = Len(u) \/ i \in 1..(Len(u) - 1)
    BY <2>2
  <2>6. Range(Front(u)) \subseteq Range(u)
    BY <2>2, <2>3, <2>4
  <2>7. \A t \in Range(u) : t # NL => t \in Range(Front(u))
    BY <2>2, <2>3, <2>4, <2>5
  <2> QED
    BY <2>1, <2>3, <2>6, <2>7
<1> QED
  BY <1>1, <1>2

\* What a body holds is between the markers, and only line breaks between them are not in it.
LEMMA BodyIs ==
    ASSUME NEW T, NEW s \in Seq(T), NEW k \in Blocks, k.begin < k.end, k.end <= Len(s)
    PROVE  /\ Body(s, k) \in Seq(T)
           /\ \A t \in Range(Body(s, k)) : \E i \in (k.begin + 1)..(k.end - 1) : s[i] = t
           /\ \A i \in (k.begin + 1)..(k.end - 1) : s[i] # NL => s[i] \in Range(Body(s, k))
<1> DEFINE u == SubSeq(s, k.begin + 1, k.end - 1)
<1>1. k.begin \in Nat /\ k.end \in Nat /\ Len(s) \in Nat
  BY DEF Blocks
<1>2. \A i \in (k.begin + 1)..(k.end - 1) : s[i] \in T
  BY <1>1, ElementOfSeq
<1>3. /\ u \in Seq(T) /\ Len(u) = k.end - 1 - k.begin
      /\ \A i \in 1..(k.end - 1 - k.begin) : u[i] = s[k.begin + i]
  <2> DEFINE b == k.end - 1
  <2>1. b \in Nat /\ b <= Len(s) /\ k.begin <= b
    BY <1>1
  <2> HIDE DEF b
  <2>2. /\ SubSeq(s, k.begin + 1, b) \in Seq(T) /\ Len(SubSeq(s, k.begin + 1, b)) = b - k.begin
        /\ \A i \in 1..(b - k.begin) : SubSeq(s, k.begin + 1, b)[i] = s[k.begin + i]
    BY <1>1, <2>1, SuffixText
  <2> QED
    BY <2>2 DEF b
<1>4. Body(s, k) = TrimSuffix(TrimPrefix(u))
  BY DEF Body
<1> HIDE DEF u
<1>5. Range(u) = {u[i] : i \in 1..(k.end - 1 - k.begin)}
  BY <1>3, RangeEquality
<1>6. /\ Body(s, k) \in Seq(T) /\ Range(Body(s, k)) \subseteq Range(u)
      /\ \A t \in Range(u) : t # NL => t \in Range(Body(s, k))
  BY <1>3, <1>4, TrimPrefixIs, TrimSuffixIs
<1>7. \A i \in 1..(k.end - 1 - k.begin) : k.begin + i \in (k.begin + 1)..(k.end - 1)
  BY <1>1
<1>8. \A i \in (k.begin + 1)..(k.end - 1) :
         i - k.begin \in 1..(k.end - 1 - k.begin) /\ k.begin + (i - k.begin) = i
  BY <1>1
<1>9. \A t \in Range(u) : \E i \in (k.begin + 1)..(k.end - 1) : s[i] = t
  BY <1>3, <1>5, <1>7
<1>10. \A i \in (k.begin + 1)..(k.end - 1) : s[i] \in Range(u)
  BY <1>3, <1>5, <1>8
<1> QED
  BY <1>6, <1>9, <1>10

\* The line breaks that WriteBlock puts around a body are the ones that Body takes away.
LEMMA WrittenBody ==
    ASSUME NEW T, NEW m \in Seq(T), NEW y \in Seq(T), NEW k \in Blocks, 1 <= k.begin, k.end <= Len(m),
           k.end = k.begin + Len(y) + 3, m[k.begin + 1] = NL, m[k.end - 1] = NL,
           \A r \in 1..Len(y) : m[k.begin + 1 + r] = y[r]
    PROVE  Body(m, k) = y
<1> DEFINE u == SubSeq(m, k.begin + 1, k.end - 1)
           v == Tail(u)
           n == Len(y)
<1>1. k.begin \in Nat /\ k.end \in Nat /\ Len(m) \in Nat /\ n \in Nat
  BY DEF Blocks
<1>2. \A i \in (k.begin + 1)..(k.end - 1) : m[i] \in T
  BY <1>1, ElementOfSeq
<1>3. u \in Seq(T) /\ Len(u) = n + 2 /\ \A i \in 1..(n + 2) : u[i] = m[k.begin + i]
  <2> DEFINE b == k.end - 1
             a == k.begin
  <2>1. a \in Nat /\ b \in Nat /\ b <= Len(m) /\ a <= b /\ b = a + n + 2 /\ n \in Nat
    BY <1>1
  <2>2. u = SubSeq(m, a + 1, b)
    OBVIOUS
  <2> HIDE DEF a, b, u, n
  <2>3. u \in Seq(T) /\ Len(u) = b - a /\ \A i \in 1..(b - a) : u[i] = m[a + i]
    BY <2>1, <2>2, SuffixText
  <2>4. b - a = n + 2
    BY <2>1
  <2> QED
    BY <2>3, <2>4 DEF a
<1> HIDE DEF u, n
<1>4. u[1] = NL /\ u[n + 2] = NL /\ \A r \in 1..n : u[r + 1] = y[r]
  <2>1. 1 \in 1..(n + 2) /\ n + 2 \in 1..(n + 2) /\ \A r \in 1..n : r + 1 \in 1..(n + 2)
    BY <1>1
  <2>2. k.begin + (n + 2) = k.end - 1
    <3> DEFINE e == k.end
               b == k.begin
    <3>1. e = b + n + 3 /\ e \in Nat /\ b \in Nat
      BY <1>1 DEF n
    <3> HIDE DEF e, b
    <3>2. b + (n + 2) = e - 1
      BY <1>1, <3>1
    <3> QED
      BY <3>2 DEF e, b
  <2>3. \A r \in 1..n : k.begin + (r + 1) = k.begin + 1 + r
    <3> DEFINE b == k.begin
    <3>1. b \in Nat
      BY <1>1
    <3> HIDE DEF b
    <3>2. \A r \in 1..n : b + (r + 1) = b + 1 + r
      BY <1>1, <3>1
    <3> QED
      BY <3>2 DEF b
  <2> QED
    BY <1>3, <2>1, <2>2, <2>3 DEF n
<1>5. u # <<>> /\ Head(u) = NL
  BY <1>1, <1>3, <1>4
<1>6. TrimPrefix(u) = v
  BY <1>5 DEF TrimPrefix
<1>7. v \in Seq(T) /\ Len(v) = n + 1 /\ \A i \in 1..(n + 1) : v[i] = u[i + 1]
  <2>1. v \in Seq(T) /\ Len(v) = Len(u) - 1 /\ \A i \in 1..Len(v) : v[i] = u[i + 1]
    BY <1>3, <1>5, HeadTailProperties
  <2> HIDE DEF v
  <2> QED
    BY <1>1, <1>3, <2>1
<1> HIDE DEF v
<1>8. v # <<>> /\ Last(v) = NL
  <2>1. n + 1 \in 1..(n + 1) /\ n + 1 + 1 = n + 2
    BY <1>1
  <2> QED
    BY <1>1, <1>4, <1>7, <2>1 DEF Last
<1>9. Body(m, k) = Front(v)
  BY <1>6, <1>8 DEF Body, u, TrimSuffix
<1>10. Front(v) \in Seq(T) /\ Len(Front(v)) = n /\ \A r \in 1..n : Front(v)[r] = v[r]
  <2>1. Front(v) = SubSeq(v, 1, n)
    BY <1>1, <1>7 DEF Front
  <2>2. n <= Len(v)
    BY <1>1, <1>7
  <2>3. /\ SubSeq(v, 1, n) \in Seq(T) /\ Len(SubSeq(v, 1, n)) = n
        /\ \A i \in 1..n : SubSeq(v, 1, n)[i] = v[i]
    BY <1>1, <1>7, <2>2, PrefixText
  <2> QED
    BY <1>1, <2>1, <2>3
<1>11. \A r \in 1..n : Front(v)[r] = y[r]
  <2>1. \A r \in 1..n : r \in 1..(n + 1)
    BY <1>1
  <2> QED
    BY <1>4, <1>7, <1>10, <2>1
<1> QED
  BY <1>9, <1>10, <1>11, SeqEqual DEF n
-----------------------------------------------------------------------------
(* The blocks of a scan. *)

LEMMA BlocksAreIn ==
    ASSUME NEW s, Len(s) \in Nat, NEW D, ScanFrom(s, 1, D), NEW n \in 1..Len(D)
    PROVE  /\ D[n] \in Blocks /\ D[n].begin \in Nat /\ D[n].end \in Nat
           /\ Start(D, 1, n) \in Nat /\ 1 <= Start(D, 1, n) /\ Start(D, 1, n) <= D[n].begin
           /\ 1 <= D[n].begin /\ D[n].begin < D[n].end /\ D[n].end <= Len(s)
           /\ IsBlock(s, Start(D, 1, n), D[n])
<1>1. D \in Seq(Blocks) /\ IsBlock(s, Start(D, 1, n), D[n])
  BY DEF ScanFrom
<1>2. D[n] \in Blocks /\ D[n].begin \in Nat /\ D[n].end \in Nat
  BY <1>1 DEF IsBlock, Blocks
<1>3. Start(D, 1, n) \in Nat /\ 1 <= Start(D, 1, n)
  <2>1. CASE n = 1
    BY <2>1 DEF Start
  <2>2. CASE n # 1
    <3>1. n - 1 \in 1..Len(D)
      BY <1>1, <2>2
    <3>2. D[n - 1] \in Blocks
      BY <1>1, <3>1, ElementOfSeq
    <3>3. D[n - 1].end \in Nat
      BY <3>2 DEF Blocks
    <3> QED
      BY <2>2, <3>3 DEF Start
  <2> QED
    BY <2>1, <2>2
<1> QED
  BY <1>1, <1>2, <1>3 DEF IsBlock

\* Where the text behind block n ends.
After(s, D, n) == IF n < Len(D) THEN D[n + 1].begin - 1 ELSE Len(s)

LEMMA AfterIs ==
    ASSUME NEW T, NEW s \in Seq(T), NEW D, ScanFrom(s, 1, D), NEW n \in 1..Len(D)
    PROVE  /\ After(s, D, n) \in Nat /\ D[n].end <= After(s, D, n) /\ After(s, D, n) <= Len(s)
           /\ Following(s, D, n) \in Seq(T)
           /\ Len(Following(s, D, n)) = After(s, D, n) - D[n].end
           /\ \A r \in 1..(After(s, D, n) - D[n].end) : Following(s, D, n)[r] = s[D[n].end + r]
<1>1. Len(s) \in Nat /\ Len(D) \in Nat
  BY DEF ScanFrom
<1>2. D[n].end \in Nat /\ 1 <= D[n].end /\ D[n].end <= Len(s)
  BY <1>1, BlocksAreIn
<1>3. After(s, D, n) \in Nat /\ D[n].end <= After(s, D, n) /\ After(s, D, n) <= Len(s)
  <2>1. CASE n < Len(D)
    <3>1. n + 1 \in 1..Len(D) /\ n + 1 # 1 /\ n + 1 - 1 = n
      BY <1>1, <2>1
    <3>2. Start(D, 1, n + 1) = D[n].end + 1
      BY <3>1 DEF Start
    <3>3. D[n + 1].begin \in Nat /\ D[n].end + 1 <= D[n + 1].begin /\ D[n + 1].begin <= Len(s)
      <4>1. /\ D[n + 1].begin \in Nat /\ D[n + 1].end \in Nat /\ Start(D, 1, n + 1) <= D[n + 1].begin
            /\ D[n + 1].begin < D[n + 1].end /\ D[n + 1].end <= Len(s)
        BY <1>1, <3>1, BlocksAreIn
      <4> QED
        BY <1>1, <3>2, <4>1
    <3> QED
      BY <1>1, <1>2, <2>1, <3>3 DEF After
  <2>2. CASE ~(n < Len(D))
    BY <1>1, <1>2, <2>2 DEF After
  <2> QED
    BY <2>1, <2>2
<1> DEFINE a == D[n].end
           b == After(s, D, n)
           f == Following(s, D, n)
<1>4. a \in Nat /\ b \in Nat /\ b <= Len(s) /\ a <= b
  BY <1>2, <1>3
<1>5. f = SubSeq(s, a + 1, b)
  BY DEF Following, After
<1> HIDE DEF a, b, f
<1>6. f \in Seq(T) /\ Len(f) = b - a /\ \A r \in 1..(b - a) : f[r] = s[a + r]
  BY <1>4, <1>5, SuffixText
<1> QED
  BY <1>3, <1>6 DEF a, b, f

\* The body of a block does not hold the END that closes the block.
LEMMA BodyWithoutEnd ==
    ASSUME NEW T, NEW s \in Seq(T), NEW D, ScanFrom(s, 1, D), NEW n \in 1..Len(D)
    PROVE  /\ Body(s, D[n]) \in Seq(T)
           /\ End(s[D[n].begin][2]) \notin Range(Body(s, D[n]))
<1>1. Len(s) \in Nat
  OBVIOUS
<1>2. /\ D[n] \in Blocks /\ D[n].begin < D[n].end /\ D[n].end <= Len(s)
      /\ IsBlock(s, Start(D, 1, n), D[n])
  BY <1>1, BlocksAreIn
<1>3. /\ Body(s, D[n]) \in Seq(T)
      /\ \A t \in Range(Body(s, D[n])) : \E i \in (D[n].begin + 1)..(D[n].end - 1) : s[i] = t
  BY <1>2, BodyIs
<1>4. \A i \in (D[n].begin + 1)..(D[n].end - 1) : s[i] # End(s[D[n].begin][2])
  BY <1>2 DEF IsBlock
<1> QED
  BY <1>3, <1>4

LEMMA BlockByIDIs ==
    ASSUME NEW s, NEW D \in Seq(Blocks), NEW id
    PROVE  /\ BlockByID(s, D, id) \in Nat
           /\ BlockByID(s, D, id) = 0 => \A n \in 1..Len(D) : s[D[n].begin][2] # id
           /\ BlockByID(s, D, id) # 0 =>
                 /\ BlockByID(s, D, id) \in 1..Len(D)
                 /\ s[D[BlockByID(s, D, id)].begin][2] = id
                 /\ \A n \in 1..Len(D) : s[D[n].begin][2] = id => BlockByID(s, D, id) <= n
<1> DEFINE S == {n \in DOMAIN D : s[D[n].begin][2] = id}
<1>1. DOMAIN D = 1..Len(D) /\ Len(D) \in Nat
  OBVIOUS
<1>2. S \in SUBSET (Nat \ {0}) /\ BlockByID(s, D, id) = First(S)
  BY <1>1 DEF BlockByID
<1>3. \A n \in 1..Len(D) : s[D[n].begin][2] = id <=> n \in S
  BY <1>1
<1>4. S \subseteq 1..Len(D)
  BY <1>1
<1>5. /\ First(S) \in Nat
      /\ First(S) = 0 <=> S = {}
      /\ S # {} => First(S) \in S /\ \A n \in S : First(S) <= n
  BY <1>2, FirstIs
<1> HIDE DEF S
<1> QED
  BY <1>2, <1>3, <1>4, <1>5

\* The body chosen for a block is a text that does not close the block either.
LEMMA ChosenBody ==
    ASSUME NEW T, NEW e \in Seq(T), NEW s \in Seq(T), NEW n \in 1..Len(Parse(s))
    PROVE  LET y == ChooseBody(e, Parse(e), s, Parse(s)[n])
           IN  /\ y \in Seq(T)
               /\ End(s[Parse(s)[n].begin][2]) \notin Range(y)
<1> DEFINE D == Parse(s)
           X == Parse(e)
           m == BlockByID(e, X, s[D[n].begin][2])
           y == ChooseBody(e, X, s, D[n])
<1>1. ScanFrom(s, 1, D) /\ ScanFrom(e, 1, X)
  BY ParseScans
<1>2. X \in Seq(Blocks)
  BY <1>1 DEF ScanFrom
<1>3. /\ Body(s, D[n]) \in Seq(T)
      /\ End(s[D[n].begin][2]) \notin Range(Body(s, D[n]))
  BY <1>1, BodyWithoutEnd
<1>4. m # 0 => m \in 1..Len(X) /\ e[X[m].begin][2] = s[D[n].begin][2]
  BY <1>2, BlockByIDIs
<1>5. m # 0 => Body(e, X[m]) \in Seq(T) /\ End(s[D[n].begin][2]) \notin Range(Body(e, X[m]))
  <2> SUFFICES ASSUME m # 0
               PROVE  Body(e, X[m]) \in Seq(T) /\ End(s[D[n].begin][2]) \notin Range(Body(e, X[m]))
    OBVIOUS
  <2>1. m \in 1..Len(X) /\ e[X[m].begin][2] = s[D[n].begin][2]
    BY <1>4
  <2>2. Body(e, X[m]) \in Seq(T) /\ End(e[X[m].begin][2]) \notin Range(Body(e, X[m]))
    <3> HIDE DEF m, X
    <3> QED
      BY <1>1, <2>1, BodyWithoutEnd
  <2> QED
    BY <2>1, <2>2
<1>6. y = Body(s, D[n]) \/ (m # 0 /\ y = Body(e, X[m]))
  BY DEF ChooseBody
<1> HIDE DEF D, X, m, y
<1>7. y \in Seq(T) /\ End(s[D[n].begin][2]) \notin Range(y)
  BY <1>3, <1>5, <1>6
<1> QED
  BY <1>7 DEF y, D, X
-----------------------------------------------------------------------------
(* A render with other bodies. *)

\* Texts that may hold every marker they need.
Closed(T) == NL \in T /\ \A t \in T : End(t[2]) \in T

\* What MergeBlocks makes of s when body n becomes Y[n].
Rewritten(s, D, Y) == [n \in DOMAIN D |-> WriteBlock(s[D[n].begin], Y[n]) \o Following(s, D, n)]
Rewrite(s, D, Y)   == Prologue(s, D) \o FlattenSeq(Rewritten(s, D, Y))

\* w is the block that opens with b and has the body y, and then f.
IsWritten(w, b, y, f, T) ==
    /\ w \in Seq(T) /\ Len(w) = Len(y) + 5 + Len(f)
    /\ w[1] = b /\ w[2] = NL
    /\ \A r \in 1..Len(y) : w[2 + r] = y[r]
    /\ w[Len(y) + 3] = NL /\ w[Len(y) + 4] = End(b[2]) /\ w[Len(y) + 5] = NL
    /\ \A r \in 1..Len(f) : w[Len(y) + 5 + r] = f[r]

LEMMA BlockWritten ==
    ASSUME NEW T, Closed(T), NEW b \in T, NEW y \in Seq(T), NEW f \in Seq(T)
    PROVE  IsWritten(WriteBlock(b, y) \o f, b, y, f, T)
<1> DEFINE A == <<b, NL>>
           C == <<NL, End(b[2]), NL>>
           B == A \o y
           V == B \o C
           n == Len(y)
           w == V \o f
<1>1. NL \in T /\ End(b[2]) \in T /\ n \in Nat /\ Len(f) \in Nat
  BY DEF Closed
<1>2. A \in Seq(T) /\ Len(A) = 2 /\ A[1] = b /\ A[2] = NL
  BY <1>1
<1>3. C \in Seq(T) /\ Len(C) = 3 /\ C[1] = NL /\ C[2] = End(b[2]) /\ C[3] = NL
  BY <1>1
<1>4. w = WriteBlock(b, y) \o f
  BY DEF WriteBlock
<1> HIDE DEF A, C
<1>5. B \in Seq(T) /\ Len(B) = n + 2 /\ B[1] = b /\ B[2] = NL /\ \A r \in 1..n : B[2 + r] = y[r]
  <2>0. IsJoin(B, A, y, T)
    BY <1>2, JoinedText
  <2>1. /\ B \in Seq(T) /\ Len(B) = Len(A) + n
        /\ \A i \in 1..Len(A) : B[i] = A[i]
        /\ \A r \in 1..n : B[Len(A) + r] = y[r]
    BY <2>0 DEF IsJoin
  <2>2. 1 \in 1..2 /\ 2 \in 1..2 /\ 2 + n = n + 2
    BY <1>1
  <2> HIDE DEF B, n
  <2> QED
    BY <1>2, <2>1, <2>2
<1> HIDE DEF B
<1>6. /\ V \in Seq(T) /\ Len(V) = n + 5 /\ \A i \in 1..(n + 2) : V[i] = B[i]
      /\ V[n + 3] = NL /\ V[n + 4] = End(b[2]) /\ V[n + 5] = NL
  <2>0. IsJoin(V, B, C, T)
    BY <1>3, <1>5, JoinedText
  <2>1. /\ V \in Seq(T) /\ Len(V) = Len(B) + Len(C)
        /\ \A i \in 1..Len(B) : V[i] = B[i]
        /\ \A i \in 1..Len(C) : V[Len(B) + i] = C[i]
    BY <2>0 DEF IsJoin
  <2>2. n + 2 + 1 = n + 3 /\ n + 2 + 2 = n + 4 /\ n + 2 + 3 = n + 5
    BY <1>1
  <2>3. 1 \in 1..3 /\ 2 \in 1..3 /\ 3 \in 1..3
    OBVIOUS
  <2> HIDE DEF V, n
  <2>4. V[n + 2 + 1] = C[1] /\ V[n + 2 + 2] = C[2] /\ V[n + 2 + 3] = C[3]
    BY <1>3, <1>5, <2>1, <2>3
  <2>5. n + 2 + 3 = n + 5 /\ n \in Nat
    BY <1>1
  <2> QED
    BY <1>3, <1>5, <2>1, <2>2, <2>4, <2>5
<1>7. 1 \in 1..(n + 2) /\ 2 \in 1..(n + 2) /\ \A r \in 1..n : 2 + r \in 1..(n + 2)
  BY <1>1
<1>8. V[1] = b /\ V[2] = NL /\ \A r \in 1..n : V[2 + r] = y[r]
  BY <1>5, <1>6, <1>7
<1> HIDE DEF V
<1>9. /\ w \in Seq(T) /\ Len(w) = n + 5 + Len(f) /\ \A i \in 1..(n + 5) : w[i] = V[i]
      /\ \A r \in 1..Len(f) : w[n + 5 + r] = f[r]
  <2>0. IsJoin(w, V, f, T)
    BY <1>6, JoinedText
  <2>1. /\ w \in Seq(T) /\ Len(w) = Len(V) + Len(f)
        /\ \A i \in 1..Len(V) : w[i] = V[i]
        /\ \A r \in 1..Len(f) : w[Len(V) + r] = f[r]
    BY <2>0 DEF IsJoin
  <2> HIDE DEF w, n
  <2> QED
    BY <1>6, <2>1
<1>11. /\ 1 \in 1..(n + 5) /\ 2 \in 1..(n + 5) /\ n + 3 \in 1..(n + 5) /\ n + 4 \in 1..(n + 5)
       /\ n + 5 \in 1..(n + 5) /\ \A r \in 1..n : 2 + r \in 1..(n + 5)
  BY <1>1
<1> HIDE DEF w
<1>12. /\ w \in Seq(T) /\ Len(w) = n + 5 + Len(f)
       /\ w[1] = b /\ w[2] = NL
       /\ \A r \in 1..n : w[2 + r] = y[r]
       /\ w[n + 3] = NL /\ w[n + 4] = End(b[2]) /\ w[n + 5] = NL
       /\ \A r \in 1..Len(f) : w[n + 5 + r] = f[r]
  BY <1>6, <1>8, <1>9, <1>11
<1>13. IsWritten(w, b, y, f, T)
  BY <1>12 DEF IsWritten, n
<1> QED
  BY <1>4, <1>13

\* Block n of m begins behind position q[n]; q[Len(D) + 1] is the end of m.
LaidOut(m, s, D, Y, q) ==
    /\ \A n \in 1..(Len(D) + 1) : q[n] \in Nat
    /\ q[1] = D[1].begin - 1 /\ q[Len(D) + 1] = Len(m)
    /\ \A r \in 1..(D[1].begin - 1) : m[r] = s[r]
    /\ \A n \in 1..Len(D) :
          /\ q[n + 1] = q[n] + Len(Y[n]) + 5 + (After(s, D, n) - D[n].end)
          /\ q[n + 1] <= Len(m)
          /\ m[q[n] + 1] = s[D[n].begin] /\ m[q[n] + 2] = NL
          /\ \A r \in 1..Len(Y[n]) : m[q[n] + 2 + r] = Y[n][r]
          /\ m[q[n] + Len(Y[n]) + 3] = NL
          /\ m[q[n] + Len(Y[n]) + 4] = End(s[D[n].begin][2])
          /\ m[q[n] + Len(Y[n]) + 5] = NL
          /\ \A r \in 1..(After(s, D, n) - D[n].end) :
                m[q[n] + Len(Y[n]) + 5 + r] = s[D[n].end + r]

LEMMA RewriteIs ==
    ASSUME NEW T, Closed(T), NEW s \in Seq(T), NEW D, ScanFrom(s, 1, D), D # <<>>,
           NEW Y \in [1..Len(D) -> Seq(T)]
    PROVE  /\ Rewrite(s, D, Y) \in Seq(T)
           /\ \E q : LaidOut(Rewrite(s, D, Y), s, D, Y, q)
<1> DEFINE N  == Len(D)
           ss == Rewritten(s, D, Y)
           x  == FlattenSeq(ss)
           P  == Prologue(s, D)
           a  == D[1].begin - 1
           m  == Rewrite(s, D, Y)
<1>1. D \in Seq(Blocks) /\ N \in Nat /\ N # 0 /\ Len(s) \in Nat /\ 1 \in 1..N
  BY EmptySeq DEF ScanFrom
<1>2. DOMAIN D = 1..N
  BY <1>1
<1>3. ASSUME NEW n \in 1..N
      PROVE  /\ ss[n] \in Seq(T) /\ Len(ss[n]) = Len(Y[n]) + 5 + (After(s, D, n) - D[n].end)
             /\ Len(Y[n]) \in Nat /\ After(s, D, n) - D[n].end \in Nat
             /\ ss[n][1] = s[D[n].begin] /\ ss[n][2] = NL
             /\ \A r \in 1..Len(Y[n]) : ss[n][2 + r] = Y[n][r]
             /\ ss[n][Len(Y[n]) + 3] = NL /\ ss[n][Len(Y[n]) + 4] = End(s[D[n].begin][2])
             /\ ss[n][Len(Y[n]) + 5] = NL
             /\ \A r \in 1..(After(s, D, n) - D[n].end) : ss[n][Len(Y[n]) + 5 + r] = s[D[n].end + r]
  <2> DEFINE b == s[D[n].begin]
             y == Y[n]
             f == Following(s, D, n)
             g == After(s, D, n) - D[n].end
  <2>1. ss[n] = WriteBlock(b, y) \o f
    BY <1>2 DEF Rewritten
  <2>2. D[n].begin \in Nat /\ D[n].end \in Nat /\ 1 <= D[n].begin /\ D[n].begin <= Len(s)
    <3>1. /\ D[n].begin \in Nat /\ D[n].end \in Nat /\ 1 <= D[n].begin /\ D[n].begin < D[n].end
          /\ D[n].end <= Len(s)
      BY <1>1, BlocksAreIn
    <3> QED
      BY <1>1, <3>1
  <2>3. b \in T /\ y \in Seq(T)
    BY <1>1, <2>2, ElementOfSeq
  <2>4. f \in Seq(T) /\ Len(f) = g /\ g \in Nat /\ \A r \in 1..g : f[r] = s[D[n].end + r]
    <3>1. /\ After(s, D, n) \in Nat /\ D[n].end <= After(s, D, n)
          /\ f \in Seq(T) /\ Len(f) = g /\ \A r \in 1..g : f[r] = s[D[n].end + r]
      BY AfterIs
    <3> QED
      BY <2>2, <3>1
  <2>5. Len(y) \in Nat
    BY <2>3
  <2> HIDE DEF b, y, f, g
  <2>6. IsWritten(ss[n], b, y, f, T)
    <3>1. f \in Seq(T)
      BY <2>4
    <3> HIDE DEF ss
    <3> QED
      BY <2>1, <2>3, <3>1, BlockWritten
  <2> HIDE DEF ss
  <2>7. /\ ss[n] \in Seq(T) /\ Len(ss[n]) = Len(y) + 5 + g
        /\ ss[n][1] = b /\ ss[n][2] = NL
        /\ \A r \in 1..Len(y) : ss[n][2 + r] = y[r]
        /\ ss[n][Len(y) + 3] = NL /\ ss[n][Len(y) + 4] = End(b[2]) /\ ss[n][Len(y) + 5] = NL
        /\ \A r \in 1..g : ss[n][Len(y) + 5 + r] = s[D[n].end + r]
    BY <2>4, <2>6 DEF IsWritten
  <2> QED
    BY <2>4, <2>5, <2>7 DEF b, y, g
<1>4. ss \in Seq(Seq(T)) /\ Len(ss) = N
  <2>1. ss = [n \in 1..N |-> WriteBlock(s[D[n].begin], Y[n]) \o Following(s, D, n)]
    BY <1>2 DEF Rewritten
  <2>2. ss = [n \in 1..N |-> ss[n]]
    BY <2>1
  <2> HIDE DEF ss
  <2>3. ss \in [1..N -> Seq(T)]
    <3>1. \A n \in 1..N : ss[n] \in Seq(T)
      BY <1>3
    <3> HIDE DEF N
    <3> QED
      BY <2>2, <3>1
  <2> HIDE DEF N
  <2>4. N \in Nat
    BY <1>1 DEF N
  <2> QED
    BY <2>3, <2>4
<1>5. PICK off : x \in Seq(T) /\ LaidTo(ss, N, off, x)
  <2> HIDE DEF ss
  <2> QED
    BY <1>4, Flattened
<1>6. /\ a \in Nat /\ P \in Seq(T) /\ Len(P) = a /\ \A r \in 1..a : P[r] = s[r]
  <2>1. D[1].begin \in Nat /\ 1 <= D[1].begin /\ D[1].begin <= Len(s)
    <3>1. /\ D[1].begin \in Nat /\ D[1].end \in Nat /\ 1 <= D[1].begin /\ D[1].begin < D[1].end
          /\ D[1].end <= Len(s)
      BY <1>1, BlocksAreIn
    <3> QED
      BY <1>1, <3>1
  <2>2. a \in Nat /\ a <= Len(s) /\ 1 <= a + 1
    BY <1>1, <2>1
  <2>3. P = SubSeq(s, 1, a)
    BY DEF Prologue
  <2> HIDE DEF a, P
  <2>4. /\ SubSeq(s, 1, a) \in Seq(T) /\ Len(SubSeq(s, 1, a)) = a
        /\ \A i \in 1..a : SubSeq(s, 1, a)[i] = s[i]
    BY <2>2, PrefixText
  <2> QED
    BY <2>2, <2>3, <2>4
<1> DEFINE q == [n \in 1..(N + 1) |-> a + off[n]]
<1>7. m = P \o x
  BY DEF Rewrite
<1> HIDE DEF N, ss, x, P, a, m
<1>8. /\ m \in Seq(T) /\ Len(m) = a + Len(x) /\ Len(x) \in Nat
      /\ \A r \in 1..a : m[r] = s[r]
      /\ \A r \in 1..Len(x) : m[a + r] = x[r]
  <2>0. IsJoin(m, P, x, T)
    BY <1>5, <1>6, <1>7, JoinedText
  <2>1. /\ m \in Seq(T) /\ Len(m) = Len(P) + Len(x)
        /\ \A r \in 1..Len(P) : m[r] = P[r]
        /\ \A r \in 1..Len(x) : m[Len(P) + r] = x[r]
    BY <2>0 DEF IsJoin
  <2>2. Len(x) \in Nat
    BY <1>5
  <2> QED
    BY <1>6, <2>1, <2>2
<1>9. \A n \in 1..(N + 1) : off[n] \in Nat /\ q[n] = a + off[n]
  BY <1>5 DEF LaidTo
<1> HIDE DEF q
<1>10. ASSUME NEW n \in 1..N
       PROVE  /\ q[n + 1] = q[n] + Len(ss[n])
              /\ q[n + 1] <= Len(m)
              /\ \A r \in 1..Len(ss[n]) : m[q[n] + r] = ss[n][r]
  <2>1. n \in 1..(N + 1) /\ n + 1 \in 1..(N + 1)
    BY <1>1 DEF N
  <2>2. /\ off[n + 1] = off[n] + Len(ss[n]) /\ Len(ss[n]) \in Nat
        /\ \A r \in 1..Len(ss[n]) : x[off[n] + r] = ss[n][r]
    BY <1>3, <1>5 DEF LaidTo
  <2>3. off[n + 1] <= Len(x)
    <3>1. CASE n = N
      <4>1. off[n + 1] = Len(x)
        BY <1>5, <3>1 DEF LaidTo
      <4> QED
        BY <1>8, <4>1
    <3>2. CASE n # N
      <4>1. n + 1 \in 1..N /\ N + 1 \in (n + 2)..(N + 1) /\ n + 1 + 1 = n + 2
        BY <1>1, <3>2 DEF N
      <4>2. off[n + 1] + Len(ss[n + 1]) <= off[N + 1] /\ off[N + 1] = Len(x)
        BY <1>5, <4>1 DEF LaidTo
      <4>3. Len(ss[n + 1]) \in Nat
        BY <1>3, <4>1
      <4>4. off[n + 1] \in Nat
        BY <1>9, <2>1
      <4> QED
        BY <4>2, <4>3, <4>4
    <3> QED
      BY <3>1, <3>2
  <2>4. off[n] \in Nat /\ q[n] = a + off[n] /\ q[n + 1] = a + off[n + 1]
    BY <1>9, <2>1
  <2>5. \A r \in 1..Len(ss[n]) : off[n] + r \in 1..Len(x) /\ q[n] + r = a + (off[n] + r)
    <3> DEFINE l == Len(ss[n])
               o == off[n]
    <3>1. l \in Nat /\ o \in Nat /\ a \in Nat /\ o + l <= Len(x) /\ Len(x) \in Nat /\ q[n] = a + o
      BY <1>6, <1>8, <2>2, <2>3, <2>4
    <3> HIDE DEF l, o
    <3>2. \A r \in 1..l : o + r \in 1..Len(x) /\ q[n] + r = a + (o + r)
      BY <3>1
    <3> QED
      BY <3>2 DEF l, o
  <2>6. \A r \in 1..Len(ss[n]) : m[q[n] + r] = x[off[n] + r]
    BY <1>8, <2>5
  <2> QED
    BY <1>6, <1>8, <2>2, <2>3, <2>4, <2>6
<1>11. q[1] = a /\ q[N + 1] = Len(m)
  <2>1. 1 \in 1..(N + 1) /\ N + 1 \in 1..(N + 1)
    BY <1>1 DEF N
  <2>2. off[1] = 0 /\ off[N + 1] = Len(x)
    BY <1>5 DEF LaidTo
  <2> QED
    BY <1>6, <1>8, <1>9, <2>1, <2>2
<1>12. ASSUME NEW n \in 1..N
       PROVE  /\ q[n + 1] = q[n] + Len(Y[n]) + 5 + (After(s, D, n) - D[n].end)
              /\ q[n + 1] <= Len(m)
              /\ m[q[n] + 1] = s[D[n].begin] /\ m[q[n] + 2] = NL
              /\ \A r \in 1..Len(Y[n]) : m[q[n] + 2 + r] = Y[n][r]
              /\ m[q[n] + Len(Y[n]) + 3] = NL
              /\ m[q[n] + Len(Y[n]) + 4] = End(s[D[n].begin][2])
              /\ m[q[n] + Len(Y[n]) + 5] = NL
              /\ \A r \in 1..(After(s, D, n) - D[n].end) :
                    m[q[n] + Len(Y[n]) + 5 + r] = s[D[n].end + r]
  <2> DEFINE l == Len(Y[n])
             g == After(s, D, n) - D[n].end
  <2>1. q[n] \in Nat
    <3>1. n \in 1..(N + 1)
      BY <1>1 DEF N
    <3> QED
      BY <1>6, <1>9, <3>1
  <2>2. /\ Len(ss[n]) = l + 5 + g /\ l \in Nat /\ g \in Nat
        /\ ss[n][1] = s[D[n].begin] /\ ss[n][2] = NL
        /\ \A r \in 1..l : ss[n][2 + r] = Y[n][r]
        /\ ss[n][l + 3] = NL /\ ss[n][l + 4] = End(s[D[n].begin][2]) /\ ss[n][l + 5] = NL
        /\ \A r \in 1..g : ss[n][l + 5 + r] = s[D[n].end + r]
    BY <1>3
  <2> HIDE DEF l, g
  <2>3. /\ 1 \in 1..Len(ss[n]) /\ 2 \in 1..Len(ss[n]) /\ l + 3 \in 1..Len(ss[n])
        /\ l + 4 \in 1..Len(ss[n]) /\ l + 5 \in 1..Len(ss[n])
        /\ \A r \in 1..l : 2 + r \in 1..Len(ss[n])
        /\ \A r \in 1..g : l + 5 + r \in 1..Len(ss[n])
    BY <2>2
  <2>4. \A r \in 1..Len(ss[n]) : m[q[n] + r] = ss[n][r]
    BY <1>10
  <2>5. /\ m[q[n] + 1] = ss[n][1] /\ m[q[n] + 2] = ss[n][2] /\ m[q[n] + (l + 3)] = ss[n][l + 3]
        /\ m[q[n] + (l + 4)] = ss[n][l + 4] /\ m[q[n] + (l + 5)] = ss[n][l + 5]
        /\ \A r \in 1..l : m[q[n] + (2 + r)] = ss[n][2 + r]
        /\ \A r \in 1..g : m[q[n] + (l + 5 + r)] = ss[n][l + 5 + r]
    BY <2>3, <2>4
  <2>6. /\ q[n] + (l + 3) = q[n] + l + 3 /\ q[n] + (l + 4) = q[n] + l + 4
        /\ q[n] + (l + 5) = q[n] + l + 5 /\ q[n] + (l + 5 + g) = q[n] + l + 5 + g
        /\ \A r \in 1..l : q[n] + (2 + r) = q[n] + 2 + r
        /\ \A r \in 1..g : q[n] + (l + 5 + r) = q[n] + l + 5 + r
    <3> DEFINE o == q[n]
    <3>1. l \in Nat /\ g \in Nat /\ o \in Nat
      BY <2>1, <2>2
    <3> HIDE DEF o
    <3>2. /\ o + (l + 3) = o + l + 3 /\ o + (l + 4) = o + l + 4
          /\ o + (l + 5) = o + l + 5 /\ o + (l + 5 + g) = o + l + 5 + g
      BY <3>1
    <3>3. \A r \in 1..l : o + (2 + r) = o + 2 + r
      BY <3>1
    <3>4. \A r \in 1..g : o + (l + 5 + r) = o + l + 5 + r
      BY <3>1
    <3> QED
      BY <3>2, <3>3, <3>4 DEF o
  <2>7. q[n + 1] = q[n] + l + 5 + g /\ q[n + 1] <= Len(m)
    <3>1. q[n + 1] = q[n] + Len(ss[n]) /\ q[n + 1] <= Len(m)
      BY <1>10
    <3> QED
      BY <2>2, <2>6, <3>1
  <2>8. /\ m[q[n] + l + 3] = NL /\ m[q[n] + l + 4] = End(s[D[n].begin][2]) /\ m[q[n] + l + 5] = NL
        /\ \A r \in 1..l : m[q[n] + 2 + r] = Y[n][r]
        /\ \A r \in 1..g : m[q[n] + l + 5 + r] = s[D[n].end + r]
    BY <2>2, <2>5, <2>6
  <2> QED
    BY <2>2, <2>5, <2>7, <2>8 DEF l, g
<1>13. LaidOut(m, s, D, Y, q)
  <2>1. \A n \in 1..(N + 1) : q[n] \in Nat
    BY <1>6, <1>9
  <2>2. \A r \in 1..(D[1].begin - 1) : m[r] = s[r]
    BY <1>8 DEF a
  <2> QED
    BY <1>11, <1>12, <2>1, <2>2 DEF LaidOut, N, a
<1> QED
  BY <1>8, <1>13 DEF m

\* Where the blocks of a text laid out like that are.
Placed(D, Y, q) ==
    [n \in 1..Len(D) |-> [begin |-> q[n] + 1, end |-> q[n] + Len(Y[n]) + 4]]

LEMMA MarkersDiffer ==
    /\ ~IsBegin(NL)
    /\ \A id : NL # End(id)
  BY DEF IsBegin, NL, End

\* The scan of a rewritten text finds its blocks, each with the body it was given.
LEMMA RewriteScans ==
    ASSUME NEW T, Closed(T), NEW s \in Seq(T), NEW D, ScanFrom(s, 1, D), D # <<>>,
           NEW Y \in [1..Len(D) -> Seq(T)],
           \A n \in 1..Len(D) : End(s[D[n].begin][2]) \notin Range(Y[n]),
           NEW m \in Seq(T), NEW q, LaidOut(m, s, D, Y, q)
    PROVE  ScanFrom(m, 1, Placed(D, Y, q))
<1> DEFINE N    == Len(D)
           M    == Len(m)
           E    == Placed(D, Y, q)
           o(n) == q[n]
           l(n) == Len(Y[n])
           b(n) == D[n].begin
           d(n) == D[n].end
           g(n) == After(s, D, n) - D[n].end
<1>1. N \in Nat /\ N # 0 /\ 1 \in 1..N /\ Len(s) \in Nat /\ M \in Nat
  BY EmptySeq DEF ScanFrom
<1>2. ASSUME NEW n \in 1..N
      PROVE  o(n) \in Nat /\ o(n + 1) \in Nat /\ l(n) \in Nat
  <2>1. n \in 1..(N + 1) /\ n + 1 \in 1..(N + 1)
    BY <1>1
  <2> QED
    BY <2>1 DEF LaidOut
<1>3. ASSUME NEW n \in 1..N
      PROVE  E[n] = [begin |-> o(n) + 1, end |-> o(n) + l(n) + 4] /\ E[n] \in Blocks
  <2>1. E[n] = [begin |-> o(n) + 1, end |-> o(n) + l(n) + 4]
    BY DEF Placed
  <2>2. o(n) + 1 \in Nat /\ o(n) + l(n) + 4 \in Nat
    <3> HIDE DEF o, l
    <3> QED
      BY <1>2
  <2> HIDE DEF E, o, l
  <2> QED
    BY <2>1, <2>2 DEF Blocks
<1>4. E \in Seq(Blocks) /\ Len(E) = N
  <2>1. E = [n \in 1..N |-> E[n]]
    BY DEF Placed
  <2> HIDE DEF E, N
  <2>2. \A n \in 1..N : E[n] \in Blocks
    BY <1>3
  <2>3. E \in [1..N -> Blocks]
    BY <2>1, <2>2
  <2>4. N \in Nat
    BY <1>1
  <2> QED
    BY <2>3, <2>4
<1>5. ASSUME NEW n \in 1..N
      PROVE  /\ b(n) \in Nat /\ d(n) \in Nat /\ b(n) < d(n) /\ d(n) <= Len(s)
             /\ IsBlock(s, Start(D, 1, n), D[n]) /\ IsBegin(s[b(n)])
  <2>1. /\ b(n) \in Nat /\ d(n) \in Nat /\ b(n) < d(n) /\ d(n) <= Len(s)
        /\ IsBlock(s, Start(D, 1, n), D[n])
    BY <1>1, BlocksAreIn
  <2> QED
    BY <2>1 DEF IsBlock
<1>6. ASSUME NEW n \in 1..N
      PROVE  g(n) \in Nat
  <2>1. After(s, D, n) \in Nat /\ d(n) <= After(s, D, n)
    BY AfterIs
  <2> DEFINE a == After(s, D, n)
             c == d(n)
  <2>2. a \in Nat /\ c \in Nat /\ c <= a
    BY <1>5, <2>1
  <2> HIDE DEF a, c
  <2>3. a - c \in Nat
    BY <2>2
  <2> QED
    BY <2>3 DEF a, c
<1>7. ASSUME NEW n \in 1..N
      PROVE  /\ o(n + 1) = o(n) + l(n) + 5 + g(n) /\ o(n + 1) <= M
             /\ m[o(n) + 1] = s[b(n)] /\ m[o(n) + 2] = NL
             /\ \A r \in 1..l(n) : m[o(n) + 2 + r] = Y[n][r]
             /\ m[o(n) + l(n) + 3] = NL
             /\ m[o(n) + l(n) + 4] = End(s[b(n)][2])
             /\ m[o(n) + l(n) + 5] = NL
             /\ \A r \in 1..g(n) : m[o(n) + l(n) + 5 + r] = s[d(n) + r]
  BY DEF LaidOut
<1>8. o(1) = b(1) - 1 /\ o(N + 1) = M /\ \A r \in 1..(b(1) - 1) : m[r] = s[r]
  BY DEF LaidOut
<1>9. \A n \in 1..N : n # 1 => g(n - 1) = b(n) - 1 - d(n - 1)
  <2> SUFFICES ASSUME NEW n \in 1..N, n # 1 PROVE g(n - 1) = b(n) - 1 - d(n - 1)
    OBVIOUS
  <2>1. n - 1 < N /\ n - 1 + 1 = n
    BY <1>1
  <2>2. After(s, D, n - 1) = D[n].begin - 1
    BY <2>1 DEF After
  <2> QED
    BY <2>2
<1>10. g(N) = Len(s) - d(N)
  <2>1. ~(N < N)
    BY <1>1
  <2> QED
    BY <2>1 DEF After
<1>11. ASSUME NEW n \in 1..N, NEW r \in 1..l(n) PROVE Y[n][r] # End(s[b(n)][2])
  <2>1. Y[n] \in Seq(T) /\ Y[n][r] \in {Y[n][j] : j \in 1..Len(Y[n])}
    OBVIOUS
  <2>2. Y[n][r] \in Range(Y[n])
    BY <2>1, RangeEquality
  <2>3. End(s[b(n)][2]) \notin Range(Y[n])
    OBVIOUS
  <2> QED
    BY <2>2, <2>3
<1>12. \A n \in 1..N : E[n].begin = o(n) + 1 /\ E[n].end = o(n) + l(n) + 4
  <2> SUFFICES ASSUME NEW n \in 1..N PROVE E[n].begin = o(n) + 1 /\ E[n].end = o(n) + l(n) + 4
    OBVIOUS
  <2>1. E[n] = [begin |-> o(n) + 1, end |-> o(n) + l(n) + 4]
    BY <1>3
  <2> HIDE DEF E, o, l
  <2> QED
    BY <2>1
<1>13. \A n \in 1..N : n # 1 => Start(E, 1, n) = o(n - 1) + l(n - 1) + 5 /\ Start(D, 1, n) = d(n - 1) + 1
  <2> SUFFICES ASSUME NEW n \in 1..N, n # 1
               PROVE  Start(E, 1, n) = o(n - 1) + l(n - 1) + 5 /\ Start(D, 1, n) = d(n - 1) + 1
    OBVIOUS
  <2>1. Start(E, 1, n) = E[n - 1].end + 1 /\ Start(D, 1, n) = d(n - 1) + 1
    BY DEF Start
  <2>2. n - 1 \in 1..N
    BY <1>1
  <2> HIDE DEF E, o, l, d
  <2>3. E[n - 1].end = o(n - 1) + l(n - 1) + 4 /\ o(n - 1) \in Nat /\ l(n - 1) \in Nat
    BY <1>2, <1>12, <2>2
  <2>4. o(n - 1) + l(n - 1) + 4 + 1 = o(n - 1) + l(n - 1) + 5
    BY <2>3
  <2> QED
    BY <2>1, <2>3, <2>4
<1>14. Start(E, 1, N + 1) = o(N) + l(N) + 5 /\ Start(D, 1, N + 1) = d(N) + 1
  <2>1. N \in 1..N /\ N + 1 # 1 /\ N + 1 - 1 = N
    BY <1>1
  <2>2. Start(E, 1, N + 1) = E[N].end + 1 /\ Start(D, 1, N + 1) = d(N) + 1
    BY <2>1 DEF Start
  <2> HIDE DEF E, o, l, d, N
  <2>3. o(N) + l(N) + 4 + 1 = o(N) + l(N) + 5
    BY <1>2, <2>1
  <2> QED
    BY <1>12, <2>1, <2>2, <2>3
<1>15. NoBlock(s, d(N) + 1)
  BY <1>14 DEF ScanFrom
<1> HIDE DEF E, N, M, o, l, b, d, g
\* The text behind a block, up to the next one.
<1>16. ASSUME NEW n \in 1..N, NEW i \in (o(n) + l(n) + 5)..o(n + 1)
       PROVE  \/ i = o(n) + l(n) + 5 /\ m[i] = NL
              \/ \E r \in 1..g(n) : i = o(n) + l(n) + 5 + r /\ m[i] = s[d(n) + r]
  <2> DEFINE r == i - (o(n) + l(n) + 5)
  <2>1. o(n) \in Nat /\ l(n) \in Nat /\ g(n) \in Nat
    BY <1>2, <1>6
  <2>2. o(n + 1) = o(n) + l(n) + 5 + g(n)
    BY <1>7
  <2>3. r \in 0..g(n) /\ i = o(n) + l(n) + 5 + r
    BY <2>1, <2>2
  <2> HIDE DEF r
  <2>4. CASE r = 0
    <3>1. i = o(n) + l(n) + 5
      BY <2>1, <2>3, <2>4
    <3> QED
      BY <1>7, <3>1
  <2>5. CASE r # 0
    <3>1. r \in 1..g(n)
      BY <2>1, <2>3, <2>5
    <3> QED
      BY <1>7, <2>3, <3>1
  <2> QED
    BY <2>4, <2>5
<1>17. ASSUME NEW n \in 1..N
       PROVE  IsBlock(m, Start(E, 1, n), E[n])
  <2> DEFINE id == s[b(n)][2]
  <2>1. o(n) \in Nat /\ l(n) \in Nat /\ g(n) \in Nat
    BY <1>2, <1>6
  <2>2. E[n].begin = o(n) + 1 /\ E[n].end = o(n) + l(n) + 4 /\ E[n] \in Blocks
    BY <1>3, <1>12
  <2>3. o(n) + 1 < o(n) + l(n) + 4 /\ o(n) + l(n) + 4 <= M
    <3>1. o(n + 1) = o(n) + l(n) + 5 + g(n) /\ o(n + 1) <= M
      BY <1>7
    <3> QED
      BY <1>1, <2>1, <3>1
  <2>4. m[o(n) + 1] = s[b(n)] /\ m[o(n) + 1][2] = id /\ m[o(n) + l(n) + 4] = End(id)
    BY <1>7
  <2>5. IsBegin(m[o(n) + 1])
    BY <1>5, <2>4
  <2>6. ASSUME NEW i \in (o(n) + 2)..(o(n) + l(n) + 3) PROVE m[i] # End(id)
    <3>1. CASE i = o(n) + 2 \/ i = o(n) + l(n) + 3
      BY <1>7, <3>1, MarkersDiffer
    <3>2. CASE i # o(n) + 2 /\ i # o(n) + l(n) + 3
      <4> DEFINE r == i - (o(n) + 2)
      <4>1. r \in 1..l(n) /\ i = o(n) + 2 + r
        <5> DEFINE a == o(n)
                   c == l(n)
        <5>1. a \in Nat /\ c \in Nat /\ i \in (a + 2)..(a + c + 3) /\ i # a + 2 /\ i # a + c + 3
          BY <2>1, <3>2
        <5> HIDE DEF a, c
        <5>2. i - (a + 2) \in 1..c /\ i = a + 2 + (i - (a + 2))
          BY <5>1
        <5> QED
          BY <5>2 DEF a, c
      <4> HIDE DEF r
      <4>2. m[i] = Y[n][r]
        BY <1>7, <4>1
      <4> QED
        BY <1>11, <4>1, <4>2
    <3> QED
      BY <3>1, <3>2
  <2>7. /\ Start(E, 1, n) \in Nat /\ Start(E, 1, n) <= o(n) + 1
        /\ \A i \in Start(E, 1, n)..o(n) : ~IsBegin(m[i])
    <3>1. CASE n = 1
      <4>1. Start(E, 1, n) = 1 /\ Start(D, 1, n) = 1
        BY <3>1 DEF Start
      <4>2. IsBlock(s, 1, D[n])
        BY <1>5, <4>1
      <4>3. \A i \in 1..(b(1) - 1) : ~IsBegin(s[i])
        BY <3>1, <4>2 DEF IsBlock, b
      <4>4. \A i \in 1..o(n) : ~IsBegin(m[i])
        BY <1>8, <3>1, <4>3
      <4> QED
        BY <2>1, <4>1, <4>4
    <3>2. CASE n # 1
      <4> DEFINE k == n - 1
      <4>1. k \in 1..N /\ n = k + 1
        BY <1>1, <3>2
      <4>2. Start(E, 1, n) = o(k) + l(k) + 5 /\ Start(D, 1, n) = d(k) + 1 /\ g(k) = b(n) - 1 - d(k)
        BY <1>9, <1>13, <3>2
      <4> HIDE DEF k
      <4>3. o(k) \in Nat /\ l(k) \in Nat /\ g(k) \in Nat /\ d(k) \in Nat /\ b(n) \in Nat
        BY <1>2, <1>5, <1>6, <4>1
      <4>4. o(n) = o(k) + l(k) + 5 + g(k)
        BY <1>7, <4>1
      <4>5. Start(E, 1, n) \in Nat /\ Start(E, 1, n) <= o(n) + 1
        <5> DEFINE u == Start(E, 1, n)
                   v == o(n)
                   x == o(k)
                   y == l(k)
                   z == g(k)
        <5>1. u = x + y + 5 /\ v = x + y + 5 + z
          BY ONLY <4>2, <4>4
        <5>2. x \in Nat /\ y \in Nat /\ z \in Nat
          BY ONLY <4>3
        <5> HIDE DEF u, v, x, y, z
        <5>3. u \in Nat /\ u <= v + 1
          BY ONLY <5>1, <5>2
        <5> QED
          BY ONLY <5>3 DEF u, v
      <4>6. IsBlock(s, d(k) + 1, D[n])
        BY <1>5, <4>2
      <4>7. \A i \in (d(k) + 1)..(b(n) - 1) : ~IsBegin(s[i])
        BY <4>6 DEF IsBlock, b
      <4>8. ASSUME NEW i \in (o(k) + l(k) + 5)..o(n) PROVE ~IsBegin(m[i])
        <5>1. i \in (o(k) + l(k) + 5)..o(k + 1)
          BY <4>1
        <5>2. \/ m[i] = NL
              \/ \E r \in 1..g(k) : m[i] = s[d(k) + r]
          BY <1>16, <4>1, <5>1
        <5>3. \A r \in 1..g(k) : d(k) + r \in (d(k) + 1)..(b(n) - 1)
          BY <4>2, <4>3
        <5> QED
          BY <4>7, <5>2, <5>3, MarkersDiffer
      <4> QED
        BY <4>2, <4>5, <4>8
    <3> QED
      BY <3>1, <3>2
  <2> DEFINE k == E[n]
  <2>8. k.begin \in Nat /\ k.end - 1 = o(n) + l(n) + 3 /\ k.begin + 1 = o(n) + 2 /\ k.begin - 1 = o(n)
    <3>1. /\ o(n) + 1 \in Nat /\ o(n) + l(n) + 4 - 1 = o(n) + l(n) + 3
          /\ o(n) + 1 + 1 = o(n) + 2 /\ o(n) + 1 - 1 = o(n)
      BY <2>1
    <3>2. k.begin = o(n) + 1 /\ k.end = o(n) + l(n) + 4
      BY <2>2
    <3> DEFINE u == k.begin
               v == k.end
               x == o(n)
               y == l(n)
    <3>3. u = x + 1 /\ v = x + y + 4 /\ x \in Nat /\ y \in Nat
      BY <2>1, <3>2
    <3> HIDE DEF u, v, x, y
    <3>4. u \in Nat /\ v - 1 = x + y + 3 /\ u + 1 = x + 2 /\ u - 1 = x
      BY <3>3
    <3> QED
      BY <3>4 DEF u, v, x, y
  <2>9. k \in Blocks /\ Start(E, 1, n) <= k.begin /\ k.begin < k.end /\ k.end <= Len(m)
    BY <2>2, <2>3, <2>7 DEF M
  <2>10. IsBegin(m[k.begin]) /\ m[k.begin][2] = id /\ m[k.end] = End(id)
    BY <2>2, <2>4, <2>5
  <2>11. \A i \in Start(E, 1, n)..(k.begin - 1) : ~IsBegin(m[i])
    BY <2>7, <2>8
  <2>12. \A i \in (k.begin + 1)..(k.end - 1) : m[i] # End(id)
    BY <2>6, <2>8
  <2> HIDE DEF k, id
  <2>13. IsBlock(m, Start(E, 1, n), k)
    BY <2>9, <2>10, <2>11, <2>12 DEF IsBlock
  <2> QED
    BY <2>13 DEF k
<1>18. NoBlock(m, Start(E, 1, N + 1))
  <2> DEFINE v == o(N) + l(N) + 5
             c == d(N)
             h == Len(s) - c
  <2>1. N \in 1..N
    BY <1>1
  <2>2. v \in Nat /\ c \in Nat /\ c <= Len(s) /\ h \in Nat /\ Len(s) = c + h
    <3>1. o(N) \in Nat /\ l(N) \in Nat
      BY <1>2, <2>1
    <3>2. c \in Nat /\ c <= Len(s) /\ Len(s) \in Nat
      BY <1>1, <1>5, <2>1
    <3> HIDE DEF c
    <3> QED
      BY <3>1, <3>2
  <2>3. Start(E, 1, N + 1) = v
    BY <1>14
  <2>4. M = v + h
    <3>1. o(N + 1) = v + g(N) /\ o(N + 1) = M /\ g(N) = h
      BY <1>7, <1>8, <1>10, <2>1
    <3> QED
      BY <3>1
  <2>5. ASSUME NEW i \in v..M
        PROVE  \/ i = v /\ m[i] = NL
               \/ \E r \in 1..h : i = v + r /\ m[i] = s[c + r]
    <3>1. i \in v..o(N + 1) /\ g(N) = h
      BY <1>8, <1>10
    <3> QED
      BY <1>16, <2>1, <3>1
  <2>6. NoBlock(s, c + 1)
    BY <1>15
  <2> HIDE DEF v, c, h
  <2>7. ASSUME \A i \in (c + 1)..Len(s) : ~IsBegin(s[i]) PROVE NoBlock(m, v)
    <3>1. \A r \in 1..h : c + r \in (c + 1)..Len(s)
      BY <1>1, <2>2
    <3>2. \A i \in v..M : ~IsBegin(m[i])
      BY <2>5, <2>7, <3>1, MarkersDiffer
    <3> QED
      BY <3>2 DEF NoBlock, M
  <2>8. ASSUME NEW p \in (c + 1)..Len(s), IsBegin(s[p]), \A i \in (c + 1)..(p - 1) : ~IsBegin(s[i]),
               \A i \in (p + 1)..Len(s) : s[i] # End(s[p][2])
        PROVE  NoBlock(m, v)
    <3> DEFINE r == p - c
    <3>1. r \in 1..h /\ p = c + r
      BY <1>1, <2>2
    <3> HIDE DEF r
    <3> DEFINE z == v + r
    <3>2. z \in v..M /\ z # v
      BY <1>1, <2>2, <2>4, <3>1
    <3>3. \A t \in 1..h : v + t = z => t = r
      BY <2>2, <3>1
    <3> HIDE DEF z
    <3>4. m[z] = s[p]
      BY <2>5, <3>1, <3>2, <3>3
    <3>5. ASSUME NEW i \in v..(z - 1) PROVE ~IsBegin(m[i])
      <4>1. i \in v..M
        BY <1>1, <2>2, <3>2
      <4>2. CASE m[i] = NL
        BY <4>2, MarkersDiffer
      <4>3. CASE m[i] # NL
        <5>1. PICK t \in 1..h : i = v + t /\ m[i] = s[c + t]
          BY <2>5, <4>1, <4>3
        <5>2. c + t \in (c + 1)..(p - 1)
          BY <2>2, <3>1, <5>1 DEF z
        <5> QED
          BY <2>8, <5>1, <5>2
      <4> QED
        BY <4>2, <4>3
    <3>6. ASSUME NEW i \in (z + 1)..Len(m) PROVE m[i] # End(m[z][2])
      <4>1. i \in v..M /\ i # v
        BY <1>1, <2>2, <3>2 DEF M
      <4>2. PICK t \in 1..h : i = v + t /\ m[i] = s[c + t]
        BY <2>5, <4>1
      <4>3. c + t \in (p + 1)..Len(s)
        BY <1>1, <2>2, <3>1, <4>2 DEF z
      <4> QED
        BY <2>8, <3>4, <4>2, <4>3
    <3>7. z \in v..Len(m) /\ IsBegin(m[z])
      BY <2>8, <3>2, <3>4 DEF M
    <3> QED
      BY <3>5, <3>6, <3>7 DEF NoBlock
  <2>9. NoBlock(m, v)
    <3>1. CASE \A i \in (c + 1)..Len(s) : ~IsBegin(s[i])
      BY <2>7, <3>1
    <3>2. CASE \E p \in (c + 1)..Len(s) :
                  /\ IsBegin(s[p]) /\ \A i \in (c + 1)..(p - 1) : ~IsBegin(s[i])
                  /\ \A i \in (p + 1)..Len(s) : s[i] # End(s[p][2])
      BY <2>8, <3>2
    <3> QED
      BY <2>6, <3>1, <3>2 DEF NoBlock
  <2> QED
    BY <2>3, <2>9
<1>19. ScanFrom(m, 1, E)
  BY <1>4, <1>17, <1>18 DEF ScanFrom
<1> QED
  BY <1>19 DEF E

\* The blocks E of m are the blocks D of s with the bodies Y.
IsRewrite(m, E, s, D, Y) ==
    /\ Len(E) = Len(D)
    /\ Prologue(m, E) = Prologue(s, D)
    /\ \A n \in 1..Len(D) :
          /\ m[E[n].begin] = s[D[n].begin]
          /\ Body(m, E[n]) = Y[n]
          /\ Following(m, E, n) = <<NL>> \o Following(s, D, n)

\* Each block of a rewritten text has the body it was given, and the old text around it.
LEMMA RewriteKeeps ==
    ASSUME NEW T, Closed(T), NEW s \in Seq(T), NEW D, ScanFrom(s, 1, D), D # <<>>,
           NEW Y \in [1..Len(D) -> Seq(T)],
           NEW m \in Seq(T), NEW q, LaidOut(m, s, D, Y, q),
           NEW E, E = Placed(D, Y, q), ScanFrom(m, 1, E)
    PROVE  IsRewrite(m, E, s, D, Y)
<1> DEFINE N    == Len(D)
           o(n) == q[n]
           l(n) == Len(Y[n])
           d(n) == D[n].end
           g(n) == After(s, D, n) - D[n].end
<1>1. N \in Nat /\ N # 0 /\ 1 \in 1..N /\ Len(s) \in Nat /\ Len(m) \in Nat /\ E \in Seq(Blocks)
  BY EmptySeq DEF ScanFrom
<1>2. Len(E) = N /\ DOMAIN E = 1..N /\ E # <<>>
  BY <1>1 DEF Placed
<1>3. ASSUME NEW n \in 1..N
      PROVE  /\ o(n) \in Nat /\ o(n + 1) \in Nat /\ l(n) \in Nat /\ g(n) \in Nat /\ d(n) \in Nat
             /\ o(n + 1) = o(n) + l(n) + 5 + g(n) /\ o(n + 1) <= Len(m)
             /\ E[n] = [begin |-> o(n) + 1, end |-> o(n) + l(n) + 4]
  <2>1. n \in 1..(N + 1) /\ n + 1 \in 1..(N + 1)
    BY <1>1
  <2>2. E[n] = [begin |-> o(n) + 1, end |-> o(n) + l(n) + 4]
    BY DEF Placed
  <2>3. o(n) \in Nat /\ o(n + 1) \in Nat /\ l(n) \in Nat
    BY <2>1 DEF LaidOut
  <2>4. o(n + 1) = o(n) + l(n) + 5 + g(n) /\ o(n + 1) <= Len(m)
    BY DEF LaidOut
  <2>5. d(n) \in Nat
    BY <1>1, BlocksAreIn
  <2>6. g(n) \in Nat
    <3> DEFINE a == After(s, D, n)
               c == D[n].end
    <3>1. a \in Nat /\ c \in Nat /\ c <= a
      BY <2>5, AfterIs
    <3> HIDE DEF a, c
    <3>2. a - c \in Nat
      BY <3>1
    <3> QED
      BY <3>2 DEF a, c
  <2> QED
    BY <2>2, <2>3, <2>4, <2>5, <2>6
<1>4. ASSUME NEW n \in 1..N
      PROVE  E[n].begin = o(n) + 1 /\ E[n].end = o(n) + l(n) + 4
  <2> DEFINE u == o(n) + 1
             v == o(n) + l(n) + 4
  <2>1. E[n] = [begin |-> u, end |-> v]
    BY <1>3
  <2> HIDE DEF u, v
  <2>2. E[n].begin = u /\ E[n].end = v
    BY <2>1
  <2> QED
    BY <2>2 DEF u, v
<1>5. ASSUME NEW n \in 1..N
      PROVE  /\ m[o(n) + 1] = s[D[n].begin] /\ m[o(n) + 2] = NL
             /\ \A r \in 1..l(n) : m[o(n) + 2 + r] = Y[n][r]
             /\ m[o(n) + l(n) + 3] = NL /\ m[o(n) + l(n) + 5] = NL
             /\ \A r \in 1..g(n) : m[o(n) + l(n) + 5 + r] = s[d(n) + r]
  BY DEF LaidOut
<1>6. ASSUME NEW n \in 1..N PROVE m[E[n].begin] = s[D[n].begin]
  BY <1>4, <1>5
<1>8. ASSUME NEW n \in 1..N PROVE Body(m, E[n]) = Y[n]
  <2> DEFINE k == E[n]
             y == Y[n]
             a == o(n)
             c == l(n)
  <2>1. y \in Seq(T) /\ c = Len(y)
    OBVIOUS
  <2>2. k = [begin |-> a + 1, end |-> a + c + 4] /\ k.begin = a + 1 /\ k.end = a + c + 4
    BY <1>3, <1>4
  <2>3. a \in Nat /\ c \in Nat /\ a + c + 5 <= Len(m)
    <3> DEFINE h == g(n)
    <3>1. a \in Nat /\ c \in Nat /\ h \in Nat /\ o(n + 1) = a + c + 5 + h /\ o(n + 1) <= Len(m)
      BY <1>3
    <3> HIDE DEF a, c, h
    <3>2. a + c + 5 + h <= Len(m)
      BY <3>1
    <3>3. a + c + 5 <= Len(m)
      BY <1>1, <3>1, <3>2
    <3> QED
      BY <3>1, <3>3
  <2>4. m[a + 2] = NL /\ m[a + c + 3] = NL /\ \A r \in 1..c : m[a + 2 + r] = y[r]
    BY <1>5
  <2> HIDE DEF k, y, a, c, o, l
  <2>5. /\ a + 1 \in Nat /\ a + c + 4 \in Nat /\ 1 <= a + 1 /\ a + c + 4 <= Len(m)
        /\ a + c + 4 = a + 1 + c + 3 /\ a + 1 + 1 = a + 2 /\ a + c + 4 - 1 = a + c + 3
    BY <1>1, <2>3
  <2>6. k \in Blocks
    BY <2>2, <2>5 DEF Blocks
  <2>7. 1 <= k.begin /\ k.end <= Len(m) /\ k.end = k.begin + Len(y) + 3
    BY <2>1, <2>2, <2>5
  <2>8. /\ m[k.begin + 1] = NL /\ m[k.end - 1] = NL
        /\ \A r \in 1..Len(y) : m[k.begin + 1 + r] = y[r]
    <3> DEFINE u == k.begin
               v == k.end
    <3>1. u = a + 1 /\ v = a + c + 4
      BY <2>2
    <3> HIDE DEF u, v
    <3>2. u + 1 = a + 2 /\ v - 1 = a + c + 3
      BY <2>3, <3>1
    <3>3. m[u + 1] = NL /\ m[v - 1] = NL
      BY <2>4, <3>2
    <3>4. ASSUME NEW r \in 1..Len(y) PROVE m[u + 1 + r] = y[r]
      <4>1. r \in 1..c
        BY <2>1
      <4>2. m[a + 2 + r] = y[r]
        BY <2>4, <4>1
      <4> QED
        BY <3>2, <4>2
    <3> QED
      BY <3>3, <3>4 DEF u, v
  <2>9. Body(m, k) = y
    BY <2>1, <2>6, <2>7, <2>8, WrittenBody
  <2> QED
    BY <2>9 DEF k, y
<1>9. ASSUME NEW n \in 1..N PROVE Following(m, E, n) = <<NL>> \o Following(s, D, n)
  <2> DEFINE f == Following(s, D, n)
             h == Following(m, E, n)
             a == o(n)
             c == l(n)
             z == g(n)
             w == <<NL>> \o f
  <2>1. a \in Nat /\ c \in Nat /\ z \in Nat /\ o(n + 1) = a + c + 5 + z
    BY <1>3
  <2>2. f \in Seq(T) /\ Len(f) = z /\ \A r \in 1..z : f[r] = s[d(n) + r]
    BY AfterIs
  <2>3. m[a + c + 5] = NL /\ \A r \in 1..z : m[a + c + 5 + r] = s[d(n) + r]
    BY <1>5
  <2>4. After(m, E, n) = o(n + 1)
    <3>1. CASE n < N
      <4>1. n + 1 \in 1..N
        BY <1>1, <3>1
      <4>2. E[n + 1].begin = o(n + 1) + 1 /\ o(n + 1) \in Nat
        BY <1>3, <1>4, <4>1
      <4>3. After(m, E, n) = E[n + 1].begin - 1
        BY <1>2, <3>1 DEF After
      <4> HIDE DEF o
      <4> QED
        BY <4>2, <4>3
    <3>2. CASE ~(n < N)
      <4>1. n = N
        BY <1>1, <3>2
      <4>2. o(N + 1) = Len(m)
        BY DEF LaidOut
      <4>3. After(m, E, n) = Len(m)
        BY <1>2, <3>2 DEF After
      <4> QED
        BY <4>1, <4>2, <4>3
    <3> QED
      BY <3>1, <3>2
  <2>5. E[n].end = a + c + 4
    BY <1>4
  <2>6. h \in Seq(T) /\ Len(h) = After(m, E, n) - E[n].end
        /\ \A r \in 1..(After(m, E, n) - E[n].end) : h[r] = m[E[n].end + r]
    BY <1>2, AfterIs
  <2> HIDE DEF f, h, a, c, z, o, d
  <2>7. After(m, E, n) - E[n].end = 1 + z
    <3>1. a + c + 5 + z - (a + c + 4) = 1 + z
      BY <2>1
    <3> QED
      BY <2>1, <2>4, <2>5, <3>1
  <2>8. h \in Seq(T) /\ Len(h) = 1 + z /\ \A r \in 1..(1 + z) : h[r] = m[a + c + 4 + r]
    BY <2>5, <2>6, <2>7
  <2>9. w \in Seq(T) /\ Len(w) = 1 + z /\ w[1] = NL /\ \A r \in 1..z : w[1 + r] = f[r]
    <3> DEFINE b == <<NL>>
    <3>1. b \in Seq(T) /\ Len(b) = 1 /\ b[1] = NL /\ 1 \in 1..1
      BY DEF Closed
    <3> HIDE DEF b
    <3>2. IsJoin(b \o f, b, f, T)
      BY <2>2, <3>1, JoinedText
    <3>3. w = b \o f
      BY DEF b
    <3> HIDE DEF w
    <3>4. IsJoin(w, b, f, T)
      BY <3>2, <3>3
    <3> QED
      BY <2>2, <3>1, <3>4 DEF IsJoin
  <2> HIDE DEF w
  <2>10. ASSUME NEW r \in 1..(1 + z) PROVE h[r] = w[r]
    <3>1. CASE r = 1
      <4>1. a + c + 4 + 1 = a + c + 5 /\ 1 \in 1..(1 + z)
        BY <2>1
      <4> QED
        BY <2>3, <2>8, <2>9, <3>1, <4>1
    <3>2. CASE r # 1
      <4> DEFINE t == r - 1
      <4>1. t \in 1..z /\ r = 1 + t
        BY <2>1, <3>2
      <4> HIDE DEF t
      <4>2. a + c + 4 + r = a + c + 5 + t
        BY <2>1, <4>1
      <4>3. h[r] = m[a + c + 5 + t]
        BY <2>8, <4>2
      <4>4. m[a + c + 5 + t] = s[d(n) + t] /\ f[t] = s[d(n) + t] /\ w[1 + t] = f[t]
        BY <2>2, <2>3, <2>9, <4>1
      <4> QED
        BY <4>1, <4>3, <4>4
    <3> QED
      BY <3>1, <3>2
  <2>11. h = w
    BY <2>8, <2>9, <2>10, SeqEqual
  <2> QED
    BY <2>11 DEF h, w, f
<1>7. Prologue(m, E) = Prologue(s, D)
  <2> DEFINE a == D[1].begin - 1
  <2>1. E[1].begin - 1 = a
    <3>1. q[1] = a
      BY DEF LaidOut
    <3>2. E[1].begin = o(1) + 1 /\ o(1) \in Nat
      BY <1>1, <1>3, <1>4
    <3>3. o(1) + 1 - 1 = o(1)
      <4> HIDE DEF o
      <4> QED
        BY <3>2
    <3> QED
      BY <3>1, <3>2, <3>3
  <2>2. Prologue(m, E) = SubSeq(m, 1, a) /\ Prologue(s, D) = SubSeq(s, 1, a)
    BY <1>2, <2>1 DEF Prologue
  <2>3. a \in Nat /\ a <= Len(s) /\ a <= Len(m)
    <3>1. /\ D[1].begin \in Nat /\ D[1].end \in Nat /\ 1 <= D[1].begin /\ D[1].begin < D[1].end
          /\ D[1].end <= Len(s)
      BY <1>1, BlocksAreIn DEF N
    <3>2. /\ E[1].begin \in Nat /\ E[1].end \in Nat /\ E[1].begin < E[1].end
          /\ E[1].end <= Len(m)
      BY <1>1, <1>2, BlocksAreIn
    <3> DEFINE b == D[1].begin
               c == E[1].begin
    <3>3. b \in Nat /\ 1 <= b /\ b <= Len(s)
      BY <1>1, <3>1
    <3>4. c \in Nat /\ c <= Len(m) /\ c - 1 = a
      BY <1>1, <2>1, <3>2
    <3>5. a = b - 1
      OBVIOUS
    <3> HIDE DEF a, b, c
    <3>6. a \in Nat /\ a <= Len(s)
      BY <1>1, <3>3, <3>5
    <3>7. a <= Len(m)
      BY <1>1, <3>4, <3>6
    <3> QED
      BY <3>6, <3>7
  <2>4. \A r \in 1..a : m[r] = s[r]
    BY DEF LaidOut
  <2> HIDE DEF a
  <2>5. /\ SubSeq(s, 1, a) \in Seq(T) /\ Len(SubSeq(s, 1, a)) = a
        /\ \A i \in 1..a : SubSeq(s, 1, a)[i] = s[i]
    BY <2>3, PrefixText
  <2>6. /\ SubSeq(m, 1, a) \in Seq(T) /\ Len(SubSeq(m, 1, a)) = a
        /\ \A i \in 1..a : SubSeq(m, 1, a)[i] = m[i]
    BY <2>3, PrefixText
  <2>7. \A i \in 1..a : SubSeq(s, 1, a)[i] = SubSeq(m, 1, a)[i]
    BY <2>3, <2>4, <2>5, <2>6
  <2>8. SubSeq(s, 1, a) = SubSeq(m, 1, a)
    BY <2>3, <2>5, <2>6, <2>7, SeqEqual
  <2> QED
    BY <2>2, <2>8
<1> QED
  BY <1>2, <1>6, <1>7, <1>8, <1>9 DEF IsRewrite

\* Without blocks nothing is rewritten.
LEMMA RewriteNothing ==
    ASSUME NEW T, NEW s \in Seq(T), NEW Y
    PROVE  Rewrite(s, <<>>, Y) = s
<1>1. Rewritten(s, <<>>, Y) = <<>>
  BY DEF Rewritten
<1>2. FlattenSeq(<<>>) = <<>>
  BY DEF FlattenSeq
<1>3. Prologue(s, <<>>) = s
  BY DEF Prologue
<1>4. s \o <<>> = s
  BY ConcatEmptySeq
<1> QED
  BY <1>1, <1>2, <1>3, <1>4 DEF Rewrite

-----------------------------------------------------------------------------
(* The merge. *)

\* The bodies that the merge of s into e chooses.
Chosen(e, s) == [n \in 1..Len(Parse(s)) |-> ChooseBody(e, Parse(e), s, Parse(s)[n])]

LEMMA MergeRewrites ==
    ASSUME NEW T, NEW e \in Seq(T), NEW s \in Seq(T)
    PROVE  MergeBlocks(e, s) = Rewrite(s, Parse(s), Chosen(e, s))
<1> DEFINE D == Parse(s)
<1>1. D \in Seq(Blocks) /\ DOMAIN D = 1..Len(D)
  BY ParseScans DEF ScanFrom
<1>2. [n \in DOMAIN D |-> WriteBlock(s[D[n].begin], ChooseBody(e, Parse(e), s, D[n])) \o Following(s, D, n)]
        = Rewritten(s, D, Chosen(e, s))
  BY <1>1 DEF Rewritten, Chosen
<1> QED
  BY <1>2 DEF MergeBlocks, Rewrite

LEMMA MergeLaidOut ==
    ASSUME NEW T, Closed(T), NEW e \in Seq(T), NEW s \in Seq(T), Parse(s) # <<>>
    PROVE  /\ Chosen(e, s) \in [1..Len(Parse(s)) -> Seq(T)]
           /\ \A n \in 1..Len(Parse(s)) : End(s[Parse(s)[n].begin][2]) \notin Range(Chosen(e, s)[n])
           /\ MergeBlocks(e, s) \in Seq(T)
           /\ \E q : LaidOut(MergeBlocks(e, s), s, Parse(s), Chosen(e, s), q)
<1> DEFINE D == Parse(s)
           Y == Chosen(e, s)
           m == MergeBlocks(e, s)
<1>1. ScanFrom(s, 1, D)
  BY ParseScans
<1>2. \A n \in 1..Len(D) : Y[n] = ChooseBody(e, Parse(e), s, D[n])
  BY DEF Chosen
<1>3. \A n \in 1..Len(D) : Y[n] \in Seq(T) /\ End(s[D[n].begin][2]) \notin Range(Y[n])
  BY <1>2, ChosenBody
<1>4. Y \in [1..Len(D) -> Seq(T)]
  BY <1>3 DEF Chosen
<1>5. m = Rewrite(s, D, Y)
  BY MergeRewrites
<1> HIDE DEF D, Y, m
<1>6. m \in Seq(T) /\ \E q : LaidOut(m, s, D, Y, q)
  BY <1>1, <1>4, <1>5, RewriteIs DEF D
<1> QED
  BY <1>3, <1>4, <1>6 DEF D, Y, m

\* A merged text has the blocks of the new one, with the chosen bodies.
LEMMA Merged ==
    ASSUME NEW T, Closed(T), NEW e \in Seq(T), NEW s \in Seq(T)
    PROVE  /\ MergeBlocks(e, s) \in Seq(T)
           /\ \/ Parse(s) = <<>> /\ MergeBlocks(e, s) = s
              \/ IsRewrite(MergeBlocks(e, s), Parse(MergeBlocks(e, s)), s, Parse(s), Chosen(e, s))
<1> DEFINE D == Parse(s)
           Y == Chosen(e, s)
           m == MergeBlocks(e, s)
           E == Parse(m)
<1>1. ScanFrom(s, 1, D) /\ D \in Seq(Blocks) /\ Len(D) \in Nat
  BY ParseScans DEF ScanFrom
<1>3. m = Rewrite(s, D, Y)
  BY MergeRewrites
<1>4. CASE D = <<>>
  <2>1. m = s
    BY <1>3, <1>4, RewriteNothing
  <2> QED
    BY <1>4, <2>1
<1>5. CASE D # <<>>
  <2>1. \A n \in 1..Len(D) : End(s[D[n].begin][2]) \notin Range(Y[n])
    BY <1>5, MergeLaidOut
  <2>2. Y \in [1..Len(D) -> Seq(T)]
    BY <1>5, MergeLaidOut
  <2>3. m \in Seq(T) /\ \E q : LaidOut(m, s, D, Y, q)
    BY <1>5, MergeLaidOut
  <2> HIDE DEF D, Y, m
  <2>4. PICK q : LaidOut(m, s, D, Y, q)
    BY <2>3
  <2>5. ScanFrom(m, 1, Placed(D, Y, q))
    BY <1>1, <1>5, <2>1, <2>2, <2>3, <2>4, RewriteScans
  <2>6. E = Placed(D, Y, q)
    BY <2>3, <2>5, OneScan
  <2> HIDE DEF E
  <2>7. IsRewrite(m, E, s, D, Y)
    BY <1>1, <1>5, <2>2, <2>3, <2>4, <2>5, <2>6, RewriteKeeps
  <2> QED
    BY <2>3, <2>7 DEF D, m, E, Y
<1> QED
  BY <1>4, <1>5

\* A merge into a text that is itself a merge of s finds its own bodies again.
LEMMA MergeTwice ==
    ASSUME NEW T, Closed(T), NEW e \in Seq(T), NEW s \in Seq(T),
           \A n \in 1..Len(Parse(s)), k \in 1..Len(Parse(s)) :
              s[Parse(s)[n].begin][2] = s[Parse(s)[k].begin][2] => n = k
    PROVE  MergeBlocks(MergeBlocks(e, s), s) = MergeBlocks(e, s)
<1> DEFINE D == Parse(s)
           m == MergeBlocks(e, s)
           E == Parse(m)
<1>0. m \in Seq(T) /\ ((D = <<>> /\ m = s) \/ IsRewrite(m, E, s, D, Chosen(e, s)))
  BY Merged
<1> SUFFICES ASSUME D # <<>> PROVE MergeBlocks(m, s) = m
  <2> SUFFICES ASSUME D = <<>> PROVE MergeBlocks(s, s) = s /\ m = s
    OBVIOUS
  <2>1. MergeBlocks(s, s) = Rewrite(s, <<>>, Chosen(s, s)) /\ m = Rewrite(s, <<>>, Chosen(e, s))
    BY MergeRewrites
  <2> QED
    BY <2>1, RewriteNothing
<1>1. /\ m \in Seq(T)
      /\ Len(E) = Len(D)
      /\ \A n \in 1..Len(D) :
            /\ m[E[n].begin] = s[D[n].begin]
            /\ Body(m, E[n]) = ChooseBody(e, Parse(e), s, D[n])
  <2>1. IsRewrite(m, E, s, D, Chosen(e, s))
    BY <1>0
  <2>2. \A n \in 1..Len(D) : Chosen(e, s)[n] = ChooseBody(e, Parse(e), s, D[n])
    BY DEF Chosen
  <2> HIDE DEF m, E, D
  <2> QED
    BY <1>0, <2>1, <2>2 DEF IsRewrite
<1>2. D \in Seq(Blocks) /\ E \in Seq(Blocks)
  BY <1>1, ParseScans DEF ScanFrom
<1>3. ASSUME NEW n \in 1..Len(D)
      PROVE  ChooseBody(m, E, s, D[n]) = ChooseBody(e, Parse(e), s, D[n])
  <2> DEFINE id == s[D[n].begin][2]
             j  == BlockByID(m, E, id)
  <2>1. \A i \in 1..Len(D) : s[D[n].begin][2] = s[D[i].begin][2] => n = i
    OBVIOUS
  <2> HIDE DEF D, m, E
  <2>2. j = n
    <3>1. m[E[n].begin][2] = id
      BY <1>1
    <3>2. j # 0
      BY <1>1, <1>2, <3>1, BlockByIDIs
    <3>3. j \in 1..Len(D) /\ m[E[j].begin][2] = id
      BY <1>1, <1>2, <3>2, BlockByIDIs
    <3> QED
      BY <1>1, <2>1, <3>3
  <2>3. n # 0
    BY <1>2
  <2>4. m[E[n].begin][4] = s[D[n].begin][4] /\ Body(m, E[n]) = ChooseBody(e, Parse(e), s, D[n])
    BY <1>1
  <2>5. CASE s[D[n].begin][3] = "editorial"
    BY <2>2, <2>3, <2>4, <2>5 DEF ChooseBody
  <2>6. CASE s[D[n].begin][3] # "editorial"
    <3>1. ChooseBody(m, E, s, D[n]) = Body(s, D[n])
      BY <2>6 DEF ChooseBody
    <3>2. ChooseBody(e, Parse(e), s, D[n]) = Body(s, D[n])
      BY <2>6 DEF ChooseBody
    <3> QED
      BY <3>1, <3>2
  <2> QED
    BY <2>5, <2>6
<1>4. Chosen(m, s) = Chosen(e, s)
  BY <1>3 DEF Chosen
<1>5. MergeBlocks(m, s) = Rewrite(s, D, Chosen(m, s)) /\ m = Rewrite(s, D, Chosen(e, s))
  BY <1>1, MergeRewrites
<1> QED
  BY <1>4, <1>5

\* The blocks of a scan stand one behind the other.
LEMMA BlocksApart ==
    ASSUME NEW s, Len(s) \in Nat, NEW D, ScanFrom(s, 1, D), NEW n \in 1..Len(D), NEW k \in 1..Len(D), n < k
    PROVE  D[n].end < D[k].begin
<1> DEFINE Wrong == {j \in 1..Len(D) : n < j /\ ~(D[n].end < D[j].begin)}
<1>1. Len(D) \in Nat
  BY DEF ScanFrom
<1>2. SUFFICES ASSUME Wrong # {} PROVE FALSE
  OBVIOUS
<1>3. PICK j \in Wrong : \A i \in Wrong : j <= i
  <2>1. Wrong \in SUBSET Nat
    OBVIOUS
  <2> HIDE DEF Wrong
  <2> QED
    BY <1>2, <2>1, LeastNat
<1>4. j \in 1..Len(D) /\ n < j /\ ~(D[n].end < D[j].begin)
  BY <1>3
<1> DEFINE i == j - 1
<1>5. i \in 1..Len(D) /\ i < j /\ j # 1 /\ n <= i
  BY <1>1, <1>4
<1>6. Start(D, 1, j) = D[i].end + 1
  BY <1>5 DEF Start
<1>7. /\ D[j].begin \in Nat /\ Start(D, 1, j) <= D[j].begin
      /\ D[i].begin \in Nat /\ D[i].end \in Nat /\ D[i].begin < D[i].end
      /\ D[n].end \in Nat
  BY <1>4, <1>5, BlocksAreIn
<1>8. i \notin Wrong
  <2>1. ~(j <= i)
    BY <1>1, <1>4
  <2> HIDE DEF Wrong, i
  <2> QED
    BY <1>3, <2>1
<1>9. n = i \/ D[n].end < D[i].begin
  <2>1. n = i \/ n < i
    BY <1>1, <1>4, <1>5
  <2> HIDE DEF i
  <2> QED
    BY <1>5, <1>8, <2>1
<1> HIDE DEF i
<1>10. D[n].end <= D[i].end
  BY <1>7, <1>9
<1> QED
  BY <1>4, <1>6, <1>7, <1>10

-----------------------------------------------------------------------------
(* The text of a render. *)

RenderToken ==
    {NL} \cup {FrontMatter(<<spec, updated>>)} \cup {Heading(i) : i \in Nat}
        \cup {Begin(BlockID(c[1], c[2]), Zone(c[3]), InputHash(c[3])) : c \in Nat \X Nat \X Names}
        \cup {Gen(b, updated[b]) : b \in Names}
        \cup {End(BlockID(c[1], c[2])) : c \in Nat \X Nat}

\* Every position of a flattened text is in one of its parts.
Covered(ss, off, x, p) ==
    \E n \in 1..Len(ss) : \E r \in 1..Len(ss[n]) : p = off[n] + r /\ x[p] = ss[n][r]

LEMMA LaidCovers ==
    ASSUME NEW T, NEW ss \in Seq(Seq(T)), NEW off, NEW x \in Seq(T), LaidTo(ss, Len(ss), off, x),
           NEW p \in 1..Len(x)
    PROVE  Covered(ss, off, x, p)
<1> DEFINE N == Len(ss)
           S == {n \in 0..N : p <= off[n + 1]}
<1>1. N \in Nat /\ Len(x) \in Nat /\ off[1] = 0 /\ off[N + 1] = Len(x)
  BY DEF LaidTo
<1>2. \A n \in 1..(N + 1) : off[n] \in Nat
  BY DEF LaidTo
<1>3. N \in S
  BY <1>1
<1>4. PICK n \in S : \A i \in S : n <= i
  <2>1. S \in SUBSET Nat
    OBVIOUS
  <2> HIDE DEF S
  <2> QED
    BY <1>3, <2>1, LeastNat
<1>5. n \in 0..N /\ p <= off[n + 1] /\ \A i \in 0..(n - 1) : ~(p <= off[i + 1])
  <2>1. \A i \in 0..(n - 1) : i \in 0..N /\ ~(n <= i)
    BY <1>1, <1>4
  <2> QED
    BY <1>4, <2>1
<1>6. n # 0
  BY <1>1, <1>5
<1>7. n \in 1..N /\ n \in 1..(N + 1) /\ n + 1 \in 1..(N + 1) /\ n - 1 \in 0..(n - 1) /\ n - 1 + 1 = n
  BY <1>1, <1>5, <1>6
<1>8. off[n] \in Nat /\ off[n] < p /\ p <= off[n + 1] /\ off[n + 1] \in Nat
  <2> DEFINE a == off[n]
             b == off[n + 1]
  <2>1. a \in Nat /\ b \in Nat
    BY <1>2, <1>7
  <2>2. p <= b
    BY <1>5
  <2>3. ~(p <= off[n - 1 + 1])
    BY <1>5, <1>7
  <2>4. ~(p <= a)
    BY <1>7, <2>3
  <2>5. p \in Int
    BY <1>1
  <2> HIDE DEF a, b
  <2>6. a < p
    BY <2>1, <2>4, <2>5
  <2> QED
    BY <2>1, <2>2, <2>6 DEF a, b
<1>9. off[n + 1] = off[n] + Len(ss[n]) /\ Len(ss[n]) \in Nat
  <2>1. ss[n] \in Seq(T)
    BY <1>7, ElementOfSeq
  <2> QED
    BY <1>7, <2>1 DEF LaidTo
<1> DEFINE r == p - off[n]
<1>10. r \in 1..Len(ss[n]) /\ p = off[n] + r
  BY <1>8, <1>9
<1>11. x[off[n] + r] = ss[n][r]
  BY <1>7, <1>10 DEF LaidTo
<1> HIDE DEF r
<1> QED
  BY <1>7, <1>10, <1>11 DEF Covered

(***************************************************************************)
(* The markers of a text are in order: each BEGIN is followed by its own   *)
(* END, with no marker between, and what stands between is about the entry *)
(* that the layout lay has at the id.                                      *)
(***************************************************************************)
About(id, lay) == lay[id[1]][id[2]]

HashOf(h, b) ==
    \/ h = <<>>
    \/ \E v, u : h = <<v, b, u>>
    \/ b \in Names /\ Hashed[b] = "spec" /\ \E v : h = <<v>>

Opens(t) == t[1] = "begin"

OwnText(t, b) == ~IsMarker(t) /\ (t[1] \in {"gen", "typed"} => t[2] = b)

OwnUntil(s, b, e, lay) ==
    /\ HashOf(s[b][4], About(s[b][2], lay))
    /\ s[e] = End(s[b][2])
    /\ \A i \in (b + 1)..(e - 1) : OwnText(s[i], About(s[b][2], lay))

OwnBlock(s, b, lay) == \E e \in (b + 1)..Len(s) : OwnUntil(s, b, e, lay)

Tidy(s, lay) == \A b \in 1..Len(s) : Opens(s[b]) => OwnBlock(s, b, lay)

LEMMA OwnShifted ==
    ASSUME NEW s, NEW b \in Nat, NEW e \in Nat, b < e, NEW lay, OwnUntil(s, b, e, lay),
           NEW x, NEW c \in Nat, \A d \in 0..(e - b) : x[c + d] = s[b + d]
    PROVE  OwnUntil(x, c, c + (e - b), lay)
<1>1. x[c] = s[b]
  <2>1. 0 \in 0..(e - b) /\ c + 0 = c /\ b + 0 = b
    OBVIOUS
  <2> QED
    BY <2>1
<1>2. x[c + (e - b)] = s[e]
  <2>1. e - b \in 0..(e - b) /\ b + (e - b) = e
    OBVIOUS
  <2> QED
    BY <2>1
<1>3. ASSUME NEW i \in (c + 1)..(c + (e - b) - 1)
      PROVE  \E k \in (b + 1)..(e - 1) : x[i] = s[k]
  <2>1. i - c \in 0..(e - b) /\ c + (i - c) = i /\ b + (i - c) \in (b + 1)..(e - 1)
    OBVIOUS
  <2>2. x[c + (i - c)] = s[b + (i - c)]
    BY <2>1
  <2> QED
    BY <2>1, <2>2
<1> QED
  BY <1>1, <1>2, <1>3 DEF OwnUntil

\* A part of a text brings its blocks along.
LEMMA OwnOfPart ==
    ASSUME NEW s, Len(s) \in Nat, NEW x, Len(x) \in Nat, NEW a \in Nat, a + Len(s) <= Len(x),
           \A r \in 1..Len(s) : x[a + r] = s[r], NEW lay,
           NEW b \in 1..Len(s), OwnBlock(s, b, lay)
    PROVE  OwnBlock(x, a + b, lay)
<1>1. PICK e \in (b + 1)..Len(s) : OwnUntil(s, b, e, lay)
  BY DEF OwnBlock
<1>2. b \in Nat /\ e \in Nat /\ b < e /\ a + b \in Nat /\ e <= Len(s)
  BY <1>1
<1>3. ASSUME NEW d \in 0..(e - b) PROVE x[a + b + d] = s[b + d]
  <2>1. b + d \in 1..Len(s) /\ a + (b + d) = a + b + d
    BY <1>2
  <2> QED
    BY <2>1
<1>4. OwnUntil(x, a + b, a + b + (e - b), lay)
  BY <1>1, <1>2, <1>3, OwnShifted
<1>5. a + b + (e - b) \in (a + b + 1)..Len(x)
  BY <1>2
<1> QED
  BY <1>4, <1>5 DEF OwnBlock

LEMMA HashIs == ASSUME NEW b \in Names PROVE HashOf(InputHash(b), b)
<1>1. Hashed[b] \in {"entry", "spec", "none"}
  BY TextAssumption DEF TextAssumption
<1>2. CASE Hashed[b] = "entry"
  BY <1>2 DEF InputHash, HashOf
<1>3. CASE Hashed[b] = "spec"
  BY <1>3 DEF InputHash, HashOf
<1>4. CASE Hashed[b] = "none"
  BY <1>4 DEF InputHash, HashOf
<1> QED
  BY <1>1, <1>2, <1>3, <1>4

LEMMA BlockTextIs ==
    ASSUME layout \in Seq(Seq(Names)), NEW i \in 1..Len(layout), NEW j \in 1..Len(layout[i])
    PROVE  /\ BlockText(i, j) \in Seq(RenderToken)
           /\ \A r \in 1..Len(BlockText(i, j)) :
                 Opens(BlockText(i, j)[r]) => r = 1 /\ BlockText(i, j)[r][2] = <<i, j>>
           /\ OwnBlock(BlockText(i, j), 1, layout)
<1> DEFINE b == layout[i][j]
           B == Begin(BlockID(i, j), Zone(b), InputHash(b))
           G == Gen(b, updated[b])
           F == End(BlockID(i, j))
<1>1. b \in Names /\ i \in Nat /\ j \in Nat
  <2>1. layout[i] \in Seq(Names)
    BY ElementOfSeq
  <2> QED
    BY <2>1, ElementOfSeq
<1>2. B \in RenderToken /\ NL \in RenderToken /\ G \in RenderToken /\ F \in RenderToken
  <2>1. B \in {Begin(BlockID(c[1], c[2]), Zone(c[3]), InputHash(c[3])) : c \in Nat \X Nat \X Names}
    <3>1. <<i, j, b>> \in Nat \X Nat \X Names
      BY <1>1
    <3>2. B = Begin(BlockID(<<i, j, b>>[1], <<i, j, b>>[2]), Zone(<<i, j, b>>[3]), InputHash(<<i, j, b>>[3]))
      OBVIOUS
    <3> HIDE DEF B, b
    <3> QED
      BY <3>1, <3>2
  <2>2. F \in {End(BlockID(c[1], c[2])) : c \in Nat \X Nat}
    <3>1. <<i, j>> \in Nat \X Nat
      BY <1>1
    <3>2. F = End(BlockID(<<i, j>>[1], <<i, j>>[2]))
      OBVIOUS
    <3> HIDE DEF F
    <3> QED
      BY <3>1, <3>2
  <2>3. G \in {Gen(c, updated[c]) : c \in Names}
    BY <1>1
  <2> HIDE DEF B, G, F
  <2> QED
    BY <2>1, <2>2, <2>3 DEF RenderToken
<1>3. B[2] = <<i, j>> /\ ~Opens(NL) /\ ~Opens(G) /\ ~Opens(F)
  BY DEF Begin, BlockID, NL, Gen, End, Opens
<1>8. HashOf(B[4], b) /\ About(<<i, j>>, layout) = b /\ F = End(<<i, j>>)
  BY <1>1, HashIs DEF Begin, About, BlockID
<1>9. OwnText(NL, b) /\ OwnText(G, b)
  BY DEF OwnText, IsMarker, NL, Gen
<1>4. \/ BlockText(i, j) = <<B, NL>> \o <<NL>> \o <<G, NL, NL>> \o <<F, NL>> \o <<NL>>
      \/ BlockText(i, j) = <<B, NL>> \o <<>> \o <<G, NL, NL>> \o <<F, NL>> \o <<>>
  BY DEF BlockText, Gap
<1> HIDE DEF B, G, F, b
<1>5. \/ BlockText(i, j) = <<B, NL, NL, G, NL, NL, F, NL, NL>>
      \/ BlockText(i, j) = <<B, NL, G, NL, NL, F, NL>>
  BY <1>4
<1>6. CASE BlockText(i, j) = <<B, NL, NL, G, NL, NL, F, NL, NL>>
  <2> DEFINE x == <<B, NL, NL, G, NL, NL, F, NL, NL>>
  <2>1. x \in Seq(RenderToken) /\ \A r \in 1..Len(x) : Opens(x[r]) => r = 1 /\ x[r][2] = <<i, j>>
    BY <1>2, <1>3
  <2>2. \A r \in 2..6 : x[r] = NL \/ x[r] = G
    OBVIOUS
  <2>3. Len(x) = 9 /\ x[1] = B /\ x[7] = F
    OBVIOUS
  <2> HIDE DEF x
  <2>4. \A r \in (1 + 1)..(7 - 1) : OwnText(x[r], b)
    BY <1>9, <2>2
  <2>5. OwnUntil(x, 1, 7, layout)
    BY <1>3, <1>8, <2>3, <2>4 DEF OwnUntil
  <2>6. OwnBlock(x, 1, layout)
    BY <2>3, <2>5 DEF OwnBlock
  <2> QED
    BY <1>6, <2>1, <2>6 DEF x
<1>7. CASE BlockText(i, j) = <<B, NL, G, NL, NL, F, NL>>
  <2> DEFINE x == <<B, NL, G, NL, NL, F, NL>>
  <2>1. x \in Seq(RenderToken) /\ \A r \in 1..Len(x) : Opens(x[r]) => r = 1 /\ x[r][2] = <<i, j>>
    BY <1>2, <1>3
  <2>2. \A r \in 2..5 : x[r] = NL \/ x[r] = G
    OBVIOUS
  <2>3. Len(x) = 7 /\ x[1] = B /\ x[6] = F
    OBVIOUS
  <2> HIDE DEF x
  <2>4. \A r \in (1 + 1)..(6 - 1) : OwnText(x[r], b)
    BY <1>9, <2>2
  <2>5. OwnUntil(x, 1, 6, layout)
    BY <1>3, <1>8, <2>3, <2>4 DEF OwnUntil
  <2>6. OwnBlock(x, 1, layout)
    BY <2>3, <2>5 DEF OwnBlock
  <2> QED
    BY <1>7, <2>1, <2>6 DEF x
<1> QED
  BY <1>5, <1>6, <1>7

\* y stands in x behind position a.
PartAt(x, a, y) == a + Len(y) <= Len(x) /\ \A k \in 1..Len(y) : x[a + k] = y[k]

\* A part of a flattened text, after a first token.
LEMMA PartOfText ==
    ASSUME NEW T, NEW ss \in Seq(Seq(T)), NEW off, NEW x \in Seq(T), LaidTo(ss, Len(ss), off, x),
           NEW S, Len(S) = Len(x) + 1, \A p \in 1..Len(x) : S[1 + p] = x[p],
           NEW n \in 1..Len(ss)
    PROVE  PartAt(S, 1 + off[n], ss[n])
<1> DEFINE N == Len(ss)
           a == off[n]
           c == Len(ss[n])
<1>1. N \in Nat /\ Len(x) \in Nat /\ n \in 1..(N + 1) /\ N + 1 \in (n + 1)..(N + 1)
  OBVIOUS
<1>2. a \in Nat /\ c \in Nat
  <2>1. ss[n] \in Seq(T)
    BY ElementOfSeq
  <2>2. off[n] \in Nat
    BY <1>1 DEF LaidTo
  <2> QED
    BY <2>1, <2>2
<1>3. a + c <= off[N + 1] /\ off[N + 1] = Len(x)
  BY <1>1 DEF LaidTo
<1>4. \A k \in 1..c : x[a + k] = ss[n][k]
  BY <1>1 DEF LaidTo
<1> HIDE DEF a, c
<1>5. a + c <= Len(x)
  BY <1>3
<1>6. ASSUME NEW k \in 1..c PROVE S[1 + a + k] = ss[n][k]
  <2>1. a + k \in 1..Len(x) /\ 1 + (a + k) = 1 + a + k
    BY <1>1, <1>2, <1>5
  <2>2. S[1 + (a + k)] = x[a + k]
    BY <2>1
  <2> QED
    BY <1>4, <2>1, <2>2
<1>7. 1 + a + c <= Len(S)
  BY <1>1, <1>2, <1>5
<1> QED
  BY <1>6, <1>7 DEF a, c, PartAt

LEMMA SectionTextIs ==
    ASSUME layout \in Seq(Seq(Names)), NEW i \in 1..Len(layout)
    PROVE  /\ SectionText(i) \in Seq(RenderToken)
           /\ Tidy(SectionText(i), layout)
           /\ \E at : \A p \in 1..Len(SectionText(i)) :
                 Opens(SectionText(i)[p]) =>
                    \E j \in 1..Len(layout[i]) : SectionText(i)[p][2] = <<i, j>> /\ p = at[j]
<1> DEFINE N  == Len(layout[i])
           ss == [j \in 1..N |-> BlockText(i, j)]
           x  == FlattenSeq(ss)
           S  == SectionText(i)
<1>1. layout[i] \in Seq(Names) /\ N \in Nat /\ DOMAIN layout[i] = 1..N
  BY ElementOfSeq
<1>2. ss \in Seq(Seq(RenderToken)) /\ Len(ss) = N /\ \A j \in 1..N : ss[j] = BlockText(i, j)
  <2>1. \A j \in 1..N : BlockText(i, j) \in Seq(RenderToken)
    BY BlockTextIs
  <2> QED
    BY <1>1, <2>1
<1>3. S = <<Heading(i)>> \o x
  BY <1>1 DEF SectionText
<1> HIDE DEF ss, x, S
<1>4. PICK off : x \in Seq(RenderToken) /\ LaidTo(ss, N, off, x)
  BY <1>2, Flattened DEF x
<1>5. Heading(i) \in RenderToken /\ ~Opens(Heading(i))
  BY DEF RenderToken, Heading, Opens
<1>6. /\ S \in Seq(RenderToken) /\ Len(S) = Len(x) + 1 /\ Len(x) \in Nat /\ S[1] = Heading(i)
      /\ \A p \in 1..Len(x) : S[1 + p] = x[p]
  BY <1>3, <1>4, <1>5
<1> DEFINE at == [j \in 1..N |-> off[j] + 2]
<1>7. \A j \in 1..N : at[j] = off[j] + 2 /\ off[j] \in Nat
  <2>1. \A j \in 1..N : j \in 1..(N + 1)
    BY <1>1
  <2> QED
    BY <1>4, <2>1 DEF LaidTo
<1> HIDE DEF at
<1>8. ASSUME NEW p \in 1..Len(S), Opens(S[p])
      PROVE  OwnBlock(S, p, layout) /\ \E j \in 1..N : S[p][2] = <<i, j>> /\ p = at[j]
  <2>1. p # 1
    BY <1>5, <1>6, <1>8
  <2> DEFINE c == p - 1
  <2>2. c \in 1..Len(x) /\ p = 1 + c
    BY <1>6, <2>1
  <2> HIDE DEF c
  <2>3. PICK j \in 1..Len(ss) : \E r \in 1..Len(ss[j]) : c = off[j] + r /\ x[c] = ss[j][r]
    <3> HIDE DEF N
    <3>1. LaidTo(ss, Len(ss), off, x)
      BY <1>2, <1>4
    <3> QED
      <4>1. Covered(ss, off, x, c)
        BY <1>2, <1>4, <2>2, <3>1, LaidCovers
      <4> QED
        BY <4>1 DEF Covered
  <2>4. PICK r \in 1..Len(ss[j]) : c = off[j] + r /\ x[c] = ss[j][r]
    BY <2>3
  <2>5. j \in 1..N /\ S[p] = BlockText(i, j)[r] /\ r \in 1..Len(BlockText(i, j))
    BY <1>2, <1>6, <2>2, <2>3, <2>4
  <2>6. r = 1 /\ S[p][2] = <<i, j>>
    BY <1>8, <2>5, BlockTextIs DEF N
  <2> QED
    <3>1. at[j] = off[j] + 2 /\ off[j] \in Nat
      BY <1>7, <2>5
    <3>2. p = at[j] /\ p = 1 + off[j] + 1
      <4> DEFINE d == off[j]
      <4>1. c = d + 1 /\ d \in Nat /\ at[j] = d + 2 /\ p = 1 + c
        BY <2>2, <2>4, <2>6, <3>1
      <4> HIDE DEF d
      <4>2. p = d + 2 /\ p = 1 + d + 1
        BY <4>1
      <4> QED
        BY <4>1, <4>2 DEF d
    <3> DEFINE y == BlockText(i, j)
               a == 1 + off[j]
    <3>3. OwnBlock(y, 1, layout) /\ y \in Seq(RenderToken) /\ ss[j] = y
      BY <1>2, <2>5, BlockTextIs DEF N
    <3>4. PartAt(S, a, y)
      <4>1. j \in 1..Len(ss) /\ LaidTo(ss, Len(ss), off, x)
        BY <1>2, <1>4, <2>5
      <4> HIDE DEF y
      <4>2. PartAt(S, 1 + off[j], ss[j])
        BY <1>2, <1>4, <1>6, <4>1, PartOfText
      <4> QED
        BY <3>3, <4>2
    <3>5. OwnBlock(S, 1 + off[j] + 1, layout)
      <4>1. Len(y) \in Nat /\ Len(S) \in Nat /\ a \in Nat /\ 1 \in 1..Len(y)
        BY <1>6, <2>5, <2>6, <3>1, <3>3
      <4> HIDE DEF y, a
      <4>2. OwnBlock(S, a + 1, layout)
        BY <3>3, <3>4, <4>1, OwnOfPart DEF PartAt
      <4> QED
        BY <4>2 DEF a
    <3> QED
      BY <2>5, <2>6, <3>2, <3>5
<1>9. /\ Tidy(S, layout)
      /\ \E a : \A p \in 1..Len(S) : Opens(S[p]) => \E j \in 1..N : S[p][2] = <<i, j>> /\ p = a[j]
  BY <1>8 DEF Tidy
<1> QED
  BY <1>6, <1>9 DEF S, N

\* A render is a text, and no two of its blocks have the same id.
LEMMA RenderIs ==
    ASSUME layout \in Seq(Seq(Names))
    PROVE  /\ Render \in Seq(RenderToken)
           /\ Tidy(Render, layout)
           /\ \A p \in 1..Len(Render), c \in 1..Len(Render) :
                 Opens(Render[p]) /\ Opens(Render[c]) /\ Render[p][2] = Render[c][2] => p = c
<1> DEFINE N  == Len(layout)
           ss == [i \in 1..N |-> SectionText(i)]
           x  == FlattenSeq(ss)
           R  == Render
           F  == FrontMatter(<<spec, updated>>)
<1>1. N \in Nat /\ DOMAIN layout = 1..N
  OBVIOUS
<1>2. ss \in Seq(Seq(RenderToken)) /\ Len(ss) = N /\ \A i \in 1..N : ss[i] = SectionText(i)
  <2>1. \A i \in 1..N : SectionText(i) \in Seq(RenderToken)
    BY SectionTextIs
  <2> QED
    BY <1>1, <2>1
<1>3. R = <<F>> \o x
  BY <1>1 DEF Render
<1>4. F \in RenderToken /\ ~Opens(F)
  BY DEF RenderToken, FrontMatter, Opens
<1> HIDE DEF ss, x, R, F
<1>5. PICK off : x \in Seq(RenderToken) /\ LaidTo(ss, N, off, x)
  BY <1>2, Flattened DEF x
<1>6. /\ R \in Seq(RenderToken) /\ Len(R) = Len(x) + 1 /\ Len(x) \in Nat /\ R[1] = F
      /\ \A p \in 1..Len(x) : R[1 + p] = x[p]
  BY <1>3, <1>4, <1>5
<1>7. ASSUME NEW p \in 1..Len(R), Opens(R[p])
      PROVE  /\ OwnBlock(R, p, layout)
             /\ \E i \in 1..N : \E r \in 1..Len(SectionText(i)) :
                   p = 1 + off[i] + r /\ R[p] = SectionText(i)[r]
  <2>1. p # 1
    BY <1>4, <1>6, <1>7
  <2> DEFINE c == p - 1
  <2>2. c \in 1..Len(x) /\ p = 1 + c
    BY <1>6, <2>1
  <2> HIDE DEF c
  <2>3. PICK i \in 1..Len(ss) : \E r \in 1..Len(ss[i]) : c = off[i] + r /\ x[c] = ss[i][r]
    <3> HIDE DEF N
    <3>1. LaidTo(ss, Len(ss), off, x)
      BY <1>2, <1>5
    <3> QED
      <4>1. Covered(ss, off, x, c)
        BY <1>2, <1>5, <2>2, <3>1, LaidCovers
      <4> QED
        BY <4>1 DEF Covered
  <2>4. PICK r \in 1..Len(ss[i]) : c = off[i] + r /\ x[c] = ss[i][r]
    BY <2>3
  <2>5. i \in 1..N /\ R[p] = SectionText(i)[r] /\ r \in 1..Len(SectionText(i))
    BY <1>2, <1>6, <2>2, <2>3, <2>4
  <2>6. off[i] \in Nat
    <3>1. i \in 1..(N + 1)
      BY <1>1, <2>5
    <3> QED
      BY <1>5, <3>1 DEF LaidTo
  <2>7. p = 1 + off[i] + r
    BY <2>2, <2>4, <2>5, <2>6
  <2>8. OwnBlock(R, p, layout)
    <3> DEFINE y == SectionText(i)
               a == 1 + off[i]
    <3>1. Tidy(y, layout) /\ y \in Seq(RenderToken) /\ ss[i] = y
      BY <1>2, <2>5, SectionTextIs
    <3>2. OwnBlock(y, r, layout)
      BY <1>7, <2>5, <3>1 DEF Tidy
    <3>4. r \in 1..Len(y) /\ p = a + r
      BY <2>5, <2>7
    <3>5. a \in Nat
      BY <2>6
    <3> HIDE DEF y
    <3>7. Len(y) \in Nat /\ Len(R) \in Nat
      BY <1>6, <3>1
    <3>3. PartAt(R, a, y)
      <4>1. i \in 1..Len(ss) /\ LaidTo(ss, Len(ss), off, x)
        BY <1>2, <1>5, <2>5
      <4>2. PartAt(R, 1 + off[i], ss[i])
        BY <1>2, <1>5, <1>6, <4>1, PartOfText
      <4> QED
        BY <3>1, <4>2
    <3> HIDE DEF a
    <3>6. OwnBlock(R, a + r, layout)
      BY <3>2, <3>3, <3>4, <3>5, <3>7, OwnOfPart DEF PartAt
    <3> QED
      BY <3>4, <3>6
  <2> QED
    BY <2>5, <2>7, <2>8
<1>8. ASSUME NEW p \in 1..Len(R), NEW c \in 1..Len(R), Opens(R[p]), Opens(R[c]), R[p][2] = R[c][2]
      PROVE  p = c
  <2>1. PICK i \in 1..N : \E r \in 1..Len(SectionText(i)) : p = 1 + off[i] + r /\ R[p] = SectionText(i)[r]
    BY <1>7, <1>8
  <2>2. PICK r \in 1..Len(SectionText(i)) : p = 1 + off[i] + r /\ R[p] = SectionText(i)[r]
    BY <2>1
  <2>3. PICK k \in 1..N : \E t \in 1..Len(SectionText(k)) : c = 1 + off[k] + t /\ R[c] = SectionText(k)[t]
    BY <1>7, <1>8
  <2>4. PICK t \in 1..Len(SectionText(k)) : c = 1 + off[k] + t /\ R[c] = SectionText(k)[t]
    BY <2>3
  <2>5. PICK at : \A d \in 1..Len(SectionText(i)) :
                 Opens(SectionText(i)[d]) =>
                    \E j \in 1..Len(layout[i]) : SectionText(i)[d][2] = <<i, j>> /\ d = at[j]
    BY SectionTextIs
  <2>6. PICK j : R[p][2] = <<i, j>> /\ r = at[j]
    BY <1>8, <2>2, <2>5
  <2>7. PICK l : R[c][2] = <<k, l>>
    <3>1. \E a : \A d \in 1..Len(SectionText(k)) :
                 Opens(SectionText(k)[d]) =>
                    \E l \in 1..Len(layout[k]) : SectionText(k)[d][2] = <<k, l>> /\ d = a[l]
      BY SectionTextIs
    <3> QED
      BY <1>8, <2>4, <3>1
  <2>8. i = k
    <3>1. <<i, j>> = <<k, l>>
      BY <1>8, <2>6, <2>7
    <3> QED
      BY <3>1
  <2>9. PICK e : R[c][2] = <<i, e>> /\ t = at[e]
    BY <1>8, <2>4, <2>5, <2>8
  <2>10. j = e
    <3>1. <<i, j>> = <<i, e>>
      BY <1>8, <2>6, <2>9
    <3> QED
      BY <3>1
  <2> QED
    BY <2>2, <2>4, <2>6, <2>8, <2>9, <2>10
<1>9. Tidy(R, layout)
  BY <1>7 DEF Tidy
<1> QED
  BY <1>6, <1>8, <1>9 DEF R

-----------------------------------------------------------------------------
(* The merge of texts whose markers are in order. *)

\* At most one kind of block has a hash that does not name its entry.
OneSpecHash ==
    \A b, c \in Names : Hashed[b] = "spec" /\ Hashed[c] = "spec" => b = c

LEMMA HashTells ==
    ASSUME OneSpecHash, NEW h, h # <<>>, NEW b, HashOf(h, b), NEW c, HashOf(h, c)
    PROVE  b = c
<1>1. CASE \E v, u : h = <<v, b, u>>
  <2>1. PICK v, u : h = <<v, b, u>>
    BY <1>1
  <2>2. CASE \E w, z : h = <<w, c, z>>
    <3>1. PICK w, z : h = <<w, c, z>>
      BY <2>2
    <3> QED
      BY <2>1, <3>1
  <2>3. CASE \E w : h = <<w>>
    <3>1. PICK w : h = <<w>>
      BY <2>3
    <3>2. Len(<<v, b, u>>) = 3 /\ Len(<<w>>) = 1
      OBVIOUS
    <3> QED
      BY <2>1, <3>1, <3>2
  <2> QED
    BY <2>2, <2>3 DEF HashOf
<1>2. CASE b \in Names /\ Hashed[b] = "spec" /\ \E v : h = <<v>>
  <2>1. PICK v : h = <<v>>
    BY <1>2
  <2>2. CASE \E w, z : h = <<w, c, z>>
    <3>1. PICK w, z : h = <<w, c, z>>
      BY <2>2
    <3>2. Len(<<w, c, z>>) = 3 /\ Len(<<v>>) = 1
      OBVIOUS
    <3> QED
      BY <2>1, <3>1, <3>2
  <2>3. CASE c \in Names /\ Hashed[c] = "spec"
    BY <1>2, <2>3 DEF OneSpecHash
  <2> QED
    BY <2>2, <2>3 DEF HashOf
<1> QED
  BY <1>1, <1>2 DEF HashOf

\* The scan of a text whose markers are in order ends a block at its own END.
LEMMA TidyBlock ==
    ASSUME NEW s, Len(s) \in Nat, NEW lay, Tidy(s, lay), NEW p \in Nat \ {0}, NEW k, IsBlock(s, p, k)
    PROVE  OwnUntil(s, k.begin, k.end, lay)
<1> DEFINE b == k.begin
           f == k.end
<1>1. b \in Nat /\ f \in Nat /\ b \in 1..Len(s) /\ b < f /\ f <= Len(s)
  BY DEF IsBlock, Blocks
<1>2. IsBegin(s[b]) /\ s[f] = End(s[b][2]) /\ \A i \in (b + 1)..(f - 1) : s[i] # End(s[b][2])
  BY DEF IsBlock
<1> HIDE DEF b, f
<1>3. Opens(s[b])
  BY <1>2 DEF IsBegin, Opens
<1>4. PICK e \in (b + 1)..Len(s) : OwnUntil(s, b, e, lay)
  BY <1>1, <1>3 DEF Tidy, OwnBlock
<1>5. IsMarker(End(s[b][2]))
  BY DEF IsMarker, End
<1>6. f \notin (b + 1)..(e - 1)
  BY <1>2, <1>4, <1>5 DEF OwnUntil, OwnText
<1>7. e \notin (b + 1)..(f - 1)
  BY <1>2, <1>4 DEF OwnUntil
<1>8. e = f
  BY <1>1, <1>4, <1>6, <1>7
<1> QED
  BY <1>4, <1>8 DEF b, f

\* The next marker that opens a block stands behind the END of this one.
LEMMA OwnEndsBefore ==
    ASSUME NEW s, NEW lay, NEW p \in Nat, NEW e \in Nat, p < e, OwnUntil(s, p, e, lay),
           NEW c \in Nat, p < c, Opens(s[c])
    PROVE  e < c
<1>1. c \notin (p + 1)..(e - 1)
  BY DEF OwnUntil, OwnText, IsMarker, Opens
<1>2. c # e
  BY DEF OwnUntil, End, Opens
<1> QED
  BY <1>1, <1>2

\* The body of a block is about the entry of its block.
LEMMA OwnBody ==
    ASSUME NEW T, NEW s \in Seq(T), NEW lay, Tidy(s, lay), NEW D, ScanFrom(s, 1, D), NEW n \in 1..Len(D)
    PROVE  /\ OwnUntil(s, D[n].begin, D[n].end, lay)
           /\ \A t \in Range(Body(s, D[n])) : OwnText(t, About(s[D[n].begin][2], lay))
<1>1. /\ D[n] \in Blocks /\ D[n].begin < D[n].end /\ D[n].end <= Len(s)
      /\ Start(D, 1, n) \in Nat /\ 1 <= Start(D, 1, n) /\ IsBlock(s, Start(D, 1, n), D[n])
  BY BlocksAreIn
<1>2. Start(D, 1, n) \in Nat \ {0}
  BY <1>1
<1>3. OwnUntil(s, D[n].begin, D[n].end, lay)
  BY <1>1, <1>2, TidyBlock
<1>4. \A t \in Range(Body(s, D[n])) : \E i \in (D[n].begin + 1)..(D[n].end - 1) : s[i] = t
  BY <1>1, BodyIs
<1> QED
  BY <1>3, <1>4 DEF OwnUntil

\* So is the body that the merge chooses: an equal hash tells the entries apart.
LEMMA ChosenOwn ==
    ASSUME OneSpecHash, NEW T, NEW e \in Seq(T), NEW s \in Seq(T),
           NEW old, Tidy(e, old), NEW lay, Tidy(s, lay), NEW n \in 1..Len(Parse(s))
    PROVE  \A t \in Range(Chosen(e, s)[n]) : OwnText(t, About(s[Parse(s)[n].begin][2], lay))
<1> DEFINE D  == Parse(s)
           X  == Parse(e)
           b  == D[n].begin
           id == s[b][2]
           m  == BlockByID(e, X, id)
           y  == Chosen(e, s)[n]
<1>1. ScanFrom(s, 1, D) /\ ScanFrom(e, 1, X) /\ X \in Seq(Blocks)
  BY ParseScans DEF ScanFrom
<1>2. OwnUntil(s, b, D[n].end, lay) /\ \A t \in Range(Body(s, D[n])) : OwnText(t, About(id, lay))
  BY <1>1, OwnBody
<1>3. m # 0 => m \in 1..Len(X) /\ e[X[m].begin][2] = id
  BY <1>1, BlockByIDIs
<1>4. y = ChooseBody(e, X, s, D[n])
  BY DEF Chosen
<1>5. \/ y = Body(s, D[n])
      \/ m # 0 /\ e[X[m].begin][4] = s[b][4] /\ y = Body(e, X[m])
  BY <1>4 DEF ChooseBody
<1>6. IsBegin(s[b])
  BY <1>1, BlocksAreIn DEF IsBlock
<1> HIDE DEF D, X, m, y, b
<1>7. CASE y = Body(s, D[n])
  BY <1>2, <1>7 DEF y, D, b
<1>8. CASE m # 0 /\ e[X[m].begin][4] = s[b][4] /\ y = Body(e, X[m])
  <2>1. m \in 1..Len(X) /\ e[X[m].begin][2] = id
    BY <1>3, <1>8
  <2>2. /\ OwnUntil(e, X[m].begin, X[m].end, old)
        /\ \A t \in Range(Body(e, X[m])) : OwnText(t, About(e[X[m].begin][2], old))
    BY <1>1, <2>1, OwnBody
  <2>3. HashOf(s[b][4], About(id, old)) /\ HashOf(s[b][4], About(id, lay)) /\ s[b][4] # <<>>
    BY <1>2, <1>6, <1>8, <2>1, <2>2 DEF OwnUntil, IsBegin
  <2>4. About(id, old) = About(id, lay)
    BY <2>3, HashTells
  <2>5. \A t \in Range(y) : OwnText(t, About(id, lay))
    BY <1>8, <2>1, <2>2, <2>4
  <2> QED
    BY <2>5 DEF y, D, b
<1> QED
  BY <1>5, <1>7, <1>8

LEMMA GapIs ==
    ASSUME NEW T, NEW s \in Seq(T), NEW D, ScanFrom(s, 1, D), NEW n \in 1..Len(D)
    PROVE  After(s, D, n) - D[n].end \in Nat
<1> DEFINE u == After(s, D, n)
           v == D[n].end
<1>1. u \in Nat /\ v \in Nat /\ v <= u
  BY AfterIs, BlocksAreIn
<1> HIDE DEF u, v
<1>2. u - v \in Nat
  BY <1>1
<1> QED
  BY <1>2 DEF u, v

\* Where the rewritten text may have a marker that opens a block.
Inside(m, s, D, Y, q, p) ==
    \/ p < D[1].begin
    \/ \E n \in 1..Len(D) :
          \/ p = q[n] + 1
          \/ m[p] = NL \/ m[p] = End(s[D[n].begin][2]) \/ m[p] \in Range(Y[n])
          \/ \E r \in 1..(After(s, D, n) - D[n].end) : p = q[n] + Len(Y[n]) + 5 + r

LEMMA LaidPositions ==
    ASSUME NEW T, NEW s \in Seq(T), NEW D, ScanFrom(s, 1, D), D # <<>>,
           NEW Y \in [1..Len(D) -> Seq(T)],
           NEW m \in Seq(T), NEW q, LaidOut(m, s, D, Y, q), NEW p \in 1..Len(m)
    PROVE  Inside(m, s, D, Y, q, p)
<1> DEFINE N    == Len(D)
           S    == {n \in 0..N : p <= q[n + 1]}
           l(n) == Len(Y[n])
           g(n) == After(s, D, n) - D[n].end
<1>1. N \in Nat /\ N # 0 /\ Len(m) \in Nat /\ p \in Nat /\ p <= Len(m)
  BY EmptySeq DEF ScanFrom
<1>2. \A n \in 1..(N + 1) : q[n] \in Nat
  BY DEF LaidOut
<1>3. q[N + 1] = Len(m) /\ q[1] = D[1].begin - 1
  BY DEF LaidOut
<1>4. N \in S
  BY <1>1, <1>3
<1>5. PICK n \in S : \A i \in S : n <= i
  <2>1. S \in SUBSET Nat
    OBVIOUS
  <2> HIDE DEF S
  <2> QED
    BY <1>4, <2>1, LeastNat
<1>6. n \in 0..N /\ p <= q[n + 1] /\ \A i \in 0..(n - 1) : ~(p <= q[i + 1])
  <2>1. \A i \in 0..(n - 1) : i \in 0..N /\ ~(n <= i)
    BY <1>1, <1>5
  <2> QED
    BY <1>5, <2>1
<1>7. CASE n = 0
  <2> DEFINE a == D[1].begin
  <2>1. 1 \in 1..N
    BY <1>1
  <2>2. a \in Nat
    BY <2>1, BlocksAreIn
  <2>3. p <= a - 1
    BY <1>3, <1>6, <1>7
  <2> HIDE DEF a
  <2>4. p < a
    BY <1>1, <2>2, <2>3
  <2> QED
    BY <2>4 DEF Inside, a
<1>8. CASE n # 0
  <2> DEFINE a == q[n]
             c == l(n)
             z == g(n)
  <2>1. n \in 1..N /\ n \in 1..(N + 1) /\ n - 1 \in 0..(n - 1) /\ n - 1 + 1 = n
    BY <1>1, <1>6, <1>8
  <2>2. a \in Nat /\ c \in Nat
    BY <1>2, <2>1
  <2>3. ~(p <= a)
    <3>1. ~(p <= q[n - 1 + 1])
      BY <1>6, <2>1
    <3> QED
      BY <2>1, <3>1
  <2>4. p <= a + c + 5 + z
    BY <1>6, <2>1 DEF LaidOut
  <2>5. z \in Nat
    BY <2>1, GapIs
  <2>6. /\ m[a + 2] = NL /\ \A r \in 1..c : m[a + 2 + r] = Y[n][r]
        /\ m[a + c + 3] = NL /\ m[a + c + 4] = End(s[D[n].begin][2]) /\ m[a + c + 5] = NL
    BY <2>1 DEF LaidOut
  <2>7. Y[n] \in Seq(T)
    BY <2>1
  <2>8. \A r \in 1..c : Y[n][r] \in Range(Y[n])
    BY <2>7 DEF Range
  <2> HIDE DEF a, c, z
  <2>9. \/ p = a + 1 \/ p = a + 2 \/ p = a + c + 3 \/ p = a + c + 4 \/ p = a + c + 5
        \/ p - (a + 2) \in 1..c /\ p = a + 2 + (p - (a + 2))
        \/ p - (a + c + 5) \in 1..z /\ p = a + c + 5 + (p - (a + c + 5))
    BY <1>1, <2>2, <2>3, <2>4, <2>5
  <2>10. \/ p = a + 1
         \/ m[p] = NL \/ m[p] = End(s[D[n].begin][2]) \/ m[p] \in Range(Y[n])
         \/ \E r \in 1..z : p = a + c + 5 + r
    <3>1. CASE p - (a + 2) \in 1..c /\ p = a + 2 + (p - (a + 2))
      <4> DEFINE r == p - (a + 2)
      <4>1. r \in 1..c /\ p = a + 2 + r
        BY <3>1
      <4> HIDE DEF r
      <4>2. m[p] = Y[n][r]
        BY <2>6, <4>1
      <4> QED
        BY <2>8, <4>1, <4>2
    <3>2. CASE p - (a + c + 5) \in 1..z /\ p = a + c + 5 + (p - (a + c + 5))
      BY <3>2
    <3> QED
      BY <2>6, <2>9, <3>1, <3>2
  <2> QED
    BY <2>1, <2>10 DEF a, c, z, Inside
<1> QED
  BY <1>7, <1>8

LEMMA OwnInPrologue ==
    ASSUME NEW T, NEW s \in Seq(T), NEW D, ScanFrom(s, 1, D), D # <<>>,
           NEW Y \in [1..Len(D) -> Seq(T)],
           NEW m \in Seq(T), NEW q, LaidOut(m, s, D, Y, q),
           NEW lay, Tidy(s, lay), NEW p \in 1..Len(m), Opens(m[p]), p < D[1].begin
    PROVE  OwnBlock(m, p, lay)
<1> DEFINE a == D[1].begin
<1>1. 1 \in 1..Len(D) /\ Len(D) \in Nat /\ Len(s) \in Nat /\ Len(m) \in Nat /\ p \in Nat /\ 1 <= p
  BY EmptySeq DEF ScanFrom
<1>2. a \in Nat /\ a <= Len(s) /\ Opens(s[a])
  <2>1. /\ D[1].begin \in Nat /\ D[1].end \in Nat /\ D[1].begin < D[1].end /\ D[1].end <= Len(s)
        /\ IsBlock(s, Start(D, 1, 1), D[1])
    BY <1>1, BlocksAreIn
  <2>2. Opens(s[a])
    BY <2>1 DEF IsBlock, IsBegin, Opens
  <2> HIDE DEF a
  <2>3. a \in Nat /\ a <= Len(s)
    BY <1>1, <2>1 DEF a
  <2> QED
    BY <2>2, <2>3
<1>3. a - 1 <= Len(m)
  <2> DEFINE b == q[1]
             c == Len(Y[1])
             z == After(s, D, 1) - D[1].end
  <2>1. b = a - 1 /\ q[1 + 1] = b + c + 5 + z /\ q[1 + 1] <= Len(m)
    BY <1>1 DEF LaidOut
  <2>2. b \in Nat /\ c \in Nat
    <3>1. 1 \in 1..(Len(D) + 1) /\ Y[1] \in Seq(T)
      BY <1>1
    <3> QED
      BY <3>1 DEF LaidOut
  <2>3. z \in Nat
    BY <1>1, GapIs
  <2> HIDE DEF a, b, c, z
  <2>4. b <= Len(m)
    BY <1>1, <2>1, <2>2, <2>3
  <2> QED
    BY <2>1, <2>4
<1>4. \A r \in 1..(a - 1) : m[r] = s[r]
  BY DEF LaidOut
<1> HIDE DEF a
<1>5. p < a
  BY DEF a
<1>6. p \in 1..Len(s) /\ m[p] = s[p]
  BY <1>1, <1>2, <1>4, <1>5
<1>7. PICK e \in (p + 1)..Len(s) : OwnUntil(s, p, e, lay)
  BY <1>6 DEF Tidy, OwnBlock
<1>8. e \in Nat /\ p < e
  BY <1>1, <1>7
<1>9. e < a
  BY <1>1, <1>2, <1>5, <1>7, <1>8, OwnEndsBefore
<1>10. \A d \in 0..(e - p) : m[p + d] = s[p + d]
  <2>1. ASSUME NEW d \in 0..(e - p) PROVE p + d \in 1..(a - 1)
    BY <1>1, <1>2, <1>8, <1>9
  <2> QED
    BY <1>4, <2>1
<1>11. OwnUntil(m, p, p + (e - p), lay)
  BY <1>1, <1>7, <1>8, <1>10, OwnShifted
<1>12. p + (e - p) \in (p + 1)..Len(m)
  BY <1>1, <1>2, <1>3, <1>8, <1>9
<1> QED
  BY <1>11, <1>12 DEF OwnBlock

LEMMA OwnRewritten ==
    ASSUME NEW T, NEW s \in Seq(T), NEW D, ScanFrom(s, 1, D),
           NEW Y \in [1..Len(D) -> Seq(T)],
           NEW m \in Seq(T), NEW q, LaidOut(m, s, D, Y, q),
           NEW lay, Tidy(s, lay), NEW n \in 1..Len(D),
           \A t \in Range(Y[n]) : OwnText(t, About(s[D[n].begin][2], lay))
    PROVE  OwnBlock(m, q[n] + 1, lay)
<1> DEFINE a  == q[n]
           y  == Y[n]
           c  == Len(y)
           z  == After(s, D, n) - D[n].end
           B  == s[D[n].begin]
           w  == About(B[2], lay)
<1>1. Len(D) \in Nat /\ Len(m) \in Nat /\ n \in 1..(Len(D) + 1) /\ y \in Seq(T)
  BY DEF ScanFrom
<1>2. a \in Nat /\ c \in Nat /\ z \in Nat
  BY <1>1, GapIs DEF LaidOut
<1>3. q[n + 1] = a + c + 5 + z /\ q[n + 1] <= Len(m)
  BY DEF LaidOut
<1>4. /\ m[a + 1] = B /\ m[a + 2] = NL /\ \A r \in 1..c : m[a + 2 + r] = y[r]
      /\ m[a + c + 3] = NL /\ m[a + c + 4] = End(B[2])
  BY DEF LaidOut
<1>5. HashOf(B[4], w)
  BY OwnBody DEF OwnUntil
<1>6. OwnText(NL, w) /\ \A r \in 1..c : OwnText(y[r], w)
  BY <1>1 DEF OwnText, IsMarker, NL, Range
<1> HIDE DEF a, y, c, z, B, w
<1>7. a + 1 + 1 = a + 2 /\ a + c + 4 - 1 = a + c + 3
  BY <1>2
<1>8. ASSUME NEW i \in (a + 2)..(a + c + 3) PROVE OwnText(m[i], w)
  <2>1. i = a + 2 \/ i = a + c + 3 \/ (i - (a + 2) \in 1..c /\ i = a + 2 + (i - (a + 2)))
    BY <1>2
  <2>2. CASE i - (a + 2) \in 1..c /\ i = a + 2 + (i - (a + 2))
    <3> DEFINE r == i - (a + 2)
    <3>1. r \in 1..c /\ i = a + 2 + r
      BY <2>2
    <3> HIDE DEF r
    <3> QED
      BY <1>4, <1>6, <3>1
  <2> QED
    BY <1>4, <1>6, <2>1, <2>2
<1>9. OwnUntil(m, a + 1, a + c + 4, lay)
  <2> DEFINE b == a + 1
             e == a + c + 4
  <2>1. m[b] = B /\ m[e] = End(B[2]) /\ \A i \in (b + 1)..(e - 1) : OwnText(m[i], w)
    <3>1. b + 1 = a + 2 /\ e - 1 = a + c + 3
      BY <1>2
    <3>2. m[b] = B /\ m[e] = End(B[2])
      BY <1>4
    <3> HIDE DEF b, e
    <3>3. \A i \in (b + 1)..(e - 1) : OwnText(m[i], w)
      BY <1>8, <3>1
    <3> QED
      BY <3>2, <3>3
  <2> HIDE DEF b, e
  <2>2. OwnUntil(m, b, e, lay)
    BY <1>5, <2>1 DEF OwnUntil, w
  <2> QED
    BY <2>2 DEF b, e
<1>10. a + c + 4 \in (a + 1 + 1)..Len(m)
  <2>1. a + c + 5 + z <= Len(m)
    BY <1>3
  <2> QED
    BY <1>1, <1>2, <2>1
<1> QED
  BY <1>9, <1>10 DEF OwnBlock, a

LEMMA OwnInFollowing ==
    ASSUME NEW T, NEW s \in Seq(T), NEW D, ScanFrom(s, 1, D),
           NEW Y \in [1..Len(D) -> Seq(T)],
           NEW m \in Seq(T), NEW q, LaidOut(m, s, D, Y, q),
           NEW lay, Tidy(s, lay), NEW n \in 1..Len(D),
           NEW r \in 1..(After(s, D, n) - D[n].end), Opens(m[q[n] + Len(Y[n]) + 5 + r])
    PROVE  OwnBlock(m, q[n] + Len(Y[n]) + 5 + r, lay)
<1> DEFINE a == q[n] + Len(Y[n]) + 5
           v == D[n].end
           u == After(s, D, n)
           b == v + r
<1>1. Len(D) \in Nat /\ Len(m) \in Nat /\ Len(s) \in Nat /\ n \in 1..(Len(D) + 1) /\ Y[n] \in Seq(T)
  BY DEF ScanFrom
<1>2. q[n] \in Nat /\ Len(Y[n]) \in Nat
  BY <1>1 DEF LaidOut
<1>3. a \in Nat
  BY <1>2
<1>4. v \in Nat /\ u \in Nat /\ v <= u /\ u <= Len(s) /\ u - v \in Nat
  BY AfterIs, BlocksAreIn, GapIs
<1>5. a + (u - v) <= Len(m)
  <2>1. q[n + 1] = a + (u - v) /\ q[n + 1] <= Len(m)
    BY DEF LaidOut
  <2> QED
    BY <2>1
<1>6. \A k \in 1..(u - v) : m[a + k] = s[v + k]
  BY DEF LaidOut
<1>7. r \in 1..(u - v) /\ Opens(m[a + r])
  OBVIOUS
<1>8. n < Len(D) => /\ D[n + 1].begin \in Nat /\ u = D[n + 1].begin - 1
                    /\ Opens(s[D[n + 1].begin])
  <2> SUFFICES ASSUME n < Len(D)
               PROVE  /\ D[n + 1].begin \in Nat /\ u = D[n + 1].begin - 1
                      /\ Opens(s[D[n + 1].begin])
    OBVIOUS
  <2>1. n + 1 \in 1..Len(D)
    BY <1>1
  <2>2. D[n + 1].begin \in Nat /\ IsBlock(s, Start(D, 1, n + 1), D[n + 1])
    BY <2>1, BlocksAreIn
  <2> QED
    BY <2>2 DEF After, IsBlock, IsBegin, Opens
<1>9. n < Len(D) \/ u = Len(s)
  BY DEF After
<1> HIDE DEF a, v, u
<1>10. b \in Nat /\ b \in 1..Len(s) /\ v < b /\ b <= u /\ r \in Nat /\ 1 <= r
  BY <1>1, <1>4, <1>7
<1>11. Opens(s[b])
  BY <1>6, <1>7
<1>12. PICK e \in (b + 1)..Len(s) : OwnUntil(s, b, e, lay)
  BY <1>10, <1>11 DEF Tidy, OwnBlock
<1>13. e \in Nat /\ b < e /\ e <= Len(s)
  BY <1>1, <1>10, <1>12
<1>14. e <= u
  <2>1. CASE n < Len(D)
    <3> DEFINE c == D[n + 1].begin
    <3>1. c \in Nat /\ u = c - 1 /\ Opens(s[c])
      BY <1>8, <2>1
    <3> HIDE DEF b, c
    <3>2. b < c
      BY <1>4, <1>10, <3>1
    <3>3. e < c
      BY <1>10, <1>12, <1>13, <3>1, <3>2, OwnEndsBefore
    <3> QED
      BY <1>13, <3>1, <3>3
  <2>2. CASE u = Len(s)
    BY <1>13, <2>2
  <2> QED
    BY <1>9, <2>1, <2>2
<1>15. ASSUME NEW d \in 0..(e - b) PROVE m[a + r + d] = s[b + d]
  <2>1. r + d \in 1..(u - v) /\ a + (r + d) = a + r + d /\ v + (r + d) = b + d
    BY <1>3, <1>4, <1>10, <1>13, <1>14
  <2>2. m[a + (r + d)] = s[v + (r + d)]
    BY <1>6, <2>1
  <2> QED
    BY <2>1, <2>2
<1>16. a + r \in Nat
  BY <1>3, <1>10
<1>17. OwnUntil(m, a + r, a + r + (e - b), lay)
  <2> HIDE DEF b
  <2> QED
    BY <1>10, <1>12, <1>13, <1>15, <1>16, OwnShifted
<1>18. a + r + (e - b) \in (a + r + 1)..Len(m)
  BY <1>1, <1>3, <1>4, <1>5, <1>10, <1>13, <1>14
<1> QED
  BY <1>17, <1>18 DEF OwnBlock, a

\* If the page and the render have their markers in order, so has the merged page.
LEMMA MergeTidy ==
    ASSUME OneSpecHash, NEW T, Closed(T), NEW e \in Seq(T), NEW s \in Seq(T),
           NEW old, Tidy(e, old), NEW lay, Tidy(s, lay)
    PROVE  Tidy(MergeBlocks(e, s), lay)
<1>1. CASE Parse(s) = <<>>
  <2>1. MergeBlocks(e, s) = Rewrite(s, Parse(s), Chosen(e, s))
    BY MergeRewrites
  <2> QED
    BY <1>1, <2>1, RewriteNothing
<1>2. CASE Parse(s) # <<>>
  <2> DEFINE D == Parse(s)
             Y == Chosen(e, s)
             m == MergeBlocks(e, s)
             N == Len(D)
  <2>1. Y \in [1..N -> Seq(T)] /\ m \in Seq(T) /\ \E q : LaidOut(m, s, D, Y, q)
    BY <1>2, MergeLaidOut
  <2>2. ScanFrom(s, 1, D) /\ N \in Nat /\ D # <<>> /\ Len(m) \in Nat /\ Len(s) \in Nat
    BY <1>2, <2>1, ParseScans DEF ScanFrom
  <2>3. \A n \in 1..N : \A t \in Range(Y[n]) : OwnText(t, About(s[D[n].begin][2], lay))
    BY ChosenOwn
  <2> HIDE DEF D, Y, m
  <2>4. PICK q : LaidOut(m, s, D, Y, q)
    BY <2>1
  <2>5. ASSUME NEW p \in 1..Len(m), Opens(m[p]) PROVE OwnBlock(m, p, lay)
    <3>1. Inside(m, s, D, Y, q, p)
      BY <2>1, <2>2, <2>4, LaidPositions
    <3>2. CASE p < D[1].begin
      BY <2>1, <2>2, <2>4, <2>5, <3>2, OwnInPrologue
    <3>3. ASSUME NEW n \in 1..N, p = q[n] + 1 PROVE OwnBlock(m, p, lay)
      BY <2>1, <2>2, <2>3, <2>4, <3>3, OwnRewritten
    <3>4. ASSUME NEW n \in 1..N, m[p] = NL \/ m[p] = End(s[D[n].begin][2]) \/ m[p] \in Range(Y[n])
          PROVE  FALSE
      BY <2>3, <2>5, <3>4 DEF Opens, NL, End, OwnText, IsMarker
    <3>5. ASSUME NEW n \in 1..N, NEW r \in 1..(After(s, D, n) - D[n].end), p = q[n] + Len(Y[n]) + 5 + r
          PROVE  OwnBlock(m, p, lay)
      BY <2>1, <2>2, <2>4, <2>5, <3>5, OwnInFollowing
    <3> QED
      BY <3>1, <3>2, <3>3, <3>4, <3>5 DEF Inside
  <2> QED
    BY <2>5 DEF Tidy, m
<1> QED
  BY <1>1, <1>2

-----------------------------------------------------------------------------
(* What a human may do to a text. *)

Inserted(s, i, t) == SubSeq(s, 1, i) \o <<t>> \o SubSeq(s, i + 1, Len(s))

LEMMA InsertedIs ==
    ASSUME NEW T, NEW s \in Seq(T), NEW i \in 0..Len(s), NEW t \in T
    PROVE  /\ Inserted(s, i, t) \in Seq(T) /\ Len(Inserted(s, i, t)) = Len(s) + 1
           /\ \A r \in 1..i : Inserted(s, i, t)[r] = s[r]
           /\ Inserted(s, i, t)[i + 1] = t
           /\ \A r \in (i + 1)..Len(s) : Inserted(s, i, t)[r + 1] = s[r]
<1> DEFINE n == Len(s)
           A == SubSeq(s, 1, i)
           C == SubSeq(s, i + 1, n)
           B == A \o <<t>>
           w == B \o C
<1>1. n \in Nat /\ i \in Nat /\ i <= n /\ 1 <= i + 1 /\ n <= Len(s) /\ i + 1 <= n + 1
  OBVIOUS
<1> HIDE DEF n
<1>2. A \in Seq(T) /\ Len(A) = i /\ \A r \in 1..i : A[r] = s[r]
  BY <1>1, PrefixText DEF n
<1>3. C \in Seq(T) /\ Len(C) = n - i /\ \A r \in 1..(n - i) : C[r] = s[i + r]
  BY <1>1, SuffixText
<1>4. Inserted(s, i, t) = w
  BY DEF Inserted, n
<1> HIDE DEF A, C
<1>5. B \in Seq(T) /\ Len(B) = i + 1 /\ B[i + 1] = t /\ \A r \in 1..i : B[r] = s[r]
  <2> DEFINE b == <<t>>
  <2>1. b \in Seq(T) /\ Len(b) = 1 /\ b[1] = t /\ 1 \in 1..1
    OBVIOUS
  <2>2. B = A \o b
    OBVIOUS
  <2> HIDE DEF b, B
  <2>3. IsJoin(B, A, b, T)
    BY <1>2, <2>1, <2>2, JoinedText
  <2> QED
    BY <1>2, <2>1, <2>3 DEF IsJoin
<1> HIDE DEF B
<1>6. /\ w \in Seq(T) /\ Len(w) = n + 1
      /\ \A r \in 1..(i + 1) : w[r] = B[r]
      /\ \A r \in 1..(n - i) : w[i + 1 + r] = C[r]
  <2>1. IsJoin(w, B, C, T)
    BY <1>3, <1>5, JoinedText
  <2>2. i + 1 + (n - i) = n + 1
    BY <1>1
  <2> HIDE DEF w
  <2> QED
    BY <1>3, <1>5, <2>1, <2>2 DEF IsJoin
<1> HIDE DEF w
<1>7. \A r \in (i + 1)..n : r - i \in 1..(n - i) /\ i + 1 + (r - i) = r + 1 /\ i + (r - i) = r
  BY <1>1
<1>8. \A r \in (i + 1)..n : w[r + 1] = s[r]
  BY <1>3, <1>6, <1>7
<1>9. w[i + 1] = t /\ \A r \in 1..i : w[r] = s[r]
  BY <1>1, <1>5, <1>6
<1> QED
  BY <1>4, <1>6, <1>8, <1>9 DEF n

LEMMA RemovedIs ==
    ASSUME NEW T, NEW s \in Seq(T), NEW i \in 1..Len(s)
    PROVE  /\ RemoveAt(s, i) \in Seq(T) /\ Len(RemoveAt(s, i)) = Len(s) - 1
           /\ \A r \in 1..(i - 1) : RemoveAt(s, i)[r] = s[r]
           /\ \A r \in i..(Len(s) - 1) : RemoveAt(s, i)[r] = s[r + 1]
<1> DEFINE n == Len(s)
           A == SubSeq(s, 1, i - 1)
           C == SubSeq(s, i + 1, n)
           w == A \o C
<1>1. n \in Nat /\ i \in Nat /\ 1 <= i /\ i <= n
  OBVIOUS
<1> HIDE DEF n
<1>2. A \in Seq(T) /\ Len(A) = i - 1 /\ \A r \in 1..(i - 1) : A[r] = s[r]
  <2> DEFINE b == i - 1
  <2>1. b \in Nat /\ b <= Len(s)
    BY <1>1 DEF n
  <2> HIDE DEF b
  <2>2. /\ SubSeq(s, 1, b) \in Seq(T) /\ Len(SubSeq(s, 1, b)) = b
        /\ \A r \in 1..b : SubSeq(s, 1, b)[r] = s[r]
    BY <2>1, PrefixText
  <2> QED
    BY <2>2 DEF b
<1>3. C \in Seq(T) /\ Len(C) = n - i /\ \A r \in 1..(n - i) : C[r] = s[i + r]
  BY <1>1, SuffixText DEF n
<1>4. RemoveAt(s, i) = w
  BY DEF RemoveAt, n
<1> HIDE DEF A, C
<1>5. /\ w \in Seq(T) /\ Len(w) = n - 1
      /\ \A r \in 1..(i - 1) : w[r] = A[r]
      /\ \A r \in 1..(n - i) : w[i - 1 + r] = C[r]
  <2>1. IsJoin(w, A, C, T)
    BY <1>2, <1>3, JoinedText
  <2>2. i - 1 + (n - i) = n - 1
    BY <1>1
  <2> HIDE DEF w
  <2> QED
    BY <1>2, <1>3, <2>1, <2>2 DEF IsJoin
<1> HIDE DEF w
<1>6. \A r \in i..(n - 1) : r - (i - 1) \in 1..(n - i) /\ i - 1 + (r - (i - 1)) = r /\ i + (r - (i - 1)) = r + 1
  BY <1>1
<1>7. \A r \in i..(n - 1) : w[r] = s[r + 1]
  BY <1>3, <1>5, <1>6
<1>8. \A r \in 1..(i - 1) : w[r] = s[r]
  BY <1>2, <1>5
<1> QED
  BY <1>4, <1>5, <1>7, <1>8 DEF n

\* A token that no marker precedes, or that is about the block it comes into.
LEMMA InsertedTidy ==
    ASSUME NEW T, NEW s \in Seq(T), NEW i \in 0..Len(s), NEW t \in T, NEW lay, Tidy(s, lay), ~IsMarker(t),
           \A b \in 1..i : Opens(s[b]) /\ (\A k \in (b + 1)..i : ~IsMarker(s[k]))
                              => OwnText(t, About(s[b][2], lay))
    PROVE  Tidy(Inserted(s, i, t), lay)
<1> DEFINE w == Inserted(s, i, t)
           n == Len(s)
<1>1. /\ Len(w) = n + 1 /\ \A r \in 1..i : w[r] = s[r]
      /\ w[i + 1] = t /\ \A r \in (i + 1)..n : w[r + 1] = s[r]
  BY InsertedIs
<1>2. n \in Nat /\ i \in Nat /\ i <= n
  OBVIOUS
<1> HIDE DEF w, n
<1>3. ASSUME NEW p \in 1..Len(w), Opens(w[p]) PROVE OwnBlock(w, p, lay)
  <2>1. p \in Nat /\ 1 <= p /\ p <= n + 1
    BY <1>1, <1>2
  <2>2. CASE p = i + 1
    BY <1>1, <1>3, <2>2 DEF Opens, IsMarker
  <2>3. CASE p <= i
    <3>1. p \in 1..i /\ p \in 1..Len(s) /\ w[p] = s[p]
      BY <1>1, <1>2, <2>1, <2>3 DEF n
    <3>2. PICK e \in (p + 1)..n : OwnUntil(s, p, e, lay)
      BY <1>3, <3>1 DEF Tidy, OwnBlock, n
    <3>3. e \in Nat /\ p < e /\ e <= n
      BY <1>2, <2>1, <3>2
    <3>4. CASE e <= i
      <4>1. ASSUME NEW d \in 0..(e - p) PROVE w[p + d] = s[p + d]
        <5>1. p + d \in 1..i
          BY <1>2, <2>1, <3>3, <3>4
        <5> QED
          BY <1>1, <5>1
      <4>2. OwnUntil(w, p, p + (e - p), lay)
        BY <2>1, <3>2, <3>3, <4>1, OwnShifted
      <4>3. p + (e - p) \in (p + 1)..Len(w)
        BY <1>1, <1>2, <2>1, <3>3
      <4> QED
        BY <4>2, <4>3 DEF OwnBlock
    <3>5. CASE e > i
      <4> DEFINE v == About(s[p][2], lay)
      <4>1. /\ HashOf(s[p][4], v) /\ s[e] = End(s[p][2])
            /\ \A k \in (p + 1)..(e - 1) : OwnText(s[k], v)
        BY <3>2 DEF OwnUntil
      <4>2. OwnText(t, v)
        <5>1. \A k \in (p + 1)..i : k \in (p + 1)..(e - 1)
          BY <1>2, <2>1, <3>3, <3>5
        <5>2. \A k \in (p + 1)..i : ~IsMarker(s[k])
          BY <4>1, <5>1 DEF OwnText
        <5> QED
          BY <1>3, <3>1, <5>2
      <4> HIDE DEF v
      <4>3. ASSUME NEW k \in (p + 1)..(e + 1 - 1) PROVE OwnText(w[k], v)
        <5>1. CASE k <= i
          <6>1. k \in 1..i /\ k \in (p + 1)..(e - 1)
            BY <1>2, <2>1, <3>3, <3>5, <5>1
          <6> QED
            BY <1>1, <4>1, <6>1
        <5>2. CASE k = i + 1
          BY <1>1, <4>2, <5>2
        <5>3. CASE k > i + 1
          <6>1. k - 1 \in (i + 1)..n /\ k - 1 \in (p + 1)..(e - 1) /\ k - 1 + 1 = k
            BY <1>2, <2>1, <2>3, <3>3, <5>3
          <6>2. w[k - 1 + 1] = s[k - 1]
            BY <1>1, <6>1
          <6> QED
            BY <4>1, <6>1, <6>2
        <5>4. k \in Nat
          BY <2>1, <3>3
        <5> QED
          BY <1>2, <5>1, <5>2, <5>3, <5>4
      <4>4. e \in (i + 1)..n /\ e + 1 \in (p + 1)..Len(w)
        BY <1>1, <1>2, <2>1, <3>3, <3>5
      <4>5. w[e + 1] = End(w[p][2]) /\ HashOf(w[p][4], v) /\ v = About(w[p][2], lay)
        BY <1>1, <3>1, <4>1, <4>4 DEF v
      <4>6. OwnUntil(w, p, e + 1, lay)
        BY <4>3, <4>5 DEF OwnUntil
      <4> QED
        BY <4>4, <4>6 DEF OwnBlock
    <3> QED
      BY <1>2, <3>3, <3>4, <3>5
  <2>4. CASE p > i + 1
    <3> DEFINE b == p - 1
    <3>1. b \in (i + 1)..n /\ b \in Nat /\ b \in 1..n /\ b + 1 = p
      BY <1>2, <2>1, <2>4
    <3> HIDE DEF b
    <3>2. w[p] = s[b]
      BY <1>1, <3>1
    <3>3. PICK e \in (b + 1)..n : OwnUntil(s, b, e, lay)
      BY <1>3, <3>1, <3>2 DEF Tidy, OwnBlock, n
    <3>4. e \in Nat /\ b < e /\ e <= n
      BY <1>2, <3>1, <3>3
    <3>5. ASSUME NEW d \in 0..(e - b) PROVE w[p + d] = s[b + d]
      <4>1. b + d \in (i + 1)..n /\ b + d + 1 = p + d
        BY <1>2, <3>1, <3>4
      <4>2. w[b + d + 1] = s[b + d]
        BY <1>1, <4>1
      <4> QED
        BY <4>1, <4>2
    <3>6. OwnUntil(w, p, p + (e - b), lay)
      BY <2>1, <3>1, <3>3, <3>4, <3>5, OwnShifted
    <3>7. p + (e - b) \in (p + 1)..Len(w)
      BY <1>1, <1>2, <3>1, <3>4
    <3> QED
      BY <3>6, <3>7 DEF OwnBlock
  <2> QED
    BY <1>2, <2>1, <2>2, <2>3, <2>4
<1> QED
  BY <1>3 DEF Tidy, w

\* Erasing what is not a marker leaves the markers in order.
LEMMA RemovedTidy ==
    ASSUME NEW T, NEW s \in Seq(T), NEW i \in 1..Len(s), ~IsMarker(s[i]), NEW lay, Tidy(s, lay)
    PROVE  Tidy(RemoveAt(s, i), lay)
<1> DEFINE w == RemoveAt(s, i)
           n == Len(s)
<1>1. /\ Len(w) = n - 1 /\ \A r \in 1..(i - 1) : w[r] = s[r]
      /\ \A r \in i..(n - 1) : w[r] = s[r + 1]
  BY RemovedIs
<1>2. n \in Nat /\ i \in Nat /\ 1 <= i /\ i <= n
  OBVIOUS
<1> HIDE DEF w, n
<1>3. ASSUME NEW p \in 1..Len(w), Opens(w[p]) PROVE OwnBlock(w, p, lay)
  <2>1. p \in Nat /\ 1 <= p /\ p <= n - 1
    BY <1>1, <1>2
  <2>2. CASE p < i
    <3>1. p \in 1..(i - 1) /\ p \in 1..Len(s) /\ w[p] = s[p]
      BY <1>1, <1>2, <2>1, <2>2 DEF n
    <3>2. PICK e \in (p + 1)..n : OwnUntil(s, p, e, lay)
      BY <1>3, <3>1 DEF Tidy, OwnBlock, n
    <3>3. e \in Nat /\ p < e /\ e <= n
      BY <1>2, <2>1, <3>2
    <3>4. e # i
      BY <3>2 DEF OwnUntil, IsMarker, End
    <3>5. CASE e < i
      <4>1. ASSUME NEW d \in 0..(e - p) PROVE w[p + d] = s[p + d]
        <5>1. p + d \in 1..(i - 1)
          BY <1>2, <2>1, <3>3, <3>5
        <5> QED
          BY <1>1, <5>1
      <4>2. OwnUntil(w, p, p + (e - p), lay)
        BY <2>1, <3>2, <3>3, <4>1, OwnShifted
      <4>3. p + (e - p) \in (p + 1)..Len(w)
        BY <1>1, <1>2, <2>1, <3>3, <3>5
      <4> QED
        BY <4>2, <4>3 DEF OwnBlock
    <3>6. CASE e > i
      <4> DEFINE v == About(s[p][2], lay)
      <4>1. /\ HashOf(s[p][4], v) /\ s[e] = End(s[p][2])
            /\ \A k \in (p + 1)..(e - 1) : OwnText(s[k], v)
        BY <3>2 DEF OwnUntil
      <4> HIDE DEF v
      <4>2. ASSUME NEW k \in (p + 1)..(e - 1 - 1) PROVE OwnText(w[k], v)
        <5>1. CASE k < i
          <6>1. k \in 1..(i - 1) /\ k \in (p + 1)..(e - 1)
            BY <1>2, <2>1, <3>3, <3>6, <5>1
          <6> QED
            BY <1>1, <4>1, <6>1
        <5>2. CASE k >= i
          <6>1. k \in i..(n - 1) /\ k + 1 \in (p + 1)..(e - 1)
            BY <1>2, <2>1, <2>2, <3>3, <5>2
          <6> QED
            BY <1>1, <4>1, <6>1
        <5>3. k \in Nat
          BY <2>1, <3>3
        <5> QED
          BY <1>2, <5>1, <5>2, <5>3
      <4>3. e - 1 \in i..(n - 1) /\ e - 1 \in (p + 1)..Len(w) /\ e - 1 + 1 = e
        BY <1>1, <1>2, <2>1, <2>2, <3>3, <3>6
      <4>4. w[e - 1] = End(w[p][2]) /\ HashOf(w[p][4], v) /\ v = About(w[p][2], lay)
        <5>1. w[e - 1] = s[e - 1 + 1]
          BY <1>1, <4>3
        <5> QED
          BY <3>1, <4>1, <4>3, <5>1 DEF v
      <4>5. OwnUntil(w, p, e - 1, lay)
        BY <4>2, <4>4 DEF OwnUntil
      <4> QED
        BY <4>3, <4>5 DEF OwnBlock
    <3> QED
      BY <1>2, <3>3, <3>4, <3>5, <3>6
  <2>3. CASE p >= i
    <3> DEFINE b == p + 1
    <3>1. p \in i..(n - 1) /\ b \in Nat /\ b \in 1..n /\ b = p + 1
      BY <1>2, <2>1, <2>3
    <3> HIDE DEF b
    <3>2. w[p] = s[b]
      BY <1>1, <3>1
    <3>3. PICK e \in (b + 1)..n : OwnUntil(s, b, e, lay)
      BY <1>3, <3>1, <3>2 DEF Tidy, OwnBlock, n
    <3>4. e \in Nat /\ b < e /\ e <= n
      BY <1>2, <3>1, <3>3
    <3>5. ASSUME NEW d \in 0..(e - b) PROVE w[p + d] = s[b + d]
      <4>1. p + d \in i..(n - 1) /\ p + d + 1 = b + d
        BY <1>2, <2>1, <2>3, <3>1, <3>4
      <4>2. w[p + d] = s[p + d + 1]
        BY <1>1, <4>1
      <4> QED
        BY <4>1, <4>2
    <3>6. OwnUntil(w, p, p + (e - b), lay)
      BY <2>1, <3>1, <3>3, <3>4, <3>5, OwnShifted
    <3>7. p + (e - b) \in (p + 1)..Len(w)
      BY <1>1, <1>2, <2>1, <3>1, <3>4
    <3> QED
      BY <3>6, <3>7 DEF OwnBlock
  <2> QED
    BY <1>2, <2>1, <2>2, <2>3
<1> QED
  BY <1>3 DEF Tidy, w

\* MarkerBefore(s, i) is the last marker at or before position i, 0 if there is none.
LEMMA MarkerBeforeIs ==
    ASSUME NEW s, NEW i \in Nat
    PROVE  /\ MarkerBefore(s, i) \in 0..i
           /\ MarkerBefore(s, i) # 0 => IsMarker(s[MarkerBefore(s, i)])
           /\ \A k \in (MarkerBefore(s, i) + 1)..i : ~IsMarker(s[k])
<1> DEFINE S == {0} \cup MarkersUpTo(s, i)
           U == {k \in 0..i : i - k \in S}
<1>1. S \subseteq 0..i /\ 0 \in S /\ \A k \in 1..i : k \in S <=> IsMarker(s[k])
  BY DEF MarkersUpTo
<1>2. \E x \in S : \A y \in S : x >= y
  <2>1. U \in SUBSET Nat /\ i \in U
    BY <1>1
  <2>2. PICK u \in U : \A k \in U : u <= k
    <3> HIDE DEF U
    <3> QED
      BY <2>1, LeastNat
  <2>3. i - u \in S /\ u \in 0..i
    BY <2>2
  <2>4. ASSUME NEW y \in S PROVE i - u >= y
    <3>1. y \in 0..i
      BY <1>1
    <3>2. i - y \in 0..i /\ i - (i - y) = y
      BY <3>1
    <3>3. i - y \in U
      BY <3>2
    <3>4. u <= i - y
      <4> HIDE DEF U
      <4> QED
        BY <2>2, <3>3
    <3>5. u \in Nat /\ y \in Nat
      BY <2>3, <3>1
    <3> QED
      BY <3>4, <3>5
  <2> QED
    BY <2>3, <2>4
<1>3. MarkerBefore(s, i) = Max(S)
  BY DEF MarkerBefore
<1> HIDE DEF S
<1>4. Max(S) \in S /\ \A y \in S : Max(S) >= y
  BY <1>2 DEF Max
<1> DEFINE m == MarkerBefore(s, i)
<1>5. m \in S /\ \A y \in S : m >= y
  BY <1>3, <1>4
<1> HIDE DEF m
<1>6. m \in 0..i
  BY <1>1, <1>5
<1>7. m # 0 => IsMarker(s[m])
  BY <1>1, <1>5, <1>6
<1>8. ASSUME NEW k \in (m + 1)..i PROVE ~IsMarker(s[k])
  <2>1. k \in 1..i /\ ~(m >= k)
    BY <1>6
  <2> QED
    BY <1>1, <1>5, <2>1
<1> QED
  BY <1>6, <1>7, <1>8 DEF m

-----------------------------------------------------------------------------
(* The numbers of the markers. *)

Count(s, i) == Cardinality(MarkersUpTo(s, i))

LEMMA CountIs ==
    ASSUME NEW s, NEW i \in Nat
    PROVE  IsFiniteSet(MarkersUpTo(s, i)) /\ Count(s, i) \in Nat
<1>1. IsFiniteSet(1..i)
  BY FS_Interval
<1>2. MarkersUpTo(s, i) \in SUBSET (1..i)
  BY DEF MarkersUpTo
<1>3. IsFiniteSet(MarkersUpTo(s, i))
  BY <1>1, <1>2, FS_Subset
<1> QED
  BY <1>3, FS_CardinalityType DEF Count

\* Numbers tell the markers of a text apart.
LEMMA CountTells ==
    ASSUME NEW s, NEW b \in Nat, NEW c \in Nat, 1 <= b, 1 <= c,
           IsMarker(s[b]), IsMarker(s[c]), Count(s, b) = Count(s, c)
    PROVE  b = c
<1>1. ASSUME NEW i \in Nat, NEW k \in Nat, 1 <= i, i < k, IsMarker(s[k]) PROVE Count(s, i) # Count(s, k)
  <2>1. MarkersUpTo(s, i) \in SUBSET MarkersUpTo(s, k)
    BY <1>1 DEF MarkersUpTo
  <2>2. k \in MarkersUpTo(s, k) /\ k \notin MarkersUpTo(s, i)
    BY <1>1 DEF MarkersUpTo
  <2>3. IsFiniteSet(MarkersUpTo(s, k))
    BY <1>1, CountIs
  <2>4. Cardinality(MarkersUpTo(s, k)) = Cardinality(MarkersUpTo(s, i))
           => MarkersUpTo(s, k) = MarkersUpTo(s, i)
    BY <2>1, <2>3, FS_Subset
  <2> QED
    BY <2>2, <2>4 DEF Count
<1>2. ~(b < c) /\ ~(c < b)
  BY <1>1
<1> QED
  BY <1>2

\* The next marker has the next number.
LEMMA CountNext ==
    ASSUME NEW s, NEW b \in Nat, NEW e \in Nat, 1 <= b, b < e, IsMarker(s[e]),
           \A k \in (b + 1)..(e - 1) : ~IsMarker(s[k])
    PROVE  Count(s, e) = Count(s, b) + 1
<1>1. MarkersUpTo(s, e) = MarkersUpTo(s, b) \cup {e}
  <2>1. ASSUME NEW k \in MarkersUpTo(s, e) PROVE k \in MarkersUpTo(s, b) \cup {e}
    <3>1. k \in 1..e /\ IsMarker(s[k])
      BY DEF MarkersUpTo
    <3>2. k \in 1..b \/ k \in (b + 1)..(e - 1) \/ k = e
      BY <3>1
    <3> QED
      BY <3>1, <3>2 DEF MarkersUpTo
  <2>2. ASSUME NEW k \in MarkersUpTo(s, b) \cup {e} PROVE k \in MarkersUpTo(s, e)
    <3>1. CASE k = e
      BY <3>1 DEF MarkersUpTo
    <3>2. CASE k \in MarkersUpTo(s, b)
      BY <3>2 DEF MarkersUpTo
    <3> QED
      BY <3>1, <3>2
  <2> QED
    BY <2>1, <2>2
<1>2. e \notin MarkersUpTo(s, b)
  BY DEF MarkersUpTo
<1> QED
  BY <1>1, <1>2, CountIs, FS_AddElement DEF Count

(***************************************************************************)
(* Numbered markers are in order: the one after a BEGIN is its END, and no *)
(* two of them begin a block of the same id.                               *)
(***************************************************************************)
Paired(M) ==
    \A x, y \in M :
       /\ Opens(x[2]) /\ y[1] = x[1] + 1 => y[2] = End(x[2][2])
       /\ Opens(x[2]) /\ Opens(y[2]) /\ x[2][2] = y[2][2] => x[1] = y[1]

LEMMA NumberedPaired ==
    ASSUME NEW s, Len(s) \in Nat, NEW lay, Tidy(s, lay),
           \A p \in 1..Len(s), c \in 1..Len(s) :
              Opens(s[p]) /\ Opens(s[c]) /\ s[p][2] = s[c][2] => p = c
    PROVE  Paired(Numbered(s, Len(s)))
<1> SUFFICES ASSUME NEW x \in Numbered(s, Len(s)), NEW y \in Numbered(s, Len(s)), Opens(x[2])
             PROVE  /\ y[1] = x[1] + 1 => y[2] = End(x[2][2])
                    /\ Opens(y[2]) /\ x[2][2] = y[2][2] => x[1] = y[1]
  BY DEF Paired
<1>1. PICK b \in MarkersUpTo(s, Len(s)) : x = <<Count(s, b), s[b]>>
  BY DEF Numbered, Count
<1>2. PICK c \in MarkersUpTo(s, Len(s)) : y = <<Count(s, c), s[c]>>
  BY DEF Numbered, Count
<1>3. /\ b \in 1..Len(s) /\ IsMarker(s[b]) /\ c \in 1..Len(s) /\ IsMarker(s[c])
      /\ b \in Nat /\ 1 <= b /\ c \in Nat /\ 1 <= c
  BY DEF MarkersUpTo
<1>4. Opens(s[b])
  BY <1>1
<1>5. ASSUME y[1] = x[1] + 1 PROVE y[2] = End(x[2][2])
  <2>1. PICK e \in (b + 1)..Len(s) : OwnUntil(s, b, e, lay)
    BY <1>3, <1>4 DEF Tidy, OwnBlock
  <2>2. e \in Nat /\ 1 <= e /\ b < e
    BY <1>3, <2>1
  <2>3. s[e] = End(s[b][2]) /\ IsMarker(s[e]) /\ \A k \in (b + 1)..(e - 1) : ~IsMarker(s[k])
    BY <2>1 DEF OwnUntil, OwnText, IsMarker, End
  <2>4. Count(s, e) = Count(s, b) + 1
    BY <1>3, <2>2, <2>3, CountNext
  <2>5. Count(s, c) = Count(s, b) + 1
    BY <1>1, <1>2, <1>5
  <2>6. c = e
    BY <1>3, <2>2, <2>3, <2>4, <2>5, CountTells
  <2> QED
    BY <1>1, <1>2, <2>3, <2>6
<1>6. ASSUME Opens(y[2]), x[2][2] = y[2][2] PROVE x[1] = y[1]
  <2>1. b = c
    BY <1>1, <1>2, <1>3, <1>6
  <2> QED
    BY <1>1, <1>2, <2>1
<1> QED
  BY <1>5, <1>6

\* The scan D has a block that begins at p.
Begun(D, p) == \E n \in 1..Len(D) : D[n].begin = p

\* A BEGIN behind markers in order is a block of the scan if its END is there.
LEMMA BegunIsBlock ==
    ASSUME NEW s, Len(s) \in Nat, NEW D, ScanFrom(s, 1, D),
           NEW M, Paired(M), NEW p \in 1..Len(s), Numbered(s, p) \subseteq M,
           IsBegin(s[p]), NEW f \in (p + 1)..Len(s), s[f] = End(s[p][2])
    PROVE  Begun(D, p)
<1> DEFINE N == Len(D)
<1>1. N \in Nat /\ p \in Nat /\ 1 <= p /\ p <= Len(s)
  BY DEF ScanFrom
<1>2. ASSUME NEW b \in Nat, 1 <= b, b < p, IsBegin(s[b])
      PROVE  \E c \in (b + 1)..(p - 1) : s[c] = End(s[b][2])
  <2> DEFINE S == {k \in (b + 1)..p : IsMarker(s[k])}
  <2>1. S \in SUBSET Nat /\ p \in S
    BY <1>1, <1>2 DEF IsMarker, IsBegin
  <2>2. PICK c \in S : \A k \in S : c <= k
    <3> HIDE DEF S
    <3> QED
      BY <2>1, LeastNat
  <2>3. c \in (b + 1)..p /\ IsMarker(s[c]) /\ c \in Nat /\ b < c
    BY <1>1, <1>2, <2>2
  <2>4. \A k \in (b + 1)..(c - 1) : ~IsMarker(s[k])
    BY <1>1, <1>2, <2>2
  <2>5. Count(s, c) = Count(s, b) + 1
    BY <1>2, <2>3, <2>4, CountNext
  <2>6. Opens(s[b]) /\ IsMarker(s[b])
    BY <1>2 DEF Opens, IsMarker, IsBegin
  <2>7. b \in MarkersUpTo(s, p) /\ c \in MarkersUpTo(s, p)
    BY <1>1, <1>2, <2>3, <2>6 DEF MarkersUpTo
  <2>8. <<Count(s, b), s[b]>> \in M /\ <<Count(s, c), s[c]>> \in M
    BY <2>7 DEF Numbered, Count
  <2>9. s[c] = End(s[b][2])
    BY <2>5, <2>6, <2>8 DEF Paired
  <2>10. c # p
    BY <2>9 DEF IsBegin, End
  <2>11. c \in (b + 1)..(p - 1)
    BY <1>1, <1>2, <2>3, <2>10
  <2> QED
    BY <2>9, <2>11
<1> DEFINE S == {n \in 1..N : p <= D[n].end}
<1>3. S # {}
  <2> SUFFICES ASSUME S = {} PROVE FALSE
    OBVIOUS
  <2> DEFINE g == Start(D, 1, N + 1)
  <2>1. g \in Nat /\ 1 <= g /\ g <= p
    <3>1. CASE N = 0
      BY <1>1, <3>1 DEF Start
    <3>2. CASE N # 0
      <4>1. N \in 1..N /\ N + 1 # 1 /\ N + 1 - 1 = N
        BY <1>1, <3>2
      <4>2. ~(p <= D[N].end) /\ D[N].end \in Nat
        BY <4>1, BlocksAreIn
      <4>3. g = D[N].end + 1
        BY <4>1 DEF Start
      <4> HIDE DEF g
      <4> QED
        BY <1>1, <4>2, <4>3
    <3> QED
      BY <3>1, <3>2
  <2>2. NoBlock(s, g)
    BY DEF ScanFrom
  <2> HIDE DEF g, S
  <2>3. p \in g..Len(s)
    BY <1>1, <2>1
  <2>4. PICK b \in g..Len(s) : /\ IsBegin(s[b]) /\ \A i \in g..(b - 1) : ~IsBegin(s[i])
                               /\ \A i \in (b + 1)..Len(s) : s[i] # End(s[b][2])
    BY <2>2, <2>3 DEF NoBlock
  <2>5. b \in Nat /\ 1 <= b /\ ~(p < b)
    <3>1. b \in Nat /\ 1 <= b
      BY <2>1, <2>4
    <3>2. p < b => p \in g..(b - 1)
      BY <1>1, <2>1, <3>1
    <3> QED
      BY <2>4, <3>1, <3>2
  <2>6. b # p
    BY <2>4
  <2>7. b < p
    BY <1>1, <2>5, <2>6
  <2>8. PICK c \in (b + 1)..(p - 1) : s[c] = End(s[b][2])
    BY <1>2, <2>4, <2>5, <2>7
  <2>9. c \in (b + 1)..Len(s)
    BY <1>1, <2>5, <2>7, <2>8
  <2> QED
    BY <2>4, <2>8, <2>9
<1>4. PICK n \in S : \A k \in S : n <= k
  <2>1. S \in SUBSET Nat
    OBVIOUS
  <2> HIDE DEF S
  <2> QED
    BY <1>3, <2>1, LeastNat
<1>5. n \in 1..N /\ p <= D[n].end
  BY <1>4
<1> DEFINE b == D[n].begin
           e == D[n].end
           g == Start(D, 1, n)
<1>6. b \in Nat /\ e \in Nat /\ g \in Nat /\ 1 <= g /\ g <= b /\ b < e /\ e <= Len(s) /\ IsBlock(s, g, D[n])
  BY <1>5, BlocksAreIn
<1>7. g <= p
  <2>1. CASE n = 1
    BY <1>1, <2>1 DEF Start
  <2>2. CASE n # 1
    <3>1. n - 1 \in 1..N /\ ~(n <= n - 1)
      BY <1>1, <1>5, <2>2
    <3>2. n - 1 \notin S
      <4> HIDE DEF S
      <4> QED
        BY <1>4, <3>1
    <3>3. ~(p <= D[n - 1].end) /\ D[n - 1].end \in Nat
      BY <3>1, <3>2, BlocksAreIn
    <3>4. g = D[n - 1].end + 1
      BY <2>2 DEF Start
    <3> HIDE DEF g, S
    <3> QED
      BY <1>1, <3>3, <3>4
  <2> QED
    BY <2>1, <2>2
<1>8. /\ IsBegin(s[b]) /\ \A i \in g..(b - 1) : ~IsBegin(s[i])
      /\ s[e] = End(s[b][2]) /\ \A i \in (b + 1)..(e - 1) : s[i] # End(s[b][2])
  BY <1>6 DEF IsBlock
<1>9. p <= e
  BY <1>5
<1> HIDE DEF b, e, g, S
<1>10. ~(p < b)
  <2>1. p < b => p \in g..(b - 1)
    BY <1>1, <1>6, <1>7
  <2> QED
    BY <1>8, <2>1
<1>11. ~(b < p)
  <2> SUFFICES ASSUME b < p PROVE FALSE
    OBVIOUS
  <2>1. PICK c \in (b + 1)..(p - 1) : s[c] = End(s[b][2])
    BY <1>2, <1>6, <1>7, <1>8
  <2>2. c \in (b + 1)..(e - 1)
    BY <1>1, <1>6, <1>9, <2>1
  <2> QED
    BY <1>8, <2>1, <2>2
<1>12. b = p
  BY <1>1, <1>6, <1>10, <1>11
<1> QED
  BY <1>5, <1>12 DEF b, Begun

\* What stands in a kept block of e is in the merged text.
LEMMA KeptText ==
    ASSUME NEW T, Closed(T), NEW e \in Seq(T), NEW s \in Seq(T),
           NEW lay, Tidy(s, lay),
           \A p \in 1..Len(s), c \in 1..Len(s) :
              Opens(s[p]) /\ Opens(s[c]) /\ s[p][2] = s[c][2] => p = c,
           NEW M, Paired(M), NEW b \in 1..Len(e), Numbered(e, b) \subseteq M,
           IsBegin(e[b]), e[b][3] = "editorial", e[b] \in Range(s),
           NEW i \in (b + 1)..Len(e), e[i] # NL,
           \A k \in (b + 1)..i : ~IsMarker(e[k]),
           NEW f \in i..Len(e), e[f] = End(e[b][2])
    PROVE  e[i] \in Range(MergeBlocks(e, s))
<1> DEFINE X  == Parse(e)
           D  == Parse(s)
           m  == MergeBlocks(e, s)
           E  == Parse(m)
           id == e[b][2]
<1>1. ScanFrom(e, 1, X) /\ X \in Seq(Blocks) /\ Len(X) \in Nat /\ Len(e) \in Nat
  BY ParseScans DEF ScanFrom
<1>2. ScanFrom(s, 1, D) /\ D \in Seq(Blocks) /\ Len(D) \in Nat /\ Len(s) \in Nat
  BY ParseScans DEF ScanFrom
<1>3. m \in Seq(T) /\ ((D = <<>> /\ m = s) \/ IsRewrite(m, E, s, D, Chosen(e, s)))
  BY Merged
<1> HIDE DEF m
<1>4. ScanFrom(m, 1, E)
  BY <1>3, ParseScans
<1>5. f \in (b + 1)..Len(e) /\ b \in Nat /\ 1 <= b /\ i \in Nat
  BY <1>1
<1> HIDE DEF X, D, E
<1>6. PICK n \in 1..Len(X) : X[n].begin = b
  <2>1. Begun(X, b)
    BY <1>1, <1>5, BegunIsBlock
  <2> QED
    BY <2>1 DEF Begun
<1>7. /\ X[n] \in Blocks /\ X[n].end \in Nat /\ b < X[n].end /\ X[n].end <= Len(e)
      /\ IsBlock(e, Start(X, 1, n), X[n])
  BY <1>1, <1>6, BlocksAreIn
<1>8. i \in (X[n].begin + 1)..(X[n].end - 1)
  <2> DEFINE g == X[n].end
  <2>1. e[g] = End(id) /\ g \in Nat /\ b < g
    BY <1>6, <1>7 DEF IsBlock
  <2>2. IsMarker(e[g])
    BY <2>1 DEF IsMarker, End
  <2> HIDE DEF g
  <2>3. g \notin (b + 1)..i
    BY <2>2
  <2>4. i \in (b + 1)..(g - 1)
    BY <1>1, <1>5, <2>1, <2>3
  <2> QED
    BY <1>6, <2>4 DEF g
<1>9. e[i] \in Range(Body(e, X[n]))
  <2>1. X[n].begin < X[n].end
    BY <1>6, <1>7
  <2> QED
    BY <1>7, <1>8, <2>1, BodyIs
<1>10. PICK p \in 1..Len(s) : s[p] = e[b]
  BY <1>2 DEF Range
<1>11. Begun(D, p)
  <2>1. Opens(s[p]) /\ IsBegin(s[p])
    BY <1>10 DEF Opens, IsBegin
  <2>2. PICK c \in (p + 1)..Len(s) : s[c] = End(s[p][2])
    BY <2>1 DEF Tidy, OwnBlock, OwnUntil
  <2>3. Paired(Numbered(s, Len(s)))
    BY <1>2, NumberedPaired
  <2>4. Numbered(s, p) \subseteq Numbered(s, Len(s))
    <3>1. MarkersUpTo(s, p) \subseteq MarkersUpTo(s, Len(s))
      BY <1>2 DEF MarkersUpTo
    <3> QED
      BY <3>1 DEF Numbered
  <2> DEFINE L == Numbered(s, Len(s))
  <2>5. Paired(L) /\ Numbered(s, p) \subseteq L
    BY <2>3, <2>4
  <2> HIDE DEF L
  <2> QED
    BY <1>2, <2>1, <2>2, <2>5, BegunIsBlock
<1>12. PICK k \in 1..Len(D) : D[k].begin = p
  BY <1>11 DEF Begun
<1> DEFINE r == BlockByID(e, X, id)
<1>13. r \in 1..Len(X) /\ e[X[r].begin][2] = id /\ r <= n
  <2>1. e[X[n].begin][2] = id
    BY <1>6
  <2>2. /\ r = 0 => \A c \in 1..Len(X) : e[X[c].begin][2] # id
        /\ r # 0 => /\ r \in 1..Len(X) /\ e[X[r].begin][2] = id
                    /\ \A c \in 1..Len(X) : e[X[c].begin][2] = id => r <= c
    <3> HIDE DEF id
    <3>1. r = 0 => \A c \in 1..Len(X) : e[X[c].begin][2] # id
      BY <1>1, BlockByIDIs
    <3>2. r # 0 => r \in 1..Len(X)
      BY <1>1, BlockByIDIs
    <3>3. r # 0 => e[X[r].begin][2] = id
      BY <1>1, BlockByIDIs
    <3>4. r # 0 => \A c \in 1..Len(X) : e[X[c].begin][2] = id => r <= c
      BY <1>1, BlockByIDIs
    <3> QED
      BY <3>1, <3>2, <3>3, <3>4
  <2> HIDE DEF r
  <2> QED
    BY <2>1, <2>2
<1> HIDE DEF r
<1>14. r = n
  <2> SUFFICES ASSUME r # n PROVE FALSE
    OBVIOUS
  <2> DEFINE c == X[r].begin
  <2>1. r < n
    BY <1>1, <1>6, <1>13
  <2>2. X[r].end < b
    BY <1>1, <1>6, <1>13, <2>1, BlocksApart
  <2>3. /\ c \in Nat /\ X[r].end \in Nat /\ 1 <= c /\ c < X[r].end
        /\ IsBlock(e, Start(X, 1, r), X[r])
    BY <1>1, <1>13, BlocksAreIn
  <2>4. IsBegin(e[c]) /\ e[c][2] = id
    BY <1>13, <2>3 DEF IsBlock
  <2> HIDE DEF c
  <2>5. c < b
    BY <1>5, <2>2, <2>3
  <2>6. c \in MarkersUpTo(e, b) /\ b \in MarkersUpTo(e, b) /\ IsMarker(e[c]) /\ IsMarker(e[b])
        /\ Opens(e[c]) /\ Opens(e[b])
    <3>1. IsMarker(e[c]) /\ IsMarker(e[b]) /\ Opens(e[c]) /\ Opens(e[b])
      BY <2>4 DEF IsMarker, IsBegin, Opens
    <3>2. c \in 1..b /\ b \in 1..b
      <4>1. c \in Nat /\ 1 <= c /\ b \in Nat /\ 1 <= b
        BY <1>5, <2>3
      <4> QED
        BY <2>5, <4>1
    <3> QED
      BY <3>1, <3>2 DEF MarkersUpTo
  <2>7. <<Count(e, c), e[c]>> \in M /\ <<Count(e, b), e[b]>> \in M
    BY <2>6 DEF Numbered, Count
  <2>8. Count(e, c) = Count(e, b)
    BY <2>4, <2>6, <2>7 DEF Paired
  <2>9. c = b
    BY <1>5, <2>3, <2>6, <2>8, CountTells
  <2> QED
    BY <1>5, <2>3, <2>5, <2>9
<1>15. Chosen(e, s)[k] = Body(e, X[n])
  <2>1. Chosen(e, s)[k] = ChooseBody(e, X, s, D[k])
    BY DEF Chosen, X, D
  <2>2. s[D[k].begin] = e[b] /\ BlockByID(e, X, s[D[k].begin][2]) = n
    BY <1>10, <1>12, <1>14 DEF r
  <2>3. n # 0 /\ e[X[n].begin][4] = s[D[k].begin][4] /\ s[D[k].begin][3] = "editorial"
    BY <1>1, <1>6, <2>2
  <2> QED
    BY <2>1, <2>2, <2>3 DEF ChooseBody
<1>16. IsRewrite(m, E, s, D, Chosen(e, s))
  <2>1. D # <<>>
    BY <1>12
  <2> QED
    BY <1>3, <2>1
<1>17. k \in 1..Len(E) /\ Body(m, E[k]) = Chosen(e, s)[k]
  BY <1>12, <1>16 DEF IsRewrite
<1>18. E[k] \in Blocks /\ E[k].begin \in Nat /\ E[k].end \in Nat /\ E[k].begin < E[k].end /\ E[k].end <= Len(m)
  <2>1. Len(m) \in Nat
    BY <1>3
  <2> QED
    BY <1>4, <1>17, <2>1, BlocksAreIn
<1>19. PICK c \in (E[k].begin + 1)..(E[k].end - 1) : m[c] = e[i]
  <2>1. e[i] \in Range(Body(m, E[k]))
    BY <1>9, <1>15, <1>17
  <2>2. \A t \in Range(Body(m, E[k])) : \E c \in (E[k].begin + 1)..(E[k].end - 1) : m[c] = t
    BY <1>3, <1>18, BodyIs
  <2> QED
    BY <2>1, <2>2
<1>20. c \in 1..Len(m)
  <2> DEFINE g == E[k].begin
             h == E[k].end
  <2>1. g \in Nat /\ h \in Nat /\ h <= Len(m) /\ c \in (g + 1)..(h - 1) /\ Len(m) \in Nat
    BY <1>3, <1>18, <1>19
  <2> HIDE DEF g, h
  <2> QED
    BY <2>1
<1> QED
  BY <1>3, <1>19, <1>20 DEF m, Range

-----------------------------------------------------------------------------
(* The page is a text in every state. *)

IsText == layout \in Seq(Seq(Names)) /\ page \in Seq(Range(page))

\* T and all the markers that a text over T may need.
Closure(T) == T \cup {NL} \cup {End(t[2]) : t \in T \cup {NL}}

LEMMA ClosureIs ==
    ASSUME NEW T
    PROVE  T \subseteq Closure(T) /\ Closed(Closure(T))
<1>1. NL \in Closure(T) /\ T \subseteq Closure(T)
  BY DEF Closure
<1>2. ASSUME NEW t \in Closure(T) PROVE End(t[2]) \in Closure(T)
  <2>1. CASE t \in T \cup {NL}
    BY <2>1 DEF Closure
  <2>2. CASE t \notin T \cup {NL}
    <3>1. PICK u \in T \cup {NL} : t = End(u[2])
      BY <2>2 DEF Closure
    <3>2. End(t[2]) = t
      BY <3>1 DEF End
    <3> QED
      BY <3>2
  <2> QED
    BY <2>1, <2>2
<1> QED
  BY <1>1, <1>2 DEF Closed

LEMMA WiderText ==
    ASSUME NEW S, NEW T, S \subseteq T, NEW s \in Seq(S)
    PROVE  s \in Seq(T)
<1>1. \A i \in 1..Len(s) : s[i] \in T
  BY ElementOfSeq
<1>2. s = [i \in 1..Len(s) |-> s[i]] /\ Len(s) \in Nat
  OBVIOUS
<1> QED
  BY <1>1, <1>2

\* A closed set of tokens for the page and for a render.
LEMMA PageAndRender ==
    ASSUME IsText
    PROVE  \E T : Closed(T) /\ page \in Seq(T) /\ Render \in Seq(T)
<1> DEFINE T == Closure(Range(page) \cup RenderToken)
<1>1. Closed(T) /\ Range(page) \subseteq T /\ RenderToken \subseteq T
  BY ClosureIs
<1>2. page \in Seq(Range(page)) /\ Render \in Seq(RenderToken)
  BY RenderIs DEF IsText
<1> HIDE DEF T
<1>3. page \in Seq(T) /\ Render \in Seq(T)
  BY <1>1, <1>2, WiderText
<1> QED
  BY <1>1, <1>3

LEMMA TextStays ==
    ASSUME TextAssumption, IsText, [Next]_vars
    PROVE  IsText'
<1>1. \A l \in Layouts : l \in Seq(Seq(Names))
  BY DEF TextAssumption
<1>2. \A T, s : s \in Seq(T) => s \in Seq(Range(s))
  BY SeqOfRange
<1>3. CASE Curate
  <2>1. page' = Render \/ page' = MergeBlocks(page, Render)
    BY <1>3 DEF Curate
  <2>2. PICK T : Closed(T) /\ page \in Seq(T) /\ Render \in Seq(T)
    BY PageAndRender
  <2>3. MergeBlocks(page, Render) \in Seq(T)
    BY <2>2, Merged
  <2>4. page' \in Seq(T) /\ layout' = layout
    BY <1>3, <2>1, <2>2, <2>3 DEF Curate
  <2> QED
    BY <1>2, <2>4 DEF IsText
<1>4. CASE Human
  <2>1. PICK T : T = Closure(Range(page) \cup {Typed(edits + 1, NameAt(i)) : i \in 0..Len(page)})
    OBVIOUS
  <2>2. /\ Closed(T) /\ page \in Seq(T)
        /\ \A i \in 0..Len(page) : Typed(edits + 1, NameAt(i)) \in T
        /\ \A i \in 1..Len(page) : page[i] \in T
    <3>1. /\ Closed(T) /\ Range(page) \subseteq T
          /\ {Typed(edits + 1, NameAt(i)) : i \in 0..Len(page)} \subseteq T
      BY <2>1, ClosureIs
    <3>2. page \in Seq(T)
      BY <3>1, WiderText DEF IsText
    <3> QED
      BY <3>1, <3>2, ElementOfSeq
  <2>3. layout' = layout
    BY <1>4 DEF Human, HumanTypes, HumanErases, HumanPastes, HumanEdit
  <2>4. page' \in Seq(T)
    <3>1. CASE \E i \in 0..Len(page) : HumanTypes(i)
      <4>1. PICK i \in 0..Len(page) : page' = Inserted(page, i, Typed(edits + 1, NameAt(i)))
        BY <3>1 DEF HumanTypes, HumanEdit, Inserted
      <4> QED
        BY <2>2, <4>1, InsertedIs
    <3>2. CASE \E i \in 1..Len(page) : HumanErases(i)
      <4>1. PICK i \in 1..Len(page) : page' = RemoveAt(page, i)
        BY <3>2 DEF HumanErases, HumanEdit
      <4> QED
        BY <2>2, <4>1, RemovedIs
    <3>3. CASE \E i \in 0..Len(page), t \in {NL} \cup {m \in Range(page) : IsMarker(m)} : HumanPastes(i, t)
      <4>1. PICK i \in 0..Len(page), t \in {NL} \cup {m \in Range(page) : IsMarker(m)} :
                   page' = Inserted(page, i, t)
        BY <3>3 DEF HumanPastes, HumanEdit, Inserted
      <4>2. t \in T
        <5>1. NL \in T /\ Range(page) \subseteq T
          BY <2>1, <2>2, ClosureIs DEF Closed
        <5> QED
          BY <5>1
      <4> QED
        BY <2>2, <4>1, <4>2, InsertedIs
    <3> QED
      BY <1>4, <3>1, <3>2, <3>3 DEF Human
  <2> QED
    BY <1>2, <2>3, <2>4 DEF IsText
<1>5. CASE World
  <2>1. page' = page /\ (layout' = layout \/ layout' \in Layouts)
    BY <1>5 DEF World, KBEntry, KBLayout, SpecEdit
  <2> QED
    BY <1>1, <2>1 DEF IsText
<1>6. CASE UNCHANGED vars
  BY <1>6 DEF vars, IsText
<1> QED
  BY <1>3, <1>4, <1>5, <1>6 DEF Next

LEMMA TextStarts ==
    ASSUME TextAssumption, Init
    PROVE  IsText
<1>1. page = <<>> /\ layout \in Layouts
  BY DEF Init, TextAssumption
<1>2. <<>> \in Seq({})
  OBVIOUS
<1>3. page \in Seq(Range(page))
  BY <1>1, <1>2, SeqOfRange
<1> QED
  BY <1>1, <1>3 DEF IsText, TextAssumption

\* The page is a sequence of tokens, whatever a human does to it.
LEMMA AlwaysText == Spec => []IsText
<1>1. Init => IsText
  BY TextAssumption, TextStarts
<1>2. IsText /\ [Next]_vars => IsText'
  BY TextAssumption, TextStays
<1> QED
  BY <1>1, <1>2, PTL DEF Spec

\* While no human touched a marker, the markers of the page are in order.
TidyInv == torn \/ Tidy(page, shown)

LEMMA TidyStays ==
    ASSUME OneSpecHash, IsText, TidyInv, [Next]_vars
    PROVE  TidyInv'
<1> SUFFICES ASSUME ~torn' PROVE Tidy(page', shown')
  BY DEF TidyInv
<1>1. CASE Curate
  <2>1. ~torn /\ shown' = layout /\ Tidy(page, shown)
    BY <1>1 DEF Curate, TidyInv
  <2>2. Tidy(Render, layout)
    BY RenderIs DEF IsText
  <2>3. PICK T : Closed(T) /\ page \in Seq(T) /\ Render \in Seq(T)
    BY PageAndRender
  <2>4. Tidy(MergeBlocks(page, Render), layout)
    BY <2>1, <2>2, <2>3, MergeTidy
  <2>5. page' = Render \/ page' = MergeBlocks(page, Render)
    BY <1>1 DEF Curate
  <2> QED
    BY <2>1, <2>2, <2>4, <2>5
<1>2. CASE Human
  <2>1. ~torn /\ shown' = shown /\ Tidy(page, shown)
    BY <1>2 DEF Human, HumanTypes, HumanErases, HumanPastes, HumanEdit, TidyInv
  <2>2. page \in Seq(Range(page))
    BY DEF IsText
  <2>3. CASE \E i \in 0..Len(page) : HumanTypes(i)
    <3>1. PICK i \in 0..Len(page) : HumanTypes(i)
      BY <2>3
    <3> DEFINE t == Typed(edits + 1, NameAt(i))
    <3>2. page' = Inserted(page, i, t)
      BY <3>1 DEF HumanTypes, HumanEdit, Inserted
    <3>3. ~IsMarker(t) /\ t[2] = NameAt(i)
      BY DEF IsMarker, Typed
    <3>4. ASSUME NEW b \in 1..i, Opens(page[b]), \A k \in (b + 1)..i : ~IsMarker(page[k])
          PROVE  OwnText(t, About(page[b][2], shown))
      <4> DEFINE m == MarkerBefore(page, i)
      <4>1. m \in 0..i /\ (m # 0 => IsMarker(page[m])) /\ \A k \in (m + 1)..i : ~IsMarker(page[k])
        BY MarkerBeforeIs
      <4>2. IsMarker(page[b])
        BY <3>4 DEF Opens, IsMarker
      <4>3. m = b
        BY <3>4, <4>1, <4>2
      <4>4. NameAt(i) = About(page[b][2], shown)
        BY <2>1, <3>4, <4>3 DEF NameAt, About, Opens
      <4> HIDE DEF t
      <4> QED
        BY <3>3, <4>4 DEF OwnText
    <3> DEFINE T == Range(page) \cup {t}
    <3>5. page \in Seq(T) /\ t \in T
      BY <2>2, WiderText
    <3> HIDE DEF t, T
    <3>6. Tidy(Inserted(page, i, t), shown)
      BY <2>1, <3>3, <3>4, <3>5, InsertedTidy
    <3> QED
      BY <2>1, <3>2, <3>6
  <2>4. CASE \E i \in 1..Len(page) : HumanErases(i)
    <3>1. PICK i \in 1..Len(page) : page' = RemoveAt(page, i) /\ ~IsMarker(page[i])
      BY <2>4 DEF HumanErases, HumanEdit
    <3>2. Tidy(RemoveAt(page, i), shown)
      BY <2>1, <2>2, <3>1, RemovedTidy
    <3> QED
      BY <2>1, <3>1, <3>2
  <2>5. CASE \E i \in 0..Len(page), t \in {NL} \cup {m \in Range(page) : IsMarker(m)} : HumanPastes(i, t)
    <3>1. PICK i \in 0..Len(page), t \in {NL} \cup {m \in Range(page) : IsMarker(m)} :
                 page' = Inserted(page, i, t) /\ ~IsMarker(t)
      BY <2>5 DEF HumanPastes, HumanEdit, Inserted
    <3>2. t = NL
      BY <3>1
    <3>3. \A b : OwnText(t, b)
      BY <3>2 DEF OwnText, IsMarker, NL
    <3> DEFINE T == Range(page) \cup {t}
    <3>4. page \in Seq(T) /\ t \in T
      BY <2>2, WiderText
    <3> HIDE DEF T
    <3>5. Tidy(Inserted(page, i, t), shown)
      BY <2>1, <3>1, <3>3, <3>4, InsertedTidy
    <3> QED
      BY <2>1, <3>1, <3>5
  <2> QED
    BY <1>2, <2>3, <2>4, <2>5 DEF Human
<1>3. CASE World
  BY <1>3 DEF World, KBEntry, KBLayout, SpecEdit, TidyInv
<1>4. CASE UNCHANGED vars
  BY <1>4 DEF vars, TidyInv
<1> QED
  BY <1>1, <1>2, <1>3, <1>4 DEF Next

(***************************************************************************)
(* A merged block is about its own entry on every page whose markers no    *)
(* human touched: block ids are positions, and MergeBlocks keeps the body  *)
(* of the wiki only under an equal InputHash, which names the entry or     *)
(* belongs to the one kind of block there is at most one of.               *)
(***************************************************************************)
THEOREM OwnEntries == OneSpecHash => (Spec => []BodyIsAboutItsEntry)
<1> SUFFICES ASSUME OneSpecHash PROVE Spec => []BodyIsAboutItsEntry
  OBVIOUS
<1>1. Init => TidyInv
  BY DEF Init, TidyInv, Tidy
<1>2. IsText /\ TidyInv /\ [Next]_vars => TidyInv'
  BY TidyStays
<1>3. ASSUME IsText, TidyInv PROVE BodyIsAboutItsEntry
  <2> SUFFICES ASSUME ~torn PROVE BodyIsAboutItsEntry
    BY DEF BodyIsAboutItsEntry
  <2> DEFINE m == MergeBlocks(page, Render)
             E == Parse(m)
  <2>1. PICK T : Closed(T) /\ page \in Seq(T) /\ Render \in Seq(T)
    BY <1>3, PageAndRender
  <2>2. m \in Seq(T)
    BY <2>1, Merged
  <2>3. Tidy(m, layout)
    BY <1>3, <2>1, MergeTidy, RenderIs DEF TidyInv, IsText
  <2> HIDE DEF m
  <2>4. ScanFrom(m, 1, E) /\ DOMAIN E = 1..Len(E)
    BY <2>2, ParseScans DEF ScanFrom
  <2> HIDE DEF E
  <2>5. \A n \in DOMAIN E : OwnUntil(m, E[n].begin, E[n].end, layout)
    BY <2>2, <2>3, <2>4, OwnBody
  <2>6. ASSUME NEW n \in DOMAIN E, NEW t \in Between(m, E[n]), t[1] \in {"gen", "typed"}
        PROVE  t[2] = layout[m[E[n].begin][2][1]][m[E[n].begin][2][2]]
    <3>1. PICK i \in (E[n].begin + 1)..(E[n].end - 1) : t = m[i]
      BY DEF Between
    <3> QED
      BY <2>5, <2>6, <3>1 DEF OwnUntil, OwnText, About
  <2> QED
    BY <2>6 DEF BodyIsAboutItsEntry, m, E
<1> QED
  BY <1>1, <1>2, <1>3, AlwaysText, PTL DEF Spec

(***************************************************************************)
(* MergeBlocks after any history of renders and human edits: the merged    *)
(* page has the blocks of the render again, with the render's text around  *)
(* them.                                                                   *)
(***************************************************************************)
THEOREM RepairsMarkers == Spec => []MergeRepairsMarkers
<1>1. ASSUME IsText PROVE MergeRepairsMarkers
  <2> DEFINE r == Render
             m == MergeBlocks(page, r)
  <2>1. PICK T : Closed(T) /\ page \in Seq(T) /\ Render \in Seq(T)
    BY <1>1, PageAndRender
  <2>2. (Parse(r) = <<>> /\ m = r) \/ IsRewrite(m, Parse(m), r, Parse(r), Chosen(page, r))
    BY <2>1, Merged
  <2>3. Parse(r) \in Seq(Blocks)
    BY <2>1, ParseScans DEF ScanFrom
  <2>4. DOMAIN Parse(r) = 1..Len(Parse(r))
    BY <2>3
  <2> HIDE DEF r, m
  <2>5. /\ Len(Parse(m)) = Len(Parse(r))
        /\ Prologue(m, Parse(m)) = Prologue(r, Parse(r))
        /\ \A n \in DOMAIN Parse(r) :
              /\ m[Parse(m)[n].begin] = r[Parse(r)[n].begin]
              /\ Following(m, Parse(m), n) = <<NL>> \o Following(r, Parse(r), n)
    <3>1. CASE Parse(r) = <<>> /\ m = r
      BY <3>1
    <3>2. CASE IsRewrite(m, Parse(m), r, Parse(r), Chosen(page, r))
      BY <2>4, <3>2 DEF IsRewrite
    <3> QED
      BY <2>2, <3>1, <3>2
  <2> QED
    BY <2>5 DEF MergeRepairsMarkers, r, m
<1> QED
  BY <1>1, AlwaysText, PTL

(***************************************************************************)
(* MergeBlocks is idempotent on every page: the run after a merge writes   *)
(* nothing.  It needs that the blocks of a render have distinct ids.       *)
(***************************************************************************)
THEOREM Settles == Spec => []MergeSettles
<1>1. ASSUME IsText PROVE MergeSettles
  <2>1. PICK T : Closed(T) /\ page \in Seq(T) /\ Render \in Seq(T)
    BY <1>1, PageAndRender
  <2> DEFINE r == Render
             D == Parse(r)
  <2>2. ScanFrom(r, 1, D) /\ Len(r) \in Nat /\ Len(D) \in Nat
    BY <2>1, ParseScans DEF ScanFrom
  <2>3. \A p \in 1..Len(r), c \in 1..Len(r) : IsBegin(r[p]) /\ IsBegin(r[c]) /\ r[p][2] = r[c][2] => p = c
    BY <1>1, RenderIs DEF IsText, IsBegin, Opens
  <2> HIDE DEF r, D
  <2>4. ASSUME NEW n \in 1..Len(D), NEW k \in 1..Len(D), r[D[n].begin][2] = r[D[k].begin][2]
        PROVE  n = k
    <3>1. /\ D[n].begin \in 1..Len(r) /\ IsBegin(r[D[n].begin])
          /\ D[n].end \in Nat /\ D[n].begin < D[n].end
      <4>1. /\ D[n].begin \in Nat /\ D[n].end \in Nat /\ 1 <= D[n].begin
            /\ D[n].begin < D[n].end /\ D[n].end <= Len(r) /\ IsBlock(r, Start(D, 1, n), D[n])
        BY <2>2, BlocksAreIn
      <4> QED
        BY <2>2, <4>1 DEF IsBlock
    <3>2. /\ D[k].begin \in 1..Len(r) /\ IsBegin(r[D[k].begin])
          /\ D[k].end \in Nat /\ D[k].begin < D[k].end
      <4>1. /\ D[k].begin \in Nat /\ D[k].end \in Nat /\ 1 <= D[k].begin
            /\ D[k].begin < D[k].end /\ D[k].end <= Len(r) /\ IsBlock(r, Start(D, 1, k), D[k])
        BY <2>2, BlocksAreIn
      <4> QED
        BY <2>2, <4>1 DEF IsBlock
    <3>3. D[n].begin = D[k].begin
      BY <2>3, <2>4, <3>1, <3>2
    <3>4. ~(n < k) /\ ~(k < n)
      <4>1. n < k => D[n].end < D[k].begin
        BY <2>2, BlocksApart
      <4>2. k < n => D[k].end < D[n].begin
        BY <2>2, BlocksApart
      <4> QED
        BY <2>2, <3>1, <3>2, <3>3, <4>1, <4>2
    <3> QED
      BY <2>2, <3>4
  <2>5. MergeBlocks(MergeBlocks(page, r), r) = MergeBlocks(page, r)
    BY <2>1, <2>4, MergeTwice DEF r, D
  <2> QED
    BY <2>5 DEF MergeSettles, r
<1> QED
  BY <1>1, AlwaysText, PTL
\* The observed markers are those of a render.
PairedInv == Paired(markers)

LEMMA PairedStays ==
    ASSUME IsText, PairedInv, [Next]_vars
    PROVE  PairedInv'
<1>1. CASE Curate
  <2>1. Len(Render) \in Nat
    BY RenderIs DEF IsText
  <2>2. Paired(Numbered(Render, Len(Render)))
    BY <2>1, RenderIs, NumberedPaired DEF IsText
  <2> QED
    BY <1>1, <2>2 DEF Curate, PairedInv
<1>2. CASE Human \/ World \/ UNCHANGED vars
  BY <1>2 DEF Human, HumanTypes, HumanErases, HumanPastes, HumanEdit,
              World, KBEntry, KBLayout, SpecEdit, vars, PairedInv
<1> QED
  BY <1>1, <1>2 DEF Next

(***************************************************************************)
(* Words typed into an editorial block survive MergeBlocks, whatever a     *)
(* human did to the page, as long as the markers up to that block are      *)
(* those of its render and its END is still behind the words.              *)
(***************************************************************************)
THEOREM WordsSurvive == Spec => []TypedWordsSurvive
<1>1. Init => PairedInv
  BY DEF Init, PairedInv, Paired
<1>2. IsText /\ PairedInv /\ [Next]_vars => PairedInv'
  BY PairedStays
<1>3. ASSUME IsText, PairedInv PROVE TypedWordsSurvive
  <2>1. PICK T : Closed(T) /\ page \in Seq(T) /\ Render \in Seq(T)
    BY <1>3, PageAndRender
  <2>2. /\ Tidy(Render, layout)
        /\ \A p \in 1..Len(Render), c \in 1..Len(Render) :
              Opens(Render[p]) /\ Opens(Render[c]) /\ Render[p][2] = Render[c][2] => p = c
    BY <1>3, RenderIs DEF IsText
  <2>3. ASSUME NEW i \in 1..Len(page), NEW m, m = MarkerBefore(page, i),
               page[i][1] = "typed", m # 0, IsBegin(page[m]), page[m][3] = "editorial",
               page[m] \in Range(Render), Numbered(page, m) \subseteq markers,
               \E e \in i..Len(page) : page[e] = End(page[m][2])
        PROVE  page[i] \in Range(MergeBlocks(page, Render))
    <3>1. m \in 0..i /\ \A k \in (m + 1)..i : ~IsMarker(page[k])
      BY <2>3, MarkerBeforeIs
    <3>2. PICK e \in i..Len(page) : page[e] = End(page[m][2])
      BY <2>3
    <3>3. page[i] # NL /\ i # m
      BY <2>3 DEF NL, IsBegin
    <3>4. m \in 1..Len(page) /\ i \in (m + 1)..Len(page)
      BY <2>1, <2>3, <3>1, <3>3
    <3> QED
      BY <1>3, <2>1, <2>2, <2>3, <3>1, <3>2, <3>3, <3>4, KeptText DEF PairedInv
  <2> QED
    BY <2>3 DEF TypedWordsSurvive
<1> QED
  BY <1>1, <1>2, <1>3, AlwaysText, PTL DEF Spec

=============================================================================
