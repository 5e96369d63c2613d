---------------------------- MODULE MCCuratorRun ----------------------------
(* CuratorRun on a small wiki: a hub page, a leaf below it, a second leaf  *)
(* title below the hub, and a cluster page below the leaf.                 *)
EXTENDS CuratorRun, TLC

MCAreasOf   == 1 :> {} @@ 2 :> {"x"}
MCAreasOf3  == 1 :> {} @@ 2 :> {"x"} @@ 3 :> {"y"}
MCParent    == "H" :> NoParent @@ "H/L" :> "H" @@ "H/M" :> "H" @@ "H/L/C" :> "H/L"
MCFirstPage == 1 :> "H" @@ 2 :> "H/L"
MCLastSegment == "H" :> 2 @@ "H/L" :> 3 @@ "H/M" :> 4 @@ "H/L/C" :> 1

\* The cluster asks for a place below the hub, in a section the hub declares; the
\* leaf stands there by its title and shows its area's summary.
MCNoNav == [parent |-> NoParent, section |-> 0, order |-> 0, label |-> 0, area |-> NoArea]
MCNav   == 0 :> [MCNoNav EXCEPT !.parent = "H", !.section = 1] @@ 1 :> MCNoNav
              @@ 2 :> [MCNoNav EXCEPT !.area = "x"]
MCNav3  == MCNav @@ 3 :> [MCNoNav EXCEPT !.section = 1, !.area = "y"]
MCHubTitles == <<1>>
MCFirstPage3 == 1 :> "H" @@ 2 :> "H/L" @@ 3 :> "H/M"
=============================================================================
