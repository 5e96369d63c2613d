---------------------------- MODULE MCMarkerText ----------------------------
(* MarkerText on a projection page: the header of an area, which has no    *)
(* InputHash, and a section of entries that come and go.                   *)
EXTENDS MarkerText, TLC

MCHashed  == "area" :> "none" @@ "e1" :> "entry" @@ "e2" :> "entry"
MCFirst   == <<<<"area">>, <<"e1">>>>
MCLayouts == {MCFirst, <<<<"area">>, <<"e2">>>>, <<<<"area">>, <<"e1", "e2">>>>}
=============================================================================
