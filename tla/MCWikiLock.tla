---------------------------- MODULE MCWikiLock ----------------------------
(* Three processes: two of wiki "A" and one of wiki "B". *)
EXTENDS WikiLock, TLC

MCWikiOf  == "a1" :> "A" @@ "a2" :> "A" @@ "b" :> "B"
MCTempOf  == "A" :> "tmpA" @@ "B" :> "tmpB"

\* One cache dir per wiki.
MCBaseOf  == "a1" :> "cacheA" @@ "a2" :> "cacheA" @@ "b" :> "cacheB"
=============================================================================
