--------------------------- MODULE MCLoaderTests ---------------------------
(***************************************************************************)
(* LoaderTests for TLC: two runs of the test binary that split the six     *)
(* tests between them, in a directory each or both in one.                 *)
(***************************************************************************)
EXTENDS LoaderTests

CONSTANTS p1, p2, d1, d2

MCProcs == {p1, p2}
MCDirs  == {d1, d2}
MCOwnDir    == p1 :> d1 @@ p2 :> d2
MCSharedDir == p1 :> d1 @@ p2 :> d1
MCFilter    == p1 :> {"openfile", "decayfile", "solverfile"} @@
               p2 :> {"EpsDefault", "EpsFile", "throws"}
\* One process, the two tests about eps.
MCOne       == {p1}
MCOneDir    == p1 :> d1
MCEpsFilter == p1 :> {"EpsDefault", "EpsFile"}
=============================================================================
