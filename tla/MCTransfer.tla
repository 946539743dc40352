----------------------------- MODULE MCTransfer -----------------------------
(***************************************************************************)
(* IsoVector for TLC: materials of hydrogen and tritium built from         *)
(* recipes, merged and split.  With EPS = 2 one atom of H-1 (mass 1) is    *)
(* below the tolerance and one atom of H-3 (mass 3) is above it, so the    *)
(* rules about what counts as zero and as negative decide the outcome of   *)
(* the smallest operations.  No decay data are loaded.                     *)
(***************************************************************************)
EXTENDS IsoVector

CONSTANTS a1, a2, a3, kg, assembly

H1 == 10010000
H3 == 10030000

MCAddrs    == {a1, a2, a3}
MCIsos     == {H1, H3}
MCUnits    == {kg, assembly}
MCRecipes  == {H1 :> 2, H1 :> 1 @@ H3 :> 1}
MCScales   == {2, 6}
MCChanges  == {}
MCExtracts == {3, 4}
MCMonths   == {}
MCparent    == <<>>
MCdaughters == <<>>

Symmetry == Permutations(MCAddrs) \cup Permutations(MCUnits)
=============================================================================
