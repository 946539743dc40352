------------------------------ MODULE MCDecay ------------------------------
(***************************************************************************)
(* IsoVector for TLC: tritium decaying to helium-3 while changeComp edits *)
(* the material.  Half of the tritium decays in a month (lambda = 1/2,     *)
(* whole atoms).  H-1 is stable and not named by the decay data, and one   *)
(* atom of it weighs less than the tolerance (EPS = 2).                    *)
(***************************************************************************)
EXTENDS IsoVector

CONSTANTS a1, a2, kg

H1  == 10010000
H3  == 10030000
He3 == 20030000

MCAddrs    == {a1, a2}
MCIsos     == {H1, H3, He3}
MCUnits    == {kg}
MCRecipes  == {H3 :> 2}
MCScales   == {3}
MCChanges  == {-1, 2}
MCExtracts == {3, 6}
MCMonths   == {0, 1, 2}
MCparent    == H3 :> [col |-> 0, lambda |-> 1]
MCdaughters == 0 :> << <<He3, 1>> >>

Symmetry == Permutations(MCAddrs)
=============================================================================
