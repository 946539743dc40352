---------------------------- MODULE MCStubRegion ----------------------------
(***************************************************************************)
(* StubRegion for TLC: three addresses, so that a prototype, its clone and *)
(* a clone of the clone exist together; two contexts and two values of     *)
(* the members, so that a copy can be told from a default.                 *)
(***************************************************************************)
EXTENDS StubRegion, TLC

CONSTANTS a1, a2, a3, c1, c2, m0, m1, stub, other

MCAgents   == {a1, a2, a3}
MCContexts == {c1, c2}
MCMembers  == {m0, m1}
MCElements == {stub, other}
Symmetry   == Permutations(MCAgents) \cup Permutations(MCContexts)
=============================================================================
