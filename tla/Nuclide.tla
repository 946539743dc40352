------------------------------ MODULE Nuclide ------------------------------
(***************************************************************************)
(* The nuclide registry of class IsoVector: the static accessors that      *)
(* decode a nuclide identifier and give its atomic mass.                   *)
(*                                                                         *)
(* An identifier is the integer ZZZAAASSSS: atomic number, mass number and *)
(* a four digit isomeric state, the form the recipes of the loader tests   *)
(* use (922340000 is U-234).  The bodies of the accessors are not part of  *)
(* the sources kept here; the decoding follows the identifier layout and   *)
(* the validity rule of the design document.                               *)
(***************************************************************************)
EXTENDS Integers

\* typedef int Iso: the identifiers the decoding is defined on.
Iso == Nat

\* typedef int Elt: an element is its atomic number.
Elt == 1..118

StateDigits == 10000
MassDigits  == 1000

\* static int getAtomicNum(Iso tope)
getAtomicNum(tope) == tope \div (StateDigits * MassDigits)

\* static int getMassNum(Iso tope)
getMassNum(tope) == (tope \div StateDigits) % MassDigits

\* static bool isAtomicNumValid(Iso tope): 1 <= Z <= 118 and A >= Z.
isAtomicNumValid(tope) ==
    /\ getAtomicNum(tope) \in Elt
    /\ getMassNum(tope) >= getAtomicNum(tope)

\* static Mass getAtomicMass(Iso tope), in g/mol.  No mass table is part of
\* the sources, so every nuclide takes the registry's fallback: its mass
\* number.
getAtomicMass(tope) == getMassNum(tope)

=============================================================================
