----------------------------- MODULE IsoVector -----------------------------
(***************************************************************************)
(* Class IsoVector (Material.h): a quantity of nuclear material kept as a  *)
(* map from nuclide to atoms together with its total atoms and its total   *)
(* mass, and the operations that build, change, merge, split and decay it. *)
(*                                                                         *)
(* Quantities are doubles in the code and integers here.  Atoms are        *)
(* counted in a unit for which the mass of n atoms of a nuclide is n times *)
(* its atomic mass, so that the factor 1e-3/AVOGADRO disappears; EPS is    *)
(* the tolerance in that mass unit.  Arithmetic is exact: the inputs are   *)
(* restricted to those whose quotients are whole, and rounding of doubles  *)
(* is not modelled.  The tolerance, which is what the code's comparisons   *)
(* are about, is.                                                          *)
(*                                                                         *)
(* The header declares the operations and documents their contracts; the   *)
(* failure rules (UnitMismatch, InsufficientInventory,                     *)
(* ConservationViolated) and the decay, a month at a time and written back *)
(* to the composition map, follow the design document and are named as     *)
(* such in the project's map.                                              *)
(*                                                                         *)
(* The class declares no history: the time handed to changeComp is left    *)
(* out, and decay() is decay(months) for the months a history would give,  *)
(* which Decay takes from Months.                                          *)
(***************************************************************************)
EXTENDS Nuclide, Integers, FiniteSets, Sequences, FiniteSetsExt, TLC

CONSTANTS
    Addrs,       \* heap cells an IsoVector may occupy
    Isos,        \* the nuclides of the scenario
    Units,       \* unit labels a recipe may carry
    NoUnits,     \* units_ of a default-constructed IsoVector (the empty string)
    Recipes,     \* CompMaps handed to the recipe constructor
    Scales,      \* sizes handed to the recipe constructor
    Changes,     \* atom changes handed to changeComp
    Extracts,    \* masses handed to extractMass
    Months,      \* durations handed to decay(months)
    EPS,         \* #define EPS: the conservation tolerance
    MaxID,       \* bound: IsoVectors ever constructed
    MaxAtoms,    \* bound: total atoms changeComp may build a material up to
    parent_,     \* static ParentMap: parent |-> [col, lambda]
    daughters_,  \* static DaughtersMap: col |-> sequence of <<daughter, ratio>>
    LambdaDen,   \* lambda is the share lambda/LambdaDen decaying in a month
    BranchDen,   \* a branching ratio is ratio/BranchDen
    NULL         \* a free cell

VARIABLES
    mats,        \* the IsoVectors on the heap, by address
    nextID,      \* static int nextID_
    err          \* how the last call ended

vars == <<mats, nextID, err>>

ASSUME /\ EPS \in Nat \ {0}
       /\ LambdaDen \in Nat \ {0} /\ BranchDen \in Nat \ {0}
       /\ \A p \in DOMAIN parent_ : p \in Isos /\ parent_[p].col \in DOMAIN daughters_
       /\ \A c \in DOMAIN daughters_ : \A k \in DOMAIN daughters_[c] :
             daughters_[c][k][1] \in Isos
       /\ \A i \in Isos : isAtomicNumValid(i)

-----------------------------------------------------------------------------
(* Types of Material.h *)

\* enum Basis {ATOMBASED, MASSBASED}
Basis == {"ATOMBASED", "MASSBASED"}

\* typedef std::map<Iso, double> CompMap: a function on some of the nuclides.
IsCompMap(c) == DOMAIN c \subseteq Isos /\ \A i \in DOMAIN c : c[i] \in Int

Errors == {"ok", "UnitMismatch", "InsufficientInventory", "ConservationViolated"}

\* The data members of an IsoVector.
IsMaterial(m) ==
    /\ DOMAIN m = {"ID", "units", "total_mass", "total_atoms", "comp"}
    /\ m.ID \in 0..(MaxID - 1)
    /\ m.units \in Units \cup {NoUnits}
    /\ m.total_mass \in Nat /\ m.total_atoms \in Nat
    /\ IsCompMap(m.comp)

Live == {a \in Addrs : mats[a] # NULL}
Free == Addrs \ Live

-----------------------------------------------------------------------------
(* Queries *)

At(c, tope) == IF tope \in DOMAIN c THEN c[tope] ELSE 0
Total(c)    == SumFunction(c)

\* The mass of a number of atoms of a nuclide.
MassOf(tope, atoms) == atoms * getAtomicMass(tope)
MassMap(c) == [i \in DOMAIN c |-> MassOf(i, c[i])]

getSN(m)       == m.ID
getUnits(m)    == m.units
getTotMass(m)  == m.total_mass
getTotAtoms(m) == m.total_atoms
getAtomComp(m, tope) == At(m.comp, tope)
getMassComp(m, tope) == MassOf(tope, getAtomComp(m, tope))

isNegUnchecked(tope, atoms) == FALSE
\* isNeg: negative by less than the tolerance counts as positive.
isNeg(tope, atoms) == MassOf(tope, atoms) <= -EPS

isZeroExact(tope, atoms) == atoms = 0
\* isZero: less than the tolerance is zero.
isZero(tope, atoms) == -EPS < MassOf(tope, atoms) /\ MassOf(tope, atoms) < EPS

-----------------------------------------------------------------------------
(* Keeping the two accounts consistent *)

\* Entries the tolerance calls zero are erased from the map.
Clean(c) == Restrict(c, {i \in DOMAIN c : ~isZero(i, c[i])})

\* rationalize_A2M: the mass account is derived from the atoms.
rationalize_A2M(m) ==
    [m EXCEPT !.total_atoms = Total(m.comp), !.total_mass = Total(MassMap(m.comp))]

\* rationalize_M2A: the atoms of a map of masses; exact when HasWholeAtoms.
HasWholeAtoms(masses) == \A i \in DOMAIN masses : masses[i] % getAtomicMass(i) = 0
rationalize_M2A(masses) == [i \in DOMAIN masses |-> masses[i] \div getAtomicMass(i)]

normalizeSkipped(comp_map) == [num |-> comp_map, den |-> 1]
\* normalize divides by the larger of the sum and the tolerance; the
\* normalized map is kept as the map and its divisor.
normalize(comp_map) == [num |-> comp_map, den |-> Max({Total(comp_map), EPS})]

\* A normalized map times a scale; exact when ScalesWhole.
ScalesWhole(n, scale) == \A i \in DOMAIN n.num : (n.num[i] * scale) % n.den = 0
Scaled(n, scale) == [i \in DOMAIN n.num |-> (n.num[i] * scale) \div n.den]

\* The atoms a recipe of a given size and basis stands for.
RecipeWhole(comp, scale, type) ==
    /\ ScalesWhole(normalize(comp), scale)
    /\ type = "MASSBASED" => HasWholeAtoms(Scaled(normalize(comp), scale))
RecipeAtoms(comp, scale, type) ==
    LET sized == Scaled(normalize(comp), scale)
    IN  IF type = "MASSBASED" THEN rationalize_M2A(sized) ELSE sized

\* IsoVector(), with serial number id.
EmptyMaterial(id) ==
    [ID |-> id, units |-> NoUnits, total_mass |-> 0, total_atoms |-> 0,
     comp |-> <<>>]

\* IsoVector(comp, mat_unit, rec_name, scale, type), with serial number id.
Constructed(comp, mat_unit, scale, type, id) ==
    rationalize_A2M([ID |-> id, units |-> mat_unit, total_mass |-> 0,
                     total_atoms |-> 0,
                     comp |-> Clean(RecipeAtoms(comp, scale, type))])

\* The atoms of m after the changes of delta, a CompMap of differences.
Plus(c, delta) == [i \in DOMAIN c \cup DOMAIN delta |-> At(c, i) + At(delta, i)]
Negated(c)    == [i \in DOMAIN c |-> -c[i]]
StaysLegal(m, delta) == \A i \in DOMAIN delta : ~isNeg(i, At(m.comp, i) + delta[i])
Changed(m, delta) == rationalize_A2M([m EXCEPT !.comp = Clean(Plus(m.comp, delta))])

-----------------------------------------------------------------------------
(* Decay: one application of the transition data per month *)

\* The nuclides the decay data name: the index space of decayMatrix_.
DaughtersOf(p) == daughters_[parent_[p].col]
Tracked ==
    DOMAIN parent_ \cup
    UNION {{DaughtersOf(p)[k][1] : k \in DOMAIN DaughtersOf(p)} : p \in DOMAIN parent_}

\* makeCompVector: the atoms of m in the index space of the matrix.
makeCompVector(m) == [i \in Tracked |-> getAtomComp(m, i)]

\* Atoms parent p loses in a month, and what daughter i receives of them.
Lost(v, p) == (v[p] * parent_[p].lambda) \div LambdaDen
Gained(v, i) ==
    Total([p \in DOMAIN parent_ |->
        Total([k \in {k \in DOMAIN DaughtersOf(p) : DaughtersOf(p)[k][1] = i} |->
            (Lost(v, p) * DaughtersOf(p)[k][2]) \div BranchDen])])

monthStep(v) ==
    [i \in DOMAIN v |-> v[i] - (IF i \in DOMAIN parent_ THEN Lost(v, i) ELSE 0)
                             + Gained(v, i)]

\* The solver: the composition vector after a number of months.
RECURSIVE evolve(_, _)
evolve(v, months) == IF months = 0 THEN v ELSE evolve(monthStep(v), months - 1)

ScatteredTrackedOnly(compVector, comp) == compVector
\* The result of the solver scattered back into the composition: the
\* tracked nuclides are taken from the vector, the others pass through.
Scattered(compVector, comp) == compVector @@ comp

Decayed(m, months) ==
    rationalize_A2M([m EXCEPT !.comp =
        Clean(Scattered(evolve(makeCompVector(m), months), m.comp))])

-----------------------------------------------------------------------------
(* The operations *)

Init ==
    /\ mats = [a \in Addrs |-> NULL]
    /\ nextID = 0
    /\ err = "ok"

\* IsoVector(): an empty material.
NewEmpty(a) ==
    /\ a \in Free /\ nextID < MaxID
    /\ mats' = [mats EXCEPT ![a] = EmptyMaterial(nextID)]
    /\ nextID' = nextID + 1
    /\ err' = "ok"

\* IsoVector(comp, mat_unit, rec_name, scale, type).
NewRecipe(a, comp, mat_unit, scale, type) ==
    /\ a \in Free /\ nextID < MaxID
    /\ RecipeWhole(comp, scale, type)
    /\ mats' = [mats EXCEPT ![a] = Constructed(comp, mat_unit, scale, type, nextID)]
    /\ nextID' = nextID + 1
    /\ err' = "ok"

\* ~IsoVector(): the owner releases the material.
Destroy(a) ==
    /\ a \in Live
    /\ mats' = [mats EXCEPT ![a] = NULL]
    /\ err' = "ok"
    /\ UNCHANGED nextID

\* changeComp(tope, change, time): the number density of tope changes by
\* change, unless that leaves it negative.
ConservationViolated(m, tope, change) == ~StaysLegal(m, tope :> change)

ChangeComp(a, tope, change) ==
    /\ a \in Live
    /\ getTotAtoms(mats[a]) + change <= MaxAtoms
    /\ ~ConservationViolated(mats[a], tope, change)
    /\ mats' = [mats EXCEPT ![a] = Changed(@, tope :> change)]
    /\ err' = "ok"
    /\ UNCHANGED nextID

ChangeCompFails(a, tope, change) ==
    /\ a \in Live
    /\ ConservationViolated(mats[a], tope, change)
    /\ err' = "ConservationViolated"
    /\ UNCHANGED <<mats, nextID>>

UnitMismatch(m, other) == m.units # other.units

AbsorbKeepsSource(a, b) ==
    /\ a \in Live /\ b \in Live /\ a # b
    /\ ~UnitMismatch(mats[a], mats[b])
    /\ mats' = [mats EXCEPT ![a] = Changed(@, mats[b].comp)]
    /\ err' = "ok"
    /\ UNCHANGED nextID
\* absorb(matToAdd): the contents of b join a, and b is deleted.
Absorb(a, b) ==
    /\ a \in Live /\ b \in Live /\ a # b
    /\ ~UnitMismatch(mats[a], mats[b])
    /\ mats' = [mats EXCEPT ![a] = Changed(@, mats[b].comp), ![b] = NULL]
    /\ err' = "ok"
    /\ UNCHANGED nextID

AbsorbFails(a, b) ==
    /\ a \in Live /\ b \in Live /\ a # b
    /\ UnitMismatch(mats[a], mats[b])
    /\ err' = "UnitMismatch"
    /\ UNCHANGED <<mats, nextID>>

\* extract(matToRem): the contents of b are taken off a; b stays as it is.
InsufficientInventory(m, other) == ~StaysLegal(m, Negated(other.comp))

Extract(a, b) ==
    /\ a \in Live /\ b \in Live /\ a # b
    /\ ~UnitMismatch(mats[a], mats[b])
    /\ ~InsufficientInventory(mats[a], mats[b])
    /\ mats' = [mats EXCEPT ![a] = Changed(@, Negated(mats[b].comp))]
    /\ err' = "ok"
    /\ UNCHANGED nextID

ExtractFails(a, b) ==
    /\ a \in Live /\ b \in Live /\ a # b
    /\ UnitMismatch(mats[a], mats[b]) \/ InsufficientInventory(mats[a], mats[b])
    /\ err' = IF UnitMismatch(mats[a], mats[b]) THEN "UnitMismatch"
                                                ELSE "InsufficientInventory"
    /\ UNCHANGED <<mats, nextID>>

\* extractMass(extract): a new material of the given mass and of the
\* stoichiometry of a, built at n by the recipe constructor and extracted from a.
Portion(m, extract, id) ==
    Constructed(MassMap(m.comp), m.units, extract, "MASSBASED", id)
PortionWhole(m, extract) == RecipeWhole(MassMap(m.comp), extract, "MASSBASED")
CanExtractMass(m, extract) ==
    /\ extract <= m.total_mass + EPS
    /\ ~InsufficientInventory(m, Portion(m, extract, 0))

ExtractMassCopiesSerial(a, n, extract) ==
    /\ a \in Live /\ n \in Free /\ nextID < MaxID
    /\ PortionWhole(mats[a], extract)
    /\ CanExtractMass(mats[a], extract)
    /\ LET new == Portion(mats[a], extract, mats[a].ID)
       IN  mats' = [mats EXCEPT ![n] = new, ![a] = Changed(@, Negated(new.comp))]
    /\ nextID' = nextID + 1
    /\ err' = "ok"
ExtractMassKeepsAll(a, n, extract) ==
    /\ a \in Live /\ n \in Free /\ nextID < MaxID
    /\ PortionWhole(mats[a], extract)
    /\ CanExtractMass(mats[a], extract)
    /\ mats' = [mats EXCEPT ![n] = Portion(mats[a], extract, nextID)]
    /\ nextID' = nextID + 1
    /\ err' = "ok"
ExtractMass(a, n, extract) ==
    /\ a \in Live /\ n \in Free /\ nextID < MaxID
    /\ PortionWhole(mats[a], extract)
    /\ CanExtractMass(mats[a], extract)
    /\ LET new == Portion(mats[a], extract, nextID)
       IN  mats' = [mats EXCEPT ![n] = new, ![a] = Changed(@, Negated(new.comp))]
    /\ nextID' = nextID + 1
    /\ err' = "ok"

ExtractMassFails(a, extract) ==
    /\ a \in Live
    /\ PortionWhole(mats[a], extract)
    /\ ~CanExtractMass(mats[a], extract)
    /\ err' = "InsufficientInventory"
    /\ UNCHANGED <<mats, nextID>>

\* decay(months), and decay() for the months it finds elapsed: the
\* composition map takes the new number densities.
Decay(a, months) ==
    /\ a \in Live
    /\ mats' = [mats EXCEPT ![a] = Decayed(@, months)]
    /\ err' = "ok"
    /\ UNCHANGED nextID

Next ==
    \/ \E a \in Addrs : NewEmpty(a) \/ Destroy(a)
    \/ \E a \in Addrs, comp \in Recipes, u \in Units, scale \in Scales, type \in Basis :
          NewRecipe(a, comp, u, scale, type)
    \/ \E a \in Addrs, tope \in Isos, change \in Changes :
          ChangeComp(a, tope, change) \/ ChangeCompFails(a, tope, change)
    \/ \E a, b \in Addrs :
          Absorb(a, b) \/ AbsorbFails(a, b) \/ Extract(a, b) \/ ExtractFails(a, b)
    \/ \E a, n \in Addrs, extract \in Extracts :
          ExtractMass(a, n, extract) \/ ExtractMassFails(a, extract)
    \/ \E a \in Addrs, months \in Months : Decay(a, months)

Spec == Init /\ [][Next]_vars

-----------------------------------------------------------------------------
(* What the class promises *)

TypeOK ==
    /\ \A a \in Live : IsMaterial(mats[a])
    /\ nextID \in 0..MaxID
    /\ err \in Errors

\* The mass of all the materials there are.
SysMass == MapThenSumSet(LAMBDA a : mats[a].total_mass, Live)

\* The most a total may be off when each of n nuclides is off by less than
\* the tolerance.
Slack(n) == (EPS - 1) * n

Within(x, y, slack) == x - y <= slack /\ y - x <= slack

\* No operation leaves in comp_map_ an entry that isNeg or isZero flags:
\* what a material holds of a nuclide is at least the tolerance, whatever
\* sequence of changeComp, extract and extractMass took it there.
CompLegal ==
    \A a \in Live : \A i \in DOMAIN mats[a].comp :
        MassOf(i, mats[a].comp[i]) >= EPS

\* getSN identifies a material: the constructors, the one inside
\* extractMass included, never hand a serial number out twice, and every
\* serial number in use is below nextID_.
SerialsUnique ==
    \A a, b \in Live :
        /\ mats[a].ID < nextID
        /\ a # b => mats[a].ID # mats[b].ID

\* The recipe constructor builds a material of the size asked for: scale
\* is its total mass for a mass based recipe and its total atoms for an
\* atom based one, up to the tolerance for each nuclide of the recipe,
\* whatever the recipe's own entries add up to.
RecipeSizeHonoured ==
    [][\A a \in Addrs, comp \in Recipes, u \in Units, scale \in Scales, type \in Basis :
          NewRecipe(a, comp, u, scale, type) =>
             Within(IF type = "MASSBASED" THEN mats'[a].total_mass
                                          ELSE mats'[a].total_atoms,
                    scale, Slack(Cardinality(DOMAIN comp)))
      ]_vars

\* absorb, extract and extractMass move material, they do not make or lose
\* it.  absorb adds exactly the mass of the absorbed material, which is
\* gone afterwards.  extract takes the mass of matToRem off this material
\* and extractMass splits this material in two, both up to the tolerance
\* for each nuclide involved, and a split never hands out a nuclide its
\* parent did not hold.
MassMovesWithinTolerance ==
    [][\A a, b \in Addrs :
          /\ Absorb(a, b) => SysMass' = SysMass
          /\ Extract(a, b) =>
                Within(mats[a].total_mass - mats'[a].total_mass, mats[b].total_mass,
                       Slack(Cardinality(DOMAIN mats[b].comp)))
          /\ (\E extract \in Extracts : ExtractMass(a, b, extract)) =>
                /\ Within(SysMass', SysMass, Slack(Cardinality(DOMAIN mats[a].comp)))
                /\ DOMAIN mats'[b].comp \subseteq DOMAIN mats[a].comp
                /\ mats'[a].total_mass <= mats[a].total_mass
      ]_vars

\* decay(months) on any material the system can hold: it never creates
\* atoms, never touches a nuclide the decay data do not name, leaves the
\* material as it is when no time has passed and, when a parent loses
\* atoms in the period, the composition map of the material shows the loss.
DecayIsPhysical ==
    \A a \in Live, months \in Months :
        LET m == mats[a]
            d == Decayed(m, months)
        IN  /\ d.total_atoms <= m.total_atoms
            /\ \A i \in Isos \ Tracked : getAtomComp(d, i) = getAtomComp(m, i)
            /\ months = 0 => d = m
            /\ \A p \in DOMAIN parent_ :
                  months > 0 /\ Lost(makeCompVector(m), p) > 0
                     => getAtomComp(d, p) < getAtomComp(m, p)

\* The class keeps two accounts and serial numbers; its clients
\* can rely on it as on the composition of the design document, which keeps
\* the atoms only.  Every call of the class, the failing ones included, is a
\* step that Composition allows of the compositions the materials hold:
\* it changes only its operands, up to the tolerance for each nuclide, and
\* nothing when it reports an error.
Promise ==
    INSTANCE Composition WITH
        holds <- [a \in Addrs |->
                    IF mats[a] = NULL THEN NULL
                    ELSE [units |-> mats[a].units, atoms |-> mats[a].comp]],
        outcome <- err,
        Units <- Units \cup {NoUnits},
        Stable <- Isos \ Tracked
ImplementsComposition == Promise!Spec

-----------------------------------------------------------------------------
(* Where the header, its signatures and the design document disagree *)

\* The design document on absorb: the absorbed material is left empty but
\* valid (totals zero, map cleared) and remains the caller's to use.
AbsorbLeavesSourceValid ==
    [][\A a, b \in Addrs :
          Absorb(a, b) => /\ mats'[b] # NULL
                          /\ mats'[b].comp = <<>>
                          /\ mats'[b].total_mass = 0 /\ mats'[b].total_atoms = 0
      ]_vars

=============================================================================
