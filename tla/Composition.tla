----------------------------- MODULE Composition -----------------------------
(***************************************************************************)
(* What a composition object promises its clients, told in the one basis   *)
(* the design document calls canonical: a composition is its unit label    *)
(* and its atoms of each nuclide, and mass is derived from the atoms when  *)
(* it is asked for.  An operation is specified by how the compositions     *)
(* after it relate to those before it, never by how it is computed:        *)
(* every comparison is up to the tolerance EPS for each nuclide, a call    *)
(* that fails changes nothing, and a call changes only its operands.       *)
(***************************************************************************)
EXTENDS Nuclide, Integers, FiniteSets, FiniteSetsExt, TLC

CONSTANTS Addrs,     \* where a composition can be
          Isos,      \* the nuclides
          Units,     \* unit labels, the empty one included
          Recipes, Scales, Changes, Extracts,  \* what the callers ask for
          Stable,    \* the nuclides decay leaves alone
          EPS,       \* the tolerance
          NULL

VARIABLES holds,     \* address -> NULL or [units, atoms]
          outcome    \* how the last call ended

vars == <<holds, outcome>>

Failures == {"UnitMismatch", "InsufficientInventory", "ConservationViolated"}

Of(c, i)     == IF i \in DOMAIN c THEN c[i] ELSE 0
Weight(c, i) == Of(c, i) * getAtomicMass(i)
Count(c)     == MapThenSumSet(LAMBDA i : c[i], DOMAIN c)
Mass(c)      == MapThenSumSet(LAMBDA i : Weight(c, i), DOMAIN c)
Joined(c, d) == [i \in DOMAIN c \cup DOMAIN d |-> Of(c, i) + Of(d, i)]
Less(c, d)   == [i \in DOMAIN c \cup DOMAIN d |-> Of(c, i) - Of(d, i)]

\* A composition holds a nuclide in a quantity the tolerance can see, or
\* not at all.
Legal(c) == DOMAIN c \subseteq Isos /\ \A i \in DOMAIN c : Weight(c, i) >= EPS
\* Equal for each nuclide up to the tolerance.
Near(c, d) == \A i \in Isos : /\ Weight(c, i) - Weight(d, i) < EPS
                              /\ Weight(d, i) - Weight(c, i) < EPS
\* A total of n nuclides, each off by less than the tolerance.
About(x, y, n) == x - y <= (EPS - 1) * n /\ y - x <= (EPS - 1) * n

Exists(a) == holds[a] # NULL
Before(a) == holds[a].atoms
After(a)  == holds'[a].atoms
\* The call changes nothing but the compositions at S.
Only(S)   == \A o \in Addrs \ S : holds'[o] = holds[o]
\* a is a legal composition after the call and keeps its unit label.
Kept(a)   == /\ Exists(a) /\ holds'[a] # NULL
             /\ holds'[a].units = holds[a].units
             /\ Legal(After(a))
\* n is a new legal composition after the call.
Made(n)   == /\ ~Exists(n) /\ holds'[n] # NULL
             /\ holds'[n].units \in Units
             /\ Legal(After(n))

Init == holds = [a \in Addrs |-> NULL] /\ outcome = "ok"

\* An empty composition, or one of a recipe in the size asked for.
Create(a) ==
    /\ Made(a) /\ Only({a})
    /\ \/ After(a) = <<>>
       \/ \E r \in Recipes, s \in Scales :
             /\ DOMAIN After(a) \subseteq DOMAIN r
             /\ \/ About(Mass(After(a)), s, Cardinality(DOMAIN r))
                \/ About(Count(After(a)), s, Cardinality(DOMAIN r))

Release(a) == Exists(a) /\ holds'[a] = NULL /\ Only({a})

Change(a) ==
    /\ Kept(a) /\ Only({a})
    /\ \E i \in Isos, d \in Changes : Near(After(a), Joined(Before(a), i :> d))

\* b is moved into a.
Absorb(a, b) ==
    /\ a # b /\ Kept(a) /\ Exists(b) /\ Only({a, b})
    /\ holds[a].units = holds[b].units
    /\ holds'[b] = NULL
    /\ Near(After(a), Joined(Before(a), Before(b)))

\* What b holds is taken off a.
Extract(a, b) ==
    /\ a # b /\ Kept(a) /\ Exists(b) /\ Only({a})
    /\ holds[a].units = holds[b].units
    /\ Near(After(a), Less(Before(a), Before(b)))

\* a is split in two: the new composition n has the mass asked for and
\* holds nothing a did not, and the two together are what a was.
Split(a, n) ==
    /\ Kept(a) /\ Made(n) /\ Only({a, n})
    /\ holds'[n].units = holds[a].units
    /\ DOMAIN After(n) \subseteq DOMAIN Before(a)
    /\ \E x \in Extracts : About(Mass(After(n)), x, Cardinality(DOMAIN Before(a)))
    /\ Near(Joined(After(a), After(n)), Before(a))

\* Decay makes no atoms and leaves the stable nuclides alone.
Decay(a) ==
    /\ Kept(a) /\ Only({a})
    /\ Count(After(a)) <= Count(Before(a))
    /\ \A i \in Stable : Of(After(a), i) = Of(Before(a), i)

\* A call that fails says why and changes nothing.
Refuse == outcome' \in Failures /\ UNCHANGED holds

Next ==
    \/ /\ outcome' = "ok"
       /\ \E a \in Addrs :
             \/ Create(a) \/ Release(a) \/ Change(a) \/ Decay(a)
             \/ \E b \in Addrs : Absorb(a, b) \/ Extract(a, b) \/ Split(a, b)
    \/ Refuse

Spec == Init /\ [][Next]_vars
=============================================================================
