# TLA+ models of the cyclus isotopic material model

This directory holds the TLA+ specifications of the material model of the
cyclus fuel-cycle simulator, the TLC configurations that check them and,
in `PROJECT.json`, the index that ties every definition to the lines of
the source it stands for.

## 1. The system

### What the sources are

| file | what it is |
|---|---|
| `src/unnamed/part_000` | `Material.h`: the typedefs and constants of the material model and the declaration of class `IsoVector`, every operation with its documented contract. The method bodies are not part of the sources. |
| `src/unnamed/part_001` | `xml_file_loader_tests.cc`: the gtest fixture of the XML scenario loader (SetUp, TearDown, the input documents and six tests). |
| `src/stubs/stub_region.cc` | `StubRegion`, a region archetype stub that forwards every call to `RegionAgent`. |

The design document (`spec.md`) describes four components of the core and
names the collaborators around it.

### Components

| component | state | operations | interacts with |
|---|---|---|---|
| Nuclide Registry | none (read-only table) | `getAtomicNum`, `getMassNum`, `getAtomicMass`, `isAtomicNumValid`, identifier parsing | used by every conversion between atoms and mass |
| Decay Database | static `parent_`, `daughters_`, `decayMatrix_` | `loadDecayInfo`, `makeDecayMatrix` | read by decay |
| Decay Solver | none | `evolve(v, t)` (matrix exponential) | called by decay |
| Composition Object (`IsoVector`) | `ID_`, static `nextID_`, `units_`, `recipeName_`, `total_mass_`, `total_atoms_`, `comp_map_` | two constructors, destructor, `changeComp`, `absorb`, `extract`, `extractMass`, `normalize`, `decay(months)`, `decay()`, the queries | registry, solver, decay database |
| XML loader test fixture | files on disk, the recording backend, the process-wide `eps` | `SetUp`, `TearDown`, six tests | `XMLFileLoader`, `SqliteBack`, `Recorder` |
| StubRegion | none of its own | constructor, `InfileToDb`, `Clone`, `InitFrom`, `str`, `ConstructStubRegion` | `RegionAgent`, `Context` |
| XML loader, recording backend, market solver, command line | | | named by the design document as outside the core; no source |

### What makes the code hard

The core is single-threaded and persists nothing, so there are no
interleavings of threads, no crashes to recover from and no messages; the
test fixture, which keeps files under fixed names in the working
directory, has both.  What is hard to test in the core is arithmetic under
a tolerance and the order of calls:

* every comparison is made against the tolerance `EPS`: an entry below it
  is zero and is erased, a deficit smaller than it is legal.  Each
  operation may therefore lose or create a little of every nuclide, and
  the question is what a *sequence* of legal operations can do;
* two accounts (atoms and mass) are kept for every material and must agree
  after every mutation;
* `absorb`, `extract` and `extractMass` involve two materials, one of which
  is created or deleted by the call;
* decay works on a vector of the nuclides the decay database tracks, and
  a material may hold others;
* the decay database is static: what one `loadDecayInfo` leaves in the
  maps, the next one finds;
* the boundaries: a recipe whose sum is below the tolerance, a split of
  exactly the total plus the tolerance, a decay of zero months;
* the header and the design document do not always agree (section 5).

### Correctness properties

From the class comment of `IsoVector` and section 8 of the design
document: mass is conserved across absorb and extract within the
tolerance; serial numbers are unique; decay never creates atoms and is the
identity for zero months; no entry of a composition map is negative or
below the tolerance; a load of the decay file reports its first fault or
builds the matrix of that file.

## 2. The modules

| module | models | source |
|---|---|---|
| `Nuclide` | the registry: decoding of `ZZZAAASSSS` identifiers, validity, atomic mass | `part_000` 16-24, 207-229, 369-374 |
| `IsoVector` | class `IsoVector`: its data members, queries, constructors, mutators and decay, on a heap of materials | `part_000` 56-107, 109-422 |
| `MCTransfer` | constants for the runs about building, merging and splitting | |
| `MCDecay` | constants for the runs about decay and the refinement | |
| `LoaderTests` | the fixture of the XML loader tests: SetUp, the six test bodies, TearDown, for several runs of the test binary | `part_001` 17-270 |
| `MCLoaderTests` | constants for the runs about the fixture | |
| `DecayDB` | the decay database: the static maps, `loadDecayInfo` reading the decay file into them a line in a step, `makeDecayMatrix` | `part_000` 56-71, 309-313, 345-350, 408-422; design document 4.2 |
| `MCDecayDB` | the decay files of the run about the loader | |
| `Composition` | the abstract specification: what a composition promises its clients, in atoms only, one contract per operation | design document, sections 4.4 and 9 |
| `StubRegion` | class `StubRegion`: constructor, destructor, `InfileToDb`, `Clone`, `InitFrom`, `str`, `ConstructStubRegion`, on a heap of agents | `stub_region.cc` 6-47 |
| `MCStubRegion` | constants for the run about the archetype | |

### How `IsoVector` corresponds to the code

State.  `mats[a]` is the `IsoVector` at heap address `a`, or `NULL` when
the cell is free; a material is the record of the data members `ID_`,
`units_`, `total_mass_`, `total_atoms_` and `comp_map_`.  `nextID` is the
static `nextID_`, `err` the kind of the error the last call raised, or
`"ok"`.  `parent_` and `daughters_` are constants: the decay data are
loaded once, before any material exists.

Numbers.  `Atoms` and `Mass` are doubles in the code and integers here.
Atoms are counted in a unit in which the mass of `n` atoms of a nuclide is
`n` times its atomic mass, which removes the factor `1e-3 / AVOGADRO`, and
the atomic mass is the mass number (the registry's fallback).  `EPS` is
the tolerance in that unit.  Arithmetic is exact: a constructor or a split
is enabled only for inputs whose quotients are whole (`RecipeWhole`,
`PortionWhole`).  Rounding of doubles is therefore not modelled; the
tolerance, which is what the comparisons of the code are about, is.

Operations.  Each operation of the class is one action, and each of its
failures another:

| code | action | failure action |
|---|---|---|
| `IsoVector()` | `NewEmpty` | |
| `IsoVector(comp, mat_unit, rec_name, scale, type)` | `NewRecipe` (normalize, scale, convert masses to atoms, erase what is below the tolerance, rationalize) | |
| `~IsoVector()` | `Destroy` | |
| `changeComp(tope, change, time)` | `ChangeComp(a, tope, change)` | `ChangeCompFails` (ConservationViolated) |
| `absorb(matToAdd)` | `Absorb` (adds the contents, deletes the argument) | `AbsorbFails` (UnitMismatch) |
| `extract(matToRem)` | `Extract` | `ExtractFails` (UnitMismatch, InsufficientInventory) |
| `extractMass(extract)` | `ExtractMass` (builds the portion with the recipe constructor, extracts it) | `ExtractMassFails` (InsufficientInventory) |
| `decay(months)` | `Decay` (`makeCompVector`, `evolve`, `Scattered`, rationalize) | |
| `decay()` | `Decay`, for some number of months | |

Every mutation ends by erasing the entries `isZero` flags and by
`rationalize_A2M`; both are part of the action (`Changed`, `Constructed`,
`Decayed`).  The header declares the two and does not say who calls them;
that every mutator does is the design document's rule, and `Changed` and
`Decayed` are marked `spec_modelled`.

The history.  `changeComp` is given a time "for the history", `decay()`
decays for the months since "the last entry in the material history", and
the typedef `CompHistory` is declared, but the class has no member of that
type and no body that would show where the history is kept or what is
entered in it.  The model therefore has no history and no clock: the time
given to `changeComp` is left out, and `decay()` is `Decay(a, months)` for
any `months` of `Months`, which covers whatever number of months the body
finds.

The tolerance.  `isNeg` and `isZero` are documented on number densities and
against "the conservation of mass tolerance", which the header defines in
kg (`EPS`, lines 104-107).  The model compares the mass of the atoms of the
nuclide with `EPS`; comparing the count of atoms with a number in kg would
give the tolerance a different meaning for every nuclide.

What comes from where.  The header gives the state, the signatures and the
documented contract of every operation; `PROJECT.json` maps each such
definition to its lines.  The bodies are not among the sources, so the
rules the header does not state (when an operation fails and with which
error, what extractMass accepts, how the solver evolves a vector and how
its result is put back into the composition) follow the design document;
those definitions are marked `spec_modelled` in the map.  Of `normalize`
the header says that it normalizes the map it is given; that the divisor
is the larger of the sum and the tolerance is the design document's.

Decay.  The solver's matrix exponential is replaced by `evolve`: one
application of the transition data per month, in whole atoms (`lambda /
LambdaDen` of a parent decays in a month, `ratio / BranchDen` of that goes
to a daughter).  This keeps what the properties tell apart (which nuclides
change, in which direction, what is conserved) and leaves out the
numerical method.  `makeCompVector` holds the nuclides the decay database
tracks and no others; `Scattered` puts the evolved vector back and lets
the nuclides it does not hold pass through, as the design document has
the solver do.  The header declares the way back as `static void
makeFromVect(const Vector &, CompMap)`, with the map by value, which as
declared cannot reach the composition of a material; the model follows
the comment above the declaration and the design document, and section 5
notes the declaration.

### How `LoaderTests` corresponds to the code

A process is one run of the test binary.  It runs the tests its filter
selects, in the order of the file or, with `Shuffle`, in any order.  For
each test it takes the steps of the code:

| code | action |
|---|---|
| `SetUp`, lines 18-20: `new SqliteBack(db)`, `RegisterBackend` | `SetUp(p, t)`: a backend more, the database file in the directory |
| `SetUp`, lines 22-41: seven `CreateTestInputFile` | `CreateTestInputFile(p)`, once per file of `SetUpFiles` |
| the `TEST_F` bodies | `Body(p)`: the loader is constructed on the file of the test (`Tests`), `LoadSim` is called where the test calls it, the expectations are compared |
| `TearDown`: `remove` and seven `unlink` | `Unlink(p)`, once per name of `TearDownFiles` |
| (the run is killed inside a test) | `Kill(p)`: the process, its backends, its `eps` and its list of finished tests are gone, the directory stays as it is, and the binary is started again |

`disk[d]` maps the names present in directory `d` to the sequence written
to them (`FalseSequence`, `ControlSequence`, ...); the XML is not
modelled, only whether a sequence is a `<simulation>` and which `eps` it
sets.  `eps[p]` is the process-wide `cyclus::eps()`, `backends[p]` counts
the `SqliteBack` objects allocated and not deleted.  `XMLFileLoader` is not
among the sources: its constructor throws when the file is missing or not
a simulation, and `LoadSim` sets `eps` from the file, which is what the
tests expect of it.  `CreateTestInputFile` is not among the sources
either: the model has it replace whatever file is there by the sequence
it is given (`Written`), which is what a helper that opens the file for
writing does.

`Kill(p)` is the fault the fixture is exposed to: it keeps its inputs
under fixed names in the working directory, so a run that is interrupted
between SetUp and the end of TearDown leaves them for the next run to
find.  A kill is possible in every state in which a process is inside a
test, at most `MaxKills` times for a process.  When it comes during SetUp
the file of the `CreateTestInputFile` under way is either not touched or
left holding the sequence `"cut short"`, which is no simulation
(`LeftBy`).  What had been reported as failed stays reported.

### `Composition`, and how `IsoVector` implements it

The design document notes that the class keeps two accounts (mass and
atoms) and that a cleaner design keeps the atoms only and derives the mass.
`Composition` is that design, and it is written as a contract: its state
is `holds`, the unit label and the atoms at each address, and `outcome`;
each of its actions (`Create`, `Release`, `Change`, `Absorb`, `Extract`,
`Split`, `Decay`, `Refuse`) relates the compositions after a call to
those before it, and says nothing of how they are computed.  What the
contracts have in common is what a client relies on:

* a call changes only its operands (`Only`);
* the result is a legal composition with the unit label it had (`Kept`,
  `Made`);
* every nuclide is what arithmetic on the atoms gives, up to the
  tolerance (`Near`), so what `isZero` erases is allowed and nothing more;
* a call that reports an error changes nothing (`Refuse`).

`IsoVector` instantiates it as `Promise`, with the refinement mapping

| `Composition` | `IsoVector` |
|---|---|
| `holds[a]` | `NULL` where `mats[a]` is, else `[units |-> mats[a].units, atoms |-> mats[a].comp]` |
| `outcome` | `err` |
| `Units` | `Units` and the label of a material built by the default constructor |
| `Stable` | the nuclides the decay data do not name (`Isos \ Tracked`) |

`total_mass_`, `total_atoms_`, `ID_` and `nextID_` are not mapped.  The
property `ImplementsComposition` is `Promise!Spec`.  In its run H-1 is
stable, so `Decay` of `Composition`, which allows no more atoms after
the call than before it, must also find the stable nuclide as it was.

### How `DecayDB` corresponds to the code

The header declares the static maps `parent_` and `daughters_`, the matrix
`decayMatrix_`, `loadDecayInfo` ("reads the decay information found in
the 'decayInfo.dat' file into the parent and daughters maps; uses these
maps to create the decay matrix") and `makeDecayMatrix`; the format of the
file and the rules of a record are those of section 4.2 of the design
document.  The maps are variables of the shape the typedefs give them
(`parent |-> [col, lambda]`, `col |-> <<daughter, ratio>>, ...`), the shape
`IsoVector` takes them in as constants; `built` says that the matrix has
been built.  `file`, `rest` and `want` are the locals of a load: the file
it opened, the lines still to read and the daughters the last parent
still waits for.

A file is a sequence of lines, and a line is `Comment` (a blank or `#`
line), `Parent(iso, half-life, n)` or `Daughter(iso, ratio)`.  Ratios are
whole parts of `BranchDen`; the conversion of a half-life into a decay
constant per month is the table `DecayConstOf`.

| step of the load | action |
|---|---|
| the call | `loadDecayInfo`: a no-op when the matrix is built, `IOError` when there is no file, else the file is opened |
| a blank or `#` line | `SkipLine` |
| a parent line | `ParentLine`: `DuplicateParent` when the parent is in `parent_`, else it enters `parent_` with the next column and its decay constant, and `daughters_` gets the column |
| a daughter line | `DaughterLine`: appended to the column of the last parent |
| the last line of a record | `Take`: `BranchSumInvalid` unless the ratios of the column sum to 1 within the tolerance |
| the end of the file | `makeDecayMatrix`: the matrix is built from the maps, which it leaves as they are |

The bodies are not among the sources, and three things the model does are
readings of the header rather than translations of code: a parent is a
duplicate when it is found in `parent_`; the column of a new parent is the
number of parents in the map; and a load that fails returns with the maps
as they are, since the maps are static, the load reads into them and
neither the header nor the design document has anything empty them.  The
third is what the run `reload_after_failure` is about (section 5).

The constant `Reloads` says whether the process calls `loadDecayInfo`
again after a load that failed.  The design document has the database
"initialized once during bootstrap", so the passing run has `Reloads =
FALSE`: a process loads once, and may call again after a load that built
the matrix, which is the no-op.

The files of the model follow the format: a header is followed by exactly
the daughter lines it announces, with comments anywhere.  What the loader
does with a header in the middle of a record or with a file that ends in
one is said nowhere, and is not modelled.

The second half of the module reads a file as a whole (`Lines`, `Heads`,
`Column`, `Branches`, `Faults`, `Verdict`): definitions by position in the
file, with no state, against which the step-by-step loader is checked.

### How `StubRegion` corresponds to the code

`agents` is the heap: `agents[a]` is `NULL` or the object at `a`, a record
of the context the constructor was given and of the data members
`RegionAgent` keeps (one value of `Members`, since the file never looks
inside them).  `db` is what has been recorded through `Agent::InfileToDb`,
`ret` the pointer the last call returned and `threw` whether it threw.

| code | definition |
|---|---|
| `StubRegion(ctx) : RegionAgent(ctx)`, lines 6-7 | `NewStubRegion(ctx)` |
| `~StubRegion()`, line 10 | `Destroy(a)` |
| `InfileToDb(qe, di)`, lines 13-24 | `InfileToDb(a, qe)`: the record of the base class, then the query for the element `model_impl()`, which throws when the input has none |
| `Clone()`, lines 27-31 | `Clone(a, m)`: `NewStubRegion(context(a))`, then `InitFromOf` with the prototype, at a free address `m` that is returned |
| `InitFrom(m)`, lines 34-37 | `InitFrom(a, m)`, and `InitFromOf` for the call inside `Clone` |
| `str()`, lines 40-42 | `str(a)` |
| `ConstructStubRegion(ctx)`, lines 45-47 | `ConstructStubRegion(a, ctx)` |

`RegionAgent`, `Agent` and `QueryEngine` are not among the sources.  The
first section of the module holds all that is assumed of them: the
constructor keeps the context and leaves the members at their default,
`RegionAgent::InitFrom` copies the members and not the context,
`Agent::InfileToDb` records, `QueryElement` throws for a name the input
does not have, `str` describes the members.  `Configure` stands for the
simulation setting the members of an agent; without it every agent would
hold the default and a clone could not be told from a new agent.

## 3. The runs

| run | module, cfg | expects | what it shows |
|---|---|---|---|
| `transfer` | `MCTransfer`, `MCTransfer.cfg` | pass | building, absorbing, extracting and splitting three materials keeps the maps legal and the serial numbers unique, builds recipes in the size asked for, and moves mass only within the tolerance |
| `decay` | `MCDecay`, `MCDecay.cfg` | pass | on every material changeComp, the transfers and earlier decays can build of a stable nuclide, a parent and its daughter, decay creates no atoms, shows every loss of a parent and leaves the stable nuclide alone |
| `implements` | `MCDecay`, `Implements.cfg` | pass | every call of `IsoVector`, the failing ones included, is a step of `Composition` |
| `absorb_source` | `MCTransfer`, `AbsorbSource.cfg` | violation | the absorbed material is deleted, not left empty but valid |
| `fixture` | `MCLoaderTests`, `MCLoaderTests.cfg` | pass | two runs of the test binary in a directory each, each killed at most once and started again: every test passes, and the first test that completes after a kill removes all the killed run left |
| `shared_directory` | `MCLoaderTests`, `SharedDir.cfg` | violation | in one directory, TearDown of one run unlinks the input of the other |
| `shuffled` | `MCLoaderTests`, `Shuffled.cfg` | violation | EpsFile before EpsDefault leaves the loaded eps behind |
| `decay_db` | `MCDecayDB`, `MCDecayDB.cfg` | pass | one `loadDecayInfo` in a process, on every file of up to three blocks and on a missing file, and calls after the matrix is built: the first fault is reported, and the maps the matrix is built from are what the file says |
| `reload_after_failure` | `MCDecayDB`, `Reload.cfg` | violation | a load after a load that failed finds the records of the refused file in the maps |
| `stub_region` | `MCStubRegion`, `MCStubRegion.cfg` | pass | agents constructed, configured, recorded, cloned, initialised from one another and destroyed: a clone is a new object that reads as its prototype |

### Properties

| property | kind | says |
|---|---|---|
| `TypeOK` | invariant | every live cell is a material with totals that are not negative; `nextID` and `err` in range |
| `CompLegal` | invariant | every entry of every map is at least the tolerance |
| `SerialsUnique` | invariant | no two live materials share a serial number; all are below `nextID_` |
| `RecipeSizeHonoured` | action | the recipe constructor builds a material of the size `scale`, up to the tolerance per nuclide |
| `MassMovesWithinTolerance` | action | absorb conserves the mass of the system exactly; extract and extractMass up to the tolerance per nuclide; a split never hands out a nuclide its parent did not hold |
| `DecayIsPhysical` | invariant over `Decayed` | for every reachable material and duration, decay creates no atoms, leaves untracked nuclides alone, is the identity for zero months and shows every loss of a parent |
| `ImplementsComposition` | refinement | `IsoVector`, under the mapping of section 2, satisfies the specification of `Composition` |

Of `LoaderTests`:

| property | kind | says |
|---|---|---|
| `TypeOK` | invariant | the variables are in range, SetUp writes only names TearDown knows, and a process holds at most one backend for each test of its filter |
| `NoTestFails` | invariant | no expectation of any test fails, in a run started after a kill as in a first run: SetUp writes over whatever is there |
| `TearDownCleans` | invariant | a directory in which no test is running holds none of the fixture's files, except between a kill and the end of the first test of the run that follows; that test removes all the killed run left |

Of `DecayDB`:

| property | kind | says |
|---|---|---|
| `TypeOK` | invariant | the variables are in range; a decay constant in the map is one the conversion gives; every column of `parent_` is a key of `daughters_`; what is left to read is the end of the file that was opened |
| `LoadMatchesFile` | invariant | when `loadDecayInfo` returns it has reported the first fault of the file in reading order (`Verdict`), the matrix is built exactly when there is none, and the maps hold each parent with its decay constant, its column (`Column`) and the daughters of its record (`Branches`) |

Of `StubRegion`:

| property | kind | says |
|---|---|---|
| `TypeOK` | invariant | every object has a context and members; a returned pointer points to an object |
| `CloneIsACopy` | action | Clone returns an address that was free, whose object reads as the prototype and lives in its context, and leaves every existing object as it was |

Every property of a passing run has a mutant in `PROJECT.json`: a
definition of the model changed the way a plausible bug would change the
code (the tolerance test dropped, a serial number copied, the absorbed
material kept, a composition rebuilt from the vector of the tracked
nuclides alone, a split that takes nothing off the material it splits, a
file written only when it is not there, a sum of ratios checked from below
only, a clone built without `InitFrom`), under which TLC finds the
property violated in the same configuration.

### Bounds

| constant | transfer | decay | why it is enough |
|---|---|---|---|
| `Addrs` | 3 | 2 | a split needs a live and a free cell, a merge two live ones; three cells allow a split followed by a merge with a third material |
| `Isos` | H-1, H-3 | H-1, H-3, He-3 | one nuclide whose single atom is below the tolerance and one whose single atom is above it; a parent, its daughter and a stable nuclide the decay data do not name |
| `EPS` | 2 | 2 | the smallest tolerance for which "below the tolerance" and "zero" differ |
| `Recipes`, `Scales` | `{H1: 2}`, `{H1: 1, H3: 1}`; 2, 6 | `{H3: 2}`; 3 | recipes whose sum is exactly the tolerance, where the sum and the floor of the divisor coincide, in sizes that build entries below, at and above the tolerance; a recipe below the tolerance is the observation of section 5 |
| `Extracts` | 3, 4 | 3, 6 | below the total, between the total and total + `EPS`, exactly total + `EPS`, and beyond |
| `Changes` | none | -1, 2 | a decrement that walks an entry through the tolerance and an increment; with them changeComp gives a material H-1, which no recipe of the run holds |
| `Months` | none | 0, 1, 2 | zero months, one step of the solver, and two |
| `MaxID` | 3 | 2 | constructions in a behaviour, the cap on `nextID_` |
| `MaxAtoms` | (unused) | 4 | cap on the total atoms changeComp may build a material up to |

Addresses and unit labels are symmetric model values; the symmetry sets
are declared in the MC modules.

`implements` takes the constants of `decay`.  Every action of `IsoVector`
fires in it.

State spaces: `transfer` 8,411 distinct states, `decay` and `implements`
7,423, `fixture` 40,804, `decay_db` 1,802.

`stub_region` has three addresses (a prototype and two clones, or two
unrelated agents and a clone), two contexts (so that a
clone in the wrong context can be told), two values of the members (the
default and a configured one) and inputs with and without the element of
the archetype.  Addresses and contexts are symmetric.

`decay_db` loads every sequence of up to three blocks, 400 files, one
file in a behaviour.  A
block is a comment or a record: records for three parents, with ratios
summing to 1000, 1001 and 999 thousandths (which load), 1002 and 998
(which do not), none at all, and with a comment between two daughters.
Three blocks are what it takes for a parent to be repeated with another
one in between, and for a fault to come after two good records.  The two
half-lives have different decay constants, so that a half-life stored
unconverted is seen.  `reload_after_failure` has the same files and
`Reloads = TRUE`.

`fixture` runs two processes, which is what it takes for one to be inside
a test while the other sets up or tears down; the six tests are split
three and three so that every test of the file is run.  `MaxKills` is 1
there: each process may be killed once, in any state of any of its tests,
which gives every set of files a killed run can leave to every test of the
run that follows (40,804 states).  With `MaxKills = 2`, a run killed while
it recovers from a kill, the same properties hold over 368,449 states in a
minute and a half; the configuration keeps the smaller bound.
`shared_directory` and `shuffled` are about runs that are not killed
(`MaxKills = 0`); `shuffled` needs one process and the two tests about
eps.  The processes of `LoaderTests` differ in their filters and
directories, so there is no symmetry to use.

### Deadlock, fairness and liveness

`IsoVector`, `DecayDB` and `StubRegion` are libraries: nothing happens
unless a caller calls, and the caller may stop at any time, so their
configurations do not check for deadlock.  `LoaderTests` is a program
that ends: a process with no test left stops, so deadlock is not checked
there either.

No liveness property is stated and no fairness is assumed.  Every
operation of the sources is straight-line code or a loop over a finite
input (the lines of a file, the names TearDown unlinks) that waits for
nothing, nothing in them retries, and no two actors wait for each other:
that a call returns is seen by reading it, and a temporal property would
only restate the shape of the model.  What the code promises is about
what each call does and about what a sequence of calls can reach, and
that is what the invariants and the action properties state.

## 4. What is not modelled, and why

* Floating-point rounding, and with it the relative tolerance of the
  semigroup law of the solver.  The month-by-month `evolve` is a semigroup
  by construction.
* The matrix exponential of the solver (dense linear algebra).
* The parsing of legacy and symbolic nuclide identifiers and the builtin
  table of atomic masses: the header declares nothing of them, and a
  parser of strings is data, not control.  `Nuclide` has the accessors the
  header declares, on canonical identifiers.
* `IsoVector` running on the maps as `DecayDB` leaves them: in `IsoVector`
  the maps are constants, of the shape `DecayDB` builds and with ratios
  that sum to 1.  Before a load the maps are empty, and a decay then
  changes nothing; nothing in the header makes a decay wait for the load.
* The history of a material and the body of `decay()`: the class declares
  no member for a history (section 2).
* Decay files that break the format (a header inside a record, a file
  that ends inside one), and lines that cannot be parsed: the design
  document names no error for them.
* What `SqliteBack` finds in a database file a killed run left: the
  backend is not among the sources, and no test of the file reads the
  database.  The model keeps the file in the directory and nothing of its
  contents.
* `recipeName_` and `getName`: a label no operation reads.
* `WF_U235` and `Spectrum`: declared in the header and used by nothing in
  it.
* The XML loader, the recording backend, the market solver: no source.
* The XML of the test inputs and the schema (`ControlSchema`, which no
  test uses).
* The agent lifecycle around `StubRegion` (entering the simulation, the
  tick and tock of a region, decommissioning): it belongs to `RegionAgent`
  and `Context`, which are not among the sources and which the design
  document leaves out of scope.  What `StubRegion` relies on of them is in
  the first section of the module.
* The data `InfileToDb` would record: the example in the body is a
  comment.
* What `extractMass` leaves behind when it fails after having built the
  new material, and `absorb` or `extract` of a material with itself:
  decided by bodies that are not among the sources.
* The overflow of `nextID_`: signed overflow is undefined, and 2^31
  constructions are out of reach; `SerialsUnique` holds up to `MaxID`.

## 5. Findings

1. **absorb deletes its argument** (`part_000:264`, run `absorb_source`).
   The header documents that absorb "deletes the given Material"; the
   design document says the absorbed composition is left "empty but
   valid".  A caller following the design document uses a deleted object.
2. **tests in one directory** (`part_001:47`, run `shared_directory`).
   The inputs have fixed names in the working directory; with two runs of
   the test binary there, TearDown of one unlinks `control.xml` before the
   body of the other reads it.
3. **EpsDefault depends on the order** (`part_001:255`, run `shuffled`).
   `eps` is process-wide and EpsFile changes it; EpsDefault passes only
   when it runs first.
4. **a load after a failed load** (`part_000:313`, run
   `reload_after_failure`).  The maps are static and `loadDecayInfo` reads
   into them; nothing empties them when a load fails.  TLC's behaviour:
   a file whose only record has ratios that do not sum to 1 is refused
   with `BranchSumInvalid` and leaves its parent in `parent_`; a second
   call, on an empty file, builds the matrix with that parent in it.  In
   the same way a corrected file is refused with `DuplicateParent` for a
   parent it names once.  The design document reports `DuplicateParent`
   when the file declares a parent twice and builds the matrix from the
   file that was consumed, and says nothing of a load after a failed one.
   The finding rests on the reading that a failed load does not empty the
   maps; a body that clears them on every error path would not have it.

Seen in the model and checked by no run: with the design document's
divisor, the larger of the sum and the tolerance, a recipe whose entries
sum to less than the tolerance gives a material smaller than `scale`
(`part_000:292`; `RecipeSizeHonoured` is checked for recipes of at least
the tolerance); `extractMass` accepts a mass up to the tolerance above
the total, so a split may hand out up to the tolerance more than the
material held, which `MassMovesWithinTolerance` allows call by call;
`makeFromVect` is declared static, returning nothing and taking the map
by value (`part_000:367`), so as declared it cannot update a material;
the loader accepts ratios that sum to 1.001, with which a decay makes one
atom in a thousand more than it destroys, where the design document has
decay make none (`DecayIsPhysical` is checked with ratios that sum to 1);
SetUp allocates a `SqliteBack`
for every test and TearDown removes its file and leaves the object
(`part_001:19`), so `backends[p]` grows by one with every test until the
process ends; and `InfileToDb` of
`StubRegion` has recorded the agent when the query for its element throws
(`stub_region.cc:14-15`).  Nothing in the sources says either should be
otherwise.

## 6. Plan

Done: `Nuclide`, `IsoVector`, `Composition` with the refinement,
`DecayDB`, `LoaderTests` with runs that are killed and started again, and
`StubRegion`; six passing runs and four runs about disagreements.

Open:

1. `IsoVector` with the maps of `DecayDB` as variables, so that a decay
   before, between and after loads is a behaviour of one specification.
2. The bodies the header only declares (`extractMass` when it fails
   half-way, `absorb` of a material into itself, `decay()` and the
   history, what `loadDecayInfo` does to the maps when it fails): to be
   modelled when their source is at hand.
