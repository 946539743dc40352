---------------------------- MODULE LoaderTests ----------------------------
(***************************************************************************)
(* The fixture of xml_file_loader_tests.cc: every test runs SetUp, which   *)
(* opens a database and writes seven input files under fixed names into   *)
(* the working directory, then its body, which hands one of the files to   *)
(* an XMLFileLoader, then TearDown, which removes the eight names again.   *)
(*                                                                         *)
(* A process is one run of the test binary; it runs the tests its filter   *)
(* selects one after the other.  Several processes may run at once, each   *)
(* in a working directory, and what one writes and unlinks there the       *)
(* others see.  A file is its name and the sequence written to it.         *)
(*                                                                         *)
(* A run can be killed inside a test.  The process and what it held in     *)
(* memory are gone, what it wrote to the directory stays, the file it was  *)
(* writing possibly cut short, and the binary is started again there.      *)
(*                                                                         *)
(* XMLFileLoader is not part of the sources.  What the model takes of it   *)
(* is what the tests expect of it: the constructor throws IOError when it  *)
(* cannot read the file, and LoadSim sets the process-wide eps from the    *)
(* file.                                                                   *)
(***************************************************************************)
EXTENDS Integers, Sequences, FiniteSets, Functions, TLC

CONSTANTS
    Procs,      \* the runs of the test binary
    Dirs,       \* working directories
    cwd,        \* cwd[p]: the directory process p runs in
    Filter,     \* Filter[p]: the tests process p runs
    Shuffle,    \* TRUE: in any order; FALSE: in the order of the file
    MaxKills    \* how often a run of a process may be killed inside a test

VARIABLES
    disk,       \* disk[d]: file name |-> sequence written, for the files in d
    pc,         \* pc[p]: "idle", "SetUp", "Body" or "TearDown"
    step,       \* step[p]: names of the stage handled so far
    test,       \* test[p]: the test being run
    ran,        \* ran[p]: the tests finished
    backends,   \* backends[p]: SqliteBack objects allocated and not deleted
    eps,        \* eps[p]: what cyclus::eps() returns in process p
    failed,     \* failed[p]: the tests with a failed expectation
    killed      \* killed[p]: the runs of p killed inside a test

vars == <<disk, pc, step, test, ran, backends, eps, failed, killed>>

-----------------------------------------------------------------------------
(* The names and the tests of the file *)

db == "xmlfileloadtestdb.sqlite"

SetUpFilesMisnamed ==
    << <<"false.xml", "FalseSequence">>, <<"control.xml", "ControlSequence">>,
       <<"decaycontrol.xml", "ControlSequenceWithDecay">>,
       <<"solver_control.xml", "ControlSequenceWithSolver">>,
       <<"eps.xml", "ControlSequenceWithEps">>, <<"recipes.xml", "RecipeSequence">>,
       <<"modules.xml", "ModuleSequence">> >>
\* SetUp: the files in the order written, each with the sequence it holds.
SetUpFiles ==
    << <<"false.xml",         "FalseSequence">>,
       <<"control.xml",       "ControlSequence">>,
       <<"decaycontrol.xml",  "ControlSequenceWithDecay">>,
       <<"solvercontrol.xml", "ControlSequenceWithSolver">>,
       <<"eps.xml",           "ControlSequenceWithEps">>,
       <<"recipes.xml",       "RecipeSequence">>,
       <<"modules.xml",       "ModuleSequence">> >>

TearDownFilesShort ==
    <<db, "false.xml", "control.xml", "decaycontrol.xml", "eps.xml",
      "recipes.xml", "modules.xml">>
\* TearDown: the names in the order removed.
TearDownFiles ==
    <<db, "false.xml", "control.xml", "decaycontrol.xml", "eps.xml",
      "solvercontrol.xml", "recipes.xml", "modules.xml">>

\* The sequences that are a <simulation> document, and the eps they set.
Simulations ==
    {"ControlSequence", "ControlSequenceWithDecay", "ControlSequenceWithSolver",
     "ControlSequenceWithEps", "RecipeSequence", "ModuleSequence"}
DefaultEps == "1e-6"
EpsOf(sequence) == IF sequence = "ControlSequenceWithEps" THEN "0.5e-5" ELSE DefaultEps

\* TEST_F, in the order of the file: the file handed to XMLFileLoader,
\* whether LoadSim is called, and what is expected.
Tests ==
    << [name |-> "openfile",   file |-> "control.xml",       load |-> FALSE, throws |-> FALSE, eps |-> {DefaultEps, "0.5e-5"}],
       [name |-> "decayfile",  file |-> "decaycontrol.xml",  load |-> FALSE, throws |-> FALSE, eps |-> {DefaultEps, "0.5e-5"}],
       [name |-> "solverfile", file |-> "solvercontrol.xml", load |-> FALSE, throws |-> FALSE, eps |-> {DefaultEps, "0.5e-5"}],
       [name |-> "EpsDefault", file |-> "control.xml",       load |-> FALSE, throws |-> FALSE, eps |-> {DefaultEps}],
       [name |-> "EpsFile",    file |-> "eps.xml",           load |-> TRUE,  throws |-> FALSE, eps |-> {"0.5e-5"}],
       [name |-> "throws",     file |-> "blah",              load |-> FALSE, throws |-> TRUE,  eps |-> {DefaultEps, "0.5e-5"}] >>

TestNames == {Tests[i].name : i \in DOMAIN Tests}
Index(name) == CHOOSE i \in DOMAIN Tests : Tests[i].name = name

ASSUME /\ cwd \in [Procs -> Dirs]
       /\ Filter \in [Procs -> SUBSET TestNames]
       /\ Shuffle \in BOOLEAN
       /\ MaxKills \in Nat

-----------------------------------------------------------------------------
(* The steps of a process *)

Init ==
    /\ disk = [d \in Dirs |-> <<>>]
    /\ pc = [p \in Procs |-> "idle"]
    /\ step = [p \in Procs |-> 0]
    /\ test = [p \in Procs |-> "none"]
    /\ ran = [p \in Procs |-> {}]
    /\ backends = [p \in Procs |-> 0]
    /\ eps = [p \in Procs |-> DefaultEps]
    /\ failed = [p \in Procs |-> {}]
    /\ killed = [p \in Procs |-> 0]

Written(dir, name, sequence) == (name :> sequence) @@ dir
Removed(dir, name) == Restrict(dir, DOMAIN dir \ {name})

\* The tests process p may run next.
Eligible(p) ==
    {t \in Filter[p] \ ran[p] :
        Shuffle \/ \A u \in Filter[p] \ ran[p] : Index(t) <= Index(u)}

\* SetUp, first statements: the backend is allocated on the database file
\* and registered with the recorder.
SetUp(p, t) ==
    /\ pc[p] = "idle" /\ t \in Eligible(p)
    /\ test' = [test EXCEPT ![p] = t]
    /\ backends' = [backends EXCEPT ![p] = @ + 1]
    /\ disk' = [disk EXCEPT ![cwd[p]] = Written(@, db, "database")]
    /\ pc' = [pc EXCEPT ![p] = "SetUp"]
    /\ step' = [step EXCEPT ![p] = 0]
    /\ UNCHANGED <<ran, eps, failed, killed>>

CreateFileIfAbsent(p) ==
    /\ pc[p] = "SetUp"
    /\ LET file == SetUpFiles[step[p] + 1]
       IN  disk' = [disk EXCEPT ![cwd[p]] = @ @@ (file[1] :> file[2])]
    /\ pc' = [pc EXCEPT ![p] = IF step[p] + 1 = Len(SetUpFiles) THEN "Body" ELSE @]
    /\ step' = [step EXCEPT ![p] = IF step[p] + 1 = Len(SetUpFiles) THEN 0 ELSE @ + 1]
    /\ UNCHANGED <<test, ran, backends, eps, failed, killed>>
\* SetUp, one CreateTestInputFile: the file is written, over what is there.
CreateTestInputFile(p) ==
    /\ pc[p] = "SetUp"
    /\ LET file == SetUpFiles[step[p] + 1]
       IN  disk' = [disk EXCEPT ![cwd[p]] = Written(@, file[1], file[2])]
    /\ pc' = [pc EXCEPT ![p] = IF step[p] + 1 = Len(SetUpFiles) THEN "Body" ELSE @]
    /\ step' = [step EXCEPT ![p] = IF step[p] + 1 = Len(SetUpFiles) THEN 0 ELSE @ + 1]
    /\ UNCHANGED <<test, ran, backends, eps, failed, killed>>

\* XMLFileLoader(&rec_, b_, schema_path, file) throws IOError when the file
\* cannot be read, and a parse error when it is not a simulation.
Throws(dir, file) == file \notin DOMAIN dir \/ dir[file] \notin Simulations

\* The body of a test: the loader is constructed, LoadSim is called where
\* the test calls it, and the expectations are compared with what happened.
Body(p) ==
    /\ pc[p] = "Body"
    /\ LET t      == Tests[Index(test[p])]
           dir    == disk[cwd[p]]
           threw  == Throws(dir, t.file)
           loaded == IF t.load /\ ~threw THEN EpsOf(dir[t.file]) ELSE eps[p]
           passed == threw = t.throws /\ loaded \in t.eps
       IN  /\ eps' = [eps EXCEPT ![p] = loaded]
           /\ failed' = [failed EXCEPT ![p] = IF passed THEN @ ELSE @ \cup {t.name}]
    /\ pc' = [pc EXCEPT ![p] = "TearDown"]
    /\ UNCHANGED <<disk, step, test, ran, backends, killed>>

\* TearDown, one remove or unlink; after the last the test is over.
Unlink(p) ==
    /\ pc[p] = "TearDown"
    /\ disk' = [disk EXCEPT ![cwd[p]] = Removed(@, TearDownFiles[step[p] + 1])]
    /\ IF step[p] + 1 = Len(TearDownFiles)
          THEN /\ pc' = [pc EXCEPT ![p] = "idle"]
               /\ step' = [step EXCEPT ![p] = 0]
               /\ ran' = [ran EXCEPT ![p] = @ \cup {test[p]}]
          ELSE /\ step' = [step EXCEPT ![p] = @ + 1]
               /\ UNCHANGED <<pc, ran>>
    /\ UNCHANGED <<test, backends, eps, failed, killed>>

\* What a kill leaves of the directory: what is there, and when it comes
\* inside a CreateTestInputFile possibly the file of that call, cut short.
LeftBy(p) ==
    LET dir == disk[cwd[p]]
    IN  IF pc[p] = "SetUp"
        THEN {dir, Written(dir, SetUpFiles[step[p] + 1][1], "cut short")}
        ELSE {dir}

\* The run of p is killed inside a test and the binary is started again
\* in the same directory: a new process, with nothing run, no backend and
\* the eps of a start; the report of the tests that had failed is kept.
Kill(p) ==
    /\ pc[p] # "idle" /\ killed[p] < MaxKills
    /\ killed' = [killed EXCEPT ![p] = @ + 1]
    /\ \E dir \in LeftBy(p) : disk' = [disk EXCEPT ![cwd[p]] = dir]
    /\ pc' = [pc EXCEPT ![p] = "idle"]
    /\ step' = [step EXCEPT ![p] = 0]
    /\ test' = [test EXCEPT ![p] = "none"]
    /\ ran' = [ran EXCEPT ![p] = {}]
    /\ backends' = [backends EXCEPT ![p] = 0]
    /\ eps' = [eps EXCEPT ![p] = DefaultEps]
    /\ UNCHANGED failed

Next ==
    \E p \in Procs :
        \/ \E t \in TestNames : SetUp(p, t)
        \/ CreateTestInputFile(p) \/ Body(p) \/ Unlink(p)
        \/ Kill(p)

Spec == Init /\ [][Next]_vars

-----------------------------------------------------------------------------
(* What the fixture promises *)

\* The variables keep their types: the directory holds no name but the
\* eight of the fixture, and a process holds at most one SqliteBack for
\* each test of its filter, SetUp allocating one a test and TearDown
\* deleting none.
TypeOK ==
    /\ \A d \in Dirs : DOMAIN disk[d] \subseteq {TearDownFiles[i] : i \in DOMAIN TearDownFiles}
    /\ pc \in [Procs -> {"idle", "SetUp", "Body", "TearDown"}]
    /\ step \in [Procs -> 0..Len(TearDownFiles)]
    /\ test \in [Procs -> TestNames \cup {"none"}]
    /\ \A p \in Procs : ran[p] \subseteq Filter[p] /\ failed[p] \subseteq Filter[p]
    /\ \A p \in Procs : backends[p] \in 0..Cardinality(Filter[p])
    /\ eps \in [Procs -> {DefaultEps, "0.5e-5"}]
    /\ killed \in [Procs -> 0..MaxKills]

\* Every test passes when the processes do not share a directory and run
\* the tests in the order of the file: each body finds the input SetUp
\* wrote for it in place and holding a simulation, "throws" finds no file
\* "blah", and the eps a test expects is the eps its process holds.  That
\* is so in a run started after a kill as well, whatever the killed run
\* left: CreateTestInputFile writes over a file that is there, one cut
\* short included, and a new process starts with the default eps.
NoTestFails == \A p \in Procs : failed[p] = {}

\* TearDown undoes SetUp, and what a killed run left with it: when no
\* process in a directory is inside a test, none of the names of the
\* fixture is left there, so the eight names TearDown removes cover the
\* eight SetUp creates.  The one exception is the time between a kill and
\* the end of the first test of the run started after it; that one test,
\* whichever it is, removes all the killed run wrote.
AwaitsFirstTest(d) == \E p \in Procs : cwd[p] = d /\ killed[p] > 0 /\ ran[p] = {}
TearDownCleans ==
    \A d \in Dirs :
        (\A p \in Procs : cwd[p] = d => pc[p] = "idle") =>
            disk[d] = <<>> \/ AwaitsFirstTest(d)

=============================================================================
