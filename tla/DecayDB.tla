------------------------------ MODULE DecayDB ------------------------------
(***************************************************************************)
(* The decay database: the static maps parent_ and daughters_ of           *)
(* Material.h, loadDecayInfo, which reads the decay file into them, and    *)
(* makeDecayMatrix, which builds the decay matrix from them.  The header   *)
(* declares them; the record grammar, the two load errors and the rule     *)
(* that a load does nothing once the matrix is built are those of the      *)
(* design document.                                                        *)
(*                                                                         *)
(* A file is a sequence of lines.  A line is a comment (or blank), the     *)
(* header of a parent with its half-life and the number of its daughters,  *)
(* or a daughter with its branching ratio, counted in parts of BranchDen.  *)
(* The loader reads one line in a step and enters it in the maps; a load   *)
(* that fails leaves in them what it had read.                             *)
(***************************************************************************)
EXTENDS Naturals, Sequences, FiniteSets, SequencesExt, Functions, TLC

CONSTANTS Files,         \* what 'decayInfo.dat' may hold when it is opened
          DecayConstOf,  \* half-life |-> decay constant in the simulator's unit
          BranchDen,     \* a branching ratio of 1
          BranchTol,     \* how far the ratios of a parent may be off 1
          Reloads,       \* whether the program calls again after a load error
          NULL           \* no file

VARIABLES parent_,    \* static ParentMap: parent |-> [col, lambda]
          daughters_, \* static DaughtersMap: col |-> <<daughter, ratio>>, ...
          built,      \* decayMatrix_ has been built
          file,       \* what the last load found in the file
          rest,       \* its lines still to read, NULL when no load is running
          want,       \* daughter lines the last parent still waits for
          err         \* how the last call ended

vars == <<parent_, daughters_, built, file, rest, want, err>>
maps == <<parent_, daughters_>>

ASSUME Reloads \in BOOLEAN

Comment        == [kind |-> "comment", iso |-> 0, val |-> 0, n |-> 0]
Parent(i, h, n) == [kind |-> "parent", iso |-> i, val |-> h, n |-> n]
Daughter(i, r) == [kind |-> "daughter", iso |-> i, val |-> r, n |-> 0]

Reading == rest # NULL
NextLineIs(k) == Reading /\ rest # <<>> /\ Head(rest).kind = k

-----------------------------------------------------------------------------
(* The rules of a record *)

LambdaRaw(h) == h
\* lambda = ln 2 / half-life, rescaled to months.
Lambda(h) == DecayConstOf[h]

BranchSum(ds) == FoldLeft(LAMBDA s, d : s + d[2], 0, ds)
BranchSumShort(ds) == BranchSum(ds) + BranchTol < BranchDen
\* The ratios of a parent must sum to 1, give or take the tolerance.
BranchSumInvalid(ds) ==
    BranchSum(ds) + BranchTol < BranchDen \/ BranchSum(ds) > BranchDen + BranchTol

\* A parent appearing twice is a load error: it is in the map already.
DuplicateParent(i) == i \in DOMAIN parent_

\* Columns go to the parents in the order they enter the map.
NextCol == Cardinality(DOMAIN parent_)

-----------------------------------------------------------------------------
(* loadDecayInfo and makeDecayMatrix *)

\* The load ends with an error.
Fail(e) == rest' = NULL /\ want' = 0 /\ err' = e

\* The call: nothing when the matrix is built already, IOError when there
\* is no file, else the file is opened.
loadDecayInfo ==
    /\ ~Reading
    /\ Reloads \/ err = "ok"
    /\ \/ built /\ err' = "ok" /\ UNCHANGED <<file, rest>>
       \/ ~built /\ file' = NULL /\ err' = "IOError" /\ UNCHANGED rest
       \/ ~built /\ \E f \in Files : file' = f /\ rest' = f /\ err' = "ok"
    /\ UNCHANGED <<maps, built, want>>

\* The line is consumed and leaves the maps as ps and ds, with w daughters
\* of the record still to come; a record that is complete must pass the
\* check of its ratios.
Take(ps, ds, w) ==
    /\ parent_' = ps /\ daughters_' = ds
    /\ IF w = 0 /\ BranchSumInvalid(ds[Cardinality(DOMAIN ps) - 1])
       THEN Fail("BranchSumInvalid")
       ELSE rest' = Tail(rest) /\ want' = w /\ UNCHANGED err
    /\ UNCHANGED <<built, file>>

\* Lines starting with # and blank lines are ignored.
SkipLine ==
    /\ NextLineIs("comment")
    /\ rest' = Tail(rest)
    /\ UNCHANGED <<maps, built, file, want, err>>

\* A parent enters parent_ with the next column and its decay constant.
ParentLine ==
    /\ NextLineIs("parent") /\ want = 0
    /\ LET l == Head(rest) IN
       IF DuplicateParent(l.iso)
       THEN Fail("DuplicateParent") /\ UNCHANGED <<maps, built, file>>
       ELSE Take(parent_ @@ (l.iso :> [col |-> NextCol, lambda |-> Lambda(l.val)]),
                 daughters_ @@ (NextCol :> <<>>), l.n)

\* A daughter joins the column of the parent read last.
DaughterLine ==
    /\ NextLineIs("daughter") /\ want > 0
    /\ LET l == Head(rest) IN
       Take(parent_, [daughters_ EXCEPT ![NextCol - 1] = Append(@, <<l.iso, l.val>>)],
            want - 1)

\* The file is consumed: makeDecayMatrix builds the matrix from the maps.
makeDecayMatrix ==
    /\ Reading /\ rest = <<>> /\ want = 0
    /\ built' = TRUE
    /\ rest' = NULL
    /\ UNCHANGED <<maps, file, want, err>>

Read == SkipLine \/ ParentLine \/ DaughterLine \/ makeDecayMatrix

Init ==
    /\ parent_ = <<>> /\ daughters_ = <<>> /\ built = FALSE
    /\ file = NULL /\ rest = NULL /\ want = 0 /\ err = "ok"

Next == Read \/ loadDecayInfo

Spec == Init /\ [][Next]_vars

-----------------------------------------------------------------------------
(* What a file says, read as a whole *)

Lines(f) == SelectSeq(f, LAMBDA l : l.kind # "comment")
Heads(f) == {k \in DOMAIN Lines(f) : Lines(f)[k].kind = "parent"}
Column(f, k)  == Cardinality({j \in Heads(f) : j < k})
Branches(f, k) ==
    [j \in 1..Lines(f)[k].n |-> <<Lines(f)[k + j].iso, Lines(f)[k + j].val>>]
Twice(f, k)   == \E j \in Heads(f) : j < k /\ Lines(f)[j].iso = Lines(f)[k].iso
OffOne(f, k)  ==
    LET s == SumFunction([j \in 1..Lines(f)[k].n |-> Lines(f)[k + j].val])
    IN  s + BranchTol < BranchDen \/ s > BranchDen + BranchTol
Faults(f)  == {k \in Heads(f) : Twice(f, k) \/ OffOne(f, k)}
Verdict(f) == IF Faults(f) = {} THEN "ok"
              ELSE IF Twice(f, Min(Faults(f))) THEN "DuplicateParent"
              ELSE "BranchSumInvalid"

-----------------------------------------------------------------------------
(* Properties *)

\* The variables keep their types; a decay constant in the map is one the
\* conversion of loadDecayInfo produces from a half-life, every column in
\* parent_ has its daughters, and what is still to read is the end of the
\* file that was opened.
TypeOK ==
    /\ \A p \in DOMAIN parent_ :
          /\ parent_[p].col \in DOMAIN daughters_
          /\ parent_[p].lambda \in {DecayConstOf[h] : h \in DOMAIN DecayConstOf}
    /\ DOMAIN daughters_ \subseteq Nat
    /\ built \in BOOLEAN /\ want \in Nat
    /\ file \in Files \cup {NULL}
    /\ Reading => IsSuffix(rest, file)
    /\ err \in {"ok", "IOError", "DuplicateParent", "BranchSumInvalid"}

\* When loadDecayInfo returns, it has reported the first fault of the file
\* in reading order, or none: the matrix is built exactly when there is
\* none, and the maps then hold every parent of the file with its decay
\* constant, its column in the order of the file and the daughters of its
\* record, whatever comments stand between the lines.
LoadMatchesFile ==
    (~Reading /\ file # NULL) =>
        /\ err = Verdict(file)
        /\ built <=> Verdict(file) = "ok"
        /\ built =>
              /\ Cardinality(DOMAIN parent_) = Cardinality(Heads(file))
              /\ \A k \in Heads(file) :
                    LET l == Lines(file)[k] IN
                    /\ l.iso \in DOMAIN parent_
                    /\ parent_[l.iso] = [col |-> Column(file, k),
                                         lambda |-> DecayConstOf[l.val]]
                    /\ daughters_[Column(file, k)] = Branches(file, k)

=============================================================================
