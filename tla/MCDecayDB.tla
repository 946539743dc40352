------------------------------ MODULE MCDecayDB ------------------------------
(***************************************************************************)
(* DecayDB for TLC.  The files are all sequences of up to three blocks, a  *)
(* block being a comment line or the record of a parent with exactly the   *)
(* daughter lines its header announces, as the file format requires.       *)
(* Ratios are in thousandths and the tolerance is one thousandth.  Half-   *)
(* lives of one and two months give decay constants of 5 and 3 tenths a    *)
(* month.                                                                  *)
(***************************************************************************)
EXTENDS DecayDB

H1  == 10010000
H3  == 10030000
He3 == 20030000

Blocks ==
    { <<Comment>>,
      <<Parent(H3, 1, 1), Daughter(He3, 1000)>>,
      <<Parent(H3, 2, 2), Daughter(He3, 700), Comment, Daughter(H1, 301)>>,
      <<Parent(He3, 1, 1), Daughter(H1, 999)>>,
      <<Parent(He3, 2, 2), Daughter(H1, 700), Daughter(H3, 302)>>,
      <<Parent(H1, 1, 1), Daughter(H3, 998)>>,
      <<Parent(H1, 2, 0)>> }

MCFiles        == {FlattenSeq(bs) : bs \in SeqOf(Blocks, 3)}
MCDecayConstOf == 1 :> 5 @@ 2 :> 3
=============================================================================
