----------------------------- MODULE MCRaceImport -----------------------------
(* Small instances of RaceImport for TLC.  A model year has four days, so    *)
(* day 3 and day 4 are neighbours in different years; a day has four clock   *)
(* units; lengths are in steps of 0.005 km, so lengths one apart are within  *)
(* hasDistance's tolerance.                                                  *)
EXTENDS RaceImport

MCSlugOf == [n \in {"Run", "run", "10. Run", "Walk"} |->
               CASE n \in {"Run", "run"} -> "run" [] n = "10. Run" -> "10-run" [] OTHER -> "walk"]
MCSimilarNames == {{"Run", "run"}, {"Run", "10. Run"}, {"run", "10. Run"}}

Rec(name, voivodeship, day, distances) ==
  [name |-> name, city |-> "c", voivodeship |-> voivodeship, day |-> day,
   distances |-> distances]

MCRecords ==
  { Rec("Run", "", 1, <<20>>),            \* first sight
    Rec("10. Run", "v", 2, <<21, 40>>),   \* the other source, a day later
    Rec("run", "w", 4, <<20>>),           \* next year
    Rec("10. Run", "", 3, <<20, 20>>),    \* one distance twice
    Rec("Walk", "", 1, <<20>>) }          \* another race of the same day

(* Jobs are interchangeable: ids are built from them, nothing orders them.   *)
Symmetry == Permutations(Jobs)

(* Enough for two jobs to meet: a race and its edition of the next year.     *)
MCFewRecords == { Rec("Run", "", 1, <<20>>), Rec("Run", "", 4, <<20>>) }
MCTwoRaces == MCFewRecords \cup { Rec("Walk", "", 1, <<20>>) }
=============================================================================
