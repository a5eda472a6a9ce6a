---------------------------- MODULE MCSearchCache -----------------------------
(* Writers, searches and races are model values named in the cfg files.      *)
EXTENDS SearchCache, SequencesExt

(* Outcome is what applying the tasks one by one amounts to.                 *)
Documents == [Races -> 0..MaxVersion]
ASSUME OutcomeAssumption ==
  \A documents \in Documents, queue \in SeqOf([kind : {"clear", "add"}, docs : Documents], 3) :
    Outcome(documents, queue) = FoldLeft(Applied, documents, queue)
=============================================================================
