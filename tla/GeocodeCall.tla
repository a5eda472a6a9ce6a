------------------------------ MODULE GeocodeCall ------------------------------
(*****************************************************************************)
(* What a call of the geocoder promises its client: every requested city is  *)
(* settled once, found or lost, and the answer is given when none is open.   *)
(* How, and in which order cities are settled, is left to the service.       *)
(*****************************************************************************)
EXTENDS Naturals, Sequences

CONSTANTS Calls, Cities     \* Cities[c]: the list of cities call c asks for

VARIABLES outcome, answered

Positions(c) == 1..Len(Cities[c])

Init ==
  /\ outcome = [c \in Calls |-> [p \in Positions(c) |-> "open"]]
  /\ answered = [c \in Calls |-> FALSE]

(* Some open cities are settled.                                             *)
Settle(c) ==
  /\ ~answered[c]
  /\ \E result \in [Positions(c) -> {"open", "found", "lost"}] :
       /\ \A p \in Positions(c) : outcome[c][p] # "open" => result[p] = outcome[c][p]
       /\ outcome' = [outcome EXCEPT ![c] = result]
  /\ answered' = answered

Answer(c) ==
  /\ ~answered[c]
  /\ \A p \in Positions(c) : outcome[c][p] # "open"
  /\ answered' = [answered EXCEPT ![c] = TRUE]
  /\ outcome' = outcome

Next == \E c \in Calls : Settle(c) \/ Answer(c)

Spec == Init /\ [][Next]_<<outcome, answered>>
=============================================================================
