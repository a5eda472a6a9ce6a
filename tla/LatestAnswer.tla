----------------------------- MODULE LatestAnswer -----------------------------
(*****************************************************************************)
(* What a screen that fetches promises its reader: whatever was asked and    *)
(* answered before, an answer comes on the screen only if it answers the     *)
(* question the screen asks now, and no question stays open for ever.        *)
(* An answer to an earlier question may stay until then.                     *)
(*****************************************************************************)
CONSTANTS Questions, None

VARIABLES question, shown, status

Init ==
  /\ question \in Questions \cup {None}
  /\ shown = None
  /\ status = IF question = None THEN "idle" ELSE "open"

(* The reader asks, asks again, or leaves; a new screen starts empty.        *)
Ask ==
  /\ question' \in Questions \cup {None}
  /\ shown' \in {shown, None}
  /\ status' = IF question' = None THEN "idle" ELSE "open"

Show ==
  /\ status = "open"
  /\ shown' = question
  /\ status' = "answered"
  /\ UNCHANGED question

(* No answer came; the screen keeps what it shows or shows nothing.          *)
Fail ==
  /\ status = "open"
  /\ shown' \in {shown, None}
  /\ status' = "failed"
  /\ UNCHANGED question

Next == Ask \/ Show \/ Fail
Spec == Init /\ [][Next]_<<question, shown, status>>
Settles == Spec /\ []<>(status # "open")
===============================================================================
