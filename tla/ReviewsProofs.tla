----------------------------- MODULE ReviewsProofs -----------------------------
(*****************************************************************************)
(* Proofs about the reviews: on the server (Reviews), where the average of a *)
(* set of reviews stays opaque, so that the results hold for any aggregate   *)
(* of the rows; and on the page of a race (RaceScreen).                      *)
(*****************************************************************************)
EXTENDS Reviews, RaceScreen, FiniteSetTheorems, TLAPS

-----------------------------------------------------------------------------
(* Types of the parts, by action: the stages of Next that write few variables*)
(* are one leaf each.                                                        *)
LEMMA TypeNext == ASSUME TypeOK, [Next]_vars PROVE TypeOK'
<1> USE CatalogueAssumption, RatingsAssumption, BoundsAssumption, NoneAssumption
        DEF TypeOK, Labels, Statuses, Candidate, Review, Message
<1>1. ASSUME NEW q \in Requests, BadPost(q) PROVE TypeOK'
  BY <1>1 DEF BadPost, Goto, MayStart, workerVars
<1>2. ASSUME NEW q \in Requests, NEW u \in Users, NEW r \in RaceIds, NEW rating \in Ratings,
             Post(q, u, r, rating)
      PROVE TypeOK'
  BY <1>2 DEF Post, RaceExists, Goto, MayStart, workerVars
<1>3. ASSUME NEW q \in Requests, NEW u \in Users, NEW id \in Requests, Delete(q, u, id)
      PROVE TypeOK'
  BY <1>3 DEF Delete, Goto, MayStart, workerVars
<1>4. ASSUME NEW q \in Requests, CheckDuplicate(q) PROVE TypeOK'
  BY <1>4 DEF CheckDuplicate, Goto, workerVars
<1>5. ASSUME NEW q \in Requests, Save(q) PROVE TypeOK'
  BY <1>5 DEF Save, Goto, workerVars
<1>6. ASSUME NEW q \in Requests, RemoveRow(q) PROVE TypeOK'
  BY <1>6 DEF RemoveRow, Goto, workerVars
<1>7. ASSUME NEW q \in Requests, Dispatch(q) PROVE TypeOK'
  BY <1>7 DEF Dispatch, Goto, workerVars
<1>8. ASSUME NEW q \in Requests, LoseEvent(q) PROVE TypeOK'
  BY <1>8 DEF LoseEvent, Goto, workerVars
<1>9. ASSUME NEW q \in Requests, Abort(q) PROVE TypeOK'
  BY <1>9 DEF Abort, Goto, workerVars
<1>10. CASE Receive
  BY <1>10 DEF Receive, webVars
<1>11. CASE ReadAverage
  BY <1>11 DEF ReadAverage, webVars
<1>12. CASE SaveAverage
  BY <1>12 DEF SaveAverage, webVars
<1>13. CASE Acknowledge
  BY <1>13 DEF Acknowledge, Rest, webVars
<1>14. CASE HandlerFails
  BY <1>14 DEF HandlerFails, Rest, webVars
<1>15. CASE WorkerDies
  BY <1>15 DEF WorkerDies, Rest, webVars
<1>16. CASE UNCHANGED vars
  BY <1>16 DEF vars, webVars, workerVars
<1> QED
  BY <1>1, <1>2, <1>3, <1>4, <1>5, <1>6, <1>7, <1>8, <1>9, <1>10, <1>11, <1>12,
     <1>13, <1>14, <1>15, <1>16 DEF Next

(* Every reachable state is well typed: only reviews with a rating from 1 to *)
(* 5 of catalogued races are ever stored.                                    *)
THEOREM TypeCorrect == Spec => []TypeOK
<1>1. Init => TypeOK
  BY BoundsAssumption DEF Init, TypeOK, Labels, Statuses
<1> QED
  BY <1>1, TypeNext, PTL DEF Spec

-----------------------------------------------------------------------------
(* Only the rows of a race enter its average.                                *)
LEMMA AverageOfOthers ==
  ASSUME NEW r, NEW rv, rv.race # r,
         \/ reviews' = reviews \cup {rv}
         \/ reviews' = reviews \ {rv}
  PROVE  CurrentAverage(r)' = CurrentAverage(r)
<1>1. {x \in reviews' : x.race = r} = {x \in reviews : x.race = r}
  OBVIOUS
<1> QED
  BY <1>1 DEF CurrentAverage

LEMMA AverageUnchanged ==
  ASSUME NEW r, reviews' = reviews PROVE CurrentAverage(r)' = CurrentAverage(r)
BY DEF CurrentAverage

(* The argument, race by race: a commit leaves the request at its dispatch,  *)
(* a dispatch leaves a message, a message is received and read, a read takes *)
(* the present average, and whatever goes wrong puts the message back or     *)
(* records the race as missed.                                               *)
LEMMA PendingNext == ASSUME TypeOK, PendingInv, [Next]_vars PROVE PendingInv'
<1> SUFFICES ASSUME NEW r \in Catalogue,
                    Settling(r)' # CurrentAverage(r)'
             PROVE  Covered(r)'
  BY DEF PendingInv
<1>h. Settling(r) # CurrentAverage(r) => Covered(r)
  BY DEF PendingInv
<1> USE DEF TypeOK
<1>1. ASSUME NEW q \in Requests, BadPost(q) PROVE Covered(r)'
  BY <1>1, <1>h, AverageUnchanged DEF BadPost, MayStart, Goto, workerVars, Settling, Covered
<1>2. ASSUME NEW q \in Requests, NEW u \in Users, NEW s \in RaceIds, NEW rating \in Ratings,
             Post(q, u, s, rating)
      PROVE Covered(r)'
  BY <1>2, <1>h, AverageUnchanged DEF Post, MayStart, Goto, workerVars, Settling, Covered
<1>3. ASSUME NEW q \in Requests, NEW u \in Users, NEW id \in Requests, Delete(q, u, id)
      PROVE Covered(r)'
  BY <1>3, <1>h, AverageUnchanged DEF Delete, MayStart, Goto, workerVars, Settling, Covered
<1>4. ASSUME NEW q \in Requests, CheckDuplicate(q) PROVE Covered(r)'
  BY <1>4, <1>h, AverageUnchanged DEF CheckDuplicate, Goto, workerVars, Settling, Covered
<1>5. ASSUME NEW q \in Requests, Save(q) PROVE Covered(r)'
  <2>1. CASE row[q].race = r
    BY <1>5, <2>1 DEF Save, Goto, Covered
  <2>2. CASE row[q].race # r
    <3>1. CurrentAverage(r)' = CurrentAverage(r)
      BY <1>5, <2>2, AverageOfOthers DEF Save
    <3> QED
      BY <1>5, <1>h, <3>1 DEF Save, Goto, workerVars, Settling, Covered
  <2> QED BY <2>1, <2>2
<1>6. ASSUME NEW q \in Requests, RemoveRow(q) PROVE Covered(r)'
  <2>1. CASE row[q].race = r
    BY <1>6, <2>1 DEF RemoveRow, Goto, Covered
  <2>2. CASE row[q].race # r
    <3>1. CurrentAverage(r)' = CurrentAverage(r)
      BY <1>6, <2>2, AverageOfOthers DEF RemoveRow
    <3> QED
      BY <1>6, <1>h, <3>1 DEF RemoveRow, Goto, workerVars, Settling, Covered
  <2> QED BY <2>1, <2>2
<1>7. ASSUME NEW q \in Requests, Dispatch(q) PROVE Covered(r)'
  <2>1. CASE row[q].race = r
    <3>1. [from |-> q, race |-> row[q].race, tries |-> 0] \in queue'
      BY <1>7 DEF Dispatch
    <3> QED
      BY <2>1, <3>1 DEF Covered
  <2>2. CASE row[q].race # r
    <3>1. Covered(r)
      BY <1>7, <1>h, AverageUnchanged DEF Dispatch, workerVars, Settling
    <3> QED
      BY <1>7, <2>2, <3>1 DEF Dispatch, Goto, workerVars, Covered
  <2> QED BY <2>1, <2>2
<1>8. ASSUME NEW q \in Requests, LoseEvent(q) PROVE Covered(r)'
  BY <1>8, <1>h, AverageUnchanged DEF LoseEvent, Goto, workerVars, Settling, Covered
<1>9. ASSUME NEW q \in Requests, Abort(q) PROVE Covered(r)'
  BY <1>9, <1>h, AverageUnchanged DEF Abort, Goto, workerVars, Settling, Covered
<1>10. CASE Receive
  BY <1>10, <1>h, AverageUnchanged DEF Receive, webVars, Settling, Covered
<1>11. CASE ReadAverage
  BY <1>11, <1>h, AverageUnchanged DEF ReadAverage, webVars, Settling, Covered
<1>12. CASE SaveAverage
  BY <1>12, <1>h, AverageUnchanged DEF SaveAverage, webVars, Settling, Covered
<1>13. CASE Acknowledge
  BY <1>13, <1>h, AverageUnchanged DEF Acknowledge, Rest, webVars, Settling, Covered
<1>14. CASE HandlerFails
  <2>1. CASE message.race = r
    <3>1. CASE message.tries < MaxRetries
      <4> DEFINE again == [message EXCEPT !.tries = message.tries + 1]
      <4>1. again.race = r
        BY <1>14, <2>1 DEF HandlerFails, Message
      <4>2. again \in queue'
        BY <1>14, <3>1, BoundsAssumption DEF HandlerFails, Message
      <4> QED
        BY <4>1, <4>2 DEF Covered
    <3>2. CASE ~(message.tries < MaxRetries)
      BY <1>14, <2>1, <3>2 DEF HandlerFails, Covered
    <3> QED BY <3>1, <3>2
  <2>2. CASE message.race # r
    BY <1>14, <1>h, <2>2, AverageUnchanged DEF HandlerFails, Rest, webVars, Settling, Covered
  <2> QED BY <2>1, <2>2
<1>15. CASE WorkerDies
  BY <1>15, <1>h, AverageUnchanged DEF WorkerDies, Rest, webVars, Settling, Covered
<1>16. CASE UNCHANGED vars
  BY <1>16, <1>h, AverageUnchanged DEF vars, Settling, Covered
<1> QED
  BY <1>1, <1>2, <1>3, <1>4, <1>5, <1>6, <1>7, <1>8, <1>9, <1>10, <1>11, <1>12,
     <1>13, <1>14, <1>15, <1>16 DEF Next

(* The stored average is stale only while an event of the race is still on   *)
(* its way or was missed: for every number of users, races, requests,        *)
(* retries and deaths of the one worker.                                     *)
THEOREM StaleCovered == Spec => []StaleOnlyWhilePending
<1>1. Init => PendingInv
  <2> SUFFICES ASSUME Init, NEW r \in Catalogue PROVE Settling(r) = CurrentAverage(r)
    BY DEF PendingInv
  <2>1. {rv \in reviews : rv.race = r} = {}
    BY DEF Init
  <2> QED
    BY <2>1 DEF Init, Settling, CurrentAverage, AverageOf
<1>2. PendingInv => StaleOnlyWhilePending
  BY DEF PendingInv, StaleOnlyWhilePending, Settling
<1> QED
  BY <1>1, <1>2, PendingNext, TypeCorrect, PTL DEF Spec

-----------------------------------------------------------------------------
(* A request about to delete a row holds one of its caller's reviews.        *)
VoterInv == \A q \in Requests : pc[q] = "remove" => caller[q] = row[q].user

LEMMA VoterNext == ASSUME TypeOK, VoterInv, [Next]_vars PROVE VoterInv'
<1> SUFFICES ASSUME NEW p \in Requests, pc'[p] = "remove"
             PROVE  caller'[p] = row'[p].user
  BY DEF VoterInv
<1>1. ASSUME NEW q \in Requests, NEW u \in Users, NEW id \in Requests, Delete(q, u, id)
      PROVE  caller'[p] = row'[p].user
  BY <1>1 DEF Delete, MayDelete, Goto, TypeOK, VoterInv, MayStart
<1>2. ASSUME NEW q \in Requests, NEW u \in Users, NEW s \in RaceIds, NEW rating \in Ratings,
             Post(q, u, s, rating)
      PROVE  caller'[p] = row'[p].user
  BY <1>2 DEF Post, Goto, TypeOK, VoterInv, MayStart
<1>3. ASSUME NEW q \in Requests,
             \/ BadPost(q) \/ CheckDuplicate(q) \/ Save(q) \/ RemoveRow(q)
             \/ Dispatch(q) \/ LoseEvent(q) \/ Abort(q)
      PROVE  caller'[p] = row'[p].user
  BY <1>3 DEF BadPost, CheckDuplicate, Save, RemoveRow, Dispatch, LoseEvent, Abort,
              Goto, TypeOK, VoterInv
<1>4. CASE \/ Receive \/ ReadAverage \/ SaveAverage \/ Acknowledge
           \/ HandlerFails \/ WorkerDies
  BY <1>4 DEF Receive, ReadAverage, SaveAverage, Acknowledge, HandlerFails, WorkerDies,
              webVars, VoterInv
<1>5. CASE UNCHANGED vars
  BY <1>5 DEF vars, VoterInv
<1> QED
  BY <1>1, <1>2, <1>3, <1>4, <1>5 DEF Next

LEMMA RemovalStep ==
  ASSUME TypeOK, VoterInv, [Next]_vars
  PROVE  [\A rv \in reviews \ reviews' :
            \E q \in Requests : pc[q] = "remove" /\ pc'[q] # "remove"
                                /\ caller[q] = rv.user]_vars
<1> SUFFICES ASSUME NEW rv \in reviews \ reviews'
             PROVE  \E q \in Requests : pc[q] = "remove" /\ pc'[q] # "remove"
                                        /\ caller[q] = rv.user
  OBVIOUS
<1>1. ASSUME NEW q \in Requests, RemoveRow(q)
      PROVE  pc[q] = "remove" /\ pc'[q] # "remove" /\ caller[q] = rv.user
  BY <1>1 DEF RemoveRow, Goto, TypeOK, VoterInv
<1>2. ASSUME NEW q \in Requests,
             \/ BadPost(q) \/ CheckDuplicate(q) \/ Save(q)
             \/ Dispatch(q) \/ LoseEvent(q) \/ Abort(q)
             \/ \E u \in Users, s \in RaceIds, rating \in Ratings : Post(q, u, s, rating)
             \/ \E u \in Users, id \in Requests : Delete(q, u, id)
      PROVE  FALSE
  BY <1>2 DEF BadPost, CheckDuplicate, Save, Dispatch, LoseEvent, Abort, Post, Delete
<1>3. CASE \/ Receive \/ ReadAverage \/ SaveAverage \/ Acknowledge
           \/ HandlerFails \/ WorkerDies \/ UNCHANGED vars
  BY <1>3 DEF Receive, ReadAverage, SaveAverage, Acknowledge, HandlerFails, WorkerDies, vars
<1> QED
  BY <1>1, <1>2, <1>3 DEF Next

(* No interleaving lets a review disappear but by a request of its author.   *)
THEOREM AuthorOnly == Spec => OnlyTheAuthorRemoves
<1>1. Init => VoterInv
  BY DEF Init, VoterInv
<1> QED
  BY <1>1, VoterNext, RemovalStep, TypeCorrect, PTL DEF Spec, OnlyTheAuthorRemoves

-----------------------------------------------------------------------------
(* With requests served one at a time, what CheckDuplicate saw is still true *)
(* when the row is inserted.                                                 *)
SerialInv ==
  /\ OneReviewPerUserAndRace
  /\ IsFiniteSet(reviews)
  /\ \A p, q \in InFlight : p = q
  /\ \A q \in Requests :
       pc[q] = "save" => ReviewsBy(row[q].user, row[q].race) = {}

LEMMA StartsAlone ==
  ASSUME MaxInFlight = 1, NEW q, MayStart(q) PROVE InFlight = {}
<1>1. IsFiniteSet(InFlight)
  BY RequestsAssumption, FS_Subset DEF InFlight
<1>2. Cardinality(InFlight) = 0
  BY <1>1, FS_CardinalityType DEF MayStart
<1> QED
  BY <1>1, <1>2, FS_EmptySet

LEMMA SerialNext ==
  ASSUME MaxInFlight = 1, TypeOK, SerialInv, [Next]_vars PROVE SerialInv'
<1> USE DEF SerialInv, TypeOK
<1>1. ASSUME NEW q \in Requests,
             \/ BadPost(q)
             \/ \E u \in Users, r \in RaceIds, rating \in Ratings : Post(q, u, r, rating)
             \/ \E u \in Users, id \in Requests : Delete(q, u, id)
      PROVE  SerialInv'
  <2>1. InFlight = {}
    BY <1>1, StartsAlone DEF BadPost, Post, Delete
  <2>2. reviews' = reviews
    BY <1>1 DEF BadPost, Post, Delete
  <2>3. \A p \in Requests \ {q} : pc'[p] = pc[p]
    BY <1>1 DEF BadPost, Post, Delete, Goto
  <2>4. pc'[q] # "save"
    BY <1>1 DEF BadPost, Post, Delete, Goto
  <2>5. InFlight' \subseteq {q}
    BY <2>1, <2>3 DEF InFlight
  <2>6. \A p \in Requests : pc'[p] # "save"
    BY <2>1, <2>3, <2>4 DEF InFlight
  <2> QED
    BY <2>2, <2>5, <2>6 DEF OneReviewPerUserAndRace
<1>2. ASSUME NEW q \in Requests, CheckDuplicate(q) PROVE SerialInv'
  <2>1. InFlight' \subseteq InFlight
    BY <1>2 DEF CheckDuplicate, Goto, InFlight
  <2>2. reviews' = reviews /\ row' = row
    BY <1>2 DEF CheckDuplicate
  <2>3. ASSUME pc'[q] = "save" PROVE ReviewsBy(row[q].user, row[q].race) = {}
    <3>1. Cardinality(ReviewsBy(row[q].user, row[q].race)) = 0
      BY <1>2, <2>3 DEF CheckDuplicate, Goto
    <3>2. IsFiniteSet(ReviewsBy(row[q].user, row[q].race))
      BY FS_Subset DEF ReviewsBy
    <3> QED
      BY <3>1, <3>2, FS_EmptySet
  <2>4. \A p \in Requests \ {q} : pc'[p] = pc[p]
    BY <1>2 DEF CheckDuplicate, Goto
  <2>5. \A p \in Requests : pc'[p] = "save" => ReviewsBy(row[p].user, row[p].race) = {}
    BY <2>3, <2>4
  <2> QED
    BY <2>1, <2>2, <2>5 DEF OneReviewPerUserAndRace, ReviewsBy
<1>3. ASSUME NEW q \in Requests, Save(q) PROVE SerialInv'
  <2>1. InFlight' = InFlight /\ q \in InFlight
    BY <1>3 DEF Save, Goto, InFlight
  <2>2. \A p \in Requests : pc'[p] # "save"
    BY <1>3, <2>1 DEF Save, Goto, InFlight
  <2>3. IsFiniteSet(reviews')
    BY <1>3, FS_AddElement DEF Save
  <2>4. ReviewsBy(row[q].user, row[q].race) = {}
    BY <1>3 DEF Save
  <2>5. OneReviewPerUserAndRace'
    BY <1>3, <2>4 DEF Save, OneReviewPerUserAndRace, ReviewsBy
  <2> QED
    BY <2>1, <2>2, <2>3, <2>5
<1>4. ASSUME NEW q \in Requests, RemoveRow(q) PROVE SerialInv'
  <2>1. InFlight' = InFlight
    BY <1>4 DEF RemoveRow, Goto, InFlight
  <2>2. reviews' \subseteq reviews /\ IsFiniteSet(reviews')
    BY <1>4, FS_Subset DEF RemoveRow
  <2> QED
    BY <1>4, <2>1, <2>2 DEF RemoveRow, Goto, OneReviewPerUserAndRace, ReviewsBy
<1>5. ASSUME NEW q \in Requests, Dispatch(q) \/ LoseEvent(q) \/ Abort(q) PROVE SerialInv'
  <2>1. InFlight' \subseteq InFlight
    BY <1>5 DEF Dispatch, LoseEvent, Abort, Goto, InFlight
  <2>2. reviews' = reviews /\ row' = row
    BY <1>5 DEF Dispatch, LoseEvent, Abort
  <2>3. \A p \in Requests : pc'[p] = "save" => pc[p] = "save"
    BY <1>5 DEF Dispatch, LoseEvent, Abort, Goto
  <2> QED
    BY <2>1, <2>2, <2>3 DEF OneReviewPerUserAndRace, ReviewsBy
<1>6. CASE \/ Receive \/ ReadAverage \/ SaveAverage \/ Acknowledge
           \/ HandlerFails \/ WorkerDies \/ UNCHANGED vars
  <2>1. UNCHANGED <<reviews, pc, row>>
    BY <1>6 DEF Receive, ReadAverage, SaveAverage, Acknowledge, HandlerFails, WorkerDies,
                webVars, vars
  <2> QED
    BY <2>1 DEF OneReviewPerUserAndRace, ReviewsBy, InFlight
<1> QED
  BY <1>1, <1>2, <1>3, <1>4, <1>5, <1>6 DEF Next

(* When requests are served one after another no user ever has two reviews   *)
(* of a race; the run MCReviewsDuplicate shows that two at a time suffice to *)
(* break it.                                                                 *)
THEOREM OneReviewWhenSerial ==
  ASSUME MaxInFlight = 1 PROVE Spec => []OneReviewPerUserAndRace
<1>1. Init => SerialInv
  BY FS_EmptySet DEF Init, SerialInv, OneReviewPerUserAndRace, InFlight
<1>2. SerialInv => OneReviewPerUserAndRace
  BY DEF SerialInv
<1>3. TypeOK /\ SerialInv /\ [Next]_vars => SerialInv'
  BY SerialNext
<1> QED
  BY <1>1, <1>2, <1>3, TypeCorrect, PTL DEF Spec

(* A write as a client sees it: a review added where its author had none of  *)
(* the race, or one removed.                                                 *)
OneWrite ==
  \/ \E rv \in Review : ReviewsBy(rv.user, rv.race) = {} /\ reviews' = reviews \cup {rv}
  \/ \E rv \in reviews : reviews' = reviews \ {rv}

LEMMA OneWriteStep == ASSUME TypeOK, SerialInv, [Next]_vars PROVE [OneWrite]_reviews
<1>1. ASSUME NEW q \in Requests, Save(q) PROVE OneWrite
  <2>1. row[q] \in Review /\ ReviewsBy(row[q].user, row[q].race) = {}
    BY <1>1 DEF Save, TypeOK, SerialInv
  <2> QED
    BY <1>1, <2>1 DEF Save, OneWrite
<1>2. ASSUME NEW q \in Requests, RemoveRow(q) PROVE [OneWrite]_reviews
  <2>1. CASE row[q] \in reviews
    BY <1>2, <2>1 DEF RemoveRow, OneWrite
  <2>2. CASE row[q] \notin reviews
    BY <1>2, <2>2 DEF RemoveRow
  <2> QED BY <2>1, <2>2
<1>3. ASSUME NEW q \in Requests,
             \/ BadPost(q) \/ CheckDuplicate(q) \/ Dispatch(q) \/ LoseEvent(q) \/ Abort(q)
             \/ \E u \in Users, r \in RaceIds, rating \in Ratings : Post(q, u, r, rating)
             \/ \E u \in Users, id \in Requests : Delete(q, u, id)
      PROVE  UNCHANGED reviews
  BY <1>3 DEF BadPost, CheckDuplicate, Dispatch, LoseEvent, Abort, Post, Delete
<1>4. CASE \/ Receive \/ ReadAverage \/ SaveAverage \/ Acknowledge
           \/ HandlerFails \/ WorkerDies \/ UNCHANGED vars
  BY <1>4 DEF Receive, ReadAverage, SaveAverage, Acknowledge, HandlerFails, WorkerDies, vars
<1> QED
  BY <1>1, <1>2, <1>3, <1>4 DEF Next

(* What RaceScreen takes for granted of the server: although the request     *)
(* looks for a second review first and commits later, with requests served   *)
(* one at a time a write is one step that adds no second review of a race    *)
(* (AddReviewHandler, RemoveReviewHandler).                                  *)
THEOREM WritesAreAtomicWhenSerial ==
  ASSUME MaxInFlight = 1 PROVE Spec => [][OneWrite]_reviews
<1>1. Init => SerialInv
  BY FS_EmptySet DEF Init, SerialInv, OneReviewPerUserAndRace, InFlight
<1>2. TypeOK /\ SerialInv /\ [Next]_vars => SerialInv'
  BY SerialNext
<1> QED
  BY <1>1, <1>2, OneWriteStep, TypeCorrect, PTL DEF Spec

-----------------------------------------------------------------------------
(* The details are asked for once at a time, for the race of the URL, and    *)
(* while they are neither they nor the reviews are drawn.                    *)
PageInv ==
  /\ page.calls \subseteq {page.race}
  /\ page.timer => page.race # Null /\ page.calls = {}
  /\ page.calls # {} => page.details = Null /\ ~raceReviews.up

(* At most one GET is under way; reviews and writes that still have a screen *)
(* are of the race whose reviews are mounted.                                *)
Mounts ==
  /\ raceReviews.up => raceReviews.race # Null
  /\ \A c, d \in raceReviews.calls : c = d
  /\ raceReviews.own # Null => user /\ raceReviews.own.race = raceReviews.race
  /\ \A c \in raceReviews.calls : c.own # Null => user /\ c.own.race = raceReviews.race
  /\ \A w \in writes : w.screen => raceReviews.up /\ w.review.race = raceReviews.race

(* The user has one review of a race, and a guest none and no writes.        *)
OneOwn ==
  /\ IsFiniteSet(server)
  /\ \A x, y \in server \cap Mine : x.race = y.race => x = y
  /\ ~user => server \cap Mine = {} /\ writes = {}

(* Nothing happened behind the back of the screen since the last own review  *)
(* was read, and no write that was done still has to be told to the screen.  *)
Undisturbed ==
  raceReviews.up /\ ~surprise /\ \A w \in writes : w.screen => w.at # "done"
(* Then what a GET has read is true, and without one what is drawn.          *)
Settled ==
  /\ raceReviews.calls = {} =>
       /\ raceReviews.own = Own(raceReviews.race)
       /\ raceReviews.list \cap Mine \subseteq {raceReviews.own}
  /\ \A c \in raceReviews.calls :
       /\ c.at # "sent" => c.own = Own(raceReviews.race)
       /\ c.at = "served" => c.list \cap Mine \subseteq {c.own}
Expected == Undisturbed => Settled

ScreenInv == ScreenTypeOK /\ PageInv /\ Mounts /\ OneOwn /\ Expected

-----------------------------------------------------------------------------
(* The user's reviews are neither null nor those of others.                   *)
LEMMA Distinct == Null \notin Mine /\ Others \cap Mine = {}
BY NullAssumption, OthersAssumption, NumbersAssumption DEF Mine

LEMMA PagesOfRows == ASSUME NEW n \in Nat PROVE TotalPages(n) \in Nat
<1>1. PerPage \in Nat \ {0}
  BY NumbersAssumption
<1> QED
  BY <1>1 DEF TotalPages

(* What becomes of the parts of the screen when they are unmounted, fetch    *)
(* again or are drawn again.                                                 *)
LEMMA ForsakenWrites ==
  ASSUME writes \subseteq UnderWay
  PROVE  Forsaken \subseteq UnderWay /\ \A w \in Forsaken : ~w.screen /\ ~w.widget
<1>1. ASSUME NEW w \in UnderWay
      PROVE  /\ [w EXCEPT !.screen = FALSE, !.widget = FALSE] \in UnderWay
             /\ ~[w EXCEPT !.screen = FALSE, !.widget = FALSE].screen
             /\ ~[w EXCEPT !.screen = FALSE, !.widget = FALSE].widget
  BY DEF UnderWay
<1> QED
  BY <1>1 DEF Forsaken

LEMMA BlankTypes ==
  /\ NoPage \in Details /\ NoReviews \in ReviewsState /\ NewForm \in Form /\ NewItem \in Item
BY DEF NoPage, Details, NoReviews, ReviewsState, NewForm, Form, NewItem, Item

LEMMA UnmountTypes ==
  ASSUME writes \subseteq UnderWay, Unmount
  PROVE  /\ raceReviews' \in ReviewsState /\ form' \in Form /\ item' \in Item
         /\ writes' \subseteq UnderWay
BY BlankTypes, ForsakenWrites DEF Unmount

LEMMA FetchingType ==
  ASSUME NEW rv \in ReviewsState
  PROVE  /\ Fetching(rv) \in ReviewsState
         /\ Fetching(rv).calls = {Get(rv.page)}
         /\ Fetching(rv).up = rv.up /\ Fetching(rv).race = rv.race /\ Fetching(rv).own = rv.own
         /\ Fetching(rv).once = rv.once
<1>1. Get(rv.page) \in Call
  BY DEF Get, Call, ReviewsState
<1> QED
  BY <1>1 DEF Fetching, Uncancelled, ReviewsState

LEMMA RedrawWrites ==
  ASSUME NEW rv, NEW f, NEW i, NEW ws \in SUBSET UnderWay, Redraw(rv, f, i, ws)
  PROVE  /\ writes' \subseteq UnderWay
         /\ \A v \in writes' : \E w \in ws :
              v.op = w.op /\ v.review = w.review /\ v.at = w.at /\ v.screen = w.screen
         /\ \A w \in ws : \E v \in writes' : v.at = w.at /\ v.screen = w.screen
<1>1. writes' = ws \/ writes' = {[w EXCEPT !.widget = FALSE] : w \in ws}
  BY DEF Redraw
<1>2. ASSUME NEW w \in UnderWay
      PROVE  /\ [w EXCEPT !.widget = FALSE] \in UnderWay
             /\ [w EXCEPT !.widget = FALSE].op = w.op
             /\ [w EXCEPT !.widget = FALSE].review = w.review
             /\ [w EXCEPT !.widget = FALSE].at = w.at
             /\ [w EXCEPT !.widget = FALSE].screen = w.screen
  BY DEF UnderWay
<1>3. CASE writes' = ws
  BY <1>3
<1>4. CASE writes' = {[w EXCEPT !.widget = FALSE] : w \in ws}
  <2>1. ASSUME NEW v \in writes'
        PROVE  /\ v \in UnderWay
               /\ \E w \in ws : /\ v.op = w.op /\ v.review = w.review
                               /\ v.at = w.at /\ v.screen = w.screen
    <3>1. PICK w \in ws : v = [w EXCEPT !.widget = FALSE]
      BY <1>4
    <3> QED
      BY <1>2, <3>1
  <2>2. ASSUME NEW w \in ws PROVE \E v \in writes' : v.at = w.at /\ v.screen = w.screen
    <3>1. [w EXCEPT !.widget = FALSE] \in writes'
      BY <1>4
    <3> QED
      BY <1>2, <3>1
  <2> QED
    BY <2>1, <2>2
<1> QED
  BY <1>1, <1>3, <1>4

LEMMA RedrawTypes ==
  ASSUME NEW rv \in ReviewsState, NEW f \in Form, NEW i \in Item, NEW ws \in SUBSET UnderWay,
         Redraw(rv, f, i, ws)
  PROVE  /\ raceReviews' = rv /\ form' \in Form /\ item' \in Item
         /\ writes' \subseteq UnderWay
BY BlankTypes, RedrawWrites DEF Redraw

LEMMA WriteTypes ==
  ASSUME writes \subseteq UnderWay, NEW op \in {"add", "delete"}, NEW x \in Mine, Write(op, x)
  PROVE  writes' \subseteq UnderWay
<1>1. [op |-> op, review |-> x, at |-> "sent", screen |-> TRUE, widget |-> TRUE] \in UnderWay
  BY DEF UnderWay
<1> QED
  BY <1>1 DEF Write

(* Own picks the user's only review of a race, now and after the step.        *)
LEMMA OwnCases ==
  ASSUME OneOwn, NEW r
  PROVE  /\ Own(r) # Null => user /\ Own(r) \in server \cap Mine /\ Own(r).race = r
         /\ \A x \in server \cap Mine : x.race = r => Own(r) = x
<1>1. Own(r) # Null => user /\ Own(r) \in server \cap Mine /\ Own(r).race = r
  BY DEF Own, Rows
<1>2. ASSUME NEW x \in server \cap Mine, x.race = r PROVE Own(r) = x
  <2>1. user /\ x \in Rows(r) /\ x \in Mine
    BY <1>2 DEF OneOwn, Rows
  <2>2. Own(r) \in server \cap Mine /\ Own(r).race = r
    BY <2>1 DEF Own, Rows
  <2> QED
    BY <1>2, <2>2 DEF OneOwn
<1> QED
  BY <1>1, <1>2

LEMMA OwnCasesNext ==
  ASSUME OneOwn', NEW r
  PROVE  /\ Own(r)' # Null => user' /\ Own(r)' \in server' \cap Mine /\ Own(r)'.race = r
         /\ \A x \in server' \cap Mine : x.race = r => Own(r)' = x
<1>1. Own(r)' # Null => user' /\ Own(r)' \in server' \cap Mine /\ Own(r)'.race = r
  BY DEF Own, Rows
<1>2. ASSUME NEW x \in server' \cap Mine, x.race = r PROVE Own(r)' = x
  <2>1. user' /\ x \in Rows(r)' /\ x \in Mine
    BY <1>2 DEF OneOwn, Rows
  <2>2. Own(r)' \in server' \cap Mine /\ Own(r)'.race = r
    BY <2>1 DEF Own, Rows
  <2> QED
    BY <1>2, <2>2 DEF OneOwn
<1> QED
  BY <1>1, <1>2

(* Type correctness, one step per action.                                    *)
LEMMA ScreenTypeNext ==
  ASSUME ScreenTypeOK, PageInv, OneOwn, Mounts, ScreenNext PROVE ScreenTypeOK'
<1>c. MaxPosts \in Nat /\ MaxMoves \in Nat
  BY NumbersAssumption
<1>1. ASSUME NEW r \in Races, Visit(r) \/ Jump(r) PROVE ScreenTypeOK'
  <2>1. PageEffect([NoPage EXCEPT !.race = r]) \in Details
    BY BlankTypes DEF PageEffect, Uncancelled, Details
  <2>2. PageEffect([page EXCEPT !.race = r]) \in Details
    BY DEF ScreenTypeOK, PageEffect, Uncancelled, Details
  <2> QED
    BY <1>1, <1>c, <2>1, <2>2 DEF ScreenTypeOK, Visit, Jump, Move
<1>2. CASE Leave
  BY <1>2, BlankTypes, UnmountTypes DEF ScreenTypeOK, Leave
<1>3. ASSUME NEW p \in {raceReviews.page - 1, raceReviews.page + 1}, GoToPage(p)
      PROVE  ScreenTypeOK'
  <2>1. [raceReviews EXCEPT !.page = p] \in ReviewsState
    BY <1>3 DEF ScreenTypeOK, GoToPage, ReviewsState
  <2> QED
    BY <1>3, <1>c, <2>1, FetchingType DEF ScreenTypeOK, GoToPage, Move
<1>4. CASE FillIn
  BY <1>4 DEF ScreenTypeOK, FillIn, Form
<1>5. CASE Submit
  <2>1. raceReviews.race \in Races
    BY <1>5 DEF ScreenTypeOK, Submit, HasForm, Mounts, ReviewsState
  <2>u. /\ posts < MaxPosts /\ posts' = posts + 1
        /\ UNCHANGED <<user, page, raceReviews, item, server, moves, surprise>>
    BY <1>5 DEF Submit
  <2>2. posts' \in 1..MaxPosts
    BY <2>u, <1>c DEF ScreenTypeOK
  <2>3. [race |-> raceReviews.race, by |-> "me", id |-> posts'] \in Mine
    BY <2>1, <2>2 DEF Mine
  <2>4. writes' \subseteq UnderWay
    BY <1>5, <2>3, WriteTypes DEF ScreenTypeOK, Submit
  <2>5. form' \in Form
    BY <1>5 DEF ScreenTypeOK, Submit, Form
  <2> QED
    BY <2>u, <2>2, <2>4, <2>5 DEF ScreenTypeOK
<1>6. CASE ToggleConfirm
  BY <1>6 DEF ScreenTypeOK, ToggleConfirm, Item
<1>7. CASE ConfirmDelete
  <2>1. raceReviews.own \in Mine
    BY <1>7 DEF ScreenTypeOK, ConfirmDelete, HasItem, ReviewsState
  <2>2. writes' \subseteq UnderWay
    BY <1>7, <2>1, WriteTypes DEF ScreenTypeOK, ConfirmDelete
  <2> QED
    BY <1>7, <2>2 DEF ScreenTypeOK, ConfirmDelete, Item
<1>8. CASE Elsewhere
  <2>1. server' \subseteq Reviewed
    <3>1. ASSUME NEW r \in Races, posts < MaxPosts
          PROVE  [race |-> r, by |-> "me", id |-> posts + 1] \in Mine
      BY <1>c, <3>1 DEF ScreenTypeOK, Mine
    <3> QED
      BY <1>8, <3>1 DEF ScreenTypeOK, Elsewhere, Reviewed
  <2>2. posts' \in 0..MaxPosts
    <3>1. CASE posts < MaxPosts
      BY <1>8, <1>c, <3>1 DEF ScreenTypeOK, Elsewhere
    <3>2. CASE ~(posts < MaxPosts)
      BY <1>8, <1>c, <3>2, Distinct DEF ScreenTypeOK, Elsewhere
    <3> QED
      BY <3>1, <3>2
  <2> QED
    BY <1>8, <1>c, <2>1, <2>2 DEF ScreenTypeOK, Elsewhere, Move
<1>9. CASE DetailsTimer
  <2>1. page' \in Details
    BY <1>9 DEF ScreenTypeOK, DetailsTimer, Details, PageInv
  <2> QED
    BY <1>9, <2>1, UnmountTypes DEF ScreenTypeOK, DetailsTimer
<1>10. ASSUME NEW r \in page.calls, DetailsAnswer(r) \/ DetailsFail(r) PROVE ScreenTypeOK'
  <2>1. r \in Races
    BY DEF ScreenTypeOK, Details
  <2>2. page' \in Details
    BY <1>10, <2>1 DEF ScreenTypeOK, DetailsAnswer, DetailsFail, Details
  <2>3. Mounted(r) \in ReviewsState
    <3>1. [NoReviews EXCEPT !.up = TRUE, !.race = r] \in ReviewsState
      BY <2>1, BlankTypes DEF ReviewsState
    <3> QED
      BY <3>1, FetchingType DEF Mounted
  <2> QED
    BY <1>10, <2>2, <2>3 DEF ScreenTypeOK, DetailsAnswer, DetailsFail
<1>11. ASSUME NEW c \in raceReviews.calls, ServeOwn(c) PROVE ScreenTypeOK'
  <2>1. Own(raceReviews.race) \in Mine \cup {Null}
    BY OwnCases
  <2>2. [c EXCEPT !.at = "own read", !.own = Own(raceReviews.race)] \in Call
    BY <2>1 DEF ScreenTypeOK, ReviewsState, Call
  <2>3. raceReviews' \in ReviewsState
    BY <1>11, <2>2 DEF ScreenTypeOK, ServeOwn, Progress, ReviewsState
  <2> QED
    BY <1>11, <2>3 DEF ScreenTypeOK, ServeOwn
<1>12. ASSUME NEW c \in raceReviews.calls, ServeList(c) PROVE ScreenTypeOK'
  <2>1. PICK n \in {Cardinality(Rows(raceReviews.race))}, S \in SUBSET Rows(raceReviews.race) :
          Progress(c, [c EXCEPT !.at = "served", !.list = S, !.count = n])
    BY <1>12 DEF ServeList
  <2>2. n \in Nat /\ S \subseteq Reviewed
    <3>1. Rows(raceReviews.race) \subseteq server
      BY DEF Rows
    <3> QED
      BY <2>1, <3>1, FS_Subset, FS_CardinalityType DEF OneOwn, ScreenTypeOK
  <2>3. [c EXCEPT !.at = "served", !.list = S, !.count = n] \in Call
    <3>1. c \in Call /\ S \in SUBSET Reviewed
      BY <2>2 DEF ScreenTypeOK, ReviewsState
    <3> QED
      BY <2>2, <3>1 DEF Call
  <2>4. raceReviews' \in ReviewsState
    BY <2>1, <2>3 DEF ScreenTypeOK, Progress, ReviewsState
  <2> QED
    BY <1>12, <2>4 DEF ScreenTypeOK, ServeList
<1>13. ASSUME NEW c \in raceReviews.calls, ReviewsAnswer(c) PROVE ScreenTypeOK'
  <2>1. TotalPages(c.count) \in Nat
    BY PagesOfRows DEF ScreenTypeOK, ReviewsState, Call
  <2>2. [raceReviews EXCEPT !.calls = @ \ {c}, !.list = c.list, !.own = c.own,
                        !.count = c.count, !.total = TotalPages(c.count),
                        !.once = TRUE, !.loading = FALSE] \in ReviewsState
    BY <2>1 DEF ScreenTypeOK, ReviewsState, Call
  <2> QED
    BY <1>13, <2>2, RedrawTypes DEF ScreenTypeOK, ReviewsAnswer
<1>14. ASSUME NEW c \in raceReviews.calls, ReviewsFail(c) PROVE ScreenTypeOK'
  <2>1. [raceReviews EXCEPT !.calls = @ \ {c}, !.once = TRUE, !.loading = FALSE]
          \in ReviewsState
    BY DEF ScreenTypeOK, ReviewsState
  <2> QED
    BY <1>14, <2>1, RedrawTypes DEF ScreenTypeOK, ReviewsFail
<1>15. ASSUME NEW w \in writes, ServeWrite(w) PROVE ScreenTypeOK'
  <2>1. w \in UnderWay /\ w.review \in Reviewed
    BY DEF ScreenTypeOK, UnderWay, Reviewed
  <2>2. writes' \subseteq UnderWay
    BY <1>15, <2>1 DEF ScreenTypeOK, ServeWrite, UnderWay
  <2> QED
    BY <1>15, <2>1, <2>2 DEF ScreenTypeOK, ServeWrite, UnderWay
<1>16. ASSUME NEW w \in writes, WriteSucceeds(w) PROVE ScreenTypeOK'
  <2>1. w \in UnderWay /\ writes \ {w} \in SUBSET UnderWay
    BY DEF ScreenTypeOK
  <2>2. Added(raceReviews) \in ReviewsState
    <3>1. [raceReviews EXCEPT !.page = 1] \in ReviewsState
      BY DEF ScreenTypeOK, ReviewsState
    <3> QED
      BY <3>1, FetchingType DEF Added
  <2>3. Deleted(raceReviews, w.review) \in ReviewsState
    <3>1. AtLeast(0, raceReviews.count - 1) \in Nat
      BY DEF ScreenTypeOK, ReviewsState, AtLeast
    <3>2. [raceReviews EXCEPT !.own = Null, !.count = AtLeast(0, @ - 1),
                              !.list = @ \ {w.review}] \in ReviewsState
      BY <3>1 DEF ScreenTypeOK, ReviewsState
    <3> QED
      BY <3>2, FetchingType DEF Deleted
  <2>4. [form EXCEPT !.submitted = TRUE, !.sending = FALSE] \in Form
    BY DEF ScreenTypeOK, Form
  <2>5. CASE w.op = "add"
    BY <1>16, <2>1, <2>2, <2>4, <2>5, RedrawTypes DEF ScreenTypeOK, WriteSucceeds
  <2>6. CASE w.op # "add"
    BY <1>16, <2>1, <2>3, <2>6, RedrawTypes DEF ScreenTypeOK, WriteSucceeds
  <2> QED
    BY <2>5, <2>6
<1>17. ASSUME NEW w \in writes, WriteFails(w) PROVE ScreenTypeOK'
  <2>1. writes' \subseteq UnderWay
    BY <1>17 DEF ScreenTypeOK, WriteFails, UnderWay
  <2>2. form' \in Form /\ item' \in Item
    BY <1>17 DEF ScreenTypeOK, WriteFails, Form, Item
  <2>3. surprise' \in BOOLEAN
    BY <1>17 DEF ScreenTypeOK, WriteFails
  <2> QED
    BY <1>17, <2>1, <2>2, <2>3 DEF ScreenTypeOK, WriteFails
<1> QED
  BY <1>1, <1>2, <1>3, <1>4, <1>5, <1>6, <1>7, <1>8, <1>9, <1>10, <1>11, <1>12, <1>13,
     <1>14, <1>15, <1>16, <1>17
     DEF ScreenNext, User, DetailsEnd, GetServed, GetEnd, WriteServed, WriteEnd

(* A GET that was just sent has read nothing; the rest of the reviews stays.  *)
LEMMA Fetched ==
  ASSUME NEW r \in Races, raceReviews \in ReviewsState
  PROVE  /\ Mounted(r).up /\ Mounted(r).race = r /\ Mounted(r).own = Null
         /\ Mounted(r).calls = {Get(1)}
         /\ Get(1).at = "sent" /\ Get(1).own = Null
<1>1. [NoReviews EXCEPT !.up = TRUE, !.race = r] \in ReviewsState
  BY BlankTypes DEF ReviewsState
<1> QED
  BY <1>1, FetchingType DEF Mounted, NoReviews, Get

LEMMA Refetched ==
  ASSUME raceReviews \in ReviewsState, NEW q \in Nat \ {0}
  PROVE  LET rv == Fetching([raceReviews EXCEPT !.page = q])
         IN  /\ rv.up = raceReviews.up /\ rv.race = raceReviews.race /\ rv.own = raceReviews.own
             /\ rv.once = raceReviews.once /\ rv \in ReviewsState
             /\ \E n \in Nat : rv.calls = {Get(n)}
<1>1. /\ [raceReviews EXCEPT !.page = q] \in ReviewsState
      /\ [raceReviews EXCEPT !.page = q].up = raceReviews.up
      /\ [raceReviews EXCEPT !.page = q].race = raceReviews.race
      /\ [raceReviews EXCEPT !.page = q].own = raceReviews.own
      /\ [raceReviews EXCEPT !.page = q].once = raceReviews.once
      /\ [raceReviews EXCEPT !.page = q].page \in Nat
  BY DEF ReviewsState
<1> QED
  BY <1>1, FetchingType

LEMMA AfterWrite ==
  ASSUME raceReviews \in ReviewsState, NEW w, WriteSucceeds(w)
  PROVE  /\ raceReviews'.up = raceReviews.up /\ raceReviews'.race = raceReviews.race
         /\ raceReviews' \in ReviewsState /\ raceReviews'.once = raceReviews.once
         /\ raceReviews'.own = IF w.op = "add" THEN raceReviews.own ELSE Null
         /\ \E n \in Nat : raceReviews'.calls = {Get(n)}
<1>1. IF w.op = "add" THEN raceReviews' = Added(raceReviews)
      ELSE raceReviews' = Deleted(raceReviews, w.review)
  BY DEF WriteSucceeds, Redraw
<1>2. CASE w.op = "add"
  BY <1>1, <1>2, Refetched, 1 \in Nat \ {0} DEF Added
<1>3. CASE w.op # "add"
  <2> DEFINE d == [raceReviews EXCEPT !.own = Null, !.count = AtLeast(0, @ - 1),
                                  !.list = @ \ {w.review}]
  <2>1. AtLeast(0, raceReviews.count - 1) \in Nat
    BY DEF ReviewsState, AtLeast
  <2>2. /\ d \in ReviewsState /\ d.own = Null /\ d.once = raceReviews.once
        /\ d.up = raceReviews.up /\ d.race = raceReviews.race /\ d.page \in Nat
    BY <2>1 DEF ReviewsState
  <2>3. raceReviews' = Fetching(d)
    BY <1>1, <1>3 DEF Deleted
  <2> HIDE DEF d
  <2> QED
    BY <1>3, <2>2, <2>3, FetchingType
<1> QED
  BY <1>2, <1>3

(* The details of the race: their timer, requests and clean-ups.              *)
LEMMA PageInvNext == ASSUME ScreenTypeOK, PageInv, Mounts, ScreenNext PROVE PageInv'
<1>1. ASSUME NEW r \in Races, Visit(r) \/ Jump(r) PROVE PageInv'
  BY <1>1, NullAssumption, BlankTypes
     DEF ScreenTypeOK, PageInv, Visit, Jump, PageEffect, Uncancelled, Details
<1>2. CASE Leave
  BY <1>2 DEF PageInv, Leave, NoPage
<1>3. CASE DetailsTimer
  BY <1>3 DEF ScreenTypeOK, PageInv, DetailsTimer, Unmount, NoReviews, Details
<1>4. ASSUME NEW r \in page.calls, DetailsAnswer(r) \/ DetailsFail(r) PROVE PageInv'
  BY <1>4 DEF ScreenTypeOK, PageInv, DetailsAnswer, DetailsFail, Details
<1>5. ASSUME UNCHANGED page, raceReviews'.up = raceReviews.up PROVE PageInv'
  BY <1>5 DEF PageInv
<1>6. ASSUME NEW p \in {raceReviews.page - 1, raceReviews.page + 1}, GoToPage(p) PROVE PageInv'
  <2>1. p \in Nat \ {0}
    BY <1>6 DEF ScreenTypeOK, GoToPage, ReviewsState
  <2> QED
    BY <1>5, <1>6, <2>1, Refetched DEF ScreenTypeOK, GoToPage
<1>7. ASSUME NEW c \in raceReviews.calls, ServeOwn(c) \/ ServeList(c) PROVE PageInv'
  BY <1>5, <1>7 DEF ScreenTypeOK, ServeOwn, ServeList, Progress, ReviewsState
<1>8. ASSUME NEW c \in raceReviews.calls, ReviewsAnswer(c) \/ ReviewsFail(c) PROVE PageInv'
  BY <1>5, <1>8 DEF ScreenTypeOK, ReviewsAnswer, ReviewsFail, Redraw, ReviewsState
<1>9. ASSUME NEW w \in writes, WriteSucceeds(w) PROVE PageInv'
  BY <1>5, <1>9, AfterWrite DEF ScreenTypeOK, WriteSucceeds
<1>10. ASSUME FillIn \/ Submit \/ ToggleConfirm \/ ConfirmDelete \/ Elsewhere
              \/ (\E w \in writes : ServeWrite(w) \/ WriteFails(w))
       PROVE  PageInv'
  BY <1>5, <1>10
     DEF FillIn, Submit, ToggleConfirm, ConfirmDelete, Elsewhere, ServeWrite, WriteFails
<1> QED
  BY <1>1, <1>2, <1>3, <1>4, <1>6, <1>7, <1>8, <1>9, <1>10
     DEF ScreenNext, User, DetailsEnd, GetServed, GetEnd, WriteServed, WriteEnd

(* GETs and writes belong to the reviews that are mounted.                    *)
LEMMA MountsNext == ASSUME ScreenTypeOK, PageInv, Mounts, OneOwn, ScreenNext PROVE Mounts'
<1>1. ASSUME UNCHANGED <<user, raceReviews, writes>> PROVE Mounts'
  BY <1>1 DEF Mounts
<1>2. ASSUME NEW r \in Races, Visit(r) \/ Jump(r) PROVE Mounts'
  BY <1>1, <1>2 DEF Visit, Jump
<1>3. CASE Leave \/ DetailsTimer
  BY <1>3, ForsakenWrites DEF ScreenTypeOK, Leave, DetailsTimer, Unmount, NoReviews, Mounts
<1>4. ASSUME NEW p \in {raceReviews.page - 1, raceReviews.page + 1}, GoToPage(p) PROVE Mounts'
  <2>1. p \in Nat \ {0}
    BY <1>4 DEF ScreenTypeOK, GoToPage, ReviewsState
  <2>2. \A q \in Nat : Get(q).own = Null
    BY DEF Get
  <2> QED
    BY <1>4, <2>1, <2>2, Refetched DEF ScreenTypeOK, GoToPage, Mounts
<1>5. CASE FillIn \/ ToggleConfirm \/ Elsewhere
  BY <1>1, <1>5 DEF FillIn, ToggleConfirm, Elsewhere
<1>6. CASE Submit
  <2> DEFINE x == [race |-> raceReviews.race, by |-> "me", id |-> posts']
             n == [op |-> "add", review |-> x, at |-> "sent", screen |-> TRUE, widget |-> TRUE]
  <2>1. raceReviews.up /\ UNCHANGED <<user, raceReviews>> /\ writes' = writes \cup {n}
    BY <1>6 DEF Submit, HasForm, Write
  <2>2. n.review.race = raceReviews.race
    OBVIOUS
  <2> HIDE DEF n
  <2> QED
    BY <2>1, <2>2 DEF Mounts
<1>7. CASE ConfirmDelete
  BY <1>7 DEF ConfirmDelete, HasItem, Write, Mounts
<1>8. ASSUME NEW r \in page.calls, DetailsAnswer(r) PROVE Mounts'
  <2>1. r \in Races /\ ~raceReviews.up
    BY DEF ScreenTypeOK, Details, PageInv
  <2>2. raceReviews' = Mounted(r) /\ writes' = writes
    BY <1>8, <2>1 DEF DetailsAnswer
  <2> QED
    BY <2>1, <2>2, Fetched, NullAssumption DEF ScreenTypeOK, Mounts
<1>9. ASSUME NEW r \in page.calls, DetailsFail(r) PROVE Mounts'
  BY <1>1, <1>9 DEF DetailsFail
<1>10. ASSUME NEW c \in raceReviews.calls, NEW n, Progress(c, n), UNCHANGED <<user, writes>>,
              n.own # Null => user /\ n.own.race = raceReviews.race
       PROVE  Mounts'
  BY <1>10 DEF ScreenTypeOK, Progress, ReviewsState, Mounts
<1>11. ASSUME NEW c \in raceReviews.calls, ServeOwn(c) PROVE Mounts'
  <2>1. /\ [c EXCEPT !.at = "own read", !.own = Own(raceReviews.race)] \in Call
        /\ [c EXCEPT !.at = "own read", !.own = Own(raceReviews.race)].own
             = Own(raceReviews.race)
    BY OwnCases DEF ScreenTypeOK, ReviewsState, Call
  <2> QED
    BY <1>10, <1>11, <2>1, OwnCases DEF ServeOwn
<1>12. ASSUME NEW c \in raceReviews.calls, ServeList(c) PROVE Mounts'
  <2>1. PICK n, S : Progress(c, [c EXCEPT !.at = "served", !.list = S, !.count = n])
    BY <1>12 DEF ServeList
  <2>2. c \in Call
    BY DEF ScreenTypeOK, ReviewsState
  <2>3. [c EXCEPT !.at = "served", !.list = S, !.count = n].own = c.own
    BY <2>2 DEF Call
  <2> QED
    BY <1>10, <1>12, <2>1, <2>3 DEF ServeList, Mounts
<1>13. ASSUME NEW c \in raceReviews.calls, ReviewsAnswer(c) \/ ReviewsFail(c) PROVE Mounts'
  <2>1. /\ raceReviews'.up = raceReviews.up /\ raceReviews'.race = raceReviews.race
        /\ raceReviews'.own \in {raceReviews.own, c.own} /\ raceReviews'.calls = {}
    BY <1>13 DEF ScreenTypeOK, ReviewsAnswer, ReviewsFail, Redraw, ReviewsState, Mounts
  <2>2. \A v \in writes' : \E w \in writes : v.review = w.review /\ v.screen = w.screen
    <3>1. ASSUME NEW rv, Redraw(rv, form, item, writes)
          PROVE  \A v \in writes' : \E w \in writes : v.review = w.review /\ v.screen = w.screen
      BY <3>1, RedrawWrites DEF ScreenTypeOK
    <3> QED
      BY <1>13, <3>1 DEF ReviewsAnswer, ReviewsFail
  <2> QED
    BY <1>13, <2>1, <2>2 DEF Mounts, ReviewsAnswer, ReviewsFail
<1>14. ASSUME NEW w \in writes, ServeWrite(w) PROVE Mounts'
  BY <1>14 DEF ScreenTypeOK, UnderWay, ServeWrite, Mounts
<1>15. ASSUME NEW w \in writes, WriteFails(w) PROVE Mounts'
  BY <1>15 DEF ScreenTypeOK, UnderWay, WriteFails, Mounts
<1>16. ASSUME NEW w \in writes, WriteSucceeds(w) PROVE Mounts'
  <2>2. \A v \in writes' : \E x \in writes : v.review = x.review /\ v.screen = x.screen
    <3>1. ASSUME NEW rv, NEW f, Redraw(rv, f, item, writes \ {w})
          PROVE  \A v \in writes' : \E x \in writes : v.review = x.review /\ v.screen = x.screen
      BY <3>1, RedrawWrites, writes \ {w} \subseteq UnderWay DEF ScreenTypeOK
    <3> QED
      BY <1>16, <3>1 DEF WriteSucceeds
  <2>3. /\ raceReviews'.up = raceReviews.up /\ raceReviews'.race = raceReviews.race
        /\ raceReviews'.own \in {raceReviews.own, Null}
        /\ \E q \in Nat : raceReviews'.calls = {Get(q)}
        /\ user' = user
    BY <1>16, AfterWrite DEF ScreenTypeOK, WriteSucceeds
  <2>4. \A q \in Nat : Get(q).own = Null
    BY DEF Get
  <2> QED
    BY <2>2, <2>3, <2>4 DEF Mounts
<1> QED
  BY <1>2, <1>3, <1>4, <1>5, <1>6, <1>7, <1>8, <1>9, <1>11, <1>12, <1>13, <1>14, <1>15, <1>16
     DEF ScreenNext, User, DetailsEnd, GetServed, GetEnd, WriteServed, WriteEnd

(* The server refuses a second review of a race, of this tab or another.      *)
LEMMA OneOwnNext == ASSUME ScreenTypeOK, Mounts, OneOwn, ScreenNext PROVE OneOwn'
<1>1. ASSUME UNCHANGED <<user, server>>, ~user => writes' = {} PROVE OneOwn'
  BY <1>1 DEF OneOwn
<1>2. ASSUME NEW r \in Races, Visit(r) \/ Jump(r) PROVE OneOwn'
  BY <1>1, <1>2 DEF Visit, Jump, OneOwn
<1>3. CASE Leave \/ DetailsTimer
  BY <1>1, <1>3 DEF Leave, DetailsTimer, Unmount, Forsaken, OneOwn
<1>4. CASE (\E p \in {raceReviews.page - 1, raceReviews.page + 1} : GoToPage(p))
           \/ FillIn \/ ToggleConfirm
  BY <1>1, <1>4 DEF FillIn, ToggleConfirm, GoToPage, OneOwn
<1>5. CASE Submit
  BY <1>1, <1>5 DEF Submit, FormDraws, OneOwn
<1>6. CASE ConfirmDelete
  BY <1>1, <1>6 DEF ConfirmDelete, HasItem, OneOwn, Mounts
<1>7. CASE Elsewhere
  <2>1. CASE \E x \in Others : server' = IF x \in server THEN server \ {x} ELSE server \cup {x}
    BY <1>7, <2>1, Distinct, FS_AddElement, FS_RemoveElement DEF Elsewhere, OneOwn
  <2>2. CASE \E r \in Races : \E x \in {Own(r)} \ {Null} : server' = server \ {x}
    BY <1>7, <2>2, FS_RemoveElement DEF Elsewhere, OneOwn
  <2>3. ASSUME NEW r \in Races, user, Own(r) = Null,
               server' = server \cup {[race |-> r, by |-> "me", id |-> posts + 1]}
        PROVE  OneOwn'
    <3>1. \A x \in server \cap Mine : x.race # r
      BY <2>3, OwnCases, Distinct
    <3> DEFINE n == [race |-> r, by |-> "me", id |-> posts + 1]
    <3>2. n.race = r /\ server' = server \cup {n} /\ UNCHANGED <<user, writes>>
      BY <1>7, <2>3 DEF Elsewhere
    <3> HIDE DEF n
    <3>3. IsFiniteSet(server')
      BY <3>2, FS_AddElement DEF OneOwn
    <3> QED
      BY <2>3, <3>1, <3>2, <3>3 DEF OneOwn
  <2> QED
    BY <1>7, <2>1, <2>2, <2>3 DEF Elsewhere
<1>8. CASE DetailsEnd \/ GetServed
  BY <1>1, <1>8
     DEF DetailsEnd, DetailsAnswer, DetailsFail, GetServed, ServeOwn, ServeList, OneOwn
<1>9. CASE GetEnd \/ WriteEnd
  BY <1>1, <1>9
     DEF GetEnd, ReviewsAnswer, ReviewsFail, Redraw, WriteEnd, WriteSucceeds, WriteFails, OneOwn
<1>10. ASSUME NEW w \in writes, ServeWrite(w) PROVE OneOwn'
  <2>1. user /\ user' /\ w.review \in Mine
    BY <1>10 DEF ScreenTypeOK, UnderWay, OneOwn, ServeWrite
  <2>2. CASE Takes(w) /\ w.op = "add"
    <3>1. \A x \in server \cap Mine : x.race # w.review.race
      BY <2>2, OwnCases, Distinct DEF Takes
    <3> QED
      BY <1>10, <2>1, <2>2, <3>1, FS_AddElement DEF ServeWrite, OneOwn
  <2>3. CASE ~(Takes(w) /\ w.op = "add")
    BY <1>10, <2>1, <2>3, FS_RemoveElement DEF ServeWrite, OneOwn
  <2> QED
    BY <2>2, <2>3
<1> QED
  BY <1>2, <1>3, <1>4, <1>5, <1>6, <1>7, <1>8, <1>9, <1>10
     DEF ScreenNext, User, DetailsEnd, GetServed, GetEnd, WriteServed, WriteEnd

(* The reviews of others do not change the user's own one.                    *)
LEMMA OwnStays ==
  ASSUME OneOwn, OneOwn', user' = user, server' \cap Mine = server \cap Mine, NEW r
  PROVE  Own(r)' = Own(r)
<1>1. CASE \E x \in server \cap Mine : x.race = r
  BY <1>1, OwnCases, OwnCasesNext
<1>2. CASE ~\E x \in server \cap Mine : x.race = r
  BY <1>2, OwnCases, OwnCasesNext
<1> QED
  BY <1>1, <1>2

LEMMA SentSettles ==
  ASSUME NEW n, raceReviews'.calls = {Get(n)} PROVE Settled'
<1>1. Get(n).at = "sent"
  BY DEF Get
<1> QED
  BY <1>1 DEF Settled

LEMMA SettledStays ==
  ASSUME Settled, OneOwn, OneOwn', UNCHANGED <<user, raceReviews>>,
         server' \cap Mine = server \cap Mine
  PROVE  Settled'
BY OwnStays DEF Settled

(* A GET that was sent owes nothing yet; what it reads of the user's reviews  *)
(* is true until a write is done, which leads to a new GET or to a surprise.  *)
LEMMA ExpectedNext ==
  ASSUME ScreenTypeOK, PageInv, Mounts, OneOwn, OneOwn', Expected, ScreenNext PROVE Expected'
<1>1. ASSUME UNCHANGED <<user, raceReviews>>, Undisturbed' => Undisturbed,
             Undisturbed' => server' \cap Mine = server \cap Mine
      PROVE  Expected'
  BY <1>1, SettledStays DEF Expected
<1>2. ASSUME NEW r \in Races, Visit(r) \/ Jump(r) PROVE Expected'
  BY <1>1, <1>2 DEF Visit, Jump, Undisturbed
<1>3. CASE Leave \/ DetailsTimer
  BY <1>3 DEF Leave, DetailsTimer, Unmount, NoReviews, Expected, Undisturbed
<1>4. ASSUME NEW p \in {raceReviews.page - 1, raceReviews.page + 1}, GoToPage(p) PROVE Expected'
  <2>1. p \in Nat \ {0}
    BY <1>4 DEF ScreenTypeOK, GoToPage, ReviewsState
  <2> QED
    BY <1>4, <2>1, Refetched, SentSettles DEF ScreenTypeOK, GoToPage, Expected
<1>5. CASE FillIn \/ ToggleConfirm
  BY <1>1, <1>5 DEF FillIn, ToggleConfirm, Undisturbed
<1>6. CASE Submit \/ ConfirmDelete
  BY <1>1, <1>6 DEF Submit, ConfirmDelete, Write, Undisturbed
<1>7. CASE Elsewhere
  BY <1>1, <1>7 DEF ScreenTypeOK, Elsewhere, Undisturbed
<1>8. ASSUME NEW r \in page.calls, DetailsAnswer(r) PROVE Expected'
  <2>1. r \in Races /\ ~raceReviews.up
    BY DEF ScreenTypeOK, Details, PageInv
  <2>2. raceReviews' = Mounted(r)
    BY <1>8, <2>1 DEF DetailsAnswer
  <2> QED
    BY <2>1, <2>2, Fetched, SentSettles DEF ScreenTypeOK, Expected
<1>9. ASSUME NEW r \in page.calls, DetailsFail(r) PROVE Expected'
  BY <1>1, <1>9 DEF DetailsFail, Undisturbed
<1>10. ASSUME NEW c \in raceReviews.calls, ServeOwn(c) PROVE Expected'
  <2> DEFINE n == [c EXCEPT !.at = "own read", !.own = Own(raceReviews.race)]
  <2>1. n.at = "own read" /\ n.own = Own(raceReviews.race)
    BY DEF ScreenTypeOK, ReviewsState, Call
  <2>2. raceReviews'.calls = {n} /\ raceReviews'.race = raceReviews.race
    BY <1>10 DEF ServeOwn, Progress, ScreenTypeOK, ReviewsState, Mounts
  <2>3. Own(raceReviews.race)' = Own(raceReviews.race)
    BY <1>10, <2>2, OwnStays DEF ServeOwn
  <2> HIDE DEF n
  <2> QED
    BY <2>1, <2>2, <2>3 DEF Expected, Settled
<1>11. ASSUME NEW c \in raceReviews.calls, ServeList(c) PROVE Expected'
  <2>1. PICK k \in {Cardinality(Rows(raceReviews.race))}, S \in SUBSET Rows(raceReviews.race) :
          Progress(c, [c EXCEPT !.at = "served", !.list = S, !.count = k])
    BY <1>11 DEF ServeList
  <2> DEFINE n == [c EXCEPT !.at = "served", !.list = S, !.count = k]
  <2>2. n.own = c.own /\ n.list = S
    BY DEF ScreenTypeOK, ReviewsState, Call
  <2>3. /\ raceReviews'.calls = {n} /\ raceReviews'.race = raceReviews.race
        /\ raceReviews'.up = raceReviews.up
    BY <2>1 DEF Progress, ScreenTypeOK, ReviewsState, Mounts
  <2>4. Own(raceReviews.race)' = Own(raceReviews.race)
    BY <1>11, <2>3, OwnStays DEF ServeList
  <2>5. S \cap Mine \subseteq {Own(raceReviews.race)}
    BY <2>1, OwnCases DEF Rows
  <2>6. Undisturbed' => c.own = Own(raceReviews.race)
    BY <1>11, <2>3 DEF ServeList, Expected, Undisturbed, Settled
  <2> HIDE DEF n
  <2> QED
    BY <2>2, <2>3, <2>4, <2>5, <2>6 DEF Expected, Settled
<1>12. ASSUME NEW c \in raceReviews.calls, ReviewsAnswer(c) PROVE Expected'
  <2>1. /\ raceReviews'.own = c.own /\ raceReviews'.list = c.list
        /\ raceReviews'.race = raceReviews.race /\ raceReviews'.up = raceReviews.up
        /\ raceReviews'.calls = {}
    BY <1>12 DEF ReviewsAnswer, Redraw, ScreenTypeOK, ReviewsState, Mounts
  <2>2. Own(raceReviews.race)' = Own(raceReviews.race)
    BY <1>12, <2>1 DEF ReviewsAnswer, Own, Rows
  <2>3. \A w \in writes : \E v \in writes' : v.at = w.at /\ v.screen = w.screen
    BY <1>12, RedrawWrites DEF ReviewsAnswer, ScreenTypeOK
  <2>4. Undisturbed' => Undisturbed
    BY <1>12, <2>1, <2>3 DEF ReviewsAnswer, Undisturbed
  <2> QED
    BY <1>12, <2>1, <2>2, <2>4 DEF ReviewsAnswer, Expected, Settled
<1>13. ASSUME NEW c \in raceReviews.calls, ReviewsFail(c) PROVE Expected'
  BY <1>13 DEF ReviewsFail, Expected, Undisturbed
<1>14. ASSUME NEW w \in writes, ServeWrite(w) PROVE Expected'
  <2> DEFINE n == [w EXCEPT !.at = IF Takes(w) THEN "done" ELSE "refused"]
  <2>1. /\ n.screen = w.screen /\ n.at = IF Takes(w) THEN "done" ELSE "refused"
    BY DEF ScreenTypeOK, UnderWay
  <2>2. writes' = (writes \ {w}) \cup {x \in {n} : w.screen}
    BY <1>14 DEF ServeWrite
  <2> HIDE DEF n
  <2>3. CASE Takes(w)
    BY <1>14, <2>1, <2>2, <2>3 DEF ScreenTypeOK, UnderWay, ServeWrite, Expected, Undisturbed
  <2>4. CASE ~Takes(w)
    <3>1. Undisturbed' => Undisturbed
      BY <1>14, <2>1, <2>2, <2>4 DEF ServeWrite, Undisturbed
    <3> QED
      BY <1>1, <1>14, <2>4, <3>1 DEF ServeWrite
  <2> QED
    BY <2>3, <2>4
<1>15. ASSUME NEW w \in writes, WriteSucceeds(w) PROVE Expected'
  BY <1>15, AfterWrite, SentSettles DEF ScreenTypeOK, Expected
<1>16. ASSUME NEW w \in writes, WriteFails(w) PROVE Expected'
  BY <1>1, <1>16 DEF WriteFails, Undisturbed
<1> QED
  BY <1>2, <1>3, <1>4, <1>5, <1>6, <1>7, <1>8, <1>9, <1>10, <1>11, <1>12, <1>13, <1>14,
     <1>15, <1>16
     DEF ScreenNext, User, DetailsEnd, GetServed, GetEnd, WriteServed, WriteEnd

LEMMA InitScreenInv == ScreenInit => ScreenInv
<1> SUFFICES ASSUME ScreenInit PROVE ScreenInv
  OBVIOUS
<1>1. PICK r \in Races : page = PageEffect([NoPage EXCEPT !.race = r])
  BY DEF ScreenInit
<1>2. /\ page \in Details /\ page.race = r /\ page.calls = {}
  BY <1>1 DEF PageEffect, Uncancelled, NoPage, Details
<1>3. ScreenTypeOK
  <2>1. 0 \in 0..MaxPosts /\ 0 \in 0..MaxMoves
    BY NumbersAssumption
  <2> QED
    BY <1>2, <2>1, BlankTypes DEF ScreenInit, ScreenTypeOK, Reviewed, UnderWay
<1>4. PageInv
  BY <1>2, NullAssumption DEF PageInv
<1>5. Mounts
  BY DEF ScreenInit, Mounts, NoReviews
<1>6. OneOwn
  BY Distinct, OthersAssumption, FS_Subset DEF ScreenInit, OneOwn
<1>7. Expected
  BY DEF ScreenInit, Expected, Undisturbed, NoReviews
<1> QED
  BY <1>3, <1>4, <1>5, <1>6, <1>7 DEF ScreenInv

LEMMA ScreenInvNext == ScreenInv /\ [ScreenNext]_screenVars => ScreenInv'
<1> SUFFICES ASSUME ScreenInv, [ScreenNext]_screenVars PROVE ScreenInv'
  OBVIOUS
<1>1. CASE ScreenNext
  BY <1>1, ScreenTypeNext, PageInvNext, MountsNext, OneOwnNext, ExpectedNext DEF ScreenInv
<1>2. CASE UNCHANGED screenVars
  BY <1>2
     DEF screenVars, ScreenInv, ScreenTypeOK, PageInv, Mounts, OneOwn, Expected, Undisturbed,
         Settled, Own, Rows
<1> QED
  BY <1>1, <1>2

-----------------------------------------------------------------------------
(* For any races, reviews of others, page size and number of own reviews,    *)
(* every reachable state of the race page is well typed.                     *)
THEOREM ScreenTypeCorrect == ScreenSpec => []ScreenTypeOK
<1>1. ScreenInv => ScreenTypeOK
  BY DEF ScreenInv
<1> QED
  BY <1>1, InitScreenInv, ScreenInvNext, PTL DEF ScreenSpec

(* However GETs, writes, redraws and unmountings interleave, a screen at rest *)
(* shows the user's review of the race as the server has it, and not also in *)
(* the list, unless something happened behind its back.                      *)
THEOREM OwnReviewCorrect == ScreenSpec => []OwnReviewIsTrue
<1>1. ScreenInv => OwnReviewIsTrue
  BY DEF ScreenInv, OwnReviewIsTrue, AtRest, Expected, Undisturbed, Settled, CommunityReviews
<1> QED
  BY <1>1, InitScreenInv, ScreenInvNext, PTL DEF ScreenSpec

-----------------------------------------------------------------------------
(* The form in view has at most one POST under way, the item one DELETE.     *)
WidgetInv ==
  /\ \A w \in writes : w.widget =>
       /\ w.screen
       /\ w.op = "add" => HasForm /\ form.sending
       /\ w.op = "delete" => HasItem /\ item.deleting
  /\ \A v, w \in writes : v.widget /\ w.widget => v = w

LEMMA RedrawWidgets ==
  ASSUME raceReviews \in ReviewsState, NEW rv \in ReviewsState, NEW f, NEW i,
         NEW ws \in SUBSET UnderWay, Redraw(rv, f, i, ws), NEW v \in writes', v.widget
  PROVE  /\ v \in ws
         /\ (raceReviews.once /\ raceReviews.own # Null) <=> (rv.once /\ rv.own # Null)
         /\ rv.once /\ rv.own # Null => item' = i
         /\ ~(rv.once /\ rv.own # Null) => form' = f
<1> DEFINE had == raceReviews.once /\ raceReviews.own # Null
           has == rv.once /\ rv.own # Null
<1>1. had \in BOOLEAN /\ has \in BOOLEAN
  BY DEF ReviewsState
<1>2. CASE had = has
  <2>1. writes' = ws
    BY <1>2 DEF Redraw
  <2> QED
    BY <1>1, <1>2, <2>1 DEF Redraw
<1>3. CASE had # has
  <2>1. writes' = {[w EXCEPT !.widget = FALSE] : w \in ws}
    BY <1>3 DEF Redraw
  <2>2. PICK w \in ws : v = [w EXCEPT !.widget = FALSE]
    BY <2>1
  <2>3. ~v.widget
    BY <2>2 DEF UnderWay
  <2> QED
    BY <2>3
<1> QED
  BY <1>2, <1>3

LEMMA WidgetInvNext ==
  ASSUME ScreenTypeOK, PageInv, Mounts, WidgetInv, ScreenNext PROVE WidgetInv'
<1>1. ASSUME UNCHANGED writes, form'.sending = form.sending, item'.deleting = item.deleting,
             raceReviews'.up = raceReviews.up, raceReviews'.once = raceReviews.once,
             raceReviews'.own = raceReviews.own
      PROVE  WidgetInv'
  BY <1>1 DEF WidgetInv, HasForm, HasItem
<1>2. CASE \E r \in Races : Visit(r) \/ Jump(r)
  BY <1>1, <1>2 DEF Visit, Jump
<1>3. CASE Leave \/ DetailsTimer
  BY <1>3, ForsakenWrites DEF ScreenTypeOK, Leave, DetailsTimer, Unmount, WidgetInv
<1>4. ASSUME NEW p \in {raceReviews.page - 1, raceReviews.page + 1}, GoToPage(p)
      PROVE  WidgetInv'
  <2>1. p \in Nat \ {0}
    BY <1>4 DEF ScreenTypeOK, GoToPage, ReviewsState
  <2> QED
    BY <1>1, <1>4, <2>1, Refetched DEF ScreenTypeOK, GoToPage
<1>5. CASE FillIn \/ ToggleConfirm
  BY <1>1, <1>5 DEF ScreenTypeOK, FillIn, ToggleConfirm, Form, Item
<1>6. CASE Submit
  <2> DEFINE n == [op |-> "add", review |-> [race |-> raceReviews.race, by |-> "me", id |-> posts'],
                   at |-> "sent", screen |-> TRUE, widget |-> TRUE]
  <2>1. /\ HasForm /\ ~form.sending /\ UNCHANGED <<raceReviews, item>>
        /\ form' = [form EXCEPT !.sending = TRUE] /\ writes' = writes \cup {n}
    BY <1>6 DEF Submit, Write
  <2>2. \A w \in writes : ~w.widget
    BY <2>1 DEF ScreenTypeOK, UnderWay, WidgetInv, HasForm, HasItem
  <2>3. n.op = "add" /\ n.screen /\ form'.sending
    BY <2>1 DEF ScreenTypeOK, Form
  <2> HIDE DEF n
  <2> QED
    BY <2>1, <2>2, <2>3 DEF WidgetInv, HasForm
<1>7. CASE ConfirmDelete
  <2> DEFINE n == [op |-> "delete", review |-> raceReviews.own,
                   at |-> "sent", screen |-> TRUE, widget |-> TRUE]
  <2>1. /\ HasItem /\ ~item.deleting /\ UNCHANGED <<raceReviews, form>>
        /\ item' = [item EXCEPT !.deleting = TRUE] /\ writes' = writes \cup {n}
    BY <1>7 DEF ConfirmDelete, Write
  <2>2. \A w \in writes : ~w.widget
    BY <2>1 DEF ScreenTypeOK, UnderWay, WidgetInv, HasForm, HasItem
  <2>3. n.op = "delete" /\ n.screen /\ item'.deleting
    BY <2>1 DEF ScreenTypeOK, Item
  <2> HIDE DEF n
  <2> QED
    BY <2>1, <2>2, <2>3 DEF WidgetInv, HasItem
<1>8. CASE Elsewhere
  BY <1>1, <1>8 DEF Elsewhere
<1>9. ASSUME NEW r \in page.calls, DetailsAnswer(r) PROVE WidgetInv'
  BY <1>9 DEF DetailsAnswer, PageInv, Mounts, WidgetInv
<1>10. ASSUME NEW r \in page.calls, DetailsFail(r) PROVE WidgetInv'
  BY <1>1, <1>10 DEF DetailsFail
<1>11. ASSUME NEW c \in raceReviews.calls, ServeOwn(c) \/ ServeList(c) PROVE WidgetInv'
  BY <1>1, <1>11 DEF ScreenTypeOK, ServeOwn, ServeList, Progress, ReviewsState
<1>12. ASSUME NEW c \in raceReviews.calls, NEW rv \in ReviewsState,
              rv.up = raceReviews.up, rv.once, Redraw(rv, form, item, writes)
       PROVE  WidgetInv'
  <2>1. raceReviews' = rv
    BY <1>12 DEF Redraw
  <2>2. ASSUME NEW v \in writes', v.widget
        PROVE  /\ v \in writes
               /\ v.op = "add" => HasForm' /\ form'.sending
               /\ v.op = "delete" => HasItem' /\ item'.deleting
    BY <1>12, <2>1, <2>2, RedrawWidgets DEF ScreenTypeOK, ReviewsState, WidgetInv, HasForm, HasItem
  <2> QED
    BY <2>2 DEF WidgetInv
<1>13. ASSUME NEW c \in raceReviews.calls, ReviewsAnswer(c) \/ ReviewsFail(c) PROVE WidgetInv'
  <2>1. /\ raceReviews' \in ReviewsState /\ raceReviews'.up = raceReviews.up /\ raceReviews'.once
        /\ Redraw(raceReviews', form, item, writes)
    <3>1. CASE ReviewsAnswer(c)
      <4> DEFINE rv == [raceReviews EXCEPT !.calls = @ \ {c}, !.list = c.list, !.own = c.own,
                                           !.count = c.count, !.total = TotalPages(c.count),
                                           !.once = TRUE, !.loading = FALSE]
      <4>1. TotalPages(c.count) \in Nat
        BY PagesOfRows DEF ScreenTypeOK, ReviewsState, Call
      <4>2. rv \in ReviewsState /\ rv.up = raceReviews.up /\ rv.once
        BY <4>1 DEF ScreenTypeOK, ReviewsState, Call
      <4>3. Redraw(rv, form, item, writes) /\ raceReviews' = rv
        BY <3>1 DEF ReviewsAnswer, Redraw
      <4> HIDE DEF rv
      <4> QED
        BY <4>2, <4>3
    <3>2. CASE ReviewsFail(c)
      <4> DEFINE rv == [raceReviews EXCEPT !.calls = @ \ {c}, !.once = TRUE, !.loading = FALSE]
      <4>2. rv \in ReviewsState /\ rv.up = raceReviews.up /\ rv.once
        BY DEF ScreenTypeOK, ReviewsState
      <4>3. Redraw(rv, form, item, writes) /\ raceReviews' = rv
        BY <3>2 DEF ReviewsFail, Redraw
      <4> HIDE DEF rv
      <4> QED
        BY <4>2, <4>3
    <3> QED
      BY <1>13, <3>1, <3>2
  <2> QED
    BY <1>12, <2>1
<1>14. ASSUME NEW w \in writes, ServeWrite(w) PROVE WidgetInv'
  BY <1>14 DEF ScreenTypeOK, UnderWay, ServeWrite, WidgetInv, HasForm, HasItem
<1>15. ASSUME NEW w \in writes, WriteFails(w) PROVE WidgetInv'
  BY <1>15 DEF ScreenTypeOK, UnderWay, WriteFails, Form, Item, WidgetInv, HasForm, HasItem
<1>16. ASSUME NEW w \in writes, WriteSucceeds(w) PROVE WidgetInv'
  <2>1. /\ raceReviews' \in ReviewsState /\ raceReviews'.up = raceReviews.up
        /\ raceReviews'.once = raceReviews.once
        /\ raceReviews'.own = IF w.op = "add" THEN raceReviews.own ELSE Null
    BY <1>16, AfterWrite DEF ScreenTypeOK
  <2>2. ASSUME NEW v \in writes', v.widget
        PROVE  /\ v \in writes \ {w}
               /\ v.op = "add" => HasForm' /\ form'.sending
               /\ v.op = "delete" => HasItem' /\ item'.deleting
    <3>1. PICK f : /\ Redraw(raceReviews', f, item, writes \ {w})
                   /\ ~w.widget => f = form
      BY <1>16 DEF WriteSucceeds, Redraw
    <3>2. v \in writes \ {w} /\ ~w.widget
      BY <2>1, <2>2, <3>1, RedrawWidgets DEF ScreenTypeOK, WidgetInv
    <3> QED
      BY <2>1, <2>2, <3>1, <3>2, RedrawWidgets
         DEF ScreenTypeOK, UnderWay, ReviewsState, WidgetInv, HasForm, HasItem
  <2> QED
    BY <2>2 DEF WidgetInv
<1> QED
  BY <1>2, <1>3, <1>4, <1>5, <1>6, <1>7, <1>8, <1>9, <1>10, <1>11, <1>13, <1>14, <1>15, <1>16
     DEF ScreenNext, User, DetailsEnd, GetServed, GetEnd, WriteServed, WriteEnd

(* No click and no redrawing sends a second POST from a form, or a second    *)
(* DELETE from an item, while it waits for the first (ReviewForm.tsx:        *)
(* loading; ReviewItem.tsx: deleting).                                       *)
THEOREM NothingSentTwice ==
  ScreenSpec => [](\A v, w \in writes : v.widget /\ w.widget => v = w)
<1>1. ScreenInit => WidgetInv
  BY DEF ScreenInit, WidgetInv
<1>2. ScreenInv /\ WidgetInv /\ [ScreenNext]_screenVars => WidgetInv'
  <2> SUFFICES ASSUME ScreenInv, WidgetInv, [ScreenNext]_screenVars PROVE WidgetInv'
    OBVIOUS
  <2>1. CASE UNCHANGED screenVars
    BY <2>1 DEF screenVars, WidgetInv, HasForm, HasItem
  <2> QED
    BY <2>1, WidgetInvNext DEF ScreenInv
<1>3. WidgetInv => \A v, w \in writes : v.widget /\ w.widget => v = w
  BY DEF WidgetInv
<1> QED
  BY <1>1, <1>2, <1>3, InitScreenInv, ScreenInvNext, PTL DEF ScreenSpec

-----------------------------------------------------------------------------
(* The race page as an implementation of LatestAnswer.                       *)
LEMMA ViewInit == ScreenInit => RaceView!Init
<1> SUFFICES ASSUME ScreenInit PROVE RaceView!Init
  OBVIOUS
<1>1. PICK r \in Races : page = PageEffect([NoPage EXCEPT !.race = r])
  BY DEF ScreenInit
<1>2. page.race = r /\ page.loading /\ page.timer
  BY <1>1 DEF PageEffect, NoPage
<1> QED
  BY <1>2, NullAssumption DEF RaceView!Init, RaceShown, RaceStatus, RaceDraws

(* Each step of the page is a step of the abstract screen.                   *)
LEMMA ViewNext ==
  ScreenInv /\ [ScreenNext]_screenVars =>
    [RaceView!Next]_<<page.race, RaceShown, RaceStatus>>
<1> SUFFICES ASSUME ScreenInv, [ScreenNext]_screenVars
             PROVE  [RaceView!Next]_<<page.race, RaceShown, RaceStatus>>
  OBVIOUS
<1> USE DEF RaceShown, RaceStatus, RaceDraws
<1>t. page \in Details /\ PageInv /\ Null \notin Races
  BY NullAssumption DEF ScreenInv, ScreenTypeOK
<1>1. ASSUME UNCHANGED page PROVE UNCHANGED <<page.race, RaceShown, RaceStatus>>
  BY <1>1
<1>2. ASSUME NEW r \in Races, Visit(r) PROVE RaceView!Ask
  <2>1. page'.race = r /\ page'.loading /\ page'.timer
    BY <1>2 DEF Visit, PageEffect, NoPage
  <2> QED
    BY <1>t, <2>1 DEF RaceView!Ask
<1>3. ASSUME NEW r \in Races, Jump(r) PROVE RaceView!Ask
  <2>1. /\ page'.race = r /\ page'.timer /\ page'.loading = page.loading
        /\ page'.details = page.details
    BY <1>3, <1>t DEF Jump, PageEffect, Details
  <2> QED
    BY <1>t, <2>1 DEF RaceView!Ask
<1>4. ASSUME Leave PROVE RaceView!Ask
  <2>1. page'.race = Null /\ page'.loading
    BY <1>4 DEF Leave, NoPage
  <2> QED
    BY <2>1 DEF RaceView!Ask
<1>5. ASSUME DetailsTimer PROVE RaceView!Ask
  <2>1. /\ page'.race = page.race /\ page'.calls # {} /\ page'.loading
        /\ page.race \in Races
    BY <1>5, <1>t DEF DetailsTimer, Details, PageInv
  <2> QED
    BY <1>t, <2>1 DEF RaceView!Ask
<1>6. ASSUME NEW r \in page.calls, DetailsAnswer(r) PROVE RaceView!Show
  <2>1. /\ r = page.race /\ r \in Races /\ ~page.timer
        /\ page'.race = page.race /\ page'.calls = {} /\ ~page'.timer /\ ~page'.loading
        /\ page'.details = r
    BY <1>6, <1>t DEF DetailsAnswer, Details, PageInv
  <2> QED
    BY <1>t, <2>1 DEF RaceView!Show
<1>7. ASSUME NEW r \in page.calls, DetailsFail(r) PROVE RaceView!Fail
  <2>1. /\ r = page.race /\ r \in Races /\ ~page.timer /\ page.details = Null
        /\ page'.race = page.race /\ page'.calls = {} /\ ~page'.timer /\ ~page'.loading
        /\ page'.details = Null
    BY <1>7, <1>t DEF DetailsFail, Details, PageInv
  <2> QED
    BY <1>t, <2>1 DEF RaceView!Fail
<1>8. CASE UNCHANGED page
  BY <1>1, <1>8
<1>9. CASE UNCHANGED screenVars
  BY <1>8, <1>9 DEF screenVars
<1>10. CASE (\E p \in {raceReviews.page - 1, raceReviews.page + 1} : GoToPage(p))
            \/ FillIn \/ Submit \/ ToggleConfirm \/ ConfirmDelete \/ Elsewhere
  BY <1>8, <1>10 DEF GoToPage, FillIn, Submit, ToggleConfirm, ConfirmDelete, Elsewhere
<1>11. CASE GetServed \/ GetEnd \/ WriteServed \/ WriteEnd
  BY <1>8, <1>11
     DEF GetServed, ServeOwn, ServeList, GetEnd, ReviewsAnswer, ReviewsFail, WriteServed,
         ServeWrite, WriteEnd, WriteSucceeds, WriteFails
<1> QED
  BY <1>2, <1>3, <1>4, <1>5, <1>6, <1>7, <1>9, <1>10, <1>11
     DEF ScreenNext, User, DetailsEnd, RaceView!Next

(* The safety part of RaceFollows: whatever races were asked for before, the *)
(* page shows the race of its URL, or the last one until its timer fires.    *)
THEOREM RaceImplements == ScreenSpec => RaceView!Spec
BY ViewInit, ViewNext, InitScreenInv, ScreenInvNext, PTL DEF ScreenSpec, RaceView!Spec

(* What LatestAnswer promises, for the race page: once nothing is asked for, *)
(* the race drawn is that of the URL.                                        *)
THEOREM RaceOfTheUrl == ScreenSpec => [](RaceStatus = "answered" => RaceShown = page.race)
<1> DEFINE Right == RaceStatus = "answered" => RaceShown = page.race
<1>1. RaceView!Init => Right
  BY DEF RaceView!Init
<1>2. Right /\ [RaceView!Next]_<<page.race, RaceShown, RaceStatus>> => Right'
  BY DEF RaceView!Next, RaceView!Ask, RaceView!Show, RaceView!Fail
<1> HIDE DEF Right
<1>3. ScreenSpec => []Right
  BY <1>1, <1>2, RaceImplements, PTL DEF RaceView!Spec
<1> QED
  BY <1>3 DEF Right
=================================================================================
