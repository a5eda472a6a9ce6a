-------------------------------- MODULE Reviews --------------------------------
(*****************************************************************************)
(* Reviews of races and the average rating kept on the race.                 *)
(*                                                                           *)
(* Web requests (PHP-FPM processes) add and remove rows of the review table. *)
(* Each committed change is followed by a ReviewAdded or ReviewRemoved       *)
(* message on the async transport; the one worker of the deployment consumes *)
(* it, reads AVG(rating) of the race and stores it on the race.  A request   *)
(* may fail between its commit and its dispatch, a handler may throw (retry, *)
(* then the failure transport), and the worker may die with a message in     *)
(* hand (the transport delivers it again).                                   *)
(*                                                                           *)
(* A request is a process: pc is where it stands and its last value is the   *)
(* HTTP status it answered.  row[q] is the Review entity the request holds:  *)
(* the one it will insert, or the one it loaded and will delete.             *)
(*****************************************************************************)
EXTENDS Naturals, FiniteSets, FiniteSetsExt

CONSTANTS
  Users,          \* authenticated users
  RaceIds,        \* race ids a client may name
  Catalogue,      \* the races that exist; no code path deletes a race
  Requests,       \* web requests; a request's name is the id of its review
  Ratings,        \* integer ratings clients send, some out of range
  MaxInFlight,    \* bound: requests PHP-FPM serves at the same time
  MaxRetries,     \* retry_strategy.max_retries of the async transport
  MaxDeaths,      \* bound: how often the worker dies with a message in hand
  None            \* no message in hand, no entity loaded, caller unknown yet

ASSUME CatalogueAssumption == Catalogue \subseteq RaceIds
ASSUME RequestsAssumption  == IsFiniteSet(Requests)
ASSUME RatingsAssumption   == Ratings \subseteq Nat
ASSUME BoundsAssumption    == {MaxInFlight, MaxRetries, MaxDeaths} \subseteq Nat

(* The review table and Review entity.  A rating is an integer from 1 to 5.  *)
Review == [id : Requests, user : Users, race : RaceIds, rating : 1..5]

(* Envelope of a ReviewAdded or ReviewRemoved: both carry the race id only   *)
(* and are handled alike.  from identifies the message, tries counts the     *)
(* retries already made of it.                                               *)
Message == [from : Requests, race : RaceIds, tries : 0..MaxRetries]

ASSUME NoneAssumption == None \notin Message

VARIABLES
  reviews,      \* rows of the review table
  average,      \* race.average_rating of every catalogued race
  pc, caller, row,              \* the requests
  queue,        \* messages waiting on the async transport (in any order)
  phase, message, value,        \* the worker: its step, message and local
  deaths,       \* how often the worker died
  missed        \* history: races of which an event was lost or given up since
                \* the worker last read their reviews

vars == <<reviews, average, pc, caller, row, queue, phase, message, value,
          deaths, missed>>
webVars == <<pc, caller, row>>
workerVars == <<phase, message, value>>

-----------------------------------------------------------------------------
(* AVG(rating) in sixtieths, exact for the up to six reviews a race may have *)
(* in an instance; ratings start at 1, so 0 stands for SQL's null.           *)
NoAverage == 0
AverageOf(rows) ==
  IF rows = {} THEN NoAverage
  ELSE (60 * MapThenSumSet(LAMBDA rv : rv.rating, rows)) \div Cardinality(rows)

(* getAverageRating                                                          *)
CurrentAverage(r) == AverageOf({rv \in reviews : rv.race = r})

(* findByUserAndRace                                                         *)
ReviewsBy(u, r) == {rv \in reviews : rv.user = u /\ rv.race = r}

(* RaceExistenceChecker                                                      *)
RaceExists(r) == r \in Catalogue

(* ReviewVoter: the author only                                              *)
MayDelete(u, rv) == rv.user = u

InFlight == {q \in Requests :
               pc[q] \in {"check", "save", "remove", "dispatchAdded", "dispatchRemoved"}}
MayStart(q) == pc[q] = "free" /\ Cardinality(InFlight) < MaxInFlight

Goto(q, label) == pc' = [pc EXCEPT ![q] = label]

-----------------------------------------------------------------------------
(* POST /api/races/{raceId}/reviews                                          *)

(* A body without an integer rating is refused before the handler runs.      *)
BadPost(q) ==
  /\ MayStart(q)
  /\ Goto(q, "400")
  /\ UNCHANGED <<reviews, average, caller, row, queue, workerVars, deaths, missed>>

(* The handler first asks whether the race exists.                           *)
Post(q, u, r, rating) ==
  /\ MayStart(q)
  /\ Goto(q, IF RaceExists(r) THEN "check" ELSE "404")
  /\ caller' = [caller EXCEPT ![q] = u]
  /\ row' = [row EXCEPT ![q] = [id |-> q, user |-> u, race |-> r, rating |-> rating]]
  /\ UNCHANGED <<reviews, average, queue, workerVars, deaths, missed>>

(* Mutant: the constructor accepts any rating.                               *)
CheckUnranged(q) ==
  /\ pc[q] = "check"
  /\ Goto(q, IF ReviewsBy(row[q].user, row[q].race) = {} THEN "save" ELSE "409")
  /\ UNCHANGED <<reviews, average, caller, row, queue, workerVars, deaths, missed>>

(* One row found: ReviewAlreadyExistsException.  More than one: Doctrine's   *)
(* NonUniqueResultException.  None: Review::create, whose constructor throws *)
(* on a rating out of range.                                                 *)
CheckDuplicate(q) ==
  LET mine == Cardinality(ReviewsBy(row[q].user, row[q].race)) IN
  /\ pc[q] = "check"
  /\ \/ mine = 0 /\ row[q].rating \in 1..5 /\ Goto(q, "save")
     \/ mine = 0 /\ row[q].rating \notin 1..5 /\ Goto(q, "500")
     \/ mine = 1 /\ Goto(q, "409")
     \/ mine > 1 /\ Goto(q, "500")
  /\ UNCHANGED <<reviews, average, caller, row, queue, workerVars, deaths, missed>>

(* save commits on its own: the table has no unique key on user and race.    *)
Save(q) ==
  /\ pc[q] = "save"
  /\ reviews' = reviews \cup {row[q]}
  /\ Goto(q, "dispatchAdded")
  /\ UNCHANGED <<average, caller, row, queue, workerVars, deaths, missed>>

-----------------------------------------------------------------------------
(* DELETE /api/reviews/{reviewId}                                            *)

(* Mutant: the controller does not ask the voter.                            *)
DeleteUnvoted(q, u, id) ==
  /\ MayStart(q)
  /\ caller' = [caller EXCEPT ![q] = u]
  /\ \E rv \in reviews : /\ rv.id = id
                         /\ row' = [row EXCEPT ![q] = rv]
                         /\ Goto(q, "remove")
  /\ UNCHANGED <<reviews, average, queue, workerVars, deaths, missed>>

(* The controller loads the review and the voter compares its author with    *)
(* the caller.  The handler's own findById then answers from Doctrine's      *)
(* identity map, so it finds the loaded entity whatever the table holds.     *)
Delete(q, u, id) ==
  /\ MayStart(q)
  /\ caller' = [caller EXCEPT ![q] = u]
  /\ \/ /\ \A rv \in reviews : rv.id # id
        /\ Goto(q, "404")
        /\ row' = row
     \/ \E rv \in reviews : /\ rv.id = id
                            /\ row' = [row EXCEPT ![q] = rv]
                            /\ Goto(q, IF MayDelete(u, rv) THEN "remove" ELSE "403")
  /\ UNCHANGED <<reviews, average, queue, workerVars, deaths, missed>>

(* Mutant: the removal is not announced.                                     *)
RemoveRowSilently(q) ==
  /\ pc[q] = "remove"
  /\ reviews' = reviews \ {row[q]}
  /\ Goto(q, "204")
  /\ UNCHANGED <<average, caller, row, queue, workerVars, deaths, missed>>

(* The DELETE of a row another request has removed affects no row and        *)
(* succeeds.                                                                 *)
RemoveRow(q) ==
  /\ pc[q] = "remove"
  /\ reviews' = reviews \ {row[q]}
  /\ Goto(q, "dispatchRemoved")
  /\ UNCHANGED <<average, caller, row, queue, workerVars, deaths, missed>>

-----------------------------------------------------------------------------
(* The event bus sends the message to the async transport; the request then  *)
(* answers.                                                                  *)
Dispatch(q) ==
  /\ \/ pc[q] = "dispatchAdded" /\ Goto(q, "201")
     \/ pc[q] = "dispatchRemoved" /\ Goto(q, "204")
  /\ queue' = queue \cup {[from |-> q, race |-> row[q].race, tries |-> 0]}
  /\ UNCHANGED <<reviews, average, caller, row, workerVars, deaths, missed>>

(* The transport refuses the message or the process dies after its commit:   *)
(* the change stays, its event is lost.                                      *)
LoseEvent(q) ==
  /\ pc[q] \in {"dispatchAdded", "dispatchRemoved"}
  /\ Goto(q, "500")
  /\ missed' = missed \cup {row[q].race}
  /\ UNCHANGED <<reviews, average, caller, row, queue, workerVars, deaths>>

(* The process dies before its commit.                                       *)
Abort(q) ==
  /\ pc[q] \in {"check", "save", "remove"}
  /\ Goto(q, "500")
  /\ UNCHANGED <<reviews, average, caller, row, queue, workerVars, deaths, missed>>

-----------------------------------------------------------------------------
(* The worker: messenger:consume async                                       *)

Receive ==
  /\ phase = "idle"
  /\ \E m \in queue : /\ message' = m
                      /\ queue' = queue \ {m}
  /\ phase' = "read"
  /\ UNCHANGED <<reviews, average, webVars, value, deaths, missed>>

(* The provider reads AVG(rating) from the review table.                     *)
ReadAverage ==
  /\ phase = "read"
  /\ value' = CurrentAverage(message.race)
  /\ phase' = "write"
  /\ missed' = missed \ {message.race}
  /\ UNCHANGED <<reviews, average, webVars, queue, message, deaths>>

(* findById, updateAverageRating and save: one step, because nothing else    *)
(* writes the column; for a race that is not there the handler returns.      *)
SaveAverage ==
  /\ phase = "write"
  /\ average' = [r \in Catalogue |-> IF r = message.race THEN value ELSE average[r]]
  /\ phase' = "ack"
  /\ UNCHANGED <<reviews, webVars, queue, message, value, deaths, missed>>

Rest == phase' = "idle" /\ message' = None /\ value' = NoAverage

Acknowledge ==
  /\ phase = "ack"
  /\ Rest
  /\ UNCHANGED <<reviews, average, webVars, queue, deaths, missed>>

(* The handler throws: the message is sent again with one more try, or goes  *)
(* to the failure transport, which nothing in the deployment consumes.       *)
HandlerFails ==
  /\ phase \in {"read", "write"}
  /\ \/ /\ message.tries < MaxRetries
        /\ queue' = queue \cup {[message EXCEPT !.tries = message.tries + 1]}
        /\ missed' = missed
     \/ /\ message.tries = MaxRetries
        /\ queue' = queue
        /\ missed' = missed \cup {message.race}
  /\ Rest
  /\ UNCHANGED <<reviews, average, webVars, deaths>>

(* Mutant: the transport forgets a message once it is delivered.             *)
WorkerDiesAutoAck ==
  /\ phase # "idle"
  /\ deaths < MaxDeaths
  /\ deaths' = deaths + 1
  /\ Rest
  /\ UNCHANGED <<reviews, average, webVars, queue, missed>>

(* The worker dies before it acknowledges: the transport delivers the        *)
(* message again to the restarted worker.                                    *)
WorkerDies ==
  /\ phase # "idle"
  /\ deaths < MaxDeaths
  /\ deaths' = deaths + 1
  /\ queue' = queue \cup {message}
  /\ Rest
  /\ UNCHANGED <<reviews, average, webVars, missed>>

-----------------------------------------------------------------------------
Init ==
  /\ reviews = {}
  /\ average = [r \in Catalogue |-> NoAverage]
  /\ pc = [q \in Requests |-> "free"]
  /\ caller = [q \in Requests |-> None]
  /\ row = [q \in Requests |-> None]
  /\ queue = {}
  /\ phase = "idle" /\ message = None /\ value = NoAverage
  /\ deaths = 0
  /\ missed = {}

RequestStep(q) == CheckDuplicate(q) \/ Save(q) \/ RemoveRow(q) \/ Dispatch(q)
WorkerStep == Receive \/ ReadAverage \/ SaveAverage \/ Acknowledge

Next ==
  \/ \E q \in Requests :
       \/ BadPost(q)
       \/ \E u \in Users, r \in RaceIds, rating \in Ratings : Post(q, u, r, rating)
       \/ \E u \in Users, id \in Requests : Delete(q, u, id)
       \/ CheckDuplicate(q)
       \/ Save(q)
       \/ RemoveRow(q)
       \/ Dispatch(q)
       \/ LoseEvent(q)
       \/ Abort(q)
  \/ Receive \/ ReadAverage \/ SaveAverage \/ Acknowledge
  \/ HandlerFails \/ WorkerDies

Spec == Init /\ [][Next]_vars

(* A request that was accepted runs on, and so does the consume loop.  No    *)
(* fairness for clients, failures or deaths.                                 *)
FairSpec == /\ Spec
            /\ \A q \in Requests : WF_vars(RequestStep(q))
            /\ WF_vars(WorkerStep)

-----------------------------------------------------------------------------
Statuses == {"201", "204", "400", "403", "404", "409", "500"}
Labels == {"free", "check", "save", "remove", "dispatchAdded", "dispatchRemoved"}

(* A Review entity under construction: its rating is not validated yet.      *)
Candidate == [id : Requests, user : Users, race : RaceIds, rating : Ratings \cup 1..5]

(* Types: the table holds reviews with ratings from 1 to 5 only, a request   *)
(* about to commit holds a valid review of a catalogued race.                *)
TypeOK ==
  /\ reviews \subseteq Review
  /\ \A rv \in reviews : rv.race \in Catalogue
  /\ average = [r \in Catalogue |-> average[r]]
  /\ pc \in [Requests -> Labels \cup Statuses]
  /\ caller \in [Requests -> Users \cup {None}]
  /\ row \in [Requests -> Candidate \cup {None}]
  /\ \A q \in Requests :
       /\ pc[q] \notin {"free"} \cup Statuses => row[q] \in Candidate
       /\ pc[q] \in {"save", "remove"} => row[q] \in Review
       /\ pc[q] \notin {"free"} \cup Statuses => row[q].race \in Catalogue
  /\ queue \subseteq Message
  /\ phase \in {"idle", "read", "write", "ack"}
  /\ message \in Message \cup {None}
  /\ phase # "idle" => message \in Message
  /\ deaths \in 0..MaxDeaths
  /\ missed \subseteq RaceIds

(* Something will still make the worker read the reviews of r, or an event   *)
(* about r was missed.                                                       *)
Covered(r) ==
  \/ \E q \in Requests :
       pc[q] \in {"dispatchAdded", "dispatchRemoved"} /\ row[q].race = r
  \/ \E m \in queue : m.race = r
  \/ phase = "read" /\ message.race = r
  \/ r \in missed

(* The stored average of a race differs from its reviews only while an event *)
(* for the race is on its way, the worker is about to store the average of   *)
(* the present reviews, or an event was lost: retries and redeliveries never *)
(* settle on a wrong value (README: "recomputed from current reviews ...     *)
(* so retries are safe").                                                    *)
StaleOnlyWhilePending ==
  \A r \in Catalogue :
    average[r] # CurrentAverage(r) =>
      \/ Covered(r)
      \/ phase = "write" /\ message.race = r /\ value = CurrentAverage(r)

(* Inductive form: the average r will have once the step in progress is done *)
(* is right, or r is covered.                                                *)
Settling(r) == IF phase = "write" /\ message.race = r THEN value ELSE average[r]
PendingInv == \A r \in Catalogue : Settling(r) # CurrentAverage(r) => Covered(r)

(* A user has at most one review of a race (AddReviewHandler refuses a       *)
(* second one).  It holds when requests are served one after another.        *)
OneReviewPerUserAndRace ==
  \A a, b \in reviews : a.user = b.user /\ a.race = b.race => a = b

(* A review disappears only through a request of its author.                 *)
OnlyTheAuthorRemoves ==
  [][\A rv \in reviews \ reviews' :
       \E q \in Requests : pc[q] = "remove" /\ pc'[q] # "remove" /\ caller[q] = rv.user]_vars

(* Whatever order requests, retries and deaths come in, the average of every *)
(* race ends up right for good unless an event of it was missed.             *)
RatingsConverge ==
  \A r \in Catalogue : <>[](r \in missed \/ average[r] = CurrentAverage(r))
=============================================================================
