------------------------------- MODULE Geocoder -------------------------------
(*****************************************************************************)
(* The Go geocoder: calls of GeocodeMany, each with a producer, a pool of    *)
(* workers, a closer and a collector joined by unbuffered channels; a cache  *)
(* and a rate limiter shared by all calls; and a request context that may    *)
(* end at any moment (90 s timeout, client gone).                            *)
(*                                                                           *)
(* A send on an unbuffered channel is one step of sender and receiver.  When *)
(* a select can both send and see the context done, it picks either.  A      *)
(* worker is named <<call, number>>; job[w] is the position of its city in   *)
(* the request.                                                              *)
(*****************************************************************************)
EXTENDS Naturals, Sequences

CONSTANTS
  Calls,    \* POST /geocode requests
  Pool,     \* worker numbers of one call (5 in main.go)
  Cities    \* Cities[c]: the list of cities call c asks for

ASSUME PoolAssumption == Pool # {}
ASSUME CitiesAssumption == \A c \in Calls : Len(Cities[c]) \in Nat

VARIABLES
  at, job,       \* the workers
  sent,          \* how many cities the producer has handed out
  jobsOpen,      \* the jobs channel is not closed
  resultsOpen,   \* the results channel is not closed
  expired,       \* the request context is done
  collected,     \* positions whose coordinates the collector has
  failed,        \* positions given up: no token before the deadline, or a Nominatim error
  dropped,       \* positions resolved too late to be sent
  returned,      \* GeocodeMany has returned and the answer is written
  cache,         \* cities with known coordinates
  token          \* the limiter's bucket of one holds its token

callVars == <<sent, jobsOpen, resultsOpen, expired, collected, failed, dropped, returned>>
vars == <<at, job, callVars, cache, token>>

Workers == Calls \X Pool
Positions(c) == 1..Len(Cities[c])
CityOf(w) == Cities[w[1]][job[w]]
WorkersOf(c) == {c} \X Pool

Busy == {"look", "wait", "queue", "fetch", "send"}
Labels == Busy \cup {"off", "range", "done"}

Become(w, label) == at' = [at EXCEPT ![w] = label]
GiveUp(w, heap) == heap' = [heap EXCEPT ![w[1]] = @ \cup {job[w]}]

-----------------------------------------------------------------------------
(* The handler decodes the list and calls GeocodeMany, which starts its      *)
(* goroutines.                                                               *)
Start(c) ==
  /\ \A w \in WorkersOf(c) : at[w] = "off"
  /\ at' = [w \in Workers |-> IF w[1] = c THEN "range" ELSE at[w]]
  /\ UNCHANGED <<job, callVars, cache, token>>

(* Mutant: the producer counts one city too many.                            *)
HandOutOneMore(w) ==
  LET c == w[1] IN
  /\ at[w] = "range"
  /\ jobsOpen[c] /\ sent[c] <= Len(Cities[c])
  /\ sent' = [sent EXCEPT ![c] = @ + 1]
  /\ job' = [job EXCEPT ![w] = sent[c] + 1]
  /\ Become(w, "range")
  /\ UNCHANGED <<jobsOpen, resultsOpen, expired, collected, failed, dropped, returned, cache, token>>

(* The producer hands the next city to a worker that ranges over jobs.       *)
HandOut(w) ==
  LET c == w[1] IN
  /\ at[w] = "range"
  /\ jobsOpen[c] /\ sent[c] < Len(Cities[c])
  /\ sent' = [sent EXCEPT ![c] = @ + 1]
  /\ job' = [job EXCEPT ![w] = sent[c] + 1]
  /\ Become(w, "look")
  /\ UNCHANGED <<jobsOpen, resultsOpen, expired, collected, failed, dropped, returned, cache, token>>

(* Mutant: the producer leaves the last city out.                            *)
CloseJobsOneEarly(c) ==
  /\ \A w \in WorkersOf(c) : at[w] # "off"
  /\ jobsOpen[c]
  /\ sent[c] + 1 >= Len(Cities[c]) \/ expired[c]
  /\ jobsOpen' = [jobsOpen EXCEPT ![c] = FALSE]
  /\ UNCHANGED <<at, job, sent, resultsOpen, expired, collected, failed, dropped, returned, cache, token>>

(* The producer ends, after the last city or because the context is done,    *)
(* and its deferred close shuts jobs.                                        *)
CloseJobs(c) ==
  /\ \A w \in WorkersOf(c) : at[w] # "off"
  /\ jobsOpen[c]
  /\ sent[c] = Len(Cities[c]) \/ expired[c]
  /\ jobsOpen' = [jobsOpen EXCEPT ![c] = FALSE]
  /\ UNCHANGED <<at, job, sent, resultsOpen, expired, collected, failed, dropped, returned, cache, token>>

-----------------------------------------------------------------------------
(* Worker: for city := range jobs                                            *)
RangeEnds(w) ==
  /\ at[w] = "range"
  /\ ~jobsOpen[w[1]]
  /\ Become(w, "done")
  /\ UNCHANGED <<job, callVars, cache, token>>

LookUp(w) ==
  /\ at[w] = "look"
  /\ Become(w, IF CityOf(w) \in cache THEN "send" ELSE "wait")
  /\ UNCHANGED <<job, callVars, cache, token>>

(* limiter.Wait: a done context is refused, and so is a wait that would end  *)
(* after its deadline ...                                                    *)
Refuse(w) ==
  /\ \/ at[w] = "wait" /\ (expired[w[1]] \/ ~token)
     \/ at[w] = "queue" /\ expired[w[1]]
  /\ GiveUp(w, failed)
  /\ Become(w, "range")
  /\ UNCHANGED <<job, sent, jobsOpen, resultsOpen, expired, collected, dropped, returned, cache, token>>

(* ... otherwise the worker queues until there is a token ...                *)
Queue(w) ==
  /\ at[w] = "wait"
  /\ ~token /\ ~expired[w[1]]
  /\ Become(w, "queue")
  /\ UNCHANGED <<job, callVars, cache, token>>

(* ... which it takes.  A queued worker selects between its timer and the    *)
(* context, so it may go on although the context is done.                    *)
Grant(w) ==
  /\ token
  /\ at[w] = "queue" \/ (at[w] = "wait" /\ ~expired[w[1]])
  /\ token' = FALSE
  /\ Become(w, "fetch")
  /\ UNCHANGED <<job, callVars, cache>>

(* Mutant: no continue after a failed fetch.                                 *)
FetchFailsGoesOn(w) ==
  /\ at[w] = "fetch"
  /\ GiveUp(w, failed)
  /\ Become(w, "send")
  /\ UNCHANGED <<job, sent, jobsOpen, resultsOpen, expired, collected, dropped, returned, cache, token>>

(* The Nominatim client has its own timeout and ignores the context.         *)
FetchFails(w) ==
  /\ at[w] = "fetch"
  /\ GiveUp(w, failed)
  /\ Become(w, "range")
  /\ UNCHANGED <<job, sent, jobsOpen, resultsOpen, expired, collected, dropped, returned, cache, token>>

(* The coordinates are cached before they are sent.                          *)
Fetch(w) ==
  /\ at[w] = "fetch"
  /\ cache' = cache \cup {CityOf(w)}
  /\ Become(w, "send")
  /\ UNCHANGED <<job, callVars, token>>

(* The collector receives the coordinates.                                   *)
Deliver(w) ==
  /\ at[w] = "send"
  /\ resultsOpen[w[1]]
  /\ GiveUp(w, collected)
  /\ Become(w, "range")
  /\ UNCHANGED <<job, sent, jobsOpen, resultsOpen, expired, failed, dropped, returned, cache, token>>

(* Mutant: the worker returns without wg.Done.                               *)
DropUndone(w) ==
  /\ at[w] = "send"
  /\ expired[w[1]]
  /\ GiveUp(w, dropped)
  /\ Become(w, "gone")
  /\ UNCHANGED <<job, sent, jobsOpen, resultsOpen, expired, collected, failed, returned, cache, token>>

(* The worker sees the context done instead, and returns.                    *)
Drop(w) ==
  /\ at[w] = "send"
  /\ expired[w[1]]
  /\ GiveUp(w, dropped)
  /\ Become(w, "done")
  /\ UNCHANGED <<job, sent, jobsOpen, resultsOpen, expired, collected, failed, returned, cache, token>>

-----------------------------------------------------------------------------
(* Mutant: results is closed with jobs, without waiting for the workers.     *)
CloseResultsWithJobs(c) ==
  /\ resultsOpen[c] /\ ~jobsOpen[c]
  /\ resultsOpen' = [resultsOpen EXCEPT ![c] = FALSE]
  /\ UNCHANGED <<at, job, sent, jobsOpen, expired, collected, failed, dropped, returned, cache, token>>

(* The closer waits for all workers of the call (wg.Wait).                   *)
CloseResults(c) ==
  /\ resultsOpen[c]
  /\ \A w \in WorkersOf(c) : at[w] = "done"
  /\ resultsOpen' = [resultsOpen EXCEPT ![c] = FALSE]
  /\ UNCHANGED <<at, job, sent, jobsOpen, expired, collected, failed, dropped, returned, cache, token>>

(* The collector's range ends, GeocodeMany returns, the answer is encoded;   *)
(* the deferred cancel ends the context.                                     *)
Return(c) ==
  /\ ~resultsOpen[c] /\ ~returned[c]
  /\ returned' = [returned EXCEPT ![c] = TRUE]
  /\ UNCHANGED <<at, job, sent, jobsOpen, resultsOpen, expired, collected, failed, dropped, cache, token>>

(* The 90 s timeout fires or the client disconnects.                         *)
Expire(c) ==
  /\ ~expired[c] /\ ~returned[c]
  /\ expired' = [expired EXCEPT ![c] = TRUE]
  /\ UNCHANGED <<at, job, sent, jobsOpen, resultsOpen, collected, failed, dropped, returned, cache, token>>

(* A second passes: the bucket has its token again.                          *)
Refill ==
  /\ ~token
  /\ token' = TRUE
  /\ UNCHANGED <<at, job, callVars, cache>>

-----------------------------------------------------------------------------
Init ==
  /\ at = [w \in Workers |-> "off"]
  /\ job = [w \in Workers |-> 0]
  /\ sent = [c \in Calls |-> 0]
  /\ jobsOpen = [c \in Calls |-> TRUE]
  /\ resultsOpen = [c \in Calls |-> TRUE]
  /\ expired = [c \in Calls |-> FALSE]
  /\ collected = [c \in Calls |-> {}]
  /\ failed = [c \in Calls |-> {}]
  /\ dropped = [c \in Calls |-> {}]
  /\ returned = [c \in Calls |-> FALSE]
  /\ cache = {}
  /\ token = TRUE

WorkerStep(w) ==
  \/ HandOut(w) \/ RangeEnds(w) \/ LookUp(w) \/ Refuse(w) \/ Queue(w) \/ Grant(w)
  \/ FetchFails(w) \/ Fetch(w) \/ Deliver(w) \/ Drop(w)
CallStep(c) == CloseJobs(c) \/ CloseResults(c) \/ Return(c)

Next ==
  \/ \E c \in Calls : Start(c) \/ CallStep(c) \/ Expire(c)
  \/ \E w \in Workers : WorkerStep(w)
  \/ Refill

Spec == Init /\ [][Next]_vars

(* Goroutines that can run do run; a fetch ends (10 s client timeout); time  *)
(* passes.  Clients need not call, contexts need not end.                    *)
FairSpec ==
  /\ Spec
  /\ \A w \in Workers : WF_vars(WorkerStep(w))
  /\ \A c \in Calls : WF_vars(CallStep(c))
  /\ WF_vars(Refill)

-----------------------------------------------------------------------------
Settled(c) == collected[c] \cup failed[c] \cup dropped[c]

(* Types; a busy worker holds a city its producer has handed out.            *)
TypeOK ==
  /\ at \in [Workers -> Labels]
  /\ job \in [Workers -> Nat]
  /\ sent \in [Calls -> Nat]
  /\ jobsOpen \in [Calls -> BOOLEAN]
  /\ resultsOpen \in [Calls -> BOOLEAN]
  /\ expired \in [Calls -> BOOLEAN]
  /\ collected \in [Calls -> SUBSET Nat]
  /\ failed \in [Calls -> SUBSET Nat]
  /\ dropped \in [Calls -> SUBSET Nat]
  /\ returned \in [Calls -> BOOLEAN]
  /\ token \in BOOLEAN
  /\ \A c \in Calls : Settled(c) \subseteq 1..sent[c] /\ sent[c] <= Len(Cities[c])
  /\ \A w \in Workers : at[w] \in Busy => job[w] \in 1..sent[w[1]]

Holds(w, p) == at[w] \in Busy /\ job[w] = p

(* A city that was handed out is in exactly one place: with one worker, or   *)
(* collected, or failed, or dropped.  So no result is sent twice, and no     *)
(* city is forgotten by a worker.                                            *)
EachCityOnce ==
  \A c \in Calls :
    /\ \A p \in 1..sent[c] : p \in Settled(c) \/ \E w \in WorkersOf(c) : Holds(w, p)
    /\ \A w \in WorkersOf(c) : at[w] \in Busy => job[w] \notin Settled(c)
    /\ \A v, w \in WorkersOf(c) :
         at[v] \in Busy /\ at[w] \in Busy /\ job[v] = job[w] => v = w
    /\ collected[c] \cap failed[c] = {}
    /\ (collected[c] \cup failed[c]) \cap dropped[c] = {}

(* No worker is left when the results channel is closed: nobody sends on a   *)
(* closed channel, which would panic, and no worker outlives its call.       *)
NoSendOnClosed ==
  \A c \in Calls : ~resultsOpen[c] => \A w \in WorkersOf(c) : at[w] = "done"

(* A call that returns before its context is done has an answer or an error  *)
(* for every requested city (TestService_ReturnsResultForEachCity).          *)
CompleteUnlessExpired ==
  \A c \in Calls :
    returned[c] /\ ~expired[c] => collected[c] \cup failed[c] = Positions(c)

(* What was resolved too late for its call is cached: the next call for the  *)
(* city needs no token.                                                      *)
LateIsCached ==
  \A c \in Calls : \A p \in collected[c] \cup dropped[c] : Cities[c][p] \in cache

(* Every call that starts returns, whatever fails or expires.                *)
CallsReturn ==
  \A c \in Calls : (\E w \in WorkersOf(c) : at[w] # "off") ~> returned[c]

-----------------------------------------------------------------------------
(* The promise to the client (GeocodeCall) is kept: a city is open until it  *)
(* is collected, or given up by a worker, or was not handed out when the     *)
(* producer stopped or the last worker had gone (the producer may notice the *)
(* done context only after the answer).                                      *)
OutcomeAt(c, p) ==
  IF p \in collected[c] THEN "found"
  ELSE IF p \in failed[c] \cup dropped[c] THEN "lost"
  ELSE IF p > sent[c] /\ ~(jobsOpen[c] /\ resultsOpen[c]) THEN "lost"
  ELSE "open"

Outcome == [c \in Calls |-> [p \in Positions(c) |-> OutcomeAt(c, p)]]

Promise == INSTANCE GeocodeCall WITH outcome <- Outcome, answered <- returned

KeepsPromise == Promise!Spec
=============================================================================
