------------------------------ MODULE RaceEvents ------------------------------
(*****************************************************************************)
(* What happens to a race after its import: RacesImported is handled by the  *)
(* geocoding and the notification handlers, geocoding dispatches             *)
(* RacesGeocoded, whose handler indexes the races again, now with a place on *)
(* the map.  The notification handler mails nobody: the mailer puts one      *)
(* SendEmailMessage per watcher into the same async transport.  One worker   *)
(* handles its messages, at least once; a message whose handlers failed is   *)
(* sent again to those handlers only, and after its last try it goes to the  *)
(* failed transport, which no worker consumes.  Meanwhile imports go on, and *)
(* app:geocode may run.                                                      *)
(*                                                                           *)
(* A race is "none", "plain" or, with coordinates, "located": in its row, in *)
(* its document, and in the memory of the job that loaded it.  MeiliSearch   *)
(* applies document tasks in order; a document here is what its tasks so far *)
(* amount to.  A single race is imported and indexed in one step: RaceImport *)
(* takes that apart.                                                         *)
(*****************************************************************************)
EXTENDS Naturals, FiniteSets

CONSTANTS
  Races,
  Cities, CityOf,    \* the city of each race
  Users, Watches,    \* watchlists: pairs of a user and a city
  MaxImports,        \* bound: imports that create a race
  MaxEnrichments,    \* bound: documents written again by imports
  MaxTries,          \* 1 + max_retries
  MaxFaulty,         \* bound: handlers that ever throw
  MaxDeaths          \* bound: processes that die

ASSUME RacesAssumption == IsFiniteSet(Races)
ASSUME WatchesAssumption == CityOf \in [Races -> Cities] /\ Watches \subseteq Users \X Cities
ASSUME BoundsAssumption ==
  MaxTries \in Nat \ {0} /\ {MaxImports, MaxEnrichments, MaxFaulty, MaxDeaths} \subseteq Nat

VARIABLES
  rows, docs,       \* the races table, the search index
  seen, fresh,      \* the import: entities in memory, newRaceIds
  queue, held,      \* messages waiting; the message of the worker, if any
  failures,         \* the failed transport
  left, handler, broken,    \* the worker: handlers to call, the one running, those that threw
  geocoding, todo, located, \* GeocodeRacesHandler in a process: it runs, races to save, ids saved
  recipients,       \* users the handler that notifies or sends has still to serve
  snapshot,         \* ReindexRacesOnGeocodeHandler: the races it loaded
  imports, enrichments, deaths,    \* counted
  faulty,           \* the handlers that may throw, any number of times
  told,             \* history: <<import, user>> whose digest reached the mail server
  owed,             \* history: owed[import][user], digests the user may still get
  promised,         \* history: <<import, user>> that a finished notification served
  cutOff,           \* history: located races whose geocoding ended before its event
  overtaken         \* history: located races an import indexed as they were before

importVars == <<seen, fresh, enrichments, imports>>
geocodeVars == <<geocoding, todo, located>>
workVars == <<held, left, handler, broken, recipients, snapshot>>
mailVars == <<told, owed, promised>>
historyVars == <<cutOff, overtaken>>
faultVars == <<deaths, faulty>>
vars == <<rows, docs, importVars, geocodeVars, workVars, mailVars, historyVars, faultVars,
          queue, failures>>

Processes == {"worker", "console"}
Handlers == {"geocode", "notify", "reindex", "send"}
Serving == {"notify", "send"}

(* RacesImported has two handlers, RacesGeocoded one, and the mailer's own   *)
(* handler sends an email.                                                   *)
HandlersOf(kind) ==
  CASE kind = "imported" -> {"geocode", "notify"}
    [] kind = "geocoded" -> {"reindex"}
    [] kind = "email"    -> {"send"}

(* nr and copy tell apart messages that say the same.                        *)
Message(kind, nr, copy, ids, to) ==
  [kind |-> kind, nr |-> nr, copy |-> copy, races |-> ids, to |-> to,
   handlers |-> HandlersOf(kind), tries |-> 1]

(* dispatch: the message is in the transport.                                *)
Dispatch(m) == queue' = queue \cup {m}

(* The digest of import n to user u.                                         *)
IsDigest(m, n, u) == m.kind = "email" /\ m.nr = n /\ u \in m.to
Copy(n, u) ==
  CHOOSE c \in 0..Cardinality(queue \cup failures) :
    \A m \in queue \cup failures : IsDigest(m, n, u) => m.copy # c
RacesImported(ids) == Message("imported", imports + 1, 0, ids, {})
RacesGeocoded(p, ids) == Message("geocoded", 0, IF p = "worker" THEN 0 ELSE 1, ids, {})
SendEmailMessage(n, u) == Message("email", n, Copy(n, u), {}, {u})

Watchers(m) == {u \in Users : \E r \in m.races : rows[r] # "none" /\ <<u, CityOf[r]>> \in Watches}
Addressees(m) == IF m.kind = "email" THEN m.to ELSE Watchers(m)

-----------------------------------------------------------------------------
(* The import creates a race and indexes it ...                              *)
Import(r) ==
  /\ imports < MaxImports
  /\ rows[r] = "none"
  /\ rows' = [rows EXCEPT ![r] = "plain"]
  /\ docs' = [docs EXCEPT ![r] = "plain"]
  /\ seen' = [seen EXCEPT ![r] = "plain"]
  /\ fresh' = fresh \cup {r}
  /\ UNCHANGED <<enrichments, imports, geocodeVars, workVars, mailVars, queue, failures,
                 faultVars, historyVars>>

(* ... loads races it already knows ...                                      *)
Load(r) ==
  /\ enrichments < MaxEnrichments
  /\ seen[r] = "none" /\ rows[r] # "none"
  /\ seen' = [seen EXCEPT ![r] = rows[r]]
  /\ UNCHANGED <<rows, docs, fresh, enrichments, imports, geocodeVars, workVars, mailVars, queue,
                 failures, faultVars, historyVars>>

(* ... and indexes them after enriching them: the document is that of the    *)
(* entity in memory, which may be older than the row.                        *)
Enrich(r) ==
  /\ seen[r] # "none"
  /\ enrichments < MaxEnrichments
  /\ enrichments' = enrichments + 1
  /\ docs' = [docs EXCEPT ![r] = seen[r]]
  /\ overtaken' = overtaken \cup {x \in {r} : seen[x] = "plain" /\ rows[x] = "located"}
  /\ UNCHANGED <<rows, seen, fresh, imports, geocodeVars, workVars, mailVars, queue, failures,
                 cutOff, faultVars>>

(* At its end the import announces what it created, if anything.            *)
Announce ==
  /\ \E r \in Races : seen[r] # "none"
  /\ IF fresh = {} THEN UNCHANGED <<imports, queue>>
     ELSE imports' = imports + 1 /\ Dispatch(RacesImported(fresh))
  /\ seen' = [r \in Races |-> "none"]
  /\ fresh' = {}
  /\ UNCHANGED <<rows, docs, enrichments, geocodeVars, workVars, mailVars, failures, faultVars,
                 historyVars>>

-----------------------------------------------------------------------------
(* The worker takes a message and calls its handlers, one by one.            *)
Receive(m) ==
  /\ held = {}
  /\ queue' = queue \ {m}
  /\ held' = {m}
  /\ left' = m.handlers
  /\ broken' = {}
  /\ UNCHANGED <<rows, docs, importVars, geocodeVars, handler, recipients, snapshot, mailVars,
                 failures, faultVars, historyVars>>

Call(h) == held # {} /\ handler = "none" /\ h \in left /\ handler' = h /\ left' = left \ {h}

(* handle(raceIds) loads the races, keeps those without coordinates and asks *)
(* the geocoder, which answers for some of their cities; its errors are      *)
(* swallowed.  A race without an answer is counted as failed, and no more.   *)
Begin(p, ids) ==
  /\ ~geocoding[p]
  /\ geocoding' = [geocoding EXCEPT ![p] = TRUE]
  /\ \E answer \in SUBSET Cities :
       todo' = [todo EXCEPT ![p] = {r \in ids : rows[r] = "plain" /\ CityOf[r] \in answer}]
  /\ located' = located

CallGeocode ==
  /\ Call("geocode")
  /\ \E m \in held : Begin("worker", m.races)
  /\ UNCHANGED <<rows, docs, importVars, held, broken, recipients, snapshot, mailVars, queue,
                 failures, faultVars, historyVars>>

(* app:geocode: all races without coordinates.                               *)
Backfill ==
  /\ \E r \in Races : rows[r] = "plain"
  /\ Begin("console", Races)
  /\ UNCHANGED <<rows, docs, importVars, workVars, mailVars, queue, failures, faultVars,
                 historyVars>>

(* setCoordinates and save, race by race.                                    *)
SaveNext(p) ==
  /\ \E r \in todo[p] :
       /\ todo' = [todo EXCEPT ![p] = @ \ {r}]
       /\ rows' = [rows EXCEPT ![r] = "located"]
       /\ located' = [located EXCEPT ![p] = @ \cup {r}]
  /\ UNCHANGED <<docs, importVars, geocoding, workVars, mailVars, queue, failures, faultVars,
                 historyVars>>

Forget(p) ==
  /\ todo' = [todo EXCEPT ![p] = {}]
  /\ located' = [located EXCEPT ![p] = {}]
  /\ geocoding' = [geocoding EXCEPT ![p] = FALSE]

(* Mutant: app:geocode announces nothing.                                    *)
ConcludeSilently(p) ==
  /\ geocoding[p] /\ todo[p] = {}
  /\ IF located[p] # {} /\ p = "worker" THEN Dispatch(RacesGeocoded(p, located[p]))
     ELSE UNCHANGED queue
  /\ Forget(p)
  /\ handler' = IF p = "worker" THEN "none" ELSE handler
  /\ UNCHANGED <<rows, docs, importVars, held, left, broken, recipients, snapshot, mailVars,
                 failures, faultVars, historyVars>>

(* The geocoded races are announced together, after the last was saved.      *)
Conclude(p) ==
  /\ geocoding[p] /\ todo[p] = {}
  /\ IF located[p] # {} THEN Dispatch(RacesGeocoded(p, located[p])) ELSE UNCHANGED queue
  /\ Forget(p)
  /\ handler' = IF p = "worker" THEN "none" ELSE handler
  /\ UNCHANGED <<rows, docs, importVars, held, left, broken, recipients, snapshot, mailVars,
                 failures, faultVars, historyVars>>

-----------------------------------------------------------------------------
(* SendWatchlistNotificationHandler collects the watchers of the races'      *)
(* cities ...                                                                *)
CallNotify ==
  /\ Call("notify")
  /\ recipients' = UNION {Watchers(m) : m \in held}
  /\ UNCHANGED <<rows, docs, importVars, geocodeVars, held, broken, snapshot, mailVars, queue,
                 failures, faultVars, historyVars>>

(* Mutant: a message the transport refuses is logged.                        *)
MailOrLog(u) ==
  /\ handler = "notify" /\ u \in recipients
  /\ recipients' = recipients \ {u}
  /\ queue' = queue \/ \E m \in held : Dispatch(SendEmailMessage(m.nr, u))
  /\ UNCHANGED <<rows, docs, importVars, geocodeVars, held, left, handler, broken, snapshot,
                 mailVars, failures, faultVars, historyVars>>

(* ... and calls the mailer for each of them: SendEmailMessage is routed to  *)
(* the async transport, so the mail is one more message.                     *)
Mail(u) ==
  /\ handler = "notify" /\ u \in recipients
  /\ recipients' = recipients \ {u}
  /\ \E m \in held : Dispatch(SendEmailMessage(m.nr, u))
  /\ UNCHANGED <<rows, docs, importVars, geocodeVars, held, left, handler, broken, snapshot,
                 mailVars, failures, faultVars, historyVars>>

(* The mailer's handler, in the worker, hands an email to the mail server.   *)
CallSend ==
  /\ Call("send")
  /\ recipients' = UNION {m.to : m \in held}
  /\ UNCHANGED <<rows, docs, importVars, geocodeVars, held, broken, snapshot, mailVars, queue,
                 failures, faultVars, historyVars>>

Deliver(u) ==
  /\ handler = "send" /\ u \in recipients
  /\ recipients' = recipients \ {u}
  /\ \E m \in held : /\ told' = told \cup {<<m.nr, u>>}
                     /\ owed' = [owed EXCEPT ![m.nr][u] = @ - 1]
  /\ UNCHANGED <<rows, docs, importVars, geocodeVars, held, left, handler, broken, snapshot,
                 promised, queue, failures, faultVars, historyVars>>

(* Either handler returns when it has served everyone.                       *)
AllServed ==
  /\ handler \in Serving /\ recipients = {}
  /\ handler' = "none"
  /\ promised' = IF handler = "send" THEN promised
                 ELSE promised \cup UNION {{m.nr} \X Watchers(m) : m \in held}
  /\ UNCHANGED <<rows, docs, importVars, geocodeVars, held, left, broken, recipients, snapshot,
                 told, owed, queue, failures, faultVars, historyVars>>

(* ReindexRacesOnGeocodeHandler loads the races, then indexes them.          *)
CallReindex ==
  /\ Call("reindex")
  /\ snapshot' = [r \in Races |-> IF \E m \in held : r \in m.races THEN rows[r] ELSE "none"]
  /\ UNCHANGED <<rows, docs, importVars, geocodeVars, held, broken, recipients, mailVars, queue,
                 failures, faultVars, historyVars>>

Reindex ==
  /\ handler = "reindex"
  /\ docs' = [r \in Races |-> IF snapshot[r] # "none" THEN snapshot[r] ELSE docs[r]]
  /\ cutOff' = {r \in cutOff : snapshot[r] # "located"}
  /\ overtaken' = {r \in overtaken : snapshot[r] # "located"}
  /\ snapshot' = [r \in Races |-> "none"]
  /\ handler' = "none"
  /\ UNCHANGED <<rows, importVars, geocodeVars, held, left, broken, recipients, mailVars, queue,
                 failures, faultVars>>

-----------------------------------------------------------------------------
(* Those of `users' whom message m had served will be served again.          *)
ServeAgain(m, users) ==
  owed' = [n \in 1..MaxImports |-> [u \in Users |->
                IF n = m.nr /\ u \in users THEN owed[n][u] + 1 ELSE owed[n][u]]]

(* A handler throws, after some of its work or none: the others are still    *)
(* called.                                                                   *)
Throw ==
  /\ handler \in Handlers \cap faulty
  /\ handler' = "none"
  /\ broken' = broken \cup {handler}
  /\ recipients' = {}
  /\ snapshot' = [r \in Races |-> "none"]
  /\ cutOff' = cutOff \cup located["worker"]
  /\ Forget("worker")
  /\ \E m \in held :
       ServeAgain(m, IF handler \in Serving THEN Addressees(m) \ recipients ELSE {})
  /\ UNCHANGED <<rows, docs, importVars, held, left, told, promised, queue, failures, faultVars,
                 overtaken>>

(* Mutant: a message is sent again to all its handlers.                      *)
SettleForAll ==
  /\ held # {} /\ left = {} /\ handler = "none"
  /\ held' = {} /\ broken' = {}
  /\ \E m \in held :
       LET again == [m EXCEPT !.tries = @ + 1] IN
       IF broken = {} THEN UNCHANGED <<queue, failures>>
       ELSE IF m.tries < MaxTries THEN queue' = queue \cup {again} /\ failures' = failures
       ELSE failures' = failures \cup {again} /\ queue' = queue
  /\ UNCHANGED <<rows, docs, importVars, geocodeVars, left, handler, recipients, snapshot,
                 mailVars, faultVars, historyVars>>

(* Mutant: one try too many.                                                 *)
SettleOneMore ==
  /\ held # {} /\ left = {} /\ handler = "none"
  /\ held' = {} /\ broken' = {}
  /\ \E m \in held :
       LET again == [m EXCEPT !.handlers = broken, !.tries = @ + 1] IN
       IF broken = {} THEN UNCHANGED <<queue, failures>>
       ELSE IF m.tries <= MaxTries THEN queue' = queue \cup {again} /\ failures' = failures
       ELSE failures' = failures \cup {again} /\ queue' = queue
  /\ UNCHANGED <<rows, docs, importVars, geocodeVars, left, handler, recipients, snapshot,
                 mailVars, faultVars, historyVars>>

(* Mutant: the tries are not counted.                                        *)
SettleForever ==
  /\ held # {} /\ left = {} /\ handler = "none"
  /\ held' = {} /\ broken' = {}
  /\ \E m \in held :
       queue' = IF broken = {} THEN queue ELSE queue \cup {[m EXCEPT !.handlers = broken]}
  /\ UNCHANGED <<rows, docs, importVars, geocodeVars, left, handler, recipients, snapshot,
                 mailVars, failures, faultVars, historyVars>>

(* After the last handler the message is acknowledged, or sent again to the  *)
(* handlers that threw, or put away after the last try.                      *)
Settle ==
  /\ held # {} /\ left = {} /\ handler = "none"
  /\ held' = {} /\ broken' = {}
  /\ \E m \in held :
       LET again == [m EXCEPT !.handlers = broken, !.tries = @ + 1] IN
       IF broken = {} THEN UNCHANGED <<queue, failures>>
       ELSE IF m.tries < MaxTries THEN queue' = queue \cup {again} /\ failures' = failures
       ELSE failures' = failures \cup {again} /\ queue' = queue
  /\ UNCHANGED <<rows, docs, importVars, geocodeVars, left, handler, recipients, snapshot,
                 mailVars, faultVars, historyVars>>

(* The worker dies: its message is delivered again as it was.                *)
WorkerDies ==
  /\ held # {} /\ deaths < MaxDeaths
  /\ deaths' = deaths + 1
  /\ queue' = queue \cup held
  /\ held' = {} /\ left' = {} /\ handler' = "none" /\ broken' = {}
  /\ recipients' = {}
  /\ snapshot' = [r \in Races |-> "none"]
  /\ cutOff' = cutOff \cup located["worker"]
  /\ Forget("worker")
  /\ \E m \in held :
       ServeAgain(m, IF Serving \cap m.handlers # {} /\ Serving \cap (left \cup broken) = {}
                     THEN Addressees(m) \ recipients ELSE {})
  /\ UNCHANGED <<rows, docs, importVars, told, promised, failures, overtaken, faulty>>

(* app:geocode is interrupted.                                               *)
ConsoleDies ==
  /\ geocoding["console"] /\ deaths < MaxDeaths
  /\ deaths' = deaths + 1
  /\ cutOff' = cutOff \cup located["console"]
  /\ Forget("console")
  /\ UNCHANGED <<rows, docs, importVars, workVars, mailVars, queue, failures, overtaken, faulty>>

-----------------------------------------------------------------------------
Init ==
  /\ faulty \in {S \in SUBSET Handlers : Cardinality(S) = MaxFaulty}
  /\ rows = [r \in Races |-> "none"] /\ docs = rows /\ seen = rows /\ snapshot = rows
  /\ fresh = {} /\ queue = {} /\ held = {} /\ failures = {}
  /\ left = {} /\ handler = "none" /\ broken = {} /\ recipients = {}
  /\ todo = [p \in Processes |-> {}] /\ located = todo
  /\ geocoding = [p \in Processes |-> FALSE]
  /\ imports = 0 /\ enrichments = 0 /\ deaths = 0
  /\ owed = [n \in 1..MaxImports |-> [u \in Users |-> 1]]
  /\ told = {} /\ promised = {} /\ cutOff = {} /\ overtaken = {}

WorkerStep ==
  \/ \E m \in queue : Receive(m)
  \/ CallGeocode \/ SaveNext("worker") \/ Conclude("worker")
  \/ CallNotify \/ CallSend \/ (\E u \in Users : Mail(u) \/ Deliver(u)) \/ AllServed
  \/ CallReindex \/ Reindex \/ Settle

ConsoleStep == SaveNext("console") \/ Conclude("console")

Next ==
  \/ \E r \in Races : Import(r) \/ Load(r) \/ Enrich(r)
  \/ Announce \/ Backfill
  \/ WorkerStep \/ ConsoleStep
  \/ Throw \/ WorkerDies \/ ConsoleDies

Spec == Init /\ [][Next]_vars

(* The worker and a started command go on; imports end.                      *)
FairSpec == Spec /\ WF_vars(WorkerStep) /\ WF_vars(ConsoleStep)

-----------------------------------------------------------------------------
(* Types; the locals of a handler are empty unless it runs.                  *)
TypeOK ==
  /\ \A f \in {rows, docs, seen, snapshot} : f \in [Races -> {"none", "plain", "located"}]
  /\ geocoding \in [Processes -> BOOLEAN]
  /\ handler \in Handlers \cup {"none"}
  /\ Cardinality(held) <= 1
  /\ held = {} => handler = "none" /\ left = {}
  /\ handler = "geocode" <=> geocoding["worker"]
  /\ recipients # {} => handler \in Serving
  /\ \A p \in Processes : ~geocoding[p] => todo[p] \cup located[p] = {}
  /\ \A m \in queue \cup held \cup failures :
       /\ m.nr \in 0..imports /\ m.tries \in 1..(MaxTries + 1)
       /\ m.handlers # {} /\ m.handlers \subseteq HandlersOf(m.kind)

(* A reindex of race r is still to come: a message a worker will take, one   *)
(* in its hands, the handler at work, or a geocoding that has still to       *)
(* announce it.  (By QueueDrains what is to come does come.)                 *)
ReindexComing(r) ==
  \/ \E m \in queue : m.kind = "geocoded" /\ r \in m.races
  \/ \E m \in held : m.kind = "geocoded" /\ r \in m.races /\ left \cup broken # {}
  \/ handler = "reindex" /\ snapshot[r] = "located"
  \/ \E p \in Processes : r \in located[p]

(* The reindex of race r threw at every try: its message waits in the failed *)
(* transport, for an operator.                                               *)
ReindexGivenUp(r) ==
  \E m \in failures : m.kind = "geocoded" /\ r \in m.races /\ m.tries > MaxTries

(* A race with coordinates has them in its document, or a reindex of it is   *)
(* still to come.  There are three ways around it, and no fourth: its        *)
(* reindex threw at every try, its geocoding was cut off between the save    *)
(* and the event, or an import indexed the race as it was loaded before.     *)
LocatedIsIndexed ==
  \A r \in Races : rows[r] = "located" =>
    \/ docs[r] = "located" \/ ReindexComing(r)
    \/ ReindexGivenUp(r) \/ r \in cutOff \/ r \in overtaken

(* A watcher gets one digest of an import, and one more only each time a     *)
(* notification that had enqueued it, or an email that had been delivered,   *)
(* was run again: a failure of the other handler of RacesImported, of        *)
(* another message, or before it was the watcher's turn, repeats no mail.    *)
DigestRepeatedOnlyByFailure ==
  \A n \in 1..MaxImports, u \in Users : owed[n][u] >= 0

(* Whoever watched a city when the notification of an import was done got    *)
(* the digest, or it is in the transport or in the worker's hands, or its    *)
(* sending threw at every try.                                               *)
WatchersAreTold ==
  \A n \in 1..MaxImports, u \in Users : <<n, u>> \in promised =>
    \/ <<n, u>> \in told
    \/ \E m \in queue \cup held : IsDigest(m, n, u)
    \/ \E m \in failures : IsDigest(m, n, u) /\ m.tries > MaxTries

(* Every announced event is handled in the end, or put in the failed         *)
(* transport: the queue drains.                                              *)
QueueDrains == <>[](queue = {} /\ held = {})
=============================================================================
