------------------------------ MODULE RaceImport ------------------------------
(*****************************************************************************)
(* The race import: ImportRacesHandler over the Doctrine race repository,    *)
(* the search index and the RacesImported event.                             *)
(*                                                                           *)
(* A job is one import of one source, run by the scheduler process, by the   *)
(* async worker or by app:import --sync.  For every scraped record it        *)
(* looks for the race by slug, then for a similar race at the same place and *)
(* time, enriches what it finds or creates a race, commits, and indexes the  *)
(* race; after the last record it announces the races it created.  A job     *)
(* aborts where an exception escapes or its process dies, and may be tried   *)
(* again from the start with a fresh scrape.                                 *)
(*                                                                           *)
(* Doctrine's identity map is part of the model: a race a job has loaded     *)
(* stays in its memory as loaded (seen), and a query for it answers from     *)
(* there.  An edition in memory keeps the time of day it was built with,     *)
(* because createFromFormat('Y-m-d') takes the missing fields from the       *)
(* clock; the DATE column keeps the day only.                                *)
(*****************************************************************************)
EXTENDS Naturals, FiniteSets, SequencesExt

CONSTANTS
  Jobs,            \* import jobs
  Records,         \* records the scrapers deliver
  SlugOf,          \* Slugifier: name -> slug
  SimilarNames,    \* pairs {a, b} of different names DuplicateDetector takes for one race
  NoVoivodeship,   \* the empty voivodeship
  Days,            \* dates, as day numbers
  DaysPerYear,     \* days of a model year
  DayLength,       \* units of the clock in a day
  Clocks,          \* times of day at which records are handled
  Near,            \* hasDistance: lengths closer than this (0.01 km) are the same
  MaxRunning,      \* bound: jobs that run at the same time
  MaxRecords,      \* bound: records of one scrape
  MaxAttempts      \* 1 + max_retries: how often a job is tried

(* RawRaceData: distances are lengths, a normalized name is its length.      *)
ASSUME RecordsAssumption ==
  \A rec \in Records : /\ rec.day \in Days
                       /\ rec.name \in DOMAIN SlugOf
                       /\ rec.distances \in Seq(Nat)
ASSUME TimeAssumption ==
  /\ Days \subseteq Nat
  /\ {DaysPerYear, DayLength, Near} \subseteq Nat \ {0}
  /\ Clocks \subseteq 0..(DayLength - 1)
ASSUME BoundsAssumption == {MaxRunning, MaxRecords, MaxAttempts} \subseteq Nat

VARIABLES
  races,       \* the race, edition and distance tables, as whole races
  index,       \* documents of the search index, one per race id
  announced,   \* ids carried by dispatched RacesImported events
  stage, attempt, handled, seen, entity, change, fresh,      \* the jobs
  unindexed,   \* history: races committed by a job that died before indexing them
  unannounced  \* history: races created by a job that died before its event

vars == <<races, index, announced, stage, attempt, handled, seen, entity,
          change, fresh, unindexed, unannounced>>

-----------------------------------------------------------------------------
Year(d) == d \div DaysPerYear
Timestamp(day, clock) == day * DayLength + clock
Gap(a, b) == IF a > b THEN a - b ELSE b - a

Slug(race) == SlugOf[race.name]
Similar(a, b) == a = b \/ {a, b} \in SimilarNames
HasId(id, set) == \E r \in set : r.id = id

(* Mutant: the date column keeps the time of day.                            *)
StoredWithTime(race) == race

(* What the tables keep of a race: edition dates lose their time of day.     *)
Stored(race) == [race EXCEPT !.editions = {[e EXCEPT !.clock = 0] : e \in @}]

(* A query result as job j sees it: the entity it already has, else the row. *)
Managed(j, row) ==
  IF HasId(row.id, seen[j]) THEN CHOOSE r \in seen[j] : r.id = row.id ELSE row

Remember(j, race) ==
  seen' = [seen EXCEPT ![j] = {r \in @ : r.id # race.id} \cup {race}]

(* Edition::addDistance throws DuplicateDistanceException on an equal one.   *)
BuildsEdition(rec) == IsInjective(rec.distances)

(* The edition is named after the job, attempt and record that built it.     *)
NewEdition(j, rec, clock) ==
  [by |-> <<j, attempt[j], handled[j]>>, day |-> rec.day, clock |-> clock,
   distances |-> ToSet(rec.distances)]

(* Edition::hasDistance, for each scraped distance and what precedes it.     *)
Missing(known, distances) ==
  FoldLeft(LAMBDA new, km : IF \E k \in known \cup new : Gap(k, km) < Near
                            THEN new ELSE new \cup {km},
           {}, distances)
AddMissing(known, distances) == known \cup Missing(known, distances)

(* Race::findEditionByDate: timestamps at most 86400 seconds apart.          *)
EditionsAt(race, day, clock) ==
  {e \in race.editions : Gap(Timestamp(e.day, e.clock), Timestamp(day, clock)) <= DayLength}

(* Race::addEdition throws DuplicateEditionException.                        *)
YearTaken(race, day) == \E e \in race.editions : Year(e.day) = Year(day)

(* findBySlug; without a hit, findSimilar and DuplicateDetector.             *)
BySlug(rec) == {r \in races : Slug(r) = SlugOf[rec.name]}
SimilarRaces(rec) ==
  {r \in races : /\ r.city = rec.city
                 /\ \E e \in r.editions : Gap(e.day, rec.day) <= 1
                 /\ Similar(r.name, rec.name)}
(* Mutant: the catalogue is searched by slug only.                           *)
MatchesBySlugOnly(rec) == BySlug(rec)

Matches(rec) == IF BySlug(rec) # {} THEN BySlug(rec) ELSE SimilarRaces(rec)

-----------------------------------------------------------------------------
Running == {j \in Jobs : stage[j] \notin {"waiting", "done"}}

(* An attempt starts with an empty entity manager and a new scrape.          *)
Start(j) ==
  /\ stage[j] = "waiting"
  /\ attempt[j] < MaxAttempts
  /\ Cardinality(Running) < MaxRunning
  /\ stage' = [stage EXCEPT ![j] = "scan"]
  /\ attempt' = [attempt EXCEPT ![j] = @ + 1]
  /\ handled' = [handled EXCEPT ![j] = 0]
  /\ UNCHANGED <<races, index, announced, seen, entity, change, fresh, unindexed, unannounced>>

(* Mutant: a new attempt finds the entities of the one before in memory.     *)
AbortKeepsMemory(j) ==
  /\ stage[j] \in {"scan", "save", "index"}
  /\ stage' = [stage EXCEPT ![j] = "waiting"]
  /\ handled' = [handled EXCEPT ![j] = 0]
  /\ entity' = [entity EXCEPT ![j] = {}]
  /\ change' = [change EXCEPT ![j] = {}]
  /\ fresh' = [fresh EXCEPT ![j] = {}]
  /\ LET cut == IF stage[j] = "index" THEN {r.id : r \in entity[j]} ELSE {} IN
     /\ unindexed' = unindexed \cup cut
     /\ unannounced' = unannounced \cup fresh[j] \cup (IF "created" \in change[j] THEN cut ELSE {})
  /\ UNCHANGED <<races, index, announced, attempt, seen>>

(* An exception leaves handle, or the process dies.  What was committed      *)
(* stays; the entity manager and newRaceIds are gone.                        *)
Abort(j) ==
  /\ stage[j] \in {"scan", "save", "index"}
  /\ stage' = [stage EXCEPT ![j] = "waiting"]
  /\ handled' = [handled EXCEPT ![j] = 0]
  /\ seen' = [seen EXCEPT ![j] = {}]
  /\ entity' = [entity EXCEPT ![j] = {}]
  /\ change' = [change EXCEPT ![j] = {}]
  /\ fresh' = [fresh EXCEPT ![j] = {}]
  /\ LET cut == IF stage[j] = "index" THEN {r.id : r \in entity[j]} ELSE {} IN
     /\ unindexed' = unindexed \cup cut
     /\ unannounced' = unannounced \cup fresh[j] \cup (IF "created" \in change[j] THEN cut ELSE {})
  /\ UNCHANGED <<races, index, announced, attempt>>

Scanning(j) == stage[j] = "scan" /\ handled[j] < MaxRecords
NextRecord(j) == handled' = [handled EXCEPT ![j] = @ + 1]

(* A record whose date does not parse is skipped.                            *)
SkipInvalidDate(j) ==
  /\ Scanning(j)
  /\ NextRecord(j)
  /\ UNCHANGED <<races, index, announced, stage, attempt, seen, entity, change, fresh,
                 unindexed, unannounced>>

Plan(j, race, kinds) ==
  /\ stage' = [stage EXCEPT ![j] = "save"]
  /\ entity' = [entity EXCEPT ![j] = {race}]
  /\ change' = [change EXCEPT ![j] = kinds]

(* No match: Race::create with its first edition.                            *)
Create(j, rec, clock) ==
  /\ Scanning(j)
  /\ Matches(rec) = {}
  /\ BuildsEdition(rec)
  /\ LET race == [id |-> <<j, attempt[j], handled[j]>>, name |-> rec.name, city |-> rec.city,
                  voivodeship |-> rec.voivodeship, editions |-> {NewEdition(j, rec, clock)}]
     IN  Plan(j, race, {"created"}) /\ seen' = seen
  /\ NextRecord(j)
  /\ UNCHANGED <<races, index, announced, attempt, fresh, unindexed, unannounced>>

(* Mutant: updateVoivodeship overwrites.                                     *)
FillVoivodeshipAlways(race, rec) ==
  IF rec.voivodeship # NoVoivodeship THEN [race EXCEPT !.voivodeship = rec.voivodeship] ELSE race

(* Race::updateVoivodeship fills an empty voivodeship only.                  *)
FillVoivodeship(race, rec) ==
  IF race.voivodeship = NoVoivodeship THEN [race EXCEPT !.voivodeship = rec.voivodeship] ELSE race

(* enrichRace's work on the editions: add an edition, leave a year that has  *)
(* one already, or add missing distances to an edition of the match window.  *)
EnrichedEditions(j, race, rec, clock) ==
  LET matching == EditionsAt(race, rec.day, clock) IN
  IF matching = {}
  THEN {race.editions \cup (IF YearTaken(race, rec.day) THEN {} ELSE {NewEdition(j, rec, clock)})}
  ELSE {(race.editions \ {e}) \cup {[e EXCEPT !.distances = AddMissing(@, rec.distances)]}
          : e \in matching}

(* A match: enrichRace, which commits and indexes only if something changed. *)
Enrich(j, rec, clock) ==
  /\ Scanning(j)
  /\ \E row \in Matches(rec) :
       LET race == Managed(j, row) IN
       /\ EditionsAt(race, rec.day, clock) = {} => BuildsEdition(rec)
       /\ \E editions \in EnrichedEditions(j, race, rec, clock) :
            LET enriched == [FillVoivodeship(race, rec) EXCEPT !.editions = editions] IN
            /\ Remember(j, enriched)
            /\ IF enriched # race
               THEN Plan(j, enriched,
                         IF enriched.voivodeship # race.voivodeship THEN {"voivodeship"} ELSE {})
               ELSE UNCHANGED <<stage, entity, change>>
  /\ NextRecord(j)
  /\ UNCHANGED <<races, index, announced, attempt, fresh, unindexed, unannounced>>

(* A repeated distance escapes as DuplicateDistanceException: the whole job  *)
(* aborts, at this record again on every attempt that meets it.              *)
Poisoned(j, rec, clock) ==
  /\ Scanning(j)
  /\ ~BuildsEdition(rec)
  /\ \/ Matches(rec) = {}
     \/ \E row \in Matches(rec) : EditionsAt(Managed(j, row), rec.day, clock) = {}
  /\ Abort(j)

(* The flush adds new editions and distances and writes changed columns; it  *)
(* does not look at what others committed since the race was loaded.         *)
Merged(row, race, kinds) ==
  LET mine(by) == {e \in Stored(race).editions : e.by = by}
      rows(by) == {e \in row.editions : e.by = by}
      stamps == {e.by : e \in Stored(race).editions \cup row.editions}
      merge(by) == [(CHOOSE e \in mine(by) \cup rows(by) : TRUE) EXCEPT
                      !.distances = UNION {e.distances : e \in mine(by) \cup rows(by)}]
  IN  [row EXCEPT !.voivodeship = IF "voivodeship" \in kinds THEN race.voivodeship ELSE @,
                  !.editions = {merge(by) : by \in stamps}]

(* Commit.  The unique index on slug refuses a race another job created in   *)
(* the meantime; that aborts the job (Collide).                              *)
Save(j) ==
  /\ stage[j] = "save"
  /\ stage' = [stage EXCEPT ![j] = "index"]
  /\ \E race \in entity[j] :
       IF "created" \in change[j]
       THEN /\ \A r \in races : Slug(r) # Slug(race)
            /\ races' = races \cup {Stored(race)}
            /\ Remember(j, race)
       ELSE /\ races' = {IF r.id = race.id THEN Merged(r, race, change[j]) ELSE r : r \in races}
            /\ seen' = seen
  /\ UNCHANGED <<index, announced, attempt, handled, entity, change, fresh, unindexed, unannounced>>

Collide(j) ==
  /\ stage[j] = "save"
  /\ "created" \in change[j]
  /\ \E race \in entity[j], r \in races : Slug(r) = Slug(race)
  /\ Abort(j)

(* Mutant: an enriched race is not indexed again.                            *)
IndexCreatedOnly(j) ==
  /\ stage[j] = "index"
  /\ \E race \in entity[j] :
       IF "created" \in change[j]
       THEN /\ index' = index \cup {Stored(race)}
            /\ fresh' = [fresh EXCEPT ![j] = @ \cup {race.id}]
       ELSE UNCHANGED <<index, fresh>>
  /\ stage' = [stage EXCEPT ![j] = "scan"]
  /\ entity' = [entity EXCEPT ![j] = {}]
  /\ change' = [change EXCEPT ![j] = {}]
  /\ UNCHANGED <<races, announced, attempt, handled, seen, unindexed, unannounced>>

(* Mutant: newRaceIds is assigned instead of appended to.                    *)
IndexLastOnly(j) ==
  /\ stage[j] = "index"
  /\ \E race \in entity[j] :
       /\ index' = {d \in index : d.id # race.id} \cup {Stored(race)}
       /\ unindexed' = unindexed \ {race.id}
       /\ fresh' = [fresh EXCEPT ![j] = IF "created" \in change[j] THEN {race.id} ELSE @]
  /\ stage' = [stage EXCEPT ![j] = "scan"]
  /\ entity' = [entity EXCEPT ![j] = {}]
  /\ change' = [change EXCEPT ![j] = {}]
  /\ UNCHANGED <<races, announced, attempt, handled, seen, unannounced>>

(* indexRace puts the document of the entity in memory; a created race joins *)
(* newRaceIds.                                                               *)
Index(j) ==
  /\ stage[j] = "index"
  /\ \E race \in entity[j] :
       /\ index' = {d \in index : d.id # race.id} \cup {Stored(race)}
       /\ unindexed' = unindexed \ {race.id}
       /\ fresh' = [fresh EXCEPT ![j] = IF "created" \in change[j] THEN @ \cup {race.id} ELSE @]
  /\ stage' = [stage EXCEPT ![j] = "scan"]
  /\ entity' = [entity EXCEPT ![j] = {}]
  /\ change' = [change EXCEPT ![j] = {}]
  /\ UNCHANGED <<races, announced, attempt, handled, seen, unannounced>>

(* The end of the scrape: one RacesImported for the created races.           *)
Finish(j) ==
  /\ stage[j] = "scan"
  /\ announced' = announced \cup fresh[j]
  /\ stage' = [stage EXCEPT ![j] = "done"]
  /\ seen' = [seen EXCEPT ![j] = {}]
  /\ fresh' = [fresh EXCEPT ![j] = {}]
  /\ handled' = [handled EXCEPT ![j] = 0]
  /\ UNCHANGED <<races, index, attempt, entity, change, unindexed, unannounced>>

-----------------------------------------------------------------------------
Init ==
  /\ races = {} /\ index = {} /\ announced = {}
  /\ stage = [j \in Jobs |-> "waiting"]
  /\ attempt = [j \in Jobs |-> 0]
  /\ handled = [j \in Jobs |-> 0]
  /\ seen = [j \in Jobs |-> {}]
  /\ entity = [j \in Jobs |-> {}]
  /\ change = [j \in Jobs |-> {}]
  /\ fresh = [j \in Jobs |-> {}]
  /\ unindexed = {} /\ unannounced = {}

Next ==
  \E j \in Jobs :
    \/ Start(j) \/ SkipInvalidDate(j)
    \/ \E rec \in Records, clock \in Clocks :
         Create(j, rec, clock) \/ Enrich(j, rec, clock) \/ Poisoned(j, rec, clock)
    \/ Save(j) \/ Collide(j) \/ Index(j) \/ Finish(j) \/ Abort(j)

Spec == Init /\ [][Next]_vars

-----------------------------------------------------------------------------
(* Types of the job state, and the shape of the tables: a job that commits   *)
(* or indexes has exactly one entity at hand.                                *)
TypeOK ==
  /\ stage \in [Jobs -> {"waiting", "scan", "save", "index", "done"}]
  /\ attempt \in [Jobs -> 0..MaxAttempts]
  /\ handled \in [Jobs -> 0..MaxRecords]
  /\ change \in [Jobs -> SUBSET {"created", "voivodeship"}]
  /\ \A j \in Jobs : Cardinality(entity[j]) = (IF stage[j] \in {"save", "index"} THEN 1 ELSE 0)
  /\ \A r \in races \cup index : \A e \in r.editions : e.day \in Days /\ e.clock = 0

(* No race of the catalogue is missing from the index or differs from its    *)
(* document, except the one a running job is about to index and those a job  *)
(* that died left behind.                                                    *)
IndexInSync ==
  \A r \in races :
    \/ r \in index
    \/ \E j \in Jobs : stage[j] = "index" /\ HasId(r.id, entity[j])
    \/ r.id \in unindexed

(* Every created race is announced, or will be by the job that created it,   *)
(* unless that job died in between; and only committed races are announced.  *)
EveryRaceAnnounced ==
  /\ \A r \in races :
       \/ r.id \in announced \cup unannounced
       \/ \E j \in Jobs : \/ r.id \in fresh[j]
                          \/ /\ stage[j] = "index" /\ "created" \in change[j]
                             /\ HasId(r.id, entity[j])
  /\ \A id \in announced : HasId(id, races)

(* A race has one edition of a calendar year at most, whatever the sources   *)
(* report and wherever a scrape was cut off and tried again: addEdition      *)
(* refuses another one, on the race as the job has it in memory, and no key  *)
(* of the edition table backs that.                                          *)
OneEditionPerYear ==
  \A r \in races : \A e, f \in r.editions : Year(e.day) = Year(f.day) => e = f

(* Imports never create a race beside a similar one of the same city that    *)
(* already has an edition within a day.                                      *)
NoNearDuplicateCreated ==
  [][\A n \in races' : HasId(n.id, races) \/
       \A r \in races, e \in n.editions :
         ~ (/\ r.city = n.city /\ Similar(r.name, n.name)
            /\ \E f \in r.editions : Gap(e.day, f.day) <= 1)]_vars

(* Imports only add: a race, an edition, a distance or a voivodeship that    *)
(* was committed is never lost or overwritten by a later record or job.      *)
EnrichmentOnlyAdds ==
  [][\A r \in races : \E n \in races' :
       /\ n.id = r.id
       /\ r.voivodeship \in {NoVoivodeship, n.voivodeship}
       /\ \A e \in r.editions : \E f \in n.editions :
            f.by = e.by /\ f.day = e.day /\ e.distances \subseteq f.distances]_vars

=============================================================================
