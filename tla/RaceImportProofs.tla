---------------------------- MODULE RaceImportProofs ----------------------------
(*****************************************************************************)
(* Type correctness of RaceImport and the announcement of every race, for    *)
(* any number of jobs that run at the same time, any records, clocks and     *)
(* attempts; and for jobs in turn that the index follows the catalogue, that *)
(* no near-duplicate is created, that nothing committed is lost and that a   *)
(* race has one edition of a year.  Which scraped distances an edition lacks *)
(* (Missing, a fold) stays opaque throughout.                                *)
(*****************************************************************************)
EXTENDS RaceImport, FiniteSetTheorems, TLAPS

(* An edition with its day and its time of day, a race with its editions,    *)
(* and a race as the tables hold it, without times of day.                   *)
EditionShape(e) ==
  /\ e = [by |-> e.by, day |-> e.day, clock |-> e.clock, distances |-> e.distances]
  /\ e.day \in Days /\ e.clock \in 0..(DayLength - 1)
RaceShape(r) ==
  /\ r = [id |-> r.id, name |-> r.name, city |-> r.city, voivodeship |-> r.voivodeship,
          editions |-> r.editions]
  /\ \A e \in r.editions : EditionShape(e)
StoredShape(r) == RaceShape(r) /\ \A e \in r.editions : e.clock = 0

-----------------------------------------------------------------------------
(* What is done to editions and races keeps their shape and their identity.  *)

(* A record that is built from its fields has the shape of an edition.       *)
LEMMA EditionOf ==
  ASSUME NEW b, NEW d \in Days, NEW k \in 0..(DayLength - 1), NEW ds, NEW e,
         e = [by |-> b, day |-> d, clock |-> k, distances |-> ds]
  PROVE  EditionShape(e) /\ e.by = b /\ e.day = d /\ e.clock = k
  BY DEF EditionShape

(* The same for a race.                                                      *)
LEMMA RaceOf ==
  ASSUME NEW i, NEW n, NEW c, NEW v, NEW E, NEW r, \A e \in E : EditionShape(e),
         r = [id |-> i, name |-> n, city |-> c, voivodeship |-> v, editions |-> E]
  PROVE  RaceShape(r) /\ r.id = i /\ r.editions = E
  BY DEF RaceShape

(* The tables keep a race but for the times of day (Stored).                 *)
LEMMA StoredKeeps ==
  ASSUME NEW r, RaceShape(r)
  PROVE  StoredShape(Stored(r)) /\ Stored(r).id = r.id
  <1> DEFINE E == {[e EXCEPT !.clock = 0] : e \in r.editions}
  <1>1. Stored(r) = [id |-> r.id, name |-> r.name, city |-> r.city, voivodeship |-> r.voivodeship,
                     editions |-> E]
    BY DEF Stored, RaceShape
  <1>2. ASSUME NEW e \in r.editions
        PROVE  EditionShape([e EXCEPT !.clock = 0]) /\ [e EXCEPT !.clock = 0].clock = 0
    <2>1. EditionShape(e)
      BY DEF RaceShape
    <2>2. [e EXCEPT !.clock = 0]
            = [by |-> e.by, day |-> e.day, clock |-> 0, distances |-> e.distances]
      BY <2>1 DEF EditionShape
    <2>3. e.day \in Days /\ 0 \in 0..(DayLength - 1)
      BY <2>1, TimeAssumption DEF EditionShape
    <2> HIDE DEF E
    <2>4. QED
      BY <2>2, <2>3, EditionOf
  <1>3. ASSUME NEW e \in E PROVE EditionShape(e) /\ e.clock = 0
    <2>1. PICK f \in r.editions : e = [f EXCEPT !.clock = 0]
      OBVIOUS
    <2>2. QED
      BY <1>2, <2>1
  <1> HIDE DEF E
  <1>4. RaceShape(Stored(r)) /\ Stored(r).id = r.id /\ Stored(r).editions = E
    BY <1>1, <1>3, RaceOf
  <1>5. QED
    BY <1>3, <1>4 DEF StoredShape

(* updateVoivodeship touches neither editions nor id.                        *)
LEMMA FillKeeps ==
  ASSUME NEW r, RaceShape(r), NEW rec, NEW E, \A e \in E : EditionShape(e)
  PROVE  /\ RaceShape([FillVoivodeship(r, rec) EXCEPT !.editions = E])
         /\ [FillVoivodeship(r, rec) EXCEPT !.editions = E].id = r.id
  <1> DEFINE v == IF r.voivodeship = NoVoivodeship THEN rec.voivodeship ELSE r.voivodeship
             new == [FillVoivodeship(r, rec) EXCEPT !.editions = E]
  <1>1. r = [id |-> r.id, name |-> r.name, city |-> r.city, voivodeship |-> r.voivodeship,
             editions |-> r.editions]
    BY DEF RaceShape
  <1>2. FillVoivodeship(r, rec) = [id |-> r.id, name |-> r.name, city |-> r.city, voivodeship |-> v,
                                   editions |-> r.editions]
    <2>1. [r EXCEPT !.voivodeship = rec.voivodeship]
            = [id |-> r.id, name |-> r.name, city |-> r.city, voivodeship |-> rec.voivodeship,
               editions |-> r.editions]
      BY <1>1
    <2>2. CASE r.voivodeship = NoVoivodeship
      BY <2>1, <2>2 DEF FillVoivodeship
    <2>3. CASE r.voivodeship # NoVoivodeship
      BY <1>1, <2>3 DEF FillVoivodeship
    <2>4. QED
      BY <2>2, <2>3
  <1> HIDE DEF v
  <1>3. new = [id |-> r.id, name |-> r.name, city |-> r.city, voivodeship |-> v, editions |-> E]
    BY <1>2
  <1> HIDE DEF new
  <1>4. RaceShape(new) /\ new.id = r.id
    BY <1>3, RaceOf
  <1>5. QED
    BY <1>4 DEF new

(* A new edition has the day of its record (NewEdition).                     *)
LEMMA NewEditionShape ==
  ASSUME NEW j, NEW rec \in Records, NEW clock \in Clocks
  PROVE  EditionShape(NewEdition(j, rec, clock))
  <1>1. rec.day \in Days /\ clock \in 0..(DayLength - 1)
    BY RecordsAssumption, TimeAssumption
  <1>2. QED
    BY <1>1, EditionOf DEF NewEdition

(* enrichRace's editions: those there were, more distances, or one more.     *)
LEMMA EnrichedShape ==
  ASSUME NEW j, NEW r, RaceShape(r), NEW rec \in Records, NEW clock \in Clocks,
         NEW E \in EnrichedEditions(j, r, rec, clock)
  PROVE  \A e \in E : EditionShape(e)
  <1> SUFFICES ASSUME NEW e \in E, e \notin r.editions PROVE EditionShape(e)
    BY DEF RaceShape
  <1>1. CASE EditionsAt(r, rec.day, clock) = {}
    <2>1. e = NewEdition(j, rec, clock)
      BY <1>1 DEF EnrichedEditions
    <2>2. QED
      BY <2>1, NewEditionShape
  <1>2. CASE EditionsAt(r, rec.day, clock) # {}
    <2>1. PICK f \in EditionsAt(r, rec.day, clock) :
            e = [f EXCEPT !.distances = AddMissing(@, rec.distances)]
      BY <1>2 DEF EnrichedEditions
    <2>2. EditionShape(f)
      BY <2>1 DEF EditionsAt, RaceShape
    <2> DEFINE ds == AddMissing(f.distances, rec.distances)
    <2>3. e = [f EXCEPT !.distances = ds]
      BY <2>1
    <2> HIDE DEF ds
    <2>4. e = [by |-> f.by, day |-> f.day, clock |-> f.clock, distances |-> ds]
          /\ f.day \in Days /\ f.clock \in 0..(DayLength - 1)
      BY <2>2, <2>3 DEF EditionShape
    <2>5. QED
      BY <2>4, EditionOf
  <1>3. QED
    BY <1>1, <1>2

(* The flush writes rows of the same shape (Merged).                         *)
LEMMA MergedShape ==
  ASSUME NEW row, StoredShape(row), NEW race, RaceShape(race), NEW kinds
  PROVE  StoredShape(Merged(row, race, kinds)) /\ Merged(row, race, kinds).id = row.id
  <1> DEFINE all == Stored(race).editions \cup row.editions
             at(b) == {e \in Stored(race).editions : e.by = b} \cup {e \in row.editions : e.by = b}
             merge(b) == [(CHOOSE e \in at(b) : TRUE)
                            EXCEPT !.distances = UNION {e.distances : e \in at(b)}]
             E == {merge(b) : b \in {e.by : e \in all}}
             v == IF "voivodeship" \in kinds THEN race.voivodeship ELSE row.voivodeship
  <1>1. \A e \in all : EditionShape(e) /\ e.clock = 0
    BY StoredKeeps DEF StoredShape, RaceShape
  <1>2. Merged(row, race, kinds) = [row EXCEPT !.voivodeship = v, !.editions = E]
    BY DEF Merged
  <1>3. ASSUME NEW b \in {e.by : e \in all} PROVE EditionShape(merge(b)) /\ merge(b).clock = 0
    <2> DEFINE f == CHOOSE e \in at(b) : TRUE
               ds == UNION {e.distances : e \in at(b)}
    <2>1. f \in at(b) /\ at(b) \subseteq all
      <3>1. at(b) # {}
        OBVIOUS
      <3>2. QED
        BY <3>1
    <2>2. merge(b) = [f EXCEPT !.distances = ds]
      OBVIOUS
    <2>3. EditionShape(f) /\ f.clock = 0
      BY <1>1, <2>1
    <2> HIDE DEF f, ds, merge, at, all
    <2>4. merge(b) = [by |-> f.by, day |-> f.day, clock |-> f.clock, distances |-> ds]
          /\ f.day \in Days /\ f.clock \in 0..(DayLength - 1)
      BY <2>2, <2>3 DEF EditionShape
    <2>5. QED
      BY <2>3, <2>4, EditionOf
  <1>4. ASSUME NEW e \in E PROVE EditionShape(e) /\ e.clock = 0
    <2> HIDE DEF merge
    <2>1. PICK b \in {x.by : x \in all} : e = merge(b)
      OBVIOUS
    <2>2. QED
      BY <1>3, <2>1
  <1> HIDE DEF E, v
  <1>5. Merged(row, race, kinds)
          = [id |-> row.id, name |-> row.name, city |-> row.city, voivodeship |-> v, editions |-> E]
    BY <1>2 DEF StoredShape, RaceShape
  <1>6. RaceShape(Merged(row, race, kinds)) /\ Merged(row, race, kinds).id = row.id
        /\ Merged(row, race, kinds).editions = E
    BY <1>4, <1>5, RaceOf
  <1>7. QED
    BY <1>4, <1>6 DEF StoredShape

-----------------------------------------------------------------------------
(* The invariant                                                             *)

(* Types of the job control; nothing is said of what seen, entity and fresh  *)
(* hold but that they are functions on Jobs.                                 *)
Stages == {"waiting", "scan", "save", "index", "done"}
ControlOK ==
  /\ stage \in [Jobs -> Stages]
  /\ attempt \in [Jobs -> 0..MaxAttempts] /\ handled \in [Jobs -> 0..MaxRecords]
  /\ change \in [Jobs -> SUBSET {"created", "voivodeship"}]
  /\ seen = [j \in Jobs |-> seen[j]] /\ entity = [j \in Jobs |-> entity[j]]
  /\ fresh = [j \in Jobs |-> fresh[j]]
(* A job that commits or indexes has one race at hand.                       *)
ShapesOK ==
  /\ \A r \in races \cup index : StoredShape(r)
  /\ \A j \in Jobs : \A r \in seen[j] \cup entity[j] : RaceShape(r)
  /\ \A j \in Jobs :
       IF stage[j] \in {"save", "index"} THEN \E r : entity[j] = {r} ELSE entity[j] = {}
(* What a job indexes or has created is committed.                           *)
Committed ==
  \A j \in Jobs : /\ \A id \in fresh[j] : HasId(id, races)
                  /\ stage[j] = "index" \/ (stage[j] = "save" /\ "created" \notin change[j])
                       => \A r \in entity[j] : HasId(r.id, races)
ImportInv == ControlOK /\ ShapesOK /\ Committed /\ EveryRaceAnnounced

(* The bounds, as numbers.                                                   *)
LEMMA Numbers == MaxAttempts \in Nat /\ MaxRecords \in Nat
  BY BoundsAssumption

(* A job goes on scanning: no table, index or event is touched.              *)
LEMMA ScanningKeeps ==
  ASSUME ImportInv, ControlOK', NEW j \in Jobs, NEW S, \A r \in S : RaceShape(r),
         stage[j] \in {"waiting", "scan"}, stage' = [stage EXCEPT ![j] = "scan"],
         seen' = [seen EXCEPT ![j] = S],
         UNCHANGED <<races, index, announced, entity, change, fresh, unannounced>>
  PROVE  ImportInv'
  <1>1. ShapesOK'
    BY DEF ImportInv, ControlOK, ShapesOK
  <1>2. Committed'
    BY DEF ImportInv, ControlOK, Committed
  <1>3. EveryRaceAnnounced'
    BY DEF ImportInv, ControlOK, EveryRaceAnnounced
  <1>4. QED
    BY <1>1, <1>2, <1>3 DEF ImportInv

(* A job has a race at hand that it is going to commit.                      *)
LEMMA PlanKeeps ==
  ASSUME ImportInv, ControlOK', NEW j \in Jobs, NEW S, \A r \in S : RaceShape(r),
         NEW race, RaceShape(race),
         stage[j] = "scan", stage' = [stage EXCEPT ![j] = "save"],
         entity' = [entity EXCEPT ![j] = {race}], seen' = [seen EXCEPT ![j] = S],
         \A i \in Jobs \ {j} : change'[i] = change[i],
         "created" \in change'[j] \/ HasId(race.id, races),
         UNCHANGED <<races, index, announced, fresh, unannounced>>
  PROVE  ImportInv'
  <1>1. ShapesOK'
    BY DEF ImportInv, ControlOK, ShapesOK
  <1>2. Committed'
    BY DEF ImportInv, ControlOK, Committed, HasId
  <1>3. EveryRaceAnnounced'
    BY DEF ImportInv, ControlOK, EveryRaceAnnounced, HasId
  <1>4. QED
    BY <1>1, <1>2, <1>3 DEF ImportInv

(* A job is cut off, and its races count as unannounced (Abort).             *)
LEMMA AbortKeeps ==
  ASSUME ImportInv, NEW j \in Jobs, Abort(j)
  PROVE  ImportInv'
  <1>1. ControlOK'
    <2>1. handled' \in [Jobs -> 0..MaxRecords]
      BY Numbers DEF Abort, ImportInv, ControlOK
    <2>2. stage' \in [Jobs -> Stages] /\ change' \in [Jobs -> SUBSET {"created", "voivodeship"}]
      BY DEF Abort, ImportInv, ControlOK, Stages
    <2>3. seen' = [i \in Jobs |-> seen'[i]] /\ fresh' = [i \in Jobs |-> fresh'[i]]
      BY DEF Abort, ImportInv, ControlOK
    <2>4. entity' = [i \in Jobs |-> entity'[i]]
      BY DEF Abort, ImportInv, ControlOK
    <2>5. QED
      BY <2>1, <2>2, <2>3, <2>4 DEF Abort, ImportInv, ControlOK
  <1>2. ShapesOK'
    BY DEF ImportInv, ControlOK, ShapesOK, Abort
  <1>3. Committed'
    BY DEF ImportInv, ControlOK, Committed, Abort, HasId
  <1>4. EveryRaceAnnounced'
    <2> DEFINE cut == IF stage[j] = "index" THEN {r.id : r \in entity[j]} ELSE {}
    <2>1. unannounced'
            = unannounced \cup fresh[j] \cup (IF "created" \in change[j] THEN cut ELSE {})
      BY DEF Abort
    <2>2. stage[j] = "index" => \A id : HasId(id, entity[j]) => id \in cut
      BY DEF HasId
    <2> HIDE DEF cut
    <2>3. /\ \A i \in Jobs \ {j} : stage'[i] = stage[i] /\ entity'[i] = entity[i]
                                   /\ change'[i] = change[i] /\ fresh'[i] = fresh[i]
          /\ UNCHANGED <<races, announced>>
      BY DEF ImportInv, ControlOK, Abort
    <2>4. QED
      BY <2>1, <2>2, <2>3 DEF ImportInv, EveryRaceAnnounced, HasId
  <1>5. QED
    BY <1>1, <1>2, <1>3, <1>4 DEF ImportInv

(* A scrape is read to its end at most.                                      *)
LEMMA RecordsCounted ==
  ASSUME ImportInv, NEW j \in Jobs, Scanning(j), NextRecord(j)
  PROVE  handled' \in [Jobs -> 0..MaxRecords]
  <1>1. handled \in [Jobs -> 0..MaxRecords] /\ handled[j] < MaxRecords
    BY DEF ImportInv, ControlOK, Scanning
  <1>2. handled[j] + 1 \in 0..MaxRecords
    BY <1>1, Numbers
  <1>3. QED
    BY <1>1, <1>2 DEF NextRecord

(* A match as the job sees it is well shaped and in the catalogue (Managed). *)
LEMMA ManagedShape ==
  ASSUME ImportInv, NEW j \in Jobs, NEW rec, NEW row \in Matches(rec)
  PROVE  RaceShape(Managed(j, row)) /\ HasId(Managed(j, row).id, races)
  <1>1. row \in races
    BY DEF Matches, BySlug, SimilarRaces
  <1>2. RaceShape(row)
    BY <1>1 DEF ImportInv, ShapesOK, StoredShape
  <1>3. CASE HasId(row.id, seen[j])
    <2>1. Managed(j, row) \in seen[j] /\ Managed(j, row).id = row.id
      BY <1>3 DEF Managed, HasId
    <2>2. RaceShape(Managed(j, row))
      BY <2>1 DEF ImportInv, ShapesOK
    <2>3. QED
      BY <1>1, <2>1, <2>2 DEF HasId
  <1>4. CASE ~HasId(row.id, seen[j])
    BY <1>1, <1>2, <1>4 DEF Managed, HasId
  <1>5. QED
    BY <1>3, <1>4

(* A record makes a race, enriches one or is skipped: nothing is committed.  *)
LEMMA ScanKeeps ==
  ASSUME ImportInv, NEW j \in Jobs,
         \/ Start(j) \/ SkipInvalidDate(j)
         \/ \E rec \in Records, clock \in Clocks : Create(j, rec, clock) \/ Enrich(j, rec, clock)
  PROVE  ImportInv'
  <1>1. seen = [seen EXCEPT ![j] = seen[j]] /\ \A r \in seen[j] : RaceShape(r)
    BY DEF ImportInv, ControlOK, ShapesOK
  <1>2. CASE Start(j)
    <2>1. ControlOK'
      BY <1>2, Numbers DEF Start, ImportInv, ControlOK, Stages
    <2>2. /\ stage[j] = "waiting" /\ stage' = [stage EXCEPT ![j] = "scan"]
          /\ UNCHANGED <<races, index, announced, entity, change, fresh, unannounced, seen>>
      BY <1>2 DEF Start
    <2>3. QED
      BY <1>1, <2>1, <2>2, ScanningKeeps
  <1>3. CASE SkipInvalidDate(j)
    <2>1. ControlOK'
      BY <1>3, RecordsCounted DEF SkipInvalidDate, ImportInv, ControlOK
    <2>2. /\ stage[j] = "scan" /\ stage' = [stage EXCEPT ![j] = "scan"]
          /\ UNCHANGED <<races, index, announced, entity, change, fresh, unannounced, seen>>
      BY <1>3 DEF SkipInvalidDate, Scanning, ImportInv, ControlOK
    <2>3. QED
      BY <1>1, <2>1, <2>2, ScanningKeeps
  <1>4. ASSUME NEW rec \in Records, NEW clock \in Clocks, Create(j, rec, clock) PROVE ImportInv'
    <2>1. ControlOK'
      BY <1>4, RecordsCounted DEF Create, Plan, ImportInv, ControlOK, Stages
    <2> DEFINE race == [id |-> <<j, attempt[j], handled[j]>>, name |-> rec.name, city |-> rec.city,
                        voivodeship |-> rec.voivodeship, editions |-> {NewEdition(j, rec, clock)}]
    <2>2. RaceShape(race)
      BY NewEditionShape, RaceOf
    <2>3. Plan(j, race, {"created"}) /\ seen' = seen /\ stage[j] = "scan"
          /\ UNCHANGED <<races, index, announced, fresh, unannounced>>
      BY <1>4 DEF Create, Scanning
    <2> HIDE DEF race
    <2>4. /\ stage' = [stage EXCEPT ![j] = "save"] /\ entity' = [entity EXCEPT ![j] = {race}]
          /\ \A i \in Jobs \ {j} : change'[i] = change[i]
          /\ "created" \in change'[j]
      BY <2>3 DEF Plan, ImportInv, ControlOK
    <2>5. QED
      BY <1>1, <2>1, <2>2, <2>3, <2>4, PlanKeeps
  <1>5. ASSUME NEW rec \in Records, NEW clock \in Clocks, Enrich(j, rec, clock) PROVE ImportInv'
    <2>0. PICK row \in Matches(rec) :
            \E editions \in EnrichedEditions(j, Managed(j, row), rec, clock) :
              LET race == Managed(j, row)
                  enriched == [FillVoivodeship(race, rec) EXCEPT !.editions = editions]
              IN /\ Remember(j, enriched)
                 /\ IF enriched # race
                    THEN Plan(j, enriched,
                              IF enriched.voivodeship # race.voivodeship THEN {"voivodeship"} ELSE {})
                    ELSE UNCHANGED <<stage, entity, change>>
      BY <1>5 DEF Enrich
    <2>1. PICK editions \in EnrichedEditions(j, Managed(j, row), rec, clock) :
            LET race == Managed(j, row)
                enriched == [FillVoivodeship(race, rec) EXCEPT !.editions = editions]
            IN /\ Remember(j, enriched)
               /\ IF enriched # race
                  THEN Plan(j, enriched,
                            IF enriched.voivodeship # race.voivodeship THEN {"voivodeship"} ELSE {})
                  ELSE UNCHANGED <<stage, entity, change>>
      BY <2>0
    <2> DEFINE race == Managed(j, row)
               enriched == [FillVoivodeship(race, rec) EXCEPT !.editions = editions]
               kinds == IF enriched.voivodeship # race.voivodeship THEN {"voivodeship"} ELSE {}
               S == {r \in seen[j] : r.id # enriched.id} \cup {enriched}
    <2>2. RaceShape(race) /\ HasId(race.id, races)
      BY ManagedShape
    <2>3. RaceShape(enriched) /\ HasId(enriched.id, races)
      <3> HIDE DEF race
      <3>1. \A e \in editions : EditionShape(e)
        BY <2>1, <2>2, EnrichedShape DEF race
      <3>2. QED
        BY <2>2, <3>1, FillKeeps
    <2>4. /\ seen' = [seen EXCEPT ![j] = S]
          /\ IF enriched # race THEN Plan(j, enriched, kinds) ELSE UNCHANGED <<stage, entity, change>>
          /\ kinds \subseteq {"voivodeship"}
      BY <2>1 DEF Remember
    <2>5. \A r \in S : RaceShape(r)
      <3> HIDE DEF enriched
      <3>1. QED
        BY <1>1, <2>3
    <2>6. /\ Scanning(j) /\ NextRecord(j)
          /\ UNCHANGED <<races, index, announced, attempt, fresh, unannounced>>
      BY <1>5 DEF Enrich
    <2> HIDE DEF S, kinds, enriched, race
    <2>7. CASE enriched # race
      <3>1. /\ stage' = [stage EXCEPT ![j] = "save"] /\ entity' = [entity EXCEPT ![j] = {enriched}]
            /\ change' = [change EXCEPT ![j] = kinds]
        BY <2>4, <2>7 DEF Plan
      <3>2. ControlOK'
        BY <2>4, <2>6, <3>1, RecordsCounted DEF ImportInv, ControlOK, Stages
      <3>3. \A i \in Jobs \ {j} : change'[i] = change[i]
        BY <3>1 DEF ImportInv, ControlOK
      <3>4. stage[j] = "scan"
        BY <2>6 DEF Scanning
      <3>5. QED
        BY <2>3, <2>4, <2>5, <2>6, <3>1, <3>2, <3>3, <3>4, PlanKeeps
    <2>8. CASE enriched = race
      <3>1. UNCHANGED <<stage, entity, change>> /\ stage[j] = "scan"
        BY <2>4, <2>6, <2>8 DEF Scanning
      <3>2. ControlOK'
        BY <2>4, <2>6, <3>1, RecordsCounted DEF ImportInv, ControlOK
      <3>3. stage' = [stage EXCEPT ![j] = "scan"]
        BY <3>1 DEF ImportInv, ControlOK
      <3>4. QED
        BY <2>4, <2>5, <2>6, <3>1, <3>2, <3>3, ScanningKeeps
    <2>9. QED
      BY <2>7, <2>8
  <1>6. QED
    BY <1>2, <1>3, <1>4, <1>5

(* The commit: a new row, or a row written again (Save).                     *)
LEMMA SaveKeeps ==
  ASSUME ImportInv, NEW j \in Jobs, Save(j)
  PROVE  ImportInv'
  <1>1. PICK race : entity[j] = {race}
    BY DEF Save, ImportInv, ShapesOK
  <1>2. RaceShape(race) /\ StoredShape(Stored(race)) /\ Stored(race).id = race.id
    BY <1>1, StoredKeeps DEF ImportInv, ShapesOK
  <1>3. /\ stage[j] = "save" /\ stage' = [stage EXCEPT ![j] = "index"]
        /\ UNCHANGED <<index, announced, attempt, handled, entity, change, fresh, unannounced>>
    BY DEF Save
  <1>4. CASE "created" \in change[j]
    <2>1. races' = races \cup {Stored(race)} /\ Remember(j, race)
      BY <1>1, <1>4 DEF Save
    <2>2. ControlOK'
      BY <1>3, <2>1 DEF ImportInv, ControlOK, Stages, Remember
    <2>3. ShapesOK'
      BY <1>1, <1>2, <1>3, <2>1 DEF ImportInv, ControlOK, ShapesOK, Remember
    <2>4. Committed'
      BY <1>1, <1>2, <1>3, <2>1 DEF ImportInv, ControlOK, Committed, HasId
    <2>5. EveryRaceAnnounced'
      BY <1>1, <1>2, <1>3, <1>4, <2>1 DEF ImportInv, ControlOK, EveryRaceAnnounced, HasId
    <2>6. QED
      BY <2>2, <2>3, <2>4, <2>5 DEF ImportInv
  <1>5. CASE "created" \notin change[j]
    <2>1. /\ races' = {IF r.id = race.id THEN Merged(r, race, change[j]) ELSE r : r \in races}
          /\ seen' = seen
      BY <1>1, <1>5 DEF Save
    <2>2. ASSUME NEW r \in races
          PROVE  LET n == IF r.id = race.id THEN Merged(r, race, change[j]) ELSE r
                 IN  n \in races' /\ StoredShape(n) /\ n.id = r.id
      <3>1. StoredShape(r)
        BY DEF ImportInv, ShapesOK
      <3>2. QED
        BY <1>2, <2>1, <3>1, MergedShape
    <2>3. /\ \A n \in races' : StoredShape(n) /\ HasId(n.id, races)
          /\ \A r \in races : HasId(r.id, races')
      BY <2>1, <2>2 DEF HasId
    <2>4. \A id : HasId(id, races) <=> HasId(id, races')
      BY <2>3 DEF HasId
    <2>5. ControlOK'
      BY <1>3, <2>1 DEF ImportInv, ControlOK, Stages
    <2>6. ShapesOK'
      BY <1>1, <1>3, <2>1, <2>3 DEF ImportInv, ControlOK, ShapesOK
    <2>7. Committed'
      BY <1>3, <1>5, <2>4 DEF ImportInv, ControlOK, Committed
    <2>8. EveryRaceAnnounced'
      <3>1. ASSUME NEW n \in races'
            PROVE  \/ n.id \in announced' \cup unannounced'
                   \/ \E i \in Jobs : \/ n.id \in fresh'[i]
                                      \/ /\ stage'[i] = "index" /\ "created" \in change'[i]
                                         /\ HasId(n.id, entity'[i])
        <4>1. PICK r \in races : r.id = n.id
          BY <2>3 DEF HasId
        <4>2. stage[j] # "index" /\ \A i \in Jobs : stage[i] = "index" => stage'[i] = "index"
          BY <1>3 DEF ImportInv, ControlOK
        <4>3. QED
          BY <1>3, <4>1, <4>2 DEF ImportInv, EveryRaceAnnounced
      <3>2. \A id \in announced' : HasId(id, races')
        BY <1>3, <2>4 DEF ImportInv, EveryRaceAnnounced
      <3>3. QED
        BY <3>1, <3>2 DEF EveryRaceAnnounced
    <2>9. QED
      BY <2>5, <2>6, <2>7, <2>8 DEF ImportInv
  <1>6. QED
    BY <1>4, <1>5

(* The document, the announcement (Index, Finish).                           *)
LEMMA IndexKeeps ==
  ASSUME ImportInv, NEW j \in Jobs, Index(j) \/ Finish(j)
  PROVE  ImportInv'
  <1>1. CASE Index(j)
    <2>1. PICK race : entity[j] = {race}
      BY <1>1 DEF Index, ImportInv, ShapesOK
    <2>2. StoredShape(Stored(race)) /\ HasId(race.id, races)
      BY <1>1, <2>1, StoredKeeps DEF ImportInv, ShapesOK, Committed, Index
    <2>3. /\ index' = {d \in index : d.id # race.id} \cup {Stored(race)}
          /\ fresh' = [fresh EXCEPT ![j] = IF "created" \in change[j] THEN @ \cup {race.id} ELSE @]
      BY <1>1, <2>1 DEF Index
    <2>4. /\ stage[j] = "index" /\ stage' = [stage EXCEPT ![j] = "scan"]
          /\ entity' = [entity EXCEPT ![j] = {}] /\ change' = [change EXCEPT ![j] = {}]
          /\ UNCHANGED <<races, announced, attempt, handled, seen, unannounced>>
      BY <1>1 DEF Index
    <2>5. ControlOK'
      BY <2>3, <2>4 DEF ImportInv, ControlOK, Stages
    <2>6. ShapesOK'
      BY <2>2, <2>3, <2>4 DEF ImportInv, ControlOK, ShapesOK
    <2>7. Committed'
      BY <2>2, <2>3, <2>4 DEF ImportInv, ControlOK, Committed
    <2>8. EveryRaceAnnounced'
      <3>1. /\ \A i \in Jobs \ {j} : stage'[i] = stage[i] /\ entity'[i] = entity[i]
                                      /\ change'[i] = change[i] /\ fresh'[i] = fresh[i]
            /\ fresh[j] \subseteq fresh'[j]
            /\ "created" \in change[j] => race.id \in fresh'[j]
        BY <2>3, <2>4 DEF ImportInv, ControlOK
      <3>2. \A id : HasId(id, entity[j]) => id = race.id
        BY <2>1 DEF HasId
      <3>3. QED
        BY <2>4, <3>1, <3>2 DEF ImportInv, EveryRaceAnnounced
    <2>9. QED
      BY <2>5, <2>6, <2>7, <2>8 DEF ImportInv
  <1>2. CASE Finish(j)
    <2>1. ControlOK'
      <3>1. handled' \in [Jobs -> 0..MaxRecords]
        BY <1>2, Numbers DEF Finish, ImportInv, ControlOK
      <3>2. stage' \in [Jobs -> Stages] /\ change' \in [Jobs -> SUBSET {"created", "voivodeship"}]
        BY <1>2 DEF Finish, ImportInv, ControlOK, Stages
      <3>3. seen' = [i \in Jobs |-> seen'[i]] /\ fresh' = [i \in Jobs |-> fresh'[i]]
        BY <1>2 DEF Finish, ImportInv, ControlOK
      <3>4. entity' = [i \in Jobs |-> entity'[i]]
        BY <1>2 DEF Finish, ImportInv, ControlOK
      <3>5. QED
        BY <1>2, <3>1, <3>2, <3>3, <3>4 DEF Finish, ImportInv, ControlOK
    <2>2. ShapesOK'
      BY <1>2 DEF Finish, ImportInv, ControlOK, ShapesOK
    <2>3. Committed'
      BY <1>2 DEF Finish, ImportInv, ControlOK, Committed
    <2>4. EveryRaceAnnounced'
      BY <1>2 DEF Finish, ImportInv, ControlOK, Committed, EveryRaceAnnounced
    <2>5. QED
      BY <2>1, <2>2, <2>3, <2>4 DEF ImportInv
  <1>3. QED
    BY <1>1, <1>2

-----------------------------------------------------------------------------
(* Every step keeps it.                                                      *)
LEMMA StepKeeps ==
  ASSUME ImportInv, [Next]_vars
  PROVE  ImportInv'
  <1>1. CASE UNCHANGED vars
    BY <1>1 DEF vars, ImportInv, ControlOK, ShapesOK, Committed, EveryRaceAnnounced
  <1>2. ASSUME NEW j \in Jobs, Start(j) \/ SkipInvalidDate(j) PROVE ImportInv'
    BY <1>2, ScanKeeps
  <1>3. ASSUME NEW j \in Jobs, NEW rec \in Records, NEW clock \in Clocks,
               Create(j, rec, clock) \/ Enrich(j, rec, clock)
        PROVE  ImportInv'
    BY <1>3, ScanKeeps
  <1>4. ASSUME NEW j \in Jobs, NEW rec \in Records, NEW clock \in Clocks, Poisoned(j, rec, clock)
        PROVE  ImportInv'
    BY <1>4, AbortKeeps DEF Poisoned
  <1>5. ASSUME NEW j \in Jobs, Save(j) \/ Collide(j) \/ Index(j) \/ Finish(j) \/ Abort(j)
        PROVE  ImportInv'
    BY <1>5, SaveKeeps, IndexKeeps, AbortKeeps DEF Collide
  <1>6. QED
    BY <1>1, <1>2, <1>3, <1>4, <1>5 DEF Next

LEMMA InitHolds == Init => ImportInv
  BY BoundsAssumption
     DEF Init, ImportInv, ControlOK, Stages, ShapesOK, Committed, EveryRaceAnnounced

(* The invariant holds in every reachable state.                             *)
THEOREM Invariance == Spec => []ImportInv
  BY InitHolds, StepKeeps, PTL DEF Spec

(* Type correctness, with any number of jobs at a time.                      *)
THEOREM TypeCorrect == Spec => []TypeOK
  <1>1. ImportInv => TypeOK
    <2> SUFFICES ASSUME ImportInv PROVE TypeOK
      OBVIOUS
    <2>1. ASSUME NEW j \in Jobs
          PROVE  Cardinality(entity[j]) = (IF stage[j] \in {"save", "index"} THEN 1 ELSE 0)
      <3>1. CASE stage[j] \in {"save", "index"}
        <4>1. PICK r : entity[j] = {r}
          BY <3>1 DEF ImportInv, ShapesOK
        <4>2. Cardinality({r}) = 1
          BY FS_Singleton, Zenon
        <4>3. QED
          BY <3>1, <4>1, <4>2
      <3>2. CASE stage[j] \notin {"save", "index"}
        <4>1. entity[j] = {}
          BY <3>2 DEF ImportInv, ShapesOK
        <4>2. QED
          BY <3>2, <4>1, FS_EmptySet
      <3>3. QED
        BY <3>1, <3>2
    <2>2. \A r \in races \cup index : \A e \in r.editions : e.day \in Days /\ e.clock = 0
      BY DEF ImportInv, ShapesOK, StoredShape, RaceShape, EditionShape
    <2>3. QED
      BY <2>1, <2>2 DEF TypeOK, ImportInv, ControlOK, Stages
  <1>2. QED
    BY <1>1, Invariance, PTL

(* Every race that was committed is announced or its job can still do so,    *)
(* unless the job was cut off, however many jobs run at the same time.       *)
THEOREM RacesAreAnnounced == Spec => []EveryRaceAnnounced
  <1>1. ImportInv => EveryRaceAnnounced
    BY DEF ImportInv
  <1>2. QED
    BY <1>1, Invariance, PTL

-----------------------------------------------------------------------------
(* Jobs in turn.  While one job runs at a time, what it has in memory is     *)
(* what the tables hold, but for the race it is about to commit: then that   *)
(* race is new to the catalogue, or says no less than its row.               *)

(* Ids of races and editions are stamps of the record that made them.        *)
OldStamp(s) ==
  /\ s[2] \in Nat /\ s[3] \in Nat
  /\ \E i \in Jobs : /\ s[1] = i
                     /\ \/ s[2] < attempt[i]
                        \/ s[2] = attempt[i] /\ (i \in Running => s[3] < handled[i])
StampsOf(r) == {r.id} \cup {e.by : e \in r.editions}
OneEach(r) == \A e, f \in r.editions : e.by = f.by => e = f
Stamped(r) == OneEach(r) /\ \A s \in StampsOf(r) : OldStamp(s)

Alone == \A i, j \in Running : i = j
StampsOK ==
  /\ \A r \in races : Stamped(r)
  /\ \A j \in Jobs : \A r \in seen[j] \cup entity[j] : Stamped(r)
IdsOK == \A r, s \in races : r.id = s.id => r = s

(* A race that no race of the catalogue is like.                             *)
LikeNone(race) ==
  /\ ~HasId(race.id, races)
  /\ \A r \in races, e \in race.editions :
       ~ (/\ r.city = race.city /\ Similar(r.name, race.name)
          /\ \E f \in r.editions : Gap(e.day, f.day) <= 1)
(* A race that says what its row says, or more.                              *)
Kept(e, E) == \E f \in E : f.by = e.by /\ f.day = e.day /\ e.distances \subseteq f.distances
Extends(race, row, kinds) ==
  /\ race.id = row.id /\ race.name = row.name /\ race.city = row.city
  /\ row.voivodeship = NoVoivodeship \/ race.voivodeship = row.voivodeship
  /\ race.voivodeship # row.voivodeship => "voivodeship" \in kinds
  /\ \A e \in row.editions : Kept(e, race.editions)
InHand(j) ==
  \A race \in entity[j] :
    /\ stage[j] = "index" => Stored(race) \in races
    /\ stage[j] = "save" /\ "created" \in change[j] => LikeNone(race)
    /\ stage[j] = "save" /\ "created" \notin change[j] =>
         \E row \in races : Extends(race, row, change[j])
SeenOK(j) ==
  /\ j \notin Running => seen[j] = {}
  /\ \A r \in seen[j] :
       \/ r \in entity[j]
       \/ Stored(r) \in races /\ \A race \in entity[j] : race.id # r.id
TurnInv ==
  ImportInv /\ Alone /\ StampsOK /\ IdsOK /\ (\A j \in Jobs : InHand(j) /\ SeenOK(j)) /\ IndexInSync

(* Midnight of its day is what the tables keep of an edition.                *)
Midnight(e) == [by |-> e.by, day |-> e.day, clock |-> 0, distances |-> e.distances]
LEMMA StoredIs ==
  ASSUME NEW r, RaceShape(r)
  PROVE  Stored(r) = [id |-> r.id, name |-> r.name, city |-> r.city,
                      voivodeship |-> r.voivodeship, editions |-> {Midnight(e) : e \in r.editions}]
  <1>1. ASSUME NEW e \in r.editions PROVE [e EXCEPT !.clock = 0] = Midnight(e)
    <2>1. e = [by |-> e.by, day |-> e.day, clock |-> e.clock, distances |-> e.distances]
      BY DEF RaceShape, EditionShape
    <2>2. QED
      BY <2>1 DEF Midnight
  <1>2. {[e EXCEPT !.clock = 0] : e \in r.editions} = {Midnight(e) : e \in r.editions}
    BY <1>1
  <1>3. Stored(r) = [r EXCEPT !.editions = {Midnight(e) : e \in r.editions}]
    BY <1>2 DEF Stored
  <1>4. QED
    BY <1>3 DEF RaceShape

(* What is stored is as it was: all but the time of day.                     *)
LEMMA StoredSame ==
  ASSUME NEW r, RaceShape(r)
  PROVE  /\ Stored(r).name = r.name /\ Stored(r).city = r.city
         /\ Stored(r).voivodeship = r.voivodeship /\ Stored(r).id = r.id
         /\ Stored(r).editions = {Midnight(e) : e \in r.editions}
         /\ StampsOf(Stored(r)) = StampsOf(r)
         /\ OneEach(r) => OneEach(Stored(r))
         /\ \A e : Kept(e, r.editions) <=> Kept(e, Stored(r).editions)
  <1> DEFINE E == {Midnight(e) : e \in r.editions}
  <1>1. /\ Stored(r).name = r.name /\ Stored(r).city = r.city
        /\ Stored(r).voivodeship = r.voivodeship /\ Stored(r).id = r.id /\ Stored(r).editions = E
    BY StoredIs
  <1>2. \A e : /\ Midnight(e).by = e.by /\ Midnight(e).day = e.day
               /\ Midnight(e).distances = e.distances
    BY DEF Midnight
  <1>3. /\ \A e \in r.editions : Midnight(e) \in E
        /\ \A f \in E : \E e \in r.editions : f = Midnight(e)
    OBVIOUS
  <1> HIDE DEF E
  <1>4. StampsOf(Stored(r)) = StampsOf(r)
    BY <1>1, <1>2, <1>3 DEF StampsOf
  <1>5. OneEach(r) => OneEach(Stored(r))
    BY <1>1, <1>2, <1>3 DEF OneEach
  <1>6. \A e : Kept(e, r.editions) <=> Kept(e, E)
    BY <1>2, <1>3 DEF Kept
  <1>7. QED
    BY <1>1, <1>4, <1>5, <1>6 DEF E

(* A row is stored already.                                                  *)
LEMMA StoredRow ==
  ASSUME NEW r, StoredShape(r)
  PROVE  Stored(r) = r
  <1>1. RaceShape(r) /\ \A e \in r.editions : e = Midnight(e)
    BY DEF StoredShape, RaceShape, EditionShape, Midnight
  <1>2. {Midnight(e) : e \in r.editions} = r.editions
    BY <1>1
  <1>3. QED
    BY <1>1, <1>2, StoredIs DEF RaceShape

(* The flush of a race that says no less than its row writes the race.       *)
LEMMA MergedIsStored ==
  ASSUME NEW row, StoredShape(row), OneEach(row), NEW race, RaceShape(race), OneEach(race),
         NEW kinds, Extends(race, row, kinds)
  PROVE  Merged(row, race, kinds) = Stored(race)
  <1> DEFINE mine(b) == {e \in Stored(race).editions : e.by = b}
             rows(b) == {e \in row.editions : e.by = b}
             merge(b) == [(CHOOSE e \in mine(b) \cup rows(b) : TRUE)
                            EXCEPT !.distances = UNION {e.distances : e \in mine(b) \cup rows(b)}]
             stamps == {e.by : e \in Stored(race).editions \cup row.editions}
  <1>1. /\ Stored(race).editions = {Midnight(e) : e \in race.editions}
        /\ OneEach(Stored(race)) /\ StoredShape(Stored(race))
        /\ \A e \in row.editions : Kept(e, Stored(race).editions)
    BY StoredSame, StoredKeeps DEF Extends
  <1>2. ASSUME NEW g \in Stored(race).editions PROVE merge(g.by) = g
    <2>1. mine(g.by) = {g}
      BY <1>1 DEF OneEach
    <2>2. ASSUME NEW e \in rows(g.by)
          PROVE  /\ e.by = g.by /\ e.day = g.day /\ e.distances \subseteq g.distances
                 /\ e = [by |-> e.by, day |-> e.day, clock |-> 0, distances |-> e.distances]
      <3>1. PICK f \in Stored(race).editions :
              f.by = e.by /\ f.day = e.day /\ e.distances \subseteq f.distances
        BY <1>1 DEF Kept
      <3>2. f = g
        BY <1>1, <3>1 DEF OneEach
      <3>3. EditionShape(e) /\ e.clock = 0
        BY DEF StoredShape, RaceShape
      <3>4. QED
        BY <3>1, <3>2, <3>3 DEF EditionShape
    <2>3. g = [by |-> g.by, day |-> g.day, clock |-> 0, distances |-> g.distances]
      BY <1>1 DEF StoredShape, RaceShape, EditionShape
    <2> DEFINE S == mine(g.by) \cup rows(g.by)
               c == CHOOSE e \in S : TRUE
    <2>4. g \in S /\ \A e \in S : e = g \/ e \in rows(g.by)
      BY <2>1
    <2>5. merge(g.by) = [c EXCEPT !.distances = UNION {e.distances : e \in S}]
      OBVIOUS
    <2>6. c \in S
      BY <2>4
    <2> HIDE DEF merge, c, S
    <2>7. \A e \in S : e.distances \subseteq g.distances
      BY <2>2, <2>4
    <2>8. UNION {e.distances : e \in S} = g.distances
      BY <2>4, <2>7
    <2>9. c = [by |-> g.by, day |-> g.day, clock |-> 0, distances |-> c.distances]
      BY <2>2, <2>3, <2>4, <2>6
    <2>10. [c EXCEPT !.distances = g.distances]
             = [by |-> g.by, day |-> g.day, clock |-> 0, distances |-> g.distances]
      BY <2>9
    <2>11. QED
      BY <2>3, <2>5, <2>8, <2>10
  <1>3. \A b \in stamps : \E g \in Stored(race).editions : b = g.by
    BY <1>1 DEF Kept
  <1>4. {merge(b) : b \in stamps} = Stored(race).editions
    <2>1. \A g \in Stored(race).editions : g.by \in stamps
      OBVIOUS
    <2> HIDE DEF merge, stamps
    <2>2. QED
      BY <1>2, <1>3, <2>1
  <1>5. Merged(row, race, kinds)
          = [row EXCEPT !.voivodeship = IF "voivodeship" \in kinds THEN race.voivodeship ELSE @,
                        !.editions = {merge(b) : b \in stamps}]
    BY DEF Merged
  <1> HIDE DEF merge, stamps
  <1>6. (IF "voivodeship" \in kinds THEN race.voivodeship ELSE row.voivodeship) = race.voivodeship
    BY DEF Extends
  <1> DEFINE F == Stored(race).editions
  <1>7. Merged(row, race, kinds) = [row EXCEPT !.voivodeship = race.voivodeship, !.editions = F]
    BY <1>4, <1>5, <1>6
  <1>8. row = [id |-> row.id, name |-> row.name, city |-> row.city, voivodeship |-> row.voivodeship,
               editions |-> row.editions]
    BY DEF StoredShape, RaceShape
  <1>9. Stored(race) = [id |-> row.id, name |-> row.name, city |-> row.city,
                        voivodeship |-> race.voivodeship, editions |-> F]
    BY <1>1, StoredIs DEF Extends
  <1> HIDE DEF F
  <1>10. QED
    BY <1>7, <1>8, <1>9

(* A record's stamp is new while its job runs.                               *)
LEMMA StampIsNew ==
  ASSUME ImportInv, NEW j \in Jobs, stage[j] = "scan"
  PROVE  ~OldStamp(<<j, attempt[j], handled[j]>>)
  <1>1. attempt[j] \in Nat /\ handled[j] \in Nat /\ j \in Running
    BY Numbers DEF ImportInv, ControlOK, Running
  <1>2. QED
    BY <1>1 DEF OldStamp

(* Stamps stay old while attempts go up and a running job goes on.           *)
LEMMA StampsAge ==
  ASSUME ImportInv, ImportInv', NEW s, OldStamp(s),
         \A i \in Jobs : \/ attempt'[i] = attempt[i] + 1
                         \/ /\ attempt'[i] = attempt[i]
                            /\ i \in Running' => /\ i \in Running
                                                 /\ handled'[i] \in {handled[i], handled[i] + 1}
  PROVE  OldStamp(s)'
  <1>1. \A i \in Jobs : /\ attempt[i] \in Nat /\ attempt'[i] \in Nat
                        /\ handled[i] \in Nat /\ handled'[i] \in Nat
    BY Numbers DEF ImportInv, ControlOK
  <1>2. s[2] \in Nat /\ s[3] \in Nat
    BY DEF OldStamp
  <1>3. PICK i \in Jobs :
          /\ s[1] = i
          /\ s[2] < attempt[i] \/ (s[2] = attempt[i] /\ (i \in Running => s[3] < handled[i]))
    BY DEF OldStamp
  <1>4. s[2] < attempt'[i] \/ (s[2] = attempt'[i] /\ (i \in Running' => s[3] < handled'[i]))
    BY <1>1, <1>2, <1>3
  <1>5. QED
    BY <1>2, <1>3, <1>4 DEF OldStamp

(* A record that is done with is stamped.                                    *)
LEMMA StampIsOld ==
  ASSUME ImportInv, NEW j \in Jobs, Scanning(j), NextRecord(j), attempt' = attempt,
         NEW s, s = <<j, attempt[j], handled[j]>>
  PROVE  OldStamp(s)'
  <1>1. attempt[j] \in Nat /\ handled[j] \in Nat /\ handled'[j] = handled[j] + 1
    BY Numbers DEF ImportInv, ControlOK, NextRecord
  <1>2. QED
    BY <1>1 DEF OldStamp

(* While one job runs, the others hold nothing.                              *)
LEMMA OthersRest ==
  ASSUME TurnInv, NEW j \in Running, NEW i \in Jobs \ {j}
  PROVE  i \notin Running /\ seen[i] = {} /\ entity[i] = {} /\ stage[i] \in {"waiting", "done"}
  <1>1. i \notin Running
    BY DEF TurnInv, Alone
  <1>2. QED
    BY <1>1 DEF TurnInv, SeenOK, ImportInv, ShapesOK, ControlOK, Stages, Running

(* A match in memory is its row (Managed), while one job runs.               *)
LEMMA ManagedIsRow ==
  ASSUME TurnInv, NEW j \in Jobs, stage[j] = "scan", NEW rec, NEW row \in Matches(rec)
  PROVE  /\ RaceShape(Managed(j, row)) /\ Stamped(Managed(j, row))
         /\ row \in races /\ Stored(Managed(j, row)) = row
  <1>1. row \in races /\ RaceShape(Managed(j, row))
    BY ManagedShape DEF TurnInv, Matches, BySlug, SimilarRaces
  <1>2. CASE HasId(row.id, seen[j])
    <2>1. Managed(j, row) \in seen[j] /\ Managed(j, row).id = row.id
      BY <1>2 DEF Managed, HasId
    <2>2. entity[j] = {}
      BY DEF TurnInv, ImportInv, ShapesOK
    <2>3. Stored(Managed(j, row)) \in races
      BY <2>1, <2>2 DEF TurnInv, SeenOK
    <2>4. Stored(Managed(j, row)).id = row.id
      BY <1>1, <2>1, StoredKeeps
    <2>5. QED
      BY <1>1, <2>1, <2>3, <2>4 DEF TurnInv, IdsOK, StampsOK
  <1>3. CASE ~HasId(row.id, seen[j])
    <2>1. Managed(j, row) = row /\ StoredShape(row)
      BY <1>1, <1>3 DEF Managed, TurnInv, ImportInv, ShapesOK
    <2>2. QED
      BY <1>1, <2>1, StoredRow DEF TurnInv, StampsOK
  <1>4. QED
    BY <1>2, <1>3

(* enrichRace loses no edition and no distance, and makes one edition at     *)
(* most, with the stamp of the record.                                       *)
LEMMA EnrichedKeeps ==
  ASSUME NEW j, NEW r, RaceShape(r), OneEach(r), NEW rec, NEW clock,
         NEW stamp, stamp = <<j, attempt[j], handled[j]>>, \A e \in r.editions : e.by # stamp,
         NEW E \in EnrichedEditions(j, r, rec, clock)
  PROVE  /\ \A e \in r.editions : Kept(e, E)
         /\ \A e, f \in E : e.by = f.by => e = f
         /\ \A e \in E : e.by = stamp \/ \E f \in r.editions : e.by = f.by
  <1>1. CASE EditionsAt(r, rec.day, clock) = {}
    <2>1. E = r.editions \/ E = r.editions \cup {NewEdition(j, rec, clock)}
      BY <1>1 DEF EnrichedEditions
    <2>2. NewEdition(j, rec, clock).by = stamp
      BY DEF NewEdition
    <2> HIDE DEF EnrichedEditions
    <2>3. QED
      BY <2>1, <2>2 DEF Kept, OneEach
  <1>2. CASE EditionsAt(r, rec.day, clock) # {}
    <2> DEFINE more(e) == [e EXCEPT !.distances = AddMissing(@, rec.distances)]
    <2>1. PICK f \in EditionsAt(r, rec.day, clock) : E = (r.editions \ {f}) \cup {more(f)}
      BY <1>2 DEF EnrichedEditions
    <2>2. f \in r.editions /\ EditionShape(f)
      BY <2>1 DEF EditionsAt, RaceShape
    <2>3. f.distances \subseteq AddMissing(f.distances, rec.distances)
      BY DEF AddMissing
    <2> DEFINE ds == AddMissing(f.distances, rec.distances)
    <2>4. more(f) = [f EXCEPT !.distances = ds] /\ f.distances \subseteq ds
      BY <2>3
    <2> HIDE DEF more, ds
    <2>5. more(f).by = f.by /\ more(f).day = f.day /\ f.distances \subseteq more(f).distances
      BY <2>2, <2>4 DEF EditionShape
    <2>6. QED
      BY <2>1, <2>2, <2>5 DEF Kept, OneEach
  <1>3. QED
    BY <1>1, <1>2

(* updateVoivodeship fills what is empty.                                    *)
LEMMA FillExtends ==
  ASSUME NEW r, RaceShape(r), NEW rec, NEW E
  PROVE  LET new == [FillVoivodeship(r, rec) EXCEPT !.editions = E] IN
         /\ new.id = r.id /\ new.name = r.name /\ new.city = r.city /\ new.editions = E
         /\ r.voivodeship = NoVoivodeship \/ new.voivodeship = r.voivodeship
  BY DEF RaceShape, FillVoivodeship

(* A job that leaves the tables alone.                                       *)
LEMMA TablesStay ==
  ASSUME TurnInv, ImportInv', NEW j \in Jobs, UNCHANGED <<races, index>>,
         unindexed \subseteq unindexed', Alone',
         \A i \in Jobs \ {j} : /\ stage'[i] = stage[i] /\ entity'[i] = entity[i]
                               /\ change'[i] = change[i] /\ seen'[i] = seen[i],
         \A s : OldStamp(s) => OldStamp(s)',
         \A r \in seen'[j] \cup entity'[j] : r \in seen[j] \cup entity[j] \/ Stamped(r)',
         InHand(j)', SeenOK(j)',
         stage[j] = "index" => \A r \in entity[j] : r.id \in unindexed'
  PROVE  TurnInv'
  <1>1. \A r : Stamped(r) => Stamped(r)'
    BY DEF Stamped
  <1>2. StampsOK' /\ IdsOK'
    BY <1>1 DEF TurnInv, StampsOK, IdsOK
  <1>3. \A i \in Jobs : InHand(i)' /\ SeenOK(i)'
    <2>1. ASSUME NEW i \in Jobs \ {j} PROVE InHand(i)' /\ SeenOK(i)'
      <3>1. InHand(i) /\ SeenOK(i) /\ (i \in Running' <=> i \in Running)
        BY DEF TurnInv, Running
      <3>2. \A race : LikeNone(race) => LikeNone(race)'
        BY DEF LikeNone
      <3>3. InHand(i)'
        BY <3>1, <3>2 DEF InHand
      <3>4. SeenOK(i)'
        BY <3>1 DEF SeenOK
      <3>5. QED
        BY <3>3, <3>4
    <2>2. QED
      BY <2>1
  <1>4. IndexInSync'
    <2> SUFFICES ASSUME NEW r \in races
                 PROVE  \/ r \in index
                        \/ \E i \in Jobs : stage'[i] = "index" /\ HasId(r.id, entity'[i])
                        \/ r.id \in unindexed'
      BY DEF IndexInSync
    <2>1. \/ r \in index \/ r.id \in unindexed
          \/ \E i \in Jobs : stage[i] = "index" /\ HasId(r.id, entity[i])
      BY DEF TurnInv, IndexInSync
    <2>2. CASE \E i \in Jobs : stage[i] = "index" /\ HasId(r.id, entity[i])
      <3>1. PICK i \in Jobs : stage[i] = "index" /\ HasId(r.id, entity[i])
        BY <2>2
      <3>2. CASE i = j
        BY <3>1, <3>2 DEF HasId
      <3>3. CASE i # j
        BY <3>1, <3>3
      <3>4. QED
        BY <3>2, <3>3
    <2>3. QED
      BY <2>1, <2>2
  <1>5. QED
    BY <1>2, <1>3, <1>4 DEF TurnInv

(* A job starts when none runs.                                              *)
LEMMA StartInTurn ==
  ASSUME TurnInv, ImportInv', MaxRunning = 1, NEW j \in Jobs, Start(j)
  PROVE  TurnInv'
  <1>1. Running = {}
    <2> SUFFICES ASSUME NEW i \in Running PROVE FALSE
      OBVIOUS
    <2>1. Running = {i}
      BY DEF TurnInv, Alone
    <2>2. Cardinality(Running) = 1
      BY <2>1, FS_Singleton
    <2>3. QED
      BY <2>2 DEF Start
  <1>2. /\ stage[j] = "waiting" /\ stage' = [stage EXCEPT ![j] = "scan"]
        /\ attempt' = [attempt EXCEPT ![j] = @ + 1]
        /\ UNCHANGED <<races, index, seen, entity, change, unindexed>>
    BY DEF Start
  <1>3. /\ \A i \in Jobs \ {j} : stage'[i] = stage[i] /\ attempt'[i] = attempt[i]
        /\ stage'[j] = "scan" /\ attempt'[j] = attempt[j] + 1
    BY <1>2 DEF TurnInv, ImportInv, ControlOK
  <1>4. Running' \subseteq {j}
    BY <1>1, <1>3 DEF Running
  <1>5. \A s : OldStamp(s) => OldStamp(s)'
    BY <1>3, <1>4, StampsAge DEF TurnInv
  <1>6. entity[j] = {} /\ seen[j] = {}
    BY <1>1, <1>2 DEF TurnInv, ImportInv, ShapesOK, SeenOK
  <1>7. InHand(j)' /\ SeenOK(j)'
    BY <1>2, <1>6 DEF InHand, SeenOK
  <1>8. Alone'
    BY <1>4 DEF Alone
  <1>9. QED
    BY <1>2, <1>3, <1>5, <1>7, <1>8, TablesStay

(* A job that is cut off forgets what it has in memory; the document of the  *)
(* race it was about to index counts as missing.                             *)
LEMMA AbortInTurn ==
  ASSUME TurnInv, ImportInv', NEW j \in Jobs, Abort(j)
  PROVE  TurnInv'
  <1>1. /\ stage' = [stage EXCEPT ![j] = "waiting"] /\ seen' = [seen EXCEPT ![j] = {}]
        /\ entity' = [entity EXCEPT ![j] = {}] /\ change' = [change EXCEPT ![j] = {}]
        /\ handled' = [handled EXCEPT ![j] = 0]
        /\ UNCHANGED <<races, index, attempt>>
    BY DEF Abort
  <1>2. /\ \A i \in Jobs \ {j} : /\ stage'[i] = stage[i] /\ entity'[i] = entity[i]
                                 /\ change'[i] = change[i] /\ seen'[i] = seen[i]
                                 /\ handled'[i] = handled[i]
        /\ stage'[j] = "waiting" /\ seen'[j] = {} /\ entity'[j] = {}
    BY <1>1 DEF TurnInv, ImportInv, ControlOK
  <1>3. Running' \subseteq Running \ {j}
    BY <1>2 DEF Running
  <1>4. \A s : OldStamp(s) => OldStamp(s)'
    BY <1>1, <1>2, <1>3, StampsAge DEF TurnInv
  <1>5. unindexed \subseteq unindexed' /\ (stage[j] = "index" => \A r \in entity[j] : r.id \in unindexed')
    BY DEF Abort
  <1>6. InHand(j)' /\ SeenOK(j)' /\ Alone'
    BY <1>2, <1>3 DEF InHand, SeenOK, Alone, TurnInv
  <1>7. QED
    BY <1>1, <1>2, <1>4, <1>5, <1>6, TablesStay

(* A job at its records keeps its stage or goes on to commit.                *)
LEMMA RecordAges ==
  ASSUME TurnInv, ImportInv', NEW j \in Jobs, Scanning(j), NextRecord(j), attempt' = attempt,
         \A i \in Jobs \ {j} : stage'[i] = stage[i]
  PROVE  Alone' /\ \A s : OldStamp(s) => OldStamp(s)'
  <1>1. stage[j] = "scan" /\ \A i \in Jobs : handled'[i] \in {handled[i], handled[i] + 1}
    BY DEF Scanning, NextRecord, TurnInv, ImportInv, ControlOK
  <1>2. j \in Running /\ Running' \subseteq Running
    BY <1>1 DEF Running
  <1>3. QED
    BY <1>1, <1>2, StampsAge DEF TurnInv, Alone

(* A race that is made from a record is new to the catalogue (Create).       *)
LEMMA CreateInTurn ==
  ASSUME TurnInv, ImportInv', NEW j \in Jobs, NEW rec \in Records, NEW clock \in Clocks,
         Create(j, rec, clock)
  PROVE  TurnInv'
  <1> DEFINE edition == NewEdition(j, rec, clock)
             race == [id |-> <<j, attempt[j], handled[j]>>, name |-> rec.name, city |-> rec.city,
                      voivodeship |-> rec.voivodeship, editions |-> {edition}]
  <1>1. /\ Scanning(j) /\ NextRecord(j) /\ Matches(rec) = {} /\ stage[j] = "scan"
        /\ UNCHANGED <<races, index, attempt, unindexed, seen>>
        /\ stage' = [stage EXCEPT ![j] = "save"] /\ entity' = [entity EXCEPT ![j] = {race}]
        /\ change' = [change EXCEPT ![j] = {"created"}]
    BY DEF Create, Plan, Scanning
  <1>2. /\ \A i \in Jobs \ {j} : /\ stage'[i] = stage[i] /\ entity'[i] = entity[i]
                                 /\ change'[i] = change[i]
        /\ stage'[j] = "save" /\ entity'[j] = {race} /\ change'[j] = {"created"}
        /\ entity[j] = {}
    BY <1>1 DEF TurnInv, ImportInv, ControlOK, ShapesOK
  <1>3. Alone' /\ \A s : OldStamp(s) => OldStamp(s)'
    BY <1>1, <1>2, RecordAges
  <1>4. PICK stamp : stamp = <<j, attempt[j], handled[j]>>
    OBVIOUS
  <1>5. ~OldStamp(stamp) /\ OldStamp(stamp)'
    BY <1>1, <1>4, StampIsNew, StampIsOld DEF TurnInv
  <1>6. edition.by = stamp /\ edition.day = rec.day
    BY <1>4 DEF NewEdition
  <1>7. PICK new : new = race
    OBVIOUS
  <1> HIDE DEF edition
  <1>8. /\ new.id = stamp /\ new.name = rec.name /\ new.city = rec.city
        /\ \A e \in new.editions : e.by = stamp /\ e.day = rec.day
        /\ OneEach(new)
    BY <1>4, <1>6, <1>7 DEF OneEach
  <1> HIDE DEF race
  <1>9. Stamped(new)'
    BY <1>5, <1>8 DEF Stamped, StampsOf
  <1>10. LikeNone(new)
    <2>1. ~HasId(new.id, races)
      BY <1>5, <1>8 DEF HasId, TurnInv, StampsOK, Stamped, StampsOf
    <2>2. ASSUME NEW r \in races, NEW e \in new.editions, r.city = new.city, Similar(r.name, new.name),
                 NEW f \in r.editions, Gap(e.day, f.day) <= 1
          PROVE  FALSE
      <3>1. rec.day \in Nat /\ f.day \in Nat
        BY RecordsAssumption, TimeAssumption
           DEF TurnInv, ImportInv, ShapesOK, StoredShape, RaceShape, EditionShape
      <3>2. Gap(f.day, rec.day) <= 1
        BY <1>8, <2>2, <3>1 DEF Gap
      <3>3. r \in SimilarRaces(rec)
        BY <1>8, <2>2, <3>2 DEF SimilarRaces
      <3>4. QED
        BY <1>1, <3>3 DEF Matches
    <2>3. QED
      BY <2>1, <2>2 DEF LikeNone
  <1>11. InHand(j)'
    BY <1>1, <1>2, <1>7, <1>10 DEF InHand, LikeNone
  <1>12. SeenOK(j)'
    <2>1. ASSUME NEW r \in seen[j] PROVE Stored(r) \in races /\ new.id # r.id
      <3>1. Stored(r) \in races /\ OldStamp(r.id)
        BY <1>2 DEF TurnInv, SeenOK, StampsOK, Stamped, StampsOf
      <3>2. QED
        BY <1>5, <1>8, <3>1
    <2>2. j \in Running'
      BY <1>2 DEF Running
    <2>3. QED
      BY <1>1, <1>2, <1>7, <2>1, <2>2 DEF SeenOK
  <1>13. \A r \in seen'[j] \cup entity'[j] : r \in seen[j] \cup entity[j] \/ Stamped(r)'
    BY <1>1, <1>2, <1>7, <1>9
  <1>14. QED
    BY <1>1, <1>2, <1>3, <1>11, <1>12, <1>13, TablesStay

(* A race that is enriched says no less than its row (Enrich).               *)
LEMMA EnrichInTurn ==
  ASSUME TurnInv, ImportInv', NEW j \in Jobs, NEW rec \in Records, NEW clock \in Clocks,
         Enrich(j, rec, clock)
  PROVE  TurnInv'
  <1>1. /\ Scanning(j) /\ NextRecord(j) /\ stage[j] = "scan"
        /\ UNCHANGED <<races, index, attempt, unindexed>>
    BY DEF Enrich, Scanning
  <1>2. PICK row \in Matches(rec) :
          \E editions \in EnrichedEditions(j, Managed(j, row), rec, clock) :
            LET race == Managed(j, row)
                enriched == [FillVoivodeship(race, rec) EXCEPT !.editions = editions]
            IN /\ Remember(j, enriched)
               /\ IF enriched # race
                  THEN Plan(j, enriched,
                            IF enriched.voivodeship # race.voivodeship THEN {"voivodeship"} ELSE {})
                  ELSE UNCHANGED <<stage, entity, change>>
    BY DEF Enrich
  <1>3. PICK race : race = Managed(j, row)
    OBVIOUS
  <1>4. RaceShape(race) /\ Stamped(race) /\ row \in races /\ Stored(race) = row
    BY <1>1, <1>3, ManagedIsRow
  <1>5. PICK E \in EnrichedEditions(j, race, rec, clock) :
          LET enriched == [FillVoivodeship(race, rec) EXCEPT !.editions = E]
          IN /\ Remember(j, enriched)
             /\ IF enriched # race
                THEN Plan(j, enriched,
                          IF enriched.voivodeship # race.voivodeship THEN {"voivodeship"} ELSE {})
                ELSE UNCHANGED <<stage, entity, change>>
    BY <1>2, <1>3
  <1>6. PICK new : new = [FillVoivodeship(race, rec) EXCEPT !.editions = E]
    OBVIOUS
  <1>7. PICK kinds : kinds = IF new.voivodeship # race.voivodeship THEN {"voivodeship"} ELSE {}
    OBVIOUS
  <1>8. /\ seen' = [seen EXCEPT ![j] = {r \in seen[j] : r.id # new.id} \cup {new}]
        /\ IF new # race THEN Plan(j, new, kinds) ELSE UNCHANGED <<stage, entity, change>>
    BY <1>5, <1>6, <1>7 DEF Remember
  <1>9. PICK stamp : stamp = <<j, attempt[j], handled[j]>>
    OBVIOUS
  <1>10. ~OldStamp(stamp) /\ OldStamp(stamp)'
    BY <1>1, <1>9, StampIsNew, StampIsOld DEF TurnInv
  <1>11. /\ new.id = race.id /\ new.name = race.name /\ new.city = race.city /\ new.editions = E
         /\ race.voivodeship = NoVoivodeship \/ new.voivodeship = race.voivodeship
    BY <1>4, <1>6, FillExtends
  <1>12. /\ \A e \in race.editions : Kept(e, E)
         /\ \A e, f \in E : e.by = f.by => e = f
         /\ \A e \in E : e.by = stamp \/ \E f \in race.editions : e.by = f.by
    <2>1. OneEach(race) /\ \A e \in race.editions : e.by # stamp
      BY <1>4, <1>10 DEF Stamped, StampsOf
    <2>2. E \in EnrichedEditions(j, race, rec, clock)
      BY <1>5
    <2>3. RaceShape(race)
      BY <1>4
    <2>4. \A e \in race.editions : Kept(e, E)
      BY <1>9, <2>1, <2>2, <2>3, EnrichedKeeps
    <2>5. \A e, f \in E : e.by = f.by => e = f
      BY <1>9, <2>1, <2>2, <2>3, EnrichedKeeps
    <2>6. \A e \in E : e.by = stamp \/ \E f \in race.editions : e.by = f.by
      BY <1>9, <2>1, <2>2, <2>3, EnrichedKeeps
    <2>7. QED
      BY <2>4, <2>5, <2>6
  <1>13. \A i \in Jobs \ {j} : /\ stage'[i] = stage[i] /\ entity'[i] = entity[i]
                               /\ change'[i] = change[i] /\ seen'[i] = seen[i]
    BY <1>8 DEF Plan, TurnInv, ImportInv, ControlOK
  <1>14. Alone' /\ \A s : OldStamp(s) => OldStamp(s)'
    BY <1>1, <1>13, RecordAges
  <1>15. Stamped(new)'
    <2>1. OldStamp(race.id)' /\ \A f \in race.editions : OldStamp(f.by)'
      BY <1>4, <1>14 DEF Stamped, StampsOf
    <2>2. OldStamp(new.id)' /\ \A e \in E : OldStamp(e.by)'
      BY <1>10, <1>11, <1>12, <2>1
    <2>3. QED
      BY <1>11, <1>12, <2>2 DEF Stamped, StampsOf, OneEach
  <1>16. seen'[j] = {r \in seen[j] : r.id # new.id} \cup {new} /\ entity[j] = {}
    BY <1>1, <1>8 DEF TurnInv, ImportInv, ControlOK, ShapesOK
  <1>17. \A r \in seen[j] : Stored(r) \in races
    BY <1>16 DEF TurnInv, SeenOK
  <1>18. CASE new # race
    <2>1. /\ stage'[j] = "save" /\ entity'[j] = {new} /\ change'[j] = kinds
          /\ "created" \notin kinds
      BY <1>7, <1>8, <1>18 DEF Plan, TurnInv, ImportInv, ControlOK
    <2>2. Extends(new, row, kinds)
      <3>1. /\ row.id = race.id /\ row.name = race.name /\ row.city = race.city
            /\ row.voivodeship = race.voivodeship /\ row.editions = {Midnight(e) : e \in race.editions}
        BY <1>4, StoredSame
      <3>2. \A e \in row.editions : Kept(e, E)
        BY <1>12, <3>1 DEF Midnight, Kept
      <3>3. new.voivodeship # row.voivodeship => "voivodeship" \in kinds
        BY <1>7, <3>1
      <3>4. QED
        BY <1>11, <3>1, <3>2, <3>3 DEF Extends
    <2>3. InHand(j)'
      BY <1>1, <1>4, <2>1, <2>2 DEF InHand
    <2>4. SeenOK(j)'
      BY <1>1, <1>16, <1>17, <2>1 DEF SeenOK, Running
    <2>5. \A r \in seen'[j] \cup entity'[j] : r \in seen[j] \cup entity[j] \/ Stamped(r)'
      BY <1>15, <1>16, <2>1
    <2>6. QED
      BY <1>1, <1>13, <1>14, <2>3, <2>4, <2>5, TablesStay
  <1>19. CASE new = race
    <2>1. UNCHANGED <<stage, entity, change>>
      BY <1>8, <1>19
    <2>2. InHand(j)'
      BY <1>16, <2>1 DEF InHand
    <2>3. SeenOK(j)'
      BY <1>1, <1>4, <1>16, <1>17, <1>19, <2>1 DEF SeenOK, Running
    <2>4. \A r \in seen'[j] \cup entity'[j] : r \in seen[j] \cup entity[j] \/ Stamped(r)'
      BY <1>15, <1>16, <2>1
    <2>5. QED
      BY <1>1, <1>13, <1>14, <2>2, <2>3, <2>4, TablesStay
  <1>20. QED
    BY <1>18, <1>19

(* A record that is skipped, and the end of the scrape.                      *)
LEMMA SkipInTurn ==
  ASSUME TurnInv, ImportInv', NEW j \in Jobs, SkipInvalidDate(j)
  PROVE  TurnInv'
  <1>1. /\ Scanning(j) /\ NextRecord(j)
        /\ UNCHANGED <<races, index, attempt, unindexed, stage, seen, entity, change>>
    BY DEF SkipInvalidDate
  <1>2. Alone' /\ \A s : OldStamp(s) => OldStamp(s)'
    BY <1>1, RecordAges
  <1>3. stage[j] = "scan" /\ entity[j] = {}
    BY <1>1 DEF Scanning, TurnInv, ImportInv, ShapesOK
  <1>4. InHand(j)' /\ SeenOK(j)'
    BY <1>1, <1>3 DEF InHand, SeenOK, Running, TurnInv
  <1>5. QED
    BY <1>1, <1>2, <1>3, <1>4, TablesStay

LEMMA FinishInTurn ==
  ASSUME TurnInv, ImportInv', NEW j \in Jobs, Finish(j)
  PROVE  TurnInv'
  <1>1. /\ stage' = [stage EXCEPT ![j] = "done"] /\ seen' = [seen EXCEPT ![j] = {}]
        /\ handled' = [handled EXCEPT ![j] = 0] /\ stage[j] = "scan"
        /\ UNCHANGED <<races, index, attempt, entity, change, unindexed>>
    BY DEF Finish
  <1>2. /\ \A i \in Jobs \ {j} : stage'[i] = stage[i] /\ seen'[i] = seen[i] /\ handled'[i] = handled[i]
        /\ stage'[j] = "done" /\ seen'[j] = {} /\ entity[j] = {}
    BY <1>1 DEF TurnInv, ImportInv, ControlOK, ShapesOK
  <1>3. Running' \subseteq Running \ {j}
    BY <1>2 DEF Running
  <1>4. \A s : OldStamp(s) => OldStamp(s)'
    BY <1>1, <1>2, <1>3, StampsAge DEF TurnInv
  <1>5. InHand(j)' /\ SeenOK(j)' /\ Alone'
    BY <1>1, <1>2, <1>3 DEF InHand, SeenOK, Alone, TurnInv
  <1>6. QED
    BY <1>1, <1>2, <1>4, <1>5, TablesStay

(* What the commit does to the catalogue: a new race that is like no other,  *)
(* or one row that says what it said, or more.                               *)
Adds(race) == LikeNone(race) /\ races' = races \cup {Stored(race)}
Renews(race) ==
  \E row \in races : \E kinds : /\ Extends(race, row, kinds)
                                /\ races' = (races \ {row}) \cup {Stored(race)}
LEMMA SaveDoes ==
  ASSUME TurnInv, NEW j \in Jobs, Save(j), NEW race, entity[j] = {race}
  PROVE  /\ "created" \in change[j] => Adds(race) /\ Remember(j, race)
         /\ "created" \notin change[j] => Renews(race) /\ seen' = seen
  <1>1. stage[j] = "save"
    BY DEF Save
  <1>2. RaceShape(race) /\ Stamped(race)
    BY DEF TurnInv, ImportInv, ShapesOK, StampsOK
  <1>3. CASE "created" \in change[j]
    <2>1. races' = races \cup {Stored(race)} /\ Remember(j, race)
      BY <1>3 DEF Save
    <2>2. LikeNone(race)
      BY <1>1, <1>3 DEF TurnInv, InHand
    <2>3. QED
      BY <1>3, <2>1, <2>2 DEF Adds
  <1>4. CASE "created" \notin change[j]
    <2>1. /\ races' = {IF r.id = race.id THEN Merged(r, race, change[j]) ELSE r : r \in races}
          /\ seen' = seen
      BY <1>4 DEF Save
    <2>2. PICK row \in races : Extends(race, row, change[j])
      BY <1>1, <1>4 DEF TurnInv, InHand
    <2>3. StoredShape(row) /\ OneEach(row) /\ OneEach(race)
      BY <1>2 DEF TurnInv, ImportInv, ShapesOK, StampsOK, Stamped
    <2>4. Merged(row, race, change[j]) = Stored(race)
      BY <1>2, <2>2, <2>3, MergedIsStored
    <2>5. row.id = race.id /\ \A r \in races : r.id = race.id => r = row
      BY <2>2 DEF Extends, TurnInv, IdsOK
    <2>6. races' = (races \ {row}) \cup {Stored(race)}
      BY <2>1, <2>4, <2>5
    <2>7. QED
      BY <1>4, <2>1, <2>2, <2>6 DEF Renews
  <1>5. QED
    BY <1>3, <1>4

LEMMA SaveInTurn ==
  ASSUME TurnInv, ImportInv', NEW j \in Jobs, Save(j)
  PROVE  TurnInv'
  <1>1. PICK race : entity[j] = {race}
    BY DEF Save, TurnInv, ImportInv, ShapesOK
  <1>2. /\ stage[j] = "save" /\ stage' = [stage EXCEPT ![j] = "index"]
        /\ UNCHANGED <<index, attempt, handled, entity, change, unindexed>>
    BY DEF Save
  <1>3. /\ \A i \in Jobs \ {j} : stage'[i] = stage[i]
        /\ stage'[j] = "index" /\ entity'[j] = {race}
    BY <1>1, <1>2 DEF TurnInv, ImportInv, ControlOK
  <1>4. Running' = Running /\ j \in Running
    BY <1>2, <1>3 DEF Running
  <1>5. RaceShape(race) /\ Stamped(race)
    BY <1>1 DEF TurnInv, ImportInv, ShapesOK, StampsOK
  <1>6. PICK doc : doc = Stored(race)
    OBVIOUS
  <1>7. doc.id = race.id /\ Stamped(doc)
    BY <1>5, <1>6, StoredSame DEF Stamped
  <1>8. \A s : OldStamp(s) => OldStamp(s)'
    BY <1>2, <1>4, StampsAge DEF TurnInv
  <1>9. \A r : Stamped(r) => Stamped(r)'
    BY <1>8 DEF Stamped
  <1>10. /\ doc \in races' /\ \A r \in races' : r = doc \/ (r \in races /\ r.id # race.id)
         /\ \A r \in races : r.id # race.id => r \in races'
    <2>1. CASE "created" \in change[j]
      <3>1. LikeNone(race) /\ races' = races \cup {doc}
        BY <1>1, <1>6, <2>1, SaveDoes DEF Adds
      <3>2. QED
        BY <3>1 DEF LikeNone, HasId
    <2>2. CASE "created" \notin change[j]
      <3>1. Renews(race)
        BY <1>1, <2>2, SaveDoes
      <3>2. PICK row \in races : row.id = race.id /\ races' = (races \ {row}) \cup {doc}
        BY <1>6, <3>1 DEF Renews, Extends
      <3>3. QED
        BY <3>2 DEF TurnInv, IdsOK
    <2>3. QED
      BY <2>1, <2>2
  <1>11. /\ \A i \in Jobs \ {j} : seen'[i] = seen[i]
         /\ \A r \in seen'[j] : r = race \/ r \in seen[j]
    <2>1. CASE "created" \in change[j]
      BY <1>1, <2>1, SaveDoes DEF Remember, TurnInv, ImportInv, ControlOK
    <2>2. CASE "created" \notin change[j]
      BY <1>1, <2>2, SaveDoes
    <2>3. QED
      BY <2>1, <2>2
  <1>12. Alone'
    BY <1>4 DEF TurnInv, Alone
  <1>13. StampsOK'
    <2>1. \A r \in races' : Stamped(r)
      BY <1>7, <1>10 DEF TurnInv, StampsOK
    <2>2. ASSUME NEW i \in Jobs, NEW r \in seen'[i] \cup entity'[i] PROVE Stamped(r)
      BY <1>2, <1>5, <1>11 DEF TurnInv, StampsOK
    <2>3. QED
      BY <1>9, <2>1, <2>2 DEF StampsOK
  <1>14. IdsOK'
    BY <1>7, <1>10 DEF TurnInv, IdsOK
  <1>15. \A i \in Jobs \ {j} : entity'[i] = {} /\ seen'[i] = {} /\ stage[i] # "index"
    BY <1>2, <1>4, <1>11, OthersRest
  <1>16. InHand(j)'
    BY <1>3, <1>6, <1>10 DEF InHand
  <1>17. SeenOK(j)'
    <2>1. ASSUME NEW r \in seen[j], r # race PROVE Stored(r) \in races' /\ race.id # r.id
      <3>1. Stored(r) \in races /\ race.id # r.id
        BY <1>1, <2>1 DEF TurnInv, SeenOK
      <3>2. Stored(r).id = r.id
        BY StoredKeeps DEF TurnInv, ImportInv, ShapesOK
      <3>3. QED
        BY <1>10, <3>1, <3>2
    <2>2. QED
      BY <1>3, <1>4, <1>11, <2>1 DEF SeenOK
  <1>18. \A i \in Jobs : InHand(i)' /\ SeenOK(i)'
    <2>1. ASSUME NEW i \in Jobs \ {j} PROVE InHand(i)' /\ SeenOK(i)'
      BY <1>15 DEF InHand, SeenOK
    <2>2. QED
      BY <1>16, <1>17, <2>1
  <1>19. IndexInSync'
    <2>1. ASSUME NEW r \in races' PROVE r \in index \/ r.id \in unindexed \/ HasId(r.id, entity'[j])
      <3>1. CASE r = doc
        BY <1>3, <1>7, <3>1 DEF HasId
      <3>2. CASE r \in races
        <4>1. r \in index \/ r.id \in unindexed \/ \E i \in Jobs : stage[i] = "index"
          BY <3>2 DEF TurnInv, IndexInSync
        <4>2. QED
          BY <1>2, <1>15, <4>1
      <3>3. QED
        BY <1>10, <3>1, <3>2
    <2>2. QED
      BY <1>2, <1>3, <2>1 DEF IndexInSync
  <1>20. QED
    BY <1>12, <1>13, <1>14, <1>18, <1>19 DEF TurnInv

(* The document that is put is the row, so no race is left behind (Index).   *)
LEMMA IndexInTurn ==
  ASSUME TurnInv, ImportInv', NEW j \in Jobs, Index(j)
  PROVE  TurnInv'
  <1>1. PICK race : entity[j] = {race}
    BY DEF Index, TurnInv, ImportInv, ShapesOK
  <1>2. /\ stage[j] = "index" /\ stage' = [stage EXCEPT ![j] = "scan"]
        /\ entity' = [entity EXCEPT ![j] = {}]
        /\ index' = {d \in index : d.id # race.id} \cup {Stored(race)}
        /\ unindexed' = unindexed \ {race.id}
        /\ UNCHANGED <<races, attempt, handled, seen>>
    BY <1>1 DEF Index
  <1>3. /\ \A i \in Jobs \ {j} : stage'[i] = stage[i] /\ entity'[i] = entity[i]
        /\ stage'[j] = "scan" /\ entity'[j] = {}
    BY <1>2 DEF TurnInv, ImportInv, ControlOK
  <1>4. Running' = Running /\ j \in Running
    BY <1>2, <1>3 DEF Running
  <1>5. Stored(race) \in races /\ Stored(race).id = race.id
    BY <1>1, <1>2, StoredKeeps DEF TurnInv, InHand, ImportInv, ShapesOK
  <1>6. \A s : OldStamp(s) => OldStamp(s)'
    BY <1>2, <1>4, StampsAge DEF TurnInv
  <1>7. \A r : Stamped(r) => Stamped(r)'
    BY <1>6 DEF Stamped
  <1>8. Alone' /\ IdsOK'
    BY <1>2, <1>4 DEF TurnInv, Alone, IdsOK
  <1>9. StampsOK'
    BY <1>2, <1>3, <1>7 DEF TurnInv, StampsOK
  <1>10. \A i \in Jobs \ {j} : entity[i] = {} /\ seen[i] = {} /\ stage[i] # "index"
    BY <1>4, OthersRest
  <1>11. \A i \in Jobs : InHand(i)' /\ SeenOK(i)'
    <2>1. ASSUME NEW i \in Jobs \ {j} PROVE InHand(i)' /\ SeenOK(i)'
      BY <1>2, <1>3, <1>10 DEF InHand, SeenOK
    <2>2. InHand(j)'
      BY <1>3 DEF InHand
    <2>3. \A r \in seen[j] : Stored(r) \in races
      BY <1>1, <1>5 DEF TurnInv, SeenOK
    <2>4. SeenOK(j)'
      BY <1>2, <1>3, <1>4, <2>3 DEF SeenOK
    <2>5. QED
      BY <2>1, <2>2, <2>4
  <1>12. IndexInSync'
    <2>1. ASSUME NEW r \in races PROVE r \in index' \/ r.id \in unindexed'
      <3>1. CASE r.id = race.id
        BY <1>2, <1>5, <3>1 DEF TurnInv, IdsOK
      <3>2. CASE r.id # race.id
        <4>1. ~HasId(r.id, entity[j]) /\ \A i \in Jobs \ {j} : stage[i] # "index"
          BY <1>1, <1>10, <3>2 DEF HasId
        <4>2. r \in index \/ r.id \in unindexed
          BY <4>1 DEF TurnInv, IndexInSync
        <4>3. QED
          BY <1>2, <3>2, <4>2
      <3>3. QED
        BY <3>1, <3>2
    <2>2. QED
      BY <1>2, <2>1 DEF IndexInSync
  <1>13. QED
    BY <1>8, <1>9, <1>11, <1>12 DEF TurnInv

(* Only a commit changes the catalogue.                                      *)
LEMMA OthersOnlyRead ==
  ASSUME [Next]_vars, ~\E j \in Jobs : Save(j)
  PROVE  races' = races
  <1>1. ASSUME NEW j \in Jobs, Start(j) \/ SkipInvalidDate(j) \/ Index(j) \/ Finish(j)
        PROVE  races' = races
    BY <1>1 DEF Start, SkipInvalidDate, Index, Finish
  <1>2. ASSUME NEW j \in Jobs, Abort(j) PROVE races' = races
    BY <1>2 DEF Abort
  <1>3. ASSUME NEW j \in Jobs, NEW rec \in Records, NEW clock \in Clocks,
               Create(j, rec, clock) \/ Enrich(j, rec, clock)
        PROVE  races' = races
    BY <1>3 DEF Create, Enrich
  <1>4. QED
    BY <1>1, <1>2, <1>3 DEF Next, vars, Poisoned, Collide

(* What a commit makes of it.                                                *)
LEMMA OnlySavesWrite ==
  ASSUME TurnInv, [Next]_vars
  PROVE  races' = races \/ \E race : RaceShape(race) /\ (Adds(race) \/ Renews(race))
  <1>1. CASE \E j \in Jobs : Save(j)
    <2>1. PICK j \in Jobs : Save(j)
      BY <1>1
    <2>2. PICK race : entity[j] = {race}
      BY <2>1 DEF Save, TurnInv, ImportInv, ShapesOK
    <2>3. RaceShape(race)
      BY <2>2 DEF TurnInv, ImportInv, ShapesOK
    <2>4. QED
      BY <2>1, <2>2, <2>3, SaveDoes
  <1>2. QED
    BY <1>1, OthersOnlyRead

LEMMA TurnHolds == Init => TurnInv
  <1> SUFFICES ASSUME Init PROVE TurnInv
    OBVIOUS
  <1>1. ImportInv
    BY InitHolds
  <1>2. Running = {}
    BY DEF Init, Running
  <1>3. Alone /\ StampsOK /\ IdsOK /\ IndexInSync
    BY <1>2 DEF Init, Alone, StampsOK, IdsOK, IndexInSync
  <1>4. \A j \in Jobs : InHand(j) /\ SeenOK(j)
    BY DEF Init, InHand, SeenOK
  <1>5. QED
    BY <1>1, <1>3, <1>4 DEF TurnInv

LEMMA TurnKeeps ==
  ASSUME MaxRunning = 1, TurnInv, [Next]_vars
  PROVE  TurnInv'
  <1>1. ImportInv'
    BY StepKeeps DEF TurnInv
  <1>2. CASE UNCHANGED vars
    <2>1. Running' = Running
      BY <1>2 DEF vars, Running
    <2>2. \A r : Stamped(r) <=> Stamped(r)'
      BY <1>2, <2>1 DEF vars, Stamped, OldStamp
    <2>3. Alone' /\ StampsOK' /\ IdsOK' /\ IndexInSync'
      BY <1>2, <2>1, <2>2 DEF vars, TurnInv, Alone, StampsOK, IdsOK, IndexInSync
    <2>4. \A j \in Jobs : InHand(j)' /\ SeenOK(j)'
      BY <1>2, <2>1 DEF vars, TurnInv, InHand, SeenOK, LikeNone
    <2>5. QED
      BY <1>1, <2>3, <2>4 DEF TurnInv
  <1>3. ASSUME NEW j \in Jobs, Start(j) \/ SkipInvalidDate(j) PROVE TurnInv'
    BY <1>1, <1>3, StartInTurn, SkipInTurn
  <1>4. ASSUME NEW j \in Jobs, NEW rec \in Records, NEW clock \in Clocks,
               Create(j, rec, clock) \/ Enrich(j, rec, clock)
        PROVE  TurnInv'
    BY <1>1, <1>4, CreateInTurn, EnrichInTurn
  <1>5. ASSUME NEW j \in Jobs, NEW rec \in Records, NEW clock \in Clocks, Poisoned(j, rec, clock)
        PROVE  TurnInv'
    BY <1>1, <1>5, AbortInTurn DEF Poisoned
  <1>6. ASSUME NEW j \in Jobs, Save(j) \/ Collide(j) \/ Index(j) \/ Finish(j) \/ Abort(j)
        PROVE  TurnInv'
    BY <1>1, <1>6, SaveInTurn, IndexInTurn, FinishInTurn, AbortInTurn DEF Collide
  <1>7. QED
    BY <1>2, <1>3, <1>4, <1>5, <1>6 DEF Next

(* Jobs in turn agree with the tables in every reachable state.              *)
THEOREM TurnInvariance ==
  ASSUME MaxRunning = 1
  PROVE  Spec => []TurnInv
  BY TurnHolds, TurnKeeps, PTL DEF Spec

(* While imports run in turn, every race is in the index as its row says it, *)
(* but for the one about to be indexed and those a job that was cut off left *)
(* (ImportRacesHandler commits, then indexes).                               *)
THEOREM IndexHasEveryRace ==
  ASSUME MaxRunning = 1
  PROVE  Spec => []IndexInSync
  <1>1. TurnInv => IndexInSync
    BY DEF TurnInv
  <1>2. QED
    BY <1>1, TurnInvariance, PTL

(* While imports run in turn, none creates a race beside a similar one of    *)
(* the same city and day: findBySlug, findSimilar and DuplicateDetector.     *)
THEOREM NoNearDuplicate ==
  ASSUME MaxRunning = 1
  PROVE  Spec => NoNearDuplicateCreated
  <1> DEFINE Apart(n) ==
        \A r \in races, e \in n.editions :
          ~ (/\ r.city = n.city /\ Similar(r.name, n.name)
             /\ \E f \in r.editions : Gap(e.day, f.day) <= 1)
  <1>1. ASSUME TurnInv, [Next]_vars, NEW n \in races', ~HasId(n.id, races) PROVE Apart(n)
    <2>1. n \notin races
      BY <1>1 DEF HasId
    <2>2. PICK race : RaceShape(race) /\ (Adds(race) \/ Renews(race))
      BY <1>1, <2>1, OnlySavesWrite
    <2>3. n = Stored(race)
      BY <1>1, <2>1, <2>2 DEF Adds, Renews
    <2>4. /\ n.id = race.id /\ n.city = race.city /\ n.name = race.name
          /\ n.editions = {Midnight(e) : e \in race.editions}
      BY <2>2, <2>3, StoredSame
    <2>5. ~Renews(race)
      BY <1>1, <2>4 DEF Renews, Extends, HasId
    <2>6. LikeNone(race)
      BY <2>2, <2>5 DEF Adds
    <2>7. \A e \in n.editions : \E g \in race.editions : e.day = g.day
      BY <2>4 DEF Midnight
    <2>8. QED
      BY <2>4, <2>6, <2>7 DEF LikeNone
  <1>2. TurnInv /\ [Next]_vars => [\A n \in races' : HasId(n.id, races) \/ Apart(n)]_vars
    BY <1>1
  <1>3. QED
    BY <1>2, TurnInvariance, PTL DEF Spec, NoNearDuplicateCreated

(* While imports run in turn, what was committed of a race is never lost or  *)
(* overwritten: enrichRace and the flush only add.                           *)
THEOREM OnlyAdds ==
  ASSUME MaxRunning = 1
  PROVE  Spec => EnrichmentOnlyAdds
  <1> DEFINE Says(n, r) ==
        /\ n.id = r.id
        /\ r.voivodeship \in {NoVoivodeship, n.voivodeship}
        /\ \A e \in r.editions : \E f \in n.editions :
             f.by = e.by /\ f.day = e.day /\ e.distances \subseteq f.distances
  <1>1. ASSUME TurnInv, [Next]_vars, NEW r \in races PROVE \E n \in races' : Says(n, r)
    <2>1. CASE r \in races'
      BY <2>1
    <2>2. CASE r \notin races'
      <3>1. PICK race : RaceShape(race) /\ (Adds(race) \/ Renews(race))
        BY <1>1, <2>2, OnlySavesWrite
      <3>2. PICK kinds : Extends(race, r, kinds) /\ Stored(race) \in races'
        BY <2>2, <3>1 DEF Adds, Renews
      <3>3. /\ Stored(race).id = race.id /\ Stored(race).voivodeship = race.voivodeship
            /\ \A e : Kept(e, race.editions) <=> Kept(e, Stored(race).editions)
        BY <3>1, StoredSame
      <3>4. /\ Stored(race).id = r.id /\ r.voivodeship \in {NoVoivodeship, Stored(race).voivodeship}
            /\ \A e \in r.editions : Kept(e, Stored(race).editions)
        BY <3>2, <3>3 DEF Extends
      <3>5. Says(Stored(race), r)
        BY <3>4 DEF Kept
      <3>6. QED
        BY <3>2, <3>5
    <2>3. QED
      BY <2>1, <2>2
  <1>2. TurnInv /\ [Next]_vars => [\A r \in races : \E n \in races' : Says(n, r)]_vars
    BY <1>1
  <1>3. QED
    BY <1>2, TurnInvariance, PTL DEF Spec, EnrichmentOnlyAdds

-----------------------------------------------------------------------------
(* One edition of a year.                                                    *)

OneAYear(r) == \A e, f \in r.editions : Year(e.day) = Year(f.day) => e = f
(* The catalogue has one edition of a year of each race, and so has what a   *)
(* job is about to commit.                                                   *)
YearInv ==
  /\ TurnInv /\ OneEditionPerYear
  /\ \A j \in Jobs : \A race \in entity[j] : OneAYear(race)

(* The tables keep as many editions of a year as the job has in memory.      *)
LEMMA StoredYears ==
  ASSUME NEW r, RaceShape(r), OneEach(r)
  PROVE  OneAYear(Stored(r)) <=> OneAYear(r)
  <1>1. Stored(r).editions = {Midnight(e) : e \in r.editions}
    BY StoredSame
  <1>2. \A e : Midnight(e).by = e.by /\ Midnight(e).day = e.day
    BY DEF Midnight
  <1>3. \A e, f \in r.editions : Midnight(e) = Midnight(f) => e = f
    BY <1>2 DEF OneEach
  <1>4. QED
    BY <1>1, <1>2, <1>3 DEF OneAYear

(* enrichRace adds an edition of a new year, or changes one in place.        *)
LEMMA EnrichedYears ==
  ASSUME NEW j, NEW r, RaceShape(r), OneAYear(r), NEW rec, NEW clock,
         NEW E \in EnrichedEditions(j, r, rec, clock)
  PROVE  \A e, f \in E : Year(e.day) = Year(f.day) => e = f
  <1>1. CASE EditionsAt(r, rec.day, clock) = {}
    <2>1. \/ E = r.editions
          \/ E = r.editions \cup {NewEdition(j, rec, clock)} /\ ~YearTaken(r, rec.day)
      BY <1>1 DEF EnrichedEditions
    <2>2. NewEdition(j, rec, clock).day = rec.day
      BY DEF NewEdition
    <2> HIDE DEF EnrichedEditions
    <2>3. QED
      BY <2>1, <2>2 DEF OneAYear, YearTaken
  <1>2. CASE EditionsAt(r, rec.day, clock) # {}
    <2> DEFINE more(e) == [e EXCEPT !.distances = AddMissing(@, rec.distances)]
    <2>1. PICK f \in EditionsAt(r, rec.day, clock) : E = (r.editions \ {f}) \cup {more(f)}
      BY <1>2 DEF EnrichedEditions
    <2>2. f \in r.editions /\ EditionShape(f)
      BY <2>1 DEF EditionsAt, RaceShape
    <2>3. more(f).day = f.day
      BY <2>2 DEF EditionShape
    <2> HIDE DEF more
    <2>4. QED
      BY <2>1, <2>2, <2>3 DEF OneAYear
  <1>3. QED
    BY <1>1, <1>2

(* What a step makes a job hold has one edition of a year.                   *)
LEMMA HeldYears ==
  ASSUME MaxRunning = 1, YearInv, [Next]_vars, NEW j \in Jobs, NEW race \in entity'[j]
  PROVE  OneAYear(race)
  <1>1. entity \in [Jobs -> SUBSET UNION {entity[i] : i \in Jobs}]
        /\ \A i \in Jobs : \A r \in entity[i] : OneAYear(r)
    BY DEF YearInv, TurnInv, ImportInv, ControlOK
  <1>2. CASE race \in entity[j]
    BY <1>1, <1>2
  <1>3. ASSUME NEW i \in Jobs, NEW rec \in Records, NEW clock \in Clocks, Create(i, rec, clock)
        PROVE  OneAYear(race)
    <2> DEFINE edition == NewEdition(i, rec, clock)
               new == [id |-> <<i, attempt[i], handled[i]>>, name |-> rec.name,
                       city |-> rec.city, voivodeship |-> rec.voivodeship,
                       editions |-> {edition}]
    <2>1. entity' = [entity EXCEPT ![i] = {new}]
      BY <1>3 DEF Create, Plan
    <2>2. new.editions = {edition}
      OBVIOUS
    <2> HIDE DEF edition
    <2>3. OneAYear(new)
      BY <2>2 DEF OneAYear
    <2> HIDE DEF new
    <2>4. race \in entity[j] \/ race = new
      BY <1>1, <2>1
    <2>5. QED
      BY <1>2, <2>3, <2>4
  <1>4. ASSUME NEW i \in Jobs, NEW rec \in Records, NEW clock \in Clocks, Enrich(i, rec, clock)
        PROVE  OneAYear(race)
    <2>1. PICK row \in Matches(rec) :
            \E editions \in EnrichedEditions(i, Managed(i, row), rec, clock) :
              LET new == [FillVoivodeship(Managed(i, row), rec) EXCEPT !.editions = editions]
              IN entity' \in {entity, [entity EXCEPT ![i] = {new}]}
      BY <1>4 DEF Enrich, Plan
    <2>2. PICK old : old = Managed(i, row)
      OBVIOUS
    <2>3. PICK E \in EnrichedEditions(i, old, rec, clock) :
            entity' \in {entity, [entity EXCEPT ![i] =
                                    {[FillVoivodeship(old, rec) EXCEPT !.editions = E]}]}
      BY <2>1, <2>2
    <2>4. stage[i] = "scan" /\ TurnInv
      BY <1>4 DEF Enrich, Scanning, YearInv
    <2>5. RaceShape(old) /\ OneEach(old) /\ row \in races /\ Stored(old) = row
      BY <2>2, <2>4, ManagedIsRow DEF Stamped
    <2>6. OneAYear(old)
      BY <2>5, StoredYears DEF YearInv, OneEditionPerYear, OneAYear
    <2>7. \A e, f \in E : Year(e.day) = Year(f.day) => e = f
      BY <2>3, <2>5, <2>6, EnrichedYears
    <2>8. PICK new : new = [FillVoivodeship(old, rec) EXCEPT !.editions = E]
      OBVIOUS
    <2>9. new.editions = E
      BY <2>5, <2>8, FillExtends
    <2>10. OneAYear(new)
      BY <2>7, <2>9 DEF OneAYear
    <2>11. race \in entity[j] \/ race = new
      BY <1>1, <2>3, <2>8
    <2>12. QED
      BY <1>2, <2>10, <2>11
  <1>5. ASSUME NEW i \in Jobs, Abort(i) \/ Index(i) PROVE OneAYear(race)
    <2>1. entity' = [entity EXCEPT ![i] = {}]
      BY <1>5 DEF Abort, Index
    <2>2. QED
      BY <1>1, <1>2, <2>1
  <1>6. ASSUME NEW i \in Jobs, Start(i) \/ SkipInvalidDate(i) \/ Save(i) \/ Finish(i)
        PROVE  OneAYear(race)
    BY <1>2, <1>6 DEF Start, SkipInvalidDate, Save, Finish
  <1>7. QED
    BY <1>2, <1>3, <1>4, <1>5, <1>6 DEF Next, Poisoned, Collide, vars

(* A step commits what a job holds.                                          *)
LEMMA YearKeeps ==
  ASSUME MaxRunning = 1, YearInv, [Next]_vars
  PROVE  YearInv'
  <1>1. TurnInv'
    BY TurnKeeps DEF YearInv
  <1>2. \A j \in Jobs : \A race \in entity'[j] : OneAYear(race)
    BY HeldYears
  <1>3. ASSUME NEW r \in races' PROVE OneAYear(r)
    <2>1. CASE r \in races
      BY <2>1 DEF YearInv, OneEditionPerYear, OneAYear
    <2>2. CASE r \notin races
      <3>1. PICK j \in Jobs : Save(j)
        <4>1. races' # races
          BY <2>2
        <4>2. QED
          BY <4>1, OthersOnlyRead
      <3>2. PICK race : entity[j] = {race}
        BY <3>1 DEF Save, YearInv, TurnInv, ImportInv, ShapesOK
      <3>3. RaceShape(race) /\ OneEach(race) /\ OneAYear(race)
        BY <3>2 DEF YearInv, TurnInv, ImportInv, ShapesOK, StampsOK, Stamped
      <3>4. r = Stored(race)
        BY <2>2, <3>1, <3>2, SaveDoes DEF YearInv, Adds, Renews
      <3>5. QED
        BY <3>3, <3>4, StoredYears
    <2>3. QED
      BY <2>1, <2>2
  <1>4. OneEditionPerYear'
    BY <1>3 DEF OneEditionPerYear, OneAYear
  <1>5. (\A j \in Jobs : \A race \in entity[j] : OneAYear(race))'
    BY <1>2 DEF OneAYear
  <1>6. QED
    BY <1>1, <1>4, <1>5 DEF YearInv

(* While imports run in turn, no race gets two editions of a calendar year   *)
(* (Race::addEdition), whatever is scraped, cut off and tried again.         *)
THEOREM OneEditionAYear ==
  ASSUME MaxRunning = 1
  PROVE  Spec => []OneEditionPerYear
  <1>1. Init => YearInv
    BY TurnHolds DEF Init, YearInv, OneEditionPerYear
  <1>2. YearInv => OneEditionPerYear
    BY DEF YearInv
  <1>3. QED
    BY <1>1, <1>2, YearKeeps, PTL DEF Spec
===============================================================================
