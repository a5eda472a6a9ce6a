--------------------------- MODULE RaceEventsProofs ---------------------------
(*****************************************************************************)
(* Type correctness of RaceEvents, in which three ways alone a located race  *)
(* may miss the index, and which digests watchers get of an import, for any  *)
(* races, watchers, failing handlers, retries and deaths.                    *)
(*****************************************************************************)
EXTENDS RaceEvents, FiniteSetTheorems, TLAPS

(* How far the copies of a race have come.                                   *)
States == {"none", "plain", "located"}
(* A message on the async transport, sent when n imports were announced.     *)
MessageOK(m, n) ==
  /\ m \in [kind: {"imported", "geocoded", "email"}, nr: Nat, copy: {m.copy},
            races: SUBSET Races, to: SUBSET Users, handlers: SUBSET Handlers, tries: Nat]
  /\ m.nr \in 0..n /\ m.tries \in 1..(MaxTries + 1)
  /\ m.handlers # {} /\ m.handlers \subseteq HandlersOf(m.kind)

(* The copies of every race: row, document, memory of import and of reindex. *)
RacesTyped ==
  /\ rows \in [Races -> States] /\ docs \in [Races -> States] /\ seen \in [Races -> States]
  /\ snapshot \in [Races -> States]
  /\ fresh \subseteq Races
(* A process that is not geocoding holds no races.                           *)
ProcessesOK ==
  /\ geocoding \in [Processes -> BOOLEAN]
  /\ todo \in [Processes -> SUBSET Races] /\ located \in [Processes -> SUBSET Races]
  /\ \A p \in Processes : ~geocoding[p] => todo[p] = {} /\ located[p] = {}
  /\ handler = "geocode" <=> geocoding["worker"]
(* A message that is sent again has a try left.                              *)
MessagesOK ==
  /\ imports \in Nat
  /\ \A m \in queue \cup held \cup failures : MessageOK(m, imports)
  /\ \A m \in queue \cup held : m.tries <= MaxTries
(* The worker is at the handlers of its message, and only those.             *)
WorkerOK ==
  /\ handler \in Handlers \cup {"none"}
  /\ \A m, n \in held : m = n
  /\ held = {} => handler = "none" /\ left = {} /\ broken = {}
  /\ recipients # {} => handler \in Serving
  /\ \A m \in held :
       /\ left \cup broken \subseteq HandlersOf(m.kind)
       /\ handler # "none" => handler \in HandlersOf(m.kind)
       /\ handler = "reindex" => \A r \in Races : snapshot[r] # "none" => r \in m.races

(* The document of r will be renewed whatever the worker is reindexing now.  *)
RenewedLater(r) ==
  \/ \E m \in queue : m.kind = "geocoded" /\ r \in m.races
  \/ \E p \in Processes : r \in located[p]
(* A handler that loaded r before it was located does no harm.               *)
OldSnapshots ==
  \A r \in Races :
    rows[r] = "located" /\ handler = "reindex" /\ snapshot[r] = "plain"
      => RenewedLater(r) \/ r \in cutOff
EventsInv ==
  RacesTyped /\ ProcessesOK /\ MessagesOK /\ WorkerOK /\ OldSnapshots /\ LocatedIsIndexed

-------------------------------------------------------------------------------
(* A new message is well formed, and sent.                                   *)
LEMMA DispatchKeeps ==
  ASSUME MessagesOK, NEW kind \in {"imported", "geocoded", "email"}, NEW nr \in Nat, NEW copy,
         NEW ids \in SUBSET Races, NEW to \in SUBSET Users,
         Dispatch(Message(kind, nr, copy, ids, to)), imports' \in Nat, imports' >= imports,
         nr <= imports', UNCHANGED <<held, failures>>
  PROVE  /\ MessagesOK' /\ queue \subseteq queue'
         /\ \E m \in queue' : m.kind = kind /\ m.races = ids
  <1> DEFINE m == Message(kind, nr, copy, ids, to)
  <1>1. /\ m.kind = kind /\ m.nr = nr /\ m.races = ids /\ m.to = to
        /\ m.handlers = HandlersOf(kind) /\ m.tries = 1 /\ m.copy = copy
        /\ m \in [kind: {kind}, nr: {nr}, copy: {copy}, races: {ids}, to: {to},
                  handlers: {HandlersOf(kind)}, tries: {1}]
    BY DEF Message
  <1>2. /\ imports \in Nat
        /\ \A x \in queue \cup held \cup failures : MessageOK(x, imports)
    BY DEF MessagesOK
  <1>3. HandlersOf(kind) # {} /\ HandlersOf(kind) \subseteq Handlers
    BY DEF HandlersOf, Handlers
  <1>4. queue' = queue \cup {m}
    BY DEF Dispatch
  <1> HIDE DEF m
  <1>5. MessageOK(m, imports')
    BY <1>1, <1>2, <1>3, BoundsAssumption DEF MessageOK
  <1>6. ASSUME NEW x \in queue \cup held \cup failures PROVE MessageOK(x, imports')
    BY <1>2 DEF MessageOK
  <1>7. 1 <= MaxTries
    BY BoundsAssumption
  <1>8. ASSUME NEW x \in queue' \cup held' PROVE x.tries <= MaxTries
    BY <1>1, <1>4, <1>7 DEF MessagesOK
  <1>9. QED
    BY <1>1, <1>2, <1>4, <1>5, <1>6, <1>8 DEF MessagesOK

(* The announcement of what a process geocoded.                              *)
LEMMA Announced ==
  ASSUME MessagesOK, ProcessesOK, NEW p \in Processes, Conclude(p), located[p] # {}
  PROVE  /\ MessagesOK' /\ queue \subseteq queue'
         /\ \A r \in located[p] : \E m \in queue' : m.kind = "geocoded" /\ r \in m.races
  <1>1. PICK copy \in {0, 1} : Dispatch(Message("geocoded", 0, copy, located[p], {}))
    BY DEF Conclude, RacesGeocoded
  <1>2. UNCHANGED <<held, failures, imports>> /\ imports \in Nat
    BY DEF Conclude, importVars, MessagesOK
  <1>3. located[p] \in SUBSET Races /\ {} \in SUBSET Users
    BY DEF ProcessesOK
  <1>4. QED
    BY <1>1, <1>2, <1>3, DispatchKeeps

(* The email to a watcher.                                                   *)
LEMMA Enqueued ==
  ASSUME MessagesOK, NEW u \in Users, Mail(u)
  PROVE  MessagesOK' /\ queue \subseteq queue'
  <1>1. PICK m \in held : Dispatch(Message("email", m.nr, Copy(m.nr, u), {}, {u}))
    BY DEF Mail, SendEmailMessage
  <1>2. UNCHANGED <<held, failures, imports>> /\ imports \in Nat
    BY DEF Mail, importVars, MessagesOK
  <1>3. m.nr \in Nat /\ m.nr <= imports
    BY <1>2 DEF MessagesOK, MessageOK
  <1>4. {u} \in SUBSET Users /\ {} \in SUBSET Races
    OBVIOUS
  <1> DEFINE c == Copy(m.nr, u)
  <1> HIDE DEF c
  <1>5. Dispatch(Message("email", m.nr, c, {}, {u}))
    BY <1>1 DEF c
  <1>6. QED
    BY <1>2, <1>3, <1>4, <1>5, DispatchKeeps

(* Every step of the imports, the worker and the command keeps the           *)
(* invariant.                                                                *)
LEMMA StepKeeps ==
  ASSUME EventsInv, [Next]_vars
  PROVE  EventsInv'
  <1>0. RacesTyped /\ ProcessesOK /\ MessagesOK /\ WorkerOK /\ OldSnapshots /\ LocatedIsIndexed
    BY DEF EventsInv
  <1>1. CASE \E r \in Races : Import(r)
    <2>1. RacesTyped'
      BY <1>0, <1>1 DEF RacesTyped, States, Import, workVars
    <2>2. ProcessesOK'
      BY <1>0, <1>1 DEF ProcessesOK, Import, geocodeVars, workVars
    <2>3. MessagesOK'
      BY <1>0, <1>1 DEF MessagesOK, importVars, Import, workVars
    <2>4. WorkerOK'
      BY <1>0, <1>1 DEF WorkerOK, Serving, Handlers, Import, workVars
    <2>5. OldSnapshots'
      BY <1>0, <1>1 DEF OldSnapshots, historyVars, RenewedLater, Import, geocodeVars, workVars
    <2>6. LocatedIsIndexed'
      BY <1>0, <1>1 DEF LocatedIsIndexed, historyVars, ReindexComing, ReindexGivenUp, Import,
         geocodeVars, workVars
    <2>7. QED
      BY <2>1, <2>2, <2>3, <2>4, <2>5, <2>6 DEF EventsInv
  <1>2. CASE \E r \in Races : Load(r)
    <2>1. RacesTyped'
      BY <1>0, <1>2 DEF RacesTyped, Load, workVars
    <2>2. ProcessesOK'
      BY <1>0, <1>2 DEF ProcessesOK, Load, geocodeVars, workVars
    <2>3. MessagesOK'
      BY <1>0, <1>2 DEF MessagesOK, importVars, Load, workVars
    <2>4. WorkerOK'
      BY <1>0, <1>2 DEF WorkerOK, Serving, Handlers, Load, workVars
    <2>5. OldSnapshots'
      BY <1>0, <1>2 DEF OldSnapshots, historyVars, RenewedLater, Load, geocodeVars, workVars
    <2>6. LocatedIsIndexed'
      BY <1>0, <1>2 DEF LocatedIsIndexed, historyVars, ReindexComing, ReindexGivenUp, Load,
         geocodeVars, workVars
    <2>7. QED
      BY <2>1, <2>2, <2>3, <2>4, <2>5, <2>6 DEF EventsInv
  <1>3. CASE \E r \in Races : Enrich(r)
    <2>1. RacesTyped'
      BY <1>0, <1>3 DEF RacesTyped, Enrich, workVars
    <2>2. ProcessesOK'
      BY <1>0, <1>3 DEF ProcessesOK, Enrich, geocodeVars, workVars
    <2>3. MessagesOK'
      BY <1>0, <1>3 DEF MessagesOK, importVars, Enrich, workVars
    <2>4. WorkerOK'
      BY <1>0, <1>3 DEF WorkerOK, Serving, Handlers, Enrich, workVars
    <2>5. OldSnapshots'
      BY <1>0, <1>3 DEF OldSnapshots, historyVars, RenewedLater, Enrich, geocodeVars, workVars
    <2>6. LocatedIsIndexed'
      BY <1>0, <1>3 DEF LocatedIsIndexed, historyVars, ReindexComing, ReindexGivenUp, RacesTyped,
         States, Enrich, geocodeVars, workVars
    <2>7. QED
      BY <2>1, <2>2, <2>3, <2>4, <2>5, <2>6 DEF EventsInv
  <1>4. CASE Announce
    <2>1. RacesTyped'
      BY <1>0, <1>4 DEF RacesTyped, States, Announce, Dispatch, RacesImported, Message, workVars
    <2>2. ProcessesOK'
      BY <1>0, <1>4 DEF ProcessesOK, Announce, Dispatch, RacesImported, Message, geocodeVars,
         workVars
    <2>3. MessagesOK'
      <3>1. CASE fresh = {}
        BY <1>0, <1>4, <3>1 DEF Announce, MessagesOK, importVars, workVars
      <3>2. CASE fresh # {}
        <4>1. /\ Dispatch(Message("imported", imports + 1, 0, fresh, {}))
              /\ imports' = imports + 1 /\ UNCHANGED <<held, failures>>
          BY <1>4, <3>2 DEF Announce, RacesImported, workVars
        <4>2. imports \in Nat /\ fresh \in SUBSET Races /\ {} \in SUBSET Users
          BY <1>0 DEF MessagesOK, RacesTyped
        <4>3. QED
          BY <1>0, <4>1, <4>2, DispatchKeeps
      <3>3. QED
        BY <3>1, <3>2
    <2>4. WorkerOK'
      BY <1>0, <1>4 DEF WorkerOK, Serving, Handlers, Announce, Dispatch, RacesImported, Message,
         workVars
    <2>5. OldSnapshots'
      BY <1>0, <1>4 DEF OldSnapshots, historyVars, RenewedLater, Announce, Dispatch,
         RacesImported, Message, geocodeVars, workVars
    <2>6. LocatedIsIndexed'
      BY <1>0, <1>4 DEF LocatedIsIndexed, historyVars, ReindexComing, ReindexGivenUp, Announce,
         Dispatch, RacesImported, Message, geocodeVars, workVars
    <2>7. QED
      BY <2>1, <2>2, <2>3, <2>4, <2>5, <2>6 DEF EventsInv
  <1>5. CASE Backfill
    <2>1. RacesTyped'
      BY <1>0, <1>5 DEF RacesTyped, Backfill, Begin, importVars, workVars
    <2>2. ProcessesOK'
      BY <1>0, <1>5 DEF ProcessesOK, Processes, Backfill, Begin, workVars
    <2>3. MessagesOK'
      BY <1>0, <1>5 DEF MessagesOK, importVars, Backfill, Begin, workVars
    <2>4. WorkerOK'
      BY <1>0, <1>5 DEF WorkerOK, Serving, Handlers, Backfill, Begin, workVars
    <2>5. OldSnapshots'
      BY <1>0, <1>5 DEF OldSnapshots, historyVars, RenewedLater, Backfill, Begin, workVars
    <2>6. LocatedIsIndexed'
      BY <1>0, <1>5 DEF LocatedIsIndexed, historyVars, ReindexComing, ReindexGivenUp, Backfill,
         Begin, workVars
    <2>7. QED
      BY <2>1, <2>2, <2>3, <2>4, <2>5, <2>6 DEF EventsInv
  <1>6. CASE \E m \in queue : Receive(m)
    <2>1. RacesTyped'
      BY <1>0, <1>6 DEF RacesTyped, Receive, importVars
    <2>2. ProcessesOK'
      BY <1>0, <1>6 DEF ProcessesOK, Receive, geocodeVars
    <2>3. MessagesOK'
      BY <1>0, <1>6 DEF MessagesOK, importVars, Receive
    <2>4. WorkerOK'
      BY <1>0, <1>6 DEF WorkerOK, Serving, Handlers, MessagesOK, MessageOK, Receive
    <2>5. OldSnapshots'
      BY <1>0, <1>6 DEF OldSnapshots, historyVars, WorkerOK, Receive
    <2>6. LocatedIsIndexed'
      BY <1>0, <1>6 DEF LocatedIsIndexed, historyVars, ReindexComing, ReindexGivenUp, MessagesOK,
         MessageOK, Receive, geocodeVars
    <2>7. QED
      BY <2>1, <2>2, <2>3, <2>4, <2>5, <2>6 DEF EventsInv
  <1>7. CASE CallGeocode
    <2>1. RacesTyped'
      BY <1>0, <1>7 DEF RacesTyped, CallGeocode, Call, Begin, importVars
    <2>2. ProcessesOK'
      BY <1>0, <1>7 DEF ProcessesOK, Processes, CallGeocode, Call, Begin, MessagesOK, MessageOK
    <2>3. MessagesOK'
      BY <1>0, <1>7 DEF MessagesOK, importVars, CallGeocode, Call, Begin
    <2>4. WorkerOK'
      BY <1>0, <1>7 DEF WorkerOK, Serving, Handlers, CallGeocode, Call, Begin
    <2>5. OldSnapshots'
      BY <1>0, <1>7 DEF OldSnapshots, historyVars, CallGeocode, Call, Begin
    <2>6. LocatedIsIndexed'
      BY <1>0, <1>7 DEF LocatedIsIndexed, historyVars, ReindexComing, ReindexGivenUp, WorkerOK,
         HandlersOf, CallGeocode, Call, Begin
    <2>7. QED
      BY <2>1, <2>2, <2>3, <2>4, <2>5, <2>6 DEF EventsInv
  <1>8. CASE \E p \in Processes : SaveNext(p)
    <2>1. RacesTyped'
      BY <1>0, <1>8 DEF RacesTyped, States, SaveNext, importVars, workVars
    <2>2. ProcessesOK'
      BY <1>0, <1>8 DEF ProcessesOK, SaveNext, workVars
    <2>3. MessagesOK'
      BY <1>0, <1>8 DEF MessagesOK, importVars, SaveNext, workVars
    <2>4. WorkerOK'
      BY <1>0, <1>8 DEF WorkerOK, Serving, Handlers, SaveNext, workVars
    <2>5. OldSnapshots'
      BY <1>0, <1>8 DEF OldSnapshots, historyVars, RenewedLater, ProcessesOK, SaveNext, workVars
    <2>6. LocatedIsIndexed'
      BY <1>0, <1>8 DEF LocatedIsIndexed, historyVars, ReindexComing, ReindexGivenUp,
         ProcessesOK, SaveNext, workVars
    <2>7. QED
      BY <2>1, <2>2, <2>3, <2>4, <2>5, <2>6 DEF EventsInv
  <1>9. CASE \E p \in Processes : Conclude(p)
    <2>1. RacesTyped'
      BY <1>0, <1>9 DEF RacesTyped, Conclude, Dispatch, RacesGeocoded, Message, Forget,
         importVars
    <2>2. ProcessesOK'
      BY <1>0, <1>9 DEF ProcessesOK, Conclude, Dispatch, RacesGeocoded, Message, Forget
    <2>3. MessagesOK'
      <3>1. PICK p \in Processes : Conclude(p)
        BY <1>9
      <3>2. CASE located[p] = {}
        BY <1>0, <3>1, <3>2 DEF Conclude, MessagesOK, importVars
      <3>3. CASE located[p] # {}
        BY <1>0, <3>1, <3>3, Announced
      <3>4. QED
        BY <3>2, <3>3
    <2>4. WorkerOK'
      BY <1>0, <1>9 DEF WorkerOK, Serving, Handlers, ProcessesOK, Conclude, Dispatch,
         RacesGeocoded, Message, Forget
    <2> DEFINE Sent == /\ queue \subseteq queue'
                       /\ \A p \in Processes : \A r \in located[p] :
                            \/ \E m \in queue' : m.kind = "geocoded" /\ r \in m.races
                            \/ r \in located'[p]
    <2>5. Sent
      <3>1. PICK p \in Processes : Conclude(p)
        BY <1>9
      <3>2. /\ queue \subseteq queue'
            /\ \A r \in located[p] : \E m \in queue' : m.kind = "geocoded" /\ r \in m.races
        <4>1. CASE located[p] = {}
          BY <3>1, <4>1 DEF Conclude
        <4>2. CASE located[p] # {}
          BY <1>0, <3>1, <4>2, Announced
        <4>3. QED
          BY <4>1, <4>2
      <3>3. \A o \in Processes \ {p} : located'[o] = located[o]
        BY <1>0, <3>1 DEF Conclude, Forget, ProcessesOK
      <3>4. QED
        BY <3>2, <3>3
    <2>6. /\ handler = "reindex" <=> handler' = "reindex"
          /\ UNCHANGED <<rows, docs, held, left, broken, snapshot, failures, cutOff, overtaken>>
      BY <1>0, <1>9 DEF Conclude, ProcessesOK, historyVars
    <2> HIDE DEF Sent
    <2>7. OldSnapshots'
      BY <1>0, <2>5, <2>6 DEF Sent, OldSnapshots, RenewedLater
    <2>8. LocatedIsIndexed'
      BY <1>0, <2>5, <2>6 DEF Sent, LocatedIsIndexed, ReindexComing, ReindexGivenUp
    <2>9. QED
      BY <2>1, <2>2, <2>3, <2>4, <2>7, <2>8 DEF EventsInv
  <1>10. CASE CallNotify
    <2>1. RacesTyped'
      BY <1>0, <1>10 DEF RacesTyped, CallNotify, Call, importVars
    <2>2. ProcessesOK'
      BY <1>0, <1>10 DEF ProcessesOK, CallNotify, Call, geocodeVars
    <2>3. MessagesOK'
      BY <1>0, <1>10 DEF MessagesOK, importVars, CallNotify, Call
    <2>4. WorkerOK'
      BY <1>0, <1>10 DEF WorkerOK, Serving, Handlers, CallNotify, Call
    <2>5. OldSnapshots'
      BY <1>0, <1>10 DEF OldSnapshots, historyVars, CallNotify, Call
    <2>6. LocatedIsIndexed'
      BY <1>0, <1>10 DEF LocatedIsIndexed, historyVars, ReindexComing, ReindexGivenUp, WorkerOK,
         HandlersOf, CallNotify, Call, geocodeVars
    <2>7. QED
      BY <2>1, <2>2, <2>3, <2>4, <2>5, <2>6 DEF EventsInv
  <1>11. CASE \E u \in Users : Mail(u)
    <2>1. RacesTyped'
      BY <1>0, <1>11 DEF RacesTyped, Mail, importVars
    <2>2. ProcessesOK'
      BY <1>0, <1>11 DEF ProcessesOK, Mail, geocodeVars
    <2>3. MessagesOK'
      BY <1>0, <1>11, Enqueued
    <2>4. WorkerOK'
      BY <1>0, <1>11 DEF WorkerOK, Serving, Handlers, Mail
    <2>5. OldSnapshots'
      BY <1>0, <1>11 DEF OldSnapshots, historyVars, Mail
    <2>6. LocatedIsIndexed'
      BY <1>0, <1>11 DEF LocatedIsIndexed, historyVars, ReindexComing, ReindexGivenUp, Mail,
         Dispatch, geocodeVars
    <2>7. QED
      BY <2>1, <2>2, <2>3, <2>4, <2>5, <2>6 DEF EventsInv
  <1>12. CASE AllServed
    <2>1. RacesTyped'
      BY <1>0, <1>12 DEF RacesTyped, AllServed, importVars
    <2>2. ProcessesOK'
      BY <1>0, <1>12 DEF ProcessesOK, Serving, AllServed, geocodeVars
    <2>3. MessagesOK'
      BY <1>0, <1>12 DEF MessagesOK, importVars, AllServed
    <2>4. WorkerOK'
      BY <1>0, <1>12 DEF WorkerOK, Serving, Handlers, AllServed
    <2>5. OldSnapshots'
      BY <1>0, <1>12 DEF OldSnapshots, historyVars, AllServed
    <2>6. LocatedIsIndexed'
      BY <1>0, <1>12 DEF LocatedIsIndexed, historyVars, ReindexComing, ReindexGivenUp, Serving,
         AllServed, geocodeVars
    <2>7. QED
      BY <2>1, <2>2, <2>3, <2>4, <2>5, <2>6 DEF EventsInv
  <1>13. CASE CallReindex
    <2>1. RacesTyped'
      BY <1>0, <1>13 DEF RacesTyped, States, CallReindex, Call, importVars
    <2>2. ProcessesOK'
      BY <1>0, <1>13 DEF ProcessesOK, CallReindex, Call, geocodeVars
    <2>3. MessagesOK'
      BY <1>0, <1>13 DEF MessagesOK, importVars, CallReindex, Call
    <2>4. WorkerOK'
      BY <1>0, <1>13 DEF WorkerOK, Serving, Handlers, CallReindex, Call
    <2>5. OldSnapshots'
      BY <1>0, <1>13 DEF OldSnapshots, historyVars, CallReindex, Call
    <2>6. LocatedIsIndexed'
      BY <1>0, <1>13 DEF LocatedIsIndexed, historyVars, ReindexComing, ReindexGivenUp,
         CallReindex, Call, geocodeVars
    <2>7. QED
      BY <2>1, <2>2, <2>3, <2>4, <2>5, <2>6 DEF EventsInv
  <1>14. CASE Reindex
    <2>1. RacesTyped'
      BY <1>0, <1>14 DEF RacesTyped, States, Reindex, importVars
    <2>2. ProcessesOK'
      BY <1>0, <1>14 DEF ProcessesOK, Reindex, geocodeVars
    <2>3. MessagesOK'
      BY <1>0, <1>14 DEF MessagesOK, importVars, Reindex
    <2>4. WorkerOK'
      BY <1>0, <1>14 DEF WorkerOK, Serving, Handlers, Reindex
    <2>5. OldSnapshots'
      BY <1>0, <1>14 DEF OldSnapshots, historyVars, Reindex
    <2>6. LocatedIsIndexed'
      BY <1>0, <1>14 DEF LocatedIsIndexed, historyVars, ReindexComing, ReindexGivenUp,
         OldSnapshots, RenewedLater, RacesTyped, States, Reindex, geocodeVars
    <2>7. QED
      BY <2>1, <2>2, <2>3, <2>4, <2>5, <2>6 DEF EventsInv
  <1>15. CASE Settle
    <2>1. RacesTyped'
      BY <1>0, <1>15 DEF RacesTyped, Settle, importVars
    <2>2. ProcessesOK'
      BY <1>0, <1>15 DEF ProcessesOK, Settle, geocodeVars
    <2> DEFINE again(m) == [m EXCEPT !.handlers = broken, !.tries = @ + 1]
    <2>3. /\ held' = {} /\ left = {} /\ handler = "none"
          /\ UNCHANGED <<imports, rows, docs, snapshot, located, cutOff, overtaken, handler>>
      BY <1>15 DEF Settle, mailVars, geocodeVars, importVars, historyVars
    <2>4. PICK m \in held :
            \/ broken = {} /\ queue' = queue /\ failures' = failures
            \/ /\ broken # {} /\ m.tries < MaxTries
               /\ queue' = queue \cup {again(m)} /\ failures' = failures
            \/ /\ broken # {} /\ ~(m.tries < MaxTries)
               /\ failures' = failures \cup {again(m)} /\ queue' = queue
      BY <1>15 DEF Settle
    <2>5. /\ MessageOK(m, imports) /\ broken \subseteq HandlersOf(m.kind) /\ held = {m}
          /\ m.tries \in Nat /\ m.tries <= MaxTries
      BY <1>0 DEF MessagesOK, importVars, WorkerOK, MessageOK
    <2>6. HandlersOf(m.kind) \subseteq Handlers
      BY <2>5 DEF HandlersOf, Handlers, MessageOK
    <2> DEFINE Typed(x) ==
          x \in [kind: {"imported", "geocoded", "email"}, nr: Nat, copy: {m.copy},
                 races: SUBSET Races, to: SUBSET Users, handlers: SUBSET Handlers, tries: Nat]
    <2>7. Typed(m) /\ m.tries + 1 \in Nat /\ broken \in SUBSET Handlers
      BY <2>5, <2>6 DEF MessageOK
    <2>8. /\ Typed(again(m)) /\ again(m).nr = m.nr /\ again(m).kind = m.kind
          /\ again(m).copy = m.copy /\ again(m).races = m.races /\ again(m).handlers = broken
          /\ again(m).tries = m.tries + 1
      BY <2>7
    <2> HIDE DEF again
    <2>9. broken # {} => MessageOK(again(m), imports)
      BY <2>5, <2>8, BoundsAssumption DEF MessageOK
    <2> HIDE DEF Typed
    <2>10. MessagesOK'
      <3>1. ASSUME NEW x \in queue' \cup held' \cup failures' PROVE MessageOK(x, imports')
        BY <1>0, <2>3, <2>4, <2>9 DEF MessagesOK
      <3>2. ASSUME NEW x \in queue' \cup held' PROVE x.tries <= MaxTries
        BY <1>0, <2>3, <2>4, <2>5, <2>8, BoundsAssumption DEF MessagesOK
      <3>3. QED
        BY <1>0, <2>3, <3>1, <3>2 DEF MessagesOK
    <2>11. WorkerOK'
      BY <1>0, <1>15 DEF WorkerOK, Settle
    <2>12. OldSnapshots'
      BY <1>0, <1>15 DEF OldSnapshots, historyVars, Settle
    <2>13. LocatedIsIndexed'
      <3>1. queue \subseteq queue' /\ failures \subseteq failures'
        BY <2>4
      <3>2. broken # {} => \/ again(m) \in queue'
                           \/ again(m) \in failures' /\ again(m).tries > MaxTries
        BY <2>4, <2>5, <2>8, BoundsAssumption
      <3>3. QED
        BY <1>0, <2>3, <2>5, <2>8, <3>1, <3>2 DEF LocatedIsIndexed, historyVars, ReindexComing,
           ReindexGivenUp
    <2>14. QED
      BY <2>1, <2>2, <2>10, <2>11, <2>12, <2>13 DEF EventsInv
  <1>16. CASE Throw
    <2>1. RacesTyped'
      BY <1>0, <1>16 DEF RacesTyped, States, Throw, Forget, importVars
    <2>2. ProcessesOK'
      BY <1>0, <1>16 DEF ProcessesOK, Processes, Throw, Forget
    <2>3. MessagesOK'
      BY <1>0, <1>16 DEF MessagesOK, importVars, Throw, Forget
    <2>4. WorkerOK'
      BY <1>0, <1>16 DEF WorkerOK, Serving, Handlers, Throw, Forget
    <2>5. OldSnapshots'
      BY <1>0, <1>16 DEF OldSnapshots, historyVars, Throw, Forget
    <2>6. LocatedIsIndexed'
      BY <1>0, <1>16 DEF LocatedIsIndexed, historyVars, ReindexComing, ReindexGivenUp, WorkerOK,
         HandlersOf, MessagesOK, MessageOK, Throw, Forget
    <2>7. QED
      BY <2>1, <2>2, <2>3, <2>4, <2>5, <2>6 DEF EventsInv
  <1>17. CASE WorkerDies
    <2>1. RacesTyped'
      BY <1>0, <1>17 DEF RacesTyped, States, WorkerDies, Forget, importVars
    <2>2. ProcessesOK'
      BY <1>0, <1>17 DEF ProcessesOK, Processes, WorkerDies, Forget
    <2>3. MessagesOK'
      BY <1>0, <1>17 DEF MessagesOK, importVars, WorkerDies, Forget
    <2>4. WorkerOK'
      BY <1>0, <1>17 DEF WorkerOK, Serving, Handlers, WorkerDies, Forget
    <2>5. OldSnapshots'
      BY <1>0, <1>17 DEF OldSnapshots, historyVars, WorkerDies, Forget
    <2>6. LocatedIsIndexed'
      BY <1>0, <1>17 DEF LocatedIsIndexed, historyVars, ReindexComing, ReindexGivenUp, WorkerOK,
         HandlersOf, MessagesOK, MessageOK, WorkerDies, Forget
    <2>7. QED
      BY <2>1, <2>2, <2>3, <2>4, <2>5, <2>6 DEF EventsInv
  <1>18. CASE ConsoleDies
    <2>1. RacesTyped'
      BY <1>0, <1>18 DEF RacesTyped, ConsoleDies, Forget, importVars, workVars
    <2>2. ProcessesOK'
      BY <1>0, <1>18 DEF ProcessesOK, Processes, ConsoleDies, Forget, workVars
    <2>3. MessagesOK'
      BY <1>0, <1>18 DEF MessagesOK, importVars, ConsoleDies, Forget, workVars
    <2>4. WorkerOK'
      BY <1>0, <1>18 DEF WorkerOK, Serving, Handlers, ConsoleDies, Forget, workVars
    <2>5. OldSnapshots'
      BY <1>0, <1>18 DEF OldSnapshots, historyVars, RenewedLater, ConsoleDies, Forget, workVars
    <2>6. LocatedIsIndexed'
      BY <1>0, <1>18 DEF LocatedIsIndexed, historyVars, ReindexComing, ReindexGivenUp,
         ConsoleDies, Forget, workVars
    <2>7. QED
      BY <2>1, <2>2, <2>3, <2>4, <2>5, <2>6 DEF EventsInv
  <1>19. CASE CallSend
    <2>1. RacesTyped'
      BY <1>0, <1>19 DEF RacesTyped, CallSend, Call, importVars
    <2>2. ProcessesOK'
      BY <1>0, <1>19 DEF ProcessesOK, Serving, CallSend, Call, geocodeVars
    <2>3. MessagesOK'
      BY <1>0, <1>19 DEF MessagesOK, importVars, CallSend, Call
    <2>4. WorkerOK'
      BY <1>0, <1>19 DEF WorkerOK, Serving, Handlers, CallSend, Call
    <2>5. OldSnapshots'
      BY <1>0, <1>19 DEF OldSnapshots, historyVars, CallSend, Call
    <2>6. LocatedIsIndexed'
      BY <1>0, <1>19 DEF LocatedIsIndexed, historyVars, ReindexComing, ReindexGivenUp, WorkerOK,
         HandlersOf, CallSend, Call, geocodeVars
    <2>7. QED
      BY <2>1, <2>2, <2>3, <2>4, <2>5, <2>6 DEF EventsInv
  <1>20. CASE \E u \in Users : Deliver(u)
    <2>1. RacesTyped'
      BY <1>0, <1>20 DEF RacesTyped, Deliver, importVars
    <2>2. ProcessesOK'
      BY <1>0, <1>20 DEF ProcessesOK, Serving, Deliver, geocodeVars
    <2>3. MessagesOK'
      BY <1>0, <1>20 DEF MessagesOK, importVars, Deliver
    <2>4. WorkerOK'
      BY <1>0, <1>20 DEF WorkerOK, Serving, Handlers, Deliver
    <2>5. OldSnapshots'
      BY <1>0, <1>20 DEF OldSnapshots, historyVars, Deliver
    <2>6. LocatedIsIndexed'
      BY <1>0, <1>20 DEF LocatedIsIndexed, historyVars, ReindexComing, ReindexGivenUp, WorkerOK,
         HandlersOf, Deliver, geocodeVars
    <2>7. QED
      BY <2>1, <2>2, <2>3, <2>4, <2>5, <2>6 DEF EventsInv
  <1>21. CASE UNCHANGED vars
    BY <1>0, <1>21 DEF EventsInv, vars, importVars, geocodeVars, workVars, mailVars, historyVars,
       RacesTyped, ProcessesOK, MessagesOK, WorkerOK, OldSnapshots, RenewedLater,
       LocatedIsIndexed, ReindexComing, ReindexGivenUp
  <1>22. QED
    BY <1>1, <1>2, <1>3, <1>4, <1>5, <1>6, <1>7, <1>8, <1>9, <1>10, <1>11, <1>12, <1>13, <1>14,
       <1>15, <1>16, <1>17, <1>18, <1>19, <1>20, <1>21 DEF Next, WorkerStep, ConsoleStep,
       Processes

-------------------------------------------------------------------------------
(* Empty tables and transports satisfy the invariant.                        *)
LEMMA InitHolds == Init => EventsInv
  <1> SUFFICES ASSUME Init PROVE EventsInv
    OBVIOUS
  <1>1. RacesTyped /\ ProcessesOK
    BY DEF Init, RacesTyped, States, ProcessesOK, Processes
  <1>2. MessagesOK /\ WorkerOK
    BY DEF Init, MessagesOK, WorkerOK
  <1>3. OldSnapshots /\ LocatedIsIndexed
    BY DEF Init, OldSnapshots, LocatedIsIndexed
  <1>4. QED
    BY <1>1, <1>2, <1>3 DEF EventsInv

(* The invariant holds in every reachable state.                             *)
THEOREM Invariance == Spec => []EventsInv
  BY InitHolds, StepKeeps, PTL DEF Spec

(* Type correctness, with one message at a time in the worker's hands.       *)
THEOREM TypeCorrect == Spec => []TypeOK
  <1>1. EventsInv => TypeOK
    <2> SUFFICES ASSUME EventsInv PROVE TypeOK
      OBVIOUS
    <2>1. Cardinality(held) <= 1
      <3>1. CASE held = {}
        BY <3>1, FS_EmptySet
      <3>2. CASE held # {}
        <4>1. PICK m \in held : held = {m}
          BY <3>2 DEF EventsInv, WorkerOK
        <4>2. Cardinality({m}) = 1
          BY FS_Singleton, Zenon
        <4>3. QED
          BY <4>1, <4>2
      <3>3. QED
        BY <3>1, <3>2
    <2>2. ASSUME NEW m \in queue \cup held \cup failures
          PROVE  /\ m.nr \in 0..imports /\ m.tries \in 1..(MaxTries + 1)
                 /\ m.handlers # {} /\ m.handlers \subseteq HandlersOf(m.kind)
      BY DEF EventsInv, MessagesOK, MessageOK
    <2>3. \A f \in {rows, docs, seen, snapshot} : f \in [Races -> {"none", "plain", "located"}]
      BY DEF EventsInv, RacesTyped, States
    <2>4. QED
      BY <2>1, <2>2, <2>3 DEF TypeOK, EventsInv, ProcessesOK, WorkerOK
  <1>2. QED
    BY <1>1, Invariance, PTL

(* A race with coordinates is in the index with them, or a reindex of it is  *)
(* in the transport, in the worker's hands or about to be announced, unless  *)
(* that reindex was given up, the geocoding was cut off before its event, or *)
(* an import indexed the race as it had loaded it before.                    *)
THEOREM LocatedRaceIsIndexed == Spec => []LocatedIsIndexed
  <1>1. EventsInv => LocatedIsIndexed
    BY DEF EventsInv
  <1>2. QED
    BY <1>1, Invariance, PTL

-------------------------------------------------------------------------------
(* Imports and digests: the invariant                                        *)

(* A message that announces an import says what is in the table.             *)
RowsFirst ==
  /\ \A r \in fresh : rows[r] # "none"
  /\ \A m \in queue \cup held : m.kind = "imported" => \A r \in m.races : rows[r] # "none"
(* An import is announced in one message at most, an email held is not also  *)
(* waiting, and the worker is at each handler of its message once.           *)
Separate ==
  /\ imports \in 0..MaxImports /\ (fresh # {} => imports < MaxImports)
  /\ IsFiniteSet(queue)
  /\ \A m \in queue \cup held : m.kind # "geocoded" => m.nr \in 1..imports
  /\ \A m, n \in queue \cup held :
       m.kind = "imported" /\ n.kind = "imported" /\ m.nr = n.nr => m = n
  /\ \A m \in held : m.kind # "geocoded" => m \notin queue
  /\ left \cap broken = {} /\ handler \notin left \cup broken
  /\ \A m \in held : /\ left \cup broken \cup ({handler} \ {"none"}) \subseteq m.handlers
                     /\ recipients \subseteq Addressees(m)
(* The message of the worker has still to serve u.                           *)
Outstanding(u) == Serving \cap (left \cup broken) # {} \/ u \in recipients
(* The digests of import n to u on their way, and its notification.          *)
Coming(n, u) ==
  {m \in queue : IsDigest(m, n, u)} \cup {m \in held : IsDigest(m, n, u) /\ Outstanding(u)}
Announces(m, n, u) == m.kind = "imported" /\ m.nr = n /\ u \in Watchers(m)
Notice(n, u) ==
  \/ \E m \in queue : Announces(m, n, u) /\ "notify" \in m.handlers
  \/ \E m \in held : Announces(m, n, u) /\ Outstanding(u)
Balanced(n, u) ==
  /\ IsFiniteSet(Coming(n, u))
  /\ Cardinality(Coming(n, u)) + (IF Notice(n, u) THEN 1 ELSE 0) <= owed[n][u]
(* Nobody gets more digests than are owed.                                   *)
OwedOK ==
  /\ owed \in [1..MaxImports -> [Users -> Int]]
  /\ \A n \in 1..MaxImports, u \in Users : Balanced(n, u)
  /\ \A n \in 1..MaxImports, u \in Users : n > imports => owed[n][u] = 1
(* The digest of import n to u was sent, is on its way, or was given up.     *)
OnItsWay(n, u) ==
  \/ <<n, u>> \in told
  \/ Coming(n, u) # {}
  \/ \E m \in failures : IsDigest(m, n, u) /\ m.tries > MaxTries
(* Whom the notification has served has a digest on its way.                 *)
ServedOK ==
  /\ \A n \in 1..MaxImports, u \in Users : <<n, u>> \in promised => OnItsWay(n, u)
  /\ handler = "notify" => \A m \in held : \A u \in Watchers(m) \ recipients : OnItsWay(m.nr, u)
MailInv == EventsInv /\ RowsFirst /\ Separate /\ OwedOK /\ ServedOK

-------------------------------------------------------------------------------
(* Sets of digests                                                           *)

(* What the number of messages in a set becomes with one less or one more.   *)
LEMMA Counting ==
  ASSUME NEW S, IsFiniteSet(S), NEW T, NEW x, NEW y
  PROVE  /\ Cardinality(S) \in Nat
         /\ T \subseteq S => IsFiniteSet(T) /\ Cardinality(T) \in Nat
                             /\ Cardinality(T) <= Cardinality(S)
         /\ T \subseteq S \cup {x} => IsFiniteSet(T) /\ Cardinality(T) \in Nat
                                      /\ Cardinality(T) <= Cardinality(S) + 1
         /\ x \in S /\ T \subseteq S \ {x} => IsFiniteSet(T) /\ Cardinality(T) \in Nat
                                              /\ Cardinality(T) + 1 <= Cardinality(S)
         /\ x \in S /\ T \subseteq (S \ {x}) \cup {y} =>
              IsFiniteSet(T) /\ Cardinality(T) \in Nat /\ Cardinality(T) <= Cardinality(S)
  <1> DEFINE Fits(U, V, k) == U \subseteq V => IsFiniteSet(U) /\ Cardinality(U) \in Nat
                                               /\ Cardinality(U) <= k
  <1>1. ASSUME NEW U, NEW V, IsFiniteSet(V)
        PROVE  Cardinality(V) \in Nat /\ Fits(U, V, Cardinality(V))
    BY <1>1, FS_CardinalityType, FS_Subset
  <1>2. ASSUME NEW U, IsFiniteSet(U), NEW z
        PROVE  IsFiniteSet(U \cup {z}) /\ Cardinality(U \cup {z}) <= Cardinality(U) + 1
               /\ Cardinality(U \cup {z}) \in Nat
    <2>1. IsFiniteSet(U \cup {z}) /\ (Cardinality(U \cup {z}) = Cardinality(U) \/
                                      Cardinality(U \cup {z}) = Cardinality(U) + 1)
      BY <1>2, FS_AddElement
    <2>2. Cardinality(U) \in Nat
      BY <1>2, FS_CardinalityType
    <2>3. QED
      BY <2>1, <2>2
  <1>3. x \in S => IsFiniteSet(S \ {x}) /\ Cardinality(S \ {x}) + 1 = Cardinality(S)
                   /\ Cardinality(S \ {x}) \in Nat
    <2>1. IsFiniteSet(S \ {x}) /\ (x \in S => Cardinality(S \ {x}) = Cardinality(S) - 1)
      BY FS_RemoveElement
    <2>2. Cardinality(S) \in Nat /\ Cardinality(S \ {x}) \in Nat
      BY <2>1, FS_CardinalityType
    <2>3. QED
      BY <2>1, <2>2
  <1>4. Fits(T, S, Cardinality(S)) /\ Cardinality(S) \in Nat
    BY <1>1
  <1>5. T \subseteq S \cup {x} => IsFiniteSet(T) /\ Cardinality(T) \in Nat
                                  /\ Cardinality(T) <= Cardinality(S) + 1
    <2>1. IsFiniteSet(S \cup {x}) /\ Cardinality(S \cup {x}) <= Cardinality(S) + 1
          /\ Cardinality(S \cup {x}) \in Nat
      BY <1>2
    <2>2. Fits(T, S \cup {x}, Cardinality(S \cup {x}))
      BY <1>1, <2>1
    <2>3. QED
      BY <1>4, <2>1, <2>2
  <1>6. ASSUME x \in S, T \subseteq S \ {x}
        PROVE  IsFiniteSet(T) /\ Cardinality(T) \in Nat /\ Cardinality(T) + 1 <= Cardinality(S)
    <2>1. Fits(T, S \ {x}, Cardinality(S \ {x}))
      BY <1>1, <1>3, <1>6
    <2>2. QED
      BY <1>3, <1>4, <1>6, <2>1
  <1>7. ASSUME x \in S, T \subseteq (S \ {x}) \cup {y}
        PROVE  IsFiniteSet(T) /\ Cardinality(T) \in Nat /\ Cardinality(T) <= Cardinality(S)
    <2>1. /\ IsFiniteSet((S \ {x}) \cup {y}) /\ Cardinality((S \ {x}) \cup {y}) \in Nat
          /\ Cardinality((S \ {x}) \cup {y}) <= Cardinality(S \ {x}) + 1
      BY <1>2, <1>3, <1>7
    <2>2. Fits(T, (S \ {x}) \cup {y}, Cardinality((S \ {x}) \cup {y}))
      BY <1>1, <2>1
    <2>3. QED
      BY <1>3, <1>4, <1>7, <2>1, <2>2
  <1>8. QED
    BY <1>4, <1>5, <1>6, <1>7

(* The parts of the invariant.                                               *)
LEMMA MailFacts ==
  ASSUME MailInv
  PROVE  /\ RowsFirst /\ Separate /\ OwedOK /\ ServedOK
         /\ RacesTyped /\ ProcessesOK /\ MessagesOK /\ WorkerOK
         /\ MaxImports \in Nat /\ MaxTries \in Nat
  BY BoundsAssumption DEF MailInv, EventsInv

(* What is known of a message under way.                                     *)
LEMMA UnderWay ==
  ASSUME MailInv, NEW m \in queue \cup held
  PROVE  /\ MessageOK(m, imports) /\ m.races \subseteq Races /\ m.to \subseteq Users
         /\ m.kind \in {"imported", "geocoded", "email"}
         /\ m.handlers # {} /\ m.handlers \subseteq Handlers
         /\ m.kind = "imported" => m.handlers \subseteq {"geocode", "notify"}
         /\ m.kind = "geocoded" => m.handlers = {"reindex"}
         /\ m.kind = "email" => m.handlers = {"send"}
         /\ m.kind # "geocoded" => m.nr \in 1..MaxImports /\ m.nr \in 1..imports
         /\ Addressees(m) \subseteq Users
  <1>1. MessageOK(m, imports)
    BY MailFacts DEF MessagesOK
  <1>2. /\ m.races \subseteq Races /\ m.to \subseteq Users
        /\ m.kind \in {"imported", "geocoded", "email"}
        /\ m.handlers # {} /\ m.handlers \subseteq Handlers
        /\ m.handlers \subseteq HandlersOf(m.kind)
    BY <1>1 DEF MessageOK
  <1>3. /\ HandlersOf("imported") = {"geocode", "notify"} /\ HandlersOf("geocoded") = {"reindex"}
        /\ HandlersOf("email") = {"send"}
    BY DEF HandlersOf
  <1>4. m.kind # "geocoded" => m.nr \in 1..MaxImports /\ m.nr \in 1..imports
    BY MailFacts DEF Separate
  <1>5. Addressees(m) \subseteq Users
    BY <1>2 DEF Addressees, Watchers
  <1>6. QED
    BY <1>1, <1>2, <1>3, <1>4, <1>5

(* The message in the worker's hands, and what it is doing with it.          *)
LEMMA InHand ==
  ASSUME MailInv, NEW m \in held
  PROVE  /\ held = {m} /\ m \in queue \cup held
         /\ left \cup broken \subseteq m.handlers /\ "none" \notin left \cup broken
         /\ handler # "none" => handler \in m.handlers
         /\ handler = "notify" => m.kind = "imported"
         /\ handler = "send" => m.kind = "email"
         /\ m.kind # "geocoded" => m \notin queue
         /\ recipients \subseteq Addressees(m)
  <1>1. held = {m} /\ left \cup broken \cup ({handler} \ {"none"}) \subseteq m.handlers
    BY MailFacts DEF WorkerOK, Separate
  <1>2. "none" \notin m.handlers
    BY UnderWay DEF Handlers
  <1>3. QED
    BY <1>1, <1>2, MailFacts, UnderWay DEF Separate

(* Races never leave the table, so no import gets other watchers.            *)
LEMMA WatchersStay ==
  ASSUME MailInv, [Next]_vars, NEW m \in queue \cup held, m.kind # "geocoded"
  PROVE  Watchers(m)' = Watchers(m) \/ m.kind = "email"
  <1>1. RacesTyped /\ ProcessesOK
    BY MailFacts
  <1> DEFINE Kept == \A r \in Races : rows[r] # "none" => rows'[r] # "none"
  <1>2. Kept
    <2>1. CASE rows' = rows
      BY <2>1
    <2>2. ASSUME NEW r \in Races, Import(r) PROVE Kept
      BY <1>1, <2>2 DEF Import, RacesTyped
    <2>3. ASSUME NEW p \in Processes, SaveNext(p) PROVE Kept
      BY <1>1, <2>3 DEF SaveNext, RacesTyped, ProcessesOK
    <2>4. \/ rows' = rows \/ (\E r \in Races : Import(r)) \/ \E p \in Processes : SaveNext(p)
      BY DEF Next, WorkerStep, ConsoleStep, Processes, vars, Load, Enrich, Announce, Backfill,
         Receive, CallGeocode, Conclude, CallNotify, CallSend, Mail, Deliver, AllServed,
         CallReindex, Reindex, Settle, Throw, WorkerDies, ConsoleDies
    <2>5. QED
      BY <2>1, <2>2, <2>3, <2>4
  <1>3. CASE m.kind = "imported"
    <2>1. \A r \in m.races : rows[r] # "none" /\ rows'[r] # "none"
      BY <1>2, <1>3, MailFacts, UnderWay DEF RowsFirst
    <2>2. QED
      BY <2>1 DEF Watchers
  <1>4. QED
    BY <1>3, UnderWay

(* A step that adds no digest and no notification, and owes the same.        *)
LEMMA BalanceKept ==
  ASSUME MailInv, NEW n \in 1..MaxImports, NEW u \in Users,
         Coming(n, u)' \subseteq Coming(n, u), Notice(n, u)' => Notice(n, u),
         owed'[n][u] >= owed[n][u], owed'[n][u] \in Int
  PROVE  Balanced(n, u)'
  <1>1. Balanced(n, u) /\ owed[n][u] \in Int
    BY MailFacts DEF OwedOK
  <1> DEFINE S == Coming(n, u)
             T == Coming(n, u)'
  <1>2. /\ IsFiniteSet(S) /\ T \subseteq S
        /\ Cardinality(S) + (IF Notice(n, u) THEN 1 ELSE 0) <= owed[n][u]
    BY <1>1 DEF Balanced
  <1> HIDE DEF S, T
  <1>3. IsFiniteSet(T) /\ Cardinality(T) \in Nat /\ Cardinality(S) \in Nat
        /\ Cardinality(T) <= Cardinality(S)
    BY <1>2, Counting
  <1>4. Cardinality(T) + (IF Notice(n, u)' THEN 1 ELSE 0) <= owed'[n][u]
    BY <1>1, <1>2, <1>3
  <1>5. QED
    BY <1>3, <1>4 DEF Balanced, T

(* Imports announce what they saved.                                         *)
LEMMA RowsKept ==
  ASSUME MailInv, [Next]_vars
  PROVE  RowsFirst'
  <1>1. RacesTyped /\ ProcessesOK /\ RowsFirst
    BY MailFacts
  <1>2. \A m \in queue \cup held : m.races \subseteq Races
    BY UnderWay
  <1>3. ASSUME \A r \in Races : rows[r] # "none" => rows'[r] # "none",
               \A r \in fresh' : r \in fresh \/ rows'[r] # "none",
               \A m \in queue' \cup held' : m.kind = "imported" =>
                 \/ \E n \in queue \cup held : n.kind = "imported" /\ m.races = n.races
                 \/ m.races = fresh
        PROVE  RowsFirst'
    BY <1>1, <1>2, <1>3 DEF RowsFirst, RacesTyped
  <1>4. ASSUME NEW r \in Races, Import(r) PROVE RowsFirst'
    BY <1>1, <1>3, <1>4 DEF Import, RacesTyped, workVars
  <1>5. ASSUME NEW r \in Races, Load(r) \/ Enrich(r) PROVE RowsFirst'
    BY <1>3, <1>5 DEF Load, Enrich, workVars
  <1>6. ASSUME Announce PROVE RowsFirst'
    <2>1. \A m \in queue' : m \in queue \/ m.races = fresh
      BY <1>6 DEF Announce, Dispatch, RacesImported, Message
    <2>2. QED
      BY <1>3, <1>6, <2>1 DEF Announce, workVars
  <1>7. ASSUME NEW p \in Processes, Conclude(p) PROVE RowsFirst'
    <2>1. \A m \in queue' : m \in queue \/ m.kind = "geocoded"
      BY <1>7 DEF Conclude, Dispatch, RacesGeocoded, Message
    <2>2. UNCHANGED <<rows, fresh, held>>
      BY <1>7 DEF Conclude, importVars
    <2>3. QED
      BY <1>3, <2>1, <2>2
  <1>8. ASSUME NEW p \in Processes, SaveNext(p) PROVE RowsFirst'
    <2>1. \A r \in Races : rows[r] # "none" => rows'[r] # "none"
      BY <1>1, <1>8 DEF SaveNext, RacesTyped, ProcessesOK
    <2>2. QED
      BY <1>3, <1>8, <2>1 DEF SaveNext, workVars, importVars
  <1>9. ASSUME NEW u \in Users, Mail(u) PROVE RowsFirst'
    <2>1. \A m \in queue' : m \in queue \/ m.kind = "email"
      BY <1>9 DEF Mail, Dispatch, SendEmailMessage, Message
    <2>2. QED
      BY <1>3, <1>9, <2>1 DEF Mail, importVars
  <1>10. ASSUME \/ Backfill \/ CallGeocode \/ CallNotify \/ CallSend \/ AllServed
                \/ CallReindex \/ Reindex \/ Throw \/ WorkerDies \/ ConsoleDies
                \/ (\E m \in queue : Receive(m)) \/ \E u \in Users : Deliver(u)
         PROVE  RowsFirst'
    <2>1. UNCHANGED <<rows, fresh>> /\ queue' \cup held' \subseteq queue \cup held
      BY <1>10 DEF Backfill, CallGeocode, CallNotify, CallSend, AllServed, CallReindex, Reindex,
         Throw, WorkerDies, ConsoleDies, Receive, Deliver, importVars, workVars
    <2>2. QED
      BY <1>3, <2>1
  <1>11. ASSUME Settle PROVE RowsFirst'
    <2>1. PICK n \in held : \A m \in queue' :
            m \in queue \/ m = [n EXCEPT !.handlers = broken, !.tries = @ + 1]
      BY <1>11 DEF Settle
    <2>2. LET a == [n EXCEPT !.handlers = broken, !.tries = @ + 1]
          IN  a.races = n.races /\ a.kind = n.kind
      BY <2>1, UnderWay DEF MessageOK
    <2>3. QED
      BY <1>3, <1>11, <2>1, <2>2 DEF Settle, importVars
  <1>12. CASE UNCHANGED vars
    BY <1>1, <1>12 DEF RowsFirst, vars, importVars, workVars
  <1>13. QED
    BY <1>4, <1>5, <1>6, <1>7, <1>8, <1>9, <1>10, <1>11, <1>12 DEF Next, WorkerStep, ConsoleStep,
       Processes

(* What a step must not do to keep imports and digests in order.             *)
LEMMA Quiet ==
  ASSUME MailInv, [Next]_vars,
         UNCHANGED <<held, left, broken, recipients, owed, told, promised, failures>>,
         handler' = handler \/ (handler \notin Serving /\ handler' \notin Serving),
         handler' \notin left \cup broken,
         \A m \in held : handler' # "none" => handler' \in m.handlers,
         imports' \in imports..MaxImports, fresh' # {} => imports' < MaxImports,
         IsFiniteSet(queue'), queue \subseteq queue',
         \A m \in queue' \ queue :
           \/ m.kind = "geocoded"
           \/ m.kind = "imported" /\ m.nr = imports + 1 /\ imports' = imports + 1,
         \A m, n \in queue' \ queue : m.kind = "imported" /\ n.kind = "imported" => m = n
  PROVE  Separate' /\ OwedOK' /\ ServedOK'
  <1>1. \A m \in queue \cup held :
          m.kind # "geocoded" => Watchers(m)' = Watchers(m) \/ m.kind = "email"
    BY WatchersStay
  <1>2. /\ imports \in Nat /\ imports <= imports' /\ imports' \in 0..MaxImports
        /\ MaxImports \in Nat
    BY MailFacts DEF Separate
  <1>3. \A m \in queue \cup held : m.kind # "geocoded" => m.nr \in 1..imports
    BY UnderWay
  <1>4. \A m \in held : Addressees(m)' = Addressees(m) \/ m.kind = "geocoded"
    BY <1>1 DEF Addressees
  <1>5. \A m \in held : m.kind = "geocoded" => recipients = {}
    BY MailFacts, UnderWay, InHand DEF WorkerOK, Serving
  <1>6. Separate'
    <2>1. \A m \in queue' \cup held' : m.kind # "geocoded" => m.nr \in 1..imports'
      BY <1>2, <1>3
    <2>2. \A m, n \in queue' \cup held' :
            m.kind = "imported" /\ n.kind = "imported" /\ m.nr = n.nr => m = n
      <3>1. \A m \in queue' \cup held' : m \in queue \cup held \/ m \in queue' \ queue
        OBVIOUS
      <3>2. \A m \in queue \cup held, n \in queue' \ queue :
              m.kind = "imported" /\ n.kind = "imported" => m.nr # n.nr
        BY <1>2, <1>3
      <3>3. QED
        BY <3>1, <3>2, MailFacts DEF Separate
    <2>3. \A m \in held' : m.kind # "geocoded" => m \notin queue'
      <3>1. SUFFICES ASSUME NEW m \in held, m.kind # "geocoded", m \in queue' PROVE FALSE
        OBVIOUS
      <3>2. m \notin queue /\ m.nr \in 1..imports
        BY <1>3, <3>1, MailFacts DEF Separate
      <3>3. QED
        BY <1>2, <3>1, <3>2
    <2>4. \A m \in held : recipients \subseteq Addressees(m)'
      BY <1>4, <1>5, MailFacts DEF Separate
    <2>5. QED
      BY <1>2, <2>1, <2>2, <2>3, <2>4, MailFacts DEF Separate
  <1>7. \A u : Outstanding(u)' <=> Outstanding(u)
    BY DEF Outstanding
  <1>8. \A n, u : Coming(n, u)' = Coming(n, u)
    <2>1. \A m \in queue' \ queue : m.kind # "email"
      OBVIOUS
    <2>2. QED
      BY <1>7, <2>1 DEF Coming, IsDigest
  <1>9. ASSUME NEW n \in 1..MaxImports, NEW u \in Users PROVE Balanced(n, u)'
    <2>1. CASE Notice(n, u)' => Notice(n, u)
      <3>1. owed[n][u] \in Int /\ owed'[n][u] = owed[n][u]
        BY MailFacts DEF OwedOK
      <3>2. QED
        BY <1>8, <2>1, <3>1, BalanceKept
    <2>2. CASE Notice(n, u)' /\ ~Notice(n, u)
      <3>1. n = imports + 1
        <4>1. PICK m \in queue' \cup held :
                /\ m.kind = "imported" /\ m.nr = n /\ u \in Watchers(m)'
                /\ \/ m \in queue' /\ "notify" \in m.handlers
                   \/ m \in held /\ Outstanding(u)
          BY <1>7, <2>2 DEF Notice, Announces
        <4>2. CASE m \notin queue /\ m \in queue'
          BY <4>1, <4>2
        <4>3. ASSUME m \in queue \cup held, m \in queue' => m \in queue PROVE FALSE
          <5>1. u \in Watchers(m)
            BY <1>1, <4>1, <4>3
          <5>2. QED
            BY <2>2, <4>1, <4>3, <5>1 DEF Notice, Announces
        <4>4. QED
          BY <4>1, <4>2, <4>3
      <3>2. owed[n][u] = 1 /\ owed' = owed
        BY <1>2, <3>1, MailFacts DEF OwedOK
      <3>3. Coming(n, u) = {}
        BY <1>2, <1>3, <3>1 DEF Coming, IsDigest
      <3>4. IsFiniteSet({}) /\ Cardinality({}) = 0
        BY FS_EmptySet
      <3>5. QED
        BY <1>8, <3>2, <3>3, <3>4 DEF Balanced
    <2>3. QED
      BY <2>1, <2>2
  <1>10. OwedOK'
    BY <1>2, <1>9, MailFacts DEF OwedOK
  <1>11. ServedOK'
    <2>1. \A n, u : OnItsWay(n, u) => OnItsWay(n, u)'
      BY <1>8 DEF OnItsWay
    <2>2. handler' = "notify" => \A m \in held : m.kind = "imported"
      BY InHand DEF Serving
    <2>3. QED
      BY <1>1, <2>1, <2>2, MailFacts DEF ServedOK, Serving
  <1>12. QED
    BY <1>6, <1>10, <1>11

(* The steps of imports and of geocodings, and a reindex.                    *)
LEMMA QuietKeeps ==
  ASSUME MailInv, [Next]_vars,
         \/ \E r \in Races : Import(r) \/ Load(r) \/ Enrich(r)
         \/ Announce \/ Backfill \/ Reindex \/ ConsoleDies \/ UNCHANGED vars
         \/ \E p \in Processes : SaveNext(p) \/ Conclude(p)
  PROVE  Separate' /\ OwedOK' /\ ServedOK'
  <1>1. /\ imports \in Nat /\ imports <= MaxImports /\ MaxImports \in Nat /\ IsFiniteSet(queue)
        /\ fresh # {} => imports < MaxImports
        /\ handler \notin left \cup broken
        /\ \A m \in held : handler # "none" => handler \in m.handlers
    BY MailFacts, InHand DEF Separate
  <1>2. "none" \notin left \cup broken
    BY MailFacts, InHand DEF WorkerOK
  <1>3. ASSUME UNCHANGED <<queue, held, left, broken, recipients, owed, told, promised, failures,
                           imports>>,
               handler' = handler \/ (handler = "reindex" /\ handler' = "none"),
               fresh' = fresh \/ imports < MaxImports
        PROVE  Separate' /\ OwedOK' /\ ServedOK'
    BY <1>1, <1>2, <1>3, Quiet DEF Serving
  <1>4. ASSUME \/ \E r \in Races : Import(r) \/ Load(r) \/ Enrich(r)
               \/ Backfill \/ Reindex \/ ConsoleDies \/ UNCHANGED vars
               \/ \E p \in Processes : SaveNext(p)
        PROVE  Separate' /\ OwedOK' /\ ServedOK'
    BY <1>3, <1>4 DEF Import, Load, Enrich, Backfill, Reindex, ConsoleDies, SaveNext, vars,
       importVars, workVars, mailVars
  <1>5. ASSUME NEW p \in Processes, Conclude(p) PROVE Separate' /\ OwedOK' /\ ServedOK'
    <2>1. /\ UNCHANGED <<held, left, broken, recipients, owed, told, promised, failures, imports,
                         fresh>>
          /\ handler' = handler \/ (handler = "geocode" /\ handler' = "none")
      BY <1>5, MailFacts DEF Conclude, importVars, mailVars, ProcessesOK, Processes
    <2>2. \/ queue' = queue
          \/ queue' = queue \cup {RacesGeocoded(p, located[p])}
      BY <1>5 DEF Conclude, Dispatch
    <2>3. RacesGeocoded(p, located[p]).kind = "geocoded"
      BY DEF RacesGeocoded, Message
    <2>4. IsFiniteSet(queue') /\ queue \subseteq queue'
          /\ \A m \in queue' \ queue : m.kind = "geocoded"
      BY <1>1, <2>2, <2>3, FS_AddElement
    <2>5. QED
      BY <1>1, <1>2, <2>1, <2>4, Quiet DEF Serving
  <1>6. ASSUME Announce PROVE Separate' /\ OwedOK' /\ ServedOK'
    <2>1. UNCHANGED <<held, left, broken, recipients, handler, owed, told, promised, failures>>
          /\ fresh' = {}
      BY <1>6 DEF Announce, workVars, mailVars
    <2>2. \/ queue' = queue /\ imports' = imports
          \/ /\ queue' = queue \cup {RacesImported(fresh)}
             /\ imports' = imports + 1 /\ fresh # {}
      BY <1>6 DEF Announce, Dispatch
    <2>3. RacesImported(fresh).kind = "imported" /\ RacesImported(fresh).nr = imports + 1
      BY DEF RacesImported, Message
    <2>4. /\ IsFiniteSet(queue') /\ queue \subseteq queue' /\ imports' \in imports..MaxImports
          /\ \A m \in queue' \ queue :
               m.kind = "imported" /\ m.nr = imports + 1 /\ imports' = imports + 1
          /\ \A m, n \in queue' \ queue : m = n
      BY <1>1, <2>2, <2>3, FS_AddElement
    <2>5. QED
      BY <1>1, <1>2, <2>1, <2>4, Quiet
  <1>7. QED
    BY <1>4, <1>5, <1>6

(* Steps of the worker leave imports and owed digests typed.                 *)
LEMMA ServedKept ==
  ASSUME MailInv, [Next]_vars, UNCHANGED <<promised, imports>>,
         \A n \in 1..MaxImports, u \in Users : OnItsWay(n, u) => OnItsWay(n, u)',
         handler' = "notify" => \A m \in held' : \A u \in Watchers(m)' \ recipients' :
                                  OnItsWay(m.nr, u)'
  PROVE  ServedOK'
  BY MailFacts DEF ServedOK

(* The worker takes a message: what was in the transport is in its hands.    *)
LEMMA ReceiveKeeps ==
  ASSUME MailInv, [Next]_vars, NEW m \in queue, Receive(m)
  PROVE  Separate' /\ OwedOK' /\ ServedOK'
  <1>1. /\ held = {} /\ queue' = queue \ {m} /\ held' = {m} /\ left' = m.handlers /\ broken' = {}
        /\ UNCHANGED <<handler, recipients, owed, told, promised, failures, imports, fresh, rows>>
    BY DEF Receive, mailVars, importVars
  <1>2. /\ handler = "none" /\ recipients = {} /\ "none" \notin m.handlers /\ left = {}
        /\ broken = {}
    BY <1>1, MailFacts, UnderWay DEF WorkerOK, Handlers, Serving
  <1>3. Separate'
    <2>1. IsFiniteSet(queue')
      BY <1>1, MailFacts, FS_RemoveElement DEF Separate
    <2>2. queue' \cup held' = queue \cup held
      BY <1>1
    <2>3. QED
      BY <1>1, <1>2, <2>1, <2>2, MailFacts DEF Separate
  <1>4. \A x : Watchers(x)' = Watchers(x)
    BY <1>1 DEF Watchers
  <1>5. \A u : Outstanding(u)' <=> Serving \cap m.handlers # {}
    BY <1>1, <1>2 DEF Outstanding
  <1>6. ASSUME NEW n \in 1..MaxImports, NEW u \in Users
        PROVE  Coming(n, u)' = Coming(n, u) /\ (Notice(n, u)' => Notice(n, u))
    <2>1. m.kind = "email" => Serving \cap m.handlers # {}
      BY UnderWay DEF Serving
    <2>2. m.kind = "imported" => (Serving \cap m.handlers # {} => "notify" \in m.handlers)
      BY UnderWay DEF Serving
    <2>3. QED
      BY <1>1, <1>4, <1>5, <2>1, <2>2 DEF Coming, IsDigest, Notice, Announces
  <1>7. OwedOK'
    <2>1. ASSUME NEW n \in 1..MaxImports, NEW u \in Users PROVE Balanced(n, u)'
      <3>1. owed'[n][u] >= owed[n][u] /\ owed'[n][u] \in Int
        BY <1>1, MailFacts DEF OwedOK
      <3>2. QED
        BY <1>6, <3>1, BalanceKept
    <2>2. QED
      BY <1>1, <2>1, MailFacts DEF OwedOK
  <1>8. ServedOK'
    BY <1>1, <1>2, <1>6, ServedKept DEF OnItsWay
  <1>9. QED
    BY <1>3, <1>7, <1>8

(* The call of a handler: the notification has all watchers still to serve,  *)
(* the sending of an email its addressee.                                    *)
LEMMA CallKeeps ==
  ASSUME MailInv, [Next]_vars, CallGeocode \/ CallReindex \/ CallNotify \/ CallSend
  PROVE  Separate' /\ OwedOK' /\ ServedOK'
  <1>1. PICK h \in Handlers :
          /\ held # {} /\ handler = "none" /\ h \in left /\ handler' = h /\ left' = left \ {h}
          /\ recipients' = IF h = "notify" THEN UNION {Watchers(m) : m \in held}
                           ELSE IF h = "send" THEN UNION {m.to : m \in held} ELSE recipients
          /\ UNCHANGED <<queue, held, broken, owed, told, promised, failures, imports, fresh,
                         rows>>
    BY DEF CallGeocode, CallReindex, CallNotify, CallSend, Call, mailVars, importVars, Handlers
  <1>2. PICK m \in held : TRUE
    BY <1>1
  <1>3. held = {m} /\ "none" \notin left \cup broken /\ left \cup broken \subseteq m.handlers
        /\ h \in m.handlers
    BY <1>1, InHand
  <1>4. recipients = {}
    BY <1>1, MailFacts DEF WorkerOK, Serving
  <1>5. (h = "notify" => m.kind = "imported") /\ (h = "send" => m.kind = "email")
        /\ h # "none"
    BY <1>1, <1>3, UnderWay DEF Handlers
  <1>6. recipients' = IF h \in Serving THEN Addressees(m) ELSE {}
    BY <1>1, <1>3, <1>4, <1>5 DEF Serving, Addressees
  <1>7. \A x : Watchers(x)' = Watchers(x) /\ Addressees(x)' = Addressees(x)
    BY <1>1 DEF Watchers, Addressees
  <1>8. Separate'
    <2>1. left' \cap broken' = {} /\ handler' \notin left' \cup broken'
      BY <1>1, MailFacts DEF Separate
    <2>2. \A x \in held' : /\ left' \cup broken' \cup ({handler'} \ {"none"}) \subseteq x.handlers
                           /\ recipients' \subseteq Addressees(x)'
      BY <1>1, <1>3, <1>6, <1>7
    <2>3. QED
      BY <1>1, <2>1, <2>2, MailFacts DEF Separate
  <1>9. \A u : Outstanding(u)' => Outstanding(u)
    BY <1>1, <1>4, <1>6 DEF Outstanding
  <1>10. ASSUME NEW n \in 1..MaxImports, NEW u \in Users
         PROVE  Coming(n, u)' = Coming(n, u) /\ (Notice(n, u)' => Notice(n, u))
    <2>1. m.kind = "email" /\ u \in m.to => Outstanding(u)' /\ Outstanding(u)
      <3>1. m.kind = "email" => h = "send"
        BY <1>3, UnderWay
      <3>2. QED
        BY <1>1, <1>6, <3>1 DEF Outstanding, Serving, Addressees
    <2>2. Coming(n, u)' = Coming(n, u)
      BY <1>1, <1>3, <2>1 DEF Coming, IsDigest
    <2>3. QED
      BY <1>1, <1>7, <1>9, <2>2 DEF Notice, Announces
  <1>11. OwedOK'
    <2>1. ASSUME NEW n \in 1..MaxImports, NEW u \in Users PROVE Balanced(n, u)'
      <3>1. owed'[n][u] >= owed[n][u] /\ owed'[n][u] \in Int
        BY <1>1, MailFacts DEF OwedOK
      <3>2. QED
        BY <1>10, <3>1, BalanceKept
    <2>2. QED
      BY <1>1, <2>1, MailFacts DEF OwedOK
  <1>12. ServedOK'
    <2>1. handler' = "notify" => \A x \in held' : Watchers(x)' \ recipients' = {}
      BY <1>1, <1>3, <1>5, <1>6, <1>7 DEF Serving, Addressees
    <2>2. QED
      BY <1>1, <1>10, <2>1, ServedKept DEF OnItsWay
  <1>13. QED
    BY <1>8, <1>11, <1>12

(* The notification of a watcher becomes an email on its way.                *)
LEMMA MailKeeps ==
  ASSUME MailInv, [Next]_vars, NEW u \in Users, Mail(u)
  PROVE  Separate' /\ OwedOK' /\ ServedOK'
  <1>1. PICK m \in held : queue' = queue \cup {SendEmailMessage(m.nr, u)}
    BY DEF Mail, Dispatch
  <1> DEFINE e == SendEmailMessage(m.nr, u)
  <1>2. /\ e.kind = "email" /\ e.nr = m.nr /\ e.to = {u} /\ e.handlers = {"send"}
    BY DEF SendEmailMessage, Message, HandlersOf
  <1>3. queue' = queue \cup {e}
    BY <1>1
  <1> HIDE DEF e
  <1>4. /\ handler = "notify" /\ u \in recipients /\ recipients' = recipients \ {u}
        /\ UNCHANGED <<held, left, broken, handler, owed, told, promised, failures, imports,
                       fresh, rows>>
    BY DEF Mail, mailVars, importVars
  <1>5. /\ held = {m} /\ m.kind = "imported" /\ left \cup broken \subseteq m.handlers
        /\ m.handlers \subseteq {"geocode", "notify"} /\ m.nr \in 1..MaxImports
        /\ m.nr \in 1..imports /\ recipients \subseteq Watchers(m)
        /\ "notify" \notin left \cup broken
    BY <1>4, InHand, UnderWay, MailFacts DEF Addressees, Separate
  <1>6. \A x : Watchers(x)' = Watchers(x) /\ Addressees(x)' = Addressees(x)
    BY <1>4 DEF Watchers, Addressees
  <1>7. Separate'
    <2>1. IsFiniteSet(queue')
      BY <1>3, MailFacts, FS_AddElement DEF Separate
    <2>2. QED
      BY <1>2, <1>3, <1>4, <1>5, <1>6, <2>1, MailFacts DEF Separate
  <1>8. Serving \cap (left \cup broken) = {}
    BY <1>5 DEF Serving
  <1>9. \A v : Outstanding(v)' <=> v \in recipients /\ v # u
    BY <1>4, <1>8 DEF Outstanding
  <1>10. ASSUME NEW n \in 1..MaxImports, NEW v \in Users, n # m.nr \/ v # u
         PROVE  Coming(n, v)' = Coming(n, v) /\ (Notice(n, v)' => Notice(n, v))
    <2>1. ~IsDigest(e, n, v) /\ ~IsDigest(m, n, v)
      BY <1>2, <1>5, <1>10 DEF IsDigest
    <2>2. Coming(n, v)' = Coming(n, v)
      BY <1>3, <1>4, <1>5, <2>1 DEF Coming, IsDigest
    <2>3. Notice(n, v)' => Notice(n, v)
      BY <1>2, <1>3, <1>4, <1>5, <1>6, <1>9 DEF Notice, Announces, Outstanding
    <2>4. QED
      BY <2>2, <2>3
  <1>11. Notice(m.nr, u) /\ ~Notice(m.nr, u)'
    <2>1. Notice(m.nr, u)
      BY <1>4, <1>5 DEF Notice, Announces, Outstanding
    <2>2. \A x \in queue' : ~(x.kind = "imported" /\ x.nr = m.nr)
      BY <1>2, <1>3, <1>5, MailFacts DEF Separate
    <2>3. ~Outstanding(u)'
      BY <1>9
    <2>4. QED
      BY <1>4, <1>5, <2>1, <2>2, <2>3 DEF Notice, Announces
  <1>12. Coming(m.nr, u)' \subseteq Coming(m.nr, u) \cup {e} /\ e \in Coming(m.nr, u)'
    BY <1>2, <1>3, <1>4, <1>5 DEF Coming, IsDigest
  <1>13. \A n, v : Coming(n, v) \subseteq Coming(n, v)'
    BY <1>3, <1>4, <1>5 DEF Coming, IsDigest
  <1>14. OwedOK'
    <2>1. ASSUME NEW n \in 1..MaxImports, NEW v \in Users PROVE Balanced(n, v)'
      <3>1. owed[n][v] \in Int /\ Balanced(n, v) /\ owed'[n][v] = owed[n][v]
        BY <1>4, MailFacts DEF OwedOK
      <3>2. CASE n # m.nr \/ v # u
        BY <1>10, <3>1, <3>2, BalanceKept
      <3>3. CASE n = m.nr /\ v = u
        <4> DEFINE S == Coming(n, v)
                   T == Coming(n, v)'
        <4>1. IsFiniteSet(S) /\ Cardinality(S) + 1 <= owed[n][v]
          BY <1>11, <3>1, <3>3 DEF Balanced
        <4>2. T \subseteq S \cup {e}
          BY <1>12, <3>3
        <4> HIDE DEF S, T
        <4>3. IsFiniteSet(T) /\ Cardinality(T) \in Nat /\ Cardinality(S) \in Nat
              /\ Cardinality(T) <= Cardinality(S) + 1
          BY <4>1, <4>2, Counting
        <4>4. Cardinality(T) <= owed[n][v]
          BY <3>1, <4>1, <4>3
        <4>5. QED
          BY <1>11, <3>1, <3>3, <4>3, <4>4 DEF Balanced, T
      <3>4. QED
        BY <3>2, <3>3
    <2>2. QED
      BY <1>4, <2>1, MailFacts DEF OwedOK
  <1>15. ServedOK'
    <2>1. \A n, v : OnItsWay(n, v) => OnItsWay(n, v)'
      BY <1>4, <1>13 DEF OnItsWay
    <2>2. OnItsWay(m.nr, u)'
      BY <1>12 DEF OnItsWay
    <2>3. \A v \in Watchers(m)' \ recipients' : OnItsWay(m.nr, v)'
      BY <1>4, <1>5, <1>6, <2>1, <2>2, MailFacts DEF ServedOK
    <2>4. QED
      BY <1>4, <1>5, <2>1, <2>3, ServedKept
  <1>16. QED
    BY <1>7, <1>14, <1>15

(* One email, handed to the mail server: one digest less is owed.            *)
LEMMA DeliverKeeps ==
  ASSUME MailInv, [Next]_vars, NEW u \in Users, Deliver(u)
  PROVE  Separate' /\ OwedOK' /\ ServedOK'
  <1>1. PICK m \in held : /\ told' = told \cup {<<m.nr, u>>}
                          /\ owed' = [owed EXCEPT ![m.nr][u] = @ - 1]
    BY DEF Deliver
  <1>2. /\ handler = "send" /\ u \in recipients /\ recipients' = recipients \ {u}
        /\ UNCHANGED <<queue, held, left, broken, handler, promised, failures, imports, fresh,
                       rows>>
    BY DEF Deliver, importVars
  <1>3. /\ held = {m} /\ m.kind = "email" /\ left \cup broken \subseteq {"send"}
        /\ m.nr \in 1..MaxImports /\ m.nr \in 1..imports /\ recipients \subseteq m.to
        /\ "send" \notin left \cup broken /\ m \notin queue
    BY <1>2, InHand, UnderWay, MailFacts DEF Addressees, Separate
  <1>4. \A x : Watchers(x)' = Watchers(x) /\ Addressees(x)' = Addressees(x)
    BY <1>2 DEF Watchers, Addressees
  <1>5. Separate'
    BY <1>2, <1>4, MailFacts DEF Separate
  <1>6. owed \in [1..MaxImports -> [Users -> Int]]
    BY MailFacts DEF OwedOK
  <1>7. /\ owed' \in [1..MaxImports -> [Users -> Int]]
        /\ owed'[m.nr][u] = owed[m.nr][u] - 1
        /\ \A n \in 1..MaxImports, v \in Users :
             n # m.nr \/ v # u => owed'[n][v] = owed[n][v]
    <2> DEFINE row == [owed[m.nr] EXCEPT ![u] = owed[m.nr][u] - 1]
    <2>1. row \in [Users -> Int] /\ row[u] = owed[m.nr][u] - 1
          /\ \A v \in Users : v # u => row[v] = owed[m.nr][v]
      BY <1>3, <1>6
    <2>2. owed' = [owed EXCEPT ![m.nr] = row]
      BY <1>1
    <2> HIDE DEF row
    <2>3. owed' \in [1..MaxImports -> [Users -> Int]] /\ owed'[m.nr] = row
          /\ \A n \in 1..MaxImports : n # m.nr => owed'[n] = owed[n]
      BY <1>3, <1>6, <2>1, <2>2
    <2>4. QED
      BY <2>1, <2>3
  <1>8. Serving \cap (left \cup broken) = {} /\ Outstanding(u) /\ ~Outstanding(u)'
    BY <1>2, <1>3 DEF Serving, Outstanding
  <1>9. ASSUME NEW n \in 1..MaxImports, NEW v \in Users
        PROVE  Coming(n, v)' \subseteq Coming(n, v) /\ (Notice(n, v)' => Notice(n, v))
    BY <1>2, <1>3, <1>4, <1>8 DEF Coming, Notice, Announces, Outstanding
  <1>10. m \in Coming(m.nr, u) /\ Coming(m.nr, u)' \subseteq Coming(m.nr, u) \ {m}
    BY <1>2, <1>3, <1>8 DEF Coming, IsDigest
  <1>11. OwedOK'
    <2>1. ASSUME NEW n \in 1..MaxImports, NEW v \in Users PROVE Balanced(n, v)'
      <3>1. owed[n][v] \in Int /\ Balanced(n, v) /\ owed'[n][v] \in Int
        BY <1>7, MailFacts DEF OwedOK
      <3>2. CASE n # m.nr \/ v # u
        <4>1. owed'[n][v] = owed[n][v]
          BY <1>7, <3>2
        <4>2. QED
          BY <1>9, <3>1, <4>1, BalanceKept
      <3>3. CASE n = m.nr /\ v = u
        <4> DEFINE S == Coming(n, v)
                   T == Coming(n, v)'
                   b == IF Notice(n, v) THEN 1 ELSE 0
                   c == IF Notice(n, v)' THEN 1 ELSE 0
        <4>1. IsFiniteSet(S) /\ Cardinality(S) + b <= owed[n][v]
          BY <3>1 DEF Balanced
        <4>2. m \in S /\ T \subseteq S \ {m}
          BY <1>10, <3>3
        <4>3. c <= b /\ b \in Nat /\ c \in Nat
          BY <1>9
        <4>4. owed'[n][v] = owed[n][v] - 1
          BY <1>7, <3>3
        <4> HIDE DEF S, T, b, c
        <4>5. IsFiniteSet(T) /\ Cardinality(T) \in Nat /\ Cardinality(S) \in Nat
              /\ Cardinality(T) + 1 <= Cardinality(S)
          BY <4>1, <4>2, Counting
        <4>6. Cardinality(T) + c <= owed'[n][v]
          BY <3>1, <4>1, <4>3, <4>4, <4>5
        <4>7. QED
          BY <4>5, <4>6 DEF Balanced, T, c
      <3>4. QED
        BY <3>2, <3>3
    <2>2. \A n \in 1..MaxImports, v \in Users : n > imports' => owed'[n][v] = 1
      <3>1. imports \in Nat /\ m.nr <= imports
        BY <1>3, MailFacts DEF Separate
      <3>2. QED
        BY <1>2, <1>7, <3>1, MailFacts DEF OwedOK
    <2>3. QED
      BY <1>7, <2>1, <2>2 DEF OwedOK
  <1>12. ServedOK'
    <2>1. ASSUME NEW n \in 1..MaxImports, NEW v \in Users, OnItsWay(n, v)
          PROVE  OnItsWay(n, v)'
      <3>1. CASE n = m.nr /\ v = u
        BY <1>1, <3>1 DEF OnItsWay
      <3>2. CASE n # m.nr \/ v # u
        <4>1. Coming(n, v)' = Coming(n, v)
          BY <1>2, <1>3, <1>8, <3>2 DEF Coming, IsDigest, Outstanding
        <4>2. QED
          BY <1>1, <1>2, <2>1, <4>1 DEF OnItsWay
      <3>3. QED
        BY <3>1, <3>2
    <2>2. QED
      BY <1>2, <2>1, ServedKept
  <1>13. QED
    BY <1>5, <1>11, <1>12

(* A handler that has served everyone returns.                               *)
LEMMA DoneKeeps ==
  ASSUME MailInv, [Next]_vars, AllServed
  PROVE  Separate' /\ OwedOK' /\ ServedOK'
  <1>1. /\ handler \in Serving /\ recipients = {} /\ handler' = "none"
        /\ promised' = IF handler = "send" THEN promised
                       ELSE promised \cup UNION {{m.nr} \X Watchers(m) : m \in held}
        /\ UNCHANGED <<queue, held, left, broken, recipients, owed, told, failures, imports,
                       fresh, rows>>
    BY DEF AllServed, importVars
  <1>2. PICK m \in held : TRUE
    BY <1>1, MailFacts DEF WorkerOK, Serving
  <1>3. held = {m} /\ "none" \notin left \cup broken
    BY InHand
  <1>4. \A x : Watchers(x)' = Watchers(x) /\ Addressees(x)' = Addressees(x)
    BY <1>1 DEF Watchers, Addressees
  <1>5. Separate'
    BY <1>1, <1>3, <1>4, MailFacts DEF Separate
  <1>6. \A n, v : (Coming(n, v)' = Coming(n, v)) /\ (Notice(n, v)' <=> Notice(n, v))
    BY <1>1, <1>4 DEF Coming, Notice, Announces, Outstanding
  <1>7. OwedOK'
    <2>1. ASSUME NEW n \in 1..MaxImports, NEW u \in Users PROVE Balanced(n, u)'
      <3>1. owed'[n][u] >= owed[n][u] /\ owed'[n][u] \in Int
        BY <1>1, MailFacts DEF OwedOK
      <3>2. QED
        BY <1>6, <3>1, BalanceKept
    <2>2. QED
      BY <1>1, <2>1, MailFacts DEF OwedOK
  <1>8. ServedOK'
    <2>1. \A n, v : OnItsWay(n, v)' <=> OnItsWay(n, v)
      BY <1>1, <1>6 DEF OnItsWay
    <2>2. \A n, v : <<n, v>> \in promised' =>
            <<n, v>> \in promised \/ (handler = "notify" /\ n = m.nr /\ v \in Watchers(m))
      BY <1>1, <1>3 DEF Serving
    <2>3. QED
      BY <1>1, <2>1, <2>2, MailFacts DEF ServedOK
  <1>9. QED
    BY <1>5, <1>7, <1>8


(* What is owed when some users of the message in hand are served again.     *)
LEMMA OwedAgain ==
  ASSUME MailInv, NEW m \in held, NEW users, ServeAgain(m, users), imports' = imports,
         users # {} => m.kind # "geocoded"
  PROVE  /\ owed' \in [1..MaxImports -> [Users -> Int]]
         /\ \A n \in 1..MaxImports, u \in Users :
              /\ owed[n][u] \in Int
              /\ owed'[n][u] = IF n = m.nr /\ u \in users THEN owed[n][u] + 1 ELSE owed[n][u]
         /\ \A n \in 1..MaxImports, u \in Users : n > imports' => owed'[n][u] = 1
  <1>1. /\ owed \in [1..MaxImports -> [Users -> Int]] /\ imports \in Nat
        /\ \A n \in 1..MaxImports, u \in Users : n > imports => owed[n][u] = 1
    BY MailFacts DEF OwedOK, Separate
  <1> DEFINE f(n, u) == IF n = m.nr /\ u \in users THEN owed[n][u] + 1 ELSE owed[n][u]
  <1>2. owed' = [n \in 1..MaxImports |-> [u \in Users |-> f(n, u)]]
    BY DEF ServeAgain
  <1>3. \A n \in 1..MaxImports, u \in Users : owed[n][u] \in Int /\ f(n, u) \in Int
    BY <1>1
  <1>4. \A n \in 1..MaxImports, u \in Users : owed'[n][u] = f(n, u)
    BY <1>2
  <1>5. owed' \in [1..MaxImports -> [Users -> Int]]
    BY <1>2, <1>3
  <1>6. users # {} => m.nr \in 1..imports
    BY UnderWay
  <1>7. \A n \in 1..MaxImports, u \in Users : n > imports => f(n, u) = 1
    BY <1>1, <1>6
  <1>8. QED
    BY <1>3, <1>4, <1>5, <1>7

(* A step that owes one digest more may send one email again, or announce    *)
(* the import again.                                                         *)
LEMMA BalanceRaised ==
  ASSUME MailInv, NEW n \in 1..MaxImports, NEW u \in Users, NEW x,
         \/ Coming(n, u)' \subseteq Coming(n, u)
         \/ Coming(n, u)' \subseteq Coming(n, u) \cup {x} /\ (Notice(n, u)' => Notice(n, u)),
         owed'[n][u] = owed[n][u] + 1
  PROVE  Balanced(n, u)'
  <1> DEFINE S == Coming(n, u)
             T == Coming(n, u)'
             b == IF Notice(n, u) THEN 1 ELSE 0
             c == IF Notice(n, u)' THEN 1 ELSE 0
  <1>1. Balanced(n, u) /\ owed[n][u] \in Int
    BY MailFacts DEF OwedOK
  <1>2. IsFiniteSet(S) /\ Cardinality(S) + b <= owed[n][u]
    BY <1>1 DEF Balanced
  <1>3. T \subseteq S \/ (T \subseteq S \cup {x} /\ c <= b)
    OBVIOUS
  <1>4. b \in 0..1 /\ c \in 0..1
    OBVIOUS
  <1> HIDE DEF S, T, b, c
  <1>5. Cardinality(S) \in Nat /\ IsFiniteSet(T) /\ Cardinality(T) \in Nat
    BY <1>2, <1>3, Counting
  <1>6. CASE T \subseteq S
    <2>1. Cardinality(T) <= Cardinality(S)
      BY <1>2, <1>6, Counting
    <2>2. Cardinality(T) + c <= owed'[n][u]
      BY <1>1, <1>2, <1>4, <1>5, <2>1
    <2>3. QED
      BY <1>5, <2>2 DEF Balanced, T, c
  <1>7. CASE T \subseteq S \cup {x} /\ c <= b
    <2>1. Cardinality(T) <= Cardinality(S) + 1
      BY <1>2, <1>7, Counting
    <2>2. Cardinality(T) + c <= owed'[n][u]
      BY <1>1, <1>2, <1>4, <1>5, <1>7, <2>1
    <2>3. QED
      BY <1>5, <2>2 DEF Balanced, T, c
  <1>8. QED
    BY <1>3, <1>6, <1>7

(* An email that is sent again takes the place of the one that failed.       *)
LEMMA BalanceMoved ==
  ASSUME MailInv, NEW n \in 1..MaxImports, NEW u \in Users, NEW x \in Coming(n, u), NEW y,
         Coming(n, u)' \subseteq (Coming(n, u) \ {x}) \cup {y}, Notice(n, u)' => Notice(n, u),
         owed' = owed
  PROVE  Balanced(n, u)'
  <1> DEFINE S == Coming(n, u)
             T == Coming(n, u)'
             b == IF Notice(n, u) THEN 1 ELSE 0
             c == IF Notice(n, u)' THEN 1 ELSE 0
  <1>1. Balanced(n, u) /\ owed[n][u] \in Int
    BY MailFacts DEF OwedOK
  <1>2. IsFiniteSet(S) /\ Cardinality(S) + b <= owed[n][u]
    BY <1>1 DEF Balanced
  <1>3. x \in S /\ T \subseteq (S \ {x}) \cup {y}
    OBVIOUS
  <1>4. c <= b /\ b \in 0..1 /\ c \in 0..1
    OBVIOUS
  <1> HIDE DEF S, T, b, c
  <1>5. IsFiniteSet(T) /\ Cardinality(T) \in Nat /\ Cardinality(S) \in Nat
        /\ Cardinality(T) <= Cardinality(S)
    BY <1>2, <1>3, Counting
  <1>6. Cardinality(T) + c <= owed'[n][u]
    BY <1>1, <1>2, <1>4, <1>5
  <1>7. QED
    BY <1>5, <1>6 DEF Balanced, T, c

(* A failed message goes to its broken handlers again, or is given up.       *)
LEMMA SettleKeeps ==
  ASSUME MailInv, [Next]_vars, Settle
  PROVE  Separate' /\ OwedOK' /\ ServedOK'
  <1>1. PICK m \in held :
          LET again == [m EXCEPT !.handlers = broken, !.tries = @ + 1] IN
          IF broken = {} THEN UNCHANGED <<queue, failures>>
          ELSE IF m.tries < MaxTries THEN queue' = queue \cup {again} /\ failures' = failures
          ELSE failures' = failures \cup {again} /\ queue' = queue
    BY DEF Settle
  <1> DEFINE a == [m EXCEPT !.handlers = broken, !.tries = @ + 1]
  <1>2. /\ left = {} /\ handler = "none" /\ held' = {} /\ broken' = {}
        /\ UNCHANGED <<left, handler, recipients, owed, told, promised, imports, fresh, rows>>
    BY DEF Settle, mailVars, importVars
  <1>3. /\ held = {m} /\ broken \subseteq m.handlers /\ (m.kind # "geocoded" => m \notin queue)
        /\ recipients = {}
    BY <1>2, InHand, MailFacts DEF WorkerOK, Serving
  <1>4. /\ a.kind = m.kind /\ a.nr = m.nr /\ a.to = m.to /\ a.races = m.races
        /\ a.handlers = broken /\ a.tries = m.tries + 1
        /\ m.tries \in Nat
    BY UnderWay DEF MessageOK
  <1>5. \/ queue' = queue /\ failures' = failures /\ broken = {}
        \/ queue' = queue \cup {a} /\ failures' = failures /\ broken # {}
        \/ queue' = queue /\ failures' = failures \cup {a} /\ a.tries > MaxTries /\ broken # {}
    BY <1>1, <1>4, MailFacts
  <1> HIDE DEF a
  <1>6. /\ m.kind = "email" => broken \subseteq {"send"}
        /\ m.kind # "geocoded" => m.nr \in 1..imports
    BY <1>3, UnderWay
  <1>7. Separate'
    <2>1. IsFiniteSet(queue')
      BY <1>5, MailFacts, FS_AddElement DEF Separate
    <2>2. \A x \in queue' \cup held' : x.kind # "geocoded" => x.nr \in 1..imports'
      BY <1>2, <1>4, <1>5, <1>6, MailFacts DEF Separate
    <2>3. ASSUME NEW x \in queue', NEW y \in queue', x.kind = "imported", y.kind = "imported",
                 x.nr = y.nr
          PROVE  x = y
      <3>1. CASE x \in queue /\ y \in queue
        BY <2>3, <3>1, MailFacts DEF Separate
      <3>2. ASSUME m.kind = "imported", NEW z \in queue, z.kind = "imported", z.nr = m.nr
            PROVE  FALSE
        BY <1>3, <3>2, MailFacts DEF Separate
      <3>3. QED
        BY <1>4, <1>5, <2>3, <3>1, <3>2
    <2>4. QED
      BY <1>2, <2>1, <2>2, <2>3, MailFacts DEF Separate
  <1>8. \A v : Outstanding(v) <=> Serving \cap broken # {}
    BY <1>2, <1>3 DEF Outstanding
  <1>9. \A x : x.races = m.races => Watchers(x)' = Watchers(m)
    BY <1>2 DEF Watchers
  <1>10. \A x : Watchers(x)' = Watchers(x)
    BY <1>2 DEF Watchers
  <1>11. ASSUME NEW n \in 1..MaxImports, NEW v \in Users, Notice(n, v)'
         PROVE  Notice(n, v)
    <2>1. PICK x \in queue' : x.kind = "imported" /\ x.nr = n /\ v \in Watchers(x)'
                              /\ "notify" \in x.handlers
      BY <1>2, <1>11 DEF Notice, Announces
    <2>2. CASE x \in queue
      BY <1>10, <2>1, <2>2 DEF Notice, Announces
    <2>3. CASE x = a
      BY <1>4, <1>8, <1>9, <2>1, <2>3 DEF Notice, Announces, Serving
    <2>4. QED
      BY <1>5, <2>2, <2>3
  <1>12. OwedOK'
    <2>1. ASSUME NEW n \in 1..MaxImports, NEW v \in Users PROVE Balanced(n, v)'
      <3>1. owed[n][v] \in Int /\ owed' = owed
        BY <1>2, MailFacts DEF OwedOK
      <3>2. Coming(n, v)' = {x \in queue' : IsDigest(x, n, v)}
        BY <1>2 DEF Coming
      <3>3. {x \in queue : IsDigest(x, n, v)} \subseteq Coming(n, v)
        BY DEF Coming
      <3>4. CASE queue' = queue \/ ~IsDigest(m, n, v)
        <4>1. Coming(n, v)' \subseteq Coming(n, v)
          BY <1>4, <1>5, <3>2, <3>3, <3>4 DEF IsDigest
        <4>2. owed'[n][v] >= owed[n][v] /\ owed'[n][v] \in Int
          BY <3>1
        <4>3. QED
          BY <1>11, <4>1, <4>2, BalanceKept
      <3>5. CASE queue' # queue /\ IsDigest(m, n, v)
        <4>1. queue' = queue \cup {a} /\ broken = {"send"} /\ m \notin queue
          BY <1>3, <1>5, <1>6, <3>5 DEF IsDigest
        <4>2. m \in Coming(n, v)
          BY <1>8, <3>5, <4>1 DEF Coming, Serving
        <4>3. Coming(n, v)' \subseteq (Coming(n, v) \ {m}) \cup {a}
          BY <3>2, <3>3, <4>1
        <4>4. QED
          BY <1>11, <3>1, <4>2, <4>3, BalanceMoved
      <3>6. QED
        BY <3>4, <3>5
    <2>2. QED
      BY <1>2, <2>1, MailFacts DEF OwedOK
  <1>13. ServedOK'
    <2>1. ASSUME NEW n \in 1..MaxImports, NEW v \in Users, OnItsWay(n, v)
          PROVE  OnItsWay(n, v)'
      <3>1. IsDigest(a, n, v) <=> IsDigest(m, n, v)
        BY <1>4 DEF IsDigest
      <3>2. CASE \E x \in queue : IsDigest(x, n, v)
        BY <1>5, <3>2 DEF OnItsWay, Coming
      <3>3. CASE IsDigest(m, n, v) /\ Outstanding(v)
        <4>1. broken # {}
          BY <1>8, <3>3
        <4>2. QED
          BY <1>5, <3>1, <3>3, <4>1 DEF OnItsWay, Coming
      <3>4. CASE \/ <<n, v>> \in told
                 \/ \E x \in failures : IsDigest(x, n, v) /\ x.tries > MaxTries
        BY <1>2, <1>5, <3>4 DEF OnItsWay
      <3>5. QED
        BY <1>3, <2>1, <3>2, <3>3, <3>4 DEF OnItsWay, Coming
    <2>2. QED
      BY <1>2, <2>1, ServedKept
  <1>14. QED
    BY <1>7, <1>12, <1>13

(* A throwing handler has served some: they are served again.                *)
LEMMA ThrowKeeps ==
  ASSUME MailInv, [Next]_vars, Throw
  PROVE  Separate' /\ OwedOK' /\ ServedOK'
  <1>1. PICK m \in held :
          ServeAgain(m, IF handler \in Serving THEN Addressees(m) \ recipients ELSE {})
    BY DEF Throw
  <1>2. /\ handler \in Handlers /\ handler' = "none" /\ broken' = broken \cup {handler}
        /\ recipients' = {}
        /\ UNCHANGED <<queue, held, left, told, promised, failures, imports, fresh, rows>>
    BY DEF Throw, importVars
  <1>3. /\ held = {m} /\ handler # "none" /\ "none" \notin left \cup broken
        /\ left \cup broken \cup {handler} \subseteq m.handlers
        /\ recipients \subseteq Addressees(m) /\ handler \notin left
        /\ (handler \notin Serving => recipients = {})
        /\ (handler \in Serving => m.kind # "geocoded")
        /\ (handler = "notify" => m.kind = "imported") /\ (handler = "send" => m.kind = "email")
    BY <1>2, InHand, MailFacts DEF WorkerOK, Handlers, Serving, Separate
  <1>4. \A x : Watchers(x)' = Watchers(x) /\ Addressees(x)' = Addressees(x)
    BY <1>2 DEF Watchers, Addressees
  <1>5. Separate'
    <2>1. left' \cap broken' = {} /\ handler' \notin left' \cup broken'
      BY <1>2, <1>3, MailFacts DEF Separate
    <2>2. \A x \in held' : /\ left' \cup broken' \cup ({handler'} \ {"none"}) \subseteq x.handlers
                           /\ recipients' \subseteq Addressees(x)'
      BY <1>2, <1>3
    <2>3. QED
      BY <1>2, <2>1, <2>2, MailFacts DEF Separate
  <1> DEFINE again == IF handler \in Serving THEN Addressees(m) \ recipients ELSE {}
  <1>6. /\ owed' \in [1..MaxImports -> [Users -> Int]]
        /\ \A n \in 1..MaxImports, u \in Users :
             /\ owed[n][u] \in Int
             /\ owed'[n][u] = IF n = m.nr /\ u \in again THEN owed[n][u] + 1 ELSE owed[n][u]
        /\ \A n \in 1..MaxImports, u \in Users : n > imports' => owed'[n][u] = 1
    BY <1>1, <1>2, <1>3, OwedAgain
  <1>7. \A u : /\ Outstanding(u)' <=> Serving \cap (left \cup broken \cup {handler}) # {}
               /\ Outstanding(u) => Outstanding(u)'
    BY <1>2, <1>3 DEF Outstanding
  <1>8. \A n, u : IsDigest(m, n, u) => n = m.nr /\ u \in Addressees(m)
    BY DEF IsDigest, Addressees
  <1>9. \A n, u : Announces(m, n, u) => n = m.nr /\ u \in Addressees(m)
    BY DEF Announces, Addressees
  <1>10. ASSUME NEW n \in 1..MaxImports, NEW u \in Users, ~(n = m.nr /\ u \in again),
                IsDigest(m, n, u) \/ Announces(m, n, u), Outstanding(u)'
         PROVE  Outstanding(u)
    <2>1. CASE handler \in Serving
      <3>1. u \in recipients
        BY <1>8, <1>9, <1>10, <2>1
      <3>2. QED
        BY <3>1 DEF Outstanding
    <2>2. CASE handler \notin Serving
      BY <1>7, <1>10, <2>2 DEF Outstanding
    <2>3. QED
      BY <2>1, <2>2
  <1>11. \A n, u : Announces(m, n, u)' <=> Announces(m, n, u)
    BY <1>4 DEF Announces
  <1>12. \A n, u : /\ Coming(n, u) \subseteq Coming(n, u)'
                   /\ Coming(n, u)' \subseteq Coming(n, u) \cup {m}
                   /\ m.kind # "email" => Coming(n, u)' \subseteq Coming(n, u)
                   /\ m.kind # "imported" => (Notice(n, u)' => Notice(n, u))
    BY <1>2, <1>3, <1>4, <1>7 DEF Coming, IsDigest, Notice, Announces
  <1>13. ASSUME NEW n \in 1..MaxImports, NEW u \in Users, ~(n = m.nr /\ u \in again)
         PROVE  Coming(n, u)' \subseteq Coming(n, u) /\ (Notice(n, u)' => Notice(n, u))
    BY <1>2, <1>3, <1>4, <1>10, <1>13 DEF Coming, Notice, Announces
  <1>14. OwedOK'
    <2>1. ASSUME NEW n \in 1..MaxImports, NEW u \in Users PROVE Balanced(n, u)'
      <3>1. CASE n = m.nr /\ u \in again
        <4>1. owed'[n][u] = owed[n][u] + 1
          BY <1>6, <3>1
        <4>2. m.kind = "email" \/ m.kind = "imported"
          BY <1>3, <3>1, UnderWay
        <4>3. \/ Coming(n, u)' \subseteq Coming(n, u)
              \/ Coming(n, u)' \subseteq Coming(n, u) \cup {m} /\ (Notice(n, u)' => Notice(n, u))
          BY <1>12, <4>2
        <4>4. QED
          BY <4>1, <4>3, BalanceRaised
      <3>2. CASE ~(n = m.nr /\ u \in again)
        <4>1. owed'[n][u] >= owed[n][u] /\ owed'[n][u] \in Int
          BY <1>6, <3>2
        <4>2. QED
          BY <1>13, <3>2, <4>1, BalanceKept
      <3>3. QED
        BY <3>1, <3>2
    <2>2. QED
      BY <1>6, <2>1 DEF OwedOK
  <1>15. ServedOK'
    <2>1. \A n, u : OnItsWay(n, u) => OnItsWay(n, u)'
      BY <1>2, <1>12 DEF OnItsWay
    <2>2. QED
      BY <1>2, <2>1, ServedKept
  <1>16. QED
    BY <1>5, <1>14, <1>15

(* A message delivered again serves again whom it had served.                *)
LEMMA DeathKeeps ==
  ASSUME MailInv, [Next]_vars, WorkerDies
  PROVE  Separate' /\ OwedOK' /\ ServedOK'
  <1> DEFINE twice(m) == Serving \cap m.handlers # {} /\ Serving \cap (left \cup broken) = {}
             again(m) == IF twice(m) THEN Addressees(m) \ recipients ELSE {}
  <1>1. PICK m \in held : ServeAgain(m, again(m))
    BY DEF WorkerDies
  <1>2. /\ queue' = queue \cup held /\ held' = {} /\ left' = {} /\ handler' = "none"
        /\ broken' = {} /\ recipients' = {}
        /\ UNCHANGED <<told, promised, failures, imports, fresh, rows>>
    BY DEF WorkerDies, importVars
  <1>3. held = {m} /\ recipients \subseteq Addressees(m)
    BY InHand
  <1>4. /\ m.kind = "email" => m.handlers = {"send"}
        /\ m.kind = "geocoded" => m.handlers = {"reindex"}
        /\ m.kind \in {"imported", "geocoded", "email"}
    BY UnderWay
  <1>5. twice(m) => m.kind # "geocoded"
    BY <1>4 DEF Serving
  <1>6. \A x : Watchers(x)' = Watchers(x)
    BY <1>2 DEF Watchers
  <1>7. Separate'
    <2>1. IsFiniteSet(queue')
      BY <1>2, <1>3, MailFacts, FS_AddElement DEF Separate
    <2>2. QED
      BY <1>2, <2>1, MailFacts DEF Separate
  <1>8. /\ owed' \in [1..MaxImports -> [Users -> Int]]
        /\ \A n \in 1..MaxImports, u \in Users :
             /\ owed[n][u] \in Int
             /\ owed'[n][u] = IF n = m.nr /\ u \in again(m) THEN owed[n][u] + 1 ELSE owed[n][u]
        /\ \A n \in 1..MaxImports, u \in Users : n > imports' => owed'[n][u] = 1
    <2> DEFINE users == again(m)
    <2>1. ServeAgain(m, users) /\ (users # {} => m.kind # "geocoded")
      BY <1>1, <1>5
    <2> HIDE DEF users
    <2>2. /\ owed' \in [1..MaxImports -> [Users -> Int]]
          /\ \A n \in 1..MaxImports, u \in Users :
               /\ owed[n][u] \in Int
               /\ owed'[n][u] = IF n = m.nr /\ u \in users THEN owed[n][u] + 1 ELSE owed[n][u]
          /\ \A n \in 1..MaxImports, u \in Users : n > imports' => owed'[n][u] = 1
      BY <1>2, <2>1, OwedAgain
    <2>3. QED
      BY <2>2 DEF users
  <1>9. \A n, u : /\ Coming(n, u) \subseteq Coming(n, u)'
                  /\ Coming(n, u)' \subseteq Coming(n, u) \cup {m}
                  /\ m.kind # "email" => Coming(n, u)' \subseteq Coming(n, u)
                  /\ m.kind # "imported" => (Notice(n, u)' => Notice(n, u))
    BY <1>2, <1>3, <1>6 DEF Coming, IsDigest, Notice, Announces
  <1>10. ASSUME NEW n \in 1..MaxImports, NEW u \in Users, ~(n = m.nr /\ u \in again(m)),
                n = m.nr, u \in Addressees(m), Serving \cap m.handlers # {}
         PROVE  Outstanding(u)
    BY <1>10 DEF Outstanding
  <1>11. ASSUME NEW n \in 1..MaxImports, NEW u \in Users, ~(n = m.nr /\ u \in again(m))
         PROVE  Coming(n, u)' \subseteq Coming(n, u) /\ (Notice(n, u)' => Notice(n, u))
    <2>1. IsDigest(m, n, u) => Outstanding(u)
      BY <1>4, <1>10, <1>11 DEF IsDigest, Addressees, Serving
    <2>2. Announces(m, n, u) /\ "notify" \in m.handlers => Outstanding(u)
      BY <1>10, <1>11 DEF Announces, Addressees, Serving
    <2>3. Coming(n, u)' \subseteq Coming(n, u)
      BY <1>2, <1>3, <2>1 DEF Coming
    <2>4. Notice(n, u)' => Notice(n, u)
      BY <1>2, <1>3, <1>6, <2>2 DEF Notice, Announces
    <2>5. QED
      BY <2>3, <2>4
  <1>12. OwedOK'
    <2>1. ASSUME NEW n \in 1..MaxImports, NEW u \in Users PROVE Balanced(n, u)'
      <3>1. CASE n = m.nr /\ u \in again(m)
        <4>1. owed'[n][u] = owed[n][u] + 1
          BY <1>8, <3>1
        <4>2. m.kind = "email" \/ m.kind = "imported"
          BY <1>4, <1>5, <3>1
        <4>3. \/ Coming(n, u)' \subseteq Coming(n, u)
              \/ Coming(n, u)' \subseteq Coming(n, u) \cup {m} /\ (Notice(n, u)' => Notice(n, u))
          BY <1>9, <4>2
        <4>4. QED
          BY <4>1, <4>3, BalanceRaised
      <3>2. CASE ~(n = m.nr /\ u \in again(m))
        <4>1. owed'[n][u] >= owed[n][u] /\ owed'[n][u] \in Int
          BY <1>8, <3>2
        <4>2. QED
          BY <1>11, <3>2, <4>1, BalanceKept
      <3>3. QED
        BY <3>1, <3>2
    <2>2. QED
      BY <1>8, <2>1 DEF OwedOK
  <1>13. ServedOK'
    <2>1. \A n, u : OnItsWay(n, u) => OnItsWay(n, u)'
      BY <1>2, <1>9 DEF OnItsWay
    <2>2. QED
      BY <1>2, <2>1, ServedKept
  <1>14. QED
    BY <1>7, <1>12, <1>13

(* Every step keeps imports and digests in order.                            *)
LEMMA MailKept ==
  ASSUME MailInv, [Next]_vars
  PROVE  MailInv'
  <1>1. EventsInv' /\ RowsFirst'
    BY StepKeeps, RowsKept DEF MailInv
  <1>2. Separate' /\ OwedOK' /\ ServedOK'
    BY QuietKeeps, ReceiveKeeps, CallKeeps, MailKeeps, DeliverKeeps, DoneKeeps, SettleKeeps,
       ThrowKeeps, DeathKeeps DEF Next, WorkerStep, ConsoleStep, Processes
  <1>3. QED
    BY <1>1, <1>2 DEF MailInv

(* Nobody is served or owed more than the one digest at first.               *)
LEMMA MailInit == Init => MailInv
  <1> SUFFICES ASSUME Init PROVE MailInv
    OBVIOUS
  <1>1. EventsInv
    BY InitHolds
  <1>2. /\ fresh = {} /\ queue = {} /\ held = {} /\ left = {} /\ broken = {} /\ handler = "none"
        /\ recipients = {} /\ imports = 0 /\ promised = {} /\ MaxImports \in Nat
        /\ owed = [n \in 1..MaxImports |-> [u \in Users |-> 1]]
    BY BoundsAssumption DEF Init
  <1>3. RowsFirst /\ Separate /\ ServedOK
    BY <1>2, FS_EmptySet DEF RowsFirst, Separate, ServedOK
  <1>4. \A n, u : Coming(n, u) = {} /\ ~Notice(n, u)
    BY <1>2 DEF Coming, Notice
  <1>5. IsFiniteSet({}) /\ Cardinality({}) = 0
    BY FS_EmptySet
  <1>6. owed \in [1..MaxImports -> [Users -> Int]]
        /\ \A n \in 1..MaxImports, u \in Users : owed[n][u] = 1
    BY <1>2
  <1>7. ASSUME NEW n \in 1..MaxImports, NEW u \in Users PROVE Balanced(n, u)
    <2>1. Coming(n, u) = {} /\ ~Notice(n, u) /\ owed[n][u] = 1
      BY <1>4, <1>6
    <2>2. Cardinality(Coming(n, u)) = 0 /\ IsFiniteSet(Coming(n, u))
      BY <1>5, <2>1
    <2>3. QED
      BY <2>1, <2>2 DEF Balanced
  <1>8. QED
    BY <1>1, <1>3, <1>6, <1>7 DEF MailInv, OwedOK

(* Imports are announced once, and what is owed covers what is on its way,   *)
(* in every reachable state.                                                 *)
THEOREM MailInvariance == Spec => []MailInv
  BY MailInit, MailKept, PTL DEF Spec

(* A watcher gets one digest of an import, and one more only each time a     *)
(* notification that had enqueued it, or an email that had been delivered,   *)
(* was run again, whatever handlers throw, for any retries and deaths.       *)
THEOREM DigestsRepeatOnlyByFailure == Spec => []DigestRepeatedOnlyByFailure
  <1>1. ASSUME MailInv PROVE DigestRepeatedOnlyByFailure
    <2>1. SUFFICES ASSUME NEW n \in 1..MaxImports, NEW u \in Users PROVE owed[n][u] >= 0
      BY DEF DigestRepeatedOnlyByFailure
    <2>2. /\ IsFiniteSet(Coming(n, u)) /\ owed[n][u] \in Int
          /\ Cardinality(Coming(n, u)) + (IF Notice(n, u) THEN 1 ELSE 0) <= owed[n][u]
      BY <1>1, MailFacts DEF OwedOK, Balanced
    <2>3. Cardinality(Coming(n, u)) \in Nat
      BY <2>2, FS_CardinalityType
    <2>4. QED
      BY <2>2, <2>3
  <1>2. QED
    BY <1>1, MailInvariance, PTL

(* Whoever watched when a notification was done got the digest, or it is in  *)
(* the transport or the worker's hands, or its sending threw at every try.   *)
THEOREM WatchersTold == Spec => []WatchersAreTold
  <1>1. ASSUME MailInv PROVE WatchersAreTold
    <2>1. \A n \in 1..MaxImports, u \in Users : <<n, u>> \in promised => OnItsWay(n, u)
      BY <1>1, MailFacts DEF ServedOK
    <2>2. QED
      BY <2>1 DEF WatchersAreTold, OnItsWay, Coming
  <1>2. QED
    BY <1>1, MailInvariance, PTL
===============================================================================
