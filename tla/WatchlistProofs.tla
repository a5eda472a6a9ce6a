---------------------------- MODULE WatchlistProofs ----------------------------
(*****************************************************************************)
(* Type correctness of Watchlist, that no race is watched twice, and that    *)
(* what is drawn as watched is, for any races, visits and clicks.  The first *)
(* invariant says, besides the types, what a request may still do: a read    *)
(* never looks for an entry, a write names one race or, from the watchlist   *)
(* page, none, and a write of the present screen meets a screen that has     *)
(* loaded what the write will change.  The second relates what is drawn, the *)
(* rows and the requests under way.                                          *)
(*****************************************************************************)
EXTENDS Watchlist, TLAPS

Entries == [race: Races, id: Nat]
RequestType ==
  [id: Nat, by: {"screen", "elsewhere"}, op: {"GET", "POST", "DELETE"},
   races: SUBSET (Races \cup {None}),
   at: {"sent", "absent", "found", "refused", "done"},
   found: SUBSET Entries, answer: SUBSET Races]
ScreenType ==
  [kind: {"other", "button", "results", "page"}, races: SUBSET Races,
   watched: (SUBSET Races) \cup {None}, timer: BOOLEAN]

NamesOne(q) == \E r \in Races : q.races = {r}
NamesNone(q) == q.races = {None} /\ q.at \in {"sent", "refused"}
CanChange(q, s) ==
  \/ s.kind \in {"button", "results"} /\ s.watched # None
  \/ s.kind = "page" /\ NamesNone(q)
Sound(q, s) ==
  /\ q \in RequestType
  /\ q.op = "GET" => q.at \in {"sent", "done"}
  /\ q.op # "GET" => NamesOne(q) \/ NamesNone(q)
  /\ q.by = "screen" /\ q.op # "GET" => CanChange(q, s)

ScreenOK ==
  /\ screen \in ScreenType
  /\ screen.timer => screen.kind = "page"
  /\ screen.kind = "results" => screen.watched # None
CountersOK ==
  /\ user \in BOOLEAN
  /\ visits \in 0..MaxVisits /\ clicks \in 0..MaxClicks
  /\ excuses \subseteq {"elsewhere", "overlap", "lost"}
RequestsOK == \A q \in requests : Sound(q, screen)
EntriesOK == entries \subseteq Entries /\ WatchedOnce

WatchlistInv == CountersOK /\ ScreenOK /\ RequestsOK /\ EntriesOK

-----------------------------------------------------------------------------
(* The screen, the user's own actions and the bounds aside, a step of a      *)
(* request leaves the others as they are (Becomes).                          *)
LEMMA BecomesSound ==
  ASSUME RequestsOK, NEW q \in requests, NEW next,
         Sound(next, screen), Becomes(q, next), screen' = screen
  PROVE  RequestsOK'
  BY DEF RequestsOK, Becomes, Sound, CanChange

(* A request that is sent asks for nothing yet (apiFetch).                   *)
LEMMA RequestTyped ==
  ASSUME WatchlistInv, NEW by \in {"screen", "elsewhere"},
         NEW op \in {"GET", "POST", "DELETE"}, NEW races \in SUBSET (Races \cup {None})
  PROVE  /\ Request(by, op, races) \in RequestType
         /\ Request(by, op, races).by = by /\ Request(by, op, races).op = op
         /\ Request(by, op, races).races = races /\ Request(by, op, races).at = "sent"
  <1>1. clicks + 1 \in Nat /\ clicks \in Nat
    BY BoundsAssumption DEF WatchlistInv, CountersOK
  <1>2. QED
    BY <1>1 DEF Request, RequestType

(* What is left behind can change no screen (effects without clean-up).      *)
LEMMA LeftBehindSound ==
  ASSUME WatchlistInv, NEW s, NEW q \in LeftBehind
  PROVE  Sound(q, s)
  <1>1. PICK x \in requests : q = [x EXCEPT !.by = "elsewhere"]
    BY DEF LeftBehind
  <1>2. Sound(x, screen)
    BY DEF WatchlistInv, RequestsOK
  <1>3. x \in RequestType
    BY <1>2 DEF Sound
  <1>4. /\ q \in RequestType /\ q.by = "elsewhere"
        /\ q.op = x.op /\ q.at = x.at /\ q.races = x.races
    BY <1>1, <1>3 DEF RequestType
  <1>5. QED
    BY <1>2, <1>4 DEF Sound, NamesOne, NamesNone

(* Opening a screen (ShowRace, ShowResults, ShowWatchlist).                  *)
LEMMA ShowKeeps ==
  ASSUME WatchlistInv, NEW s \in ScreenType, NEW asks \in SUBSET SUBSET Races,
         s.timer => s.kind = "page", s.kind = "results" => s.watched # None,
         Show(s, asks)
  PROVE  WatchlistInv'
  <1>1. CountersOK'
    BY BoundsAssumption DEF Show, WatchlistInv, CountersOK
  <1>2. ScreenOK'
    BY DEF Show, ScreenOK
  <1>3. EntriesOK'
    BY DEF Show, WatchlistInv, EntriesOK, WatchedOnce
  <1>4. RequestsOK'
    <2>1. SUFFICES ASSUME NEW q \in requests' PROVE Sound(q, s)
      BY DEF RequestsOK, Show, Sound, CanChange
    <2>2. CASE q \in LeftBehind
      BY <2>2, LeftBehindSound
    <2>3. CASE q \notin LeftBehind
      <3>1. PICK a \in asks : q = Request("screen", "GET", a)
        BY <2>3 DEF Show
      <3>2. QED
        BY <3>1, RequestTyped DEF Sound
    <2>4. QED
      BY <2>2, <2>3
  <1>5. QED
    BY <1>1, <1>2, <1>3, <1>4 DEF WatchlistInv

(* A click of the screen or of another tab sends a write (toggle).           *)
LEMMA SendKeeps ==
  ASSUME WatchlistInv, NEW by \in {"screen", "elsewhere"}, NEW op \in {"POST", "DELETE"},
         NEW r \in Races \cup {None}, r = None => by = "screen" /\ screen.kind = "page",
         by = "screen" /\ r # None => screen.kind \in {"button", "results"} /\ screen.watched # None,
         clicks < MaxClicks, clicks' = clicks + 1,
         requests' = requests \cup {Request(by, op, {r})},
         excuses' \subseteq {"elsewhere", "overlap", "lost"},
         UNCHANGED <<user, entries, screen, visits>>
  PROVE  WatchlistInv'
  <1>1. CountersOK'
    BY BoundsAssumption DEF WatchlistInv, CountersOK
  <1>2. ScreenOK' /\ EntriesOK'
    BY DEF WatchlistInv, ScreenOK, EntriesOK, WatchedOnce
  <1>3. Sound(Request(by, op, {r}), screen)
    <2>1. {r} \in SUBSET (Races \cup {None})
      OBVIOUS
    <2>2. /\ Request(by, op, {r}) \in RequestType
          /\ Request(by, op, {r}).by = by /\ Request(by, op, {r}).op = op
          /\ Request(by, op, {r}).races = {r} /\ Request(by, op, {r}).at = "sent"
      BY <2>1, RequestTyped
    <2>3. CASE r = None
      BY <2>2, <2>3 DEF Sound, NamesNone, CanChange
    <2>4. CASE r # None
      BY <2>2, <2>4 DEF Sound, NamesOne, CanChange
    <2>5. QED
      BY <2>3, <2>4
  <1>4. RequestsOK'
    BY <1>3 DEF WatchlistInv, RequestsOK, Sound, CanChange
  <1>5. QED
    BY <1>1, <1>2, <1>4 DEF WatchlistInv

(* The rows are looked up, or read (AddWatchlistEntryHandler, remove, check).*)
LEMMA LookUpKeeps ==
  ASSUME WatchlistInv, NEW q \in requests, Find(q) \/ Read(q)
  PROVE  WatchlistInv'
  <1>1. Sound(q, screen) /\ q \in RequestType
    BY DEF WatchlistInv, RequestsOK, Sound
  <1>2. CountersOK' /\ ScreenOK' /\ EntriesOK' /\ screen' = screen
    BY DEF Find, Read, WatchlistInv, CountersOK, ScreenOK, EntriesOK, WatchedOnce
  <1>3. CASE Find(q)
    <2> DEFINE at == IF q.races = {None} THEN "refused"
                     ELSE IF (Found(q) # {}) = (q.op = "POST") THEN "refused"
                     ELSE IF q.op = "POST" THEN "absent" ELSE "found"
               next == [q EXCEPT !.found = Found(q), !.at = at]
    <2>1. q.op \in {"POST", "DELETE"} /\ Becomes(q, next)
      BY <1>3 DEF Find
    <2>2. Found(q) \in SUBSET Entries
      BY DEF Found, WatchlistInv, EntriesOK
    <2>3. at \in {"refused", "absent", "found"} /\ (q.races = {None} => at = "refused")
      OBVIOUS
    <2>4. /\ next \in RequestType /\ next.op = q.op /\ next.by = q.by
          /\ next.races = q.races /\ next.at = at
      <3> HIDE DEF at
      <3>1. QED
        BY <1>1, <2>2, <2>3 DEF RequestType
    <2>5. NamesNone(q) => NamesNone(next)
      BY <2>3, <2>4 DEF NamesNone
    <2>6. Sound(next, screen)
      <3> HIDE DEF next, at
      <3>1. QED
        BY <1>1, <2>1, <2>4, <2>5 DEF Sound, NamesOne, CanChange
    <2>7. RequestsOK'
      <3> HIDE DEF next
      <3>1. QED
        BY <1>2, <2>1, <2>6, BecomesSound DEF WatchlistInv
    <2>8. QED
      BY <1>2, <2>7 DEF WatchlistInv
  <1>4. CASE Read(q)
    <2> DEFINE next == [q EXCEPT !.answer = Watched \cap q.races, !.at = "done"]
    <2>1. q.op = "GET" /\ Becomes(q, next)
      BY <1>4 DEF Read
    <2>2. Watched \cap q.races \in SUBSET Races
      BY DEF Watched, Entries, WatchlistInv, EntriesOK
    <2>3. next \in RequestType /\ next.op = "GET" /\ next.at = "done"
      BY <1>1, <2>1, <2>2 DEF RequestType
    <2>4. Sound(next, screen)
      <3> HIDE DEF next
      <3>1. QED
        BY <2>3 DEF Sound
    <2>5. RequestsOK'
      <3> HIDE DEF next
      <3>1. QED
        BY <1>2, <2>1, <2>4, BecomesSound DEF WatchlistInv
    <2>6. QED
      BY <1>2, <2>5 DEF WatchlistInv
  <1>5. QED
    BY <1>3, <1>4

(* A write is done or refused; the insertion looks again, by the unique key  *)
(* (DoctrineWatchlistEntryRepository::save, remove).                         *)
LEMMA WriteKeeps ==
  ASSUME WatchlistInv, NEW q \in requests, Insert(q) \/ Delete(q)
  PROVE  WatchlistInv'
  <1> DEFINE at == IF Insert(q) /\ Found(q) # {} THEN "refused" ELSE "done"
             next == [q EXCEPT !.at = at]
  <1>1. Sound(q, screen) /\ q \in RequestType
    BY DEF WatchlistInv, RequestsOK, Sound
  <1>2. q.at \in {"absent", "found"}
    BY DEF Insert, Delete
  <1>3. q.op # "GET" /\ NamesOne(q) /\ ~NamesNone(q)
    BY <1>1, <1>2 DEF Sound, NamesNone
  <1>4. PICK r \in Races : q.races = {r}
    BY <1>3 DEF NamesOne
  <1>5. Becomes(q, next) /\ screen' = screen
    <2>1. CASE Insert(q)
      BY <2>1 DEF Insert
    <2>2. CASE Delete(q) /\ ~Insert(q)
      BY <2>2 DEF Delete
    <2>3. QED
      BY <2>1, <2>2
  <1>6. CountersOK' /\ ScreenOK'
    BY DEF Insert, Delete, Changed, WatchlistInv, CountersOK, ScreenOK
  <1>7. EntriesOK'
    <2>1. CASE Insert(q) /\ Found(q) # {}
      BY <2>1 DEF Insert, WatchlistInv, EntriesOK, WatchedOnce
    <2>2. CASE Insert(q) /\ Found(q) = {}
      <3>1. entries' = entries \cup [race: {r}, id: {q.id}]
        BY <2>2, <1>4 DEF Insert
      <3>2. q.id \in Nat
        BY <1>1 DEF RequestType
      <3>3. \A e \in entries : e.race # r
        BY <2>2, <1>4 DEF Found
      <3>4. \A e \in [race: {r}, id: {q.id}] : e = [race |-> r, id |-> q.id]
        OBVIOUS
      <3>5. entries' \subseteq Entries
        BY <3>1, <3>2 DEF Entries, WatchlistInv, EntriesOK
      <3>6. WatchedOnce'
        BY <3>1, <3>3, <3>4 DEF WatchedOnce, WatchlistInv, EntriesOK
      <3>7. QED
        BY <3>5, <3>6 DEF EntriesOK
    <2>3. CASE Delete(q)
      BY <2>3 DEF Delete, WatchlistInv, EntriesOK, WatchedOnce
    <2>4. QED
      BY <2>1, <2>2, <2>3
  <1>8. at \in {"refused", "done"}
    OBVIOUS
  <1>9. /\ next \in RequestType /\ next.op = q.op /\ next.by = q.by
        /\ next.races = q.races
    <2> HIDE DEF at
    <2>1. QED
      BY <1>1, <1>8 DEF RequestType
  <1>10. Sound(next, screen)
    <2> HIDE DEF next
    <2>1. QED
      BY <1>1, <1>3, <1>9 DEF Sound, NamesOne, CanChange
  <1>11. RequestsOK'
    <2> HIDE DEF next
    <2>1. QED
      BY <1>5, <1>10, BecomesSound DEF WatchlistInv
  <1>12. QED
    BY <1>6, <1>7, <1>11 DEF WatchlistInv

(* An answer sets what the screen draws as watched (setWatched,              *)
(* setWatchedIds, setEntries).                                               *)
LEMMA AnsweredKeeps ==
  ASSUME WatchlistInv, NEW q \in requests, NEW watched \in (SUBSET Races) \cup {None},
         watched = None => screen.watched = None,
         Answered(q, watched), excuses' \subseteq excuses \cup {"lost"}
  PROVE  WatchlistInv'
  <1>1. CountersOK' /\ EntriesOK'
    BY DEF Answered, WatchlistInv, CountersOK, EntriesOK, WatchedOnce
  <1>2. /\ screen' \in ScreenType /\ screen'.kind = screen.kind
        /\ screen'.timer = screen.timer /\ screen'.watched = watched
    BY DEF Answered, WatchlistInv, ScreenOK, ScreenType
  <1>3. ScreenOK'
    BY <1>2 DEF WatchlistInv, ScreenOK
  <1>4. RequestsOK'
    BY <1>2 DEF Answered, WatchlistInv, RequestsOK, Sound, CanChange
  <1>5. QED
    BY <1>1, <1>3, <1>4 DEF WatchlistInv

(* A write that succeeded flips a heart of a screen that is loaded           *)
(* (useWatchlist, useWatchlistStatuses: toggle).                             *)
LEMMA FlippedTyped ==
  ASSUME WatchlistInv, NEW q \in requests, q.by = "screen", q.op # "GET", q.at = "done"
  PROVE  Flipped(q) \in SUBSET Races /\ Flipped(q) # None
  <1>1. Sound(q, screen)
    BY DEF WatchlistInv, RequestsOK
  <1>2. ~NamesNone(q)
    BY DEF NamesNone
  <1>3. PICK r \in Races : q.races = {r}
    BY <1>1, <1>2 DEF Sound, NamesOne
  <1>4. screen.watched \in SUBSET Races
    BY <1>1, <1>2 DEF Sound, CanChange, WatchlistInv, ScreenOK, ScreenType
  <1>5. Flipped(q) \in SUBSET Races
    BY <1>3, <1>4 DEF Flipped
  <1>6. QED
    BY <1>5, NoneAssumption

(* The clicks (useWatchlist, useWatchlistStatuses: toggle; handleRemove).    *)
LEMMA ClickKeeps ==
  ASSUME WatchlistInv, NEW r \in Races,
         ToggleButton(r) \/ ToggleResult(r) \/ RemoveFromPage(r)
  PROVE  WatchlistInv'
  <1>1. excuses \subseteq {"elsewhere", "overlap", "lost"}
    BY DEF WatchlistInv, CountersOK
  <1>2. r # None
    BY NoneAssumption
  <1>3. CASE ToggleButton(r) \/ ToggleResult(r)
    <2>1. Method(r) \in {"POST", "DELETE"}
      BY DEF Method
    <2>2. screen.kind \in {"button", "results"} /\ screen.watched # None
      BY <1>3 DEF ToggleButton, ToggleResult, Loading, WatchlistInv, ScreenOK
    <2>3. Click(r, Method(r), r)
      BY <1>3 DEF ToggleButton, ToggleResult
    <2>4. QED
      <3> HIDE DEF WatchlistInv
      <3>1. excuses' \subseteq {"elsewhere", "overlap", "lost"}
        BY <1>1, <2>3 DEF Click
      <3>2. QED
        BY <1>2, <2>1, <2>2, <2>3, <3>1, SendKeeps DEF Click
  <1>4. CASE RemoveFromPage(r)
    <2>1. screen.kind = "page" /\ Click(r, "DELETE", None)
      BY <1>4 DEF RemoveFromPage, RaceIdOf
    <2>2. excuses' \subseteq {"elsewhere", "overlap", "lost"}
      BY <1>1, <2>1 DEF Click
    <2>3. QED
      BY <2>1, <2>2, SendKeeps DEF Click
  <1>5. QED
    BY <1>3, <1>4

(* Every step keeps the invariant.                                           *)
LEMMA StepKeeps ==
  ASSUME WatchlistInv, [Next]_vars
  PROVE  WatchlistInv'
  <1>1. ASSUME NEW r \in Races, ShowRace(r) PROVE WatchlistInv'
    <2> DEFINE s == [NoScreen EXCEPT !.kind = "button", !.races = {r}]
    <2>1. s \in ScreenType /\ ~s.timer /\ s.kind = "button"
      BY DEF ScreenType, NoScreen
    <2>2. Show(s, {{r}}) /\ {{r}} \in SUBSET SUBSET Races
      BY <1>1 DEF ShowRace
    <2>3. QED
      <3> HIDE DEF s
      <3>1. QED
        BY <2>1, <2>2, ShowKeeps
  <1>2. ASSUME NEW r \in Races, ToggleButton(r) \/ ToggleResult(r) \/ RemoveFromPage(r)
        PROVE  WatchlistInv'
    BY <1>2, ClickKeeps
  <1>3. ASSUME NEW rs \in SUBSET Races, ShowResults(rs) PROVE WatchlistInv'
    <2> DEFINE s == [NoScreen EXCEPT !.kind = "results", !.races = rs, !.watched = {}]
    <2>1. s \in ScreenType /\ ~s.timer /\ s.watched # None
      BY NoneAssumption DEF ScreenType, NoScreen
    <2>2. Show(s, {rs} \ {{}}) /\ {rs} \ {{}} \in SUBSET SUBSET Races
      BY <1>3 DEF ShowResults
    <2>3. QED
      <3> HIDE DEF s
      <3>1. QED
        BY <2>1, <2>2, ShowKeeps
  <1>4. ASSUME NEW rs \in SUBSET Races, NewResults(rs) PROVE WatchlistInv'
    <2>1. CountersOK' /\ EntriesOK'
      BY <1>4, BoundsAssumption DEF NewResults, WatchlistInv, CountersOK, EntriesOK, WatchedOnce
    <2>2. /\ screen' \in ScreenType /\ screen'.kind = screen.kind
          /\ screen'.timer = screen.timer /\ screen'.watched = screen.watched
      BY <1>4 DEF NewResults, WatchlistInv, ScreenOK, ScreenType
    <2>3. ScreenOK'
      BY <2>2 DEF WatchlistInv, ScreenOK
    <2>4. Sound(Request("screen", "GET", rs), screen')
      BY RequestTyped DEF Sound
    <2>5. requests' \subseteq requests \cup {Request("screen", "GET", rs)}
      BY <1>4 DEF NewResults
    <2>6. RequestsOK'
      BY <2>2, <2>4, <2>5 DEF WatchlistInv, RequestsOK, Sound, CanChange
    <2>7. QED
      BY <2>1, <2>3, <2>6 DEF WatchlistInv
  <1>5. ASSUME ShowWatchlist PROVE WatchlistInv'
    <2> DEFINE s == [NoScreen EXCEPT !.kind = "page", !.races = Races, !.timer = user]
    <2>1. s \in ScreenType /\ s.kind = "page"
      BY DEF ScreenType, NoScreen, WatchlistInv, CountersOK
    <2>2. Show(s, {})
      BY <1>5 DEF ShowWatchlist
    <2>3. QED
      <3> HIDE DEF s
      <3>1. QED
        BY <2>1, <2>2, ShowKeeps
  <1>6. ASSUME NEW r \in Races, NEW op \in {"POST", "DELETE"}, Elsewhere(r, op)
        PROVE  WatchlistInv'
    <2>1. excuses' \subseteq {"elsewhere", "overlap", "lost"} /\ r # None
      BY <1>6, NoneAssumption DEF Elsewhere, WatchlistInv, CountersOK
    <2>2. QED
      BY <1>6, <2>1, SendKeeps DEF Elsewhere
  <1>7. ASSUME PageTimer PROVE WatchlistInv'
    <2>1. screen.kind = "page"
      BY <1>7 DEF PageTimer, WatchlistInv, ScreenOK
    <2>2. CountersOK' /\ EntriesOK'
      BY <1>7 DEF PageTimer, WatchlistInv, CountersOK, EntriesOK, WatchedOnce
    <2>3. screen' \in ScreenType /\ screen'.kind = "page"
      BY <1>7, <2>1 DEF PageTimer, WatchlistInv, ScreenOK, ScreenType
    <2>4. Sound(Request("screen", "GET", Races), screen')
      BY RequestTyped DEF Sound
    <2>5. RequestsOK'
      BY <1>7, <2>1, <2>3, <2>4 DEF PageTimer, WatchlistInv, RequestsOK, Sound, CanChange
    <2>6. QED
      BY <2>2, <2>3, <2>5 DEF WatchlistInv, ScreenOK
  <1>8. ASSUME NEW q \in requests, Find(q) \/ Read(q) PROVE WatchlistInv'
    BY <1>8, LookUpKeeps
  <1>9. ASSUME NEW q \in requests, Insert(q) \/ Delete(q) PROVE WatchlistInv'
    BY <1>9, WriteKeeps
  <1>10. ASSUME NEW q \in requests, ReadAnswer(q) PROVE WatchlistInv'
    <2>1. q.answer \in SUBSET Races
      BY DEF WatchlistInv, RequestsOK, Sound, RequestType
    <2>2. QED
      BY <1>10, <2>1, NoneAssumption, AnsweredKeeps DEF ReadAnswer
  <1>11. ASSUME NEW q \in requests, ReadFails(q) PROVE WatchlistInv'
    BY <1>11, NoneAssumption, AnsweredKeeps DEF ReadFails
  <1>12. ASSUME NEW q \in requests, WriteSucceeds(q) PROVE WatchlistInv'
    <2>1. Flipped(q) \in SUBSET Races /\ Flipped(q) # None
      BY <1>12, FlippedTyped DEF WriteSucceeds
    <2>2. QED
      BY <1>12, <2>1, AnsweredKeeps DEF WriteSucceeds
  <1>13. ASSUME NEW q \in requests, WriteRefused(q) PROVE WatchlistInv'
    <2>1. screen.watched \in (SUBSET Races) \cup {None}
      BY DEF WatchlistInv, ScreenOK, ScreenType
    <2>2. QED
      BY <1>13, <2>1, AnsweredKeeps DEF WriteRefused
  <1>14. ASSUME NEW q \in requests, WriteLost(q) PROVE WatchlistInv'
    <2> DEFINE next == [q EXCEPT !.by = "elsewhere"]
    <2>1. Sound(q, screen)
      BY DEF WatchlistInv, RequestsOK
    <2>2. /\ next \in RequestType /\ next.by = "elsewhere"
          /\ next.op = q.op /\ next.at = q.at /\ next.races = q.races
      BY <2>1 DEF Sound, RequestType
    <2>3. CountersOK' /\ ScreenOK' /\ EntriesOK' /\ screen' = screen /\ Becomes(q, next)
      BY <1>14 DEF WriteLost, WatchlistInv, CountersOK, ScreenOK, EntriesOK, WatchedOnce
    <2>4. RequestsOK'
      <3> HIDE DEF next
      <3>1. Sound(next, screen)
        BY <2>1, <2>2 DEF Sound, NamesOne, NamesNone
      <3>2. QED
        BY <2>3, <3>1, BecomesSound DEF WatchlistInv
    <2>5. QED
      BY <2>3, <2>4 DEF WatchlistInv
  <1>15. CASE UNCHANGED vars
    BY <1>15 DEF vars, WatchlistInv, CountersOK, ScreenOK, RequestsOK, Sound, CanChange,
                 EntriesOK, WatchedOnce
  <1>16. QED
    BY <1>1, <1>2, <1>3, <1>4, <1>5, <1>6, <1>7, <1>8, <1>9, <1>10, <1>11, <1>12, <1>13,
       <1>14, <1>15 DEF Next, User, Served, Ends

(* Nothing is asked for at first, and no screen is up.                       *)
LEMMA InitHolds == Init => WatchlistInv
  <1> SUFFICES ASSUME Init PROVE WatchlistInv
    OBVIOUS
  <1>1. CountersOK /\ ScreenOK /\ RequestsOK
    BY BoundsAssumption DEF Init, CountersOK, ScreenOK, ScreenType, NoScreen, RequestsOK
  <1>2. PICK rs \in SUBSET Races : entries = [race: {r \in rs : user}, id: {0}]
    BY DEF Init
  <1>3. EntriesOK
    BY <1>2 DEF EntriesOK, Entries, WatchedOnce
  <1>4. QED
    BY <1>1, <1>3 DEF WatchlistInv

(* Every reachable state satisfies the invariant.                            *)
THEOREM Invariance == Spec => []WatchlistInv
  <1>1. WatchlistInv /\ [Next]_vars => WatchlistInv'
    BY StepKeeps
  <1>2. QED
    BY InitHolds, <1>1, PTL DEF Spec

(* Every reachable state is well typed (WatchlistController, the hooks and   *)
(* the pages).                                                               *)
THEOREM TypeCorrect == Spec => []TypeOK
  <1>1. WatchlistInv => TypeOK
    BY DEF WatchlistInv, CountersOK, ScreenOK, ScreenType, RequestsOK, Sound, RequestType,
           EntriesOK, Entries, TypeOK
  <1>2. QED
    BY <1>1, Invariance, PTL

(* However POSTs and DELETEs overlap, no race is watched twice               *)
(* (AddWatchlistEntryHandler, the unique key of its table).                  *)
THEOREM NoRaceTwice == Spec => []WatchedOnce
  <1>1. WatchlistInv => WatchedOnce
    BY DEF WatchlistInv, EntriesOK
  <1>2. QED
    BY <1>1, Invariance, PTL

-----------------------------------------------------------------------------
(* What the screen draws.  While nothing excuses a difference, an answer to  *)
(* a read under way is true; whatever writes of a race are under way all     *)
(* want the same; and a race is drawn as it is, but for those whose write is *)
(* done and its answer not yet here: these are as the write wanted them.     *)
OwnReads == {q \in OfScreen : q.op = "GET"}
OwnWrites == {q \in OfScreen : q.op # "GET"}
Done(r) == {q \in OwnWrites : q.races = {r} /\ q.at = "done"}

ReadsTrue ==
  \A q \in OwnReads :
    /\ q.races = screen.races
    /\ q.at = "done" => q.answer = Watched \cap q.races
    /\ \A x \in OwnWrites : x.races = {None}
WriteTrue(q) ==
  /\ screen.kind = "page" => q.races = {None} /\ q.op = "DELETE"
  /\ screen.kind = "button" => q.races = screen.races
  /\ q.at = "absent" => q.op = "POST"
  /\ q.at = "found" => /\ q.op = "DELETE" /\ Found(q) \subseteq q.found
                       /\ \A e \in q.found : e.race \in q.races
WritesTrue ==
  /\ \A q \in OwnWrites : WriteTrue(q)
  /\ \A q, x \in OwnWrites : x.races = q.races => x.op = q.op
ButtonTrue ==
  screen.kind = "button" =>
    /\ \A q, x \in OfScreen : q = x
    /\ screen.watched # None => screen.watched \subseteq screen.races
    /\ \A q \in OwnWrites : q.op = "POST" <=> screen.watched = {}
RaceTrue(r) ==
  /\ Done(r) = {} => (r \in Watched <=> r \in screen.watched)
  /\ \A q \in Done(r) : r \in Watched <=> q.op = "POST"
DrawnTrue ==
  ~screen.timer /\ OwnReads = {} =>
    screen.watched # None /\ \A r \in screen.races : RaceTrue(r)
ShapeTrue ==
  /\ screen.kind = "button" => \E r \in Races : screen.races = {r}
  /\ screen.kind = "page" => screen.races = Races

Calm == user /\ excuses = {} /\ screen.kind # "other"
ScreenTrue == ReadsTrue /\ WritesTrue /\ ButtonTrue /\ DrawnTrue /\ ShapeTrue
HeartsInv == WatchlistInv /\ (Calm => ScreenTrue)

(* A request goes one step on; the others stay (Becomes).                    *)
LEMMA BecomesOwn ==
  ASSUME NEW q \in requests, NEW next, next.by = q.by, Becomes(q, next)
  PROVE  /\ q.by = "screen" => OfScreen' = (OfScreen \ {q}) \cup {next}
         /\ q.by # "screen" => OfScreen' = OfScreen
  BY DEF Becomes, OfScreen, Awaited

(* What the screen does not hear of and does not change, changes nothing.    *)
LEMMA Unheard ==
  ASSUME HeartsInv, OfScreen' = OfScreen, UNCHANGED <<user, screen>>,
         excuses \subseteq excuses', Calm' => entries' = entries
  PROVE  (Calm => ScreenTrue)'
  <1> SUFFICES ASSUME Calm' PROVE ScreenTrue'
    OBVIOUS
  <1>1. Calm /\ entries' = entries
    BY DEF Calm
  <1>2. OwnReads' = OwnReads /\ OwnWrites' = OwnWrites /\ Watched' = Watched
    BY <1>1 DEF OwnReads, OwnWrites, Watched
  <1>3. \A r : Done(r)' = Done(r)
    BY <1>2 DEF Done
  <1>4. \A q : Found(q)' = Found(q)
    BY <1>1 DEF Found
  <1>5. ScreenTrue
    BY <1>1 DEF HeartsInv
  <1>6. ReadsTrue' /\ ShapeTrue'
    BY <1>2, <1>5 DEF ScreenTrue, ReadsTrue, ShapeTrue
  <1>7. WritesTrue'
    BY <1>2, <1>4, <1>5 DEF ScreenTrue, WritesTrue, WriteTrue
  <1>8. ButtonTrue'
    BY <1>2, <1>5 DEF ScreenTrue, ButtonTrue
  <1>9. DrawnTrue'
    BY <1>2, <1>3, <1>5 DEF ScreenTrue, DrawnTrue, RaceTrue
  <1>10. QED
    BY <1>6, <1>7, <1>8, <1>9 DEF ScreenTrue

(* A write of the screen is looked up or made: what it found it will delete, *)
(* and what others found is still theirs to delete.                          *)
LEMMA WriteGoesOn ==
  ASSUME ScreenTrue, NEW q \in OwnWrites, NEW next,
         next.by = "screen", next.op = q.op, next.races = q.races,
         OfScreen' = (OfScreen \ {q}) \cup {next}, screen' = screen,
         next.at = "absent" => q.op = "POST",
         next.at = "found" => /\ q.op = "DELETE" /\ Found(q)' \subseteq next.found
                              /\ \A e \in next.found : e.race \in q.races,
         \A x \in OwnWrites \ {q} : x.at = "found" => Found(x)' \subseteq x.found,
         \A x \in OwnReads : Watched' = Watched,
         DrawnTrue'
  PROVE  ScreenTrue'
  <1>1. OwnReads' = OwnReads /\ OwnWrites' = (OwnWrites \ {q}) \cup {next}
    BY DEF OwnReads, OwnWrites
  <1>2. Found(next)' = Found(q)'
    BY DEF Found
  <1>3. ReadsTrue'
    BY <1>1 DEF ScreenTrue, ReadsTrue
  <1>4. WriteTrue(next)'
    BY <1>2 DEF ScreenTrue, WritesTrue, WriteTrue
  <1>5. \A x \in OwnWrites \ {q} : WriteTrue(x)'
    BY DEF ScreenTrue, WritesTrue, WriteTrue
  <1>6. WritesTrue'
    BY <1>1, <1>4, <1>5 DEF ScreenTrue, WritesTrue
  <1>7. ButtonTrue'
    BY <1>1 DEF ScreenTrue, ButtonTrue, OwnWrites
  <1>8. ShapeTrue'
    BY DEF ScreenTrue, ShapeTrue
  <1>9. QED
    BY <1>3, <1>6, <1>7, <1>8 DEF ScreenTrue

(* The rows are looked up for a write of the screen.                         *)
LEMMA FindTrue ==
  ASSUME HeartsInv, NEW q \in requests, Find(q)
  PROVE  (Calm => ScreenTrue)'
  <1> DEFINE at == IF q.races = {None} THEN "refused"
                   ELSE IF (Found(q) # {}) = (q.op = "POST") THEN "refused"
                   ELSE IF q.op = "POST" THEN "absent" ELSE "found"
             next == [q EXCEPT !.found = Found(q), !.at = at]
  <1>1. q \in RequestType
    BY DEF HeartsInv, WatchlistInv, RequestsOK, Sound
  <1>2. /\ q.op \in {"POST", "DELETE"} /\ q.at = "sent" /\ Becomes(q, next)
        /\ UNCHANGED <<user, entries, screen, excuses>>
    BY DEF Find
  <1>3. /\ next.by = q.by /\ next.op = q.op /\ next.races = q.races
        /\ next.at = at /\ next.found = Found(q)
    <2> HIDE DEF at
    <2>1. QED
      BY <1>1 DEF RequestType
  <1>4. /\ at \in {"refused", "absent", "found"}
        /\ at = "absent" => q.op = "POST"
        /\ at = "found" => q.op = "DELETE"
    BY <1>2
  <1> HIDE DEF next, at
  <1>5. CASE q.by # "screen"
    BY <1>2, <1>3, <1>5, BecomesOwn, Unheard
  <1>6. CASE q.by = "screen"
    <2> SUFFICES ASSUME Calm PROVE ScreenTrue'
      BY <1>2 DEF Calm
    <2>1. ScreenTrue
      BY DEF HeartsInv
    <2>2. OfScreen' = (OfScreen \ {q}) \cup {next}
      BY <1>2, <1>3, <1>6, BecomesOwn
    <2>3. q \in OwnWrites /\ Watched' = Watched /\ \A x : Found(x)' = Found(x)
      BY <1>2, <1>6 DEF OwnWrites, OfScreen, Watched, Found
    <2>4. \A e \in Found(q) : e.race \in q.races
      BY DEF Found
    <2>5. OwnReads' = OwnReads /\ \A r : Done(r)' = Done(r)
      BY <1>2, <1>3, <1>4, <2>2 DEF OwnReads, OwnWrites, Done
    <2>6. DrawnTrue'
      BY <1>2, <2>1, <2>3, <2>5 DEF ScreenTrue, DrawnTrue, RaceTrue
    <2>7. \A x \in OwnWrites \ {q} : x.at = "found" => Found(x)' \subseteq x.found
      BY <2>1, <2>3 DEF ScreenTrue, WritesTrue, WriteTrue
    <2>8. next.by = "screen" /\ screen' = screen
      BY <1>2, <1>3, <1>6
    <2>9. /\ next.at = "absent" => q.op = "POST"
          /\ next.at = "found" => /\ q.op = "DELETE" /\ Found(q)' \subseteq next.found
                                  /\ \A e \in next.found : e.race \in q.races
      BY <1>3, <1>4, <2>3, <2>4
    <2>10. QED
      BY <1>3, <2>1, <2>2, <2>3, <2>6, <2>7, <2>8, <2>9, WriteGoesOn
  <1>7. QED
    BY <1>5, <1>6

(* A write that may change rows names one race, and no read of the screen is *)
(* under way with it.                                                        *)
LEMMA WriteAlone ==
  ASSUME WatchlistInv, ScreenTrue, NEW q \in OwnWrites, q.at \in {"absent", "found", "done"}
  PROVE  /\ OwnReads = {} /\ screen.kind \in {"button", "results"} /\ ~screen.timer
         /\ \E r \in Races : q.races = {r}
  <1>1. Sound(q, screen) /\ q.by = "screen" /\ q.op # "GET"
    BY DEF WatchlistInv, RequestsOK, OwnWrites, OfScreen
  <1>2. ~NamesNone(q)
    BY DEF NamesNone
  <1>3. PICK r \in Races : q.races = {r}
    BY <1>1, <1>2 DEF Sound, NamesOne
  <1>4. q.races # {None}
    BY <1>3, NoneAssumption
  <1>5. OwnReads = {}
    BY <1>4 DEF ScreenTrue, ReadsTrue
  <1>6. screen.kind \in {"button", "results"}
    BY <1>1, <1>2 DEF Sound, CanChange
  <1>7. ~screen.timer
    BY <1>6 DEF WatchlistInv, ScreenOK
  <1>8. QED
    BY <1>3, <1>5, <1>6, <1>7

(* The rows of the race change, or the entry was there: the race is then as  *)
(* the write wanted it (AddWatchlistEntryHandler, remove).                   *)
LEMMA ChangeTrue ==
  ASSUME HeartsInv, NEW q \in requests, Insert(q) \/ Delete(q)
  PROVE  (Calm => ScreenTrue)'
  <1> DEFINE at == IF Insert(q) /\ Found(q) # {} THEN "refused" ELSE "done"
             next == [q EXCEPT !.at = at]
  <1>1. q \in RequestType /\ Sound(q, screen)
    BY DEF HeartsInv, WatchlistInv, RequestsOK, Sound
  <1>2. Becomes(q, next) /\ q.at \in {"absent", "found"} /\ UNCHANGED <<user, screen>> /\ Changed(q)
    <2>1. CASE Insert(q)
      BY <2>1 DEF Insert
    <2>2. CASE Delete(q) /\ ~Insert(q)
      BY <2>2 DEF Delete
    <2>3. QED
      BY <2>1, <2>2
  <1>3. at \in {"refused", "done"}
    OBVIOUS
  <1>4. /\ next.by = q.by /\ next.op = q.op /\ next.races = q.races /\ next.at = at
    <2> HIDE DEF at
    <2>1. QED
      BY <1>1 DEF RequestType
  <1> HIDE DEF next
  <1>5. CASE q.by # "screen"
    <2>1. excuses \subseteq excuses' /\ (excuses' = {} => entries' = entries)
      BY <1>2, <1>5 DEF Changed
    <2>2. QED
      BY <1>2, <1>4, <1>5, <2>1, BecomesOwn, Unheard DEF Calm
  <1>6. CASE q.by = "screen"
    <2> SUFFICES ASSUME Calm' PROVE ScreenTrue'
      OBVIOUS
    <2>1. ScreenTrue
      BY <1>2 DEF HeartsInv, Calm, Changed
    <2>2. OfScreen' = (OfScreen \ {q}) \cup {next}
      BY <1>2, <1>4, <1>6, BecomesOwn
    <2>3. q.op # "GET" /\ q \in OwnWrites
      <3>1. q.op # "GET"
        BY <1>1, <1>2 DEF Sound
      <3>2. QED
        BY <1>6, <3>1 DEF OwnWrites, OfScreen
    <2>4. PICK r \in Races : q.races = {r}
      BY <1>2, <2>1, <2>3, WriteAlone DEF HeartsInv
    <2>5. OwnReads = {} /\ OwnReads' = {}
      BY <1>2, <1>4, <2>1, <2>2, <2>3, WriteAlone DEF HeartsInv, OwnReads
    <2>6. WriteTrue(q) /\ \A x \in OwnWrites : x.races = {r} => x.op = q.op
      BY <2>1, <2>3, <2>4 DEF ScreenTrue, WritesTrue
    <2>7. OwnWrites' = (OwnWrites \ {q}) \cup {next}
      BY <1>4, <2>2, <2>3 DEF OwnWrites
    <2>8. \A s \in Races : s # r => Done(s)' = Done(s) /\ (s \in Watched' <=> s \in Watched)
      <3>1. \A s \in Races : s # r => Done(s)' = Done(s)
        BY <1>2, <1>4, <2>4, <2>7 DEF Done
      <3>2. CASE Insert(q)
        <4>1. \A e \in [race: q.races, id: {q.id}] : e.race = r
          BY <2>4
        <4>2. entries' \in {entries, entries \cup [race: q.races, id: {q.id}]}
          BY <3>2 DEF Insert
        <4>3. QED
          BY <3>1, <4>1, <4>2 DEF Watched
      <3>3. CASE Delete(q)
        <4>1. \A e \in q.found : e.race = r
          BY <2>4, <2>6, <3>3 DEF Delete, WriteTrue
        <4>2. entries' = entries \ q.found
          BY <3>3 DEF Delete
        <4>3. QED
          BY <3>1, <4>1, <4>2 DEF Watched
      <3>4. QED
        BY <3>2, <3>3
    <2>9. at = "done" => (r \in Watched' <=> q.op = "POST")
      <3>1. CASE Insert(q) /\ Found(q) = {}
        <4>1. [race |-> r, id |-> q.id] \in entries'
          BY <2>4, <3>1 DEF Insert
        <4>2. q.op = "POST"
          BY <2>6, <3>1 DEF WriteTrue, Insert
        <4>3. QED
          BY <4>1, <4>2 DEF Watched
      <3>2. CASE Delete(q)
        <4>1. q.op = "DELETE" /\ Found(q) \subseteq q.found /\ entries' = entries \ q.found
          BY <2>6, <3>2 DEF Delete, WriteTrue
        <4>2. r \notin Watched'
          BY <2>4, <4>1 DEF Watched, Found
        <4>3. QED
          BY <4>1, <4>2
      <3>3. QED
        BY <3>1, <3>2
    <2>10. at = "refused" => Watched' = Watched /\ \A s : Done(s)' = Done(s)
      <3> SUFFICES ASSUME at = "refused"
                   PROVE  Watched' = Watched /\ \A s : Done(s)' = Done(s)
        OBVIOUS
      <3>1. entries' = entries
        BY DEF Insert
      <3>2. \A s : Done(s)' = Done(s)
        BY <1>2, <1>4, <2>7 DEF Done
      <3>3. QED
        BY <3>1, <3>2 DEF Watched
    <2>11. at = "done" => Done(r)' # {} /\ \A x \in Done(r)' : x.op = q.op
      BY <1>4, <2>4, <2>6, <2>7 DEF Done
    <2>12. DrawnTrue'
      <3>1. ~screen.timer /\ screen' = screen
        BY <1>2, <2>1, <2>3, WriteAlone DEF HeartsInv
      <3>2. screen.watched # None /\ \A s \in screen.races : RaceTrue(s)
        BY <2>1, <2>5, <3>1 DEF ScreenTrue, DrawnTrue
      <3>3. screen.races \subseteq Races
        BY DEF HeartsInv, WatchlistInv, ScreenOK, ScreenType
      <3>4. ASSUME NEW s \in screen.races PROVE RaceTrue(s)'
        <4>1. CASE s # r
          BY <2>8, <3>1, <3>2, <3>3, <4>1 DEF RaceTrue
        <4>2. CASE s = r /\ at = "refused"
          BY <2>10, <3>1, <3>2, <4>2 DEF RaceTrue
        <4>3. CASE s = r /\ at = "done"
          BY <2>9, <2>11, <4>3 DEF RaceTrue
        <4>4. QED
          BY <1>3, <4>1, <4>2, <4>3
      <3>5. QED
        BY <3>1, <3>2, <3>4 DEF DrawnTrue
    <2>13. \A x \in OwnWrites \ {q} : x.at = "found" => Found(x)' \subseteq x.found
      <3> SUFFICES ASSUME NEW x \in OwnWrites, x.at = "found"
                   PROVE  Found(x)' \subseteq x.found
        OBVIOUS
      <3>1. x.op = "DELETE" /\ Found(x) \subseteq x.found
        BY <2>1 DEF ScreenTrue, WritesTrue, WriteTrue
      <3>2. CASE entries' \subseteq entries
        BY <3>1, <3>2 DEF Found
      <3>3. CASE Insert(q)
        <4>1. q.op = "POST"
          BY <2>6, <3>3 DEF Insert, WriteTrue
        <4>2. PICK s \in Races : x.races = {s}
          BY <2>1, WriteAlone DEF HeartsInv
        <4>3. s # r
          BY <2>6, <3>1, <4>1, <4>2
        <4>4. \A e \in [race: q.races, id: {q.id}] : e.race = r
          BY <2>4
        <4>5. entries' \in {entries, entries \cup [race: q.races, id: {q.id}]}
          BY <3>3 DEF Insert
        <4>6. QED
          BY <3>1, <4>2, <4>3, <4>4, <4>5 DEF Found
      <3>4. QED
        BY <3>2, <3>3 DEF Delete
    <2>14. next.by = "screen" /\ next.at # "absent" /\ next.at # "found"
      BY <1>3, <1>4, <1>6
    <2>15. QED
      BY <1>2, <1>4, <2>1, <2>2, <2>3, <2>5, <2>12, <2>13, <2>14, WriteGoesOn
  <1>7. QED
    BY <1>5, <1>6

(* A read of the screen is answered as the rows are (check, the list).       *)
LEMMA ReadTrue ==
  ASSUME HeartsInv, NEW q \in requests, Read(q)
  PROVE  (Calm => ScreenTrue)'
  <1> DEFINE next == [q EXCEPT !.answer = Watched \cap q.races, !.at = "done"]
  <1>1. q \in RequestType
    BY DEF HeartsInv, WatchlistInv, RequestsOK, Sound
  <1>2. q.op = "GET" /\ Becomes(q, next) /\ UNCHANGED <<user, entries, screen, excuses>>
    BY DEF Read
  <1>3. /\ next.by = q.by /\ next.op = "GET" /\ next.races = q.races
        /\ next.answer = Watched \cap q.races
    BY <1>1, <1>2 DEF RequestType
  <1> HIDE DEF next
  <1>4. CASE q.by # "screen"
    BY <1>2, <1>3, <1>4, BecomesOwn, Unheard
  <1>5. CASE q.by = "screen"
    <2> SUFFICES ASSUME Calm PROVE ScreenTrue'
      BY <1>2 DEF Calm
    <2>1. ScreenTrue
      BY DEF HeartsInv
    <2>2. OfScreen' = (OfScreen \ {q}) \cup {next}
      BY <1>2, <1>3, <1>5, BecomesOwn
    <2>3. /\ q \in OwnReads /\ OwnReads' = (OwnReads \ {q}) \cup {next}
          /\ OwnWrites' = OwnWrites
      BY <1>2, <1>3, <1>5, <2>2 DEF OwnReads, OwnWrites, OfScreen
    <2>4. Watched' = Watched /\ \A x : Found(x)' = Found(x)
      BY <1>2 DEF Watched, Found
    <2>5. ReadsTrue'
      BY <1>2, <1>3, <2>1, <2>3, <2>4 DEF ScreenTrue, ReadsTrue
    <2>6. WritesTrue'
      BY <1>2, <2>1, <2>3, <2>4 DEF ScreenTrue, WritesTrue, WriteTrue
    <2>7. ButtonTrue'
      BY <1>2, <2>1, <2>2, <2>3 DEF ScreenTrue, ButtonTrue, OwnReads
    <2>8. DrawnTrue' /\ ShapeTrue'
      BY <1>2, <2>1, <2>3 DEF ScreenTrue, DrawnTrue, ShapeTrue
    <2>9. QED
      BY <2>5, <2>6, <2>7, <2>8 DEF ScreenTrue
  <1>6. QED
    BY <1>4, <1>5

(* An answer ends a request of the screen: the others stay, the rows too, and*)
(* what is drawn afterwards has to be true.                                  *)
LEMMA AnswerTrue ==
  ASSUME HeartsInv, Calm, NEW q \in OfScreen, NEW watched, Answered(q, watched),
         screen.kind = "button" => watched \subseteq screen.races /\ OfScreen' = {},
         DrawnTrue'
  PROVE  ScreenTrue'
  <1>1. ScreenTrue /\ screen \in ScreenType
    BY DEF HeartsInv, WatchlistInv, ScreenOK
  <1>2. /\ screen'.kind = screen.kind /\ screen'.races = screen.races
        /\ screen'.timer = screen.timer /\ screen'.watched = watched
    BY <1>1 DEF Answered, ScreenType
  <1>3. OfScreen' = OfScreen \ {q} /\ Watched' = Watched /\ \A x : Found(x)' = Found(x)
    BY DEF Answered, OfScreen, Watched, Found
  <1>4. OwnReads' \subseteq OwnReads /\ OwnWrites' \subseteq OwnWrites
    BY <1>3 DEF OwnReads, OwnWrites
  <1>5. ReadsTrue'
    BY <1>1, <1>2, <1>3, <1>4 DEF ScreenTrue, ReadsTrue
  <1>6. WritesTrue'
    BY <1>1, <1>2, <1>3, <1>4 DEF ScreenTrue, WritesTrue, WriteTrue
  <1>7. ButtonTrue' /\ ShapeTrue'
    BY <1>1, <1>2 DEF ScreenTrue, ButtonTrue, ShapeTrue, OwnWrites
  <1>8. QED
    BY <1>5, <1>6, <1>7 DEF ScreenTrue

(* The answer to a read is what the rows are, as no write can have changed   *)
(* them since (setWatched, setWatchedIds, setEntries).                       *)
LEMMA ReadAnswerTrue ==
  ASSUME HeartsInv, NEW q \in requests, ReadAnswer(q)
  PROVE  (Calm => ScreenTrue)'
  <1>1. UNCHANGED <<user, entries, excuses>> /\ Answered(q, q.answer)
    BY DEF ReadAnswer, Answered
  <1>2. screen \in ScreenType
    BY DEF HeartsInv, WatchlistInv, ScreenOK
  <1>3. /\ screen'.kind = screen.kind /\ screen'.races = screen.races
        /\ screen'.timer = screen.timer /\ screen'.watched = q.answer
    BY <1>1, <1>2 DEF Answered, ScreenType
  <1> SUFFICES ASSUME Calm PROVE ScreenTrue'
    BY <1>1, <1>3 DEF Calm
  <1>4. ScreenTrue /\ q \in OwnReads /\ q \in OfScreen
    BY DEF HeartsInv, ReadAnswer, OwnReads, OfScreen
  <1>5. q.answer = Watched \cap screen.races
    BY <1>4 DEF ScreenTrue, ReadsTrue, ReadAnswer
  <1>6. OfScreen' = OfScreen \ {q} /\ Watched' = Watched
    BY <1>1 DEF Answered, OfScreen, Watched
  <1>7. \A r \in Races : Done(r)' = {}
    <2>1. \A x \in OwnWrites : x.races = {None}
      BY <1>4 DEF ScreenTrue, ReadsTrue
    <2>2. OwnWrites' \subseteq OwnWrites
      BY <1>6 DEF OwnWrites
    <2>3. QED
      BY <2>1, <2>2, NoneAssumption DEF Done
  <1>8. DrawnTrue'
    <2>1. screen.races \subseteq Races /\ q.answer \subseteq Races
      BY <1>2, <1>5 DEF ScreenType
    <2>2. q.answer # None
      BY <2>1, NoneAssumption
    <2>3. QED
      BY <1>3, <1>5, <1>6, <1>7, <2>1, <2>2 DEF DrawnTrue, RaceTrue
  <1>9. screen.kind = "button" => OfScreen' = {}
    BY <1>4, <1>6 DEF ScreenTrue, ButtonTrue
  <1>10. QED
    BY <1>1, <1>4, <1>5, <1>8, <1>9, AnswerTrue

(* The heart turns to what the write has made of its race (toggle).          *)
LEMMA WriteSucceedsTrue ==
  ASSUME HeartsInv, NEW q \in requests, WriteSucceeds(q)
  PROVE  (Calm => ScreenTrue)'
  <1>1. UNCHANGED <<user, entries, excuses>> /\ Answered(q, Flipped(q))
    BY DEF WriteSucceeds, Answered
  <1>2. screen \in ScreenType
    BY DEF HeartsInv, WatchlistInv, ScreenOK
  <1>3. /\ screen'.kind = screen.kind /\ screen'.races = screen.races
        /\ screen'.timer = screen.timer /\ screen'.watched = Flipped(q)
    BY <1>1, <1>2 DEF Answered, ScreenType
  <1> SUFFICES ASSUME Calm PROVE ScreenTrue'
    BY <1>1, <1>3 DEF Calm
  <1>4. ScreenTrue /\ q \in OwnWrites /\ q \in OfScreen /\ q.at = "done"
    BY DEF HeartsInv, WriteSucceeds, OwnWrites, OfScreen
  <1>5. OwnReads = {} /\ screen.kind \in {"button", "results"} /\ ~screen.timer
    BY <1>4, WriteAlone DEF HeartsInv
  <1>6. PICK r \in Races : q.races = {r}
    BY <1>4, WriteAlone DEF HeartsInv
  <1>7. OfScreen' = OfScreen \ {q} /\ Watched' = Watched
    BY <1>1 DEF Answered, OfScreen, Watched
  <1>8. q \in Done(r) /\ \A s \in Races : Done(s)' = Done(s) \ {q}
    BY <1>4, <1>6, <1>7 DEF Done, OwnWrites
  <1>9. screen.watched # None /\ \A s \in screen.races : RaceTrue(s)
    BY <1>4, <1>5 DEF ScreenTrue, DrawnTrue
  <1>10. Flipped(q) # None /\ screen.races \subseteq Races
    BY <1>2, <1>4, FlippedTyped DEF HeartsInv, WriteSucceeds, ScreenType
  <1>11. CASE screen.kind = "button"
    <2>1. screen.races = {r} /\ OfScreen' = {}
      BY <1>4, <1>6, <1>7, <1>11 DEF ScreenTrue, WritesTrue, WriteTrue, ButtonTrue
    <2>2. r \in Watched <=> screen.watched = {}
      BY <1>4, <1>8, <1>9, <1>11, <2>1 DEF RaceTrue, ScreenTrue, ButtonTrue
    <2>3. Flipped(q) = IF screen.watched = {} THEN {r} ELSE {}
      BY <1>6, <1>11 DEF Flipped
    <2>4. Done(r)' = {}
      BY <2>1 DEF Done, OwnWrites
    <2>5. DrawnTrue'
      BY <1>3, <1>7, <1>10, <2>1, <2>2, <2>3, <2>4 DEF DrawnTrue, RaceTrue
    <2>6. QED
      BY <1>1, <1>4, <2>1, <2>3, <2>5, AnswerTrue
  <1>12. CASE screen.kind = "results"
    <2>1. Flipped(q) = IF q.op = "DELETE" THEN screen.watched \ {r} ELSE screen.watched \cup {r}
      BY <1>6, <1>12 DEF Flipped
    <2>2. ASSUME NEW s \in screen.races PROVE RaceTrue(s)'
      <3>1. CASE s # r
        <4>1. Done(s)' = Done(s)
          BY <1>6, <1>8, <1>10, <3>1 DEF Done
        <4>2. QED
          BY <1>3, <1>7, <1>9, <2>1, <3>1, <4>1 DEF RaceTrue
      <3>2. CASE s = r
        <4>1. r \in Watched <=> q.op = "POST"
          BY <1>8, <1>9, <3>2 DEF RaceTrue
        <4>2. q.op \in {"POST", "DELETE"}
          BY <1>4 DEF HeartsInv, WatchlistInv, RequestsOK, Sound, RequestType, OwnWrites, OfScreen
        <4>3. r \in Watched <=> r \in Flipped(q)
          BY <2>1, <4>1, <4>2
        <4>4. \A x \in Done(r)' : r \in Watched <=> x.op = "POST"
          BY <1>8, <1>9, <3>2 DEF RaceTrue
        <4>5. QED
          BY <1>3, <1>7, <3>2, <4>3, <4>4 DEF RaceTrue
      <3>3. QED
        BY <3>1, <3>2
    <2>3. DrawnTrue'
      BY <1>3, <1>10, <2>2 DEF DrawnTrue
    <2>4. QED
      BY <1>1, <1>4, <1>12, <2>3, AnswerTrue
  <1>13. QED
    BY <1>5, <1>11, <1>12

(* A write refused found its race as it wanted it, and the heart stays.      *)
LEMMA WriteRefusedTrue ==
  ASSUME HeartsInv, NEW q \in requests, WriteRefused(q)
  PROVE  (Calm => ScreenTrue)'
  <1>1. UNCHANGED <<user, entries, excuses>> /\ Answered(q, screen.watched)
    BY DEF WriteRefused, Answered
  <1>2. screen' = screen
    BY <1>1 DEF Answered, HeartsInv, WatchlistInv, ScreenOK, ScreenType
  <1> SUFFICES ASSUME Calm PROVE ScreenTrue'
    BY <1>1, <1>2 DEF Calm
  <1>3. ScreenTrue /\ q \in OwnWrites /\ q \in OfScreen /\ q.at = "refused"
    BY DEF HeartsInv, WriteRefused, OwnWrites, OfScreen
  <1>4. OfScreen' = OfScreen \ {q} /\ Watched' = Watched
    BY <1>1 DEF Answered, OfScreen, Watched
  <1>5. OwnReads' = OwnReads /\ \A r : Done(r)' = Done(r)
    BY <1>3, <1>4 DEF OwnReads, OwnWrites, Done
  <1>6. DrawnTrue'
    BY <1>2, <1>3, <1>4, <1>5 DEF ScreenTrue, DrawnTrue, RaceTrue
  <1>7. screen.kind = "button" => OfScreen' = {} /\ screen.watched \subseteq screen.races
    <2>1. screen.kind = "button" => OfScreen' = {}
      BY <1>3, <1>4 DEF ScreenTrue, ButtonTrue
    <2>2. screen.kind = "button" => screen.watched # None
      BY <1>3 DEF HeartsInv, WatchlistInv, RequestsOK, Sound, CanChange, OwnWrites, OfScreen
    <2>3. QED
      BY <1>3, <2>1, <2>2 DEF ScreenTrue, ButtonTrue
  <1>8. QED
    BY <1>1, <1>3, <1>6, <1>7, AnswerTrue

(* A screen that is opened hears of nothing but its own reads (effects).     *)
LEMMA ShowTrue ==
  ASSUME HeartsInv, NEW s \in ScreenType, NEW asks \in SUBSET SUBSET Races, Show(s, asks),
         asks \subseteq {s.races}, s.kind \in {"button", "results", "page"},
         user /\ asks = {} => \/ s.timer
                              \/ s.kind = "results" /\ s.races = {} /\ s.watched # None,
         s.kind = "button" => s.watched = None /\ \E r \in Races : s.races = {r},
         s.kind = "page" => s.races = Races
  PROVE  (Calm => ScreenTrue)'
  <1> SUFFICES ASSUME Calm' PROVE ScreenTrue'
    OBVIOUS
  <1>1. user /\ user' = user /\ screen' = s
    BY DEF Calm, Show
  <1>2. requests' = LeftBehind \cup {Request("screen", "GET", a) : a \in asks}
    BY <1>1 DEF Show
  <1>3. \A q \in LeftBehind : q.by # "screen"
    <2> SUFFICES ASSUME NEW q \in LeftBehind PROVE q.by # "screen"
      OBVIOUS
    <2>1. PICK x \in requests : q = [x EXCEPT !.by = "elsewhere"]
      BY DEF LeftBehind
    <2>2. x \in RequestType
      BY DEF HeartsInv, WatchlistInv, RequestsOK, Sound
    <2>3. QED
      BY <2>1, <2>2 DEF RequestType
  <1>4. \A a \in asks : /\ Request("screen", "GET", a).by = "screen"
                        /\ Request("screen", "GET", a).op = "GET"
                        /\ Request("screen", "GET", a).races = a
                        /\ Request("screen", "GET", a).at = "sent"
    BY DEF Request
  <1>5. OfScreen' = {Request("screen", "GET", a) : a \in asks}
    BY <1>2, <1>3, <1>4 DEF OfScreen
  <1>6. OwnWrites' = {} /\ OwnReads' = {Request("screen", "GET", a) : a \in asks}
    BY <1>4, <1>5 DEF OwnWrites, OwnReads
  <1>7. ReadsTrue' /\ WritesTrue' /\ ShapeTrue'
    BY <1>1, <1>4, <1>6 DEF ReadsTrue, WritesTrue, ShapeTrue
  <1>8. \A q, x \in OfScreen' : q = x
    BY <1>5
  <1>9. ButtonTrue'
    BY <1>1, <1>6, <1>8 DEF ButtonTrue
  <1>10. DrawnTrue'
    BY <1>1, <1>6 DEF DrawnTrue
  <1>11. QED
    BY <1>7, <1>9, <1>10 DEF ScreenTrue

(* Other results: no write is under way, and the read before is not awaited. *)
LEMMA NewResultsTrue ==
  ASSUME HeartsInv, NEW rs \in SUBSET Races, NewResults(rs)
  PROVE  (Calm => ScreenTrue)'
  <1> SUFFICES ASSUME Calm' PROVE ScreenTrue'
    OBVIOUS
  <1> DEFINE read == Request("screen", "GET", rs)
  <1>1. /\ user /\ \A q \in OfScreen : q.op = "GET"
        /\ screen.kind = "results" /\ screen.watched # None /\ screen \in ScreenType
    BY DEF Calm, NewResults, HeartsInv, WatchlistInv, ScreenOK
  <1>2. /\ screen'.kind = "results" /\ screen'.races = rs /\ screen'.watched = screen.watched
    BY <1>1 DEF NewResults, ScreenType
  <1>3. read.by = "screen" /\ read.op = "GET" /\ read.races = rs /\ read.at = "sent"
    BY DEF Request
  <1> HIDE DEF read
  <1>4. OfScreen' = IF rs = {} THEN {} ELSE {read}
    BY <1>1, <1>3 DEF NewResults, OfScreen, read
  <1>5. OwnWrites' = {} /\ OwnReads' = OfScreen'
    BY <1>3, <1>4 DEF OwnWrites, OwnReads
  <1>6. ReadsTrue' /\ WritesTrue' /\ ButtonTrue' /\ ShapeTrue'
    BY <1>2, <1>3, <1>4, <1>5 DEF ReadsTrue, WritesTrue, ButtonTrue, ShapeTrue
  <1>7. DrawnTrue'
    BY <1>1, <1>2, <1>4, <1>5 DEF DrawnTrue
  <1>8. QED
    BY <1>6, <1>7 DEF ScreenTrue

(* The page asks for its entries; its writes name no race and change none.   *)
LEMMA PageTimerTrue ==
  ASSUME HeartsInv, PageTimer
  PROVE  (Calm => ScreenTrue)'
  <1> DEFINE read == Request("screen", "GET", Races)
  <1>1. screen \in ScreenType /\ screen.kind = "page"
    BY DEF PageTimer, HeartsInv, WatchlistInv, ScreenOK
  <1>2. screen'.kind = "page" /\ screen'.races = screen.races
    BY <1>1 DEF PageTimer, ScreenType
  <1> SUFFICES ASSUME Calm PROVE ScreenTrue'
    BY <1>1, <1>2 DEF Calm, PageTimer
  <1>3. ScreenTrue
    BY DEF HeartsInv
  <1>4. read.by = "screen" /\ read.op = "GET" /\ read.races = Races /\ read.at = "sent"
    BY DEF Request
  <1> HIDE DEF read
  <1>5. OfScreen' = OfScreen \cup {read} /\ Watched' = Watched /\ \A x : Found(x)' = Found(x)
    BY <1>4 DEF PageTimer, OfScreen, Watched, Found, read
  <1>6. OwnReads' = OwnReads \cup {read} /\ OwnWrites' = OwnWrites
    BY <1>4, <1>5 DEF OwnReads, OwnWrites
  <1>7. \A x \in OwnWrites : x.races = {None}
    BY <1>1, <1>3 DEF ScreenTrue, WritesTrue, WriteTrue
  <1>8. ReadsTrue'
    BY <1>1, <1>2, <1>3, <1>4, <1>5, <1>6, <1>7 DEF ScreenTrue, ReadsTrue, ShapeTrue
  <1>9. WritesTrue'
    BY <1>1, <1>2, <1>3, <1>5, <1>6 DEF ScreenTrue, WritesTrue, WriteTrue
  <1>10. ButtonTrue' /\ DrawnTrue' /\ ShapeTrue'
    BY <1>1, <1>2, <1>3, <1>6 DEF ScreenTrue, ButtonTrue, DrawnTrue, ShapeTrue
  <1>11. QED
    BY <1>8, <1>9, <1>10 DEF ScreenTrue

(* A click that meets nothing it would have to be excused by asks for the    *)
(* opposite of what is drawn, as all requests of its race under way do.      *)
LEMMA ClickTrue ==
  ASSUME HeartsInv, NEW r \in Races, NEW op \in {"POST", "DELETE"}, NEW asks,
         Click(r, op, asks),
         screen.kind = "page" => asks = None /\ op = "DELETE",
         screen.kind = "button" => screen.races = {r} /\ screen.watched # None,
         screen.kind # "page" => asks = r /\ op = Method(r)
  PROVE  (Calm => ScreenTrue)'
  <1> SUFFICES ASSUME Calm' PROVE ScreenTrue'
    OBVIOUS
  <1>1. PICK write : write = Request("screen", op, {asks})
    OBVIOUS
  <1>2. Calm /\ ~Overlaps(r, op) /\ UNCHANGED <<entries, screen>>
    BY DEF Calm, Click
  <1>3. ScreenTrue
    BY <1>2 DEF HeartsInv
  <1>4. write.by = "screen" /\ write.op = op /\ write.races = {asks} /\ write.at = "sent"
    BY <1>1 DEF Request
  <1>5. OfScreen' = OfScreen \cup {write}
    BY <1>1, <1>4 DEF Click, OfScreen
  <1>6. OwnReads = {} /\ OwnReads' = {} /\ OwnWrites' = OwnWrites \cup {write}
    BY <1>2, <1>4, <1>5 DEF OwnReads, OwnWrites, Overlaps
  <1>7. Watched' = Watched /\ (\A x : Found(x)' = Found(x)) /\ \A s : Done(s)' = Done(s)
    BY <1>2, <1>4, <1>6 DEF Watched, Found, Done
  <1>8. ReadsTrue' /\ ShapeTrue'
    BY <1>2, <1>3, <1>6 DEF ScreenTrue, ReadsTrue, ShapeTrue
  <1>9. DrawnTrue'
    BY <1>2, <1>3, <1>6, <1>7 DEF ScreenTrue, DrawnTrue, RaceTrue
  <1>10. screen.kind = "button" => OfScreen = {}
    BY <1>2 DEF Overlaps
  <1>11. WriteTrue(write)'
    BY <1>2, <1>4 DEF WriteTrue
  <1>12. \A x \in OwnWrites : WriteTrue(x)'
    BY <1>2, <1>3, <1>7 DEF ScreenTrue, WritesTrue, WriteTrue
  <1>13. \A x \in OwnWrites : x.races = {asks} => x.op = op
    <2>1. CASE screen.kind = "page"
      BY <1>3, <2>1 DEF ScreenTrue, WritesTrue, WriteTrue
    <2>2. CASE screen.kind = "results"
      BY <1>2, <2>2 DEF Overlaps, OwnWrites
    <2>3. CASE screen.kind = "button"
      BY <1>10, <2>3 DEF OwnWrites
    <2>4. QED
      BY <1>2, <2>1, <2>2, <2>3 DEF Calm, HeartsInv, WatchlistInv, ScreenOK, ScreenType
  <1>14. WritesTrue'
    BY <1>3, <1>4, <1>6, <1>11, <1>12, <1>13 DEF ScreenTrue, WritesTrue
  <1>15. ButtonTrue'
    <2> SUFFICES ASSUME screen.kind = "button" PROVE ButtonTrue'
      BY <1>2 DEF ButtonTrue
    <2>1. OfScreen' = {write} /\ OwnWrites' = {write}
      BY <1>5, <1>6, <1>10 DEF OwnWrites
    <2>2. screen.watched \subseteq {r} /\ screen.races = {r}
      BY <1>3 DEF ScreenTrue, ButtonTrue
    <2>3. r \in Hearts <=> screen.watched = {r}
      BY <2>2 DEF Hearts
    <2>4. op = "POST" <=> screen.watched = {}
      BY <2>2, <2>3 DEF Method
    <2>5. QED
      BY <1>2, <1>4, <2>1, <2>2, <2>4 DEF ButtonTrue
  <1>16. QED
    BY <1>8, <1>9, <1>14, <1>15 DEF ScreenTrue

(* The clicks (useWatchlist, useWatchlistStatuses: toggle; handleRemove).    *)
LEMMA ClicksTrue ==
  ASSUME HeartsInv, NEW r \in Races,
         ToggleButton(r) \/ ToggleResult(r) \/ RemoveFromPage(r)
  PROVE  (Calm => ScreenTrue)'
  <1>1. Method(r) \in {"POST", "DELETE"}
    BY DEF Method
  <1>2. CASE ToggleButton(r)
    <2>1. /\ Click(r, Method(r), r) /\ screen.kind = "button" /\ screen.races = {r}
          /\ screen.watched # None
      BY <1>2 DEF ToggleButton, Loading
    <2>2. QED
      BY <1>1, <2>1, ClickTrue
  <1>3. CASE ToggleResult(r)
    <2>1. Click(r, Method(r), r) /\ screen.kind = "results"
      BY <1>3 DEF ToggleResult
    <2>2. QED
      BY <1>1, <2>1, ClickTrue
  <1>4. CASE RemoveFromPage(r)
    <2>1. Click(r, "DELETE", None) /\ screen.kind = "page"
      BY <1>4 DEF RemoveFromPage, RaceIdOf
    <2>2. QED
      BY <2>1, ClickTrue
  <1>5. QED
    BY <1>2, <1>3, <1>4

(* Every step keeps what the screen draws true.                              *)
LEMMA HeartsStep ==
  ASSUME HeartsInv, [Next]_vars
  PROVE  HeartsInv'
  <1> SUFFICES (Calm => ScreenTrue)'
    BY StepKeeps DEF HeartsInv
  <1>1. ASSUME NEW r \in Races, ShowRace(r) PROVE (Calm => ScreenTrue)'
    <2> DEFINE s == [NoScreen EXCEPT !.kind = "button", !.races = {r}]
    <2>1. s \in ScreenType /\ s.kind = "button" /\ s.races = {r} /\ s.watched = None
      BY DEF ScreenType, NoScreen
    <2>2. Show(s, {{r}}) /\ {{r}} \in SUBSET SUBSET Races
      BY <1>1 DEF ShowRace
    <2> HIDE DEF s
    <2>3. QED
      BY <2>1, <2>2, ShowTrue
  <1>2. ASSUME NEW rs \in SUBSET Races, ShowResults(rs) PROVE (Calm => ScreenTrue)'
    <2> DEFINE s == [NoScreen EXCEPT !.kind = "results", !.races = rs, !.watched = {}]
    <2>1. s \in ScreenType /\ s.kind = "results" /\ s.races = rs /\ s.watched # None
      BY NoneAssumption DEF ScreenType, NoScreen
    <2>2. Show(s, {rs} \ {{}}) /\ {rs} \ {{}} \in SUBSET SUBSET Races
      BY <1>2 DEF ShowResults
    <2> HIDE DEF s
    <2>3. QED
      BY <2>1, <2>2, ShowTrue
  <1>3. ASSUME ShowWatchlist PROVE (Calm => ScreenTrue)'
    <2> DEFINE s == [NoScreen EXCEPT !.kind = "page", !.races = Races, !.timer = user]
    <2>1. s \in ScreenType /\ s.kind = "page" /\ s.races = Races /\ s.timer = user
      BY DEF ScreenType, NoScreen, HeartsInv, WatchlistInv, CountersOK
    <2>2. Show(s, {})
      BY <1>3 DEF ShowWatchlist
    <2> HIDE DEF s
    <2>3. QED
      BY <2>1, <2>2, ShowTrue
  <1>4. ASSUME NEW r \in Races, NEW op \in {"POST", "DELETE"}, Elsewhere(r, op)
        PROVE  (Calm => ScreenTrue)'
    <2>1. OfScreen' = OfScreen
      BY <1>4 DEF Elsewhere, OfScreen, Request
    <2>2. QED
      BY <1>4, <2>1, Unheard DEF Elsewhere
  <1>5. ASSUME NEW q \in requests, ReadFails(q) \/ WriteLost(q) PROVE (Calm => ScreenTrue)'
    BY <1>5 DEF ReadFails, WriteLost, Calm
  <1>6. CASE UNCHANGED vars
    BY <1>6, Unheard DEF vars, OfScreen
  <1>7. QED
    BY <1>1, <1>2, <1>3, <1>4, <1>5, <1>6, ClicksTrue, NewResultsTrue, PageTimerTrue,
       FindTrue, ChangeTrue, ReadTrue, ReadAnswerTrue, WriteSucceedsTrue, WriteRefusedTrue
    DEF Next, User, Served, Ends

(* At rest the button, the hearts of the results and the watchlist page draw *)
(* as watched what is, but for what excuses names (useWatchlist,             *)
(* useWatchlistStatuses, WatchlistPage), for any races, visits and clicks.   *)
THEOREM DrawnAsWatched == Spec => []HeartsAreTrue
  <1>1. Init => HeartsInv
    <2> SUFFICES ASSUME Init PROVE ~Calm /\ WatchlistInv
      BY DEF HeartsInv
    <2>1. ~Calm
      BY DEF Init, Calm, NoScreen
    <2>2. QED
      BY <2>1, InitHolds
  <1>2. HeartsInv => HeartsAreTrue
    <2> SUFFICES ASSUME HeartsInv, AtRest, excuses = {} PROVE Hearts = Watched \cap screen.races
      BY DEF HeartsAreTrue
    <2>1. ScreenTrue /\ OwnReads = {} /\ OwnWrites = {}
      BY DEF AtRest, HeartsInv, Calm, OwnReads, OwnWrites
    <2>2. \A r : Done(r) = {}
      BY <2>1 DEF Done
    <2>3. screen.watched # None /\ \A r \in screen.races : r \in Watched <=> r \in screen.watched
      BY <2>1, <2>2 DEF ScreenTrue, DrawnTrue, RaceTrue, AtRest
    <2>4. screen.watched \in SUBSET Races /\ screen.kind \in {"button", "results", "page"}
      BY <2>3 DEF HeartsInv, WatchlistInv, ScreenOK, ScreenType, AtRest
    <2>5. CASE screen.kind = "button"
      <3>1. PICK r \in Races : screen.races = {r}
        BY <2>1, <2>5 DEF ScreenTrue, ShapeTrue
      <3>2. screen.watched \subseteq {r}
        BY <2>1, <2>3, <2>5, <3>1 DEF ScreenTrue, ButtonTrue
      <3>3. Hearts = {x \in screen.races : screen.watched = {x}}
        BY <2>5 DEF Hearts
      <3>4. QED
        BY <2>3, <3>1, <3>2, <3>3
    <2>6. CASE screen.kind = "results"
      BY <2>3, <2>6 DEF Hearts
    <2>7. CASE screen.kind = "page"
      <3>1. screen.races = Races
        BY <2>1, <2>7 DEF ScreenTrue, ShapeTrue
      <3>2. Hearts = screen.watched
        BY <2>3, <2>7 DEF Hearts
      <3>3. QED
        BY <2>3, <2>4, <3>1, <3>2
    <2>8. QED
      BY <2>4, <2>5, <2>6, <2>7
  <1>3. HeartsInv /\ [Next]_vars => HeartsInv'
    BY HeartsStep
  <1>4. QED
    BY <1>1, <1>2, <1>3, PTL DEF Spec
===============================================================================
