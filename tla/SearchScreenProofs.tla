-------------------------- MODULE SearchScreenProofs --------------------------
(*****************************************************************************)
(* The search page: what is written into the URL is read back, the URL says  *)
(* what the user asked for, and the list and the map implement LatestAnswer, *)
(* for any terms, areas and pages and whatever the order of timers, drawings *)
(* and answers.                                                              *)
(*****************************************************************************)
EXTENDS SearchScreen, SequenceTheorems, TLAPS

(* Both locations are legible.                                               *)
LegibleOK ==
  \A place \in {url, seen} : place.at \in {"search", "race"} /\ Parse(place.params) \in SearchState

(* What the list and the map keep.                                           *)
ListType ==
  [loading: BOOLEAN, shown: ListQuestions \cup {None},
   timer: ListQuestions \cup {None}, call: ListQuestions \cup {None}]
(* The list asks, or has asked, what the drawn screen says; only there.      *)
ListOK ==
  /\ list \in ListType
  /\ list.timer # None => InList /\ list.timer = ListQuestion(now) /\ list.call = None
  /\ list.call # None => InList /\ list.call = ListQuestion(now)

MapType ==
  [up: BOOLEAN, area: Areas \cup {None}, fitting: BOOLEAN, loading: BOOLEAN,
   shown: MapQuestions \cup {None}, timer: MapQuestions \cup {None},
   calls: SUBSET [asks: MapQuestions \cup {None}, aborted: BOOLEAN]]
(* So does the map; requests for another question are aborted.               *)
MapOK ==
  /\ map \in MapType
  /\ map.up <=> OnSearch(seen) /\ now.mode = "map"
  /\ map.up => map.area \in Areas
  /\ ~map.up => ~map.fitting /\ map.shown = None /\ map.timer = None /\ map.calls = {}
  /\ map.timer # None => map.timer = MapQuestion(now, map.area) /\ \A c \in map.calls : ~Current(c)
  /\ \A c \in map.calls : Current(c) => c.asks = MapQuestion(now, map.area)

(* A timer that will write an area.                                          *)
SyncType == [own: BOOLEAN, base: SearchState, area: Areas]
(* The timer of the map on the screen will write the area of that map.       *)
SyncsOK ==
  /\ syncs \in Seq(SyncType)
  /\ \A i \in DOMAIN syncs :
       syncs[i].own => /\ map.up /\ syncs[i].area = map.area /\ syncs[i].base.mode = "map"
                       /\ i = Len(syncs)

(* The URL says what is wanted, and where the map is or will be.             *)
WishOK ==
  wanted # None =>
    /\ wanted = Wish(url)
    /\ OnSearch(url) /\ Parse(url.params).mode = "map" /\ map.up =>
         \/ \E i \in DOMAIN syncs : syncs[i].own
         \/ Parse(url.params).bounds = map.area

(* The invariant of the search page.                                         *)
ScreenInv == LegibleOK /\ ListOK /\ MapOK /\ SyncsOK /\ WishOK /\ moves \in 0..MaxMoves
-------------------------------------------------------------------------------
(* The URL: parseSearchParams undoes serializeSearchState, but for the area, *)
(* which only a map has.                                                     *)
LEMMA RoundTrip ==
  ASSUME NEW s \in SearchState
  PROVE  Parse(Serialize(s)) =
           [crit |-> s.crit, mode |-> s.mode, page |-> s.page,
            bounds |-> IF s.mode = "map" THEN s.bounds ELSE None]
  <1> DEFINE u == Serialize(s)
  <1>1. /\ s.crit \in Criteria /\ s.mode \in {"list", "map"} /\ s.page \in Nat \ {0}
        /\ s.bounds \in Areas \cup {None}
    BY DEF SearchState
  <1>2. Fields = {"q", "distances", "voivodeships", "dateRange"}
    BY DEF Fields, NoCriteria
  <1>3. DOMAIN u = Present(s)
    BY DEF Serialize
  <1>4. /\ "mode" \in DOMAIN u <=> s.mode = "map"
        /\ "page" \in DOMAIN u <=> s.page > 1
        /\ "bounds" \in DOMAIN u <=> s.mode = "map" /\ s.bounds # None
        /\ \A f \in Fields : f \in DOMAIN u <=> s.crit[f] # NoCriteria[f]
    BY <1>2, <1>3 DEF Present
  <1>5. /\ "mode" \in DOMAIN u => u["mode"] = s.mode
        /\ "page" \in DOMAIN u => u["page"] = s.page
        /\ "bounds" \in DOMAIN u => u["bounds"] = s.bounds
        /\ \A f \in Fields : f \in DOMAIN u => u[f] = s.crit[f]
    BY <1>2, <1>3 DEF Serialize
  <1> HIDE DEF u
  <1>6. \A f \in Fields : Value(u, f, NoCriteria[f]) = s.crit[f]
    BY <1>4, <1>5 DEF Value
  <1>7. /\ Value(u, "mode", "list") = s.mode
        /\ AtLeast(1, Value(u, "page", 1)) = s.page
        /\ s.mode = "map" => Value(u, "bounds", None) = s.bounds
    BY <1>1, <1>4, <1>5 DEF Value, AtLeast
  <1>8. [f \in Fields |-> Value(u, f, NoCriteria[f])] = s.crit
    <2>1. s.crit = [f \in Fields |-> s.crit[f]]
      <3>1. s.crit \in Criteria
        BY <1>1
      <3>2. QED
        BY <3>1 DEF Criteria, Fields, NoCriteria
    <2>2. QED
      BY <1>6, <2>1
  <1>9. QED
    BY <1>7, <1>8 DEF Parse, u

(* An edited state is written and read as it is, but for an area that a list *)
(* does not have.                                                            *)
LEMMA Written ==
  ASSUME NEW s \in SearchState, NEW u, u = Search(Serialize(s))
  PROVE  /\ OnSearch(u) /\ u.at = "search" /\ Parse(u.params) \in SearchState
         /\ Parse(u.params).mode = s.mode
         /\ s.mode = "map" => Parse(u.params).bounds = s.bounds
         /\ Wish(u) = [at |-> "search", crit |-> s.crit, mode |-> s.mode, page |-> s.page]
  <1>1. u.at = "search" /\ u.params = Serialize(s)
    BY DEF Search
  <1>2. Parse(u.params) = [crit |-> s.crit, mode |-> s.mode, page |-> s.page,
                           bounds |-> IF s.mode = "map" THEN s.bounds ELSE None]
    BY <1>1, RoundTrip
  <1>3. Parse(u.params) \in SearchState
    BY <1>2 DEF SearchState
  <1>4. QED
    BY <1>1, <1>2, <1>3 DEF OnSearch, Wish

(* A link to the whole search, or to one distance or region of it.           *)
LEMMA Linked ==
  ASSUME NEW u \in {NoParams} \cup QuickLinks
  PROVE  Parse(u) \in SearchState /\ Parse(u).mode = "list"
  <1>1. Fields = {"q", "distances", "voivodeships", "dateRange"}
    BY DEF Fields, NoCriteria
  <1>2. /\ DOMAIN u \subseteq {"distances", "voivodeships"}
        /\ "distances" \in DOMAIN u => u["distances"] \subseteq Distances
        /\ "voivodeships" \in DOMAIN u => u["voivodeships"] \subseteq Voivodeships
    <2>1. CASE u = NoParams
      BY <2>1 DEF NoParams
    <2>2. ASSUME NEW d \in Distances, u = [distances |-> {d}]
          PROVE  DOMAIN u = {"distances"} /\ u["distances"] = {d}
      BY <2>2
    <2>3. ASSUME NEW v \in Voivodeships, u = [voivodeships |-> {v}]
          PROVE  DOMAIN u = {"voivodeships"} /\ u["voivodeships"] = {v}
      BY <2>3
    <2>4. QED
      BY <2>1, <2>2, <2>3 DEF QuickLinks
  <1> DEFINE crit == [f \in Fields |-> Value(u, f, NoCriteria[f])]
  <1>3. crit \in Criteria
    <2>1. crit = [q |-> Value(u, "q", None), distances |-> Value(u, "distances", {}),
                  voivodeships |-> Value(u, "voivodeships", {}),
                  dateRange |-> Value(u, "dateRange", None)]
      BY <1>1 DEF NoCriteria
    <2>2. /\ Value(u, "q", None) = None /\ Value(u, "dateRange", None) = None
          /\ Value(u, "distances", {}) \subseteq Distances
          /\ Value(u, "voivodeships", {}) \subseteq Voivodeships
      BY <1>2 DEF Value
    <2> HIDE DEF crit
    <2>3. QED
      BY <2>1, <2>2 DEF Criteria
  <1>4. Value(u, "mode", "list") = "list" /\ AtLeast(1, Value(u, "page", 1)) = 1
    BY <1>2 DEF Value, AtLeast
  <1>5. Parse(u) = [crit |-> crit, mode |-> "list", page |-> 1, bounds |-> None]
    BY <1>4 DEF Parse
  <1> HIDE DEF crit
  <1>6. QED
    BY <1>3, <1>5 DEF SearchState

(* The questions of a legible state.                                         *)
LEMMA Asked ==
  ASSUME NEW s \in SearchState
  PROVE  /\ ListQuestion(s) \in ListQuestions /\ ListQuestion(s) # None
         /\ \A area \in Areas : MapQuestion(s, area) \in MapQuestions /\ MapQuestion(s, area) # None
  <1>1. s.crit \in Criteria /\ s.page \in Nat \ {0}
    BY DEF SearchState
  <1>2. /\ ListQuestion(s) \in ListQuestions
        /\ \A area \in Areas : MapQuestion(s, area) \in MapQuestions
    BY <1>1 DEF ListQuestion, ListQuestions, MapQuestion, MapQuestions
  <1>3. QED
    BY <1>2, QuestionsAssumption

(* The handlers of the user: what is drawn stays, the URL changes.           *)
LEMMA DoKeeps ==
  ASSUME ScreenInv, NEW wish, Do(wish),
         list' \in {list, [list EXCEPT !.loading = TRUE]},
         url'.at \in {"search", "race"}, Parse(url'.params) \in SearchState,
         wanted = Wish(seen) => wish = Wish(url'),
         OnSearch(url') /\ Parse(url'.params).mode = "map" /\ map.up =>
           Parse(url'.params).bounds = now.bounds
  PROVE  ScreenInv'
  <1>1. /\ moves < MaxMoves /\ moves' = moves + 1 /\ UNCHANGED <<seen, map, syncs>>
        /\ wanted' = IF wanted = None \/ seen # url THEN None ELSE wish
    BY DEF Do
  <1>2. LegibleOK /\ ListOK /\ MapOK /\ SyncsOK /\ WishOK /\ moves \in 0..MaxMoves /\ MaxMoves \in Nat
    BY NumbersAssumption DEF ScreenInv
  <1>3. LegibleOK'
    BY <1>1, <1>2 DEF LegibleOK
  <1>4. ListOK'
    <2>1. list' \in ListType /\ list'.timer = list.timer /\ list'.call = list.call
      BY <1>2 DEF ListOK, ListType
    <2>2. QED
      BY <1>1, <1>2, <2>1 DEF ListOK, InList, now
  <1>5. MapOK' /\ SyncsOK'
    BY <1>1, <1>2 DEF MapOK, SyncsOK, now
  <1>6. WishOK'
    BY <1>1, <1>2 DEF WishOK, MapOK, now
  <1>7. moves' \in 0..MaxMoves
    BY <1>1, <1>2
  <1>8. QED
    BY <1>3, <1>4, <1>5, <1>6, <1>7 DEF ScreenInv

(* An edit of the search: state drawn, changed, written.                     *)
LEMMA UpdateKeeps ==
  ASSUME ScreenInv, NEW wish, NEW s \in SearchState, Do(wish), Update(s), OnSearch(seen),
         list' \in {list, [list EXCEPT !.loading = TRUE]},
         s.bounds = now.bounds,
         wanted = Wish(seen) =>
           wish = [at |-> "search", crit |-> s.crit, mode |-> s.mode, page |-> s.page]
  PROVE  ScreenInv'
  <1>1. url' = Search(Serialize(s))
    BY DEF Update
  <1>2. /\ OnSearch(url') /\ url'.at = "search" /\ Parse(url'.params) \in SearchState
        /\ Parse(url'.params).mode = s.mode
        /\ s.mode = "map" => Parse(url'.params).bounds = s.bounds
        /\ Wish(url') = [at |-> "search", crit |-> s.crit, mode |-> s.mode, page |-> s.page]
    BY <1>1, Written
  <1>3. QED
    BY <1>2, DoKeeps

(* One field changes, and the page is the first again.                       *)
LEMMA EditKeeps ==
  ASSUME ScreenInv, NEW f \in Fields, NEW v, Edit(f, v),
         f = "q" => v \in Terms \cup {None},
         f = "distances" => v \subseteq Distances,
         f = "voivodeships" => v \subseteq Voivodeships,
         f = "dateRange" => v \in DateRanges \cup {None}
  PROVE  ScreenInv'
  <1> DEFINE crit == [now.crit EXCEPT ![f] = v]
             s == [now EXCEPT !.crit[f] = v, !.page = 1]
             wish == [wanted EXCEPT !.crit[f] = v, !.page = 1]
  <1>1. OnSearch(seen) /\ Update(s) /\ Do(wish) /\ list' = list
    BY DEF Edit
  <1>2. now \in SearchState
    BY DEF ScreenInv, LegibleOK, now
  <1>3. crit \in Criteria
    <2>1. f \in {"q", "distances", "voivodeships", "dateRange"} /\ now.crit \in Criteria
      BY <1>2 DEF Fields, NoCriteria, SearchState
    <2>2. CASE f = "q"
      BY <2>1, <2>2 DEF Criteria
    <2>3. CASE f = "distances"
      BY <2>1, <2>3 DEF Criteria
    <2>4. CASE f = "voivodeships"
      BY <2>1, <2>4 DEF Criteria
    <2>5. CASE f = "dateRange"
      BY <2>1, <2>5 DEF Criteria
    <2>6. QED
      BY <2>1, <2>2, <2>3, <2>4, <2>5
  <1>4. s = [crit |-> crit, mode |-> now.mode, page |-> 1, bounds |-> now.bounds]
    <2> DEFINE c == now.crit
               m == now.mode
               b == now.bounds
               y == [crit |-> [c EXCEPT ![f] = v], mode |-> m, page |-> now.page, bounds |-> b]
    <2>1. now = [crit |-> c, mode |-> m, page |-> now.page, bounds |-> b]
      BY <1>2 DEF SearchState
    <2>2. [now EXCEPT !.crit[f] = v] = y
      BY <2>1
    <2>3. [y EXCEPT !.page = 1] = [crit |-> [c EXCEPT ![f] = v], mode |-> m, page |-> 1, bounds |-> b]
      OBVIOUS
    <2>4. s = [[now EXCEPT !.crit[f] = v] EXCEPT !.page = 1]
      OBVIOUS
    <2>5. QED
      BY <2>2, <2>3, <2>4
  <1>5. s \in SearchState /\ s.bounds = now.bounds
    <2> HIDE DEF crit, s
    <2>1. QED
      BY <1>2, <1>3, <1>4 DEF SearchState
  <1>6. wanted = Wish(seen) =>
          wish = [at |-> "search", crit |-> crit, mode |-> now.mode, page |-> 1]
    <2> SUFFICES ASSUME wanted = Wish(seen)
                 PROVE  wish = [at |-> "search", crit |-> crit, mode |-> now.mode, page |-> 1]
      OBVIOUS
    <2> DEFINE c == now.crit
               m == now.mode
               y == [at |-> "search", crit |-> [c EXCEPT ![f] = v], mode |-> m, page |-> now.page]
    <2>1. wanted = [at |-> "search", crit |-> c, mode |-> m, page |-> now.page]
      BY <1>1 DEF Wish, OnSearch, now
    <2>2. [wanted EXCEPT !.crit[f] = v] = y
      BY <2>1
    <2>3. [y EXCEPT !.page = 1] = [at |-> "search", crit |-> [c EXCEPT ![f] = v], mode |-> m, page |-> 1]
      OBVIOUS
    <2>4. wish = [[wanted EXCEPT !.crit[f] = v] EXCEPT !.page = 1]
      OBVIOUS
    <2>5. QED
      BY <2>2, <2>3, <2>4
  <1> HIDE DEF crit, s, wish
  <1>7. wanted = Wish(seen) =>
          wish = [at |-> "search", crit |-> s.crit, mode |-> s.mode, page |-> s.page]
    BY <1>4, <1>6
  <1>8. QED
    BY <1>1, <1>5, <1>7, UpdateKeeps

(* The effect of the list: its timer is set for what is drawn.               *)
LEMMA ListEffects ==
  ASSUME NEW l \in ListType, NEW s \in SearchState
  PROVE  /\ ListEffect(l, s) \in ListType /\ ListEffect(l, s).shown = l.shown
         /\ ListEffect(l, s).timer = IF s.mode = "list" THEN ListQuestion(s) ELSE None
         /\ ListEffect(l, s).call = None
  <1> DEFINE c == ListCleanUp(l)
  <1>1. c \in ListType /\ c.shown = l.shown /\ c.timer = None /\ c.call = None
    BY DEF ListCleanUp, ListType
  <1>2. ListEffect(l, s) = IF s.mode = "list" THEN [c EXCEPT !.timer = ListQuestion(s)] ELSE c
    BY DEF ListEffect
  <1> HIDE DEF c
  <1>3. QED
    BY <1>1, <1>2, Asked DEF ListType

(* A list just opened.                                                       *)
LEMMA NewListTyped ==
  NewList \in ListType /\ NewList.shown = None /\ NewList.timer = None /\ NewList.call = None
  BY DEF NewList, ListType

(* The effect of the map: its timer is set, requests under way are aborted.  *)
LEMMA MapEffects ==
  ASSUME NEW m \in MapType, NEW s \in SearchState, m.area \in Areas
  PROVE  /\ MapEffect(m, s) \in MapType
         /\ MapEffect(m, s).up = m.up /\ MapEffect(m, s).area = m.area
         /\ MapEffect(m, s).shown = m.shown
         /\ MapEffect(m, s).timer = MapQuestion(s, m.area)
         /\ \A c \in MapEffect(m, s).calls : ~Current(c)
         /\ m.calls = {} => MapEffect(m, s).calls = {}
  <1>1. Aborted(m.calls) \subseteq [asks: MapQuestions \cup {None}, aborted: BOOLEAN]
        /\ \A c \in Aborted(m.calls) : c.aborted = TRUE
    BY DEF MapType, Aborted
  <1>2. m.calls = {} => Aborted(m.calls) = {}
    BY DEF Aborted
  <1>3. QED
    BY <1>1, <1>2, Asked DEF MapEffect, MapType, Current

(* A map just opened over an area.                                           *)
LEMMA OpenedMap ==
  ASSUME NEW s \in SearchState, NEW area \in Areas
  PROVE  /\ Opened(s, area) \in MapType /\ Opened(s, area).up = TRUE
         /\ Opened(s, area).area = area /\ Opened(s, area).shown = None
         /\ Opened(s, area).timer = MapQuestion(s, area)
         /\ Opened(s, area).calls = {}
  <1> DEFINE m == [NoMap EXCEPT !.up = TRUE, !.area = area, !.fitting = s.bounds # None]
  <1>1. m \in MapType /\ m.up = TRUE /\ m.area = area /\ m.shown = None /\ m.calls = {}
    BY DEF NoMap, MapType
  <1>2. Opened(s, area) = MapEffect(m, s)
    BY DEF Opened
  <1> HIDE DEF m
  <1>3. QED
    BY <1>1, <1>2, MapEffects

(* No map.                                                                   *)
LEMMA NoMapTyped ==
  /\ NoMap \in MapType /\ NoMap.up = FALSE /\ NoMap.fitting = FALSE
  /\ NoMap.shown = None /\ NoMap.timer = None /\ NoMap.calls = {}
  BY DEF NoMap, MapType

(* The timers of a view that is left are nobody's ...                        *)
LEMMA Orphans ==
  ASSUME syncs \in Seq(SyncType)
  PROVE  Orphaned \in Seq(SyncType) /\ \A i \in DOMAIN Orphaned : ~Orphaned[i].own
  <1>1. /\ syncs \in [1..Len(syncs) -> SyncType] /\ Len(syncs) \in Nat /\ DOMAIN syncs = 1..Len(syncs)
    BY LenProperties
  <1>2. \A i \in DOMAIN syncs : /\ [syncs[i] EXCEPT !.own = FALSE] \in SyncType
                                /\ [syncs[i] EXCEPT !.own = FALSE].own = FALSE
    BY <1>1 DEF SyncType
  <1>3. Orphaned \in [1..Len(syncs) -> SyncType] /\ \A i \in DOMAIN Orphaned : Orphaned[i].own = FALSE
    BY <1>1, <1>2 DEF Orphaned
  <1>4. QED
    BY <1>1, <1>3

(* ... and that of the view is the last, also when it is started anew.       *)
LEMMA Restarted ==
  ASSUME SyncsOK, NEW t \in SyncType
  PROVE  /\ Replaced(t) \in Seq(SyncType)
         /\ \A i \in DOMAIN Replaced(t) :
              Replaced(t)[i].own => Replaced(t)[i] = t /\ i = Len(Replaced(t))
         /\ \E i \in DOMAIN Replaced(t) : Replaced(t)[i] = t
  <1>1. syncs \in Seq(SyncType) /\ DOMAIN syncs = 1..Len(syncs) /\ Len(syncs) \in Nat
    BY LenProperties DEF SyncsOK
  <1>2. CASE \E i \in DOMAIN syncs : syncs[i].own
    <2>1. Replaced(t) = [syncs EXCEPT ![Len(syncs)] = t]
      BY <1>2 DEF Replaced
    <2>2. Len(syncs) \in 1..Len(syncs)
      BY <1>1, <1>2
    <2>3. /\ Replaced(t) \in Seq(SyncType) /\ Len(Replaced(t)) = Len(syncs)
          /\ DOMAIN Replaced(t) = 1..Len(syncs)
          /\ \A j \in 1..Len(syncs) : Replaced(t)[j] = IF j = Len(syncs) THEN t ELSE syncs[j]
      BY <1>1, <2>1, <2>2, ExceptSeq, LenProperties
    <2>4. QED
      BY <1>1, <2>2, <2>3 DEF SyncsOK
  <1>3. CASE \A i \in DOMAIN syncs : ~syncs[i].own
    <2>1. Replaced(t) = Append(syncs, t)
      BY <1>3 DEF Replaced
    <2>2. /\ Replaced(t) \in Seq(SyncType) /\ Len(Replaced(t)) = Len(syncs) + 1
          /\ DOMAIN Replaced(t) = 1..(Len(syncs) + 1)
          /\ \A i \in 1..Len(syncs) : Replaced(t)[i] = syncs[i]
          /\ Replaced(t)[Len(syncs) + 1] = t
      BY <1>1, <2>1, AppendProperties, LenProperties
    <2>3. QED
      BY <1>1, <1>3, <2>2
  <1>4. QED
    BY <1>2, <1>3

-------------------------------------------------------------------------------
(* What the invariant gives.                                                 *)
LEMMA Facts ==
  ASSUME ScreenInv
  PROVE  /\ LegibleOK /\ ListOK /\ MapOK /\ SyncsOK /\ WishOK
         /\ moves \in 0..MaxMoves /\ MaxMoves \in Nat /\ Pages \in Nat
         /\ now \in SearchState /\ Parse(url.params) \in SearchState
  BY NumbersAssumption DEF ScreenInv, LegibleOK, now

(* Edits of the search.                                                      *)
LEMMA EditsKeep ==
  ASSUME ScreenInv,
         \/ ChangeTerm \/ ToggleDistance \/ ToggleVoivodeship \/ ClearVoivodeships
         \/ PickDates \/ ClearDates
  PROVE  ScreenInv'
  <1>1. Fields = {"q", "distances", "voivodeships", "dateRange"}
    BY DEF Fields, NoCriteria
  <1>2. now.crit.distances \subseteq Distances /\ now.crit.voivodeships \subseteq Voivodeships
    BY Facts DEF SearchState, Criteria
  <1>3. ASSUME NEW term \in Terms \cup {None}, Edit("q", term) PROVE ScreenInv'
    BY <1>1, <1>3, EditKeeps
  <1>4. ASSUME NEW d \in SUBSET Distances, Edit("distances", d) PROVE ScreenInv'
    BY <1>1, <1>4, EditKeeps
  <1>5. ASSUME NEW v \in SUBSET Voivodeships, Edit("voivodeships", v) PROVE ScreenInv'
    BY <1>1, <1>5, EditKeeps
  <1>6. ASSUME NEW range \in DateRanges \cup {None}, Edit("dateRange", range) PROVE ScreenInv'
    BY <1>1, <1>6, EditKeeps
  <1>7. CASE ChangeTerm
    BY <1>3, <1>7 DEF ChangeTerm
  <1>8. CASE ToggleDistance
    <2>1. \A d \in Distances : Toggled(now.crit.distances, d) \in SUBSET Distances
      BY <1>2 DEF Toggled
    <2>2. QED
      BY <1>4, <1>8, <2>1 DEF ToggleDistance
  <1>9. CASE ToggleVoivodeship
    <2>1. \A v \in Voivodeships : Toggled(now.crit.voivodeships, v) \in SUBSET Voivodeships
      BY <1>2 DEF Toggled
    <2>2. QED
      BY <1>5, <1>9, <2>1 DEF ToggleVoivodeship
  <1>10. CASE ClearVoivodeships
    BY <1>5, <1>10 DEF ClearVoivodeships
  <1>11. CASE PickDates \/ ClearDates
    BY <1>6, <1>11 DEF PickDates, ClearDates
  <1>12. QED
    BY <1>7, <1>8, <1>9, <1>10, <1>11

(* A change of the mode.                                                     *)
LEMMA ModeKeeps ==
  ASSUME ScreenInv, NEW m \in {"list", "map"}, ChangeMode(m)
  PROVE  ScreenInv'
  <1> DEFINE s == [now EXCEPT !.mode = m, !.page = 1]
             wish == [wanted EXCEPT !.mode = m, !.page = 1]
  <1>1. OnSearch(seen) /\ Update(s) /\ Do(wish) /\ list' = list
    BY DEF ChangeMode
  <1>2. s \in SearchState /\ s.crit = now.crit /\ s.mode = m /\ s.page = 1 /\ s.bounds = now.bounds
    <2> DEFINE y == [now EXCEPT !.mode = m]
    <2>1. y \in SearchState /\ y.crit = now.crit /\ y.mode = m /\ y.bounds = now.bounds
      BY Facts DEF SearchState
    <2>2. s = [y EXCEPT !.page = 1]
      OBVIOUS
    <2> HIDE DEF y, s
    <2>3. QED
      BY <2>1, <2>2 DEF SearchState
  <1>3. ASSUME wanted = Wish(seen)
        PROVE  wish = [at |-> "search", crit |-> now.crit, mode |-> m, page |-> 1]
    <2> DEFINE c == now.crit
               y == [at |-> "search", crit |-> c, mode |-> m, page |-> now.page]
    <2>1. wanted = [at |-> "search", crit |-> c, mode |-> now.mode, page |-> now.page]
      BY <1>1, <1>3 DEF Wish, OnSearch, now
    <2>2. [wanted EXCEPT !.mode = m] = y
      BY <2>1
    <2>3. [y EXCEPT !.page = 1] = [at |-> "search", crit |-> c, mode |-> m, page |-> 1]
      OBVIOUS
    <2>4. wish = [[wanted EXCEPT !.mode = m] EXCEPT !.page = 1]
      OBVIOUS
    <2>5. QED
      BY <2>2, <2>3, <2>4
  <1> HIDE DEF s, wish
  <1>4. QED
    BY <1>1, <1>2, <1>3, UpdateKeeps

(* A click on a page.                                                        *)
LEMMA PageKeeps ==
  ASSUME ScreenInv, NEW p \in 1..(Pages + 1), ChangePage(p)
  PROVE  ScreenInv'
  <1> DEFINE s == [now EXCEPT !.page = p]
             wish == [wanted EXCEPT !.page = p]
  <1>1. OnSearch(seen) /\ Update(s) /\ Do(wish) /\ list' = [list EXCEPT !.loading = TRUE]
    BY DEF ChangePage, InList
  <1>2. s \in SearchState /\ s.crit = now.crit /\ s.mode = now.mode /\ s.page = p
        /\ s.bounds = now.bounds
    BY Facts DEF SearchState
  <1>3. ASSUME wanted = Wish(seen)
        PROVE  wish = [at |-> "search", crit |-> now.crit, mode |-> now.mode, page |-> p]
    <2> DEFINE y == [at |-> "search", crit |-> now.crit, mode |-> now.mode, page |-> p]
    <2>1. wanted = [at |-> "search", crit |-> now.crit, mode |-> now.mode, page |-> now.page]
      BY <1>1, <1>3 DEF Wish, OnSearch, now
    <2>2. wish = y
      BY <2>1
    <2>3. QED
      BY <2>2
  <1> HIDE DEF s, wish
  <1>4. QED
    BY <1>1, <1>2, <1>3, UpdateKeeps

(* To a race and back: the link of the race page is the search it came from. *)
LEMMA RaceKeeps ==
  ASSUME ScreenInv, OpenResult \/ OpenCard \/ Return
  PROVE  ScreenInv'
  <1>1. CASE OpenResult \/ OpenCard
    <2>1. OpenRace /\ OnSearch(seen)
      BY <1>1, Facts DEF OpenResult, OpenCard, InList, MapDraws, MapOK
    <2>2. url'.at = "race" /\ url'.params = seen.params /\ list' = list
          /\ Do([wanted EXCEPT !.at = "race"])
      BY <2>1 DEF OpenRace, Race
    <2>3. ASSUME wanted = Wish(seen) PROVE [wanted EXCEPT !.at = "race"] = Wish(url')
      <3> DEFINE y == [at |-> "race", crit |-> now.crit, mode |-> now.mode, page |-> now.page]
      <3>1. wanted = [at |-> seen.at, crit |-> now.crit, mode |-> now.mode, page |-> now.page]
        BY <2>3 DEF Wish, now
      <3>2. [wanted EXCEPT !.at = "race"] = y
        BY <3>1
      <3>3. Wish(url') = y
        BY <2>2 DEF Wish, now
      <3>4. QED
        BY <3>2, <3>3
    <2>4. ~OnSearch(url') /\ Parse(url'.params) \in SearchState
      BY <2>2, Facts DEF OnSearch, now
    <2>5. QED
      BY <2>2, <2>3, <2>4, DoKeeps
  <1>2. CASE Return
    <2>1. url'.at = "search" /\ url'.params = seen.params /\ list' = list
          /\ Do([wanted EXCEPT !.at = "search"])
      BY <1>2 DEF Return, Search
    <2>2. ASSUME wanted = Wish(seen) PROVE [wanted EXCEPT !.at = "search"] = Wish(url')
      <3> DEFINE y == [at |-> "search", crit |-> now.crit, mode |-> now.mode, page |-> now.page]
      <3>1. wanted = [at |-> seen.at, crit |-> now.crit, mode |-> now.mode, page |-> now.page]
        BY <2>2 DEF Wish, now
      <3>2. [wanted EXCEPT !.at = "search"] = y
        BY <3>1
      <3>3. Wish(url') = y
        BY <2>1 DEF Wish, now
      <3>4. QED
        BY <3>2, <3>3
    <2>3. Parse(url'.params) \in SearchState /\ Parse(url'.params).bounds = now.bounds
      BY <2>1, Facts DEF now
    <2>4. QED
      BY <2>1, <2>2, <2>3, DoKeeps
  <1>3. QED
    BY <1>1, <1>2

(* A link starts a list anew, whatever was overtaken before.                 *)
LEMMA LinkKeeps ==
  ASSUME ScreenInv, NEW u \in {NoParams} \cup QuickLinks, FollowLink(u)
  PROVE  ScreenInv'
  <1>1. /\ url' = Search(u) /\ moves < MaxMoves /\ moves' = moves + 1
        /\ wanted' = Wish(Search(u)) /\ UNCHANGED <<seen, list, map, syncs>>
    BY DEF FollowLink
  <1>2. url'.at = "search" /\ url'.params = u
    BY <1>1 DEF Search
  <1>3. Parse(url'.params) \in SearchState /\ Parse(url'.params).mode = "list"
    BY <1>2, Linked
  <1>4. LegibleOK' /\ WishOK'
    BY <1>1, <1>2, <1>3, Facts DEF LegibleOK, WishOK
  <1>5. ListOK' /\ MapOK' /\ SyncsOK'
    BY <1>1, Facts DEF ListOK, MapOK, SyncsOK, InList, now
  <1>6. QED
    BY <1>1, <1>4, <1>5, Facts DEF ScreenInv

(* The map is moved or fitted to its bounds: the URL will follow.            *)
LEMMA MoveKeeps ==
  ASSUME ScreenInv, NEW area \in Areas, MoveMap(area) \/ Fitted(area)
  PROVE  ScreenInv'
  <1> DEFINE m == [map EXCEPT !.area = area, !.fitting = FALSE]
  <1>1. /\ map.up /\ moves' \in 0..MaxMoves
        /\ map' = MapEffect(m, now) /\ syncs' = Replaced(Sync(now, area))
        /\ UNCHANGED <<url, seen, list, wanted>>
    <2>1. CASE MoveMap(area)
      BY <2>1, Facts DEF MoveMap, MoveEnds
    <2>2. CASE Fitted(area)
      BY <2>2, Facts DEF Fitted, MoveEnds, MapOK
    <2>3. QED
      BY <2>1, <2>2
  <1>2. m \in MapType /\ m.up = map.up /\ m.area = area
    BY Facts DEF MapOK, MapType
  <1> HIDE DEF m
  <1>3. /\ map' \in MapType /\ map'.up = map.up /\ map'.area = area
        /\ map'.timer = MapQuestion(now, area)
        /\ \A c \in map'.calls : ~Current(c)
    BY <1>1, <1>2, Facts, MapEffects
  <1>4. now' = now
    BY <1>1 DEF now
  <1>5. MapOK'
    BY <1>1, <1>3, <1>4, Facts DEF MapOK, Current
  <1> DEFINE t == Sync(now, area)
  <1>6. t \in SyncType /\ t.own = TRUE /\ t.area = area /\ t.base = now
    BY Facts DEF Sync, SyncType
  <1>7. now.mode = "map"
    BY <1>1, Facts DEF MapOK
  <1> HIDE DEF t
  <1>8. /\ syncs' \in Seq(SyncType)
        /\ \A i \in DOMAIN syncs' : syncs'[i].own => syncs'[i] = t /\ i = Len(syncs')
        /\ \E i \in DOMAIN syncs' : syncs'[i] = t
    BY <1>1, <1>6, Restarted, Facts DEF t
  <1>9. SyncsOK'
    BY <1>1, <1>3, <1>6, <1>7, <1>8 DEF SyncsOK
  <1>10. WishOK'
    BY <1>1, <1>6, <1>8, Facts DEF WishOK
  <1>11. LegibleOK' /\ ListOK'
    BY <1>1, <1>4, Facts DEF LegibleOK, ListOK, InList
  <1>12. QED
    BY <1>1, <1>5, <1>9, <1>10, <1>11, Facts DEF ScreenInv

(* A reload finds its search in the URL and starts its views anew.           *)
LEMMA ReloadKeeps ==
  ASSUME ScreenInv, Reload
  PROVE  ScreenInv'
  <1> DEFINE s == Parse(url.params)
  <1>1. /\ moves < MaxMoves /\ moves' = moves + 1 /\ seen' = url /\ UNCHANGED <<url, wanted>>
        /\ list' = IF OnSearch(url) THEN ListEffect(NewList, s) ELSE NewList
    BY DEF Reload
  <1>2. \/ /\ OnSearch(url) /\ s.mode = "map"
           /\ \E area \in IF s.bounds = None THEN Areas ELSE {s.bounds} :
                /\ map' = Opened(s, area)
                /\ syncs' = IF s.bounds = None THEN <<Sync(s, area)>> ELSE <<>>
        \/ ~(OnSearch(url) /\ s.mode = "map") /\ map' = NoMap /\ syncs' = <<>>
    BY DEF Reload
  <1>3. now' = s /\ s \in SearchState
    BY <1>1, Facts DEF now
  <1>4. InList' <=> OnSearch(url) /\ s.mode = "list"
    BY <1>1, <1>3 DEF InList, OnSearch
  <1> HIDE DEF s
  <1>5. LegibleOK'
    BY <1>1, Facts DEF LegibleOK
  <1>6. ListOK'
    BY <1>1, <1>3, <1>4, ListEffects, NewListTyped, Asked DEF ListOK
  <1>7. CASE OnSearch(url) /\ s.mode = "map"
    <2>1. PICK area \in IF s.bounds = None THEN Areas ELSE {s.bounds} :
            map' = Opened(s, area) /\ syncs' = IF s.bounds = None THEN <<Sync(s, area)>> ELSE <<>>
      BY <1>2, <1>7
    <2>2. area \in Areas /\ (s.bounds # None => s.bounds = area)
      BY <1>3, <2>1 DEF SearchState
    <2>3. /\ map' \in MapType /\ map'.up = TRUE /\ map'.area = area /\ map'.shown = None
          /\ map'.timer = MapQuestion(s, area) /\ map'.calls = {}
      BY <1>3, <2>1, <2>2, OpenedMap
    <2>4. MapOK'
      BY <1>1, <1>3, <1>7, <2>2, <2>3 DEF MapOK, OnSearch
    <2> DEFINE t == Sync(s, area)
    <2>5. t \in SyncType /\ t.own = TRUE /\ t.area = area /\ t.base = s
      BY <1>3, <2>2 DEF Sync, SyncType
    <2> HIDE DEF t
    <2>6. CASE s.bounds = None
      <3>1. syncs' = <<t>>
        BY <2>1, <2>6 DEF t
      <3>2. syncs' \in Seq(SyncType) /\ DOMAIN syncs' = {1} /\ Len(syncs') = 1 /\ syncs'[1] = t
        BY <2>5, <3>1
      <3>3. SyncsOK'
        BY <1>7, <2>3, <2>5, <3>2 DEF SyncsOK
      <3>4. WishOK'
        BY <1>1, <2>5, <3>2, Facts DEF WishOK
      <3>5. QED
        BY <1>1, <1>5, <1>6, <2>4, <3>3, <3>4, Facts DEF ScreenInv
    <2>7. CASE s.bounds # None
      <3>1. syncs' = <<>>
        BY <2>1, <2>7
      <3>2. SyncsOK'
        BY <3>1 DEF SyncsOK
      <3>3. WishOK'
        BY <1>1, <2>2, <2>3, <2>7, Facts DEF WishOK, s
      <3>4. QED
        BY <1>1, <1>5, <1>6, <2>4, <3>2, <3>3, Facts DEF ScreenInv
    <2>8. QED
      BY <2>6, <2>7
  <1>8. CASE ~(OnSearch(url) /\ s.mode = "map")
    <2>1. map' = NoMap /\ syncs' = <<>>
      BY <1>2, <1>8
    <2>2. MapOK'
      BY <1>1, <1>3, <1>8, <2>1, NoMapTyped DEF MapOK, OnSearch
    <2>3. SyncsOK'
      BY <2>1 DEF SyncsOK
    <2>4. WishOK'
      BY <1>1, <2>1, NoMapTyped, Facts DEF WishOK
    <2>5. QED
      BY <1>1, <1>5, <1>6, <2>2, <2>3, <2>4, Facts DEF ScreenInv
  <1>9. QED
    BY <1>7, <1>8

(* A location is drawn: views that stay ask anew, those that go take their   *)
(* requests with them, but not the timer that will write an area.            *)
LEMMA RenderKeeps ==
  ASSUME ScreenInv, Render
  PROVE  ScreenInv'
  <1> DEFINE s == Parse(url.params)
             l == IF OnSearch(seen) THEN list ELSE NewList
  <1>1. /\ seen' = url /\ UNCHANGED <<url, moves, wanted>>
        /\ list' = IF OnSearch(url) THEN ListEffect(l, s) ELSE NewList
        /\ Draw(url, map.up)
    BY DEF Render
  <1>2. \/ ~(OnSearch(url) /\ s.mode = "map") /\ map' = NoMap /\ syncs' = Orphaned
        \/ /\ OnSearch(url) /\ s.mode = "map"
           /\ \/ map.up /\ map' = MapEffect(map, s) /\ syncs' = syncs
              \/ ~map.up /\ s.bounds # None /\ map' = Opened(s, s.bounds) /\ syncs' = syncs
              \/ ~map.up /\ s.bounds = None
                 /\ \E area \in Areas : map' = Opened(s, area) /\ syncs' = Replaced(Sync(s, area))
    BY <1>1 DEF Draw
  <1>3. now' = s /\ s \in SearchState /\ s.mode \in {"list", "map"}
    BY <1>1, Facts DEF now, SearchState
  <1>4. InList' <=> OnSearch(url) /\ s.mode = "list"
    BY <1>1, <1>3 DEF InList, OnSearch
  <1>5. l \in ListType
    BY NewListTyped, Facts DEF ListOK
  <1> HIDE DEF s, l
  <1>6. LegibleOK'
    BY <1>1, Facts DEF LegibleOK
  <1>7. ListOK'
    BY <1>1, <1>3, <1>4, <1>5, ListEffects, NewListTyped, Asked DEF ListOK
  <1>8. ASSUME ~(OnSearch(url) /\ s.mode = "map"), map' = NoMap, syncs' = Orphaned
        PROVE  MapOK' /\ SyncsOK' /\ WishOK'
    <2>1. MapOK'
      BY <1>1, <1>3, <1>8, NoMapTyped DEF MapOK, OnSearch
    <2>2. SyncsOK'
      BY <1>8, Orphans, Facts DEF SyncsOK
    <2>3. WishOK'
      BY <1>1, <1>8, NoMapTyped, Facts DEF WishOK
    <2>4. QED
      BY <2>1, <2>2, <2>3
  <1>9. ASSUME OnSearch(url), s.mode = "map", map.up, map' = MapEffect(map, s), syncs' = syncs
        PROVE  MapOK' /\ SyncsOK' /\ WishOK'
    <2>1. /\ map' \in MapType /\ map'.up = map.up /\ map'.area = map.area /\ map.area \in Areas
          /\ map'.timer = MapQuestion(s, map.area)
          /\ \A c \in map'.calls : ~Current(c)
      BY <1>3, <1>9, MapEffects, Facts DEF MapOK
    <2>2. MapOK'
      BY <1>1, <1>3, <1>9, <2>1 DEF MapOK, OnSearch, Current
    <2>3. SyncsOK' /\ WishOK'
      BY <1>1, <1>9, <2>1, Facts DEF SyncsOK, WishOK
    <2>4. QED
      BY <2>2, <2>3
  <1>10. ASSUME OnSearch(url), s.mode = "map", ~map.up, NEW area \in Areas, map' = Opened(s, area)
         PROVE  MapOK' /\ map'.up /\ map'.area = area
    <2>1. /\ map' \in MapType /\ map'.up = TRUE /\ map'.area = area /\ map'.shown = None
          /\ map'.timer = MapQuestion(s, area) /\ map'.calls = {}
      BY <1>3, <1>10, OpenedMap
    <2>2. QED
      BY <1>1, <1>3, <1>10, <2>1 DEF MapOK, OnSearch
  <1>11. ASSUME OnSearch(url), s.mode = "map", ~map.up, s.bounds # None, map' = Opened(s, s.bounds),
                syncs' = syncs
         PROVE  MapOK' /\ SyncsOK' /\ WishOK'
    <2>1. s.bounds \in Areas
      BY <1>3, <1>11 DEF SearchState
    <2>2. MapOK' /\ map'.area = s.bounds
      BY <1>10, <1>11, <2>1
    <2>3. SyncsOK'
      BY <1>11, Facts DEF SyncsOK
    <2>4. WishOK'
      BY <1>1, <2>2, Facts DEF WishOK, s
    <2>5. QED
      BY <2>2, <2>3, <2>4
  <1>12. ASSUME OnSearch(url), s.mode = "map", ~map.up, NEW area \in Areas, map' = Opened(s, area),
                syncs' = Replaced(Sync(s, area))
         PROVE  MapOK' /\ SyncsOK' /\ WishOK'
    <2> DEFINE t == Sync(s, area)
    <2>1. t \in SyncType /\ t.own = TRUE /\ t.area = area /\ t.base = s
      BY <1>3 DEF Sync, SyncType
    <2> HIDE DEF t
    <2>2. /\ syncs' \in Seq(SyncType)
          /\ \A i \in DOMAIN syncs' : syncs'[i].own => syncs'[i] = t /\ i = Len(syncs')
          /\ \E i \in DOMAIN syncs' : syncs'[i] = t
      BY <1>12, <2>1, Restarted, Facts DEF t
    <2>3. MapOK' /\ map'.up /\ map'.area = area
      BY <1>10, <1>12
    <2>4. SyncsOK'
      BY <1>3, <1>12, <2>1, <2>2, <2>3 DEF SyncsOK
    <2>5. WishOK'
      BY <1>1, <2>1, <2>2, Facts DEF WishOK
    <2>6. QED
      BY <2>3, <2>4, <2>5
  <1>13. MapOK' /\ SyncsOK' /\ WishOK'
    BY <1>2, <1>8, <1>9, <1>11, <1>12
  <1>14. QED
    BY <1>1, <1>6, <1>7, <1>13, Facts DEF ScreenInv

(* The timer and the answers of the list.                                    *)
LEMMA ListStepsKeep ==
  ASSUME ScreenInv, ListTimer \/ ListSettled
  PROVE  ScreenInv'
  <1>1. UNCHANGED <<url, seen, map, syncs, moves, wanted>>
    BY DEF ListTimer, ListSettled, ListAnswer, ListFails, ListSettles
  <1>2. ListOK'
    <2>1. CASE ListTimer
      BY <1>1, <2>1, Facts DEF ListTimer, ListOK, ListType, InList, now
    <2>2. ASSUME NEW shown \in ListQuestions \cup {None}, ListSettles(shown) PROVE ListOK'
      BY <1>1, <2>2, Facts DEF ListSettles, ListOK, ListType, InList, now
    <2>3. QED
      BY <2>1, <2>2, Facts DEF ListSettled, ListAnswer, ListFails, ListOK, ListType
  <1>3. LegibleOK' /\ MapOK' /\ SyncsOK' /\ WishOK'
    BY <1>1, Facts DEF LegibleOK, MapOK, SyncsOK, WishOK, now
  <1>4. QED
    BY <1>1, <1>2, <1>3, Facts DEF ScreenInv

(* The timer and the answers of the map.                                     *)
LEMMA MapStepsKeep ==
  ASSUME ScreenInv, MapTimer \/ MapSettled
  PROVE  ScreenInv'
  <1>1. UNCHANGED <<url, seen, list, syncs, moves, wanted>>
    BY DEF MapTimer, MapSettled, MapAnswer, MapFails, MapSettles
  <1>2. MapOK' /\ map'.up = map.up /\ map'.area = map.area
    <2>1. CASE MapTimer
      <3> DEFINE call == [asks |-> map.timer, aborted |-> FALSE]
      <3>1. map.timer # None /\ map' = [map EXCEPT !.timer = None, !.loading = TRUE,
                                                  !.calls = @ \cup {call}]
        BY <2>1 DEF MapTimer
      <3>2. /\ map.timer \in MapQuestions /\ map.timer = MapQuestion(now, map.area) /\ map.up
            /\ call \in [asks: MapQuestions \cup {None}, aborted: BOOLEAN] /\ call.asks = map.timer
        BY <3>1, Facts DEF MapOK, MapType
      <3> HIDE DEF call
      <3>3. /\ map' \in MapType /\ map'.calls = map.calls \cup {call} /\ map'.timer = None
            /\ map'.up = map.up /\ map'.area = map.area /\ map'.shown = map.shown
        BY <3>1, <3>2, Facts DEF MapOK, MapType
      <3>4. QED
        BY <1>1, <3>1, <3>2, <3>3, Facts DEF MapOK, now, Current
    <2>2. ASSUME NEW call \in map.calls, NEW shown \in MapQuestions \cup {None}, MapSettles(call, shown)
          PROVE  MapOK' /\ map'.up = map.up /\ map'.area = map.area
      <3>1. /\ map' \in MapType /\ map'.calls = map.calls \ {call} /\ map'.timer = map.timer
            /\ map'.up = map.up /\ map'.area = map.area
        BY <2>2, Facts DEF MapSettles, MapOK, MapType
      <3>2. map.up
        BY Facts DEF MapOK
      <3>3. QED
        BY <1>1, <3>1, <3>2, Facts DEF MapOK, now, Current
    <2>3. QED
      BY <2>1, <2>2, Facts DEF MapSettled, MapAnswer, MapFails, MapOK, MapType
  <1>3. LegibleOK' /\ ListOK' /\ SyncsOK' /\ WishOK'
    BY <1>1, <1>2, Facts DEF LegibleOK, ListOK, SyncsOK, WishOK, InList, now
  <1>4. QED
    BY <1>1, <1>2, <1>3, Facts DEF ScreenInv

(* The timer that writes an area: the URL keeps what is wanted, or the wish  *)
(* was overtaken.                                                            *)
LEMMA SyncKeeps ==
  ASSUME ScreenInv, SyncFires
  PROVE  ScreenInv'
  <1> DEFINE t == Head(syncs)
             s == [t.base EXCEPT !.bounds = t.area]
  <1>1. /\ syncs # <<>> /\ syncs' = Tail(syncs) /\ UNCHANGED <<seen, list, map, moves>>
        /\ url' = Search(Serialize(s))
        /\ wanted' = IF t.own /\ wanted = Wish(Search(Serialize(t.base))) THEN wanted ELSE None
    BY DEF SyncFires, Update
  <1>2. /\ syncs \in Seq(SyncType) /\ DOMAIN syncs = 1..Len(syncs) /\ Len(syncs) \in Nat
        /\ t \in SyncType /\ Tail(syncs) \in Seq(SyncType) /\ Len(Tail(syncs)) = Len(syncs) - 1
        /\ DOMAIN Tail(syncs) = 1..(Len(syncs) - 1)
        /\ \A i \in 1..(Len(syncs) - 1) : Tail(syncs)[i] = syncs[i + 1]
        /\ t = syncs[1]
    BY <1>1, HeadTailProperties, LenProperties, Facts DEF SyncsOK
  <1>3. t.base \in SearchState /\ t.area \in Areas
    BY <1>2 DEF SyncType
  <1>4. s \in SearchState /\ s.crit = t.base.crit /\ s.mode = t.base.mode /\ s.page = t.base.page
        /\ s.bounds = t.area
    BY <1>3 DEF SearchState
  <1> HIDE DEF t, s
  <1>5. /\ OnSearch(url') /\ url'.at = "search" /\ Parse(url'.params) \in SearchState
        /\ s.mode = "map" => Parse(url'.params).bounds = s.bounds
        /\ Wish(url') = [at |-> "search", crit |-> s.crit, mode |-> s.mode, page |-> s.page]
    BY <1>1, <1>4, Written
  <1>6. Wish(Search(Serialize(t.base))) = Wish(url')
    BY <1>3, <1>4, <1>5, Written
  <1>7. LegibleOK' /\ ListOK' /\ MapOK'
    BY <1>1, <1>5, Facts DEF LegibleOK, ListOK, MapOK, InList, now
  <1>8. SyncsOK'
    BY <1>1, <1>2, Facts DEF SyncsOK
  <1>9. WishOK'
    <2> SUFFICES ASSUME wanted' # None PROVE WishOK'
      BY DEF WishOK
    <2>1. t.own /\ wanted' = Wish(url')
      BY <1>1, <1>6
    <2>2. s.mode = "map" /\ t.area = map.area
      BY <1>1, <1>2, <1>4, <2>1, Facts DEF SyncsOK
    <2>3. QED
      BY <1>1, <1>4, <1>5, <2>1, <2>2 DEF WishOK
  <1>10. QED
    BY <1>1, <1>7, <1>8, <1>9, Facts DEF ScreenInv

(* Every step of the user, the browser and the server keeps the invariant.   *)
LEMMA StepKeeps ==
  ASSUME ScreenInv, [Next]_vars
  PROVE  ScreenInv'
  <1>1. CASE User
    <2>1. ASSUME \/ ChangeTerm \/ ToggleDistance \/ ToggleVoivodeship \/ ClearVoivodeships
                 \/ PickDates \/ ClearDates
          PROVE  ScreenInv'
      BY <2>1, EditsKeep
    <2>2. ASSUME NEW m \in {"list", "map"}, ChangeMode(m) PROVE ScreenInv'
      BY <2>2, ModeKeeps
    <2>3. ASSUME NEW p \in 1..(Pages + 1), ChangePage(p) PROVE ScreenInv'
      BY <2>3, PageKeeps
    <2>4. ASSUME OpenResult \/ OpenCard \/ Return PROVE ScreenInv'
      BY <2>4, RaceKeeps
    <2>5. ASSUME Reload PROVE ScreenInv'
      BY <2>5, ReloadKeeps
    <2>6. ASSUME NEW u \in {NoParams} \cup QuickLinks, FollowLink(u) PROVE ScreenInv'
      BY <2>6, LinkKeeps
    <2>7. ASSUME NEW area \in Areas, MoveMap(area) PROVE ScreenInv'
      BY <2>7, MoveKeeps
    <2>8. QED
      BY <1>1, <2>1, <2>2, <2>3, <2>4, <2>5, <2>6, <2>7 DEF User
  <1>2. CASE Render
    BY <1>2, RenderKeeps
  <1>3. CASE Timers
    BY <1>3, ListStepsKeep, MapStepsKeep, SyncKeeps DEF Timers
  <1>4. CASE ListSettled \/ MapSettled \/ Fit
    BY <1>4, ListStepsKeep, MapStepsKeep, MoveKeeps DEF Fit
  <1>5. CASE UNCHANGED vars
    BY <1>5, Facts
    DEF vars, ScreenInv, LegibleOK, ListOK, MapOK, SyncsOK, WishOK, InList, now
  <1>6. QED
    BY <1>1, <1>2, <1>3, <1>4, <1>5 DEF Next

(* The first page of a visit satisfies the invariant.                        *)
LEMMA InitHolds == Init => ScreenInv
  <1> SUFFICES ASSUME Init PROVE ScreenInv
    OBVIOUS
  <1>1. /\ url \in {Search(NoParams), Search([mode |-> "map"])} /\ seen = url
        /\ list = ListEffect(NewList, now) /\ moves = 0 /\ wanted = Wish(url)
        /\ IF now.mode = "list" THEN map = NoMap /\ syncs = <<>>
           ELSE \E area \in Areas : map = Opened(now, area) /\ syncs = <<Sync(now, area)>>
    BY DEF Init
  <1>2. url.at = "search" /\ OnSearch(seen) /\ Parse(url.params) = now
    BY <1>1 DEF Search, OnSearch, now
  <1>3. now \in SearchState
    <2>1. CASE url = Search(NoParams)
      BY <1>1, <2>1, Linked DEF now, Search
    <2>2. CASE url = Search([mode |-> "map"])
      <3> DEFINE u == [mode |-> "map"]
      <3>1. DOMAIN u = {"mode"} /\ u["mode"] = "map"
        OBVIOUS
      <3> HIDE DEF u
      <3>2. Fields = {"q", "distances", "voivodeships", "dateRange"}
        BY DEF Fields, NoCriteria
      <3>3. [f \in Fields |-> Value(u, f, NoCriteria[f])] = [f \in Fields |-> NoCriteria[f]]
        BY <3>1, <3>2 DEF Value
      <3>4. [f \in Fields |-> NoCriteria[f]] = NoCriteria
        BY DEF Fields, NoCriteria
      <3>5. NoCriteria \in Criteria
        BY DEF NoCriteria, Criteria
      <3>6. /\ Value(u, "mode", "list") = "map" /\ AtLeast(1, Value(u, "page", 1)) = 1
            /\ Value(u, "bounds", None) = None
        BY <3>1 DEF Value, AtLeast
      <3>7. Parse(u) = [crit |-> NoCriteria, mode |-> "map", page |-> 1, bounds |-> None]
        BY <3>3, <3>4, <3>6 DEF Parse
      <3>8. Parse(u) \in SearchState
        BY <3>5, <3>7 DEF SearchState
      <3>9. QED
        BY <1>1, <2>2, <3>8 DEF now, Search, u
    <2>3. QED
      BY <1>1, <2>1, <2>2
  <1>4. LegibleOK
    BY <1>1, <1>2, <1>3 DEF LegibleOK, now
  <1>5. ListOK
    <2>1. InList <=> now.mode = "list"
      BY <1>2 DEF InList
    <2>2. QED
      BY <1>1, <1>3, <2>1, ListEffects, NewListTyped, Asked DEF ListOK
  <1>6. CASE now.mode = "list"
    <2>1. map = NoMap /\ syncs = <<>>
      BY <1>1, <1>6
    <2>2. MapOK /\ SyncsOK
      BY <1>6, <2>1, NoMapTyped DEF MapOK, SyncsOK
    <2>3. WishOK
      BY <1>1, <2>1, NoMapTyped DEF WishOK
    <2>4. QED
      BY <1>1, <1>4, <1>5, <2>2, <2>3, NumbersAssumption DEF ScreenInv
  <1>7. CASE now.mode # "list"
    <2>1. now.mode = "map"
      BY <1>3, <1>7 DEF SearchState
    <2>2. PICK area \in Areas : map = Opened(now, area) /\ syncs = <<Sync(now, area)>>
      BY <1>1, <1>7
    <2>3. /\ map \in MapType /\ map.up = TRUE /\ map.area = area /\ map.shown = None
          /\ map.timer = MapQuestion(now, area) /\ map.calls = {}
      BY <1>3, <2>2, OpenedMap
    <2>4. MapOK
      BY <1>2, <2>1, <2>3 DEF MapOK
    <2> DEFINE t == Sync(now, area)
    <2>5. t \in SyncType /\ t.own = TRUE /\ t.area = area /\ t.base = now
      BY <1>3 DEF Sync, SyncType
    <2> HIDE DEF t
    <2>6. syncs = <<t>>
      BY <2>2 DEF t
    <2>7. syncs \in Seq(SyncType) /\ DOMAIN syncs = {1} /\ Len(syncs) = 1 /\ syncs[1] = t
      BY <2>5, <2>6
    <2>8. SyncsOK
      BY <2>1, <2>3, <2>5, <2>7 DEF SyncsOK
    <2>9. WishOK
      BY <1>1, <2>5, <2>7 DEF WishOK
    <2>10. QED
      BY <1>1, <1>4, <1>5, <2>4, <2>8, <2>9, NumbersAssumption DEF ScreenInv
  <1>8. QED
    BY <1>6, <1>7

(* The invariant holds in every reachable state.                             *)
THEOREM Invariance == Spec => []ScreenInv
  BY InitHolds, StepKeeps, PTL DEF Spec

(* Type correctness: every URL the page writes is legible.                   *)
THEOREM TypeCorrect == Spec => []TypeOK
  <1>1. ScreenInv => TypeOK
    <2> SUFFICES ASSUME ScreenInv PROVE TypeOK
      OBVIOUS
    <2>1. \A i \in DOMAIN syncs : syncs[i] \in SyncType
      BY Facts, LenProperties DEF SyncsOK
    <2>2. QED
      BY <2>1, Facts DEF TypeOK, LegibleOK, ListOK, ListType, MapOK, MapType, SyncType
  <1>2. QED
    BY <1>1, Invariance, PTL

(* The URL says what the user asked for, and at rest where the map is.       *)
THEOREM UrlSaysWhatIsWanted == Spec => []UrlIsWanted
  <1>1. ScreenInv => UrlIsWanted
    BY Facts DEF WishOK, MapOK, UrlIsWanted, MapAtRest, now
  <1>2. QED
    BY <1>1, Invariance, PTL

-------------------------------------------------------------------------------
(* The list and the map keep the promise of LatestAnswer                     *)

(* A view that is drawn anew, or left, asks anew.                            *)
LEMMA ListAsksAnew ==
  ASSUME ScreenInv, [Next]_vars, Render \/ Reload
  PROVE  ListView!Ask
  <1>1. ScreenInv'
    BY StepKeeps
  <1>2. now' \in SearchState
    BY <1>1 DEF ScreenInv, LegibleOK, now
  <1>3. ListAsks' \in ListQuestions \cup {None}
    BY <1>2, Asked DEF ListAsks, ListQuestions, ListQuestion, SearchState
  <1>4. seen' = url
    BY DEF Render, Reload
  <1>5. PICK l \in ListType :
          /\ l.shown \in {list.shown, None}
          /\ list' = IF OnSearch(url) THEN ListEffect(l, Parse(url.params)) ELSE NewList
    BY NewListTyped, Facts DEF Render, Reload, ListOK
  <1>6. list'.shown \in {list.shown, None}
    BY <1>5, ListEffects, NewListTyped, Facts
  <1>7. InList' => list'.timer = ListQuestion(now)' /\ ListQuestion(now)' # None
    <2>1. InList' => OnSearch(url) /\ now'.mode = "list" /\ now' = Parse(url.params)
      BY <1>4 DEF InList, OnSearch, now
    <2>2. InList' => list'.timer = ListQuestion(Parse(url.params))
      BY <1>5, <2>1, ListEffects, Facts
    <2>3. ListQuestion(Parse(url.params)) # None
      BY Asked, Facts
    <2>4. InList' => ListQuestion(now)' = ListQuestion(Parse(url.params))
      BY <2>1 DEF ListQuestion
    <2>5. QED
      BY <2>2, <2>3, <2>4
  <1>8. ListStatus' = IF ListAsks' = None THEN "idle" ELSE "open"
    BY <1>7 DEF ListStatus, ListAsks
  <1>9. QED
    BY <1>3, <1>6, <1>8 DEF ListView!Ask

(* Every step is one of the list's promise, or changes nothing of it.        *)
LEMMA ListStep ==
  ASSUME ScreenInv, [Next]_vars
  PROVE  [ListView!Next]_<<ListAsks, list.shown, ListStatus>>
  <1>1. CASE Render \/ Reload
    BY <1>1, ListAsksAnew DEF ListView!Next
  <1>2. CASE ListTimer
    <2>1. /\ list.timer # None /\ seen' = seen
          /\ list' = [list EXCEPT !.timer = None, !.call = list.timer, !.loading = TRUE]
      BY <1>2 DEF ListTimer
    <2>2. list'.shown = list.shown /\ list'.timer = None /\ list'.call = list.timer
      BY <2>1, Facts DEF ListOK, ListType
    <2>3. QED
      BY <2>1, <2>2 DEF ListAsks, ListStatus, InList, now
  <1>3. CASE ListSettled
    <2>1. PICK shown \in {list.call, list.shown} :
            /\ list.call # None /\ seen' = seen
            /\ list' = [list EXCEPT !.call = None, !.loading = FALSE, !.shown = shown]
      BY <1>3 DEF ListSettled, ListAnswer, ListFails, ListSettles
    <2>2. list'.shown = shown /\ list'.timer = list.timer /\ list'.call = None
      BY <2>1, Facts DEF ListOK, ListType
    <2>3. InList /\ list.call = ListQuestion(now) /\ list.timer = None
      BY <2>1, Facts DEF ListOK
    <2>4. /\ ListStatus = "open" /\ ListAsks' = ListAsks /\ ListAsks = list.call
          /\ ListStatus' = IF shown = ListAsks THEN "answered" ELSE "failed"
      BY <2>1, <2>2, <2>3 DEF ListAsks, ListStatus, InList, now
    <2>5. QED
      BY <2>1, <2>2, <2>4 DEF ListView!Next, ListView!Show, ListView!Fail
  <1>4. ASSUME UNCHANGED <<seen, list.shown, list.timer, list.call>>
        PROVE  UNCHANGED <<ListAsks, list.shown, ListStatus>>
    BY <1>4 DEF ListAsks, ListStatus, InList, now
  <1>5. CASE User /\ ~Reload
    <2>1. seen' = seen /\ list' \in {list, [list EXCEPT !.loading = TRUE]}
      BY <1>5 DEF User, ChangeTerm, ToggleDistance, ToggleVoivodeship, ClearVoivodeships, PickDates,
         ClearDates, Edit, ChangeMode, ChangePage, OpenResult, OpenCard, OpenRace, Return,
         FollowLink, MoveMap, MoveEnds, Do
    <2>2. QED
      BY <1>4, <2>1, Facts DEF ListOK, ListType
  <1>6. CASE MapTimer \/ SyncFires \/ MapSettled \/ Fit \/ UNCHANGED vars
    <2>1. UNCHANGED <<seen, list>>
      BY <1>6
      DEF MapTimer, SyncFires, MapSettled, MapAnswer, MapFails, MapSettles, Fit, Fitted, MoveEnds, vars
    <2>2. QED
      BY <1>4, <2>1
  <1>7. QED
    BY <1>1, <1>2, <1>3, <1>5, <1>6 DEF Next, Timers

(* The safety part of ListFollows: the list shows the answer to what it asks *)
(* now, or keeps what it had (Search.tsx).                                   *)
THEOREM ListKeepsPromise == Spec => ListView!Spec
  <1>1. Init => ListView!Init
    <2> SUFFICES ASSUME Init PROVE ListView!Init
      OBVIOUS
    <2>1. ScreenInv
      BY InitHolds
    <2>2. list = ListEffect(NewList, now) /\ OnSearch(seen)
      BY DEF Init, Search, OnSearch
    <2>3. list.shown = None /\ (now.mode = "list" => list.timer = ListQuestion(now))
      BY <2>1, <2>2, ListEffects, NewListTyped, Facts
    <2>4. ListQuestion(now) \in ListQuestions /\ ListQuestion(now) # None
      BY <2>1, Asked, Facts
    <2>5. QED
      BY <2>2, <2>3, <2>4 DEF ListView!Init, ListAsks, ListStatus, InList
  <1>2. QED
    BY <1>1, ListStep, Invariance, PTL DEF Spec, ListView!Spec

(* A map that is opened, moved or left asks anew.                            *)
LEMMA MapStepAsks ==
  ASSUME ScreenInv, [Next]_vars,
         map'.shown \in {map.shown, None},
         map'.up => map'.timer # None
  PROVE  MapView!Ask
  <1>1. ScreenInv'
    BY StepKeeps
  <1>2. now' \in SearchState /\ (map'.up => map'.area \in Areas)
    BY <1>1 DEF ScreenInv, LegibleOK, MapOK, now
  <1>3. map'.up => MapQuestion(now, map.area)' \in MapQuestions
    BY <1>2 DEF MapQuestion, MapQuestions, SearchState
  <1>4. MapAsks' \in MapQuestions \cup {None} /\ (map'.up <=> MapAsks' # None)
    BY <1>3, QuestionsAssumption DEF MapAsks
  <1>5. MapStatus' = IF MapAsks' = None THEN "idle" ELSE "open"
    BY <1>4 DEF MapStatus
  <1>6. QED
    BY <1>4, <1>5 DEF MapView!Ask

(* Every step is one of the map's promise, or changes nothing of it.         *)
LEMMA MapStep ==
  ASSUME ScreenInv, [Next]_vars
  PROVE  [MapView!Next]_<<MapAsks, map.shown, MapStatus>>
  <1>1. CASE \E area \in Areas : MoveMap(area) \/ Fitted(area)
    <2>1. PICK area \in Areas :
            map' = MapEffect([map EXCEPT !.area = area, !.fitting = FALSE], now)
      BY <1>1 DEF MoveMap, Fitted, MoveEnds
    <2> DEFINE m == [map EXCEPT !.area = area, !.fitting = FALSE]
    <2>2. m \in MapType /\ m.area = area /\ m.shown = map.shown
      BY Facts DEF MapOK, MapType
    <2>3. map' = MapEffect(m, now)
      BY <2>1
    <2> HIDE DEF m
    <2>4. map'.shown = map.shown /\ map'.timer # None
      BY <2>2, <2>3, MapEffects, Asked, Facts
    <2>5. QED
      BY <2>4, MapStepAsks DEF MapView!Next
  <1>2. CASE Render \/ Reload
    <2>1. PICK s \in SearchState :
            \/ map' = NoMap
            \/ map.up /\ map' = MapEffect(map, s)
            \/ \E area \in Areas : map' = Opened(s, area)
      BY <1>2, Facts DEF Render, Draw, Reload, SearchState
    <2>2. map'.shown \in {map.shown, None} /\ (map'.up => map'.timer # None)
      <3>1. CASE map' = NoMap
        BY <3>1, NoMapTyped
      <3>2. CASE map.up /\ map' = MapEffect(map, s)
        BY <3>2, MapEffects, Asked, Facts DEF MapOK
      <3>3. CASE \E area \in Areas : map' = Opened(s, area)
        <4>1. PICK area \in Areas : map' = Opened(s, area)
          BY <3>3
        <4>2. Opened(s, area).shown = None /\ Opened(s, area).timer = MapQuestion(s, area)
              /\ MapQuestion(s, area) # None
          BY OpenedMap, Asked
        <4>3. QED
          BY <4>1, <4>2
      <3>4. QED
        BY <2>1, <3>1, <3>2, <3>3
    <2>3. QED
      BY <2>2, MapStepAsks DEF MapView!Next
  <1>3. CASE MapTimer
    <2> DEFINE call == [asks |-> map.timer, aborted |-> FALSE]
    <2>1. /\ map.timer # None /\ seen' = seen
          /\ map' = [map EXCEPT !.timer = None, !.loading = TRUE, !.calls = @ \cup {call}]
      BY <1>3 DEF MapTimer
    <2>2. /\ map'.calls = map.calls \cup {call} /\ map'.up = map.up /\ map'.area = map.area
          /\ map'.shown = map.shown
      BY <2>1, Facts DEF MapOK, MapType
    <2>3. Current(call)'
      BY DEF Current
    <2>4. map.up
      BY <2>1, Facts DEF MapOK
    <2>5. \E c \in map'.calls : Current(c)'
      <3>1. call \in map'.calls
        BY <2>2
      <3>2. \A c : c = call => Current(c)'
        BY DEF Current
      <3>3. QED
        BY <3>1, <3>2
    <2>6. QED
      BY <2>1, <2>2, <2>4, <2>5 DEF MapAsks, MapStatus, now
  <1>4. CASE MapSettled
    <2>1. PICK call \in map.calls : \E shown \in {call.asks, map.shown} : MapSettles(call, shown)
      BY <1>4 DEF MapSettled, MapAnswer, MapFails
    <2>2. PICK shown \in {call.asks, map.shown} :
            /\ seen' = seen
            /\ map' = [map EXCEPT !.calls = @ \ {call},
                                  !.shown = IF Current(call) THEN shown ELSE @,
                                  !.loading = @ /\ ~Current(call)]
      BY <2>1 DEF MapSettles
    <2>3. /\ map'.calls = map.calls \ {call} /\ map'.up = map.up /\ map'.area = map.area
          /\ map'.timer = map.timer /\ map'.shown = IF Current(call) THEN shown ELSE map.shown
          /\ map.up
      BY <2>2, Facts DEF MapOK, MapType
    <2>4. CASE ~Current(call)
      <3>1. (\E c \in map'.calls : Current(c)') <=> \E c \in map.calls : Current(c)
        BY <2>3, <2>4 DEF Current
      <3>2. QED
        BY <2>2, <2>3, <2>4, <3>1 DEF MapAsks, MapStatus, now
    <2>5. CASE Current(call)
      <3>1. call.asks = MapQuestion(now, map.area) /\ map.timer = None
        BY <2>5, Facts DEF MapOK
      <3>2. \A c \in map.calls : Current(c) => c = call
        BY <2>5, Facts DEF MapOK, MapType, Current
      <3>3. ~\E c \in map'.calls : Current(c)'
        BY <2>3, <3>2 DEF Current
      <3>4. /\ MapStatus = "open" /\ MapAsks' = MapAsks /\ MapAsks = call.asks
            /\ MapStatus' = IF shown = MapAsks THEN "answered" ELSE "failed"
        BY <2>2, <2>3, <2>5, <3>1, <3>3 DEF MapAsks, MapStatus, now
      <3>5. QED
        BY <2>2, <2>3, <2>5, <3>4 DEF MapView!Next, MapView!Show, MapView!Fail
    <2>6. QED
      BY <2>4, <2>5
  <1>5. ASSUME UNCHANGED <<seen, map>>
        PROVE  UNCHANGED <<MapAsks, map.shown, MapStatus>>
    BY <1>5 DEF MapAsks, MapStatus, Current, now
  <1>6. CASE User /\ ~Reload /\ ~\E area \in Areas : MoveMap(area)
    <2>1. UNCHANGED <<seen, map>>
      BY <1>6 DEF User, ChangeTerm, ToggleDistance, ToggleVoivodeship, ClearVoivodeships, PickDates,
         ClearDates, Edit, ChangeMode, ChangePage, OpenResult, OpenCard, OpenRace, Return,
         FollowLink, Do
    <2>2. QED
      BY <1>5, <2>1
  <1>7. CASE ListTimer \/ SyncFires \/ ListSettled \/ UNCHANGED vars
    <2>1. UNCHANGED <<seen, map>>
      BY <1>7 DEF ListTimer, SyncFires, ListSettled, ListAnswer, ListFails, ListSettles, vars
    <2>2. QED
      BY <1>5, <2>1
  <1>8. QED
    BY <1>1, <1>2, <1>3, <1>4, <1>6, <1>7 DEF Next, Timers, Fit

(* The safety part of MapFollows: whatever the order in which overlapping    *)
(* requests of the map are answered (MapSearchView.tsx).                     *)
THEOREM MapKeepsPromise == Spec => MapView!Spec
  <1>1. Init => MapView!Init
    <2> SUFFICES ASSUME Init PROVE MapView!Init
      OBVIOUS
    <2>1. ScreenInv
      BY InitHolds
    <2>2. map = NoMap \/ \E area \in Areas : map = Opened(now, area)
      BY DEF Init
    <2>3. map.shown = None /\ (map.up => map.timer # None)
      <3>1. CASE map = NoMap
        BY <3>1, NoMapTyped
      <3>2. ASSUME NEW area \in Areas, map = Opened(now, area)
            PROVE  map.shown = None /\ map.timer # None
        <4>1. Opened(now, area).shown = None /\ Opened(now, area).timer = MapQuestion(now, area)
              /\ MapQuestion(now, area) # None
          BY <2>1, OpenedMap, Asked, Facts
        <4>2. QED
          BY <3>2, <4>1
      <3>3. QED
        BY <2>2, <3>1, <3>2
    <2>4. map.up => MapQuestion(now, map.area) \in MapQuestions /\ MapQuestion(now, map.area) # None
      BY <2>1, Asked, Facts DEF MapOK
    <2>5. QED
      BY <2>3, <2>4 DEF MapView!Init, MapAsks, MapStatus
  <1>2. QED
    BY <1>1, MapStep, Invariance, PTL DEF Spec, MapView!Spec
====
