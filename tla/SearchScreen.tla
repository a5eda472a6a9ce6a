----------------------------- MODULE SearchScreen -----------------------------
(*****************************************************************************)
(* The search page of the browser: the search state kept in the URL          *)
(* (useSearchState), the list (Search.tsx), the map (MapSearchView, RaceMap) *)
(* and the way to a race and back.                                           *)
(*                                                                           *)
(* A handler with the state updates, effects and clean-ups it leads to is    *)
(* one step.  A navigation changes the URL at once and the screen later      *)
(* (Render): react-router renders in a transition, and handlers, also those  *)
(* of timers, belong to the screen that was drawn when they were made.       *)
(* An answer of the server is the question it answers.                       *)
(*****************************************************************************)
EXTENDS Integers, Sequences, FiniteSets

CONSTANTS
  Terms, Distances, Voivodeships, DateRanges,  \* what a search can ask for
  Areas,     \* bounds of the map
  Pages,     \* totalPages of an answer
  None,      \* null, the empty string or set
  MaxMoves   \* bound: actions of the user

ASSUME NoneAssumption == None \notin Terms \cup DateRanges \cup Areas
ASSUME NumbersAssumption == {Pages, MaxMoves} \subseteq Nat

VARIABLES
  url,     \* the browser's location: where, and the parameters; on a race page
           \* these are the parameters of its return link
  seen,    \* the location drawn on the screen
  list,    \* Search.tsx: what it shows, its timer and its request
  map,     \* MapSearchView: the same, its area and its requests
  syncs,   \* the timers that will write an area into the URL, first one first
  moves,   \* actions of the user, counted against MaxMoves
  wanted   \* history: what the user asked for, None once it was overtaken

vars == <<url, seen, list, map, syncs, moves, wanted>>

-----------------------------------------------------------------------------
(* The search state and its form in the URL                                  *)

Criteria ==
  [q: Terms \cup {None}, distances: SUBSET Distances,
   voivodeships: SUBSET Voivodeships, dateRange: DateRanges \cup {None}]
NoCriteria == [q |-> None, distances |-> {}, voivodeships |-> {}, dateRange |-> None]
Fields == DOMAIN NoCriteria
SearchState ==
  [crit: Criteria, mode: {"list", "map"}, page: Nat \ {0}, bounds: Areas \cup {None}]

Value(u, p, default) == IF p \in DOMAIN u THEN u[p] ELSE default
AtLeast(low, n) == IF n < low THEN low ELSE n
AtMost(high, n) == IF n > high THEN high ELSE n

(* Half a date range, an unknown mode or an illegible page count as absent.  *)
Parse(u) ==
  LET mode == Value(u, "mode", "list")
  IN [crit |-> [f \in Fields |-> Value(u, f, NoCriteria[f])],
      mode |-> mode,
      page |-> AtLeast(1, Value(u, "page", 1)),
      bounds |-> IF mode = "map" THEN Value(u, "bounds", None) ELSE None]

PresentMutant(s) ==
  {f \in Fields : s.crit[f] # NoCriteria[f]}
    \cup {p \in {"mode"} : s.mode = "map"}
    \cup {p \in {"bounds"} : s.mode = "map" /\ s.bounds # None}
Present(s) ==
  {f \in Fields : s.crit[f] # NoCriteria[f]}
    \cup {p \in {"mode"} : s.mode = "map"}
    \cup {p \in {"page"} : s.page > 1}
    \cup {p \in {"bounds"} : s.mode = "map" /\ s.bounds # None}
Serialize(s) ==
  [p \in Present(s) |-> IF p \in Fields THEN s.crit[p]
                        ELSE IF p = "mode" THEN s.mode
                        ELSE IF p = "page" THEN s.page ELSE s.bounds]

Search(u) == [at |-> "search", params |-> u]
Race(back) == [at |-> "race", params |-> back]
OnSearch(place) == place.at = "search"
now == Parse(seen.params)

(* What the two views ask the server.                                        *)
ListQuestions == [crit: Criteria, page: Nat \ {0}]
MapQuestions == [crit: Criteria, area: Areas]
ASSUME QuestionsAssumption == None \notin ListQuestions \cup MapQuestions
ListQuestion(s) == [crit |-> s.crit, page |-> s.page]
MapQuestion(s, area) == [crit |-> s.crit, area |-> area]

(* The pages that have a link, next to Previous and Next.                    *)
PageNumbers(current, total) ==
  IF total <= 7 THEN 1..total
  ELSE {1, total} \cup (AtLeast(2, current - 1) .. AtMost(total - 1, current + 1))
PageLinks(current) ==
  PageNumbers(current, Pages)
    \cup {p \in {current - 1} : current > 1}
    \cup {p \in {current + 1} : current < Pages}

-----------------------------------------------------------------------------
(* Effects of a new screen                                                   *)

NewList == [loading |-> TRUE, shown |-> None, timer |-> None, call |-> None]
NoMap == [up |-> FALSE, area |-> None, fitting |-> FALSE, loading |-> FALSE,
          shown |-> None, timer |-> None, calls |-> {}]

(* The aborted request ends the loading state at once: its finally does not  *)
(* ask whether it is the current one.                                        *)
ListCleanUpMutant(l) == [l EXCEPT !.timer = None]
ListCleanUp(l) ==
  [l EXCEPT !.timer = None, !.call = None, !.loading = @ /\ l.call = None]
ListEffect(l, s) ==
  IF s.mode = "list" THEN [ListCleanUp(l) EXCEPT !.timer = ListQuestion(s)]
  ELSE ListCleanUp(l)

(* Aborted requests of the map may still be settling.  The generation is     *)
(* raised by the effect whose clean-up aborts, so both tests of the code     *)
(* agree.  Which earlier search an aborted request asked for is forgotten.   *)
Aborted(calls) == {[c EXCEPT !.asks = None, !.aborted = TRUE] : c \in calls}
MapEffect(m, s) ==
  [m EXCEPT !.timer = MapQuestion(s, m.area), !.calls = Aborted(@)]
OpenedMutant(s, area) == [NoMap EXCEPT !.up = TRUE, !.timer = MapQuestion(s, None)]
(* A map opened with bounds is fitted to them, which moves it (Fitted).      *)
Opened(s, area) ==
  MapEffect([NoMap EXCEPT !.up = TRUE, !.area = area, !.fitting = s.bounds # None], s)

(* The map reports its area: the URL follows when it has rested.  Nobody     *)
(* clears the timer of a view that is gone.  That of the view that is up is  *)
(* the last one.                                                             *)
Sync(s, area) == [own |-> TRUE, base |-> s, area |-> area]
Replaced(sync) ==
  IF \E i \in DOMAIN syncs : syncs[i].own
  THEN [syncs EXCEPT ![Len(syncs)] = sync] ELSE Append(syncs, sync)
Orphaned == [i \in DOMAIN syncs |-> [syncs[i] EXCEPT !.own = FALSE]]

(* The views drawn for the location new.  A map without an area in the URL   *)
(* reports the one it starts with.                                           *)
Draw(new, mapStays) ==
  LET s == Parse(new.params)
      mapped == OnSearch(new) /\ s.mode = "map"
  IN \/ ~mapped /\ map' = NoMap /\ syncs' = Orphaned
     \/ mapped /\ mapStays /\ map' = MapEffect(map, s) /\ syncs' = syncs
     \/ mapped /\ ~mapStays /\ s.bounds # None /\ map' = Opened(s, s.bounds) /\ syncs' = syncs
     \/ /\ mapped /\ ~mapStays /\ s.bounds = None
        /\ \E area \in Areas : map' = Opened(s, area) /\ syncs' = Replaced(Sync(s, area))

Render ==
  /\ url # seen
  /\ seen' = url
  /\ list' = IF OnSearch(url)
             THEN ListEffect(IF OnSearch(seen) THEN list ELSE NewList, Parse(url.params))
             ELSE NewList
  /\ Draw(url, map.up)
  /\ UNCHANGED <<url, moves, wanted>>

-----------------------------------------------------------------------------
(* The user.  What a handler changes, it changes in the state drawn.         *)

Wish(place) ==
  LET s == Parse(place.params)
  IN [at |-> place.at, crit |-> s.crit, mode |-> s.mode, page |-> s.page]

Do(wish) ==
  /\ moves < MaxMoves
  /\ moves' = moves + 1
  /\ wanted' = IF wanted = None \/ seen # url THEN None ELSE wish
  /\ UNCHANGED <<seen, map, syncs>>
Update(s) == url' = Search(Serialize(s))

Edit(f, v) ==
  /\ OnSearch(seen) /\ moves < MaxMoves
  /\ Update([now EXCEPT !.crit[f] = v, !.page = 1])
  /\ list' = list
  /\ Do([wanted EXCEPT !.crit[f] = v, !.page = 1])

Toggled(set, x) == IF x \in set THEN set \ {x} ELSE set \cup {x}

(* Typing, or the button that clears a term.                                 *)
ChangeTerm == \E term \in (Terms \cup {None}) \ {now.crit.q} : Edit("q", term)
ToggleDistance == \E d \in Distances : Edit("distances", Toggled(now.crit.distances, d))
ToggleVoivodeship ==
  \E v \in Voivodeships : Edit("voivodeships", Toggled(now.crit.voivodeships, v))
ClearVoivodeships == now.crit.voivodeships # {} /\ Edit("voivodeships", {})
(* The calendar reports a range when it has both ends.                       *)
PickDates == \E range \in DateRanges : Edit("dateRange", range)
ClearDates == now.crit.dateRange # None /\ Edit("dateRange", None)

ChangeMode(m) ==
  /\ OnSearch(seen) /\ now.mode # m
  /\ Update([now EXCEPT !.mode = m, !.page = 1])
  /\ list' = list
  /\ Do([wanted EXCEPT !.mode = m, !.page = 1])

ListDraws ==
  IF list.loading THEN "skeleton"
  ELSE IF list.shown = None THEN "no races found" ELSE "races"
MapDraws == IF map.shown = None THEN "nothing" ELSE "cards"
InList == OnSearch(seen) /\ now.mode = "list"

ChangePage(p) ==
  /\ InList /\ ListDraws = "races" /\ Pages > 1 /\ p \in PageLinks(now.page)
  /\ list' = [list EXCEPT !.loading = TRUE]
  /\ Update([now EXCEPT !.page = p])
  /\ Do([wanted EXCEPT !.page = p])

(* A result, or a card of the map, leads to its race; the link remembers the *)
(* search, and the race page leads back to it.                               *)
OpenRace ==
  /\ url' = Race(seen.params)
  /\ list' = list
  /\ Do([wanted EXCEPT !.at = "race"])
OpenResult == InList /\ ListDraws = "races" /\ OpenRace
OpenCard == MapDraws = "cards" /\ OpenRace
Return ==
  /\ ~OnSearch(seen)
  /\ url' = Search(seen.params)
  /\ list' = list
  /\ Do([wanted EXCEPT !.at = "search"])

(* The header's link home; the home page's links to a distance or region.    *)
NoParams == [p \in {} |-> None]
QuickLinks == {[distances |-> {d}] : d \in Distances} \cup {[voivodeships |-> {v}] : v \in Voivodeships}
FollowLink(u) ==
  /\ u = NoParams \/ InList
  /\ url' = Search(u)
  /\ moves < MaxMoves /\ moves' = moves + 1
  /\ wanted' = Wish(Search(u))
  /\ UNCHANGED <<seen, list, map, syncs>>

(* The end of a movement, that of the user or that of fitting the bounds.    *)
MoveEnds(area) ==
  /\ map' = MapEffect([map EXCEPT !.area = area, !.fitting = FALSE], now)
  /\ syncs' = Replaced(Sync(now, area))
  /\ UNCHANGED <<url, seen, list, wanted>>
MoveMap(area) ==
  /\ map.up /\ area # map.area /\ moves < MaxMoves
  /\ moves' = moves + 1
  /\ MoveEnds(area)
(* What the map shows then need not be the bounds: it contains them.  A      *)
(* movement that is not animated is over before the map is watched, and is   *)
(* not reported, so this step may never come.                                *)
Fitted(area) == map.fitting /\ MoveEnds(area) /\ UNCHANGED moves

(* The browser loads the page again: only the URL is left.                   *)
Reload ==
  /\ moves < MaxMoves /\ moves' = moves + 1
  /\ seen' = url
  /\ list' = IF OnSearch(url) THEN ListEffect(NewList, Parse(url.params)) ELSE NewList
  /\ \E s \in {Parse(url.params)} :
       IF OnSearch(url) /\ s.mode = "map"
       THEN \E area \in IF s.bounds = None THEN Areas ELSE {s.bounds} :
              /\ map' = Opened(s, area)
              /\ syncs' = IF s.bounds = None THEN <<Sync(s, area)>> ELSE <<>>
       ELSE map' = NoMap /\ syncs' = <<>>
  /\ UNCHANGED <<url, wanted>>

-----------------------------------------------------------------------------
(* Timers and answers                                                        *)

ListTimer ==
  /\ list.timer # None
  /\ list' = [list EXCEPT !.timer = None, !.call = list.timer, !.loading = TRUE]
  /\ UNCHANGED <<url, seen, map, syncs, moves, wanted>>

(* An error, whose body cannot be read as results, and a failed request      *)
(* leave the old results.                                                    *)
ListSettles(shown) ==
  /\ list.call # None
  /\ list' = [list EXCEPT !.call = None, !.loading = FALSE, !.shown = shown]
  /\ UNCHANGED <<url, seen, map, syncs, moves, wanted>>
ListAnswer == ListSettles(list.call)
ListFails == ListSettles(list.shown)

MapTimer ==
  /\ map.timer # None
  /\ map' = [map EXCEPT !.timer = None, !.loading = TRUE,
                        !.calls = @ \cup {[asks |-> map.timer, aborted |-> FALSE]}]
  /\ UNCHANGED <<url, seen, list, syncs, moves, wanted>>

CurrentMutant(call) == TRUE
Current(call) == ~call.aborted
MapSettles(call, shown) ==
  /\ map' = [map EXCEPT !.calls = @ \ {call},
                        !.shown = IF Current(call) THEN shown ELSE @,
                        !.loading = @ /\ ~Current(call)]
  /\ UNCHANGED <<url, seen, list, syncs, moves, wanted>>
MapAnswer(call) == MapSettles(call, call.asks)
MapFails(call) == MapSettles(call, map.shown)

(* The handler of the screen on which the map was moved writes its state.    *)
SyncFiresMutant ==
  /\ syncs # <<>>
  /\ Update(Head(syncs).base)
  /\ syncs' = Tail(syncs)
  /\ UNCHANGED <<seen, list, map, moves, wanted>>
SyncFires ==
  /\ syncs # <<>>
  /\ LET t == Head(syncs)
     IN /\ Update([t.base EXCEPT !.bounds = t.area])
        /\ wanted' = IF t.own /\ wanted = Wish(Search(Serialize(t.base)))
                     THEN wanted ELSE None
  /\ syncs' = Tail(syncs)
  /\ UNCHANGED <<seen, list, map, moves>>

-----------------------------------------------------------------------------
Init ==
  /\ url \in {Search(NoParams), Search([mode |-> "map"])}
  /\ seen = url
  /\ list = ListEffect(NewList, now)
  /\ IF now.mode = "list" THEN map = NoMap /\ syncs = <<>>
     ELSE \E area \in Areas : map = Opened(now, area) /\ syncs = <<Sync(now, area)>>
  /\ moves = 0
  /\ wanted = Wish(url)

User ==
  \/ ChangeTerm \/ ToggleDistance \/ ToggleVoivodeship \/ ClearVoivodeships
  \/ PickDates \/ ClearDates
  \/ \E m \in {"list", "map"} : ChangeMode(m)
  \/ \E p \in 1..(Pages + 1) : ChangePage(p)
  \/ OpenResult \/ OpenCard \/ Return \/ Reload
  \/ \E u \in {NoParams} \cup QuickLinks : FollowLink(u)
  \/ \E area \in Areas : MoveMap(area)
Timers == ListTimer \/ MapTimer \/ SyncFires
ListSettled == ListAnswer \/ ListFails
MapSettled == \E call \in map.calls : MapAnswer(call) \/ MapFails(call)

Fit == \E area \in Areas : Fitted(area)

Next == User \/ Render \/ Fit \/ Timers \/ ListSettled \/ MapSettled
Spec == Init /\ [][Next]_vars
(* The browser goes on as long as it has something to draw, a timer to fire  *)
(* or a request to settle, in whatever order; nobody needs to do anything on *)
(* the page.                                                                 *)
Browser == UNCHANGED moves /\ (Render \/ Timers \/ ListSettled \/ MapSettled)
FairSpec == Spec /\ WF_vars(Browser)

-----------------------------------------------------------------------------
(* Type correctness.  A URL is known by the search state it stands for.      *)
TypeOK ==
  /\ \A place \in {url, seen} : place.at \in {"search", "race"} /\ Parse(place.params) \in SearchState
  /\ list.loading \in BOOLEAN
  /\ list.shown \in ListQuestions \cup {None}
  /\ {list.timer, list.call} \subseteq ListQuestions \cup {None}
  /\ {map.up, map.fitting, map.loading} \subseteq BOOLEAN
  /\ map.area \in Areas \cup {None}
  /\ {map.shown, map.timer} \subseteq MapQuestions \cup {None}
  /\ map.calls \subseteq [asks: MapQuestions \cup {None}, aborted: BOOLEAN]
  /\ \A i \in DOMAIN syncs :
       syncs[i].own \in BOOLEAN /\ syncs[i].base \in SearchState /\ syncs[i].area \in Areas
  /\ moves \in 0..MaxMoves

(* The list keeps the promise of LatestAnswer: an answer to an earlier       *)
(* search never comes on the screen, and in the end the present one does or  *)
(* has failed (Search.tsx: timer, abort, clean-up).                          *)
ListAsks == IF InList THEN ListQuestion(now) ELSE None
ListStatus ==
  IF ~InList THEN "idle"
  ELSE IF list.timer # None \/ list.call # None THEN "open"
  ELSE IF list.shown = ListQuestion(now) THEN "answered" ELSE "failed"
ListView == INSTANCE LatestAnswer WITH
  Questions <- ListQuestions, question <- ListAsks, shown <- list.shown, status <- ListStatus
ListFollows == ListView!Settles

(* So does the map, whose requests overlap (MapSearchView.tsx: generation    *)
(* and abort).                                                               *)
MapAsks == IF map.up THEN MapQuestion(now, map.area) ELSE None
MapStatus ==
  IF ~map.up THEN "idle"
  ELSE IF map.timer # None \/ \E c \in map.calls : Current(c) THEN "open"
  ELSE IF map.shown = MapQuestion(now, map.area) THEN "answered" ELSE "failed"
MapView == INSTANCE LatestAnswer WITH
  Questions <- MapQuestions, question <- MapAsks, shown <- map.shown, status <- MapStatus
MapFollows == MapView!Settles

(* The URL says what the user asked for, through edits, modes, pages, visits *)
(* to a race, links and reloads, and at rest the area of the map, so that a  *)
(* reload or a return shows it again: unless an action came before the last  *)
(* one was drawn, or a sync was older than the last action or than its view  *)
(* (useSearchState: updateState; MapSearchView: the sync timer).             *)
MapAtRest == seen = url /\ map.up /\ \A i \in DOMAIN syncs : ~syncs[i].own
UrlIsWanted ==
  wanted # None => wanted = Wish(url) /\ (MapAtRest => map.area = now.bounds)
===============================================================================
