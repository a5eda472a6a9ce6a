------------------------------- MODULE Watchlist ------------------------------
(*****************************************************************************)
(* The watchlist of one user: the rows of the server, the requests that      *)
(* check, add and remove them, and the three places of the browser that draw *)
(* them: the button of a race page (useWatchlist, WatchlistButton), the      *)
(* hearts of the search results (useWatchlistStatuses, SearchResult) and the *)
(* watchlist page (WatchlistPage, WatchlistCard).                            *)
(*                                                                           *)
(* One screen is mounted at a time; requests it leaves behind, and those of  *)
(* another tab, are served like its own.                                     *)
(*****************************************************************************)
EXTENDS Naturals, FiniteSets

CONSTANTS
  Races,
  None,          \* null, or an undefined property
  MaxVisits,     \* bound: screens and lists of results
  MaxClicks      \* bound: clicks on hearts, here and in another tab

ASSUME NoneAssumption == None \notin Races /\ \A rs \in SUBSET Races : None # rs
ASSUME BoundsAssumption == {MaxVisits, MaxClicks} \subseteq Nat

VARIABLES
  user,      \* whether somebody is logged in
  entries,   \* the rows [race, id] of the user
  requests,  \* requests under way
  screen,    \* what is mounted, and its state
  visits, clicks,  \* counted against their bounds
  excuses    \* history: why the screen may differ from the entries

vars == <<user, entries, requests, screen, visits, clicks, excuses>>

Watched == {e.race : e \in entries}

-----------------------------------------------------------------------------
(* The server                                                                *)

Request(by, op, races) ==
  [id |-> IF op = "GET" THEN 0 ELSE clicks + 1, by |-> by, op |-> op,
   races |-> races, at |-> "sent", found |-> {}, answer |-> {}]
(* Nobody waits for the answer of a request that was left behind.            *)
Awaited(q) == q.by = "screen" \/ q.at \in {"sent", "absent", "found"}
Becomes(q, next) == requests' = {x \in (requests \ {q}) \cup {next} : Awaited(x)}

(* POST and DELETE look for the entry first.  A race id that is none is      *)
(* refused.                                                                  *)
Found(q) == {e \in entries : e.race \in q.races}
Find(q) ==
  /\ q.op \in {"POST", "DELETE"} /\ q.at = "sent"
  /\ Becomes(q, [q EXCEPT !.found = Found(q),
                          !.at = IF q.races = {None} THEN "refused"
                                 ELSE IF (Found(q) # {}) = (q.op = "POST") THEN "refused"
                                 ELSE IF q.op = "POST" THEN "absent" ELSE "found"])
  /\ UNCHANGED <<user, entries, screen, visits, clicks, excuses>>

Changed(q) ==
  excuses' = excuses \cup {x \in {"elsewhere"} : q.by # "screen" /\ entries' # entries}

(* The unique key of user and race turns a second entry into a conflict.     *)
InsertMutant(q) ==
  /\ q.at = "absent"
  /\ entries' = entries \cup [race: q.races, id: {q.id}]
  /\ Becomes(q, [q EXCEPT !.at = "done"])
  /\ Changed(q)
  /\ UNCHANGED <<user, screen, visits, clicks>>
Insert(q) ==
  /\ q.at = "absent"
  /\ entries' = IF Found(q) # {} THEN entries
                ELSE entries \cup [race: q.races, id: {q.id}]
  /\ Becomes(q, [q EXCEPT !.at = IF Found(q) # {} THEN "refused" ELSE "done"])
  /\ Changed(q)
  /\ UNCHANGED <<user, screen, visits, clicks>>

(* The entry that was found is deleted, if it is still there.                *)
Delete(q) ==
  /\ q.at = "found"
  /\ entries' = entries \ q.found
  /\ Becomes(q, [q EXCEPT !.at = "done"])
  /\ Changed(q)
  /\ UNCHANGED <<user, screen, visits, clicks>>

(* GET check, POST check of many races, GET of the list.                     *)
Read(q) ==
  /\ q.op = "GET" /\ q.at = "sent"
  /\ Becomes(q, [q EXCEPT !.answer = Watched \cap q.races, !.at = "done"])
  /\ UNCHANGED <<user, entries, screen, visits, clicks, excuses>>

-----------------------------------------------------------------------------
(* The screens                                                               *)

NoScreen == [kind |-> "other", races |-> {}, watched |-> None, timer |-> FALSE]

OfScreen == {q \in requests : q.by = "screen"}
(* A screen that goes leaves its reads unread and its writes to themselves.  *)
LeftBehind ==
  {q \in {[x EXCEPT !.by = "elsewhere"] : x \in requests} : q.op # "GET" /\ Awaited(q)}

(* What is drawn as watched.                                                 *)
Hearts ==
  CASE screen.kind = "button" -> {r \in screen.races : screen.watched = {r}}
    [] screen.kind = "results" -> screen.watched \cap screen.races
    [] screen.kind = "page" /\ screen.watched # None -> screen.watched
    [] OTHER -> {}
Loading == user /\ screen.kind \in {"button", "page"} /\ screen.watched = None

Show(s, asks) ==
  /\ visits < MaxVisits /\ visits' = visits + 1
  /\ screen' = s
  /\ requests' = LeftBehind \cup {Request("screen", "GET", a) : a \in {x \in asks : user}}
  /\ excuses' = {}
  /\ UNCHANGED <<user, entries, clicks>>

(* The button asks for its race, the results for all of theirs; the page     *)
(* asks for everything when its timer fires.                                 *)
ShowRace(r) == Show([NoScreen EXCEPT !.kind = "button", !.races = {r}], {{r}})
ShowResults(rs) ==
  /\ screen.kind # "results"
  /\ Show([NoScreen EXCEPT !.kind = "results", !.races = rs, !.watched = {}],
          {rs} \ {{}})
ShowWatchlist ==
  Show([NoScreen EXCEPT !.kind = "page", !.races = Races, !.timer = user], {})

(* Other results: the check before is aborted, what it said is kept.         *)
NewResults(rs) ==
  /\ screen.kind = "results" /\ rs # screen.races
  /\ visits < MaxVisits /\ visits' = visits + 1
  /\ screen' = [screen EXCEPT !.races = rs]
  /\ requests' = {q \in requests : ~(q.op = "GET" /\ q.by = "screen")}
                   \cup {Request("screen", "GET", a) : a \in {x \in {rs} : user /\ x # {}}}
  /\ excuses' = excuses \cup {x \in {"overlap"} : \E q \in OfScreen : q.op # "GET"}
  /\ UNCHANGED <<user, entries, clicks>>

PageTimer ==
  /\ screen.timer
  /\ screen' = [screen EXCEPT !.timer = FALSE, !.watched = None]
  /\ requests' = requests \cup {Request("screen", "GET", Races)}
  /\ UNCHANGED <<user, entries, visits, clicks, excuses>>

MethodMutant(r) == IF r \in Hearts THEN "DELETE" ELSE "PUT"
Method(r) == IF r \in Hearts THEN "DELETE" ELSE "POST"
(* The entries of the API have no property raceId, which the page asks for.  *)
RaceIdOf(r) == None

(* A click is excused by what is under way: for the button any write, for a  *)
(* result the opposite write of its race, for all a read.                    *)
Overlaps(r, op) ==
  \E q \in OfScreen : \/ q.op = "GET"
                      \/ screen.kind = "button"
                      \/ screen.kind = "results" /\ q.races = {r} /\ q.op # op
Click(r, op, asks) ==
  /\ clicks < MaxClicks /\ clicks' = clicks + 1
  /\ requests' = requests \cup {Request("screen", op, {asks})}
  /\ excuses' = excuses \cup {x \in {"overlap"} : Overlaps(r, op)}
  /\ UNCHANGED <<user, entries, screen, visits>>

ToggleButton(r) ==
  /\ user /\ screen.kind = "button" /\ screen.races = {r} /\ ~Loading
  /\ Click(r, Method(r), r)
(* Without a login the heart of a result only offers one.                    *)
ToggleResult(r) ==
  /\ user /\ screen.kind = "results" /\ r \in screen.races
  /\ Click(r, Method(r), r)
RemoveFromPage(r) ==
  /\ user /\ screen.kind = "page" /\ ~Loading /\ r \in screen.watched
  /\ Click(r, "DELETE", RaceIdOf(r))

(* Another tab.                                                              *)
Elsewhere(r, op) ==
  /\ user /\ clicks < MaxClicks /\ clicks' = clicks + 1
  /\ requests' = requests \cup {Request("elsewhere", op, {r})}
  /\ UNCHANGED <<user, entries, screen, visits, excuses>>

-----------------------------------------------------------------------------
(* Answers                                                                   *)

Answered(q, watched) ==
  /\ screen' = [screen EXCEPT !.watched = watched]
  /\ requests' = requests \ {q}
  /\ UNCHANGED <<user, entries, visits, clicks>>

ReadAnswer(q) ==
  /\ q.by = "screen" /\ q.op = "GET" /\ q.at = "done"
  /\ Answered(q, q.answer)
  /\ excuses' = excuses

(* An error or no answer counts as nothing watched.                          *)
ReadFails(q) ==
  /\ q.by = "screen" /\ q.op = "GET"
  /\ Answered(q, {})
  /\ excuses' = excuses \cup {"lost"}

(* The button turns into the opposite of what it then is; a heart of the     *)
(* results into the opposite of what it was when it was clicked.             *)
FlippedMutant(q) ==
  (screen.watched \ q.races) \cup (q.races \ screen.watched)
Flipped(q) ==
  IF screen.kind = "button" THEN IF screen.watched = {} THEN q.races ELSE {}
  ELSE IF q.op = "DELETE" THEN screen.watched \ q.races ELSE screen.watched \cup q.races
WriteSucceeds(q) ==
  /\ q.by = "screen" /\ q.op # "GET" /\ q.at = "done"
  /\ Answered(q, Flipped(q))
  /\ excuses' = excuses

WriteRefused(q) ==
  /\ q.by = "screen" /\ q.op # "GET" /\ q.at = "refused"
  /\ Answered(q, screen.watched)
  /\ excuses' = excuses

WriteLost(q) ==
  /\ q.by = "screen" /\ q.op # "GET"
  /\ screen' = screen
  /\ Becomes(q, [q EXCEPT !.by = "elsewhere"])
  /\ excuses' = excuses \cup {"lost"}
  /\ UNCHANGED <<user, entries, visits, clicks>>

-----------------------------------------------------------------------------
Init ==
  /\ user \in BOOLEAN
  /\ \E rs \in SUBSET Races : entries = [race: {r \in rs : user}, id: {0}]
  /\ requests = {}
  /\ screen = NoScreen
  /\ visits = 0 /\ clicks = 0
  /\ excuses = {}

User ==
  \/ \E r \in Races : ShowRace(r) \/ ToggleButton(r) \/ ToggleResult(r) \/ RemoveFromPage(r)
  \/ \E rs \in SUBSET Races : ShowResults(rs) \/ NewResults(rs)
  \/ ShowWatchlist
  \/ \E r \in Races, op \in {"POST", "DELETE"} : Elsewhere(r, op)
Served == \E q \in requests : Find(q) \/ Insert(q) \/ Delete(q) \/ Read(q)
Ends == \E q \in requests :
  ReadAnswer(q) \/ ReadFails(q) \/ WriteSucceeds(q) \/ WriteRefused(q) \/ WriteLost(q)

Next == User \/ PageTimer \/ Served \/ Ends
Spec == Init /\ [][Next]_vars

-----------------------------------------------------------------------------
(* Type correctness.                                                         *)
TypeOK ==
  /\ user \in BOOLEAN
  /\ entries \subseteq [race: Races, id: Nat]
  /\ \A q \in requests :
       /\ q.id \in Nat /\ q.by \in {"screen", "elsewhere"}
       /\ q.op \in {"GET", "POST", "DELETE"} /\ q.races \subseteq Races \cup {None}
       /\ q.at \in {"sent", "absent", "found", "refused", "done"}
       /\ q.found \subseteq [race: Races, id: Nat] /\ q.answer \subseteq Races
  /\ screen.kind \in {"other", "button", "results", "page"}
  /\ screen.races \subseteq Races /\ screen.timer \in BOOLEAN
  /\ screen.watched \in (SUBSET Races) \cup {None}
  /\ visits \in 0..MaxVisits /\ clicks \in 0..MaxClicks
  /\ excuses \subseteq {"elsewhere", "overlap", "lost"}

(* However POSTs and DELETEs overlap, a race is watched once                 *)
(* (AddWatchlistEntryHandler: find, then insert).                            *)
WatchedOnce == \A e1, e2 \in entries : e1.race = e2.race => e1 = e2

(* At rest a screen draws as watched the races that are, unless, since it    *)
(* was opened, the entries were changed by something else, an answer was     *)
(* lost, or a click met a request under way: a read, the opposite write of   *)
(* its race, or, for the button, any write (useWatchlist,                    *)
(* useWatchlistStatuses, WatchlistPage).                                     *)
AtRest == user /\ screen.kind # "other" /\ ~screen.timer /\ OfScreen = {}
HeartsAreTrue ==
  AtRest /\ excuses = {} => Hearts = Watched \cap screen.races

(* The heart of the watchlist page removes a race (types/watchlist.ts: an    *)
(* entry has a raceId).                                                      *)
RemovalNamesItsRace == \A q \in requests : q.op = "DELETE" => q.races \subseteq Races
===============================================================================
