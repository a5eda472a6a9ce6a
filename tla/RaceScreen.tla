------------------------------ MODULE RaceScreen ------------------------------
(*****************************************************************************)
(* The page of a race in the browser (RacePage) with its reviews             *)
(* (RaceReviews, ReviewForm, ReviewItem, ReviewList), against the reviews of *)
(* the server, which other users and another tab of this user change too.    *)
(*                                                                           *)
(* A handler with the state updates, effects and clean-ups it leads to is    *)
(* one step.  A GET of the reviews reads the user's own review first and the *)
(* page of the list afterwards.  What the server does with a write is in     *)
(* Reviews; here a write is one step of it.  The names of both modules are   *)
(* distinct, so that ReviewsProofs can extend both.                          *)
(*****************************************************************************)
EXTENDS Integers, FiniteSets

CONSTANTS
  Races,
  Others,     \* reviews other users may write
  PerPage,    \* reviews on a page
  Null,       \* null
  MaxPosts,   \* bound: reviews this user sends
  MaxMoves    \* bound: moves between pages, and changes by others

ASSUME NullAssumption == Null \notin Races \cup [race: Races, by: {"me"}, id: Nat]
ASSUME OthersAssumption ==
  Others \subseteq [race: Races, by: STRING \ {"me"}, id: {0}] /\ IsFiniteSet(Others)
ASSUME NumbersAssumption == PerPage \in Nat \ {0} /\ {MaxPosts, MaxMoves} \subseteq Nat

VARIABLES
  user,      \* whether somebody is logged in
  page,      \* RacePage: the id in the URL (Null: elsewhere), the details
             \* drawn, their timer and their requests
  raceReviews,   \* RaceReviews: its state and its requests
  form,      \* ReviewForm
  item,      \* ReviewItem of the user's own review
  server,    \* the reviews there are
  writes,    \* POSTs and DELETEs under way
  posts, moves,  \* counted against MaxPosts and MaxMoves
  surprise   \* history: the user's review changed behind the back of the screen

screenVars == <<user, page, raceReviews, form, item, server, writes, posts, moves, surprise>>

Mine == [race: Races, by: {"me"}, id: 1..MaxPosts]

Rows(r) == {x \in server : x.race = r}
(* findByUserAndRace, for the user of the token.                             *)
Own(r) ==
  IF user /\ Rows(r) \cap Mine # {} THEN CHOOSE x \in Rows(r) : x \in Mine ELSE Null

-----------------------------------------------------------------------------
(* What is drawn                                                             *)

RaceDraws ==
  IF page.loading THEN "skeleton" ELSE IF page.details = Null THEN "not found" ELSE "race"

HasForm == raceReviews.up /\ raceReviews.once /\ raceReviews.own = Null
HasItem == raceReviews.up /\ raceReviews.once /\ raceReviews.own # Null
FormDraws ==
  IF ~user THEN "log in" ELSE IF form.submitted THEN "submitted" ELSE "leave a review"
CommunityReviews == raceReviews.list \ {raceReviews.own}
ListDraws ==
  IF raceReviews.loading THEN "skeleton"
  ELSE IF CommunityReviews # {} THEN "reviews"
  ELSE IF raceReviews.own # Null THEN "no other reviews yet" ELSE "no reviews yet"
ShowPagination == raceReviews.up /\ raceReviews.once /\ raceReviews.total > 1

-----------------------------------------------------------------------------
(* Effects                                                                   *)

NoPage == [race |-> Null, details |-> Null, loading |-> TRUE, timer |-> FALSE, calls |-> {}]
NewForm == [filled |-> FALSE, sending |-> FALSE, submitted |-> FALSE]
NewItem == [confirm |-> FALSE, deleting |-> FALSE]
NoReviews ==
  [up |-> FALSE, race |-> Null, loading |-> TRUE, once |-> FALSE, list |-> {}, own |-> Null,
   count |-> 0, page |-> 1, total |-> 1, calls |-> {}]

(* An answer after its effect's clean-up changes nothing (cancelled), so the *)
(* requests before it are forgotten, here and for the reviews.               *)
UncancelledMutant(calls) == calls
Uncancelled(calls) == {}
PageEffectMutant(p) == [p EXCEPT !.timer = TRUE]
PageEffect(p) == [p EXCEPT !.timer = TRUE, !.calls = Uncancelled(@)]

Get(p) == [page |-> p, at |-> "sent", own |-> Null, list |-> {}, count |-> 0]
Fetching(rv) ==
  [rv EXCEPT !.loading = TRUE, !.calls = Uncancelled(@) \cup {Get(rv.page)}]
Mounted(r) == Fetching([NoReviews EXCEPT !.up = TRUE, !.race = r])

(* A write outlives the components that sent it, which then ignore its end.  *)
Forsaken == {[w EXCEPT !.screen = FALSE, !.widget = FALSE] : w \in writes}
Unmount ==
  /\ raceReviews' = NoReviews /\ form' = NewForm /\ item' = NewItem
  /\ writes' = Forsaken

(* Draws the reviews rv: the form is there without an own review, the item   *)
(* with one.                                                                 *)
Redraw(rv, f, i, ws) ==
  LET had == raceReviews.once /\ raceReviews.own # Null
      has == rv.once /\ rv.own # Null
  IN /\ raceReviews' = rv
     /\ form' = IF has THEN NewForm ELSE f
     /\ item' = IF has THEN i ELSE NewItem
     /\ writes' = IF had = has THEN ws ELSE {[w EXCEPT !.widget = FALSE] : w \in ws}

-----------------------------------------------------------------------------
(* Coming, going, and the details of the race                                *)

Move == moves < MaxMoves /\ moves' = moves + 1

Visit(r) ==
  /\ page.race = Null /\ Move
  /\ page' = PageEffect([NoPage EXCEPT !.race = r])
  /\ UNCHANGED <<user, raceReviews, form, item, server, writes, posts, surprise>>

(* Back to the search.                                                       *)
Leave ==
  /\ page.race # Null
  /\ page' = NoPage
  /\ Unmount
  /\ UNCHANGED <<user, server, posts, moves, surprise>>

(* The history leads from race to race without another page between them.    *)
Jump(r) ==
  /\ page.race \notin {Null, r} /\ Move
  /\ page' = PageEffect([page EXCEPT !.race = r])
  /\ UNCHANGED <<user, raceReviews, form, item, server, writes, posts, surprise>>

DetailsTimer ==
  /\ page.timer
  /\ page' = [page EXCEPT !.timer = FALSE, !.calls = @ \cup {page.race},
                          !.loading = TRUE, !.details = Null]
  /\ Unmount
  /\ UNCHANGED <<user, server, posts, moves, surprise>>

DetailsAnswer(r) ==
  /\ r \in page.calls
  /\ page' = [page EXCEPT !.calls = @ \ {r}, !.loading = FALSE, !.details = r]
  /\ IF raceReviews.race = r /\ raceReviews.up
     THEN UNCHANGED raceReviews ELSE raceReviews' = Mounted(r)
  /\ UNCHANGED <<user, form, item, server, writes, posts, moves, surprise>>

(* No such race, an error, no answer.                                        *)
DetailsFail(r) ==
  /\ r \in page.calls
  /\ page' = [page EXCEPT !.calls = @ \ {r}, !.loading = FALSE]
  /\ UNCHANGED <<user, raceReviews, form, item, server, writes, posts, moves, surprise>>

-----------------------------------------------------------------------------
(* GET of the reviews                                                        *)

AtMost(high, n) == IF n > high THEN high ELSE n
AtLeast(low, n) == IF n < low THEN low ELSE n
OnPage(p, n) == AtLeast(0, AtMost(PerPage, n - (p - 1) * PerPage))
TotalPages(n) == (n + PerPage - 1) \div PerPage

Progress(c, next) == raceReviews' = [raceReviews EXCEPT !.calls = (@ \ {c}) \cup {next}]

ServeOwn(c) ==
  /\ c.at = "sent"
  /\ Progress(c, [c EXCEPT !.at = "own read", !.own = Own(raceReviews.race)])
  /\ surprise' = FALSE
  /\ UNCHANGED <<user, page, form, item, server, writes, posts, moves>>

(* The rows have no order: a page is any of the right size.                  *)
ServeList(c) ==
  /\ c.at = "own read"
  /\ \E n \in {Cardinality(Rows(raceReviews.race))}, S \in SUBSET Rows(raceReviews.race) :
       /\ Cardinality(S) = OnPage(c.page, n)
       /\ Progress(c, [c EXCEPT !.at = "served", !.list = S, !.count = n])
  /\ UNCHANGED <<user, page, form, item, server, writes, posts, moves, surprise>>

ReviewsAnswer(c) ==
  /\ c.at = "served"
  /\ Redraw([raceReviews EXCEPT !.calls = @ \ {c}, !.list = c.list, !.own = c.own,
                            !.count = c.count, !.total = TotalPages(c.count),
                            !.once = TRUE, !.loading = FALSE],
            form, item, writes)
  /\ UNCHANGED <<user, page, server, posts, moves, surprise>>

ReviewsFail(c) ==
  /\ Redraw([raceReviews EXCEPT !.calls = @ \ {c}, !.once = TRUE, !.loading = FALSE],
            form, item, writes)
  /\ surprise' = TRUE
  /\ UNCHANGED <<user, page, server, posts, moves>>

GoToPageMutant(p) ==
  /\ ShowPagination
  /\ p <= raceReviews.total
  /\ Move
  /\ raceReviews' = Fetching([raceReviews EXCEPT !.page = p])
  /\ UNCHANGED <<user, page, form, item, server, writes, posts, surprise>>
GoToPage(p) ==
  /\ ShowPagination
  /\ p \in {raceReviews.page - 1, raceReviews.page + 1} /\ p >= 1
  /\ p = raceReviews.page + 1 => p <= raceReviews.total
  /\ Move
  /\ raceReviews' = Fetching([raceReviews EXCEPT !.page = p])
  /\ UNCHANGED <<user, page, form, item, server, writes, posts, surprise>>

-----------------------------------------------------------------------------
(* The form and the item                                                     *)

(* A rating and a comment, or the comment deleted again.                     *)
FillIn ==
  /\ HasForm /\ FormDraws = "leave a review"
  /\ form' = [form EXCEPT !.filled = ~@]
  /\ UNCHANGED <<user, page, raceReviews, item, server, writes, posts, moves, surprise>>

Write(op, review) ==
  writes' = writes \cup
    {[op |-> op, review |-> review, at |-> "sent", screen |-> TRUE, widget |-> TRUE]}

Submit ==
  /\ HasForm /\ FormDraws = "leave a review" /\ form.filled /\ ~form.sending
  /\ posts < MaxPosts /\ posts' = posts + 1
  /\ form' = [form EXCEPT !.sending = TRUE]
  /\ Write("add", [race |-> raceReviews.race, by |-> "me", id |-> posts'])
  /\ UNCHANGED <<user, page, raceReviews, item, server, moves, surprise>>

(* The bin, Cancel, and every other way to close the dialog.                 *)
ToggleConfirm ==
  /\ HasItem
  /\ item' = [item EXCEPT !.confirm = ~@]
  /\ UNCHANGED <<user, page, raceReviews, form, server, writes, posts, moves, surprise>>

ConfirmDelete ==
  /\ HasItem /\ item.confirm /\ ~item.deleting
  /\ item' = [item EXCEPT !.deleting = TRUE]
  /\ Write("delete", raceReviews.own)
  /\ UNCHANGED <<user, page, raceReviews, form, server, posts, moves, surprise>>

(* The server takes a write: not a second review of a race, nor a review     *)
(* that is gone.                                                             *)
Takes(w) ==
  IF w.op = "add" THEN Own(w.review.race) = Null ELSE w.review \in server
ServeWrite(w) ==
  /\ w.at = "sent"
  /\ server' = IF ~Takes(w) THEN server
               ELSE IF w.op = "add" THEN server \cup {w.review} ELSE server \ {w.review}
  /\ writes' = (writes \ {w}) \cup
       {x \in {[w EXCEPT !.at = IF Takes(w) THEN "done" ELSE "refused"]} : w.screen}
  /\ surprise' = (surprise \/ (Takes(w) /\ ~w.screen))
  /\ UNCHANGED <<user, page, raceReviews, form, item, posts, moves>>

(* RaceReviews after a review of it was added or deleted.                    *)
AddedMutant(rv) ==
  IF rv.page = 1 THEN [rv EXCEPT !.loading = TRUE] ELSE Fetching([rv EXCEPT !.page = 1])
Added(rv) == Fetching([rv EXCEPT !.page = 1])
Deleted(rv, x) ==
  Fetching([rv EXCEPT !.own = Null, !.count = AtLeast(0, @ - 1), !.list = @ \ {x}])

WriteSucceeds(w) ==
  /\ w.at = "done" /\ w.screen
  /\ IF w.op = "add"
     THEN Redraw(Added(raceReviews),
                 IF w.widget THEN [form EXCEPT !.submitted = TRUE, !.sending = FALSE] ELSE form,
                 item, writes \ {w})
     ELSE Redraw(Deleted(raceReviews, w.review), form, item, writes \ {w})
  /\ UNCHANGED <<user, page, server, posts, moves, surprise>>

(* An error or no answer, be the write done, refused or still to be served:  *)
(* the form and the dialog stay as they are.                                 *)
WriteFails(w) ==
  /\ w.screen
  /\ form' = IF w.op = "add" /\ w.widget THEN [form EXCEPT !.sending = FALSE] ELSE form
  /\ item' = IF w.op = "delete" /\ w.widget THEN [item EXCEPT !.deleting = FALSE] ELSE item
  /\ writes' = (writes \ {w}) \cup
       {x \in {[w EXCEPT !.screen = FALSE, !.widget = FALSE]} : w.at = "sent"}
  /\ surprise' = (surprise \/ w.at # "refused")
  /\ UNCHANGED <<user, page, raceReviews, server, posts, moves>>

(* Other users, and this user in another tab.                                *)
Elsewhere ==
  /\ Move
  /\ \/ \E x \in Others : server' = IF x \in server THEN server \ {x} ELSE server \cup {x}
     \/ \E r \in Races : \E x \in {Own(r)} \ {Null} : server' = server \ {x}
     \/ \E r \in Races :
          /\ user /\ Own(r) = Null /\ posts < MaxPosts
          /\ server' = server \cup {[race |-> r, by |-> "me", id |-> posts + 1]}
  /\ posts' = IF server' \cap Mine \subseteq server THEN posts ELSE posts + 1
  /\ surprise' = (surprise \/ server' \cap Mine # server \cap Mine)
  /\ UNCHANGED <<user, page, raceReviews, form, item, writes>>

-----------------------------------------------------------------------------
ScreenInit ==
  /\ user \in BOOLEAN
  /\ \E r \in Races : page = PageEffect([NoPage EXCEPT !.race = r])
  /\ raceReviews = NoReviews /\ form = NewForm /\ item = NewItem
  /\ server \in SUBSET Others
  /\ writes = {} /\ posts = 0 /\ moves = 0
  /\ surprise = FALSE

User ==
  \/ \E r \in Races : Visit(r) \/ Jump(r)
  \/ Leave
  \/ \E p \in {raceReviews.page - 1, raceReviews.page + 1} : GoToPage(p)
  \/ FillIn \/ Submit \/ ToggleConfirm \/ ConfirmDelete
DetailsEnd == \E r \in page.calls : DetailsAnswer(r) \/ DetailsFail(r)
GetEnd == \E c \in raceReviews.calls : ReviewsAnswer(c) \/ ReviewsFail(c)
GetServed == \E c \in raceReviews.calls : ServeOwn(c) \/ ServeList(c)
WriteEnd == \E w \in writes : WriteSucceeds(w) \/ WriteFails(w)
WriteServed == \E w \in writes : ServeWrite(w)

ScreenNext ==
  \/ User \/ Elsewhere \/ DetailsTimer \/ DetailsEnd
  \/ GetServed \/ GetEnd \/ WriteServed \/ WriteEnd
ScreenSpec == ScreenInit /\ [][ScreenNext]_screenVars
(* Timers fire and requests are answered or fail.                            *)
FairScreenSpec ==
  /\ ScreenSpec
  /\ WF_screenVars(DetailsTimer) /\ WF_screenVars(DetailsEnd)
  /\ WF_screenVars(GetEnd) /\ WF_screenVars(WriteEnd)

-----------------------------------------------------------------------------
Reviewed == Others \cup Mine
Details ==
  [race: Races \cup {Null}, details: Races \cup {Null}, loading: BOOLEAN, timer: BOOLEAN,
   calls: SUBSET Races]
Call ==
  [page: Nat \ {0}, at: {"sent", "own read", "served"}, own: Mine \cup {Null},
   list: SUBSET Reviewed, count: Nat]
ReviewsState ==
  [up: BOOLEAN, race: Races \cup {Null}, loading: BOOLEAN, once: BOOLEAN,
   list: SUBSET Reviewed, own: Mine \cup {Null}, count: Nat, page: Nat \ {0}, total: Nat,
   calls: SUBSET Call]
Form == [filled: BOOLEAN, sending: BOOLEAN, submitted: BOOLEAN]
Item == [confirm: BOOLEAN, deleting: BOOLEAN]
UnderWay ==
  [op: {"add", "delete"}, review: Mine, at: {"sent", "done", "refused"}, screen: BOOLEAN,
   widget: BOOLEAN]

(* Type correctness.                                                         *)
ScreenTypeOK ==
  /\ user \in BOOLEAN /\ surprise \in BOOLEAN
  /\ page \in Details /\ raceReviews \in ReviewsState /\ form \in Form /\ item \in Item
  /\ server \subseteq Reviewed /\ writes \subseteq UnderWay
  /\ posts \in 0..MaxPosts /\ moves \in 0..MaxMoves

RaceShown == IF RaceDraws = "race" THEN page.details ELSE Null
RaceStatus ==
  IF page.race = Null THEN "idle"
  ELSE IF page.timer \/ page.calls # {} THEN "open"
  ELSE IF RaceDraws = "race" THEN "answered" ELSE "failed"

(* The page shows the race of its URL or says so in the end, whatever races  *)
(* were asked for before (RacePage.tsx: timer, cancelled).                   *)
RaceView == INSTANCE LatestAnswer WITH
  None <- Null, Questions <- Races, question <- page.race, shown <- RaceShown,
  status <- RaceStatus
RaceFollows == RaceView!Settles

AtRest ==
  /\ raceReviews.up /\ raceReviews.calls = {} /\ \A w \in writes : ~w.screen
  /\ ~surprise

(* A screen at rest offers the form when the user has no review of the race, *)
(* and otherwise that review, which is not also in the list; no deleted      *)
(* review of the user comes back.  Not if another tab changed the review or  *)
(* an answer was lost after the last GET (RaceReviews.tsx: cancelled,        *)
(* refreshReviews after every write).                                        *)
OwnReviewIsTrue ==
  AtRest => /\ raceReviews.own = Own(raceReviews.race)
            /\ CommunityReviews \cap Mine = {}

(* Skeletons, "Submitting..." and "Deleting..." end (RaceReviews.tsx: every  *)
(* setLoading(true) comes with a fetch).                                     *)
ReviewsSettle ==
  []<>(raceReviews.up => ListDraws # "skeleton" /\ ~form.sending /\ ~item.deleting)
===============================================================================
