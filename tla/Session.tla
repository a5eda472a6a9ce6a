-------------------------------- MODULE Session --------------------------------
(*****************************************************************************)
(* Accounts and sessions: registration, login and the profile on the server, *)
(* the token that the tabs of a browser share in local storage (auth, client,*)
(* AuthContext), and the pages that use them (LoginPage, RegistrationPage,   *)
(* AccountPage, Header).                                                     *)
(*                                                                           *)
(* Every other page counts as home: what it asks for may need a login, as a  *)
(* watchlist does, or not.                                                   *)
(* What is typed into a form is chosen when the form is sent, but for the    *)
(* name on the account page, whose text the page compares and keeps.         *)
(*****************************************************************************)
EXTENDS Naturals, FiniteSets

CONSTANTS
  Tabs, Users, Names,
  Registered,  \* the users that have an account at the start
  None,        \* null, the empty text
  MaxLogins,   \* bound: tokens
  MaxMoves     \* bound: what the user does, discarding and saving apart

ASSUME UsersAssumption == Registered \subseteq Users /\ Registered # {}
ASSUME NamesAssumption == Names # {}
ASSUME NoneAssumption == None \notin Users \cup Names \cup [user: Users, no: Nat]
ASSUME BoundsAssumption == MaxLogins \in Nat \ {0} /\ MaxMoves \in Nat

VARIABLES
  accounts,  \* the users registered
  names,     \* display names
  expired,   \* tokens up to this number are no longer valid
  stored,    \* local storage: the token
  tabs,      \* what each tab draws
  requests,  \* requests under way
  logins, moves,  \* counted against their bounds
  excuses    \* history: what happened behind the back of a tab's page

vars == <<accounts, names, expired, stored, tabs, requests, logins, moves, excuses>>

Tokens == [user: Users, no: 1..MaxLogins]
NoProfile == [user |-> None, name |-> None]

-----------------------------------------------------------------------------
(* Pages                                                                     *)

(* A page as it is mounted; the login page leads home when logged in.        *)
Arrive(page, auth) ==
  LET to == IF page = "login" /\ auth THEN "home" ELSE page
  IN [page |-> to, auth |-> auth, timer |-> to = "account" /\ auth,
      busy |-> to = "account", saving |-> FALSE, done |-> FALSE,
      profile |-> NoProfile, typed |-> None]

AccountDraws(t) ==
  IF ~tabs[t].auth THEN "log in" ELSE IF tabs[t].busy THEN "skeleton"
  ELSE IF tabs[t].profile = NoProfile THEN "error" ELSE "profile"
IsDirty(t) == tabs[t].profile # NoProfile /\ tabs[t].typed # tabs[t].profile.name
IsValidMutant(t) == TRUE
IsValid(t) == tabs[t].typed # None

Of(t) == {q \in requests : q.tab = t}
(* Requests whose component is gone still pass through apiFetch; those whose *)
(* document is gone are only served.                                         *)
Unmounted(t) ==
  (requests \ Of(t)) \cup {[q EXCEPT !.mounted = FALSE] : q \in Of(t)}
Unserved(q) == q.at \in {"sent", "absent"} /\ q.kind \in {"register", "save"}
Unloaded(t) ==
  (requests \ Of(t))
    \cup {[q EXCEPT !.heard = FALSE, !.mounted = FALSE] : q \in {x \in Of(t) : Unserved(x)}}

Move == moves < MaxMoves /\ moves' = moves + 1
Drawn(t) == tabs[t].page # "leaving"
Draws(t, tab) == tabs' = [tabs EXCEPT ![t] = tab]

(* The header's links, and those of the pages.                               *)
Go(t, page) ==
  /\ Drawn(t) /\ page # tabs[t].page /\ Move
  /\ page = "account" => tabs[t].auth
  /\ Draws(t, Arrive(page, tabs[t].auth))
  /\ requests' = Unmounted(t)
  /\ excuses' = [excuses EXCEPT ![t] = {}]
  /\ UNCHANGED <<accounts, names, expired, stored, logins>>

(* The tab loads its document: after a 401 the login page, else by the user. *)
Load(t) ==
  /\ IF Drawn(t) THEN Move ELSE UNCHANGED moves
  /\ Draws(t, Arrive(IF Drawn(t) THEN tabs[t].page ELSE "login", stored # None))
  /\ requests' = Unloaded(t)
  /\ excuses' = [excuses EXCEPT ![t] = {}]
  /\ UNCHANGED <<accounts, names, expired, stored, logins>>

LogOut(t) ==
  /\ Drawn(t) /\ tabs[t].auth /\ Move
  /\ stored' = None
  /\ Draws(t, IF tabs[t].page = "home" THEN [tabs[t] EXCEPT !.auth = FALSE] ELSE Arrive("home", FALSE))
  /\ requests' = IF tabs[t].page = "home" THEN requests ELSE Unmounted(t)
  /\ excuses' = [excuses EXCEPT ![t] = {}]
  /\ UNCHANGED <<accounts, names, expired, logins>>

-----------------------------------------------------------------------------
(* Requests carry the token that is stored when they are sent.               *)

NeedLogin == {"private", "profile", "save"}
Kinds == NeedLogin \cup {"public", "login", "register"}
Request(t, kind, arg) ==
  [tab |-> t, kind |-> kind, token |-> stored, arg |-> arg, at |-> "sent",
   answer |-> None, mounted |-> TRUE, heard |-> TRUE]
Send(t, kind, arg, tab) ==
  /\ Draws(t, tab)
  /\ requests' = requests \cup {Request(t, kind, arg)}
  /\ UNCHANGED <<accounts, names, expired, stored, excuses>>

PageTimer(t) ==
  /\ tabs[t].timer
  /\ Send(t, "profile", None, [tabs[t] EXCEPT !.timer = FALSE, !.busy = TRUE])
  /\ UNCHANGED <<logins, moves>>

(* What other pages ask for, one thing at a time: a tab asks for what needs  *)
(* a login when it believes to be logged in.                                 *)
Fetch(t, kind) ==
  /\ tabs[t].page = "home"
  /\ kind = "private" => tabs[t].auth
  /\ \A q \in Of(t) : q.kind \notin {"public", "private"}
  /\ Send(t, kind, None, tabs[t])
  /\ UNCHANGED <<logins, moves>>
Fetches(t) == \E kind \in {"public", "private"} : Fetch(t, kind)

(* A wrong password is refused as an unknown user is.                        *)
SubmitLogin(t, u) ==
  /\ tabs[t].page = "login" /\ ~tabs[t].busy
  /\ logins < MaxLogins /\ logins' = logins + 1 /\ Move
  /\ Send(t, "login", u, [tabs[t] EXCEPT !.busy = TRUE])

SubmitRegistration(t, u) ==
  /\ tabs[t].page = "register" /\ ~tabs[t].busy /\ ~tabs[t].done /\ Move
  /\ Send(t, "register", u, [tabs[t] EXCEPT !.busy = TRUE])
  /\ UNCHANGED logins

InProfile(t) == tabs[t].page = "account" /\ AccountDraws(t) = "profile"
TypeName(t, n) ==
  /\ InProfile(t) /\ tabs[t].typed # n /\ Move
  /\ Draws(t, [tabs[t] EXCEPT !.typed = n])
  /\ UNCHANGED <<accounts, names, expired, stored, requests, logins, excuses>>
Discard(t) ==
  /\ InProfile(t) /\ IsDirty(t) /\ ~tabs[t].saving
  /\ Draws(t, [tabs[t] EXCEPT !.typed = tabs[t].profile.name])
  /\ UNCHANGED <<accounts, names, expired, stored, requests, logins, moves, excuses>>
SubmitName(t) ==
  /\ InProfile(t) /\ IsValid(t) /\ IsDirty(t) /\ ~tabs[t].saving
  /\ Send(t, "save", tabs[t].typed, [tabs[t] EXCEPT !.saving = TRUE])
  /\ UNCHANGED <<logins, moves>>

-----------------------------------------------------------------------------
(* The server                                                                *)

Expire ==
  /\ expired < logins
  /\ expired' = logins
  /\ UNCHANGED <<accounts, names, stored, tabs, requests, logins, moves, excuses>>

(* An expired token is refused even where none is needed.                    *)
Unauthorized(q) ==
  \/ q.token # None /\ q.token.no <= expired
  \/ q.token = None /\ q.kind \in NeedLogin
  \/ q.kind = "login" /\ q.arg \notin accounts

Becomes(q, at, answer) ==
  requests' = (requests \ {q}) \cup
    {x \in {[q EXCEPT !.at = at, !.answer = answer]} : x.heard \/ at = "absent"}
Refuse(q) ==
  /\ q.at = "sent" /\ Unauthorized(q)
  /\ Becomes(q, "401", None)
  /\ UNCHANGED <<accounts, names, expired, stored, tabs, logins, moves, excuses>>

Read(q) ==
  /\ q.at = "sent" /\ ~Unauthorized(q) /\ q.kind \notin {"register", "save"}
  /\ Becomes(q, "ok", CASE q.kind \in {"public", "private"} -> None
                        [] q.kind = "profile" -> [user |-> q.token.user, name |-> names[q.token.user]]
                        [] q.kind = "login" -> [user |-> q.arg, no |-> logins])
  /\ UNCHANGED <<accounts, names, expired, stored, tabs, logins, moves, excuses>>

Excused(whom, what) ==
  excuses' = [t \in Tabs |->
    excuses[t] \cup {x \in {what} : t \in whom /\ tabs[t].page = "account"}]

SaveName(q) ==
  /\ q.kind = "save" /\ q.at = "sent" /\ ~Unauthorized(q)
  /\ names' = [names EXCEPT ![q.token.user] = q.arg]
  /\ Becomes(q, "ok", None)
  /\ Excused(IF q.mounted THEN Tabs \ {q.tab} ELSE Tabs, "name")
  /\ UNCHANGED <<accounts, expired, stored, tabs, logins, moves>>

(* Looks for the address, then inserts; the unique key refuses a second      *)
(* insertion, which nobody expects.                                          *)
FindEmail(q) ==
  /\ q.kind = "register" /\ q.at = "sent" /\ ~Unauthorized(q)
  /\ Becomes(q, IF q.arg \in accounts THEN "409" ELSE "absent", None)
  /\ UNCHANGED <<accounts, names, expired, stored, tabs, logins, moves, excuses>>
InsertUser(q) ==
  /\ q.at = "absent"
  /\ accounts' = accounts \cup {q.arg}
  /\ Becomes(q, IF q.arg \in accounts THEN "500" ELSE "ok", None)
  /\ UNCHANGED <<names, expired, stored, tabs, logins, moves, excuses>>

-----------------------------------------------------------------------------
(* Answers                                                                   *)

Ends(q, tab) ==
  /\ q.heard
  /\ tabs' = IF q.mounted THEN [tabs EXCEPT ![q.tab] = tab] ELSE tabs
  /\ requests' = requests \ {q}
  /\ UNCHANGED <<accounts, names, expired, logins, moves>>

Answer401Mutant(q) ==
  /\ q.at \in {"401", "409", "500"} /\ q.heard
  /\ stored' = None
  /\ Draws(q.tab, [tabs[q.tab] EXCEPT !.page = "leaving", !.timer = FALSE])
  /\ requests' = Unloaded(q.tab) \ {q}
  /\ UNCHANGED <<accounts, names, expired, logins, moves, excuses>>
(* apiFetch, whatever was asked: the token goes, and the tab to the login.   *)
Answer401(q) ==
  /\ q.at = "401" /\ q.heard
  /\ stored' = None
  /\ Draws(q.tab, [tabs[q.tab] EXCEPT !.page = "leaving", !.timer = FALSE])
  /\ requests' = Unloaded(q.tab) \ {q}
  /\ UNCHANGED <<accounts, names, expired, logins, moves, excuses>>

(* The token is saved even if the page has gone.                             *)
LoginAnswer(q) ==
  /\ q.kind = "login" /\ q.at = "ok" /\ q.heard
  /\ stored' = q.answer
  /\ LET tab == [tabs[q.tab] EXCEPT !.auth = TRUE]
     IN Draws(q.tab, IF tab.page = "login" THEN Arrive("home", TRUE)
                     ELSE [tab EXCEPT !.timer = @ \/ (tab.page = "account" /\ ~tabs[q.tab].auth)])
  /\ requests' = IF tabs[q.tab].page = "login"
                 THEN Unmounted(q.tab) \ {[q EXCEPT !.mounted = FALSE]} ELSE requests \ {q}
  /\ Excused(Tabs, "login")
  /\ UNCHANGED <<accounts, names, expired, logins, moves>>

FetchAnswer(q) ==
  /\ q.kind \in {"public", "private"} /\ q.at = "ok"
  /\ Ends(q, tabs[q.tab])
  /\ UNCHANGED <<stored, excuses>>
ProfileAnswer(q) ==
  /\ q.kind = "profile" /\ q.at = "ok"
  /\ Ends(q, [tabs[q.tab] EXCEPT !.profile = q.answer, !.typed = q.answer.name, !.busy = FALSE])
  /\ UNCHANGED <<stored, excuses>>
SaveAnswerMutant(q) ==
  /\ q.kind = "save" /\ q.at = "ok"
  /\ Ends(q, [tabs[q.tab] EXCEPT !.saving = FALSE])
  /\ UNCHANGED <<stored, excuses>>
(* The text typed since is replaced by the text saved.                       *)
SaveAnswer(q) ==
  /\ q.kind = "save" /\ q.at = "ok"
  /\ Ends(q, [tabs[q.tab] EXCEPT !.profile.name = q.arg, !.typed = q.arg, !.saving = FALSE])
  /\ UNCHANGED <<stored, excuses>>
RegisterAnswer(q) ==
  /\ q.kind = "register" /\ q.at \in {"ok", "409", "500"}
  /\ Ends(q, [tabs[q.tab] EXCEPT !.busy = FALSE, !.done = q.at = "ok"])
  /\ UNCHANGED <<stored, excuses>>

(* No answer, be the request served or not.                                  *)
Lost(q) ==
  /\ q.heard
  /\ tabs' = IF q.mounted
             THEN [tabs EXCEPT ![q.tab].busy = FALSE, ![q.tab].saving = FALSE]
             ELSE tabs
  /\ requests' = (requests \ {q}) \cup
       {x \in {[q EXCEPT !.heard = FALSE, !.mounted = FALSE]} : Unserved(q)}
  /\ Excused(IF q.kind = "save" THEN {q.tab} ELSE {}, "lost")
  /\ UNCHANGED <<accounts, names, expired, stored, logins, moves>>

-----------------------------------------------------------------------------
(* Somebody has logged in; some tabs were opened, or logged in, since.       *)
Init ==
  /\ accounts = Registered
  /\ names = [u \in Users |-> CHOOSE n \in Names : TRUE]
  /\ expired = 0 /\ logins = 1 /\ moves = 0
  /\ stored = [user |-> CHOOSE u \in Registered : TRUE, no |-> 1]
  /\ \E knowing \in SUBSET Tabs : tabs = [t \in Tabs |-> Arrive("login", t \in knowing)]
  /\ requests = {}
  /\ excuses = [t \in Tabs |-> {}]

User ==
  \E t \in Tabs :
    \/ \E page \in {"home", "login", "register", "account"} : Go(t, page)
    \/ (Drawn(t) /\ Load(t)) \/ LogOut(t)
    \/ \E u \in Users : SubmitLogin(t, u)
    \/ \E u \in Users : SubmitRegistration(t, u)
    \/ \E n \in Names \cup {None} : TypeName(t, n)
    \/ Discard(t) \/ SubmitName(t) \/ Fetches(t)
Serve(q) == Refuse(q) \/ Read(q) \/ SaveName(q) \/ FindEmail(q) \/ InsertUser(q)
Answer(q) ==
  \/ Answer401(q) \/ LoginAnswer(q) \/ FetchAnswer(q) \/ ProfileAnswer(q)
  \/ SaveAnswer(q) \/ RegisterAnswer(q) \/ Lost(q)
Runs(t) ==
  \/ PageTimer(t)
  \/ ~Drawn(t) /\ Load(t)
  \/ \E q \in Of(t) : Serve(q) \/ Answer(q)

Next == User \/ (\E t \in Tabs : Runs(t)) \/ Expire
Spec == Init /\ [][Next]_vars

-----------------------------------------------------------------------------
(* Type correctness.                                                         *)
TypeOK ==
  /\ accounts \subseteq Users /\ names \in [Users -> Names]
  /\ stored \in Tokens \cup {None}
  /\ \A t \in Tabs :
       /\ tabs[t].page \in {"home", "login", "register", "account", "leaving"}
       /\ {tabs[t].auth, tabs[t].timer, tabs[t].busy, tabs[t].saving, tabs[t].done} \subseteq BOOLEAN
       /\ tabs[t].profile \in [user: Users, name: Names] \cup {NoProfile}
       /\ tabs[t].typed \in Names \cup {None}
  /\ \A q \in requests :
       /\ q.tab \in Tabs /\ q.token \in Tokens \cup {None} /\ {q.mounted, q.heard} \subseteq BOOLEAN
       /\ q.kind \in Kinds
       /\ q.at \in {"sent", "absent", "ok", "401", "409", "500"}
       /\ q.arg \in Users \cup Names \cup {None}
  /\ expired \in 0..logins /\ logins \in 0..MaxLogins /\ moves \in 0..MaxMoves
  /\ excuses \in [Tabs -> SUBSET {"login", "name", "lost"}]

(* A token leaves the browser only when somebody logs out, when it has       *)
(* expired, or by a 401 that is not about it: for a wrong password typed in  *)
(* a tab that did not know of the login, or for a request sent with another  *)
(* token or none (client.ts: apiFetch).                                      *)
TokenGoesForAReason ==
  [][stored # None /\ stored' = None =>
       \/ \E t \in Tabs : LogOut(t)
       \/ stored.no <= expired
       \/ \E q \in requests \ requests' : q.at = "401" /\ (q.kind = "login" \/ q.token # stored)]_vars

(* A profile at rest has the name its user has on the server, unless since   *)
(* the page was opened the name was saved elsewhere, the answer to a save    *)
(* was lost, or another login changed the account that a save goes to        *)
(* (AccountPage.tsx, auth.ts).                                               *)
NameIsTrue ==
  \A t \in Tabs :
    InProfile(t) /\ Of(t) = {} /\ excuses[t] = {}
      => tabs[t].profile.name = names[tabs[t].profile.user]
===============================================================================
