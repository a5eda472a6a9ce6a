----------------------------- MODULE SessionProofs -----------------------------
(*****************************************************************************)
(* Type correctness of Session, that a token leaves the browser for a        *)
(* reason, and that the name the account page draws is true, for any tabs,   *)
(* users and names.  The first invariant says, besides the types, what a     *)
(* request may carry, why it was refused with a 401, and which page a request*)
(* that still has its component belongs to.  The second relates what an      *)
(* account page draws, its requests, the token stored and the names.         *)
(*****************************************************************************)
EXTENDS Session, TLAPS

Profiles == [user: Users, name: Names]
TabType ==
  [page: {"home", "login", "register", "account", "leaving"}, auth: BOOLEAN,
   timer: BOOLEAN, busy: BOOLEAN, saving: BOOLEAN, done: BOOLEAN,
   profile: Profiles \cup {NoProfile}, typed: Names \cup {None}]
RequestType ==
  [tab: Tabs, kind: Kinds,
   token: Tokens \cup {None}, arg: Users \cup Names \cup {None},
   at: {"sent", "absent", "ok", "401", "409", "500"},
   answer: Tokens \cup Profiles \cup {None}, mounted: BOOLEAN, heard: BOOLEAN]

(* What a request carries, and why it is where it is.                        *)
Carries(q) ==
  /\ q.kind = "save" => q.arg \in Names
  /\ q.kind = "register" => q.arg \in Users
  /\ q.at = "absent" => q.kind = "register"
  /\ q.at = "ok" /\ q.kind = "profile" => q.answer \in Profiles
  /\ q.at = "ok" /\ q.kind = "login" => q.answer \in Tokens
Refused(q, ex) ==
  q.at = "401" => \/ q.kind = "login"
                  \/ q.token = None
                  \/ q.token.no <= ex
Placed(q, ts) ==
  q.mounted =>
    /\ q.kind = "save" => ts[q.tab].page = "account" /\ ts[q.tab].profile # NoProfile
    /\ q.kind = "login" => ts[q.tab].page = "login"
Sound(q, ts, ex) == q \in RequestType /\ Carries(q) /\ Refused(q, ex) /\ Placed(q, ts)

ServerOK ==
  /\ accounts \subseteq Users /\ names \in [Users -> Names]
  /\ logins \in 1..MaxLogins /\ expired \in 0..logins
BrowserOK ==
  /\ stored \in Tokens \cup {None}
  /\ tabs \in [Tabs -> TabType]
  /\ moves \in 0..MaxMoves
  /\ excuses \in [Tabs -> SUBSET {"login", "name", "lost"}]
RequestsOK == \A q \in requests : Sound(q, tabs, expired)
SessionInv == ServerOK /\ BrowserOK /\ RequestsOK

-----------------------------------------------------------------------------
(* What a tab keeps while its page stays: no loaded profile is lost.         *)
Stays(t, tab) ==
  tab.page = tabs[t].page /\ (tabs[t].profile # NoProfile => tab.profile # NoProfile)

(* A request stays sound while its tab stays and tokens only expire.         *)
LEMMA SoundStays ==
  ASSUME NEW q, NEW ex \in Nat, NEW later \in Nat, ex <= later, Sound(q, tabs, ex), NEW ts,
         q.mounted => Stays(q.tab, ts[q.tab])
  PROVE  Sound(q, ts, later)
  <1>1. q \in RequestType
    BY DEF Sound
  <1>2. q.token # None => q.token.no \in Nat
    BY <1>1 DEF RequestType, Tokens
  <1>3. Refused(q, later)
    BY <1>2 DEF Sound, Refused
  <1>4. Placed(q, ts)
    BY DEF Sound, Placed, Stays
  <1>5. QED
    BY <1>3, <1>4 DEF Sound

(* A request whose component is gone is at home everywhere.                  *)
LEMMA SoundUnmounted ==
  ASSUME NEW q, NEW ts, NEW ex, Sound(q, tabs, ex), NEW ts2, NEW heard \in BOOLEAN
  PROVE  /\ Sound([q EXCEPT !.mounted = FALSE], ts2, ex)
         /\ Sound([q EXCEPT !.heard = FALSE, !.mounted = FALSE], ts2, ex)
  <1>1. ASSUME NEW x \in {[q EXCEPT !.mounted = FALSE], [q EXCEPT !.heard = FALSE, !.mounted = FALSE]}
        PROVE  Sound(x, ts2, ex)
    <2>1. /\ x \in RequestType /\ x.mounted = FALSE /\ x.kind = q.kind /\ x.arg = q.arg
          /\ x.at = q.at /\ x.answer = q.answer /\ x.token = q.token
      BY DEF Sound, RequestType
    <2>2. QED
      BY <2>1 DEF Sound, Carries, Refused, Placed
  <1>2. QED
    BY <1>1

(* A tab loses its page, and its requests their components (Go, LogOut).     *)
LEMMA UnmountedSound ==
  ASSUME SessionInv, NEW t \in Tabs, NEW tab \in TabType
  PROVE  \A q \in Unmounted(t) : Sound(q, [tabs EXCEPT ![t] = tab], expired)
  <1> SUFFICES ASSUME NEW q \in Unmounted(t)
               PROVE  Sound(q, [tabs EXCEPT ![t] = tab], expired)
    OBVIOUS
  <1>1. CASE q \in requests \ Of(t)
    <2>1. Sound(q, tabs, expired) /\ q.tab # t
      BY <1>1 DEF SessionInv, RequestsOK, Of
    <2>2. Placed(q, [tabs EXCEPT ![t] = tab])
      BY <2>1 DEF Sound, Placed, RequestType, SessionInv, BrowserOK
    <2>3. QED
      BY <2>1, <2>2 DEF Sound
  <1>2. CASE q \notin requests \ Of(t)
    <2>1. PICK x \in Of(t) : q = [x EXCEPT !.mounted = FALSE]
      BY <1>2 DEF Unmounted
    <2>2. Sound(x, tabs, expired)
      BY <2>1 DEF Of, SessionInv, RequestsOK
    <2>3. QED
      BY <2>1, <2>2, SoundUnmounted
  <1>3. QED
    BY <1>1, <1>2

(* A tab loses its document (Load, Answer401).                               *)
LEMMA UnloadedSound ==
  ASSUME SessionInv, NEW t \in Tabs, NEW tab \in TabType
  PROVE  \A q \in Unloaded(t) : Sound(q, [tabs EXCEPT ![t] = tab], expired)
  <1> SUFFICES ASSUME NEW q \in Unloaded(t)
               PROVE  Sound(q, [tabs EXCEPT ![t] = tab], expired)
    OBVIOUS
  <1>1. CASE q \in requests \ Of(t)
    BY <1>1, UnmountedSound DEF Unmounted
  <1>2. CASE q \notin requests \ Of(t)
    <2>1. PICK x \in Of(t) : q = [x EXCEPT !.heard = FALSE, !.mounted = FALSE]
      BY <1>2 DEF Unloaded
    <2>2. Sound(x, tabs, expired)
      BY <2>1 DEF Of, SessionInv, RequestsOK
    <2>3. QED
      BY <2>1, <2>2, SoundUnmounted
  <1>3. QED
    BY <1>1, <1>2

(* A page as it is mounted is well typed (Arrive).                           *)
LEMMA ArriveTyped ==
  ASSUME NEW page \in {"home", "login", "register", "account"}, NEW auth \in BOOLEAN
  PROVE  Arrive(page, auth) \in TabType
  BY DEF Arrive, TabType

(* A tab changes without leaving its page, and may send a request.           *)
LEMMA SendKeeps ==
  ASSUME SessionInv, NEW t \in Tabs, NEW tab \in TabType, Stays(t, tab),
         tabs' = [tabs EXCEPT ![t] = tab],
         \A q \in requests' \ requests : Sound(q, tabs', expired),
         UNCHANGED <<accounts, names, expired, stored, excuses>>,
         logins' \in {logins, logins + 1}, logins' \in 1..MaxLogins, moves' \in 0..MaxMoves
  PROVE  SessionInv'
  <1>1. ServerOK'
    BY BoundsAssumption DEF SessionInv, ServerOK
  <1>2. BrowserOK'
    BY DEF SessionInv, BrowserOK
  <1>3. RequestsOK'
    <2> SUFFICES ASSUME NEW q \in requests' PROVE Sound(q, tabs', expired)
      BY DEF RequestsOK
    <2>1. CASE q \in requests
      <3>1. Sound(q, tabs, expired) /\ q.tab \in Tabs
        BY <2>1 DEF SessionInv, RequestsOK, Sound, RequestType
      <3>2. Stays(q.tab, tabs'[q.tab])
        BY <3>1 DEF Stays, SessionInv, BrowserOK
      <3>3. expired \in Nat /\ expired <= expired
        BY BoundsAssumption DEF SessionInv, ServerOK
      <3>4. QED
        BY <3>1, <3>2, <3>3, SoundStays
    <2>2. CASE q \notin requests
      BY <2>2
    <2>3. QED
      BY <2>1, <2>2
  <1>4. QED
    BY <1>1, <1>2, <1>3 DEF SessionInv

(* The kinds of requests.                                                    *)
LEMMA AllKinds == Kinds = {"public", "private", "profile", "login", "register", "save"}
  BY DEF Kinds, NeedLogin

(* A request that is sent carries the stored token (apiFetch).               *)
LEMMA RequestTyped ==
  ASSUME SessionInv, NEW t \in Tabs, NEW kind \in Kinds,
         NEW arg \in Users \cup Names \cup {None}
  PROVE  /\ Request(t, kind, arg) \in RequestType
         /\ Request(t, kind, arg).kind = kind /\ Request(t, kind, arg).arg = arg
         /\ Request(t, kind, arg).at = "sent" /\ Request(t, kind, arg).tab = t
  BY DEF Request, RequestType, SessionInv, BrowserOK

(* Requests end or are served while tabs stay and tokens may expire.         *)
LEMMA ServeKeeps ==
  ASSUME SessionInv, NEW q \in requests, NEW next,
         Sound(next, tabs, expired),
         requests' \subseteq (requests \ {q}) \cup {next},
         accounts' \subseteq Users, names' \in [Users -> Names],
         excuses' \in [Tabs -> SUBSET {"login", "name", "lost"}],
         UNCHANGED <<expired, stored, tabs, logins, moves>>
  PROVE  SessionInv'
  BY DEF SessionInv, ServerOK, BrowserOK, RequestsOK, Sound, Placed

-----------------------------------------------------------------------------
(* What a user does in a tab without leaving its page, and timers: typing,   *)
(* and sending a request (TypeName to SubmitRegistration, PageTimer, Fetch). *)
LEMMA InPageKeeps ==
  ASSUME SessionInv, NEW t \in Tabs,
         \/ Fetches(t) \/ PageTimer(t) \/ Discard(t) \/ SubmitName(t)
         \/ \E u \in Users : SubmitLogin(t, u) \/ SubmitRegistration(t, u)
         \/ \E n \in Names \cup {None} : TypeName(t, n)
  PROVE  SessionInv'
  <1>1. tabs[t] \in TabType /\ tabs \in [Tabs -> TabType]
    BY DEF SessionInv, BrowserOK
  <1>2. logins \in 1..MaxLogins /\ moves \in 0..MaxMoves
    BY DEF SessionInv, ServerOK, BrowserOK
  <1>3. ASSUME NEW kind \in Kinds,
               NEW arg \in Users \cup Names \cup {None}, NEW tab \in TabType, Stays(t, tab),
               Send(t, kind, arg, tab),
               kind = "save" => arg \in Names /\ tab.page = "account" /\ tab.profile # NoProfile,
               kind = "register" => arg \in Users,
               kind = "login" => tab.page = "login",
               logins' \in {logins, logins + 1}, logins' \in 1..MaxLogins, moves' \in 0..MaxMoves
        PROVE  SessionInv'
    <2> DEFINE q == Request(t, kind, arg)
    <2>1. q \in RequestType /\ q.kind = kind /\ q.arg = arg /\ q.at = "sent" /\ q.tab = t
      BY RequestTyped
    <2>2. tabs' = [tabs EXCEPT ![t] = tab] /\ tabs'[t] = tab
      BY <1>1, <1>3 DEF Send, Draws
    <2>3. requests' = requests \cup {q}
      BY <1>3 DEF Send
    <2>4. Sound(q, tabs', expired)
      <3> HIDE DEF q
      <3>1. QED
        BY <1>3, <2>1, <2>2 DEF Sound, Carries, Refused, Placed
    <2>5. UNCHANGED <<accounts, names, expired, stored, excuses>>
      BY <1>3 DEF Send
    <2>6. QED
      <3> HIDE DEF q
      <3>1. \A x \in requests' \ requests : Sound(x, tabs', expired)
        BY <2>3, <2>4
      <3>2. QED
        BY <1>3, <2>2, <2>5, <3>1, SendKeeps
  <1>4. CASE Fetches(t)
    <2>1. PICK kind \in {"public", "private"} :
            Send(t, kind, None, tabs[t]) /\ logins' = logins /\ moves' = moves
      BY <1>4 DEF Fetches, Fetch
    <2>2. Stays(t, tabs[t])
      BY DEF Stays
    <2>3. QED
      BY <1>1, <1>2, <1>3, <2>1, <2>2, AllKinds
  <1>5. CASE PageTimer(t)
    <2> DEFINE tab == [tabs[t] EXCEPT !.timer = FALSE, !.busy = TRUE]
    <2>1. Send(t, "profile", None, tab) /\ logins' = logins /\ moves' = moves
      BY <1>5 DEF PageTimer
    <2>2. tab \in TabType /\ Stays(t, tab)
      BY <1>1 DEF TabType, Stays
    <2>3. QED
      <3> HIDE DEF tab
      <3>1. QED
        BY <1>2, <1>3, <2>1, <2>2, AllKinds
  <1>6. CASE Discard(t)
    <2> DEFINE tab == [tabs[t] EXCEPT !.typed = tabs[t].profile.name]
    <2>1. tabs[t].profile \in Profiles
      BY <1>1, <1>6 DEF Discard, IsDirty, TabType
    <2>2. tab \in TabType /\ Stays(t, tab)
      BY <1>1, <2>1 DEF TabType, Stays, Profiles
    <2>3. /\ tabs' = [tabs EXCEPT ![t] = tab]
          /\ UNCHANGED <<accounts, names, expired, stored, requests, logins, moves, excuses>>
      BY <1>6 DEF Discard, Draws
    <2>4. QED
      <3> HIDE DEF tab
      <3>1. \A x \in requests' \ requests : Sound(x, tabs', expired)
        BY <2>3
      <3>2. logins' \in {logins, logins + 1} /\ logins' \in 1..MaxLogins /\ moves' \in 0..MaxMoves
        BY <1>2, <2>2, <2>3
      <3>3. UNCHANGED <<accounts, names, expired, stored, excuses>>
        BY <2>3
      <3>4. QED
        BY <2>1, <2>2, <2>3, <3>1, <3>2, <3>3, SendKeeps
  <1>7. CASE SubmitName(t)
    <2> DEFINE tab == [tabs[t] EXCEPT !.saving = TRUE]
    <2>1. /\ Send(t, "save", tabs[t].typed, tab) /\ logins' = logins /\ moves' = moves
          /\ tabs[t].typed # None /\ tabs[t].page = "account" /\ tabs[t].profile # NoProfile
      BY <1>7 DEF SubmitName, IsValid, IsDirty, InProfile
    <2>2. tab \in TabType /\ Stays(t, tab) /\ tab.page = "account" /\ tab.profile # NoProfile
      BY <1>1, <2>1 DEF TabType, Stays
    <2>3. tabs[t].typed \in Names
      BY <1>1, <2>1 DEF TabType
    <2>4. QED
      <3> HIDE DEF tab
      <3>1. QED
        BY <1>2, <1>3, <2>1, <2>2, <2>3, AllKinds
  <1>8. ASSUME NEW u \in Users, SubmitLogin(t, u) PROVE SessionInv'
    <2> DEFINE tab == [tabs[t] EXCEPT !.busy = TRUE]
    <2>1. /\ Send(t, "login", u, tab) /\ tabs[t].page = "login"
          /\ logins < MaxLogins /\ logins' = logins + 1 /\ moves < MaxMoves /\ moves' = moves + 1
      BY <1>8 DEF SubmitLogin, Move
    <2>2. tab \in TabType /\ Stays(t, tab) /\ tab.page = "login"
      BY <1>1, <2>1 DEF TabType, Stays
    <2>3. logins' \in 1..MaxLogins /\ moves' \in 0..MaxMoves /\ logins' \in {logins, logins + 1}
      BY <1>2, <2>1, BoundsAssumption
    <2>4. QED
      <3> HIDE DEF tab
      <3>1. QED
        BY <1>3, <2>1, <2>2, <2>3, AllKinds
  <1>9. ASSUME NEW u \in Users, SubmitRegistration(t, u) PROVE SessionInv'
    <2> DEFINE tab == [tabs[t] EXCEPT !.busy = TRUE]
    <2>1. /\ Send(t, "register", u, tab) /\ logins' = logins
          /\ moves < MaxMoves /\ moves' = moves + 1
      BY <1>9 DEF SubmitRegistration, Move
    <2>2. tab \in TabType /\ Stays(t, tab)
      BY <1>1 DEF TabType, Stays
    <2>3. moves' \in 0..MaxMoves
      BY <1>2, <2>1, BoundsAssumption
    <2>4. QED
      <3> HIDE DEF tab
      <3>1. QED
        BY <1>2, <1>3, <2>1, <2>2, <2>3, AllKinds
  <1>10. ASSUME NEW n \in Names \cup {None}, TypeName(t, n) PROVE SessionInv'
    <2> DEFINE tab == [tabs[t] EXCEPT !.typed = n]
    <2>1. tab \in TabType /\ Stays(t, tab)
      BY <1>1 DEF TabType, Stays
    <2>2. /\ tabs' = [tabs EXCEPT ![t] = tab] /\ moves < MaxMoves /\ moves' = moves + 1
          /\ UNCHANGED <<accounts, names, expired, stored, requests, logins, excuses>>
      BY <1>10 DEF TypeName, Draws, Move
    <2>3. moves' \in 0..MaxMoves
      BY <1>2, <2>2, BoundsAssumption
    <2>4. QED
      <3> HIDE DEF tab
      <3>1. \A x \in requests' \ requests : Sound(x, tabs', expired)
        BY <2>2
      <3>2. logins' \in {logins, logins + 1} /\ logins' \in 1..MaxLogins /\ moves' \in 0..MaxMoves
        BY <1>2, <2>2, <2>3
      <3>3. UNCHANGED <<accounts, names, expired, stored, excuses>>
        BY <2>2
      <3>4. QED
        BY <2>1, <2>2, <2>2, <3>1, <3>2, <3>3, SendKeeps
  <1>11. QED
    BY <1>4, <1>5, <1>6, <1>7, <1>8, <1>9, <1>10

(* Links, documents that load, logging out.                                  *)
LEMMA LeaveKeeps ==
  ASSUME SessionInv, NEW t \in Tabs,
         \/ \E page \in {"home", "login", "register", "account"} : Go(t, page)
         \/ Load(t) \/ LogOut(t)
  PROVE  SessionInv'
  <1>1. tabs[t] \in TabType /\ tabs \in [Tabs -> TabType]
    BY DEF SessionInv, BrowserOK
  <1>2. ASSUME NEW tab \in TabType, tabs' = [tabs EXCEPT ![t] = tab],
               stored' \in {stored, None}, moves' \in {moves, moves + 1}, moves' \in 0..MaxMoves,
               excuses' = [excuses EXCEPT ![t] = {}],
               \A q \in requests' : Sound(q, tabs', expired),
               UNCHANGED <<accounts, names, expired, logins>>
        PROVE  SessionInv'
    <2>1. ServerOK'
      BY <1>2 DEF SessionInv, ServerOK
    <2>2. BrowserOK'
      BY <1>2 DEF SessionInv, BrowserOK
    <2>3. QED
      BY <1>2, <2>1, <2>2 DEF SessionInv, RequestsOK
  <1>3. Move => moves' = moves + 1 /\ moves' \in 0..MaxMoves
    BY BoundsAssumption DEF Move, SessionInv, BrowserOK
  <1>4. ASSUME NEW page \in {"home", "login", "register", "account"}, Go(t, page)
        PROVE  SessionInv'
    <2>1. Arrive(page, tabs[t].auth) \in TabType
      BY <1>1, ArriveTyped DEF TabType
    <2>2. \A q \in requests' : Sound(q, tabs', expired)
      BY <1>4, <2>1, UnmountedSound DEF Go, Draws
    <2>3. QED
      BY <1>2, <1>3, <1>4, <2>1, <2>2 DEF Go, Draws
  <1>5. CASE Load(t)
    <2> DEFINE tab == Arrive(IF Drawn(t) THEN tabs[t].page ELSE "login", stored # None)
    <2>1. tab \in TabType
      BY <1>1, ArriveTyped DEF TabType, Drawn
    <2>2. tabs' = [tabs EXCEPT ![t] = tab] /\ requests' = Unloaded(t)
      BY <1>5 DEF Load, Draws
    <2>3. moves' \in {moves, moves + 1} /\ moves' \in 0..MaxMoves
      BY <1>3, <1>5 DEF Load, SessionInv, BrowserOK
    <2>4. \A q \in requests' : Sound(q, tabs', expired)
      <3> HIDE DEF tab
      <3>1. QED
        BY <2>1, <2>2, UnloadedSound
    <2>5. QED
      <3> HIDE DEF tab
      <3>1. QED
        BY <1>2, <1>5, <2>1, <2>2, <2>3, <2>4 DEF Load
  <1>6. CASE LogOut(t)
    <2> DEFINE tab == IF tabs[t].page = "home" THEN [tabs[t] EXCEPT !.auth = FALSE]
                      ELSE Arrive("home", FALSE)
    <2>1. tab \in TabType
      BY <1>1, ArriveTyped DEF TabType
    <2>2. tabs' = [tabs EXCEPT ![t] = tab]
      BY <1>6 DEF LogOut, Draws
    <2>3. \A q \in requests' : Sound(q, tabs', expired)
      <3>1. CASE tabs[t].page # "home"
        <4> HIDE DEF tab
        <4>1. QED
          BY <1>6, <2>1, <2>2, <3>1, UnmountedSound DEF LogOut
      <3>2. CASE tabs[t].page = "home"
        <4>1. Stays(t, tab) /\ requests' = requests
          BY <1>1, <1>6, <3>2 DEF Stays, LogOut, TabType
        <4>2. SUFFICES ASSUME NEW q \in requests PROVE Sound(q, tabs', expired)
          BY <4>1
        <4>3. Sound(q, tabs, expired) /\ q.tab \in Tabs
          BY DEF SessionInv, RequestsOK, Sound, RequestType
        <4>4. Stays(q.tab, tabs'[q.tab])
          <5> HIDE DEF tab
          <5>1. QED
            BY <1>1, <2>2, <4>1, <4>3 DEF Stays
        <4>5. expired \in Nat /\ expired <= expired
          BY BoundsAssumption DEF SessionInv, ServerOK
        <4>6. QED
          BY <4>3, <4>4, <4>5, SoundStays
      <3>3. QED
        BY <3>1, <3>2
    <2>4. QED
      <3> HIDE DEF tab
      <3>1. QED
        BY <1>2, <1>3, <1>6, <2>1, <2>2, <2>3 DEF LogOut
  <1>7. QED
    BY <1>4, <1>5, <1>6

-----------------------------------------------------------------------------
(* The server handles a request, and it may forget that anybody listens.     *)
LEMMA ServeStep ==
  ASSUME SessionInv, NEW q \in requests, Serve(q)
  PROVE  SessionInv'
  <1>1. q \in RequestType /\ Carries(q) /\ Refused(q, expired) /\ Placed(q, tabs)
    BY DEF SessionInv, RequestsOK, Sound
  <1>2. /\ accounts \subseteq Users /\ names \in [Users -> Names]
        /\ logins \in 1..MaxLogins /\ expired \in 0..logins
        /\ excuses \in [Tabs -> SUBSET {"login", "name", "lost"}]
    BY DEF SessionInv, ServerOK, BrowserOK
  <1>3. q.token # None => q.token \in Tokens /\ q.token.user \in Users
    BY <1>1 DEF RequestType, Tokens
  <1>4. ASSUME NEW at \in {"absent", "ok", "401", "409", "500"},
               NEW answer \in Tokens \cup Profiles \cup {None},
               at = "absent" => q.kind = "register",
               at = "ok" /\ q.kind = "profile" => answer \in Profiles,
               at = "ok" /\ q.kind = "login" => answer \in Tokens,
               at = "401" => Unauthorized(q),
               Becomes(q, at, answer),
               accounts' \subseteq Users, names' \in [Users -> Names],
               excuses' \in [Tabs -> SUBSET {"login", "name", "lost"}],
               UNCHANGED <<expired, stored, tabs, logins, moves>>
        PROVE  SessionInv'
    <2> DEFINE next == [q EXCEPT !.at = at, !.answer = answer]
    <2>1. /\ next \in RequestType /\ next.at = at /\ next.answer = answer
          /\ next.kind = q.kind /\ next.arg = q.arg /\ next.token = q.token
          /\ next.mounted = q.mounted /\ next.tab = q.tab
      BY <1>1, <1>4 DEF RequestType
    <2>2. requests' \subseteq (requests \ {q}) \cup {next}
      BY <1>4 DEF Becomes
    <2>3. Sound(next, tabs, expired)
      <3> HIDE DEF next
      <3>1. Carries(next)
        BY <1>1, <1>4, <2>1 DEF Carries
      <3>2. Refused(next, expired)
        BY <1>4, <2>1 DEF Refused, Unauthorized
      <3>3. Placed(next, tabs)
        BY <1>1, <2>1 DEF Placed
      <3>4. QED
        BY <2>1, <3>1, <3>2, <3>3 DEF Sound
    <2>4. QED
      <3> HIDE DEF next
      <3>1. QED
        BY <1>4, <2>2, <2>3, ServeKeeps
  <1>5. CASE Refuse(q)
    BY <1>2, <1>4, <1>5 DEF Refuse
  <1>6. CASE Read(q)
    <2>1. ~Unauthorized(q) /\ q.kind \in {"public", "private", "profile", "login"}
      BY <1>1, <1>6, AllKinds DEF Read, RequestType
    <2>2. CASE q.kind \in {"public", "private"}
      <3>1. Becomes(q, "ok", None)
        BY <1>6, <2>2 DEF Read
      <3>2. QED
        BY <1>2, <1>4, <1>6, <2>2, <3>1 DEF Read
    <2>3. CASE q.kind = "profile"
      <3>1. Becomes(q, "ok", [user |-> q.token.user, name |-> names[q.token.user]])
        BY <1>6, <2>3 DEF Read
      <3>2. [user |-> q.token.user, name |-> names[q.token.user]] \in Profiles
        BY <1>2, <1>3, <2>1, <2>3 DEF Unauthorized, NeedLogin, Profiles
      <3>3. QED
        BY <1>2, <1>4, <1>6, <2>3, <3>1, <3>2 DEF Read
    <2>4. CASE q.kind = "login"
      <3>1. Becomes(q, "ok", [user |-> q.arg, no |-> logins])
        BY <1>6, <2>4 DEF Read
      <3>2. [user |-> q.arg, no |-> logins] \in Tokens
        BY <1>2, <2>1, <2>4 DEF Unauthorized, Tokens
      <3>3. QED
        BY <1>2, <1>4, <1>6, <2>4, <3>1, <3>2 DEF Read
    <2>5. QED
      BY <2>1, <2>2, <2>3, <2>4
  <1>7. CASE SaveName(q)
    <2>1. names' \in [Users -> Names]
      BY <1>1, <1>2, <1>3, <1>7 DEF SaveName, Unauthorized, Carries
    <2>2. excuses' \in [Tabs -> SUBSET {"login", "name", "lost"}]
      BY <1>2, <1>7 DEF SaveName, Excused
    <2>3. QED
      BY <1>2, <1>4, <1>7, <2>1, <2>2 DEF SaveName
  <1>8. CASE FindEmail(q)
    BY <1>2, <1>4, <1>8 DEF FindEmail
  <1>9. CASE InsertUser(q)
    <2>1. q.kind = "register" /\ accounts' \subseteq Users
      BY <1>1, <1>2, <1>9 DEF InsertUser, Carries
    <2>2. QED
      BY <1>2, <1>4, <1>9, <2>1 DEF InsertUser
  <1>10. QED
    BY <1>5, <1>6, <1>7, <1>8, <1>9 DEF Serve

(* A request ends: what its tab makes of the answer leaves the others alone. *)
LEMMA AnswerKeeps ==
  ASSUME SessionInv, NEW q \in requests, NEW tab \in TabType, Stays(q.tab, tab),
         tabs' \in {tabs, [tabs EXCEPT ![q.tab] = tab]},
         NEW left, Sound(left, tabs, expired), ~left.mounted,
         requests' \subseteq (requests \ {q}) \cup {left},
         stored' \in Tokens \cup {None}, excuses' \in [Tabs -> SUBSET {"login", "name", "lost"}],
         UNCHANGED <<accounts, names, expired, logins, moves>>
  PROVE  SessionInv'
  <1>1. /\ q.tab \in Tabs /\ tabs \in [Tabs -> TabType]
        /\ tabs' \in [Tabs -> TabType]
    BY DEF SessionInv, RequestsOK, BrowserOK, Sound, RequestType
  <1>2. ServerOK'
    BY DEF SessionInv, ServerOK
  <1>3. BrowserOK'
    BY <1>1 DEF SessionInv, BrowserOK
  <1>4. RequestsOK'
    <2> SUFFICES ASSUME NEW x \in requests' PROVE Sound(x, tabs', expired)
      BY DEF RequestsOK
    <2>1. Sound(x, tabs, expired)
      BY DEF SessionInv, RequestsOK
    <2>2. x.tab \in Tabs
      BY <2>1 DEF Sound, RequestType
    <2>3. Stays(x.tab, tabs'[x.tab])
      BY <1>1, <2>2 DEF Stays
    <2>4. expired \in Nat /\ expired <= expired
      BY BoundsAssumption DEF SessionInv, ServerOK
    <2>5. QED
      BY <2>1, <2>3, <2>4, SoundStays
  <1>5. QED
    BY <1>2, <1>3, <1>4 DEF SessionInv

(* The answers (Answer), and none at all (Lost).                             *)
LEMMA AnswerStep ==
  ASSUME SessionInv, NEW q \in requests, Answer(q)
  PROVE  SessionInv'
  <1>1. /\ q \in RequestType /\ Carries(q) /\ Placed(q, tabs) /\ Sound(q, tabs, expired)
        /\ q.tab \in Tabs
    BY DEF SessionInv, RequestsOK, Sound, RequestType
  <1>2. tabs \in [Tabs -> TabType] /\ tabs[q.tab] \in TabType
    BY <1>1 DEF SessionInv, BrowserOK
  <1>3. /\ stored \in Tokens \cup {None}
        /\ excuses \in [Tabs -> SUBSET {"login", "name", "lost"}]
    BY DEF SessionInv, BrowserOK
  <1> DEFINE gone == [q EXCEPT !.heard = FALSE, !.mounted = FALSE]
  <1>4. Sound(gone, tabs, expired) /\ ~gone.mounted
    BY <1>1, SoundUnmounted DEF RequestType
  <1>5. ASSUME NEW tab \in TabType, q.mounted => Stays(q.tab, tab), Ends(q, tab),
               UNCHANGED <<stored, excuses>>
        PROVE  SessionInv'
    <2>1. requests' \subseteq (requests \ {q}) \cup {gone}
      BY <1>5 DEF Ends
    <2>2. UNCHANGED <<accounts, names, expired, logins, moves>>
      BY <1>5 DEF Ends
    <2>3. CASE q.mounted
      <3>1. tabs' \in {tabs, [tabs EXCEPT ![q.tab] = tab]}
        BY <1>5 DEF Ends
      <3>2. QED
        <4> HIDE DEF gone
        <4>1. QED
          BY <1>3, <1>4, <1>5, <2>1, <2>2, <2>3, <3>1, AnswerKeeps
    <2>4. CASE ~q.mounted
      <3>1. tabs' = tabs /\ Stays(q.tab, tabs[q.tab])
        BY <1>5, <2>4 DEF Ends, Stays
      <3>2. tabs' \in {tabs, [tabs EXCEPT ![q.tab] = tabs[q.tab]]}
        BY <3>1
      <3>3. QED
        <4> HIDE DEF gone
        <4>1. QED
          BY <1>2, <1>3, <1>4, <1>5, <2>1, <2>2, <3>1, <3>2, AnswerKeeps
    <2>5. QED
      BY <2>3, <2>4
  <1>6. CASE Answer401(q)
    <2> DEFINE tab == [tabs[q.tab] EXCEPT !.page = "leaving", !.timer = FALSE]
    <2>1. tab \in TabType
      BY <1>2 DEF TabType
    <2>2. /\ tabs' = [tabs EXCEPT ![q.tab] = tab] /\ requests' \subseteq Unloaded(q.tab)
          /\ stored' = None /\ UNCHANGED <<accounts, names, expired, logins, moves, excuses>>
      BY <1>6 DEF Answer401, Draws
    <2> HIDE DEF tab
    <2>3. RequestsOK'
      BY <1>1, <2>1, <2>2, UnloadedSound DEF RequestsOK
    <2>4. ServerOK' /\ BrowserOK'
      BY <2>1, <2>2 DEF SessionInv, ServerOK, BrowserOK
    <2>5. QED
      BY <2>3, <2>4 DEF SessionInv
  <1>7. CASE LoginAnswer(q)
    <2>1. q.answer \in Tokens /\ stored' = q.answer
      BY <1>1, <1>7 DEF LoginAnswer, Carries
    <2>2. /\ UNCHANGED <<accounts, names, expired, logins, moves>>
          /\ excuses' \in [Tabs -> SUBSET {"login", "name", "lost"}]
      BY <1>3, <1>7 DEF LoginAnswer, Excused
    <2> DEFINE known == [tabs[q.tab] EXCEPT !.auth = TRUE,
                           !.timer = @ \/ (tabs[q.tab].page = "account" /\ ~tabs[q.tab].auth)]
    <2>3. CASE tabs[q.tab].page = "login"
      <3>1. Arrive("home", TRUE) \in TabType
        BY ArriveTyped
      <3>2. tabs' = [tabs EXCEPT ![q.tab] = Arrive("home", TRUE)] /\ requests' \subseteq Unmounted(q.tab)
        BY <1>2, <1>7, <2>3 DEF LoginAnswer, Draws, TabType
      <3>3. RequestsOK'
        BY <1>1, <2>2, <3>1, <3>2, UnmountedSound DEF RequestsOK
      <3>4. ServerOK' /\ BrowserOK'
        BY <1>3, <2>1, <2>2, <3>1, <3>2 DEF SessionInv, ServerOK, BrowserOK
      <3>5. QED
        BY <3>3, <3>4 DEF SessionInv
    <2>4. CASE tabs[q.tab].page # "login"
      <3>1. known \in TabType /\ Stays(q.tab, known)
        BY <1>2 DEF TabType, Stays
      <3>2. tabs' = [tabs EXCEPT ![q.tab] = known]
        BY <1>2, <1>7, <2>4 DEF LoginAnswer, Draws, TabType
      <3>3. QED
        <4> HIDE DEF known, gone
        <4>1. tabs' \in {tabs, [tabs EXCEPT ![q.tab] = known]}
          BY <3>2
        <4>2. requests' \subseteq (requests \ {q}) \cup {gone}
          BY <1>7, <2>4 DEF LoginAnswer
        <4>3. QED
          BY <1>4, <2>1, <2>2, <3>1, <4>1, <4>2, AnswerKeeps
    <2>5. QED
      BY <2>3, <2>4
  <1>8. CASE FetchAnswer(q)
    <2>1. Stays(q.tab, tabs[q.tab])
      BY DEF Stays
    <2>2. QED
      BY <1>2, <1>5, <1>8, <2>1 DEF FetchAnswer
  <1>9. CASE ProfileAnswer(q)
    <2> DEFINE tab == [tabs[q.tab] EXCEPT !.profile = q.answer, !.typed = q.answer.name, !.busy = FALSE]
    <2>1. q.answer \in Profiles
      BY <1>1, <1>9 DEF ProfileAnswer, Carries
    <2>2. q.answer # NoProfile
      BY <2>1, NoneAssumption DEF Profiles, NoProfile
    <2>3. tab \in TabType /\ Stays(q.tab, tab)
      BY <1>2, <2>1, <2>2 DEF TabType, Stays, Profiles
    <2>4. Ends(q, tab) /\ UNCHANGED <<stored, excuses>>
      BY <1>9 DEF ProfileAnswer
    <2>5. QED
      <3> HIDE DEF tab
      <3>1. QED
        BY <1>5, <2>3, <2>4
  <1>10. CASE SaveAnswer(q)
    <2> DEFINE tab == [tabs[q.tab] EXCEPT !.profile.name = q.arg, !.typed = q.arg, !.saving = FALSE]
    <2>1. q.arg \in Names /\ q.kind = "save" /\ Ends(q, tab) /\ UNCHANGED <<stored, excuses>>
      BY <1>1, <1>10 DEF SaveAnswer, Carries
    <2>2. CASE q.mounted
      <3>1. tabs[q.tab].profile \in Profiles
        BY <1>1, <1>2, <2>1, <2>2 DEF Placed, TabType
      <3>2. tab \in TabType /\ Stays(q.tab, tab)
        BY <1>2, <2>1, <3>1, NoneAssumption DEF TabType, Stays, Profiles, NoProfile
      <3>3. QED
        <4> HIDE DEF tab
        <4>1. QED
          BY <1>5, <2>1, <3>2
    <2>3. CASE ~q.mounted
      <3>1. Ends(q, tabs[q.tab])
        BY <2>1, <2>3 DEF Ends
      <3>2. QED
        BY <1>2, <1>5, <2>1, <2>3, <3>1
    <2>4. QED
      BY <2>2, <2>3
  <1>11. CASE RegisterAnswer(q)
    <2> DEFINE tab == [tabs[q.tab] EXCEPT !.busy = FALSE, !.done = q.at = "ok"]
    <2>1. tab \in TabType /\ Stays(q.tab, tab)
      BY <1>2 DEF TabType, Stays
    <2>2. Ends(q, tab) /\ UNCHANGED <<stored, excuses>>
      BY <1>11 DEF RegisterAnswer
    <2>3. QED
      <3> HIDE DEF tab
      <3>1. QED
        BY <1>5, <2>1, <2>2
  <1>12. CASE Lost(q)
    <2> DEFINE tab == [tabs[q.tab] EXCEPT !.busy = FALSE, !.saving = FALSE]
    <2>1. tab \in TabType /\ Stays(q.tab, tab)
      BY <1>2 DEF TabType, Stays
    <2>2. tabs' \in {tabs, [tabs EXCEPT ![q.tab] = tab]}
      BY <1>2, <1>12 DEF Lost, TabType
    <2>3. requests' \subseteq (requests \ {q}) \cup {gone}
      BY <1>12 DEF Lost
    <2>4. /\ UNCHANGED <<accounts, names, expired, stored, logins, moves>>
          /\ excuses' \in [Tabs -> SUBSET {"login", "name", "lost"}]
      BY <1>3, <1>12 DEF Lost, Excused
    <2>5. QED
      <3> HIDE DEF tab, gone
      <3>1. QED
        BY <1>3, <1>4, <2>1, <2>2, <2>3, <2>4, AnswerKeeps
  <1>13. QED
    BY <1>6, <1>7, <1>8, <1>9, <1>10, <1>11, <1>12 DEF Answer

-----------------------------------------------------------------------------
(* Every step keeps the invariant.                                           *)
LEMMA StepKeeps ==
  ASSUME SessionInv, [Next]_vars
  PROVE  SessionInv'
  <1>1. CASE UNCHANGED vars
    BY <1>1 DEF vars, SessionInv, ServerOK, BrowserOK, RequestsOK
  <1>2. CASE Expire
    <2>1. expired \in Nat /\ expired' \in Nat /\ expired <= expired' /\ expired' \in 0..logins
      BY <1>2, BoundsAssumption DEF Expire, SessionInv, ServerOK
    <2>2. UNCHANGED <<accounts, names, stored, tabs, requests, logins, moves, excuses>>
      BY <1>2 DEF Expire
    <2>3. ASSUME NEW q \in requests PROVE Sound(q, tabs, expired')
      <3>1. Sound(q, tabs, expired)
        BY DEF SessionInv, RequestsOK
      <3>2. Stays(q.tab, tabs[q.tab])
        BY DEF Stays
      <3>3. QED
        BY <2>1, <3>1, <3>2, SoundStays
    <2>4. QED
      BY <2>1, <2>2, <2>3 DEF SessionInv, ServerOK, BrowserOK, RequestsOK
  <1>3. CASE User
    BY <1>3, InPageKeeps, LeaveKeeps DEF User
  <1>4. ASSUME NEW t \in Tabs, Runs(t) PROVE SessionInv'
    <2>1. ASSUME NEW q \in Of(t), Serve(q) \/ Answer(q) PROVE SessionInv'
      <3>1. q \in requests
        BY DEF Of
      <3>2. QED
        BY <2>1, <3>1, ServeStep, AnswerStep
    <2>2. QED
      BY <1>4, <2>1, InPageKeeps, LeaveKeeps DEF Runs
  <1>5. QED
    BY <1>1, <1>2, <1>3, <1>4 DEF Next

(* It holds when nothing has been asked for yet.                              *)
LEMMA InitHolds == Init => SessionInv
  <1> SUFFICES ASSUME Init PROVE SessionInv
    OBVIOUS
  <1>1. /\ (CHOOSE u \in Registered : TRUE) \in Users
        /\ (CHOOSE n \in Names : TRUE) \in Names
    BY UsersAssumption, NamesAssumption
  <1>2. ServerOK
    BY <1>1, UsersAssumption, BoundsAssumption DEF Init, ServerOK
  <1>3. tabs \in [Tabs -> TabType]
    <2>1. PICK knowing \in SUBSET Tabs : tabs = [t \in Tabs |-> Arrive("login", t \in knowing)]
      BY DEF Init
    <2>2. ASSUME NEW t \in Tabs PROVE Arrive("login", t \in knowing) \in TabType
      <3>1. (t \in knowing) \in BOOLEAN
        OBVIOUS
      <3>2. QED
        BY <3>1, ArriveTyped
    <2>3. QED
      BY <2>1, <2>2
  <1>4. stored \in Tokens
    BY <1>1, BoundsAssumption DEF Init, Tokens
  <1>5. moves \in 0..MaxMoves /\ excuses \in [Tabs -> SUBSET {"login", "name", "lost"}]
    BY BoundsAssumption DEF Init
  <1>6. RequestsOK
    BY DEF Init, RequestsOK
  <1>7. QED
    BY <1>2, <1>3, <1>4, <1>5, <1>6 DEF SessionInv, BrowserOK

(* Whatever is known of a request's page and refusal, holds from the start.  *)
THEOREM Invariance == Spec => []SessionInv
  <1>1. SessionInv /\ [Next]_vars => SessionInv'
    BY StepKeeps
  <1>2. QED
    BY InitHolds, <1>1, PTL DEF Spec

(* Type correctness, for any tabs, users and names.                          *)
THEOREM TypeCorrect == Spec => []TypeOK
  <1>1. SessionInv => TypeOK
    <2> SUFFICES ASSUME SessionInv PROVE TypeOK
      OBVIOUS
    <2>1. /\ accounts \subseteq Users /\ names \in [Users -> Names]
          /\ stored \in Tokens \cup {None}
          /\ expired \in 0..logins /\ logins \in 0..MaxLogins /\ moves \in 0..MaxMoves
          /\ excuses \in [Tabs -> SUBSET {"login", "name", "lost"}]
      BY BoundsAssumption DEF SessionInv, ServerOK, BrowserOK
    <2>2. ASSUME NEW t \in Tabs
          PROVE  /\ tabs[t].page \in {"home", "login", "register", "account", "leaving"}
                 /\ {tabs[t].auth, tabs[t].timer, tabs[t].busy, tabs[t].saving, tabs[t].done} \subseteq BOOLEAN
                 /\ tabs[t].profile \in Profiles \cup {NoProfile}
                 /\ tabs[t].typed \in Names \cup {None}
      <3>1. tabs[t] \in TabType
        BY DEF SessionInv, BrowserOK
      <3>2. QED
        BY <3>1 DEF TabType
    <2>3. ASSUME NEW q \in requests
          PROVE  /\ q.tab \in Tabs /\ q.token \in Tokens \cup {None} /\ {q.mounted, q.heard} \subseteq BOOLEAN
                 /\ q.kind \in Kinds
                 /\ q.at \in {"sent", "absent", "ok", "401", "409", "500"}
                 /\ q.arg \in Users \cup Names \cup {None}
      <3>1. q \in RequestType
        BY DEF SessionInv, RequestsOK, Sound
      <3>2. QED
        BY <3>1 DEF RequestType
    <2>4. QED
      BY <2>1, <2>2, <2>3 DEF TypeOK, Profiles
  <1>2. QED
    BY <1>1, Invariance, PTL

(* A token leaves the browser for one of the reasons listed, for any tabs,   *)
(* users and names.                                                          *)
THEOREM TokenLeavesForAReason == Spec => TokenGoesForAReason
  <1>1. ASSUME SessionInv, [Next]_vars, stored # None, stored' = None
        PROVE  \/ \E t \in Tabs : LogOut(t)
               \/ stored.no <= expired
               \/ \E q \in requests \ requests' : q.at = "401" /\ (q.kind = "login" \/ q.token # stored)
    <2>1. ASSUME NEW q \in requests, Answer401(q)
          PROVE  \/ stored.no <= expired
                 \/ \E x \in requests \ requests' : x.at = "401" /\ (x.kind = "login" \/ x.token # stored)
      <3>1. q \in requests \ requests' /\ q.at = "401"
        BY <2>1 DEF Answer401
      <3>2. q.kind = "login" \/ q.token = None \/ q.token.no <= expired
        BY <1>1, <3>1 DEF SessionInv, RequestsOK, Sound, Refused
      <3>3. QED
        BY <1>1, <3>1, <3>2
    <2>2. ASSUME NEW q \in requests PROVE ~LoginAnswer(q)
      <3> SUFFICES ASSUME LoginAnswer(q) PROVE FALSE
        OBVIOUS
      <3>1. q.answer \in Tokens /\ stored' = q.answer
        BY <1>1 DEF SessionInv, RequestsOK, Sound, Carries, LoginAnswer
      <3>2. None \notin Tokens
        BY NoneAssumption, BoundsAssumption DEF Tokens
      <3>3. QED
        BY <1>1, <3>1, <3>2
    <2>3. ASSUME NEW q \in requests, Serve(q) \/ Answer(q) PROVE Answer401(q)
      BY <1>1, <2>2, <2>3
      DEF Serve, Answer, Refuse, Read, SaveName, FindEmail, InsertUser, FetchAnswer,
          ProfileAnswer, SaveAnswer, RegisterAnswer, Lost
    <2>4. CASE User
      BY <1>1, <2>4
      DEF User, Go, Load, SubmitLogin, SubmitRegistration, TypeName, Discard, SubmitName, Fetches, Fetch, Send
    <2>5. ASSUME NEW t \in Tabs, Runs(t)
          PROVE  \E q \in requests : Answer401(q)
      <3>1. ~PageTimer(t) /\ ~Load(t)
        BY <1>1 DEF PageTimer, Load, Send
      <3>2. PICK q \in Of(t) : Serve(q) \/ Answer(q)
        BY <2>5, <3>1 DEF Runs
      <3>3. QED
        BY <2>3, <3>2 DEF Of
    <2>6. QED
      BY <1>1, <2>1, <2>4, <2>5 DEF Next, Expire, vars
  <1>2. QED
    BY <1>1, Invariance, PTL DEF Spec, TokenGoesForAReason

-----------------------------------------------------------------------------
(* The account page.  While nothing excuses a difference, the page has asked *)
(* for the profile once, and draws it or waits for it; at most one save is   *)
(* under way; every token it has sent, and the one stored, if there is one,  *)
(* is of the account whose profile it draws; and the name drawn is the one   *)
(* on the server, or that is the name of a save whose answer is on its way.  *)
Mine(t) == {q \in Of(t) : q.mounted}
Reads(t) == {q \in Mine(t) : q.kind = "profile"}
Saves(t) == {q \in Mine(t) : q.kind = "save"}
AccountOf(u) == stored # None => stored.user = u

MineTrue(t) == \A q \in Mine(t) : q.kind \in {"profile", "save"} /\ q.heard
TimerTrue(t) == tabs[t].timer => tabs[t].profile = NoProfile /\ Reads(t) = {}
ReadTrue(q) ==
  /\ tabs[q.tab].profile = NoProfile
  /\ q.token # None => AccountOf(q.token.user)
  /\ q.at = "ok" => /\ q.token # None
                    /\ q.answer = [user |-> q.token.user, name |-> names[q.token.user]]
ReadsTrue(t) ==
  (\A q \in Reads(t) : ReadTrue(q)) /\ (\A q, x \in Reads(t) : q = x)
SaveTrue(q) ==
  /\ tabs[q.tab].saving
  /\ q.token # None => q.token.user = tabs[q.tab].profile.user
  /\ q.at = "ok" => q.arg = names[tabs[q.tab].profile.user]
SavesTrue(t) ==
  (\A q \in Saves(t) : SaveTrue(q)) /\ (\A q, x \in Saves(t) : q = x)
ProfileTrue(t) ==
  tabs[t].profile # NoProfile =>
    /\ AccountOf(tabs[t].profile.user)
    /\ \/ tabs[t].profile.name = names[tabs[t].profile.user]
       \/ \E q \in Saves(t) : q.at = "ok"
Calm(t) == tabs[t].page = "account" /\ excuses[t] = {}
PageTrue(t) ==
  MineTrue(t) /\ TimerTrue(t) /\ ReadsTrue(t) /\ SavesTrue(t) /\ ProfileTrue(t)
TabTrue(t) == Calm(t) => PageTrue(t)
NameInv == SessionInv /\ \A t \in Tabs : TabTrue(t)

(* A tab that is left alone, while the token stored may go and the names     *)
(* change only if that excuses it.                                           *)
LEMMA Untouched ==
  ASSUME NEW t \in Tabs, TabTrue(t), tabs'[t] = tabs[t], Mine(t)' = Mine(t),
         Calm(t)' => Calm(t) /\ stored' \in {stored, None} /\ names' = names
  PROVE  TabTrue(t)'
  <1> SUFFICES ASSUME Calm(t)' PROVE PageTrue(t)'
    BY DEF TabTrue
  <1>1. PageTrue(t) /\ Reads(t)' = Reads(t) /\ Saves(t)' = Saves(t)
    BY DEF TabTrue, Reads, Saves
  <1>2. \A q \in Mine(t) : q.tab = t
    BY DEF Mine, Of
  <1>3. MineTrue(t)' /\ TimerTrue(t)'
    BY <1>1 DEF PageTrue, MineTrue, TimerTrue
  <1>4. ReadsTrue(t)'
    BY <1>1, <1>2 DEF PageTrue, ReadsTrue, ReadTrue, Reads, AccountOf
  <1>5. SavesTrue(t)'
    BY <1>1, <1>2 DEF PageTrue, SavesTrue, SaveTrue, Saves
  <1>6. ProfileTrue(t)'
    BY <1>1 DEF PageTrue, ProfileTrue, AccountOf
  <1>7. QED
    BY <1>3, <1>4, <1>5, <1>6 DEF PageTrue

(* A page that has just been mounted has asked for nothing and draws nothing.*)
LEMMA Mounted ==
  ASSUME NEW t \in Tabs, Mine(t)' = {}, tabs'[t].profile = NoProfile
  PROVE  TabTrue(t)'
  BY DEF TabTrue, PageTrue, MineTrue, TimerTrue, ReadsTrue, SavesTrue, ProfileTrue, Reads, Saves

(* What a tab leaves behind has no component.                                *)
LEMMA LeftMine ==
  ASSUME SessionInv, NEW a \in Tabs, NEW t \in Tabs
  PROVE  /\ requests' = Unmounted(a) \/ requests' = Unloaded(a)
              => Mine(t)' = IF t = a THEN {} ELSE Mine(t)
         /\ \A q \in Of(a) : requests' = Unloaded(a) \ {q}
              => Mine(t)' = IF t = a THEN {} ELSE Mine(t)
  <1>1. \A q \in Of(a) : /\ ~[q EXCEPT !.mounted = FALSE].mounted
                         /\ ~[q EXCEPT !.heard = FALSE, !.mounted = FALSE].mounted
                         /\ [q EXCEPT !.mounted = FALSE].tab = a
                         /\ [q EXCEPT !.heard = FALSE, !.mounted = FALSE].tab = a
    BY DEF SessionInv, RequestsOK, Sound, RequestType, Of
  <1>2. requests' = Unmounted(a) => Mine(t)' = IF t = a THEN {} ELSE Mine(t)
    BY <1>1 DEF Unmounted, Mine, Of
  <1>3. requests' = Unloaded(a) => Mine(t)' = IF t = a THEN {} ELSE Mine(t)
    BY <1>1 DEF Unloaded, Mine, Of
  <1>4. ASSUME NEW q \in Of(a), requests' = Unloaded(a) \ {q}
        PROVE  Mine(t)' = IF t = a THEN {} ELSE Mine(t)
    BY <1>1, <1>4 DEF Unloaded, Mine, Of
  <1>5. QED
    BY <1>2, <1>3, <1>4

(* Links, documents that load, logging out.                                  *)
LEMMA LeaveTrue ==
  ASSUME NameInv, NEW a \in Tabs, NEW t \in Tabs,
         \/ \E page \in {"home", "login", "register", "account"} : Go(a, page)
         \/ Load(a) \/ LogOut(a)
  PROVE  TabTrue(t)'
  <1>1. SessionInv /\ TabTrue(t) /\ tabs \in [Tabs -> TabType] /\ excuses \in [Tabs -> SUBSET {"login", "name", "lost"}]
    BY DEF NameInv, SessionInv, BrowserOK
  <1>2. names' = names /\ stored' \in {stored, None} /\ excuses' = [excuses EXCEPT ![a] = {}]
    BY DEF Go, Load, LogOut
  <1>3. \A page, auth : Arrive(page, auth).profile = NoProfile
    BY DEF Arrive
  <1>4. CASE LogOut(a) /\ tabs[a].page = "home"
    <2>1. Mine(t)' = Mine(t)
      BY <1>4 DEF LogOut, Mine, Of
    <2>2. tabs' = [tabs EXCEPT ![a] = [tabs[a] EXCEPT !.auth = FALSE]]
      BY <1>4 DEF LogOut, Draws
    <2>3. CASE t = a
      <3>1. tabs'[t].page = "home"
        BY <1>1, <1>4, <2>2, <2>3 DEF TabType
      <3>2. QED
        BY <3>1 DEF TabTrue, Calm
    <2>4. CASE t # a
      BY <1>1, <1>2, <2>1, <2>2, <2>4, Untouched DEF Calm
    <2>5. QED
      BY <2>3, <2>4
  <1>5. CASE ~(LogOut(a) /\ tabs[a].page = "home")
    <2>1. requests' = Unmounted(a) \/ requests' = Unloaded(a)
      BY <1>5 DEF Go, Load, LogOut
    <2>2. \E tab : tabs' = [tabs EXCEPT ![a] = tab] /\ tab.profile = NoProfile
      <3>1. CASE \E page \in {"home", "login", "register", "account"} : Go(a, page)
        BY <1>3, <3>1 DEF Go, Draws
      <3>2. CASE Load(a)
        BY <1>3, <3>2 DEF Load, Draws
      <3>3. CASE LogOut(a)
        BY <1>3, <1>5, <3>3 DEF LogOut, Draws
      <3>4. QED
        BY <3>1, <3>2, <3>3
    <2>3. Mine(t)' = IF t = a THEN {} ELSE Mine(t)
      BY <1>1, <2>1, LeftMine
    <2>4. CASE t = a
      BY <1>1, <2>2, <2>3, <2>4, Mounted
    <2>5. CASE t # a
      <3>1. tabs'[t] = tabs[t] /\ excuses'[t] = excuses[t]
        BY <1>1, <1>2, <2>2, <2>5
      <3>2. QED
        BY <1>1, <1>2, <2>3, <2>5, <3>1, Untouched DEF Calm
    <2>6. QED
      BY <2>4, <2>5
  <1>6. QED
    BY <1>4, <1>5

(* A request is sent with the token stored, to the account that is drawn, or *)
(* its name is typed (PageTimer, SubmitName, TypeName, Discard).             *)
LEMMA InPageTrue ==
  ASSUME NameInv, NEW a \in Tabs, NEW t \in Tabs,
         \/ Fetches(a) \/ PageTimer(a) \/ Discard(a) \/ SubmitName(a)
         \/ \E u \in Users : SubmitLogin(a, u) \/ SubmitRegistration(a, u)
         \/ \E n \in Names \cup {None} : TypeName(a, n)
  PROVE  TabTrue(t)'
  <1>1. /\ TabTrue(t) /\ tabs \in [Tabs -> TabType] /\ tabs[a] \in TabType
        /\ stored \in Tokens \cup {None}
    BY DEF NameInv, SessionInv, BrowserOK
  <1>2. UNCHANGED <<names, stored, excuses>>
    BY DEF Fetches, Fetch, PageTimer, Discard, SubmitName, SubmitLogin, SubmitRegistration, TypeName, Send
  <1>3. \A kind, arg : /\ Request(a, kind, arg).tab = a /\ Request(a, kind, arg).mounted
                       /\ Request(a, kind, arg).heard /\ Request(a, kind, arg).at = "sent"
                       /\ Request(a, kind, arg).kind = kind /\ Request(a, kind, arg).token = stored
    BY DEF Request
  <1>4. CASE t # a
    <2>1. tabs'[t] = tabs[t]
      BY <1>1, <1>4 DEF Fetches, Fetch, PageTimer, Discard, SubmitName, SubmitLogin, SubmitRegistration, TypeName, Send, Draws
    <2>2. Mine(t)' = Mine(t)
      <3>1. \/ requests' = requests
            \/ \E kind, arg : requests' = requests \cup {Request(a, kind, arg)}
        BY DEF Fetches, Fetch, PageTimer, Discard, SubmitName, SubmitLogin, SubmitRegistration, TypeName, Send
      <3>2. QED
        BY <1>3, <1>4, <3>1 DEF Mine, Of
    <2>3. QED
      BY <1>1, <1>2, <2>1, <2>2, Untouched DEF Calm
  <1>5. CASE t = a /\ ~Calm(a)
    <2>1. tabs'[a].page = tabs[a].page
      <3> DEFINE Kept(tab) == tabs' = [tabs EXCEPT ![a] = tab] => tabs'[a].page = tab.page
      <3>1. \A tab : Kept(tab)
        BY <1>1
      <3>2. CASE PageTimer(a)
        BY <1>1, <3>1, <3>2 DEF PageTimer, Send, Draws, TabType
      <3>3. CASE Discard(a) \/ SubmitName(a)
        BY <1>1, <3>1, <3>3 DEF Discard, SubmitName, Send, Draws, TabType
      <3>4. CASE Fetches(a)
        BY <1>1, <3>1, <3>4 DEF Fetches, Fetch, Send, Draws
      <3>5. ASSUME NEW u \in Users, SubmitLogin(a, u) \/ SubmitRegistration(a, u)
            PROVE  tabs'[a].page = tabs[a].page
        BY <1>1, <3>1, <3>5 DEF SubmitLogin, SubmitRegistration, Send, Draws, TabType
      <3>6. ASSUME NEW n \in Names \cup {None}, TypeName(a, n)
            PROVE  tabs'[a].page = tabs[a].page
        BY <1>1, <3>1, <3>6 DEF TypeName, Draws, TabType
      <3>7. QED
        BY <3>2, <3>3, <3>4, <3>5, <3>6
    <2>2. QED
      BY <1>2, <1>5, <2>1 DEF Calm, TabTrue
  <1>6. CASE t = a /\ Calm(a)
    <2> SUFFICES PageTrue(a)'
      BY <1>6 DEF TabTrue
    <2>1. PageTrue(a) /\ \A q \in Mine(a) : q.tab = a
      BY <1>1, <1>6 DEF TabTrue, Mine, Of
    <2>2. ~Fetches(a) /\ \A u \in Users : ~SubmitLogin(a, u) /\ ~SubmitRegistration(a, u)
      BY <1>6 DEF Calm, Fetches, Fetch, SubmitLogin, SubmitRegistration
    <2>3. CASE PageTimer(a)
      <3>1. PICK q : q = Request(a, "profile", None)
        OBVIOUS
      <3>2. tabs' = [tabs EXCEPT ![a] = [tabs[a] EXCEPT !.timer = FALSE, !.busy = TRUE]]
        BY <2>3 DEF PageTimer, Send, Draws
      <3>3. /\ tabs'[a].timer = FALSE /\ tabs'[a].profile = tabs[a].profile
            /\ tabs'[a].saving = tabs[a].saving
        BY <1>1, <3>2 DEF TabType
      <3>4. tabs[a].profile = NoProfile /\ Reads(a) = {}
        BY <2>1, <2>3 DEF PageTimer, PageTrue, TimerTrue
      <3>5. Mine(a)' = Mine(a) \cup {q}
        BY <1>3, <2>3, <3>1 DEF PageTimer, Send, Mine, Of
      <3>6. Reads(a)' = {q} /\ Saves(a)' = Saves(a)
        BY <1>3, <3>1, <3>4, <3>5 DEF Reads, Saves
      <3>7. MineTrue(a)' /\ TimerTrue(a)' /\ ProfileTrue(a)'
        BY <1>3, <2>1, <3>1, <3>3, <3>4, <3>5 DEF PageTrue, MineTrue, TimerTrue, ProfileTrue
      <3>8. ReadsTrue(a)'
        BY <1>2, <1>3, <3>1, <3>3, <3>4, <3>6 DEF ReadsTrue, ReadTrue, AccountOf
      <3>9. SavesTrue(a)'
        BY <1>2, <2>1, <3>3, <3>6 DEF PageTrue, SavesTrue, SaveTrue, Saves
      <3>10. QED
        BY <3>7, <3>8, <3>9 DEF PageTrue
    <2>4. CASE SubmitName(a)
      <3>1. PICK q : q = Request(a, "save", tabs[a].typed)
        OBVIOUS
      <3>2. tabs' = [tabs EXCEPT ![a] = [tabs[a] EXCEPT !.saving = TRUE]]
        BY <2>4 DEF SubmitName, Send, Draws
      <3>3. /\ tabs'[a].timer = tabs[a].timer /\ tabs'[a].profile = tabs[a].profile
            /\ tabs'[a].saving
        BY <1>1, <3>2 DEF TabType
      <3>4. tabs[a].profile # NoProfile /\ ~tabs[a].saving
        BY <2>4 DEF SubmitName, IsDirty
      <3>5. Reads(a) = {} /\ Saves(a) = {}
        BY <2>1, <3>4 DEF PageTrue, ReadsTrue, ReadTrue, SavesTrue, SaveTrue, Reads, Saves
      <3>6. Mine(a)' = Mine(a) \cup {q}
        BY <1>3, <2>4, <3>1 DEF SubmitName, Send, Mine, Of
      <3>7. Saves(a)' = {q} /\ Reads(a)' = {}
        BY <1>3, <3>1, <3>5, <3>6 DEF Reads, Saves
      <3>8. MineTrue(a)' /\ TimerTrue(a)' /\ ReadsTrue(a)'
        BY <1>3, <2>1, <3>1, <3>3, <3>4, <3>6, <3>7 DEF PageTrue, MineTrue, TimerTrue, ReadsTrue
      <3>9. SavesTrue(a)'
        BY <1>2, <1>3, <2>1, <3>1, <3>3, <3>4, <3>7
        DEF PageTrue, ProfileTrue, AccountOf, SavesTrue, SaveTrue
      <3>10. ProfileTrue(a)'
        BY <1>2, <2>1, <3>3, <3>5 DEF PageTrue, ProfileTrue, AccountOf
      <3>11. QED
        BY <3>8, <3>9, <3>10 DEF PageTrue
    <2>5. CASE Discard(a) \/ \E n \in Names \cup {None} : TypeName(a, n)
      <3>1. PICK typed : tabs' = [tabs EXCEPT ![a] = [tabs[a] EXCEPT !.typed = typed]]
        BY <2>5 DEF Discard, TypeName, Draws
      <3>2. /\ tabs'[a].timer = tabs[a].timer /\ tabs'[a].profile = tabs[a].profile
            /\ tabs'[a].saving = tabs[a].saving
        BY <1>1, <3>1 DEF TabType
      <3>3. Mine(a)' = Mine(a) /\ Reads(a)' = Reads(a) /\ Saves(a)' = Saves(a)
        BY <2>5 DEF Discard, TypeName, Mine, Reads, Saves, Of
      <3>4. MineTrue(a)' /\ TimerTrue(a)' /\ ProfileTrue(a)'
        BY <1>2, <2>1, <3>2, <3>3 DEF PageTrue, MineTrue, TimerTrue, ProfileTrue, AccountOf
      <3>5. ReadsTrue(a)' /\ SavesTrue(a)'
        BY <1>2, <2>1, <3>2, <3>3 DEF PageTrue, ReadsTrue, ReadTrue, SavesTrue, SaveTrue, AccountOf, Reads, Saves
      <3>6. QED
        BY <3>4, <3>5 DEF PageTrue
    <2>6. QED
      BY <2>2, <2>3, <2>4, <2>5
  <1>7. QED
    BY <1>4, <1>5, <1>6

-----------------------------------------------------------------------------
(* Requests on the server and back.                                          *)

(* A request is served, and its tab's requests are those and this one.       *)
LEMMA ServedMine ==
  ASSUME SessionInv, NEW q \in requests, NEW at, NEW answer, Becomes(q, at, answer),
         q.mounted, q.heard
  PROVE  Mine(q.tab)' = (Mine(q.tab) \ {q}) \cup {[q EXCEPT !.at = at, !.answer = answer]}
  <1>1. PICK next : next = [q EXCEPT !.at = at, !.answer = answer]
    OBVIOUS
  <1>2. q \in RequestType
    BY DEF SessionInv, RequestsOK, Sound
  <1>3. next.tab = q.tab /\ next.mounted /\ next.heard
    BY <1>1, <1>2 DEF RequestType
  <1>4. requests' = (requests \ {q}) \cup {next}
    BY <1>1, <1>3 DEF Becomes
  <1>5. Mine(q.tab)' = (Mine(q.tab) \ {q}) \cup {next}
    BY <1>3, <1>4 DEF Mine, Of
  <1>6. QED
    BY <1>1, <1>5

(* Other tabs, and a tab whose component is gone, draw on without it.        *)
LEMMA ServedOthers ==
  ASSUME SessionInv, NEW q \in requests, NEW at, NEW answer, Becomes(q, at, answer),
         NEW t \in Tabs, t # q.tab \/ ~q.mounted
  PROVE  Mine(t)' = Mine(t)
  <1>1. PICK next : next = [q EXCEPT !.at = at, !.answer = answer]
    OBVIOUS
  <1>2. q \in RequestType
    BY DEF SessionInv, RequestsOK, Sound
  <1>3. next.tab = q.tab /\ next.mounted = q.mounted
    BY <1>1, <1>2 DEF RequestType
  <1>4. requests' = (requests \ {q}) \cup {x \in {next} : x.heard \/ at = "absent"}
    BY <1>1 DEF Becomes
  <1>5. QED
    BY <1>2, <1>3, <1>4 DEF Mine, Of, RequestType

(* The server reads the name that is drawn, and keeps the name that a save   *)
(* brings; whoever else draws a profile is excused (Serve).                  *)
LEMMA ServeTrue ==
  ASSUME NameInv, NEW q \in requests, Serve(q), NEW t \in Tabs
  PROVE  TabTrue(t)'
  <1>1. /\ TabTrue(t) /\ SessionInv /\ tabs \in [Tabs -> TabType]
        /\ excuses \in [Tabs -> SUBSET {"login", "name", "lost"}]
        /\ q \in RequestType /\ names \in [Users -> Names]
    BY DEF NameInv, SessionInv, ServerOK, BrowserOK, RequestsOK, Sound
  <1>2. PICK at, answer :
          /\ Becomes(q, at, answer)
          /\ at = "ok" /\ q.kind = "profile" =>
               q.token # None /\ answer = [user |-> q.token.user, name |-> names[q.token.user]]
          /\ at = "ok" /\ q.kind = "save" => SaveName(q)
          /\ SaveName(q) => at = "ok"
    <2>1. CASE Refuse(q)
      <3>1. Becomes(q, "401", None)
        BY <2>1 DEF Refuse
      <3>2. ~SaveName(q)
        BY <2>1 DEF Refuse, SaveName
      <3>3. QED
        BY <3>1, <3>2
    <2>2. CASE Read(q) /\ q.kind = "profile"
      <3>1. /\ Becomes(q, "ok", [user |-> q.token.user, name |-> names[q.token.user]])
            /\ q.token # None
        BY <2>2 DEF Read, Unauthorized, NeedLogin
      <3>2. QED
        BY <2>2, <3>1
    <2>3. CASE Read(q) /\ q.kind # "profile"
      <3>1. PICK answer : Becomes(q, "ok", answer) /\ q.kind # "save"
        BY <2>3 DEF Read
      <3>2. QED
        BY <2>3, <3>1
    <2>4. CASE SaveName(q)
      <3>1. Becomes(q, "ok", None) /\ q.kind = "save"
        BY <2>4 DEF SaveName
      <3>2. QED
        BY <2>4, <3>1
    <2>5. CASE FindEmail(q) \/ InsertUser(q)
      <3>1. q.kind = "register"
        BY <2>5 DEF FindEmail, InsertUser, NameInv, SessionInv, RequestsOK, Sound, Carries
      <3>2. PICK at : Becomes(q, at, None)
        BY <2>5 DEF FindEmail, InsertUser
      <3>3. ~SaveName(q)
        BY <3>1 DEF SaveName
      <3>4. QED
        BY <3>1, <3>2, <3>3
    <2>6. QED
      BY <2>1, <2>2, <2>3, <2>4, <2>5 DEF Serve
  <1>3. PICK next : next = [q EXCEPT !.at = at, !.answer = answer]
    OBVIOUS
  <1>4. /\ next.tab = q.tab /\ next.mounted = q.mounted /\ next.heard = q.heard
        /\ next.kind = q.kind /\ next.token = q.token /\ next.arg = q.arg
        /\ next.at = at /\ next.answer = answer
    BY <1>1, <1>3 DEF RequestType
  <1>5. tabs' = tabs /\ stored' = stored
    BY DEF Serve, Refuse, Read, SaveName, FindEmail, InsertUser
  <1>6. excuses[t] \subseteq excuses'[t]
    BY <1>1 DEF Serve, Refuse, Read, SaveName, FindEmail, InsertUser, Excused
  <1>7. Calm(t)' => Calm(t)
    BY <1>5, <1>6 DEF Calm
  <1>8. Calm(t)' => names' = names \/ (SaveName(q) /\ t = q.tab /\ q.mounted)
    <2>1. CASE SaveName(q)
      BY <1>5, <2>1 DEF SaveName, Excused, Calm
    <2>2. CASE ~SaveName(q)
      <3>1. Refuse(q) => names' = names
        BY DEF Refuse
      <3>2. Read(q) => names' = names
        BY DEF Read
      <3>3. FindEmail(q) \/ InsertUser(q) => names' = names
        BY DEF FindEmail, InsertUser
      <3>4. QED
        BY <2>2, <3>1, <3>2, <3>3 DEF Serve
    <2>3. QED
      BY <2>1, <2>2
  <1>9. CASE t # q.tab \/ ~q.mounted
    <2>1. Mine(t)' = Mine(t)
      BY <1>1, <1>2, <1>9, ServedOthers
    <2>2. QED
      BY <1>1, <1>5, <1>7, <1>8, <1>9, <2>1, Untouched
  <1>10. CASE t = q.tab /\ q.mounted
    <2> SUFFICES ASSUME Calm(t)' PROVE PageTrue(t)'
      BY DEF TabTrue
    <2>1. PageTrue(t) /\ q \in Mine(t)
      BY <1>1, <1>7, <1>10 DEF TabTrue, Mine, Of
    <2>2. q.heard /\ q.kind \in {"profile", "save"}
      BY <2>1 DEF PageTrue, MineTrue
    <2>3. Mine(t)' = (Mine(t) \ {q}) \cup {next}
      <3>1. Becomes(q, at, answer) /\ SessionInv
        BY <1>1, <1>2
      <3>2. t = q.tab /\ q.mounted /\ q.heard
        BY <1>10, <2>2
      <3>3. QED
        BY <1>3, <3>1, <3>2, ServedMine
    <2>4. \A x \in Mine(t) : x.tab = t
      BY DEF Mine, Of
    <2>5. MineTrue(t)'
      BY <1>4, <2>1, <2>2, <2>3 DEF PageTrue, MineTrue
    <2>6. CASE q.kind = "profile"
      <3>1. names' = names
        BY <1>8, <2>6 DEF SaveName
      <3>2. q \in Reads(t) /\ Reads(t)' = (Reads(t) \ {q}) \cup {next} /\ Saves(t)' = Saves(t)
        BY <1>4, <2>1, <2>3, <2>6 DEF Reads, Saves
      <3>3. ReadTrue(next)'
        BY <1>2, <1>4, <1>5, <2>1, <2>6, <3>1, <3>2 DEF PageTrue, ReadsTrue, ReadTrue, AccountOf
      <3>4. ReadsTrue(t)'
        BY <1>5, <2>1, <3>1, <3>2, <3>3 DEF PageTrue, ReadsTrue, ReadTrue, AccountOf
      <3>5. TimerTrue(t)' /\ ProfileTrue(t)'
        BY <1>5, <2>1, <3>1, <3>2 DEF PageTrue, TimerTrue, ProfileTrue, AccountOf
      <3>6. SavesTrue(t)'
        BY <1>5, <2>1, <3>1, <3>2 DEF PageTrue, SavesTrue, SaveTrue
      <3>7. QED
        BY <2>5, <3>4, <3>5, <3>6 DEF PageTrue
    <2>7. CASE q.kind = "save"
      <3>1. q \in Saves(t) /\ Saves(t) = {q} /\ Saves(t)' = {next} /\ Reads(t)' = Reads(t)
        BY <1>4, <2>1, <2>3, <2>7 DEF Reads, Saves, PageTrue, SavesTrue
      <3>2. tabs[t].profile # NoProfile /\ Reads(t) = {}
        BY <1>1, <1>10, <2>1, <2>7 DEF SessionInv, RequestsOK, Sound, Placed, PageTrue, ReadsTrue, ReadTrue, Reads, Mine, Of
      <3>3. SaveTrue(q)
        BY <2>1, <3>1 DEF PageTrue, SavesTrue
      <3>4. tabs[t].profile.user \in Users
        BY <1>1, <3>2 DEF TabType, Profiles
      <3>5. at = "ok" => q.arg = names'[tabs[t].profile.user]
        <4> SUFFICES ASSUME at = "ok" PROVE q.arg = names'[tabs[t].profile.user]
          OBVIOUS
        <4>1. q.token # None /\ names' = [names EXCEPT ![q.token.user] = q.arg]
          BY <1>2, <2>7 DEF SaveName, Unauthorized, NeedLogin
        <4>2. q.token.user = tabs[t].profile.user
          BY <1>10, <3>3, <4>1 DEF SaveTrue
        <4>3. QED
          BY <1>1, <3>4, <4>1, <4>2
      <3>6. SavesTrue(t)'
        BY <1>4, <1>5, <1>10, <3>1, <3>3, <3>5 DEF SavesTrue, SaveTrue
      <3>7. at = "ok" \/ names' = names
        BY <1>2, <1>8
      <3>8. ProfileTrue(t)'
        <4>1. Saves(t)' = {next} /\ next.at = at
          BY <1>4, <3>1
        <4>2. ~(\E x \in Saves(t) : x.at = "ok") \/ names' = names
          <5>1. CASE SaveName(q)
            BY <3>1, <5>1 DEF SaveName
          <5>2. QED
            BY <1>8, <5>1
        <4>3. QED
          <5>1. at = "ok" => ProfileTrue(t)'
            BY <1>5, <2>1, <4>1 DEF PageTrue, ProfileTrue, AccountOf
          <5>2. at # "ok" => names' = names /\ ~\E x \in Saves(t) : x.at = "ok"
            <6>1. at # "ok" => names' = names
              BY <3>7
            <6>2. at # "ok" => q.at # "ok"
              BY <1>2, <3>1 DEF Serve, Refuse, Read, SaveName, FindEmail, InsertUser
            <6>3. QED
              BY <3>1, <6>1, <6>2
          <5>3. QED
            BY <1>5, <2>1, <5>1, <5>2 DEF PageTrue, ProfileTrue, AccountOf
      <3>9. ReadsTrue(t)' /\ TimerTrue(t)'
        BY <1>5, <3>1, <3>2, <2>1 DEF ReadsTrue, PageTrue, TimerTrue
      <3>10. QED
        BY <2>5, <3>6, <3>8, <3>9 DEF PageTrue
    <2>8. QED
      BY <2>2, <2>6, <2>7
  <1>11. QED
    BY <1>9, <1>10

(* The page draws the profile it is told, or the name that was saved; a 401  *)
(* takes it away, and a login, or a save that is lost, excuses what it draws *)
(* (Answer).                                                                 *)
LEMMA AnswerTrue ==
  ASSUME NameInv, NEW q \in requests, Answer(q), NEW t \in Tabs
  PROVE  TabTrue(t)'
  <1>1. /\ TabTrue(t) /\ SessionInv /\ tabs \in [Tabs -> TabType]
        /\ excuses \in [Tabs -> SUBSET {"login", "name", "lost"}]
        /\ q \in RequestType /\ q.tab \in Tabs /\ q \in Of(q.tab)
    BY DEF NameInv, SessionInv, BrowserOK, RequestsOK, Sound, RequestType, Of
  <1>2. CASE Answer401(q)
    <2>1. /\ Mine(t)' = IF t = q.tab THEN {} ELSE Mine(t)
          /\ UNCHANGED <<names, excuses>> /\ stored' = None
      BY <1>1, <1>2, LeftMine DEF Answer401
    <2>2. tabs' = [tabs EXCEPT ![q.tab] = [tabs[q.tab] EXCEPT !.page = "leaving", !.timer = FALSE]]
      BY <1>2 DEF Answer401, Draws
    <2>3. CASE t = q.tab
      <3>1. tabs'[t].page = "leaving"
        BY <1>1, <2>2, <2>3 DEF TabType
      <3>2. QED
        BY <3>1 DEF TabTrue, Calm
    <2>4. CASE t # q.tab
      <3>1. tabs'[t] = tabs[t] /\ Mine(t)' = Mine(t)
        BY <1>1, <2>1, <2>2, <2>4
      <3>2. QED
        BY <1>1, <2>1, <3>1, Untouched DEF Calm
    <2>5. QED
      BY <2>3, <2>4
  <1>3. CASE LoginAnswer(q)
    <2>1. tabs'[t].page = "account" => tabs[t].page = "account"
      <3>1. PICK known : known = [tabs[q.tab] EXCEPT !.auth = TRUE,
                           !.timer = @ \/ (tabs[q.tab].page = "account" /\ ~tabs[q.tab].auth)]
        OBVIOUS
      <3>2. CASE tabs[q.tab].page = "login"
        <4>1. tabs' = [tabs EXCEPT ![q.tab] = Arrive("home", TRUE)]
          BY <1>1, <1>3, <3>2 DEF LoginAnswer, Draws, TabType
        <4>2. Arrive("home", TRUE).page = "home"
          BY DEF Arrive
        <4>3. QED
          BY <1>1, <4>1, <4>2
      <3>3. CASE tabs[q.tab].page # "login"
        <4>1. tabs' = [tabs EXCEPT ![q.tab] = known]
          BY <1>1, <1>3, <3>1, <3>3 DEF LoginAnswer, Draws, TabType
        <4>2. known.page = tabs[q.tab].page
          BY <1>1, <3>1 DEF TabType
        <4>3. QED
          BY <1>1, <4>1, <4>2
      <3>4. QED
        BY <3>2, <3>3
    <2>2. tabs[t].page = "account" => excuses'[t] # {}
      BY <1>3 DEF LoginAnswer, Excused
    <2>3. QED
      BY <2>1, <2>2 DEF TabTrue, Calm
  <1>4. CASE ~Answer401(q) /\ ~LoginAnswer(q)
    <2>1. UNCHANGED <<names, stored>>
      BY <1>4 DEF Answer, FetchAnswer, ProfileAnswer, SaveAnswer, RegisterAnswer, Lost, Ends
    <2>2. excuses[t] \subseteq excuses'[t]
      BY <1>1, <1>4 DEF Answer, FetchAnswer, ProfileAnswer, SaveAnswer, RegisterAnswer, Lost, Excused
    <2>3. PICK gone : gone = [q EXCEPT !.heard = FALSE, !.mounted = FALSE]
      OBVIOUS
    <2>4. ~gone.mounted
      BY <1>1, <2>3 DEF RequestType
    <2>5. requests' = requests \ {q} \/ requests' = (requests \ {q}) \cup {gone}
      <3>1. Lost(q) => requests' = requests \ {q} \/ requests' = (requests \ {q}) \cup {gone}
        BY <2>3 DEF Lost
      <3>2. QED
        BY <1>4, <3>1 DEF Answer, FetchAnswer, ProfileAnswer, SaveAnswer, RegisterAnswer, Ends
    <2>6. Mine(t)' = Mine(t) \ {q}
      BY <2>4, <2>5 DEF Mine, Of
    <2>7. CASE t # q.tab \/ ~q.mounted
      <3>1. tabs'[t] = tabs[t]
        <4>1. Lost(q) => tabs'[t] = tabs[t]
          BY <1>1, <2>7 DEF Lost
        <4>2. QED
          BY <1>1, <1>4, <2>7, <4>1 DEF Answer, FetchAnswer, ProfileAnswer, SaveAnswer, RegisterAnswer, Ends
      <3>2. Mine(t)' = Mine(t)
        BY <2>6, <2>7 DEF Mine, Of
      <3>3. QED
        BY <1>1, <2>1, <2>2, <3>1, <3>2, Untouched DEF Calm
    <2>8. CASE t = q.tab /\ q.mounted
      <3> SUFFICES ASSUME Calm(t)' PROVE PageTrue(t)'
        BY DEF TabTrue
      <3>1. Calm(t)
        <4>1. excuses[t] = {}
          BY <2>2 DEF Calm
        <4>2. tabs'[t].page = tabs[t].page
          <5>1. \A tab : Ends(q, tab) => tabs'[t] = tab
            BY <1>1, <2>8 DEF Ends
          <5>2. FetchAnswer(q) => tabs'[t].page = tabs[t].page
            BY <2>8, <5>1 DEF FetchAnswer
          <5>3. ProfileAnswer(q) => tabs'[t].page = tabs[t].page
            BY <1>1, <2>8, <5>1 DEF ProfileAnswer, TabType
          <5>4. SaveAnswer(q) => tabs'[t].page = tabs[t].page
            BY <1>1, <2>8, <5>1 DEF SaveAnswer, TabType
          <5>5. RegisterAnswer(q) => tabs'[t].page = tabs[t].page
            <6>1. PICK done \in BOOLEAN : done = (q.at = "ok")
              OBVIOUS
            <6>2. RegisterAnswer(q) => tabs'[t] = [tabs[t] EXCEPT !.busy = FALSE, !.done = done]
              BY <2>8, <5>1, <6>1 DEF RegisterAnswer
            <6>3. tabs[t] \in TabType
              BY <1>1
            <6>4. QED
              BY <6>2, <6>3 DEF TabType
          <5>6. Lost(q) => tabs'[t].page = tabs[t].page
            BY <1>1, <2>8 DEF Lost, TabType
          <5>7. QED
            BY <1>4, <5>2, <5>3, <5>4, <5>5, <5>6 DEF Answer
        <4>3. QED
          BY <4>1, <4>2 DEF Calm
      <3>2. PageTrue(t) /\ q \in Mine(t) /\ q.kind \in {"profile", "save"}
        BY <1>1, <2>8, <3>1 DEF TabTrue, PageTrue, MineTrue, Mine, Of
      <3>3. MineTrue(t)'
        BY <2>6, <3>2 DEF PageTrue, MineTrue
      <3>4. CASE q.kind = "profile"
        <4>1. q \in Reads(t) /\ ReadTrue(q) /\ ~tabs[t].timer /\ tabs[t].profile = NoProfile
          BY <2>8, <3>2, <3>4 DEF PageTrue, ReadsTrue, ReadTrue, TimerTrue, Reads
        <4>2. Saves(t) = {}
          BY <1>1, <4>1 DEF SessionInv, RequestsOK, Sound, Placed, Saves, Mine, Of
        <4>3. Reads(t)' = {} /\ Saves(t)' = {}
          BY <2>6, <3>2, <4>1, <4>2 DEF PageTrue, ReadsTrue, Reads, Saves
        <4>4. CASE ProfileAnswer(q)
          <5>1. /\ q.token # None => AccountOf(q.token.user)
                /\ q.token # None /\ q.answer = [user |-> q.token.user, name |-> names[q.token.user]]
            BY <4>1, <4>4 DEF ReadTrue, ProfileAnswer
          <5>2. tabs'[t].timer = tabs[t].timer /\ tabs'[t].profile = q.answer
            BY <1>1, <2>8, <4>4 DEF ProfileAnswer, Ends, TabType
          <5>3. ProfileTrue(t)'
            BY <2>1, <5>1, <5>2 DEF ProfileTrue, AccountOf
          <5>4. QED
            BY <3>3, <4>1, <4>3, <5>2, <5>3 DEF PageTrue, TimerTrue, ReadsTrue, SavesTrue
        <4>5. CASE Lost(q)
          <5>1. tabs'[t].timer = tabs[t].timer /\ tabs'[t].profile = tabs[t].profile
            BY <1>1, <2>8, <4>5 DEF Lost, TabType
          <5>2. QED
            BY <3>3, <4>1, <4>3, <5>1 DEF PageTrue, TimerTrue, ReadsTrue, SavesTrue, ProfileTrue
        <4>6. QED
          BY <1>4, <3>4, <4>4, <4>5 DEF Answer, FetchAnswer, SaveAnswer, RegisterAnswer
      <3>5. CASE q.kind = "save"
        <4>1. q \in Saves(t) /\ SaveTrue(q) /\ Saves(t)' = {} /\ Reads(t)' \subseteq Reads(t)
          BY <2>6, <3>2, <3>5 DEF PageTrue, SavesTrue, Saves, Reads
        <4>2. tabs[t].profile # NoProfile /\ tabs[t].profile \in Profiles
          BY <1>1, <2>8, <3>5 DEF SessionInv, RequestsOK, Sound, Placed, TabType
        <4>3. Reads(t)' = {} /\ ~tabs[t].timer
          BY <3>2, <4>1, <4>2 DEF PageTrue, ReadsTrue, ReadTrue, TimerTrue, Reads, Mine, Of
        <4>4. CASE SaveAnswer(q)
          <5>1. q.arg = names[tabs[t].profile.user]
            BY <2>8, <4>1, <4>4 DEF SaveTrue, SaveAnswer
          <5>2. /\ tabs'[t].timer = tabs[t].timer /\ tabs'[t].profile.user = tabs[t].profile.user
                /\ tabs'[t].profile.name = q.arg
            BY <1>1, <2>8, <4>2, <4>4 DEF SaveAnswer, Ends, TabType, Profiles
          <5>3. ProfileTrue(t)'
            BY <2>1, <3>2, <4>2, <5>1, <5>2 DEF PageTrue, ProfileTrue, AccountOf
          <5>4. QED
            BY <3>3, <4>1, <4>3, <5>2, <5>3 DEF PageTrue, TimerTrue, ReadsTrue, SavesTrue
        <4>5. ~Lost(q)
          BY <2>8, <3>1, <3>5 DEF Lost, Excused, Calm
        <4>6. QED
          BY <1>4, <3>5, <4>4, <4>5 DEF Answer, FetchAnswer, ProfileAnswer, RegisterAnswer
      <3>6. QED
        BY <3>2, <3>4, <3>5
    <2>9. QED
      BY <2>7, <2>8
  <1>5. QED
    BY <1>2, <1>3, <1>4

(* Every step keeps the name that is drawn true.                             *)
LEMMA NameStep ==
  ASSUME NameInv, [Next]_vars
  PROVE  NameInv'
  <1>1. SessionInv'
    BY StepKeeps DEF NameInv
  <1>2. ASSUME NEW t \in Tabs PROVE TabTrue(t)'
    <2>1. CASE UNCHANGED vars \/ Expire
      <3>1. UNCHANGED <<tabs, requests, stored, names, excuses>>
        BY <2>1 DEF vars, Expire
      <3>2. QED
        BY <3>1, Untouched DEF NameInv, Calm, Mine, Of
    <2>2. CASE User
      BY <2>2, LeaveTrue, InPageTrue DEF User
    <2>3. ASSUME NEW a \in Tabs, Runs(a) PROVE TabTrue(t)'
      <3>1. ASSUME NEW q \in Of(a), Serve(q) \/ Answer(q) PROVE TabTrue(t)'
        <4>1. q \in requests
          BY DEF Of
        <4>2. QED
          BY <3>1, <4>1, ServeTrue, AnswerTrue
      <3>2. QED
        BY <2>3, <3>1, LeaveTrue, InPageTrue DEF Runs
    <2>4. QED
      BY <2>1, <2>2, <2>3 DEF Next
  <1>3. QED
    BY <1>1, <1>2 DEF NameInv

(* A profile at rest has the name its user has on the server, but for what   *)
(* excuses names (AccountPage.tsx, auth.ts), for any tabs, users and names.  *)
THEOREM DrawnNameIsTrue == Spec => []NameIsTrue
  <1>1. Init => NameInv
    <2> SUFFICES ASSUME Init, NEW t \in Tabs PROVE TabTrue(t)
      BY InitHolds DEF NameInv
    <2>1. PICK knowing \in SUBSET Tabs : tabs = [x \in Tabs |-> Arrive("login", x \in knowing)]
      BY DEF Init
    <2>2. tabs[t].page # "account"
      BY <2>1 DEF Arrive
    <2>3. QED
      BY <2>2 DEF TabTrue, Calm
  <1>2. NameInv => NameIsTrue
    <2> SUFFICES ASSUME NameInv, NEW t \in Tabs, InProfile(t), Of(t) = {}, excuses[t] = {}
                 PROVE  tabs[t].profile.name = names[tabs[t].profile.user]
      BY DEF NameIsTrue
    <2>1. ProfileTrue(t) /\ Saves(t) = {}
      BY DEF NameInv, TabTrue, Calm, PageTrue, InProfile, Saves, Mine
    <2>2. tabs[t].profile # NoProfile
      BY DEF InProfile, AccountDraws
    <2>3. QED
      BY <2>1, <2>2 DEF ProfileTrue
  <1>3. NameInv /\ [Next]_vars => NameInv'
    BY NameStep
  <1>4. QED
    BY <1>1, <1>2, <1>3, PTL DEF Spec
===============================================================================
