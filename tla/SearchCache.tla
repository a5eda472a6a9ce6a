----------------------------- MODULE SearchCache ------------------------------
(*****************************************************************************)
(* The search index and its cache: writers commit races and hand documents   *)
(* to MeiliSearch, whose tasks are applied later and in order, and then drop *)
(* the cached pages; searches read through the cache.  CachedSearchIndex     *)
(* decorates MeiliSearchAdapter.                                             *)
(*                                                                           *)
(* A race is its version: 0 before it exists.  Cached pages are independent  *)
(* of each other, so one query stands for all, and its page for the versions *)
(* MeiliSearch found.  Time passes in ticks, TTL of them per cached page.    *)
(*****************************************************************************)
EXTENDS Naturals, Sequences, FiniteSets

CONSTANTS
  Races,
  Writers,       \* import jobs, message handlers, app:search:index
  Searches,      \* PHP-FPM processes serving /api/search
  TTL,           \* SEARCH_CACHE_TTL
  MaxVersion,    \* bound: commits of one race
  MaxReindexings, \* bound: writers that load races to index them
  MaxFailures    \* bound: failed invalidations and deaths of writers

ASSUME TimeAssumption == TTL \in Nat \ {0}
ASSUME BoundsAssumption == {MaxVersion, MaxReindexings, MaxFailures} \subseteq Nat

VARIABLES
  rows,               \* the versions in the database
  step, loaded,       \* writers: what is next, and the races they hold
  tasks, docs,        \* MeiliSearch: tasks to apply, documents
  cached,             \* the cached pages: at most one
  filling,            \* searches computing a page after a miss: at most one page each
  reindexings, failures, \* counted against their bounds
  behind              \* history: races whose latest version may be missing in the
                      \* index: their writer died, or another one was under way

vars == <<rows, step, loaded, tasks, docs, cached, filling, reindexings, failures, behind>>

Nothing == [r \in Races |-> 0]
Idle(w) == step[w] = "idle"
(* w will index r in the version it loaded, or delete it with all others.    *)
Holds(w, r) == step[w] = "clear" \/ loaded[w][r] # 0
HeldByOther(w, r) == \E v \in Writers \ {w} : Holds(v, r)
Go(w, next) == step' = [step EXCEPT ![w] = next]

-----------------------------------------------------------------------------
(* A writer commits a race; the entity it indexes is what it committed.      *)
Commit(w, r) ==
  /\ Idle(w) /\ rows[r] < MaxVersion
  /\ rows' = [rows EXCEPT ![r] = @ + 1]
  /\ loaded' = [loaded EXCEPT ![w] = [Nothing EXCEPT ![r] = rows[r] + 1]]
  /\ behind' = IF HeldByOther(w, r) THEN behind \cup {r} ELSE behind
  /\ Go(w, "add")
  /\ UNCHANGED <<tasks, docs, cached, filling, reindexings, failures>>

(* The handler of RacesGeocoded loads a race to index it again.              *)
FindByIds(w, r) ==
  /\ Idle(w) /\ reindexings < MaxReindexings /\ rows[r] # 0
  /\ reindexings' = reindexings + 1
  /\ loaded' = [loaded EXCEPT ![w] = [Nothing EXCEPT ![r] = rows[r]]]
  /\ Go(w, "add")
  /\ UNCHANGED <<rows, tasks, docs, cached, filling, failures, behind>>

(* app:search:index loads all races ...                                      *)
FindAll(w) ==
  /\ Idle(w) /\ reindexings < MaxReindexings
  /\ reindexings' = reindexings + 1
  /\ loaded' = [loaded EXCEPT ![w] = rows]
  /\ Go(w, "clear")
  /\ UNCHANGED <<rows, tasks, docs, cached, filling, failures, behind>>

Task(kind, w) == [kind |-> kind, docs |-> loaded[w]]

(* ... and has all documents deleted before it adds them again.              *)
DeleteAllDocuments(w) ==
  /\ step[w] = "clear"
  /\ tasks' = Append(tasks, Task("clear", w))
  /\ Go(w, "refill")
  /\ UNCHANGED <<rows, loaded, docs, cached, filling, reindexings, failures, behind>>

(* Mutant: the documents are handed over before the deletion.                *)
AddBeforeDelete(w) ==
  /\ step[w] \in {"add", "refill"}
  /\ tasks' = IF step[w] = "add" THEN Append(tasks, Task("add", w))
              ELSE Append(SubSeq(tasks, 1, Len(tasks) - 1), Task("add", w)) \o <<Task("clear", w)>>
  /\ behind' = {r \in behind : loaded[w][r] < rows[r] \/ HeldByOther(w, r)}
  /\ loaded' = [loaded EXCEPT ![w] = Nothing]
  /\ Go(w, "invalidate")
  /\ UNCHANGED <<rows, docs, cached, filling, reindexings, failures>>

(* addDocuments returns when its task is enqueued.                           *)
AddDocuments(w) ==
  /\ step[w] \in {"add", "refill"}
  /\ tasks' = Append(tasks, Task("add", w))
  /\ behind' = {r \in behind : loaded[w][r] < rows[r] \/ HeldByOther(w, r)}
  /\ loaded' = [loaded EXCEPT ![w] = Nothing]
  /\ Go(w, "invalidate")
  /\ UNCHANGED <<rows, docs, cached, filling, reindexings, failures>>

Missed(pages) == {[page EXCEPT !.missed = TRUE] : page \in pages}

(* Mutant: indexRaces returns without invalidating.                          *)
NoInvalidation(w) ==
  /\ step[w] = "invalidate"
  /\ Go(w, "idle")
  /\ UNCHANGED <<rows, loaded, tasks, docs, cached, filling, reindexings, failures, behind>>

(* The tag is dropped and every stored page with it.  A page being computed  *)
(* is not stored yet: it misses the invalidation.                            *)
InvalidateTag(w) ==
  /\ step[w] = "invalidate"
  /\ cached' = {}
  /\ filling' = [s \in Searches |-> Missed(filling[s])]
  /\ Go(w, "idle")
  /\ UNCHANGED <<rows, loaded, tasks, docs, reindexings, failures, behind>>

(* Redis is down, which is only logged; or the writer dies where it is.      *)
WriterFails(w) ==
  /\ ~Idle(w)
  /\ failures < MaxFailures
  /\ failures' = failures + 1
  /\ behind' = behind \cup {r \in Races : step[w] # "clear" /\ loaded[w][r] # 0}
  /\ IF step[w] \in {"refill", "invalidate"}
     THEN /\ cached' = Missed(cached)
          /\ filling' = [s \in Searches |-> Missed(filling[s])]
     ELSE UNCHANGED <<cached, filling>>
  /\ loaded' = [loaded EXCEPT ![w] = Nothing]
  /\ Go(w, "idle")
  /\ UNCHANGED <<rows, tasks, docs, reindexings>>

-----------------------------------------------------------------------------
(* MeiliSearch applies a task: documents are added or replaced, or all go.   *)
Applied(documents, task) ==
  IF task.kind = "clear" THEN Nothing
  ELSE [r \in Races |-> IF task.docs[r] # 0 THEN task.docs[r] ELSE documents[r]]

Apply ==
  /\ tasks # <<>>
  /\ docs' = Applied(docs, Head(tasks))
  /\ tasks' = Tail(tasks)
  /\ UNCHANGED <<rows, step, loaded, cached, filling, reindexings, failures, behind>>

(* Mutant: the page is stored without expiresAfter.                          *)
MissUnexpiring(s) ==
  /\ filling[s] = {}
  /\ filling' = [filling EXCEPT ![s] =
       {[docs |-> docs, age |-> 0, expires |-> TTL + 1, lagging |-> tasks # <<>>, missed |-> FALSE]}]
  /\ UNCHANGED <<rows, step, loaded, tasks, docs, cached, reindexings, failures, behind>>

(* A search that finds no page, or recomputes one early as Symfony's cache   *)
(* does at random, asks MeiliSearch.  (One that finds a page, or finds Redis *)
(* down, answers and changes nothing.)                                       *)
Miss(s) ==
  /\ filling[s] = {}
  /\ filling' = [filling EXCEPT ![s] =
       {[docs |-> docs, age |-> 0, expires |-> TTL, lagging |-> tasks # <<>>, missed |-> FALSE]}]
  /\ UNCHANGED <<rows, step, loaded, tasks, docs, cached, reindexings, failures, behind>>

(* It stores its page over what another stored; when the page's time is over *)
(* Symfony deletes what is stored instead.                                   *)
Store(s) ==
  /\ filling[s] # {}
  /\ \E page \in filling[s] : cached' = IF page.age < page.expires THEN {page} ELSE {}
  /\ filling' = [filling EXCEPT ![s] = {}]
  /\ UNCHANGED <<rows, step, loaded, tasks, docs, reindexings, failures, behind>>

Aged(pages) == {[page EXCEPT !.age = IF @ < TTL THEN @ + 1 ELSE @] : page \in pages}

Tick ==
  /\ \E page \in cached \cup UNION {filling[s] : s \in Searches} : page.age < TTL
  /\ cached' = {page \in Aged(cached) : page.age < page.expires}
  /\ filling' = [s \in Searches |-> Aged(filling[s])]
  /\ UNCHANGED <<rows, step, loaded, tasks, docs, reindexings, failures, behind>>

-----------------------------------------------------------------------------
Init ==
  /\ rows = Nothing /\ docs = Nothing /\ tasks = <<>>
  /\ step = [w \in Writers |-> "idle"] /\ loaded = [w \in Writers |-> Nothing]
  /\ cached = {} /\ filling = [s \in Searches |-> {}]
  /\ reindexings = 0 /\ failures = 0 /\ behind = {}

Write(w) == DeleteAllDocuments(w) \/ AddDocuments(w) \/ InvalidateTag(w)

Next ==
  \/ \E w \in Writers : \/ FindAll(w) \/ Write(w) \/ WriterFails(w)
                        \/ \E r \in Races : Commit(w, r) \/ FindByIds(w, r)
  \/ \E s \in Searches : Miss(s) \/ Store(s)
  \/ Apply \/ Tick

Spec == Init /\ [][Next]_vars

(* Writers and searches that started go on, MeiliSearch works, time passes.  *)
FairSpec ==
  /\ Spec
  /\ \A w \in Writers : WF_vars(Write(w))
  /\ \A s \in Searches : WF_vars(Store(s))
  /\ WF_vars(Apply) /\ WF_vars(Tick)

-----------------------------------------------------------------------------
(* Types; no stored page has outlived its TTL.                               *)
TypeOK ==
  /\ {rows, docs} \cup {loaded[w] : w \in Writers} \subseteq [Races -> 0..MaxVersion]
  /\ step \in [Writers -> {"idle", "clear", "refill", "add", "invalidate"}]
  /\ \A i \in DOMAIN tasks : tasks[i].kind \in {"clear", "add"}
  /\ Cardinality(cached) <= 1 /\ \A s \in Searches : Cardinality(filling[s]) <= 1
  /\ \A page \in cached : page.age < TTL

(* The documents once MeiliSearch has applied the tasks of queue: for every  *)
(* race the last task that touches it decides.                               *)
Touching(queue, r) == {i \in DOMAIN queue : queue[i].kind = "clear" \/ queue[i].docs[r] # 0}
Latest(positions) == CHOOSE i \in positions : \A j \in positions : j <= i
Outcome(documents, queue) ==
  [r \in Races |-> IF Touching(queue, r) = {} THEN documents[r]
                   ELSE Applied(documents, queue[Latest(Touching(queue, r))])[r]]
Settled == Outcome(docs, tasks)

(* The index has, once settled, every race in its latest version: but for    *)
(* those a writer is about to index, those whose documents died with their   *)
(* writer, and those committed while another writer was about to index an    *)
(* older version or to clear the index.                                      *)
IndexFollows ==
  \A r \in Races :
    Settled[r] = rows[r] \/ r \in behind \/ \E w \in Writers : Holds(w, r)

(* A cached page that differs from the index is explained: its write has yet *)
(* to drop it, or it was computed before MeiliSearch had caught up, or an    *)
(* invalidation missed it, because it was not yet stored or because of a     *)
(* failure.                                                                  *)
StalePagesAreExplained ==
  \A page \in cached :
    \/ page.docs = docs
    \/ \E w \in Writers : step[w] \in {"refill", "invalidate"}
    \/ page.lagging \/ page.missed

(* Stale pages do not stay: when writing has ended, the pages are in the end *)
(* those of the index.                                                       *)
PagesConverge == <>[](\A page \in cached : page.docs = docs)
=============================================================================
