-------------------------- MODULE SearchCacheProofs ---------------------------
(*****************************************************************************)
(* Types of SearchCache, and what its cached pages and its index can be      *)
(* behind of, for any writers, searches, races, lifetimes and failures.      *)
(*****************************************************************************)
EXTENDS SearchCache, FiniteSetTheorems, SequenceTheorems, TLAPS

Documents == [Races -> 0..MaxVersion]
Tasks == [kind : {"clear", "add"}, docs : Documents]
Page ==
  [docs : Documents, age : 0..TTL, expires : {TTL}, lagging : BOOLEAN, missed : BOOLEAN]
Steps == {"idle", "clear", "refill", "add", "invalidate"}

Pages == cached \cup UNION {filling[s] : s \in Searches}

-----------------------------------------------------------------------------
(* The invariant                                                             *)

(* What writers and MeiliSearch hold.                                        *)
WritersTyped ==
  /\ rows \in Documents /\ docs \in Documents /\ tasks \in Seq(Tasks)
  /\ step \in [Writers -> Steps] /\ loaded \in [Writers -> Documents]
(* What searches hold, at most a page each.                                  *)
PagesTyped ==
  /\ cached \subseteq Page /\ \A p, q \in cached : p = q
  /\ filling \in [Searches -> SUBSET Page]
  /\ \A s \in Searches : \A p, q \in filling[s] : p = q
  /\ \A page \in cached : page.age < TTL
(* An older version in the hands of a writer is accounted for in advance.    *)
HoldersOK ==
  /\ \A w \in Writers : step[w] \in {"idle", "invalidate"} => loaded[w] = Nothing
  /\ \A w \in Writers, r \in Races : Holds(w, r) /\ loaded[w][r] # rows[r] => r \in behind
  /\ \A w \in Writers, r \in Races : loaded[w][r] <= rows[r]
  /\ \A r \in behind \cap Races : rows[r] # 0

(* The last task of queue that touches r leaves it in version v.             *)
Left(task, r) == IF task.kind = "clear" THEN 0 ELSE task.docs[r]
Settles(documents, queue, r, v) ==
  \/ Touching(queue, r) = {} /\ v = documents[r]
  \/ \E i \in Touching(queue, r) :
       (\A j \in Touching(queue, r) : j <= i) /\ v = Left(queue[i], r)
WillAdd(r) == \E w \in Writers : step[w] # "clear" /\ loaded[w][r] # 0
(* As IndexFollows; but a writer that has yet to clear the index promises    *)
(* nothing: it may die before it does.                                       *)
IndexOK == \A r \in Races : Settles(docs, tasks, r, rows[r]) \/ r \in behind \/ WillAdd(r)
(* As StalePagesAreExplained; but pages still being computed count too, and  *)
(* a page that is up to date has no task before it that would change that.   *)
PagesOK ==
  \A page \in Pages :
    \/ page.docs = docs /\ tasks = <<>>
    \/ \E w \in Writers : step[w] \in {"refill", "invalidate"}
    \/ page.lagging \/ page.missed

CacheInv == WritersTyped /\ PagesTyped /\ HoldersOK /\ IndexOK /\ PagesOK

(* The bounds, as numbers.                                                   *)
LEMMA Numbers == MaxVersion \in Nat /\ TTL \in Nat /\ TTL # 0
  BY BoundsAssumption, TimeAssumption

LEMMA NothingIsTyped == Nothing \in Documents /\ \A r \in Races : Nothing[r] = 0
  BY Numbers DEF Nothing, Documents

-----------------------------------------------------------------------------
(* Tasks                                                                     *)

(* A task that touches a race decides its version once it is the last one.   *)
LEMMA LastTaskDecides ==
  ASSUME NEW queue \in Seq(Tasks), NEW t \in Tasks, NEW r \in Races, NEW documents,
         t.kind = "clear" \/ t.docs[r] # 0
  PROVE  Settles(documents, Append(queue, t), r, Left(t, r))
  <1> DEFINE n == Len(queue) + 1
             longer == Append(queue, t)
  <1>1. Len(queue) \in Nat /\ DOMAIN longer = 1..n /\ longer[n] = t /\ n \in DOMAIN longer
    OBVIOUS
  <1> HIDE DEF longer
  <1>2. n \in Touching(longer, r)
    BY <1>1 DEF Touching
  <1>3. \A j \in Touching(longer, r) : j <= n
    BY <1>1 DEF Touching
  <1>4. Settles(documents, longer, r, Left(t, r))
    BY <1>1, <1>2, <1>3 DEF Settles
  <1>5. QED
    BY <1>4 DEF longer

(* Any other task leaves it as it is.                                        *)
LEMMA OtherTasksKeep ==
  ASSUME NEW queue \in Seq(Tasks), NEW t \in Tasks, NEW r \in Races, NEW documents, NEW v,
         t.kind # "clear" /\ t.docs[r] = 0, Settles(documents, queue, r, v)
  PROVE  Settles(documents, Append(queue, t), r, v)
  <1> DEFINE longer == Append(queue, t)
  <1>1. /\ Len(queue) \in Nat /\ DOMAIN queue = 1..Len(queue)
        /\ DOMAIN longer = 1..(Len(queue) + 1) /\ longer[Len(queue) + 1] = t
        /\ \A i \in DOMAIN queue : longer[i] = queue[i]
    OBVIOUS
  <1> HIDE DEF longer
  <1>2. Touching(longer, r) = Touching(queue, r)
    BY <1>1 DEF Touching
  <1>3. \A i \in Touching(queue, r) : longer[i] = queue[i]
    BY <1>1 DEF Touching
  <1>4. Settles(documents, longer, r, v)
    BY <1>2, <1>3 DEF Settles
  <1>5. QED
    BY <1>4 DEF longer

(* MeiliSearch at work does not change what its tasks amount to.             *)
LEMMA ApplyingKeeps ==
  ASSUME NEW queue \in Seq(Tasks), NEW documents \in Documents, queue # <<>>,
         NEW r \in Races, NEW v, Settles(documents, queue, r, v)
  PROVE  Settles(Applied(documents, Head(queue)), Tail(queue), r, v)
  <1> DEFINE rest == Tail(queue)
             after == Applied(documents, Head(queue))
  <1>1. /\ Len(queue) \in Nat /\ Len(queue) # 0 /\ DOMAIN queue = 1..Len(queue)
        /\ rest \in Seq(Tasks) /\ DOMAIN rest = 1..(Len(queue) - 1)
        /\ \A i \in DOMAIN rest : rest[i] = queue[i + 1]
        /\ Head(queue) = queue[1] /\ 1 \in DOMAIN queue
    OBVIOUS
  <1>2. after[r] = IF 1 \in Touching(queue, r) THEN Left(queue[1], r) ELSE documents[r]
    BY <1>1, NothingIsTyped DEF Applied, Touching, Left, Tasks
  <1> HIDE DEF rest, after
  <1>3. \A i \in Nat : i \in Touching(rest, r) <=> i # 0 /\ i + 1 \in Touching(queue, r)
    BY <1>1 DEF Touching
  <1>4. Touching(queue, r) \subseteq Nat \ {0} /\ Touching(rest, r) \subseteq Nat \ {0}
    BY <1>1 DEF Touching
  <1>5. CASE Touching(queue, r) = {} /\ v = documents[r]
    <2>1. Touching(rest, r) = {}
      BY <1>3, <1>4, <1>5
    <2>2. QED
      BY <1>2, <1>5, <2>1 DEF Settles, rest, after
  <1>6. ASSUME NEW i \in Touching(queue, r), \A j \in Touching(queue, r) : j <= i,
               v = Left(queue[i], r)
        PROVE  Settles(after, rest, r, v)
    <2>1. CASE i = 1
      <3>1. Touching(rest, r) = {}
        BY <1>3, <1>4, <1>6, <2>1
      <3>2. QED
        BY <1>2, <1>6, <2>1, <3>1 DEF Settles
    <2>2. CASE i # 1
      <3>1. i - 1 \in Nat \ {0} /\ i = (i - 1) + 1
        BY <1>4, <2>2
      <3>2. i - 1 \in Touching(rest, r)
        BY <1>3, <1>6, <3>1
      <3>3. rest[i - 1] = queue[i]
        BY <1>1, <3>1, <3>2 DEF Touching
      <3>4. \A j \in Touching(rest, r) : j <= i - 1
        BY <1>3, <1>4, <1>6, <3>1
      <3>5. QED
        BY <1>6, <3>2, <3>3, <3>4 DEF Settles
    <2>3. QED
      BY <2>1, <2>2
  <1>7. QED
    BY <1>5, <1>6 DEF Settles, rest, after

(* What the tasks amount to is Settled.                                      *)
LEMMA SettlesIsSettled ==
  ASSUME WritersTyped, NEW r \in Races, NEW v, Settles(docs, tasks, r, v)
  PROVE  Settled[r] = v
  <1> DEFINE T == Touching(tasks, r)
  <1>1. T \subseteq Nat
    BY DEF Touching, WritersTyped
  <1>2. CASE T = {}
    BY <1>2 DEF Settles, Settled, Outcome
  <1>3. ASSUME NEW i \in T, \A j \in T : j <= i, v = Left(tasks[i], r) PROVE Settled[r] = v
    <2>1. \A k \in T : (\A j \in T : j <= k) => k = i
      BY <1>1, <1>3
    <2>2. Latest(T) = i
      BY <1>3, <2>1 DEF Latest
    <2>3. i \in DOMAIN tasks /\ (tasks[i].kind = "clear" \/ tasks[i].docs[r] # 0)
      BY <1>3 DEF Touching
    <2>4. Settled[r] = Applied(docs, tasks[i])[r]
      BY <1>3, <2>2 DEF Settled, Outcome
    <2>5. QED
      BY <1>3, <2>3, <2>4, NothingIsTyped DEF Applied, Left
  <1>4. QED
    BY <1>2, <1>3 DEF Settles

-----------------------------------------------------------------------------
(* Writers                                                                   *)

(* A writer hands a task over: what it touches is settled by it.             *)
LEMMA HandOverKeeps ==
  ASSUME CacheInv, NEW w \in Writers, NEW kind \in {"clear", "add"}
  PROVE  /\ Append(tasks, Task(kind, w)) \in Seq(Tasks)
         /\ \A r \in Races :
              IF kind = "clear" \/ loaded[w][r] # 0
              THEN Settles(docs, Append(tasks, Task(kind, w)), r,
                           IF kind = "clear" THEN 0 ELSE loaded[w][r])
              ELSE \A v : Settles(docs, tasks, r, v)
                            => Settles(docs, Append(tasks, Task(kind, w)), r, v)
  <1> DEFINE t == Task(kind, w)
  <1>1. t \in Tasks /\ t.kind = kind /\ t.docs = loaded[w]
    BY DEF CacheInv, WritersTyped, Task, Tasks
  <1>2. tasks \in Seq(Tasks)
    BY DEF CacheInv, WritersTyped
  <1> HIDE DEF t
  <1>3. ASSUME NEW r \in Races, kind = "clear" \/ loaded[w][r] # 0
        PROVE  Settles(docs, Append(tasks, t), r, IF kind = "clear" THEN 0 ELSE loaded[w][r])
    <2>1. Settles(docs, Append(tasks, t), r, Left(t, r))
      BY <1>1, <1>2, <1>3, LastTaskDecides
    <2>2. QED
      BY <1>1, <2>1 DEF Left
  <1>4. ASSUME NEW r \in Races, ~(kind = "clear" \/ loaded[w][r] # 0), NEW v,
               Settles(docs, tasks, r, v)
        PROVE  Settles(docs, Append(tasks, t), r, v)
    BY <1>1, <1>2, <1>4, OtherTasksKeep
  <1>5. Append(tasks, t) \in Seq(Tasks)
    BY <1>1, <1>2
  <1>6. QED
    BY <1>3, <1>4, <1>5 DEF t

(* A writer takes a race or all of them into its hands.                      *)
LEMMA LoadKeeps ==
  ASSUME CacheInv, NEW w \in Writers,
         FindAll(w) \/ \E r \in Races : Commit(w, r) \/ FindByIds(w, r)
  PROVE  CacheInv'
  <1> DEFINE Loaded ==
        /\ rows' \in Documents
        /\ \E new \in Documents : loaded' = [loaded EXCEPT ![w] = new]
        /\ \A r \in Races : rows[r] <= rows'[r]
  <1>1. /\ step[w] = "idle" /\ loaded[w] = Nothing
        /\ UNCHANGED <<tasks, docs, cached, filling>>
        /\ behind \subseteq behind'
        /\ \E next \in {"clear", "add"} : step' = [step EXCEPT ![w] = next]
    BY DEF CacheInv, HoldersOK, FindAll, Commit, FindByIds, Go, Idle
  <1>2. Loaded
    <2>1. CASE FindAll(w)
      <3>1. rows \in Documents /\ \A r \in Races : rows[r] <= rows[r]
        BY DEF CacheInv, WritersTyped, Documents
      <3>2. QED
        BY <2>1, <3>1 DEF FindAll
    <2>2. ASSUME NEW r \in Races, Commit(w, r) PROVE Loaded
      <3>1. rows[r] + 1 \in 0..MaxVersion /\ rows[r] \in 0..MaxVersion
        BY <2>2, Numbers DEF CacheInv, WritersTyped, Documents, Commit
      <3>2. [Nothing EXCEPT ![r] = rows[r] + 1] \in Documents
        BY <3>1, NothingIsTyped DEF Documents
      <3>3. rows' \in Documents
        BY <2>2, <3>1 DEF CacheInv, WritersTyped, Documents, Commit
      <3>4. \A x \in Races : rows[x] <= rows'[x]
        BY <2>2, <3>1, Numbers DEF CacheInv, WritersTyped, Documents, Commit
      <3>5. QED
        BY <2>2, <3>2, <3>3, <3>4 DEF Commit
    <2>3. ASSUME NEW r \in Races, FindByIds(w, r) PROVE Loaded
      <3>1. [Nothing EXCEPT ![r] = rows[r]] \in Documents
        BY NothingIsTyped DEF CacheInv, WritersTyped, Documents
      <3>2. rows \in Documents /\ \A x \in Races : rows[x] <= rows[x]
        BY DEF CacheInv, WritersTyped, Documents
      <3>3. QED
        BY <2>3, <3>1, <3>2 DEF FindByIds
    <2>4. QED
      BY <2>1, <2>2, <2>3
  <1>3. WritersTyped'
    BY <1>1, <1>2 DEF CacheInv, WritersTyped, Steps
  <1>4. PagesTyped'
    BY <1>1 DEF CacheInv, PagesTyped
  <1>5. HoldersOK'
    <2>1. CASE FindAll(w)
      BY <2>1, Numbers DEF CacheInv, HoldersOK, WritersTyped, Documents, FindAll, Go, Idle, Holds
    <2>2. ASSUME NEW r \in Races, Commit(w, r) PROVE HoldersOK'
      BY <1>2, <2>2, Numbers, NothingIsTyped
      DEF CacheInv, HoldersOK, WritersTyped, Documents, Commit, Go, Idle, Holds, HeldByOther
    <2>3. ASSUME NEW r \in Races, FindByIds(w, r) PROVE HoldersOK'
      BY <2>3, NothingIsTyped
      DEF CacheInv, HoldersOK, WritersTyped, Documents, FindByIds, Go, Idle, Holds
    <2>4. QED
      BY <2>1, <2>2, <2>3
  <1>6. IndexOK'
    <2> SUFFICES ASSUME NEW x \in Races
                 PROVE  Settles(docs', tasks', x, rows'[x]) \/ x \in behind' \/ WillAdd(x)'
      BY DEF IndexOK
    <2>1. \A v \in Writers \ {w} : step'[v] = step[v] /\ loaded'[v] = loaded[v]
      BY <1>1, <1>2 DEF CacheInv, WritersTyped
    <2>2. WillAdd(x) => WillAdd(x)'
      BY <1>1, <2>1, NothingIsTyped DEF WillAdd
    <2>3. rows'[x] # rows[x] => step'[w] # "clear" /\ loaded'[w][x] # 0
      BY Numbers, NothingIsTyped
      DEF CacheInv, WritersTyped, Documents, FindAll, Commit, FindByIds, Go
    <2>4. QED
      BY <1>1, <2>2, <2>3 DEF CacheInv, IndexOK, WillAdd
  <1>7. PagesOK'
    BY <1>1 DEF CacheInv, PagesOK, Pages, WritersTyped
  <1>8. QED
    BY <1>3, <1>4, <1>5, <1>6, <1>7 DEF CacheInv

(* ... hands documents over, or has all deleted before.                      *)
LEMMA WriteKeeps ==
  ASSUME CacheInv, NEW w \in Writers, DeleteAllDocuments(w) \/ AddDocuments(w)
  PROVE  CacheInv'
  <1> DEFINE kind == IF step[w] = "clear" THEN "clear" ELSE "add"
  <1>1. tasks' = Append(tasks, Task(kind, w)) /\ docs' = docs
    BY DEF DeleteAllDocuments, AddDocuments
  <1>2. kind \in {"clear", "add"}
    OBVIOUS
  <1>3. /\ tasks' \in Seq(Tasks)
        /\ \A r \in Races :
             IF kind = "clear" \/ loaded[w][r] # 0
             THEN Settles(docs', tasks', r, IF kind = "clear" THEN 0 ELSE loaded[w][r])
             ELSE \A v : Settles(docs, tasks, r, v) => Settles(docs', tasks', r, v)
    <2> HIDE DEF kind
    <2>1. QED
      BY <1>1, <1>2, HandOverKeeps
  <1>4. WritersTyped'
    BY <1>1, <1>3, NothingIsTyped
    DEF CacheInv, WritersTyped, Steps, DeleteAllDocuments, AddDocuments, Go
  <1>5. PagesTyped'
    BY DEF CacheInv, PagesTyped, DeleteAllDocuments, AddDocuments
  <1>6. HoldersOK'
    <2>1. CASE DeleteAllDocuments(w)
      BY <2>1 DEF CacheInv, HoldersOK, WritersTyped, DeleteAllDocuments, Go, Holds
    <2>2. CASE AddDocuments(w)
      <3>1. loaded' = [loaded EXCEPT ![w] = Nothing] /\ loaded'[w] = Nothing
            /\ step' = [step EXCEPT ![w] = "invalidate"] /\ rows' = rows /\ behind' \subseteq behind
            /\ step'[w] = "invalidate"
        BY <2>2 DEF CacheInv, WritersTyped, AddDocuments, Go
      <3>2. \A v \in Writers : step'[v] \in {"idle", "invalidate"} => loaded'[v] = Nothing
        BY <3>1 DEF CacheInv, HoldersOK, WritersTyped
      <3>3. \A v \in Writers \ {w} : loaded'[v] = loaded[v] /\ step'[v] = step[v]
        BY <3>1 DEF CacheInv, WritersTyped
      <3>4. ASSUME NEW v \in Writers, NEW r \in Races, Holds(v, r)', loaded'[v][r] # rows'[r]
            PROVE  r \in behind'
        <4>1. v # w
          BY <3>1, <3>4, NothingIsTyped DEF Holds
        <4>2. Holds(v, r) /\ r \in behind
          BY <3>1, <3>3, <3>4, <4>1 DEF CacheInv, HoldersOK, Holds
        <4>3. QED
          BY <2>2, <4>1, <4>2 DEF AddDocuments, HeldByOther
      <3>5. \A v \in Writers, r \in Races : loaded'[v][r] <= rows'[r]
        BY <3>1, <3>3, NothingIsTyped DEF CacheInv, HoldersOK, WritersTyped, Documents
      <3>6. QED
        BY <3>1, <3>2, <3>4, <3>5 DEF CacheInv, HoldersOK
    <2>3. QED
      BY <2>1, <2>2
  <1>7. IndexOK'
    <2> SUFFICES ASSUME NEW r \in Races 
                 PROVE  Settles(docs', tasks', r, rows'[r]) \/ r \in behind' \/ WillAdd(r)'
      BY DEF IndexOK
    <2>1. CASE DeleteAllDocuments(w)
      <3>1. Settles(docs', tasks', r, 0) /\ UNCHANGED <<rows, loaded, behind>>
        BY <1>3, <2>1 DEF DeleteAllDocuments
      <3>2. Holds(w, r) /\ step'[w] = "refill"
        BY <2>1 DEF DeleteAllDocuments, Go, Holds, CacheInv, WritersTyped
      <3>3. r \in behind \/ rows[r] = loaded[w][r]
        BY <3>2 DEF CacheInv, HoldersOK
      <3>4. QED
        BY <3>1, <3>2, <3>3 DEF WillAdd
    <2>2. CASE AddDocuments(w)
      <3>1. CASE loaded[w][r] # 0
        <4>1. Settles(docs', tasks', r, loaded[w][r]) /\ rows' = rows
          BY <1>3, <2>2, <3>1 DEF AddDocuments
        <4>2. rows[r] = loaded[w][r] \/ (r \in behind /\ loaded[w][r] < rows[r])
          BY <3>1 DEF CacheInv, HoldersOK, Holds, WritersTyped, Documents
        <4>3. QED
          BY <2>2, <3>1, <4>1, <4>2 DEF AddDocuments
      <3>2. CASE loaded[w][r] = 0
        <4>1. kind # "clear" /\ rows' = rows
          BY <2>2 DEF AddDocuments
        <4>2. Settles(docs, tasks, r, rows[r]) => Settles(docs', tasks', r, rows'[r])
          BY <1>3, <3>2, <4>1
        <4>3. r \in behind => r \in behind'
          BY <2>2, <3>2 DEF AddDocuments, CacheInv, HoldersOK, WritersTyped, Documents
        <4>4. WillAdd(r) => WillAdd(r)'
          BY <2>2, <3>2 DEF AddDocuments, WillAdd, CacheInv, WritersTyped, Go
        <4>5. QED
          BY <4>2, <4>3, <4>4 DEF CacheInv, IndexOK
      <3>3. QED
        BY <3>1, <3>2
    <2>3. QED
      BY <2>1, <2>2
  <1>8. PagesOK'
    BY DEF CacheInv, PagesOK, Pages, WritersTyped, Steps, DeleteAllDocuments, AddDocuments, Go
  <1>9. QED
    BY <1>4, <1>5, <1>6, <1>7, <1>8 DEF CacheInv

(* A page that missed an invalidation is one still.                          *)
LEMMA MissedPages ==
  ASSUME NEW pages \in SUBSET Page
  PROVE  /\ Missed(pages) \subseteq Page
         /\ \A p \in Missed(pages) : p.missed /\ \E q \in pages : p.age = q.age
         /\ (\A p, q \in pages : p = q) => \A p, q \in Missed(pages) : p = q
  BY DEF Missed, Page

(* ... drops the tag.                                                        *)
LEMMA InvalidateKeeps ==
  ASSUME CacheInv, NEW w \in Writers, InvalidateTag(w)
  PROVE  CacheInv'
  <1>1. WritersTyped'
    BY DEF CacheInv, WritersTyped, Steps, InvalidateTag, Go
  <1>2. PagesTyped'
    BY MissedPages DEF CacheInv, PagesTyped, InvalidateTag
  <1>3. HoldersOK'
    BY DEF CacheInv, HoldersOK, WritersTyped, InvalidateTag, Go, Holds
  <1>4. IndexOK'
    BY DEF CacheInv, IndexOK, WillAdd, WritersTyped, InvalidateTag, Go
  <1>5. PagesOK'
    BY MissedPages DEF CacheInv, PagesTyped, PagesOK, Pages, InvalidateTag
  <1>6. QED
    BY <1>1, <1>2, <1>3, <1>4, <1>5 DEF CacheInv

(* ... or fails where it is, which leaves races behind.                      *)
LEMMA FailureKeeps ==
  ASSUME CacheInv, NEW w \in Writers, WriterFails(w)
  PROVE  CacheInv'
  <1>1. /\ loaded' = [loaded EXCEPT ![w] = Nothing] /\ loaded'[w] = Nothing
        /\ step' = [step EXCEPT ![w] = "idle"] /\ step'[w] = "idle"
        /\ behind' = behind \cup {r \in Races : step[w] # "clear" /\ loaded[w][r] # 0}
        /\ \A v \in Writers \ {w} : loaded'[v] = loaded[v] /\ step'[v] = step[v]
        /\ UNCHANGED <<rows, docs, tasks>>
    BY DEF CacheInv, WritersTyped, WriterFails, Go
  <1>2. WritersTyped'
    BY <1>1, NothingIsTyped DEF CacheInv, WritersTyped, Steps
  <1>3. PagesTyped'
    BY MissedPages DEF CacheInv, PagesTyped, WriterFails
  <1>4. HoldersOK'
    <2>1. \A v \in Writers, r \in Races :
            /\ loaded'[v][r] <= rows'[r]
            /\ Holds(v, r)' /\ loaded'[v][r] # rows'[r] => r \in behind'
      BY <1>1, NothingIsTyped DEF CacheInv, HoldersOK, WritersTyped, Documents, Holds
    <2>2. \A r \in behind' \cap Races : rows'[r] # 0
      BY <1>1 DEF CacheInv, HoldersOK, WritersTyped, Documents
    <2>3. \A v \in Writers : step'[v] \in {"idle", "invalidate"} => loaded'[v] = Nothing
      BY <1>1 DEF CacheInv, HoldersOK
    <2>4. QED
      BY <2>1, <2>2, <2>3 DEF HoldersOK
  <1>5. IndexOK'
    BY <1>1 DEF CacheInv, IndexOK, WillAdd
  <1>6. PagesOK'
    <2>1. CASE step[w] \in {"refill", "invalidate"}
      BY <2>1, MissedPages DEF CacheInv, PagesTyped, PagesOK, Pages, WriterFails
    <2>2. CASE step[w] \notin {"refill", "invalidate"}
      <3>1. UNCHANGED <<cached, filling>>
        BY <2>2 DEF WriterFails
      <3>2. QED
        BY <1>1, <2>2, <3>1 DEF CacheInv, PagesOK, Pages
    <2>3. QED
      BY <2>1, <2>2
  <1>7. QED
    BY <1>2, <1>3, <1>4, <1>5, <1>6 DEF CacheInv

-----------------------------------------------------------------------------
(* MeiliSearch, searches and time                                            *)

(* A task is applied: pages that were up to date with it wait for a writer.  *)
LEMMA ApplyKeeps ==
  ASSUME CacheInv, Apply
  PROVE  CacheInv'
  <1>1. Head(tasks) \in Tasks /\ tasks' \in Seq(Tasks)
    BY DEF CacheInv, WritersTyped, Apply
  <1>2. docs' \in Documents
    BY <1>1, NothingIsTyped DEF CacheInv, WritersTyped, Apply, Applied, Tasks, Documents
  <1>3. WritersTyped'
    BY <1>1, <1>2 DEF CacheInv, WritersTyped, Apply
  <1>4. PagesTyped'
    BY DEF CacheInv, PagesTyped, Apply
  <1>5. HoldersOK'
    BY DEF CacheInv, HoldersOK, Apply, Holds
  <1>6. IndexOK'
    <2>1. ASSUME NEW r \in Races, Settles(docs, tasks, r, rows[r])
          PROVE  Settles(docs', tasks', r, rows'[r])
      BY <2>1, ApplyingKeeps DEF CacheInv, WritersTyped, Apply
    <2>2. QED
      BY <2>1 DEF CacheInv, IndexOK, WillAdd, Apply
  <1>7. PagesOK'
    BY DEF CacheInv, PagesOK, Pages, Apply
  <1>8. QED
    BY <1>3, <1>4, <1>5, <1>6, <1>7 DEF CacheInv

(* An older page is the same page.                                           *)
LEMMA AgedPages ==
  ASSUME NEW pages \in SUBSET Page
  PROVE  /\ Aged(pages) \subseteq Page
         /\ \A p \in Aged(pages) : \E q \in pages :
              p.docs = q.docs /\ p.lagging = q.lagging /\ p.missed = q.missed
         /\ (\A p, q \in pages : p = q) => \A p, q \in Aged(pages) : p = q
  <1>1. ASSUME NEW q \in pages
        PROVE  [q EXCEPT !.age = IF @ < TTL THEN @ + 1 ELSE @] \in Page
    BY Numbers DEF Page
  <1>2. QED
    BY <1>1 DEF Aged, Page

(* A search misses, or stores its page; pages age.                           *)
LEMMA SearchKeeps ==
  ASSUME CacheInv, (\E s \in Searches : Miss(s) \/ Store(s)) \/ Tick
  PROVE  CacheInv'
  <1>1. UNCHANGED <<rows, docs, tasks, step, loaded, behind>>
    BY DEF Miss, Store, Tick
  <1>2. WritersTyped' /\ HoldersOK' /\ IndexOK'
    BY <1>1 DEF CacheInv, WritersTyped, HoldersOK, Holds, IndexOK, WillAdd
  <1>3. ASSUME NEW s \in Searches, Miss(s) PROVE PagesTyped' /\ PagesOK'
    <2> DEFINE page == [docs |-> docs, age |-> 0, expires |-> TTL, lagging |-> tasks # <<>>,
                        missed |-> FALSE]
    <2>1. /\ page \in Page /\ page.docs = docs /\ (tasks # <<>> => page.lagging)
      <3> DEFINE lag == tasks # <<>>
      <3>1. lag \in BOOLEAN /\ docs \in Documents /\ 0 \in 0..TTL
        BY Numbers DEF CacheInv, WritersTyped
      <3> HIDE DEF lag
      <3>2. /\ [docs |-> docs, age |-> 0, expires |-> TTL, lagging |-> lag, missed |-> FALSE] \in Page
            /\ [docs |-> docs, age |-> 0, expires |-> TTL, lagging |-> lag, missed |-> FALSE].lagging
                 = lag
        BY <3>1 DEF Page
      <3>3. QED
        BY <3>2, Zenon DEF lag
    <2>2. filling' = [filling EXCEPT ![s] = {page}] /\ cached' = cached
      BY <1>3 DEF Miss
    <2> HIDE DEF page
    <2>3. PagesTyped'
      BY <2>1, <2>2 DEF CacheInv, PagesTyped
    <2>4. Pages' \subseteq Pages \cup {page}
      BY <2>2 DEF Pages, CacheInv, PagesTyped
    <2>5. PagesOK'
      BY <1>1, <2>1, <2>4 DEF CacheInv, PagesOK
    <2>6. QED
      BY <2>3, <2>5
  <1>4. ASSUME NEW s \in Searches, Store(s) PROVE PagesTyped' /\ PagesOK'
    <2>1. PICK page \in filling[s] : cached' = IF page.age < page.expires THEN {page} ELSE {}
      BY <1>4 DEF Store
    <2>2. page \in Page /\ page.expires = TTL
      BY DEF CacheInv, PagesTyped, Page
    <2>3. PagesTyped'
      BY <1>4, <2>1, <2>2 DEF CacheInv, PagesTyped, Store
    <2>4. Pages' \subseteq Pages
      BY <1>4, <2>1 DEF Pages, Store, CacheInv, PagesTyped
    <2>5. QED
      BY <1>1, <2>3, <2>4 DEF CacheInv, PagesOK
  <1>5. CASE Tick
    <2>1. PagesTyped'
      <3>1. cached' \subseteq Page /\ \A p, q \in cached' : p = q
        BY <1>5, AgedPages DEF CacheInv, PagesTyped, Tick
      <3>2. \A p \in cached' : p.age < TTL
        BY <1>5, <3>1 DEF Tick, Page
      <3>3. /\ filling' \in [Searches -> SUBSET Page]
            /\ \A s \in Searches : \A p, q \in filling'[s] : p = q
        BY <1>5, AgedPages DEF CacheInv, PagesTyped, Tick
      <3>4. QED
        BY <3>1, <3>2, <3>3 DEF PagesTyped
    <2>2. \A p \in Pages' : \E q \in Pages :
            p.docs = q.docs /\ p.lagging = q.lagging /\ p.missed = q.missed
      BY <1>5, AgedPages DEF Pages, CacheInv, PagesTyped, Tick
    <2>3. PagesOK'
      <3> SUFFICES ASSUME NEW p \in Pages'
                   PROVE  \/ p.docs = docs /\ tasks = <<>>
                          \/ \E w \in Writers : step[w] \in {"refill", "invalidate"}
                          \/ p.lagging \/ p.missed
        BY <1>1 DEF PagesOK
      <3>1. PICK q \in Pages : p.docs = q.docs /\ p.lagging = q.lagging /\ p.missed = q.missed
        BY <2>2
      <3>2. QED
        BY <3>1, Zenon DEF CacheInv, PagesOK
    <2>4. QED
      BY <1>2, <2>1, <2>3 DEF CacheInv
  <1>6. QED
    BY <1>2, <1>3, <1>4, <1>5 DEF CacheInv

-----------------------------------------------------------------------------
(* The invariant holds in every reachable state.                             *)
THEOREM Invariance == Spec => []CacheInv
  <1>1. Init => CacheInv
    <2> SUFFICES ASSUME Init PROVE CacheInv
      OBVIOUS
    <2>1. WritersTyped
      BY NothingIsTyped DEF Init, WritersTyped, Steps
    <2>2. PagesTyped /\ PagesOK
      BY DEF Init, PagesTyped, PagesOK, Pages
    <2>3. HoldersOK
      BY NothingIsTyped DEF Init, HoldersOK, Holds
    <2>4. IndexOK
      BY NothingIsTyped DEF Init, IndexOK, Settles, Touching
    <2>5. QED
      BY <2>1, <2>2, <2>3, <2>4 DEF CacheInv
  <1>2. CacheInv /\ [Next]_vars => CacheInv'
    <2> SUFFICES ASSUME CacheInv, [Next]_vars PROVE CacheInv'
      OBVIOUS
    <2>1. CASE UNCHANGED vars
      BY <2>1 DEF vars, CacheInv, WritersTyped, PagesTyped, HoldersOK, Holds, IndexOK, WillAdd,
                  PagesOK, Pages
    <2>2. ASSUME NEW w \in Writers,
                 \/ FindAll(w) \/ Write(w) \/ WriterFails(w)
                 \/ \E r \in Races : Commit(w, r) \/ FindByIds(w, r)
          PROVE  CacheInv'
      BY <2>2, LoadKeeps, WriteKeeps, InvalidateKeeps, FailureKeeps DEF Write
    <2>3. CASE Apply \/ Tick \/ \E s \in Searches : Miss(s) \/ Store(s)
      BY <2>3, ApplyKeeps, SearchKeeps
    <2>4. QED
      BY <2>1, <2>2, <2>3 DEF Next
  <1>3. QED
    BY <1>1, <1>2, PTL DEF Spec

(* Type correctness; no stored page has outlived its TTL.                    *)
THEOREM TypeCorrect == Spec => []TypeOK
  <1>1. ASSUME NEW pages, \A p, q \in pages : p = q PROVE Cardinality(pages) <= 1
    <2>1. CASE pages = {}
      BY <2>1, FS_EmptySet
    <2>2. CASE pages # {}
      <3>1. PICK p : pages = {p}
        BY <1>1, <2>2
      <3>2. Cardinality({p}) = 1
        BY FS_Singleton, Zenon
      <3>3. QED
        BY <3>1, <3>2
    <2>3. QED
      BY <2>1, <2>2
  <1>2. CacheInv => TypeOK
    <2> SUFFICES ASSUME CacheInv PROVE TypeOK
      OBVIOUS
    <2>1. {rows, docs} \cup {loaded[w] : w \in Writers} \subseteq [Races -> 0..MaxVersion]
      BY DEF CacheInv, WritersTyped, Documents
    <2>2. \A i \in DOMAIN tasks : tasks[i].kind \in {"clear", "add"}
      <3>1. \A i \in DOMAIN tasks : tasks[i] \in Tasks
        BY DEF CacheInv, WritersTyped
      <3>2. QED
        BY <3>1 DEF Tasks
    <2>3. Cardinality(cached) <= 1 /\ \A s \in Searches : Cardinality(filling[s]) <= 1
      BY <1>1 DEF CacheInv, PagesTyped
    <2>4. QED
      BY <2>1, <2>2, <2>3 DEF TypeOK, CacheInv, WritersTyped, PagesTyped, Steps
  <1>3. QED
    BY <1>2, Invariance, PTL

(* Once MeiliSearch has caught up, the index has every race as its row does, *)
(* but for those named: CachedSearchIndex and its writers.                   *)
THEOREM IndexFollowsRows == Spec => []IndexFollows
  <1>1. CacheInv => IndexFollows
    <2> SUFFICES ASSUME CacheInv, NEW r \in Races
                 PROVE  Settled[r] = rows[r] \/ r \in behind \/ \E w \in Writers : Holds(w, r)
      BY DEF IndexFollows
    <2>1. CASE Settles(docs, tasks, r, rows[r])
      BY <2>1, SettlesIsSettled DEF CacheInv
    <2>2. CASE r \in behind \/ WillAdd(r)
      BY <2>2 DEF WillAdd, Holds
    <2>3. QED
      BY <2>1, <2>2 DEF CacheInv, IndexOK
  <1>2. QED
    BY <1>1, Invariance, PTL

(* A cached page that differs from the index is one of those named.          *)
THEOREM StalenessExplained == Spec => []StalePagesAreExplained
  <1>1. CacheInv => StalePagesAreExplained
    BY DEF CacheInv, PagesOK, Pages, StalePagesAreExplained
  <1>2. QED
    BY <1>1, Invariance, PTL
=============================================================================
