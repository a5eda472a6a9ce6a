---------------------------- MODULE GeocoderProofs ----------------------------
(* For any number of calls, workers and cities: no city is lost or sent      *)
(* twice, nobody sends on a closed channel, a call that is not cut short is  *)
(* complete, and the service implements the promise of GeocodeCall.          *)
EXTENDS Geocoder, TLAPS

(* Why workers stop: the producer is finished or the context is done.        *)
Stopping ==
  /\ \A c \in Calls : ~jobsOpen[c] /\ ~expired[c] => sent[c] = Len(Cities[c])
  /\ \A c \in Calls : dropped[c] # {} => expired[c]
  /\ \A w \in Workers : at[w] = "done" => ~jobsOpen[w[1]] \/ expired[w[1]]
  /\ \A c \in Calls : returned[c] => ~resultsOpen[c]

(* What a worker is about to send is cached.                                 *)
Cached ==
  /\ LateIsCached
  /\ \A w \in Workers : at[w] = "send" => CityOf(w) \in cache

IInv == TypeOK /\ EachCityOnce /\ NoSendOnClosed /\ Stopping /\ Cached

(* The steps of a worker change its own label only.                          *)
LEMMA Own ==
  ASSUME TypeOK, NEW w \in Workers, NEW label \in Labels, Become(w, label)
  PROVE  /\ at' \in [Workers -> Labels]
         /\ at'[w] = label
         /\ \A v \in Workers : v # w => at'[v] = at[v]
  BY DEF TypeOK, Become

(* A worker is a pair of a call and a number.                                *)
LEMMA Pairs ==
  /\ \A w \in Workers : w[1] \in Calls /\ w \in WorkersOf(w[1])
  /\ \A c \in Calls : WorkersOf(c) \subseteq Workers /\ \A w \in WorkersOf(c) : w[1] = c
  /\ \A c \in Calls : WorkersOf(c) # {}
  <1>1. \A w \in Workers : w[1] \in Calls /\ w[2] \in Pool /\ w = <<w[1], w[2]>>
    BY DEF Workers
  <1>2. \A w \in Workers : w \in WorkersOf(w[1])
    BY <1>1 DEF WorkersOf
  <1>3. ASSUME NEW c \in Calls PROVE WorkersOf(c) \subseteq Workers /\ \A w \in WorkersOf(c) : w[1] = c
    BY DEF WorkersOf, Workers
  <1>4. ASSUME NEW c \in Calls PROVE WorkersOf(c) # {}
    <2>1. PICK n : n \in Pool
      BY PoolAssumption
    <2>2. <<c, n>> \in WorkersOf(c)
      BY <2>1 DEF WorkersOf
    <2> QED
      BY <2>2
  <1> QED
    BY <1>1, <1>2, <1>3, <1>4

-----------------------------------------------------------------------------
LEMMA InitIInv == Init => IInv
  <1> SUFFICES ASSUME Init PROVE IInv
    OBVIOUS
  <1> USE DEF Init
  <1>0. \A c \in Calls : sent[c] = 0 /\ Settled(c) = {} /\ collected[c] = {} /\ failed[c] = {} /\ dropped[c] = {}
    BY DEF Settled
  <1>1. TypeOK
    <2>1. \A c \in Calls : Settled(c) \subseteq 1..sent[c] /\ sent[c] <= Len(Cities[c])
      <3>1. \A n \in Nat : 0 <= n
        OBVIOUS
      <3> HIDE DEF Init
      <3> QED
        BY <1>0, <3>1, CitiesAssumption
    <2>2. \A w \in Workers : at[w] \notin Busy
      BY DEF Busy
    <2>3. /\ at \in [Workers -> Labels]
          /\ job \in [Workers -> Nat]
          /\ sent \in [Calls -> Nat]
      BY DEF Labels
    <2>4. collected \in [Calls -> SUBSET Nat] /\ failed \in [Calls -> SUBSET Nat] /\ dropped \in [Calls -> SUBSET Nat]
      OBVIOUS
    <2>5. jobsOpen \in [Calls -> BOOLEAN] /\ resultsOpen \in [Calls -> BOOLEAN] /\ expired \in [Calls -> BOOLEAN]
      OBVIOUS
    <2>6. returned \in [Calls -> BOOLEAN] /\ token \in BOOLEAN
      OBVIOUS
    <2> HIDE DEF Init
    <2> QED
      BY <2>1, <2>2, <2>3, <2>4, <2>5, <2>6 DEF TypeOK
  <1>2. EachCityOnce
    <2>1. \A w \in Workers : at[w] \notin Busy
      BY DEF Busy
    <2>2. \A c \in Calls : \A p \in 1..sent[c] : FALSE
      BY <1>0
    <2>3. \A c \in Calls : \A w \in WorkersOf(c) : at[w] \notin Busy
      BY <2>1, Pairs
    <2> HIDE DEF Init
    <2> QED
      BY <1>0, <2>2, <2>3 DEF EachCityOnce
  <1>3. NoSendOnClosed /\ Stopping
    BY DEF NoSendOnClosed, Stopping
  <1>4. Cached
    BY DEF Cached, LateIsCached
  <1> QED
    BY <1>1, <1>2, <1>3, <1>4 DEF IInv

(* The steps that settle the city a worker holds, and leave it free or gone. *)
Settles(w) == Refuse(w) \/ FetchFails(w) \/ Deliver(w) \/ Drop(w)

LEMMA SettleStep ==
  ASSUME TypeOK, NEW w \in Workers, Settles(w)
  PROVE  /\ at[w] \in Busy
         /\ job[w] \in 1..sent[w[1]]
         /\ at' \in [Workers -> Labels]
         /\ at'[w] \in {"range", "done"}
         /\ \A v \in Workers : v # w => at'[v] = at[v]
         /\ UNCHANGED <<job, sent, jobsOpen, resultsOpen, expired, returned>>
         /\ collected' \in [Calls -> SUBSET Nat]
         /\ failed' \in [Calls -> SUBSET Nat]
         /\ dropped' \in [Calls -> SUBSET Nat]
         /\ Settled(w[1])' = Settled(w[1]) \cup {job[w]}
         /\ \A c \in Calls : c # w[1] => Settled(c)' = Settled(c)
  <1>1. at[w] \in Busy
    BY DEF Settles, Refuse, FetchFails, Deliver, Drop, Busy
  <1>2. job[w] \in 1..sent[w[1]] /\ job[w] \in Nat
    BY <1>1 DEF TypeOK
  <1>3. \E label \in {"range", "done"} : Become(w, label)
    BY DEF Settles, Refuse, FetchFails, Deliver, Drop
  <1>4. at' \in [Workers -> Labels] /\ at'[w] \in {"range", "done"} /\ \A v \in Workers : v # w => at'[v] = at[v]
    BY <1>3, Own DEF Labels
  <1>5. UNCHANGED <<job, sent, jobsOpen, resultsOpen, expired, returned>>
    BY DEF Settles, Refuse, FetchFails, Deliver, Drop
  <1>6. \/ GiveUp(w, failed) /\ UNCHANGED <<collected, dropped>>
        \/ GiveUp(w, collected) /\ UNCHANGED <<failed, dropped>>
        \/ GiveUp(w, dropped) /\ UNCHANGED <<collected, failed>>
    BY DEF Settles, Refuse, FetchFails, Deliver, Drop
  <1>7. w[1] \in Calls
    BY Pairs
  <1>8. CASE GiveUp(w, failed) /\ UNCHANGED <<collected, dropped>>
    BY <1>1, <1>2, <1>4, <1>5, <1>7, <1>8 DEF GiveUp, Settled, TypeOK
  <1>9. CASE GiveUp(w, collected) /\ UNCHANGED <<failed, dropped>>
    BY <1>1, <1>2, <1>4, <1>5, <1>7, <1>9 DEF GiveUp, Settled, TypeOK
  <1>10. CASE GiveUp(w, dropped) /\ UNCHANGED <<collected, failed>>
    BY <1>1, <1>2, <1>4, <1>5, <1>7, <1>10 DEF GiveUp, Settled, TypeOK
  <1> QED
    BY <1>6, <1>8, <1>9, <1>10

(* A city is handed out to a worker that holds none.                         *)
LEMMA HandOutStep ==
  ASSUME TypeOK, NEW w \in Workers, HandOut(w)
  PROVE  /\ at[w] = "range"
         /\ at' \in [Workers -> Labels]
         /\ job' \in [Workers -> Nat]
         /\ sent' \in [Calls -> Nat]
         /\ at'[w] = "look" /\ job'[w] = sent[w[1]] + 1
         /\ \A v \in Workers : v # w => at'[v] = at[v] /\ job'[v] = job[v]
         /\ sent'[w[1]] = sent[w[1]] + 1
         /\ \A c \in Calls : c # w[1] => sent'[c] = sent[c]
         /\ \A c \in Calls : sent[c] \in Nat /\ sent'[c] \in Nat /\ sent[c] <= sent'[c]
         /\ \A c \in Calls : sent'[c] <= Len(Cities[c])
         /\ \A c \in Calls : Settled(c)' = Settled(c)
         /\ UNCHANGED <<jobsOpen, resultsOpen, expired, collected, failed, dropped, returned, cache, token>>
  <1>1. w[1] \in Calls /\ Len(Cities[w[1]]) \in Nat
    BY Pairs, CitiesAssumption
  <1>2. at' \in [Workers -> Labels] /\ at'[w] = "look" /\ \A v \in Workers : v # w => at'[v] = at[v]
    BY Own DEF HandOut, Labels, Busy
  <1>3. job' \in [Workers -> Nat] /\ job'[w] = sent[w[1]] + 1 /\ \A v \in Workers : v # w => job'[v] = job[v]
    BY <1>1 DEF HandOut, TypeOK
  <1>4. /\ sent' \in [Calls -> Nat]
        /\ sent'[w[1]] = sent[w[1]] + 1
        /\ \A c \in Calls : c # w[1] => sent'[c] = sent[c]
        /\ sent[w[1]] + 1 <= Len(Cities[w[1]])
    BY <1>1 DEF HandOut, TypeOK
  <1>5. \A c \in Calls : sent[c] \in Nat /\ sent'[c] \in Nat /\ sent[c] <= sent'[c]
    <2> SUFFICES ASSUME NEW c \in Calls PROVE sent[c] \in Nat /\ sent'[c] \in Nat /\ sent[c] <= sent'[c]
      OBVIOUS
    <2>1. sent[c] \in Nat
      BY DEF TypeOK
    <2> QED
      BY <1>1, <1>4, <2>1
  <1>6. \A c \in Calls : sent'[c] <= Len(Cities[c])
    BY <1>4 DEF TypeOK
  <1>7. UNCHANGED <<jobsOpen, resultsOpen, expired, collected, failed, dropped, returned, cache, token>> /\ at[w] = "range"
    BY DEF HandOut
  <1> QED
    BY <1>2, <1>3, <1>4, <1>5, <1>6, <1>7 DEF Settled

(* A worker moves on with the city it holds, or leaves without one.          *)
Moves(w) == RangeEnds(w) \/ LookUp(w) \/ Queue(w) \/ Grant(w) \/ Fetch(w)

LEMMA MoveStep ==
  ASSUME TypeOK, NEW w \in Workers, Moves(w)
  PROVE  /\ at' \in [Workers -> Labels]
         /\ at'[w] \in Busy <=> at[w] \in Busy
         /\ \A v \in Workers : v # w => at'[v] = at[v]
         /\ UNCHANGED <<job, sent, jobsOpen, resultsOpen, expired, collected, failed, dropped, returned>>
         /\ \A c \in Calls : Settled(c)' = Settled(c)
         /\ token' \in BOOLEAN
  <1>1. \E label \in Labels : Become(w, label) /\ (label \in Busy <=> at[w] \in Busy)
    BY DEF Moves, RangeEnds, LookUp, Queue, Grant, Fetch, Labels, Busy
  <1>2. UNCHANGED <<job, sent, jobsOpen, resultsOpen, expired, collected, failed, dropped, returned>>
    BY DEF Moves, RangeEnds, LookUp, Queue, Grant, Fetch, callVars
  <1>3. token' \in BOOLEAN
    BY DEF Moves, RangeEnds, LookUp, Queue, Grant, Fetch, TypeOK
  <1>4. \A c \in Calls : Settled(c)' = Settled(c)
    BY <1>2 DEF Settled
  <1> QED
    BY <1>1, <1>2, <1>3, <1>4, Own

(* A step of a call as a whole leaves its cities alone.                      *)
CallMoves(c) == CloseJobs(c) \/ CloseResults(c) \/ Return(c) \/ Expire(c)

(* Every step is one of these.                                               *)
LEMMA Steps ==
  ASSUME [Next]_vars
  PROVE  \/ UNCHANGED vars
         \/ \E c \in Calls : Start(c) \/ CallMoves(c)
         \/ \E w \in Workers : HandOut(w) \/ Moves(w) \/ Settles(w)
         \/ Refill
  BY DEF Next, WorkerStep, CallStep, CallMoves, Moves, Settles

-----------------------------------------------------------------------------
(* Every step keeps the types.                                               *)
LEMMA TypeStep == ASSUME TypeOK, [Next]_vars PROVE TypeOK'
  <1>0. CASE UNCHANGED vars
    BY <1>0 DEF vars, callVars, TypeOK, Settled
  <1>1. ASSUME NEW c \in Calls, Start(c) PROVE TypeOK'
    BY <1>1 DEF Start, Labels, Busy, TypeOK, Settled, callVars
  <1>2. ASSUME NEW c \in Calls, CallMoves(c) PROVE TypeOK'
    BY <1>2 DEF CallMoves, CloseJobs, CloseResults, Return, Expire, TypeOK, Settled
  <1>3. ASSUME NEW w \in Workers, HandOut(w) PROVE TypeOK'
    <2>1. \A v \in Workers : at'[v] \in Busy => job'[v] \in 1..sent'[v[1]]
      <3> SUFFICES ASSUME NEW v \in Workers, at'[v] \in Busy PROVE job'[v] \in 1..sent'[v[1]]
        OBVIOUS
      <3>1. v[1] \in Calls /\ w[1] \in Calls
        BY Pairs
      <3>2. CASE v = w
        BY <1>3, <3>1, <3>2, HandOutStep
      <3>3. CASE v # w
        <4>1. job[v] \in 1..sent[v[1]] /\ job'[v] = job[v]
          BY <1>3, <3>3, HandOutStep DEF TypeOK
        <4> QED
          BY <1>3, <3>1, <4>1, HandOutStep
      <3> QED
        BY <3>2, <3>3
    <2>2. \A c \in Calls : Settled(c)' \subseteq 1..sent'[c]
      BY <1>3, HandOutStep DEF TypeOK
    <2> QED
      BY <1>3, <2>1, <2>2, HandOutStep DEF TypeOK
  <1>4. ASSUME NEW w \in Workers, Moves(w) PROVE TypeOK'
    BY <1>4, MoveStep DEF TypeOK
  <1>5. ASSUME NEW w \in Workers, Settles(w) PROVE TypeOK'
    <2>1. \A v \in Workers : at'[v] \in Busy => at[v] \in Busy
      BY <1>5, SettleStep DEF Busy
    <2>2. \A c \in Calls : Settled(c)' \subseteq 1..sent[c]
      BY <1>5, SettleStep DEF TypeOK
    <2>3. token' \in BOOLEAN
      BY <1>5 DEF Settles, Refuse, FetchFails, Deliver, Drop, TypeOK
    <2> QED
      BY <1>5, <2>1, <2>2, <2>3, SettleStep DEF TypeOK
  <1>6. CASE Refill
    BY <1>6 DEF Refill, TypeOK, Settled, callVars
  <1> QED
    BY <1>0, <1>1, <1>2, <1>3, <1>4, <1>5, <1>6, Steps

THEOREM TypeCorrect == Spec => []TypeOK
  <1>1. Init => TypeOK
    BY InitIInv DEF IInv
  <1> QED
    BY <1>1, TypeStep, PTL DEF Spec

-----------------------------------------------------------------------------
(* Every step keeps each handed out city in one place.                       *)
LEMMA OnceStep == ASSUME TypeOK, EachCityOnce, [Next]_vars PROVE EachCityOnce'
  <1>0. CASE UNCHANGED vars
    BY <1>0 DEF vars, callVars, EachCityOnce, Settled, Holds
  <1>1. ASSUME NEW c \in Calls, Start(c) PROVE EachCityOnce'
    <2>1. UNCHANGED <<job, sent, collected, failed, dropped>>
      BY <1>1 DEF Start, callVars
    <2>2. \A w \in Workers : at'[w] \in Busy <=> at[w] \in Busy
      BY <1>1, Pairs DEF Start, Busy, WorkersOf
    <2>3. \A d \in Calls : Settled(d)' = Settled(d)
      BY <2>1 DEF Settled
    <2> QED
      BY <2>1, <2>2, <2>3, Pairs DEF EachCityOnce, Holds
  <1>2. ASSUME NEW c \in Calls, CallMoves(c) PROVE EachCityOnce'
    BY <1>2 DEF CallMoves, CloseJobs, CloseResults, Return, Expire, EachCityOnce, Settled, Holds
  <1>3. ASSUME NEW w \in Workers, HandOut(w) PROVE EachCityOnce'
    <2> SUFFICES ASSUME NEW c \in Calls PROVE
          /\ \A p \in 1..sent'[c] : p \in Settled(c)' \/ \E v \in WorkersOf(c) : Holds(v, p)'
          /\ \A v \in WorkersOf(c) : at'[v] \in Busy => job'[v] \notin Settled(c)'
          /\ \A u, v \in WorkersOf(c) : at'[u] \in Busy /\ at'[v] \in Busy /\ job'[u] = job'[v] => u = v
      BY <1>3, HandOutStep DEF EachCityOnce
    <2>0. WorkersOf(c) \subseteq Workers /\ (\A v \in WorkersOf(c) : v[1] = c) /\ w \in WorkersOf(w[1]) /\ w[1] \in Calls
      BY Pairs
    <2>1. at'[w] \in Busy /\ at[w] \notin Busy
      BY <1>3, HandOutStep DEF Busy
    <2>2. \A v \in WorkersOf(c) : at[v] \in Busy => job[v] \in 1..sent[c]
      BY <2>0 DEF TypeOK
    <2>3. Settled(c) \subseteq 1..sent[c] /\ sent[c] \in Nat
      BY DEF TypeOK
    <2>4. ASSUME NEW p \in 1..sent'[c] PROVE p \in Settled(c)' \/ \E v \in WorkersOf(c) : Holds(v, p)'
      <3>1. CASE p \in 1..sent[c]
        <4>1. p \in Settled(c) \/ \E v \in WorkersOf(c) : Holds(v, p)
          BY <3>1 DEF EachCityOnce
        <4>2. \A v \in WorkersOf(c) : Holds(v, p) => Holds(v, p)'
          BY <1>3, <2>0, <2>1, HandOutStep DEF Holds
        <4> QED
          BY <1>3, <4>1, <4>2, HandOutStep
      <3>2. CASE p \notin 1..sent[c]
        <4>1. c = w[1] /\ p = sent[c] + 1
          BY <1>3, <2>3, <3>2, HandOutStep
        <4> QED
          BY <1>3, <2>0, <2>1, <4>1, HandOutStep DEF Holds
      <3> QED
        BY <3>1, <3>2
    <2>5. ASSUME NEW v \in WorkersOf(c), at'[v] \in Busy PROVE job'[v] \notin Settled(c)'
      <3>1. CASE v = w
        <4>1. job'[v] = sent[c] + 1
          BY <1>3, <2>0, <3>1, HandOutStep
        <4> QED
          BY <1>3, <2>3, <4>1, HandOutStep
      <3>2. CASE v # w
        BY <1>3, <2>0, <2>5, <3>2, HandOutStep DEF EachCityOnce
      <3> QED
        BY <3>1, <3>2
    <2>6. \A v \in WorkersOf(c) : v # w /\ w[1] = c /\ at'[v] \in Busy => job'[v] # job'[w]
      BY <1>3, <2>0, <2>2, <2>3, HandOutStep
    <2>7. ASSUME NEW u \in WorkersOf(c), NEW v \in WorkersOf(c), at'[u] \in Busy, at'[v] \in Busy, job'[u] = job'[v]
          PROVE  u = v
      <3>1. CASE u # w /\ v # w
        BY <1>3, <2>0, <2>7, <3>1, HandOutStep DEF EachCityOnce
      <3>2. CASE u = w \/ v = w
        BY <2>0, <2>6, <2>7, <3>2
      <3> QED
        BY <3>1, <3>2
    <2> QED
      BY <2>4, <2>5, <2>7
  <1>4. ASSUME NEW w \in Workers, Moves(w) PROVE EachCityOnce'
    <2>1. \A v \in Workers : at'[v] \in Busy <=> at[v] \in Busy
      BY <1>4, MoveStep
    <2> QED
      BY <1>4, <2>1, MoveStep, Pairs DEF EachCityOnce, Holds
  <1>5. ASSUME NEW w \in Workers, Settles(w) PROVE EachCityOnce'
    <2> DEFINE d == w[1]
    <2>0. d \in Calls /\ w \in WorkersOf(d) /\ \A c \in Calls : WorkersOf(c) \subseteq Workers /\ \A v \in WorkersOf(c) : v[1] = c
      BY Pairs
    <2>1. at[w] \in Busy /\ at'[w] \notin Busy
      BY <1>5, SettleStep DEF Busy
    <2>2. \A v \in Workers : v # w => at'[v] = at[v]
      BY <1>5, SettleStep
    <2>3. UNCHANGED <<job, sent>> /\ Settled(d)' = Settled(d) \cup {job[w]} /\ \A c \in Calls : c # d => Settled(c)' = Settled(c)
      BY <1>5, SettleStep
    <2>4. \A c \in Calls : (collected[c] \cap failed[c] = {})' /\ ((collected[c] \cup failed[c]) \cap dropped[c] = {})'
      <3>1. job[w] \notin Settled(d)
        BY <2>0, <2>1 DEF EachCityOnce
      <3>2. \/ GiveUp(w, failed) /\ UNCHANGED <<collected, dropped>>
            \/ GiveUp(w, collected) /\ UNCHANGED <<failed, dropped>>
            \/ GiveUp(w, dropped) /\ UNCHANGED <<collected, failed>>
        BY <1>5 DEF Settles, Refuse, FetchFails, Deliver, Drop
      <3> QED
        BY <2>0, <3>1, <3>2 DEF GiveUp, EachCityOnce, Settled, TypeOK
    <2>5. ASSUME NEW c \in Calls, NEW p \in 1..sent'[c]
          PROVE  p \in Settled(c)' \/ \E v \in WorkersOf(c) : Holds(v, p)'
      <3>1. p \in Settled(c) \/ \E v \in WorkersOf(c) : Holds(v, p)
        BY <2>3, <2>5 DEF EachCityOnce
      <3>2. \A v \in WorkersOf(c) : v # w /\ Holds(v, p) => Holds(v, p)'
        BY <2>0, <2>2, <2>3 DEF Holds
      <3>3. Holds(w, p) /\ w \in WorkersOf(c) => p \in Settled(c)'
        BY <2>0, <2>3 DEF Holds
      <3> QED
        BY <2>3, <3>1, <3>2, <3>3
    <2>6. ASSUME NEW c \in Calls, NEW v \in WorkersOf(c), at'[v] \in Busy PROVE at[v] \in Busy /\ v # w /\ job'[v] \notin Settled(c)'
      <3>1. v # w /\ at[v] \in Busy
        BY <2>0, <2>1, <2>2, <2>6
      <3>2. job[v] \notin Settled(c)
        BY <3>1 DEF EachCityOnce
      <3>3. c = d => job[v] # job[w]
        BY <2>0, <2>1, <3>1 DEF EachCityOnce
      <3> QED
        BY <2>3, <3>1, <3>2, <3>3
    <2>7. \A c \in Calls : \A u, v \in WorkersOf(c) : at'[u] \in Busy /\ at'[v] \in Busy /\ job'[u] = job'[v] => u = v
      BY <2>3, <2>6 DEF EachCityOnce
    <2> QED
      BY <2>4, <2>5, <2>6, <2>7 DEF EachCityOnce
  <1>6. CASE Refill
    BY <1>6 DEF Refill, EachCityOnce, Settled, Holds, callVars
  <1> QED
    BY <1>0, <1>1, <1>2, <1>3, <1>4, <1>5, <1>6, Steps

(* Every step keeps the reasons to stop, and the workers of a closed channel *)
(* away from it.                                                             *)
LEMMA StopStep ==
  ASSUME TypeOK, NoSendOnClosed, Stopping, [Next]_vars PROVE NoSendOnClosed' /\ Stopping'
  <1>0. CASE UNCHANGED vars
    BY <1>0 DEF vars, callVars, NoSendOnClosed, Stopping
  <1>1. ASSUME NEW c \in Calls, Start(c) PROVE NoSendOnClosed' /\ Stopping'
    <2>1. UNCHANGED <<sent, jobsOpen, resultsOpen, expired, dropped, returned>>
      BY <1>1 DEF Start, callVars
    <2>2. \A w \in Workers : at'[w] = "done" <=> at[w] = "done"
      BY <1>1, Pairs DEF Start
    <2> QED
      BY <2>1, <2>2, Pairs DEF NoSendOnClosed, Stopping
  <1>2. ASSUME NEW c \in Calls, CallMoves(c) PROVE NoSendOnClosed' /\ Stopping'
    <2>1. CASE CloseJobs(c)
      BY <2>1 DEF CloseJobs, NoSendOnClosed, Stopping, TypeOK
    <2>2. CASE CloseResults(c)
      BY <2>2 DEF CloseResults, NoSendOnClosed, Stopping, TypeOK
    <2>3. CASE Return(c)
      BY <2>3 DEF Return, NoSendOnClosed, Stopping, TypeOK
    <2>4. CASE Expire(c)
      BY <2>4 DEF Expire, NoSendOnClosed, Stopping, TypeOK
    <2> QED
      BY <1>2, <2>1, <2>2, <2>3, <2>4 DEF CallMoves
  <1>3. ASSUME NEW w \in Workers, HandOut(w) PROVE NoSendOnClosed' /\ Stopping'
    <2>1. \A v \in Workers : at'[v] = "done" <=> at[v] = "done"
      BY <1>3, HandOutStep
    <2>2. jobsOpen[w[1]]
      BY <1>3 DEF HandOut
    <2> QED
      BY <1>3, <2>1, <2>2, HandOutStep, Pairs DEF NoSendOnClosed, Stopping
  <1>4. ASSUME NEW w \in Workers, Moves(w) PROVE NoSendOnClosed' /\ Stopping'
    <2>1. \A v \in Workers : at[v] = "done" => at'[v] = "done"
      BY <1>4, MoveStep DEF Moves, RangeEnds, LookUp, Queue, Grant, Fetch
    <2>2. at'[w] = "done" => ~jobsOpen[w[1]]
      BY <1>4 DEF Moves, RangeEnds, LookUp, Queue, Grant, Fetch, Become, TypeOK
    <2>3. \A v \in Workers : at'[v] = "done" => ~jobsOpen[v[1]] \/ expired[v[1]]
      BY <1>4, <2>2, MoveStep DEF Stopping
    <2> QED
      BY <1>4, <2>1, <2>3, MoveStep, Pairs DEF NoSendOnClosed, Stopping
  <1>5. ASSUME NEW w \in Workers, Settles(w) PROVE NoSendOnClosed' /\ Stopping'
    <2>1. at[w] # "done" /\ \A v \in Workers : v # w => at'[v] = at[v]
      BY <1>5, SettleStep DEF Busy
    <2>2. UNCHANGED <<sent, jobsOpen, resultsOpen, expired, returned>>
      BY <1>5, SettleStep
    <2>3. at'[w] = "done" => expired[w[1]]
      BY <1>5 DEF Settles, Refuse, FetchFails, Deliver, Drop, Become, TypeOK
    <2>4. \A c \in Calls : dropped'[c] # {} => expired[c]
      <3>1. dropped' = dropped \/ (expired[w[1]] /\ GiveUp(w, dropped))
        BY <1>5 DEF Settles, Refuse, FetchFails, Deliver, Drop
      <3>2. \A c \in Calls : c # w[1] \/ dropped' = dropped => dropped'[c] = dropped[c]
        BY <3>1 DEF GiveUp, TypeOK
      <3> QED
        BY <3>1, <3>2 DEF Stopping
    <2> QED
      BY <2>1, <2>2, <2>3, <2>4, Pairs DEF NoSendOnClosed, Stopping
  <1>6. CASE Refill
    BY <1>6 DEF Refill, NoSendOnClosed, Stopping, callVars
  <1> QED
    BY <1>0, <1>1, <1>2, <1>3, <1>4, <1>5, <1>6, Steps

(* Every step keeps the cache ahead of what is sent.                         *)
LEMMA CachedStep ==
  ASSUME TypeOK, Cached, [Next]_vars PROVE Cached'
  <1>0. CASE UNCHANGED vars
    BY <1>0 DEF vars, callVars, Cached, LateIsCached, CityOf
  <1>1. ASSUME NEW c \in Calls, Start(c) PROVE Cached'
    <2>1. UNCHANGED <<job, collected, dropped, cache>>
      BY <1>1 DEF Start, callVars
    <2>2. \A w \in Workers : at'[w] = "send" => at[w] = "send"
      BY <1>1 DEF Start
    <2> QED
      BY <2>1, <2>2 DEF Cached, LateIsCached, CityOf
  <1>2. ASSUME NEW c \in Calls, CallMoves(c) PROVE Cached'
    BY <1>2 DEF CallMoves, CloseJobs, CloseResults, Return, Expire, Cached, LateIsCached, CityOf
  <1>3. ASSUME NEW w \in Workers, HandOut(w) PROVE Cached'
    <2>1. \A v \in Workers : at'[v] = "send" => v # w /\ at[v] = "send" /\ job'[v] = job[v]
      BY <1>3, HandOutStep
    <2> QED
      BY <1>3, <2>1, HandOutStep DEF Cached, LateIsCached, CityOf
  <1>4. ASSUME NEW w \in Workers, Moves(w) PROVE Cached'
    <2>1. cache \subseteq cache' /\ (at'[w] = "send" => CityOf(w) \in cache')
      BY <1>4 DEF Moves, RangeEnds, LookUp, Queue, Grant, Fetch, Become, TypeOK
    <2>2. CityOf(w)' = CityOf(w) /\ \A v \in Workers : CityOf(v)' = CityOf(v)
      BY <1>4, MoveStep DEF CityOf
    <2> QED
      BY <1>4, <2>1, <2>2, MoveStep DEF Cached, LateIsCached
  <1>5. ASSUME NEW w \in Workers, Settles(w) PROVE Cached'
    <2>1. cache' = cache /\ job' = job
      BY <1>5 DEF Settles, Refuse, FetchFails, Deliver, Drop
    <2>2. \A v \in Workers : at'[v] = "send" => at[v] = "send"
      BY <1>5, SettleStep
    <2>3. ASSUME NEW c \in Calls, NEW p \in collected'[c] \cup dropped'[c] PROVE Cities[c][p] \in cache
      <3>1. CASE p \in collected[c] \cup dropped[c]
        BY <3>1 DEF Cached, LateIsCached
      <3>2. CASE p \notin collected[c] \cup dropped[c]
        <4>1. c = w[1] /\ p = job[w] /\ at[w] = "send"
          BY <1>5, <2>3, <3>2, Pairs DEF Settles, Refuse, FetchFails, Deliver, Drop, GiveUp, TypeOK
        <4> QED
          BY <4>1 DEF Cached, CityOf
      <3> QED
        BY <3>1, <3>2
    <2> QED
      BY <2>1, <2>2, <2>3 DEF Cached, LateIsCached, CityOf
  <1>6. CASE Refill
    BY <1>6 DEF Refill, Cached, LateIsCached, CityOf, callVars
  <1> QED
    BY <1>0, <1>1, <1>2, <1>3, <1>4, <1>5, <1>6, Steps

-----------------------------------------------------------------------------
(* A call that returned before its deadline is complete: its workers are     *)
(* gone, so no city is held; none was dropped; and they left because the     *)
(* producer had handed out every city.                                       *)
LEMMA Complete == ASSUME IInv PROVE CompleteUnlessExpired
  <1> SUFFICES ASSUME NEW c \in Calls, returned[c], ~expired[c] PROVE collected[c] \cup failed[c] = Positions(c)
    BY DEF CompleteUnlessExpired
  <1>1. \A w \in WorkersOf(c) : at[w] = "done"
    BY DEF IInv, Stopping, NoSendOnClosed
  <1>2. ~jobsOpen[c] /\ sent[c] = Len(Cities[c])
    BY <1>1, Pairs DEF IInv, Stopping
  <1>3. \A w \in WorkersOf(c) : \A p \in 1..sent[c] : ~Holds(w, p)
    BY <1>1 DEF Holds, Busy
  <1>4. 1..sent[c] \subseteq Settled(c) /\ Settled(c) \subseteq 1..sent[c]
    BY <1>3 DEF IInv, EachCityOnce, TypeOK
  <1>5. dropped[c] = {}
    BY DEF IInv, Stopping
  <1> QED
    BY <1>2, <1>4, <1>5 DEF Settled, Positions

LEMMA Inductive == Spec => []IInv
  <1>1. IInv /\ [Next]_vars => IInv'
    BY TypeStep, OnceStep, StopStep, CachedStep DEF IInv
  <1> QED
    BY InitIInv, <1>1, PTL DEF Spec

(* No city is lost by a worker or sent twice, for any number of calls,       *)
(* workers and cities (EachCityOnce).                                        *)
THEOREM NothingLost == Spec => []EachCityOnce
  BY Inductive, PTL DEF IInv

(* Nobody sends on the closed results channel, whenever contexts end.        *)
THEOREM ClosedIsQuiet == Spec => []NoSendOnClosed
  BY Inductive, PTL DEF IInv

(* A call that returns before its context is done has settled every city.    *)
THEOREM AnswersAreComplete == Spec => []CompleteUnlessExpired
  BY Inductive, Complete, PTL

(* A late result is in the cache for the next call.                          *)
THEOREM LateResultsStay == Spec => []LateIsCached
  BY Inductive, PTL DEF IInv, Cached

-----------------------------------------------------------------------------
(* Outcomes that do not change make no step of the promise.                  *)
LEMMA SameOutcome ==
  ASSUME \A c \in Calls : \A p \in Positions(c) : OutcomeAt(c, p)' = OutcomeAt(c, p)
  PROVE  Outcome' = Outcome
  BY DEF Outcome, Positions

(* A step that settles open cities of one unanswered call is a Settle step.  *)
LEMMA SettlesOne ==
  ASSUME NEW c \in Calls, ~returned[c], returned' = returned,
         \A d \in Calls : \A p \in Positions(d) : d # c => OutcomeAt(d, p)' = OutcomeAt(d, p),
         \A p \in Positions(c) : OutcomeAt(c, p) # "open" => OutcomeAt(c, p)' = OutcomeAt(c, p)
  PROVE  Promise!Settle(c)
  <1> DEFINE result == [p \in Positions(c) |-> OutcomeAt(c, p)']
  <1>1. result \in [Positions(c) -> {"open", "found", "lost"}]
    BY DEF OutcomeAt
  <1>2. \A p \in Positions(c) : Outcome[c][p] # "open" => result[p] = Outcome[c][p]
    BY DEF Outcome
  <1>3. Outcome' = [Outcome EXCEPT ![c] = result]
    BY DEF Outcome, Positions
  <1>4. Promise!Positions(c) = Positions(c)
    BY DEF Promise!Positions, Positions
  <1> QED
    BY <1>1, <1>2, <1>3, <1>4 DEF Promise!Settle

(* Every step of the service is a step of the promise or none.               *)
LEMMA PromiseStep ==
  ASSUME IInv, [Next]_vars PROVE [Promise!Next]_<<Outcome, returned>>
  <1> TypeOK /\ EachCityOnce /\ NoSendOnClosed /\ Stopping
    BY DEF IInv
  <1>0. ASSUME \A c \in Calls : \A p \in Positions(c) : OutcomeAt(c, p)' = OutcomeAt(c, p), returned' = returned
        PROVE  UNCHANGED <<Outcome, returned>>
    BY <1>0, SameOutcome DEF Positions
  <1>1. CASE UNCHANGED vars \/ Refill \/ \E c \in Calls : Start(c)
    <2>1. UNCHANGED <<sent, jobsOpen, resultsOpen, collected, failed, dropped, returned>>
      BY <1>1 DEF vars, callVars, Refill, Start
    <2> QED
      BY <1>0, <2>1 DEF OutcomeAt
  <1>2. ASSUME NEW c \in Calls, CloseJobs(c) \/ CloseResults(c) PROVE [Promise!Next]_<<Outcome, returned>>
    <2>1. UNCHANGED <<sent, collected, failed, dropped, returned>>
      BY <1>2 DEF CloseJobs, CloseResults
    <2>2. \A d \in Calls : d # c => jobsOpen'[d] = jobsOpen[d] /\ resultsOpen'[d] = resultsOpen[d]
      BY <1>2 DEF CloseJobs, CloseResults, TypeOK
    <2>3. \A d \in Calls : ~jobsOpen[d] => ~jobsOpen'[d]
      BY <1>2 DEF CloseJobs, CloseResults, TypeOK
    <2>4. \A d \in Calls : ~resultsOpen[d] => ~resultsOpen'[d]
      BY <1>2 DEF CloseJobs, CloseResults, TypeOK
    <2>5. \A d \in Calls : \A p \in Positions(d) : d # c => OutcomeAt(d, p)' = OutcomeAt(d, p)
      BY <2>1, <2>2 DEF OutcomeAt
    <2>6. \A p \in Positions(c) : OutcomeAt(c, p) # "open" => OutcomeAt(c, p)' = OutcomeAt(c, p)
      BY <2>1, <2>3, <2>4 DEF OutcomeAt
    <2>7. CASE ~returned[c]
      BY <2>1, <2>5, <2>6, <2>7, SettlesOne DEF Promise!Next
    <2>8. CASE returned[c]
      <3>1. ~resultsOpen[c] /\ ~resultsOpen'[c]
        BY <2>4, <2>8 DEF Stopping
      <3>2. \A p \in Positions(c) : OutcomeAt(c, p)' = OutcomeAt(c, p)
        BY <2>1, <3>1 DEF OutcomeAt
      <3> QED
        BY <1>0, <2>1, <2>5, <3>2
    <2> QED
      BY <2>7, <2>8
  <1>3. ASSUME NEW c \in Calls, Return(c) PROVE [Promise!Next]_<<Outcome, returned>>
    <2>1. UNCHANGED <<sent, jobsOpen, resultsOpen, collected, failed, dropped>>
      BY <1>3 DEF Return
    <2>2. Outcome' = Outcome
      BY <2>1, SameOutcome DEF OutcomeAt
    <2>3. ~resultsOpen[c] /\ ~returned[c] /\ returned' = [returned EXCEPT ![c] = TRUE]
      BY <1>3 DEF Return
    <2>4. \A p \in Positions(c) : OutcomeAt(c, p) # "open"
      <3> SUFFICES ASSUME NEW p \in Positions(c) PROVE OutcomeAt(c, p) # "open"
        OBVIOUS
      <3>0. p \in Nat /\ p >= 1 /\ sent[c] \in Nat
        BY CitiesAssumption DEF Positions, TypeOK
      <3>1. CASE p > sent[c]
        BY <2>3, <3>1 DEF OutcomeAt
      <3>2. CASE ~(p > sent[c])
        <4>1. p \in 1..sent[c]
          BY <3>0, <3>2
        <4>2. \A w \in WorkersOf(c) : ~Holds(w, p)
          BY <2>3 DEF NoSendOnClosed, Holds, Busy
        <4>3. p \in Settled(c)
          BY <4>1, <4>2 DEF EachCityOnce
        <4> QED
          BY <4>3 DEF Settled, OutcomeAt
      <3> QED
        BY <3>1, <3>2
    <2>5. \A p \in Positions(c) : Outcome[c][p] # "open"
      BY <2>4 DEF Outcome
    <2>6. Promise!Answer(c)
      BY <2>2, <2>3, <2>5 DEF Promise!Answer, Promise!Positions, Positions
    <2> QED
      BY <2>6 DEF Promise!Next
  <1>4. ASSUME NEW c \in Calls, Expire(c) PROVE [Promise!Next]_<<Outcome, returned>>
    BY <1>0, <1>4 DEF Expire, OutcomeAt
  <1>5. ASSUME NEW w \in Workers, HandOut(w) PROVE [Promise!Next]_<<Outcome, returned>>
    <2>1. jobsOpen[w[1]] /\ resultsOpen[w[1]]
      BY <1>5, HandOutStep, Pairs DEF HandOut, NoSendOnClosed
    <2>2. \A c \in Calls : \A p \in Positions(c) : OutcomeAt(c, p)' = OutcomeAt(c, p)
      BY <1>5, <2>1, HandOutStep DEF OutcomeAt
    <2> QED
      BY <1>0, <1>5, <2>2, HandOutStep
  <1>6. ASSUME NEW w \in Workers, Moves(w) PROVE [Promise!Next]_<<Outcome, returned>>
    BY <1>0, <1>6, MoveStep DEF OutcomeAt
  <1>7. ASSUME NEW w \in Workers, Settles(w) PROVE [Promise!Next]_<<Outcome, returned>>
    <2>0. PICK c : c = w[1] /\ c \in Calls /\ w \in WorkersOf(c)
      BY Pairs
    <2>1. ~returned[c]
      BY <1>7, <2>0, SettleStep DEF Stopping, NoSendOnClosed, Busy
    <2>2. UNCHANGED <<job, sent, jobsOpen, resultsOpen, returned>>
      BY <1>7, <2>0, SettleStep
    <2>3. job[w] \in 1..sent[c] /\ job[w] \notin Settled(c) /\ sent[c] \in Nat
      BY <1>7, <2>0, SettleStep DEF EachCityOnce, TypeOK
    <2>4. \/ GiveUp(w, failed) /\ UNCHANGED <<collected, dropped>>
          \/ GiveUp(w, collected) /\ UNCHANGED <<failed, dropped>>
          \/ GiveUp(w, dropped) /\ UNCHANGED <<collected, failed>>
      BY <1>7 DEF Settles, Refuse, FetchFails, Deliver, Drop
    <2>5. \A d \in Calls : d # c => collected'[d] = collected[d] /\ failed'[d] = failed[d] /\ dropped'[d] = dropped[d]
      BY <2>0, <2>4 DEF GiveUp, TypeOK
    <2>6. \A p : p # job[w] => /\ p \in collected'[c] <=> p \in collected[c]
                               /\ p \in failed'[c] <=> p \in failed[c]
                               /\ p \in dropped'[c] <=> p \in dropped[c]
      BY <2>0, <2>4 DEF GiveUp, TypeOK
    <2>7. OutcomeAt(c, job[w]) = "open"
      BY <2>3 DEF OutcomeAt, Settled
    <2>8. \A d \in Calls : \A p \in Positions(d) : d # c => OutcomeAt(d, p)' = OutcomeAt(d, p)
      BY <2>2, <2>5 DEF OutcomeAt
    <2>9. \A p \in Positions(c) : OutcomeAt(c, p) # "open" => OutcomeAt(c, p)' = OutcomeAt(c, p)
      <3> SUFFICES ASSUME NEW p \in Positions(c), OutcomeAt(c, p) # "open" PROVE OutcomeAt(c, p)' = OutcomeAt(c, p)
        OBVIOUS
      <3>1. p # job[w]
        BY <2>7
      <3> QED
        BY <2>2, <2>6, <3>1 DEF OutcomeAt
    <2> QED
      BY <2>0, <2>1, <2>2, <2>8, <2>9, SettlesOne DEF Promise!Next
  <1> QED
    BY <1>1, <1>2, <1>3, <1>4, <1>5, <1>6, <1>7, Steps DEF CallMoves

(* The service keeps the promise of GeocodeCall: each city is settled once,  *)
(* and no call is answered while a city is open.                             *)
THEOREM ServiceKeepsPromise == Spec => KeepsPromise
  <1>1. Init => Promise!Init
    <2> SUFFICES ASSUME Init PROVE Promise!Init
      OBVIOUS
    <2>1. \A c \in Calls : \A p \in Positions(c) : OutcomeAt(c, p) = "open"
      BY DEF Init, OutcomeAt
    <2> QED
      BY <2>1 DEF Init, Promise!Init, Promise!Positions, Positions, Outcome
  <1> QED
    BY <1>1, PromiseStep, Inductive, PTL DEF Spec, KeepsPromise, Promise!Spec
====
