------------------------ MODULE RegistryClientProofs ------------------------
(***************************************************************************)
(* Theorems about the two halves of the registry's client.  DiscoveryCache: *)
(* the cache is safe for every number of providers, questions and          *)
(* concurrent resolves.  Announcer: how long a registration outlives calls *)
(* that come to nothing, for every TTL, latency and timeout.               *)
(***************************************************************************)
EXTENDS DiscoveryCache, Announcer, TLAPS

-----------------------------------------------------------------------------
(* DiscoveryCache.                                                         *)

\* The initial values have their types.
LEMMA InitType == CacheInit => TypeOK
<1> SUFFICES ASSUME CacheInit PROVE TypeOK
  OBVIOUS
<1>1. answer \in [Resolvers -> Answer]
  BY DEF CacheInit, Answer
<1>2. captured \in [Resolvers -> Nat] /\ \A r \in Resolvers : captured[r] <= generation
  BY DEF CacheInit
<1>3. cache \in [Questions -> Answer \cup {Absent}]
  BY DEF CacheInit
<1> QED BY <1>1, <1>2, <1>3 DEF CacheInit, TypeOK

\* Every step keeps every variable in its type, and no resolve captures a
\* generation the cache has not reached.
LEMMA TypeStep == ASSUME TypeOK, [CacheNext]_cacheVars PROVE TypeOK'
<1> USE DEF TypeOK
<1>1. ASSUME NEW id \in Ids, Put(id) PROVE TypeOK'
  BY <1>1 DEF Put, Changed, Entry, client, calls
<1>2. ASSUME NEW id \in Ids, Delete(id) PROVE TypeOK'
  BY <1>2 DEF Delete, Changed, client, calls
<1>3. ASSUME NEW id \in Ids, Expire(id) PROVE TypeOK'
  <2>1. bucket[id] \in Entry /\ [bucket[id] EXCEPT !.state = "expired"] \in Entry
    BY <1>3 DEF Expire, Entry
  <2> QED BY <2>1, <1>3 DEF Expire, client, calls
<1>4. ASSUME NEW id \in Ids, Collect(id) PROVE TypeOK'
  <2>1. bucket[id] \in Entry /\ [bucket[id] EXCEPT !.state = "collected"] \in Entry
    BY <1>4 DEF Collect, Entry
  <2> QED BY <2>1, <1>4 DEF Collect, client, calls
<1>5. ASSUME NEW r \in Resolvers, NEW q \in Questions, Resolve(r, q) PROVE TypeOK'
  <2>1. [id \in Ids |-> Absent] \in Answer
    BY DEF Answer
  <2>2. cache[q] # Absent => cache[q] \in Answer
    OBVIOUS
  <2> QED BY <2>1, <2>2, <1>5 DEF Resolve, Miss, store, client
<1>6. ASSUME NEW r \in Resolvers, ListKeys(r) PROVE TypeOK'
  BY <1>6 DEF ListKeys, store, client
<1>7. ASSUME NEW r \in Resolvers, NEW id \in Ids, ReadKey(r, id) PROVE TypeOK'
  <2>1. Selected(question[r], bucket[id]) \in Contents \cup {Absent}
    BY DEF Selected, Entry
  <2>2. \A x \in Contents \cup {Absent} : [answer[r] EXCEPT ![id] = x] \in Answer
    BY DEF Answer
  <2> QED BY <2>1, <2>2, <1>7 DEF ReadKey, store, client
<1>8. ASSUME NEW r \in Resolvers, Return(r) PROVE TypeOK'
  BY <1>8 DEF Return, ReturnCaching, store
<1>9. ASSUME NEW r \in Resolvers, Fail(r) PROVE TypeOK'
  BY <1>9 DEF Fail, Answer, store, client
<1>10. ASSUME NEW id \in Ids, Deliver(id) PROVE TypeOK'
  BY <1>10 DEF Deliver, Invalidate, calls
<1>11. CASE WatchErrs
  BY <1>11 DEF WatchErrs, Invalidate, store, calls
<1>12. CASE WatchEnds
  BY <1>12 DEF WatchEnds, store, calls
<1>13. CASE UNCHANGED cacheVars
  BY <1>13 DEF cacheVars, store, client, calls
<1> QED
  BY <1>1, <1>2, <1>3, <1>4, <1>5, <1>6, <1>7, <1>8, <1>9, <1>10, <1>11, <1>12, <1>13
  DEF CacheNext, Writer, Resolver, Watch

\* The types hold in every reachable state.
THEOREM TypeCorrect == CacheSpec => []TypeOK
<1>1. TypeOK /\ [CacheNext]_cacheVars => TypeOK'
  BY TypeStep
<1> QED BY InitType, <1>1, PTL DEF CacheSpec

-----------------------------------------------------------------------------
\* The inductive invariant holds to begin with: nothing is cached.
LEMMA CacheInvInit == CacheInit => CacheInv
<1> SUFFICES ASSUME CacheInit PROVE CacheInv
  OBVIOUS
<1>1. TypeOK
  BY InitType
<1>2. InFlightCurrent
  BY DEF CacheInit, InFlightCurrent
<1>3. StaleOnlyWhileUndelivered
  BY DEF CacheInit, StaleOnlyWhileUndelivered
<1>4. StoppedCachesNothing
  BY DEF CacheInit, StoppedCachesNothing
<1> QED BY <1>1, <1>2, <1>3, <1>4 DEF CacheInv

\* A write makes the change of its key undelivered and leaves the others be.
LEMMA ChangedKeepsCacheInv ==
    ASSUME CacheInv, NEW id \in Ids, NEW e, Changed(id, e),
           UNCHANGED <<client, calls>>
    PROVE  InFlightCurrent' /\ StaleOnlyWhileUndelivered' /\ StoppedCachesNothing'
<1> USE DEF CacheInv, client, calls
<1>1. undelivered'[id] # 0
  BY DEF Changed, TypeOK
<1>2. \A other \in Ids \ {id} : bucket'[other] = bucket[other] /\ undelivered'[other] = undelivered[other]
  BY DEF Changed, TypeOK
<1>3. InFlightCurrent'
  BY <1>1, <1>2 DEF InFlightCurrent, Current, Selected, TypeOK
<1>4. StaleOnlyWhileUndelivered'
  BY <1>1, <1>2 DEF StaleOnlyWhileUndelivered, Current, Selected
<1>5. StoppedCachesNothing'
  BY DEF StoppedCachesNothing
<1> QED BY <1>3, <1>4, <1>5

\* An entry that stops being live without being written stays current: what
\* a cached answer says of it is still what was last written.
LEMMA LapseKeepsCacheInv ==
    ASSUME CacheInv, NEW id \in Ids, bucket[id] # Absent,
           NEW s \in {"expired", "collected"},
           bucket' = [bucket EXCEPT ![id].state = s],
           UNCHANGED <<writes, undelivered, client, calls>>
    PROVE  InFlightCurrent' /\ StaleOnlyWhileUndelivered' /\ StoppedCachesNothing'
<1> USE DEF CacheInv, client, calls
<1>1. /\ bucket'[id].val = bucket[id].val /\ bucket'[id].state = s
      /\ bucket'[id] # Absent
  BY AbsentAssumption DEF TypeOK, Entry
<1>2. \A other \in Ids \ {id} : bucket'[other] = bucket[other]
  BY DEF TypeOK
<1>3. \A x, q : \A other \in Ids : Current(x, q, other) => Current(x, q, other)'
  BY <1>1, <1>2 DEF Current, Selected
<1>4. InFlightCurrent'
  BY <1>3 DEF InFlightCurrent, TypeOK
<1>5. StaleOnlyWhileUndelivered'
  BY <1>3 DEF StaleOnlyWhileUndelivered
<1>6. StoppedCachesNothing'
  BY DEF StoppedCachesNothing
<1> QED BY <1>4, <1>5, <1>6

\* An invalidation empties the cache and outdates every resolve in flight.
LEMMA InvalidateKeepsCacheInv ==
    ASSUME CacheInv, Invalidate, UNCHANGED <<stopped, calls>>
    PROVE  InFlightCurrent' /\ StaleOnlyWhileUndelivered' /\ StoppedCachesNothing'
<1> USE DEF CacheInv, Invalidate, calls
<1>1. \A r \in Resolvers : captured'[r] # generation'
  BY DEF TypeOK
<1>2. \A q \in Questions : cache'[q] = Absent
  OBVIOUS
<1>3. InFlightCurrent'
  BY <1>1 DEF InFlightCurrent
<1>4. StaleOnlyWhileUndelivered'
  BY <1>2 DEF StaleOnlyWhileUndelivered
<1>5. StoppedCachesNothing'
  BY <1>2 DEF StoppedCachesNothing
<1> QED BY <1>3, <1>4, <1>5

\* One get: what it adds to the answer is current, and what it fails to add
\* is missing only from an entry that cannot be read.
LEMMA ReadKeyKeepsCacheInv ==
    ASSUME CacheInv, NEW r \in Resolvers, NEW id \in Ids, ReadKey(r, id)
    PROVE  InFlightCurrent' /\ StaleOnlyWhileUndelivered' /\ StoppedCachesNothing'
<1> USE DEF CacheInv, store, client
<1>1. Current(answer'[r][id], question[r], id)
  <2>1. \/ answer'[r][id] = Selected(question[r], bucket[id])
        \/ answer'[r][id] = Absent /\ id \in Unreadable
    <3>1. answer[r][id] = Absent
      BY DEF ReadKey, InFlightCurrent, TypeOK
    <3> QED BY <3>1 DEF ReadKey, TypeOK, Answer
  <2> QED BY <2>1 DEF Current, Selected
<1>2. \A other \in Ids \ {id} : answer'[r][other] = answer[r][other]
  BY DEF ReadKey, TypeOK, Answer
<1>3. \A s \in Resolvers \ {r} : answer'[s] = answer[s] /\ todo'[s] = todo[s]
  BY DEF ReadKey, TypeOK
<1>4. todo'[r] = todo[r] \ {id}
  BY DEF ReadKey, TypeOK
<1>5. \A x, q : \A other \in Ids : Current(x, q, other) <=> Current(x, q, other)'
  BY DEF ReadKey, Current, Selected
<1>6. InFlightCurrent'
  BY <1>1, <1>2, <1>3, <1>4, <1>5 DEF ReadKey, InFlightCurrent, TypeOK
<1>7. StaleOnlyWhileUndelivered'
  BY <1>5 DEF ReadKey, StaleOnlyWhileUndelivered
<1>8. StoppedCachesNothing'
  BY DEF ReadKey, StoppedCachesNothing
<1> QED BY <1>6, <1>7, <1>8

\* The insertion: what is cached is what the resolve has, which is current
\* because the generation still stands and no key is left to get.
LEMMA ReturnKeepsCacheInv ==
    ASSUME CacheInv, NEW r \in Resolvers, Return(r)
    PROVE  InFlightCurrent' /\ StaleOnlyWhileUndelivered' /\ StoppedCachesNothing'
<1> USE DEF CacheInv, Return, ReturnCaching, store
<1>1. \A x, q : \A other \in Ids : Current(x, q, other) <=> Current(x, q, other)'
  BY DEF Current, Selected
<1>2. InFlightCurrent'
  BY <1>1 DEF InFlightCurrent, TypeOK
<1>3. StaleOnlyWhileUndelivered'
  <2> SUFFICES ASSUME NEW q \in Questions, NEW id \in Ids,
                      cache'[q] # Absent, undelivered[id] = 0
               PROVE  Current(cache'[q][id], q, id)
    BY <1>1 DEF StaleOnlyWhileUndelivered
  <2>1. CASE cache'[q] = cache[q]
    BY <2>1 DEF StaleOnlyWhileUndelivered
  <2>2. CASE cache'[q] # cache[q]
    <3>1. q = question[r] /\ cache'[q] = answer[r] /\ generation = captured[r]
      BY <2>2 DEF TypeOK
    <3> QED BY <3>1 DEF InFlightCurrent
  <2> QED BY <2>1, <2>2
<1>4. StoppedCachesNothing'
  BY DEF StoppedCachesNothing
<1> QED BY <1>2, <1>3, <1>4

\* The inductive invariant is preserved by every step.
LEMMA CacheInvStep == ASSUME CacheInv, [CacheNext]_cacheVars PROVE CacheInv'
<1> DEFINE Goal == InFlightCurrent' /\ StaleOnlyWhileUndelivered' /\ StoppedCachesNothing'
<1>1. TypeOK'
  BY TypeStep DEF CacheInv
<1>2. ASSUME UNCHANGED <<store, client, question, captured>> PROVE
        /\ \A x, q : \A id \in Ids : Current(x, q, id) <=> Current(x, q, id)'
        /\ StaleOnlyWhileUndelivered' /\ StoppedCachesNothing'
  BY <1>2 DEF store, client, Current, Selected, CacheInv,
              StaleOnlyWhileUndelivered, StoppedCachesNothing
<1>3. ASSUME NEW id \in Ids, Put(id) PROVE Goal
  BY <1>3, ChangedKeepsCacheInv DEF Put
<1>4. ASSUME NEW id \in Ids, Delete(id) PROVE Goal
  BY <1>4, ChangedKeepsCacheInv DEF Delete
<1>5. ASSUME NEW id \in Ids, Expire(id) PROVE Goal
  BY <1>5, LapseKeepsCacheInv DEF Expire
<1>6. ASSUME NEW id \in Ids, Collect(id) PROVE Goal
  BY <1>6, LapseKeepsCacheInv DEF Collect
<1>7. ASSUME NEW r \in Resolvers, NEW q \in Questions, Resolve(r, q) PROVE Goal
  <2> USE DEF Resolve, Miss, CacheInv, store, client
  <2>1. \A x, p : \A id \in Ids : Current(x, p, id) <=> Current(x, p, id)'
    BY <1>7 DEF Current, Selected
  <2>2. InFlightCurrent'
    BY <1>7, <2>1 DEF InFlightCurrent, TypeOK
  <2>3. StaleOnlyWhileUndelivered' /\ StoppedCachesNothing'
    BY <1>7, <2>1 DEF StaleOnlyWhileUndelivered, StoppedCachesNothing
  <2> QED BY <2>2, <2>3
<1>8. ASSUME NEW r \in Resolvers, ListKeys(r) PROVE Goal
  <2> USE DEF ListKeys, CacheInv
  <2>1. \A id \in Ids \ todo'[r] : answer[r][id] = Absent => Current(answer[r][id], question[r], id)
    BY <1>8 DEF Current, Selected, Present, TypeOK
  <2>2. InFlightCurrent'
    BY <1>2, <1>8, <2>1 DEF InFlightCurrent, TypeOK, store, client
  <2> QED BY <1>2, <1>8, <2>2
<1>9. ASSUME NEW r \in Resolvers, NEW id \in Ids, ReadKey(r, id) PROVE Goal
  BY <1>9, ReadKeyKeepsCacheInv
<1>10. ASSUME NEW r \in Resolvers, Return(r) PROVE Goal
  BY <1>10, ReturnKeepsCacheInv
<1>11. ASSUME NEW r \in Resolvers, Fail(r) PROVE Goal
  <2>1. InFlightCurrent'
    BY <1>2, <1>11 DEF Fail, InFlightCurrent, CacheInv, TypeOK, store, client
  <2> QED BY <1>2, <1>11, <2>1 DEF Fail
<1>12. ASSUME NEW id \in Ids, Deliver(id) PROVE Goal
  BY <1>12, InvalidateKeepsCacheInv DEF Deliver
<1>13. ASSUME WatchErrs PROVE Goal
  BY <1>13, InvalidateKeepsCacheInv DEF WatchErrs
<1>14. ASSUME WatchEnds PROVE Goal
  <2>1. InFlightCurrent'
    BY <1>14 DEF WatchEnds, InFlightCurrent, Current, Selected, CacheInv, store, calls
  <2>2. StaleOnlyWhileUndelivered' /\ StoppedCachesNothing'
    BY <1>14 DEF WatchEnds, StaleOnlyWhileUndelivered, StoppedCachesNothing
  <2> QED BY <2>1, <2>2
<1>15. ASSUME UNCHANGED cacheVars PROVE Goal
  <2>1. InFlightCurrent'
    BY <1>2, <1>15 DEF cacheVars, calls, store, client, InFlightCurrent, CacheInv
  <2> QED BY <1>2, <1>15, <2>1 DEF cacheVars, calls
<1> QED
  BY <1>1, <1>3, <1>4, <1>5, <1>6, <1>7, <1>8, <1>9, <1>10, <1>11, <1>12, <1>13,
     <1>14, <1>15 DEF CacheNext, Writer, Resolver, Watch, CacheInv

\* The inductive invariant holds in every reachable state.
LEMMA CacheInvariant == CacheSpec => []CacheInv
<1>1. CacheInv /\ [CacheNext]_cacheVars => CacheInv'
  BY CacheInvStep
<1> QED BY CacheInvInit, <1>1, PTL DEF CacheSpec

\* Whatever writes, reads and deliveries interleave, a cached answer is wrong
\* about a provider only while the watch has a change of it to deliver.
THEOREM CacheFreshness == CacheSpec => []StaleOnlyWhileUndelivered
<1>1. CacheInv => StaleOnlyWhileUndelivered
  BY DEF CacheInv
<1> QED BY CacheInvariant, <1>1, PTL

\* A client whose watch has ended never caches again.
THEOREM NothingCachedOnceStopped == CacheSpec => []StoppedCachesNothing
<1>1. CacheInv => StoppedCachesNothing
  BY DEF CacheInv
<1> QED BY CacheInvariant, <1>1, PTL

-----------------------------------------------------------------------------
(* Announcer.                                                              *)

\* The longest between two beats, and the longest a reply takes.
Pause == Larger(Interval, CallTimeout)
Delay == Smaller(Latency, CallTimeout)

\* What n calls in a row that fail may cost.
Spare(n) == n * Pause

\* How long the call after those may take to be served: one that can neither
\* fail nor be late is served within the latency.
Grace(n) == IF n = MaxFailures /\ Latency < CallTimeout THEN Latency ELSE CallTimeout

\* A TTL that n of them do not use up, whenever they come.
LongEnough(n) == Ttl > Interval + Spare(n) + Grace(n) + Delay

-----------------------------------------------------------------------------
(* The invariant.                                                          *)

Types ==
    /\ left \in Int /\ left >= 0 /\ left <= Ttl
    /\ rival \in BOOLEAN /\ removed \in BOOLEAN
    /\ main \in {"start", "registering", "held", "deregistering", "gone"}
    /\ beat \in {"off", "waiting", "beating", "announcing"}
    /\ due \in Int /\ due <= Interval
    /\ call \in [Tasks -> Call \cup {None}]
    /\ orphans \subseteq Kinds
    /\ failures \in 0..(MaxFailures + 1)

\* Which call each task is in, where it is; no call is late, nor older than
\* the await of it.
MainCalls ==
    /\ main \in {"start", "held", "gone"} => call["main"] = None
    /\ main = "start" => beat = "off"
    /\ main = "registering" => call["main"] # None /\ call["main"].kind = "register" /\ beat = "off"
    /\ main = "deregistering" => call["main"] # None /\ call["main"].kind = "deregister"
    /\ main = "held" => beat # "off"
    /\ main # "gone" => "deregister" \notin orphans

BeatCalls ==
    /\ beat \in {"off", "waiting"} => call["beat"] = None
    /\ beat = "beating" => call["beat"] # None /\ call["beat"].kind = "heartbeat"
    /\ beat = "announcing" => call["beat"] # None /\ call["beat"].kind = "register"

Prompt == \A t \in Tasks : call[t] # None /\ call[t].phase # "failed" => call[t].age <= Latency

\* The registry lets no rival in beside a live entry.
Alone == Live => ~rival

\* Who is answered finds the entry no older than the answer, if there is one.
FreshOf(t) ==
    call[t] # None /\ call[t].phase = "answered" /\ (call[t].reply = "ok" \/ Live) =>
        left >= Ttl - call[t].age

Fresh == main \in {"registering", "held"} => \A t \in Tasks : FreshOf(t)

\* Whatever is to come, up to n calls in a row that fail, the entry lasts
\* until one is answered: an entry of l seconds, before a beat in d seconds
\* and m calls in a row that failed, and during the call of age a.
Lasts(n, l, d, m) == l > Larger(d, 0) + Spare(n - m) + Grace(n)

LastsThrough(n, l, d, m, a) ==
    IF m = n THEN l > Grace(n) - a
    ELSE l > Larger(CallTimeout - a, d) + Spare(n - m - 1) + Grace(n)

Covered(n) ==
    Live /\ main = "held" /\ failures <= n =>
        /\ beat = "waiting" => Lasts(n, left, due, failures)
        /\ beat # "waiting" /\ call["beat"].phase # "answered" =>
              LastsThrough(n, left, due, failures, call["beat"].age)

\* In a network that is faster than the timeout, nothing fails by being late.
OnlyChosenFail ==
    Latency < CallTimeout /\ main \in {"start", "registering", "held"} =>
        /\ failures <= MaxFailures
        /\ \A t \in Tasks : call[t] # None /\ call[t].phase = "failed" => failures < MaxFailures

AnnouncerInv == Types /\ MainCalls /\ BeatCalls /\ Prompt /\ Alone /\ Fresh

-----------------------------------------------------------------------------
(* Numbers.                                                                *)

LEMMA Numbers ==
    /\ CallTimeout \in Int /\ CallTimeout >= 1 /\ Latency \in Int /\ Latency >= 0
    /\ MaxFailures \in Nat /\ MaxLag \in Int /\ MaxLag >= 0
    /\ Interval \in Int /\ Interval >= 1
    /\ Ttl \in Int /\ Ttl >= 1
    /\ Pause \in Int /\ Pause >= Interval /\ Pause >= CallTimeout
    /\ Delay \in Int /\ Delay >= 0 /\ Delay = Smaller(Latency, CallTimeout)
<1>1. Interval \in Int /\ Interval >= 1
  <2>1. Proposed \div 3 \in Int
    BY TtlAssumption
  <2> QED
    BY <2>1 DEF Interval, Larger
<1>2. Ttl \in Int /\ Ttl >= 1
  BY TtlAssumption DEF Ttl, Larger, Smaller
<1>3. Pause \in Int /\ Pause >= Interval /\ Pause >= CallTimeout
  BY <1>1, TtlAssumption DEF Pause, Larger
<1> QED
  BY <1>1, <1>2, <1>3, TtlAssumption DEF Delay, Smaller

LEMMA Spares ==
    /\ Spare(0) = 0
    /\ \A n \in Nat : Spare(n) \in Int /\ Spare(n) >= 0 /\ Spare(n + 1) = Spare(n) + Pause
<1>1. Pause \in Nat
  BY Numbers
<1>2. Spare(0) = 0
  BY <1>1 DEF Spare
<1>3. ASSUME NEW n \in Nat PROVE Spare(n) \in Int /\ Spare(n) >= 0 /\ Spare(n + 1) = Spare(n) + Pause
  <2> DEFINE p == Pause
  <2>1. p \in Nat
    BY <1>1
  <2> HIDE DEF p
  <2>2. n * p \in Int /\ n * p >= 0 /\ (n + 1) * p = n * p + p
    BY <2>1
  <2> QED
    BY <2>2 DEF Spare, p
<1> QED
  BY <1>2, <1>3

-----------------------------------------------------------------------------
(* The invariant is kept.                                                  *)

LEMMA CallFacts ==
    ASSUME Types, NEW t \in Tasks, call[t] # None
    PROVE  /\ call[t] \in Call /\ call[t].kind \in Kinds
           /\ call[t].phase \in {"sent", "failed", "answered"}
           /\ call[t].reply \in {"ok", "conflict", "not-found", None}
           /\ call[t].age \in Int /\ call[t].age >= 0 /\ call[t].age <= CallTimeout
<1>1. call[t] \in Call
  BY DEF Types
<1> QED
  BY <1>1, Numbers DEF Call

\* A call that a task begins, and the others as they were.
LEMMA Asked ==
    ASSUME Types, NEW t \in Tasks, NEW kind \in Kinds, Ask(t, kind)
    PROVE  /\ call' \in [Tasks -> Call \cup {None}]
           /\ call'[t] # None /\ call'[t].kind = kind /\ call'[t].phase = "sent" /\ call'[t].age = 0
           /\ \A u \in Tasks \ {t} : call'[u] = call[u]
<1> DEFINE c == [kind |-> kind, phase |-> "sent", reply |-> None, age |-> 0]
<1>1. c \in Call
  BY Numbers DEF Call
<1>2. c # None
  BY <1>1, NoneAssumption
<1>3. call' = [call EXCEPT ![t] = c]
  BY DEF Ask
<1>4. c.kind = kind /\ c.phase = "sent" /\ c.age = 0
  OBVIOUS
<1> HIDE DEF c
<1> QED
  BY <1>1, <1>2, <1>3, <1>4 DEF Types

\* A task that awaits its call no longer.
LEMMA Ended ==
    ASSUME Types, NEW t \in Tasks, call' = [call EXCEPT ![t] = None]
    PROVE  /\ call' \in [Tasks -> Call \cup {None}] /\ call'[t] = None
           /\ \A u \in Tasks \ {t} : call'[u] = call[u]
BY DEF Types

\* What serving a request makes of the entry.
LEMMA Applied ==
    ASSUME Types, Alone, NEW kind \in Kinds, Apply(kind)
    PROVE  /\ left' \in Int /\ left' >= 0 /\ left' <= Ttl
           /\ kind # "deregister" => left' = Ttl \/ left' = left
           /\ kind # "deregister" /\ ReplyTo(kind) = "ok" => left' = Ttl
           /\ kind # "deregister" /\ ReplyTo(kind) # "ok" => left' = left /\ ~Live
           /\ kind = "register" /\ rival => left' = left
           /\ kind = "deregister" => left' = 0
           /\ kind \in {"deregister", "heartbeat"} /\ ~Live => left' = left
           /\ ReplyTo(kind) \in {"ok", "conflict", "not-found"}
BY Numbers DEF Types, Alone, Apply, ReplyTo, Register, OfLive, Live, Kinds

LEMMA InitStep == Init => AnnouncerInv
<1> SUFFICES ASSUME Init PROVE AnnouncerInv
  OBVIOUS
<1>1. Types
  <2>1. call \in [Tasks -> Call \cup {None}]
    BY DEF Init
  <2>2. failures \in 0..(MaxFailures + 1) /\ due <= Interval /\ left <= Ttl /\ due \in Int /\ left \in Int
    BY Numbers DEF Init
  <2>3. rival \in BOOLEAN /\ removed \in BOOLEAN
    BY DEF Init
  <2>4. left >= 0 /\ main = "start" /\ beat = "off" /\ orphans \subseteq Kinds
    BY DEF Init
  <2> QED
    BY <2>1, <2>2, <2>3, <2>4 DEF Types
<1>2. call["main"] = None /\ call["beat"] = None /\ \A t \in Tasks : call[t] = None
  BY DEF Init, Tasks
<1> QED
  BY <1>1, <1>2 DEF Init, AnnouncerInv, MainCalls, BeatCalls, Prompt, Alone, Fresh, Live

LEMMA ServeStep ==
    ASSUME AnnouncerInv, NEW t \in Tasks, Serve(t)
    PROVE  AnnouncerInv'
<1> USE DEF AnnouncerInv
<1> DEFINE kind == call[t].kind
<1>1. call[t] # None /\ call[t].phase = "sent" /\ kind \in Kinds /\ Apply(kind)
  BY CallFacts DEF Serve
<1>2. /\ left' \in Int /\ left' >= 0 /\ left' <= Ttl
      /\ kind # "deregister" => left' = Ttl \/ left' = left
      /\ kind # "deregister" /\ ReplyTo(kind) = "ok" => left' = Ttl
      /\ kind # "deregister" /\ ReplyTo(kind) # "ok" => left' = left /\ ~Live
      /\ kind = "register" /\ rival => left' = left
      /\ kind = "deregister" => left' = 0
      /\ kind \in {"deregister", "heartbeat"} /\ ~Live => left' = left
      /\ ReplyTo(kind) \in {"ok", "conflict", "not-found"}
  <2> HIDE DEF kind
  <2> QED
    BY <1>1, Applied
<1>3. /\ call'[t] \in Call /\ call'[t] # None /\ call'[t].kind = kind /\ call'[t].phase = "answered"
      /\ call'[t].reply = ReplyTo(kind) /\ call'[t].age = call[t].age
      /\ \A u \in Tasks \ {t} : call'[u] = call[u]
      /\ call' \in [Tasks -> Call \cup {None}]
  <2>1. call[t] \in [kind : Kinds, phase : {"sent", "failed", "answered"},
                     reply : {"ok", "conflict", "not-found", None}, age : 0..CallTimeout]
    BY <1>1, CallFacts DEF Call
  <2>2. call' = [call EXCEPT ![t] = [[call[t] EXCEPT !.phase = "answered"] EXCEPT !.reply = ReplyTo(kind)]]
    BY DEF Serve, Types
  <2> DEFINE c == [[call[t] EXCEPT !.phase = "answered"] EXCEPT !.reply = ReplyTo(kind)]
  <2>3. c.kind = kind /\ c.phase = "answered" /\ c.reply = ReplyTo(kind) /\ c.age = call[t].age
    BY <2>1
  <2>4. c \in Call
    BY <2>1, <1>2 DEF Call
  <2>5. c # None
    BY <2>4, NoneAssumption
  <2> HIDE DEF c, kind
  <2>6. call' = [call EXCEPT ![t] = c]
    BY <2>2 DEF c, kind
  <2> QED
    BY <2>3, <2>4, <2>5, <2>6 DEF Types
<1>4. UNCHANGED <<rival, main, beat, due, orphans, failures, removed>>
  BY DEF Serve
<1> HIDE DEF kind
<1>5. Types'
  BY <1>2, <1>3, <1>4 DEF Types
<1>6. MainCalls' /\ BeatCalls'
  <2>1. kind = call[t].kind
    BY DEF kind
  <2>2. t = "main" \/ t = "beat"
    BY DEF Tasks
  <2>3. \A u \in Tasks : (call'[u] = None <=> call[u] = None) /\ (call[u] # None => call'[u].kind = call[u].kind)
    BY <1>1, <1>3, <2>1
  <2> QED
    BY <1>4, <2>3 DEF MainCalls, BeatCalls, Tasks
<1>7. Prompt'
  <2> SUFFICES ASSUME NEW u \in Tasks, call'[u] # None, call'[u].phase # "failed" PROVE call'[u].age <= Latency
    BY DEF Prompt
  <2>1. call[u] # None /\ call[u].phase # "failed" /\ call'[u].age = call[u].age
    BY <1>1, <1>3
  <2> QED
    BY <2>1 DEF Prompt
<1>8. Alone'
  <2>1. kind = "register" \/ kind = "heartbeat" \/ kind = "deregister"
    BY <1>1 DEF Kinds, kind
  <2> QED
    BY <1>2, <1>4, <2>1, Numbers DEF Alone, Live, Types
<1>9. Fresh'
  <2> SUFFICES ASSUME main \in {"registering", "held"}, NEW u \in Tasks, call'[u] # None,
                      call'[u].phase = "answered", call'[u].reply = "ok" \/ left' > 0
               PROVE  left' >= Ttl - call'[u].age
    BY <1>4 DEF Fresh, FreshOf, Live
  <2>1. kind # "deregister"
    BY <1>1 DEF kind, MainCalls, BeatCalls, Tasks, Types
  <2>2. call'[u].age \in Int /\ call'[u].age >= 0
    BY <1>5, CallFacts, Numbers DEF Types, Call
  <2>3. CASE left' = Ttl
    BY <2>2, <2>3, Numbers
  <2>4. CASE left' # Ttl
    <3>1. left' = left /\ ~Live /\ ReplyTo(kind) # "ok"
      BY <1>2, <2>1, <2>4
    <3>2. u # t
      BY <1>3, <3>1 DEF Live, Types
    <3> QED
      BY <1>3, <3>1, <3>2 DEF Fresh, FreshOf, Live
  <2> QED
    BY <2>3, <2>4
<1> QED
  BY <1>5, <1>6, <1>7, <1>8, <1>9

LEMMA ServeOrphanStep ==
    ASSUME AnnouncerInv, NEW kind \in Kinds, ServeOrphan(kind)
    PROVE  AnnouncerInv'
<1> USE DEF AnnouncerInv
<1>1. Apply(kind) /\ kind \in orphans /\ orphans' = orphans \ {kind}
      /\ UNCHANGED <<rival, main, beat, due, call, failures, removed>>
  BY DEF ServeOrphan
<1>2. /\ left' \in Int /\ left' >= 0 /\ left' <= Ttl
      /\ kind # "deregister" => left' = Ttl \/ left' = left
      /\ kind # "deregister" /\ ReplyTo(kind) # "ok" => left' = left /\ ~Live
      /\ kind = "register" /\ rival => left' = left
      /\ kind = "deregister" => left' = 0
      /\ kind \in {"deregister", "heartbeat"} /\ ~Live => left' = left
  BY <1>1, Applied
<1>3. Types'
  BY <1>1, <1>2 DEF Types
<1>4. MainCalls' /\ BeatCalls' /\ Prompt'
  BY <1>1 DEF MainCalls, BeatCalls, Prompt
<1>5. Alone'
  BY <1>1, <1>2, Numbers DEF Alone, Live, Types, Kinds
<1>6. Fresh'
  <2> SUFFICES ASSUME main \in {"registering", "held"}, NEW u \in Tasks, call[u] # None,
                      call[u].phase = "answered", call[u].reply = "ok" \/ left' > 0
               PROVE  left' >= Ttl - call[u].age
    BY <1>1 DEF Fresh, FreshOf, Live
  <2>1. kind # "deregister"
    BY <1>1 DEF MainCalls
  <2>2. call[u].age \in Int /\ call[u].age >= 0
    BY CallFacts
  <2>3. CASE left' = Ttl
    BY <2>2, <2>3, Numbers
  <2>4. CASE left' # Ttl
    <3>1. left' = left
      BY <1>2, <2>1, <2>4
    <3> QED
      BY <3>1 DEF Fresh, FreshOf, Live
  <2> QED
    BY <2>3, <2>4
<1> QED
  BY <1>3, <1>4, <1>5, <1>6

LEMMA LoseOrphanStep ==
    ASSUME AnnouncerInv, NEW kind \in Kinds, LoseOrphan(kind)
    PROVE  AnnouncerInv'
BY DEF LoseOrphan, AnnouncerInv, Types, MainCalls, BeatCalls, Prompt, Alone, Fresh, FreshOf, Live

\* A call that fails stays a call, of the same kind and age.
LEMMA Fails ==
    ASSUME Types, NEW t \in Tasks, Falter(t)
    PROVE  /\ call' \in [Tasks -> Call \cup {None}] /\ call[t] # None
           /\ call'[t] # None /\ call'[t].kind = call[t].kind
           /\ call'[t].phase = "failed" /\ call'[t].age = call[t].age
           /\ \A u \in Tasks \ {t} : call'[u] = call[u]
<1>1. call[t] # None /\ call[t] \in [kind : Kinds, phase : {"sent", "failed", "answered"},
                    reply : {"ok", "conflict", "not-found", None}, age : 0..CallTimeout]
  BY CallFacts DEF Call, Falter
<1> DEFINE c == [call[t] EXCEPT !.phase = "failed"]
<1>2. call' = [call EXCEPT ![t] = c]
  BY DEF Falter, Types
<1>3. c.kind = call[t].kind /\ c.phase = "failed" /\ c.age = call[t].age
  BY <1>1
<1>4. c \in Call
  BY <1>1 DEF Call
<1>5. c # None
  BY <1>4, NoneAssumption
<1> HIDE DEF c
<1> QED
  BY <1>1, <1>2, <1>3, <1>4, <1>5 DEF Types

LEMMA FailStep ==
    ASSUME AnnouncerInv, NEW t \in Tasks, Falter(t)
    PROVE  AnnouncerInv'
<1> USE DEF AnnouncerInv
<1>1. /\ call' \in [Tasks -> Call \cup {None}] /\ call[t] # None
      /\ call'[t] # None /\ call'[t].kind = call[t].kind
      /\ call'[t].phase = "failed" /\ call'[t].age = call[t].age
      /\ \A u \in Tasks \ {t} : call'[u] = call[u]
  BY Fails
<1>2. UNCHANGED <<left, rival, main, beat, due, orphans, failures, removed>>
  BY DEF Falter
<1>3. Types'
  BY <1>1, <1>2 DEF Types
<1>4. \A u \in Tasks : (call'[u] = None <=> call[u] = None) /\ (call[u] # None => call'[u].kind = call[u].kind)
  BY <1>1
<1>5. MainCalls' /\ BeatCalls'
  BY <1>2, <1>4 DEF MainCalls, BeatCalls, Tasks
<1>6. Prompt' /\ Fresh' /\ Alone'
  BY <1>1, <1>2 DEF Prompt, Fresh, FreshOf, Alone, Live
<1> QED
  BY <1>3, <1>5, <1>6

LEMMA StartRegisterStep ==
    ASSUME AnnouncerInv, StartRegister
    PROVE  AnnouncerInv'
<1> USE DEF AnnouncerInv
<1>1. /\ call' \in [Tasks -> Call \cup {None}]
      /\ call'["main"] # None /\ call'["main"].kind = "register" /\ call'["main"].phase = "sent" /\ call'["main"].age = 0
      /\ \A u \in Tasks \ {"main"} : call'[u] = call[u]
  BY Asked DEF StartRegister, Tasks, Kinds
<1>2. main = "start" /\ main' = "registering" /\ UNCHANGED <<left, rival, beat, due, orphans, failures, removed>>
  BY DEF StartRegister
<1>3. Types' /\ Alone'
  BY <1>1, <1>2 DEF Types, Alone, Live
<1>4. BeatCalls' /\ Prompt'
  BY <1>1, <1>2, Numbers DEF BeatCalls, Prompt, Tasks
<1>5. MainCalls'
  BY <1>1, <1>2 DEF MainCalls, Tasks
<1>6. Fresh'
  <2>1. call["beat"] = None
    BY <1>2 DEF MainCalls, BeatCalls
  <2> QED
    BY <1>1, <2>1 DEF Fresh, FreshOf, Tasks
<1> QED
  BY <1>3, <1>4, <1>5, <1>6

LEMMA RegisteredStep ==
    ASSUME AnnouncerInv, Registered
    PROVE  AnnouncerInv'
<1> USE DEF AnnouncerInv
<1>1. /\ call' \in [Tasks -> Call \cup {None}] /\ call'["main"] = None
      /\ \A u \in Tasks \ {"main"} : call'[u] = call[u]
  BY Ended DEF Registered, Tasks
<1>2. /\ main = "registering" /\ main' = "held" /\ beat' = "waiting" /\ due' = Interval
      /\ failures' = 0 /\ UNCHANGED <<left, rival, removed, orphans>>
  BY DEF Registered, Answered
<1>3. Types'
  BY <1>1, <1>2, Numbers DEF Types
<1>4. call'["beat"] = None
  BY <1>1, <1>2 DEF MainCalls, BeatCalls, Tasks
<1>5. \A u \in Tasks : call'[u] = None
  BY <1>1, <1>4 DEF Tasks
<1> QED
  BY <1>1, <1>2, <1>3, <1>4, <1>5 DEF MainCalls, BeatCalls, Prompt, Alone, Live, Fresh, FreshOf

\* What giving up a call leaves behind.
LEMMA Abandons ==
    ASSUME Types, NEW t \in Tasks
    PROVE  Abandoned(t) \subseteq Kinds
           /\ (call[t] # None => Abandoned(t) \subseteq {call[t].kind}) /\ (call[t] = None => Abandoned(t) = {})
BY CallFacts DEF Abandoned

\* However a call ends.
LEMMA EndOfCall ==
    ASSUME Types, NEW t \in Tasks, NEW kind, (\E r : Answered(t, kind, r)) \/ Failed(t, kind)
    PROVE  /\ failures' \in 0..(MaxFailures + 1) /\ orphans' \subseteq Kinds /\ orphans \subseteq orphans'
           /\ orphans' \subseteq orphans \cup {kind} /\ call[t] # None /\ call[t].kind = kind
<1>1. CASE \E r : Answered(t, kind, r)
  BY <1>1, Numbers DEF Answered, Types
<1>2. CASE Failed(t, kind)
  <2>1. failures' \in 0..(MaxFailures + 1)
    BY <1>2, Numbers DEF Failed, Smaller, Types
  <2>2. call[t] # None /\ call[t].kind = kind /\ orphans' = orphans \cup Abandoned(t)
    BY <1>2 DEF Failed
  <2> QED
    BY <2>1, <2>2, Abandons DEF Types
<1> QED
  BY <1>1, <1>2

LEMMA RegisterFailsStep ==
    ASSUME AnnouncerInv, RegisterFails
    PROVE  AnnouncerInv'
<1> USE DEF AnnouncerInv
<1>1. /\ call' \in [Tasks -> Call \cup {None}] /\ call'["main"] = None
      /\ \A u \in Tasks \ {"main"} : call'[u] = call[u]
  BY Ended DEF RegisterFails, Tasks
<1>2. (\E r : Answered("main", "register", r)) \/ Failed("main", "register")
  BY DEF RegisterFails
<1>3. failures' \in 0..(MaxFailures + 1) /\ orphans' \subseteq Kinds
  BY <1>2, EndOfCall DEF Tasks
<1>4. main' = "gone" /\ UNCHANGED <<left, rival, beat, due, removed>>
  BY DEF RegisterFails
<1>5. Types'
  BY <1>1, <1>3, <1>4 DEF Types
<1>6. MainCalls' /\ BeatCalls'
  BY <1>1, <1>4 DEF MainCalls, BeatCalls, Tasks
<1> QED
  BY <1>1, <1>4, <1>5, <1>6 DEF Prompt, Alone, Live, Fresh

LEMMA StartDeregisterStep ==
    ASSUME AnnouncerInv, StartDeregister
    PROVE  AnnouncerInv'
<1> USE DEF AnnouncerInv
<1>1. /\ call' \in [Tasks -> Call \cup {None}]
      /\ call'["main"] # None /\ call'["main"].kind = "deregister" /\ call'["main"].phase = "sent" /\ call'["main"].age = 0
      /\ \A u \in Tasks \ {"main"} : call'[u] = call[u]
  BY Asked DEF StartDeregister, Tasks, Kinds
<1>2. main = "held" /\ main' = "deregistering" /\ UNCHANGED <<left, rival, beat, due, orphans, failures, removed>>
  BY DEF StartDeregister
<1>3. Types' /\ Alone' /\ Fresh'
  BY <1>1, <1>2 DEF Types, Alone, Live, Fresh
<1>4. BeatCalls' /\ Prompt'
  BY <1>1, <1>2, Numbers DEF BeatCalls, Prompt, Tasks
<1>5. MainCalls'
  BY <1>1, <1>2 DEF MainCalls
<1> QED
  BY <1>3, <1>4, <1>5

\* The end of a provider, with whatever of its calls is left.
LEMMA AbortStep ==
    ASSUME AnnouncerInv, Abort, orphans' \subseteq Kinds, failures' \in 0..(MaxFailures + 1),
           removed' \in BOOLEAN, UNCHANGED <<left, rival>>
    PROVE  AnnouncerInv'
<1> USE DEF AnnouncerInv
<1>1. main' = "gone" /\ beat' = "off" /\ due' = 0 /\ call' \in [Tasks -> Call \cup {None}]
      /\ \A u \in Tasks : call'[u] = None
  BY DEF Abort
<1>2. removed' \in BOOLEAN /\ rival' \in BOOLEAN
  BY DEF Types
<1>3. left' \in Int /\ left' >= 0 /\ left' <= Ttl /\ due' \in Int /\ due' <= Interval
  BY <1>1, Numbers DEF Types
<1>4. Types'
  BY <1>1, <1>2, <1>3 DEF Types
<1> QED
  BY <1>1, <1>4 DEF MainCalls, BeatCalls, Prompt, Alone, Live, Fresh, Tasks

LEMMA DeregisterEndsStep ==
    ASSUME AnnouncerInv, DeregisterEnds
    PROVE  AnnouncerInv'
<1>1. (\E r : Answered("main", "deregister", r)) \/ Failed("main", "deregister")
  BY DEF DeregisterEnds
<1>2. failures' \in 0..(MaxFailures + 1) /\ orphans' \subseteq Kinds
  BY <1>1, EndOfCall DEF Tasks, AnnouncerInv
<1>3. removed' \in BOOLEAN
  BY DEF DeregisterEnds, AnnouncerInv, Types
<1>4. Abort /\ UNCHANGED <<left, rival>>
  BY DEF DeregisterEnds
<1> QED
  BY <1>2, <1>3, <1>4, AbortStep

LEMMA DropStep ==
    ASSUME AnnouncerInv, Drop
    PROVE  AnnouncerInv'
<1>1. Abandoned("main") \subseteq Kinds /\ Abandoned("beat") \subseteq Kinds
  BY Abandons DEF Tasks, AnnouncerInv
<1>2. orphans' \subseteq Kinds /\ failures' \in 0..(MaxFailures + 1)
  BY <1>1 DEF Drop, AnnouncerInv, Types
<1>3. removed' \in BOOLEAN
  BY DEF Drop, AnnouncerInv, Types
<1>4. Abort /\ UNCHANGED <<left, rival>>
  BY DEF Drop
<1> QED
  BY <1>2, <1>3, <1>4, AbortStep

LEMMA BeatTicksStep ==
    ASSUME AnnouncerInv, BeatTicks
    PROVE  AnnouncerInv'
<1> USE DEF AnnouncerInv
<1>1. /\ call' \in [Tasks -> Call \cup {None}]
      /\ call'["beat"] # None /\ call'["beat"].kind = "heartbeat" /\ call'["beat"].phase = "sent" /\ call'["beat"].age = 0
      /\ \A u \in Tasks \ {"beat"} : call'[u] = call[u]
  BY Asked DEF BeatTicks, Tasks, Kinds
<1>2. /\ beat = "waiting" /\ due <= 0 /\ beat' = "beating" /\ due' = due + Interval
      /\ UNCHANGED <<left, rival, main, orphans, failures, removed>>
  BY DEF BeatTicks
<1>3. Types' /\ Alone'
  BY <1>1, <1>2, Numbers DEF Types, Alone, Live
<1>4. MainCalls' /\ BeatCalls' /\ Prompt'
  BY <1>1, <1>2, Numbers DEF MainCalls, BeatCalls, Prompt, Tasks
<1>5. Fresh'
  BY <1>1, <1>2 DEF Fresh, FreshOf, Live, Tasks
<1> QED
  BY <1>3, <1>4, <1>5

LEMMA ReAnnounceStep ==
    ASSUME AnnouncerInv, ReAnnounce
    PROVE  AnnouncerInv'
<1> USE DEF AnnouncerInv
<1>1. /\ call' \in [Tasks -> Call \cup {None}]
      /\ call'["beat"] # None /\ call'["beat"].kind = "register" /\ call'["beat"].phase = "sent" /\ call'["beat"].age = 0
      /\ \A u \in Tasks \ {"beat"} : call'[u] = call[u]
  BY Asked DEF ReAnnounce, Tasks, Kinds
<1>2. /\ beat = "beating" /\ beat' = "announcing" /\ failures' = 0
      /\ UNCHANGED <<left, rival, main, due, orphans, removed>>
  BY DEF ReAnnounce, Answered
<1>3. Types' /\ Alone'
  BY <1>1, <1>2, Numbers DEF Types, Alone, Live
<1>4. MainCalls' /\ BeatCalls' /\ Prompt'
  BY <1>1, <1>2, Numbers DEF MainCalls, BeatCalls, Prompt, Tasks
<1>5. Fresh'
  BY <1>1, <1>2 DEF Fresh, FreshOf, Live, Tasks
<1> QED
  BY <1>3, <1>4, <1>5

LEMMA BeatEndsStep ==
    ASSUME AnnouncerInv, BeatEnds
    PROVE  AnnouncerInv'
<1> USE DEF AnnouncerInv
<1>1. /\ call' \in [Tasks -> Call \cup {None}] /\ call'["beat"] = None
      /\ \A u \in Tasks \ {"beat"} : call'[u] = call[u]
  BY Ended DEF BeatEnds, Tasks
<1>2. beat' = "waiting" /\ beat \in {"beating", "announcing"} /\ UNCHANGED <<left, rival, main, due, removed>>
  BY DEF BeatEnds
<1>3. PICK kind \in {"heartbeat", "register"} : (\E r : Answered("beat", kind, r)) \/ Failed("beat", kind)
  BY DEF BeatEnds
<1>4. /\ failures' \in 0..(MaxFailures + 1) /\ orphans' \subseteq Kinds
      /\ orphans' \subseteq orphans \cup {kind}
  BY <1>3, EndOfCall DEF Tasks
<1>5. Types' /\ Alone'
  BY <1>1, <1>2, <1>4 DEF Types, Alone, Live
<1>6. MainCalls' /\ BeatCalls'
  BY <1>1, <1>2, <1>4 DEF MainCalls, BeatCalls, Tasks
<1>7. Prompt' /\ Fresh'
  BY <1>1, <1>2 DEF Prompt, Fresh, FreshOf, Live, Tasks
<1> QED
  BY <1>5, <1>6, <1>7

\* Every call under way is a second older, and the entry a second nearer its end.
LEMMA Ticked ==
    ASSUME Types, Tick
    PROVE  /\ call' \in [Tasks -> Call \cup {None}]
           /\ \A t \in Tasks : call[t] = None => call'[t] = None
           /\ \A t \in Tasks : call[t] # None =>
                 /\ call'[t] # None /\ call'[t].kind = call[t].kind /\ call'[t].phase = call[t].phase
                 /\ call'[t].reply = call[t].reply /\ call'[t].age = call[t].age + 1
                 /\ call[t].age < CallTimeout
                 /\ call[t].phase # "failed" => call[t].age < Latency
           /\ left' \in Int /\ left' >= 0 /\ left' <= Ttl /\ left' <= left /\ left' >= left - 1
           /\ due' \in Int /\ due' <= Interval
<1>1. ASSUME NEW t \in Tasks, call[t] # None
      PROVE  /\ call'[t] \in Call /\ call'[t] # None
             /\ call'[t].kind = call[t].kind /\ call'[t].phase = call[t].phase
             /\ call'[t].reply = call[t].reply /\ call'[t].age = call[t].age + 1
             /\ call[t].age < CallTimeout
             /\ call[t].phase # "failed" => call[t].age < Latency
  <2>1. call[t] \in [kind : Kinds, phase : {"sent", "failed", "answered"},
                     reply : {"ok", "conflict", "not-found", None}, age : 0..CallTimeout]
    BY <1>1, CallFacts DEF Call
  <2>2. call[t].age < CallTimeout /\ (call[t].phase # "failed" => call[t].age < Latency)
    BY <1>1 DEF Tick, Quiet
  <2> DEFINE c == [call[t] EXCEPT !.age = @ + 1]
  <2>3. call'[t] = c
    BY <1>1 DEF Tick
  <2>4. c.kind = call[t].kind /\ c.phase = call[t].phase /\ c.reply = call[t].reply /\ c.age = call[t].age + 1
    BY <2>1
  <2>5. c \in Call
    BY <2>1, <2>2, Numbers DEF Call
  <2>6. c # None
    BY <2>5, NoneAssumption
  <2> HIDE DEF c
  <2> QED
    BY <2>2, <2>3, <2>4, <2>5, <2>6
<1>2. call' \in [Tasks -> Call \cup {None}] /\ \A t \in Tasks : call[t] = None => call'[t] = None
  <2>1. \A t \in Tasks : call[t] = None => call'[t] = None
    BY DEF Tick
  <2>2. \A t \in Tasks : call'[t] \in Call \cup {None}
    BY <1>1, <2>1
  <2>3. call' = [t \in Tasks |-> call'[t]]
    BY DEF Tick
  <2> QED
    BY <2>1, <2>2, <2>3
<1>3. left' \in Int /\ left' >= 0 /\ left' <= Ttl /\ left' <= left /\ left' >= left - 1
  BY Numbers DEF Tick, Types, Larger
<1>4. due' \in Int /\ due' <= Interval
  BY Numbers DEF Tick, Types, Larger
<1> QED
  BY <1>1, <1>2, <1>3, <1>4

LEMMA TickStep ==
    ASSUME AnnouncerInv, Tick
    PROVE  AnnouncerInv'
<1> USE DEF AnnouncerInv
<1>1. /\ call' \in [Tasks -> Call \cup {None}]
      /\ \A t \in Tasks : call[t] = None => call'[t] = None
      /\ \A t \in Tasks : call[t] # None =>
            /\ call'[t] # None /\ call'[t].kind = call[t].kind /\ call'[t].phase = call[t].phase
            /\ call'[t].reply = call[t].reply /\ call'[t].age = call[t].age + 1
            /\ call[t].age < CallTimeout
            /\ call[t].phase # "failed" => call[t].age < Latency
      /\ left' \in Int /\ left' >= 0 /\ left' <= Ttl /\ left' <= left /\ left' >= left - 1
      /\ due' \in Int /\ due' <= Interval
  BY Ticked
<1>2. UNCHANGED <<rival, main, beat, orphans, failures, removed>>
  BY DEF Tick
<1>3. Types' /\ Alone'
  BY <1>1, <1>2 DEF Types, Alone, Live
<1>4. MainCalls' /\ BeatCalls'
  BY <1>1, <1>2 DEF MainCalls, BeatCalls, Tasks
<1>5. Prompt'
  <2> SUFFICES ASSUME NEW t \in Tasks, call'[t] # None, call'[t].phase # "failed" PROVE call'[t].age <= Latency
    BY DEF Prompt
  <2>1. call[t] # None
    BY <1>1
  <2>2. call[t].age \in Int
    BY <2>1, CallFacts
  <2> QED
    BY <1>1, <2>1, <2>2, Numbers
<1>6. Fresh'
  <2> SUFFICES ASSUME main \in {"registering", "held"}, NEW t \in Tasks, call'[t] # None,
                      call'[t].phase = "answered", call'[t].reply = "ok" \/ left' > 0
               PROVE  left' >= Ttl - call'[t].age
    BY <1>2 DEF Fresh, FreshOf, Live
  <2>1. call[t] # None
    BY <1>1
  <2>2. call[t].age \in Int
    BY <2>1, CallFacts
  <2>3. left \in Int
    BY DEF Types
  <2>4. left >= Ttl - call[t].age
    BY <1>1, <2>1, <2>3 DEF Fresh, FreshOf, Live
  <2> QED
    BY <1>1, <2>1, <2>2, <2>3, <2>4, Numbers
<1> QED
  BY <1>3, <1>4, <1>5, <1>6

LEMMA InvStep == AnnouncerInv /\ [Next]_vars => AnnouncerInv'
<1> SUFFICES ASSUME AnnouncerInv, [Next]_vars PROVE AnnouncerInv'
  OBVIOUS
<1>1. CASE UNCHANGED vars
  BY <1>1 DEF vars, AnnouncerInv, Types, MainCalls, BeatCalls, Prompt, Alone, Fresh, FreshOf, Live
<1>2. CASE Main
  BY <1>2, StartRegisterStep, RegisteredStep, RegisterFailsStep, StartDeregisterStep,
     DeregisterEndsStep, DropStep DEF Main
<1>3. CASE Beat
  BY <1>3, BeatTicksStep, ReAnnounceStep, BeatEndsStep DEF Beat
<1>4. CASE \E t \in Tasks : Network(t)
  BY <1>4, ServeStep, FailStep DEF Network
<1>5. CASE Registry
  BY <1>5, ServeOrphanStep, LoseOrphanStep DEF Registry
<1>6. CASE Tick
  BY <1>6, TickStep
<1>7. CASE RivalComes
  BY <1>7 DEF RivalComes, AnnouncerInv, Types, MainCalls, BeatCalls, Prompt, Alone, Fresh, FreshOf, Live
<1>8. CASE RivalGoes
  BY <1>8 DEF RivalGoes, AnnouncerInv, Types, MainCalls, BeatCalls, Prompt, Alone, Fresh, FreshOf, Live
<1> QED
  BY <1>1, <1>2, <1>3, <1>4, <1>5, <1>6, <1>7, <1>8 DEF Next

\* In every state of the announcer its variables have their types, no call is
\* awaited for longer than CALL_TIMEOUT, no entry outlasts the TTL granted, and
\* who was just answered finds the entry as fresh as the answer (client.rs:173).
THEOREM AnnouncerTypes == Spec => []AnnouncerInv
BY InitStep, InvStep, PTL DEF Spec

-----------------------------------------------------------------------------
(* What times out.                                                         *)

\* Every other call under way is of a main task that registers or ends.
LEMMA BeatAlone ==
    ASSUME AnnouncerInv, main \in {"start", "registering", "held"}, beat # "off"
    PROVE  main = "held" /\ call["main"] = None
BY DEF AnnouncerInv, MainCalls

LEMMA FailuresStep ==
    ASSUME AnnouncerInv, OnlyChosenFail, [Next]_vars
    PROVE  OnlyChosenFail'
<1> SUFFICES ASSUME Latency < CallTimeout, main' \in {"start", "registering", "held"}
             PROVE  /\ failures' <= MaxFailures
                    /\ \A t \in Tasks : call'[t] # None /\ call'[t].phase = "failed" => failures' < MaxFailures
  BY DEF OnlyChosenFail
<1>1. CASE call' = call /\ failures' = failures /\ main' = main
  BY <1>1 DEF OnlyChosenFail
<1>2. CASE StartRegister
  <2>1. failures' = failures /\ main = "start" /\ call'["main"].phase = "sent" /\ call'["beat"] = call["beat"]
    BY <1>2, Asked DEF StartRegister, AnnouncerInv, Tasks, Kinds
  <2> QED
    BY <2>1 DEF OnlyChosenFail, Tasks
<1>3. CASE Registered
  <2>1. failures' = 0 /\ call'["main"] = None /\ call'["beat"] = call["beat"] /\ call["beat"] = None
    BY <1>3, Ended DEF Registered, Answered, AnnouncerInv, MainCalls, BeatCalls, Tasks
  <2> QED
    BY <2>1, Numbers DEF Tasks
<1>4. CASE BeatTicks
  <2>1. failures' = failures /\ main' = main /\ call'["beat"].phase = "sent" /\ call'["main"] = call["main"]
    BY <1>4, Asked DEF BeatTicks, AnnouncerInv, Tasks, Kinds
  <2> QED
    BY <2>1 DEF OnlyChosenFail, Tasks
<1>5. CASE ReAnnounce
  <2>1. failures' = 0 /\ main' = main /\ call'["beat"].phase = "sent" /\ call'["main"] = call["main"] /\ beat # "off"
    BY <1>5, Asked DEF ReAnnounce, Answered, AnnouncerInv, Tasks, Kinds
  <2>2. call["main"] = None
    BY <2>1, BeatAlone
  <2> QED
    BY <2>1, <2>2, Numbers DEF Tasks
<1>6. CASE BeatEnds
  <2>1. main' = main /\ call'["beat"] = None /\ call'["main"] = call["main"] /\ beat # "off"
    BY <1>6, Ended DEF BeatEnds, AnnouncerInv, Tasks
  <2>2. call["main"] = None
    BY <2>1, BeatAlone
  <2>3. PICK kind : (\E r : Answered("beat", kind, r)) \/ Failed("beat", kind)
    BY <1>6 DEF BeatEnds
  <2>4. CASE \E r : Answered("beat", kind, r)
    BY <2>1, <2>2, <2>4, Numbers DEF Answered, Tasks
  <2>5. CASE Failed("beat", kind)
    <3>1. /\ call["beat"] # None /\ failures' = Smaller(failures + 1, MaxFailures + 1)
          /\ call["beat"].phase = "failed" \/ call["beat"].age = CallTimeout
      BY <2>5 DEF Failed
    <3>2. call["beat"].phase = "failed"
      BY <3>1, Numbers DEF AnnouncerInv, Prompt, Tasks
    <3>3. failures < MaxFailures /\ failures \in Nat
      BY <2>1, <3>1, <3>2, Numbers DEF OnlyChosenFail, AnnouncerInv, Types, Tasks
    <3>4. failures' <= MaxFailures
      BY <3>1, <3>3, Numbers DEF Smaller
    <3> QED
      BY <2>1, <2>2, <3>4 DEF Tasks
  <2> QED
    BY <2>3, <2>4, <2>5
<1>7. ASSUME NEW t \in Tasks, Serve(t)
      PROVE  /\ failures' <= MaxFailures
             /\ \A u \in Tasks : call'[u] # None /\ call'[u].phase = "failed" => failures' < MaxFailures
  <2>1. call[t] \in Call /\ call \in [Tasks -> Call \cup {None}]
    BY <1>7, CallFacts DEF Serve, AnnouncerInv, Types
  <2>2. call'[t].phase = "answered" /\ (\A u \in Tasks \ {t} : call'[u] = call[u])
        /\ failures' = failures /\ main' = main
    BY <1>7, <2>1 DEF Serve, Call
  <2> QED
    BY <2>2 DEF OnlyChosenFail
<1>8. ASSUME NEW t \in Tasks, Falter(t)
      PROVE  failures' <= MaxFailures /\ failures' < MaxFailures
  BY <1>8, Numbers DEF Falter, AnnouncerInv, Types
<1>9. CASE Tick
  <2>1. failures' = failures /\ main' = main
    BY <1>9 DEF Tick
  <2>2. \A t \in Tasks : call'[t] # None => call[t] # None /\ call'[t].phase = call[t].phase
    BY <1>9, Ticked DEF AnnouncerInv
  <2> QED
    BY <2>1, <2>2 DEF OnlyChosenFail
<1>10. CASE UNCHANGED vars \/ Registry \/ RivalComes \/ RivalGoes
  BY <1>1, <1>10 DEF vars, Registry, ServeOrphan, LoseOrphan, RivalComes, RivalGoes
<1>11. CASE Main
  BY <1>2, <1>3, <1>11 DEF Main, RegisterFails, StartDeregister, DeregisterEnds, Drop, Abort
<1>12. CASE Beat
  BY <1>4, <1>5, <1>6, <1>12 DEF Beat
<1>13. CASE \E t \in Tasks : Network(t)
  BY <1>7, <1>8, <1>13 DEF Network
<1> QED
  BY <1>9, <1>10, <1>11, <1>12, <1>13 DEF Next

LEMMA FailuresAlways == Spec => []OnlyChosenFail
<1>1. Init => OnlyChosenFail
  BY Numbers DEF Init, OnlyChosenFail
<1>2. AnnouncerInv /\ OnlyChosenFail /\ [Next]_vars => OnlyChosenFail'
  BY FailuresStep
<1> QED
  BY <1>1, <1>2, AnnouncerTypes, PTL DEF Spec

-----------------------------------------------------------------------------
(* How long an entry lasts.                                                *)

LEMMA Graces ==
    \A n \in Nat : Grace(n) \in Int /\ Grace(n) >= 0 /\ Grace(n) <= CallTimeout
BY Numbers DEF Grace

LEMMA SparesGrow ==
    ASSUME NEW n \in Nat, NEW k \in Nat, k <= n
    PROVE  Spare(k) <= Spare(n)
<1>1. Pause \in Nat
  BY Numbers
<1> DEFINE p == Pause
           j == n - k
<1>2. p \in Nat /\ j \in Nat /\ n = k + j
  BY <1>1
<1> HIDE DEF p, j
<1>3. k * p \in Nat /\ j * p \in Nat /\ (k + j) * p = k * p + j * p
  BY <1>2
<1> QED
  BY <1>2, <1>3 DEF Spare, p

LEMMA AnsweredLasts ==
    ASSUME NEW n \in Nat, LongEnough(n), NEW m \in Nat, m <= n,
           NEW l \in Int, l >= Ttl - Delay, NEW d \in Int, d <= Interval, NEW a \in Nat
    PROVE  l > 1 /\ Lasts(n, l, d, m) /\ LastsThrough(n, l, d, m, a)
<1>1. n - m \in Nat /\ Spare(n - m) \in Int /\ Spare(n - m) >= 0 /\ Spare(n - m) <= Spare(n) /\ Spare(n) \in Int
  BY Spares, SparesGrow
<1>2. Grace(n) \in Int /\ Grace(n) >= 0
  BY Graces
<1>3. l > Interval + Spare(n) + Grace(n)
  BY <1>1, <1>2, Numbers DEF LongEnough
<1>4. l > 1 /\ Lasts(n, l, d, m)
  BY <1>1, <1>2, <1>3, Numbers DEF Lasts, Larger
<1>5. CASE m = n
  BY <1>1, <1>2, <1>3, <1>4, <1>5, Numbers DEF LastsThrough
<1>6. CASE m # n
  <2>1. n - m - 1 \in Nat /\ (n - m - 1) + 1 = n - m
    BY <1>6
  <2>2. Spare(n - m - 1) \in Int /\ Spare(n - m) = Spare(n - m - 1) + Pause
    BY <2>1, Spares
  <2>3. l > Larger(CallTimeout - a, d) + Spare(n - m - 1) + Grace(n)
    BY <1>1, <1>2, <1>3, <2>2, Numbers DEF Larger
  <2> QED
    BY <1>4, <1>6, <2>3 DEF LastsThrough
<1> QED
  BY <1>5, <1>6

LEMMA AskingLasts ==
    ASSUME NEW n \in Nat, NEW m \in Nat, m <= n, NEW l \in Int, NEW d \in Int, d <= 0, Lasts(n, l, d, m)
    PROVE  LastsThrough(n, l, d + Interval, m, 0)
<1>1. Grace(n) \in Int
  BY Graces
<1>2. CASE m = n
  BY <1>1, <1>2, Spares, Numbers DEF Lasts, LastsThrough, Larger
<1>3. CASE m # n
  <2>1. n - m - 1 \in Nat /\ (n - m - 1) + 1 = n - m
    BY <1>3
  <2>2. Spare(n - m - 1) \in Int /\ Spare(n - m) = Spare(n - m - 1) + Pause
    BY <2>1, Spares
  <2> QED
    BY <1>1, <1>3, <2>2, Numbers DEF Lasts, LastsThrough, Larger
<1> QED
  BY <1>2, <1>3

LEMMA FailedLasts ==
    ASSUME NEW n \in Nat, NEW m \in Nat, m < n, NEW l \in Int, NEW d \in Int,
           NEW a \in Nat, a <= CallTimeout, LastsThrough(n, l, d, m, a)
    PROVE  Lasts(n, l, d, m + 1)
<1>1. n - m - 1 = n - (m + 1) /\ n - m - 1 \in Nat
  BY Numbers
<1>2. Spare(n - m - 1) \in Int /\ Grace(n) \in Int
  BY <1>1, Spares, Graces
<1>3. Larger(d, 0) \in Int /\ Larger(CallTimeout - a, d) \in Int /\ Larger(d, 0) <= Larger(CallTimeout - a, d)
  BY Numbers DEF Larger
<1>4. l > Larger(CallTimeout - a, d) + Spare(n - m - 1) + Grace(n)
  BY DEF LastsThrough
<1> QED
  BY <1>1, <1>2, <1>3, <1>4 DEF Lasts

LEMMA SecondLasts ==
    ASSUME NEW n \in Nat, NEW m \in Nat, m <= n, NEW l \in Int, NEW d \in Int, NEW a \in Nat
    PROVE  /\ d > 0 /\ Lasts(n, l, d, m) => l > 1 /\ Lasts(n, l - 1, Larger(d - 1, -MaxLag), m)
           /\ a < CallTimeout /\ (m = n => a < Grace(n)) /\ LastsThrough(n, l, d, m, a) =>
                 l > 1 /\ LastsThrough(n, l - 1, Larger(d - 1, -MaxLag), m, a + 1)
<1>1. n - m \in Nat /\ Spare(n - m) \in Int /\ Spare(n - m) >= 0 /\ Grace(n) \in Int /\ Grace(n) >= 0
  BY Spares, Graces
<1>2. ASSUME d > 0, Lasts(n, l, d, m) PROVE l > 1 /\ Lasts(n, l - 1, Larger(d - 1, -MaxLag), m)
  BY <1>1, <1>2, Numbers DEF Lasts, Larger
<1>3. ASSUME a < CallTimeout, m = n => a < Grace(n), LastsThrough(n, l, d, m, a)
      PROVE  l > 1 /\ LastsThrough(n, l - 1, Larger(d - 1, -MaxLag), m, a + 1)
  <2>1. CASE m = n
    BY <1>1, <1>3, <2>1 DEF LastsThrough
  <2>2. CASE m # n
    <3>1. n - m - 1 \in Nat
      BY <2>2
    <3>2. Spare(n - m - 1) \in Int /\ Spare(n - m - 1) >= 0
      BY <3>1, Spares
    <3> QED
      BY <1>1, <1>3, <2>2, <3>2, Numbers DEF LastsThrough, Larger
  <2> QED
    BY <2>1, <2>2
<1> QED
  BY <1>2, <1>3

\* A reply that is on its way, or has come, is of the last Delay seconds.
LEMMA AnswerIsFresh ==
    ASSUME AnnouncerInv, Live, main \in {"registering", "held"}, NEW t \in Tasks,
           call[t] # None, call[t].phase = "answered"
    PROVE  left \in Int /\ left >= Ttl - Delay
<1>1. left >= Ttl - call[t].age /\ call[t].age <= Latency
  BY DEF AnnouncerInv, Fresh, FreshOf, Prompt
<1>2. call[t].age \in Int /\ call[t].age <= CallTimeout
  BY CallFacts DEF AnnouncerInv
<1>3. call[t].age <= Delay
  BY <1>1, <1>2, Numbers DEF Smaller
<1>4. left \in Int
  BY DEF AnnouncerInv, Types
<1> QED
  BY <1>1, <1>2, <1>3, <1>4, Numbers

\* While a registration is held, only its heartbeat calls.
LEMMA OnlyBeatCalls ==
    ASSUME AnnouncerInv, main = "held", NEW t \in Tasks, call[t] # None
    PROVE  t = "beat" /\ beat \in {"beating", "announcing"} /\ call["beat"].kind # "deregister"
BY DEF AnnouncerInv, MainCalls, BeatCalls, Tasks, Types

\* The actions of the network, the registry and the rivals.
LEMMA OutsideCovered ==
    ASSUME NEW n \in Nat, n <= MaxFailures, LongEnough(n), AnnouncerInv, AnnouncerInv', Covered(n),
           \/ \E t \in Tasks : Network(t)
           \/ Registry \/ RivalComes \/ RivalGoes
    PROVE  Covered(n)'
<1> SUFFICES ASSUME Live', main' = "held", failures' <= n
             PROVE  /\ beat' = "waiting" => Lasts(n, left', due', failures')
                    /\ beat' # "waiting" /\ call'["beat"].phase # "answered" =>
                          LastsThrough(n, left', due', failures', call'["beat"].age)
  BY DEF Covered, Live
<1>1. UNCHANGED <<main, beat, due, failures>>
  BY DEF Network, Serve, Falter, Registry, ServeOrphan, LoseOrphan, RivalComes, RivalGoes
<1>2. main = "held" /\ failures \in Nat /\ due \in Int /\ due <= Interval /\ failures <= n /\ left' \in Int
  BY <1>1, Numbers DEF AnnouncerInv, Types
<1>3. beat # "waiting" => call["beat"] # None /\ call["beat"].age \in Nat /\ "beat" \in Tasks
  BY <1>2, CallFacts DEF AnnouncerInv, BeatCalls, MainCalls, Types, Tasks
<1>4. CASE left' = left /\ call' = call
  BY <1>1, <1>2, <1>4 DEF Covered, Live
<1>5. CASE left' >= Ttl - Delay /\ call' = call
  BY <1>1, <1>2, <1>3, <1>5, AnsweredLasts
<1>6. ASSUME NEW t \in Tasks, Serve(t) PROVE beat # "waiting" /\ call'["beat"].phase = "answered"
  <2>1. t = "beat" /\ beat # "waiting"
    BY <1>2, <1>6, OnlyBeatCalls DEF Serve
  <2>2. call["beat"] \in Call /\ call \in [Tasks -> Call \cup {None}]
    BY <1>6, <2>1, CallFacts DEF Serve, AnnouncerInv, Types
  <2>3. call'["beat"].phase = "answered"
    BY <1>6, <2>1, <2>2 DEF Serve, Call, Tasks
  <2> QED
    BY <2>1, <2>3
<1>7. ASSUME NEW t \in Tasks, Falter(t)
      PROVE  beat # "waiting" /\ LastsThrough(n, left', due', failures', call'["beat"].age)
  <2>1. t = "beat" /\ beat # "waiting" /\ call["beat"] # None
    BY <1>2, <1>7, OnlyBeatCalls DEF Falter
  <2>2. call'["beat"].age = call["beat"].age /\ left' = left
    BY <1>7, <2>1, Fails DEF AnnouncerInv, Falter
  <2>3. CASE call["beat"].phase = "answered"
    <3>1. left >= Ttl - Delay
      BY <1>2, <2>1, <2>2, <2>3, <1>3, AnswerIsFresh DEF Live
    <3> QED
      BY <1>1, <1>2, <1>3, <2>1, <2>2, <3>1, AnsweredLasts
  <2>4. CASE call["beat"].phase # "answered"
    BY <1>1, <1>2, <2>1, <2>2, <2>4 DEF Covered, Live
  <2> QED
    BY <2>1, <2>3, <2>4
<1>8. ASSUME NEW kind \in Kinds, ServeOrphan(kind)
      PROVE  call' = call /\ (left' = left \/ left' >= Ttl - Delay)
  <2>1. Apply(kind) /\ call' = call /\ kind # "deregister"
    BY <1>2, <1>8 DEF ServeOrphan, AnnouncerInv, MainCalls
  <2>2. left' = Ttl \/ left' = left
    BY <2>1, Applied DEF AnnouncerInv
  <2> QED
    BY <2>1, <2>2, Numbers
<1>9. CASE \E t \in Tasks : Network(t)
  BY <1>1, <1>6, <1>7, <1>9 DEF Network
<1>10. CASE Registry
  <2>1. \A kind \in Kinds : LoseOrphan(kind) => left' = left /\ call' = call
    BY DEF LoseOrphan
  <2> QED
    BY <1>4, <1>5, <1>8, <1>10, <2>1 DEF Registry
<1>11. CASE RivalComes \/ RivalGoes
  BY <1>4, <1>11 DEF RivalComes, RivalGoes
<1> QED
  BY <1>9, <1>10, <1>11

LEMMA RegisteredCovered ==
    ASSUME NEW n \in Nat, n <= MaxFailures, LongEnough(n), AnnouncerInv, Registered
    PROVE  Covered(n)' /\ Live'
<1>1. /\ main = "registering" /\ call["main"] # None /\ call["main"].phase = "answered" /\ call["main"].reply = "ok"
      /\ main' = "held" /\ beat' = "waiting" /\ due' = Interval /\ failures' = 0 /\ left' = left
  BY DEF Registered, Answered
<1>2. "main" \in Tasks /\ left \in Int
  BY DEF Tasks, AnnouncerInv, Types
<1>3. left >= Ttl - call["main"].age /\ call["main"].age <= Latency
  BY <1>1, <1>2 DEF AnnouncerInv, Fresh, FreshOf, Prompt
<1>4. call["main"].age \in Int /\ call["main"].age <= CallTimeout
  BY <1>1, <1>2, CallFacts DEF AnnouncerInv
<1>5. left >= Ttl - Delay
  BY <1>2, <1>3, <1>4, Numbers DEF Smaller
<1>6. left > 1 /\ Lasts(n, left, Interval, 0)
  BY <1>2, <1>5, Numbers, AnsweredLasts
<1> QED
  BY <1>1, <1>2, <1>6 DEF Covered, Live

LEMMA BeatTicksCovered ==
    ASSUME NEW n \in Nat, AnnouncerInv, Covered(n), BeatTicks
    PROVE  Covered(n)'
<1>1. /\ beat = "waiting" /\ due <= 0 /\ beat' = "beating" /\ due' = due + Interval
      /\ UNCHANGED <<left, main, failures>>
  BY DEF BeatTicks
<1>2. call'["beat"].age = 0
  BY Asked DEF BeatTicks, AnnouncerInv, Tasks, Kinds
<1>3. failures \in Nat /\ left \in Int /\ due \in Int
  BY Numbers DEF AnnouncerInv, Types
<1> SUFFICES ASSUME Live, main = "held", failures <= n PROVE LastsThrough(n, left, due + Interval, failures, 0)
  BY <1>1, <1>2 DEF Covered, Live
<1>4. Lasts(n, left, due, failures)
  BY <1>1 DEF Covered
<1> QED
  BY <1>1, <1>3, <1>4, AskingLasts

LEMMA ReAnnounceCovered ==
    ASSUME NEW n \in Nat, LongEnough(n), AnnouncerInv, ReAnnounce
    PROVE  Covered(n)'
<1>1. /\ beat' = "announcing" /\ failures' = 0 /\ UNCHANGED <<left, main, due>>
      /\ call["beat"] # None /\ call["beat"].phase = "answered"
  BY DEF ReAnnounce, Answered
<1>2. call'["beat"].age = 0
  BY Asked DEF ReAnnounce, AnnouncerInv, Tasks, Kinds
<1>3. due \in Int /\ due <= Interval /\ "beat" \in Tasks
  BY DEF AnnouncerInv, Types, Tasks
<1> SUFFICES ASSUME Live, main = "held" PROVE LastsThrough(n, left, due, 0, 0)
  BY <1>1, <1>2 DEF Covered, Live
<1>4. left \in Int /\ left >= Ttl - Delay
  BY <1>1, <1>3, AnswerIsFresh
<1> QED
  BY <1>3, <1>4, AnsweredLasts

LEMMA BeatEndsCovered ==
    ASSUME NEW n \in Nat, n <= MaxFailures, LongEnough(n), AnnouncerInv, Covered(n), BeatEnds
    PROVE  Covered(n)'
<1>1. beat \in {"beating", "announcing"} /\ beat' = "waiting" /\ UNCHANGED <<left, main, due>>
  BY DEF BeatEnds
<1>2. failures \in Nat /\ left \in Int /\ due \in Int /\ due <= Interval /\ "beat" \in Tasks
  BY Numbers DEF AnnouncerInv, Types, Tasks
<1>3. call["beat"] # None
  BY <1>1 DEF AnnouncerInv, BeatCalls
<1>4. PICK kind : (\E r : Answered("beat", kind, r)) \/ Failed("beat", kind)
  BY DEF BeatEnds
<1> SUFFICES ASSUME Live, main = "held", failures' <= n PROVE Lasts(n, left, due, failures')
  BY <1>1 DEF Covered, Live
<1>5. CASE call["beat"].phase = "answered"
  <2>1. left >= Ttl - Delay
    BY <1>2, <1>3, <1>5, AnswerIsFresh
  <2>2. failures' \in Nat
    <3>1. Types
      BY DEF AnnouncerInv
    <3>2. failures' \in 0..(MaxFailures + 1)
      BY <1>2, <1>4, <3>1, EndOfCall
    <3> QED
      BY <3>2, Numbers
  <2> QED
    BY <1>2, <2>1, <2>2, AnsweredLasts
<1>6. CASE call["beat"].phase # "answered"
  <2>1. Failed("beat", kind)
    BY <1>4, <1>6 DEF Answered
  <2>2. call["beat"].age \in Nat /\ call["beat"].age <= CallTimeout /\ failures' = Smaller(failures + 1, MaxFailures + 1)
    BY <1>2, <1>3, <2>1, CallFacts DEF Failed, AnnouncerInv
  <2>3. failures' = failures + 1 /\ failures < n
    BY <1>2, <2>2, Numbers DEF Smaller
  <2>4. LastsThrough(n, left, due, failures, call["beat"].age)
    BY <1>1, <1>2, <1>6, <2>3 DEF Covered
  <2> QED
    BY <1>2, <2>2, <2>3, <2>4, FailedLasts
<1> QED
  BY <1>5, <1>6

\* A second neither uses up what is covered nor expires the entry.
LEMMA TickCovered ==
    ASSUME NEW n \in Nat, n <= MaxFailures, LongEnough(n), AnnouncerInv, OnlyChosenFail, Covered(n), Tick
    PROVE  Covered(n)' /\ (Live /\ main = "held" /\ failures <= n => Live')
<1>1. UNCHANGED <<main, beat, failures>> /\ left' = Larger(left - 1, 0)
  BY DEF Tick
<1>2. failures \in Nat /\ left \in Int /\ due \in Int /\ "beat" \in Tasks
  BY Numbers DEF AnnouncerInv, Types, Tasks
<1>3. Live' => Live
  BY <1>1, <1>2 DEF Live, Larger
<1> SUFFICES ASSUME Live, main = "held", failures <= n
             PROVE  /\ left > 1
                    /\ beat = "waiting" => Lasts(n, left - 1, due', failures)
                    /\ beat # "waiting" /\ call'["beat"].phase # "answered" =>
                          LastsThrough(n, left - 1, due', failures, call'["beat"].age)
  BY <1>1, <1>2, <1>3 DEF Covered, Live, Larger
<1>4. beat # "off"
  BY DEF AnnouncerInv, MainCalls
<1>5. due' = Larger(due - 1, -MaxLag)
  BY <1>4 DEF Tick
<1>6. CASE beat = "waiting"
  <2>1. Lasts(n, left, due, failures) /\ due > 0
    BY <1>2, <1>6 DEF Covered, Tick, Quiet
  <2> QED
    BY <1>2, <1>5, <1>6, <2>1, SecondLasts
<1>7. CASE beat # "waiting"
  <2>1. call["beat"] # None
    BY <1>4, <1>7 DEF AnnouncerInv, BeatCalls, Types
  <2>2. call'["beat"].phase = call["beat"].phase /\ call'["beat"].age = call["beat"].age + 1
        /\ call["beat"].age < CallTimeout
    BY <1>2, <2>1, Ticked DEF AnnouncerInv
  <2>3. call["beat"].age \in Nat
    BY <1>2, <2>1, CallFacts DEF AnnouncerInv
  <2>4. CASE call["beat"].phase = "answered"
    <3>1. left >= Ttl - Delay
      BY <1>2, <2>1, <2>4, AnswerIsFresh
    <3>2. due <= Interval
      BY DEF AnnouncerInv, Types
    <3>3. left > 1
      BY <1>2, <3>1, <3>2, AnsweredLasts
    <3> QED
      BY <1>7, <2>2, <2>4, <3>3
  <2>5. CASE call["beat"].phase # "answered"
    <3>1. LastsThrough(n, left, due, failures, call["beat"].age)
      BY <1>7, <2>5 DEF Covered
    <3> DEFINE a == call["beat"].age
    <3>2. a \in Nat /\ a < CallTimeout /\ LastsThrough(n, left, due, failures, a)
      BY <2>2, <2>3, <3>1
    <3> HIDE DEF a
    <3>3. failures = n => a < Grace(n)
      <4>1. CASE n = MaxFailures /\ Latency < CallTimeout
        <5>1. failures = n => call["beat"].phase # "failed"
          BY <1>2, <2>1, <4>1, Numbers DEF OnlyChosenFail
        <5>2. call["beat"].phase # "failed" => a < Latency
          BY <1>2, <2>1, Ticked DEF AnnouncerInv, a
        <5> QED
          BY <4>1, <5>1, <5>2 DEF Grace
      <4> QED
        BY <3>2, <4>1 DEF Grace
    <3>4. left > 1 /\ LastsThrough(n, left - 1, Larger(due - 1, -MaxLag), failures, a + 1)
      BY <1>2, <3>2, <3>3, SecondLasts
    <3> QED
      BY <1>5, <1>7, <2>2, <3>4 DEF a
  <2> QED
    BY <2>4, <2>5
<1> QED
  BY <1>6, <1>7

LEMMA CoveredStep ==
    ASSUME NEW n \in Nat, n <= MaxFailures, LongEnough(n), AnnouncerInv, AnnouncerInv',
           OnlyChosenFail, Covered(n), [Next]_vars
    PROVE  Covered(n)'
<1>1. CASE UNCHANGED vars
  BY <1>1 DEF vars, Covered, Live
<1>2. CASE Main
  <2>1. CASE Registered
    BY <2>1, RegisteredCovered
  <2>2. CASE main' # "held"
    BY <2>2 DEF Covered
  <2> QED
    BY <1>2, <2>1, <2>2 DEF Main, StartRegister, RegisterFails, StartDeregister, DeregisterEnds, Drop, Abort
<1>3. CASE Beat
  BY <1>3, BeatTicksCovered, ReAnnounceCovered, BeatEndsCovered DEF Beat
<1>4. CASE (\E t \in Tasks : Network(t)) \/ Registry \/ RivalComes \/ RivalGoes
  BY <1>4, OutsideCovered
<1>5. CASE Tick
  BY <1>5, TickCovered
<1> QED
  BY <1>1, <1>2, <1>3, <1>4, <1>5 DEF Next

\* Nothing but the passing of time ends an entry while its provider holds it.
LEMMA OnlyTimeExpires ==
    ASSUME AnnouncerInv, [Next]_vars, ~Tick, main = "held", Live
    PROVE  Live'
<1>1. CASE left' = left
  BY <1>1 DEF Live
<1>2. ASSUME NEW kind \in Kinds \ {"deregister"}, Apply(kind) PROVE Live'
  BY <1>2, Applied, Numbers DEF AnnouncerInv, Live
<1>3. ASSUME NEW t \in Tasks, Serve(t) PROVE Live'
  <2>1. t = "beat" /\ call["beat"].kind \in Kinds \ {"deregister"} /\ Apply(call["beat"].kind)
    BY <1>3, OnlyBeatCalls, CallFacts DEF Serve, AnnouncerInv
  <2> QED
    BY <1>2, <2>1
<1>4. ASSUME NEW kind \in Kinds, ServeOrphan(kind) PROVE Live'
  BY <1>2, <1>4 DEF ServeOrphan, AnnouncerInv, MainCalls
<1>5. CASE UNCHANGED vars \/ Main \/ Beat \/ RivalComes \/ RivalGoes
  BY <1>1, <1>5 DEF vars, Main, Beat, RivalComes, RivalGoes, StartRegister, Registered, RegisterFails,
     StartDeregister, DeregisterEnds, Drop, BeatTicks, ReAnnounce, BeatEnds
<1>6. CASE \E t \in Tasks : Network(t)
  BY <1>1, <1>3, <1>6 DEF Network, Falter
<1>7. CASE Registry
  BY <1>1, <1>4, <1>7 DEF Registry, LoseOrphan
<1> QED
  BY <1>5, <1>6, <1>7 DEF Next

LEMMA InitCovered == ASSUME NEW n \in Nat PROVE Init => Covered(n)
BY DEF Init, Covered, Live

LEMMA ExpiryStep ==
    ASSUME NEW n \in Nat, n <= MaxFailures, LongEnough(n), AnnouncerInv, OnlyChosenFail, Covered(n),
           [Next]_vars, main = "held", Live, ~Live'
    PROVE  failures > n
<1> SUFFICES ASSUME failures <= n PROVE FALSE
  BY Numbers DEF AnnouncerInv, Types
<1>1. CASE Tick
  BY <1>1, TickCovered
<1>2. CASE ~Tick
  BY <1>2, OnlyTimeExpires
<1> QED
  BY <1>1, <1>2

\* The entry of a provider that holds its registration runs out only after more
\* than n calls in a row failed, if the TTL granted leaves room for n: for an
\* interval, n pauses, one timeout and the delay of a reply (client.rs:264-280).
THEOREM ExpiryTakesFailures ==
    ASSUME NEW n \in Nat, n <= MaxFailures, LongEnough(n)
    PROVE  Spec => [][main = "held" /\ Live /\ ~Live' => failures > n]_vars
<1>1. Init => Covered(n)
  BY InitCovered
<1>2. AnnouncerInv /\ AnnouncerInv' /\ OnlyChosenFail /\ Covered(n) /\ [Next]_vars => Covered(n)'
  BY CoveredStep
<1>3. AnnouncerInv /\ OnlyChosenFail /\ Covered(n) /\ [Next]_vars =>
        [main = "held" /\ Live /\ ~Live' => failures > n]_vars
  BY ExpiryStep
<1> QED
  BY <1>1, <1>2, <1>3, AnnouncerTypes, FailuresAlways, PTL DEF Spec

\* One call that is lost, late or answered with an error never costs a provider
\* the registration that it holds, whatever else fails, is served late or is
\* claimed: as long as the TTL leaves room for one.
THEOREM OneFailureIsHarmless ==
    ASSUME MaxFailures >= 1, LongEnough(1)
    PROVE  Spec => ExpiresOnlyAfterFailures
<1>1. Init => Covered(1)
  BY InitCovered
<1>2. AnnouncerInv /\ AnnouncerInv' /\ OnlyChosenFail /\ Covered(1) /\ [Next]_vars => Covered(1)'
  BY CoveredStep, Numbers
<1>3. AnnouncerInv /\ OnlyChosenFail /\ Covered(1) /\ [Next]_vars =>
        [main = "held" /\ Live /\ ~Live' => failures >= 2]_vars
  <2> SUFFICES ASSUME AnnouncerInv, OnlyChosenFail, Covered(1), [Next]_vars, main = "held", Live, ~Live'
               PROVE  failures >= 2
    OBVIOUS
  <2>1. failures > 1 /\ failures \in Int
    BY ExpiryStep, Numbers DEF AnnouncerInv, Types
  <2> QED
    BY <2>1
<1> QED
  BY <1>1, <1>2, <1>3, AnnouncerTypes, FailuresAlways, PTL DEF Spec, ExpiresOnlyAfterFailures

\* A provider that holds its registration is registered, if the network is
\* faster than CALL_TIMEOUT, no more than MaxFailures calls in a row fail, and the
\* TTL granted leaves room for as many: what client.rs:277 and registry.md section 3 promise.
THEOREM HeldIsLive ==
    ASSUME Latency < CallTimeout, LongEnough(MaxFailures)
    PROVE  Spec => []HeldMeansLive
<1> DEFINE Inv == AnnouncerInv /\ OnlyChosenFail /\ Covered(MaxFailures) /\ HeldMeansLive
<1>1. Init => Covered(MaxFailures) /\ HeldMeansLive
  BY InitCovered, Numbers DEF Init, HeldMeansLive
<1>2. Inv /\ AnnouncerInv' /\ [Next]_vars => Covered(MaxFailures)'
  BY CoveredStep, Numbers
<1>3. Inv /\ [Next]_vars => HeldMeansLive'
  <2> SUFFICES ASSUME Inv, [Next]_vars, main' = "held" PROVE Live'
    BY DEF HeldMeansLive
  <2>1. CASE main = "held"
    <3>1. Live /\ failures <= MaxFailures /\ failures \in Int
      BY <2>1, Numbers DEF HeldMeansLive, OnlyChosenFail, AnnouncerInv, Types
    <3>2. ~Live' => failures > MaxFailures
      BY <2>1, <3>1, ExpiryStep, Numbers
    <3> QED
      BY <3>1, <3>2, Numbers
  <2>2. CASE main # "held"
    <3>1. Registered
      BY <2>2 DEF Next, vars, Main, Beat, Network, Registry, StartRegister, RegisterFails, StartDeregister,
         DeregisterEnds, Drop, Abort, BeatTicks, ReAnnounce, BeatEnds, Serve, Falter, ServeOrphan, LoseOrphan,
         Tick, RivalComes, RivalGoes
    <3> QED
      BY <3>1, RegisteredCovered, Numbers
  <2> QED
    BY <2>1, <2>2
<1> QED
  BY <1>1, <1>2, <1>3, AnnouncerTypes, FailuresAlways, PTL DEF Spec
=============================================================================
