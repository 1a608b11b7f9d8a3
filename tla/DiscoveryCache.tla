--------------------------- MODULE DiscoveryCache ---------------------------
(***************************************************************************)
(* Client::resolve and the task that invalidates its cache                 *)
(* (crates/registry/src/client.rs), against a registry read key by key.    *)
(*                                                                         *)
(* A host asks the registry a question, the registryd that answers gets    *)
(* one entry after another, and the answer is cached unless the watch on   *)
(* the bucket has delivered a change since the question was asked.  The    *)
(* writers of the bucket, the reader and the watch are three independent   *)
(* parties.                                                                *)
(*                                                                         *)
(* The bucket keeps of an entry what a reader can tell: what it claims     *)
(* (Contents) and whether its deadline has passed.  Expiry writes nothing, *)
(* and neither does the bucket's max_age when it collects an entry that    *)
(* has expired (OnlyTheDeadAreCollected of RegistryStore), so the watch    *)
(* sees neither.                                                           *)
(***************************************************************************)
EXTENDS Integers

CONSTANTS
    Ids,         \* provider ids, the keys of the bucket
    Contents,    \* what an entry may claim
    Questions,   \* name and version requirement of a resolve
    Selects,     \* Selects[q]: the contents that answer question q
    Resolvers,   \* calls of resolve that may be in flight at once
    Unreadable,  \* ids whose entry a registryd may fail to get
    MaxWrites,   \* bound on writes to the bucket, for model checking
    MaxErrors,   \* bound on errors of the watch, for model checking
    Absent

\* A collected entry is one the bucket no longer has.
Entry == [val : Contents, state : {"live", "expired", "collected"}]
Answer == [Ids -> Contents \cup {Absent}]

ASSUME AbsentAssumption == Absent \notin Contents \cup Entry \cup Answer
ASSUME SelectsAssumption == Selects \in [Questions -> SUBSET Contents]
ASSUME BoundAssumption == MaxWrites \in Nat /\ MaxErrors \in Nat

VARIABLES
    bucket,       \* the entry of each id, or Absent
    writes,       \* how often the bucket was written
    undelivered,  \* of each id, changes the watch has yet to deliver
    cache,        \* Cache.entries: the answer to each question, or Absent
    generation,   \* Cache.generation
    stopped,      \* Cache.stopped
    errors,       \* how often the watch yielded an error
    pc,           \* where each resolve is
    question,     \* what it asks
    captured,     \* the generation it saw when it missed
    todo,         \* keys its registryd has yet to get
    answer        \* what its registryd has got, and in the end its result

store == <<bucket, writes, undelivered>>
client == <<cache, generation, stopped, errors>>
calls == <<pc, question, captured, todo, answer>>
cacheVars == <<store, client, calls>>

-----------------------------------------------------------------------------
(* The bucket, written by registryd.                                       *)

Present(id) == bucket[id] # Absent /\ bucket[id].state # "collected"

Changed(id, e) ==
    /\ writes < MaxWrites
    /\ writes' = writes + 1
    /\ bucket' = [bucket EXCEPT ![id] = e]
    /\ undelivered' = [undelivered EXCEPT ![id] = @ + 1]

\* A register or a heartbeat, which may reach the bucket after its deadline.
Put(id) ==
    /\ \E v \in Contents, s \in {"live", "expired"} :
          Changed(id, [val |-> v, state |-> s])
    /\ UNCHANGED <<client, calls>>

\* A deregister.
Delete(id) ==
    /\ Changed(id, Absent)
    /\ UNCHANGED <<client, calls>>

Expire(id) ==
    /\ bucket[id] # Absent /\ bucket[id].state = "live"
    /\ bucket' = [bucket EXCEPT ![id].state = "expired"]
    /\ UNCHANGED <<writes, undelivered, client, calls>>

Collect(id) ==
    /\ bucket[id] # Absent /\ bucket[id].state = "expired"
    /\ bucket' = [bucket EXCEPT ![id].state = "collected"]
    /\ UNCHANGED <<writes, undelivered, client, calls>>

-----------------------------------------------------------------------------
(* Client::resolve.                                                        *)

\* What a registryd that gets entry e contributes to the answer of q.
Selected(q, e) ==
    IF e # Absent /\ e.state = "live" /\ e.val \in Selects[q] THEN e.val ELSE Absent

\* A miss of question q, to be cached if the generation is still g.
Miss(r, q, g) ==
    /\ pc' = [pc EXCEPT ![r] = "asking"]
    /\ question' = [question EXCEPT ![r] = q]
    /\ captured' = [captured EXCEPT ![r] = g]
    /\ answer' = [answer EXCEPT ![r] = [id \in Ids |-> Absent]]
    /\ UNCHANGED todo

\* Mutant: the generation is captured one ahead.
ResolveAhead(r, q) ==
    /\ pc[r] = "idle"
    /\ cache[q] = Absent
    /\ Miss(r, q, generation + 1)
    /\ UNCHANGED <<store, client>>

\* A hit returns at once; a miss remembers the generation, and asks.
Resolve(r, q) ==
    /\ pc[r] = "idle"
    /\ IF cache[q] # Absent
       THEN /\ answer' = [answer EXCEPT ![r] = cache[q]]
            /\ UNCHANGED <<pc, question, captured, todo>>
       ELSE Miss(r, q, generation)
    /\ UNCHANGED <<store, client>>

\* The registryd that serves the call lists the keys.
ListKeys(r) ==
    /\ pc[r] = "asking"
    /\ pc' = [pc EXCEPT ![r] = "reading"]
    /\ todo' = [todo EXCEPT ![r] = {id \in Ids : Present(id)}]
    /\ UNCHANGED <<store, client, question, captured, answer>>

\* It gets one of them; a get that fails leaves the entry out.
ReadKey(r, id) ==
    /\ pc[r] = "reading"
    /\ id \in todo[r]
    /\ todo' = [todo EXCEPT ![r] = @ \ {id}]
    /\ \/ answer' = [answer EXCEPT ![r][id] = Selected(question[r], bucket[id])]
       \/ id \in Unreadable /\ answer' = answer
    /\ UNCHANGED <<store, client, pc, question, captured>>

\* The answer arrives, and is cached if so decided.
ReturnCaching(r, cached) ==
    /\ pc[r] = "reading" /\ todo[r] = {}
    /\ pc' = [pc EXCEPT ![r] = "idle"]
    /\ cache' = IF cached THEN [cache EXCEPT ![question[r]] = answer[r]] ELSE cache
    /\ UNCHANGED <<store, generation, stopped, errors, question, captured, todo, answer>>

\* Mutants: each half of the condition alone.
ReturnUnlessStopped(r) == ReturnCaching(r, ~stopped)
ReturnUnlessInvalidated(r) == ReturnCaching(r, generation = captured[r])

\* It is cached unless an invalidation raced it or the watch is gone.
Return(r) == ReturnCaching(r, ~stopped /\ generation = captured[r])

\* The call times out, or the registry is unavailable.
Fail(r) ==
    /\ pc[r] # "idle"
    /\ pc' = [pc EXCEPT ![r] = "idle"]
    /\ todo' = [todo EXCEPT ![r] = {}]
    /\ answer' = [answer EXCEPT ![r] = [id \in Ids |-> Absent]]
    /\ UNCHANGED <<store, client, question, captured>>

-----------------------------------------------------------------------------
(* invalidate: the body of its loop never looks at what changed, so the    *)
(* order of deliveries across keys does not matter.  The bucket keeps one  *)
(* revision of a key, so changes of a key may be delivered as one.         *)

Invalidate ==
    /\ cache' = [q \in Questions |-> Absent]
    /\ generation' = generation + 1

Deliver(id) ==
    /\ ~stopped
    /\ \E n \in 1..undelivered[id] :
          undelivered' = [undelivered EXCEPT ![id] = @ - n]
    /\ Invalidate
    /\ UNCHANGED <<bucket, writes, stopped, errors, calls>>

\* An error item of the stream invalidates like a change.
WatchErrs ==
    /\ ~stopped
    /\ errors < MaxErrors
    /\ errors' = errors + 1
    /\ Invalidate
    /\ UNCHANGED <<store, stopped, calls>>

\* The stream ends, and nothing is cached from here on.
WatchEnds ==
    /\ ~stopped
    /\ stopped' = TRUE
    /\ cache' = [q \in Questions |-> Absent]
    /\ UNCHANGED <<store, generation, errors, calls>>

-----------------------------------------------------------------------------
\* Client::connect has the watch before it hands out the client.
CacheInit ==
    /\ bucket \in [Ids -> Entry \cup {Absent}]
    /\ writes = 0
    /\ undelivered = [id \in Ids |-> 0]
    /\ cache = [q \in Questions |-> Absent]
    /\ generation = 0
    /\ stopped = FALSE
    /\ errors = 0
    /\ pc = [r \in Resolvers |-> "idle"]
    /\ question \in [Resolvers -> Questions]
    /\ captured = [r \in Resolvers |-> 0]
    /\ todo = [r \in Resolvers |-> {}]
    /\ answer = [r \in Resolvers |-> [id \in Ids |-> Absent]]

Writer == \E id \in Ids : Put(id) \/ Delete(id) \/ Expire(id) \/ Collect(id)

Resolver(r) ==
    \/ \E q \in Questions : Resolve(r, q)
    \/ ListKeys(r)
    \/ \E id \in Ids : ReadKey(r, id)
    \/ Return(r)
    \/ Fail(r)

Watch == (\E id \in Ids : Deliver(id)) \/ WatchErrs \/ WatchEnds

CacheNext == Writer \/ (\E r \in Resolvers : Resolver(r)) \/ Watch

CacheSpec == CacheInit /\ [][CacheNext]_cacheVars

\* The watch delivers every change unless it ends: the JetStream consumer
\* behind it resumes where it left off.  A resolve under way ends, if only by
\* its timeout.  Nobody is obliged to write or to ask.
CacheFairSpec ==
    /\ CacheSpec
    /\ \A id \in Ids : WF_cacheVars(Deliver(id))
    /\ \A r \in Resolvers :
          WF_cacheVars(ListKeys(r) \/ (\E id \in Ids : ReadKey(r, id)) \/ Return(r) \/ Fail(r))

-----------------------------------------------------------------------------
(* Properties.                                                             *)

\* Every variable keeps its type, and no resolve is ahead of the generation.
TypeOK ==
    /\ bucket \in [Ids -> Entry \cup {Absent}]
    /\ writes \in Nat
    /\ undelivered \in [Ids -> Nat]
    /\ cache \in [Questions -> Answer \cup {Absent}]
    /\ generation \in Nat
    /\ stopped \in BOOLEAN
    /\ errors \in Nat
    /\ pc \in [Resolvers -> {"idle", "asking", "reading"}]
    /\ question \in [Resolvers -> Questions]
    /\ captured \in [Resolvers -> Nat]
    /\ todo \in [Resolvers -> SUBSET Ids]
    /\ answer \in [Resolvers -> Answer]
    /\ \A r \in Resolvers : captured[r] <= generation

\* What x says of provider id is what the bucket holds: no claim that was
\* replaced or withdrawn, and no live provider missing.
Current(x, q, id) ==
    /\ x # Absent => bucket[id] # Absent /\ bucket[id].val = x
    /\ Selected(q, bucket[id]) # Absent /\ id \notin Unreadable =>
          x = bucket[id].val

\* A cached answer is wrong about a provider only while a change of that
\* provider is on its way: once the watch has delivered what happened to it,
\* no cached answer keeps a registration that was replaced or withdrawn, nor
\* leaves out a live one, although the answer was put together from several
\* gets and arrived after any number of changes.
StaleOnlyWhileUndelivered ==
    \A q \in Questions, id \in Ids :
        cache[q] # Absent /\ undelivered[id] = 0 => Current(cache[q][id], q, id)

\* Why the cache is right: what an answer under way says of the keys got so
\* far is already current, while the generation it captured still stands.
InFlightCurrent ==
    \A r \in Resolvers :
        /\ pc[r] = "asking" => \A id \in Ids : answer[r][id] = Absent
        /\ pc[r] = "reading" =>
              /\ \A id \in todo[r] : answer[r][id] = Absent
              /\ captured[r] = generation =>
                    \A id \in Ids \ todo[r] :
                        undelivered[id] = 0 => Current(answer[r][id], question[r], id)

\* Once the watch has ended nothing is cached, not even by a resolve that was
\* in flight when it did: nobody would ever invalidate it.
StoppedCachesNothing == stopped => \A q \in Questions : cache[q] = Absent

\* The inductive invariant.
CacheInv ==
    /\ TypeOK
    /\ InFlightCurrent
    /\ StaleOnlyWhileUndelivered
    /\ StoppedCachesNothing

\* A provider that deregistered for good is in the end in no cached answer,
\* and one registered for good is in the end in every cached answer to a
\* question it matches: the "eventually" of registry.md section 4.
EventuallyCurrent ==
    \A id \in Ids, q \in Questions :
        /\ <>[](bucket[id] = Absent) =>
              <>[](cache[q] # Absent => cache[q][id] = Absent)
        /\ id \notin Unreadable => \A v \in Selects[q] :
              <>[](bucket[id] = [val |-> v, state |-> "live"]) =>
                  <>[](cache[q] # Absent => cache[q][id] = v)
=============================================================================
