--------------------------- MODULE RegistryStore ---------------------------
(***************************************************************************)
(* registryd: the handlers of crates/registry/src/store.rs over one        *)
(* JetStream key-value bucket.                                             *)
(*                                                                         *)
(* The server answers every request in a task of its own (server.rs:38),   *)
(* and several registryd processes may share the bucket, so handlers       *)
(* interleave at every await on the bucket.  A handler here is a member of *)
(* Calls: idle, or between two of its bucket operations.  A step is one    *)
(* bucket operation with the computation that follows its answer.          *)
(*                                                                         *)
(* An interface with its exact version is one element of Ifaces, and a     *)
(* question (a name and a version requirement) is the set of interfaces    *)
(* that satisfy it.                                                        *)
(***************************************************************************)
EXTENDS FiniteSets, ClaimLists

CONSTANTS
    Ids,          \* provider ids, the keys of the bucket
    Ifaces,       \* "name@version" pairs
    Digests,      \* shape digests
    Claims,       \* the lists of claims a provider may come with
    Submissions,  \* the providers some caller may try to register
    Questions,    \* what may be asked of resolve; {} does not parse
    Calls,        \* handler tasks that may run at once
    MinTtl,       \* Limits.min_ttl
    MaxTtl,       \* Limits.max_ttl
    MaxAge,       \* max_age of the bucket, set by the registryd that made it
    Unreadable,   \* ids whose entry a get may fail to return
    MaxTime,      \* bound on the clock, for model checking
    None

Claim == [iface : Ifaces, digest : Digests]
Provider == [id : Ids, claims : Claims, ttl : Nat]

\* The registration of an id.  The id itself is the key of the bucket.
Registration == [claims : Claims, ttl : Nat, expires : Nat]

ASSUME LimitsAssumption == MinTtl \in Nat /\ MaxTtl \in Nat /\ MaxAge \in Nat
ASSUME TimeAssumption == MaxTime \in Nat
ASSUME ClaimsAssumption == Claims \subseteq Seq(Claim)
ASSUME SubmissionAssumption == Submissions \subseteq Provider
ASSUME QuestionAssumption == Questions \subseteq SUBSET Ifaces
ASSUME NoneAssumption ==
    None \notin Registration /\ None \notin [claims : Claims, expires : Nat]

VARIABLES
    now,      \* seconds since the epoch
    bucket,   \* the entry of each id, or None
    pc,       \* where each handler is
    op,       \* the function it serves
    arg,      \* its argument
    todo,     \* listed keys it has yet to get
    found,    \* live registrations it has got, in the order it got them
    out,      \* the entry it is about to put, and once idle its reply
    touched   \* history: ids written since it listed or got

vars == <<now, bucket, pc, op, arg, todo, found, out, touched>>
locals == <<pc, op, arg, todo, found, out>>

-----------------------------------------------------------------------------
(* Limits::clamp and validate.                                             *)

\* Mutant: only the lower bound is imposed.
UnboundedClamp(ttl) == IF ttl < MinTtl THEN MinTtl ELSE ttl

Clamp(ttl) ==
    LET min == IF MinTtl < 1 THEN 1 ELSE MinTtl
        max == IF MaxTtl < min THEN min ELSE MaxTtl
    IN  IF ttl < min THEN min ELSE IF ttl > max THEN max ELSE ttl

\* A provider of nothing stands for everything validate refuses.
Valid(p) == p.claims # << >>

Validated(p) == [p EXCEPT !.ttl = Clamp(p.ttl)]

-----------------------------------------------------------------------------
(* Registry::live: an entry counts until the deadline it carries.          *)

Live(id) == bucket[id] # None /\ bucket[id].expires > now

\* The keys listing knows nothing of deadlines.
Keys == {id \in Ids : bucket[id] # None}

\* HashMap::insert keeps the claim of the entry read last.
LastClaimant(seq, me, i, k) ==
    /\ k \in DOMAIN seq
    /\ seq[k].id # me
    /\ i \in IfacesIn(seq[k].claims)
    /\ \A l \in DOMAIN seq :
          l > k /\ seq[l].id # me => i \notin IfacesIn(seq[l].claims)

\* Someone but p has the last word on the interface of a claim of p, and it is
\* another digest.
IsContested(seq, p, claim) ==
    \E k \in DOMAIN seq :
        /\ LastClaimant(seq, p.id, claim.iface, k)
        /\ LastWord(seq[k].claims, claim.iface) # claim.digest

\* Mutant: a provider that is registered already is not checked again.
ConflictsOfNewcomers(seq, p) ==
    /\ \A k \in DOMAIN seq : seq[k].id # p.id
    /\ \E n \in DOMAIN p.claims : IsContested(seq, p, p.claims[n])

\* Registry::reject_conflicts over what was read: no claim of p is compared
\* with another claim of p.
Conflicts(seq, p) == \E n \in DOMAIN p.claims : IsContested(seq, p, p.claims[n])

\* The providers among seq that implement what q asks for.
Matching(seq, q) ==
    {seq[k].id : k \in {l \in DOMAIN seq : IfacesIn(seq[l].claims) \cap q # {}}}

\* The interface references of seq, deduplicated.
Interfaces(seq) ==
    UNION {{seq[k].claims[n] : n \in DOMAIN seq[k].claims} : k \in DOMAIN seq}

-----------------------------------------------------------------------------
Ok(answer) == [status |-> "ok", answer |-> answer]
Err(error) == [status |-> error, answer |-> {}]

\* The handler ends with reply r.
Reply(c, r) ==
    /\ pc' = [pc EXCEPT ![c] = "idle"]
    /\ op' = [op EXCEPT ![c] = None]
    /\ arg' = [arg EXCEPT ![c] = None]
    /\ todo' = [todo EXCEPT ![c] = {}]
    /\ found' = [found EXCEPT ![c] = << >>]
    /\ out' = [out EXCEPT ![c] = r]

\* The history of what was written while a handler held what it had read:
\* handler c ends, having written id or nothing.
EndsHavingWritten(c, id) ==
    touched' = [d \in Calls |-> IF d = c \/ pc[d] = "idle" THEN {} ELSE touched[d] \cup {id}]
Ends(c) == touched' = [touched EXCEPT ![c] = {}]

\* Lists the keys of the bucket, to get them one by one.
StartListing(c, f, x) ==
    /\ pc' = [pc EXCEPT ![c] = "reading"]
    /\ op' = [op EXCEPT ![c] = f]
    /\ arg' = [arg EXCEPT ![c] = x]
    /\ todo' = [todo EXCEPT ![c] = Keys]
    /\ found' = [found EXCEPT ![c] = << >>]
    /\ out' = [out EXCEPT ![c] = None]

StartRegister(c, p) ==
    /\ pc[c] = "idle"
    /\ IF Valid(p)
       THEN StartListing(c, "register", Validated(p))
       ELSE Reply(c, Err("invalid"))
    /\ UNCHANGED <<now, bucket, touched>>

StartResolve(c, q) ==
    /\ pc[c] = "idle"
    /\ IF q # {}
       THEN StartListing(c, "resolve", [asks |-> q])
       ELSE Reply(c, Err("invalid"))
    /\ UNCHANGED <<now, bucket, touched>>

StartListInterfaces(c) ==
    /\ pc[c] = "idle"
    /\ StartListing(c, "list-interfaces", None)
    /\ UNCHANGED <<now, bucket, touched>>

\* Mutant: the first get that yields nothing ends the loop.
ReadEntryOrStop(c, id) ==
    /\ pc[c] = "reading"
    /\ id \in todo[c]
    /\ IF Live(id)
       THEN /\ todo' = [todo EXCEPT ![c] = @ \ {id}]
            /\ found' = [found EXCEPT ![c] =
                  Append(@, [id |-> id, claims |-> bucket[id].claims])]
       ELSE todo' = [todo EXCEPT ![c] = {}] /\ found' = found
    /\ UNCHANGED <<now, bucket, pc, op, arg, out, touched>>

\* One get of live_registrations.  A get that fails leaves the entry out.
ReadEntry(c, id) ==
    /\ pc[c] = "reading"
    /\ id \in todo[c]
    /\ todo' = [todo EXCEPT ![c] = @ \ {id}]
    /\ \/ found' = IF Live(id)
                   THEN [found EXCEPT ![c] =
                            Append(@, [id |-> id, claims |-> bucket[id].claims])]
                   ELSE found
       \/ id \in Unreadable /\ found' = found
    /\ UNCHANGED <<now, bucket, pc, op, arg, out, touched>>

\* The end of register before its put: the conflict check and the deadline.
CheckConflicts(c) ==
    /\ pc[c] = "reading" /\ op[c] = "register" /\ todo[c] = {}
    /\ IF Conflicts(found[c], arg[c])
       THEN Reply(c, Err("conflict")) /\ Ends(c)
       ELSE /\ pc' = [pc EXCEPT ![c] = "putting"]
            /\ out' = [out EXCEPT ![c] =
                  [id |-> arg[c].id,
                   reg |-> [claims |-> arg[c].claims, ttl |-> arg[c].ttl,
                            expires |-> now + arg[c].ttl]]]
            /\ UNCHANGED <<op, arg, todo, found, touched>>
    /\ UNCHANGED <<now, bucket>>

AnswerDiscovery(c) ==
    /\ pc[c] = "reading" /\ todo[c] = {}
    /\ \/ op[c] = "resolve" /\ Reply(c, Ok(Matching(found[c], arg[c].asks)))
       \/ op[c] = "list-interfaces" /\ Reply(c, Ok(Interfaces(found[c])))
    /\ Ends(c)
    /\ UNCHANGED <<now, bucket>>

\* What a heartbeat is about to put: the entry it got, with a new deadline.
Renew(c, id, expires) ==
    /\ pc' = [pc EXCEPT ![c] = "putting"]
    /\ op' = [op EXCEPT ![c] = "heartbeat"]
    /\ arg' = [arg EXCEPT ![c] = id]
    /\ out' = [out EXCEPT ![c] = [id |-> id, reg |-> [bucket[id] EXCEPT !.expires = expires]]]
    /\ UNCHANGED <<todo, found>>

\* Mutant: the TTL is not added.
StartHeartbeatNow(c, id) ==
    /\ pc[c] = "idle"
    /\ IF Live(id) THEN Renew(c, id, now) ELSE Reply(c, Err("not-found"))
    /\ UNCHANGED <<now, bucket, touched>>

\* Mutant: an entry past its deadline is renewed as well.
StartHeartbeatOfDead(c, id) ==
    /\ pc[c] = "idle"
    /\ IF bucket[id] # None
       THEN Renew(c, id, now + bucket[id].ttl)
       ELSE Reply(c, Err("not-found"))
    /\ UNCHANGED <<now, bucket, touched>>

\* Registry::heartbeat as far as its put.
StartHeartbeat(c, id) ==
    /\ pc[c] = "idle"
    /\ IF Live(id)
       THEN Renew(c, id, now + bucket[id].ttl)
       ELSE Reply(c, Err("not-found"))
    /\ UNCHANGED <<now, bucket, touched>>

StartDeregister(c, id) ==
    /\ pc[c] = "idle"
    /\ IF Live(id)
       THEN /\ pc' = [pc EXCEPT ![c] = "deleting"]
            /\ op' = [op EXCEPT ![c] = "deregister"]
            /\ arg' = [arg EXCEPT ![c] = id]
            /\ out' = [out EXCEPT ![c] = None]
            /\ UNCHANGED <<todo, found>>
       ELSE Reply(c, Err("not-found"))
    /\ UNCHANGED <<now, bucket, touched>>

\* Registry::write: an unconditional put, whose acknowledgement may be lost.
Put(c) ==
    /\ pc[c] = "putting"
    /\ bucket' = [bucket EXCEPT ![out[c].id] = out[c].reg]
    /\ \E r \in {Ok({}), Err("unavailable")} : Reply(c, r)
    /\ EndsHavingWritten(c, out[c].id)
    /\ UNCHANGED now

Delete(c) ==
    /\ pc[c] = "deleting"
    /\ bucket' = [bucket EXCEPT ![arg[c]] = None]
    /\ \E r \in {Ok({}), Err("unavailable")} : Reply(c, r)
    /\ EndsHavingWritten(c, arg[c])
    /\ UNCHANGED now

\* The write never reached the bucket.
WriteFails(c) ==
    /\ pc[c] \in {"putting", "deleting"}
    /\ Reply(c, Err("unavailable"))
    /\ Ends(c)
    /\ UNCHANGED <<now, bucket>>

\* Listing the keys, or the one get of a heartbeat or a deregister, failed.
StartFails(c) ==
    /\ pc[c] = "idle"
    /\ Reply(c, Err("unavailable"))
    /\ Ends(c)
    /\ UNCHANGED <<now, bucket>>

\* The bucket's max_age, counted from the put: it removes the message without
\* writing a delete marker.
Collect(id) ==
    /\ bucket[id] # None
    /\ now >= (bucket[id].expires - bucket[id].ttl) + MaxAge
    /\ bucket' = [bucket EXCEPT ![id] = None]
    /\ UNCHANGED <<now, locals, touched>>

Tick ==
    /\ now < MaxTime
    /\ now' = now + 1
    /\ UNCHANGED <<bucket, locals, touched>>

-----------------------------------------------------------------------------
Init ==
    /\ now = 0
    /\ bucket = [id \in Ids |-> None]
    /\ pc = [c \in Calls |-> "idle"]
    /\ op = [c \in Calls |-> None]
    /\ arg = [c \in Calls |-> None]
    /\ todo = [c \in Calls |-> {}]
    /\ found = [c \in Calls |-> << >>]
    /\ out = [c \in Calls |-> None]
    /\ touched = [c \in Calls |-> {}]

Handler(c) ==
    \/ \E p \in Submissions : StartRegister(c, p)
    \/ \E q \in Questions : StartResolve(c, q)
    \/ StartListInterfaces(c)
    \/ \E id \in Ids : StartHeartbeat(c, id) \/ StartDeregister(c, id)
    \/ \E id \in Ids : ReadEntry(c, id)
    \/ CheckConflicts(c)
    \/ AnswerDiscovery(c)
    \/ Put(c)
    \/ Delete(c)
    \/ WriteFails(c)
    \/ StartFails(c)

Next ==
    \/ \E c \in Calls : Handler(c)
    \/ \E id \in Ids : Collect(id)
    \/ Tick

Spec == Init /\ [][Next]_vars

-----------------------------------------------------------------------------
(* Properties.                                                             *)

\* What registry.md section 5 says of a register: no two live registrations
\* give one interface and version differing digests.
NoConflictingClaims ==
    \A a, b \in Ids : a # b /\ Live(a) /\ Live(b) =>
        ~ Disagree(bucket[a].claims, bucket[b].claims)

\* What a handler has read of an entry that nobody wrote since it listed, and
\* that it is not still to get: the entry, if it is live and could be read, and
\* nothing else of that id.
Faithful(c) ==
    \A id \in Ids \ (touched[c] \cup todo[c]) :
        /\ Live(id) /\ id \notin Unreadable =>
              \E k \in DOMAIN found[c] : found[c][k] = [id |-> id, claims |-> bucket[id].claims]
        /\ bucket[id] # None =>
              \A k \in DOMAIN found[c] :
                  found[c][k].id = id => found[c][k].claims = bucket[id].claims

\* What live_registrations has of an entry nobody wrote since the listing is
\* what the bucket holds: every live entry already got is there, and nothing
\* got has been replaced or deleted, although the gets are not one snapshot.
\* An entry whose get failed is missing (store.rs:210).
ReadingIsFaithful == \A c \in Calls : pc[c] = "reading" => Faithful(c)

\* Someone but me was read whose last word on i is not the one of id.
Outspoken(seen, me, id, i) ==
    \E k \in DOMAIN seen :
        /\ seen[k].id \notin {me, id}
        /\ i \in IfacesIn(seen[k].claims)
        /\ LastWord(seen[k].claims, i) # LastWord(bucket[id].claims, i)

\* What is about to be put repeats the last word of every live entry of another
\* provider that could be read and has stood since the listing, or what was
\* read disagreed with that entry already.
ConflictChecked(c) ==
    \A id \in Ids \ ({out[c].id} \cup touched[c] \cup Unreadable) : Live(id) =>
        \A i \in IfacesIn(bucket[id].claims) :
            \/ Repeats(out[c].reg.claims, bucket[id].claims, i)
            \/ Outspoken(found[c], out[c].id, id, i)

\* A registration about to be put gives no interface another digest than the
\* last word of a live entry of another provider that could be read and has
\* stood since the listing, unless the last words that were read disagreed
\* already: but for the writes that race it, reject_conflicts lets through only
\* what an entry had said of an interface before its last word.
ConflictNeedsRace ==
    \A c \in Calls : pc[c] = "putting" /\ op[c] = "register" => ConflictChecked(c)

\* What is about to be put only extends the entry it replaces.
Extends(c) ==
    LET id == out[c].id IN
    id \notin touched[c] /\ bucket[id] # None =>
        /\ out[c].reg.claims = bucket[id].claims
        /\ out[c].reg.ttl = bucket[id].ttl
        /\ out[c].reg.expires >= bucket[id].expires

\* A heartbeat about to put only extends its entry, claims and TTL unchanged
\* and the deadline no earlier, unless the entry was written after its get:
\* the put is unconditional, so exactly that race is unguarded.
HeartbeatExtendsUnlessRaced ==
    \A c \in Calls : pc[c] = "putting" /\ op[c] = "heartbeat" => Extends(c)

\* The bucket's max_age is a garbage collector, not the expiry mechanism
\* (store.rs:50-52): whatever leaves the bucket without a delete was dead.
OnlyTheDeadAreCollected ==
    [][\A id \in Ids : Live(id) /\ bucket'[id] = None =>
          \E c \in Calls : pc[c] = "deleting" /\ arg[c] = id /\ pc'[c] = "idle"]_vars

\* What registry.md section 3 says of a heartbeat ("extends the entry by
\* ttl-secs", and "on an expired or unknown id returns not-found"): its put
\* neither brings back an entry that a deregister removed after the heartbeat
\* read it, nor restores claims that a register replaced.
HeartbeatOnlyExtends ==
    [][\A c \in Calls :
          LET id == out[c].id IN
          pc[c] = "putting" /\ op[c] = "heartbeat" /\ bucket'[id] # bucket[id]
                /\ pc'[c] = "idle" =>
              bucket[id] # None /\ bucket'[id].claims = bucket[id].claims]_vars

-----------------------------------------------------------------------------
(* One handler at a time, registryd keeps the promise of registry.md.      *)

\* What the bucket shows: its live entries, without their TTL.
Shown ==
    [id \in Ids |->
        IF Live(id) THEN [claims |-> bucket[id].claims, expires |-> bucket[id].expires] ELSE None]

\* The ids that some deregister is about to delete.
Asked == {arg[c] : c \in {d \in Calls : pc[d] = "deleting"}}

Promise == INSTANCE RegistryPromise WITH MaxTtl <- Clamp(MaxTtl), time <- now, live <- Shown, asked <- Asked

\* Every step of a lone handler, of the clock and of the collector is a step
\* of the registry that registry.md describes, or changes nothing it shows:
\* key-by-key reads, deadlines kept in the entries and the collector behind
\* them are invisible, no step loses a live entry, and none admits one that is
\* at odds with another: of an interface that two live registrations claim, one
\* says only what the other says last.  A provider that says two things of an
\* interface is admitted, and stays beside those that repeat its last.
KeepsPromise == Promise!PromiseSpec
=============================================================================
