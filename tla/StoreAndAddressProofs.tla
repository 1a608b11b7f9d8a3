----------------------- MODULE StoreAndAddressProofs -----------------------
(***************************************************************************)
(* What the two ends of a registration promise: registryd, which keeps it, *)
(* and the subject it stands for, at which the provider is called.         *)
(*                                                                         *)
(* RegistryStore, for any number of ids, interfaces, shapes and handlers   *)
(* at once, and any limits: what a handler read is the bucket but for the  *)
(* writes that raced it, whatever it then does; and one handler at a time  *)
(* keeps the promise of registry.md.                                       *)
(*                                                                         *)
(* Addressing, for all names, versions, providers and functions: a name    *)
(* survives its journey, and a call comes to whoever serves the interface  *)
(* that was resolved.                                                      *)
(***************************************************************************)
EXTENDS RegistryStore, Addressing, Recursion, SequenceTheorems

-----------------------------------------------------------------------------
(* RegistryStore.                                                          *)

\* What live_registrations has got of an entry.
Seen == [id : Ids, claims : Claims]

\* The largest TTL that validate lets through.
Longest == Clamp(MaxTtl)

\* What is stored, or about to be: no TTL above the limit, no deadline later
\* than one TTL from now.
Bounded(reg) == reg.ttl <= Longest /\ reg.expires <= now + reg.ttl

Types ==
    /\ now \in Nat
    /\ bucket \in [Ids -> Registration \cup {None}]
    /\ pc \in [Calls -> {"idle", "reading", "putting", "deleting"}]
    /\ DOMAIN op = Calls /\ DOMAIN arg = Calls /\ DOMAIN out = Calls
    /\ todo \in [Calls -> SUBSET Ids]
    /\ found \in [Calls -> Seq(Seen)]
    /\ touched \in [Calls -> SUBSET Ids]

StoredBounded == \A id \in Ids : bucket[id] # None => Bounded(bucket[id])

\* A registration that register works on was validated.
Admitted(c) == arg[c] \in Provider /\ arg[c].ttl <= Longest

\* What a handler holds between two of its operations.
Holds(c) ==
    /\ pc[c] = "idle" => touched[c] = {} /\ todo[c] = {} /\ found[c] = << >>
    /\ pc[c] = "reading" =>
          /\ op[c] \in {"register", "resolve", "list-interfaces"}
          /\ op[c] = "register" => Admitted(c)
    /\ pc[c] = "putting" =>
          /\ op[c] \in {"register", "heartbeat"}
          /\ out[c].id \in Ids /\ out[c].reg \in Registration /\ Bounded(out[c].reg)
    /\ pc[c] = "deleting" => arg[c] \in Ids

\* Keys yet to get have not been got.
GotOnce(c) == \A k \in DOMAIN found[c] : found[c][k].id \notin todo[c]

HandlerInv(c) ==
    /\ Holds(c)
    /\ pc[c] = "reading" => GotOnce(c) /\ Faithful(c)
    /\ pc[c] = "putting" /\ op[c] = "register" => ConflictChecked(c)
    /\ pc[c] = "putting" /\ op[c] = "heartbeat" => Extends(c)

StoreInv == Types /\ StoredBounded /\ \A c \in Calls : HandlerInv(c)

-----------------------------------------------------------------------------
(* Limits and conflicts.                                                   *)

\* validate never lets a TTL through above the largest.
LEMMA ClampBounds == ASSUME NEW ttl \in Nat PROVE Clamp(ttl) \in Nat /\ Clamp(ttl) <= Longest
BY LimitsAssumption DEF Clamp, Longest

\* Whoever claims an interface, someone claims it last.
LEMMA SomeoneClaimsLast ==
    ASSUME NEW seq \in Seq(Seen), NEW me, NEW i,
           NEW k \in DOMAIN seq, seq[k].id # me, i \in IfacesIn(seq[k].claims)
    PROVE  \E l \in DOMAIN seq : LastClaimant(seq, me, i, l)
<1> DEFINE T == {l \in DOMAIN seq : seq[l].id # me /\ i \in IfacesIn(seq[l].claims)}
<1>1. Len(seq) \in Nat /\ DOMAIN seq = 1..Len(seq) /\ T \in SUBSET (1..Len(seq)) /\ T # {}
    OBVIOUS
<1>2. PICK l \in T : \A j \in T : j <= l
    BY <1>1, GreatestNatural
<1>3. LastClaimant(seq, me, i, l)
    BY <1>1, <1>2 DEF LastClaimant
<1> QED
    BY <1>3

\* A last word is a word.
LEMMA LastWordIsSaid ==
    ASSUME NEW list \in Claims, NEW i \in IfacesIn(list)
    PROVE  \E n \in DOMAIN list : list[n].iface = i /\ list[n].digest = LastWord(list, i)
<1> DEFINE T == {n \in DOMAIN list : list[n].iface = i}
<1>1. Len(list) \in Nat /\ DOMAIN list = 1..Len(list) /\ T \in SUBSET (1..Len(list)) /\ T # {}
    BY ClaimsAssumption DEF IfacesIn
<1>2. PICK l \in T : \A m \in T : m <= l
    BY <1>1, GreatestNatural
<1>3. l \in DOMAIN list /\ IsLastOn(list, i, l)
    BY <1>1, <1>2 DEF IsLastOn
<1> DEFINE n == CHOOSE n \in DOMAIN list : IsLastOn(list, i, n)
<1>4. n \in DOMAIN list /\ IsLastOn(list, i, n)
    BY <1>3
<1>5. list[n].iface = i /\ list[n].digest = LastWord(list, i)
    BY <1>4 DEF LastWord, IsLastOn
<1> QED
    BY <1>4, <1>5

\* Lists that agree have the same last words.
LEMMA SameLastWord ==
    ASSUME NEW x \in Claims, NEW y \in Claims, Agree(x, y), NEW i \in IfacesIn(x) \cap IfacesIn(y)
    PROVE  LastWord(x, i) = LastWord(y, i)
<1>1. PICK n \in DOMAIN x : x[n].iface = i /\ x[n].digest = LastWord(x, i)
    BY LastWordIsSaid
<1>2. PICK m \in DOMAIN y : y[m].iface = i /\ y[m].digest = LastWord(y, i)
    BY LastWordIsSaid
<1> QED
    BY <1>1, <1>2 DEF Agree, Repeats

\* Lists that agree with each other and with themselves have one digest of an
\* interface.
LEMMA ConsistentListsAgree ==
    ASSUME NEW x \in Claims, NEW y \in Claims, Agree(x, y), Consistent(x), Consistent(y)
    PROVE  ~ Disagree(x, y)
<1> SUFFICES ASSUME NEW n \in DOMAIN x, NEW m \in DOMAIN y, x[n].iface = y[m].iface
             PROVE  x[n].digest = y[m].digest
    BY DEF Disagree
<1> DEFINE i == x[n].iface
<1>1. i \in IfacesIn(x) \cap IfacesIn(y)
    BY DEF IfacesIn
<1>2. PICK a \in DOMAIN x : x[a].iface = i /\ x[a].digest = LastWord(x, i)
    BY <1>1, LastWordIsSaid
<1>3. PICK b \in DOMAIN y : y[b].iface = i /\ y[b].digest = LastWord(y, i)
    BY <1>1, LastWordIsSaid
<1>4. x[n].digest = LastWord(x, i) /\ y[m].digest = LastWord(y, i)
    BY <1>2, <1>3 DEF Consistent, Disagree
<1> QED
    BY <1>1, <1>4, SameLastWord

-----------------------------------------------------------------------------
\* Nothing is registered, nobody is served.
LEMMA InitInv == Init => StoreInv
<1> SUFFICES ASSUME Init PROVE StoreInv
    OBVIOUS
<1>1. Types
    BY DEF Init, Types
<1>2. StoredBounded
    BY DEF Init, StoredBounded
<1>3. \A c \in Calls : HandlerInv(c)
    BY DEF Init, HandlerInv, Holds
<1> QED
    BY <1>1, <1>2, <1>3 DEF StoreInv

-----------------------------------------------------------------------------
(* Steps of one kind.                                                      *)

\* A handler that stands still keeps what it knows, while time passes and
\* entries it has no history of stay or leave.
LEMMA StandsStill ==
    ASSUME StoreInv, NEW c \in Calls,
           now' \in Nat, now' >= now,
           pc'[c] = pc[c], op'[c] = op[c], arg'[c] = arg[c],
           todo'[c] = todo[c], found'[c] = found[c], out'[c] = out[c],
           touched[c] \subseteq touched'[c],
           pc[c] = "idle" => touched'[c] = {},
           \A id \in Ids \ touched'[c] : bucket'[id] = bucket[id] \/ bucket'[id] = None
    PROVE  HandlerInv(c)'
<1>1. HandlerInv(c) /\ Types
    BY DEF StoreInv
<1>2. Holds(c)'
    <2>1. pc[c] = "putting" => Bounded(out[c].reg)'
        <3> SUFFICES ASSUME pc[c] = "putting" PROVE Bounded(out[c].reg)'
            OBVIOUS
        <3>1. out[c].reg \in Registration /\ Bounded(out[c].reg)
            BY <1>1 DEF HandlerInv, Holds
        <3>2. out[c].reg.ttl \in Nat /\ out[c].reg.expires \in Nat /\ now \in Nat
            BY <1>1, <3>1 DEF Types, Registration
        <3> QED
            BY <3>1, <3>2 DEF Bounded
    <2> QED
        BY <1>1, <2>1 DEF HandlerInv, Holds, Admitted
<1>3. ASSUME NEW id \in Ids, id \notin touched'[c], bucket'[id] # None
      PROVE  id \notin touched[c] /\ bucket'[id] = bucket[id] /\ (Live(id)' => Live(id))
    <2>1. id \notin touched[c] /\ bucket'[id] = bucket[id] /\ bucket[id] \in Registration
        BY <1>1, <1>3 DEF Types
    <2>2. bucket[id].expires \in Nat /\ now \in Nat
        BY <1>1, <2>1 DEF Types, Registration
    <2> QED
        BY <2>1, <2>2 DEF Live
<1>4. \A id : Live(id)' => bucket'[id] # None
    BY DEF Live
<1>5. pc[c] = "reading" => GotOnce(c)' /\ Faithful(c)'
    BY <1>1, <1>3, <1>4 DEF HandlerInv, GotOnce, Faithful
<1>6. pc[c] = "putting" /\ op[c] = "register" => ConflictChecked(c)'
    BY <1>1, <1>3, <1>4 DEF HandlerInv, ConflictChecked, Outspoken
<1>7. pc[c] = "putting" /\ op[c] = "heartbeat" => Extends(c)'
    BY <1>1, <1>3 DEF HandlerInv, Holds, Extends
<1> QED
    BY <1>2, <1>5, <1>6, <1>7 DEF HandlerInv

\* What a step of handler c leaves of the others.
Others(c) ==
    \A d \in Calls : d # c =>
        /\ pc'[d] = pc[d] /\ op'[d] = op[d] /\ arg'[d] = arg[d]
        /\ todo'[d] = todo[d] /\ found'[d] = found[d] /\ out'[d] = out[d]

\* A handler does something that does not write.
LEMMA QuietStep ==
    ASSUME StoreInv, NEW c \in Calls, UNCHANGED <<now, bucket>>, Others(c),
           \A d \in Calls : d # c => touched'[d] = touched[d],
           Types', HandlerInv(c)'
    PROVE  StoreInv'
<1>1. StoredBounded'
    BY DEF StoreInv, StoredBounded, Bounded
<1>2. ASSUME NEW d \in Calls, d # c PROVE HandlerInv(d)'
    <2>1. now \in Nat
        BY DEF StoreInv, Types
    <2>2. pc[d] = "idle" => touched[d] = {}
        BY DEF StoreInv, HandlerInv, Holds
    <2> QED
        BY <1>2, <2>1, <2>2, StandsStill DEF Others
<1> QED
    BY <1>1, <1>2 DEF StoreInv

\* It ends, having written nothing.
LEMMA EndStep ==
    ASSUME StoreInv, NEW c \in Calls, NEW r, Reply(c, r), UNCHANGED <<now, bucket>>,
           Ends(c) \/ (pc[c] = "idle" /\ UNCHANGED touched)
    PROVE  StoreInv'
<1>1. Types /\ HandlerInv(c)
    BY DEF StoreInv
<1>2. touched' \in [Calls -> SUBSET Ids] /\ touched'[c] = {} /\ \A d \in Calls : d # c => touched'[d] = touched[d]
    BY <1>1 DEF Types, HandlerInv, Holds, Ends
<1>3. Types'
    BY <1>1, <1>2 DEF Types, Reply
<1>4. HandlerInv(c)'
    BY <1>1, <1>2 DEF Types, Reply, HandlerInv, Holds
<1>5. Others(c)
    BY <1>1 DEF Types, Reply, Others
<1> QED
    BY <1>2, <1>3, <1>4, <1>5, QuietStep

\* It lists the keys: nothing is read yet, and what is not listed is not there.
LEMMA ListStep ==
    ASSUME StoreInv, NEW c \in Calls, NEW f \in {"register", "resolve", "list-interfaces"}, NEW x,
           f = "register" => x \in Provider /\ x.ttl <= Longest,
           pc[c] = "idle", StartListing(c, f, x), UNCHANGED <<now, bucket, touched>>
    PROVE  StoreInv'
<1>1. Types /\ HandlerInv(c)
    BY DEF StoreInv
<1>2. Types'
    BY <1>1 DEF Types, StartListing, Keys
<1>3. /\ pc'[c] = "reading" /\ op'[c] = f /\ arg'[c] = x
      /\ todo'[c] = {id \in Ids : bucket[id] # None} /\ found'[c] = << >> /\ touched'[c] = {}
    BY <1>1 DEF Types, StartListing, Keys, HandlerInv, Holds
<1>4. Holds(c)'
    BY <1>3 DEF Holds, Admitted
<1>5. GotOnce(c)' /\ Faithful(c)'
    BY <1>3 DEF GotOnce, Faithful, Live
<1>6. HandlerInv(c)'
    BY <1>3, <1>4, <1>5 DEF HandlerInv
<1>7. Others(c)
    BY <1>1 DEF Types, StartListing, Others
<1> QED
    BY <1>2, <1>6, <1>7, QuietStep

-----------------------------------------------------------------------------
(* The handlers.                                                           *)

LEMMA StartsKeepInv ==
    ASSUME StoreInv, NEW c \in Calls,
           \/ \E p \in Submissions : StartRegister(c, p)
           \/ \E q \in Questions : StartResolve(c, q)
           \/ StartListInterfaces(c)
           \/ StartFails(c)
    PROVE  StoreInv'
<1>1. ASSUME NEW p \in Submissions, StartRegister(c, p) PROVE StoreInv'
    <2>1. CASE ~Valid(p)
        BY <1>1, <2>1, EndStep DEF StartRegister
    <2>2. CASE Valid(p)
        <3>1. p \in Provider /\ Validated(p) \in Provider /\ Validated(p).ttl <= Longest
            BY SubmissionAssumption, ClampBounds DEF Validated, Provider
        <3>2. pc[c] = "idle" /\ StartListing(c, "register", Validated(p)) /\ UNCHANGED <<now, bucket, touched>>
            BY <1>1, <2>2 DEF StartRegister
        <3> QED
            BY <3>1, <3>2, ListStep
    <2> QED
        BY <2>1, <2>2
<1>2. ASSUME NEW q \in Questions, StartResolve(c, q) PROVE StoreInv'
    BY <1>2, EndStep, ListStep DEF StartResolve
<1>3. CASE StartListInterfaces(c)
    BY <1>3, ListStep DEF StartListInterfaces
<1>4. CASE StartFails(c)
    BY <1>4, EndStep DEF StartFails
<1> QED
    BY <1>1, <1>2, <1>3, <1>4

\* The one step that reads: what it appends is what the bucket holds.
LEMMA ReadKeepsInv == ASSUME StoreInv, NEW c \in Calls, NEW id \in Ids, ReadEntry(c, id) PROVE StoreInv'
<1> DEFINE e == [id |-> id, claims |-> bucket[id].claims]
<1>1. Types /\ Holds(c) /\ GotOnce(c) /\ Faithful(c) /\ pc[c] = "reading" /\ id \in todo[c]
    BY DEF StoreInv, ReadEntry, HandlerInv
<1>2. UNCHANGED <<now, bucket, pc, op, arg, out, touched>> /\ todo' = [todo EXCEPT ![c] = @ \ {id}]
    BY DEF ReadEntry
<1>3. found[c] \in Seq(Seen) /\ todo'[c] = todo[c] \ {id}
    BY <1>1, <1>2 DEF Types
<1>4. Live(id) => e \in Seen
    BY <1>1, NoneAssumption DEF Live, Types, Registration, Seen
<1>5. \/ Live(id) /\ found' = [found EXCEPT ![c] = Append(@, e)]
      \/ ~Live(id) /\ found' = found
      \/ id \in Unreadable /\ found' = found
    BY DEF ReadEntry
<1> HIDE DEF e
<1>6. found' \in [Calls -> Seq(Seen)]
    <2>1. Live(id) => Append(found[c], e) \in Seq(Seen)
        BY <1>3, <1>4
    <2>2. found \in [Calls -> Seq(Seen)]
        BY <1>1 DEF Types
    <2> QED
        BY <1>5, <2>1, <2>2
<1>7. ASSUME NEW k \in DOMAIN found'[c]
      PROVE  (k \in DOMAIN found[c] /\ found'[c][k] = found[c][k]) \/ (Live(id) /\ found'[c][k] = e)
    <2>1. CASE found' = found
        BY <2>1
    <2>2. CASE Live(id) /\ found' = [found EXCEPT ![c] = Append(@, e)]
        BY <1>1, <1>3, <1>4, <2>2 DEF Types
    <2> QED
        BY <1>5, <2>1, <2>2
<1>8. \A k \in DOMAIN found[c] : k \in DOMAIN found'[c] /\ found'[c][k] = found[c][k]
    <2>1. CASE found' = found
        BY <2>1
    <2>2. CASE Live(id) /\ found' = [found EXCEPT ![c] = Append(@, e)]
        BY <1>1, <1>3, <1>4, <2>2 DEF Types
    <2> QED
        BY <1>5, <2>1, <2>2
<1>9. Live(id) /\ id \notin Unreadable => \E k \in DOMAIN found'[c] : found'[c][k] = e
    <2> SUFFICES ASSUME Live(id), id \notin Unreadable PROVE \E k \in DOMAIN found'[c] : found'[c][k] = e
        OBVIOUS
    <2>1. found'[c] = Append(found[c], e) /\ e \in Seen
        BY <1>1, <1>4, <1>5 DEF Types
    <2>2. Len(found[c]) + 1 \in DOMAIN found'[c] /\ found'[c][Len(found[c]) + 1] = e
        BY <1>3, <2>1
    <2> QED
        BY <2>2
<1>10. e.id = id /\ e.claims = bucket[id].claims
    BY DEF e
<1>11. Types'
    BY <1>1, <1>2, <1>3, <1>6 DEF Types
<1>12. GotOnce(c)'
    BY <1>1, <1>3, <1>7, <1>10 DEF GotOnce
<1>13. Faithful(c)'
    <2> SUFFICES ASSUME NEW b \in Ids \ (touched[c] \cup (todo[c] \ {id}))
                 PROVE  /\ Live(b) /\ b \notin Unreadable =>
                              \E k \in DOMAIN found'[c] : found'[c][k] = [id |-> b, claims |-> bucket[b].claims]
                        /\ bucket[b] # None =>
                              \A k \in DOMAIN found'[c] : found'[c][k].id = b => found'[c][k].claims = bucket[b].claims
        BY <1>2, <1>3 DEF Faithful, Live
    <2>1. CASE b = id
        <3>1. \A k \in DOMAIN found[c] : found[c][k].id # id
            BY <1>1 DEF GotOnce
        <3> QED
            BY <1>7, <1>9, <1>10, <2>1, <3>1 DEF e
    <2>2. CASE b # id
        <3>1. b \in Ids \ (touched[c] \cup todo[c])
            BY <2>2
        <3>2. Live(b) /\ b \notin Unreadable => \E k \in DOMAIN found[c] : found[c][k] = [id |-> b, claims |-> bucket[b].claims]
            BY <1>1, <3>1 DEF Faithful
        <3>3. bucket[b] # None => \A k \in DOMAIN found[c] : found[c][k].id = b => found[c][k].claims = bucket[b].claims
            BY <1>1, <3>1 DEF Faithful
        <3> QED
            BY <1>7, <1>8, <1>10, <2>2, <3>2, <3>3
    <2> QED
        BY <2>1, <2>2
<1>14. HandlerInv(c)'
    BY <1>1, <1>2, <1>12, <1>13 DEF HandlerInv, Holds, Admitted
<1>15. Others(c)
    <2>1. \A d \in Calls : d # c => found'[d] = found[d] /\ todo'[d] = todo[d]
        BY <1>1, <1>2, <1>5 DEF Types
    <2> QED
        BY <1>2, <2>1 DEF Others
<1> QED
    BY <1>2, <1>11, <1>14, <1>15, QuietStep

\* The one check of a registration: a claim that disagrees with an entry was
\* either read, and refused, or hidden by one read later that disagrees too.
LEMMA CheckedAgainstAll ==
    ASSUME StoreInv, NEW c \in Calls, pc[c] = "reading", todo[c] = {}, NEW p, ~ Conflicts(found[c], p),
           NEW id \in Ids \ ({p.id} \cup touched[c] \cup Unreadable), Live(id),
           NEW i \in IfacesIn(bucket[id].claims)
    PROVE  Repeats(p.claims, bucket[id].claims, i) \/ Outspoken(found[c], p.id, id, i)
<1>1. Types /\ Faithful(c)
    BY DEF StoreInv, HandlerInv
<1>2. PICK k \in DOMAIN found[c] : found[c][k] = [id |-> id, claims |-> bucket[id].claims]
    BY <1>1 DEF Faithful
<1>3. PICK l \in DOMAIN found[c] : LastClaimant(found[c], p.id, i, l)
    <2>1. found[c] \in Seq(Seen) /\ found[c][k].id # p.id /\ i \in IfacesIn(found[c][k].claims)
        BY <1>1, <1>2 DEF Types
    <2> QED
        BY <2>1, SomeoneClaimsLast
<1>4. i \in IfacesIn(found[c][l].claims) /\ found[c][l].id # p.id
    BY <1>3 DEF LastClaimant
<1>5. CASE LastWord(found[c][l].claims, i) = LastWord(bucket[id].claims, i)
    <2>1. \A n \in DOMAIN p.claims : p.claims[n].iface = i => LastWord(found[c][l].claims, i) = p.claims[n].digest
        BY <1>3 DEF Conflicts, IsContested
    <2> QED
        BY <1>5, <2>1 DEF Repeats
<1>6. CASE LastWord(found[c][l].claims, i) # LastWord(bucket[id].claims, i)
    <2>1. found[c][l].id = id => found[c][l].claims = bucket[id].claims
        BY <1>1 DEF Faithful, Live
    <2> QED
        BY <1>4, <1>6, <2>1 DEF Outspoken
<1> QED
    BY <1>5, <1>6

\* Comparing a registration with what was read keeps what a handler remembers.
LEMMA CheckKeepsInv == ASSUME StoreInv, NEW c \in Calls, CheckConflicts(c) PROVE StoreInv'
<1>1. /\ pc[c] = "reading" /\ op[c] = "register" /\ todo[c] = {}
      /\ Types /\ Admitted(c) /\ UNCHANGED <<now, bucket>>
    BY DEF CheckConflicts, StoreInv, HandlerInv, Holds
<1>2. CASE Conflicts(found[c], arg[c])
    BY <1>1, <1>2, EndStep DEF CheckConflicts
<1>3. CASE ~ Conflicts(found[c], arg[c])
    <2> DEFINE p == arg[c]
               reg == [claims |-> p.claims, ttl |-> p.ttl, expires |-> now + p.ttl]
    <2>1. /\ pc' = [pc EXCEPT ![c] = "putting"] /\ out' = [out EXCEPT ![c] = [id |-> p.id, reg |-> reg]]
          /\ UNCHANGED <<op, arg, todo, found, touched>>
        BY <1>3 DEF CheckConflicts
    <2>2. p \in Provider /\ p.ttl <= Longest
        BY <1>1 DEF Admitted
    <2>3. reg \in Registration /\ Bounded(reg)
        BY <1>1, <2>2 DEF Types, Provider, Registration, Bounded
    <2>4. p.id \in Ids
        BY <2>2 DEF Provider
    <2>5. reg.claims = p.claims
        OBVIOUS
    <2> HIDE DEF reg, p
    <2>6. pc'[c] = "putting" /\ out'[c] = [id |-> p.id, reg |-> reg] /\ op'[c] = "register"
        BY <1>1, <2>1 DEF Types
    <2>7. Bounded(out[c].reg)'
        BY <1>1, <2>3, <2>6 DEF Bounded
    <2>8. Holds(c)'
        BY <2>3, <2>4, <2>6, <2>7 DEF Holds
    <2>9. ConflictChecked(c)'
        <3> SUFFICES ASSUME NEW id \in Ids \ ({p.id} \cup touched[c] \cup Unreadable), Live(id),
                            NEW i \in IfacesIn(bucket[id].claims)
                     PROVE  Repeats(p.claims, bucket[id].claims, i) \/ Outspoken(found[c], p.id, id, i)
            BY <1>1, <2>1, <2>5, <2>6 DEF ConflictChecked, Outspoken, Live
        <3> QED
            BY <1>1, <1>3, CheckedAgainstAll DEF p
    <2>10. HandlerInv(c)'
        BY <2>6, <2>8, <2>9 DEF HandlerInv
    <2>11. Types'
        BY <1>1, <2>1 DEF Types
    <2>12. Others(c)
        BY <1>1, <2>1 DEF Types, Others
    <2> QED
        BY <1>1, <2>1, <2>10, <2>11, <2>12, QuietStep
<1> QED
    BY <1>2, <1>3

\* An answer, or a write that fails, ends a handler.
LEMMA EndsKeepInv ==
    ASSUME StoreInv, NEW c \in Calls, AnswerDiscovery(c) \/ WriteFails(c)
    PROVE  StoreInv'
BY EndStep DEF AnswerDiscovery, WriteFails

\* A heartbeat takes over what it got, but for a later deadline: none that is
\* stored is more than one TTL away.
LEMMA HeartbeatKeepsInv ==
    ASSUME StoreInv, NEW c \in Calls, NEW id \in Ids, StartHeartbeat(c, id)
    PROVE  StoreInv'
<1>1. /\ pc[c] = "idle" /\ UNCHANGED <<now, bucket, touched>>
      /\ Types /\ HandlerInv(c)
    BY DEF StartHeartbeat, StoreInv
<1>2. CASE ~ Live(id)
    BY <1>1, <1>2, EndStep DEF StartHeartbeat
<1>3. CASE Live(id)
    <2> DEFINE reg == [bucket[id] EXCEPT !.expires = now + bucket[id].ttl]
    <2>1. bucket[id] \in Registration /\ bucket[id] # None /\ Bounded(bucket[id])
        BY <1>1, <1>3 DEF Live, Types, StoreInv, StoredBounded
    <2>2. now \in Nat /\ bucket[id].ttl \in Nat /\ bucket[id].expires \in Nat
        BY <1>1, <2>1 DEF Types, Registration
    <2>3. now + bucket[id].ttl \in Nat /\ now + bucket[id].ttl >= bucket[id].expires
        BY <2>1, <2>2 DEF Bounded
    <2>4. /\ reg \in Registration
          /\ reg.claims = bucket[id].claims /\ reg.ttl = bucket[id].ttl /\ reg.expires = now + bucket[id].ttl
        BY <2>1, <2>3 DEF Registration
    <2>5. Renew(c, id, now + bucket[id].ttl)
        BY <1>3 DEF StartHeartbeat
    <2>6. /\ pc' = [pc EXCEPT ![c] = "putting"] /\ op' = [op EXCEPT ![c] = "heartbeat"]
          /\ arg' = [arg EXCEPT ![c] = id] /\ out' = [out EXCEPT ![c] = [id |-> id, reg |-> reg]]
          /\ UNCHANGED <<todo, found>>
        BY <2>5 DEF Renew
    <2> HIDE DEF reg
    <2>7. pc'[c] = "putting" /\ op'[c] = "heartbeat" /\ out'[c] = [id |-> id, reg |-> reg]
        BY <1>1, <2>6 DEF Types
    <2>8. Bounded(out[c].reg)'
        BY <1>1, <2>1, <2>2, <2>4, <2>7 DEF Bounded
    <2>9. Holds(c)'
        BY <2>4, <2>7, <2>8 DEF Holds
    <2>10. Extends(c)'
        BY <1>1, <2>3, <2>4, <2>7 DEF Extends
    <2>11. HandlerInv(c)'
        BY <2>7, <2>9, <2>10 DEF HandlerInv
    <2>12. Types'
        BY <1>1, <2>6 DEF Types
    <2>13. Others(c)
        BY <1>1, <2>6 DEF Types, Others
    <2> QED
        BY <1>1, <2>11, <2>12, <2>13, QuietStep
<1> QED
    BY <1>2, <1>3

\* Deregistering begins by looking for the entry.
LEMMA DeregisterKeepsInv ==
    ASSUME StoreInv, NEW c \in Calls, NEW id \in Ids, StartDeregister(c, id)
    PROVE  StoreInv'
<1>1. /\ pc[c] = "idle" /\ UNCHANGED <<now, bucket, touched>>
      /\ Types /\ HandlerInv(c)
    BY DEF StartDeregister, StoreInv
<1>2. CASE ~ Live(id)
    BY <1>1, <1>2, EndStep DEF StartDeregister
<1>3. CASE Live(id)
    <2>1. /\ pc' = [pc EXCEPT ![c] = "deleting"] /\ op' = [op EXCEPT ![c] = "deregister"]
          /\ arg' = [arg EXCEPT ![c] = id] /\ out' = [out EXCEPT ![c] = None]
          /\ UNCHANGED <<todo, found>>
        BY <1>3 DEF StartDeregister
    <2>2. pc'[c] = "deleting" /\ arg'[c] = id
        BY <1>1, <2>1 DEF Types
    <2>3. HandlerInv(c)'
        BY <2>2 DEF HandlerInv, Holds
    <2>4. Types'
        BY <1>1, <2>1 DEF Types
    <2>5. Others(c)
        BY <1>1, <2>1 DEF Types, Others
    <2> QED
        BY <1>1, <2>3, <2>4, <2>5, QuietStep
<1> QED
    BY <1>2, <1>3

\* A write: whoever is between two operations has it in its history.
LEMMA WriteStep ==
    ASSUME StoreInv, NEW c \in Calls, NEW id \in Ids, NEW e \in Registration \cup {None},
           e # None => Bounded(e),
           bucket' = [bucket EXCEPT ![id] = e], UNCHANGED now,
           NEW r, Reply(c, r), EndsHavingWritten(c, id)
    PROVE  StoreInv'
<1>1. Types /\ now \in Nat
    BY DEF StoreInv, Types
<1>2. /\ touched' \in [Calls -> SUBSET Ids]
      /\ \A d \in Calls : touched'[d] = IF d = c \/ pc[d] = "idle" THEN {} ELSE touched[d] \cup {id}
    BY <1>1 DEF Types, EndsHavingWritten
<1>3. bucket' \in [Ids -> Registration \cup {None}] /\ \A b \in Ids : bucket'[b] = IF b = id THEN e ELSE bucket[b]
    BY <1>1 DEF Types
<1>4. Types'
    BY <1>1, <1>2, <1>3 DEF Types, Reply
<1>5. StoredBounded'
    BY <1>3 DEF StoreInv, StoredBounded, Bounded
<1>6. HandlerInv(c)'
    BY <1>1, <1>2 DEF Types, Reply, HandlerInv, Holds
<1>7. ASSUME NEW d \in Calls, d # c PROVE HandlerInv(d)'
    <2>1. /\ pc'[d] = pc[d] /\ op'[d] = op[d] /\ arg'[d] = arg[d]
          /\ todo'[d] = todo[d] /\ found'[d] = found[d] /\ out'[d] = out[d]
        BY <1>1, <1>7 DEF Types, Reply
    <2>2. CASE pc[d] = "idle"
        <3>1. touched[d] = {} /\ todo[d] = {} /\ found[d] = << >> /\ touched'[d] = {}
            BY <1>2, <2>2 DEF StoreInv, HandlerInv, Holds
        <3> QED
            BY <2>1, <2>2, <3>1 DEF HandlerInv, Holds
    <2>3. CASE pc[d] # "idle"
        <3>1. touched[d] \subseteq touched'[d] /\ id \in touched'[d]
            BY <1>2, <1>7, <2>3
        <3>2. \A b \in Ids \ touched'[d] : bucket'[b] = bucket[b]
            BY <1>3, <3>1
        <3>3. now' \in Nat /\ now' >= now
            BY <1>1
        <3> QED
            BY <2>1, <2>3, <3>1, <3>2, <3>3, StandsStill
    <2> QED
        BY <2>2, <2>3
<1> QED
    BY <1>4, <1>5, <1>6, <1>7 DEF StoreInv

\* A put stores a clamped deadline, a delete nothing.
LEMMA WritesKeepInv ==
    ASSUME StoreInv, NEW c \in Calls, Put(c) \/ Delete(c)
    PROVE  StoreInv'
<1>1. CASE Put(c)
    <2>1. out[c].id \in Ids /\ out[c].reg \in Registration /\ Bounded(out[c].reg)
        BY <1>1 DEF Put, StoreInv, HandlerInv, Holds
    <2> QED
        BY <1>1, <2>1, WriteStep DEF Put
<1>2. CASE Delete(c)
    <2>1. arg[c] \in Ids
        BY <1>2 DEF Delete, StoreInv, HandlerInv, Holds
    <2> QED
        BY <1>2, <2>1, WriteStep DEF Delete
<1> QED
    BY <1>1, <1>2

-----------------------------------------------------------------------------
(* The collector and the clock.                                            *)

LEMMA CollectKeepsInv == ASSUME StoreInv, NEW id \in Ids, Collect(id) PROVE StoreInv'
<1>1. Types /\ bucket' = [bucket EXCEPT ![id] = None] /\ UNCHANGED <<now, locals, touched>>
    BY DEF Collect, StoreInv
<1>2. \A b \in Ids : bucket'[b] = bucket[b] \/ bucket'[b] = None
    BY <1>1 DEF Types
<1>3. Types'
    BY <1>1 DEF Types, locals
<1>4. StoredBounded'
    BY <1>1, <1>2 DEF StoreInv, StoredBounded, Bounded
<1>5. ASSUME NEW c \in Calls PROVE HandlerInv(c)'
    <2>1. now' \in Nat /\ now' >= now
        BY <1>1 DEF Types
    <2>2. pc[c] = "idle" => touched'[c] = {}
        BY <1>1 DEF StoreInv, HandlerInv, Holds
    <2> QED
        BY <1>1, <1>2, <2>1, <2>2, StandsStill DEF locals
<1> QED
    BY <1>3, <1>4, <1>5 DEF StoreInv

\* Time goes by, and what was read grows older.
LEMMA TickKeepsInv == ASSUME StoreInv, Tick PROVE StoreInv'
<1>1. Types /\ now' = now + 1 /\ UNCHANGED <<bucket, locals, touched>> /\ now \in Nat
    BY DEF Tick, StoreInv, Types
<1>2. Types'
    BY <1>1 DEF Types, locals
<1>3. StoredBounded'
    <2> SUFFICES ASSUME NEW id \in Ids, bucket[id] # None PROVE Bounded(bucket[id])'
        BY <1>1 DEF StoredBounded
    <2>1. bucket[id] \in Registration /\ Bounded(bucket[id])
        BY <1>1 DEF Types, StoreInv, StoredBounded
    <2>2. bucket[id].ttl \in Nat /\ bucket[id].expires \in Nat
        BY <2>1 DEF Registration
    <2> QED
        BY <1>1, <2>1, <2>2 DEF Bounded
<1>4. ASSUME NEW c \in Calls PROVE HandlerInv(c)'
    <2>1. now' \in Nat /\ now' >= now
        BY <1>1
    <2>2. pc[c] = "idle" => touched'[c] = {}
        BY <1>1 DEF StoreInv, HandlerInv, Holds
    <2> QED
        BY <1>1, <2>1, <2>2, StandsStill DEF locals
<1> QED
    BY <1>2, <1>3, <1>4 DEF StoreInv

\* Nothing happens.
LEMMA StutterKeepsInv == ASSUME StoreInv, UNCHANGED vars PROVE StoreInv'
<1>1. Types' /\ StoredBounded'
    BY DEF StoreInv, vars, Types, StoredBounded, Bounded
<1>2. ASSUME NEW c \in Calls PROVE HandlerInv(c)'
    <2>1. now' \in Nat /\ now' >= now
        BY DEF StoreInv, vars, Types
    <2>2. pc[c] = "idle" => touched'[c] = {}
        BY DEF StoreInv, HandlerInv, Holds, vars
    <2> QED
        BY <2>1, <2>2, StandsStill DEF vars
<1> QED
    BY <1>1, <1>2 DEF StoreInv

\* Every step of a handler keeps it.
LEMMA HandlerKeepsInv == ASSUME StoreInv, NEW c \in Calls, Handler(c) PROVE StoreInv'
BY StartsKeepInv, HeartbeatKeepsInv, DeregisterKeepsInv, ReadKeepsInv, CheckKeepsInv, EndsKeepInv, WritesKeepInv
   DEF Handler

\* So does every step.
LEMMA NextInv == StoreInv /\ [Next]_vars => StoreInv'
BY HandlerKeepsInv, CollectKeepsInv, TickKeepsInv, StutterKeepsInv DEF Next

\* Handlers remember what StoreInv says they do, however they interleave.
LEMMA StoreInvariant == Spec => []StoreInv
BY InitInv, NextInv, PTL DEF Spec

\* Whatever is written while a handler of live_registrations gets the listed
\* keys one by one (store.rs:206), what it has of an entry that nobody wrote
\* meanwhile is what the bucket holds.
THEOREM AnswersAreTheBucket == Spec => []ReadingIsFaithful
<1>1. StoreInv => ReadingIsFaithful
    BY DEF StoreInv, HandlerInv, ReadingIsFaithful
<1> QED
    BY <1>1, StoreInvariant, PTL

\* reject_conflicts (store.rs:148) is exact but for races: what register is
\* about to put contradicts no live, readable entry of another provider that
\* has stood since the keys were listed, unless entries read had already
\* contradicted it.
THEOREM ConflictsNeedRaces == Spec => []ConflictNeedsRace
<1>1. StoreInv => ConflictNeedsRace
    BY DEF StoreInv, HandlerInv, ConflictNeedsRace
<1> QED
    BY <1>1, StoreInvariant, PTL

\* What Registry::heartbeat (store.rs:99) is about to put keeps the claims and
\* the TTL of the entry, and its deadline is no earlier, unless someone wrote
\* the entry after its get.
THEOREM HeartbeatsExtend == Spec => []HeartbeatExtendsUnlessRaced
<1>1. StoreInv => HeartbeatExtendsUnlessRaced
    BY DEF StoreInv, HandlerInv, HeartbeatExtendsUnlessRaced
<1> QED
    BY <1>1, StoreInvariant, PTL

-----------------------------------------------------------------------------
(* What leaves the bucket.                                                 *)

\* Only a put, a delete and the collector change the bucket.
LEMMA WhoChangesTheBucket ==
    ASSUME [Next]_vars
    PROVE  \/ UNCHANGED bucket
           \/ \E c \in Calls : Put(c) \/ Delete(c)
           \/ \E id \in Ids : Collect(id)
BY DEF Next, Handler, vars, Tick, StartRegister, StartResolve, StartListInterfaces, StartHeartbeat, StartDeregister,
       ReadEntry, CheckConflicts, AnswerDiscovery, WriteFails, StartFails

\* Where the bucket keeps a message for as long as the longest TTL, as the one
\* that open creates does (store.rs:66), the collector finds only dead entries.
LEMMA CollectedIsDead ==
    ASSUME StoreInv, Longest <= MaxAge, NEW id \in Ids, Collect(id) PROVE ~ Live(id)
<1>1. bucket[id] # None /\ now >= (bucket[id].expires - bucket[id].ttl) + MaxAge
    BY DEF Collect
<1>2. bucket[id] \in Registration /\ Bounded(bucket[id]) /\ now \in Nat
    BY <1>1 DEF StoreInv, Types, StoredBounded
<1>3. bucket[id].expires \in Nat /\ bucket[id].ttl \in Nat /\ bucket[id].ttl <= Longest
    BY <1>2 DEF Registration, Bounded
<1>4. Longest \in Nat /\ MaxAge \in Nat
    BY ClampBounds, LimitsAssumption DEF Longest
<1> QED
    BY <1>1, <1>2, <1>3, <1>4 DEF Live

\* What leaves the bucket without a delete was dead: max_age is a garbage
\* collector, and not the expiry mechanism (store.rs:50-52).
THEOREM CollectedWereDead == ASSUME Clamp(MaxTtl) <= MaxAge PROVE Spec => OnlyTheDeadAreCollected
<1>1. ASSUME StoreInv, [Next]_vars, NEW id \in Ids, Live(id), bucket'[id] = None
      PROVE  \E c \in Calls : pc[c] = "deleting" /\ arg[c] = id /\ pc'[c] = "idle"
    <2>1. Types /\ bucket[id] # None
        BY <1>1 DEF StoreInv, Live
    <2>2. CASE UNCHANGED bucket
        BY <1>1, <2>1, <2>2
    <2>3. ASSUME NEW c \in Calls, Put(c)
          PROVE  FALSE
        <3>1. out[c].reg # None
            BY <1>1, <2>3, NoneAssumption DEF StoreInv, HandlerInv, Holds, Put
        <3> QED
            BY <1>1, <2>1, <2>3, <3>1 DEF Put, Types
    <2>4. ASSUME NEW c \in Calls, Delete(c)
          PROVE  pc[c] = "deleting" /\ arg[c] = id /\ pc'[c] = "idle"
        BY <1>1, <2>1, <2>4 DEF Delete, Reply, Types
    <2>5. ASSUME NEW b \in Ids, Collect(b)
          PROVE  FALSE
        <3>1. ~ Live(b)
            BY <1>1, <2>5, CollectedIsDead DEF Longest
        <3> QED
            BY <1>1, <2>1, <2>5, <3>1 DEF Collect, Types
    <2> QED
        BY <1>1, <2>2, <2>3, <2>4, <2>5, WhoChangesTheBucket
<1>2. StoreInv /\ [Next]_vars =>
          [\A id \in Ids : Live(id) /\ bucket'[id] = None =>
              \E c \in Calls : pc[c] = "deleting" /\ arg[c] = id /\ pc'[c] = "idle"]_vars
    BY <1>1
<1> QED
    BY <1>2, StoreInvariant, PTL DEF Spec, OnlyTheDeadAreCollected

-----------------------------------------------------------------------------
(* One handler at a time.                                                  *)

\* A lone handler, to which every entry is readable.
Lone(c) == Calls = {c} /\ Unreadable = {}

\* Claims agree with every live entry but that of id.
AgreesWithLive(seen, id) == \A other \in Ids \ {id} : Live(other) => Agree(seen, bucket[other].claims)

\* What was read agrees with what is live, and with itself; so does what is
\* about to be put.
HandlerAgrees(c) ==
    /\ touched[c] = {}
    /\ pc[c] = "reading" =>
          /\ \A k \in DOMAIN found[c] : AgreesWithLive(found[c][k].claims, found[c][k].id)
          /\ \A k, l \in DOMAIN found[c] :
                found[c][k].id # found[c][l].id => Agree(found[c][k].claims, found[c][l].claims)
    /\ pc[c] = "putting" => AgreesWithLive(out[c].reg.claims, out[c].id)

\* Of two live registrations one says of an interface what the other says last.
LiveAgree ==
    \A a, b \in Ids : a # b /\ Live(a) /\ Live(b) => Agree(bucket[a].claims, bucket[b].claims)

LoneInv == StoreInv /\ LiveAgree /\ \A c \in Calls : HandlerAgrees(c)

\* Nothing is registered, so nothing conflicts.
LEMMA LoneInit == Init => LoneInv
<1> SUFFICES ASSUME Init PROVE LoneInv
    OBVIOUS
<1>1. LiveAgree
    BY DEF Init, LiveAgree, Live
<1>2. \A c \in Calls : HandlerAgrees(c)
    BY DEF Init, HandlerAgrees
<1> QED
    BY <1>1, <1>2, InitInv DEF LoneInv

\* Agreement is mutual.
LEMMA AgreeBothWays == ASSUME NEW x, NEW y PROVE Agree(x, y) <=> Agree(y, x)
BY DEF Agree

\* Where entries stay or leave, no more are live than were.
LEMMA LessIsLive ==
    ASSUME Types, now' \in Nat, now' >= now,
           NEW id \in Ids, bucket'[id] = bucket[id] \/ bucket'[id] = None, Live(id)'
    PROVE  Live(id) /\ bucket'[id] = bucket[id]
<1>1. bucket'[id] # None /\ bucket'[id] = bucket[id] /\ bucket[id] \in Registration
    BY DEF Types, Live
<1>2. bucket[id].expires \in Nat /\ now \in Nat
    BY <1>1 DEF Types, Registration
<1> QED
    BY <1>1, <1>2 DEF Live

\* Where entries stay or leave, what agreed still does.
LEMMA AgreementStays ==
    ASSUME StoreInv, now' \in Nat, now' >= now,
           \A id \in Ids : bucket'[id] = bucket[id] \/ bucket'[id] = None
    PROVE  /\ LiveAgree => LiveAgree'
           /\ \A seen, id : AgreesWithLive(seen, id) => AgreesWithLive(seen, id)'
<1>1. \A id \in Ids : Live(id)' => Live(id) /\ bucket'[id] = bucket[id]
    BY LessIsLive DEF StoreInv
<1>2. LiveAgree => LiveAgree'
    BY <1>1 DEF LiveAgree
<1>3. ASSUME NEW seen, NEW id, AgreesWithLive(seen, id)
      PROVE  AgreesWithLive(seen, id)'
    BY <1>1, <1>3 DEF AgreesWithLive
<1> QED
    BY <1>2, <1>3

\* The collector, the clock, and steps that change nothing.
LEMMA LoneStays ==
    ASSUME LoneInv, StoreInv', now' \in Nat, now' >= now, UNCHANGED <<pc, found, out, touched>>,
           \A id \in Ids : bucket'[id] = bucket[id] \/ bucket'[id] = None
    PROVE  LoneInv'
<1>1. LiveAgree'
    BY AgreementStays DEF LoneInv
<1>2. ASSUME NEW c \in Calls PROVE HandlerAgrees(c)'
    <2>1. HandlerAgrees(c) /\ StoreInv
        BY DEF LoneInv
    <2>2. pc[c] = "reading" => \A k \in DOMAIN found[c] : AgreesWithLive(found[c][k].claims, found[c][k].id)'
        BY <2>1, AgreementStays DEF HandlerAgrees, AgreesWithLive
    <2>3. pc[c] = "putting" => AgreesWithLive(out[c].reg.claims, out[c].id)'
        BY <2>1, AgreementStays DEF HandlerAgrees, AgreesWithLive
    <2> QED
        BY <2>1, <2>2, <2>3 DEF HandlerAgrees
<1> QED
    BY <1>1, <1>2 DEF LoneInv

\* A lone handler that does not write.
LEMMA LoneQuiet ==
    ASSUME LoneInv, StoreInv', NEW c \in Calls, Lone(c), UNCHANGED <<now, bucket>>, touched'[c] = {},
           pc'[c] = "reading" =>
              /\ \A k \in DOMAIN found'[c] : AgreesWithLive(found'[c][k].claims, found'[c][k].id)
              /\ \A k, l \in DOMAIN found'[c] :
                    found'[c][k].id # found'[c][l].id => Agree(found'[c][k].claims, found'[c][l].claims),
           pc'[c] = "putting" => AgreesWithLive(out'[c].reg.claims, out'[c].id)
    PROVE  LoneInv'
<1>1. LiveAgree'
    BY DEF LoneInv, LiveAgree, Live
<1>2. \A seen, id : AgreesWithLive(seen, id)' <=> AgreesWithLive(seen, id)
    BY DEF AgreesWithLive, Live
<1>3. HandlerAgrees(c)'
    BY <1>2 DEF HandlerAgrees
<1> QED
    BY <1>1, <1>3 DEF LoneInv, Lone

\* Steps after which the handler is idle, or has only just listed.
LEMMA LoneStartsAndEnds ==
    ASSUME LoneInv, StoreInv', NEW c \in Calls, Lone(c),
           \/ \E p \in Submissions : StartRegister(c, p)
           \/ \E q \in Questions : StartResolve(c, q)
           \/ StartListInterfaces(c) \/ StartFails(c) \/ AnswerDiscovery(c) \/ WriteFails(c)
           \/ CheckConflicts(c) /\ Conflicts(found[c], arg[c])
           \/ \E id \in Ids : ~ Live(id) /\ (StartHeartbeat(c, id) \/ StartDeregister(c, id))
    PROVE  LoneInv'
<1>1. Types /\ touched[c] = {}
    BY DEF LoneInv, StoreInv, HandlerAgrees
<1>2. UNCHANGED <<now, bucket>> /\ (UNCHANGED touched \/ Ends(c))
    BY DEF StartRegister, StartResolve, StartListInterfaces, StartFails, AnswerDiscovery, WriteFails, CheckConflicts,
           StartHeartbeat, StartDeregister
<1>3. touched'[c] = {}
    BY <1>1, <1>2 DEF Types, Ends
<1>4. (\E r : Reply(c, r)) \/ (\E f, x : StartListing(c, f, x))
    BY DEF StartRegister, StartResolve, StartListInterfaces, StartFails, AnswerDiscovery, WriteFails, CheckConflicts,
           StartHeartbeat, StartDeregister
<1>5. pc'[c] = "idle" \/ (pc'[c] = "reading" /\ found'[c] = << >>)
    BY <1>1, <1>4 DEF Types, Reply, StartListing
<1> QED
    BY <1>2, <1>3, <1>5, LoneQuiet

\* What a lone handler reads is what is there.
LEMMA LoneRead == ASSUME LoneInv, StoreInv', NEW c \in Calls, Lone(c), NEW id \in Ids, ReadEntry(c, id) PROVE LoneInv'
<1> DEFINE e == [id |-> id, claims |-> bucket[id].claims]
<1>1. /\ Types /\ GotOnce(c) /\ HandlerAgrees(c) /\ LiveAgree
      /\ pc[c] = "reading" /\ id \in todo[c] /\ UNCHANGED <<now, bucket, pc, out, touched>>
    BY DEF LoneInv, StoreInv, HandlerInv, ReadEntry
<1>2. found[c] \in Seq(Seen) /\ (Live(id) => e \in Seen)
    BY <1>1, NoneAssumption DEF Live, Types, Registration, Seen
<1>3. (Live(id) /\ found' = [found EXCEPT ![c] = Append(@, e)]) \/ found' = found
    BY DEF ReadEntry
<1>4. e.id = id /\ e.claims = bucket[id].claims
    OBVIOUS
<1> HIDE DEF e
<1>5. ASSUME NEW k \in DOMAIN found'[c]
      PROVE  (k \in DOMAIN found[c] /\ found'[c][k] = found[c][k]) \/ (Live(id) /\ found'[c][k] = e)
    <2>1. CASE found' = found
        BY <2>1
    <2>2. CASE Live(id) /\ found' = [found EXCEPT ![c] = Append(@, e)]
        BY <1>1, <1>2, <2>2 DEF Types
    <2> QED
        BY <1>3, <2>1, <2>2
<1>6. Live(id) => AgreesWithLive(e.claims, id)
    BY <1>1, <1>4 DEF LiveAgree, AgreesWithLive
<1>7. \A k \in DOMAIN found[c] :
          /\ found[c][k].id # id
          /\ AgreesWithLive(found[c][k].claims, found[c][k].id)
          /\ Live(id) => Agree(found[c][k].claims, e.claims) /\ Agree(e.claims, found[c][k].claims)
    <2>1. \A k \in DOMAIN found[c] : found[c][k].id # id /\ AgreesWithLive(found[c][k].claims, found[c][k].id)
        BY <1>1 DEF GotOnce, HandlerAgrees
    <2> QED
        BY <1>4, <2>1, AgreeBothWays DEF AgreesWithLive
<1>8. \A k \in DOMAIN found'[c] : AgreesWithLive(found'[c][k].claims, found'[c][k].id)
    BY <1>4, <1>5, <1>6, <1>7
<1>9. ASSUME NEW k \in DOMAIN found'[c], NEW l \in DOMAIN found'[c], found'[c][k].id # found'[c][l].id
      PROVE  Agree(found'[c][k].claims, found'[c][l].claims)
    <2>1. CASE k \in DOMAIN found[c] /\ found'[c][k] = found[c][k] /\ l \in DOMAIN found[c] /\ found'[c][l] = found[c][l]
        BY <1>1, <1>9, <2>1 DEF HandlerAgrees
    <2> QED
        BY <1>4, <1>5, <1>7, <1>9, <2>1
<1>10. touched'[c] = {} /\ pc'[c] = "reading"
    BY <1>1 DEF HandlerAgrees
<1> QED
    BY <1>1, <1>8, <1>9, <1>10, LoneQuiet

\* With nothing raced, nothing unreadable and nothing read that disagrees, the
\* check is exact.
LEMMA LoneCheck ==
    ASSUME LoneInv, StoreInv', NEW c \in Calls, Lone(c), CheckConflicts(c), ~ Conflicts(found[c], arg[c])
    PROVE  LoneInv'
<1> DEFINE p == arg[c]
<1>1. /\ pc[c] = "reading" /\ todo[c] = {} /\ touched[c] = {} /\ Unreadable = {}
      /\ Types /\ StoreInv /\ HandlerAgrees(c) /\ UNCHANGED <<now, bucket, touched>>
    BY DEF CheckConflicts, LoneInv, StoreInv, HandlerAgrees, Lone
<1>2. pc'[c] = "putting" /\ out'[c].id = p.id /\ out'[c].reg.claims = p.claims
    BY <1>1 DEF CheckConflicts, Types
<1>3. AgreesWithLive(p.claims, p.id)
    <2> SUFFICES ASSUME NEW id \in Ids \ {p.id}, Live(id),
                        NEW i \in IfacesIn(p.claims) \cap IfacesIn(bucket[id].claims)
                 PROVE  Repeats(p.claims, bucket[id].claims, i)
        BY DEF AgreesWithLive, Agree
    <2>1. Repeats(p.claims, bucket[id].claims, i) \/ Outspoken(found[c], p.id, id, i)
        BY <1>1, CheckedAgainstAll
    <2>2. \A k \in DOMAIN found[c] : found[c][k].id # id => Agree(found[c][k].claims, bucket[id].claims)
        BY <1>1 DEF HandlerAgrees, AgreesWithLive
    <2>3. \A k \in DOMAIN found[c] : found[c][k].claims \in Claims
        <3>1. found[c] \in Seq(Seen)
            BY <1>1 DEF Types
        <3>2. \A k \in DOMAIN found[c] : found[c][k] \in Seen
            BY <3>1
        <3> QED
            BY <3>2 DEF Seen
    <2>4. bucket[id].claims \in Claims
        BY <1>1 DEF Types, Live, Registration
    <2>5. \A k \in DOMAIN found[c] : found[c][k].id # id /\ i \in IfacesIn(found[c][k].claims)
              => LastWord(found[c][k].claims, i) = LastWord(bucket[id].claims, i)
        BY <2>2, <2>3, <2>4, SameLastWord
    <2> QED
        BY <2>1, <2>5 DEF Outspoken
<1> HIDE DEF p
<1> QED
    BY <1>1, <1>2, <1>3, LoneQuiet

\* A heartbeat or a withdrawal begins with an entry that is there.
LEMMA LoneHeartbeat ==
    ASSUME LoneInv, StoreInv', NEW c \in Calls, Lone(c), NEW id \in Ids, Live(id),
           StartHeartbeat(c, id) \/ StartDeregister(c, id)
    PROVE  LoneInv'
<1>1. Types /\ touched[c] = {} /\ LiveAgree
    BY DEF LoneInv, StoreInv, HandlerAgrees
<1>2. CASE StartHeartbeat(c, id)
    <2>1. UNCHANGED <<now, bucket, touched>> /\ Renew(c, id, now + bucket[id].ttl)
        BY <1>2 DEF StartHeartbeat
    <2>2. bucket[id] \in Registration
        BY <1>1 DEF Live, Types
    <2>3. pc'[c] = "putting" /\ out'[c].id = id /\ out'[c].reg.claims = bucket[id].claims
        BY <1>1, <2>1, <2>2 DEF Renew, Types, Registration
    <2>4. AgreesWithLive(bucket[id].claims, id)
        BY <1>1 DEF LiveAgree, AgreesWithLive
    <2> QED
        BY <1>1, <2>1, <2>3, <2>4, LoneQuiet
<1>3. CASE StartDeregister(c, id)
    <2>1. UNCHANGED <<now, bucket, touched>> /\ pc'[c] = "deleting"
        BY <1>1, <1>3 DEF StartDeregister, Types
    <2> QED
        BY <1>1, <2>1, LoneQuiet
<1> QED
    BY <1>2, <1>3

\* What a lone handler writes conflicts with nothing: it has just looked.
LEMMA LoneWrite ==
    ASSUME LoneInv, StoreInv', NEW c \in Calls, Lone(c), Put(c) \/ Delete(c)
    PROVE  LoneInv'
<1>1. Types /\ LiveAgree /\ HandlerAgrees(c) /\ UNCHANGED now
    BY DEF LoneInv, StoreInv, Put, Delete
<1>2. pc'[c] = "idle" /\ touched'[c] = {}
    BY <1>1 DEF Put, Delete, Reply, EndsHavingWritten, Types
<1>3. HandlerAgrees(c)'
    BY <1>2 DEF HandlerAgrees
<1>4. CASE Put(c)
    <2> DEFINE id == out[c].id
    <2>1. id \in Ids /\ \A b \in Ids : bucket'[b] = IF b = id THEN out[c].reg ELSE bucket[b]
        BY <1>1, <1>4 DEF Put, Types, LoneInv, StoreInv, HandlerInv, Holds
    <2>2. AgreesWithLive(out[c].reg.claims, id)
        BY <1>1, <1>4 DEF Put, HandlerAgrees
    <2> HIDE DEF id
    <2>3. \A b \in Ids \ {id} : bucket'[b] = bucket[b] /\ (Live(b)' <=> Live(b))
        BY <1>1, <2>1 DEF Live
    <2>4. bucket'[id].claims = out[c].reg.claims
        BY <2>1
    <2>5. \A b \in Ids \ {id} : Live(b)' => Agree(bucket'[id].claims, bucket'[b].claims) /\ Agree(bucket'[b].claims, bucket'[id].claims)
        BY <2>2, <2>3, <2>4, AgreeBothWays DEF AgreesWithLive
    <2>6. \A a, b \in Ids \ {id} : a # b /\ Live(a)' /\ Live(b)' => Agree(bucket'[a].claims, bucket'[b].claims)
        BY <1>1, <2>3 DEF LiveAgree
    <2>7. \A a, b \in Ids : a # b /\ Live(a)' /\ Live(b)' => Agree(bucket'[a].claims, bucket'[b].claims)
        BY <2>5, <2>6
    <2>8. LiveAgree'
        BY <2>7 DEF LiveAgree
    <2> QED
        BY <1>3, <2>8 DEF LoneInv, Lone
<1>5. CASE Delete(c)
    <2>1. \A b \in Ids : bucket'[b] = bucket[b] \/ bucket'[b] = None
        BY <1>1, <1>5 DEF Delete, Types
    <2>2. now' \in Nat /\ now' >= now
        BY <1>1 DEF Types
    <2>3. LiveAgree'
        BY <1>1, <2>1, <2>2, AgreementStays DEF LoneInv
    <2> QED
        BY <1>3, <2>3 DEF LoneInv, Lone
<1> QED
    BY <1>4, <1>5

\* Every step of a lone handler keeps it, and so does time.
LEMMA LoneNext ==
    ASSUME LoneInv, NEW c \in Calls, Lone(c), [Next]_vars
    PROVE  LoneInv'
<1>1. StoreInv /\ StoreInv' /\ now \in Nat /\ Types
    BY NextInv DEF LoneInv, StoreInv, Types
<1>2. CASE Handler(c)
    <2>1. CASE \E id \in Ids : Live(id) /\ (StartHeartbeat(c, id) \/ StartDeregister(c, id))
        BY <1>1, <2>1, LoneHeartbeat
    <2>2. CASE CheckConflicts(c) /\ ~ Conflicts(found[c], arg[c])
        BY <1>1, <2>2, LoneCheck
    <2> QED
        BY <1>1, <1>2, <2>1, <2>2, LoneRead, LoneWrite, LoneStartsAndEnds DEF Handler
<1>3. CASE \E id \in Ids : Collect(id)
    <2>1. (\A b \in Ids : bucket'[b] = bucket[b] \/ bucket'[b] = None) /\ now' = now /\ UNCHANGED <<pc, found, out, touched>>
        BY <1>1, <1>3 DEF Collect, Types, locals
    <2> QED
        BY <1>1, <2>1, LoneStays
<1>4. CASE Tick \/ UNCHANGED vars
    <2>1. now' \in Nat /\ now' >= now /\ UNCHANGED <<bucket, pc, found, out, touched>>
        BY <1>1, <1>4 DEF Tick, vars, locals
    <2> QED
        BY <1>1, <2>1, LoneStays
<1> QED
    BY <1>2, <1>3, <1>4 DEF Next, Lone

-----------------------------------------------------------------------------
(* The promise of registry.md.                                             *)

LEMMA ShownIs ==
    ASSUME NEW id \in Ids
    PROVE  /\ Live(id) => Shown[id] = [claims |-> bucket[id].claims, expires |-> bucket[id].expires]
           /\ ~ Live(id) => Shown[id] = None
BY DEF Shown

\* A live entry shows.
LEMMA LiveShows == ASSUME Types, NEW id \in Ids, Live(id) PROVE Shown[id] # None
<1>1. bucket[id] \in Registration
    BY DEF Types, Live
<1>2. [claims |-> bucket[id].claims, expires |-> bucket[id].expires] \in [claims : Claims, expires : Nat]
    BY <1>1 DEF Registration
<1> QED
    BY <1>2, ShownIs, NoneAssumption

\* What is promised is of the bucket and the time alone.
LEMMA SameShown == ASSUME UNCHANGED <<now, bucket>> PROVE UNCHANGED Shown
BY DEF Shown, Live

\* What a lone handler asks to withdraw.
LEMMA AskedIs ==
    ASSUME NEW c \in Calls, Lone(c)
    PROVE  /\ Asked = IF pc[c] = "deleting" THEN {arg[c]} ELSE {}
           /\ Asked' = IF pc'[c] = "deleting" THEN {arg'[c]} ELSE {}
BY DEF Asked, Lone

\* Nothing is registered, nothing is shown.
LEMMA InitPromise == Init => Promise!PromiseInit
BY DEF Init, Promise!PromiseInit, Shown, Live, Asked

\* A step of the handler that is no write and no request to withdraw, or a
\* withdrawal that failed.
LEMMA QuietPromise ==
    ASSUME LoneInv, NEW c \in Calls, Lone(c), UNCHANGED <<now, bucket>>,
           \/ pc[c] # "deleting" /\ pc'[c] # "deleting"
           \/ pc[c] = "deleting" /\ pc'[c] = "idle"
    PROVE  [Promise!PromiseNext]_(Promise!promiseVars)
<1>1. UNCHANGED <<now, Shown>>
    BY SameShown
<1>2. CASE pc[c] # "deleting" /\ pc'[c] # "deleting"
    <2>1. UNCHANGED Asked
        BY <1>2, AskedIs
    <2> QED
        BY <1>1, <2>1 DEF Promise!promiseVars
<1>3. CASE pc[c] = "deleting" /\ pc'[c] = "idle"
    <2>1. Asked = {arg[c]} /\ Asked' = {}
        BY <1>3, AskedIs
    <2>2. arg[c] \in Ids
        BY <1>3 DEF LoneInv, StoreInv, HandlerInv, Holds
    <2>3. Promise!Withdraw(arg[c])
        BY <1>1, <2>1 DEF Promise!Withdraw
    <2> QED
        BY <2>2, <2>3 DEF Promise!PromiseNext
<1> QED
    BY <1>2, <1>3

\* The promise and the code mean one thing by agreement.
LEMMA PromisedAgreement == ASSUME NEW x, NEW y PROVE Promise!Agree(x, y) <=> Agree(x, y)
BY DEF Agree, Repeats, LastWord, IsLastOn, IfacesIn,
       Promise!Agree, Promise!Repeats, Promise!LastWord, Promise!IsLastOn, Promise!IfacesIn

\* A put announces; what it puts agrees with all that is live.
LEMMA PutPromise == ASSUME LoneInv, NEW c \in Calls, Lone(c), Put(c) PROVE Promise!PromiseNext
<1> DEFINE id == out[c].id
           reg == out[c].reg
           e == [claims |-> reg.claims, expires |-> reg.expires]
<1>1. /\ Types /\ id \in Ids /\ reg \in Registration /\ Bounded(reg)
      /\ AgreesWithLive(reg.claims, id)
      /\ bucket' = [bucket EXCEPT ![id] = reg] /\ UNCHANGED now
    BY DEF Put, LoneInv, StoreInv, HandlerInv, Holds, HandlerAgrees
<1>2. pc[c] = "putting" /\ pc'[c] = "idle"
    BY <1>1 DEF Put, Reply, Types
<1> HIDE DEF id, reg
<1>3. reg.claims \in Claims /\ reg.expires \in Nat /\ reg.ttl \in Nat /\ now \in Nat /\ Longest \in Nat
    BY <1>1, ClampBounds, LimitsAssumption DEF Types, Registration, Longest
<1>4. reg.expires \in 0..(now + Clamp(MaxTtl))
    BY <1>1, <1>3 DEF Bounded, Longest
<1>5. e \in [claims : Claims, expires : 0..(now + Clamp(MaxTtl))]
    BY <1>3, <1>4
<1>6. \A other \in Ids \ {id} : Shown[other] # None => Promise!Agree(e.claims, Shown[other].claims)
    <2> SUFFICES ASSUME NEW other \in Ids \ {id}, Shown[other] # None
                 PROVE  Promise!Agree(e.claims, Shown[other].claims)
        OBVIOUS
    <2>1. Live(other)
        BY ShownIs
    <2>2. Shown[other] = [claims |-> bucket[other].claims, expires |-> bucket[other].expires]
        BY <2>1, ShownIs
    <2> QED
        BY <1>1, <2>1, <2>2, PromisedAgreement DEF AgreesWithLive
<1>7. Shown' = [Shown EXCEPT ![id] = IF e.expires > now THEN e ELSE None]
    <2>1. \A b \in Ids : bucket'[b] = IF b = id THEN reg ELSE bucket[b]
        BY <1>1 DEF Types
    <2>2. reg # None
        BY <1>1, NoneAssumption
    <2>3. \A b \in Ids : Live(b)' <=> IF b = id THEN reg.expires > now ELSE Live(b)
        BY <1>1, <2>1, <2>2 DEF Live
    <2>4. ASSUME NEW b \in Ids
          PROVE  Shown'[b] = IF b = id THEN (IF e.expires > now THEN e ELSE None) ELSE Shown[b]
        <3>1. Shown'[b] = IF Live(b)' THEN [claims |-> bucket'[b].claims, expires |-> bucket'[b].expires] ELSE None
            BY DEF Shown
        <3>2. Shown[b] = IF Live(b) THEN [claims |-> bucket[b].claims, expires |-> bucket[b].expires] ELSE None
            BY DEF Shown
        <3> QED
            BY <2>1, <2>3, <3>1, <3>2
    <2>5. DOMAIN Shown' = Ids /\ DOMAIN Shown = Ids /\ Shown' = [b \in Ids |-> Shown'[b]]
        BY DEF Shown
    <2> HIDE DEF e
    <2> QED
        BY <2>4, <2>5
<1>8. UNCHANGED <<now, Asked>>
    BY <1>1, <1>2, AskedIs
<1> HIDE DEF e
<1>9. Promise!Announce(id)
    BY <1>5, <1>6, <1>7, <1>8 DEF Promise!Announce
<1> QED
    BY <1>1, <1>9 DEF Promise!PromiseNext

\* A delete withdraws the one entry that was asked for.
LEMMA DeletePromise == ASSUME LoneInv, NEW c \in Calls, Lone(c), Delete(c) PROVE Promise!PromiseNext
<1>1. /\ Types /\ pc[c] = "deleting" /\ arg[c] \in Ids
      /\ bucket' = [bucket EXCEPT ![arg[c]] = None] /\ UNCHANGED now
    BY DEF Delete, LoneInv, StoreInv, HandlerInv, Holds
<1>2. pc'[c] = "idle"
    BY <1>1 DEF Delete, Reply, Types
<1>3. Asked = {arg[c]} /\ Asked' = {}
    BY <1>1, <1>2, AskedIs
<1>4. Shown' = [Shown EXCEPT ![arg[c]] = None]
    BY <1>1 DEF Shown, Live, Types
<1>5. Promise!Withdraw(arg[c])
    BY <1>1, <1>3, <1>4 DEF Promise!Withdraw
<1> QED
    BY <1>1, <1>5 DEF Promise!PromiseNext

\* To ask for a withdrawal is a step of the promise.
LEMMA AskPromise ==
    ASSUME LoneInv, NEW c \in Calls, Lone(c), NEW id \in Ids, Live(id), StartDeregister(c, id)
    PROVE  Promise!PromiseNext
<1>1. Types /\ UNCHANGED <<now, bucket>> /\ pc[c] = "idle"
    BY DEF StartDeregister, LoneInv, StoreInv
<1>2. pc'[c] = "deleting" /\ arg'[c] = id
    BY <1>1 DEF StartDeregister, Types
<1>3. Asked' = Asked \cup {id} /\ UNCHANGED <<now, Shown>>
    BY <1>1, <1>2, AskedIs, SameShown
<1>4. Promise!Ask(id)
    BY <1>3 DEF Promise!Ask
<1> QED
    BY <1>4 DEF Promise!PromiseNext

\* Time passes in the promise as it does for the deadlines of the entries.
LEMMA TickPromise == ASSUME LoneInv, NEW c \in Calls, Lone(c), Tick PROVE Promise!PromiseNext
<1>1. Types /\ now \in Nat /\ now < MaxTime /\ now' = now + 1 /\ UNCHANGED <<bucket, pc, arg>>
    BY DEF Tick, locals, LoneInv, StoreInv, Types
<1>2. UNCHANGED Asked
    BY <1>1, AskedIs
<1>3. ASSUME NEW id \in Ids
      PROVE  Shown'[id] = IF Shown[id] # None /\ Shown[id].expires <= now' THEN None ELSE Shown[id]
    <2>1. CASE ~ Live(id)
        <3>1. ~ Live(id)'
            BY <1>1, <2>1, LessIsLive
        <3>2. Shown[id] = None /\ Shown'[id] = None
            BY <2>1, <3>1 DEF Shown
        <3> QED
            BY <3>2
    <2>2. CASE Live(id)
        <3>1. /\ bucket[id] \in Registration /\ bucket[id] # None
              /\ Shown[id] = [claims |-> bucket[id].claims, expires |-> bucket[id].expires] /\ Shown[id] # None
            BY <1>1, <2>2, ShownIs, LiveShows DEF Types, Live
        <3>2. bucket[id].expires \in Nat
            BY <3>1 DEF Registration
        <3>3. Live(id)' <=> ~ (bucket[id].expires <= now')
            BY <1>1, <3>1, <3>2 DEF Live
        <3>4. Shown'[id] = IF Live(id)' THEN [claims |-> bucket[id].claims, expires |-> bucket[id].expires] ELSE None
            BY <1>1 DEF Shown
        <3> QED
            BY <3>1, <3>3, <3>4
    <2> QED
        BY <2>1, <2>2
<1>4. Shown' = [id \in Ids |-> IF Shown[id] # None /\ Shown[id].expires <= now' THEN None ELSE Shown[id]]
    <2>1. Shown' = [id \in Ids |-> Shown'[id]]
        BY DEF Shown
    <2> QED
        BY <1>3, <2>1
<1>5. Promise!Pass
    BY <1>1, <1>2, <1>4 DEF Promise!Pass
<1> QED
    BY <1>5 DEF Promise!PromiseNext

\* Nothing shows of what the collector takes.
LEMMA CollectPromise ==
    ASSUME LoneInv, NEW c \in Calls, Lone(c), Longest <= MaxAge, NEW id \in Ids, Collect(id)
    PROVE  UNCHANGED Promise!promiseVars
<1>1. /\ Types /\ ~ Live(id) /\ bucket' = [bucket EXCEPT ![id] = None] /\ UNCHANGED <<now, pc, arg>>
    BY CollectedIsDead DEF Collect, locals, LoneInv, StoreInv
<1>2. UNCHANGED Asked
    BY <1>1, AskedIs
<1>3. \A b \in Ids : (Live(b)' <=> Live(b)) /\ (Live(b) => bucket'[b] = bucket[b])
    BY <1>1 DEF Live, Types
<1>4. UNCHANGED Shown
    BY <1>3 DEF Shown
<1> QED
    BY <1>1, <1>2, <1>4 DEF Promise!promiseVars

\* Every step of a handler is a step of the promise, or none.
LEMMA HandlerPromise ==
    ASSUME LoneInv, NEW c \in Calls, Lone(c), Handler(c)
    PROVE  [Promise!PromiseNext]_(Promise!promiseVars)
<1>1. Types
    BY DEF LoneInv, StoreInv
<1>2. CASE \/ \E p \in Submissions : StartRegister(c, p)
           \/ \E q \in Questions : StartResolve(c, q)
           \/ StartListInterfaces(c) \/ StartFails(c)
           \/ \E id \in Ids : StartHeartbeat(c, id) \/ (~ Live(id) /\ StartDeregister(c, id))
    <2>1. UNCHANGED <<now, bucket>> /\ pc[c] = "idle"
        BY <1>2 DEF StartRegister, StartResolve, StartListInterfaces, StartFails, StartHeartbeat, StartDeregister
    <2>2. (\E r : Reply(c, r)) \/ (\E f, x : StartListing(c, f, x)) \/ (\E id, t : Renew(c, id, t))
        BY <1>2 DEF StartRegister, StartResolve, StartListInterfaces, StartFails, StartHeartbeat, StartDeregister
    <2>3. pc'[c] # "deleting"
        BY <1>1, <2>2 DEF Types, Reply, StartListing, Renew
    <2> QED
        BY <2>1, <2>3, QuietPromise
<1>3. CASE CheckConflicts(c) \/ AnswerDiscovery(c) \/ \E id \in Ids : ReadEntry(c, id)
    <2>1. UNCHANGED <<now, bucket>> /\ pc[c] = "reading"
        BY <1>3 DEF CheckConflicts, AnswerDiscovery, ReadEntry
    <2>2. (\E r : Reply(c, r)) \/ pc' = [pc EXCEPT ![c] = "putting"] \/ UNCHANGED pc
        BY <1>3 DEF CheckConflicts, AnswerDiscovery, ReadEntry
    <2>3. pc'[c] # "deleting"
        BY <1>1, <2>1, <2>2 DEF Types, Reply
    <2> QED
        BY <2>1, <2>3, QuietPromise
<1>4. CASE WriteFails(c)
    <2>1. UNCHANGED <<now, bucket>> /\ pc[c] \in {"putting", "deleting"} /\ pc'[c] = "idle"
        BY <1>1, <1>4 DEF WriteFails, Reply, Types
    <2> QED
        BY <2>1, QuietPromise
<1>5. CASE \E id \in Ids : Live(id) /\ StartDeregister(c, id)
    BY <1>5, AskPromise
<1> QED
    BY <1>2, <1>3, <1>4, <1>5, PutPromise, DeletePromise DEF Handler

\* So is every step.
LEMMA NextPromise ==
    ASSUME LoneInv, NEW c \in Calls, Lone(c), Longest <= MaxAge, [Next]_vars
    PROVE  [Promise!PromiseNext]_(Promise!promiseVars)
<1>1. CASE UNCHANGED vars
    BY <1>1 DEF vars, Promise!promiseVars, Shown, Live, Asked
<1>2. CASE Next
    BY <1>2, HandlerPromise, CollectPromise, TickPromise DEF Next, Lone
<1> QED
    BY <1>1, <1>2

\* One handler at a time, over entries that can all be read and a bucket that
\* keeps messages as long as the longest TTL, registryd implements the registry
\* that registry.md describes: reads key by key, deadlines in the entries and
\* the collector do not show, no step admits a conflict and none loses a live
\* entry that nobody asked to withdraw.
THEOREM LoneHandlerKeepsPromise ==
    ASSUME NEW c \in Calls, Calls = {c}, Unreadable = {}, Clamp(MaxTtl) <= MaxAge
    PROVE  Spec => KeepsPromise
<1>1. Lone(c) /\ Longest <= MaxAge
    BY DEF Lone, Longest
<1>2. LoneInv /\ [Next]_vars => LoneInv'
    BY <1>1, LoneNext
<1>3. LoneInv /\ [Next]_vars => [Promise!PromiseNext]_(Promise!promiseVars)
    BY <1>1, NextPromise
<1> QED
    BY <1>2, <1>3, LoneInit, InitPromise, PTL DEF Spec, KeepsPromise, Promise!PromiseSpec

\* With one handler, the only conflicts that reject_conflicts lets in are those
\* of a provider that gives an interface two digests itself: where none does,
\* two registrations that disagree need two handlers at once.
THEOREM LoneHandlerNeverConflicts ==
    ASSUME NEW c \in Calls, Calls = {c}, Unreadable = {}, \A list \in Claims : Consistent(list)
    PROVE  Spec => []NoConflictingClaims
<1>1. LoneInv /\ [Next]_vars => LoneInv'
    BY LoneNext DEF Lone
<1>2. LoneInv => NoConflictingClaims
    <2> SUFFICES ASSUME LoneInv, NEW a \in Ids, NEW b \in Ids, a # b, Live(a), Live(b)
                 PROVE  ~ Disagree(bucket[a].claims, bucket[b].claims)
        BY DEF NoConflictingClaims
    <2>1. Agree(bucket[a].claims, bucket[b].claims) /\ Types
        BY DEF LoneInv, LiveAgree, StoreInv
    <2>2. bucket[a].claims \in Claims /\ bucket[b].claims \in Claims
        BY <2>1 DEF Types, Live, Registration
    <2> QED
        BY <2>1, <2>2, ConsistentListsAgree
<1> QED
    BY <1>1, <1>2, LoneInit, PTL DEF Spec

-----------------------------------------------------------------------------
(* Addressing.                                                             *)

-----------------------------------------------------------------------------
(* Texts.                                                                  *)

\* The tokens that there are.
Token == Separators \cup {"wit"} \cup UNION {ToSet(text) : text \in Texts \cup Functions}

Text == Seq(Token)

\* No token of a text is this one.
Lacks(text, token) == \A k \in DOMAIN text : text[k] # token

\* What two texts are joined to, with a separator between them.
Joined(a, sep, b) == (a \o <<sep>>) \o b

\* What holds of no text and goes on with another token holds of every text.
LEMMA TextClimb ==
    ASSUME NEW T, <<>> \in T, \A u \in Text, t \in Token : u \in T => Append(u, t) \in T
    PROVE  Text \subseteq T
<1> SUFFICES ASSUME NEW text \in Text PROVE text \in T
  OBVIOUS
<1> DEFINE n == Len(text)
           K == {k \in 0..n : SubSeq(text, 1, k) \in T}
<1>1. n \in Nat /\ text \in Seq(Token) /\ \A k \in 1..n : text[k] \in Token
  BY LenProperties, ElementOfSeq DEF Text
<1>2. 0 \in K
  <2>1. SubSeq(text, 1, 0) = <<>>
    BY SubSeqEmpty
  <2>2. 0 \in 0..n
    BY <1>1
  <2> HIDE DEF n
  <2> QED
    BY <2>1, <2>2
<1>3. ASSUME NEW k \in 1..n, k - 1 \in K PROVE k \in K
  <2>1. 1 \in 1..n /\ k \in 1..n /\ k - 1 \in 0..n
    BY <1>1
  <2>2. SubSeq(text, 1, k) = SubSeq(text, 1, k - 1) \o <<text[k]>>
    BY <1>1, <2>1, SubSeqRecursiveSecond
  <2>3. SubSeq(text, 1, k - 1) \in Seq(Token)
    <3>1. \A i \in 1..(k - 1) : i \in 1..n
      BY <1>1
    <3>2. k - 1 \in Int /\ 1 \in Int
      BY <1>1
    <3> HIDE DEF n
    <3> QED
      BY <1>1, <3>1, <3>2, SubSeqProperties
  <2>4. SubSeq(text, 1, k) = Append(SubSeq(text, 1, k - 1), text[k])
    BY <1>1, <2>2, <2>3, AppendIsConcat
  <2>5. SubSeq(text, 1, k - 1) \in Text /\ SubSeq(text, 1, k - 1) \in T /\ text[k] \in Token /\ k \in 0..n
    BY <1>1, <1>3, <2>1, <2>3 DEF Text
  <2> HIDE DEF n
  <2> QED
    BY <2>4, <2>5
<1>4. n \in K
  <2>1. 0..n \subseteq K
    <3> HIDE DEF K, n
    <3> QED
      BY <1>1, <1>2, <1>3, Climb
  <2> QED
    BY <1>1, <2>1
<1>5. SubSeq(text, 1, n) = text
  BY <1>1, SubSeqFull
<1> QED
  BY <1>4, <1>5

\* Texts, and what is joined of them, grow by a token.
LEMMA Grows ==
    /\ <<>> \in Text
    /\ \A u \in Text, t \in Token : Append(u, t) \in Text /\ <<t>> \in Text
    /\ \A a, b \in Text, sep, t \in Token :
          /\ Joined(a, sep, b) \in Text
          /\ Joined(a, sep, <<>>) = Append(a, sep)
          /\ Joined(a, sep, Append(b, t)) = Append(Joined(a, sep, b), t)
<1>1. <<>> \in Text
  BY EmptySeq DEF Text
<1>2. ASSUME NEW u \in Text, NEW t \in Token PROVE Append(u, t) \in Text /\ <<t>> \in Text
  <2>1. u \in Seq(Token)
    BY DEF Text
  <2>2. Append(u, t) \in Seq(Token) /\ <<t>> \in Seq(Token)
    BY <2>1, AppendProperties
  <2> QED
    BY <2>2 DEF Text
<1>3. ASSUME NEW a \in Text, NEW b \in Text, NEW sep \in Token, NEW t \in Token
      PROVE  /\ Joined(a, sep, b) \in Text
             /\ Joined(a, sep, <<>>) = Append(a, sep)
             /\ Joined(a, sep, Append(b, t)) = Append(Joined(a, sep, b), t)
  <2>1. a \in Seq(Token) /\ b \in Seq(Token) /\ <<sep>> \in Seq(Token) /\ <<t>> \in Seq(Token)
    BY <1>2 DEF Text
  <2>2. a \o <<sep>> \in Seq(Token) /\ a \o <<sep>> = Append(a, sep)
    BY <2>1, ConcatProperties, AppendIsConcat
  <2>3. Joined(a, sep, b) \in Seq(Token)
    BY <2>1, <2>2, ConcatProperties DEF Joined
  <2>4. Joined(a, sep, <<>>) = Append(a, sep)
    BY <2>2, ConcatEmptySeq DEF Joined
  <2>5. Append(b, t) = b \o <<t>> /\ Append(Joined(a, sep, b), t) = Joined(a, sep, b) \o <<t>>
    BY <2>1, <2>3, AppendIsConcat
  <2>6. (a \o <<sep>>) \o (b \o <<t>>) = ((a \o <<sep>>) \o b) \o <<t>>
    BY <2>1, <2>2, ConcatAssociative
  <2> QED
    BY <2>3, <2>4, <2>5, <2>6 DEF Text, Joined
<1> QED
  BY <1>1, <1>2, <1>3

\* The same, of one joined text.
LEMMA JoinedGrows ==
    ASSUME NEW a \in Text, NEW b \in Text, NEW sep \in Token, NEW t \in Token
    PROVE  Joined(a, sep, Append(b, t)) = Append(Joined(a, sep, b), t)
BY Grows

\* A text lacks what its tokens are not.
LEMMA LacksGrows ==
    ASSUME NEW token
    PROVE  /\ Lacks(<<>>, token)
           /\ \A u \in Text, t \in Token : Lacks(Append(u, t), token) <=> Lacks(u, token) /\ t # token
           /\ \A t \in Token : Lacks(<<t>>, token) <=> t # token
<1>1. Lacks(<<>>, token)
  BY DEF Lacks
<1>2. ASSUME NEW u \in Text, NEW t \in Token
      PROVE  Lacks(Append(u, t), token) <=> Lacks(u, token) /\ t # token
  <2>1. /\ Append(u, t) \in Seq(Token) /\ Len(Append(u, t)) = Len(u) + 1
        /\ \A i \in 1..Len(u) : Append(u, t)[i] = u[i]
        /\ Append(u, t)[Len(u) + 1] = t
    <3>1. u \in Seq(Token)
      BY DEF Text
    <3> QED
      BY <3>1, AppendProperties
  <2>2. DOMAIN Append(u, t) = 1..(Len(u) + 1) /\ DOMAIN u = 1..Len(u) /\ Len(u) \in Nat
    BY <2>1, LenProperties DEF Text
  <2>3. 1..(Len(u) + 1) = 1..Len(u) \cup {Len(u) + 1}
    BY <2>2
  <2> QED
    BY <2>1, <2>2, <2>3 DEF Lacks
<1>3. ASSUME NEW t \in Token PROVE Lacks(<<t>>, token) <=> t # token
  <2>1. DOMAIN <<t>> = {1} /\ <<t>>[1] = t
    OBVIOUS
  <2> QED
    BY <2>1 DEF Lacks
<1> QED
  BY <1>1, <1>2, <1>3

\* What is joined lacks what its parts and the separator are not.
LEMMA LacksJoined ==
    ASSUME NEW a \in Text, NEW b \in Text, NEW sep \in Token, NEW token
    PROVE  Lacks(Joined(a, sep, b), token) <=> Lacks(a, token) /\ sep # token /\ Lacks(b, token)
<1> DEFINE T == {u \in Text : Lacks(Joined(a, sep, u), token) <=> Lacks(a, token) /\ sep # token /\ Lacks(u, token)}
<1>1. <<>> \in T
  <2>1. Joined(a, sep, <<>>) = Append(a, sep) /\ <<>> \in Text
    BY Grows
  <2>2. Lacks(<<>>, token) /\ (Lacks(Append(a, sep), token) <=> Lacks(a, token) /\ sep # token)
    BY LacksGrows
  <2> QED
    BY <2>1, <2>2
<1>2. ASSUME NEW u \in Text, NEW t \in Token, u \in T PROVE Append(u, t) \in T
  <2>1. Joined(a, sep, Append(u, t)) = Append(Joined(a, sep, u), t) /\ Joined(a, sep, u) \in Text /\ Append(u, t) \in Text
    <3>1. u \in Text
      BY <1>2
    <3>2. Append(u, t) \in Text
      BY <3>1, Grows
    <3>3. Joined(a, sep, u) \in Text
      BY <3>1, Grows
    <3>4. Joined(a, sep, Append(u, t)) = Append(Joined(a, sep, u), t)
      BY <3>1, Grows
    <3> QED
      BY <3>2, <3>3, <3>4
  <2>2. /\ Lacks(Append(u, t), token) <=> Lacks(u, token) /\ t # token
        /\ Lacks(Append(Joined(a, sep, u), t), token) <=> Lacks(Joined(a, sep, u), token) /\ t # token
    BY <2>1, LacksGrows
  <2> QED
    BY <1>2, <2>1, <2>2
<1> HIDE DEF T
<1>3. b \in T
  BY <1>1, <1>2, TextClimb
<1> QED
  BY <1>3 DEF T


-----------------------------------------------------------------------------
(* Texts that are split once.                                              *)

\* A text has no separator, or what is before the first and what is after it.
LEMMA Cut ==
    ASSUME NEW text \in Text, NEW sep \in Token
    PROVE  Lacks(text, sep) \/ \E a, b \in Text : Lacks(a, sep) /\ text = Joined(a, sep, b)
<1> DEFINE T == {u \in Text : Lacks(u, sep) \/ \E a, b \in Text : Lacks(a, sep) /\ u = Joined(a, sep, b)}
<1>1. <<>> \in T
  BY Grows, LacksGrows
<1>2. ASSUME NEW u \in Text, NEW t \in Token, u \in T PROVE Append(u, t) \in T
  <2>0. Append(u, t) \in Text
    BY Grows
  <2>1. CASE Lacks(u, sep) /\ t # sep
    <3>1. Lacks(Append(u, t), sep)
      BY <2>1, LacksGrows
    <3> QED
      BY <2>0, <3>1
  <2>2. CASE Lacks(u, sep) /\ t = sep
    <3>1. Append(u, t) = Joined(u, sep, <<>>) /\ <<>> \in Text
      BY <2>2, Grows
    <3> QED
      BY <2>0, <2>2, <3>1
  <2>3. CASE ~Lacks(u, sep)
    <3>1. PICK a \in Text, b \in Text : Lacks(a, sep) /\ u = Joined(a, sep, b)
      BY <1>2, <2>3
    <3> HIDE DEF T
    <3>2. Append(b, t) \in Text
      BY Grows
    <3>3. Append(Joined(a, sep, b), t) = Joined(a, sep, Append(b, t))
      BY Grows
    <3> USE DEF T
    <3> QED
      BY <2>0, <3>1, <3>2, <3>3
  <2> QED
    BY <2>1, <2>2, <2>3
<1> HIDE DEF T
<1>3. text \in T
  BY <1>1, <1>2, TextClimb
<1> QED
  BY <1>3 DEF T

\* Token by token.
LEMMA JoinedIs ==
    ASSUME NEW a \in Text, NEW b \in Text, NEW sep \in Token
    PROVE  /\ Joined(a, sep, b) \in Text /\ Len(a) \in Nat /\ Len(b) \in Nat
           /\ Len(Joined(a, sep, b)) = Len(a) + 1 + Len(b)
           /\ \A i \in 1..Len(a) : Joined(a, sep, b)[i] = a[i]
           /\ Joined(a, sep, b)[Len(a) + 1] = sep
           /\ \A i \in 1..Len(b) : Joined(a, sep, b)[Len(a) + 1 + i] = b[i]
<1>1. <<sep>> \in Seq(Token) /\ Len(<<sep>>) = 1 /\ <<sep>>[1] = sep
  BY Grows DEF Text
<1>2. a \in Seq(Token) /\ b \in Seq(Token) /\ Len(a) \in Nat /\ Len(b) \in Nat
  BY LenProperties DEF Text
<1>3. /\ a \o <<sep>> \in Seq(Token) /\ Len(a \o <<sep>>) = Len(a) + 1
      /\ \A i \in 1..(Len(a) + 1) : (a \o <<sep>>)[i] = IF i <= Len(a) THEN a[i] ELSE <<sep>>[i - Len(a)]
  BY <1>1, <1>2, ConcatProperties
<1>4. /\ Joined(a, sep, b) \in Seq(Token) /\ Len(Joined(a, sep, b)) = Len(a \o <<sep>>) + Len(b)
      /\ \A i \in 1..(Len(a \o <<sep>>) + Len(b)) :
            Joined(a, sep, b)[i] = IF i <= Len(a \o <<sep>>) THEN (a \o <<sep>>)[i] ELSE b[i - Len(a \o <<sep>>)]
  BY <1>2, <1>3, ConcatProperties DEF Joined
<1>5. \A i \in 1..Len(a) : Joined(a, sep, b)[i] = a[i]
  BY <1>2, <1>3, <1>4
<1>6. Joined(a, sep, b)[Len(a) + 1] = sep
  <2>1. Len(a) + 1 \in 1..(Len(a) + 1 + Len(b)) /\ ~(Len(a) + 1 <= Len(a)) /\ Len(a) + 1 - Len(a) = 1
    BY <1>2
  <2>2. (a \o <<sep>>)[Len(a) + 1] = sep
    <3>1. Len(a) + 1 \in 1..(Len(a) + 1)
      BY <1>2
    <3> QED
      BY <1>1, <1>3, <2>1, <3>1
  <2> QED
    BY <1>2, <1>3, <1>4, <2>1, <2>2
<1>7. ASSUME NEW i \in 1..Len(b) PROVE Joined(a, sep, b)[Len(a) + 1 + i] = b[i]
  <2>1. /\ Len(a) + 1 + i \in 1..(Len(a) + 1 + Len(b)) /\ ~(Len(a) + 1 + i <= Len(a) + 1)
        /\ Len(a) + 1 + i - (Len(a) + 1) = i
    BY <1>2
  <2> QED
    BY <1>3, <1>4, <2>1
<1>8. Joined(a, sep, b) \in Text /\ Len(Joined(a, sep, b)) = Len(a) + 1 + Len(b)
  BY <1>3, <1>4 DEF Text
<1> QED
  BY <1>2, <1>5, <1>6, <1>7, <1>8

\* What split_once finds is that.
LEMMA SplitOnceJoined ==
    ASSUME NEW a \in Text, NEW b \in Text, NEW sep \in Token, Lacks(a, sep)
    PROVE  SplitOnce(Joined(a, sep, b), sep) = << <<a, b>> >>
<1> DEFINE text == Joined(a, sep, b)
           n == Len(a)
           I == {j \in 1..Len(text) : text[j] = sep}
<1>1. /\ text \in Text /\ n \in Nat /\ Len(b) \in Nat /\ Len(text) = n + 1 + Len(b)
      /\ \A i \in 1..n : text[i] = a[i]
      /\ text[n + 1] = sep
      /\ \A i \in 1..Len(b) : text[n + 1 + i] = b[i]
  <2>1. text \in Text /\ n \in Nat /\ Len(b) \in Nat /\ Len(text) = n + 1 + Len(b)
    BY JoinedIs
  <2>2. \A i \in 1..n : text[i] = a[i]
    BY JoinedIs
  <2>3. text[n + 1] = sep
    BY JoinedIs
  <2>4. \A i \in 1..Len(b) : text[n + 1 + i] = b[i]
    BY JoinedIs
  <2> QED
    BY <2>1, <2>2, <2>3, <2>4
<1>2. text \in Seq(Token) /\ a \in Seq(Token) /\ b \in Seq(Token)
  BY <1>1 DEF Text
<1>3. DOMAIN a = 1..n /\ \A j \in 1..Len(text) : text[j] \in Token
  BY <1>2, LenProperties, ElementOfSeq
<1> HIDE DEF text, n
<1>4. SelectInSeq(text, LAMBDA token : token = sep) = n + 1
  <2>1. \A j \in 1..n : text[j] # sep
    BY <1>1, <1>3 DEF Lacks
  <2>2. n + 1 \in I /\ \A j \in I : n + 1 <= j
    BY <1>1, <2>1
  <2>3. \A x \in I : (\A y \in I : x <= y) => x = n + 1
    <3>1. \A x \in I : x \in Int
      BY <1>1
    <3> HIDE DEF I
    <3> QED
      BY <1>1, <2>2, <3>1
  <2>4. I # {} /\ Min(I) = n + 1
    <3> HIDE DEF I
    <3> QED
      BY <2>2, <2>3 DEF Min
  <2> QED
    BY <2>4 DEF SelectInSeq
<1>5. SubSeq(text, 1, n) = a
  <2>1. \A i \in 1..n : text[i] \in Token
    BY <1>1, <1>3
  <2>2. /\ SubSeq(text, 1, n) \in Seq(Token)
        /\ Len(SubSeq(text, 1, n)) = IF 1 <= n THEN n - 1 + 1 ELSE 0
        /\ \A i \in 1..(n - 1 + 1) : SubSeq(text, 1, n)[i] = text[1 + i - 1]
    <3>1. 1 \in Int /\ n \in Int
      BY <1>1
    <3> QED
      BY <2>1, <3>1, SubSeqProperties
  <2>3. Len(SubSeq(text, 1, n)) = n
    BY <1>1, <2>2
  <2>4. \A i \in 1..n : SubSeq(text, 1, n)[i] = a[i]
    <3> SUFFICES ASSUME NEW i \in 1..n PROVE SubSeq(text, 1, n)[i] = a[i]
      OBVIOUS
    <3>1. i \in 1..(n - 1 + 1) /\ 1 + i - 1 = i
      BY <1>1
    <3> QED
      BY <1>1, <2>2, <3>1
  <2>5. Len(a) = n
    BY DEF n
  <2> QED
    BY <1>2, <2>2, <2>3, <2>4, <2>5, SeqEqual
<1>6. SubSeq(text, n + 2, Len(text)) = b
  <2>1. \A i \in (n + 2)..Len(text) : text[i] \in Token
    <3>1. \A i \in (n + 2)..Len(text) : i \in 1..Len(text)
      BY <1>1
    <3> QED
      BY <1>3, <3>1
  <2>2. /\ SubSeq(text, n + 2, Len(text)) \in Seq(Token)
        /\ Len(SubSeq(text, n + 2, Len(text))) = IF n + 2 <= Len(text) THEN Len(text) - (n + 2) + 1 ELSE 0
        /\ \A i \in 1..(Len(text) - (n + 2) + 1) : SubSeq(text, n + 2, Len(text))[i] = text[n + 2 + i - 1]
    <3>1. n + 2 \in Int /\ Len(text) \in Int
      BY <1>1
    <3> QED
      BY <2>1, <3>1, SubSeqProperties
  <2>3. Len(SubSeq(text, n + 2, Len(text))) = Len(b)
    <3>1. n + 2 <= Len(text) => Len(text) - (n + 2) + 1 = Len(b)
      BY <1>1
    <3>2. ~(n + 2 <= Len(text)) => Len(b) = 0
      BY <1>1
    <3> QED
      BY <2>2, <3>1, <3>2
  <2>4. \A i \in 1..Len(b) : SubSeq(text, n + 2, Len(text))[i] = b[i]
    <3> SUFFICES ASSUME NEW i \in 1..Len(b) PROVE SubSeq(text, n + 2, Len(text))[i] = b[i]
      OBVIOUS
    <3>1. i \in 1..(Len(text) - (n + 2) + 1) /\ n + 2 + i - 1 = n + 1 + i
      BY <1>1
    <3>2. SubSeq(text, n + 2, Len(text))[i] = text[n + 1 + i]
      BY <2>2, <3>1
    <3> QED
      BY <1>1, <3>2
  <2> QED
    BY <1>2, <2>2, <2>3, <2>4, SeqEqual
<1>7. SplitOnce(text, sep) = << <<a, b>> >>
  <2>1. PICK i : i = n + 1
    OBVIOUS
  <2>2. SelectInSeq(text, LAMBDA token : token = sep) = i /\ i # 0
    BY <1>1, <1>4, <2>1
  <2>3. SplitOnce(text, sep) = << <<SubSeq(text, 1, i - 1), SubSeq(text, i + 1, Len(text))>> >>
    BY <2>2 DEF SplitOnce
  <2>4. i - 1 = n /\ i + 1 = n + 2
    BY <1>1, <2>1
  <2> QED
    BY <1>5, <1>6, <2>3, <2>4
<1> QED
  BY <1>7 DEF text

\* Where nothing is found there is no separator.
LEMMA SplitOnceIs ==
    ASSUME NEW text \in Text, NEW sep \in Token
    PROVE  \/ Lacks(text, sep) /\ SplitOnce(text, sep) = <<>>
           \/ \E a, b \in Text :
                 Lacks(a, sep) /\ text = Joined(a, sep, b) /\ SplitOnce(text, sep) = << <<a, b>> >>
<1>1. CASE Lacks(text, sep)
  <2>1. DOMAIN text = 1..Len(text)
    BY LenProperties DEF Text
  <2>2. {j \in 1..Len(text) : text[j] = sep} = {}
    BY <1>1, <2>1 DEF Lacks
  <2>3. SelectInSeq(text, LAMBDA token : token = sep) = 0
    BY <2>2 DEF SelectInSeq
  <2> QED
    BY <1>1, <2>3 DEF SplitOnce
<1>2. CASE ~Lacks(text, sep)
  <2>1. PICK a \in Text, b \in Text : Lacks(a, sep) /\ text = Joined(a, sep, b)
    BY <1>2, Cut
  <2> QED
    BY <2>1, SplitOnceJoined
<1> QED
  BY <1>1, <1>2


-----------------------------------------------------------------------------
(* Texts that are split.                                                   *)

Parts == Seq(Text) \ {<<>>}

\* What a token does to the parts before it.
LEMMA PutTokenIs ==
    ASSUME NEW parts \in Parts, NEW t \in Token, NEW sep
    PROVE  /\ Len(parts) \in Nat \ {0} /\ DOMAIN parts = 1..Len(parts) /\ parts[Len(parts)] \in Text
           /\ PutToken(parts, t, sep) \in Parts
           /\ t = sep => PutToken(parts, t, sep) = Append(parts, <<>>)
           /\ t # sep => /\ Len(PutToken(parts, t, sep)) = Len(parts)
                         /\ PutToken(parts, t, sep)[Len(parts)] = Append(parts[Len(parts)], t)
                         /\ \A j \in 1..(Len(parts) - 1) : PutToken(parts, t, sep)[j] = parts[j]
<1>1. parts \in Seq(Text) /\ Len(parts) \in Nat \ {0} /\ DOMAIN parts = 1..Len(parts)
  BY EmptySeq, LenProperties DEF Parts
<1>2. Len(parts) \in 1..Len(parts)
  BY <1>1
<1>3. parts[Len(parts)] \in Text
  BY <1>1, <1>2, ElementOfSeq
<1>4. CASE t = sep
  <2>1. PutToken(parts, t, sep) = Append(parts, <<>>)
    BY <1>4 DEF PutToken
  <2>2. <<>> \in Text
    BY Grows
  <2>3. Append(parts, <<>>) \in Seq(Text) /\ Append(parts, <<>>) # <<>>
    BY <1>1, <2>2, AppendProperties
  <2> QED
    BY <1>1, <1>3, <1>4, <2>1, <2>3 DEF Parts
<1>5. CASE t # sep
  <2> DEFINE last == Append(parts[Len(parts)], t)
             put == [parts EXCEPT ![Len(parts)] = last]
  <2>1. PutToken(parts, t, sep) = put
    BY <1>5 DEF PutToken
  <2>2. last \in Text
    BY <1>3, Grows
  <2> HIDE DEF last
  <2>3. /\ put \in Seq(Text) /\ Len(put) = Len(parts)
        /\ \A j \in 1..Len(parts) : put[j] = IF j = Len(parts) THEN last ELSE parts[j]
    BY <1>1, <1>2, <2>2, ExceptSeq
  <2>4. put # <<>>
    BY <1>1, <2>3, EmptySeq
  <2> HIDE DEF put
  <2>5. put[Len(parts)] = last /\ \A j \in 1..(Len(parts) - 1) : put[j] = parts[j]
    <3>0. \A m \in Nat \ {0} : \A j \in 1..(m - 1) : j \in 1..m /\ j # m
      OBVIOUS
    <3>1. \A j \in 1..(Len(parts) - 1) : j \in 1..Len(parts) /\ j # Len(parts)
      BY <1>1, <3>0
    <3> QED
      BY <1>2, <2>3, <3>1
  <2> QED
    BY <1>1, <1>3, <1>5, <2>1, <2>3, <2>4, <2>5 DEF Parts, last
<1> QED
  BY <1>4, <1>5

\* Splitting puts one token after the other.
PutOnce(f, text, sep) ==
    /\ Split(text, sep) = f[Len(text)] /\ f[0] = << <<>> >>
    /\ \A k \in 1..Len(text) : f[k] = PutToken(f[k - 1], text[k], sep)
    /\ \A k \in 0..Len(text) : f[k] \in Parts

LEMMA SplitRuns ==
    ASSUME NEW text \in Text, NEW sep
    PROVE  \E f : PutOnce(f, text, sep)
<1> DEFINE n == Len(text)
           step == [x \in (1..n) \X Parts |-> PutToken(x[2], text[x[1]], sep)]
           split == CHOOSE f : f = [k \in 0..n |-> IF k = 0 THEN << <<>> >> ELSE PutToken(f[k - 1], text[k], sep)]
<1>1. n \in Nat /\ \A k \in 1..n : text[k] \in Token
  BY LenProperties, ElementOfSeq DEF Text
<1>2. step \in [(1..n) \X Parts -> Parts]
  <2> HIDE DEF n
  <2> QED
    BY <1>1, PutTokenIs
<1>3. << <<>> >> \in Parts
  <2>1. <<>> \in Text
    BY Grows
  <2> QED
    BY <2>1 DEF Parts
<1>4. PICK g \in [0..n -> Parts] : g = [k \in 0..n |-> IF k = 0 THEN << <<>> >> ELSE step[<<k, g[k - 1]>>]]
  <2> HIDE DEF step, n
  <2>1. \E g \in [0..n -> Parts] : Rounds(g, n, << <<>> >>, step)
    BY <1>1, <1>2, <1>3, RoundsExist
  <2> QED
    BY <2>1 DEF Rounds
<1>5. \A k \in 0..n : k # 0 => k \in 1..n /\ k - 1 \in 0..n
  BY <1>1
<1>6. \A k \in 1..n : step[<<k, g[k - 1]>>] = PutToken(g[k - 1], text[k], sep)
  <2>1. \A k \in 1..n : k - 1 \in 0..n
    BY <1>1
  <2> HIDE DEF n
  <2> QED
    BY <2>1, <1>4
<1>7. g = [k \in 0..n |-> IF k = 0 THEN << <<>> >> ELSE PutToken(g[k - 1], text[k], sep)]
  <2> HIDE DEF step, n
  <2>1. \A k \in 0..n : g[k] = IF k = 0 THEN << <<>> >> ELSE step[<<k, g[k - 1]>>]
    BY <1>4
  <2>2. \A k \in 0..n : g[k] = IF k = 0 THEN << <<>> >> ELSE PutToken(g[k - 1], text[k], sep)
    BY <2>1, <1>5, <1>6
  <2>3. g = [k \in 0..n |-> g[k]]
    BY <1>4
  <2> QED
    BY <2>2, <2>3
<1>8. split = [k \in 0..n |-> IF k = 0 THEN << <<>> >> ELSE PutToken(split[k - 1], text[k], sep)]
  <2> HIDE DEF n
  <2> QED
    BY <1>7
<1>9. Split(text, sep) = split[n]
  BY DEF Split
<1> HIDE DEF split, n, step
<1>10. split[0] = << <<>> >> /\ \A k \in 1..n : split[k] = PutToken(split[k - 1], text[k], sep)
  <2>1. 0 \in 0..n /\ \A k \in 1..n : k \in 0..n /\ k # 0
    BY <1>1
  <2> QED
    BY <1>8, <2>1
<1>11. 0..n \subseteq {k \in 0..n : split[k] \in Parts}
  <2> DEFINE K == {k \in 0..n : split[k] \in Parts}
  <2>1. 0 \in K
    <3>1. 0 \in 0..n
      BY <1>1
    <3> QED
      BY <1>3, <1>10, <3>1
  <2>2. ASSUME NEW k \in 1..n, k - 1 \in K PROVE k \in K
    <3>1. split[k - 1] \in Parts /\ text[k] \in Token /\ k \in 0..n
      BY <1>1, <1>5, <2>2
    <3>2. split[k] \in Parts
      BY <1>10, <3>1, PutTokenIs
    <3> QED
      BY <3>1, <3>2
  <2> HIDE DEF K
  <2>3. 0..n \subseteq K
    BY <1>1, <2>1, <2>2, Climb
  <2> QED
    BY <2>3 DEF K
<1> QED
  BY <1>9, <1>10, <1>11 DEF PutOnce, n

\* So the parts grow with the text.
LEMMA SplitGrows ==
    ASSUME NEW sep
    PROVE  /\ Split(<<>>, sep) = << <<>> >>
           /\ \A text \in Text : Split(text, sep) \in Parts
           /\ \A text \in Text, t \in Token : Split(Append(text, t), sep) = PutToken(Split(text, sep), t, sep)
<1>1. Split(<<>>, sep) = << <<>> >>
  <2>1. <<>> \in Text /\ Len(<<>>) = 0
    BY Grows
  <2> QED
    BY <2>1, SplitRuns DEF PutOnce
<1>2. ASSUME NEW text \in Text PROVE Split(text, sep) \in Parts
  <2>1. Len(text) \in 0..Len(text)
    BY LenProperties DEF Text
  <2> QED
    BY <2>1, SplitRuns DEF PutOnce
<1>3. ASSUME NEW text \in Text, NEW t \in Token
      PROVE  Split(Append(text, t), sep) = PutToken(Split(text, sep), t, sep)
  <2> DEFINE n == Len(text)
  <2>0. PICK longer : longer = Append(text, t)
    OBVIOUS
  <2>1. longer \in Text /\ n \in Nat /\ Len(longer) = n + 1 /\ longer[n + 1] = t /\ \A k \in 1..n : longer[k] = text[k]
    <3>1. text \in Seq(Token)
      BY DEF Text
    <3> QED
      BY <2>0, <3>1, LenProperties, AppendProperties DEF Text
  <2>2. PICK f : PutOnce(f, text, sep)
    BY SplitRuns
  <2>3. PICK g : PutOnce(g, longer, sep)
    BY <2>1, SplitRuns
  <2>4. /\ Split(text, sep) = f[n] /\ f[0] = << <<>> >>
        /\ \A k \in 1..n : f[k] = PutToken(f[k - 1], text[k], sep)
    BY <2>2 DEF PutOnce
  <2>5. /\ Split(longer, sep) = g[n + 1] /\ g[0] = << <<>> >>
        /\ \A k \in 1..(n + 1) : g[k] = PutToken(g[k - 1], longer[k], sep)
    BY <2>1, <2>3 DEF PutOnce
  <2> DEFINE K == {k \in 0..n : f[k] = g[k]}
  <2> HIDE DEF n
  <2>6. 0 \in K
    BY <2>1, <2>4, <2>5
  <2>7. ASSUME NEW k \in 1..n, k - 1 \in K PROVE k \in K
    <3>1. k \in 1..(n + 1) /\ k \in 0..n
      BY <2>1
    <3> QED
      BY <2>1, <2>4, <2>5, <2>7, <3>1
  <2>8. n \in K
    <3> HIDE DEF K
    <3>1. 0..n \subseteq K
      BY <2>1, <2>6, <2>7, Climb
    <3> QED
      BY <2>1, <3>1
  <2>9. n + 1 \in 1..(n + 1) /\ n + 1 - 1 = n
    BY <2>1
  <2>10. g[n + 1] = PutToken(g[n], t, sep)
    BY <2>1, <2>5, <2>9
  <2> QED
    BY <2>0, <2>4, <2>5, <2>8, <2>10
<1> QED
  BY <1>1, <1>2, <1>3


\* A text without the separator is its only part.
LEMMA SplitLacks ==
    ASSUME NEW text \in Text, NEW sep \in Token, Lacks(text, sep)
    PROVE  Split(text, sep) = <<text>>
<1> DEFINE T == {u \in Text : Lacks(u, sep) => Split(u, sep) = <<u>>}
<1>1. <<>> \in T
  BY Grows, SplitGrows
<1>2. ASSUME NEW u \in Text, NEW t \in Token, u \in T PROVE Append(u, t) \in T
  <2>1. SUFFICES ASSUME Lacks(Append(u, t), sep) PROVE Split(Append(u, t), sep) = <<Append(u, t)>>
    BY Grows
  <2>2. Lacks(u, sep) /\ t # sep
    BY <2>1, LacksGrows
  <2>3. Split(u, sep) = <<u>>
    BY <1>2, <2>2
  <2>4. Split(Append(u, t), sep) = PutToken(<<u>>, t, sep)
    BY <2>3, SplitGrows
  <2>5. PutToken(<<u>>, t, sep) = [<<u>> EXCEPT ![1] = Append(u, t)]
    BY <2>2 DEF PutToken
  <2> QED
    BY <2>4, <2>5
<1> HIDE DEF T
<1>3. text \in T
  BY <1>1, <1>2, TextClimb
<1> QED
  BY <1>3 DEF T

\* A token goes on the last part, whatever the parts before it.
LEMMA PutTokenAfter ==
    ASSUME NEW x \in Parts, NEW y \in Parts, NEW t \in Token, NEW sep
    PROVE  x \o y \in Parts /\ PutToken(x \o y, t, sep) = x \o PutToken(y, t, sep)
<1> DEFINE m == Len(x)
           n == Len(y)
<1>1. x \in Seq(Text) /\ y \in Seq(Text) /\ m \in Nat \ {0} /\ n \in Nat \ {0}
  BY PutTokenIs DEF Parts
<1>2. /\ x \o y \in Seq(Text) /\ Len(x \o y) = m + n
      /\ \A i \in 1..(m + n) : (x \o y)[i] = IF i <= m THEN x[i] ELSE y[i - m]
  BY <1>1, ConcatProperties
<1>3. x \o y \in Parts
  BY <1>1, <1>2, EmptySeq DEF Parts
<1>4. CASE t = sep
  <2>1. <<>> \in Text /\ << <<>> >> \in Seq(Text)
    BY Grows
  <2>2. Append(x \o y, <<>>) = (x \o y) \o << <<>> >> /\ Append(y, <<>>) = y \o << <<>> >>
    BY <1>1, <1>2, <2>1, AppendIsConcat
  <2>3. (x \o y) \o << <<>> >> = x \o (y \o << <<>> >>)
    BY <1>1, <2>1, ConcatAssociative
  <2> QED
    BY <1>3, <1>4, <2>2, <2>3 DEF PutToken
<1>5. CASE t # sep
  <2> DEFINE p == PutToken(x \o y, t, sep)
             q == PutToken(y, t, sep)
  <2>1. /\ p \in Seq(Text) /\ Len(p) = m + n
        /\ p[m + n] = Append((x \o y)[m + n], t)
        /\ \A j \in 1..(m + n - 1) : p[j] = (x \o y)[j]
    <3>1. PICK z : z = x \o y
      OBVIOUS
    <3>2. /\ PutToken(z, t, sep) \in Parts /\ Len(PutToken(z, t, sep)) = Len(z)
          /\ PutToken(z, t, sep)[Len(z)] = Append(z[Len(z)], t)
          /\ \A j \in 1..(Len(z) - 1) : PutToken(z, t, sep)[j] = z[j]
      <4>1. z \in Parts
        BY <1>3, <3>1
      <4> QED
        BY <1>5, <4>1, PutTokenIs
    <3>3. Len(z) = m + n /\ PutToken(z, t, sep) = p
      BY <1>2, <3>1
    <3> HIDE DEF m, n, p
    <3>4. p \in Parts /\ Len(p) = m + n
      BY <3>2, <3>3
    <3>5. p[m + n] = Append(z[m + n], t)
      BY <3>2, <3>3
    <3>6. \A j \in 1..(m + n - 1) : p[j] = z[j]
      BY <1>1, <3>2, <3>3
    <3> QED
      BY <3>1, <3>4, <3>5, <3>6 DEF Parts
  <2>2. /\ q \in Seq(Text) /\ Len(q) = n
        /\ q[n] = Append(y[n], t)
        /\ \A j \in 1..(n - 1) : q[j] = y[j]
    BY <1>5, PutTokenIs DEF Parts
  <2> HIDE DEF p, q
  <2>3. /\ x \o q \in Seq(Text) /\ Len(x \o q) = m + n
        /\ \A i \in 1..(m + n) : (x \o q)[i] = IF i <= m THEN x[i] ELSE q[i - m]
    <3>1. x \in Seq(Text) /\ q \in Seq(Text) /\ m + n = Len(x) + Len(q)
      BY <1>1, <2>2
    <3>2. /\ x \o q \in Seq(Text) /\ Len(x \o q) = Len(x) + Len(q)
          /\ \A i \in 1..(Len(x) + Len(q)) : (x \o q)[i] = IF i <= Len(x) THEN x[i] ELSE q[i - Len(x)]
      BY <3>1, ConcatProperties
    <3> QED
      BY <3>1, <3>2
  <2> HIDE DEF m, n
  <2>4. ASSUME NEW i \in 1..(m + n) PROVE p[i] = (x \o q)[i]
    <3>1. CASE i = m + n
      <4>1. ~(i <= m) /\ i - m = n
        BY <1>1, <3>1
      <4> QED
        BY <1>2, <2>1, <2>2, <2>3, <3>1, <4>1
    <3>2. CASE i <= m
      <4>1. i \in 1..(m + n - 1)
        BY <1>1, <3>2
      <4>2. p[i] = (x \o y)[i]
        BY <2>1, <4>1
      <4> QED
        BY <1>2, <2>3, <3>2, <4>2
    <3>3. CASE ~(i <= m) /\ i # m + n
      <4>1. i \in 1..(m + n - 1) /\ i - m \in 1..(n - 1)
        BY <1>1, <3>3
      <4>2. p[i] = (x \o y)[i] /\ q[i - m] = y[i - m]
        BY <2>1, <2>2, <4>1
      <4> QED
        BY <1>2, <2>3, <3>3, <4>2
    <3> QED
      BY <3>1, <3>2, <3>3
  <2>5. p = x \o q
    BY <1>2, <2>1, <2>3, <2>4, SeqEqual
  <2> QED
    BY <1>3, <2>5 DEF p, q
<1> QED
  BY <1>4, <1>5

\* What is joined has the parts of both.
LEMMA SplitJoined ==
    ASSUME NEW a \in Text, NEW b \in Text, NEW sep \in Token
    PROVE  Split(Joined(a, sep, b), sep) = Split(a, sep) \o Split(b, sep)
<1> DEFINE T == {u \in Text : Split(Joined(a, sep, u), sep) = Split(a, sep) \o Split(u, sep)}
<1>0. Split(a, sep) \in Parts
  BY SplitGrows
<1>1. <<>> \in T
  <2>1. Joined(a, sep, <<>>) = Append(a, sep) /\ <<>> \in Text
    BY Grows
  <2>2. Split(Append(a, sep), sep) = Append(Split(a, sep), <<>>)
    <3>1. Split(Append(a, sep), sep) = PutToken(Split(a, sep), sep, sep)
      BY SplitGrows
    <3> QED
      BY <3>1 DEF PutToken
  <2>3. Append(Split(a, sep), <<>>) = Split(a, sep) \o << <<>> >>
    BY <1>0, <2>1, AppendIsConcat DEF Parts
  <2> QED
    BY <2>1, <2>2, <2>3, SplitGrows
<1>2. ASSUME NEW u \in Text, NEW t \in Token, u \in T PROVE Append(u, t) \in T
  <2>1. Append(u, t) \in Text
    BY Grows
  <2>2. Joined(a, sep, u) \in Text
    BY Grows
  <2>3. Joined(a, sep, Append(u, t)) = Append(Joined(a, sep, u), t)
    BY Grows
  <2>4. Split(u, sep) \in Parts
    BY SplitGrows
  <2>5. Split(Append(u, t), sep) = PutToken(Split(u, sep), t, sep)
    BY SplitGrows
  <2>6. Split(Append(Joined(a, sep, u), t), sep) = PutToken(Split(Joined(a, sep, u), sep), t, sep)
    BY <2>2, SplitGrows
  <2>7. PutToken(Split(a, sep) \o Split(u, sep), t, sep) = Split(a, sep) \o PutToken(Split(u, sep), t, sep)
    BY <1>0, <2>4, PutTokenAfter
  <2> QED
    BY <1>2, <2>1, <2>3, <2>5, <2>6, <2>7
<1> HIDE DEF T
<1>3. b \in T
  BY <1>1, <1>2, TextClimb
<1> QED
  BY <1>3 DEF T

\* There is one part more than there are separators.
LEMMA SplitCounts ==
    ASSUME NEW sep \in Token
    PROVE  /\ \A text \in Text : /\ Len(Split(text, sep)) \in Nat \ {0}
                                 /\ Len(Split(text, sep)) = 1 => Lacks(text, sep)
           /\ \A a, b \in Text :
                 Len(Split(Joined(a, sep, b), sep)) = Len(Split(a, sep)) + Len(Split(b, sep))
<1>1. ASSUME NEW text \in Text PROVE Len(Split(text, sep)) \in Nat \ {0}
  <2>1. Split(text, sep) \in Parts
    BY SplitGrows
  <2> QED
    BY <2>1, EmptySeq DEF Parts
<1>2. ASSUME NEW a \in Text, NEW b \in Text
      PROVE  Len(Split(Joined(a, sep, b), sep)) = Len(Split(a, sep)) + Len(Split(b, sep))
  <2>1. Split(a, sep) \in Seq(Text) /\ Split(b, sep) \in Seq(Text)
    BY SplitGrows DEF Parts
  <2>2. Split(Joined(a, sep, b), sep) = Split(a, sep) \o Split(b, sep)
    BY SplitJoined
  <2> QED
    BY <2>1, <2>2, ConcatProperties
<1>3. ASSUME NEW text \in Text, Len(Split(text, sep)) = 1 PROVE Lacks(text, sep)
  <2>1. SUFFICES ASSUME NEW a \in Text, NEW b \in Text, text = Joined(a, sep, b) PROVE FALSE
    BY Cut
  <2>2. Len(Split(text, sep)) = Len(Split(a, sep)) + Len(Split(b, sep))
    BY <1>2, <2>1
  <2>3. Len(Split(a, sep)) \in Nat \ {0} /\ Len(Split(b, sep)) \in Nat \ {0}
    BY <1>1
  <2>4. \A i, j \in Nat \ {0} : i + j # 1
    OBVIOUS
  <2> QED
    BY <1>3, <2>2, <2>3, <2>4, Zenon
<1> QED
  BY <1>1, <1>2, <1>3

\* What all parts lack, and is not the separator, the text lacks.
LEMMA SplitParts ==
    ASSUME NEW text \in Text, NEW sep \in Token, NEW token, token # sep,
           \A j \in DOMAIN Split(text, sep) : Lacks(Split(text, sep)[j], token)
    PROVE  Lacks(text, token)
<1> DEFINE Without(s) == \A j \in DOMAIN s : Lacks(s[j], token)
           T == {u \in Text : Without(Split(u, sep)) => Lacks(u, token)}
<1>1. <<>> \in T
  BY Grows, LacksGrows
<1>2. ASSUME NEW u \in Text, NEW t \in Token, u \in T PROVE Append(u, t) \in T
  <2> DEFINE s == Split(u, sep)
             p == PutToken(s, t, sep)
             n == Len(s)
  <2>1. s \in Parts /\ p = Split(Append(u, t), sep)
    BY SplitGrows
  <2> HIDE DEF s
  <2>2. /\ n \in Nat \ {0} /\ DOMAIN s = 1..n /\ s[n] \in Text /\ p \in Parts
        /\ t = sep => p = Append(s, <<>>)
        /\ t # sep => /\ Len(p) = n
                      /\ p[n] = Append(s[n], t)
                      /\ \A j \in 1..(n - 1) : p[j] = s[j]
    BY <2>1, PutTokenIs
  <2>3. DOMAIN p = 1..Len(p)
    BY <2>2, LenProperties DEF Parts
  <2>4. s \in Seq(Text)
    BY <2>1 DEF Parts
  <2> HIDE DEF p, n
  <2>5. ASSUME Without(p) PROVE Without(s) /\ t # token
    <3>1. CASE t = sep
      <4>1. Len(p) = n + 1 /\ \A j \in 1..n : p[j] = s[j]
        <5>1. <<>> \in Text
          BY Grows
        <5> QED
          BY <2>2, <2>4, <3>1, <5>1, AppendProperties DEF n
      <4>2. \A j \in 1..n : j \in 1..(n + 1)
        BY <2>2
      <4> QED
        BY <2>2, <2>3, <2>5, <3>1, <4>1, <4>2
    <3>2. CASE t # sep
      <4>1. Lacks(Append(s[n], t), token)
        <5>1. n \in 1..n
          BY <2>2
        <5> QED
          BY <2>2, <2>3, <2>5, <3>2, <5>1
      <4>2. Lacks(s[n], token) /\ t # token
        BY <2>2, <4>1, LacksGrows
      <4>3. \A j \in 1..n : j = n \/ j \in 1..(n - 1)
        BY <2>2
      <4> QED
        BY <2>2, <2>3, <2>5, <3>2, <4>2, <4>3
    <3> QED
      BY <3>1, <3>2
  <2>6. Append(u, t) \in Text
    BY Grows
  <2>7. Lacks(Append(u, t), token) <=> Lacks(u, token) /\ t # token
    BY LacksGrows
  <2>8. Without(s) => Lacks(u, token)
    BY <1>2 DEF s
  <2> QED
    BY <2>1, <2>5, <2>6, <2>7, <2>8
<1> HIDE DEF T
<1>3. text \in T
  BY <1>1, <1>2, TextClimb
<1> QED
  BY <1>3 DEF T


-----------------------------------------------------------------------------
(* Versions.                                                               *)

\* Identifiers have no separator but dots and dashes.
LEMMA IdentifiersLack ==
    ASSUME NEW text \in Text, IsIdentifiers(text), NEW token \in Separators \ {".", "-"}
    PROVE  Lacks(text, token)
<1>1. "." \in Token
  BY DEF Token, Separators
<1>2. ASSUME NEW j \in DOMAIN Split(text, ".") PROVE Lacks(Split(text, ".")[j], token)
  <2>1. ToSet(Split(text, ".")[j]) \cap (Separators \ {"-"}) = {}
    BY <1>2 DEF IsIdentifiers, ToSet
  <2>2. \A k \in DOMAIN Split(text, ".")[j] : Split(text, ".")[j][k] \in ToSet(Split(text, ".")[j])
    BY DEF ToSet
  <2> QED
    BY <2>1, <2>2 DEF Lacks
<1> QED
  BY <1>1, <1>2, SplitParts

\* A version has dots, dashes and pluses only, so what takes the place of a dot
\* in a subject is in none: "Semver identifiers are [0-9A-Za-z-], so this
\* substitution is reversible" (subject.rs:104).
LEMMA VersionLacks ==
    ASSUME NEW text \in Text, IsVersion(text), NEW token \in Separators \ {".", "-", "+"}
    PROVE  Lacks(text, token)
<1> DEFINE build == SplitOnce(text, "+")
           release == IF build = <<>> THEN text ELSE build[1][1]
           pre == SplitOnce(release, "-")
           core == IF pre = <<>> THEN release ELSE pre[1][1]
           numbers == Split(core, ".")
<1>1. "+" \in Token /\ "-" \in Token /\ "." \in Token /\ token # "+" /\ token # "-" /\ token # "."
  BY DEF Token, Separators
<1>2. /\ Len(numbers) = 3
      /\ \A k \in 1..3 : Len(numbers[k]) = 1 /\ numbers[k][1] \in Numerals
      /\ \A part \in ToSet(pre) \cup ToSet(build) : IsIdentifiers(part[2])
  BY DEF IsVersion
<1> HIDE DEF numbers
<1>3. release \in Text /\ (Lacks(release, token) => Lacks(text, token))
  <2>1. CASE build = <<>>
    BY <2>1
  <2>2. CASE build # <<>>
    <3>1. PICK a \in Text, b \in Text : text = Joined(a, "+", b) /\ build = << <<a, b>> >>
      BY <1>1, <2>2, SplitOnceIs
    <3>2. release = a /\ <<a, b>> \in ToSet(build)
      BY <2>2, <3>1 DEF ToSet
    <3> HIDE DEF build, release, pre
    <3>3. IsIdentifiers(b)
      BY <1>2, <3>2
    <3>4. Lacks(b, token)
      BY <1>1, <3>3, IdentifiersLack
    <3>5. Lacks(text, token) <=> Lacks(a, token) /\ Lacks(b, token)
      BY <1>1, <3>1, LacksJoined
    <3> QED
      BY <3>2, <3>4, <3>5
  <2> QED
    BY <2>1, <2>2
<1> HIDE DEF release, build
<1>4. core \in Text /\ (Lacks(core, token) => Lacks(release, token))
  <2>1. CASE pre = <<>>
    BY <1>3, <2>1
  <2>2. CASE pre # <<>>
    <3>1. PICK a \in Text, b \in Text : release = Joined(a, "-", b) /\ pre = << <<a, b>> >>
      BY <1>1, <1>3, <2>2, SplitOnceIs
    <3>2. core = a /\ <<a, b>> \in ToSet(pre)
      BY <2>2, <3>1 DEF ToSet
    <3> HIDE DEF core, pre
    <3>3. IsIdentifiers(b)
      BY <1>2, <3>2
    <3>4. Lacks(b, token)
      BY <1>1, <3>3, IdentifiersLack
    <3>5. Lacks(release, token) <=> Lacks(a, token) /\ Lacks(b, token)
      BY <1>1, <3>1, LacksJoined
    <3> QED
      BY <3>2, <3>4, <3>5
  <2> QED
    BY <2>1, <2>2
<1> HIDE DEF core
<1>5. Lacks(core, token)
  <2>1. numbers \in Seq(Text)
    BY <1>4, SplitGrows DEF numbers, Parts
  <2>2. DOMAIN numbers = 1..3
    BY <1>2, <2>1, LenProperties
  <2>3. ASSUME NEW k \in DOMAIN numbers PROVE Lacks(numbers[k], token)
    <3>1. k \in 1..3 /\ k \in 1..Len(numbers)
      BY <1>2, <2>2
    <3>2. numbers[k] \in Seq(Token) /\ Len(numbers[k]) = 1 /\ numbers[k][1] \in Numerals
      BY <1>2, <2>1, <3>1, ElementOfSeq DEF Text
    <3>3. DOMAIN numbers[k] = 1..1
      BY <3>2, LenProperties
    <3>4. numbers[k][1] # token
      BY <3>2, NamesAssumption
    <3> QED
      BY <3>3, <3>4 DEF Lacks
  <2> QED
    BY <1>1, <1>4, <2>3, SplitParts DEF numbers
<1> QED
  BY <1>3, <1>4, <1>5

\* What stands in a subject for a version is one token of it, no wildcard, and
\* the version can be read from it.
LEMMA EncodedVersion ==
    ASSUME NEW v \in Text, IsVersion(v)
    PROVE  /\ EncodeVersion(v) \in Text /\ Lacks(EncodeVersion(v), ".") /\ Lacks(EncodeVersion(v), "*")
           /\ DecodeVersion(EncodeVersion(v)) = v
<1> DEFINE n == Len(v)
           e == [k \in 1..n |-> IF v[k] = "." THEN "_" ELSE v[k]]
<1>1. n \in Nat /\ DOMAIN v = 1..n /\ v = [k \in 1..n |-> v[k]] /\ \A k \in 1..n : v[k] \in Token
  BY LenProperties, ElementOfSeq DEF Text
<1>2. Lacks(v, "_") /\ Lacks(v, "*")
  <2>1. "_" \in Separators \ {".", "-", "+"} /\ "*" \in Separators \ {".", "-", "+"}
    BY DEF Separators
  <2> QED
    BY <2>1, VersionLacks
<1>3. EncodeVersion(v) = e
  BY DEF EncodeVersion, ReplaceAll
<1>4. e \in Text /\ Len(e) = n
  <2>1. \A k \in 1..n : (IF v[k] = "." THEN "_" ELSE v[k]) \in Token
    <3>1. "_" \in Token
      BY DEF Token, Separators
    <3> QED
      BY <1>1, <3>1
  <2> HIDE DEF n
  <2>2. e \in [1..n -> Token]
    BY <2>1
  <2>3. e \in Seq(Token)
    <3> HIDE DEF e, n
    <3>1. e \in UNION {[1..m -> Token] : m \in Nat}
      BY <1>1, <2>2
    <3> QED
      BY <3>1, SeqDef
  <2>4. DOMAIN e = 1..Len(e) /\ DOMAIN e = 1..n /\ Len(e) \in Nat
    BY <2>3, LenProperties
  <2>5. \A k, l \in Nat : 1..k = 1..l => k = l
    OBVIOUS
  <2> HIDE DEF e
  <2> QED
    BY <1>1, <2>3, <2>4, <2>5 DEF Text
<1>5. Lacks(e, ".") /\ Lacks(e, "*")
  BY <1>1, <1>2 DEF Lacks
<1>6. DecodeVersion(e) = [k \in 1..n |-> IF e[k] = "_" THEN "." ELSE e[k]]
  <2> HIDE DEF e, n
  <2> QED
    BY <1>4 DEF DecodeVersion, ReplaceAll
<1>7. \A k \in 1..n : (IF e[k] = "_" THEN "." ELSE e[k]) = v[k]
  BY <1>1, <1>2 DEF Lacks
<1> HIDE DEF e, n
<1>8. DecodeVersion(e) = v
  BY <1>1, <1>6, <1>7
<1> QED
  BY <1>3, <1>4, <1>5, <1>8


-----------------------------------------------------------------------------
(* Names of interfaces.                                                    *)

\* Texts, put together: a name for \o, of which the provers else unfold too much.
Glue(a, b) == a \o b

LEMMA GlueTexts == \A a, b \in Text : Glue(a, b) \in Text
BY ConcatProperties DEF Text, Glue

LEMMA GlueAssociates ==
    ASSUME NEW a \in Text, NEW b \in Text, NEW c \in Text
    PROVE  Glue(Glue(a, b), c) = Glue(a, Glue(b, c))
BY ConcatAssociative DEF Text, Glue

LEMMA GlueFour ==
    ASSUME NEW a \in Text, NEW b \in Text, NEW c \in Text, NEW d \in Text
    PROVE  Glue(a, Glue(Glue(b, c), d)) = Glue(Glue(Glue(a, b), c), d)
<1>1. Glue(b, c) \in Text
  BY GlueTexts
<1>2. Glue(a, Glue(Glue(b, c), d)) = Glue(Glue(a, Glue(b, c)), d)
  BY <1>1, GlueAssociates
<1>3. Glue(a, Glue(b, c)) = Glue(Glue(a, b), c)
  BY GlueAssociates
<1> QED
  BY <1>2, <1>3

\* What is joined in another order is the same.
LEMMA JoinedAssociates ==
    ASSUME NEW a \in Text, NEW b \in Text, NEW c \in Text, NEW r \in Token, NEW s \in Token
    PROVE  Joined(a, r, Joined(b, s, c)) = Joined(Joined(a, r, b), s, c)
<1>1. <<r>> \in Text /\ <<s>> \in Text
  BY Grows
<1>2. /\ Joined(a, r, Joined(b, s, c)) = Glue(Glue(a, <<r>>), Glue(Glue(b, <<s>>), c))
      /\ Joined(Joined(a, r, b), s, c) = Glue(Glue(Glue(Glue(a, <<r>>), b), <<s>>), c)
  BY Zenon DEF Joined, Glue
<1>3. PICK x \in Text : x = Glue(a, <<r>>)
  BY <1>1, GlueTexts
<1>4. PICK v \in Text : v = <<s>>
  BY <1>1
<1>5. Glue(x, Glue(Glue(b, v), c)) = Glue(Glue(Glue(x, b), v), c)
  BY GlueFour
<1> QED
  BY <1>2, <1>3, <1>4, <1>5, Zenon

\* What parsing gives: its parts are where they were looked for.
Parsed(id) ==
    /\ id = Id(id.namespace, id.package, id.interface, id.version)
    /\ id.namespace \in Text /\ id.package \in Text /\ id.interface \in Text /\ id.version \in Text
    /\ Lacks(id.namespace, ":") /\ Lacks(id.namespace, "/") /\ Lacks(id.package, "/")
    /\ Lacks(id.interface, "@")
    /\ IsVersion(id.version)

\* A name is joined of its parts.
LEMMA NamesAreJoined ==
    ASSUME NEW id, Parsed(id)
    PROVE  /\ BareName(id) = Joined(Joined(id.namespace, ":", id.package), "/", id.interface)
           /\ BareName(id) = Joined(id.namespace, ":", Joined(id.package, "/", id.interface))
           /\ IdText(id) = Joined(BareName(id), "@", id.version)
           /\ BareName(id) \in Text /\ IdText(id) \in Text
<1>1. ":" \in Token /\ "/" \in Token /\ "@" \in Token
  BY DEF Token, Separators
<1>2. id.namespace \in Text /\ id.package \in Text /\ id.interface \in Text /\ id.version \in Text
  BY DEF Parsed
<1>3. /\ BareName(id) = Joined(Joined(id.namespace, ":", id.package), "/", id.interface)
      /\ IdText(id) = Joined(BareName(id), "@", id.version)
  BY DEF BareName, IdText, Joined
<1>4. BareName(id) = Joined(id.namespace, ":", Joined(id.package, "/", id.interface))
  BY <1>1, <1>2, <1>3, JoinedAssociates
<1>5. \A a, b \in Text, sep \in Token : Joined(a, sep, b) \in Text
  BY JoinedIs
<1>6. BareName(id) \in Text
  <2>1. Joined(id.namespace, ":", id.package) \in Text
    BY <1>1, <1>2, <1>5, Zenon
  <2> QED
    BY <1>1, <1>2, <1>3, <1>5, <2>1, Zenon
<1>7. IdText(id) \in Text
  BY <1>1, <1>2, <1>3, <1>5, <1>6, Zenon
<1> QED
  BY <1>3, <1>4, <1>6, <1>7

\* A name prints as it was written, and no other name does.
LEMMA ParseIs ==
    ASSUME NEW text \in Text, NEW id, id \in ToSet(ParseId(text))
    PROVE  Parsed(id) /\ IdText(id) = text /\ ParseId(text) = << id >>
<1> DEFINE slash == SplitOnce(text, "/")
           colon == IF slash = <<>> THEN <<>> ELSE SplitOnce(slash[1][1], ":")
           at == IF slash = <<>> THEN <<>> ELSE SplitOnce(slash[1][2], "@")
           parsed == Id(colon[1][1], colon[1][2], at[1][1], at[1][2])
<1>0. ":" \in Token /\ "/" \in Token /\ "@" \in Token
  BY DEF Token, Separators
<1>1. /\ ParseId(text) = << parsed >> /\ colon # <<>> /\ at # <<>>
      /\ IsVersion(parsed.version)
  <2>1. ParseId(text) # <<>>
    BY DEF ToSet
  <2> QED
    BY <2>1 DEF ParseId
<1>2. id = parsed
  <2> HIDE DEF parsed
  <2> QED
    BY <1>1 DEF ToSet
<1>3. slash # <<>>
  BY <1>1
<1>4. PICK x \in Text, y \in Text : Lacks(x, "/") /\ text = Joined(x, "/", y) /\ slash = << <<x, y>> >>
  BY <1>0, <1>3, SplitOnceIs
<1>5. colon = SplitOnce(x, ":") /\ at = SplitOnce(y, "@")
  BY <1>3, <1>4
<1>6. PICK n \in Text, p \in Text : Lacks(n, ":") /\ x = Joined(n, ":", p) /\ colon = << <<n, p>> >>
  <2> HIDE DEF colon
  <2>1. ~ (Lacks(x, ":") /\ SplitOnce(x, ":") = <<>>)
    BY <1>1, <1>5
  <2>2. \E n, p \in Text : Lacks(n, ":") /\ x = Joined(n, ":", p) /\ SplitOnce(x, ":") = << <<n, p>> >>
    BY <1>0, <2>1, SplitOnceIs, Zenon
  <2> QED
    BY <1>5, <2>2
<1>7. PICK i \in Text, v \in Text : Lacks(i, "@") /\ y = Joined(i, "@", v) /\ at = << <<i, v>> >>
  <2> HIDE DEF at
  <2>1. ~ (Lacks(y, "@") /\ SplitOnce(y, "@") = <<>>)
    BY <1>1, <1>5
  <2>2. \E i, v \in Text : Lacks(i, "@") /\ y = Joined(i, "@", v) /\ SplitOnce(y, "@") = << <<i, v>> >>
    BY <1>0, <2>1, SplitOnceIs, Zenon
  <2> QED
    BY <1>5, <2>2
<1>8. parsed = Id(n, p, i, v)
  <2> HIDE DEF colon, at
  <2> QED
    BY <1>6, <1>7
<1> HIDE DEF slash, colon, at, parsed
<1>9. id.namespace = n /\ id.package = p /\ id.interface = i /\ id.version = v /\ id = Id(n, p, i, v)
  BY <1>2, <1>8 DEF Id
<1>10. Lacks(n, "/") /\ Lacks(p, "/")
  BY <1>0, <1>4, <1>6, LacksJoined
<1>11. Parsed(id)
  BY <1>1, <1>2, <1>6, <1>7, <1>9, <1>10 DEF Parsed
<1>12. text = Joined(Joined(x, "/", i), "@", v)
  BY <1>0, <1>4, <1>7, JoinedAssociates
<1>13. IdText(id) = Joined(Joined(Joined(n, ":", p), "/", i), "@", v)
  BY <1>9, <1>11, NamesAreJoined
<1> QED
  BY <1>1, <1>2, <1>6, <1>11, <1>12, <1>13

\* Names without their version are told apart.
LEMMA BareNamesDiffer ==
    ASSUME NEW id, Parsed(id), NEW other, Parsed(other), BareName(id) = BareName(other)
    PROVE  id.namespace = other.namespace /\ id.package = other.package /\ id.interface = other.interface
<1>0. ":" \in Token /\ "/" \in Token
  BY DEF Token, Separators
<1> DEFINE Rest(name) == Joined(name.package, "/", name.interface)
<1>1. ASSUME NEW name, Parsed(name)
      PROVE  /\ Rest(name) \in Text
             /\ SplitOnce(BareName(name), ":") = << <<name.namespace, Rest(name)>> >>
             /\ SplitOnce(Rest(name), "/") = << <<name.package, name.interface>> >>
  <2>1. /\ name.namespace \in Text /\ name.package \in Text /\ name.interface \in Text
        /\ Lacks(name.namespace, ":") /\ Lacks(name.package, "/")
    BY <1>1 DEF Parsed
  <2>2. Rest(name) \in Text
    BY <1>0, <2>1, JoinedIs
  <2>3. BareName(name) = Joined(name.namespace, ":", Rest(name))
    BY <1>1, NamesAreJoined
  <2>4. SplitOnce(Rest(name), "/") = << <<name.package, name.interface>> >>
    BY <1>0, <2>1, SplitOnceJoined
  <2> HIDE DEF Rest
  <2>5. SplitOnce(BareName(name), ":") = << <<name.namespace, Rest(name)>> >>
    BY <1>0, <2>1, <2>2, <2>3, SplitOnceJoined
  <2> QED
    BY <2>2, <2>4, <2>5
<1> HIDE DEF Rest
<1>2. << <<id.namespace, Rest(id)>> >> = << <<other.namespace, Rest(other)>> >>
  BY <1>1
<1>3. id.namespace = other.namespace /\ Rest(id) = Rest(other)
  BY <1>2
<1>4. << <<id.package, id.interface>> >> = << <<other.package, other.interface>> >>
  BY <1>1, <1>3
<1> QED
  BY <1>3, <1>4


-----------------------------------------------------------------------------
(* Subjects.                                                               *)

\* The names and functions of a run are texts; a function is one token.
LEMMA TextsAreTexts ==
    /\ Texts \subseteq Text
    /\ \A f \in Functions \cup {<<"*">>, <<"wit">>} : f \in Text /\ Lacks(f, ".")
    /\ Separators \subseteq Token
<1>1. ASSUME NEW text \in Texts PROVE text \in Text
  <2>1. text \in Seq(STRING)
    BY AddressingAssumption
  <2>2. Len(text) \in Nat /\ text \in [1..Len(text) -> STRING]
    BY <2>1, LenProperties
  <2>3. \A k \in 1..Len(text) : text[k] \in Token
    BY <2>2 DEF Token, ToSet
  <2> DEFINE n == Len(text)
  <2>4. n \in Nat /\ text \in [1..n -> Token]
    BY <2>2, <2>3
  <2> HIDE DEF n
  <2>5. text \in UNION {[1..m -> Token] : m \in Nat}
    BY <2>4
  <2> QED
    BY <2>5, SeqDef DEF Text
<1>2. ASSUME NEW f \in Functions \cup {<<"*">>, <<"wit">>} PROVE f \in Text /\ Lacks(f, ".")
  <2>1. PICK word : f = <<word>> /\ word \in Token /\ word # "."
    <3>1. CASE f \in Functions
      <4>1. f \in Seq(STRING) /\ Len(f) = 1 /\ f[1] \notin Separators
        BY <3>1, AddressingAssumption DEF IsWord
      <4>2. DOMAIN f = 1..1
        BY <4>1, LenProperties
      <4>3. f[1] \in ToSet(f)
        BY <4>2 DEF ToSet
      <4>4. f[1] \in Token /\ f[1] # "."
        BY <3>1, <4>1, <4>3 DEF Token, Separators
      <4>5. f = << f[1] >>
        BY <4>1
      <4> QED
        BY <4>4, <4>5
    <3>2. CASE f = <<"*">>
      <4>1. "*" \in Token
        BY DEF Token, Separators
      <4> QED
        BY <3>2, <4>1
    <3>3. CASE f = <<"wit">>
      <4>1. "wit" \in Token
        BY DEF Token
      <4> QED
        BY <3>3, <4>1
    <3> QED
      BY <1>2, <3>1, <3>2, <3>3
  <2>2. <<word>> \in Text
    BY <2>1, Grows
  <2>3. Lacks(<<word>>, ".")
    BY <2>1, LacksGrows
  <2> QED
    BY <2>1, <2>2, <2>3
<1>3. Separators \subseteq Token
  BY DEF Token
<1> QED
  BY <1>1, <1>2, <1>3

\* With a part that has no separator, there is one part more.
LEMMA SplitOneMore ==
    ASSUME NEW a \in Text, NEW b \in Text, NEW sep \in Token
    PROVE  /\ Joined(a, sep, b) \in Text
           /\ Len(Split(Joined(a, sep, b), sep)) = Len(Split(a, sep)) + Len(Split(b, sep))
           /\ Lacks(b, sep) => Split(Joined(a, sep, b), sep) = Append(Split(a, sep), b) /\ Len(Split(b, sep)) = 1
<1>1. Joined(a, sep, b) \in Text
  BY JoinedIs
<1>2. Len(Split(Joined(a, sep, b), sep)) = Len(Split(a, sep)) + Len(Split(b, sep))
  BY SplitCounts
<1>3. ASSUME Lacks(b, sep) PROVE Split(Joined(a, sep, b), sep) = Append(Split(a, sep), b) /\ Len(Split(b, sep)) = 1
  <2>1. Split(b, sep) = <<b>>
    BY <1>3, SplitLacks
  <2>2. Split(Joined(a, sep, b), sep) = Split(a, sep) \o <<b>>
    BY <2>1, SplitJoined
  <2>3. Split(a, sep) \in Seq(Text)
    BY SplitGrows DEF Parts
  <2>4. Append(Split(a, sep), b) = Split(a, sep) \o <<b>>
    BY <2>3, AppendIsConcat
  <2> QED
    BY <2>1, <2>2, <2>4
<1> QED
  BY <1>1, <1>2, <1>3

\* These are the six parts of a subject.
AreParts(parts, id, f) ==
    /\ DOMAIN parts = 1..6 /\ Len(parts) = 6
    /\ parts[1] = <<"wit">> /\ parts[2] = id.namespace /\ parts[3] = id.package
    /\ parts[4] = EncodeVersion(id.version) /\ parts[5] = id.interface /\ parts[6] = f

\* Unless a part of the name has dots, these are all.
LEMMA SubjectParts ==
    ASSUME NEW id, Parsed(id), NEW f \in Text, Lacks(f, ".")
    PROVE  /\ Len(Split(Subject(id, f), ".")) = 3 + Len(Split(id.namespace, ".")) + Len(Split(id.package, "."))
                                                  + Len(Split(id.interface, "."))
           /\ Lacks(id.namespace, ".") /\ Lacks(id.package, ".") /\ Lacks(id.interface, ".") =>
                 AreParts(Split(Subject(id, f), "."), id, f)
<1> DEFINE n == id.namespace
           p == id.package
           i == id.interface
           e == EncodeVersion(id.version)
<1>1. /\ n \in Text /\ p \in Text /\ i \in Text /\ e \in Text /\ <<"wit">> \in Text /\ "." \in Token
      /\ Lacks(e, ".") /\ Lacks(<<"wit">>, ".")
  <2>1. e \in Text /\ Lacks(e, ".")
    BY EncodedVersion DEF Parsed
  <2> QED
    BY <2>1, TextsAreTexts DEF Parsed, Separators
<1>2. PICK j0, j1 : j0 = <<"wit">> /\ j1 = Joined(j0, ".", n)
  OBVIOUS
<1>3. PICK j2 : j2 = Joined(j1, ".", p)
  OBVIOUS
<1>4. PICK j3 : j3 = Joined(j2, ".", e)
  OBVIOUS
<1>5. PICK j4 : j4 = Joined(j3, ".", i)
  OBVIOUS
<1>6. Subject(id, f) = Joined(j4, ".", f)
  <2>1. <<"wit", ".">> = <<"wit">> \o <<".">>
    OBVIOUS
  <2> QED
    BY <1>2, <1>3, <1>4, <1>5, <2>1 DEF Subject, Joined
<1> HIDE DEF n, p, i, e
<1>7. j0 \in Text /\ Split(j0, ".") = <<j0>> /\ Len(Split(j0, ".")) = 1
  <2>1. j0 \in Text /\ Lacks(j0, ".")
    BY <1>1, <1>2
  <2>2. Split(j0, ".") = <<j0>>
    BY <1>1, <2>1, SplitLacks
  <2> QED
    BY <2>1, <2>2
<1>8. /\ j1 \in Text /\ Len(Split(j1, ".")) = 1 + Len(Split(n, "."))
      /\ Lacks(n, ".") => Split(j1, ".") = Append(<<j0>>, n)
  <2>1. /\ j1 \in Text /\ Len(Split(j1, ".")) = Len(Split(j0, ".")) + Len(Split(n, "."))
        /\ Lacks(n, ".") => Split(j1, ".") = Append(Split(j0, "."), n)
    BY <1>1, <1>2, <1>7, SplitOneMore
  <2> QED
    BY <1>7, <2>1
<1>9. /\ j2 \in Text /\ Len(Split(j2, ".")) = Len(Split(j1, ".")) + Len(Split(p, "."))
      /\ Lacks(p, ".") => Split(j2, ".") = Append(Split(j1, "."), p)
  <2>1. "." \in Token /\ j1 \in Text /\ p \in Text
    BY <1>1, <1>8
  <2> QED
    BY <1>3, <2>1, SplitOneMore
<1>10. /\ j3 \in Text /\ Len(Split(j3, ".")) = Len(Split(j2, ".")) + 1
       /\ Split(j3, ".") = Append(Split(j2, "."), e)
  <2>1. "." \in Token /\ j2 \in Text /\ e \in Text
    BY <1>1, <1>9
  <2>2. /\ j3 \in Text /\ Len(Split(j3, ".")) = Len(Split(j2, ".")) + Len(Split(e, "."))
        /\ Lacks(e, ".") => Split(j3, ".") = Append(Split(j2, "."), e) /\ Len(Split(e, ".")) = 1
    BY <1>4, <2>1, SplitOneMore
  <2> QED
    BY <1>1, <2>2
<1>11. /\ j4 \in Text /\ Len(Split(j4, ".")) = Len(Split(j3, ".")) + Len(Split(i, "."))
       /\ Lacks(i, ".") => Split(j4, ".") = Append(Split(j3, "."), i)
  <2>1. "." \in Token /\ j3 \in Text /\ i \in Text
    BY <1>1, <1>10
  <2> QED
    BY <1>5, <2>1, SplitOneMore
<1>12. /\ Len(Split(Subject(id, f), ".")) = Len(Split(j4, ".")) + 1
       /\ Split(Subject(id, f), ".") = Append(Split(j4, "."), f)
  <2>1. /\ Len(Split(Joined(j4, ".", f), ".")) = Len(Split(j4, ".")) + Len(Split(f, "."))
        /\ Lacks(f, ".") => Split(Joined(j4, ".", f), ".") = Append(Split(j4, "."), f) /\ Len(Split(f, ".")) = 1
    BY <1>1, <1>11, SplitOneMore
  <2> QED
    BY <1>6, <2>1
<1>13. Len(Split(n, ".")) \in Nat /\ Len(Split(p, ".")) \in Nat /\ Len(Split(i, ".")) \in Nat
  BY <1>1, SplitCounts
<1>14. Len(Split(Subject(id, f), ".")) = 3 + Len(Split(n, ".")) + Len(Split(p, ".")) + Len(Split(i, "."))
  BY <1>8, <1>9, <1>10, <1>11, <1>12, <1>13
<1>15. ASSUME Lacks(n, "."), Lacks(p, "."), Lacks(i, ".")
       PROVE  AreParts(Split(Subject(id, f), "."), id, f)
  <2>1. \A a \in Text : Split(a, ".") \in Seq(Text)
    BY SplitGrows DEF Parts
  <2>2. /\ <<j0>> \in Seq(Text) /\ Split(j1, ".") \in Seq(Text) /\ Split(j2, ".") \in Seq(Text)
        /\ Split(j3, ".") \in Seq(Text) /\ Split(j4, ".") \in Seq(Text)
    BY <1>7, <1>8, <1>9, <1>10, <1>11, <2>1
  <2>3. PICK s1, s2, s3, s4, s5 :
           /\ s1 = Split(j1, ".") /\ s2 = Split(j2, ".") /\ s3 = Split(j3, ".") /\ s4 = Split(j4, ".")
           /\ s5 = Split(Subject(id, f), ".")
    OBVIOUS
  <2>4. /\ s1 = Append(<<j0>>, n) /\ s2 = Append(s1, p) /\ s3 = Append(s2, e) /\ s4 = Append(s3, i)
        /\ s5 = Append(s4, f)
    BY <1>8, <1>9, <1>10, <1>11, <1>12, <1>15, <2>3
  <2>5. s1 \in Seq(Text) /\ s2 \in Seq(Text) /\ s3 \in Seq(Text) /\ s4 \in Seq(Text)
    BY <2>2, <2>3
  <2>6. \A x \in Seq(Text), y \in Text :
            /\ Append(x, y) \in Seq(Text) /\ Len(Append(x, y)) = Len(x) + 1 /\ Append(x, y)[Len(x) + 1] = y
            /\ \A k \in 1..Len(x) : Append(x, y)[k] = x[k]
    BY AppendProperties
  <2>7. Len(s1) = 2 /\ s1[1] = j0 /\ s1[2] = n
    <3>1. Len(<<j0>>) = 1 /\ <<j0>>[1] = j0
      OBVIOUS
    <3>2. Len(s1) = Len(<<j0>>) + 1 /\ s1[Len(<<j0>>) + 1] = n /\ \A k \in 1..Len(<<j0>>) : s1[k] = <<j0>>[k]
      BY <1>1, <2>2, <2>4, <2>6
    <3> QED
      BY <3>1, <3>2
  <2>8. Len(s2) = 3 /\ s2[1] = j0 /\ s2[2] = n /\ s2[3] = p
    <3>1. Len(s2) = Len(s1) + 1 /\ s2[Len(s1) + 1] = p /\ \A k \in 1..Len(s1) : s2[k] = s1[k]
      BY <1>1, <2>4, <2>5, <2>6
    <3> QED
      BY <2>7, <3>1
  <2>9. Len(s3) = 4 /\ s3[1] = j0 /\ s3[2] = n /\ s3[3] = p /\ s3[4] = e
    <3>1. Len(s3) = Len(s2) + 1 /\ s3[Len(s2) + 1] = e /\ \A k \in 1..Len(s2) : s3[k] = s2[k]
      BY <1>1, <2>4, <2>5, <2>6
    <3> QED
      BY <2>8, <3>1
  <2>10. Len(s4) = 5 /\ s4[1] = j0 /\ s4[2] = n /\ s4[3] = p /\ s4[4] = e /\ s4[5] = i
    <3>1. Len(s4) = Len(s3) + 1 /\ s4[Len(s3) + 1] = i /\ \A k \in 1..Len(s3) : s4[k] = s3[k]
      BY <1>1, <2>4, <2>5, <2>6
    <3> QED
      BY <2>9, <3>1
  <2>11. /\ s5 \in Seq(Text) /\ Len(s5) = 6 /\ s5[1] = j0 /\ s5[2] = n /\ s5[3] = p /\ s5[4] = e /\ s5[5] = i
        /\ s5[6] = f
    <3>1. /\ s5 \in Seq(Text) /\ Len(s5) = Len(s4) + 1 /\ s5[Len(s4) + 1] = f
          /\ \A k \in 1..Len(s4) : s5[k] = s4[k]
      BY <2>4, <2>5, <2>6
    <3> QED
      BY <2>10, <3>1
  <2>12. DOMAIN s5 = 1..6
    BY <2>11, LenProperties
  <2> QED
    BY <1>2, <2>3, <2>11, <2>12 DEF AreParts, n, p, i, e
<1> QED
  BY <1>14, <1>15 DEF n, p, i, e

\* The parts of a WIT name are one token each.
LEMMA WitLacks ==
    ASSUME NEW id, Parsed(id), IsWit(id), NEW sep \in Separators
    PROVE  Lacks(id.namespace, sep) /\ Lacks(id.package, sep) /\ Lacks(id.interface, sep)
<1>1. ASSUME NEW part \in {id.namespace, id.package, id.interface} PROVE Lacks(part, sep)
  <2>1. part \in Seq(Token) /\ Len(part) = 1 /\ part[1] # sep
    BY DEF Parsed, IsWit, IsWord, Text
  <2>2. DOMAIN part = 1..1
    BY <2>1, LenProperties
  <2> QED
    BY <2>1, <2>2 DEF Lacks
<1> QED
  BY <1>1

\* What a subject says is what was called.
LEMMA SubjectSays ==
    ASSUME NEW id, Parsed(id), IsWit(id), NEW f \in Functions
    PROVE  /\ ParseSubject(Subject(id, f)) = << [interface |-> id, function |-> f] >>
           /\ AreParts(Split(Subject(id, f), "."), id, f)
<1> DEFINE parts == Split(Subject(id, f), ".")
<1>1. AreParts(parts, id, f)
  <2>1. "." \in Separators
    BY DEF Separators
  <2> QED
    BY <2>1, WitLacks, TextsAreTexts, SubjectParts
<1>2. DecodeVersion(EncodeVersion(id.version)) = id.version /\ IsVersion(id.version)
  BY EncodedVersion DEF Parsed
<1> HIDE DEF parts
<1>3. /\ Len(parts) = 6 /\ parts[1] = <<"wit">> /\ DecodeVersion(parts[4]) = id.version
      /\ parts[2] = id.namespace /\ parts[3] = id.package /\ parts[5] = id.interface /\ parts[6] = f
  BY <1>1, <1>2 DEF AreParts
<1>4. Id(parts[2], parts[3], parts[5], DecodeVersion(parts[4])) = id
  BY <1>3 DEF Parsed
<1>5. IsVersion(DecodeVersion(parts[4]))
  BY <1>2, <1>3
<1>6. ParseSubject(Subject(id, f)) = << [interface |-> Id(parts[2], parts[3], parts[5], DecodeVersion(parts[4])),
                                        function |-> parts[6]] >>
  BY <1>3, <1>5 DEF ParseSubject, parts
<1> QED
  BY <1>1, <1>3, <1>4, <1>6 DEF parts

\* Whoever listens for an interface hears the calls of that one.
LEMMA MatchIsSame ==
    ASSUME NEW id, Parsed(id), IsWit(id), NEW f \in Functions, NEW other, Parsed(other),
           other.namespace # <<"*">>, other.package # <<"*">>, other.interface # <<"*">>
    PROVE  Matches(Wildcard(other), Subject(id, f)) <=> other = id
<1> DEFINE s == Split(Subject(id, f), ".")
           p == Split(Wildcard(other), ".")
<1>0. "." \in Token /\ "." \in Separators
  BY DEF Token, Separators
<1>1. AreParts(s, id, f)
  BY SubjectSays
<1>2. /\ Len(p) = 3 + Len(Split(other.namespace, ".")) + Len(Split(other.package, "."))
                    + Len(Split(other.interface, "."))
      /\ Lacks(other.namespace, ".") /\ Lacks(other.package, ".") /\ Lacks(other.interface, ".") =>
             AreParts(p, other, <<"*">>)
  BY TextsAreTexts, SubjectParts DEF Wildcard
<1>3. Matches(Wildcard(other), Subject(id, f)) <=> Len(p) = Len(s) /\ \A k \in DOMAIN p : p[k] = <<"*">> \/ p[k] = s[k]
  BY DEF Matches
<1> HIDE DEF s, p
<1>4. Len(s) = 6
  BY <1>1 DEF AreParts
<1>5. ASSUME other = id PROVE Matches(Wildcard(other), Subject(id, f))
  <2>1. AreParts(p, id, <<"*">>)
    BY <1>0, <1>2, <1>5, WitLacks
  <2>2. Len(p) = 6 /\ DOMAIN p = 1..6
    BY <2>1 DEF AreParts
  <2>3. /\ p[1] = s[1] /\ p[2] = s[2] /\ p[3] = s[3] /\ p[4] = s[4] /\ p[5] = s[5] /\ p[6] = <<"*">>
    BY <1>1, <2>1 DEF AreParts
  <2> QED
    BY <1>3, <1>4, <2>2, <2>3
<1>6. ASSUME Matches(Wildcard(other), Subject(id, f)) PROVE other = id
  <2>1. Len(p) = 6 /\ \A k \in DOMAIN p : p[k] = <<"*">> \/ p[k] = s[k]
    BY <1>3, <1>4, <1>6
  <2>2. other.namespace \in Text /\ other.package \in Text /\ other.interface \in Text
    BY DEF Parsed
  <2>3. /\ Len(Split(other.namespace, ".")) = 1 /\ Len(Split(other.package, ".")) = 1
        /\ Len(Split(other.interface, ".")) = 1
    <3>1. /\ Len(Split(other.namespace, ".")) \in Nat \ {0} /\ Len(Split(other.package, ".")) \in Nat \ {0}
          /\ Len(Split(other.interface, ".")) \in Nat \ {0}
      BY <1>0, <2>2, SplitCounts
    <3>2. \A x, y, z \in Nat \ {0} : 6 = 3 + x + y + z => x = 1 /\ y = 1 /\ z = 1
      OBVIOUS
    <3>3. 6 = 3 + Len(Split(other.namespace, ".")) + Len(Split(other.package, ".")) + Len(Split(other.interface, "."))
      BY <1>2, <2>1
    <3> QED
      BY <3>1, <3>2, <3>3
  <2>4. Lacks(other.namespace, ".") /\ Lacks(other.package, ".") /\ Lacks(other.interface, ".")
    BY <1>0, <2>2, <2>3, SplitCounts
  <2>5. AreParts(p, other, <<"*">>)
    BY <1>2, <2>4
  <2>6. DOMAIN p = 1..6
    BY <2>5 DEF AreParts
  <2>7. ~Lacks(<<"*">>, "*")
    BY DEF Lacks
  <2>8. Lacks(EncodeVersion(other.version), "*")
    BY EncodedVersion DEF Parsed
  <2>9. /\ other.namespace # <<"*">> /\ other.package # <<"*">> /\ other.interface # <<"*">>
        /\ EncodeVersion(other.version) # <<"*">>
    BY <2>7, <2>8
  <2>10. /\ other.namespace = id.namespace /\ other.package = id.package /\ other.interface = id.interface
         /\ EncodeVersion(other.version) = EncodeVersion(id.version)
    <3>1. /\ p[2] = other.namespace /\ p[3] = other.package /\ p[4] = EncodeVersion(other.version)
          /\ p[5] = other.interface
      BY <2>5 DEF AreParts
    <3>2. /\ s[2] = id.namespace /\ s[3] = id.package /\ s[4] = EncodeVersion(id.version)
          /\ s[5] = id.interface
      BY <1>1 DEF AreParts
    <3>3. \A k \in {2, 3, 4, 5} : k \in DOMAIN p
      BY <2>6
    <3> QED
      BY <2>1, <2>9, <3>1, <3>2, <3>3
  <2>11. other.version = id.version
    <3>1. /\ DecodeVersion(EncodeVersion(other.version)) = other.version
          /\ DecodeVersion(EncodeVersion(id.version)) = id.version
      BY EncodedVersion DEF Parsed
    <3> QED
      BY <2>10, <3>1
  <2>12. other = Id(other.namespace, other.package, other.interface, other.version)
    BY DEF Parsed
  <2>13. id = Id(id.namespace, id.package, id.interface, id.version)
    BY DEF Parsed
  <2> QED
    BY <2>10, <2>11, <2>12, <2>13
<1> QED
  BY <1>5, <1>6


-----------------------------------------------------------------------------
(* The run.                                                                *)

\* The interfaces that have a name.
Known(id) == \E text \in Texts : id \in ToSet(ParseId(text))

\* What is served, claimed and bound comes of names; a call is of what is bound.
AddressInv ==
    /\ \A s \in serving : s.text \in Texts /\ s.interface \in ToSet(ParseId(s.text))
    /\ \A claim \in claims : \E id : Known(id) /\ claim.name = BareName(id) /\ claim.version = id.version
    /\ bound # <<>> => claims # {} /\ Known(bound[1].interface) /\ IsWit(bound[1].interface)
    /\ bound # <<>> /\ request # <<>> =>
          \E f \in Functions :
              request[1] = Request(Subject(bound[1].interface, f), IdText(bound[1].interface), f)

\* Interfaces that have a name are told apart by it.
LEMMA KnownIs ==
    ASSUME NEW id, Known(id)
    PROVE  Parsed(id) /\ IdText(id) \in Texts /\ ParseId(IdText(id)) = << id >>
<1>1. PICK text \in Texts : id \in ToSet(ParseId(text))
  BY DEF Known
<1>2. text \in Text
  BY TextsAreTexts
<1>3. Parsed(id) /\ IdText(id) = text /\ ParseId(text) = << id >>
  BY <1>1, <1>2, ParseIs
<1> QED
  BY <1>3

\* What a host picks has the name that it asked for.
LEMMA PickIsNamed ==
    ASSUME AddressInv, NEW id, Known(id), IsWit(id), NEW p, NEW resolution \in Pick(p, id)
    PROVE  claims # {} /\ Known(resolution.interface) /\ IsWit(resolution.interface)
<1>1. PICK claim \in Offers(p, id) :
         /\ resolution.interface \in ToSet(ParseId(claim.name \o <<"@">> \o claim.version))
  BY DEF Pick
<1>2. claim \in claims /\ claim.name = BareName(id)
  BY DEF Offers
<1>3. PICK k : Known(k) /\ claim.name = BareName(k) /\ claim.version = k.version
  BY <1>2 DEF AddressInv
<1>4. claim.name \o <<"@">> \o claim.version = IdText(k)
  BY <1>3 DEF IdText
<1>5. Parsed(k) /\ Parsed(id) /\ ParseId(IdText(k)) = << k >>
  BY <1>3, KnownIs
<1>6. resolution.interface \in ToSet(<< k >>)
  BY <1>1, <1>4, <1>5
<1>7. resolution.interface = k
  BY <1>6 DEF ToSet
<1>8. k.namespace = id.namespace /\ k.package = id.package /\ k.interface = id.interface
  BY <1>2, <1>3, <1>5, BareNamesDiffer
<1>9. IsWit(k)
  BY <1>8 DEF IsWit
<1> QED
  BY <1>2, <1>3, <1>7, <1>9

\* The invariant holds at first, and every step keeps it.
LEMMA AddressInvHolds == AddressingSpec => []AddressInv
<1>1. AtRest => AddressInv
  BY DEF AtRest, AddressInv
<1>2. ASSUME AddressInv, [AddressingNext]_addressingVars PROVE AddressInv'
  <2>1. ASSUME NEW p \in Providers, NEW text \in Texts, Serve(p, text) PROVE AddressInv'
    <3>1. PICK id \in ToSet(ParseId(text)) : serving' = serving \cup {[by |-> p, interface |-> id, text |-> text]}
      BY <2>1 DEF Serve
    <3>2. \A s \in serving' : s.text \in Texts /\ s.interface \in ToSet(ParseId(s.text))
      BY <1>2, <3>1 DEF AddressInv
    <3> QED
      BY <1>2, <2>1, <3>2 DEF AddressInv, Serve, Known
  <2>2. ASSUME NEW p \in Providers, Announce(p) PROVE AddressInv'
    <3>1. ASSUME NEW claim \in Claimed(p)
          PROVE  \E id : Known(id) /\ claim.name = BareName(id) /\ claim.version = id.version
      <4>1. PICK s \in serving : claim = [provider |-> p, name |-> BareName(s.interface), version |-> s.interface.version]
        BY <3>1 DEF Claimed
      <4>2. Known(s.interface)
        BY <1>2 DEF AddressInv, Known
      <4> QED
        BY <4>1, <4>2
    <3>2. \A claim \in claims' : claim \in claims \/ claim \in Claimed(p)
      BY <2>2 DEF Announce
    <3>3. \A claim \in claims' : \E id : Known(id) /\ claim.name = BareName(id) /\ claim.version = id.version
      BY <1>2, <3>1, <3>2 DEF AddressInv
    <3>4. claims' # {}
      BY <2>2 DEF Announce
    <3> QED
      BY <1>2, <2>2, <3>3, <3>4 DEF AddressInv, Announce, Known
  <2>3. ASSUME NEW s \in serving, StopServing(s) PROVE AddressInv'
    BY <1>2, <2>3 DEF AddressInv, StopServing, Known
  <2>4. ASSUME NEW text \in Texts, Resolve(text) PROVE AddressInv'
    <3>1. PICK id \in ToSet(ParseId(text)), p \in Providers :
             IsWit(id) /\ \E resolution \in Pick(p, id) : bound' = << resolution >>
      BY <2>4 DEF Resolve
    <3>2. PICK resolution \in Pick(p, id) : bound' = << resolution >>
      BY <3>1
    <3>3. Known(id)
      BY DEF Known
    <3>4. claims # {} /\ Known(resolution.interface) /\ IsWit(resolution.interface)
      BY <1>2, <3>1, <3>3, PickIsNamed
    <3>5. bound'[1] = resolution /\ request' = <<>> /\ UNCHANGED <<serving, claims>>
      BY <2>4, <3>2 DEF Resolve
    <3> QED
      BY <1>2, <3>4, <3>5 DEF AddressInv, Known
  <2>5. ASSUME NEW f \in Functions, Call(f) PROVE AddressInv'
    <3>1. request'[1] = Request(Subject(bound[1].interface, f), IdText(bound[1].interface), f)
      BY <2>5 DEF Call
    <3> QED
      BY <1>2, <2>5, <3>1 DEF AddressInv, Call, Known
  <2>6. ASSUME NEW f \in Functions, NEW text \in Texts, NEW other \in Texts, CallAmiss(f, text, other)
        PROVE  AddressInv'
    <3>1. bound = <<>>
      BY <1>2, <2>6 DEF AddressInv, CallAmiss
    <3> QED
      BY <1>2, <2>6, <3>1 DEF AddressInv, CallAmiss, Known
  <2>7. ASSUME NobodyListens \/ \E s \in serving : Answer(s) PROVE AddressInv'
    <3>1. UNCHANGED <<serving, claims, bound, request>>
      BY <2>7 DEF NobodyListens, Answer
    <3> QED
      BY <1>2, <3>1 DEF AddressInv, Known
  <2>8. CASE UNCHANGED addressingVars
    BY <1>2, <2>8 DEF AddressInv, addressingVars, Known
  <2> QED
    BY <1>2, <2>1, <2>2, <2>3, <2>4, <2>5, <2>6, <2>7, <2>8 DEF AddressingNext
<1> QED
  BY <1>1, <1>2, PTL DEF AddressingSpec

\* Names survive: what is served goes by the name that was exported and can be
\* read from a subject, and what is bound goes by a name that there is
\* (InterfaceId and Subject, parsed and printed, iface.rs and subject.rs).
THEOREM NamesComeBack == AddressingSpec => []NamesSurvive
<1>1. AddressInv => NamesSurvive
  <2> SUFFICES ASSUME AddressInv PROVE NamesSurvive
    OBVIOUS
  <2>1. ASSUME NEW s \in serving
        PROVE  /\ IdText(s.interface) = s.text
               /\ IsWit(s.interface) => \A f \in Functions :
                     ParseSubject(Subject(s.interface, f)) = << [interface |-> s.interface, function |-> f] >>
    <3>1. s.text \in Text /\ s.interface \in ToSet(ParseId(s.text))
      BY TextsAreTexts DEF AddressInv
    <3>2. Parsed(s.interface) /\ IdText(s.interface) = s.text
      BY <3>1, ParseIs
    <3> QED
      BY <3>2, SubjectSays
  <2>2. bound # <<>> => IdText(bound[1].interface) \in Texts
    BY KnownIs DEF AddressInv
  <2> QED
    BY <2>1, <2>2 DEF NamesSurvive
<1> QED
  BY <1>1, AddressInvHolds, PTL

\* No interface is named with the wildcard of NATS.
NoWildcards ==
    \A text \in Texts : \A id \in ToSet(ParseId(text)) : <<"*">> \notin {id.namespace, id.package, id.interface}

\* Who hears a call serves the interface that is bound, and is called.
LEMMA ListenersServeIt ==
    ASSUME NoWildcards, AddressInv, bound # <<>>, request # <<>>, NEW s \in serving
    PROVE  /\ s \in Listeners <=> s.interface = bound[1].interface
           /\ s \in Listeners => Dispatch(s) = "called"
<1> DEFINE id == bound[1].interface
<1>1. Known(id) /\ IsWit(id)
  BY DEF AddressInv
<1>2. PICK f \in Functions : request[1] = Request(Subject(id, f), IdText(id), f)
  BY DEF AddressInv
<1>3. Parsed(id)
  BY <1>1, KnownIs
<1>4. /\ Parsed(s.interface) /\ s.interface.namespace # <<"*">> /\ s.interface.package # <<"*">>
      /\ s.interface.interface # <<"*">>
  <2>1. s.text \in Texts /\ s.interface \in ToSet(ParseId(s.text))
    BY DEF AddressInv
  <2>2. Parsed(s.interface)
    BY <2>1, TextsAreTexts, ParseIs
  <2> QED
    BY <2>1, <2>2 DEF NoWildcards
<1> HIDE DEF id
<1>5. request[1].subject = Subject(id, f) /\ request[1].iface = IdText(id) /\ request[1].func = f
  BY <1>2 DEF Request
<1>6. Matches(Wildcard(s.interface), Subject(id, f)) <=> s.interface = id
  BY <1>1, <1>3, <1>4, MatchIsSame
<1>7. s \in Listeners <=> s.interface = id
  BY <1>5, <1>6 DEF Listeners
<1>8. s.interface = id => Dispatch(s) = "called"
  BY <1>5 DEF Dispatch
<1> QED
  BY <1>7, <1>8 DEF id

\* Calls reach their interface: nobody but who serves the interface that was
\* resolved, and somebody if anybody does (dispatch and the subscriptions of
\* nats-serve, the subjects of nats-link).
THEOREM CallsArrive == NoWildcards /\ AddressingSpec => []CallsReachTheirInterface
<1> SUFFICES ASSUME NoWildcards PROVE AddressingSpec => []CallsReachTheirInterface
  OBVIOUS
<1>1. AtRest => CallsReachTheirInterface
  BY DEF AtRest, CallsReachTheirInterface
<1>2. ASSUME CallsReachTheirInterface, AddressInv, [AddressingNext]_addressingVars
      PROVE  CallsReachTheirInterface'
  <2>1. CASE UNCHANGED addressingVars
    BY <1>2, <2>1 DEF CallsReachTheirInterface, addressingVars
  <2>2. CASE verdict = <<>> /\ verdict' = verdict
    BY <2>2 DEF CallsReachTheirInterface
  <2>3. ASSUME NEW s \in serving, Answer(s), request # <<>> PROVE CallsReachTheirInterface'
    <3>1. /\ s \in Listeners /\ verdict'[1].what = Dispatch(s) /\ verdict'[1].by = s
          /\ UNCHANGED <<serving, bound, request>>
      BY <2>3 DEF Answer
    <3>2. Dispatch(s) = "called" => request[1].iface = IdText(s.interface)
      BY DEF Dispatch
    <3>3. bound # <<>> => s.interface = bound[1].interface /\ Dispatch(s) = "called"
      BY <1>2, <2>3, <3>1, ListenersServeIt
    <3> QED
      BY <3>1, <3>2, <3>3 DEF CallsReachTheirInterface
  <2>4. ASSUME NobodyListens, request # <<>> PROVE CallsReachTheirInterface'
    <3>1. Listeners = {} /\ verdict'[1].what = "nobody" /\ UNCHANGED <<serving, bound, request>>
      BY <2>4 DEF NobodyListens
    <3>2. bound # <<>> => ~\E s \in serving : s.interface = bound[1].interface
      BY <1>2, <2>4, <3>1, ListenersServeIt
    <3> QED
      BY <3>1, <3>2 DEF CallsReachTheirInterface
  <2>5. ASSUME AddressingNext PROVE CallsReachTheirInterface'
    <3>1. verdict = <<>>
      BY <2>5 DEF AddressingNext
    <3>2. \/ verdict' = verdict
          \/ request # <<>> /\ (NobodyListens \/ \E s \in serving : Answer(s))
      BY <2>5 DEF AddressingNext, Serve, Announce, StopServing, Resolve, Call, CallAmiss
    <3> QED
      BY <2>2, <2>3, <2>4, <3>1, <3>2
  <2> QED
    BY <1>2, <2>1, <2>5
<1> QED
  BY <1>1, <1>2, AddressInvHolds, PTL DEF AddressingSpec
=============================================================================
