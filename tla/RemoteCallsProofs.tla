-------------------------- MODULE RemoteCallsProofs --------------------------
(***************************************************************************)
(* What RemoteCalls promises, for any number of calls, adapters, permits   *)
(* and any deadline: a function runs once at most for a call, and the      *)
(* verdict is true; no permit and no store is lost; and no provider gives  *)
(* up before its caller does.                                              *)
(***************************************************************************)
EXTENDS RemoteCalls, SequenceTheorems, FiniteSetTheorems, TLAPS

\* Where the request of a call is: on its way, in an inbox, or being answered.
Sent(c) == \E r \in requests : r.id.call = c
Queued(c) == \E a \in Adapters : \E k \in DOMAIN inbox[a] : inbox[a][k].id.call = c
Answering(c) == \E m \in DOMAIN tasks : m.call = c

\* No function was run for the call, nor can one be.
Untouched(c) == runs[c] = 0 /\ ~Sent(c) /\ ~Queued(c) /\ ~Answering(c)

\* The types this needs: those of lines and permits are not among them.
Types ==
    /\ calls \in [Calls -> Call]
    /\ runs \in [Calls -> Nat]
    /\ requests \subseteq Request
    /\ inbox \in [Adapters -> Seq(Request)]
    /\ replies \subseteq Reply
    /\ DOMAIN tasks \subseteq Message
    /\ \A m \in DOMAIN tasks : tasks[m] \in Task

\* A call has one request in one place at a time, whatever the attempt.
OnePlace ==
    /\ \A r, s \in requests : r.id.call = s.id.call => r = s
    /\ \A m, n \in DOMAIN tasks : m.call = n.call => m = n
    /\ \A a, b \in Adapters : \A k \in DOMAIN inbox[a], l \in DOMAIN inbox[b] :
          inbox[a][k].id.call = inbox[b][l].id.call => a = b /\ k = l
    /\ \A c \in Calls : ~(Sent(c) /\ Queued(c)) /\ ~(Sent(c) /\ Answering(c)) /\ ~(Queued(c) /\ Answering(c))

\* Where it is tells whether the function was run; so does what a task says.
PlaceTells == \A c \in Calls : Sent(c) \/ Queued(c) => runs[c] = 0

TaskTells(m) ==
    /\ tasks[m].phase \in {"taken", "locking"} => runs[m.call] = 0
    /\ tasks[m].phase \in {"inside", "calling"} => runs[m.call] = 1
    /\ tasks[m].phase = "replying" =>
          /\ tasks[m].verdict \in {"ok", "refused", "internal", "deadline-exceeded"}
          /\ tasks[m].verdict = "ok" => runs[m.call] = 1
          /\ tasks[m].verdict = "refused" => runs[m.call] = 0

\* A reply is for a call that waits for it, and says what happened.
ReplyTells(r) ==
    /\ calls[r.id.call].phase = "waiting"
    /\ r.says \in {"ok", "unreadable"} => runs[r.id.call] = 1
    /\ r.says \in {"no-responders", "not-found", "refused"} => Untouched(r.id.call)

\* What the state of a call, x, tells: a request is sent only for a call that
\* is untouched, and the verdict is what happened.
Tells(c, x) ==
    /\ x.phase \in {"new", "pausing"} => Untouched(c)
    /\ x.phase \in {"waiting", "pausing"} => x.to \in Interfaces
    /\ x.phase # "ended" => x.verdict = Nothing
    /\ x.verdict \in {"not-found", "refused"} => Untouched(c)
    /\ x.verdict \in {"ok", "unreadable"} => runs[c] = 1

CallTells(c) == Tells(c, calls[c]) /\ runs[c] <= 1

CallInv ==
    /\ Types
    /\ OnePlace
    /\ PlaceTells
    /\ \A m \in DOMAIN tasks : TaskTells(m)
    /\ \A r \in replies : ReplyTells(r)
    /\ \A c \in Calls : CallTells(c)

-----------------------------------------------------------------------------
\* Nobody calls, and nothing is on the wire.
LEMMA InitInv == Init => CallInv
<1> SUFFICES ASSUME Init PROVE CallInv
    OBVIOUS
<1> USE RemoteAssumption, NothingAssumption DEF Init
<1>1. NoCall \in Call
    BY DEF NoCall, Call, Verdict
<1>2. Types
    BY <1>1 DEF Types
<1>3. DOMAIN tasks = {} /\ requests = {} /\ replies = {} /\ \A a \in Adapters : inbox[a] = << >>
    OBVIOUS
<1>4. \A c : ~Sent(c) /\ ~Queued(c) /\ ~Answering(c)
    BY <1>3 DEF Sent, Queued, Answering
<1>5. OnePlace /\ PlaceTells
    BY <1>3, <1>4 DEF OnePlace, PlaceTells
<1>6. \A c \in Calls : CallTells(c)
    BY <1>4 DEF CallTells, Tells, Untouched, NoCall, Verdict, Failure
<1> QED
    BY <1>2, <1>3, <1>5, <1>6 DEF CallInv

-----------------------------------------------------------------------------
(* Steps of one kind.                                                      *)

\* Requests, inboxes, runs and the domain of tasks are what places are.
LEMMA PlacesStay ==
    ASSUME UNCHANGED <<requests, inbox, runs>>, DOMAIN tasks' = DOMAIN tasks
    PROVE  /\ OnePlace => OnePlace'
           /\ PlaceTells => PlaceTells'
           /\ \A c : Untouched(c)' <=> Untouched(c)
<1>1. \A c : (Sent(c)' <=> Sent(c)) /\ (Queued(c)' <=> Queued(c)) /\ (Answering(c)' <=> Answering(c))
    BY DEF Sent, Queued, Answering
<1> QED
    BY <1>1 DEF OnePlace, PlaceTells, Untouched

\* A task goes on, and calls that end with it are dropped.
LEMMA TaskStep ==
    ASSUME CallInv,
           NEW m \in DOMAIN tasks, NEW t \in Task, tasks' = [tasks EXCEPT ![m] = t],
           UNCHANGED <<requests, inbox, runs>>,
           calls' \in [Calls -> Call],
           \A c \in Calls : calls'[c] = calls[c] \/ calls'[c] = [NoCall EXCEPT !.phase = "dropped"],
           replies' \subseteq replies,
           \A r \in replies' : calls'[r.id.call].phase = "waiting",
           TaskTells(m)'
    PROVE  CallInv'
<1> USE DEF CallInv
<1>1. DOMAIN tasks' = DOMAIN tasks
    OBVIOUS
<1>2. OnePlace' /\ PlaceTells' /\ \A c : Untouched(c)' <=> Untouched(c)
    BY <1>1, PlacesStay
<1>3. Types'
    BY <1>1 DEF Types
<1>4. \A n \in DOMAIN tasks' : TaskTells(n)'
    <2> TAKE n \in DOMAIN tasks'
    <2>1. CASE n = m
        BY <2>1
    <2>2. CASE n # m
        <3>1. tasks'[n] = tasks[n] /\ n \in DOMAIN tasks
            BY <1>1, <2>2
        <3> QED
            BY <3>1 DEF TaskTells
    <2> QED
        BY <2>1, <2>2
<1>5. \A r \in replies' : ReplyTells(r)'
    BY <1>2 DEF ReplyTells
<1>6. \A c \in Calls : CallTells(c)'
    BY <1>2, NothingAssumption DEF CallTells, Tells, NoCall, Verdict, Failure
<1> QED
    BY <1>2, <1>3, <1>4, <1>5, <1>6

\* Awaited leaves only replies to calls that wait.
LEMMA AwaitedWait ==
    ASSUME NEW some PROVE Awaited(some) \subseteq some /\ \A r \in Awaited(some) : calls'[r.id.call].phase = "waiting"
BY DEF Awaited

\* A call goes on, or ends, without a request.
LEMMA CallStep ==
    ASSUME CallInv,
           NEW c \in Calls, NEW x \in Call, calls' = [calls EXCEPT ![c] = x],
           UNCHANGED <<requests, inbox, tasks, runs>>,
           replies' \subseteq replies,
           \A r \in replies' : calls'[r.id.call].phase = "waiting",
           Tells(c, x)
    PROVE  CallInv'
<1> USE DEF CallInv
<1>2. OnePlace' /\ PlaceTells' /\ \A d : Untouched(d)' <=> Untouched(d)
    BY PlacesStay
<1>3. Types'
    BY DEF Types
<1>4. \A n \in DOMAIN tasks' : TaskTells(n)'
    BY DEF TaskTells
<1>5. \A r \in replies' : ReplyTells(r)'
    BY <1>2 DEF ReplyTells
<1>6. \A d \in Calls : CallTells(d)'
    <2> TAKE d \in Calls
    <2>1. calls'[d] = IF d = c THEN x ELSE calls[d]
        BY DEF Types
    <2> QED
        BY <1>2, <2>1 DEF CallTells, Tells
<1> QED
    BY <1>2, <1>3, <1>4, <1>5, <1>6

\* A request is sent for a call that is untouched.
LEMMA SendStep ==
    ASSUME CallInv,
           NEW c \in Calls, Untouched(c),
           \A r \in replies : r.id.call # c,
           NEW p \in Request, p.id.call = c, requests' = requests \cup {p},
           NEW x \in Call, x.phase \in {"waiting", "dropped"}, x.phase = "waiting" => x.to \in Interfaces,
           x.verdict = Nothing, calls' = [calls EXCEPT ![c] = x],
           UNCHANGED <<inbox, runs, replies>>,
           DOMAIN tasks' = DOMAIN tasks,
           \A m \in DOMAIN tasks : tasks'[m] \in Task /\ TaskTells(m)'
    PROVE  CallInv'
<1> USE DEF CallInv
<1>2. \A d : Sent(d)' <=> Sent(d) \/ d = c
    BY DEF Sent
<1>3. \A d : (Queued(d)' <=> Queued(d)) /\ (Answering(d)' <=> Answering(d))
    BY DEF Queued, Answering
<1>4. \A d : d # c => (Untouched(d)' <=> Untouched(d))
    BY <1>2, <1>3 DEF Untouched
<1>5. Types'
    BY DEF Types
<1>6. OnePlace'
    <2>1. \A r, s \in requests' : r.id.call = s.id.call => r = s
        BY DEF OnePlace, Untouched, Sent
    <2> QED
        BY <1>2, <1>3, <2>1 DEF OnePlace, Untouched
<1>7. PlaceTells'
    BY <1>2, <1>3 DEF PlaceTells, Untouched
<1>8. \A r \in replies' : ReplyTells(r)'
    <2> SUFFICES ASSUME NEW r \in replies PROVE ReplyTells(r)'
        OBVIOUS
    <2>1. r.id.call # c /\ r.id.call \in Calls
        BY DEF Types, Reply, Message
    <2>2. calls'[r.id.call] = calls[r.id.call]
        BY <2>1 DEF Types
    <2> QED
        BY <1>4, <2>1, <2>2 DEF ReplyTells
<1>9. \A d \in Calls : CallTells(d)'
    <2> TAKE d \in Calls
    <2>1. calls'[d] = IF d = c THEN x ELSE calls[d]
        BY DEF Types
    <2>2. CASE d = c
        BY <2>1, <2>2, NothingAssumption DEF CallTells, Tells, Untouched, Verdict, Failure
    <2>3. CASE d # c
        BY <1>4, <2>1, <2>3 DEF CallTells, Tells
    <2> QED
        BY <2>2, <2>3
<1> QED
    BY <1>5, <1>6, <1>7, <1>8, <1>9

\* What a proxy sends, and what others do.
LEMMA RequestsAreWellFormed ==
    ASSUME NEW c \in Calls, NEW k \in {0, 1}, NEW i \in Interfaces, NEW p,
           p = Payload([call |-> c, attempt |-> k], i) \/ p = Unlimited([call |-> c, attempt |-> k], i)
    PROVE  p \in Request /\ p.id.call = c
BY RemoteAssumption DEF Payload, Unlimited, Request, Message

-----------------------------------------------------------------------------
(* The proxy.                                                              *)

\* A call that ends keeps nothing but its verdict.
LEMMA EndStep ==
    ASSUME CallInv, NEW c \in Calls, NEW v \in Verdict, End(c, v),
           v \in {"not-found", "refused"} => Untouched(c),
           v \in {"ok", "unreadable"} => runs[c] = 1,
           UNCHANGED <<requests, inbox, tasks, runs>>,
           replies' \subseteq replies,
           \A r \in replies' : calls'[r.id.call].phase = "waiting"
    PROVE  CallInv'
<1>1. Ended(v) \in Call
    BY DEF Ended, NoCall, Call
<1>2. Tells(c, Ended(v))
    BY DEF Tells, Ended, NoCall
<1> QED
    BY <1>1, <1>2, CallStep DEF End

\* Whoever hears an answer waits for no other.
LEMMA HearKeepsInv == ASSUME CallInv, NEW c \in Calls, Hear(c) PROVE CallInv'
<1>1. calls[c] \in Call /\ calls[c].phase = "waiting" /\ CallTells(c)
    BY DEF Hear, CallInv, Types
<1>2. replies' \subseteq replies /\ \A r \in replies' : calls'[r.id.call].phase = "waiting"
    BY AwaitedWait DEF Hear
<1>3. PICK r \in replies : r.id = Attempt(c) /\ (IF r.says = "no-responders" THEN HearNobody(c) ELSE HearReply(c, r.says))
    BY DEF Hear
<1>4. r.id.call = c /\ ReplyTells(r) /\ r.says \in Verdict \cup {"no-responders"}
    BY <1>3 DEF Attempt, CallInv, Types, Reply
<1>5. UNCHANGED <<requests, inbox, tasks, runs>>
    BY DEF Hear, hostVars
<1>6. CASE r.says = "no-responders"
    <2>1. Untouched(c)
        BY <1>4, <1>6 DEF ReplyTells
    <2>2. CASE End(c, "not-found")
        BY <1>2, <1>5, <2>1, <2>2, EndStep DEF Verdict, Failure
    <2>3. CASE calls' = [calls EXCEPT ![c].phase = "pausing", ![c].wake = calls[c].age + Least(RetryDelay, Deadline)]
        <3> DEFINE w == calls[c].age + Least(RetryDelay, Deadline)
                   x == [calls[c] EXCEPT !.phase = "pausing", !.wake = w]
        <3>1. w \in Nat
            <4>1. calls[c].age \in Nat
                BY <1>1 DEF Call
            <4>2. Least(RetryDelay, Deadline) \in Nat
                BY RemoteAssumption DEF Least
            <4> QED
                BY <4>1, <4>2
        <3>2. calls' = [calls EXCEPT ![c] = x]
            BY <2>3
        <3> HIDE DEF w
        <3>3. x \in Call
            BY <1>1, <3>1 DEF Call
        <3>4. Tells(c, x)
            BY <1>1, <2>1, NothingAssumption DEF CallTells, Tells, Call, Verdict, Failure
        <3> HIDE DEF x
        <3> QED
            BY <1>2, <1>5, <3>2, <3>3, <3>4, CallStep
    <2> QED
        BY <1>3, <1>6, <2>2, <2>3 DEF HearNobody
<1>7. CASE r.says # "no-responders"
    <2>1. PICK v \in Verdict : End(c, v) /\ (v = r.says \/ (r.says = "ok" /\ v = "unreadable"))
        BY <1>3, <1>4, <1>7 DEF Verdict, HearReply
    <2>2. /\ v \in {"not-found", "refused"} => Untouched(c)
          /\ v \in {"ok", "unreadable"} => runs[c] = 1
        BY <1>4, <2>1 DEF ReplyTells
    <2> QED
        BY <1>2, <1>5, <2>1, <2>2, EndStep
<1> QED
    BY <1>6, <1>7

\* The two ends that say nothing of the provider.
LEMMA FailKeepsInv ==
    ASSUME CallInv, NEW c \in Calls, RequestFails(c) \/ Timeout(c)
    PROVE  CallInv'
<1>1. replies' \subseteq replies /\ \A r \in replies' : calls'[r.id.call].phase = "waiting"
    BY AwaitedWait DEF RequestFails, Timeout
<1>2. UNCHANGED <<requests, inbox, tasks, runs>>
    BY DEF RequestFails, Timeout, GiveUp, hostVars
<1>3. End(c, "internal") \/ End(c, "deadline-exceeded")
    BY DEF RequestFails, Timeout, GiveUp
<1> QED
    BY <1>1, <1>2, <1>3, EndStep DEF Verdict, Failure

\* A call that pauses is untouched, and nothing is on its way back to it.
LEMMA RetryKeepsInv == ASSUME CallInv, NEW c \in Calls, Retry(c) PROVE CallInv'
<1>1. calls[c] \in Call /\ calls[c].phase = "pausing" /\ UNCHANGED <<replies, inbox, tasks, runs>>
    BY DEF Retry, CallInv, Types, hostVars
<1>2. Untouched(c) /\ calls[c].to \in Interfaces /\ calls[c].verdict = Nothing
    BY <1>1 DEF CallInv, CallTells, Tells
<1>3. \A r \in replies : r.id.call # c
    BY <1>1 DEF CallInv, ReplyTells
<1>4. CASE Resend(c)
    <2> DEFINE x == [calls[c] EXCEPT !.phase = "waiting", !.attempt = 1]
    <2>1. x \in Call
        BY <1>1 DEF Call
    <2>2. x.phase = "waiting" /\ x.to = calls[c].to /\ x.verdict = Nothing
        BY <1>1, <1>2 DEF Call
    <2>3. calls' = [calls EXCEPT ![c] = x]
        BY <1>4 DEF Resend
    <2>4. requests' = requests \cup {Payload([call |-> c, attempt |-> 1], calls[c].to)}
        BY <1>4 DEF Resend
    <2>5. \A m \in DOMAIN tasks : tasks'[m] \in Task /\ TaskTells(m)'
        BY <1>1 DEF CallInv, Types, TaskTells
    <2> HIDE DEF x
    <2>6. Payload([call |-> c, attempt |-> 1], calls[c].to) \in Request /\ Payload([call |-> c, attempt |-> 1], calls[c].to).id.call = c
        BY <1>2, RequestsAreWellFormed
    <2> QED
        BY <1>1, <1>2, <1>3, <2>1, <2>2, <2>3, <2>4, <2>5, <2>6, SendStep
<1>5. CASE End(c, "deadline-exceeded") /\ UNCHANGED requests
    <2>1. \A r \in replies : calls'[r.id.call] = calls[r.id.call]
        BY <1>3, <1>5 DEF CallInv, Types, End, Reply, Message
    <2>2. \A r \in replies' : calls'[r.id.call].phase = "waiting"
        BY <1>1, <2>1 DEF CallInv, ReplyTells
    <2> QED
        BY <1>1, <1>5, <2>2, EndStep DEF Verdict, Failure
<1> QED
    BY <1>4, <1>5 DEF Retry

\* A call that begins is new: nothing is known of it.
LEMMA BeginStep ==
    ASSUME CallInv, NEW c \in Calls, NEW i \in Interfaces, Begin(c, i),
           UNCHANGED <<inbox, runs, replies>>,
           DOMAIN tasks' = DOMAIN tasks,
           \A m \in DOMAIN tasks : tasks'[m] \in Task /\ TaskTells(m)'
    PROVE  CallInv'
<1> DEFINE x == [NoCall EXCEPT !.phase = "waiting", !.to = i]
<1>1. Untouched(c)
    BY DEF Begin, IsNext, CallInv, CallTells, Tells
<1>2. \A r \in replies : r.id.call # c
    BY DEF Begin, IsNext, CallInv, ReplyTells
<1>3. x \in Call /\ x.phase = "waiting" /\ x.to = i /\ x.verdict = Nothing
    BY DEF NoCall, Call
<1>4. calls' = [calls EXCEPT ![c] = x] /\ requests' = requests \cup {Payload([call |-> c, attempt |-> 0], i)}
    BY DEF Begin
<1>5. Payload([call |-> c, attempt |-> 0], i) \in Request /\ Payload([call |-> c, attempt |-> 0], i).id.call = c
    BY RequestsAreWellFormed
<1> HIDE DEF x
<1> QED
    BY <1>1, <1>2, <1>3, <1>4, <1>5, SendStep

\* A call from outside is sent under a number of its own.
LEMMA CallInKeepsInv == ASSUME CallInv, NEW c \in Calls, NEW i \in Interfaces, CallIn(c, i) PROVE CallInv'
<1>1. Begin(c, i) /\ UNCHANGED <<inbox, runs, replies, tasks>>
    BY DEF CallIn, hostVars
<1>2. \A m \in DOMAIN tasks : tasks'[m] \in Task /\ TaskTells(m)'
    BY <1>1 DEF CallInv, Types, TaskTells
<1> QED
    BY <1>1, <1>2, BeginStep

\* So is the request of somebody who is no proxy.
LEMMA AskKeepsInv == ASSUME CallInv, NEW c \in Calls, NEW i \in Interfaces, Ask(c, i) PROVE CallInv'
<1> DEFINE x == [NoCall EXCEPT !.phase = "dropped"]
           p == Unlimited([call |-> c, attempt |-> 0], i)
<1>1. Untouched(c)
    BY DEF Ask, IsNext, CallInv, CallTells, Tells
<1>2. \A r \in replies : r.id.call # c
    BY DEF Ask, IsNext, CallInv, ReplyTells
<1>3. x \in Call /\ x.phase = "dropped" /\ x.verdict = Nothing
    BY DEF NoCall, Call
<1>4. calls' = [calls EXCEPT ![c] = x] /\ requests' = requests \cup {p} /\ UNCHANGED <<inbox, runs, replies, tasks>>
    BY DEF Ask, hostVars
<1>5. p \in Request /\ p.id.call = c
    BY RequestsAreWellFormed
<1>6. \A m \in DOMAIN tasks : tasks'[m] \in Task /\ TaskTells(m)'
    BY <1>4 DEF CallInv, Types, TaskTells
<1> HIDE DEF x, p
<1> QED
    BY <1>1, <1>2, <1>3, <1>4, <1>5, <1>6, SendStep

-----------------------------------------------------------------------------
(* The server, and what is lost.                                           *)

\* Calls that stay as they are, or are dropped, go on telling the truth, and
\* so do the replies to those that wait.
LEMMA TellsStay ==
    ASSUME CallInv, UNCHANGED runs,
           \A c \in Calls : Untouched(c) => Untouched(c)',
           \A c \in Calls : \/ calls'[c] = [NoCall EXCEPT !.phase = "dropped"]
                            \/ calls'[c].phase = calls[c].phase /\ calls'[c].to = calls[c].to /\ calls'[c].verdict = calls[c].verdict,
           replies' \subseteq Reply,
           \A r \in replies' : calls'[r.id.call].phase = "waiting",
           \A r \in replies' \ replies : ReplyTells(r)'
    PROVE  (\A r \in replies' : ReplyTells(r)') /\ (\A c \in Calls : CallTells(c)')
<1>1. ASSUME NEW r \in replies' PROVE ReplyTells(r)'
    <2>1. CASE r \in replies
        <3>1. r.id.call \in Calls
            BY <2>1 DEF CallInv, Types, Reply, Message
        <3> QED
            BY <2>1, <3>1 DEF CallInv, ReplyTells
    <2>2. CASE r \notin replies
        BY <2>2
    <2> QED
        BY <2>1, <2>2
<1>2. ASSUME NEW c \in Calls PROVE CallTells(c)'
    <2>1. CASE calls'[c] = [NoCall EXCEPT !.phase = "dropped"]
        BY <2>1, NothingAssumption DEF CallInv, CallTells, Tells, NoCall, Verdict, Failure
    <2>2. CASE calls'[c].phase = calls[c].phase /\ calls'[c].to = calls[c].to /\ calls'[c].verdict = calls[c].verdict
        BY <2>2 DEF CallInv, CallTells, Tells
    <2> QED
        BY <2>1, <2>2
<1> QED
    BY <1>1, <1>2

\* Requests, inboxes and tasks may be lost; nothing else becomes of them.
LEMMA LossStep ==
    ASSUME CallInv, UNCHANGED runs,
           requests' \subseteq requests,
           inbox' \in [Adapters -> Seq(Request)],
           \A a \in Adapters : inbox'[a] = inbox[a] \/ inbox'[a] = << >>,
           DOMAIN tasks' \subseteq DOMAIN tasks,
           \A m \in DOMAIN tasks' : tasks'[m] = tasks[m]
    PROVE  /\ requests' \subseteq Request /\ DOMAIN tasks' \subseteq Message
           /\ \A m \in DOMAIN tasks' : tasks'[m] \in Task /\ TaskTells(m)'
           /\ OnePlace' /\ PlaceTells'
           /\ \A c : Untouched(c) => Untouched(c)'
<1>1. \A a \in Adapters : \A k \in DOMAIN inbox'[a] : k \in DOMAIN inbox[a] /\ inbox'[a][k] = inbox[a][k]
    OBVIOUS
<1>2. \A c : (Sent(c)' => Sent(c)) /\ (Queued(c)' => Queued(c)) /\ (Answering(c)' => Answering(c))
    BY <1>1 DEF Sent, Queued, Answering
<1>3. OnePlace'
    BY <1>1, <1>2 DEF CallInv, OnePlace
<1>4. PlaceTells' /\ \A c : Untouched(c) => Untouched(c)'
    BY <1>2 DEF CallInv, PlaceTells, Untouched
<1>5. \A m \in DOMAIN tasks' : tasks'[m] \in Task /\ TaskTells(m)'
    BY DEF CallInv, Types, TaskTells
<1> QED
    BY <1>3, <1>4, <1>5 DEF CallInv, Types

\* The answers that are awaited are answers.
LEMMA AwaitedType ==
    ASSUME NEW some, some \subseteq Reply PROVE Awaited(some) \subseteq Reply
BY DEF Awaited

\* Dropping calls is well-typed.
LEMMA DropType == [NoCall EXCEPT !.phase = "dropped"] \in Call
BY DEF NoCall, Call

\* A request that NATS hands to one adapter of the queue group is nowhere else.
LEMMA RouteKeepsInv == ASSUME CallInv, NEW r \in requests, Route(r) PROVE CallInv'
<1>1. PICK a \in Adapters : inbox' = [inbox EXCEPT ![a] = Append(@, r)]
    BY DEF Route, Group
<1>2. requests' = requests \ {r} /\ UNCHANGED <<calls, replies, tasks, runs>>
    BY DEF Route, hostVars
<1>3. Types /\ OnePlace /\ PlaceTells
    BY DEF CallInv
<1> DEFINE c == r.id.call
<1>4. r \in Request /\ c \in Calls /\ Sent(c) /\ ~Queued(c) /\ ~Answering(c)
    BY <1>3 DEF Types, Request, Message, Sent, OnePlace
<1>5. inbox' \in [Adapters -> Seq(Request)]
    BY <1>1, <1>3, <1>4 DEF Types
<1>6. ASSUME NEW b \in Adapters, NEW k \in DOMAIN inbox'[b]
      PROVE  \/ b = a /\ k = Len(inbox[a]) + 1 /\ inbox'[b][k] = r
             \/ k \in DOMAIN inbox[b] /\ inbox'[b][k] = inbox[b][k]
    <2>1. inbox[a] \in Seq(Request) /\ inbox'[b] = IF b = a THEN Append(inbox[a], r) ELSE inbox[b]
        BY <1>1, <1>3 DEF Types
    <2> QED
        BY <1>4, <2>1
<1>7. \A b \in Adapters : \A k \in DOMAIN inbox[b] : k \in DOMAIN inbox'[b] /\ inbox'[b][k] = inbox[b][k]
    <2> TAKE b \in Adapters
    <2> TAKE k \in DOMAIN inbox[b]
    <2>1. inbox[a] \in Seq(Request) /\ inbox'[b] = IF b = a THEN Append(inbox[a], r) ELSE inbox[b]
        BY <1>1, <1>3 DEF Types
    <2> QED
        BY <1>4, <2>1
<1>8. a \in Adapters /\ Len(inbox[a]) + 1 \in DOMAIN inbox'[a] /\ inbox'[a][Len(inbox[a]) + 1] = r
    <2>1. inbox[a] \in Seq(Request) /\ inbox'[a] = Append(inbox[a], r)
        BY <1>1, <1>3 DEF Types
    <2> QED
        BY <1>4, <2>1
<1>9. \A d : /\ Sent(d)' <=> Sent(d) /\ d # c
             /\ Queued(d)' <=> Queued(d) \/ d = c
             /\ Answering(d)' <=> Answering(d)
    <2>1. \A d : Sent(d)' <=> Sent(d) /\ d # c
        BY <1>2, <1>3 DEF Sent, OnePlace
    <2>2. \A d : Queued(d)' => Queued(d) \/ d = c
        BY <1>6 DEF Queued
    <2>3. \A d : Queued(d) => Queued(d)'
        BY <1>7 DEF Queued
    <2>4. Queued(c)'
        BY <1>8 DEF Queued
    <2>5. \A d : Answering(d)' <=> Answering(d)
        BY <1>2 DEF Answering
    <2> QED
        BY <2>1, <2>2, <2>3, <2>4, <2>5
<1>10. OnePlace'
    <2>1. \A q, s \in requests' : q.id.call = s.id.call => q = s
        BY <1>2, <1>3 DEF OnePlace
    <2>2. \A m, n \in DOMAIN tasks' : m.call = n.call => m = n
        BY <1>2, <1>3 DEF OnePlace
    <2>3. ASSUME NEW b1 \in Adapters, NEW b2 \in Adapters,
                 NEW k \in DOMAIN inbox'[b1], NEW l \in DOMAIN inbox'[b2],
                 inbox'[b1][k].id.call = inbox'[b2][l].id.call
          PROVE  b1 = b2 /\ k = l
        <3>1. k \in DOMAIN inbox[b1] /\ inbox'[b1][k] = inbox[b1][k] => inbox[b1][k].id.call # c
            BY <1>4 DEF Queued
        <3>2. l \in DOMAIN inbox[b2] /\ inbox'[b2][l] = inbox[b2][l] => inbox[b2][l].id.call # c
            BY <1>4 DEF Queued
        <3> QED
            BY <1>3, <1>6, <2>3, <3>1, <3>2 DEF OnePlace
    <2>4. \A d \in Calls : ~(Sent(d)' /\ Queued(d)') /\ ~(Sent(d)' /\ Answering(d)') /\ ~(Queued(d)' /\ Answering(d)')
        BY <1>3, <1>4, <1>9 DEF OnePlace
    <2> QED
        BY <2>1, <2>2, <2>3, <2>4 DEF OnePlace
<1>11. PlaceTells' /\ \A d : Untouched(d) => Untouched(d)'
    BY <1>2, <1>3, <1>4, <1>9 DEF PlaceTells, Untouched
<1>12. \A m \in DOMAIN tasks' : TaskTells(m)'
    BY <1>2 DEF CallInv, TaskTells
<1>13. (\A q \in replies' : ReplyTells(q)') /\ (\A d \in Calls : CallTells(d)')
    BY <1>2, <1>3, <1>11, TellsStay DEF Types, CallInv, ReplyTells
<1>14. Types'
    BY <1>2, <1>3, <1>5 DEF Types
<1> QED
    BY <1>10, <1>11, <1>12, <1>13, <1>14 DEF CallInv

\* A request for a subject nobody serves is answered by the server itself.
LEMMA RouteNowhereKeepsInv == ASSUME CallInv, NEW r \in requests, RouteNowhere(r) PROVE CallInv'
<1> DEFINE c == r.id.call
           told == [id |-> r.id, says |-> "no-responders"]
<1>1. requests' = requests \ {r} /\ replies' = Awaited(replies \cup {told}) /\ UNCHANGED <<calls, inbox, tasks, runs>>
    BY DEF RouteNowhere, hostVars
<1>2. Types /\ OnePlace /\ PlaceTells
    BY DEF CallInv
<1>3. r \in Request /\ c \in Calls /\ Sent(c) /\ told \in Reply /\ told.id.call = c /\ told.says = "no-responders"
    BY <1>2 DEF Types, Request, Reply, Message, Sent
<1>4. ~Sent(c)' /\ ~Queued(c)' /\ ~Answering(c)' /\ runs[c] = 0
    BY <1>1, <1>2, <1>3 DEF Sent, Queued, Answering, OnePlace, PlaceTells
<1>5. Untouched(c)'
    BY <1>1, <1>4 DEF Untouched
<1> HIDE DEF told
<1>6. replies' \subseteq Reply /\ replies' \ replies \subseteq {told} /\ \A q \in replies' : calls'[q.id.call].phase = "waiting"
    BY <1>1, <1>2, <1>3 DEF Types, Awaited
<1>7. \A q \in replies' \ replies : ReplyTells(q)'
    BY <1>3, <1>5, <1>6 DEF ReplyTells
<1>8. /\ requests' \subseteq Request /\ DOMAIN tasks' \subseteq Message
      /\ \A m \in DOMAIN tasks' : tasks'[m] \in Task /\ TaskTells(m)'
      /\ OnePlace' /\ PlaceTells'
      /\ \A d : Untouched(d) => Untouched(d)'
    BY <1>1, <1>2, LossStep DEF Types
<1>9. (\A q \in replies' : ReplyTells(q)') /\ (\A d \in Calls : CallTells(d)')
    BY <1>1, <1>6, <1>7, <1>8, TellsStay
<1>10. Types'
    BY <1>1, <1>2, <1>6, <1>8 DEF Types
<1> QED
    BY <1>8, <1>9, <1>10 DEF CallInv

\* A step that leaves calls, requests and tasks alone keeps it.
LEMMA StayKeepsInv == ASSUME CallInv, UNCHANGED <<calls, requests, replies, inbox, tasks, runs>> PROVE CallInv'
<1>1. OnePlace' /\ PlaceTells' /\ \A d : Untouched(d)' <=> Untouched(d)
    BY PlacesStay DEF CallInv
<1>2. \A m \in DOMAIN tasks' : TaskTells(m)'
    BY DEF CallInv, TaskTells
<1>3. (\A r \in replies' : ReplyTells(r)') /\ (\A c \in Calls : CallTells(c)')
    BY <1>1 DEF CallInv, ReplyTells, CallTells, Tells
<1>4. Types'
    BY DEF CallInv, Types
<1> QED
    BY <1>1, <1>2, <1>3, <1>4 DEF CallInv

\* Drop and Crash: the inbox is lost, and with a crash the tasks, and the calls
\* that they made.
LEMMA DieKeepsInv ==
    ASSUME CallInv, NEW a \in Adapters, UNCHANGED <<requests, runs>>, inbox' = [inbox EXCEPT ![a] = << >>],
           DOMAIN tasks' \subseteq DOMAIN tasks,
           \A m \in DOMAIN tasks' : tasks'[m] = tasks[m],
           calls' \in [Calls -> Call],
           \A c \in Calls : calls'[c] = calls[c] \/ calls'[c] = [NoCall EXCEPT !.phase = "dropped"],
           replies' \subseteq replies,
           \A r \in replies' : calls'[r.id.call].phase = "waiting"
    PROVE  CallInv'
<1>1. inbox' \in [Adapters -> Seq(Request)] /\ \A b \in Adapters : inbox'[b] = inbox[b] \/ inbox'[b] = << >>
    BY DEF CallInv, Types
<1>2. /\ requests' \subseteq Request /\ DOMAIN tasks' \subseteq Message
      /\ \A m \in DOMAIN tasks' : tasks'[m] \in Task /\ TaskTells(m)'
      /\ OnePlace' /\ PlaceTells'
      /\ \A d : Untouched(d) => Untouched(d)'
    BY <1>1, LossStep
<1>3. (\A r \in replies' : ReplyTells(r)') /\ (\A c \in Calls : CallTells(c)')
    BY <1>2, TellsStay DEF CallInv, Types
<1>4. Types'
    BY <1>1, <1>2 DEF CallInv, Types
<1> QED
    BY <1>2, <1>3, <1>4 DEF CallInv

\* A slow consumer loses what waits for it, and answers none of it.
LEMMA DropKeepsInv == ASSUME CallInv, NEW a \in Adapters, Drop(a) PROVE CallInv'
<1>1. UNCHANGED <<calls, requests, replies, tasks, runs>> /\ inbox' = [inbox EXCEPT ![a] = << >>]
    BY DEF Drop, proxyVars, hostVars
<1> QED
    BY <1>1, DieKeepsInv DEF CallInv, Types, ReplyTells

\* An adapter that dies takes its tasks and its inbox with it.
LEMMA CrashKeepsInv == ASSUME CallInv, NEW a \in Adapters, Crash(a) PROVE CallInv'
<1>1. UNCHANGED <<requests, runs>> /\ inbox' = [inbox EXCEPT ![a] = << >>] /\ replies' = Awaited(replies)
    BY DEF Crash
<1>2. DOMAIN tasks' \subseteq DOMAIN tasks /\ \A m \in DOMAIN tasks' : tasks'[m] = tasks[m]
    BY DEF Crash
<1>3. \A c \in Calls : calls'[c] = calls[c] \/ calls'[c] = [NoCall EXCEPT !.phase = "dropped"]
    BY DEF Crash
<1>4. calls' \in [Calls -> Call]
    <2>1. DOMAIN calls' = Calls /\ calls' = [c \in Calls |-> calls'[c]]
        BY DEF Crash
    <2> QED
        BY <1>3, <2>1, DropType DEF CallInv, Types
<1> QED
    BY <1>1, <1>2, <1>3, <1>4, AwaitedWait, DieKeepsInv

-----------------------------------------------------------------------------
(* The adapter.                                                            *)

LEMMA TakeKeepsInv == ASSUME CallInv, NEW a \in Adapters, Take(a) PROVE CallInv'
<1> DEFINE r == Head(inbox[a])
           c == r.id.call
           t == [at |-> a, phase |-> "taken", left |-> r.deadline, waits |-> Nothing, verdict |-> Nothing]
<1>1. inbox[a] # << >> /\ inbox' = [inbox EXCEPT ![a] = Tail(@)] /\ tasks' = WithTask(r.id, t)
    BY DEF Take, TakeNext
<1>2. UNCHANGED <<calls, requests, replies, runs>>
    BY DEF Take, TakeNext, proxyVars, hostVars
<1>3. Types /\ OnePlace /\ PlaceTells
    BY DEF CallInv
<1>4. inbox[a] \in Seq(Request) /\ 1 \in DOMAIN inbox[a] /\ inbox[a][1] = r /\ r \in Request
    BY <1>1, <1>3 DEF Types
<1>5. r.id \in Message /\ r.deadline \in Nat \cup {Nothing} /\ c \in Calls
    BY <1>4 DEF Request, Message
<1>6. Queued(c) /\ ~Sent(c) /\ ~Answering(c) /\ runs[c] = 0
    BY <1>3, <1>4, <1>5 DEF Queued, OnePlace, PlaceTells
<1>7. t \in Task /\ t.phase = "taken"
    BY <1>5 DEF Task
<1> HIDE DEF r, t
<1>8. DOMAIN tasks' = (DOMAIN tasks) \cup {r.id} /\ tasks'[r.id] = t /\ \A m \in DOMAIN tasks : m # r.id => tasks'[m] = tasks[m]
    BY <1>1 DEF WithTask
<1>9. r.id \notin DOMAIN tasks
    BY <1>6 DEF Answering
<1>10. inbox' \in [Adapters -> Seq(Request)]
    BY <1>1, <1>3, <1>4 DEF Types
<1>11. ASSUME NEW b \in Adapters, NEW k \in DOMAIN inbox'[b]
       PROVE  IF b = a THEN k + 1 \in DOMAIN inbox[b] /\ inbox'[b][k] = inbox[b][k + 1] /\ k \in Nat \ {0}
                       ELSE k \in DOMAIN inbox[b] /\ inbox'[b][k] = inbox[b][k]
    <2>1. inbox'[b] = IF b = a THEN Tail(inbox[a]) ELSE inbox[b]
        BY <1>1, <1>3 DEF Types
    <2>2. /\ Tail(inbox[a]) \in Seq(Request) /\ Len(Tail(inbox[a])) = Len(inbox[a]) - 1
          /\ \A j \in 1 .. Len(Tail(inbox[a])) : Tail(inbox[a])[j] = inbox[a][j + 1]
        BY <1>1, <1>4, HeadTailProperties
    <2>3. CASE b = a
        <3>1. k \in 1 .. Len(Tail(inbox[a])) /\ Len(inbox[a]) \in Nat
            BY <1>4, <2>1, <2>2, <2>3, LenProperties
        <3>2. k \in Nat \ {0} /\ k + 1 \in 1 .. Len(inbox[a])
            BY <2>2, <3>1
        <3> QED
            BY <1>4, <2>1, <2>2, <2>3, <3>1, <3>2, LenProperties
    <2> QED
        BY <2>1, <2>3
<1>12. ASSUME NEW b \in Adapters, NEW k \in DOMAIN inbox'[b]
       PROVE  inbox'[b][k].id.call # c
    <2>1. CASE b = a
        <3>1. k + 1 \in DOMAIN inbox[a] /\ inbox'[b][k] = inbox[a][k + 1] /\ k \in Nat \ {0}
            BY <1>11, <2>1
        <3>2. k + 1 # 1
            BY <3>1
        <3> QED
            BY <1>3, <1>4, <3>1, <3>2 DEF OnePlace
    <2>2. CASE b # a
        BY <1>3, <1>4, <1>11, <2>2 DEF OnePlace
    <2> QED
        BY <2>1, <2>2
<1>13. \A d : (Sent(d)' <=> Sent(d)) /\ (Queued(d)' => Queued(d) /\ d # c) /\ (Answering(d)' <=> Answering(d) \/ d = c)
    <2>1. \A d : Sent(d)' <=> Sent(d)
        BY <1>2 DEF Sent
    <2>2. \A d : Queued(d)' => d # c
        BY <1>12 DEF Queued
    <2>3. \A d : Queued(d)' => Queued(d)
        BY <1>11 DEF Queued
    <2>4. \A d : Answering(d)' <=> Answering(d) \/ d = c
        BY <1>8 DEF Answering
    <2> QED
        BY <2>1, <2>2, <2>3, <2>4
<1>14. OnePlace'
    <2>1. \A q, s \in requests' : q.id.call = s.id.call => q = s
        BY <1>2, <1>3 DEF OnePlace
    <2>2. \A m, n \in DOMAIN tasks' : m.call = n.call => m = n
        BY <1>3, <1>6, <1>8 DEF OnePlace, Answering
    <2>3. ASSUME NEW b1 \in Adapters, NEW b2 \in Adapters,
                 NEW k \in DOMAIN inbox'[b1], NEW l \in DOMAIN inbox'[b2],
                 inbox'[b1][k].id.call = inbox'[b2][l].id.call
          PROVE  b1 = b2 /\ k = l
        <3> DEFINE k0 == IF b1 = a THEN k + 1 ELSE k
                   l0 == IF b2 = a THEN l + 1 ELSE l
        <3>1. k0 \in DOMAIN inbox[b1] /\ inbox'[b1][k] = inbox[b1][k0]
            BY <1>11
        <3>2. l0 \in DOMAIN inbox[b2] /\ inbox'[b2][l] = inbox[b2][l0]
            BY <1>11
        <3> HIDE DEF k0, l0
        <3>3. b1 = b2 /\ k0 = l0
            BY <1>3, <2>3, <3>1, <3>2 DEF OnePlace
        <3> QED
            BY <1>11, <3>3 DEF k0, l0
    <2>4. \A d \in Calls : ~(Sent(d)' /\ Queued(d)') /\ ~(Sent(d)' /\ Answering(d)') /\ ~(Queued(d)' /\ Answering(d)')
        BY <1>3, <1>6, <1>13 DEF OnePlace
    <2> QED
        BY <2>1, <2>2, <2>3, <2>4 DEF OnePlace
<1>15. PlaceTells' /\ \A d : Untouched(d) => Untouched(d)'
    BY <1>2, <1>3, <1>6, <1>13 DEF PlaceTells, Untouched
<1>16. \A m \in DOMAIN tasks' : TaskTells(m)'
    <2> TAKE m \in DOMAIN tasks'
    <2>1. CASE m = r.id
        BY <1>2, <1>6, <1>7, <1>8, <2>1 DEF TaskTells
    <2>2. CASE m # r.id
        BY <1>2, <1>8, <2>2 DEF CallInv, TaskTells
    <2> QED
        BY <2>1, <2>2
<1>17. (\A q \in replies' : ReplyTells(q)') /\ (\A d \in Calls : CallTells(d)')
    BY <1>2, <1>3, <1>15, TellsStay DEF Types, CallInv, ReplyTells
<1>18. Types'
    <2>1. \A m \in DOMAIN tasks' : tasks'[m] \in Task
        BY <1>3, <1>7, <1>8 DEF Types
    <2> QED
        BY <1>2, <1>3, <1>5, <1>8, <1>10, <2>1 DEF Types
<1> QED
    BY <1>14, <1>15, <1>16, <1>17, <1>18 DEF CallInv

\* A task has something to say.
LEMMA AnswerStep ==
    ASSUME CallInv, NEW m \in DOMAIN tasks,
           NEW v \in {"ok", "refused", "internal", "deadline-exceeded"}, Answer(m, v),
           v = "ok" => runs[m.call] = 1,
           v = "refused" => runs[m.call] = 0,
           UNCHANGED <<requests, inbox, runs>>,
           calls' \in [Calls -> Call],
           \A c \in Calls : calls'[c] = calls[c] \/ calls'[c] = [NoCall EXCEPT !.phase = "dropped"],
           replies' \subseteq replies,
           \A r \in replies' : calls'[r.id.call].phase = "waiting"
    PROVE  CallInv'
<1> DEFINE t == [tasks[m] EXCEPT !.phase = "replying", !.waits = Nothing, !.verdict = v]
<1>1. tasks[m] \in Task
    BY DEF CallInv, Types
<1>2. t \in Task /\ t.phase = "replying" /\ t.verdict = v
    BY <1>1 DEF Task, Verdict, Failure
<1>3. tasks' = [tasks EXCEPT ![m] = t]
    BY DEF Answer
<1> HIDE DEF t
<1>4. tasks'[m] = t
    BY <1>3
<1>5. TaskTells(m)'
    BY <1>2, <1>4 DEF TaskTells
<1> QED
    BY <1>2, <1>3, <1>5, TaskStep

\* When it calls no more, and nobody's call changes.
LEMMA SayStep ==
    ASSUME CallInv, NEW m \in DOMAIN tasks,
           NEW v \in {"ok", "refused", "internal"}, Answer(m, v),
           v = "ok" => runs[m.call] = 1,
           v = "refused" => runs[m.call] = 0,
           UNCHANGED <<requests, inbox, runs, calls, replies>>
    PROVE  CallInv'
<1>1. calls' \in [Calls -> Call] /\ \A r \in replies' : calls'[r.id.call].phase = "waiting"
    BY DEF CallInv, Types, ReplyTells
<1> QED
    BY <1>1, AnswerStep

\* A task that has something to say says it once.
LEMMA SayingKeepsInv ==
    ASSUME CallInv, NEW m \in DOMAIN tasks,
           \/ Refuse(m) \/ CannotEnter(m) \/ Trap(m) \/ CallFails(m)
           \/ \E verdict \in {"ok", "internal"} : Return(m, verdict)
    PROVE  CallInv'
<1> USE DEF proxyVars
<1>1. TaskTells(m)
    BY DEF CallInv
<1>2. CASE Refuse(m)
    BY <1>1, <1>2, SayStep DEF Refuse, TaskTells
<1>3. CASE CannotEnter(m)
    BY <1>3, SayStep DEF CannotEnter
<1>4. CASE Trap(m) \/ CallFails(m)
    BY <1>4, SayStep DEF Trap, CallFails, TrapIn
<1>5. CASE \E verdict \in {"ok", "internal"} : Return(m, verdict)
    <2>1. PICK v \in {"ok", "internal"} : Return(m, v)
        BY <1>5
    <2> QED
        BY <1>1, <2>1, SayStep DEF Return, TaskTells
<1> QED
    BY <1>2, <1>3, <1>4, <1>5

\* A task whose time is out drops the call it had made, and says so.
LEMMA ExpireKeepsInv == ASSUME CallInv, NEW m \in DOMAIN tasks, Expire(m) PROVE CallInv'
<1>1. Answer(m, "deadline-exceeded") /\ UNCHANGED <<requests, inbox, runs>> /\ replies' = Awaited(replies)
    BY DEF Expire
<1>2. \A c \in Calls : calls'[c] = calls[c] \/ calls'[c] = [NoCall EXCEPT !.phase = "dropped"]
    BY DEF Expire
<1>3. calls' \in [Calls -> Call]
    <2>1. DOMAIN calls' = Calls /\ calls' = [c \in Calls |-> calls'[c]]
        BY DEF Expire
    <2> QED
        BY <1>2, <2>1, DropType DEF CallInv, Types
<1> QED
    BY <1>1, <1>2, <1>3, AwaitedWait, AnswerStep

\* A task goes on, and says nothing yet.
LEMMA GoOnStep ==
    ASSUME CallInv, NEW m \in DOMAIN tasks, NEW t \in Task, tasks' = [tasks EXCEPT ![m] = t],
           UNCHANGED <<requests, inbox, runs, calls, replies>>,
           TaskTells(m)'
    PROVE  CallInv'
<1>1. calls' \in [Calls -> Call] /\ \A r \in replies' : calls'[r.id.call].phase = "waiting"
    BY DEF CallInv, Types, ReplyTells
<1> QED
    BY <1>1, TaskStep

\* A task that has been decoded waits for its store.
LEMMA DispatchKeepsInv == ASSUME CallInv, NEW m \in DOMAIN tasks, Dispatch(m) PROVE CallInv'
<1> DEFINE t == [tasks[m] EXCEPT !.phase = "locking"]
<1>1. tasks[m] \in Task /\ TaskTells(m) /\ tasks[m].phase = "taken"
    BY DEF CallInv, Types, Dispatch
<1>2. tasks' = [tasks EXCEPT ![m] = t] /\ UNCHANGED <<requests, inbox, runs, calls, replies>>
    BY DEF Dispatch, Become, proxyVars
<1>3. t \in Task /\ t.phase = "locking"
    BY <1>1 DEF Task
<1> HIDE DEF t
<1>4. TaskTells(m)'
    BY <1>1, <1>2, <1>3 DEF TaskTells
<1> QED
    BY <1>2, <1>3, <1>4, GoOnStep

\* A component that is answered goes on.
LEMMA CallReturnsKeepsInv == ASSUME CallInv, NEW m \in DOMAIN tasks, CallReturns(m) PROVE CallInv'
<1> DEFINE t == [tasks[m] EXCEPT !.phase = "inside", !.waits = Nothing]
<1>1. tasks[m] \in Task /\ TaskTells(m) /\ tasks[m].phase = "calling"
    BY DEF CallInv, Types, CallReturns
<1>2. tasks' = [tasks EXCEPT ![m] = t] /\ UNCHANGED <<requests, inbox, runs, calls, replies>>
    BY DEF CallReturns, proxyVars, hostVars
<1>3. t \in Task /\ t.phase = "inside"
    BY <1>1 DEF Task
<1> HIDE DEF t
<1>4. TaskTells(m)'
    BY <1>1, <1>2, <1>3 DEF TaskTells
<1> QED
    BY <1>2, <1>3, <1>4, GoOnStep

\* A component that calls another over NATS waits for it.
LEMMA CallOutKeepsInv ==
    ASSUME CallInv, NEW m \in DOMAIN tasks, NEW c \in Calls, NEW i \in Interfaces, CallOut(m, c, i)
    PROVE  CallInv'
<1> DEFINE t == [tasks[m] EXCEPT !.phase = "calling", !.waits = c]
<1>1. tasks[m] \in Task /\ TaskTells(m) /\ tasks[m].phase = "inside"
    BY DEF CallInv, Types, CallOut
<1>2. Begin(c, i) /\ tasks' = [tasks EXCEPT ![m] = t] /\ UNCHANGED <<inbox, runs, replies>>
    BY DEF CallOut, hostVars
<1>3. t \in Task /\ t.phase = "calling"
    BY <1>1 DEF Task
<1> HIDE DEF t
<1>4. DOMAIN tasks' = DOMAIN tasks /\ \A n \in DOMAIN tasks : tasks'[n] = IF n = m THEN t ELSE tasks[n]
    BY <1>2
<1>5. \A n \in DOMAIN tasks : tasks'[n] \in Task /\ TaskTells(n)'
    BY <1>1, <1>2, <1>3, <1>4 DEF CallInv, Types, TaskTells
<1> QED
    BY <1>2, <1>4, <1>5, BeginStep

\* The one step that runs a function: none was run for the call, and neither
\* a reply nor a verdict says that one was.
LEMMA EnterKeepsInv == ASSUME CallInv, NEW m \in DOMAIN tasks, Enter(m) PROVE CallInv'
<1> DEFINE t == [tasks[m] EXCEPT !.phase = "inside"]
           c == m.call
<1>1. Types /\ OnePlace /\ PlaceTells /\ tasks[m] \in Task /\ TaskTells(m) /\ tasks[m].phase = "locking"
    BY DEF CallInv, Types, Enter
<1>2. /\ tasks' = [tasks EXCEPT ![m] = t]
      /\ runs' = [runs EXCEPT ![c] = @ + 1]
      /\ UNCHANGED <<calls, requests, replies, inbox>>
    BY DEF Enter, Become, proxyVars
<1>3. t \in Task /\ t.phase = "inside"
    BY <1>1 DEF Task
<1> HIDE DEF t
<1>4. c \in Calls /\ Answering(c) /\ ~Sent(c) /\ ~Queued(c) /\ runs[c] = 0
    BY <1>1 DEF Types, Message, Answering, OnePlace, TaskTells
<1>5. runs'[c] = 1 /\ runs' \in [Calls -> Nat] /\ \A d \in Calls : d # c => runs'[d] = runs[d]
    BY <1>1, <1>2, <1>4 DEF Types
<1>6. DOMAIN tasks' = DOMAIN tasks /\ \A n \in DOMAIN tasks : tasks'[n] = IF n = m THEN t ELSE tasks[n]
    BY <1>2
<1>7. \A d : (Sent(d)' <=> Sent(d)) /\ (Queued(d)' <=> Queued(d)) /\ (Answering(d)' <=> Answering(d))
    BY <1>2, <1>6 DEF Sent, Queued, Answering
<1>8. \A d \in Calls : d # c => (Untouched(d)' <=> Untouched(d))
    BY <1>5, <1>7 DEF Untouched
<1>9. OnePlace' /\ PlaceTells'
    BY <1>1, <1>2, <1>4, <1>5, <1>6, <1>7 DEF OnePlace, PlaceTells
<1>10. \A n \in DOMAIN tasks' : tasks'[n] \in Task /\ TaskTells(n)'
    <2> TAKE n \in DOMAIN tasks'
    <2>1. CASE n = m
        BY <1>3, <1>5, <1>6, <2>1 DEF TaskTells
    <2>2. CASE n # m
        <3>1. n \in DOMAIN tasks /\ n.call \in Calls /\ n.call # c /\ tasks'[n] = tasks[n]
            BY <1>1, <1>6, <2>2 DEF Types, Message, OnePlace
        <3>2. runs'[n.call] = runs[n.call]
            BY <1>5, <3>1
        <3> QED
            BY <1>1, <3>1, <3>2 DEF CallInv, Types, TaskTells
    <2> QED
        BY <2>1, <2>2
<1>11. \A r \in replies' : ReplyTells(r)'
    <2> SUFFICES ASSUME NEW r \in replies PROVE ReplyTells(r)'
        BY <1>2
    <2>1. r.id.call \in Calls /\ ReplyTells(r)
        BY <1>1 DEF CallInv, Types, Reply, Message
    <2>2. CASE r.id.call = c
        BY <1>2, <1>4, <1>5, <2>1, <2>2 DEF ReplyTells, Untouched
    <2>3. CASE r.id.call # c
        BY <1>2, <1>5, <1>8, <2>1, <2>3 DEF ReplyTells
    <2> QED
        BY <2>2, <2>3
<1>12. \A d \in Calls : CallTells(d)'
    <2> TAKE d \in Calls
    <2>1. CallTells(d)
        BY DEF CallInv
    <2>2. CASE d = c
        BY <1>2, <1>4, <1>5, <2>1, <2>2 DEF CallTells, Tells, Untouched
    <2>3. CASE d # c
        BY <1>2, <1>5, <1>8, <2>1, <2>3 DEF CallTells, Tells
    <2> QED
        BY <2>2, <2>3
<1>13. Types'
    BY <1>1, <1>2, <1>5, <1>6, <1>10 DEF Types
<1> QED
    BY <1>9, <1>10, <1>11, <1>12, <1>13 DEF CallInv

\* An answer is published once, and its task ends.
LEMMA PublishKeepsInv == ASSUME CallInv, NEW m \in DOMAIN tasks, Publish(m) PROVE CallInv'
<1> DEFINE told == [id |-> m, says |-> tasks[m].verdict]
<1>1. /\ tasks' = [n \in (DOMAIN tasks) \ {m} |-> tasks[n]]
      /\ replies' = Awaited(replies \cup {told})
      /\ UNCHANGED <<calls, requests, inbox, runs>>
    BY DEF Publish, proxyVars, hostVars
<1>2. Types /\ OnePlace /\ PlaceTells /\ TaskTells(m) /\ tasks[m].phase = "replying"
    BY DEF CallInv, Publish
<1>3. m \in Message /\ m.call \in Calls /\ Answering(m.call) /\ ~Sent(m.call) /\ ~Queued(m.call)
    BY <1>2 DEF Types, Message, Answering, OnePlace
<1>4. told \in Reply /\ told.id = m /\ told.says = tasks[m].verdict
    BY <1>2, <1>3 DEF Reply, TaskTells, Verdict, Failure
<1>5. ~Sent(m.call)' /\ ~Queued(m.call)' /\ ~Answering(m.call)'
    BY <1>1, <1>2, <1>3 DEF Sent, Queued, Answering, OnePlace
<1> HIDE DEF told
<1>6. replies' \subseteq Reply /\ replies' \ replies \subseteq {told} /\ \A q \in replies' : calls'[q.id.call].phase = "waiting"
    BY <1>1, <1>2, <1>4 DEF Types, Awaited
<1>7. \A q \in replies' \ replies : ReplyTells(q)'
    BY <1>1, <1>2, <1>4, <1>5, <1>6 DEF ReplyTells, TaskTells, Untouched
<1>8. /\ requests' \subseteq Request /\ DOMAIN tasks' \subseteq Message
      /\ \A n \in DOMAIN tasks' : tasks'[n] \in Task /\ TaskTells(n)'
      /\ OnePlace' /\ PlaceTells'
      /\ \A d : Untouched(d) => Untouched(d)'
    BY <1>1, <1>2, LossStep DEF Types
<1>9. (\A q \in replies' : ReplyTells(q)') /\ (\A d \in Calls : CallTells(d)')
    BY <1>1, <1>6, <1>7, <1>8, TellsStay
<1>10. Types'
    BY <1>1, <1>2, <1>6, <1>8 DEF Types
<1> QED
    BY <1>8, <1>9, <1>10 DEF CallInv

\* Time passes for calls and for tasks: neither place nor phase changes.
LEMMA TickKeepsInv == ASSUME CallInv, Tick PROVE CallInv'
<1>1. UNCHANGED <<requests, replies, inbox, runs>> /\ DOMAIN tasks' = DOMAIN tasks
    BY DEF Tick, hostVars
<1>2. ASSUME NEW c \in Calls
      PROVE  /\ calls'[c] \in Call
             /\ calls'[c].phase = calls[c].phase /\ calls'[c].to = calls[c].to /\ calls'[c].verdict = calls[c].verdict
    <2>1. calls[c] \in Call
        BY DEF CallInv, Types
    <2>2. calls'[c] = calls[c] \/ calls'[c] = [calls[c] EXCEPT !.age = @ + 1]
        BY DEF Tick
    <2> QED
        BY <2>1, <2>2 DEF Call
<1>3. calls' \in [Calls -> Call]
    <2>1. calls' = [c \in Calls |-> calls'[c]]
        BY DEF Tick
    <2> QED
        BY <1>2, <2>1
<1>4. ASSUME NEW m \in DOMAIN tasks
      PROVE  tasks'[m] \in Task /\ tasks'[m].phase = tasks[m].phase /\ tasks'[m].verdict = tasks[m].verdict
    <2>1. tasks[m] \in Task
        BY DEF CallInv, Types
    <2>2. tasks'[m] = tasks[m] \/ (tasks[m].left \notin {0, Nothing} /\ tasks'[m] = [tasks[m] EXCEPT !.left = @ - 1])
        BY DEF Tick
    <2> QED
        BY <2>1, <2>2 DEF Task
<1>5. OnePlace' /\ PlaceTells' /\ \A d : Untouched(d)' <=> Untouched(d)
    BY <1>1, PlacesStay DEF CallInv
<1>6. \A m \in DOMAIN tasks' : tasks'[m] \in Task /\ TaskTells(m)'
    BY <1>1, <1>4 DEF CallInv, TaskTells
<1>7. \A r \in replies' : calls'[r.id.call].phase = "waiting"
    <2> SUFFICES ASSUME NEW r \in replies PROVE calls'[r.id.call].phase = "waiting"
        BY <1>1
    <2>1. r.id.call \in Calls /\ calls[r.id.call].phase = "waiting"
        BY DEF CallInv, Types, Reply, Message, ReplyTells
    <2> QED
        BY <1>2, <2>1
<1>8. (\A r \in replies' : ReplyTells(r)') /\ (\A c \in Calls : CallTells(c)')
    BY <1>1, <1>2, <1>5, <1>7, TellsStay DEF CallInv, Types
<1>9. Types'
    BY <1>1, <1>3, <1>6 DEF CallInv, Types
<1> QED
    BY <1>5, <1>6, <1>8, <1>9 DEF CallInv

-----------------------------------------------------------------------------
\* Every step keeps it.
LEMMA NextInv == CallInv /\ [Next]_vars => CallInv'
<1> SUFFICES ASSUME CallInv, [Next]_vars PROVE CallInv'
    OBVIOUS
<1>1. CASE \E c \in Calls, i \in Interfaces : CallIn(c, i) \/ Ask(c, i)
    BY <1>1, CallInKeepsInv, AskKeepsInv
<1>2. CASE \E c \in Calls : Hear(c) \/ RequestFails(c) \/ Retry(c) \/ Timeout(c)
    BY <1>2, HearKeepsInv, FailKeepsInv, RetryKeepsInv
<1>3. CASE \E r \in requests : Route(r) \/ RouteNowhere(r)
    BY <1>3, RouteKeepsInv, RouteNowhereKeepsInv
<1>4. CASE \E a \in Adapters : Serve(a) \/ Drop(a) \/ Take(a) \/ Crash(a)
    <2>1. ASSUME NEW a \in Adapters, Serve(a) PROVE CallInv'
        BY <2>1, StayKeepsInv DEF Serve, proxyVars, hostVars
    <2> QED
        BY <1>4, <2>1, DropKeepsInv, TakeKeepsInv, CrashKeepsInv
<1>5. ASSUME NEW m \in DOMAIN tasks,
             \/ Refuse(m) \/ CannotEnter(m) \/ Trap(m) \/ CallFails(m)
             \/ \E verdict \in {"ok", "internal"} : Return(m, verdict)
      PROVE  CallInv'
    BY <1>5, SayingKeepsInv
<1>6. ASSUME NEW m \in DOMAIN tasks,
             \/ Dispatch(m) \/ Enter(m) \/ CallReturns(m) \/ Expire(m) \/ Publish(m)
             \/ \E c \in Calls, i \in Interfaces : CallOut(m, c, i)
      PROVE  CallInv'
    BY <1>6, DispatchKeepsInv, EnterKeepsInv, CallReturnsKeepsInv, ExpireKeepsInv, PublishKeepsInv, CallOutKeepsInv
<1>7. CASE Tick
    BY <1>7, TickKeepsInv
<1>8. CASE UNCHANGED vars
    BY <1>8, StayKeepsInv DEF vars, proxyVars, hostVars
<1> QED
    BY <1>1, <1>2, <1>3, <1>4, <1>5, <1>6, <1>7, <1>8 DEF Next

\* A call is in one place at a time, whatever is lost, late or dropped.
LEMMA CallInvariant == Spec => []CallInv
<1> QED
    BY InitInv, NextInv, PTL DEF Spec

\* However often a request is sent, whatever is lost, late, dropped or dies,
\* a function is run for a call at most once: what invoke of the proxy
\* (nats-link lib.rs) takes care of by trying again only when nobody listened.
THEOREM CallsRunOnce == Spec => []AtMostOnce
<1>1. CallInv => AtMostOnce
    BY DEF CallInv, CallTells, AtMostOnce
<1> QED
    BY <1>1, CallInvariant, PTL

\* The verdict that a guest is given is true for good: with results, the
\* function has run once; without a provider, or refused by it, it has not and
\* never will, since nothing of the call is left anywhere.
THEOREM VerdictsAreTrue == Spec => []VerdictIsTrue
<1>1. CallInv => VerdictIsTrue
    BY DEF CallInv, CallTells, Tells, Untouched, VerdictIsTrue
<1> QED
    BY <1>1, CallInvariant, PTL

-----------------------------------------------------------------------------
(* Permits, stores and deadlines.                                          *)

\* The requests an adapter has in the works.
At(a) == {m \in DOMAIN tasks : tasks[m].at = a}

\* Nobody has two places in a line.
Distinct(turns) == \A k, l \in DOMAIN turns : turns[k] = turns[l] => k = l

StoreTypes ==
    /\ permits \in [Adapters -> Nat]
    /\ line \in [Adapters -> Seq(Message)]
    /\ \A a \in Adapters : Distinct(line[a])

\* The parts of NothingIsLost.
PermitsAddUp == \A a \in Adapters : permits[a] + Cardinality(At(a)) = Concurrency[a]
InsideHolds == \A m \in DOMAIN tasks : tasks[m].phase \in {"inside", "calling"} => HasStore(m)
InLine(a, m) == m \in DOMAIN tasks /\ tasks[m].at = a /\ Timed(m)
LinesAreOfTasks == \A a \in Adapters : \A k \in DOMAIN line[a] : InLine(a, line[a][k])

StoresInv == StoreTypes /\ PermitsAddUp /\ InsideHolds /\ LinesAreOfTasks

-----------------------------------------------------------------------------
(* Lines.                                                                  *)

\* Who gives up a turn is gone from the line; all others stay, in their order,
\* and whoever was first still is.
LEMMA WithoutLeaves ==
    ASSUME NEW S, NEW s \in Seq(S), NEW m, Distinct(s)
    PROVE  LET w == Without(s, m)
           IN  /\ w \in Seq(S) /\ Distinct(w)
               /\ \A k \in DOMAIN w : w[k] # m /\ \E l \in DOMAIN s : w[k] = s[l]
               /\ s # << >> /\ Head(s) # m => w # << >> /\ Head(w) = Head(s)
<1> DEFINE w == Without(s, m)
<1>1. Len(s) \in Nat /\ DOMAIN s = 1..Len(s)
    OBVIOUS
<1>2. CASE \A k \in DOMAIN s : s[k] # m
    <2>1. w = s
        BY <1>2 DEF Without
    <2> QED
        BY <1>2, <2>1
<1>3. CASE \E k \in DOMAIN s : s[k] = m
    <2> DEFINE gone == CHOOSE k \in DOMAIN s : s[k] = m
               from(k) == IF k < gone THEN k ELSE k + 1
    <2>1. gone \in 1..Len(s) /\ s[gone] = m
        BY <1>1, <1>3
    <2>2. w = [k \in 1..(Len(s) - 1) |-> s[from(k)]]
        BY <1>3 DEF Without
    <2> HIDE DEF gone, w
    <2>3. \A k \in 1..(Len(s) - 1) : from(k) \in 1..Len(s) /\ from(k) # gone
        BY <1>1, <2>1
    <2>4. Len(s) - 1 \in Nat
        BY <1>1, <2>1
    <2>5. w \in Seq(S) /\ Len(w) = Len(s) - 1 /\ DOMAIN w = 1..(Len(s) - 1)
        BY <1>1, <2>2, <2>3, <2>4
    <2>6. \A k \in DOMAIN w : w[k] # m /\ \E l \in DOMAIN s : w[k] = s[l]
        BY <1>1, <2>1, <2>2, <2>3, <2>5 DEF Distinct
    <2>7. Distinct(w)
        <3> SUFFICES ASSUME NEW k \in DOMAIN w, NEW l \in DOMAIN w, w[k] = w[l] PROVE k = l
            BY DEF Distinct
        <3>1. k \in 1..(Len(s) - 1) /\ l \in 1..(Len(s) - 1) /\ s[from(k)] = s[from(l)]
            BY <2>2, <2>5
        <3>2. from(k) = from(l)
            BY <1>1, <2>3, <3>1 DEF Distinct
        <3> QED
            BY <2>1, <3>1, <3>2
    <2>8. s # << >> /\ Head(s) # m => w # << >> /\ Head(w) = Head(s)
        <3> SUFFICES ASSUME s # << >>, Head(s) # m PROVE w # << >> /\ Head(w) = Head(s)
            OBVIOUS
        <3>1. 1 # gone /\ 1 \in 1..(Len(s) - 1)
            BY <1>1, <2>1
        <3>2. w[1] = s[1]
            BY <2>1, <2>2, <3>1
        <3> QED
            BY <2>5, <3>1, <3>2
    <2> QED
        BY <2>5, <2>6, <2>7, <2>8 DEF w
<1> QED
    BY <1>2, <1>3

\* Who gets in line is last in it.
LEMMA AppendTells ==
    ASSUME NEW S, NEW s \in Seq(S), NEW m \in S, NEW w, w = Append(s, m)
    PROVE  /\ w \in Seq(S)
           /\ \A k \in DOMAIN w : \/ k \in DOMAIN s /\ w[k] = s[k]
                                  \/ k = Len(s) + 1 /\ w[k] = m
           /\ s # << >> => w # << >> /\ Head(w) = Head(s)
<1>1. w \in Seq(S) /\ w # << >> /\ Len(w) = Len(s) + 1
    OBVIOUS
<1>2. \A k \in DOMAIN w : \/ k \in DOMAIN s /\ w[k] = s[k]
                          \/ k = Len(s) + 1 /\ w[k] = m
    <2> TAKE k \in DOMAIN w
    <2>1. Len(s) \in Nat /\ DOMAIN s = 1..Len(s) /\ k \in 1..(Len(s) + 1)
        BY <1>1
    <2>2. k \in 1..Len(s) => w[k] = s[k]
        OBVIOUS
    <2>3. w[Len(s) + 1] = m
        OBVIOUS
    <2> QED
        BY <2>1, <2>2, <2>3
<1>3. s # << >> => Head(w) = Head(s)
    OBVIOUS
<1> QED
    BY <1>1, <1>2, <1>3

-----------------------------------------------------------------------------
(* Permits.                                                                *)

\* There are two messages a call at most.
LEMMA MessagesAreFinite == IsFiniteSet(Message)
<1> DEFINE f == [m \in Message |-> 2 * m.call - m.attempt]
<1>1. MaxCalls \in Nat
    BY RemoteAssumption
<1>2. ASSUME NEW m \in Message
      PROVE  m.call \in Int /\ 1 <= m.call /\ m.call <= MaxCalls /\ (m.attempt = 0 \/ m.attempt = 1)
    BY <1>1 DEF Message, Calls
<1>3. f \in [Message -> 1..(2 * MaxCalls)]
    BY <1>1, <1>2
<1>4. ASSUME NEW m \in Message, NEW n \in Message, f[m] = f[n] PROVE m = n
    <2>1. 2 * m.call - m.attempt = 2 * n.call - n.attempt
        BY <1>4
    <2>2. m.call = n.call /\ m.attempt = n.attempt
        BY <1>2, <2>1
    <2> QED
        BY <2>2 DEF Message
<1>5. f \in Injection(Message, 1..(2 * MaxCalls))
    BY <1>3, <1>4 DEF Injection, IsInjective
<1>6. 1 \in Int /\ 2 * MaxCalls \in Int
    BY <1>1
<1>7. IsFiniteSet(1..(2 * MaxCalls))
    BY <1>6, FS_Interval
<1> QED
    BY <1>5, <1>7, FS_Injection

\* What an adapter has in the works can be counted.
LEMMA WorksAreFinite == ASSUME Types, NEW a PROVE IsFiniteSet(At(a)) /\ Cardinality(At(a)) \in Nat
<1>1. At(a) \in SUBSET Message
    BY DEF At, Types
<1>2. IsFiniteSet(At(a))
    BY <1>1, MessagesAreFinite, FS_Subset
<1> QED
    BY <1>2, FS_CardinalityType

\* Where tasks stay where they are, so do the permits.
LEMMA PermitsStay ==
    ASSUME PermitsAddUp, UNCHANGED permits, DOMAIN tasks' = DOMAIN tasks,
           \A m \in DOMAIN tasks : tasks'[m].at = tasks[m].at
    PROVE  PermitsAddUp'
<1>1. \A a : At(a)' = At(a)
    BY DEF At
<1> QED
    BY <1>1 DEF PermitsAddUp

-----------------------------------------------------------------------------
(* Steps of one kind.                                                      *)

\* Nobody gets into a line, or out of it: who comes inside holds the store.
LEMMA LinesStay ==
    ASSUME StoresInv, UNCHANGED <<permits, line>>, DOMAIN tasks' = DOMAIN tasks,
           \A m \in DOMAIN tasks :
              /\ tasks'[m].at = tasks[m].at
              /\ Timed(m) => Timed(m)'
              /\ tasks'[m].phase \in {"inside", "calling"} => HasStore(m)
    PROVE  StoresInv'
<1> USE DEF StoresInv
<1>1. StoreTypes'
    BY DEF StoreTypes
<1>2. PermitsAddUp'
    BY PermitsStay
<1>3. InsideHolds'
    BY DEF InsideHolds, HasStore
<1>4. LinesAreOfTasks'
    BY DEF LinesAreOfTasks, InLine
<1> QED
    BY <1>1, <1>2, <1>3, <1>4

\* Nothing of it changes.
LEMMA StillStanding == ASSUME StoresInv, UNCHANGED <<permits, line, tasks>> PROVE StoresInv'
<1>1. DOMAIN tasks' = DOMAIN tasks /\ \A m \in DOMAIN tasks : tasks'[m].at = tasks[m].at /\ (Timed(m) => Timed(m)')
    BY DEF Timed
<1>2. \A m \in DOMAIN tasks : tasks'[m].phase \in {"inside", "calling"} => HasStore(m)
    BY DEF StoresInv, InsideHolds
<1> QED
    BY <1>1, <1>2, LinesStay

\* A task goes on and keeps its turn.
LEMMA TurnKept ==
    ASSUME StoresInv, UNCHANGED <<permits, line>>,
           NEW m \in DOMAIN tasks, NEW t, tasks' = [tasks EXCEPT ![m] = t],
           t.at = tasks[m].at, t.phase \in {"inside", "calling"}, HasStore(m)
    PROVE  StoresInv'
<1>1. DOMAIN tasks' = DOMAIN tasks /\ \A n \in DOMAIN tasks : tasks'[n] = IF n = m THEN t ELSE tasks[n]
    OBVIOUS
<1>2. ASSUME NEW n \in DOMAIN tasks
      PROVE  /\ tasks'[n].at = tasks[n].at
             /\ Timed(n) => Timed(n)'
             /\ tasks'[n].phase \in {"inside", "calling"} => HasStore(n)
    BY <1>1 DEF Timed, StoresInv, InsideHolds
<1> QED
    BY <1>1, <1>2, LinesStay

\* Who answers gives up its turn, wherever it is: nobody else loses his.
LEMMA AnswerKeepsStores ==
    ASSUME CallInv, StoresInv, NEW m \in DOMAIN tasks, NEW v, Answer(m, v), UNCHANGED permits
    PROVE  StoresInv'
<1> DEFINE a == tasks[m].at
           w == Without(line[a], m)
<1>1. tasks[m] \in Task /\ a \in Adapters
    BY DEF CallInv, Types, Task
<1>2. line' = [line EXCEPT ![a] = w]
    BY DEF Answer, Leave
<1>3. /\ DOMAIN tasks' = DOMAIN tasks
      /\ \A n \in DOMAIN tasks : n # m => tasks'[n] = tasks[n]
      /\ tasks'[m].at = a /\ tasks'[m].phase = "replying"
    BY <1>1 DEF Answer, Task
<1>4. line \in [Adapters -> Seq(Message)] /\ line[a] \in Seq(Message) /\ Distinct(line[a])
    BY <1>1 DEF StoresInv, StoreTypes
<1>5. /\ w \in Seq(Message) /\ Distinct(w)
      /\ \A k \in DOMAIN w : w[k] # m /\ \E l \in DOMAIN line[a] : w[k] = line[a][l]
      /\ line[a] # << >> /\ Head(line[a]) # m => w # << >> /\ Head(w) = Head(line[a])
    BY <1>4, WithoutLeaves
<1> HIDE DEF w
<1>6. line'[a] = w /\ \A b \in Adapters : b # a => line'[b] = line[b]
    BY <1>1, <1>2, <1>4
<1>7. StoreTypes'
    BY <1>2, <1>4, <1>5, <1>6 DEF StoresInv, StoreTypes
<1>8. PermitsAddUp'
    BY <1>3, PermitsStay DEF StoresInv
<1>9. InsideHolds'
    <2> SUFFICES ASSUME NEW n \in DOMAIN tasks', tasks'[n].phase \in {"inside", "calling"} PROVE HasStore(n)'
        BY DEF InsideHolds
    <2>1. n # m /\ n \in DOMAIN tasks /\ tasks'[n] = tasks[n]
        BY <1>3
    <2>2. line[tasks[n].at] # << >> /\ Head(line[tasks[n].at]) = n /\ tasks[n].at \in Adapters
        BY <2>1 DEF StoresInv, InsideHolds, HasStore, CallInv, Types, Task
    <2> QED
        BY <1>5, <1>6, <2>1, <2>2 DEF HasStore
<1>10. LinesAreOfTasks'
    <2> SUFFICES ASSUME NEW b \in Adapters, NEW k \in DOMAIN line'[b] PROVE InLine(b, line[b][k])'
        BY DEF LinesAreOfTasks
    <2>1. PICK l \in DOMAIN line[b] : line'[b][k] = line[b][l] /\ line[b][l] # m
        <3>1. CASE b = a
            BY <1>5, <1>6, <3>1
        <3>2. CASE b # a
            <4>1. line'[b] = line[b] /\ InLine(b, line[b][k])
                BY <1>6, <3>2 DEF StoresInv, LinesAreOfTasks
            <4> QED
                BY <3>2, <4>1 DEF InLine
        <3> QED
            BY <3>1, <3>2
    <2>2. InLine(b, line[b][l])
        BY DEF StoresInv, LinesAreOfTasks
    <2> QED
        BY <1>3, <2>1, <2>2 DEF InLine, Timed
<1> QED
    BY <1>7, <1>8, <1>9, <1>10 DEF StoresInv

-----------------------------------------------------------------------------
(* The steps.                                                              *)

LEMMA StoresInit == Init => StoresInv
<1> SUFFICES ASSUME Init PROVE StoresInv
    OBVIOUS
<1>1. DOMAIN tasks = {} /\ permits = Concurrency /\ line = [a \in Adapters |-> << >>]
    BY DEF Init
<1>2. StoreTypes
    <2>1. permits \in [Adapters -> Nat]
        BY <1>1, RemoteAssumption
    <2>2. line \in [Adapters -> Seq(Message)] /\ \A a \in Adapters : Distinct(line[a])
        BY <1>1 DEF Distinct
    <2> QED
        BY <2>1, <2>2 DEF StoreTypes
<1>3. PermitsAddUp
    <2>1. \A a : At(a) = {}
        BY <1>1 DEF At
    <2>2. \A a \in Adapters : Concurrency[a] \in Nat
        BY RemoteAssumption
    <2>3. Cardinality({}) = 0
        BY FS_EmptySet
    <2>4. \A a \in Adapters : permits[a] + Cardinality(At(a)) = Concurrency[a] + 0
        BY <1>1, <2>1, <2>3
    <2> QED
        BY <2>2, <2>4 DEF PermitsAddUp
<1>4. InsideHolds /\ LinesAreOfTasks
    BY <1>1 DEF InsideHolds, LinesAreOfTasks
<1> QED
    BY <1>2, <1>3, <1>4 DEF StoresInv

\* A task gets in line, last: it was not there yet.
LEMMA DispatchKeepsStores ==
    ASSUME CallInv, StoresInv, NEW m \in DOMAIN tasks, Dispatch(m) PROVE StoresInv'
<1> DEFINE a == tasks[m].at
<1>1. tasks[m] \in Task /\ a \in Adapters /\ m \in Message /\ tasks[m].phase = "taken"
    BY DEF CallInv, Types, Task, Dispatch
<1>2. line' = [line EXCEPT ![a] = Append(@, m)] /\ UNCHANGED permits
    BY DEF Dispatch
<1>3. /\ DOMAIN tasks' = DOMAIN tasks
      /\ \A n \in DOMAIN tasks : n # m => tasks'[n] = tasks[n]
      /\ tasks'[m].at = a /\ tasks'[m].phase = "locking"
    BY <1>1 DEF Dispatch, Become, Task
<1>4. line \in [Adapters -> Seq(Message)] /\ line[a] \in Seq(Message) /\ Distinct(line[a])
    BY <1>1 DEF StoresInv, StoreTypes
<1>5. line'[a] = Append(line[a], m) /\ \A b \in Adapters : b # a => line'[b] = line[b]
    BY <1>1, <1>2, <1>4
<1>6. \A k \in DOMAIN line[a] : line[a][k] # m
    BY <1>1 DEF StoresInv, LinesAreOfTasks, InLine, Timed
<1>7. /\ line'[a] \in Seq(Message)
      /\ \A k \in DOMAIN line'[a] : \/ k \in DOMAIN line[a] /\ line'[a][k] = line[a][k]
                                    \/ k = Len(line[a]) + 1 /\ line'[a][k] = m
      /\ line[a] # << >> => line'[a] # << >> /\ Head(line'[a]) = Head(line[a])
    BY <1>1, <1>4, <1>5, AppendTells
<1>8. StoreTypes'
    <2>1. Distinct(line'[a])
        BY <1>4, <1>6, <1>7 DEF Distinct
    <2>2. line' \in [Adapters -> Seq(Message)]
        BY <1>2, <1>4, <1>5, <1>7
    <2>3. \A b \in Adapters : Distinct(line'[b])
        BY <1>5, <2>1 DEF StoresInv, StoreTypes
    <2> QED
        BY <1>2, <2>2, <2>3 DEF StoresInv, StoreTypes
<1>9. PermitsAddUp'
    BY <1>2, <1>3, PermitsStay DEF StoresInv
<1>10. InsideHolds'
    <2> SUFFICES ASSUME NEW n \in DOMAIN tasks', tasks'[n].phase \in {"inside", "calling"} PROVE HasStore(n)'
        BY DEF InsideHolds
    <2>1. n # m /\ n \in DOMAIN tasks /\ tasks'[n] = tasks[n]
        BY <1>3
    <2>2. line[tasks[n].at] # << >> /\ Head(line[tasks[n].at]) = n /\ tasks[n].at \in Adapters
        BY <2>1 DEF StoresInv, InsideHolds, HasStore, CallInv, Types, Task
    <2> QED
        BY <1>5, <1>7, <2>1, <2>2 DEF HasStore
<1>11. LinesAreOfTasks'
    <2> SUFFICES ASSUME NEW b \in Adapters, NEW k \in DOMAIN line'[b] PROVE InLine(b, line[b][k])'
        BY DEF LinesAreOfTasks
    <2>1. CASE k \in DOMAIN line[b] /\ line'[b][k] = line[b][k]
        BY <1>3, <2>1 DEF StoresInv, LinesAreOfTasks, InLine, Timed
    <2>2. CASE b = a /\ line'[b][k] = m
        BY <1>3, <2>2 DEF InLine, Timed
    <2> QED
        BY <1>5, <1>7, <2>1, <2>2
<1> QED
    BY <1>8, <1>9, <1>10, <1>11 DEF StoresInv

\* A request that becomes a task was none, and takes one permit.
LEMMA TakeKeepsStores ==
    ASSUME CallInv, StoresInv, NEW a \in Adapters, Take(a) PROVE StoresInv'
<1> DEFINE r == Head(inbox[a])
           m == r.id
           t == [at |-> a, phase |-> "taken", left |-> r.deadline, waits |-> Nothing, verdict |-> Nothing]
<1>1. inbox[a] \in Seq(Request) /\ inbox[a] # << >> /\ r \in Request /\ r = inbox[a][1] /\ 1 \in DOMAIN inbox[a]
    BY DEF Take, TakeNext, CallInv, Types
<1>2. m \notin DOMAIN tasks
    BY <1>1 DEF CallInv, OnePlace, Queued, Answering, Request, Message
<1>3. /\ permits[a] > 0 /\ permits' = [permits EXCEPT ![a] = @ - 1]
      /\ tasks' = [n \in (DOMAIN tasks) \cup {m} |-> IF n = m THEN t ELSE tasks[n]]
      /\ UNCHANGED line
    BY DEF Take, TakeNext, WithTask, hostVars
<1> HIDE DEF m, r
<1>4. DOMAIN tasks' = (DOMAIN tasks) \cup {m} /\ tasks'[m] = t /\ \A n \in DOMAIN tasks : tasks'[n] = tasks[n]
    BY <1>2, <1>3
<1>5. permits \in [Adapters -> Nat]
    BY DEF StoresInv, StoreTypes
<1>6. StoreTypes'
    BY <1>3, <1>5 DEF StoresInv, StoreTypes
<1>7. PermitsAddUp'
    <2> SUFFICES ASSUME NEW b \in Adapters PROVE permits'[b] + Cardinality(At(b)') = Concurrency[b]
        BY DEF PermitsAddUp
    <2>1. permits[b] + Cardinality(At(b)) = Concurrency[b] /\ permits[b] \in Nat
        BY <1>5 DEF StoresInv, PermitsAddUp
    <2>2. IsFiniteSet(At(b)) /\ Cardinality(At(b)) \in Nat
        BY WorksAreFinite DEF CallInv
    <2>3. CASE b = a
        <3>1. At(b)' = At(b) \cup {m} /\ m \notin At(b)
            BY <1>2, <1>4, <2>3 DEF At
        <3>2. Cardinality(At(b)') = Cardinality(At(b)) + 1
            BY <2>2, <3>1, FS_AddElement
        <3>3. permits'[b] = permits[b] - 1
            BY <1>3, <1>5, <2>3
        <3> QED
            BY <2>1, <2>2, <3>2, <3>3
    <2>4. CASE b # a
        <3>1. At(b)' = At(b)
            BY <1>2, <1>4, <2>4 DEF At
        <3>2. permits'[b] = permits[b]
            BY <1>3, <1>5, <2>4
        <3> QED
            BY <2>1, <3>1, <3>2
    <2> QED
        BY <2>3, <2>4
<1>8. InsideHolds'
    BY <1>3, <1>4 DEF StoresInv, InsideHolds, HasStore
<1>9. LinesAreOfTasks'
    BY <1>2, <1>3, <1>4 DEF StoresInv, LinesAreOfTasks, InLine, Timed
<1> QED
    BY <1>6, <1>7, <1>8, <1>9 DEF StoresInv

\* A task that goes is in no line, and gives its permit back.
LEMMA PublishKeepsStores ==
    ASSUME CallInv, StoresInv, NEW m \in DOMAIN tasks, Publish(m) PROVE StoresInv'
<1> DEFINE a == tasks[m].at
<1>1. tasks[m] \in Task /\ a \in Adapters /\ tasks[m].phase = "replying"
    BY DEF CallInv, Types, Task, Publish
<1>2. permits' = [permits EXCEPT ![a] = @ + 1] /\ UNCHANGED line
    BY DEF Publish, GiveBack, hostVars
<1>3. DOMAIN tasks' = (DOMAIN tasks) \ {m} /\ \A n \in DOMAIN tasks' : tasks'[n] = tasks[n]
    BY DEF Publish
<1> HIDE DEF a
<1>4. permits \in [Adapters -> Nat]
    BY DEF StoresInv, StoreTypes
<1>5. StoreTypes'
    BY <1>1, <1>2, <1>4 DEF StoresInv, StoreTypes
<1>6. PermitsAddUp'
    <2> SUFFICES ASSUME NEW b \in Adapters PROVE permits'[b] + Cardinality(At(b)') = Concurrency[b]
        BY DEF PermitsAddUp
    <2>1. permits[b] + Cardinality(At(b)) = Concurrency[b] /\ permits[b] \in Nat
        BY <1>4 DEF StoresInv, PermitsAddUp
    <2>2. IsFiniteSet(At(b)) /\ Cardinality(At(b)) \in Nat
        BY WorksAreFinite DEF CallInv
    <2>3. CASE b = a
        <3>1. At(b)' = At(b) \ {m} /\ m \in At(b)
            BY <1>3, <2>3 DEF At, a
        <3>2. Cardinality(At(b)') = Cardinality(At(b)) - 1
            BY <2>2, <3>1, FS_RemoveElement
        <3>3. permits'[b] = permits[b] + 1
            BY <1>2, <1>4, <2>3
        <3> QED
            BY <2>1, <2>2, <3>2, <3>3
    <2>4. CASE b # a
        <3>1. At(b)' = At(b)
            BY <1>3, <2>4 DEF At, a
        <3>2. permits'[b] = permits[b]
            BY <1>2, <1>4, <2>4
        <3> QED
            BY <2>1, <3>1, <3>2
    <2> QED
        BY <2>3, <2>4
<1>7. InsideHolds'
    BY <1>2, <1>3 DEF StoresInv, InsideHolds, HasStore
<1>8. LinesAreOfTasks'
    <2>1. \A b \in Adapters : \A k \in DOMAIN line[b] : InLine(b, line[b][k]) /\ line[b][k] # m
        BY <1>1 DEF StoresInv, LinesAreOfTasks, InLine, Timed
    <2> QED
        BY <1>2, <1>3, <2>1 DEF LinesAreOfTasks, InLine, Timed
<1> QED
    BY <1>5, <1>6, <1>7, <1>8 DEF StoresInv

\* A process that dies takes its own tasks with it, and no others.
LEMMA CrashKeepsStores ==
    ASSUME CallInv, StoresInv, NEW a \in Adapters, Crash(a) PROVE StoresInv'
<1>1. permits' = [permits EXCEPT ![a] = Concurrency[a]] /\ line' = [line EXCEPT ![a] = << >>]
    BY DEF Crash
<1>2. /\ DOMAIN tasks' = {m \in DOMAIN tasks : tasks[m].at # a}
      /\ \A m \in DOMAIN tasks' : tasks'[m] = tasks[m]
    BY DEF Crash
<1>3. permits \in [Adapters -> Nat] /\ line \in [Adapters -> Seq(Message)] /\ \A b \in Adapters : Concurrency[b] \in Nat
    BY RemoteAssumption DEF StoresInv, StoreTypes
<1>4. /\ permits'[a] = Concurrency[a] /\ line'[a] = << >>
      /\ \A b \in Adapters : b # a => permits'[b] = permits[b] /\ line'[b] = line[b]
    BY <1>1, <1>3
<1>5. StoreTypes'
    <2>1. permits' \in [Adapters -> Nat] /\ line' \in [Adapters -> Seq(Message)]
        BY <1>1, <1>3
    <2>2. \A b \in Adapters : Distinct(line'[b])
        BY <1>4 DEF StoresInv, StoreTypes, Distinct
    <2> QED
        BY <2>1, <2>2 DEF StoreTypes
<1>6. PermitsAddUp'
    <2> SUFFICES ASSUME NEW b \in Adapters PROVE permits'[b] + Cardinality(At(b)') = Concurrency[b]
        BY DEF PermitsAddUp
    <2>1. CASE b = a
        <3>1. At(b)' = {}
            BY <1>2, <2>1 DEF At
        <3> QED
            BY <1>3, <1>4, <2>1, <3>1, FS_EmptySet
    <2>2. CASE b # a
        <3>1. At(b)' = At(b)
            BY <1>2, <2>2 DEF At
        <3> QED
            BY <1>4, <2>2, <3>1 DEF StoresInv, PermitsAddUp
    <2> QED
        BY <2>1, <2>2
<1>7. \A m \in DOMAIN tasks' : m \in DOMAIN tasks /\ tasks[m].at \in Adapters /\ tasks[m].at # a
    BY <1>2 DEF CallInv, Types, Task
<1>8. InsideHolds'
    BY <1>2, <1>4, <1>7 DEF StoresInv, InsideHolds, HasStore
<1>9. LinesAreOfTasks'
    <2> SUFFICES ASSUME NEW b \in Adapters, NEW k \in DOMAIN line'[b] PROVE InLine(b, line[b][k])'
        BY DEF LinesAreOfTasks
    <2>1. b # a /\ line'[b] = line[b]
        BY <1>4
    <2>2. InLine(b, line[b][k])
        BY <2>1 DEF StoresInv, LinesAreOfTasks
    <2> QED
        BY <1>2, <2>1, <2>2 DEF InLine, Timed
<1> QED
    BY <1>5, <1>6, <1>8, <1>9 DEF StoresInv

\* A task comes inside when it has the store, and stays inside with it.
LEMMA GoOnKeepsStores ==
    ASSUME CallInv, StoresInv, NEW m \in DOMAIN tasks,
           \/ Enter(m) \/ CallReturns(m)
           \/ \E c \in Calls, i \in Interfaces : CallOut(m, c, i)
    PROVE  StoresInv'
<1>1. tasks[m] \in Task
    BY DEF CallInv, Types
<1>2. ASSUME NEW t, tasks' = [tasks EXCEPT ![m] = t], t.at = tasks[m].at, t.phase \in {"inside", "calling"},
             UNCHANGED <<permits, line>>,
             tasks[m].phase \in {"inside", "calling"} \/ HasStore(m)
      PROVE  StoresInv'
    BY <1>2, TurnKept DEF StoresInv, InsideHolds
<1>3. CASE Enter(m)
    <2> DEFINE t == [tasks[m] EXCEPT !.phase = "inside"]
    <2>1. t.at = tasks[m].at /\ t.phase = "inside"
        BY <1>1 DEF Task
    <2>2. tasks' = [tasks EXCEPT ![m] = t] /\ UNCHANGED <<permits, line>> /\ HasStore(m)
        BY <1>3 DEF Enter, Become
    <2> QED
        BY <1>2, <2>1, <2>2
<1>4. CASE CallReturns(m)
    <2> DEFINE t == [tasks[m] EXCEPT !.phase = "inside", !.waits = Nothing]
    <2>1. t.at = tasks[m].at /\ t.phase = "inside"
        BY <1>1 DEF Task
    <2>2. tasks' = [tasks EXCEPT ![m] = t] /\ UNCHANGED <<permits, line>> /\ tasks[m].phase = "calling"
        BY <1>4 DEF CallReturns, hostVars
    <2> QED
        BY <1>2, <2>1, <2>2
<1>5. ASSUME NEW c \in Calls, NEW i \in Interfaces, CallOut(m, c, i) PROVE StoresInv'
    <2> DEFINE t == [tasks[m] EXCEPT !.phase = "calling", !.waits = c]
    <2>1. t.at = tasks[m].at /\ t.phase = "calling"
        BY <1>1 DEF Task
    <2>2. tasks' = [tasks EXCEPT ![m] = t] /\ UNCHANGED <<permits, line>> /\ tasks[m].phase = "inside"
        BY <1>5 DEF CallOut, hostVars
    <2> QED
        BY <1>2, <2>1, <2>2
<1> QED
    BY <1>3, <1>4, <1>5

\* However a task comes to its answer.
LEMMA SayingKeepsStores ==
    ASSUME CallInv, StoresInv, NEW m \in DOMAIN tasks,
           \/ Refuse(m) \/ CannotEnter(m) \/ Trap(m) \/ CallFails(m) \/ Expire(m)
           \/ \E verdict \in {"ok", "internal"} : Return(m, verdict)
    PROVE  StoresInv'
<1>1. PICK v : Answer(m, v)
    BY DEF Refuse, CannotEnter, Trap, TrapIn, CallFails, Expire, Return
<1>2. UNCHANGED permits
    BY DEF Refuse, CannotEnter, Trap, TrapIn, CallFails, Expire, Return
<1> QED
    BY <1>1, <1>2, AnswerKeepsStores

\* Time goes by, and nobody's turn changes.
LEMMA TickKeepsStores == ASSUME CallInv, StoresInv, Tick PROVE StoresInv'
<1>1. DOMAIN tasks' = DOMAIN tasks /\ UNCHANGED <<permits, line>>
    BY DEF Tick, hostVars
<1>2. ASSUME NEW m \in DOMAIN tasks PROVE tasks'[m].at = tasks[m].at /\ tasks'[m].phase = tasks[m].phase
    <2>1. tasks[m] \in Task
        BY DEF CallInv, Types
    <2>2. tasks'[m] = tasks[m] \/ tasks'[m] = [tasks[m] EXCEPT !.left = @ - 1]
        BY DEF Tick
    <2> QED
        BY <2>1, <2>2 DEF Task
<1>3. \A m \in DOMAIN tasks : (Timed(m) => Timed(m)') /\ (tasks'[m].phase \in {"inside", "calling"} => HasStore(m))
    BY <1>2 DEF Timed, StoresInv, InsideHolds
<1> QED
    BY <1>1, <1>2, <1>3, LinesStay

\* Every step keeps it.
LEMMA StoresNext == CallInv /\ StoresInv /\ [Next]_vars => StoresInv'
<1> SUFFICES ASSUME CallInv, StoresInv, [Next]_vars PROVE StoresInv'
    OBVIOUS
<1>1. CASE \E c \in Calls, i \in Interfaces : CallIn(c, i) \/ Ask(c, i)
    BY <1>1, StillStanding DEF CallIn, Ask, hostVars
<1>2. CASE \E c \in Calls : Hear(c) \/ RequestFails(c) \/ Retry(c) \/ Timeout(c)
    BY <1>2, StillStanding DEF Hear, RequestFails, Retry, Timeout, hostVars
<1>3. CASE \E r \in requests : Route(r) \/ RouteNowhere(r)
    BY <1>3, StillStanding DEF Route, RouteNowhere, hostVars
<1>4. CASE \E a \in Adapters : Serve(a) \/ Drop(a)
    BY <1>4, StillStanding DEF Serve, Drop, hostVars
<1>5. CASE \E a \in Adapters : Take(a) \/ Crash(a)
    BY <1>5, TakeKeepsStores, CrashKeepsStores
<1>6. ASSUME NEW m \in DOMAIN tasks,
             \/ Refuse(m) \/ CannotEnter(m) \/ Trap(m) \/ CallFails(m) \/ Expire(m)
             \/ \E verdict \in {"ok", "internal"} : Return(m, verdict)
      PROVE  StoresInv'
    BY <1>6, SayingKeepsStores
<1>7. ASSUME NEW m \in DOMAIN tasks,
             \/ Dispatch(m) \/ Enter(m) \/ CallReturns(m) \/ Publish(m)
             \/ \E c \in Calls, i \in Interfaces : CallOut(m, c, i)
      PROVE  StoresInv'
    BY <1>7, DispatchKeepsStores, GoOnKeepsStores, PublishKeepsStores
<1>8. CASE Tick
    BY <1>8, TickKeepsStores
<1>9. CASE UNCHANGED vars
    BY <1>9, StillStanding DEF vars, hostVars
<1> QED
    BY <1>1, <1>2, <1>3, <1>4, <1>5, <1>6, <1>7, <1>8, <1>9 DEF Next

\* Permits and stores are with those who have them, and with nobody else.
LEMMA StoresInvariant == Spec => []StoresInv
<1> QED
    BY StoresInit, StoresNext, CallInvariant, PTL DEF Spec

\* However a task ends, refused, answered, trapped, out of time or with its
\* process, and whatever the other tasks of the adapter are doing: its permit
\* comes back (run of nats-serve lib.rs), nobody is inside a component without
\* its store, and nobody who has gone stands in line for one.
THEOREM PermitsAndStoresComeBack == Spec => []NothingIsLost
<1>1. StoresInv => NothingIsLost
    BY DEF StoresInv, PermitsAddUp, At, InsideHolds, LinesAreOfTasks, InLine, NothingIsLost
<1> QED
    BY <1>1, StoresInvariant, PTL

-----------------------------------------------------------------------------
(* Deadlines.                                                              *)

\* The request of a call that waits says the whole deadline, until it is taken;
\* from there on its task has as much left as the call.
Spare(m) == Timed(m) \/ tasks[m].phase = "taken"
InTime(m) ==
    calls[m.call].phase = "waiting" /\ Attempt(m.call) = m /\ Spare(m) =>
        tasks[m].left # Nothing /\ tasks[m].left >= Deadline - calls[m.call].age

InFull(r) == calls[r.id.call].phase = "waiting" => r.deadline = Deadline
RequestsSay == \A r \in requests : InFull(r)
InboxesSay == \A a \in Adapters : \A k \in DOMAIN inbox[a] : InFull(inbox[a][k])
GiveInv == RequestsSay /\ InboxesSay /\ \A m \in DOMAIN tasks : InTime(m)

\* A task goes on with what it has left, and its call neither ages nor begins
\* to wait.
LEMMA InTimeStays ==
    ASSUME NEW m, InTime(m), tasks'[m].left = tasks[m].left, Spare(m)' => Spare(m),
           calls'[m.call] = calls[m.call] \/ calls'[m.call].phase # "waiting"
    PROVE  InTime(m)'
BY DEF InTime, Attempt

LEMMA QueuedIsCall ==
    ASSUME CallInv, NEW a \in Adapters, NEW k \in DOMAIN inbox[a] PROVE inbox[a][k].id.call \in Calls
<1>1. inbox[a] \in Seq(Request)
    BY DEF CallInv, Types
<1>2. inbox[a][k] \in Request
    BY <1>1
<1> QED
    BY <1>2 DEF Request, Message

\* Calls end, and tasks answer, go on or go.
LEMMA TimeStays ==
    ASSUME CallInv, GiveInv,
           requests' \subseteq requests,
           \A a \in Adapters : \A k \in DOMAIN inbox'[a] : \E l \in DOMAIN inbox[a] : inbox'[a][k] = inbox[a][l],
           \A m \in DOMAIN tasks' : /\ m \in DOMAIN tasks
                                    /\ tasks'[m].left = tasks[m].left
                                    /\ Spare(m)' => Spare(m),
           \A c \in Calls : calls'[c] = calls[c] \/ calls'[c].phase # "waiting"
    PROVE  GiveInv'
<1>1. RequestsSay'
    BY DEF GiveInv, RequestsSay, InFull, CallInv, Types, Request, Message
<1>2. InboxesSay'
    <2> SUFFICES ASSUME NEW a \in Adapters, NEW k \in DOMAIN inbox'[a] PROVE InFull(inbox[a][k])'
        BY DEF InboxesSay
    <2>1. PICK l \in DOMAIN inbox[a] : inbox'[a][k] = inbox[a][l]
        OBVIOUS
    <2>2. inbox[a][l].id.call \in Calls
        BY QueuedIsCall
    <2> QED
        BY <2>1, <2>2 DEF GiveInv, InboxesSay, InFull
<1>3. ASSUME NEW m \in DOMAIN tasks' PROVE InTime(m)'
    <2>1. m \in DOMAIN tasks /\ m.call \in Calls
        BY DEF CallInv, Types, Message
    <2> QED
        BY <2>1, InTimeStays DEF GiveInv
<1> QED
    BY <1>1, <1>2, <1>3 DEF GiveInv

\* A request is sent for a call that no task is of.
LEMMA SendInTime ==
    ASSUME CallInv, GiveInv, NEW c \in Calls, Untouched(c),
           NEW p, requests' = requests \cup {p}, InFull(p)',
           \A d \in Calls : d # c => calls'[d] = calls[d],
           UNCHANGED inbox, DOMAIN tasks' = DOMAIN tasks,
           \A m \in DOMAIN tasks : tasks'[m].left = tasks[m].left /\ (Spare(m)' => Spare(m))
    PROVE  GiveInv'
<1>1. RequestsSay'
    <2> SUFFICES ASSUME NEW r \in requests PROVE InFull(r)'
        BY DEF RequestsSay
    <2>1. r.id.call \in Calls /\ r.id.call # c
        BY DEF CallInv, Types, Request, Message, Untouched, Sent
    <2> QED
        BY <2>1 DEF GiveInv, RequestsSay, InFull
<1>2. InboxesSay'
    <2> SUFFICES ASSUME NEW a \in Adapters, NEW k \in DOMAIN inbox[a] PROVE InFull(inbox[a][k])'
        BY DEF InboxesSay
    <2>1. inbox[a][k].id.call \in Calls /\ inbox[a][k].id.call # c
        BY QueuedIsCall DEF Untouched, Queued
    <2> QED
        BY <2>1 DEF GiveInv, InboxesSay, InFull
<1>3. ASSUME NEW m \in DOMAIN tasks' PROVE InTime(m)'
    <2>1. m \in DOMAIN tasks /\ m.call \in Calls /\ m.call # c
        BY DEF CallInv, Types, Message, Untouched, Answering
    <2> QED
        BY <2>1, InTimeStays DEF GiveInv
<1> QED
    BY <1>1, <1>2, <1>3 DEF GiveInv

\* The proxy, the server, and what stops: no task changes.
LEMMA ProxyInTime ==
    ASSUME CallInv, GiveInv, UNCHANGED <<tasks, inbox>>,
           \/ \E c \in Calls, i \in Interfaces : CallIn(c, i) \/ Ask(c, i)
           \/ \E c \in Calls : Hear(c) \/ RequestFails(c) \/ Retry(c) \/ Timeout(c)
    PROVE  GiveInv'
<1>1. \A m \in DOMAIN tasks' : m \in DOMAIN tasks /\ tasks'[m].left = tasks[m].left /\ (Spare(m)' => Spare(m))
    BY DEF Spare, Timed
<1>2. calls \in [Calls -> Call]
    BY DEF CallInv, Types
<1>3. ASSUME NEW c \in Calls, NEW v, End(c, v), requests' = requests PROVE GiveInv'
    <2>1. \A d \in Calls : calls'[d] = calls[d] \/ calls'[d].phase # "waiting"
        BY <1>2, <1>3 DEF End, Ended, NoCall
    <2> QED
        BY <1>1, <1>3, <2>1, TimeStays
<1>4. ASSUME NEW c \in Calls, NEW i \in Interfaces, CallIn(c, i) PROVE GiveInv'
    <2>1. Untouched(c)
        BY <1>4 DEF CallIn, Begin, IsNext, CallInv, CallTells, Tells
    <2>2. requests' = requests \cup {Payload([call |-> c, attempt |-> 0], i)} /\ \A d \in Calls : d # c => calls'[d] = calls[d]
        BY <1>2, <1>4 DEF CallIn, Begin
    <2> QED
        BY <1>1, <2>1, <2>2, SendInTime DEF InFull, Payload
<1>8. ASSUME NEW c \in Calls, NEW i \in Interfaces, Ask(c, i) PROVE GiveInv'
    <2>1. Untouched(c)
        BY <1>8 DEF Ask, IsNext, CallInv, CallTells, Tells
    <2>2. /\ requests' = requests \cup {Unlimited([call |-> c, attempt |-> 0], i)}
          /\ \A d \in Calls : d # c => calls'[d] = calls[d]
          /\ calls'[c].phase = "dropped"
        BY <1>2, <1>8 DEF Ask, NoCall
    <2> QED
        BY <1>1, <2>1, <2>2, SendInTime DEF InFull, Unlimited
<1>5. ASSUME NEW c \in Calls, Hear(c) PROVE GiveInv'
    <2>1. requests' = requests
        BY <1>5 DEF Hear
    <2>2. (\E v : End(c, v)) \/ HearNobody(c)
        BY <1>5 DEF Hear, HearReply
    <2>3. CASE HearNobody(c) /\ ~\E v : End(c, v)
        <3>1. \A d \in Calls : calls'[d] = calls[d] \/ calls'[d].phase # "waiting"
            BY <1>2, <2>3 DEF HearNobody, Call
        <3> QED
            BY <1>1, <2>1, <3>1, TimeStays
    <2> QED
        BY <1>3, <2>1, <2>2, <2>3
<1>6. ASSUME NEW c \in Calls, RequestFails(c) \/ Timeout(c) PROVE GiveInv'
    <2>1. \E v : End(c, v) /\ requests' = requests
        BY <1>6 DEF RequestFails, Timeout, GiveUp
    <2> QED
        BY <1>3, <2>1
<1>7. ASSUME NEW c \in Calls, Retry(c) PROVE GiveInv'
    <2>1. CASE End(c, "deadline-exceeded") /\ UNCHANGED requests
        BY <1>3, <2>1
    <2>2. CASE Resend(c)
        <3>1. Untouched(c)
            BY <1>7 DEF Retry, CallInv, CallTells, Tells
        <3>2. /\ requests' = requests \cup {Payload([call |-> c, attempt |-> 1], calls[c].to)}
              /\ \A d \in Calls : d # c => calls'[d] = calls[d]
            BY <1>2, <2>2 DEF Resend
        <3> QED
            BY <1>1, <3>1, <3>2, SendInTime DEF InFull, Payload
    <2> QED
        BY <1>7, <2>1, <2>2 DEF Retry
<1> QED
    BY <1>4, <1>5, <1>6, <1>7, <1>8

\* A request is handed over as it was sent.
LEMMA RouteInTime == ASSUME CallInv, GiveInv, NEW r \in requests, Route(r) PROVE GiveInv'
<1>1. PICK a \in Adapters : inbox' = [inbox EXCEPT ![a] = Append(@, r)]
    BY DEF Route, Group
<1>2. UNCHANGED <<calls, tasks>> /\ requests' = requests \ {r}
    BY DEF Route, hostVars
<1>3. r \in Request /\ inbox \in [Adapters -> Seq(Request)] /\ inbox[a] \in Seq(Request)
    BY DEF CallInv, Types
<1>4. inbox'[a] = Append(inbox[a], r) /\ \A b \in Adapters : b # a => inbox'[b] = inbox[b]
    BY <1>1, <1>3
<1>5. RequestsSay' /\ InFull(r)'
    BY <1>2 DEF GiveInv, RequestsSay, InFull
<1>6. InboxesSay'
    <2> SUFFICES ASSUME NEW b \in Adapters, NEW k \in DOMAIN inbox'[b] PROVE InFull(inbox[b][k])'
        BY DEF InboxesSay
    <2>1. CASE b = a
        <3>1. inbox'[a][k] = r \/ (k \in DOMAIN inbox[a] /\ inbox'[a][k] = inbox[a][k])
            BY <1>3, <1>4, <2>1, AppendTells
        <3> QED
            BY <1>2, <1>5, <2>1, <3>1 DEF GiveInv, InboxesSay, InFull
    <2>2. CASE b # a
        BY <1>2, <1>4, <2>2 DEF GiveInv, InboxesSay, InFull
    <2> QED
        BY <2>1, <2>2
<1>7. \A m \in DOMAIN tasks' : InTime(m)'
    BY <1>2 DEF GiveInv, InTime, Spare, Timed, Attempt
<1> QED
    BY <1>5, <1>6, <1>7 DEF GiveInv

\* A task has, when it is taken, what its request says.
LEMMA TakeInTime == ASSUME CallInv, GiveInv, NEW a \in Adapters, Take(a) PROVE GiveInv'
<1> DEFINE r == Head(inbox[a])
           t == [at |-> a, phase |-> "taken", left |-> r.deadline, waits |-> Nothing, verdict |-> Nothing]
<1>1. inbox \in [Adapters -> Seq(Request)] /\ inbox[a] \in Seq(Request) /\ inbox[a] # << >> /\ calls \in [Calls -> Call]
    BY DEF Take, TakeNext, CallInv, Types
<1>2. 1 \in DOMAIN inbox[a] /\ r = inbox[a][1] /\ r \in Request
    BY <1>1
<1>3. /\ tasks' = [n \in (DOMAIN tasks) \cup {r.id} |-> IF n = r.id THEN t ELSE tasks[n]]
      /\ inbox' = [inbox EXCEPT ![a] = Tail(@)]
      /\ UNCHANGED <<calls, requests>>
    BY DEF Take, TakeNext, WithTask, proxyVars
<1>4. (calls[r.id.call].phase = "waiting" => r.deadline = Deadline) /\ Deadline \in Nat
    BY <1>2, RemoteAssumption DEF GiveInv, InboxesSay, InFull
<1>5. RequestsSay'
    BY <1>3 DEF GiveInv, RequestsSay, InFull
<1>6. InboxesSay'
    <2> SUFFICES ASSUME NEW b \in Adapters, NEW k \in DOMAIN inbox'[b] PROVE InFull(inbox[b][k])'
        BY DEF InboxesSay
    <2>1. inbox'[b] = IF b = a THEN Tail(inbox[a]) ELSE inbox[b]
        BY <1>1, <1>3
    <2>2. \E l \in DOMAIN inbox[b] : inbox'[b][k] = inbox[b][l]
        <3>1. CASE b = a
            <4>1. k \in 1..(Len(inbox[a]) - 1) /\ Tail(inbox[a])[k] = inbox[a][k + 1]
                BY <1>1, <2>1, <3>1
            <4>2. k + 1 \in DOMAIN inbox[a]
                BY <1>1, <4>1
            <4> QED
                BY <2>1, <3>1, <4>1, <4>2
        <3> QED
            BY <2>1, <3>1
    <2> QED
        BY <1>3, <2>2 DEF GiveInv, InboxesSay, InFull
<1>7. ASSUME NEW m \in DOMAIN tasks' PROVE InTime(m)'
    <2>1. CASE m = r.id
        <3>1. m.call \in Calls /\ calls[m.call].age \in Nat
            BY <1>1, <1>2, <2>1 DEF Request, Message, Call
        <3>2. calls[m.call].phase = "waiting" => tasks'[m].left = Deadline
            BY <1>3, <1>4, <2>1
        <3> QED
            BY <1>3, <1>4, <3>1, <3>2, NothingAssumption DEF InTime
    <2>2. CASE m # r.id
        <3>1. m \in DOMAIN tasks /\ tasks'[m] = tasks[m]
            BY <1>3, <2>2
        <3> QED
            BY <1>3, <3>1 DEF GiveInv, InTime, Spare, Timed, Attempt
    <2> QED
        BY <2>1, <2>2
<1> QED
    BY <1>5, <1>6, <1>7 DEF GiveInv

\* A task answers, or goes on, with what it has left.
LEMMA TaskInTime ==
    ASSUME CallInv, GiveInv, NEW m \in DOMAIN tasks,
           \/ Refuse(m) \/ CannotEnter(m) \/ Trap(m) \/ CallFails(m) \/ Expire(m)
           \/ \E verdict \in {"ok", "internal"} : Return(m, verdict)
           \/ Dispatch(m) \/ Enter(m) \/ CallReturns(m)
    PROVE  GiveInv'
<1>1. requests' = requests /\ inbox' = inbox
    BY DEF Refuse, CannotEnter, Trap, TrapIn, CallFails, Expire, Return, Dispatch, Enter, CallReturns, proxyVars
<1>2. tasks[m] \in Task
    BY DEF CallInv, Types
<1>3. PICK t : tasks' = [tasks EXCEPT ![m] = t] /\ t.left = tasks[m].left /\ (t.phase \in {"locking", "inside"} => Spare(m))
    <2>1. CASE \E v : Answer(m, v)
        <3>1. PICK v : Answer(m, v)
            BY <2>1
        <3> DEFINE u == [tasks[m] EXCEPT !.phase = "replying", !.waits = Nothing, !.verdict = v]
        <3>2. u.left = tasks[m].left /\ u.phase = "replying"
            BY <1>2 DEF Task
        <3>3. tasks' = [tasks EXCEPT ![m] = u]
            BY <3>1 DEF Answer
        <3> HIDE DEF u
        <3> QED
            BY <3>2, <3>3
    <2>2. CASE Dispatch(m)
        BY <1>2, <2>2 DEF Dispatch, Become, Task, Spare
    <2>3. CASE Enter(m)
        BY <1>2, <2>3 DEF Enter, Become, Task, Spare, Timed
    <2>4. CASE CallReturns(m)
        BY <1>2, <2>4 DEF CallReturns, Task, Spare, Timed
    <2> QED
        BY <2>1, <2>2, <2>3, <2>4 DEF Refuse, CannotEnter, Trap, TrapIn, CallFails, Expire, Return
<1>4. t.phase \in {"replying", "locking", "inside"}
    BY <1>2, <1>3 DEF Refuse, CannotEnter, Trap, TrapIn, CallFails, Expire, Return, Dispatch, Enter, CallReturns, Answer, Become, Task
<1>5. \A n \in DOMAIN tasks' : n \in DOMAIN tasks /\ tasks'[n].left = tasks[n].left /\ (Spare(n)' => Spare(n))
    <2> TAKE n \in DOMAIN tasks'
    <2>1. n \in DOMAIN tasks /\ tasks'[n] = IF n = m THEN t ELSE tasks[n]
        BY <1>3
    <2> QED
        BY <1>3, <1>4, <2>1 DEF Spare, Timed
<1>6. \A c \in Calls : calls'[c] = calls[c] \/ calls'[c].phase # "waiting"
    BY DEF Refuse, CannotEnter, Trap, TrapIn, CallFails, Expire, Return, Dispatch, Enter, CallReturns, proxyVars, NoCall
<1> QED
    BY <1>1, <1>5, <1>6, TimeStays

\* A component that calls out begins a call; its own task goes on.
LEMMA CallOutInTime ==
    ASSUME CallInv, GiveInv, NEW m \in DOMAIN tasks, NEW c \in Calls, NEW i \in Interfaces, CallOut(m, c, i)
    PROVE  GiveInv'
<1> DEFINE t == [tasks[m] EXCEPT !.phase = "calling", !.waits = c]
<1>1. tasks[m] \in Task /\ calls \in [Calls -> Call] /\ Untouched(c)
    BY DEF CallInv, Types, CallOut, Begin, IsNext, CallTells, Tells
<1>2. t.left = tasks[m].left /\ t.phase = "calling" /\ Spare(m)
    BY <1>1 DEF Task, CallOut, Spare, Timed
<1>3. tasks' = [tasks EXCEPT ![m] = t] /\ UNCHANGED inbox
    BY DEF CallOut
<1>4. requests' = requests \cup {Payload([call |-> c, attempt |-> 0], i)} /\ \A d \in Calls : d # c => calls'[d] = calls[d]
    BY <1>1 DEF CallOut, Begin
<1> HIDE DEF t
<1>5. DOMAIN tasks' = DOMAIN tasks /\ \A n \in DOMAIN tasks : tasks'[n] = IF n = m THEN t ELSE tasks[n]
    BY <1>3
<1>6. \A n \in DOMAIN tasks : tasks'[n].left = tasks[n].left /\ (Spare(n)' => Spare(n))
    BY <1>2, <1>5 DEF Spare, Timed
<1> QED
    BY <1>1, <1>3, <1>4, <1>5, <1>6, SendInTime DEF InFull, Payload

\* What is lost, or is gone, gives nothing up.
LEMMA GoneInTime ==
    ASSUME CallInv, GiveInv,
           \/ \E r \in requests : RouteNowhere(r)
           \/ \E a \in Adapters : Serve(a) \/ Drop(a) \/ Crash(a)
           \/ \E m \in DOMAIN tasks : Publish(m)
           \/ UNCHANGED vars
    PROVE  GiveInv'
<1>1. requests' \subseteq requests
    BY DEF RouteNowhere, Serve, Drop, Crash, Publish, vars, proxyVars
<1>2. \A a \in Adapters : \A k \in DOMAIN inbox'[a] : \E l \in DOMAIN inbox[a] : inbox'[a][k] = inbox[a][l]
    <2>1. inbox' = inbox \/ \E a \in Adapters : inbox' = [inbox EXCEPT ![a] = << >>]
        BY DEF RouteNowhere, Serve, Drop, Crash, Publish, vars
    <2> QED
        BY <2>1 DEF CallInv, Types
<1>3. \A m \in DOMAIN tasks' : m \in DOMAIN tasks /\ tasks'[m] = tasks[m]
    <2>1. \/ tasks' = tasks
          \/ \E m \in DOMAIN tasks : Publish(m)
          \/ \E a \in Adapters : Crash(a)
        BY DEF RouteNowhere, Serve, Drop, vars
    <2>2. ASSUME NEW m \in DOMAIN tasks, Publish(m)
          PROVE  \A n \in DOMAIN tasks' : n \in DOMAIN tasks /\ tasks'[n] = tasks[n]
        BY <2>2 DEF Publish
    <2>3. ASSUME NEW a \in Adapters, Crash(a)
          PROVE  \A n \in DOMAIN tasks' : n \in DOMAIN tasks /\ tasks'[n] = tasks[n]
        BY <2>3 DEF Crash
    <2> QED
        BY <2>1, <2>2, <2>3
<1>4. \A m \in DOMAIN tasks' : m \in DOMAIN tasks /\ tasks'[m].left = tasks[m].left /\ (Spare(m)' => Spare(m))
    BY <1>3 DEF Spare, Timed
<1>5. \A c \in Calls : calls'[c] = calls[c] \/ calls'[c].phase # "waiting"
    <2>1. calls' = calls \/ \E a \in Adapters : Crash(a)
        BY DEF RouteNowhere, Serve, Drop, Publish, vars, proxyVars
    <2>2. ASSUME NEW a \in Adapters, Crash(a)
          PROVE  \A c \in Calls : calls'[c] = calls[c] \/ calls'[c] = [NoCall EXCEPT !.phase = "dropped"]
        BY <2>2 DEF Crash
    <2>3. [NoCall EXCEPT !.phase = "dropped"].phase # "waiting"
        BY DEF NoCall
    <2> QED
        BY <2>1, <2>2, <2>3
<1> QED
    BY <1>1, <1>2, <1>4, <1>5, TimeStays

\* Time passes alike for a task and for the call that waits for it: while the
\* task waits for the runtime it loses nothing, and it is not out of time yet.
LEMMA TickInTime == ASSUME CallInv, GiveInv, Tick PROVE GiveInv'
<1>1. UNCHANGED <<requests, inbox>> /\ DOMAIN tasks' = DOMAIN tasks
    BY DEF Tick
<1>2. ASSUME NEW c \in Calls
      PROVE  /\ calls'[c].phase = calls[c].phase /\ calls'[c].attempt = calls[c].attempt
             /\ calls[c].phase = "waiting" => calls'[c].age = calls[c].age + 1
    <2>1. calls[c] \in Call /\ calls'[c] = IF Active(c) THEN [calls[c] EXCEPT !.age = @ + 1] ELSE calls[c]
        BY DEF CallInv, Types, Tick
    <2> QED
        BY <2>1 DEF Active, Call
<1>3. RequestsSay'
    <2>1. \A r \in requests : r.id.call \in Calls
        BY DEF CallInv, Types, Request, Message
    <2> QED
        BY <1>1, <1>2, <2>1 DEF GiveInv, RequestsSay, InFull
<1>4. InboxesSay'
    <2> SUFFICES ASSUME NEW a \in Adapters, NEW k \in DOMAIN inbox[a] PROVE InFull(inbox[a][k])'
        BY <1>1 DEF InboxesSay
    <2>1. inbox[a][k].id.call \in Calls
        BY QueuedIsCall
    <2> QED
        BY <1>1, <1>2, <2>1 DEF GiveInv, InboxesSay, InFull
<1>5. ASSUME NEW m \in DOMAIN tasks' PROVE InTime(m)'
    <2> DEFINE c == m.call
    <2>1. m \in DOMAIN tasks /\ c \in Calls /\ tasks[m] \in Task /\ calls[c] \in Call
        BY <1>1 DEF CallInv, Types, Message
    <2>2. tasks[m].left \in Nat \cup {Nothing} /\ calls[c].age \in Nat /\ Deadline \in Nat
        BY <2>1, RemoteAssumption DEF Task, Call
    <2>3. tasks'[m] = IF Timed(m) /\ tasks[m].left \notin {0, Nothing} THEN [tasks[m] EXCEPT !.left = @ - 1] ELSE tasks[m]
        BY <2>1 DEF Tick
    <2>4. tasks'[m].phase = tasks[m].phase
        BY <2>1, <2>3 DEF Task
    <2>5. \/ tasks'[m].left = tasks[m].left
          \/ tasks[m].left # Nothing /\ tasks'[m].left = tasks[m].left - 1
        BY <2>1, <2>3 DEF Task
    <2>6. (Spare(m)' <=> Spare(m)) /\ (Attempt(c)' = m <=> Attempt(c) = m)
        BY <1>2, <2>1, <2>4 DEF Spare, Timed, Attempt
    <2>7. ASSUME calls'[c].phase = "waiting", Attempt(c)' = m, Spare(m)'
          PROVE  tasks'[m].left # Nothing /\ tasks'[m].left >= Deadline - calls'[c].age
        <3>1. tasks[m].left # Nothing /\ tasks[m].left >= Deadline - calls[c].age
            BY <1>2, <2>1, <2>6, <2>7 DEF GiveInv, InTime
        <3>2. calls'[c].age = calls[c].age + 1
            BY <1>2, <2>1, <2>7
        <3>3. tasks[m].left \in Nat
            BY <2>2, <3>1
        <3>4. tasks'[m].left # Nothing
            <4>1. CASE tasks'[m].left = tasks[m].left
                BY <3>1, <4>1
            <4>2. CASE tasks'[m].left = tasks[m].left - 1 /\ tasks'[m].left # tasks[m].left
                <5>1. tasks[m].left # 0
                    BY <2>1, <2>3, <4>2
                <5>2. tasks'[m].left \in Nat
                    BY <3>3, <4>2, <5>1
                <5> QED
                    BY <5>2, NothingAssumption
            <4> QED
                BY <2>5, <4>1, <4>2
        <3> QED
            BY <2>2, <2>5, <3>1, <3>2, <3>3, <3>4
    <2> QED
        BY <2>7 DEF InTime
<1> QED
    BY <1>3, <1>4, <1>5 DEF GiveInv

\* Every step keeps it.
LEMMA GiveNext == CallInv /\ GiveInv /\ [Next]_vars => GiveInv'
<1> SUFFICES ASSUME CallInv, GiveInv, [Next]_vars PROVE GiveInv'
    OBVIOUS
<1>1. CASE \E c \in Calls, i \in Interfaces : CallIn(c, i) \/ Ask(c, i)
    BY <1>1, ProxyInTime DEF CallIn, Ask
<1>2. CASE \E c \in Calls : Hear(c) \/ RequestFails(c) \/ Retry(c) \/ Timeout(c)
    BY <1>2, ProxyInTime DEF Hear, RequestFails, Retry, Timeout
<1>3. CASE \E r \in requests : Route(r) \/ RouteNowhere(r)
    BY <1>3, RouteInTime, GoneInTime
<1>4. CASE \E a \in Adapters : Serve(a) \/ Drop(a) \/ Take(a) \/ Crash(a)
    BY <1>4, TakeInTime, GoneInTime
<1>5. ASSUME NEW m \in DOMAIN tasks,
             \/ Refuse(m) \/ Dispatch(m) \/ Enter(m) \/ CannotEnter(m)
             \/ \E verdict \in {"ok", "internal"} : Return(m, verdict)
             \/ Trap(m)
             \/ \E c \in Calls, i \in Interfaces : CallOut(m, c, i)
             \/ CallReturns(m) \/ CallFails(m) \/ Expire(m) \/ Publish(m)
      PROVE  GiveInv'
    BY <1>5, TaskInTime, CallOutInTime, GoneInTime
<1>6. CASE Tick
    BY <1>6, TickInTime
<1>7. CASE UNCHANGED vars
    BY <1>7, GoneInTime
<1> QED
    BY <1>1, <1>2, <1>3, <1>4, <1>5, <1>6, <1>7 DEF Next

\* Nobody calls, so nobody waits.
LEMMA GiveInit == Init => GiveInv
<1> SUFFICES ASSUME Init PROVE GiveInv
    OBVIOUS
<1>1. DOMAIN tasks = {} /\ requests = {} /\ \A a \in Adapters : inbox[a] = << >>
    BY DEF Init
<1> QED
    BY <1>1 DEF GiveInv, RequestsSay, InboxesSay

\* A provider never gives a call up before its caller does, however long the
\* request was on its way, in an inbox, or in line for the store: dispatch of
\* nats-serve (lib.rs) starts the deadline of the request when it comes to it.
THEOREM ProvidersWaitAsLong == Spec => []GivesUpNoSooner
<1>1. GiveInv => GivesUpNoSooner
    BY DEF GiveInv, InTime, Spare, GivesUpNoSooner
<1>2. Spec => []GiveInv
    BY GiveInit, GiveNext, CallInvariant, PTL DEF Spec
<1> QED
    BY <1>1, <1>2, PTL
=============================================================================
