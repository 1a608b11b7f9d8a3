----------------------------- MODULE RemoteCalls -----------------------------
(***************************************************************************)
(* Calls between hosts: the proxy an import is linked to                   *)
(* (crates/nats-link/src/lib.rs), the adapter that serves the exports of a *)
(* component (crates/nats-serve/src/lib.rs), and NATS between them.        *)
(*                                                                         *)
(* An adapter serves one interface of a component that has a store of its  *)
(* own, so the store is one mutex: line lists the tasks that ask for it,   *)
(* first the one that has it.  A component that runs may call through a    *)
(* proxy again, and so on: hosts can wait for each other.                  *)
(*                                                                         *)
(* A message that is lost is one that stays on its way for ever.  Timers   *)
(* fire on time: the clock waits for those that are due.  They fire where  *)
(* a task waits: a function that computes is interrupted by nothing, since *)
(* the engine has neither epochs nor fuel (crates/host/src/lib.rs:23-27).  *)
(***************************************************************************)
EXTENDS Integers, Sequences, FiniteSets

CONSTANTS
    MaxCalls,     \* bound on the calls that are made
    Adapters, Interfaces,
    Serves,       \* which interface each adapter answers for
    Concurrency,  \* Adapter::concurrency of each
    Deadline,     \* Proxy::deadline, in ticks
    RetryDelay,   \* RETRY_DELAY, in ticks
    Nothing

\* Calls are numbered as they are made.
Calls == 1..MaxCalls

ASSUME RemoteAssumption ==
    /\ MaxCalls \in Nat
    /\ Serves \in [Adapters -> Interfaces]
    /\ Concurrency \in [Adapters -> Nat \ {0}]
    /\ Deadline \in Nat \ {0} /\ RetryDelay \in Nat

VARIABLES
    calls,     \* calls through a proxy
    requests,  \* requests on their way to the server
    replies,   \* what is on its way back
    serving,   \* the subscription of each adapter
    inbox,     \* and the messages in it
    permits,   \* its semaphore
    tasks,     \* the requests it is answering
    line,      \* who has, and who waits for, the store of its component
    poisoned,  \* adapters whose component cannot be entered any more
    runs       \* history: how often a function was run for each call

proxyVars == <<calls, requests>>
hostVars == <<line, poisoned, runs>>
vars == <<proxyVars, replies, serving, inbox, permits, tasks, hostVars>>

\* The verdict on a call: its results, results that are not of its type, or
\* the error code that the proxy or the adapter gives.
Failure == {"not-found", "refused", "deadline-exceeded", "internal"}
Verdict == {"ok", "unreadable"} \cup Failure

ASSUME NothingAssumption == Nothing \notin Verdict /\ Nothing \notin Nat

\* age is the time since round_trip started, wake the age at which the pause
\* before the retry ends.
Call == [phase : {"new", "waiting", "pausing", "ended", "dropped"}, to : Interfaces \cup {Nothing},
         attempt : {0, 1}, age : Nat, wake : Nat, verdict : Verdict \cup {Nothing}]

\* A request; each attempt has a reply subject of its own.  The deadline may be
\* left out.
Message == [call : Calls, attempt : {0, 1}]
Request == [id : Message, to : Interfaces, deadline : Nat \cup {Nothing}]
Reply == [id : Message, says : Verdict \cup {"no-responders"}]

\* left is the time until the deadline of dispatch, if there is one, waits the
\* call that the component has made and waits for.
Task == [at : Adapters, phase : {"taken", "locking", "inside", "calling", "replying"},
         left : Nat \cup {Nothing}, waits : Calls \cup {Nothing}, verdict : Verdict \cup {Nothing}]

NoCall == [phase |-> "new", to |-> Nothing, attempt |-> 0, age |-> 0, wake |-> 0, verdict |-> Nothing]

Active(c) == calls[c].phase \in {"waiting", "pausing"}
Least(a, b) == IF a < b THEN a ELSE b
Attempt(c) == [call |-> c, attempt |-> calls[c].attempt]
WithTask(m, task) == [n \in (DOMAIN tasks) \cup {m} |-> IF n = m THEN task ELSE tasks[n]]

\* A turn is given up, wherever it is.
Without(turns, m) ==
    IF \A k \in DOMAIN turns : turns[k] # m THEN turns
    ELSE LET gone == CHOOSE k \in DOMAIN turns : turns[k] = m
         IN  [k \in 1..(Len(turns) - 1) |-> turns[IF k < gone THEN k ELSE k + 1]]

-----------------------------------------------------------------------------
(* The proxy.                                                              *)

\* Mutant: something is kept back for the way.
PayloadWithSlack(m, i) == [id |-> m, to |-> i, deadline |-> Deadline - 1]

\* invoke: the payload is made once, and says the whole deadline.
Payload(m, i) == [id |-> m, to |-> i, deadline |-> Deadline]

IsNext(c) == calls[c].phase = "new" /\ \A d \in Calls : d < c => calls[d].phase # "new"

\* A call of an import begins, and sends its first request.
Begin(c, i) ==
    /\ IsNext(c)
    /\ calls' = [calls EXCEPT ![c] = [NoCall EXCEPT !.phase = "waiting", !.to = i]]
    /\ requests' = requests \cup {Payload([call |-> c, attempt |-> 0], i)}

\* The client discards a reply that nobody waits for any more.
Awaited(some) == {r \in some : calls'[r.id.call].phase = "waiting" /\ calls'[r.id.call].attempt = r.id.attempt}

Ended(verdict) == [NoCall EXCEPT !.phase = "ended", !.verdict = verdict]
End(c, verdict) == calls' = [calls EXCEPT ![c] = Ended(verdict)]

\* Nobody was listening: once, the proxy pauses and tries again.
HearNobody(c) ==
    \/ /\ calls[c].attempt = 0
       /\ calls' = [calls EXCEPT ![c].phase = "pausing", ![c].wake = calls[c].age + Least(RetryDelay, Deadline)]
    \/ /\ calls[c].attempt = 1
       /\ End(c, "not-found")

\* The reply is decoded, and so are the results in it; either may fail.
HearReply(c, says) ==
    \/ End(c, says)
    \/ says = "ok" /\ End(c, "unreadable")

Hear(c) ==
    /\ calls[c].phase = "waiting"
    /\ \E r \in replies :
          /\ r.id = Attempt(c)
          /\ IF r.says = "no-responders" THEN HearNobody(c) ELSE HearReply(c, r.says)
    /\ replies' = Awaited(replies)
    /\ UNCHANGED <<requests, serving, inbox, permits, tasks, hostVars>>

\* Any other error of the client that sends the request, its own timeout for
\* one, is reported as it happened.
RequestFails(c) ==
    /\ calls[c].phase = "waiting"
    /\ End(c, "internal")
    /\ replies' = Awaited(replies)
    /\ UNCHANGED <<requests, serving, inbox, permits, tasks, hostVars>>

Resend(c) ==
    /\ calls' = [calls EXCEPT ![c].phase = "waiting", ![c].attempt = 1]
    /\ requests' = requests \cup {Payload([call |-> c, attempt |-> 1], calls[c].to)}

Retry(c) ==
    /\ calls[c].phase = "pausing" /\ calls[c].age >= calls[c].wake
    /\ \/ calls[c].age < Deadline /\ Resend(c)
       \/ calls[c].age >= Deadline /\ End(c, "deadline-exceeded") /\ UNCHANGED requests
    /\ UNCHANGED <<replies, serving, inbox, permits, tasks, hostVars>>

\* Mutant: running out of time is taken for nobody being there.
GiveUpAsNotFound(c) == End(c, "not-found") /\ UNCHANGED requests

\* Mutant: a request that was not answered in time is sent again.
RetryOnTimeout(c) ==
    \/ calls[c].attempt = 0 /\ Resend(c)
    \/ calls[c].attempt = 1 /\ End(c, "deadline-exceeded") /\ UNCHANGED requests

GiveUp(c) == End(c, "deadline-exceeded") /\ UNCHANGED requests

Timeout(c) ==
    /\ calls[c].phase = "waiting" /\ calls[c].age >= Deadline
    /\ GiveUp(c)
    /\ replies' = Awaited(replies)
    /\ UNCHANGED <<serving, inbox, permits, tasks, hostVars>>

\* A client somewhere calls.
CallIn(c, i) ==
    /\ Begin(c, i)
    /\ UNCHANGED <<replies, serving, inbox, permits, tasks, hostVars>>

\* Somebody who is no proxy speaks the protocol, and gives no deadline.  What
\* becomes of the answer is his own affair: nobody here waits for it.
Unlimited(m, i) == [id |-> m, to |-> i, deadline |-> Nothing]

Ask(c, i) ==
    /\ IsNext(c)
    /\ calls' = [calls EXCEPT ![c] = [NoCall EXCEPT !.phase = "dropped"]]
    /\ requests' = requests \cup {Unlimited([call |-> c, attempt |-> 0], i)}
    /\ UNCHANGED <<replies, serving, inbox, permits, tasks, hostVars>>

-----------------------------------------------------------------------------
(* The server.                                                             *)

\* It hands a request to one subscriber of the queue group, or says that
\* there is none.
Group(i) == {a \in Adapters : serving[a] = "on" /\ Serves[a] = i}

Route(r) ==
    /\ requests' = requests \ {r}
    /\ \E a \in Group(r.to) : inbox' = [inbox EXCEPT ![a] = Append(@, r)]
    /\ UNCHANGED <<calls, replies, serving, permits, tasks, hostVars>>

RouteNowhere(r) ==
    /\ Group(r.to) = {}
    /\ requests' = requests \ {r}
    /\ UNCHANGED <<calls, serving, inbox, permits, tasks, hostVars>>
    /\ replies' = Awaited(replies \cup {[id |-> r.id, says |-> "no-responders"]})

-----------------------------------------------------------------------------
(* The adapter.                                                            *)

\* serve: the subscription starts, with permits of its own.
Serve(a) ==
    /\ serving[a] = "later"
    /\ serving' = [serving EXCEPT ![a] = "on"]
    /\ UNCHANGED <<proxyVars, replies, inbox, permits, tasks, hostVars>>

\* Drop of Served: the messages that were not taken are lost, the tasks go on.
Drop(a) ==
    /\ serving[a] = "on"
    /\ serving' = [serving EXCEPT ![a] = "over"]
    /\ inbox' = [inbox EXCEPT ![a] = <<>>]
    /\ UNCHANGED <<proxyVars, replies, permits, tasks, hostVars>>

\* run: with a permit, the next message becomes a task.
TakeNext(a) ==
    LET r == Head(inbox[a])
    IN  /\ inbox[a] # <<>>
        /\ inbox' = [inbox EXCEPT ![a] = Tail(@)]
        /\ permits' = [permits EXCEPT ![a] = @ - 1]
        /\ tasks' = WithTask(r.id, [at |-> a, phase |-> "taken", left |-> r.deadline,
                                    waits |-> Nothing, verdict |-> Nothing])
        /\ UNCHANGED <<proxyVars, replies, serving, hostVars>>

Take(a) == permits[a] > 0 /\ TakeNext(a)

Become(m, phase) == tasks' = [tasks EXCEPT ![m].phase = phase]

\* Mutant: a task that still waits for the store stays in line.
LeaveStore(m) ==
    line' = IF tasks[m].phase = "locking" THEN line
            ELSE [line EXCEPT ![tasks[m].at] = Without(@, m)]

Leave(m) == line' = [line EXCEPT ![tasks[m].at] = Without(@, m)]

\* What a task has to say; it leaves the store, or the line for it.
Answer(m, verdict) ==
    /\ tasks' = [tasks EXCEPT ![m].phase = "replying", ![m].waits = Nothing, ![m].verdict = verdict]
    /\ Leave(m)

\* dispatch: the request is for another interface, names no function of this
\* one, or its arguments are not of their types.
Refuse(m) ==
    /\ tasks[m].phase = "taken"
    /\ Answer(m, "refused")
    /\ UNCHANGED <<proxyVars, replies, serving, inbox, permits, poisoned, runs>>

\* Or it is for the component: Host::call, under the deadline, if there is one,
\* from here on.
Dispatch(m) ==
    /\ tasks[m].phase = "taken"
    /\ Become(m, "locking")
    /\ line' = [line EXCEPT ![tasks[m].at] = Append(@, m)]
    /\ UNCHANGED <<proxyVars, replies, serving, inbox, permits, poisoned, runs>>

HasStore(m) == line[tasks[m].at] # <<>> /\ Head(line[tasks[m].at]) = m

Enter(m) ==
    /\ tasks[m].phase = "locking" /\ HasStore(m)
    /\ tasks[m].at \notin poisoned
    /\ Become(m, "inside")
    /\ runs' = [runs EXCEPT ![m.call] = @ + 1]
    /\ UNCHANGED <<proxyVars, replies, serving, inbox, permits, line, poisoned>>

\* The component has no such function, or cannot be entered.
CannotEnter(m) ==
    /\ tasks[m].phase = "locking" /\ HasStore(m)
    /\ Answer(m, "internal")
    /\ UNCHANGED <<proxyVars, replies, serving, inbox, permits, poisoned, runs>>

\* The function returns; its results are not always of their types.
Return(m, verdict) ==
    /\ tasks[m].phase = "inside"
    /\ Answer(m, verdict)
    /\ UNCHANGED <<proxyVars, replies, serving, inbox, permits, poisoned, runs>>

TrapIn(m) ==
    /\ Answer(m, "internal")
    /\ poisoned' = poisoned \cup {tasks[m].at}
    /\ UNCHANGED <<proxyVars, replies, serving, inbox, permits, runs>>

Trap(m) == tasks[m].phase = "inside" /\ TrapIn(m)

\* The function calls an import that is linked to a proxy.
CallOut(m, c, i) ==
    /\ tasks[m].phase = "inside"
    /\ Begin(c, i)
    /\ tasks' = [tasks EXCEPT ![m].phase = "calling", ![m].waits = c]
    /\ UNCHANGED <<replies, serving, inbox, permits, hostVars>>

CallReturns(m) ==
    /\ tasks[m].phase = "calling" /\ calls[tasks[m].waits].verdict = "ok"
    /\ tasks' = [tasks EXCEPT ![m].phase = "inside", ![m].waits = Nothing]
    /\ UNCHANGED <<proxyVars, replies, serving, inbox, permits, hostVars>>

\* An error of the proxy traps the component that called.
CallFails(m) ==
    /\ tasks[m].phase = "calling" /\ calls[tasks[m].waits].verdict \notin {"ok", Nothing}
    /\ TrapIn(m)

\* Mutant: the deadline is the function's alone, not the wait's for the store.
ExpiredInside(m) == tasks[m].phase = "calling" /\ tasks[m].left = 0

\* tokio's timeout looks at the clock only when the call it is around waits: a
\* function that computes goes on, and may even return, out of time.
Expired(m) == tasks[m].phase \in {"locking", "calling"} /\ tasks[m].left = 0

\* The deadline of dispatch: the call is dropped where it waits, with the call
\* that it waits for.  Whether the component can be entered again is
\* wasmtime's to say.
Expire(m) ==
    /\ Expired(m)
    /\ Answer(m, "deadline-exceeded")
    /\ calls' = [c \in Calls |-> IF c = tasks[m].waits /\ Active(c)
                                 THEN [NoCall EXCEPT !.phase = "dropped"] ELSE calls[c]]
    /\ replies' = Awaited(replies)
    /\ \/ UNCHANGED poisoned
       \/ tasks[m].phase = "calling" /\ poisoned' = poisoned \cup {tasks[m].at}
    /\ UNCHANGED <<requests, serving, inbox, permits, runs>>

\* Mutant: a call that failed keeps its permit.
GiveBackOnSuccess(m) ==
    permits' = IF tasks[m].verdict = "ok" THEN [permits EXCEPT ![tasks[m].at] = @ + 1] ELSE permits

GiveBack(m) == permits' = [permits EXCEPT ![tasks[m].at] = @ + 1]

\* The reply is published, and the permit given back.
Publish(m) ==
    /\ tasks[m].phase = "replying"
    /\ tasks' = [n \in (DOMAIN tasks) \ {m} |-> tasks[n]]
    /\ GiveBack(m)
    /\ UNCHANGED <<proxyVars, serving, inbox, hostVars>>
    /\ replies' = Awaited(replies \cup {[id |-> m, says |-> tasks[m].verdict]})

\* The process of an adapter dies, and its tasks with it.
Crash(a) ==
    LET dead == {m \in DOMAIN tasks : tasks[m].at = a}
    IN  /\ serving[a] # "over"
        /\ serving' = [serving EXCEPT ![a] = "over"]
        /\ inbox' = [inbox EXCEPT ![a] = <<>>]
        /\ tasks' = [m \in (DOMAIN tasks) \ dead |-> tasks[m]]
        /\ calls' = [c \in Calls |-> IF Active(c) /\ \E m \in dead : tasks[m].waits = c
                                     THEN [NoCall EXCEPT !.phase = "dropped"] ELSE calls[c]]
        /\ replies' = Awaited(replies)
        /\ permits' = [permits EXCEPT ![a] = Concurrency[a]]
        /\ line' = [line EXCEPT ![a] = <<>>]
        /\ poisoned' = poisoned \ {a}
        /\ UNCHANGED <<requests, runs>>

-----------------------------------------------------------------------------
\* When a timer of a call is due.
Due(c) ==
    \/ calls[c].phase = "waiting" /\ calls[c].age >= Deadline
    \/ calls[c].phase = "pausing" /\ calls[c].age >= calls[c].wake

\* The deadline of dispatch runs from Host::call on.
Timed(m) == tasks[m].phase \in {"locking", "inside", "calling"}

Tick ==
    /\ \/ \E c \in Calls : Active(c)
       \/ \E m \in DOMAIN tasks : Timed(m)
    /\ \A c \in Calls : ~Due(c)
    /\ \A m \in DOMAIN tasks : ~Expired(m)
    /\ calls' = [c \in Calls |-> IF Active(c) THEN [calls[c] EXCEPT !.age = @ + 1] ELSE calls[c]]
    /\ tasks' = [m \in DOMAIN tasks |-> IF Timed(m) /\ tasks[m].left \notin {0, Nothing} THEN [tasks[m] EXCEPT !.left = @ - 1] ELSE tasks[m]]
    /\ UNCHANGED <<requests, replies, serving, inbox, permits, hostVars>>

Init ==
    /\ calls = [c \in Calls |-> NoCall]
    /\ requests = {} /\ replies = {}
    /\ serving = [a \in Adapters |-> "later"]
    /\ inbox = [a \in Adapters |-> <<>>]
    /\ permits = Concurrency
    /\ tasks = [m \in {} |-> Nothing]
    /\ line = [a \in Adapters |-> <<>>]
    /\ poisoned = {}
    /\ runs = [c \in Calls |-> 0]

Next ==
    \/ \E c \in Calls, i \in Interfaces : CallIn(c, i) \/ Ask(c, i)
    \/ \E c \in Calls : Hear(c) \/ RequestFails(c) \/ Retry(c) \/ Timeout(c)
    \/ \E r \in requests : Route(r) \/ RouteNowhere(r)
    \/ \E a \in Adapters : Serve(a) \/ Drop(a) \/ Take(a) \/ Crash(a)
    \/ \E m \in DOMAIN tasks :
          \/ Refuse(m) \/ Dispatch(m) \/ Enter(m) \/ CannotEnter(m)
          \/ \E verdict \in {"ok", "internal"} : Return(m, verdict)
          \/ Trap(m)
          \/ \E c \in Calls, i \in Interfaces : CallOut(m, c, i)
          \/ CallReturns(m) \/ CallFails(m) \/ Expire(m) \/ Publish(m)
    \/ Tick

Spec == Init /\ [][Next]_vars

\* What the runtimes do by themselves: a task that can go on gets a thread, and
\* the lock of a store goes to who is first in line.  Nothing is assumed of NATS,
\* of guests, which may compute for ever, or of who serves.
Fairness ==
    /\ WF_vars(Tick)
    /\ \A c \in Calls : WF_vars(Retry(c)) /\ WF_vars(Timeout(c))
    /\ \A c \in Calls, k \in {0, 1} :
          LET m == [call |-> c, attempt |-> k]
          IN  /\ WF_vars(m \in DOMAIN tasks /\ (Refuse(m) \/ Dispatch(m)))
              /\ WF_vars(m \in DOMAIN tasks /\ (Enter(m) \/ CannotEnter(m)))
              /\ WF_vars(m \in DOMAIN tasks /\ (CallReturns(m) \/ CallFails(m)))
              /\ WF_vars(m \in DOMAIN tasks /\ Expire(m))
              /\ WF_vars(m \in DOMAIN tasks /\ Publish(m))

FairSpec == Spec /\ Fairness

-----------------------------------------------------------------------------
(* Properties.                                                             *)

\* A call runs its function once at most, whatever is retried, lost or late:
\* "anything else is reported as it happened" (nats-link lib.rs:141).
AtMostOnce == \A c \in Calls : runs[c] <= 1

\* What the verdict tells a guest of what happened at the provider: a call
\* that was answered has run, one that found nobody, or was refused, has not,
\* and never will.
VerdictIsTrue ==
    \A c \in Calls :
        /\ calls[c].verdict \in {"ok", "unreadable"} => runs[c] = 1
        /\ calls[c].verdict \in {"not-found", "refused"} => runs[c] = 0

\* No permit and no store is lost however a task ends: an adapter's permits and
\* the requests it has in the works add up to what it permits, whoever is inside
\* a component holds its store, and whoever is in line for one is in a call.
NothingIsLost ==
    /\ \A a \in Adapters : permits[a] + Cardinality({m \in DOMAIN tasks : tasks[m].at = a}) = Concurrency[a]
    /\ \A m \in DOMAIN tasks : tasks[m].phase \in {"inside", "calling"} => HasStore(m)
    /\ \A a \in Adapters : \A k \in DOMAIN line[a] :
          /\ line[a][k] \in DOMAIN tasks
          /\ tasks[line[a][k]].at = a
          /\ Timed(line[a][k])

\* A provider does not give a call up before its caller does: as long as the
\* caller waits, the deadline of dispatch is no nearer than that of the proxy.
GivesUpNoSooner ==
    \A m \in DOMAIN tasks :
        calls[m.call].phase = "waiting" /\ Attempt(m.call) = m /\ (Timed(m) \/ tasks[m].phase = "taken")
            => tasks[m].left >= Deadline - calls[m.call].age

\* Who can stay for ever: a function that computes, and a request without a
\* deadline that waits for the store in which one does.
Computing(m) == tasks[m].phase = "inside"

MayStay(m) ==
    \/ Computing(m)
    \/ /\ tasks[m].left = Nothing /\ tasks[m].phase = "locking"
       /\ Computing(Head(line[tasks[m].at]))

\* Nothing else does, whatever becomes of messages and of providers: every call
\* through a proxy ends, and so does every task, which gives up its store and
\* its permit.  Components that wait for each other, each in the store the other
\* needs, do not wait for ever, not even for a request without a deadline.
OnlyGuestsLast == <>[](/\ \A c \in Calls : ~Active(c)
                       /\ \A m \in DOMAIN tasks : MayStay(m))
=============================================================================
