----------------------------- MODULE Announcer -----------------------------
(***************************************************************************)
(* How a provider announces itself (crates/registry/src/client.rs):        *)
(* Client::register, the task beat that keeps the registration alive, and  *)
(* the three ways a Registration ends: deregister, drop, and a crash.      *)
(*                                                                         *)
(* The registry is taken at its word here: each call it serves is atomic   *)
(* (RegistryStore has what it really does), or comes to nothing, as far as *)
(* the caller can tell: its request or its reply is lost, registryd cannot *)
(* reach the bucket, or nobody is there to serve it.  The network delays   *)
(* requests, and still delivers some after the caller has given up, and    *)
(* time is counted in seconds down to each deadline.                       *)
(***************************************************************************)
EXTENDS Integers

CONSTANTS
    Proposed,    \* ttl-secs of the provider, as it proposes it
    MinTtl,      \* bounds the registry imposes
    MaxTtl,
    CallTimeout, \* CALL_TIMEOUT
    Latency,     \* seconds a request and its reply may take
    MaxFailures, \* failed calls in a row after which no more are made to fail
    Rivals,      \* whether others may claim the interface, differently
    MaxLag,      \* bound on missed ticks, for model checking
    None

Tasks == {"main", "beat"}
Kinds == {"register", "heartbeat", "deregister"}

ASSUME TtlAssumption ==
    /\ Proposed \in Nat /\ MinTtl \in Nat /\ MaxTtl \in Nat
    /\ CallTimeout \in Nat \ {0} /\ Latency \in Nat /\ MaxFailures \in Nat
    /\ MaxLag \in Nat /\ Rivals \in BOOLEAN

\* A request of a task under way, with its age, and its reply once it is served.
\* The caller gets the reply of a call that is answered; of one that failed it
\* hears of an error at some time, or nothing.
Call == [kind : Kinds, phase : {"sent", "failed", "answered"},
         reply : {"ok", "conflict", "not-found", None}, age : 0..CallTimeout]

ASSUME NoneAssumption == None \notin Call /\ None \notin {"ok", "conflict", "not-found"}

VARIABLES
    left,     \* seconds the entry in the bucket has left; 0 is no entry
    rival,    \* a live provider claims the interface with another digest
    main,     \* where the provider's own task is
    beat,     \* where its heartbeat task is
    due,      \* seconds to the next tick of the heartbeat's interval
    call,     \* the request each task awaits, or None
    orphans,  \* requests nobody awaits that the registry may yet serve
    failures, \* calls in a row that came to nothing, counted to MaxFailures + 1
    removed   \* whether a deregister was answered ok

vars == <<left, rival, main, beat, due, call, orphans, failures, removed>>

Larger(x, y) == IF x > y THEN x ELSE y
Smaller(x, y) == IF x < y THEN x ELSE y

\* Limits::clamp.
Ttl == LET min == Larger(MinTtl, 1)
       IN  Smaller(Larger(Proposed, min), Larger(MaxTtl, min))

\* Mutant: a single beat for each lifetime.
LazyInterval == Larger(Proposed, 1)

\* heartbeat_interval, of the TTL the provider proposed.
Interval == Larger(Proposed \div 3, 1)

Live == left > 0

-----------------------------------------------------------------------------
(* Calls.                                                                  *)

Ask(t, kind) ==
    call' = [call EXCEPT ![t] = [kind |-> kind, phase |-> "sent", reply |-> None, age |-> 0]]

\* What serving a request does to the entry, and its reply.
Register == IF rival THEN "conflict" ELSE "ok"
OfLive == IF Live THEN "ok" ELSE "not-found"

ReplyTo(kind) == IF kind = "register" THEN Register ELSE OfLive

Apply(kind) ==
    left' = IF ReplyTo(kind) # "ok" THEN left ELSE IF kind = "deregister" THEN 0 ELSE Ttl

Serve(t) ==
    /\ call[t] # None /\ call[t].phase = "sent"
    /\ Apply(call[t].kind)
    /\ call' = [call EXCEPT ![t].phase = "answered", ![t].reply = ReplyTo(call[t].kind)]
    /\ UNCHANGED <<rival, main, beat, due, orphans, failures, removed>>

ServeOrphan(kind) ==
    /\ kind \in orphans
    /\ orphans' = orphans \ {kind}
    /\ Apply(kind)
    /\ UNCHANGED <<rival, main, beat, due, call, failures, removed>>

LoseOrphan(kind) ==
    /\ kind \in orphans
    /\ orphans' = orphans \ {kind}
    /\ UNCHANGED <<left, rival, main, beat, due, call, failures, removed>>

\* The request or its reply is lost, or the call ends in an error: registryd
\* cannot reach its bucket, or not know whether it did (unavailable of store.rs),
\* nobody serves the registry (client.rs:193), the reply cannot be read.
Falter(t) ==
    /\ call[t] # None /\ call[t].phase # "failed"
    /\ failures < MaxFailures
    /\ call' = [call EXCEPT ![t].phase = "failed"]
    /\ UNCHANGED <<left, rival, main, beat, due, orphans, failures, removed>>

\* What remains of a request whose caller no longer awaits it, if it was not served.
Abandoned(t) == IF call[t] # None /\ call[t].reply = None THEN {call[t].kind} ELSE {}

\* The await of task t ends with a reply, or without one: with an error, or
\* after CALL_TIMEOUT.
Answered(t, kind, reply) ==
    /\ call[t] # None /\ call[t].kind = kind
    /\ call[t].phase = "answered" /\ call[t].reply = reply
    /\ failures' = 0
    /\ UNCHANGED orphans

Failed(t, kind) ==
    /\ call[t] # None /\ call[t].kind = kind
    /\ call[t].phase = "failed" \/ call[t].age = CallTimeout
    /\ orphans' = orphans \cup Abandoned(t)
    /\ failures' = Smaller(failures + 1, MaxFailures + 1)

-----------------------------------------------------------------------------
(* Client::register and the ends of its Registration.                      *)

StartRegister ==
    /\ main = "start"
    /\ main' = "registering"
    /\ Ask("main", "register")
    /\ UNCHANGED <<left, rival, beat, due, orphans, failures, removed>>

\* The first tick of an interval is immediate; the loop waits for the second.
Registered ==
    /\ main = "registering"
    /\ Answered("main", "register", "ok")
    /\ main' = "held" /\ beat' = "waiting" /\ due' = Interval
    /\ call' = [call EXCEPT !["main"] = None]
    /\ UNCHANGED <<left, rival, removed>>

RegisterFails ==
    /\ main = "registering"
    /\ Answered("main", "register", "conflict") \/ Failed("main", "register")
    /\ main' = "gone"
    /\ call' = [call EXCEPT !["main"] = None]
    /\ UNCHANGED <<left, rival, beat, due, removed>>

\* Registration::deregister: the heartbeat lives until the call returns.
StartDeregister ==
    /\ main = "held"
    /\ main' = "deregistering"
    /\ Ask("main", "deregister")
    /\ UNCHANGED <<left, rival, beat, due, orphans, failures, removed>>

\* Mutant: dropping a Registration leaves its task running.
DetachTask ==
    /\ main' = "gone"
    /\ call' = [call EXCEPT !["main"] = None]
    /\ UNCHANGED <<beat, due>>

\* The drop of a Registration aborts its heartbeat where it awaits.
Abort ==
    /\ main' = "gone" /\ beat' = "off" /\ due' = 0
    /\ call' = [t \in Tasks |-> None]

DeregisterEnds ==
    /\ main = "deregistering"
    /\ \/ \E r \in {"ok", "not-found"} :
             Answered("main", "deregister", r) /\ removed' = (r = "ok")
       \/ Failed("main", "deregister") /\ UNCHANGED removed
    /\ Abort
    /\ UNCHANGED <<left, rival>>

\* A drop, a cancelled register or deregister, or the death of the process.
Drop ==
    /\ main \in {"registering", "held", "deregistering"}
    /\ Abort
    /\ orphans' = orphans \cup Abandoned("main") \cup Abandoned("beat")
    /\ UNCHANGED <<left, rival, failures, removed>>

-----------------------------------------------------------------------------
(* beat.                                                                   *)

\* An interval that fell behind ticks at once, and catches up.
BeatTicks ==
    /\ beat = "waiting" /\ due <= 0
    /\ beat' = "beating" /\ due' = due + Interval
    /\ Ask("beat", "heartbeat")
    /\ UNCHANGED <<left, rival, main, orphans, failures, removed>>

\* Mutant: a registry that has forgotten the provider is left at that.
IgnoreNotFound ==
    /\ beat = "beating"
    /\ Answered("beat", "heartbeat", "not-found")
    /\ beat' = "waiting"
    /\ call' = [call EXCEPT !["beat"] = None]
    /\ UNCHANGED <<left, rival, main, due, removed>>

ReAnnounce ==
    /\ beat = "beating"
    /\ Answered("beat", "heartbeat", "not-found")
    /\ beat' = "announcing"
    /\ Ask("beat", "register")
    /\ UNCHANGED <<left, rival, main, due, removed>>

\* Every other outcome is ignored, the conflict of a re-announcement included.
BeatEnds ==
    /\ \/ beat = "beating" /\ Answered("beat", "heartbeat", "ok")
       \/ beat = "beating" /\ Failed("beat", "heartbeat")
       \/ beat = "announcing" /\ \E r \in {"ok", "conflict"} : Answered("beat", "register", r)
       \/ beat = "announcing" /\ Failed("beat", "register")
    /\ beat' = "waiting"
    /\ call' = [call EXCEPT !["beat"] = None]
    /\ UNCHANGED <<left, rival, main, due, removed>>

-----------------------------------------------------------------------------
(* Time, and whoever else claims the interface.                            *)

\* A second passes once nothing is due: no tick, no timeout, and no request
\* or reply that has been under way for Latency.  An error may take longer.
Quiet ==
    /\ ~ (beat = "waiting" /\ due <= 0)
    /\ \A t \in Tasks : call[t] # None =>
          /\ call[t].age < CallTimeout
          /\ call[t].phase # "failed" => call[t].age < Latency

Tick ==
    /\ Quiet
    /\ left' = Larger(left - 1, 0)
    /\ due' = IF beat = "off" THEN due ELSE Larger(due - 1, -MaxLag)
    /\ call' = [t \in Tasks |-> IF call[t] = None THEN None ELSE [call[t] EXCEPT !.age = @ + 1]]
    /\ UNCHANGED <<rival, main, beat, orphans, failures, removed>>

\* The registry refuses a rival while the entry is live.
RivalComes ==
    /\ Rivals /\ ~rival /\ ~Live
    /\ rival' = TRUE
    /\ UNCHANGED <<left, main, beat, due, call, orphans, failures, removed>>

RivalGoes ==
    /\ rival
    /\ rival' = FALSE
    /\ UNCHANGED <<left, main, beat, due, call, orphans, failures, removed>>

-----------------------------------------------------------------------------
Init ==
    /\ left = 0
    /\ rival = FALSE
    /\ main = "start"
    /\ beat = "off"
    /\ due = 0
    /\ call = [t \in Tasks |-> None]
    /\ orphans = {}
    /\ failures = 0
    /\ removed = FALSE

Network(t) == Serve(t) \/ Falter(t)
Main == StartRegister \/ Registered \/ RegisterFails \/ StartDeregister \/ DeregisterEnds \/ Drop
Beat == BeatTicks \/ ReAnnounce \/ BeatEnds
Registry == \E kind \in Kinds : ServeOrphan(kind) \/ LoseOrphan(kind)

Next ==
    \/ Main
    \/ Beat
    \/ \E t \in Tasks : Network(t)
    \/ Registry
    \/ Tick
    \/ RivalComes
    \/ RivalGoes

Spec == Init /\ [][Next]_vars

\* A request of the heartbeat task that gets through.
BeatServed(kind) == call["beat"] # None /\ call["beat"].kind = kind /\ Serve("beat")

\* Time passes, tasks run, requests are served or fail, and abandoned ones meet
\* their end.  Any call may fail or be late but not every one: of calls made
\* again and again some are served, and some replies arrive.  No
\* provider has to register, deregister or die, and no rival to come or go.
FairSpec ==
    /\ Spec
    /\ WF_vars(Tick)
    /\ WF_vars(Beat)
    /\ WF_vars(Registered \/ RegisterFails \/ DeregisterEnds)
    /\ \A t \in Tasks : WF_vars(Network(t))
    /\ WF_vars(Registry)
    /\ \A kind \in Kinds : SF_vars(BeatServed(kind))
    /\ SF_vars(ReAnnounce)

-----------------------------------------------------------------------------
(* Properties.                                                             *)

\* What heartbeat_interval promises (client.rs:277, registry.md section 3), when
\* MaxFailures is at most two: a provider that holds a registration is registered.
HeldMeansLive == main = "held" => Live

\* The entry of a provider that holds its registration runs out only after two
\* calls in a row failed, whether they timed out or were answered with an error:
\* one that is lost, late or in error never costs it its registration.
ExpiresOnlyAfterFailures ==
    [][main = "held" /\ Live /\ ~Live' => failures >= 2]_vars

\* A provider that keeps its registration and has no rival is never absent for
\* good: beat re-announces it however often it expires.
AlwaysBack ==
    <>[](main = "held" /\ ~rival) => []<>Live

\* An entry does not outlive its provider: after a deregister, a drop or a
\* crash, and even if register gave up while its request was under way, the
\* entry is in the end gone for good (registry.md section 3: "a provider that
\* dies without deregistering expires on its own").
GoneExpires == main = "gone" ~> [](~Live)

\* What Registration::deregister promises (client.rs:229, "Removes the entry
\* now"): once it has returned ok there is no entry.
RemovedMeansGone == main = "gone" /\ removed => ~Live
=============================================================================
