------------------------------ MODULE HostCalls ------------------------------
(***************************************************************************)
(* Calls on the components of a host: Host::call, and the forwards that    *)
(* wire defines (crates/host/src/link.rs).                                 *)
(*                                                                         *)
(* A call is a task.  stack holds the components it is in, the one that    *)
(* runs last; a component below the last waits in the host function that   *)
(* its import is.  A store is a tokio mutex: queue lists the frames that   *)
(* ask for it, first the one that has it.  What a guest does is not in     *)
(* this code: it calls any import, returns, or traps.                      *)
(***************************************************************************)
EXTENDS Linker

CONSTANTS
    Callers,   \* tasks that call
    MaxCalls   \* bound on how often they do

ASSUME CallsAssumption == IsFiniteSet(Callers) /\ MaxCalls \in Nat

VARIABLES
    stack,   \* the frames of each caller
    queue,   \* who has, and who waits for, each store
    calls    \* how many calls were made

vars == <<linkerVars, stack, queue, calls>>

\* A frame is at a loaded component, owns its place in the queue of the store or
\* runs under another's, and is in a phase: "locking" the store, "running" in it,
\* "parked" on a remote import, or ending with an error, which a component that
\* "traps" brings about, and one that was "refused" entry does not.

Depth(c) == Len(stack[c])
Top(c) == stack[c][Depth(c)]
TopIs(c, phase) == Depth(c) > 0 /\ Top(c).phase = phase
GroupOf(frame) == loaded[frame.at].group

\* A place in a queue.
Turn(c, depth) == [caller |-> c, depth |-> depth]
Without(line, turns) ==
    LET kept[k \in 0..Len(line)] ==
            IF k = 0 THEN <<>>
            ELSE IF line[k] \in turns THEN kept[k - 1] ELSE Append(kept[k - 1], line[k])
    IN  kept[Len(line)]
Holds(c, depth) ==
    LET line == queue[GroupOf(stack[c][depth])]
    IN  line # <<>> /\ Head(line) = Turn(c, depth)

Become(c, phase) == stack' = [stack EXCEPT ![c][Depth(c)].phase = phase]

\* The frame that asks for the store of a component.
Locking(i) == [at |-> i, owns |-> TRUE, phase |-> "locking"]

Lock(c, i, depth) ==
    queue' = [queue EXCEPT ![loaded[i].group] = Append(@, Turn(c, depth))]

-----------------------------------------------------------------------------
(* Host::call.                                                             *)

Call(c, i) ==
    /\ Idle
    /\ stack[c] = <<>>
    /\ stack' = [stack EXCEPT ![c] = <<Locking(i)>>]
    /\ Lock(c, i, 1)
    /\ calls < MaxCalls /\ calls' = calls + 1
    /\ UNCHANGED linkerVars

\* The lock is given; a store that is poisoned cannot be entered.
Enter(c) ==
    /\ TopIs(c, "locking") /\ Holds(c, Depth(c))
    /\ Become(c, IF GroupOf(Top(c)) \in poisoned THEN "refused" ELSE "running")
    /\ UNCHANGED <<linkerVars, queue, calls>>

\* func_of finds no such function.
FindNothing(c) ==
    /\ Depth(c) = 1 /\ TopIs(c, "locking") /\ Holds(c, 1)
    /\ Become(c, "refused")
    /\ UNCHANGED <<linkerVars, queue, calls>>

-----------------------------------------------------------------------------
(* What a component that runs may do.                                      *)

CallWithin(c, link) ==
    /\ link.kind = "direct"
    /\ stack' = [stack EXCEPT ![c] = Append(@, [at |-> link.to, owns |-> FALSE, phase |-> "running"])]
    /\ UNCHANGED <<linkerVars, queue, calls>>

CallAcross(c, link) ==
    /\ link.kind = "locked"
    /\ stack' = [stack EXCEPT ![c] = Append(@, Locking(link.to))]
    /\ Lock(c, link.to, Depth(c) + 1)
    /\ UNCHANGED <<linkerVars, calls>>

CallRemote(c, link) ==
    /\ link.kind = "remote"
    /\ Become(c, "parked")
    /\ UNCHANGED <<linkerVars, queue, calls>>

Blame(c) ==
    /\ Become(c, "traps")
    /\ blamed' = blamed \cup {Top(c).at}
    /\ UNCHANGED <<stores, loaded, plan, assigned, base, poisoned, bonds, queue, calls>>

CallStub(c, link) == link.kind = "stub" /\ Blame(c)

Import(c) ==
    /\ TopIs(c, "running")
    /\ \E link \in loaded[Top(c).at].links :
          CallWithin(c, link) \/ CallAcross(c, link) \/ CallRemote(c, link) \/ CallStub(c, link)

Trap(c) == TopIs(c, "running") /\ Blame(c)

RemoteReturns(c) ==
    /\ TopIs(c, "parked")
    /\ Become(c, "running")
    /\ UNCHANGED <<linkerVars, queue, calls>>

\* An error of the proxy traps the component that called.
RemoteFails(c) == TopIs(c, "parked") /\ Blame(c)

\* Mutant: the lock is given up only when the call succeeds.
UnlockOnSuccess(c) ==
    queue' = IF Top(c).owns /\ Top(c).phase = "running"
             THEN [queue EXCEPT ![GroupOf(Top(c))] = Tail(@)] ELSE queue

Unlock(c) ==
    queue' = IF Top(c).owns THEN [queue EXCEPT ![GroupOf(Top(c))] = Tail(@)] ELSE queue

Pop(s) == SubSeq(s, 1, Len(s) - 1)

Return(c) ==
    /\ TopIs(c, "running")
    /\ stack' = [stack EXCEPT ![c] = Pop(@)]
    /\ Unlock(c)
    /\ UNCHANGED <<linkerVars, calls>>

Trapped(s) == IF s = <<>> THEN <<>> ELSE [s EXCEPT ![Len(s)].phase = "traps"]

\* The error reaches the caller, whose import returns it and which so traps.
Unwind(c) ==
    /\ TopIs(c, "traps") \/ TopIs(c, "refused")
    /\ stack' = [stack EXCEPT ![c] = Trapped(Pop(@))]
    /\ Unlock(c)
    /\ poisoned' = IF TopIs(c, "traps") THEN poisoned \cup {GroupOf(Top(c))} ELSE poisoned
    /\ UNCHANGED <<stores, loaded, plan, assigned, base, bonds, blamed, calls>>

-----------------------------------------------------------------------------
\* The future of a call is dropped, as by a served call that is out of time:
\* every lock it has, or waits for, is given up.  Whether a store it was
\* running in can be entered again is wasmtime's to say.
Cancel(c) ==
    LET inside == {d \in DOMAIN stack[c] : stack[c][d].phase \notin {"locking", "refused"}}
        turns == {Turn(c, d) : d \in DOMAIN stack[c]}
    IN  /\ stack[c] # <<>>
        /\ stack' = [stack EXCEPT ![c] = <<>>]
        /\ queue' = [g \in DOMAIN queue |-> Without(queue[g], turns)]
        /\ \/ UNCHANGED <<poisoned, blamed>>
           \/ /\ poisoned' = poisoned \cup {GroupOf(stack[c][d]) : d \in inside}
              /\ blamed' = blamed \cup {stack[c][d].at : d \in {e \in inside : e + 1 \notin inside}}
        /\ UNCHANGED <<stores, loaded, plan, assigned, base, bonds, calls>>

\* A store is made unlocked.
Instantiating ==
    /\ \A c \in Callers : stack[c] = <<>>
    /\ Instantiate
    /\ queue' = [g \in 1..stores' |-> IF g \in DOMAIN queue THEN queue[g] ELSE <<>>]
    /\ UNCHANGED <<stack, calls>>

Init ==
    /\ LinkerInit
    /\ stack = [c \in Callers |-> <<>>]
    /\ queue = <<>>
    /\ calls = 0

Next ==
    \/ Instantiating
    \/ \E c \in Callers :
          \/ \E i \in DOMAIN loaded : Call(c, i)
          \/ Enter(c) \/ FindNothing(c)
          \/ Import(c) \/ Trap(c) \/ RemoteReturns(c) \/ RemoteFails(c)
          \/ Return(c) \/ Unwind(c) \/ Cancel(c)

Spec == Init /\ [][Next]_vars

-----------------------------------------------------------------------------
(* Properties.                                                             *)

\* "Guest calls within a store are serial" (linking.md section 4): whoever is
\* in a store, having locked it or been forwarded to within it, is the call
\* that holds it, and its last frame in that store is where it holds.
InsideHoldsTheStore ==
    \A c \in Callers : \A d \in DOMAIN stack[c] : stack[c][d].phase # "locking" =>
        LET line == queue[GroupOf(stack[c][d])]
        IN  line # <<>> /\ Head(line).caller = c /\ Head(line).depth <= d

\* Every place in a queue is that of a frame which locks, or has locked.
NoLockIsLost ==
    \A g \in DOMAIN queue : \A k \in DOMAIN queue[g] :
        LET t == queue[g][k]
        IN  /\ t.depth <= Depth(t.caller)
            /\ stack[t.caller][t.depth].owns
            /\ GroupOf(stack[t.caller][t.depth]) = g
            /\ k > 1 => stack[t.caller][t.depth].phase = "locking"

Links == UNION {{i} \X ({link.to : link \in loaded[i].links} \ {0}) : i \in DOMAIN loaded}

\* "A trap is contained to its group" (linking.md section 3): a component can
\* no longer be entered only if it imports one that trapped, or must share a
\* store with one, or with one that imports one, and so on.
TrapIsContained ==
    LET edges == bonds \cup Links
    IN  \A i \in DOMAIN loaded :
            loaded[i].group \in poisoned => \E t \in blamed : Leads(DOMAIN loaded, edges, i, t)

\* Callers that wait for each other, or for themselves.
Deadlocked(waiting) ==
    /\ waiting # {}
    /\ \A c \in waiting :
          /\ TopIs(c, "locking")
          /\ ~Holds(c, Depth(c))
          /\ Head(queue[GroupOf(Top(c))]).caller \in waiting

\* Which stores calls go to from each.
CallsBetween ==
    {p \in {<<loaded[l[1]].group, loaded[l[2]].group>> : l \in Links} : p[1] # p[2]}

\* Components import each other in no cycle, but stores may: then a call can
\* come back to a store it holds.  Only then do calls wait for ever.
DeadlockNeedsCyclicStores ==
    (\E waiting \in SUBSET Callers : Deadlocked(waiting)) =>
        LET edges == CallsBetween
        IN  \E e \in edges : Leads(1..stores, edges, e[2], e[1])
=============================================================================
