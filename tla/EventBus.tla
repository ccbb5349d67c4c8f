------------------------------- MODULE EventBus -------------------------------
(***************************************************************************)
(* The in-process event bus (src/core/event_bus.cpp).  publish() copies    *)
(* the handlers that match under the mutex and calls them after it has     *)
(* been released, so that a handler may use the bus itself: every thread   *)
(* has a stack of publishes, the innermost last, of which each may have a  *)
(* handler running.                                                        *)
(*                                                                         *)
(* A topic is the sequence of its levels; of a subscription, a trailing    *)
(* level "#" is kept as a flag.  Payloads are left out, and so are         *)
(* subscriptions without a handler, which nobody makes.                    *)
(***************************************************************************)
EXTENDS Naturals, Sequences, SequencesExt, Functions, Selection

\* An operator introduced by "Mutant:" is not part of the model: it is what a
\* plausible bug would make of the definition that follows it.

CONSTANTS
    Publishers, \* threads that use the bus
    Topics,
    Patterns,   \* what is subscribed to: [levels, below]
    MaxIds,     \* bound: identifiers given out
    MaxDepth    \* bound: publishes of one thread inside each other

ASSUME BusAssumption == MaxIds \in Nat /\ MaxDepth \in Nat

VARIABLES
    subs,    \* m_subs: [id, pattern]
    nextId,  \* m_nextId
    stack    \* each thread's publishes in progress: [topic, snapshot, running, called];
             \* history: `before`, the nextId when it began

busVars == <<subs, nextId, stack>>

BusInit == subs = <<>> /\ nextId = 1 /\ stack = [t \in Publishers |-> <<>>]

\* "a/#" matches "a" and all below it, "#" everything.
Matches(pattern, topic) ==
    IF pattern.below THEN IsPrefix(pattern.levels, topic) ELSE pattern.levels = topic

Ids(list) == [i \in DOMAIN list |-> list[i].id]

\* Handlers a publish would call at this moment, in the order of subscription.
Listeners(topic) ==
    Ids(Kept(subs, {s \in Range(subs) : Matches(s.pattern, topic)}))

Publishing(t) == stack[t] # <<>>
InHandler(t) == Publishing(t) /\ Last(stack[t]).running # 0
\* A thread uses the bus from its own code or from a handler.
MayCall(t) == Publishing(t) => InHandler(t)

SetTop(t, frame) == stack' = [stack EXCEPT ![t] = Append(Front(@), frame)]
-----------------------------------------------------------------------------
\* subscribe(): the identifier is nextId.
Subscribe(t, pattern) ==
    /\ MayCall(t) /\ nextId <= MaxIds
    /\ subs' = Append(subs, [id |-> nextId, pattern |-> pattern])
    /\ nextId' = nextId + 1
    /\ UNCHANGED stack

\* unsubscribe(): without effect if the identifier is not there.
Unsubscribe(t, id) ==
    /\ MayCall(t)
    /\ subs' = Kept(subs, {s \in Range(subs) : s.id # id})
    /\ UNCHANGED <<nextId, stack>>

\* publish() up to the end of its critical section.
Publish(t, topic) ==
    /\ MayCall(t) /\ Len(stack[t]) < MaxDepth
    /\ stack' = [stack EXCEPT ![t] =
          Append(@, [topic |-> topic, snapshot |-> Listeners(topic),
                     running |-> 0, called |-> <<>>, before |-> nextId])]
    /\ UNCHANGED <<subs, nextId>>

\* Mutant: the list is walked while handlers run, without a copy.
UncalledLive(f) == SubSeq(Listeners(f.topic), Len(f.called) + 1, Len(Listeners(f.topic)))
\* What the publish still has to call.
Uncalled(f) == SubSeq(f.snapshot, Len(f.called) + 1, Len(f.snapshot))

CallHandler(t) ==
    /\ Publishing(t)
    /\ LET f == Last(stack[t])
       IN  /\ f.running = 0 /\ Uncalled(f) # <<>>
           /\ SetTop(t, [f EXCEPT !.running = Head(Uncalled(f)),
                                  !.called = Append(@, Head(Uncalled(f)))])
    /\ UNCHANGED <<subs, nextId>>

HandlerReturns(t) ==
    /\ InHandler(t)
    /\ SetTop(t, [Last(stack[t]) EXCEPT !.running = 0])
    /\ UNCHANGED <<subs, nextId>>

PublishReturns(t) ==
    /\ Publishing(t)
    /\ Last(stack[t]).running = 0 /\ Uncalled(Last(stack[t])) = <<>>
    /\ stack' = [stack EXCEPT ![t] = Front(@)]
    /\ UNCHANGED <<subs, nextId>>

PublishStep(t) == CallHandler(t) \/ HandlerReturns(t) \/ PublishReturns(t)

BusNext ==
    \E t \in Publishers :
        \/ \E p \in Patterns : Subscribe(t, p)
        \/ \E id \in 1 .. nextId - 1 : Unsubscribe(t, id)
        \/ \E topic \in Topics : Publish(t, topic)
        \/ PublishStep(t)

BusSpec == BusInit /\ [][BusNext]_busVars
-----------------------------------------------------------------------------
\* The handlers that run at this moment, in any thread and at any depth.
Running == UNION {{stack[t][i].running : i \in DOMAIN stack[t]} : t \in Publishers} \ {0}

\* Whatever handlers and other threads subscribe and unsubscribe meanwhile, a
\* publish calls nobody twice, nobody who came after it began, and, by the time
\* it ends, everybody who was there before and still is (event_bus.h:8).
DeliveredOnce ==
    \A t \in Publishers : \A i \in DOMAIN stack[t] :
        LET f == stack[t][i]
        IN  /\ IsInjective(f.called)
            /\ \A id \in Range(f.called) : id < f.before
            /\ Uncalled(f) = <<>> =>
                  \A s \in Range(subs) :
                      Matches(s.pattern, f.topic) /\ s.id < f.before
                          => s.id \in Range(f.called)
=============================================================================
