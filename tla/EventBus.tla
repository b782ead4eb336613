------------------------------ MODULE EventBus ------------------------------
(***************************************************************************)
(* InMemoryEventBus (packages/common/src/messaging/bus.ts), for one event  *)
(* type.  publish calls every listener of the moment, one after the other  *)
(* and each up to its own first await, and then waits for all of them;     *)
(* what they throw is logged.  Meanwhile others publish, subscribe and     *)
(* unsubscribe.                                                            *)
(***************************************************************************)
EXTENDS Naturals, Sequences, FiniteSets, SequencesExt

CONSTANTS
    Listeners,
    Publications        \* the calls of publish

ASSUME BusAssumption == "now" \notin Publications

VARIABLES
    listeners,          \* the set of the event type, in the order of insertion
    publication,        \* per call: "idle", "awaiting", "resolved", "rejected"
    running,            \* per call: the listeners that have not settled
    calls,              \* history: how often each listener was given the event
    audience            \* history: who was subscribed when the call was made,
                        \* under "now" who is

busVars == <<listeners, publication, running, calls, audience>>

BusInit ==
    /\ listeners = <<>>
    /\ publication = [p \in Publications |-> "idle"]
    /\ running = [p \in Publications |-> {}]
    /\ calls = [p \in Publications |-> [h \in Listeners |-> 0]]
    /\ audience = [p \in Publications \cup {"now"} |-> {}]

----------------------------------------------------------------------------
(* Variants of the definitions below, each with one plausible mistake.     *)

\* An array instead of a set.
AddedAgain(h) == Append(listeners, h)

\* No try and catch: Promise.all rejects with the first failure.
Rejects(p, h) == publication' = [publication EXCEPT ![p] = "rejected"]

----------------------------------------------------------------------------
\* Set.add
Added(h) == IF Contains(listeners, h) THEN listeners ELSE Append(listeners, h)

busSubscribe(h) ==
    /\ listeners' = Added(h)
    /\ audience' = [audience EXCEPT !["now"] = @ \cup {h}]
    /\ UNCHANGED <<publication, running, calls>>

unsubscribe(h) ==
    /\ listeners' = RemoveFirst(listeners, h)
    /\ audience' = [audience EXCEPT !["now"] = @ \ {h}]
    /\ UNCHANGED <<publication, running, calls>>

publish(p) ==
    /\ publication[p] = "idle"
    /\ publication' = [publication EXCEPT ![p] = IF listeners = <<>> THEN "resolved" ELSE "awaiting"]
    /\ running' = [running EXCEPT ![p] = ToSet(listeners)]
    /\ calls' = [calls EXCEPT ![p] = [h \in Listeners |->
                    Cardinality({i \in DOMAIN listeners : listeners[i] = h})]]
    /\ audience' = [audience EXCEPT ![p] = audience["now"]]
    /\ UNCHANGED listeners

\* One of Promise.all's promises settles; publish returns with the last.
Resolves(p, h) ==
    publication' = [publication EXCEPT ![p] = IF running[p] = {h} THEN "resolved" ELSE @]

\* After the catch block it is settled like any other.
Caught(p, h) == Resolves(p, h)

Settle(p, h) ==
    /\ h \in running[p]
    /\ running' = [running EXCEPT ![p] = @ \ {h}]
    /\ UNCHANGED <<listeners, calls, audience>>

ListenerReturns(p, h) == Settle(p, h) /\ Resolves(p, h)

ListenerThrows(p, h) == Settle(p, h) /\ Caught(p, h)

BusNext ==
    \/ \E h \in Listeners : busSubscribe(h) \/ unsubscribe(h)
    \/ \E p \in Publications :
        \/ publish(p)
        \/ \E h \in Listeners : ListenerReturns(p, h) \/ ListenerThrows(p, h)

BusSpec == BusInit /\ [][BusNext]_busVars

\* Listeners settle, one way or the other.
BusFairness ==
    \A p \in Publications :
        WF_busVars(\E h \in Listeners : ListenerReturns(p, h) \/ ListenerThrows(p, h))

----------------------------------------------------------------------------
\* However calls overlap and whatever listeners throw or change in between: a
\* publication is over when every listener that was subscribed as it was made
\* has been given the event, once, and has settled; nobody else is given it.
EachOnce ==
    \A p \in Publications :
        /\ \A h \in Listeners : calls[p][h] = IF h \in audience[p] THEN 1 ELSE 0
        /\ publication[p] = "awaiting" <=> running[p] # {}

\* publish returns, and does not throw, though listeners do.
PublishReturns ==
    \A p \in Publications : publication[p] = "awaiting" ~> publication[p] = "resolved"
=============================================================================
