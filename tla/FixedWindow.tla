---------------------------- MODULE FixedWindow ----------------------------
(***************************************************************************)
(* What a fixed-window rate limiter promises its clients: a window opens   *)
(* with the first request, maxRequests of its requests are let through,    *)
(* the others are turned away and change nothing, and the window closes    *)
(* windowMs later, whatever came in between.  There are no records to keep *)
(* or to clean up here.                                                    *)
(***************************************************************************)
EXTENDS Integers

CONSTANTS Clients, windowMs, maxRequests

VARIABLES
    quota,      \* quota[c]: requests the open window of c still lets through
    open,       \* open[c]: ticks until the window of c closes, Closed without one
    verdict     \* the last answer given

vars == <<quota, open, verdict>>

Closed == -1

Init ==
    /\ quota = [c \in Clients |-> maxRequests]
    /\ open = [c \in Clients |-> Closed]
    /\ verdict = <<>>

Accept(c) ==
    /\ quota[c] > 0
    /\ quota' = [quota EXCEPT ![c] = @ - 1]
    /\ open' = [open EXCEPT ![c] = IF @ = Closed THEN windowMs ELSE @]
    /\ verdict' = <<c, "next">>

Reject(c) ==
    /\ quota[c] = 0
    /\ verdict' = <<c, "429">>
    /\ UNCHANGED <<quota, open>>

\* A window of which no tick is left closes, and its client starts afresh.
Tick ==
    /\ open' = [c \in Clients |-> IF open[c] = Closed THEN Closed ELSE open[c] - 1]
    /\ quota' = [c \in Clients |-> IF open'[c] = Closed THEN maxRequests ELSE quota[c]]
    /\ UNCHANGED verdict

Next ==
    \/ \E c \in Clients : Accept(c) \/ Reject(c)
    \/ Tick

Spec == Init /\ [][Next]_vars
=============================================================================
