---------------------------- MODULE RateLimiter ----------------------------
(***************************************************************************)
(* InMemoryRateLimiter (api-gateway/src/middleware/rateLimiter.ts): a      *)
(* fixed window per client address, kept in a map that a timer cleans.     *)
(*                                                                         *)
(* resetTime is kept relative to the clock (left = resetTime - now) and is *)
(* only compared with it: every value below zero means "over".  count is   *)
(* only compared with maxRequests, from above, and is kept up to           *)
(* maxRequests + 1.                                                        *)
(***************************************************************************)
EXTENDS Integers, Functions

CONSTANTS
    Clients,
    windowMs,           \* in ticks of the model's clock
    maxRequests

ASSUME LimiterAssumption ==
    /\ windowMs \in Nat
    /\ maxRequests \in Nat \ {0}

VARIABLES
    hits,               \* the map, NoRecord where there is no entry
    verdict,            \* the last request and how it ended
    recent              \* history: recent[c][a], requests of c let through a ticks ago

limiterVars == <<hits, verdict, recent>>

Ages == 0 .. windowMs

RateLimitRecord == [count : 0 .. maxRequests + 1, left : -1 .. windowMs]

NoRecord == [count |-> 0, left |-> -1]

LimiterInit ==
    /\ hits = [c \in Clients |-> NoRecord]
    /\ verdict = <<>>
    /\ recent = [c \in Clients |-> [a \in Ages |-> 0]]

----------------------------------------------------------------------------
(* Variants of the definitions below, each with one plausible mistake.     *)

\* >= for >: a record goes while its window is still open.
OverAtReset(record) == record.left <= 0

\* Every request pushes the end of the window away.
CountAndExtend(record) ==
    [count |-> IF record.count > maxRequests THEN record.count ELSE record.count + 1,
     left |-> windowMs]

\* The request that opens a window is not counted.
UncountedFirst == [count |-> 0, left |-> windowMs]

----------------------------------------------------------------------------
\* now > record.resetTime, in cleanup
Over(record) == record.left < 0

\* now > record.resetTime, in the middleware; true of NoRecord
Stale(record) == record.left < 0

NewWindow == [count |-> 1, left |-> windowMs]

CountHit(record) ==
    [record EXCEPT !.count = IF @ > maxRequests THEN @ ELSE @ + 1]

Allows(record) == record.count <= maxRequests

\* One request through the middleware: next() is called or the exception of
\* status 429 is thrown; the request is counted in either case.
middleware(c) ==
    LET record == IF Stale(hits[c]) THEN NewWindow ELSE CountHit(hits[c])
    IN  /\ hits' = [hits EXCEPT ![c] = record]
        /\ IF Allows(record)
           THEN /\ verdict' = <<c, "next">>
                /\ recent' = [recent EXCEPT ![c][0] = @ + 1]
           ELSE /\ verdict' = <<c, "429">>
                /\ UNCHANGED recent

\* The timer of the constructor
cleanup ==
    /\ hits' = [c \in Clients |-> IF Over(hits[c]) THEN NoRecord ELSE hits[c]]
    /\ UNCHANGED <<verdict, recent>>

\* external: time passes
LimiterTick ==
    /\ hits' = [c \in Clients |->
                    IF hits[c].left < 0 THEN hits[c] ELSE [hits[c] EXCEPT !.left = @ - 1]]
    /\ recent' = [c \in Clients |->
                    [a \in Ages |-> IF a = 0 THEN 0 ELSE recent[c][a - 1]]]
    /\ UNCHANGED verdict

LimiterNext ==
    \/ \E c \in Clients : middleware(c)
    \/ cleanup
    \/ LimiterTick

LimiterSpec == LimiterInit /\ [][LimiterNext]_limiterVars

\* Clients come again and time passes.  Nothing is asked of the timer.
LimiterFairness ==
    /\ WF_limiterVars(LimiterTick)
    /\ \A c \in Clients : WF_limiterVars(middleware(c))

----------------------------------------------------------------------------
Total(f) == SumFunctionOnSet(f, Ages)

\* The state of the limiter keeps its type.
LimiterTypeOK ==
    /\ hits \in [Clients -> RateLimitRecord]
    /\ recent \in [Clients -> [Ages -> Nat]]

\* Windows are per client and not aligned with anything, so a burst at the end
\* of one and at the start of the next add up: no span of windowMs lets more
\* than two windows' worth of requests through, cleaning included.
SpanBound == \A c \in Clients : Total(recent[c]) <= 2 * maxRequests

Window == INSTANCE FixedWindow WITH
    quota <- [c \in Clients |->
                IF hits[c].left < 0 THEN maxRequests
                ELSE IF hits[c].count > maxRequests THEN 0 ELSE maxRequests - hits[c].count],
    open <- [c \in Clients |-> hits[c].left]

\* Which requests the middleware lets through is what a fixed window promises:
\* neither the timer's cleaning, at whatever time it runs, nor the counting of
\* rejected requests can be seen from outside.
ImplementsWindow == Window!Spec

\* A client that was turned away and keeps asking is let through again.
Readmitted == \A c \in Clients : verdict = <<c, "429">> ~> verdict = <<c, "next">>
=============================================================================
