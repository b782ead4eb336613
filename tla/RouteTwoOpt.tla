---------------------------- MODULE RouteTwoOpt -----------------------------
(***************************************************************************)
(* twoOptOptimization (packages/common/src/utils/mathOptimization.ts), one *)
(* action per round of its loop.  The great-circle distance is any given   *)
(* distance in whole units, and an improvement of a whole unit is more     *)
(* than the 0.001 the code asks for.  Stops are counted from 1.            *)
(***************************************************************************)
EXTENDS Naturals, Sequences, FiniteSets, Functions, SequencesExt

CONSTANTS
    Routes,             \* the routes that are to be improved
    Distance(_, _),     \* haversineDistanceKm
    maxIterations

\* The distances between the stops of a route are numbers.
ASSUME RouteAssumption ==
    \A r \in Routes :
        /\ r \in Seq(Range(r))
        /\ \A a, b \in Range(r) : Distance(a, b) \in Nat

VARIABLES
    route,              \* the route that was given
    bestRoute, bestDistance, iterations, improved

routeVars == <<route, bestRoute, bestDistance, iterations, improved>>

computeTotalRouteDistanceKm(r) ==
    SumFunction([i \in 1 .. Len(r) - 1 |-> Distance(r[i], r[i + 1])])

\* Variants with one plausible mistake: a stop is lost, and the last stop but
\* one is never moved.
SwapLosingStop(r, i, k) ==
    SubSeq(r, 1, i - 1) \o Reverse(SubSeq(r, i, k - 1)) \o SubSeq(r, k + 1, Len(r))
FewerSwaps(r) == {s \in (2 .. Len(r)) \X (3 .. Len(r)) : s[1] < s[2] /\ s[2] < Len(r) - 1}

twoOptSwap(r, i, k) ==
    SubSeq(r, 1, i - 1) \o Reverse(SubSeq(r, i, k)) \o SubSeq(r, k + 1, Len(r))

\* The pairs the two loops go through
Swaps(r) == {s \in (2 .. Len(r)) \X (3 .. Len(r)) : s[1] < s[2] /\ s[2] < Len(r)}

\* The loops go up in i and then in j.
Earlier(s, t) == s[1] < t[1] \/ (s[1] = t[1] /\ s[2] < t[2])

\* A route of at most three stops is returned as it is.
RouteInit ==
    /\ route \in Routes
    /\ bestRoute = route
    /\ bestDistance = computeTotalRouteDistanceKm(route)
    /\ iterations = 0
    /\ improved = (Len(route) > 3)

\* The first swap that shortens the route is taken and ends the round.
Improve ==
    /\ improved
    /\ iterations < maxIterations
    /\ iterations' = iterations + 1
    /\ LET length(s) == computeTotalRouteDistanceKm(twoOptSwap(bestRoute, s[1], s[2]))
           shorter == {s \in Swaps(bestRoute) : length(s) < bestDistance}
       IN  \/ /\ shorter = {}
              /\ improved' = FALSE
              /\ UNCHANGED <<bestRoute, bestDistance>>
           \/ \E s \in shorter :
              /\ \A t \in shorter : ~Earlier(t, s)
              /\ bestRoute' = twoOptSwap(bestRoute, s[1], s[2])
              /\ bestDistance' = length(s)
              /\ improved' = TRUE
    /\ UNCHANGED route

RouteSpec == RouteInit /\ [][Improve]_routeVars

----------------------------------------------------------------------------
Count(r, stop) == Cardinality({i \in DOMAIN r : r[i] = stop})

\* Whenever the loop is left off, the route has the stops that were given with
\* the same first and last one, is as long as is said, and is no longer than
\* the one that was given.
RouteKept ==
    /\ Len(bestRoute) = Len(route)
    /\ bestRoute[1] = route[1] /\ Last(bestRoute) = Last(route)
    /\ \A stop \in ToSet(route) : Count(bestRoute, stop) = Count(route, stop)
    /\ bestDistance = computeTotalRouteDistanceKm(bestRoute)
    /\ bestDistance <= computeTotalRouteDistanceKm(route)

\* A route that is given up before the limit on the rounds cannot be shortened
\* by turning round any stretch between its ends.
LocallyOptimal ==
    ~improved /\ Len(route) > 1 =>
        \A i, k \in 2 .. Len(bestRoute) - 1 : i < k =>
            computeTotalRouteDistanceKm(twoOptSwap(bestRoute, i, k)) >= bestDistance
=============================================================================
