--------------------------- MODULE RouteSelection ---------------------------
(***************************************************************************)
(* How link-router chooses among the destinations of a route: the filters  *)
(* by cooldown, risk and country, and the two strategies. A destination is *)
(* a record of its id, weight, whether its cooldown is on, its risk score  *)
(* and the countries it is for, {} for all. Draws and turns are parameters.*)
(***************************************************************************)
EXTENDS Integers, Sequences, FiniteSets, Functions

CONSTANTS
    MaxRiskScore,
    NoCountry,      \* no header names a country
    Countries,      \* the countries a visitor may come from
    MaxLength,      \* bounds of the routes that are checked: destinations,
    MaxWeight       \* and the weight of each

ASSUME SelectionAssumption ==
    /\ MaxRiskScore \in Nat \ {0} /\ MaxLength \in Nat /\ MaxWeight \in Nat
    /\ NoCountry \notin Countries

-----------------------------------------------------------------------------

IsRisky(d) == d.score >= MaxRiskScore

\* The destinations of a route that are kept, in their order.
Only(dests, kept) ==
    LET taken[i \in 0..Len(dests)] ==
            IF i = 0 THEN <<>>
            ELSE IF dests[i] \in kept THEN Append(taken[i - 1], dests[i]) ELSE taken[i - 1]
    IN  taken[Len(dests)]

filterDestinations(dests) == Only(dests, {d \in Range(dests) : ~d.cooling /\ ~IsRisky(d)})

FilterByCountry(dests, country) ==
    IF country = NoCountry
    THEN dests
    ELSE Only(dests, {d \in Range(dests) : d.allowed = {} \/ country \in d.allowed})

Eligible(dests, country) == FilterByCountry(filterDestinations(dests), country)

\* The running totals of the weights, from 0 to the total of all.
Cumulative(dests) ==
    LET cumulative[i \in 0..Len(dests)] ==
            IF i = 0 THEN 0 ELSE cumulative[i - 1] + dests[i].weight
    IN  cumulative

TotalWeight(dests) == Cumulative(dests)[Len(dests)]

\* Mutant: off by one.
SelectWeightedUpTo(dests, r) ==
    LET cumulative == Cumulative(dests)
    IN  IF TotalWeight(dests) = 0
        THEN Head(dests)
        ELSE dests[CHOOSE i \in DOMAIN dests :
                       r <= cumulative[i] /\ \A j \in 1..i - 1 : r > cumulative[j]]

\* For r drawn below the total weight: the first destination whose running
\* total exceeds r. There is one unless a weight is negative, and the last
\* return of the code is not reached.
SelectWeighted(dests, r) ==
    LET cumulative == Cumulative(dests)
    IN  IF TotalWeight(dests) = 0
        THEN Head(dests)
        ELSE dests[CHOOSE i \in DOMAIN dests :
                       r < cumulative[i] /\ \A j \in 1..i - 1 : r >= cumulative[j]]

\* Turn idx of the link's cursor, which INCR has just returned.
SelectRoundRobin(dests, idx) == dests[((idx - 1) % Len(dests)) + 1]

-----------------------------------------------------------------------------
(* The reference: who may serve a visitor, one destination at a time.      *)

MayServe(d, country) ==
    /\ ~d.cooling /\ d.score < MaxRiskScore
    /\ country = NoCountry \/ d.allowed = {} \/ country \in d.allowed

Routes ==
    LET Kind == [weight : 0..MaxWeight, cooling : BOOLEAN, score : {0, MaxRiskScore},
                 allowed : SUBSET Countries]
        Numbered(f) ==
            [i \in DOMAIN f |->
                [id |-> i, weight |-> f[i].weight, cooling |-> f[i].cooling,
                 score |-> f[i].score, allowed |-> f[i].allowed]]
    IN  {Numbered(f) : f \in UNION {[1..n -> Kind] : n \in 1..MaxLength}}

\* Of all draws of rand.Intn each destination that may serve the visitor gets
\* as many as its weight says and the others none, one that may serve him if
\* all weights are zero; and the same destinations take one turn each in any
\* Len(left) turns in a row. Neither a destination the filters take out nor a
\* zero weight shifts the shares of the others (Resolve, SelectWeighted,
\* SelectRoundRobin).
FairlyShared(dests) ==
    \A country \in Countries \cup {NoCountry} :
        LET left == Eligible(dests, country)
            may == {i \in DOMAIN dests : MayServe(dests[i], country)}
            total == TotalWeight(left)
            Draws(i) == {r \in 0..total - 1 : SelectWeighted(left, r).id = i}
            Turns(first) == {SelectRoundRobin(left, t).id : t \in first..first + Len(left) - 1}
        IN  /\ \A i \in DOMAIN dests :
                   Cardinality(Draws(i)) = IF total > 0 /\ i \in may THEN dests[i].weight ELSE 0
            /\ left # <<>> => SelectWeighted(left, 0).id \in may
            /\ \A first \in 1..Len(left) : Turns(first) = may

=============================================================================
