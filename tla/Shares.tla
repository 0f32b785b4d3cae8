------------------------------- MODULE Shares -------------------------------
(***************************************************************************)
(* How the weight solver divides the time of the devices among the engines *)
(* registered on them (solve_shares, plan_shares and weight in             *)
(* src/serving/lease_weights.rs).                                          *)
(*                                                                         *)
(* A share is a number of Unit-ths of a device's time.  Where the code     *)
(* divides doubles the quotient is rounded down to a Unit-th, and EPSILON, *)
(* which absorbs the error of the code's sums, is Epsilon Unit-ths.        *)
(* Demands are what DemandTracker::observe returned.                       *)
(***************************************************************************)
EXTENDS Integers, Sequences, FiniteSets, SequencesExt

CONSTANTS
    Unit,        \* the whole of a device's time
    Epsilon,     \* what counts as nothing left to give, or to want
    Problems     \* inputs of one tick: registrants, in the order of stats()

ASSUME UnitAssumption == Unit \in Nat \ {0} /\ Unit % 2000 = 0

ASSUME EpsilonAssumption == Epsilon \in Nat

\* Registrants have a device, a label, a demand, a value and a floor.
ASSUME ProblemsAssumption ==
    \A p \in Problems :
        /\ p \in Seq(ToSet(p))
        /\ \A i \in DOMAIN p :
              /\ p[i].demand \in 0..Unit
              /\ p[i].min_share \in 0..Unit
              /\ p[i].value \in Nat

VARIABLES
    problem,    \* the registrants
    pass,       \* "first", "second", then "done"
    unsolved,   \* by_device, what is left of it in this pass
    here,       \* the indices of the device being solved, or none
    free,       \* and its time still to be given out
    tiers,      \* the values still to be served
    wanting,    \* indices of the tier being served that want more
    shares,     \* the shares given out in this pass
    first       \* those of the first pass

shareVars == <<problem, pass, unsolved, here, free, tiers, wanting, shares, first>>

-----------------------------------------------------------------------------

Clamp(x, lo, hi) == IF x < lo THEN lo ELSE IF x > hi THEN hi ELSE x

Indices == DOMAIN problem

OnDevice(d) == {i \in Indices : problem[i].device = d}

Labelled(l) == {i \in Indices : problem[i].label = l}

by_device == {problem[i].device : i \in Indices}

\* Mutant of Cap: a tensor-parallel engine is not capped by its bottleneck
\* but held to the lesser of it and its floor.
CapByFloor(i) ==
    LET ranks == Labelled(problem[i].label)
    IN  IF Cardinality(ranks) = 1 THEN Unit
        ELSE Min({first[j] : j \in ranks} \cup {problem[i].min_share})

\* What a tensor-parallel engine can use: its smallest share on any device.
\* Others have no cap; no demand exceeds Unit.
Cap(i) ==
    LET ranks == Labelled(problem[i].label)
    IN  IF Cardinality(ranks) = 1 THEN Unit ELSE Min({first[j] : j \in ranks})

\* The demands the second pass and the first solve for.
Capped == [i \in Indices |-> Min({problem[i].demand, Cap(i)})]

Uncapped == [i \in Indices |-> problem[i].demand]

Demand == IF pass = "first" THEN Uncapped ELSE Capped

\* Floors are capped at the demand.
Floor(i, demand) == Min({problem[i].min_share, demand[i]})

Floors(I, demand) == SumFunctionOnSet([i \in I |-> Floor(i, demand)], I)

ShareInit ==
    /\ problem \in Problems
    /\ pass = "first"
    /\ unsolved = by_device
    /\ here = {} /\ tiers = {} /\ wanting = {}
    /\ free = 0
    /\ shares = [i \in Indices |-> 0]
    /\ first = shares

-----------------------------------------------------------------------------
(* One device.                                                             *)

\* solve_shares starts with the floors.
Begin(d) ==
    /\ here = {} /\ d \in unsolved /\ \A e \in unsolved : d <= e
    /\ unsolved' = unsolved \ {d}
    /\ here' = OnDevice(d)
    /\ shares' = [i \in Indices |-> IF i \in here' THEN Floor(i, Demand) ELSE shares[i]]
    /\ free' = Clamp(Unit - Floors(here', Demand), 0, Unit)
    /\ tiers' = {problem[i].value : i \in here'}
    /\ wanting' = {}
    /\ UNCHANGED <<problem, pass, first>>

\* The retain of a round: i gets up to an even part of what was free, and goes
\* on wanting if its demand is not met.
Grant(i) ==
    IF i \in wanting
    THEN Clamp(Demand[i] - shares[i], 0, free \div Cardinality(wanting)) ELSE 0

Round ==
    /\ wanting # {} /\ free > Epsilon
    /\ shares' = [i \in Indices |-> shares[i] + Grant(i)]
    /\ free' = free - SumFunctionOnSet([i \in wanting |-> Grant(i)], wanting)
    /\ wanting' = {i \in wanting : Demand[i] - shares'[i] > Epsilon}
    /\ UNCHANGED <<problem, pass, unsolved, here, tiers, first>>

\* The loop over a tier is over.
TierServed == wanting = {} \/ free <= Epsilon

\* Mutant of Served: the lowest value first.
ServedLowest(v) == v \in tiers /\ \A t \in tiers : v <= t

\* Highest value first.
Served(v) == v \in tiers /\ \A t \in tiers : t <= v

NextTier ==
    /\ here # {} /\ TierServed
    /\ \E v \in tiers :
          /\ Served(v)
          /\ tiers' = tiers \ {v}
          /\ wanting' = {i \in here : problem[i].value = v}
    /\ UNCHANGED <<problem, pass, unsolved, here, free, shares, first>>

\* What is left is divided by value.
Leftover(i) ==
    LET total == SumFunctionOnSet([j \in here |-> problem[j].value], here)
    IN  IF i \notin here \/ total = 0 THEN 0 ELSE (free * problem[i].value) \div total

Leftovers ==
    /\ here # {} /\ TierServed /\ tiers = {}
    /\ shares' = [i \in Indices |-> shares[i] + Leftover(i)]
    /\ here' = {} /\ wanting' = {} /\ free' = 0
    /\ UNCHANGED <<problem, pass, unsolved, tiers, first>>

-----------------------------------------------------------------------------
(* All devices, twice.                                                     *)

EndPass ==
    /\ here = {} /\ unsolved = {}
    /\ \/ /\ pass = "first" /\ pass' = "second"
          /\ first' = shares /\ shares' = [i \in Indices |-> 0]
          /\ unsolved' = by_device
       \/ /\ pass = "second" /\ pass' = "done"
          /\ UNCHANGED <<first, shares, unsolved>>
    /\ UNCHANGED <<problem, here, free, tiers, wanting>>

ShareNext == (\E d \in unsolved : Begin(d)) \/ Round \/ NextTier \/ Leftovers \/ EndPass

ShareSpec == ShareInit /\ [][ShareNext]_shareVars

\* 1000ths of a share, rounded, and never 0, which would mean free-run.
weight(share) ==
    LET rounded == (share + (Unit \div 2000)) \div (Unit \div 1000)
    IN  IF rounded < 1 THEN 1 ELSE rounded

-----------------------------------------------------------------------------
(* Properties.                                                             *)

\* What "fractional-knapsack share split" promises of shares s on a device
\* (comment of solve_shares), up to Epsilon and a Unit-th of rounding for each
\* registrant: floors are kept; the whole device is given out unless the
\* floors alone exceed it or nobody has a value; nobody has more than its
\* floor while a higher value wants more; equal values that compete get equal
\* extras; and time beyond the demands is divided by value once all are met.
RightlySplit(I, demand, s) ==
    LET extra(i) == s[i] - Floor(i, demand)
        over(i) == s[i] - demand[i]
        value(i) == problem[i].value
        given == SumFunctionOnSet(s, I)
    IN  /\ \A i \in I : extra(i) >= 0
        /\ Floors(I, demand) <= Unit =>
              /\ given <= Unit
              /\ \/ Unit - given <= Cardinality(I)
                 \/ /\ \A i \in I : value(i) = 0 /\ over(i) <= 0
                    /\ Unit - given <= Epsilon \/ \A i \in I : over(i) >= -Epsilon
        /\ Floors(I, demand) > Unit => \A i \in I : extra(i) = 0
        /\ \A i, j \in I :
              /\ value(i) > value(j) /\ over(i) < -Epsilon => extra(j) <= Epsilon
              /\ value(i) = value(j) /\ over(i) < -Epsilon => extra(j) <= extra(i)
              /\ over(i) > Epsilon =>
                    /\ over(j) >= -Epsilon
                    /\ over(i) * value(j) <= (over(j) + Epsilon + 1) * value(i)

\* Each device's time is split as promised, so no order of rounds, caps and
\* tiers starves or overpays an engine, and the weights the lease reads keep
\* the order of the shares (lease_weights.rs:61-93, 131-134).
SharesSplit ==
    pass = "done" =>
        \A d \in by_device :
            /\ RightlySplit(OnDevice(d), Uncapped, first)
            /\ RightlySplit(OnDevice(d), Capped, shares)
            /\ \A i, j \in OnDevice(d) :
                  shares[i] <= shares[j] => weight(shares[i]) <= weight(shares[j])

\* Capping tensor-parallel engines at their bottleneck only helps: an engine
\* on one device never gets less than it would without, and one on several
\* keeps its bottleneck on every device that it wants that much of, up to a
\* few Epsilon for each registrant of the device (lease_weights.rs:95-129).
NobodyLoses ==
    pass = "done" =>
        \A i \in Indices :
            LET ranks == Labelled(problem[i].label)
                bottleneck == Min({first[j] : j \in ranks})
                slack == (2 * Cardinality(OnDevice(problem[i].device)) + 1) * Epsilon
            IN  /\ shares[i] + slack >= Min({bottleneck, problem[i].demand})
                /\ Cardinality(ranks) = 1 => shares[i] + slack >= first[i]
=============================================================================
