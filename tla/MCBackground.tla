---------------------------- MODULE MCBackground ----------------------------
(***************************************************************************)
(* What a server does beside its requests: downloads, the supervisor of    *)
(* the KV relays, the supervisor of the device leases and the solver of    *)
(* their weights, and how it ends.  These modules share no state, so a     *)
(* behaviour runs one of them while the others rest.                       *)
(***************************************************************************)
EXTENDS Downloads, RelaySupervisor, LeaseSupervisor, Shares, Lifetime

CONSTANTS First, Second   \* the connections of the life cycle

VARIABLE scope    \* which of them runs

bgvars == <<downloadVars, vars, leaseVars, shareVars, lifeVars, scope>>

Demands == {0, Unit \div 4, Unit}
MinShares == {0, Unit \div 2}

Entry(demands, values, floors) == [demand : demands, value : values, min_share : floors]

On(d, l, e) == [device |-> d, label |-> l, demand |-> e.demand, value |-> e.value,
                min_share |-> e.min_share]

\* Three engines on one device: floors that fit and that do not, values that
\* differ, agree or are zero, and demands met and not.
OneDevice ==
    {<<On(0, "A", a), On(0, "B", b), On(0, "C", c)>> :
        a \in Entry(Demands, 0..2, MinShares), b \in Entry(Demands, 0..2, MinShares),
        c \in Entry(Demands \ {0}, {1}, MinShares)}

\* A tensor-parallel engine on two devices, with another demand on each.
TensorParallel ==
    {<<On(0, "A", a), On(0, "B", b), On(1, "A", [a EXCEPT !.demand = x]), On(1, "C", c)>> :
        a \in Entry(Demands, 0..2, MinShares), x \in Demands,
        b \in Entry(Demands \ {0}, {1, 2}, {0}), c \in Entry(Demands \ {0}, {1, 2}, {0})}

MCProblems == OneDevice \cup TensorParallel

\* Connections open in order, though their requests are handled in any, and
\* only the second's native call may hang.
InOrder == conns[Second] # "none" => conns[First] # "none"

\* Relays and segments are interchangeable: a new one is always the same of
\* those that are free.
RelayInTurn ==
    \A r \in Relays : relays'[r].running /\ ~relays[r].running =>
        r = CHOOSE x \in Relays : ~relays[x].running /\ \A t \in Tags : tasks[t] # x

SegmentInTurn ==
    \A d \in Devices : names[d] = Absent /\ names'[d] # Absent =>
        names'[d] = CHOOSE s \in Segments : \A x \in Devices : s \notin {names[x], cache[x]}

\* The path of a call that is idle and the tag of a relay that never ran mean
\* nothing: one value of each is enough.
MCInit ==
    /\ DownloadInit /\ \A c, d \in Calls : calls[c] = calls[d]
    /\ Init
    /\ found.tag = CHOOSE t \in Tags : TRUE
    /\ \A r \in Relays : relays[r].tag = found.tag
    /\ LeaseInit
    /\ scope \in {"downloads", "relays", "leases", "shares", "life"}
    /\ ShareInit
    /\ scope # "shares" => problem = CHOOSE p \in Problems : TRUE
    /\ LifeInit
    /\ hangs \subseteq (IF scope = "life" THEN {Second} ELSE {})

MCNext ==
    \/ /\ scope = "downloads" /\ DownloadNext
       /\ UNCHANGED <<vars, leaseVars, shareVars, lifeVars, scope>>
    \/ /\ scope = "relays" /\ Next /\ RelayInTurn
       /\ UNCHANGED <<downloadVars, leaseVars, shareVars, lifeVars, scope>>
    \/ /\ scope = "leases" /\ LeaseNext /\ SegmentInTurn
       /\ UNCHANGED <<downloadVars, vars, shareVars, lifeVars, scope>>
    \/ /\ scope = "shares" /\ ShareNext
       /\ UNCHANGED <<downloadVars, vars, leaseVars, lifeVars, scope>>
    \/ /\ scope = "life" /\ LifeNext /\ InOrder'
       /\ UNCHANGED <<downloadVars, vars, leaseVars, shareVars, scope>>

MCSpec ==
    /\ MCInit /\ [][MCNext]_bgvars
    /\ DownloadFairness /\ Fairness /\ LeaseFairness /\ LifeFairness
=============================================================================
