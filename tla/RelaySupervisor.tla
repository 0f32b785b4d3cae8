-------------------------- MODULE RelaySupervisor ---------------------------
(***************************************************************************)
(* The supervisor of the KV event relays (run and discover_endpoint in     *)
(* src/control/kv_relay.rs): every SCAN_INTERVAL it compares the Ready     *)
(* models with the relay tasks it has, and at shutdown it awaits them.     *)
(*                                                                         *)
(* A step is what the supervisor does between two awaits: a scan's         *)
(* bookkeeping, the lookup before a discovery, and what follows it.  The   *)
(* registry is an environment that loads and unloads models; an engine is  *)
(* named by the number of its load.  A relay is the module KvRelay; here   *)
(* it runs until it is cancelled or panics.                                *)
(***************************************************************************)
EXTENDS Naturals

CONSTANTS
    Tags,
    Routed,     \* the tags whose model has a kv sidecar
    Relays,     \* identities of spawned relay tasks and their tokens
    NoRelay,
    MaxLoads    \* bound: loads, over all tags

ASSUME RoutedAssumption == Routed \subseteq Tags
ASSUME NoRelayAssumption == NoRelay \notin Relays
ASSUME MaxLoadsAssumption == MaxLoads \in Nat

VARIABLES
    ready,          \* each tag's Ready engine, 0 if it has none
    loads,          \* how many loads there have been
    relays,         \* every relay task: of which engine, its token, if it runs
    tasks,          \* the supervisor's tag -> (token, handle) map
    not_kv_routed,
    pc,             \* where the supervisor is
    todo,           \* ready tags of this scan still to be looked at
    found,          \* the tag whose sidecar is being predicted, and its engine
    shutdown        \* the shutdown token is cancelled

vars == <<ready, loads, relays, tasks, not_kv_routed, pc, todo, found, shutdown>>

env == <<ready, loads, shutdown>>
sup == <<tasks, not_kv_routed, pc, todo, found>>

Relay == [tag : Tags, engine : 0..MaxLoads, cancelled : BOOLEAN,
          running : BOOLEAN]

Init ==
    /\ ready = [t \in Tags |-> 0]
    /\ loads = 0
    /\ relays \in [Relays -> {x \in Relay : x.engine = 0 /\ x.cancelled /\ ~x.running}]
    /\ tasks = [t \in Tags |-> NoRelay]
    /\ not_kv_routed = {}
    /\ pc = "select"
    /\ todo = {}
    /\ found \in [tag : Tags, engine : {0}]
    /\ shutdown = FALSE

-----------------------------------------------------------------------------
(* The registry and main.                                                  *)

Load(t) ==
    /\ ready[t] = 0 /\ loads < MaxLoads
    /\ loads' = loads + 1
    /\ ready' = [ready EXCEPT ![t] = loads + 1]
    /\ UNCHANGED <<relays, sup, shutdown>>

Unload(t) ==
    /\ ready[t] # 0
    /\ ready' = [ready EXCEPT ![t] = 0]
    /\ UNCHANGED <<relays, sup, loads, shutdown>>

\* The relays' tokens are children of the shutdown token.
Shutdown ==
    /\ ~shutdown
    /\ shutdown' = TRUE
    /\ relays' = [r \in Relays |-> [relays[r] EXCEPT !.cancelled = TRUE]]
    /\ UNCHANGED <<sup, ready, loads>>

-----------------------------------------------------------------------------
(* The relay tasks.                                                        *)

RelayReturns(r) ==
    /\ relays[r].running /\ relays[r].cancelled
    /\ relays' = [relays EXCEPT ![r].running = FALSE]
    /\ UNCHANGED <<env, sup>>

RelayPanics(r) ==
    /\ relays[r].running /\ ~relays[r].cancelled
    /\ relays' = [relays EXCEPT ![r].running = FALSE]
    /\ UNCHANGED <<env, sup>>

-----------------------------------------------------------------------------
(* The supervisor.                                                         *)

Ready == {t \in Tags : ready[t] # 0}

\* Mutant of Kept: a finished task counts as one that runs.
KeptFinished == {t \in Ready : tasks[t] # NoRelay}

\* The tasks the scan keeps: of Ready models, not finished.
Kept == {t \in Ready : tasks[t] # NoRelay /\ relays[tasks[t]].running}

\* Mutant of Dropped: a model's relay is forgotten without its token.
DroppedNone == {}

\* The tokens it cancels: of models that are not Ready.
Dropped == {tasks[t] : t \in Tags \ Ready} \ {NoRelay}

\* The interval ticks (which select! may prefer to a cancelled shutdown).
Tick ==
    /\ pc = "select"
    /\ relays' = [r \in Relays |->
                    [relays[r] EXCEPT !.cancelled = @ \/ r \in Dropped]]
    /\ tasks' = [t \in Tags |-> IF t \in Kept THEN tasks[t] ELSE NoRelay]
    /\ not_kv_routed' = not_kv_routed \cap Ready
    /\ todo' = Ready \ (Kept \cup not_kv_routed)
    /\ pc' = IF todo' = {} THEN "select" ELSE "scan"
    /\ UNCHANGED <<env, found>>

\* The loop goes on with the next ready tag, or back to select!.
NextTag(t) ==
    /\ todo' = todo \ {t}
    /\ pc' = IF todo' = {} THEN "select" ELSE "scan"

\* discover_endpoint finds no Ready model any more: None.
DiscoverGone(t) ==
    /\ pc = "scan" /\ t \in todo
    /\ ready[t] = 0
    /\ not_kv_routed' = not_kv_routed \cup {t}
    /\ NextTag(t)
    /\ UNCHANGED <<env, relays, tasks, found>>

\* It predicts the sidecar through the model it found.
Discover(t) ==
    /\ pc = "scan" /\ t \in todo
    /\ ready[t] # 0
    /\ found' = [tag |-> t, engine |-> ready[t]]
    /\ pc' = "predict"
    /\ UNCHANGED <<env, relays, tasks, not_kv_routed, todo>>

\* The prediction fails: there is no sidecar, or something went wrong.
PredictFails ==
    /\ pc = "predict"
    /\ not_kv_routed' = not_kv_routed \cup {found.tag}
    /\ NextTag(found.tag)
    /\ UNCHANGED <<env, relays, tasks, found>>

\* Mutant of Attach: the relay's token is not a child of the shutdown token.
AttachUnparented(r) ==
    /\ pc = "predict" /\ found.tag \in Routed
    /\ ~relays[r].running /\ \A t \in Tags : tasks[t] # r
    /\ relays' = [relays EXCEPT ![r] =
                    [tag |-> found.tag, engine |-> found.engine,
                     cancelled |-> FALSE, running |-> TRUE]]
    /\ tasks' = [tasks EXCEPT ![found.tag] = r]
    /\ NextTag(found.tag)
    /\ UNCHANGED <<env, not_kv_routed, found>>

\* The prediction names the endpoint of the engine it ran on.
Attach(r) ==
    /\ pc = "predict" /\ found.tag \in Routed
    /\ ~relays[r].running /\ \A t \in Tags : tasks[t] # r
    /\ relays' = [relays EXCEPT ![r] =
                    [tag |-> found.tag, engine |-> found.engine,
                     cancelled |-> shutdown, running |-> TRUE]]
    /\ tasks' = [tasks EXCEPT ![found.tag] = r]
    /\ NextTag(found.tag)
    /\ UNCHANGED <<env, not_kv_routed, found>>

\* The other branch of select!.
Stop ==
    /\ pc = "select" /\ shutdown
    /\ pc' = "await"
    /\ UNCHANGED <<env, relays, tasks, not_kv_routed, todo, found>>

\* Every handle in the map has finished.
Awaited ==
    /\ pc = "await"
    /\ \A t \in Tags : tasks[t] # NoRelay => ~relays[tasks[t]].running
    /\ pc' = "returned"
    /\ UNCHANGED <<env, relays, tasks, not_kv_routed, todo, found>>

Supervise ==
    \/ Tick \/ Stop \/ Awaited \/ PredictFails
    \/ \E t \in Tags : DiscoverGone(t) \/ Discover(t)
    \/ \E r \in Relays : Attach(r)

Next ==
    \/ \E t \in Tags : Load(t) \/ Unload(t)
    \/ Shutdown
    \/ \E r \in Relays : RelayReturns(r) \/ RelayPanics(r)
    \/ Supervise

Spec == Init /\ [][Next]_vars

\* The runtime polls the supervisor and every relay; select! picks a ready
\* branch at random, so a cancelled shutdown is seen in the end; KvRelay shows
\* that a cancelled relay returns.
Fairness ==
    /\ WF_vars(Supervise)
    /\ SF_vars(Stop)
    /\ \A r \in Relays : WF_vars(RelayReturns(r))

-----------------------------------------------------------------------------

TypeOK ==
    /\ ready \in [Tags -> 0..MaxLoads] /\ loads \in 0..MaxLoads
    /\ relays \in [Relays -> Relay]
    /\ tasks \in [Tags -> Relays \cup {NoRelay}]
    /\ not_kv_routed \subseteq Tags /\ todo \subseteq Tags
    /\ pc \in {"select", "scan", "predict", "await", "returned"}
    /\ found \in [tag : Tags, engine : 0..MaxLoads]
    /\ shutdown \in BOOLEAN

Live(r) == relays[r].running /\ ~relays[r].cancelled

\* A relay that is not cancelled is in the map under its tag, so a later scan
\* or shutdown can still cancel it, and a tag never has two (kv_relay.rs:88).
Owned == \A r \in Relays : Live(r) => tasks[relays[r].tag] = r

\* When the supervisor has returned, every relay in its map is over, and a
\* retired one that has not noticed yet is cancelled (kv_relay.rs:113-118).
StopsAll ==
    pc = "returned" =>
        \A r \in Relays : relays[r].running =>
            /\ relays[r].cancelled
            /\ \A t \in Tags : tasks[t] # r

Attached(t) == \E r \in Relays : Live(r) /\ relays[r].tag = t

\* Scans keep up with the registry: a model that stays Ready is attached,
\* unless its discovery failed once, which is remembered; a relay whose model
\* stays unloaded is cancelled and ends (kv_relay.rs:87-111).
Tracks ==
    /\ \A t \in Tags :
          (ready[t] # 0) ~> (Attached(t) \/ ready[t] = 0 \/ t \in not_kv_routed \/ shutdown)
    /\ \A r \in Relays :
          relays[r].running ~> (~relays[r].running \/ ready[relays[r].tag] # 0)

\* Shutdown is never held up by a relay or a scan, and leaves nothing running
\* that is not about to end (kv_relay.rs:113-118).
Stops == shutdown ~> (pc = "returned" /\ StopsAll)
=============================================================================
