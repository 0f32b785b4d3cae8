-------------------------------- MODULE Node --------------------------------
(***************************************************************************)
(* A fleet node: the registry together with the two parts that share its   *)
(* download gate and its status signal - the cache tracker                 *)
(* (src/serving/cache.rs) and the control-plane heartbeat                  *)
(* (src/control/heartbeat.rs), with the drain flag and shutdown of main.rs *)
(* and state.rs.                                                           *)
(*                                                                         *)
(* The heartbeat's task is the one that Registry calls ctl: every registry *)
(* operation it performs is the registry's own action, so a node is also a *)
(* Registry!FleetSpec.  The control plane answers a beat with any goals.   *)
(***************************************************************************)
EXTENDS Registry, Sequences

ASSUME TagsFinite == IsFiniteSet(Tags)

VARIABLES
    cache,      \* CacheTracker::states; "Cooling" is Failed within the backoff
    queued,     \* download tasks of a tag waiting in wait_idle
    running,    \* download tasks of a tag that are downloading
    pc,         \* the heartbeat task
    models,     \* tags of the response being applied, in its order
    goals,      \* their descriptors
    goaldrain,  \* HeartbeatResponse::drain
    todo,       \* positions of the response still to be handled
    cur,        \* the tag whose directive is being applied
    final,      \* the loop has been left for the last beat
    report,     \* the NodeStatus collected last
    delivered,  \* the control plane received it
    draining,   \* AppState::draining
    shutdown    \* watch_signals: "no", "drained", then "cancelled"

nodevars == <<cache, queued, running, pc, models, goals, goaldrain, todo, cur, final,
              report, delivered, draining, shutdown>>
response == <<models, goals, goaldrain>>
hbvars == <<response, todo, cur, final, report, delivered>>
diskvars == <<cache, queued, running>>
allvars == <<slots, loads, watch, engines, reqs, ctl, assigned, gate, permit, boot, nodevars>>

Lifecycle == {"absent", "Loading", "Ready", "Failed", "Caching", "Cached"}

Goal == [res : {"absent", "process", "disk", "none"}, devices : DevOpt]
NoGoal == [res |-> "absent", devices |-> NoDev]

NodeStatus == [models : [Tags -> Lifecycle], draining : BOOLEAN]

\* Each tag at most once, in any order.
Orders ==
    {s \in UNION {[1..n -> Tags] : n \in 0..Cardinality(Tags)} :
        \A i, j \in DOMAIN s : s[i] = s[j] => i = j}

NodeTypeOK ==
    /\ cache \in [Tags -> {"absent", "Caching", "Cached", "Failed", "Cooling"}]
    /\ queued \in [Tags -> Nat]
    /\ running \in [Tags -> Nat]
    /\ pc \in {"select", "collect", "cachesnap", "posting", "store", "directive", "unloading", "warm",
               "warming", "cache", "done"}
    /\ models \in Seq(Tags)
    /\ goals \in [Tags -> Goal]
    /\ goaldrain \in BOOLEAN
    /\ todo \subseteq DOMAIN models
    /\ cur \in Tags
    /\ final \in BOOLEAN
    /\ report \in NodeStatus
    /\ delivered \in BOOLEAN
    /\ draining \in BOOLEAN
    /\ shutdown \in {"no", "drained", "cancelled"}

Nothing == [models |-> [t \in Tags |-> "absent"], draining |-> FALSE]

NodeInit ==
    /\ Init
    /\ cache = [t \in Tags |-> "absent"]
    /\ queued = [t \in Tags |-> 0]
    /\ running = [t \in Tags |-> 0]
    /\ pc = "select"
    /\ models = <<>>
    /\ goals = [t \in Tags |-> NoGoal]
    /\ goaldrain = FALSE
    /\ todo = {}
    /\ cur = AnyTag
    /\ final = FALSE
    /\ report = Nothing
    /\ delivered = TRUE
    /\ draining = FALSE
    /\ shutdown = "no"

-----------------------------------------------------------------------------
(* The cache tracker.                                                      *)

\* Mutant of ensure_cached: the download also holds a priority guard.
CachedWithPriority(t, priority) ==
    IF cache[t] \in {"Caching", "Cached", "Cooling"}
    THEN UNCHANGED <<vars, diskvars>>
    ELSE /\ cache' = [cache EXCEPT ![t] = "Caching"]
         /\ status_changed /\ enter_priority
         /\ running' = [running EXCEPT ![t] = running[t] + 1] /\ queued' = queued
         /\ UNCHANGED <<slots, loads, watch, engines, reqs, ctl, assigned, boot>>

\* A tag already caching, cached or cooling down is left alone; else its
\* download is spawned, behind the gate when it is a prefetch.
ensure_cached(t, priority) ==
    IF cache[t] \in {"Caching", "Cached", "Cooling"}
    THEN UNCHANGED <<vars, diskvars>>
    ELSE /\ cache' = [cache EXCEPT ![t] = "Caching"]
         /\ StatusSignal
         /\ IF priority = "Prefetch"
            THEN queued' = [queued EXCEPT ![t] = queued[t] + 1] /\ running' = running
            ELSE running' = [running EXCEPT ![t] = running[t] + 1] /\ queued' = queued

\* Mutant of forget_failed: a download in progress is forgotten too.
ForgetAny(t) ==
    /\ cache' = [cache EXCEPT ![t] = "absent"]
    /\ StatusSignal
    /\ UNCHANGED <<queued, running>>

forget_failed(t) ==
    IF cache[t] \in {"Failed", "Cooling"}
    THEN /\ cache' = [cache EXCEPT ![t] = "absent"]
         /\ StatusSignal
         /\ UNCHANGED <<queued, running>>
    ELSE UNCHANGED <<vars, diskvars>>

\* wait_idle resolves.
StartPrefetch(t) ==
    /\ queued[t] > 0
    /\ gate = 0
    /\ queued' = [queued EXCEPT ![t] = queued[t] - 1]
    /\ running' = [running EXCEPT ![t] = running[t] + 1]
    /\ UNCHANGED <<vars, cache, pc, hbvars, draining, shutdown>>

\* Mutant of FinishDownload: the heartbeat is not told.
FinishQuietly(t, state) ==
    /\ running[t] > 0
    /\ running' = [running EXCEPT ![t] = running[t] - 1]
    /\ cache' = [cache EXCEPT ![t] = state]
    /\ UNCHANGED <<vars, queued, pc, hbvars, draining, shutdown>>

\* The download ends and its task writes the terminal state.
FinishDownload(t, state) ==
    /\ running[t] > 0
    /\ running' = [running EXCEPT ![t] = running[t] - 1]
    /\ cache' = [cache EXCEPT ![t] = state]
    /\ StatusSignal
    /\ UNCHANGED <<queued, pc, hbvars, draining, shutdown>>

\* FAILED_RETRY_BACKOFF passes.
CacheCoolDown(t) ==
    /\ cache[t] = "Cooling"
    /\ cache' = [cache EXCEPT ![t] = "Failed"]
    /\ UNCHANGED <<vars, queued, running, pc, hbvars, draining, shutdown>>

-----------------------------------------------------------------------------
(* Draining and shutdown.                                                  *)

set_draining(d) == draining' = d /\ StatusSignal

\* POST /drain.
Drain ==
    /\ set_draining(TRUE)
    /\ UNCHANGED <<diskvars, pc, hbvars, shutdown>>

\* watch_signals on the first signal: drain, then cancel.
SignalDrain ==
    /\ shutdown = "no"
    /\ set_draining(TRUE)
    /\ shutdown' = "drained"
    /\ UNCHANGED <<diskvars, pc, hbvars>>

SignalCancel ==
    /\ shutdown = "drained"
    /\ shutdown' = "cancelled"
    /\ UNCHANGED <<vars, diskvars, pc, hbvars, draining>>

-----------------------------------------------------------------------------
(* The heartbeat loop.                                                     *)

\* select!: the stored permit is taken, the interval ticks, or the loop ends.
Notified ==
    /\ pc = "select"
    /\ TakePermit
    /\ pc' = "collect"
    /\ UNCHANGED <<diskvars, hbvars, draining, shutdown>>

\* Mutant of Tick: beats are sent on changes only.
TickNever == Notified

Tick ==
    /\ pc = "select" /\ boot = {}
    /\ pc' = "collect"
    /\ UNCHANGED <<vars, diskvars, hbvars, draining, shutdown>>

Cancelled ==
    /\ pc = "select" /\ boot = {}
    /\ shutdown = "cancelled"
    /\ pc' = "collect"
    /\ final' = TRUE
    /\ UNCHANGED <<vars, diskvars, response, todo, cur, report, delivered, draining, shutdown>>

\* What a tag's entries in the registry and the cache tracker are reported as:
\* the registry wins for the tags it knows.
CacheStatus(t) == IF cache[t] = "Cooling" THEN "Failed" ELSE cache[t]
Status(t) == IF slots[t].st # "Vacant" THEN slots[t].st ELSE CacheStatus(t)

\* NodeStatus::collect: the drain flag and the registry's snapshot first ...
Collect ==
    /\ pc = "collect"
    /\ report' = [models |-> [t \in Tags |-> IF slots[t].st = "Vacant" THEN "absent"
                                            ELSE slots[t].st],
                  draining |-> draining]
    /\ delivered' = FALSE
    /\ pc' = "cachesnap"
    /\ UNCHANGED <<vars, diskvars, response, todo, cur, final, draining, shutdown>>

\* ... then the cache tracker's, for the tags the first did not have.
CollectCache ==
    /\ pc = "cachesnap"
    /\ report' = [models |-> [t \in Tags |-> IF report.models[t] = "absent"
                                            THEN CacheStatus(t) ELSE report.models[t]],
                  draining |-> report.draining]
    /\ pc' = "posting"
    /\ UNCHANGED <<vars, diskvars, response, todo, cur, final, delivered, draining, shutdown>>

AfterBeat == IF final THEN "done" ELSE "select"

\* The POST is lost, or its answer is an error, malformed or lost.
PostFails ==
    /\ pc = "posting"
    /\ delivered' \in BOOLEAN
    /\ pc' = AfterBeat
    /\ UNCHANGED <<vars, diskvars, response, todo, cur, final, report, draining, shutdown>>

\* An answer arrives: ignored once shutdown has started, else applied.
PostAnswered(order, g, d) ==
    /\ delivered' = TRUE
    /\ IF shutdown = "cancelled"
       THEN /\ pc' = AfterBeat
            /\ UNCHANGED <<response, todo>>
       ELSE /\ pc' = "store"
            /\ models' = order
            /\ goals' = g
            /\ goaldrain' = d
            /\ todo' = DOMAIN order
    /\ UNCHANGED <<vars, diskvars, cur, final, report, draining, shutdown>>

\* apply, first loop: mirror each descriptor's devices.
Store ==
    /\ pc = "store"
    /\ \E i \in todo :
          /\ \A j \in todo : i <= j
          /\ Assign(models[i], goals[models[i]].devices)
          /\ todo' = todo \ {i}
    /\ UNCHANGED <<diskvars, pc, response, cur, final, report, delivered, draining, shutdown>>

Stored ==
    /\ pc = "store" /\ todo = {}
    /\ todo' = DOMAIN models
    /\ pc' = "directive"
    /\ UNCHANGED <<vars, diskvars, response, cur, final, report, delivered, draining, shutdown>>

IsProcess(t) == goals[t].res = "process"

\* Mutant of process_first: the response's own order.
ResponseOrder(i, j) == i <= j

\* Position i is applied before position j: process goals before the rest,
\* in the response's order within each group.
process_first(i, j) ==
    \/ IsProcess(models[i]) /\ ~IsProcess(models[j])
    \/ (IsProcess(models[i]) <=> IsProcess(models[j])) /\ i <= j

\* apply, second loop: take t's directive when it is the next.
TakeDirective(t) ==
    /\ pc = "directive"
    /\ \E i \in todo :
          /\ \A j \in todo : process_first(i, j)
          /\ t = models[i]
          /\ todo' = todo \ {i}

\* A tag outside --models is skipped.
Skip(t) ==
    /\ TakeDirective(t)
    /\ ~serves(t)
    /\ UNCHANGED <<vars, diskvars, pc, response, cur, final, report, delivered, draining,
                   shutdown>>

\* registry.devices names other devices than the descriptor.
Misplaced(t) ==
    /\ slots[t].st \in {"Loading", "Ready"}
    /\ slots[t].devices # goals[t].devices

\* Disk and none goals unload; a process goal only if the engine is misplaced.
Unload(t) ==
    /\ TakeDirective(t)
    /\ IsProcess(t) => Misplaced(t)
    /\ UnloadCheck(t)
    /\ pc' = "unloading"
    /\ cur' = t
    /\ UNCHANGED <<diskvars, response, final, report, delivered, draining, shutdown>>

WellPlaced(t) ==
    /\ TakeDirective(t)
    /\ serves(t)
    /\ IsProcess(t) /\ ~Misplaced(t)
    /\ pc' = "warm"
    /\ cur' = t
    /\ UNCHANGED <<vars, diskvars, response, final, report, delivered, draining, shutdown>>

Unloaded ==
    /\ pc = "unloading" /\ ctl.pc = "idle"
    /\ pc' = IF IsProcess(cur) THEN "warm" ELSE "cache"
    /\ UNCHANGED <<vars, diskvars, hbvars, draining, shutdown>>

\* warm_reconcile, or its early return while the failure cools down.
Warm ==
    /\ pc = "warm"
    /\ WarmReconcile(cur)
    /\ pc' = "warming"
    /\ UNCHANGED <<diskvars, hbvars, draining, shutdown>>

WarmCooling ==
    /\ pc = "warm"
    /\ slots[cur].st = "Failed" /\ slots[cur].cooling
    /\ pc' = "cache"
    /\ UNCHANGED <<vars, diskvars, hbvars, draining, shutdown>>

Warmed ==
    /\ pc = "warming" /\ ctl.pc = "idle"
    /\ pc' = "cache"
    /\ UNCHANGED <<vars, diskvars, hbvars, draining, shutdown>>

\* The cache tracker's part of the directive.
CacheDirective ==
    /\ pc = "cache"
    /\ \/ goals[cur].res = "process" /\ ensure_cached(cur, "Immediate")
       \/ goals[cur].res = "disk" /\ ensure_cached(cur, "Prefetch")
       \/ goals[cur].res = "none" /\ forget_failed(cur)
    /\ pc' = "directive"
    /\ UNCHANGED <<hbvars, draining, shutdown>>

\* apply's end: adopt the response's drain flag; the response is dropped.
AdoptDrain ==
    /\ pc = "directive" /\ todo = {}
    /\ IF goaldrain # draining
       THEN set_draining(goaldrain)
       ELSE UNCHANGED <<vars, draining>>
    /\ pc' = "select"
    /\ models' = <<>>
    /\ goals' = [t \in Tags |-> NoGoal]
    /\ goaldrain' = FALSE
    /\ cur' = AnyTag
    /\ UNCHANGED <<diskvars, todo, final, report, delivered, shutdown>>

-----------------------------------------------------------------------------
\* The registry's own tasks, and the rest of a warm or unload in progress.
RegistryStep ==
    /\ \/ \E r \in Requests : RequestStep(r)
       \/ \E l \in Loads : LoadStep(l)
       \/ \E t \in Tags : BootWarm(t) \/ CoolDown(t)
       \/ \E r \in Requests : Expire(r) \/ Disconnect(r)
       \/ WarmStep \/ UnloadRemove \/ UnloadDelete
    /\ UNCHANGED nodevars

\* A handler turns inference away while the node drains.
Handle(r, t) == ~draining /\ Call(r, t) /\ UNCHANGED nodevars

Beat ==
    \/ Collect \/ CollectCache \/ Store \/ Stored
    \/ \E t \in Tags : Skip(t) \/ Unload(t) \/ WellPlaced(t)
    \/ Unloaded \/ Warm \/ WarmCooling \/ Warmed \/ CacheDirective \/ AdoptDrain

Goals(order) ==
    {g \in [Tags -> Goal] :
        \A t \in Tags : IF \E i \in DOMAIN order : order[i] = t
                        THEN g[t].res # "absent" ELSE g[t] = NoGoal}

Reply(d) ==
    /\ pc = "posting"
    /\ \E order \in Orders : \E g \in Goals(order) : PostAnswered(order, g, d)

CacheDownload(t) ==
    \/ StartPrefetch(t)
    \/ \E state \in {"Cached", "Cooling"} : FinishDownload(t, state)

\* A node that is not asked to drain or to shut down.
OperatingNext ==
    \/ RegistryStep
    \/ \E r \in Requests, t \in Tags : Handle(r, t)
    \/ \E t \in Tags : CacheDownload(t) \/ CacheCoolDown(t)
    \/ Tick \/ Notified
    \/ Beat
    \/ PostFails
    \/ Reply(FALSE)

NodeNext ==
    \/ OperatingNext
    \/ Drain \/ SignalDrain \/ SignalCancel \/ Cancelled
    \/ Reply(TRUE)

NodeSpec == NodeInit /\ [][NodeNext]_allvars

\* Tasks are polled, loads, downloads and deletes end, the interval ticks, and
\* the plane's answers get through again and again.
NodeFairness ==
    /\ WF_allvars(RegistryStep)
    /\ \A t \in Tags : WF_allvars(CacheDownload(t)) /\ WF_allvars(CacheCoolDown(t))
    /\ WF_allvars(Tick)
    /\ WF_allvars(Beat)
    /\ SF_allvars(Reply(FALSE))

-----------------------------------------------------------------------------
(* Properties.                                                             *)

\* A tag is Caching exactly while one download task of it exists: the tracker
\* is single-flight, and every task it spawns writes a terminal state.
CacheHonest ==
    \A t \in Tags : queued[t] + running[t] = IF cache[t] = "Caching" THEN 1 ELSE 0

\* A disk goal already applied from the response in hand.
Applied(t) ==
    /\ pc \in {"directive", "unloading", "warm", "warming", "cache"}
    /\ goals[t].res = "disk"
    /\ \A i \in todo : models[i] # t

\* "every disk-tier prefetch applied after the process pass queues behind the
\* loads the plane is actually waiting on" (heartbeat.rs, process_first): when
\* a prefetch of this response starts, its process goals have all been applied
\* and none of their loads is downloading.
PrefetchYields ==
    [][\A t \in Tags : (StartPrefetch(t) /\ Applied(t)) =>
          \A p \in Tags : IsProcess(p) =>
              /\ \A i \in todo : models[i] # p
              /\ \A l \in Loads : ~(loads[l].tag = p /\ loads[l].pc = "download")]_allvars

\* Someone is still going to make the heartbeat report t.
WillReport(t) ==
    \/ permit
    \/ pc \in {"collect", "cachesnap"}
    \/ \E l \in Loads : loads[l].tag = t /\ loads[l].pc \in {"delete", "notify"}

\* "Call after every write to a model's lifecycle or cache tier, or to the
\* drain flag" (notifications.rs, status_changed): a difference from the last
\* report is never left to the next tick, with one exception in the code: a
\* failure cleared by ensure_ready or by warm is not signalled.
OnlyClearsUnsignalled ==
    /\ \A t \in Tags :
          report.models[t] # Status(t) =>
              WillReport(t) \/ (report.models[t] = "Failed" /\ slots[t].st = "Vacant")
    /\ report.draining # draining => permit \/ pc = "collect"

\* "One last report (draining: true)" (heartbeat.rs, run) and "could un-drain
\* the node" (beat): the report of the final beat says the node is draining.
FinalReportDrains == (final /\ pc \in {"posting", "done"}) => report.draining

\* A status that lasts reaches the control plane, whatever beats were lost.
StatusReachesPlane ==
    \A t \in Tags : \A s \in Lifecycle :
        (<>[](Status(t) = s)) => []<>(delivered /\ report.models[t] = s)
=============================================================================
