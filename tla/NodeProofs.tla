----------------------------- MODULE NodeProofs -----------------------------
(***************************************************************************)
(* Proofs about a fleet node: it implements the registry's specification,  *)
(* so the registry's invariants hold in it; its cache tracker is           *)
(* single-flight; prefetch queues behind the process tier; and changes are *)
(* signalled to the report.                                                *)
(***************************************************************************)
EXTENDS Node, RegistryProofs

LEMMA OrdersType ==
    ASSUME NEW order \in Orders
    PROVE  order \in Seq(Tags)
<1>1. Cardinality(Tags) \in Nat
  BY TagsFinite, FS_CardinalityType
<1>2. PICK n \in 0..Cardinality(Tags) : order \in [1..n -> Tags]
  BY DEF Orders
<1> QED
  BY <1>1, <1>2

\* A step of the node is a step of the registry or leaves it alone.
LEMMA NodeStepRefines == NodeTypeOK /\ [NodeNext]_allvars => [FleetNext]_vars
<1> SUFFICES ASSUME NodeTypeOK, [NodeNext]_allvars PROVE FleetNext \/ UNCHANGED vars
  OBVIOUS
<1>1. CASE RegistryStep
  <2>1. CASE \E r \in Requests : RequestStep(r)
    BY <2>1 DEF FleetNext, StandaloneNext
  <2>2. CASE \E l \in Loads : LoadStep(l)
    BY <2>2 DEF FleetNext, StandaloneNext
  <2>3. CASE \E t \in Tags : BootWarm(t) \/ CoolDown(t)
    BY <2>3 DEF FleetNext, StandaloneNext, Environment
  <2>4. CASE \E r \in Requests : Expire(r) \/ Disconnect(r)
    BY <2>4 DEF FleetNext, StandaloneNext, Environment
  <2>5. CASE WarmStep \/ UnloadRemove \/ UnloadDelete
    BY <2>5 DEF FleetNext, ControlStep
  <2> QED
    BY <1>1, <2>1, <2>2, <2>3, <2>4, <2>5 DEF RegistryStep
<1>2. ASSUME NEW r \in Requests, NEW t \in Tags, Handle(r, t)
      PROVE  FleetNext
  BY <1>2 DEF Handle, FleetNext, StandaloneNext, Environment
<1>3. CASE StatusSignal
  BY <1>3 DEF FleetNext, ControlStep
<1>4. CASE \E t \in Tags : CacheDownload(t) \/ CacheCoolDown(t)
  BY <1>4, <1>3 DEF CacheDownload, StartPrefetch, FinishDownload, CacheCoolDown
<1>5. CASE Drain \/ SignalDrain \/ SignalCancel \/ Cancelled
  BY <1>5, <1>3 DEF Drain, SignalDrain, SignalCancel, Cancelled, set_draining
<1>6. CASE Tick \/ Notified
  BY <1>6 DEF Tick, Notified, FleetNext, ControlStep
<1>7. CASE PostFails \/ Reply(FALSE) \/ Reply(TRUE)
  BY <1>7 DEF PostFails, Reply, PostAnswered
<1>8. CASE Beat
  <2>1. CASE Collect \/ CollectCache \/ Stored \/ Unloaded \/ WarmCooling \/ Warmed
    BY <2>1 DEF Collect, CollectCache, Stored, Unloaded, WarmCooling, Warmed
  <2>2. CASE CacheDirective
    BY <2>2, <1>3 DEF CacheDirective, ensure_cached, forget_failed
  <2>3. CASE AdoptDrain
    BY <2>3, <1>3 DEF AdoptDrain, set_draining
  <2>4. CASE Store
    <3>1. PICK i \in todo : Assign(models[i], goals[models[i]].devices)
      BY <2>4 DEF Store
    <3>2. models[i] \in Tags /\ goals[models[i]].devices \in DevOpt
      BY <3>1 DEF NodeTypeOK, Goal
    <3> QED
      BY <3>1, <3>2 DEF FleetNext, ControlStep
  <2>5. ASSUME NEW t \in Tags, Skip(t) \/ Unload(t) \/ WellPlaced(t)
        PROVE  FleetNext \/ UNCHANGED vars
    BY <2>5 DEF Skip, Unload, WellPlaced, FleetNext, ControlStep
  <2>6. CASE Warm
    BY <2>6 DEF Warm, NodeTypeOK, FleetNext, ControlStep
  <2> QED
    BY <1>8, <2>1, <2>2, <2>3, <2>4, <2>5, <2>6 DEF Beat
<1>9. CASE UNCHANGED allvars
  BY <1>9 DEF allvars, vars
<1> QED
  BY <1>1, <1>2, <1>4, <1>5, <1>6, <1>7, <1>8, <1>9 DEF NodeNext, OperatingNext

LEMMA StatusType ==
    ASSUME TypeOK, NodeTypeOK, NEW t \in Tags
    PROVE  /\ (IF slots[t].st = "Vacant" THEN "absent" ELSE slots[t].st) \in Lifecycle
           /\ CacheStatus(t) \in Lifecycle
<1>1. slots[t].st \in {"Vacant", "Loading", "Ready", "Failed"}
  BY DEF TypeOK, Slot
<1>2. cache[t] \in {"absent", "Caching", "Cached", "Failed", "Cooling"}
  BY DEF NodeTypeOK
<1> QED
  BY <1>1, <1>2 DEF CacheStatus, Lifecycle

LEMMA NodeTypeInit == NodeInit => NodeTypeOK
<1> SUFFICES ASSUME NodeInit PROVE NodeTypeOK
  OBVIOUS
<1>1. NoGoal \in Goal
  BY DEF Goal, NoGoal, DevOpt
<1>2. Nothing \in NodeStatus
  <2>1. [t \in Tags |-> "absent"] \in [Tags -> Lifecycle]
    BY DEF Lifecycle
  <2> QED
    BY <2>1 DEF Nothing, NodeStatus
<1>3. models \in Seq(Tags) /\ todo \subseteq DOMAIN models
  BY DEF NodeInit
<1>4. queued \in [Tags -> Nat] /\ running \in [Tags -> Nat]
  BY DEF NodeInit
<1> QED
  BY <1>1, <1>2, <1>3, <1>4, AnyTagType DEF NodeInit, NodeTypeOK

LEMMA NodeTypeStep == TypeOK /\ NodeTypeOK /\ [NodeNext]_allvars => NodeTypeOK'
<1> SUFFICES ASSUME TypeOK, NodeTypeOK, [NodeNext]_allvars PROVE NodeTypeOK'
  OBVIOUS
<1> USE DEF NodeTypeOK, hbvars, response, diskvars
<1>1. CASE UNCHANGED nodevars
  BY <1>1 DEF nodevars
<1>2. CASE RegistryStep \/ (\E r \in Requests, t \in Tags : Handle(r, t)) \/ UNCHANGED allvars
  BY <1>2, <1>1 DEF RegistryStep, Handle, allvars
<1>3. ASSUME NEW t \in Tags, CacheDownload(t) \/ CacheCoolDown(t)
      PROVE  NodeTypeOK'
  <2>1. CASE StartPrefetch(t)
    <3>1. queued[t] - 1 \in Nat /\ running[t] + 1 \in Nat
      BY <2>1 DEF StartPrefetch
    <3> QED
      BY <2>1, <3>1 DEF StartPrefetch
  <2>2. ASSUME NEW state \in {"Cached", "Cooling"}, FinishDownload(t, state)
        PROVE  NodeTypeOK'
    <3>1. running[t] - 1 \in Nat
      BY <2>2 DEF FinishDownload
    <3> QED
      BY <2>2, <3>1 DEF FinishDownload
  <2>3. CASE CacheCoolDown(t)
    BY <2>3 DEF CacheCoolDown
  <2> QED
    BY <1>3, <2>1, <2>2, <2>3 DEF CacheDownload
<1>4. CASE Drain \/ SignalDrain \/ SignalCancel \/ Cancelled
  <2>1. CASE Drain \/ SignalDrain
    BY <2>1 DEF Drain, SignalDrain, set_draining
  <2>2. CASE SignalCancel \/ Cancelled
    BY <2>2 DEF SignalCancel, Cancelled
  <2> QED
    BY <1>4, <2>1, <2>2
<1>5. CASE Tick \/ Notified
  BY <1>5 DEF Tick, Notified
<1>6. CASE PostFails
  BY <1>6 DEF PostFails, AfterBeat
<1>7. ASSUME NEW d \in BOOLEAN, Reply(d)
      PROVE  NodeTypeOK'
  <2>0. PICK order \in Orders : \E g \in Goals(order) : PostAnswered(order, g, d)
    BY <1>7 DEF Reply
  <2>1. PICK g \in Goals(order) : PostAnswered(order, g, d)
    BY <2>0
  <2>2. order \in Seq(Tags) /\ g \in [Tags -> Goal]
    BY OrdersType DEF Goals
  <2> QED
    BY <2>1, <2>2 DEF PostAnswered, AfterBeat
<1>8. CASE Beat
  <2>1. CASE Collect
    <3>1. report'.models \in [Tags -> Lifecycle]
      BY <2>1, StatusType DEF Collect
    <3>2. report' \in NodeStatus
      BY <2>1, <3>1 DEF Collect, NodeStatus
    <3> QED
      BY <2>1, <3>2 DEF Collect
  <2>7. CASE CollectCache
    <3>1. report.models \in [Tags -> Lifecycle] /\ report.draining \in BOOLEAN
      BY DEF NodeStatus
    <3>2. report'.models \in [Tags -> Lifecycle]
      BY <2>7, <3>1, StatusType DEF CollectCache
    <3>3. report' \in NodeStatus
      BY <2>7, <3>1, <3>2 DEF CollectCache, NodeStatus
    <3> QED
      BY <2>7, <3>3 DEF CollectCache
  <2>2. CASE Store \/ Stored
    BY <2>2 DEF Store, Stored
  <2>3. ASSUME NEW t \in Tags, Skip(t) \/ Unload(t) \/ WellPlaced(t)
        PROVE  NodeTypeOK'
    BY <2>3 DEF Skip, Unload, WellPlaced, TakeDirective
  <2>4. CASE Unloaded \/ Warm \/ WarmCooling \/ Warmed
    BY <2>4 DEF Unloaded, Warm, WarmCooling, Warmed
  <2>5. CASE CacheDirective
    <3>1. /\ cache' \in [Tags -> {"absent", "Caching", "Cached", "Failed", "Cooling"}]
          /\ queued' \in [Tags -> Nat]
          /\ running' \in [Tags -> Nat]
      <4>1. cur \in Tags /\ queued[cur] + 1 \in Nat /\ running[cur] + 1 \in Nat
        OBVIOUS
      <4>2. ASSUME NEW priority, ensure_cached(cur, priority)
            PROVE  /\ cache' \in [Tags -> {"absent", "Caching", "Cached", "Failed", "Cooling"}]
                   /\ queued' \in [Tags -> Nat]
                   /\ running' \in [Tags -> Nat]
        BY <4>1, <4>2 DEF ensure_cached
      <4>3. CASE forget_failed(cur)
        BY <4>3 DEF forget_failed
      <4> QED
        BY <2>5, <4>2, <4>3 DEF CacheDirective
    <3> QED
      BY <2>5, <3>1 DEF CacheDirective
  <2>6. CASE AdoptDrain
    <3>1. [t \in Tags |-> NoGoal] \in [Tags -> Goal]
      BY DEF Goal, NoGoal, DevOpt
    <3>2. draining' \in BOOLEAN
      BY <2>6 DEF AdoptDrain, set_draining
    <3>3. models' \in Seq(Tags) /\ todo' = {}
      BY <2>6 DEF AdoptDrain
    <3> QED
      BY <2>6, <3>1, <3>2, <3>3, AnyTagType DEF AdoptDrain
  <2> QED
    BY <1>8, <2>1, <2>2, <2>3, <2>4, <2>5, <2>6, <2>7 DEF Beat
<1> QED
  BY <1>2, <1>3, <1>4, <1>5, <1>6, <1>7, <1>8 DEF NodeNext, OperatingNext

\* Every variable of a node, the registry's included, keeps its type.
THEOREM NodeTyped == NodeSpec => [](TypeOK /\ NodeTypeOK)
<1>1. NodeInit => TypeOK /\ NodeTypeOK
  BY TypeInit, NodeTypeInit DEF NodeInit
<1>2. TypeOK /\ NodeTypeOK /\ [NodeNext]_allvars => TypeOK' /\ NodeTypeOK'
  BY NodeStepRefines, NodeTypeStep, TypeStep
<1> QED
  BY <1>1, <1>2, PTL DEF NodeSpec

\* The heartbeat drives the registry only as the registry's specification
\* lets its control task: a fleet node implements FleetSpec.
THEOREM NodeRefinesRegistry == NodeSpec => FleetSpec
<1>1. NodeInit => Init
  BY DEF NodeInit
<1>2. NodeTypeOK /\ [NodeNext]_allvars => [FleetNext]_vars
  BY NodeStepRefines
<1> QED
  BY <1>1, <1>2, NodeTyped, PTL DEF NodeSpec, FleetSpec

\* On a fleet node no waiting request is stranded, Ready models are served by
\* live engines, and the gate counts the downloads of the process tier.
THEOREM NodeServesSoundly == NodeSpec => [](NoLostWakeup /\ ReadyIsLive /\ GateExact)
  BY NodeRefinesRegistry, WaitersAreWoken, ReadyServesLiveEngine, GateIsExact, PTL

-----------------------------------------------------------------------------
(* The cache tracker.                                                      *)

LEMMA CacheStep == NodeTypeOK /\ CacheHonest /\ [NodeNext]_allvars => CacheHonest'
<1> SUFFICES ASSUME NodeTypeOK, CacheHonest, [NodeNext]_allvars PROVE CacheHonest'
  OBVIOUS
<1> USE DEF CacheHonest, hbvars, response, diskvars
<1>1. CASE UNCHANGED diskvars
  BY <1>1
<1>2. ASSUME NEW t \in Tags, StartPrefetch(t) \/ CacheCoolDown(t)
      PROVE  CacheHonest'
  <2>1. CASE CacheCoolDown(t)
    BY <2>1 DEF CacheCoolDown, NodeTypeOK
  <2>2. CASE StartPrefetch(t)
    <3>1. queued'[t] = queued[t] - 1 /\ running'[t] = running[t] + 1 /\ cache' = cache
      BY <2>2 DEF StartPrefetch, NodeTypeOK
    <3>2. queued[t] \in Nat /\ running[t] \in Nat
      BY DEF NodeTypeOK
    <3>3. queued'[t] + running'[t] = queued[t] + running[t]
      BY <3>1, <3>2
    <3>4. \A u \in Tags : u # t => queued'[u] = queued[u] /\ running'[u] = running[u]
      BY <2>2 DEF StartPrefetch, NodeTypeOK
    <3> QED
      BY <3>1, <3>3, <3>4
  <2> QED
    BY <1>2, <2>1, <2>2
<1>3. ASSUME NEW t \in Tags, NEW state \in {"Cached", "Cooling"}, FinishDownload(t, state)
      PROVE  CacheHonest'
  <2>1. queued[t] \in Nat /\ running[t] \in Nat /\ running[t] > 0
    BY <1>3 DEF NodeTypeOK, FinishDownload
  <2>2. queued[t] + running[t] = 1
    BY <2>1
  <2> QED
    BY <1>3, <2>1, <2>2 DEF FinishDownload, NodeTypeOK
<1>4. CASE CacheDirective
  <2>1. cur \in Tags
    BY DEF NodeTypeOK
  <2>2. ASSUME NEW priority, ensure_cached(cur, priority) PROVE CacheHonest'
    BY <2>1, <2>2 DEF ensure_cached, NodeTypeOK
  <2>3. CASE forget_failed(cur)
    BY <2>1, <2>3 DEF forget_failed, NodeTypeOK
  <2> QED
    BY <1>4, <2>2, <2>3 DEF CacheDirective
<1>5. CASE RegistryStep \/ (\E r \in Requests, t \in Tags : Handle(r, t)) \/ UNCHANGED allvars
  BY <1>5, <1>1 DEF RegistryStep, Handle, allvars, nodevars
<1>6. CASE Drain \/ SignalDrain \/ SignalCancel \/ Cancelled \/ Tick \/ Notified
  BY <1>6, <1>1 DEF Drain, SignalDrain, SignalCancel, Cancelled, Tick, Notified
<1>7. CASE PostFails \/ Reply(FALSE) \/ Reply(TRUE)
  BY <1>7, <1>1 DEF PostFails, Reply, PostAnswered
<1>8. CASE Beat
  BY <1>8, <1>1, <1>4 DEF Beat, Collect, CollectCache, Store, Stored, Skip, Unload, WellPlaced, Unloaded,
     Warm, WarmCooling, Warmed, AdoptDrain
<1> QED
  BY <1>2, <1>3, <1>5, <1>6, <1>7, <1>8 DEF NodeNext, OperatingNext, CacheDownload

\* The cache tracker is single-flight: a tag is Caching exactly while one
\* download task of it exists, whatever the heartbeat asks meanwhile.
THEOREM CacheSingleFlight == NodeSpec => []CacheHonest
<1>1. NodeInit => CacheHonest
  BY DEF NodeInit, CacheHonest
<1> QED
  BY <1>1, CacheStep, NodeTyped, PTL DEF NodeSpec

-----------------------------------------------------------------------------
(* Prefetch behind the process tier.                                       *)

Applying == pc \in {"directive", "unloading", "warm", "warming", "cache"}

\* Once a directive of the rest has been taken, no process goal is left.
RestIsLast ==
    Applying =>
        \A i \in DOMAIN models \ todo : ~IsProcess(models[i]) =>
            \A j \in todo : ~IsProcess(models[j])

\* A tag has a goal only if the response names it.
GoalsNamed == \A t \in Tags : goals[t].res # "absent" => \E i \in DOMAIN models : models[i] = t

OrderInv == RestIsLast /\ GoalsNamed

LEMMA OrderStep == NodeTypeOK /\ OrderInv /\ [NodeNext]_allvars => OrderInv'
<1> SUFFICES ASSUME NodeTypeOK, OrderInv, [NodeNext]_allvars PROVE OrderInv'
  OBVIOUS
<1> USE DEF OrderInv, RestIsLast, GoalsNamed, IsProcess, hbvars, response
<1>1. CASE UNCHANGED <<response, todo>> /\ (Applying' => Applying)
  BY <1>1 DEF Applying
<1>2. CASE RegistryStep \/ (\E r \in Requests, t \in Tags : Handle(r, t)) \/ UNCHANGED allvars
  BY <1>2, <1>1 DEF RegistryStep, Handle, allvars, nodevars, Applying
<1>3. ASSUME NEW t \in Tags, CacheDownload(t) \/ CacheCoolDown(t)
      PROVE  OrderInv'
  BY <1>3, <1>1 DEF CacheDownload, StartPrefetch, FinishDownload, CacheCoolDown, Applying
<1>4. CASE Drain \/ SignalDrain \/ SignalCancel \/ Cancelled \/ Tick \/ Notified \/ PostFails
  BY <1>4, <1>1 DEF Drain, SignalDrain, SignalCancel, Cancelled, Tick, Notified, PostFails,
     AfterBeat, Applying
<1>5. ASSUME NEW d, Reply(d)
      PROVE  OrderInv'
  <2>0. PICK order \in Orders : \E g \in Goals(order) : PostAnswered(order, g, d)
    BY <1>5 DEF Reply
  <2>1. PICK g \in Goals(order) : PostAnswered(order, g, d)
    BY <2>0
  <2>2. CASE shutdown = "cancelled"
    BY <2>1, <2>2, <1>1 DEF PostAnswered, AfterBeat, Applying
  <2>3. CASE shutdown # "cancelled"
    <3>1. ~Applying' /\ models' = order /\ goals' = g
      BY <2>1, <2>3 DEF PostAnswered, Applying
    <3>2. \A t \in Tags : g[t].res # "absent" => \E i \in DOMAIN order : order[i] = t
      BY DEF Goals, NoGoal
    <3> QED
      BY <3>1, <3>2
  <2> QED
    BY <2>2, <2>3
<1>6. CASE Beat
  <2>1. CASE Collect \/ CollectCache \/ Unloaded \/ Warm \/ WarmCooling \/ Warmed \/ CacheDirective
    BY <2>1, <1>1 DEF Collect, CollectCache, Unloaded, Warm, WarmCooling, Warmed, CacheDirective, Applying
  <2>2. CASE Store
    BY <2>2 DEF Store, Applying
  <2>3. CASE Stored
    BY <2>3 DEF Stored
  <2>4. ASSUME NEW t \in Tags, Skip(t) \/ Unload(t) \/ WellPlaced(t)
        PROVE  OrderInv'
    <3>1. UNCHANGED response /\ Applying
      BY <2>4 DEF Skip, Unload, WellPlaced, TakeDirective, Applying
    <3>2. PICK i \in todo : (\A j \in todo : process_first(i, j)) /\ todo' = todo \ {i}
      BY <2>4 DEF Skip, Unload, WellPlaced, TakeDirective
    <3>3. ~IsProcess(models[i]) => \A j \in todo : ~IsProcess(models[j])
      BY <3>2 DEF process_first
    <3> QED
      BY <3>1, <3>2, <3>3
  <2>5. CASE AdoptDrain
    BY <2>5 DEF AdoptDrain, NoGoal, Applying
  <2> QED
    BY <1>6, <2>1, <2>2, <2>3, <2>4, <2>5 DEF Beat
<1> QED
  BY <1>2, <1>3, <1>4, <1>5, <1>6 DEF NodeNext, OperatingNext

\* A prefetch of a response starts only when the response's process goals have
\* been applied and none of their loads is downloading.
THEOREM PrefetchBehindProcess == NodeSpec => PrefetchYields
<1>1. NodeInit => OrderInv
  BY DEF NodeInit, OrderInv, RestIsLast, GoalsNamed, Applying, NoGoal
<1>2. NodeSpec => []OrderInv
  BY <1>1, OrderStep, NodeTyped, PTL DEF NodeSpec
<1>3. NodeSpec => []GateInv
  BY NodeRefinesRegistry, GateInvariant, PTL
<1>4. ASSUME TypeOK, NodeTypeOK, OrderInv, GateInv, NEW t \in Tags, StartPrefetch(t), Applied(t),
             NEW p \in Tags, IsProcess(p)
      PROVE  /\ \A i \in todo : models[i] # p
             /\ \A l \in Loads : ~(loads[l].tag = p /\ loads[l].pc = "download")
  <2>1. Applying /\ goals[t].res = "disk" /\ \A i \in todo : models[i] # t
    BY <1>4 DEF Applied, Applying
  <2>2. PICK k \in DOMAIN models : models[k] = t
    BY <1>4, <2>1 DEF OrderInv, GoalsNamed
  <2>3. \A j \in todo : ~IsProcess(models[j])
    BY <1>4, <2>1, <2>2 DEF OrderInv, RestIsLast, IsProcess
  <2>4. Downloading = {}
    BY <1>4, FS_EmptySet DEF GateInv, StartPrefetch
  <2> QED
    BY <1>4, <2>3, <2>4 DEF Downloading
<1>5. TypeOK /\ NodeTypeOK /\ OrderInv /\ GateInv =>
          [\A t \in Tags : (StartPrefetch(t) /\ Applied(t)) =>
              \A p \in Tags : IsProcess(p) =>
                  /\ \A i \in todo : models[i] # p
                  /\ \A l \in Loads : ~(loads[l].tag = p /\ loads[l].pc = "download")]_allvars
  BY <1>4
<1> QED
  BY <1>2, <1>3, <1>5, NodeTyped, PTL DEF PrefetchYields

-----------------------------------------------------------------------------
(* What the heartbeat is told.                                             *)

\* A load of t that has yet to signal.
Pending(t) == \E l \in Loads : loads[l].tag = t /\ loads[l].pc \in {"delete", "notify"}

\* A step that takes no permit: it loses no signal, and a slot changes its
\* status only with one, or on the way to one, or when a failure is cleared.
Tells ==
    /\ permit => permit'
    /\ \A t \in Tags :
          /\ Pending(t) => permit' \/ Pending(t)'
          /\ slots'[t].st # slots[t].st =>
                \/ permit' \/ Pending(t)'
                \/ slots[t].st = "Failed" /\ slots'[t].st = "Vacant"

LEMMA SignalTells == StatusSignal => Tells
  BY DEF StatusSignal, status_changed, Tells

LEMMA StutterTells == UNCHANGED vars => Tells
  BY DEF vars, Tells, Pending

\* A load only moves on towards its signal, and nothing else ends it.
LEMMA LoadTells == ASSUME TypeOK, NEW l \in Loads, LoadStep(l) PROVE Tells
<1> USE DEF TypeOK, Load
<1>1. CASE Download(l) \/ LoadEngine(l) \/ RetrieveSignature(l)
  BY <1>1 DEF Download, LoadEngine, RetrieveSignature, LoadTo, Tells, Pending
<1>2. CASE Publish(l) \/ RemoveAfterLoad(l)
  <2>0. loads[l].tag \in Tags /\ loads[l].pc \in {"publish", "remove"}
    BY <1>2 DEF Publish, RemoveAfterLoad
  <2>1. permit' = permit
    BY <1>2 DEF Publish, RemoveAfterLoad
  <2>2. PICK phase, well : LoadTo(l, phase, well)
    BY <1>2 DEF Publish, PublishSlot, PublishDiscard, PublishNowhere, RemoveAfterLoad
  <2>3. ASSUME NEW t \in Tags, Pending(t) PROVE Pending(t)'
    <3>1. PICK k \in Loads : loads[k].tag = t /\ loads[k].pc \in {"delete", "notify"}
      BY <2>3 DEF Pending
    <3>2. loads'[k] = loads[k]
      BY <2>0, <2>2, <3>1 DEF LoadTo
    <3> QED
      BY <3>1, <3>2 DEF Pending
  <2>4. ASSUME NEW t \in Tags, slots'[t].st # slots[t].st PROVE Pending(t)'
    <3>1. t = loads[l].tag
      BY <1>2, <2>0, <2>4 DEF Publish, PublishSlot, PublishDiscard, PublishNowhere,
         RemoveAfterLoad, RemoveSlot
    <3>2. \E ok1 : LoadTo(l, "notify", ok1) \/ LoadTo(l, "delete", ok1)
      BY <1>2, <2>4 DEF Publish, PublishSlot, PublishDiscard, PublishNowhere, RemoveAfterLoad
    <3>3. loads'[l].tag = t /\ loads'[l].pc \in {"delete", "notify"}
      BY <3>1, <3>2 DEF LoadTo
    <3> QED
      BY <3>3 DEF Pending
  <2> QED
    BY <2>1, <2>3, <2>4 DEF Tells
<1>3. CASE DeleteAfterLoad(l)
  <2>1. UNCHANGED <<slots, permit>> /\ LoadTo(l, "notify", TRUE)
    BY <1>3 DEF DeleteAfterLoad
  <2>2. ASSUME NEW t \in Tags, Pending(t) PROVE Pending(t)'
    BY <2>1, <2>2 DEF LoadTo, Pending
  <2> QED
    BY <2>1, <2>2 DEF Tells
<1>4. CASE NotifyLoaded(l)
  BY <1>4 DEF NotifyLoaded, status_changed, Tells
<1> QED
  BY <1>1, <1>2, <1>3, <1>4 DEF LoadStep

LEMMA RequestTells == ASSUME TypeOK, NEW r \in Requests, RequestStep(r) PROVE Tells
<1> USE DEF TypeOK, Req
<1>1. CASE EntryReady(r) \/ EntryLoading(r) \/ Woken(r) \/ Timeout(r) \/ Recheck(r)
  BY <1>1 DEF EntryReady, EntryLoading, Woken, Timeout, Recheck, Tells, Pending
<1>2. CASE EntryFailed(r)
  BY <1>2 DEF EntryFailed, RemoveSlot, Vacant, Tells, Pending
<1>3. CASE EntryVacant(r)
  BY <1>3 DEF EntryVacant, InsertLoading, status_changed, Tells
<1> QED
  BY <1>1, <1>2, <1>3 DEF RequestStep

LEMMA OthersTell ==
    ASSUME TypeOK,
           \/ \E r \in Requests : (\E t \in Tags : Call(r, t)) \/ Expire(r) \/ Disconnect(r)
           \/ \E t \in Tags : BootWarm(t) \/ CoolDown(t)
           \/ WarmStep \/ UnloadRemove \/ UnloadDelete
           \/ \E t \in Tags : (\E d : Assign(t, d)) \/ WarmReconcile(t) \/ UnloadCheck(t)
    PROVE  Tells
<1> USE DEF TypeOK, Ctl
<1>1. ASSUME NEW r \in Requests, (\E t \in Tags : Call(r, t)) \/ Expire(r) \/ Disconnect(r)
      PROVE  Tells
  BY <1>1 DEF Call, Expire, Disconnect, Tells, Pending
<1>2. ASSUME NEW t \in Tags, BootWarm(t) PROVE Tells
  BY <1>2 DEF BootWarm, InsertLoading, status_changed, Tells
<1>3. ASSUME NEW t \in Tags, CoolDown(t) PROVE Tells
  BY <1>3 DEF CoolDown, SlotWith, Tells, Pending
<1>4. CASE WarmStep
  <2>1. CASE WarmOccupied
    BY <2>1 DEF WarmOccupied, Tells, Pending
  <2>2. CASE WarmFailed
    BY <2>2 DEF WarmFailed, RemoveSlot, Vacant, Tells, Pending
  <2>3. CASE WarmVacant
    BY <2>3 DEF WarmVacant, InsertLoading, status_changed, Tells
  <2> QED
    BY <1>4, <2>1, <2>2, <2>3 DEF WarmStep
<1>5. CASE UnloadRemove
  <2>1. UNCHANGED loads /\ (permit => permit')
    BY <1>5 DEF UnloadRemove
  <2>2. ASSUME NEW t \in Tags, slots'[t].st # slots[t].st PROVE permit'
    BY <1>5, <2>2 DEF UnloadRemove, RemoveSlot, Vacant
  <2> QED
    BY <2>1, <2>2 DEF Tells, Pending
<1>6. CASE UnloadDelete
  BY <1>6 DEF UnloadDelete, Tells, Pending
<1>7. ASSUME NEW t \in Tags, (\E d : Assign(t, d)) \/ WarmReconcile(t) PROVE Tells
  BY <1>7 DEF Assign, WarmReconcile, Tells, Pending
<1>8. ASSUME NEW t \in Tags, UnloadCheck(t) PROVE Tells
  BY <1>8 DEF UnloadCheck, SlotWith, Tells, Pending
<1> QED
  BY <1>1, <1>2, <1>3, <1>4, <1>5, <1>6, <1>7, <1>8

\* Every step of the node but the heartbeat's wakeup tells.
LEMMA NodeTells == TypeOK /\ NodeTypeOK /\ [NodeNext]_allvars => Notified \/ Tells
<1> SUFFICES ASSUME TypeOK, NodeTypeOK, [NodeNext]_allvars, ~Notified PROVE Tells
  OBVIOUS
<1>1. CASE RegistryStep
  BY <1>1, RequestTells, LoadTells, OthersTell DEF RegistryStep
<1>2. ASSUME NEW r \in Requests, NEW t \in Tags, Handle(r, t) PROVE Tells
  BY <1>2, OthersTell DEF Handle
<1>3. CASE \E t \in Tags : CacheDownload(t) \/ CacheCoolDown(t)
  BY <1>3, SignalTells, StutterTells DEF CacheDownload, StartPrefetch, FinishDownload, CacheCoolDown
<1>4. CASE Drain \/ SignalDrain \/ SignalCancel \/ Cancelled
  BY <1>4, SignalTells, StutterTells DEF Drain, SignalDrain, SignalCancel, Cancelled, set_draining
<1>5. CASE Tick \/ PostFails \/ Reply(FALSE) \/ Reply(TRUE)
  BY <1>5, StutterTells DEF Tick, PostFails, Reply, PostAnswered
<1>6. CASE Beat
  <2>1. CASE Collect \/ CollectCache \/ Stored \/ Unloaded \/ WarmCooling \/ Warmed
    BY <2>1, StutterTells DEF Collect, CollectCache, Stored, Unloaded, WarmCooling, Warmed
  <2>2. CASE CacheDirective \/ AdoptDrain
    BY <2>2, SignalTells, StutterTells
       DEF CacheDirective, ensure_cached, forget_failed, AdoptDrain, set_draining
  <2>3. CASE Store
    <3>1. PICK i \in todo : Assign(models[i], goals[models[i]].devices)
      BY <2>3 DEF Store
    <3>2. models[i] \in Tags
      BY DEF NodeTypeOK
    <3> QED
      BY <3>1, <3>2, OthersTell
  <2>4. ASSUME NEW t \in Tags, Skip(t) \/ Unload(t) \/ WellPlaced(t) PROVE Tells
    BY <2>4, OthersTell, StutterTells DEF Skip, Unload, WellPlaced
  <2>5. CASE Warm
    BY <2>5, OthersTell DEF Warm, NodeTypeOK
  <2> QED
    BY <1>6, <2>1, <2>2, <2>3, <2>4, <2>5 DEF Beat
<1>7. CASE UNCHANGED allvars
  BY <1>7, StutterTells DEF allvars, vars
<1> QED
  BY <1>1, <1>2, <1>3, <1>4, <1>5, <1>6, <1>7 DEF NodeNext, OperatingNext

\* What the registry's snapshot has for t.
RegistryStatus(t) == IF slots[t].st = "Vacant" THEN "absent" ELSE slots[t].st

\* The heartbeat need not be told of t now: it will be, or the code clears a
\* failure without telling.
Told(t) == permit \/ Pending(t) \/ (report.models[t] = "Failed" /\ slots[t].st = "Vacant")

\* OnlyClearsUnsignalled, and what holds between the report's two snapshots.
ReportInv ==
    /\ pc \notin {"collect", "cachesnap"} =>
          \A t \in Tags : report.models[t] # Status(t) => Told(t)
    /\ pc = "cachesnap" =>
          \A t \in Tags : report.models[t] # RegistryStatus(t) => Told(t)
    /\ report.draining # draining => permit \/ pc = "collect"

\* A step that tells, and leaves the report and the phase of the beat.
LEMMA ToldStays ==
    ASSUME TypeOK, NodeTypeOK, ReportInv, Tells, report' = report,
           pc \in {"collect", "cachesnap"} \/ pc' \in {"collect", "cachesnap"} => pc' = pc,
           draining' = draining \/ permit',
           \A t \in Tags : CacheStatus(t)' = CacheStatus(t) \/ permit'
    PROVE  ReportInv'
<1>1. ASSUME NEW t \in Tags, Told(t) PROVE Told(t)'
  BY <1>1 DEF Told, Tells
<1>2. ASSUME NEW t \in Tags, report.models[t] = RegistryStatus(t),
             report.models[t] # RegistryStatus(t)'
      PROVE  Told(t)'
  BY <1>2 DEF Told, Tells, RegistryStatus
<1>3. ASSUME NEW t \in Tags, report.models[t] = Status(t), report.models[t] # Status(t)'
      PROVE  Told(t)'
  BY <1>3 DEF Told, Tells, Status
<1>4. pc' \notin {"collect", "cachesnap"} =>
          \A t \in Tags : report'.models[t] # Status(t)' => Told(t)'
  BY <1>1, <1>3 DEF ReportInv
<1>5. pc' = "cachesnap" =>
          \A t \in Tags : report'.models[t] # RegistryStatus(t)' => Told(t)'
  BY <1>1, <1>2 DEF ReportInv
<1>6. report'.draining # draining' => permit' \/ pc' = "collect"
  BY DEF ReportInv, Tells
<1> QED
  BY <1>4, <1>5, <1>6 DEF ReportInv

LEMMA ReportStep == TypeOK /\ NodeTypeOK /\ ReportInv /\ [NodeNext]_allvars => ReportInv'
<1> SUFFICES ASSUME TypeOK, NodeTypeOK, ReportInv, [NodeNext]_allvars PROVE ReportInv'
  OBVIOUS
<1> USE DEF hbvars, response, diskvars
<1>1. CASE Notified \/ Tick \/ Cancelled
  BY <1>1 DEF Notified, Tick, Cancelled, ReportInv
<1>2. CASE Collect
  <2>1. pc' = "cachesnap" /\ UNCHANGED <<vars, draining>>
    BY <1>2 DEF Collect
  <2>2. \A t \in Tags : report'.models[t] = RegistryStatus(t)
    BY <1>2 DEF Collect, RegistryStatus
  <2>3. \A t \in Tags : RegistryStatus(t)' = RegistryStatus(t)
    BY <2>1 DEF RegistryStatus, vars
  <2>4. report'.draining = draining
    BY <1>2 DEF Collect
  <2> QED
    BY <2>1, <2>2, <2>3, <2>4 DEF ReportInv
<1>3. CASE CollectCache
  <2>1. /\ pc = "cachesnap" /\ pc' = "posting"
        /\ UNCHANGED <<slots, loads, permit, cache, draining>>
        /\ report'.draining = report.draining
    BY <1>3 DEF CollectCache, vars
  <2>2. ASSUME NEW t \in Tags, report'.models[t] # Status(t) PROVE Told(t)'
    <3>1. report'.models[t] = IF report.models[t] = "absent"
                              THEN CacheStatus(t) ELSE report.models[t]
      BY <1>3 DEF CollectCache
    <3>2. slots[t].st # "absent"
      BY DEF TypeOK, Slot
    <3>3. report.models[t] # RegistryStatus(t)
      BY <2>2, <3>1, <3>2 DEF RegistryStatus, Status
    <3>4. Told(t)
      BY <2>1, <3>3 DEF ReportInv
    <3>5. report.models[t] = "Failed" => report'.models[t] = "Failed"
      BY <3>1
    <3> QED
      BY <2>1, <3>4, <3>5 DEF Told, Pending
  <2>3. \A t \in Tags : Status(t)' = Status(t)
    BY <2>1 DEF Status, CacheStatus
  <2> QED
    BY <2>1, <2>2, <2>3 DEF ReportInv
<1>4. ASSUME ~Notified, ~Tick, ~Cancelled, ~Collect, ~CollectCache
      PROVE  ReportInv'
  <2>1. Tells
    BY <1>4, NodeTells
  <2>2. CASE RegistryStep \/ (\E r \in Requests, t \in Tags : Handle(r, t)) \/ UNCHANGED allvars
    BY <2>1, <2>2, ToldStays DEF RegistryStep, Handle, allvars, nodevars, CacheStatus
  <2>3. ASSUME NEW t \in Tags, CacheDownload(t) \/ CacheCoolDown(t) PROVE ReportInv'
    <3>1. CASE StartPrefetch(t)
      BY <2>1, <3>1, ToldStays DEF StartPrefetch, CacheStatus
    <3>2. CASE CacheCoolDown(t)
      BY <2>1, <3>2, ToldStays DEF CacheCoolDown, CacheStatus, NodeTypeOK
    <3>3. ASSUME NEW state, FinishDownload(t, state) PROVE ReportInv'
      BY <2>1, <3>3, ToldStays DEF FinishDownload, StatusSignal, status_changed
    <3> QED
      BY <2>3, <3>1, <3>2, <3>3 DEF CacheDownload
  <2>4. CASE Drain \/ SignalDrain \/ SignalCancel
    BY <2>1, <2>4, ToldStays
       DEF Drain, SignalDrain, SignalCancel, set_draining, StatusSignal, status_changed, CacheStatus
  <2>5. CASE PostFails \/ Reply(FALSE) \/ Reply(TRUE)
    BY <2>1, <2>5, ToldStays DEF PostFails, Reply, PostAnswered, AfterBeat, CacheStatus
  <2>6. CASE Beat
    <3>1. CASE Store \/ Stored \/ Unloaded \/ Warm \/ WarmCooling \/ Warmed
      BY <2>1, <3>1, ToldStays DEF Store, Stored, Unloaded, Warm, WarmCooling, Warmed, CacheStatus
    <3>2. ASSUME NEW t \in Tags, Skip(t) \/ Unload(t) \/ WellPlaced(t) PROVE ReportInv'
      BY <2>1, <3>2, ToldStays DEF Skip, Unload, WellPlaced, TakeDirective, CacheStatus
    <3>3. CASE CacheDirective
      <4>1. cache' = cache \/ permit'
        BY <3>3 DEF CacheDirective, ensure_cached, forget_failed, StatusSignal, status_changed
      <4>2. \A t \in Tags : CacheStatus(t)' = CacheStatus(t) \/ permit'
        BY <4>1 DEF CacheStatus
      <4> QED
        BY <2>1, <3>3, <4>2, ToldStays DEF CacheDirective
    <3>4. CASE AdoptDrain
      BY <2>1, <3>4, ToldStays DEF AdoptDrain, set_draining, StatusSignal, status_changed, CacheStatus
    <3> QED
      BY <1>4, <2>6, <3>1, <3>2, <3>3, <3>4 DEF Beat
  <2> QED
    BY <1>4, <2>2, <2>3, <2>4, <2>5, <2>6 DEF NodeNext, OperatingNext
<1> QED
  BY <1>1, <1>2, <1>3, <1>4

\* However requests, loads, downloads, directives and signals interleave with a
\* beat, a difference from the last report is never left to the next tick,
\* except a failure that was cleared (notifications.rs, status_changed).
THEOREM ChangesAreSignalled == NodeSpec => []OnlyClearsUnsignalled
<1>1. ASSUME NodeInit PROVE ReportInv
  <2>1. \A t \in Tags : slots[t].st = "Vacant" /\ cache[t] = "absent"
    BY <1>1 DEF NodeInit, Init, Vacant
  <2>2. report.draining = draining /\ pc = "select"
    BY <1>1 DEF NodeInit, Nothing
  <2>3. \A t \in Tags : report.models[t] = "absent"
    BY <1>1 DEF NodeInit, Nothing
  <2>4. \A t \in Tags : Status(t) = "absent"
    BY <2>1 DEF Status, CacheStatus
  <2> QED
    BY <2>2, <2>3, <2>4 DEF ReportInv
<1>2. TypeOK /\ NodeTypeOK /\ ReportInv => OnlyClearsUnsignalled
  BY DEF ReportInv, OnlyClearsUnsignalled, Told, Pending, WillReport
<1> QED
  BY <1>1, <1>2, ReportStep, NodeTyped, PTL DEF NodeSpec
=============================================================================
