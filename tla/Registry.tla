------------------------------ MODULE Registry ------------------------------
(***************************************************************************)
(* The model registry (src/serving/registry.rs): which models are loaded, *)
(* single-flight warmup, waiting requests, and unloading.                  *)
(*                                                                         *)
(* Every step of this module is one critical section of the code: a       *)
(* DashMap entry guard held without an await, or a task step between two   *)
(* awaits.  Inserting a Loading slot, signalling and spawning the load     *)
(* are one step: the entry guard is held over all three.                   *)
(*                                                                         *)
(* A load task, the watch channel created with its slot, and the engine it *)
(* loads share one identity, a member of Loads.  An identity no task, slot *)
(* or waiter refers to any more may be taken again, so the set bounds how  *)
(* many exist at once and not how many there ever are.                     *)
(***************************************************************************)
EXTENDS Integers, FiniteSets

CONSTANTS
    Tags,       \* model tags
    Requests,   \* HTTP requests; each calls ensure_ready once
    Loads,      \* identities of load tasks, their channels and engines
    Pinned,     \* the --models set; {} when none is configured
    Devs,       \* device lists a control plane may assign
    NoDev,      \* Option::None for a device list
    NoLoad      \* no load identity

ASSUME TagsAssumption == Tags # {}
ASSUME PinnedAssumption == Pinned \subseteq Tags
ASSUME NoLoadAssumption == NoLoad \notin Loads
ASSUME NoDevAssumption == NoDev \notin Devs

VARIABLES
    slots,      \* DashMap<tag, Slot>; st = "Vacant" is an absent key
    loads,      \* the load task spawned by spawn_load
    watch,      \* each slot's watch channel: not yet sent on, sent, dropped
    engines,    \* native predictor handles that are loaded and not deleted
    reqs,       \* requests inside ensure_ready
    ctl,        \* the one task that calls warm_reconcile and unload
    assigned,   \* DeviceStore: the device list assigned to each tag
    gate,       \* DownloadGate::inflight
    permit,     \* NotificationCenter::status, the stored Notify permit
    boot        \* --models tags that main has not warmed yet

vars == <<slots, loads, watch, engines, reqs, ctl, assigned, gate, permit,
          boot>>

DevOpt == Devs \cup {NoDev}

Slot ==
    [st : {"Vacant", "Loading", "Ready", "Failed"},
     chan : Loads \cup {NoLoad},       \* the load whose slot this was
     engine : Loads \cup {NoLoad},     \* Ready(model): the engine served
     unload : BOOLEAN,                 \* unload_requested
     devices : DevOpt,
     cooling : BOOLEAN]                \* Failed within FAILED_RETRY_BACKOFF

Vacant == [st |-> "Vacant", chan |-> NoLoad, engine |-> NoLoad,
           unload |-> FALSE, devices |-> NoDev, cooling |-> FALSE]

LoadPC == {"none", "download", "engine", "signature", "publish", "remove",
           "delete", "notify"}

Load == [pc : LoadPC, tag : Tags, ok : BOOLEAN, devices : DevOpt]

Req == [pc : {"idle", "entry", "wait", "recheck", "done", "gone"},
        tag : Tags,
        chan : Loads \cup {NoLoad},    \* the receiver it waits on
        expired : BOOLEAN,             \* its HOLD_THRESHOLD has passed
        res : {"none", "Ready", "Failed", "Loading", "NotServed"}]

Ctl == [pc : {"idle", "warm", "remove", "delete"},
        tag : Tags,
        engine : Loads \cup {NoLoad}]

TypeOK ==
    /\ slots \in [Tags -> Slot]
    /\ loads \in [Loads -> Load]
    /\ watch \in [Loads -> {"open", "sent", "closed"}]
    /\ engines \subseteq Loads
    /\ reqs \in [Requests -> Req]
    /\ ctl \in Ctl
    /\ assigned \in [Tags -> DevOpt]
    /\ gate \in Nat
    /\ permit \in BOOLEAN
    /\ boot \subseteq Tags

AnyTag == CHOOSE t \in Tags : TRUE

NoTask == [pc |-> "none", tag |-> AnyTag, ok |-> FALSE, devices |-> NoDev]

CtlIdle == [pc |-> "idle", tag |-> AnyTag, engine |-> NoLoad]

Init ==
    /\ slots = [t \in Tags |-> Vacant]
    /\ loads = [l \in Loads |-> NoTask]
    /\ watch = [l \in Loads |-> "closed"]
    /\ engines = {}
    /\ reqs = [r \in Requests |->
                  [pc |-> "idle", tag |-> AnyTag, chan |-> NoLoad,
                   expired |-> FALSE, res |-> "none"]]
    /\ ctl = CtlIdle
    /\ assigned = [t \in Tags |-> NoDev]
    /\ gate = 0
    /\ permit = FALSE
    /\ boot = Pinned

-----------------------------------------------------------------------------
(* Helpers shared by the operations.                                       *)

\* A tag is served when no pinned set is configured or it is in the set.
serves(t) == Pinned = {} \/ t \in Pinned

assigned_devices(t) == assigned[t]

\* notify_one stores at most one permit.
status_changed == permit' = TRUE

\* enter_priority, and the guard's Drop (a saturating decrement).
enter_priority == gate' = gate + 1
DropPriority == gate' = IF gate = 0 THEN 0 ELSE gate - 1

\* An identity nothing refers to.
Fresh(l) ==
    /\ loads[l].pc = "none"
    /\ l \notin engines
    /\ \A t \in Tags : slots[t].chan # l
    /\ \A r \in Requests : reqs[r].chan # l
    /\ ctl.engine # l

\* Insert a Loading slot for t, signal, and spawn its load.
InsertLoading(t, l) ==
    /\ Fresh(l)
    /\ slots' = [slots EXCEPT ![t] =
                    [st |-> "Loading", chan |-> l, engine |-> NoLoad,
                     unload |-> FALSE, devices |-> assigned_devices(t),
                     cooling |-> FALSE]]
    /\ status_changed
    /\ loads' = [loads EXCEPT ![l] =
                    [pc |-> "download", tag |-> t, ok |-> FALSE,
                     devices |-> assigned_devices(t)]]
    /\ watch' = [watch EXCEPT ![l] = "open"]
    /\ enter_priority

\* Remove t's slot from the map and drop it: its sender closes the channel,
\* and a model only the slot still held goes with it.
RemoveSlot(t) ==
    /\ slots' = [slots EXCEPT ![t] = Vacant]
    /\ watch' = [l \in Loads |->
                    IF l = slots[t].chan THEN "closed" ELSE watch[l]]

\* t's slot with these two flags.
SlotWith(t, unload, cooling) ==
    [st |-> slots[t].st, chan |-> slots[t].chan, engine |-> slots[t].engine,
     unload |-> unload, devices |-> slots[t].devices, cooling |-> cooling]

-----------------------------------------------------------------------------
(* ensure_ready, one request at a time.                                    *)

ReqTo(r, pc, chan, res) ==
    reqs' = [reqs EXCEPT ![r] =
                [pc |-> pc, tag |-> reqs[r].tag, chan |-> chan,
                 expired |-> reqs[r].expired, res |-> res]]

Answer(r, res) == ReqTo(r, "done", NoLoad, res)

Subscribe(r, l) == ReqTo(r, "wait", l, "none")

\* A handler calls ensure_ready(t): rejected at once when t is not served.
Call(r, t) ==
    /\ reqs[r].pc = "idle"
    /\ boot = {}
    /\ reqs' = [reqs EXCEPT ![r] =
                   [pc |-> IF serves(t) THEN "entry" ELSE "done", tag |-> t,
                    chan |-> NoLoad, expired |-> FALSE,
                    res |-> IF serves(t) THEN "none" ELSE "NotServed"]]
    /\ UNCHANGED <<slots, loads, watch, engines, ctl, assigned, gate, permit,
                   boot>>

\* HOLD_THRESHOLD passes.
Expire(r) ==
    /\ reqs[r].pc \in {"entry", "wait", "recheck"}
    /\ ~reqs[r].expired
    /\ reqs' = [reqs EXCEPT ![r] =
                   [pc |-> reqs[r].pc, tag |-> reqs[r].tag,
                    chan |-> reqs[r].chan, expired |-> TRUE,
                    res |-> reqs[r].res]]
    /\ UNCHANGED <<slots, loads, watch, engines, ctl, assigned, gate, permit,
                   boot>>

EntryReady(r) ==
    /\ reqs[r].pc = "entry"
    /\ slots[reqs[r].tag].st = "Ready"
    /\ Answer(r, "Ready")
    /\ UNCHANGED <<slots, loads, watch, engines, ctl, assigned, gate, permit,
                   boot>>

\* A failure is returned and cleared; nothing is signalled.
EntryFailed(r) ==
    /\ reqs[r].pc = "entry"
    /\ slots[reqs[r].tag].st = "Failed"
    /\ RemoveSlot(reqs[r].tag)
    /\ Answer(r, "Failed")
    /\ UNCHANGED <<loads, engines, ctl, assigned, gate, permit, boot>>

\* 429 past the deadline, else subscribe under the entry guard.
EntryLoading(r) ==
    /\ reqs[r].pc = "entry"
    /\ slots[reqs[r].tag].st = "Loading"
    /\ IF reqs[r].expired
       THEN Answer(r, "Loading")
       ELSE Subscribe(r, slots[reqs[r].tag].chan)
    /\ UNCHANGED <<slots, loads, watch, engines, ctl, assigned, gate, permit,
                   boot>>

\* Mutant of EntryVacant: the entry guard does not exclude a racing insert.
EntryVacantRacing(r) ==
    /\ reqs[r].pc = "entry"
    /\ slots[reqs[r].tag].st \in {"Vacant", "Loading"}
    /\ \E l \in Loads : InsertLoading(reqs[r].tag, l) /\ Subscribe(r, l)
    /\ UNCHANGED <<engines, ctl, assigned, boot>>

EntryVacant(r) ==
    /\ reqs[r].pc = "entry"
    /\ slots[reqs[r].tag].st = "Vacant"
    /\ \E l \in Loads : InsertLoading(reqs[r].tag, l) /\ Subscribe(r, l)
    /\ UNCHANGED <<engines, ctl, assigned, boot>>

\* waiter.changed() resolves: the load sent, or the sender was dropped.
Woken(r) ==
    /\ reqs[r].pc = "wait"
    /\ watch[reqs[r].chan] # "open"
    /\ ReqTo(r, "entry", NoLoad, "none")
    /\ UNCHANGED <<slots, loads, watch, engines, ctl, assigned, gate, permit,
                   boot>>

\* Mutant of Timeout: waiting without the deadline.
TimeoutMissing(r) == Woken(r)

\* The timeout resolves; it polls changed() first, so only when that is
\* still pending.
Timeout(r) ==
    /\ reqs[r].pc = "wait"
    /\ reqs[r].expired
    /\ watch[reqs[r].chan] = "open"
    /\ ReqTo(r, "recheck", NoLoad, "none")
    /\ UNCHANGED <<slots, loads, watch, engines, ctl, assigned, gate, permit,
                   boot>>

\* After the timeout: still Loading is a 429, anything else loops.
Recheck(r) ==
    /\ reqs[r].pc = "recheck"
    /\ IF slots[reqs[r].tag].st = "Loading"
       THEN Answer(r, "Loading")
       ELSE ReqTo(r, "entry", NoLoad, "none")
    /\ UNCHANGED <<slots, loads, watch, engines, ctl, assigned, gate, permit,
                   boot>>

\* The client goes away: the handler's future is dropped at its await.
Disconnect(r) ==
    /\ reqs[r].pc = "wait"
    /\ ReqTo(r, "gone", NoLoad, "none")
    /\ UNCHANGED <<slots, loads, watch, engines, ctl, assigned, gate, permit,
                   boot>>

-----------------------------------------------------------------------------
(* The load task: load_model's phases, then publishing the outcome.        *)

LoadTo(l, pc, ok) ==
    loads' = [loads EXCEPT ![l] =
                 [pc |-> pc, tag |-> loads[l].tag, ok |-> ok,
                  devices |-> loads[l].devices]]

\* Mutant of Download: the early return of a failed download leaks the guard.
DownloadLeaksGuard(l) ==
    /\ loads[l].pc = "download"
    /\ \/ LoadTo(l, "engine", FALSE) /\ DropPriority
       \/ LoadTo(l, "publish", FALSE) /\ gate' = gate
    /\ UNCHANGED <<slots, watch, engines, reqs, ctl, assigned, permit, boot>>

\* Phase 1; the priority guard is dropped on both outcomes.
Download(l) ==
    /\ loads[l].pc = "download"
    /\ \E pc \in {"engine", "publish"} : LoadTo(l, pc, FALSE)
    /\ DropPriority
    /\ UNCHANGED <<slots, watch, engines, reqs, ctl, assigned, permit, boot>>

\* Phase 2, the engine load.
LoadEngine(l) ==
    /\ loads[l].pc = "engine"
    /\ \/ LoadTo(l, "signature", FALSE) /\ engines' = engines \cup {l}
       \/ LoadTo(l, "publish", FALSE) /\ engines' = engines
    /\ UNCHANGED <<slots, watch, reqs, ctl, assigned, gate, permit, boot>>

\* The signature lookup; failing it drops the instance that holds the engine.
RetrieveSignature(l) ==
    /\ loads[l].pc = "signature"
    /\ \/ LoadTo(l, "publish", TRUE) /\ engines' = engines
       \/ LoadTo(l, "publish", FALSE) /\ engines' = engines \ {l}
    /\ UNCHANGED <<slots, watch, reqs, ctl, assigned, gate, permit, boot>>

\* The slot the load writes its outcome into.
Outcome(l, s) ==
    [st |-> IF loads[l].ok THEN "Ready" ELSE "Failed",
     chan |-> s.chan,
     engine |-> IF loads[l].ok THEN l ELSE NoLoad,
     unload |-> FALSE,
     devices |-> IF loads[l].ok THEN loads[l].devices ELSE NoDev,
     cooling |-> ~loads[l].ok]

\* Mutants of PublishSlot: the waiters are not woken; a requested unload is
\* not looked at.
PublishSilently(l, t) ==
    /\ slots[t].st # "Vacant"
    /\ ~slots[t].unload
    /\ slots' = [slots EXCEPT ![t] = Outcome(l, slots[t])]
    /\ engines' = engines \ {slots[t].engine}
    /\ LoadTo(l, "notify", loads[l].ok)
    /\ UNCHANGED watch

PublishIgnoresUnload(l, t) ==
    /\ slots[t].st # "Vacant"
    /\ slots' = [slots EXCEPT ![t] = Outcome(l, slots[t])]
    /\ watch' = [watch EXCEPT ![slots[t].chan] = "sent"]
    /\ engines' = engines \ {slots[t].engine}
    /\ LoadTo(l, "notify", loads[l].ok)

\* Under get_mut: write the outcome and wake the waiters, whichever load
\* inserted the slot.
PublishSlot(l, t) ==
    /\ slots[t].st # "Vacant"
    /\ ~slots[t].unload
    /\ slots' = [slots EXCEPT ![t] = Outcome(l, slots[t])]
    /\ watch' = [watch EXCEPT ![slots[t].chan] = "sent"]
    /\ engines' = engines \ {slots[t].engine}
    /\ LoadTo(l, "notify", loads[l].ok)

\* Mutant of PublishDiscard: the load ends without removing the slot.
PublishForgetsSlot(l, t) ==
    /\ slots[t].st # "Vacant"
    /\ slots[t].unload
    /\ engines' = engines \ {l}
    /\ LoadTo(l, "notify", loads[l].ok)
    /\ UNCHANGED <<slots, watch>>

\* An unload was requested meanwhile: the load deletes instead.
PublishDiscard(l, t) ==
    /\ slots[t].st # "Vacant"
    /\ slots[t].unload
    /\ LoadTo(l, "remove", loads[l].ok)
    /\ UNCHANGED <<slots, watch, engines>>

\* The slot is gone: the outcome is dropped.
PublishNowhere(l, t) ==
    /\ slots[t].st = "Vacant"
    /\ engines' = engines \ {l}
    /\ LoadTo(l, "notify", loads[l].ok)
    /\ UNCHANGED <<slots, watch>>

Publish(l) ==
    /\ loads[l].pc = "publish"
    /\ \/ PublishSlot(l, loads[l].tag)
       \/ PublishDiscard(l, loads[l].tag)
       \/ PublishNowhere(l, loads[l].tag)
    /\ UNCHANGED <<reqs, ctl, assigned, gate, permit, boot>>

\* Deferred unload: remove whatever slot the tag has now.
RemoveAfterLoad(l) ==
    /\ loads[l].pc = "remove"
    /\ RemoveSlot(loads[l].tag)
    /\ engines' = engines \ {slots[loads[l].tag].engine}
    /\ LoadTo(l, IF loads[l].ok THEN "delete" ELSE "notify", loads[l].ok)
    /\ UNCHANGED <<reqs, ctl, assigned, gate, permit, boot>>

DeleteAfterLoad(l) ==
    /\ loads[l].pc = "delete"
    /\ engines' = engines \ {l}
    /\ LoadTo(l, "notify", TRUE)
    /\ UNCHANGED <<slots, watch, reqs, ctl, assigned, gate, permit, boot>>

NotifyLoaded(l) ==
    /\ loads[l].pc = "notify"
    /\ status_changed
    /\ loads' = [loads EXCEPT ![l] = NoTask]
    /\ UNCHANGED <<slots, watch, engines, reqs, ctl, assigned, gate, boot>>

LoadStep(l) ==
    \/ Download(l) \/ LoadEngine(l) \/ RetrieveSignature(l) \/ Publish(l)
    \/ RemoveAfterLoad(l) \/ DeleteAfterLoad(l) \/ NotifyLoaded(l)

-----------------------------------------------------------------------------
(* main's eager warm, and the operations of the heartbeat's task, which    *)
(* runs one at a time.                                                     *)

\* serve: warm each --models tag before the listener binds.
BootWarm(t) ==
    /\ t \in boot
    /\ boot' = boot \ {t}
    /\ \E l \in Loads : InsertLoading(t, l)
    /\ UNCHANGED <<engines, reqs, ctl, assigned>>

\* FAILED_RETRY_BACKOFF passes for a failed slot.
CoolDown(t) ==
    /\ slots[t].cooling
    /\ slots' = [slots EXCEPT ![t] = SlotWith(t, slots[t].unload, FALSE)]
    /\ UNCHANGED <<loads, watch, engines, reqs, ctl, assigned, gate, permit,
                   boot>>

Idle == boot = {} /\ ctl.pc = "idle"

\* The heartbeat loop takes the stored permit.
TakePermit ==
    /\ Idle /\ permit
    /\ permit' = FALSE
    /\ UNCHANGED <<slots, loads, watch, engines, reqs, ctl, assigned, gate, boot>>

\* Another part of the node (the cache tracker, the drain flag) signals.
StatusSignal ==
    /\ status_changed
    /\ UNCHANGED <<slots, loads, watch, engines, reqs, ctl, assigned, gate, boot>>

\* The heartbeat records a device assignment, or clears it.
Assign(t, d) ==
    /\ Idle
    /\ assigned' = [assigned EXCEPT ![t] = d]
    /\ UNCHANGED <<slots, loads, watch, engines, reqs, ctl, gate, permit, boot>>

\* warm_reconcile: a cooling failure is left alone, else go on to warm.
\* The slot's guard is released in between.
WarmReconcile(t) ==
    /\ Idle
    /\ serves(t)
    /\ ~(slots[t].st = "Failed" /\ slots[t].cooling)
    /\ ctl' = [pc |-> "warm", tag |-> t, engine |-> NoLoad]
    /\ UNCHANGED <<slots, loads, watch, engines, reqs, assigned, gate, permit,
                   boot>>

WarmOccupied ==
    /\ ctl.pc = "warm"
    /\ slots[ctl.tag].st \in {"Loading", "Ready"}
    /\ ctl' = CtlIdle
    /\ UNCHANGED <<slots, loads, watch, engines, reqs, assigned, gate, permit,
                   boot>>

\* A failure is cleared and warm starts over.
WarmFailed ==
    /\ ctl.pc = "warm"
    /\ slots[ctl.tag].st = "Failed"
    /\ RemoveSlot(ctl.tag)
    /\ UNCHANGED <<loads, engines, reqs, ctl, assigned, gate, permit, boot>>

WarmVacant ==
    /\ ctl.pc = "warm"
    /\ slots[ctl.tag].st = "Vacant"
    /\ \E l \in Loads : InsertLoading(ctl.tag, l)
    /\ ctl' = CtlIdle
    /\ UNCHANGED <<engines, reqs, assigned, boot>>

\* unload, first critical section: a Loading slot is only marked.
UnloadCheck(t) ==
    /\ Idle
    /\ serves(t)
    /\ IF slots[t].st = "Loading"
       THEN /\ slots' = [slots EXCEPT ![t] = SlotWith(t, TRUE, slots[t].cooling)]
            /\ ctl' = ctl
       ELSE /\ slots' = slots
            /\ ctl' = [pc |-> "remove", tag |-> t, engine |-> NoLoad]
    /\ UNCHANGED <<loads, watch, engines, reqs, assigned, gate, permit, boot>>

\* Mutant of UnloadRemove: the engine is deleted under a slot still Ready.
UnloadDeletesFirst ==
    /\ ctl.pc = "remove"
    /\ ctl' = IF slots[ctl.tag].st = "Ready"
              THEN [pc |-> "delete", tag |-> ctl.tag, engine |-> slots[ctl.tag].engine]
              ELSE CtlIdle
    /\ UNCHANGED <<slots, loads, watch, engines, reqs, assigned, gate, permit, boot>>

\* unload, second critical section: remove whatever slot is there by now.
UnloadRemove ==
    /\ ctl.pc = "remove"
    /\ RemoveSlot(ctl.tag)
    /\ permit' = (permit \/ slots[ctl.tag].st # "Vacant")
    /\ ctl' = IF slots[ctl.tag].st = "Ready"
              THEN [pc |-> "delete", tag |-> ctl.tag, engine |-> slots[ctl.tag].engine]
              ELSE CtlIdle
    /\ UNCHANGED <<loads, engines, reqs, assigned, gate, boot>>

\* unload, the awaited delete_predictor.
UnloadDelete ==
    /\ ctl.pc = "delete"
    /\ engines' = engines \ {ctl.engine}
    /\ ctl' = CtlIdle
    /\ UNCHANGED <<slots, loads, watch, reqs, assigned, gate, permit, boot>>

-----------------------------------------------------------------------------
RequestStep(r) ==
    \/ EntryReady(r) \/ EntryFailed(r) \/ EntryLoading(r) \/ EntryVacant(r)
    \/ Woken(r) \/ Timeout(r) \/ Recheck(r)

Environment ==
    \/ \E r \in Requests : (\E t \in Tags : Call(r, t)) \/ Expire(r) \/ Disconnect(r)
    \/ \E t \in Tags : CoolDown(t)

\* A server without a control plane never unloads.
StandaloneNext ==
    \/ \E r \in Requests : RequestStep(r)
    \/ \E l \in Loads : LoadStep(l)
    \/ \E t \in Tags : BootWarm(t)
    \/ Environment

WarmStep == WarmOccupied \/ WarmFailed \/ WarmVacant

ControlStep ==
    \/ TakePermit
    \/ StatusSignal
    \/ \E t \in Tags :
          (\E d \in DevOpt : Assign(t, d)) \/ WarmReconcile(t) \/ UnloadCheck(t)
    \/ WarmStep
    \/ UnloadRemove
    \/ UnloadDelete

\* A fleet node adds the heartbeat's task.
FleetNext == StandaloneNext \/ ControlStep

StandaloneSpec == Init /\ [][StandaloneNext]_vars
FleetSpec == Init /\ [][FleetNext]_vars

-----------------------------------------------------------------------------
(* Properties.                                                             *)

\* A load task that has not yet written its outcome.
InFlight(l) == loads[l].pc \in {"download", "engine", "signature", "publish"}

\* A request still waiting on an unsent channel waits for the slot its tag
\* has now, and that slot is Loading: whoever replaces the state sends on the
\* channel and whoever removes the slot drops the sender, so no waiter of
\* ensure_ready is left on a channel nobody will touch.
NoLostWakeup ==
    \A r \in Requests :
        (reqs[r].pc = "wait" /\ watch[reqs[r].chan] = "open") =>
            /\ slots[reqs[r].tag].st = "Loading"
            /\ slots[reqs[r].tag].chan = reqs[r].chan

\* A Loading slot's own load task is still going to end the Loading state: it
\* has not published yet, or it is about to remove the slot for a deferred
\* unload.  Holds even while unload removes slots under running loads.
LoadingHasLoad ==
    \A t \in Tags : slots[t].st = "Loading" =>
        LET l == slots[t].chan IN
        /\ l \in Loads
        /\ loads[l].tag = t
        /\ InFlight(l) \/ (loads[l].pc = "remove" /\ slots[t].unload)

\* The gate counts exactly the loads in their download phase: a guard is
\* dropped once on every path out of it, so prefetch is neither starved nor
\* let in early.
GateExact == gate = Cardinality({l \in Loads : loads[l].pc = "download"})

\* A Ready slot hands out an engine that is loaded, was loaded for this tag's
\* load, and that no unload is deleting.
ReadyIsLive ==
    \A t \in Tags : slots[t].st = "Ready" =>
        /\ slots[t].engine \in engines
        /\ slots[t].engine # ctl.engine
        /\ \A u \in Tags \ {t} : slots[u].engine # slots[t].engine

\* "Single-flight: the first request for a tag transitions the slot to Loading
\* and spawns one warmup" (registry.rs, ensure_ready).
SingleFlight ==
    \A k, l \in Loads :
        (InFlight(k) /\ InFlight(l) /\ loads[k].tag = loads[l].tag) => k = l

\* The engines a tag has: loading, serving or being deleted.
EngineOf(t) ==
    {l \in engines : \/ loads[l].pc # "none" /\ loads[l].tag = t
                     \/ slots[t].engine = l}

\* On a standalone server a tag never has two engines loaded at once, which
\* would double its memory.
OneEnginePerTag ==
    \A t \in Tags : \A k, l \in EngineOf(t) : k = l

\* On a standalone server a model that is Ready stays as it is: no late load
\* overwrites it and no failure path removes it.
ReadyKept == \A t \in Tags : slots[t].st = "Ready" => slots'[t] = slots[t]
ReadyStable == [][ReadyKept]_vars
=============================================================================
