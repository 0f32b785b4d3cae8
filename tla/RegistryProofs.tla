--------------------------- MODULE RegistryProofs ---------------------------
(***************************************************************************)
(* Safety of the registry for any tags, requests and load identities.     *)
(***************************************************************************)
EXTENDS MCRegistry, FiniteSetTheorems, TLAPS

\* The parts of a slot that only some states carry, and what boot may touch.
SlotShape ==
    \A t \in Tags :
        /\ slots[t].chan = NoLoad <=> slots[t].st = "Vacant"
        /\ slots[t].engine = NoLoad <=> slots[t].st # "Ready"
        /\ slots[t].unload => slots[t].st = "Loading"
        /\ slots[t].cooling => slots[t].st = "Failed"
        /\ t \in boot => slots[t].st = "Vacant"

\* A slot's channel is unsent exactly while the slot is Loading.
SlotWatch ==
    \A t \in Tags : slots[t].st # "Vacant" =>
        (watch[slots[t].chan] = "open" <=> slots[t].st = "Loading")

DistinctChans ==
    \A t, u \in Tags : slots[t].chan = slots[u].chan => t = u \/ slots[t].chan = NoLoad

\* Only a waiting request holds a receiver.
Receivers == \A r \in Requests : reqs[r].chan = NoLoad <=> reqs[r].pc # "wait"

\* While main warms the --models tags nothing else has started.
Booting ==
    boot # {} => ctl.pc = "idle" /\ \A r \in Requests : reqs[r].pc = "idle"

Published(l) == loads[l].pc \in {"none", "notify"}

\* A load that succeeded has its engine; an engine that is served or being
\* deleted by unload belongs to a load that has published.
EnginesHeld ==
    /\ \A l \in Loads :
          (loads[l].pc = "signature" \/ (loads[l].pc = "publish" /\ loads[l].ok))
              => l \in engines
    /\ \A t \in Tags : slots[t].st = "Ready" => Published(slots[t].engine)
    /\ ctl.engine # NoLoad => Published(ctl.engine)

FleetInv ==
    /\ TypeOK
    /\ SlotShape
    /\ SlotWatch
    /\ DistinctChans
    /\ Receivers
    /\ Booting
    /\ NoLostWakeup
    /\ LoadingHasLoad
    /\ EnginesHeld
    /\ ReadyIsLive

\* What holds in addition while nothing is ever unloaded: a load in flight is
\* the one its tag's slot waits for, and no engine outlives its slot.
LoadTracked ==
    \A l \in Loads : InFlight(l) =>
        /\ slots[loads[l].tag].st = "Loading"
        /\ slots[loads[l].tag].chan = l

EngineTracked ==
    \A l \in engines :
        /\ loads[l].pc \notin {"download", "engine"}
        /\ loads[l].pc = "publish" => loads[l].ok
        /\ InFlight(l) \/ slots[loads[l].tag].engine = l \/ loads[l].pc = "none"

StandaloneInv ==
    /\ FleetInv
    /\ LoadTracked
    /\ EngineTracked
    /\ ctl.pc = "idle"
    /\ \A t \in Tags : ~slots[t].unload
    /\ \A l \in Loads : loads[l].pc \notin {"remove", "delete"}
-----------------------------------------------------------------------------
(* Type correctness.                                                       *)

LEMMA AnyTagType == AnyTag \in Tags
  BY TagsAssumption DEF AnyTag

LEMMA RecordTypes ==
    /\ Vacant \in Slot
    /\ NoTask \in Load
    /\ CtlIdle \in Ctl
  BY AnyTagType DEF Vacant, Slot, NoTask, Load, LoadPC, CtlIdle, Ctl, DevOpt

\* The initial states have the types the module declares.
LEMMA TypeInit == Init => TypeOK
<1> SUFFICES ASSUME Init PROVE TypeOK
  OBVIOUS
<1>1. reqs \in [Requests -> Req]
  BY AnyTagType DEF Init, Req
<1>2. boot \subseteq Tags /\ assigned \in [Tags -> DevOpt]
  BY PinnedAssumption DEF Init, DevOpt
<1> QED
  BY <1>1, <1>2, RecordTypes DEF Init, TypeOK

LEMMA LoadToType ==
    ASSUME TypeOK, NEW l \in Loads, NEW pc \in LoadPC, NEW ok \in BOOLEAN,
           LoadTo(l, pc, ok)
    PROVE  loads' \in [Loads -> Load]
<1>1. [pc |-> pc, tag |-> loads[l].tag, ok |-> ok, devices |-> loads[l].devices]
         \in Load
  BY DEF TypeOK, Load
<1> QED
  BY <1>1 DEF TypeOK, LoadTo

LEMMA SlotWithType ==
    ASSUME TypeOK, NEW t \in Tags, NEW u \in BOOLEAN, NEW c \in BOOLEAN
    PROVE  SlotWith(t, u, c) \in Slot
  BY DEF TypeOK, Slot, SlotWith

LEMMA OutcomeType ==
    ASSUME TypeOK, NEW l \in Loads, NEW t \in Tags
    PROVE  Outcome(l, slots[t]) \in Slot
  BY DEF TypeOK, Slot, Outcome, Load, DevOpt

\* Every step of a fleet node, hence of a standalone server, keeps the types.
LEMMA TypeStep == TypeOK /\ [FleetNext]_vars => TypeOK'
<1> SUFFICES ASSUME TypeOK, [FleetNext]_vars PROVE TypeOK'
  OBVIOUS
<1> USE AnyTagType
<1>1. ASSUME NEW r \in Requests, NEW t \in Tags, Call(r, t)
        PROVE  TypeOK'
  BY <1>1 DEF TypeOK, Slot, Load, Req, Ctl, DevOpt, Call
<1>2. ASSUME NEW r \in Requests, Expire(r)
        PROVE  TypeOK'
  BY <1>2 DEF TypeOK, Slot, Load, Req, Ctl, DevOpt, Expire
<1>3. ASSUME NEW r \in Requests, Disconnect(r)
        PROVE  TypeOK'
  BY <1>3 DEF TypeOK, Slot, Load, Req, Ctl, DevOpt, Disconnect, ReqTo
<1>4. ASSUME NEW r \in Requests, EntryReady(r)
        PROVE  TypeOK'
  BY <1>4 DEF TypeOK, Slot, Load, Req, Ctl, DevOpt, EntryReady, Answer, ReqTo
<1>5. ASSUME NEW r \in Requests, EntryFailed(r)
        PROVE  TypeOK'
  BY <1>5 DEF TypeOK, Slot, Load, Req, Ctl, DevOpt, EntryFailed, Answer, ReqTo, RemoveSlot, Vacant
<1>6. ASSUME NEW r \in Requests, EntryLoading(r)
        PROVE  TypeOK'
  BY <1>6 DEF TypeOK, Slot, Load, Req, Ctl, DevOpt, EntryLoading, Answer, Subscribe, ReqTo
<1>7. ASSUME NEW r \in Requests, EntryVacant(r)
        PROVE  TypeOK'
  BY <1>7 DEF TypeOK, Slot, Load, Req, Ctl, DevOpt, EntryVacant, Subscribe, ReqTo, InsertLoading, Fresh, Vacant, status_changed, enter_priority, assigned_devices, LoadPC
<1>8. ASSUME NEW r \in Requests, Woken(r)
        PROVE  TypeOK'
  BY <1>8 DEF TypeOK, Slot, Load, Req, Ctl, DevOpt, Woken, ReqTo
<1>9. ASSUME NEW r \in Requests, Timeout(r)
        PROVE  TypeOK'
  BY <1>9 DEF TypeOK, Slot, Load, Req, Ctl, DevOpt, Timeout, ReqTo
<1>10. ASSUME NEW r \in Requests, Recheck(r)
        PROVE  TypeOK'
  BY <1>10 DEF TypeOK, Slot, Load, Req, Ctl, DevOpt, Recheck, Answer, ReqTo
<1>11. ASSUME NEW l \in Loads, Download(l)
        PROVE  TypeOK'
  BY <1>11 DEF TypeOK, Slot, Load, Req, Ctl, DevOpt, Download, LoadTo, LoadPC, DropPriority
<1>12. ASSUME NEW l \in Loads, LoadEngine(l)
        PROVE  TypeOK'
  <2>1. loads' \in [Loads -> Load]
    BY <1>12, LoadToType DEF LoadEngine, LoadPC
  <2> QED
    BY <1>12, <2>1 DEF TypeOK, LoadEngine
<1>13. ASSUME NEW l \in Loads, RetrieveSignature(l)
        PROVE  TypeOK'
  <2>1. loads' \in [Loads -> Load]
    BY <1>13, LoadToType DEF RetrieveSignature, LoadPC
  <2> QED
    BY <1>13, <2>1 DEF TypeOK, RetrieveSignature
<1>14. ASSUME NEW l \in Loads, Publish(l)
        PROVE  TypeOK'
  <2>0. loads[l].ok \in BOOLEAN /\ loads[l].tag \in Tags
    BY DEF TypeOK, Load
  <2>1. loads' \in [Loads -> Load]
    BY <1>14, <2>0, LoadToType
       DEF Publish, PublishSlot, PublishDiscard, PublishNowhere, LoadPC
  <2>2. slots' \in [Tags -> Slot]
    BY <1>14, <2>0, OutcomeType
       DEF TypeOK, Publish, PublishSlot, PublishDiscard, PublishNowhere
  <2> QED
    BY <1>14, <2>1, <2>2
       DEF TypeOK, Publish, PublishSlot, PublishDiscard, PublishNowhere
<1>15. ASSUME NEW l \in Loads, RemoveAfterLoad(l)
        PROVE  TypeOK'
  BY <1>15 DEF TypeOK, Slot, Load, Req, Ctl, DevOpt, RemoveAfterLoad, RemoveSlot, Vacant, LoadTo, LoadPC
<1>16. ASSUME NEW l \in Loads, DeleteAfterLoad(l)
        PROVE  TypeOK'
  BY <1>16 DEF TypeOK, Slot, Load, Req, Ctl, DevOpt, DeleteAfterLoad, LoadTo, LoadPC
<1>17. ASSUME NEW l \in Loads, NotifyLoaded(l)
        PROVE  TypeOK'
  BY <1>17 DEF TypeOK, Slot, Load, Req, Ctl, DevOpt, NotifyLoaded, NoTask, LoadPC, status_changed
<1>18. ASSUME NEW t \in Tags, BootWarm(t)
        PROVE  TypeOK'
  BY <1>18 DEF TypeOK, Slot, Load, Req, Ctl, DevOpt, BootWarm, InsertLoading, Fresh, Vacant, status_changed, enter_priority, assigned_devices, LoadPC
<1>19. ASSUME NEW t \in Tags, CoolDown(t)
        PROVE  TypeOK'
  BY <1>19 DEF TypeOK, Slot, Load, Req, Ctl, DevOpt, CoolDown, SlotWith
<1>20. CASE TakePermit \/ StatusSignal
  BY <1>20 DEF TypeOK, Slot, Load, Req, Ctl, DevOpt, TakePermit, StatusSignal, status_changed
<1>21. ASSUME NEW t \in Tags, NEW d \in DevOpt, Assign(t, d)
        PROVE  TypeOK'
  BY <1>21 DEF TypeOK, Slot, Load, Req, Ctl, DevOpt, Assign
<1>22. ASSUME NEW t \in Tags, WarmReconcile(t)
        PROVE  TypeOK'
  BY <1>22 DEF TypeOK, Slot, Load, Req, Ctl, DevOpt, WarmReconcile
<1>23. ASSUME NEW t \in Tags, UnloadCheck(t)
        PROVE  TypeOK'
  <2>1. slots[t].cooling \in BOOLEAN
    BY DEF TypeOK, Slot
  <2>2. slots' \in [Tags -> Slot]
    BY <1>23, <2>1, SlotWithType DEF TypeOK, UnloadCheck
  <2>3. ctl' = ctl \/ ctl' = [pc |-> "remove", tag |-> t, engine |-> NoLoad]
    BY <1>23 DEF UnloadCheck
  <2>4. [pc |-> "remove", tag |-> t, engine |-> NoLoad] \in Ctl
    BY DEF Ctl
  <2> QED
    BY <1>23, <2>2, <2>3, <2>4 DEF TypeOK, UnloadCheck
<1>24. CASE WarmOccupied
  BY <1>24 DEF TypeOK, Slot, Load, Req, Ctl, DevOpt, WarmOccupied, CtlIdle
<1>25. CASE WarmFailed
  BY <1>25 DEF TypeOK, Slot, Load, Req, Ctl, DevOpt, WarmFailed, RemoveSlot, Vacant
<1>26. CASE WarmVacant
  BY <1>26 DEF TypeOK, Slot, Load, Req, Ctl, DevOpt, WarmVacant, InsertLoading, Fresh, Vacant, status_changed, enter_priority, assigned_devices, LoadPC, CtlIdle
<1>27. CASE UnloadRemove
  BY <1>27 DEF TypeOK, Slot, Load, Req, Ctl, DevOpt, UnloadRemove, RemoveSlot, Vacant, CtlIdle
<1>28. CASE UnloadDelete
  BY <1>28 DEF TypeOK, Slot, Load, Req, Ctl, DevOpt, UnloadDelete, CtlIdle
<1>29. CASE UNCHANGED vars
  BY <1>29 DEF TypeOK, vars
<1> QED
  BY <1>1, <1>2, <1>3, <1>4, <1>5, <1>6, <1>7, <1>8, <1>9, <1>10, <1>11, <1>12, <1>13, <1>14, <1>15, <1>16, <1>17, <1>18, <1>19, <1>20, <1>21, <1>22, <1>23, <1>24, <1>25, <1>26, <1>27, <1>28, <1>29
     DEF FleetNext, StandaloneNext, Environment, ControlStep, RequestStep, LoadStep, WarmStep

\* Fleet nodes, and so standalone servers, keep every variable in its type.
THEOREM TypeCorrect == FleetSpec => []TypeOK
<1>1. Init => TypeOK
  BY TypeInit
<1>2. TypeOK /\ [FleetNext]_vars => TypeOK'
  BY TypeStep
<1> QED
  BY <1>1, <1>2, PTL DEF FleetSpec

-----------------------------------------------------------------------------
(* The invariant of a fleet node.                                          *)

LEMMA FleetInvInit == Init => FleetInv
<1> SUFFICES ASSUME Init PROVE FleetInv
  OBVIOUS
<1>1. TypeOK
  BY TypeInit
<1>2. \A t \in Tags : slots[t] = Vacant
  BY DEF Init
<1>3. /\ SlotShape /\ SlotWatch /\ DistinctChans /\ LoadingHasLoad /\ ReadyIsLive
  BY <1>2 DEF SlotShape, SlotWatch, DistinctChans, LoadingHasLoad, ReadyIsLive, Vacant
<1>4. Receivers /\ NoLostWakeup /\ Booting
  BY DEF Init, Receivers, NoLostWakeup, Booting, CtlIdle
<1>5. EnginesHeld
  BY <1>2 DEF Init, EnginesHeld, Vacant, NoTask, CtlIdle
<1> QED
  BY <1>1, <1>3, <1>4, <1>5 DEF FleetInv

\* A step that only moves requests, and moves them soundly.
LEMMA RequestsOnly ==
    ASSUME FleetInv, TypeOK', Receivers', NoLostWakeup', Booting',
           UNCHANGED <<slots, loads, watch, engines, ctl, boot>>
    PROVE  FleetInv'
  BY DEF FleetInv, SlotShape, SlotWatch, DistinctChans, LoadingHasLoad, InFlight,
         EnginesHeld, Published, ReadyIsLive

\* The engine a slot serves, and the one an unload deletes, belong to loads
\* that have published.
LEMMA ServedPublished ==
    ASSUME FleetInv, NEW u \in Tags, slots[u].st = "Ready"
    PROVE  slots[u].engine \in Loads /\ loads[slots[u].engine].pc \in {"none", "notify"}
  BY DEF FleetInv, SlotShape, EnginesHeld, Published, TypeOK, Slot

LEMMA DeletedPublished ==
    ASSUME FleetInv, ctl.engine # NoLoad
    PROVE  ctl.engine \in Loads /\ loads[ctl.engine].pc \in {"none", "notify"}
  BY DEF FleetInv, EnginesHeld, Published, TypeOK, Ctl

\* Inserting a Loading slot under a fresh identity.
LEMMA InsertKeeps ==
    ASSUME FleetInv, TypeOK', NEW t \in Tags, NEW l \in Loads,
           slots[t].st = "Vacant", InsertLoading(t, l),
           boot' \subseteq boot, t \notin boot', engines' = engines,
           ctl'.engine \in {ctl.engine, NoLoad}
    PROVE  /\ SlotShape' /\ SlotWatch' /\ DistinctChans' /\ LoadingHasLoad'
           /\ EnginesHeld' /\ ReadyIsLive'
           /\ \A r \in Requests :
                 watch'[reqs[r].chan] = watch[reqs[r].chan] /\ reqs[r].chan # l
<1> USE NoLoadAssumption DEF FleetInv, TypeOK, InsertLoading, Fresh
<1>1. SlotShape'
  BY DEF SlotShape, Slot
<1>2. SlotWatch'
  BY DEF SlotShape, SlotWatch, Slot
<1>3. DistinctChans'
  BY DEF DistinctChans, Slot
<1>4. LoadingHasLoad'
  BY DEF LoadingHasLoad, InFlight, Slot, Load
<1>5. EnginesHeld'
  BY DEF EnginesHeld, Published, ReadyIsLive, SlotShape, Slot, Load, Ctl
<1>6. ReadyIsLive'
  BY DEF ReadyIsLive, SlotShape, Slot
<1>7. \A r \in Requests :
         watch'[reqs[r].chan] = watch[reqs[r].chan] /\ reqs[r].chan # l
  BY DEF Req
<1> QED
  BY <1>1, <1>2, <1>3, <1>4, <1>5, <1>6, <1>7

\* Removing a slot, with whatever model only it held.
LEMMA RemoveKeeps ==
    ASSUME FleetInv, TypeOK', NEW t \in Tags, RemoveSlot(t), boot' = boot,
           engines \ {slots[t].engine} \subseteq engines'
    PROVE  /\ SlotShape' /\ SlotWatch' /\ DistinctChans'
           /\ \A u \in Tags \ {t} : slots'[u] = slots[u]
           /\ slots'[t] = Vacant
           /\ \A u \in Tags \ {t} : slots[u].st = "Ready" => slots[u].engine \in engines'
           /\ \A r \in Requests :
                 (reqs[r].pc = "wait" /\ watch'[reqs[r].chan] = "open") =>
                     /\ slots'[reqs[r].tag].st = "Loading"
                     /\ slots'[reqs[r].tag].chan = reqs[r].chan
<1> USE NoLoadAssumption DEF FleetInv, TypeOK, RemoveSlot
<1>1. slots'[t] = Vacant /\ \A u \in Tags \ {t} : slots'[u] = slots[u]
  OBVIOUS
<1>2. SlotShape'
  BY <1>1 DEF SlotShape, Vacant
<1>3. SlotWatch'
  BY <1>1 DEF SlotShape, SlotWatch, DistinctChans, Slot, Vacant
<1>4. DistinctChans'
  BY <1>1 DEF DistinctChans, Vacant
<1>5. \A u \in Tags \ {t} : slots[u].st = "Ready" => slots[u].engine \in engines'
  BY DEF ReadyIsLive, SlotShape
<1>6. ASSUME NEW r \in Requests, reqs[r].pc = "wait", watch'[reqs[r].chan] = "open"
      PROVE  /\ slots'[reqs[r].tag].st = "Loading"
             /\ slots'[reqs[r].tag].chan = reqs[r].chan
  <2>1. reqs[r].chan \in Loads /\ reqs[r].tag \in Tags
    BY <1>6 DEF Receivers, Req
  <2>2. watch[reqs[r].chan] = "open" /\ reqs[r].chan # slots[t].chan
    BY <1>6, <2>1
  <2>3. /\ slots[reqs[r].tag].st = "Loading"
        /\ slots[reqs[r].tag].chan = reqs[r].chan
    BY <1>6, <2>2 DEF NoLostWakeup
  <2> QED
    BY <1>1, <2>1, <2>2, <2>3
<1> QED
  BY <1>1, <1>2, <1>3, <1>4, <1>5, <1>6

\* Every step of a fleet node keeps the invariant.
LEMMA FleetInvStep == FleetInv /\ [FleetNext]_vars => FleetInv'
<1> SUFFICES ASSUME FleetInv, [FleetNext]_vars PROVE FleetInv'
  OBVIOUS
<1>0. TypeOK /\ TypeOK'
  BY TypeStep DEF FleetInv
<1> USE <1>0, NoLoadAssumption
<1>1. ASSUME NEW r \in Requests, NEW t \in Tags, Call(r, t) PROVE FleetInv'
  <2>1. Receivers' /\ NoLostWakeup' /\ Booting'
    BY <1>1 DEF Call, FleetInv, Receivers, NoLostWakeup, Booting, TypeOK, Req
  <2> QED
    BY <1>1, <2>1, RequestsOnly DEF Call
<1>2. ASSUME NEW r \in Requests, Expire(r) PROVE FleetInv'
  <2>1. Receivers' /\ NoLostWakeup' /\ Booting'
    BY <1>2 DEF Expire, FleetInv, Receivers, NoLostWakeup, Booting, TypeOK, Req
  <2> QED
    BY <1>2, <2>1, RequestsOnly DEF Expire
<1>3. ASSUME NEW r \in Requests, Disconnect(r) PROVE FleetInv'
  <2>1. Receivers' /\ NoLostWakeup' /\ Booting'
    BY <1>3 DEF Disconnect, ReqTo, FleetInv, Receivers, NoLostWakeup, Booting, TypeOK, Req
  <2> QED
    BY <1>3, <2>1, RequestsOnly DEF Disconnect
<1>4. ASSUME NEW r \in Requests, EntryReady(r) PROVE FleetInv'
  <2>1. Receivers' /\ NoLostWakeup' /\ Booting'
    BY <1>4 DEF EntryReady, Answer, ReqTo, FleetInv, Receivers, NoLostWakeup, Booting, TypeOK, Req
  <2> QED
    BY <1>4, <2>1, RequestsOnly DEF EntryReady
<1>5. ASSUME NEW r \in Requests, EntryFailed(r) PROVE FleetInv'
  <2> DEFINE t == reqs[r].tag
  <2>1. t \in Tags /\ RemoveSlot(t) /\ engines' = engines /\ slots[t].st = "Failed"
    BY <1>5 DEF EntryFailed, TypeOK, Req
  <2>2. boot' = boot /\ loads' = loads /\ ctl' = ctl
    BY <1>5 DEF EntryFailed
  <2> HIDE DEF t
  <2>3. /\ SlotShape' /\ SlotWatch' /\ DistinctChans'
        /\ \A u \in Tags \ {t} : slots'[u] = slots[u]
        /\ slots'[t] = Vacant
        /\ \A q \in Requests :
                 (reqs[q].pc = "wait" /\ watch'[reqs[q].chan] = "open") =>
                     /\ slots'[reqs[q].tag].st = "Loading"
                     /\ slots'[reqs[q].tag].chan = reqs[q].chan
    BY <2>1, <2>2, RemoveKeeps
  <2>4. Receivers' /\ NoLostWakeup' /\ Booting'
    BY <1>5, <2>3 DEF EntryFailed, Answer, ReqTo, FleetInv, Receivers, NoLostWakeup,
                      Booting, TypeOK, Req
  <2>5. LoadingHasLoad' /\ EnginesHeld' /\ ReadyIsLive'
    BY <2>1, <2>2, <2>3
       DEF FleetInv, LoadingHasLoad, InFlight, EnginesHeld, Published, ReadyIsLive, Vacant,
           SlotShape
  <2> QED
    BY <2>3, <2>4, <2>5 DEF FleetInv
<1>6. ASSUME NEW r \in Requests, EntryLoading(r) PROVE FleetInv'
  <2>a. Answer(r, "Loading") \/ Subscribe(r, slots[reqs[r].tag].chan)
    BY <1>6 DEF EntryLoading
  <2>b. /\ reqs[r].pc = "entry" /\ slots[reqs[r].tag].st = "Loading"
        /\ UNCHANGED <<slots, watch, ctl, boot>>
    BY <1>6 DEF EntryLoading
  <2>c. slots[reqs[r].tag].chan \in Loads /\ boot = {}
    BY <2>b DEF FleetInv, SlotShape, Booting, TypeOK, Req, Slot
  <2>1. Receivers' /\ NoLostWakeup' /\ Booting'
    <3>1. CASE Answer(r, "Loading")
      BY <2>b, <2>c, <3>1 DEF Answer, ReqTo, FleetInv, Receivers, NoLostWakeup, Booting,
                              TypeOK, Req
    <3>2. CASE Subscribe(r, slots[reqs[r].tag].chan)
      BY <2>b, <2>c, <3>2 DEF Subscribe, ReqTo, FleetInv, Receivers, NoLostWakeup, Booting,
                              TypeOK, Req
    <3> QED
      BY <2>a, <3>1, <3>2
  <2> QED
    BY <1>6, <2>1, RequestsOnly DEF EntryLoading
<1>7. ASSUME NEW r \in Requests, EntryVacant(r) PROVE FleetInv'
  <2>1. PICK l \in Loads : InsertLoading(reqs[r].tag, l) /\ Subscribe(r, l)
    BY <1>7 DEF EntryVacant
  <2>2. /\ reqs[r].tag \in Tags /\ slots[reqs[r].tag].st = "Vacant"
        /\ boot = {} /\ boot' = {} /\ ctl' = ctl /\ engines' = engines
    BY <1>7 DEF EntryVacant, FleetInv, Booting, TypeOK, Req
  <2>3. /\ SlotShape' /\ SlotWatch' /\ DistinctChans' /\ LoadingHasLoad'
        /\ EnginesHeld' /\ ReadyIsLive'
        /\ \A q \in Requests :
              watch'[reqs[q].chan] = watch[reqs[q].chan] /\ reqs[q].chan # l
    BY <2>1, <2>2, InsertKeeps
  <2>4. Receivers' /\ Booting'
    BY <2>1, <2>2 DEF Subscribe, ReqTo, FleetInv, Receivers, Booting, TypeOK, Req
  <2>5. NoLostWakeup'
    BY <2>1, <2>2, <2>3
       DEF Subscribe, ReqTo, InsertLoading, FleetInv, NoLostWakeup, TypeOK, Req
  <2> QED
    BY <2>3, <2>4, <2>5 DEF FleetInv
<1>8. ASSUME NEW r \in Requests, Woken(r) PROVE FleetInv'
  <2>1. Receivers' /\ NoLostWakeup' /\ Booting'
    BY <1>8 DEF Woken, ReqTo, FleetInv, Receivers, NoLostWakeup, Booting, TypeOK, Req
  <2> QED
    BY <1>8, <2>1, RequestsOnly DEF Woken
<1>9. ASSUME NEW r \in Requests, Timeout(r) PROVE FleetInv'
  <2>1. Receivers' /\ NoLostWakeup' /\ Booting'
    BY <1>9 DEF Timeout, ReqTo, FleetInv, Receivers, NoLostWakeup, Booting, TypeOK, Req
  <2> QED
    BY <1>9, <2>1, RequestsOnly DEF Timeout
<1>10. ASSUME NEW r \in Requests, Recheck(r) PROVE FleetInv'
  <2>a. Answer(r, "Loading") \/ ReqTo(r, "entry", NoLoad, "none")
    BY <1>10 DEF Recheck
  <2>b. reqs[r].pc = "recheck" /\ UNCHANGED <<slots, watch, ctl, boot>>
    BY <1>10 DEF Recheck
  <2>1. Receivers' /\ NoLostWakeup' /\ Booting'
    BY <2>a, <2>b DEF Answer, ReqTo, FleetInv, Receivers, NoLostWakeup, Booting, TypeOK, Req
  <2> QED
    BY <1>10, <2>1, RequestsOnly DEF Recheck
<1>11. ASSUME NEW l \in Loads, Download(l) \/ LoadEngine(l) \/ RetrieveSignature(l)
       PROVE  FleetInv'
  <2>1. /\ InFlight(l) /\ InFlight(l)'
        /\ \A k \in Loads \ {l} : loads'[k] = loads[k]
        /\ loads'[l].tag = loads[l].tag
        /\ engines \ {l} \subseteq engines'
        /\ (loads'[l].pc = "signature" \/ loads'[l].ok) => l \in engines'
        /\ UNCHANGED <<slots, watch, reqs, ctl, boot>>
    BY <1>11 DEF Download, LoadEngine, RetrieveSignature, LoadTo, InFlight, TypeOK, Load,
                 FleetInv, EnginesHeld
  <2>2. LoadingHasLoad'
    BY <2>1 DEF FleetInv, LoadingHasLoad, InFlight
  <2>3. EnginesHeld'
    <3>1. \A k \in Loads :
             (loads'[k].pc = "signature" \/ (loads'[k].pc = "publish" /\ loads'[k].ok))
                 => k \in engines'
      BY <2>1 DEF FleetInv, EnginesHeld
    <3>2. ASSUME NEW u \in Tags, slots'[u].st = "Ready" PROVE Published(slots[u].engine)'
      BY <2>1, <3>2, ServedPublished DEF Published, InFlight
    <3>3. ctl'.engine # NoLoad => Published(ctl.engine)'
      BY <2>1, DeletedPublished DEF Published, InFlight
    <3> QED
      BY <3>1, <3>2, <3>3 DEF EnginesHeld
  <2>4. ReadyIsLive'
    BY <2>1 DEF FleetInv, ReadyIsLive, EnginesHeld, Published, InFlight
  <2> QED
    BY <2>1, <2>2, <2>3, <2>4
       DEF FleetInv, SlotShape, SlotWatch, DistinctChans, Receivers, NoLostWakeup, Booting
<1>12. ASSUME NEW l \in Loads, Publish(l) PROVE FleetInv'
  <2> DEFINE t == loads[l].tag
  <2>1. /\ t \in Tags /\ loads[l].pc = "publish"
        /\ UNCHANGED <<reqs, ctl, boot>>
        /\ loads[l].ok \in BOOLEAN
        /\ loads[l].ok => l \in engines
    BY <1>12 DEF Publish, TypeOK, Load, FleetInv, EnginesHeld
  <2>2. /\ \A u \in Tags : slots[u].engine # l
        /\ ctl.engine # l
    BY <2>1 DEF FleetInv, EnginesHeld, Published, SlotShape
  <2> HIDE DEF t
  <2>3. CASE PublishSlot(l, t)
    <3> DEFINE s == Outcome(l, slots[t])
    <3>1. /\ slots'[t] = s /\ \A u \in Tags \ {t} : slots'[u] = slots[u]
          /\ slots[t].st # "Vacant" /\ ~slots[t].unload /\ slots[t].chan \in Loads
          /\ watch' = [watch EXCEPT ![slots[t].chan] = "sent"]
          /\ engines' = engines \ {slots[t].engine}
      BY <2>1, <2>3 DEF PublishSlot, TypeOK, FleetInv, SlotShape, Slot
    <3>2. /\ s.st = "Ready" \/ s.st = "Failed"
          /\ s.st = "Ready" => s.engine = l /\ l \in engines
          /\ s.st = "Failed" => s.engine = NoLoad
          /\ s.chan = slots[t].chan
          /\ s.unload = FALSE
          /\ s.cooling => s.st = "Failed"
      BY <2>1 DEF Outcome
    <3>3. /\ loads'[l].pc = "notify" /\ loads'[l].tag = t
          /\ \A k \in Loads \ {l} : loads'[k] = loads[k]
      BY <2>3 DEF PublishSlot, LoadTo, TypeOK, t
    <3> HIDE DEF s
    <3>4. SlotShape'
      BY <2>1, <3>1, <3>2 DEF FleetInv, SlotShape
    <3>5. SlotWatch'
      BY <2>1, <3>1, <3>2 DEF FleetInv, SlotWatch, DistinctChans, SlotShape, TypeOK, Slot
    <3>6. DistinctChans'
      BY <2>1, <3>1, <3>2 DEF FleetInv, DistinctChans
    <3>7. NoLostWakeup'
      BY <2>1, <3>1, <3>2
         DEF FleetInv, NoLostWakeup, DistinctChans, Receivers, TypeOK, Req, Slot
    <3>8. LoadingHasLoad'
      <4> SUFFICES ASSUME NEW u \in Tags, slots'[u].st = "Loading"
                   PROVE  /\ slots'[u].chan \in Loads
                          /\ loads'[slots'[u].chan].tag = u
                          /\ \/ loads'[slots'[u].chan].pc
                                   \in {"download", "engine", "signature", "publish"}
                             \/ loads'[slots'[u].chan].pc = "remove" /\ slots'[u].unload
        BY DEF LoadingHasLoad, InFlight
      <4>1. u # t /\ slots'[u] = slots[u]
        BY <3>1, <3>2
      <4>2. slots[u].chan # l
        BY <4>1, <2>1 DEF FleetInv, LoadingHasLoad, t
      <4> QED
        BY <4>1, <4>2, <3>3 DEF FleetInv, LoadingHasLoad, InFlight
    <3>9. EnginesHeld'
      <4>1. \A k \in Loads :
               (loads'[k].pc = "signature" \/ (loads'[k].pc = "publish" /\ loads'[k].ok))
                   => k \in engines'
        BY <2>1, <3>1, <3>3 DEF FleetInv, EnginesHeld, Published, SlotShape
      <4>2. \A u \in Tags : slots'[u].st = "Ready" =>
                loads'[slots'[u].engine].pc \in {"none", "notify"}
        BY <2>2, <3>1, <3>2, <3>3
           DEF FleetInv, EnginesHeld, Published, SlotShape, TypeOK, Slot
      <4>3. ctl'.engine # NoLoad => loads'[ctl'.engine].pc \in {"none", "notify"}
        BY <2>1, <2>2, <3>3 DEF FleetInv, EnginesHeld, Published, TypeOK, Ctl
      <4> QED
        BY <4>1, <4>2, <4>3 DEF EnginesHeld, Published
    <3>10. ReadyIsLive'
      BY <2>1, <2>2, <3>1, <3>2 DEF FleetInv, ReadyIsLive, SlotShape
    <3> QED
      BY <2>1, <3>4, <3>5, <3>6, <3>7, <3>8, <3>9, <3>10 DEF FleetInv, Receivers, Booting
  <2>4. CASE PublishDiscard(l, t)
    <3>1. /\ loads'[l].pc = "remove" /\ loads'[l].tag = t
          /\ \A k \in Loads \ {l} : loads'[k] = loads[k]
          /\ slots[t].unload
          /\ UNCHANGED <<slots, watch, engines>>
      BY <2>4 DEF PublishDiscard, LoadTo, TypeOK, t
    <3>2. LoadingHasLoad'
      BY <2>1, <3>1 DEF FleetInv, LoadingHasLoad, InFlight, t
    <3>3. EnginesHeld'
      BY <2>1, <2>2, <3>1 DEF FleetInv, EnginesHeld, Published, SlotShape, TypeOK, Slot, Ctl
    <3> QED
      BY <2>1, <3>1, <3>2, <3>3
         DEF FleetInv, SlotShape, SlotWatch, DistinctChans, Receivers, NoLostWakeup, Booting,
             ReadyIsLive
  <2>5. CASE PublishNowhere(l, t)
    <3>1. /\ loads'[l].pc = "notify"
          /\ \A k \in Loads \ {l} : loads'[k] = loads[k]
          /\ slots[t].st = "Vacant"
          /\ engines' = engines \ {l}
          /\ UNCHANGED <<slots, watch>>
      BY <2>5 DEF PublishNowhere, LoadTo, TypeOK
    <3>2. LoadingHasLoad'
      BY <2>1, <3>1 DEF FleetInv, LoadingHasLoad, InFlight, t
    <3>3. EnginesHeld'
      BY <2>1, <2>2, <3>1 DEF FleetInv, EnginesHeld, Published, SlotShape, TypeOK, Slot, Ctl
    <3>4. ReadyIsLive'
      BY <2>1, <2>2, <3>1 DEF FleetInv, ReadyIsLive
    <3> QED
      BY <2>1, <3>1, <3>2, <3>3, <3>4
         DEF FleetInv, SlotShape, SlotWatch, DistinctChans, Receivers, NoLostWakeup, Booting
  <2> QED
    BY <1>12, <2>3, <2>4, <2>5 DEF Publish, t
<1>13. ASSUME NEW l \in Loads, RemoveAfterLoad(l) PROVE FleetInv'
  <2> DEFINE t == loads[l].tag
  <2>1. /\ t \in Tags /\ loads[l].pc = "remove" /\ RemoveSlot(t)
        /\ UNCHANGED <<reqs, ctl, boot>>
        /\ engines' = engines \ {slots[t].engine}
    BY <1>13 DEF RemoveAfterLoad, TypeOK, Load
  <2>2. /\ loads'[l].pc \in {"delete", "notify"}
        /\ \A k \in Loads \ {l} : loads'[k] = loads[k]
    BY <1>13 DEF RemoveAfterLoad, LoadTo, TypeOK
  <2>3. \A u \in Tags \ {t} : slots[u].st = "Loading" => slots[u].chan # l
    BY DEF FleetInv, LoadingHasLoad
  <2> HIDE DEF t
  <2>4. /\ SlotShape' /\ SlotWatch' /\ DistinctChans'
        /\ \A u \in Tags \ {t} : slots'[u] = slots[u]
        /\ slots'[t] = Vacant
        /\ \A u \in Tags \ {t} : slots[u].st = "Ready" => slots[u].engine \in engines'
        /\ \A q \in Requests :
                 (reqs[q].pc = "wait" /\ watch'[reqs[q].chan] = "open") =>
                     /\ slots'[reqs[q].tag].st = "Loading"
                     /\ slots'[reqs[q].tag].chan = reqs[q].chan
    BY <2>1, RemoveKeeps
  <2>5. NoLostWakeup'
    BY <2>1, <2>4 DEF NoLostWakeup
  <2>6. LoadingHasLoad'
    BY <2>2, <2>3, <2>4 DEF FleetInv, LoadingHasLoad, InFlight, Vacant
  <2>7. EnginesHeld'
    <3>1. \A k \in Loads :
             (loads'[k].pc = "signature" \/ (loads'[k].pc = "publish" /\ loads'[k].ok))
                 => k \in engines'
      BY <2>1, <2>2 DEF FleetInv, EnginesHeld, Published, SlotShape
    <3>2. \A u \in Tags : slots'[u].st = "Ready" =>
              loads'[slots'[u].engine].pc \in {"none", "notify"}
      <4>1. ASSUME NEW u \in Tags, slots'[u].st = "Ready"
            PROVE  slots'[u] = slots[u]
        BY <2>4, <4>1 DEF Vacant
      <4>2. ASSUME NEW k \in Loads, loads[k].pc \in {"none", "notify"}
            PROVE  loads'[k] = loads[k]
        BY <2>1, <2>2, <4>2
      <4> QED
        BY <4>1, <4>2, ServedPublished
    <3>3. ctl'.engine # NoLoad => loads'[ctl'.engine].pc \in {"none", "notify"}
      BY <2>1, <2>2 DEF FleetInv, EnginesHeld, Published, TypeOK, Ctl
    <3> QED
      BY <3>1, <3>2, <3>3 DEF EnginesHeld, Published
  <2>8. ReadyIsLive'
    BY <2>1, <2>4 DEF FleetInv, ReadyIsLive, Vacant, TypeOK
  <2> QED
    BY <2>1, <2>4, <2>5, <2>6, <2>7, <2>8 DEF FleetInv, Receivers, Booting
<1>14. ASSUME NEW l \in Loads, DeleteAfterLoad(l) \/ NotifyLoaded(l) PROVE FleetInv'
  <2>1. /\ loads[l].pc \in {"delete", "notify"} /\ loads'[l].pc \in {"notify", "none"}
        /\ loads[l].pc = "delete" => engines' = engines \ {l}
        /\ loads[l].pc = "notify" => engines' = engines
        /\ \A k \in Loads \ {l} : loads'[k] = loads[k]
        /\ UNCHANGED <<slots, watch, reqs, ctl, boot>>
    BY <1>14 DEF DeleteAfterLoad, NotifyLoaded, LoadTo, NoTask, TypeOK
  <2>2. LoadingHasLoad'
    BY <2>1 DEF FleetInv, LoadingHasLoad, InFlight
  <2>3. EnginesHeld'
    <3>1. \A k \in Loads :
             (loads'[k].pc = "signature" \/ (loads'[k].pc = "publish" /\ loads'[k].ok))
                 => k \in engines'
      BY <2>1 DEF FleetInv, EnginesHeld
    <3>2. ASSUME NEW k \in Loads, loads[k].pc \in {"none", "notify"} PROVE Published(k)'
      BY <2>1, <3>2 DEF Published
    <3>3. ASSUME NEW u \in Tags, slots'[u].st = "Ready" PROVE Published(slots[u].engine)'
      BY <2>1, <3>2, <3>3, ServedPublished
    <3>4. ctl'.engine # NoLoad => Published(ctl.engine)'
      BY <2>1, <3>2, DeletedPublished
    <3> QED
      BY <2>1, <3>1, <3>3, <3>4 DEF EnginesHeld
  <2>4. ReadyIsLive'
    BY <2>1 DEF FleetInv, ReadyIsLive, EnginesHeld, Published
  <2> QED
    BY <2>1, <2>2, <2>3, <2>4
       DEF FleetInv, SlotShape, SlotWatch, DistinctChans, Receivers, NoLostWakeup, Booting
<1>15. ASSUME NEW t \in Tags, BootWarm(t) PROVE FleetInv'
  <2>1. PICK l \in Loads : InsertLoading(t, l)
    BY <1>15 DEF BootWarm
  <2>2. /\ slots[t].st = "Vacant" /\ boot' = boot \ {t} /\ boot # {}
        /\ UNCHANGED <<engines, reqs, ctl>>
    BY <1>15 DEF BootWarm, FleetInv, SlotShape
  <2>3. /\ SlotShape' /\ SlotWatch' /\ DistinctChans' /\ LoadingHasLoad'
        /\ EnginesHeld' /\ ReadyIsLive'
    BY <2>1, <2>2, InsertKeeps
  <2>4. Receivers' /\ Booting' /\ NoLostWakeup'
    BY <2>2 DEF FleetInv, Receivers, Booting, NoLostWakeup
  <2> QED
    BY <2>3, <2>4 DEF FleetInv
<1>16. ASSUME NEW t \in Tags, CoolDown(t) \/ UnloadCheck(t) PROVE FleetInv'
  <2>1. /\ slots'[t].st = slots[t].st /\ slots'[t].chan = slots[t].chan
        /\ slots'[t].engine = slots[t].engine
        /\ slots'[t].cooling => slots[t].cooling
        /\ slots[t].unload => slots'[t].unload
        /\ slots'[t].unload => slots[t].unload \/ slots[t].st = "Loading"
        /\ \A u \in Tags \ {t} : slots'[u] = slots[u]
    BY <1>16 DEF CoolDown, UnloadCheck, SlotWith, TypeOK
  <2>a. \/ ctl' = ctl
        \/ boot = {} /\ ctl' = [pc |-> "remove", tag |-> t, engine |-> NoLoad]
    BY <1>16 DEF CoolDown, UnloadCheck, Idle
  <2>b. UNCHANGED <<loads, watch, engines, reqs, boot>>
    BY <1>16 DEF CoolDown, UnloadCheck
  <2>2. /\ UNCHANGED <<loads, watch, engines, reqs, boot>>
        /\ ctl'.engine \in {ctl.engine, NoLoad}
        /\ ctl' = ctl \/ boot = {}
    BY <2>a, <2>b
  <2>3. SlotShape' /\ SlotWatch' /\ DistinctChans'
    BY <2>1, <2>2 DEF FleetInv, SlotShape, SlotWatch, DistinctChans
  <2>4. Receivers' /\ Booting' /\ NoLostWakeup'
    BY <2>1, <2>2 DEF FleetInv, Receivers, Booting, NoLostWakeup, TypeOK, Req
  <2>5. LoadingHasLoad'
    BY <2>1, <2>2 DEF FleetInv, LoadingHasLoad, InFlight
  <2>6. EnginesHeld' /\ ReadyIsLive'
    BY <2>1, <2>2 DEF FleetInv, EnginesHeld, Published, ReadyIsLive, TypeOK
  <2> QED
    BY <2>3, <2>4, <2>5, <2>6 DEF FleetInv
<1>17. ASSUME NEW t \in Tags,
              TakePermit \/ StatusSignal \/ (\E d \in DevOpt : Assign(t, d))
                 \/ WarmReconcile(t) \/ WarmOccupied
       PROVE  FleetInv'
  <2>1. /\ UNCHANGED <<slots, loads, watch, engines, reqs, boot>>
        /\ ctl'.engine \in {ctl.engine, NoLoad}
        /\ ctl' = ctl \/ boot = {}
    BY <1>17 DEF TakePermit, StatusSignal, Assign, WarmReconcile, WarmOccupied, CtlIdle, Idle,
         FleetInv, Booting
  <2> QED
    BY <2>1 DEF FleetInv, SlotShape, SlotWatch, DistinctChans, Receivers, Booting,
         NoLostWakeup, LoadingHasLoad, InFlight, EnginesHeld, Published, ReadyIsLive, TypeOK
<1>18. CASE WarmFailed \/ UnloadRemove
  <2> DEFINE t == ctl.tag
  <2>1. /\ t \in Tags /\ RemoveSlot(t) /\ engines' = engines /\ boot = {}
        /\ UNCHANGED <<reqs, loads, boot>>
    BY <1>18 DEF WarmFailed, UnloadRemove, TypeOK, Ctl, FleetInv, Booting
  <2>2. \/ ctl'.engine \in {ctl.engine, NoLoad}
        \/ slots[t].st = "Ready" /\ ctl'.engine = slots[t].engine
    BY <1>18 DEF WarmFailed, UnloadRemove, CtlIdle
  <2> HIDE DEF t
  <2>3. /\ SlotShape' /\ SlotWatch' /\ DistinctChans'
        /\ \A u \in Tags \ {t} : slots'[u] = slots[u]
        /\ slots'[t] = Vacant
        /\ \A q \in Requests :
                 (reqs[q].pc = "wait" /\ watch'[reqs[q].chan] = "open") =>
                     /\ slots'[reqs[q].tag].st = "Loading"
                     /\ slots'[reqs[q].tag].chan = reqs[q].chan
    BY <2>1, RemoveKeeps
  <2>4. Receivers' /\ Booting' /\ NoLostWakeup'
    BY <2>1, <2>3 DEF FleetInv, Receivers, Booting, NoLostWakeup
  <2>5. LoadingHasLoad'
    BY <2>1, <2>3 DEF FleetInv, LoadingHasLoad, InFlight, Vacant
  <2>6. EnginesHeld'
    BY <2>1, <2>2, <2>3 DEF FleetInv, EnginesHeld, Published, Vacant
  <2>7. ReadyIsLive'
    BY <2>1, <2>2, <2>3 DEF FleetInv, ReadyIsLive, Vacant, TypeOK
  <2> QED
    BY <2>3, <2>4, <2>5, <2>6, <2>7 DEF FleetInv
<1>19. CASE WarmVacant
  <2>1. PICK l \in Loads : InsertLoading(ctl.tag, l)
    BY <1>19 DEF WarmVacant
  <2>2. /\ ctl.tag \in Tags /\ slots[ctl.tag].st = "Vacant" /\ boot = {} /\ boot' = {}
        /\ ctl'.engine = NoLoad
        /\ UNCHANGED <<engines, reqs>>
    BY <1>19 DEF WarmVacant, CtlIdle, TypeOK, Ctl, FleetInv, Booting
  <2>3. /\ SlotShape' /\ SlotWatch' /\ DistinctChans' /\ LoadingHasLoad'
        /\ EnginesHeld' /\ ReadyIsLive'
        /\ \A q \in Requests :
              watch'[reqs[q].chan] = watch[reqs[q].chan] /\ reqs[q].chan # l
    BY <2>1, <2>2, InsertKeeps
  <2>4. Receivers' /\ Booting'
    BY <2>2 DEF FleetInv, Receivers, Booting
  <2>5. NoLostWakeup'
    BY <2>1, <2>2, <2>3 DEF InsertLoading, FleetInv, NoLostWakeup, TypeOK, Req
  <2> QED
    BY <2>3, <2>4, <2>5 DEF FleetInv
<1>20. CASE UnloadDelete
  <2>1. /\ engines' = engines \ {ctl.engine} /\ ctl'.engine = NoLoad /\ boot = {}
        /\ UNCHANGED <<slots, loads, watch, reqs, boot>>
    BY <1>20 DEF UnloadDelete, CtlIdle, FleetInv, Booting
  <2>2. SlotShape' /\ SlotWatch' /\ DistinctChans' /\ LoadingHasLoad'
    BY <2>1 DEF FleetInv, SlotShape, SlotWatch, DistinctChans, LoadingHasLoad, InFlight
  <2>3. Receivers' /\ Booting' /\ NoLostWakeup'
    BY <2>1 DEF FleetInv, Receivers, Booting, NoLostWakeup
  <2>4. EnginesHeld' /\ ReadyIsLive'
    BY <2>1 DEF FleetInv, EnginesHeld, Published, ReadyIsLive, TypeOK
  <2> QED
    BY <2>2, <2>3, <2>4 DEF FleetInv
<1>21. CASE UNCHANGED vars
  BY <1>21 DEF vars, FleetInv, SlotShape, SlotWatch, DistinctChans, Receivers, Booting,
         NoLostWakeup, LoadingHasLoad, InFlight, EnginesHeld, Published, ReadyIsLive
<1> QED
  BY <1>1, <1>2, <1>3, <1>4, <1>5, <1>6, <1>7, <1>8, <1>9, <1>10, <1>11, <1>12, <1>13,
     <1>14, <1>15, <1>16, <1>17, <1>18, <1>19, <1>20, <1>21, TagsAssumption
     DEF FleetNext, StandaloneNext, Environment, ControlStep, RequestStep, LoadStep, WarmStep

LEMMA FleetInvariant == FleetSpec => []FleetInv
<1>1. Init => FleetInv
  BY FleetInvInit
<1>2. FleetInv /\ [FleetNext]_vars => FleetInv'
  BY FleetInvStep
<1> QED
  BY <1>1, <1>2, PTL DEF FleetSpec

\* No waiter of ensure_ready is left on a channel nobody will send on or drop,
\* whatever the control plane unloads meanwhile.
THEOREM WaitersAreWoken == FleetSpec => []NoLostWakeup
<1>1. FleetInv => NoLostWakeup
  BY DEF FleetInv
<1> QED
  BY <1>1, FleetInvariant, PTL

\* A Loading slot always has the load task that will end it.
THEOREM LoadingEnds == FleetSpec => []LoadingHasLoad
<1>1. FleetInv => LoadingHasLoad
  BY DEF FleetInv
<1> QED
  BY <1>1, FleetInvariant, PTL

\* ensure_ready never hands out an engine that unload is deleting.
THEOREM ReadyServesLiveEngine == FleetSpec => []ReadyIsLive
<1>1. FleetInv => ReadyIsLive
  BY DEF FleetInv
<1> QED
  BY <1>1, FleetInvariant, PTL

-----------------------------------------------------------------------------
(* The download gate.                                                      *)

Downloading == {l \in Loads : loads[l].pc = "download"}

GateInv == IsFiniteSet(Downloading) /\ gate = Cardinality(Downloading)

LEMMA GateInsert ==
    ASSUME TypeOK, GateInv, NEW t \in Tags, NEW l \in Loads, InsertLoading(t, l)
    PROVE  GateInv'
<1>1. Downloading' = Downloading \cup {l} /\ l \notin Downloading
  BY DEF Downloading, InsertLoading, Fresh, TypeOK
<1>2. /\ IsFiniteSet(Downloading \cup {l})
      /\ Cardinality(Downloading \cup {l}) = Cardinality(Downloading) + 1
  BY <1>1, FS_AddElement DEF GateInv
<1>3. gate' = gate + 1
  BY DEF InsertLoading, enter_priority
<1> QED
  BY <1>1, <1>2, <1>3 DEF GateInv

LEMMA GateStep == TypeOK /\ GateInv /\ [FleetNext]_vars => GateInv'
<1> SUFFICES ASSUME TypeOK, GateInv, [FleetNext]_vars PROVE GateInv'
  OBVIOUS
<1>1. ASSUME NEW t \in Tags, NEW l \in Loads, InsertLoading(t, l) PROVE GateInv'
  BY <1>1, GateInsert
<1>2. ASSUME NEW l \in Loads, Download(l) PROVE GateInv'
  <2>1. Downloading' = Downloading \ {l} /\ l \in Downloading
    BY <1>2 DEF Download, LoadTo, Downloading, TypeOK
  <2>2. /\ IsFiniteSet(Downloading \ {l})
        /\ Cardinality(Downloading \ {l}) = Cardinality(Downloading) - 1
    BY <2>1, FS_RemoveElement DEF GateInv
  <2>3. Cardinality(Downloading) \in Nat /\ Cardinality(Downloading) # 0
    BY <2>1, FS_CardinalityType, FS_EmptySet DEF GateInv
  <2>4. gate' = gate - 1
    BY <1>2, <2>3 DEF Download, DropPriority, GateInv
  <2> QED
    BY <2>1, <2>2, <2>4 DEF GateInv
<1>3. ASSUME gate' = gate, Downloading' = Downloading PROVE GateInv'
  BY <1>3 DEF GateInv
<1>4. ASSUME NEW l \in Loads,
             \/ LoadEngine(l) \/ RetrieveSignature(l) \/ Publish(l)
             \/ RemoveAfterLoad(l) \/ DeleteAfterLoad(l) \/ NotifyLoaded(l)
      PROVE  gate' = gate /\ Downloading' = Downloading
  BY <1>4 DEF LoadEngine, RetrieveSignature, Publish, PublishSlot, PublishDiscard,
              PublishNowhere, RemoveAfterLoad, DeleteAfterLoad, NotifyLoaded, LoadTo, NoTask,
              Downloading, TypeOK
<1>5. ASSUME NEW r \in Requests, RequestStep(r) PROVE GateInv'
  <2>1. CASE EntryVacant(r)
    BY <2>1, <1>1 DEF EntryVacant, TypeOK, Req
  <2>2. CASE UNCHANGED <<gate, loads>>
    BY <2>2, <1>3 DEF Downloading
  <2> QED
    BY <1>5, <2>1, <2>2
       DEF RequestStep, EntryReady, EntryFailed, EntryLoading, Woken, Timeout, Recheck
<1>6. CASE \E l \in Loads : LoadStep(l)
  BY <1>6, <1>2, <1>3, <1>4 DEF LoadStep
<1>7. CASE \E t \in Tags : BootWarm(t)
  BY <1>7, <1>1 DEF BootWarm
<1>8. CASE WarmVacant
  BY <1>8, <1>1 DEF WarmVacant, TypeOK, Ctl
<1>9. CASE UNCHANGED <<gate, loads>>
  BY <1>9, <1>3 DEF Downloading
<1>10. CASE Environment
  BY <1>10, <1>9 DEF Environment, Call, Expire, Disconnect, CoolDown
<1>11. CASE ControlStep
  BY <1>11, <1>8, <1>9
     DEF ControlStep, TakePermit, StatusSignal, Assign, WarmReconcile, UnloadCheck, WarmStep, WarmOccupied,
         WarmFailed, UnloadRemove, UnloadDelete
<1> QED
  BY <1>5, <1>6, <1>7, <1>9, <1>10, <1>11 DEF FleetNext, StandaloneNext, vars

\* The gate counts exactly the finite set of loads that are downloading.
LEMMA GateInvariant == FleetSpec => []GateInv
<1>1. Init => GateInv
  <2> SUFFICES ASSUME Init PROVE GateInv
    OBVIOUS
  <2>1. Downloading = {}
    BY DEF Init, Downloading, NoTask
  <2> QED
    BY <2>1, FS_EmptySet DEF Init, GateInv
<1>2. TypeOK /\ GateInv /\ [FleetNext]_vars => GateInv'
  BY GateStep
<1> QED
  BY <1>1, <1>2, TypeCorrect, PTL DEF FleetSpec

\* DownloadGate::inflight is the number of loads still downloading, so a
\* prefetch waits for all of them and for nothing else.
THEOREM GateIsExact == FleetSpec => []GateExact
<1>1. GateInv => GateExact
  BY DEF GateInv, GateExact, Downloading
<1> QED
  BY <1>1, GateInvariant, PTL

-----------------------------------------------------------------------------
(* A standalone server: no step of the control task.                       *)

LEMMA StandaloneInvInit == Init => StandaloneInv
<1> SUFFICES ASSUME Init PROVE StandaloneInv
  OBVIOUS
<1>1. FleetInv
  BY FleetInvInit
<1>2. /\ LoadTracked /\ EngineTracked /\ ctl.pc = "idle"
      /\ \A t \in Tags : ~slots[t].unload
      /\ \A l \in Loads : loads[l].pc \notin {"remove", "delete"}
  BY DEF Init, LoadTracked, EngineTracked, InFlight, NoTask, Vacant, CtlIdle
<1> QED
  BY <1>1, <1>2 DEF StandaloneInv

LEMMA StandaloneIsFleet == [StandaloneNext]_vars => [FleetNext]_vars
  BY DEF FleetNext

\* What each step does to the slots and loads, given the invariant.
LEMMA StandaloneInvStep == StandaloneInv /\ [StandaloneNext]_vars => StandaloneInv'
<1> SUFFICES ASSUME StandaloneInv, [StandaloneNext]_vars PROVE StandaloneInv'
  OBVIOUS
<1>0. FleetInv /\ FleetInv' /\ TypeOK /\ TypeOK'
  BY FleetInvStep, StandaloneIsFleet DEF StandaloneInv, FleetInv
<1> DEFINE Rest == /\ LoadTracked /\ EngineTracked /\ ctl.pc = "idle"
                   /\ \A t \in Tags : ~slots[t].unload
                   /\ \A l \in Loads : loads[l].pc \notin {"remove", "delete"}
<1> SUFFICES Rest'
  BY <1>0 DEF StandaloneInv
<1>1. ASSUME NEW t \in Tags, NEW l \in Loads, InsertLoading(t, l), slots[t].st = "Vacant",
             UNCHANGED <<engines, ctl>>
      PROVE  Rest'
  <2>1. LoadTracked'
    BY <1>0, <1>1 DEF StandaloneInv, LoadTracked, InFlight, InsertLoading, TypeOK, Load
  <2>2. EngineTracked'
    BY <1>0, <1>1, NoLoadAssumption DEF StandaloneInv, FleetInv, SlotShape, EngineTracked, InFlight,
                      InsertLoading, Fresh, TypeOK, Load
  <2> QED
    BY <1>0, <1>1, <2>1, <2>2 DEF StandaloneInv, InsertLoading, TypeOK
<1>2. ASSUME NEW t \in Tags, RemoveSlot(t), slots[t].st = "Failed",
             UNCHANGED <<engines, ctl, loads>>
      PROVE  Rest'
  BY <1>0, <1>2, NoLoadAssumption DEF StandaloneInv, FleetInv, SlotShape, LoadTracked, EngineTracked, InFlight,
                    RemoveSlot, Vacant, TypeOK, Load
<1>3. ASSUME UNCHANGED <<slots, loads, engines, ctl>> PROVE Rest'
  BY <1>3 DEF StandaloneInv, LoadTracked, EngineTracked, InFlight
<1>4. ASSUME NEW r \in Requests, RequestStep(r) PROVE Rest'
  <2>1. CASE EntryFailed(r)
    BY <2>1, <1>0, <1>2 DEF EntryFailed, TypeOK, Req
  <2>2. CASE EntryVacant(r)
    BY <2>2, <1>0, <1>1 DEF EntryVacant, TypeOK, Req
  <2> QED
    BY <1>3, <1>4, <2>1, <2>2
       DEF RequestStep, EntryReady, EntryLoading, Woken, Timeout, Recheck
<1>5. ASSUME NEW l \in Loads, Download(l) \/ LoadEngine(l) \/ RetrieveSignature(l)
      PROVE  Rest'
  <2>1. /\ InFlight(l) /\ InFlight(l)'
        /\ loads'[l].tag = loads[l].tag
        /\ \A k \in Loads \ {l} : loads'[k] = loads[k]
        /\ engines' \subseteq engines \cup {l}
        /\ UNCHANGED <<slots, ctl>>
    BY <1>0, <1>5 DEF Download, LoadEngine, RetrieveSignature, LoadTo, InFlight, TypeOK, Load
  <2>2. l \in engines' => /\ loads'[l].pc \notin {"download", "engine"}
                          /\ loads'[l].pc = "publish" => loads'[l].ok
    BY <1>0, <1>5 DEF Download, LoadEngine, RetrieveSignature, LoadTo, TypeOK, StandaloneInv,
                      EngineTracked
  <2>3. LoadTracked'
    BY <1>0, <2>1 DEF StandaloneInv, LoadTracked, InFlight, TypeOK
  <2>4. EngineTracked'
    BY <1>0, <2>1, <2>2 DEF StandaloneInv, EngineTracked, InFlight, TypeOK
  <2> QED
    BY <2>1, <2>3, <2>4 DEF StandaloneInv, InFlight
<1>6. ASSUME NEW l \in Loads, Publish(l) PROVE Rest'
  <2> DEFINE t == loads[l].tag
  <2>1. /\ t \in Tags /\ slots[t].st = "Loading" /\ slots[t].chan = l /\ ~slots[t].unload
        /\ slots[t].engine = NoLoad
        /\ loads[l].pc = "publish" /\ loads[l].ok \in BOOLEAN /\ ctl' = ctl
    BY <1>0, <1>6 DEF Publish, StandaloneInv, LoadTracked, InFlight, TypeOK, Load, FleetInv,
                      SlotShape
  <2>2. PublishSlot(l, t)
    BY <1>6, <2>1 DEF Publish, PublishDiscard, PublishNowhere
  <2>3. /\ slots'[t] = Outcome(l, slots[t]) /\ \A u \in Tags \ {t} : slots'[u] = slots[u]
        /\ engines' = engines
        /\ loads'[l].pc = "notify" /\ loads'[l].tag = t
        /\ \A k \in Loads \ {l} : loads'[k] = loads[k]
    BY <1>0, <2>1, <2>2, NoLoadAssumption DEF PublishSlot, LoadTo, TypeOK
  <2>4. \A k \in Loads \ {l} : InFlight(k) => loads[k].tag # t
    BY <2>1 DEF StandaloneInv, LoadTracked
  <2>5. /\ ~slots'[t].unload
        /\ slots'[t].engine = IF loads[l].ok THEN l ELSE NoLoad
    BY <2>3 DEF Outcome
  <2>6. l \in engines' => loads[l].ok
    BY <2>1, <2>3 DEF StandaloneInv, EngineTracked
  <2>7. LoadTracked'
    <3>1. ASSUME NEW k \in Loads, InFlight(k)'
          PROVE  k # l /\ loads'[k] = loads[k] /\ loads[k].tag # t /\ InFlight(k)
      BY <2>3, <2>4, <3>1 DEF InFlight
    <3>2. \A k \in Loads : loads[k].tag \in Tags
      BY <1>0 DEF TypeOK, Load
    <3> QED
      BY <2>3, <3>1, <3>2 DEF StandaloneInv, LoadTracked
  <2>8. EngineTracked'
    <3>1. ASSUME NEW k \in engines', k # l
          PROVE  /\ loads'[k].pc \notin {"download", "engine"}
                 /\ loads'[k].pc = "publish" => loads'[k].ok
                 /\ InFlight(k)' \/ slots'[loads'[k].tag].engine = k \/ loads'[k].pc = "none"
      <4>1. k \in Loads /\ k # NoLoad /\ loads'[k] = loads[k] /\ loads[k].tag \in Tags
        BY <1>0, <2>3, <3>1, NoLoadAssumption DEF TypeOK, Load
      <4>2. slots[loads[k].tag].engine = k => loads[k].tag # t
        BY <2>1, <4>1
      <4> QED
        BY <2>3, <3>1, <4>1, <4>2 DEF StandaloneInv, EngineTracked, InFlight
    <3>2. l \in engines' =>
             /\ loads'[l].pc = "notify"
             /\ slots'[loads'[l].tag].engine = l
      BY <2>3, <2>5, <2>6
    <3> QED
      BY <3>1, <3>2 DEF EngineTracked
  <2> QED
    BY <2>1, <2>3, <2>5, <2>7, <2>8 DEF StandaloneInv
<1>7. ASSUME NEW l \in Loads, NotifyLoaded(l) PROVE Rest'
  BY <1>0, <1>7 DEF NotifyLoaded, NoTask, StandaloneInv, LoadTracked, EngineTracked, InFlight, TypeOK
<1>8. ASSUME NEW l \in Loads, LoadStep(l) PROVE Rest'
  BY <1>5, <1>6, <1>7, <1>8 DEF LoadStep, StandaloneInv, RemoveAfterLoad, DeleteAfterLoad
<1>9. ASSUME NEW t \in Tags, BootWarm(t) PROVE Rest'
  BY <1>0, <1>1, <1>9 DEF BootWarm, FleetInv, SlotShape
<1>10. ASSUME NEW t \in Tags, CoolDown(t) PROVE Rest'
  BY <1>0, <1>10 DEF CoolDown, SlotWith, StandaloneInv, LoadTracked, EngineTracked, InFlight,
                     TypeOK, Load
<1> QED
  BY <1>3, <1>4, <1>8, <1>9, <1>10
     DEF StandaloneNext, Environment, Call, Expire, Disconnect, vars

LEMMA StandaloneInvariant == StandaloneSpec => []StandaloneInv
<1>1. Init => StandaloneInv
  BY StandaloneInvInit
<1>2. StandaloneInv /\ [StandaloneNext]_vars => StandaloneInv'
  BY StandaloneInvStep
<1> QED
  BY <1>1, <1>2, PTL DEF StandaloneSpec

LEMMA OneWarmup == StandaloneInv => SingleFlight
  BY DEF StandaloneInv, LoadTracked, SingleFlight

\* Without a control plane a tag never has two warmups in flight, which is the
\* promise of ensure_ready.
THEOREM StandaloneSingleFlight == StandaloneSpec => []SingleFlight
  BY OneWarmup, StandaloneInvariant, PTL

\* Without a control plane a Ready model is never replaced or removed.
THEOREM StandaloneReadyStable == StandaloneSpec => ReadyStable
<1>1. StandaloneInv /\ StandaloneInv' /\ [StandaloneNext]_vars
        => [\A t \in Tags : slots[t].st = "Ready" => slots'[t] = slots[t]]_vars
  <2> SUFFICES ASSUME StandaloneInv, StandaloneNext, NEW t \in Tags, slots[t].st = "Ready"
               PROVE  slots'[t] = slots[t]
    BY DEF vars
  <2>0. TypeOK /\ FleetInv
    BY DEF StandaloneInv, FleetInv
  <2>1. ASSUME NEW u \in Tags, NEW l \in Loads, InsertLoading(u, l), slots[u].st = "Vacant"
        PROVE  slots'[t] = slots[t]
    BY <2>0, <2>1 DEF InsertLoading, TypeOK
  <2>2. ASSUME NEW r \in Requests, RequestStep(r) PROVE slots'[t] = slots[t]
    BY <2>0, <2>1, <2>2
       DEF RequestStep, EntryReady, EntryLoading, EntryFailed, EntryVacant, RemoveSlot, Woken,
           Timeout, Recheck, TypeOK, Req
  <2>3. ASSUME NEW l \in Loads, LoadStep(l) PROVE slots'[t] = slots[t]
    <3>1. loads[l].pc = "publish" => slots[loads[l].tag].st = "Loading"
      BY DEF StandaloneInv, LoadTracked, InFlight
    <3>2. loads[l].pc # "remove"
      BY DEF StandaloneInv
    <3> QED
      BY <2>0, <2>3, <3>1, <3>2
         DEF LoadStep, Download, LoadEngine, RetrieveSignature, Publish, PublishSlot,
             PublishDiscard, PublishNowhere, RemoveAfterLoad, DeleteAfterLoad, NotifyLoaded, TypeOK
  <2>4. ASSUME NEW u \in Tags, BootWarm(u) PROVE slots'[t] = slots[t]
    BY <2>0, <2>1, <2>4 DEF BootWarm, FleetInv, SlotShape
  <2>5. ASSUME NEW u \in Tags, CoolDown(u) PROVE slots'[t] = slots[t]
    BY <2>0, <2>5 DEF CoolDown, FleetInv, SlotShape, TypeOK
  <2> QED
    BY <2>2, <2>3, <2>4, <2>5 DEF StandaloneNext, Environment, Call, Expire, Disconnect
<1> QED
  BY <1>1, StandaloneInvariant, PTL DEF StandaloneSpec, ReadyStable, ReadyKept

LEMMA OneEngine == StandaloneInv => OneEnginePerTag
<1> SUFFICES ASSUME StandaloneInv, NEW t \in Tags, NEW k \in EngineOf(t), NEW l \in EngineOf(t)
             PROVE  k = l
  BY DEF OneEnginePerTag
<1>1. k \in Loads /\ l \in Loads
  BY DEF StandaloneInv, FleetInv, TypeOK, EngineOf
<1>2. ASSUME NEW m \in EngineOf(t)
      PROVE  \/ slots[t].st = "Loading" /\ slots[t].chan = m
             \/ slots[t].st = "Ready" /\ slots[t].engine = m
  BY <1>2, NoLoadAssumption
     DEF EngineOf, StandaloneInv, FleetInv, TypeOK, SlotShape, LoadTracked, EngineTracked
<1> QED
  BY <1>1, <1>2

\* Without a control plane a tag never holds two engines at once.
THEOREM StandaloneOneEngine == StandaloneSpec => []OneEnginePerTag
  BY OneEngine, StandaloneInvariant, PTL

\* The same of a server that may have been started either way: as long as it
\* is not a fleet node, a tag has one warmup and one engine at most.
THEOREM AloneSingleFlight == SafetySpec => []SingleFlightAlone
<1> DEFINE AloneInv == ~launch.fleet => StandaloneInv
<1>1. SafetyInit => AloneInv
  BY StandaloneInvInit DEF SafetyInit
<1>2. AloneInv /\ [MCNext]_mcvars => AloneInv'
  <2> SUFFICES ASSUME AloneInv, [MCNext]_mcvars, ~launch'.fleet PROVE StandaloneInv'
    OBVIOUS
  <2>1. launch' = launch /\ [StandaloneNext]_vars
    BY DEF MCNext, mcvars
  <2> QED
    BY <2>1, StandaloneInvStep
<1>3. AloneInv => SingleFlightAlone
  BY OneWarmup, OneEngine DEF SingleFlightAlone
<1> QED
  BY <1>1, <1>2, <1>3, PTL DEF SafetySpec
=============================================================================
