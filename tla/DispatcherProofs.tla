-------------------------- MODULE DispatcherProofs --------------------------
(***************************************************************************)
(* Mutual exclusion of the dispatcher for any number of requests, models   *)
(* and entries.                                                            *)
(***************************************************************************)
EXTENDS MCDispatcher, TLAPS

\* Every step of a fleet node keeps the types.
LEMMA TypeStep == TypeOK /\ [FleetNext]_vars => TypeOK'
<1> SUFFICES ASSUME TypeOK, [FleetNext]_vars PROVE TypeOK'
  OBVIOUS
<1> USE DEF TypeOK, Agents
<1>r. ASSUME NEW r \in Requests, NEW pc \in ReqPC, NEW l \in Locks \cup {NoLock}, ReqTo(r, pc, l)
      PROVE  reqs' \in [Requests -> Req]
  BY <1>r DEF ReqTo, Req
<1>1. ASSUME NEW m \in Models, ModelReady(m) PROVE TypeOK'
  BY <1>1 DEF ModelReady
<1>2. ASSUME NEW r \in Requests, NEW s \in {"create", "acquire"}, Resolve(r, s) PROVE TypeOK'
  BY <1>2 DEF Resolve, Req, ReqPC
<1>3. ASSUME NEW r \in Requests, EnsureEntry(r) PROVE TypeOK'
  BY <1>3, <1>r DEF EnsureEntry, ReqPC
<1>4. ASSUME NEW r \in Requests, InsertEntry(r) PROVE TypeOK'
  <2>1. reqs' \in [Requests -> Req]
    BY <1>4, <1>r DEF InsertEntry, ReqPC
  <2>2. reqs[r].model \in Models \cup {NoModel}
    BY DEF Req
  <2> QED
    BY <1>4, <2>1, <2>2 DEF InsertEntry
<1>5. ASSUME NEW r \in Requests, GetPanics(r) PROVE TypeOK'
  BY <1>5, <1>r DEF GetPanics, ReqPC
<1>6. ASSUME NEW r \in Requests, GetDirect(r) PROVE TypeOK'
  <2>1. reqs' \in [Requests -> Req]
    BY <1>6, <1>r DEF GetDirect, Invoke, ReqPC
  <2> QED
    BY <1>6, <2>1 DEF GetDirect, Invoke, Req
<1>7. ASSUME NEW r \in Requests, GetLocked(r) PROVE TypeOK'
  BY <1>7, <1>r DEF GetLocked, ReqPC
<1>8. ASSUME NEW r \in Requests, GetQueued(r) PROVE TypeOK'
  <2>1. reqs' \in [Requests -> Req]
    BY <1>8, <1>r DEF GetQueued, ReqPC
  <2> QED
    BY <1>8, <2>1 DEF GetQueued
<1>9. ASSUME NEW r \in Requests, AcquireLock(r) PROVE TypeOK'
  <2>1. reqs[r].lock \in Locks \cup {NoLock} /\ reqs[r].model \in Models \cup {NoModel}
    BY DEF Req
  <2>2. reqs' \in [Requests -> Req]
    BY <1>9, <1>r, <2>1 DEF AcquireLock, Invoke, ReqPC
  <2> QED
    BY <1>9, <2>1, <2>2 DEF AcquireLock, Invoke
<1>10. ASSUME NEW r \in Requests, CallReturns(r) PROVE TypeOK'
  <2>1. (IF reqs[r].pc = "running" THEN "done" ELSE reqs[r].pc) \in ReqPC
    BY DEF Req, ReqPC
  <2>2. reqs' \in [Requests -> Req]
    BY <1>10, <1>r, <2>1 DEF CallReturns
  <2> QED
    BY <1>10, <2>2 DEF CallReturns
<1>11. ASSUME NEW r \in Requests, Disconnect(r) PROVE TypeOK'
  <2>1. (IF reqs[r].pc = "running" THEN reqs[r].lock ELSE NoLock) \in Locks \cup {NoLock}
    BY DEF Req
  <2>2. reqs' \in [Requests -> Req]
    BY <1>11, <1>r, <2>1 DEF Disconnect, ReqPC
  <2> QED
    BY <1>11, <2>2 DEF Disconnect
<1>12. ASSUME NEW l \in Locks, WorkerTake(l) PROVE TypeOK'
  BY <1>12 DEF WorkerTake
<1>13. ASSUME NEW l \in Locks, WorkerInvoke(l) PROVE TypeOK'
  BY <1>13 DEF WorkerInvoke
<1>14. ASSUME NEW l \in Locks, WorkerAnswer(l) PROVE TypeOK'
  <2>1. reqs' \in [Requests -> Req]
    BY <1>14 DEF WorkerAnswer, Req, ReqPC
  <2> QED
    BY <1>14, <2>1 DEF WorkerAnswer
<1>15. CASE RemoveEntry \/ UnloadModel
  BY <1>15 DEF RemoveEntry, UnloadModel
<1>16. CASE UNCHANGED vars
  BY <1>16 DEF vars
<1> QED
  BY <1>1, <1>2, <1>3, <1>4, <1>5, <1>6, <1>7, <1>8, <1>9, <1>10, <1>11, <1>12, <1>13,
     <1>14, <1>15, <1>16
     DEF FleetNext, StandaloneNext, Dispatch, WorkerStep

LEMMA TypeInit == Init => TypeOK
  BY DEF Init, TypeOK, Agents, Req, ReqPC

\* Fleet nodes, and so standalone servers, keep every variable in its type.
THEOREM TypeCorrect == FleetSpec => []TypeOK
  BY TypeInit, TypeStep, PTL DEF FleetSpec

-----------------------------------------------------------------------------
(* The guard travels with the invocation.                                  *)

\* A request is invoking only while it runs or after its client left, and an
\* accumulator holds its mutex while it runs.
GuardInv ==
    /\ TypeOK
    /\ GuardTravels
    /\ \A r \in Requests : call[r] # NoModel => reqs[r].pc \in {"running", "gone"}
    /\ \A l \in Locks : worker[l] = "running" => holder[l] = l

LEMMA GuardStep == GuardInv /\ [FleetNext]_vars => GuardInv'
<1> SUFFICES ASSUME GuardInv, [FleetNext]_vars PROVE GuardInv'
  OBVIOUS
<1>0. TypeOK /\ TypeOK'
  BY TypeStep DEF GuardInv
<1> USE <1>0, AgentsAssumption, NoneAssumption DEF TypeOK, Agents, GuardInv, GuardTravels
<1>1. ASSUME NEW r \in Requests,
             \/ \E s \in {"create", "acquire"} : Resolve(r, s)
             \/ EnsureEntry(r) \/ InsertEntry(r) \/ GetPanics(r) \/ GetLocked(r) \/ GetQueued(r)
      PROVE  GuardInv'
  <2>1. /\ UNCHANGED <<holder, call, worker>>
        /\ call[r] = NoModel
        /\ \A q \in Requests \ {r} : reqs'[q] = reqs[q]
    BY <1>1 DEF Resolve, EnsureEntry, InsertEntry, GetPanics, GetLocked, GetQueued, ReqTo
  <2> QED
    BY <2>1
<1>2. ASSUME NEW r \in Requests, GetDirect(r) PROVE GuardInv'
  BY <1>2 DEF GetDirect, Invoke, ReqTo
<1>3. ASSUME NEW r \in Requests, AcquireLock(r) PROVE GuardInv'
  <2>1. /\ holder[reqs[r].lock] = Nobody
        /\ holder' = [holder EXCEPT ![reqs[r].lock] = r]
        /\ call' = [call EXCEPT ![r] = reqs[r].model]
        /\ reqs'[r].lock = reqs[r].lock /\ reqs'[r].pc = "running"
        /\ \A q \in Requests \ {r} : reqs'[q] = reqs[q]
        /\ worker' = worker
    BY <1>3 DEF AcquireLock, Invoke, ReqTo
  <2> QED
    BY <2>1 DEF Req
<1>4. ASSUME NEW r \in Requests, CallReturns(r) PROVE GuardInv'
  <2>1. /\ call' = [call EXCEPT ![r] = NoModel] /\ call[r] # NoModel
        /\ holder' = [l \in Locks |-> IF l = reqs[r].lock THEN Nobody ELSE holder[l]]
        /\ \A q \in Requests \ {r} : reqs'[q] = reqs[q]
        /\ worker' = worker
    BY <1>4 DEF CallReturns, ReqTo
  <2>2. \A q \in Requests \ {r} :
           (call[q] # NoModel /\ reqs[q].lock # NoLock) => reqs[q].lock # reqs[r].lock
    BY <2>1 DEF Req
  <2>3. \A l \in Locks : holder[l] = l => l # reqs[r].lock
    BY <2>1
  <2> QED
    BY <2>1, <2>2, <2>3 DEF Req
<1>5. ASSUME NEW r \in Requests, Disconnect(r) PROVE GuardInv'
  <2>1. /\ UNCHANGED <<call, holder, worker>>
        /\ reqs'[r].pc = "gone"
        /\ call[r] # NoModel => reqs'[r].lock = reqs[r].lock \/ reqs[r].pc = "gone"
        /\ reqs[r].pc # "gone"
        /\ \A q \in Requests \ {r} : reqs'[q] = reqs[q]
    BY <1>5 DEF Disconnect, ReqTo
  <2> QED
    BY <2>1
<1>6. ASSUME NEW l \in Locks, WorkerTake(l) PROVE GuardInv'
  BY <1>6 DEF WorkerTake
<1>7. ASSUME NEW l \in Locks, WorkerInvoke(l) PROVE GuardInv'
  BY <1>7 DEF WorkerInvoke, Req
<1>8. ASSUME NEW l \in Locks, WorkerAnswer(l) PROVE GuardInv'
  <2>1. /\ holder[l] = l
        /\ holder' = [holder EXCEPT ![l] = Nobody]
        /\ call' = [call EXCEPT ![l] = NoModel]
        /\ worker' = [worker EXCEPT ![l] = "idle"]
    BY <1>8 DEF WorkerAnswer
  <2>2. \A q \in Requests : reqs'[q] = reqs[q] \/ reqs[q].pc = "queued"
    BY <1>8 DEF WorkerAnswer
  <2>3. \A q \in Requests : call'[q] = call[q] /\ (call[q] # NoModel => reqs'[q] = reqs[q])
    BY <2>1, <2>2
  <2>4. \A q \in Requests :
           (call[q] # NoModel /\ reqs[q].lock # NoLock)
               => reqs[q].lock \in Locks /\ reqs[q].lock # l
    BY <2>1 DEF Req
  <2>5. \A q \in Requests :
           (call'[q] # NoModel /\ reqs'[q].lock # NoLock) => holder'[reqs'[q].lock] = q
    BY <2>1, <2>3, <2>4
  <2>6. \A q \in Requests : call'[q] # NoModel => reqs'[q].pc \in {"running", "gone"}
    BY <2>3
  <2>7. \A k \in Locks : /\ call'[k] # NoModel => holder'[k] = k
                         /\ worker'[k] = "running" => holder'[k] = k
    BY <2>1
  <2> QED
    BY <2>5, <2>6, <2>7
<1>9. CASE UNCHANGED <<holder, call, worker, reqs>>
  BY <1>9
<1> QED
  BY <1>1, <1>2, <1>3, <1>4, <1>5, <1>6, <1>7, <1>8, <1>9
     DEF FleetNext, StandaloneNext, Dispatch, WorkerStep, ModelReady, RemoveEntry,
         UnloadModel, vars

LEMMA GuardInvInit == Init => GuardInv
  BY TypeInit DEF Init, GuardInv, GuardTravels, Agents

LEMMA GuardInvariant == FleetSpec => []GuardInv
<1>1. Init => GuardInv
  BY GuardInvInit
<1> QED
  BY <1>1, GuardStep, PTL DEF FleetSpec

\* A client that disconnects never frees the mutex of a predictor that is
\* still running, on any surface and across removals of the entry.
THEOREM GuardOutlivesClient == FleetSpec => []GuardTravels
<1>1. GuardInv => GuardTravels
  BY DEF GuardInv
<1> QED
  BY <1>1, GuardInvariant, PTL

-----------------------------------------------------------------------------
(* A standalone server: one model for good, hence one entry and one mutex.  *)

StandaloneInv ==
    /\ GuardInv
    /\ loaded \subseteq {ready}
    /\ entry # NoLock => ready # NoModel /\ emodel[entry] = ready
    /\ \A l \in Locks : l # entry => emodel[l] = NoModel
    /\ \A r \in Requests :
          /\ reqs[r].pc # "idle" => reqs[r].model = ready /\ ready # NoModel
          /\ reqs[r].pc \in {"get", "lock", "queued", "running"} => entry # NoLock
          /\ reqs[r].pc = "lock" => reqs[r].lock = entry
          /\ reqs[r].pc # "panicked"
          /\ call[r] # NoModel =>
                /\ call[r] = ready
                /\ entry # NoLock
                /\ plan[ready] # "Continuous" => reqs[r].lock = entry
    /\ \A l \in Locks :
          /\ items[l] # {} \/ batch[l] # {} \/ worker[l] # "idle" => l = entry
          /\ call[l] # NoModel => l = entry
          /\ \A r \in items[l] \cup batch[l] : reqs[r].pc # "idle"

LEMMA StandaloneInvInit == Init => StandaloneInv
  BY GuardInvInit DEF Init, StandaloneInv, Agents

LEMMA StandaloneStep == StandaloneInv /\ [StandaloneNext]_vars => StandaloneInv'
<1> SUFFICES ASSUME StandaloneInv, [StandaloneNext]_vars PROVE StandaloneInv'
  OBVIOUS
<1>0. GuardInv' /\ TypeOK /\ TypeOK' /\ GuardInv
  BY GuardStep DEF StandaloneInv, GuardInv, FleetNext
<1> USE <1>0, AgentsAssumption, NoneAssumption DEF TypeOK, Agents, StandaloneInv
<1>1. ASSUME NEW m \in Models, ModelReady(m) PROVE StandaloneInv'
  BY <1>1 DEF ModelReady
<1>2. ASSUME NEW r \in Requests, NEW s \in {"create", "acquire"}, Resolve(r, s)
      PROVE  StandaloneInv'
  BY <1>2 DEF Resolve, GuardInv
<1>3. ASSUME NEW r \in Requests, EnsureEntry(r) PROVE StandaloneInv'
  BY <1>3 DEF EnsureEntry, ReqTo, GuardInv
<1>4. ASSUME NEW r \in Requests, InsertEntry(r) PROVE StandaloneInv'
  BY <1>4 DEF InsertEntry, ReqTo, GuardInv
<1>5. ASSUME NEW r \in Requests, GetPanics(r) PROVE StandaloneInv'
  BY <1>5 DEF GetPanics
<1>6. ASSUME NEW r \in Requests, GetDirect(r) PROVE StandaloneInv'
  BY <1>6 DEF GetDirect, Invoke, ReqTo
<1>7. ASSUME NEW r \in Requests, GetLocked(r) PROVE StandaloneInv'
  BY <1>7 DEF GetLocked, ReqTo, GuardInv
<1>8. ASSUME NEW r \in Requests, GetQueued(r) PROVE StandaloneInv'
  BY <1>8 DEF GetQueued, ReqTo, GuardInv
<1>9. ASSUME NEW r \in Requests, AcquireLock(r) PROVE StandaloneInv'
  BY <1>9 DEF AcquireLock, Invoke, ReqTo
<1>10. ASSUME NEW r \in Requests, CallReturns(r) PROVE StandaloneInv'
  BY <1>10 DEF CallReturns, ReqTo, GuardInv
<1>11. ASSUME NEW r \in Requests, Disconnect(r) PROVE StandaloneInv'
  BY <1>11 DEF Disconnect, ReqTo, GuardInv
<1>12. ASSUME NEW l \in Locks, WorkerTake(l) PROVE StandaloneInv'
  <2>1. PICK b \in SUBSET items[l] : /\ b # {}
                                     /\ batch' = [batch EXCEPT ![l] = b]
                                     /\ items' = [items EXCEPT ![l] = items[l] \ b]
    BY <1>12 DEF WorkerTake
  <2>2. /\ worker' = [worker EXCEPT ![l] = "lock"]
        /\ UNCHANGED <<plan, ready, loaded, entry, emodel, call, reqs>>
        /\ l = entry
    BY <1>12, <2>1 DEF WorkerTake
  <2>3. \A k \in Locks : items'[k] \cup batch'[k] \subseteq items[k] \cup batch[k]
    BY <2>1
  <2>4. \A k \in Locks : k # l => items'[k] = items[k] /\ batch'[k] = batch[k] /\ worker'[k] = worker[k]
    BY <2>1, <2>2
  <2> QED
    BY <2>2, <2>3, <2>4
<1>13. ASSUME NEW l \in Locks, WorkerInvoke(l) PROVE StandaloneInv'
  BY <1>13 DEF WorkerInvoke
<1>14. ASSUME NEW l \in Locks, WorkerAnswer(l) PROVE StandaloneInv'
  BY <1>14 DEF WorkerAnswer, GuardInv
<1>15. CASE UNCHANGED vars
  BY <1>15 DEF vars
<1> QED
  BY <1>1, <1>2, <1>3, <1>4, <1>5, <1>6, <1>7, <1>8, <1>9, <1>10, <1>11, <1>12, <1>13,
     <1>14, <1>15
     DEF StandaloneNext, Dispatch, WorkerStep

LEMMA StandaloneInvariant == StandaloneSpec => []StandaloneInv
<1>1. Init => StandaloneInv
  BY StandaloneInvInit
<1> QED
  BY <1>1, StandaloneStep, PTL DEF StandaloneSpec

LEMMA OneHolder == StandaloneInv => Exclusive
<1> SUFFICES ASSUME StandaloneInv, NEW a \in Agents, NEW b \in Agents,
                    call[a] # NoModel, call[a] = call[b], plan[call[a]] # "Continuous"
             PROVE  a = b
  BY DEF Exclusive
<1>1. ASSUME NEW c \in Agents, call[c] # NoModel, plan[call[c]] # "Continuous"
      PROVE  holder[entry] = c
  <2>1. CASE c \in Requests
    BY <1>1, <2>1 DEF StandaloneInv, GuardInv, GuardTravels
  <2>2. CASE c \in Locks
    BY <1>1, <2>2 DEF StandaloneInv, GuardInv, GuardTravels
  <2> QED
    BY <2>1, <2>2 DEF Agents
<1> QED
  BY <1>1

LEMMA NobodyPanics == StandaloneInv => NeverPanics
  BY DEF StandaloneInv, NeverPanics

\* Without a control plane, a predictor that is not continuous is never
\* invoked concurrently: raw, OpenAI and streaming surfaces included.
THEOREM StandaloneExclusive == StandaloneSpec => []Exclusive
  BY OneHolder, StandaloneInvariant, PTL

\* Without a control plane, neither the expect nor the unreachable! of
\* Dispatcher::create and acquire is ever reached.
THEOREM StandaloneNeverPanics == StandaloneSpec => []NeverPanics
  BY NobodyPanics, StandaloneInvariant, PTL

\* The same of a server that may have been started either way: as long as it
\* is not a fleet node, no invocation overlaps another of its predictor and
\* dispatch never panics.
THEOREM AloneSound == MCInit /\ [][MCNext]_mcvars => []SoundAlone
<1> DEFINE AloneInv == ~fleet => StandaloneInv
<1>1. MCInit => AloneInv
  BY StandaloneInvInit DEF MCInit
<1>2. AloneInv /\ [MCNext]_mcvars => AloneInv'
  <2> SUFFICES ASSUME AloneInv, [MCNext]_mcvars, ~fleet' PROVE StandaloneInv'
    OBVIOUS
  <2>1. fleet' = fleet /\ [StandaloneNext]_vars
    BY DEF MCNext, mcvars
  <2> QED
    BY <2>1, StandaloneStep
<1>3. AloneInv => SoundAlone
  BY OneHolder, NobodyPanics DEF SoundAlone
<1> QED
  BY <1>1, <1>2, <1>3, PTL
=============================================================================
