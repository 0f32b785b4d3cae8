----------------------------- MODULE Dispatcher -----------------------------
(***************************************************************************)
(* The dispatch state of one model tag (src/serving/dispatch/mod.rs) and   *)
(* the blocking-thread executor (src/serving/predict.rs): how requests     *)
(* that already resolved their ReadyModel reach the compiled predictor,    *)
(* and the per-model mutex that keeps a non-continuous predictor from      *)
(* being invoked concurrently.                                             *)
(*                                                                         *)
(* Entries of different tags share nothing, so one tag is enough.  An      *)
(* entry is named by the identity of its mutex, and so is the accumulator  *)
(* task a Buffered entry owns; the accumulator's own batching is module    *)
(* BufferedWorker, here it takes any batch of what it was sent.            *)
(***************************************************************************)
EXTENDS FiniteSets

CONSTANTS
    Requests,   \* predictions, on any surface
    Models,     \* the ReadyModels the tag has over time
    Locks,      \* identities of dispatch entries
    NoModel, NoLock, Nobody

ASSUME AgentsAssumption == Requests \cap Locks = {}
ASSUME NoneAssumption ==
    /\ NoModel \notin Models
    /\ NoLock \notin Locks
    /\ Nobody \notin Requests \cup Locks

VARIABLES
    plan,       \* ReadyModel::plan
    ready,      \* the tag's Ready model in the registry
    loaded,     \* models that were ready at some time
    entry,      \* Dispatcher::entries at the tag
    emodel,     \* the ReadyModel each entry was built from
    holder,     \* who holds each entry's mutex
    call,       \* the model each agent's blocking thread is invoking
    reqs,
    items,      \* requests sent to each accumulator and not yet in a batch
    batch,      \* the batch each accumulator is flushing
    worker,     \* where each accumulator task is
    ctl         \* the heartbeat's teardown of the tag

vars == <<plan, ready, loaded, entry, emodel, holder, call, reqs, items, batch,
          worker, ctl>>

Agents == Requests \cup Locks

ReqPC == {"idle", "ensure", "insert", "get", "lock", "queued", "running",
          "done", "gone", "panicked"}

\* "create" is the raw surface, "acquire" the OpenAI, Anthropic and streaming
\* ones.  lock is the mutex waited for or, while running, the guard's.
Req == [pc : ReqPC,
        surface : {"create", "acquire"},
        model : Models \cup {NoModel},
        lock : Locks \cup {NoLock}]

TypeOK ==
    /\ plan \in [Models -> {"Sequential", "Buffered", "Continuous"}]
    /\ ready \in Models \cup {NoModel}
    /\ loaded \subseteq Models
    /\ entry \in Locks \cup {NoLock}
    /\ emodel \in [Locks -> Models \cup {NoModel}]
    /\ holder \in [Locks -> Agents \cup {Nobody}]
    /\ call \in [Agents -> Models \cup {NoModel}]
    /\ reqs \in [Requests -> Req]
    /\ items \in [Locks -> SUBSET Requests]
    /\ batch \in [Locks -> SUBSET Requests]
    /\ worker \in [Locks -> {"idle", "lock", "running"}]
    /\ ctl \in {"idle", "unload"}

Init ==
    /\ plan \in [Models -> {"Sequential", "Buffered", "Continuous"}]
    /\ ready = NoModel
    /\ loaded = {}
    /\ entry = NoLock
    /\ emodel = [l \in Locks |-> NoModel]
    /\ holder = [l \in Locks |-> Nobody]
    /\ call = [a \in Agents |-> NoModel]
    /\ reqs = [r \in Requests |-> [pc |-> "idle", surface |-> "create",
                                   model |-> NoModel, lock |-> NoLock]]
    /\ items = [l \in Locks |-> {}]
    /\ batch = [l \in Locks |-> {}]
    /\ worker = [l \in Locks |-> "idle"]
    /\ ctl = "idle"

-----------------------------------------------------------------------------
(* The registry, as far as dispatch depends on it.                         *)

\* A load publishes a new ReadyModel.
ModelReady(m) ==
    /\ ready = NoModel
    /\ m \notin loaded
    /\ ready' = m
    /\ loaded' = loaded \cup {m}
    /\ UNCHANGED <<plan, entry, emodel, holder, call, reqs, items, batch, worker, ctl>>

\* The heartbeat drops the dispatch entry ...
RemoveEntry ==
    /\ ctl = "idle"
    /\ ready # NoModel
    /\ ctl' = "unload"
    /\ entry' = NoLock
    /\ UNCHANGED <<plan, ready, loaded, emodel, holder, call, reqs, items, batch, worker>>

\* ... and then unloads the model.
UnloadModel ==
    /\ ctl = "unload"
    /\ ctl' = "idle"
    /\ ready' = NoModel
    /\ UNCHANGED <<plan, loaded, entry, emodel, holder, call, reqs, items, batch, worker>>

-----------------------------------------------------------------------------
(* A request's way to the predictor.                                       *)

ReqTo(r, pc, l) ==
    reqs' = [reqs EXCEPT ![r] = [pc |-> pc, surface |-> reqs[r].surface,
                                 model |-> reqs[r].model, lock |-> l]]

\* ensure_ready returned; check-in and mark_loaded are awaited before dispatch.
Resolve(r, s) ==
    /\ reqs[r].pc = "idle"
    /\ ready # NoModel
    /\ reqs' = [reqs EXCEPT ![r] = [pc |-> "ensure", surface |-> s,
                                    model |-> ready, lock |-> NoLock]]
    /\ UNCHANGED <<plan, ready, loaded, entry, emodel, holder, call, items, batch, worker,
                   ctl>>

\* Mutant of EnsureEntry: nothing is inserted when the entry is absent.
EnsureNothing(r) ==
    /\ reqs[r].pc = "ensure"
    /\ ReqTo(r, "get", NoLock)
    /\ UNCHANGED <<plan, ready, loaded, entry, emodel, holder, call, items, batch, worker,
                   ctl>>

\* ensure_entry: contains_key.
EnsureEntry(r) ==
    /\ reqs[r].pc = "ensure"
    /\ ReqTo(r, IF entry = NoLock THEN "insert" ELSE "get", NoLock)
    /\ UNCHANGED <<plan, ready, loaded, entry, emodel, holder, call, items, batch, worker,
                   ctl>>

\* ensure_entry: entry().or_insert(entry).  The loser of the race drops its
\* entry, and with it the only sender of the accumulator it spawned.
InsertEntry(r) ==
    /\ reqs[r].pc = "insert"
    /\ IF entry = NoLock
       THEN \E l \in Locks :
               /\ emodel[l] = NoModel
               /\ entry' = l
               /\ emodel' = [emodel EXCEPT ![l] = reqs[r].model]
       ELSE UNCHANGED <<entry, emodel>>
    /\ ReqTo(r, "get", NoLock)
    /\ UNCHANGED <<plan, ready, loaded, holder, call, items, batch, worker, ctl>>

\* predict::run or stream: the guard moves to a blocking thread with the call.
Invoke(r, l) ==
    /\ call' = [call EXCEPT ![r] = reqs[r].model]
    /\ ReqTo(r, "running", l)

\* entries.get(tag).expect("entry just ensured") finds nothing; or a Buffered
\* entry meets a model without a Buffered plan.
GetPanics(r) ==
    /\ reqs[r].pc = "get"
    /\ \/ entry = NoLock
       \/ /\ entry # NoLock
          /\ reqs[r].surface = "create"
          /\ plan[emodel[entry]] = "Buffered"
          /\ plan[reqs[r].model] # "Buffered"
    /\ ReqTo(r, "panicked", NoLock)
    /\ UNCHANGED <<plan, ready, loaded, entry, emodel, holder, call, items, batch, worker,
                   ctl>>

\* Continuous: straight to the executor, no guard.
GetDirect(r) ==
    /\ reqs[r].pc = "get"
    /\ entry # NoLock
    /\ plan[emodel[entry]] = "Continuous"
    /\ Invoke(r, NoLock)
    /\ UNCHANGED <<plan, ready, loaded, entry, emodel, holder, items, batch, worker, ctl>>

\* Sequential, and every surface but "create" on Buffered: wait for the mutex.
GetLocked(r) ==
    /\ reqs[r].pc = "get"
    /\ entry # NoLock
    /\ \/ plan[emodel[entry]] = "Sequential"
       \/ plan[emodel[entry]] = "Buffered" /\ reqs[r].surface = "acquire"
    /\ ReqTo(r, "lock", entry)
    /\ UNCHANGED <<plan, ready, loaded, entry, emodel, holder, call, items, batch, worker,
                   ctl>>

\* Buffered: send the item to the accumulator and await the response.
GetQueued(r) ==
    /\ reqs[r].pc = "get"
    /\ entry # NoLock
    /\ plan[emodel[entry]] = "Buffered"
    /\ reqs[r].surface = "create"
    /\ plan[reqs[r].model] = "Buffered"
    /\ items' = [items EXCEPT ![entry] = items[entry] \cup {r}]
    /\ ReqTo(r, "queued", entry)
    /\ UNCHANGED <<plan, ready, loaded, entry, emodel, holder, call, batch, worker, ctl>>

\* lock_owned resolves; there is no await between it and spawn_blocking.
AcquireLock(r) ==
    /\ reqs[r].pc = "lock"
    /\ holder[reqs[r].lock] = Nobody
    /\ holder' = [holder EXCEPT ![reqs[r].lock] = r]
    /\ Invoke(r, reqs[r].lock)
    /\ UNCHANGED <<plan, ready, loaded, entry, emodel, items, batch, worker, ctl>>

\* Mutant of CallReturns: the guard is forgotten, never dropped.
CallLeaksGuard(r) ==
    /\ call[r] # NoModel
    /\ call' = [call EXCEPT ![r] = NoModel]
    /\ ReqTo(r, IF reqs[r].pc = "running" THEN "done" ELSE reqs[r].pc, NoLock)
    /\ UNCHANGED <<plan, ready, loaded, entry, emodel, holder, items, batch, worker, ctl>>

\* The native call returns (or its stream ends): the blocking thread drops the
\* guard, and answers a client that is still there.
CallReturns(r) ==
    /\ call[r] # NoModel
    /\ call' = [call EXCEPT ![r] = NoModel]
    /\ holder' = [l \in Locks |-> IF l = reqs[r].lock THEN Nobody ELSE holder[l]]
    /\ ReqTo(r, IF reqs[r].pc = "running" THEN "done" ELSE reqs[r].pc, NoLock)
    /\ UNCHANGED <<plan, ready, loaded, entry, emodel, items, batch, worker, ctl>>

\* Mutant of Disconnect: the handler owns the guard, so its drop releases it
\* under a call that is still running.
DisconnectReleases(r) ==
    /\ reqs[r].pc \in {"ensure", "lock", "queued", "running"}
    /\ ReqTo(r, "gone", IF reqs[r].pc = "running" THEN reqs[r].lock ELSE NoLock)
    /\ holder' = [l \in Locks |->
                     IF reqs[r].pc = "running" /\ l = reqs[r].lock THEN Nobody ELSE holder[l]]
    /\ UNCHANGED <<plan, ready, loaded, entry, emodel, call, items, batch, worker, ctl>>

\* The client goes away and the handler's future is dropped at its await: a
\* waiter leaves the mutex queue, a running call keeps its thread and guard,
\* a queued item stays with the accumulator.
Disconnect(r) ==
    /\ reqs[r].pc \in {"ensure", "lock", "queued", "running"}
    /\ ReqTo(r, "gone", IF reqs[r].pc = "running" THEN reqs[r].lock ELSE NoLock)
    /\ UNCHANGED <<plan, ready, loaded, entry, emodel, holder, call, items, batch, worker,
                   ctl>>

-----------------------------------------------------------------------------
(* The accumulator task of a Buffered entry.                               *)

\* It flushes some batch of what it has: predict_fn waits for the mutex.
WorkerTake(l) ==
    /\ worker[l] = "idle"
    /\ \E b \in (SUBSET items[l]) \ {{}} :
          /\ batch' = [batch EXCEPT ![l] = b]
          /\ items' = [items EXCEPT ![l] = items[l] \ b]
    /\ worker' = [worker EXCEPT ![l] = "lock"]
    /\ UNCHANGED <<plan, ready, loaded, entry, emodel, holder, call, reqs, ctl>>

\* It invokes the model the entry was built from.
WorkerInvoke(l) ==
    /\ worker[l] = "lock"
    /\ holder[l] = Nobody
    /\ holder' = [holder EXCEPT ![l] = l]
    /\ call' = [call EXCEPT ![l] = emodel[l]]
    /\ worker' = [worker EXCEPT ![l] = "running"]
    /\ UNCHANGED <<plan, ready, loaded, entry, emodel, reqs, items, batch, ctl>>

\* The invocation returns and every caller still there gets its slice.
WorkerAnswer(l) ==
    /\ worker[l] = "running"
    /\ call' = [call EXCEPT ![l] = NoModel]
    /\ holder' = [holder EXCEPT ![l] = Nobody]
    /\ reqs' = [r \in Requests |->
                   IF r \in batch[l] /\ reqs[r].pc = "queued"
                   THEN [pc |-> "done", surface |-> reqs[r].surface,
                         model |-> reqs[r].model, lock |-> NoLock]
                   ELSE reqs[r]]
    /\ batch' = [batch EXCEPT ![l] = {}]
    /\ worker' = [worker EXCEPT ![l] = "idle"]
    /\ UNCHANGED <<plan, ready, loaded, entry, emodel, items, ctl>>

-----------------------------------------------------------------------------
Dispatch(r) ==
    \/ EnsureEntry(r) \/ InsertEntry(r) \/ GetPanics(r) \/ GetDirect(r)
    \/ GetLocked(r) \/ GetQueued(r)

WorkerStep(l) == WorkerTake(l) \/ WorkerInvoke(l) \/ WorkerAnswer(l)

StandaloneNext ==
    \/ \E m \in Models : ModelReady(m)
    \/ \E r \in Requests :
          \/ \E s \in {"create", "acquire"} : Resolve(r, s)
          \/ Dispatch(r) \/ AcquireLock(r) \/ CallReturns(r) \/ Disconnect(r)
    \/ \E l \in Locks : WorkerStep(l)

\* A fleet node also unloads, and may load the tag again.
FleetNext == StandaloneNext \/ RemoveEntry \/ UnloadModel

StandaloneSpec == Init /\ [][StandaloneNext]_vars
FleetSpec == Init /\ [][FleetNext]_vars

-----------------------------------------------------------------------------
(* Properties.                                                             *)

\* "a compiled predictor that is not continuous is never invoked concurrently,
\* whichever surface the request arrives on" (dispatch/mod.rs).
Exclusive ==
    \A a, b \in Agents :
        (call[a] # NoModel /\ call[a] = call[b] /\ plan[call[a]] # "Continuous") => a = b

\* The guard travels with the invocation: as long as a native call made under
\* an entry's mutex runs, its caller holds that mutex, client or no client.
GuardTravels ==
    /\ \A r \in Requests :
          (call[r] # NoModel /\ reqs[r].lock # NoLock) => holder[reqs[r].lock] = r
    /\ \A l \in Locks : call[l] # NoModel => holder[l] = l

\* entries.get(tag).expect("entry just ensured") and
\* unreachable!("Buffered entry implies Buffered plan") are never reached.
NeverPanics == \A r \in Requests : reqs[r].pc # "panicked"

\* Every dispatched request is answered or abandoned by its client, across
\* entry removal and reload: no mutex is left held, no item is left queued.
Served ==
    \A r \in Requests :
        reqs[r].pc = "ensure" ~> reqs[r].pc \in {"done", "gone", "panicked"}
=============================================================================
