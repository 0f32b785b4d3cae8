# Verification of muna-server

TLA+ models of the server's serving core, TLC configurations that check them
on small instances, and TLAPS proofs for every value of the constants. Paths
below are relative to the repository's `src/`.

## 1. Inventory

The server loads compiled predictors into its own process and serves them over
HTTP. It runs standalone (`--models`, no control plane) or as a fleet node that
reports to a control plane by heartbeat and applies the goals it answers with.

| Component | State | Operations | Interacts with |
|---|---|---|---|
| Model registry (`serving/registry.rs`) | map tag → slot (Loading, Ready, Failed), a watch channel and an `unload_requested` flag per slot | `ensure_ready`, `warm`, `warm_reconcile`, `unload`, the spawned load task | handlers, heartbeat, download gate, notifications |
| Download gate (`serving/download_gate.rs`) | count of process-tier downloads | `enter_priority`, guard drop, `wait_idle` | registry holds it, cache tracker waits on it |
| Cache tracker (`serving/cache.rs`) | map tag → Caching, Cached, Failed | `ensure_cached`, `forget_failed`, download task | heartbeat, gate, notifications |
| Notifications (`notifications.rs`) | one stored `Notify` permit | `status_changed` | every writer of reported state, heartbeat |
| Heartbeat (`control/heartbeat.rs`, `control/protocol.rs`) | the beat in progress, the response being applied | `run`, `beat`, `apply`, `process_first` | registry, cache, dispatcher, drain flag |
| Drain and shutdown (`state.rs`, `handlers/drain.rs`, `main.rs`) | drain flag, shutdown token | `set_draining`, `/drain`, `watch_signals` | handlers, heartbeat |
| Dispatcher (`serving/dispatch/mod.rs`) | map tag → entry (mutex, channel or nothing) | `create`, `acquire`, `remove` | handlers, accumulator, heartbeat |
| Blocking executor (`serving/predict.rs`) | guards travelling with native calls | `run`, `stream` | dispatcher, registry |
| Accumulator (`serving/dispatch/worker.rs`) | channel, one queue per batch key | `run`, `take_flushable`, `flush` | dispatcher |
| Batch plan, merge, split (`serving/batch.rs`, `serving/dispatch/merge.rs`) | none (pure), an opaque counter | `from_signature`, `compute_batch_key`, `item_count`, `merge_inputs`, `split_results` | accumulator |
| KV relay (`control/kv_relay.rs`) | relay task per model, continuity, pending batch; the supervisor's map tag → (token, task) and its set of models without a sidecar | `run`, `discover_endpoint`, `relay_model`, `flush_pending` | registry, control plane |
| Inference handlers (`handlers/`) | one response each: its stream, its meter | `predictions`, `chat_completions`, `messages`, `embeddings`, `images` | registry, check-ins, image fetcher, dispatcher, executor |
| Check-ins (`state.rs`) | next check-in time per model | `check_in_if_due`, `mark_model_loaded` | handlers |
| Statistics (`serving/stats.rs`) | sample ring, stream meters, queue depth | `StreamMeter`, `record` | handlers, accumulator |
| Remote image fetcher (`serving/remote_images.rs`) | none | `inline_openai`, `inline_anthropic` | handlers |
| Download client (`client.rs`) | lock per download path | `download` | muna client |
| Device lease (`serving/lease.rs`) | cached attachment per device, one mutex | `stats`, `set_weight_on` | engines, through shared memory |
| Lease weights (`serving/lease_weights.rs`) | demand trackers | `run`, `plan_shares`, `solve_shares` | device lease, policies set by the heartbeat |
| Platform probes, request and error formats | vendor handles | | |

What is hard here: requests that wait on a load while the heartbeat unloads the
model and a failure is cleared; critical sections that look like one and are
two (`unload`, `warm_reconcile`, `ensure_entry` then lookup); clients that
disconnect at any await while their native call runs on; a permit that must
coalesce signals without losing one; beats that are lost; a signal that arrives
in the middle of a response; batches cut out of a queue and results cut back
into callers' parts; streams that cross a blocking thread, a bounded channel
and a client that may be slow or gone; locks and segments that are made, shared
and dropped on demand; two windows, two signals and a runtime at shutdown. `PROJECT.json` lists each of these hazards at its line.

What makes each component correct:

* registry: no waiter is stranded, a Loading slot always has a load that will
  end it, a Ready slot serves a live engine, loads are single-flight;
* gate and cache tracker: the gate counts the process-tier downloads, a
  prefetch starts behind them, one download task per caching tag;
* heartbeat: every change is reported, the last report drains, the registry is
  only driven through its own operations;
* dispatcher: a non-continuous predictor is never invoked concurrently, every
  request is served, no assertion fires;
* accumulator: every caller is answered once, batches fit, deadlines hold;
* batching: merging is invisible to each caller;
* relay: what it posts is an exact stretch of one epoch's stream on top of a
  snapshot, a plane that lost events is repaired, a cancelled relay returns;
  its supervisor loses no relay and follows the ready models;
* handlers: a client reads what was produced, the status says what happened
  first, a sample is taken once and of successes only, everyone is admitted;
* download client: one writer per path, and every call returns;
* device lease: only validated memory is touched, weights reach the engines,
  shares keep the promises of the solver's doc;
* shutdown: nothing is cut off before its window, and the process ends.

## 2. Modules

    Registry ──── MCRegistry ──── RegistryProofs ──┐
      Node ─────── MCNode                          │
       └────────── NodeProofs ─────────────────────┘
    Dispatcher ── MCDispatcher ── DispatcherProofs
    BufferedWorker ─┬── MCBufferedWorker
    Batch ──────────┴── BufferedProofs ── SumTheorems
    KvRelay ───┬── MCKvRelay           Surfaces ──┬── MCSurfaces
               └── KvRelayProofs                  └── SurfacesProofs

    SingleFlight (abstract) <── Downloads ──┐
    RelaySupervisor ────────────────────────┤
    LeaseSupervisor ────────────────────────┼── BackgroundProofs ── SumTheorems
    Lifetime ───────────────────────────────┤
    Shares ─────────────────────────────────┴── MCBackground

**Registry** models `registry.rs` with the gate's priority side and the status
permit. Each action is one critical section of the code: a DashMap entry guard
held without an await, or a task step between two awaits. Inserting a Loading
slot, signalling and spawning its load are one step because the entry guard is
held over all three. `reqs` holds requests inside `ensure_ready`; `loads` the
tasks of `spawn_load` at their phases (download, engine, signature, publish,
remove, delete, notify); `watch` each slot's channel; `ctl` the one task that
calls `warm_reconcile` and `unload` (the heartbeat), whose critical sections
are separate actions. A load, its channel and its engine share one identity,
recycled once nothing refers to it, so runs are not bounded in length.
`StandaloneSpec` has no heartbeat; `FleetSpec` has one that may call anything
in any order.

**Node** extends Registry with `cache.rs`, `heartbeat.rs`, the drain flag and
the signal handler. The heartbeat task is Registry's `ctl`: every registry
operation it performs is the registry's own action (`Unload` conjoins
`UnloadCheck`, `Warm` conjoins `WarmReconcile`, `Store` conjoins `Assign`), so
the node refines `FleetSpec` with the identity mapping. A report is collected
in two steps, the drain flag and registry first and the cache tracker after
them, as `NodeStatus::collect` takes its snapshots; within one snapshot tags
are read together, which is harmless because no property relates the tags of
one report. The plane's answers are arbitrary: any tags in any order, each at
most once, any residency and devices, or no answer.

**Dispatcher** models one tag (entries of different tags share nothing): the
entry, its mutex, invocations on blocking threads and the heartbeat's
`dispatcher.remove` followed by the unload. An entry is named by its mutex. The
accumulator of a Buffered entry takes any non-empty batch of what it was sent.

**BufferedWorker** refines that accumulator: the bounded channel, one queue per
batch key, deadlines, the worker loop and its exit. Time is the order of the
`enqueued` stamps and how many are past `FLUSH_DEADLINE`; deadlines are stamps
plus a constant, so this order is all the code compares.

**Batch** models the pure part: the plan, batch keys, item counts, merging and
splitting, checked against the predictor invoked alone on each request.
Values are records of a kind and contents; text is a sequence of tokens. An
opaque value's identity is a numeral, written in unary. The
predictor (`Predict`) is external: an output row depends on the rows of the
batch parameters with its index and on the broadcast parameters, the contract
batching relies on.

**KvRelay** models the relay task of one Ready model, `relay_model` with
`connect_subscribe`'s outcome, `Continuity`, `Pending`, `EdgeState` and
`flush_pending`. `pc` is where the task waits: connecting, in the retry delay,
in the `select!`, in a POST. A message stands for the events it carries. The
engine's publisher and the plane's indexer are external: the publisher numbers
the messages of an epoch, answers a subscription with a snapshot, and starts a
new epoch when it is instantiated again; the indexer applies a snapshot as a
reset and a delta only when it continues what it holds, and otherwise asks for
a snapshot. Messages and snapshots are lost, a link falls silent or breaks, a
connect or a POST fails, an answer is cut off, a POST the client gave up on
arrives later, the plane restarts empty. Faults happen while the engine still
has a message to publish in its epoch (`~Quiet`), so that each is followed by
a message, as the publisher's keepalive guarantees. Time is counted in units of
which `RecvTimeout` and the flush interval are multiples; it passes in the
`select!` only while none of its branches is ready. The flush interval is
chosen at the start among `FlushIntervals`. Messages that do not parse are left
out, and `retry_delay`'s length is the retrying state.

**RelaySupervisor** models `run` and `discover_endpoint` of `kv_relay.rs`. The
bookkeeping of a scan has no await in it and is one step (`Tick`); the lookup
of a ready model and the prediction of its sidecar are two, and the registry
loads and unloads between them. An engine is the number of its load, so a relay
of a model reloaded since is distinguishable. The token of a relay is a child
of the shutdown token: `Shutdown` cancels all, and one attached later is born
cancelled.

**Surfaces** models what every inference handler does around the dispatcher,
for requests of one ready model: the check-in (read of the schedule, call,
write), remote images, the guard, the blocking thread and its native call, and
for streams the pump, the bounded channel, the first item that commits the
status, the frames and the meter that records when it is dropped. Surfaces that
answer with one value are "unary"; the three streams are "openai", "anthropic"
and "raw". The client may leave at every await. An item is an envelope, content
or an error: the status, the meter and the terminator tell no more apart. The
dispatcher's guard is `guard`, its entries are Dispatcher's.

**SingleFlight** is the abstract promise of a lock per key: at most one worker
of a key at a time. **Downloads** models `download` of `client.rs`: the map of
locks on demand, a clone's reference count, the `remove_if` of the call that
leaves, and cancellation at every await; `INSTANCE SingleFlight WITH flight <-
fetcher` is its refinement, checked (`FlightSpec`) and proved.

**LeaseSupervisor** models `lease.rs` and the loop of `lease_weights.rs` over
it. Engines create, initialise, take slots of, leave and unlink a shared-memory
segment without any lock the server knows of; the supervisor caches a mapping
per device, and each load and store that engines can come between is a step:
reading the registrants, matching a label's slots, storing to one of them. A
weight is the policy it was computed from.

**Shares** is that computation, one step for each turn of its loops: a device's
floors (`Begin`), a round of the water-fill (`Round`), the next value
(`NextTier`), what is left over (`Leftovers`), and the end of a pass, of which
there are two: `plan_shares` solves every device again with tensor-parallel
engines capped at their bottleneck. Shares are integers, in `Unit`-ths of a
device. A quotient is rounded down, so that the sums stay exact, and `EPSILON`
is `Epsilon` `Unit`-ths. In the code, too, `EPSILON` (1e-12) is small beside a
share and large beside the error of a sum of doubles, which is less than the
model's. The properties say what they tolerate: `Epsilon` and a `Unit`-th for
each engine of the device.

**Lifetime** models how `main.rs` ends: signals that coalesce, `watch_signals`,
axum's graceful shutdown, `DRAIN_TIMEOUT`, `LOOP_SHUTDOWN_TIMEOUT`, the second
signal and the runtime, which drops its tasks when `main` returns and then
waits for the blocking threads. The drain flag's other writers (`/drain`, the
heartbeat) are in it too, since handlers read the flag to refuse.

Correspondence of every definition to its lines is in `PROJECT.json`, `map`.
Left out everywhere: logging, retry hints, timings and statistics except
`queue_depth` and the stream meter, error texts and download keys (data that no
control flow depends on).

## 3. Runs

| Run | Instance | Question |
|---|---|---|
| RegistrySafety | 1 pinned tag, 2 requests, 3 loads | do requests, loads, boot warm and unloads keep the registry's invariants? |
| RegistryLive | 1 tag, 3 requests, 2 loads | is every request answered, and a deferred unload done? |
| NodeSafety | 2 tags, 1 load, 1 device list | is the node a sound client of the registry, single-flight in its cache, prompt in its reports, and does prefetch yield? |
| NodeReports | 2 tags (1 pinned), 1 request, 1 load | does a lasting status reach the plane although beats are lost? |
| DispatcherServes | 2 requests, 2 models of any plan, 2 entries | does the guard stay with the call, and is everyone served? |
| WorkerServes | 3 callers, 2 keys, counts 1 and 3, capacity 2, channel 1; 3 parameters, 5 signatures, batches up to 3 | is each caller answered once, in batches that fit, with its own result? |
| SurfacesServe | 2 requests, channel 1, streams of up to 3 items | do streams arrive whole, with the right status and one sample, and is everyone admitted? |
| RelayRepairs | 2 epochs of 2 messages after the snapshot, a socket of 2, timeout 2, flush interval 1 or 3 | are batches exact and based, does the index catch up, does a cancelled relay return, when does the receive timeout fire? |
| Background | downloads: 1 path, 3 calls; relays: 2 tags (1 routed), 3 loads; leases: 1 device, 2 engines, 2 segments of 2 slots, 2 policies; shares: 2160 problems of 3 or 4 registrants, `Unit` 1 000 000, `Epsilon` 10; lifetime: 2 signals, 2 connections, the heartbeat | what the server does beside its requests, and how it ends |
| RegistrySingleFlight, DispatcherPanics, NodeUndrained | | the three disagreements of section 6 |

What the properties of the later runs say, beyond the table:

* `Faithful`: what the client has read, the channel and the pump's hand are
  together the native stream, always; `[DONE]` comes after everything.
* `CommittedByFirst`: a chat stream with status 200 starts with an Ok item and
  an error status never follows a frame. `SampledOnce`: one sample per stream
  with content read, none otherwise. `Admitted`: whatever hangs before
  admission or leaves after it, the guard comes round.
* `FlightSpec`, `Returns`: downloads of a path are single-flight although the
  lock they share is dropped and remade, and every call returns.
* `Owned`, `Tracks`, `Stops`: every relay that is not cancelled is in the map
  under its tag and a tag has one; scans attach what stays ready and end what
  stays unloaded; shutdown is not held up and leaves nothing running on.
* `Converges`: an engine that stays registered gets the weight of a policy that
  stays, whatever segments came and went and although a store may hit a slot
  that changed hands. `SharesSplit`, `NobodyLoses`: the doc comments of
  `solve_shares` and `plan_shares`, as predicates independent of the loop.
* `CutOffLate`, `ProcessEnds`: a request is cut off only after `DRAIN_TIMEOUT`
  and a loop (so the last report) only after `LOOP_SHUTDOWN_TIMEOUT`; after a
  signal the process ends unless a native call hangs, and a second signal ends
  it whatever hangs, unless `main` has already returned.

`launch` (MCRegistry), `stops` (MCNode) and `fleet` (MCDispatcher) are chosen
in the initial state and never change: they let one run cover a standalone
server and a fleet node, a node that may be stopped and one that may not, and
properties named `...Alone` speak of the standalone half. In the same way
`scope` (MCBackground), `merges` (MCBufferedWorker) and `alone` (MCSurfaces)
choose which component, or which request, a behaviour runs while the others
rest: the components of MCBackground share no state, so their product would
only repeat each one's behaviours.

Why the bounds suffice. One tag is enough for the registry's slot protocol (no
action reads two slots); three load identities allow a load in flight, one
whose slot was removed and a fresh one. Two requests give a waiter and a racing
inserter; a third in RegistryLive waits behind a failure that was cleared. On a
node two tags give a process goal next to a prefetch. In WorkerServes counts 1
and 3 against capacity 2 give a batch that fits, one that fills and an
oversized item; a channel of one slot makes callers block. In its batches
capacities 4 and 3 give batches of several multi-item requests and one that
must be refused.

RelayRepairs has two epochs for a batch that could span a restart, a snapshot
and two deltas per epoch for a hole inside one, a socket that can be full, and
a flush interval on either side of the receive timeout.

In SurfacesServe a request on its own has a stream longer than its channel, so
the pump waits for the reader with items before, in and behind the channel;
two that compete have short streams. Background has three download calls (one
that leaves, one that waits, one that comes between them), two relay
identities and three loads (a reload while the old relay still runs), two
segments (one unlinked and still mapped, one new) and two engines for a slot
that changes hands, and problems with floors that do and do not fit, values
that differ, agree or are zero, and tensor-parallel engines with a different
demand on each device. Lifetime has one request that ends and one whose call
may hang.

Named bounds: `FewRequests` (a fleet node of RegistryLive meets one request),
`OneTag` and `Unplaced` (NodeSafety: responses name one tag and any devices on
the node that may stop, any tags and no devices on the other), `OneModel`
(NodeReports: a response has at most one goal), `InOrder` (MCDispatcher,
MCBufferedWorker: interchangeable identities are taken in one order; in
MCBackground the connections open in order and only the second's call hangs),
`RelayInTurn`, `SegmentInTurn` (MCBackground: a new relay or segment is a fixed
one of those free), `Bounded` (MCSurfaces), `MaxItems`, `MaxLoads`,
`MaxBatch`, `MaxEpoch`, `MaxSeq` and `WireCap` (KvRelay), `MCNext` (MCKvRelay:
the relay is cancelled in the engine's first epoch only). Symmetry is used in RegistrySafety only, which checks no liveness.
A free slot's
weight is reset in LeaseSupervisor, since `register` writes it before it is
read. Deadlock is not checked: requests, callers and models are finite, so an
instance may come to rest with everything answered; that nothing stops early
is what the liveness properties say.

### Fairness

Weak fairness of a task's steps: tokio polls every task that can run. Loads,
downloads, API calls and native calls end (native streams yield or end), except that RegistryLive also has a launch in
which loads hang for ever and only the deadline answers requests. Time passes
where a deadline is waited for. Strong fairness is used in three places: the
tokio mutex is FIFO, so a waiter that finds it free again and again gets it
(dispatcher, surfaces, downloads); `select!` picks among its ready branches at
random, so a branch of the relay's loop, or of its supervisor's, that is ready
again and again is taken; and the plane answers infinitely often if asked infinitely often, which the
code cannot guarantee and StatusReachesPlane therefore assumes.

`Stops` and `Tracks` assume of a relay that it returns once cancelled, which
`CancelledReturns` shows of KvRelay. `Admitted` assumes that a client either
reads or leaves: a reader that does neither keeps the guard (section 6).
`ProcessEnds` assumes that the windows pass and that calls which do not hang
return; the signals, connections and clients of Lifetime are under no fairness,
and neither are the engines and the plane in LeaseSupervisor.

`CatchesUp` also assumes of the relay's surroundings that connects and POSTs
end (both have timeouts in the code) and that the engine goes on publishing.
It excepts a relay that was cancelled, an engine that never binds its
publisher, and a silently dead link that the receive timeout never reports
(section 6).

`AnsweredAlone` is stated for a standalone server: on a fleet node without
deadlines a request can be passed over for as long as the heartbeat keeps
unloading the model between its wakeup and its next look, which only the hold
deadline ends.

## 4. Proofs

`RegistryProofs` proves of `FleetSpec`: type correctness, `NoLostWakeup`,
`LoadingHasLoad`, `ReadyIsLive`, `GateExact`; of `StandaloneSpec`:
`SingleFlight`, `ReadyStable`, `OneEnginePerTag`; and of `SafetySpec`, the
specification TLC runs, in which the launch is chosen at the start:
`SingleFlightAlone`.

* None of these is inductive. `FleetInv` adds the shape of slots, that a
  channel is open only while a slot owns it, that distinct slots have distinct
  channels and engines, and where each engine is while it is loaded: a Loading
  slot's load, a Ready slot, a load that deletes it, or the heartbeat's
  `unload`. Publishing into a slot another load inserted is the hard step: the
  engine moves to a slot whose channel belongs to someone else.
* `GateInv` is the cardinality equation together with the finiteness of the
  downloading loads (loads may be an infinite set), which makes the saturating
  decrement exact.
* `StandaloneInv` adds that no unload is requested and that every load in
  flight is the load of its tag's Loading slot, so nothing overwrites a Ready
  slot.

`NodeProofs` proves the node's type invariant, that `NodeSpec` implements
`FleetSpec` (so the registry's theorems hold of the node), `CacheHonest`
(inductive as it stands), `PrefetchYields` (`OrderInv`: when a directive
that is not a process goal is taken, no process goal is left in `todo`) and
`OnlyClearsUnsignalled`. For the last, `ReportInv` says what holds between the
report's two snapshots, and `NodeTells` that every step but the wakeup itself
keeps a raised signal, and changes a slot only with a signal raised or still
owed by a load's task, unless it clears a failure.

`DispatcherProofs` proves type correctness and `GuardTravels` of the fleet
specification, and `Exclusive` and `NeverPanics` of the standalone one
(`StandaloneInv`: a model is the only one ever loaded, its entry is never
replaced, and every caller waits for that entry's mutex); both together are
`SoundAlone`, proved of the next-state relation TLC runs.

`BufferedProofs` proves of the accumulator, for any finite set of callers, any
counts, capacity and channel length, that every waiting caller's item is in
exactly one place and the totals are exact (`Accounted`), that every batch has
one key and fits (`BatchSound`), and that no caller is dropped although its
entry is removed (`NeverDropped`).

* `WorkerInv` says where an item is: in the channel, in one key's queue, in
  the batch of the flush, or nowhere, never in two (`Apart`, `Placed`); that
  each queue's total is the sum of its items' counts (`TotalsExact`), and that
  the queue depth covers what is queued (`DepthCovers`), so the subtraction of
  a batch does not underflow.
* The counts are sums over sequences. `CountAppend` and `CountSplit` say what
  filing an item and cutting a batch off a queue do to them, `BatchLenCuts`
  that the length `take_batch` cuts at is at least one item and, beyond one,
  within the capacity.

Of one batch it proves that a merged list is within its parameter's capacity
(`ListsFit`) and that batching is invisible (`BatchingIsInvisible`): if the
requests agree on what is not batched and no dimension of the output is zero,
every caller gets exactly what its request would have returned alone, and no
slice is out of range, for any signatures, values, shapes and batches. The argument
is `MergedShape`: item j of request i is at position offset(i) + j of every
merged list (`FlattenHolds`); `RowsAgree`: so the predictor computes there the
row the request has alone; `ListSlices` and `TensorSlices`: and split_results
cuts at the same offsets, for tensors by dividing the position by the row size
(`DivOffset`, `DivBound`). Both hypotheses are needed: section 6 has the
cases they exclude.

That the requests agree follows from their common key (`KeysKeepApart`, so
batching is invisible without assuming it: `BatchesAreInvisible`) as long as no
name or value contains "&", the text that joins the parts of a key
(`SeparatorFree`; section 6 has what happens otherwise). `PartsReadBack` recovers the parts
of a key from its text: two concatenations of parts that start with the
separator and have no other are equal only part by part. `FingerprintTells`
does the same for a part: plain values with one fingerprint are equal, opaque
ones have one identity. The invariant `Keyed` keeps for every request the
count of identities given out before it: a request's opaque values have lower
identities than any later request's, so two requests with an opaque value never
have one key. TLC found `KeyInv` true on WorkerServes before it was proved.

`SumTheorems` holds the lemmas on the library's folds. Induction is stated
over sets (`NatInd`, `FiniteInd`) and follows from minimal elements of
well-founded orders. With it the recursive function under a fold or a sum is shown
to exist (`FoldExists`, `SumsExist`), a sum's value not to depend on the order
chosen (`SumRemove`), and offsets in a sequence and positions in a
concatenation to be what one expects (`SeqSumNext`, `SeqSumBounds`,
`FlattenHolds`). Sums are additive, scale and compare term by term (`SumPlus`,
`SumScale`, `SumLeq`), and a set of natural numbers has its `Min` (`LeastIs`).

`KvRelayProofs` proves type correctness, `BatchExact`, `BaselineFirst` and
`FlushStarvesTimeout` of the relay, for every bound and every set of flush
intervals. The inductive invariant `RelayInv` adds what ties the buffer to the
stream (`BufferInv`: a non-empty buffer ends at the last message admitted, an
empty one holds nothing), that a relay which no longer waits for a snapshot has
based the plane (`BaselineInv`), and that the receive timer never runs ahead
of the flush timer (`TimerInv`): every tick resets both.

`SurfacesProofs` proves type correctness, `Faithful`, `CommittedByFirst` and
`SampledOnce` for any requests, channel capacity and stream length. `Row`
conjoins where the handler, the pump and the response of a request can be
together; the stream is stated as a concatenation while the client listens and
position by position after it left, since the channel is gone by then.

`BackgroundProofs` has one part for each background component.

* Downloads: a path never has two writers, and the per-path locks implement
  SingleFlight (`DownloadsAreSingleFlight`): initial states map to initial
  states, every step to a step or a stutter. The danger is `remove_if`, which
  tests the lock the map holds now; `LockInv` says that a call between its
  lookup and its own `remove_if` has that very lock, so a count of two is its
  own clone and the map's.
* Relay supervisor: type correctness, `Owned` and that nothing runs on after
  the supervisor returns. `ScanInv` says that a tag still to be looked at has
  no task, so that attaching replaces nothing; `StopInv` that no relay is
  uncancelled once the shutdown token is.
* Lease supervisor: type correctness, and that it only touches segments whose
  header it has validated (`Validated`), for every interleaving of its loads
  and stores with the engines' steps.
* Life cycle: nothing is cut off before its window (`CutOffLate`). `WindowInv`
  carries it: serve waits for the loops only after DRAIN_TIMEOUT or once no
  connection is left, and none comes after that.
* Weights: `SharesSplit` and `NobodyLoses`, for any devices and engines, any
  demands, values and floors, and any `Unit` and `Epsilon`. `Filling` is the
  invariant of the water-fill: shares lie between floor and demand and add up
  with `free` to the device (`Divided`), nobody is above its floor while a
  higher value wants more, equal values that compete are level (`InTurn`), and
  who is neither wanting nor still to come is met or nothing is left.
  `RoundDivides` shows that a round keeps it. `Solved` is what a solved device
  keeps: there were such shares, and what they left over was added by value;
  `SolvedIsRight` derives the promise of the doc comment from it.
* `NobodyLoses` compares the two passes' `Solved` (`SecondKeeps`,
  `SecondGains`): whatever an engine lost in the second, another of the same or
  a higher value gained, who then wanted more in the first than it got, which
  the order of the values forbids. Only the order of values and the sums are
  used, so nothing depends on how many rounds there were. `RoundsEnd` shows
  that a tier's rounds end: each meets a demand or leaves no more than
  `Epsilon`, as long as `Epsilon` is no less than the number of registrants,
  which bounds the rounding.

Assumptions: the named ASSUMEs of the modules - tags exist and are finite, the
"none" values are not members of the sets, pinned tags are tags, requests and
locks are disjoint, download calls and callers are finitely many, a channel
has a slot, the relay's bounds and flush intervals are positive (`main.rs:82`
raises a zero interval to 1 s), a batched parameter's capacity is a natural
number or absent, lists are sequences and dimensions natural numbers; a
device's `Unit` is a positive multiple of 2000 (weights are rounded to 1000ths),
`Epsilon` a natural number, and registrants have demands and floors up to a
whole device and values that are natural numbers. `RoundsEnd`, `KeysKeepApart`
and `BatchesAreInvisible` state their extra hypothesis. Nothing else is assumed.

Only model-checked: liveness and everything under fairness, which is outside
the prover's reach. Every safety invariant that a passing run checks is proved.

## 5. Not modelled

* The demand tracker's decay of `lease_weights.rs`: floating-point averages of
  counters. `Shares` takes every demand it can return as input.
* `set_mode` of `lease.rs`: nothing calls it.
* The sample ring and percentiles of `stats.rs`: bounded arithmetic on data no
  control flow reads.
* HTTP, address filtering and decoding in `remote_images.rs`, and the HTTP, the
  retries and the progress bars inside the download client: I/O, of which the
  models keep success and failure.
* Platform probes: vendor calls that read metrics.
* Request, response and error formats; messages of the KV stream that do not
  parse.
* Ill-formed batches (a scalar or missing batch parameter): `Batch` takes
  well-formed requests; section 6 says what the code does with the others.

A next step would be to show that `Dispatcher`'s accumulator is implemented by
`BufferedWorker`, and an abstract `ensure_ready` (a request returns an outcome
that held at some moment of its call) by `Registry`.

## 6. What the models show about the code

Checked as runs that must find a violation:

* `RegistrySingleFlight`: `unload` checks a slot and removes it in two critical
  sections; a failed slot seen by the first can be cleared and replaced by a
  Loading one before the second, which then removes a load in flight. The next
  request starts a second load beside it, against registry.rs:219-222.
* `DispatcherPanics`: `dispatcher.remove` between `ensure_entry` and the lookup
  makes `expect("entry just ensured")` panic (dispatch/mod.rs:101).
* `NodeUndrained`: a response being applied when the signal arrives un-drains
  the node after `watch_signals` set the flag, so the "last report
  (`draining: true`)" (heartbeat.rs:49) says false.

Observed while modelling, not checked as runs:

* the slot is removed before its engine is deleted, the reverse of the order
  the doc of `unload` gives, so a reload can overlap the delete;
* a failure cleared by `ensure_ready` or `warm` is not signalled
  (registry.rs:238, 306): the exception in `OnlyClearsUnsignalled`;
* `warm_reconcile` can retry a failure that is still cooling, if it failed
  between the check and `warm`;
* an empty response is documented as a no-op but adopts `drain = false`;
* `queue_depth` stays one too high when a caller leaves while blocked in send;
* on a fleet node, remove and re-create give one model two mutexes, so
  `Exclusive` is claimed for standalone servers only;
* a tensor with a zero dimension after the first makes `split_results` index
  past its data (the inner size is at least 1);
* the relay's `RECV_TIMEOUT` "only fires for genuinely dead engines"
  (kv_relay.rs:38-43) but fires for none as configured: `timeout(RECV_TIMEOUT,
  sub.recv())` is created anew each time a flush tick leaves the `select!`, and
  the flush interval is 1 s unless configured above 30 s. `FlushStarvesTimeout`
  states it, is checked in RelayRepairs and proved; an engine whose link dies
  without an error is not noticed, the exception in `CatchesUp`;
* batch keys join text with "&", which is not injective for strings that
  contain it (`KeysKeepApart` is proved for names and values without it);
* a scalar batch parameter is counted as one item (batch.rs:79) and dropped by
  the merge (merge.rs:32), so the results of the batch shift;
* a native stream that panics after its first item ends the channel, and the
  OpenAI surface then sends `[DONE]` as if it were complete; a failed item of
  the raw surface is an error frame, but any Ok prediction counts as content;
* times of a stream are taken when the client polls, not when items are
  produced, so a slow reader's latency is its own; and a reader that neither
  reads nor leaves keeps a sequential model's guard;
* `mark_model_loaded` schedules the first check-in from the first request, not
  from the load its doc names, and a reload keeps the old schedule;
* a malformed image data URL is answered as a server error (error.rs:184);
* the relay supervisor keeps the relay and endpoint of an old engine over a
  reload that falls between two scans; a discovery that failed or lost the race
  with an unload is remembered for as long as scans find the model ready (the
  exception in `Tracks`); relays it has retired are not awaited at shutdown;
* duplicate labels on one device (an old engine leaving while its successor has
  registered) are planned as a tensor-parallel engine and share one demand
  tracker; an engine reloaded between two ticks inherits its predecessor's
  demand (lease_weights.rs:166);
* a segment once rejected for its ABI is not probed again, even when it has
  been replaced (the exception in `Converges`);
* download locks are removed by the last call to leave, but two that leave
  together may both see the other's clone, and the entry then stays;
* a second signal that comes when `main` has returned is not seen, although the
  process may still wait for a native call (the exception in `ProcessEnds`);
  two signals of one kind that come before the first is received count as one;
  and connections still open when the drain window ends live on until the
  loops' window has ended too.
