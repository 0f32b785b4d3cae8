------------------------------ MODULE KvRelay ------------------------------
(***************************************************************************)
(* The KV event relay of one Ready model (src/control/kv_relay.rs): a task *)
(* that subscribes to the engine's event stream, tracks its continuity and *)
(* posts batches of events to the control plane's index.                   *)
(*                                                                         *)
(* A message stands for its events.  The engine's publisher and the plane  *)
(* are external: they do what the relay and its protocol say of them, and  *)
(* they misbehave only while the engine has a message left to publish, so  *)
(* that a loss is always followed by a keepalive.                          *)
(***************************************************************************)
EXTENDS Integers, Sequences

CONSTANTS
    MaxEpoch,        \* bound on engine restarts
    MaxSeq,          \* bound on the messages of one epoch
    WireCap,         \* bound on the messages in the SUB socket
    RecvTimeout,     \* RECV_TIMEOUT
    FlushIntervals   \* choices of --kv-flush-interval, in the same unit

ASSUME BoundsAssumption ==
    /\ MaxEpoch \in Nat \ {0} /\ MaxSeq \in Nat \ {0} /\ WireCap \in Nat \ {0}
    /\ RecvTimeout \in Nat \ {0}
    /\ FlushIntervals \subseteq Nat \ {0}

VARIABLES
    engine,       \* the publisher: does it bind, its epoch and last seq
    sub,          \* the SUB socket: its link, a snapshot due to it, its messages
    plane,        \* the plane's index: epoch and seq it holds, was it ever based
    late,         \* a POST the client gave up on that may still arrive
    pc,           \* relay_model
    continuity,   \* Continuity; 0 is None
    pending,      \* Pending; <<>> is None
    edge,         \* EdgeState; suspended is a backoff_until in the future
    clock,        \* time since the last flush tick, and since select! was entered
    flush_every,  \* kv_flush_interval
    cancelled     \* the task's CancellationToken

world == <<engine, plane, late>>
config == <<flush_every, cancelled>>
vars == <<engine, sub, plane, late, pc, continuity, pending, edge, clock,
          flush_every, cancelled>>

Message == [epoch : 1..MaxEpoch, seq : 0..MaxSeq, snapshot : BOOLEAN]
SeqRange == {<<>>} \union ((0..MaxSeq) \X (0..MaxSeq))

Engines == [bound : BOOLEAN, epoch : 1..MaxEpoch, seq : 0..MaxSeq]
Subs == [link : {"live", "dead", "broken"}, due : BOOLEAN, wire : Seq(Message)]
Planes == [epoch : 0..MaxEpoch, seq : 0..MaxSeq, based : BOOLEAN]
RelayBatch == [epoch : 1..MaxEpoch, first : 0..MaxSeq, last : 0..MaxSeq, snapshot : BOOLEAN]
Continuity == [epoch : 0..MaxEpoch, last_seq : -1..MaxSeq]
Pending == [events : Seq(Message), seq_range : SeqRange, snapshot : BOOLEAN]
EdgeState == [needs_snapshot : BOOLEAN, suspended : BOOLEAN]
Clocks(every) == [flush : 0..every, recv : 0..RecvTimeout]

TypeOK ==
    /\ engine \in Engines
    /\ sub \in Subs
    /\ plane \in Planes
    /\ late \in SUBSET RelayBatch
    /\ pc \in {"connecting", "retrying", "select", "posting", "returned"}
    /\ continuity \in Continuity
    /\ pending \in Pending
    /\ edge \in EdgeState
    /\ clock \in Clocks(flush_every)
    /\ flush_every \in FlushIntervals
    /\ cancelled \in BOOLEAN

Closed == [link |-> "dead", due |-> FALSE, wire |-> <<>>]
Unheard == [epoch |-> 0, last_seq |-> -1]
NoEvents == [events |-> <<>>, seq_range |-> <<>>, snapshot |-> FALSE]

\* The task is spawned at its first connect, snapshot-pending.
Init ==
    /\ engine \in [bound : BOOLEAN, epoch : {1}, seq : {0}]
    /\ sub = Closed
    /\ plane = [epoch |-> 0, seq |-> 0, based |-> FALSE]
    /\ late = {}
    /\ pc = "connecting"
    /\ continuity = Unheard
    /\ pending = NoEvents
    /\ edge = [needs_snapshot |-> TRUE, suspended |-> FALSE]
    /\ flush_every \in FlushIntervals
    /\ clock = [flush |-> flush_every, recv |-> 0]
    /\ cancelled = FALSE

-----------------------------------------------------------------------------
(* The engine and the socket.                                              *)

\* The engine's last message of an epoch is out: nothing fails any more.
Quiet == engine.seq = MaxSeq

InSession == pc \in {"select", "posting"}

\* The engine publishes a delta (an idle keepalive too); it is lost with no
\* subscriber, on a dead link or a full socket.
Publish ==
    /\ engine.bound /\ ~Quiet
    /\ engine' = [engine EXCEPT !.seq = @ + 1]
    /\ \/ /\ InSession /\ sub.link = "live" /\ Len(sub.wire) < WireCap
          /\ sub' = [sub EXCEPT !.wire = Append(@,
                        [epoch |-> engine.epoch, seq |-> engine.seq + 1,
                         snapshot |-> FALSE])]
       \/ /\ InSession /\ sub.link = "live" => engine.seq + 1 < MaxSeq
          /\ UNCHANGED sub
    /\ UNCHANGED <<plane, late, pc, continuity, pending, edge, clock, config>>

\* The publisher answers a subscription with a snapshot of its state.
PublishSnapshot ==
    /\ InSession /\ sub.link = "live" /\ sub.due
    /\ \/ /\ Len(sub.wire) < WireCap
          /\ sub' = [sub EXCEPT !.due = FALSE,
                                !.wire = Append(@, [epoch |-> engine.epoch,
                                                    seq |-> engine.seq,
                                                    snapshot |-> TRUE])]
       \/ ~Quiet /\ sub' = [sub EXCEPT !.due = FALSE]
    /\ UNCHANGED <<world, pc, continuity, pending, edge, clock, config>>

\* The engine is instantiated again, with a fresh epoch.  The socket falls
\* silent, fails, or reconnects by itself.
Restart ==
    /\ engine.bound /\ engine.epoch < MaxEpoch
    /\ engine' = [engine EXCEPT !.epoch = @ + 1, !.seq = 0]
    /\ IF InSession
       THEN \E link \in {"live", "dead", "broken"}, due \in BOOLEAN :
               sub' = [sub EXCEPT !.link = link, !.due = due]
       ELSE UNCHANGED sub
    /\ UNCHANGED <<plane, late, pc, continuity, pending, edge, clock, config>>

-----------------------------------------------------------------------------
(* The plane.                                                              *)

\* The indexer applies a snapshot as a reset, a delta only when it continues
\* what the index holds.
Accepts(b) ==
    b.snapshot \/ (plane.epoch = b.epoch /\ b.first = plane.seq + 1)

\* What the indexer does with a batch that reaches it.
Indexed(b) ==
    IF Accepts(b) THEN [epoch |-> b.epoch, seq |-> b.last, based |-> TRUE] ELSE plane

\* The plane restarts with an empty index.
PlaneForgets ==
    /\ ~Quiet
    /\ plane.epoch # 0
    /\ plane' = [plane EXCEPT !.epoch = 0, !.seq = 0]
    /\ UNCHANGED <<engine, sub, late, pc, continuity, pending, edge, clock, config>>

\* A POST the relay timed out on reaches the plane after all.
LateArrives ==
    /\ ~Quiet
    /\ \E b \in late :
          /\ plane' = Indexed(b)
          /\ late' = late \ {b}
    /\ UNCHANGED <<engine, sub, pc, continuity, pending, edge, clock, config>>

-----------------------------------------------------------------------------
(* Sessions.                                                               *)

\* continue 'session: cancellation is checked, then a fresh socket connects.
Rejoin ==
    /\ pc' = IF cancelled THEN "returned" ELSE "connecting"
    /\ sub' = Closed
    /\ continuity' = Unheard
    /\ pending' = NoEvents
    /\ clock' = [flush |-> flush_every, recv |-> 0]

\* The select! loop is entered again, with a new receive timeout.
Reselect ==
    /\ pc' = "select"
    /\ clock' = [clock EXCEPT !.recv = 0]
    /\ UNCHANGED <<sub, continuity>>

\* connect_subscribe succeeds; the first flush tick is due at once.
Connect ==
    /\ pc = "connecting" /\ engine.bound
    /\ pc' = "select"
    /\ sub' = [link |-> "live", due |-> TRUE, wire |-> <<>>]
    /\ UNCHANGED <<world, continuity, pending, edge, clock, config>>

ConnectFails ==
    /\ pc = "connecting" /\ (~engine.bound \/ ~Quiet)
    /\ pc' = "retrying"
    /\ UNCHANGED <<world, sub, continuity, pending, edge, clock, config>>

\* The backoff of retry_delay ends.
Retry ==
    /\ pc = "retrying"
    /\ Rejoin
    /\ UNCHANGED <<world, edge, config>>

\* Mutant of Returns: only the retry delay watches the token.
ReturnsRetrying == cancelled /\ pc = "retrying"

\* Where the token is polled, besides the top of the session loop.
Returns == cancelled /\ pc \in {"retrying", "select"}

Return ==
    /\ Returns
    /\ pc' = "returned"
    /\ UNCHANGED <<world, sub, continuity, pending, edge, clock, config>>

-----------------------------------------------------------------------------
(* Receiving.                                                              *)

\* Mutant of Continuous: no sequence check.
AnySeq(m) == continuity.epoch \in {0, m.epoch}

Continuous(m) ==
    /\ continuity.epoch \in {0, m.epoch}
    /\ continuity.last_seq = -1 \/ m.seq = continuity.last_seq + 1

\* A snapshot supersedes what is buffered, a delta extends it.
Buffer(m) ==
    pending' =
        IF m.snapshot
        THEN [events |-> <<m>>, seq_range |-> <<m.seq, m.seq>>, snapshot |-> TRUE]
        ELSE [pending EXCEPT
                 !.events = Append(@, m),
                 !.seq_range = <<IF @ = <<>> THEN m.seq ELSE @[1], m.seq>>]

Track(m) == continuity' = [epoch |-> m.epoch, last_seq |-> m.seq]

\* admit lets a message in: a snapshot always, a delta that continues the stream.
Admit ==
    /\ pc = "select" /\ sub.wire # <<>>
    /\ LET m == Head(sub.wire)
       IN  /\ m.snapshot \/ Continuous(m)
           /\ Track(m)
           /\ Buffer(m)
    /\ sub' = [sub EXCEPT !.wire = Tail(@)]
    /\ clock' = [clock EXCEPT !.recv = 0]
    /\ UNCHANGED <<world, pc, edge, config>>

\* Admit::Gap.
Gap ==
    /\ pc = "select" /\ sub.wire # <<>>
    /\ ~Head(sub.wire).snapshot /\ ~Continuous(Head(sub.wire))
    /\ Rejoin
    /\ UNCHANGED <<world, edge, config>>

RecvFails ==
    /\ pc = "select" /\ sub.wire = <<>> /\ sub.link = "broken"
    /\ Rejoin
    /\ UNCHANGED <<world, edge, config>>

\* RECV_TIMEOUT passes in one wait of the select! loop.
Silent == pc = "select" /\ sub.wire = <<>> /\ clock.recv = RecvTimeout

RecvTimesOut ==
    /\ Silent
    /\ Rejoin
    /\ UNCHANGED <<world, edge, config>>

-----------------------------------------------------------------------------
(* Flushing.                                                               *)

FlushDue == pc = "select" /\ clock.flush = flush_every

\* Mutant of Ticked: the receive timeout outlives a tick.
TickedSparesRecv == clock' = [clock EXCEPT !.flush = 0]

\* The tick restarts the interval, and the next select! the receive timeout.
Ticked == clock' = [flush |-> 0, recv |-> 0]

\* Inside the 404 backoff the window is dropped.
FlushSuspended ==
    /\ FlushDue /\ edge.suspended
    /\ Ticked
    /\ pending' = NoEvents
    /\ edge' = [edge EXCEPT !.needs_snapshot = TRUE]
    /\ UNCHANGED <<world, sub, pc, continuity, config>>

\* Mutants of Withheld: deltas flow although the plane waits for a snapshot; a
\* relay with an empty buffer does not ask for one.
WithheldNever == edge.needs_snapshot /\ pending.seq_range = <<>>
WithheldWithEvents == edge.needs_snapshot /\ pending.seq_range # <<>> /\ ~pending.snapshot

\* The plane waits for a snapshot the buffer does not hold.
Withheld == edge.needs_snapshot /\ ~pending.snapshot

\* Nothing to send, and nothing the plane is known to wait for.
FlushNothing ==
    /\ FlushDue /\ ~edge.suspended
    /\ continuity.epoch = 0 \/ (pending.seq_range = <<>> /\ ~Withheld)
    /\ Ticked
    /\ UNCHANGED <<world, sub, pc, continuity, pending, edge, config>>

FlushRejoins ==
    /\ FlushDue /\ ~edge.suspended
    /\ continuity.epoch # 0 /\ Withheld
    /\ Rejoin
    /\ UNCHANGED <<world, edge, config>>

FlushPosts ==
    /\ FlushDue /\ ~edge.suspended
    /\ continuity.epoch # 0 /\ pending.seq_range # <<>> /\ ~Withheld
    /\ Ticked
    /\ pc' = "posting"
    /\ UNCHANGED <<world, sub, continuity, pending, edge, config>>

\* The RelayBatch being posted.
Batch ==
    [epoch |-> continuity.epoch, first |-> pending.seq_range[1],
     last |-> pending.seq_range[2], snapshot |-> pending.snapshot]

\* A 2xx answer: the plane says whether it needs a snapshot.
PostAnswered ==
    /\ pc = "posting"
    /\ plane' = Indexed(Batch)
    /\ edge' = [edge EXCEPT !.needs_snapshot = ~Accepts(Batch)]
    /\ IF Accepts(Batch)
       THEN Reselect /\ pending' = NoEvents
       ELSE Rejoin
    /\ UNCHANGED <<engine, late, config>>

\* A 2xx answer whose body is cut off reads as the default: no snapshot needed.
PostUnread ==
    /\ pc = "posting" /\ ~Quiet
    /\ plane' = Indexed(Batch)
    /\ edge' = [edge EXCEPT !.needs_snapshot = FALSE]
    /\ Reselect
    /\ pending' = NoEvents
    /\ UNCHANGED <<engine, late, config>>

\* 404 or 410: the plane has no ingest route.
PostNotFound ==
    /\ pc = "posting" /\ ~Quiet
    /\ edge' = [needs_snapshot |-> TRUE, suspended |-> TRUE]
    /\ Reselect
    /\ pending' = NoEvents
    /\ UNCHANGED <<world, config>>

\* Another status, an error or the client's timeout: the batch is dropped.  It
\* may have been indexed, or be still on its way.
PostFails ==
    /\ pc = "posting" /\ ~Quiet
    /\ \/ UNCHANGED <<plane, late>>
       \/ plane' = Indexed(Batch) /\ UNCHANGED late
       \/ late' = {Batch} /\ UNCHANGED plane
    /\ Reselect
    /\ pending' = NoEvents
    /\ UNCHANGED <<engine, edge, config>>

\* NOT_FOUND_BACKOFF has passed.
BackoffPasses ==
    /\ edge.suspended
    /\ edge' = [edge EXCEPT !.suspended = FALSE]
    /\ UNCHANGED <<world, sub, pc, continuity, pending, clock, config>>

-----------------------------------------------------------------------------
(* Time, and the supervisor's cancellation.                                *)

\* A live link brings a keepalive within RECV_TIMEOUT (they are not counted
\* beyond MaxSeq).
Keepalive == sub.link = "live" /\ Quiet /\ clock.recv + 1 = RecvTimeout

\* The select! loop is polled as soon as one of its branches is ready, so time
\* passes in it only while none is.
Wait ==
    /\ pc = "select"
    /\ sub.wire = <<>> /\ sub.link # "broken"
    /\ ~FlushDue /\ ~Silent /\ ~cancelled
    /\ clock' = [flush |-> clock.flush + 1,
                 recv |-> IF Keepalive THEN 0 ELSE clock.recv + 1]
    /\ UNCHANGED <<world, sub, pc, continuity, pending, edge, config>>

\* The flush interval runs on during a POST.
PostTakesTime ==
    /\ pc = "posting" /\ clock.flush < flush_every
    /\ clock' = [clock EXCEPT !.flush = @ + 1]
    /\ UNCHANGED <<world, sub, pc, continuity, pending, edge, config>>

\* The supervisor no longer finds the model Ready, or the server shuts down.
Cancel ==
    /\ ~cancelled
    /\ cancelled' = TRUE
    /\ UNCHANGED <<world, sub, pc, continuity, pending, edge, clock, flush_every>>

Post == PostAnswered \/ PostUnread \/ PostNotFound \/ PostFails
Receive == Admit \/ Gap \/ RecvFails \/ RecvTimesOut
Flush == FlushSuspended \/ FlushNothing \/ FlushRejoins \/ FlushPosts

Next ==
    \/ Publish \/ PublishSnapshot \/ Restart
    \/ PlaneForgets \/ LateArrives
    \/ Connect \/ ConnectFails \/ Retry \/ Return
    \/ Receive \/ Flush \/ Post \/ BackoffPasses
    \/ Wait \/ PostTakesTime \/ Cancel

Spec == Init /\ [][Next]_vars

\* The task is polled, select! picks its ready branches at random, connects and
\* POSTs end, delays pass, and the engine goes on publishing.
Fairness ==
    /\ WF_vars(Publish) /\ WF_vars(PublishSnapshot)
    /\ WF_vars(Connect \/ ConnectFails) /\ WF_vars(Retry)
    /\ WF_vars(Post) /\ WF_vars(BackoffPasses) /\ WF_vars(Wait)
    /\ SF_vars(Receive) /\ SF_vars(Flush) /\ SF_vars(Return)

-----------------------------------------------------------------------------
(* Properties.                                                             *)

\* What the relay buffers and posts is an exact stretch of one epoch's stream:
\* the messages of its seq_range, each once and in order, all of the epoch the
\* batch names, and only a batch marked snapshot starts with one.
BatchExact ==
    pending.seq_range # <<>> =>
        /\ Len(pending.events) = pending.seq_range[2] - pending.seq_range[1] + 1
        /\ \A i \in DOMAIN pending.events :
              /\ pending.events[i].epoch = continuity.epoch
              /\ pending.events[i].seq = pending.seq_range[1] + i - 1
              /\ pending.events[i].snapshot <=> (pending.snapshot /\ i = 1)

\* The relay posts deltas only to a plane that has had a full snapshot from it,
\* across reconnects, refusals and lost answers.
BaselineFirst == pc = "posting" /\ ~pending.snapshot => plane.based

\* With a flush interval shorter than RECV_TIMEOUT the receive timeout never
\* fires: every flush tick leaves select! and the next one starts it anew.
FlushStarvesTimeout == flush_every < RecvTimeout => ~Silent

Synced == plane.epoch = engine.epoch /\ plane.seq = engine.seq

\* The relay cannot know: the engine never publishes, or its link is dead and
\* the receive timeout never fires.
Unnoticed ==
    ~engine.bound \/ (InSession /\ sub.link = "dead" /\ flush_every < RecvTimeout)

\* Once the stream and the plane behave, the plane's index catches up with the
\* engine, whatever was lost, refused, forgotten or restarted before.
CatchesUp == <>[](Synced \/ cancelled \/ Unnoticed)

\* A cancelled relay returns, even one whose engine never binds: the supervisor
\* waits for its relays at shutdown.
CancelledReturns == cancelled ~> pc = "returned"
=============================================================================
