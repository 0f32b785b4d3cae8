--------------------------- MODULE KvRelayProofs ---------------------------
(***************************************************************************)
(* The relay's batches, its baseline and its timers, for any number of     *)
(* epochs and messages, any socket size and any flush interval.            *)
(***************************************************************************)
EXTENDS KvRelay, TLAPS

\* The empty buffer has no events; a buffer ends where the stream does.
BufferInv ==
    /\ continuity.epoch = 0 <=> continuity.last_seq = -1
    /\ pending.seq_range = <<>> => pending = NoEvents
    /\ pending.seq_range # <<>> =>
          /\ pending.seq_range[1] <= pending.seq_range[2]
          /\ continuity.epoch # 0 /\ continuity.last_seq = pending.seq_range[2]

\* Deltas flow only on a baseline, and only batches that may go out are posted.
BaselineInv ==
    /\ ~edge.needs_snapshot => plane.based
    /\ pc = "posting" => pending.seq_range # <<>> /\ ~Withheld

\* A wait is no longer than the time since the last flush tick.
TimerInv == clock.recv <= clock.flush

RelayInv == TypeOK /\ BufferInv /\ BatchExact /\ BaselineInv /\ TimerInv

LEMMA Initials ==
    /\ NoEvents \in Pending /\ Closed \in Subs /\ Unheard \in Continuity
    /\ \A every \in FlushIntervals :
          /\ [flush |-> 0, recv |-> 0] \in Clocks(every)
          /\ [flush |-> every, recv |-> 0] \in Clocks(every)
<1>1. <<>> \in Seq(Message)
  OBVIOUS
<1>2. NoEvents \in Pending
  BY <1>1 DEF NoEvents, Pending, SeqRange
<1>3. Closed \in Subs
  BY <1>1 DEF Closed, Subs
<1>4. Unheard \in Continuity
  BY BoundsAssumption DEF Unheard, Continuity
<1>5. ASSUME NEW every \in FlushIntervals
      PROVE  /\ [flush |-> 0, recv |-> 0] \in Clocks(every)
             /\ [flush |-> every, recv |-> 0] \in Clocks(every)
  <2>1. every \in Nat
    BY BoundsAssumption
  <2> QED
    BY <2>1, BoundsAssumption DEF Clocks
<1> QED
  BY <1>2, <1>3, <1>4, <1>5

LEMMA RelayInit == Init => RelayInv
<1> SUFFICES ASSUME Init PROVE RelayInv
  OBVIOUS
<1>1. TypeOK
  <2>1. plane \in Planes /\ edge \in EdgeState /\ engine \in Engines
    BY BoundsAssumption DEF Init, Planes, EdgeState, Engines
  <2> QED
    BY <2>1, Initials DEF Init, TypeOK
<1>2. BufferInv /\ BatchExact /\ BaselineInv
  BY DEF Init, BufferInv, BatchExact, BaselineInv, Withheld, Unheard, NoEvents
<1>3. TimerInv
  BY BoundsAssumption DEF Init, TimerInv
<1> QED
  BY <1>1, <1>2, <1>3 DEF RelayInv

-----------------------------------------------------------------------------
(* The engine, the plane, time and cancellation.                           *)

LEMMA WorldStep ==
  ASSUME RelayInv, Publish \/ PublishSnapshot \/ Restart \/ PlaneForgets \/ LateArrives
  PROVE  RelayInv'
<1> USE DEF RelayInv
<1>1. UNCHANGED <<pc, continuity, pending, edge, clock, flush_every, cancelled>>
  BY DEF Publish, PublishSnapshot, Restart, PlaneForgets, LateArrives, config
<1>2. engine' \in Engines
  <2>0. engine.epoch \in 1..MaxEpoch /\ engine.seq \in 0..MaxSeq
    BY DEF TypeOK, Engines
  <2>1. CASE Publish
    <3>1. engine.seq + 1 \in 0..MaxSeq
      BY <2>0, <2>1, BoundsAssumption DEF Publish, Quiet
    <3>2. engine' = [engine EXCEPT !.seq = engine.seq + 1]
      BY <2>1 DEF Publish
    <3> QED
      BY <3>1, <3>2 DEF TypeOK, Engines
  <2>2. CASE Restart
    <3>0. engine.epoch < MaxEpoch
      BY <2>2 DEF Restart
    <3>1. engine.epoch + 1 \in 1..MaxEpoch /\ 0 \in 0..MaxSeq
      BY <2>0, <3>0, BoundsAssumption
    <3>2. engine' = [engine EXCEPT !.epoch = engine.epoch + 1, !.seq = 0]
      BY <2>2 DEF Restart
    <3> QED
      BY <3>1, <3>2 DEF TypeOK, Engines
  <2>3. CASE PublishSnapshot \/ PlaneForgets \/ LateArrives
    BY <2>3 DEF PublishSnapshot, PlaneForgets, LateArrives, world, TypeOK
  <2> QED
    BY <2>1, <2>2, <2>3
<1>3. sub' \in Subs
  <2>1. sub.wire \in Seq(Message) /\ engine.epoch \in 1..MaxEpoch /\ engine.seq \in 0..MaxSeq
    BY DEF TypeOK, Subs, Engines
  <2>2. CASE Publish
    <3> DEFINE m == [epoch |-> engine.epoch, seq |-> engine.seq + 1, snapshot |-> FALSE]
    <3>1. m \in Message
      BY <2>1, <2>2, BoundsAssumption DEF Publish, Quiet, Message
    <3>2. Append(sub.wire, m) \in Seq(Message)
      BY <2>1, <3>1
    <3> QED
      BY <2>2, <3>2 DEF Publish, TypeOK, Subs
  <2>3. CASE PublishSnapshot
    <3> DEFINE m == [epoch |-> engine.epoch, seq |-> engine.seq, snapshot |-> TRUE]
    <3>1. m \in Message
      BY <2>1 DEF Message
    <3>2. Append(sub.wire, m) \in Seq(Message)
      BY <2>1, <3>1
    <3> QED
      BY <2>3, <3>2 DEF PublishSnapshot, TypeOK, Subs
  <2>4. CASE Restart \/ PlaneForgets \/ LateArrives
    BY <2>4 DEF Restart, PlaneForgets, LateArrives, TypeOK, Subs
  <2> QED
    BY <2>2, <2>3, <2>4
<1>4. plane' \in Planes /\ late' \in SUBSET RelayBatch
  <2>1. CASE LateArrives
    BY <2>1 DEF LateArrives, Indexed, TypeOK, Planes, RelayBatch
  <2>2. CASE PlaneForgets
    <3>1. plane' = [plane EXCEPT !.epoch = 0, !.seq = 0] /\ UNCHANGED late
      BY <2>2 DEF PlaneForgets
    <3>2. 0 \in 0..MaxEpoch /\ 0 \in 0..MaxSeq
      BY BoundsAssumption
    <3> QED
      BY <3>1, <3>2 DEF TypeOK, Planes
  <2>3. CASE Publish \/ PublishSnapshot \/ Restart
    BY <2>3 DEF Publish, PublishSnapshot, Restart, world, TypeOK
  <2> QED
    BY <2>1, <2>2, <2>3
<1>5. TypeOK'
  BY <1>1, <1>2, <1>3, <1>4 DEF TypeOK
<1>6. plane.based => plane'.based
  <2>1. CASE LateArrives
    BY <2>1 DEF LateArrives, Indexed
  <2>2. CASE PlaneForgets
    BY <2>2 DEF PlaneForgets, TypeOK, Planes
  <2>3. CASE Publish \/ PublishSnapshot \/ Restart
    BY <2>3 DEF Publish, PublishSnapshot, Restart, world
  <2> QED
    BY <2>1, <2>2, <2>3
<1> QED
  BY <1>1, <1>5, <1>6 DEF BufferInv, BatchExact, BaselineInv, TimerInv, Withheld

LEMMA ClockStep ==
  ASSUME RelayInv, Wait \/ PostTakesTime \/ Cancel \/ BackoffPasses
  PROVE  RelayInv'
<1> USE DEF RelayInv
<1>1. UNCHANGED <<engine, sub, plane, late, pc, continuity, pending, flush_every>>
  BY DEF Wait, PostTakesTime, Cancel, BackoffPasses, config, world
<1>2. edge'.needs_snapshot = edge.needs_snapshot /\ edge' \in EdgeState
  BY DEF Wait, PostTakesTime, Cancel, BackoffPasses, TypeOK, EdgeState
<1>3. clock' \in Clocks(flush_every) /\ clock'.recv <= clock'.flush
  <2> USE DEF TypeOK, TimerInv
  <2>0. /\ flush_every \in Nat /\ RecvTimeout \in Nat
        /\ clock.flush \in 0..flush_every /\ clock.recv \in 0..RecvTimeout
        /\ clock = [flush |-> clock.flush, recv |-> clock.recv]
    BY BoundsAssumption DEF Clocks
  <2>1. CASE Wait
    <3>1. /\ clock.flush + 1 \in 0..flush_every /\ clock.recv + 1 \in 0..RecvTimeout
          /\ clock' = [flush |-> clock.flush + 1,
                       recv |-> IF Keepalive THEN 0 ELSE clock.recv + 1]
      BY <2>0, <2>1 DEF Wait, FlushDue, Silent
    <3> QED
      BY <2>0, <3>1 DEF Clocks
  <2>2. CASE PostTakesTime
    BY <2>0, <2>2 DEF PostTakesTime, Clocks
  <2>3. CASE Cancel \/ BackoffPasses
    BY <2>3 DEF Cancel, BackoffPasses
  <2> QED
    BY <2>1, <2>2, <2>3
<1>4. TypeOK'
  BY <1>1, <1>2, <1>3 DEF TypeOK, Wait, PostTakesTime, Cancel, BackoffPasses, config
<1> QED
  BY <1>1, <1>2, <1>3, <1>4 DEF BufferInv, BatchExact, BaselineInv, TimerInv, Withheld

-----------------------------------------------------------------------------
(* Sessions begin and end.                                                 *)

\* A rejoined session starts with nothing heard, buffered or posted.
LEMMA Rejoined ==
  ASSUME RelayInv, Rejoin, UNCHANGED config,
         UNCHANGED <<engine, late>>, plane' \in Planes, edge' \in EdgeState,
         ~edge'.needs_snapshot => plane'.based
  PROVE  RelayInv'
<1> USE DEF RelayInv, config
<1>1. TypeOK'
  BY Initials DEF TypeOK, Rejoin
<1>2. BufferInv' /\ BatchExact' /\ BaselineInv'
  BY DEF Rejoin, BufferInv, BatchExact, BaselineInv, Unheard, NoEvents
<1>3. TimerInv'
  BY BoundsAssumption DEF Rejoin, TimerInv, TypeOK
<1> QED
  BY <1>1, <1>2, <1>3

LEMMA SessionStep ==
  ASSUME RelayInv,
         Connect \/ ConnectFails \/ Retry \/ Return \/ Gap \/ RecvFails \/ RecvTimesOut
             \/ FlushRejoins
  PROVE  RelayInv'
<1> USE DEF RelayInv
<1>1. CASE Retry \/ Gap \/ RecvFails \/ RecvTimesOut \/ FlushRejoins
  BY <1>1, Rejoined
     DEF Retry, Gap, RecvFails, RecvTimesOut, FlushRejoins, world, TypeOK, BaselineInv
<1>2. CASE Connect \/ ConnectFails \/ Return
  <2>1. /\ UNCHANGED <<engine, plane, late, continuity, pending, edge, clock, config>>
        /\ pc' \in {"select", "retrying", "returned"}
    BY <1>2 DEF Connect, ConnectFails, Return, world
  <2>2. TypeOK'
    <3>1. [link |-> "live", due |-> TRUE, wire |-> <<>>] \in Subs
      BY Initials DEF Closed, Subs
    <3> QED
      BY <1>2, <2>1, <3>1 DEF Connect, ConnectFails, Return, TypeOK, config
  <2> QED
    BY <2>1, <2>2 DEF BufferInv, BatchExact, BaselineInv, TimerInv, Withheld
<1> QED
  BY <1>1, <1>2

-----------------------------------------------------------------------------
(* Receiving, flushing and posting.                                        *)

LEMMA AdmitStep == RelayInv /\ Admit => RelayInv'
<1> SUFFICES ASSUME RelayInv, Admit PROVE RelayInv'
  OBVIOUS
<1> USE DEF RelayInv
<1> DEFINE m == Head(sub.wire)
<1>1. m \in Message /\ Tail(sub.wire) \in Seq(Message)
  BY DEF Admit, TypeOK, Subs
<1>2. /\ UNCHANGED <<engine, plane, late, pc, edge, flush_every, cancelled>>
      /\ pc = "select"
      /\ sub' = [sub EXCEPT !.wire = Tail(@)]
      /\ clock' = [clock EXCEPT !.recv = 0]
      /\ continuity' = [epoch |-> m.epoch, last_seq |-> m.seq]
      /\ m.snapshot \/ Continuous(m)
      /\ Buffer(m)
  BY DEF Admit, Track, world, config
<1> HIDE DEF m
<1>t. /\ sub' \in Subs /\ continuity' \in Continuity /\ clock' \in Clocks(flush_every)
      /\ clock'.recv = 0 /\ clock'.flush = clock.flush /\ clock.flush \in Nat
  <2>1. sub' \in Subs
    BY <1>1, <1>2 DEF TypeOK, Subs
  <2>2. continuity' \in Continuity
    BY <1>1, <1>2, BoundsAssumption DEF Continuity, Message
  <2>3. clock' \in Clocks(flush_every) /\ clock'.recv = 0 /\ clock'.flush = clock.flush
    BY <1>2, BoundsAssumption DEF TypeOK, Clocks
  <2>4. clock.flush \in Nat
    BY BoundsAssumption DEF TypeOK, Clocks
  <2> QED
    BY <2>1, <2>2, <2>3, <2>4
<1>3. CASE m.snapshot
  <2>1. pending' = [events |-> <<m>>, seq_range |-> <<m.seq, m.seq>>, snapshot |-> TRUE]
    BY <1>2, <1>3 DEF Buffer
  <2>2. TypeOK'
    <3>1. <<m>> \in Seq(Message) /\ <<m.seq, m.seq>> \in SeqRange
      BY <1>1 DEF Message, SeqRange
    <3>2. pending' \in Pending
      BY <2>1, <3>1 DEF Pending
    <3> QED
      BY <1>2, <1>t, <3>2 DEF TypeOK
  <2>3. BufferInv'
    BY <1>1, <1>2, <2>1, BoundsAssumption DEF BufferInv, Message
  <2>5. BaselineInv'
    BY <1>2 DEF BaselineInv
  <2>6. TimerInv'
    BY <1>t DEF TimerInv
  <2>4. BatchExact'
    BY <1>1, <1>2, <1>3, <2>1 DEF BatchExact, Message
  <2> QED
    BY <2>2, <2>3, <2>4, <2>5, <2>6
<1>4. CASE ~m.snapshot
  <2> DEFINE first == IF pending.seq_range = <<>> THEN m.seq ELSE pending.seq_range[1]
  <2>1. /\ pending'.events = Append(pending.events, m)
        /\ pending'.seq_range = <<first, m.seq>>
        /\ pending'.snapshot = pending.snapshot
    BY <1>2, <1>4 DEF Buffer, TypeOK
  <2>2. pending.events \in Seq(Message) /\ pending.snapshot \in BOOLEAN /\ pending.seq_range \in SeqRange
    BY DEF TypeOK, Pending
  <2>3. first \in 0..MaxSeq /\ m.seq \in 0..MaxSeq /\ first <= m.seq
    <3>1. CASE pending.seq_range = <<>>
      BY <1>1, <3>1 DEF Message
    <3>2. CASE pending.seq_range # <<>>
      BY <1>1, <1>2, <1>4, <2>2, <3>2 DEF Message, SeqRange, BufferInv, Continuous
    <3> QED
      BY <3>1, <3>2
  <2> HIDE DEF first
  <2>4. TypeOK'
    <3>1. pending' \in Pending
      <4>1. pending' = [pending EXCEPT !.events = pending'.events, !.seq_range = pending'.seq_range]
        BY <1>2, <1>4 DEF Buffer, TypeOK
      <4>2. pending'.events \in Seq(Message) /\ pending'.seq_range \in SeqRange
        BY <1>1, <2>1, <2>2, <2>3 DEF SeqRange
      <4> QED
        BY <4>1, <4>2 DEF TypeOK, Pending
    <3> QED
      BY <1>2, <1>t, <3>1 DEF TypeOK
  <2>5. BufferInv'
    BY <1>1, <1>2, <2>1, <2>3, BoundsAssumption DEF BufferInv, Message
  <2>7. BaselineInv'
    BY <1>2 DEF BaselineInv
  <2>8. TimerInv'
    BY <1>t DEF TimerInv
  <2>6. BatchExact'
    <3>1. /\ continuity'.epoch = m.epoch
          /\ pending'.seq_range[1] = first /\ pending'.seq_range[2] = m.seq
          /\ pending'.snapshot = pending.snapshot
          /\ pending'.events = Append(pending.events, m)
      BY <1>2, <2>1
    <3>2. CASE pending.seq_range = <<>>
      <4>1. pending.events = <<>> /\ ~pending.snapshot /\ first = m.seq
        BY <3>2 DEF BufferInv, NoEvents, first
      <4> QED
        BY <1>1, <1>4, <3>1, <4>1 DEF BatchExact, Message
    <3>3. CASE pending.seq_range # <<>>
      <4>1. /\ first = pending.seq_range[1]
            /\ m.epoch = continuity.epoch
            /\ m.seq = pending.seq_range[2] + 1
            /\ pending.seq_range[1] \in Int /\ pending.seq_range[2] \in Int
            /\ pending.seq_range[1] <= pending.seq_range[2]
        BY <1>2, <1>4, <2>2, <3>3 DEF BufferInv, Continuous, SeqRange, first
      <4>2. /\ Len(pending.events) = pending.seq_range[2] - pending.seq_range[1] + 1
            /\ \A i \in DOMAIN pending.events :
                  /\ pending.events[i].epoch = continuity.epoch
                  /\ pending.events[i].seq = pending.seq_range[1] + i - 1
                  /\ pending.events[i].snapshot <=> (pending.snapshot /\ i = 1)
        BY <3>3 DEF BatchExact
      <4>3. /\ Len(pending'.events) = Len(pending.events) + 1
            /\ DOMAIN pending'.events = 1..(Len(pending.events) + 1)
            /\ DOMAIN pending.events = 1..Len(pending.events)
            /\ Len(pending.events) \in Nat
            /\ \A i \in 1..Len(pending.events) : pending'.events[i] = pending.events[i]
            /\ pending'.events[Len(pending.events) + 1] = m
        BY <1>1, <2>2, <3>1
      <4>4. ASSUME NEW i \in DOMAIN pending'.events
            PROVE  /\ pending'.events[i].epoch = continuity'.epoch
                   /\ pending'.events[i].seq = pending'.seq_range[1] + i - 1
                   /\ pending'.events[i].snapshot <=> (pending'.snapshot /\ i = 1)
        <5>1. CASE i \in DOMAIN pending.events
          BY <3>1, <4>1, <4>2, <4>3, <5>1
        <5>2. CASE i = Len(pending.events) + 1
          <6>1. pending'.events[i] = m /\ i # 1
            BY <4>1, <4>2, <4>3, <5>2
          <6>2. m.seq = first + i - 1
            BY <4>1, <4>2, <5>2
          <6> QED
            BY <1>4, <3>1, <6>1, <6>2
        <5> QED
          BY <4>3, <4>4, <5>1, <5>2
      <4> QED
        <5>1. Len(pending'.events) = pending'.seq_range[2] - pending'.seq_range[1] + 1
          BY <2>3, <3>1, <4>1, <4>2, <4>3
        <5> QED
          BY <4>4, <5>1 DEF BatchExact
    <3> QED
      BY <3>2, <3>3
  <2> QED
    BY <2>4, <2>5, <2>6, <2>7, <2>8
<1> QED
  BY <1>3, <1>4

LEMMA FlushStep ==
  ASSUME RelayInv, FlushSuspended \/ FlushNothing \/ FlushPosts
  PROVE  RelayInv'
<1> USE DEF RelayInv
<1>1. /\ UNCHANGED <<engine, sub, plane, late, continuity, flush_every, cancelled>>
      /\ clock' = [flush |-> 0, recv |-> 0]
      /\ pc = "select" /\ pc' \in {"select", "posting"}
  BY DEF FlushSuspended, FlushNothing, FlushPosts, FlushDue, Ticked, world, config
<1>2. CASE FlushSuspended
  <2>1. pending' = NoEvents /\ edge' = [edge EXCEPT !.needs_snapshot = TRUE] /\ pc' = "select"
    BY <1>1, <1>2 DEF FlushSuspended
  <2>2. TypeOK'
    BY <1>1, <2>1, Initials DEF TypeOK, EdgeState
  <2> QED
    BY <1>1, <2>1, <2>2 DEF TypeOK, BufferInv, BatchExact, BaselineInv, TimerInv, NoEvents
<1>3. CASE FlushNothing \/ FlushPosts
  <2>1. /\ UNCHANGED <<pending, edge>>
        /\ pc' = "posting" => pending.seq_range # <<>> /\ ~Withheld
    BY <1>1, <1>3 DEF FlushNothing, FlushPosts
  <2>2. TypeOK'
    BY <1>1, <2>1, Initials DEF TypeOK
  <2> QED
    BY <1>1, <2>1, <2>2 DEF BufferInv, BatchExact, BaselineInv, TimerInv, Withheld
<1> QED
  BY <1>2, <1>3

\* A batch the plane does not accept is a delta, and it was not withheld.
LEMMA PostStep ==
  ASSUME RelayInv, PostAnswered \/ PostUnread \/ PostNotFound \/ PostFails
  PROVE  RelayInv'
<1> USE DEF RelayInv
<1>1. pc = "posting" /\ UNCHANGED <<engine, flush_every, cancelled>>
  BY DEF PostAnswered, PostUnread, PostNotFound, PostFails, world, config
<1>2. /\ Batch \in RelayBatch
      /\ Indexed(Batch) \in Planes
  <2>1. pending.seq_range \in (0..MaxSeq) \X (0..MaxSeq) /\ continuity.epoch \in 1..MaxEpoch
    BY <1>1 DEF TypeOK, BaselineInv, BufferInv, Pending, Continuity, SeqRange
  <2>2. Batch \in RelayBatch
    BY <2>1 DEF TypeOK, Pending, Batch, RelayBatch
  <2> QED
    BY <2>2 DEF TypeOK, Indexed, RelayBatch, Planes
<1>3. plane.based => Indexed(Batch).based
  BY DEF Indexed
<1>4. ~Accepts(Batch) => plane.based
  BY <1>1 DEF Accepts, Batch, BaselineInv, Withheld
<1>5. Accepts(Batch) => Indexed(Batch).based
  BY DEF Indexed
<1>6. ASSUME Reselect, pending' = NoEvents,
             plane' \in {plane, Indexed(Batch)}, late' \in {late, {Batch}},
             edge' \in EdgeState,
             ~edge'.needs_snapshot => plane'.based
      PROVE  RelayInv'
  <2>1. /\ clock' \in Clocks(flush_every) /\ clock'.recv = 0
        /\ clock'.flush = clock.flush /\ clock.flush \in Nat
    BY <1>6, BoundsAssumption DEF TypeOK, Reselect, Clocks
  <2>2. TypeOK'
    BY <1>1, <1>2, <1>6, <2>1, Initials DEF TypeOK, Reselect
  <2> QED
    BY <1>6, <2>1, <2>2 DEF Reselect, BufferInv, BatchExact, BaselineInv, TimerInv, NoEvents
<1>7. CASE PostAnswered
  <2>1. /\ edge' \in EdgeState
        /\ edge'.needs_snapshot = ~Accepts(Batch)
        /\ plane' = Indexed(Batch) /\ UNCHANGED late
    BY <1>7 DEF PostAnswered, TypeOK, EdgeState, Accepts
  <2>2. CASE Accepts(Batch)
    BY <1>5, <1>6, <1>7, <2>1, <2>2 DEF PostAnswered
  <2>3. CASE ~Accepts(Batch)
    BY <1>1, <1>2, <1>7, <2>1, <2>3, Rejoined DEF PostAnswered
  <2> QED
    BY <2>2, <2>3
<1>8. CASE PostUnread
  <2>1. /\ edge' \in EdgeState
        /\ plane' = Indexed(Batch) /\ UNCHANGED late
        /\ Reselect /\ pending' = NoEvents
    BY <1>8 DEF PostUnread, TypeOK, EdgeState
  <2>2. Indexed(Batch).based
    BY <1>3, <1>4, <1>5
  <2> QED
    BY <1>6, <2>1, <2>2
<1>9. CASE PostNotFound
  <2>1. [needs_snapshot |-> TRUE, suspended |-> TRUE] \in EdgeState
    BY DEF EdgeState
  <2> QED
    BY <1>6, <1>9, <2>1 DEF PostNotFound, world
<1>10. CASE PostFails
  <2>1. /\ UNCHANGED edge /\ Reselect /\ pending' = NoEvents
        /\ plane' \in {plane, Indexed(Batch)} /\ late' \in {late, {Batch}}
    BY <1>10 DEF PostFails
  <2>2. ~edge'.needs_snapshot => plane'.based
    BY <1>3, <2>1 DEF BaselineInv
  <2>3. edge' \in EdgeState
    BY <2>1 DEF TypeOK
  <2> QED
    BY <1>6, <2>1, <2>2, <2>3
<1> QED
  BY <1>7, <1>8, <1>9, <1>10

LEMMA RelayStep == RelayInv /\ [Next]_vars => RelayInv'
<1> SUFFICES ASSUME RelayInv, [Next]_vars PROVE RelayInv'
  OBVIOUS
<1>1. CASE UNCHANGED vars
  BY <1>1 DEF RelayInv, TypeOK, BufferInv, BatchExact, BaselineInv, TimerInv, Withheld, vars
<1>2. CASE Next
  BY <1>2, WorldStep, ClockStep, SessionStep, AdmitStep, FlushStep, PostStep
     DEF Next, Receive, Flush, Post
<1> QED
  BY <1>1, <1>2

\* Every batch the relay buffers or posts is the exact stretch of one epoch's
\* stream that its seq_range says (Continuity::admit and Pending).
THEOREM BatchesAreExact == Spec => []BatchExact
<1>1. RelayInv => BatchExact
  BY DEF RelayInv
<1> QED
  BY <1>1, RelayInit, RelayStep, PTL DEF Spec

\* Deltas go only to a plane that has indexed a snapshot (EdgeState).
THEOREM BaselineComesFirst == Spec => []BaselineFirst
<1>1. RelayInv => BaselineFirst
  BY DEF RelayInv, BaselineInv, BaselineFirst, Withheld
<1> QED
  BY <1>1, RelayInit, RelayStep, PTL DEF Spec

\* With a flush interval below RECV_TIMEOUT the relay's receive timeout cannot
\* fire (the select! loop of relay_model).
THEOREM TimeoutNeverFires == Spec => []FlushStarvesTimeout
<1>1. RelayInv => FlushStarvesTimeout
  BY BoundsAssumption DEF RelayInv, TimerInv, FlushStarvesTimeout, Silent, TypeOK, Clocks
<1> QED
  BY <1>1, RelayInit, RelayStep, PTL DEF Spec

\* Every variable of the relay keeps its type.
THEOREM TypeCorrect == Spec => []TypeOK
<1>1. RelayInv => TypeOK
  BY DEF RelayInv
<1> QED
  BY <1>1, RelayInit, RelayStep, PTL DEF Spec
=============================================================================
