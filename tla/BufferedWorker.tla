--------------------------- MODULE BufferedWorker ---------------------------
(***************************************************************************)
(* The accumulator of one Buffered entry (src/serving/dispatch/worker.rs)  *)
(* and the callers that feed it (the Queued route of Dispatcher::create).  *)
(*                                                                         *)
(* Time is the order in which requests were stamped (PredictItem::enqueued)*)
(* and how many of them are past FLUSH_DEADLINE: deadlines are stamps plus *)
(* a constant, so they pass in stamp order and compare like stamps.        *)
(***************************************************************************)
EXTENDS Integers, Sequences, FiniteSets, SequencesExt

CONSTANTS
    Callers,    \* requests; each dispatches one item
    Keys,       \* batch keys
    MaxCount,   \* bound on an item's item_count
    Capacity,   \* BatchPlan::Buffered capacity
    ChanCap     \* CHANNEL_BUFFER

ASSUME SizeAssumption ==
    MaxCount \in Nat \ {0} /\ Capacity \in Nat /\ ChanCap \in Nat \ {0}

\* Only so many requests are ever being dispatched.
ASSUME CallersAssumption == IsFiniteSet(Callers)

VARIABLES
    callers,    \* where each caller is
    item,       \* its PredictItem: batch key and item count
    stamps,     \* callers in the order of their enqueued instants
    elapsed,    \* how many stamps are past FLUSH_DEADLINE
    chan,       \* the bounded channel
    open,       \* the dispatcher's entry still holds its sender
    queues,     \* KeyQueue::items per key; <<>> is an absent queue
    totals,     \* KeyQueue::total_items
    batch,      \* the batch being flushed
    pc,         \* the worker task
    depth       \* ModelStats::queue_depth

vars == <<callers, item, stamps, elapsed, chan, open, queues, totals, batch, pc, depth>>

CallerPC ==
    {"idle", "sending", "blocked", "waiting", "answered", "failed", "dropped",
     "refused", "gone"}

TypeOK ==
    /\ callers \in [Callers -> CallerPC]
    /\ item \in [Callers -> [key : Keys, count : 1..MaxCount]]
    /\ stamps \in Seq(Callers)
    /\ elapsed \in 0..Len(stamps)
    /\ chan \in Seq(Callers) /\ Len(chan) <= ChanCap
    /\ open \in BOOLEAN
    /\ queues \in [Keys -> Seq(Callers)]
    /\ totals \in [Keys -> Nat]
    /\ batch \in Seq(Callers)
    /\ pc \in {"drain", "take", "wait", "invoke", "exited"}
    /\ depth \in Nat

Init ==
    /\ callers = [c \in Callers |-> "idle"]
    /\ item \in [Callers -> [key : Keys, count : 1..MaxCount]]
    /\ stamps = <<>>
    /\ elapsed = 0
    /\ chan = <<>>
    /\ open = TRUE
    /\ queues = [k \in Keys |-> <<>>]
    /\ totals = [k \in Keys |-> 0]
    /\ batch = <<>>
    /\ pc = "drain"
    /\ depth = 0

-----------------------------------------------------------------------------
(* Callers.                                                                *)

\* Mutant of SenderAlive: callers do not keep the queue open.
EntrySenderOnly == open

\* A caller keeps its clone of the sender until it has its response.
SenderAlive == open \/ \E c \in Callers : callers[c] \in {"sending", "blocked", "waiting"}

\* create: clone the sender, stamp the item, count it.
Enqueue(c) ==
    /\ callers[c] = "idle"
    /\ open
    /\ callers' = [callers EXCEPT ![c] = "sending"]
    /\ stamps' = Append(stamps, c)
    /\ depth' = depth + 1
    /\ UNCHANGED <<item, elapsed, chan, open, queues, totals, batch, pc>>

\* tx.send finds the channel full, and the caller is suspended.
Block(c) ==
    /\ callers[c] = "sending"
    /\ pc # "exited" /\ Len(chan) = ChanCap
    /\ callers' = [callers EXCEPT ![c] = "blocked"]
    /\ UNCHANGED <<item, stamps, elapsed, chan, open, queues, totals, batch, pc, depth>>

\* tx.send resolves: there is room, or the receiver is gone.
Send(c) ==
    /\ callers[c] \in {"sending", "blocked"}
    /\ pc = "exited" \/ Len(chan) < ChanCap
    /\ callers' = [callers EXCEPT ![c] = IF pc = "exited" THEN "refused" ELSE "waiting"]
    /\ chan' = IF pc = "exited" THEN chan ELSE Append(chan, c)
    /\ UNCHANGED <<item, stamps, elapsed, open, queues, totals, batch, pc, depth>>

\* The client leaves while its caller is suspended at either await; an unsent
\* item is dropped with it.
Disconnect(c) ==
    /\ callers[c] \in {"blocked", "waiting"}
    /\ callers' = [callers EXCEPT ![c] = "gone"]
    /\ UNCHANGED <<item, stamps, elapsed, chan, open, queues, totals, batch, pc, depth>>

\* Dispatcher::remove drops the entry's sender.
RemoveEntry ==
    /\ open
    /\ open' = FALSE
    /\ UNCHANGED <<callers, item, stamps, elapsed, chan, queues, totals, batch, pc, depth>>

\* FLUSH_DEADLINE passes for the next stamp.
TimePasses ==
    /\ elapsed < Len(stamps)
    /\ elapsed' = elapsed + 1
    /\ UNCHANGED <<callers, item, stamps, chan, open, queues, totals, batch, pc, depth>>

-----------------------------------------------------------------------------
(* The worker.                                                             *)

\* An item's deadline, and a queue's: its front's.
Stamp(c) == CHOOSE i \in DOMAIN stamps : stamps[i] = c
deadline(k) == Stamp(Head(queues[k]))

OpenKeys == {k \in Keys : queues[k] # <<>>}

Count(s) == SumFunction([i \in DOMAIN s |-> item[s[i]].count])

\* Receive the head of the channel and file it under its key.
file_item ==
    LET c == Head(chan)
        k == item[c].key
    IN  /\ chan' = Tail(chan)
        /\ depth' = depth - 1
        /\ queues' = [queues EXCEPT ![k] = Append(queues[k], c)]
        /\ totals' = [totals EXCEPT ![k] = totals[k] + item[c].count]

\* try_recv until the channel is empty.
Drain ==
    /\ pc = "drain"
    /\ chan # <<>>
    /\ file_item
    /\ UNCHANGED <<callers, item, stamps, elapsed, open, batch, pc>>

DrainDone ==
    /\ pc = "drain"
    /\ chan = <<>>
    /\ pc' = "take"
    /\ UNCHANGED <<callers, item, stamps, elapsed, chan, open, queues, totals, batch, depth>>

\* Mutant of BatchLen: go on while the batch is below capacity, whatever the
\* next item's count.
BatchLenOvershoots(q) ==
    CHOOSE n \in 1..Len(q) :
        /\ \A i \in 1..(n - 1) : Count(SubSeq(q, 1, i)) < Capacity
        /\ n = Len(q) \/ Count(SubSeq(q, 1, n)) >= Capacity

\* Length of the prefix take_batch pops: it takes the first item, then goes on
\* while the total is below capacity and the next one fits.
BatchLen(q) ==
    CHOOSE n \in 1..Len(q) :
        /\ \A i \in 1..(n - 1) : Count(SubSeq(q, 1, i)) < Capacity
        /\ \A i \in 2..n : Count(SubSeq(q, 1, i)) <= Capacity
        /\ \/ n = Len(q)
           \/ Count(SubSeq(q, 1, n)) >= Capacity
           \/ Count(SubSeq(q, 1, n + 1)) > Capacity

\* Mutant of take_batch: the item that does not fit is popped and lost.
TakeLosesNext(k) ==
    LET n == BatchLen(queues[k])
        b == SubSeq(queues[k], 1, n)
    IN  /\ batch' = b
        /\ queues' = [queues EXCEPT ![k] = SubSeq(queues[k], n + 2, Len(queues[k]))]
        /\ totals' = [totals EXCEPT ![k] = totals[k] - Count(b)]

take_batch(k) ==
    LET n == BatchLen(queues[k])
        b == SubSeq(queues[k], 1, n)
    IN  /\ batch' = b
        /\ queues' = [queues EXCEPT ![k] = SubSeq(queues[k], n + 1, Len(queues[k]))]
        /\ totals' = [totals EXCEPT ![k] = totals[k] - Count(b)]

Flushable(k) == totals[k] >= Capacity \/ deadline(k) <= elapsed

\* take_flushable: of the keys full or due, the one with the earliest deadline.
TakeFlushable ==
    /\ pc = "take"
    /\ \E k \in OpenKeys :
          /\ Flushable(k)
          /\ \A j \in OpenKeys : Flushable(j) => deadline(k) <= deadline(j)
          /\ take_batch(k)
    /\ pc' = "invoke"
    /\ UNCHANGED <<callers, item, stamps, elapsed, chan, open, depth>>

NothingFlushable ==
    /\ pc = "take"
    /\ \A k \in OpenKeys : ~Flushable(k)
    /\ pc' = "wait"
    /\ UNCHANGED <<callers, item, stamps, elapsed, chan, open, queues, totals, batch, depth>>

\* An item arrives first; recv is polled before the timer.
WaitReceives ==
    /\ pc = "wait"
    /\ chan # <<>>
    /\ file_item
    /\ pc' = "drain"
    /\ UNCHANGED <<callers, item, stamps, elapsed, open, batch>>

\* Mutant of WaitExpires: the wait has no deadline.
WaitForever == WaitReceives

\* The earliest open deadline passes first.
WaitExpires ==
    /\ pc = "wait"
    /\ chan = <<>>
    /\ \E k \in OpenKeys : deadline(k) <= elapsed
    /\ pc' = "drain"
    /\ UNCHANGED <<callers, item, stamps, elapsed, chan, open, queues, totals, batch, depth>>

\* Every sender is gone: the task ends and drops what it still queues.
WaitClosed ==
    /\ pc = "wait"
    /\ chan = <<>>
    /\ ~SenderAlive
    /\ pc' = "exited"
    /\ callers' = [c \in Callers |->
                      IF callers[c] = "waiting" /\ \E k \in Keys : Contains(queues[k], c)
                      THEN "dropped" ELSE callers[c]]
    /\ queues' = [k \in Keys |-> <<>>]
    /\ totals' = [k \in Keys |-> 0]
    /\ UNCHANGED <<item, stamps, elapsed, chan, open, batch, depth>>

\* The invocation returns; every caller still there gets its slice or the error.
Flush ==
    /\ pc = "invoke"
    /\ \E res \in {"answered", "failed"} :
          callers' = [c \in Callers |->
                         IF callers[c] = "waiting" /\ Contains(batch, c)
                         THEN res ELSE callers[c]]
    /\ batch' = <<>>
    /\ pc' = "drain"
    /\ UNCHANGED <<item, stamps, elapsed, chan, open, queues, totals, depth>>

Worker ==
    \/ Drain \/ DrainDone \/ TakeFlushable \/ NothingFlushable
    \/ WaitReceives \/ WaitExpires \/ WaitClosed \/ Flush

Next ==
    \/ \E c \in Callers : Enqueue(c) \/ Block(c) \/ Send(c) \/ Disconnect(c)
    \/ RemoveEntry
    \/ TimePasses
    \/ Worker

Spec == Init /\ [][Next]_vars

\* The task and its callers are polled, invocations return, and time passes.
Fairness ==
    /\ WF_vars(Worker)
    /\ WF_vars(TimePasses)
    /\ \A c \in Callers : WF_vars(Send(c))

-----------------------------------------------------------------------------
(* Properties.                                                             *)

Occurrences(c, s) == Cardinality({i \in DOMAIN s : s[i] = c})

\* A caller that was not answered has its item in exactly one place: the
\* channel, the queue of its own key, or the running batch.  Nothing is lost
\* or served twice when a batch takes only a prefix of a queue.
Conserved ==
    \A c \in Callers : callers[c] = "waiting" =>
        Occurrences(c, chan) + Occurrences(c, queues[item[c].key])
            + Occurrences(c, batch) = 1

\* total_items is the sum of the queued item counts, so it never underflows and
\* a queue never looks full, or short, when it is not.
TotalsExact == \A k \in Keys : totals[k] = Count(queues[k])

\* queue_depth counts every item in the channel and every one being sent, as it
\* is incremented before the send: the worker's decrement never underflows.
\* (A caller that leaves while it is blocked in the send stays counted.)
DepthCovers ==
    depth >= Len(chan) + Cardinality({c \in Callers : callers[c] \in {"sending", "blocked"}})

\* The accumulator's books agree with each other and with its callers.
Accounted == TypeOK /\ Conserved /\ TotalsExact /\ DepthCovers

\* A batch holds one key's items and fits the capacity, unless it is a single
\* oversized request.
BatchSound ==
    /\ Len(batch) <= 1 \/ Count(batch) <= Capacity
    /\ \A i, j \in DOMAIN batch : item[batch[i]].key = item[batch[j]].key

\* A live caller is never told "prediction task dropped" or "model dispatch
\* queue closed": removing the entry lets the accumulator finish its callers.
NeverDropped == \A c \in Callers : callers[c] \notin {"dropped", "refused"}

\* Every caller that dispatched gets a response or leaves; partial batches are
\* flushed by their deadline even if nothing else ever arrives.
Answered ==
    \A c \in Callers :
        callers[c] = "sending" ~> callers[c] \in {"answered", "failed", "gone"}
=============================================================================
