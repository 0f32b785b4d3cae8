------------------------------ MODULE Surfaces ------------------------------
(***************************************************************************)
(* The inference surfaces (src/handlers), the executor they share          *)
(* (src/serving/predict.rs), the check-in they make (src/state.rs) and     *)
(* their stream meter (src/serving/stats.rs), for the requests of one      *)
(* model.  A streamed answer crosses three actors: a pump on a blocking    *)
(* thread that owns the native stream, a bounded channel, and the response *)
(* body that the client polls.                                             *)
(*                                                                         *)
(* The surfaces that answer with one value (embeddings, images, chat and   *)
(* messages without stream) are "unary".  The native predictor and the     *)
(* client are external.  The registry's answer is Registry's and the       *)
(* buffered path Dispatcher's.                                             *)
(***************************************************************************)
EXTENDS Naturals, Sequences

CONSTANTS
    Requests,
    Capacity,    \* of a stream's channel (64)
    MaxItems,    \* bound: items a native stream produces
    Free         \* nobody holds the sequential guard

ASSUME CapacityAssumption == Capacity \in Nat \ {0}
ASSUME MaxItemsAssumption == MaxItems \in Nat
ASSUME FreeAssumption == Free \notin Requests

Chat == {"openai", "anthropic"}
Streamed == Chat \cup {"raw"}

\* What a native stream yields: an Ok item without or with content, or Err.
Item == {"envelope", "content", "error"}

VARIABLES
    sequential,  \* the model's plan has a mutex
    guard,       \* its holder
    next_checkin,\* runtime_checkins: "none" is an absent entry
    reqs,        \* where each handler is, its surface, its response status
    pump,        \* where each request's blocking thread is
    native,      \* what its native stream has yielded
    chan,        \* its channel, with the item committed on in front
    body,        \* the items its client has read, a frame each
    terminated,  \* a [DONE] frame followed them
    samples      \* telemetry samples recorded for it

vars == <<sequential, guard, next_checkin, reqs, pump, native, chan, body,
          terminated, samples>>

answer == <<pump, native, chan, body, terminated, samples>>

handler == <<sequential, next_checkin, reqs, body, terminated, samples>>

Receiving == {"first", "open"}
Over == {"idle", "done", "gone"}

Request == [pc : Over \cup {"checkin", "calling", "images", "admit", "running"} \cup Receiving,
            surface : Streamed \cup {"unary"},
            images : BOOLEAN,
            status : {"none", "ok", "error"}]

Init ==
    /\ sequential \in BOOLEAN
    /\ guard = Free
    /\ next_checkin = "none"
    /\ reqs = [r \in Requests |-> [pc |-> "idle", surface |-> "unary",
                                   images |-> FALSE, status |-> "none"]]
    /\ pump = [r \in Requests |-> "none"]
    /\ native = [r \in Requests |-> <<>>]
    /\ chan = [r \in Requests |-> <<>>]
    /\ body = [r \in Requests |-> <<>>]
    /\ terminated = [r \in Requests |-> FALSE]
    /\ samples = [r \in Requests |-> 0]

GoTo(r, pc) == reqs' = [reqs EXCEPT ![r].pc = pc]

Respond(r, pc, status) == reqs' = [reqs EXCEPT ![r].pc = pc, ![r].status = status]

-----------------------------------------------------------------------------
(* Before admission.                                                       *)

\* Draining, a malformed body, or ensure_ready's error.
Refuse(r) ==
    /\ reqs[r].pc = "idle"
    /\ Respond(r, "done", "error")
    /\ UNCHANGED <<sequential, guard, next_checkin, answer>>

\* The model is ready; chat bodies may name remote images.
Accept(r, s, images) ==
    /\ reqs[r].pc = "idle"
    /\ images => s # "raw"
    /\ reqs' = [reqs EXCEPT ![r] = [pc |-> "checkin", surface |-> s,
                                    images |-> images, status |-> "none"]]
    /\ UNCHANGED <<sequential, guard, next_checkin, answer>>

\* Where a handler goes once the check-in is done.
AfterCheckIn(r) == GoTo(r, IF reqs[r].images THEN "images" ELSE "admit")

\* check_in_if_due reads the schedule: not due, or no entry yet, which
\* mark_model_loaded then makes.
NotDue(r) ==
    /\ reqs[r].pc = "checkin" /\ next_checkin # "due"
    /\ next_checkin' = "later"
    /\ AfterCheckIn(r)
    /\ UNCHANGED <<sequential, guard, answer>>

\* Due, but the model has been unloaded meanwhile: the schedule stays.
NothingToCheckIn(r) ==
    /\ reqs[r].pc = "checkin" /\ next_checkin = "due"
    /\ AfterCheckIn(r)
    /\ UNCHANGED <<sequential, guard, next_checkin, answer>>

Due(r) ==
    /\ reqs[r].pc = "checkin" /\ next_checkin = "due"
    /\ GoTo(r, "calling")
    /\ UNCHANGED <<sequential, guard, next_checkin, answer>>

\* The call to the API succeeds or fails: the next one is scheduled.
CheckedIn(r) ==
    /\ reqs[r].pc = "calling"
    /\ next_checkin' = "later"
    /\ AfterCheckIn(r)
    /\ UNCHANGED <<sequential, guard, answer>>

TimePasses ==
    /\ next_checkin = "later"
    /\ next_checkin' = "due"
    /\ UNCHANGED <<sequential, guard, reqs, answer>>

\* inline_openai, inline_anthropic: every image, or an error.
Inlined(r) ==
    /\ reqs[r].pc = "images"
    /\ GoTo(r, "admit")
    /\ UNCHANGED <<sequential, guard, next_checkin, answer>>

ImageFails(r) ==
    /\ reqs[r].pc = "images"
    /\ Respond(r, "done", "error")
    /\ UNCHANGED <<sequential, guard, next_checkin, answer>>

\* The guard is acquired and rides with the native call.  A raw stream's
\* status is committed at once, a chat stream's by its first item.
Admit(r) ==
    /\ reqs[r].pc = "admit"
    /\ guard = Free
    /\ guard' = IF sequential THEN r ELSE Free
    /\ pump' = [pump EXCEPT ![r] = "opening"]
    /\ CASE reqs[r].surface = "unary" -> GoTo(r, "running")
         [] reqs[r].surface = "raw" -> Respond(r, "open", "ok")
         [] OTHER -> GoTo(r, "first")
    /\ UNCHANGED <<sequential, next_checkin, native, chan, body, terminated, samples>>

-----------------------------------------------------------------------------
(* The blocking thread.                                                    *)

\* The thread ends: the native stream is dropped, then the guard.
ThreadEnds(r, how) ==
    /\ pump' = [pump EXCEPT ![r] = how]
    /\ guard' = IF guard = r THEN Free ELSE guard

\* predict::run: the native call returns or panics; its handler answers if
\* its client is still there.
RunReturns(r, ok) ==
    /\ reqs[r].surface = "unary" /\ pump[r] = "opening"
    /\ ThreadEnds(r, "over")
    /\ IF reqs[r].pc = "running"
       THEN /\ Respond(r, "done", IF ok THEN "ok" ELSE "error")
            /\ samples' = [samples EXCEPT ![r] = @ + IF ok THEN 1 ELSE 0]
       ELSE UNCHANGED <<reqs, samples>>
    /\ UNCHANGED <<sequential, next_checkin, native, chan, body, terminated>>

\* predict::stream: the native stream opens ...
Opens(r) ==
    /\ reqs[r].surface \in Streamed /\ pump[r] = "opening"
    /\ pump' = [pump EXCEPT ![r] = "producing"]
    /\ UNCHANGED <<handler, guard, native, chan>>

\* ... or does not, and the error is the only item.
OpenFails(r) ==
    /\ reqs[r].surface \in Streamed /\ pump[r] = "opening"
    /\ pump' = [pump EXCEPT ![r] = "last"]
    /\ native' = [native EXCEPT ![r] = <<"error">>]
    /\ UNCHANGED <<handler, guard, chan>>

Yields(r, item) ==
    /\ pump[r] = "producing" /\ Len(native[r]) < MaxItems
    /\ pump' = [pump EXCEPT ![r] = "sending"]
    /\ native' = [native EXCEPT ![r] = Append(@, item)]
    /\ UNCHANGED <<handler, guard, chan>>

StreamEnds(r) ==
    /\ pump[r] = "producing"
    /\ ThreadEnds(r, "over")
    /\ UNCHANGED <<handler, native, chan>>

\* Native code panics: the thread unwinds, dropping sender and guard.
Panics(r) ==
    /\ reqs[r].surface \in Streamed /\ pump[r] \in {"opening", "producing"}
    /\ ThreadEnds(r, "panicked")
    /\ UNCHANGED <<handler, native, chan>>

\* The item the stream has just yielded.
newest(r) == native[r][Len(native[r])]

\* Mutant of Send: an item that finds the channel full is dropped.
SendDrops(r) ==
    /\ pump[r] \in {"sending", "last"} /\ reqs[r].pc \in Receiving
    /\ chan' = [chan EXCEPT ![r] = IF Len(@) < Capacity THEN Append(@, newest(r)) ELSE @]
    /\ IF pump[r] = "last" THEN ThreadEnds(r, "over")
       ELSE pump' = [pump EXCEPT ![r] = "producing"] /\ UNCHANGED guard
    /\ UNCHANGED <<handler, native>>

\* The item goes into the channel once there is room.
Send(r) ==
    /\ pump[r] \in {"sending", "last"} /\ reqs[r].pc \in Receiving
    /\ Len(chan[r]) < Capacity
    /\ chan' = [chan EXCEPT ![r] = Append(@, newest(r))]
    /\ IF pump[r] = "last" THEN ThreadEnds(r, "over")
       ELSE pump' = [pump EXCEPT ![r] = "producing"] /\ UNCHANGED guard
    /\ UNCHANGED <<handler, native>>

\* Mutant of SendFails: the pump waits for a receiver that is gone.
SendFailsNever(r) == FALSE /\ UNCHANGED vars

\* The receiver is gone: the pump stops.
SendFails(r) ==
    /\ pump[r] \in {"sending", "last"} /\ reqs[r].pc \notin Receiving
    /\ ThreadEnds(r, "over")
    /\ UNCHANGED <<handler, native, chan>>

-----------------------------------------------------------------------------
(* The handler of a stream, its body and the client.                       *)

\* Closed: every sender is dropped and the channel is drained.
Closed(r) == chan[r] = <<>> /\ pump[r] \in {"over", "panicked"}

\* Mutant of Commit: the status is committed before the first item.
CommitBlindly(r) ==
    /\ reqs[r].pc = "first"
    /\ Respond(r, "open", "ok")
    /\ UNCHANGED <<sequential, guard, next_checkin, answer>>

\* The first item is Ok: the status is 200 and the item stays in front.
Commit(r) ==
    /\ reqs[r].pc = "first"
    /\ chan[r] # <<>> /\ Head(chan[r]) # "error"
    /\ Respond(r, "open", "ok")
    /\ UNCHANGED <<sequential, guard, next_checkin, answer>>

\* The first item is Err, or there is none.
FailFirst(r) ==
    /\ reqs[r].pc = "first"
    /\ Closed(r) \/ (chan[r] # <<>> /\ Head(chan[r]) = "error")
    /\ Respond(r, "done", "error")
    /\ chan' = [chan EXCEPT ![r] = <<>>]
    /\ UNCHANGED <<sequential, guard, next_checkin, pump, native, body, terminated, samples>>

\* The client reads a frame; an Err is a frame of its own, in-band.
Frame(r) ==
    /\ reqs[r].pc = "open" /\ chan[r] # <<>>
    /\ body' = [body EXCEPT ![r] = Append(@, Head(chan[r]))]
    /\ chan' = [chan EXCEPT ![r] = Tail(@)]
    /\ UNCHANGED <<sequential, guard, next_checkin, reqs, pump, native, terminated, samples>>

\* The frames that StreamMeter takes for content: a raw frame is opaque.
HasContent(r) ==
    \E i \in 1..Len(body[r]) :
        body[r][i] = "content" \/ (reqs[r].surface = "raw" /\ body[r][i] = "envelope")

\* Mutant of DropMeter: a stream without content is recorded too.
DropMeterAlways(r) == samples' = [samples EXCEPT ![r] = @ + 1]

\* StreamMeter::drop.
DropMeter(r) ==
    samples' = [samples EXCEPT ![r] = @ + IF HasContent(r) THEN 1 ELSE 0]

\* The channel is closed: OpenAI's body ends with [DONE].
EndBody(r) ==
    /\ reqs[r].pc = "open" /\ Closed(r)
    /\ terminated' = [terminated EXCEPT ![r] = reqs[r].surface = "openai"]
    /\ DropMeter(r)
    /\ GoTo(r, "done")
    /\ UNCHANGED <<sequential, guard, next_checkin, pump, native, chan, body>>

\* The client disconnects: the handler or the body is dropped.
Leave(r) ==
    /\ reqs[r].pc \notin Over
    /\ GoTo(r, "gone")
    /\ chan' = [chan EXCEPT ![r] = <<>>]
    /\ IF reqs[r].pc = "open" THEN DropMeter(r) ELSE UNCHANGED samples
    /\ UNCHANGED <<sequential, guard, next_checkin, pump, native, body, terminated>>

-----------------------------------------------------------------------------

Prepare(r) ==
    NotDue(r) \/ NothingToCheckIn(r) \/ Due(r) \/ CheckedIn(r) \/ Inlined(r) \/ ImageFails(r) \/ Admit(r)

Pump(r) ==
    \/ \E ok \in BOOLEAN : RunReturns(r, ok)
    \/ Opens(r) \/ OpenFails(r) \/ StreamEnds(r) \/ Panics(r)
    \/ \E item \in Item : Yields(r, item)
    \/ Send(r) \/ SendFails(r)

Read(r) == Commit(r) \/ FailFirst(r) \/ Frame(r) \/ EndBody(r)

Next ==
    \/ TimePasses
    \/ \E r \in Requests :
          \/ Refuse(r)
          \/ \E s \in Streamed \cup {"unary"}, images \in BOOLEAN : Accept(r, s, images)
          \/ Prepare(r) \/ Pump(r) \/ Read(r) \/ Leave(r)

Spec == Init /\ [][Next]_vars

\* The runtime polls every task, API calls and fetches time out, native
\* streams go on or end, clients read or leave, and the mutex is fair.
Fairness ==
    \A r \in Requests :
        /\ WF_vars(Prepare(r)) /\ SF_vars(Admit(r))
        /\ WF_vars(Pump(r)) /\ WF_vars(Read(r))

-----------------------------------------------------------------------------

TypeOK ==
    /\ sequential \in BOOLEAN
    /\ guard \in Requests \cup {Free}
    /\ next_checkin \in {"none", "later", "due"}
    /\ reqs \in [Requests -> Request]
    /\ pump \in [Requests -> {"none", "opening", "producing", "sending", "last", "over", "panicked"}]
    /\ native \in [Requests -> Seq(Item)]
    /\ chan \in [Requests -> Seq(Item)]
    /\ body \in [Requests -> Seq(Item)]
    /\ terminated \in [Requests -> BOOLEAN]
    /\ samples \in [Requests -> Nat]

\* What the pump has in hand.
InHand(r) == IF pump[r] \in {"sending", "last"} THEN <<newest(r)>> ELSE <<>>

\* Between the native stream and the client nothing is lost, repeated or
\* reordered: what the client has read, what is in the channel and what the
\* pump has in hand are together what the native stream yielded; and [DONE]
\* comes once everything has been read (predict.rs:77-104,
\* completions.rs:82-106).
Faithful ==
    \A r \in Requests :
        /\ reqs[r].pc \in Receiving =>
              body[r] \o chan[r] \o InHand(r) = native[r]
        /\ body[r] = SubSeq(native[r], 1, Len(body[r]))
        /\ terminated[r] => body[r] = native[r]

\* A chat stream with status 200 starts with an Ok item, and an error status
\* never follows a frame: failures before the first output are statuses
\* (completions.rs:70-81, messages.rs:64-76).
CommittedByFirst ==
    \A r \in Requests :
        /\ reqs[r].surface \in Chat /\ reqs[r].status = "ok" =>
              native[r] # <<>> /\ Head(native[r]) # "error"
        /\ reqs[r].status = "error" => body[r] = <<>>

\* A finished or abandoned stream has recorded one sample if its client read
\* content and none otherwise, so failure timings never enter the percentiles
\* (stats.rs:255-259).
SampledOnce ==
    \A r \in Requests :
        reqs[r].surface \in Streamed =>
            samples[r] = IF reqs[r].pc \in Over /\ HasContent(r) THEN 1 ELSE 0

\* Whatever hangs before admission or leaves after it, a request that waits
\* for the guard is admitted, and the guard comes back.
Admitted ==
    \A r \in Requests : (reqs[r].pc = "admit") ~> (reqs[r].pc # "admit")
=============================================================================
