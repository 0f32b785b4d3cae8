--------------------------- MODULE SurfacesProofs ---------------------------
(***************************************************************************)
(* The streamed answer, for any requests, channel capacity and length of   *)
(* the native stream.                                                      *)
(*                                                                         *)
(* Faithful is not inductive: it says nothing of an item once the client   *)
(* has left, nor of what the pump may hold before it has yielded.  Row     *)
(* adds where each of the three actors can be, and states the prefix       *)
(* position by position.  A row is one request's; no action but the        *)
(* guard's touches two.                                                    *)
(***************************************************************************)
EXTENDS Surfaces, SequenceTheorems, TLAPS

Unadmitted == {"idle", "checkin", "calling", "images", "admit"}

\* A request that has not been admitted has no pump, status or sample.
Early(r) ==
    reqs[r].pc \in Unadmitted =>
        pump[r] = "none" /\ reqs[r].status = "none" /\ samples[r] = 0

\* Until the native stream opens there is nothing anywhere; a pump that
\* sends has yielded; one value is not streamed.
PumpPlace(r) ==
    /\ pump[r] \in {"none", "opening"} =>
          native[r] = <<>> /\ chan[r] = <<>> /\ body[r] = <<>>
    /\ pump[r] \in {"sending", "last"} => native[r] # <<>>
    /\ reqs[r].surface = "unary" =>
          /\ pump[r] \in {"none", "opening", "over"} /\ reqs[r].pc \notin Receiving
          /\ native[r] = <<>> /\ chan[r] = <<>> /\ body[r] = <<>>
    /\ reqs[r].pc = "running" => reqs[r].surface = "unary"

\* While the client listens the three places hold the whole stream.
Whole(r) ==
    reqs[r].pc \in Receiving => (body[r] \o chan[r]) \o InHand(r) = native[r]

\* The client has read a prefix of the stream.
Prefix(r) ==
    /\ Len(body[r]) <= Len(native[r])
    /\ \A i \in 1..Len(body[r]) : body[r][i] = native[r][i]

Terminated(r) ==
    terminated[r] => /\ reqs[r].pc = "done" /\ pump[r] \in {"over", "panicked"}
                     /\ body[r] = native[r]

\* The status: an error ends the request before its body, a chat stream's
\* 200 follows an Ok item.
Status(r) ==
    /\ reqs[r].status = "error" => reqs[r].pc = "done" /\ body[r] = <<>>
    /\ reqs[r].pc = "first" => body[r] = <<>>
    /\ reqs[r].surface \in Chat /\ reqs[r].status = "ok" =>
          native[r] # <<>> /\ native[r][1] # "error"

Sampled(r) ==
    reqs[r].surface \in Streamed =>
        samples[r] = IF reqs[r].pc \in Over /\ HasContent(r) THEN 1 ELSE 0

Row(r) ==
    /\ Early(r) /\ PumpPlace(r) /\ Whole(r) /\ Prefix(r)
    /\ Terminated(r) /\ Status(r) /\ Sampled(r)

IInv == TypeOK /\ \A r \in Requests : Row(r)

\* The action leaves r's row alone.
Same(r) ==
    /\ reqs'[r] = reqs[r] /\ pump'[r] = pump[r] /\ native'[r] = native[r]
    /\ chan'[r] = chan[r] /\ body'[r] = body[r]
    /\ terminated'[r] = terminated[r] /\ samples'[r] = samples[r]

\* The request is not admitted, or refused, and nothing else of it changes.
StaysOut(r) ==
    /\ reqs[r].pc \in Unadmitted
    /\ \/ reqs'[r].pc \in Unadmitted /\ reqs'[r].status = "none"
       \/ reqs'[r].pc = "done" /\ reqs'[r].status = "error"
    /\ pump'[r] = pump[r] /\ native'[r] = native[r] /\ chan'[r] = chan[r]
    /\ body'[r] = body[r] /\ terminated'[r] = terminated[r]
    /\ samples'[r] = samples[r]

USE DEF Receiving, Over, Chat, Streamed, Unadmitted

-----------------------------------------------------------------------------
(* Sequences.                                                              *)

\* What leaves the sender's hand is at the end of the channel.
LEMMA SentIsQueued ==
    ASSUME NEW s \in Seq(Item), NEW t \in Seq(Item), NEW e \in Item
    PROVE  (s \o Append(t, e)) \o <<>> = (s \o t) \o <<e>>
<1>1. /\ (s \o Append(t, e)) \o <<>> \in Seq(Item)
      /\ (s \o t) \o <<e>> \in Seq(Item)
  OBVIOUS
<1>2. Len((s \o Append(t, e)) \o <<>>) = Len((s \o t) \o <<e>>)
  OBVIOUS
<1>3. ASSUME NEW i \in 1..Len((s \o t) \o <<e>>)
      PROVE  ((s \o Append(t, e)) \o <<>>)[i] = ((s \o t) \o <<e>>)[i]
  OBVIOUS
<1> QED
  BY <1>1, <1>2, <1>3, SeqEqual

\* What the client reads leaves the front of the channel.
LEMMA ReadLeavesTheChannel ==
    ASSUME NEW S, NEW s \in Seq(S), NEW t \in Seq(S), t # <<>>
    PROVE  Append(s, Head(t)) \o Tail(t) = s \o t
<1>1. Head(t) \in S /\ Tail(t) \in Seq(S) /\ Len(t) > 0 /\ Len(Tail(t)) = Len(t) - 1
  BY HeadTailProperties, EmptySeq
<1>2. \A i \in 1..Len(Tail(t)) : Tail(t)[i] = t[i + 1]
  BY HeadTailProperties
<1>3. Append(s, Head(t)) \in Seq(S) /\ Len(Append(s, Head(t))) = Len(s) + 1
  BY <1>1
<1>4. /\ Append(s, Head(t)) \o Tail(t) \in Seq(S) /\ s \o t \in Seq(S)
      /\ Len(Append(s, Head(t)) \o Tail(t)) = Len(s \o t)
  BY <1>1, <1>3
<1>5. ASSUME NEW i \in 1..Len(s \o t)
      PROVE  (Append(s, Head(t)) \o Tail(t))[i] = (s \o t)[i]
  BY <1>1, <1>2, <1>3, <1>5
<1> QED
  BY <1>4, <1>5, SeqEqual

\* The front of what a sequence is concatenated from is its prefix.
LEMMA FrontIsPrefix ==
    ASSUME NEW s \in Seq(Item), NEW t \in Seq(Item), NEW u \in Seq(Item)
    PROVE  /\ Len(s) <= Len((s \o t) \o u)
           /\ \A i \in 1..Len(s) : s[i] = ((s \o t) \o u)[i]
  OBVIOUS

LEMMA PrefixIsSubSeq ==
    ASSUME NEW S, NEW s \in Seq(S), NEW n \in Seq(S), Len(s) <= Len(n),
           \A i \in 1..Len(s) : s[i] = n[i]
    PROVE  s = SubSeq(n, 1, Len(s))
<1>1. /\ SubSeq(n, 1, Len(s)) \in Seq(S) /\ Len(SubSeq(n, 1, Len(s))) = Len(s)
      /\ \A i \in 1..Len(s) : SubSeq(n, 1, Len(s))[i] = n[i]
  BY SubSeqProperties
<1> QED
  BY <1>1, SeqEqual

-----------------------------------------------------------------------------
(* The type.                                                               *)

LEMMA TypeInit == Init => TypeOK
  BY DEF Init, TypeOK, Request

\* A handler that moves on, with or without a response, stays a request.
LEMMA MovesOn ==
    ASSUME reqs \in [Requests -> Request], NEW q \in Requests,
           NEW pc \in Over \cup {"checkin", "calling", "images", "admit", "running"} \cup Receiving
    PROVE  /\ GoTo(q, pc) => reqs' \in [Requests -> Request]
           /\ \A s \in {"none", "ok", "error"} : Respond(q, pc, s) => reqs' \in [Requests -> Request]
<1>1. reqs[q] \in Request
  OBVIOUS
<1>2. [reqs[q] EXCEPT !.pc = pc] \in Request
  BY <1>1 DEF Request
<1>3. \A s \in {"none", "ok", "error"} : [reqs[q] EXCEPT !.pc = pc, !.status = s] \in Request
  BY <1>1 DEF Request
<1>4. GoTo(q, pc) => reqs' \in [Requests -> Request]
  BY <1>2 DEF GoTo
<1>5. \A s \in {"none", "ok", "error"} : Respond(q, pc, s) => reqs' \in [Requests -> Request]
  BY <1>3 DEF Respond
<1> QED
  BY <1>4, <1>5

LEMMA TypeStep == IInv /\ [Next]_vars => TypeOK'
<1> SUFFICES ASSUME TypeOK, \A r \in Requests : Row(r), [Next]_vars PROVE TypeOK'
  BY DEF IInv
<1> USE DEF TypeOK
<1>1. CASE TimePasses
  BY <1>1 DEF TimePasses, answer
<1>2. ASSUME NEW q \in Requests, Refuse(q) PROVE TypeOK'
  BY <1>2, MovesOn DEF Refuse, answer, handler
<1>3. ASSUME NEW q \in Requests, NotDue(q) PROVE TypeOK'
  BY <1>3, MovesOn DEF NotDue, answer, handler, AfterCheckIn
<1>4. ASSUME NEW q \in Requests, NothingToCheckIn(q) PROVE TypeOK'
  BY <1>4, MovesOn DEF NothingToCheckIn, answer, handler, AfterCheckIn
<1>5. ASSUME NEW q \in Requests, Due(q) PROVE TypeOK'
  BY <1>5, MovesOn DEF Due, answer, handler
<1>6. ASSUME NEW q \in Requests, CheckedIn(q) PROVE TypeOK'
  BY <1>6, MovesOn DEF CheckedIn, answer, handler, AfterCheckIn
<1>7. ASSUME NEW q \in Requests, Inlined(q) PROVE TypeOK'
  BY <1>7, MovesOn DEF Inlined, answer, handler
<1>8. ASSUME NEW q \in Requests, ImageFails(q) PROVE TypeOK'
  BY <1>8, MovesOn DEF ImageFails, answer, handler
<1>9. ASSUME NEW q \in Requests, Admit(q) PROVE TypeOK'
  BY <1>9, MovesOn DEF Admit, answer, handler
<1>10. ASSUME NEW q \in Requests, Opens(q) PROVE TypeOK'
  BY <1>10 DEF Opens, answer, handler
<1>11. ASSUME NEW q \in Requests, OpenFails(q) PROVE TypeOK'
  BY <1>11 DEF OpenFails, answer, handler, Item
<1>12. ASSUME NEW q \in Requests, StreamEnds(q) PROVE TypeOK'
  BY <1>12 DEF StreamEnds, answer, handler, ThreadEnds
<1>13. ASSUME NEW q \in Requests, Panics(q) PROVE TypeOK'
  BY <1>13 DEF Panics, answer, handler, ThreadEnds
<1>14. ASSUME NEW q \in Requests, Send(q) PROVE TypeOK'
  <2>1. newest(q) \in Item
    BY <1>14, Len(native[q]) \in Nat \ {0} DEF Send, newest, Row, PumpPlace
  <2>2. guard' \in Requests \cup {Free} /\ pump' \in [Requests -> {"none", "opening", "producing", "sending", "last", "over", "panicked"}]
    BY <1>14 DEF Send, ThreadEnds
  <2>3. chan' \in [Requests -> Seq(Item)]
    BY <1>14, <2>1 DEF Send
  <2> QED
    BY <1>14, <2>2, <2>3 DEF Send, handler
<1>15. ASSUME NEW q \in Requests, SendFails(q) PROVE TypeOK'
  BY <1>15 DEF SendFails, answer, handler, ThreadEnds
<1>16. ASSUME NEW q \in Requests, Commit(q) PROVE TypeOK'
  BY <1>16, MovesOn DEF Commit, answer, handler
<1>17. ASSUME NEW q \in Requests, FailFirst(q) PROVE TypeOK'
  BY <1>17, MovesOn DEF FailFirst, answer, handler, Closed
<1>18. ASSUME NEW q \in Requests, Frame(q) PROVE TypeOK'
  BY <1>18 DEF Frame, answer, handler
<1>19. ASSUME NEW q \in Requests, EndBody(q) PROVE TypeOK'
  BY <1>19, MovesOn DEF EndBody, answer, handler, DropMeter, Closed
<1>20. ASSUME NEW q \in Requests, Leave(q) PROVE TypeOK'
  <2>1. samples' \in [Requests -> Nat]
    <3>1. DropMeter(q) => samples' \in [Requests -> Nat]
      BY DEF DropMeter
    <3> QED
      BY <1>20, <3>1 DEF Leave
  <2>2. reqs' \in [Requests -> Request]
    BY <1>20, MovesOn DEF Leave
  <2>3. chan' \in [Requests -> Seq(Item)]
    BY <1>20 DEF Leave
  <2> QED
    BY <1>20, <2>1, <2>2, <2>3 DEF Leave
<1>21. ASSUME NEW q \in Requests, NEW s \in Streamed \cup {"unary"}, NEW images \in BOOLEAN, Accept(q, s, images) PROVE TypeOK'
  BY <1>21 DEF Accept, answer, handler, Request
<1>22. ASSUME NEW q \in Requests, NEW ok \in BOOLEAN, RunReturns(q, ok) PROVE TypeOK'
  <2>1. pump' \in [Requests -> {"none", "opening", "producing", "sending", "last", "over", "panicked"}]
        /\ guard' \in Requests \cup {Free}
    BY <1>22 DEF RunReturns, ThreadEnds
  <2>2. samples' \in [Requests -> Nat]
    <3> DEFINE taken == IF ok THEN 1 ELSE 0
    <3>1. taken \in Nat
      OBVIOUS
    <3>2. samples' = samples \/ samples' = [samples EXCEPT ![q] = @ + taken]
      BY <1>22 DEF RunReturns
    <3>3. samples[q] + taken \in Nat
      <4>1. samples[q] \in Nat
        OBVIOUS
      <4> QED
        BY <3>1, <4>1
    <3> HIDE DEF taken
    <3> QED
      BY <3>2, <3>3
  <2>3. reqs' \in [Requests -> Request]
    BY <1>22, MovesOn DEF RunReturns
  <2> QED
    BY <1>22, <2>1, <2>2, <2>3 DEF RunReturns
<1>23. ASSUME NEW q \in Requests, NEW item \in Item, Yields(q, item) PROVE TypeOK'
  BY <1>23 DEF Yields, answer, handler
<1>24. CASE UNCHANGED vars
  BY <1>24 DEF vars, answer
<1> QED
  BY <1>1, <1>2, <1>3, <1>4, <1>5, <1>6, <1>7, <1>8, <1>9, <1>10, <1>11, <1>12,
     <1>13, <1>14, <1>15, <1>16, <1>17, <1>18, <1>19, <1>20, <1>21, <1>22,
     <1>23, <1>24 DEF Next, Prepare, Pump, Read

-----------------------------------------------------------------------------
(* The rows.                                                               *)

LEMMA RowInit == Init => \A r \in Requests : Row(r)
<1> SUFFICES ASSUME Init, NEW r \in Requests PROVE Row(r)
  OBVIOUS
<1> USE DEF Init
<1>1. Early(r) /\ PumpPlace(r) /\ Whole(r) /\ Terminated(r) /\ Status(r)
  BY DEF Early, PumpPlace, Whole, Terminated, Status
<1>2. Prefix(r)
  BY EmptySeq DEF Prefix
<1>3. ~HasContent(r)
  BY EmptySeq DEF HasContent
<1>4. Sampled(r)
  BY <1>3 DEF Sampled
<1> QED
  BY <1>1, <1>2, <1>4 DEF Row

LEMMA Framed ==
    ASSUME NEW r \in Requests, Row(r), Same(r)
    PROVE  Row(r)'
<1>1. Early(r)' /\ PumpPlace(r)' /\ Terminated(r)' /\ Status(r)'
  BY DEF Same, Row, Early, PumpPlace, Terminated, Status
<1>2. Whole(r)' /\ Prefix(r)'
  BY DEF Same, Row, Whole, Prefix, InHand, newest
<1>3. Sampled(r)'
  BY DEF Same, Row, Sampled, HasContent
<1> QED
  BY <1>1, <1>2, <1>3 DEF Row

\* Before admission nothing of the answer exists yet.
LEMMA NotAdmittedYet ==
    ASSUME NEW r \in Requests, Row(r), TypeOK,
           StaysOut(r)
    PROVE  Row(r)'
<1>1. /\ pump[r] = "none" /\ samples[r] = 0 /\ ~terminated[r]
      /\ native[r] = <<>> /\ chan[r] = <<>> /\ body[r] = <<>>
  BY DEF Row, Early, PumpPlace, Terminated, TypeOK, StaysOut
<1>2. Early(r)' /\ PumpPlace(r)'
  BY <1>1 DEF Early, PumpPlace, StaysOut
<1>3. Whole(r)' /\ Terminated(r)' /\ Status(r)'
  BY <1>1 DEF Whole, Terminated, Status, StaysOut
<1>4. Prefix(r)' /\ ~HasContent(r)'
  BY <1>1, EmptySeq DEF Prefix, HasContent, StaysOut
<1>5. Sampled(r)'
  BY <1>1, <1>4 DEF Sampled, StaysOut
<1> QED
  BY <1>2, <1>3, <1>4, <1>5 DEF Row

LEMMA RowStep == IInv /\ [Next]_vars => \A r \in Requests : Row(r)'
<1> SUFFICES ASSUME TypeOK, \A r \in Requests : Row(r), [Next]_vars
             PROVE  \A r \in Requests : Row(r)'
  BY DEF IInv
<1>1. CASE TimePasses
  BY <1>1, Framed DEF TimePasses, answer, Same
<1>2. ASSUME NEW q \in Requests, Refuse(q)
      PROVE  \A r \in Requests : Row(r)'
  <2>1. \A r \in Requests \ {q} : Same(r)
    BY <1>2 DEF Refuse, answer, handler, Respond, Same, TypeOK
  <2>2. StaysOut(q)
    BY <1>2 DEF Refuse, answer, handler, Respond, TypeOK, Request, Row, Early,
       StaysOut
  <2> QED
    BY <2>1, <2>2, Framed, NotAdmittedYet
<1>3. ASSUME NEW q \in Requests, NotDue(q)
      PROVE  \A r \in Requests : Row(r)'
  <2>1. \A r \in Requests \ {q} : Same(r)
    BY <1>3 DEF NotDue, answer, handler, AfterCheckIn, GoTo, Same, TypeOK
  <2>2. StaysOut(q)
    BY <1>3 DEF NotDue, answer, handler, AfterCheckIn, GoTo, TypeOK, Request,
       Row, Early, StaysOut
  <2> QED
    BY <2>1, <2>2, Framed, NotAdmittedYet
<1>4. ASSUME NEW q \in Requests, NothingToCheckIn(q)
      PROVE  \A r \in Requests : Row(r)'
  <2>1. \A r \in Requests \ {q} : Same(r)
    BY <1>4 DEF NothingToCheckIn, answer, handler, AfterCheckIn, GoTo, Same,
       TypeOK
  <2>2. StaysOut(q)
    BY <1>4 DEF NothingToCheckIn, answer, handler, AfterCheckIn, GoTo, TypeOK,
       Request, Row, Early, StaysOut
  <2> QED
    BY <2>1, <2>2, Framed, NotAdmittedYet
<1>5. ASSUME NEW q \in Requests, Due(q)
      PROVE  \A r \in Requests : Row(r)'
  <2>1. \A r \in Requests \ {q} : Same(r)
    BY <1>5 DEF Due, answer, handler, GoTo, Same, TypeOK
  <2>2. StaysOut(q)
    BY <1>5 DEF Due, answer, handler, GoTo, TypeOK, Request, Row, Early,
       StaysOut
  <2> QED
    BY <2>1, <2>2, Framed, NotAdmittedYet
<1>6. ASSUME NEW q \in Requests, CheckedIn(q)
      PROVE  \A r \in Requests : Row(r)'
  <2>1. \A r \in Requests \ {q} : Same(r)
    BY <1>6 DEF CheckedIn, answer, handler, AfterCheckIn, GoTo, Same, TypeOK
  <2>2. StaysOut(q)
    BY <1>6 DEF CheckedIn, answer, handler, AfterCheckIn, GoTo, TypeOK,
       Request, Row, Early, StaysOut
  <2> QED
    BY <2>1, <2>2, Framed, NotAdmittedYet
<1>7. ASSUME NEW q \in Requests, Inlined(q)
      PROVE  \A r \in Requests : Row(r)'
  <2>1. \A r \in Requests \ {q} : Same(r)
    BY <1>7 DEF Inlined, answer, handler, GoTo, Same, TypeOK
  <2>2. StaysOut(q)
    BY <1>7 DEF Inlined, answer, handler, GoTo, TypeOK, Request, Row, Early,
       StaysOut
  <2> QED
    BY <2>1, <2>2, Framed, NotAdmittedYet
<1>8. ASSUME NEW q \in Requests, ImageFails(q)
      PROVE  \A r \in Requests : Row(r)'
  <2>1. \A r \in Requests \ {q} : Same(r)
    BY <1>8 DEF ImageFails, answer, handler, Respond, Same, TypeOK
  <2>2. StaysOut(q)
    BY <1>8 DEF ImageFails, answer, handler, Respond, TypeOK, Request, Row,
       Early, StaysOut
  <2> QED
    BY <2>1, <2>2, Framed, NotAdmittedYet
<1>9. ASSUME NEW q \in Requests, Admit(q)
      PROVE  \A r \in Requests : Row(r)'
  <2>1. \A r \in Requests \ {q} : Same(r)
    BY <1>9 DEF Admit, answer, handler, GoTo, Respond, Same, TypeOK
  <2>2. /\ body'[q] = <<>> /\ chan'[q] = <<>> /\ native'[q] = <<>>
        /\ pump'[q] = "opening" /\ reqs[q].status = "none"
    BY <1>9 DEF Admit, answer, handler, GoTo, Respond, TypeOK, Request, Row,
       PumpPlace, Early
  <2>3. /\ reqs'[q].surface = reqs[q].surface
        /\ reqs'[q].status # "error"
        /\ reqs[q].surface \in Chat => reqs'[q].status = "none"
    BY <2>2, <1>9 DEF Admit, answer, handler, GoTo, Respond, TypeOK, Request,
       Row
  <2>4. Whole(q)'
    <3>1. InHand(q)' = <<>>
      BY <2>2 DEF InHand
    <3>2. (<<>> \o <<>>) \o <<>> = <<>>
      BY EmptySeq, ConcatEmptySeq
    <3> QED
      BY <2>2, <3>1, <3>2 DEF Whole
  <2>5. Status(q)'
    BY <2>2, <2>3 DEF Status
  <2> USE <1>9 DEF Admit, answer, handler, GoTo, Respond, TypeOK, Request, Row
  <2>6. Early(q)'
    BY DEF Early, PumpPlace
  <2>7. PumpPlace(q)'
    BY DEF Early, PumpPlace
  <2>8. Prefix(q)'
    BY DEF Early, PumpPlace, Prefix
  <2>9. Terminated(q)'
    BY DEF Early, PumpPlace, Terminated
  <2>10. Sampled(q)'
    BY DEF Early, PumpPlace, Sampled, HasContent
  <2> QED
    BY <2>1, <2>4, <2>5, <2>6, <2>7, <2>8, <2>9, <2>10, Framed DEF Row
<1>10. ASSUME NEW q \in Requests, Opens(q)
      PROVE  \A r \in Requests : Row(r)'
  <2>1. \A r \in Requests \ {q} : Same(r)
    BY <1>10 DEF Opens, answer, handler, Same, TypeOK
  <2> USE <1>10 DEF Opens, answer, handler, TypeOK, Request, Row
  <2>2. Early(q)'
    BY DEF Early, PumpPlace
  <2>3. PumpPlace(q)'
    BY DEF Early, PumpPlace
  <2>4. Whole(q)'
    BY DEF Early, PumpPlace, Whole, InHand, newest
  <2>5. Prefix(q)'
    BY DEF Early, PumpPlace, Prefix
  <2>6. Terminated(q)'
    BY DEF Early, PumpPlace, Terminated
  <2>7. Status(q)'
    BY DEF Early, PumpPlace, Status
  <2>8. Sampled(q)'
    BY DEF Early, PumpPlace, Sampled, HasContent
  <2> QED
    BY <2>1, <2>2, <2>3, <2>4, <2>5, <2>6, <2>7, <2>8, Framed DEF Row
<1>11. ASSUME NEW q \in Requests, OpenFails(q)
      PROVE  \A r \in Requests : Row(r)'
  <2>1. \A r \in Requests \ {q} : Same(r)
    BY <1>11 DEF OpenFails, answer, handler, Same, TypeOK
  <2>2. body'[q] = <<>> /\ chan'[q] = <<>> /\ native'[q] = <<"error">>
        /\ pump'[q] = "last"
    BY <1>11 DEF OpenFails, answer, handler, TypeOK, Request, Row, PumpPlace
  <2>3. Whole(q)'
    <3>1. InHand(q)' = <<"error">>
      BY <2>2 DEF InHand, newest
    <3> QED
      BY <2>2, <3>1 DEF Whole
  <2> USE <1>11 DEF OpenFails, answer, handler, TypeOK, Request, Row
  <2>4. Early(q)'
    BY DEF Early, PumpPlace
  <2>5. PumpPlace(q)'
    BY DEF Early, PumpPlace
  <2>6. Prefix(q)'
    BY DEF Early, PumpPlace, Prefix
  <2>7. Terminated(q)'
    BY DEF Early, PumpPlace, Terminated
  <2>8. Status(q)'
    BY DEF Early, PumpPlace, Status
  <2>9. Sampled(q)'
    BY DEF Early, PumpPlace, Sampled, HasContent
  <2> QED
    BY <2>1, <2>3, <2>4, <2>5, <2>6, <2>7, <2>8, <2>9, Framed DEF Row
<1>12. ASSUME NEW q \in Requests, StreamEnds(q)
      PROVE  \A r \in Requests : Row(r)'
  <2>1. \A r \in Requests \ {q} : Same(r)
    BY <1>12 DEF StreamEnds, answer, handler, ThreadEnds, Same, TypeOK
  <2> USE <1>12 DEF StreamEnds, answer, handler, ThreadEnds, TypeOK, Request,
     Row
  <2>2. Early(q)'
    BY DEF Early, PumpPlace
  <2>3. PumpPlace(q)'
    BY DEF Early, PumpPlace
  <2>4. Whole(q)'
    BY DEF Early, PumpPlace, Whole, InHand, newest
  <2>5. Prefix(q)'
    BY DEF Early, PumpPlace, Prefix
  <2>6. Terminated(q)'
    BY DEF Early, PumpPlace, Terminated
  <2>7. Status(q)'
    BY DEF Early, PumpPlace, Status
  <2>8. Sampled(q)'
    BY DEF Early, PumpPlace, Sampled, HasContent
  <2> QED
    BY <2>1, <2>2, <2>3, <2>4, <2>5, <2>6, <2>7, <2>8, Framed DEF Row
<1>13. ASSUME NEW q \in Requests, Panics(q)
      PROVE  \A r \in Requests : Row(r)'
  <2>1. \A r \in Requests \ {q} : Same(r)
    BY <1>13 DEF Panics, answer, handler, ThreadEnds, Same, TypeOK
  <2> USE <1>13 DEF Panics, answer, handler, ThreadEnds, TypeOK, Request, Row
  <2>2. Early(q)'
    BY DEF Early, PumpPlace
  <2>3. PumpPlace(q)'
    BY DEF Early, PumpPlace
  <2>4. Whole(q)'
    BY DEF Early, PumpPlace, Whole, InHand, newest
  <2>5. Prefix(q)'
    BY DEF Early, PumpPlace, Prefix
  <2>6. Terminated(q)'
    BY DEF Early, PumpPlace, Terminated
  <2>7. Status(q)'
    BY DEF Early, PumpPlace, Status
  <2>8. Sampled(q)'
    BY DEF Early, PumpPlace, Sampled, HasContent
  <2> QED
    BY <2>1, <2>2, <2>3, <2>4, <2>5, <2>6, <2>7, <2>8, Framed DEF Row
<1>14. ASSUME NEW q \in Requests, Send(q)
      PROVE  \A r \in Requests : Row(r)'
  <2>1. \A r \in Requests \ {q} : Same(r)
    BY <1>14 DEF Send, answer, handler, ThreadEnds, newest, Same, TypeOK
  <2>2. /\ pump[q] \in {"sending", "last"} /\ pump'[q] \notin {"sending", "last"}
        /\ chan'[q] = Append(chan[q], newest(q))
        /\ native'[q] = native[q] /\ body'[q] = body[q]
        /\ reqs[q].pc \in Receiving /\ Whole(q) /\ PumpPlace(q)
        /\ native[q] \in Seq(Item) /\ body[q] \in Seq(Item) /\ chan[q] \in Seq(Item)
    BY <1>14 DEF Send, answer, handler, ThreadEnds, newest, TypeOK, Request,
       Row
  <2>3. newest(q) \in Item /\ InHand(q) = <<newest(q)>> /\ InHand(q)' = <<>>
    BY <2>2, EmptySeq, ElementOfSeq DEF newest, PumpPlace, InHand
  <2>4. (body[q] \o Append(chan[q], newest(q))) \o <<>> = native[q]
    <3>1. (body[q] \o chan[q]) \o <<newest(q)>> = native[q]
      BY <2>2, <2>3 DEF Whole
    <3> QED
      BY <2>2, <2>3, <3>1, SentIsQueued
  <2>5. Whole(q)'
    BY <2>2, <2>3, <2>4 DEF Whole
  <2> USE <1>14 DEF Send, answer, handler, ThreadEnds, newest, TypeOK, Request,
     Row
  <2>6. Early(q)'
    BY DEF Early, PumpPlace
  <2>7. PumpPlace(q)'
    BY DEF Early, PumpPlace
  <2>8. Prefix(q)'
    BY DEF Early, PumpPlace, Prefix
  <2>9. Terminated(q)'
    BY DEF Early, PumpPlace, Terminated
  <2>10. Status(q)'
    BY DEF Early, PumpPlace, Status
  <2>11. Sampled(q)'
    BY DEF Early, PumpPlace, Sampled, HasContent
  <2> QED
    BY <2>1, <2>5, <2>6, <2>7, <2>8, <2>9, <2>10, <2>11, Framed DEF Row
<1>15. ASSUME NEW q \in Requests, SendFails(q)
      PROVE  \A r \in Requests : Row(r)'
  <2>1. \A r \in Requests \ {q} : Same(r)
    BY <1>15 DEF SendFails, answer, handler, ThreadEnds, Same, TypeOK
  <2> USE <1>15 DEF SendFails, answer, handler, ThreadEnds, TypeOK, Request,
     Row
  <2>2. Early(q)'
    BY DEF Early, PumpPlace
  <2>3. PumpPlace(q)'
    BY DEF Early, PumpPlace
  <2>4. Whole(q)'
    BY DEF Early, PumpPlace, Whole, InHand, newest
  <2>5. Prefix(q)'
    BY DEF Early, PumpPlace, Prefix
  <2>6. Terminated(q)'
    BY DEF Early, PumpPlace, Terminated
  <2>7. Status(q)'
    BY DEF Early, PumpPlace, Status
  <2>8. Sampled(q)'
    BY DEF Early, PumpPlace, Sampled, HasContent
  <2> QED
    BY <2>1, <2>2, <2>3, <2>4, <2>5, <2>6, <2>7, <2>8, Framed DEF Row
<1>16. ASSUME NEW q \in Requests, Commit(q)
      PROVE  \A r \in Requests : Row(r)'
  <2>1. \A r \in Requests \ {q} : Same(r)
    BY <1>16 DEF Commit, answer, handler, Respond, Same, TypeOK
  <2>2. reqs'[q].pc = "open" /\ reqs'[q].surface = reqs[q].surface
        /\ reqs[q].pc = "first" /\ samples'[q] = samples[q] /\ Sampled(q)
    BY <1>16 DEF Commit, answer, handler, Respond, TypeOK, Request, Row
  <2>3. Sampled(q)'
    BY <2>2 DEF Sampled
  <2> USE <1>16 DEF Commit, answer, handler, Respond, TypeOK, Request, Row
  <2>4. Early(q)'
    BY DEF Early, PumpPlace
  <2>5. PumpPlace(q)'
    BY DEF Early, PumpPlace
  <2>6. Whole(q)'
    BY DEF Early, PumpPlace, Whole, InHand, newest
  <2>7. Prefix(q)'
    BY DEF Early, PumpPlace, Prefix
  <2>8. Terminated(q)'
    BY DEF Early, PumpPlace, Terminated
  <2>9. Status(q)'
    BY DEF Early, PumpPlace, Status
  <2> QED
    BY <2>1, <2>3, <2>4, <2>5, <2>6, <2>7, <2>8, <2>9, Framed DEF Row
<1>17. ASSUME NEW q \in Requests, FailFirst(q)
      PROVE  \A r \in Requests : Row(r)'
  <2>1. \A r \in Requests \ {q} : Same(r)
    BY <1>17 DEF FailFirst, answer, handler, Respond, Closed, Same, TypeOK
  <2>2. reqs'[q].pc = "done" /\ reqs'[q].surface = reqs[q].surface
        /\ reqs[q].pc = "first" /\ samples'[q] = samples[q] /\ Sampled(q)
        /\ body'[q] = <<>>
    BY <1>17 DEF FailFirst, answer, handler, Respond, Closed, TypeOK, Request,
       Row, Status
  <2>3. ~HasContent(q)'
    BY <2>2, EmptySeq DEF HasContent
  <2>4. Sampled(q)'
    BY <2>2, <2>3 DEF Sampled
  <2> USE <1>17 DEF FailFirst, answer, handler, Respond, Closed, TypeOK,
     Request, Row
  <2>5. Early(q)'
    BY DEF Early, PumpPlace
  <2>6. PumpPlace(q)'
    BY DEF Early, PumpPlace
  <2>7. Whole(q)'
    BY DEF Early, PumpPlace, Whole, InHand, newest
  <2>8. Prefix(q)'
    BY DEF Early, PumpPlace, Prefix
  <2>9. Terminated(q)'
    BY DEF Early, PumpPlace, Terminated
  <2>10. Status(q)'
    BY DEF Early, PumpPlace, Status
  <2> QED
    BY <2>1, <2>4, <2>5, <2>6, <2>7, <2>8, <2>9, <2>10, Framed DEF Row
<1>18. ASSUME NEW q \in Requests, Frame(q)
      PROVE  \A r \in Requests : Row(r)'
  <2>1. \A r \in Requests \ {q} : Same(r)
    BY <1>18 DEF Frame, answer, handler, Same, TypeOK
  <2>2. /\ body'[q] = Append(body[q], Head(chan[q])) /\ chan'[q] = Tail(chan[q])
        /\ native'[q] = native[q] /\ pump'[q] = pump[q] /\ chan[q] # <<>>
        /\ reqs[q].pc = "open" /\ Whole(q) /\ PumpPlace(q)
        /\ native[q] \in Seq(Item) /\ body[q] \in Seq(Item) /\ chan[q] \in Seq(Item)
    BY <1>18 DEF Frame, answer, handler, TypeOK, Request, Row
  <2>3. InHand(q)' = InHand(q)
    BY <2>2 DEF InHand, newest
  <2>4. InHand(q) \in Seq(Item)
    <3>1. pump[q] \in {"sending", "last"} => newest(q) \in Item
      BY <2>2, EmptySeq, ElementOfSeq DEF newest, PumpPlace
    <3>2. <<>> \in Seq(Item) /\ \A e \in Item : <<e>> \in Seq(Item)
      OBVIOUS
    <3> QED
      BY <3>1, <3>2 DEF InHand
  <2>5. body'[q] \in Seq(Item) /\ chan'[q] \in Seq(Item)
    BY <2>2, HeadTailProperties
  <2>6. (body'[q] \o chan'[q]) \o InHand(q)' = native'[q]
    <3>1. body'[q] \o chan'[q] = body[q] \o chan[q]
      BY <2>2, ReadLeavesTheChannel
    <3>2. (body[q] \o chan[q]) \o InHand(q) = native[q]
      BY <2>2 DEF Whole
    <3> QED
      BY <2>2, <2>3, <3>1, <3>2
  <2>7. Whole(q)'
    BY <2>6 DEF Whole
  <2>8. Prefix(q)'
    <3>1. /\ Len(body'[q]) <= Len((body'[q] \o chan'[q]) \o InHand(q))
          /\ \A i \in 1..Len(body'[q]) :
                body'[q][i] = ((body'[q] \o chan'[q]) \o InHand(q))[i]
      BY <2>4, <2>5, FrontIsPrefix
    <3> QED
      BY <2>3, <2>6, <3>1 DEF Prefix
  <2> USE <1>18 DEF Frame, answer, handler, TypeOK, Request, Row
  <2>9. Early(q)'
    BY DEF Early, PumpPlace
  <2>10. PumpPlace(q)'
    BY DEF Early, PumpPlace
  <2>11. Terminated(q)'
    BY DEF Early, PumpPlace, Terminated
  <2>12. Status(q)'
    BY DEF Early, PumpPlace, Status
  <2>13. Sampled(q)'
    BY DEF Early, PumpPlace, Sampled, HasContent
  <2> QED
    BY <2>1, <2>7, <2>8, <2>9, <2>10, <2>11, <2>12, <2>13, Framed DEF Row
<1>19. ASSUME NEW q \in Requests, EndBody(q)
      PROVE  \A r \in Requests : Row(r)'
  <2>1. \A r \in Requests \ {q} : Same(r)
    BY <1>19 DEF EndBody, answer, handler, GoTo, DropMeter, Closed, Same,
       TypeOK
  <2>2. /\ reqs[q].pc = "open" /\ reqs'[q].pc = "done"
        /\ reqs'[q].surface = reqs[q].surface
        /\ Sampled(q) /\ PumpPlace(q) /\ Whole(q)
        /\ body'[q] = body[q] /\ native'[q] = native[q] /\ chan[q] = <<>>
        /\ body[q] \in Seq(Item)
        /\ pump[q] \in {"over", "panicked"} /\ pump'[q] = pump[q]
        /\ samples'[q] = samples[q] + IF HasContent(q) THEN 1 ELSE 0
    BY <1>19 DEF EndBody, answer, handler, GoTo, DropMeter, Closed, TypeOK,
       Request, Row
  <2>3. samples[q] = 0 /\ reqs[q].surface \in Streamed
    BY <2>2, <1>19 DEF EndBody, answer, handler, GoTo, DropMeter, Closed,
       TypeOK, Request, Row, Sampled, PumpPlace
  <2>4. body[q] = native[q]
    <3>1. (body[q] \o <<>>) \o <<>> = native[q]
      BY <2>2 DEF Whole, InHand
    <3> QED
      BY <2>2, <3>1, ConcatEmptySeq
  <2>5. HasContent(q)' = HasContent(q)
    BY <2>2 DEF HasContent
  <2>6. Terminated(q)'
    BY <2>2, <2>4 DEF Terminated
  <2>7. Sampled(q)'
    <3>1. samples'[q] = IF HasContent(q) THEN 1 ELSE 0
      BY <2>2, <2>3
    <3> QED
      BY <2>2, <2>3, <2>5, <3>1 DEF Sampled
  <2> USE <1>19 DEF EndBody, answer, handler, GoTo, DropMeter, Closed, TypeOK,
     Request, Row
  <2>8. Early(q)'
    BY DEF Early, PumpPlace
  <2>9. PumpPlace(q)'
    BY DEF Early, PumpPlace
  <2>10. Whole(q)'
    BY DEF Early, PumpPlace, Whole, InHand, newest
  <2>11. Prefix(q)'
    BY DEF Early, PumpPlace, Prefix
  <2>12. Status(q)'
    BY DEF Early, PumpPlace, Status
  <2> QED
    BY <2>1, <2>6, <2>7, <2>8, <2>9, <2>10, <2>11, <2>12, Framed DEF Row
<1>20. ASSUME NEW q \in Requests, Leave(q)
      PROVE  \A r \in Requests : Row(r)'
  <2>1. \A r \in Requests \ {q} : Same(r)
    BY <1>20 DEF Leave, answer, handler, GoTo, DropMeter, Same, TypeOK
  <2>2. reqs'[q].pc = "gone" /\ reqs'[q].surface = reqs[q].surface
        /\ HasContent(q)' = HasContent(q)
    BY <1>20 DEF Leave, answer, handler, GoTo, DropMeter, TypeOK, Request, Row,
       HasContent
  <2>3. reqs[q].surface \in Streamed =>
           samples[q] = 0 /\ (reqs[q].pc # "open" => ~HasContent(q))
    BY <1>20 DEF Leave, answer, handler, GoTo, DropMeter, TypeOK, Request, Row,
       Sampled, HasContent, PumpPlace, Early, Status
  <2>4. Sampled(q)'
    <3>1. CASE reqs[q].pc = "open"
      <4>1. samples'[q] = samples[q] + IF HasContent(q) THEN 1 ELSE 0
        BY <3>1, <1>20 DEF Leave, answer, handler, GoTo, DropMeter, TypeOK,
           Request, Row
      <4> QED
        BY <2>2, <2>3, <4>1 DEF Sampled
    <3>2. CASE reqs[q].pc # "open"
      <4>1. samples'[q] = samples[q]
        BY <3>2, <1>20 DEF Leave, answer, handler, GoTo, DropMeter, TypeOK,
           Request, Row
      <4> QED
        BY <2>2, <2>3, <3>2, <4>1 DEF Sampled
    <3> QED
      BY <3>1, <3>2
  <2> USE <1>20 DEF Leave, answer, handler, GoTo, DropMeter, TypeOK, Request,
     Row
  <2>5. Early(q)'
    BY DEF Early, PumpPlace
  <2>6. PumpPlace(q)'
    BY DEF Early, PumpPlace
  <2>7. Whole(q)'
    BY DEF Early, PumpPlace, Whole, InHand, newest
  <2>8. Prefix(q)'
    BY DEF Early, PumpPlace, Prefix
  <2>9. Terminated(q)'
    BY DEF Early, PumpPlace, Terminated
  <2>10. Status(q)'
    BY DEF Early, PumpPlace, Status
  <2> QED
    BY <2>1, <2>4, <2>5, <2>6, <2>7, <2>8, <2>9, <2>10, Framed DEF Row
<1>21. ASSUME NEW q \in Requests, NEW s \in Streamed \cup {"unary"}, NEW images \in BOOLEAN, Accept(q, s, images)
      PROVE  \A r \in Requests : Row(r)'
  <2>1. \A r \in Requests \ {q} : Same(r)
    BY <1>21 DEF Accept, answer, handler, Same, TypeOK
  <2>2. StaysOut(q)
    BY <1>21 DEF Accept, answer, handler, TypeOK, Request, Row, Early, StaysOut
  <2> QED
    BY <2>1, <2>2, Framed, NotAdmittedYet
<1>22. ASSUME NEW q \in Requests, NEW ok \in BOOLEAN, RunReturns(q, ok)
      PROVE  \A r \in Requests : Row(r)'
  <2>1. \A r \in Requests \ {q} : Same(r)
    BY <1>22 DEF RunReturns, answer, handler, ThreadEnds, Respond, Same, TypeOK
  <2>2. reqs'[q].surface = "unary" /\ reqs'[q].pc \notin Receiving
    BY <1>22 DEF RunReturns, answer, handler, ThreadEnds, Respond, TypeOK,
       Request, Row, PumpPlace
  <2>3. Whole(q)'
    BY <2>2 DEF Whole
  <2>4. Status(q)'
    BY <2>2, <1>22 DEF RunReturns, answer, handler, ThreadEnds, Respond,
       TypeOK, Request, Row, PumpPlace, Status
  <2> USE <1>22 DEF RunReturns, answer, handler, ThreadEnds, Respond, TypeOK,
     Request, Row
  <2>5. Early(q)'
    BY DEF Early, PumpPlace
  <2>6. PumpPlace(q)'
    BY DEF Early, PumpPlace
  <2>7. Prefix(q)'
    BY DEF Early, PumpPlace, Prefix
  <2>8. Terminated(q)'
    BY DEF Early, PumpPlace, Terminated
  <2>9. Sampled(q)'
    BY DEF Early, PumpPlace, Sampled, HasContent
  <2> QED
    BY <2>1, <2>3, <2>4, <2>5, <2>6, <2>7, <2>8, <2>9, Framed DEF Row
<1>23. ASSUME NEW q \in Requests, NEW item \in Item, Yields(q, item)
      PROVE  \A r \in Requests : Row(r)'
  <2>1. \A r \in Requests \ {q} : Same(r)
    BY <1>23 DEF Yields, answer, handler, Same, TypeOK
  <2>2. native[q] \in Seq(Item) /\ native'[q] = Append(native[q], item)
    BY <1>23 DEF Yields, answer, handler, TypeOK, Request, Row
  <2>3. /\ native'[q] \in Seq(Item) /\ native'[q] # <<>> /\ newest(q)' = item
        /\ native[q] # <<>> => native'[q][1] = native[q][1]
    <3>1. /\ Append(native[q], item) \in Seq(Item)
          /\ Len(Append(native[q], item)) = Len(native[q]) + 1
          /\ Append(native[q], item)[Len(native[q]) + 1] = item
          /\ \A i \in 1..Len(native[q]) : Append(native[q], item)[i] = native[q][i]
      BY <2>2
    <3>2. Len(native[q]) \in Nat /\ (native[q] # <<>> => Len(native[q]) > 0)
      BY <2>2, EmptySeq
    <3>3. native'[q] # <<>>
      BY <2>2, <3>1, <3>2, EmptySeq
    <3> QED
      BY <2>2, <3>1, <3>2, <3>3 DEF newest
  <2>4. /\ pump[q] = "producing" /\ pump'[q] = "sending"
        /\ reqs'[q] = reqs[q] /\ chan'[q] = chan[q] /\ body'[q] = body[q]
        /\ PumpPlace(q) /\ Whole(q) /\ Status(q)
        /\ chan[q] \in Seq(Item) /\ body[q] \in Seq(Item)
    BY <1>23 DEF Yields, answer, handler, TypeOK, Request, Row
  <2>5. PumpPlace(q)'
    BY <2>3, <2>4 DEF PumpPlace
  <2>6. Whole(q)'
    <3>1. CASE reqs[q].pc \in Receiving
      <4>1. (body[q] \o chan[q]) \o <<>> = native[q]
        BY <3>1, <2>4 DEF Whole, InHand
      <4>2. body[q] \o chan[q] = native[q]
        <5>1. body[q] \o chan[q] \in Seq(Item)
          BY <2>4, ConcatProperties
        <5> QED
          BY <4>1, <5>1, ConcatEmptySeq
      <4>3. native[q] \o <<item>> = Append(native[q], item)
        BY <2>2
      <4>4. InHand(q)' = <<item>>
        BY <2>3, <2>4 DEF InHand
      <4> QED
        BY <4>2, <4>3, <4>4, <2>2, <2>4 DEF Whole
    <3> QED
      BY <3>1, <2>4 DEF Whole
  <2>7. Status(q)'
    BY <2>3, <2>4 DEF Status
  <2> USE <1>23 DEF Yields, answer, handler, TypeOK, Request, Row
  <2>8. Early(q)'
    BY DEF Early, PumpPlace
  <2>9. Prefix(q)'
    BY DEF Early, PumpPlace, Prefix
  <2>10. Terminated(q)'
    BY DEF Early, PumpPlace, Terminated
  <2>11. Sampled(q)'
    BY DEF Early, PumpPlace, Sampled, HasContent
  <2> QED
    BY <2>1, <2>5, <2>6, <2>7, <2>8, <2>9, <2>10, <2>11, Framed DEF Row
<1>24. CASE UNCHANGED vars
  BY <1>24, Framed DEF vars, Same
<1> QED
  BY <1>1, <1>2, <1>3, <1>4, <1>5, <1>6, <1>7, <1>8, <1>9, <1>10, <1>11, <1>12,
     <1>13, <1>14, <1>15, <1>16, <1>17, <1>18, <1>19, <1>20, <1>21, <1>22,
     <1>23, <1>24 DEF Next, Prepare, Pump, Read

-----------------------------------------------------------------------------
(* The theorems.                                                           *)

LEMMA Inductive == Spec => []IInv
<1>1. Init => IInv
  BY TypeInit, RowInit DEF IInv
<1>2. IInv /\ [Next]_vars => IInv'
  BY TypeStep, RowStep DEF IInv
<1> QED
  BY <1>1, <1>2, PTL DEF Spec

\* Types.
THEOREM TypeCorrect == Spec => []TypeOK
<1>1. IInv => TypeOK
  BY DEF IInv
<1> QED
  BY <1>1, Inductive, PTL

\* Nothing that a native stream yields is lost, repeated or reordered on its
\* way to the client (predict.rs:77-104).
THEOREM StreamsAreFaithful == Spec => []Faithful
<1>1. IInv => Faithful
  <2> SUFFICES ASSUME TypeOK, \A r \in Requests : Row(r), NEW r \in Requests
               PROVE  /\ reqs[r].pc \in Receiving =>
                            body[r] \o chan[r] \o InHand(r) = native[r]
                      /\ body[r] = SubSeq(native[r], 1, Len(body[r]))
                      /\ terminated[r] => body[r] = native[r]
    BY DEF IInv, Faithful
  <2>1. /\ Whole(r) /\ Prefix(r) /\ Terminated(r)
        /\ body[r] \in Seq(Item) /\ native[r] \in Seq(Item)
    BY DEF Row, TypeOK
  <2>2. body[r] = SubSeq(native[r], 1, Len(body[r]))
    BY <2>1, PrefixIsSubSeq DEF Prefix
  <2> QED
    BY <2>1, <2>2 DEF Whole, Terminated
<1> QED
  BY <1>1, Inductive, PTL

\* A chat stream commits its status on its first item (completions.rs:70-81).
THEOREM StatusFollowsFirstItem == Spec => []CommittedByFirst
<1>1. IInv => CommittedByFirst
  <2> SUFFICES ASSUME TypeOK, \A r \in Requests : Row(r), NEW r \in Requests
               PROVE  /\ reqs[r].surface \in Chat /\ reqs[r].status = "ok" =>
                            native[r] # <<>> /\ Head(native[r]) # "error"
                      /\ reqs[r].status = "error" => body[r] = <<>>
    BY DEF IInv, CommittedByFirst
  <2>1. Head(native[r]) = native[r][1]
    BY native[r] \in Seq(Item) DEF TypeOK
  <2> QED
    BY <2>1 DEF Row, Status
<1> QED
  BY <1>1, Inductive, PTL

\* A stream's meter records once, and only after content (stats.rs:255-259).
THEOREM MetersSampleOnce == Spec => []SampledOnce
<1>1. IInv => SampledOnce
  BY DEF IInv, Row, Sampled, SampledOnce
<1> QED
  BY <1>1, Inductive, PTL

=============================================================================
