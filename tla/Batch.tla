------------------------------- MODULE Batch -------------------------------
(***************************************************************************)
(* How a buffered model's requests are merged into one invocation and its  *)
(* results split back (src/serving/batch.rs, src/serving/dispatch/merge.rs *)
(* and BufferedWorker::flush / process_batch).                             *)
(*                                                                         *)
(* A value is a record of its kind and its content: the elements of a      *)
(* list, the tokens of a string, or one token for everything else.  A      *)
(* token is a run of characters that is never cut; "&" and "=" are tokens  *)
(* of their own, so joining is concatenation.                              *)
(***************************************************************************)
EXTENDS Integers, Sequences, FiniteSets, SequencesExt

CONSTANTS
    Names,        \* parameter names, in string order
    Signatures,   \* signatures: a batch configuration, or NoBatch, per name
    Values,       \* values a request may give a batch parameter
    Broadcasts,   \* values a request may give any other parameter
    Optional,     \* parameters a request may leave out
    Trailing,     \* shapes of one item's part of the output tensor
    MaxBatch,     \* bound on requests in a batch
    NoBatch, NoCapacity

ASSUME MaxBatchAssumption == MaxBatch \in 1..4

VARIABLES
    sig,        \* the model's signature
    trailing,   \* the output tensor's shape after dimension 0
    opaques,    \* value_fingerprint's COUNTER
    requests,   \* those of one batch: inputs, batch key, item count
    phase,      \* "open", then "answered" or "panicked"
    call,       \* the inputs of the invocation
    answers     \* the results each caller gets

batchVars == <<sig, trailing, opaques, requests, phase, call, answers>>

-----------------------------------------------------------------------------
(* The plan.                                                               *)

NameSet == ToSet(Names)

\* A batched parameter has a capacity or none, lists are lists and dimensions
\* are natural numbers.
ASSUME SignaturesAssumption ==
    \A s \in Signatures : \A n \in NameSet :
        s[n] # NoBatch => s[n].capacity = NoCapacity \/ s[n].capacity \in Nat

ASSUME ValuesAssumption ==
    \A v \in Values : v.kind = "list" => v.items \in Seq(ToSet(v.items))

ASSUME NamesAssumption == Names \in Seq(ToSet(Names))

ASSUME BroadcastsAssumption ==
    \A v \in Broadcasts :
        v = [kind |-> v.kind, items |-> v.items] /\ v.items \in Seq(ToSet(v.items))

ASSUME TrailingAssumption == \A shape \in Trailing : shape \in Seq(Nat)

batched(s) == {n \in NameSet : s[n] # NoBatch}

MinOf(S) == CHOOSE x \in S : \A y \in S : x <= y

capacities(s) == {s[n].capacity : n \in batched(s)} \ {NoCapacity}

\* BatchPlan::from_signature: one continuous parameter decides for all, and
\* the tightest capacity bounds the batch.
from_signature(s) ==
    IF batched(s) = {} THEN [plan |-> "Sequential", params |-> {}, capacity |-> 1]
    ELSE IF \E n \in batched(s) : s[n].mode = "continuous"
    THEN [plan |-> "Continuous", params |-> {}, capacity |-> 1]
    ELSE [plan |-> "Buffered", params |-> batched(s),
          capacity |-> IF capacities(s) = {} THEN 1 ELSE MinOf(capacities(s))]

Plan == from_signature(sig)

-----------------------------------------------------------------------------
(* Batch keys and item counts.                                             *)

\* Mutant of value_fingerprint: opaque values share one fingerprint.
SameOpaque(v, n) ==
    IF v.kind = "opaque" THEN <<"__opaque_">> ELSE <<v.kind, ":">> \o v.items

\* The n-th opaque value fingerprinted gets the n-th identity, here in unary.
value_fingerprint(v, n) ==
    IF v.kind = "opaque" THEN <<"__opaque_">> \o [i \in 1..n |-> "1"] \o <<"__">>
    ELSE <<v.kind, ":">> \o v.items

broadcast_names(inputs, params) ==
    FlattenSeq([i \in DOMAIN Names |->
                    IF Names[i] \in DOMAIN inputs \ params THEN <<Names[i]>> ELSE <<>>])

\* How many of the first k broadcast values are opaque.
OpaqueAmong(inputs, params, k) ==
    LET names == broadcast_names(inputs, params)
    IN  Cardinality({i \in 1..k : inputs[names[i]].kind = "opaque"})

\* Every opaque value takes the next identity.
OpaqueCount(inputs, params) ==
    OpaqueAmong(inputs, params, Len(broadcast_names(inputs, params)))

\* The name=fingerprint parts, in the order of the names.
key_parts(inputs, params, counter) ==
    LET names == broadcast_names(inputs, params)
        Identity(i) == counter + OpaqueAmong(inputs, params, i - 1)
    IN  [i \in DOMAIN names |->
            <<names[i], "=">> \o value_fingerprint(inputs[names[i]], Identity(i))]

\* The parts joined with "&".
compute_batch_key(inputs, params, counter) ==
    LET parts == key_parts(inputs, params, counter)
    IN  FlattenSeq([i \in DOMAIN parts |-> IF i = 1 THEN parts[i] ELSE <<"&">> \o parts[i]])

MaxOf(S) == CHOOSE x \in S : \A y \in S : y <= x

\* The longest list among the batch parameters, and at least one.
item_count(inputs, params) ==
    MaxOf({1} \cup {IF inputs[n].kind = "list" THEN Len(inputs[n].items) ELSE 1 :
                        n \in params \cap DOMAIN inputs})

-----------------------------------------------------------------------------
(* Merging and splitting.                                                  *)

\* One request is passed on as it is; several have the lists of their batch
\* parameters concatenated and share the first one's other parameters.
merge_inputs(ins, params) ==
    LET ListOf(inputs, n) ==
            IF n \in DOMAIN inputs /\ inputs[n].kind = "list" THEN inputs[n].items ELSE <<>>
    IN  IF Len(ins) = 1 THEN ins[1]
        ELSE [n \in (DOMAIN ins[1] \ params) \cup params |->
                 IF n \notin params THEN ins[1][n]
                 ELSE [kind |-> "list",
                       items |-> FlattenSeq([i \in DOMAIN ins |-> ListOf(ins[i], n)])]]

Total(counts) == SumFunction(counts)

Product(shape) == FoldSeq(LAMBDA d, n : d * n, 1, shape)

Offset(counts, i) == Total(SubSeq(counts, 1, i - 1))

\* Elements of the data per item of dimension 0.
Inner(t) == MaxOf({1, Product(Tail(t.shape))})

SplitsTensor(v, counts) ==
    v.kind = "tensor" /\ v.shape # <<>> /\ Head(v.shape) = Total(counts)

SplitsList(v, counts) == v.kind = "list" /\ Len(v.items) = Total(counts)

\* v[start..end] panics when end is past the data.
InRange(v, counts) ==
    SplitsTensor(v, counts) => Total(counts) * Inner(v) <= Len(v.items)

\* Mutant of Slice: the tensor's offset is counted in items, not elements.
SliceByItems(v, counts, i) ==
    LET lo == Offset(counts, i)
    IN  CASE SplitsTensor(v, counts) ->
               [kind |-> "tensor", shape |-> <<counts[i]>> \o Tail(v.shape),
                items |-> SubSeq(v.items, lo + 1, lo + counts[i] * Inner(v))]
          [] SplitsList(v, counts) ->
               [kind |-> "list", items |-> SubSeq(v.items, lo + 1, lo + counts[i])]
          [] OTHER -> v

\* Caller i's part of one result; what is not aligned with the batch is shared.
Slice(v, counts, i) ==
    LET lo == Offset(counts, i)
    IN  CASE SplitsTensor(v, counts) ->
               [kind |-> "tensor", shape |-> <<counts[i]>> \o Tail(v.shape),
                items |-> SubSeq(v.items, lo * Inner(v) + 1, (lo + counts[i]) * Inner(v))]
          [] SplitsList(v, counts) ->
               [kind |-> "list", items |-> SubSeq(v.items, lo + 1, lo + counts[i])]
          [] OTHER -> v

split_results(results, counts) ==
    [i \in DOMAIN counts |-> [j \in DOMAIN results |-> Slice(results[j], counts, i)]]

-----------------------------------------------------------------------------
(* The compiled predictor, as batching relies on it: output row i depends  *)
(* on the i-th items of the batch parameters and on the other parameters.  *)

Row(inputs, params, i) ==
    <<[n \in params |-> IF n \in DOMAIN inputs /\ i <= Len(inputs[n].items)
                        THEN inputs[n].items[i] ELSE "absent"],
      [n \in DOMAIN inputs \ params |-> inputs[n]]>>

Rows(inputs, params) ==
    MaxOf({0} \cup {Len(inputs[n].items) : n \in params \cap DOMAIN inputs})

\* A list of rows, a tensor whose elements name their row, and a scalar.
Predict(inputs, params) ==
    LET n == Rows(inputs, params)
        size == Product(trailing)
    IN  <<[kind |-> "list", items |-> [i \in 1..n |-> Row(inputs, params, i)]],
          [kind |-> "tensor", shape |-> <<n>> \o trailing,
           items |-> [e \in 1..(n * size) |->
                        <<Row(inputs, params, ((e - 1) \div size) + 1), (e - 1) % size>>]],
          [kind |-> "other", items |-> [m \in DOMAIN inputs \ params |-> inputs[m]]]>>

-----------------------------------------------------------------------------
BatchInit ==
    /\ sig \in Signatures
    /\ trailing \in Trailing
    /\ opaques = 0
    /\ requests = <<>>
    /\ phase = "open"
    /\ call = <<>>
    /\ answers = <<>>

\* What a request may carry.
Inputs ==
    {f \in UNION {[present -> Values \cup Broadcasts] :
                     present \in {p \in SUBSET NameSet : NameSet \ Optional \subseteq p}} :
        \A n \in DOMAIN f : f[n] \in IF n \in batched(sig) THEN Values ELSE Broadcasts}

\* Requests as a batched predictor expects them: a non-empty list for every
\* batch parameter, all of one length.
WellFormed(inputs) ==
    /\ batched(sig) \subseteq DOMAIN inputs
    /\ \A m, n \in batched(sig) :
          /\ inputs[n].kind = "list" /\ inputs[n].items # <<>>
          /\ Len(inputs[m].items) = Len(inputs[n].items)

\* A caller's request joins the batch: its key is the batch's and it fits, as
\* file_item and take_batch have it.  Other plans invoke every request alone.
Arrive(inputs) ==
    LET params == Plan.params
        counts == [i \in DOMAIN requests |-> requests[i].count]
        r == [inputs |-> inputs, key |-> compute_batch_key(inputs, params, opaques),
              count |-> item_count(inputs, params)]
    IN  /\ phase = "open"
        /\ Len(requests) < MaxBatch
        /\ requests # <<>> =>
              /\ Plan.plan = "Buffered"
              /\ r.key = requests[1].key
              /\ Total(counts) < Plan.capacity
              /\ Total(counts) + r.count <= Plan.capacity
        /\ requests' = Append(requests, r)
        /\ opaques' = opaques + OpaqueCount(inputs, params)
        /\ UNCHANGED <<sig, trailing, phase, call, answers>>

\* flush: one request alone, more through process_batch.  An index out of the
\* tensor's data panics the accumulator task.
process_batch ==
    LET params == Plan.params
        counts == [i \in DOMAIN requests |-> requests[i].count]
        merged == merge_inputs([i \in DOMAIN requests |-> requests[i].inputs], params)
        results == Predict(merged, params)
        fits == Len(requests) = 1 \/ \A j \in DOMAIN results : InRange(results[j], counts)
    IN  /\ phase = "open"
        /\ requests # <<>>
        /\ call' = merged
        /\ phase' = IF fits THEN "answered" ELSE "panicked"
        /\ answers' = CASE ~fits -> <<>>
                        [] Len(requests) = 1 -> <<results>>
                        [] OTHER -> split_results(results, counts)
        /\ UNCHANGED <<sig, trailing, opaques, requests>>

BatchNext ==
    (\E inputs \in Inputs : WellFormed(inputs) /\ Arrive(inputs)) \/ process_batch

BatchSpec == BatchInit /\ [][BatchNext]_batchVars

-----------------------------------------------------------------------------
(* Properties.                                                             *)

\* Batching is invisible: each caller gets exactly what its own request would
\* have returned invoked alone, whatever it was merged with, and splitting
\* never indexes past the data ("tensors split on dim 0 by item counts",
\* merge.rs, split_results).
Transparent ==
    phase # "open" =>
        /\ phase = "answered"
        /\ \A i \in DOMAIN requests : answers[i] = Predict(requests[i].inputs, Plan.params)

\* Requests merged into a batch agree on their broadcast parameters.
BroadcastsAgree ==
    \A i, j \in DOMAIN requests :
        LET f == requests[i].inputs
            g == requests[j].inputs
        IN  /\ DOMAIN f \ Plan.params = DOMAIN g \ Plan.params
            /\ \A n \in DOMAIN f \ Plan.params : f[n] = g[n]

\* No list of a merged invocation is longer than its parameter's capacity.
FitsEveryParam ==
    (phase # "open" /\ Len(requests) > 1) =>
        \A n \in Plan.params :
            sig[n].capacity # NoCapacity => Len(call[n].items) <= sig[n].capacity

\* Merging is sound for every parameter: "broadcast parameters are never
\* silently overwritten" (batch.rs, compute_batch_key), although the key is
\* only text and opaque values have no text, and the tightest capacity of
\* several batch parameters holds for each of them.
Mergeable == BroadcastsAgree /\ FitsEveryParam
=============================================================================
