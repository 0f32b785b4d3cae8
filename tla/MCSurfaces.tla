----------------------------- MODULE MCSurfaces -----------------------------
(***************************************************************************)
(* Instances of the surfaces for TLC: a request on its own with a longer   *)
(* stream, and requests that compete for the guard with short ones.        *)
(***************************************************************************)
EXTENDS Surfaces

VARIABLE alone    \* the request that is on its own, Free if they compete

mcvars == <<vars, alone>>

First == CHOOSE r \in Requests : TRUE

\* Bound: native streams of competing requests yield at most one item, and
\* one of them is on the OpenAI surface or not streamed.
Bounded ==
    /\ alone' = alone
    /\ \A r \in Requests :
          IF alone = Free
          THEN /\ Len(native'[r]) <= 1
               /\ r # First => reqs'[r].surface \in {"openai", "unary"}
          ELSE r # alone => reqs'[r].pc = "idle"

MCInit == Init /\ alone \in {Free, First}

LiveSpec == MCInit /\ [][Next /\ Bounded]_mcvars /\ Fairness
=============================================================================
