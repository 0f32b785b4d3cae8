---------------------------- MODULE SingleFlight ----------------------------
(***************************************************************************)
(* What single-flight promises, wherever the server claims it: at most one *)
(* worker at a time does the work of a key, and a worker does one key's.   *)
(* Downloads are single-flight per destination path (src/client.rs:100).   *)
(***************************************************************************)
CONSTANTS
    Keys,
    Workers,
    Nobody      \* no worker

VARIABLE flight   \* the worker of each key, or Nobody

Init == flight = [k \in Keys |-> Nobody]

Begin(k, w) ==
    /\ flight[k] = Nobody
    /\ \A j \in Keys : flight[j] # w
    /\ flight' = [flight EXCEPT ![k] = w]

End(k) ==
    /\ flight[k] # Nobody
    /\ flight' = [flight EXCEPT ![k] = Nobody]

Next == \E k \in Keys : End(k) \/ \E w \in Workers : Begin(k, w)

Spec == Init /\ [][Next]_flight
=============================================================================
