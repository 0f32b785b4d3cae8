----------------------------- MODULE MCKvRelay -----------------------------
(***************************************************************************)
(* An instance of the relay for TLC, with a flush interval shorter and one *)
(* longer than the receive timeout.  The engine restarts only under a      *)
(* relay that is not cancelled, and the supervisor cancels only relays of  *)
(* the engine's first epoch: later ones repeat the same steps.             *)
(***************************************************************************)
EXTENDS KvRelay

MCNext ==
    /\ Next
    /\ cancelled' => engine'.epoch = 1

MCSpec ==
    /\ Init
    /\ [][MCNext]_vars
    /\ Fairness
=============================================================================
