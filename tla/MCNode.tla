------------------------------- MODULE MCNode -------------------------------
(***************************************************************************)
(* Instances of a fleet node for TLC.  The safety run covers two nodes:    *)
(* one that is never asked to drain or to stop, whose responses name any   *)
(* tags and no devices, and one that is, whose responses name one tag and  *)
(* any devices.                                                            *)
(***************************************************************************)
EXTENDS Node

VARIABLE stops    \* whether this node may be drained and shut down

mcvars == <<allvars, stops>>

\* Bounds on the responses of the control plane.
OneTag == \A i \in DOMAIN models' : models'[i] = AnyTag
Unplaced == \A t \in Tags : goals'[t].devices = NoDev
OneModel == Len(models') <= 1

MCNext ==
    /\ \/ stops /\ NodeNext /\ OneTag
       \/ ~stops /\ OperatingNext /\ Unplaced
    /\ UNCHANGED stops

SafetyInit == NodeInit /\ stops \in BOOLEAN

SafetySpec == SafetyInit /\ [][MCNext]_mcvars

LiveInit == NodeInit /\ stops = FALSE

LiveNext == OperatingNext /\ OneModel /\ UNCHANGED stops

LiveSpec ==
    /\ LiveInit
    /\ [][LiveNext]_mcvars
    /\ NodeFairness
=============================================================================
