----------------------------- MODULE MCRegistry -----------------------------
(***************************************************************************)
(* Instances of the registry for TLC.  One run covers both ways main.rs    *)
(* starts the server: alone, or as a fleet node with the heartbeat's task. *)
(***************************************************************************)
EXTENDS Registry, TLC

VARIABLE launch    \* how this server was started, and whether loads can hang

mcvars == <<vars, launch>>

\* Load identities and requests are interchangeable.
Symmetry == Permutations(Loads) \cup Permutations(Requests)

MCNext ==
    /\ StandaloneNext \/ (launch.fleet /\ ControlStep)
    /\ UNCHANGED launch

SafetyInit == Init /\ launch \in [fleet : BOOLEAN, hangs : {FALSE}]

SafetySpec == SafetyInit /\ [][MCNext]_mcvars

\* Bound: a fleet node of a liveness run meets one request.
FewRequests ==
    launch.fleet => Cardinality({r \in Requests : reqs'[r].pc # "idle"}) <= 1

\* Either loads come to an end and no deadline need pass, or loads of a
\* standalone server may hang in native code for ever and time passes.
LiveInit ==
    Init /\ launch \in {l \in [fleet : BOOLEAN, hangs : BOOLEAN] : ~(l.fleet /\ l.hangs)}

\* The runtime polls every task that can run, and boot warms run before it
\* serves.
LiveSpec ==
    /\ LiveInit
    /\ [][MCNext /\ FewRequests]_mcvars
    /\ \A r \in Requests : WF_mcvars(RequestStep(r) /\ UNCHANGED launch)
    /\ \A t \in Tags : WF_mcvars(BootWarm(t) /\ UNCHANGED launch)
    /\ \A l \in Loads :
          WF_mcvars((launch.hangs => ~InFlight(l)) /\ LoadStep(l) /\ UNCHANGED launch)
    /\ \A r \in Requests : WF_mcvars(launch.hangs /\ Expire(r) /\ UNCHANGED launch)

\* On a standalone server ensure_ready and warm never run two loads of a tag,
\* and so never have two engines of it in memory.
SingleFlightAlone == ~launch.fleet => SingleFlight /\ OneEnginePerTag

\* Every request ensure_ready accepts on a standalone server is answered, or
\* its client leaves: by the load's outcome if loads end, by the deadline if
\* they hang.
AnsweredAlone ==
    \A r \in Requests :
        (~launch.fleet /\ reqs[r].pc \in {"entry", "wait", "recheck"})
            ~> reqs[r].pc \in {"done", "gone"}

\* An unload that met a running load takes effect once the load ends.
DeferredUnload ==
    \A t \in Tags : (slots[t].unload /\ ~launch.hangs) ~> slots[t].st = "Vacant"
=============================================================================
