-------------------------- MODULE LeaseSupervisor ---------------------------
(***************************************************************************)
(* The device-lease supervisor (src/serving/lease.rs) and the loop of the  *)
(* weight solver over it (run in src/serving/lease_weights.rs).            *)
(*                                                                         *)
(* Engines share a device through a named shared-memory segment of         *)
(* registration slots.  They are external: the first to register creates   *)
(* and initialises the segment, the last to deregister unlinks its name,   *)
(* and a mapping of an unlinked segment stays readable.  The supervisor    *)
(* takes no lock of theirs, so every one of its loads and stores can fall  *)
(* between two steps of theirs.                                            *)
(*                                                                         *)
(* A weight is abstracted to the policy it was computed from; Shares has   *)
(* the computation.                                                        *)
(***************************************************************************)
EXTENDS Naturals, FiniteSets

CONSTANTS
    Devices,
    Engines,      \* registrants; an engine's label is itself
    Segments,     \* identities of shared-memory objects
    Slots,        \* the registration slots of a segment (MAX_REGISTRANTS)
    Policies,     \* what the plane may send for a model, and the default
    Default,      \* policy_for's answer for a model without a policy
    Unset,        \* the weight a fresh registrant starts with
    Free,         \* pid 0
    Absent,       \* no segment
    Rejected      \* a segment of another ABI

ASSUME DefaultAssumption == Default \in Policies /\ Unset \notin Policies
ASSUME FreeAssumption == Free \notin Engines
ASSUME AbsentAssumption == {Absent, Rejected} \cap Segments = {} /\ Absent # Rejected

VARIABLES
    names,      \* the segment each device's name is linked to
    segments,   \* each segment's header, registrants and weights
    policies,   \* AppState::policies
    cache,      \* LeaseSupervisor::segments
    inputs,     \* registrants a tick has still to give their weight
    stores      \* slots set_weight_on has matched and not yet stored to

leaseVars == <<names, segments, policies, cache, inputs, stores>>

Segment ==
    [magic : BOOLEAN,       \* initialised
     abi : BOOLEAN,         \* of this ABI_VERSION
     pid : [Slots -> Engines \cup {Free}],
     weight : [Slots -> Policies \cup {Unset}]]

Blank == [magic |-> FALSE, abi |-> TRUE, pid |-> [k \in Slots |-> Free],
          weight |-> [k \in Slots |-> Unset]]

Input == [device : Devices, label : Engines, policy : Policies]

Target == [device : Devices, slot : Slots, policy : Policies]

LeaseInit ==
    /\ names = [d \in Devices |-> Absent]
    /\ segments = [s \in Segments |-> Blank]
    /\ policies = [e \in Engines |-> Default]
    /\ cache = [d \in Devices |-> Absent]
    /\ inputs = {}
    /\ stores = {}

Occupied(s) == \E k \in Slots : segments[s].pid[k] # Free

RegisteredOn(e, d) ==
    names[d] \in Segments /\ \E k \in Slots : segments[names[d]].pid[k] = e

-----------------------------------------------------------------------------
(* The engines and the plane: external.                                    *)

ext == <<cache, inputs, stores>>

Create(d, s) ==
    /\ names[d] = Absent
    /\ \A x \in Devices : names[x] # s /\ cache[x] # s
    /\ names' = [names EXCEPT ![d] = s]
    /\ \E abi \in BOOLEAN : segments' = [segments EXCEPT ![s] = [Blank EXCEPT !.abi = abi]]
    /\ UNCHANGED <<ext, policies>>

Initialise(d) ==
    /\ names[d] \in Segments /\ ~segments[names[d]].magic
    /\ segments' = [segments EXCEPT ![names[d]].magic = TRUE]
    /\ UNCHANGED <<ext, names, policies>>

\* An engine takes a free slot of each device it uses, one at a time.
Register(e, d, k) ==
    /\ names[d] \in Segments /\ segments[names[d]].magic
    /\ ~RegisteredOn(e, d)
    /\ segments[names[d]].pid[k] = Free
    /\ segments' = [segments EXCEPT ![names[d]].pid[k] = e]
    /\ UNCHANGED <<ext, names, policies>>

\* The last registrant unlinks the name.  A free slot's weight means nothing.
Deregister(e, d, k) ==
    /\ names[d] \in Segments /\ segments[names[d]].pid[k] = e
    /\ segments' = [segments EXCEPT ![names[d]].pid[k] = Free,
                                    ![names[d]].weight[k] = Unset]
    /\ names' = IF \E j \in Slots \ {k} : segments[names[d]].pid[j] # Free THEN names ELSE [names EXCEPT ![d] = Absent]
    /\ UNCHANGED <<ext, policies>>

SetPolicy(e, p) ==
    /\ policies[e] # p
    /\ policies' = [policies EXCEPT ![e] = p]
    /\ UNCHANGED <<ext, names, segments>>

-----------------------------------------------------------------------------
(* The supervisor.                                                         *)

\* Map a device's segment and look at its header.
attach(d) ==
    CASE names[d] = Absent \/ ~segments[names[d]].magic -> Absent
      [] ~segments[names[d]].abi -> Rejected
      [] OTHER -> names[d]

\* Mutant of attached: a cached mapping is kept for good.
attachedForGood(d) == IF cache[d] # Absent THEN cache[d] ELSE attach(d)

\* A rejected device is not probed again; an emptied mapping is dropped and
\* its name probed afresh.
attached(d) ==
    IF cache[d] = Rejected \/ (cache[d] \in Segments /\ Occupied(cache[d]))
    THEN cache[d] ELSE attach(d)

\* The registrants of the segments attached in cch, with their policies.
Registrants(cch) ==
    {i \in Input : /\ cch[i.device] \in Segments
                   /\ i.policy = policies[i.label]
                   /\ \E k \in Slots : segments[cch[i.device]].pid[k] = i.label}

\* run's tick: stats() attaches every device and reads its registrants.
WeighTick ==
    /\ inputs = {} /\ stores = {}
    /\ cache' = [d \in Devices |-> attached(d)]
    /\ inputs' = Registrants(cache')
    /\ UNCHANGED <<names, segments, policies, stores>>

\* set_weight_on looks for the slots of its label ...
Match(i) ==
    /\ i \in inputs /\ stores = {}
    /\ cache' = [cache EXCEPT ![i.device] = attached(i.device)]
    /\ stores' = {x \in Target :
                    /\ x.device = i.device /\ x.policy = i.policy
                    /\ cache'[x.device] \in Segments
                    /\ segments[cache'[x.device]].pid[x.slot] = i.label}
    /\ inputs' = inputs \ {i}
    /\ UNCHANGED <<names, segments, policies>>

\* ... and stores the weight in each, whoever has the slot by now.
Store(x) ==
    /\ x \in stores
    /\ segments' = IF segments[cache[x.device]].pid[x.slot] = Free THEN segments
                   ELSE [segments EXCEPT ![cache[x.device]].weight[x.slot] = x.policy]
    /\ stores' = stores \ {x}
    /\ UNCHANGED <<names, policies, cache, inputs>>

Weigh ==
    \/ WeighTick
    \/ \E i \in inputs : Match(i)
    \/ \E x \in stores : Store(x)

LeaseExternal ==
    \/ \E d \in Devices :
          \/ \E s \in Segments : Create(d, s)
          \/ Initialise(d)
          \/ \E e \in Engines, k \in Slots : Register(e, d, k) \/ Deregister(e, d, k)
    \/ \E e \in Engines, p \in Policies : SetPolicy(e, p)

LeaseNext == Weigh \/ LeaseExternal

\* The loop ticks for as long as the process lives.
LeaseFairness == WF_leaseVars(Weigh)

-----------------------------------------------------------------------------

LeaseTypeOK ==
    /\ names \in [Devices -> Segments \cup {Absent}]
    /\ segments \in [Segments -> Segment]
    /\ policies \in [Engines -> Policies]
    /\ cache \in [Devices -> Segments \cup {Absent, Rejected}]
    /\ inputs \subseteq Input /\ stores \subseteq Target

\* The engine has a slot of the device's segment with the weight of p.
Weighted(e, d, p) ==
    \E k \in Slots : /\ segments[names[d]].pid[k] = e
                     /\ segments[names[d]].weight[k] = p

\* An engine that stays registered gets the weight of a policy that stays,
\* whatever segments were created, emptied, unlinked and replaced before, and
\* although a store may hit a slot that changed hands (lease.rs:199-201 "a
\* late-registering engine converges").  A device whose segment was once
\* rejected is not supervised again.
Converges ==
    \A e \in Engines, d \in Devices, p \in Policies :
        (RegisteredOn(e, d) /\ policies[e] = p)
            ~> (\/ ~RegisteredOn(e, d) \/ policies[e] # p
                \/ cache[d] = Rejected \/ Weighted(e, d, p))
=============================================================================
