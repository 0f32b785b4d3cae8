---------------------------- MODULE MCDispatcher ----------------------------
(***************************************************************************)
(* Instances of the dispatcher for TLC.  One run covers both a standalone  *)
(* server and a fleet node, which also unloads the model.                  *)
(***************************************************************************)
EXTENDS Dispatcher

VARIABLE fleet

mcvars == <<vars, fleet>>

\* Models and entries are interchangeable, so a run takes them in one order.
FirstModel == CHOOSE m \in Models : TRUE
FirstLock == CHOOSE l \in Locks : TRUE
InOrder ==
    /\ loaded' # {} => FirstModel \in loaded'
    /\ (\E l \in Locks : emodel'[l] # NoModel) => emodel'[FirstLock] # NoModel

MCNext ==
    /\ StandaloneNext \/ (fleet /\ (RemoveEntry \/ UnloadModel))
    /\ InOrder
    /\ UNCHANGED fleet

MCInit == Init /\ fleet \in BOOLEAN

\* Tasks are polled, native calls return, and the mutex is FIFO, so a waiter
\* that keeps finding it free in turn gets it.
LiveSpec ==
    /\ MCInit
    /\ [][MCNext]_mcvars
    /\ \A r \in Requests :
          /\ WF_mcvars(Dispatch(r) /\ InOrder /\ UNCHANGED fleet)
          /\ SF_mcvars(AcquireLock(r) /\ InOrder /\ UNCHANGED fleet)
          /\ WF_mcvars(CallReturns(r) /\ InOrder /\ UNCHANGED fleet)
    /\ \A l \in Locks :
          /\ WF_mcvars(WorkerTake(l) /\ InOrder /\ UNCHANGED fleet)
          /\ SF_mcvars(WorkerInvoke(l) /\ InOrder /\ UNCHANGED fleet)
          /\ WF_mcvars(WorkerAnswer(l) /\ InOrder /\ UNCHANGED fleet)

\* On a standalone server, whatever surfaces its requests come by and whenever
\* clients leave, a non-continuous predictor is never invoked concurrently and
\* dispatch never panics on an entry it has just ensured (mod.rs:101, 119, 132).
SoundAlone == ~fleet => Exclusive /\ NeverPanics
=============================================================================
