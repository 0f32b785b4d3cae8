----------------------------- MODULE Downloads ------------------------------
(***************************************************************************)
(* ServerClient::download (src/client.rs): downloads of one destination    *)
(* path, by clients of different models, take turns on a lock that is made *)
(* on demand in a process-global map and dropped when nobody holds it.     *)
(*                                                                         *)
(* A step is one critical section of the map's shard lock, or what a task  *)
(* does between two awaits.  A lock's reference count is the number of     *)
(* calls that hold a clone plus one for the map.  A call may be dropped at *)
(* any of its awaits: it then runs no cleanup.  muna::download is external *)
(* and publishes the file by an atomic rename.                             *)
(***************************************************************************)
EXTENDS Naturals, FiniteSets

CONSTANTS
    Paths,      \* destination paths
    Calls,      \* calls of download, each again and again
    Locks,      \* identities of Arc<Mutex<()>>
    NoLock,
    NoCall

ASSUME CallsAssumption == IsFiniteSet(Calls) /\ NoCall \notin Calls
ASSUME LocksAssumption == NoLock \notin Locks

VARIABLES
    locks,      \* download_locks(): the lock of each path, NoLock if absent
    holder,     \* the call that holds each lock's guard
    calls,      \* where each call is, on which path, with which clone
    files       \* the paths whose file is in place

downloadVars == <<locks, holder, calls, files>>

Idle == {"idle", "returned"}
Guarded == {"check", "fetch"}
Registered == {"wait", "leave"} \cup Guarded

Call == [pc : Idle \cup Registered \cup {"drop"}, path : Paths,
         lock : Locks \cup {NoLock}]

DownloadInit ==
    /\ locks = [p \in Paths |-> NoLock]
    /\ holder = [l \in Locks |-> NoCall]
    /\ calls \in [Calls -> [pc : {"idle"}, path : Paths, lock : {NoLock}]]
    /\ files = {}

holders(l) == {c \in Calls : calls[c].lock = l}

strong_count(l) == Cardinality(holders(l)) + 1

GoTo(c, pc) == calls' = [calls EXCEPT ![c].pc = pc]

Release(c) == holder' = [holder EXCEPT ![calls[c].lock] = NoCall]

\* A call looks up its path's lock or inserts a new one, and clones it.
Enter(c, p) ==
    /\ calls[c].pc \in Idle
    /\ \E l \in Locks :
          /\ IF locks[p] = NoLock
             THEN holders(l) = {} /\ \A q \in Paths : locks[q] # l
             ELSE l = locks[p]
          /\ locks' = [locks EXCEPT ![p] = l]
          /\ calls' = [calls EXCEPT ![c] = [pc |-> "wait", path |-> p, lock |-> l]]
    /\ UNCHANGED <<holder, files>>

Acquire(c) ==
    /\ calls[c].pc = "wait"
    /\ holder[calls[c].lock] = NoCall
    /\ holder' = [holder EXCEPT ![calls[c].lock] = c]
    /\ GoTo(c, "check")
    /\ UNCHANGED <<locks, files>>

\* The file is already in place.
Found(c) ==
    /\ calls[c].pc = "check"
    /\ calls[c].path \in files
    /\ Release(c)
    /\ GoTo(c, "leave")
    /\ UNCHANGED <<locks, files>>

\* The file is not in place, or asking failed (unwrap_or(false)).
StartFetch(c) ==
    /\ calls[c].pc = "check"
    /\ GoTo(c, "fetch")
    /\ UNCHANGED <<locks, holder, files>>

\* muna::download ends; ok: the file was renamed into place.
EndFetch(c, ok) ==
    /\ calls[c].pc = "fetch"
    /\ files' = IF ok THEN files \cup {calls[c].path} ELSE files
    /\ Release(c)
    /\ GoTo(c, "leave")
    /\ UNCHANGED locks

\* Mutant of Leave: an off-by-one in the reference count.
LeaveMiscounts(c) ==
    /\ calls[c].pc = "leave"
    /\ LET p == calls[c].path
       IN  locks' = IF locks[p] # NoLock /\ strong_count(locks[p]) <= 3
                    THEN [locks EXCEPT ![p] = NoLock] ELSE locks
    /\ GoTo(c, "drop")
    /\ UNCHANGED <<holder, files>>

\* remove_if looks at the lock the map holds now.
Leave(c) ==
    /\ calls[c].pc = "leave"
    /\ LET p == calls[c].path
       IN  locks' = IF locks[p] # NoLock /\ strong_count(locks[p]) <= 2
                    THEN [locks EXCEPT ![p] = NoLock] ELSE locks
    /\ GoTo(c, "drop")
    /\ UNCHANGED <<holder, files>>

\* The call returns, and its clone of the lock goes with it.
Return(c) ==
    /\ calls[c].pc = "drop"
    /\ calls' = [calls EXCEPT ![c].pc = "returned", ![c].lock = NoLock]
    /\ UNCHANGED <<locks, holder, files>>

\* Mutant of Cancel: a cancelled call's guard outlives it.
CancelKeepsGuard(c) ==
    /\ calls[c].pc \in {"wait"} \cup Guarded
    /\ calls' = [calls EXCEPT ![c].pc = "returned", ![c].lock = NoLock]
    /\ UNCHANGED <<locks, holder, files>>

\* The future is dropped while it waits, checks or fetches.
Cancel(c) ==
    /\ calls[c].pc \in {"wait"} \cup Guarded
    /\ IF calls[c].pc = "wait" THEN UNCHANGED holder ELSE Release(c)
    /\ calls' = [calls EXCEPT ![c].pc = "returned", ![c].lock = NoLock]
    /\ UNCHANGED <<locks, files>>

DownloadStep(c) ==
    \/ Acquire(c) \/ Found(c) \/ StartFetch(c)
    \/ \E ok \in BOOLEAN : EndFetch(c, ok)
    \/ Leave(c) \/ Return(c)

DownloadNext ==
    \E c \in Calls :
        \/ \E p \in Paths : Enter(c, p)
        \/ DownloadStep(c)
        \/ Cancel(c)

DownloadSpec == DownloadInit /\ [][DownloadNext]_downloadVars

\* The runtime polls every call, downloads end, and tokio's mutex is fair.
DownloadFairness ==
    \A c \in Calls : WF_downloadVars(DownloadStep(c)) /\ SF_downloadVars(Acquire(c))

-----------------------------------------------------------------------------

DownloadTypeOK ==
    /\ locks \in [Paths -> Locks \cup {NoLock}]
    /\ holder \in [Locks -> Calls \cup {NoCall}]
    /\ calls \in [Calls -> Call]
    /\ files \subseteq Paths

\* The call that is writing a path's file.
Fetching(c, p) == calls[c].pc = "fetch" /\ calls[c].path = p

fetcher ==
    [p \in Paths |->
        IF \E c \in Calls : Fetching(c, p)
        THEN CHOOSE c \in Calls : Fetching(c, p)
        ELSE NoCall]

SF == INSTANCE SingleFlight
        WITH Keys <- Paths, Workers <- Calls, Nobody <- NoCall, flight <- fetcher

\* Downloads of a path never overlap, whatever locks are made, shared, dropped
\* and made again while calls come, go and are cancelled (client.rs:103-136).
FlightSpec == SF!Spec

\* Every call returns although others of its path keep arriving and failing.
Returns == \A c \in Calls : (calls[c].pc = "wait") ~> (calls[c].pc = "returned")
=============================================================================
