-------------------------- MODULE BackgroundProofs --------------------------
(***************************************************************************)
(* What a server does beside its requests, for any number of everything:   *)
(* downloads are single-flight per path, the relay supervisor loses no     *)
(* relay, the lease supervisor touches only what it has validated, a       *)
(* shutdown cuts nothing off before its window, and the weight solver      *)
(* divides every device as its comments promise.                           *)
(*                                                                         *)
(* The danger in the download client is remove_if: it tests the lock the   *)
(* map holds now, which could be another call's.  LockInv says it cannot:  *)
(* a call between its lookup and its own remove_if always has the map's    *)
(* lock, so the test counts it.                                            *)
(***************************************************************************)
EXTENDS Downloads, RelaySupervisor, LeaseSupervisor, Lifetime, Shares, SumTheorems

-----------------------------------------------------------------------------
(* Downloads.                                                              *)

\* A call that has entered and not yet cleaned up has the lock the map holds
\* for its path; whoever checks or fetches holds that lock's guard; a lock
\* serves one path.
LockInv ==
    /\ \A c \in Calls : calls[c].pc \in Registered =>
          /\ calls[c].lock \in Locks
          /\ locks[calls[c].path] = calls[c].lock
    /\ \A c \in Calls : calls[c].pc \in Guarded => holder[calls[c].lock] = c
    /\ \A p, q \in Paths : locks[p] # NoLock /\ locks[p] = locks[q] => p = q

\* Two writers of one path are one.
OneFetch ==
    \A c, d \in Calls :
        calls[c].pc = "fetch" /\ calls[d].pc = "fetch"
            /\ calls[c].path = calls[d].path => c = d

DownloadInv == DownloadTypeOK /\ LockInv

\* A lock with two holders has a count that remove_if leaves alone.
LEMMA SharedLockCounts ==
    ASSUME NEW l, NEW c \in holders(l), NEW d \in holders(l), c # d
    PROVE  ~(strong_count(l) <= 2)
<1>1. IsFiniteSet(holders(l))
  BY CallsAssumption, FS_Subset DEF holders
<1>2. Cardinality({c, d}) = 2 /\ IsFiniteSet({c, d})
  <2>1. IsFiniteSet({c}) /\ Cardinality({c}) = 1
    BY FS_Singleton
  <2>2. Cardinality({c} \cup {d}) = 2 /\ IsFiniteSet({c} \cup {d})
    BY <2>1, FS_AddElement
  <2> QED
    BY <2>2, {c} \cup {d} = {c, d}
<1>3. Cardinality({c, d}) <= Cardinality(holders(l))
  BY <1>1, FS_Subset, {c, d} \subseteq holders(l)
<1>4. Cardinality(holders(l)) \in Nat
  BY <1>1, FS_CardinalityType
<1> QED
  BY <1>2, <1>3, <1>4 DEF strong_count

LEMMA DownloadTypeInit == DownloadInit => DownloadTypeOK
  BY DEF DownloadInit, DownloadTypeOK, Call, Idle

LEMMA DownloadTypeStep == DownloadTypeOK /\ [DownloadNext]_downloadVars => DownloadTypeOK'
<1> SUFFICES ASSUME DownloadTypeOK, [DownloadNext]_downloadVars PROVE DownloadTypeOK'
  OBVIOUS
<1> USE DEF DownloadTypeOK, Call, Idle, Registered, Guarded
<1>1. ASSUME NEW c \in Calls, NEW p \in Paths, Enter(c, p) PROVE DownloadTypeOK'
  BY <1>1 DEF Enter
<1>2. ASSUME NEW c \in Calls, Acquire(c) PROVE DownloadTypeOK'
  BY <1>2 DEF Acquire, GoTo
<1>3. ASSUME NEW c \in Calls, Found(c) PROVE DownloadTypeOK'
  BY <1>3 DEF Found, GoTo, Release
<1>4. ASSUME NEW c \in Calls, StartFetch(c) PROVE DownloadTypeOK'
  BY <1>4 DEF StartFetch, GoTo
<1>5. ASSUME NEW c \in Calls, NEW ok \in BOOLEAN, EndFetch(c, ok) PROVE DownloadTypeOK'
  BY <1>5 DEF EndFetch, GoTo, Release
<1>6. ASSUME NEW c \in Calls, Leave(c) PROVE DownloadTypeOK'
  BY <1>6 DEF Leave, GoTo
<1>7. ASSUME NEW c \in Calls, Return(c) PROVE DownloadTypeOK'
  BY <1>7 DEF Return
<1>8. ASSUME NEW c \in Calls, Cancel(c) PROVE DownloadTypeOK'
  <2>1. calls' \in [Calls -> Call]
    <3>1. [calls[c] EXCEPT !.pc = "returned", !.lock = NoLock] \in Call
      OBVIOUS
    <3>2. calls' = [calls EXCEPT ![c] = [calls[c] EXCEPT !.pc = "returned", !.lock = NoLock]]
      BY <1>8 DEF Cancel
    <3> QED
      BY <3>1, <3>2
  <2>2. holder' \in [Locks -> Calls \cup {NoCall}]
    BY <1>8 DEF Cancel, Release
  <2> QED
    BY <1>8, <2>1, <2>2 DEF Cancel
<1>9. CASE UNCHANGED downloadVars
  BY <1>9 DEF downloadVars
<1> QED
  BY <1>1, <1>2, <1>3, <1>4, <1>5, <1>6, <1>7, <1>8, <1>9 DEF DownloadNext, DownloadStep

LEMMA LockInit == DownloadInit => LockInv
  BY DEF DownloadInit, LockInv, Registered, Guarded

LEMMA LockStep == DownloadInv /\ [DownloadNext]_downloadVars => LockInv'
<1> SUFFICES ASSUME DownloadInv, [DownloadNext]_downloadVars PROVE LockInv'
  OBVIOUS
<1> USE DEF DownloadInv, DownloadTypeOK, LockInv, Call, Registered, Guarded, Idle
<1>1. ASSUME NEW c \in Calls, NEW p \in Paths, Enter(c, p) PROVE LockInv'
  <2> PICK l \in Locks :
        /\ IF locks[p] = NoLock
           THEN holders(l) = {} /\ \A q \in Paths : locks[q] # l
           ELSE l = locks[p]
        /\ locks' = [locks EXCEPT ![p] = l]
        /\ calls' = [calls EXCEPT ![c] = [pc |-> "wait", path |-> p, lock |-> l]]
    BY <1>1 DEF Enter
  <2>1. \A d \in Calls : d # c => calls'[d] = calls[d]
    OBVIOUS
  <2>2. \A d \in Calls \ {c} : calls[d].pc \in Registered => locks'[calls[d].path] = calls[d].lock
    BY LocksAssumption
  <2> QED
    BY <1>1, <2>1, <2>2, LocksAssumption DEF Enter
<1>2. ASSUME NEW c \in Calls, Acquire(c) PROVE LockInv'
  BY <1>2, CallsAssumption DEF Acquire, GoTo
<1>3. ASSUME NEW c \in Calls, Found(c) PROVE LockInv'
  BY <1>3 DEF Found, GoTo, Release
<1>4. ASSUME NEW c \in Calls, StartFetch(c) PROVE LockInv'
  BY <1>4 DEF StartFetch, GoTo
<1>5. ASSUME NEW c \in Calls, NEW ok \in BOOLEAN, EndFetch(c, ok) PROVE LockInv'
  BY <1>5 DEF EndFetch, GoTo, Release
<1>6. ASSUME NEW c \in Calls, Leave(c) PROVE LockInv'
  <2> DEFINE p == calls[c].path
  <2>1. \A d \in Calls : d # c => calls'[d] = calls[d]
    BY <1>6 DEF Leave, GoTo
  <2>2. calls'[c].pc = "drop"
    BY <1>6 DEF Leave, GoTo
  <2>3. ASSUME NEW d \in Calls, d # c, calls[d].pc \in Registered, calls[d].path = p
        PROVE  locks' = locks
    <3>1. c \in holders(locks[p]) /\ d \in holders(locks[p])
      BY <1>6, <2>3 DEF Leave, holders
    <3> QED
      BY <1>6, <2>3, <3>1, SharedLockCounts DEF Leave
  <2>4. \A q \in Paths : q # p => locks'[q] = locks[q]
    BY <1>6 DEF Leave
  <2>5. \A q \in Paths : locks'[q] \in {locks[q], NoLock}
    BY <1>6 DEF Leave
  <2>6. \A d \in Calls : calls'[d].pc \in Registered =>
          /\ calls'[d].lock \in Locks
          /\ locks'[calls'[d].path] = calls'[d].lock
    BY <2>1, <2>2, <2>3, <2>4
  <2>7. \A d \in Calls : calls'[d].pc \in Guarded => holder'[calls'[d].lock] = d
    BY <1>6, <2>1, <2>2 DEF Leave
  <2> QED
    BY <2>5, <2>6, <2>7
<1>7. ASSUME NEW c \in Calls, Return(c) PROVE LockInv'
  BY <1>7 DEF Return
<1>8. ASSUME NEW c \in Calls, Cancel(c) PROVE LockInv'
  BY <1>8 DEF Cancel, Release
<1>9. CASE UNCHANGED downloadVars
  BY <1>9 DEF downloadVars
<1> QED
  BY <1>1, <1>2, <1>3, <1>4, <1>5, <1>6, <1>7, <1>8, <1>9 DEF DownloadNext, DownloadStep

\* In every reachable state types hold and the map knows every active call.
LEMMA DownloadInvariance == DownloadSpec => []DownloadInv
<1>1. DownloadInit => DownloadInv
  BY DownloadTypeInit, LockInit DEF DownloadInv
<1>2. DownloadInv /\ [DownloadNext]_downloadVars => DownloadInv'
  BY DownloadTypeStep, LockStep DEF DownloadInv
<1> QED
  BY <1>1, <1>2, PTL DEF DownloadSpec

LEMMA OneFetchFollows == DownloadInv => OneFetch
  BY DEF DownloadInv, LockInv, OneFetch, Registered, Guarded

\* Two downloads never write one path at once.
THEOREM NeverTwoWriters == DownloadSpec => []OneFetch
  BY DownloadInvariance, OneFetchFollows, PTL


\* A path nobody fetches has no worker.
LEMMA FetcherNone ==
    ASSUME NEW p \in Paths, \A c \in Calls : ~Fetching(c, p)
    PROVE  fetcher[p] = NoCall
  BY DEF fetcher

\* A path's worker, if it has one, is a call that fetches that path.
LEMMA FetcherFetches ==
    ASSUME NEW p \in Paths, fetcher[p] # NoCall
    PROVE  fetcher[p] \in Calls /\ Fetching(fetcher[p], p)
  BY DEF fetcher

\* A path whose fetching calls stay the same keeps its worker.
LEMMA SameFetcher ==
    ASSUME NEW q \in Paths, \A d \in Calls : Fetching(d, q)' <=> Fetching(d, q)
    PROVE  fetcher'[q] = fetcher[q]
<1>1. (CHOOSE d \in Calls : Fetching(d, q)') = CHOOSE d \in Calls : Fetching(d, q)
  OBVIOUS
<1> QED
  BY <1>1 DEF fetcher

\* Nobody fetches at first.
LEMMA RefineInit == DownloadInit => SF!Init
  BY DEF DownloadInit, SF!Init, fetcher, Fetching

\* Downloads implement single-flight per path.
LEMMA RefineStep == DownloadInv /\ DownloadInv' /\ [DownloadNext]_downloadVars => [SF!Next]_fetcher
<1> SUFFICES ASSUME DownloadInv, DownloadInv', [DownloadNext]_downloadVars PROVE [SF!Next]_fetcher
  OBVIOUS
<1>0. OneFetch
  BY OneFetchFollows
<1>1. OneFetch'
  BY DEF DownloadInv, LockInv, OneFetch, Registered, Guarded
<1> USE DEF DownloadInv, DownloadTypeOK, Call, Registered, Guarded, Idle
<1>2. ASSUME NEW c \in Calls, StartFetch(c) PROVE [SF!Next]_fetcher
  <2> DEFINE p == calls[c].path
  <2>1. calls'[c].pc = "fetch" /\ calls'[c].path = p /\ p \in Paths
    BY <1>2 DEF StartFetch, GoTo
  <2>2. \A d \in Calls : d # c => calls'[d] = calls[d]
    BY <1>2 DEF StartFetch, GoTo
  <2>3. \A d \in Calls : ~Fetching(d, p)
    BY <1>2 DEF StartFetch, LockInv, Fetching
  <2>4. fetcher[p] = NoCall
    BY <2>1, <2>3, FetcherNone
  <2>5. fetcher'[p] = c
    BY <1>1, <2>1 DEF OneFetch, fetcher, Fetching
  <2>6. \A q \in Paths : q # p => fetcher'[q] = fetcher[q]
    <3> SUFFICES ASSUME NEW q \in Paths, q # p PROVE fetcher'[q] = fetcher[q]
      OBVIOUS
    <3>1. \A d \in Calls : Fetching(d, q)' <=> Fetching(d, q)
      BY <1>2, <2>1, <2>2 DEF Fetching, StartFetch
    <3> QED
      BY <3>1, SameFetcher
  <2>7. \A j \in Paths : fetcher[j] # c
    BY <1>2, FetcherFetches, CallsAssumption DEF StartFetch, Fetching
  <2>8. fetcher' = [fetcher EXCEPT ![p] = c]
    BY <2>1, <2>5, <2>6 DEF fetcher
  <2>9. SF!Begin(p, c)
    BY <2>4, <2>7, <2>8 DEF SF!Begin
  <2> QED
    BY <2>1, <2>9 DEF SF!Next
<1>3. ASSUME NEW c \in Calls, calls[c].pc = "fetch", calls'[c].pc # "fetch",
             \A d \in Calls : d # c => calls'[d] = calls[d]
      PROVE  [SF!Next]_fetcher
  <2> DEFINE p == calls[c].path
  <2>0. p \in Paths
    OBVIOUS
  <2>1. fetcher[p] = c
    BY <1>0, <1>3, <2>0 DEF OneFetch, fetcher, Fetching
  <2>2. \A d \in Calls : ~(calls'[d].pc = "fetch" /\ calls'[d].path = p)
    BY <1>0, <1>3 DEF OneFetch
  <2>3. fetcher'[p] = NoCall
    BY <2>0, <2>2 DEF fetcher, Fetching
  <2>4. \A q \in Paths : q # p => fetcher'[q] = fetcher[q]
    <3> SUFFICES ASSUME NEW q \in Paths, q # p PROVE fetcher'[q] = fetcher[q]
      OBVIOUS
    <3>1. \A d \in Calls : Fetching(d, q)' <=> Fetching(d, q)
      BY <1>3 DEF Fetching
    <3> QED
      BY <3>1, SameFetcher
  <2>5. fetcher' = [fetcher EXCEPT ![p] = NoCall]
    BY <2>0, <2>3, <2>4 DEF fetcher
  <2>6. SF!End(p)
    BY <2>1, <2>5, CallsAssumption DEF SF!End
  <2> QED
    BY <2>0, <2>6 DEF SF!Next
<1>4. ASSUME \A d \in Calls : (calls[d].pc = "fetch" <=> calls'[d].pc = "fetch")
                              /\ (calls[d].pc = "fetch" => calls'[d].path = calls[d].path)
      PROVE  [SF!Next]_fetcher
  <2>1. \A q \in Paths, d \in Calls : Fetching(d, q)' <=> Fetching(d, q)
    BY <1>4 DEF Fetching
  <2>2. \A q \in Paths : fetcher'[q] = fetcher[q]
    BY <2>1, SameFetcher
  <2>3. fetcher' = fetcher
    BY <2>2 DEF fetcher
  <2> QED
    BY <2>3
<1>5. ASSUME NEW c \in Calls, NEW p \in Paths, Enter(c, p) PROVE [SF!Next]_fetcher
  BY <1>4, <1>5 DEF Enter
<1>6. ASSUME NEW c \in Calls, Acquire(c) \/ Found(c) \/ Leave(c) \/ Return(c)
      PROVE  [SF!Next]_fetcher
  BY <1>4, <1>6 DEF Acquire, Found, Leave, Return, GoTo
<1>7. ASSUME NEW c \in Calls, NEW ok \in BOOLEAN, EndFetch(c, ok) PROVE [SF!Next]_fetcher
  BY <1>3, <1>7 DEF EndFetch, GoTo
<1>8. ASSUME NEW c \in Calls, Cancel(c) PROVE [SF!Next]_fetcher
  <2>1. CASE calls[c].pc = "fetch"
    BY <1>3, <1>8, <2>1 DEF Cancel
  <2>2. CASE calls[c].pc # "fetch"
    BY <1>4, <1>8, <2>2 DEF Cancel
  <2> QED
    BY <2>1, <2>2
<1>9. CASE UNCHANGED downloadVars
  BY <1>4, <1>9 DEF downloadVars
<1> QED
  BY <1>2, <1>5, <1>6, <1>7, <1>8, <1>9 DEF DownloadNext, DownloadStep

\* Downloads of a path are single-flight (client.rs:103-136).
THEOREM DownloadsAreSingleFlight == DownloadSpec => FlightSpec
  BY DownloadInvariance, RefineInit, RefineStep, PTL DEF DownloadSpec, FlightSpec, SF!Spec

-----------------------------------------------------------------------------
(* The relay supervisor.                                                   *)

\* The tags a scan has still to look at have no task, so attaching one
\* replaces nothing.
ScanInv ==
    /\ \A t \in todo : tasks[t] = NoRelay
    /\ pc = "predict" => found.tag \in todo
    /\ \A t \in Tags : tasks[t] # NoRelay => relays[tasks[t]].tag = t

\* The shutdown token is the parent of every token, older and newer.
StopInv ==
    /\ shutdown => \A r \in Relays : ~Live(r)
    /\ pc \in {"await", "returned"} => shutdown
    /\ pc = "returned" =>
          \A t \in Tags : tasks[t] # NoRelay => ~relays[tasks[t]].running

SupervisorInv == TypeOK /\ ScanInv /\ Owned /\ StopInv

LEMMA SupervisorInit == Init => SupervisorInv
<1> SUFFICES ASSUME Init PROVE SupervisorInv
  OBVIOUS
<1> USE NoRelayAssumption, MaxLoadsAssumption DEF Init
<1>1. TypeOK
  <2>3. relays \in [Relays -> Relay]
    OBVIOUS
  <2>4. found \in [tag : Tags, engine : 0..MaxLoads]
    OBVIOUS
  <2> QED
    BY <2>3, <2>4 DEF TypeOK
<1>2. \A r \in Relays : ~Live(r)
  BY DEF Live
<1> QED
  BY <1>1, <1>2 DEF SupervisorInv, ScanInv, Owned, StopInv

\* Relays that only stop running or get cancelled disturb nothing.
LEMMA RelaysEnd ==
    ASSUME SupervisorInv, relays' \in [Relays -> Relay], UNCHANGED <<ready, loads, shutdown, sup>>,
           \A r \in Relays : relays'[r].tag = relays[r].tag
                             /\ (relays'[r].running => relays[r].running)
                             /\ (relays[r].cancelled => relays'[r].cancelled)
    PROVE  SupervisorInv'
<1> USE DEF SupervisorInv, TypeOK, sup
<1>1. TypeOK'
  OBVIOUS
<1>2. ScanInv'
  BY DEF ScanInv
<1>3. Owned'
  BY DEF Owned, Live
<1>4. StopInv'
  BY DEF StopInv, Live, Relay
<1> QED
  BY <1>1, <1>2, <1>3, <1>4

LEMMA SupervisorStep == SupervisorInv /\ [Next]_vars => SupervisorInv'
<1> SUFFICES ASSUME SupervisorInv, [Next]_vars PROVE SupervisorInv'
  OBVIOUS
<1> USE NoRelayAssumption, MaxLoadsAssumption DEF env, sup
<1>1. ASSUME NEW t \in Tags, Load(t) PROVE SupervisorInv'
  BY <1>1 DEF Load, SupervisorInv, TypeOK, ScanInv, Owned, StopInv, Live, Relay
<1>2. ASSUME NEW t \in Tags, Unload(t) PROVE SupervisorInv'
  BY <1>2 DEF Unload, SupervisorInv, TypeOK, ScanInv, Owned, StopInv, Live, Relay
<1>3. CASE Shutdown
  <2>1. TypeOK'
    BY <1>3 DEF Shutdown, SupervisorInv, TypeOK, Relay
  <2>2. \A r \in Relays : relays'[r].cancelled /\ relays'[r].tag = relays[r].tag
                          /\ relays'[r].running = relays[r].running
    BY <1>3 DEF Shutdown, SupervisorInv, TypeOK, Relay
  <2> QED
    BY <1>3, <2>1, <2>2 DEF Shutdown, SupervisorInv, TypeOK, ScanInv, Owned, StopInv, Live
<1>4. ASSUME NEW r \in Relays, RelayReturns(r) \/ RelayPanics(r) PROVE SupervisorInv'
  <2>1. relays' \in [Relays -> Relay]
    <3>1. relays' = [relays EXCEPT ![r].running = FALSE]
      BY <1>4 DEF RelayReturns, RelayPanics
    <3>2. [relays[r] EXCEPT !.running = FALSE] \in Relay
      <4>1. relays[r] \in Relay
        BY DEF SupervisorInv, TypeOK
      <4> QED
        BY <4>1 DEF Relay
    <3> QED
      BY <3>1, <3>2 DEF SupervisorInv, TypeOK
  <2> QED
    BY <1>4, <2>1, RelaysEnd DEF RelayReturns, RelayPanics, SupervisorInv, TypeOK, Relay
<1>5. CASE Tick
  <2>1. TypeOK'
    BY <1>5 DEF Tick, SupervisorInv, TypeOK, Relay, Ready
  <2>2. \A t \in Tags : tasks'[t] \in {tasks[t], NoRelay}
    BY <1>5 DEF Tick, SupervisorInv, TypeOK
  <2>3. \A r \in Relays : relays'[r].tag = relays[r].tag /\ relays'[r].running = relays[r].running
                          /\ (relays[r].cancelled => relays'[r].cancelled)
    BY <1>5 DEF Tick, SupervisorInv, TypeOK, Relay
  <2>4. ScanInv'
    <3>1. \A t \in todo' : tasks'[t] = NoRelay
      BY <1>5 DEF Tick, SupervisorInv, TypeOK, Ready
    <3>2. pc' # "predict"
      BY <1>5 DEF Tick
    <3> QED
      BY <2>1, <2>2, <2>3, <3>1, <3>2 DEF ScanInv, SupervisorInv, TypeOK
  <2>5. Owned'
    <3> SUFFICES ASSUME NEW r \in Relays, Live(r)' PROVE tasks'[relays'[r].tag] = r
      BY DEF Owned
    <3> DEFINE t == relays[r].tag
    <3>1. Live(r) /\ tasks[t] = r /\ t \in Tags /\ relays'[r].tag = t
      BY <2>3 DEF Live, SupervisorInv, Owned, TypeOK, Relay
    <3>2. t \in Ready
      <4> SUFFICES ASSUME t \notin Ready PROVE FALSE
        OBVIOUS
      <4>1. r \in Dropped
        BY <3>1 DEF Dropped
      <4>2. relays'[r].cancelled
        BY <1>5, <4>1 DEF Tick, SupervisorInv, TypeOK, Relay
      <4> QED
        BY <4>2 DEF Live
    <3>3. t \in Kept
      BY <3>1, <3>2 DEF Kept, Live
    <3> QED
      BY <1>5, <3>1, <3>3 DEF Tick
  <2>6. StopInv'
    BY <1>5, <2>2, <2>3 DEF Tick, StopInv, Live, SupervisorInv, TypeOK, Relay
  <2> QED
    BY <2>1, <2>4, <2>5, <2>6 DEF SupervisorInv
<1>6. ASSUME NEW t \in Tags, DiscoverGone(t) PROVE SupervisorInv'
  BY <1>6 DEF DiscoverGone, NextTag, SupervisorInv, TypeOK, ScanInv, Owned, StopInv, Live
<1>7. ASSUME NEW t \in Tags, Discover(t) PROVE SupervisorInv'
  BY <1>7 DEF Discover, SupervisorInv, TypeOK, ScanInv, Owned, StopInv, Live
<1>8. CASE PredictFails
  BY <1>8 DEF PredictFails, NextTag, SupervisorInv, TypeOK, ScanInv, Owned, StopInv, Live
<1>9. ASSUME NEW r \in Relays, Attach(r) PROVE SupervisorInv'
  <2> DEFINE t == found.tag
  <2>0. t \in Tags /\ t \in todo /\ tasks[t] = NoRelay /\ found.engine \in 0..MaxLoads
    BY <1>9 DEF Attach, SupervisorInv, TypeOK, ScanInv
  <2>1. relays'[r] = [tag |-> t, engine |-> found.engine, cancelled |-> shutdown,
                      running |-> TRUE]
        /\ \A s \in Relays \ {r} : relays'[s] = relays[s]
    BY <1>9 DEF Attach, SupervisorInv, TypeOK
  <2>2. tasks' = [tasks EXCEPT ![t] = r] /\ todo' = todo \ {t} /\ pc' \in {"select", "scan"}
    BY <1>9 DEF Attach, NextTag
  <2>3. TypeOK'
    BY <1>9, <2>0, <2>2 DEF Attach, SupervisorInv, TypeOK, Relay
  <2>4. ScanInv'
    BY <1>9, <2>0, <2>1, <2>2 DEF Attach, SupervisorInv, TypeOK, ScanInv
  <2>5. Owned'
    <3> SUFFICES ASSUME NEW s \in Relays, Live(s)' PROVE tasks'[relays'[s].tag] = s
      BY DEF Owned
    <3>1. CASE s = r
      BY <2>0, <2>1, <2>2, <3>1 DEF SupervisorInv, TypeOK
    <3>2. CASE s # r
      <4>1. Live(s) /\ tasks[relays[s].tag] = s /\ relays[s].tag \in Tags
        BY <2>1, <3>2 DEF Live, SupervisorInv, Owned, TypeOK, Relay
      <4> QED
        BY <2>0, <2>1, <2>2, <3>2, <4>1 DEF SupervisorInv, TypeOK
    <3> QED
      BY <3>1, <3>2
  <2>6. StopInv'
    BY <1>9, <2>1, <2>2 DEF Attach, SupervisorInv, TypeOK, StopInv, Live
  <2> QED
    BY <2>3, <2>4, <2>5, <2>6 DEF SupervisorInv
<1>10. CASE Stop
  BY <1>10 DEF Stop, SupervisorInv, TypeOK, ScanInv, Owned, StopInv, Live
<1>11. CASE Awaited
  BY <1>11 DEF Awaited, SupervisorInv, TypeOK, ScanInv, Owned, StopInv, Live
<1>12. CASE UNCHANGED vars
  BY <1>12 DEF vars, SupervisorInv, TypeOK, ScanInv, Owned, StopInv, Live
<1> QED
  BY <1>1, <1>2, <1>3, <1>4, <1>5, <1>6, <1>7, <1>8, <1>9, <1>10, <1>11, <1>12
     DEF Next, Supervise

LEMMA SupervisorInvariance == Spec => []SupervisorInv
  BY SupervisorInit, SupervisorStep, PTL DEF Spec

\* Every variable of the supervisor keeps its type.
THEOREM SupervisorTyped == Spec => []TypeOK
  BY SupervisorInvariance, PTL DEF SupervisorInv

\* A relay that is not cancelled can still be cancelled, and a tag never has
\* two (kv_relay.rs:88).
THEOREM RelaysAreOwned == Spec => []Owned
  BY SupervisorInvariance, PTL DEF SupervisorInv

\* When the supervisor returns, every relay in its map is over and every
\* retired one is cancelled (kv_relay.rs:113-118).
THEOREM NothingRunsOn == Spec => []StopsAll
<1>1. SupervisorInv => StopsAll
  BY NoRelayAssumption DEF SupervisorInv, StopInv, StopsAll, Live, TypeOK
<1> QED
  BY <1>1, SupervisorInvariance, PTL

-----------------------------------------------------------------------------
(* The lease supervisor.                                                   *)

\* The supervisor's loads and stores through raw pointers go to segments it
\* has mapped, and every segment it has mapped was initialised, with this
\* ABI's layout, whatever the engines have done to its name since
\* (lease.rs:209-216 and 345-360).
Validated ==
    /\ \A d \in Devices : cache[d] \in Segments =>
          segments[cache[d]].magic /\ segments[cache[d]].abi
    /\ \A x \in stores : cache[x.device] \in Segments

LeaseInv == LeaseTypeOK /\ Validated

USE DefaultAssumption, FreeAssumption, AbsentAssumption

LEMMA LeaseInitInv == LeaseInit => LeaseInv
  BY DEF LeaseInit, LeaseInv, LeaseTypeOK, Validated, Blank, Segment

\* What attached answers is a mapping it has validated, or none.
LEMMA AttachedIsValid ==
    ASSUME LeaseTypeOK, Validated, NEW d \in Devices
    PROVE  /\ attached(d) \in Segments \cup {Absent, Rejected}
           /\ attached(d) \in Segments =>
                 segments[attached(d)].magic /\ segments[attached(d)].abi
<1>1. /\ attach(d) \in Segments \cup {Absent, Rejected}
      /\ attach(d) \in Segments =>
            segments[attach(d)].magic /\ segments[attach(d)].abi
  BY DEF attach, LeaseTypeOK, Segment
<1>2. attached(d) = cache[d] \/ attached(d) = attach(d)
  BY DEF attached
<1>3. cache[d] \in Segments \cup {Absent, Rejected}
  BY DEF LeaseTypeOK
<1> QED
  BY <1>1, <1>2, <1>3 DEF Validated

LEMMA LeaseStep == LeaseInv /\ [LeaseNext]_leaseVars => LeaseInv'
<1> SUFFICES ASSUME LeaseTypeOK, Validated, [LeaseNext]_leaseVars
             PROVE  LeaseTypeOK' /\ Validated'
  BY DEF LeaseInv
<1>1. ASSUME NEW d \in Devices, NEW s \in Segments, Create(d, s)
      PROVE  LeaseTypeOK' /\ Validated'
  <2>1. LeaseTypeOK'
    <3>1. PICK abi \in BOOLEAN : segments' = [segments EXCEPT ![s] = [Blank EXCEPT !.abi = abi]]
      BY <1>1 DEF Create
    <3>2. [Blank EXCEPT !.abi = abi] \in Segment
      BY DEF Blank, Segment
    <3>3. segments' \in [Segments -> Segment]
      BY <3>1, <3>2 DEF LeaseTypeOK
    <3>4. names' \in [Devices -> Segments \cup {Absent}]
      BY <1>1 DEF Create, LeaseTypeOK
    <3> QED
      BY <1>1, <3>3, <3>4 DEF Create, ext, LeaseTypeOK
  <2>2. Validated'
    BY <1>1 DEF Create, ext, LeaseTypeOK, Validated, Segment, Target
  <2> QED
    BY <2>1, <2>2
<1>2. ASSUME NEW d \in Devices, Initialise(d)
      PROVE  LeaseTypeOK' /\ Validated'
  <2>1. LeaseTypeOK'
    BY <1>2 DEF Initialise, ext, LeaseTypeOK, Segment
  <2>2. Validated'
    BY <1>2 DEF Initialise, ext, LeaseTypeOK, Validated, Segment, Target
  <2> QED
    BY <2>1, <2>2
<1>3. ASSUME NEW e \in Engines, NEW d \in Devices, NEW k \in Slots, Register(e, d, k)
      PROVE  LeaseTypeOK' /\ Validated'
  <2>1. LeaseTypeOK'
    <3>1. [segments[names[d]] EXCEPT !.pid[k] = e] \in Segment
      BY <1>3 DEF Register, LeaseTypeOK, Segment
    <3>2. segments' = [segments EXCEPT ![names[d]] = [segments[names[d]] EXCEPT !.pid[k] = e]]
      BY <1>3 DEF Register, LeaseTypeOK
    <3>3. segments' \in [Segments -> Segment]
      BY <3>1, <3>2 DEF LeaseTypeOK
    <3> QED
      BY <1>3, <3>3 DEF Register, ext, LeaseTypeOK
  <2>2. Validated'
    BY <1>3 DEF Register, ext, LeaseTypeOK, Validated, Segment, Target
  <2> QED
    BY <2>1, <2>2
<1>4. ASSUME NEW e \in Engines, NEW d \in Devices, NEW k \in Slots, Deregister(e, d, k)
      PROVE  LeaseTypeOK' /\ Validated'
  <2>1. LeaseTypeOK'
    <3> DEFINE freed == [segments EXCEPT ![names[d]].pid[k] = Free]
    <3>1. freed \in [Segments -> Segment]
      BY <1>4 DEF Deregister, LeaseTypeOK, Segment
    <3>2. segments' = [freed EXCEPT ![names[d]].weight[k] = Unset]
      BY <1>4 DEF Deregister
    <3>3. segments' \in [Segments -> Segment]
      <4> HIDE DEF freed
      <4>1. freed[names[d]] \in Segment
        BY <1>4, <3>1 DEF Deregister
      <4>2. [freed[names[d]] EXCEPT !.weight[k] = Unset] \in Segment
        BY <4>1 DEF Segment
      <4> QED
        BY <3>1, <3>2, <4>2
    <3>4. names' \in [Devices -> Segments \cup {Absent}]
      BY <1>4 DEF Deregister, LeaseTypeOK
    <3> QED
      BY <1>4, <3>3, <3>4 DEF Deregister, ext, LeaseTypeOK
  <2>2. Validated'
    BY <1>4 DEF Deregister, ext, LeaseTypeOK, Validated, Segment, Target
  <2> QED
    BY <2>1, <2>2
<1>5. ASSUME NEW e \in Engines, NEW p \in Policies, SetPolicy(e, p)
      PROVE  LeaseTypeOK' /\ Validated'
  BY <1>5 DEF SetPolicy, ext, LeaseTypeOK, Validated
<1>6. CASE WeighTick
  <2>1. \A d \in Devices : cache'[d] = attached(d)
    BY <1>6 DEF WeighTick
  <2>2. cache' \in [Devices -> Segments \cup {Absent, Rejected}]
    BY <1>6, AttachedIsValid DEF WeighTick
  <2>3. inputs' \subseteq Input
    BY <1>6 DEF WeighTick, Registrants
  <2>4. Validated'
    BY <1>6, <2>1, AttachedIsValid DEF WeighTick, Validated
  <2> QED
    BY <1>6, <2>2, <2>3, <2>4 DEF WeighTick, LeaseTypeOK
<1>7. ASSUME NEW i \in inputs, Match(i)
      PROVE  LeaseTypeOK' /\ Validated'
  <2>1. i.device \in Devices /\ cache' = [cache EXCEPT ![i.device] = attached(i.device)]
    BY <1>7 DEF Match, LeaseTypeOK, Input
  <2>2. cache' \in [Devices -> Segments \cup {Absent, Rejected}]
    BY <2>1, AttachedIsValid DEF LeaseTypeOK
  <2>3. stores' \subseteq Target /\ \A x \in stores' : cache'[x.device] \in Segments
    BY <1>7 DEF Match
  <2>4. \A d \in Devices : cache'[d] \in Segments =>
            segments[cache'[d]].magic /\ segments[cache'[d]].abi
    BY <2>1, AttachedIsValid DEF LeaseTypeOK, Validated
  <2> QED
    BY <1>7, <2>2, <2>3, <2>4 DEF Match, LeaseTypeOK, Validated
<1>8. ASSUME NEW x \in stores, Store(x)
      PROVE  LeaseTypeOK' /\ Validated'
  <2>1. x \in Target /\ cache[x.device] \in Segments
    BY DEF LeaseTypeOK, Validated
  <2>2. LeaseTypeOK'
    <3> DEFINE s == cache[x.device]
    <3>1. [segments[s] EXCEPT !.weight[x.slot] = x.policy] \in Segment
      BY <2>1 DEF LeaseTypeOK, Segment, Target
    <3>2. \/ segments' = segments
          \/ segments' = [segments EXCEPT ![s] = [segments[s] EXCEPT !.weight[x.slot] = x.policy]]
      BY <1>8, <2>1 DEF Store, LeaseTypeOK
    <3>3. segments' \in [Segments -> Segment]
      BY <2>1, <3>1, <3>2 DEF LeaseTypeOK
    <3> QED
      BY <1>8, <3>3 DEF Store, LeaseTypeOK
  <2>3. Validated'
    BY <1>8, <2>1 DEF Store, LeaseTypeOK, Validated, Segment, Target
  <2> QED
    BY <2>2, <2>3
<1>9. CASE UNCHANGED leaseVars
  BY <1>9 DEF leaseVars, LeaseTypeOK, Validated
<1> QED
  BY <1>1, <1>2, <1>3, <1>4, <1>5, <1>6, <1>7, <1>8, <1>9
     DEF LeaseNext, Weigh, LeaseExternal

LEMMA LeaseInvariance == LeaseInit /\ [][LeaseNext]_leaseVars => []LeaseInv
  BY LeaseInitInv, LeaseStep, PTL

\* Types.
THEOREM LeaseTyped == LeaseInit /\ [][LeaseNext]_leaseVars => []LeaseTypeOK
<1>1. LeaseInv => LeaseTypeOK
  BY DEF LeaseInv
<1> QED
  BY <1>1, LeaseInvariance, PTL

\* The supervisor touches only segments whose header it has validated, for
\* every interleaving of its loads and stores with the engines' steps.
THEOREM TouchesOnlyValidated == LeaseInit /\ [][LeaseNext]_leaseVars => []Validated
<1>1. LeaseInv => Validated
  BY DEF LeaseInv
<1> QED
  BY <1>1, LeaseInvariance, PTL

-----------------------------------------------------------------------------
(* Shutdown.                                                               *)

\* serve waits for the loops only after DRAIN_TIMEOUT or once no connection is
\* left, and none comes after that: so what the runtime then drops had its
\* window.
WindowInv ==
    /\ main = "loops" =>
          \/ "DRAIN_TIMEOUT" \in passed
          \/ \A c \in Conns : conns[c] \notin {"open", "running"}
    /\ conns \in [Conns -> {"none", "open", "refused", "running", "done", "closed", "cut"}]
    /\ natives \in [Conns -> {"none", "running", "over"}]
    /\ loops \in [Loops -> {"running", "last", "done", "cut"}]

LifeInv == WindowInv /\ CutOffLate

LEMMA LifeInitInv == LifeInit => LifeInv
  BY DEF LifeInit, LifeInv, WindowInv, CutOffLate

\* A step that leaves main, its timeouts, the connections and the loops alone.
LEMMA LifeElsewhere ==
    ASSUME LifeInv, UNCHANGED <<main, passed, conns, natives, loops>>
    PROVE  LifeInv'
  BY DEF LifeInv, WindowInv, CutOffLate

\* The steps of one connection.
LEMMA ConnectionStep ==
    ASSUME LifeInv, NEW c \in Conns,
           Connect(c) \/ Handle(c) \/ Close(c) \/ NativeReturns(c)
    PROVE  LifeInv'
<1>1. CASE Connect(c)
  BY <1>1 DEF Connect, LifeInv, WindowInv, CutOffLate
<1>2. CASE Handle(c)
  BY <1>2 DEF Handle, LifeInv, WindowInv, CutOffLate
<1>3. CASE Close(c)
  BY <1>3 DEF Close, LifeInv, WindowInv, CutOffLate
<1>4. CASE NativeReturns(c)
  BY <1>4 DEF NativeReturns, LifeInv, WindowInv, CutOffLate
<1> QED
  BY <1>1, <1>2, <1>3, <1>4

\* The steps of one loop.
LEMMA LoopStep ==
    ASSUME LifeInv, NEW l \in Loops, LoopNotices(l) \/ LoopReturns(l)
    PROVE  LifeInv'
  BY DEF LoopNotices, LoopReturns, LifeInv, WindowInv, CutOffLate

\* main returns: what is left is cut off.
LEMMA DropStep ==
    ASSUME LifeInv, main = "loops", LoopsEnd \/ LoopsTimeOut
    PROVE  LifeInv'
<1>1. WindowInv'
  BY DEF LoopsEnd, LoopsTimeOut, RuntimeDrop, LifeInv, WindowInv
<1>2. ((\E c \in Conns : conns[c] = "cut") => "DRAIN_TIMEOUT" \in passed)'
  BY DEF LoopsEnd, LoopsTimeOut, RuntimeDrop, LifeInv, WindowInv, CutOffLate
<1>3. ((\E l \in Loops : loops[l] = "cut") => "LOOP_SHUTDOWN_TIMEOUT" \in passed)'
  <2>1. CASE LoopsEnd
    BY <2>1 DEF LoopsEnd, RuntimeDrop, LifeInv, CutOffLate
  <2>2. CASE LoopsTimeOut
    BY <2>2 DEF LoopsTimeOut, RuntimeDrop
  <2> QED
    BY <2>1, <2>2
<1> QED
  BY <1>1, <1>2, <1>3 DEF LifeInv, CutOffLate

LEMMA LifeStep == LifeInv /\ [LifeNext]_lifeVars => LifeInv'
<1> SUFFICES ASSUME LifeInv, [LifeNext]_lifeVars PROVE LifeInv'
  OBVIOUS
<1>1. ASSUME NEW k \in Signals, Raise(k) PROVE LifeInv'
  BY <1>1, LifeElsewhere DEF Raise
<1>2. ASSUME Watch PROVE LifeInv'
  <2>1. CASE CancelToken
    BY <2>1, LifeElsewhere DEF CancelToken
  <2>2. ASSUME NEW k \in Signals, FirstSignal(k) PROVE LifeInv'
    BY <2>2, LifeElsewhere DEF FirstSignal
  <2>3. ASSUME NEW k \in Signals, SecondSignal(k) PROVE LifeInv'
    BY <2>3 DEF SecondSignal, LifeInv, WindowInv, CutOffLate
  <2> QED
    BY <1>2, <2>1, <2>2, <2>3 DEF Watch
<1>3. CASE AdoptDrainFlag
  BY <1>3, LifeElsewhere DEF AdoptDrainFlag
<1>4. CASE DrainRequest
  BY <1>4, LifeElsewhere DEF DrainRequest
<1>5. CASE ServerEnds
  BY <1>5 DEF ServerEnds, LifeInv, WindowInv, CutOffLate
<1>6. CASE WindowPasses
  BY <1>6 DEF WindowPasses, LifeInv, WindowInv, CutOffLate
<1>7. CASE LoopsEnd \/ LoopsTimeOut
  BY <1>7, DropStep DEF LoopsEnd, LoopsTimeOut
<1>8. CASE Exit
  BY <1>8 DEF Exit, LifeInv, WindowInv, CutOffLate
<1>9. CASE UNCHANGED lifeVars
  BY <1>9, LifeElsewhere DEF lifeVars
<1> QED
  BY <1>1, <1>2, <1>3, <1>4, <1>5, <1>6, <1>7, <1>8, <1>9, ConnectionStep, LoopStep
     DEF LifeNext, Serve

\* A request is cut off only after DRAIN_TIMEOUT and a loop only after
\* LOOP_SHUTDOWN_TIMEOUT, whatever signals, requests and loops do.
THEOREM NothingCutOffEarly == LifeInit /\ [][LifeNext]_lifeVars => []CutOffLate
<1>1. LifeInv => CutOffLate
  BY DEF LifeInv
<1> QED
  BY <1>1, LifeInitInv, LifeStep, PTL

-----------------------------------------------------------------------------
(* The split of one device.  D are the demands and s the shares of the     *)
(* indices I of problem p.                                                 *)

FloorOf(p, D, i) == Min({p[i].min_share, D[i]})

FloorsOf(p, I, D) == SumFunctionOnSet([i \in I |-> FloorOf(p, D, i)], I)

ValueSum(p, I) == SumFunctionOnSet([i \in I |-> p[i].value], I)

Met(D, s, i) == D[i] - s[i] <= Epsilon

\* Nobody has more than its floor while a higher value wants more, and equal
\* values that compete have equal extras.
InTurn(p, I, D, s) ==
    \A i, j \in I : ~Met(D, s, i) =>
        /\ p[i].value > p[j].value => s[j] = FloorOf(p, D, j)
        /\ p[i].value = p[j].value => s[j] - FloorOf(p, D, j) <= s[i] - FloorOf(p, D, i)

\* Shares between floor and demand that leave so much of the device.
Divided(p, I, D, s, left) ==
    /\ \A i \in I : FloorOf(p, D, i) <= s[i] /\ s[i] <= D[i]
    /\ FloorsOf(p, I, D) <= Unit => SumFunctionOnSet(s, I) + left = Unit
    /\ FloorsOf(p, I, D) > Unit => left = 0 /\ \A i \in I : s[i] = FloorOf(p, D, i)
    /\ InTurn(p, I, D, s)

Portion(p, I, left, i) ==
    IF ValueSum(p, I) = 0 THEN 0 ELSE (left * p[i].value) \div ValueSum(p, I)

\* What solve_shares returns: base is the shares before the leftovers.
Rests(p, I, D, s, base, left) ==
    /\ Divided(p, I, D, base, left)
    /\ left <= Epsilon \/ \A i \in I : Met(D, base, i)
    /\ \A i \in I : s[i] = base[i] + Portion(p, I, left, i)

Solved(p, I, D, s) ==
    \E base \in [I -> Nat], left \in Nat : Rests(p, I, D, s, base, left)

Sized(p, I, D) ==
    /\ IsFiniteSet(I)
    /\ \A i \in I : D[i] \in Nat /\ p[i].min_share \in Nat /\ p[i].value \in Nat

LEMMA FloorIs ==
    ASSUME NEW p, NEW I, NEW D, Sized(p, I, D), NEW i \in I
    PROVE  /\ FloorOf(p, D, i) \in Nat
           /\ FloorOf(p, D, i) <= D[i] /\ FloorOf(p, D, i) <= p[i].min_share
           /\ FloorOf(p, D, i) \in {D[i], p[i].min_share}
<1>1. {p[i].min_share, D[i]} \in SUBSET Nat
  BY DEF Sized
<1> QED
  BY <1>1, LeastIs DEF FloorOf

LEMMA FloorsType ==
    ASSUME NEW p, NEW I, NEW D, Sized(p, I, D)
    PROVE  FloorsOf(p, I, D) \in Nat
<1> DEFINE f == [i \in I |-> FloorOf(p, D, i)]
<1>1. \A i \in I : f[i] \in Nat
  BY FloorIs
<1> HIDE DEF f
<1>2. SumFunctionOnSet(f, I) \in Nat
  BY <1>1, SumType DEF Sized
<1> QED
  BY <1>2 DEF FloorsOf, f

LEMMA ValuesAre ==
    ASSUME NEW p, NEW I, NEW D, Sized(p, I, D)
    PROVE  /\ ValueSum(p, I) \in Nat
           /\ \A i \in I : p[i].value <= ValueSum(p, I)
<1> DEFINE f == [i \in I |-> p[i].value]
<1>1. /\ \A i \in I : f[i] \in Nat /\ f[i] \in Int /\ f[i] = p[i].value
      /\ IsFiniteSet(I)
  BY DEF Sized
<1>2. ValueSum(p, I) = SumFunctionOnSet(f, I)
  BY DEF ValueSum
<1> HIDE DEF f
<1>3. SumFunctionOnSet(f, I) \in Nat
  BY <1>1, SumType
<1>4. ASSUME NEW i \in I PROVE f[i] <= SumFunctionOnSet(f, I)
  <2>1. SumFunctionOnSet(f, I) = f[i] + SumFunctionOnSet(f, I \ {i})
    BY <1>1, SumRemove
  <2>2. IsFiniteSet(I \ {i}) /\ \A j \in I \ {i} : f[j] \in Nat
    BY <1>1, FS_Subset
  <2>3. SumFunctionOnSet(f, I \ {i}) \in Nat
    BY <2>2, SumType
  <2> QED
    BY <1>1, <2>1, <2>3
<1> QED
  BY <1>1, <1>2, <1>3, <1>4

\* A quotient rounded down.
LEMMA DivDown ==
    ASSUME NEW a \in Nat, NEW b \in Nat, b # 0
    PROVE  /\ a \div b \in Nat
           /\ b * (a \div b) <= a /\ a < b * (a \div b) + b
  OBVIOUS

LEMMA PortionIs ==
    ASSUME NEW p, NEW I, NEW D, Sized(p, I, D), NEW left \in Nat, NEW i \in I
    PROVE  /\ Portion(p, I, left, i) \in Nat /\ Portion(p, I, left, i) <= left
           /\ ValueSum(p, I) = 0 => Portion(p, I, left, i) = 0 /\ p[i].value = 0
           /\ ValueSum(p, I) # 0 =>
                 /\ ValueSum(p, I) * Portion(p, I, left, i) <= left * p[i].value
                 /\ left * p[i].value
                       < ValueSum(p, I) * Portion(p, I, left, i) + ValueSum(p, I)
<1> DEFINE V == ValueSum(p, I)
           v == p[i].value
           q == (left * v) \div V
<1>1. V \in Nat /\ v \in Nat /\ v <= V
  BY ValuesAre DEF Sized
<1> HIDE DEF V, v
<1>2. CASE V = 0
  <2>1. Portion(p, I, left, i) = 0 /\ v = 0
    BY <1>1, <1>2 DEF Portion, V
  <2> QED
    BY <1>2, <2>1 DEF V, v
<1>3. CASE V # 0
  <2>1. left * v \in Nat
    BY <1>1
  <2>2. q \in Nat /\ V * q <= left * v /\ left * v < V * q + V
    BY <1>1, <1>3, <2>1, DivDown
  <2>3. Portion(p, I, left, i) = q
    BY <1>3 DEF Portion, V, v
  <2> HIDE DEF q
  <2>4. left * v <= V * left
    BY <1>1
  <2>5. q <= left
    <3> SUFFICES ASSUME q >= left + 1 PROVE FALSE
      BY <2>2
    <3>1. V * q >= V * (left + 1) /\ V * (left + 1) = V * left + V
      BY <1>1, <2>2
    <3> QED
      BY <1>1, <1>3, <2>2, <2>4, <3>1
  <2> QED
    BY <1>3, <2>2, <2>3, <2>5 DEF V, v
<1> QED
  BY <1>2, <1>3

\* The portions add up to what is left, but for one Unit-th each.
LEMMA PortionsAddUp ==
    ASSUME NEW p, NEW I, NEW D, Sized(p, I, D), NEW left \in Nat,
           NEW f, \A i \in I : f[i] = Portion(p, I, left, i)
    PROVE  /\ SumFunctionOnSet(f, I) \in Nat
           /\ SumFunctionOnSet(f, I) <= left
           /\ ValueSum(p, I) # 0 => left <= SumFunctionOnSet(f, I) + Cardinality(I)
           /\ ValueSum(p, I) = 0 => SumFunctionOnSet(f, I) = 0
<1> DEFINE V == ValueSum(p, I)
           F == SumFunctionOnSet(f, I)
           n == Cardinality(I)
           values == [i \in I |-> p[i].value]
           paid == [i \in I |-> V * f[i]]
           due == [i \in I |-> left * p[i].value]
<1>1. IsFiniteSet(I) /\ n \in Nat /\ V \in Nat
  BY ValuesAre, FS_CardinalityType DEF Sized
<1>2. \A i \in I : f[i] \in Nat /\ p[i].value \in Nat
  BY PortionIs DEF Sized
<1>3. F \in Nat
  BY <1>1, <1>2, SumType
<1>4. /\ \A i \in I : values[i] \in Int /\ due[i] = left * values[i]
      /\ \A i \in I : f[i] \in Int /\ paid[i] = V * f[i]
  BY <1>2
<1>5. V = SumFunctionOnSet(values, I)
  BY DEF ValueSum
<1>6. \A i \in I : paid[i] \in Int /\ due[i] \in Int
  BY <1>1, <1>2
<1>7. ASSUME V # 0, NEW i \in I PROVE paid[i] <= due[i] /\ due[i] <= paid[i] + V
  <2>1. V * f[i] <= left * p[i].value /\ left * p[i].value < V * f[i] + V
    BY <1>7, PortionIs
  <2>2. V * f[i] \in Int /\ left * p[i].value \in Int
    BY <1>1, <1>2
  <2> HIDE DEF V
  <2> QED
    BY <1>1, <2>1, <2>2
<1> HIDE DEF V, F, n, values, paid, due
<1>8. SumFunctionOnSet(due, I) = left * V
  BY <1>1, <1>4, <1>5, SumScale
<1>9. SumFunctionOnSet(paid, I) = V * F
  BY <1>1, <1>4, SumScale DEF F
<1>10. CASE V # 0
  <2>1. \A i \in I : paid[i] \in Int /\ due[i] \in Int /\ paid[i] <= due[i]
    BY <1>6, <1>7, <1>10
  <2>2. SumFunctionOnSet(paid, I) <= SumFunctionOnSet(due, I)
    BY <1>1, <2>1, SumMonotone
  <2>3. SumFunctionOnSet(due, I) <= SumFunctionOnSet(paid, I) + V * n
    <3>1. V \in Int /\ \A i \in I : paid[i] \in Int /\ due[i] \in Int /\ due[i] <= paid[i] + V
      BY <1>1, <1>6, <1>7, <1>10
    <3>2. SumFunctionOnSet(due, I) <= SumFunctionOnSet(paid, I) + V * Cardinality(I)
      BY <1>1, <3>1, SumLeq
    <3> QED
      BY <3>2 DEF n
  <2>4. V * F <= left * V /\ left * V <= V * F + V * n
    BY <1>1, <1>3, <1>8, <1>9, <2>2, <2>3
  <2>5. F <= left
    <3> SUFFICES ASSUME F >= left + 1 PROVE FALSE
      BY <1>3
    <3>1. V * F >= V * (left + 1) /\ V * (left + 1) = left * V + V
      BY <1>1, <1>3
    <3> QED
      BY <1>1, <1>3, <1>10, <2>4, <3>1
  <2>6. left <= F + n
    <3> SUFFICES ASSUME left >= F + n + 1 PROVE FALSE
      BY <1>1, <1>3
    <3>1. left * V >= (F + n + 1) * V /\ (F + n + 1) * V = V * F + V * n + V
      BY <1>1, <1>3
    <3> QED
      BY <1>1, <1>3, <1>10, <2>4, <3>1
  <2> QED
    BY <1>3, <1>10, <2>5, <2>6 DEF V, F, n
<1>11. CASE V = 0
  <2>1. \A i \in I : f[i] = 0
    BY <1>11, PortionIs DEF V
  <2>2. \A i \in I : f[i] \in Int /\ f[i] = 0 * f[i]
    BY <2>1
  <2>3. F = 0 * F
    BY <1>1, <2>2, SumScale DEF F
  <2>4. F = 0
    BY <1>3, <2>3
  <2> QED
    BY <1>11, <2>4 DEF V, F
<1> QED
  BY <1>10, <1>11

LEMMA TimesLeq ==
    ASSUME NEW a \in Int, NEW b \in Int, NEW c \in Nat, a <= b
    PROVE  a * c <= b * c
<1>1. PICK d \in Nat : b = a + d
  <2>1. b - a \in Nat /\ b = a + (b - a)
    OBVIOUS
  <2> QED
    BY <2>1
<1>2. (a + d) * c = a * c + d * c /\ d * c \in Nat /\ a * c \in Int
  OBVIOUS
<1> QED
  BY <1>1, <1>2

LEMMA TimesCancel ==
    ASSUME NEW V \in Nat, V # 0, NEW x \in Int, NEW y \in Int, V * x <= V * y
    PROVE  x <= y
<1> SUFFICES ASSUME y + 1 <= x PROVE FALSE
  OBVIOUS
<1>1. (y + 1) * V <= x * V
  BY TimesLeq
<1>2. (y + 1) * V = V * y + V /\ x * V = V * x /\ V * y \in Int /\ V * x \in Int
  OBVIOUS
<1> QED
  BY <1>1, <1>2

\* Quotients of L by value are in proportion to the values, but for one.
LEMMA InProportion ==
    ASSUME NEW V \in Nat, V # 0, NEW L \in Nat, NEW a \in Nat, NEW b \in Nat,
           NEW v \in Nat, NEW w \in Nat, V * a <= L * v, L * w < V * b + V
    PROVE  a * w <= (b + 1) * v
<1> DEFINE Va == V * a
           Vb == V * (b + 1)
           Lv == L * v
           Lw == L * w
<1>1. Va \in Nat /\ Vb \in Nat /\ Lv \in Nat /\ Lw \in Nat /\ Va <= Lv /\ Lw <= Vb
  <2>1. V * (b + 1) = V * b + V
    OBVIOUS
  <2> QED
    BY <2>1
<1>2. Lv * w = Lw * v /\ Va * w = V * (a * w) /\ Vb * v = V * ((b + 1) * v)
  <2>1. Lv * w = Lw * v
    OBVIOUS
  <2>2. Va * w = V * (a * w)
    OBVIOUS
  <2>3. PICK c \in Nat : c = b + 1
    OBVIOUS
  <2>4. (V * c) * v = V * (c * v)
    OBVIOUS
  <2> QED
    BY <2>1, <2>2, <2>3, <2>4
<1> HIDE DEF Va, Vb, Lv, Lw
<1>3. Va * w <= Lv * w /\ Lw * v <= Vb * v
  BY <1>1, TimesLeq
<1>4. a * w \in Int /\ (b + 1) * v \in Int /\ Lv * w \in Int
  BY <1>1
<1>5. V * (a * w) <= V * ((b + 1) * v)
  <2>1. Va * w \in Int /\ Vb * v \in Int
    BY <1>1
  <2> QED
    BY <1>2, <1>3, <1>4, <2>1
<1> QED
  BY <1>4, <1>5, TimesCancel

-----------------------------------------------------------------------------
(* What solve_shares returns is split as promised.                         *)

LEMMA RestsAre ==
    ASSUME NEW p, NEW I, NEW D, NEW s, Sized(p, I, D), NEW base \in [I -> Nat],
           NEW left \in Nat, Rests(p, I, D, s, base, left), NEW i \in I
    PROVE  /\ FloorOf(p, D, i) \in Nat /\ base[i] \in Nat /\ D[i] \in Nat
           /\ p[i].value \in Nat /\ s[i] \in Nat /\ Portion(p, I, left, i) \in Nat
           /\ FloorOf(p, D, i) <= base[i] /\ base[i] <= D[i]
           /\ s[i] = base[i] + Portion(p, I, left, i) /\ Portion(p, I, left, i) <= left
<1>1. FloorOf(p, D, i) \in Nat
  BY FloorIs
<1>2. Portion(p, I, left, i) \in Nat /\ Portion(p, I, left, i) <= left
  BY PortionIs
<1> QED
  BY <1>1, <1>2 DEF Rests, Divided, Sized

LEMMA SolvedIsRight ==
    ASSUME NEW I, NEW D, NEW s, Sized(problem, I, D), Solved(problem, I, D, s)
    PROVE  RightlySplit(I, D, s)
<1> DEFINE value(i) == problem[i].value
           floor(i) == FloorOf(problem, D, i)
           total == FloorsOf(problem, I, D)
<1>1. PICK base \in [I -> Nat], left \in Nat : Rests(problem, I, D, s, base, left)
  BY DEF Solved
<1> DEFINE more(i) == Portion(problem, I, left, i)
           V == ValueSum(problem, I)
           given == SumFunctionOnSet(s, I)
           n == Cardinality(I)
<1>2. ASSUME NEW i \in I
      PROVE  /\ floor(i) \in Nat /\ base[i] \in Nat /\ D[i] \in Nat /\ value(i) \in Nat
             /\ s[i] \in Nat /\ more(i) \in Nat
             /\ floor(i) <= base[i] /\ base[i] <= D[i]
             /\ s[i] = base[i] + more(i) /\ more(i) <= left
  BY <1>1, RestsAre
<1>3. /\ total <= Unit => SumFunctionOnSet(base, I) + left = Unit
      /\ total > Unit => left = 0 /\ \A i \in I : base[i] = floor(i)
      /\ InTurn(problem, I, D, base)
      /\ left <= Epsilon \/ \A i \in I : Met(D, base, i)
  BY <1>1 DEF Rests, Divided
<1>4. IsFiniteSet(I) /\ n \in Nat /\ V \in Nat /\ Epsilon \in Nat /\ Unit \in Nat
  BY ValuesAre, FS_CardinalityType, EpsilonAssumption, UnitAssumption DEF Sized
<1> HIDE DEF floor, total, more, value, V, given, n
<1>5. \A i \in I : s[i] - floor(i) >= 0
  BY <1>2
<1>6. ASSUME total <= Unit
      PROVE  /\ given <= Unit
             /\ \/ Unit - given <= n
                \/ /\ \A i \in I : value(i) = 0 /\ s[i] - D[i] <= 0
                   /\ Unit - given <= Epsilon \/ \A i \in I : s[i] - D[i] >= -Epsilon
  <2> DEFINE f == [i \in I |-> more(i)]
             B == SumFunctionOnSet(base, I)
             F == SumFunctionOnSet(f, I)
  <2>1. \A i \in I : f[i] = Portion(problem, I, left, i)
    BY DEF more
  <2>2. \A i \in I : base[i] \in Int /\ f[i] \in Int /\ s[i] = base[i] + f[i]
    BY <1>2
  <2> HIDE DEF f
  <2>3. /\ F \in Nat /\ F <= left
        /\ V # 0 => left <= F + n
        /\ V = 0 => F = 0
    BY <2>1, PortionsAddUp DEF V, n
  <2>4. given = B + F
    BY <1>4, <2>2, SumPlus DEF given
  <2>5. B \in Nat
    BY <1>2, <1>4, SumType
  <2>6. B + left = Unit
    BY <1>3, <1>6
  <2> HIDE DEF B, F
  <2>7. given <= Unit /\ given \in Nat
    BY <1>4, <2>3, <2>4, <2>5, <2>6
  <2>8. CASE V # 0
    BY <1>4, <2>3, <2>4, <2>5, <2>6, <2>7, <2>8
  <2>9. CASE V = 0
    <3>1. \A i \in I : value(i) = 0 /\ more(i) = 0
      BY <2>9, PortionIs DEF V, value, more
    <3>2. \A i \in I : s[i] - D[i] <= 0
      BY <1>2, <3>1
    <3>3. Unit - given = left
      BY <1>4, <2>3, <2>4, <2>5, <2>6, <2>9
    <3>4. ASSUME \A i \in I : Met(D, base, i) PROVE \A i \in I : s[i] - D[i] >= -Epsilon
      BY <1>2, <1>4, <3>1, <3>4 DEF Met
    <3> QED
      BY <1>3, <2>7, <3>1, <3>2, <3>3, <3>4
  <2> QED
    BY <2>8, <2>9
<1>7. ASSUME total > Unit, NEW i \in I PROVE s[i] - floor(i) = 0
  BY <1>2, <1>3, <1>7
<1>8. ASSUME NEW i \in I, NEW j \in I, s[i] - D[i] < -Epsilon
      PROVE  /\ value(i) > value(j) => s[j] - floor(j) <= Epsilon
             /\ value(i) = value(j) => s[j] - floor(j) <= s[i] - floor(i)
  <2>1. ~Met(D, base, i)
    BY <1>2, <1>4, <1>8 DEF Met
  <2>2. left <= Epsilon
    BY <1>3, <2>1
  <2>3. /\ value(i) > value(j) => base[j] = floor(j)
        /\ value(i) = value(j) => base[j] - floor(j) <= base[i] - floor(i)
    BY <1>3, <2>1 DEF InTurn, value, floor
  <2>4. value(i) = value(j) => more(i) = more(j)
    BY DEF value, more, Portion
  <2> QED
    BY <1>2, <1>4, <2>2, <2>3, <2>4
<1>9. ASSUME NEW i \in I, NEW j \in I, s[i] - D[i] > Epsilon
      PROVE  /\ s[j] - D[j] >= -Epsilon
             /\ (s[i] - D[i]) * value(j) <= (s[j] - D[j] + Epsilon + 1) * value(i)
  <2>1. more(i) > Epsilon /\ s[i] - D[i] <= more(i)
    BY <1>2, <1>4, <1>9
  <2>2. \A k \in I : Met(D, base, k)
    BY <1>2, <1>3, <1>4, <2>1
  <2>3. base[j] - D[j] >= -Epsilon
    BY <1>2, <1>4, <2>2 DEF Met
  <2>4. s[j] - D[j] >= -Epsilon /\ more(j) + 1 <= s[j] - D[j] + Epsilon + 1
    BY <1>2, <1>4, <2>3
  <2>5. V # 0
    BY <1>4, <2>1, PortionIs DEF V, more
  <2>6. V * more(i) <= left * value(i) /\ left * value(j) < V * more(j) + V
    BY <2>5, PortionIs DEF V, more, value
  <2>7. more(i) * value(j) <= (more(j) + 1) * value(i)
    BY <1>2, <1>4, <2>5, <2>6, InProportion
  <2> DEFINE a == s[i] - D[i]
             b == s[j] - D[j] + Epsilon + 1
             c == more(j) + 1
  <2>8. a \in Int /\ b \in Int /\ c \in Int /\ a <= more(i) /\ c <= b
    BY <1>2, <1>4, <2>1, <2>4
  <2> HIDE DEF a, b
  <2>9. a * value(j) <= more(i) * value(j) /\ c * value(i) <= b * value(i)
    <3> HIDE DEF c
    <3> QED
      BY <1>2, <2>8, TimesLeq
  <2>10. a * value(j) <= b * value(i)
    <3>1. /\ a * value(j) \in Int /\ b * value(i) \in Int
          /\ more(i) * value(j) \in Int /\ c * value(i) \in Int
      BY <1>2, <2>8
    <3>2. more(i) * value(j) <= c * value(i)
      BY <2>7
    <3> HIDE DEF c
    <3> QED
      BY <2>9, <3>1, <3>2
  <2> QED
    BY <2>4, <2>10 DEF a, b
<1>10. /\ \A i \in I : Floor(i, D) = floor(i)
       /\ Floors(I, D) = total
  BY DEF Floor, Floors, floor, total, FloorOf, FloorsOf
<1>11. /\ Floors(I, D) <= Unit <=> total <= Unit
       /\ Floors(I, D) > Unit <=> total > Unit
  BY <1>10
<1> QED
  BY <1>5, <1>6, <1>7, <1>8, <1>9, <1>10, <1>11 DEF RightlySplit, value, given, n

-----------------------------------------------------------------------------
(* Two splits of one device: of demands D, and of demands D2 that are      *)
(* lower only where they are no more than the share of the first split.    *)

Lowered(I, D, D2, s) ==
    \A j \in I : D2[j] <= D[j] /\ (D2[j] = D[j] \/ D2[j] <= s[j])

\* What i wants of the second split and had in the first it keeps, up to
\* Epsilon for each index and one more: whatever it lost another would have
\* gained, who then wanted more in the first split than it got.
LEMMA SecondKeeps ==
    ASSUME NEW p, NEW I, NEW D, NEW D2, NEW s, NEW s2, Sized(p, I, D), Sized(p, I, D2),
           NEW b \in [I -> Nat], NEW L \in Nat, Rests(p, I, D, s, b, L),
           NEW b2 \in [I -> Nat], NEW L2 \in Nat, Rests(p, I, D2, s2, b2, L2),
           Lowered(I, D, D2, s),
           NEW i \in I, NEW t \in Nat, t <= D2[i], t <= s[i]
    PROVE  t <= b2[i] + (Cardinality(I) + 1) * Epsilon
<1> DEFINE n == Cardinality(I)
           E == Epsilon
           fl(j) == FloorOf(p, D, j)
           fl2(j) == FloorOf(p, D2, j)
           v(j) == p[j].value
<1>1. /\ IsFiniteSet(I) /\ n \in Nat /\ n # 0 /\ E \in Nat /\ Unit \in Nat
      /\ IsFiniteSet(I \ {i}) /\ Cardinality(I \ {i}) = n - 1
  <2>1. IsFiniteSet(I)
    BY DEF Sized
  <2> QED
    BY <2>1, FS_CardinalityType, FS_EmptySet, FS_RemoveElement, FS_Subset,
       EpsilonAssumption, UnitAssumption
<1>2. ASSUME NEW j \in I
      PROVE  /\ fl(j) \in Nat /\ b[j] \in Nat /\ D[j] \in Nat /\ s[j] \in Nat /\ v(j) \in Nat
             /\ fl(j) <= b[j] /\ b[j] <= D[j] /\ b[j] <= s[j] /\ s[j] <= b[j] + L
  BY RestsAre
<1>3. ASSUME NEW j \in I
      PROVE  /\ fl2(j) \in Nat /\ b2[j] \in Nat /\ D2[j] \in Nat
             /\ fl2(j) <= b2[j] /\ b2[j] <= D2[j]
  BY RestsAre
<1>4. ASSUME NEW j \in I
      PROVE  /\ fl(j) \in {D[j], p[j].min_share} /\ fl2(j) \in {D2[j], p[j].min_share}
             /\ fl(j) <= D[j] /\ fl(j) <= p[j].min_share
             /\ fl2(j) <= D2[j] /\ fl2(j) <= p[j].min_share
             /\ p[j].min_share \in Nat
             /\ D2[j] <= D[j] /\ (D2[j] = D[j] \/ D2[j] <= s[j])
  BY FloorIs DEF Lowered, Sized
<1>5. ASSUME NEW j \in I
      PROVE  fl2(j) <= fl(j) /\ (D2[j] = D[j] => fl2(j) = fl(j))
  <2>1. fl2(j) <= fl(j)
    <3> HIDE DEF fl, fl2
    <3> QED
      BY <1>2, <1>3, <1>4
  <2>2. D2[j] = D[j] => fl2(j) = fl(j)
    BY DEF FloorOf
  <2> QED
    BY <2>1, <2>2
<1>6. /\ FloorsOf(p, I, D) \in Nat /\ FloorsOf(p, I, D2) \in Nat
      /\ FloorsOf(p, I, D2) <= FloorsOf(p, I, D)
  <2>1. /\ FloorsOf(p, I, D) \in Nat /\ FloorsOf(p, I, D2) \in Nat
    BY FloorsType
  <2> DEFINE f == [j \in I |-> FloorOf(p, D, j)]
             f2 == [j \in I |-> FloorOf(p, D2, j)]
  <2>2. \A j \in I : f2[j] \in Int /\ f[j] \in Int /\ f2[j] <= f[j]
    BY <1>2, <1>3, <1>5
  <2> HIDE DEF f, f2
  <2>3. SumFunctionOnSet(f2, I) <= SumFunctionOnSet(f, I)
    BY <1>1, <2>2, SumMonotone
  <2> QED
    BY <2>1, <2>3 DEF FloorsOf, f, f2
<1>7. /\ FloorsOf(p, I, D) <= Unit => SumFunctionOnSet(b, I) + L = Unit
      /\ FloorsOf(p, I, D) > Unit => L = 0 /\ \A j \in I : b[j] = fl(j)
      /\ InTurn(p, I, D, b)
      /\ L <= E \/ \A j \in I : Met(D, b, j)
  BY DEF Rests, Divided
<1>8. /\ FloorsOf(p, I, D2) <= Unit => SumFunctionOnSet(b2, I) + L2 = Unit
      /\ InTurn(p, I, D2, b2)
      /\ L2 <= E \/ \A j \in I : Met(D2, b2, j)
  BY DEF Rests, Divided
<1>9. InTurn(p, I, D, b) <=>
        \A j, k \in I : D[j] - b[j] > E =>
            /\ v(j) > v(k) => b[k] = fl(k)
            /\ v(j) = v(k) => b[k] - fl(k) <= b[j] - fl(j)
  <2>1. \A j \in I : ~Met(D, b, j) <=> D[j] - b[j] > E
    BY <1>1, <1>2 DEF Met
  <2> QED
    BY <2>1 DEF InTurn
<1>10. InTurn(p, I, D2, b2) <=>
        \A j, k \in I : D2[j] - b2[j] > E =>
            /\ v(j) > v(k) => b2[k] = fl2(k)
            /\ v(j) = v(k) => b2[k] - fl2(k) <= b2[j] - fl2(j)
  <2>1. \A j \in I : ~Met(D2, b2, j) <=> D2[j] - b2[j] > E
    BY <1>1, <1>3 DEF Met
  <2> QED
    BY <2>1 DEF InTurn
<1>11. /\ \A j \in I : D[j] - b[j] > E => L <= E
       /\ \A j \in I : D2[j] - b2[j] > E => L2 <= E
  BY <1>1, <1>2, <1>3, <1>7, <1>8 DEF Met
<1> DEFINE K == (n + 1) * E
<1>12. K = n * E + E /\ n * E \in Nat /\ K \in Nat /\ K >= E
       /\ E * (n - 1) = n * E - E
  <2>1. n * E \in Nat /\ (n + 1) * E = n * E + E
    BY <1>1
  <2>2. E * (n - 1) = E * n - E /\ E * n = n * E
    BY <1>1
  <2> QED
    BY <1>1, <2>1, <2>2
<1> HIDE DEF n, E, K, fl, fl2, v
<1> SUFFICES ASSUME b2[i] + K < t PROVE FALSE
  BY <1>3, <1>12 DEF K, n, E
\* In the second split i wants more.
<1>13. D2[i] - b2[i] > E /\ L2 <= E
  BY <1>1, <1>3, <1>11, <1>12
<1>14. FloorsOf(p, I, D) <= Unit
  <2> SUFFICES ASSUME FloorsOf(p, I, D) > Unit PROVE FALSE
    BY <1>1, <1>6
  <2>1. t <= fl(i)
    BY <1>2, <1>7
  <2>2. t <= fl2(i)
    BY <1>2, <1>3, <1>4, <2>1
  <2> QED
    BY <1>3, <1>12, <2>2
<1>15. t <= b[i] + E
  BY <1>1, <1>2, <1>3, <1>4, <1>7 DEF Met, E
\* Somebody has more than in the first split.
<1>16. PICK j \in I \ {i} : b2[j] > b[j] + E
  <2> SUFFICES ASSUME \A j \in I \ {i} : b2[j] <= b[j] + E PROVE FALSE
    BY <1>1, <1>2, <1>3
  <2> DEFINE B == SumFunctionOnSet(b, I \ {i})
             B2 == SumFunctionOnSet(b2, I \ {i})
  <2>1. B2 <= B + E * (n - 1)
    <3>1. /\ E \in Int
          /\ \A j \in I \ {i} : b2[j] \in Int /\ b[j] \in Int /\ b2[j] <= b[j] + E
      BY <1>1, <1>2, <1>3
    <3>2. B2 <= B + E * Cardinality(I \ {i})
      BY <1>1, <3>1, SumLeq
    <3> QED
      BY <1>1, <3>2
  <2>2. B \in Nat /\ B2 \in Nat
    <3>1. \A j \in I \ {i} : b2[j] \in Nat /\ b[j] \in Nat
      BY <1>2, <1>3
    <3> QED
      BY <1>1, <3>1, SumType
  <2>3. /\ SumFunctionOnSet(b, I) = b[i] + B
        /\ SumFunctionOnSet(b2, I) = b2[i] + B2
    <3>1. \A j \in I : b2[j] \in Int /\ b[j] \in Int
      BY <1>2, <1>3
    <3> QED
      BY <1>1, <3>1, SumRemove
  <2>4. SumFunctionOnSet(b, I) + L = Unit /\ SumFunctionOnSet(b2, I) + L2 = Unit
    BY <1>1, <1>6, <1>7, <1>8, <1>14
  <2> HIDE DEF B, B2
  <2> QED
    BY <1>1, <1>2, <1>3, <1>12, <1>13, <1>15, <2>1, <2>2, <2>3, <2>4
<1>17. D[j] - b[j] > E /\ L <= E
  BY <1>1, <1>2, <1>3, <1>4, <1>11, <1>16
<1>18. D2[j] = D[j] /\ fl2(j) = fl(j)
  <2>1. ~(D2[j] <= s[j])
    BY <1>1, <1>2, <1>3, <1>16, <1>17
  <2> QED
    BY <1>4, <1>5, <2>1
<1>19. CASE v(j) > v(i)
  <2>1. b[i] = fl(i)
    BY <1>7, <1>9, <1>17, <1>19
  <2>2. t <= fl2(i) + E
    BY <1>1, <1>2, <1>3, <1>4, <1>15, <2>1
  <2> QED
    BY <1>1, <1>3, <1>12, <2>2
<1>20. CASE v(j) = v(i)
  <2>1. b[i] - fl(i) <= b[j] - fl(j)
    BY <1>7, <1>9, <1>17, <1>20
  <2>2. b2[j] - fl2(j) <= b2[i] - fl2(i)
    BY <1>8, <1>10, <1>13, <1>20
  <2>3. b2[i] > fl2(i) + E + b[i] - fl(i)
    BY <1>1, <1>2, <1>3, <1>16, <1>18, <2>1, <2>2
  <2>4. fl2(i) = fl(i) \/ fl2(i) = D2[i]
    BY <1>2, <1>3, <1>4
  <2> QED
    BY <1>1, <1>2, <1>3, <1>12, <1>15, <2>3, <2>4
<1>21. CASE v(i) > v(j)
  <2>1. b2[j] = fl2(j)
    BY <1>8, <1>10, <1>13, <1>21
  <2> QED
    BY <1>1, <1>2, <1>3, <1>16, <1>18, <2>1
<1>22. v(i) \in Nat /\ v(j) \in Nat
  BY <1>2
<1> QED
  BY <1>19, <1>20, <1>21, <1>22

\* An index whose demand is not lowered has no less than in the first split,
\* up to Epsilon for each index twice and one more.
LEMMA SecondGains ==
    ASSUME NEW p, NEW I, NEW D, NEW D2, NEW s, NEW s2, Sized(p, I, D), Sized(p, I, D2),
           NEW b \in [I -> Nat], NEW L \in Nat, Rests(p, I, D, s, b, L),
           NEW b2 \in [I -> Nat], NEW L2 \in Nat, Rests(p, I, D2, s2, b2, L2),
           Lowered(I, D, D2, s),
           NEW i \in I, D2[i] = D[i]
    PROVE  s[i] <= s2[i] + (2 * Cardinality(I) + 1) * Epsilon
<1> DEFINE n == Cardinality(I)
           E == Epsilon
           l(j) == Portion(p, I, L, j)
           l2(j) == Portion(p, I, L2, j)
           V == ValueSum(p, I)
           v == p[i].value
<1>1. /\ IsFiniteSet(I) /\ n \in Nat /\ n >= 1 /\ E \in Nat /\ Unit \in Nat /\ V \in Nat
  <2>1. IsFiniteSet(I)
    BY DEF Sized
  <2> QED
    BY <2>1, FS_CardinalityType, FS_EmptySet, EpsilonAssumption, UnitAssumption, ValuesAre
<1>2. ASSUME NEW j \in I
      PROVE  /\ b[j] \in Nat /\ D[j] \in Nat /\ s[j] \in Nat /\ l(j) \in Nat
             /\ b[j] <= D[j] /\ s[j] = b[j] + l(j) /\ l(j) <= L
  <2>1. /\ b[j] \in Nat /\ D[j] \in Nat /\ s[j] \in Nat /\ b[j] <= D[j]
        /\ s[j] = b[j] + Portion(p, I, L, j)
    BY RestsAre
  <2>2. Portion(p, I, L, j) \in Nat /\ Portion(p, I, L, j) <= L
    BY PortionIs
  <2> QED
    BY <2>1, <2>2
<1>3. ASSUME NEW j \in I
      PROVE  /\ b2[j] \in Nat /\ D2[j] \in Nat /\ s2[j] \in Nat /\ l2(j) \in Nat
             /\ b2[j] <= D2[j] /\ s2[j] = b2[j] + l2(j)
  BY RestsAre
<1>4. v \in Nat /\ v <= V
  BY ValuesAre DEF Sized
<1>5. /\ n * E \in Nat /\ n * E >= E /\ E * n = n * E
      /\ (n + 1) * E = n * E + E /\ (2 * n + 1) * E = n * E + n * E + E
  <2>1. n * E \in Nat /\ E * n = n * E /\ (n + 1) * E = n * E + E
    BY <1>1
  <2>2. (2 * n) * E = n * E + n * E /\ (2 * n + 1) * E = (2 * n) * E + E
    BY <1>1
  <2>3. 1 * E <= n * E
    BY <1>1, TimesLeq
  <2> QED
    BY <1>1, <2>1, <2>2, <2>3
<1>6. ASSUME NEW t \in Nat, t <= D2[i], t <= s[i]
      PROVE  t <= b2[i] + (n * E + E)
  BY <1>5, <1>6, SecondKeeps
<1>7. /\ FloorsOf(p, I, D) <= Unit => SumFunctionOnSet(b, I) + L = Unit
      /\ FloorsOf(p, I, D) > Unit => L = 0
      /\ FloorsOf(p, I, D2) <= Unit => SumFunctionOnSet(b2, I) + L2 = Unit
      /\ FloorsOf(p, I, D2) > Unit => \A j \in I : b2[j] = FloorOf(p, D2, j)
      /\ L <= E \/ \A j \in I : Met(D, b, j)
  BY DEF Rests, Divided
<1>8. \A j \in I : D2[j] <= D[j]
  BY DEF Lowered
<1>9. FloorsOf(p, I, D) \in Nat /\ FloorsOf(p, I, D2) \in Nat
  BY FloorsType
<1>10. FloorsOf(p, I, D2) <= FloorsOf(p, I, D)
  <2> DEFINE f == [j \in I |-> FloorOf(p, D, j)]
             f2 == [j \in I |-> FloorOf(p, D2, j)]
  <2>1. ASSUME NEW j \in I PROVE f2[j] \in Int /\ f[j] \in Int /\ f2[j] <= f[j]
    <3>1. /\ FloorOf(p, D, j) \in Nat /\ FloorOf(p, D2, j) \in Nat
          /\ FloorOf(p, D, j) \in {D[j], p[j].min_share}
          /\ FloorOf(p, D2, j) <= D2[j] /\ FloorOf(p, D2, j) <= p[j].min_share
          /\ p[j].min_share \in Nat
      BY FloorIs DEF Sized
    <3>2. FloorOf(p, D2, j) <= FloorOf(p, D, j)
      BY <1>2, <1>3, <1>8, <3>1
    <3> QED
      BY <3>1, <3>2
  <2> HIDE DEF f, f2
  <2>2. SumFunctionOnSet(f2, I) <= SumFunctionOnSet(f, I)
    BY <1>1, <2>1, SumMonotone
  <2> QED
    BY <2>2 DEF FloorsOf, f, f2
<1>11. \A j \in I : Met(D, b, j) <=> D[j] - b[j] <= E
  BY DEF Met
<1> HIDE DEF n, E, l, l2, V, v
<1>12. CASE L <= E
  <2>1. s[i] <= b[i] + E
    BY <1>1, <1>2, <1>12
  <2>2. CASE s[i] <= D[i]
    <3>1. s[i] <= b2[i] + (n * E + E)
      BY <1>2, <1>6, <2>2
    <3> QED
      BY <1>1, <1>2, <1>3, <1>5, <3>1 DEF n, E
  <2>3. CASE s[i] > D[i]
    <3>1. D[i] <= b2[i] + (n * E + E)
      BY <1>2, <1>6, <2>3
    <3>2. s[i] <= D[i] + E
      BY <1>1, <1>2, <2>1
    <3> QED
      BY <1>1, <1>2, <1>3, <1>5, <3>1, <3>2 DEF n, E
  <2> QED
    BY <1>2, <2>2, <2>3
<1>13. CASE L > E
  <2>1. \A j \in I : D[j] - b[j] <= E
    BY <1>1, <1>7, <1>11, <1>13
  <2>2. /\ SumFunctionOnSet(b, I) + L = Unit
        /\ SumFunctionOnSet(b2, I) + L2 = Unit
    BY <1>1, <1>7, <1>9, <1>10, <1>13
  <2>3. SumFunctionOnSet(b2, I) <= SumFunctionOnSet(b, I) + E * n
    <3>1. E \in Int /\ \A j \in I : b2[j] \in Int /\ b[j] \in Int /\ b2[j] <= b[j] + E
      BY <1>1, <1>2, <1>3, <1>8, <2>1
    <3> QED
      BY <1>1, <3>1, SumLeq DEF n
  <2>4. L <= L2 + n * E
    <3>1. SumFunctionOnSet(b, I) \in Nat /\ SumFunctionOnSet(b2, I) \in Nat
      BY <1>1, <1>2, <1>3, SumType
    <3> QED
      BY <1>1, <1>5, <2>2, <2>3, <3>1
  <2>5. l(i) <= l2(i) + n * E
    <3>1. CASE V = 0
      <4>1. l(i) = 0
        BY <3>1, PortionIs DEF V, l
      <4> QED
        BY <1>3, <1>5, <4>1
    <3>2. CASE V # 0
      <4>1. V * l(i) <= L * v /\ L2 * v < V * l2(i) + V
        BY <3>2, PortionIs DEF V, v, l, l2
      <4>2. PICK m \in Nat : m = n * E
        BY <1>5
      <4>3. L * v <= (L2 + m) * v
        BY <1>4, <2>4, <4>2, TimesLeq
      <4>4. (L2 + m) * v = L2 * v + m * v
        BY <1>4
      <4>5. m * v <= V * m
        <5>1. v * m <= V * m
          BY <1>1, <1>4, TimesLeq
        <5> QED
          BY <1>4, <5>1
      <4>6. V * l(i) < V * (l2(i) + m + 1)
        <5>1. PICK q \in Nat : q = l2(i)
          BY <1>3
        <5>2. V * (q + m + 1) = V * q + V * m + V
          BY <1>1
        <5>3. L * v \in Int /\ L2 * v \in Int /\ m * v \in Int /\ V * m \in Int
              /\ V * q \in Int /\ V * l(i) \in Int
          BY <1>1, <1>2, <1>4
        <5> QED
          BY <1>1, <4>1, <4>3, <4>4, <4>5, <5>1, <5>2, <5>3
      <4>7. l(i) < l2(i) + m + 1
        <5> SUFFICES ASSUME l2(i) + m + 1 <= l(i) PROVE FALSE
          BY <1>2, <1>3
        <5> DEFINE q == l2(i) + m + 1
        <5>1. q \in Int /\ q <= l(i)
          BY <1>3
        <5>2. V * l(i) < V * q
          BY <4>6
        <5> HIDE DEF q
        <5>3. q * V <= l(i) * V
          BY <1>1, <1>2, <5>1, TimesLeq
        <5> QED
          BY <1>1, <1>2, <5>1, <5>2, <5>3
      <4> QED
        BY <1>2, <1>3, <4>2, <4>7
    <3> QED
      BY <3>1, <3>2
  <2>6. b[i] <= b2[i] + (n * E + E)
    BY <1>2, <1>6
  <2> QED
    BY <1>1, <1>2, <1>3, <1>5, <2>5, <2>6 DEF n, E
<1> QED
  BY <1>1, <1>12, <1>13, EpsilonAssumption

-----------------------------------------------------------------------------
(* A round of the water-fill, for indices W of one value that is above all *)
(* of T, the values still to be served.                                    *)

LEMMA GrantIs ==
    ASSUME NEW x \in Int, NEW e \in Nat, x >= 0
    PROVE  /\ Clamp(x, 0, e) \in Nat /\ Clamp(x, 0, e) <= x /\ Clamp(x, 0, e) <= e
           /\ Clamp(x, 0, e) = x \/ Clamp(x, 0, e) = e
BY DEF Clamp

\* A round for W: g is what each index is granted, up to an even part of what
\* is left; the lesser values T are still to come.
Rounded(p, I, D, s, left, W, T, each, g, s2, left2) ==
    /\ Sized(p, I, D) /\ Divided(p, I, D, s, left)
    /\ left \in Nat /\ left > Epsilon /\ \A i \in I : s[i] \in Nat
    /\ W \in SUBSET I /\ W # {}
    /\ \A i \in W : \A t \in T : t \in Nat /\ t < p[i].value
    /\ \A i, j \in W : p[i].value = p[j].value
    /\ \A i \in I : p[i].value \notin T /\ i \notin W => Met(D, s, i) \/ left <= Epsilon
    /\ each = left \div Cardinality(W)
    /\ \A i \in I : g[i] = IF i \in W THEN Clamp(D[i] - s[i], 0, each) ELSE 0
    /\ \A i \in I : s2[i] = s[i] + g[i]
    /\ left2 = left - SumFunctionOnSet(g, W)

LEMMA RoundDivides ==
    ASSUME NEW p, NEW I, NEW D, NEW s, NEW left, NEW W, NEW T, NEW each, NEW g, NEW s2, NEW left2,
           Rounded(p, I, D, s, left, W, T, each, g, s2, left2)
    PROVE  /\ Divided(p, I, D, s2, left2) /\ left2 \in Nat
           /\ \A i \in I : s2[i] \in Nat /\ s[i] <= s2[i]
           /\ \A i \in W : g[i] = each \/ s2[i] = D[i]
           /\ SumFunctionOnSet(g, W) \in Nat /\ each \in Nat
<1> USE DEF Rounded
<1> DEFINE v(i) == p[i].value
           fl(i) == FloorOf(p, D, i)
           m == Cardinality(W)
           G == SumFunctionOnSet(g, W)
<1>1. /\ IsFiniteSet(I) /\ IsFiniteSet(W) /\ m \in Nat /\ m # 0
      /\ Epsilon \in Nat /\ Unit \in Nat
  <2>1. IsFiniteSet(I)
    BY DEF Sized
  <2> QED
    BY <2>1, FS_Subset, FS_CardinalityType, FS_EmptySet, EpsilonAssumption, UnitAssumption
<1>2. each \in Nat /\ m * each <= left
  BY <1>1, DivDown
<1>3. ASSUME NEW i \in I
      PROVE  /\ D[i] \in Nat /\ v(i) \in Nat /\ fl(i) \in Nat /\ s[i] \in Nat
             /\ fl(i) <= s[i] /\ s[i] <= D[i]
  BY FloorIs DEF Divided, Sized
<1>4. ASSUME NEW i \in I
      PROVE  /\ g[i] \in Nat /\ g[i] <= each /\ s[i] + g[i] <= D[i]
             /\ i \in W => g[i] = each \/ g[i] = D[i] - s[i]
             /\ i \notin W => g[i] = 0
  <2>1. CASE i \in W
    <3>1. g[i] = Clamp(D[i] - s[i], 0, each) /\ D[i] - s[i] \in Int /\ D[i] - s[i] >= 0
      BY <1>3, <2>1
    <3>2. /\ g[i] \in Nat /\ g[i] <= D[i] - s[i] /\ g[i] <= each
          /\ g[i] = D[i] - s[i] \/ g[i] = each
      BY <1>2, <3>1, GrantIs
    <3> QED
      BY <1>3, <2>1, <3>2
  <2>2. CASE i \notin W
    BY <1>2, <1>3, <2>2
  <2> QED
    BY <2>1, <2>2
<1>5. G \in Nat /\ G <= left
  <2>1. G \in Nat
    BY <1>1, <1>4, SumType
  <2> DEFINE zero == [i \in W |-> 0]
  <2>2. /\ \A i \in W : g[i] \in Int /\ zero[i] \in Int /\ g[i] <= zero[i] + each
        /\ \A i \in W : zero[i] = 0 * g[i]
    BY <1>2, <1>4
  <2> HIDE DEF zero
  <2>3. G <= SumFunctionOnSet(zero, W) + each * m
    <3>1. /\ each \in Int
          /\ \A i \in W : g[i] \in Int /\ zero[i] \in Int /\ g[i] <= zero[i] + each
      BY <1>2, <2>2
    <3> QED
      BY <1>1, <3>1, SumLeq
  <2>4. SumFunctionOnSet(zero, W) = 0
    <3>1. PICK k \in Int : k = 0
      OBVIOUS
    <3>2. \A i \in W : g[i] \in Int /\ zero[i] = k * g[i]
      BY <2>2, <3>1
    <3>3. SumFunctionOnSet(zero, W) = k * G
      BY <1>1, <3>2, SumScale
    <3> QED
      BY <2>1, <3>1, <3>3
  <2>5. each * m = m * each
    BY <1>1, <1>2
  <2> HIDE DEF m, G
  <2> QED
    BY <1>1, <1>2, <2>1, <2>3, <2>4, <2>5
<1>6. left2 \in Nat
  BY <1>5
<1>7. FloorsOf(p, I, D) <= Unit => SumFunctionOnSet(s2, I) + left2 = Unit
  <2>1. SumFunctionOnSet(g, I) = G
    <3>1. \A i \in I : g[i] \in Int
      BY <1>4
    <3>2. \A i \in I \ W : g[i] = 0
      BY <1>4
    <3> QED
      BY <1>1, <3>1, <3>2, SumOfPart
  <2>2. SumFunctionOnSet(s2, I) = SumFunctionOnSet(s, I) + SumFunctionOnSet(g, I)
    <3>1. \A i \in I : s[i] \in Int /\ g[i] \in Int /\ s2[i] = s[i] + g[i]
      BY <1>3, <1>4
    <3> QED
      BY <1>1, <3>1, SumPlus
  <2>3. SumFunctionOnSet(s, I) \in Nat
    BY <1>1, <1>3, SumType
  <2>4. FloorsOf(p, I, D) <= Unit => SumFunctionOnSet(s, I) + left = Unit
    BY DEF Divided
  <2> HIDE DEF G
  <2> QED
    BY <1>1, <1>5, <2>1, <2>2, <2>3, <2>4 DEF G
<1>8. ~(FloorsOf(p, I, D) > Unit)
  BY <1>1 DEF Divided
<1>9. \A i \in I : i \notin W /\ v(i) \notin T => D[i] - s[i] <= Epsilon
  BY <1>1 DEF Met
<1>10. \A i, j \in I : D[i] - s[i] > Epsilon =>
          /\ v(i) > v(j) => s[j] = fl(j)
          /\ v(i) = v(j) => s[j] - fl(j) <= s[i] - fl(i)
  <2>1. \A i \in I : ~Met(D, s, i) <=> D[i] - s[i] > Epsilon
    BY <1>1, <1>3 DEF Met
  <2> QED
    BY <2>1 DEF Divided, InTurn
<1>11. \A i \in W : v(i) \notin T /\ \A t \in T : t \in Nat /\ t < v(i)
  BY <1>3
<1>12. \A i, j \in W : v(i) = v(j)
  OBVIOUS
<1> HIDE DEF v, fl, m, G
<1>13. ASSUME NEW i \in I, NEW j \in I, D[i] - s2[i] > Epsilon
       PROVE  /\ v(i) > v(j) => s2[j] = fl(j)
              /\ v(i) = v(j) => s2[j] - fl(j) <= s2[i] - fl(i)
  <2>1. D[i] - s[i] > Epsilon
    BY <1>1, <1>3, <1>4, <1>13
  <2>2. ASSUME v(i) > v(j) PROVE s2[j] = fl(j)
    <3>1. s[j] = fl(j)
      BY <1>10, <2>1, <2>2
    <3>2. j \notin W
      <4> SUFFICES ASSUME j \in W PROVE FALSE
        OBVIOUS
      <4>1. i \notin W
        BY <1>3, <1>12, <2>2
      <4>2. v(i) \notin T
        BY <1>3, <1>11, <2>2
      <4> QED
        BY <1>1, <1>3, <1>9, <2>1, <4>1, <4>2
    <3> QED
      BY <1>3, <1>4, <3>1, <3>2
  <2>3. ASSUME v(i) = v(j) PROVE s2[j] - fl(j) <= s2[i] - fl(i)
    <3>1. s[j] - fl(j) <= s[i] - fl(i)
      BY <1>10, <2>1, <2>3
    <3>2. CASE i \in W
      <4>1. g[i] = each
        BY <1>1, <1>3, <1>4, <1>13, <3>2
      <4> QED
        BY <1>2, <1>3, <1>4, <3>1, <4>1
    <3>3. CASE i \notin W
      <4>1. v(i) \in T
        BY <1>1, <1>3, <1>9, <2>1, <3>3
      <4>2. j \notin W
        BY <1>11, <2>3, <4>1
      <4> QED
        BY <1>3, <1>4, <3>1, <3>3, <4>2
    <3> QED
      BY <3>2, <3>3
  <2> QED
    BY <2>2, <2>3
<1>14. InTurn(p, I, D, s2)
  <2>1. \A i \in I : ~Met(D, s2, i) <=> D[i] - s2[i] > Epsilon
    BY <1>1, <1>3, <1>4 DEF Met
  <2> QED
    BY <1>13, <2>1 DEF InTurn, v, fl
<1>15. \A i \in I : FloorOf(p, D, i) <= s2[i] /\ s2[i] <= D[i]
  BY <1>3, <1>4 DEF fl
<1>16. Divided(p, I, D, s2, left2)
  BY <1>7, <1>8, <1>14, <1>15 DEF Divided
<1>17. \A i \in W : g[i] = each \/ s2[i] = D[i]
  BY <1>3, <1>4
<1> QED
  BY <1>2, <1>3, <1>4, <1>5, <1>6, <1>16, <1>17 DEF G

-----------------------------------------------------------------------------
(* The solver.                                                             *)

ShareTypeOK ==
    /\ problem \in Problems
    /\ pass \in {"first", "second", "done"}
    /\ unsolved \in SUBSET by_device
    /\ here \in SUBSET Indices
    /\ wanting \in SUBSET here
    /\ free \in Nat
    /\ tiers \in SUBSET Nat
    /\ shares \in [Indices -> Nat]
    /\ first \in [Indices -> Nat]

\* The device being solved: what its indices want and do not get is for the
\* tiers still to be served, or nothing is left.
Filling ==
    /\ \E d \in by_device \ unsolved : here = OnDevice(d)
    /\ Divided(problem, here, Demand, shares, free)
    /\ \A i \in here : problem[i].value \notin tiers /\ i \notin wanting =>
          Met(Demand, shares, i) \/ free <= Epsilon
    /\ \A i \in wanting : \A t \in tiers : t < problem[i].value
    /\ \A i, j \in wanting : problem[i].value = problem[j].value

\* Every device that has been solved is solved still.
SolvedSoFar ==
    /\ \A d \in by_device \ unsolved :
          OnDevice(d) # here => Solved(problem, OnDevice(d), Demand, shares)
    /\ pass # "first" =>
          \A d \in by_device : Solved(problem, OnDevice(d), Uncapped, first)

ShareInv ==
    /\ ShareTypeOK
    /\ here # {} => Filling
    /\ SolvedSoFar
    /\ pass = "done" => here = {} /\ unsolved = {}

LEMMA ProblemShape ==
    ASSUME ShareTypeOK
    PROVE  /\ IsFiniteSet(Indices)
           /\ \A i \in Indices :
                 /\ problem[i].demand \in 0..Unit
                 /\ problem[i].min_share \in Nat
                 /\ problem[i].value \in Nat
<1>1. problem \in Seq(ToSet(problem)) /\ problem \in Problems
  BY ProblemsAssumption DEF ShareTypeOK
<1>2. Indices = 1..Len(problem) /\ Len(problem) \in Nat
  BY <1>1, LenProperties DEF Indices
<1>3. IsFiniteSet(Indices)
  BY <1>2, FS_Interval
<1> QED
  BY <1>1, <1>3, ProblemsAssumption DEF Indices

LEMMA CapIs ==
    ASSUME ShareTypeOK, NEW i \in Indices
    PROVE  /\ Cap(i) \in Nat
           /\ Min({first[j] : j \in Labelled(problem[i].label)}) \in Nat
           /\ Min({first[j] : j \in Labelled(problem[i].label)}) <= first[i]
           /\ Cardinality(Labelled(problem[i].label)) = 1 => Cap(i) = Unit
           /\ Cardinality(Labelled(problem[i].label)) # 1 =>
                 Cap(i) = Min({first[j] : j \in Labelled(problem[i].label)})
<1> DEFINE S == {first[j] : j \in Labelled(problem[i].label)}
<1>1. S \in SUBSET Nat /\ first[i] \in S
  BY DEF ShareTypeOK, Labelled
<1> HIDE DEF S
<1>2. Min(S) \in Nat /\ Min(S) <= first[i]
  BY <1>1, LeastIs
<1> QED
  BY <1>2, UnitAssumption DEF Cap, S

LEMMA CappedIs ==
    ASSUME ShareTypeOK, NEW i \in Indices
    PROVE  /\ Capped[i] \in Nat /\ Capped[i] \in {problem[i].demand, Cap(i)}
           /\ Capped[i] <= problem[i].demand /\ Capped[i] <= Cap(i)
           /\ Cardinality(Labelled(problem[i].label)) = 1 => Capped[i] = problem[i].demand
<1> DEFINE S == {problem[i].demand, Cap(i)}
<1>1. /\ S \in SUBSET Nat /\ problem[i].demand \in Nat /\ problem[i].demand <= Unit
      /\ Cap(i) \in Nat /\ Unit \in Nat
  <2>1. problem[i].demand \in 0..Unit /\ Unit \in Nat
    BY ProblemShape, UnitAssumption
  <2>2. problem[i].demand \in Nat /\ problem[i].demand <= Unit
    BY <2>1
  <2>3. Cap(i) \in Nat
    BY CapIs
  <2> QED
    BY <2>1, <2>2, <2>3
<1>2. Capped[i] = Min(S)
  BY DEF Capped
<1>3. Min(S) \in S /\ \A y \in S : Min(S) <= y
  <2> HIDE DEF S
  <2>1. S # {}
    BY DEF S
  <2> QED
    BY <1>1, <2>1, LeastIs
<1>4. Capped[i] \in {problem[i].demand, Cap(i)} /\ Capped[i] \in Nat
      /\ Capped[i] <= problem[i].demand /\ Capped[i] <= Cap(i)
  BY <1>1, <1>2, <1>3
<1>5. ASSUME Cardinality(Labelled(problem[i].label)) = 1 PROVE Capped[i] = problem[i].demand
  <2>1. Cap(i) = Unit
    BY <1>5, CapIs
  <2> QED
    BY <1>1, <1>2, <1>3, <2>1
<1> QED
  BY <1>4, <1>5

LEMMA DemandsSized ==
    ASSUME ShareTypeOK, NEW I \in SUBSET Indices
    PROVE  /\ Sized(problem, I, Uncapped) /\ Sized(problem, I, Capped)
           /\ Sized(problem, I, Demand)
<1>1. IsFiniteSet(I)
  BY ProblemShape, FS_Subset
<1>2. \A i \in I : problem[i].min_share \in Nat /\ problem[i].value \in Nat
  BY ProblemShape
<1>3. \A i \in I : Uncapped[i] \in Nat
  BY ProblemShape, UnitAssumption DEF Uncapped
<1>4. \A i \in I : Capped[i] \in Nat
  BY CappedIs
<1>5. Demand \in {Uncapped, Capped}
  BY DEF Demand
<1> QED
  BY <1>1, <1>2, <1>3, <1>4, <1>5 DEF Sized

\* Only the shares of its own indices make a device solved.
LEMMA SolvedElsewhere ==
    ASSUME NEW p, NEW I, NEW D, NEW s, NEW s2, \A i \in I : s2[i] = s[i], Solved(p, I, D, s)
    PROVE  Solved(p, I, D, s2)
BY DEF Solved, Rests

LEMMA DevicesDiffer ==
    ASSUME NEW d \in by_device, NEW e \in by_device, OnDevice(d) # OnDevice(e)
    PROVE  \A i \in OnDevice(d) : i \in Indices /\ i \notin OnDevice(e)
BY DEF OnDevice

LEMMA ShareStarts == ShareInit => ShareInv
<1> SUFFICES ASSUME ShareInit PROVE ShareInv
  OBVIOUS
<1>1. ShareTypeOK
  BY DEF ShareInit, ShareTypeOK
<1>2. by_device \ unsolved = {} /\ pass = "first" /\ here = {}
  BY DEF ShareInit
<1> QED
  BY <1>1, <1>2 DEF ShareInv, SolvedSoFar

LEMMA BeginStep == ASSUME ShareInv, NEW d \in unsolved, Begin(d) PROVE ShareInv'
<1> DEFINE I == OnDevice(d)
           D == Demand
           s2 == [i \in Indices |-> IF i \in I THEN Floor(i, D) ELSE shares[i]]
<1>1. /\ here = {} /\ unsolved' = unsolved \ {d} /\ here' = I
      /\ UNCHANGED <<problem, pass, first>> /\ wanting' = {}
      /\ d \in by_device /\ I \in SUBSET Indices /\ ShareTypeOK
  BY DEF Begin, ShareInv, ShareTypeOK, OnDevice
<1>2. /\ shares' = s2
      /\ free' = Clamp(Unit - Floors(I, D), 0, Unit)
      /\ tiers' = {problem[i].value : i \in I}
  BY <1>1 DEF Begin
<1>3. /\ Indices' = Indices /\ by_device' = by_device /\ Demand' = D /\ Uncapped' = Uncapped
      /\ \A e : OnDevice(e)' = OnDevice(e)
  BY <1>1 DEF Indices, by_device, Demand, Uncapped, Capped, Cap, Labelled, OnDevice
<1>4. Sized(problem, I, D)
  BY <1>1, DemandsSized
<1>5. /\ \A i \in I : Floor(i, D) = FloorOf(problem, D, i)
      /\ Floors(I, D) = FloorsOf(problem, I, D)
  BY DEF Floor, Floors, FloorOf, FloorsOf
<1>6. /\ \A i \in I : FloorOf(problem, D, i) \in Nat /\ FloorOf(problem, D, i) <= D[i]
      /\ FloorsOf(problem, I, D) \in Nat /\ Unit \in Nat
  BY <1>4, FloorIs, FloorsType, UnitAssumption
<1>7. /\ \A i \in I : s2[i] = FloorOf(problem, D, i)
      /\ \A i \in Indices \ I : s2[i] = shares[i]
      /\ s2 \in [Indices -> Nat]
  <2>1. \A i \in I : s2[i] = FloorOf(problem, D, i)
    BY <1>1, <1>5
  <2>2. \A i \in Indices \ I : s2[i] = shares[i]
    OBVIOUS
  <2>3. ASSUME NEW i \in Indices PROVE s2[i] \in Nat
    <3>1. shares[i] \in Nat
      BY <1>1 DEF ShareTypeOK
    <3> QED
      BY <1>6, <2>1, <2>2, <3>1
  <2> QED
    BY <2>1, <2>2, <2>3
<1>8. tiers' \in SUBSET Nat
  BY <1>1, <1>2, ProblemShape
<1>9. /\ free' \in Nat
      /\ FloorsOf(problem, I, D) <= Unit => FloorsOf(problem, I, D) + free' = Unit
      /\ FloorsOf(problem, I, D) > Unit => free' = 0
  BY <1>2, <1>5, <1>6 DEF Clamp
<1> HIDE DEF D, s2, I
<1>10. Divided(problem, I, D, s2, free')
  <2>1. FloorsOf(problem, I, D) = SumFunctionOnSet(s2, I)
    <3> DEFINE f == [i \in I |-> FloorOf(problem, D, i)]
    <3>1. \A i \in I : f[i] \in Int /\ f[i] = s2[i]
      BY <1>6, <1>7
    <3> HIDE DEF f
    <3>2. IsFiniteSet(I)
      BY <1>4 DEF Sized
    <3>3. SumFunctionOnSet(f, I) = SumFunctionOnSet(s2, I)
      BY <3>1, <3>2, SumAgree
    <3> QED
      BY <3>3 DEF FloorsOf, f
  <2>2. InTurn(problem, I, D, s2)
    BY <1>6, <1>7 DEF InTurn
  <2>3. \A i \in I : FloorOf(problem, D, i) <= s2[i] /\ s2[i] <= D[i]
    BY <1>6, <1>7
  <2> QED
    BY <1>7, <1>9, <2>1, <2>2, <2>3 DEF Divided
<1>11. ShareTypeOK'
  BY <1>1, <1>2, <1>3, <1>7, <1>8, <1>9 DEF ShareTypeOK
<1>12. Filling'
  <2>1. \E e \in by_device' \ unsolved' : here' = OnDevice(e)'
    BY <1>1, <1>3 DEF I
  <2>2. Divided(problem, here, Demand, shares, free)'
    BY <1>1, <1>2, <1>3, <1>10
  <2>3. \A i \in here' : problem'[i].value \in tiers'
    BY <1>1, <1>2
  <2> QED
    BY <1>1, <2>1, <2>2, <2>3 DEF Filling
<1>13. SolvedSoFar'
  <2>1. ASSUME NEW e \in by_device \ unsolved', OnDevice(e) # here'
        PROVE  Solved(problem, OnDevice(e), D, shares')
    <3>1. e \in by_device \ unsolved
      BY <1>1, <2>1 DEF I
    <3>2. OnDevice(e) # here
      BY <1>1 DEF OnDevice, by_device
    <3>3. Solved(problem, OnDevice(e), D, shares)
      BY <3>1, <3>2 DEF ShareInv, SolvedSoFar, D
    <3>4. \A i \in OnDevice(e) : i \in Indices \ I
      BY <1>1, <2>1, DevicesDiffer DEF I
    <3> QED
      BY <1>2, <1>7, <3>3, <3>4, SolvedElsewhere
  <2>2. pass # "first" => \A e \in by_device : Solved(problem, OnDevice(e), Uncapped, first)
    BY DEF ShareInv, SolvedSoFar
  <2> QED
    BY <1>1, <1>3, <2>1, <2>2 DEF SolvedSoFar
<1>14. pass' # "done"
  BY <1>1 DEF ShareInv
<1> QED
  BY <1>11, <1>12, <1>13, <1>14 DEF ShareInv

\* A step within one device: the others are solved still.
LEMMA OthersSolved ==
    ASSUME ShareTypeOK, SolvedSoFar, here # {} => Filling,
           UNCHANGED <<problem, pass, unsolved, first>>,
           \A i \in Indices \ here : shares'[i] = shares[i],
           here' = here \/ (here' = {} /\ Solved(problem, here, Demand, shares'))
    PROVE  SolvedSoFar'
<1>1. /\ Indices' = Indices /\ by_device' = by_device /\ Demand' = Demand
      /\ Uncapped' = Uncapped /\ \A e : OnDevice(e)' = OnDevice(e)
  BY DEF Indices, by_device, Demand, Uncapped, Capped, Cap, Labelled, OnDevice
<1>2. ASSUME NEW e \in by_device \ unsolved, OnDevice(e) # here'
      PROVE  Solved(problem, OnDevice(e), Demand, shares')
  <2>1. CASE OnDevice(e) = here
    BY <1>2, <2>1
  <2>2. CASE OnDevice(e) # here
    <3>1. Solved(problem, OnDevice(e), Demand, shares)
      BY <2>2 DEF SolvedSoFar
    <3>2. \A i \in OnDevice(e) : i \in Indices \ here
      <4>1. CASE here = {}
        BY <4>1 DEF OnDevice
      <4>2. CASE here # {}
        <5>1. PICK d \in by_device \ unsolved : here = OnDevice(d)
          BY <4>2 DEF Filling
        <5> QED
          BY <2>2, <5>1, DevicesDiffer
      <4> QED
        BY <4>1, <4>2
    <3> QED
      BY <3>1, <3>2, SolvedElsewhere
  <2> QED
    BY <2>1, <2>2
<1> QED
  BY <1>1, <1>2 DEF SolvedSoFar

LEMMA RoundIs ==
    ASSUME ShareInv, Round
    PROVE  /\ Rounded(problem, here, Demand, shares, free, wanting, tiers,
                      free \div Cardinality(wanting), [i \in Indices |-> Grant(i)], shares', free')
           /\ \A i \in Indices \ here : shares'[i] = shares[i]
<1> DEFINE D == Demand
           W == wanting
           g == [i \in Indices |-> Grant(i)]
           onW == [i \in W |-> Grant(i)]
<1>1. /\ wanting # {} /\ free > Epsilon
      /\ shares' = [i \in Indices |-> shares[i] + Grant(i)]
      /\ free' = free - SumFunctionOnSet(onW, W)
      /\ wanting' = {i \in wanting : D[i] - shares'[i] > Epsilon}
      /\ UNCHANGED <<problem, pass, unsolved, here, tiers, first>>
  BY DEF Round
<1>2. ShareTypeOK /\ SolvedSoFar /\ here # {} /\ Filling /\ pass # "done"
  BY <1>1 DEF ShareInv, ShareTypeOK
<1>3. /\ here \in SUBSET Indices /\ W \in SUBSET here /\ W # {} /\ free \in Nat
      /\ \A i \in Indices : shares[i] \in Nat
      /\ \A i \in here : shares[i] \in Nat
      /\ tiers \in SUBSET Nat
  BY <1>1, <1>2 DEF ShareTypeOK
<1>4. Sized(problem, here, D)
  BY <1>2, <1>3, DemandsSized
<1>5. /\ Indices' = Indices /\ by_device' = by_device /\ Demand' = D
      /\ \A e : OnDevice(e)' = OnDevice(e)
  BY <1>1 DEF Indices, by_device, Demand, Uncapped, Capped, Cap, Labelled, OnDevice
<1>6. /\ Divided(problem, here, D, shares, free)
      /\ \A i \in W : \A t \in tiers : t \in Nat /\ t < problem[i].value
      /\ \A i, j \in W : problem[i].value = problem[j].value
      /\ \A i \in here : problem[i].value \notin tiers /\ i \notin W =>
            Met(D, shares, i) \/ free <= Epsilon
  BY <1>2, <1>3 DEF Filling
<1>7. \A i \in here : g[i] = IF i \in W THEN Clamp(D[i] - shares[i], 0, free \div Cardinality(W)) ELSE 0
  BY <1>3 DEF Grant
<1>8. \A i \in here : shares'[i] = shares[i] + g[i]
  BY <1>1, <1>3
<1>9. free' = free - SumFunctionOnSet(g, W)
  <2>1. IsFiniteSet(W)
    BY <1>3, <1>4, FS_Subset DEF Sized
  <2>2. \A i \in W : Grant(i) \in Int
    <3>1. PICK each \in Nat : each = free \div Cardinality(W)
      BY <1>3, <2>1, FS_CardinalityType, FS_EmptySet, DivDown
    <3>2. ASSUME NEW i \in W PROVE Grant(i) \in Int
      <4>1. D[i] - shares[i] \in Int
        BY <1>3, <1>4 DEF Sized
      <4> QED
        BY <3>1, <4>1 DEF Grant, Clamp
    <3> QED
      BY <3>2
  <2>3. \A i \in W : onW[i] \in Int /\ onW[i] = g[i]
    BY <1>3, <2>2
  <2> HIDE DEF onW, g
  <2>4. SumFunctionOnSet(onW, W) = SumFunctionOnSet(g, W)
    BY <2>1, <2>3, SumAgree
  <2> QED
    BY <1>1, <2>4
<1>10. \A i \in Indices \ here : shares'[i] = shares[i]
  <2> SUFFICES ASSUME NEW i \in Indices \ here PROVE shares'[i] = shares[i]
    OBVIOUS
  <2>1. Grant(i) = 0
    BY <1>3 DEF Grant
  <2> QED
    BY <1>1, <1>3, <2>1
<1> HIDE DEF D, W, g, onW
<1> QED
  BY <1>1, <1>3, <1>4, <1>6, <1>7, <1>8, <1>9, <1>10 DEF Rounded, D, W, g

LEMMA RoundStep == ASSUME ShareInv, Round PROVE ShareInv'
<1> DEFINE D == Demand
           W == wanting
<1>1. /\ wanting # {}
      /\ shares' = [i \in Indices |-> shares[i] + Grant(i)]
      /\ wanting' = {i \in wanting : D[i] - shares'[i] > Epsilon}
      /\ UNCHANGED <<problem, pass, unsolved, here, tiers, first>>
  BY DEF Round
<1>2. ShareTypeOK /\ SolvedSoFar /\ here # {} /\ Filling /\ pass # "done"
  BY <1>1 DEF ShareInv, ShareTypeOK
<1>3. /\ here \in SUBSET Indices /\ W \in SUBSET here
      /\ \A i \in Indices : shares[i] \in Nat
  BY <1>2 DEF ShareTypeOK
<1>4. Sized(problem, here, D)
  BY <1>2, <1>3, DemandsSized
<1>5. /\ Indices' = Indices /\ by_device' = by_device /\ Demand' = D
      /\ \A e : OnDevice(e)' = OnDevice(e)
  BY <1>1 DEF Indices, by_device, Demand, Uncapped, Capped, Cap, Labelled, OnDevice
<1>6. /\ \A i \in W : \A t \in tiers : t < problem[i].value
      /\ \A i, j \in W : problem[i].value = problem[j].value
      /\ \A i \in here : problem[i].value \notin tiers /\ i \notin W =>
            Met(D, shares, i) \/ free <= Epsilon
  BY <1>2 DEF Filling
<1>7. ~(free <= Epsilon)
  BY <1>2, EpsilonAssumption DEF Round, ShareTypeOK
<1>10. \A i \in Indices \ here : shares'[i] = shares[i]
  BY RoundIs
<1>11. /\ Divided(problem, here, D, shares', free') /\ free' \in Nat
       /\ \A i \in here : shares'[i] \in Nat /\ shares[i] <= shares'[i]
  BY RoundIs, RoundDivides
<1> HIDE DEF D, W
<1>12. shares' \in [Indices -> Nat]
  BY <1>1, <1>3, <1>10, <1>11
<1>13. ShareTypeOK'
  BY <1>1, <1>2, <1>5, <1>11, <1>12 DEF ShareTypeOK
<1>14. \A i \in here : problem[i].value \notin tiers /\ i \notin wanting' => Met(D, shares', i)
  <2> SUFFICES ASSUME NEW i \in here, problem[i].value \notin tiers, i \notin wanting'
               PROVE  Met(D, shares', i)
    OBVIOUS
  <2>1. /\ D[i] \in Nat /\ shares[i] \in Nat /\ shares'[i] \in Nat /\ shares[i] <= shares'[i]
        /\ Epsilon \in Nat
    BY <1>3, <1>4, <1>11, EpsilonAssumption DEF Sized
  <2>2. CASE i \in W
    BY <1>1, <2>1, <2>2 DEF Met, W
  <2>3. CASE i \notin W
    BY <1>1, <1>3, <1>6, <1>7, <2>1, <2>3 DEF Met
  <2> QED
    BY <2>2, <2>3
<1>15. Filling'
  <2>1. \E e \in by_device' \ unsolved' : here' = OnDevice(e)'
    BY <1>1, <1>2, <1>5 DEF Filling
  <2>2. Divided(problem, here, Demand, shares, free)'
    BY <1>1, <1>5, <1>11
  <2>3. \A i \in here' : problem'[i].value \notin tiers' /\ i \notin wanting' => Met(Demand', shares', i)
    BY <1>1, <1>5, <1>14
  <2>4. wanting' \in SUBSET W
    BY <1>1 DEF W
  <2>5. /\ \A i \in wanting' : \A t \in tiers' : t < problem'[i].value
        /\ \A i, j \in wanting' : problem'[i].value = problem'[j].value
    BY <1>1, <1>6, <2>4
  <2> QED
    BY <2>1, <2>2, <2>3, <2>5 DEF Filling, Met
<1>16. SolvedSoFar'
  BY <1>1, <1>2, <1>10, OthersSolved
<1> QED
  BY <1>1, <1>2, <1>13, <1>15, <1>16 DEF ShareInv

\* A round that meets nobody's demand gives out all but a Unit-th for each
\* that wants more.
LEMMA RoundSpends ==
    ASSUME NEW p, NEW I, NEW D, NEW s, NEW left, NEW W, NEW T, NEW each, NEW g, NEW s2, NEW left2,
           Rounded(p, I, D, s, left, W, T, each, g, s2, left2),
           \A i \in W : s2[i] # D[i]
    PROVE  left2 < Cardinality(W)
<1> DEFINE m == Cardinality(W)
           G == SumFunctionOnSet(g, W)
           all == [i \in W |-> each]
           zero == [i \in W |-> 0]
<1>1. /\ left \in Nat /\ left2 = left - G /\ W \in SUBSET I /\ W # {} /\ each = left \div m
      /\ IsFiniteSet(I)
  BY DEF Rounded, Sized
<1>2. IsFiniteSet(W) /\ m \in Nat /\ m # 0
  BY <1>1, FS_Subset, FS_CardinalityType, FS_EmptySet
<1>3. each \in Nat /\ left < m * each + m
  BY <1>1, <1>2, DivDown
<1>4. \A i \in W : g[i] = each
  BY RoundDivides
<1>5. G \in Nat
  BY RoundDivides
<1>6. 0 <= G + (-each) * m
  <2>1. /\ -each \in Int
        /\ \A i \in W : zero[i] \in Int /\ g[i] \in Int /\ zero[i] <= g[i] + (-each)
    BY <1>3, <1>4
  <2>2. SumFunctionOnSet(zero, W) \in Nat
    <3>1. \A i \in W : zero[i] \in Nat
      OBVIOUS
    <3> HIDE DEF zero
    <3> QED
      BY <1>2, <3>1, SumType
  <2> HIDE DEF zero
  <2>3. SumFunctionOnSet(zero, W) <= SumFunctionOnSet(g, W) + (-each) * Cardinality(W)
    BY <1>2, <2>1, SumLeq
  <2> HIDE DEF m, G
  <2>4. (-each) * m \in Int
    BY <1>2, <1>3
  <2> QED
    BY <1>5, <2>2, <2>3, <2>4 DEF m, G
<1> HIDE DEF m, G
<1>7. (-each) * m = -(m * each) /\ m * each \in Nat
  BY <1>2, <1>3
<1> QED
  BY <1>1, <1>2, <1>3, <1>5, <1>6, <1>7 DEF m

LEMMA NextTierStep == ASSUME ShareInv, NextTier PROVE ShareInv'
<1>1. PICK v \in tiers : /\ \A t \in tiers : t <= v
                         /\ tiers' = tiers \ {v}
                         /\ wanting' = {i \in here : problem[i].value = v}
  BY DEF NextTier, Served
<1>2. /\ here # {} /\ (wanting = {} \/ free <= Epsilon)
      /\ UNCHANGED <<problem, pass, unsolved, here, free, shares, first>>
  BY DEF NextTier, TierServed
<1>3. ShareTypeOK /\ SolvedSoFar /\ Filling /\ pass # "done"
  BY <1>2 DEF ShareInv
<1>4. /\ Indices' = Indices /\ by_device' = by_device /\ Demand' = Demand
      /\ \A e : OnDevice(e)' = OnDevice(e)
  BY <1>2 DEF Indices, by_device, Demand, Uncapped, Capped, Cap, Labelled, OnDevice
<1>5. ShareTypeOK'
  BY <1>1, <1>2, <1>3, <1>4 DEF ShareTypeOK
<1>6. Filling'
  <2>1. \E e \in by_device' \ unsolved' : here' = OnDevice(e)'
    BY <1>2, <1>3, <1>4 DEF Filling
  <2>2. Divided(problem, here, Demand, shares, free)'
    BY <1>2, <1>3, <1>4 DEF Filling
  <2>3. ASSUME NEW i \in here, problem[i].value \notin tiers', i \notin wanting'
        PROVE  Met(Demand, shares, i) \/ free <= Epsilon
    <3>1. problem[i].value \notin tiers
      BY <1>1, <2>3
    <3> QED
      BY <1>2, <1>3, <2>3, <3>1 DEF Filling
  <2>4. ASSUME NEW i \in wanting', NEW t \in tiers' PROVE t < problem[i].value
    <3>1. t \in tiers /\ t # v /\ t <= v /\ problem[i].value = v /\ t \in Nat /\ v \in Nat
      BY <1>1, <1>3, <2>4 DEF ShareTypeOK
    <3> QED
      BY <3>1
  <2>5. \A i, j \in wanting' : problem[i].value = problem[j].value
    BY <1>1
  <2> QED
    BY <1>2, <1>4, <2>1, <2>2, <2>3, <2>4, <2>5 DEF Filling, Met
<1>7. SolvedSoFar'
  BY <1>2, <1>3, OthersSolved
<1> QED
  BY <1>2, <1>3, <1>5, <1>6, <1>7 DEF ShareInv

LEMMA LeftoversStep == ASSUME ShareInv, Leftovers PROVE ShareInv'
<1> DEFINE base == [i \in here |-> shares[i]]
<1>1. /\ here # {} /\ (wanting = {} \/ free <= Epsilon) /\ tiers = {}
      /\ shares' = [i \in Indices |-> shares[i] + Leftover(i)]
      /\ here' = {} /\ wanting' = {} /\ free' = 0
      /\ UNCHANGED <<problem, pass, unsolved, tiers, first>>
  BY DEF Leftovers, TierServed
<1>2. ShareTypeOK /\ SolvedSoFar /\ Filling /\ pass # "done"
  BY <1>1 DEF ShareInv
<1>3. /\ here \in SUBSET Indices /\ free \in Nat
      /\ \A i \in Indices : shares[i] \in Nat
      /\ base \in [here -> Nat] /\ \A i \in here : base[i] = shares[i]
  BY <1>2 DEF ShareTypeOK
<1>4. Sized(problem, here, Demand) /\ IsFiniteSet(here)
  BY <1>2, <1>3, DemandsSized DEF Sized
<1>5. \A i \in here : Leftover(i) = Portion(problem, here, free, i)
  BY DEF Leftover, Portion, ValueSum
<1>6. \A i \in here : Leftover(i) \in Nat
  BY <1>3, <1>4, <1>5, PortionIs
<1>7. /\ \A i \in Indices \ here : shares'[i] = shares[i]
      /\ \A i \in here : shares'[i] = base[i] + Portion(problem, here, free, i)
      /\ shares' \in [Indices -> Nat]
  <2>1. \A i \in Indices \ here : Leftover(i) = 0
    BY DEF Leftover
  <2>2. \A i \in Indices : Leftover(i) \in Nat
    BY <1>6, <2>1
  <2>3. \A i \in Indices : shares'[i] = shares[i] + Leftover(i) /\ shares'[i] \in Nat
    BY <1>1, <1>3, <2>2
  <2>4. \A i \in Indices \ here : shares'[i] = shares[i]
    BY <1>3, <2>1, <2>3
  <2> QED
    BY <1>1, <1>3, <1>5, <2>3, <2>4
<1> HIDE DEF base
<1>8. Divided(problem, here, Demand, base, free)
  <2>1. \A i \in here : shares[i] \in Int /\ base[i] \in Int
    BY <1>3
  <2>2. SumFunctionOnSet(base, here) = SumFunctionOnSet(shares, here)
    BY <1>3, <1>4, <2>1, SumAgree
  <2>3. Divided(problem, here, Demand, shares, free)
    BY <1>2 DEF Filling
  <2> QED
    BY <1>3, <2>2, <2>3 DEF Divided, InTurn, Met
<1>9. free <= Epsilon \/ \A i \in here : Met(Demand, base, i)
  <2>1. CASE free <= Epsilon
    BY <2>1
  <2>2. CASE wanting = {}
    BY <1>1, <1>2, <1>3, <2>2 DEF Filling, Met
  <2> QED
    BY <1>1, <2>1, <2>2
<1>10. Solved(problem, here, Demand, shares')
  <2>1. Rests(problem, here, Demand, shares', base, free)
    BY <1>7, <1>8, <1>9 DEF Rests
  <2> QED
    BY <1>3, <2>1 DEF Solved
<1>11. SolvedSoFar'
  BY <1>1, <1>2, <1>7, <1>10, OthersSolved
<1>12. ShareTypeOK'
  <2>1. Indices' = Indices /\ by_device' = by_device
    BY <1>1 DEF Indices, by_device
  <2> QED
    BY <1>1, <1>2, <1>7, <2>1 DEF ShareTypeOK
<1> QED
  BY <1>1, <1>2, <1>11, <1>12 DEF ShareInv

LEMMA EndPassStep == ASSUME ShareInv, EndPass PROVE ShareInv'
<1>1. /\ here = {} /\ unsolved = {} /\ pass \in {"first", "second"}
      /\ UNCHANGED <<problem, here, free, tiers, wanting>>
  BY DEF EndPass
<1>2. ShareTypeOK /\ SolvedSoFar
  BY DEF ShareInv
<1>3. /\ Indices' = Indices /\ by_device' = by_device /\ Uncapped' = Uncapped
      /\ \A e : OnDevice(e)' = OnDevice(e)
  BY <1>1 DEF Indices, by_device, Uncapped, OnDevice
<1>4. \A d \in by_device : Solved(problem, OnDevice(d), Demand, shares)
  <2>1. \A d \in by_device : OnDevice(d) # {}
    BY DEF by_device, OnDevice
  <2> QED
    BY <1>1, <1>2, <2>1 DEF SolvedSoFar
<1>5. CASE pass = "first"
  <2>1. /\ pass' = "second" /\ first' = shares /\ unsolved' = by_device
        /\ shares' = [i \in Indices |-> 0]
    BY <1>5 DEF EndPass
  <2>2. Demand = Uncapped
    BY <1>5 DEF Demand
  <2>3. SolvedSoFar'
    BY <1>1, <1>3, <1>4, <2>1, <2>2 DEF SolvedSoFar
  <2>4. ShareTypeOK'
    BY <1>1, <1>2, <1>3, <2>1 DEF ShareTypeOK
  <2> QED
    BY <1>1, <2>1, <2>3, <2>4 DEF ShareInv
<1>6. CASE pass # "first"
  <2>1. pass' = "done" /\ first' = first /\ unsolved' = unsolved /\ shares' = shares
    BY <1>6 DEF EndPass
  <2>2. Demand = Capped /\ Demand' = Capped'
    BY <1>6, <2>1 DEF Demand
  <2>3. Capped' = Capped
    BY <1>1, <1>3, <2>1 DEF Capped, Cap, Labelled
  <2>4. SolvedSoFar'
    BY <1>1, <1>2, <1>3, <1>4, <1>6, <2>1, <2>2, <2>3 DEF SolvedSoFar
  <2>5. ShareTypeOK'
    BY <1>1, <1>2, <1>3, <2>1 DEF ShareTypeOK
  <2> QED
    BY <1>1, <2>1, <2>4, <2>5 DEF ShareInv
<1> QED
  BY <1>5, <1>6

LEMMA ShareInvariance == ShareSpec => []ShareInv
<1>1. ASSUME ShareInv, [ShareNext]_shareVars PROVE ShareInv'
  <2>1. CASE \E d \in unsolved : Begin(d)
    BY <1>1, <2>1, BeginStep
  <2>2. CASE Round
    BY <1>1, <2>2, RoundStep
  <2>3. CASE NextTier
    BY <1>1, <2>3, NextTierStep
  <2>4. CASE Leftovers
    BY <1>1, <2>4, LeftoversStep
  <2>5. CASE EndPass
    BY <1>1, <2>5, EndPassStep
  <2>6. CASE UNCHANGED shareVars
    <3>1. UNCHANGED <<problem, pass, unsolved, here, free, tiers, wanting, shares, first>>
      BY <2>6 DEF shareVars
    <3>2. /\ Indices' = Indices /\ by_device' = by_device /\ Demand' = Demand
          /\ Uncapped' = Uncapped /\ \A e : OnDevice(e)' = OnDevice(e)
      BY <3>1 DEF Indices, by_device, Demand, Uncapped, Capped, Cap, Labelled, OnDevice
    <3>3. ShareTypeOK'
      BY <1>1, <3>1, <3>2 DEF ShareInv, ShareTypeOK
    <3>4. (here # {} => Filling)'
      BY <1>1, <3>1, <3>2 DEF ShareInv, Filling, Met
    <3>5. SolvedSoFar'
      BY <1>1, <3>1, <3>2 DEF ShareInv, SolvedSoFar
    <3> QED
      BY <1>1, <3>1, <3>3, <3>4, <3>5 DEF ShareInv
  <2> QED
    BY <1>1, <2>1, <2>2, <2>3, <2>4, <2>5, <2>6 DEF ShareNext
<1> QED
  BY <1>1, ShareStarts, PTL DEF ShareSpec

\* The water-fill of a tier ends: every round drops an index whose demand is
\* met from those that want more or leaves no more than Epsilon to give out,
\* if that is no less than the rounding, a Unit-th for each registrant.
THEOREM RoundsEnd ==
    ASSUME \A p \in Problems : Cardinality(DOMAIN p) <= Epsilon
    PROVE  ShareSpec => [][Round => \/ Cardinality(wanting') < Cardinality(wanting)
                                    \/ free' <= Epsilon]_shareVars
<1>1. ASSUME ShareInv, Round
      PROVE  Cardinality(wanting') < Cardinality(wanting) \/ free' <= Epsilon
  <2>1. /\ IsFiniteSet(Indices) /\ wanting \in SUBSET Indices
        /\ Cardinality(Indices) \in Nat /\ Cardinality(Indices) <= Epsilon /\ ShareTypeOK
    BY <1>1, ProblemShape, FS_CardinalityType DEF ShareInv, ShareTypeOK, Indices
  <2>2. /\ IsFiniteSet(wanting) /\ Cardinality(wanting) \in Nat
        /\ Cardinality(wanting) <= Epsilon
    BY <2>1, FS_Subset, FS_CardinalityType, EpsilonAssumption
  <2>3. wanting' = {i \in wanting : Demand[i] - shares'[i] > Epsilon}
    BY <1>1 DEF Round
  <2>4. CASE \E i \in wanting : shares'[i] = Demand[i]
    <3>1. PICK i \in wanting : shares'[i] = Demand[i]
      BY <2>4
    <3>2. Demand[i] \in Nat /\ Epsilon \in Nat
      BY <2>1, <3>1, DemandsSized, EpsilonAssumption DEF Sized
    <3>3. wanting' \in SUBSET (wanting \ {i})
      BY <2>3, <3>1, <3>2
    <3> QED
      BY <2>2, <3>3, FS_Subset, FS_CardinalityType, FS_RemoveElement
  <2>5. CASE \A i \in wanting : shares'[i] # Demand[i]
    <3>1. free' < Cardinality(wanting)
      BY <1>1, <2>5, RoundIs, RoundSpends
    <3>2. free' \in Nat
      BY <1>1, RoundIs, RoundDivides
    <3> QED
      BY <2>2, <3>1, <3>2, EpsilonAssumption
  <2> QED
    BY <2>4, <2>5
<1> QED
  BY <1>1, ShareInvariance, PTL

-----------------------------------------------------------------------------
(* What the two passes promise.                                            *)

\* A larger share has no smaller weight.
LEMMA WeightsKeepOrder ==
    ASSUME NEW a \in Nat, NEW b \in Nat, a <= b PROVE weight(a) <= weight(b)
<1> DEFINE h == Unit \div 2000
           q == Unit \div 1000
<1>1. h \in Nat /\ q \in Nat /\ q # 0
  BY UnitAssumption
<1> HIDE DEF h, q
<1>2. (a + h) \div q \in Nat /\ (b + h) \div q \in Nat /\ (a + h) \div q <= (b + h) \div q
  BY <1>1
<1> QED
  BY <1>2 DEF weight, h, q

\* Each device's time is split as the comment of solve_shares promises, for
\* every number of devices and engines and every demand, value and floor.
THEOREM SharesAreSplit == ShareSpec => []SharesSplit
<1>1. ASSUME ShareInv PROVE SharesSplit
  <2> SUFFICES ASSUME pass = "done", NEW d \in by_device
               PROVE  /\ RightlySplit(OnDevice(d), Uncapped, first)
                      /\ RightlySplit(OnDevice(d), Capped, shares)
                      /\ \A i, j \in OnDevice(d) :
                            shares[i] <= shares[j] => weight(shares[i]) <= weight(shares[j])
    BY DEF SharesSplit
  <2>1. ShareTypeOK /\ SolvedSoFar /\ here = {} /\ unsolved = {} /\ Demand = Capped
    BY <1>1 DEF ShareInv, Demand
  <2>2. OnDevice(d) # {} /\ OnDevice(d) \in SUBSET Indices
    BY DEF by_device, OnDevice
  <2>3. /\ Solved(problem, OnDevice(d), Uncapped, first)
        /\ Solved(problem, OnDevice(d), Capped, shares)
    BY <2>1, <2>2 DEF SolvedSoFar
  <2>4. Sized(problem, OnDevice(d), Uncapped) /\ Sized(problem, OnDevice(d), Capped)
    BY <2>1, <2>2, DemandsSized
  <2>5. \A i \in OnDevice(d) : shares[i] \in Nat
    BY <2>1, <2>2 DEF ShareTypeOK
  <2> QED
    BY <2>3, <2>4, <2>5, SolvedIsRight, WeightsKeepOrder
<1> QED
  BY <1>1, ShareInvariance, PTL

\* The second pass, with the demands of tensor-parallel engines capped at
\* their bottleneck, takes nothing from anyone that it can use.
THEOREM CapsTakeNothing == ShareSpec => []NobodyLoses
<1>1. ASSUME ShareInv PROVE NobodyLoses
  <2> SUFFICES ASSUME pass = "done", NEW i \in Indices
               PROVE  LET ranks == Labelled(problem[i].label)
                          bottleneck == Min({first[j] : j \in ranks})
                          slack == (2 * Cardinality(OnDevice(problem[i].device)) + 1) * Epsilon
                      IN  /\ shares[i] + slack >= Min({bottleneck, problem[i].demand})
                          /\ Cardinality(ranks) = 1 => shares[i] + slack >= first[i]
    BY DEF NobodyLoses
  <2> DEFINE d == problem[i].device
             I == OnDevice(d)
             ranks == Labelled(problem[i].label)
             bottleneck == Min({first[j] : j \in ranks})
             n == Cardinality(I)
             t == Min({bottleneck, problem[i].demand})
  <2>1. ShareTypeOK /\ SolvedSoFar /\ here = {} /\ unsolved = {} /\ Demand = Capped
    BY <1>1 DEF ShareInv, Demand
  <2>2. d \in by_device /\ i \in I /\ I \in SUBSET Indices
    BY DEF by_device, OnDevice
  <2>3. Solved(problem, I, Uncapped, first) /\ Solved(problem, I, Capped, shares)
    BY <2>1, <2>2 DEF SolvedSoFar
  <2>4. Sized(problem, I, Uncapped) /\ Sized(problem, I, Capped)
    BY <2>1, <2>2, DemandsSized
  <2>5. PICK b \in [I -> Nat], L \in Nat : Rests(problem, I, Uncapped, first, b, L)
    BY <2>3 DEF Solved
  <2>6. PICK b2 \in [I -> Nat], L2 \in Nat : Rests(problem, I, Capped, shares, b2, L2)
    BY <2>3 DEF Solved
  <2>7. Lowered(I, Uncapped, Capped, first)
    <3> SUFFICES ASSUME NEW j \in I
                 PROVE  /\ Capped[j] <= Uncapped[j]
                        /\ Capped[j] = Uncapped[j] \/ Capped[j] <= first[j]
      BY DEF Lowered
    <3>1. j \in Indices /\ Uncapped[j] = problem[j].demand
      BY <2>2 DEF Uncapped
    <3>2. /\ Capped[j] \in Nat /\ Capped[j] <= problem[j].demand /\ Capped[j] <= Cap(j)
          /\ Cardinality(Labelled(problem[j].label)) = 1 => Capped[j] = problem[j].demand
      BY <2>1, <3>1, CappedIs
    <3>3. Cardinality(Labelled(problem[j].label)) # 1 => Cap(j) <= first[j]
      BY <2>1, <3>1, CapIs
    <3>4. Cap(j) \in Nat /\ first[j] \in Nat
      BY <2>1, <3>1, CapIs DEF ShareTypeOK
    <3> QED
      BY <3>1, <3>2, <3>3, <3>4
  <2>8. /\ bottleneck \in Nat /\ bottleneck <= first[i] /\ problem[i].demand \in Nat
        /\ first[i] \in Nat /\ shares[i] \in Nat /\ Uncapped[i] = problem[i].demand
        /\ Capped[i] \in {problem[i].demand, Cap(i)}
        /\ Cardinality(ranks) = 1 => Capped[i] = problem[i].demand
        /\ Cardinality(ranks) # 1 => Cap(i) = bottleneck
    <3>1. problem[i].demand \in Nat
      BY <2>1, ProblemShape, UnitAssumption
    <3>2. first[i] \in Nat /\ shares[i] \in Nat /\ Uncapped[i] = problem[i].demand
      BY <2>1 DEF ShareTypeOK, Uncapped
    <3> QED
      BY <2>1, <3>1, <3>2, CapIs, CappedIs
  <2>9. t \in Nat /\ t <= bottleneck /\ t <= problem[i].demand
    <3> DEFINE S == {bottleneck, problem[i].demand}
    <3>1. S \in SUBSET Nat /\ S # {}
      BY <2>8
    <3> HIDE DEF S
    <3>2. Min(S) \in S /\ \A y \in S : Min(S) <= y
      BY <3>1, LeastIs
    <3> QED
      BY <3>1, <3>2 DEF S
  <2> HIDE DEF bottleneck, t
  <2>10. t <= Capped[i] /\ t <= first[i]
    BY <2>8, <2>9
  <2>11. n \in Nat /\ Epsilon \in Nat /\ b2[i] \in Nat /\ b2[i] <= shares[i]
    <3>1. b2[i] \in Nat /\ shares[i] = b2[i] + Portion(problem, I, L2, i)
          /\ Portion(problem, I, L2, i) \in Nat
      BY <2>2, <2>4, <2>6, RestsAre
    <3>2. n \in Nat
      BY <2>4, FS_CardinalityType DEF Sized
    <3> QED
      BY <3>1, <3>2, EpsilonAssumption
  <2> HIDE DEF I, d
  <2>12. t <= b2[i] + (n + 1) * Epsilon
    BY <2>2, <2>4, <2>5, <2>6, <2>7, <2>9, <2>10, SecondKeeps
  <2> HIDE DEF n
  <2>13. (n + 1) * Epsilon <= (2 * n + 1) * Epsilon /\ (n + 1) * Epsilon \in Nat
         /\ (2 * n + 1) * Epsilon \in Nat
    BY <2>11
  <2>14. shares[i] + (2 * n + 1) * Epsilon >= t
    BY <2>8, <2>9, <2>11, <2>12, <2>13
  <2>15. ASSUME Cardinality(ranks) = 1 PROVE shares[i] + (2 * n + 1) * Epsilon >= first[i]
    <3>1. Capped[i] = Uncapped[i]
      BY <2>8, <2>15
    <3>2. first[i] <= shares[i] + (2 * n + 1) * Epsilon
      BY <2>2, <2>4, <2>5, <2>6, <2>7, <3>1, SecondGains DEF n
    <3> QED
      BY <2>8, <2>13, <3>2
  <2> QED
    BY <2>14, <2>15 DEF n, t, bottleneck, I, d
<1> QED
  BY <1>1, ShareInvariance, PTL
=============================================================================
