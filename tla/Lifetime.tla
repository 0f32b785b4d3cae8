------------------------------ MODULE Lifetime ------------------------------
(***************************************************************************)
(* How the process ends (serve and watch_signals in src/main.rs): the      *)
(* first signal drains and cancels, the HTTP server gets a window to       *)
(* finish what it has in flight and the background loops another, and a    *)
(* second signal exits at once.                                            *)
(*                                                                         *)
(* The HTTP server, the runtime and the signal driver are external: a      *)
(* signal sets a flag that recv clears, so two of a kind may count as one; *)
(* a graceful server accepts no connection, finishes its requests and      *)
(* closes idle connections; when main returns, the runtime drops every     *)
(* task and waits for the blocking threads.  What the loops do is Node's,  *)
(* RelaySupervisor's and LeaseSupervisor's.                                *)
(***************************************************************************)
CONSTANTS
    Signals,   \* SIGTERM and SIGINT
    Conns,     \* connections, with one request each
    Loops,     \* the tasks of the TaskTracker
    Beat       \* the heartbeat among them

ASSUME BeatAssumption == Beat \in Loops

VARIABLES
    pending,   \* signals raised and not yet received
    watcher,   \* where watch_signals is
    draining,  \* AppState::draining
    cancelled, \* AppState::shutdown
    main,      \* where serve is
    passed,    \* the timeouts that have passed
    conns,     \* each connection and its request
    natives,   \* each request's native call, on a blocking thread
    hangs,     \* those whose native call never returns
    loops      \* each background loop

lifeVars == <<pending, watcher, draining, cancelled, main, passed, conns,
              natives, hangs, loops>>

Running == main \in {"serving", "loops"}

LifeInit ==
    /\ pending = {}
    /\ watcher = "first"
    /\ draining = FALSE
    /\ cancelled = FALSE
    /\ main = "serving"
    /\ passed = {}
    /\ conns = [c \in Conns |-> "none"]
    /\ natives = [c \in Conns |-> "none"]
    /\ hangs \in SUBSET Conns
    /\ loops = [l \in Loops |-> "running"]

-----------------------------------------------------------------------------
(* Signals.                                                                *)

Raise(k) ==
    /\ main # "exited"
    /\ pending' = pending \cup {k}
    /\ UNCHANGED <<watcher, draining, cancelled, main, passed, conns, natives, hangs, loops>>

\* The first recv to resolve sets the drain flag ...
FirstSignal(k) ==
    /\ watcher = "first" /\ k \in pending
    /\ pending' = pending \ {k}
    /\ draining' = TRUE
    /\ watcher' = "cancelling"
    /\ UNCHANGED <<cancelled, main, passed, conns, natives, hangs, loops>>

\* ... and cancels the token.
CancelToken ==
    /\ watcher = "cancelling"
    /\ cancelled' = TRUE
    /\ watcher' = "second"
    /\ UNCHANGED <<pending, draining, main, passed, conns, natives, hangs, loops>>

\* process::exit.
SecondSignal(k) ==
    /\ watcher = "second" /\ k \in pending
    /\ pending' = pending \ {k}
    /\ main' = "exited"
    /\ watcher' = "over"
    /\ UNCHANGED <<draining, cancelled, passed, conns, natives, hangs, loops>>

Watch == CancelToken \/ \E k \in Signals : FirstSignal(k) \/ SecondSignal(k)

-----------------------------------------------------------------------------
(* Requests.                                                               *)

Connect(c) ==
    /\ main = "serving" /\ ~cancelled
    /\ conns[c] = "none"
    /\ conns' = [conns EXCEPT ![c] = "open"]
    /\ UNCHANGED <<pending, watcher, draining, cancelled, main, passed, natives, hangs, loops>>

\* A handler starts: it refuses, or hands its call to a blocking thread.
Handle(c) ==
    /\ Running
    /\ conns[c] = "open"
    /\ conns' = [conns EXCEPT ![c] = IF draining THEN "refused" ELSE "running"]
    /\ natives' = [natives EXCEPT ![c] = IF draining THEN @ ELSE "running"]
    /\ UNCHANGED <<pending, watcher, draining, cancelled, main, passed, hangs, loops>>

\* An idle connection is closed, or a client leaves: its native call goes on.
Close(c) ==
    /\ Running
    /\ conns[c] = "running" \/ (conns[c] = "open" /\ cancelled)
    /\ conns' = [conns EXCEPT ![c] = "closed"]
    /\ UNCHANGED <<pending, watcher, draining, cancelled, main, passed, natives, hangs, loops>>

NativeReturns(c) ==
    /\ main # "exited"
    /\ natives[c] = "running" /\ c \notin hangs
    /\ natives' = [natives EXCEPT ![c] = "over"]
    /\ conns' = [conns EXCEPT ![c] = IF @ = "running" THEN "done" ELSE @]
    /\ UNCHANGED <<pending, watcher, draining, cancelled, main, passed, hangs, loops>>

-----------------------------------------------------------------------------
(* The drain flag's other writers, and the background loops.               *)

\* /drain.
DrainRequest ==
    /\ Running /\ ~draining
    /\ draining' = TRUE
    /\ UNCHANGED <<pending, watcher, cancelled, main, passed, conns, natives, hangs, loops>>

\* The heartbeat adopts a response's drain flag.
AdoptDrainFlag ==
    /\ loops[Beat] = "running"
    /\ draining' = ~draining
    /\ UNCHANGED <<pending, watcher, cancelled, main, passed, conns, natives, hangs, loops>>

\* A loop sees the token and does what it does last.
LoopNotices(l) ==
    /\ loops[l] = "running" /\ cancelled
    /\ loops' = [loops EXCEPT ![l] = "last"]
    /\ UNCHANGED <<pending, watcher, draining, cancelled, main, passed, conns, natives, hangs>>

LoopReturns(l) ==
    /\ loops[l] = "last"
    /\ loops' = [loops EXCEPT ![l] = "done"]
    /\ UNCHANGED <<pending, watcher, draining, cancelled, main, passed, conns, natives, hangs>>

-----------------------------------------------------------------------------
(* main.                                                                   *)

\* Mutant of ServerEnds: requests in flight do not hold the server up.
ServerEndsAtOnce ==
    /\ main = "serving" /\ cancelled
    /\ main' = "loops"
    /\ UNCHANGED <<pending, watcher, draining, cancelled, passed, conns, natives, hangs, loops>>

\* The server future resolves: every connection is over.
ServerEnds ==
    /\ main = "serving" /\ cancelled
    /\ \A c \in Conns : conns[c] \notin {"open", "running"}
    /\ main' = "loops"
    /\ UNCHANGED <<pending, watcher, draining, cancelled, passed, conns, natives, hangs, loops>>

\* Mutant of WindowPasses: in-flight requests have all the time they want.
WindowNever == FALSE /\ UNCHANGED lifeVars

\* drain_deadline resolves first: DRAIN_TIMEOUT after the token.
WindowPasses ==
    /\ main = "serving" /\ cancelled
    /\ passed' = passed \cup {"DRAIN_TIMEOUT"}
    /\ main' = "loops"
    /\ UNCHANGED <<pending, watcher, draining, cancelled, conns, natives, hangs, loops>>

\* main returns, and the runtime drops every task.
RuntimeDrop(how) ==
    /\ main' = "dropping"
    /\ passed' = passed \cup how
    /\ watcher' = "over"
    /\ conns' = [c \in Conns |-> IF conns[c] \in {"open", "running"} THEN "cut" ELSE conns[c]]
    /\ loops' = [l \in Loops |-> IF loops[l] = "done" THEN "done" ELSE "cut"]
    /\ UNCHANGED <<pending, draining, cancelled, natives, hangs>>

LoopsEnd ==
    /\ main = "loops"
    /\ \A l \in Loops : loops[l] = "done"
    /\ RuntimeDrop({})

LoopsTimeOut ==
    /\ main = "loops"
    /\ RuntimeDrop({"LOOP_SHUTDOWN_TIMEOUT"})

\* The blocking threads are over, and with them the process.
Exit ==
    /\ main = "dropping"
    /\ \A c \in Conns : natives[c] # "running"
    /\ main' = "exited"
    /\ UNCHANGED <<pending, watcher, draining, cancelled, passed, conns, natives, hangs, loops>>

Serve == ServerEnds \/ WindowPasses \/ LoopsEnd \/ LoopsTimeOut \/ Exit

LifeNext ==
    \/ \E k \in Signals : Raise(k)
    \/ \E c \in Conns : Connect(c) \/ Handle(c) \/ Close(c) \/ NativeReturns(c)
    \/ Running /\ (Watch \/ AdoptDrainFlag \/ \E l \in Loops : LoopNotices(l) \/ LoopReturns(l))
    \/ DrainRequest
    \/ Serve

\* Tasks are polled, timeouts pass, and native calls that do not hang return.
LifeFairness ==
    /\ WF_lifeVars(Running /\ Watch)
    /\ WF_lifeVars(Serve)
    /\ \A c \in Conns : WF_lifeVars(Handle(c)) /\ WF_lifeVars(NativeReturns(c))
    /\ \A l \in Loops : WF_lifeVars(Running /\ (LoopNotices(l) \/ LoopReturns(l)))

-----------------------------------------------------------------------------

\* Shutdown takes nothing away before its time: a request is cut off only
\* after DRAIN_TIMEOUT, and a loop, so the heartbeat's last report, only after
\* LOOP_SHUTDOWN_TIMEOUT, however signals, requests, drains and timeouts
\* interleave (main.rs:20-24, 147-169).
CutOffLate ==
    /\ (\E c \in Conns : conns[c] = "cut") => "DRAIN_TIMEOUT" \in passed
    /\ (\E l \in Loops : loops[l] = "cut") => "LOOP_SHUTDOWN_TIMEOUT" \in passed

\* The process ends after a signal unless a native call hangs, which main does
\* not wait for but the runtime does; and a second signal ends it whatever
\* hangs, unless main has returned (main.rs:172-199).
ProcessEnds ==
    /\ (watcher = "first" /\ pending # {}) ~>
          \/ main = "exited"
          \/ main = "dropping" /\ \E c \in hangs : natives[c] = "running"
    /\ (watcher = "second" /\ pending # {}) ~> (main \in {"dropping", "exited"})
=============================================================================
