-------------------------- MODULE ServerLifecycle --------------------------
(***************************************************************************)
(* The life of the Rust server process around its connection handlers: the *)
(* accept loop with its connection limit (server.rs, run_server), the      *)
(* spawned tasks and the active_connections counter, and the shutdown with *)
(* its drain period (main.rs).  What a task does between its start and its *)
(* end is the subject of Rendezvous.                                       *)
(*                                                                         *)
(* The accept loop, every task and main run in parallel.  The counter is   *)
(* read by the loop and by main, and written by the tasks only, so both    *)
(* readers may act on a value that is out of date.                         *)
(*                                                                         *)
(* main runs on a thread of its own; the accept loop, the tasks, the       *)
(* timers and the signals are served by the worker threads of the runtime. *)
(* A DashMap lock blocks the thread that waits for it, so a lock cycle     *)
(* (LockCycle in Rendezvous) takes workers away for ever.                  *)
(***************************************************************************)
EXTENDS Integers, FiniteSets

CONSTANTS
    Conn,           \* the connections clients open
    MaxConnections, \* config.max_connections
    MaxFiles,       \* how many connections the process has descriptors for
    Workers,        \* the worker threads of the runtime
    None

ASSUME LifecycleAssumption ==
    /\ IsFiniteSet(Conn)
    /\ MaxConnections \in Nat
    /\ MaxFiles \in Nat
    /\ Workers \in Nat \ {0}
    /\ None \notin Conn

VARIABLES
    conn,       \* where a connection is
    active,     \* metrics.active_connections
    loop,       \* run_server: binding, at its select!, deciding, over or failed
    accepted,   \* the connection the loop has just accepted, or None
    seen,       \* the value of the counter the loop has loaded
    shutdown,   \* the value of the watch channel
    main,       \* what main is doing
    held,       \* how many workers are blocked in a DashMap lock for ever
    stuck,      \* the handlers among the tasks that block them
    unstarted   \* history: how many tasks were waiting to run at that load

vars == <<conn, active, loop, accepted, seen, shutdown, main, held, stuck, unstarted>>

\* A connection is unopened, in the kernel's backlog, accepted, spawned as a
\* task, running, and at last one of the Final ones.
Final == {"done", "refused", "reset", "killed"}
Stages == {"unopened", "backlog", "accepted", "spawned", "running"} \cup Final

Move(c, s) == conn' = [conn EXCEPT ![c] = s]

Tasks(s) == {c \in Conn : conn[c] = s}

\* A worker that can run a task, or look after the timers and the sockets.
HasWorker == held < Workers

\* A connection keeps its descriptor until its stream is dropped.
Open == Tasks("accepted") \cup Tasks("spawned") \cup Tasks("running")
HasDescriptor == Cardinality(Open) < MaxFiles

workers == <<held, stuck>>

Returned == main \in {"returnedDrained", "returnedForced", "exited"}

Init ==
    /\ conn = [c \in Conn |-> "unopened"]
    /\ active = 0
    /\ loop = "bind"
    /\ accepted = None
    /\ seen = 0
    /\ shutdown = FALSE
    /\ main = "serving"
    /\ held = 0
    /\ stuck = {}
    /\ unstarted = 0

-----------------------------------------------------------------------------
\* A client connects while the listener exists.
Connect(c) ==
    /\ conn[c] = "unopened"
    /\ loop \in {"select", "decide"}
    /\ Move(c, "backlog")
    /\ UNCHANGED <<active, loop, accepted, seen, shutdown, main, workers, unstarted>>

(***************************************************************************)
(* run_server                                                              *)
(***************************************************************************)

\* TcpListener::bind; the error is the result of a task nobody looks at.
Bind ==
    /\ HasWorker
    /\ loop = "bind"
    /\ loop' \in {"select", "failed"}
    /\ UNCHANGED <<conn, active, accepted, seen, shutdown, main, workers, unstarted>>

\* accept() fails and the loop goes on: the client had given up and leaves the
\* backlog, or the process has no descriptor left and the connection stays there.
AcceptFails(c) ==
    /\ HasWorker
    /\ loop = "select"
    /\ conn[c] = "backlog"
    /\ \/ Move(c, "reset")
       \/ ~HasDescriptor /\ UNCHANGED conn
    /\ UNCHANGED <<active, loop, accepted, seen, shutdown, main, workers, unstarted>>

\* select! takes the accept branch and loads the counter.  It picks among the
\* ready branches at random, so this may happen after the shutdown signal.
Accept(c) ==
    /\ HasWorker
    /\ HasDescriptor
    /\ loop = "select"
    /\ conn[c] = "backlog"
    /\ Move(c, "accepted")
    /\ accepted' = c
    /\ seen' = active
    /\ unstarted' = Cardinality(Tasks("spawned"))
    /\ loop' = "decide"
    /\ UNCHANGED <<active, shutdown, main, workers>>

Decide(stage) ==
    /\ HasWorker
    /\ loop = "decide"
    /\ Move(accepted, stage)
    /\ accepted' = None
    /\ loop' = "select"
    /\ UNCHANGED <<active, seen, shutdown, main, workers, unstarted>>

\* Mutant of Refuse: the stream is not dropped.
RefuseKeepsStream == seen >= MaxConnections /\ Decide("accepted")

\* Connection limit reached: drop(stream).
Refuse == seen >= MaxConnections /\ Decide("refused")

\* Mutant of Spawn: one connection more than the limit.
SpawnAtLimit == seen <= MaxConnections /\ Decide("spawned")

\* tokio::spawn: the task has not run yet, and is not counted.
Spawn == seen < MaxConnections /\ Decide("spawned")

\* select! takes the shutdown branch; the listener is dropped, and with it the
\* connections nobody has accepted.
StopAccepting ==
    /\ HasWorker
    /\ loop = "select"
    /\ shutdown
    /\ loop' = "stopped"
    /\ conn' = [c \in Conn |-> IF conn[c] = "backlog" THEN "reset" ELSE conn[c]]
    /\ UNCHANGED <<active, accepted, seen, shutdown, main, workers, unstarted>>

\* Mutant of TaskStart: no connection_started().
TaskStartUncounted(c) ==
    /\ HasWorker
    /\ conn[c] = "spawned"
    /\ Move(c, "running")
    /\ UNCHANGED <<active, loop, accepted, seen, shutdown, main, workers, unstarted>>

\* The task body: connection_started(), handle_connection, connection_ended().
TaskStart(c) ==
    /\ HasWorker
    /\ conn[c] = "spawned"
    /\ Move(c, "running")
    /\ active' = active + 1
    /\ UNCHANGED <<loop, accepted, seen, shutdown, main, workers, unstarted>>

\* Mutant of TaskEnd: connection_ended() twice.
TaskEndTwice(c) ==
    /\ HasWorker
    /\ c \notin stuck
    /\ conn[c] = "running"
    /\ Move(c, "done")
    /\ active' = active - 2
    /\ UNCHANGED <<loop, accepted, seen, shutdown, main, workers, unstarted>>

TaskEnd(c) ==
    /\ HasWorker
    /\ c \notin stuck
    /\ conn[c] = "running"
    /\ Move(c, "done")
    /\ active' = active - 1
    /\ UNCHANGED <<loop, accepted, seen, shutdown, main, workers, unstarted>>

(***************************************************************************)
(* Workers lost in the registry                                            *)
(***************************************************************************)

\* register() holds a token's shard and waits for the entry's, cleanup_expired()
\* holds the entry's and waits for the token's: each blocks its worker.
LockCycle(c) ==
    /\ held = 0
    /\ Workers >= 2
    /\ conn[c] = "running"
    /\ held' = 2
    /\ stuck' = {c}
    /\ UNCHANGED <<conn, active, loop, accepted, seen, shutdown, main, unstarted>>

\* From then on, register() or unregister() of another handler blocks as well
\* when it needs one of those shards.
HandlerBlocks(c) ==
    /\ held > 0
    /\ HasWorker
    /\ conn[c] = "running"
    /\ c \notin stuck
    /\ held' = held + 1
    /\ stuck' = stuck \cup {c}
    /\ UNCHANGED <<conn, active, loop, accepted, seen, shutdown, main, unstarted>>

\* And so does a request to the health server, which counts the entries.
HealthBlocks ==
    /\ held > 0
    /\ HasWorker
    /\ ~Returned
    /\ held' = held + 1
    /\ UNCHANGED <<conn, active, loop, accepted, seen, shutdown, main, stuck, unstarted>>

(***************************************************************************)
(* main                                                                    *)
(***************************************************************************)

\* SIGTERM or SIGINT arrives.
Signal ==
    /\ main = "serving"
    /\ main' = "signalled"
    /\ UNCHANGED <<conn, active, loop, accepted, seen, shutdown, workers, unstarted>>

\* shutdown_tx.send(true), and the drain period begins.
BeginDrain ==
    /\ HasWorker
    /\ main = "signalled"
    /\ shutdown' = TRUE
    /\ main' = "draining"
    /\ UNCHANGED <<conn, active, loop, accepted, seen, workers, unstarted>>

\* "All connections drained": the counter was loaded and is zero.
Drained ==
    /\ main = "draining"
    /\ active = 0
    /\ main' = "drained"
    /\ UNCHANGED <<conn, active, loop, accepted, seen, shutdown, workers, unstarted>>

\* Mutant of DrainTimeout: the timer is only looked at between two handlers.
DrainTimeoutWhenIdle ==
    /\ HasWorker
    /\ main = "draining"
    /\ active = 0
    /\ main' = "forced"
    /\ UNCHANGED <<conn, active, loop, accepted, seen, shutdown, workers, unstarted>>

\* "Drain timeout reached, forcing shutdown"
DrainTimeout ==
    /\ HasWorker
    /\ main = "draining"
    /\ main' = "forced"
    /\ UNCHANGED <<conn, active, loop, accepted, seen, shutdown, workers, unstarted>>

\* main aborts the accept loop and returns, and its runtime is dropped: a worker
\* that is left drops every task that does not block a thread.
Return ==
    /\ main \in {"drained", "forced"}
    /\ main' = IF main = "drained" THEN "returnedDrained" ELSE "returnedForced"
    /\ IF HasWorker
       THEN /\ loop' = IF loop = "failed" THEN loop ELSE "stopped"
            /\ accepted' = None
            /\ conn' = [c \in Conn |->
                          IF c \in Open \ stuck THEN "killed"
                          ELSE IF conn[c] = "backlog" THEN "reset"
                          ELSE conn[c]]
       ELSE UNCHANGED <<loop, accepted, conn>>
    /\ UNCHANGED <<active, seen, shutdown, workers, unstarted>>

\* The drop of the runtime waits for its worker threads; then the process ends.
Exit ==
    /\ main \in {"returnedDrained", "returnedForced"}
    /\ held = 0
    /\ main' = "exited"
    /\ UNCHANGED <<conn, active, loop, accepted, seen, shutdown, workers, unstarted>>

LoopStep == Bind \/ Refuse \/ Spawn \/ StopAccepting \/ \E c \in Conn : Accept(c)

Next ==
    \/ \E c \in Conn : Connect(c) \/ AcceptFails(c) \/ TaskStart(c) \/ TaskEnd(c)
    \/ \E c \in Conn : LockCycle(c) \/ HandlerBlocks(c)
    \/ HealthBlocks
    \/ LoopStep
    \/ Signal \/ BeginDrain \/ Drained \/ DrainTimeout \/ Return \/ Exit

Spec == Init /\ [][Next]_vars

\* While a worker is left, the runtime polls the accept loop, new tasks and, for
\* the signal and the drain timer, main; main itself needs no worker to return.
\* A handler need not end, accept() need not fail, no client need connect and
\* no signal need come.
Fairness ==
    /\ WF_vars(LoopStep)
    /\ \A c \in Conn : WF_vars(TaskStart(c))
    /\ WF_vars(BeginDrain)
    /\ WF_vars(DrainTimeout)
    /\ WF_vars(Return)
    /\ WF_vars(Exit)

FairSpec == Spec /\ Fairness

-----------------------------------------------------------------------------
\* The variables keep their types; active_connections is unsigned and must not
\* wrap below zero.
TypeOK ==
    /\ conn \in [Conn -> Stages]
    /\ active \in Nat
    /\ loop \in {"bind", "select", "decide", "stopped", "failed"}
    /\ accepted \in Conn \cup {None}
    /\ seen \in Nat
    /\ shutdown \in BOOLEAN
    /\ main \in {"serving", "signalled", "draining", "drained", "forced",
                "returnedDrained", "returnedForced", "exited"}
    /\ held \in 0..Workers
    /\ stuck \in SUBSET Conn
    /\ unstarted \in Nat

\* "All connections drained" is never concluded from a counter that misses a
\* handler: when the drain loop leaves with active == 0, no handler is running.
DrainSeesEveryHandler == [][Drained => Tasks("running") = {}]_vars

\* The connection limit is kept but for the tasks that were spawned and had not
\* run when the counter was loaded: a new task makes at most max_connections
\* and those.
OvershootIsUnstarted ==
    [][Spawn => Cardinality(Tasks("running") \cup Tasks("spawned")) < MaxConnections + unstarted]_vars

\* The inductive invariant of LifecycleProofs.  Until main returns, the counter
\* is the number of running handlers; afterwards the only handlers left are those
\* that block a worker, unless no worker was left to drop the others.  While the
\* accept loop decides, the handlers that run or wait to run are no more than
\* those that did when it loaded the counter: no task is spawned in between.
CounterInv ==
    /\ TypeOK
    /\ stuck \subseteq Tasks("running")
    /\ held = 0 => stuck = {}
    /\ Returned /\ HasWorker =>
         loop \in {"stopped", "failed"} /\ Tasks("running") \cup Tasks("spawned") = stuck
    /\ ~Returned => active = Cardinality(Tasks("running"))
    /\ loop = "decide" =>
         /\ accepted \in Tasks("accepted")
         /\ Cardinality(Tasks("running") \cup Tasks("spawned")) <= seen + unstarted

\* Whoever reaches the listener is served or closed, whatever the limit and the
\* signal do.  It stays with the accept loop only if from some time on the lock
\* cycle has every worker, or handlers that do not end every descriptor.
NobodyIsLeftHanging ==
    \A c \in Conn :
        (conn[c] \in {"backlog", "accepted", "spawned"})
            ~> ((conn[c] \in {"running"} \cup Final) \/ []~HasWorker \/ []~HasDescriptor)

\* Graceful shutdown ends: after the signal the process exits, even if a handler
\* waits for ever or the listener could not be bound.  If the lock cycle blocks
\* workers, main still returns while one is left, and only the process stays.
ShutdownCompletes ==
    (main = "signalled") ~> (main = "exited" \/ (held > 0 /\ (Returned \/ ~HasWorker)))

\* "All connections drained" (main.rs): when main leaves for that reason, no
\* connection the server accepted is cut off.
DrainedCutsNobodyOff == main = "returnedDrained" => Tasks("killed") = {}

=============================================================================
