-------------------------- MODULE LifecycleProofs --------------------------
(***************************************************************************)
(* For any finite set of connections and any limit: the counter the accept *)
(* loop and the drain loop rely on is exact, and the connection limit is   *)
(* exceeded by no more than the tasks that had not started.                *)
(***************************************************************************)
EXTENDS ServerLifecycle, FiniteSetTheorems, TLAPS

\* The tasks that run or wait to run.
Live == Tasks("running") \cup Tasks("spawned")

\* Sets of connections are finite, have a natural number of members, and no more
\* than a set that includes them.
LEMMA Subsets ==
    ASSUME NEW B \in SUBSET Conn, NEW A \in SUBSET B
    PROVE  /\ IsFiniteSet(A) /\ Cardinality(A) \in Nat
           /\ IsFiniteSet(B) /\ Cardinality(B) \in Nat
           /\ Cardinality(A) <= Cardinality(B)
<1>1. IsFiniteSet(B)
  BY LifecycleAssumption, FS_Subset, Zenon
<1>2. IsFiniteSet(A) /\ Cardinality(A) <= Cardinality(B)
  BY <1>1, FS_Subset, Zenon
<1> QED
  BY <1>1, <1>2, FS_CardinalityType, Zenon

\* The types of the variables are kept by every step; the decrement of the counter
\* at the end of a task needs that the counter counts that task.
LEMMA TypeStep ==
    ASSUME CounterInv, [Next]_vars
    PROVE  TypeOK'
<1> USE DEF TypeOK, Stages, Final, Move
<1>0. TypeOK
  BY Zenon DEF CounterInv
<1>1. CASE \E c \in Conn : Connect(c) \/ TaskStart(c)
  BY <1>0, <1>1 DEF Connect, TaskStart, workers
<1>2. ASSUME NEW c \in Conn, TaskEnd(c)
      PROVE  TypeOK'
  <2>1. c \in Tasks("running") /\ c \in Tasks("running") \ stuck /\ Tasks("running") \in SUBSET Conn
    BY <1>2, Zenon DEF TaskEnd, Tasks
  <2>2. active = Cardinality(Tasks("running"))
    BY <1>2, <2>1, Zenon DEF CounterInv, TaskEnd
  <2>3. active # 0 /\ active \in Nat
    BY <2>1, <2>2, Subsets, FS_EmptySet, Zenon
  <2>4. active' \in Nat
    BY <1>2, <2>3 DEF TaskEnd
  <2> QED
    BY <1>0, <1>2, <2>4 DEF TaskEnd, workers
<1>3. CASE \E c \in Conn : Accept(c) \/ AcceptFails(c)
  <2>1. Cardinality(Tasks("spawned")) \in Nat
    BY Subsets DEF Tasks
  <2> QED
    BY <1>0, <1>3, <2>1 DEF Accept, AcceptFails, workers
<1>4. CASE Refuse \/ Spawn
  BY <1>0, <1>4, Zenon DEF Refuse, Spawn, Decide, workers
<1>5. CASE Bind \/ StopAccepting
  BY <1>0, <1>5 DEF Bind, StopAccepting, workers
<1>6. CASE Signal \/ BeginDrain \/ Drained \/ DrainTimeout \/ Exit
  BY <1>0, <1>6, Zenon DEF Signal, BeginDrain, Drained, DrainTimeout, Exit, workers
<1>7. CASE Return
  BY <1>0, <1>7 DEF Return, workers
<1>8. CASE UNCHANGED vars
  BY <1>0, <1>8 DEF vars
<1>9. ASSUME NEW c \in Conn, LockCycle(c) \/ HandlerBlocks(c)
      PROVE  TypeOK'
  <2>1. held' \in 0..Workers
    BY <1>0, <1>9, LifecycleAssumption DEF LockCycle, HandlerBlocks, HasWorker
  <2>2. stuck' \in SUBSET Conn
    BY <1>0, <1>9, Zenon DEF LockCycle, HandlerBlocks
  <2>3. UNCHANGED <<conn, active, loop, accepted, seen, shutdown, main, unstarted>>
    BY <1>9, Zenon DEF LockCycle, HandlerBlocks
  <2> QED
    BY <1>0, <2>1, <2>2, <2>3
<1>10. CASE HealthBlocks
  <2>1. held' \in 0..Workers
    BY <1>0, <1>10, LifecycleAssumption DEF HealthBlocks, HasWorker
  <2> QED
    BY <1>0, <1>10, <2>1 DEF HealthBlocks
<1> QED
  BY <1>1, <1>2, <1>3, <1>4, <1>5, <1>6, <1>7, <1>8, <1>9, <1>10, Zenon DEF Next, LoopStep

\* A handler that blocks a worker is running, and blocks it for ever.
LEMMA StuckStep ==
    ASSUME CounterInv, [Next]_vars
    PROVE  stuck' \subseteq Tasks("running")' /\ (held' = 0 => stuck' = {})
<1>0. TypeOK /\ stuck \subseteq Tasks("running") /\ (held = 0 => stuck = {})
  BY Zenon DEF CounterInv
<1>1. ASSUME UNCHANGED workers, \A c \in stuck : conn'[c] = conn[c]
      PROVE  stuck' \subseteq Tasks("running")' /\ (held' = 0 => stuck' = {})
  BY <1>0, <1>1, Zenon DEF workers, Tasks
<1>2. ASSUME NEW c \in Conn, Connect(c) \/ AcceptFails(c) \/ TaskStart(c) \/ TaskEnd(c) \/ Accept(c)
      PROVE  UNCHANGED workers /\ \A d \in stuck : conn'[d] = conn[d]
  BY <1>0, <1>2 DEF Connect, AcceptFails, TaskStart, TaskEnd, Accept, Move, Tasks, TypeOK
<1>3. CASE Refuse \/ Spawn
  <2>1. accepted \in Conn /\ conn[accepted] = "accepted"
    BY <1>3, Zenon DEF Refuse, Spawn, Decide, CounterInv, Tasks
  <2>2. UNCHANGED workers /\ \A d \in stuck : conn'[d] = conn[d]
    BY <1>0, <1>3, <2>1 DEF Refuse, Spawn, Decide, Move, Tasks, TypeOK
  <2> QED
    BY <1>1, <2>2, Zenon
<1>4. CASE StopAccepting \/ Return
  <2>1. UNCHANGED workers /\ \A d \in stuck : conn'[d] = conn[d]
    BY <1>0, <1>4 DEF StopAccepting, Return, Tasks, TypeOK
  <2> QED
    BY <1>1, <2>1, Zenon
<1>5. CASE Bind \/ Signal \/ BeginDrain \/ Drained \/ DrainTimeout \/ Exit \/ UNCHANGED vars
  <2>1. UNCHANGED workers /\ \A d \in stuck : conn'[d] = conn[d]
    BY <1>5 DEF Bind, Signal, BeginDrain, Drained, DrainTimeout, Exit, vars, workers
  <2> QED
    BY <1>1, <2>1, Zenon
<1>6. ASSUME NEW c \in Conn, LockCycle(c) \/ HandlerBlocks(c)
      PROVE  stuck' \subseteq Tasks("running")' /\ (held' = 0 => stuck' = {})
  <2>1. stuck' \subseteq Tasks("running")'
    BY <1>0, <1>6, Zenon DEF LockCycle, HandlerBlocks, Tasks
  <2>2. held' # 0
    BY <1>0, <1>6 DEF LockCycle, HandlerBlocks, TypeOK
  <2> QED
    BY <2>1, <2>2, Zenon
<1>7. CASE HealthBlocks
  BY <1>0, <1>7 DEF HealthBlocks, TypeOK, Tasks
<1> QED
  BY <1>1, <1>2, <1>3, <1>4, <1>5, <1>6, <1>7, Zenon DEF Next, LoopStep

\* Once main has returned with a worker left, there is no accept loop, and no task
\* but the ones that block a thread.
LEMMA ReturnedStep ==
    ASSUME CounterInv, [Next]_vars
    PROVE  (Returned /\ HasWorker)' => loop' \in {"stopped", "failed"} /\ Live' = stuck'
<1> USE DEF TypeOK, Stages, Final, Move, Tasks, Live, Returned
<1>0. TypeOK /\ stuck \subseteq Tasks("running")
      /\ (Returned /\ HasWorker => loop \in {"stopped", "failed"} /\ Live = stuck)
  BY Zenon DEF CounterInv
<1>1. CASE \E c \in Conn : Connect(c) \/ AcceptFails(c) \/ TaskStart(c) \/ TaskEnd(c)
  BY <1>0, <1>1, Zenon DEF Connect, AcceptFails, TaskStart, TaskEnd, workers, HasWorker
<1>2. CASE LoopStep
  BY <1>0, <1>2, Zenon DEF LoopStep, Bind, Refuse, Spawn, Decide, StopAccepting, Accept, workers, HasWorker
<1>3. CASE Signal \/ BeginDrain \/ Drained \/ DrainTimeout \/ Exit
  BY <1>0, <1>3, Zenon DEF Signal, BeginDrain, Drained, DrainTimeout, Exit, workers, HasWorker
<1>4. CASE Return
  BY <1>0, <1>4 DEF Return, workers, HasWorker, Open
<1>5. CASE UNCHANGED vars
  BY <1>0, <1>5, Zenon DEF vars, HasWorker
<1>6. CASE \E c \in Conn : LockCycle(c) \/ HandlerBlocks(c)
  <2>1. PICK c \in Conn : LockCycle(c) \/ HandlerBlocks(c)
    BY <1>6, Zenon
  <2>2. HasWorker /\ (LockCycle(c) => stuck = {})
    BY <2>1, LifecycleAssumption DEF LockCycle, HandlerBlocks, HasWorker, CounterInv
  <2>3. c \in Live \ stuck
    BY <2>1, <2>2, Zenon DEF LockCycle, HandlerBlocks
  <2> QED
    BY <1>0, <2>1, <2>2, <2>3, Zenon DEF LockCycle, HandlerBlocks
<1>7. CASE HealthBlocks
  BY <1>7, Zenon DEF HealthBlocks
<1> QED
  BY <1>1, <1>2, <1>3, <1>4, <1>5, <1>6, <1>7, Zenon DEF Next

\* Until main returns the counter is the number of running handlers.
LEMMA CounterStep ==
    ASSUME CounterInv, [Next]_vars
    PROVE  ~Returned' => active' = Cardinality(Tasks("running"))'
<1>0. TypeOK /\ (~Returned => active = Cardinality(Tasks("running")))
  BY DEF CounterInv
<1>q. ASSUME Tasks("running")' = Tasks("running"), active' = active, Returned => Returned'
      PROVE  ~Returned' => active' = Cardinality(Tasks("running"))'
  BY <1>0, <1>q, Zenon
<1>1. ASSUME NEW c \in Conn, TaskStart(c), ~Returned
      PROVE  active' = Cardinality(Tasks("running"))'
  <2>1. Tasks("running")' = Tasks("running") \cup {c} /\ c \notin Tasks("running")
    BY <1>0, <1>1, Zenon DEF TaskStart, Tasks, Move, TypeOK
  <2>2. IsFiniteSet(Tasks("running"))
    BY Subsets, Zenon DEF Tasks
  <2>3. Cardinality(Tasks("running") \cup {c}) = Cardinality(Tasks("running")) + 1
    BY <2>1, <2>2, FS_AddElement, Zenon
  <2> QED
    BY <1>0, <1>1, <2>1, <2>3 DEF TaskStart
<1>2. ASSUME NEW c \in Conn, TaskEnd(c), ~Returned
      PROVE  active' = Cardinality(Tasks("running"))'
  <2>1. Tasks("running")' = Tasks("running") \ {c} /\ c \in Tasks("running")
    BY <1>0, <1>2, Zenon DEF TaskEnd, Tasks, Move, TypeOK
  <2>2. IsFiniteSet(Tasks("running"))
    BY Subsets, Zenon DEF Tasks
  <2>3. Cardinality(Tasks("running") \ {c}) = Cardinality(Tasks("running")) - 1
    BY <2>1, <2>2, FS_RemoveElement, Zenon
  <2> QED
    BY <1>0, <1>2, <2>1, <2>3, Zenon DEF TaskEnd
<1>3. ASSUME NEW c \in Conn, Connect(c) \/ Accept(c) \/ AcceptFails(c)
      PROVE  ~Returned' => active' = Cardinality(Tasks("running"))'
  BY <1>0, <1>3, <1>q, Zenon DEF Connect, Accept, AcceptFails, Tasks, Move, TypeOK, Returned
<1>4. CASE Refuse \/ Spawn
  <2>1. accepted \in Conn /\ conn[accepted] = "accepted"
    BY <1>4, Zenon DEF Refuse, Spawn, Decide, CounterInv, Tasks
  <2> QED
    BY <1>0, <1>4, <2>1, <1>q, Zenon DEF Refuse, Spawn, Decide, Tasks, Move, TypeOK, Returned
<1>5. CASE Bind \/ StopAccepting
  BY <1>0, <1>5, <1>q DEF Bind, StopAccepting, Tasks, TypeOK, Returned
<1>6. CASE Signal \/ BeginDrain \/ Drained \/ DrainTimeout \/ Exit
  BY <1>6, <1>q DEF Signal, BeginDrain, Drained, DrainTimeout, Exit, Tasks, Returned
<1>7. CASE Return
  BY <1>7 DEF Return, Returned
<1>8. CASE UNCHANGED vars
  BY <1>8, <1>q DEF vars, Tasks, Returned
<1>9. ASSUME NEW c \in Conn, TaskStart(c) \/ TaskEnd(c)
      PROVE  Returned' = Returned
  BY <1>9 DEF TaskStart, TaskEnd, Returned
<1>10. CASE HealthBlocks \/ \E c \in Conn : LockCycle(c) \/ HandlerBlocks(c)
  BY <1>10, <1>q DEF HealthBlocks, LockCycle, HandlerBlocks, Tasks, Returned
<1> QED
  BY <1>1, <1>2, <1>3, <1>4, <1>5, <1>6, <1>7, <1>8, <1>9, <1>10 DEF Next, LoopStep

\* While the loop decides, no task is spawned, so that the tasks are no more than
\* when it loaded the counter.
LEMMA DecideStep ==
    ASSUME CounterInv, [Next]_vars
    PROVE  loop' = "decide" =>
             /\ accepted' \in Tasks("accepted")'
             /\ Cardinality(Live)' <= seen' + unstarted'
<1>0. TypeOK /\ (loop = "decide" => accepted \in Tasks("accepted")
                                    /\ Cardinality(Live) <= seen + unstarted)
  BY DEF CounterInv, Live
<1>q. ASSUME Live' \subseteq Live, Tasks("accepted") \subseteq Tasks("accepted")',
             UNCHANGED <<accepted, seen, unstarted>>, loop' = "decide" => loop = "decide"
      PROVE  loop' = "decide" => /\ accepted' \in Tasks("accepted")'
                                 /\ Cardinality(Live)' <= seen' + unstarted'
  <2>1. Live \in SUBSET Conn /\ Live' \in SUBSET Live
    BY <1>q, Zenon DEF Live, Tasks
  <2>2. Cardinality(Live') <= Cardinality(Live) /\ Cardinality(Live) \in Nat /\ Cardinality(Live') \in Nat
    BY <2>1, Subsets, Zenon
  <2> QED
    BY <1>0, <1>q, <2>2 DEF TypeOK
<1>1. ASSUME NEW c \in Conn, Connect(c) \/ TaskStart(c) \/ TaskEnd(c) \/ AcceptFails(c)
      PROVE  loop' = "decide" => /\ accepted' \in Tasks("accepted")'
                                 /\ Cardinality(Live)' <= seen' + unstarted'
  BY <1>0, <1>1, <1>q, Zenon DEF Connect, TaskStart, TaskEnd, AcceptFails, Tasks, Live, Move, TypeOK
<1>2. ASSUME NEW c \in Conn, Accept(c)
      PROVE  /\ accepted' \in Tasks("accepted")'
             /\ Cardinality(Live)' <= seen' + unstarted'
  <2>1. accepted' \in Tasks("accepted")' /\ Live' = Live
    BY <1>0, <1>2, Zenon DEF Accept, Tasks, Live, Move, TypeOK
  <2>2. seen' = Cardinality(Tasks("running")) /\ unstarted' = Cardinality(Tasks("spawned"))
    BY <1>2, Zenon DEF Accept, CounterInv
  <2>3. IsFiniteSet(Tasks("running")) /\ IsFiniteSet(Tasks("spawned"))
    BY Subsets, Zenon DEF Tasks
  <2>4. Tasks("running") \cap Tasks("spawned") = {}
    BY Zenon DEF Tasks
  <2>5. Cardinality(Tasks("running")) \in Nat /\ Cardinality(Tasks("spawned")) \in Nat
    BY <2>3, FS_CardinalityType
  <2>6. Cardinality(Live) = Cardinality(Tasks("running")) + Cardinality(Tasks("spawned"))
    <3>1. Cardinality(Tasks("running") \cap Tasks("spawned")) = 0
      BY <2>4, FS_EmptySet, Zenon
    <3>2. Cardinality(Tasks("running") \cup Tasks("spawned"))
            = Cardinality(Tasks("running")) + Cardinality(Tasks("spawned"))
              - Cardinality(Tasks("running") \cap Tasks("spawned"))
      BY <2>3, FS_Union, Zenon
    <3> QED
      BY <2>5, <3>1, <3>2 DEF Live
  <2> QED
    BY <2>1, <2>2, <2>5, <2>6
<1>3. CASE Refuse \/ Spawn \/ Bind \/ StopAccepting
  BY <1>3, Zenon DEF Refuse, Spawn, Decide, Bind, StopAccepting
<1>4. CASE Signal \/ BeginDrain \/ Drained \/ DrainTimeout \/ Exit
  BY <1>4, <1>q, Zenon DEF Signal, BeginDrain, Drained, DrainTimeout, Exit, Tasks, Live
<1>5. CASE UNCHANGED vars
  BY <1>5, <1>q DEF vars, Tasks, Live
<1>6. CASE HealthBlocks \/ \E c \in Conn : LockCycle(c) \/ HandlerBlocks(c)
  BY <1>6, <1>q DEF HealthBlocks, LockCycle, HandlerBlocks, Tasks, Live
<1>7. CASE Return /\ HasWorker
  BY <1>7, Zenon DEF Return
<1>8. CASE Return /\ ~HasWorker
  BY <1>8, <1>q, Zenon DEF Return, Tasks, Live
<1> QED
  BY <1>1, <1>2, <1>3, <1>4, <1>5, <1>6, <1>7, <1>8, Zenon DEF Next, LoopStep

\* CounterInv is an invariant of the server process.
THEOREM CounterIsExact == Spec => []CounterInv
<1>1. Init => CounterInv
  <2> SUFFICES ASSUME Init PROVE CounterInv
    OBVIOUS
  <2>0. 0 \in 0..Workers /\ 0 \in Nat
    BY LifecycleAssumption
  <2>1. TypeOK
    BY <2>0, Zenon DEF Init, TypeOK, Stages
  <2>2. Tasks("running") = {}
    BY Zenon DEF Init, Tasks
  <2> QED
    BY <2>1, <2>2, FS_EmptySet, Zenon DEF Init, CounterInv, Returned
<1>2. CounterInv /\ [Next]_vars => CounterInv'
  BY TypeStep, StuckStep, ReturnedStep, CounterStep, DecideStep, Zenon DEF CounterInv, Live
<1> QED
  BY <1>1, <1>2, PTL DEF Spec

\* Every variable of the server process keeps its type; active_connections does
\* not wrap below zero.
THEOREM LifecycleTypes == Spec => []TypeOK
BY CounterIsExact, PTL DEF CounterInv

\* "All connections drained" is only concluded when no handler is running.
THEOREM DrainIsRight == Spec => DrainSeesEveryHandler
<1>1. CounterInv /\ [Next]_vars => [Drained => Tasks("running") = {}]_vars
  <2> SUFFICES ASSUME CounterInv, Drained PROVE Tasks("running") = {}
    OBVIOUS
  <2>1. Cardinality(Tasks("running")) = 0
    BY Zenon DEF CounterInv, Drained, Returned
  <2>2. IsFiniteSet(Tasks("running"))
    BY Subsets, Zenon DEF Tasks
  <2> QED
    BY <2>1, <2>2, FS_EmptySet
<1> QED
  BY <1>1, CounterIsExact, PTL DEF Spec, DrainSeesEveryHandler

\* A task is spawned only below the limit plus the tasks that had not started when
\* the counter was loaded.
THEOREM LimitOvershoot == Spec => OvershootIsUnstarted
<1>1. CounterInv /\ [Next]_vars =>
        [Spawn => Cardinality(Tasks("running") \cup Tasks("spawned")) < MaxConnections + unstarted]_vars
  <2> SUFFICES ASSUME CounterInv, Spawn
               PROVE  Cardinality(Live) < MaxConnections + unstarted
    BY Zenon DEF Live
  <2>1. Cardinality(Live) <= seen + unstarted /\ seen < MaxConnections
    BY Zenon DEF CounterInv, Live, Spawn, Decide
  <2>2. Cardinality(Live) \in Nat
    BY Subsets, Zenon DEF Live, Tasks
  <2> QED
    BY <2>1, <2>2, LifecycleAssumption DEF CounterInv, TypeOK
<1> QED
  BY <1>1, CounterIsExact, PTL DEF Spec, OvershootIsUnstarted

=============================================================================
