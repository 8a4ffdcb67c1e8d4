------------------------------- MODULE Health -------------------------------
(***************************************************************************)
(* The health endpoints (server/rust/src/health.rs) beside the rendezvous  *)
(* server they report on: a prober that asks for one of them at a time.    *)
(* The reports read the counters and active_count(); the numbers they      *)
(* carry are not kept, since the handlers use nothing of them.             *)
(*                                                                         *)
(* active_count() is the len() of pairings, which takes the read guard of  *)
(* one shard after the other and waits for a writer: cleanup_expired()     *)
(* keeps such a shard while it waits for one of tokens.                    *)
(***************************************************************************)
EXTENDS Rendezvous

VARIABLES
    endpoint,   \* the endpoint that is being answered, or None
    reading,    \* what its handler has still to read, in order
    uncounted   \* the shards of pairings active_count() has still to visit

healthVars == <<endpoint, reading, uncounted>>

HealthInit == Init /\ endpoint = None /\ reading = {} /\ uncounted = {}

\* /readyz, and /health likewise, counts the pairings first, /metrics takes its
\* snapshot first, /livez reads nothing.
First == [readyz |-> "pairings", metrics |-> "snapshot", livez |-> None]

\* health_router: a request for one of the endpoints.
Ask(e) ==
    /\ endpoint = None
    /\ endpoint' = e
    /\ reading' = IF e = "livez" THEN {} ELSE {"pairings", "snapshot"}
    /\ uncounted' = IF e = "livez" THEN {} ELSE Name

Turn(what) == what \in reading /\ (what = First[endpoint] \/ First[endpoint] \notin reading)

\* pairings.len() reads a shard,
CountShard(n) ==
    /\ endpoint # None /\ Turn("pairings")
    /\ n \in uncounted /\ ShardFree(n)
    /\ uncounted' = uncounted \ {n}
    /\ UNCHANGED <<endpoint, reading>>

\* and has read the last one.
Counted ==
    /\ endpoint # None /\ Turn("pairings")
    /\ uncounted = {}
    /\ reading' = reading \ {"pairings"}
    /\ UNCHANGED <<endpoint, uncounted>>

\* ServerMetrics::snapshot() waits for nobody.
Snapshot ==
    /\ endpoint # None /\ Turn("snapshot")
    /\ reading' = reading \ {"snapshot"}
    /\ UNCHANGED <<endpoint, uncounted>>

\* StatusCode::OK, whatever was read.
Answered ==
    /\ endpoint # None /\ reading = {}
    /\ endpoint' = None
    /\ UNCHANGED <<reading, uncounted>>

ProbeStep == (\E n \in Name : CountShard(n)) \/ Counted \/ Snapshot \/ Answered

HealthNext ==
    \/ Next /\ UNCHANGED healthVars
    \/ ((\E e \in DOMAIN First : Ask(e)) \/ ProbeStep) /\ UNCHANGED vars

\* The runtime also keeps polling the handler of a probe.
HealthSpec ==
    /\ HealthInit /\ [][HealthNext]_<<vars, healthVars>>
    /\ Fairness
    /\ WF_healthVars(ProbeStep)

\* Every probe is answered, /readyz included, although it waits for guards of
\* the registry; only the lock cycle of register() and cleanup_expired() can
\* make a probe hang.
ProbeAnswered == endpoint # None ~> (endpoint = None \/ LockCycle)

=============================================================================
