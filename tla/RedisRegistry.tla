--------------------------- MODULE RedisRegistry ---------------------------
(***************************************************************************)
(* The Redis-backed registry (server/rust/src/registry.rs, struct          *)
(* RedisRegistry): several servers share the keys of one Redis, and each   *)
(* keeps the notification channels of its own clients in local_waiters.    *)
(*                                                                         *)
(* Every Redis command is awaited, so other tasks and servers run between  *)
(* any two of them; every command and every operation on local_waiters is  *)
(* an action.  A command may fail, with or without having been executed,   *)
(* when Faults is TRUE; `?` then leaves register() or unregister().        *)
(***************************************************************************)
EXTENDS Handler

CONSTANTS
    Server,     \* server_id of the servers that share the Redis
    Faults      \* whether a Redis command may fail

ASSUME FaultsAssumption == Faults \in BOOLEAN

\* struct WaitingClient, as stored in JSON
Waiting == [info : Conn, token : Conn, server : Server]

\* tcpunch:pairing:<name> and tcpunch:token:<uuid>
Keys == Name \cup Conn

VARIABLES
    store,      \* Redis: key -> value, or None
    ttl,        \* Redis: key with a time to live -> the keys that expire before it
    local,      \* local_waiters of each server: pairing_name -> channel, or None
    sweep,      \* to_check: the names cleanup_expired() has still to look at
    drop,       \* the name cleanup_expired() has found gone, or None
    home,       \* the server a connection is made to
    entry       \* the registration a task has taken with GETDEL

redisVars == <<store, ttl>>
sweepVars == <<sweep, drop>>
registryVars == <<store, ttl, local, sweep, drop, home, entry>>

RegistryInit ==
    /\ store = [k \in Keys |-> None]
    /\ ttl = [k \in {} |-> {}]
    /\ local = [s \in Server |-> [n \in Name |-> None]]
    /\ sweep = [s \in Server |-> {}]
    /\ drop = [s \in Server |-> None]
    /\ home \in [Conn -> Server]
    /\ entry = [c \in Conn |-> None]

-----------------------------------------------------------------------------
(***************************************************************************)
(* Redis.  All keys are given the same TTL, pairing_timeout, so they       *)
(* expire in the order in which they were last set.                        *)
(***************************************************************************)

SetEx(k, v) ==
    /\ store' = [store EXCEPT ![k] = v]
    /\ ttl' = [j \in DOMAIN ttl \cup {k} |->
                 IF j = k THEN DOMAIN ttl \ {k} ELSE ttl[j] \ {k}]

Del(K) ==
    /\ store' = [k \in Keys |-> IF k \in K THEN None ELSE store[k]]
    /\ ttl' = [k \in DOMAIN ttl \ K |-> ttl[k] \ K]

Expire ==
    /\ \E k \in DOMAIN ttl : ttl[k] = {} /\ Del({k})
    /\ UNCHANGED <<local, sweepVars, home, entry, callVars>>

\* The command was executed; its answer arrives and the task goes on at l, or
\* the answer is lost and the task returns the error, at e.
Answer(c, l, e) == GoTo(c, l) \/ (Faults /\ GoTo(c, e))

-----------------------------------------------------------------------------
(***************************************************************************)
(* register(pairing_name, client_info, reconnect_token)                    *)
(***************************************************************************)

\* GET of the token key
Lookup(c) ==
    /\ pc[c] = "lookup"
    /\ GoTo(c, IF store[presented[c]] = name[c] THEN "resume" ELSE "claim")
    /\ UNCHANGED <<registryVars, name, presented, token, peer, inbox>>

\* Mutant of Resume: SET, without a time to live.
ResumeWithoutTtl(c) ==
    /\ pc[c] = "resume"
    /\ store' = [store EXCEPT ![name[c]] = [info |-> c, token |-> presented[c], server |-> home[c]]]
    /\ ttl' = [k \in DOMAIN ttl \ {name[c]} |-> ttl[k] \ {name[c]}]
    /\ Answer(c, "relocal", "reject")
    /\ UNCHANGED <<local, sweepVars, home, entry, name, presented, token, peer, inbox>>

\* SETEX of the pairing key only: whatever registration it holds is replaced.
Resume(c) ==
    /\ pc[c] = "resume"
    /\ SetEx(name[c], [info |-> c, token |-> presented[c], server |-> home[c]])
    /\ Answer(c, "relocal", "reject")
    /\ UNCHANGED <<local, sweepVars, home, entry, name, presented, token, peer, inbox>>

\* local_waiters.insert: a channel that is there for this name is dropped.
AddLocal(c) ==
    /\ pc[c] \in {"relocal", "inlocal"}
    /\ local' = [local EXCEPT ![home[c]][name[c]] = c]
    /\ token' = [token EXCEPT ![c] = IF pc[c] = "relocal" THEN presented[c] ELSE c]
    /\ GoTo(c, "greet")
    /\ UNCHANGED <<redisVars, sweepVars, home, entry, name, presented, peer, inbox>>

\* Mutant of Claim: GET instead of GETDEL.
ClaimWithGet(c) ==
    /\ pc[c] = "claim"
    /\ store[name[c]] # None
    /\ GoTo(c, "untoken")
    /\ entry' = [entry EXCEPT ![c] = store[name[c]]]
    /\ peer' = [peer EXCEPT ![c] = store[name[c]].info]
    /\ UNCHANGED <<redisVars, local, sweepVars, home, name, presented, token, inbox>>

\* GETDEL of the pairing key takes the waiting client's registration,
Claim(c) ==
    /\ pc[c] = "claim"
    /\ store[name[c]] # None
    /\ Del({name[c]})
    /\ \/ /\ GoTo(c, "untoken")
          /\ entry' = [entry EXCEPT ![c] = store[name[c]]]
          /\ peer' = [peer EXCEPT ![c] = store[name[c]].info]
       \/ Faults /\ GoTo(c, "reject") /\ UNCHANGED <<entry, peer>>
    /\ UNCHANGED <<local, sweepVars, home, name, presented, token, inbox>>

\* or finds none.
ClaimMiss(c) ==
    /\ pc[c] = "claim"
    /\ store[name[c]] = None
    /\ GoTo(c, "insert")
    /\ UNCHANGED <<registryVars, name, presented, token, peer, inbox>>

\* DEL of the peer's token key
ForgetPeerToken(c) ==
    /\ pc[c] = "untoken"
    /\ Del({entry[c].token})
    /\ Answer(c, "notify", "reject")
    /\ UNCHANGED <<local, sweepVars, home, entry, name, presented, token, peer, inbox>>

ReceiverAlive(c) == pc[c] \in {"greet", "wait"}

SenderAlive(c) == \E s \in Server, n \in Name : local[s][n] = c

\* local_waiters.remove: the channel this server has for the name, if any, is
\* sent the address.
Notify(c) ==
    LET w == local[home[c]][name[c]] IN
    /\ pc[c] = "notify"
    /\ w # None
    /\ local' = [local EXCEPT ![home[c]][name[c]] = None]
    /\ inbox' = IF ReceiverAlive(w) THEN [inbox EXCEPT ![w] = c] ELSE inbox
    /\ token' = [token EXCEPT ![c] = c]
    /\ entry' = [entry EXCEPT ![c] = None]
    /\ GoTo(c, "paired")
    /\ UNCHANGED <<redisVars, sweepVars, home, name, presented, peer>>

\* Mutant of Publish: expects a channel whenever the peer is of this server.
PublishOnlyRemote(c) ==
    /\ pc[c] = "notify"
    /\ local[home[c]][name[c]] = None
    /\ entry[c].server # home[c]
    /\ GoTo(c, "paired")
    /\ token' = [token EXCEPT ![c] = c]
    /\ entry' = [entry EXCEPT ![c] = None]
    /\ UNCHANGED <<redisVars, local, sweepVars, home, name, presented, peer, inbox>>

\* No channel here: PUBLISH if the peer registered with another server.  No
\* server subscribes to the channel, so the message has no effect.
Publish(c) ==
    /\ pc[c] = "notify"
    /\ local[home[c]][name[c]] = None
    /\ GoTo(c, "paired") \/ (Faults /\ entry[c].server # home[c] /\ GoTo(c, "reject"))
    /\ token' = [token EXCEPT ![c] = c]
    /\ entry' = [entry EXCEPT ![c] = None]
    /\ UNCHANGED <<redisVars, local, sweepVars, home, name, presented, peer, inbox>>

\* SETEX of the pairing key, then of the token key
Insert(c) ==
    /\ pc[c] = "insert"
    /\ SetEx(name[c], [info |-> c, token |-> c, server |-> home[c]])
    /\ Answer(c, "intoken", "reject")
    /\ UNCHANGED <<local, sweepVars, home, entry, name, presented, token, peer, inbox>>

\* Mutant of InsertToken: key and value exchanged.
InsertTokenSwapped(c) ==
    /\ pc[c] = "intoken"
    /\ SetEx(name[c], c)
    /\ Answer(c, "inlocal", "reject")
    /\ UNCHANGED <<local, sweepVars, home, entry, name, presented, token, peer, inbox>>

InsertToken(c) ==
    /\ pc[c] = "intoken"
    /\ SetEx(c, name[c])
    /\ Answer(c, "inlocal", "reject")
    /\ UNCHANGED <<local, sweepVars, home, entry, name, presented, token, peer, inbox>>

\* A command of register() fails and is not executed: Err(RegistryError::Redis).
RegisterFails(c) ==
    /\ Faults
    /\ pc[c] \in {"lookup", "resume", "claim", "untoken", "insert", "intoken"}
    /\ GoTo(c, "reject")
    /\ UNCHANGED <<registryVars, name, presented, token, peer, inbox>>

-----------------------------------------------------------------------------
(***************************************************************************)
(* unregister(pairing_name, token): the handler ignores its result         *)
(***************************************************************************)

\* Mutant of Unregister: forgets the pairing key.
UnregisterTokenOnly(c) ==
    /\ pc[c] = "unregister"
    /\ Del({token[c]})
    /\ Answer(c, "unlocal", "timedOut")
    /\ UNCHANGED <<local, sweepVars, home, entry, name, presented, token, peer, inbox>>

\* One DEL of both keys, whichever registration the pairing key holds.
Unregister(c) ==
    /\ pc[c] = "unregister"
    /\ Del({name[c], token[c]})
    /\ Answer(c, "unlocal", "timedOut")
    /\ UNCHANGED <<local, sweepVars, home, entry, name, presented, token, peer, inbox>>

UnregisterFails(c) ==
    /\ Faults
    /\ pc[c] = "unregister"
    /\ GoTo(c, "timedOut")
    /\ UNCHANGED <<registryVars, name, presented, token, peer, inbox>>

\* local_waiters.remove, whichever channel the name has.
UnregisterLocal(c) ==
    /\ pc[c] = "unlocal"
    /\ local' = [local EXCEPT ![home[c]][name[c]] = None]
    /\ GoTo(c, "timedOut")
    /\ UNCHANGED <<redisVars, sweepVars, home, entry, name, presented, token, peer, inbox>>

-----------------------------------------------------------------------------
(***************************************************************************)
(* cleanup_expired() of a server                                           *)
(***************************************************************************)

\* A tick: to_check is a copy of the names in local_waiters.
SweepBegin(s) ==
    /\ sweep[s] = {} /\ drop[s] = None
    /\ sweep' = [sweep EXCEPT ![s] = {n \in Name : local[s][n] # None}]
    /\ UNCHANGED <<redisVars, local, drop, home, entry, callVars>>

\* EXISTS of the pairing key; unwrap_or(false) takes an error for "gone".
SweepCheck(s, n) ==
    /\ drop[s] = None
    /\ n \in sweep[s]
    /\ sweep' = [sweep EXCEPT ![s] = @ \ {n}]
    /\ \/ drop' = [drop EXCEPT ![s] = IF store[n] = None THEN n ELSE None]
       \/ Faults /\ drop' = [drop EXCEPT ![s] = n]
    /\ UNCHANGED <<redisVars, local, home, entry, callVars>>

\* Mutant of SweepDrop: counts the waiter as cleaned and keeps it.
SweepForgets(s) ==
    /\ drop[s] # None
    /\ drop' = [drop EXCEPT ![s] = None]
    /\ UNCHANGED <<redisVars, local, sweep, home, entry, callVars>>

\* local_waiters.remove, whichever channel the name has by now.
SweepDrop(s) ==
    /\ drop[s] # None
    /\ local' = [local EXCEPT ![s][drop[s]] = None]
    /\ drop' = [drop EXCEPT ![s] = None]
    /\ UNCHANGED <<redisVars, sweep, home, entry, callVars>>

Sweep(s) == SweepBegin(s) \/ SweepDrop(s) \/ \E n \in Name : SweepCheck(s, n)

RegistryStep(c) ==
    \/ Lookup(c)
    \/ Resume(c)
    \/ AddLocal(c)
    \/ Claim(c)
    \/ ClaimMiss(c)
    \/ ForgetPeerToken(c)
    \/ Notify(c)
    \/ Publish(c)
    \/ Insert(c)
    \/ InsertToken(c)
    \/ RegisterFails(c)
    \/ Unregister(c)
    \/ UnregisterFails(c)
    \/ UnregisterLocal(c)

=============================================================================
