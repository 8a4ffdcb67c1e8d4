-------------------------- MODULE RedisRendezvous --------------------------
(***************************************************************************)
(* Several rendezvous servers that share one Redis: the connection tasks   *)
(* (Handler) and the cleanup task of each server, working on               *)
(* RedisRegistry.  metrics adds up the counters of all the servers.        *)
(*                                                                         *)
(* A server may crash: its tasks and its local_waiters are gone, what it   *)
(* has written to Redis stays.  A restarted server has a new server_id and *)
(* an empty local_waiters: it is another member of Server.                 *)
(***************************************************************************)
EXTENDS RedisRegistry

CONSTANT Crashing   \* bound: the servers that may crash

ASSUME CrashingAssumption == Crashing \subseteq Server

ASSUME KeysAssumption == Name \cap Conn = {} /\ None \notin Name \cup Conn \cup Waiting

VARIABLE crashed    \* the servers that have crashed

vars == <<registryVars, callVars, handlerVars, crashed>>

Init == HandlerInit /\ RegistryInit /\ crashed = {}

\* A client reaches its server: the task of its connection is spawned.
Accept(c) ==
    /\ home[c] \notin crashed
    /\ Start(c)
    /\ UNCHANGED registryVars

TaskStep(c) ==
    \/ HandlerStep(c, SenderAlive(c)) /\ UNCHANGED registryVars
    \/ RegistryStep(c) /\ UNCHANGED handlerVars

\* The cleanup task of a server that runs.
SweepStep(s) == s \notin crashed /\ Sweep(s)

\* The process of s dies, with every task it runs.
Crash(s) ==
    /\ s \in Crashing \ crashed
    /\ crashed' = crashed \cup {s}
    /\ pc' = [c \in Conn |-> IF home[c] = s /\ c \in Running THEN "lost" ELSE pc[c]]
    /\ local' = [local EXCEPT ![s] = [n \in Name |-> None]]
    /\ sweep' = [sweep EXCEPT ![s] = {}]
    /\ drop' = [drop EXCEPT ![s] = None]
    /\ UNCHANGED <<redisVars, home, entry, name, presented, token, peer, inbox, handlerVars>>

Next ==
    \/ (\E c \in Conn : Accept(c) \/ TaskStep(c)) /\ UNCHANGED crashed
    \/ (Expire \/ \E s \in Server : SweepStep(s)) /\ UNCHANGED <<handlerVars, crashed>>
    \/ \E s \in Server : Crash(s)

Spec == Init /\ [][Next]_vars

\* The runtime keeps polling a task that can run, the timers fire, Redis
\* expires keys, and every server sweeps its waiters at every tick.
Fairness ==
    /\ \A c \in Conn : WF_vars(TaskStep(c) /\ UNCHANGED crashed)
    /\ WF_vars(Expire /\ UNCHANGED <<handlerVars, crashed>>)
    /\ \A s \in Server : WF_vars(SweepStep(s) /\ UNCHANGED <<handlerVars, crashed>>)

FairSpec == Spec /\ Fairness

-----------------------------------------------------------------------------
(***************************************************************************)
(* What holds, also when Redis commands fail                               *)
(***************************************************************************)

PCs == {"idle", "reading", "reject", "lookup", "resume", "relocal", "claim", "untoken",
        "notify", "insert", "intoken", "inlocal", "greet", "wait", "unregister",
        "unlocal", "timedOut", "closed", "paired", "done", "lost"}

\* Every variable keeps its type: a pairing key holds a registration, a token
\* key a name, and exactly the keys that exist have a time to live, which puts
\* them in a strict total order.
TypeOK ==
    /\ \A n \in Name : store[n] \in Waiting \cup {None}
    /\ \A t \in Conn : store[t] \in Name \cup {None}
    /\ ttl \in [{k \in Keys : store[k] # None} -> SUBSET Keys]
    /\ \A k \in DOMAIN ttl : k \notin ttl[k] /\ ttl[k] \subseteq DOMAIN ttl
    /\ \A j, k \in DOMAIN ttl : /\ j \in ttl[k] => ttl[j] \subseteq ttl[k]
                                /\ j = k \/ j \in ttl[k] \/ k \in ttl[j]
    /\ local \in [Server -> [Name -> Conn \cup {None}]]
    /\ sweep \in [Server -> SUBSET Name]
    /\ drop \in [Server -> Name \cup {None}]
    /\ home \in [Conn -> Server]
    /\ entry \in [Conn -> Waiting \cup {None}]
    /\ pc \in [Conn -> PCs]
    /\ name \in [Conn -> Name \cup {None}]
    /\ presented \in [Conn -> Conn \cup {None}]
    /\ token \in [Conn -> Conn \cup {None}]
    /\ peer \in [Conn -> Conn \cup {None}]
    /\ inbox \in [Conn -> Conn \cup {None}]
    /\ reply \in [Conn -> Replies]
    /\ metrics \in [Counters -> Int]
    /\ crashed \subseteq Crashing

\* A client that was told to wait can resume: as long as Redis holds the
\* registration it made, it holds its token too, because register() sets the
\* pairing key first and both live equally long.
TokenKnown ==
    \A n \in Name : store[n] # None /\ store[n].info = store[n].token =>
        LET c == store[n].info IN reply[c] = "waiting" => store[c] = n

\* Where a task has not offered its client yet, and where it has taken another's.
BeforeOffer == {"idle", "reading", "lookup", "resume", "claim", "insert"}
Claiming == {"untoken", "notify"}

\* The address of c is out: c has left register(), or waits in it to be taken.
Offered(c) == pc[c] \notin BeforeOffer \cup Claiming

\* The inductive invariant behind MatchedOnce.  A registration in Redis is of a
\* client that offered itself under that name and was given to nobody.  A client
\* whose address was sent on a channel was given to nobody but the task that
\* listens there: notifications may go astray, and are not duplicated.
RedisMatchInv ==
    /\ MatchedOnce
    /\ \A n \in Name : store[n] # None =>
         LET i == store[n].info
         IN  /\ Offered(i) /\ name[i] = n
             /\ \A d \in Conn : peer[d] # i /\ inbox[d] # i
    /\ \A w \in Conn : inbox[w] # None =>
         /\ Offered(inbox[w])
         /\ \A d \in Conn : (peer[d] = inbox[w] \/ inbox[d] = inbox[w]) => d = w
    /\ \A d \in Conn : peer[d] # None => Offered(peer[d])

\* Where a task has not set its pairing key yet, and where it has not returned the
\* UUID it has generated.
BeforeInsert == {"idle", "reading", "lookup", "resume", "relocal", "claim", "untoken", "notify", "insert"}
BeforeIssue == BeforeInsert \cup {"intoken", "inlocal"}

\* Tokens in use, and waiting responses, are those of tasks that have issued them.
TokensIssued ==
    /\ \A c, d \in Conn : token[d] = c \/ presented[d] = c => pc[c] \notin BeforeIssue
    /\ \A c \in Conn : reply[c] = "waiting" => pc[c] \notin BeforeIssue

\* A token belongs to the name its task was called with, wherever it is kept.
TokenNames ==
    /\ \A c \in Conn : store[c] # None => store[c] = name[c] /\ pc[c] \notin BeforeInsert
    /\ \A c \in Conn : pc[c] = "resume" => name[c] = name[presented[c]]
    /\ \A c \in Conn : entry[c] # None => pc[entry[c].token] \notin BeforeInsert
    /\ \A n \in Name : store[n] # None =>
         name[store[n].token] = n /\ pc[store[n].token] \notin BeforeInsert

\* While Redis holds the registration a client made itself, nobody has resumed it
\* or taken it, so nobody is about to delete its token key, which expires after
\* the pairing key.
OwnRegistrations ==
    \A n \in Name : store[n] # None /\ store[n].info = store[n].token =>
        LET c == store[n].info
        IN  /\ pc[c] \in {"inlocal", "greet"} \/ reply[c] = "waiting" => store[c] = n
            /\ store[c] # None => n \in ttl[c]
            /\ \A d \in Conn :
                 /\ entry[d] # None => entry[d].token # c
                 /\ token[d] = c => d = c
                 /\ pc[d] = "relocal" => presented[d] # c

\* The inductive invariant behind TokenKnown.
RedisTokenInv == TokensIssued /\ TokenNames /\ OwnRegistrations

\* Every task returns from handle_connection unless its server crashes: there is
\* no lock to wait for, a Redis command that fails ends the call, and a client
\* whose peer's server crashes is answered all the same.
HandlerFinishes == \A c \in Conn : (pc[c] = "reading") ~> (pc[c] \in {"done", "lost"})

\* No channel stays in local_waiters for ever, that of a client that was never
\* told to wait because the write failed included.
LocalWaiterLeaves == \A c \in Conn : SenderAlive(c) ~> ~SenderAlive(c)

\* A registration whose server has crashed, before or after its client was told
\* to wait, does not stay in Redis for ever.
OrphanLeaves ==
    \A n \in Name :
        LET Orphan == store[n] # None /\ store[n].server \in crashed
        IN  Orphan ~> ~Orphan

-----------------------------------------------------------------------------
(***************************************************************************)
(* What the documentation says and the code does not do                    *)
(***************************************************************************)

\* "Two clients with same pairing name should receive each other's info"
\* (CLIENT_MIGRATION.md): a client whose address was given to another is sent
\* the address of that other while it listens.
PeerIsTold ==
    \A c, d \in Conn :
        reply[d] = "paired" /\ peer[d] = c /\ ReceiverAlive(c) => inbox[c] = d

=============================================================================
