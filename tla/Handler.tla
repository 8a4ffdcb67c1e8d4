------------------------------ MODULE Handler ------------------------------
(***************************************************************************)
(* The connection tasks of the Rust rendezvous server                      *)
(* (server/rust/src/server.rs, handle_connection, and the task body that   *)
(* run_server spawns around it).  Every connection is served by a task of  *)
(* its own, which calls register() and unregister() of one of the two      *)
(* registries: InMemoryRegistry and RedisRegistry extend this module with  *)
(* the steps of those calls.                                               *)
(*                                                                         *)
(* The clients, the network and the clocks are the environment: what a     *)
(* client sends, when it disconnects (a write fails) and when a timer      *)
(* fires is arbitrary.                                                     *)
(*                                                                         *)
(* A connection c stands for the accepted TCP connection, for the task     *)
(* that serves it, for its public address (PeerConnectionData), for the    *)
(* oneshot channel its task creates and for the UUID its task generates:   *)
(* a task makes at most one of each, and all of them are fresh.            *)
(***************************************************************************)
EXTENDS Integers, FiniteSets

CONSTANTS
    Conn,   \* the connections the server may see
    Name,   \* the pairing names the clients use
    None    \* Option::None

VARIABLES
    pc,         \* where the task of a connection is
    name,       \* request.pairing_name, once received
    presented,  \* request.reconnect_token
    token,      \* the token register() returned
    peer,       \* peer_info: the address the task was given for its client
    inbox,      \* the value sent on the task's oneshot channel, or None
    reply,      \* the last response written to the client of a connection
    metrics     \* ServerMetrics

callVars == <<pc, name, presented, token, peer, inbox>>
handlerVars == <<reply, metrics>>

Replies == {"none", "waiting", "paired", "timeout", "error"}
Counters == {"active", "total", "paired", "timeouts", "errors"}

GoTo(c, l) == pc' = [pc EXCEPT ![c] = l]

HandlerInit ==
    /\ pc = [c \in Conn |-> "idle"]
    /\ name = [c \in Conn |-> None]
    /\ presented = [c \in Conn |-> None]
    /\ token = [c \in Conn |-> None]
    /\ peer = [c \in Conn |-> None]
    /\ inbox = [c \in Conn |-> None]
    /\ reply = [c \in Conn |-> "none"]
    /\ metrics = [m \in Counters |-> 0]

-----------------------------------------------------------------------------
\* The spawned task runs: connection_started().
Start(c) ==
    /\ pc[c] = "idle"
    /\ GoTo(c, "reading")
    /\ metrics' = [metrics EXCEPT !["active"] = @ + 1, !["total"] = @ + 1]
    /\ UNCHANGED <<name, presented, token, peer, inbox, reply>>

\* Mutant of Count: a way out without connection_ended().
CountWithoutEnd(m) ==
    metrics' = [k \in Counters |-> metrics[k] + (IF k \in m THEN 1 ELSE 0)]

\* handle_connection returns: the counter m of this way out, if it has one,
\* and connection_ended().
Count(m) ==
    metrics' = [k \in Counters |->
                  metrics[k] + (IF k \in m THEN 1 ELSE 0) - (IF k = "active" THEN 1 ELSE 0)]

Return(c, m) ==
    /\ GoTo(c, "done")
    /\ Count(m)
    /\ UNCHANGED <<name, presented, token, peer, inbox>>

\* The tokens clients have been sent: what a client may present.
IssuedTokens == {token[d] : d \in {e \in Conn : reply[e] \in {"waiting", "paired", "timeout"}}}

\* A well-formed request arrives and register() is called: with a token it
\* starts at its lookup, without one at the search for a waiting client.
Receive(c, n, t) ==
    /\ pc[c] = "reading"
    /\ name' = [name EXCEPT ![c] = n]
    /\ presented' = [presented EXCEPT ![c] = t]
    /\ GoTo(c, IF t = None THEN "claim" ELSE "lookup")
    /\ UNCHANGED <<token, peer, inbox, handlerVars>>

\* An IPv6 client, or a request ClientRequest::from_bytes refuses.
BadRequest(c) ==
    /\ pc[c] = "reading"
    /\ GoTo(c, "reject")
    /\ UNCHANGED <<name, presented, token, peer, inbox, handlerVars>>

\* The client disconnects before its request is complete.
ReadError(c) ==
    /\ pc[c] = "reading"
    /\ Return(c, {"errors"})
    /\ UNCHANGED reply

\* recv_timeout elapses: the connection is closed without a response.
RequestTimeout(c) ==
    /\ pc[c] = "reading"
    /\ Return(c, {"timeouts"})
    /\ UNCHANGED reply

\* register() returned Waiting or Resumed: write the waiting response.
Greet(c) ==
    /\ pc[c] = "greet"
    /\ reply' = [reply EXCEPT ![c] = "waiting"]
    /\ GoTo(c, "wait")
    /\ UNCHANGED <<name, presented, token, peer, inbox, metrics>>

\* timeout(peer_wait_timeout, peer_notify) polls the channel before the timer:
\* the peer's address has arrived,
Notified(c) ==
    /\ pc[c] = "wait"
    /\ inbox[c] # None
    /\ peer' = [peer EXCEPT ![c] = inbox[c]]
    /\ GoTo(c, "paired")
    /\ UNCHANGED <<name, presented, token, inbox, handlerVars>>

\* or the sender was dropped without sending,
SenderDropped(c) ==
    /\ pc[c] = "wait"
    /\ inbox[c] = None
    /\ GoTo(c, "closed")
    /\ UNCHANGED <<name, presented, token, peer, inbox, handlerVars>>

\* or neither, and the timer has fired.
WaitTimeout(c) ==
    /\ pc[c] = "wait"
    /\ inbox[c] = None
    /\ GoTo(c, "unregister")
    /\ UNCHANGED <<name, presented, token, peer, inbox, handlerVars>>

\* The last write_all of each branch, and the counter it bumps afterwards.
ReplyPaired(c) ==
    /\ pc[c] = "paired"
    /\ reply' = [reply EXCEPT ![c] = "paired"]
    /\ Return(c, {"paired"})

ReplyTimeout(c) ==
    /\ pc[c] \in {"closed", "timedOut"}
    /\ reply' = [reply EXCEPT ![c] = "timeout"]
    /\ Return(c, {"timeouts"})

\* An error response is not counted as an error.
ReplyError(c) ==
    /\ pc[c] = "reject"
    /\ reply' = [reply EXCEPT ![c] = "error"]
    /\ Return(c, {})

\* write_all fails because the client is gone: the `?` leaves the handler at
\* once, and a registration that was made stays in the registry.
WriteFails(c) ==
    /\ pc[c] \in {"greet", "paired", "closed", "timedOut", "reject"}
    /\ Return(c, {"errors"})
    /\ UNCHANGED reply

\* One step of the task of c outside the registry; alive says whether the
\* sender of its channel still exists.
HandlerStep(c, alive) ==
    \/ \E n \in Name, t \in IssuedTokens \cup {None} : Receive(c, n, t)
    \/ BadRequest(c)
    \/ ReadError(c)
    \/ RequestTimeout(c)
    \/ Greet(c)
    \/ Notified(c)
    \/ ~alive /\ SenderDropped(c)
    \/ alive /\ WaitTimeout(c)
    \/ ReplyPaired(c)
    \/ ReplyTimeout(c)
    \/ ReplyError(c)
    \/ WriteFails(c)

-----------------------------------------------------------------------------
(***************************************************************************)
(* What clients are promised, whichever registry the server uses           *)
(***************************************************************************)

\* No client's address is handed to two connections, whether as the result of
\* register() or through the notification channel.
MatchedOnce == \A c, d \in Conn : peer[c] # None /\ peer[c] = peer[d] => c = d

Running == {c \in Conn : pc[c] \notin {"idle", "done"}}

\* active_connections, on which the connection limit and the shutdown drain
\* depend, counts the tasks inside handle_connection on every way out of it.
ActiveCountsRunning == metrics["active"] = Cardinality(Running)

=============================================================================
