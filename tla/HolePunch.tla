----------------------------- MODULE HolePunch -----------------------------
(***************************************************************************)
(* The C++ client: pair() and its listener thread (client/tcpunch.cpp) in  *)
(* two or more processes that want to connect to each other, and the reply *)
(* of the C++ server (server/hole_punching_server.cpp).                    *)
(*                                                                         *)
(* Every call of pair() uses one local port, for its connection to the     *)
(* server, its listener and its connect(); NATs keep port numbers, as the  *)
(* code assumes.  A socket is the pair of its local and its remote port.   *)
(* External are TCP, the NATs, the hosts that connect to a client although *)
(* nobody has introduced them, and the introduction of two clients to each *)
(* other: the server's code for that is commented out, and it is modelled  *)
(* from what pair() waits for.                                             *)
(***************************************************************************)
EXTENDS Integers, FiniteSets

CONSTANTS
    Process,    \* the processes that call pair()
    MaxCalls,   \* bound: calls of pair() per process, one after the other
    Stranger,   \* the ports from which unrelated hosts connect, each once
    Backlog,    \* how many connections listen(.., 1) lets wait: 2 on Linux
    None        \* -1, or no address yet

Port == Process \X (1..MaxCalls)

Sockets == Port \X (Port \cup Stranger)

ASSUME PortAssumption ==
    /\ MaxCalls \in Nat
    /\ Backlog \in Nat
    /\ Stranger \cap Port = {}
    /\ None \notin Port \cup Sockets

VARIABLES
    pc,                     \* where pair() is
    call,                   \* the calls a process has made
    connection_established, \* the two globals of a process
    accepting_socket,
    peer_data,              \* the address pair() has received
    peer_socket,            \* its connecting socket: "none", "syn" or "open"
    result,                 \* what pair() has returned
    thread,                 \* where the listener thread of a call is
    bound                   \* the port that thread listens on, None if stray

VARIABLES
    waiting,    \* server: the ports of the clients that have asked
    introduced, \* server: <<x, y>> if y's address was sent to x
    filtering,  \* the processes whose NAT drops what they have not asked for
    sent,       \* the SYNs sent, which open those NATs
    links,      \* the sockets of the connections that exist
    queue       \* those of them that wait for an accept()

mainVars == <<pc, call, peer_data, peer_socket, result>>
globals == <<connection_established, accepting_socket>>
threadVars == <<thread, bound>>
serverVars == <<waiting, introduced>>
tcpVars == <<filtering, sent, links, queue>>
vars == <<mainVars, globals, threadVars, serverVars, tcpVars>>

Own(p) == <<p, call[p]>>
Socket(p) == <<Own(p), peer_data[p]>>
GoTo(p, l) == pc' = [pc EXCEPT ![p] = l]

Init ==
    /\ pc = [p \in Process |-> "idle"]
    /\ call = [p \in Process |-> 0]
    /\ connection_established = [p \in Process |-> FALSE]
    /\ accepting_socket = [p \in Process |-> None]
    /\ peer_data = [p \in Process |-> None]
    /\ peer_socket = [p \in Process |-> "none"]
    /\ result = [p \in Process |-> None]
    /\ thread = [x \in Port |-> "none"]
    /\ bound = [x \in Port |-> None]
    /\ waiting = {} /\ introduced = {}
    /\ filtering \in SUBSET Process
    /\ sent = {} /\ links = {} /\ queue = {}

-----------------------------------------------------------------------------
(***************************************************************************)
(* pair() until it knows its peer                                          *)
(***************************************************************************)

\* Mutant of Call: connection_established keeps its value.
CallKeepsFlag(p) ==
    /\ pc[p] \in {"idle", "returned", "failed"}
    /\ call[p] < MaxCalls
    /\ call' = [call EXCEPT ![p] = @ + 1]
    /\ accepting_socket' = [accepting_socket EXCEPT ![p] = None]
    /\ peer_data' = [peer_data EXCEPT ![p] = None]
    /\ peer_socket' = [peer_socket EXCEPT ![p] = "none"]
    /\ result' = [result EXCEPT ![p] = None]
    /\ GoTo(p, "asked")
    /\ UNCHANGED <<connection_established, threadVars, serverVars, tcpVars>>

\* A call resets the globals, connects to the server and sends its name.
Call(p) ==
    /\ pc[p] \in {"idle", "returned", "failed"}
    /\ call[p] < MaxCalls
    /\ call' = [call EXCEPT ![p] = @ + 1]
    /\ connection_established' = [connection_established EXCEPT ![p] = FALSE]
    /\ accepting_socket' = [accepting_socket EXCEPT ![p] = None]
    /\ peer_data' = [peer_data EXCEPT ![p] = None]
    /\ peer_socket' = [peer_socket EXCEPT ![p] = "none"]
    /\ result' = [result EXCEPT ![p] = None]
    /\ GoTo(p, "asked")
    /\ UNCHANGED <<threadVars, serverVars, tcpVars>>

\* The server replies with the client's own address,
Reply(p) ==
    /\ pc[p] = "asked"
    /\ Own(p) \notin waiting
    /\ waiting' = waiting \cup {Own(p)}
    /\ UNCHANGED <<mainVars, globals, threadVars, introduced, tcpVars>>

\* or closes the connection, which pair() reports as an error.
Refuse(p) ==
    /\ pc[p] = "asked"
    /\ Own(p) \notin waiting
    /\ GoTo(p, "failed")
    /\ UNCHANGED <<call, peer_data, peer_socket, result, globals, threadVars, serverVars, tcpVars>>

\* The first recv: pair() starts its listener thread and waits for its peer.
ReceiveOwn(p) ==
    /\ pc[p] = "asked"
    /\ Own(p) \in waiting
    /\ thread' = [thread EXCEPT ![Own(p)] = "created"]
    /\ GoTo(p, "waitPeer")
    /\ UNCHANGED <<call, peer_data, peer_socket, result, globals, bound, serverVars, tcpVars>>

\* Two clients are sent each other's address, whether they still wait or not.
Introduce(x, y) ==
    /\ x[1] # y[1]
    /\ {x, y} \subseteq waiting
    /\ \A z \in Port : <<x, z>> \notin introduced /\ <<y, z>> \notin introduced
    /\ introduced' = introduced \cup {<<x, y>>, <<y, x>>}
    /\ UNCHANGED <<mainVars, globals, threadVars, waiting, tcpVars>>

\* The second recv.
ReceivePeer(p) ==
    /\ pc[p] = "waitPeer"
    /\ \E y \in Port :
         /\ <<Own(p), y>> \in introduced
         /\ peer_data' = [peer_data EXCEPT ![p] = y]
    /\ GoTo(p, "loop")
    /\ UNCHANGED <<call, peer_socket, result, globals, threadVars, serverVars, tcpVars>>

\* SO_RCVTIMEO ends either recv: Timeout is thrown, and nothing is closed.
RecvTimeout(p) ==
    /\ pc[p] \in {"asked", "waitPeer"}
    /\ GoTo(p, "failed")
    /\ UNCHANGED <<call, peer_data, peer_socket, result, globals, threadVars, serverVars, tcpVars>>

(***************************************************************************)
(* pair() with the address of its peer                                     *)
(***************************************************************************)

\* Mutant of Loop: the flag is not looked at.
LoopForever(p) ==
    /\ pc[p] = "loop"
    /\ GoTo(p, "connect")
    /\ UNCHANGED <<call, peer_data, peer_socket, result, globals, threadVars, serverVars, tcpVars>>

\* while (!connection_established.load())
Loop(p) ==
    /\ pc[p] = "loop"
    /\ GoTo(p, IF connection_established[p] THEN "check" ELSE "connect")
    /\ UNCHANGED <<call, peer_data, peer_socket, result, globals, threadVars, serverVars, tcpVars>>

\* connect() without blocking: it has succeeded (0 or EISCONN); or it goes on or
\* begins (EALREADY, EINPROGRESS); or a connection that came in by the listener
\* has these addresses already (EADDRNOTAVAIL).
Connect(p) ==
    /\ pc[p] = "connect"
    /\ LET free == Socket(p) \notin links IN
       \/ /\ peer_socket[p] = "open"
          /\ GoTo(p, "check")
          /\ UNCHANGED <<peer_socket, sent>>
       \/ /\ peer_socket[p] # "open"
          /\ GoTo(p, "loop")
          /\ peer_socket' = [peer_socket EXCEPT ![p] = IF free THEN "syn" ELSE @]
          /\ sent' = IF free THEN sent \cup {Socket(p)} ELSE sent
    /\ UNCHANGED <<call, peer_data, result, globals, threadVars, serverVars, filtering, links, queue>>

\* Mutant of Check: always returns the connecting socket.
CheckNothing(p) ==
    /\ pc[p] = "check"
    /\ GoTo(p, "returned")
    /\ result' = [result EXCEPT ![p] = IF peer_socket[p] = "open" THEN Socket(p) ELSE None]
    /\ UNCHANGED <<call, peer_data, peer_socket, globals, threadVars, serverVars, tcpVars>>

\* if (connection_established.load()): join the listener; else return the
\* connecting socket.
Check(p) ==
    /\ pc[p] = "check"
    /\ IF connection_established[p]
       THEN GoTo(p, "join") /\ UNCHANGED result
       ELSE GoTo(p, "returned") /\ result' = [result EXCEPT ![p] = Socket(p)]
    /\ UNCHANGED <<call, peer_data, peer_socket, globals, threadVars, serverVars, tcpVars>>

\* pthread_join of this call's thread, then accepting_socket.load().
Join(p) ==
    /\ pc[p] = "join"
    /\ thread[Own(p)] = "over"
    /\ result' = [result EXCEPT ![p] = accepting_socket[p]]
    /\ GoTo(p, "returned")
    /\ UNCHANGED <<call, peer_data, peer_socket, globals, threadVars, serverVars, tcpVars>>

(***************************************************************************)
(* peer_listen(), the listener thread of the call with port x              *)
(***************************************************************************)

\* The thread reads the port from pair()'s stack frame.  When that call is over
\* the frame is gone: the thread finds its port, that of a later call, or
\* anything else.
Listen(x) ==
    /\ thread[x] = "created"
    /\ thread' = [thread EXCEPT ![x] = "listening"]
    /\ IF Own(x[1]) = x /\ pc[x[1]] \notin {"returned", "failed"}
       THEN bound' = [bound EXCEPT ![x] = x]
       ELSE \E y \in {Own(x[1]), x, None} : bound' = [bound EXCEPT ![x] = y]
    /\ UNCHANGED <<mainVars, globals, serverVars, tcpVars>>

\* accept(), and the two stores that tell pair().
Accept(x) ==
    /\ thread[x] = "listening"
    /\ \E s \in queue :
         /\ s[1] = bound[x]
         /\ queue' = queue \ {s}
         /\ accepting_socket' = [accepting_socket EXCEPT ![x[1]] = s]
    /\ thread' = [thread EXCEPT ![x] = "accepted"]
    /\ UNCHANGED <<mainVars, connection_established, bound, serverVars, filtering, sent, links>>

Tell(x) ==
    /\ thread[x] = "accepted"
    /\ connection_established' = [connection_established EXCEPT ![x[1]] = TRUE]
    /\ thread' = [thread EXCEPT ![x] = "over"]
    /\ UNCHANGED <<mainVars, accepting_socket, bound, serverVars, tcpVars>>

-----------------------------------------------------------------------------
(***************************************************************************)
(* TCP.  A SYN is sent again until it arrives.  It meets a socket that has *)
(* sent one to where it comes from (simultaneous open), a listening socket *)
(* (no thread closes its own, so one that is over counts) whose backlog    *)
(* has room, or none (RST).                                                *)
(***************************************************************************)

Listening(y) == \E x \in Port : bound[x] = y
Room(y) == Cardinality({s \in queue : s[1] = y}) < Backlog

Deliver(p) ==
    LET y == peer_data[p]
        q == y[1]
        back == <<y, Own(p)>>
        crossing == Own(q) = y /\ peer_socket[q] = "syn" /\ peer_data[q] = Own(p)
    IN
    /\ peer_socket[p] = "syn"
    /\ q \in filtering => back \in sent
    /\ ~crossing /\ Listening(y) => Room(y)
    /\ IF crossing \/ Listening(y)
       THEN /\ peer_socket' = [r \in Process |->
                 IF r = p \/ (r = q /\ crossing) THEN "open" ELSE peer_socket[r]]
            /\ links' = links \cup {Socket(p), back}
            /\ queue' = IF crossing THEN queue ELSE queue \cup {back}
       ELSE /\ peer_socket' = [peer_socket EXCEPT ![p] = "none"]
            /\ UNCHANGED <<links, queue>>
    /\ UNCHANGED <<pc, call, peer_data, result, globals, threadVars, serverVars, filtering, sent>>

\* A host nobody has introduced connects to a listener, if no NAT keeps it out.
Visit(y, z) ==
    /\ Listening(y)
    /\ y[1] \notin filtering
    /\ Room(y)
    /\ \A x \in Port : <<x, z>> \notin links
    /\ links' = links \cup {<<y, z>>}
    /\ queue' = queue \cup {<<y, z>>}
    /\ UNCHANGED <<mainVars, globals, threadVars, serverVars, filtering, sent>>

-----------------------------------------------------------------------------
PairStep(p) == Loop(p) \/ Connect(p) \/ Check(p) \/ Join(p)

ThreadStep(x) == Listen(x) \/ Accept(x) \/ Tell(x)

\* Everything but the callers' decision to call pair().
Proceed ==
    \/ \E p \in Process :
         \/ Reply(p) \/ Refuse(p) \/ ReceiveOwn(p) \/ ReceivePeer(p)
         \/ RecvTimeout(p) \/ PairStep(p) \/ Deliver(p)
    \/ \E x, y \in Port : Introduce(x, y)
    \/ \E y \in Port, z \in Stranger : Visit(y, z)
    \/ \E x \in Port : ThreadStep(x)

Next == Proceed \/ \E p \in Process : Call(p)

Spec == Init /\ [][Next]_vars

\* The threads run, and a SYN that a NAT lets through and a backlog has room for
\* arrives in the end.
Fairness ==
    /\ \A p \in Process : WF_vars(PairStep(p)) /\ WF_vars(Deliver(p))
    /\ \A x \in Port : WF_vars(ThreadStep(x))

FairSpec == Spec /\ Fairness

(***************************************************************************)
(* Callers that call pair() again only when no listener thread of an       *)
(* earlier call is left: one whose first call is its only one is such a    *)
(* caller.                                                                 *)
(***************************************************************************)

ListenersOver(p) == \A k \in 1..MaxCalls : thread[<<p, k>>] \in {"none", "over"}

CleanNext == Proceed \/ \E p \in Process : ListenersOver(p) /\ Call(p)

CleanSpec == Init /\ [][CleanNext]_vars

FairCleanSpec == CleanSpec /\ Fairness

-----------------------------------------------------------------------------
PCs == {"idle", "asked", "waitPeer", "loop", "connect", "check", "join", "returned", "failed"}

\* The types of the variables; a process that has not called yet is idle.
TypeOK ==
    /\ pc \in [Process -> PCs]
    /\ call \in [Process -> 0..MaxCalls]
    /\ \A p \in Process : call[p] = 0 <=> pc[p] = "idle"
    /\ connection_established \in [Process -> BOOLEAN]
    /\ accepting_socket \in [Process -> Sockets \cup {None}]
    /\ peer_data \in [Process -> Port \cup {None}]
    /\ peer_socket \in [Process -> {"none", "syn", "open"}]
    /\ result \in [Process -> Sockets \cup {None}]
    /\ thread \in [Port -> {"none", "created", "listening", "accepted", "over"}]
    /\ bound \in [Port -> Port \cup {None}]
    /\ waiting \subseteq Port
    /\ introduced \in SUBSET (Port \X Port)
    /\ filtering \subseteq Process
    /\ sent \in SUBSET (Port \X Port)
    /\ links \in SUBSET Sockets
    /\ queue \in SUBSET Sockets

\* The server introduces a port to one other.  A connection is between two such
\* ports, or with a stranger, and then no NAT filters.  A call that has an address
\* has it from the server, and its connecting socket, once open, is the end of a
\* connection to it.  Threads are created by calls, and the loop is entered with
\* an address.
TcpInv ==
    /\ \A x, y \in Port : <<x, y>> \in introduced => <<y, x>> \in introduced
    /\ \A x, y, z \in Port : <<x, y>> \in introduced /\ <<x, z>> \in introduced => y = z
    /\ queue \subseteq links
    /\ \A s \in links : s \in introduced \/ (s[2] \in Stranger /\ s[1][1] \notin filtering)
    /\ \A p \in Process :
         /\ peer_data[p] # None => Socket(p) \in introduced
         /\ peer_socket[p] # "none" => peer_data[p] # None
         /\ peer_socket[p] = "open" => Socket(p) \in links
         /\ pc[p] \in {"loop", "connect", "check", "join", "returned"} <=> peer_data[p] # None
    /\ \A x \in Port : x[2] > call[x[1]] => thread[x] = "none"

\* The socket that pair() returns belongs to a connection of this call's port to
\* the address the server has sent this call.  accept() takes whatever arrives and
\* compares nothing, so without a NAT that filters it may be a stranger's instead.
PeersSocket(p) ==
    /\ result[p] \in links
    /\ \/ result[p] = Socket(p)
       \/ p \notin filtering /\ result[p][1] = Own(p) /\ result[p][2] \in Stranger

\* Where pair() of a clean caller is, and what its threads have left in the
\* globals: only the thread of this call writes them.
CallInv(p) ==
    /\ \A k \in 1..MaxCalls :
         /\ k < call[p] => thread[<<p, k>>] \in {"none", "over"}
         /\ k = call[p] /\ thread[<<p, k>>] = "listening" => bound[<<p, k>>] \in {<<p, k>>, None}
         /\ k = call[p] /\ thread[<<p, k>>] \in {"accepted", "over"} => accepting_socket[p] # None
    /\ accepting_socket[p] # None => accepting_socket[p] \in links /\ accepting_socket[p][1] = Own(p)
    /\ connection_established[p] => accepting_socket[p] # None
    /\ pc[p] = "check" => connection_established[p] \/ peer_socket[p] = "open"
    /\ pc[p] = "join" => connection_established[p]
    /\ pc[p] = "returned" => PeersSocket(p)

\* The inductive invariant behind SocketIsPeers.
PunchInv == TypeOK /\ TcpInv /\ \A p \in Process : CallInv(p)

\* pair() behind a NAT that filters returns the socket of a connection to the
\* address the server sent this call, by whichever of connect() and the listener
\* it came about; behind any other, to that address or to a stranger.
SocketIsPeers == \A p \in Process : pc[p] = "returned" => PeersSocket(p)

\* p's call knows port y, and the call of that port knows p's.
Met(p, y) == peer_data[p] = y /\ Own(y[1]) = y /\ peer_data[y[1]] = Own(p)

\* "get back a socket descriptor" (README.md): once two calls have each other's
\* address, both return, whatever the NATs filter, whoever else connects and
\* however connect(), the listeners and the flag interleave, unless the backlog of
\* the listener that p connects to is full.
PairReturns ==
    \A p \in Process, y \in Port :
        (Met(p, y) /\ pc[p] = "loop") ~> (pc[p] = "returned" \/ ~Room(y))

=============================================================================
