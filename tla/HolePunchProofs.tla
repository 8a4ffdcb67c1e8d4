-------------------------- MODULE HolePunchProofs --------------------------
(***************************************************************************)
(* For any processes and any number of calls: pair() of a process that     *)
(* never calls it while a listener thread of an earlier call is left       *)
(* returns the socket of its peer if its NAT filters, and that of its peer *)
(* or of a stranger if not, whatever the other processes and hosts do.     *)
(***************************************************************************)
EXTENDS HolePunch, TLAPS

\* A call uses a port of its process; a call that is not idle has one.
LEMMA OwnPort ==
    ASSUME TypeOK, NEW p \in Process, pc[p] # "idle"
    PROVE  Own(p) \in Port /\ call[p] \in 1..MaxCalls
BY PortAssumption DEF TypeOK, Own, Port

LEMMA PunchInit == Init => PunchInv
<1> SUFFICES ASSUME Init PROVE PunchInv
  OBVIOUS
<1> USE PortAssumption DEF Init
<1>1. TypeOK
  BY DEF TypeOK, PCs
<1>2. TcpInv
  BY Zenon DEF TcpInv
<1>3. \A p \in Process : CallInv(p)
  BY Zenon DEF CallInv, Port
<1> QED
  BY <1>1, <1>2, <1>3, Zenon DEF PunchInv

-----------------------------------------------------------------------------
\* Every step keeps the types.
LEMMA PunchTypes == TypeOK /\ TcpInv /\ [Next]_vars => TypeOK'
<1> SUFFICES ASSUME TypeOK, TcpInv, [Next]_vars PROVE TypeOK'
  OBVIOUS
<1> USE PortAssumption DEF mainVars, globals, threadVars, serverVars, tcpVars, GoTo
<1>1. ASSUME NEW p \in Process, Call(p) PROVE TypeOK'
  BY <1>1 DEF TypeOK, PCs, Call
<1>2. ASSUME NEW p \in Process, Reply(p) PROVE TypeOK'
  BY <1>2, OwnPort DEF TypeOK, Reply
<1>3. ASSUME NEW p \in Process, Refuse(p) \/ RecvTimeout(p) PROVE TypeOK'
  BY <1>3 DEF TypeOK, PCs, Refuse, RecvTimeout
<1>4. ASSUME NEW p \in Process, ReceiveOwn(p) PROVE TypeOK'
  BY <1>4 DEF TypeOK, PCs, ReceiveOwn
<1>5. ASSUME NEW x \in Port, NEW y \in Port, Introduce(x, y) PROVE TypeOK'
  BY <1>5 DEF TypeOK, Introduce
<1>6. ASSUME NEW p \in Process, ReceivePeer(p) PROVE TypeOK'
  BY <1>6 DEF TypeOK, PCs, ReceivePeer
<1>7. ASSUME NEW p \in Process, Loop(p) PROVE TypeOK'
  BY <1>7 DEF TypeOK, PCs, Loop
<1>8. ASSUME NEW p \in Process, Connect(p) PROVE TypeOK'
  <2>1. Socket(p) \in Port \X Port
    BY <1>8, OwnPort, Zenon DEF TypeOK, TcpInv, Connect, Socket
  <2> QED
    BY <1>8, <2>1 DEF TypeOK, PCs, Connect
<1>9. ASSUME NEW p \in Process, Check(p) PROVE TypeOK'
  <2>1. Socket(p) \in Sockets
    <3>1. pc[p] = "check" /\ peer_data[p] # None
      BY <1>9 DEF TcpInv, Check
    <3>2. Own(p) \in Port /\ peer_data[p] \in Port
      BY <3>1, OwnPort DEF TypeOK
    <3> QED
      BY <3>2, Zenon DEF Socket, Sockets
  <2> QED
    BY <1>9, <2>1 DEF TypeOK, PCs, Check
<1>10. ASSUME NEW p \in Process, Join(p) PROVE TypeOK'
  BY <1>10 DEF TypeOK, PCs, Join
<1>11. ASSUME NEW x \in Port, Listen(x) PROVE TypeOK'
  <2>1. x[1] \in Process /\ x[2] \in 1..MaxCalls
    BY DEF Port
  <2>2. Own(x[1]) \in Port
    <3>1. call[x[1]] \in 0..MaxCalls /\ ~(x[2] > call[x[1]])
      BY <1>11, <2>1 DEF TypeOK, TcpInv, Listen
    <3>2. pc[x[1]] # "idle"
      BY <2>1, <3>1 DEF TypeOK
    <3> QED
      BY <2>1, <3>2, OwnPort, Zenon
  <2> QED
    BY <1>11, <2>2 DEF TypeOK, Listen
<1>12. ASSUME NEW x \in Port, Accept(x) PROVE TypeOK'
  <2>1. PICK s \in queue : /\ queue' = queue \ {s}
                          /\ accepting_socket' = [accepting_socket EXCEPT ![x[1]] = s]
    BY <1>12, Zenon DEF Accept
  <2>2. s \in Sockets
    BY <2>1, Zenon DEF TypeOK
  <2> QED
    BY <1>12, <2>1, <2>2, Zenon DEF TypeOK, Accept
<1>13. ASSUME NEW x \in Port, Tell(x) PROVE TypeOK'
  BY <1>13, Zenon DEF TypeOK, Tell
<1>14. ASSUME NEW p \in Process, Deliver(p) PROVE TypeOK'
  <2>1. Socket(p) \in Sockets /\ <<peer_data[p], Own(p)>> \in Sockets
    BY <1>14, OwnPort DEF TypeOK, TcpInv, Deliver, Socket, Sockets
  <2>2. peer_socket' \in [Process -> {"none", "syn", "open"}]
    BY <1>14 DEF TypeOK, Deliver
  <2>3. links' \in SUBSET Sockets /\ queue' \in SUBSET Sockets
    BY <1>14, <2>1 DEF TypeOK, Deliver
  <2> QED
    BY <1>14, <2>2, <2>3, Zenon DEF TypeOK, Deliver
<1>15. ASSUME NEW y \in Port, NEW z \in Stranger, Visit(y, z) PROVE TypeOK'
  <2>1. <<y, z>> \in Sockets
    BY Zenon DEF Sockets
  <2> QED
    BY <1>15, <2>1, Zenon DEF TypeOK, Visit
<1>16. CASE UNCHANGED vars
  BY <1>16, Zenon DEF TypeOK, vars
<1> QED
  BY <1>1, <1>2, <1>3, <1>4, <1>5, <1>6, <1>7, <1>8, <1>9, <1>10, <1>11, <1>12, <1>13, <1>14, <1>15, <1>16, Zenon
     DEF Next, Proceed, PairStep, ThreadStep
-----------------------------------------------------------------------------
\* Every step keeps what holds of the connections, however often pair() is called.
LEMMA PunchTcp == TypeOK /\ TcpInv /\ [Next]_vars => TcpInv'
<1> SUFFICES ASSUME TypeOK, TcpInv, [Next]_vars PROVE TcpInv'
  OBVIOUS
<1> USE PortAssumption DEF mainVars, globals, threadVars, serverVars, tcpVars, GoTo, Socket, Own
<1>1. ASSUME NEW p \in Process, Call(p) PROVE TcpInv'
  BY <1>1 DEF TypeOK, TcpInv, Call, Port
<1>2. ASSUME NEW p \in Process, Reply(p) PROVE TcpInv'
  BY <1>2 DEF TcpInv, Reply
<1>3. ASSUME NEW p \in Process, Refuse(p) \/ RecvTimeout(p) PROVE TcpInv'
  BY <1>3 DEF TypeOK, TcpInv, Refuse, RecvTimeout
<1>4. ASSUME NEW p \in Process, ReceiveOwn(p) PROVE TcpInv'
  BY <1>4, OwnPort DEF TypeOK, TcpInv, ReceiveOwn
<1>5. ASSUME NEW x \in Port, NEW y \in Port, Introduce(x, y) PROVE TcpInv'
  <2>1. /\ introduced' = introduced \cup {<<x, y>>, <<y, x>>} /\ x # y
        /\ \A z \in Port : <<x, z>> \notin introduced /\ <<y, z>> \notin introduced
        /\ UNCHANGED <<pc, call, thread, peer_data, peer_socket, filtering, links, queue>>
    BY <1>5, Zenon DEF Introduce
  <2>2. \A u, v \in Port : <<u, v>> \in introduced' => <<v, u>> \in introduced'
    BY <2>1, Zenon DEF TcpInv
  <2>3. \A u, v, w \in Port : <<u, v>> \in introduced' /\ <<u, w>> \in introduced' => v = w
    <3>1. \A u, v \in Port : <<u, v>> \in introduced' =>
            <<u, v>> \in introduced \/ (u = x /\ v = y) \/ (u = y /\ v = x)
      BY <2>1, Zenon
    <3>2. ASSUME NEW u \in Port, NEW v \in Port, NEW w \in Port,
                 <<u, v>> \in introduced', <<u, w>> \in introduced'
          PROVE  v = w
      <4>1. CASE u \notin {x, y}
        BY <3>1, <3>2, <4>1 DEF TcpInv
      <4>2. CASE u \in {x, y}
        <5>1. <<u, v>> \notin introduced /\ <<u, w>> \notin introduced
          BY <2>1, <4>2, Zenon
        <5> QED
          BY <2>1, <3>1, <3>2, <5>1
      <4> QED
        BY <4>1, <4>2, Zenon
    <3> QED
      BY <3>2
  <2> QED
    BY <2>1, <2>2, <2>3, Zenon DEF TcpInv
<1>6. ASSUME NEW p \in Process, ReceivePeer(p) PROVE TcpInv'
  <2>1. PICK y \in Port : <<Own(p), y>> \in introduced /\ peer_data' = [peer_data EXCEPT ![p] = y]
    BY <1>6, Zenon DEF ReceivePeer
  <2>2. y # None /\ peer_socket[p] # "open"
    <3>1. pc[p] = "waitPeer"
      BY <1>6, Zenon DEF ReceivePeer
    <3>2. pc[p] \notin {"loop", "connect", "check", "join", "returned"}
      BY <3>1, Zenon
    <3>3. peer_data[p] = None
      BY <3>2, Zenon DEF TcpInv
    <3>4. peer_socket[p] # "open"
      BY <3>3, Zenon DEF TcpInv
    <3>5. y # None
      BY PortAssumption, Zenon
    <3> QED
      BY <3>4, <3>5, Zenon
  <2>3. /\ pc' = [pc EXCEPT ![p] = "loop"]
        /\ UNCHANGED <<call, thread, peer_socket, introduced, filtering, links, queue>>
    BY <1>6, Zenon DEF ReceivePeer
  <2>4. ASSUME NEW q \in Process
        PROVE  /\ peer_data'[q] # None => <<Own(q), peer_data'[q]>> \in introduced
               /\ peer_socket[q] # "none" => peer_data'[q] # None
               /\ peer_socket[q] = "open" => <<Own(q), peer_data'[q]>> \in links
               /\ pc'[q] \in {"loop", "connect", "check", "join", "returned"} <=> peer_data'[q] # None
    <3>1. CASE q = p
      BY <2>1, <2>2, <2>3, <3>1 DEF TypeOK
    <3>2. CASE q # p
      BY <2>1, <2>3, <3>2 DEF TypeOK, TcpInv
    <3> QED
      BY <3>1, <3>2, Zenon
  <2> QED
    BY <2>3, <2>4, Zenon DEF TcpInv
<1>7. ASSUME NEW p \in Process, Loop(p) \/ Check(p) \/ Join(p) PROVE TcpInv'
  <2>1. /\ \A q \in Process : pc'[q] = pc[q] \/ {pc[q], pc'[q]} \subseteq {"loop", "connect", "check", "join", "returned"}
        /\ UNCHANGED <<call, thread, peer_data, peer_socket, introduced, filtering, links, queue>>
    BY <1>7 DEF TypeOK, Loop, Check, Join
  <2> QED
    BY <2>1 DEF TcpInv
<1>8. ASSUME NEW p \in Process, Connect(p) PROVE TcpInv'
  BY <1>8 DEF TypeOK, TcpInv, Connect
<1>9. ASSUME NEW x \in Port, Listen(x) \/ Accept(x) \/ Tell(x) PROVE TcpInv'
  BY <1>9 DEF TypeOK, TcpInv, Listen, Accept, Tell
<1>10. ASSUME NEW p \in Process, Deliver(p) PROVE TcpInv'
  <2>1. /\ peer_data[p] \in Port /\ Own(p) \in Port
        /\ Socket(p) \in introduced /\ <<peer_data[p], Own(p)>> \in introduced
    <3>1. peer_data[p] # None /\ pc[p] # "idle"
      BY <1>10, Zenon DEF TcpInv, Deliver
    <3>2. peer_data[p] \in Port /\ Own(p) \in Port
      BY <3>1, OwnPort DEF TypeOK
    <3> QED
      BY <3>1, <3>2 DEF TcpInv
  <2>2. UNCHANGED <<pc, call, peer_data, thread, introduced, filtering>>
    BY <1>10, Zenon DEF Deliver
  <2>3. /\ queue' \subseteq links' /\ links \subseteq links'
        /\ links' \subseteq links \cup {Socket(p), <<peer_data[p], Own(p)>>}
    BY <1>10, <2>1 DEF TcpInv, Deliver
  <2>4. ASSUME NEW q \in Process
        PROVE  /\ peer_socket'[q] # "none" => peer_data[q] # None
               /\ peer_socket'[q] = "open" => Socket(q) \in links'
    <3>1. CASE peer_socket'[q] \in {"none", peer_socket[q]}
      BY <2>3, <3>1, Zenon DEF TcpInv
    <3>2. CASE peer_socket'[q] \notin {"none", peer_socket[q]}
      <4>1. /\ links' = links \cup {Socket(p), <<peer_data[p], Own(p)>>}
            /\ \/ q = p
               \/ Own(q) = peer_data[p] /\ peer_data[q] = Own(p)
        BY <1>10, <3>2 DEF TypeOK, Deliver
      <4> QED
        BY <2>1, <4>1, Zenon
    <3> QED
      BY <3>1, <3>2, Zenon
  <2> QED
    BY <2>1, <2>2, <2>3, <2>4, Zenon DEF TcpInv
<1>11. ASSUME NEW y \in Port, NEW z \in Stranger, Visit(y, z) PROVE TcpInv'
  <2>1. /\ links' = links \cup {<<y, z>>} /\ queue' = queue \cup {<<y, z>>} /\ y[1] \notin filtering
        /\ UNCHANGED <<pc, call, thread, peer_data, peer_socket, introduced, filtering>>
    BY <1>11, Zenon DEF Visit
  <2>2. \A s \in links' : s \in introduced \/ (s[2] \in Stranger /\ s[1][1] \notin filtering)
    BY <2>1 DEF TcpInv
  <2> QED
    BY <2>1, <2>2, Zenon DEF TcpInv
<1>12. CASE UNCHANGED vars
  BY <1>12, Zenon DEF TcpInv, vars
<1> QED
  BY <1>1, <1>2, <1>3, <1>4, <1>5, <1>6, <1>7, <1>8, <1>9, <1>10, <1>11, <1>12, Zenon
     DEF Next, Proceed, PairStep, ThreadStep

-----------------------------------------------------------------------------
\* A thread of p that runs is the thread of its present call.
LEMMA OwnThread ==
    ASSUME TypeOK, TcpInv, NEW p \in Process, CallInv(p), NEW x \in Port, x[1] = p,
           thread[x] \notin {"none", "over"}
    PROVE  x = Own(p) /\ x[2] = call[p] /\ x[2] \in 1..MaxCalls
<1>1. x = <<p, x[2]>> /\ x[2] \in 1..MaxCalls
  BY DEF Port
<1>2. call[p] \in 0..MaxCalls /\ ~(x[2] > call[p]) /\ ~(x[2] < call[p])
  BY <1>1 DEF TypeOK, TcpInv, CallInv
<1> QED
  BY <1>1, <1>2, PortAssumption DEF Own

\* What holds of p's call is kept by every step of p's threads, of the other
\* processes, of the server and of TCP.
LEMMA PunchCall ==
    ASSUME TypeOK, TcpInv, NEW p \in Process, CallInv(p), [Next]_vars, Call(p) => ListenersOver(p)
    PROVE  CallInv(p)'
<1> USE PortAssumption DEF mainVars, globals, threadVars, serverVars, tcpVars, GoTo, Socket, Own, PeersSocket
<1>1. ASSUME NEW q \in Process, Call(q) PROVE CallInv(p)'
  <2>1. CASE q = p
    <3>1. /\ call'[p] = call[p] + 1 /\ pc'[p] = "asked" /\ UNCHANGED <<thread, bound, links>>
          /\ accepting_socket'[p] = None /\ ~connection_established'[p]
      BY <1>1, <2>1 DEF TypeOK, Call
    <3>2. \A k \in 1..MaxCalls : /\ thread[<<p, k>>] \in {"none", "over"}
                                 /\ k > call[p] => thread[<<p, k>>] = "none"
      BY <1>1, <2>1, Zenon DEF ListenersOver, TcpInv, Port
    <3> QED
      BY <3>1, <3>2 DEF TypeOK, CallInv
  <2>2. CASE q # p
    BY <1>1, <2>2 DEF TypeOK, CallInv, Call
  <2> QED
    BY <2>1, <2>2
<1>2. ASSUME NEW q \in Process, Reply(q) PROVE CallInv(p)'
  BY <1>2, Zenon DEF CallInv, Reply
<1>3. ASSUME NEW q \in Process, Refuse(q) \/ RecvTimeout(q) PROVE CallInv(p)'
  BY <1>3 DEF TypeOK, CallInv, Refuse, RecvTimeout
<1>4. ASSUME NEW q \in Process, ReceiveOwn(q) PROVE CallInv(p)'
  <2>1. /\ pc[q] = "asked" /\ pc' = [pc EXCEPT ![q] = "waitPeer"]
        /\ thread' = [thread EXCEPT ![Own(q)] = "created"]
        /\ UNCHANGED <<call, peer_data, peer_socket, result, globals, bound, filtering, links>>
    BY <1>4, Zenon DEF ReceiveOwn
  <2>2. \A k \in 1..MaxCalls : thread'[<<p, k>>] = thread[<<p, k>>] \/ (k = call[p] /\ thread'[<<p, k>>] = "created")
    BY <2>1, OwnPort DEF TypeOK, Port
  <2>3. pc'[p] = pc[p] \/ pc'[p] = "waitPeer"
    BY <2>1 DEF TypeOK
  <2>4. \A k \in 1..MaxCalls : /\ k < call[p] => thread'[<<p, k>>] = thread[<<p, k>>]
                               /\ thread'[<<p, k>>] \in {thread[<<p, k>>], "created"}
    BY <2>1, <2>2 DEF TypeOK
  <2> QED
    BY <2>1, <2>3, <2>4, Zenon DEF CallInv
<1>5. ASSUME NEW x \in Port, NEW y \in Port, Introduce(x, y) PROVE CallInv(p)'
  BY <1>5, Zenon DEF CallInv, Introduce
<1>6. ASSUME NEW q \in Process, ReceivePeer(q) PROVE CallInv(p)'
  BY <1>6 DEF TypeOK, CallInv, ReceivePeer
<1>7. ASSUME NEW q \in Process, Loop(q) PROVE CallInv(p)'
  BY <1>7 DEF TypeOK, CallInv, Loop
<1>8. ASSUME NEW q \in Process, Connect(q) PROVE CallInv(p)'
  BY <1>8 DEF TypeOK, CallInv, Connect
<1>9. ASSUME NEW q \in Process, Check(q) PROVE CallInv(p)'
  BY <1>9 DEF TypeOK, TcpInv, CallInv, Check
<1>10. ASSUME NEW q \in Process, Join(q) PROVE CallInv(p)'
  <2>1. CASE q = p
    <3>1. /\ accepting_socket[p] \in links /\ accepting_socket[p][1] = Own(p)
          /\ Socket(p) \in introduced /\ peer_data[p] \in Port /\ Own(p) \in Port
      BY <1>10, <2>1, OwnPort DEF TypeOK, TcpInv, CallInv, Join
    <3>2. PICK y \in Port \cup Stranger : accepting_socket[p] = <<Own(p), y>>
      BY <3>1 DEF TypeOK, Sockets
    <3>3. \/ accepting_socket[p] = Socket(p)
          \/ p \notin filtering /\ accepting_socket[p][2] \in Stranger
      <4>1. CASE accepting_socket[p] \in introduced
        <5>1. y \in Port
          BY <3>2, <4>1 DEF TypeOK
        <5> QED
          BY <3>1, <3>2, <4>1, <5>1 DEF TcpInv
      <4>2. CASE accepting_socket[p] \notin introduced
        BY <3>1, <4>2 DEF TcpInv
      <4> QED
        BY <4>1, <4>2, Zenon
    <3> QED
      BY <1>10, <2>1, <3>1, <3>3 DEF TypeOK, CallInv, Join
  <2>2. CASE q # p
    BY <1>10, <2>2 DEF TypeOK, CallInv, Join
  <2> QED
    BY <2>1, <2>2
<1>11. ASSUME NEW x \in Port, Listen(x) PROVE CallInv(p)'
  BY <1>11 DEF TypeOK, CallInv, Listen, Port
<1>12. ASSUME NEW x \in Port, Accept(x) PROVE CallInv(p)'
  <2>1. PICK s \in queue : /\ s[1] = bound[x]
                          /\ accepting_socket' = [accepting_socket EXCEPT ![x[1]] = s]
    BY <1>12, Zenon DEF Accept
  <2>2. /\ thread[x] = "listening" /\ thread' = [thread EXCEPT ![x] = "accepted"]
        /\ UNCHANGED <<pc, call, peer_data, peer_socket, result, connection_established, bound, filtering, links>>
    BY <1>12, Zenon DEF Accept
  <2>3. s \in Sockets /\ s \in links
    BY <2>1, Zenon DEF TypeOK, TcpInv
  <2>4. CASE x[1] = p
    <3>1. x = Own(p) /\ x[2] = call[p] /\ x[2] \in 1..MaxCalls
      BY <2>2, <2>4, OwnThread, Zenon
    <3>2. s[1] = Own(p)
      <4>1. s[1] \in Port /\ s[1] # None
        BY <2>3 DEF Sockets
      <4>2. bound[<<p, x[2]>>] \in {<<p, x[2]>>, None}
        BY <2>2, <3>1 DEF CallInv
      <4> QED
        BY <2>1, <3>1, <4>1, <4>2
    <3>3. accepting_socket'[p] = s /\ s # None
      BY <2>1, <2>3, <2>4 DEF TypeOK
    <3> QED
      BY <2>2, <2>3, <3>1, <3>2, <3>3 DEF TypeOK, CallInv
  <2>5. CASE x[1] # p
    <3>1. accepting_socket'[p] = accepting_socket[p]
      BY <2>1, <2>5 DEF TypeOK
    <3>2. \A k \in 1..MaxCalls : thread'[<<p, k>>] = thread[<<p, k>>]
      BY <2>2, <2>5 DEF TypeOK, Port
    <3> QED
      BY <2>2, <3>1, <3>2, Zenon DEF CallInv
  <2> QED
    BY <2>4, <2>5, Zenon
<1>13. ASSUME NEW x \in Port, Tell(x) PROVE CallInv(p)'
  <2>1. /\ thread[x] = "accepted" /\ thread' = [thread EXCEPT ![x] = "over"]
        /\ connection_established' = [connection_established EXCEPT ![x[1]] = TRUE]
        /\ UNCHANGED <<pc, call, peer_data, peer_socket, result, accepting_socket, bound, filtering, links>>
    BY <1>13 DEF Tell
  <2>2. CASE x[1] = p
    <3>1. x = Own(p) /\ x[2] = call[p] /\ x[2] \in 1..MaxCalls
      BY <2>1, <2>2, OwnThread, Zenon
    <3> QED
      BY <2>1, <2>2, <3>1 DEF TypeOK, CallInv
  <2>3. CASE x[1] # p
    <3>1. connection_established'[p] = connection_established[p]
      BY <2>1, <2>3, Zenon DEF TypeOK
    <3>2. \A k \in 1..MaxCalls : thread'[<<p, k>>] = thread[<<p, k>>]
      BY <2>1, <2>3 DEF TypeOK, Port
    <3> QED
      BY <2>1, <3>1, <3>2, Zenon DEF CallInv
  <2> QED
    BY <2>2, <2>3, Zenon
<1>14. ASSUME NEW q \in Process, Deliver(q) PROVE CallInv(p)'
  BY <1>14 DEF TypeOK, CallInv, Deliver
<1>15. ASSUME NEW y \in Port, NEW z \in Stranger, Visit(y, z) PROVE CallInv(p)'
  <2>1. links \subseteq links'
    BY <1>15, Zenon DEF Visit
  <2> QED
    BY <1>15, <2>1, Zenon DEF CallInv, Visit
<1>16. CASE UNCHANGED vars
  BY <1>16, Zenon DEF CallInv, vars
<1> QED
  BY <1>1, <1>2, <1>3, <1>4, <1>5, <1>6, <1>7, <1>8, <1>9, <1>10, <1>11, <1>12, <1>13, <1>14, <1>15, <1>16
     DEF Next, Proceed, PairStep, ThreadStep

-----------------------------------------------------------------------------
\* Only a caller begins a call.
LEMMA ProceedKeepsCalls == Proceed \/ UNCHANGED vars => UNCHANGED call
<1>1. ASSUME NEW p \in Process, Reply(p) \/ Refuse(p) \/ ReceiveOwn(p) \/ ReceivePeer(p) \/ RecvTimeout(p)
      PROVE  UNCHANGED call
  BY <1>1, Zenon DEF Reply, Refuse, ReceiveOwn, ReceivePeer, RecvTimeout, mainVars
<1>2. ASSUME NEW p \in Process, PairStep(p) \/ Deliver(p)
      PROVE  UNCHANGED call
  BY <1>2, Zenon DEF PairStep, Loop, Connect, Check, Join, Deliver
<1>3. ASSUME NEW x \in Port, ThreadStep(x) \/ \E y \in Port : Introduce(x, y)
      PROVE  UNCHANGED call
  BY <1>3, Zenon DEF ThreadStep, Listen, Accept, Tell, Introduce, mainVars
<1>4. CASE UNCHANGED vars
  BY <1>4, Zenon DEF vars, mainVars
<1>5. ASSUME NEW y \in Port, NEW z \in Stranger, Visit(y, z)
      PROVE  UNCHANGED call
  BY <1>5, Zenon DEF Visit, mainVars
<1> QED
  BY <1>1, <1>2, <1>3, <1>4, <1>5, Zenon DEF Proceed

\* A process that calls pair() only when the listener threads of its earlier calls
\* are over gets from every call the socket of its peer if its NAT filters, and
\* otherwise that of its peer or of a stranger: both ways in which the connection
\* may come about, in any interleaving with other processes, whose calls need not
\* be so careful, and with any hosts that connect to its listeners.
THEOREM CarefulCallerIsServed ==
    ASSUME NEW p \in Process
    PROVE  Spec /\ [][Call(p) => ListenersOver(p)]_vars => [](pc[p] = "returned" => PeersSocket(p))
<1> DEFINE Inv == TypeOK /\ TcpInv /\ CallInv(p)
<1>1. Init => Inv
  BY PunchInit, Zenon DEF PunchInv
<1>2. Inv /\ [Next]_vars /\ [Call(p) => ListenersOver(p)]_vars => Inv'
  <2> SUFFICES ASSUME Inv, [Next]_vars, [Call(p) => ListenersOver(p)]_vars PROVE Inv'
    OBVIOUS
  <2>1. Call(p) => ListenersOver(p)
    <3>1. ASSUME UNCHANGED vars PROVE ~Call(p)
      BY <3>1, PortAssumption DEF Call, vars, mainVars, TypeOK
    <3> QED
      BY <3>1, Zenon
  <2> QED
    BY <2>1, PunchTypes, PunchTcp, PunchCall, Zenon
<1>3. Inv => (pc[p] = "returned" => PeersSocket(p))
  BY DEF CallInv
<1> QED
  BY <1>1, <1>2, <1>3, PTL DEF Spec

\* PunchInv is an invariant of processes that all call so.
THEOREM PunchInvariant == CleanSpec => []PunchInv
<1>1. PunchInv /\ [CleanNext]_vars => PunchInv'
  <2> SUFFICES ASSUME PunchInv, [CleanNext]_vars PROVE PunchInv'
    OBVIOUS
  <2>1. TypeOK /\ TcpInv /\ [Next]_vars
    BY Zenon DEF PunchInv, CleanNext, Next
  <2>2. ASSUME NEW p \in Process PROVE CallInv(p)'
    <3>1. Call(p) => ListenersOver(p)
      <4>1. ASSUME Call(p), Proceed \/ UNCHANGED vars PROVE FALSE
        BY <2>1, <4>1, ProceedKeepsCalls, PortAssumption DEF Call, TypeOK
      <4>2. ASSUME Call(p), NEW q \in Process, Call(q) PROVE p = q
        BY <2>1, <4>2, PortAssumption DEF Call, TypeOK
      <4> QED
        BY <4>1, <4>2, Zenon DEF CleanNext
    <3> QED
      BY <2>1, <3>1, PunchCall, Zenon DEF PunchInv
  <2> QED
    BY <2>1, <2>2, PunchTypes, PunchTcp, Zenon DEF PunchInv
<1> QED
  BY <1>1, PunchInit, PTL DEF CleanSpec

\* Then every socket that any call of pair() returns is that of its peer, or of a
\* stranger that no NAT kept out.
THEOREM SocketIsRight == CleanSpec => []SocketIsPeers
<1>1. PunchInv => SocketIsPeers
  BY Zenon DEF PunchInv, CallInv, SocketIsPeers
<1> QED
  BY <1>1, PunchInvariant, PTL

\* In particular when every process calls pair() at most once.
THEOREM OneCallIsRight == ASSUME MaxCalls = 1 PROVE Spec => []SocketIsPeers
<1>1. PunchInv /\ [Next]_vars => PunchInv'
  <2> SUFFICES ASSUME PunchInv, [Next]_vars PROVE PunchInv'
    OBVIOUS
  <2>1. TypeOK /\ TcpInv
    BY Zenon DEF PunchInv
  <2>2. ASSUME NEW p \in Process PROVE CallInv(p)'
    <3>1. Call(p) => ListenersOver(p)
      BY <2>1, PortAssumption DEF Call, ListenersOver, TypeOK, TcpInv, Port
    <3> QED
      BY <2>1, <3>1, PunchCall, Zenon DEF PunchInv
  <2> QED
    BY <2>1, <2>2, PunchTypes, PunchTcp, Zenon DEF PunchInv
<1>2. PunchInv => SocketIsPeers
  BY Zenon DEF PunchInv, CallInv, SocketIsPeers
<1> QED
  BY <1>1, <1>2, PunchInit, PTL DEF Spec

=============================================================================
