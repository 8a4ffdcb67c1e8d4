------------------------------ MODULE Session ------------------------------
(***************************************************************************)
(* One client talking to the Rust server over TCP, byte for byte: it sends *)
(* its request, reads the responses, and after a lost connection or a      *)
(* TIMEOUT connects again with the token it was given, after an ERROR with *)
(* none.  The server's side is handle_connection (server.rs) as the client *)
(* sees it: what register() and the timers decide is arbitrary here and    *)
(* the subject of Rendezvous.                                              *)
(*                                                                         *)
(* TCP is external: it delivers the bytes of each direction in order, in   *)
(* pieces of any size, and may break at any time, losing what is in it.    *)
(* The client's loop is not in the code; it is modelled from what          *)
(* protocol.rs and common/utils.h offer to it and from the loop that       *)
(* CLIENT_MIGRATION.md writes out.                                         *)
(***************************************************************************)
EXTENDS Protocol

CONSTANTS
    PairingName,    \* what callers pass as a name
    StoredToken,    \* token texts a C++ caller may start with
    Address,        \* public addresses of clients
    Piece,          \* bound: the sizes of the pieces TCP delivers
    MaxAttempts     \* bound: connections of the client

\* Strings are bytes; a connection comes from an IPv4 or an IPv6 address, and never
\* from port 0.
ASSUME SessionAssumption ==
    /\ \A s \in PairingName \cup StoredToken : s \in Seq(Byte)
    /\ \A a \in Address : a \in [ip : Seq(Byte), port : U16 \ {0}] /\ Len(a.ip) \in {4, 16}
    /\ Piece \subseteq Nat \ {0}
    /\ MaxAttempts \in Nat
    /\ None \notin Address \cup {Unspecified}

VARIABLES
    kind,       \* which of the two client libraries it uses
    name,       \* the name it was called with
    saved,      \* the token it will present: Option<Uuid>, or a std::string
    attempts,   \* connections made so far
    link,       \* the TCP connection: "none", "open", "closed" in order, or "broken"
    addr,       \* its public address
    up, down,   \* bytes on their way to the server and to the client
    buf, rest,  \* bytes the server and the client have read
    task,       \* where handle_connection is
    request,    \* what the server parsed, None before that
    token,      \* the token register() returned
    heard,      \* the responses the client has parsed
    said,       \* history: the responses the server has written
    told        \* history: the token of the last response heard

client == <<kind, name, saved, attempts, rest, heard, told>>
server == <<addr, buf, task, request, token, said>>
vars == <<client, server, link, up, down>>

\* What "no token" is for each library.
NoToken == [k \in {"rust", "cpp"} |-> IF k = "rust" THEN None ELSE <<>>]

Init ==
    /\ kind \in {"rust", "cpp"}
    /\ name \in {n \in PairingName : kind = "rust" => IsUtf8(n)}
    /\ saved \in {NoToken[kind]} \cup (IF kind = "cpp" THEN StoredToken ELSE {})
    /\ attempts = 0
    /\ link = "none" /\ addr = None
    /\ up = <<>> /\ down = <<>> /\ buf = <<>> /\ rest = <<>>
    /\ task = "none" /\ request = None /\ token = None
    /\ heard = <<>> /\ said = <<>> /\ told = None

Final(r) == r.status # "waiting"
LastHeard == heard[Len(heard)]
Finished == heard # <<>> /\ Final(LastHeard)

-----------------------------------------------------------------------------
\* What the client sends, and how it reads a response.
RequestBytes == IF kind = "rust" THEN ClientRequestToBytes(name, saved) ELSE build_client_request(name, saved)
Parsed(data) == IF kind = "rust" THEN ServerResponseFromBytes(data) ELSE parse_server_response(data)

\* The client connects and sends its request.
Connect(a) ==
    /\ link # "open"
    /\ Finished => LastHeard.status # "paired"
    /\ attempts < MaxAttempts
    /\ attempts' = attempts + 1
    /\ link' = "open"
    /\ addr' = a
    /\ up' = RequestBytes
    /\ down' = <<>> /\ buf' = <<>> /\ rest' = <<>>
    /\ task' = "accepted" /\ request' = None /\ token' = None
    /\ heard' = <<>> /\ said' = <<>>
    /\ UNCHANGED <<kind, name, saved, told>>

\* A reader that wants size bytes in all gets at most n more.
Deliver(n, size, stream, read, streamNext, readNext) ==
    LET k == Min({n, size - Len(read), Len(stream)})
    IN  /\ readNext = read \o SubSeq(stream, 1, k)
        /\ streamNext = SubSeq(stream, k + 1, Len(stream))

\* The connection breaks; what its task still does no longer concerns the
\* client.
Break ==
    /\ link = "open"
    /\ link' = "broken"
    /\ up' = <<>> /\ down' = <<>>
    /\ task' = "gone"
    /\ UNCHANGED <<client, addr, buf, request, token, said>>

(***************************************************************************)
(* handle_connection.  A task that is done has returned, which drops the   *)
(* stream: the client can still read what is on its way, then the end.     *)
(***************************************************************************)

Working == {"accepted", "reading", "register", "waiting", "unregister"}

\* register() and unregister() may wait for ever for a lock of the registry's
\* maps; when every worker thread does, no handler goes on, wherever it is.
Hang ==
    /\ task \in Working
    /\ task' = "hung"
    /\ UNCHANGED <<client, link, up, down, addr, buf, request, token, said>>

Write(r, next) ==
    /\ said' = Append(said, r)
    /\ down' = down \o ServerResponseToBytes(r)
    /\ task' = next

\* from_socket_addr: an IPv6 client is answered before its request is read.
Begin ==
    /\ task = "accepted"
    /\ IF from_socket_addr(addr) = None THEN Write(error, "done")
       ELSE task' = "reading" /\ UNCHANGED <<said, down>>
    /\ UNCHANGED <<client, link, up, addr, buf, request, token>>

\* read_exact takes what has arrived, up to the size of a request.
Read(n) ==
    /\ task = "reading"
    /\ up # <<>> /\ Len(buf) < CLIENT_REQUEST_SIZE
    /\ Deliver(n, CLIENT_REQUEST_SIZE, up, buf, up', buf')
    /\ UNCHANGED <<client, link, addr, task, request, token, said, down>>

\* recv_timeout: the connection is closed without a response.
RequestTimeout ==
    /\ task = "reading"
    /\ task' = "done"
    /\ UNCHANGED <<client, link, up, down, addr, buf, request, token, said>>

\* Mutant of Parse: read in place of read_exact.
ParseWhatCame ==
    /\ task = "reading"
    /\ buf # <<>>
    /\ request' = ClientRequestFromBytes(buf)
    /\ IF IsErr(request') THEN Write(error, "done")
       ELSE task' = "register" /\ UNCHANGED <<said, down>>
    /\ UNCHANGED <<client, link, addr, up, buf, token>>

Parse ==
    /\ task = "reading"
    /\ Len(buf) = CLIENT_REQUEST_SIZE
    /\ request' = ClientRequestFromBytes(buf)
    /\ IF IsErr(request') THEN Write(error, "done")
       ELSE task' = "register" /\ UNCHANGED <<said, down>>
    /\ UNCHANGED <<client, link, addr, up, buf, token>>

\* register() returns Paired, Waiting or Resumed, or an error.
RegisterPaired(p, t) ==
    /\ task = "register"
    /\ token' = t
    /\ Write(paired(addr, p, t), "done")
    /\ UNCHANGED <<client, link, addr, up, buf, request>>

RegisterWaiting(t) ==
    /\ task = "register"
    /\ token' = t
    /\ Write(waiting(addr, t), "waiting")
    /\ UNCHANGED <<client, link, addr, up, buf, request>>

RegisterFails ==
    /\ task = "register"
    /\ Write(error, "done")
    /\ UNCHANGED <<client, link, addr, up, buf, request, token>>

\* The peer arrives, or whoever has the other end of the channel drops it.
PeerArrives(p) ==
    /\ task = "waiting"
    /\ Write(paired(addr, p, token), "done")
    /\ UNCHANGED <<client, link, addr, up, buf, request, token>>

SenderDropped ==
    /\ task = "waiting"
    /\ Write(timeout(addr, token), "done")
    /\ UNCHANGED <<client, link, addr, up, buf, request, token>>

\* Mutant of WaitTimesOut: peer_notify is awaited without peer_wait_timeout.
WaitForEver == FALSE

\* peer_wait_timeout: unregister(), then the answer.
WaitTimesOut ==
    /\ task = "waiting"
    /\ task' = "unregister"
    /\ UNCHANGED <<client, link, up, down, addr, buf, request, token, said>>

Unregistered ==
    /\ task = "unregister"
    /\ Write(timeout(addr, token), "done")
    /\ UNCHANGED <<client, link, addr, up, buf, request, token>>

(***************************************************************************)
(* The client reads                                                        *)
(***************************************************************************)

Hear(n) ==
    /\ link = "open"
    /\ down # <<>> /\ Len(rest) < SERVER_RESPONSE_SIZE
    /\ Deliver(n, SERVER_RESPONSE_SIZE, down, rest, down', rest')
    /\ UNCHANGED <<server, link, up, kind, name, saved, attempts, heard, told>>

\* A whole response: keep its token for the next connection, or forget it
\* after an error; after a final response the client closes the connection.
Understand ==
    /\ Len(rest) = SERVER_RESPONSE_SIZE
    /\ LET r == Parsed(rest)
       IN  /\ heard' = Append(heard, r)
           /\ rest' = <<>>
           /\ saved' = IF r.status = "error" THEN NoToken[kind] ELSE r.token
           /\ told' = IF r.status = "error" THEN None ELSE said[Len(heard')].token
           /\ link' = IF Final(r) THEN "closed" ELSE link
    /\ UNCHANGED <<server, up, down, kind, name, attempts>>

\* The end of the stream, in the middle of a read or not.
Eof ==
    /\ link = "open" /\ task = "done"
    /\ down = <<>> /\ Len(rest) < SERVER_RESPONSE_SIZE
    /\ link' = "closed"
    /\ UNCHANGED <<client, server, up, down>>

-----------------------------------------------------------------------------
\* The addresses of the clients that can be registered.
Peers == {a \in Address : from_socket_addr(a) # None}

RegisterReturns ==
    \/ RegisterFails
    \/ \E t \in Uuid \ {Nil} : RegisterWaiting(t) \/ \E p \in Peers : RegisterPaired(p, t)

\* What a task that does not hang does by itself, and what its peers do to it.
HandlerStep == Begin \/ RequestTimeout \/ Parse \/ RegisterReturns \/ WaitTimesOut \/ Unregistered
PeerStep == SenderDropped \/ \E p \in Peers : PeerArrives(p)

ServerReads == \E n \in Piece : Read(n)
ClientReads == (\E n \in Piece : Hear(n)) \/ Understand \/ Eof

\* A client that is paired, or has used up its attempts, stops.
Stopped ==
    /\ link # "open"
    /\ attempts = MaxAttempts \/ (Finished /\ LastHeard.status = "paired")
    /\ UNCHANGED vars

Next ==
    \/ \E a \in Address : Connect(a)
    \/ Break \/ Hang
    \/ HandlerStep \/ PeerStep \/ ServerReads \/ ClientReads
    \/ Stopped

Spec == Init /\ [][Next]_vars

\* The two timers and the rest of handle_connection run unless the task hangs,
\* and the client gets what TCP still has for it.  Nothing makes the request
\* arrive or a peer come.
FairSpec == Spec /\ WF_vars(HandlerStep) /\ WF_vars(ClientReads)

-----------------------------------------------------------------------------
IsPrefix(s, t) == Len(s) <= Len(t) /\ \A i \in 1..Len(s) : s[i] = t[i]

\* from_bytes gives the name the caller meant, as far as the field carries it:
\* all of it, or up to a zero byte or to the last byte but one of the field.
NameArrives ==
    request # None /\ ~IsErr(request) =>
        LET n == Len(request.name)
        IN  /\ IsPrefix(request.name, name)
            /\ n \in {Len(name), MAX_PAIRING_NAME - 1} \/ name[n + 1] = 0

\* Every ERROR has a cause: an address that is not IPv4, a register() that fails,
\* a name that is empty, not UTF-8 or too long for its field, or a token that is
\* no UUID.  Whoever was given a token on this connection is not refused on it.
RefusedForCause ==
    error \in Range(said) =>
        /\ token = None
        /\ heard = <<>> =>
             \/ addr \notin Peers
             \/ request # None /\ ~IsErr(request)
             \/ name = <<>> \/ name[1] = 0 \/ ~IsUtf8(name) \/ Len(name) >= MAX_PAIRING_NAME
             \/ saved \notin Uuid \cup {NoToken[kind]}

\* The token of a response is the token the server finds in the next request:
\* out through to_bytes, in through either client's parser and back, over any
\* number of connections.
TokenComesBack ==
    request # None /\ ~IsErr(request) /\ heard = <<>> /\ told # None => request.token = told

\* However TCP cuts the stream, a client hears what the server has written,
\* response by response; a C++ client sees a missing peer as 0.0.0.0:0.
HeardAsSaid ==
    /\ Len(heard) <= Len(said)
    /\ \A i \in 1..Len(heard) :
         heard[i] = IF kind = "cpp" /\ said[i].peer_info = None
                    THEN [said[i] EXCEPT !.peer_info = Unspecified] ELSE said[i]

\* When the connection ends in order, with a final response or by the server
\* dropping the stream, the client has parsed every response that the server has
\* written, and is not left in the middle of one.
HeardOut == link = "closed" => Len(heard) = Len(said) /\ rest = <<>>

\* Every variable keeps its type; the server writes at most two responses.
Tokens == Uuid \ {Nil}
Responses ==
    {r \in [status : Range(Status), your_info : Peers \cup {Unspecified}, peer_info : Peers \cup {None},
            token : Uuid] : r.status # "error" => r.token # Nil}

TypeOK ==
    /\ kind \in {"rust", "cpp"}
    /\ name \in PairingName
    /\ saved \in {NoToken[kind]} \cup Uuid \cup (IF kind = "cpp" THEN StoredToken ELSE {})
    /\ attempts \in 0..MaxAttempts
    /\ link \in {"none", "open", "closed", "broken"}
    /\ addr \in Address \cup {None}
    /\ \A s \in {up, down, buf, rest} : s \in Seq(Byte)
    /\ task \in Working \cup {"none", "hung", "done", "gone"}
    /\ token \in Tokens \cup {None}
    /\ said \in Seq(Responses) /\ Len(said) <= 2
    /\ heard \in Seq([status : Range(Status), your_info : Peers \cup {Unspecified},
                      peer_info : Peers \cup {Unspecified, None}, token : Uuid])
    /\ told \in Tokens \cup {None}

\* Where handle_connection is, what it has said: it works while the connection
\* lasts, a final response is its last act, and a token rules out an error.
TaskInv ==
    /\ task \in Working \cup {"hung"} => link = "open"
    /\ task \in {"none", "accepted", "reading", "register"} => said = <<>> /\ token = None
    /\ task = "accepted" => addr \in Address
    /\ task \in Working \ {"accepted"} => addr \in Peers
    /\ task \in {"waiting", "unregister"} => Len(said) = 1 /\ token # None
    /\ task = "register" \/ said # <<>> => request # None \/ addr \notin Peers
    /\ \A i \in 1..Len(said) :
         /\ Final(said[i]) => i = Len(said) /\ task \in {"done", "gone"}
         /\ said[i].status = "error" => token = None

\* Until it is parsed, the request is the bytes the server has and those on the
\* way; then, until a response changes the token, it is what they mean.
RequestInv ==
    /\ task \in {"accepted", "reading"} => buf \o up = RequestBytes /\ request = None
    /\ request # None /\ heard = <<>> => request = ClientRequestFromBytes(RequestBytes)

\* The responses the server has written and the client has not parsed, as bytes.
Unheard ==
    LET n == Len(said) - Len(heard)
    IN  IF n = 0 THEN <<>>
        ELSE IF n = 1 THEN ServerResponseToBytes(said[Len(said)])
        ELSE ServerResponseToBytes(said[1]) \o ServerResponseToBytes(said[2])

\* The client has got, or will get, those bytes, all of them or, when the
\* connection has broken, the first ones.
ResponseInv ==
    /\ Len(rest) <= SERVER_RESPONSE_SIZE
    /\ IsPrefix(rest \o down, Unheard)
    /\ link \in {"open", "closed"} => rest \o down = Unheard

\* The inductive invariant behind the properties above.
SessionInv ==
    /\ TypeOK /\ TaskInv /\ RequestInv /\ ResponseInv
    /\ NameArrives /\ HeardAsSaid /\ HeardOut
    /\ told # None => saved = told

\* Whoever connects hears a final response or sees the connection end, though the
\* request may never arrive and no peer come: recv_timeout, peer_wait_timeout and
\* the drop of the stream see to it, unless the task hangs.
SessionEnds == link = "open" ~> (link # "open" \/ task = "hung")

=============================================================================
