------------------------------ MODULE Protocol ------------------------------
(***************************************************************************)
(* The messages between clients and the Rust server as the bytes they are: *)
(* server/rust/src/protocol.rs, and the C++ side of the same format in     *)
(* common/utils.h.  The two field sizes are parameters.  A name is a       *)
(* sequence of bytes; a UUID is its text, which fills its field up to the  *)
(* terminating zero.                                                       *)
(***************************************************************************)
EXTENDS Integers, Sequences, FiniteSetsExt, Functions

CONSTANTS
    MAX_PAIRING_NAME,   \* size of the name field, terminator included
    TOKEN_LENGTH,       \* size of the token field, terminator included
    Uuid,               \* the texts of the UUIDs
    Nil,                \* Uuid::nil()
    None                \* Option::None

Byte == 0..255
Ascii == 1..127     \* without the terminator
U16 == {n \in Nat : n < 256 * 256}

ASSUME ProtocolAssumption ==
    /\ MAX_PAIRING_NAME \in Nat \ {0}
    /\ TOKEN_LENGTH \in Nat \ {0}
    /\ Nil \in Uuid
    /\ \A u \in Uuid : u \in Seq(Ascii) /\ Len(u) = TOKEN_LENGTH - 1
    /\ None \notin Uuid
    /\ None \notin [name : Seq(Byte), token : Uuid \cup {None}]
    /\ None \notin [error : {"InvalidLength", "InvalidUtf8", "EmptyPairingName", "InvalidToken"}]

CLIENT_REQUEST_SIZE == MAX_PAIRING_NAME + TOKEN_LENGTH + 4


SERVER_RESPONSE_SIZE == 1 + 4 + 2 + 4 + 2 + TOKEN_LENGTH

\* ProtocolError
Err(e) == [error |-> e]
IsErr(r) == DOMAIN r = {"error"}

-----------------------------------------------------------------------------
(***************************************************************************)
(* String fields                                                           *)
(***************************************************************************)

\* Mutant of Field: a name may fill the field and overwrite its terminator.
FieldUnterminated(s, n) == [i \in 1..n |-> IF i <= Len(s) THEN s[i] ELSE 0]

\* s copied into n zeroed bytes, cut to leave the last one zero.
Field(s, n) == [i \in 1..n |-> IF i <= Len(s) /\ i < n THEN s[i] ELSE 0]

\* The bytes before the first zero, or all of them.
Terminated(f) ==
    LET zeros == {i \in 1..Len(f) : f[i] = 0}
    IN  IF zeros = {} THEN f ELSE SubSeq(f, 1, Min(zeros) - 1)

\* String::from_utf8.  Lead[k] are the first bytes of the characters of more than
\* k bytes; Unused are the first two bytes of longer forms than a character needs,
\* of surrogates, and of what lies beyond the last character.
Lead == <<194..244, 224..244, 240..244>>
Continuation == 128..191
Unused ==
    ({224} \X (128..159)) \cup ({237} \X (160..191)) \cup ({240} \X (128..143)) \cup ({244} \X (144..191))

\* A continuation byte is where a first byte before it wants one, and only there.
IsUtf8(s) ==
    LET Continues(i) == i <= Len(s) /\ s[i] \in Continuation
        Wanted(i) == \E k \in 1..3 : i > k /\ s[i - k] \in Lead[k]
    IN  /\ \A i \in 1..Len(s) + 1 : Continues(i) <=> Wanted(i)
        /\ \A i \in 1..Len(s) : s[i] \in {0} \cup Ascii \cup Lead[1] \cup Continuation
        /\ \A i \in 2..Len(s) : <<s[i - 1], s[i]>> \notin Unused

-----------------------------------------------------------------------------
(***************************************************************************)
(* ClientRequest                                                           *)
(***************************************************************************)

\* Written by a Rust client: the token is an Option<Uuid>.
ClientRequestToBytes(name, token) ==
    Field(name, MAX_PAIRING_NAME)
        \o Field(IF token = None THEN <<>> ELSE token, TOKEN_LENGTH) \o <<0, 0, 0, 0>>

\* Written by a C++ client: name and token are any std::string.
build_client_request(name, token) ==
    Field(name, MAX_PAIRING_NAME) \o Field(token, TOKEN_LENGTH) \o <<0, 0, 0, 0>>

\* Mutant of ClientRequestFromBytes: the token is looked for one byte early.
ClientRequestFromBytesShifted(data) ==
    LET name == Terminated(SubSeq(data, 1, MAX_PAIRING_NAME))
        text == Terminated(SubSeq(data, MAX_PAIRING_NAME, MAX_PAIRING_NAME + TOKEN_LENGTH - 1))
    IN  IF ~IsUtf8(name) \/ name = <<>> THEN Err("EmptyPairingName")
        ELSE [name |-> name, token |-> IF text = <<>> THEN None ELSE text]

\* Mutant of ClientRequestFromBytes: a name that fills its field is refused.
ClientRequestFromBytesStrict(data) ==
    LET name == Terminated(SubSeq(data, 1, MAX_PAIRING_NAME))
    IN  IF ~IsUtf8(name) \/ Len(name) >= MAX_PAIRING_NAME - 1 THEN Err("InvalidUtf8")
        ELSE [name |-> name, token |-> None]

ClientRequestFromBytes(data) ==
    LET name == Terminated(SubSeq(data, 1, MAX_PAIRING_NAME))
        text == Terminated(SubSeq(data, MAX_PAIRING_NAME + 1, MAX_PAIRING_NAME + TOKEN_LENGTH))
    IN  IF Len(data) < CLIENT_REQUEST_SIZE THEN Err("InvalidLength")
        ELSE IF ~IsUtf8(name) THEN Err("InvalidUtf8")
        ELSE IF name = <<>> THEN Err("EmptyPairingName")
        ELSE IF ~IsUtf8(text) THEN Err("InvalidUtf8")
        ELSE IF text \notin Uuid \cup {<<>>} THEN Err("InvalidToken")
        ELSE [name |-> name, token |-> IF text = <<>> THEN None ELSE text]

-----------------------------------------------------------------------------
(***************************************************************************)
(* ServerResponse                                                          *)
(***************************************************************************)

\* PairingStatus as u8, and From<u8>.
Status == <<"waiting", "paired", "timeout", "error">>
Code(s) == (CHOOSE i \in DOMAIN Status : Status[i] = s) - 1
StatusFrom(b) == IF b <= 2 THEN Status[b + 1] ELSE "error"

\* PeerConnectionData: four octets and a port.  A SocketAddr may have sixteen.
from_socket_addr(a) == IF Len(a.ip) = 4 THEN a ELSE None    \* no IPv6

Unspecified == [ip |-> <<0, 0, 0, 0>>, port |-> 0]

Response(status, your, peer, token) ==
    [status |-> status, your_info |-> your, peer_info |-> peer, token |-> token]

waiting(your, token) == Response("waiting", your, None, token)
paired(your, peer, token) == Response("paired", your, peer, token)
timeout(your, token) == Response("timeout", your, None, token)
error == Response("error", Unspecified, None, Nil)

\* Network byte order.
AddressBytes(a) == a.ip \o <<a.port \div 256, a.port % 256>>

\* Mutant of AddressAt: the port in the byte order of the host.
AddressAtSwapped(data, i) == [ip |-> SubSeq(data, i, i + 3), port |-> data[i + 4] + 256 * data[i + 5]]

AddressAt(data, i) == [ip |-> SubSeq(data, i, i + 3), port |-> 256 * data[i + 4] + data[i + 5]]

ServerResponseToBytes(r) ==
    <<Code(r.status)>> \o AddressBytes(r.your_info)
        \o AddressBytes(IF r.peer_info = None THEN Unspecified ELSE r.peer_info)
        \o Field(r.token, TOKEN_LENGTH)

TokenText(data) == Terminated(SubSeq(data, 14, 13 + TOKEN_LENGTH))

ServerResponseFromBytes(data) ==
    LET peer == AddressAt(data, 8)
        text == TokenText(data)
    IN  IF Len(data) < SERVER_RESPONSE_SIZE THEN Err("InvalidLength")
        ELSE IF ~IsUtf8(text) THEN Err("InvalidUtf8")
        ELSE IF text \notin Uuid \cup {<<>>} THEN Err("InvalidToken")
        ELSE Response(StatusFrom(data[1]), AddressAt(data, 2),
                      IF peer = Unspecified THEN None ELSE peer,
                      IF text = <<>> THEN Nil ELSE text)

\* The C++ client gets the peer's fields as they are and the token as text; the
\* cast of the status is only defined for the four codes.
parse_server_response(data) ==
    IF Len(data) < SERVER_RESPONSE_SIZE THEN Err("InvalidLength")
    ELSE Response(Status[data[1] + 1], AddressAt(data, 2), AddressAt(data, 8), TokenText(data))

=============================================================================
