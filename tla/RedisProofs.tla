---------------------------- MODULE RedisProofs ----------------------------
(***************************************************************************)
(* For any connections, names and servers, whichever Redis commands fail,  *)
(* whichever keys expire and whichever servers crash: no client's address  *)
(* is handed to two others, and every variable keeps its type.             *)
(***************************************************************************)
EXTENDS RedisRendezvous, TLAPS

\* The types the argument about matching needs; what the token keys and ttl hold
\* plays no part in it.
StoreTypes ==
    /\ store \in [Keys -> Waiting \cup Name \cup {None}]
    /\ \A n \in Name : store[n] \in Waiting \cup {None}

RedisTypes ==
    /\ local \in [Server -> [Name -> Conn \cup {None}]]
    /\ home \in [Conn -> Server]
    /\ entry \in [Conn -> Waiting \cup {None}]
    /\ pc \in [Conn -> PCs]
    /\ name \in [Conn -> Name \cup {None}]
    /\ presented \in [Conn -> Conn \cup {None}]
    /\ peer \in [Conn -> Conn \cup {None}]
    /\ inbox \in [Conn -> Conn \cup {None}]
    /\ token \in [Conn -> Conn \cup {None}]

\* A task inside register() knows the name, and the token it looks up or the
\* registration it has taken.
InCall ==
    \A c \in Conn :
        /\ pc[c] \in {"lookup", "resume", "relocal", "claim", "untoken", "notify",
                      "insert", "intoken", "inlocal"} => name[c] \in Name
        /\ pc[c] \in {"lookup", "resume", "relocal"} => presented[c] \in Conn
        /\ pc[c] \in {"untoken", "notify"} => entry[c] # None

RedisIInv == StoreTypes /\ RedisTypes /\ InCall /\ RedisMatchInv

-----------------------------------------------------------------------------
LEMMA RedisInit == Init => RedisIInv
<1> SUFFICES ASSUME Init PROVE RedisIInv
  OBVIOUS
<1> USE KeysAssumption DEF Init, HandlerInit, RegistryInit
<1>1. StoreTypes /\ RedisTypes
  BY DEF StoreTypes, RedisTypes, Keys, PCs
<1>2. InCall
  BY DEF InCall
<1>3. RedisMatchInv
  BY DEF RedisMatchInv, MatchedOnce, Keys
<1> QED
  BY <1>1, <1>2, <1>3 DEF RedisIInv

\* The steps of handle_connection() keep the types.
LEMMA HandlerTypes ==
    ASSUME RedisTypes, InCall, UNCHANGED registryVars, NEW c \in Conn,
           Start(c) \/ HandlerStep(c, SenderAlive(c))
    PROVE  RedisTypes' /\ InCall'
<1> USE KeysAssumption DEF RedisTypes, InCall, PCs, GoTo, registryVars, handlerVars
<1>1. CASE Start(c)
  BY <1>1 DEF Start
<1>2. ASSUME NEW n \in Name, NEW t \in IssuedTokens \cup {None}, Receive(c, n, t)
      PROVE  RedisTypes' /\ InCall'
  <2>1. t \in Conn \cup {None}
    BY DEF IssuedTokens
  <2> QED
    BY <1>2, <2>1 DEF Receive
<1>3. CASE BadRequest(c)
  BY <1>3 DEF BadRequest
<1>4. CASE Greet(c)
  BY <1>4 DEF Greet
<1>5. CASE Notified(c)
  BY <1>5 DEF Notified
<1>6. CASE SenderDropped(c)
  BY <1>6 DEF SenderDropped
<1>7. CASE WaitTimeout(c)
  BY <1>7 DEF WaitTimeout
<1>8. CASE \E m : Return(c, m)
  BY <1>8 DEF Return
<1>9. CASE ReadError(c) \/ RequestTimeout(c) \/ WriteFails(c)
  BY <1>8, <1>9, Zenon DEF ReadError, RequestTimeout, WriteFails
<1>10. CASE ReplyPaired(c) \/ ReplyTimeout(c) \/ ReplyError(c)
  BY <1>8, <1>10, Zenon DEF ReplyPaired, ReplyTimeout, ReplyError
<1> HIDE DEF RedisTypes, InCall, registryVars, handlerVars
<1> QED
  BY <1>1, <1>2, <1>3, <1>4, <1>5, <1>6, <1>7, <1>9, <1>10, Zenon DEF HandlerStep

\* What the commands of register() and unregister() do outside Redis keeps the
\* types.
LEMMA RegistryTypes ==
    ASSUME StoreTypes, RedisTypes, InCall, UNCHANGED handlerVars, NEW c \in Conn, RegistryStep(c)
    PROVE  RedisTypes' /\ InCall'
<1> USE KeysAssumption DEF RedisTypes, InCall, PCs, GoTo, handlerVars, Answer
<1>1. CASE Lookup(c)
  BY <1>1 DEF Lookup, registryVars
<1>2. CASE ClaimMiss(c)
  BY <1>2 DEF ClaimMiss, registryVars
<1>3. CASE RegisterFails(c)
  BY <1>3 DEF RegisterFails, registryVars
<1>4. CASE Resume(c)
  <2>1. \E l \in {"relocal", "reject"} : pc' = [pc EXCEPT ![c] = l]
    BY <1>4, Zenon DEF Resume
  <2>2. pc[c] = "resume" /\ UNCHANGED <<local, home, entry, name, presented, token, peer, inbox>>
    BY <1>4, Zenon DEF Resume
  <2>3. RedisTypes'
    BY <2>1, <2>2
  <2>4. InCall'
    BY <2>1, <2>2
  <2> QED
    BY <2>3, <2>4, Zenon
<1>5. CASE AddLocal(c)
  BY <1>5 DEF AddLocal
<1>6. CASE Claim(c)
  <2>1. store[name[c]] \in Waiting /\ store[name[c]].info \in Conn
    BY <1>6, Zenon DEF Claim, StoreTypes, Waiting
  <2>2. CASE GoTo(c, "untoken") /\ entry' = [entry EXCEPT ![c] = store[name[c]]]
             /\ peer' = [peer EXCEPT ![c] = store[name[c]].info]
    BY <1>6, <2>1, <2>2 DEF Claim
  <2>3. CASE GoTo(c, "reject") /\ UNCHANGED <<entry, peer>>
    BY <1>6, <2>3 DEF Claim
  <2> QED
    BY <1>6, <2>2, <2>3, Zenon DEF Claim
<1>7. CASE ForgetPeerToken(c)
  BY <1>7 DEF ForgetPeerToken
<1>8. CASE Notify(c)
  BY <1>8 DEF Notify
<1>9. CASE Publish(c)
  <2>1. entry' \in [Conn -> Waiting \cup {None}] /\ token' \in [Conn -> Conn \cup {None}]
    BY <1>9, Zenon DEF Publish
  <2>2. \A d \in Conn : d # c => entry'[d] = entry[d]
    BY <1>9 DEF Publish
  <2>3. \E l \in {"paired", "reject"} : pc' = [pc EXCEPT ![c] = l]
    BY <1>9, Zenon DEF Publish
  <2>4. UNCHANGED <<local, home, name, presented, peer, inbox>>
    BY <1>9, Zenon DEF Publish
  <2>5. RedisTypes'
    BY <2>1, <2>3, <2>4
  <2>6. InCall'
    BY <2>2, <2>3, <2>4
  <2> QED
    BY <2>5, <2>6, Zenon
<1>10. CASE Insert(c)
  <2>1. CASE GoTo(c, "intoken")
    BY <1>10, <2>1 DEF Insert
  <2>2. CASE GoTo(c, "reject")
    BY <1>10, <2>2 DEF Insert
  <2> QED
    BY <1>10, <2>1, <2>2, Zenon DEF Insert
<1>11. CASE InsertToken(c)
  BY <1>11 DEF InsertToken
<1>12. CASE Unregister(c)
  BY <1>12 DEF Unregister
<1>13. CASE UnregisterFails(c)
  BY <1>13 DEF UnregisterFails, registryVars
<1>14. CASE UnregisterLocal(c)
  BY <1>14, Zenon DEF UnregisterLocal
<1> HIDE DEF RedisTypes, InCall, handlerVars
<1> QED
  BY <1>1, <1>2, <1>3, <1>4, <1>5, <1>6, <1>7, <1>8, <1>9, <1>10, <1>11, <1>12, <1>13, <1>14, Zenon
     DEF RegistryStep

\* A Redis command removes keys, or sets a pairing key to the registration of the
\* task's own client, or a token key.
LEMMA StoreStep ==
    ASSUME StoreTypes, RedisTypes, InCall, NEW c \in Conn, RegistryStep(c)
    PROVE  /\ StoreTypes'
           /\ \A n \in Name : \/ store'[n] \in {store[n], None}
                              \/ /\ Resume(c) \/ Insert(c)
                                 /\ n = name[c] /\ store'[n].info = c
<1> USE KeysAssumption DEF StoreTypes, Keys
<1>1. CASE Lookup(c) \/ AddLocal(c) \/ ClaimMiss(c) \/ Notify(c) \/ Publish(c)
           \/ RegisterFails(c) \/ UnregisterFails(c) \/ UnregisterLocal(c)
  <2>1. store' = store
    BY <1>1, Zenon DEF Lookup, AddLocal, ClaimMiss, Notify, Publish, RegisterFails, UnregisterFails,
                UnregisterLocal, registryVars, redisVars
  <2> QED
    BY <2>1, Zenon
<1>2. CASE \E K : Del(K)
  BY <1>2 DEF Del
<1>3. CASE Claim(c) \/ ForgetPeerToken(c) \/ Unregister(c)
  BY <1>2, <1>3, Zenon DEF Claim, ForgetPeerToken, Unregister
<1>4. CASE Resume(c)
  <2>1. [info |-> c, token |-> presented[c], server |-> home[c]] \in Waiting /\ name[c] \in Name
    BY <1>4, Zenon DEF Resume, Waiting, RedisTypes, InCall
  <2> QED
    BY <1>4, <2>1, Zenon DEF Resume, SetEx
<1>5. CASE Insert(c)
  <2>1. [info |-> c, token |-> c, server |-> home[c]] \in Waiting /\ name[c] \in Name
    BY <1>5 DEF Insert, Waiting, RedisTypes, InCall
  <2> QED
    BY <1>5, <2>1 DEF Insert, SetEx
<1>6. CASE InsertToken(c)
  <2>1. name[c] \in Name /\ c \notin Name
    BY <1>6, Zenon DEF InsertToken, InCall
  <2> QED
    BY <1>6, <2>1, Zenon DEF InsertToken, SetEx
<1> QED
  BY <1>1, <1>3, <1>4, <1>5, <1>6, Zenon DEF RegistryStep

\* Expiry, the cleanup tasks and crashes keep the types; they set no key, and
\* bring no task back into register().
LEMMA SystemStep ==
    ASSUME StoreTypes, RedisTypes, InCall,
           \/ Expire \/ (\E s \in Server : SweepStep(s) \/ Crash(s)) \/ UNCHANGED vars
    PROVE  /\ StoreTypes' /\ RedisTypes' /\ InCall'
           /\ \A n \in Name : store'[n] \in {store[n], None}
           /\ \A d \in Conn : pc'[d] \in {pc[d], "lost"}
           /\ UNCHANGED <<name, peer, inbox>>
<1> USE KeysAssumption
<1>1. CASE Expire
  <2>1. PICK k : Del({k}) /\ UNCHANGED <<local, home, entry, callVars>>
    BY <1>1, Zenon DEF Expire
  <2>2. StoreTypes' /\ \A n \in Name : store'[n] \in {store[n], None}
    BY <2>1 DEF Del, Keys, StoreTypes
  <2> QED
    BY <2>1, <2>2, Zenon DEF callVars, RedisTypes, InCall
<1>2. ASSUME NEW s \in Server, SweepStep(s)
      PROVE  /\ StoreTypes' /\ RedisTypes' /\ InCall'
             /\ UNCHANGED <<store, pc, name, peer, inbox>>
  <2>1. UNCHANGED <<store, home, entry, callVars>>
    BY <1>2, Zenon DEF SweepStep, Sweep, SweepBegin, SweepCheck, SweepDrop, redisVars
  <2>2. local' \in [Server -> [Name -> Conn \cup {None}]]
    <3>1. CASE SweepDrop(s)
      BY <3>1, Zenon DEF SweepDrop, RedisTypes
    <3>2. CASE ~SweepDrop(s)
      BY <1>2, <3>2, Zenon DEF SweepStep, Sweep, SweepBegin, SweepCheck, RedisTypes
    <3> QED
      BY <3>1, <3>2, Zenon
  <2> QED
    BY <2>1, <2>2, Zenon DEF callVars, StoreTypes, RedisTypes, InCall
<1>3. CASE \E s \in Server : Crash(s)
  BY <1>3 DEF Crash, redisVars, PCs, StoreTypes, RedisTypes, InCall
<1>4. CASE UNCHANGED vars
  BY <1>4, Zenon DEF vars, registryVars, callVars, StoreTypes, RedisTypes, InCall
<1> QED
  BY <1>1, <1>2, <1>3, <1>4, Zenon

-----------------------------------------------------------------------------
\* A step that sets no pairing key, gives out no address, and moves no task back
\* into register() or into the role of one that has taken a registration.
Quiet ==
    /\ \A n \in Name : store'[n] \in {store[n], None}
    /\ UNCHANGED <<peer, inbox>>
    /\ \A d \in Conn : Offered(d) => Offered(d)' /\ name'[d] = name[d]

LEMMA QuietStep == StoreTypes /\ RedisTypes /\ RedisMatchInv /\ Quiet => RedisMatchInv'
<1> SUFFICES ASSUME StoreTypes, RedisTypes, RedisMatchInv, Quiet PROVE RedisMatchInv'
  OBVIOUS
<1>1. /\ \A n \in Name : store[n] # None => store[n].info \in Conn
      /\ peer \in [Conn -> Conn \cup {None}] /\ inbox \in [Conn -> Conn \cup {None}]
  BY DEF StoreTypes, RedisTypes, Waiting
<1> QED
  BY <1>1, KeysAssumption DEF RedisMatchInv, Quiet, MatchedOnce

\* The steps of handle_connection(): only Notified gives out an address.
LEMMA HandlerMatch ==
    ASSUME StoreTypes, RedisTypes, InCall, RedisMatchInv, UNCHANGED registryVars, NEW c \in Conn,
           Start(c) \/ HandlerStep(c, SenderAlive(c))
    PROVE  RedisMatchInv'
<1> USE KeysAssumption
<1>1. CASE Notified(c)
  <2>1. /\ UNCHANGED <<store, name, inbox>> /\ inbox[c] # None
        /\ peer' = [peer EXCEPT ![c] = inbox[c]]
        /\ \A d \in Conn : Offered(d) => Offered(d)'
    BY <1>1, Zenon DEF Notified, registryVars, Offered, BeforeOffer, Claiming, GoTo, RedisTypes
  <2>2. /\ \A n \in Name : store[n] # None => store[n].info \in Conn
        /\ peer \in [Conn -> Conn \cup {None}] /\ inbox \in [Conn -> Conn \cup {None}]
    BY Zenon DEF StoreTypes, RedisTypes, Waiting
  <2> QED
    BY <2>1, <2>2 DEF RedisMatchInv, MatchedOnce
<1>2. CASE ~Notified(c)
  <2>1. UNCHANGED <<store, peer, inbox>>
    BY <1>2, Zenon DEF HandlerStep, Start, Receive, BadRequest, ReadError, RequestTimeout, Greet,
           SenderDropped, WaitTimeout, ReplyPaired, ReplyTimeout, ReplyError, WriteFails, Return,
           registryVars
  <2>2. \A d \in Conn : Offered(d) => Offered(d)' /\ name'[d] = name[d]
    <3> USE DEF Offered, BeforeOffer, Claiming, GoTo, RedisTypes
    <3>1. CASE Start(c)
      BY <3>1 DEF Start
    <3>2. CASE \E n \in Name, t \in IssuedTokens \cup {None} : Receive(c, n, t)
      BY <3>2 DEF Receive
    <3>3. CASE BadRequest(c) \/ Greet(c) \/ SenderDropped(c) \/ WaitTimeout(c)
      BY <3>3 DEF BadRequest, Greet, SenderDropped, WaitTimeout
    <3>4. CASE \E m : Return(c, m)
      BY <3>4 DEF Return
    <3> QED
      BY <1>2, <3>1, <3>2, <3>3, <3>4
         DEF HandlerStep, ReadError, RequestTimeout, ReplyPaired, ReplyTimeout, ReplyError, WriteFails
  <2>3. Quiet
    BY <2>1, <2>2 DEF Quiet
  <2> QED
    BY <2>3, QuietStep, Zenon
<1> QED
  BY <1>1, <1>2, Zenon

\* The commands of register() and unregister().
LEMMA RegistryMatch ==
    ASSUME StoreTypes, RedisTypes, InCall, RedisMatchInv, NEW c \in Conn, RegistryStep(c)
    PROVE  RedisMatchInv'
<1> USE KeysAssumption
<1>t. /\ \A n \in Name : store[n] # None => store[n].info \in Conn
      /\ peer \in [Conn -> Conn \cup {None}] /\ inbox \in [Conn -> Conn \cup {None}]
  BY Zenon DEF StoreTypes, RedisTypes, Waiting
<1>1. CASE Resume(c) \/ Insert(c)
  <2>1. /\ pc[c] \in {"resume", "insert"} /\ UNCHANGED <<name, peer, inbox>>
        /\ Offered(c)' /\ \A d \in Conn : Offered(d) => Offered(d)'
    BY <1>1 DEF Resume, Insert, Answer, GoTo, Offered, BeforeOffer, Claiming, RedisTypes
  <2>2. ~Offered(c) /\ name[c] \in Name
    BY <2>1, Zenon DEF Offered, BeforeOffer, InCall
  <2>3. \A n \in Name : \/ store'[n] \in {store[n], None}
                        \/ n = name[c] /\ store'[n].info = c
    BY StoreStep, Zenon
  <2> QED
    BY <1>t, <2>1, <2>2, <2>3 DEF RedisMatchInv, MatchedOnce
<1>2. CASE Claim(c)
  <2>1. /\ pc[c] = "claim" /\ name[c] \in Name /\ store[name[c]] # None
        /\ UNCHANGED <<name, inbox>>
        /\ \A n \in Name : store'[n] = IF n = name[c] THEN None ELSE store[n]
    BY <1>2, Zenon DEF Claim, InCall, Del, Keys
  <2>2. \A d \in Conn : Offered(d) => Offered(d)'
    BY <1>2 DEF Claim, GoTo, Offered, BeforeOffer, Claiming, RedisTypes
  <2>3. peer' = [peer EXCEPT ![c] = store[name[c]].info] \/ peer' = peer
    BY <1>2, Zenon DEF Claim
  <2> QED
    BY <1>t, <2>1, <2>2, <2>3 DEF RedisMatchInv, MatchedOnce
<1>3. CASE Notify(c)
  <2>1. /\ pc[c] = "notify" /\ UNCHANGED <<name, peer, store>>
        /\ Offered(c)' /\ \A d \in Conn : Offered(d) => Offered(d)'
    BY <1>3 DEF Notify, GoTo, Offered, BeforeOffer, Claiming, RedisTypes, redisVars
  <2>2. ~Offered(c)
    BY <2>1, Zenon DEF Offered, Claiming
  <2>3. inbox' = inbox \/ \E w \in Conn : inbox' = [inbox EXCEPT ![w] = c]
    <3>1. local[home[c]][name[c]] \in Conn \cup {None}
      BY <2>1 DEF RedisTypes, InCall
    <3> QED
      BY <1>3, <3>1, Zenon DEF Notify
  <2> QED
    BY <1>t, <2>1, <2>2, <2>3 DEF RedisMatchInv, MatchedOnce
<1>4. CASE ~(Resume(c) \/ Insert(c) \/ Claim(c) \/ Notify(c))
  <2>1. UNCHANGED <<name, peer, inbox>>
    BY <1>4, Zenon DEF RegistryStep, Lookup, AddLocal, ClaimMiss, ForgetPeerToken, Publish, InsertToken,
                RegisterFails, Unregister, UnregisterFails, UnregisterLocal
  <2>2. \A d \in Conn : Offered(d) => Offered(d)'
    <3>1. CASE Lookup(c) \/ ClaimMiss(c) \/ ForgetPeerToken(c)
      BY <3>1 DEF Lookup, ClaimMiss, ForgetPeerToken, Answer, GoTo, Offered, BeforeOffer, Claiming, RedisTypes
    <3>2. CASE AddLocal(c) \/ Publish(c) \/ InsertToken(c) \/ RegisterFails(c)
               \/ Unregister(c) \/ UnregisterFails(c) \/ UnregisterLocal(c)
      BY <3>2 DEF AddLocal, Publish, InsertToken, RegisterFails, Unregister, UnregisterFails,
                  UnregisterLocal, Answer, GoTo, Offered, BeforeOffer, Claiming, RedisTypes
    <3> QED
      BY <1>4, <3>1, <3>2, Zenon DEF RegistryStep
  <2>3. \A n \in Name : store'[n] \in {store[n], None}
    BY <1>4, StoreStep
  <2>4. Quiet
    BY <2>1, <2>2, <2>3 DEF Quiet
  <2> QED
    BY <2>4, QuietStep
<1> QED
  BY <1>1, <1>2, <1>3, <1>4

\* Redis, its commands, the tasks, the cleanup tasks and the crashes preserve
\* the invariant.
LEMMA RedisStep == RedisIInv /\ [Next]_vars => RedisIInv'
<1> SUFFICES ASSUME StoreTypes, RedisTypes, InCall, RedisMatchInv, [Next]_vars
             PROVE  StoreTypes' /\ RedisTypes' /\ InCall' /\ RedisMatchInv'
  BY Zenon DEF RedisIInv
<1>1. ASSUME NEW c \in Conn, UNCHANGED registryVars, Start(c) \/ HandlerStep(c, SenderAlive(c))
      PROVE  StoreTypes' /\ RedisTypes' /\ InCall' /\ RedisMatchInv'
  <2>1. StoreTypes'
    BY <1>1 DEF StoreTypes, registryVars
  <2> QED
    BY <1>1, <2>1, HandlerTypes, HandlerMatch, Zenon
<1>2. ASSUME NEW c \in Conn, RegistryStep(c), UNCHANGED handlerVars
      PROVE  StoreTypes' /\ RedisTypes' /\ InCall' /\ RedisMatchInv'
  BY <1>2, StoreStep, RegistryTypes, RegistryMatch, Zenon
<1>3. CASE Expire \/ (\E s \in Server : SweepStep(s) \/ Crash(s)) \/ UNCHANGED vars
  <2>1. /\ StoreTypes' /\ RedisTypes' /\ InCall'
        /\ \A n \in Name : store'[n] \in {store[n], None}
        /\ \A d \in Conn : pc'[d] \in {pc[d], "lost"}
        /\ UNCHANGED <<name, peer, inbox>>
    BY <1>3, SystemStep
  <2>2. Quiet
    BY <2>1, Zenon DEF Quiet, Offered, BeforeOffer, Claiming
  <2> QED
    BY <2>1, <2>2, QuietStep, Zenon
<1> QED
  BY <1>1, <1>2, <1>3, Zenon DEF Next, Accept, TaskStep

\* RedisMatchInv is an invariant of any number of servers on one Redis.
THEOREM RedisMatching == Spec => []RedisMatchInv
<1>1. RedisIInv => RedisMatchInv
  BY DEF RedisIInv
<1> QED
  BY <1>1, RedisInit, RedisStep, PTL DEF Spec

\* With Redis, too, no client's address is handed to two connections, although
\* registrations are taken by other servers, are replaced by a resume, expire, or
\* lose their server, and commands fail half-way.
THEOREM RedisClientsAreMatchedOnce == Spec => []MatchedOnce
<1>1. RedisMatchInv => MatchedOnce
  BY Zenon DEF RedisMatchInv
<1> QED
  BY <1>1, RedisMatching, PTL

-----------------------------------------------------------------------------
(***************************************************************************)
(* Redis itself: which keys exist, and in which order they expire          *)
(***************************************************************************)

\* What TypeOK says of Redis: the values of the token keys, and the times to live.
RedisKeys ==
    /\ \A t \in Conn : store[t] \in Name \cup {None}
    /\ ttl \in [{k \in Keys : store[k] # None} -> SUBSET Keys]
    /\ \A k \in DOMAIN ttl : k \notin ttl[k] /\ ttl[k] \subseteq DOMAIN ttl
    /\ \A j, k \in DOMAIN ttl : /\ j \in ttl[k] => ttl[j] \subseteq ttl[k]
                                /\ j = k \/ j \in ttl[k] \/ k \in ttl[j]

\* DEL and GETDEL leave the other keys in their order.
LEMMA DelKeys ==
    ASSUME RedisKeys, NEW K, Del(K)
    PROVE  RedisKeys'
<1>1. /\ DOMAIN ttl = {k \in Keys : store[k] # None}
      /\ DOMAIN ttl' = DOMAIN ttl \ K /\ \A k \in DOMAIN ttl' : ttl'[k] = ttl[k] \ K
      /\ \A k \in Keys : store'[k] = IF k \in K THEN None ELSE store[k]
  BY Zenon DEF RedisKeys, Del
<1>2. DOMAIN ttl' = {k \in Keys : store'[k] # None}
  BY <1>1, Zenon
<1>3. ttl' \in [DOMAIN ttl' -> SUBSET Keys]
  BY <1>1, Zenon DEF RedisKeys, Del
<1>4. \A t \in Conn : store'[t] \in Name \cup {None}
  BY <1>1, Zenon DEF RedisKeys, Keys
<1>5. \A k \in DOMAIN ttl' : k \notin ttl'[k] /\ ttl'[k] \subseteq DOMAIN ttl'
  BY <1>1 DEF RedisKeys
<1>6. \A j, k \in DOMAIN ttl' : /\ j \in ttl'[k] => ttl'[j] \subseteq ttl'[k]
                                /\ j = k \/ j \in ttl'[k] \/ k \in ttl'[j]
  BY <1>1 DEF RedisKeys
<1> QED
  BY <1>2, <1>3, <1>4, <1>5, <1>6, Zenon DEF RedisKeys

\* SETEX makes its key the last to expire.
LEMMA SetExKeys ==
    ASSUME RedisKeys, store \in [Keys -> Waiting \cup Name \cup {None}],
           NEW k \in Keys, NEW v, v # None, k \in Conn => v \in Name, SetEx(k, v)
    PROVE  RedisKeys'
<1>1. /\ DOMAIN ttl = {j \in Keys : store[j] # None}
      /\ DOMAIN ttl' = DOMAIN ttl \cup {k}
      /\ ttl'[k] = DOMAIN ttl \ {k} /\ \A j \in DOMAIN ttl : j # k => ttl'[j] = ttl[j] \ {k}
      /\ \A j \in Keys : store'[j] = IF j = k THEN v ELSE store[j]
  BY DEF RedisKeys, SetEx
<1>2. DOMAIN ttl' = {j \in Keys : store'[j] # None}
  BY <1>1
<1>3. ttl' \in [DOMAIN ttl' -> SUBSET Keys]
  <2>1. \A j \in DOMAIN ttl' : ttl'[j] \in SUBSET Keys
    BY <1>1 DEF RedisKeys
  <2> QED
    BY <1>1, <2>1, Zenon DEF SetEx
<1>4. \A t \in Conn : store'[t] \in Name \cup {None}
  BY <1>1 DEF RedisKeys, Keys
<1>5. \A j \in DOMAIN ttl' : j \notin ttl'[j] /\ ttl'[j] \subseteq DOMAIN ttl'
  BY <1>1 DEF RedisKeys
<1>6. \A i, j \in DOMAIN ttl' : /\ i \in ttl'[j] => ttl'[i] \subseteq ttl'[j]
                                /\ i = j \/ i \in ttl'[j] \/ j \in ttl'[i]
  BY <1>1 DEF RedisKeys
<1> QED
  BY <1>2, <1>3, <1>4, <1>5, <1>6, Zenon DEF RedisKeys

\* Every step leaves what is said of Redis true.
LEMMA KeysStep == StoreTypes /\ RedisTypes /\ InCall /\ RedisKeys /\ [Next]_vars => RedisKeys'
<1> SUFFICES ASSUME StoreTypes, RedisTypes, InCall, RedisKeys, [Next]_vars PROVE RedisKeys'
  OBVIOUS
<1> USE KeysAssumption
<1>1. ASSUME UNCHANGED redisVars PROVE RedisKeys'
  BY <1>1 DEF redisVars, RedisKeys
<1>2. ASSUME NEW c \in Conn, Resume(c) PROVE RedisKeys'
  <2>1. [info |-> c, token |-> presented[c], server |-> home[c]] \in Waiting /\ name[c] \in Name
    BY <1>2, Zenon DEF Resume, Waiting, RedisTypes, InCall
  <2> QED
    BY <1>2, <2>1, SetExKeys, Zenon DEF Resume, Keys, StoreTypes
<1>3. ASSUME NEW c \in Conn, Insert(c) PROVE RedisKeys'
  <2>1. [info |-> c, token |-> c, server |-> home[c]] \in Waiting /\ name[c] \in Name
    BY <1>3 DEF Insert, Waiting, RedisTypes, InCall
  <2> QED
    BY <1>3, <2>1, SetExKeys, Zenon DEF Insert, Keys, StoreTypes
<1>4. ASSUME NEW c \in Conn, InsertToken(c) PROVE RedisKeys'
  <2>1. name[c] \in Name
    BY <1>4 DEF InsertToken, InCall
  <2> QED
    BY <1>4, <2>1, SetExKeys, Zenon DEF InsertToken, Keys, StoreTypes
<1>5. ASSUME NEW c \in Conn, Claim(c) \/ ForgetPeerToken(c) \/ Unregister(c) PROVE RedisKeys'
  BY <1>5, DelKeys, Zenon DEF Claim, ForgetPeerToken, Unregister
<1>6. ASSUME NEW c \in Conn,
             Lookup(c) \/ AddLocal(c) \/ ClaimMiss(c) \/ Notify(c) \/ Publish(c)
             \/ RegisterFails(c) \/ UnregisterFails(c) \/ UnregisterLocal(c)
      PROVE  RedisKeys'
  BY <1>1, <1>6, Zenon DEF Lookup, AddLocal, ClaimMiss, Notify, Publish, RegisterFails, UnregisterFails,
                    UnregisterLocal, registryVars, redisVars
<1>7. ASSUME NEW s \in Server, SweepStep(s) \/ Crash(s) PROVE RedisKeys'
  BY <1>1, <1>7, Zenon DEF SweepStep, Sweep, SweepBegin, SweepCheck, SweepDrop, Crash
<1>8. CASE Expire
  BY <1>8, DelKeys, Zenon DEF Expire
<1>9. CASE UNCHANGED registryVars \/ UNCHANGED vars
  BY <1>1, <1>9, Zenon DEF registryVars, redisVars, vars
<1> QED
  BY <1>2, <1>3, <1>4, <1>5, <1>6, <1>7, <1>8, <1>9, Zenon
     DEF Next, Accept, TaskStep, RegistryStep

-----------------------------------------------------------------------------
(***************************************************************************)
(* The other types                                                         *)
(***************************************************************************)

OtherTypes ==
    /\ sweep \in [Server -> SUBSET Name]
    /\ drop \in [Server -> Name \cup {None}]
    /\ reply \in [Conn -> Replies]
    /\ metrics \in [Counters -> Int]
    /\ crashed \subseteq Crashing

LEMMA OtherTypesStep == OtherTypes /\ [Next]_vars => OtherTypes'
<1> SUFFICES ASSUME OtherTypes, [Next]_vars PROVE OtherTypes'
  OBVIOUS
<1> USE DEF OtherTypes
<1>1. ASSUME NEW c \in Conn, NEW alive \in BOOLEAN, Start(c) \/ HandlerStep(c, alive),
             UNCHANGED registryVars, UNCHANGED crashed
      PROVE  OtherTypes'
  <2>1. reply' \in [Conn -> Replies]
    BY <1>1, Zenon DEF Start, HandlerStep, Receive, BadRequest, ReadError, RequestTimeout, Greet, Notified,
           SenderDropped, WaitTimeout, ReplyPaired, ReplyTimeout, ReplyError, WriteFails, handlerVars, Replies
  <2>2. metrics' \in [Counters -> Int]
    <3>1. ASSUME NEW m, Return(c, m) PROVE metrics' \in [Counters -> Int]
      BY <3>1 DEF Return, Count
    <3>2. CASE Start(c)
      BY <3>2 DEF Start, Counters
    <3> QED
      BY <1>1, <3>1, <3>2, Zenon DEF HandlerStep, Receive, BadRequest, ReadError, RequestTimeout, Greet, Notified,
           SenderDropped, WaitTimeout, ReplyPaired, ReplyTimeout, ReplyError, WriteFails, handlerVars
  <2> QED
    BY <1>1, <2>1, <2>2, Zenon DEF registryVars
<1>2. ASSUME NEW c \in Conn, RegistryStep(c), UNCHANGED handlerVars, UNCHANGED crashed
      PROVE  OtherTypes'
  <2>1. UNCHANGED <<sweep, drop>>
    BY <1>2, Zenon DEF RegistryStep, Lookup, Resume, AddLocal, Claim, ClaimMiss, ForgetPeerToken, Notify, Publish,
       Insert, InsertToken, RegisterFails, Unregister, UnregisterFails, UnregisterLocal,
       registryVars, sweepVars
  <2> QED
    BY <1>2, <2>1, Zenon DEF handlerVars
<1>3. CASE Expire /\ UNCHANGED <<handlerVars, crashed>>
  BY <1>3, Zenon DEF Expire, sweepVars, handlerVars
<1>4. ASSUME NEW s \in Server, SweepStep(s), UNCHANGED <<handlerVars, crashed>>
      PROVE  OtherTypes'
  BY <1>4 DEF SweepStep, Sweep, SweepBegin, SweepCheck, SweepDrop, handlerVars
<1>5. ASSUME NEW s \in Server, Crash(s) PROVE OtherTypes'
  BY <1>5 DEF Crash, handlerVars
<1>6. CASE UNCHANGED vars
  BY <1>6 DEF vars, registryVars, handlerVars
<1> QED
  BY <1>1, <1>2, <1>3, <1>4, <1>5, <1>6, Zenon DEF Next, Accept, TaskStep, SenderAlive

RedisTypeInv == RedisIInv /\ RedisKeys /\ OtherTypes

LEMMA RedisTypeInit == Init => RedisTypeInv
<1> SUFFICES ASSUME Init PROVE RedisKeys /\ OtherTypes
  BY RedisInit, Zenon DEF RedisTypeInv
<1>1. /\ store = [k \in Keys |-> None] /\ ttl = [k \in {} |-> {}]
  BY Zenon DEF Init, RegistryInit
<1>2. RedisKeys
  BY <1>1, KeysAssumption, Zenon DEF RedisKeys, Keys
<1>3. OtherTypes
  BY DEF Init, HandlerInit, RegistryInit, OtherTypes, Replies, Counters
<1> QED
  BY <1>2, <1>3, Zenon

LEMMA RedisTypeStep == RedisTypeInv /\ [Next]_vars => RedisTypeInv'
BY RedisStep, KeysStep, OtherTypesStep, Zenon DEF RedisTypeInv, RedisIInv

\* What the variables hold keeps its type: in particular every key that exists
\* will expire, whichever commands fail and whichever servers crash.
THEOREM RedisTypeCorrect == Spec => []TypeOK
<1>1. RedisTypeInv => TypeOK
  BY Zenon DEF RedisTypeInv, RedisIInv, StoreTypes, RedisTypes, RedisKeys, OtherTypes, TypeOK
<1> QED
  BY <1>1, RedisTypeInit, RedisTypeStep, PTL DEF Spec

=============================================================================
