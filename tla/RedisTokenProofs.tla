-------------------------- MODULE RedisTokenProofs --------------------------
(***************************************************************************)
(* For any connections, names and servers, whichever Redis commands fail,  *)
(* whichever keys expire and whichever servers crash: a client that was    *)
(* told to wait finds its registration by its token.                       *)
(***************************************************************************)
EXTENDS RedisProofs

\* A client that has been told, or is about to be told, to wait.
Greeted(c) == pc[c] \in {"inlocal", "greet"} \/ reply[c] = "waiting"

\* Tasks go on: the names and the tokens in use stay those of tasks that have
\* issued them.
Forward ==
    \A c \in Conn :
        /\ pc[c] \notin BeforeInsert => pc'[c] \notin BeforeInsert
        /\ pc[c] \notin BeforeIssue => pc'[c] \notin BeforeIssue
        /\ pc[c] \notin {"idle", "reading"} => name'[c] = name[c] /\ presented'[c] = presented[c]

LEMMA ForwardStep == RedisTypes /\ [Next]_vars => Forward
<1> SUFFICES ASSUME RedisTypes, [Next]_vars PROVE Forward
  OBVIOUS
<1> USE DEF Forward, BeforeInsert, BeforeIssue, GoTo, RedisTypes
<1>1. ASSUME NEW c \in Conn, Start(c) \/ BadRequest(c) PROVE Forward
  BY <1>1 DEF Start, BadRequest
<1>2. ASSUME NEW c \in Conn, NEW n, NEW t, Receive(c, n, t) PROVE Forward
  BY <1>2 DEF Receive
<1>3. ASSUME NEW c \in Conn, NEW m, Return(c, m) PROVE Forward
  BY <1>3, Zenon DEF Return
<1>4. ASSUME NEW c \in Conn, Greet(c) \/ Notified(c) \/ SenderDropped(c) \/ WaitTimeout(c) PROVE Forward
  BY <1>4 DEF Greet, Notified, SenderDropped, WaitTimeout
<1>5. ASSUME NEW c \in Conn, NEW alive \in BOOLEAN, HandlerStep(c, alive) PROVE Forward
  BY <1>1, <1>2, <1>3, <1>4, <1>5, Zenon DEF HandlerStep, ReadError, RequestTimeout, ReplyPaired, ReplyTimeout,
     ReplyError, WriteFails
<1>6. ASSUME NEW c \in Conn, Lookup(c) \/ AddLocal(c) \/ ClaimMiss(c) PROVE Forward
  BY <1>6 DEF Lookup, AddLocal, ClaimMiss
<1>7. ASSUME NEW c \in Conn, Resume(c) \/ ForgetPeerToken(c) \/ Insert(c) \/ InsertToken(c) PROVE Forward
  BY <1>7 DEF Resume, ForgetPeerToken, Insert, InsertToken, Answer
<1>8. ASSUME NEW c \in Conn, Claim(c) \/ Notify(c) \/ Publish(c) PROVE Forward
  BY <1>8 DEF Claim, Notify, Publish
<1>9. ASSUME NEW c \in Conn,
             RegisterFails(c) \/ Unregister(c) \/ UnregisterFails(c) \/ UnregisterLocal(c) PROVE Forward
  BY <1>9 DEF RegisterFails, Unregister, UnregisterFails, UnregisterLocal, Answer
<1>10. ASSUME NEW s \in Server, Crash(s) PROVE Forward
  BY <1>10, Zenon DEF Crash
<1>11. ASSUME UNCHANGED callVars PROVE Forward
  BY <1>11 DEF callVars
<1>12. ASSUME NEW s \in Server, SweepStep(s) PROVE Forward
  BY <1>11, <1>12, Zenon DEF SweepStep, Sweep, SweepBegin, SweepCheck, SweepDrop
<1>13. CASE Expire \/ UNCHANGED vars
  BY <1>11, <1>13, Zenon DEF Expire, vars
<1> HIDE DEF Forward, RedisTypes
<1> QED
  BY <1>1, <1>5, <1>6, <1>7, <1>8, <1>9, <1>10, <1>12, <1>13, Zenon
     DEF Next, Accept, TaskStep, RegistryStep, SenderAlive

\* A task issues the token register() returns, and clients present issued ones.
LEMMA IssuedStep ==
    ASSUME RedisTypes, OtherTypes, TokensIssued, [Next]_vars
    PROVE  TokensIssued'
<1> USE KeysAssumption
<1>f. Forward
  BY ForwardStep, Zenon
<1>1. ASSUME UNCHANGED <<token, presented>>,
             \A d \in Conn : reply'[d] = "waiting" => reply[d] = "waiting" \/ pc'[d] \notin BeforeIssue
      PROVE  TokensIssued'
  BY <1>f, <1>1 DEF TokensIssued, Forward
<1>2. ASSUME NEW c \in Conn, AddLocal(c), UNCHANGED handlerVars PROVE TokensIssued'
  <2>1. /\ pc'[c] = "greet" /\ UNCHANGED <<presented, reply>>
        /\ \A d \in Conn : token'[d] = token[d] \/ (d = c /\ token'[d] \in {c, presented[c]})
    BY <1>2 DEF AddLocal, GoTo, RedisTypes, handlerVars
  <2>2. pc'[c] \notin BeforeIssue
    BY <2>1, Zenon DEF BeforeIssue, BeforeInsert
  <2> QED
    BY <1>f, <2>1, <2>2 DEF TokensIssued, Forward
<1>3. ASSUME NEW c \in Conn, Notify(c) \/ Publish(c), UNCHANGED handlerVars PROVE TokensIssued'
  <2>1. /\ pc'[c] \in {"paired", "reject"} /\ UNCHANGED <<presented, reply>>
        /\ \A d \in Conn : token'[d] = token[d] \/ token'[d] = c
    BY <1>3 DEF Notify, Publish, GoTo, RedisTypes, handlerVars
  <2>2. pc'[c] \notin BeforeIssue
    BY <2>1 DEF BeforeIssue, BeforeInsert
  <2> QED
    BY <1>f, <2>1, <2>2 DEF TokensIssued, Forward
<1>4. ASSUME NEW c \in Conn, NEW n \in Name, NEW t \in IssuedTokens \cup {None}, Receive(c, n, t)
      PROVE  TokensIssued'
  <2>1. /\ UNCHANGED <<token, reply>>
        /\ \A d \in Conn : presented'[d] = presented[d] \/ presented'[d] = t
    BY <1>4 DEF Receive, RedisTypes, handlerVars
  <2>2. \A d \in Conn : d = t => pc[d] \notin BeforeIssue
    BY Zenon DEF IssuedTokens, TokensIssued
  <2> QED
    BY <1>f, <2>1, <2>2 DEF TokensIssued, Forward
<1>5. ASSUME NEW c \in Conn, Greet(c) PROVE TokensIssued'
  <2>1. pc'[c] = "wait" /\ UNCHANGED <<token, presented>> /\ \A d \in Conn : d # c => reply'[d] = reply[d]
    BY <1>5 DEF Greet, GoTo, RedisTypes
  <2> QED
    BY <1>1, <2>1, Zenon DEF BeforeIssue, BeforeInsert
<1>6. ASSUME NEW c \in Conn,
             Start(c) \/ BadRequest(c) \/ Notified(c) \/ SenderDropped(c) \/ WaitTimeout(c)
             \/ ReadError(c) \/ RequestTimeout(c) \/ WriteFails(c)
      PROVE  TokensIssued'
  BY <1>1, <1>6 DEF Start, BadRequest, Notified, SenderDropped, WaitTimeout, ReadError, RequestTimeout,
     WriteFails, Return, handlerVars
<1>7. ASSUME NEW c \in Conn, ReplyPaired(c) \/ ReplyTimeout(c) \/ ReplyError(c)
      PROVE  TokensIssued'
  <2>1. UNCHANGED <<token, presented>> /\ \A d \in Conn : reply'[d] = "waiting" => reply[d] = "waiting"
    BY <1>7 DEF ReplyPaired, ReplyTimeout, ReplyError, Return, OtherTypes
  <2> QED
    BY <1>1, <2>1, Zenon
<1>8. ASSUME NEW c \in Conn, UNCHANGED handlerVars,
             \/ Lookup(c) \/ Resume(c) \/ Claim(c) \/ ClaimMiss(c) \/ ForgetPeerToken(c) \/ Insert(c)
             \/ InsertToken(c) \/ RegisterFails(c) \/ Unregister(c) \/ UnregisterFails(c)
             \/ UnregisterLocal(c)
      PROVE  TokensIssued'
  <2>1. UNCHANGED <<token, presented, reply>>
    BY <1>8, Zenon DEF Lookup, Resume, Claim, ClaimMiss, ForgetPeerToken, Insert, InsertToken, RegisterFails,
       Unregister, UnregisterFails, UnregisterLocal, handlerVars
  <2> QED
    BY <1>1, <2>1, Zenon
<1>9. CASE UNCHANGED handlerVars /\ (Expire \/ \E s \in Server : SweepStep(s))
  <2>1. UNCHANGED <<token, presented, reply>>
    BY <1>9, Zenon DEF Expire, SweepStep, Sweep, SweepBegin, SweepCheck, SweepDrop, callVars, handlerVars
  <2> QED
    BY <1>1, <2>1
<1>10. CASE UNCHANGED vars \/ \E s \in Server : Crash(s)
  <2>1. UNCHANGED <<token, presented, reply>>
    BY <1>10, Zenon DEF Crash, vars, callVars, handlerVars
  <2> QED
    BY <1>1, <2>1
<1> QED
  BY <1>2, <1>3, <1>4, <1>5, <1>6, <1>7, <1>8, <1>9, <1>10, Zenon
     DEF Next, Accept, TaskStep, HandlerStep, RegistryStep

\* Lookup finds a token under the name it was issued for; the keys and the
\* registrations taken keep what the tasks have written.
LEMMA NamesStep ==
    ASSUME StoreTypes, RedisTypes, InCall, RedisKeys, TokensIssued, TokenNames, [Next]_vars
    PROVE  TokenNames'
<1> USE KeysAssumption
<1>f. Forward
  BY ForwardStep, Zenon
<1>t. /\ \A n \in Name : store[n] # None => store[n].token \in Conn /\ store[n].info \in Conn
      /\ \A d \in Conn : entry[d] # None => entry[d].token \in Conn
      /\ \A d \in Conn : pc[d] = "resume" => presented[d] \in Conn
  BY Zenon DEF StoreTypes, RedisTypes, InCall, Waiting
<1>b. {"idle", "reading"} \subseteq BeforeInsert /\ BeforeInsert \subseteq BeforeIssue
  BY Zenon DEF BeforeInsert, BeforeIssue
<1> DEFINE KeyOk == \A d \in Conn : store'[d] # None => store'[d] = name'[d] /\ pc'[d] \notin BeforeInsert
           ResumeOk == \A d \in Conn : pc'[d] = "resume" => name'[d] = name'[presented'[d]]
           EntryOk == \A d \in Conn : entry'[d] # None => pc'[entry'[d].token] \notin BeforeInsert
           NameOk == \A n \in Name : store'[n] # None =>
                       name'[store'[n].token] = n /\ pc'[store'[n].token] \notin BeforeInsert
<1>q. ASSUME KeyOk, ResumeOk, EntryOk, NameOk PROVE TokenNames'
  BY <1>q, Zenon DEF TokenNames
<1>1. ASSUME \A d \in Conn : store'[d] \in {store[d], None} PROVE KeyOk
  BY <1>1, <1>f, <1>b DEF TokenNames, Forward
<1>2. ASSUME \A d \in Conn : pc'[d] = "resume" => pc[d] = "resume" PROVE ResumeOk
  <2> SUFFICES ASSUME NEW d \in Conn, pc'[d] = "resume" PROVE name'[d] = name'[presented'[d]]
    OBVIOUS
  <2>1. pc[d] = "resume" /\ presented[d] \in Conn /\ pc[presented[d]] \notin BeforeIssue
    BY <1>2, <1>t, Zenon DEF TokensIssued
  <2> QED
    BY <1>f, <1>b, <2>1 DEF Forward, TokenNames
<1>3. ASSUME \A d \in Conn : entry'[d] \in {entry[d], None} PROVE EntryOk
  BY <1>3, <1>f, <1>t DEF TokenNames, Forward
<1>n. ASSUME NEW n \in Name, store'[n] = store[n], store'[n] # None
      PROVE  name'[store'[n].token] = n /\ pc'[store'[n].token] \notin BeforeInsert
  <2>1. /\ store[n].token \in Conn /\ name[store[n].token] = n
        /\ pc[store[n].token] \notin BeforeInsert
    BY <1>n, <1>t, Zenon DEF TokenNames
  <2> QED
    BY <1>n, <1>f, <1>b, <2>1, Zenon DEF Forward
<1>4. ASSUME \A n \in Name : store'[n] \in {store[n], None} PROVE NameOk
  BY <1>4, <1>n, Zenon
<1>5. ASSUME NEW K, Del(K) PROVE KeyOk /\ NameOk
  BY <1>1, <1>4, <1>5, Zenon DEF Del, Keys
<1>6. ASSUME NEW c \in Conn, Lookup(c) PROVE TokenNames'
  <2>1. /\ pc[c] = "lookup" /\ UNCHANGED <<store, entry, name, presented>>
        /\ \A d \in Conn : d # c => pc'[d] = pc[d]
        /\ pc'[c] = "resume" => store[presented[c]] = name[c]
    BY <1>6 DEF Lookup, registryVars, GoTo, RedisTypes
  <2>2. name[c] \in Name /\ presented[c] \in Conn
    BY <2>1, Zenon DEF InCall
  <2>3. ResumeOk
    BY <2>1, <2>2 DEF TokenNames
  <2> QED
    BY <1>1, <1>3, <1>4, <1>q, <2>1, <2>3, Zenon
<1>7. ASSUME NEW c \in Conn, Claim(c) PROVE TokenNames'
  <2>1. /\ pc[c] = "claim" /\ name[c] \in Name /\ store[name[c]] # None
        /\ \A d \in Conn : entry'[d] = entry[d] \/ entry'[d] = store[name[c]]
        /\ Del({name[c]})
    BY <1>7 DEF Claim, InCall, RedisTypes
  <2>2. \A d \in Conn : pc'[d] = "resume" => pc[d] = "resume"
    BY <1>7 DEF Claim, GoTo, RedisTypes
  <2>3. EntryOk
    BY <1>f, <1>t, <2>1 DEF TokenNames, Forward
  <2> QED
    BY <1>2, <1>5, <1>q, <2>1, <2>2, <2>3, Zenon
<1>8. ASSUME NEW c \in Conn, Resume(c) PROVE TokenNames'
  <2>1. /\ pc[c] = "resume" /\ name[c] \in Name /\ presented[c] \in Conn
        /\ SetEx(name[c], [info |-> c, token |-> presented[c], server |-> home[c]])
        /\ UNCHANGED <<entry, name, presented>>
        /\ \A d \in Conn : pc'[d] = "resume" => pc[d] = "resume"
    BY <1>8 DEF Resume, InCall, Answer, GoTo, RedisTypes
  <2>2. /\ \A d \in Conn : store'[d] = store[d]
        /\ \A n \in Name : n # name[c] => store'[n] = store[n]
        /\ store'[name[c]].token = presented[c]
    BY <2>1 DEF SetEx, Keys, StoreTypes
  <2>3. NameOk
    <3>1. name[c] = name[presented[c]] /\ pc[presented[c]] \notin BeforeInsert
      BY <1>b, <2>1, Zenon DEF TokenNames, TokensIssued
    <3>2. name'[presented[c]] = name[c] /\ pc'[presented[c]] \notin BeforeInsert
      BY <1>f, <1>b, <2>1, <3>1 DEF Forward
    <3> SUFFICES ASSUME NEW n \in Name, store'[n] # None
                 PROVE  name'[store'[n].token] = n /\ pc'[store'[n].token] \notin BeforeInsert
      BY Zenon
    <3>3. CASE n = name[c]
      BY <2>2, <3>2, <3>3, Zenon
    <3>4. CASE n # name[c]
      BY <1>n, <2>2, <3>4, Zenon
    <3> QED
      BY <3>3, <3>4, Zenon
  <2> QED
    BY <1>1, <1>2, <1>3, <1>q, <2>1, <2>2, <2>3, Zenon
<1>9. ASSUME NEW c \in Conn, Insert(c) PROVE TokenNames'
  <2>1. /\ pc[c] = "insert" /\ name[c] \in Name
        /\ SetEx(name[c], [info |-> c, token |-> c, server |-> home[c]])
        /\ UNCHANGED <<entry, name, presented>>
        /\ \A d \in Conn : pc'[d] = "resume" => pc[d] = "resume"
        /\ pc'[c] \in {"intoken", "reject"}
    BY <1>9 DEF Insert, InCall, Answer, GoTo, RedisTypes
  <2>2. /\ \A d \in Conn : store'[d] = store[d]
        /\ \A n \in Name : n # name[c] => store'[n] = store[n]
        /\ store'[name[c]].token = c
    BY <2>1 DEF SetEx, Keys, StoreTypes
  <2>3. NameOk
    <3>1. pc'[c] \notin BeforeInsert
      BY <2>1, Zenon DEF BeforeInsert
    <3> SUFFICES ASSUME NEW n \in Name, store'[n] # None
                 PROVE  name'[store'[n].token] = n /\ pc'[store'[n].token] \notin BeforeInsert
      BY Zenon
    <3>3. CASE n = name[c]
      BY <2>1, <2>2, <3>1, <3>3, Zenon
    <3>4. CASE n # name[c]
      BY <1>n, <2>2, <3>4, Zenon
    <3> QED
      BY <3>3, <3>4, Zenon
  <2> QED
    BY <1>1, <1>2, <1>3, <1>q, <2>1, <2>2, <2>3, Zenon
<1>10. ASSUME NEW c \in Conn, InsertToken(c) PROVE TokenNames'
  <2>1. /\ pc[c] = "intoken" /\ SetEx(c, name[c])
        /\ UNCHANGED <<entry, name, presented>>
        /\ \A d \in Conn : pc'[d] = "resume" => pc[d] = "resume"
        /\ pc'[c] \in {"inlocal", "reject"}
    BY <1>10 DEF InsertToken, Answer, GoTo, RedisTypes
  <2>2. /\ \A d \in Conn : d # c => store'[d] = store[d]
        /\ \A n \in Name : store'[n] = store[n]
        /\ store'[c] = name[c]
    BY <2>1, Zenon DEF SetEx, Keys, StoreTypes
  <2>3. KeyOk
    <3>1. pc'[c] \notin BeforeInsert
      BY <2>1, Zenon DEF BeforeInsert
    <3> QED
      BY <1>f, <1>b, <2>1, <2>2, <3>1 DEF TokenNames, Forward
  <2> QED
    BY <1>2, <1>3, <1>4, <1>q, <2>1, <2>2, <2>3, Zenon
<1>11. ASSUME NEW c \in Conn, ForgetPeerToken(c) \/ Unregister(c) PROVE TokenNames'
  <2>1. /\ UNCHANGED entry /\ \E K : Del(K)
        /\ \A d \in Conn : pc'[d] = "resume" => pc[d] = "resume"
    BY <1>11 DEF ForgetPeerToken, Unregister, Answer, GoTo, RedisTypes
  <2> QED
    BY <1>2, <1>3, <1>5, <1>q, <2>1, Zenon
<1>12. ASSUME NEW c \in Conn, AddLocal(c) \/ ClaimMiss(c) \/ Notify(c) \/ Publish(c) \/ RegisterFails(c)
              \/ UnregisterFails(c) \/ UnregisterLocal(c)
       PROVE  TokenNames'
  <2>1. /\ UNCHANGED store
        /\ \A d \in Conn : entry'[d] \in {entry[d], None}
    BY <1>12, Zenon DEF AddLocal, ClaimMiss, Notify, Publish, RegisterFails, UnregisterFails, UnregisterLocal,
       redisVars, registryVars, RedisTypes
  <2>2. \A d \in Conn : pc'[d] = "resume" => pc[d] = "resume"
    BY <1>12, Zenon DEF AddLocal, ClaimMiss, Notify, Publish, RegisterFails, UnregisterFails, UnregisterLocal,
       GoTo, RedisTypes
  <2> QED
    BY <1>1, <1>2, <1>3, <1>4, <1>q, <2>1, <2>2, Zenon
<1>13. ASSUME NEW c \in Conn, Start(c) \/ HandlerStep(c, SenderAlive(c)), UNCHANGED registryVars
       PROVE  TokenNames'
  <2>1. \A d \in Conn : pc'[d] = "resume" => pc[d] = "resume"
    BY <1>13 DEF Start, HandlerStep, Receive, BadRequest, ReadError, RequestTimeout, Greet, Notified,
       SenderDropped, WaitTimeout, ReplyPaired, ReplyTimeout, ReplyError, WriteFails, Return, GoTo, RedisTypes
  <2> QED
    BY <1>1, <1>2, <1>3, <1>4, <1>q, <1>13, <2>1, Zenon DEF registryVars
<1>14. CASE Expire
  <2>1. /\ UNCHANGED <<entry, pc>> /\ \E K : Del(K)
    BY <1>14, Zenon DEF Expire, callVars
  <2> QED
    BY <1>2, <1>3, <1>5, <1>q, <2>1
<1>15. CASE UNCHANGED vars \/ \E s \in Server : SweepStep(s) \/ Crash(s)
  <2>1. /\ UNCHANGED <<store, entry>>
        /\ \A d \in Conn : pc'[d] = "resume" => pc[d] = "resume"
    BY <1>15 DEF SweepStep, Sweep, SweepBegin, SweepCheck, SweepDrop, Crash, redisVars, callVars, vars,
       registryVars
  <2> QED
    BY <1>1, <1>2, <1>3, <1>4, <1>q, <2>1, Zenon
<1> HIDE DEF KeyOk, ResumeOk, EntryOk, NameOk
<1> QED
  BY <1>6, <1>7, <1>8, <1>9, <1>10, <1>11, <1>12, <1>13, <1>14, <1>15, Zenon
     DEF Next, Accept, TaskStep, RegistryStep

\* A step that lets nobody lay hands on a token: no task is about to be told to
\* wait, takes a registration, or resumes one.
Hands ==
    /\ \A d \in Conn : pc[d] \notin BeforeInsert /\ Greeted(d)' => Greeted(d)
    /\ \A d \in Conn : token'[d] \in {token[d], d} \/ (pc[d] = "relocal" /\ token'[d] = presented[d])
    /\ \A d \in Conn : pc'[d] = "relocal" => pc[d] = "relocal"
    /\ \A d \in Conn : entry'[d] \in {entry[d], None}

\* A registration a client made itself, c being that client.
Made(n, c) == store[n] # None /\ store[n].info = c /\ store[n].token = c

\* What OwnRegistrations says of it.
Kept(n, c) ==
    /\ Greeted(c) => store[c] = n
    /\ store[c] # None => n \in ttl[c]
    /\ \A d \in Conn :
         /\ entry[d] # None => entry[d].token # c
         /\ token[d] = c => d = c
         /\ pc[d] = "relocal" => presented[d] # c

LEMMA OwnStep ==
    ASSUME StoreTypes, RedisTypes, InCall, RedisKeys, OtherTypes, TokensIssued, TokenNames,
           OwnRegistrations, [Next]_vars
    PROVE  OwnRegistrations'
<1> USE KeysAssumption
<1>f. Forward
  BY ForwardStep
<1>t. /\ \A n \in Name : store[n] # None => store[n].token \in Conn /\ store[n].info \in Conn
      /\ \A d \in Conn : entry[d] # None => entry[d].token \in Conn
      /\ \A d \in Conn : pc[d] \in {"resume", "relocal"} => presented[d] \in Conn
      /\ Name \subseteq Keys /\ Conn \subseteq Keys
      /\ DOMAIN ttl = {k \in Keys : store[k] # None}
  BY DEF StoreTypes, RedisTypes, InCall, Waiting, Keys, RedisKeys
<1>b. {"idle", "reading", "relocal", "resume", "insert"} \subseteq BeforeInsert /\ BeforeInsert \subseteq BeforeIssue
  BY Zenon DEF BeforeInsert, BeforeIssue
<1>k. \A n \in Name, c \in Conn : Made(n, c) => Kept(n, c) /\ name[c] = n /\ pc[c] \notin BeforeInsert
  <2> SUFFICES ASSUME NEW n \in Name, NEW c \in Conn, Made(n, c)
               PROVE  Kept(n, c) /\ name[c] = n /\ pc[c] \notin BeforeInsert
    BY Zenon
  <2>1. Kept(n, c)
    BY DEF OwnRegistrations, Made, Kept, Greeted
  <2>2. name[c] = n /\ pc[c] \notin BeforeInsert
    BY DEF Made, TokenNames
  <2> QED
    BY <2>1, <2>2, Zenon
<1>q. ASSUME StoreTypes', \A n \in Name, c \in Conn : Made(n, c)' => Kept(n, c)' PROVE OwnRegistrations'
  <2>1. \A n \in Name : store'[n] # None => store'[n].info \in Conn
    BY <1>q, Zenon DEF StoreTypes, Waiting
  <2> QED
    BY <1>q, <2>1 DEF OwnRegistrations, Made, Kept, Greeted
<1>s. StoreTypes'
  <2>1. ASSUME NEW c \in Conn, RegistryStep(c) PROVE StoreTypes'
    BY <2>1, StoreStep, Zenon
  <2>2. CASE Expire \/ (\E s \in Server : SweepStep(s) \/ Crash(s)) \/ UNCHANGED vars
    BY <2>2, SystemStep, Zenon
  <2>3. CASE UNCHANGED registryVars
    BY <2>3, Zenon DEF registryVars, StoreTypes
  <2> QED
    BY <2>1, <2>2, <2>3, Zenon DEF Next, Accept, TaskStep
<1>1. ASSUME Hands, NEW n \in Name, NEW c \in Conn, Made(n, c),
             store'[c] = store[c], store[c] # None => (n \in ttl[c] => n \in ttl'[c])
      PROVE  Kept(n, c)'
  <2>1. Kept(n, c) /\ pc[c] \notin BeforeInsert
    BY <1>1, <1>k, Zenon
  <2>2. Greeted(c)' => Greeted(c)
    BY <1>1, <2>1 DEF Hands
  <2>3. ASSUME NEW d \in Conn
        PROVE  /\ entry'[d] # None => entry'[d].token # c
               /\ token'[d] = c => d = c
               /\ pc'[d] = "relocal" => presented'[d] # c
    BY <1>1, <1>b, <1>f, <2>1, Zenon DEF Hands, Kept, Forward
  <2> QED
    BY <1>1, <2>1, <2>2, <2>3, Zenon DEF Kept
<1>2. ASSUME Hands, UNCHANGED <<store, ttl>> PROVE OwnRegistrations'
  BY <1>1, <1>2, <1>q, <1>s, Zenon DEF Made
<1>3. ASSUME Hands, NEW K, Del(K),
             \A n \in Name, c \in Conn : Made(n, c) /\ n \notin K => c \notin K
      PROVE  OwnRegistrations'
  <2> SUFFICES ASSUME NEW n \in Name, NEW c \in Conn, Made(n, c)' PROVE Kept(n, c)'
    BY <1>q, <1>s, Zenon
  <2>1. n \notin K /\ Made(n, c)
    BY <1>3, <1>t, Zenon DEF Made, Del
  <2>2. c \notin K /\ store'[c] = store[c]
    BY <1>3, <1>t, <2>1, Zenon DEF Del
  <2>3. store[c] # None => (n \in ttl[c] => n \in ttl'[c])
    BY <1>3, <1>t, <2>1, <2>2, Zenon DEF Del
  <2> QED
    BY <1>1, <1>3, <2>1, <2>2, <2>3, Zenon
<1>4. ASSUME NEW c \in Conn, Start(c) \/ HandlerStep(c, SenderAlive(c)), UNCHANGED registryVars
      PROVE  OwnRegistrations'
  <2>1. UNCHANGED <<store, ttl, entry, token>>
    BY <1>4, Zenon DEF registryVars, Start, HandlerStep, Receive, BadRequest, ReadError, RequestTimeout, Greet,
       Notified, SenderDropped, WaitTimeout, ReplyPaired, ReplyTimeout, ReplyError, WriteFails, Return
  <2>2. \A d \in Conn : /\ pc'[d] = "relocal" => pc[d] = "relocal"
                        /\ pc'[d] \in {"inlocal", "greet"} => pc'[d] = pc[d]
    BY <1>4 DEF Start, HandlerStep, Receive, BadRequest, ReadError, RequestTimeout, Greet,
       Notified, SenderDropped, WaitTimeout, ReplyPaired, ReplyTimeout, ReplyError, WriteFails, Return,
       GoTo, RedisTypes
  <2>3. \A d \in Conn : reply'[d] = "waiting" => reply[d] = "waiting" \/ pc[d] = "greet"
    BY <1>4, Zenon DEF Start, HandlerStep, Receive, BadRequest, ReadError, RequestTimeout, Greet,
       Notified, SenderDropped, WaitTimeout, ReplyPaired, ReplyTimeout, ReplyError, WriteFails,
       handlerVars, OtherTypes
  <2>4. Hands
    BY <2>1, <2>2, <2>3, Zenon DEF Hands, Greeted
  <2> QED
    BY <1>2, <2>1, <2>4
<1>5. ASSUME NEW c \in Conn, UNCHANGED handlerVars,
             \/ Lookup(c) \/ AddLocal(c) \/ ClaimMiss(c) \/ Notify(c) \/ Publish(c) \/ RegisterFails(c)
             \/ UnregisterFails(c) \/ UnregisterLocal(c)
      PROVE  OwnRegistrations'
  <2>1. UNCHANGED <<store, ttl, reply>> /\ \A d \in Conn : entry'[d] \in {entry[d], None}
    BY <1>5, Zenon DEF Lookup, AddLocal, ClaimMiss, Notify, Publish, RegisterFails, UnregisterFails, UnregisterLocal,
       redisVars, registryVars, handlerVars, RedisTypes
  <2>2. \A d \in Conn : /\ pc'[d] = "relocal" => pc[d] = "relocal"
                        /\ pc'[d] \in {"inlocal", "greet"} => pc[d] \in {"relocal", "inlocal", "greet"}
    <3>1. CASE Lookup(c) \/ AddLocal(c) \/ ClaimMiss(c)
      BY <3>1 DEF Lookup, AddLocal, ClaimMiss, GoTo, RedisTypes
    <3>2. CASE Notify(c) \/ Publish(c)
      BY <3>2 DEF Notify, Publish, GoTo, RedisTypes
    <3>3. CASE RegisterFails(c) \/ UnregisterFails(c) \/ UnregisterLocal(c)
      BY <3>3 DEF RegisterFails, UnregisterFails, UnregisterLocal, GoTo, RedisTypes
    <3> QED
      BY <1>5, <3>1, <3>2, <3>3, Zenon
  <2>3. \A d \in Conn : token'[d] \in {token[d], d} \/ (pc[d] = "relocal" /\ token'[d] = presented[d])
    <3>1. CASE AddLocal(c)
      BY <3>1 DEF AddLocal, RedisTypes
    <3>2. CASE Publish(c) \/ Notify(c)
      BY <3>2 DEF Publish, Notify, RedisTypes
    <3>3. CASE Lookup(c) \/ ClaimMiss(c) \/ RegisterFails(c) \/ UnregisterFails(c) \/ UnregisterLocal(c)
      <4>1. token' = token
        BY <3>3, Zenon DEF Lookup, ClaimMiss, RegisterFails, UnregisterFails, UnregisterLocal
      <4> QED
        BY <4>1, Zenon
    <3> QED
      BY <1>5, <3>1, <3>2, <3>3, Zenon
  <2>4. Hands
    BY <1>b, <2>1, <2>2, <2>3, Zenon DEF Hands, Greeted
  <2> QED
    BY <1>2, <2>1, <2>4
<1>6. ASSUME NEW c \in Conn, UNCHANGED handlerVars, ForgetPeerToken(c) PROVE OwnRegistrations'
  <2>1. /\ pc[c] = "untoken" /\ Del({entry[c].token}) /\ UNCHANGED <<entry, token, reply>>
        /\ \A d \in Conn : /\ pc'[d] = "relocal" => pc[d] = "relocal"
                           /\ pc'[d] \in {"inlocal", "greet"} => pc'[d] = pc[d]
    BY <1>6 DEF ForgetPeerToken, Answer, GoTo, RedisTypes, handlerVars
  <2>2. Hands
    BY <2>1, Zenon DEF Hands, Greeted
  <2>3. entry[c] # None
    BY <2>1, Zenon DEF InCall
  <2>4. \A n \in Name, d \in Conn : Made(n, d) => d # entry[c].token
    BY <1>k, <2>3, Zenon DEF Kept
  <2> QED
    BY <1>3, <2>1, <2>2, <2>4, Zenon
<1>7. ASSUME NEW c \in Conn, UNCHANGED handlerVars, Unregister(c) PROVE OwnRegistrations'
  <2>1. /\ Del({name[c], token[c]}) /\ UNCHANGED <<entry, token, reply>>
        /\ \A d \in Conn : /\ pc'[d] = "relocal" => pc[d] = "relocal"
                           /\ pc'[d] \in {"inlocal", "greet"} => pc'[d] = pc[d]
    BY <1>7 DEF Unregister, Answer, GoTo, RedisTypes, handlerVars
  <2>2. Hands
    BY <2>1, Zenon DEF Hands, Greeted
  <2>3. ASSUME NEW n \in Name, NEW d \in Conn, Made(n, d), n # name[c] PROVE d \notin {name[c], token[c]}
    <3>1. name[c] \notin Conn
      BY DEF RedisTypes
    <3>2. d # c
      BY <1>k, <2>3, Zenon
    <3> QED
      BY <1>k, <2>3, <3>1, <3>2 DEF Kept
  <2> QED
    BY <1>3, <2>1, <2>2, <2>3
<1>8. CASE Expire /\ UNCHANGED handlerVars
  <2>1. PICK k \in DOMAIN ttl : ttl[k] = {} /\ Del({k})
    BY <1>8 DEF Expire
  <2>2. Hands
    BY <1>8 DEF Expire, callVars, handlerVars, Hands, Greeted
  <2>3. ASSUME NEW n \in Name, NEW c \in Conn, Made(n, c) PROVE c # k
    BY <1>k, <1>t, <2>1, <2>3, Zenon DEF Kept
  <2> QED
    BY <1>3, <2>1, <2>2, <2>3, Zenon
<1>9. CASE UNCHANGED vars \/ \E s \in Server : (SweepStep(s) /\ UNCHANGED handlerVars) \/ Crash(s)
  <2>1. UNCHANGED <<store, ttl, entry, token, reply>> /\ \A d \in Conn : pc'[d] \in {pc[d], "lost"}
    BY <1>9 DEF SweepStep, Sweep, SweepBegin, SweepCheck, SweepDrop, Crash, redisVars, callVars, vars,
       registryVars, handlerVars
  <2>2. Hands
    BY <2>1, Zenon DEF Hands, Greeted
  <2> QED
    BY <1>2, <2>1, <2>2, Zenon
<1>10. ASSUME NEW c \in Conn, UNCHANGED handlerVars, Claim(c) PROVE OwnRegistrations'
  <2>1. /\ pc[c] = "claim" /\ name[c] \in Name /\ store[name[c]] # None
        /\ Del({name[c]}) /\ UNCHANGED <<token, reply>>
        /\ \A d \in Conn : entry'[d] = entry[d] \/ entry'[d] = store[name[c]]
    BY <1>10 DEF Claim, InCall, RedisTypes, handlerVars
  <2>2. \A d \in Conn : /\ pc'[d] = "relocal" => pc[d] = "relocal"
                        /\ pc'[d] \in {"inlocal", "greet"} => pc'[d] = pc[d]
    BY <1>10 DEF Claim, GoTo, RedisTypes
  <2> SUFFICES ASSUME NEW n \in Name, NEW e \in Conn, Made(n, e)' PROVE Kept(n, e)'
    BY <1>q, <1>s, Zenon
  <2>3. n # name[c] /\ Made(n, e)
    BY <1>t, <2>1, Zenon DEF Made, Del
  <2>4. Kept(n, e) /\ name[e] = n /\ e # name[c] /\ pc[e] \notin BeforeInsert
    BY <1>k, <2>1, <2>3, Zenon
  <2>5. store[name[c]].token # e
    BY <2>1, <2>3, <2>4, Zenon DEF TokenNames
  <2>6. store'[e] = store[e] /\ (store[e] # None => n \in ttl'[e])
    BY <1>t, <2>1, <2>3, <2>4, Zenon DEF Del, Kept
  <2>7. Greeted(e)' => Greeted(e)
    BY <2>1, <2>2 DEF Greeted
  <2>8. ASSUME NEW d \in Conn
        PROVE  /\ entry'[d] # None => entry'[d].token # e
               /\ token'[d] = e => d = e
               /\ pc'[d] = "relocal" => presented'[d] # e
    BY <1>b, <1>f, <2>1, <2>2, <2>4, <2>5 DEF Kept, Forward
  <2> QED
    BY <2>4, <2>6, <2>7, <2>8 DEF Kept
<1>11. ASSUME NEW c \in Conn, UNCHANGED handlerVars, Resume(c) PROVE OwnRegistrations'
  <2>1. /\ pc[c] = "resume" /\ SetEx(name[c], [info |-> c, token |-> presented[c], server |-> home[c]])
        /\ UNCHANGED <<entry, token, presented, reply>> /\ name[c] \in Name
    BY <1>11 DEF Resume, InCall, handlerVars
  <2>2. \A d \in Conn : /\ pc'[d] = "relocal" => pc[d] = "relocal" \/ d = c
                        /\ pc'[d] \in {"inlocal", "greet"} => pc'[d] = pc[d]
    BY <1>11 DEF Resume, Answer, GoTo, RedisTypes
  <2>3. presented[c] # c
    BY <1>b, <2>1, Zenon DEF TokensIssued
  <2> SUFFICES ASSUME NEW n \in Name, NEW e \in Conn, Made(n, e)' PROVE Kept(n, e)'
    BY <1>q, <1>s, Zenon
  <2>4. n # name[c] /\ Made(n, e)
    BY <1>t, <2>1, <2>3, Zenon DEF Made, SetEx, StoreTypes
  <2>5. Kept(n, e) /\ name[e] = n /\ e # name[c]
    BY <1>k, <2>1, <2>4, Zenon
  <2>6. presented[c] # e
    BY <2>1, <2>4, <2>5, Zenon DEF TokenNames
  <2>7. store'[e] = store[e] /\ (store[e] # None => n \in ttl'[e])
    BY <1>t, <2>1, <2>4, <2>5, Zenon DEF SetEx, StoreTypes, Kept
  <2>8. Greeted(e)' => Greeted(e)
    BY <2>1, <2>2, Zenon DEF Greeted
  <2> QED
    BY <2>1, <2>2, <2>5, <2>6, <2>7, <2>8, Zenon DEF Kept
<1>12. ASSUME NEW c \in Conn, UNCHANGED handlerVars, Insert(c) PROVE OwnRegistrations'
  <2>1. /\ pc[c] = "insert" /\ SetEx(name[c], [info |-> c, token |-> c, server |-> home[c]])
        /\ UNCHANGED <<entry, token, presented, reply>> /\ name[c] \in Name
    BY <1>12, Zenon DEF Insert, InCall, handlerVars
  <2>2. \A d \in Conn : /\ pc'[d] = "relocal" => pc[d] = "relocal"
                        /\ pc'[d] \in {"inlocal", "greet"} => pc'[d] = pc[d] /\ d # c
    BY <1>12 DEF Insert, Answer, GoTo, RedisTypes
  <2>3. Hands
    BY <2>1, <2>2 DEF Hands, Greeted
  <2>4. pc[c] \in BeforeInsert /\ pc[c] \in BeforeIssue
    BY <1>b, <2>1
  <2> SUFFICES ASSUME NEW n \in Name, NEW e \in Conn, Made(n, e)' PROVE Kept(n, e)'
    BY <1>q, <1>s, Zenon
  <2>5. CASE n = name[c]
    <3>1. e = c
      BY <1>t, <2>1, <2>5, Zenon DEF Made, SetEx, StoreTypes
    <3>2. store'[c] = None
      BY <2>1, <2>4 DEF SetEx, StoreTypes, TokenNames, Keys
    <3>3. ~Greeted(c)'
      BY <2>1, <2>2, <2>4, Zenon DEF Greeted, TokensIssued
    <3>4. ASSUME NEW d \in Conn
          PROVE  (entry[d] # None => entry[d].token # c) /\ token[d] # c /\ presented[d] # c
      BY <2>4, Zenon DEF TokenNames, TokensIssued
    <3> QED
      BY <2>1, <3>1, <3>2, <3>3, <3>4, Zenon DEF Kept
  <2>6. CASE n # name[c]
    <3>1. Made(n, e)
      BY <1>t, <2>1, <2>6, Zenon DEF Made, SetEx, StoreTypes
    <3>2. store'[e] = store[e] /\ (store[e] # None => (n \in ttl[e] => n \in ttl'[e]))
      BY <1>t, <2>1, <2>6 DEF SetEx, StoreTypes
    <3> QED
      BY <1>1, <2>3, <3>1, <3>2, Zenon
  <2> QED
    BY <2>5, <2>6
<1>13. ASSUME NEW c \in Conn, UNCHANGED handlerVars, InsertToken(c) PROVE OwnRegistrations'
  <2>1. /\ pc[c] = "intoken" /\ SetEx(c, name[c])
        /\ UNCHANGED <<entry, token, presented, reply>> /\ name[c] \in Name
    BY <1>13 DEF InsertToken, InCall, handlerVars
  <2>2. \A d \in Conn : /\ pc'[d] = "relocal" => pc[d] = "relocal"
                        /\ pc'[d] \in {"inlocal", "greet"} => pc'[d] = pc[d] \/ d = c
    BY <1>13 DEF InsertToken, Answer, GoTo, RedisTypes
  <2> SUFFICES ASSUME NEW n \in Name, NEW e \in Conn, Made(n, e)' PROVE Kept(n, e)'
    BY <1>q, <1>s
  <2>3. n # c /\ Made(n, e)
    BY <1>t, <2>1 DEF Made, SetEx, StoreTypes
  <2>4. Kept(n, e) /\ name[e] = n
    BY <1>k, <2>3
  <2>5. Greeted(e)' => store'[e] = n
    <3>1. CASE e = c
      BY <1>t, <2>1, <2>4, <3>1, Zenon DEF SetEx, StoreTypes
    <3>2. CASE e # c
      BY <1>t, <2>1, <2>2, <2>4, <3>2, Zenon DEF SetEx, StoreTypes, Greeted, Kept
    <3> QED
      BY <3>1, <3>2
  <2>6. store'[e] # None => n \in ttl'[e]
    <3>1. n \in DOMAIN ttl
      BY <1>t, <2>3, Zenon DEF Made
    <3>2. CASE e = c
      BY <2>1, <2>3, <3>1, <3>2 DEF SetEx
    <3>3. CASE e # c
      BY <1>t, <2>1, <2>3, <2>4, <3>3, Zenon DEF SetEx, StoreTypes, Kept
    <3> QED
      BY <3>2, <3>3, Zenon
  <2> QED
    BY <2>1, <2>2, <2>4, <2>5, <2>6, Zenon DEF Kept
<1> QED
  BY <1>4, <1>5, <1>6, <1>7, <1>8, <1>9, <1>10, <1>11, <1>12, <1>13, Zenon
     DEF Next, Accept, TaskStep, RegistryStep

LEMMA RedisTokenInit == Init => RedisTokenInv
BY KeysAssumption DEF Init, HandlerInit, RegistryInit, RedisTokenInv, TokensIssued, TokenNames,
   OwnRegistrations, Keys

LEMMA RedisTokenStep == RedisTypeInv /\ RedisTokenInv /\ [Next]_vars => RedisTokenInv'
<1> SUFFICES ASSUME RedisTypeInv, RedisTokenInv, [Next]_vars PROVE RedisTokenInv'
  OBVIOUS
<1>1. StoreTypes /\ RedisTypes /\ InCall /\ RedisKeys /\ OtherTypes
  BY Zenon DEF RedisTypeInv, RedisIInv
<1>2. TokensIssued /\ TokenNames /\ OwnRegistrations
  BY DEF RedisTokenInv
<1> QED
  BY <1>1, <1>2, IssuedStep, NamesStep, OwnStep, Zenon DEF RedisTokenInv

\* While Redis holds the registration a client made itself, no other task holds
\* its token or is about to delete its token key, and that key expires after the
\* registration, whichever Redis commands fail half way and whichever servers crash.
THEOREM RedisTokens == Spec => []RedisTokenInv
BY RedisTypeInit, RedisTypeStep, RedisTokenInit, RedisTokenStep, PTL DEF Spec

\* A client that was told to wait can resume as long as Redis holds the
\* registration it made, for any number of servers, names and connections, and
\* although each of the two SETEX of register() may fail or lose its answer.
THEOREM RedisTokenIsKnown == Spec => []TokenKnown
<1>1. RedisTokenInv => TokenKnown
  BY Zenon DEF RedisTokenInv, OwnRegistrations, TokenKnown
<1> QED
  BY <1>1, RedisTokens, PTL

=============================================================================
