------------------------- MODULE RendezvousProofs -------------------------
(***************************************************************************)
(* The safety properties of Rendezvous, for any finite set of connections  *)
(* and any set of names.  IInv is the conjunction of parts that are        *)
(* inductive one after the other: the types and MatchInv                   *)
(* (RendezvousMatching), TokenInv (RendezvousTokens), the counter (here).  *)
(* From it follows that the rendezvous server implements the Matchmaker.   *)
(***************************************************************************)
EXTENDS RendezvousMatching, RendezvousTokens, FiniteSetTheorems

LEMMA ActiveInit == Init => ActiveCountsRunning
<1> SUFFICES ASSUME Init PROVE ActiveCountsRunning
  OBVIOUS
<1>1. Running = {}
  BY Zenon DEF Init, HandlerInit, Running
<1> QED
  BY <1>1, FS_EmptySet, Zenon DEF Init, HandlerInit, Counters, ActiveCountsRunning

LEMMA ActiveStep == TypeOK /\ ActiveCountsRunning /\ [Next]_vars => ActiveCountsRunning'
<1> SUFFICES ASSUME TypeOK, ActiveCountsRunning, [Next]_vars
             PROVE  ActiveCountsRunning'
  OBVIOUS
<1> USE DEF TypeOK, GoTo, registryVars, callVars, handlerVars
<1>1. IsFiniteSet(Running)
  BY ConnAssumption, FS_Subset DEF Running
<1>2. ASSUME NEW c \in Conn, UNCHANGED registryVars, Start(c) PROVE ActiveCountsRunning'
  <2>1. Running' = Running \cup {c} /\ c \notin Running
    BY <1>2, Zenon DEF Start, Running
  <2>2. metrics'["active"] = metrics["active"] + 1
    BY <1>2 DEF Start, Counters
  <2>3. Cardinality(Running \cup {c}) = Cardinality(Running) + 1
    BY <1>1, <2>1, FS_AddElement, Zenon
  <2> QED
    BY <2>1, <2>2, <2>3, Zenon DEF ActiveCountsRunning
<1>3. ASSUME NEW c \in Conn, c \in Running, NEW m, Return(c, m), "active" \notin m
      PROVE  ActiveCountsRunning'
  <2>1. Running' = Running \ {c}
    BY <1>3, Zenon DEF Return, Running
  <2>2. metrics'["active"] = metrics["active"] - 1
    BY <1>3 DEF Return, Count, Counters
  <2> QED
    BY <1>1, <1>3, <2>1, <2>2, FS_RemoveElement, Zenon DEF ActiveCountsRunning
<1>4. ASSUME NEW c \in Conn, UNCHANGED registryVars,
             \/ ReadError(c)   \/ RequestTimeout(c) \/ WriteFails(c)
             \/ ReplyPaired(c) \/ ReplyTimeout(c)   \/ ReplyError(c)
      PROVE  ActiveCountsRunning'
  <2>1. c \in Running
    BY <1>4, Zenon DEF ReadError, RequestTimeout, WriteFails, ReplyPaired, ReplyTimeout, ReplyError,
                Running
  <2> QED
    BY <1>3, <1>4, <2>1, Zenon DEF ReadError, RequestTimeout, WriteFails, ReplyPaired, ReplyTimeout,
                            ReplyError
<1>5. ASSUME Running' = Running, UNCHANGED metrics PROVE ActiveCountsRunning'
  BY <1>5, Zenon DEF ActiveCountsRunning
<1>6. ASSUME NEW c \in Conn, NEW n \in Name, NEW t \in IssuedTokens \cup {None}, Receive(c, n, t), UNCHANGED registryVars
      PROVE  ActiveCountsRunning'
  <2>1. Running' = Running
    BY <1>6 DEF Receive, Running
  <2> QED
    BY <1>5, <1>6, <2>1 DEF Receive
<1>7. ASSUME NEW c \in Conn, UNCHANGED registryVars,
             BadRequest(c) \/ Greet(c) \/ Notified(c) \/ SenderDropped(c) \/ WaitTimeout(c)
      PROVE  ActiveCountsRunning'
  <2>1. Running' = Running
    BY <1>7, Zenon DEF BadRequest, Greet, Notified, SenderDropped, WaitTimeout, Running
  <2> QED
    BY <1>5, <1>7, <2>1, Zenon DEF BadRequest, Greet, Notified, SenderDropped, WaitTimeout
<1>8. ASSUME NEW c \in Conn, RegistryStep(c), UNCHANGED handlerVars
      PROVE  ActiveCountsRunning'
  <2>1. Running' = Running
    BY <1>8 DEF RegistryStep, Lookup, Resume, ResumeMiss, Claim, ClaimMiss, Notify,
                ForgetPeerToken, Insert, InsertToken, Unregister, UnregisterToken, Running
  <2> QED
    BY <1>5, <1>8, <2>1
<1>9. CASE CleanupStep
  BY <1>5, <1>9, Zenon DEF CleanupStep, Cleanup, CleanupLock, CleanupRemove, Running
<1>10. CASE UNCHANGED vars
  BY <1>5, <1>10, Zenon DEF vars, Running
<1> QED
  BY <1>2, <1>4, <1>6, <1>7, <1>8, <1>9, <1>10 DEF Next, TaskStep, HandlerStep

-----------------------------------------------------------------------------
\* IInv is an invariant: each part is inductive given the parts before it.
THEOREM Invariance == Spec => []IInv
<1>1. Init => IInv
  BY TypeInit, MatchInit, TokenInit, ActiveInit DEF IInv
<1>2. IInv /\ [Next]_vars => IInv'
  BY TypeStep, MatchStep, TokenStep, ActiveStep DEF IInv
<1> QED
  BY <1>1, <1>2, PTL DEF Spec

\* Every variable of the registry and of the tasks keeps its type.
THEOREM TypeCorrect == Spec => []TypeOK
  BY Invariance, PTL DEF IInv

\* The address that register() sends down a waiting client's channel is always
\* that of the client that was given the waiting one's address in turn.
THEOREM NotificationsAreMutual == Spec => []NotifiedIsMutual
  BY Invariance, PTL DEF IInv, MatchInv

\* register() and the channel never give one client's address to two others.
THEOREM ClientsAreMatchedOnce == Spec => []MatchedOnce
  BY Invariance, PTL DEF IInv, MatchInv

\* The task that removed a client's entry notifies it while it listens.
THEOREM NoNotificationIsLost == Spec => []ClaimedWaiterHears
  BY Invariance, PTL DEF IInv, MatchInv

\* A waiting entry and its reconnect token come and go together.
THEOREM WaitingClientsCanResume == Spec => []TokenKnown
  BY Invariance, PTL DEF IInv, TokenInv

\* A client that reconnects is never paired with its own old registration.
THEOREM NobodyPairsWithItself == Spec => []NoSelfPairing
  BY Invariance, PTL DEF IInv, TokenInv

\* The active_connections counter is exact whenever a task is not inside it.
THEOREM ActiveCounterIsExact == Spec => []ActiveCountsRunning
  BY Invariance, PTL DEF IInv

-----------------------------------------------------------------------------
(***************************************************************************)
(* The server implements the Matchmaker                                    *)
(***************************************************************************)

LEMMA MatchmakerInit == Init => M!MatchInit
  BY NoneAssumption DEF Init, HandlerInit, RegistryInit, M!MatchInit, OpenOffer, BeforeOffer, underBar, offerBar

\* A connection that has not offered itself has no open offer.
LEMMA NoOfferBefore ==
  ASSUME TypeOK, LiveEntries, NEW c \in Conn, pc[c] \in BeforeOffer
  PROVE  ~OpenOffer(c)
<1>1. name[c] \in Name \cup {None}
  BY Zenon DEF TypeOK
<1> QED
  BY <1>1, Zenon DEF LiveEntries, OpenOffer

\* The open offers are the infos of the entries in pairings.
LEMMA OfferOf ==
  ASSUME TypeOK, LiveEntries, NEW n \in Name, pairings[n] # None
  PROVE  /\ pairings[n].info \in Conn
         /\ name[pairings[n].info] = n
         /\ offerBar[pairings[n].info] = n
         /\ \A d \in Conn : offerBar[d] = n => d = pairings[n].info
<1>1. pairings[n].info \in Conn /\ name[pairings[n].info] = n
  BY DEF TypeOK, LiveEntries, Entry
<1>2. offerBar[pairings[n].info] = n
  BY <1>1, NoneAssumption, Zenon DEF offerBar, OpenOffer
<1>3. ASSUME NEW d \in Conn, offerBar[d] = n PROVE d = pairings[n].info
  BY <1>3, NoneAssumption DEF offerBar, OpenOffer
<1> QED
  BY <1>1, <1>2, <1>3

\* An entry that disappears is one offer that closes.
LEMMA Closes ==
  ASSUME TypeOK, LiveEntries, UNCHANGED name, NEW n \in Name, pairings[n] # None,
         pairings' = [pairings EXCEPT ![n] = None]
  PROVE  offerBar' = [offerBar EXCEPT ![pairings[n].info] = None]
<1>1. pairings \in [Name -> Entry \cup {None}] /\ name \in [Conn -> Name \cup {None}]
  BY Zenon DEF TypeOK
<1>2. PICK i \in Conn : i = pairings[n].info /\ name[i] = n
  BY OfferOf, Zenon
<1>3. ASSUME NEW d \in Conn, d # i PROVE OpenOffer(d)' <=> OpenOffer(d)
  <2>1. CASE name[d] = n
    BY <1>1, <1>2, <1>3, <2>1, Zenon DEF OpenOffer
  <2>2. CASE name[d] # n
    BY <1>1, <2>2, Zenon DEF OpenOffer
  <2> QED
    BY <2>1, <2>2
<1>4. ~OpenOffer(i)'
  BY <1>1, <1>2, Zenon DEF OpenOffer
<1>5. offerBar' = [offerBar EXCEPT ![i] = None]
  BY <1>3, <1>4, Zenon DEF offerBar
<1> QED
  BY <1>2, <1>5, Zenon

-----------------------------------------------------------------------------
LEMMA MatchmakerStep == IInv /\ IInv' /\ [Next]_vars => [M!MatchNext]_(M!matchVars)
<1> SUFFICES ASSUME IInv, IInv', [Next]_vars
             PROVE  M!MatchNext \/ UNCHANGED <<underBar, offerBar, peer>>
  BY DEF M!matchVars
<1>i. /\ TypeOK /\ PcInv /\ LiveEntries /\ NotifiedIsMutual
      /\ TypeOK' /\ LiveEntries'
  BY Zenon DEF IInv, MatchInv
<1>t. /\ pairings \in [Name -> Entry \cup {None}]
      /\ pc \in [Conn -> PCs]
      /\ name \in [Conn -> Name \cup {None}]
      /\ peer \in [Conn -> Conn \cup {None}]
      /\ inbox \in [Conn -> Conn \cup {None}]
  BY <1>i, Zenon DEF TypeOK
<1> USE NoneAssumption DEF GoTo
\* Offering: Insert and Resume.
<1>1. ASSUME NEW c \in Conn, Insert(c) \/ Resume(c) PROVE M!MatchNext
  <2>1. name[c] \in Name /\ pc[c] \in BeforeOffer /\ UNCHANGED <<name, peer>>
    BY <1>1, <1>i, Zenon DEF Insert, Resume, PcInv, BeforeOffer
  <2>2. underBar' = [underBar EXCEPT ![c] = name[c]] /\ underBar[c] = None
    BY <1>1, <1>t, <2>1, Zenon DEF Insert, Resume, underBar, BeforeOffer
  <2>3. PICK n \in Name : n = name[c]
    BY <2>1, Zenon
  <2>4. pairings'[n] # None /\ pairings'[n].info = c
    <3>1. CASE Insert(c)
      BY <1>t, <2>3, <3>1 DEF Insert, Entry
    <3>2. CASE Resume(c)
      <4>1. presented[c] \in Conn
        BY <1>i, <3>2, Zenon DEF Resume, PcInv
      <4> QED
        BY <1>t, <2>3, <3>2, <4>1 DEF Resume, Entry
    <3> QED
      BY <1>1, <3>1, <3>2
  <2>5. ASSUME NEW d \in Conn, d # c
        PROVE  offerBar'[d] = IF offerBar[d] = n THEN None ELSE offerBar[d]
    <3>1. CASE name[d] = n
      BY <2>1, <2>4, <2>5, <3>1, Zenon DEF offerBar, OpenOffer
    <3>2. CASE name[d] # n
      <4>1. OpenOffer(d)' <=> OpenOffer(d)
        BY <1>1, <1>t, <2>1, <2>3, <3>2 DEF Insert, Resume, OpenOffer
      <4> QED
        BY <2>1, <3>2, <4>1 DEF offerBar
    <3> QED
      BY <3>1, <3>2
  <2>6. offerBar'[c] = n
    BY <2>1, <2>3, <2>4, Zenon DEF offerBar, OpenOffer
  <2>7. offerBar' = [d \in Conn |-> IF d = c THEN n
                                    ELSE IF offerBar[d] = n THEN None ELSE offerBar[d]]
    BY <2>5, <2>6 DEF offerBar
  <2>8. M!Offer(c, n)
    BY <2>1, <2>2, <2>3, <2>7, Zenon DEF M!Offer
  <2> QED
    BY <2>8 DEF M!MatchNext
\* Taking: Claim.
<1>2. ASSUME NEW c \in Conn, Claim(c) PROVE M!MatchNext
  <2>1. PICK n \in Name : n = name[c]
    BY <1>2, <1>i, Zenon DEF Claim, PcInv
  <2>2. PICK i \in Conn : i = pairings[n].info /\ offerBar[i] = n
    BY <1>2, <1>i, <2>1, OfferOf, Zenon DEF Claim
  <2>3. offerBar' = [offerBar EXCEPT ![i] = None]
    BY <1>2, <1>i, <2>1, <2>2, Closes, Zenon DEF Claim
  <2>4. underBar' = [underBar EXCEPT ![c] = n] /\ underBar[c] = None
    BY <1>2, <1>t, <2>1, Zenon DEF Claim, underBar, BeforeOffer
  <2>5. M!Take(c, i)
    BY <1>2, <2>1, <2>2, <2>3, <2>4, Zenon DEF Claim, M!Take
  <2> QED
    BY <2>5 DEF M!MatchNext
\* Hearing: Notified.
<1>3. ASSUME NEW c \in Conn, UNCHANGED registryVars, Notified(c) PROVE M!MatchNext
  <2>1. PICK d \in Conn : d = inbox[c] /\ peer[d] = c /\ peer[c] = None
    BY <1>3, <1>i, <1>t DEF Notified, NotifiedIsMutual, PcInv, AfterOffer
  <2>2. UNCHANGED <<underBar, offerBar>>
    BY <1>3, <1>t DEF Notified, underBar, offerBar, OpenOffer, BeforeOffer, registryVars
  <2>3. M!Hear(c, d)
    BY <1>3, <2>1, <2>2 DEF Notified, M!Hear
  <2> QED
    BY <2>3 DEF M!MatchNext
\* Withdrawing: Unregister and CleanupRemove.
<1>4. ASSUME UNCHANGED <<name, peer, underBar>>, NEW n \in Name,
             pairings' = [pairings EXCEPT ![n] = None]
      PROVE  M!MatchNext \/ UNCHANGED <<underBar, offerBar, peer>>
  <2>1. CASE pairings[n] = None
    <3>1. pairings' = pairings
      BY <1>4, <1>t, <2>1, Zenon
    <3> QED
      BY <1>4, <3>1, Zenon DEF offerBar, OpenOffer
  <2>2. CASE pairings[n] # None
    <3>1. PICK i \in Conn : i = pairings[n].info /\ offerBar[i] = n
      BY <1>i, <2>2, OfferOf, Zenon
    <3>2. offerBar' = [offerBar EXCEPT ![i] = None]
      BY <1>4, <1>i, <2>2, <3>1, Closes, Zenon
    <3>3. M!Withdraw(i)
      BY <1>4, <3>1, <3>2, Zenon DEF M!Withdraw
    <3> QED
      BY <3>3, Zenon DEF M!MatchNext
  <2> QED
    BY <2>1, <2>2
<1>5. ASSUME NEW c \in Conn, Unregister(c)
      PROVE  M!MatchNext \/ UNCHANGED <<underBar, offerBar, peer>>
  <2>1. name[c] \in Name /\ UNCHANGED <<name, peer>>
    BY <1>5, <1>i, Zenon DEF Unregister, PcInv
  <2>2. underBar' = underBar
    BY <1>5, <1>t DEF Unregister, underBar, BeforeOffer
  <2> QED
    BY <1>4, <1>5, <2>1, <2>2, Zenon DEF Unregister
<1>6. ASSUME CleanupRemove
      PROVE  M!MatchNext \/ UNCHANGED <<underBar, offerBar, peer>>
  <2>1. cleaner \in Name /\ UNCHANGED <<name, peer, pc>>
    BY <1>6, <1>i, Zenon DEF CleanupRemove, TypeOK, callVars
  <2>2. underBar' = underBar
    BY <2>1, Zenon DEF underBar
  <2> QED
    BY <1>4, <1>6, <2>1, <2>2, Zenon DEF CleanupRemove
\* Everything else stutters: it changes no entry and no peer, and what a task
\* does before it has offered itself is not visible.
<1>7. ASSUME UNCHANGED <<pairings, peer>>,
             \A d \in Conn : \/ name'[d] = name[d]
                             \/ pc[d] \in BeforeOffer /\ pc'[d] \in BeforeOffer,
             \A d \in Conn : \/ pc[d] \in BeforeOffer <=> pc'[d] \in BeforeOffer
                             \/ name[d] = None /\ name'[d] = None
      PROVE  UNCHANGED <<underBar, offerBar, peer>>
  <2>1. underBar' = underBar
    BY <1>7, Zenon DEF underBar
  <2>2. ASSUME NEW d \in Conn PROVE offerBar'[d] = offerBar[d]
    <3>1. CASE name'[d] = name[d]
      BY <1>7, <3>1 DEF offerBar, OpenOffer
    <3>2. CASE pc[d] \in BeforeOffer /\ pc'[d] \in BeforeOffer
      <4>1. ~OpenOffer(d)
        BY <1>i, <3>2, NoOfferBefore, Zenon
      <4>2. (pc[d] \in BeforeOffer)'
        BY <3>2, Zenon DEF BeforeOffer
      <4>3. ~OpenOffer(d)'
        <5>1. name'[d] \in Name \cup {None}
          BY <1>i, Zenon DEF TypeOK
        <5> QED
          BY <1>i, <4>2, <5>1, Zenon DEF LiveEntries, OpenOffer, BeforeOffer
      <4> QED
        BY <4>1, <4>3 DEF offerBar
    <3> QED
      BY <1>7, <3>1, <3>2, Zenon
  <2>3. offerBar' = offerBar
    BY <2>2, Zenon DEF offerBar
  <2> QED
    BY <1>7, <2>1, <2>3, Zenon
<1> USE DEF registryVars, callVars, handlerVars
<1>8. ASSUME NEW c \in Conn, UNCHANGED registryVars,
             \/ Start(c) \/ BadRequest(c) \/ Greet(c) \/ SenderDropped(c) \/ WaitTimeout(c)
      PROVE  UNCHANGED <<underBar, offerBar, peer>>
  BY <1>7, <1>8, <1>t DEF Start, BadRequest, Greet, SenderDropped, WaitTimeout, BeforeOffer
<1>9. ASSUME NEW c \in Conn, NEW n \in Name, NEW t \in IssuedTokens \cup {None}, Receive(c, n, t), UNCHANGED registryVars
      PROVE  UNCHANGED <<underBar, offerBar, peer>>
  BY <1>7, <1>9, <1>t, Zenon DEF Receive, BeforeOffer
<1>10. ASSUME NEW c \in Conn, UNCHANGED registryVars, ReadError(c) \/ RequestTimeout(c) \/ ReplyError(c) \/ WriteFails(c)
       PROVE  UNCHANGED <<underBar, offerBar, peer>>
  <2>1. pc[c] \in BeforeOffer => name[c] = None
    BY <1>10, <1>i, Zenon DEF ReadError, RequestTimeout, ReplyError, WriteFails, PcInv, BeforeOffer
  <2> QED
    BY <1>7, <1>10, <1>t, <2>1
    DEF ReadError, RequestTimeout, ReplyError, WriteFails, Return, BeforeOffer
<1>11. ASSUME NEW c \in Conn, UNCHANGED registryVars, ReplyPaired(c) \/ ReplyTimeout(c)
       PROVE  UNCHANGED <<underBar, offerBar, peer>>
  BY <1>7, <1>11, <1>t DEF ReplyPaired, ReplyTimeout, Return, BeforeOffer
<1>12. ASSUME NEW c \in Conn, Lookup(c) \/ ResumeMiss(c) \/ ClaimMiss(c)
       PROVE  UNCHANGED <<underBar, offerBar, peer>>
  BY <1>7, <1>12, <1>t DEF Lookup, ResumeMiss, ClaimMiss, BeforeOffer
<1>13. ASSUME NEW c \in Conn, Notify(c) \/ ForgetPeerToken(c) \/ InsertToken(c) \/ UnregisterToken(c)
       PROVE  UNCHANGED <<underBar, offerBar, peer>>
  BY <1>7, <1>13, <1>t DEF Notify, ForgetPeerToken, InsertToken, UnregisterToken, BeforeOffer
<1>14. ASSUME NEW n \in Name, CleanupLock(n) PROVE UNCHANGED <<underBar, offerBar, peer>>
  BY <1>7, <1>14 DEF CleanupLock
<1>15. ASSUME UNCHANGED vars PROVE UNCHANGED <<underBar, offerBar, peer>>
  BY <1>7, <1>15, Zenon DEF vars
<1> QED
  BY <1>1, <1>2, <1>3, <1>5, <1>6, <1>8, <1>9, <1>10, <1>11, <1>12, <1>13, <1>14, <1>15
  DEF Next, TaskStep, HandlerStep, RegistryStep, CleanupStep, Cleanup

\* The rendezvous server keeps the promise of the Matchmaker: register(), the
\* notification channel, unregister() and cleanup_expired() are its four actions.
THEOREM Refinement == Spec => ImplementsMatchmaker
<1>1. Spec => []IInv
  BY Invariance, Zenon
<1>2. Init => M!MatchInit
  BY MatchmakerInit
<1>3. IInv /\ IInv' /\ [Next]_vars => [M!MatchNext]_(M!matchVars)
  BY MatchmakerStep
<1> QED
  BY <1>1, <1>2, <1>3, PTL DEF Spec, ImplementsMatchmaker, M!MatchSpec

=============================================================================
