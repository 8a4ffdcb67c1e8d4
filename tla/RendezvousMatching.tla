------------------------ MODULE RendezvousMatching ------------------------
(***************************************************************************)
(* The types, PcInv and MatchInv are preserved: the address and the        *)
(* channel of a waiting client stay together until one task takes both.    *)
(***************************************************************************)
EXTENDS RendezvousInv, TLAPS

LEMMA TypeInit == Init => TypeOK /\ PcInv
  BY DEF Init, HandlerInit, RegistryInit, TypeOK, PcInv, PCs, BeforeOffer, AfterOffer, Claiming,
         Replies, Counters

\* The steps of handle_connection() keep the types.
LEMMA TypeHandler ==
  ASSUME TypeOK, PcInv, UNCHANGED registryVars, NEW c \in Conn,
         Start(c) \/ HandlerStep(c, SenderAlive(c))
  PROVE  TypeOK' /\ PcInv'
<1> USE NoneAssumption
<1> USE DEF TypeOK, PcInv, PCs, BeforeOffer, AfterOffer, Claiming, GoTo, registryVars, handlerVars
<1>1. CASE Start(c)
  BY <1>1 DEF Start, Counters
<1>2. ASSUME NEW n \in Name, NEW t \in IssuedTokens \cup {None}, Receive(c, n, t)
      PROVE  TypeOK' /\ PcInv'
  <2>1. t \in Conn \cup {None}
    BY DEF IssuedTokens
  <2> QED
    BY <1>2, <2>1 DEF Receive
<1>3. CASE BadRequest(c)
  BY <1>3 DEF BadRequest
<1>4. CASE ReadError(c) \/ RequestTimeout(c) \/ WriteFails(c)
  BY <1>4 DEF ReadError, RequestTimeout, WriteFails, Return, Count, Counters
<1>5. CASE Greet(c)
  BY <1>5 DEF Greet, Replies
<1>6. CASE Notified(c)
  BY <1>6 DEF Notified
<1>7. CASE SenderDropped(c) \/ WaitTimeout(c)
  BY <1>7 DEF SenderDropped, WaitTimeout
<1>8. CASE ReplyPaired(c) \/ ReplyTimeout(c) \/ ReplyError(c)
  BY <1>8 DEF ReplyPaired, ReplyTimeout, ReplyError, Return, Count, Counters, Replies
<1> HIDE DEF TypeOK, PcInv, registryVars, handlerVars
<1> QED
  BY <1>1, <1>2, <1>3, <1>4, <1>5, <1>6, <1>7, <1>8, Zenon DEF HandlerStep

\* The map operations of register() keep the types.
LEMMA TypeRegister ==
  ASSUME TypeOK, PcInv, UNCHANGED handlerVars, NEW c \in Conn,
         \/ Lookup(c) \/ ResumeMiss(c) \/ ClaimMiss(c)
         \/ Resume(c) \/ Claim(c) \/ Notify(c) \/ ForgetPeerToken(c)
         \/ Insert(c) \/ InsertToken(c)
  PROVE  TypeOK' /\ PcInv'
<1> USE NoneAssumption DEF GoTo, handlerVars
<1>p. {"resume", "claim", "insert", "greet", "notify", "untoken", "intoken", "paired"} \subseteq PCs
  BY Zenon DEF PCs, BeforeOffer, AfterOffer, Claiming
<1>n. name[c] \in Name
  BY Zenon DEF PcInv, Lookup, ResumeMiss, ClaimMiss, Resume, Claim, Notify, ForgetPeerToken, Insert, InsertToken
<1>1. CASE Lookup(c) \/ ResumeMiss(c) \/ ClaimMiss(c)
  <2>1. TypeOK'
    BY <1>1, <1>p DEF Lookup, ResumeMiss, ClaimMiss, registryVars, TypeOK
  <2>2. PcInv'
    BY <1>1 DEF Lookup, ResumeMiss, ClaimMiss, registryVars, PcInv, TypeOK, BeforeOffer, AfterOffer, Claiming
  <2> QED
    BY <2>1, <2>2, Zenon
<1>2. CASE Resume(c)
  <2>1. presented[c] \in Conn /\ [info |-> c, token |-> presented[c], tx |-> c] \in Entry
    BY <1>2, Zenon DEF Resume, PcInv, Entry
  <2>2. TypeOK'
    BY <1>2, <1>p, <1>n, <2>1, Zenon DEF Resume, TypeOK
  <2>3. PcInv'
    BY <1>2, <1>n, <2>1 DEF Resume, PcInv, TypeOK, BeforeOffer, AfterOffer, Claiming
  <2> QED
    BY <2>2, <2>3, Zenon
<1>3. CASE Claim(c)
  <2>1. cleaner # name[c] /\ pairings[name[c]] \in Entry
    BY <1>3, <1>n, Zenon DEF Claim, ShardFree, TypeOK
  <2>2. pairings[name[c]].info \in Conn
    BY <2>1, Zenon DEF Entry
  <2>3. TypeOK'
    BY <1>3, <1>p, <1>n, <2>1, <2>2, Zenon DEF Claim, TypeOK
  <2>4. PcInv'
    BY <1>3, <1>n, <2>1 DEF Claim, PcInv, TypeOK, BeforeOffer, AfterOffer, Claiming
  <2> QED
    BY <2>3, <2>4, Zenon
<1>4. CASE Notify(c)
  <2>1. entry[c].tx \in Conn
    BY <1>4, Zenon DEF Notify, PcInv, Claiming, Entry
  <2>2. TypeOK'
    BY <1>4, <1>p, <2>1, Zenon DEF Notify, registryVars, TypeOK
  <2>3. \A d \in Conn : pc[d] \in BeforeOffer => inbox'[d] = inbox[d]
    BY <1>4, <2>1, Zenon DEF Notify, ReceiverAlive, BeforeOffer, TypeOK
  <2>4. PcInv'
    BY <1>4, <2>3 DEF Notify, registryVars, PcInv, TypeOK, BeforeOffer, AfterOffer, Claiming
  <2> QED
    BY <2>2, <2>4, Zenon
<1>5. CASE ForgetPeerToken(c)
  <2>1. entry[c].token \in Conn
    BY <1>5, Zenon DEF ForgetPeerToken, PcInv, Claiming, Entry
  <2>2. TypeOK'
    BY <1>5, <1>p, <2>1, Zenon DEF ForgetPeerToken, TypeOK
  <2>3. PcInv'
    BY <1>5 DEF ForgetPeerToken, PcInv, TypeOK, BeforeOffer, AfterOffer, Claiming
  <2> QED
    BY <2>2, <2>3, Zenon
<1>6. CASE Insert(c)
  <2>1. [info |-> c, token |-> c, tx |-> c] \in Entry
    BY Zenon DEF Entry
  <2>2. TypeOK'
    BY <1>6, <1>p, <1>n, <2>1, Zenon DEF Insert, TypeOK
  <2>3. PcInv'
    BY <1>6, <1>n, <2>1 DEF Insert, PcInv, TypeOK, BeforeOffer, AfterOffer, Claiming
  <2> QED
    BY <2>2, <2>3, Zenon
<1>7. CASE InsertToken(c)
  <2>1. TypeOK'
    BY <1>7, <1>p, <1>n, Zenon DEF InsertToken, TypeOK
  <2>2. PcInv'
    BY <1>7 DEF InsertToken, PcInv, TypeOK, BeforeOffer, AfterOffer, Claiming
  <2> QED
    BY <2>1, <2>2, Zenon
<1> QED
  BY <1>1, <1>2, <1>3, <1>4, <1>5, <1>6, <1>7, Zenon

\* The map operations of unregister() and cleanup_expired() keep the types.
LEMMA TypeRemove ==
  ASSUME TypeOK, PcInv, UNCHANGED handlerVars,
         \/ \E c \in Conn : Unregister(c) \/ UnregisterToken(c)
         \/ Cleanup
  PROVE  TypeOK' /\ PcInv'
<1> USE NoneAssumption DEF GoTo, handlerVars
<1>p. {"unregtoken", "timedOut"} \subseteq PCs
  BY Zenon DEF PCs, AfterOffer
<1>1. ASSUME NEW c \in Conn, Unregister(c) PROVE TypeOK' /\ PcInv'
  <2>1. /\ pc[c] = "unregister" /\ name[c] \in Name /\ cleaner # name[c]
        /\ pairings' = [pairings EXCEPT ![name[c]] = None]
        /\ UNCHANGED <<tokens, cleaner, name, presented, token, peer, inbox, reply, metrics>>
    BY <1>1, Zenon DEF Unregister, ShardFree, PcInv
  <2>2. CASE OwnEntry(c)
    <3>1. /\ entry' = [entry EXCEPT ![c] = pairings[name[c]]] /\ pairings[name[c]] \in Entry
          /\ pc' = [pc EXCEPT ![c] = "unregtoken"]
      BY <1>1, <2>1, <2>2 DEF Unregister, OwnEntry, TypeOK
    <3>2. TypeOK'
      BY <1>p, <2>1, <3>1, Zenon DEF TypeOK
    <3>3. PcInv'
      BY <2>1, <3>1 DEF PcInv, TypeOK, BeforeOffer, AfterOffer, Claiming
    <3> QED
      BY <3>2, <3>3, Zenon
  <2>3. CASE ~OwnEntry(c)
    <3>1. UNCHANGED entry /\ pc' = [pc EXCEPT ![c] = "timedOut"]
      BY <1>1, <2>3, Zenon DEF Unregister
    <3>2. TypeOK'
      BY <1>p, <2>1, <3>1, Zenon DEF TypeOK
    <3>3. PcInv'
      BY <2>1, <3>1 DEF PcInv, TypeOK, BeforeOffer, AfterOffer, Claiming
    <3> QED
      BY <3>2, <3>3, Zenon
  <2> QED
    BY <2>2, <2>3, Zenon
<1>2. ASSUME NEW c \in Conn, UnregisterToken(c) PROVE TypeOK' /\ PcInv'
  <2>1. token[c] \in Conn
    BY <1>2, Zenon DEF UnregisterToken, PcInv, AfterOffer
  <2>2. TypeOK'
    BY <1>2, <1>p, <2>1, Zenon DEF UnregisterToken, TypeOK
  <2>3. PcInv'
    BY <1>2 DEF UnregisterToken, PcInv, TypeOK, BeforeOffer, AfterOffer, Claiming
  <2> QED
    BY <2>2, <2>3, Zenon
<1>3. ASSUME NEW n \in Name, CleanupLock(n) PROVE TypeOK' /\ PcInv'
  BY <1>3, Zenon DEF CleanupLock, callVars, TypeOK, PcInv
<1>4. CASE CleanupRemove
  <2>1. cleaner \in Name /\ pairings[cleaner].token \in Conn
    BY <1>4 DEF CleanupRemove, PcInv, TypeOK, Entry
  <2>2. TypeOK'
    BY <1>4, <2>1 DEF CleanupRemove, callVars, TypeOK
  <2>3. PcInv'
    BY <1>4 DEF CleanupRemove, callVars, PcInv
  <2> QED
    BY <2>2, <2>3, Zenon
<1> QED
  BY <1>1, <1>2, <1>3, <1>4, Zenon DEF Cleanup

LEMMA TypeStep == TypeOK /\ PcInv /\ [Next]_vars => TypeOK' /\ PcInv'
<1> SUFFICES ASSUME TypeOK, PcInv, [Next]_vars
             PROVE  TypeOK' /\ PcInv'
  OBVIOUS
<1>1. CASE UNCHANGED vars
  BY <1>1, Zenon DEF vars, TypeOK, PcInv
<1> QED
  BY <1>1, TypeHandler, TypeRegister, TypeRemove, Zenon DEF Next, TaskStep, RegistryStep, CleanupStep

-----------------------------------------------------------------------------
LEMMA MatchInit == Init => MatchInv
  BY NoneAssumption DEF Init, HandlerInit, RegistryInit, MatchInv, LiveEntries, ClaimedEntries, PeerBack,
     NotifiedIsMutual, MatchedOnce, ClaimedWaiterHears, Claiming

\* A step that takes no entry, makes none, tells nobody of a peer, and moves no
\* task back or into a role it did not have.
Quiet ==
    /\ \A n \in Name : pairings'[n] \in {pairings[n], None}
    /\ UNCHANGED <<peer, inbox>>
    /\ \A d \in Conn :
        /\ pc[d] \notin BeforeOffer => pc'[d] \notin BeforeOffer /\ name'[d] = name[d]
        /\ pc'[d] \in Claiming => pc[d] \in Claiming /\ entry'[d] = entry[d]
        /\ ReceiverAlive(d)' => ReceiverAlive(d)
        /\ pc[d] = "notify" => pc'[d] = "notify"

LEMMA QuietStep == TypeOK /\ MatchInv /\ Quiet => MatchInv'
<1> SUFFICES ASSUME TypeOK, MatchInv, Quiet PROVE MatchInv'
  OBVIOUS
<1>t. \A n \in Name : pairings[n] # None => pairings[n].info \in Conn
  BY Zenon DEF TypeOK, Entry
<1>u. peer \in [Conn -> Conn \cup {None}] /\ inbox \in [Conn -> Conn \cup {None}]
  BY Zenon DEF TypeOK
<1> USE <1>t, <1>u, NoneAssumption DEF MatchInv, Quiet
<1>1. LiveEntries'
  BY DEF LiveEntries
<1>2. ClaimedEntries'
  BY Zenon DEF ClaimedEntries
<1>3. PeerBack'
  BY DEF PeerBack
<1>4. NotifiedIsMutual' /\ MatchedOnce'
  BY Zenon DEF NotifiedIsMutual, MatchedOnce
<1>5. ClaimedWaiterHears'
  BY DEF ClaimedWaiterHears
<1> QED
  BY <1>1, <1>2, <1>3, <1>4, <1>5, Zenon

LEMMA MatchStep == TypeOK /\ PcInv /\ MatchInv /\ [Next]_vars => MatchInv'
<1> SUFFICES ASSUME TypeOK, PcInv, MatchInv, [Next]_vars
             PROVE  MatchInv'
  OBVIOUS
<1>t. /\ pairings \in [Name -> Entry \cup {None}]
      /\ pc \in [Conn -> PCs]
      /\ name \in [Conn -> Name \cup {None}]
      /\ entry \in [Conn -> Entry \cup {None}]
      /\ peer \in [Conn -> Conn \cup {None}]
      /\ inbox \in [Conn -> Conn \cup {None}]
  BY Zenon DEF TypeOK
<1> USE <1>t, NoneAssumption DEF BeforeOffer, Claiming, ReceiverAlive, GoTo
<1>1. ASSUME NEW c \in Conn, NEW n \in Name, NEW t \in IssuedTokens \cup {None}, Receive(c, n, t), UNCHANGED registryVars
      PROVE  Quiet
  BY <1>1 DEF Receive, Quiet, registryVars
<1>2. ASSUME NEW c \in Conn, UNCHANGED registryVars, Start(c) \/ BadRequest(c) \/ Greet(c)
      PROVE  Quiet
  BY <1>2 DEF Start, BadRequest, Greet, Quiet, registryVars, handlerVars
<1>3. ASSUME NEW c \in Conn, UNCHANGED registryVars, SenderDropped(c) \/ WaitTimeout(c)
      PROVE  Quiet
  BY <1>3 DEF SenderDropped, WaitTimeout, Quiet, registryVars, handlerVars
<1>4. ASSUME NEW c \in Conn, UNCHANGED registryVars, ReadError(c) \/ RequestTimeout(c) \/ WriteFails(c)
      PROVE  Quiet
  BY <1>4 DEF ReadError, RequestTimeout, WriteFails, Quiet, Return, registryVars
<1>5. ASSUME NEW c \in Conn, UNCHANGED registryVars, ReplyPaired(c) \/ ReplyTimeout(c) \/ ReplyError(c)
      PROVE  Quiet
  BY <1>5 DEF ReplyPaired, ReplyTimeout, ReplyError, Quiet, Return, registryVars
<1>6. ASSUME NEW c \in Conn, Lookup(c) \/ ResumeMiss(c) \/ ClaimMiss(c)
      PROVE  Quiet
  BY <1>6 DEF Lookup, ResumeMiss, ClaimMiss, Quiet, registryVars
<1>7. ASSUME NEW c \in Conn, ForgetPeerToken(c) \/ InsertToken(c)
      PROVE  Quiet
  BY <1>7 DEF ForgetPeerToken, InsertToken, Quiet
<1>8. ASSUME NEW c \in Conn, Unregister(c)
      PROVE  Quiet
  BY <1>8 DEF Unregister, Quiet
<1>9. ASSUME NEW c \in Conn, UnregisterToken(c)
      PROVE  Quiet
  BY <1>9, Zenon DEF UnregisterToken, Quiet
<1>10. ASSUME NEW n \in Name, CleanupLock(n) PROVE Quiet
  BY <1>10, Zenon DEF CleanupLock, Quiet, callVars
<1>11. ASSUME CleanupRemove PROVE Quiet
  BY <1>11, Zenon DEF CleanupRemove, Quiet, callVars, TypeOK
<1>12. ASSUME UNCHANGED vars PROVE Quiet
  BY <1>12, Zenon DEF vars, Quiet
<1>13. ASSUME NEW c \in Conn, Resume(c) \/ Insert(c) PROVE MatchInv'
  <2>f. name[c] \in Name /\ peer[c] = None /\ inbox[c] = None
    BY <1>13, Zenon DEF Resume, Insert, PcInv
  <2>g. /\ pairings'[name[c]].info = c /\ pairings'[name[c]].tx = c
        /\ \A n \in Name : n # name[c] => pairings'[n] = pairings[n]
        /\ UNCHANGED <<name, peer, inbox>>
    BY <1>13, <2>f DEF Resume, Insert
  <2>h. /\ pc[c] \in BeforeOffer /\ pc'[c] \notin BeforeOffer
        /\ \A d \in Conn : d # c => pc'[d] = pc[d]
    BY <1>13 DEF Resume, Insert
  <2>1. LiveEntries'
    <3>1. \A d \in Conn : peer[d] # c
      BY <2>h DEF MatchInv, PeerBack
    <3> SUFFICES ASSUME NEW n \in Name, pairings'[n] # None
                 PROVE  LET i == pairings'[n].info
                        IN  /\ pairings'[n].tx = i /\ name'[i] = n /\ pc'[i] \notin BeforeOffer
                            /\ inbox'[i] = None /\ peer'[i] = None
                            /\ \A d \in Conn : peer'[d] # i
      BY Zenon DEF LiveEntries
    <3>2. CASE n = name[c]
      BY <2>f, <2>g, <2>h, <3>1, <3>2
    <3>3. CASE n # name[c]
      <4>1. pairings'[n] = pairings[n] /\ pairings[n].info \in Conn
        BY <2>g, <3>3 DEF Entry
      <4>2. pc'[pairings[n].info] \notin BeforeOffer
        BY <2>h, <4>1 DEF MatchInv, LiveEntries
      <4> QED
        BY <2>g, <4>1, <4>2 DEF MatchInv, LiveEntries
    <3> QED
      BY <3>2, <3>3, Zenon
  <2>2. PeerBack'
    <3> SUFFICES ASSUME NEW d \in Conn, peer[d] # None
                 PROVE  pc'[peer[d]] \notin BeforeOffer /\ peer[peer[d]] \in {None, d}
      BY <2>g, Zenon DEF PeerBack
    <3>1. pc[peer[d]] \notin BeforeOffer /\ peer[peer[d]] \in {None, d}
      BY Zenon DEF MatchInv, PeerBack
    <3> QED
      BY <2>h, <3>1, Zenon
  <2> USE <1>13, <2>f DEF Resume, Insert, MatchInv
  <2>3. ClaimedEntries'
    BY DEF ClaimedEntries
  <2>4. NotifiedIsMutual'
    BY Zenon DEF NotifiedIsMutual
  <2>5. MatchedOnce'
    BY Zenon DEF MatchedOnce
  <2>6. ClaimedWaiterHears'
    BY DEF ClaimedWaiterHears, PeerBack
  <2> QED
    BY <2>1, <2>2, <2>3, <2>4, <2>5, <2>6, Zenon
<1>14. ASSUME NEW c \in Conn, Claim(c) PROVE MatchInv'
  <2>f. name[c] \in Name /\ peer[c] = None
    BY <1>14, Zenon DEF Claim, PcInv
  <2>g. \A n \in Name : pairings[n] # None => pairings[n].info \in Conn
    BY <1>14, Zenon DEF Entry
  <2> USE <1>14, <2>f, <2>g DEF Claim, MatchInv
  <2>1. LiveEntries'
    BY DEF LiveEntries, PeerBack
  <2>2. ClaimedEntries'
    BY DEF ClaimedEntries, LiveEntries
  <2>3. PeerBack'
    BY DEF PeerBack, LiveEntries
  <2>4. NotifiedIsMutual'
    BY DEF NotifiedIsMutual
  <2>5. MatchedOnce'
    BY DEF MatchedOnce, LiveEntries
  <2>6. ClaimedWaiterHears'
    BY DEF ClaimedWaiterHears, LiveEntries
  <2> QED
    BY <2>1, <2>2, <2>3, <2>4, <2>5, <2>6, Zenon
<1>15. ASSUME NEW c \in Conn, Notify(c) PROVE MatchInv'
  <2>f. entry[c] \in Entry /\ entry[c].tx \in Conn /\ entry[c].info \in Conn
    BY <1>15, Zenon DEF Notify, PcInv, Entry
  <2> USE <1>15, <2>f DEF Notify, registryVars, MatchInv
  <2>1. LiveEntries'
    BY DEF LiveEntries, ClaimedEntries, Entry
  <2>2. ClaimedEntries'
    BY Zenon DEF ClaimedEntries
  <2>3. PeerBack'
    BY Zenon DEF PeerBack
  <2>4. NotifiedIsMutual'
    BY Zenon DEF NotifiedIsMutual, ClaimedEntries
  <2>5. MatchedOnce'
    BY Zenon DEF MatchedOnce
  <2>6. ClaimedWaiterHears'
    BY DEF ClaimedWaiterHears, ClaimedEntries
  <2> QED
    BY <2>1, <2>2, <2>3, <2>4, <2>5, <2>6, Zenon
<1>16. ASSUME NEW c \in Conn, UNCHANGED registryVars, Notified(c) PROVE MatchInv'
  <2>f. peer[c] = None /\ inbox[c] \in Conn
    BY <1>16, Zenon DEF Notified, PcInv, AfterOffer
  <2>g. peer[inbox[c]] = c /\ pc[inbox[c]] \notin BeforeOffer
    BY <1>16 DEF Notified, MatchInv, NotifiedIsMutual, PcInv
  <2> USE <1>16, <2>f, <2>g DEF Notified, registryVars, MatchInv
  <2>1. LiveEntries'
    BY DEF LiveEntries, NotifiedIsMutual, Entry
  <2>2. ClaimedEntries'
    BY Zenon DEF ClaimedEntries
  <2>3. PeerBack'
    BY DEF PeerBack, NotifiedIsMutual, MatchedOnce
  <2>4. NotifiedIsMutual'
    BY DEF NotifiedIsMutual
  <2>5. MatchedOnce'
    BY DEF MatchedOnce, NotifiedIsMutual, PeerBack
  <2>6. ClaimedWaiterHears'
    BY DEF ClaimedWaiterHears, NotifiedIsMutual, PcInv, AfterOffer
  <2> QED
    BY <2>1, <2>2, <2>3, <2>4, <2>5, <2>6, Zenon
<1> QED
  BY <1>1, <1>2, <1>3, <1>4, <1>5, <1>6, <1>7, <1>8, <1>9, <1>10, <1>11, <1>12, <1>13,
     <1>14, <1>15, <1>16, QuietStep, Zenon
  DEF Next, TaskStep, HandlerStep, RegistryStep, CleanupStep, Cleanup

=============================================================================
