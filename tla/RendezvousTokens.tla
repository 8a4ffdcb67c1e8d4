------------------------- MODULE RendezvousTokens -------------------------
(***************************************************************************)
(* TokenInv is preserved: what is in the tokens map, what is about to be   *)
(* removed from it and what clients may present stay in step with the      *)
(* waiting entries.                                                        *)
(***************************************************************************)
EXTENDS RendezvousInv, TLAPS

LEMMA TokenInit == Init => TokenInv
  BY NoneAssumption DEF Init, HandlerInit, RegistryInit, TokenInv, TokenKnown, NoSelfPairing, LiveTokens,
     DoomedTokens, OwnTokens, ToldTokens, PresentedTokens, ResumeFailed, LiveToken, Doomed,
     Claiming

\* A step that leaves the maps, the tokens and the removed entries alone, and
\* moves no task into a state that makes a claim about them.
TokenQuiet ==
    /\ UNCHANGED <<pairings, tokens, name, presented, token, entry>>
    /\ \A d \in Conn :
        /\ pc[d] \notin BeforeOffer => pc'[d] \notin BeforeOffer
        /\ pc[d] = "intoken" <=> pc'[d] = "intoken"
        /\ pc'[d] \in Claiming => pc[d] \in Claiming
        /\ pc'[d] = "unregtoken" => pc[d] = "unregtoken"
        /\ pc'[d] = "claim" => pc[d] = "claim"
        /\ reply'[d] \in {"waiting", "paired", "timeout"} =>
              \/ reply[d] \in {"waiting", "paired", "timeout"}
              \/ token[d] \in Conn /\ Published(d)' /\ pc'[d] \notin Claiming

LEMMA TokenQuietStep == TypeOK /\ TokenInv /\ TokenQuiet => TokenInv'
<1> SUFFICES ASSUME TypeOK, TokenInv, TokenQuiet PROVE TokenInv'
  OBVIOUS
<1>t. /\ pairings \in [Name -> Entry \cup {None}]
      /\ \A n \in Name : pairings[n] # None => pairings[n].token \in Conn
      /\ token \in [Conn -> Conn \cup {None}]
      /\ presented \in [Conn -> Conn \cup {None}]
  BY Zenon DEF TypeOK, Entry
<1> USE <1>t DEF TokenInv, TokenQuiet
<1>1. TokenKnown'
  BY Zenon DEF TokenKnown
<1>2. NoSelfPairing'
  BY DEF NoSelfPairing
<1>3. LiveTokens'
  BY DEF LiveTokens, LiveToken
<1>4. DoomedTokens'
  BY DEF DoomedTokens, Doomed, LiveToken
<1>5. OwnTokens'
  BY DEF OwnTokens, Published
<1>6. ToldTokens'
  BY Zenon DEF ToldTokens, Published
<1>7. PresentedTokens'
  BY Zenon DEF PresentedTokens, Published
<1>8. ResumeFailed'
  BY Zenon DEF ResumeFailed, LiveToken
<1> QED
  BY <1>1, <1>2, <1>3, <1>4, <1>5, <1>6, <1>7, <1>8, Zenon

LEMMA TokenStep == TypeOK /\ PcInv /\ TokenInv /\ [Next]_vars => TokenInv'
<1> SUFFICES ASSUME TypeOK, PcInv, TokenInv, [Next]_vars
             PROVE  TokenInv'
  OBVIOUS
<1>t. /\ pairings \in [Name -> Entry \cup {None}]
      /\ tokens \in [Conn -> Name \cup {None}]
      /\ pc \in [Conn -> PCs]
      /\ name \in [Conn -> Name \cup {None}]
      /\ presented \in [Conn -> Conn \cup {None}]
      /\ token \in [Conn -> Conn \cup {None}]
      /\ entry \in [Conn -> Entry \cup {None}]
      /\ reply \in [Conn -> Replies]
  BY Zenon DEF TypeOK
<1> USE <1>t, NoneAssumption DEF BeforeOffer, Claiming, GoTo
<1>1. ASSUME NEW c \in Conn, UNCHANGED registryVars, Start(c) \/ BadRequest(c) \/ SenderDropped(c) \/ WaitTimeout(c)
      PROVE  TokenQuiet
  BY <1>1 DEF Start, BadRequest, SenderDropped, WaitTimeout, TokenQuiet, registryVars, handlerVars
<1>2. ASSUME NEW c \in Conn, UNCHANGED registryVars, ReadError(c) \/ RequestTimeout(c) \/ WriteFails(c)
      PROVE  TokenQuiet
  BY <1>2 DEF ReadError, RequestTimeout, WriteFails, TokenQuiet, Return, registryVars
<1>3. ASSUME NEW c \in Conn, UNCHANGED registryVars, Greet(c) \/ ReplyPaired(c) \/ ReplyTimeout(c) \/ ReplyError(c)
      PROVE  TokenQuiet
  BY <1>3 DEF Greet, ReplyPaired, ReplyTimeout, ReplyError, TokenQuiet, Published, Return, PcInv, AfterOffer, registryVars
<1>4. ASSUME NEW c \in Conn, UNCHANGED registryVars, Notified(c)
      PROVE  TokenQuiet
  BY <1>4, Zenon DEF Notified, TokenQuiet, registryVars, handlerVars
<1>5. ASSUME NEW c \in Conn, Notify(c) \/ ClaimMiss(c), UNCHANGED handlerVars
      PROVE  TokenQuiet
  BY <1>5 DEF Notify, ClaimMiss, TokenQuiet, registryVars, handlerVars
<1>6. ASSUME NEW n \in Name, CleanupLock(n), UNCHANGED handlerVars PROVE TokenQuiet
  BY <1>6, Zenon DEF CleanupLock, TokenQuiet, callVars, handlerVars
<1>7. ASSUME UNCHANGED vars PROVE TokenQuiet
  BY <1>7, Zenon DEF vars, TokenQuiet
<1>8. ASSUME NEW c \in Conn, NEW n \in Name, NEW t \in IssuedTokens \cup {None}, Receive(c, n, t), UNCHANGED registryVars
      PROVE  TokenInv'
  <2>f. t \in Conn \cup {None}
    BY <1>8 DEF IssuedTokens
  <2> USE <1>8, <2>f DEF Receive, registryVars, handlerVars, TokenInv
  <2>1. TokenKnown'
    BY Zenon DEF TokenKnown, Entry
  <2>2. NoSelfPairing'
    BY Zenon DEF NoSelfPairing
  <2>3. LiveTokens'
    BY DEF LiveTokens, LiveToken
  <2>4. DoomedTokens'
    BY DEF DoomedTokens, Doomed, LiveToken
  <2>5. OwnTokens'
    BY DEF OwnTokens, Published
  <2>6. ToldTokens'
    BY DEF ToldTokens, Published
  <2>7. PresentedTokens'
    BY DEF PresentedTokens, ToldTokens, OwnTokens, IssuedTokens, Published
  <2>8. ResumeFailed'
    BY DEF ResumeFailed, LiveToken, Entry
  <2> QED
    BY <2>1, <2>2, <2>3, <2>4, <2>5, <2>6, <2>7, <2>8, Zenon
<1>9. ASSUME NEW c \in Conn, Lookup(c), UNCHANGED handlerVars
      PROVE  TokenInv'
  <2>f. name[c] \in Name /\ presented[c] \in Conn
    BY <1>9, Zenon DEF Lookup, PcInv
  <2> USE <1>9, <2>f DEF Lookup, registryVars, handlerVars, TokenInv
  <2>1. TokenKnown'
    BY Zenon DEF TokenKnown, Entry
  <2>2. NoSelfPairing'
    BY Zenon DEF NoSelfPairing
  <2>3. LiveTokens'
    BY DEF LiveTokens, LiveToken
  <2>4. DoomedTokens'
    BY DEF DoomedTokens, Doomed, LiveToken
  <2>5. OwnTokens'
    BY DEF OwnTokens, Published
  <2>6. ToldTokens'
    BY DEF ToldTokens, Published
  <2>7. PresentedTokens'
    BY Zenon DEF PresentedTokens, Published
  <2>8. ResumeFailed'
    BY DEF ResumeFailed, TokenKnown, PresentedTokens, Published, LiveToken, Entry
  <2> QED
    BY <2>1, <2>2, <2>3, <2>4, <2>5, <2>6, <2>7, <2>8, Zenon
<1>10. ASSUME NEW c \in Conn, ResumeMiss(c), UNCHANGED handlerVars
      PROVE  TokenInv'
  <2>f. name[c] \in Name /\ presented[c] \in Conn
    BY <1>10, Zenon DEF ResumeMiss, PcInv
  <2> USE <1>10, <2>f DEF ResumeMiss, registryVars, handlerVars, TokenInv
  <2>1. TokenKnown'
    BY Zenon DEF TokenKnown, Entry
  <2>2. NoSelfPairing'
    BY Zenon DEF NoSelfPairing
  <2>3. LiveTokens'
    BY DEF LiveTokens, LiveToken
  <2>4. DoomedTokens'
    BY DEF DoomedTokens, Doomed, LiveToken
  <2>5. OwnTokens'
    BY DEF OwnTokens, Published
  <2>6. ToldTokens'
    BY DEF ToldTokens, Published
  <2>7. PresentedTokens'
    BY Zenon DEF PresentedTokens, Published
  <2>8. ResumeFailed'
    BY Zenon DEF ResumeFailed, Resumable, LiveToken
  <2> QED
    BY <2>1, <2>2, <2>3, <2>4, <2>5, <2>6, <2>7, <2>8, Zenon
<1>11. ASSUME NEW c \in Conn, Resume(c), UNCHANGED handlerVars
      PROVE  TokenInv'
  <2>f. name[c] \in Name /\ presented[c] \in Conn
    BY <1>11, Zenon DEF Resume, PcInv
  <2> USE <1>11, <2>f DEF Resume, handlerVars, TokenInv
  <2>1. TokenKnown'
    BY DEF TokenKnown, Resumable, Entry
  <2>2. NoSelfPairing'
    BY Zenon DEF NoSelfPairing
  <2>3. LiveTokens'
    BY DEF LiveTokens, Resumable, LiveToken
  <2>4. DoomedTokens'
    BY DEF DoomedTokens, Doomed, Resumable, LiveToken
  <2>5. OwnTokens'
    BY DEF OwnTokens, PresentedTokens, Published
  <2>6. ToldTokens'
    BY DEF ToldTokens, Published
  <2>7. PresentedTokens'
    BY Zenon DEF PresentedTokens, Published
  <2>8. ResumeFailed'
    BY DEF ResumeFailed, Resumable, LiveToken
  <2> QED
    BY <2>1, <2>2, <2>3, <2>4, <2>5, <2>6, <2>7, <2>8, Zenon
<1>12. ASSUME NEW c \in Conn, Claim(c), UNCHANGED handlerVars
      PROVE  TokenInv'
  <2>f. name[c] \in Name
    BY <1>12, Zenon DEF Claim, PcInv
  <2> USE <1>12, <2>f DEF Claim, handlerVars, TokenInv
  <2>1. TokenKnown'
    BY Zenon DEF TokenKnown, Entry
  <2>2. NoSelfPairing'
    BY Zenon DEF NoSelfPairing, ResumeFailed, LiveToken
  <2>3. LiveTokens'
    BY DEF LiveTokens, LiveToken
  <2>4. DoomedTokens'
    <3> SUFFICES ASSUME NEW d \in Conn, NEW t \in Conn, t \in Doomed(d)'
                 PROVE  pc'[t] \notin BeforeOffer /\ \A n \in Name : ~LiveToken(n, t)'
      BY Zenon DEF DoomedTokens
    <3>1. CASE d = c
      <4>1. LiveToken(name[c], t)
        BY <3>1, Zenon DEF Doomed, LiveToken
      <4> QED
        BY <4>1 DEF LiveTokens, LiveToken
    <3>2. CASE d # c
      <4>1. t \in Doomed(d)
        BY <3>2, Zenon DEF Doomed
      <4> QED
        BY <4>1, Zenon DEF DoomedTokens, LiveToken
    <3> QED
      BY <3>1, <3>2, Zenon
  <2>5. OwnTokens'
    BY Zenon DEF OwnTokens, Published
  <2>6. ToldTokens'
    BY DEF ToldTokens, Published
  <2>7. PresentedTokens'
    BY Zenon DEF PresentedTokens, Published
  <2>8. ResumeFailed'
    BY DEF ResumeFailed, LiveToken
  <2> QED
    BY <2>1, <2>2, <2>3, <2>4, <2>5, <2>6, <2>7, <2>8, Zenon
<1>13. ASSUME NEW c \in Conn, ForgetPeerToken(c), UNCHANGED handlerVars
      PROVE  TokenInv'
  <2>f. entry[c] \in Entry
    BY <1>13, Zenon DEF ForgetPeerToken, PcInv
  <2> USE <1>13, <2>f DEF ForgetPeerToken, handlerVars, TokenInv
  <2>1. TokenKnown'
    BY Zenon DEF TokenKnown, DoomedTokens, Doomed, LiveToken, Entry
  <2>2. NoSelfPairing'
    BY Zenon DEF NoSelfPairing
  <2>3. LiveTokens'
    BY DEF LiveTokens, LiveToken
  <2>4. DoomedTokens'
    BY DEF DoomedTokens, Doomed, LiveToken
  <2>5. OwnTokens'
    BY DEF OwnTokens, Published
  <2>6. ToldTokens'
    BY DEF ToldTokens, Published
  <2>7. PresentedTokens'
    BY Zenon DEF PresentedTokens, Published
  <2>8. ResumeFailed'
    BY Zenon DEF ResumeFailed, LiveToken
  <2> QED
    BY <2>1, <2>2, <2>3, <2>4, <2>5, <2>6, <2>7, <2>8, Zenon
<1>14. ASSUME NEW c \in Conn, Insert(c), UNCHANGED handlerVars
      PROVE  TokenInv'
  <2>f. name[c] \in Name
    BY <1>14, Zenon DEF Insert, PcInv
  <2> USE <1>14, <2>f DEF Insert, handlerVars, TokenInv
  <2>1. TokenKnown'
    BY Zenon DEF TokenKnown, Entry
  <2>2. NoSelfPairing'
    BY Zenon DEF NoSelfPairing
  <2>3. LiveTokens'
    BY DEF LiveTokens, LiveToken
  <2>4. DoomedTokens'
    BY DEF DoomedTokens, Doomed, LiveToken
  <2>5. OwnTokens'
    BY DEF OwnTokens, Published
  <2>6. ToldTokens'
    BY DEF ToldTokens, Published
  <2>7. PresentedTokens'
    BY Zenon DEF PresentedTokens, Published
  <2>8. ResumeFailed'
    BY DEF ResumeFailed, PresentedTokens, Published, LiveToken
  <2> QED
    BY <2>1, <2>2, <2>3, <2>4, <2>5, <2>6, <2>7, <2>8, Zenon
<1>15. ASSUME NEW c \in Conn, InsertToken(c), UNCHANGED handlerVars
      PROVE  TokenInv'
  <2>f. name[c] \in Name
    BY <1>15, Zenon DEF InsertToken, PcInv
  <2> USE <1>15, <2>f DEF InsertToken, handlerVars, TokenInv
  <2>1. TokenKnown'
    BY DEF TokenKnown, LiveTokens, LiveToken, Entry
  <2>2. NoSelfPairing'
    BY Zenon DEF NoSelfPairing
  <2>3. LiveTokens'
    BY DEF LiveTokens, LiveToken
  <2>4. DoomedTokens'
    BY DEF DoomedTokens, Doomed, LiveToken
  <2>5. OwnTokens'
    BY Zenon DEF OwnTokens, Published
  <2>6. ToldTokens'
    BY DEF ToldTokens, Published
  <2>7. PresentedTokens'
    BY Zenon DEF PresentedTokens, Published
  <2>8. ResumeFailed'
    BY Zenon DEF ResumeFailed, LiveToken
  <2> QED
    BY <2>1, <2>2, <2>3, <2>4, <2>5, <2>6, <2>7, <2>8, Zenon
<1>16. ASSUME NEW c \in Conn, Unregister(c), UNCHANGED handlerVars
      PROVE  TokenInv'
  <2>f. name[c] \in Name /\ token[c] \in Conn
    BY <1>16, Zenon DEF Unregister, PcInv, AfterOffer
  <2> USE <1>16, <2>f DEF Unregister, handlerVars, TokenInv
  <2>1. TokenKnown'
    BY DEF TokenKnown, Entry
  <2>2. NoSelfPairing'
    BY DEF NoSelfPairing
  <2>3. LiveTokens'
    BY DEF LiveTokens, LiveToken
  <2>4. DoomedTokens'
    <3> SUFFICES ASSUME NEW d \in Conn, NEW t \in Conn, t \in Doomed(d)'
                 PROVE  pc'[t] \notin BeforeOffer /\ \A n \in Name : ~LiveToken(n, t)'
      BY Zenon DEF DoomedTokens
    <3>1. CASE d = c
      <4>1. LiveToken(name[c], t)
        BY <3>1 DEF Doomed, LiveToken, OwnEntry
      <4> QED
        BY <4>1 DEF LiveTokens, LiveToken
    <3>2. CASE d # c
      <4>1. t \in Doomed(d)
        BY <3>2 DEF Doomed
      <4> QED
        BY <4>1 DEF DoomedTokens, LiveToken
    <3> QED
      BY <3>1, <3>2, Zenon
  <2>5. OwnTokens'
    BY DEF OwnTokens, Published
  <2>6. ToldTokens'
    BY DEF ToldTokens, Published
  <2>7. PresentedTokens'
    BY DEF PresentedTokens, Published
  <2>8. ResumeFailed'
    BY DEF ResumeFailed, LiveToken
  <2> QED
    BY <2>1, <2>2, <2>3, <2>4, <2>5, <2>6, <2>7, <2>8
<1>17. ASSUME NEW c \in Conn, UnregisterToken(c), UNCHANGED handlerVars
      PROVE  TokenInv'
  <2>f. token[c] \in Conn
    BY <1>17, Zenon DEF UnregisterToken, PcInv, AfterOffer
  <2> USE <1>17, <2>f DEF UnregisterToken, handlerVars, TokenInv
  <2>1. TokenKnown'
    BY Zenon DEF TokenKnown, DoomedTokens, Doomed, LiveToken, Entry
  <2>2. NoSelfPairing'
    BY Zenon DEF NoSelfPairing
  <2>3. LiveTokens'
    BY DEF LiveTokens, LiveToken
  <2>4. DoomedTokens'
    BY DEF DoomedTokens, Doomed, LiveToken
  <2>5. OwnTokens'
    BY DEF OwnTokens, Published
  <2>6. ToldTokens'
    BY DEF ToldTokens, Published
  <2>7. PresentedTokens'
    BY Zenon DEF PresentedTokens, Published
  <2>8. ResumeFailed'
    BY Zenon DEF ResumeFailed, LiveToken
  <2> QED
    BY <2>1, <2>2, <2>3, <2>4, <2>5, <2>6, <2>7, <2>8, Zenon
<1>18. ASSUME CleanupRemove, UNCHANGED handlerVars
      PROVE  TokenInv'
  <2>f. cleaner \in Name /\ pairings[cleaner] \in Entry
    BY <1>18, Zenon DEF CleanupRemove, PcInv, TypeOK
  <2> USE <1>18, <2>f DEF CleanupRemove, callVars, handlerVars, TokenInv
  <2>1. TokenKnown'
    BY DEF TokenKnown, LiveTokens, LiveToken, Entry
  <2>2. NoSelfPairing'
    BY Zenon DEF NoSelfPairing
  <2>3. LiveTokens'
    BY DEF LiveTokens, LiveToken
  <2>4. DoomedTokens'
    BY DEF DoomedTokens, Doomed, LiveToken
  <2>5. OwnTokens'
    BY Zenon DEF OwnTokens, Published
  <2>6. ToldTokens'
    BY Zenon DEF ToldTokens, Published
  <2>7. PresentedTokens'
    BY Zenon DEF PresentedTokens, Published
  <2>8. ResumeFailed'
    BY DEF ResumeFailed, LiveToken
  <2> QED
    BY <2>1, <2>2, <2>3, <2>4, <2>5, <2>6, <2>7, <2>8, Zenon
<1> QED
  BY <1>1, <1>2, <1>3, <1>4, <1>5, <1>6, <1>7, <1>8, <1>9, <1>10,
     <1>11, <1>12, <1>13, <1>14, <1>15, <1>16, <1>17, <1>18,
     TokenQuietStep, Zenon
  DEF Next, TaskStep, HandlerStep, RegistryStep, CleanupStep, Cleanup

=============================================================================
