------------------------- MODULE InMemoryRegistry -------------------------
(***************************************************************************)
(* The in-memory pairing registry of the Rust rendezvous server            *)
(* (server/rust/src/registry.rs, struct InMemoryRegistry): two concurrent  *)
(* hash maps, pairings and tokens, that every connection task and one      *)
(* background cleanup task share.                                          *)
(*                                                                         *)
(* register() and unregister() contain no await, but the tasks run on a    *)
(* multi-threaded runtime, so two calls interleave between any two map     *)
(* operations.  Each action below is therefore ONE map operation together  *)
(* with the task-local statements that follow it.  A DashMap guard that    *)
(* the code keeps across a second map operation is modelled as a lock:     *)
(*   - register() keeps the read guard of tokens.get(t) while it asks for  *)
(*     the write guard of pairings.get_mut(n)        (pc = "resume");      *)
(*   - cleanup_expired() keeps the write guard of a shard of pairings,     *)
(*     inside retain(), while it calls tokens.remove(t)    (cleaner = n).  *)
(* Each key has a shard of its own.  Sharing one only blocks more, which   *)
(* is nothing to the invariants; but the lock cycle can then also form     *)
(* between different names and tokens.                                     *)
(***************************************************************************)
EXTENDS Handler

\* struct PairingEntry with its WaitingClient.  created_at is abstracted: see
\* CleanupLock.  notify_tx is Some(_) for as long as the entry is in the map.
Entry == [info : Conn, token : Conn, tx : Conn]

\* None is not a value of the other types.
ASSUME NoneAssumption ==
    /\ None \notin Conn
    /\ None \notin Name
    /\ None \notin Entry

VARIABLES
    pairings,   \* pairing_name -> the waiting entry, or None
    tokens,     \* reconnect token -> pairing_name, or None
    cleaner,    \* the name whose shard cleanup_expired() holds, or None
    entry       \* the entry a task has removed from pairings and still owns

registryVars == <<pairings, tokens, cleaner, entry>>

\* Between the check for a waiting client and insert, the task is about to
\* offer itself; before that it has no entry, token or channel.
BeforeOffer == {"idle", "reading", "reject", "lookup", "resume", "claim", "insert"}
AfterOffer == {"intoken", "greet", "wait", "unregister", "unregtoken", "timedOut", "closed"}
Claiming == {"notify", "untoken"}
PCs == BeforeOffer \cup AfterOffer \cup Claiming \cup {"paired", "done"}

\* The write guard of the shard of pairings that holds n can be taken.
ShardFree(n) == cleaner # n

\* No task keeps the read guard of tokens.get(t).
TokenFree(t) == \A c \in Conn : pc[c] = "resume" => presented[c] # t

\* The receiver of c's channel exists: from the creation of the channel until
\* the wait is over or the task returns early.
ReceiverAlive(c) == pc[c] \in {"intoken", "greet", "wait"}

\* The sender of c's channel exists: it lives in an entry of the map or in one
\* a task has removed and not yet dropped or consumed.
SenderAlive(c) ==
    \/ \E n \in Name : pairings[n] # None /\ pairings[n].tx = c
    \/ \E d \in Conn : pc[d] \in {"notify", "unregtoken"} /\ entry[d].tx = c

RegistryInit ==
    /\ pairings = [n \in Name |-> None]
    /\ tokens = [t \in Conn |-> None]
    /\ cleaner = None
    /\ entry = [c \in Conn |-> None]

-----------------------------------------------------------------------------
(***************************************************************************)
(* register(pairing_name, client_info, reconnect_token)                    *)
(***************************************************************************)

\* tokens.get(&token): the read guard is kept only if the stored name matches.
Lookup(c) ==
    /\ pc[c] = "lookup"
    /\ GoTo(c, IF tokens[presented[c]] = name[c] THEN "resume" ELSE "claim")
    /\ UNCHANGED <<registryVars, name, presented, token, peer, inbox>>

\* Mutant of Resumable: compares the presented token with the address.
ResumableByAddress(c) ==
    /\ pairings[name[c]] # None
    /\ pairings[name[c]].info = presented[c]

Resumable(c) ==
    /\ pairings[name[c]] # None
    /\ pairings[name[c]].token = presented[c]

\* Mutant of Resume: forgets to replace the channel.
ResumeKeepsChannel(c) ==
    /\ pc[c] = "resume"
    /\ ShardFree(name[c])
    /\ Resumable(c)
    /\ pairings' = [pairings EXCEPT ![name[c]].info = c]
    /\ token' = [token EXCEPT ![c] = presented[c]]
    /\ GoTo(c, "greet")
    /\ UNCHANGED <<tokens, cleaner, name, presented, entry, peer, inbox>>

\* pairings.get_mut finds the entry of the presented token: the new connection
\* replaces the address and the channel of the old one.
Resume(c) ==
    /\ pc[c] = "resume"
    /\ ShardFree(name[c])
    /\ Resumable(c)
    /\ pairings' = [pairings EXCEPT
                      ![name[c]] = [info |-> c, token |-> presented[c], tx |-> c]]
    /\ token' = [token EXCEPT ![c] = presented[c]]
    /\ GoTo(c, "greet")
    /\ UNCHANGED <<tokens, cleaner, name, presented, entry, peer, inbox>>

\* The token is known but its entry is gone: continue as a fresh registration.
ResumeMiss(c) ==
    /\ pc[c] = "resume"
    /\ ShardFree(name[c])
    /\ ~Resumable(c)
    /\ GoTo(c, "claim")
    /\ UNCHANGED <<registryVars, name, presented, token, peer, inbox>>

\* Mutant of Claim: get instead of remove.
ClaimKeepsEntry(c) ==
    /\ pc[c] = "claim"
    /\ ShardFree(name[c])
    /\ pairings[name[c]] # None
    /\ entry' = [entry EXCEPT ![c] = pairings[name[c]]]
    /\ peer' = [peer EXCEPT ![c] = pairings[name[c]].info]
    /\ GoTo(c, "notify")
    /\ UNCHANGED <<pairings, tokens, cleaner, name, presented, token, inbox>>

\* pairings.remove finds a waiting client: this task now owns its entry.
Claim(c) ==
    /\ pc[c] = "claim"
    /\ ShardFree(name[c])
    /\ pairings[name[c]] # None
    /\ pairings' = [pairings EXCEPT ![name[c]] = None]
    /\ entry' = [entry EXCEPT ![c] = pairings[name[c]]]
    /\ peer' = [peer EXCEPT ![c] = pairings[name[c]].info]
    /\ GoTo(c, "notify")
    /\ UNCHANGED <<tokens, cleaner, name, presented, token, inbox>>

\* pairings.remove finds nobody: this client is the first.
ClaimMiss(c) ==
    /\ pc[c] = "claim"
    /\ ShardFree(name[c])
    /\ pairings[name[c]] = None
    /\ GoTo(c, "insert")
    /\ UNCHANGED <<registryVars, name, presented, token, peer, inbox>>

\* Mutant of Notify: skips a client that has not been greeted yet.
NotifyOnlyWaiting(c) ==
    /\ pc[c] = "notify"
    /\ inbox' = IF pc[entry[c].tx] = "wait" THEN [inbox EXCEPT ![entry[c].tx] = c] ELSE inbox
    /\ GoTo(c, "untoken")
    /\ UNCHANGED <<registryVars, name, presented, token, peer>>

\* tx.send(client_info): lost when the receiver is gone, and the loss ignored.
Notify(c) ==
    /\ pc[c] = "notify"
    /\ inbox' = IF ReceiverAlive(entry[c].tx)
                THEN [inbox EXCEPT ![entry[c].tx] = c]
                ELSE inbox
    /\ GoTo(c, "untoken")
    /\ UNCHANGED <<registryVars, name, presented, token, peer>>

\* Mutant of ForgetPeerToken: forgets the token the claimer presented.
ForgetOwnToken(c) ==
    /\ pc[c] = "untoken"
    /\ token' = [token EXCEPT ![c] = c]
    /\ tokens' = [t \in Conn |-> IF t = presented[c] THEN None ELSE tokens[t]]
    /\ entry' = [entry EXCEPT ![c] = None]
    /\ GoTo(c, "paired")
    /\ UNCHANGED <<pairings, cleaner, name, presented, peer, inbox>>

\* tokens.remove(&peer_token), then a token for this client that is in no map.
ForgetPeerToken(c) ==
    /\ pc[c] = "untoken"
    /\ TokenFree(entry[c].token)
    /\ tokens' = [tokens EXCEPT ![entry[c].token] = None]
    /\ token' = [token EXCEPT ![c] = c]
    /\ entry' = [entry EXCEPT ![c] = None]
    /\ GoTo(c, "paired")
    /\ UNCHANGED <<pairings, cleaner, name, presented, peer, inbox>>

\* Mutant of Insert: the entry is made before the token is generated.
InsertBeforeToken(c) ==
    /\ pc[c] = "insert"
    /\ ShardFree(name[c])
    /\ pairings' = [pairings EXCEPT ![name[c]] = [info |-> c, token |-> None, tx |-> c]]
    /\ token' = [token EXCEPT ![c] = c]
    /\ GoTo(c, "intoken")
    /\ UNCHANGED <<tokens, cleaner, name, presented, entry, peer, inbox>>

\* pairings.insert: an entry that is there by now is overwritten and dropped.
Insert(c) ==
    /\ pc[c] = "insert"
    /\ ShardFree(name[c])
    /\ pairings' = [pairings EXCEPT ![name[c]] = [info |-> c, token |-> c, tx |-> c]]
    /\ token' = [token EXCEPT ![c] = c]
    /\ GoTo(c, "intoken")
    /\ UNCHANGED <<tokens, cleaner, name, presented, entry, peer, inbox>>

\* tokens.insert(token, pairing_name)
InsertToken(c) ==
    /\ pc[c] = "intoken"
    /\ TokenFree(c)
    /\ tokens' = [tokens EXCEPT ![c] = name[c]]
    /\ GoTo(c, "greet")
    /\ UNCHANGED <<pairings, cleaner, name, presented, token, entry, peer, inbox>>

-----------------------------------------------------------------------------
(***************************************************************************)
(* unregister(pairing_name, token)                                         *)
(***************************************************************************)

OwnEntry(c) ==
    /\ pairings[name[c]] # None
    /\ pairings[name[c]].token = token[c]

\* pairings.remove takes out whatever entry the name has by now.
Unregister(c) ==
    /\ pc[c] = "unregister"
    /\ ShardFree(name[c])
    /\ pairings' = [pairings EXCEPT ![name[c]] = None]
    /\ IF OwnEntry(c)
       THEN /\ entry' = [entry EXCEPT ![c] = pairings[name[c]]]
            /\ GoTo(c, "unregtoken")
       ELSE /\ GoTo(c, "timedOut")
            /\ UNCHANGED entry
    /\ UNCHANGED <<tokens, cleaner, name, presented, token, peer, inbox>>

\* tokens.remove(&token), only if the removed entry had that token.
UnregisterToken(c) ==
    /\ pc[c] = "unregtoken"
    /\ TokenFree(token[c])
    /\ tokens' = [tokens EXCEPT ![token[c]] = None]
    /\ entry' = [entry EXCEPT ![c] = None]
    /\ GoTo(c, "timedOut")
    /\ UNCHANGED <<pairings, cleaner, name, presented, token, peer, inbox>>

-----------------------------------------------------------------------------
(***************************************************************************)
(* cleanup_expired(), run by the background task at every tick             *)
(***************************************************************************)

\* Mutant of CleanupLock: spares the entries whose task no longer waits.
CleanupLockWaiting(n) ==
    /\ cleaner = None
    /\ pairings[n] # None
    /\ pc[pairings[n].tx] = "wait"
    /\ cleaner' = n
    /\ UNCHANGED <<pairings, tokens, entry, callVars>>

\* retain() takes the shard of an entry that has expired.  Time is not
\* modelled: any entry may be older than pairing_timeout by now, because tasks
\* and clients may be arbitrarily slow.
CleanupLock(n) ==
    /\ cleaner = None
    /\ pairings[n] # None
    /\ cleaner' = n
    /\ UNCHANGED <<pairings, tokens, entry, callVars>>

\* Mutant of CleanupRemove: retain() keeps the entry whose token it removed.
CleanupTokenOnly ==
    /\ cleaner # None
    /\ TokenFree(pairings[cleaner].token)
    /\ tokens' = [tokens EXCEPT ![pairings[cleaner].token] = None]
    /\ cleaner' = None
    /\ UNCHANGED <<pairings, entry, callVars>>

\* Mutant of CleanupRemove: retain() does not come to an end.
CleanupKeepsGuard ==
    /\ cleaner # None
    /\ TokenFree(pairings[cleaner].token)
    /\ tokens' = [tokens EXCEPT ![pairings[cleaner].token] = None]
    /\ UNCHANGED <<pairings, cleaner, entry, callVars>>

\* tokens.remove of the entry's token, then retain() drops the entry and, past
\* it, the guard.
CleanupRemove ==
    /\ cleaner # None
    /\ TokenFree(pairings[cleaner].token)
    /\ tokens' = [tokens EXCEPT ![pairings[cleaner].token] = None]
    /\ pairings' = [pairings EXCEPT ![cleaner] = None]
    /\ cleaner' = None
    /\ UNCHANGED <<entry, callVars>>

Cleanup == CleanupRemove \/ \E n \in Name : CleanupLock(n)

RegistryStep(c) ==
    \/ Lookup(c)
    \/ Resume(c)
    \/ ResumeMiss(c)
    \/ Claim(c)
    \/ ClaimMiss(c)
    \/ Notify(c)
    \/ ForgetPeerToken(c)
    \/ Insert(c)
    \/ InsertToken(c)
    \/ Unregister(c)
    \/ UnregisterToken(c)

=============================================================================
