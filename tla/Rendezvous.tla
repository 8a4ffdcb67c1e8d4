---------------------------- MODULE Rendezvous ----------------------------
(***************************************************************************)
(* The rendezvous server with its in-memory registry: the connection tasks *)
(* (Handler) and the cleanup task working on one InMemoryRegistry.         *)
(***************************************************************************)
EXTENDS InMemoryRegistry

\* A server accepts finitely many connections between its start and its stop.
ASSUME ConnAssumption == IsFiniteSet(Conn)

vars == <<pairings, tokens, cleaner, pc, name, presented, token, entry, peer,
          inbox, reply, metrics>>

Init == HandlerInit /\ RegistryInit

\* One step of the task that serves c.
TaskStep(c) ==
    \/ HandlerStep(c, SenderAlive(c)) /\ UNCHANGED registryVars
    \/ RegistryStep(c) /\ UNCHANGED handlerVars

CleanupStep == Cleanup /\ UNCHANGED handlerVars

Next ==
    \/ \E c \in Conn : (Start(c) /\ UNCHANGED registryVars) \/ TaskStep(c)
    \/ CleanupStep

Spec == Init /\ [][Next]_vars

\* The runtime keeps polling a task that can run, recv_timeout and
\* peer_wait_timeout always fire, and every tick of the cleanup task visits
\* every entry.  Nothing obliges a client to connect.
Fairness ==
    /\ \A c \in Conn : WF_vars(TaskStep(c))
    /\ \A n \in Name : WF_vars(CleanupLock(n) /\ UNCHANGED handlerVars)
    /\ WF_vars(CleanupRemove /\ UNCHANGED handlerVars)

FairSpec == Spec /\ Fairness

-----------------------------------------------------------------------------
(***************************************************************************)
(* What holds                                                              *)
(***************************************************************************)

\* Every variable keeps its type; in particular an entry always carries a
\* token and a sender (struct PairingEntry, registry.rs).
TypeOK ==
    /\ pairings \in [Name -> Entry \cup {None}]
    /\ tokens \in [Conn -> Name \cup {None}]
    /\ cleaner \in Name \cup {None}
    /\ pc \in [Conn -> PCs]
    /\ name \in [Conn -> Name \cup {None}]
    /\ presented \in [Conn -> Conn \cup {None}]
    /\ token \in [Conn -> Conn \cup {None}]
    /\ entry \in [Conn -> Entry \cup {None}]
    /\ peer \in [Conn -> Conn \cup {None}]
    /\ inbox \in [Conn -> Conn \cup {None}]
    /\ reply \in [Conn -> Replies]
    /\ metrics \in [Counters -> Int]

\* A notification is never misdirected: when d's address was sent to the
\* waiting connection c, the address d was given is c's, although c's entry may
\* have been resumed, displaced or reinserted in between (register()).
NotifiedIsMutual == \A c \in Conn : inbox[c] # None => peer[inbox[c]] = c

\* A waiting client can always resume: as long as its entry is in pairings, its
\* token is in tokens under the same name, except between the two inserts of
\* register(), when the client has not been told the token yet.
TokenKnown ==
    \A n \in Name : pairings[n] # None =>
        \/ tokens[pairings[n].token] = n
        \/ pc[pairings[n].token] = "intoken"

\* A client that reconnects with its token is never paired with its own earlier
\* registration, whatever cleanup, timeouts and other clients do between the
\* failed resume and the fresh registration of register().
NoSelfPairing ==
    \A c \in Conn : pc[c] \in Claiming => entry[c].token # presented[c]

\* No notification is lost on a client that still listens: if d took the entry
\* of c and c's task waits with an empty channel, d is about to send.
ClaimedWaiterHears ==
    \A c, d \in Conn :
        peer[d] = c /\ ReceiverAlive(c) /\ inbox[c] = None => pc[d] = "notify"

\* register() and cleanup_expired() wait for each other's guard: the one holds
\* a token's shard and wants the entry's, the other the entry's and wants the
\* token's.
LockCycle ==
    /\ cleaner # None
    /\ \E c \in Conn :
          /\ pc[c] = "resume"
          /\ name[c] = cleaner
          /\ presented[c] = pairings[cleaner].token

\* Every task that starts returns from handle_connection, unless the lock cycle
\* above has formed: nothing else can keep a client waiting for ever.
HandlerFinishes ==
    \A c \in Conn : (pc[c] = "reading") ~> (pc[c] = "done" \/ LockCycle)

\* No registration stays for ever, the ones whose client disconnected before it
\* was told to wait included, unless the lock cycle has formed.
EntryLeaves ==
    \A n \in Name, t \in Conn :
        (pairings[n] # None /\ pairings[n].token = t)
            ~> (~(pairings[n] # None /\ pairings[n].token = t) \/ LockCycle)

-----------------------------------------------------------------------------
(***************************************************************************)
(* The abstract promise                                                    *)
(***************************************************************************)

OpenOffer(c) ==
    /\ name[c] # None
    /\ pairings[name[c]] # None
    /\ pairings[name[c]].info = c

underBar == [c \in Conn |-> IF pc[c] \in BeforeOffer THEN None ELSE name[c]]

offerBar == [c \in Conn |-> IF OpenOffer(c) THEN name[c] ELSE None]

M == INSTANCE Matchmaker WITH under <- underBar, offer <- offerBar, partner <- peer

\* The server implements the Matchmaker: removing an entry is taking its offer,
\* inserting or resuming one is offering, receiving on the channel is hearing,
\* and an unregister, an expiry or a displaced entry is a withdrawal.
ImplementsMatchmaker == M!MatchSpec

-----------------------------------------------------------------------------
(***************************************************************************)
(* What the documentation says and the code does not do                    *)
(***************************************************************************)

\* The entry of n stays in this step, or is resumed, taken out by a task that
\* goes on with it, or expired.
EntryKept(n) ==
    \/ pairings'[n] # None /\ pairings'[n].token = pairings[n].token
    \/ \E c \in Conn : entry[c] = None /\ entry'[c] = pairings[n]
    \/ cleaner = n

\* "Registered, waiting for peer" (CLIENT_MIGRATION.md), of the client that was
\* told WAITING: its registration stays until another client takes it, it
\* reconnects, it times out itself or the registration expires.
RegistrationKept ==
    [][\A n \in Name :
         pairings[n] # None /\ reply[pairings[n].info] = "waiting" => EntryKept(n)]_vars

\* "Single client should receive TIMEOUT status after server timeout"
\* (CLIENT_MIGRATION.md): a wait always comes to an end.
WaitEnds == \A c \in Conn : (pc[c] = "wait") ~> (pc[c] = "done")

=============================================================================
