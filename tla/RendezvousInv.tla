--------------------------- MODULE RendezvousInv ---------------------------
(***************************************************************************)
(* The inductive invariant behind the safety properties of Rendezvous, in  *)
(* four parts that rest on one another in this order:                      *)
(*   PcInv     what a task has in its local variables where it is;         *)
(*   MatchInv  who has whose address, and who still waits;                 *)
(*   TokenInv  which tokens are in the maps, in flight and with clients;   *)
(*   ActiveCountsRunning, which needs nothing but the types.               *)
(***************************************************************************)
EXTENDS Rendezvous

\* Where a task is determines which of its local variables of register() and
\* handle_connection are set, and retain() holds the shard of a present entry.
PcInv ==
    /\ cleaner # None => pairings[cleaner] # None
    /\ \A c \in Conn :
        /\ pc[c] \in {"idle", "reading", "reject"} => name[c] = None
        /\ pc[c] \notin {"idle", "reading", "reject", "done"} => name[c] \in Name
        /\ pc[c] \in {"lookup", "resume"} => presented[c] \in Conn
        /\ pc[c] \in Claiming \cup {"unregtoken"} => entry[c] \in Entry
        /\ pc[c] \in AfterOffer \cup {"paired"} => token[c] \in Conn
        /\ pc[c] \in AfterOffer \cup BeforeOffer => peer[c] = None
        /\ pc[c] \in BeforeOffer => inbox[c] = None

\* A waiting entry is whole and its client untouched: the address and the
\* channel are those of one connection that offered itself under the name, and
\* neither has been given to anybody.
LiveEntries ==
    \A n \in Name : pairings[n] # None =>
        LET i == pairings[n].info
        IN  /\ pairings[n].tx = i
            /\ name[i] = n
            /\ pc[i] \notin BeforeOffer
            /\ inbox[i] = None
            /\ peer[i] = None
            /\ \A d \in Conn : peer[d] # i

\* A task that has removed an entry has its client as peer.
ClaimedEntries ==
    \A d \in Conn : pc[d] \in Claiming =>
        /\ peer[d] = entry[d].info
        /\ entry[d].tx = entry[d].info

\* The peer of a connection has offered itself, and knows of no third one.
PeerBack ==
    \A c \in Conn : peer[c] # None =>
        /\ pc[peer[c]] \notin BeforeOffer
        /\ peer[peer[c]] \in {None, c}

MatchInv ==
    /\ LiveEntries
    /\ ClaimedEntries
    /\ PeerBack
    /\ NotifiedIsMutual
    /\ MatchedOnce
    /\ ClaimedWaiterHears

\* The token of t has reached the tokens map, or never will.
Published(t) == pc[t] \notin BeforeOffer \cup {"intoken"}

LiveToken(n, t) == pairings[n] # None /\ pairings[n].token = t

\* The tokens a task is about to remove from the tokens map.
Doomed(c) ==
    IF pc[c] \in Claiming THEN {entry[c].token}
    ELSE IF pc[c] = "unregtoken" THEN {token[c]}
    ELSE {}

\* The token of a waiting entry is the one the task of t generated for the name.
LiveTokens ==
    \A n \in Name, t \in Conn : LiveToken(n, t) => name[t] = n /\ pc[t] \notin BeforeOffer

\* A token about to be removed from the tokens map is in no waiting entry.
DoomedTokens ==
    \A c, t \in Conn : t \in Doomed(c) =>
        /\ pc[t] \notin BeforeOffer
        /\ \A n \in Name : ~LiveToken(n, t)

\* A task's token is the one it generated, or one that was published before.
OwnTokens ==
    \A c \in Conn : token[c] # None =>
        \/ token[c] = c /\ pc[c] \notin BeforeOffer
        \/ Published(token[c])

\* What a client was told, and so what clients present, is a published token.
ToldTokens ==
    \A c \in Conn : reply[c] \in {"waiting", "paired", "timeout"} =>
        token[c] \in Conn /\ Published(c) /\ pc[c] \notin Claiming

PresentedTokens == \A c \in Conn : presented[c] # None => Published(presented[c])

\* Once register() has given up resuming, the entry of the token is gone.
ResumeFailed == \A c \in Conn : pc[c] = "claim" => ~LiveToken(name[c], presented[c])

TokenInv ==
    /\ TokenKnown
    /\ NoSelfPairing
    /\ LiveTokens
    /\ DoomedTokens
    /\ OwnTokens
    /\ ToldTokens
    /\ PresentedTokens
    /\ ResumeFailed

\* The conjunction that Init establishes and every step of Next preserves.
IInv == TypeOK /\ PcInv /\ MatchInv /\ TokenInv /\ ActiveCountsRunning

=============================================================================
