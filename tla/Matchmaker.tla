---------------------------- MODULE Matchmaker ----------------------------
(***************************************************************************)
(* What a rendezvous server promises its clients, whatever its maps, locks *)
(* and tasks: clients that offer themselves under a name, clients that     *)
(* take an open offer, and both learning of each other at most once.       *)
(*                                                                         *)
(* It promises little on purpose.  An offer may be withdrawn at any time   *)
(* (the client is told TIMEOUT and comes back), and a client whose offer   *)
(* was taken may never hear of it.  What can never happen: an offer taken  *)
(* twice, two open offers under one name, a client told of a peer that was *)
(* not given this client in turn, or peers that asked for different names. *)
(***************************************************************************)

CONSTANTS Conn, Name, None

VARIABLES
    under,      \* the name a connection has offered or taken under, or None
    offer,      \* the name its offer is open under, or None
    partner     \* the connection it was told to connect to, or None

matchVars == <<under, offer, partner>>

MatchInit ==
    /\ under = [c \in Conn |-> None]
    /\ offer = [c \in Conn |-> None]
    /\ partner = [c \in Conn |-> None]

\* c offers itself; an offer that was open under the name is withdrawn.
Offer(c, n) ==
    /\ under[c] = None
    /\ under' = [under EXCEPT ![c] = n]
    /\ offer' = [d \in Conn |-> IF d = c THEN n
                                ELSE IF offer[d] = n THEN None ELSE offer[d]]
    /\ UNCHANGED partner

Withdraw(c) ==
    /\ offer[c] # None
    /\ offer' = [offer EXCEPT ![c] = None]
    /\ UNCHANGED <<under, partner>>

\* d takes the open offer of c and is told of c.
Take(d, c) ==
    /\ under[d] = None
    /\ offer[c] # None
    /\ under' = [under EXCEPT ![d] = offer[c]]
    /\ offer' = [offer EXCEPT ![c] = None]
    /\ partner' = [partner EXCEPT ![d] = c]

\* c hears of the d that took its offer.
Hear(c, d) ==
    /\ partner[c] = None
    /\ partner[d] = c
    /\ partner' = [partner EXCEPT ![c] = d]
    /\ UNCHANGED <<under, offer>>

MatchNext ==
    \/ \E c \in Conn, n \in Name : Offer(c, n)
    \/ \E c \in Conn : Withdraw(c)
    \/ \E c, d \in Conn : Take(d, c) \/ Hear(c, d)

MatchSpec == MatchInit /\ [][MatchNext]_matchVars

=============================================================================
