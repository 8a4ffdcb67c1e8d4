------------------------- MODULE MCRedisRendezvous -------------------------
(***************************************************************************)
(* Instances of RedisRendezvous: connections, servers and names are model  *)
(* values that no definition tells apart.                                  *)
(***************************************************************************)
EXTENDS RedisRendezvous, TLC

Symmetry == Permutations(Conn) \cup Permutations(Server) \cup Permutations(Name)

\* Connections are interchangeable.  If one is made to a server that may crash,
\* the chosen one is: the other assignments of servers are renamings of these.
\* home never changes, so this leaves out whole behaviours, no parts of one.
ChosenFirst ==
    LET first == CHOOSE c \in Conn : TRUE
    IN  home[first] \in Crashing \/ \A c \in Conn : home[c] \notin Crashing

=============================================================================
