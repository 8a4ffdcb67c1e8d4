---------------------------- MODULE MCRendezvous ----------------------------
(***************************************************************************)
(* Instances of Rendezvous: connections and names are model values that no *)
(* definition tells apart.                                                 *)
(***************************************************************************)
EXTENDS RendezvousInv, TLC

Symmetry == Permutations(Conn) \cup Permutations(Name)

=============================================================================
