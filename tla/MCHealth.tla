------------------------------ MODULE MCHealth ------------------------------
(***************************************************************************)
(* The server, its cleanup task and a prober with two connections and two  *)
(* names: the shards of one name can be locked while the other's are not.  *)
(***************************************************************************)
EXTENDS Health
=============================================================================
