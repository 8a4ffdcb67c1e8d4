------------------------- MODULE MCServerLifecycle -------------------------
(***************************************************************************)
(* Three connections and a limit of one: the smallest instance in which    *)
(* one connection runs, one is waiting for its task to start and one is    *)
(* being decided on.  There are descriptors for two of the three, and one  *)
(* worker more than a lock cycle takes.                                    *)
(***************************************************************************)
EXTENDS ServerLifecycle
=============================================================================
