---------------------------- MODULE MCHolePunch ----------------------------
(***************************************************************************)
(* Two processes with two calls each: of callers that call again only when *)
(* nothing is left of the call before, with a stranger that connects to a  *)
(* listener, and of any.  The backlog of listen(.., 1) is that of Linux.   *)
(***************************************************************************)
EXTENDS HolePunch
=============================================================================
