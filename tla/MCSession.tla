----------------------------- MODULE MCSession -----------------------------
(***************************************************************************)
(* Name fields of four bytes and token fields of three.  The names are all *)
(* byte strings of at most four bytes, one more than fits, over an ASCII   *)
(* letter and the two bytes of one UTF-8 character; two that are longer;   *)
(* some with a zero; and characters of three and four bytes: whole, cut by *)
(* the field, overlong.                                                    *)
(***************************************************************************)
EXTENDS Session

MCUuid == {<<48, 48>>, <<97, 49>>, <<98, 50>>}
MCNil == <<48, 48>>
MCPairingName ==
    (UNION {[1..n -> {97, 195, 169}] : n \in 0..4})
        \cup {<<97, 97, 97, 97, 97>>, <<97, 97, 195, 169, 97>>}
        \cup {<<0>>, <<0, 97>>, <<97, 0>>, <<97, 0, 97>>, <<195, 0, 169>>}
        \cup {<<226, 130, 172>>, <<226, 130, 172, 97>>, <<97, 226, 130, 172>>, <<224, 130, 172>>, <<240, 159, 146, 150>>}
MCStoredToken == {<<97, 49, 49>>, <<97>>, <<195>>}
MCAddress == {[ip |-> <<10, 0, 0, 1>>, port |-> 65280], [ip |-> <<10, 0, 1, 0>>, port |-> 1],
              [ip |-> [i \in 1..16 |-> 0], port |-> 1]}
=============================================================================
