------------------------------- MODULE MCRpc --------------------------------
(***************************************************************************)
(* Small instances of Rpc.                                                 *)
(***************************************************************************)
EXTENDS Rpc

CONSTANTS c1, s1, echo, perform

Offer == {<<s1, echo>>, <<s1, perform>>}

(* Two users of one client.                                                *)
OneClient == [u \in Users |-> c1]

MixedCalls == {<<s1, echo, 1>>, <<s1, perform, 1>>}
EchoCalls == {<<s1, echo, a>> : a \in Args}
=============================================================================
