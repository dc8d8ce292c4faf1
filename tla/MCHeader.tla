------------------------------ MODULE MCHeader ------------------------------
(* A small instance of HeaderMetadata: tags of two bits, of which one is   *)
(* static and two are handed out by the primer.  The definition of a has a *)
(* tag of its own among those, that of b has none.                         *)
EXTENDS HeaderMetadata, TLC

CONSTANTS a, b

MCKeys == {InstanceUID, a, b}
MCDefTag == (InstanceUID :> 1) @@ (a :> 2) @@ (b :> NullTag)
(* None, and one that gives a tag of the primer's to InstanceUID.          *)
MCOldPrimers == {<<>>, <<[localTag |-> 3, uid |-> InstanceUID]>>}
=============================================================================
