------------------------- MODULE MCUnorderedOutbox --------------------------
(* Instances of UnorderedOutbox: two replicas.                             *)
EXTENDS UnorderedOutbox, TLC

CONSTANTS r1, r2

SkewedClocks  == r1 :> 0 @@ r2 :> 1
=============================================================================
