------------------------- MODULE MCGraceDictionary -------------------------
(* GraceDictionary for programs that remove keys that collide.             *)
EXTENDS GraceDictionary, TLC
CONSTANTS ka, kb, kc, v1, v2

Colliding == ka :> 0 @@ kb :> 8 @@ kc :> 16

RemovesColliding == {[hash |-> Colliding, uses |-> {"removal"}]}
=============================================================================
