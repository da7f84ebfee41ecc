--------------------------- MODULE MCSubscription ---------------------------
(* Subscription on small instances: a token per platform, and one of a     *)
(* subscription that was recorded with another product.                    *)
EXTENDS Subscription, TLC

CONSTANTS ios, android, other

Symmetry == Permutations(Handler)

MCPlatformOf == [t \in Token |-> IF t = ios THEN "ios" ELSE "android"]
=============================================================================
