----------------------------- MODULE MCPurchase -----------------------------
(* PurchaseFlow on small instances.  One faction has two sets, and one     *)
(* pack is sold in a set and on its own.                                   *)
EXTENDS PurchaseFlow, TLC

CONSTANTS c1, c2, c3,                 (* calls                             *)
          ann, bob,                   (* players                           *)
          t1, t2, t3,                 (* tokens                            *)
          she, pack1, pack2, playmat  (* assets                            *)

Products == {"set1", "set2", "pack1", "mat", "old", "premium", "nosuch"}

MCKindOf == [p \in Products |->
  CASE p \in {"set1", "set2"} -> "faction_set" [] p \in {"pack1", "old"} -> "card_pack"
    [] p = "mat" -> "cosmetic" [] p = "premium" -> "subscription" [] OTHER -> "unknown"]

MCMainAsset == [p \in Products |->
  CASE p = "set2" -> pack2 [] p = "mat" -> playmat [] OTHER -> pack1]

MCFactionOf == [p \in Products |-> she]

(* t1 is a token the verifier does not tie to a product, t2 is one for     *)
(* set1 or pack1, t3 is refused.                                           *)
MCValid == ({t1} \X Products) \cup ({t2} \X {"set1", "pack1"})

R(pl, pr, t) == [player |-> pl, product |-> pr, token |-> t]

(* Calls that share tokens, a pack or a faction, and every kind of refusal. *)
Requests ==
  {R(ann, "set1", t1), R(ann, "set2", t1), R(ann, "set1", t2), R(ann, "pack1", t2),
   R(bob, "mat", t1), R(ann, "mat", t3), R(bob, "old", t2)}
=============================================================================
