---------------------------- MODULE MCProductList ----------------------------
(* ProductList on a small instance.  The second version of the catalogue   *)
(* turns the pack into a set and sells the same pack on its own.           *)
EXTENDS ProductList

Pack(asset) == [type |-> "card_pack", active |-> TRUE, pack |-> asset, faction |-> None]
Set(asset)  == [type |-> "faction_set", active |-> TRUE, pack |-> asset, faction |-> <<"faction", 1>>]

Versions ==
  {[she |-> Pack(<<"pack", 1>>)], [she |-> Set(<<"pack", 1>>), one |-> Pack(<<"pack", 1>>)]}

Mat(n) == [type |-> "cosmetic", active |-> TRUE, item |-> <<"playmat", n>>, period |-> None]

Items ==
  [mat1 |-> Mat(1), mat2 |-> Mat(2),
   premium |-> [type |-> "subscription", active |-> TRUE, item |-> None, period |-> 1]]
=============================================================================
