--------------------------- MODULE PurchaseLedger ---------------------------
(***************************************************************************)
(* What one-time purchases promise, without requests, statements, locks or *)
(* rollbacks.  A purchase token is redeemed at most once, for a product    *)
(* the store vouches for; redeeming it gives the player everything the     *)
(* product contains, and only what the player did not have, and announces  *)
(* it, all in one step.  A client is told of success only for a token that *)
(* has been redeemed.                                                      *)
(***************************************************************************)

CONSTANTS
  Request,            (* records [player, product, token]                  *)
  Valid,              (* <<token, product>> the store vouches for          *)
  Contents(_),        (* what a product gives: a set of assets             *)
  Announced(_),       (* the assets of a product other services hear of    *)
  None                (* a token not redeemed                              *)

VARIABLES
  redeemed,    (* token -> the request it was redeemed for, or None        *)
  owned,       (* <<player, asset>> pairs                                  *)
  announced,   (* <<request, asset>> pairs: events sent on their way       *)
  confirmed    (* tokens of which some client was told success             *)

vars == <<redeemed, owned, announced, confirmed>>

Tokens == {q.token : q \in Request}

Init ==
  /\ redeemed  = [t \in Tokens |-> None]
  /\ owned     = {}
  /\ announced = {}
  /\ confirmed = {}

Redeem(q) ==
  /\ redeemed[q.token] = None
  /\ <<q.token, q.product>> \in Valid
  /\ ({q.player} \X Contents(q.product)) \cap owned = {}
  /\ redeemed'  = [redeemed EXCEPT ![q.token] = q]
  /\ owned'     = owned \cup ({q.player} \X Contents(q.product))
  /\ announced' = announced \cup ({q} \X Announced(q.product))

(* Success is confirmed by the redeeming request itself or by a later one  *)
(* with the same token; a redeeming request may also stay unconfirmed.     *)
RedeemConfirmed(q) == Redeem(q) /\ confirmed' = confirmed \cup {q.token}

RedeemUnconfirmed(q) == Redeem(q) /\ UNCHANGED confirmed

Confirm(t) ==
  /\ redeemed[t] # None
  /\ confirmed' = confirmed \cup {t}
  /\ UNCHANGED <<redeemed, owned, announced>>

Next ==
  \/ \E q \in Request : RedeemConfirmed(q) \/ RedeemUnconfirmed(q)
  \/ \E t \in Tokens : Confirm(t)

Spec == Init /\ [][Next]_vars
=============================================================================
