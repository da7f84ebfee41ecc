----------------------------- MODULE ProductList -----------------------------
(***************************************************************************)
(* GET /api/v1/shop/products of one player, while purchases, subscription  *)
(* changes and a re-applied seed change what it reads.                     *)
(*                                                                         *)
(*   GetProducts, isProductOwned        usecase/purchase/service.go        *)
(*   GetActiveProducts, ...             repository/postgres/*_repo.go      *)
(*   NewProductView                     domain/product_view.go             *)
(*   ToProductListResponse              presenter/product.go               *)
(*   the seed                           scripts/generate_products_seed.py  *)
(*                                                                         *)
(* Every query of the list is one step, without a transaction around them. *)
(* A purchase (PurchaseFlow) is two steps here: it reads its product, and  *)
(* commits later, whatever the product is by then.  A write of a           *)
(* subscription row (Subscription, Premium) is one.  The seed file is      *)
(* three statements, each committed on its own.                            *)
(***************************************************************************)
EXTENDS Naturals

CONSTANTS
  Call,        (* list calls                                               *)
  Yaml,        (* versions of data/products.yaml: product id ->            *)
               (* [type, active, faction, pack], None for a field left out *)
  ByHand,      (* the same, with item and period, for products of the      *)
               (* types that the seed does not write yet                   *)
  MaxTime,     (* bound on the clock                                       *)
  MaxSeeds,    (* bound on the runs of the seed                            *)
  None         (* NULL                                                     *)

(* The generator of the seed takes two types, and requires their fields.   *)
TypeRequiredFields(row) ==
  /\ row.type \in {"faction_set", "card_pack"}
  /\ row.pack # None
  /\ row.type = "faction_set" => row.faction # None

ASSUME ProductListAssumption ==
  /\ MaxTime \in Nat /\ MaxSeeds \in Nat
  /\ \A y \in Yaml :
       /\ DOMAIN y \cap DOMAIN ByHand = {}
       /\ \A p \in DOMAIN y : TypeRequiredFields(y[p])
  /\ \A p \in DOMAIN ByHand : \/ ByHand[p].type = "cosmetic" /\ ByHand[p].item # None
                              \/ ByHand[p].type = "subscription" /\ ByHand[p].period # None

VARIABLES
  products, factions, packs,  (* tables: product id -> its row             *)
  seed,        (* [version, step] of the last or running run of the seed   *)
  seeds,       (* runs of the seed so far                                  *)
  owned,       (* card packs and items of the player                       *)
  wanted,      (* those whose purchase by the player is under way          *)
  sub,         (* the player's newest subscription: [status, end]          *)
  now,
  call         (* Call -> its local variables                              *)

catalogue == <<products, factions, packs, seed, seeds>>
vars == <<catalogue, owned, wanted, sub, now, call>>

Entitling == {"active", "cancelled", "grace_period"}
Statuses == Entitling \cup {"expired", "revoked", "absent"}
Ids == UNION {DOMAIN y : y \in Yaml \cup {ByHand}}
Assets ==
  (UNION {{y[p].pack : p \in DOMAIN y} : y \in Yaml}) \cup {ByHand[p].item : p \in DOMAIN ByHand}
View == [id : Ids,
         type : {"faction_set", "card_pack", "cosmetic", "subscription"},
         asset : Assets \cup {None}]

(* What the call does next; locals that it will not use again are gone.    *)
Places == {"idle", "subscription", "clock", "items", "owned", "200", "500"}
NoCall == [pc |-> "idle", views |-> {}, sub |-> [status |-> "absent", end |-> 0],
           entitled |-> FALSE, shown |-> {},
           before |-> {}, ever |-> FALSE, steady |-> FALSE]

TypeOK ==
  /\ seed.step \in {"factions", "packs", "done", "aborted"}
  /\ seed.version \in Yaml \cup {<<>>}
  /\ seeds  \in 0 .. MaxSeeds
  /\ owned  \subseteq Assets
  /\ wanted \subseteq Assets
  /\ sub    \in [status : Statuses, end : 0 .. MaxTime]
  /\ now    \in 0 .. MaxTime
  /\ \A c \in Call :
       /\ call[c].pc \in Places
       /\ call[c].views \subseteq View
       /\ call[c].shown \subseteq View \X BOOLEAN
       /\ \A s, t \in call[c].shown : s[1].id = t[1].id => s = t

-----------------------------------------------------------------------------
(* The catalogue.                                                          *)

(* A row of the LEFT JOIN: NULL where a table has no row for the product.  *)
Row(p) ==
  LET hand == p \in DOMAIN ByHand IN
  [id      |-> p,
   type    |-> products[p].type,
   active  |-> products[p].active,
   pack    |-> IF p \in DOMAIN packs THEN packs[p] ELSE None,
   faction |-> IF p \in DOMAIN factions THEN factions[p] ELSE None,
   item    |-> IF hand THEN ByHand[p].item ELSE None,
   period  |-> IF hand THEN ByHand[p].period ELSE None]

(* NewProductView returns a view and no error.                             *)
HasView(r) ==
  \/ r.type = "faction_set"  /\ r.pack # None /\ r.faction # None
  \/ r.type = "card_pack"    /\ r.pack # None
  \/ r.type = "cosmetic"     /\ r.item # None
  \/ r.type = "subscription" /\ r.period # None

(* Mutant: a set is taken for its faction.                                 *)
NewProductViewOfFaction(r) ==
  [id |-> r.id, type |-> r.type,
   asset |-> CASE r.type = "faction_set" -> r.faction
               [] r.type = "card_pack" -> r.pack
               [] r.type = "cosmetic" -> r.item
               [] r.type = "subscription" -> None]

NewProductView(r) ==
  [id |-> r.id, type |-> r.type,
   asset |-> CASE r.type \in {"faction_set", "card_pack"} -> r.pack
               [] r.type = "cosmetic" -> r.item
               [] r.type = "subscription" -> None]

(* INSERT ... ON CONFLICT (product_id) DO UPDATE.                          *)
Upsert(table, new) ==
  [p \in DOMAIN table \cup DOMAIN new |-> IF p \in DOMAIN new THEN new[p] ELSE table[p]]

ProductRows(y) == [p \in DOMAIN y |-> [type |-> y[p].type, active |-> y[p].active]]
FactionRows(y) == [p \in {q \in DOMAIN y : y[q].type = "faction_set"} |-> y[p].faction]

(* Mutant: only what is a card_pack gets its row in product_card_pack.     *)
PackRowsNotOfSets(y) == [p \in {q \in DOMAIN y : y[q].type = "card_pack"} |-> y[p].pack]

PackRows(y) == [p \in DOMAIN y |-> y[p].pack]

SeedProducts(y) ==
  /\ seed.step \in {"done", "aborted"}
  /\ seeds < MaxSeeds
  /\ seeds' = seeds + 1
  /\ products' = Upsert(products, ProductRows(y))
  /\ seed' = [version |-> y, step |-> "factions"]
  /\ UNCHANGED <<factions, packs>>

SeedFactions ==
  /\ seed.step = "factions"
  /\ factions' = Upsert(factions, FactionRows(seed.version))
  /\ seed' = [seed EXCEPT !.step = "packs"]
  /\ UNCHANGED <<products, packs, seeds>>

SeedPacks ==
  /\ seed.step = "packs"
  /\ packs' = Upsert(packs, PackRows(seed.version))
  /\ seed' = [seed EXCEPT !.step = "done"]
  /\ UNCHANGED <<products, factions, seeds>>

SeedAborts ==
  /\ seed.step \in {"factions", "packs"}
  /\ seed' = [seed EXCEPT !.step = "aborted"]
  /\ UNCHANGED <<products, factions, packs, seeds>>

-----------------------------------------------------------------------------
(* IsEntitled of a row that was read, at the present time.                 *)
IsEntitled(s) == s.status \in Entitling /\ s.end > now

(* What happens to the calls under way when the rest of the state changes: *)
(* whether the player was entitled at some moment of the call, and all     *)
(* through it on the strength of the same row.                             *)
Witness ==
  call' = [c \in Call |->
    IF call[c].pc \in {"idle", "200", "500"} THEN call[c]
    ELSE [call[c] EXCEPT !.ever = @ \/ IsEntitled(sub)',
                         !.steady = @ /\ sub' = sub /\ IsEntitled(sub)']]

Seed ==
  /\ \/ \E y \in Yaml : SeedProducts(y)
     \/ SeedFactions \/ SeedPacks \/ SeedAborts
  /\ UNCHANGED <<owned, wanted, sub, now, call>>

(* Purchase reads the product: it must be sold, and not be owned yet.      *)
GetProductByID(p) ==
  LET r == Row(p) IN
  /\ r.active
  /\ HasView(r)
  /\ r.type # "subscription"
  /\ NewProductView(r).asset \notin owned
  /\ wanted' = wanted \cup {NewProductView(r).asset}
  /\ UNCHANGED <<catalogue, owned, sub, now, call>>

(* It commits: what it read may have changed since, and the key of owned   *)
(* refuses a second purchase.                                              *)
CreatePurchase ==
  /\ \E a \in wanted \ owned : owned' = owned \cup {a} /\ wanted' = wanted \ {a}
  /\ UNCHANGED <<catalogue, sub, now, call>>

(* A Subscribe call or a webhook handler writes the newest row: any status *)
(* over any other, with an end that may have passed.  To a list a grace    *)
(* period is like a cancellation, a revocation like an expiry.             *)
WriteSubscription ==
  /\ \E s \in {"active", "cancelled", "expired"}, end \in 1 .. MaxTime :
       /\ sub.status = "absent" => s = "active"
       /\ sub' = [status |-> s, end |-> end]
  /\ UNCHANGED <<catalogue, owned, wanted, now>>
  /\ Witness

Tick ==
  /\ now < MaxTime
  /\ now' = now + 1
  /\ UNCHANGED <<catalogue, owned, wanted, sub>>
  /\ Witness

-----------------------------------------------------------------------------
(* The steps of a list call.                                               *)
Only(c, local) ==
  /\ call' = [call EXCEPT ![c] = local]
  /\ UNCHANGED <<catalogue, owned, wanted, sub, now>>

(* One row without a view fails the list.                                  *)
GetActiveProducts(c) ==
  LET active == {r \in {Row(p) : p \in DOMAIN products} : r.active}
      started == [call[c] EXCEPT !.before = owned, !.ever = IsEntitled(sub), !.steady = IsEntitled(sub)]
  IN
  /\ call[c].pc = "idle"
  /\ Only(c, IF \A r \in active : HasView(r)
             THEN [started EXCEPT !.pc = "subscription", !.views = {NewProductView(r) : r \in active}]
             ELSE [NoCall EXCEPT !.pc = "500"])

GetLatestSubscription(c) ==
  /\ call[c].pc = "subscription"
  /\ Only(c, [call[c] EXCEPT !.pc = "clock", !.sub = sub])

(* Mutant: a cancelled subscription is taken for one that has ended.       *)
CheckEntitledActiveOnly(c) ==
  /\ call[c].pc = "clock"
  /\ Only(c, [call[c] EXCEPT !.pc = "items", !.sub = NoCall.sub,
                             !.entitled = call[c].sub.status = "active" /\ call[c].sub.end > now])

CheckEntitled(c) ==
  /\ call[c].pc = "clock"
  /\ Only(c, [call[c] EXCEPT !.pc = "items", !.sub = NoCall.sub,
                             !.entitled = IsEntitled(call[c].sub)])

(* Mutant: an item of the same type counts as the item.                    *)
ShowsByType(v, entitled) ==
  IF v.type = "subscription" THEN entitled ELSE \E i \in owned : i[1] = v.asset[1]

(* isProductOwned of what needs no query of its own: the subscription was  *)
(* judged before, and a cosmetic is looked for among the items.            *)
Shows(v, entitled) == IF v.type = "subscription" THEN entitled ELSE v.asset \in owned

HasPack(v) == v.type \in {"faction_set", "card_pack"}

ListPlayerItems(c) ==
  /\ call[c].pc = "items"
  /\ Only(c, [call[c] EXCEPT !.pc = "owned",
       !.shown = {<<v, Shows(v, call[c].entitled)>> : v \in {w \in call[c].views : ~HasPack(w)}}])

(* isProductOwned of a set or a pack: a query for each in the loop.        *)
HasPlayerCardPack(c) ==
  /\ call[c].pc = "owned"
  /\ \E v \in call[c].views \ {s[1] : s \in call[c].shown} :
       Only(c, [call[c] EXCEPT !.shown = @ \cup {<<v, v.asset \in owned>>}])

Respond(c) ==
  /\ call[c].pc = "owned"
  /\ {s[1] : s \in call[c].shown} = call[c].views
  /\ Only(c, [NoCall EXCEPT !.pc = "200"])

(* A query fails.                                                          *)
Fail(c) ==
  /\ call[c].pc \notin {"200", "500", "clock"}
  /\ Only(c, [NoCall EXCEPT !.pc = "500"])

Init ==
  /\ products = ProductRows(ByHand)
  /\ factions = <<>>
  /\ packs    = <<>>
  /\ seed     = [version |-> <<>>, step |-> "done"]
  /\ seeds    = 0
  /\ owned    = {}
  /\ wanted   = {}
  /\ sub      = [status |-> "absent", end |-> 0]
  /\ now      = 0
  /\ call     = [c \in Call |-> NoCall]

Next ==
  \/ Seed \/ WriteSubscription \/ Tick \/ CreatePurchase
  \/ \E p \in DOMAIN products : GetProductByID(p)
  \/ \E c \in Call :
       \/ GetActiveProducts(c) \/ GetLatestSubscription(c) \/ CheckEntitled(c)
       \/ ListPlayerItems(c) \/ HasPlayerCardPack(c) \/ Respond(c) \/ Fail(c)

Spec == Init /\ [][Next]_vars

-----------------------------------------------------------------------------
(***************************************************************************)
(* Properties.                                                             *)
(***************************************************************************)

(* Although it is put together from several reads, no entry of a list is   *)
(* wrong: what it shows as owned is owned, and what it shows as not owned  *)
(* was not when the call began.  So a purchase that was answered before is *)
(* in every later list.                                                    *)
ShownWasTrue ==
  \A c \in Call : \A s \in call[c].shown :
    s[1].type # "subscription" =>
      (IF s[2] THEN s[1].asset \in owned ELSE s[1].asset \notin call[c].before)

(* A list shows the subscription only to a player entitled at some moment  *)
(* of the call, and to every player who is entitled throughout; a renewal  *)
(* between the read of the row and the look at the clock may be missed.    *)
SubscriptionIsShown ==
  \A c \in Call : \A s \in call[c].shown :
    s[1].type = "subscription" =>
      (IF s[2] THEN call[c].ever ELSE ~call[c].steady)

(* A complete run of the seed leaves a catalogue that can be listed, also  *)
(* after aborted runs, if it knows every product they inserted.            *)
CatalogueIsWhole ==
  seed.step = "done" /\ DOMAIN products \subseteq DOMAIN seed.version \cup DOMAIN ByHand =>
    \A p \in DOMAIN products : HasView(Row(p))
=============================================================================
