---------------------------- MODULE PurchaseFlow ----------------------------
(***************************************************************************)
(* POST /api/v1/shop/purchase: calls that run at the same time against one *)
(* PostgreSQL database.                                                    *)
(*                                                                         *)
(*   Purchase, purchaseFactionSet, purchaseCardPack, purchaseCosmetic,     *)
(*   verifyPurchase                     usecase/purchase/service.go        *)
(*   FindPurchaseByToken, GetProductByID, HasPlayerCardPack,               *)
(*   HasPlayerItem, CreatePurchase      repository/postgres/*.go           *)
(*   resolveErrorStatus                 handler/rest/errors.go             *)
(*                                                                         *)
(* A query is one step.  CreatePurchase is a transaction: its INSERTs are  *)
(* steps too, because each can wait for another transaction that has       *)
(* inserted the same key and not yet ended.  The INSERT into               *)
(* one_time_purchases, whose key is generated, is taken with the           *)
(* first keyed INSERT, and the outbox INSERTs, whose keys are fresh, with  *)
(* the COMMIT: neither can wait or conflict.                               *)
(***************************************************************************)
EXTENDS Naturals, FiniteSets

CONSTANTS
  Call,        (* calls of the endpoint; a row of one_time_purchases is    *)
               (* named after the call that inserted it                    *)
  Request,     (* what callers send: records [player, product, token]      *)
  Player, Product, Token, Asset,
  KindOf,      (* Product -> its type, "unknown" for an id not in products *)
  Inactive,    (* products whose is_active is false                        *)
  MainAsset,   (* Product -> its card_pack_id, or its item                 *)
  FactionOf,   (* Product -> the faction of a faction_set                  *)
  Valid,       (* <<token, product>> pairs the verifier says are valid     *)
  MaxFaults,   (* bound on failing queries, verifiers and connections      *)
  None         (* no call                                                  *)

Kinds == {"faction_set", "card_pack", "cosmetic", "subscription", "unknown"}

ASSUME PurchaseAssumption ==
  /\ Request \subseteq [player : Player, product : Product, token : Token]
  /\ KindOf \in [Product -> Kinds]
  /\ Inactive \subseteq Product
  /\ MainAsset \in [Product -> Asset]
  /\ FactionOf \in [Product -> Asset]
  /\ \A p, r \in Product : FactionOf[p] # MainAsset[r]
  /\ Token \cap (Player \X Asset) = {}
  /\ None \notin Call
  /\ None \notin Request
  /\ MaxFaults \in Nat

(* The keys of the unique indexes: tokens, and what a player owns.         *)
Key == Token \cup (Player \X Asset)

VARIABLES
  (* The database: committed rows.                                         *)
  rows,        (* Key -> the call whose transaction inserted it, or None   *)
  purchases,   (* one_time_purchases                                       *)
  outbox,      (* <<call, asset>>: events of committed transactions        *)
  (* The calls.                                                            *)
  request,     (* Call -> its arguments                                    *)
  pc,          (* Call -> where it is                                      *)
  written,     (* Call -> keys its open transaction has inserted           *)
  answer,      (* Call -> the HTTP status of its answer                    *)
  faults       (* failures so far                                          *)

database == <<rows, purchases, outbox>>
vars == <<rows, purchases, outbox, request, pc, written, answer, faults>>

Statements == {"token", "faction", "main"}
Places ==
  Statements \cup {"idle", "product", "owned", "verify", "commit", "done"}
Answers == {"none", "200", "400", "402", "404", "409", "500"}

TypeOK ==
  /\ rows      \in [Key -> Call \cup {None}]
  /\ purchases \in SUBSET Call
  /\ outbox    \in SUBSET (Call \X Asset)
  /\ request   \in [Call -> Request]
  /\ pc        \in [Call -> Places]
  /\ written   \in [Call -> SUBSET Key]
  /\ answer    \in [Call -> Answers]
  /\ faults    \in 0 .. MaxFaults

(***************************************************************************)
(* What a product contains.                                                *)
(***************************************************************************)

(* The assets a purchase inserts; only a faction_set has two.              *)
Contents(p) ==
  IF KindOf[p] = "faction_set" THEN {FactionOf[p], MainAsset[p]} ELSE {MainAsset[p]}

(* The assets it writes an outbox event for.                               *)
Announced(p) == IF KindOf[p] = "cosmetic" THEN {} ELSE Contents(p)

MainKey(q) == <<q.player, MainAsset[q.product]>>

(* The key the statement s of a purchase inserts.                          *)
KeyOf(q, s) ==
  CASE s = "token"   -> q.token
    [] s = "faction" -> <<q.player, FactionOf[q.product]>>
    [] s = "main"    -> MainKey(q)

KeysOf(q) == {q.token} \cup ({q.player} \X Contents(q.product))

(* Mutant: the card pack repository inserts the pack before the token.     *)
FollowingPackFirst(q, s) ==
  IF KindOf[q.product] # "card_pack"
  THEN CASE s = "begin"   -> "token"
         [] s = "token"   -> IF KindOf[q.product] = "faction_set" THEN "faction" ELSE "main"
         [] s = "faction" -> "main"
         [] s = "main"    -> "commit"
  ELSE CASE s = "begin" -> "main" [] s = "main" -> "token" [] s = "token" -> "commit"

(* The order of the statements of CreatePurchase.                          *)
Following(q, s) ==
  CASE s = "begin"   -> "token"
    [] s = "token"   -> IF KindOf[q.product] = "faction_set" THEN "faction" ELSE "main"
    [] s = "faction" -> "main"
    [] s = "main"    -> "commit"

(***************************************************************************)
(* The steps of a call.                                                    *)
(***************************************************************************)
Init ==
  /\ rows      = [k \in Key |-> None]
  /\ purchases = {}
  /\ outbox    = {}
  /\ request   \in [Call -> Request]
  /\ pc        = [c \in Call |-> "idle"]
  /\ written   = [c \in Call |-> {}]
  /\ answer    = [c \in Call |-> "none"]
  /\ faults    = 0

Goto(c, s) == pc' = [pc EXCEPT ![c] = s] /\ UNCHANGED answer

Respond(c, status) ==
  /\ pc' = [pc EXCEPT ![c] = "done"]
  /\ answer' = [answer EXCEPT ![c] = status]

FindPurchaseByToken(c) ==
  /\ pc[c] = "idle"
  /\ IF rows[request[c].token] # None THEN Respond(c, "200") ELSE Goto(c, "product")
  /\ UNCHANGED <<database, request, written, faults>>

GetProductByID(c) ==
  LET p == request[c].product IN
  /\ pc[c] = "product"
  /\ \/ KindOf[p] = "unknown" /\ Respond(c, "404")
     \/ KindOf[p] # "unknown" /\ p \in Inactive /\ Respond(c, "400")
     \/ KindOf[p] = "subscription" /\ p \notin Inactive /\ Respond(c, "400")
     \/ /\ KindOf[p] \in {"faction_set", "card_pack", "cosmetic"}
        /\ p \notin Inactive
        /\ Goto(c, "owned")
  /\ UNCHANGED <<database, request, written, faults>>

(* HasPlayerCardPack, or HasPlayerItem for a cosmetic.                     *)
CheckOwned(c) ==
  /\ pc[c] = "owned"
  /\ IF rows[MainKey(request[c])] # None THEN Respond(c, "409") ELSE Goto(c, "verify")
  /\ UNCHANGED <<database, request, written, faults>>

(* Mutant: the verifier's err is checked, its IsValid is not.              *)
VerifyPurchaseErrOnly(c) ==
  /\ pc[c] = "verify"
  /\ Goto(c, Following(request[c], "begin"))
  /\ UNCHANGED <<database, request, written, faults>>

VerifyPurchase(c) ==
  /\ pc[c] = "verify"
  /\ IF <<request[c].token, request[c].product>> \in Valid
     THEN Goto(c, Following(request[c], "begin"))
     ELSE Respond(c, "402")
  /\ UNCHANGED <<database, request, written, faults>>

(* Another open transaction has inserted the key that c inserts next.      *)
WaitsFor(c, d) ==
  /\ d # c
  /\ pc[c] \in Statements
  /\ KeyOf(request[c], pc[c]) \in written[d]

(* Mutant: the token is looked for before it is inserted, so that the      *)
(* statement does not wait: a token in flight counts as taken.             *)
InsertWithoutWaiting(c) ==
  LET k == KeyOf(request[c], pc[c])
      taken == rows[k] # None \/ \E d \in Call \ {c} : k \in written[d]
  IN
  /\ pc[c] \in Statements
  /\ IF ~taken
     THEN /\ written' = [written EXCEPT ![c] = @ \cup {k}]
          /\ Goto(c, Following(request[c], pc[c]))
     ELSE /\ written' = [written EXCEPT ![c] = {}]
          /\ Respond(c, IF pc[c] = "token" THEN "200" ELSE "500")
  /\ UNCHANGED <<database, request, faults>>

(* Mutant: ON CONFLICT DO NOTHING on what is owned, as on the token.       *)
InsertIgnoresOwned(c) ==
  LET k == KeyOf(request[c], pc[c]) IN
  /\ pc[c] \in Statements
  /\ \A d \in Call : ~WaitsFor(c, d)
  /\ IF rows[k] = None \/ pc[c] # "token"
     THEN /\ written' = [written EXCEPT ![c] = IF rows[k] = None THEN @ \cup {k} ELSE @]
          /\ Goto(c, Following(request[c], pc[c]))
     ELSE /\ written' = [written EXCEPT ![c] = {}]
          /\ Respond(c, "200")
  /\ UNCHANGED <<database, request, faults>>

(* An INSERT waits until no open transaction holds the key.  Then either   *)
(* the key is free; or it is taken, and that is a conflict to do nothing   *)
(* about for a token (the deferred rollback undoes the purchase row and    *)
(* the caller sees success), and a unique violation for what is owned.     *)
Insert(c) ==
  LET k == KeyOf(request[c], pc[c]) IN
  /\ pc[c] \in Statements
  /\ \A d \in Call : ~WaitsFor(c, d)
  /\ IF rows[k] = None
     THEN /\ written' = [written EXCEPT ![c] = @ \cup {k}]
          /\ Goto(c, Following(request[c], pc[c]))
     ELSE /\ written' = [written EXCEPT ![c] = {}]
          /\ Respond(c, IF pc[c] = "token" THEN "200" ELSE "500")
  /\ UNCHANGED <<database, request, faults>>

(* Mutant: the row of a key points to the player, not to the purchase.     *)
ApplyKeepsPlayer(c) ==
  /\ pc[c] = "commit"
  /\ rows' = [k \in Key |-> IF k \in written[c] THEN request[c].player ELSE rows[k]]
  /\ purchases' = purchases \cup {c}
  /\ outbox' = outbox \cup ({c} \X Announced(request[c].product))
  /\ written' = [written EXCEPT ![c] = {}]
  /\ UNCHANGED request

(* The outbox events are inserted and the transaction commits.             *)
Apply(c) ==
  /\ pc[c] = "commit"
  /\ rows' = [k \in Key |-> IF k \in written[c] THEN c ELSE rows[k]]
  /\ purchases' = purchases \cup {c}
  /\ outbox' = outbox \cup ({c} \X Announced(request[c].product))
  /\ written' = [written EXCEPT ![c] = {}]
  /\ UNCHANGED request

Commit(c) == Apply(c) /\ Respond(c, "200") /\ UNCHANGED faults

(* The database committed, but the answer to COMMIT did not arrive.        *)
CommitUnknown(c) ==
  /\ faults < MaxFaults
  /\ Apply(c)
  /\ Respond(c, "500")
  /\ faults' = faults + 1

(* A query, a statement or the verifier fails, the caller goes away, or    *)
(* the process dies: an open transaction is rolled back, and the caller    *)
(* gets 500 or nothing.                                                    *)
Fail(c) ==
  /\ pc[c] # "done"
  /\ faults < MaxFaults
  /\ written' = [written EXCEPT ![c] = {}]
  /\ Respond(c, "500")
  /\ faults' = faults + 1
  /\ UNCHANGED <<database, request>>

Step(c) ==
  \/ FindPurchaseByToken(c) \/ GetProductByID(c) \/ CheckOwned(c)
  \/ VerifyPurchase(c) \/ Insert(c) \/ Commit(c)

Next == \E c \in Call : Step(c) \/ CommitUnknown(c) \/ Fail(c)

Spec == Init /\ [][Next]_vars

(* net/http keeps running a handler once it was called.                    *)
FairSpec == Spec /\ \A c \in Call : WF_vars(Step(c) /\ pc[c] # "idle")

-----------------------------------------------------------------------------
(***************************************************************************)
(* Properties.                                                             *)
(***************************************************************************)

(* What CreatePurchase writes is there as a whole or not at all: the       *)
(* purchase, its token, everything the product contains and the events     *)
(* that announce it.  As a key has one row, no token is used for two       *)
(* purchases and no player is sold the same thing twice.                   *)
AllOrNothing ==
  /\ \A c \in purchases : \A k \in KeysOf(request[c]) : rows[k] = c
  /\ \A k \in Key : rows[k] # None =>
       rows[k] \in purchases /\ k \in KeysOf(request[rows[k]])
  /\ outbox = UNION {{c} \X Announced(request[c].product) : c \in purchases}

(* Every answer agrees with the database: success means that the token is  *)
(* recorded, "already owned" that the player owns the product's pack or    *)
(* item, and a refusal that this call recorded nothing.                    *)
AnswersAreTrue ==
  \A c \in Call :
    /\ answer[c] = "200" => rows[request[c].token] # None
    /\ answer[c] = "409" => rows[MainKey(request[c])] # None
    /\ answer[c] \in {"400", "402", "404", "409"} => c \notin purchases

(* Transactions that wait for each other's keys never form a circle: all   *)
(* of them insert the token first, then the faction, then the pack.        *)
NoCircularWait ==
  \A S \in SUBSET Call : S # {} => \E c \in S : \A d \in S : ~WaitsFor(c, d)

(* A call that has started gets an answer, however long it waits for other *)
(* transactions.                                                           *)
EveryCallAnswered == \A c \in Call : pc[c] # "idle" ~> pc[c] = "done"

(* The flow implements the ledger.                                         *)
RedeemedFor(t) == IF rows[t] = None THEN None ELSE request[rows[t]]

Ledger == INSTANCE PurchaseLedger WITH
  redeemed  <- [t \in {q.token : q \in Request} |-> RedeemedFor(t)],
  owned     <- {k \in Player \X Asset : rows[k] # None},
  announced <- {<<request[e[1]], e[2]>> : e \in outbox},
  confirmed <- {request[c].token : c \in {d \in Call : answer[d] = "200"}}

(* A token is redeemed once, for a product the store vouches for and with  *)
(* all of its contents at once, however calls interleave and fail.         *)
KeepsLedger == Ledger!Spec
=============================================================================
