------------------------------ MODULE MCServer ------------------------------
(* Environments, receipts and requests that differ from a good one in one  *)
(* respect.                                                                *)
EXTENDS Server

Store1 ==
  [given |-> Names, secrets |-> Secrets, keys |-> {"apple", "internal"},
   numbers |-> [n \in Numbers |-> IF n = "PORT" THEN 8080 ELSE 30000],
   choice |-> [n \in Choices |->
     CASE n = "DATABASE_IAM_AUTH_ENABLED" -> "true" [] n = "LOG_MODE" -> "production"
       [] n = "IAP_VERIFIER" -> "store" [] n = "APPLE_ENVIRONMENT" -> "Production"]]

Stub1 ==
  [given |-> Required, secrets |-> {}, keys |-> {"internal"}, numbers |-> Store1.numbers,
   choice |-> [Store1.choice EXCEPT !["IAP_VERIFIER"] = "stub", !["LOG_MODE"] = "local",
                                    !["DATABASE_IAM_AUTH_ENABLED"] = "false"]]

GoodEnvs == {Store1, Stub1}

BadEnvs ==
       {[Store1 EXCEPT !.given = @ \ {n}] : n \in Names}
  \cup {[Store1 EXCEPT !.secrets = @ \ {n}] : n \in Secrets}
  \cup {[Store1 EXCEPT !.keys = @ \ {n}] : n \in {"apple", "internal"}}
  \cup {[Store1 EXCEPT !.numbers[n] = v] : n \in Numbers, v \in {None, 0}}
  \cup {[Store1 EXCEPT !.numbers["OUTBOX_VISIBILITY_TIMEOUT"] = 999],
        [Store1 EXCEPT !.numbers = [n \in Numbers |-> IF n = "OUTBOX_VISIBILITY_TIMEOUT" THEN 1000 ELSE 1]]}
  \cup {[Store1 EXCEPT !.choice[n] = "other"] : n \in Choices}

Good == [parts |-> 3, alg |-> "ES256", chain |-> "apple", key |-> "ecdsa", signed |-> TRUE]

Receipt ==
  [platform |-> "ios", reply |-> TRUE, jws |-> Good, inner |-> Good, bundle |-> "ours",
   lines |-> 1, expiry |-> "given", purchaseState |-> 0, state |-> "ACTIVE", data |-> "good"]

BadJWS == {[Good EXCEPT !.signed = FALSE], [Good EXCEPT !.chain = "other"], [Good EXCEPT !.parts = 2]}

Bought ==
  {Receipt, [Receipt EXCEPT !.platform = "other"]}
  \cup UNION {{[r EXCEPT !.reply = FALSE], [r EXCEPT !.bundle = "other"], [r EXCEPT !.lines = 0],
               [r EXCEPT !.expiry = "none"], [r EXCEPT !.purchaseState = 2], [r EXCEPT !.state = "NEW"]}
              : r \in {Receipt, [Receipt EXCEPT !.platform = "android"]}}
  \cup {[Receipt EXCEPT !.jws = j] : j \in BadJWS}

Told ==
       {[Receipt EXCEPT !.data = d] : d \in {"good", "base64", "json", "other"}}
  \cup {[Receipt EXCEPT !.inner = j] : j \in BadJWS}
  \cup {[Receipt EXCEPT !.reply = FALSE], [Receipt EXCEPT !.expiry = "none"], [Receipt EXCEPT !.state = "PENDING"]}

Auth ==
  [internal |-> TRUE, bearer |-> TRUE, valid |-> TRUE, issuer |-> "https://accounts.google.com",
   verified |-> TRUE, email |-> "push"]

Req(op, r) == [op |-> op, edited |-> TRUE, auth |-> Auth, body |-> "good", receipt |-> r]

BadAuth ==
  {[Auth EXCEPT !.internal = FALSE], [Auth EXCEPT !.bearer = FALSE], [Auth EXCEPT !.valid = FALSE],
   [Auth EXCEPT !.issuer = "other"], [Auth EXCEPT !.verified = FALSE], [Auth EXCEPT !.email = "other"]}

Varied(op) ==
  {[Req(op, Receipt) EXCEPT !.edited = FALSE]}
  \cup {[Req(op, Receipt) EXCEPT !.body = b] : b \in {"empty", "garbled", "incomplete"}}
  \cup {[Req(op, Receipt) EXCEPT !.auth = a] : a \in BadAuth}

AnyRequest ==
  UNION {Varied(op) : op \in {"health", "purchase", "google"}}
  \cup {Req(op, r) : op \in {"purchase", "subscribe"}, r \in Bought}
  \cup {Req(op, r) : op \in {"apple", "google"}, r \in Told}
  \cup {Req(op, Receipt) : op \in {"health", "products"}}

CONSTANT c1

Requests == [c \in Client |-> AnyRequest]
=============================================================================
