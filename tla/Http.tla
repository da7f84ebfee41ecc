-------------------------------- MODULE Http --------------------------------
(***************************************************************************)
(* A request on its way from the client package through the router and the *)
(* handlers, and its answer on the way back.                               *)
(*                                                                         *)
(*   New, verifyPubSubPush             router/*.go                         *)
(*   handlers, decodeRequestBody, ...  handler/rest/*.go                   *)
(*   apishopclient                     packages/api-shop/apishopclient     *)
(*   the generated client              packages/api-shop/openapi_gen.go    *)
(*                                                                         *)
(* The operations are named after their routes.  A request is a record:    *)
(* op, edited (the client's request editors succeed), auth (the token or   *)
(* header that comes with it) and body.                                    *)
(***************************************************************************)
EXTENDS Naturals

Ops == {"health", "products", "purchase", "subscribe", "apple", "google"}
Bodies == {"empty", "garbled", "incomplete", "good"}

-----------------------------------------------------------------------------
(* The way in.                                                             *)

(* The webhooks answer a status and no body.                               *)
Webhook(op) == op \in {"apple", "google"}

(* The request the generated client makes for an operation.                *)
ShopRoute(op) ==
  CASE op = "health"    -> "GET /health"
    [] op = "products"  -> "GET /api/v1/shop/products"
    [] op = "purchase"  -> "POST /api/v1/shop/purchase"
    [] op = "subscribe" -> "POST /api/v1/shop/subscribe"

WebhookRoute(op) == IF op = "apple" THEN "POST /webhook/apple" ELSE "POST /webhook/google"

Route(op) == IF Webhook(op) THEN WebhookRoute(op) ELSE ShopRoute(op)

(* It is sent unless one of the editors fails.                             *)
ApplyEditors(req) == req.edited
Sends(req) == ApplyEditors(req)

(* An OIDC token of a Pub/Sub push: signature, expiry and audience are     *)
(* checked by the library, the rest by Validate and verifyPubSubPush.      *)
VerifyPubSubPush(auth) ==
  /\ auth.bearer
  /\ auth.valid
  /\ auth.issuer = "https://accounts.google.com"
  /\ auth.verified
  /\ auth.email = "push"

(* VerifyInternalAuth, a library of the gateway: a JWT of the gateway.     *)
VerifyInternalAuth(auth) == auth.internal

(* Whether the request passes the checks before the handler.               *)
Authorized(req) ==
  CASE req.op \in {"products", "purchase", "subscribe"} -> VerifyInternalAuth(req.auth)
    [] req.op = "google" -> VerifyPubSubPush(req.auth)
    [] req.op \in {"health", "apple"} -> TRUE

DecodeRequestBody(req) == req.body \notin {"empty", "garbled"}
ValidateRequiredFields(req) == req.body # "incomplete"

(* Operations without a body read none.                                    *)
Readable(req) ==
  req.op \in {"health", "products"} \/ (DecodeRequestBody(req) /\ ValidateRequiredFields(req))

(* The status of an answer given before the usecase, or 0.                 *)
EarlyStatus(req, routes) ==
  IF Route(req.op) \notin routes THEN 404
  ELSE IF ~Authorized(req) THEN 401
  ELSE IF ~Readable(req) THEN 400
  ELSE IF req.op = "health" THEN 200 ELSE 0

-----------------------------------------------------------------------------
(* The way back.                                                           *)

IsNotFound(err)      == err = "ErrNotFound"
IsConflict(err)      == err = "ErrAlreadyOwned"
IsValidation(err)    == err \in {"ErrProductNotActive", "ErrProductNotSubscription",
                                 "ErrUnsupportedProductType", "ErrUnsupportedPlatform"}
IsPaymentFailed(err) == err \in {"ErrReceiptVerificationFailed", "ErrSubVerificationFailed"}
IsDeterministic(err) ==
  err \in {"ErrDecodeNotification", "ErrDecodeTransactionInfo", "ErrDecodeRTDNData",
           "ErrUnmarshalRTDNData", "ErrSubscriptionNotFound"}

ResolveErrorStatus(err) ==
  CASE IsNotFound(err)      -> 404
    [] IsConflict(err)      -> 409
    [] IsValidation(err)    -> 400
    [] IsPaymentFailed(err) -> 402
    [] OTHER                -> 500

RespondWebhook(err) == IF err = "none" \/ IsDeterministic(err) THEN 200 ELSE 500

(* The status a handler answers with after the usecase.                    *)
Status(op, err) ==
  IF Webhook(op) THEN RespondWebhook(err)
  ELSE IF err = "none" THEN 200 ELSE ResolveErrorStatus(err)

(* Mutant: 402 has no case.                                                *)
NewStatusErrorWithout402(code) ==
  CASE code = 401 -> "ErrUnauthorized"
    [] code = 404 -> "ErrNotFound"
    [] code = 400 -> "ErrBadRequest"
    [] code = 409 -> "ErrConflict"
    [] code >= 500 -> "ErrInternalServer"
    [] OTHER -> "unexpected status"

(* newStatusError                                                          *)
NewStatusError(code) ==
  CASE code = 401 -> "ErrUnauthorized"
    [] code = 402 -> "ErrPaymentRequired"
    [] code = 404 -> "ErrNotFound"
    [] code = 400 -> "ErrBadRequest"
    [] code = 409 -> "ErrConflict"
    [] code >= 500 -> "ErrInternalServer"
    [] OTHER -> "unexpected status"

(* Parse...Response: a 200 whose JSON does not fit is an error, without    *)
(* JSON there is no JSON200.                                               *)
Unparsable(op, code, body) == ~Webhook(op) /\ code = 200 /\ body = "other"
HasJSON200(op, code, body) == ~Webhook(op) /\ code = 200 /\ body = "json"

(* What the client method returns for an answer.                           *)
ClientResult(op, code, body) ==
  CASE Unparsable(op, code, body) -> "unreadable"
    [] HasJSON200(op, code, body) \/ (Webhook(op) /\ code = 200) -> "ok"
    [] OTHER -> NewStatusError(code)
=============================================================================
