------------------------------ MODULE Receipts ------------------------------
(***************************************************************************)
(* What the stores' answers about a purchase token are made into.          *)
(*                                                                         *)
(*   JWSVerifier.Verify                adapter/apple/jws_verifier.go       *)
(*   Verifier (Apple)                  adapter/apple/verifier.go           *)
(*   Verifier, fetchSubscription       adapter/google/verifier.go          *)
(*   Verifier (stub)                   adapter/stub/verifier.go            *)
(*   HandleNotification, the decoding  usecase/subscription/*.go           *)
(*                                                                         *)
(* A receipt is a record of what the store answers when it is asked about  *)
(* the token: reply is FALSE when the request fails, the status is not 200 *)
(* or the body is not the expected JSON; the other fields hold what is in  *)
(* the body.  A result is "valid", "invalid" (the store answered, and the  *)
(* purchase is not one to honour) or "error" (no verdict).                 *)
(***************************************************************************)
EXTENDS Naturals

(* A JWS of the store: a chain up to the trusted root, an ES256 signature. *)
JWS == [parts : 2 .. 3, alg : {"ES256", "RS256"}, chain : {"none", "apple", "other"},
        key : {"ecdsa", "rsa"}, signed : BOOLEAN]

GoogleStates ==
  {"ACTIVE", "CANCELED", "IN_GRACE_PERIOD", "ON_HOLD", "PAUSED", "EXPIRED", "PENDING",
   "PENDING_PURCHASE_CANCELED", "UNSPECIFIED"}

(* Verify accepts; everything it decodes on the way is in order.           *)
VerifyJWS(jws) ==
  /\ jws.parts = 3
  /\ jws.alg = "ES256"
  /\ jws.chain = "apple"
  /\ jws.key = "ecdsa"
  /\ jws.signed

-----------------------------------------------------------------------------
(* Apple: one request, signed with the key of the configuration, and a     *)
(* transaction in the answer to it.                                        *)
GetJSON(r) == r.reply
DecodeTransactionInfo(r) == VerifyJWS(r.jws)

ApplePurchase(r, bundle) ==
  IF GetJSON(r) /\ DecodeTransactionInfo(r)
  THEN IF r.bundle = bundle THEN "valid" ELSE "invalid"
  ELSE "error"

(* Only the first transaction of the first group counts.                   *)
AppleSubscription(r, bundle) ==
  IF GetJSON(r) /\ r.lines > 0 /\ DecodeTransactionInfo(r)
  THEN IF r.bundle # bundle THEN "invalid" ELSE IF r.expiry = "given" THEN "valid" ELSE "error"
  ELSE IF GetJSON(r) /\ r.lines = 0 THEN "invalid" ELSE "error"

-----------------------------------------------------------------------------
(* Google: purchaseState 0 is purchased, 1 cancelled, 2 pending.           *)
GooglePurchase(r) ==
  IF ~r.reply THEN "error" ELSE IF r.purchaseState = 0 THEN "valid" ELSE "invalid"

(* fetchSubscription returns without an error.                             *)
FetchSubscription(r) ==
  /\ r.reply
  /\ r.lines = 1
  /\ r.expiry # "unreadable"
  /\ r.state \in GoogleStates

(* The state of the subscription is not looked at.                         *)
GoogleSubscription(r) ==
  IF FetchSubscription(r) /\ r.expiry = "given" THEN "valid" ELSE "error"

-----------------------------------------------------------------------------
(* getVerifier, with the verifiers the server was started with.            *)
Verify(iap, bundle, op, r) ==
  CASE iap = "stub" -> "valid"
    [] iap = "store" /\ r.platform = "ios" ->
         IF op = "purchase" THEN ApplePurchase(r, bundle) ELSE AppleSubscription(r, bundle)
    [] iap = "store" /\ r.platform = "android" ->
         IF op = "purchase" THEN GooglePurchase(r) ELSE GoogleSubscription(r)

InvalidReceipt(op) == IF op = "purchase" THEN "ErrReceiptVerificationFailed" ELSE "ErrSubVerificationFailed"

(* The part of Apple's handler before it looks for the subscription: the   *)
(* notification and the transaction in it are signed apart.                *)
DecodeAppleJWS(jws) == VerifyJWS(jws)

AppleNotification(r, bundle) ==
  IF ~DecodeAppleJWS(r.jws) \/ r.bundle # bundle THEN "ErrDecodeNotification"
  ELSE IF DecodeAppleJWS(r.inner) THEN "none" ELSE "ErrDecodeTransactionInfo"

(* The same of Google's: base64, JSON, and what kind of notification.      *)
GoogleNotification(r) ==
  CASE r.data = "base64" -> "ErrDecodeRTDNData"
    [] r.data = "json"   -> "ErrUnmarshalRTDNData"
    [] r.data = "other"  -> "done"
    [] r.data = "good"   -> "none"
=============================================================================
