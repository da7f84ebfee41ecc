------------------------------- MODULE Startup -------------------------------
(***************************************************************************)
(* What the process makes of its environment.                              *)
(*                                                                         *)
(*   FromEnv, loadOutboxConfig, ...    config/config.go                    *)
(*   setupVerifiers, buildHTTPHandler, buildOutboxTicker                   *)
(*                                     cmd/server/main.go                  *)
(*   New                               adapter/pubsub, usecase/outbox,     *)
(*                                     handler/worker, router              *)
(*                                                                         *)
(* An environment is a record: given, the variables that are not empty;    *)
(* numbers, the value of those read as a number or a duration (durations   *)
(* in microseconds), or None for text that is neither; choice, the value   *)
(* of those read as one of a few words; secrets, what Secret Manager has   *)
(* a value for; and keys, which PEM values hold a usable key.              *)
(***************************************************************************)
EXTENDS Integers

CONSTANT None

Names ==
  {"DATABASE_CONN", "GOOGLE_CLOUD_PROJECT", "CARD_PACK_PURCHASED_TOPIC",
   "FACTION_ACQUIRED_TOPIC", "PREMIUM_UPDATED_TOPIC", "INTERNAL_AUTH_PUBLIC_KEY",
   "CLOUDSQL_CONNECTION_NAME", "PUBSUB_PUSH_SERVICE_ACCOUNT_EMAIL", "PUBSUB_PUSH_AUDIENCE"}

Numbers ==
  {"PORT", "OUTBOX_POLL_INTERVAL", "OUTBOX_BATCH_SIZE", "OUTBOX_FAILURE_THRESHOLD",
   "OUTBOX_VISIBILITY_TIMEOUT"}

Choices == {"DATABASE_IAM_AUTH_ENABLED", "LOG_MODE", "IAP_VERIFIER", "APPLE_ENVIRONMENT"}

Secrets ==
  {"shop-apple-key-id", "shop-apple-issuer-id", "shop-apple-bundle-id",
   "shop-google-package-name", "shop-apple-private-key"}

Millisecond == 1000

-----------------------------------------------------------------------------
(* FromEnv.                                                                *)

Required ==
  {"DATABASE_CONN", "GOOGLE_CLOUD_PROJECT", "CARD_PACK_PURCHASED_TOPIC",
   "FACTION_ACQUIRED_TOPIC", "PREMIUM_UPDATED_TOPIC", "INTERNAL_AUTH_PUBLIC_KEY"}

(* The variable is given, is a number, and is at least low.                *)
AtLeast(env, name, low) ==
  env.numbers[name] # None /\ env.numbers[name] >= low

(* Mutant: the visibility timeout is checked like the other durations.     *)
LoadOutboxConfigPositive(env) ==
  \A name \in Numbers \ {"PORT"} : AtLeast(env, name, 1)

LoadOutboxConfig(env) ==
  /\ \A name \in {"OUTBOX_POLL_INTERVAL", "OUTBOX_BATCH_SIZE", "OUTBOX_FAILURE_THRESHOLD"} :
       AtLeast(env, name, 1)
  /\ AtLeast(env, "OUTBOX_VISIBILITY_TIMEOUT", Millisecond)

ValidatePubSubPushConfig(env) ==
  {"PUBSUB_PUSH_SERVICE_ACCOUNT_EMAIL", "PUBSUB_PUSH_AUDIENCE"} \subseteq env.given

LoadStoreIAP(env) ==
  /\ env.choice["APPLE_ENVIRONMENT"] \in {"Production", "Sandbox"}
  /\ Secrets \subseteq env.secrets

FromEnv(env) ==
  /\ AtLeast(env, "PORT", 1) /\ env.numbers["PORT"] <= 65535
  /\ Required \subseteq env.given
  /\ env.choice["DATABASE_IAM_AUTH_ENABLED"] \in {"true", "false"}
  /\ env.choice["DATABASE_IAM_AUTH_ENABLED"] = "true" => "CLOUDSQL_CONNECTION_NAME" \in env.given
  /\ LoadOutboxConfig(env)
  /\ env.choice["LOG_MODE"] \in {"production", "local"}
  /\ env.choice["IAP_VERIFIER"] \in {"store", "stub"}
  /\ env.choice["IAP_VERIFIER"] = "store" => ValidatePubSubPushConfig(env) /\ LoadStoreIAP(env)

Store(env) == env.choice["IAP_VERIFIER"] = "store"

(* newDatabasePool: what has to be closed again.                           *)
PoolResources(env) ==
  {"pool"} \cup (IF env.choice["DATABASE_IAM_AUTH_ENABLED"] = "true" THEN {"dialer"} ELSE {})

-----------------------------------------------------------------------------
(* The constructors that check what the configuration gives them.          *)

(* pubsub.New                                                              *)
NewPublisher(env) == Required \ {"DATABASE_CONN", "INTERNAL_AUTH_PUBLIC_KEY"} \subseteq env.given

(* setupVerifiers: NewVerifierFromPEM wants a P-256 key and a known        *)
(* environment; the stub wants nothing.                                    *)
SetupVerifiers(env) ==
  Store(env) => "apple" \in env.keys /\ env.choice["APPLE_ENVIRONMENT"] \in {"Production", "Sandbox"}

(* The verifiers that are not nil afterwards.                              *)
VerifierSet(env) == {"apple", "google"} \cup (IF Store(env) THEN {"googleSub", "appleJWS"} ELSE {})

(* buildOutboxTicker: outbox.New and NewOutboxTicker.                      *)
BuildOutboxTicker(env) == \A name \in Numbers \ {"PORT"} : env.numbers[name] > 0

(* The interval of the claim, in whole milliseconds.                       *)
VisibilityInterval(env) == env.numbers["OUTBOX_VISIBILITY_TIMEOUT"] \div Millisecond

(* The webhook handlers of buildHTTPHandler that are not nil.              *)
WebhookHandlers(env) == IF Store(env) THEN {"apple", "google"} ELSE {}

PushValidator(env) == Store(env)

(* buildHTTPHandler and router.New return without an error.                *)
BuildHTTPHandler(env) ==
  /\ "internal" \in env.keys
  /\ "google" \in WebhookHandlers(env) => PushValidator(env)

(* Mutant: the webhook routes are registered whatever the handlers.        *)
RoutesAlways(env) ==
  {"GET /health", "GET /api/v1/shop/products", "POST /api/v1/shop/purchase",
   "POST /api/v1/shop/subscribe", "POST /webhook/apple", "POST /webhook/google"}

(* The routes router.New registers.                                        *)
Routes(env) ==
  {"GET /health", "GET /api/v1/shop/products", "POST /api/v1/shop/purchase",
   "POST /api/v1/shop/subscribe"}
  \cup {[apple |-> "POST /webhook/apple", google |-> "POST /webhook/google"][handler] :
          handler \in WebhookHandlers(env)}
=============================================================================
