------------------------------- MODULE Server -------------------------------
(***************************************************************************)
(* One instance of the shop: it starts, serves requests beside the outbox  *)
(* ticker, stops and is started again by the platform.                     *)
(*                                                                         *)
(*   run, runHTTPAndWorker, ...        cmd/server/main.go, db.go           *)
(*   OutboxTicker.Run                  handler/worker/outbox_ticker.go     *)
(*   the environment                   Startup                             *)
(*   requests and their answers        Http                                *)
(*   receipts and notifications        Receipts                            *)
(*                                                                         *)
(* What a usecase does inside is in PurchaseFlow, Subscription and         *)
(* ProductList, what RunOnce does in Outbox.  Here a request is one        *)
(* stretch of work before its transaction, the transaction, which holds a  *)
(* connection of the pool, and the answer; purchases and subscriptions     *)
(* look for their token before.  A request stands for one purchase token   *)
(* or notification.  Its caller may be cut off and repeat it while the     *)
(* first attempt goes on.                                                  *)
(***************************************************************************)
EXTENDS Startup, Http, Receipts

CONSTANTS
  Client,      (* callers, each with one request to get done               *)
  Request,     (* Client -> the requests it may have                       *)
  GoodEnv,     (* environments the service is meant to run in              *)
  BadEnv,      (* environments with a mistake                              *)
  MaxMishaps   (* bound on signals, crashes, failures and bad environments *)

ASSUME ServerAssumption ==
  /\ MaxMishaps \in Nat
  /\ \A e \in GoodEnv \cup BadEnv : \A name \in Numbers : e.numbers[name] \in Int \cup {None}
  /\ \A c \in Client : \A r \in Request[c] :
       r.op \in Ops /\ r.body \in Bodies /\ r.receipt.jws \in JWS /\ r.receipt.inner \in JWS

VARIABLES
  stage,       (* how far run() has come, "down" without a process         *)
  env,         (* environment of the process, None without one             *)
  open,        (* resources to be closed                                   *)
  cancelled,   (* gCtx: a signal arrived or the HTTP server failed         *)
  http,        (* the goroutine of ListenAndServe                          *)
  ticker,      (* that of OutboxTicker.Run                                 *)
  batch,       (* events claimed by the running RunOnce                    *)
  stopper,     (* that of Shutdown                                         *)
  request,     (* Client -> its request                                    *)
  pc,          (* Client -> where its request is                           *)
  err,         (* Client -> what the usecase returned                      *)
  result,      (* Client -> what its client method returned                *)
  left,        (* Client -> where an attempt of it is that it has given up *)
               (* waiting for, "none" without one; at most one at a time   *)
  raced,       (* callers whose latest attempt looked for its token while  *)
               (* an earlier one was under way                             *)
  committed,   (* requests whose transaction has committed                 *)
  pending,     (* those whose newest event is not published                *)
  givenUp,     (* those of them whose event has failed too often           *)
  mishaps

process == <<stage, env, open, cancelled, http, ticker, stopper>>
calls == <<request, pc, err, result, left, raced>>
outbox == <<pending, givenUp, batch>>
vars == <<process, calls, committed, outbox, mishaps>>

Stages == {"down", "config", "pool", "publisher", "verifiers", "ticker", "handler", "serving", "closing"}
Active == {"find", "usecase", "tx", "answer"}
Left == {"find", "usecase", "tx"}

(* A handler works on a request of c, whether or not c waits for it.       *)
UnderWay(c) == pc[c] \in Active \/ left[c] # "none"

TypeOK ==
  /\ stage \in Stages
  /\ env \in GoodEnv \cup BadEnv \cup {None}
  /\ open \subseteq {"dialer", "pool", "publisher"}
  /\ cancelled \in BOOLEAN
  /\ http \in {"off", "listening", "ended"}
  /\ ticker \in {"off", "waiting", "running", "ended"}
  /\ stopper \in {"off", "waiting", "draining", "done", "gaveup"}
  /\ pc \in [Client -> {"idle", "done"} \cup Active]
  /\ left \in [Client -> {"none"} \cup Left]
  /\ raced \subseteq Client
  /\ batch \subseteq pending \ givenUp /\ givenUp \subseteq pending
  /\ pending \subseteq committed /\ committed \subseteq Client
  /\ mishaps \in 0 .. MaxMishaps
  /\ \A c \in Client :
       /\ pc[c] = "done" => result[c] \in {"ok", "transport", "ErrUnauthorized", "ErrPaymentRequired",
                                           "ErrNotFound", "ErrBadRequest", "ErrConflict", "ErrInternalServer"}
       /\ UnderWay(c) => stage \in {"serving", "closing"}

Init ==
  /\ stage = "down" /\ env = None /\ open = {} /\ cancelled = FALSE
  /\ http = "off" /\ ticker = "off" /\ batch = {} /\ stopper = "off"
  /\ request \in {f \in [Client -> UNION {Request[c] : c \in Client}] : \A c \in Client : f[c] \in Request[c]}
  /\ pc = [c \in Client |-> "idle"]
  /\ err = [c \in Client |-> "none"]
  /\ result = [c \in Client |-> "none"]
  /\ left = [c \in Client |-> "none"]
  /\ raced = {} /\ committed = {} /\ pending = {} /\ givenUp = {} /\ mishaps = 0

Mishap == mishaps < MaxMishaps /\ mishaps' = mishaps + 1

Iap == env.choice["IAP_VERIFIER"]

-----------------------------------------------------------------------------
(* run(), up to the goroutines.  What has been opened is closed by defers, *)
(* whichever step fails.                                                   *)

Start(e) ==
  /\ stage = "down"
  /\ IF e \in GoodEnv THEN UNCHANGED mishaps ELSE Mishap
  /\ stage' = "config"
  /\ env' = e
  /\ UNCHANGED <<open, cancelled, http, ticker, stopper, calls, committed, outbox>>

(* Step s is next, opens resources, and leads to t, if it can succeed; the *)
(* services it talks to may fail it all the same.                          *)
BootStep(s, t, can, resources) ==
  /\ stage = s
  /\ \/ can /\ stage' = t /\ open' = open \cup resources /\ UNCHANGED mishaps
     \/ ~can /\ stage' = "closing" /\ UNCHANGED <<open, mishaps>>
     \/ Mishap /\ stage' = "closing" /\ UNCHANGED open
  /\ UNCHANGED <<env, cancelled, http, ticker, stopper, calls, committed, outbox>>

Boot ==
  \/ BootStep("config", "pool", FromEnv(env), {})
  \/ BootStep("pool", "publisher", TRUE, PoolResources(env))
  \/ BootStep("publisher", "verifiers", NewPublisher(env), {"publisher"})
  \/ BootStep("verifiers", "ticker", SetupVerifiers(env), {})
  \/ BootStep("ticker", "handler", BuildOutboxTicker(env), {})

(* buildHTTPHandler, then runHTTPAndWorker starts its three goroutines.    *)
RunHTTPAndWorker ==
  /\ stage = "handler"
  /\ IF BuildHTTPHandler(env)
     THEN stage' = "serving" /\ ticker' = "waiting" /\ stopper' = "waiting"
     ELSE stage' = "closing" /\ UNCHANGED <<ticker, stopper>>
  /\ UNCHANGED <<env, open, cancelled, http, calls, committed, outbox, mishaps>>

-----------------------------------------------------------------------------
(* The goroutines.                                                         *)

(* ListenAndServe; it returns at once after Shutdown, or when the port     *)
(* cannot be had, and an error of it cancels the others.                   *)
Listen ==
  /\ stage = "serving" /\ http = "off"
  /\ \/ stopper = "waiting" /\ http' = "listening" /\ UNCHANGED <<cancelled, mishaps>>
     \/ stopper # "waiting" /\ http' = "ended" /\ UNCHANGED <<cancelled, mishaps>>
     \/ Mishap /\ http' = "ended" /\ cancelled' = TRUE
  /\ UNCHANGED <<stage, env, open, ticker, stopper, calls, committed, outbox>>

(* A tick: RunOnce claims rows that no lease and no limit keeps back, or   *)
(* the claim fails, which is logged.                                       *)
TickerRuns ==
  /\ ticker = "waiting"
  /\ ticker' = "running"
  /\ batch' \in SUBSET (pending \ givenUp)
  /\ UNCHANGED <<stage, env, open, cancelled, http, stopper, calls, committed, pending, givenUp, mishaps>>

(* Row by row, some events are published and marked.  The others failed,   *)
(* and those whose count has reached the threshold are not claimed again.  *)
(* With its context cancelled, statements and publishes fail from some     *)
(* point on, and nothing is counted.                                       *)
Relayed(sent, stuck) ==
  /\ IF sent = batch \/ (cancelled /\ stuck = {}) THEN UNCHANGED mishaps ELSE Mishap
  /\ pending' = pending \ sent
  /\ givenUp' = givenUp \cup stuck
  /\ batch' = {}

(* Mutant: the loop is left after a tick.                                  *)
RunOnceReturnsForGood ==
  /\ ticker = "running"
  /\ ticker' = "ended"
  /\ \E sent \in SUBSET batch : \E stuck \in SUBSET (batch \ sent) : Relayed(sent, stuck)
  /\ UNCHANGED <<stage, env, open, cancelled, http, stopper, calls, committed>>

RunOnceReturns ==
  /\ ticker = "running"
  /\ ticker' = "waiting"
  /\ \E sent \in SUBSET batch : \E stuck \in SUBSET (batch \ sent) : Relayed(sent, stuck)
  /\ UNCHANGED <<stage, env, open, cancelled, http, stopper, calls, committed>>

TickerStops ==
  /\ ticker = "waiting" /\ cancelled
  /\ ticker' = "ended"
  /\ UNCHANGED <<stage, env, open, cancelled, http, stopper, calls, committed, outbox, mishaps>>

Signal ==
  /\ stage \notin {"down", "config", "closing"} /\ ~cancelled
  /\ Mishap
  /\ cancelled' = TRUE
  /\ UNCHANGED <<stage, env, open, http, ticker, stopper, calls, committed, outbox>>

(* Mutant: Shutdown is called when the HTTP server has ended.              *)
ShutdownBeginsAfterHTTP ==
  /\ stopper = "waiting" /\ cancelled /\ http = "ended"
  /\ stopper' = "draining"
  /\ UNCHANGED <<stage, env, open, cancelled, http, ticker, calls, committed, outbox, mishaps>>

(* Shutdown: no new requests, and those under way may end.                 *)
ShutdownBegins ==
  /\ stopper = "waiting" /\ cancelled
  /\ stopper' = "draining"
  /\ http' = IF http = "listening" THEN "ended" ELSE http
  /\ UNCHANGED <<stage, env, open, cancelled, ticker, calls, committed, outbox, mishaps>>

(* It waits until they have, or for ten seconds.                           *)
ShutdownEnds ==
  /\ stopper = "draining"
  /\ stopper' = IF \E c \in Client : UnderWay(c) THEN "gaveup" ELSE "done"
  /\ UNCHANGED <<stage, env, open, cancelled, http, ticker, calls, committed, outbox, mishaps>>

(* Mutant: the group is left as soon as the HTTP server has been stopped.  *)
WaitForHTTPOnly ==
  /\ stage = "serving"
  /\ http = "ended" /\ stopper \in {"done", "gaveup"}
  /\ stage' = "closing"
  /\ UNCHANGED <<env, open, cancelled, http, ticker, stopper, calls, committed, outbox, mishaps>>

(* g.Wait                                                                  *)
Wait ==
  /\ stage = "serving"
  /\ http = "ended" /\ ticker = "ended" /\ stopper \in {"done", "gaveup"}
  /\ stage' = "closing"
  /\ UNCHANGED <<env, open, cancelled, http, ticker, stopper, calls, committed, outbox, mishaps>>

(* The defers, last opened first; closing the pool waits for connections.  *)
CloseNext ==
  /\ stage = "closing"
  /\ \/ "publisher" \in open /\ open' = open \ {"publisher"}
     \/ /\ "publisher" \notin open /\ "pool" \in open
        /\ \A c \in Client : pc[c] # "tx" /\ left[c] # "tx"
        /\ open' = open \ {"pool"}
     \/ open = {"dialer"} /\ open' = {}
  /\ UNCHANGED <<stage, env, cancelled, http, ticker, stopper, calls, committed, outbox, mishaps>>

(* The process is gone, and with it the connections to its callers.        *)
Gone ==
  /\ stage' = "down" /\ env' = None /\ open' = {} /\ cancelled' = FALSE
  /\ http' = "off" /\ ticker' = "off" /\ batch' = {} /\ stopper' = "off"
  /\ pc' = [c \in Client |-> IF pc[c] \in Active THEN "done" ELSE pc[c]]
  /\ result' = [c \in Client |-> IF pc[c] \in Active THEN "transport" ELSE result[c]]
  /\ left' = [c \in Client |-> "none"]
  /\ UNCHANGED <<request, err, raced, committed, pending, givenUp>>

Exit == stage = "closing" /\ open = {} /\ Gone /\ UNCHANGED mishaps

Crash == stage # "down" /\ Mishap /\ Gone

-----------------------------------------------------------------------------
(* Requests.                                                               *)

Goto(c, place) == pc' = [pc EXCEPT ![c] = place] /\ result' = [result EXCEPT ![c] = "none"]

Return(c, r) == pc' = [pc EXCEPT ![c] = "done"] /\ result' = [result EXCEPT ![c] = r]

(* The client method is called, and again after a result that leaves open  *)
(* what happened.                                                          *)
Calls(c) == pc[c] = "idle" \/ (pc[c] = "done" /\ result[c] \in {"transport", "ErrInternalServer"})

Buys(op) == op \in {"purchase", "subscribe"}

Send(c) ==
  LET early == EarlyStatus(request[c], Routes(env)) IN
  /\ Calls(c)
  /\ http = "listening" /\ Sends(request[c])
  /\ IF early = 0 THEN Goto(c, IF Buys(request[c].op) THEN "find" ELSE "usecase")
                  ELSE Return(c, ClientResult(request[c].op, early, "json"))
  /\ err' = [err EXCEPT ![c] = "none"]
  /\ UNCHANGED <<process, request, left, raced, committed, outbox, mishaps>>

(* No request leaves, or none arrives: nobody listens, or the connection   *)
(* fails.                                                                  *)
SendFails(c) ==
  /\ Calls(c)
  /\ IF http # "listening" \/ ~Sends(request[c]) THEN UNCHANGED mishaps ELSE Mishap
  /\ Return(c, "transport")
  /\ UNCHANGED <<process, request, err, left, raced, committed, outbox>>

(* A timeout of the caller, its cancelled context or a lost connection,    *)
(* while the handler works.                                                *)
CutOff(c) ==
  /\ pc[c] \in Active /\ left[c] = "none"
  /\ Mishap
  /\ Return(c, "transport")
  /\ left' = [left EXCEPT ![c] = IF pc[c] \in Left THEN pc[c] ELSE "none"]
  /\ UNCHANGED <<process, request, err, raced, committed, outbox>>

(* Mutant: the token is not looked for.                                    *)
FindNothing(c) ==
  IF request[c].receipt.platform \notin {"ios", "android"} THEN "ErrUnsupportedPlatform"
  ELSE IF "pool" \notin open THEN "database"
  ELSE "none"

(* getVerifier and FindPurchaseByToken or FindSubscriptionByToken: an      *)
(* error, "done" if the token is known, or "none".                         *)
Find(c) ==
  IF request[c].receipt.platform \notin {"ios", "android"} THEN "ErrUnsupportedPlatform"
  ELSE IF "pool" \notin open THEN "database"
  ELSE IF c \in committed THEN "done" ELSE "none"

FindByToken(c) ==
  /\ pc[c] = "find"
  /\ Goto(c, IF Find(c) = "none" THEN "usecase" ELSE "answer")
  /\ err' = [err EXCEPT ![c] = IF Find(c) = "done" THEN "none" ELSE Find(c)]
  /\ raced' = IF left[c] = "none" THEN raced \ {c} ELSE raced \cup {c}
  /\ UNCHANGED <<process, request, left, committed, outbox, mishaps>>

(* What the usecase may refuse a request with that has a good receipt.     *)
Refusals(op) ==
  CASE op = "purchase"  -> {"ErrNotFound", "ErrProductNotActive", "ErrUnsupportedProductType", "ErrAlreadyOwned"}
    [] op = "subscribe" -> {"ErrNotFound", "ErrProductNotSubscription"}

(* updateSubscriptionFromGoogle: the product of the row may differ, not    *)
(* every state has a transition, and the end may be missing.               *)
Transitions == {"ACTIVE", "CANCELED", "IN_GRACE_PERIOD", "ON_HOLD", "PAUSED", "EXPIRED"}

FromGoogle(r) ==
  IF ~FetchSubscription(r) THEN {"store"}
  ELSE {"mismatch",
        IF r.state \notin Transitions THEN "state" ELSE IF r.expiry = "given" THEN "none" ELSE "expiry"}

(* What it may return before its transaction, "none" if it goes on to one, *)
(* "done" if there is nothing to write.  Without the pool every query      *)
(* fails.                                                                  *)
Outcomes(op, r) ==
  CASE op = "apple"  -> IF AppleNotification(r, "ours") # "none" THEN {AppleNotification(r, "ours")}
                        ELSE IF "pool" \notin open THEN {"database"}
                        ELSE {"done", "ErrSubscriptionNotFound", "none"}
                             \cup (IF r.expiry = "given" THEN {} ELSE {"ErrDecodeTransactionInfo"})
    [] op = "google" -> IF GoogleNotification(r) # "none" THEN {GoogleNotification(r)}
                        ELSE IF "pool" \notin open THEN {"database"}
                        ELSE {"done", "ErrSubscriptionNotFound"} \cup FromGoogle(r)
    [] Buys(op) -> IF "pool" \notin open THEN {"database"} ELSE Refusals(op) \cup
         (CASE Verify(Iap, "ours", op, r) = "valid"   -> {"none"}
            [] Verify(Iap, "ours", op, r) = "invalid" -> {InvalidReceipt(op)}
            [] Verify(Iap, "ours", op, r) = "error"   -> {"verify"})
    [] op = "products" -> IF "pool" \notin open THEN {"database"} ELSE {"done"}

Usecase(c) ==
  /\ pc[c] = "usecase"
  /\ \E e \in Outcomes(request[c].op, request[c].receipt) :
       /\ Goto(c, IF e = "none" THEN "tx" ELSE "answer")
       /\ err' = [err EXCEPT ![c] = IF e = "done" THEN "none" ELSE e]
  /\ UNCHANGED <<process, request, left, raced, committed, outbox, mishaps>>

(* The transaction commits: a known token writes nothing, a purchase or    *)
(* subscription an event, a notification an event or none.                 *)
Commits(c) ==
  LET op == request[c].op IN
  /\ committed' = committed \cup {c}
  /\ \/ /\ Buys(op) => c \in committed
        /\ UNCHANGED outbox
     \/ /\ ~(Buys(op) /\ c \in committed)
        /\ pending' = pending \cup {c} /\ givenUp' = givenUp \ {c} /\ batch' = batch \ {c}

Commit(c) ==
  /\ pc[c] = "tx"
  /\ Goto(c, "answer")
  /\ Commits(c)
  /\ UNCHANGED <<process, request, err, left, raced, mishaps>>

(* A query fails, or the transaction, which may have committed all the     *)
(* same.                                                                   *)
QueryFails(c) ==
  /\ pc[c] \in {"find", "usecase"}
  /\ Mishap
  /\ Goto(c, "answer")
  /\ err' = [err EXCEPT ![c] = "database"]
  /\ UNCHANGED <<process, request, left, raced, committed, outbox>>

TransactionFails(c) ==
  /\ pc[c] = "tx"
  /\ Mishap
  /\ Goto(c, "answer")
  /\ err' = [err EXCEPT ![c] = "database"]
  /\ Commits(c) \/ UNCHANGED <<committed, outbox>>
  /\ UNCHANGED <<process, request, left, raced>>

(* An attempt that nobody waits for goes on to its commit or its end, or   *)
(* its context, cancelled with the connection, ends it before.             *)
GoOn(c) ==
  /\ left[c] # "none"
  /\ \/ /\ left[c] = "find" /\ Find(c) = "none"
        /\ left' = [left EXCEPT ![c] = "usecase"]
        /\ UNCHANGED <<committed, outbox>>
     \/ /\ left[c] = "usecase" /\ "none" \in Outcomes(request[c].op, request[c].receipt)
        /\ left' = [left EXCEPT ![c] = "tx"]
        /\ UNCHANGED <<committed, outbox>>
     \/ /\ left[c] = "tx"
        /\ left' = [left EXCEPT ![c] = "none"]
        /\ Commits(c)
     \/ /\ left' = [left EXCEPT ![c] = "none"]
        /\ UNCHANGED <<committed, outbox>>
  /\ UNCHANGED <<process, request, pc, err, result, raced, mishaps>>

Answer(c) ==
  /\ pc[c] = "answer"
  /\ Return(c, ClientResult(request[c].op, Status(request[c].op, err[c]), "json"))
  /\ UNCHANGED <<process, request, err, left, raced, committed, outbox, mishaps>>

Handle(c) == FindByToken(c) \/ Usecase(c) \/ Commit(c) \/ Answer(c)

Step(c) ==
  \/ Send(c) \/ Handle(c) \/ SendFails(c) \/ CutOff(c)
  \/ QueryFails(c) \/ TransactionFails(c) \/ GoOn(c)

Run ==
  \/ Boot \/ RunHTTPAndWorker \/ Listen \/ ShutdownBegins \/ ShutdownEnds
  \/ Wait \/ CloseNext \/ Exit

Next ==
  \/ \E e \in GoodEnv \cup BadEnv : Start(e)
  \/ Run \/ TickerRuns \/ RunOnceReturns \/ TickerStops \/ Signal \/ Crash
  \/ \E c \in Client : Step(c)

(* The platform starts a stopped instance again; goroutines and requests   *)
(* go on; a select with both channels ready takes ctx.Done some time.  A   *)
(* lease runs out and older rows leave or are given up, so that a row is   *)
(* claimed some time as long as the ticker runs.                           *)
Fairness ==
  /\ WF_vars(\E e \in GoodEnv : Start(e))
  /\ WF_vars(Run)
  /\ WF_vars(TickerRuns) /\ WF_vars(RunOnceReturns) /\ SF_vars(TickerStops)
  /\ \A c \in Client : SF_vars(TickerRuns /\ c \in batch')
  /\ \A c \in Client : WF_vars(Handle(c)) /\ WF_vars(GoOn(c))

Spec == Init /\ [][Next]_vars
FairSpec == Spec /\ Fairness

-----------------------------------------------------------------------------
(***************************************************************************)
(* Properties.                                                             *)
(***************************************************************************)

(* What a configuration check lets through never stops a later step of the *)
(* start: only unusable keys do.  And a server with the store's verifiers  *)
(* has every secret (docs/operations/IAP_SECRETS.md:3), and leases outbox  *)
(* rows for at least a millisecond.                                        *)
AcceptedConfigServes ==
  /\ stage = "publisher" => NewPublisher(env)
  /\ stage = "ticker" => BuildOutboxTicker(env)
  /\ stage \in {"ticker", "handler", "serving"} => SetupVerifiers(env)
  /\ stage = "serving" => (Store(env) => Secrets \subseteq env.secrets) /\ VisibilityInterval(env) >= 1
  /\ stage = "verifiers" /\ "apple" \in env.keys => SetupVerifiers(env)

(* A notification gets as far as its handler only in a process that talks  *)
(* to the stores, whose notifiers have what they need (main.go:197).       *)
WebhooksNeedStore ==
  \A c \in Client : pc[c] \in Active /\ request[c].op \in {"apple", "google"} =>
    /\ {"googleSub", "appleJWS"} \subseteq VerifierSet(env)
    /\ request[c].op = "google" => VerifyPubSubPush(request[c].auth)

(* The errors of a notification that a later delivery may not meet.        *)
Retriable == {"database", "store", "mismatch", "state", "expiry"}

(* What the caller is told is what happened: "ok" is never said of a       *)
(* purchase, or acknowledged of a notification worth a retry, that is not  *)
(* in the database.  A purchase that is there, or gets there from an       *)
(* attempt still under way, is never called unpaid or the caller not       *)
(* authorized; it is denied with another error at most in answer to a      *)
(* repeat that looked for its token while an earlier attempt was still     *)
(* working.  And a receipt is called bad only when the store answered, not *)
(* when it failed.                                                         *)
ResultIsTrue ==
  \A c \in Client : pc[c] = "done" =>
    /\ result[c] = "ok" =>
         \/ request[c].op \in {"health", "products"}
         \/ c \in committed
         \/ Webhook(request[c].op) /\ err[c] \notin Retriable
    /\ Buys(request[c].op) /\ c \in committed =>
         /\ result[c] \notin {"ErrUnauthorized", "ErrPaymentRequired"}
         /\ result[c] \in {"ok", "transport", "ErrInternalServer"} \/ c \in raced
    /\ result[c] = "ErrPaymentRequired" => request[c].receipt.reply

(* Nobody is left with a closed resource: RunOnce has the publisher and    *)
(* the pool as long as it runs, a transaction has the pool, also one that  *)
(* nobody waits for, and handlers meet a closed pool only when the         *)
(* shutdown gave up on them.                                               *)
ResourcesOutliveUse ==
  /\ ticker = "running" => {"publisher", "pool"} \subseteq open
  /\ \A c \in Client :
       /\ pc[c] = "tx" \/ left[c] = "tx" => "pool" \in open
       /\ UnderWay(c) /\ stage = "closing" => stopper = "gaveup"

(* Every committed event is published, unless publishing it fails until it *)
(* is given up: also one committed while the ticker has already stopped,   *)
(* whose row the next process finds, and one whose claim, publish or mark  *)
(* failed before.                                                          *)
EventsLeave == \A c \in Client : c \in pending ~> c \notin pending \/ c \in givenUp

(* After a signal, or when the HTTP server cannot run, the whole process   *)
(* ends.                                                                   *)
Stops == cancelled ~> stage = "down"
=============================================================================
