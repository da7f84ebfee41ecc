----------------------------- MODULE ServerProofs -----------------------------
(***************************************************************************)
(* Proofs about Server for any callers, requests and environments.         *)
(***************************************************************************)
EXTENDS Server, TLAPS

Before == {"down", "config", "pool", "publisher", "verifiers", "ticker", "handler"}

(* The variables with a domain of callers.                                 *)
Shape ==
  /\ pc \in [Client -> {"idle", "done"} \cup Active]
  /\ request = [c \in Client |-> request[c]]
  /\ err = [c \in Client |-> err[c]]
  /\ result = [c \in Client |-> result[c]]
  /\ left \in [Client -> {"none"} \cup Left]
  /\ raced \subseteq Client
  /\ \A c \in Client : request[c] \in Request[c]

(* What is open at which stage, and which goroutines run: they are started *)
(* last, and the HTTP server and the ticker do not outlive g.Wait.         *)
StageInv ==
  /\ stage \in Stages
  /\ stopper \in {"off", "waiting", "draining", "done", "gaveup"}
  /\ stage \in Before => ticker = "off" /\ stopper = "off" /\ http = "off"
  /\ stage \in {"publisher", "verifiers", "ticker", "handler", "serving"} => "pool" \in open
  /\ stage \in {"verifiers", "ticker", "handler", "serving"} => "publisher" \in open
  /\ ticker \in {"waiting", "running"} => stage = "serving"
  /\ http = "listening" => stage = "serving" /\ stopper = "waiting"
  /\ stage = "closing" => stopper \in {"off", "done", "gaveup"}

(* A request is under way only in a configured process, past the checks    *)
(* before its handler, and not beyond an orderly shutdown.                 *)
RequestInv ==
  /\ stage \notin {"down", "config", "closing"} => FromEnv(env)
  /\ \A c \in Client : UnderWay(c) =>
       /\ stage \in {"serving", "closing"}
       /\ stopper \notin {"off", "done"}
       /\ FromEnv(env)
       /\ EarlyStatus(request[c], Routes(env)) = 0
  /\ \A c \in Client : pc[c] = "tx" \/ left[c] = "tx" => "pool" \in open

(* A start that has come past a check has passed it.                       *)
SetupInv ==
  /\ stage # "down" => env \in GoodEnv \cup BadEnv
  /\ stage \in {"ticker", "handler", "serving"} => SetupVerifiers(env)

(* The store does not refuse the receipt: its purchase may get as far as   *)
(* the transaction.                                                        *)
Served(r) == r.platform \in {"ios", "android"}

Payable(c) == Verify(Iap, "ours", request[c].op, request[c].receipt) = "valid"

(* An answer, on its way as e or received as r, that denies a purchase, or *)
(* calls it unpaid.                                                        *)
Denied(p, e, r) ==
  \/ p = "answer" /\ e \notin {"none", "database", "verify"}
  \/ p = "done" /\ r \notin {"ok", "transport", "ErrInternalServer"}

Unpaid(p, e, r) ==
  \/ p = "answer" /\ IsPaymentFailed(e)
  \/ p = "done" /\ r = "ErrPaymentRequired"

(* Of a caller whose request is at p with error e and result r, with an    *)
(* earlier attempt at l: what is in the database was bought with a receipt *)
(* that the store accepts, and an attempt that is past the look for its    *)
(* token, or denied, can only have missed a purchase that raced with it.   *)
BuyFacts(c, p, e, r, l, done, race) ==
  Buys(request[c].op) =>
    /\ done => Authorized(request[c]) /\ Readable(request[c])
    /\ (done \/ p \in {"usecase", "tx"} \/ l \in {"usecase", "tx"}) => Served(request[c].receipt)
    /\ (p = "tx" \/ l = "tx" \/ (p = "usecase" /\ done)) => Payable(c)
    /\ (p = "usecase" \/ Denied(p, e, r)) /\ (done \/ l # "none") => race
    /\ Unpaid(p, e, r) => ~done /\ (l = "none" \/ ~Payable(c))
    /\ p = "done" /\ r = "ErrUnauthorized" => ~Authorized(request[c])

Facts(c, p, e, r, l, done, race) ==
  LET op == request[c].op IN
  /\ BuyFacts(c, p, e, r, l, done, race)
  /\ p = "tx" => e = "none"
  /\ p = "answer" =>
       /\ e = "none" => op = "products" \/ done \/ Webhook(op)
       /\ ~Webhook(op) /\ IsPaymentFailed(e) => request[c].receipt.reply
  /\ p = "done" =>
       /\ r = "ok" => \/ op \in {"health", "products"} \/ done
                      \/ Webhook(op) /\ e \notin Retriable
       /\ r = "ErrPaymentRequired" => request[c].receipt.reply

AnswerInv ==
  \A c \in Client : Facts(c, pc[c], err[c], result[c], left[c], c \in committed, c \in raced)

IInv == Shape /\ StageInv /\ SetupInv /\ RequestInv /\ AnswerInv

-----------------------------------------------------------------------------
LEMMA RequestTypes ==
  ASSUME Shape, NEW c \in Client
  PROVE  request[c].op \in Ops
  BY ServerAssumption DEF ServerAssumption, Shape

LEMMA NumberTypes ==
  ASSUME NEW e \in GoodEnv \cup BadEnv, NEW name \in Numbers
  PROVE  e.numbers[name] \in Int \cup {None}
  BY ServerAssumption DEF ServerAssumption

(* Every resource is open from its stage on until the process closes it.   *)
LEMMA StageStep ==
  ASSUME Shape, StageInv, RequestInv, [Next]_vars
  PROVE  StageInv'
<1> USE DEF StageInv, Before, Stages
<1>1. CASE UNCHANGED vars
  BY <1>1 DEF vars, process
<1>2. ASSUME NEW e \in GoodEnv \cup BadEnv, Start(e) PROVE StageInv'
  BY <1>2 DEF Start
<1>3. CASE Boot
  BY <1>3 DEF Boot, BootStep, PoolResources
<1>4. CASE RunHTTPAndWorker
  BY <1>4 DEF RunHTTPAndWorker
<1>5. CASE Listen
  BY <1>5 DEF Listen
<1>6. CASE TickerRuns \/ RunOnceReturns \/ TickerStops
  BY <1>6 DEF TickerRuns, RunOnceReturns, TickerStops
<1>7. CASE Signal
  BY <1>7 DEF Signal
<1>8. CASE ShutdownBegins
  BY <1>8 DEF ShutdownBegins
<1>9. CASE ShutdownEnds
  BY <1>9 DEF ShutdownEnds
<1>10. CASE Wait
  BY <1>10 DEF Wait
<1>11. CASE CloseNext
  BY <1>11 DEF CloseNext
<1>12. CASE Exit \/ Crash
  BY <1>12 DEF Exit, Crash, Gone
<1>13. ASSUME NEW c \in Client, Step(c)
       PROVE  StageInv'
  <2>1. UNCHANGED process
    BY <1>13 DEF Step, Handle, Send, FindByToken, Usecase, Commit, Answer, SendFails, CutOff, QueryFails, TransactionFails, GoOn
  <2> QED
    BY <2>1 DEF process
<1> QED
  BY <1>1, <1>2, <1>3, <1>4, <1>5, <1>6, <1>7, <1>8, <1>9, <1>10, <1>11, <1>12, <1>13 DEF Next, Run

LEMMA SetupStep ==
  ASSUME SetupInv, StageInv, [Next]_vars
  PROVE  SetupInv'
<1> USE DEF SetupInv, StageInv, Stages
<1>1. CASE UNCHANGED <<stage, env>>
  BY <1>1
<1>2. ASSUME NEW e \in GoodEnv \cup BadEnv, Start(e) PROVE SetupInv'
  BY <1>2 DEF Start
<1>3. CASE Boot
  BY <1>3 DEF Boot, BootStep
<1>4. CASE RunHTTPAndWorker \/ Wait \/ Exit \/ Crash
  BY <1>4 DEF RunHTTPAndWorker, Wait, Exit, Crash, Gone
<1>5. ASSUME NEW c \in Client, Step(c)
      PROVE  UNCHANGED <<stage, env>>
  BY <1>5 DEF Step, Handle, Send, FindByToken, Usecase, Commit, Answer, SendFails, CutOff, QueryFails, TransactionFails, GoOn, process
<1>6. \/ UNCHANGED vars \/ Listen \/ TickerRuns \/ RunOnceReturns \/ TickerStops
      \/ Signal \/ ShutdownBegins \/ ShutdownEnds \/ CloseNext
      => UNCHANGED <<stage, env>>
  BY DEF vars, process, Listen, TickerRuns, RunOnceReturns, TickerStops, Signal, ShutdownBegins,
         ShutdownEnds, CloseNext
<1> QED
  BY <1>1, <1>2, <1>3, <1>4, <1>5, <1>6 DEF Next, Run

LEMMA ShapeStep ==
  ASSUME Shape, [Next]_vars
  PROVE  Shape'
<1> USE DEF Shape
<1>1. CASE UNCHANGED calls
  BY <1>1 DEF calls
<1>2. CASE Exit \/ Crash
  BY <1>2 DEF Exit, Crash, Gone
<1>3. ASSUME NEW c \in Client, Step(c)
      PROVE  Shape'
  <2>1. PICK p, r, e, l : /\ p \in {"idle", "done"} \cup Active
                          /\ l \in {"none"} \cup Left
                          /\ pc' = [pc EXCEPT ![c] = p]
                          /\ result' = [result EXCEPT ![c] = r]
                          /\ err' = [err EXCEPT ![c] = e]
                          /\ left' = [left EXCEPT ![c] = l]
    <3>1. /\ pc = [pc EXCEPT ![c] = pc[c]] /\ result = [result EXCEPT ![c] = result[c]]
          /\ err = [err EXCEPT ![c] = err[c]] /\ left = [left EXCEPT ![c] = left[c]]
          /\ pc[c] \in {"idle", "done"} \cup Active /\ left[c] \in {"none"} \cup Left
      OBVIOUS
    <3>2. PICK p, r : p \in {"idle", "done"} \cup Active
                      /\ pc' = [pc EXCEPT ![c] = p] /\ result' = [result EXCEPT ![c] = r]
      <4>1. CASE Send(c)
        BY <4>1 DEF Send, Goto, Return, Active
      <4>2. CASE FindByToken(c) \/ Usecase(c)
        BY <4>2 DEF FindByToken, Usecase, Goto, Active
      <4>3. CASE Commit(c) \/ QueryFails(c) \/ TransactionFails(c)
        BY <4>3 DEF Commit, QueryFails, TransactionFails, Goto, Active
      <4>4. CASE Answer(c)
        <5>1. PICK r : Return(c, r)
          BY <4>4 DEF Answer
        <5> QED
          BY <5>1 DEF Return
      <4>5. CASE SendFails(c) \/ CutOff(c)
        BY <4>5 DEF SendFails, CutOff, Return
      <4>6. CASE GoOn(c)
        BY <3>1, <4>6 DEF GoOn
      <4> QED
        BY <1>3, <4>1, <4>2, <4>3, <4>4, <4>5, <4>6 DEF Step, Handle
    <3>3. PICK e : err' = [err EXCEPT ![c] = e]
      <4>1. CASE Send(c)
        BY <4>1 DEF Send
      <4>2. CASE FindByToken(c)
        BY <4>2 DEF FindByToken
      <4>3. CASE Usecase(c)
        BY <4>3 DEF Usecase
      <4>4. CASE QueryFails(c) \/ TransactionFails(c)
        BY <4>4 DEF QueryFails, TransactionFails
      <4>5. CASE Commit(c) \/ Answer(c) \/ SendFails(c) \/ CutOff(c) \/ GoOn(c)
        <5>1. err' = err
          BY <4>5 DEF Commit, Answer, SendFails, CutOff, GoOn
        <5> QED
          BY <3>1, <5>1
      <4> QED
        BY <1>3, <4>1, <4>2, <4>3, <4>4, <4>5 DEF Step, Handle
    <3>4. PICK l : l \in {"none"} \cup Left /\ left' = [left EXCEPT ![c] = l]
      <4>1. CASE CutOff(c)
        BY <4>1 DEF CutOff, Left
      <4>2. CASE GoOn(c)
        BY <4>2 DEF GoOn, Left
      <4>3. CASE ~CutOff(c) /\ ~GoOn(c)
        <5>1. left' = left
          BY <1>3, <4>3 DEF Step, Handle, Send, FindByToken, Usecase, Commit, Answer, SendFails,
             QueryFails, TransactionFails
        <5> QED
          BY <3>1, <5>1
      <4> QED
        BY <4>1, <4>2, <4>3
    <3> QED
      BY <3>2, <3>3, <3>4
  <2>2. request' = request /\ raced' \subseteq Client
    BY <1>3 DEF Step, Handle, Send, FindByToken, Usecase, Commit, Answer, SendFails, CutOff, QueryFails,
       TransactionFails, GoOn
  <2> QED
    BY <2>1, <2>2
<1>4. ASSUME [Next]_vars, ~(Exit \/ Crash), ~ UNCHANGED calls
      PROVE \E c \in Client : Step(c)
  BY <1>4 DEF Next, vars, Start, Run, Boot, BootStep, RunHTTPAndWorker, Listen, TickerRuns,
     RunOnceReturns, TickerStops, Signal, ShutdownBegins, ShutdownEnds, Wait, CloseNext
<1> QED
  BY <1>1, <1>2, <1>3, <1>4

LEMMA NoneNeedsPool ==
  ASSUME NEW c \in Client, Shape, EarlyStatus(request[c], Routes(env)) = 0,
         "none" \in Outcomes(request[c].op, request[c].receipt)
  PROVE  "pool" \in open
<1> SUFFICES ASSUME "pool" \notin open PROVE FALSE
  OBVIOUS
<1>1. PICK op, r : op = request[c].op /\ r = request[c].receipt /\ op \in Ops
  BY RequestTypes
<1>2. AppleNotification(r, "ours") # "none" => Outcomes("apple", r) = {AppleNotification(r, "ours")}
  BY DEF Outcomes, Buys
<1>3. GoogleNotification(r) # "none" => Outcomes("google", r) = {GoogleNotification(r)}
  BY DEF Outcomes, Buys
<1>4. /\ AppleNotification(r, "ours") = "none" => Outcomes("apple", r) = {"database"}
      /\ GoogleNotification(r) = "none" => Outcomes("google", r) = {"database"}
  BY DEF Outcomes, Buys
<1>5. op \in {"purchase", "subscribe", "products"} => Outcomes(op, r) = {"database"}
  BY DEF Outcomes, Buys
<1>6. op # "health"
  BY <1>1 DEF EarlyStatus
<1> QED
  BY <1>1, <1>2, <1>3, <1>4, <1>5, <1>6 DEF Ops

LEMMA RequestStep ==
  ASSUME Shape, StageInv, RequestInv, [Next]_vars
  PROVE  RequestInv'
<1> USE DEF RequestInv, StageInv, Before, Stages, Active, UnderWay
<1>1. CASE UNCHANGED vars
  BY <1>1 DEF vars, process, calls
<1>2. ASSUME NEW e \in GoodEnv \cup BadEnv, Start(e) PROVE RequestInv'
  BY <1>2 DEF Start, calls, Shape
<1>3. CASE Boot
  BY <1>3 DEF Boot, BootStep, calls
<1>4. CASE RunHTTPAndWorker
  BY <1>4 DEF RunHTTPAndWorker, calls
<1>5. CASE Listen
  BY <1>5 DEF Listen, calls
<1>6. CASE TickerRuns \/ RunOnceReturns \/ TickerStops
  BY <1>6 DEF TickerRuns, RunOnceReturns, TickerStops, calls
<1>7. CASE Signal
  BY <1>7 DEF Signal, calls
<1>8. CASE ShutdownBegins
  BY <1>8 DEF ShutdownBegins, calls
<1>9. CASE ShutdownEnds
  BY <1>9 DEF ShutdownEnds, calls
<1>10. CASE Wait
  BY <1>10 DEF Wait, calls
<1>11. CASE CloseNext
  BY <1>11 DEF CloseNext, calls
<1>12. CASE Exit \/ Crash
  BY <1>12 DEF Exit, Crash, Gone, Shape
<1>13. ASSUME NEW c \in Client, Step(c)
       PROVE  RequestInv'
  <2>1. UNCHANGED process /\ request' = request
    BY <1>13 DEF Step, Handle, Send, FindByToken, Usecase, Commit, Answer, SendFails, CutOff, QueryFails, TransactionFails, GoOn
  <2>2. CASE Send(c)
    BY <2>1, <2>2 DEF process, Send, Goto, Return, Shape
  <2>3. CASE FindByToken(c) \/ QueryFails(c)
    BY <2>1, <2>3 DEF process, FindByToken, QueryFails, Goto, Shape
  <2>4. CASE Usecase(c)
    <3>1. \/ pc' = [pc EXCEPT ![c] = "answer"]
          \/ "pool" \in open /\ pc' = [pc EXCEPT ![c] = "tx"]
      BY <2>4, NoneNeedsPool DEF Usecase, Goto
    <3> QED
      BY <2>1, <2>4, <3>1 DEF process, Usecase, Shape
  <2>5. CASE Commit(c) \/ Answer(c) \/ SendFails(c) \/ TransactionFails(c)
    BY <2>1, <2>5 DEF process, Commit, Answer, SendFails, TransactionFails, Goto, Return, Shape
  <2>6. CASE CutOff(c)
    BY <2>1, <2>6 DEF process, CutOff, Return, Shape, Left
  <2>7. CASE GoOn(c)
    <3>1. \/ left' = [left EXCEPT ![c] = "none"] \/ left' = [left EXCEPT ![c] = "usecase"]
          \/ "pool" \in open /\ left' = [left EXCEPT ![c] = "tx"]
      BY <2>7, NoneNeedsPool DEF GoOn
    <3> QED
      BY <2>1, <2>7, <3>1 DEF process, GoOn, Shape
  <2> QED
    BY <1>13, <2>2, <2>3, <2>4, <2>5, <2>6, <2>7 DEF Step, Handle
<1> QED
  BY <1>1, <1>2, <1>3, <1>4, <1>5, <1>6, <1>7, <1>8, <1>9, <1>10, <1>11, <1>12, <1>13 DEF Next, Run

-----------------------------------------------------------------------------
(* What the answers say.                                                   *)

LEMMA StatusErrors ==
  /\ NewStatusError(400) = "ErrBadRequest"
  /\ NewStatusError(401) = "ErrUnauthorized"
  /\ NewStatusError(402) = "ErrPaymentRequired"
  /\ NewStatusError(404) = "ErrNotFound"
  /\ NewStatusError(409) = "ErrConflict"
  /\ NewStatusError(500) = "ErrInternalServer"
  BY DEF NewStatusError

LEMMA ErrorStatuses ==
  ASSUME NEW e
  PROVE  /\ ResolveErrorStatus(e) \in {404, 409, 400, 402, 500}
         /\ ResolveErrorStatus(e) = 402 => IsPaymentFailed(e)
         /\ e \in {"database", "verify"} => ResolveErrorStatus(e) = 500
<1> USE DEF IsPaymentFailed, IsValidation, IsConflict, IsNotFound
<1>1. CASE IsNotFound(e)
  BY <1>1 DEF ResolveErrorStatus
<1>2. CASE IsConflict(e)
  BY <1>2 DEF ResolveErrorStatus
<1>3. CASE IsValidation(e)
  BY <1>3 DEF ResolveErrorStatus
<1>4. CASE IsPaymentFailed(e)
  BY <1>4 DEF ResolveErrorStatus
<1>5. CASE ~(IsNotFound(e) \/ IsConflict(e) \/ IsValidation(e) \/ IsPaymentFailed(e))
  BY <1>5 DEF ResolveErrorStatus
<1> QED
  BY <1>1, <1>2, <1>3, <1>4, <1>5

LEMMA AnswerSays ==
  ASSUME NEW op \in Ops, NEW e, NEW r, r = ClientResult(op, Status(op, e), "json")
  PROVE  /\ r = "ok" => IF Webhook(op) THEN e = "none" \/ IsDeterministic(e) ELSE e = "none"
         /\ Buys(op) /\ r \notin {"ok", "transport", "ErrInternalServer"} =>
              e \notin {"none", "database", "verify"}
         /\ r = "ErrPaymentRequired" => ~Webhook(op) /\ IsPaymentFailed(e)
         /\ r # "ErrUnauthorized"
<1> USE DEF Unparsable, HasJSON200
<1>1. CASE Webhook(op) /\ (e = "none" \/ IsDeterministic(e))
  <2>1. r = "ok"
    BY <1>1 DEF ClientResult, Status, RespondWebhook
  <2> QED
    BY <1>1, <2>1
<1>2. CASE Webhook(op) /\ ~(e = "none" \/ IsDeterministic(e))
  <2>1. r = NewStatusError(500)
    BY <1>2 DEF ClientResult, Status, RespondWebhook
  <2> QED
    BY <2>1, StatusErrors
<1>3. CASE ~Webhook(op) /\ e = "none"
  <2>1. r = "ok"
    BY <1>3 DEF ClientResult, Status
  <2> QED
    BY <1>3, <2>1
<1>4. CASE ~Webhook(op) /\ e # "none"
  <2>1. r = NewStatusError(ResolveErrorStatus(e))
    BY <1>4, ErrorStatuses DEF ClientResult, Status
  <2>2. CASE ResolveErrorStatus(e) = 500
    BY <1>4, <2>1, <2>2, StatusErrors
  <2>3. CASE ResolveErrorStatus(e) = 402
    BY <1>4, <2>1, <2>3, StatusErrors, ErrorStatuses
  <2>4. CASE ResolveErrorStatus(e) \in {400, 404, 409}
    BY <1>4, <2>1, <2>4, StatusErrors, ErrorStatuses
  <2> QED
    BY <2>2, <2>3, <2>4, ErrorStatuses
<1> QED
  BY <1>1, <1>2, <1>3, <1>4

LEMMA EarlySays ==
  ASSUME NEW req, req.op \in Ops, NEW e,
         NEW early, early = EarlyStatus(req, Routes(e)), early # 0,
         NEW r, r = ClientResult(req.op, early, "json")
  PROVE  /\ r = "ok" => req.op = "health"
         /\ r # "ErrPaymentRequired"
         /\ Buys(req.op) => ~(Authorized(req) /\ Readable(req))
         /\ Buys(req.op) /\ r = "ErrUnauthorized" => ~Authorized(req)
<1>1. early \in {404, 401, 400, 200}
  BY DEF EarlyStatus
<1>2. early = 200 => req.op = "health"
  BY DEF EarlyStatus
<1>3. Buys(req.op) => Route(req.op) \in Routes(e)
  BY DEF Buys, Route, Webhook, ShopRoute, Routes
<1>4. Buys(req.op) => ~(Authorized(req) /\ Readable(req))
  BY <1>3 DEF EarlyStatus, Buys
<1>5. (r = "ok" => early = 200) /\ r # "ErrPaymentRequired"
  <2> USE DEF Unparsable, HasJSON200
  <2>1. CASE early = 200
    <3>1. r # "ErrPaymentRequired"
      BY <1>2, <2>1 DEF ClientResult, Webhook
    <3> QED
      BY <2>1, <3>1
  <2>2. CASE early \in {400, 401, 404}
    <3>1. r = NewStatusError(early)
      BY <2>2 DEF ClientResult
    <3> QED
      BY <2>2, <3>1, StatusErrors
  <2> QED
    BY <1>1, <2>1, <2>2
<1>6. ASSUME Buys(req.op), r = "ErrUnauthorized" PROVE ~Authorized(req)
  <2>1. CASE early = 400
    <3>1. r = "ErrBadRequest"
      BY <2>1, StatusErrors DEF ClientResult, Unparsable, HasJSON200
    <3> QED
      BY <1>6, <3>1
  <2>2. CASE early = 401
    BY <1>3, <1>6, <2>2 DEF EarlyStatus
  <2>3. early # 404 /\ early # 200
    BY <1>2, <1>3, <1>6 DEF EarlyStatus, Buys
  <2> QED
    BY <1>1, <2>1, <2>2, <2>3
<1> QED
  BY <1>2, <1>4, <1>5, <1>6

(* Only a receipt that is valid leads to a transaction, and one is called  *)
(* bad only if the store has answered that it is.                          *)
LEMMA OutcomeSays ==
  ASSUME NEW op, Buys(op), NEW r, Served(r), FromEnv(env), NEW e \in Outcomes(op, r)
  PROVE  /\ e # "done"
         /\ e = "none" => Verify(Iap, "ours", op, r) = "valid"
         /\ IsPaymentFailed(e) => Verify(Iap, "ours", op, r) = "invalid" /\ r.reply
<1> DEFINE v == Verify(Iap, "ours", op, r)
<1>1. Iap \in {"store", "stub"}
  BY DEF FromEnv, Iap
<1>2. v = "invalid" => r.reply
  BY <1>1 DEF Served, Verify, Buys, ApplePurchase, AppleSubscription, GooglePurchase,
              GoogleSubscription, GetJSON
<1>3. v \in {"valid", "invalid", "error"}
  BY <1>1 DEF Served, Verify, Buys, ApplePurchase, AppleSubscription, GooglePurchase, GoogleSubscription
<1>4. Refusals(op) \cap {"done", "none", "ErrReceiptVerificationFailed", "ErrSubVerificationFailed"} = {}
  BY DEF Refusals, Buys
<1>5. \/ e \in Refusals(op) \cup {"database", "verify"}
      \/ v = "valid" /\ e = "none"
      \/ v = "invalid" /\ e = InvalidReceipt(op)
  BY <1>3 DEF Outcomes, Buys
<1> QED
  BY <1>2, <1>4, <1>5 DEF IsPaymentFailed, InvalidReceipt

-----------------------------------------------------------------------------

(* What was found out under one environment is not asked under another.    *)
LEMMA AnswerKept ==
  ASSUME AnswerInv, UNCHANGED <<calls, committed, env>>
  PROVE  AnswerInv'
  BY DEF AnswerInv, Facts, BuyFacts, Payable, Iap, calls

LEMMA AnswerStart ==
  ASSUME StageInv, RequestInv, AnswerInv, UNCHANGED <<calls, committed>>, stage = "down"
  PROVE  AnswerInv'
<1>1. \A c \in Client : pc[c] \notin Active /\ left[c] = "none"
  BY DEF RequestInv, UnderWay
<1> QED
  BY <1>1 DEF AnswerInv, Facts, BuyFacts, Unpaid, Active, calls

(* Callers that are cut off are told nothing.                              *)
LEMMA AnswerGone ==
  ASSUME Shape, AnswerInv, Gone
  PROVE  AnswerInv'
<1>1. /\ UNCHANGED <<request, err, committed, raced>>
      /\ \A c \in Client : left'[c] = "none"
                           /\ \/ pc'[c] = pc[c] /\ result'[c] = result[c] /\ pc[c] \notin Active
                              \/ pc'[c] = "done" /\ result'[c] = "transport"
  BY DEF Gone, Shape
<1>2. ASSUME NEW c \in Client
      PROVE  /\ Facts(c, pc[c], err[c], result[c], left[c], c \in committed, c \in raced)
             /\ left'[c] = "none" /\ err'[c] = err[c] /\ request'[c] = request[c]
             /\ c \in committed' <=> c \in committed
             /\ c \in raced' <=> c \in raced
  BY <1>1 DEF AnswerInv
<1> QED
  BY <1>1, <1>2 DEF AnswerInv, Facts, BuyFacts, Denied, Unpaid, Active

(* A step of one caller: nothing changes for the others.                   *)
LEMMA OneStep ==
  ASSUME Shape, AnswerInv, NEW c \in Client, NEW p, NEW e, NEW r, NEW l,
         pc' = [pc EXCEPT ![c] = p], err' = [err EXCEPT ![c] = e], result' = [result EXCEPT ![c] = r],
         left' = [left EXCEPT ![c] = l], UNCHANGED <<request, env>>,
         committed' \ {c} = committed \ {c}, raced' \ {c} = raced \ {c},
         Facts(c, p, e, r, l, c \in committed', c \in raced')
  PROVE  AnswerInv'
<1>1. pc'[c] = p /\ err'[c] = e /\ result'[c] = r /\ left'[c] = l
  BY DEF Shape
<1>2. \A d \in Client : d # c =>
        /\ pc'[d] = pc[d] /\ err'[d] = err[d] /\ result'[d] = result[d] /\ left'[d] = left[d]
        /\ d \in committed' <=> d \in committed
        /\ d \in raced' <=> d \in raced
  BY DEF Shape
<1>3. ASSUME NEW d \in Client, d # c
      PROVE  Facts(d, pc[d], err[d], result[d], left[d], d \in committed, d \in raced)
  BY DEF AnswerInv
<1>4. ASSUME NEW d \in Client
      PROVE  Facts(d, pc'[d], err'[d], result'[d], left'[d], d \in committed', d \in raced')
  <2>1. CASE d = c
    BY <1>1, <2>1 DEF Facts, BuyFacts, Denied, Unpaid
  <2>2. CASE d # c
    BY <1>2, <1>3, <2>2 DEF Facts, BuyFacts, Denied, Unpaid
  <2> QED
    BY <2>1, <2>2
<1> QED
  BY <1>4 DEF AnswerInv, Facts, BuyFacts, Payable, Iap

LEMMA Unchanging ==
  ASSUME Shape, NEW c \in Client
  PROVE  /\ pc = [pc EXCEPT ![c] = pc[c]] /\ result = [result EXCEPT ![c] = result[c]]
         /\ err = [err EXCEPT ![c] = err[c]] /\ left = [left EXCEPT ![c] = left[c]]
  BY DEF Shape

(* What holds of a request that a handler works on.                        *)
LEMMA Working ==
  ASSUME IInv, NEW c \in Client, UnderWay(c)
  PROVE  /\ FromEnv(env)
         /\ EarlyStatus(request[c], Routes(env)) = 0
         /\ Authorized(request[c]) /\ Readable(request[c])
         /\ request[c].op \in Ops \ {"health"}
<1>1. FromEnv(env) /\ EarlyStatus(request[c], Routes(env)) = 0
  BY DEF IInv, RequestInv
<1>2. request[c].op \in Ops
  BY RequestTypes DEF IInv
<1> QED
  BY <1>1, <1>2 DEF EarlyStatus

LEMMA SendStep ==
  ASSUME IInv, NEW c \in Client, Send(c)
  PROVE  AnswerInv'
<1> DEFINE early == EarlyStatus(request[c], Routes(env))
<1>1. request[c].op \in Ops /\ UNCHANGED <<request, env, committed, raced>>
  BY RequestTypes DEF IInv, Send, process
<1>2. Facts(c, pc[c], err[c], result[c], left[c], c \in committed, c \in raced)
  BY DEF IInv, AnswerInv
<1>3. Shape /\ AnswerInv /\ left' = [left EXCEPT ![c] = left[c]]
  BY Unchanging DEF IInv, Send
<1>4. CASE early = 0
  <2>1. PICK p : p = IF Buys(request[c].op) THEN "find" ELSE "usecase"
    OBVIOUS
  <2>2. Facts(c, p, "none", "none", left[c], c \in committed', c \in raced')
    BY <1>1, <1>2, <2>1 DEF Facts, BuyFacts, Denied, Unpaid
  <2>3. pc' = [pc EXCEPT ![c] = p] /\ result' = [result EXCEPT ![c] = "none"] /\ err' = [err EXCEPT ![c] = "none"]
    BY <1>4, <2>1 DEF Send, Goto
  <2> QED
    BY <1>1, <1>3, <2>2, <2>3, OneStep
<1>5. CASE early # 0
  <2>1. PICK r : r = ClientResult(request[c].op, early, "json")
    OBVIOUS
  <2>2. /\ r = "ok" => request[c].op = "health"
        /\ r # "ErrPaymentRequired"
        /\ Buys(request[c].op) => ~(Authorized(request[c]) /\ Readable(request[c]))
        /\ Buys(request[c].op) /\ r = "ErrUnauthorized" => ~Authorized(request[c])
    BY <1>1, <1>5, <2>1, EarlySays
  <2>3. left[c] = "none"
    BY <1>5, Working DEF UnderWay
  <2>4. Facts(c, "done", "none", r, left[c], c \in committed', c \in raced')
    BY <1>1, <1>2, <2>2, <2>3 DEF Facts, BuyFacts, Denied, Unpaid
  <2>5. pc' = [pc EXCEPT ![c] = "done"] /\ result' = [result EXCEPT ![c] = r] /\ err' = [err EXCEPT ![c] = "none"]
    BY <1>5, <2>1 DEF Send, Return
  <2> QED
    BY <1>1, <1>3, <2>4, <2>5, OneStep
<1> QED
  BY <1>4, <1>5

LEMMA FindStep ==
  ASSUME IInv, NEW c \in Client, FindByToken(c)
  PROVE  AnswerInv'
<1>1. UNCHANGED <<request, env, committed>> /\ raced' \ {c} = raced \ {c}
  BY DEF FindByToken, process
<1>2. Facts(c, pc[c], err[c], result[c], left[c], c \in committed, c \in raced)
  BY DEF IInv, AnswerInv
<1>3. Shape /\ AnswerInv /\ left' = [left EXCEPT ![c] = left[c]]
  BY Unchanging DEF IInv, FindByToken
<1>4. left[c] # "none" => c \in raced'
  BY DEF FindByToken
<1>5. PICK f : f = Find(c)
  OBVIOUS
<1>6. \/ f = "ErrUnsupportedPlatform" /\ ~Served(request[c].receipt)
      \/ f = "database"
      \/ f = "done" /\ c \in committed
      \/ f = "none" /\ c \notin committed /\ Served(request[c].receipt)
  BY <1>5 DEF Find, Served
<1>7. PICK p, e : p = (IF f = "none" THEN "usecase" ELSE "answer") /\ e = (IF f = "done" THEN "none" ELSE f)
  OBVIOUS
<1>8. pc' = [pc EXCEPT ![c] = p] /\ result' = [result EXCEPT ![c] = "none"] /\ err' = [err EXCEPT ![c] = e]
  BY <1>5, <1>7 DEF FindByToken, Goto
<1>9. Facts(c, p, e, "none", left[c], c \in committed', c \in raced')
  <2>1. CASE f = "none"
    BY <1>1, <1>2, <1>4, <1>6, <1>7, <2>1 DEF Facts, BuyFacts, Denied, Unpaid
  <2>2. CASE f = "done" \/ f = "database"
    BY <1>1, <1>2, <1>6, <1>7, <2>2 DEF Facts, BuyFacts, Denied, Unpaid, IsPaymentFailed
  <2>3. CASE f = "ErrUnsupportedPlatform"
    BY <1>1, <1>2, <1>4, <1>6, <1>7, <2>3 DEF Facts, BuyFacts, Denied, Unpaid, IsPaymentFailed
  <2> QED
    BY <1>6, <2>1, <2>2, <2>3
<1> QED
  BY <1>1, <1>3, <1>8, <1>9, OneStep

LEMMA UsecaseStep ==
  ASSUME IInv, NEW c \in Client, Usecase(c)
  PROVE  AnswerInv'
<1>1. UNCHANGED <<request, env, committed, raced>>
  BY DEF Usecase, process
<1>2. Facts(c, "usecase", err[c], result[c], left[c], c \in committed, c \in raced)
  BY DEF IInv, AnswerInv, Usecase
<1>3. Shape /\ AnswerInv /\ left' = [left EXCEPT ![c] = left[c]]
  BY Unchanging DEF IInv, Usecase
<1>4. FromEnv(env) /\ request[c].op \in Ops \ {"health"}
  BY Working DEF Usecase, UnderWay, Active
<1>5. PICK e \in Outcomes(request[c].op, request[c].receipt) :
        /\ Goto(c, IF e = "none" THEN "tx" ELSE "answer")
        /\ err' = [err EXCEPT ![c] = IF e = "done" THEN "none" ELSE e]
  BY DEF Usecase
<1>6. PICK p, d : p = (IF e = "none" THEN "tx" ELSE "answer") /\ d = (IF e = "done" THEN "none" ELSE e)
  OBVIOUS
<1>7. pc' = [pc EXCEPT ![c] = p] /\ result' = [result EXCEPT ![c] = "none"] /\ err' = [err EXCEPT ![c] = d]
  BY <1>5, <1>6 DEF Goto
<1>8. Facts(c, p, d, "none", left[c], c \in committed', c \in raced')
  <2>1. CASE Buys(request[c].op)
    <3>1. Served(request[c].receipt)
      BY <1>2, <2>1 DEF Facts, BuyFacts
    <3>2. /\ e # "done"
          /\ e = "none" => Payable(c)
          /\ IsPaymentFailed(e) => ~Payable(c) /\ request[c].receipt.reply
      BY <1>4, <1>5, <2>1, <3>1, OutcomeSays DEF Payable
    <3>3. CASE e = "none"
      BY <1>1, <1>2, <1>6, <2>1, <3>1, <3>2, <3>3 DEF Facts, BuyFacts, Denied, Unpaid
    <3>4. CASE e # "none"
      BY <1>1, <1>2, <1>6, <2>1, <3>1, <3>2, <3>4 DEF Facts, BuyFacts, Denied, Unpaid
    <3> QED
      BY <3>3, <3>4
  <2>2. CASE ~Buys(request[c].op)
    <3>1. request[c].op = "products" \/ Webhook(request[c].op)
      BY <1>4, <2>2 DEF Buys, Ops, Webhook
    <3>2. request[c].op = "products" => e \in {"done", "database"}
      BY <1>5 DEF Outcomes, Buys
    <3> QED
      BY <1>6, <2>2, <3>1, <3>2 DEF Facts, BuyFacts, IsPaymentFailed
  <2> QED
    BY <2>1, <2>2
<1> QED
  BY <1>1, <1>3, <1>7, <1>8, OneStep

LEMMA TransactionStep ==
  ASSUME IInv, NEW c \in Client, Commit(c) \/ QueryFails(c) \/ TransactionFails(c)
  PROVE  AnswerInv'
<1>1. UNCHANGED <<request, env, raced>> /\ committed' \ {c} = committed \ {c}
  BY DEF Commit, QueryFails, TransactionFails, Commits, process
<1>2. Facts(c, pc[c], err[c], result[c], left[c], c \in committed, c \in raced)
  BY DEF IInv, AnswerInv
<1>3. Shape /\ AnswerInv /\ left' = [left EXCEPT ![c] = left[c]]
  BY Unchanging DEF IInv, Commit, QueryFails, TransactionFails
<1>4. Authorized(request[c]) /\ Readable(request[c])
  BY Working DEF Commit, QueryFails, TransactionFails, UnderWay, Active
<1>5. CASE Commit(c)
  <2>1. c \in committed' /\ pc[c] = "tx" /\ err[c] = "none" /\ err' = [err EXCEPT ![c] = "none"]
    BY <1>2, <1>5, Unchanging DEF Commit, Commits, Facts, IInv
  <2>2. Facts(c, "answer", "none", "none", left[c], c \in committed', c \in raced')
    BY <1>1, <1>2, <1>4, <2>1 DEF Facts, BuyFacts, Denied, Unpaid, IsPaymentFailed
  <2> QED
    BY <1>1, <1>3, <1>5, <2>1, <2>2, OneStep DEF Commit, Goto
<1>6. CASE QueryFails(c)
  <2>1. Facts(c, "answer", "database", "none", left[c], c \in committed', c \in raced')
    BY <1>1, <1>2, <1>6 DEF QueryFails, Facts, BuyFacts, Denied, Unpaid, IsPaymentFailed
  <2> QED
    BY <1>1, <1>3, <1>6, <2>1, OneStep DEF QueryFails, Goto
<1>7. CASE TransactionFails(c)
  <2>1. Facts(c, "answer", "database", "none", left[c], c \in committed', c \in raced')
    BY <1>1, <1>2, <1>4, <1>7 DEF TransactionFails, Facts, BuyFacts, Denied, Unpaid, IsPaymentFailed
  <2> QED
    BY <1>1, <1>3, <1>7, <2>1, OneStep DEF TransactionFails, Goto
<1> QED
  BY <1>5, <1>6, <1>7

LEMMA ReturnStep ==
  ASSUME IInv, NEW c \in Client, Answer(c) \/ SendFails(c) \/ CutOff(c)
  PROVE  AnswerInv'
<1>1. UNCHANGED <<request, env, committed, raced>> /\ err' = [err EXCEPT ![c] = err[c]]
  BY Unchanging DEF Answer, SendFails, CutOff, process, IInv
<1>2. Facts(c, pc[c], err[c], result[c], left[c], c \in committed, c \in raced)
  BY DEF IInv, AnswerInv
<1>3. Shape /\ AnswerInv
  BY DEF IInv
<1>4. CASE Answer(c)
  <2>1. PICK r : r = ClientResult(request[c].op, Status(request[c].op, err[c]), "json")
    OBVIOUS
  <2>2. /\ r = "ok" => IF Webhook(request[c].op) THEN err[c] = "none" \/ IsDeterministic(err[c])
                       ELSE err[c] = "none"
        /\ Buys(request[c].op) /\ r \notin {"ok", "transport", "ErrInternalServer"} =>
             err[c] \notin {"none", "database", "verify"}
        /\ r = "ErrPaymentRequired" => ~Webhook(request[c].op) /\ IsPaymentFailed(err[c])
        /\ r # "ErrUnauthorized"
    BY <2>1, AnswerSays, RequestTypes DEF IInv
  <2>3. pc[c] = "answer" /\ left' = [left EXCEPT ![c] = left[c]]
    BY <1>4, Unchanging DEF Answer, IInv
  <2>4. BuyFacts(c, "done", err[c], r, left[c], c \in committed', c \in raced')
    BY <1>1, <1>2, <2>2, <2>3 DEF Facts, BuyFacts, Denied, Unpaid
  <2>5. Facts(c, "done", err[c], r, left[c], c \in committed', c \in raced')
    BY <1>1, <1>2, <2>2, <2>3, <2>4 DEF Facts, IsDeterministic, Retriable
  <2> QED
    BY <1>1, <1>3, <1>4, <2>1, <2>3, <2>5, OneStep DEF Answer, Return
<1>5. CASE SendFails(c) \/ CutOff(c)
  <2>1. PICK l : l \in {left[c], pc[c], "none"} /\ left' = [left EXCEPT ![c] = l]
                 /\ (l # left[c] => l = "none" \/ UnderWay(c))
    BY <1>5, Unchanging DEF SendFails, CutOff, IInv, UnderWay
  <2>2. Facts(c, "done", err[c], "transport", l, c \in committed', c \in raced')
    BY <1>1, <1>2, <2>1 DEF Facts, BuyFacts, Denied, Unpaid
  <2> QED
    BY <1>1, <1>3, <1>5, <2>1, <2>2, OneStep DEF SendFails, CutOff, Return
<1> QED
  BY <1>4, <1>5

(* An attempt that goes on: only its commit changes what there is to say.  *)
LEMMA GoOnStep ==
  ASSUME IInv, NEW c \in Client, GoOn(c)
  PROVE  AnswerInv'
<1>1. UNCHANGED <<request, env, raced>> /\ committed' \ {c} = committed \ {c}
  BY DEF GoOn, Commits, process
<1>2. Facts(c, pc[c], err[c], result[c], left[c], c \in committed, c \in raced)
  BY DEF IInv, AnswerInv
<1>3. /\ Shape /\ AnswerInv
      /\ pc' = [pc EXCEPT ![c] = pc[c]] /\ err' = [err EXCEPT ![c] = err[c]]
      /\ result' = [result EXCEPT ![c] = result[c]]
  BY Unchanging DEF IInv, GoOn
<1>4. FromEnv(env) /\ Authorized(request[c]) /\ Readable(request[c])
  BY Working DEF GoOn, UnderWay
<1>5. CASE left[c] = "find" /\ Find(c) = "none" /\ left' = [left EXCEPT ![c] = "usecase"] /\ UNCHANGED committed
  <2>1. Served(request[c].receipt)
    BY <1>5 DEF Find, Served
  <2>2. Facts(c, pc[c], err[c], result[c], "usecase", c \in committed', c \in raced')
    BY <1>1, <1>2, <1>5, <2>1 DEF Facts, BuyFacts, Denied, Unpaid
  <2> QED
    BY <1>1, <1>3, <1>5, <2>2, OneStep
<1>6. CASE left[c] = "usecase" /\ "none" \in Outcomes(request[c].op, request[c].receipt)
           /\ left' = [left EXCEPT ![c] = "tx"] /\ UNCHANGED committed
  <2>1. Buys(request[c].op) => Payable(c)
    <3> SUFFICES ASSUME Buys(request[c].op) PROVE Payable(c)
      OBVIOUS
    <3>1. Served(request[c].receipt)
      BY <1>2, <1>6 DEF Facts, BuyFacts
    <3> QED
      BY <1>4, <1>6, <3>1, OutcomeSays DEF Payable
  <2>2. Facts(c, pc[c], err[c], result[c], "tx", c \in committed', c \in raced')
    BY <1>1, <1>2, <1>6, <2>1 DEF Facts, BuyFacts, Denied, Unpaid
  <2> QED
    BY <1>1, <1>3, <1>6, <2>2, OneStep
<1>7. CASE left[c] = "tx" /\ left' = [left EXCEPT ![c] = "none"] /\ Commits(c)
  <2>1. c \in committed'
    BY <1>7 DEF Commits
  <2>2. BuyFacts(c, pc[c], err[c], result[c], "none", c \in committed', c \in raced')
    BY <1>1, <1>2, <1>4, <1>7, <2>1 DEF Facts, BuyFacts
  <2>3. Facts(c, pc[c], err[c], result[c], "none", c \in committed', c \in raced')
    BY <1>2, <2>1, <2>2 DEF Facts
  <2> QED
    BY <1>1, <1>3, <1>7, <2>3, OneStep
<1>8. CASE left' = [left EXCEPT ![c] = "none"] /\ UNCHANGED committed
  <2>1. Facts(c, pc[c], err[c], result[c], "none", c \in committed', c \in raced')
    BY <1>1, <1>2, <1>8 DEF Facts, BuyFacts
  <2> QED
    BY <1>1, <1>3, <1>8, <2>1, OneStep
<1> QED
  BY <1>5, <1>6, <1>7, <1>8 DEF GoOn

-----------------------------------------------------------------------------

LEMMA Initially == Init => IInv
<1> SUFFICES ASSUME Init PROVE IInv
  OBVIOUS
<1>1. Shape
  BY DEF Init, Shape
<1>2. StageInv /\ SetupInv /\ RequestInv
  BY DEF Init, StageInv, SetupInv, RequestInv, Stages, Before, Active, UnderWay
<1>3. AnswerInv
  BY DEF Init, AnswerInv, Facts, BuyFacts, Denied, Unpaid
<1> QED
  BY <1>1, <1>2, <1>3 DEF IInv

LEMMA Inductive ==
  ASSUME IInv, [Next]_vars
  PROVE  IInv'
<1>1. Shape' /\ StageInv' /\ SetupInv' /\ RequestInv'
  BY ShapeStep, StageStep, SetupStep, RequestStep DEF IInv
<1>2. AnswerInv'
  <2>1. CASE UNCHANGED <<calls, committed, env>>
    BY <2>1, AnswerKept DEF IInv
  <2>2. CASE Exit \/ Crash
    BY <2>2, AnswerGone DEF Exit, Crash, IInv
  <2>3. CASE \E e \in GoodEnv \cup BadEnv : Start(e)
    BY <2>3, AnswerStart DEF IInv, Start
  <2>4. CASE \E c \in Client : Step(c)
    BY <2>4, SendStep, FindStep, UsecaseStep, TransactionStep, ReturnStep, GoOnStep DEF Step, Handle
  <2>5. \/ UNCHANGED <<calls, committed, env>>
        \/ Exit \/ Crash
        \/ \E e \in GoodEnv \cup BadEnv : Start(e)
        \/ \E c \in Client : Step(c)
    BY DEF Next, vars, process, Run, Boot, BootStep, RunHTTPAndWorker, Listen, TickerRuns,
           RunOnceReturns, TickerStops, Signal, ShutdownBegins, ShutdownEnds, Wait, CloseNext
  <2> QED
    BY <2>1, <2>2, <2>3, <2>4, <2>5
<1> QED
  BY <1>1, <1>2 DEF IInv

LEMMA Invariant == Spec => []IInv
  BY Initially, Inductive, PTL DEF Spec

(* The ticker and the requests have what they work with as long as they    *)
(* work, whatever fails and whenever the process is told to stop.          *)
THEOREM NothingClosedInUse == Spec => []ResourcesOutliveUse
<1>1. IInv => ResourcesOutliveUse
  BY DEF IInv, Shape, StageInv, RequestInv, ResourcesOutliveUse, UnderWay, Active, Stages
<1> QED
  BY <1>1, Invariant, PTL

(* No constructor refuses what the configuration checks have let through,  *)
(* but for a key that is not one.                                          *)
THEOREM AcceptedConfigurationsServe == Spec => []AcceptedConfigServes
<1>1. ASSUME NEW e \in GoodEnv \cup BadEnv, FromEnv(e)
      PROVE  /\ NewPublisher(e)
             /\ BuildOutboxTicker(e)
             /\ Store(e) => Secrets \subseteq e.secrets
             /\ VisibilityInterval(e) >= 1
             /\ "apple" \in e.keys => SetupVerifiers(e)
  <2>1. \A name \in Numbers : e.numbers[name] \in Int \cup {None}
    BY NumberTypes
  <2>2. /\ AtLeast(e, "OUTBOX_POLL_INTERVAL", 1)
        /\ AtLeast(e, "OUTBOX_BATCH_SIZE", 1)
        /\ AtLeast(e, "OUTBOX_FAILURE_THRESHOLD", 1)
        /\ AtLeast(e, "OUTBOX_VISIBILITY_TIMEOUT", 1000)
    BY <1>1 DEF FromEnv, LoadOutboxConfig, Millisecond
  <2>3. BuildOutboxTicker(e)
    BY <2>1, <2>2 DEF AtLeast, BuildOutboxTicker, Numbers
  <2>4. VisibilityInterval(e) >= 1
    <3>1. e.numbers["OUTBOX_VISIBILITY_TIMEOUT"] \in Int /\ e.numbers["OUTBOX_VISIBILITY_TIMEOUT"] >= 1000
      BY <2>1, <2>2 DEF AtLeast, Numbers
    <3>2. ASSUME NEW n \in Int, n >= 1000 PROVE n \div 1000 >= 1
      BY <3>2
    <3> QED
      BY <3>1, <3>2 DEF VisibilityInterval, Millisecond
  <2> QED
    BY <1>1, <2>3, <2>4 DEF FromEnv, NewPublisher, LoadStoreIAP, Store, SetupVerifiers
<1>2. ASSUME IInv PROVE AcceptedConfigServes
  <2>1. stage \notin {"down", "config", "closing"} => env \in GoodEnv \cup BadEnv /\ FromEnv(env)
    BY <1>2 DEF IInv, SetupInv, RequestInv
  <2> QED
    BY <1>1, <1>2, <2>1 DEF IInv, SetupInv, AcceptedConfigServes
<1>3. IInv => AcceptedConfigServes
  BY <1>2
<1> QED
  BY <1>3, Invariant, PTL

(* A webhook handler runs only in a process with the verifiers that it     *)
(* calls, and Google's only for a push that was authenticated.             *)
THEOREM NoWebhookWithoutStore == Spec => []WebhooksNeedStore
<1>1. ASSUME IInv, NEW c \in Client, pc[c] \in Active, request[c].op \in {"apple", "google"}
      PROVE  /\ {"googleSub", "appleJWS"} \subseteq VerifierSet(env)
             /\ request[c].op = "google" => VerifyPubSubPush(request[c].auth)
  <2>1. Route(request[c].op) \in Routes(env) /\ Authorized(request[c])
    BY <1>1 DEF IInv, RequestInv, UnderWay, EarlyStatus
  <2>2. Store(env)
    BY <1>1, <2>1 DEF Route, Webhook, WebhookRoute, Routes, WebhookHandlers
  <2>3. request[c].op = "google" => VerifyPubSubPush(request[c].auth)
    BY <2>1 DEF Authorized
  <2> QED
    BY <2>2, <2>3 DEF VerifierSet
<1>2. IInv => WebhooksNeedStore
  BY <1>1 DEF WebhooksNeedStore
<1> QED
  BY <1>2, Invariant, PTL

(* No caller is told that something was done that was not.  A purchase     *)
(* that was made is never called unpaid, however attempts of it overlap,   *)
(* are cut off and go on, and whenever the process dies, and it is denied  *)
(* at all only to a repeat that ran into an earlier attempt.               *)
THEOREM AnswersAreTrueOfTheDatabase == Spec => []ResultIsTrue
<1>1. IInv => ResultIsTrue
  BY DEF IInv, AnswerInv, Facts, BuyFacts, Denied, Unpaid, ResultIsTrue
<1> QED
  BY <1>1, Invariant, PTL

-----------------------------------------------------------------------------
(* The types, in two parts: the process, and what clients got.             *)

Results ==
  {"ok", "transport", "ErrUnauthorized", "ErrPaymentRequired",
   "ErrNotFound", "ErrBadRequest", "ErrConflict", "ErrInternalServer"}

ProcessTypes ==
  /\ env \in GoodEnv \cup BadEnv \cup {None}
  /\ open \subseteq {"dialer", "pool", "publisher"}
  /\ cancelled \in BOOLEAN
  /\ http \in {"off", "listening", "ended"}
  /\ ticker \in {"off", "waiting", "running", "ended"}
  /\ mishaps \in 0 .. MaxMishaps
  /\ batch \subseteq pending \ givenUp /\ givenUp \subseteq pending
  /\ pending \subseteq committed /\ committed \subseteq Client

ResultTypes == \A c \in Client : pc[c] = "done" => result[c] \in Results

LEMMA AnswerTypes ==
  ASSUME NEW op \in Ops, NEW e, NEW r, r = ClientResult(op, Status(op, e), "json")
  PROVE  r \in Results
<1> USE DEF Unparsable, HasJSON200, Results
<1>1. PICK code : code = Status(op, e)
  OBVIOUS
<1>2. code \in {200, 400, 402, 404, 409, 500}
  <2>1. CASE Webhook(op)
    BY <1>1, <2>1 DEF Status, RespondWebhook
  <2>2. CASE ~Webhook(op) /\ e = "none"
    BY <1>1, <2>2 DEF Status
  <2>3. CASE ~Webhook(op) /\ e # "none"
    BY <1>1, <2>3, ErrorStatuses DEF Status
  <2> QED
    BY <2>1, <2>2, <2>3
<1>3. CASE code = 200
  BY <1>1, <1>3 DEF ClientResult
<1>4. CASE code # 200
  <2>1. r = NewStatusError(code)
    BY <1>1, <1>4 DEF ClientResult
  <2> QED
    BY <1>2, <1>4, <2>1, StatusErrors
<1> QED
  BY <1>3, <1>4

LEMMA EarlyTypes ==
  ASSUME NEW req, NEW routes, NEW early, early = EarlyStatus(req, routes), early # 0,
         NEW r, r = ClientResult(req.op, early, "json")
  PROVE  r \in Results
<1> USE DEF Unparsable, HasJSON200, Results
<1>1. early \in {404, 401, 400, 200}
  BY DEF EarlyStatus
<1>2. CASE early = 200
  BY <1>2 DEF ClientResult
<1>3. CASE early # 200
  <2>1. r = NewStatusError(early)
    BY <1>3 DEF ClientResult
  <2> QED
    BY <1>1, <1>3, <2>1, StatusErrors
<1> QED
  BY <1>2, <1>3

LEMMA ResultStep ==
  ASSUME IInv, ResultTypes, [Next]_vars
  PROVE  ResultTypes'
<1> USE DEF ResultTypes, Active
<1>1. CASE UNCHANGED calls
  BY <1>1 DEF calls
<1>2. CASE Exit \/ Crash
  BY <1>2 DEF Exit, Crash, Gone, Results
<1>3. ASSUME NEW c \in Client, Step(c)
      PROVE  ResultTypes'
  <2>1. PICK p, r : /\ pc' = [pc EXCEPT ![c] = p] /\ result' = [result EXCEPT ![c] = r]
                    /\ p = "done" => r \in Results
    <3>1. CASE Send(c)
      <4>1. PICK early : early = EarlyStatus(request[c], Routes(env))
        OBVIOUS
      <4>2. PICK r : r = ClientResult(request[c].op, early, "json")
        OBVIOUS
      <4>3. early # 0 => r \in Results
        BY <4>1, <4>2, EarlyTypes
      <4> QED
        BY <3>1, <4>1, <4>2, <4>3 DEF Send, Goto, Return
    <3>2. CASE FindByToken(c) \/ Usecase(c)
      BY <3>2 DEF FindByToken, Usecase, Goto
    <3>3. CASE Commit(c) \/ QueryFails(c) \/ TransactionFails(c)
      BY <3>3 DEF Commit, QueryFails, TransactionFails, Goto
    <3>4. CASE Answer(c)
      <4>1. PICK r : r = ClientResult(request[c].op, Status(request[c].op, err[c]), "json")
        OBVIOUS
      <4>2. r \in Results
        BY <4>1, RequestTypes, AnswerTypes DEF IInv
      <4> QED
        BY <3>4, <4>1, <4>2 DEF Answer, Return
    <3>5. CASE SendFails(c) \/ CutOff(c)
      BY <3>5 DEF SendFails, CutOff, Return, Results
    <3>6. CASE GoOn(c)
      <4>1. UNCHANGED <<pc, result>>
        BY <3>6 DEF GoOn
      <4> QED
        BY <4>1, Unchanging DEF IInv
    <3> QED
      BY <1>3, <3>1, <3>2, <3>3, <3>4, <3>5, <3>6 DEF Step, Handle
  <2> QED
    BY <2>1 DEF IInv, Shape
<1>4. ASSUME ~(Exit \/ Crash), ~ UNCHANGED calls
      PROVE \E c \in Client : Step(c)
  BY <1>4 DEF Next, vars, Start, Run, Boot, BootStep, RunHTTPAndWorker, Listen, TickerRuns,
     RunOnceReturns, TickerStops, Signal, ShutdownBegins, ShutdownEnds, Wait, CloseNext
<1> QED
  BY <1>1, <1>2, <1>3, <1>4

LEMMA ProcessStep ==
  ASSUME ProcessTypes, [Next]_vars
  PROVE  ProcessTypes'
<1>0. ASSUME Mishap \/ UNCHANGED mishaps PROVE mishaps' \in 0 .. MaxMishaps
  <2>1. MaxMishaps \in Nat /\ mishaps \in 0 .. MaxMishaps
    BY ServerAssumption DEF ProcessTypes
  <2> QED
    BY <1>0, <2>1 DEF Mishap
<1> USE DEF ProcessTypes, outbox
<1>1. CASE UNCHANGED vars
  BY <1>1 DEF vars, process
<1>2. ASSUME NEW e \in GoodEnv \cup BadEnv, Start(e) PROVE ProcessTypes'
  BY <1>0, <1>2 DEF Start
<1>3. CASE Boot
  BY <1>0, <1>3 DEF Boot, BootStep, PoolResources
<1>4. CASE RunHTTPAndWorker
  BY <1>4 DEF RunHTTPAndWorker
<1>5. CASE Listen
  BY <1>0, <1>5 DEF Listen
<1>6. CASE TickerRuns \/ TickerStops
  BY <1>6 DEF TickerRuns, TickerStops
<1>7. CASE RunOnceReturns
  <2>1. PICK sent \in SUBSET batch, stuck \in SUBSET batch : Relayed(sent, stuck) /\ stuck \cap sent = {}
    BY <1>7 DEF RunOnceReturns
  <2>2. mishaps' \in 0 .. MaxMishaps
    BY <1>0, <2>1 DEF Relayed
  <2> QED
    BY <1>7, <2>1, <2>2 DEF RunOnceReturns, Relayed
<1>8. CASE Signal \/ ShutdownBegins \/ ShutdownEnds \/ Wait
  BY <1>0, <1>8 DEF Signal, ShutdownBegins, ShutdownEnds, Wait
<1>9. CASE CloseNext
  BY <1>9 DEF CloseNext
<1>10. CASE Exit \/ Crash
  BY <1>0, <1>10 DEF Exit, Crash, Gone
<1>11. ASSUME NEW c \in Client, Step(c)
       PROVE  ProcessTypes'
  <2>1. UNCHANGED process
    BY <1>11 DEF Step, Handle, Send, FindByToken, Usecase, Commit, Answer, SendFails, CutOff, QueryFails, TransactionFails, GoOn
  <2>2. mishaps' \in 0 .. MaxMishaps
    BY <1>0, <1>11 DEF Step, Handle, Send, FindByToken, Usecase, Commit, Answer, SendFails, CutOff, QueryFails, TransactionFails, GoOn
  <2>3. UNCHANGED <<committed, outbox>> \/ Commits(c)
    BY <1>11 DEF Step, Handle, Send, FindByToken, Usecase, Commit, Answer, SendFails, CutOff, QueryFails, TransactionFails, GoOn
  <2> QED
    BY <2>1, <2>2, <2>3 DEF process, outbox, Commits
<1> QED
  BY <1>1, <1>2, <1>3, <1>4, <1>5, <1>6, <1>7, <1>8, <1>9, <1>10, <1>11 DEF Next, Run

(* Every variable keeps its type; what was claimed is not published, what  *)
(* is not published was committed, and a client method returns one of the  *)
(* errors it documents.                                                    *)
THEOREM ServerTypeCorrect == Spec => []TypeOK
<1>1. Init => ProcessTypes /\ ResultTypes
  <2>1. MaxMishaps \in Nat
    BY ServerAssumption
  <2>2. 0 \in 0 .. MaxMishaps
    BY <2>1
  <2> QED
    BY <2>2 DEF Init, ProcessTypes, ResultTypes
<1>2. IInv /\ ProcessTypes /\ ResultTypes /\ [Next]_vars => ProcessTypes' /\ ResultTypes'
  BY ProcessStep, ResultStep
<1>3. IInv /\ ProcessTypes /\ ResultTypes => TypeOK
  BY DEF IInv, Shape, StageInv, RequestInv, ProcessTypes, ResultTypes, Results, UnderWay, TypeOK
<1> QED
  BY <1>1, <1>2, <1>3, Invariant, PTL DEF Spec
=============================================================================
