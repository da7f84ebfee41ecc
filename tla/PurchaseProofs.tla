--------------------------- MODULE PurchaseProofs ---------------------------
(***************************************************************************)
(* Theorems about PurchaseFlow for any number of calls, players, products  *)
(* and tokens, any catalog and any number of failures.                     *)
(***************************************************************************)
EXTENDS PurchaseFlow, TLAPS

USE PurchaseAssumption DEF PurchaseAssumption

InTransaction == Statements \cup {"commit"}

(* The keys a call's transaction has inserted when it stands at s.         *)
WrittenAt(q, s) ==
  CASE s = "faction" -> {q.token}
    [] s = "main"    -> IF KindOf[q.product] = "faction_set"
                        THEN {q.token, <<q.player, FactionOf[q.product]>>}
                        ELSE {q.token}
    [] s = "commit"  -> KeysOf(q)
    [] OTHER         -> {}

(* What an open transaction has inserted depends only on where it is; it   *)
(* is not in the table yet, and in no other open transaction.              *)
OpenTransactions ==
  /\ \A c \in Call : written[c] = WrittenAt(request[c], pc[c])
  /\ \A c \in Call : \A k \in written[c] : rows[k] = None
  /\ \A c, d \in Call : c # d => written[c] \cap written[d] = {}

(* A transaction is open only for a request the verifier accepted, a call  *)
(* has its purchase only when it is over, and only then an answer.         *)
Progress ==
  /\ \A c \in Call : pc[c] \in InTransaction \/ c \in purchases =>
       <<request[c].token, request[c].product>> \in Valid
  /\ \A c \in Call : pc[c] = "faction" => KindOf[request[c].product] = "faction_set"
  /\ \A c \in purchases : pc[c] = "done"
  /\ \A c \in Call : pc[c] # "done" => answer[c] = "none"

IInv == TypeOK /\ AllOrNothing /\ AnswersAreTrue /\ OpenTransactions /\ Progress

(***************************************************************************)
(* What one step does.                                                     *)
(***************************************************************************)

(* Only call c moves.                                                      *)
Moves(c) ==
  /\ pc[c] # "done"
  /\ request' = request
  /\ pc' \in [Call -> Places]
  /\ answer' \in [Call -> Answers]
  /\ written' \in [Call -> SUBSET Key]
  /\ \A d \in Call \ {c} : pc'[d] = pc[d] /\ answer'[d] = answer[d] /\ written'[d] = written[d]
  /\ faults' \in 0 .. MaxFaults
  /\ pc'[c] # "done" => answer'[c] = "none"

(* It leaves the database alone and may insert one free key.               *)
Quiet(c) ==
  /\ UNCHANGED database
  /\ written'[c] = WrittenAt(request[c], pc'[c])
  /\ \A k \in written'[c] \ written[c] :
       rows[k] = None /\ \A d \in Call \ {c} : k \notin written[d]
  /\ pc'[c] \in InTransaction => <<request[c].token, request[c].product>> \in Valid
  /\ pc'[c] = "faction" => KindOf[request[c].product] = "faction_set"
  /\ answer'[c] = "200" => rows[request[c].token] # None
  /\ answer'[c] = "409" => rows[MainKey(request[c])] # None

Applies(c) ==
  /\ Apply(c)
  /\ pc'[c] = "done"
  /\ answer'[c] \in {"200", "500"}

LEMMA RequestType ==
  ASSUME TypeOK, NEW c \in Call
  PROVE  /\ request[c] \in Request
         /\ request[c].player \in Player
         /\ request[c].product \in Product
         /\ request[c].token \in Token
         /\ request[c].token \in Key
         /\ MainKey(request[c]) \in Key
         /\ <<request[c].player, FactionOf[request[c].product]>> \in Key
         /\ KeysOf(request[c]) \subseteq Key
         /\ MainKey(request[c]) \in KeysOf(request[c])
  <1>1. request[c] \in [player : Player, product : Product, token : Token]
    BY DEF TypeOK
  <1>2. MainAsset[request[c].product] \in Asset /\ FactionOf[request[c].product] \in Asset
    BY <1>1
  <1> QED BY <1>1, <1>2 DEF TypeOK, Key, MainKey, KeysOf, Contents

LEMMA FindEffect ==
  ASSUME IInv, NEW c \in Call, FindPurchaseByToken(c) PROVE Moves(c) /\ Quiet(c)
  <1>1. /\ written[c] = {} /\ answer[c] = "none"
        /\ UNCHANGED <<database, request, written, faults>>
    BY DEF IInv, OpenTransactions, Progress, WrittenAt, FindPurchaseByToken
  <1>2. CASE rows[request[c].token] # None
    BY <1>1, <1>2 DEF IInv, TypeOK, FindPurchaseByToken, Goto, Respond, Moves, Quiet,
      InTransaction, Statements, Places, Answers, WrittenAt
  <1>3. CASE ~(rows[request[c].token] # None)
    BY <1>1, <1>3 DEF IInv, TypeOK, FindPurchaseByToken, Goto, Respond, Moves, Quiet,
      InTransaction, Statements, Places, Answers, WrittenAt
  <1> QED BY <1>2, <1>3

LEMMA ProductEffect ==
  ASSUME IInv, NEW c \in Call, GetProductByID(c) PROVE Moves(c) /\ Quiet(c)
  BY DEF IInv, TypeOK, OpenTransactions, Progress, GetProductByID, Goto, Respond,
    Moves, Quiet, InTransaction, Statements, Places, Answers, database, WrittenAt

LEMMA OwnedEffect ==
  ASSUME IInv, NEW c \in Call, CheckOwned(c) PROVE Moves(c) /\ Quiet(c)
  <1>1. /\ written[c] = {} /\ answer[c] = "none"
        /\ UNCHANGED <<database, request, written, faults>>
    BY DEF IInv, OpenTransactions, Progress, WrittenAt, CheckOwned
  <1>2. CASE rows[MainKey(request[c])] # None
    BY <1>1, <1>2 DEF IInv, TypeOK, CheckOwned, Goto, Respond, Moves, Quiet,
      InTransaction, Statements, Places, Answers, WrittenAt
  <1>3. CASE ~(rows[MainKey(request[c])] # None)
    BY <1>1, <1>3 DEF IInv, TypeOK, CheckOwned, Goto, Respond, Moves, Quiet,
      InTransaction, Statements, Places, Answers, WrittenAt
  <1> QED BY <1>2, <1>3

LEMMA VerifyEffect ==
  ASSUME IInv, NEW c \in Call, VerifyPurchase(c) PROVE Moves(c) /\ Quiet(c)
  <1>1. /\ written[c] = {} /\ answer[c] = "none"
        /\ UNCHANGED <<database, request, written, faults>>
    BY DEF IInv, OpenTransactions, Progress, WrittenAt, VerifyPurchase
  <1>0. Following(request[c], "begin") = "token" BY DEF Following
  <1>2. CASE <<request[c].token, request[c].product>> \in Valid
    BY <1>1, <1>2, <1>0 DEF IInv, TypeOK, VerifyPurchase, Goto, Respond, Moves, Quiet,
      InTransaction, Statements, Places, Answers, WrittenAt
  <1>3. CASE ~(<<request[c].token, request[c].product>> \in Valid)
    BY <1>1, <1>3, <1>0 DEF IInv, TypeOK, VerifyPurchase, Goto, Respond, Moves, Quiet,
      InTransaction, Statements, Places, Answers, WrittenAt
  <1> QED BY <1>2, <1>3

LEMMA FailEffect ==
  ASSUME IInv, NEW c \in Call, Fail(c) PROVE Moves(c) /\ Quiet(c)
  BY DEF IInv, TypeOK, OpenTransactions, Progress, Fail, Respond,
    Moves, Quiet, InTransaction, Statements, Places, Answers, database, WrittenAt

(* After its statement at s a transaction stands at Following(q, s), and   *)
(* has inserted the key of s besides what it had.                          *)
LEMMA StatementOrder ==
  ASSUME NEW q \in Request, NEW s \in Statements,
         s = "faction" => KindOf[q.product] = "faction_set"
  PROVE  /\ Following(q, s) \in InTransaction
         /\ WrittenAt(q, Following(q, s)) = WrittenAt(q, s) \cup {KeyOf(q, s)}
         /\ Following(q, s) = "faction" => KindOf[q.product] = "faction_set"
  <1>1. CASE s = "token"
    BY <1>1 DEF Following, InTransaction, Statements, WrittenAt, KeyOf
  <1>2. CASE s = "faction"
    BY <1>2 DEF Following, InTransaction, Statements, WrittenAt, KeyOf
  <1>3. CASE s = "main"
    BY <1>3 DEF Following, InTransaction, Statements, WrittenAt, KeyOf, KeysOf, Contents, MainKey
  <1> QED BY <1>1, <1>2, <1>3 DEF Statements

LEMMA InsertEffect ==
  ASSUME IInv, NEW c \in Call, Insert(c) PROVE Moves(c) /\ Quiet(c)
  <1> DEFINE k == KeyOf(request[c], pc[c])
  <1>1. pc[c] \in Statements /\ request[c] \in Request
    BY DEF IInv, TypeOK, Insert
  <1>2. k \in Key
    BY <1>1, RequestType DEF IInv, KeyOf, Statements
  <1>3. pc[c] = "faction" => KindOf[request[c].product] = "faction_set"
    BY DEF IInv, Progress
  <1>4. /\ Following(request[c], pc[c]) \in InTransaction
        /\ WrittenAt(request[c], Following(request[c], pc[c]))
             = WrittenAt(request[c], pc[c]) \cup {k}
        /\ Following(request[c], pc[c]) = "faction" => KindOf[request[c].product] = "faction_set"
    BY <1>1, <1>3, StatementOrder
  <1>5. \A d \in Call \ {c} : k \notin written[d]
    BY <1>1 DEF Insert, WaitsFor
  <1>6. pc[c] = "token" => k = request[c].token
    BY DEF KeyOf
  <1>7. /\ written[c] = WrittenAt(request[c], pc[c])
        /\ answer[c] = "none"
        /\ <<request[c].token, request[c].product>> \in Valid
    BY <1>1 DEF IInv, OpenTransactions, Progress, InTransaction, Statements
  <1> HIDE DEF k
  <1>8. CASE rows[k] = None
    <2>1. /\ written' = [written EXCEPT ![c] = @ \cup {k}]
          /\ pc' = [pc EXCEPT ![c] = Following(request[c], pc[c])]
          /\ UNCHANGED <<answer, database, request, faults>>
      BY <1>8 DEF Insert, Goto, k
    <2> QED BY <1>1, <1>2, <1>4, <1>5, <1>7, <1>8, <2>1
      DEF IInv, TypeOK, Moves, Quiet, InTransaction, Statements, Places, database
  <1>9. CASE rows[k] # None
    <2>1. /\ written' = [written EXCEPT ![c] = {}]
          /\ pc' = [pc EXCEPT ![c] = "done"]
          /\ answer' = [answer EXCEPT ![c] = IF pc[c] = "token" THEN "200" ELSE "500"]
          /\ UNCHANGED <<database, request, faults>>
      BY <1>9 DEF Insert, Respond, k
    <2> QED BY <1>1, <1>6, <1>9, <2>1
      DEF IInv, TypeOK, Moves, Quiet, InTransaction, Statements, Places, Answers, database, WrittenAt
  <1> QED BY <1>8, <1>9

LEMMA CommitEffect ==
  ASSUME IInv, NEW c \in Call, Commit(c) \/ CommitUnknown(c) PROVE Moves(c) /\ Applies(c)
  <1>1. Apply(c) /\ pc[c] = "commit" /\ request' = request
    BY DEF Commit, CommitUnknown, Apply
  <1>2. written' = [written EXCEPT ![c] = {}]
    BY <1>1 DEF Apply
  <1>3. \E status \in {"200", "500"} : Respond(c, status)
    BY DEF Commit, CommitUnknown
  <1>4. faults' \in 0 .. MaxFaults
    BY DEF IInv, TypeOK, Commit, CommitUnknown
  <1> QED BY <1>1, <1>2, <1>3, <1>4
    DEF IInv, TypeOK, Respond, Moves, Applies, Places, Answers

(* Every step is one call's, and either leaves the database alone or       *)
(* commits.                                                                *)
LEMMA NextEffect ==
  ASSUME IInv, Next
  PROVE  \E c \in Call : Moves(c) /\ (Quiet(c) \/ Applies(c))
  BY FindEffect, ProductEffect, OwnedEffect, VerifyEffect, InsertEffect, CommitEffect, FailEffect
  DEF Next, Step

(***************************************************************************)
(* The invariant is inductive.                                             *)
(***************************************************************************)
LEMMA InitIInv == ASSUME Init PROVE IInv
  <1>1. TypeOK BY DEF Init, TypeOK, Places, Statements, Answers
  <1>2. AllOrNothing /\ AnswersAreTrue BY DEF Init, AllOrNothing, AnswersAreTrue
  <1>3. OpenTransactions BY DEF Init, OpenTransactions, WrittenAt
  <1>4. Progress BY DEF Init, Progress, InTransaction, Statements
  <1> QED BY <1>1, <1>2, <1>3, <1>4 DEF IInv

LEMMA TypeStep ==
  ASSUME IInv, NEW c \in Call, Moves(c), Quiet(c) \/ Applies(c) PROVE TypeOK'
  <1>1. /\ request' \in [Call -> Request] /\ pc' \in [Call -> Places]
        /\ written' \in [Call -> SUBSET Key] /\ answer' \in [Call -> Answers]
        /\ faults' \in 0 .. MaxFaults
    BY DEF IInv, TypeOK, Moves
  <1>2. CASE Quiet(c)
    BY <1>1, <1>2 DEF IInv, TypeOK, Quiet, database
  <1>3. CASE Applies(c)
    <2>1. Announced(request[c].product) \subseteq Asset
      BY RequestType DEF IInv, Announced, Contents
    <2>2. /\ rows' \in [Key -> Call \cup {None}]
          /\ purchases' \in SUBSET Call
          /\ outbox' \in SUBSET (Call \X Asset)
      BY <1>3, <2>1 DEF IInv, TypeOK, Applies, Apply
    <2> QED BY <1>1, <2>2 DEF TypeOK
  <1> QED BY <1>2, <1>3

LEMMA TransactionStep ==
  ASSUME IInv, NEW c \in Call, Moves(c), Quiet(c) \/ Applies(c) PROVE OpenTransactions'
  <1>1. /\ \A d \in Call : written[d] = WrittenAt(request[d], pc[d])
        /\ \A d \in Call : \A k \in written[d] : k \in Key /\ rows[k] = None
        /\ \A d, e \in Call : d # e => written[d] \cap written[e] = {}
    BY DEF IInv, TypeOK, OpenTransactions
  <1>2. /\ request' = request
        /\ \A d \in Call \ {c} : pc'[d] = pc[d] /\ written'[d] = written[d]
    BY DEF Moves
  <1>3. CASE Quiet(c)
    <2>1. \A d \in Call : written'[d] = WrittenAt(request[d], pc'[d])
      BY <1>1, <1>2, <1>3 DEF Quiet
    <2>2. \A d \in Call : \A k \in written'[d] : rows'[k] = None
      BY <1>1, <1>2, <1>3 DEF Quiet, database
    <2>3. \A d \in Call \ {c} : written'[c] \cap written[d] = {}
      BY <1>1, <1>3 DEF Quiet
    <2>4. \A d, e \in Call : d # e => written'[d] \cap written'[e] = {}
      BY <1>1, <1>2, <2>3
    <2> QED BY <1>2, <2>1, <2>2, <2>4 DEF OpenTransactions, WrittenAt, KeysOf, Contents
  <1>4. CASE Applies(c)
    <2>1. pc'[c] = "done" /\ written'[c] = {}
      BY <1>4 DEF IInv, TypeOK, Applies, Apply
    <2>2. \A d \in Call : written'[d] = WrittenAt(request[d], pc'[d])
      BY <1>1, <1>2, <2>1 DEF WrittenAt
    <2>3. \A d \in Call \ {c} : \A k \in written[d] : rows'[k] = None
      <3> SUFFICES ASSUME NEW d \in Call \ {c}, NEW k \in written[d] PROVE rows'[k] = None
        OBVIOUS
      <3>1. k \in Key /\ k \notin written[c] /\ rows[k] = None
        BY <1>1
      <3> QED BY <1>4, <3>1 DEF Applies, Apply
    <2>4. \A d, e \in Call : d # e => written'[d] \cap written'[e] = {}
      BY <1>1, <1>2, <2>1
    <2>5. \A d \in Call : \A k \in written'[d] : rows'[k] = None
      BY <1>2, <2>1, <2>3
    <2> QED BY <1>2, <2>2, <2>4, <2>5 DEF OpenTransactions, WrittenAt, KeysOf, Contents
  <1> QED BY <1>3, <1>4

LEMMA ProgressStep ==
  ASSUME IInv, NEW c \in Call, Moves(c), Quiet(c) \/ Applies(c) PROVE Progress'
  <1>1. /\ request' = request
        /\ pc[c] # "done" /\ c \notin purchases
        /\ pc'[c] # "done" => answer'[c] = "none"
        /\ \A d \in Call \ {c} : pc'[d] = pc[d] /\ answer'[d] = answer[d]
    BY DEF IInv, Progress, Moves
  <1>2. CASE Quiet(c)
    <2>1. /\ purchases' = purchases
          /\ pc'[c] \in InTransaction => <<request[c].token, request[c].product>> \in Valid
          /\ pc'[c] = "faction" => KindOf[request[c].product] = "faction_set"
      BY <1>2 DEF Quiet, database
    <2> QED BY <1>1, <2>1 DEF IInv, TypeOK, Progress, InTransaction, Statements
  <1>3. CASE Applies(c)
    <2>1. /\ pc[c] = "commit" /\ pc'[c] = "done"
          /\ purchases' = purchases \cup {c}
      BY <1>3 DEF Applies, Apply
    <2> QED BY <1>1, <2>1 DEF IInv, TypeOK, Progress, InTransaction, Statements
  <1> QED BY <1>2, <1>3

LEMMA AnswersStep ==
  ASSUME IInv, NEW c \in Call, Moves(c), Quiet(c) \/ Applies(c) PROVE AnswersAreTrue'
  <1>1. /\ request' = request
        /\ c \notin purchases
        /\ \A d \in Call \ {c} : answer'[d] = answer[d]
    BY DEF IInv, Progress, Moves
  <1>2. \A d \in Call : request[d].token \in Key /\ MainKey(request[d]) \in Key
    BY RequestType DEF IInv
  <1>3. CASE Quiet(c)
    <2>1. rows' = rows /\ purchases' = purchases
      BY <1>3 DEF Quiet, database
    <2> QED BY <1>1, <1>3, <2>1 DEF IInv, AnswersAreTrue, Quiet, MainKey
  <1>4. CASE Applies(c)
    <2>1. \A k \in Key : rows[k] # None => rows'[k] # None
      BY <1>4 DEF Applies, Apply
    <2>2. answer'[c] \in {"200", "500"} /\ purchases' = purchases \cup {c}
      BY <1>4 DEF Applies, Apply
    <2>3. rows'[request[c].token] # None
      <3>1. written[c] = KeysOf(request[c])
        BY <1>4 DEF IInv, OpenTransactions, WrittenAt, Applies, Apply
      <3> QED BY <1>2, <1>4, <3>1 DEF Applies, Apply, KeysOf
    <2> QED BY <1>1, <1>2, <2>1, <2>2, <2>3 DEF IInv, AnswersAreTrue, MainKey
  <1> QED BY <1>3, <1>4

LEMMA RowsStep ==
  ASSUME IInv, NEW c \in Call, Moves(c), Quiet(c) \/ Applies(c) PROVE AllOrNothing'
  <1>1. /\ request' = request /\ c \notin purchases
        /\ KeysOf(request[c]) \subseteq Key
    BY RequestType DEF IInv, Progress, Moves
  <1>2. CASE Quiet(c)
    BY <1>1, <1>2 DEF IInv, AllOrNothing, Quiet, database, KeysOf, Contents, Announced
  <1>3. CASE Applies(c)
    <2>1. /\ purchases' = purchases \cup {c}
          /\ rows' = [k \in Key |-> IF k \in written[c] THEN c ELSE rows[k]]
          /\ outbox' = outbox \cup ({c} \X Announced(request[c].product))
      BY <1>3 DEF Applies, Apply
    <2>2. written[c] = KeysOf(request[c]) /\ \A k \in written[c] : rows[k] = None
      BY <1>3 DEF IInv, OpenTransactions, WrittenAt, Applies, Apply
    <2>3. \A d \in purchases : \A k \in KeysOf(request[d]) : rows[k] = d /\ k \in Key
      BY RequestType DEF IInv, TypeOK, AllOrNothing
    <2>4. \A d \in purchases' : \A k \in KeysOf(request[d]) : rows'[k] = d
      <3>1. \A k \in KeysOf(request[c]) : rows'[k] = c
        BY <1>1, <2>1, <2>2
      <3>2. \A d \in purchases : \A k \in KeysOf(request[d]) : rows'[k] = d
        BY <2>1, <2>2, <2>3 DEF IInv, TypeOK
      <3> QED BY <2>1, <3>1, <3>2
    <2>5. \A k \in Key : rows'[k] # None =>
            rows'[k] \in purchases' /\ k \in KeysOf(request[rows'[k]])
      BY <2>1, <2>2 DEF IInv, AllOrNothing
    <2>6. outbox' = UNION {{d} \X Announced(request[d].product) : d \in purchases'}
      BY <2>1 DEF IInv, AllOrNothing
    <2> QED BY <1>1, <2>4, <2>5, <2>6 DEF AllOrNothing, KeysOf, Contents, Announced
  <1> QED BY <1>2, <1>3

LEMMA NextIInv == ASSUME IInv, [Next]_vars PROVE IInv'
  <1>1. CASE Next
    <2>1. PICK c \in Call : Moves(c) /\ (Quiet(c) \/ Applies(c))
      BY <1>1, NextEffect
    <2> QED BY <2>1, TypeStep, TransactionStep, ProgressStep, AnswersStep, RowsStep DEF IInv
  <1>2. CASE UNCHANGED vars
    BY <1>2 DEF vars, IInv, TypeOK, AllOrNothing, AnswersAreTrue, OpenTransactions, Progress,
      WrittenAt, KeysOf, Contents, Announced, MainKey
  <1> QED BY <1>1, <1>2

(* Every reachable state satisfies the inductive invariant.                *)
THEOREM SpecIInv == Spec => []IInv
  <1> QED BY InitIInv, NextIInv, PTL DEF Spec

(* The tables and the calls always have their types.                       *)
THEOREM PurchaseTypeCorrect == Spec => []TypeOK
  <1>1. IInv => TypeOK BY DEF IInv
  <1> QED BY <1>1, SpecIInv, PTL

(* For any number of concurrent calls and failures: a purchase is recorded *)
(* with its token, contents and events, or leaves nothing.                 *)
THEOREM PurchasesAreAtomic == Spec => []AllOrNothing
  <1>1. IInv => AllOrNothing BY DEF IInv
  <1> QED BY <1>1, SpecIInv, PTL

(* No caller is told something the database does not bear out.             *)
THEOREM AnswersAgree == Spec => []AnswersAreTrue
  <1>1. IInv => AnswersAreTrue BY DEF IInv
  <1> QED BY <1>1, SpecIInv, PTL

(***************************************************************************)
(* Lock order.                                                             *)
(***************************************************************************)

(* A call that waits stands at a statement of at least the place of every  *)
(* key the other transaction has inserted up to where it stands: a token   *)
(* is waited for only by calls that hold nothing, a faction only by calls  *)
(* that hold a token, and one that waits for a pack waits for a call that  *)
(* has inserted everything.                                                *)
LEMMA WaitOrder ==
  ASSUME IInv, NEW c \in Call, NEW d \in Call, WaitsFor(c, d)
  PROVE  /\ pc[c] = "token" => pc[d] \in {"faction", "main", "commit"}
         /\ pc[c] = "faction" => pc[d] \in {"main", "commit"}
         /\ pc[c] = "main" => pc[d] = "commit"
  <1> DEFINE q == request[c]
             r == request[d]
  <1>1. /\ q.player \in Player /\ q.product \in Product /\ q.token \in Token
        /\ r.player \in Player /\ r.product \in Product /\ r.token \in Token
        /\ MainAsset[q.product] \in Asset /\ FactionOf[q.product] \in Asset
        /\ MainAsset[r.product] \in Asset /\ FactionOf[r.product] \in Asset
    BY RequestType DEF IInv
  <1>2. /\ written[d] = WrittenAt(r, pc[d])
        /\ pc[c] \in Statements /\ KeyOf(q, pc[c]) \in written[d]
    BY DEF IInv, OpenTransactions, WaitsFor
  <1>3. pc[d] \in {"faction", "main", "commit"}
    BY <1>2 DEF WrittenAt
  <1>0. \A t \in Token, p \in Player, a \in Asset : t # <<p, a>>
    OBVIOUS
  <1>4. /\ q.token # <<r.player, FactionOf[r.product]>>
        /\ r.token # <<q.player, FactionOf[q.product]>>
        /\ r.token # MainKey(q)
    BY <1>0, <1>1 DEF MainKey
  <1>5. MainKey(q) # <<r.player, FactionOf[r.product]>>
    BY <1>1 DEF MainKey
  <1> HIDE DEF q, r
  <1>6. pc[c] = "faction" => pc[d] # "faction"
    BY <1>2, <1>4 DEF WrittenAt, KeyOf
  <1>7. pc[c] = "main" => pc[d] \notin {"faction", "main"}
    BY <1>2, <1>4, <1>5 DEF WrittenAt, KeyOf
  <1> QED BY <1>3, <1>6, <1>7

(* Transactions never wait for each other in a circle, whatever the        *)
(* catalog and however many calls run.                                     *)
LEMMA NoCircle == ASSUME IInv PROVE NoCircularWait
  <1> SUFFICES ASSUME NEW S \in SUBSET Call, S # {}
               PROVE  \E c \in S : \A d \in S : ~WaitsFor(c, d)
    BY DEF NoCircularWait
  <1>1. CASE \E c \in S : pc[c] \notin Statements
    BY <1>1 DEF WaitsFor
  <1>2. CASE \A c \in S : pc[c] \in Statements
    <2>1. CASE \E c \in S : pc[c] = "main"
      BY <1>2, <2>1, WaitOrder DEF Statements
    <2>2. CASE (\A c \in S : pc[c] # "main") /\ \E c \in S : pc[c] = "faction"
      BY <1>2, <2>2, WaitOrder DEF Statements
    <2>3. CASE \A c \in S : pc[c] = "token"
      BY <1>2, <2>3, WaitOrder DEF Statements
    <2> QED BY <1>2, <2>1, <2>2, <2>3 DEF Statements
  <1> QED BY <1>1, <1>2

(* No deadlock between transactions, for any number of them.               *)
THEOREM LockOrder == Spec => []NoCircularWait
  <1> QED BY SpecIInv, NoCircle, PTL

(***************************************************************************)
(* What EveryCallAnswered rests on.  A call advances with each of its      *)
(* steps, so that there are at most eight of them; and as long as a call   *)
(* is inside a transaction, one of the calls inside a transaction waits    *)
(* for nobody.                                                             *)
(***************************************************************************)

(* The places of a call, in the order in which it can reach them.          *)
Rank(s) ==
  CASE s = "idle"    -> 0
    [] s = "product" -> 1
    [] s = "owned"   -> 2
    [] s = "verify"  -> 3
    [] s = "token"   -> 4
    [] s = "faction" -> 5
    [] s = "main"    -> 6
    [] s = "commit"  -> 7
    [] s = "done"    -> 8

Advances(c) == Rank(pc'[c]) > Rank(pc[c])

OneAdvances ==
  \E c \in Call :
    /\ Advances(c)
    /\ \A d \in Call \ {c} : pc'[d] = pc[d] /\ answer'[d] = answer[d]

LEMMA RankOrder ==
  /\ \A s \in Places \ {"done"} : Rank("done") > Rank(s)
  /\ Rank("product") > Rank("idle") /\ Rank("owned") > Rank("product")
  /\ Rank("verify") > Rank("owned") /\ Rank("token") > Rank("verify")
  /\ \A q : \A s \in Statements : Rank(Following(q, s)) > Rank(s)
  BY DEF Rank, Places, Statements, Following

LEMMA GotoAdvances ==
  ASSUME IInv, NEW c \in Call, NEW s, Goto(c, s), Rank(s) > Rank(pc[c]) PROVE Advances(c)
  BY DEF IInv, TypeOK, Goto, Advances

LEMMA RespondAdvances ==
  ASSUME IInv, NEW c \in Call, NEW status, Respond(c, status), pc[c] # "done" PROVE Advances(c)
  <1>1. pc[c] \in Places \ {"done"} /\ pc'[c] = "done"
    BY DEF IInv, TypeOK, Respond
  <1> QED BY <1>1, RankOrder DEF Advances

LEMMA StepAdvances ==
  ASSUME IInv, NEW c \in Call, Step(c) \/ CommitUnknown(c) \/ Fail(c) PROVE Advances(c)
  <1>1. CASE FindPurchaseByToken(c)
    BY <1>1, RankOrder, GotoAdvances, RespondAdvances DEF FindPurchaseByToken
  <1>2. CASE GetProductByID(c)
    BY <1>2, RankOrder, GotoAdvances, RespondAdvances DEF GetProductByID
  <1>3. CASE CheckOwned(c)
    BY <1>3, RankOrder, GotoAdvances, RespondAdvances DEF CheckOwned
  <1>4. CASE VerifyPurchase(c)
    <2>1. Following(request[c], "begin") = "token" BY DEF Following
    <2> QED BY <1>4, <2>1, RankOrder, GotoAdvances, RespondAdvances DEF VerifyPurchase
  <1>5. CASE Insert(c)
    <2>1. pc[c] \in Statements /\ pc[c] # "done"
      BY <1>5 DEF Insert, Statements
    <2>2. \/ Goto(c, Following(request[c], pc[c]))
          \/ \E status \in {"200", "500"} : Respond(c, status)
      BY <1>5 DEF Insert
    <2> QED BY <2>1, <2>2, RankOrder, GotoAdvances, RespondAdvances
  <1>6. CASE Commit(c) \/ CommitUnknown(c)
    <2>1. pc[c] # "done" /\ \E status \in {"200", "500"} : Respond(c, status)
      BY <1>6 DEF Commit, CommitUnknown, Apply
    <2> QED BY <2>1, RespondAdvances
  <1>7. CASE Fail(c)
    BY <1>7, RespondAdvances DEF Fail
  <1> QED BY <1>1, <1>2, <1>3, <1>4, <1>5, <1>6, <1>7 DEF Step

(* Each step takes one call further on its way to an answer and leaves the *)
(* other calls where they are: no call is ever set back or starts again,   *)
(* whatever fails.                                                         *)
THEOREM CallsOnlyAdvance == Spec => [][OneAdvances]_vars
  <1>1. IInv /\ [Next]_vars => [OneAdvances]_vars
    <2> SUFFICES ASSUME IInv, Next PROVE OneAdvances
      OBVIOUS
    <2>1. PICK c \in Call : Step(c) \/ CommitUnknown(c) \/ Fail(c)
      BY DEF Next
    <2>2. Moves(c)
      BY <2>1, FindEffect, ProductEffect, OwnedEffect, VerifyEffect, InsertEffect, CommitEffect,
        FailEffect DEF Step
    <2> QED BY <2>1, <2>2, StepAdvances DEF OneAdvances, Moves
  <1> QED BY <1>1, SpecIInv, PTL DEF Spec

SomeoneGoesOn ==
  \A c \in Call : pc[c] \in InTransaction =>
    \E d \in Call : pc[d] \in InTransaction /\ \A e \in Call : ~WaitsFor(d, e)

(* While transactions are open there is one whose next statement waits for *)
(* none of the others: the database never stands still on its own locks.   *)
THEOREM NeverAllWait == Spec => []SomeoneGoesOn
  <1>1. IInv => SomeoneGoesOn
    <2> SUFFICES ASSUME IInv, NEW c \in Call, pc[c] \in InTransaction
                 PROVE  \E d \in Call : pc[d] \in InTransaction /\ \A e \in Call : ~WaitsFor(d, e)
      BY DEF SomeoneGoesOn
    <2>1. PICK S \in SUBSET Call : S = {d \in Call : pc[d] \in InTransaction}
      OBVIOUS
    <2>2. PICK d \in S : \A e \in S : ~WaitsFor(d, e)
      BY <2>1, NoCircle DEF NoCircularWait
    <2>3. \A e \in Call \ S : ~WaitsFor(d, e)
      BY <2>1 DEF IInv, OpenTransactions, WaitsFor, WrittenAt, InTransaction, Statements
    <2> QED BY <2>1, <2>2, <2>3
  <1> QED BY <1>1, SpecIInv, PTL

(***************************************************************************)
(* Who pays gets what was paid for.                                        *)
(***************************************************************************)
Sold(p) == KindOf[p] \in {"faction_set", "card_pack", "cosmetic"} /\ p \notin Inactive

(* The player owns something of the product through another purchase.      *)
Owns(c) ==
  \E k \in {request[c].player} \X Contents(request[c].product) : rows[k] \notin {None, c}

(* No refusal is unfounded.                                                *)
Founded(c) ==
  /\ answer[c] \in {"400", "404"} => ~Sold(request[c].product)
  /\ answer[c] = "402" => <<request[c].token, request[c].product>> \notin Valid
  /\ answer[c] = "409" => Owns(c)
  /\ answer[c] = "500" => faults > 0 \/ Owns(c)
  /\ pc[c] = "done" => answer[c] # "none"

RefusalInv == \A c \in Call : Founded(c)

PaidCallsSucceed ==
  \A c \in Call :
    /\ pc[c] = "done" /\ faults = 0
    /\ Sold(request[c].product) /\ <<request[c].token, request[c].product>> \in Valid
    /\ ~Owns(c)
    => answer[c] = "200"

(* What a step tells its caller is founded in the database it found.       *)
Told(c) ==
  /\ faults' >= faults
  /\ answer'[c] \in {"400", "404"} => ~Sold(request[c].product)
  /\ answer'[c] = "402" => <<request[c].token, request[c].product>> \notin Valid
  /\ answer'[c] = "409" => Owns(c)
  /\ answer'[c] = "500" => faults' > 0 \/ Owns(c)
  /\ pc'[c] = "done" => answer'[c] # "none"

(* A taken key belongs to another call as long as this one is running.     *)
LEMMA TakenByAnother ==
  ASSUME IInv, NEW c \in Call, pc[c] # "done",
         NEW k \in {request[c].player} \X Contents(request[c].product), rows[k] # None
  PROVE  Owns(c)
  <1>1. k \in KeysOf(request[c]) /\ k \in Key
    BY RequestType DEF IInv, KeysOf
  <1>2. rows[k] \in purchases /\ c \notin purchases
    BY <1>1 DEF IInv, AllOrNothing, Progress
  <1> QED BY <1>2 DEF Owns

LEMMA StepTells ==
  ASSUME IInv, NEW c \in Call, Step(c) \/ CommitUnknown(c) \/ Fail(c) PROVE Told(c)
  <1>0. answer \in [Call -> Answers] /\ pc \in [Call -> Places] /\ faults \in Nat
    BY DEF IInv, TypeOK
  <1>m. MainKey(request[c]) \in {request[c].player} \X Contents(request[c].product)
    BY DEF MainKey, Contents
  <1>n. pc[c] # "done" => answer[c] = "none"
    BY DEF IInv, Progress
  <1>1. CASE FindPurchaseByToken(c)
    BY <1>1, <1>0, <1>n DEF FindPurchaseByToken, Goto, Respond, Told
  <1>2. CASE GetProductByID(c)
    BY <1>2, <1>0, <1>n DEF GetProductByID, Goto, Respond, Told, Sold
  <1>3. CASE CheckOwned(c)
    <2>1. CASE rows[MainKey(request[c])] # None
      <3>1. Owns(c)
        BY <1>3, <1>m, <2>1, TakenByAnother DEF CheckOwned
      <3> QED BY <1>3, <1>0, <2>1, <3>1 DEF CheckOwned, Respond, Told
    <2>2. CASE rows[MainKey(request[c])] = None
      BY <1>3, <1>0, <1>n, <2>2 DEF CheckOwned, Goto, Told
    <2> QED BY <2>1, <2>2
  <1>4. CASE VerifyPurchase(c)
    <2>1. Following(request[c], "begin") = "token" BY DEF Following
    <2> QED BY <1>4, <1>0, <1>n, <2>1 DEF VerifyPurchase, Goto, Respond, Told
  <1>5. CASE Insert(c)
    <2>1. pc[c] \in Statements /\ faults' = faults /\ pc[c] # "done"
      BY <1>5 DEF Insert, Statements
    <2>2. PICK k : k = KeyOf(request[c], pc[c])
      OBVIOUS
    <2>3. CASE rows[k] = None
      <3>1. Following(request[c], pc[c]) # "done"
        BY <2>1 DEF Following, Statements
      <3> QED BY <1>5, <1>0, <1>n, <2>1, <2>2, <2>3, <3>1 DEF Insert, Goto, Told
    <2>4. CASE rows[k] # None
      <3>1. Respond(c, IF pc[c] = "token" THEN "200" ELSE "500")
        BY <1>5, <2>2, <2>4 DEF Insert
      <3>2. CASE pc[c] = "token"
        BY <1>0, <2>1, <3>1, <3>2 DEF Respond, Told
      <3>3. CASE pc[c] # "token"
        <4>1. k \in {request[c].player} \X Contents(request[c].product)
          BY <2>1, <2>2, <3>3, <1>m DEF IInv, Progress, KeyOf, Contents, Statements
        <4>2. Owns(c)
          BY <2>1, <2>4, <4>1, TakenByAnother
        <4> QED BY <1>0, <2>1, <3>1, <3>3, <4>2 DEF Respond, Told
      <3> QED BY <3>2, <3>3
    <2> QED BY <2>3, <2>4
  <1>6. CASE Commit(c)
    BY <1>6, <1>0 DEF Commit, Respond, Told
  <1>7. CASE CommitUnknown(c)
    BY <1>7, <1>0 DEF CommitUnknown, Respond, Told
  <1>8. CASE Fail(c)
    BY <1>8, <1>0 DEF Fail, Respond, Told
  <1> QED BY <1>1, <1>2, <1>3, <1>4, <1>5, <1>6, <1>7, <1>8 DEF Step

(* What a player owns stays with the purchase that brought it.             *)
LEMMA OwnsStays ==
  ASSUME IInv, NEW c \in Call, Moves(c), Quiet(c) \/ Applies(c), NEW d \in Call, Owns(d)
  PROVE  Owns(d)'
  <1>1. PICK k \in {request[d].player} \X Contents(request[d].product) : rows[k] \notin {None, d}
    BY DEF Owns
  <1>2. k \in Key
    BY <1>1, RequestType DEF IInv, KeysOf
  <1>3. rows'[k] = rows[k]
    <2>1. CASE Quiet(c)
      BY <2>1 DEF Quiet, database
    <2>2. CASE Applies(c)
      BY <1>1, <1>2, <2>2 DEF IInv, OpenTransactions, Applies, Apply
    <2> QED BY <2>1, <2>2
  <1>4. request' = request
    BY DEF Moves
  <1> QED BY <1>1, <1>3, <1>4 DEF Owns, Contents

LEMMA RefusalStep == ASSUME IInv, RefusalInv, [Next]_vars PROVE RefusalInv'
  <1>1. CASE Next
    <2>1. PICK c \in Call : Step(c) \/ CommitUnknown(c) \/ Fail(c)
      BY <1>1 DEF Next
    <2>2. Moves(c) /\ (Quiet(c) \/ Applies(c))
      BY <2>1, FindEffect, ProductEffect, OwnedEffect, VerifyEffect, InsertEffect, CommitEffect,
        FailEffect DEF Step
    <2>3. Told(c)
      BY <2>1, StepTells
    <2>4. request' = request /\ faults \in Nat /\ faults' \in Nat /\ faults' >= faults
      BY <2>2, <2>3 DEF Moves, Told, IInv, TypeOK
    <2>5. \A d \in Call : Owns(d) => Owns(d)'
      BY <2>2, OwnsStays
    <2>6. Founded(c)'
      BY <2>3, <2>4, <2>5 DEF Founded, Told, Sold
    <2>7. \A d \in Call \ {c} : pc'[d] = pc[d] /\ answer'[d] = answer[d]
      BY <2>2 DEF Moves
    <2>8. \A d \in Call \ {c} : Founded(d)'
      BY <2>4, <2>5, <2>7 DEF RefusalInv, Founded, Sold
    <2> QED BY <2>6, <2>8 DEF RefusalInv
  <1>2. CASE UNCHANGED vars
    BY <1>2 DEF vars, RefusalInv, Founded, Owns, Sold, Contents
  <1> QED BY <1>1, <1>2

LEMMA SpecRefusalInv == Spec => []RefusalInv
  <1>1. Init => RefusalInv
    BY DEF Init, RefusalInv, Founded
  <1> QED BY <1>1, RefusalStep, SpecIInv, PTL DEF Spec

(* The converse of AnswersAgree: an answered call for a product that is    *)
(* sold, with a token the verifier vouches for, of a player who owns       *)
(* nothing of it through another purchase, succeeded unless something      *)
(* failed, however many calls competed for the token, the faction and the  *)
(* pack.                                                                   *)
THEOREM WhoPaysIsServed == Spec => []PaidCallsSucceed
  <1>1. IInv /\ RefusalInv => PaidCallsSucceed
    BY DEF IInv, TypeOK, Answers, RefusalInv, Founded, PaidCallsSucceed
  <1> QED BY <1>1, SpecIInv, SpecRefusalInv, PTL

(***************************************************************************)
(* PurchaseFlow implements PurchaseLedger.                                 *)
(***************************************************************************)
redeemedBar == [t \in {q.token : q \in Request} |-> RedeemedFor(t)]
ownedBar == {k \in Player \X Asset : rows[k] # None}
announcedBar == {<<request[e[1]], e[2]>> : e \in outbox}
confirmedBar == {request[c].token : c \in {d \in Call : answer[d] = "200"}}

(* A step that leaves the database alone confirms a redeemed token or      *)
(* nothing.                                                                *)
LEMMA QuietRefines ==
  ASSUME IInv, NEW c \in Call, Moves(c), Quiet(c), NEW t, t = request[c].token
  PROVE  [Ledger!Next]_(Ledger!vars)
  <1>1. rows' = rows /\ outbox' = outbox /\ request' = request
    BY DEF Moves, Quiet, database
  <1>2. redeemedBar' = redeemedBar /\ ownedBar' = ownedBar /\ announcedBar' = announcedBar
    BY <1>1 DEF redeemedBar, ownedBar, announcedBar, RedeemedFor
  <1>3. \A d \in Call \ {c} : answer'[d] = answer[d]
    BY DEF Moves
  <1>4. answer[c] = "none"
    BY DEF IInv, Progress, Moves
  <1>5. CASE answer'[c] # "200"
    <2>1. confirmedBar' = confirmedBar
      BY <1>1, <1>3, <1>4, <1>5 DEF confirmedBar
    <2> QED BY <1>2, <2>1 DEF Ledger!vars, redeemedBar, ownedBar, announcedBar, confirmedBar
  <1>6. CASE answer'[c] = "200"
    <2>1. confirmedBar' = confirmedBar \cup {t}
      BY <1>1, <1>3, <1>4, <1>6 DEF confirmedBar
    <2>2. t \in {q.token : q \in Request} /\ rows[t] # None /\ t \in Key
      BY <1>6, RequestType DEF IInv, Quiet
    <2>3. redeemedBar[t] # None
      BY <2>2 DEF redeemedBar, RedeemedFor, IInv, TypeOK
    <2>4. Ledger!Confirm(t)
      BY <1>2, <2>1, <2>3 DEF Ledger!Confirm, redeemedBar, ownedBar, announcedBar, confirmedBar
    <2>5. Ledger!Next
      BY <2>2, <2>4 DEF Ledger!Next, Ledger!Tokens
    <2> QED BY <2>5
  <1> QED BY <1>5, <1>6

(* A commit redeems the token of the request.                              *)
LEMMA CommitRefines ==
  ASSUME IInv, NEW c \in Call, Moves(c), Applies(c), NEW q, q = request[c], NEW t, t = q.token
  PROVE  Ledger!Next
  <1> DEFINE Tokens == {p.token : p \in Request}
  <1>1. /\ request' = request /\ answer[c] = "none" /\ answer'[c] \in {"200", "500"}
        /\ \A d \in Call \ {c} : answer'[d] = answer[d]
    BY DEF IInv, Progress, Moves, Applies
  <1>2. /\ q \in Request /\ t \in Token /\ t \in Tokens /\ t \in Key
        /\ q.player \in Player /\ Contents(q.product) \subseteq Asset
        /\ KeysOf(q) = {t} \cup ({q.player} \X Contents(q.product))
    <2>1. q \in Request /\ q.player \in Player /\ q.product \in Product /\ t \in Token /\ t \in Key
      BY RequestType DEF IInv
    <2>2. Contents(q.product) \subseteq Asset
      BY <2>1 DEF Contents
    <2> QED BY <2>1, <2>2 DEF KeysOf
  <1>3. /\ written[c] = KeysOf(q) /\ \A k \in written[c] : rows[k] = None
        /\ <<t, q.product>> \in Valid
    BY DEF IInv, OpenTransactions, Progress, InTransaction, WrittenAt, Applies, Apply
  <1>4. /\ rows' = [k \in Key |-> IF k \in KeysOf(q) THEN c ELSE rows[k]]
        /\ outbox' = outbox \cup ({c} \X Announced(q.product))
    BY <1>3 DEF Applies, Apply
  <1>5. Tokens \subseteq Token /\ \A u \in Token : u \notin Player \X Asset
    OBVIOUS
  <1>6. rows[t] = None
    BY <1>2, <1>3
  <1> HIDE DEF Tokens
  <1>7. redeemedBar[t] = None
    BY <1>2, <1>6 DEF redeemedBar, RedeemedFor, Tokens
  <1>8. ({q.player} \X Contents(q.product)) \cap ownedBar = {}
    BY <1>2, <1>3 DEF ownedBar
  <1>9. redeemedBar' = [redeemedBar EXCEPT ![t] = q]
    <2>1. \A u \in Tokens : u # t => u \notin KeysOf(q)
      BY <1>2, <1>5
    <2>2. \A u \in Tokens : rows'[u] = IF u = t THEN c ELSE rows[u]
      BY <1>2, <1>4, <1>5, <2>1 DEF Key
    <2>3. request'[c] = q
      BY <1>1
    <2> QED BY <1>1, <1>2, <2>2, <2>3 DEF redeemedBar, RedeemedFor, Tokens
  <1>10. ownedBar' = ownedBar \cup ({q.player} \X Contents(q.product))
    <2>1. \A k \in Player \X Asset :
            k \in KeysOf(q) <=> k \in {q.player} \X Contents(q.product)
      BY <1>2, <1>5
    <2>2. \A k \in Player \X Asset : rows'[k] # None <=>
            rows[k] # None \/ k \in {q.player} \X Contents(q.product)
      BY <1>3, <1>4, <2>1 DEF Key
    <2>3. {q.player} \X Contents(q.product) \subseteq Player \X Asset
      BY <1>2
    <2> QED BY <2>2, <2>3 DEF ownedBar
  <1>11. announcedBar' = announcedBar \cup ({q} \X Announced(q.product))
    <2> DEFINE A == Announced(q.product)
               B == {<<request[e[1]], e[2]>> : e \in {c} \X A}
    <2> HIDE DEF A
    <2>1. ASSUME NEW a \in A PROVE <<q, a>> \in B
      <3> DEFINE e == <<c, a>>
      <3>1. e \in {c} \X A /\ e[1] = c /\ e[2] = a
        OBVIOUS
      <3> QED BY <3>1
    <2>2. \A x \in B : x \in {q} \X A
      OBVIOUS
    <2>3. B = {q} \X A
      BY <2>1, <2>2
    <2>4. announcedBar' = announcedBar \cup B
      BY <1>1, <1>4 DEF announcedBar, A
    <2> QED BY <2>3, <2>4 DEF A
  <1>12. CASE answer'[c] = "200"
    <2>1. confirmedBar' = confirmedBar \cup {t}
      BY <1>1, <1>12 DEF confirmedBar
    <2>2. Ledger!RedeemConfirmed(q)
      BY <1>2, <1>3, <1>7, <1>8, <1>9, <1>10, <1>11, <2>1 DEF Ledger!RedeemConfirmed, Ledger!Redeem,
        redeemedBar, ownedBar, announcedBar, confirmedBar
    <2> QED BY <1>2, <2>2 DEF Ledger!Next
  <1>13. CASE answer'[c] = "500"
    <2>1. confirmedBar' = confirmedBar
      BY <1>1, <1>13 DEF confirmedBar
    <2>2. Ledger!RedeemUnconfirmed(q)
      BY <1>2, <1>3, <1>7, <1>8, <1>9, <1>10, <1>11, <2>1 DEF Ledger!RedeemUnconfirmed,
        Ledger!Redeem, redeemedBar, ownedBar, announcedBar, confirmedBar
    <2> QED BY <1>2, <2>2 DEF Ledger!Next
  <1> QED BY <1>1, <1>12, <1>13

LEMMA InitRefines == ASSUME Init PROVE Ledger!Init
  <1>1. redeemedBar = [t \in {q.token : q \in Request} |-> None]
    BY DEF Init, redeemedBar, RedeemedFor, Key
  <1>2. ownedBar = {} /\ announcedBar = {} /\ confirmedBar = {}
    BY DEF Init, ownedBar, announcedBar, confirmedBar, Key
  <1> QED BY <1>1, <1>2
    DEF Ledger!Init, Ledger!Tokens, redeemedBar, ownedBar, announcedBar, confirmedBar

LEMMA StutterRefines == ASSUME UNCHANGED vars PROVE UNCHANGED Ledger!vars
  BY DEF vars, Ledger!vars, RedeemedFor

(* Every behaviour of the concurrent flow is one of the ledger: a token is *)
(* redeemed at most once, in one step, for a product it is valid for.      *)
THEOREM FlowKeepsLedger == Spec => KeepsLedger
  <1>1. IInv /\ [Next]_vars => [Ledger!Next]_(Ledger!vars)
    <2> SUFFICES ASSUME IInv, [Next]_vars PROVE [Ledger!Next]_(Ledger!vars)
      OBVIOUS
    <2>1. CASE Next
      <3>1. PICK c \in Call : Moves(c) /\ (Quiet(c) \/ Applies(c))
        BY <2>1, NextEffect
      <3>2. PICK q : q = request[c]
        OBVIOUS
      <3>3. PICK t : t = q.token
        OBVIOUS
      <3> QED BY <3>1, <3>2, <3>3, QuietRefines, CommitRefines
    <2>2. CASE UNCHANGED vars
      BY <2>2, StutterRefines
    <2> QED BY <2>1, <2>2
  <1> QED BY <1>1, InitRefines, SpecIInv, PTL DEF Spec, KeepsLedger, Ledger!Spec
=============================================================================
