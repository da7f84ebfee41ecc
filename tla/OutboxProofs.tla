---------------------------- MODULE OutboxProofs ----------------------------
(***************************************************************************)
(* Proofs about Outbox, for any finite set of events and of workers and    *)
(* any positive batch size, failure threshold and visibility timeout.      *)
(***************************************************************************)
EXTENDS Outbox, FiniteSetTheorems, TLAPS

(* Worker w's own bookkeeping.                                             *)
WorkerInv ==
  \A w \in Worker :
    /\ pc[w] = "idle" => claimed[w] = {}
    /\ pc[w] \in {"mark", "record"} => current[w] \in claimed[w]
    /\ \A e \in claimed[w] : txn[e] = "committed"
    /\ pc[w] = "mark" => delivered[current[w]] >= 1
    /\ pc[w] = "record" /\ seen[w][current[w]] + 1 >= FailureThreshold
         => current[w] \in reported

(* The lease: a row a worker holds was last touched at its claim or later, *)
(* and both holders of a shared row cannot be within their lease.          *)
LeaseInv ==
  /\ \A w \in Worker : \A e \in claimed[w] :
       /\ age[e] <= leaseAge[w]
       /\ leaseAge[w] > VisibilityTimeout => e \in overrun
  /\ \A v, w \in Worker : \A e \in claimed[v] \cap claimed[w] :
       v # w => leaseAge[v] > VisibilityTimeout \/ leaseAge[w] > VisibilityTimeout

(* What the table says of a row nobody overran.                            *)
RowInv ==
  /\ \A e \in Event : delivered[e] >= 1 => txn[e] = "committed"
  /\ \A e \in published : delivered[e] >= 1
  /\ \A w \in Worker : \A e \in claimed[w] \ overrun :
       /\ e \notin published
       /\ seen[w][e] = failureCount[e]
  /\ DeadIsReported
  /\ PublishedRowIsClean

(* A clean event has one copy at the topic at most, and that copy is       *)
(* recorded or about to be.                                                *)
CopyInv ==
  \A e \in Event \ (overrun \cup ambiguous) :
    /\ delivered[e] <= 1
    /\ delivered[e] = 1 =>
         \/ e \in published
         \/ \E w \in Worker : pc[w] = "mark" /\ current[w] = e

Holders(e) == {w \in Worker : e \in claimed[w]}

(* Every failure a holder may still record is already accounted for.       *)
CountInv ==
  \A e \in Event :
    failureCount[e] + Cardinality(Holders(e)) + 1
      <= FailureThreshold + Cardinality(Worker)

IInv == TypeOK /\ WorkerInv /\ LeaseInv /\ RowInv /\ CopyInv

-----------------------------------------------------------------------------
USE OutboxAssumption DEF OutboxAssumption

LEMMA InitIInv == Init => IInv
  BY DEF Init, IInv, TypeOK, WorkerInv, LeaseInv, RowInv, CopyInv,
         DeadIsReported, PublishedRowIsClean, Dead, Expired

(* FinishRow keeps the worker's variables in their types.                  *)
LEMMA FinishRowType ==
  ASSUME TypeOK, NEW w \in Worker, FinishRow(w)
  PROVE  /\ pc' \in [Worker -> {"idle", "loop", "mark", "record"}]
         /\ claimed' \in [Worker -> SUBSET Event]
         /\ current' \in [Worker -> Event \cup {None}]
         /\ leaseAge' \in [Worker -> 0 .. Expired]
         /\ seen' \in [Worker -> [Event -> Nat]]
<1> DEFINE mine == [seen[w] EXCEPT ![current[w]] = 0]
<1>1. mine \in [Event -> Nat]
  BY DEF TypeOK
<1>2. seen' = [seen EXCEPT ![w] = mine]
  BY DEF FinishRow
<1>3. seen' \in [Worker -> [Event -> Nat]]
  <2> HIDE DEF mine
  <2> QED BY <1>1, <1>2 DEF TypeOK
<1> QED BY <1>3 DEF TypeOK, FinishRow, Expired

LEMMA TypeStep == TypeOK /\ WorkerInv /\ [Next]_vars => TypeOK'
<1> SUFFICES ASSUME TypeOK, WorkerInv, [Next]_vars PROVE TypeOK'
  OBVIOUS
<1> USE DEF TypeOK, tableVars, workerVars, outsideVars, historyVars
<1>1. ASSUME NEW S \in SUBSET Event, WriteOutboxEvents(S) PROVE TypeOK'
  <2>1. Cardinality({e \in Event : txn[e] # "none"}) \in Nat
    BY FS_Subset, FS_CardinalityType
  <2> QED BY <1>1, <2>1 DEF WriteOutboxEvents
<1>2. ASSUME NEW e \in Event, NEW o \in {"committed", "aborted"}, EndTx(e, o)
      PROVE  TypeOK'
  BY <1>2 DEF EndTx
<1>3. ASSUME NEW w \in Worker, ClaimUnpublished(w) PROVE TypeOK'
  <2>1. PICK S \in SUBSET Event :
          /\ claimed' = [claimed EXCEPT ![w] = S]
          /\ seen' = [seen EXCEPT ![w] =
                        [e \in Event |-> IF e \in S THEN failureCount[e] ELSE 0]]
          /\ age' = [e \in Event |-> IF e \in S THEN 0 ELSE age[e]]
    BY <1>3 DEF ClaimUnpublished, Claimable
  <2> QED BY <1>3, <2>1 DEF ClaimUnpublished, Expired
<1>4. ASSUME NEW w \in Worker, NEW e \in Event, PublishOk(w, e) PROVE TypeOK'
  BY <1>4 DEF PublishOk
<1>5. ASSUME NEW w \in Worker, NEW e \in Event, NEW r \in BOOLEAN, PublishError(w, e, r)
      PROVE  TypeOK'
  BY <1>5 DEF PublishError
<1>6. ASSUME NEW w \in Worker, MarkPublished(w) PROVE TypeOK'
  BY <1>6, FinishRowType DEF MarkPublished, WorkerInv, Expired
<1>7. ASSUME NEW w \in Worker, RecordFailure(w) PROVE TypeOK'
  BY <1>7, FinishRowType DEF RecordFailure, WorkerInv, Expired
<1>8. ASSUME NEW w \in Worker, SettleError(w) PROVE TypeOK'
  BY <1>8, FinishRowType DEF SettleError, WorkerInv
<1>9. ASSUME NEW w \in Worker, Crash(w) PROVE TypeOK'
  BY <1>9 DEF Crash, WorkerInv, Expired
<1>10. CASE Tick
  BY <1>10 DEF Tick, Older, Expired
<1>11. CASE UNCHANGED vars
  BY <1>11 DEF vars
<1> QED
  BY <1>1, <1>2, <1>3, <1>4, <1>5, <1>6, <1>7, <1>8, <1>9, <1>10, <1>11
     DEF Next, RelayStep

(* What FinishRow does to the worker, and that it leaves the others alone. *)
LEMMA FinishRowEffect ==
  ASSUME TypeOK, WorkerInv, NEW w \in Worker, pc[w] \in {"mark", "record"}, FinishRow(w)
  PROVE  /\ current[w] \in Event
         /\ claimed'[w] = claimed[w] \ {current[w]}
         /\ pc'[w] \in {"idle", "loop"}
         /\ pc'[w] = "idle" => claimed'[w] = {}
         /\ claimed'[w] # {} => leaseAge'[w] = leaseAge[w]
         /\ \A e \in claimed'[w] : seen'[w][e] = seen[w][e]
         /\ \A v \in Worker \ {w} :
              /\ claimed'[v] = claimed[v] /\ pc'[v] = pc[v]
              /\ current'[v] = current[v] /\ seen'[v] = seen[v]
              /\ leaseAge'[v] = leaseAge[v]
<1>1. current[w] \in claimed[w] /\ current[w] \in Event
  BY DEF WorkerInv, TypeOK
<1> QED BY <1>1 DEF TypeOK, FinishRow

(* The same for a claim; S is the batch.                                   *)
LEMMA ClaimEffect ==
  ASSUME TypeOK, NEW w \in Worker, ClaimUnpublished(w)
  PROVE  \E S \in SUBSET Claimable :
           /\ claimed'[w] = S
           /\ pc'[w] = "loop" /\ leaseAge'[w] = 0
           /\ \A e \in S : seen'[w][e] = failureCount[e]
           /\ \A e \in Event : age'[e] = IF e \in S THEN 0 ELSE age[e]
           /\ \A v \in Worker \ {w} :
                /\ claimed'[v] = claimed[v] /\ pc'[v] = pc[v]
                /\ seen'[v] = seen[v] /\ leaseAge'[v] = leaseAge[v]
<1>1. PICK S \in SUBSET Claimable :
        /\ claimed' = [claimed EXCEPT ![w] = S]
        /\ seen' = [seen EXCEPT ![w] =
                      [e \in Event |-> IF e \in S THEN failureCount[e] ELSE 0]]
        /\ age' = [e \in Event |-> IF e \in S THEN 0 ELSE age[e]]
  BY DEF ClaimUnpublished
<1>2. S \subseteq Event
  BY DEF Claimable
<1>3. \A e \in S : seen'[w][e] = failureCount[e]
  BY <1>1, <1>2 DEF TypeOK
<1> WITNESS S \in SUBSET Claimable
<1> QED BY <1>1, <1>3 DEF ClaimUnpublished, TypeOK

LEMMA WorkerStep == TypeOK /\ WorkerInv /\ [Next]_vars => WorkerInv'
<1> SUFFICES ASSUME TypeOK, WorkerInv, [Next]_vars PROVE WorkerInv'
  OBVIOUS
<1> USE DEF tableVars, workerVars, outsideVars, historyVars
<1>1. ASSUME NEW S \in SUBSET Event, WriteOutboxEvents(S) PROVE WorkerInv'
  BY <1>1 DEF WriteOutboxEvents, WorkerInv, TypeOK
<1>2. ASSUME NEW e \in Event, NEW o \in {"committed", "aborted"}, EndTx(e, o)
      PROVE  WorkerInv'
  BY <1>2 DEF EndTx, SameTx, WorkerInv, TypeOK
<1>3. ASSUME NEW w \in Worker, ClaimUnpublished(w) PROVE WorkerInv'
  BY <1>3, ClaimEffect DEF ClaimUnpublished, Claimable, WorkerInv, TypeOK
<1>4. ASSUME NEW w \in Worker, NEW e \in Event, PublishOk(w, e) PROVE WorkerInv'
  BY <1>4 DEF PublishOk, WorkerInv, TypeOK
<1>5. ASSUME NEW w \in Worker, NEW e \in Event, NEW r \in BOOLEAN, PublishError(w, e, r)
      PROVE  WorkerInv'
  BY <1>5 DEF PublishError, WorkerInv, TypeOK
<1>6. ASSUME NEW w \in Worker, MarkPublished(w) PROVE WorkerInv'
  BY <1>6, FinishRowEffect DEF MarkPublished, WorkerInv, TypeOK
<1>7. ASSUME NEW w \in Worker, RecordFailure(w) PROVE WorkerInv'
  BY <1>7, FinishRowEffect DEF RecordFailure, WorkerInv, TypeOK
<1>8. ASSUME NEW w \in Worker, SettleError(w) PROVE WorkerInv'
  <2>1. FinishRow(w) /\ pc[w] \in {"mark", "record"}
    BY <1>8 DEF SettleError
  <2>2. UNCHANGED <<txn, delivered, reported>>
    BY <1>8 DEF SettleError
  <2> QED BY <2>1, <2>2, FinishRowEffect DEF WorkerInv, TypeOK
<1>9. ASSUME NEW w \in Worker, Crash(w) PROVE WorkerInv'
  BY <1>9 DEF Crash, WorkerInv, TypeOK
<1>10. CASE Tick
  BY <1>10 DEF Tick, WorkerInv
<1>11. CASE UNCHANGED vars
  BY <1>11 DEF vars, WorkerInv
<1> QED
  BY <1>1, <1>2, <1>3, <1>4, <1>5, <1>6, <1>7, <1>8, <1>9, <1>10, <1>11
     DEF Next, RelayStep

(* Working off a row can only release rows and make a row younger.         *)
LEMMA LeaseAfterFinish ==
  ASSUME TypeOK, WorkerInv, LeaseInv,
         NEW w \in Worker, pc[w] \in {"mark", "record"}, FinishRow(w),
         age' = age \/ age' = [age EXCEPT ![current[w]] = 0],
         overrun' = overrun
  PROVE  LeaseInv'
<1>1. \A v \in Worker :
        /\ claimed'[v] \subseteq claimed[v]
        /\ claimed'[v] # {} => leaseAge'[v] = leaseAge[v]
  BY FinishRowEffect
<1>2. \A e \in Event : age'[e] <= age[e]
  BY DEF TypeOK, Expired
<1>3. \A v \in Worker : leaseAge[v] \in Nat /\ claimed[v] \subseteq Event
  BY DEF TypeOK, Expired
<1>4. \A e \in Event : age[e] \in Nat /\ age'[e] \in Nat
  BY DEF TypeOK, Expired
<1> QED BY <1>1, <1>2, <1>3, <1>4 DEF LeaseInv

LEMMA LeaseAfterTick ==
  ASSUME TypeOK, WorkerInv, LeaseInv, Tick
  PROVE  LeaseInv'
<1>1. Expired \in Nat
  BY DEF Expired
<1>2. \A t \in 0 .. Expired :
        /\ t \in Nat /\ Older(t) \in Nat /\ t <= Older(t)
        /\ Older(t) > VisibilityTimeout => Older(t) = Expired
        /\ \A u \in 0 .. Expired : t <= u => Older(t) <= Older(u)
  BY DEF Older, Expired
<1>3. claimed' = claimed /\ overrun \subseteq overrun'
  BY DEF Tick, workerVars
<1>4. \A e \in Event : age[e] \in 0 .. Expired /\ age'[e] = Older(age[e])
  BY DEF Tick, TypeOK
<1>5. \A v \in Worker : claimed[v] # {} =>
        /\ leaseAge[v] \in 0 .. Expired
        /\ leaseAge'[v] = Older(leaseAge[v])
        /\ Older(leaseAge[v]) = Expired => claimed[v] \subseteq overrun'
  BY DEF Tick, TypeOK, WorkerInv
<1>6. ASSUME NEW v \in Worker, NEW e \in claimed[v]
      PROVE  /\ age'[e] <= leaseAge'[v]
             /\ leaseAge'[v] > VisibilityTimeout => e \in overrun'
  <2>1. e \in Event /\ claimed[v] # {} /\ age[e] <= leaseAge[v]
    BY DEF TypeOK, LeaseInv
  <2> QED BY <1>2, <1>4, <1>5, <2>1
<1>7. ASSUME NEW v \in Worker, NEW w \in Worker, v # w,
             NEW e \in claimed[v] \cap claimed[w]
      PROVE  leaseAge'[v] > VisibilityTimeout \/ leaseAge'[w] > VisibilityTimeout
  <2>1. leaseAge[v] > VisibilityTimeout \/ leaseAge[w] > VisibilityTimeout
    BY <1>7 DEF LeaseInv
  <2>2. /\ leaseAge[v] \in 0 .. Expired /\ leaseAge'[v] = Older(leaseAge[v])
        /\ leaseAge[w] \in 0 .. Expired /\ leaseAge'[w] = Older(leaseAge[w])
    BY <1>5
  <2>3. /\ leaseAge[v] \in Nat /\ leaseAge'[v] \in Nat /\ leaseAge[v] <= leaseAge'[v]
        /\ leaseAge[w] \in Nat /\ leaseAge'[w] \in Nat /\ leaseAge[w] <= leaseAge'[w]
    BY <1>2, <2>2
  <2> QED BY <2>1, <2>3
<1> QED BY <1>3, <1>6, <1>7 DEF LeaseInv

LEMMA LeaseStep == TypeOK /\ WorkerInv /\ LeaseInv /\ [Next]_vars => LeaseInv'
<1> SUFFICES ASSUME TypeOK, WorkerInv, LeaseInv, [Next]_vars PROVE LeaseInv'
  OBVIOUS
<1> USE DEF tableVars, workerVars, outsideVars, historyVars
<1>1. ASSUME NEW S \in SUBSET Event, WriteOutboxEvents(S) PROVE LeaseInv'
  BY <1>1 DEF WriteOutboxEvents, LeaseInv
<1>2. ASSUME NEW e \in Event, NEW o \in {"committed", "aborted"}, EndTx(e, o)
      PROVE  LeaseInv'
  BY <1>2 DEF EndTx, LeaseInv
<1>3. ASSUME NEW w \in Worker, ClaimUnpublished(w) PROVE LeaseInv'
  BY <1>3, ClaimEffect DEF ClaimUnpublished, Claimable, LeaseInv, TypeOK, Expired
<1>4. ASSUME NEW w \in Worker, NEW e \in Event, PublishOk(w, e) PROVE LeaseInv'
  BY <1>4 DEF PublishOk, LeaseInv
<1>5. ASSUME NEW w \in Worker, NEW e \in Event, NEW r \in BOOLEAN, PublishError(w, e, r)
      PROVE  LeaseInv'
  BY <1>5 DEF PublishError, LeaseInv
<1>6. ASSUME NEW w \in Worker, MarkPublished(w) PROVE LeaseInv'
  BY <1>6, LeaseAfterFinish DEF MarkPublished
<1>7. ASSUME NEW w \in Worker, RecordFailure(w) PROVE LeaseInv'
  BY <1>7, LeaseAfterFinish DEF RecordFailure
<1>8. ASSUME NEW w \in Worker, SettleError(w) PROVE LeaseInv'
  BY <1>8, LeaseAfterFinish DEF SettleError
<1>9. ASSUME NEW w \in Worker, Crash(w) PROVE LeaseInv'
  BY <1>9 DEF Crash, LeaseInv, TypeOK
<1>10. CASE Tick
  BY <1>10, LeaseAfterTick
<1>11. CASE UNCHANGED vars
  BY <1>11 DEF vars, LeaseInv
<1> QED
  BY <1>1, <1>2, <1>3, <1>4, <1>5, <1>6, <1>7, <1>8, <1>9, <1>10, <1>11
     DEF Next, RelayStep

(* Two holders of one row: somebody overran.                               *)
LEMMA SharedIsOverrun ==
  ASSUME LeaseInv, NEW v \in Worker, NEW w \in Worker, v # w,
         NEW e \in claimed[v] \cap claimed[w]
  PROVE  e \in overrun
  BY DEF LeaseInv

LEMMA RowStep == IInv /\ [Next]_vars => RowInv'
<1> SUFFICES ASSUME TypeOK, WorkerInv, LeaseInv, RowInv, [Next]_vars PROVE RowInv'
  BY DEF IInv
<1> USE DEF tableVars, workerVars, outsideVars, historyVars,
            RowInv, DeadIsReported, PublishedRowIsClean, Dead
<1>1. ASSUME NEW S \in SUBSET Event, WriteOutboxEvents(S) PROVE RowInv'
  BY <1>1 DEF WriteOutboxEvents, TypeOK
<1>2. ASSUME NEW e \in Event, NEW o \in {"committed", "aborted"}, EndTx(e, o)
      PROVE  RowInv'
  BY <1>2 DEF EndTx, SameTx, TypeOK
<1>3. ASSUME NEW w \in Worker, ClaimUnpublished(w) PROVE RowInv'
  BY <1>3, ClaimEffect DEF ClaimUnpublished, Claimable, TypeOK
<1>4. ASSUME NEW w \in Worker, NEW e \in Event, PublishOk(w, e) PROVE RowInv'
  BY <1>4 DEF PublishOk, WorkerInv, TypeOK
<1>5. ASSUME NEW w \in Worker, NEW e \in Event, NEW r \in BOOLEAN, PublishError(w, e, r)
      PROVE  RowInv'
  BY <1>5 DEF PublishError, WorkerInv, TypeOK
<1>6. ASSUME NEW w \in Worker, MarkPublished(w) PROVE RowInv'
  <2>1. /\ pc[w] = "mark" /\ FinishRow(w)
        /\ published' = published \cup {current[w]}
        /\ lastError' = lastError \ {current[w]}
        /\ UNCHANGED <<txn, failureCount, delivered, reported, overrun>>
    BY <1>6 DEF MarkPublished
  <2>2. current[w] \in claimed[w] /\ delivered[current[w]] >= 1
    BY <2>1 DEF WorkerInv
  <2>3. ASSUME NEW v \in Worker, NEW e \in claimed'[v] \ overrun
        PROVE  e \notin published' /\ seen'[v][e] = failureCount'[e]
    BY <2>1, <2>2, FinishRowEffect, SharedIsOverrun
  <2> QED BY <2>1, <2>2, <2>3
<1>7. ASSUME NEW w \in Worker, RecordFailure(w) PROVE RowInv'
  <2>1. /\ pc[w] = "record" /\ FinishRow(w)
        /\ failureCount' = [failureCount EXCEPT ![current[w]] = @ + 1]
        /\ lastError' = lastError \cup {current[w]}
        /\ UNCHANGED <<txn, published, delivered, reported, overrun>>
    BY <1>7 DEF RecordFailure
  <2>2. current[w] \in claimed[w] /\ current[w] \in Event
    BY <2>1 DEF WorkerInv, TypeOK
  <2>3. ASSUME NEW v \in Worker, NEW e \in claimed'[v] \ overrun
        PROVE  e \notin published' /\ seen'[v][e] = failureCount'[e]
    <3>1. e \in claimed[v] /\ e # current[w]
      BY <2>1, <2>2, FinishRowEffect, SharedIsOverrun
    <3>2. e \in Event /\ seen'[v][e] = seen[v][e]
      BY <2>1, <3>1, FinishRowEffect DEF TypeOK
    <3> QED BY <2>1, <3>1, <3>2 DEF TypeOK
  <2>4. ASSUME NEW e \in Event, Dead(e)', e \notin overrun PROVE e \in reported
    <3>1. CASE e = current[w]
      BY <2>1, <2>2, <2>4, <3>1 DEF WorkerInv, TypeOK
    <3>2. CASE e # current[w]
      BY <2>1, <2>4, <3>2 DEF TypeOK
    <3> QED BY <3>1, <3>2
  <2>5. current[w] \in published => current[w] \in overrun
    BY <2>2
  <2> QED BY <2>1, <2>3, <2>4, <2>5
<1>8. ASSUME NEW w \in Worker, SettleError(w) PROVE RowInv'
  <2>1. /\ pc[w] \in {"mark", "record"} /\ FinishRow(w)
        /\ UNCHANGED <<txn, published, failureCount, lastError, delivered,
                       reported, overrun>>
    BY <1>8 DEF SettleError
  <2>2. \A v \in Worker : \A e \in claimed'[v] :
          e \in claimed[v] /\ seen'[v][e] = seen[v][e]
    BY <2>1, FinishRowEffect
  <2> QED BY <2>1, <2>2
<1>9. ASSUME NEW w \in Worker, Crash(w) PROVE RowInv'
  <2>1. /\ claimed'[w] = {}
        /\ \A v \in Worker \ {w} : claimed'[v] = claimed[v] /\ seen'[v] = seen[v]
        /\ UNCHANGED <<txn, published, failureCount, lastError, delivered,
                       reported, overrun>>
    BY <1>9 DEF Crash, TypeOK
  <2> QED BY <2>1
<1>10. CASE Tick
  BY <1>10 DEF Tick
<1>11. CASE UNCHANGED vars
  BY <1>11 DEF vars
<1> QED
  BY <1>1, <1>2, <1>3, <1>4, <1>5, <1>6, <1>7, <1>8, <1>9, <1>10, <1>11
     DEF Next, RelayStep

LEMMA CopyStep == IInv /\ [Next]_vars => CopyInv'
<1> SUFFICES ASSUME TypeOK, WorkerInv, LeaseInv, RowInv, CopyInv, [Next]_vars
             PROVE  CopyInv'
  BY DEF IInv
<1> USE DEF tableVars, workerVars, outsideVars, historyVars, CopyInv
<1>1. ASSUME NEW S \in SUBSET Event, WriteOutboxEvents(S) PROVE CopyInv'
  BY <1>1 DEF WriteOutboxEvents
<1>2. ASSUME NEW e \in Event, NEW o \in {"committed", "aborted"}, EndTx(e, o)
      PROVE  CopyInv'
  BY <1>2 DEF EndTx
<1>3. ASSUME NEW w \in Worker, ClaimUnpublished(w) PROVE CopyInv'
  <2>1. /\ pc[w] = "idle" /\ pc' = [pc EXCEPT ![w] = "loop"]
        /\ UNCHANGED <<published, current, delivered, overrun, ambiguous>>
    BY <1>3 DEF ClaimUnpublished
  <2> QED BY <2>1 DEF TypeOK
<1>4. ASSUME NEW w \in Worker, NEW e \in Event, PublishOk(w, e) PROVE CopyInv'
  <2>1. /\ pc[w] = "loop" /\ e \in claimed[w]
        /\ delivered' = [delivered EXCEPT ![e] = @ + 1]
        /\ pc' = [pc EXCEPT ![w] = "mark"] /\ current' = [current EXCEPT ![w] = e]
        /\ UNCHANGED <<published, overrun, ambiguous>>
    BY <1>4 DEF PublishOk
  <2>2. e \notin overrun \cup ambiguous => delivered[e] = 0
    <3> SUFFICES ASSUME e \notin overrun \cup ambiguous, delivered[e] # 0 PROVE FALSE
      OBVIOUS
    <3> DEFINE copies == delivered[e]
    <3>1. e \notin published
      BY <2>1 DEF RowInv
    <3>2. copies \in Nat /\ copies <= 1 /\ copies # 0
      BY DEF TypeOK
    <3>3. PICK v \in Worker : pc[v] = "mark" /\ current[v] = e
      BY <3>1, <3>2
    <3>4. v # w /\ e \in claimed[v]
      BY <2>1, <3>3 DEF WorkerInv
    <3> QED BY <2>1, <3>4, SharedIsOverrun
  <2>3. pc'[w] = "mark" /\ current'[w] = e /\ delivered'[e] = delivered[e] + 1
    BY <2>1 DEF TypeOK
  <2>4. \A v \in Worker : pc[v] = "mark" =>
          pc'[v] = "mark" /\ current'[v] = current[v]
    BY <2>1 DEF TypeOK
  <2>5. \A f \in Event : f # e => delivered'[f] = delivered[f]
    BY <2>1 DEF TypeOK
  <2> QED BY <2>1, <2>2, <2>3, <2>4, <2>5
<1>5. ASSUME NEW w \in Worker, NEW e \in Event, NEW r \in BOOLEAN, PublishError(w, e, r)
      PROVE  CopyInv'
  <2>1. /\ pc[w] = "loop" /\ UNCHANGED <<published, overrun>>
        /\ delivered' = [delivered EXCEPT ![e] = IF r THEN @ + 1 ELSE @]
        /\ ambiguous' = IF r THEN ambiguous \cup {e} ELSE ambiguous
        /\ pc' = [pc EXCEPT ![w] = "record"] /\ current' = [current EXCEPT ![w] = e]
    BY <1>5 DEF PublishError
  <2>2. \A v \in Worker : pc[v] = "mark" =>
          pc'[v] = "mark" /\ current'[v] = current[v]
    BY <2>1 DEF TypeOK
  <2>3. \A f \in Event \ (overrun' \cup ambiguous') :
          delivered'[f] = delivered[f] /\ f \notin overrun \cup ambiguous
    BY <2>1 DEF TypeOK
  <2> QED BY <2>1, <2>2, <2>3
<1>6. ASSUME NEW w \in Worker, MarkPublished(w) PROVE CopyInv'
  <2>1. /\ pc[w] = "mark" /\ FinishRow(w)
        /\ published' = published \cup {current[w]}
        /\ UNCHANGED <<delivered, overrun, ambiguous>>
    BY <1>6 DEF MarkPublished
  <2> QED BY <2>1, FinishRowEffect
<1>7. ASSUME NEW w \in Worker, RecordFailure(w) PROVE CopyInv'
  <2>1. /\ pc[w] = "record" /\ FinishRow(w)
        /\ UNCHANGED <<published, delivered, overrun, ambiguous>>
    BY <1>7 DEF RecordFailure
  <2> QED BY <2>1, FinishRowEffect
<1>8. ASSUME NEW w \in Worker, SettleError(w) PROVE CopyInv'
  <2>1. /\ pc[w] \in {"mark", "record"} /\ FinishRow(w)
        /\ ambiguous' = IF pc[w] = "mark" THEN ambiguous \cup {current[w]}
                        ELSE ambiguous
        /\ UNCHANGED <<published, delivered, overrun>>
    BY <1>8 DEF SettleError
  <2> QED BY <2>1, FinishRowEffect
<1>9. ASSUME NEW w \in Worker, Crash(w) PROVE CopyInv'
  <2>1. /\ ambiguous' = IF pc[w] = "mark" THEN ambiguous \cup {current[w]}
                        ELSE ambiguous
        /\ \A v \in Worker \ {w} : pc'[v] = pc[v] /\ current'[v] = current[v]
        /\ UNCHANGED <<published, delivered, overrun>>
    BY <1>9 DEF Crash, TypeOK
  <2> QED BY <2>1
<1>10. CASE Tick
  BY <1>10 DEF Tick
<1>11. CASE UNCHANGED vars
  BY <1>11 DEF vars
<1> QED
  BY <1>1, <1>2, <1>3, <1>4, <1>5, <1>6, <1>7, <1>8, <1>9, <1>10, <1>11
     DEF Next, RelayStep

-----------------------------------------------------------------------------
(* The invariant is inductive.                                             *)
LEMMA NextIInv == IInv /\ [Next]_vars => IInv'
  BY TypeStep, WorkerStep, LeaseStep, RowStep, CopyStep DEF IInv

LEMMA SpecIInv == Spec => []IInv
  BY InitIInv, NextIInv, PTL DEF Spec

(* Every variable has its type: in particular failure_count never goes     *)
(* below zero and a worker never works on a row that does not exist.       *)
THEOREM OutboxTypeCorrect == Spec => []TypeOK
<1>1. IInv => TypeOK
  BY DEF IInv
<1> QED BY <1>1, SpecIInv, PTL

(* Two workers within their leases never hold the same row.                *)
THEOREM LeasesAreExclusive == Spec => []LeaseExclusive
<1>1. IInv => LeaseExclusive
  BY DEF IInv, LeaseInv, LeaseExclusive, Held
<1> QED BY <1>1, SpecIInv, PTL

(* A second copy of an event at the topic has a recorded reason.           *)
THEOREM EveryDuplicateIsExplained == Spec => []DuplicatesAreExplained
<1>1. ASSUME IInv PROVE DuplicatesAreExplained
  <2> SUFFICES ASSUME NEW e \in Event, delivered[e] >= 2, e \notin overrun \cup ambiguous
               PROVE  FALSE
    BY DEF DuplicatesAreExplained
  <2>1. delivered[e] <= 1 /\ delivered[e] \in Nat
    BY <1>1 DEF IInv, CopyInv, TypeOK
  <2> QED BY <2>1
<1> QED BY <1>1, SpecIInv, PTL

(* An event the claim no longer takes has been reported, or was overrun.   *)
THEOREM EveryDeadEventIsReported == Spec => []DeadIsReported
<1>1. IInv => DeadIsReported
  BY DEF IInv, RowInv
<1> QED BY <1>1, SpecIInv, PTL

(* Only an overrun puts an error back on a published row.                  *)
THEOREM PublishedRowsAreClean == Spec => []PublishedRowIsClean
<1>1. IInv => PublishedRowIsClean
  BY DEF IInv, RowInv
<1> QED BY <1>1, SpecIInv, PTL

-----------------------------------------------------------------------------
(* The bound on failure_count.                                             *)

LEMMA HoldersFinite ==
  ASSUME NEW e \in Event
  PROVE  IsFiniteSet(Holders(e)) /\ Cardinality(Holders(e)) \in Nat
  BY FS_Subset, FS_CardinalityType DEF Holders

(* A step that adds no holder and records no failure keeps the count.      *)
LEMMA CountKept ==
  ASSUME TypeOK, NEW e \in Event, Holders(e)' \subseteq Holders(e),
         failureCount'[e] = failureCount[e],
         failureCount[e] + Cardinality(Holders(e)) + 1
           <= FailureThreshold + Cardinality(Worker)
  PROVE  failureCount'[e] + Cardinality(Holders(e)') + 1
           <= FailureThreshold + Cardinality(Worker)
<1>1. /\ Cardinality(Holders(e)') <= Cardinality(Holders(e))
      /\ Cardinality(Holders(e)') \in Nat /\ Cardinality(Holders(e)) \in Nat
  BY HoldersFinite, FS_Subset, FS_CardinalityType
<1>2. Cardinality(Worker) \in Nat /\ failureCount[e] \in Nat
  BY FS_CardinalityType DEF TypeOK
<1> QED BY <1>1, <1>2

LEMMA CountStep == TypeOK /\ WorkerInv /\ CountInv /\ [Next]_vars => CountInv'
<1> SUFFICES ASSUME TypeOK, WorkerInv, CountInv, [Next]_vars, NEW e \in Event
             PROVE  failureCount'[e] + Cardinality(Holders(e)') + 1
                      <= FailureThreshold + Cardinality(Worker)
  BY DEF CountInv, Holders
<1> USE DEF tableVars, workerVars, outsideVars, historyVars
<1>1. ASSUME claimed' = claimed, failureCount' = failureCount
      PROVE  failureCount'[e] + Cardinality(Holders(e)') + 1
               <= FailureThreshold + Cardinality(Worker)
  BY <1>1, CountKept DEF CountInv, Holders
<1>2. ASSUME NEW w \in Worker, ClaimUnpublished(w)
      PROVE  failureCount'[e] + Cardinality(Holders(e)') + 1
               <= FailureThreshold + Cardinality(Worker)
  <2>1. PICK S \in SUBSET Claimable : claimed' = [claimed EXCEPT ![w] = S]
    BY <1>2 DEF ClaimUnpublished
  <2>2. failureCount' = failureCount
    BY <1>2 DEF ClaimUnpublished
  <2>3. CASE e \in S
    <3>1. failureCount[e] < FailureThreshold /\ failureCount[e] \in Nat
      BY <2>3 DEF Claimable, TypeOK
    <3>2. Holders(e)' \subseteq Worker
      BY DEF Holders
    <3>3. /\ Cardinality(Holders(e)') <= Cardinality(Worker)
          /\ Cardinality(Holders(e)') \in Nat /\ Cardinality(Worker) \in Nat
      BY <3>2, FS_Subset, FS_CardinalityType
    <3> QED BY <2>2, <3>1, <3>3
  <2>4. CASE e \notin S
    <3>1. Holders(e)' \subseteq Holders(e)
      BY <2>1, <2>4 DEF Holders, TypeOK
    <3> QED BY <2>2, <3>1, CountKept DEF CountInv
  <2> QED BY <2>3, <2>4
<1>3. ASSUME NEW w \in Worker, pc[w] \in {"mark", "record"}, FinishRow(w)
      PROVE  /\ Holders(e)' \subseteq Holders(e)
             /\ e = current[w] => Holders(e)' = Holders(e) \ {w} /\ w \in Holders(e)
  BY <1>3, FinishRowEffect DEF Holders, WorkerInv
<1>4. ASSUME NEW w \in Worker, MarkPublished(w) \/ SettleError(w)
      PROVE  failureCount'[e] + Cardinality(Holders(e)') + 1
               <= FailureThreshold + Cardinality(Worker)
  <2>1. pc[w] \in {"mark", "record"} /\ FinishRow(w) /\ failureCount' = failureCount
    BY <1>4 DEF MarkPublished, SettleError
  <2> QED BY <1>3, <2>1, CountKept DEF CountInv
<1>5. ASSUME NEW w \in Worker, RecordFailure(w)
      PROVE  failureCount'[e] + Cardinality(Holders(e)') + 1
               <= FailureThreshold + Cardinality(Worker)
  <2>1. /\ pc[w] = "record" /\ FinishRow(w)
        /\ failureCount' = [failureCount EXCEPT ![current[w]] = @ + 1]
    BY <1>5 DEF RecordFailure
  <2>2. CASE e = current[w]
    <3>1. failureCount'[e] = failureCount[e] + 1 /\ failureCount[e] \in Nat
      BY <2>1, <2>2 DEF TypeOK
    <3>2. Holders(e)' = Holders(e) \ {w} /\ w \in Holders(e)
      BY <1>3, <2>1, <2>2
    <3>3. Cardinality(Holders(e)') = Cardinality(Holders(e)) - 1
      BY <3>2, HoldersFinite, FS_RemoveElement
    <3>4. Cardinality(Holders(e)) \in Nat /\ Cardinality(Worker) \in Nat
      BY HoldersFinite, FS_CardinalityType
    <3> QED BY <3>1, <3>3, <3>4 DEF CountInv
  <2>3. CASE e # current[w]
    <3>1. failureCount'[e] = failureCount[e]
      BY <2>1, <2>3 DEF TypeOK
    <3> QED BY <1>3, <2>1, <3>1, CountKept DEF CountInv
  <2> QED BY <2>2, <2>3
<1>6. ASSUME NEW w \in Worker, Crash(w)
      PROVE  failureCount'[e] + Cardinality(Holders(e)') + 1
               <= FailureThreshold + Cardinality(Worker)
  <2>1. Holders(e)' \subseteq Holders(e) /\ failureCount' = failureCount
    BY <1>6 DEF Crash, Holders, TypeOK
  <2> QED BY <2>1, CountKept DEF CountInv
<1> QED
  BY <1>1, <1>2, <1>4, <1>5, <1>6
     DEF Next, RelayStep, WriteOutboxEvents, EndTx, PublishOk, PublishError, Tick, vars

LEMMA SpecCountInv == Spec => []CountInv
<1>1. Init => CountInv
  <2> SUFFICES ASSUME Init, NEW e \in Event
               PROVE  failureCount[e] + Cardinality(Holders(e)) + 1
                        <= FailureThreshold + Cardinality(Worker)
    BY DEF CountInv
  <2>1. Holders(e) = {} /\ failureCount[e] = 0
    BY DEF Init, Holders
  <2>2. Cardinality(Holders(e)) = 0 /\ Cardinality(Worker) \in Nat
    BY <2>1, FS_EmptySet, FS_CardinalityType
  <2> QED BY <2>1, <2>2
<1>2. IInv => TypeOK /\ WorkerInv
  BY DEF IInv
<1> QED BY <1>1, <1>2, SpecIInv, CountStep, PTL DEF Spec

(* failure_count stops at the threshold plus the failures other workers    *)
(* were about to record when it was reached.                               *)
THEOREM FailuresAreBounded == Spec => []FailureBound
<1>1. CountInv /\ TypeOK => FailureBound
  <2> SUFFICES ASSUME CountInv, TypeOK, NEW e \in Event
               PROVE  failureCount[e] + 1 <= FailureThreshold + Cardinality(Worker)
    BY DEF FailureBound
  <2>1. /\ Cardinality(Holders(e)) \in Nat /\ Cardinality(Worker) \in Nat
        /\ failureCount[e] \in Nat
    BY HoldersFinite, FS_CardinalityType DEF TypeOK
  <2> QED BY <2>1 DEF CountInv
<1>2. IInv => TypeOK
  BY DEF IInv
<1> QED BY <1>1, <1>2, SpecIInv, SpecCountInv, PTL

-----------------------------------------------------------------------------
(* The bound on the copies of an event at the topic.                       *)

(* Those who hold the row: they have sent a copy whose outcome is still to *)
(* be recorded, or have yet to send theirs.                                *)
Sending(e) == {w \in Worker : e \in claimed[w] /\ pc[w] \in {"mark", "record"} /\ current[w] = e}
Waiting(e) == {w \in Worker : e \in claimed[w] /\ ~(pc[w] \in {"mark", "record"} /\ current[w] = e)}

(* Until the row is published every copy but the ones being sent has been  *)
(* paid for with a recorded failure or a fault; afterwards nobody claims   *)
(* it, and each of those who hold it sends one copy at most.               *)
Copies(e) ==
  /\ e \notin published => delivered[e] <= failureCount[e] + faults + Cardinality(Sending(e))
  /\ e \in published =>
       delivered[e] + Cardinality(Waiting(e)) + 1 <= FailureThreshold + Cardinality(Worker) + faults

CopiesInv == \A e \in Event : Copies(e)

(* An event reaches the topic at most as often as the threshold allows     *)
(* failures, once more for every further worker and for every fault.       *)
CopiesBound ==
  \A e \in Event : delivered[e] + 1 <= FailureThreshold + Cardinality(Worker) + faults

LEMMA Sizes ==
  ASSUME NEW e \in Event
  PROVE  /\ IsFiniteSet(Sending(e)) /\ IsFiniteSet(Waiting(e))
         /\ Cardinality(Sending(e)) \in Nat /\ Cardinality(Waiting(e)) \in Nat
         /\ Cardinality(Holders(e)) = Cardinality(Sending(e)) + Cardinality(Waiting(e))
         /\ Cardinality(Worker) \in Nat
<1>1. /\ IsFiniteSet(Sending(e)) /\ IsFiniteSet(Waiting(e))
      /\ Cardinality(Sending(e)) \in Nat /\ Cardinality(Waiting(e)) \in Nat /\ Cardinality(Worker) \in Nat
  BY FS_Subset, FS_CardinalityType DEF Sending, Waiting
<1>2. Holders(e) = Sending(e) \cup Waiting(e) /\ Sending(e) \cap Waiting(e) = {}
  BY DEF Sending, Waiting, Holders
<1>3. Cardinality(Sending(e) \cup Waiting(e)) =
        Cardinality(Sending(e)) + Cardinality(Waiting(e)) - Cardinality(Sending(e) \cap Waiting(e))
  BY <1>1, FS_Union
<1>4. Cardinality(Sending(e) \cap Waiting(e)) = 0
  BY <1>2, FS_EmptySet
<1> QED BY <1>1, <1>2, <1>3, <1>4

LEMMA SizesNext ==
  ASSUME NEW e \in Event
  PROVE  /\ IsFiniteSet(Sending(e)') /\ IsFiniteSet(Waiting(e)')
         /\ Cardinality(Sending(e)') \in Nat /\ Cardinality(Waiting(e)') \in Nat
  BY FS_Subset, FS_CardinalityType DEF Sending, Waiting

(* A step that sends no copy of e, records nothing of it and loses nobody  *)
(* who is sending it.                                                      *)
LEMMA CopiesKept ==
  ASSUME TypeOK, NEW e \in Event, Copies(e),
         Sending(e)' = Sending(e), Waiting(e)' \subseteq Waiting(e),
         delivered'[e] = delivered[e], failureCount'[e] = failureCount[e],
         faults' \in {faults, faults + 1}, e \in published' <=> e \in published
  PROVE  Copies(e)'
<1>1. Cardinality(Waiting(e)') <= Cardinality(Waiting(e))
  BY Sizes, FS_Subset
<1>2. /\ delivered[e] \in Nat /\ failureCount[e] \in Nat /\ faults \in Nat
      /\ FailureThreshold \in Nat
  BY DEF TypeOK
<1> QED BY <1>1, <1>2, Sizes, SizesNext DEF Copies

(* What FinishRow does to both.                                            *)
LEMMA FinishRowHolders ==
  ASSUME TypeOK, WorkerInv, NEW w \in Worker, pc[w] \in {"mark", "record"}, FinishRow(w), NEW e \in Event
  PROVE  /\ Waiting(e)' = Waiting(e)
         /\ e # current[w] => Sending(e)' = Sending(e)
         /\ e = current[w] => Sending(e)' = Sending(e) \ {w} /\ w \in Sending(e)
<1>1. current[w] \in claimed[w]
  BY DEF WorkerInv
<1>2. /\ claimed'[w] = claimed[w] \ {current[w]}
      /\ pc'[w] \in {"idle", "loop"}
      /\ \A v \in Worker \ {w} : claimed'[v] = claimed[v] /\ pc'[v] = pc[v] /\ current'[v] = current[v]
  BY FinishRowEffect
<1> QED BY <1>1, <1>2 DEF Sending, Waiting

LEMMA SendCopies ==
  ASSUME TypeOK, CopiesInv, NEW w \in Worker, NEW f \in Event,
         pc[w] = "loop", f \in claimed[w],
         delivered' = [delivered EXCEPT ![f] = @ + 1] \/ delivered' = delivered,
         current' = [current EXCEPT ![w] = f],
         pc' = [pc EXCEPT ![w] = "mark"] \/ pc' = [pc EXCEPT ![w] = "record"],
         UNCHANGED <<published, failureCount, claimed, faults>>
  PROVE  CopiesInv'
<1> SUFFICES ASSUME NEW e \in Event PROVE Copies(e)'
  BY DEF CopiesInv
<1>1. Copies(e)
  BY DEF CopiesInv
<1>2. /\ pc'[w] \in {"mark", "record"} /\ current'[w] = f
      /\ \A v \in Worker \ {w} : pc'[v] = pc[v] /\ current'[v] = current[v]
  BY DEF TypeOK
<1>3. CASE e # f
  <2>1. Sending(e)' = Sending(e) /\ Waiting(e)' = Waiting(e)
    BY <1>2, <1>3 DEF Sending, Waiting
  <2>2. delivered'[e] = delivered[e]
    BY <1>3 DEF TypeOK
  <2> QED BY <1>1, <2>1, <2>2, CopiesKept
<1>4. CASE e = f
  <2>1. /\ Sending(e)' = Sending(e) \cup {w} /\ w \notin Sending(e)
        /\ Waiting(e)' = Waiting(e) \ {w} /\ w \in Waiting(e)
    BY <1>2, <1>4 DEF Sending, Waiting
  <2>2. PICK sending, waiting : sending = Sending(e) /\ waiting = Waiting(e)
    OBVIOUS
  <2>3. /\ Cardinality(sending \cup {w}) = Cardinality(sending) + 1
        /\ Cardinality(waiting \ {w}) = Cardinality(waiting) - 1
    BY <2>1, <2>2, Sizes, FS_AddElement, FS_RemoveElement
  <2>4. /\ Cardinality(Sending(e)') = Cardinality(Sending(e)) + 1
        /\ Cardinality(Waiting(e)') = Cardinality(Waiting(e)) - 1
    BY <2>1, <2>2, <2>3
  <2>5. /\ delivered[e] \in Nat /\ failureCount[e] \in Nat /\ faults \in Nat /\ FailureThreshold \in Nat
        /\ delivered'[e] \in {delivered[e], delivered[e] + 1}
    BY <1>4 DEF TypeOK
  <2> QED BY <1>1, <2>4, <2>5, Sizes DEF Copies
<1> QED BY <1>3, <1>4

LEMMA MarkCopies ==
  ASSUME TypeOK, WorkerInv, CountInv, CopiesInv, NEW w \in Worker, MarkPublished(w)
  PROVE  CopiesInv'
<1> SUFFICES ASSUME NEW e \in Event PROVE Copies(e)'
  BY DEF CopiesInv
<1>1. /\ Copies(e) /\ pc[w] = "mark" /\ FinishRow(w) /\ published' = published \cup {current[w]}
      /\ UNCHANGED <<failureCount, delivered, faults>>
  BY DEF CopiesInv, MarkPublished, outsideVars
<1>2. /\ Waiting(e)' = Waiting(e)
      /\ e # current[w] => Sending(e)' = Sending(e)
  BY <1>1, FinishRowHolders
<1>3. CASE e # current[w]
  BY <1>1, <1>2, <1>3, CopiesKept
<1>4. CASE e = current[w]
  <2>1. /\ delivered[e] \in Nat /\ failureCount[e] \in Nat /\ faults \in Nat /\ FailureThreshold \in Nat
    BY DEF TypeOK
  <2>2. delivered[e] + Cardinality(Waiting(e)) + 1 <= FailureThreshold + Cardinality(Worker) + faults
    BY <1>1, <2>1, Sizes DEF Copies, CountInv
  <2> QED BY <1>1, <1>2, <1>4, <2>2 DEF Copies
<1> QED BY <1>3, <1>4

LEMMA RecordCopies ==
  ASSUME TypeOK, WorkerInv, CopiesInv, NEW w \in Worker, RecordFailure(w)
  PROVE  CopiesInv'
<1> SUFFICES ASSUME NEW e \in Event PROVE Copies(e)'
  BY DEF CopiesInv
<1>1. /\ Copies(e) /\ pc[w] = "record" /\ FinishRow(w)
      /\ failureCount' = [failureCount EXCEPT ![current[w]] = @ + 1]
      /\ UNCHANGED <<published, delivered, faults>>
  BY DEF CopiesInv, RecordFailure, outsideVars
<1>2. /\ Waiting(e)' = Waiting(e)
      /\ e # current[w] => Sending(e)' = Sending(e)
      /\ e = current[w] => Sending(e)' = Sending(e) \ {w} /\ w \in Sending(e)
  BY <1>1, FinishRowHolders
<1>3. CASE e # current[w]
  <2>1. failureCount'[e] = failureCount[e]
    BY <1>1, <1>3 DEF TypeOK
  <2> QED BY <1>1, <1>2, <1>3, <2>1, CopiesKept
<1>4. CASE e = current[w]
  <2>1. /\ delivered[e] \in Nat /\ failureCount[e] \in Nat /\ faults \in Nat /\ FailureThreshold \in Nat
        /\ failureCount'[e] = failureCount[e] + 1
    BY <1>1, <1>4 DEF TypeOK
  <2>2. Cardinality(Sending(e)') = Cardinality(Sending(e)) - 1
    BY <1>2, <1>4, Sizes, FS_RemoveElement
  <2> QED BY <1>1, <1>2, <2>1, <2>2, Sizes DEF Copies
<1> QED BY <1>3, <1>4

LEMMA FaultCopies ==
  ASSUME TypeOK, WorkerInv, CopiesInv, NEW w \in Worker, SettleError(w) \/ Crash(w)
  PROVE  CopiesInv'
<1> SUFFICES ASSUME NEW e \in Event PROVE Copies(e)'
  BY DEF CopiesInv
<1>1. Copies(e) /\ faults' = faults + 1 /\ UNCHANGED <<published, delivered, failureCount>>
  BY DEF CopiesInv, SettleError, Crash, tableVars, outsideVars
<1>2. /\ Waiting(e)' \subseteq Waiting(e)
      /\ Sending(e)' = Sending(e) \/ (Sending(e)' = Sending(e) \ {w} /\ w \in Sending(e))
  <2>1. CASE SettleError(w)
    BY <2>1, FinishRowHolders DEF SettleError
  <2>2. CASE Crash(w)
    <3>1. /\ claimed'[w] = {}
          /\ \A v \in Worker \ {w} : pc'[v] = pc[v] /\ current'[v] = current[v] /\ claimed'[v] = claimed[v]
      BY <2>2 DEF Crash, TypeOK
    <3> QED BY <3>1 DEF Sending, Waiting
  <2> QED BY <2>1, <2>2
<1>3. CASE Sending(e)' = Sending(e)
  BY <1>1, <1>2, <1>3, CopiesKept
<1>4. CASE Sending(e)' = Sending(e) \ {w} /\ w \in Sending(e)
  <2>1. /\ delivered[e] \in Nat /\ failureCount[e] \in Nat /\ faults \in Nat /\ FailureThreshold \in Nat
    BY DEF TypeOK
  <2>2. Cardinality(Sending(e)') = Cardinality(Sending(e)) - 1
    BY <1>4, Sizes, FS_RemoveElement
  <2>3. Cardinality(Waiting(e)') <= Cardinality(Waiting(e))
    BY <1>2, Sizes, FS_Subset
  <2> QED BY <1>1, <2>1, <2>2, <2>3, Sizes, SizesNext DEF Copies
<1> QED BY <1>2, <1>3, <1>4

LEMMA ClaimCopies ==
  ASSUME TypeOK, WorkerInv, CopiesInv, NEW w \in Worker, ClaimUnpublished(w)
  PROVE  CopiesInv'
<1> SUFFICES ASSUME NEW e \in Event PROVE Copies(e)'
  BY DEF CopiesInv
<1>1. Copies(e) /\ UNCHANGED <<published, delivered, failureCount, faults, current>> /\ pc[w] = "idle"
  BY DEF CopiesInv, ClaimUnpublished, outsideVars
<1>2. PICK S \in SUBSET Claimable :
        /\ claimed'[w] = S /\ pc'[w] = "loop"
        /\ \A v \in Worker \ {w} : claimed'[v] = claimed[v] /\ pc'[v] = pc[v]
  BY ClaimEffect
<1>3. Sending(e)' = Sending(e)
  BY <1>1, <1>2 DEF Sending
<1>4. CASE e \in published
  <2>1. e \notin S
    BY <1>2, <1>4 DEF Claimable
  <2>2. Waiting(e)' \subseteq Waiting(e)
    BY <1>1, <1>2, <2>1 DEF Waiting
  <2> QED BY <1>1, <1>3, <2>2, CopiesKept
<1>5. CASE e \notin published
  BY <1>1, <1>3, <1>5 DEF Copies
<1> QED BY <1>4, <1>5

LEMMA CopiesStep == TypeOK /\ WorkerInv /\ CountInv /\ CopiesInv /\ [Next]_vars => CopiesInv'
<1> SUFFICES ASSUME TypeOK, WorkerInv, CountInv, CopiesInv, [Next]_vars PROVE CopiesInv'
  OBVIOUS
<1>1. ASSUME UNCHANGED <<published, delivered, failureCount, faults, workerVars>> PROVE CopiesInv'
  BY <1>1 DEF CopiesInv, Copies, Sending, Waiting, workerVars
<1>2. ASSUME NEW w \in Worker, NEW e \in Event, PublishOk(w, e) PROVE CopiesInv'
  BY <1>2, SendCopies DEF PublishOk, tableVars, historyVars
<1>3. ASSUME NEW w \in Worker, NEW e \in Event, NEW r \in BOOLEAN, PublishError(w, e, r) PROVE CopiesInv'
  <2>1. /\ pc[w] = "loop" /\ e \in claimed[w]
        /\ delivered' = [delivered EXCEPT ![e] = @ + 1] \/ delivered' = delivered
        /\ current' = [current EXCEPT ![w] = e] /\ pc' = [pc EXCEPT ![w] = "record"]
        /\ UNCHANGED <<published, failureCount, claimed, faults>>
    BY <1>3 DEF PublishError, tableVars, TypeOK
  <2> QED BY <2>1, SendCopies
<1>4. ASSUME NEW w \in Worker, RelayStep(w) \/ SettleError(w) \/ Crash(w) PROVE CopiesInv'
  BY <1>2, <1>3, <1>4, ClaimCopies, MarkCopies, RecordCopies, FaultCopies DEF RelayStep
<1> QED
  BY <1>1, <1>4 DEF Next, WriteOutboxEvents, EndTx, Tick, vars, tableVars, outsideVars, historyVars

(* With one worker the topic gets no more copies of an event than the      *)
(* threshold allows failures and faults occurred, whatever the timeout,    *)
(* the size of the batches and the number of events; every further worker  *)
(* adds one at most.                                                       *)
THEOREM CopiesAreBounded == Spec => []CopiesBound
<1>1. Init => CopiesInv
  BY Sizes DEF Init, CopiesInv, Copies
<1>2. ASSUME TypeOK, CountInv, CopiesInv PROVE CopiesBound
  <2> SUFFICES ASSUME NEW e \in Event
               PROVE  delivered[e] + 1 <= FailureThreshold + Cardinality(Worker) + faults
    BY DEF CopiesBound
  <2>1. delivered[e] \in Nat /\ failureCount[e] \in Nat /\ faults \in Nat /\ FailureThreshold \in Nat
    BY <1>2 DEF TypeOK
  <2>2. Copies(e) /\ failureCount[e] + Cardinality(Holders(e)) + 1 <= FailureThreshold + Cardinality(Worker)
    BY <1>2 DEF CopiesInv, CountInv
  <2> QED BY <2>1, <2>2, Sizes DEF Copies
<1>3. IInv => TypeOK /\ WorkerInv
  BY DEF IInv
<1> QED BY <1>1, <1>2, <1>3, SpecIInv, SpecCountInv, CopiesStep, PTL DEF Spec

-----------------------------------------------------------------------------
(* A row that is published or given up is closed.                          *)

Closed(e) == e \in published \/ Dead(e)

(* A closed row stays closed and finds no new holder; once the last holder *)
(* has let go of it, it is neither sent nor written again.                 *)
ClosesForGood(e) ==
  Closed(e) =>
    /\ Closed(e)'
    /\ Holders(e)' \subseteq Holders(e)
    /\ Holders(e) = {} =>
         /\ delivered'[e] = delivered[e] /\ failureCount'[e] = failureCount[e]
         /\ e \in published' <=> e \in published
         /\ e \in lastError' <=> e \in lastError

LEMMA NotTouched ==
  ASSUME NEW e \in Event, Holders(e)' \subseteq Holders(e),
         delivered'[e] = delivered[e], failureCount'[e] = failureCount[e],
         e \in published' <=> e \in published, e \in lastError' <=> e \in lastError
  PROVE  ClosesForGood(e)
  BY DEF ClosesForGood, Closed, Dead

(* A step of a worker on a row it holds.                                   *)
LEMMA HolderMayWrite ==
  ASSUME NEW e \in Event, NEW w \in Holders(e), Holders(e)' \subseteq Holders(e),
         Closed(e) => Closed(e)'
  PROVE  ClosesForGood(e)
  BY DEF ClosesForGood

LEMMA FinishRowLetsGo ==
  ASSUME TypeOK, WorkerInv, NEW w \in Worker, pc[w] \in {"mark", "record"}, FinishRow(w), NEW e \in Event
  PROVE  Holders(e)' \subseteq Holders(e) /\ w \in Holders(current[w])
<1>1. current[w] \in claimed[w]
  BY DEF WorkerInv
<1> QED BY <1>1, FinishRowEffect DEF Holders

(* MarkPublished and RecordFailure write the worker's current row alone.   *)
LEMMA SettlingCloses ==
  ASSUME TypeOK, WorkerInv, NEW w \in Worker, MarkPublished(w) \/ RecordFailure(w), NEW e \in Event
  PROVE  ClosesForGood(e)
<1>1. /\ pc[w] \in {"mark", "record"} /\ FinishRow(w) /\ delivered' = delivered
      /\ published' \in {published, published \cup {current[w]}}
      /\ lastError' \in {lastError \ {current[w]}, lastError \cup {current[w]}}
      /\ failureCount' = failureCount \/ failureCount' = [failureCount EXCEPT ![current[w]] = @ + 1]
  BY DEF MarkPublished, RecordFailure, outsideVars
<1>2. Holders(e)' \subseteq Holders(e) /\ w \in Holders(current[w])
  BY <1>1, FinishRowLetsGo
<1>3. failureCount[e] \in Nat /\ FailureThreshold \in Nat /\ published \subseteq published'
  BY <1>1 DEF TypeOK
<1>4. CASE e = current[w]
  <2>1. failureCount'[e] \in {failureCount[e], failureCount[e] + 1}
    BY <1>1, <1>4 DEF TypeOK
  <2> QED BY <1>2, <1>3, <1>4, <2>1, HolderMayWrite DEF Closed, Dead
<1>5. CASE e # current[w]
  <2>1. failureCount'[e] = failureCount[e]
    BY <1>1, <1>5 DEF TypeOK
  <2> QED BY <1>1, <1>2, <1>5, <2>1, NotTouched
<1> QED BY <1>4, <1>5

LEMMA SendingKeepsClosed ==
  ASSUME TypeOK, NEW w \in Worker, NEW f \in Event,
         PublishOk(w, f) \/ \E r \in BOOLEAN : PublishError(w, f, r), NEW e \in Event
  PROVE  ClosesForGood(e)
<1>1. /\ f \in claimed[w]
      /\ delivered' = [delivered EXCEPT ![f] = @ + 1] \/ delivered' = delivered
      /\ UNCHANGED <<published, failureCount, lastError, claimed>>
  BY DEF PublishOk, PublishError, tableVars, TypeOK
<1>2. Holders(e)' = Holders(e) /\ w \in Holders(f)
  BY <1>1 DEF Holders
<1>3. CASE e = f
  BY <1>1, <1>2, <1>3, HolderMayWrite DEF Closed, Dead
<1>4. CASE e # f
  <2>1. delivered'[e] = delivered[e]
    BY <1>1, <1>4 DEF TypeOK
  <2> QED BY <1>1, <1>2, <2>1, NotTouched
<1> QED BY <1>3, <1>4

LEMMA ClaimLeavesClosed ==
  ASSUME TypeOK, NEW w \in Worker, ClaimUnpublished(w), NEW e \in Event
  PROVE  ClosesForGood(e)
<1>1. UNCHANGED <<published, failureCount, lastError, delivered>>
  BY DEF ClaimUnpublished, outsideVars
<1>2. PICK S \in SUBSET Claimable :
        claimed'[w] = S /\ \A v \in Worker \ {w} : claimed'[v] = claimed[v]
  BY ClaimEffect
<1>3. ASSUME Closed(e) PROVE e \notin S
  BY <1>2, <1>3 DEF Closed, Dead, Claimable, TypeOK
<1>4. ASSUME Closed(e) PROVE Holders(e)' \subseteq Holders(e)
  BY <1>2, <1>3, <1>4 DEF Holders
<1> QED BY <1>1, <1>4 DEF ClosesForGood, Closed, Dead

LEMMA FaultsLeaveClosed ==
  ASSUME TypeOK, WorkerInv, NEW w \in Worker, SettleError(w) \/ Crash(w), NEW e \in Event
  PROVE  ClosesForGood(e)
<1>1. UNCHANGED <<published, failureCount, lastError, delivered>>
  BY DEF SettleError, Crash, tableVars, outsideVars
<1>2. Holders(e)' \subseteq Holders(e)
  <2>1. CASE SettleError(w)
    BY <2>1, FinishRowLetsGo DEF SettleError
  <2>2. CASE Crash(w)
    BY <2>2 DEF Crash, Holders, TypeOK
  <2> QED BY <2>1, <2>2
<1> QED BY <1>1, <1>2, NotTouched

LEMMA ClosedStep ==
  ASSUME TypeOK, WorkerInv, [Next]_vars, NEW e \in Event
  PROVE  ClosesForGood(e)
<1>1. ASSUME UNCHANGED <<published, failureCount, lastError, delivered, claimed>>
      PROVE  ClosesForGood(e)
  BY <1>1, NotTouched DEF Holders
<1>2. ASSUME NEW w \in Worker, RelayStep(w) \/ SettleError(w) \/ Crash(w)
      PROVE  ClosesForGood(e)
  BY <1>2, SendingKeepsClosed, SettlingCloses, ClaimLeavesClosed, FaultsLeaveClosed DEF RelayStep
<1> QED
  BY <1>1, <1>2
     DEF Next, WriteOutboxEvents, EndTx, Tick, vars, tableVars, workerVars, outsideVars

(* Published and given up are final.  The claim is what keeps them so: the *)
(* two UPDATEs name a row by event_id alone and would write a settled row  *)
(* as readily as an open one.                                              *)
THEOREM ClosedIsFinal == Spec => [][\A e \in Event : ClosesForGood(e)]_vars
<1>1. IInv /\ [Next]_vars => [\A e \in Event : ClosesForGood(e)]_vars
  BY ClosedStep DEF IInv
<1> QED BY <1>1, SpecIInv, PTL DEF Spec

-----------------------------------------------------------------------------
(* Refinement: every step of the outbox is a step of AtLeastOnce, or none. *)

LEMMA InitPromise == Init => Promise!Init
  BY DEF Init, Promise!Init, Dead

LEMMA StepPromise == IInv /\ [Next]_vars => [Promise!Next]_(Promise!vars)
<1> SUFFICES ASSUME TypeOK, WorkerInv, RowInv, [Next]_vars
             PROVE  [Promise!Next]_(Promise!vars)
  BY DEF IInv
<1> USE DEF tableVars, workerVars, outsideVars, historyVars, Dead, Promise!vars
<1>1. ASSUME UNCHANGED <<txn, published, failureCount, delivered>>
      PROVE  UNCHANGED Promise!vars
  BY <1>1
<1>2. ASSUME NEW S \in SUBSET Event, WriteOutboxEvents(S)
      PROVE  UNCHANGED Promise!vars
  BY <1>2 DEF WriteOutboxEvents, TypeOK
<1>3. ASSUME NEW e \in Event, NEW o \in {"committed", "aborted"}, EndTx(e, o)
      PROVE  Promise!Accept \/ UNCHANGED Promise!vars
  <2>1. /\ \A f \in Event : txn'[f] = IF f \in SameTx(e) THEN o ELSE txn[f]
        /\ \A f \in SameTx(e) : txn[f] = "open"
        /\ e \in SameTx(e)
        /\ UNCHANGED <<published, failureCount, delivered>>
    BY <1>3 DEF EndTx, SameTx
  <2>2. CASE o = "committed"
    <3>1. {f \in Event : txn[f] = "committed"}' =
            {f \in Event : txn[f] = "committed"} \cup SameTx(e)
      BY <2>1, <2>2 DEF SameTx
    <3>2. SameTx(e) \in SUBSET (Event \ {f \in Event : txn[f] = "committed"})
      BY DEF SameTx
    <3> QED BY <2>1, <3>1, <3>2 DEF Promise!Accept
  <2>3. CASE o = "aborted"
    BY <2>1, <2>3
  <2> QED BY <2>2, <2>3
<1>4. ASSUME NEW w \in Worker, NEW e \in Event,
             PublishOk(w, e) \/ \E r \in BOOLEAN : PublishError(w, e, r)
      PROVE  Promise!Send(e) \/ UNCHANGED Promise!vars
  <2>1. /\ e \in claimed[w]
        /\ delivered' = [delivered EXCEPT ![e] = @ + 1] \/ delivered' = delivered
        /\ UNCHANGED <<txn, published, failureCount>>
    BY <1>4 DEF PublishOk, PublishError, TypeOK
  <2>2. txn[e] = "committed"
    BY <2>1 DEF WorkerInv
  <2>3. CASE delivered' = delivered
    BY <1>1, <2>1, <2>3
  <2>4. CASE delivered' = [delivered EXCEPT ![e] = @ + 1]
    <3>1. {f \in Event : delivered'[f] > 0} = {f \in Event : delivered[f] > 0} \cup {e}
      BY <2>4 DEF TypeOK
    <3> QED BY <2>1, <2>2, <3>1 DEF Promise!Send
  <2> QED BY <2>1, <2>3, <2>4
<1>5. ASSUME NEW w \in Worker, MarkPublished(w)
      PROVE  Promise!Confirm(current[w]) \/ UNCHANGED Promise!vars
  BY <1>5 DEF MarkPublished, WorkerInv, TypeOK, Promise!Confirm
<1>6. ASSUME NEW w \in Worker, NEW c \in Event, c = current[w], RecordFailure(w)
      PROVE  Promise!GiveUp(c) \/ UNCHANGED Promise!vars
  <2>1. /\ pc[w] = "record" /\ UNCHANGED <<txn, published, delivered>>
        /\ failureCount' = [failureCount EXCEPT ![c] = @ + 1]
    BY <1>6 DEF RecordFailure
  <2>2. txn[c] = "committed"
    BY <1>6, <2>1 DEF WorkerInv
  <2>3. /\ failureCount[c] \in Nat /\ failureCount'[c] = failureCount[c] + 1
        /\ \A f \in Event : f # c => failureCount'[f] = failureCount[f]
    BY <2>1 DEF TypeOK
  <2>4. {f \in Event : failureCount'[f] >= FailureThreshold} \in
          {{f \in Event : failureCount[f] >= FailureThreshold},
           {f \in Event : failureCount[f] >= FailureThreshold} \cup {c}}
    BY <2>3
  <2> QED BY <2>1, <2>2, <2>4 DEF Promise!GiveUp
<1>7. ASSUME NEW w \in Worker, ClaimUnpublished(w) \/ SettleError(w) \/ Crash(w)
      PROVE  UNCHANGED Promise!vars
  BY <1>1, <1>7 DEF ClaimUnpublished, SettleError, Crash
<1>8. CASE Tick \/ UNCHANGED vars
  BY <1>1, <1>8 DEF Tick, vars
<1>9. ASSUME NEW w \in Worker, RelayStep(w) PROVE Promise!Next \/ UNCHANGED Promise!vars
  <2>1. current[w] \in Event \/ ~(MarkPublished(w) \/ RecordFailure(w))
    BY DEF MarkPublished, RecordFailure, WorkerInv, TypeOK
  <2>2. CASE \E e \in Event : PublishOk(w, e) \/ \E r \in BOOLEAN : PublishError(w, e, r)
    <3>1. PICK e \in Event : PublishOk(w, e) \/ \E r \in BOOLEAN : PublishError(w, e, r)
      BY <2>2
    <3>2. Promise!Send(e) \/ UNCHANGED Promise!vars
      BY <1>4, <3>1
    <3> QED BY <3>2 DEF Promise!Next
  <2>3. CASE ClaimUnpublished(w)
    BY <1>7, <2>3
  <2>4. CASE MarkPublished(w)
    <3>1. Promise!Confirm(current[w]) \/ UNCHANGED Promise!vars
      BY <1>5, <2>4
    <3> QED BY <2>1, <2>4, <3>1 DEF Promise!Next
  <2>5. CASE RecordFailure(w)
    <3>1. PICK c \in Event : c = current[w]
      BY <2>1, <2>5
    <3>2. Promise!GiveUp(c) \/ UNCHANGED Promise!vars
      BY <1>6, <2>5, <3>1
    <3> QED BY <3>2 DEF Promise!Next
  <2> QED BY <1>9, <2>2, <2>3, <2>4, <2>5 DEF RelayStep
<1> QED
  BY <1>2, <1>3, <1>7, <1>8, <1>9 DEF Next, Promise!Next

(* The outbox implements the safety part of AtLeastOnce.                   *)
THEOREM OutboxKeepsPromise == Spec => KeepsPromiseSafely
  BY InitPromise, StepPromise, SpecIInv, PTL DEF Spec, KeepsPromiseSafely, Promise!SafeSpec
=============================================================================
