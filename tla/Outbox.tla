------------------------------- MODULE Outbox -------------------------------
(***************************************************************************)
(* The transactional outbox: rows of shop.outbox_events are inserted by    *)
(* the transactions that change business rows and are published by relay   *)
(* workers, one per running server process.                                *)
(*                                                                         *)
(*   writeOutboxEvent     repository/postgres/outbox_repo.go (in a tx)     *)
(*   ClaimUnpublished,                                                     *)
(*   MarkPublished,                                                        *)
(*   RecordFailure        repository/postgres/outbox_repo.go               *)
(*   RunOnce, processOne  usecase/outbox/relay.go                          *)
(*   Publish              adapter/pubsub/publisher.go                      *)
(*   Run                  handler/worker/outbox_ticker.go                  *)
(*                                                                         *)
(* Every SQL statement and every call to the topic is one step, so the     *)
(* steps of several workers and of the transactions interleave, and a      *)
(* worker's process can die between any two of them.                       *)
(***************************************************************************)
EXTENDS Naturals, FiniteSets

CONSTANTS
  Event,              (* event ids                                         *)
  Worker,             (* relay workers, one per server process             *)
  BatchSize,          (* OUTBOX_BATCH_SIZE                                 *)
  FailureThreshold,   (* OUTBOX_FAILURE_THRESHOLD                          *)
  VisibilityTimeout,  (* OUTBOX_VISIBILITY_TIMEOUT, in ticks of the clock  *)
  MaxFaults,          (* bound on crashes and failed statements            *)
  None                (* no row: a model value that is not an event        *)

ASSUME OutboxAssumption ==
  /\ IsFiniteSet(Event)
  /\ IsFiniteSet(Worker)
  /\ BatchSize \in Nat \ {0}
  /\ FailureThreshold \in Nat \ {0}
  /\ VisibilityTimeout \in Nat \ {0}
  /\ MaxFaults \in Nat
  /\ None \notin Event

VARIABLES
  (* The table.  published_at and last_error only matter as NULL or not.    *)
  (* last_attempted_at is kept as the row's age since then, which stops    *)
  (* counting at Expired: a row that old, and a row that was never         *)
  (* attempted, are equally free to be claimed.                            *)
  txn,           (* the transaction that inserts the row                   *)
  createdAt,     (* created_at: the start of that transaction              *)
  published,     (* rows whose published_at is set                         *)
  failureCount,  (* failure_count                                          *)
  lastError,     (* rows whose last_error is set                           *)
  age,           (* time since last_attempted_at                           *)
  (* The workers.                                                          *)
  pc,            (* where RunOnce is                                       *)
  claimed,       (* rows of the claimed batch it has not finished          *)
  current,       (* the row processOne is working on                       *)
  seen,          (* FailureCount as the claim returned it                  *)
  (* The topic and the log, outside the process.                           *)
  delivered,     (* copies of the event the topic has accepted             *)
  reported,      (* events with an ERROR "outbox event stuck" in the log   *)
  (* History, for the properties only.                                     *)
  leaseAge,      (* time since the worker's claim                          *)
  overrun,       (* events a worker still held when its lease ran out      *)
  ambiguous,     (* delivered, but the worker could not record it          *)
  faults         (* crashes and failed statements so far                   *)

tableVars   == <<txn, createdAt, published, failureCount, lastError, age>>
workerVars  == <<pc, claimed, current, seen>>
outsideVars == <<delivered, reported>>
historyVars == <<leaseAge, overrun, ambiguous, faults>>
vars == <<tableVars, workerVars, outsideVars, historyVars>>

Expired == VisibilityTimeout + 1

TypeOK ==
  /\ txn          \in [Event -> {"none", "open", "committed", "aborted"}]
  /\ createdAt    \in [Event -> Nat]
  /\ published    \in SUBSET Event
  /\ failureCount \in [Event -> Nat]
  /\ lastError    \in SUBSET Event
  /\ age          \in [Event -> 0 .. Expired]
  /\ pc           \in [Worker -> {"idle", "loop", "mark", "record"}]
  /\ claimed      \in [Worker -> SUBSET Event]
  /\ current      \in [Worker -> Event \cup {None}]
  /\ seen         \in [Worker -> [Event -> Nat]]
  /\ delivered    \in [Event -> Nat]
  /\ reported     \in SUBSET Event
  /\ leaseAge     \in [Worker -> 0 .. Expired]
  /\ overrun      \in SUBSET Event
  /\ ambiguous    \in SUBSET Event
  /\ faults       \in 0 .. MaxFaults

Init ==
  /\ txn          = [e \in Event |-> "none"]
  /\ createdAt    = [e \in Event |-> 0]
  /\ published    = {}
  /\ failureCount = [e \in Event |-> 0]
  /\ lastError    = {}
  /\ age          = [e \in Event |-> Expired]
  /\ pc           = [w \in Worker |-> "idle"]
  /\ claimed      = [w \in Worker |-> {}]
  /\ current      = [w \in Worker |-> None]
  /\ seen         = [w \in Worker |-> [e \in Event |-> 0]]
  /\ delivered    = [e \in Event |-> 0]
  /\ reported     = {}
  /\ leaseAge     = [w \in Worker |-> 0]
  /\ overrun      = {}
  /\ ambiguous    = {}
  /\ faults       = 0

-----------------------------------------------------------------------------
(* The transactions that insert rows.                                      *)

(* writeOutboxEvent, once per event of the transaction.  created_at is     *)
(* now(), which Postgres fixes when the transaction begins: it is the same *)
(* for all rows of the transaction, and it orders transactions by their    *)
(* start, not by their commit.                                             *)
WriteOutboxEvents(S) ==
  LET started == {e \in Event : txn[e] # "none"} IN
  /\ S # {}
  /\ S \cap started = {}
  /\ txn' = [e \in Event |-> IF e \in S THEN "open" ELSE txn[e]]
  /\ createdAt' = [e \in Event |->
                     IF e \in S THEN Cardinality(started) + 1 ELSE createdAt[e]]
  /\ UNCHANGED <<published, failureCount, lastError, age,
                 workerVars, outsideVars, historyVars>>

(* The rows written by the same transaction as e.                          *)
SameTx(e) == {f \in Event : txn[f] = "open" /\ createdAt[f] = createdAt[e]}

(* Commit or rollback of e's transaction, with everything it wrote.        *)
EndTx(e, outcome) ==
  /\ txn[e] = "open"
  /\ txn' = [f \in Event |-> IF f \in SameTx(e) THEN outcome ELSE txn[f]]
  /\ UNCHANGED <<createdAt, published, failureCount, lastError, age,
                 workerVars, outsideVars, historyVars>>

-----------------------------------------------------------------------------
(* ClaimUnpublished.                                                       *)

(* Wrong variants of the WHERE clause: a row is free one tick early, is    *)
(* claimed although published, or is claimed however often it failed.      *)
ClaimableAtTimeout ==
  {e \in Event : /\ txn[e] = "committed"
                 /\ e \notin published
                 /\ failureCount[e] < FailureThreshold
                 /\ age[e] >= VisibilityTimeout}

ClaimableThoughPublished ==
  {e \in Event : /\ txn[e] = "committed"
                 /\ failureCount[e] < FailureThreshold
                 /\ age[e] > VisibilityTimeout}

ClaimableForEver ==
  {e \in Event : /\ txn[e] = "committed"
                 /\ e \notin published
                 /\ age[e] > VisibilityTimeout}

(* The WHERE clause of the claim.                                          *)
Claimable ==
  {e \in Event : /\ txn[e] = "committed"
                 /\ e \notin published
                 /\ failureCount[e] < FailureThreshold
                 /\ age[e] > VisibilityTimeout}

(* Rows that another worker's UPDATE may hold locked at this moment.       *)
LockedByOthers(w) ==
  {current[v] : v \in {u \in Worker \ {w} : pc[u] \in {"mark", "record"}}}

(* ORDER BY created_at LIMIT BatchSize: S is a possible result on rows.    *)
(* Rows of one transaction have the same created_at and tie.               *)
IsOldestBatch(S, rows) ==
  /\ S \subseteq rows
  /\ Cardinality(S) <= BatchSize
  /\ S # rows => Cardinality(S) = BatchSize
  /\ \A e \in S, f \in rows \ S : createdAt[e] <= createdAt[f]

(* The claim is one statement.  FOR UPDATE SKIP LOCKED leaves out the rows *)
(* another statement has locked.  The rows come back in no particular      *)
(* order (an ORDER BY in the CTE does not order RETURNING), so the batch   *)
(* is a set.  An empty claim ends RunOnce and changes nothing.             *)
ClaimUnpublished(w) ==
  /\ pc[w] = "idle"
  /\ \E skipped \in SUBSET LockedByOthers(w), S \in SUBSET Claimable :
       /\ S # {}
       /\ IsOldestBatch(S, Claimable \ skipped)
       /\ claimed' = [claimed EXCEPT ![w] = S]
       /\ seen' = [seen EXCEPT ![w] =
                     [e \in Event |-> IF e \in S THEN failureCount[e] ELSE 0]]
       /\ age' = [e \in Event |-> IF e \in S THEN 0 ELSE age[e]]
  /\ pc' = [pc EXCEPT ![w] = "loop"]
  /\ leaseAge' = [leaseAge EXCEPT ![w] = 0]
  /\ UNCHANGED <<txn, createdAt, published, failureCount, lastError, current,
                 outsideVars, overrun, ambiguous, faults>>

-----------------------------------------------------------------------------
(* processOne.                                                             *)

(* The topic accepts the message and Publish returns nil.                  *)
PublishOk(w, e) ==
  /\ pc[w] = "loop" /\ e \in claimed[w]
  /\ delivered' = [delivered EXCEPT ![e] = @ + 1]
  /\ current' = [current EXCEPT ![w] = e]
  /\ pc' = [pc EXCEPT ![w] = "mark"]
  /\ UNCHANGED <<tableVars, claimed, seen, reported, historyVars>>

(* Wrong variants of PublishError: the threshold is compared with the      *)
(* count before this failure; an error is treated as success.              *)
PublishErrorReportsLate(w, e, reached) ==
  /\ pc[w] = "loop" /\ e \in claimed[w]
  /\ delivered' = [delivered EXCEPT ![e] = IF reached THEN @ + 1 ELSE @]
  /\ ambiguous' = IF reached THEN ambiguous \cup {e} ELSE ambiguous
  /\ reported' = IF seen[w][e] >= FailureThreshold
                 THEN reported \cup {e} ELSE reported
  /\ current' = [current EXCEPT ![w] = e]
  /\ pc' = [pc EXCEPT ![w] = "record"]
  /\ UNCHANGED <<tableVars, claimed, seen, leaseAge, overrun, faults>>

PublishErrorIgnored(w, e, reached) ==
  /\ pc[w] = "loop" /\ e \in claimed[w]
  /\ delivered' = [delivered EXCEPT ![e] = IF reached THEN @ + 1 ELSE @]
  /\ ambiguous' = IF reached THEN ambiguous \cup {e} ELSE ambiguous
  /\ current' = [current EXCEPT ![w] = e]
  /\ pc' = [pc EXCEPT ![w] = "mark"]
  /\ UNCHANGED <<tableVars, claimed, seen, reported, leaseAge, overrun, faults>>

(* Publish returns an error.  The message may have reached the topic all   *)
(* the same: the error may be the loss of the answer.  The failure is      *)
(* logged as an ERROR from the threshold on, counting from the value of    *)
(* failure_count that the claim returned.                                  *)
PublishError(w, e, reached) ==
  /\ pc[w] = "loop" /\ e \in claimed[w]
  /\ delivered' = [delivered EXCEPT ![e] = IF reached THEN @ + 1 ELSE @]
  /\ ambiguous' = IF reached THEN ambiguous \cup {e} ELSE ambiguous
  /\ reported' = IF seen[w][e] + 1 >= FailureThreshold
                 THEN reported \cup {e} ELSE reported
  /\ current' = [current EXCEPT ![w] = e]
  /\ pc' = [pc EXCEPT ![w] = "record"]
  /\ UNCHANGED <<tableVars, claimed, seen, leaseAge, overrun, faults>>

(* processOne returns: on to the next row of the batch, or RunOnce is over *)
(* and the ticker waits.                                                   *)
FinishRow(w) ==
  LET rest == claimed[w] \ {current[w]} IN
  /\ claimed' = [claimed EXCEPT ![w] = rest]
  /\ seen' = [seen EXCEPT ![w] = [@ EXCEPT ![current[w]] = 0]]
  /\ current' = [current EXCEPT ![w] = None]
  /\ pc' = [pc EXCEPT ![w] = IF rest = {} THEN "idle" ELSE "loop"]
  /\ leaseAge' = [leaseAge EXCEPT ![w] = IF rest = {} THEN 0 ELSE @]

(* Wrong variants of MarkPublished: last_error is not cleared;             *)
(* failure_count is reset with it.                                         *)
MarkPublishedResetsCount(w) ==
  /\ pc[w] = "mark"
  /\ published' = published \cup {current[w]}
  /\ lastError' = lastError \ {current[w]}
  /\ failureCount' = [failureCount EXCEPT ![current[w]] = 0]
  /\ age' = [age EXCEPT ![current[w]] = 0]
  /\ FinishRow(w)
  /\ UNCHANGED <<txn, createdAt, outsideVars, overrun, ambiguous, faults>>

MarkPublishedKeepsError(w) ==
  /\ pc[w] = "mark"
  /\ published' = published \cup {current[w]}
  /\ age' = [age EXCEPT ![current[w]] = 0]
  /\ FinishRow(w)
  /\ UNCHANGED <<txn, createdAt, failureCount, lastError, outsideVars,
                 overrun, ambiguous, faults>>

(* The UPDATE names the row by event_id alone.                             *)
MarkPublished(w) ==
  /\ pc[w] = "mark"
  /\ published' = published \cup {current[w]}
  /\ lastError' = lastError \ {current[w]}
  /\ age' = [age EXCEPT ![current[w]] = 0]
  /\ FinishRow(w)
  /\ UNCHANGED <<txn, createdAt, failureCount, outsideVars,
                 overrun, ambiguous, faults>>

(* Wrong variants of RecordFailure: failure_count goes down, or stays.     *)
RecordFailureDecrements(w) ==
  /\ pc[w] = "record"
  /\ failureCount' = [failureCount EXCEPT ![current[w]] = 0 - 1]
  /\ lastError' = lastError \cup {current[w]}
  /\ age' = [age EXCEPT ![current[w]] = 0]
  /\ FinishRow(w)
  /\ UNCHANGED <<txn, createdAt, published, outsideVars,
                 overrun, ambiguous, faults>>

RecordFailureUncounted(w) ==
  /\ pc[w] = "record"
  /\ lastError' = lastError \cup {current[w]}
  /\ age' = [age EXCEPT ![current[w]] = 0]
  /\ FinishRow(w)
  /\ UNCHANGED <<txn, createdAt, published, failureCount, outsideVars,
                 overrun, ambiguous, faults>>

(* The UPDATE names the row by event_id alone.                             *)
RecordFailure(w) ==
  /\ pc[w] = "record"
  /\ failureCount' = [failureCount EXCEPT ![current[w]] = @ + 1]
  /\ lastError' = lastError \cup {current[w]}
  /\ age' = [age EXCEPT ![current[w]] = 0]
  /\ FinishRow(w)
  /\ UNCHANGED <<txn, createdAt, published, outsideVars,
                 overrun, ambiguous, faults>>

(* MarkPublished or RecordFailure returns an error (database down, ctx     *)
(* cancelled at shutdown).  It is logged and the batch goes on.  A lost    *)
(* answer to an UPDATE that did happen is the step above.                  *)
SettleError(w) ==
  /\ pc[w] \in {"mark", "record"}
  /\ faults < MaxFaults
  /\ faults' = faults + 1
  /\ ambiguous' = IF pc[w] = "mark" THEN ambiguous \cup {current[w]} ELSE ambiguous
  /\ FinishRow(w)
  /\ UNCHANGED <<tableVars, outsideVars, overrun>>

-----------------------------------------------------------------------------
(* The environment.                                                        *)

(* The worker's process dies with its batch, and is started again.  A      *)
(* claim whose result cannot be read back ends RunOnce in the same way.    *)
Crash(w) ==
  /\ pc[w] # "idle"
  /\ faults < MaxFaults
  /\ faults' = faults + 1
  /\ ambiguous' = IF pc[w] = "mark" THEN ambiguous \cup {current[w]} ELSE ambiguous
  /\ pc' = [pc EXCEPT ![w] = "idle"]
  /\ claimed' = [claimed EXCEPT ![w] = {}]
  /\ current' = [current EXCEPT ![w] = None]
  /\ seen' = [seen EXCEPT ![w] = [e \in Event |-> 0]]
  /\ leaseAge' = [leaseAge EXCEPT ![w] = 0]
  /\ UNCHANGED <<tableVars, outsideVars, overrun>>

Older(t) == IF t < Expired THEN t + 1 ELSE t

(* The database clock advances.  A worker is not told that the rows it     *)
(* still holds have become visible again.                                  *)
Tick ==
  /\ age' = [e \in Event |-> Older(age[e])]
  /\ leaseAge' = [w \in Worker |-> IF pc[w] = "idle" THEN 0 ELSE Older(leaseAge[w])]
  /\ overrun' = overrun \cup UNION {claimed[w] : w \in
                  {v \in Worker : pc[v] # "idle" /\ Older(leaseAge[v]) = Expired}}
  /\ UNCHANGED <<txn, createdAt, published, failureCount, lastError,
                 workerVars, outsideVars, ambiguous, faults>>

-----------------------------------------------------------------------------
(* What a worker does by itself, without faults.                           *)
RelayStep(w) ==
  \/ ClaimUnpublished(w)
  \/ \E e \in Event : PublishOk(w, e) \/ \E r \in BOOLEAN : PublishError(w, e, r)
  \/ MarkPublished(w)
  \/ RecordFailure(w)

Next ==
  \/ \E S \in SUBSET Event : Cardinality(S) <= 2 /\ WriteOutboxEvents(S)
  \/ \E e \in Event, o \in {"committed", "aborted"} : EndTx(e, o)
  \/ \E w \in Worker : RelayStep(w) \/ SettleError(w) \/ Crash(w)
  \/ Tick

Spec == Init /\ [][Next]_vars

(* The ticker calls RunOnce again and again and RunOnce has no way to      *)
(* block for ever; the clock goes on.  Nothing forces transactions to      *)
(* start, publishing to succeed or faults to happen.                       *)
Fairness == WF_vars(Tick) /\ \A w \in Worker : WF_vars(RelayStep(w))

FairSpec == Spec /\ Fairness

-----------------------------------------------------------------------------
(* Properties.                                                             *)

Held(w, e) == pc[w] # "idle" /\ e \in claimed[w]

Dead(e) == failureCount[e] >= FailureThreshold

(* Two workers never work on the same row at the same time while both      *)
(* their leases are valid: the claim hides the row for VisibilityTimeout.  *)
LeaseExclusive ==
  \A v, w \in Worker, e \in Event :
    v # w /\ Held(v, e) /\ Held(w, e) =>
      leaseAge[v] > VisibilityTimeout \/ leaseAge[w] > VisibilityTimeout

(* An event reaches the topic a second time only for a reason the design   *)
(* admits: a batch that took longer than the visibility timeout, or an     *)
(* outcome that could not be recorded (lost answer of the topic, failed    *)
(* UPDATE, death of the worker between publishing and marking).            *)
DuplicatesAreExplained ==
  \A e \in Event : delivered[e] >= 2 => e \in overrun \cup ambiguous

(* Retries are bounded: failure_count passes the threshold only by the     *)
(* attempts that other workers had under way when it was reached.          *)
FailureBound ==
  \A e \in Event : failureCount[e] + 1 <= FailureThreshold + Cardinality(Worker)

(* The claim stops retrying an event only after the ERROR log said that it *)
(* is stuck (processOne compares attempts with the same threshold), unless *)
(* a worker overran its lease and counted from a stale FailureCount.       *)
DeadIsReported ==
  \A e \in Event : Dead(e) => e \in reported \cup overrun

(* A published row shows no error, although MarkPublished and              *)
(* RecordFailure both write by event_id alone and never look at the row:   *)
(* only a worker that overran its lease can put an error back.             *)
PublishedRowIsClean == published \cap lastError \subseteq overrun

(* The outbox implements AtLeastOnce: an event is regarded as delivered    *)
(* only after the topic got it, only committed events are sent, and every  *)
(* committed event is in the end confirmed or given up.                    *)
Promise == INSTANCE AtLeastOnce WITH
  accepted  <- {e \in Event : txn[e] = "committed"},
  sent      <- {e \in Event : delivered[e] > 0},
  confirmed <- published,
  givenUp   <- {e \in Event : Dead(e)}

KeepsPromiseSafely == Promise!SafeSpec

KeepsPromise == Promise!Spec
=============================================================================
