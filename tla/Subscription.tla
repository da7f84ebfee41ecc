---------------------------- MODULE Subscription ----------------------------
(***************************************************************************)
(* Subscriptions: the store sells and changes them and notifies the shop,  *)
(* players' clients call POST /api/v1/shop/subscribe, and webhook handlers *)
(* apply the notifications to the row of the token.                        *)
(*                                                                         *)
(*   Subscribe             usecase/purchase/service.go                     *)
(*   HandleNotification    usecase/subscription/apple.go, google.go        *)
(*   writeWithEvent, writeNoEvent         usecase/subscription/state.go    *)
(*   FindSubscriptionByToken, CreateSubscription, UpdateSubscription,      *)
(*   UpdateSubscriptionWithEvent   repository/postgres/subscription_repo.go *)
(*   respondWebhook        handler/rest/webhook_response.go                *)
(*                                                                         *)
(* A handler reads the row, asks Google (Android only), and writes the row *)
(* back: three steps with no lock held between them, so handlers of one    *)
(* token overlap, and notifications are handled in any order.  The history *)
(* variables behind, applied and overtaken record when that has cost the   *)
(* row a change.  CreateSubscription is one step: its only INSERT that can *)
(* wait is that of the token, right before the COMMIT.                     *)
(***************************************************************************)
EXTENDS Naturals, FiniteSets

CONSTANTS
  Token,        (* purchase tokens, one per subscription                   *)
  PlatformOf,   (* Token -> "ios" or "android"                             *)
  Handler,      (* webhook requests that can be served at the same time    *)
  Mismatched,   (* tokens whose row names another product than the store   *)
  MaxChanges,   (* bound on the changes at the stores                      *)
  MaxFaults,    (* bound on failing queries and lost answers               *)
  NoNote        (* a handler that is serving nothing                       *)

ASSUME SubscriptionAssumption ==
  /\ PlatformOf \in [Token -> {"ios", "android"}]
  /\ Mismatched \subseteq Token
  /\ MaxChanges \in Nat /\ MaxFaults \in Nat

VARIABLES
  store,      (* Token -> what the store knows: state, end, the latest end *)
              (* it has ever sold, the number of the last change and the   *)
              (* kind of notification it caused                            *)
  changes,    (* changes at the stores so far                              *)
  inbox,      (* notifications the store has not seen acknowledged         *)
  verified,   (* Token -> ends that Subscribe calls got from the verifier  *)
  sub,        (* Token -> the row of shop.subscriptions                    *)
  announced,  (* Token -> the last premium-updated event committed         *)
  pc,         (* Handler -> where it is                                    *)
  job,        (* Handler -> the notification it serves                     *)
  row,        (* Handler -> its copy of the row, then what it will write   *)
  event,      (* Handler -> the event it will write with the row           *)
  behind,     (* tokens whose row lacks a change: see Lost                 *)
  applied,    (* Token -> the latest change whose notification was handled *)
  overtaken,  (* handlers about to write, after another wrote their row    *)
  faults      (* failures so far                                           *)

storeVars   == <<store, changes, inbox>>
dbVars      == <<sub, announced>>
handlerVars == <<pc, job, row, event>>
history     == <<behind, applied, overtaken>>
vars == <<storeVars, verified, dbVars, handlerVars, history, faults>>

Status == {"active", "cancelled", "grace_period", "expired", "revoked"}
Entitling == {"active", "cancelled", "grace_period"}
Row == [status : Status \cup {"absent"}, end : 0 .. MaxChanges]
Event == [premium : BOOLEAN, end : 0 .. MaxChanges]
NoEvent == [premium |-> FALSE, end |-> 0]

(* "renew" is DID_RENEW, RECOVERED, RENEWED or PURCHASED; "expire" is      *)
(* EXPIRED or GRACE_PERIOD_EXPIRED; "cancel" is AUTO_RENEW_DISABLED or     *)
(* CANCELED.  The handlers only log every other type: "extend" is one that *)
(* comes with a later end (Apple's SUBSCRIBED, when the player subscribes  *)
(* again, and RENEWAL_EXTENDED, Google's DEFERRED), "other" one without.   *)
Logged == {"extend", "other"}
Kind == {"renew", "expire", "revoke", "cancel"} \cup Logged
Note == [token : Token, n : 1 .. MaxChanges, kind : Kind, end : 0 .. MaxChanges]

ASSUME NoNoteAssumption == NoNote \notin Note

StoreState == {"none", "active", "canceled", "grace", "hold", "expired", "revoked"}
Entry == [state : StoreState, end : 0 .. MaxChanges, sold : 0 .. MaxChanges,
          n : 0 .. MaxChanges, kind : Kind]

HistoryOK ==
  /\ behind    \subseteq Token
  /\ applied   \in [Token -> 0 .. MaxChanges]
  /\ overtaken \subseteq {h \in Handler : pc[h] = "write"}

TypeOK ==
  /\ store     \in [Token -> Entry]
  /\ changes   \in 0 .. MaxChanges
  /\ inbox     \subseteq Note
  /\ verified  \in [Token -> SUBSET (1 .. MaxChanges)]
  /\ sub       \in [Token -> Row]
  /\ announced \in [Token -> Event]
  /\ pc        \in [Handler -> {"idle", "fetch", "write"}]
  /\ job       \in [Handler -> Note \cup {NoNote}]
  /\ row       \in [Handler -> Row]
  /\ event     \in [Handler -> {"none", "premium", "ended"}]
  /\ faults    \in 0 .. MaxFaults
  /\ HistoryOK

NoRow == [status |-> "absent", end |-> 0]

Init ==
  /\ store     = [t \in Token |-> [state |-> "none", end |-> 0, sold |-> 0, n |-> 0,
                                kind |-> "other"]]
  /\ changes   = 0
  /\ inbox     = {}
  /\ verified  = [t \in Token |-> {}]
  /\ sub       = [t \in Token |-> NoRow]
  /\ announced = [t \in Token |-> NoEvent]
  /\ pc        = [h \in Handler |-> "idle"]
  /\ job       = [h \in Handler |-> NoNote]
  /\ row       = [h \in Handler |-> NoRow]
  /\ event     = [h \in Handler |-> "none"]
  /\ behind    = {}
  /\ applied   = [t \in Token |-> 0]
  /\ overtaken = {}
  /\ faults    = 0

-----------------------------------------------------------------------------
(***************************************************************************)
(* The store, outside the process: how a subscription changes there and    *)
(* which notification a change causes.                                     *)
(***************************************************************************)
Change(from, to, kind) ==
  [from |-> from, to |-> to, kind |-> kind]

Changes(platform) ==
  {Change("active", "active", "renew"), Change("grace", "active", "renew"),
   Change("active", "active", "extend"),
   Change("active", "canceled", "cancel"), Change("canceled", "active", "other"),
   Change("active", "grace", "other"), Change("active", "expired", "expire"),
   Change("canceled", "expired", "expire")}
  \cup
  IF platform = "ios"
  THEN {Change("none", "active", "other"), Change("expired", "active", "renew"),
        Change("expired", "active", "extend"), Change("revoked", "active", "extend"),
        Change("grace", "expired", "expire")}
       \cup {Change(s, "revoked", "revoke") : s \in {"active", "canceled", "grace"}}
  ELSE {Change("none", "active", "renew"), Change("hold", "active", "renew"),
        Change("grace", "hold", "other"), Change("hold", "expired", "expire")}
       \cup {Change(s, "expired", "revoke") : s \in {"active", "canceled", "grace"}}

(* A purchase and every renewal or extension add one period; with a        *)
(* revocation Google moves the end back.                                   *)
EndsAfter(platform, entry, ch) ==
  IF ch.kind \in {"renew", "extend"} \/ ch.from = "none" THEN {entry.sold + 1}
  ELSE IF platform = "android" /\ ch.kind = "revoke" THEN 1 .. entry.end
  ELSE {entry.end}

StoreChange(t) ==
  /\ changes < MaxChanges
  /\ changes' = changes + 1
  /\ \E ch \in Changes(PlatformOf[t]) :
       /\ ch.from = store[t].state
       /\ \E end \in EndsAfter(PlatformOf[t], store[t], ch) :
            LET n == store[t].n + 1
                sold == IF end > store[t].sold THEN end ELSE store[t].sold
            IN
            /\ store' = [store EXCEPT ![t] =
                 [state |-> ch.to, end |-> end, sold |-> sold, n |-> n, kind |-> ch.kind]]
            /\ inbox' = inbox \cup {[token |-> t, n |-> n, kind |-> ch.kind, end |-> end]}
  /\ UNCHANGED <<verified, dbVars, handlerVars, history, faults>>

-----------------------------------------------------------------------------
(***************************************************************************)
(* Subscribe.                                                              *)
(***************************************************************************)

(* The token is not recorded, and the verifier answers: a token the store  *)
(* knows is valid in every state.                                          *)
VerifySubscription(t) ==
  /\ sub[t].status = "absent"
  /\ store[t].state # "none"
  /\ verified' = [verified EXCEPT ![t] = @ \cup {store[t].end}]
  /\ UNCHANGED <<storeVars, dbVars, handlerVars, history, faults>>

(* CreateSubscription: nothing is saved when the token is there by now.    *)
CreateSubscription(t) ==
  \E end \in verified[t] :
    /\ verified' = [verified EXCEPT ![t] = @ \ {end}]
    /\ IF sub[t].status = "absent"
       THEN /\ sub' = [sub EXCEPT ![t] = [status |-> "active", end |-> end]]
            /\ announced' = [announced EXCEPT ![t] = [premium |-> TRUE, end |-> end]]
       ELSE UNCHANGED dbVars
    /\ UNCHANGED <<storeVars, handlerVars, history, faults>>

-----------------------------------------------------------------------------
(***************************************************************************)
(* The webhook handlers.                                                   *)
(***************************************************************************)
Later(i, j) == IF i < j THEN j ELSE i

Handled(n) == applied' = [applied EXCEPT ![n.token] = Later(@, n.n)]

(* A notification of t is acknowledged and its change is not in the row.   *)
Lost(t, lost) == behind' = IF lost THEN behind \cup {t} ELSE behind

Idle(h) ==
  /\ pc'    = [pc EXCEPT ![h] = "idle"]
  /\ job'   = [job EXCEPT ![h] = NoNote]
  /\ row'   = [row EXCEPT ![h] = NoRow]
  /\ event' = [event EXCEPT ![h] = "none"]

(* Mutant: ErrSubscriptionNotFound is answered with 500.                   *)
NotFoundRetries(h, n) ==
  /\ pc[h] = "idle"
  /\ sub[n.token].status = "absent"
  /\ UNCHANGED vars

(* FindSubscriptionByToken finds no row: ErrSubscriptionNotFound, which    *)
(* isDeterministic turns into an acknowledgement.                          *)
NotFound(h, n) ==
  /\ pc[h] = "idle"
  /\ sub[n.token].status = "absent"
  /\ inbox' = inbox \ {n}
  /\ Handled(n)
  /\ Lost(n.token, n.kind # "other")
  /\ UNCHANGED <<store, changes, verified, dbVars, handlerVars, overtaken, faults>>

(* A type that is only logged.                                             *)
Ignore(h, n) ==
  /\ pc[h] = "idle"
  /\ sub[n.token].status # "absent"
  /\ n.kind \in Logged
  /\ inbox' = inbox \ {n}
  /\ Handled(n)
  /\ Lost(n.token, n.kind = "extend")
  /\ UNCHANGED <<store, changes, verified, dbVars, handlerVars, overtaken, faults>>

(* Mutant: a cancellation is written with the store's spelling.            *)
AppleUpdateStoreSpelling(r, n) ==
  CASE n.kind = "renew"  -> [status |-> "active", end |-> n.end]
    [] n.kind = "expire" -> [r EXCEPT !.status = "expired"]
    [] n.kind = "revoke" -> [r EXCEPT !.status = "revoked"]
    [] n.kind = "cancel" -> [r EXCEPT !.status = "canceled"]

(* What Apple's handler changes in its copy r of the row.                  *)
AppleUpdate(r, n) ==
  CASE n.kind = "renew"  -> [status |-> "active", end |-> n.end]
    [] n.kind = "expire" -> [r EXCEPT !.status = "expired"]
    [] n.kind = "revoke" -> [r EXCEPT !.status = "revoked"]
    [] n.kind = "cancel" -> [r EXCEPT !.status = "cancelled"]

(* Mutant: a cancellation ends the benefits at once.                       *)
AppleEventCancelEnds(n) == IF n.kind = "renew" THEN "premium" ELSE "ended"

(* Mutant: an expiry is written without an event.                          *)
AppleEventSilentExpiry(n) ==
  CASE n.kind = "renew" -> "premium" [] n.kind = "revoke" -> "ended" [] OTHER -> "none"

AppleEvent(n) ==
  CASE n.kind = "renew" -> "premium" [] n.kind = "cancel" -> "none" [] OTHER -> "ended"

HandleApple(h, n) ==
  /\ pc[h] = "idle"
  /\ PlatformOf[n.token] = "ios"
  /\ sub[n.token].status # "absent"
  /\ n.kind \notin Logged
  /\ pc'    = [pc EXCEPT ![h] = "write"]
  /\ job'   = [job EXCEPT ![h] = n]
  /\ row'   = [row EXCEPT ![h] = AppleUpdate(sub[n.token], n)]
  /\ event' = [event EXCEPT ![h] = AppleEvent(n)]
  /\ UNCHANGED <<storeVars, verified, dbVars, history, faults>>

HandleGoogle(h, n) ==
  /\ pc[h] = "idle"
  /\ PlatformOf[n.token] = "android"
  /\ sub[n.token].status # "absent"
  /\ n.kind \notin Logged
  /\ pc'  = [pc EXCEPT ![h] = "fetch"]
  /\ job' = [job EXCEPT ![h] = n]
  /\ row' = [row EXCEPT ![h] = sub[n.token]]
  /\ UNCHANGED <<storeVars, verified, dbVars, event, history, faults>>

(* Mutant: the status follows the notification, not the state at Google.   *)
GoogleStatusByKind(state, kind) ==
  CASE kind = "renew"  -> "active"
    [] kind = "cancel" -> "cancelled"
    [] kind = "revoke" -> "revoked"
    [] OTHER           -> "expired"

(* resolveGoogleTransition: "hold" is ON_HOLD and PAUSED.                  *)
GoogleStatus(state, kind) ==
  CASE state = "active"   -> "active"
    [] state = "canceled" -> "cancelled"
    [] state = "grace"    -> "grace_period"
    [] state = "hold"     -> "expired"
    [] state = "expired"  -> IF kind = "revoke" THEN "revoked" ELSE "expired"

GoogleEvent(state) ==
  CASE state \in {"active", "grace"} -> "premium" [] state = "canceled" -> "none" [] OTHER -> "ended"

(* Mutant: a renewal adds a period to the row, whatever Google says.       *)
GetSubscriptionAddsPeriod(h) ==
  LET s == store[job[h].token]
      end == IF job[h].kind = "renew" THEN row[h].end + 1 ELSE s.end
  IN
  /\ pc[h] = "fetch"
  /\ job[h].token \notin Mismatched
  /\ pc'    = [pc EXCEPT ![h] = "write"]
  /\ row'   = [row EXCEPT ![h] = [status |-> GoogleStatus(s.state, job[h].kind), end |-> end]]
  /\ event' = [event EXCEPT ![h] = GoogleEvent(s.state)]
  /\ UNCHANGED <<storeVars, verified, dbVars, job, history, faults>>

(* GetSubscription asks Google for the state and the end of the period.    *)
GetSubscription(h) ==
  LET s == store[job[h].token] IN
  /\ pc[h] = "fetch"
  /\ job[h].token \notin Mismatched
  /\ pc'    = [pc EXCEPT ![h] = "write"]
  /\ row'   = [row EXCEPT ![h] = [status |-> GoogleStatus(s.state, job[h].kind), end |-> s.end]]
  /\ event' = [event EXCEPT ![h] = GoogleEvent(s.state)]
  /\ UNCHANGED <<storeVars, verified, dbVars, job, history, faults>>

(* Google names another product than the row, which has the product of the *)
(* client's request: 500, and the notification is sent again.              *)
Refuse(h) ==
  /\ pc[h] = "fetch"
  /\ job[h].token \in Mismatched
  /\ Idle(h)
  /\ UNCHANGED <<storeVars, verified, dbVars, history, faults>>

(* The notification is handled while an earlier one of its token is on its *)
(* way, or after a later one.                                              *)
OutOfTurn(n) == n.n < applied[n.token] \/ \E m \in inbox : m.token = n.token /\ m.n < n.n

(* What the write of h does to the history.  A write over what another     *)
(* handler wrote since the copy was made, or of Apple's change out of      *)
(* turn, may cost the row a change.  A later renewal of Apple's and        *)
(* every answer of Google's bring the row up to date.                      *)
Record(h) ==
  LET n == job[h]
      t == n.token
      fresh == h \notin overtaken
      complete == PlatformOf[t] = "android" \/ (n.kind = "renew" /\ n.n >= applied[t])
  IN
  /\ behind' = IF fresh /\ complete THEN behind \ {t}
               ELSE IF fresh /\ ~OutOfTurn(n) THEN behind ELSE behind \cup {t}
  /\ Handled(n)
  /\ overtaken' = (overtaken \cup {g \in Handler : pc[g] = "write" /\ job[g].token = t}) \ {h}

(* UpdateSubscription, or UpdateSubscriptionWithEvent: the row is          *)
(* overwritten with the copy and the event is written with it.             *)
Update(h) ==
  LET t == job[h].token IN
  /\ pc[h] = "write"
  /\ sub' = [sub EXCEPT ![t] = row[h]]
  /\ announced' =
       IF event[h] = "none" THEN announced
       ELSE [announced EXCEPT ![t] =
              IF event[h] = "premium" THEN [premium |-> TRUE, end |-> row[h].end] ELSE NoEvent]
  /\ Record(h)
  /\ Idle(h)
  /\ UNCHANGED <<store, changes, verified>>

Acknowledge(h) ==
  /\ Update(h)
  /\ inbox' = inbox \ {job[h]}
  /\ UNCHANGED faults

(* The row is written, but the store sees no 200 and sends again.          *)
AnswerLost(h) ==
  /\ faults < MaxFaults
  /\ Update(h)
  /\ faults' = faults + 1
  /\ UNCHANGED inbox

(* A query fails or the process dies before the write: 500 or no answer.   *)
Fail(h) ==
  /\ pc[h] # "idle"
  /\ faults < MaxFaults
  /\ Idle(h)
  /\ faults' = faults + 1
  /\ overtaken' = overtaken \ {h}
  /\ UNCHANGED <<storeVars, verified, dbVars, behind, applied>>

Finish(h) == GetSubscription(h) \/ Refuse(h) \/ Acknowledge(h)

Next ==
  \/ \E t \in Token : StoreChange(t) \/ VerifySubscription(t) \/ CreateSubscription(t)
  \/ \E h \in Handler :
       \/ \E n \in inbox :
            NotFound(h, n) \/ Ignore(h, n) \/ HandleApple(h, n) \/ HandleGoogle(h, n)
       \/ Finish(h) \/ AnswerLost(h) \/ Fail(h)

Spec == Init /\ [][Next]_vars

(* The store sends a notification again until it sees 200, net/http serves *)
(* every delivery apart from the others, and handlers run to their end.    *)
Deliver(t) ==
  \E h \in Handler, n \in inbox :
    /\ n.token = t
    /\ NotFound(h, n) \/ Ignore(h, n) \/ HandleApple(h, n) \/ HandleGoogle(h, n)

FairSpec ==
  /\ Spec
  /\ \A t \in Token : SF_vars(Deliver(t))
  /\ \A h \in Handler : WF_vars(Finish(h))

-----------------------------------------------------------------------------
(***************************************************************************)
(* Properties.                                                             *)
(***************************************************************************)

(* However notifications and calls interleave, repeat and overtake each    *)
(* other, no row and no event claims a period the store has not sold.      *)
OnlySoldPeriods ==
  \A t \in Token :
    /\ sub[t].end <= store[t].sold
    /\ announced[t].end <= store[t].sold
    /\ sub[t].status # "absent" => sub[t].end > 0

(* Except for cancellations, every change of a row is told: an active or   *)
(* grace row is announced with its own end, and an ended one as ended.     *)
StatusIsAnnounced ==
  \A t \in Token :
    /\ sub[t].status \in {"active", "grace_period"} =>
         announced[t] = [premium |-> TRUE, end |-> sub[t].end]
    /\ sub[t].status \in {"expired", "revoked", "absent"} => ~announced[t].premium

(* Who is entitled according to the row was told so, with the right end,   *)
(* and who is not was told that.                                           *)
AnnouncedAsStored(t) ==
  IF sub[t].status \in Entitling
  THEN announced[t] = [premium |-> TRUE, end |-> sub[t].end]
  ELSE ~announced[t].premium

(* On Apple's side a cancellation needs no event, because what was         *)
(* announced before still holds: the player was entitled, to the same end. *)
(* Only an Apple row that has lost a change may say otherwise.             *)
AppleAnnounced ==
  \A t \in Token \ behind : PlatformOf[t] = "ios" => AnnouncedAsStored(t)

(* google.go:142-144: after a cancellation no event is sent because the    *)
(* benefits last until the end of the period.                              *)
GoogleAnnounced == \A t \in Token : PlatformOf[t] = "android" => AnnouncedAsStored(t)

(* Every notification of t is handled, and the last change was one the     *)
(* handlers react to.                                                      *)
Settled(t) == (\A n \in inbox : n.token # t) /\ store[t].kind \notin Logged

StatusAtStore(state) ==
  CASE state = "active"   -> {"active"}
    [] state = "canceled" -> {"cancelled"}
    [] state = "grace"    -> {"grace_period"}
    [] OTHER              -> {"expired", "revoked"}

(* When all notifications are handled, in whatever order, side by side and *)
(* repeated, the row says what the store says, or the difference has one   *)
(* of the causes in behind: a notification acknowledged without a row or   *)
(* only logged, a handler that wrote over another's change, or a change of *)
(* Apple's applied out of turn.                                            *)
SettledAgrees ==
  \A t \in Token \ behind : Settled(t) =>
    /\ sub[t].status \in StatusAtStore(store[t].state)
    /\ sub[t].status \in Entitling => sub[t].end = store[t].end

(* However often Google's answer for a mismatched row is refused, every     *)
(* other notification is acknowledged some time, once the store stops      *)
(* changing subscriptions.                                                 *)
InboxDrains == <>[](\A n \in inbox : n.token \in Mismatched)

(* state.go:76-77: the change that writes no event, the cancellation,      *)
(* leaves the entitlement as it is on both platforms.                      *)
SilentKeepsEntitlement ==
  [][\A t \in Token :
       sub'[t] # sub[t] /\ announced'[t] = announced[t] =>
         (sub'[t].status \in Entitling) = (sub[t].status \in Entitling)]_vars
=============================================================================
