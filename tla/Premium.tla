------------------------------- MODULE Premium -------------------------------
(***************************************************************************)
(* The premium state of one player, in the two places that keep it: the    *)
(* rows of shop.subscriptions, from which GetProducts lists the            *)
(* subscription as owned, and the account service, which learns of them    *)
(* only from premium-updated events.                                       *)
(*                                                                         *)
(*   Subscribe, GetProducts             usecase/purchase/service.go        *)
(*   HandleNotification                 usecase/subscription/*.go          *)
(*   IsEntitled, writeWithEvent, ...    usecase/subscription/state.go      *)
(*   GetLatestSubscription, ...  repository/postgres/subscription_repo.go  *)
(*                                                                         *)
(* Every write to a row is one step here; Subscription shows what happens  *)
(* inside it, and SubscriptionOrderProofs that however handlers and calls  *)
(* overlap their writes are these ones (RowsMoveAsInPremium).              *)
(* Between the commit of an event and the account service are the relay    *)
(* (Outbox, AtLeastOnce) and the topic: an event may arrive at any time or *)
(* never, in any order and more than once, and a subscriber applies an     *)
(* event id once (data/asyncapi.yaml).                                     *)
(***************************************************************************)
EXTENDS Naturals, Sequences

CONSTANTS
  Token,       (* the player's purchase tokens                             *)
  MaxTime,     (* bound on the clock                                       *)
  MaxEvents    (* bound on the events                                      *)

ASSUME PremiumAssumption == MaxTime \in Nat /\ MaxEvents \in Nat

VARIABLES
  now,         (* the clock                                                *)
  stamps,      (* number of Subscribe calls that took their CreatedAt      *)
  calls,       (* Subscribe calls before their transaction: [token,        *)
               (* created, end]                                            *)
  row,         (* Token -> [status, end, created], "absent" before         *)
  events,      (* premium-updated events in the order of their commits     *)
  seen,        (* events the account service has applied                   *)
  account,     (* its is_premium and premium_expires_at                    *)
  overtaken,   (* an event was applied after one that is newer             *)
  overlapped,  (* a subscription began or changed beside another one, or   *)
               (* changed after a newer one had begun                      *)
  unannounced, (* a cancellation brought another end or a subscription     *)
               (* that was over, and no event says so                      *)
  shortened    (* tokens whose row a cancellation has shortened since the  *)
               (* last event about it                                      *)

rowVars    == <<stamps, calls, row, events, overlapped, unannounced, shortened>>
acctVars   == <<seen, account, overtaken>>
vars == <<now, rowVars, acctVars>>

Status == {"active", "cancelled", "grace_period", "expired", "revoked"}
Entitling == {"active", "cancelled", "grace_period"}
Time == 0 .. MaxTime
Event == [premium : BOOLEAN, end : Time, token : Token]
Row == [status : Status \cup {"absent"}, end : Time, created : 0 .. MaxEvents]

TypeOK ==
  /\ now        \in Time
  /\ stamps     \in 0 .. MaxEvents
  /\ calls      \subseteq [token : Token, created : 1 .. MaxEvents, end : Time]
  /\ row        \in [Token -> Row]
  /\ events     \in Seq(Event)
  /\ Len(events) <= MaxEvents
  /\ seen       \subseteq DOMAIN events
  /\ account    \in [premium : BOOLEAN, end : Time]
  /\ overtaken  \in BOOLEAN
  /\ overlapped \in BOOLEAN
  /\ unannounced \in BOOLEAN
  /\ shortened  \subseteq Token

Init ==
  /\ now        = 0
  /\ stamps     = 0
  /\ calls      = {}
  /\ row        = [t \in Token |-> [status |-> "absent", end |-> 0, created |-> 0]]
  /\ events     = <<>>
  /\ seen       = {}
  /\ account    = [premium |-> FALSE, end |-> 0]
  /\ overtaken  = FALSE
  /\ overlapped = FALSE
  /\ unannounced = FALSE
  /\ shortened  = {}

-----------------------------------------------------------------------------
(* Rows of the player whose status keeps the entitlement, and calls that   *)
(* will add one.                                                           *)
Others(t) ==
  \/ \E u \in Token \ {t} : row[u].status \in Entitling
  \/ \E c \in calls : c.token # t

(* GetLatestSubscription: the row with the greatest CreatedAt.             *)
Latest(t) == row[t].status # "absent" /\ \A u \in Token : row[u].created <= row[t].created

(* Mutant: the event of an ending carries no change of the premium state.  *)
WriteWithEventKeepsPremium(t, status, end, premium) ==
  /\ Len(events) < MaxEvents
  /\ row' = [row EXCEPT ![t].status = status, ![t].end = end]
  /\ events' = Append(events, [premium |-> TRUE, end |-> end, token |-> t])
  /\ shortened' = shortened \ {t}

(* writeWithEvent: the row and its event in one transaction.               *)
WriteWithEvent(t, status, end, premium) ==
  /\ Len(events) < MaxEvents
  /\ row' = [row EXCEPT ![t].status = status, ![t].end = end]
  /\ events' = Append(events, [premium |-> premium, end |-> IF premium THEN end ELSE 0, token |-> t])
  /\ shortened' = shortened \ {t}

(* Subscribe finds no row, has the token verified and takes CreatedAt.     *)
BuildSubscription(t) ==
  /\ row[t].status = "absent"
  /\ stamps < MaxEvents
  /\ stamps' = stamps + 1
  /\ \E end \in 1 .. MaxTime :
       calls' = calls \cup {[token |-> t, created |-> stamps + 1, end |-> end]}
  /\ overlapped' = (overlapped \/ Others(t))
  /\ UNCHANGED <<now, row, events, unannounced, shortened, acctVars>>

(* CreateSubscription, unless another call has recorded the token by now.  *)
CreateSubscription(c) ==
  /\ calls' = calls \ {c}
  /\ IF row[c.token].status = "absent"
     THEN /\ Len(events) < MaxEvents
          /\ row' = [row EXCEPT ![c.token] = [status |-> "active", end |-> c.end, created |-> c.created]]
          /\ events' = Append(events, [premium |-> TRUE, end |-> c.end, token |-> c.token])
          /\ overlapped' = (overlapped \/ Others(c.token))
     ELSE UNCHANGED <<row, events, overlapped>>
  /\ UNCHANGED <<now, stamps, unannounced, shortened, acctVars>>

(* Mutant: a grace period is written with Google's spelling.               *)
ExtendStoreSpelling(t, status) ==
  /\ row[t].status # "absent"
  /\ \E end \in 1 .. MaxTime :
       WriteWithEvent(t, IF status = "active" THEN status ELSE "in_grace_period", end, TRUE)
  /\ overlapped' = (overlapped \/ Others(t) \/ ~Latest(t))
  /\ UNCHANGED <<now, stamps, calls, unannounced, acctVars>>

(* A renewal or recovery, or a grace period at Google.  Apple's handler    *)
(* writes the end of the notification, which may be an earlier one than    *)
(* that of the receipt the subscription began with.                        *)
Extend(t, status) ==
  /\ row[t].status # "absent"
  /\ \E end \in 1 .. MaxTime : WriteWithEvent(t, status, end, TRUE)
  /\ overlapped' = (overlapped \/ Others(t) \/ ~Latest(t))
  /\ UNCHANGED <<now, stamps, calls, unannounced, acctVars>>

(* An expiry, a hold or a revocation, of a row that may be over already.   *)
(* Google says which end it has then, Apple's handler keeps the row's.     *)
Terminate(t, status) ==
  /\ row[t].status # "absent"
  /\ \E end \in Time : WriteWithEvent(t, status, end, FALSE)
  /\ overlapped' = (overlapped \/ Others(t) \/ ~Latest(t))
  /\ UNCHANGED <<now, stamps, calls, unannounced, acctVars>>

(* Mutant: a cancellation ends the benefits in the row.                    *)
CancelAtOnce(t) ==
  /\ row[t].status \in Entitling
  /\ row' = [row EXCEPT ![t].status = "expired"]
  /\ UNCHANGED <<now, stamps, calls, events, overlapped, unannounced, shortened, acctVars>>

(* writeNoEvent: a cancellation is written without an event, whatever the  *)
(* row was.  Apple's handler keeps the end of the row it has read, which   *)
(* another may have changed since, and Google's writes the end it was told *)
(* before: either may be later or earlier than the row's.                  *)
Cancel(t) ==
  /\ row[t].status # "absent"
  /\ \E end \in 1 .. MaxTime :
       /\ row' = [row EXCEPT ![t].status = "cancelled", ![t].end = end]
       /\ unannounced' = (unannounced \/ row[t].status \notin Entitling \/ end # row[t].end)
       /\ shortened' = IF end < row[t].end THEN shortened \cup {t} ELSE shortened
  /\ UNCHANGED <<now, stamps, calls, events, overlapped, acctVars>>

Tick ==
  /\ now < MaxTime
  /\ now' = now + 1
  /\ UNCHANGED <<rowVars, acctVars>>

-----------------------------------------------------------------------------
(* The account service gets an event; one it has applied, it skips.        *)
Deliver(e) ==
  /\ e \in DOMAIN events \ seen
  /\ seen' = seen \cup {e}
  /\ account' = [premium |-> events[e].premium, end |-> events[e].end]
  /\ overtaken' = (overtaken \/ \E d \in seen : d > e)
  /\ UNCHANGED <<now, rowVars>>

Next ==
  \/ \E t \in Token :
       \/ BuildSubscription(t) \/ Cancel(t)
       \/ \E s \in {"active", "grace_period"} : Extend(t, s)
       \/ \E s \in {"expired", "revoked"} : Terminate(t, s)
  \/ \E c \in calls : CreateSubscription(c)
  \/ \E e \in DOMAIN events : Deliver(e)
  \/ Tick

Spec == Init /\ [][Next]_vars

-----------------------------------------------------------------------------
(***************************************************************************)
(* Properties.                                                             *)
(***************************************************************************)
IsEntitled(r) == r.status \in Entitling /\ r.end > now

(* GetProducts lists the subscription as owned.                            *)
ListShows == \E t \in Token : Latest(t) /\ IsEntitled(row[t])

AccountShows == account.premium /\ account.end > now

(* The account service has every event, each after all older ones.         *)
InStep == seen = DOMAIN events /\ ~overtaken

(* Whoever is premium at the account service has a row that is entitled as *)
(* long, unless events overtook each other, a newer one that ends or       *)
(* shortens it is still on its way, or a cancellation, written over what   *)
(* another handler wrote, has shortened a row and no event says so.        *)
PremiumIsPaid ==
  AccountShows /\ ~overtaken /\ shortened = {} =>
    \/ \E t \in Token : IsEntitled(row[t]) /\ row[t].end >= account.end
    \/ \E e \in DOMAIN events :
         /\ \A d \in seen : d < e
         /\ ~events[e].premium \/ events[e].end < account.end

(* With one subscription after the other, the product list and the account *)
(* service agree as soon as all events have arrived in order: the end of a *)
(* period and a cancellation that changes neither end nor entitlement,     *)
(* which send no event, do not part them.                                  *)
ViewsAgree == InStep /\ ~overlapped /\ ~unannounced => ListShows = AccountShows

(* data/asyncapi.yaml:32-33: a premium-updated event is sent when a change  *)
(* of a subscription changes the player's is_premium, so one that says     *)
(* FALSE leaves the player without entitlement.                            *)
EndingEndsPremium ==
  [][ \A e \in DOMAIN events' \ DOMAIN events : ~events'[e].premium => ~ListShows' ]_vars
=============================================================================
