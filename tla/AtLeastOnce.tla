----------------------------- MODULE AtLeastOnce -----------------------------
(***************************************************************************)
(* What the transactional outbox promises, without tables, workers, leases *)
(* or retries.  An event accepted by a committed transaction is resolved:  *)
(* either it is confirmed, and then it was handed to the topic before, or  *)
(* the relay gives up on it after too many failed attempts.  Nothing is    *)
(* sent for a transaction that did not commit.                             *)
(***************************************************************************)

CONSTANT Event

VARIABLES
  accepted,    (* events whose transaction committed                       *)
  sent,        (* events of which the topic has at least one copy          *)
  confirmed,   (* events the outbox regards as delivered                   *)
  givenUp      (* events the outbox will not claim again                   *)

vars == <<accepted, sent, confirmed, givenUp>>

Init ==
  /\ accepted  = {}
  /\ sent      = {}
  /\ confirmed = {}
  /\ givenUp   = {}

(* A transaction commits with its events: all of them or none.             *)
Accept ==
  /\ \E S \in SUBSET (Event \ accepted) : S # {} /\ accepted' = accepted \cup S
  /\ UNCHANGED <<sent, confirmed, givenUp>>

Send(e) ==
  /\ e \in accepted \ sent
  /\ sent' = sent \cup {e}
  /\ UNCHANGED <<accepted, confirmed, givenUp>>

Confirm(e) ==
  /\ e \in sent \ confirmed
  /\ confirmed' = confirmed \cup {e}
  /\ UNCHANGED <<accepted, sent, givenUp>>

GiveUp(e) ==
  /\ e \in accepted \ givenUp
  /\ givenUp' = givenUp \cup {e}
  /\ UNCHANGED <<accepted, sent, confirmed>>

Next ==
  \/ Accept
  \/ \E e \in Event : Send(e) \/ Confirm(e) \/ GiveUp(e)

(* The step that settles the fate of an event nobody has settled yet.      *)
Resolve(e) ==
  /\ e \notin confirmed \cup givenUp
  /\ Confirm(e) \/ GiveUp(e)

SafeSpec == Init /\ [][Next]_vars

Spec == SafeSpec /\ \A e \in Event : WF_vars(Resolve(e))
=============================================================================
