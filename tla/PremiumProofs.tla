---------------------------- MODULE PremiumProofs ----------------------------
(***************************************************************************)
(* Proofs about Premium for any tokens and bounds.                         *)
(***************************************************************************)
EXTENDS Premium, TLAPS

(* The account service holds what the newest event it has applied says.    *)
AccountInv ==
  ~overtaken =>
    \/ seen = {} /\ account = [premium |-> FALSE, end |-> 0]
    \/ \E e \in seen :
         /\ \A d \in seen : d <= e
         /\ account = [premium |-> events[e].premium, end |-> events[e].end]

(* Event d ends what event e promised, or makes it shorter.                *)
TakesBack(d, e) == ~d.premium \/ d.end < e.end

(* What an event has promised the row still gives, or a later event took   *)
(* it back, or a cancellation.                                             *)
EventInv ==
  \A e \in DOMAIN events : events[e].premium =>
    \/ /\ row[events[e].token].status \in Entitling
       /\ row[events[e].token].end >= events[e].end
    \/ events[e].token \in shortened
    \/ \E d \in DOMAIN events : d > e /\ TakesBack(events[d], events[e])

(* Subscriptions follow one another, and every change has an event.        *)
Orderly == ~overlapped /\ ~unannounced

(* CreatedAt is taken once.                                                *)
StampInv ==
  /\ \A c \in calls : c.created <= stamps
  /\ \A t \in Token : row[t].created <= stamps

(* While all is orderly: a call under way is for the     *)
(* newest of them and beside no other, ...                                 *)
CallInv ==
  Orderly =>
    \A c \in calls : \A u \in Token : u # c.token =>
      row[u].created < c.created /\ row[u].status \notin Entitling

OneCallInv == Orderly => \A c, d \in calls : c.token = d.token

(* ... the last event is about the newest row, and tells its entitlement;  *)
(* no other row has one.                                                   *)
LastTells ==
  LET e == events[Len(events)] IN
  /\ row[e.token].status # "absent"
  /\ \A u \in Token : u # e.token =>
       row[u].created < row[e.token].created /\ row[u].status \notin Entitling
  /\ e.premium => row[e.token].status \in Entitling /\ row[e.token].end = e.end
  /\ ~e.premium => row[e.token].status \notin Entitling

LastInv ==
  Orderly =>
    IF events = <<>> THEN \A t \in Token : row[t].status = "absent" ELSE LastTells

IInv == TypeOK /\ AccountInv /\ EventInv /\ StampInv /\ CallInv /\ OneCallInv /\ LastInv

-----------------------------------------------------------------------------
USE PremiumAssumption DEF PremiumAssumption, Orderly

LEMMA EventTypes ==
  ASSUME TypeOK
  PROVE  /\ \A e \in DOMAIN events :
              /\ events[e] \in Event
              /\ events[e].token \in Token /\ events[e].premium \in BOOLEAN /\ events[e].end \in Nat
         /\ events # <<>> => Len(events) \in DOMAIN events
<1>1. events \in Seq(Event)
  BY DEF TypeOK
<1>2. \A e \in DOMAIN events : events[e] \in Event
  BY <1>1
<1>3. \A ev \in Event : ev.token \in Token /\ ev.premium \in BOOLEAN /\ ev.end \in Nat
  BY DEF Event, Time
<1>4. events # <<>> => Len(events) \in DOMAIN events
  BY <1>1
<1> QED
  BY <1>2, <1>3, <1>4

LEMMA InitIInv == Init => IInv
<1> SUFFICES ASSUME Init PROVE IInv
  OBVIOUS
<1>1. TypeOK
  <2>1. row \in [Token -> Row] /\ account \in [premium : BOOLEAN, end : Time]
    BY DEF Init, Row, Status, Time
  <2>2. events \in Seq(Event) /\ Len(events) <= MaxEvents /\ seen \subseteq DOMAIN events
    BY DEF Init
  <2>3. now \in Time /\ stamps \in 0 .. MaxEvents
    BY DEF Init, Time
  <2>4. calls \subseteq [token : Token, created : 1 .. MaxEvents, end : Time]
    BY DEF Init
  <2>5. overtaken \in BOOLEAN /\ overlapped \in BOOLEAN /\ unannounced \in BOOLEAN /\ shortened \subseteq Token
    BY DEF Init
  <2> QED
    BY <2>1, <2>2, <2>3, <2>4, <2>5 DEF TypeOK
<1>2. AccountInv /\ EventInv /\ StampInv
  BY DEF Init, AccountInv, EventInv, StampInv
<1>3. CallInv /\ OneCallInv /\ LastInv
  BY DEF Init, CallInv, OneCallInv, LastInv
<1> QED
  BY <1>1, <1>2, <1>3 DEF IInv

(* What a row write with its event does to the two tables.                 *)
LEMMA WriteEffect ==
  ASSUME TypeOK, NEW t \in Token, NEW r \in Row, NEW ev \in Event,
         Len(events) < MaxEvents,
         row' = [row EXCEPT ![t] = r],
         events' = Append(events, ev)
  PROVE  /\ row' \in [Token -> Row] /\ events' \in Seq(Event) /\ Len(events') <= MaxEvents
         /\ row'[t] = r
         /\ \A u \in Token : u # t => row'[u] = row[u]
         /\ Len(events') = Len(events) + 1
         /\ events'[Len(events')] = ev
         /\ events' # <<>>
         /\ \A e \in DOMAIN events : e \in DOMAIN events' /\ events'[e] = events[e] /\ e < Len(events')
         /\ \A e \in DOMAIN events' : e \in DOMAIN events \/ e = Len(events')
         /\ Len(events') \in DOMAIN events' /\ Len(events') \notin DOMAIN events
         /\ DOMAIN events = 1 .. Len(events) /\ DOMAIN events' = 1 .. Len(events')
<1>1. events \in Seq(Event) /\ Len(events) \in Nat /\ row \in [Token -> Row]
  BY DEF TypeOK
<1>2. events' \in Seq(Event) /\ Len(events') = Len(events) + 1
  BY <1>1
<1>3. /\ DOMAIN events = 1 .. Len(events)
      /\ DOMAIN events' = 1 .. Len(events')
      /\ events'[Len(events')] = ev
      /\ \A e \in DOMAIN events : events'[e] = events[e]
  BY <1>1, <1>2
<1>4. row' \in [Token -> Row] /\ row'[t] = r /\ \A u \in Token : u # t => row'[u] = row[u]
  BY <1>1
<1>5. events' # <<>>
  BY <1>1, <1>2
<1>6. Len(events') <= MaxEvents
  BY <1>1, <1>2
<1>7. /\ \A e \in DOMAIN events : e \in DOMAIN events' /\ e < Len(events')
      /\ \A e \in DOMAIN events' : e \in DOMAIN events \/ e = Len(events')
      /\ Len(events') \in DOMAIN events' /\ Len(events') \notin DOMAIN events
  BY <1>1, <1>2, <1>3
<1> QED
  BY <1>2, <1>3, <1>4, <1>5, <1>6, <1>7

(* The account service does not see a write.                               *)
LEMMA WriteAccount ==
  ASSUME TypeOK, AccountInv, NEW ev \in Event, Len(events) < MaxEvents,
         events' = Append(events, ev), UNCHANGED acctVars
  PROVE  AccountInv' /\ seen' \subseteq DOMAIN events'
<1>1. events \in Seq(Event) /\ seen \subseteq DOMAIN events
  BY DEF TypeOK
<1>2. \A e \in DOMAIN events : e \in DOMAIN events' /\ events'[e] = events[e]
  BY <1>1
<1> QED
  BY <1>1, <1>2 DEF AccountInv, acctVars

(* An event, and the row it is about, keep EventInv.                       *)
LEMMA WriteEvents ==
  ASSUME TypeOK, EventInv, NEW t \in Token, NEW r \in Row, NEW ev \in Event,
         Len(events) < MaxEvents,
         row' = [row EXCEPT ![t] = r],
         events' = Append(events, ev),
         ev.token = t,
         ev.premium => r.status \in Entitling /\ r.end = ev.end,
         \A u \in shortened : u # t => u \in shortened'
  PROVE  EventInv'
<1> SUFFICES ASSUME NEW e \in DOMAIN events', events'[e].premium
             PROVE  \/ /\ row'[events'[e].token].status \in Entitling
                       /\ row'[events'[e].token].end >= events'[e].end
                    \/ events'[e].token \in shortened'
                    \/ \E d \in DOMAIN events' : d > e /\ TakesBack(events'[d], events'[e])
  BY DEF EventInv
<1>w. /\ row'[t] = r
      /\ \A u \in Token : u # t => row'[u] = row[u]
      /\ events'[Len(events')] = ev
      /\ \A i \in DOMAIN events : i \in DOMAIN events' /\ events'[i] = events[i] /\ i < Len(events')
      /\ e \in DOMAIN events \/ e = Len(events')
      /\ Len(events') \in DOMAIN events'
  BY WriteEffect
<1>1. CASE e \notin DOMAIN events
  <2>1. events'[e] = ev
    BY <1>1, <1>w
  <2>2. r.end \in Nat
    BY DEF Row, Time
  <2> QED
    BY <1>w, <2>1, <2>2
<1>2. CASE e \in DOMAIN events /\ ~ev.premium
  BY <1>2, <1>w DEF TakesBack
<1>3. CASE e \in DOMAIN events /\ ev.premium
  <2>1. events'[e] = events[e] /\ events[e].premium
    BY <1>3, <1>w
  <2>2. CASE \E d \in DOMAIN events : d > e /\ TakesBack(events[d], events[e])
    BY <2>1, <2>2, <1>w
  <2>3. CASE events[e].token = t
    <3>1. events[e].end \in Nat /\ r.end \in Nat
      BY <1>3, EventTypes DEF Row, Time
    <3>2. CASE r.end >= events[e].end
      BY <3>1, <2>3, <3>2, <2>1, <1>3, <1>w
    <3>3. CASE ~(r.end >= events[e].end)
      <4>1. TakesBack(ev, events[e])
        BY <3>1, <3>3, <1>3 DEF TakesBack
      <4> QED
        BY <4>1, <2>1, <1>3, <1>w
    <3> QED
      BY <3>2, <3>3
  <2>4. CASE events[e].token # t /\ events[e].token \in shortened
    BY <2>1, <2>4
  <2>5. CASE /\ events[e].token # t
             /\ row[events[e].token].status \in Entitling /\ row[events[e].token].end >= events[e].end
    <3>1. events[e].token \in Token
      BY <1>3, EventTypes
    <3> QED
      BY <3>1, <2>5, <2>1, <1>w
  <2> QED
    BY <2>1, <2>2, <2>3, <2>4, <2>5, <1>3 DEF EventInv
<1> QED
  BY <1>1, <1>2, <1>3

(* A write about the newest row, when no other row is entitled.            *)
LEMMA WriteLast ==
  ASSUME TypeOK, NEW t \in Token, NEW r \in Row, NEW ev \in Event,
         Len(events) < MaxEvents,
         row' = [row EXCEPT ![t] = r],
         events' = Append(events, ev),
         ev.token = t,
         r.status # "absent",
         IF ev.premium THEN r.status \in Entitling /\ r.end = ev.end ELSE r.status \notin Entitling,
         \A u \in Token : u # t => row[u].created < r.created /\ row[u].status \notin Entitling
  PROVE  LastInv'
<1>w. /\ row'[t] = r
      /\ \A u \in Token : u # t => row'[u] = row[u]
      /\ events'[Len(events')] = ev
      /\ events' # <<>>
  BY WriteEffect
<1>1. LastTells'
  BY <1>w DEF LastTells
<1> QED
  BY <1>1, <1>w DEF LastInv

-----------------------------------------------------------------------------
LEMMA BuildSubscriptionIInv ==
  ASSUME IInv, NEW t \in Token, BuildSubscription(t)
  PROVE  IInv'
<1> USE DEF IInv
<1>1. PICK end \in 1 .. MaxTime :
        calls' = calls \cup {[token |-> t, created |-> stamps + 1, end |-> end]}
  BY DEF BuildSubscription
<1>2. /\ stamps < MaxEvents /\ stamps' = stamps + 1
      /\ overlapped' = (overlapped \/ Others(t))
      /\ UNCHANGED <<now, row, events, unannounced, shortened, seen, account, overtaken>>
  BY DEF BuildSubscription, acctVars
<1> DEFINE c0 == [token |-> t, created |-> stamps + 1, end |-> end]
<1>3. stamps \in Nat /\ row \in [Token -> Row] /\ overlapped \in BOOLEAN
  BY DEF TypeOK
<1>4. c0 \in [token : Token, created : 1 .. MaxEvents, end : Time]
  BY <1>2, <1>3 DEF Time
<1>5. TypeOK'
  <2>1. stamps' \in 0 .. MaxEvents
    BY <1>2, <1>3
  <2>2. calls' \subseteq [token : Token, created : 1 .. MaxEvents, end : Time]
    BY <1>1, <1>4 DEF TypeOK
  <2>3. overlapped' \in BOOLEAN
    BY <1>2 DEF Others
  <2> QED
    BY <1>2, <2>1, <2>2, <2>3 DEF TypeOK
<1>6. AccountInv' /\ EventInv'
  BY <1>2 DEF AccountInv, EventInv
<1>7. \A u \in Token : row[u].created \in Nat /\ row[u].created <= stamps
  BY <1>3 DEF StampInv, Row
<1>8. StampInv'
  <2>1. \A c \in calls : c.created \in Nat
    BY DEF TypeOK
  <2> QED
    BY <1>1, <1>2, <1>3, <1>7, <2>1 DEF StampInv
<1>9. LastInv'
  BY <1>2 DEF LastInv, LastTells
<1>10. CallInv' /\ OneCallInv'
  <2> SUFFICES ASSUME Orderly' PROVE CallInv' /\ OneCallInv'
    BY DEF CallInv, OneCallInv
  <2>1. Orderly /\ ~Others(t)
    BY <1>2, <1>3
  <2>2. /\ \A u \in Token : u # t => row[u].status \notin Entitling
        /\ \A c \in calls : c.token = t
    BY <2>1 DEF Others
  <2>3. CallInv'
    BY <2>1, <2>2, <1>1, <1>2, <1>3, <1>7 DEF CallInv
  <2>4. OneCallInv'
    BY <2>2, <1>1 DEF OneCallInv
  <2> QED
    BY <2>3, <2>4
<1> QED
  BY <1>5, <1>6, <1>8, <1>9, <1>10

LEMMA CreateSubscriptionIInv ==
  ASSUME IInv, NEW c \in calls, CreateSubscription(c)
  PROVE  IInv'
<1> USE DEF IInv
<1> DEFINE t == c.token
           r == [status |-> "active", end |-> c.end, created |-> c.created]
           ev == [premium |-> TRUE, end |-> c.end, token |-> c.token]
<1>1. t \in Token /\ c.created \in 1 .. MaxEvents /\ c.end \in Time
  BY DEF TypeOK
<1>2. calls' = calls \ {c} /\ UNCHANGED <<now, stamps, unannounced, shortened, acctVars>>
  BY DEF CreateSubscription
<1>3. calls' \subseteq [token : Token, created : 1 .. MaxEvents, end : Time] /\ calls' \subseteq calls
  BY <1>2 DEF TypeOK
<1>4. CASE row[t].status # "absent"
  <2>1. UNCHANGED <<row, events, overlapped>>
    BY <1>4 DEF CreateSubscription
  <2>2. TypeOK'
    BY <1>2, <1>3, <2>1 DEF TypeOK, acctVars
  <2>3. AccountInv' /\ EventInv' /\ StampInv'
    BY <1>2, <1>3, <2>1 DEF AccountInv, EventInv, StampInv, acctVars
  <2>4. CallInv' /\ OneCallInv' /\ LastInv'
    BY <1>2, <1>3, <2>1 DEF CallInv, OneCallInv, LastInv, LastTells
  <2> QED
    BY <2>2, <2>3, <2>4
<1>5. CASE row[t].status = "absent"
  <2>1. /\ Len(events) < MaxEvents
        /\ row' = [row EXCEPT ![t] = r]
        /\ events' = Append(events, ev)
        /\ overlapped' = (overlapped \/ Others(t))
    BY <1>5 DEF CreateSubscription
  <2>2. r \in Row /\ ev \in Event
    BY <1>1 DEF Row, Status, Event
  <2>3. r.status = "active" /\ r.end = c.end /\ r.created = c.created
    OBVIOUS
  <2>4. ev.premium = TRUE /\ ev.end = c.end /\ ev.token = t
    OBVIOUS
  <2> HIDE DEF t, r, ev
  <2>5. /\ row' \in [Token -> Row] /\ events' \in Seq(Event) /\ Len(events') <= MaxEvents
        /\ row'[t] = r
        /\ \A u \in Token : u # t => row'[u] = row[u]
    BY <1>1, <2>1, <2>2, WriteEffect
  <2>6. AccountInv' /\ seen' \subseteq DOMAIN events'
    BY <1>2, <2>1, <2>2, WriteAccount
  <2>7. overlapped' \in BOOLEAN /\ (Orderly' => Orderly /\ ~Others(t))
    BY <1>2, <2>1 DEF TypeOK, Others
  <2>8. TypeOK'
    BY <1>2, <1>3, <2>5, <2>6, <2>7 DEF TypeOK, acctVars
  <2>9. EventInv'
    BY <1>1, <1>2, <1>5, <2>1, <2>2, <2>3, <2>4, WriteEvents DEF Entitling
  <2>10. StampInv'
    BY <1>1, <1>2, <2>3, <2>5 DEF StampInv
  <2>11. OneCallInv'
    BY <1>3, <2>7 DEF OneCallInv
  <2>12. CallInv' /\ LastInv'
    <3> SUFFICES ASSUME Orderly' PROVE CallInv' /\ LastInv'
      BY DEF CallInv, LastInv
    <3>1. \A u \in Token : u # t => row[u].created < r.created /\ row[u].status \notin Entitling
      BY <2>3, <2>7 DEF CallInv, t
    <3>2. \A d \in calls' : d.token = t
      BY <1>3, <2>7 DEF OneCallInv, t
    <3>3. CallInv'
      <4> SUFFICES ASSUME NEW d \in calls', NEW u \in Token, u # d.token
                   PROVE  row'[u].created < d.created /\ row'[u].status \notin Entitling
        BY DEF CallInv
      <4>1. row'[u] = row[u] /\ d \in calls
        BY <1>3, <2>5, <3>2
      <4> QED
        BY <4>1, <2>7 DEF CallInv
    <3>4. LastInv'
      BY <1>1, <2>1, <2>2, <2>3, <2>4, <3>1, WriteLast DEF Entitling
    <3> QED
      BY <3>3, <3>4
  <2> QED
    BY <2>6, <2>8, <2>9, <2>10, <2>11, <2>12
<1> QED
  BY <1>4, <1>5

(* Extend and Terminate: a write with its event to a row that exists.      *)
LEMMA ChangeIInv ==
  ASSUME IInv, NEW t \in Token, NEW status \in Status, NEW end \in Time, NEW premium \in BOOLEAN,
         WriteWithEvent(t, status, end, premium),
         row[t].status # "absent",
         IF premium THEN status \in Entitling ELSE status \notin Entitling,
         overlapped' = (overlapped \/ Others(t) \/ ~Latest(t)),
         UNCHANGED <<now, stamps, calls, unannounced, acctVars>>
  PROVE  IInv'
<1> USE DEF IInv
<1> DEFINE r == [status |-> status, end |-> end, created |-> row[t].created]
           ev == [premium |-> premium, end |-> IF premium THEN end ELSE 0, token |-> t]
<1>0. row \in [Token -> Row] /\ row[t] \in Row
  BY DEF TypeOK
<1>o. overlapped' \in BOOLEAN /\ (Orderly' => Orderly /\ Latest(t) /\ ~Others(t))
  BY DEF TypeOK, Others, Latest
<1>1. /\ Len(events) < MaxEvents
      /\ row' = [row EXCEPT ![t] = r]
      /\ events' = Append(events, ev)
      /\ shortened' = shortened \ {t}
  <2>1. [row EXCEPT ![t].status = status, ![t].end = end] = [row EXCEPT ![t] = r]
    <3>1. [[row[t] EXCEPT !.status = status] EXCEPT !.end = end] = r
      <4> DEFINE m == [status |-> status, end |-> row[t].end, created |-> row[t].created]
      <4>1. row[t] = [status |-> row[t].status, end |-> row[t].end, created |-> row[t].created]
        BY <1>0 DEF Row
      <4>2. [row[t] EXCEPT !.status = status] = m
        BY <4>1
      <4>3. [m EXCEPT !.end = end] = r
        OBVIOUS
      <4> QED
        BY <4>2, <4>3
    <3> QED
      BY <1>0, <3>1
  <2> QED
    BY <2>1 DEF WriteWithEvent
<1>2. r \in Row /\ ev \in Event
  BY <1>0 DEF Row, Event, Time
<1>3. r.status = status /\ r.end = end /\ r.created = row[t].created
  OBVIOUS
<1>4. ev.premium = premium /\ ev.token = t /\ (premium => ev.end = end)
  OBVIOUS
<1> HIDE DEF r, ev
<1>5. /\ row' \in [Token -> Row] /\ events' \in Seq(Event) /\ Len(events') <= MaxEvents
      /\ row'[t] = r
      /\ \A u \in Token : u # t => row'[u] = row[u]
  BY <1>1, <1>2, WriteEffect
<1>6. AccountInv' /\ seen' \subseteq DOMAIN events'
  BY <1>1, <1>2, WriteAccount
<1>7. TypeOK'
  <2>1. shortened' \subseteq Token
    BY <1>1 DEF TypeOK
  <2> QED
    BY <1>o, <1>5, <1>6, <2>1 DEF TypeOK, acctVars
<1>8. EventInv'
  BY <1>1, <1>2, <1>3, <1>4, WriteEvents
<1>9. StampInv'
  BY <1>3, <1>5 DEF StampInv
<1>10. OneCallInv'
  BY <1>o DEF OneCallInv
<1>11. CallInv' /\ LastInv'
  <2> SUFFICES ASSUME Orderly' PROVE CallInv' /\ LastInv'
    BY DEF CallInv, LastInv
  <2>1. events # <<>> /\ LastTells
    BY <1>o DEF LastInv
  <2>2. events[Len(events)].token \in Token
    BY <2>1, EventTypes
  <2>3. \A u \in Token : row[u].created \in Nat
    BY DEF TypeOK, Row
  <2>4. t = events[Len(events)].token
    BY <1>o, <2>1, <2>2, <2>3 DEF LastTells, Latest
  <2>5. \A u \in Token : u # t => row[u].created < row[t].created /\ row[u].status \notin Entitling
    BY <2>1, <2>4 DEF LastTells
  <2>6. \A c \in calls : c.token = t
    BY <1>o DEF Others
  <2>7. CallInv'
    <3> SUFFICES ASSUME NEW d \in calls, NEW u \in Token, u # d.token
                 PROVE  row'[u].created < d.created /\ row'[u].status \notin Entitling
      BY DEF CallInv
    <3>1. row'[u] = row[u]
      BY <1>5, <2>6
    <3> QED
      BY <1>o, <3>1 DEF CallInv
  <2>8. status # "absent"
    BY DEF Status
  <2>9. LastInv'
    BY <1>1, <1>2, <1>3, <1>4, <2>5, <2>8, WriteLast
  <2> QED
    BY <2>7, <2>9
<1> QED
  BY <1>6, <1>7, <1>8, <1>9, <1>10, <1>11

LEMMA ExtendIInv ==
  ASSUME IInv, NEW t \in Token, NEW s \in {"active", "grace_period"}, Extend(t, s)
  PROVE  IInv'
<1>1. PICK end \in 1 .. MaxTime : WriteWithEvent(t, s, end, TRUE)
  BY DEF Extend
<1>2. end \in Time /\ s \in Status /\ s \in Entitling
  BY DEF Time, Status, Entitling
<1>3. /\ row[t].status # "absent"
      /\ overlapped' = (overlapped \/ Others(t) \/ ~Latest(t))
      /\ UNCHANGED <<now, stamps, calls, unannounced, acctVars>>
  BY DEF Extend
<1> QED
  BY <1>1, <1>2, <1>3, ChangeIInv

LEMMA TerminateIInv ==
  ASSUME IInv, NEW t \in Token, NEW s \in {"expired", "revoked"}, Terminate(t, s)
  PROVE  IInv'
<1>1. PICK end \in Time : WriteWithEvent(t, s, end, FALSE)
  BY DEF Terminate
<1>2. s \in Status /\ s \notin Entitling
  BY DEF Status, Entitling
<1>3. /\ row[t].status # "absent"
      /\ overlapped' = (overlapped \/ Others(t) \/ ~Latest(t))
      /\ UNCHANGED <<now, stamps, calls, unannounced, acctVars>>
  BY DEF Terminate
<1> QED
  BY <1>1, <1>2, <1>3, ChangeIInv

(* A cancellation gives at least what the row gave, or shortens it; while  *)
(* all is orderly it changes neither end nor entitlement of a row.         *)
LEMMA CancelIInv ==
  ASSUME IInv, NEW t \in Token, Cancel(t)
  PROVE  IInv'
<1> USE DEF IInv
<1>1. PICK end \in 1 .. MaxTime :
        /\ row' = [row EXCEPT ![t].status = "cancelled", ![t].end = end]
        /\ unannounced' = (unannounced \/ row[t].status \notin Entitling \/ end # row[t].end)
        /\ shortened' = IF end < row[t].end THEN shortened \cup {t} ELSE shortened
  BY DEF Cancel
<1>2. row[t].status # "absent" /\ UNCHANGED <<now, stamps, calls, events, overlapped, acctVars>>
  BY DEF Cancel
<1>3. row \in [Token -> Row] /\ row[t] \in Row /\ row[t].end \in Nat /\ end \in Time
  BY DEF TypeOK, Row, Time
<1>4. /\ row' \in [Token -> Row]
      /\ row'[t].status = "cancelled" /\ row'[t].end = end /\ row'[t].created = row[t].created
      /\ \A u \in Token : u # t => row'[u] = row[u]
  BY <1>1, <1>3 DEF Row, Status
<1>5. /\ \A u \in Token : row'[u].created = row[u].created
      /\ \A u \in Token : row'[u].status = "absent" <=> row[u].status = "absent"
      /\ shortened \subseteq shortened'
      /\ \A u \in Token : row[u].status \in Entitling =>
           /\ row'[u].status \in Entitling
           /\ u \in shortened' \/ row'[u].end >= row[u].end
  <2>1. \A u \in Token : row[u].end \in Nat
    BY <1>3 DEF Row, Time
  <2>2. t \in shortened' \/ end >= row[t].end
    BY <1>1, <1>3
  <2> QED
    BY <2>1, <2>2, <1>1, <1>2, <1>4 DEF Entitling
<1>6. /\ unannounced' \in BOOLEAN
      /\ Orderly' => /\ Orderly
                     /\ \A u \in Token : row'[u].status \in Entitling <=> row[u].status \in Entitling
                     /\ \A u \in Token : row'[u].end = row[u].end
  <2>1. unannounced \in BOOLEAN
    BY DEF TypeOK
  <2>2. Orderly' => row[t].status \in Entitling /\ end = row[t].end
    BY <1>1
  <2> QED
    BY <2>1, <2>2, <1>1, <1>2, <1>4, <1>5
<1>7. TypeOK'
  <2>1. shortened' \subseteq Token
    BY <1>1 DEF TypeOK
  <2> QED
    BY <1>2, <1>4, <1>6, <2>1 DEF TypeOK, acctVars
<1>8. AccountInv' /\ StampInv' /\ OneCallInv'
  BY <1>2, <1>5, <1>6 DEF AccountInv, StampInv, OneCallInv, acctVars
<1>9. EventInv'
  <2> SUFFICES ASSUME NEW e \in DOMAIN events, events[e].premium,
                      row[events[e].token].status \in Entitling, row[events[e].token].end >= events[e].end
               PROVE  /\ row'[events[e].token].status \in Entitling
                      /\ \/ events[e].token \in shortened'
                         \/ row'[events[e].token].end >= events[e].end
    BY <1>2, <1>5 DEF EventInv
  <2>1. events[e].token \in Token /\ events[e].end \in Nat
    BY EventTypes
  <2>2. row[events[e].token].end \in Nat /\ row'[events[e].token].end \in Nat
    BY <2>1, <1>4 DEF TypeOK, Row, Time
  <2> QED
    BY <2>1, <2>2, <1>5
<1>10. CallInv'
  BY <1>2, <1>5, <1>6 DEF CallInv
<1>11. LastInv'
  <2>1. events # <<>> => events[Len(events)].token \in Token
    BY EventTypes
  <2>2. Orderly' /\ events # <<>> /\ LastTells => LastTells'
    BY <2>1, <1>2, <1>5, <1>6 DEF LastTells
  <2> QED
    BY <2>2, <1>2, <1>5, <1>6 DEF LastInv
<1> QED
  BY <1>7, <1>8, <1>9, <1>10, <1>11

LEMMA DeliverIInv ==
  ASSUME IInv, NEW e \in DOMAIN events, Deliver(e)
  PROVE  IInv'
<1> USE DEF IInv
<1>1. /\ e \notin seen /\ seen' = seen \cup {e}
      /\ account' = [premium |-> events[e].premium, end |-> events[e].end]
      /\ overtaken' = (overtaken \/ \E d \in seen : d > e)
      /\ UNCHANGED <<now, stamps, calls, row, events, overlapped, unannounced, shortened>>
  BY DEF Deliver, rowVars
<1>2. events \in Seq(Event) /\ events[e] \in Event /\ seen \subseteq DOMAIN events
  BY DEF TypeOK
<1>3. TypeOK'
  <2>1. account' \in [premium : BOOLEAN, end : Time]
    BY <1>1, <1>2 DEF Event
  <2>2. overtaken' \in BOOLEAN
    BY <1>1 DEF TypeOK
  <2> QED
    BY <1>1, <1>2, <2>1, <2>2 DEF TypeOK
<1>4. AccountInv'
  <2> SUFFICES ASSUME ~overtaken' PROVE \A d \in seen' : d <= e
    BY <1>1 DEF AccountInv
  <2>1. \A d \in seen : ~(d > e)
    BY <1>1
  <2>2. \A d \in seen' : d \in Nat
    BY <1>1, <1>2
  <2> QED
    BY <1>1, <1>2, <2>1, <2>2
<1>5. EventInv' /\ StampInv'
  BY <1>1 DEF EventInv, StampInv
<1>6. CallInv' /\ OneCallInv' /\ LastInv'
  BY <1>1 DEF CallInv, OneCallInv, LastInv, LastTells
<1> QED
  BY <1>3, <1>4, <1>5, <1>6

LEMMA QuietIInv ==
  ASSUME IInv, now' \in Time, UNCHANGED <<rowVars, acctVars>>
  PROVE  IInv'
<1> USE DEF IInv, rowVars, acctVars
<1>1. TypeOK'
  BY DEF TypeOK
<1>2. AccountInv' /\ EventInv' /\ StampInv'
  BY DEF AccountInv, EventInv, StampInv
<1>3. CallInv' /\ OneCallInv' /\ LastInv'
  BY DEF CallInv, OneCallInv, LastInv, LastTells
<1> QED
  BY <1>1, <1>2, <1>3

LEMMA NextIInv == IInv /\ [Next]_vars => IInv'
<1> SUFFICES ASSUME IInv, [Next]_vars PROVE IInv'
  OBVIOUS
<1>1. CASE \E t \in Token : BuildSubscription(t)
  BY <1>1, BuildSubscriptionIInv
<1>2. CASE \E t \in Token : Cancel(t)
  BY <1>2, CancelIInv
<1>3. CASE \E t \in Token : \E s \in {"active", "grace_period"} : Extend(t, s)
  BY <1>3, ExtendIInv
<1>4. CASE \E t \in Token : \E s \in {"expired", "revoked"} : Terminate(t, s)
  BY <1>4, TerminateIInv
<1>5. CASE \E c \in calls : CreateSubscription(c)
  BY <1>5, CreateSubscriptionIInv
<1>6. CASE \E e \in DOMAIN events : Deliver(e)
  BY <1>6, DeliverIInv
<1>7. CASE Tick
  <2>1. now' \in Time /\ UNCHANGED <<rowVars, acctVars>>
    BY <1>7 DEF Tick, IInv, TypeOK, Time
  <2> QED
    BY <2>1, QuietIInv
<1>8. CASE UNCHANGED vars
  <2>1. now' \in Time /\ UNCHANGED <<rowVars, acctVars>>
    BY <1>8 DEF vars, IInv, TypeOK
  <2> QED
    BY <2>1, QuietIInv
<1> QED
  BY <1>1, <1>2, <1>3, <1>4, <1>5, <1>6, <1>7, <1>8 DEF Next

LEMMA IInvHolds == Spec => []IInv
  BY InitIInv, NextIInv, PTL DEF Spec

-----------------------------------------------------------------------------
(* Rows, calls and events have their types, whatever the tokens: a row is  *)
(* only ever in one of the five states of the schema.                      *)
THEOREM PremiumTypeCorrect == Spec => []TypeOK
<1>1. IInv => TypeOK
  BY DEF IInv
<1> QED
  BY <1>1, IInvHolds, PTL

(* Nobody is premium at the account service without a row as long, unless  *)
(* events overtook each other, a newer one that ends or shortens it is on  *)
(* its way, or a cancellation has shortened a row: the row and the event   *)
(* of writeWithEvent go together.                                          *)
THEOREM PremiumIsPaidFor == Spec => []PremiumIsPaid
<1>1. IInv => PremiumIsPaid
  <2> SUFFICES ASSUME IInv, AccountShows, ~overtaken, shortened = {},
                      \A d \in DOMAIN events : (\A c \in seen : c < d) =>
                        ~TakesBack(events[d], [premium |-> TRUE, end |-> account.end])
               PROVE  \E t \in Token : IsEntitled(row[t]) /\ row[t].end >= account.end
    BY DEF PremiumIsPaid, TakesBack
  <2>1. PICK e \in seen :
          /\ \A d \in seen : d <= e
          /\ account = [premium |-> events[e].premium, end |-> events[e].end]
    BY DEF IInv, AccountInv, AccountShows
  <2>2. e \in DOMAIN events /\ events[e] \in Event /\ DOMAIN events \subseteq Nat
    BY DEF IInv, TypeOK
  <2>3. events[e].premium /\ account.end = events[e].end /\ events[e].end > now
    BY <2>1 DEF AccountShows
  <2>4. \A d \in DOMAIN events : d > e => ~TakesBack(events[d], events[e])
    <3> SUFFICES ASSUME NEW d \in DOMAIN events, d > e PROVE ~TakesBack(events[d], events[e])
      OBVIOUS
    <3>1. seen \subseteq DOMAIN events
      BY DEF IInv, TypeOK
    <3>2. \A c \in seen : c < d
      BY <3>1, <2>1, <2>2
    <3> QED
      BY <3>2, <2>3 DEF TakesBack
  <2>5. row[events[e].token].status \in Entitling /\ row[events[e].token].end >= events[e].end
    BY <2>2, <2>3, <2>4 DEF IInv, EventInv
  <2>6. events[e].token \in Token /\ events[e].end \in Nat /\ now \in Nat /\ row[events[e].token].end \in Nat
    BY <2>2 DEF IInv, TypeOK, Event, Row, Time
  <2>7. IsEntitled(row[events[e].token])
    BY <2>3, <2>5, <2>6 DEF IsEntitled
  <2> QED
    BY <2>3, <2>5, <2>6, <2>7
<1> QED
  BY <1>1, IInvHolds, PTL

(* With one subscription after the other, the product list and the account *)
(* service agree once all events are there, in order, if no cancellation   *)
(* changed end or entitlement: every other change of them but the passing  *)
(* of time has an event.                                                   *)
THEOREM ViewsAgreeInStep == Spec => []ViewsAgree
<1>1. IInv => ViewsAgree
  <2> SUFFICES ASSUME IInv, InStep, Orderly PROVE ListShows <=> AccountShows
    BY DEF ViewsAgree, ListShows, AccountShows, IInv, TypeOK
  <2>1. seen = DOMAIN events /\ ~overtaken /\ events \in Seq(Event)
    BY DEF InStep, IInv, TypeOK
  <2>2. CASE events = <<>>
    <3>1. ~AccountShows
      BY <2>1, <2>2 DEF IInv, AccountInv, AccountShows
    <3>2. ~ListShows
      BY <2>2 DEF IInv, LastInv, ListShows, Latest
    <3> QED
      BY <3>1, <3>2
  <2>3. CASE events # <<>>
    <3> DEFINE e == events[Len(events)]
    <3>1. Len(events) \in DOMAIN events /\ Len(events) \in Nat /\ \A d \in DOMAIN events : d \in Nat /\ d <= Len(events)
      BY <2>1, <2>3
    <3>2. e \in Event /\ e.token \in Token /\ e.premium \in BOOLEAN
      BY <3>1, EventTypes DEF IInv
    <3>3. account = [premium |-> e.premium, end |-> e.end]
      <4>1. PICK k \in seen : /\ \A d \in seen : d <= k
                              /\ account = [premium |-> events[k].premium, end |-> events[k].end]
        BY <2>1, <3>1 DEF IInv, AccountInv
      <4>2. k = Len(events)
        BY <4>1, <2>1, <3>1
      <4> QED
        BY <4>1, <4>2
    <3>4. LastTells
      BY <2>3 DEF IInv, LastInv
    <3>5. AccountShows => ListShows
      <4> SUFFICES ASSUME AccountShows PROVE Latest(e.token) /\ IsEntitled(row[e.token])
        BY <3>2 DEF ListShows
      <4>1. e.premium /\ e.end > now
        BY <3>3 DEF AccountShows
      <4>2. \A u \in Token : row[u].created \in Nat
        BY DEF IInv, TypeOK, Row
      <4>3. Latest(e.token)
        BY <3>2, <3>4, <4>2 DEF LastTells, Latest
      <4>4. IsEntitled(row[e.token])
        BY <3>4, <4>1 DEF LastTells, IsEntitled
      <4> QED
        BY <4>3, <4>4
    <3>6. ListShows => AccountShows
      <4> SUFFICES ASSUME NEW t \in Token, IsEntitled(row[t]) PROVE AccountShows
        BY DEF ListShows
      <4>1. t = e.token /\ e.premium /\ row[t].end = e.end
        BY <3>2, <3>4 DEF LastTells, IsEntitled
      <4> QED
        BY <4>1, <3>3 DEF IsEntitled, AccountShows
    <3> QED
      BY <3>5, <3>6
  <2> QED
    BY <2>2, <2>3
<1> QED
  BY <1>1, IInvHolds, PTL
=============================================================================
