------------------------- MODULE SubscriptionProofs -------------------------
(***************************************************************************)
(* Proofs about Subscription for any tokens, handlers and bounds.          *)
(***************************************************************************)
EXTENDS Subscription, TLAPS

(* What the stores have sold: a period per change at most, one at least of *)
(* a subscription that exists.  Google never reports "revoked".            *)
StoreInv ==
  \A t \in Token :
    /\ store[t].end <= store[t].sold
    /\ store[t].sold <= store[t].n
    /\ store[t].n <= changes
    /\ store[t].state = "none" <=> store[t].end = 0
    /\ store[t].state = "none" => store[t].sold = 0
    /\ PlatformOf[t] = "android" => store[t].state # "revoked"

(* Every end that is on its way to a row has been sold.                    *)
EndInv ==
  /\ OnlySoldPeriods
  /\ \A t \in Token : \A e \in verified[t] : e <= store[t].sold
  /\ \A n \in inbox : 0 < n.end /\ n.end <= store[n.token].sold
  /\ \A h \in Handler : pc[h] # "idle" =>
       /\ job[h] \in Note
       /\ 0 < row[h].end /\ row[h].end <= store[job[h].token].sold
       /\ pc[h] = "fetch" => PlatformOf[job[h].token] = "android"

(* The event a handler will write goes with its row.                       *)
EventFits(status, ev) ==
  /\ status # "absent"
  /\ status \in {"active", "grace_period"} => ev = "premium"
  /\ status \in {"expired", "revoked"} => ev = "ended"
  /\ status = "cancelled" => ev = "none"

EventInv ==
  /\ StatusIsAnnounced
  /\ \A h \in Handler : pc[h] = "write" => EventFits(row[h].status, event[h])

IInv == TypeOK /\ StoreInv /\ EndInv /\ EventInv

-----------------------------------------------------------------------------
USE SubscriptionAssumption DEF SubscriptionAssumption

LEMMA InitIInv == Init => IInv
<1> SUFFICES ASSUME Init PROVE IInv
  OBVIOUS
<1>1. TypeOK
  BY DEF Init, TypeOK, HistoryOK, Logged, Entry, StoreState, Kind, Row, Event, NoEvent, NoRow, Status
<1>2. StoreInv
  BY DEF Init, StoreInv
<1>3. EndInv
  BY DEF Init, EndInv, OnlySoldPeriods, NoRow, NoEvent
<1>4. EventInv
  BY DEF Init, EventInv, StatusIsAnnounced, NoRow, NoEvent
<1> QED
  BY <1>1, <1>2, <1>3, <1>4 DEF IInv

(* A change at the store.                                                  *)
LEMMA ChangeTypes ==
  ASSUME NEW p \in {"ios", "android"}, NEW ch \in Changes(p)
  PROVE  /\ ch.from \in StoreState
         /\ ch.to \in StoreState \ {"none"}
         /\ ch.kind \in Kind
         /\ p = "android" => ch.to # "revoked"
  BY DEF Changes, Change, StoreState, Kind, Logged

LEMMA StoreChangeIInv ==
  ASSUME IInv, NEW t \in Token, StoreChange(t), HistoryOK'
  PROVE  IInv'
<1> DEFINE old == store[t]
<1>1. PICK ch \in Changes(PlatformOf[t]) :
        /\ ch.from = store[t].state
        /\ \E end \in EndsAfter(PlatformOf[t], store[t], ch) :
             LET n == store[t].n + 1
                 sold == IF end > store[t].sold THEN end ELSE store[t].sold
             IN
             /\ store' = [store EXCEPT ![t] =
                  [state |-> ch.to, end |-> end, sold |-> sold, n |-> n, kind |-> ch.kind]]
             /\ inbox' = inbox \cup {[token |-> t, n |-> n, kind |-> ch.kind, end |-> end]}
  BY DEF StoreChange
<1>0. PICK end \in EndsAfter(PlatformOf[t], store[t], ch) :
        LET n == store[t].n + 1
            sold == IF end > store[t].sold THEN end ELSE store[t].sold
        IN
        /\ store' = [store EXCEPT ![t] =
             [state |-> ch.to, end |-> end, sold |-> sold, n |-> n, kind |-> ch.kind]]
        /\ inbox' = inbox \cup {[token |-> t, n |-> n, kind |-> ch.kind, end |-> end]}
  BY <1>1
<1> DEFINE top == IF end > old.sold THEN end ELSE old.sold
           new == [state |-> ch.to, end |-> end, sold |-> top, n |-> old.n + 1, kind |-> ch.kind]
           note == [token |-> t, n |-> old.n + 1, kind |-> ch.kind, end |-> end]
<1>2. /\ store' = [store EXCEPT ![t] = new]
      /\ inbox' = inbox \cup {note}
      /\ changes < MaxChanges
      /\ changes' = changes + 1
      /\ UNCHANGED <<verified, sub, announced, pc, job, row, event, faults>>
  BY <1>0 DEF StoreChange, dbVars, handlerVars
<1>3. /\ ch.to \in StoreState \ {"none"}
      /\ ch.kind \in Kind
      /\ PlatformOf[t] = "android" => ch.to # "revoked"
  BY ChangeTypes
<1>4. /\ old \in Entry
      /\ old.end \in 0 .. MaxChanges /\ old.sold \in 0 .. MaxChanges /\ old.n \in 0 .. MaxChanges
      /\ old.end <= old.sold /\ old.sold <= old.n /\ old.n <= changes
      /\ changes \in 0 .. MaxChanges
      /\ ch.from = "none" <=> old.end = 0
  BY <1>1 DEF IInv, TypeOK, StoreInv, Entry
<1>51. end \in 1 .. old.sold + 1
  BY <1>4 DEF EndsAfter
<1>5. /\ end \in 1 .. MaxChanges /\ top \in 0 .. MaxChanges
      /\ end <= top /\ old.sold <= top /\ top <= old.n + 1
      /\ old.n + 1 \in 1 .. MaxChanges /\ old.n + 1 <= changes + 1
  BY <1>51, <1>2, <1>4
<1>6. new \in Entry /\ note \in Note
  BY <1>3, <1>5 DEF Entry, Note
<1>7. /\ new.end = end /\ new.sold = top /\ new.n = old.n + 1 /\ new.state = ch.to
      /\ note.end = end /\ note.token = t
  OBVIOUS
<1> HIDE DEF old, top, new, note
<1>8. TypeOK'
  BY <1>2, <1>4, <1>5, <1>6 DEF IInv, TypeOK
<1>9. \A u \in Token : store'[u] = IF u = t THEN new ELSE store[u]
  BY <1>2 DEF IInv, TypeOK
<1>10. \A u \in Token : store[u].sold <= store'[u].sold
  BY <1>5, <1>7, <1>9, <1>4 DEF IInv, TypeOK, Entry, old
<1>11. StoreInv'
  BY <1>2, <1>3, <1>4, <1>5, <1>7, <1>9 DEF IInv, StoreInv, TypeOK, Entry
<1>12. EndInv'
  <2>1. OnlySoldPeriods'
    BY <1>2, <1>10, <1>8 DEF IInv, EndInv, OnlySoldPeriods, TypeOK, Entry, Row, Event
  <2>2. \A u \in Token : \A e \in verified'[u] : e <= store'[u].sold
    BY <1>2, <1>10, <1>8 DEF IInv, EndInv, TypeOK, Entry
  <2>3. \A m \in inbox' : 0 < m.end /\ m.end <= store'[m.token].sold
    <3> SUFFICES ASSUME NEW m \in inbox' PROVE 0 < m.end /\ m.end <= store'[m.token].sold
      OBVIOUS
    <3>1. CASE m = note
      BY <3>1, <1>5, <1>7, <1>9
    <3>2. CASE m \in inbox
      BY <3>2, <1>10, <1>8 DEF IInv, EndInv, TypeOK, Entry, Note
    <3> QED
      BY <3>1, <3>2, <1>2
  <2>4. \A h \in Handler : pc'[h] # "idle" =>
          /\ job'[h] \in Note
          /\ 0 < row'[h].end /\ row'[h].end <= store'[job'[h].token].sold
          /\ pc'[h] = "fetch" => PlatformOf[job'[h].token] = "android"
    BY <1>2, <1>10, <1>8 DEF IInv, EndInv, TypeOK, Entry, Note, Row
  <2> QED
    BY <2>1, <2>2, <2>3, <2>4 DEF EndInv
<1>13. EventInv'
  BY <1>2 DEF IInv, EventInv, StatusIsAnnounced, EventFits
<1> QED
  BY <1>8, <1>11, <1>12, <1>13 DEF IInv

(* Subscribe.                                                              *)
LEMMA VerifySubscriptionIInv ==
  ASSUME IInv, NEW t \in Token, VerifySubscription(t), HistoryOK'
  PROVE  IInv'
<1>1. /\ store[t].state # "none"
      /\ verified' = [verified EXCEPT ![t] = @ \cup {store[t].end}]
      /\ UNCHANGED <<store, changes, inbox, sub, announced, pc, job, row, event, faults>>
  BY DEF VerifySubscription, storeVars, dbVars, handlerVars
<1>2. store[t].end \in 1 .. MaxChanges /\ store[t].end <= store[t].sold
  BY <1>1 DEF IInv, TypeOK, StoreInv, Entry
<1>3. \A u \in Token : verified'[u] =
        IF u = t THEN verified[u] \cup {store[u].end} ELSE verified[u]
  BY <1>1 DEF IInv, TypeOK
<1>4. TypeOK'
  BY <1>1, <1>2 DEF IInv, TypeOK
<1>5. StoreInv'
  BY <1>1 DEF IInv, StoreInv
<1>6. \A u \in Token : \A e \in verified'[u] : e <= store'[u].sold
  BY <1>1, <1>2, <1>3 DEF IInv, EndInv, TypeOK
<1>7. EndInv'
  BY <1>1, <1>6 DEF IInv, EndInv, OnlySoldPeriods
<1>8. EventInv'
  BY <1>1 DEF IInv, EventInv, StatusIsAnnounced
<1> QED
  BY <1>4, <1>5, <1>7, <1>8 DEF IInv

LEMMA CreateSubscriptionIInv ==
  ASSUME IInv, NEW t \in Token, CreateSubscription(t), HistoryOK'
  PROVE  IInv'
<1>1. PICK end \in verified[t] :
        /\ verified' = [verified EXCEPT ![t] = @ \ {end}]
        /\ IF sub[t].status = "absent"
           THEN /\ sub' = [sub EXCEPT ![t] = [status |-> "active", end |-> end]]
                /\ announced' = [announced EXCEPT ![t] = [premium |-> TRUE, end |-> end]]
           ELSE UNCHANGED <<sub, announced>>
        /\ UNCHANGED <<store, changes, inbox, pc, job, row, event, faults>>
  BY DEF CreateSubscription, storeVars, dbVars, handlerVars
<1> DEFINE newRow == [status |-> "active", end |-> end]
           told == [premium |-> TRUE, end |-> end]
<1>2. /\ end \in 1 .. MaxChanges
      /\ end <= store[t].sold
  BY <1>1 DEF IInv, TypeOK, EndInv
<1>3. /\ newRow \in Row /\ newRow.end = end /\ newRow.status = "active"
      /\ told \in Event /\ told.end = end /\ told.premium = TRUE
      /\ told = [premium |-> TRUE, end |-> newRow.end]
  BY <1>2 DEF Row, Event, Status
<1>4. \/ sub' = [sub EXCEPT ![t] = newRow] /\ announced' = [announced EXCEPT ![t] = told]
      \/ UNCHANGED <<sub, announced>>
  BY <1>1
<1> HIDE DEF newRow, told
<1>5. TypeOK'
  <2>1. sub' \in [Token -> Row] /\ announced' \in [Token -> Event]
    <3>1. newRow \in Row /\ told \in Event
      BY <1>3
    <3>2. sub \in [Token -> Row] /\ announced \in [Token -> Event]
      BY DEF IInv, TypeOK
    <3> QED
      BY <1>4, <3>1, <3>2
  <2>2. verified' \in [Token -> SUBSET (1 .. MaxChanges)]
    BY <1>1 DEF IInv, TypeOK
  <2> QED
    BY <1>1, <2>1, <2>2 DEF IInv, TypeOK
<1>6. \A u \in Token : \/ u = t /\ sub'[u] = newRow /\ announced'[u] = told
                       \/ sub'[u] = sub[u] /\ announced'[u] = announced[u]
  BY <1>4 DEF IInv, TypeOK
<1>7. StoreInv'
  BY <1>1 DEF IInv, StoreInv
<1>8. OnlySoldPeriods'
  BY <1>1, <1>2, <1>3, <1>6 DEF IInv, EndInv, OnlySoldPeriods
<1>9. \A u \in Token : verified'[u] \subseteq verified[u]
  BY <1>1 DEF IInv, TypeOK
<1>10. EndInv'
  BY <1>1, <1>8, <1>9 DEF IInv, EndInv
<1>11. StatusIsAnnounced'
  BY <1>3, <1>6 DEF IInv, EventInv, StatusIsAnnounced
<1>12. EventInv'
  BY <1>1, <1>11 DEF IInv, EventInv
<1> QED
  BY <1>5, <1>7, <1>10, <1>12 DEF IInv

(* The handlers.  A handler may take up a note with row r and event ev.    *)
Prepares(h, n, place, r, ev) ==
  /\ pc' = [pc EXCEPT ![h] = place]
  /\ job' = [job EXCEPT ![h] = n]
  /\ row' = [row EXCEPT ![h] = r]
  /\ event' = [event EXCEPT ![h] = ev]
  /\ UNCHANGED <<store, changes, inbox, verified, sub, announced, faults>>

LEMMA PreparesIInv ==
  ASSUME IInv, NEW h \in Handler, NEW n \in Note, NEW place \in {"fetch", "write"},
         NEW r \in Row, NEW ev \in {"none", "premium", "ended"},
         Prepares(h, n, place, r, ev),
         0 < r.end, r.end <= store[n.token].sold,
         place = "fetch" => PlatformOf[n.token] = "android",
         place = "write" => EventFits(r.status, ev), HistoryOK'
  PROVE  IInv'
<1>1. TypeOK'
  BY DEF IInv, TypeOK, Prepares
<1>2. \A g \in Handler :
        \/ /\ g = h /\ pc'[g] = place /\ job'[g] = n /\ row'[g] = r /\ event'[g] = ev
        \/ /\ pc'[g] = pc[g] /\ job'[g] = job[g] /\ row'[g] = row[g] /\ event'[g] = event[g]
  BY DEF IInv, TypeOK, Prepares
<1>3. StoreInv'
  BY DEF IInv, StoreInv, Prepares
<1>4. OnlySoldPeriods' /\ StatusIsAnnounced'
  BY DEF IInv, EndInv, EventInv, OnlySoldPeriods, StatusIsAnnounced, Prepares
<1>5. EndInv'
  BY <1>2, <1>4 DEF IInv, EndInv, Prepares
<1>6. EventInv'
  BY <1>2, <1>4 DEF IInv, EventInv
<1> QED
  BY <1>1, <1>3, <1>5, <1>6 DEF IInv

LEMMA HandleAppleIInv ==
  ASSUME IInv, NEW h \in Handler, NEW n \in inbox, HandleApple(h, n), HistoryOK'
  PROVE  IInv'
<1> DEFINE r == AppleUpdate(sub[n.token], n)
           ev == AppleEvent(n)
<1>1. /\ n \in Note /\ n.token \in Token /\ n.kind \in Kind \ Logged
      /\ sub[n.token] \in Row
      /\ n.end \in 0 .. MaxChanges
  BY DEF IInv, TypeOK, Note, HandleApple
<1>2. /\ 0 < n.end /\ n.end <= store[n.token].sold
      /\ 0 < sub[n.token].end /\ sub[n.token].end <= store[n.token].sold
  BY <1>1 DEF IInv, EndInv, OnlySoldPeriods, HandleApple
<1>3. /\ r \in Row
      /\ r.end \in {n.end, sub[n.token].end}
      /\ EventFits(r.status, ev)
      /\ ev \in {"none", "premium", "ended"}
  BY <1>1 DEF AppleUpdate, AppleEvent, EventFits, Row, Status, Kind, Logged
<1>4. Prepares(h, n, "write", r, ev)
  BY DEF HandleApple, Prepares, storeVars, dbVars
<1> HIDE DEF r, ev
<1> QED
  BY <1>1, <1>2, <1>3, <1>4, PreparesIInv

LEMMA HandleGoogleIInv ==
  ASSUME IInv, NEW h \in Handler, NEW n \in inbox, HandleGoogle(h, n), HistoryOK'
  PROVE  IInv'
<1>1. /\ n \in Note /\ n.token \in Token
      /\ sub[n.token] \in Row
      /\ event[h] \in {"none", "premium", "ended"}
      /\ event \in [Handler -> {"none", "premium", "ended"}]
  BY DEF IInv, TypeOK, Note
<1>2. 0 < sub[n.token].end /\ sub[n.token].end <= store[n.token].sold
  BY <1>1 DEF IInv, EndInv, OnlySoldPeriods, HandleGoogle
<1>3. event = [event EXCEPT ![h] = event[h]]
  BY <1>1
<1>4. Prepares(h, n, "fetch", sub[n.token], event[h])
  BY <1>3 DEF HandleGoogle, Prepares, storeVars, dbVars
<1>5. PlatformOf[n.token] = "android"
  BY DEF HandleGoogle
<1> QED
  BY <1>1, <1>2, <1>4, <1>5, PreparesIInv

LEMMA GetSubscriptionIInv ==
  ASSUME IInv, NEW h \in Handler, GetSubscription(h), HistoryOK'
  PROVE  IInv'
<1> DEFINE s == store[job[h].token]
           r == [status |-> GoogleStatus(s.state, job[h].kind), end |-> s.end]
           ev == GoogleEvent(s.state)
<1>0. /\ job[h] \in Note /\ job[h].token \in Token
      /\ s \in Entry /\ s.end \in 0 .. MaxChanges
      /\ 0 < row[h].end /\ row[h].end <= s.sold
      /\ row[h].end \in Nat /\ s.sold \in Nat
      /\ PlatformOf[job[h].token] = "android"
  BY DEF IInv, TypeOK, EndInv, GetSubscription, Note, Entry, Row
<1>1. job[h] \in Note /\ job[h].token \in Token /\ s \in Entry /\ s.end \in 0 .. MaxChanges
      /\ 0 < s.end /\ PlatformOf[job[h].token] = "android" /\ s.state # "none"
  BY <1>0 DEF IInv, StoreInv
<1>2. s.state \in StoreState \ {"none", "revoked"}
  BY <1>1 DEF IInv, StoreInv, Entry
<1>3. /\ r \in Row
      /\ r.end = s.end
      /\ EventFits(r.status, ev)
      /\ ev \in {"none", "premium", "ended"}
  BY <1>1, <1>2 DEF GoogleStatus, GoogleEvent, EventFits, Row, Status, StoreState
<1>4. job = [job EXCEPT ![h] = job[h]]
  BY DEF IInv, TypeOK
<1>5. Prepares(h, job[h], "write", r, ev)
  BY <1>4 DEF GetSubscription, Prepares, storeVars, dbVars
<1>6. s.end <= store[job[h].token].sold
  BY <1>1 DEF IInv, StoreInv
<1> HIDE DEF r, ev, s
<1> QED
  BY <1>1, <1>3, <1>5, <1>6, PreparesIInv

(* A row is written, with its event, and the handler is idle again; the    *)
(* store keeps the note if it sees no 200.                                 *)
LEMMA UpdateIInv ==
  ASSUME IInv, NEW h \in Handler, Update(h), inbox' \subseteq inbox, faults' \in 0 .. MaxFaults, HistoryOK'
  PROVE  IInv'
<1> DEFINE t == job[h].token
           told == IF event[h] = "premium" THEN [premium |-> TRUE, end |-> row[h].end] ELSE NoEvent
<1>1. /\ pc[h] = "write"
      /\ sub' = [sub EXCEPT ![t] = row[h]]
      /\ announced' = IF event[h] = "none" THEN announced ELSE [announced EXCEPT ![t] = told]
      /\ UNCHANGED <<store, changes, verified>>
      /\ Idle(h)
  BY DEF Update
<1>2. /\ t \in Token
      /\ row[h] \in Row /\ row[h].end \in 0 .. MaxChanges
      /\ 0 < row[h].end /\ row[h].end <= store[t].sold
      /\ EventFits(row[h].status, event[h])
      /\ event[h] \in {"none", "premium", "ended"}
  BY <1>1 DEF IInv, TypeOK, EndInv, EventInv, Note, Row
<1>3. told \in Event /\ told.end <= row[h].end
  BY <1>2 DEF Event, NoEvent
<1>4. /\ event[h] = "premium" => told = [premium |-> TRUE, end |-> row[h].end]
      /\ event[h] # "premium" => told.premium = FALSE
  BY DEF NoEvent
<1> HIDE DEF t, told
<1>5. \A u \in Token :
        /\ sub'[u] = IF u = t THEN row[h] ELSE sub[u]
        /\ announced'[u] = IF u = t /\ event[h] # "none" THEN told ELSE announced[u]
  BY <1>1 DEF IInv, TypeOK
<1>6. /\ pc' = [pc EXCEPT ![h] = "idle"]
      /\ job' = [job EXCEPT ![h] = NoNote]
      /\ row' = [row EXCEPT ![h] = NoRow]
      /\ event' = [event EXCEPT ![h] = "none"]
      /\ NoRow \in Row
  BY <1>1 DEF Idle, NoRow, Row
<1>7. TypeOK'
  <2>1. sub' \in [Token -> Row] /\ announced' \in [Token -> Event]
    BY <1>1, <1>2, <1>3 DEF IInv, TypeOK
  <2> QED
    BY <1>1, <1>6, <2>1 DEF IInv, TypeOK
<1>8. StoreInv'
  BY <1>1 DEF IInv, StoreInv
<1>9. OnlySoldPeriods'
  BY <1>1, <1>2, <1>3, <1>5, <1>7 DEF IInv, EndInv, OnlySoldPeriods, TypeOK, Event, Entry
<1>10. \A g \in Handler : pc'[g] # "idle" =>
         g # h /\ pc[g] = pc'[g] /\ job'[g] = job[g] /\ row'[g] = row[g] /\ event'[g] = event[g]
  BY <1>6 DEF IInv, TypeOK
<1>11. EndInv'
  BY <1>1, <1>9, <1>10 DEF IInv, EndInv
<1>12. StatusIsAnnounced'
  BY <1>2, <1>4, <1>5 DEF IInv, EventInv, StatusIsAnnounced, EventFits
<1>13. EventInv'
  BY <1>10, <1>12 DEF IInv, EventInv
<1> QED
  BY <1>7, <1>8, <1>11, <1>13 DEF IInv

(* A handler gives up without a write.                                     *)
LEMMA GiveUpIInv ==
  ASSUME IInv, NEW h \in Handler, Fail(h) \/ Refuse(h), HistoryOK'
  PROVE  IInv'
<1>1. /\ Idle(h)
      /\ faults' \in 0 .. MaxFaults
      /\ UNCHANGED <<store, changes, inbox, verified, sub, announced>>
  BY DEF Fail, Refuse, storeVars, dbVars, IInv, TypeOK
<1>2. \A g \in Handler : pc'[g] # "idle" =>
        g # h /\ pc[g] = pc'[g] /\ job'[g] = job[g] /\ row'[g] = row[g] /\ event'[g] = event[g]
  BY <1>1 DEF IInv, TypeOK, Idle
<1>3. NoRow \in Row
  BY DEF NoRow, Row
<1>4. TypeOK'
  BY <1>1, <1>3 DEF IInv, TypeOK, Idle
<1>5. StoreInv' /\ OnlySoldPeriods' /\ StatusIsAnnounced'
  BY <1>1 DEF IInv, StoreInv, EndInv, EventInv, OnlySoldPeriods, StatusIsAnnounced
<1>6. EndInv'
  BY <1>1, <1>2, <1>5 DEF IInv, EndInv
<1>7. EventInv'
  BY <1>2, <1>5 DEF IInv, EventInv
<1> QED
  BY <1>4, <1>5, <1>6, <1>7 DEF IInv

(* A note is acknowledged without touching a row.                          *)
LEMMA DropIInv ==
  ASSUME IInv, HistoryOK', inbox' \subseteq inbox,
         UNCHANGED <<store, changes, verified, sub, announced, pc, job, row, event, faults>>
  PROVE  IInv'
<1>1. TypeOK'
  BY DEF IInv, TypeOK
<1>2. StoreInv' /\ OnlySoldPeriods' /\ EventInv'
  BY DEF IInv, StoreInv, EndInv, EventInv, OnlySoldPeriods, StatusIsAnnounced
<1>3. EndInv'
  BY <1>2 DEF IInv, EndInv
<1> QED
  BY <1>1, <1>2, <1>3 DEF IInv

(* The history keeps its types.                                            *)
LEMMA IdleHistory ==
  ASSUME IInv, NEW h \in Handler, Idle(h)
  PROVE  {g \in Handler : pc[g] = "write"} \ {h} \subseteq {g \in Handler : pc'[g] = "write"}
  BY DEF IInv, TypeOK, Idle

LEMMA NoteHistory ==
  ASSUME IInv, NEW n \in Note, Handled(n)
  PROVE  n.token \in Token /\ applied' \in [Token -> 0 .. MaxChanges]
<1>1. n.token \in Token /\ n.n \in 0 .. MaxChanges
  BY DEF Note
<1>2. applied \in [Token -> 0 .. MaxChanges]
  BY DEF IInv, TypeOK, HistoryOK
<1>3. Later(applied[n.token], n.n) \in 0 .. MaxChanges
  BY <1>1, <1>2 DEF Later
<1> QED
  BY <1>1, <1>2, <1>3 DEF Handled

LEMMA NextHistoryOK ==
  ASSUME IInv, [Next]_vars
  PROVE  HistoryOK'
<1>0. /\ pc \in [Handler -> {"idle", "fetch", "write"}]
      /\ inbox \subseteq Note
      /\ HistoryOK
      /\ \A h \in Handler : pc[h] # "idle" => job[h] \in Note
  BY DEF IInv, TypeOK, EndInv
<1>1. ASSUME NEW t \in Token, StoreChange(t) \/ VerifySubscription(t) \/ CreateSubscription(t)
      PROVE  HistoryOK'
  BY <1>0, <1>1 DEF StoreChange, VerifySubscription, CreateSubscription, HistoryOK, history, handlerVars
<1>2. ASSUME NEW h \in Handler, NEW n \in inbox, NotFound(h, n) \/ Ignore(h, n)
      PROVE  HistoryOK'
  <2>1. /\ Handled(n)
        /\ behind' \subseteq behind \cup {n.token}
        /\ UNCHANGED <<pc, overtaken>>
    BY <1>2 DEF NotFound, Ignore, Lost, handlerVars
  <2>2. n.token \in Token /\ applied' \in [Token -> 0 .. MaxChanges]
    BY <1>0, <2>1, NoteHistory
  <2> QED
    BY <1>0, <2>1, <2>2 DEF HistoryOK
<1>3. ASSUME NEW h \in Handler, NEW n \in inbox, HandleApple(h, n) \/ HandleGoogle(h, n)
      PROVE  HistoryOK'
  <2>1. /\ pc[h] # "write"
        /\ \E place \in {"fetch", "write"} : pc' = [pc EXCEPT ![h] = place]
        /\ UNCHANGED <<behind, applied, overtaken>>
    BY <1>3 DEF HandleApple, HandleGoogle, history
  <2> QED
    BY <1>0, <2>1 DEF HistoryOK
<1>4. ASSUME NEW h \in Handler, Update(h) PROVE HistoryOK'
  <2>1. Idle(h) /\ Record(h) /\ pc[h] = "write" /\ job[h] \in Note
    BY <1>0, <1>4 DEF Update
  <2>2. /\ behind' \subseteq behind \cup {job[h].token}
        /\ Handled(job[h])
        /\ overtaken' \subseteq (overtaken \cup {g \in Handler : pc[g] = "write"}) \ {h}
    BY <2>1 DEF Record
  <2>3. job[h].token \in Token /\ applied' \in [Token -> 0 .. MaxChanges]
    BY <2>1, <2>2, NoteHistory
  <2> QED
    BY <1>0, <2>1, <2>2, <2>3, IdleHistory DEF HistoryOK
<1>5. ASSUME NEW h \in Handler, Fail(h) \/ Refuse(h) PROVE HistoryOK'
  <2>1. /\ Idle(h)
        /\ UNCHANGED <<behind, applied>>
        /\ overtaken' \subseteq overtaken \ {h}
    BY <1>0, <1>5 DEF Fail, Refuse, history, HistoryOK
  <2> QED
    BY <1>0, <2>1, IdleHistory DEF HistoryOK
<1>6. CASE UNCHANGED vars
  BY <1>0, <1>6 DEF vars, history, handlerVars, HistoryOK
<1>7. ASSUME NEW h \in Handler, GetSubscription(h) PROVE HistoryOK'
  <2>1. /\ pc[h] # "write"
        /\ pc' = [pc EXCEPT ![h] = "write"]
        /\ UNCHANGED <<behind, applied, overtaken>>
    BY <1>7 DEF GetSubscription, history
  <2> QED
    BY <1>0, <2>1 DEF HistoryOK
<1> QED
  BY <1>1, <1>2, <1>3, <1>4, <1>5, <1>6, <1>7 DEF Next, Finish, Acknowledge, AnswerLost

LEMMA NextIInv == IInv /\ [Next]_vars => IInv'
<1> SUFFICES ASSUME IInv, [Next]_vars PROVE IInv'
  OBVIOUS
<1>0. HistoryOK'
  BY NextHistoryOK
<1>1. ASSUME NEW t \in Token, StoreChange(t) PROVE IInv'
  BY <1>0, <1>1, StoreChangeIInv
<1>2. ASSUME NEW t \in Token, VerifySubscription(t) PROVE IInv'
  BY <1>0, <1>2, VerifySubscriptionIInv
<1>3. ASSUME NEW t \in Token, CreateSubscription(t) PROVE IInv'
  BY <1>0, <1>3, CreateSubscriptionIInv
<1>4. ASSUME NEW h \in Handler, NEW n \in inbox, NotFound(h, n) \/ Ignore(h, n) PROVE IInv'
  <2>1. inbox' \subseteq inbox
    BY <1>4 DEF NotFound, Ignore
  <2> QED
    BY <1>0, <1>4, <2>1, DropIInv DEF NotFound, Ignore, dbVars, handlerVars
<1>5. ASSUME NEW h \in Handler, NEW n \in inbox, HandleApple(h, n) PROVE IInv'
  BY <1>0, <1>5, HandleAppleIInv
<1>6. ASSUME NEW h \in Handler, NEW n \in inbox, HandleGoogle(h, n) PROVE IInv'
  BY <1>0, <1>6, HandleGoogleIInv
<1>7. ASSUME NEW h \in Handler, GetSubscription(h) PROVE IInv'
  BY <1>0, <1>7, GetSubscriptionIInv
<1>8. ASSUME NEW h \in Handler, Acknowledge(h) \/ AnswerLost(h) PROVE IInv'
  <2>1. Update(h) /\ inbox' \subseteq inbox /\ faults' \in 0 .. MaxFaults
    BY <1>8 DEF Acknowledge, AnswerLost, IInv, TypeOK
  <2> QED
    BY <1>0, <2>1, UpdateIInv
<1>9. ASSUME NEW h \in Handler, Fail(h) \/ Refuse(h) PROVE IInv'
  BY <1>0, <1>9, GiveUpIInv
<1>10. CASE UNCHANGED vars
  <2>1. inbox' \subseteq inbox
    BY <1>10 DEF vars, storeVars
  <2> QED
    BY <1>0, <1>10, <2>1, DropIInv DEF vars, storeVars, dbVars, handlerVars
<1> QED
  BY <1>1, <1>2, <1>3, <1>4, <1>5, <1>6, <1>7, <1>8, <1>9, <1>10 DEF Next, Finish

(* The inductive invariant holds of every behaviour.                       *)
THEOREM SpecIInv == Spec => []IInv
  BY InitIInv, NextIInv, PTL DEF Spec

(* Every variable keeps its type, for any tokens, handlers and bounds.     *)
THEOREM SubscriptionTypeCorrect == Spec => []TypeOK
  BY SpecIInv, PTL DEF IInv

(* No row and no event gives a period the store has not sold, however      *)
(* notifications, subscribe calls and handlers interleave.                 *)
THEOREM NoPeriodIsInvented == Spec => []OnlySoldPeriods
  BY SpecIInv, PTL DEF IInv, EndInv

(* Rows and announcements do not drift apart, cancellations excepted.      *)
THEOREM EveryStatusIsAnnounced == Spec => []StatusIsAnnounced
  BY SpecIInv, PTL DEF IInv, EventInv
=============================================================================
