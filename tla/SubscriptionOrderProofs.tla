---------------------- MODULE SubscriptionOrderProofs ----------------------
(***************************************************************************)
(* Proofs about Subscription: with handlers that overlap and notifications *)
(* in any order, a row at rest agrees with the store, and what was         *)
(* announced fits every Apple row, unless behind records why not.          *)
(*                                                                         *)
(* The invariant is stated for one token at a time, over the token's notes *)
(* box, its entry st at the store, the latest change a that was handled,   *)
(* its row r and whether the row has lost a change, so that a step about   *)
(* another token keeps it for the trivial reason.                          *)
(***************************************************************************)
EXTENDS SubscriptionProofs

Box(t) == {m \in inbox : m.token = t}

Extends(m) == m.kind \in {"renew", "extend"}

(* An extension after change i is still on its way.                        *)
Extended(box, i) == \E m \in box : Extends(m) /\ i < m.n

(* Notes are told apart by their numbers, and the note of the last change  *)
(* is on its way until it has been handled.                                *)
Numbered(box, st, a) ==
  /\ \A m \in box : m.n <= st.n /\ (m.n = st.n => m.kind = st.kind)
  /\ \A m, k \in box : m.n = k.n => m = k
  /\ a <= st.n
  /\ a < st.n => \E m \in box : m.n = st.n

(* The last change, one that the handlers react to, has been handled.      *)
UpToDate(st, a) == st.kind \notin Logged /\ st.n <= a

Agrees(r, st) == r.status \in StatusAtStore(st.state) /\ r.end = st.end

(* What a Google row says that has lost no change.                         *)
GoogleRow(st, a, r) == UpToDate(st, a) => Agrees(r, st)

KindFits(st) ==
  /\ st.kind = "renew"  => st.state = "active"
  /\ st.kind = "expire" => st.state = "expired"
  /\ st.kind = "revoke" => st.state = "revoked"
  /\ st.kind = "cancel" => st.state = "canceled"

(* Since change i, which ended the subscription: a cancellation comes      *)
(* after an extension, and without one it is over at the store.            *)
EndedAt(box, st, i) ==
  /\ \A c \in box : c.kind = "cancel" /\ i < c.n =>
       \E m \in box : Extends(m) /\ i < m.n /\ m.n < c.n
  /\ Extended(box, i) \/ st.state \in {"expired", "revoked"}

(* The same of a row that shows the end: of the cancellations that are not *)
(* out of turn yet.                                                        *)
RowEnded(box, st, a) ==
  /\ \A c \in box : c.kind = "cancel" /\ a <= c.n => \E m \in box : Extends(m) /\ m.n < c.n
  /\ Extended(box, 0) \/ st.state \in {"expired", "revoked"}

(* What Apple's notes that are not out of turn yet say of the store.       *)
AppleNotes(box, st, a) ==
  /\ KindFits(st)
  /\ \A e \in box : e.kind \in {"expire", "revoke"} /\ a <= e.n => EndedAt(box, st, e.n)
  /\ \A j \in box : j.kind = "renew" /\ a <= j.n => j.end = st.end \/ Extended(box, j.n)

(* What an Apple row says that has lost no change.                         *)
AppleRow(box, st, a, r, told, ver) ==
  /\ UpToDate(st, a) => r.status \in StatusAtStore(st.state)
  /\ r.status \in {"expired", "revoked"} => RowEnded(box, st, a)
  /\ r.status = "cancelled" => told = [premium |-> TRUE, end |-> r.end]
  /\ Extended(box, 0) \/ IF r.status = "absent" THEN \A e \in ver : e = st.end ELSE r.end = st.end

TokenInv(t) ==
  /\ Numbered(Box(t), store[t], applied[t])
  /\ PlatformOf[t] = "android" =>
       t \in behind \/ GoogleRow(store[t], applied[t], sub[t])
  /\ PlatformOf[t] = "ios" =>
       /\ AppleNotes(Box(t), store[t], applied[t])
       /\ t \in behind
          \/ AppleRow(Box(t), store[t], applied[t], sub[t], announced[t], verified[t])

(* A handler about to write row w and event ev, which nobody has           *)
(* overtaken: Apple's row is the stored one with the change of n, Google's *)
(* shows the last change or a later one than n is on its way.              *)
Writes(platform, n, w, ev, box, st, a, r) ==
  /\ platform = "ios" => n \in box /\ w = AppleUpdate(r, n) /\ ev = AppleEvent(n)
  /\ platform = "android" => Agrees(w, st) \/ st.kind \in Logged \/ (a < st.n /\ n.n < st.n)

HandlerInv(h) ==
  pc[h] # "idle" =>
    LET n == job[h]
        t == n.token
    IN
    /\ n.n <= store[t].n /\ n.kind \notin Logged
    /\ sub[t].status # "absent"
    /\ pc[h] = "write" /\ h \notin overtaken =>
         Writes(PlatformOf[t], n, row[h], event[h], Box(t), store[t], applied[t], sub[t])

OrderInv ==
  /\ IInv
  /\ \A t \in Token : TokenInv(t)
  /\ \A h \in Handler : HandlerInv(h)

-----------------------------------------------------------------------------
(***************************************************************************)
(* What a change of one token's state keeps.                               *)
(***************************************************************************)
LEMMA LaterIsMax ==
  ASSUME NEW i \in Nat, NEW j \in Nat
  PROVE  Later(i, j) \in Nat /\ i <= Later(i, j) /\ j <= Later(i, j) /\ Later(i, j) \in {i, j}
  BY DEF Later

(* A change at the store that is neither a renewal nor an extension does   *)
(* not begin a subscription that is over again.                            *)
LEMMA AppleChanges ==
  ASSUME NEW ch \in Changes("ios")
  PROVE  /\ KindFits([state |-> ch.to, kind |-> ch.kind])
         /\ ch.kind = "cancel" => ch.from = "active"
         /\ ch.from \in {"expired", "revoked"} => ch.kind \in {"renew", "extend"}
  BY DEF Changes, Change, KindFits

(* Dropping notes keeps EndedAt, if the later extensions stay.             *)
LEMMA EndedAtKept ==
  ASSUME NEW box, NEW rest \in SUBSET box, NEW st, NEW i, EndedAt(box, st, i),
         \A m \in box : Extends(m) /\ i < m.n => m \in rest
  PROVE  EndedAt(rest, st, i)
  BY DEF EndedAt, Extended

(* A change after i keeps EndedAt.                                         *)
LEMMA EndedAtNewNote ==
  ASSUME NEW box \in SUBSET Note, NEW note \in Note, NEW i \in Nat, i < note.n,
         NEW st \in Entry, NEW new \in Entry, NEW ch \in Changes("ios"),
         ch.from = st.state, ch.kind = note.kind, \A m \in box : m.n < note.n,
         EndedAt(box, st, i)
  PROVE  EndedAt(box \cup {note}, new, i)
<1> DEFINE more == box \cup {note}
<1>1. /\ note.kind = "cancel" => st.state = "active"
      /\ st.state \in {"expired", "revoked"} => Extends(note)
  BY AppleChanges DEF Extends
<1>2. Extended(more, i)
  <2>1. CASE Extended(box, i)
    BY <2>1 DEF Extended
  <2>2. CASE ~Extended(box, i)
    BY <2>2, <1>1 DEF EndedAt, Extended
  <2> QED
    BY <2>1, <2>2
<1>3. ASSUME NEW c \in more, c.kind = "cancel", i < c.n
      PROVE  \E m \in more : Extends(m) /\ i < m.n /\ m.n < c.n
  <2>1. CASE c = note
    <3>1. Extended(box, i)
      BY <1>1, <1>3, <2>1 DEF EndedAt
    <3> QED
      BY <3>1, <2>1 DEF Extended
  <2>2. CASE c \in box
    BY <1>3, <2>2 DEF EndedAt
  <2> QED
    BY <2>1, <2>2
<1> QED
  BY <1>2, <1>3 DEF EndedAt

(* A change at the store, with its note.                                   *)
LEMMA NewNumber ==
  ASSUME NEW box \in SUBSET Note, NEW note \in Note, NEW st \in Entry, NEW new \in Entry, NEW a \in Nat,
         new.n = st.n + 1, note.n = new.n, note.kind = new.kind, Numbered(box, st, a)
  PROVE  /\ Numbered(box \cup {note}, new, a)
         /\ ~UpToDate(new, a)
         /\ \A m \in box : m.n < note.n
<1>1. \A m \in box : m.n <= st.n /\ m.n \in Nat
  BY DEF Numbered, Note
<1>2. st.n \in Nat /\ a <= st.n
  BY DEF Numbered, Entry
<1>3. \A m \in box : m.n < note.n /\ m.n <= new.n /\ m.n # new.n
  BY <1>1, <1>2
<1> QED
  BY <1>1, <1>2, <1>3 DEF Numbered, UpToDate

LEMMA NewNotes ==
  ASSUME NEW box \in SUBSET Note, NEW note \in Note,
         NEW st \in Entry, NEW new \in Entry, NEW ch \in Changes("ios"), NEW a \in Nat,
         note.n = new.n, note.kind = ch.kind, note.end = new.end, new.kind = ch.kind,
         new.state = ch.to, ch.from = st.state,
         Extends(note) \/ new.end = st.end \/ ch.from = "none",
         ch.from = "none" => box = {},
         \A m \in box : m.n < note.n,
         AppleNotes(box, st, a)
  PROVE  AppleNotes(box \cup {note}, new, a)
<1> DEFINE more == box \cup {note}
<1>1. KindFits(new)
  BY AppleChanges DEF KindFits
<1>2. ASSUME NEW e \in more, e.kind \in {"expire", "revoke"}, a <= e.n PROVE EndedAt(more, new, e.n)
  <2>1. CASE e = note
    <3>1. new.state \in {"expired", "revoked"}
      BY <1>1, <1>2, <2>1 DEF KindFits
    <3>2. \A c \in more : ~(note.n < c.n)
      BY DEF Note
    <3> QED
      BY <2>1, <3>1, <3>2 DEF EndedAt
  <2>2. CASE e \in box
    <3>1. e.n \in Nat /\ e.n < note.n /\ EndedAt(box, st, e.n)
      BY <1>2, <2>2 DEF AppleNotes, Note
    <3> QED
      BY <3>1, EndedAtNewNote
  <2> QED
    BY <2>1, <2>2
<1>3. ASSUME NEW j \in more, j.kind = "renew", a <= j.n PROVE j.end = new.end \/ Extended(more, j.n)
  <2>1. CASE j = note
    BY <2>1
  <2>2. CASE j \in box
    <3>1. j.end = st.end \/ Extended(box, j.n)
      BY <1>3, <2>2 DEF AppleNotes
    <3>2. CASE Extended(box, j.n)
      BY <3>2 DEF Extended
    <3>3. CASE Extends(note)
      BY <3>3, <2>2 DEF Extended
    <3> QED
      BY <3>1, <3>2, <3>3, <2>2
  <2> QED
    BY <2>1, <2>2
<1> QED
  BY <1>1, <1>2, <1>3 DEF AppleNotes

LEMMA NewRow ==
  ASSUME NEW box \in SUBSET Note, NEW note \in Note,
         NEW st \in Entry, NEW new \in Entry, NEW ch \in Changes("ios"), NEW a \in Nat,
         note.n = new.n, note.kind = ch.kind, ch.from = st.state,
         Extends(note) \/ new.end = st.end \/ ch.from = "none",
         \A m \in box : m.n < note.n, ~UpToDate(new, a),
         NEW r, NEW ver, NEW told,
         ch.from = "none" => r.status = "absent" /\ ver = {},
         AppleRow(box, st, a, r, told, ver)
  PROVE  AppleRow(box \cup {note}, new, a, r, told, ver)
<1> DEFINE more == box \cup {note}
<1>0. note.n \in Nat /\ 0 < note.n /\ (Extends(note) => Extended(more, 0))
  BY DEF Note, Extended
<1>1. ASSUME r.status \in {"expired", "revoked"} PROVE RowEnded(more, new, a)
  <2>1. RowEnded(box, st, a)
    BY <1>1 DEF AppleRow
  <2>2. Extended(box, 0) \/ Extends(note)
    BY <2>1, AppleChanges DEF RowEnded, Extends
  <2>3. Extended(more, 0)
    BY <2>2, <1>0 DEF Extended
  <2>4. ASSUME NEW c \in more, c.kind = "cancel", a <= c.n
        PROVE  \E m \in more : Extends(m) /\ m.n < c.n
    <3>1. CASE c \in box
      BY <2>1, <2>4, <3>1 DEF RowEnded
    <3>2. CASE c = note
      <4>1. Extended(box, 0)
        BY <2>2, <2>4, <3>2 DEF Extends
      <4> QED
        BY <3>2, <4>1 DEF Extended
    <3> QED
      BY <3>1, <3>2
  <2> QED
    BY <2>3, <2>4 DEF RowEnded
<1>2. Extended(more, 0) \/ IF r.status = "absent" THEN \A e \in ver : e = new.end ELSE r.end = new.end
  <2>1. CASE Extended(box, 0)
    BY <2>1 DEF Extended
  <2>2. CASE ~Extended(box, 0) /\ new.end = st.end
    BY <2>2 DEF AppleRow
  <2> QED
    BY <2>1, <2>2, <1>0
<1> QED
  BY <1>1, <1>2 DEF AppleRow

(* Note n has been handled, and nothing but n may be gone.                 *)
Handles(box, rest, n) == rest \subseteq box /\ \A m \in box : m = n \/ m \in rest

LEMMA PrunedNumber ==
  ASSUME NEW box \in SUBSET Note, NEW rest, NEW n \in Note, NEW st \in Entry, NEW a \in Nat,
         Handles(box, rest, n), n.n <= st.n, Numbered(box, st, a)
  PROVE  Numbered(rest, st, Later(a, n.n))
<1>1. n.n \in Nat /\ st.n \in Nat
  BY DEF Note, Entry
<1>2. Later(a, n.n) <= st.n
  BY <1>1 DEF Numbered, Later
<1>3. ASSUME Later(a, n.n) < st.n PROVE \E m \in rest : m.n = st.n
  <2>1. a < st.n /\ n.n # st.n
    BY <1>1, <1>3 DEF Later
  <2> QED
    BY <2>1 DEF Numbered, Handles
<1> QED
  BY <1>2, <1>3 DEF Numbered, Handles

LEMMA PrunedNotes ==
  ASSUME NEW box \in SUBSET Note, NEW rest, NEW n \in Note, NEW st \in Entry, NEW a \in Nat,
         Handles(box, rest, n), AppleNotes(box, st, a)
  PROVE  AppleNotes(rest, st, Later(a, n.n))
<1>0. n.n \in Nat
  BY DEF Note
<1>1. ASSUME NEW e \in rest, Later(a, n.n) <= e.n
      PROVE  /\ e \in box /\ a <= e.n
             /\ \A m \in box : e.n < m.n => m \in rest
  <2>1. e \in box /\ e.n \in Nat
    BY DEF Handles, Note
  <2>2. a <= e.n /\ n.n <= e.n
    BY <1>0, <1>1, <2>1 DEF Later
  <2> QED
    BY <1>0, <2>1, <2>2 DEF Handles
<1>2. ASSUME NEW e \in rest, e.kind \in {"expire", "revoke"}, Later(a, n.n) <= e.n
      PROVE  EndedAt(rest, st, e.n)
  <2>1. e \in box /\ EndedAt(box, st, e.n)
    BY <1>1, <1>2 DEF AppleNotes
  <2> QED
    BY <1>1, <1>2, <2>1, EndedAtKept DEF Handles
<1>3. ASSUME NEW j \in rest, j.kind = "renew", Later(a, n.n) <= j.n
      PROVE  j.end = st.end \/ Extended(rest, j.n)
  <2>1. j \in box /\ (j.end = st.end \/ Extended(box, j.n))
    BY <1>1, <1>3 DEF AppleNotes
  <2> QED
    BY <1>1, <1>3, <2>1 DEF Extended
<1> QED
  BY <1>2, <1>3 DEF AppleNotes

(* A note that comes with no change of the end is only logged.             *)
LEMMA DroppedRow ==
  ASSUME NEW box \in SUBSET Note, NEW rest, NEW n \in box, NEW st \in Entry, NEW a \in Nat,
         Handles(box, rest, n), n.kind = "other", Numbered(box, st, a),
         NEW r, NEW told, NEW ver, AppleRow(box, st, a, r, told, ver)
  PROVE  AppleRow(rest, st, Later(a, n.n), r, told, ver)
<1>0. /\ n.n \in Nat /\ st.n \in Nat
      /\ \A m \in box : m.n \in Nat
  BY DEF Note, Entry
<1>1. UpToDate(st, Later(a, n.n)) => UpToDate(st, a)
  BY <1>0 DEF UpToDate, Later, Numbered, Logged
<1>2. \A m \in box : Extends(m) => m \in rest
  BY DEF Extends, Handles
<1>3. RowEnded(box, st, a) => RowEnded(rest, st, Later(a, n.n))
  <2>1. \A c \in rest : Later(a, n.n) <= c.n => a <= c.n
    BY <1>0 DEF Handles, Later
  <2> QED
    BY <1>2, <2>1 DEF RowEnded, Extended, Handles
<1>4. Extended(box, 0) => Extended(rest, 0)
  BY <1>2 DEF Extended
<1> QED
  BY <1>1, <1>3, <1>4 DEF AppleRow

(* An Apple row is written with the change of n: by a renewal, or in turn  *)
(* on a row that has lost nothing.                                         *)
LEMMA WrittenRow ==
  ASSUME NEW box \in SUBSET Note, NEW rest, NEW n \in box, NEW st \in Entry, NEW a \in Nat,
         Handles(box, rest, n), n.kind \notin Logged, a <= n.n, Numbered(box, st, a),
         AppleNotes(box, st, a),
         NEW r \in Row, NEW told, NEW ver, NEW saying, r.status # "absent",
         r.status \in {"active", "grace_period"} => told = [premium |-> TRUE, end |-> r.end],
         \/ n.kind = "renew"
         \/ AppleRow(box, st, a, r, told, ver) /\ \A m \in box : n.n <= m.n,
         n.kind = "cancel" => saying = told
  PROVE  AppleRow(rest, st, Later(a, n.n), AppleUpdate(r, n), saying, ver)
<1> DEFINE w == AppleUpdate(r, n)
<1>0. /\ n.n \in Nat /\ st.n \in Nat
      /\ Later(a, n.n) = n.n
      /\ n.kind \in {"renew", "expire", "revoke", "cancel"}
      /\ \A m \in box : m.n \in Nat
  BY DEF Note, Entry, Later, Kind, Logged
<1>1. /\ n.kind = "renew" => w.status = "active" /\ w.end = n.end
      /\ n.kind = "expire" => w.status = "expired"
      /\ n.kind = "revoke" => w.status = "revoked"
      /\ n.kind = "cancel" => w.status = "cancelled"
      /\ n.kind # "renew" => w.end = r.end
  <2>1. CASE n.kind = "renew"
    BY <2>1 DEF AppleUpdate
  <2>2. CASE n.kind = "expire"
    BY <2>2 DEF AppleUpdate, Row
  <2>3. CASE n.kind = "revoke"
    BY <2>3 DEF AppleUpdate, Row
  <2>4. CASE n.kind = "cancel"
    BY <2>4 DEF AppleUpdate, Row
  <2> QED
    BY <1>0, <2>1, <2>2, <2>3, <2>4
<1> HIDE DEF w
<1>2. ASSUME UpToDate(st, n.n) PROVE w.status \in StatusAtStore(st.state)
  <2>1. n.n = st.n /\ st.kind = n.kind
    BY <1>0, <1>2 DEF UpToDate, Numbered
  <2>2. KindFits(st)
    BY DEF AppleNotes
  <2> QED
    BY <1>0, <1>1, <2>1, <2>2 DEF KindFits, StatusAtStore
<1>3. ASSUME w.status \in {"expired", "revoked"} PROVE RowEnded(rest, st, n.n)
  <2>1. n.kind \in {"expire", "revoke"}
    BY <1>0, <1>1, <1>3
  <2>2. EndedAt(box, st, n.n)
    BY <2>1 DEF AppleNotes
  <2>3. \A m \in box : Extends(m) => m \in rest
    BY <2>1 DEF Handles, Extends
  <2>4. \A c \in rest : c.kind = "cancel" /\ n.n <= c.n => c \in box /\ n.n < c.n
    BY <1>0, <2>1 DEF Handles, Numbered
  <2>5. \A c \in rest : c.kind = "cancel" /\ n.n <= c.n => \E m \in rest : Extends(m) /\ m.n < c.n
    BY <2>2, <2>3, <2>4 DEF EndedAt
  <2>6. Extended(box, n.n) => Extended(rest, 0)
    BY <1>0, <2>3 DEF Extended
  <2> QED
    BY <2>2, <2>5, <2>6 DEF EndedAt, RowEnded
<1>4. ASSUME w.status = "cancelled" PROVE saying = [premium |-> TRUE, end |-> w.end]
  <2>1. n.kind = "cancel"
    BY <1>0, <1>1, <1>4
  <2>2. AppleRow(box, st, a, r, told, ver) /\ \A m \in box : n.n <= m.n
    BY <2>1
  <2>3. r.status \notin {"expired", "revoked"}
    BY <1>0, <2>1, <2>2 DEF AppleRow, RowEnded
  <2>4. told = [premium |-> TRUE, end |-> r.end]
    BY <2>2, <2>3 DEF AppleRow, Row, Status
  <2> QED
    BY <2>1, <2>4, <1>1
<1>5. Extended(rest, 0) \/ w.end = st.end
  <2>1. CASE n.kind = "renew"
    <3>1. n.end = st.end \/ Extended(box, n.n)
      BY <2>1 DEF AppleNotes
    <3>2. Extended(box, n.n) => Extended(rest, 0)
      BY <1>0 DEF Extended, Handles
    <3> QED
      BY <2>1, <3>1, <3>2, <1>1
  <2>2. CASE n.kind # "renew"
    <3>1. Extended(box, 0) \/ r.end = st.end
      BY <2>2 DEF AppleRow, Row, Status
    <3>2. Extended(box, 0) => Extended(rest, 0)
      BY <1>0, <2>2 DEF Extended, Extends, Handles
    <3> QED
      BY <2>2, <3>1, <3>2, <1>1
  <2> QED
    BY <2>1, <2>2
<1>6. w.status # "absent"
  BY <1>0, <1>1
<1> QED
  BY <1>0, <1>2, <1>3, <1>4, <1>5, <1>6 DEF AppleRow, w

-----------------------------------------------------------------------------
(***************************************************************************)
(* The steps.                                                              *)
(***************************************************************************)

(* What a step about another token keeps.                                  *)
Keeps(u) ==
  /\ UNCHANGED <<Box(u), store[u], applied[u], sub[u], announced[u], verified[u]>>
  /\ u \in behind => u \in behind'

KeepsHandler(g) ==
  /\ UNCHANGED <<pc[g], job[g], row[g], event[g]>>
  /\ g \in overtaken => g \in overtaken'

LEMMA SameToken ==
  ASSUME NEW u \in Token, TokenInv(u), Keeps(u)
  PROVE  TokenInv(u)'
  BY DEF TokenInv, Keeps

LEMMA SameHandler ==
  ASSUME NEW g \in Handler, HandlerInv(g), KeepsHandler(g), pc[g] # "idle" => Keeps(job[g].token)
  PROVE  HandlerInv(g)'
  BY DEF HandlerInv, Keeps, KeepsHandler

LEMMA Types ==
  ASSUME IInv
  PROVE  /\ \A t \in Token :
              /\ Box(t) \subseteq Note
              /\ store[t] \in Entry /\ store[t].n \in Nat
              /\ applied[t] \in Nat
              /\ sub[t] \in Row
         /\ \A h \in Handler : pc[h] # "idle" => job[h] \in Note /\ job[h].token \in Token
         /\ \A n \in inbox : n \in Note /\ n.token \in Token /\ n \in Box(n.token)
  BY DEF IInv, TypeOK, HistoryOK, EndInv, Box, Entry, Note

LEMMA InitOrderInv == Init => OrderInv
<1> SUFFICES ASSUME Init PROVE OrderInv
  OBVIOUS
<1>1. IInv
  BY InitIInv
<1>2. ASSUME NEW t \in Token PROVE TokenInv(t)
  <2>1. /\ Box(t) = {} /\ applied[t] = 0 /\ verified[t] = {}
        /\ store[t].n = 0 /\ store[t].kind = "other" /\ store[t].state = "none"
        /\ sub[t].status = "absent"
    BY DEF Init, Box, NoRow
  <2>2. Numbered(Box(t), store[t], applied[t]) /\ ~UpToDate(store[t], applied[t])
    BY <2>1 DEF Numbered, UpToDate, Logged
  <2>3. AppleNotes(Box(t), store[t], applied[t])
    BY <2>1 DEF AppleNotes, KindFits
  <2>4. AppleRow(Box(t), store[t], applied[t], sub[t], announced[t], verified[t])
    BY <2>1, <2>2 DEF AppleRow
  <2> QED
    BY <2>2, <2>3, <2>4 DEF TokenInv, GoogleRow
<1>3. ASSUME NEW h \in Handler PROVE HandlerInv(h)
  BY DEF Init, HandlerInv
<1> QED
  BY <1>1, <1>2, <1>3 DEF OrderInv

LEMMA StoreChangeOrder ==
  ASSUME OrderInv, NEW t \in Token, StoreChange(t)
  PROVE  (\A u \in Token : TokenInv(u)') /\ \A h \in Handler : HandlerInv(h)'
<1>1. PICK ch \in Changes(PlatformOf[t]) :
        /\ ch.from = store[t].state
        /\ \E end \in EndsAfter(PlatformOf[t], store[t], ch) :
             LET n == store[t].n + 1
                 sold == IF end > store[t].sold THEN end ELSE store[t].sold
             IN
             /\ store' = [store EXCEPT ![t] =
                  [state |-> ch.to, end |-> end, sold |-> sold, n |-> n, kind |-> ch.kind]]
             /\ inbox' = inbox \cup {[token |-> t, n |-> n, kind |-> ch.kind, end |-> end]}
  BY DEF StoreChange
<1>2. PICK end \in EndsAfter(PlatformOf[t], store[t], ch) :
        LET n == store[t].n + 1
            sold == IF end > store[t].sold THEN end ELSE store[t].sold
        IN
        /\ store' = [store EXCEPT ![t] =
             [state |-> ch.to, end |-> end, sold |-> sold, n |-> n, kind |-> ch.kind]]
        /\ inbox' = inbox \cup {[token |-> t, n |-> n, kind |-> ch.kind, end |-> end]}
  BY <1>1
<1>3. PICK new, note :
        /\ note = [token |-> t, n |-> store[t].n + 1, kind |-> ch.kind, end |-> end]
        /\ new.state = ch.to /\ new.end = end /\ new.n = store[t].n + 1 /\ new.kind = ch.kind
        /\ store' = [store EXCEPT ![t] = new]
        /\ inbox' = inbox \cup {note}
  <2> DEFINE n == store[t].n + 1
             sold == IF end > store[t].sold THEN end ELSE store[t].sold
             entry == [state |-> ch.to, end |-> end, sold |-> sold, n |-> n, kind |-> ch.kind]
  <2>1. /\ entry.state = ch.to /\ entry.end = end /\ entry.n = store[t].n + 1 /\ entry.kind = ch.kind
        /\ store' = [store EXCEPT ![t] = entry]
        /\ inbox' = inbox \cup {[token |-> t, n |-> n, kind |-> ch.kind, end |-> end]}
    BY <1>2
  <2> HIDE DEF entry
  <2> QED
    BY <2>1
<1>4. note.token = t /\ note.n = new.n /\ note.kind = ch.kind /\ note.end = new.end
  BY <1>3
<1>5. IInv /\ IInv' /\ UNCHANGED <<verified, sub, announced, pc, job, row, event, behind, applied, overtaken>>
  BY NextIInv DEF OrderInv, Next, StoreChange, dbVars, handlerVars, history
<1>6. store'[t] = new /\ \A u \in Token : u # t => store'[u] = store[u]
  BY <1>3, <1>5 DEF IInv, TypeOK
<1>7. /\ Box(t)' = Box(t) \cup {note}
      /\ \A u \in Token : u # t => Box(u)' = Box(u)
  BY <1>3, <1>4 DEF Box
<1>8. new \in Entry /\ note \in Note /\ Box(t) \in SUBSET Note /\ store[t] \in Entry
      /\ applied[t] \in Nat /\ store[t].n \in Nat
  <2>1. new \in Entry /\ note \in Note
    BY <1>3, <1>5, <1>6 DEF IInv, TypeOK
  <2> QED
    BY <2>1, <1>5, Types
<1>9. TokenInv(t)
  BY DEF OrderInv
<1>10. /\ Numbered(Box(t) \cup {note}, new, applied[t])
       /\ ~UpToDate(new, applied[t])
       /\ \A m \in Box(t) : m.n < note.n
  BY <1>3, <1>4, <1>8, <1>9, NewNumber DEF TokenInv
<1>11. ASSUME PlatformOf[t] = "ios"
       PROVE  /\ AppleNotes(Box(t) \cup {note}, new, applied[t])
              /\ \/ t \in behind
                 \/ AppleRow(Box(t) \cup {note}, new, applied[t], sub[t], announced[t], verified[t])
  <2>1. ch \in Changes("ios") /\ (Extends(note) \/ new.end = store[t].end \/ ch.from = "none")
    BY <1>3, <1>4, <1>11 DEF EndsAfter, Extends
  <2>2. ASSUME ch.from = "none" PROVE Box(t) = {} /\ verified[t] = {} /\ sub[t].status = "absent"
    <3>1. store[t].sold = 0
      BY <1>1, <1>5, <2>2 DEF IInv, StoreInv
    <3>2. \A m \in Box(t) : m.end \in Nat /\ 0 < m.end /\ m.end <= 0
      BY <1>5, <1>8, <3>1 DEF IInv, EndInv, Box, Note
    <3>3. \A e \in verified[t] : e \in 1 .. MaxChanges /\ e <= 0
      BY <1>5, <3>1 DEF IInv, EndInv, TypeOK
    <3>4. sub[t].end \in Nat /\ sub[t].end <= 0
      BY <1>5, <3>1 DEF IInv, EndInv, OnlySoldPeriods, TypeOK, Row
    <3>5. sub[t].status = "absent"
      BY <1>5, <3>4 DEF IInv, EndInv, OnlySoldPeriods
    <3> QED
      BY <3>2, <3>3, <3>5
  <2>3. AppleNotes(Box(t) \cup {note}, new, applied[t])
    BY <1>1, <1>3, <1>4, <1>8, <1>9, <1>10, <1>11, <2>1, <2>2, NewNotes DEF TokenInv
  <2>4. ASSUME t \notin behind
        PROVE  AppleRow(Box(t) \cup {note}, new, applied[t], sub[t], announced[t], verified[t])
    <3>1. AppleRow(Box(t), store[t], applied[t], sub[t], announced[t], verified[t])
      BY <1>9, <1>11, <2>4 DEF TokenInv
    <3> QED
      BY <1>1, <1>3, <1>4, <1>8, <1>10, <2>1, <2>2, <3>1, NewRow
  <2> QED
    BY <2>3, <2>4
<1>12. TokenInv(t)'
  BY <1>5, <1>6, <1>7, <1>10, <1>11 DEF TokenInv, GoogleRow
<1>13. \A u \in Token : u # t => Keeps(u)
  BY <1>5, <1>6, <1>7 DEF Keeps
<1>14. ASSUME NEW h \in Handler PROVE HandlerInv(h)'
  <2>1. HandlerInv(h) /\ KeepsHandler(h)
    BY <1>5 DEF OrderInv, KeepsHandler
  <2>2. CASE pc[h] = "idle" \/ job[h].token # t
    BY <2>1, <2>2, <1>5, <1>13, Types, SameHandler
  <2>3. CASE pc[h] # "idle" /\ job[h].token = t
    <3>1. job[h] \in Note /\ job[h].n \in Nat
      BY <1>5, <2>3, Types DEF Note
    <3>2. applied[t] <= store[t].n
      BY <1>9 DEF TokenInv, Numbered
    <3>3. job[h].n <= store[t].n
      BY <2>1, <2>3 DEF HandlerInv
    <3>4. job[h].n <= new.n /\ job[h].n < new.n /\ applied[t] < new.n
      BY <1>3, <1>8, <3>1, <3>2, <3>3
    <3>5. ASSUME pc[h] = "write", h \notin overtaken
          PROVE  Writes(PlatformOf[t], job[h], row[h], event[h], Box(t) \cup {note}, new, applied[t], sub[t])
      BY <2>1, <2>3, <3>4, <3>5 DEF HandlerInv, Writes
    <3> QED
      BY <1>5, <1>6, <1>7, <2>1, <2>3, <3>4, <3>5 DEF HandlerInv
  <2> QED
    BY <2>2, <2>3
<1> QED
  BY <1>12, <1>13, <1>14, SameToken DEF OrderInv

LEMMA VerifySubscriptionOrder ==
  ASSUME OrderInv, NEW t \in Token, VerifySubscription(t)
  PROVE  (\A u \in Token : TokenInv(u)') /\ \A h \in Handler : HandlerInv(h)'
<1>1. /\ UNCHANGED <<store, inbox, sub, announced, pc, job, row, event, behind, applied, overtaken>>
      /\ verified' = [verified EXCEPT ![t] = @ \cup {store[t].end}]
      /\ sub[t].status = "absent"
  BY DEF VerifySubscription, storeVars, dbVars, handlerVars, history
<1>2. /\ verified'[t] = verified[t] \cup {store[t].end}
      /\ \A u \in Token : u # t => verified'[u] = verified[u]
      /\ \A u \in Token : Box(u)' = Box(u)
  BY <1>1 DEF OrderInv, IInv, TypeOK, Box
<1>3. AppleRow(Box(t), store[t], applied[t], sub[t], announced[t], verified[t])
        => AppleRow(Box(t), store[t], applied[t], sub[t], announced[t], verified'[t])
  BY <1>1, <1>2 DEF AppleRow
<1>4. TokenInv(t)'
  <2>1. TokenInv(t)
    BY DEF OrderInv
  <2> QED
    BY <2>1, <1>1, <1>2, <1>3 DEF TokenInv
<1>5. \A u \in Token : u # t => Keeps(u)
  BY <1>1, <1>2 DEF Keeps
<1>6. ASSUME NEW h \in Handler PROVE HandlerInv(h)'
  BY <1>1, <1>2 DEF OrderInv, IInv, HandlerInv, TypeOK, Note, Box
<1> QED
  BY <1>4, <1>5, <1>6, SameToken DEF OrderInv

LEMMA CreateSubscriptionOrder ==
  ASSUME OrderInv, NEW t \in Token, CreateSubscription(t)
  PROVE  (\A u \in Token : TokenInv(u)') /\ \A h \in Handler : HandlerInv(h)'
<1>0. IInv /\ TokenInv(t)
  BY DEF OrderInv
<1>1. PICK end \in verified[t] :
        /\ verified' = [verified EXCEPT ![t] = @ \ {end}]
        /\ IF sub[t].status = "absent"
           THEN /\ sub' = [sub EXCEPT ![t] = [status |-> "active", end |-> end]]
                /\ announced' = [announced EXCEPT ![t] = [premium |-> TRUE, end |-> end]]
           ELSE UNCHANGED <<sub, announced>>
        /\ UNCHANGED <<store, inbox, pc, job, row, event, behind, applied, overtaken>>
  BY DEF CreateSubscription, storeVars, dbVars, handlerVars, history
<1>2. /\ verified'[t] \subseteq verified[t]
      /\ \A u \in Token : u # t => /\ verified'[u] = verified[u]
                                   /\ sub'[u] = sub[u] /\ announced'[u] = announced[u]
      /\ \A u \in Token : Box(u)' = Box(u)
  BY <1>0, <1>1 DEF IInv, TypeOK, Box
<1>3. \A u \in Token : u # t => Keeps(u)
  BY <1>1, <1>2 DEF Keeps
<1>4. TokenInv(t)'
  <2>1. CASE sub[t].status = "absent"
    <3>1. sub'[t].status = "active" /\ sub'[t].end = end
      BY <1>0, <1>1, <2>1 DEF IInv, TypeOK
    <3>2. ASSUME PlatformOf[t] = "android", t \notin behind
          PROVE  GoogleRow(store[t], applied[t], sub'[t])
      BY <1>0, <2>1, <3>2 DEF TokenInv, GoogleRow, Agrees, StatusAtStore
    <3>3. ASSUME PlatformOf[t] = "ios", t \notin behind
          PROVE  AppleRow(Box(t), store[t], applied[t], sub'[t], announced'[t], verified'[t])
      <4>1. AppleRow(Box(t), store[t], applied[t], sub[t], announced[t], verified[t])
        BY <1>0, <3>3 DEF TokenInv
      <4>2. ~UpToDate(store[t], applied[t])
        BY <2>1, <4>1 DEF AppleRow, StatusAtStore
      <4>3. Extended(Box(t), 0) \/ end = store[t].end
        BY <1>1, <2>1, <4>1 DEF AppleRow
      <4> QED
        BY <3>1, <4>2, <4>3 DEF AppleRow
    <3> QED
      BY <1>0, <1>1, <1>2, <3>2, <3>3 DEF TokenInv
  <2>2. CASE sub[t].status # "absent"
    <3>1. AppleRow(Box(t), store[t], applied[t], sub[t], announced[t], verified[t])
            => AppleRow(Box(t), store[t], applied[t], sub[t], announced[t], verified'[t])
      BY <2>2 DEF AppleRow
    <3> QED
      BY <1>0, <1>1, <1>2, <2>2, <3>1 DEF TokenInv
  <2> QED
    BY <2>1, <2>2
<1>5. ASSUME NEW h \in Handler PROVE HandlerInv(h)'
  <2>1. HandlerInv(h) /\ KeepsHandler(h)
    BY <1>1 DEF OrderInv, KeepsHandler
  <2>2. CASE pc[h] = "idle" \/ job[h].token # t
    BY <2>1, <2>2, <1>0, <1>3, Types, SameHandler
  <2>3. CASE pc[h] # "idle" /\ job[h].token = t
    <3>1. sub[t].status # "absent"
      BY <2>1, <2>3 DEF HandlerInv
    <3> QED
      BY <1>1, <1>2, <2>1, <2>3, <3>1 DEF HandlerInv
  <2> QED
    BY <2>2, <2>3
<1> QED
  BY <1>3, <1>4, <1>5, SameToken DEF OrderInv

(* What the history says of a note that is handled.                        *)
LEMMA HandledNote ==
  ASSUME IInv, NEW n \in Note, Handled(n)
  PROVE  /\ applied'[n.token] = Later(applied[n.token], n.n)
         /\ \A u \in Token : u # n.token => applied'[u] = applied[u]
  BY DEF IInv, TypeOK, HistoryOK, Handled, Note

(* A note is acknowledged without touching the row.                        *)
LEMMA DropOrder ==
  ASSUME OrderInv, NEW h \in Handler, NEW n \in inbox, NotFound(h, n) \/ Ignore(h, n)
  PROVE  (\A u \in Token : TokenInv(u)') /\ \A g \in Handler : HandlerInv(g)'
<1> DEFINE t == n.token
<1>0. /\ IInv /\ n \in Note /\ t \in Token /\ n \in Box(t)
      /\ Box(t) \in SUBSET Note /\ store[t] \in Entry /\ applied[t] \in Nat
      /\ n.n \in Nat /\ store[t].n \in Nat
  BY Types DEF OrderInv, Note
<1>1. /\ inbox' = inbox \ {n} /\ Handled(n)
      /\ \/ n.kind = "other" /\ behind' = behind
         \/ n.kind # "other" /\ behind' = behind \cup {t}
         \/ n.kind \in Logged /\ n.kind # "extend" /\ behind' = behind
      /\ sub[t].status = "absent" \/ n.kind \in Logged
      /\ UNCHANGED <<store, verified, sub, announced, pc, job, row, event, overtaken>>
  BY DEF NotFound, Ignore, Lost, Logged, dbVars, handlerVars
<1>2. /\ n.kind = "other" \/ t \in behind'
      /\ \A u \in Token : u \in behind => u \in behind'
      /\ behind' \subseteq behind \cup {t}
  BY <1>1 DEF Logged
<1>3. /\ Box(t)' = Box(t) \ {n}
      /\ \A u \in Token : u # t => Box(u)' = Box(u)
  BY <1>1 DEF Box
<1>4. /\ applied'[t] = Later(applied[t], n.n)
      /\ \A u \in Token : u # t => applied'[u] = applied[u]
  BY <1>0, <1>1, HandledNote
<1>5. \A u \in Token : u # t => Keeps(u)
  BY <1>1, <1>2, <1>3, <1>4 DEF Keeps
<1>6. Handles(Box(t), Box(t) \ {n}, n)
  BY DEF Handles
<1>7. TokenInv(t)
  BY <1>0 DEF OrderInv
<1>8. n.n <= store[t].n /\ (n.n = store[t].n => store[t].kind = n.kind)
  BY <1>0, <1>7 DEF TokenInv, Numbered
<1>9. Numbered(Box(t) \ {n}, store[t], Later(applied[t], n.n))
  BY <1>0, <1>6, <1>7, <1>8, PrunedNumber DEF TokenInv
<1>10. ASSUME t \notin behind', PlatformOf[t] = "android"
       PROVE  GoogleRow(store[t], Later(applied[t], n.n), sub[t])
  <2>1. n.kind = "other" /\ GoogleRow(store[t], applied[t], sub[t])
    BY <1>0, <1>2, <1>7, <1>10 DEF TokenInv
  <2>2. UpToDate(store[t], Later(applied[t], n.n)) => UpToDate(store[t], applied[t])
    BY <1>0, <1>8, <2>1 DEF UpToDate, Later, Logged
  <2> QED
    BY <2>1, <2>2 DEF GoogleRow
<1>11. ASSUME PlatformOf[t] = "ios"
       PROVE  AppleNotes(Box(t) \ {n}, store[t], Later(applied[t], n.n))
  BY <1>0, <1>6, <1>7, <1>11, PrunedNotes DEF TokenInv
<1>12. ASSUME PlatformOf[t] = "ios", t \notin behind'
       PROVE  AppleRow(Box(t) \ {n}, store[t], Later(applied[t], n.n), sub[t], announced[t], verified[t])
  <2>1. n.kind = "other"
    BY <1>2, <1>12
  <2>2. AppleRow(Box(t), store[t], applied[t], sub[t], announced[t], verified[t])
    BY <1>0, <1>2, <1>7, <1>12 DEF TokenInv
  <2>3. Numbered(Box(t), store[t], applied[t])
    BY <1>7 DEF TokenInv
  <2> QED
    BY <1>0, <1>6, <2>1, <2>2, <2>3, DroppedRow
<1>13. TokenInv(t)'
  BY <1>1, <1>3, <1>4, <1>9, <1>10, <1>11, <1>12 DEF TokenInv
<1>14. ASSUME NEW g \in Handler PROVE HandlerInv(g)'
  <2>1. HandlerInv(g) /\ KeepsHandler(g)
    BY <1>1 DEF OrderInv, KeepsHandler
  <2>2. CASE pc[g] = "idle" \/ job[g].token # t
    BY <2>1, <2>2, <1>0, <1>5, Types, SameHandler
  <2>3. CASE pc[g] # "idle" /\ job[g].token = t
    <3>1. job[g] \in Note /\ job[g].n \in Nat
      BY <1>0, <2>3, Types DEF Note
    <3>2. job[g].n <= store[t].n /\ job[g].kind \notin Logged /\ sub[t].status # "absent"
      BY <2>1, <2>3 DEF HandlerInv
    <3>3. n.kind \in Logged
      BY <1>1, <3>2
    <3>4. job[g] # n
      BY <3>2, <3>3
    <3>5. ASSUME pc[g] = "write", g \notin overtaken
          PROVE  Writes(PlatformOf[t], job[g], row[g], event[g], Box(t) \ {n}, store[t],
                        Later(applied[t], n.n), sub[t])
      <4>1. Writes(PlatformOf[t], job[g], row[g], event[g], Box(t), store[t], applied[t], sub[t])
        BY <2>1, <2>3, <3>5 DEF HandlerInv
      <4>2. applied[t] < store[t].n => Later(applied[t], n.n) < store[t].n \/ store[t].kind \in Logged
        BY <1>0, <1>8, <3>3 DEF Later
      <4> QED
        BY <3>4, <4>1, <4>2 DEF Writes
    <3> QED
      BY <1>1, <1>3, <1>4, <2>1, <2>3, <3>2, <3>5 DEF HandlerInv
  <2> QED
    BY <2>2, <2>3
<1> QED
  BY <1>5, <1>13, <1>14, SameToken DEF OrderInv

(* A handler takes up a note, or asks Google: only what it will write is   *)
(* new.                                                                    *)
LEMMA PreparesOrder ==
  ASSUME OrderInv, NEW h \in Handler, HandlerInv(h)',
         UNCHANGED <<store, inbox, verified, sub, announced, behind, applied, overtaken>>,
         \A g \in Handler : g # h => UNCHANGED <<pc[g], job[g], row[g], event[g]>>
  PROVE  (\A u \in Token : TokenInv(u)') /\ \A g \in Handler : HandlerInv(g)'
<1>1. \A u \in Token : Keeps(u)
  BY DEF Keeps, Box
<1>2. ASSUME NEW g \in Handler, g # h PROVE HandlerInv(g)'
  <2>1. KeepsHandler(g) /\ HandlerInv(g) /\ IInv
    BY <1>2 DEF KeepsHandler, OrderInv
  <2> QED
    BY <2>1, <1>1, Types, SameHandler
<1> QED
  BY <1>1, <1>2, SameToken DEF OrderInv

LEMMA HandleAppleOrder ==
  ASSUME OrderInv, NEW h \in Handler, NEW n \in inbox, HandleApple(h, n)
  PROVE  (\A u \in Token : TokenInv(u)') /\ \A g \in Handler : HandlerInv(g)'
<1>0. IInv /\ n \in Note /\ n.token \in Token /\ n \in Box(n.token) /\ TokenInv(n.token)
  BY Types DEF OrderInv
<1>1. /\ pc'[h] = "write" /\ job'[h] = n
      /\ row'[h] = AppleUpdate(sub[n.token], n) /\ event'[h] = AppleEvent(n)
      /\ \A g \in Handler : g # h => UNCHANGED <<pc[g], job[g], row[g], event[g]>>
      /\ UNCHANGED <<store, inbox, verified, sub, announced, behind, applied, overtaken>>
      /\ PlatformOf[n.token] = "ios" /\ sub[n.token].status # "absent" /\ n.kind \notin Logged
  BY <1>0 DEF HandleApple, storeVars, dbVars, history, IInv, TypeOK
<1>2. n.n <= store[n.token].n
  BY <1>0 DEF TokenInv, Numbered
<1>3. Box(n.token)' = Box(n.token)
  BY <1>1 DEF Box
<1>4. Writes("ios", n, AppleUpdate(sub[n.token], n), AppleEvent(n), Box(n.token),
             store[n.token], applied[n.token], sub[n.token])
  BY <1>0 DEF Writes
<1>5. HandlerInv(h)'
  BY <1>1, <1>2, <1>3, <1>4 DEF HandlerInv
<1> QED
  BY <1>1, <1>5, PreparesOrder

LEMMA HandleGoogleOrder ==
  ASSUME OrderInv, NEW h \in Handler, NEW n \in inbox, HandleGoogle(h, n)
  PROVE  (\A u \in Token : TokenInv(u)') /\ \A g \in Handler : HandlerInv(g)'
<1>0. IInv /\ n \in Note /\ n.token \in Token /\ n \in Box(n.token) /\ TokenInv(n.token)
  BY Types DEF OrderInv
<1>1. /\ pc'[h] = "fetch" /\ job'[h] = n
      /\ \A g \in Handler : g # h => UNCHANGED <<pc[g], job[g], row[g], event[g]>>
      /\ UNCHANGED <<store, inbox, verified, sub, announced, behind, applied, overtaken>>
      /\ sub[n.token].status # "absent" /\ n.kind \notin Logged
  BY <1>0 DEF HandleGoogle, storeVars, dbVars, history, IInv, TypeOK
<1>2. n.n <= store[n.token].n
  BY <1>0 DEF TokenInv, Numbered
<1>3. HandlerInv(h)'
  BY <1>1, <1>2 DEF HandlerInv
<1> QED
  BY <1>1, <1>3, PreparesOrder

LEMMA GetSubscriptionOrder ==
  ASSUME OrderInv, NEW h \in Handler, GetSubscription(h)
  PROVE  (\A u \in Token : TokenInv(u)') /\ \A g \in Handler : HandlerInv(g)'
<1> DEFINE n == job[h]
           t == n.token
           r == [status |-> GoogleStatus(store[t].state, n.kind), end |-> store[t].end]
<1>0. IInv /\ pc[h] = "fetch" /\ HandlerInv(h) /\ n \in Note /\ t \in Token
  BY Types DEF OrderInv, GetSubscription
<1>1. /\ pc'[h] = "write" /\ job'[h] = n /\ row'[h] = r
      /\ \A g \in Handler : g # h => UNCHANGED <<pc[g], job[g], row[g], event[g]>>
      /\ UNCHANGED <<store, inbox, verified, sub, announced, behind, applied, overtaken>>
  BY <1>0 DEF GetSubscription, storeVars, dbVars, history, IInv, TypeOK
<1>2. n.n <= store[t].n /\ n.kind \notin Logged /\ sub[t].status # "absent"
  BY <1>0 DEF HandlerInv
<1>3. PlatformOf[t] = "android"
  BY <1>0 DEF IInv, EndInv
<1>4. store[t].state \in StoreState \ {"none", "revoked"}
  <2>1. sub[t].end > 0 /\ sub[t].end <= store[t].sold
    BY <1>0, <1>2 DEF IInv, EndInv, OnlySoldPeriods
  <2>2. store[t].sold # 0
    BY <1>0, <2>1 DEF IInv, TypeOK, Row, Entry
  <2> QED
    BY <1>0, <1>3, <2>2 DEF IInv, StoreInv, TypeOK, Entry
<1>5. Agrees(r, store[t])
  BY <1>4 DEF Agrees, GoogleStatus, StatusAtStore, StoreState
<1>6. Writes(PlatformOf[t], n, r, event'[h], Box(t), store[t], applied[t], sub[t])
  BY <1>3, <1>5 DEF Writes
<1>7. Box(t)' = Box(t)
  BY <1>1 DEF Box
<1> HIDE DEF r
<1>8. HandlerInv(h)'
  BY <1>1, <1>2, <1>6, <1>7 DEF HandlerInv
<1> QED
  BY <1>1, <1>8, PreparesOrder

(* A handler gives up, or does nothing: the others go on.                  *)
LEMMA GiveUpOrder ==
  ASSUME OrderInv, NEW h \in Handler, Fail(h) \/ Refuse(h)
  PROVE  (\A u \in Token : TokenInv(u)') /\ \A g \in Handler : HandlerInv(g)'
<1>1. /\ pc'[h] = "idle"
      /\ \A g \in Handler : g # h => UNCHANGED <<pc[g], job[g], row[g], event[g]>>
      /\ UNCHANGED <<store, inbox, verified, sub, announced, behind, applied>>
      /\ overtaken' = overtaken \/ overtaken' = overtaken \ {h}
  BY DEF Fail, Refuse, Idle, storeVars, dbVars, history, OrderInv, IInv, TypeOK
<1>2. \A u \in Token : Keeps(u)
  BY <1>1 DEF Keeps, Box
<1>3. ASSUME NEW g \in Handler, g # h PROVE HandlerInv(g)'
  <2>1. KeepsHandler(g) /\ HandlerInv(g) /\ IInv
    BY <1>1, <1>3 DEF KeepsHandler, OrderInv
  <2> QED
    BY <2>1, <1>2, Types, SameHandler
<1>4. HandlerInv(h)'
  BY <1>1 DEF HandlerInv
<1> QED
  BY <1>2, <1>3, <1>4, SameToken DEF OrderInv

(* A row is written, whether the store sees the 200 or sends again.        *)
LEMMA UpdateOrder ==
  ASSUME OrderInv, NEW h \in Handler, Update(h), inbox' = inbox \ {job[h]} \/ inbox' = inbox
  PROVE  (\A u \in Token : TokenInv(u)') /\ \A g \in Handler : HandlerInv(g)'
<1>00. PICK n, t : n = job[h] /\ t = n.token
  OBVIOUS
<1> DEFINE complete == PlatformOf[t] = "android" \/ (n.kind = "renew" /\ n.n >= applied[t])
<1>0. /\ IInv /\ pc[h] = "write" /\ n \in Note /\ t \in Token
      /\ Box(t) \in SUBSET Note /\ store[t] \in Entry /\ applied[t] \in Nat
      /\ n.n \in Nat /\ store[t].n \in Nat /\ sub[t] \in Row
      /\ HandlerInv(h) /\ TokenInv(t)
  BY <1>00, Types DEF OrderInv, Note, Update
<1>1. /\ sub' = [sub EXCEPT ![t] = row[h]]
      /\ Handled(n)
      /\ overtaken' = (overtaken \cup {g \in Handler : pc[g] = "write" /\ job[g].token = t}) \ {h}
      /\ UNCHANGED <<store, verified>>
      /\ pc'[h] = "idle"
      /\ \A g \in Handler : g # h => UNCHANGED <<pc[g], job[g], row[g], event[g]>>
      /\ event[h] = "none" => announced' = announced
      /\ \A u \in Token : u # t => announced'[u] = announced[u]
  BY <1>00, <1>0 DEF Update, Record, Idle, IInv, TypeOK
<1>2. behind' = IF h \notin overtaken /\ complete THEN behind \ {t}
                ELSE IF h \notin overtaken /\ ~OutOfTurn(n) THEN behind ELSE behind \cup {t}
  BY <1>00 DEF Update, Record
<1>3. /\ \A u \in Token : u # t => (u \in behind => u \in behind')
      /\ t \notin behind' => h \notin overtaken /\ (complete \/ (~OutOfTurn(n) /\ t \notin behind))
  BY <1>2
<1>4. /\ sub'[t] = row[h] /\ \A u \in Token : u # t => sub'[u] = sub[u]
      /\ applied'[t] = Later(applied[t], n.n)
      /\ \A u \in Token : u # t => applied'[u] = applied[u]
  <2>1. sub'[t] = row[h] /\ \A u \in Token : u # t => sub'[u] = sub[u]
    BY <1>0, <1>1 DEF IInv, TypeOK
  <2>2. /\ applied'[t] = Later(applied[t], n.n)
        /\ \A u \in Token : u # t => applied'[u] = applied[u]
    BY <1>00, <1>0, <1>1, HandledNote
  <2> QED
    BY <2>1, <2>2
<1>5. /\ Handles(Box(t), Box(t)', n)
      /\ \A u \in Token : u # t => Box(u)' = Box(u)
  BY <1>00, <1>0 DEF Handles, Box
<1>6. \A u \in Token : u # t => Keeps(u)
  BY <1>1, <1>3, <1>4, <1>5 DEF Keeps
<1>7. /\ n.n <= store[t].n /\ n.kind \notin Logged /\ sub[t].status # "absent"
      /\ h \notin overtaken =>
           Writes(PlatformOf[t], n, row[h], event[h], Box(t), store[t], applied[t], sub[t])
  BY <1>00, <1>0 DEF HandlerInv
<1>8. PICK rest : rest = Box(t)'
  OBVIOUS
<1>9. Handles(Box(t), rest, n)
  BY <1>5, <1>8
<1>10. Numbered(rest, store[t], Later(applied[t], n.n))
  BY <1>0, <1>7, <1>9, PrunedNumber DEF TokenInv
<1>11. ASSUME t \notin behind', PlatformOf[t] = "android"
       PROVE  GoogleRow(store[t], Later(applied[t], n.n), row[h])
  <2>1. \/ Agrees(row[h], store[t]) \/ store[t].kind \in Logged
        \/ applied[t] < store[t].n /\ n.n < store[t].n
    BY <1>3, <1>7, <1>11 DEF Writes
  <2>2. applied[t] < store[t].n /\ n.n < store[t].n => ~(store[t].n <= Later(applied[t], n.n))
    BY <1>0 DEF Later
  <2> QED
    BY <2>1, <2>2 DEF GoogleRow, UpToDate
<1>12. ASSUME PlatformOf[t] = "ios"
       PROVE  AppleNotes(rest, store[t], Later(applied[t], n.n))
  BY <1>0, <1>9, <1>12, PrunedNotes DEF TokenInv
<1>13. ASSUME t \notin behind', PlatformOf[t] = "ios"
       PROVE  AppleRow(rest, store[t], Later(applied[t], n.n), row[h], announced'[t], verified[t])
  <2>1. n \in Box(t) /\ row[h] = AppleUpdate(sub[t], n) /\ event[h] = AppleEvent(n)
    BY <1>3, <1>7, <1>13 DEF Writes
  <2>2. \/ n.kind = "renew" /\ n.n >= applied[t]
        \/ ~OutOfTurn(n) /\ t \notin behind
    BY <1>3, <1>13
  <2>3. /\ applied[t] <= n.n
        /\ \/ n.kind = "renew"
           \/ /\ AppleRow(Box(t), store[t], applied[t], sub[t], announced[t], verified[t])
              /\ \A m \in Box(t) : n.n <= m.n
    <3>1. CASE n.kind = "renew" /\ n.n >= applied[t]
      BY <1>0, <3>1
    <3>2. CASE ~OutOfTurn(n) /\ t \notin behind
      <4>1. ~(n.n < applied[t]) /\ \A m \in Box(t) : ~(m.n < n.n)
        BY <1>00, <3>2 DEF OutOfTurn, Box
      <4>2. \A m \in Box(t) : m.n \in Nat
        BY <1>0 DEF Note
      <4>3. AppleRow(Box(t), store[t], applied[t], sub[t], announced[t], verified[t])
        BY <1>0, <1>13, <3>2 DEF TokenInv
      <4> QED
        BY <1>0, <4>1, <4>2, <4>3
    <3> QED
      BY <2>2, <3>1, <3>2
  <2>4. n.kind = "cancel" => announced'[t] = announced[t]
    BY <1>1, <2>1 DEF AppleEvent
  <2>5. sub[t].status \in {"active", "grace_period"} => announced[t] = [premium |-> TRUE, end |-> sub[t].end]
    BY <1>0 DEF IInv, EventInv, StatusIsAnnounced
  <2>6. Numbered(Box(t), store[t], applied[t]) /\ AppleNotes(Box(t), store[t], applied[t])
    BY <1>0, <1>13 DEF TokenInv
  <2>7. PICK r, told, saying, ver :
          r = sub[t] /\ told = announced[t] /\ saying = announced'[t] /\ ver = verified[t]
    OBVIOUS
  <2>8. AppleRow(rest, store[t], Later(applied[t], n.n), AppleUpdate(r, n), saying, ver)
    BY <1>0, <1>7, <1>9, <2>1, <2>3, <2>4, <2>5, <2>6, <2>7, WrittenRow
  <2> QED
    BY <2>1, <2>7, <2>8
<1>14. TokenInv(t)'
  BY <1>1, <1>4, <1>8, <1>10, <1>11, <1>12, <1>13 DEF TokenInv
<1>15. ASSUME NEW g \in Handler PROVE HandlerInv(g)'
  <2>1. CASE g = h
    BY <1>1, <2>1 DEF HandlerInv
  <2>2. CASE g # h /\ (pc[g] = "idle" \/ job[g].token # t)
    <3>1. HandlerInv(g) /\ KeepsHandler(g)
      BY <1>1, <2>2 DEF OrderInv, KeepsHandler
    <3> QED
      BY <2>2, <3>1, <1>0, <1>6, Types, SameHandler
  <2>3. CASE g # h /\ pc[g] # "idle" /\ job[g].token = t
    <3>1. row[h].status # "absent"
      BY <1>0 DEF IInv, EventInv, EventFits
    <3>2. pc'[g] = "write" => g \in overtaken'
      BY <1>1, <2>3
    <3>3. HandlerInv(g)
      BY DEF OrderInv
    <3> QED
      BY <1>1, <1>4, <2>3, <3>1, <3>2, <3>3 DEF HandlerInv
  <2> QED
    BY <2>1, <2>2, <2>3
<1> QED
  BY <1>6, <1>14, <1>15, SameToken DEF OrderInv

LEMMA NextOrderInv == OrderInv /\ [Next]_vars => OrderInv'
<1> SUFFICES ASSUME OrderInv, [Next]_vars
             PROVE  (\A u \in Token : TokenInv(u)') /\ \A g \in Handler : HandlerInv(g)'
  BY NextIInv DEF OrderInv
<1>1. ASSUME NEW t \in Token, StoreChange(t)
      PROVE  (\A u \in Token : TokenInv(u)') /\ \A g \in Handler : HandlerInv(g)'
  BY <1>1, StoreChangeOrder
<1>2. ASSUME NEW t \in Token, VerifySubscription(t)
      PROVE  (\A u \in Token : TokenInv(u)') /\ \A g \in Handler : HandlerInv(g)'
  BY <1>2, VerifySubscriptionOrder
<1>3. ASSUME NEW t \in Token, CreateSubscription(t)
      PROVE  (\A u \in Token : TokenInv(u)') /\ \A g \in Handler : HandlerInv(g)'
  BY <1>3, CreateSubscriptionOrder
<1>4. ASSUME NEW h \in Handler, NEW n \in inbox, NotFound(h, n) \/ Ignore(h, n)
      PROVE  (\A u \in Token : TokenInv(u)') /\ \A g \in Handler : HandlerInv(g)'
  BY <1>4, DropOrder
<1>5. ASSUME NEW h \in Handler, NEW n \in inbox, HandleApple(h, n)
      PROVE  (\A u \in Token : TokenInv(u)') /\ \A g \in Handler : HandlerInv(g)'
  BY <1>5, HandleAppleOrder
<1>6. ASSUME NEW h \in Handler, NEW n \in inbox, HandleGoogle(h, n)
      PROVE  (\A u \in Token : TokenInv(u)') /\ \A g \in Handler : HandlerInv(g)'
  BY <1>6, HandleGoogleOrder
<1>7. ASSUME NEW h \in Handler, GetSubscription(h)
      PROVE  (\A u \in Token : TokenInv(u)') /\ \A g \in Handler : HandlerInv(g)'
  BY <1>7, GetSubscriptionOrder
<1>8. ASSUME NEW h \in Handler, Acknowledge(h) \/ AnswerLost(h)
      PROVE  (\A u \in Token : TokenInv(u)') /\ \A g \in Handler : HandlerInv(g)'
  <2>1. Update(h) /\ (inbox' = inbox \ {job[h]} \/ inbox' = inbox)
    BY <1>8 DEF Acknowledge, AnswerLost
  <2> QED
    BY <2>1, UpdateOrder
<1>9. ASSUME NEW h \in Handler, Fail(h) \/ Refuse(h)
      PROVE  (\A u \in Token : TokenInv(u)') /\ \A g \in Handler : HandlerInv(g)'
  BY <1>9, GiveUpOrder
<1>10. CASE UNCHANGED vars
  <2>1. (\A u \in Token : Keeps(u)) /\ \A g \in Handler : KeepsHandler(g)
    BY <1>10 DEF vars, storeVars, dbVars, handlerVars, history, Keeps, KeepsHandler, Box
  <2> QED
    BY <2>1, SameToken, SameHandler, Types DEF OrderInv
<1> QED
  BY <1>1, <1>2, <1>3, <1>4, <1>5, <1>6, <1>7, <1>8, <1>9, <1>10 DEF Next, Finish

(* Rows and notes keep in step, for any number of handlers side by side.   *)
THEOREM SpecOrderInv == Spec => []OrderInv
  BY InitOrderInv, NextOrderInv, PTL DEF Spec

-----------------------------------------------------------------------------
(***************************************************************************)
(* What follows.                                                           *)
(***************************************************************************)

(* What was announced fits every Apple row that has lost no change, though *)
(* cancellations are written without an event, over whatever row is there. *)
THEOREM AppleIsAnnounced == Spec => []AppleAnnounced
<1>1. OrderInv => AppleAnnounced
  <2> SUFFICES ASSUME OrderInv, NEW t \in Token \ behind, PlatformOf[t] = "ios"
               PROVE  AnnouncedAsStored(t)
    BY DEF AppleAnnounced
  <2>1. AppleRow(Box(t), store[t], applied[t], sub[t], announced[t], verified[t])
    BY DEF OrderInv, TokenInv
  <2>2. sub[t].status \in Status \cup {"absent"} /\ StatusIsAnnounced
    BY DEF OrderInv, IInv, TypeOK, EventInv, Row
  <2> QED
    BY <2>1, <2>2 DEF AppleRow, AnnouncedAsStored, StatusIsAnnounced, Entitling, Status
<1> QED
  BY <1>1, SpecOrderInv, PTL

(* A row whose notifications are all handled agrees with the store, or     *)
(* behind says that it has lost a change.                                  *)
THEOREM RowsSettle == Spec => []SettledAgrees
<1>1. OrderInv => SettledAgrees
  <2> SUFFICES ASSUME OrderInv, NEW t \in Token \ behind, Settled(t)
               PROVE  /\ sub[t].status \in StatusAtStore(store[t].state)
                      /\ sub[t].status \in Entitling => sub[t].end = store[t].end
    BY DEF SettledAgrees
  <2>1. Box(t) = {} /\ store[t].kind \notin Logged
    BY DEF Settled, Box
  <2>2. store[t].n \in Nat /\ applied[t] \in Nat
    BY Types DEF OrderInv
  <2>3. UpToDate(store[t], applied[t])
    <3>1. Numbered(Box(t), store[t], applied[t])
      BY DEF OrderInv, TokenInv
    <3> QED
      BY <2>1, <2>2, <3>1 DEF Numbered, UpToDate
  <2>4. CASE PlatformOf[t] = "android"
    BY <2>3, <2>4 DEF OrderInv, TokenInv, GoogleRow, Agrees
  <2>5. CASE PlatformOf[t] = "ios"
    <3>1. AppleRow(Box(t), store[t], applied[t], sub[t], announced[t], verified[t])
      BY <2>5 DEF OrderInv, TokenInv
    <3>2. ~Extended(Box(t), 0)
      BY <2>1 DEF Extended
    <3> QED
      BY <2>3, <3>1, <3>2 DEF AppleRow, Entitling
  <2> QED
    BY <2>4, <2>5, SubscriptionAssumption DEF SubscriptionAssumption
<1> QED
  BY <1>1, SpecOrderInv, PTL

-----------------------------------------------------------------------------
(***************************************************************************)
(* The writes of Premium, each one step there: CreateSubscription, Extend, *)
(* Terminate and Cancel.                                                   *)
(***************************************************************************)
Begins(t) ==
  /\ sub[t].status = "absent"
  /\ sub'[t].status = "active" /\ announced'[t] = [premium |-> TRUE, end |-> sub'[t].end]

Continues(t) ==
  /\ sub'[t].status \in {"active", "grace_period"}
  /\ announced'[t] = [premium |-> TRUE, end |-> sub'[t].end]

Terminates(t) == sub'[t].status \in {"expired", "revoked"} /\ announced'[t] = NoEvent

Cancels(t) == sub'[t].status = "cancelled" /\ announced'[t] = announced[t]

RowMoves(t) ==
  /\ 0 < sub'[t].end
  /\ Begins(t) \/ (sub[t].status # "absent" /\ (Continues(t) \/ Terminates(t) \/ Cancels(t)))
  /\ \A u \in Token \ {t} : sub'[u] = sub[u] /\ announced'[u] = announced[u]

RowsMove == UNCHANGED <<sub, announced>> \/ \E t \in Token : RowMoves(t)

(* A handler's write.                                                      *)
LEMMA UpdateMoves ==
  ASSUME OrderInv, NEW h \in Handler, Update(h)
  PROVE  RowsMove
<1>1. PICK t : t = job[h].token
  OBVIOUS
<1>2. /\ t \in Token /\ sub[t].status # "absent"
      /\ EventFits(row[h].status, event[h]) /\ row[h].status \in Status \cup {"absent"}
      /\ event[h] \in {"none", "premium", "ended"}
      /\ 0 < row[h].end
  BY <1>1, Types DEF Update, OrderInv, HandlerInv, IInv, EventInv, EndInv, TypeOK, Row
<1>3. sub'[t] = row[h] /\ \A u \in Token \ {t} : sub'[u] = sub[u]
  BY <1>1, <1>2 DEF Update, OrderInv, IInv, TypeOK
<1>4. /\ event[h] = "none" => announced' = announced
      /\ event[h] = "premium" => announced'[t] = [premium |-> TRUE, end |-> row[h].end]
      /\ event[h] = "ended" => announced'[t] = NoEvent
      /\ \A u \in Token \ {t} : announced'[u] = announced[u]
  BY <1>1, <1>2 DEF Update, OrderInv, IInv, TypeOK
<1>5. Continues(t) \/ Terminates(t) \/ Cancels(t)
  BY <1>2, <1>3, <1>4 DEF Continues, Terminates, Cancels, EventFits, Status
<1> QED
  BY <1>2, <1>3, <1>4, <1>5 DEF RowsMove, RowMoves

(* A Subscribe call's.                                                     *)
LEMMA CreateMoves ==
  ASSUME OrderInv, NEW t \in Token, CreateSubscription(t)
  PROVE  RowsMove
<1>1. PICK end \in verified[t] :
        IF sub[t].status = "absent"
        THEN /\ sub' = [sub EXCEPT ![t] = [status |-> "active", end |-> end]]
             /\ announced' = [announced EXCEPT ![t] = [premium |-> TRUE, end |-> end]]
        ELSE UNCHANGED <<sub, announced>>
  BY DEF CreateSubscription, dbVars
<1>2. CASE sub[t].status = "absent"
  <2>1. end \in Nat /\ 0 < end
    BY DEF OrderInv, IInv, TypeOK
  <2>2. /\ sub'[t].status = "active" /\ sub'[t].end = end
        /\ announced'[t] = [premium |-> TRUE, end |-> end]
        /\ \A u \in Token \ {t} : sub'[u] = sub[u] /\ announced'[u] = announced[u]
    BY <1>1, <1>2 DEF OrderInv, IInv, TypeOK
  <2> QED
    BY <1>2, <2>1, <2>2 DEF RowsMove, RowMoves, Begins
<1>3. CASE sub[t].status # "absent"
  BY <1>1, <1>3 DEF RowsMove
<1> QED
  BY <1>2, <1>3

(* The handlers and calls, with all their steps and however they overlap,  *)
(* change rows and announce changes in no other way than Premium does in   *)
(* one step: a row begins, goes on or ends with its event, or is cancelled *)
(* without one, and no step touches two rows.                              *)
THEOREM RowsMoveAsInPremium == Spec => [][RowsMove]_vars
<1>1. OrderInv /\ [Next]_vars => RowsMove
  <2> SUFFICES ASSUME OrderInv, [Next]_vars PROVE RowsMove
    OBVIOUS
  <2>1. ASSUME NEW t \in Token, CreateSubscription(t) PROVE RowsMove
    BY <2>1, CreateMoves
  <2>2. ASSUME NEW h \in Handler, Update(h) PROVE RowsMove
    BY <2>2, UpdateMoves
  <2>3. ASSUME NEW t \in Token, StoreChange(t) \/ VerifySubscription(t) PROVE RowsMove
    BY <2>3 DEF StoreChange, VerifySubscription, RowsMove, dbVars
  <2>4. ASSUME NEW h \in Handler, NEW n \in inbox,
               NotFound(h, n) \/ Ignore(h, n) \/ HandleApple(h, n) \/ HandleGoogle(h, n)
        PROVE  RowsMove
    BY <2>4 DEF NotFound, Ignore, HandleApple, HandleGoogle, RowsMove, dbVars
  <2>5. ASSUME NEW h \in Handler, GetSubscription(h) \/ Refuse(h) \/ Fail(h) PROVE RowsMove
    BY <2>5 DEF GetSubscription, Refuse, Fail, RowsMove, dbVars
  <2>6. CASE UNCHANGED vars
    BY <2>6 DEF vars, RowsMove, dbVars
  <2> QED
    BY <2>1, <2>2, <2>3, <2>4, <2>5, <2>6 DEF Next, Finish, Acknowledge, AnswerLost
<1> QED
  BY <1>1, SpecOrderInv, PTL DEF Spec
=============================================================================
