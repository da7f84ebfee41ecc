-------------------------- MODULE ProductListProofs --------------------------
(***************************************************************************)
(* Proofs about ProductList for any calls, catalogues and bounds.          *)
(***************************************************************************)
EXTENDS ProductList, TLAPS

UnderWay == {"subscription", "clock", "items", "owned"}

(* The locals of a call.                                                   *)
Local(pc, views, row, entitled, shown, before, ever, steady) ==
  [pc |-> pc, views |-> views, sub |-> row, entitled |-> entitled,
   shown |-> shown, before |-> before, ever |-> ever, steady |-> steady]

Shape(l) ==
  /\ l = Local(l.pc, l.views, l.sub, l.entitled, l.shown, l.before, l.ever, l.steady)
  /\ l.pc \in Places
  /\ l.sub \in [status : Statuses, end : Nat]
  /\ l.entitled \in BOOLEAN /\ l.ever \in BOOLEAN /\ l.steady \in BOOLEAN
  /\ \A s \in l.shown : s[2] \in BOOLEAN

Types ==
  /\ now \in Nat
  /\ sub \in [status : Statuses, end : Nat]
  /\ call = [c \in Call |-> call[c]]
  /\ \A c \in Call : Shape(call[c])

(* Entries are made at the end only, those without a query of their own    *)
(* first.                                                                  *)
EntryInv ==
  \A c \in Call :
    /\ call[c].pc # "owned" => call[c].shown = {}
    /\ call[c].pc = "owned" =>
         \A v \in call[c].views : v.type = "subscription" => \E s \in call[c].shown : s[1] = v

(* What was owned when the call began still is.                            *)
BeforeInv == \A c \in Call : call[c].before \subseteq owned

(* The row and the clock: what has been read was so at some moment of the  *)
(* call, and is so still if nothing has changed.                           *)
SubInv ==
  \A c \in Call :
    LET l == call[c] IN
    /\ l.pc \in UnderWay => (IsEntitled(sub) => l.ever)
    /\ l.pc = "subscription" => (l.steady => IsEntitled(sub))
    /\ l.pc = "clock" => /\ IsEntitled(l.sub) => l.ever
                         /\ l.steady => l.sub = sub /\ IsEntitled(sub)
    /\ l.pc \in {"items", "owned"} => /\ l.entitled => l.ever
                                      /\ l.steady => l.entitled

IInv == Types /\ EntryInv /\ BeforeInv /\ SubInv /\ ShownWasTrue /\ SubscriptionIsShown

-----------------------------------------------------------------------------
(* What becomes of the locals, field by field.                             *)

LEMMA PutOne ==
  ASSUME NEW k, k = Local(k.pc, k.views, k.sub, k.entitled, k.shown, k.before, k.ever, k.steady)
  PROVE  /\ \A x : [k EXCEPT !.pc = x] = Local(x, k.views, k.sub, k.entitled, k.shown, k.before, k.ever, k.steady)
         /\ \A x : [k EXCEPT !.before = x] = Local(k.pc, k.views, k.sub, k.entitled, k.shown, x, k.ever, k.steady)
         /\ \A x : [k EXCEPT !.shown = x] = Local(k.pc, k.views, k.sub, k.entitled, x, k.before, k.ever, k.steady)
         /\ \A x : [k EXCEPT !.ever = x] = Local(k.pc, k.views, k.sub, k.entitled, k.shown, k.before, x, k.steady)
  BY DEF Local

LEMMA PutRow ==
  ASSUME NEW k, k = Local(k.pc, k.views, k.sub, k.entitled, k.shown, k.before, k.ever, k.steady),
         NEW p, NEW x
  PROVE  [k EXCEPT !.pc = p, !.sub = x]
         = Local(p, k.views, x, k.entitled, k.shown, k.before, k.ever, k.steady)
<1>1. PICK m : m = [k EXCEPT !.pc = p]
  OBVIOUS
<1>2. m = Local(p, k.views, k.sub, k.entitled, k.shown, k.before, k.ever, k.steady)
  BY <1>1, PutOne
<1>3. [m EXCEPT !.sub = x] = Local(p, k.views, x, k.entitled, k.shown, k.before, k.ever, k.steady)
  BY <1>2 DEF Local
<1> QED
  BY <1>1, <1>3

LEMMA PutEntitled ==
  ASSUME NEW k, k = Local(k.pc, k.views, k.sub, k.entitled, k.shown, k.before, k.ever, k.steady),
         NEW p, NEW x, NEW e
  PROVE  [k EXCEPT !.pc = p, !.sub = x, !.entitled = e]
         = Local(p, k.views, x, e, k.shown, k.before, k.ever, k.steady)
<1>1. PICK m : m = [k EXCEPT !.pc = p, !.sub = x]
  OBVIOUS
<1>2. m = Local(p, k.views, x, k.entitled, k.shown, k.before, k.ever, k.steady)
  BY <1>1, PutRow
<1>3. [m EXCEPT !.entitled = e] = Local(p, k.views, x, e, k.shown, k.before, k.ever, k.steady)
  BY <1>2 DEF Local
<1> QED
  BY <1>1, <1>3

LEMMA PutShown ==
  ASSUME NEW k, k = Local(k.pc, k.views, k.sub, k.entitled, k.shown, k.before, k.ever, k.steady),
         NEW p, NEW x
  PROVE  [k EXCEPT !.pc = p, !.shown = x]
         = Local(p, k.views, k.sub, k.entitled, x, k.before, k.ever, k.steady)
<1>1. PICK m : m = [k EXCEPT !.pc = p]
  OBVIOUS
<1>2. m = Local(p, k.views, k.sub, k.entitled, k.shown, k.before, k.ever, k.steady)
  BY <1>1, PutOne
<1>3. [m EXCEPT !.shown = x] = Local(p, k.views, k.sub, k.entitled, x, k.before, k.ever, k.steady)
  BY <1>2 DEF Local
<1> QED
  BY <1>1, <1>3

LEMMA PutWitness ==
  ASSUME NEW k, k = Local(k.pc, k.views, k.sub, k.entitled, k.shown, k.before, k.ever, k.steady),
         NEW x, NEW y
  PROVE  [k EXCEPT !.ever = x, !.steady = y]
         = Local(k.pc, k.views, k.sub, k.entitled, k.shown, k.before, x, y)
<1>1. PICK m : m = [k EXCEPT !.ever = x]
  OBVIOUS
<1>2. m = Local(k.pc, k.views, k.sub, k.entitled, k.shown, k.before, x, k.steady)
  BY <1>1, PutOne
<1>3. [m EXCEPT !.steady = y] = Local(k.pc, k.views, k.sub, k.entitled, k.shown, k.before, x, y)
  BY <1>2 DEF Local
<1> QED
  BY <1>1, <1>3

-----------------------------------------------------------------------------
(* A step of a call changes its locals only; c's next locals are l.        *)
LEMMA OnlyChanges ==
  ASSUME Types, NEW c \in Call, NEW l, Only(c, l)
  PROVE  /\ call'[c] = l
         /\ \A d \in Call : d # c => call'[d] = call[d]
         /\ call' = [d \in Call |-> call'[d]]
         /\ UNCHANGED <<owned, wanted, sub, now>>
  BY DEF Only, Types, catalogue

(* So it preserves the invariant if it does so for c.                      *)
CallInv(l) ==
  /\ Shape(l)
  /\ l.pc # "owned" => l.shown = {}
  /\ l.pc = "owned" =>
       \A v \in l.views : v.type = "subscription" => \E s \in l.shown : s[1] = v
  /\ l.before \subseteq owned
  /\ l.pc \in UnderWay => (IsEntitled(sub) => l.ever)
  /\ l.pc = "subscription" => (l.steady => IsEntitled(sub))
  /\ l.pc = "clock" => /\ IsEntitled(l.sub) => l.ever
                       /\ l.steady => l.sub = sub /\ IsEntitled(sub)
  /\ l.pc \in {"items", "owned"} => /\ l.entitled => l.ever
                                    /\ l.steady => l.entitled
  /\ \A s \in l.shown : s[1].type # "subscription" =>
       (IF s[2] THEN s[1].asset \in owned ELSE s[1].asset \notin l.before)
  /\ \A s \in l.shown : s[1].type = "subscription" =>
       (IF s[2] THEN l.ever ELSE ~l.steady)

LEMMA CallByCall ==
  IInv <=>
    /\ now \in Nat /\ sub \in [status : Statuses, end : Nat]
    /\ call = [c \in Call |-> call[c]]
    /\ \A c \in Call : CallInv(call[c])
  BY DEF IInv, Types, EntryInv, BeforeInv, SubInv, ShownWasTrue, SubscriptionIsShown, CallInv

LEMMA OnlyOne ==
  ASSUME IInv, NEW c \in Call, NEW l, Only(c, l), CallInv(l)
  PROVE  IInv'
<1>1. /\ call'[c] = l
      /\ \A d \in Call : d # c => call'[d] = call[d]
      /\ call' = [d \in Call |-> call'[d]]
      /\ owned' = owned /\ sub' = sub /\ now' = now
  BY OnlyChanges DEF IInv
<1>2. now' \in Nat /\ sub' \in [status : Statuses, end : Nat]
  BY <1>1 DEF IInv, Types
<1>3. ASSUME NEW d \in Call PROVE CallInv(call[d])'
  <2>1. CallInv(call'[d])
    BY <1>1, CallByCall
  <2> QED
    BY <2>1, <1>1 DEF CallInv, IsEntitled
<1> QED
  BY <1>1, <1>2, <1>3
     DEF IInv, Types, EntryInv, BeforeInv, SubInv, ShownWasTrue, SubscriptionIsShown, CallInv

-----------------------------------------------------------------------------
(* The steps of a call.                                                    *)

LEMMA Ended ==
  ASSUME IInv, NEW c \in Call, NEW p \in {"200", "500"}, Only(c, [NoCall EXCEPT !.pc = p])
  PROVE  IInv'
<1>1. PICK k : k = NoCall
  OBVIOUS
<1>2. /\ k = Local(k.pc, k.views, k.sub, k.entitled, k.shown, k.before, k.ever, k.steady)
      /\ k.sub = [status |-> "absent", end |-> 0] /\ k.shown = {} /\ k.before = {}
      /\ k.entitled = FALSE /\ k.ever = FALSE /\ k.steady = FALSE
  BY <1>1 DEF NoCall, Local
<1>3. PICK l : l = [k EXCEPT !.pc = p]
  OBVIOUS
<1>4. l = Local(p, k.views, k.sub, k.entitled, k.shown, k.before, k.ever, k.steady)
  BY <1>2, <1>3, PutOne
<1>5. /\ l = Local(l.pc, l.views, l.sub, l.entitled, l.shown, l.before, l.ever, l.steady)
      /\ l.pc = p /\ l.sub = k.sub /\ l.shown = {} /\ l.before = {}
      /\ l.entitled = FALSE /\ l.ever = FALSE /\ l.steady = FALSE
  BY <1>2, <1>4 DEF Local
<1>6. k.sub \in [status : Statuses, end : Nat]
  BY <1>2 DEF Statuses
<1>7. Shape(l)
  BY <1>5, <1>6 DEF Shape, Places
<1>8. CallInv(l)
  BY <1>5, <1>7 DEF CallInv, UnderWay
<1>9. Only(c, l)
  BY <1>1, <1>3
<1> QED
  BY <1>8, <1>9, OnlyOne

LEMMA Started ==
  ASSUME IInv, NEW c \in Call, GetActiveProducts(c)
  PROVE  IInv'
<1>1. PICK e \in BOOLEAN : e = IsEntitled(sub)
  BY DEF IsEntitled
<1>2. ASSUME NEW V,
             Only(c, [[call[c] EXCEPT !.before = owned, !.ever = e, !.steady = e]
                        EXCEPT !.pc = "subscription", !.views = V])
      PROVE  IInv'
  <2>1. PICK l : l = Local("subscription", V, call[c].sub, call[c].entitled,
                          call[c].shown, owned, e, e)
    OBVIOUS
  <2>2. Shape(call[c]) /\ call[c].pc = "idle" /\ call[c].shown = {}
    BY DEF IInv, Types, EntryInv, GetActiveProducts
  <2>3. Only(c, l)
    <3>1. PICK j : j = call[c]
      OBVIOUS
    <3>2. j = Local(j.pc, j.views, j.sub, j.entitled, j.shown, j.before, j.ever, j.steady)
      BY <2>2, <3>1 DEF Shape
    <3>3. PICK l1 : l1 = [j EXCEPT !.before = owned]
      OBVIOUS
    <3>4. l1 = Local(j.pc, j.views, j.sub, j.entitled, j.shown, owned, j.ever, j.steady)
      BY <3>2, <3>3, PutOne
    <3>5. PICK l2 : l2 = [l1 EXCEPT !.ever = e]
      OBVIOUS
    <3>6. l2 = Local(j.pc, j.views, j.sub, j.entitled, j.shown, owned, e, j.steady)
      BY <3>4, <3>5 DEF Local
    <3>7. PICK l3 : l3 = [l2 EXCEPT !.steady = e]
      OBVIOUS
    <3>8. l3 = Local(j.pc, j.views, j.sub, j.entitled, j.shown, owned, e, e)
      BY <3>6, <3>7 DEF Local
    <3>9. l3 = [j EXCEPT !.before = owned, !.ever = e, !.steady = e]
      BY <3>3, <3>5, <3>7
    <3>10. PICK l4 : l4 = [l3 EXCEPT !.pc = "subscription"]
      OBVIOUS
    <3>11. l4 = Local("subscription", j.views, j.sub, j.entitled, j.shown, owned, e, e)
      BY <3>8, <3>10 DEF Local
    <3>12. [l4 EXCEPT !.views = V] = Local("subscription", V, j.sub, j.entitled, j.shown, owned, e, e)
      BY <3>11 DEF Local
    <3>13. [l3 EXCEPT !.pc = "subscription", !.views = V] = [l4 EXCEPT !.views = V]
      BY <3>10
    <3>14. l = [l3 EXCEPT !.pc = "subscription", !.views = V]
      BY <2>1, <3>1, <3>12, <3>13
    <3> QED
      BY <1>2, <3>1, <3>9, <3>14
  <2>4. CallInv(l)
    BY <1>1, <2>1, <2>2 DEF CallInv, Shape, Local, Places, UnderWay
  <2> QED
    BY <2>3, <2>4, OnlyOne
<1>3. CASE Only(c, [NoCall EXCEPT !.pc = "500"])
  BY <1>3, Ended
<1> QED
  BY <1>1, <1>2, <1>3 DEF GetActiveProducts

LEMMA RowRead ==
  ASSUME IInv, NEW c \in Call, GetLatestSubscription(c)
  PROVE  IInv'
<1>1. PICK l : l = Local("clock", call[c].views, sub, call[c].entitled,
                        call[c].shown, call[c].before, call[c].ever, call[c].steady)
  OBVIOUS
<1>2. CallInv(call[c]) /\ call[c].pc = "subscription"
  BY CallByCall DEF GetLatestSubscription
<1>3. Only(c, l)
  BY <1>1, <1>2, PutRow DEF CallInv, Shape, GetLatestSubscription
<1>4. CallInv(l)
  BY <1>1, <1>2 DEF CallInv, Shape, Local, Places, UnderWay, IInv, Types
<1> QED
  BY <1>3, <1>4, OnlyOne

LEMMA Judged ==
  ASSUME IInv, NEW c \in Call, CheckEntitled(c)
  PROVE  IInv'
<1>1. PICK l : l = Local("items", call[c].views, [status |-> "absent", end |-> 0], IsEntitled(call[c].sub),
                        call[c].shown, call[c].before, call[c].ever, call[c].steady)
  OBVIOUS
<1>2. CallInv(call[c]) /\ call[c].pc = "clock" /\ IsEntitled(call[c].sub) \in BOOLEAN
  BY CallByCall DEF CheckEntitled, IsEntitled
<1>3. Only(c, l)
  <2>1. NoCall.sub = [status |-> "absent", end |-> 0]
    BY DEF NoCall
  <2>2. PICK k, e : k = call[c] /\ e = IsEntitled(call[c].sub)
    OBVIOUS
  <2>k. k = Local(k.pc, k.views, k.sub, k.entitled, k.shown, k.before, k.ever, k.steady)
    BY <1>2, <2>2 DEF CallInv, Shape
  <2>3. [k EXCEPT !.pc = "items", !.sub = NoCall.sub, !.entitled = e]
        = Local("items", k.views, NoCall.sub, e, k.shown, k.before, k.ever, k.steady)
    BY <2>k, PutEntitled
  <2> QED
    BY <1>1, <2>1, <2>2, <2>3 DEF CheckEntitled
<1>4. CallInv(l)
  <2>1. [status |-> "absent", end |-> 0] \in [status : Statuses, end : Nat]
    BY DEF Statuses
  <2> QED
    BY <1>1, <1>2, <2>1 DEF CallInv, Shape, Local, Places, UnderWay
<1> QED
  BY <1>3, <1>4, OnlyOne

LEMMA ItemsRead ==
  ASSUME IInv, NEW c \in Call, ListPlayerItems(c)
  PROVE  IInv'
<1> DEFINE S == {<<v, Shows(v, call[c].entitled)>> : v \in {w \in call[c].views : ~HasPack(w)}}
<1>1. PICK T : T = S
  OBVIOUS
<1>2. PICK l : l = Local("owned", call[c].views, call[c].sub, call[c].entitled,
                        T, call[c].before, call[c].ever, call[c].steady)
  OBVIOUS
<1>3. CallInv(call[c]) /\ call[c].pc = "items"
  BY CallByCall DEF ListPlayerItems
<1>4. Only(c, l)
  BY <1>1, <1>2, <1>3, PutShown DEF CallInv, Shape, ListPlayerItems
<1>5. \A s \in T : /\ s[2] = Shows(s[1], call[c].entitled)
                   /\ s[2] \in BOOLEAN
  <2>1. call[c].entitled \in BOOLEAN
    BY <1>3 DEF CallInv, Shape
  <2>2. ASSUME NEW v PROVE Shows(v, call[c].entitled) \in BOOLEAN
    <3>1. CASE v.type = "subscription"
      BY <2>1, <3>1 DEF Shows
    <3>2. CASE v.type # "subscription"
      BY <3>2 DEF Shows
    <3> QED
      BY <3>1, <3>2
  <2> QED
    BY <1>1, <2>2
<1>6. \A v \in call[c].views : v.type = "subscription" => \E s \in T : s[1] = v
  <2> SUFFICES ASSUME NEW v \in call[c].views, v.type = "subscription"
               PROVE  \E s \in T : s[1] = v
    OBVIOUS
  <2>1. v \in {w \in call[c].views : ~HasPack(w)}
    BY DEF HasPack
  <2>2. <<v, Shows(v, call[c].entitled)>> \in T
    BY <1>1, <2>1
  <2>3. <<v, Shows(v, call[c].entitled)>>[1] = v
    OBVIOUS
  <2> QED
    BY <2>2, <2>3
<1>7. \A s \in T : s[1].type # "subscription" => (s[2] <=> s[1].asset \in owned)
  BY <1>5 DEF Shows
<1>8. \A s \in T : s[1].type = "subscription" => (s[2] <=> call[c].entitled)
  BY <1>5, <1>3 DEF Shows, CallInv, Shape
<1> HIDE DEF S
<1>9. CallInv(l)
  <2>1. Shape(l)
    BY <1>2, <1>3, <1>5 DEF CallInv, Shape, Local, Places
  <2>2. \A s \in l.shown : s[1].type # "subscription" =>
          (IF s[2] THEN s[1].asset \in owned ELSE s[1].asset \notin l.before)
    BY <1>2, <1>3, <1>7 DEF CallInv, Local
  <2>3. \A s \in l.shown : s[1].type = "subscription" => (IF s[2] THEN l.ever ELSE ~l.steady)
    BY <1>2, <1>3, <1>8 DEF CallInv, Shape, Local
  <2> QED
    BY <1>2, <1>3, <1>6, <2>1, <2>2, <2>3 DEF CallInv, UnderWay, Local
<1> QED
  BY <1>4, <1>9, OnlyOne

LEMMA PackRead ==
  ASSUME IInv, NEW c \in Call, HasPlayerCardPack(c)
  PROVE  IInv'
<1>1. PICK v \in call[c].views \ {s[1] : s \in call[c].shown} :
        Only(c, [call[c] EXCEPT !.shown = @ \cup {<<v, v.asset \in owned>>}])
  BY DEF HasPlayerCardPack
<1>b. PICK b \in BOOLEAN : b = (v.asset \in owned)
  <2>1. CASE v.asset \in owned
    <3>1. TRUE = (v.asset \in owned)
      BY <2>1
    <3> QED
      BY <3>1
  <2>2. CASE v.asset \notin owned
    <3>1. FALSE = (v.asset \in owned)
      BY <2>2
    <3> QED
      BY <3>1
  <2> QED
    BY <2>1, <2>2
<1>2. PICK T : T = call[c].shown \cup {<<v, b>>}
  OBVIOUS
<1>3. PICK l : l = Local("owned", call[c].views, call[c].sub, call[c].entitled,
                        T, call[c].before, call[c].ever, call[c].steady)
  OBVIOUS
<1>4. CallInv(call[c]) /\ call[c].pc = "owned"
  BY CallByCall DEF HasPlayerCardPack
<1>5. Only(c, l)
  <2>1. PICK k : k = call[c]
    OBVIOUS
  <2>k. k = Local(k.pc, k.views, k.sub, k.entitled, k.shown, k.before, k.ever, k.steady)
    BY <1>4, <2>1 DEF CallInv, Shape
  <2>2. [k EXCEPT !.shown = T] = l
    <3>1. k.pc = "owned" /\ [k EXCEPT !.shown = T]
            = Local(k.pc, k.views, k.sub, k.entitled, T, k.before, k.ever, k.steady)
      BY <1>4, <2>1, <2>k, PutOne
    <3> QED
      BY <1>3, <2>1, <3>1
  <2>3. Only(c, [k EXCEPT !.shown = T])
    BY <1>1, <1>b, <1>2, <2>1
  <2> QED
    BY <2>2, <2>3
<1>6. v.type # "subscription"
  BY <1>1, <1>4 DEF CallInv
<1>7. \A s \in T : s \in call[c].shown \/ (s[1] = v /\ s[2] = b)
  BY <1>2
<1>8. CallInv(l)
  <2>1. Shape(l)
    <3>1. \A s \in T : s[2] \in BOOLEAN
      BY <1>4, <1>7 DEF CallInv, Shape
    <3> QED
      BY <1>3, <1>4, <3>1 DEF CallInv, Shape, Local, Places
  <2>2. \A s \in l.shown : s[1].type # "subscription" =>
          (IF s[2] THEN s[1].asset \in owned ELSE s[1].asset \notin l.before)
    BY <1>3, <1>4, <1>7, <1>b DEF CallInv, Local
  <2>3. \A s \in l.shown : s[1].type = "subscription" => (IF s[2] THEN l.ever ELSE ~l.steady)
    BY <1>3, <1>4, <1>6, <1>7 DEF CallInv, Local
  <2>4. \A w \in l.views : w.type = "subscription" => \E s \in l.shown : s[1] = w
    BY <1>2, <1>3, <1>4 DEF CallInv, Local
  <2> QED
    BY <1>3, <1>4, <2>1, <2>2, <2>3, <2>4 DEF CallInv, UnderWay, Local
<1> QED
  BY <1>5, <1>8, OnlyOne

-----------------------------------------------------------------------------
(* The steps of the others.                                                *)

LEMMA PurchaseKept ==
  ASSUME IInv, UNCHANGED <<sub, now, call>>, owned \subseteq owned'
  PROVE  IInv'
<1>1. ASSUME NEW c \in Call PROVE CallInv(call[c])'
  BY CallByCall DEF CallInv, IsEntitled
<1> QED
  BY <1>1 DEF IInv, Types, EntryInv, BeforeInv, SubInv, ShownWasTrue, SubscriptionIsShown, CallInv

(* What the row and the clock say may change, but never back in time.      *)
LEMMA WitnessKept ==
  ASSUME IInv, Witness, UNCHANGED owned, now' \in Nat, now' >= now,
         sub' \in [status : Statuses, end : Nat]
  PROVE  IInv'
<1>1. ASSUME NEW c \in Call PROVE CallInv(call[c])'
  <2> DEFINE k == call[c]
  <2>1. CallInv(k)
    BY CallByCall
  <2>2. CASE k.pc \in {"idle", "200", "500"}
    <3>1. call'[c] = k
      BY <2>2 DEF Witness
    <3> QED
      BY <2>1, <2>2, <3>1 DEF CallInv, UnderWay
  <2>3. CASE k.pc \notin {"idle", "200", "500"}
    <3>1. PICK e \in BOOLEAN : e = (IsEntitled(sub)')
      BY DEF IsEntitled
    <3>2. PICK x \in BOOLEAN : x = (k.ever \/ e)
      OBVIOUS
    <3>3. PICK y \in BOOLEAN : y = (k.steady /\ sub' = sub /\ e)
      OBVIOUS
    <3>4. call'[c] = [k EXCEPT !.ever = x, !.steady = y]
      BY <2>3, <3>1, <3>2, <3>3 DEF Witness
    <3>5. PICK l : l = Local(k.pc, k.views, k.sub, k.entitled, k.shown, k.before, x, y)
      OBVIOUS
    <3>6. call'[c] = l
      <4>1. PICK m : m = call[c]
        OBVIOUS
      <4>2. m = Local(m.pc, m.views, m.sub, m.entitled, m.shown, m.before, m.ever, m.steady)
        BY <2>1, <4>1 DEF CallInv, Shape
      <4> QED
        <5>1. [m EXCEPT !.ever = x, !.steady = y]
              = Local(m.pc, m.views, m.sub, m.entitled, m.shown, m.before, x, y)
          BY <4>2, PutWitness
        <5> QED
          BY <3>4, <3>5, <4>1, <5>1
    <3>7. /\ l.pc = k.pc /\ l.views = k.views /\ l.sub = k.sub /\ l.entitled = k.entitled
          /\ l.shown = k.shown /\ l.before = k.before /\ l.ever = x /\ l.steady = y
      BY <3>5 DEF Local
    <3>8. Shape(l)
      BY <2>1, <3>5, <3>7 DEF CallInv, Shape
    <3>9. k.sub.status \in Entitling /\ k.sub.end > now' => IsEntitled(k.sub)
      BY <2>1 DEF IsEntitled, CallInv, Shape, IInv, Types
    <3>10. k.pc = "clock" => /\ (k.sub.status \in Entitling /\ k.sub.end > now' => x)
                             /\ y => k.sub = sub' /\ e
      BY <2>1, <3>2, <3>3, <3>9 DEF CallInv
    <3>11. k.pc = "subscription" => (y => e)
      BY <3>3
    <3>12. e => x
      BY <3>2
    <3>13. k.pc \in {"items", "owned"} => (k.entitled => x) /\ (y => k.entitled)
      BY <2>1, <3>2, <3>3 DEF CallInv
    <3>14. \A s \in k.shown : s[1].type = "subscription" => (IF s[2] THEN x ELSE ~y)
      BY <2>1, <3>2, <3>3 DEF CallInv
    <3>15. e = (sub'.status \in Entitling /\ sub'.end > now')
      BY <3>1 DEF IsEntitled
    <3> QED
      BY <2>1, <3>6, <3>7, <3>8, <3>10, <3>11, <3>12, <3>13, <3>14, <3>15 DEF CallInv, IsEntitled
  <2> QED
    BY <2>2, <2>3
<1>2. call' = [c \in Call |-> call'[c]]
  BY DEF Witness
<1> QED
  BY <1>1, <1>2 DEF IInv, Types, EntryInv, BeforeInv, SubInv, ShownWasTrue, SubscriptionIsShown, CallInv

-----------------------------------------------------------------------------

LEMMA Initially == Init => IInv
<1> SUFFICES ASSUME Init PROVE IInv
  OBVIOUS
<1>1. \A c \in Call : call[c] = NoCall
  BY DEF Init
<1>2. PICK k : k = NoCall
  OBVIOUS
<1>3. /\ k = Local(k.pc, k.views, k.sub, k.entitled, k.shown, k.before, k.ever, k.steady)
      /\ k.sub = [status |-> "absent", end |-> 0] /\ k.shown = {} /\ k.before = {} /\ k.pc = "idle"
      /\ k.entitled = FALSE /\ k.ever = FALSE /\ k.steady = FALSE
  BY <1>2 DEF NoCall, Local
<1>4. sub \in [status : Statuses, end : Nat] /\ k.sub \in [status : Statuses, end : Nat]
  BY <1>3 DEF Init, Statuses
<1>5. CallInv(k)
  BY <1>3, <1>4 DEF CallInv, Shape, Places, UnderWay
<1>6. now \in Nat /\ call = [c \in Call |-> call[c]]
  BY DEF Init
<1> QED
  BY <1>1, <1>2, <1>4, <1>5, <1>6, CallByCall

LEMMA Inductive ==
  ASSUME IInv, [Next]_vars
  PROVE  IInv'
<1>1. CASE UNCHANGED vars
  BY <1>1, PurchaseKept DEF vars
<1>2. CASE Seed
  BY <1>2, PurchaseKept DEF Seed
<1>3. CASE WriteSubscription
  <2>1. sub' \in [status : Statuses, end : Nat]
    BY <1>3, ProductListAssumption DEF WriteSubscription, IInv, Types, Statuses, Entitling, ProductListAssumption
  <2> QED
    BY <1>3, <2>1, WitnessKept DEF WriteSubscription, IInv, Types
<1>4. CASE Tick
  BY <1>4, WitnessKept DEF Tick, IInv, Types
<1>5. ASSUME CreatePurchase \/ \E p \in DOMAIN products : GetProductByID(p) PROVE IInv'
  <2>1. owned \subseteq owned' /\ UNCHANGED <<sub, now, call>>
    BY <1>5 DEF CreatePurchase, GetProductByID
  <2> QED
    BY <2>1, PurchaseKept
<1>6. ASSUME NEW c \in Call,
             \/ GetActiveProducts(c) \/ GetLatestSubscription(c) \/ CheckEntitled(c)
             \/ ListPlayerItems(c) \/ HasPlayerCardPack(c) \/ Respond(c) \/ Fail(c)
      PROVE  IInv'
  <2>1. CASE Respond(c) \/ Fail(c)
    BY <2>1, Ended DEF Respond, Fail
  <2> QED
    BY <1>6, <2>1, Started, RowRead, Judged, ItemsRead, PackRead
<1> QED
  BY <1>1, <1>2, <1>3, <1>4, <1>5, <1>6 DEF Next

LEMMA Invariant == Spec => []IInv
  BY Initially, Inductive, PTL DEF Spec

(* However the queries of a list fall between purchases, no entry is wrong *)
(* about the time of the call.                                             *)
THEOREM ListedAsOwned == Spec => []ShownWasTrue
<1>1. IInv => ShownWasTrue
  BY DEF IInv
<1> QED
  BY <1>1, Invariant, PTL

(* The subscription is shown to nobody who was not entitled at some moment *)
(* of the call, and to everybody who was throughout.                       *)
THEOREM ListedAsSubscribed == Spec => []SubscriptionIsShown
<1>1. IInv => SubscriptionIsShown
  BY DEF IInv
<1> QED
  BY <1>1, Invariant, PTL

-----------------------------------------------------------------------------
(* The catalogue.                                                          *)

(* The tables that the running or last seed has already written agree with *)
(* its version, and nothing writes those of the other products.            *)
CatalogueInv ==
  LET y == seed.version IN
  /\ seed = [version |-> seed.version, step |-> seed.step]
  /\ y = <<>> \/ y \in Yaml
  /\ \A p \in DOMAIN ByHand : p \in DOMAIN products /\ products[p].type = ByHand[p].type
  /\ \A p \in DOMAIN y : p \in DOMAIN products /\ products[p].type = y[p].type
  /\ seed.step \in {"packs", "done"} =>
       \A p \in DOMAIN y : y[p].type = "faction_set" =>
         p \in DOMAIN factions /\ factions[p] = y[p].faction
  /\ seed.step = "done" =>
       \A p \in DOMAIN y : p \in DOMAIN packs /\ packs[p] = y[p].pack

LEMMA SeedRows ==
  ASSUME NEW y \in Yaml, NEW p \in DOMAIN y
  PROVE  TypeRequiredFields(y[p])
  BY ProductListAssumption DEF ProductListAssumption

LEMMA SeedKeeps ==
  ASSUME CatalogueInv, Seed
  PROVE  CatalogueInv'
<1>1. ASSUME NEW y \in Yaml, SeedProducts(y) PROVE CatalogueInv'
  <2>1. /\ seed' = [version |-> y, step |-> "factions"]
        /\ seed'.version = y /\ seed'.step = "factions"
    BY <1>1 DEF SeedProducts
  <2>2. \A p \in DOMAIN y : p \in DOMAIN products' /\ products'[p].type = y[p].type
    BY <1>1 DEF SeedProducts, ProductRows, Upsert
  <2>3. \A p \in DOMAIN ByHand : p \in DOMAIN products' /\ products'[p].type = ByHand[p].type
    <3>1. \A p \in DOMAIN ByHand : p \notin DOMAIN y /\ p \in DOMAIN products
      BY ProductListAssumption DEF ProductListAssumption, CatalogueInv
    <3>2. \A p \in DOMAIN ByHand : p \in DOMAIN products' /\ products'[p] = products[p]
      BY <1>1, <3>1 DEF SeedProducts, ProductRows, Upsert
    <3> QED
      BY <3>2 DEF CatalogueInv
  <2> QED
    BY <2>1, <2>2, <2>3 DEF CatalogueInv
<1>2. CASE SeedFactions
  <2>1. /\ seed' = [version |-> seed.version, step |-> "packs"]
        /\ seed'.version = seed.version /\ seed'.step = "packs"
    BY <1>2 DEF SeedFactions, CatalogueInv
  <2>2. \A p \in DOMAIN seed.version : seed.version[p].type = "faction_set" =>
          p \in DOMAIN factions' /\ factions'[p] = seed.version[p].faction
    BY <1>2 DEF SeedFactions, FactionRows, Upsert
  <2> QED
    BY <1>2, <2>1, <2>2 DEF SeedFactions, CatalogueInv
<1>3. CASE SeedPacks
  <2>1. /\ seed' = [version |-> seed.version, step |-> "done"]
        /\ seed'.version = seed.version /\ seed'.step = "done"
    BY <1>3 DEF SeedPacks, CatalogueInv
  <2>2. \A p \in DOMAIN seed.version :
          p \in DOMAIN packs' /\ packs'[p] = seed.version[p].pack
    BY <1>3 DEF SeedPacks, PackRows, Upsert
  <2> QED
    BY <1>3, <2>1, <2>2 DEF SeedPacks, CatalogueInv
<1>4. CASE SeedAborts
  <2>1. /\ seed' = [version |-> seed.version, step |-> "aborted"]
        /\ seed'.version = seed.version /\ seed'.step = "aborted"
    BY <1>4 DEF SeedAborts, CatalogueInv
  <2> QED
    BY <1>4, <2>1 DEF SeedAborts, CatalogueInv
<1> QED
  BY <1>1, <1>2, <1>3, <1>4 DEF Seed

LEMMA CatalogueInvariant == Spec => []CatalogueInv
<1>1. Init => CatalogueInv
  BY DEF Init, CatalogueInv, ProductRows
<1>2. ASSUME CatalogueInv, [Next]_vars PROVE CatalogueInv'
  <2>1. CASE Seed
    BY <1>2, <2>1, SeedKeeps
  <2>2. CASE UNCHANGED catalogue
    BY <1>2, <2>2 DEF catalogue, CatalogueInv
  <2> QED
    BY <1>2, <2>1, <2>2
       DEF Next, vars, WriteSubscription, Tick, CreatePurchase, GetProductByID, GetActiveProducts, GetLatestSubscription,
           CheckEntitled, ListPlayerItems, HasPlayerCardPack, Respond, Fail, Only
<1> QED
  BY <1>1, <1>2, PTL DEF Spec

(* However many runs of the seed were aborted before, one complete run of  *)
(* a version that knows all products makes the list work again.            *)
THEOREM CompleteSeedLists == Spec => []CatalogueIsWhole
<1>1. ASSUME CatalogueInv, seed.step = "done",
             DOMAIN products \subseteq DOMAIN seed.version \cup DOMAIN ByHand,
             NEW p \in DOMAIN products
      PROVE  HasView(Row(p))
  <2> DEFINE r == Row(p)
  <2>1. CASE p \in DOMAIN ByHand
    <3>1. /\ r.type = ByHand[p].type /\ r.item = ByHand[p].item /\ r.period = ByHand[p].period
      BY <1>1, <2>1 DEF CatalogueInv, Row
    <3> QED
      BY <2>1, <3>1, ProductListAssumption DEF HasView, ProductListAssumption
  <2>2. CASE p \in DOMAIN seed.version
    <3>1. seed.version \in Yaml
      BY <1>1, <2>2 DEF CatalogueInv
    <3>2. /\ r.type = seed.version[p].type
          /\ r.pack = seed.version[p].pack
          /\ r.type = "faction_set" => r.faction = seed.version[p].faction
      BY <1>1, <2>2 DEF CatalogueInv, Row
    <3>3. PICK y \in Yaml : y = seed.version
      BY <3>1
    <3>4. p \in DOMAIN y
      BY <2>2, <3>3
    <3>5. PICK row : row = y[p]
      OBVIOUS
    <3>6. TypeRequiredFields(row)
      BY <3>4, <3>5, SeedRows
    <3> QED
      BY <3>2, <3>3, <3>5, <3>6 DEF HasView, TypeRequiredFields
  <2> QED
    BY <1>1, <2>1, <2>2
<1>2. CatalogueInv => CatalogueIsWhole
  BY <1>1 DEF CatalogueIsWhole
<1> QED
  BY <1>2, CatalogueInvariant, PTL

-----------------------------------------------------------------------------
(* The types.                                                              *)

TableTypes ==
  /\ DOMAIN products \subseteq Ids
  /\ \A p \in DOMAIN packs : packs[p] \in Assets
  /\ seed.step \in {"factions", "packs", "done", "aborted"}
  /\ seeds \in 0 .. MaxSeeds
  /\ owned \subseteq Assets /\ wanted \subseteq Assets
  /\ sub \in [status : Statuses, end : 0 .. MaxTime]
  /\ now \in 0 .. MaxTime

(* A list has one view of a product, and one entry for a view.             *)
EntryTypes(views, shown) ==
  /\ views \subseteq View
  /\ \A v, w \in views : v.id = w.id => v = w
  /\ \A s \in shown : s \in View \X BOOLEAN /\ s[1] \in views
  /\ \A s, t \in shown : s[1] = t[1] => s = t

CallTypes == \A c \in Call : EntryTypes(call[c].views, call[c].shown)

LEMMA AssetsOf ==
  /\ \A y \in Yaml : \A p \in DOMAIN y : y[p].pack \in Assets
  /\ \A p \in DOMAIN ByHand : ByHand[p].item \in Assets
<1>1. ASSUME NEW y \in Yaml, NEW p \in DOMAIN y PROVE y[p].pack \in Assets
  <2>1. PICK Y : Y = {y[q].pack : q \in DOMAIN y}
    OBVIOUS
  <2>2. y[p].pack \in Y
    BY <2>1
  <2>3. Y \in {{z[q].pack : q \in DOMAIN z} : z \in Yaml}
    BY <2>1
  <2> QED
    BY <2>2, <2>3, Zenon DEF Assets
<1>2. ASSUME NEW p \in DOMAIN ByHand PROVE ByHand[p].item \in Assets
  <2>1. ByHand[p].item \in {ByHand[q].item : q \in DOMAIN ByHand}
    OBVIOUS
  <2> QED
    BY <2>1 DEF Assets
<1> QED
  BY <1>1, <1>2

LEMMA RowView ==
  ASSUME TableTypes, NEW p \in DOMAIN products, HasView(Row(p)),
         NEW v, v = NewProductView(Row(p))
  PROVE  /\ v \in View /\ v.id = p
         /\ Row(p).type # "subscription" => v.asset \in Assets
<1>1. PICK r : r = Row(p)
  OBVIOUS
<1>2. /\ r.id = p
      /\ r.pack = IF p \in DOMAIN packs THEN packs[p] ELSE None
      /\ r.item = IF p \in DOMAIN ByHand THEN ByHand[p].item ELSE None
  BY <1>1 DEF Row
<1>3. p \in Ids
  BY DEF TableTypes
<1>4. r.pack \in Assets \cup {None} /\ r.item \in Assets \cup {None}
  BY <1>2, AssetsOf DEF TableTypes
<1>5. PICK a : a = v.asset
  OBVIOUS
<1>6. v = [id |-> p, type |-> r.type, asset |-> a]
  BY <1>1, <1>2, <1>5 DEF NewProductView
<1>7. CASE r.type \in {"faction_set", "card_pack"}
  <2>1. a = r.pack /\ r.pack # None
    BY <1>1, <1>5, <1>7 DEF NewProductView, HasView
  <2> QED
    BY <1>1, <1>3, <1>4, <1>5, <1>6, <1>7, <2>1 DEF View
<1>8. CASE r.type = "cosmetic"
  <2>1. a = r.item /\ r.item # None
    BY <1>1, <1>5, <1>8 DEF NewProductView, HasView
  <2> QED
    BY <1>1, <1>3, <1>4, <1>5, <1>6, <1>8, <2>1 DEF View
<1>9. CASE r.type = "subscription"
  <2>1. a = None
    BY <1>1, <1>5, <1>9 DEF NewProductView
  <2> QED
    BY <1>1, <1>3, <1>5, <1>6, <1>9, <2>1 DEF View
<1> QED
  BY <1>1, <1>7, <1>8, <1>9 DEF HasView

LEMMA TableStep ==
  ASSUME TableTypes, CatalogueInv, [Next]_vars
  PROVE  TableTypes'
<1>0. MaxSeeds \in Nat /\ MaxTime \in Nat
  BY ProductListAssumption DEF ProductListAssumption
<1>1. CASE UNCHANGED <<catalogue, owned, wanted, sub, now>>
  BY <1>1 DEF TableTypes, catalogue
<1>2. ASSUME NEW y \in Yaml, SeedProducts(y), UNCHANGED <<owned, wanted, sub, now>>
      PROVE  TableTypes'
  <2>1. DOMAIN y \subseteq Ids
    BY DEF Ids
  <2>2. DOMAIN products' \subseteq Ids
    BY <1>2, <2>1 DEF SeedProducts, Upsert, ProductRows, TableTypes
  <2>3. seeds' \in 0 .. MaxSeeds
    BY <1>0, <1>2 DEF SeedProducts, TableTypes
  <2>4. seed'.step = "factions" /\ UNCHANGED packs
    BY <1>2 DEF SeedProducts
  <2> QED
    BY <1>2, <2>2, <2>3, <2>4 DEF TableTypes
<1>3. CASE (SeedFactions \/ SeedAborts) /\ UNCHANGED <<owned, wanted, sub, now>>
  BY <1>3 DEF SeedFactions, SeedAborts, TableTypes, CatalogueInv
<1>4. CASE SeedPacks /\ UNCHANGED <<owned, wanted, sub, now>>
  <2>1. PICK y : y = seed.version
    OBVIOUS
  <2>2. \A p \in DOMAIN y : y[p].pack \in Assets
    BY <2>1, AssetsOf DEF CatalogueInv
  <2>3. \A p \in DOMAIN packs' : packs'[p] \in Assets
    BY <1>4, <2>1, <2>2 DEF SeedPacks, Upsert, PackRows, TableTypes
  <2>4. seed'.step = "done"
    BY <1>4 DEF SeedPacks, CatalogueInv
  <2> QED
    BY <1>4, <2>3, <2>4 DEF SeedPacks, TableTypes
<1>5. CASE WriteSubscription
  <2>1. sub' \in [status : Statuses, end : 0 .. MaxTime]
    BY <1>0, <1>5 DEF WriteSubscription, TableTypes, Statuses, Entitling
  <2> QED
    BY <1>5, <2>1 DEF WriteSubscription, TableTypes, catalogue
<1>6. CASE Tick
  BY <1>0, <1>6 DEF Tick, TableTypes, catalogue
<1>7. CASE CreatePurchase
  BY <1>7 DEF CreatePurchase, TableTypes, catalogue
<1>8. ASSUME NEW p \in DOMAIN products, GetProductByID(p) PROVE TableTypes'
  <2>1. PICK v : v = NewProductView(Row(p))
    OBVIOUS
  <2>2. v.asset \in Assets /\ wanted' = wanted \cup {v.asset} /\ UNCHANGED <<catalogue, owned, sub, now>>
    BY <1>8, <2>1, RowView DEF GetProductByID
  <2> QED
    BY <2>2 DEF TableTypes, catalogue
<1> QED
  BY <1>1, <1>2, <1>3, <1>4, <1>5, <1>6, <1>7, <1>8
     DEF Next, Seed, vars, GetActiveProducts, GetLatestSubscription,
         CheckEntitled, ListPlayerItems, HasPlayerCardPack, Respond, Fail, Only

(* What c's views and entries become.                                      *)
LEMMA OnlyTypes ==
  ASSUME Types, CallTypes, NEW c \in Call, NEW l, Only(c, l), EntryTypes(l.views, l.shown)
  PROVE  CallTypes'
<1>1. call'[c] = l /\ \A d \in Call : d # c => call'[d] = call[d]
  BY OnlyChanges
<1> QED
  BY <1>1 DEF CallTypes

LEMMA NothingListed ==
  ASSUME NEW p, NEW l, l = [NoCall EXCEPT !.pc = p]
  PROVE  EntryTypes(l.views, l.shown)
<1>1. l.views = {} /\ l.shown = {}
  BY DEF NoCall
<1> QED
  BY <1>1 DEF EntryTypes

LEMMA LocalOf ==
  ASSUME Types, NEW c \in Call, NEW k, k = call[c]
  PROVE  k = Local(k.pc, k.views, k.sub, k.entitled, k.shown, k.before, k.ever, k.steady)
  BY DEF Types, Shape

LEMMA ViewsTyped ==
  ASSUME IInv, TableTypes, CallTypes, NEW c \in Call, GetActiveProducts(c)
  PROVE  CallTypes'
<1> DEFINE active == {r \in {Row(p) : p \in DOMAIN products} : r.active}
<1>1. CASE \A r \in active : HasView(r)
  <2>1. PICK V : V = {NewProductView(r) : r \in active}
    OBVIOUS
  <2>2. ASSUME NEW v \in V
        PROVE  \E p \in DOMAIN products : v = NewProductView(Row(p)) /\ HasView(Row(p))
    BY <1>1, <2>1
  <2>3. ASSUME NEW v \in V PROVE v \in View /\ v = NewProductView(Row(v.id))
    <3>1. PICK p \in DOMAIN products : v = NewProductView(Row(p)) /\ HasView(Row(p))
      BY <2>2
    <3>2. v \in View /\ v.id = p
      BY <3>1, RowView
    <3> QED
      BY <3>1, <3>2
  <2>4. EntryTypes(V, {})
    BY <2>3 DEF EntryTypes
  <2>5. PICK k, e : k = call[c] /\ e = IsEntitled(sub)
    OBVIOUS
  <2>6. PICK m : m = [k EXCEPT !.before = owned, !.ever = e, !.steady = e]
    OBVIOUS
  <2>7. m.shown = {} /\ m = Local(m.pc, m.views, m.sub, m.entitled, m.shown, m.before, m.ever, m.steady)
    <3>1. k.shown = {} /\ k = Local(k.pc, k.views, k.sub, k.entitled, k.shown, k.before, k.ever, k.steady)
      BY <2>5, LocalOf DEF GetActiveProducts, IInv, EntryInv
    <3>2. PICK n : n = [k EXCEPT !.before = owned]
      OBVIOUS
    <3>3. n = Local(k.pc, k.views, k.sub, k.entitled, k.shown, owned, k.ever, k.steady)
      BY <3>1, <3>2, PutOne
    <3>4. n = Local(n.pc, n.views, n.sub, n.entitled, n.shown, n.before, n.ever, n.steady) /\ n.shown = {}
      BY <3>1, <3>3 DEF Local
    <3>5. m = [n EXCEPT !.ever = e, !.steady = e]
      BY <2>6, <3>2
    <3>6. m = Local(n.pc, n.views, n.sub, n.entitled, n.shown, n.before, e, e)
      BY <3>4, <3>5, PutWitness
    <3> QED
      BY <3>4, <3>6 DEF Local
  <2>8. PICK l : l = [m EXCEPT !.pc = "subscription", !.views = V]
    OBVIOUS
  <2>9. l.views = V /\ l.shown = {}
    <3>1. PICK n : n = [m EXCEPT !.pc = "subscription"]
      OBVIOUS
    <3>2. n = Local("subscription", m.views, m.sub, m.entitled, m.shown, m.before, m.ever, m.steady)
      BY <2>7, <3>1, PutOne
    <3>3. l = [n EXCEPT !.views = V]
      BY <2>8, <3>1
    <3> QED
      BY <2>7, <3>2, <3>3 DEF Local
  <2>10. Only(c, l)
    BY <1>1, <2>1, <2>5, <2>6, <2>8 DEF GetActiveProducts
  <2> QED
    BY <2>4, <2>9, <2>10, OnlyTypes DEF IInv
<1>2. CASE ~ \A r \in active : HasView(r)
  <2>1. Only(c, [NoCall EXCEPT !.pc = "500"])
    BY <1>2 DEF GetActiveProducts
  <2> QED
    BY <2>1, NothingListed, OnlyTypes DEF IInv
<1> QED
  BY <1>1, <1>2

LEMMA EntriesTyped ==
  ASSUME IInv, CallTypes, NEW c \in Call,
         GetLatestSubscription(c) \/ CheckEntitled(c) \/ ListPlayerItems(c) \/ HasPlayerCardPack(c)
  PROVE  CallTypes'
<1>1. PICK k : k = call[c]
  OBVIOUS
<1>2. k = Local(k.pc, k.views, k.sub, k.entitled, k.shown, k.before, k.ever, k.steady)
  BY <1>1, LocalOf DEF IInv
<1>3. EntryTypes(k.views, k.shown)
  BY <1>1 DEF CallTypes
<1>4. CASE GetLatestSubscription(c)
  <2>1. PICK l : l = [k EXCEPT !.pc = "clock", !.sub = sub]
    OBVIOUS
  <2>2. l.views = k.views /\ l.shown = k.shown
    BY <1>2, <2>1, PutRow DEF Local
  <2> QED
    BY <1>1, <1>3, <1>4, <2>1, <2>2, OnlyTypes DEF GetLatestSubscription, IInv
<1>5. CASE CheckEntitled(c)
  <2>1. PICK x, e : x = NoCall.sub /\ e = IsEntitled(k.sub)
    OBVIOUS
  <2>2. PICK l : l = [k EXCEPT !.pc = "items", !.sub = x, !.entitled = e]
    OBVIOUS
  <2>3. l.views = k.views /\ l.shown = k.shown
    BY <1>2, <2>2, PutEntitled DEF Local
  <2> QED
    BY <1>1, <1>3, <1>5, <2>1, <2>2, <2>3, OnlyTypes DEF CheckEntitled, IInv
<1>6. CASE ListPlayerItems(c)
  <2>1. PICK S : S = {<<v, Shows(v, k.entitled)>> : v \in {w \in k.views : ~HasPack(w)}}
    OBVIOUS
  <2>2. PICK l : l = [k EXCEPT !.pc = "owned", !.shown = S]
    OBVIOUS
  <2>3. l.views = k.views /\ l.shown = S
    BY <1>2, <2>2, PutShown DEF Local
  <2>4. k.entitled \in BOOLEAN
    BY <1>1 DEF IInv, Types, Shape
  <2>5. ASSUME NEW v PROVE Shows(v, k.entitled) \in BOOLEAN
    <3>1. CASE v.type = "subscription"
      BY <2>4, <3>1 DEF Shows
    <3>2. CASE v.type # "subscription"
      BY <3>2 DEF Shows
    <3> QED
      BY <3>1, <3>2
  <2>6. \A s \in S : s[1] \in k.views /\ s = <<s[1], Shows(s[1], k.entitled)>>
    BY <2>1
  <2>7. EntryTypes(k.views, S)
    BY <1>3, <2>5, <2>6 DEF EntryTypes
  <2>8. Only(c, l)
    BY <1>1, <1>6, <2>1, <2>2 DEF ListPlayerItems
  <2> QED
    BY <2>3, <2>7, <2>8, OnlyTypes DEF IInv
<1>7. CASE HasPlayerCardPack(c)
  <2>1. PICK v \in k.views \ {s[1] : s \in k.shown} :
          Only(c, [call[c] EXCEPT !.shown = @ \cup {<<v, v.asset \in owned>>}])
    BY <1>1, <1>7 DEF HasPlayerCardPack
  <2>2. PICK b \in BOOLEAN : b = (v.asset \in owned)
    <3>1. CASE v.asset \in owned
      <4>1. TRUE = (v.asset \in owned)
        BY <3>1
      <4> QED
        BY <4>1
    <3>2. CASE v.asset \notin owned
      <4>1. FALSE = (v.asset \in owned)
        BY <3>2
      <4> QED
        BY <4>1
    <3> QED
      BY <3>1, <3>2
  <2>3. PICK S : S = k.shown \cup {<<v, b>>}
    OBVIOUS
  <2>4. PICK l : l = [k EXCEPT !.shown = S]
    OBVIOUS
  <2>5. l.views = k.views /\ l.shown = S
    BY <1>2, <2>4, PutOne DEF Local
  <2>6. Only(c, l)
    BY <1>1, <2>1, <2>2, <2>3, <2>4
  <2>7. \A s \in k.shown : s[1] # v
    BY <2>1
  <2>8. EntryTypes(k.views, S)
    BY <1>3, <2>1, <2>3, <2>7 DEF EntryTypes
  <2> QED
    BY <2>5, <2>6, <2>8, OnlyTypes DEF IInv
<1> QED
  BY <1>4, <1>5, <1>6, <1>7

LEMMA WitnessTyped ==
  ASSUME Types, CallTypes, Witness
  PROVE  CallTypes'
<1>1. ASSUME NEW c \in Call PROVE EntryTypes(call'[c].views, call'[c].shown)
  <2>1. PICK k : k = call[c]
    OBVIOUS
  <2>2. k = Local(k.pc, k.views, k.sub, k.entitled, k.shown, k.before, k.ever, k.steady)
    BY <2>1, LocalOf
  <2>3. EntryTypes(k.views, k.shown)
    BY <2>1 DEF CallTypes
  <2>4. CASE call'[c] = k
    BY <2>3, <2>4
  <2>5. ASSUME NEW x, NEW y, call'[c] = [k EXCEPT !.ever = x, !.steady = y]
        PROVE  EntryTypes(call'[c].views, call'[c].shown)
    <3>1. call'[c].views = k.views /\ call'[c].shown = k.shown
      BY <2>2, <2>5, PutWitness DEF Local
    <3> QED
      BY <2>3, <3>1
  <2> QED
    BY <2>1, <2>4, <2>5 DEF Witness
<1> QED
  BY <1>1 DEF CallTypes

LEMMA CallTypesStep ==
  ASSUME IInv, TableTypes, CallTypes, [Next]_vars
  PROVE  CallTypes'
<1>1. CASE UNCHANGED call
  BY <1>1 DEF CallTypes
<1>2. CASE Witness
  BY <1>2, WitnessTyped DEF IInv
<1>3. ASSUME NEW c \in Call, Respond(c) \/ Fail(c) PROVE CallTypes'
  <2>1. PICK p : Only(c, [NoCall EXCEPT !.pc = p])
    BY <1>3 DEF Respond, Fail
  <2> QED
    BY <2>1, NothingListed, OnlyTypes DEF IInv
<1> QED
  BY <1>1, <1>2, <1>3, ViewsTyped, EntriesTyped DEF Next, vars, Seed, WriteSubscription, Tick,
     CreatePurchase, GetProductByID

(* Only what the catalogue has can be owned or listed, and a list has one  *)
(* entry for a product, whatever the seeds change meanwhile.               *)
THEOREM ProductListTypeCorrect == Spec => []TypeOK
<1>1. Init => TableTypes /\ CallTypes
  <2> SUFFICES ASSUME Init PROVE TableTypes /\ CallTypes
    OBVIOUS
  <2>1. MaxSeeds \in Nat /\ MaxTime \in Nat
    BY ProductListAssumption DEF ProductListAssumption
  <2>2. sub \in [status : Statuses, end : 0 .. MaxTime]
    BY <2>1 DEF Init, Statuses
  <2>3. DOMAIN products \subseteq Ids
    BY DEF Init, ProductRows, Ids
  <2>4. TableTypes
    BY <2>1, <2>2, <2>3 DEF Init, TableTypes
  <2>5. NoCall.views = {} /\ NoCall.shown = {}
    BY DEF NoCall
  <2>6. CallTypes
    BY <2>5 DEF Init, CallTypes, EntryTypes
  <2> QED
    BY <2>4, <2>6
<1>2. IInv /\ CatalogueInv /\ TableTypes /\ CallTypes /\ [Next]_vars => TableTypes' /\ CallTypes'
  BY TableStep, CallTypesStep
<1>3. IInv /\ CatalogueInv /\ TableTypes /\ CallTypes => TypeOK
  <2> SUFFICES ASSUME IInv, CatalogueInv, TableTypes, CallTypes PROVE TypeOK
    OBVIOUS
  <2>1. ASSUME NEW c \in Call
        PROVE  /\ call[c].pc \in Places /\ call[c].views \subseteq View
               /\ call[c].shown \subseteq View \X BOOLEAN
               /\ \A s, t \in call[c].shown : s[1].id = t[1].id => s = t
    BY DEF IInv, Types, Shape, CallTypes, EntryTypes
  <2> QED
    BY <2>1 DEF TypeOK, TableTypes, CatalogueInv
<1> QED
  BY <1>1, <1>2, <1>3, Invariant, CatalogueInvariant, PTL DEF Spec
=============================================================================
