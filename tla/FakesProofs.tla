----------------------------- MODULE FakesProofs -----------------------------
(***************************************************************************)
(* Proofs about Fakes for any goroutines, events and sizes of channels.    *)
(***************************************************************************)
EXTENDS Fakes, FiniteSetTheorems, TLAPS

(* What can be sent: given events, filled in.                              *)
Event == {Fill(e, fresh) : e \in Given, fresh \in Nat} \cup {NoEvent}

(* Sequences of events and of receivers, for every place they are kept.    *)
Shape ==
  /\ published \in Seq(Event)
  /\ queue \in [Receiver -> Seq(Event)]
  /\ got \in [Receiver -> Seq(Event)]
  /\ event \in [Publishing -> Event]
  /\ left \in [Publishing -> Seq(Receiver)]
  /\ byTopic \in [Topic -> Seq(Receiver)]
  /\ ppc \in [Publishing -> {"idle", "recorded", "sending"}]
  /\ \A p \in Publishing : ppc[p] # "idle" => event[p].topic \in Topic

(* What is on its way, in a channel or taken from one, has been recorded.  *)
RecordInv ==
  /\ \A p \in Publishing : ppc[p] # "idle" => event[p] \in ToSet(published)
  /\ \A r \in Receiver : ToSet(queue[r]) \subseteq ToSet(published) /\ ToSet(got[r]) \subseteq ToSet(published)

(* A call has read an answer set during it, and can only read such a one.  *)
CallInv ==
  /\ cpc \in [Caller -> {"idle", "read", "answer"}]
  /\ op \in [Caller -> Ops]
  /\ fn = [o \in Served |-> fn[o]]
  /\ read = [c \in Caller |-> read[c]]
  /\ result = [c \in Caller |-> result[c]]
  /\ during = [c \in Caller |-> during[c]]
  /\ \A c \in Caller :
       /\ cpc[c] # "idle" => op[c] \in Served
       /\ cpc[c] = "read" => fn[op[c]] \in during[c]
       /\ cpc[c] = "answer" => read[c] \in during[c]

-----------------------------------------------------------------------------
(* What the sequences hold.                                                *)

LEMMA AppendSet ==
  ASSUME NEW S, NEW s \in Seq(S), NEW e \in S
  PROVE  Append(s, e) \in Seq(S) /\ ToSet(Append(s, e)) = ToSet(s) \cup {e}
<1>1. Append(s, e) \in Seq(S) /\ Len(Append(s, e)) = Len(s) + 1 /\ Len(s) \in Nat
  OBVIOUS
<1>2. \A i \in 1 .. Len(s) : Append(s, e)[i] = s[i]
  OBVIOUS
<1>3. Append(s, e)[Len(s) + 1] = e
  OBVIOUS
<1>4. DOMAIN Append(s, e) = 1 .. (Len(s) + 1) /\ DOMAIN s = 1 .. Len(s)
  BY <1>1
<1>5. ToSet(Append(s, e)) \subseteq ToSet(s) \cup {e}
  BY <1>1, <1>2, <1>3, <1>4 DEF ToSet
<1>6. ToSet(s) \cup {e} \subseteq ToSet(Append(s, e))
  BY <1>1, <1>2, <1>3, <1>4 DEF ToSet
<1> QED
  BY <1>1, <1>5, <1>6

LEMMA TailSet ==
  ASSUME NEW S, NEW s \in Seq(S), s # <<>>
  PROVE  /\ Tail(s) \in Seq(S) /\ Head(s) \in S
         /\ ToSet(Tail(s)) \subseteq ToSet(s) /\ Head(s) \in ToSet(s)
<1>1. Len(s) \in Nat \ {0} /\ DOMAIN s = 1 .. Len(s) /\ Head(s) = s[1]
  OBVIOUS
<1>2. Tail(s) \in Seq(S) /\ Len(Tail(s)) = Len(s) - 1 /\ DOMAIN Tail(s) = 1 .. (Len(s) - 1)
  BY <1>1
<1>3. \A i \in 1 .. (Len(s) - 1) : Tail(s)[i] = s[i + 1] /\ i + 1 \in 1 .. Len(s)
  BY <1>1
<1> QED
  BY <1>1, <1>2, <1>3 DEF ToSet

LEMMA ConcatSet ==
  ASSUME NEW S, NEW s \in Seq(S), NEW t \in Seq(S)
  PROVE  ToSet(s \o t) \subseteq ToSet(s) \cup ToSet(t)
<1>1. Len(s) \in Nat /\ Len(t) \in Nat /\ DOMAIN s = 1 .. Len(s) /\ DOMAIN t = 1 .. Len(t)
  OBVIOUS
<1>2. DOMAIN (s \o t) = 1 .. (Len(s) + Len(t))
  BY <1>1
<1>3. \A i \in 1 .. (Len(s) + Len(t)) :
        (s \o t)[i] = IF i <= Len(s) THEN s[i] ELSE t[i - Len(s)]
  BY <1>1
<1> QED
  BY <1>1, <1>2, <1>3 DEF ToSet

LEMMA FillFields ==
  ASSUME NEW e \in Given, NEW fresh \in Nat, NEW f, f = Fill(e, fresh)
  PROVE  /\ f.topic = e.topic /\ f.type = e.topic /\ e.topic \in Topic
         /\ f.id \in Nat /\ (fresh # 0 => f.id # 0)
         /\ e.topic = "premium-updated" => f.source # "none"
<1> DEFINE id == IF e.id = 0 THEN fresh ELSE e.id
           source == IF e.topic = "premium-updated" /\ e.source = "none" THEN "shop" ELSE e.source
<1>1. e \in [topic : STRING, type : STRING, id : Nat, source : STRING] /\ e.topic \in Topic
  BY FakesAssumption DEF Topic
<1>2. id \in Nat /\ (fresh # 0 => id # 0)
  BY <1>1
<1>3. e.topic = "premium-updated" => source # "none"
  OBVIOUS
<1>4. PICK typed : typed = [e EXCEPT !.type = e.topic]
  OBVIOUS
<1>5. PICK named : named = [typed EXCEPT !.id = id]
  OBVIOUS
<1>6. f = [named EXCEPT !.source = source]
  BY <1>4, <1>5, Zenon DEF Fill
<1> HIDE DEF id, source
<1>7. typed = [topic |-> e.topic, type |-> e.topic, id |-> e.id, source |-> e.source]
  BY <1>1, <1>4
<1>8. named = [topic |-> e.topic, type |-> e.topic, id |-> id, source |-> e.source]
  BY <1>5, <1>7
<1>9. f = [topic |-> e.topic, type |-> e.topic, id |-> id, source |-> source]
  BY <1>6, <1>8
<1> QED
  BY <1>1, <1>2, <1>3, <1>9

LEMMA Filling ==
  ASSUME NEW e \in Given, NEW fresh \in Nat
  PROVE  Fill(e, fresh) \in Event /\ Fill(e, fresh).topic \in Topic
<1>1. PICK f : f = Fill(e, fresh)
  OBVIOUS
<1> QED
  BY <1>1, FillFields DEF Event

-----------------------------------------------------------------------------
IInv == Shape /\ RecordInv /\ CallInv /\ AnswerWasSet

LEMMA Initially == Init => IInv
<1> SUFFICES ASSUME Init PROVE IInv
  OBVIOUS
<1>1. NoEvent \in Event
  BY DEF Event
<1>2. Shape
  BY <1>1 DEF Init, Shape
<1>3. RecordInv
  BY DEF Init, RecordInv, ToSet
<1>4. CallInv
  BY DEF Init, CallInv, Ops
<1>5. AnswerWasSet
  BY DEF Init, AnswerWasSet
<1> QED
  BY <1>2, <1>3, <1>4, <1>5 DEF IInv

(* The events: published only grows, and only recorded events are sent.    *)
LEMMA RecordStep ==
  ASSUME IInv, NEW p \in Publishing, Record(p)
  PROVE  Shape' /\ RecordInv'
<1>1. Len(published) \in Nat
  BY DEF IInv, Shape
<1>2. PICK e \in Given : event' = [event EXCEPT ![p] = Fill(e, NewEventID(Len(published)))]
  BY DEF Record
<1> DEFINE f == Fill(e, NewEventID(Len(published)))
<1>3. NewEventID(Len(published)) \in Nat
  BY <1>1 DEF NewEventID
<1>4. f \in Event /\ f.topic \in Topic
  BY <1>3, Filling
<1>5. event' = [event EXCEPT ![p] = f]
  BY <1>2
<1> HIDE DEF f
<1>6. event'[p] = f /\ published' = Append(published, f)
  BY <1>5 DEF IInv, Shape, Record
<1>7. published' \in Seq(Event) /\ ToSet(published') = ToSet(published) \cup {f}
  BY <1>4, <1>6, AppendSet DEF IInv, Shape
<1>8. UNCHANGED <<queue, got, left, byTopic>> /\ ppc' = [ppc EXCEPT ![p] = "recorded"]
  BY DEF Record, streams
<1>9. Shape'
  BY <1>4, <1>5, <1>7, <1>8 DEF IInv, Shape
<1>10. RecordInv'
  BY <1>5, <1>7, <1>8 DEF IInv, Shape, RecordInv
<1> QED
  BY <1>9, <1>10

LEMMA CopyStep ==
  ASSUME IInv, NEW p \in Publishing, CopySubs(p)
  PROVE  Shape' /\ RecordInv'
<1>1. UNCHANGED <<published, queue, got, byTopic, event>>
  BY DEF CopySubs, broker
<1>2. /\ ppc[p] = "recorded" /\ ppc' = [ppc EXCEPT ![p] = "sending"]
      /\ left' = [left EXCEPT ![p] = byTopic[event[p].topic]]
  BY DEF CopySubs
<1>3. byTopic[event[p].topic] \in Seq(Receiver)
  BY <1>2 DEF IInv, Shape
<1>4. Shape'
  BY <1>1, <1>2, <1>3 DEF IInv, Shape
<1>5. RecordInv'
  BY <1>1, <1>2 DEF IInv, Shape, RecordInv
<1> QED
  BY <1>4, <1>5

LEMMA SendStep ==
  ASSUME IInv, NEW p \in Publishing, SendNext(p)
  PROVE  Shape' /\ RecordInv'
<1>1. UNCHANGED <<published, got, byTopic, event, ppc>>
  BY DEF SendNext, streams
<1> DEFINE r == Head(left[p])
<1>2. r \in Receiver /\ left' = [left EXCEPT ![p] = Tail(@)] /\ Tail(left[p]) \in Seq(Receiver)
  BY TailSet DEF IInv, Shape, SendNext
<1>3. queue' = [queue EXCEPT ![r] = Append(@, event[p])]
  BY DEF SendNext
<1> HIDE DEF r
<1>4. Append(queue[r], event[p]) \in Seq(Event) /\ ToSet(Append(queue[r], event[p])) = ToSet(queue[r]) \cup {event[p]}
  BY <1>2, AppendSet DEF IInv, Shape
<1>5. event[p] \in ToSet(published)
  BY DEF SendNext, IInv, RecordInv
<1>6. Shape'
  BY <1>1, <1>2, <1>3, <1>4 DEF IInv, Shape
<1>7. RecordInv'
  BY <1>1, <1>2, <1>3, <1>4, <1>5 DEF IInv, Shape, RecordInv
<1> QED
  BY <1>6, <1>7

LEMMA TakeStep ==
  ASSUME IInv, NEW r \in Receiver, Take(r), UNCHANGED <<byTopic, published, publishers>>
  PROVE  Shape' /\ RecordInv'
<1>1. UNCHANGED <<published, byTopic, event, ppc, left>>
  BY DEF publishers
<1>2. /\ queue' = [queue EXCEPT ![r] = Tail(@)] /\ got' = [got EXCEPT ![r] = Append(@, Head(queue[r]))]
      /\ queue[r] # <<>> /\ queue[r] \in Seq(Event) /\ got[r] \in Seq(Event)
  BY DEF Take, IInv, Shape
<1>3. /\ Tail(queue[r]) \in Seq(Event) /\ Head(queue[r]) \in Event
      /\ ToSet(Tail(queue[r])) \subseteq ToSet(queue[r]) /\ Head(queue[r]) \in ToSet(queue[r])
  BY <1>2, TailSet
<1>4. /\ Append(got[r], Head(queue[r])) \in Seq(Event)
      /\ ToSet(Append(got[r], Head(queue[r]))) = ToSet(got[r]) \cup {Head(queue[r])}
  BY <1>2, <1>3, AppendSet
<1>5. Shape'
  BY <1>1, <1>2, <1>3, <1>4 DEF IInv, Shape
<1>6. RecordInv'
  BY <1>1, <1>2, <1>3, <1>4 DEF IInv, Shape, RecordInv
<1> QED
  BY <1>5, <1>6

LEMMA EventStep ==
  ASSUME IInv, Events
  PROVE  Shape' /\ RecordInv'
<1>1. CASE \E r \in Receiver : Subscribe(r)
  <2>1. PICK r \in Receiver : Subscribe(r)
    BY <1>1
  <2>2. UNCHANGED <<queue, published, event, left, ppc, got>>
    BY <2>1 DEF Subscribe, publishers
  <2>3. byTopic' = [byTopic EXCEPT ![TopicOf[r]] = Append(@, r)]
    BY <2>1 DEF Subscribe
  <2>4. TopicOf[r] \in Topic /\ byTopic[TopicOf[r]] \in Seq(Receiver)
    BY FakesAssumption DEF Receiver, Topic, IInv, Shape
  <2>5. Append(byTopic[TopicOf[r]], r) \in Seq(Receiver)
    BY <2>4
  <2> QED
    BY <2>2, <2>3, <2>5 DEF IInv, Shape, RecordInv
<1>2. ASSUME NEW p \in Publishing, Publish(p)
      PROVE  Shape' /\ RecordInv'
  <2>1. CASE PublishReturns(p)
    <3>1. UNCHANGED <<published, queue, got, byTopic, left>>
      BY <2>1 DEF PublishReturns, broker
    <3>2. /\ ppc' = [ppc EXCEPT ![p] = "idle"] /\ event' = [event EXCEPT ![p] = NoEvent]
          /\ NoEvent \in Event
      BY <2>1 DEF PublishReturns, Event
    <3> QED
      BY <3>1, <3>2 DEF IInv, Shape, RecordInv
  <2> QED
    BY <1>2, <2>1, RecordStep, CopyStep, SendStep DEF Publish
<1>3. ASSUME NEW s \in Stream,
             Consume(s) \/ PutHandled(s) \/ ConsumeReturns(s) \/ Cancel(s) \/ ExpectHandled(s)
      PROVE  Shape' /\ RecordInv'
  <2>1. UNCHANGED <<published, queue, got, byTopic, event, left, ppc>>
    BY <1>3 DEF Consume, PutHandled, ConsumeReturns, Cancel, ExpectHandled, broker, publishers
  <2> QED
    BY <2>1 DEF IInv, Shape, RecordInv
<1>4. ASSUME NEW s \in Stream, Receive(s)
      PROVE  Shape' /\ RecordInv'
  BY <1>4, TakeStep DEF Receive, Receiver
<1>5. ASSUME NEW e \in Expecter, Wait(e)
      PROVE  Shape' /\ RecordInv'
  BY <1>5, TakeStep DEF Wait, Receiver
<1> QED
  BY <1>1, <1>2, <1>3, <1>4, <1>5 DEF Events

-----------------------------------------------------------------------------
(* The calls.                                                              *)

LEMMA SetStep ==
  ASSUME IInv, NEW o \in Served, NEW a \in Answers, SetFn(o, a)
  PROVE  CallInv' /\ AnswerWasSet'
<1>1. UNCHANGED <<cpc, op, read, result>> /\ fn' = [fn EXCEPT ![o] = a]
  BY DEF SetFn
<1>2. during' = [c \in Caller |-> IF cpc[c] # "idle" /\ op[c] = o THEN during[c] \cup {a} ELSE during[c]]
  BY DEF SetFn
<1>3. \A c \in Caller : during'[c] = IF cpc[c] # "idle" /\ op[c] = o THEN during[c] \cup {a} ELSE during[c]
  BY <1>2
<1>4. \A q \in Served : fn'[q] = IF q = o THEN a ELSE fn[q]
  BY <1>1 DEF IInv, CallInv
<1>5. CallInv'
  <2>1. fn' = [q \in Served |-> fn'[q]] /\ during' = [c \in Caller |-> during'[c]]
    BY <1>1, <1>2 DEF IInv, CallInv
  <2>2. ASSUME NEW c \in Caller
        PROVE  /\ cpc'[c] # "idle" => op'[c] \in Served
               /\ cpc'[c] = "read" => fn'[op'[c]] \in during'[c]
               /\ cpc'[c] = "answer" => read'[c] \in during'[c]
    <3>1. op'[c] = op[c] /\ cpc'[c] = cpc[c] /\ read'[c] = read[c]
      BY <1>1
    <3>2. cpc[c] # "idle" => op[c] \in Served
      BY DEF IInv, CallInv
    <3>3. CASE cpc[c] = "read"
      BY <1>3, <1>4, <3>1, <3>2, <3>3 DEF IInv, CallInv
    <3>4. CASE cpc[c] # "read"
      BY <1>3, <3>1, <3>2, <3>4 DEF IInv, CallInv
    <3> QED
      BY <3>3, <3>4
  <2> QED
    BY <1>1, <2>1, <2>2 DEF IInv, CallInv
<1>6. AnswerWasSet'
  BY <1>1, <1>3 DEF IInv, AnswerWasSet
<1> QED
  BY <1>5, <1>6

LEMMA CallStep ==
  ASSUME IInv, NEW c \in Caller, NEW o \in Ops, Call(c, o)
  PROVE  CallInv' /\ AnswerWasSet'
<1>1. UNCHANGED <<fn, read>> /\ op' = [op EXCEPT ![c] = o] /\ cpc[c] = "idle"
  BY DEF Call
<1>2. CASE o \in Served
  <2>1. cpc' = [cpc EXCEPT ![c] = "read"] /\ during' = [during EXCEPT ![c] = {fn[o]}] /\ result' = result
    BY <1>2 DEF Call
  <2>2. CallInv'
    BY <1>1, <1>2, <2>1 DEF IInv, CallInv
  <2>3. AnswerWasSet'
    BY <1>1, <1>2, <2>1 DEF IInv, CallInv, AnswerWasSet
  <2> QED
    BY <2>2, <2>3
<1>3. CASE o \notin Served
  <2>1. UNCHANGED <<cpc, during>> /\ result' = [result EXCEPT ![c] = ClientResult(o, 404, "none")]
    BY <1>3 DEF Call
  <2>2. CallInv'
    BY <1>1, <1>3, <2>1 DEF IInv, CallInv
  <2>3. AnswerWasSet'
    BY <1>1, <1>3, <2>1 DEF IInv, CallInv, AnswerWasSet
  <2> QED
    BY <2>2, <2>3
<1> QED
  BY <1>2, <1>3

LEMMA ReadStep ==
  ASSUME IInv, NEW c \in Caller, ReadFn(c)
  PROVE  CallInv' /\ AnswerWasSet'
<1>1. /\ UNCHANGED <<fn, op, result, during>> /\ cpc[c] = "read"
      /\ read' = [read EXCEPT ![c] = fn[op[c]]] /\ cpc' = [cpc EXCEPT ![c] = "answer"]
  BY DEF ReadFn
<1>2. CallInv'
  BY <1>1 DEF IInv, CallInv
<1>3. AnswerWasSet'
  BY <1>1 DEF IInv, CallInv, AnswerWasSet
<1> QED
  BY <1>2, <1>3

LEMMA AnswerStep ==
  ASSUME IInv, NEW c \in Caller, Answer(c)
  PROVE  CallInv' /\ AnswerWasSet'
<1>1. /\ UNCHANGED <<fn, op, read, during>> /\ cpc[c] = "answer" /\ cpc' = [cpc EXCEPT ![c] = "idle"]
      /\ result' = [result EXCEPT ![c] = ClientResult(op[c], AnswerFor(read[c]).code, AnswerFor(read[c]).body)]
  BY DEF Answer
<1>2. CallInv'
  BY <1>1 DEF IInv, CallInv
<1>3. AnswerWasSet'
  BY <1>1 DEF IInv, CallInv, AnswerWasSet
<1> QED
  BY <1>2, <1>3

LEMMA Inductive == IInv /\ [Next]_vars => IInv'
<1> SUFFICES ASSUME IInv, [Next]_vars PROVE IInv'
  OBVIOUS
<1>1. CASE Events
  <2>1. UNCHANGED server
    BY <1>1
       DEF Events, Subscribe, Publish, Record, CopySubs, SendNext, PublishReturns, Consume, Receive,
           PutHandled, ConsumeReturns, Cancel, ExpectHandled, Wait
  <2>2. CallInv' /\ AnswerWasSet'
    BY <2>1 DEF IInv, CallInv, AnswerWasSet, server
  <2> QED
    BY <1>1, <2>2, EventStep DEF IInv
<1>2. CASE Serves
  <2>1. UNCHANGED <<broker, publishers, got>>
    BY <1>2 DEF Serves, SetFn, Call, ReadFn, Answer
  <2>2. Shape' /\ RecordInv'
    BY <2>1 DEF IInv, Shape, RecordInv, broker, publishers
  <2> QED
    BY <1>2, <2>2, SetStep, CallStep, ReadStep, AnswerStep DEF IInv, Serves
<1>3. CASE UNCHANGED vars
  BY <1>3 DEF IInv, Shape, RecordInv, CallInv, AnswerWasSet, vars, broker, publishers, server
<1> QED
  BY <1>1, <1>2, <1>3 DEF Next

LEMMA Invariant == Spec => []IInv
  BY Initially, Inductive, PTL DEF Spec

(* Nothing arrives anywhere that the record of the publisher has not,      *)
(* whoever publishes, consumes or waits at the same time.                  *)
THEOREM ReceivedIsRecorded == Spec => []RecordedFirst
<1>1. IInv => RecordedFirst
  <2> SUFFICES ASSUME IInv, NEW r \in Receiver
               PROVE  ToSet(got[r] \o queue[r]) \subseteq ToSet(published)
    BY DEF RecordedFirst
  <2>1. got[r] \in Seq(Event) /\ queue[r] \in Seq(Event)
    BY DEF IInv, Shape
  <2>2. ToSet(got[r] \o queue[r]) \subseteq ToSet(got[r]) \cup ToSet(queue[r])
    BY <2>1, ConcatSet
  <2> QED
    BY <2>2 DEF IInv, RecordInv
<1> QED
  BY <1>1, Invariant, PTL

(* A call is answered as the test had it answered while it was under way,  *)
(* never with the answer for another operation or from before.             *)
THEOREM CallsSeeTheirAnswers == Spec => []AnswerWasSet
<1>1. IInv => AnswerWasSet
  BY DEF IInv
<1> QED
  BY <1>1, Invariant, PTL

-----------------------------------------------------------------------------
(* The types, part by part.                                                *)

Filled(e) == e.type = e.topic /\ e.id # 0 /\ (e.topic = "premium-updated" => e.source # "none")

PublishTypes ==
  /\ Len(published) <= MaxPublish
  /\ \A e \in ToSet(published) : Filled(e)

(* Each receiver subscribes once, and has its channel from then on.        *)
SubscribeTypes ==
  /\ since \in [Receiver -> 0 .. MaxPublish + 1]
  /\ \A t \in Topic : \A i, j \in DOMAIN byTopic[t] : byTopic[t][i] = byTopic[t][j] => i = j
  /\ \A t \in Topic : \A i \in DOMAIN byTopic[t] : since[byTopic[t][i]] <= MaxPublish

StreamTypes ==
  /\ \A r \in Receiver : Len(queue[r]) <= SubscribeBuffer
  /\ handled \in [Stream -> Seq(Nat)]
  /\ \A s \in Stream : Len(handled[s]) <= HandledBuffer
  /\ spc \in [Stream -> {"new", "select", "handled", "returned"}]
  /\ \A s \in Stream : spc[s] = "handled" => got[s] # <<>>
  /\ cancelled \in [Stream -> BOOLEAN]

LEMMA Bounds ==
  /\ MaxPublish \in Nat /\ SubscribeBuffer \in Nat /\ HandledBuffer \in Nat
  /\ SubscribeBuffer > 0 /\ HandledBuffer > 0
  BY FakesAssumption

LEMMA EventId ==
  ASSUME NEW e \in Event
  PROVE  e.id \in Nat
<1>1. CASE e = NoEvent
  BY <1>1 DEF NoEvent
<1>2. ASSUME NEW g \in Given, NEW n \in Nat, e = Fill(g, n)
      PROVE  e.id \in Nat
  BY <1>2, FillFields
<1> QED
  BY <1>1, <1>2 DEF Event

LEMMA PublishTyped ==
  ASSUME IInv, PublishTypes, [Next]_vars
  PROVE  PublishTypes'
<1>1. CASE UNCHANGED published
  BY <1>1 DEF PublishTypes
<1>2. ASSUME NEW p \in Publishing, Record(p) PROVE PublishTypes'
  <2>1. Len(published) \in Nat /\ published \in Seq(Event)
    BY DEF IInv, Shape
  <2>2. PICK e \in Given : event' = [event EXCEPT ![p] = Fill(e, NewEventID(Len(published)))]
    BY <1>2 DEF Record
  <2>3. PICK f : f = Fill(e, NewEventID(Len(published)))
    OBVIOUS
  <2>4. Filled(f)
    <3>1. NewEventID(Len(published)) \in Nat \ {0}
      BY <2>1 DEF NewEventID
    <3> QED
      BY <2>3, <3>1, FillFields DEF Filled
  <2>5. f \in Event
    BY <2>1, <2>3, Filling DEF NewEventID
  <2>6. published' = Append(published, f)
    BY <1>2, <2>2, <2>3 DEF Record, IInv, Shape
  <2>7. Len(published') = Len(published) + 1 /\ ToSet(published') = ToSet(published) \cup {f}
    BY <2>1, <2>5, <2>6, AppendSet
  <2>8. Len(published') <= MaxPublish
    BY <1>2, <2>1, <2>7, Bounds DEF Record
  <2> QED
    BY <2>4, <2>7, <2>8 DEF PublishTypes
<1>3. UNCHANGED published \/ \E p \in Publishing : Record(p)
  BY DEF Next, Events, Serves, vars, broker, Subscribe, Publish, CopySubs, SendNext, PublishReturns,
         Consume, Receive, PutHandled, ConsumeReturns, Cancel, ExpectHandled, Wait, SetFn, Call, ReadFn, Answer
<1> QED
  BY <1>1, <1>2, <1>3

LEMMA SubscribeTyped ==
  ASSUME IInv, PublishTypes, SubscribeTypes, [Next]_vars
  PROVE  SubscribeTypes'
<1>1. CASE UNCHANGED <<byTopic, since>>
  BY <1>1 DEF SubscribeTypes
<1>2. ASSUME NEW r \in Receiver, Subscribe(r) PROVE SubscribeTypes'
  <2>1. PICK u \in Topic : u = TopicOf[r]
    BY FakesAssumption DEF Receiver, Topic
  <2>2. PICK s \in Seq(Receiver) : s = byTopic[u]
    BY DEF IInv, Shape
  <2>3. /\ since[r] > MaxPublish /\ since' = [since EXCEPT ![r] = Len(published)]
        /\ byTopic' = [byTopic EXCEPT ![u] = Append(s, r)]
    BY <1>2, <2>1, <2>2 DEF Subscribe
  <2>4. Len(published) \in 0 .. MaxPublish
    BY Bounds DEF IInv, Shape, PublishTypes
  <2>5. since' \in [Receiver -> 0 .. MaxPublish + 1]
    BY <2>3, <2>4, Bounds DEF SubscribeTypes
  <2>6. ASSUME NEW t \in Topic, NEW i \in DOMAIN byTopic[t] PROVE byTopic[t][i] # r
    BY <2>3, Bounds DEF SubscribeTypes, IInv, Shape
  <2>7. /\ DOMAIN Append(s, r) = 1 .. (Len(s) + 1) /\ DOMAIN s = 1 .. Len(s) /\ Len(s) \in Nat
        /\ Append(s, r)[Len(s) + 1] = r /\ \A i \in 1 .. Len(s) : Append(s, r)[i] = s[i]
    BY <2>2
  <2>8. byTopic'[u] = Append(s, r) /\ \A t \in Topic : t # u => byTopic'[t] = byTopic[t]
    BY <2>3 DEF IInv, Shape
  <2>9. ASSUME NEW t \in Topic
        PROVE  \A i, j \in DOMAIN byTopic'[t] : byTopic'[t][i] = byTopic'[t][j] => i = j
    <3>1. CASE t = u
      <4>1. \A i, j \in DOMAIN s : s[i] = s[j] => i = j
        BY <2>2 DEF SubscribeTypes
      <4>2. \A i \in DOMAIN s : s[i] # r
        BY <2>2, <2>6
      <4> QED
        BY <2>7, <2>8, <3>1, <4>1, <4>2
    <3>2. CASE t # u
      BY <2>8, <3>2 DEF SubscribeTypes
    <3> QED
      BY <3>1, <3>2
  <2>10. ASSUME NEW t \in Topic, NEW i \in DOMAIN byTopic'[t]
         PROVE  since'[byTopic'[t][i]] <= MaxPublish
    <3>1. byTopic'[t][i] = r \/ (i \in DOMAIN byTopic[t] /\ byTopic'[t][i] = byTopic[t][i])
      <4>1. CASE t = u
        BY <2>2, <2>7, <2>8, <4>1
      <4>2. CASE t # u
        BY <2>8, <4>2
      <4> QED
        BY <4>1, <4>2
    <3>2. \A q \in Receiver : since'[q] = IF q = r THEN Len(published) ELSE since[q]
      BY <2>3 DEF SubscribeTypes
    <3>3. i \in DOMAIN byTopic[t] => byTopic[t][i] \in Receiver /\ since[byTopic[t][i]] <= MaxPublish
      BY DEF IInv, Shape, SubscribeTypes
    <3> QED
      BY <2>4, <2>6, <3>1, <3>2, <3>3
  <2> QED
    BY <2>5, <2>9, <2>10 DEF SubscribeTypes
<1>3. UNCHANGED <<byTopic, since>> \/ \E r \in Receiver : Subscribe(r)
  BY DEF Next, Events, Serves, vars, broker, Publish, Record, CopySubs, SendNext, PublishReturns,
         Consume, Receive, PutHandled, ConsumeReturns, Cancel, ExpectHandled, Wait, SetFn, Call, ReadFn, Answer
<1> QED
  BY <1>1, <1>2, <1>3

LEMMA TakeTyped ==
  ASSUME IInv, StreamTypes, NEW r \in Receiver, Take(r)
  PROVE  /\ \A q \in Receiver : Len(queue'[q]) <= SubscribeBuffer
         /\ got'[r] # <<>>
         /\ \A q \in Receiver : q # r => got'[q] = got[q]
<1>1. /\ queue[r] \in Seq(Event) /\ queue[r] # <<>> /\ got[r] \in Seq(Event)
      /\ queue' = [queue EXCEPT ![r] = Tail(@)]
      /\ got' = [got EXCEPT ![r] = Append(@, Head(queue[r]))]
  BY DEF Take, IInv, Shape
<1>2. Len(Tail(queue[r])) = Len(queue[r]) - 1 /\ Len(queue[r]) \in Nat /\ Head(queue[r]) \in Event
  BY <1>1
<1>3. Append(got[r], Head(queue[r])) # <<>>
  <2>1. PICK g \in Seq(Event), h \in Event : g = got[r] /\ h = Head(queue[r])
    BY <1>1, <1>2
  <2>2. Len(Append(g, h)) = Len(g) + 1 /\ Len(g) \in Nat /\ Len(<<>>) = 0
    OBVIOUS
  <2> QED
    BY <2>1, <2>2
<1>4. Len(Tail(queue[r])) <= SubscribeBuffer
  BY <1>2, Bounds DEF StreamTypes
<1> QED
  BY <1>1, <1>3, <1>4 DEF StreamTypes, IInv, Shape

LEMMA StreamTyped ==
  ASSUME IInv, StreamTypes, [Next]_vars
  PROVE  StreamTypes'
<1>1. CASE UNCHANGED <<queue, got, streams>>
  BY <1>1 DEF StreamTypes, streams
<1>2. ASSUME NEW p \in Publishing, SendNext(p) PROVE StreamTypes'
  <2>1. Head(left[p]) \in Receiver
    BY <1>2, TailSet DEF SendNext, IInv, Shape
  <2>2. PICK r \in Receiver : r = Head(left[p])
    BY <2>1
  <2>3. /\ queue' = [queue EXCEPT ![r] = Append(@, event[p])] /\ Len(queue[r]) < SubscribeBuffer
        /\ UNCHANGED <<got, streams>>
    BY <1>2, <2>2 DEF SendNext
  <2>4. queue[r] \in Seq(Event) /\ event[p] \in Event
    BY DEF IInv, Shape
  <2>5. Len(Append(queue[r], event[p])) <= SubscribeBuffer
    BY <2>3, <2>4, Bounds
  <2> QED
    BY <2>3, <2>5 DEF StreamTypes, streams, IInv, Shape
<1>3. ASSUME NEW s \in Stream, Receive(s) PROVE StreamTypes'
  <2>1. s \in Receiver /\ Take(s) /\ spc' = [spc EXCEPT ![s] = "handled"] /\ UNCHANGED <<handled, cancelled>>
    BY <1>3 DEF Receive, Receiver
  <2>2. /\ \A q \in Receiver : Len(queue'[q]) <= SubscribeBuffer
        /\ got'[s] # <<>>
        /\ \A q \in Receiver : q # s => got'[q] = got[q]
    BY <2>1, TakeTyped
  <2> QED
    BY <2>1, <2>2 DEF StreamTypes, Receiver
<1>4. ASSUME NEW e \in Expecter, Wait(e) PROVE StreamTypes'
  <2>1. e \in Receiver /\ Take(e) /\ UNCHANGED streams
    BY <1>4 DEF Wait, Receiver
  <2>2. /\ \A q \in Receiver : Len(queue'[q]) <= SubscribeBuffer
        /\ got'[e] # <<>>
        /\ \A q \in Receiver : q # e => got'[q] = got[q]
    BY <2>1, TakeTyped
  <2> QED
    BY <2>1, <2>2 DEF StreamTypes, Receiver, streams
<1>5. ASSUME NEW s \in Stream, Consume(s) \/ ConsumeReturns(s) \/ Cancel(s) PROVE StreamTypes'
  BY <1>5 DEF Consume, ConsumeReturns, Cancel, StreamTypes, broker
<1>6. ASSUME NEW s \in Stream, PutHandled(s) PROVE StreamTypes'
  <2>1. UNCHANGED <<queue, got, cancelled>> /\ spc[s] = "handled" /\ spc' = [spc EXCEPT ![s] = "select"]
    BY <1>6 DEF PutHandled, broker
  <2>2. PICK n : n = Last(got[s]).id
    OBVIOUS
  <2>3. handled' = [handled EXCEPT ![s] = Append(@, n)] /\ Len(handled[s]) < HandledBuffer
    BY <1>6, <2>2 DEF PutHandled
  <2>4. n \in Nat
    <3>1. got[s] \in Seq(Event) /\ got[s] # <<>>
      BY <2>1 DEF IInv, Shape, StreamTypes, Receiver
    <3>2. Last(got[s]) \in Event
      BY <3>1 DEF Last
    <3> QED
      BY <2>2, <3>2, EventId
  <2>5. Append(handled[s], n) \in Seq(Nat) /\ Len(Append(handled[s], n)) <= HandledBuffer
    BY <2>3, <2>4, Bounds DEF StreamTypes
  <2> QED
    BY <2>1, <2>3, <2>5 DEF StreamTypes
<1>7. ASSUME NEW s \in Stream, ExpectHandled(s) PROVE StreamTypes'
  <2>1. UNCHANGED <<queue, got, cancelled, spc>> /\ handled' = [handled EXCEPT ![s] = Tail(@)]
    BY <1>7 DEF ExpectHandled, broker
  <2>2. handled[s] \in Seq(Nat) /\ handled[s] # <<>> /\ Len(handled[s]) <= HandledBuffer
    BY <1>7 DEF ExpectHandled, StreamTypes
  <2>3. Tail(handled[s]) \in Seq(Nat) /\ Len(Tail(handled[s])) <= HandledBuffer
    BY <2>2, Bounds
  <2> QED
    BY <2>1, <2>3 DEF StreamTypes
<1>8. \/ UNCHANGED <<queue, got, streams>>
      \/ \E p \in Publishing : SendNext(p)
      \/ \E s \in Stream : \/ Receive(s) \/ Consume(s) \/ ConsumeReturns(s) \/ Cancel(s)
                           \/ PutHandled(s) \/ ExpectHandled(s)
      \/ \E e \in Expecter : Wait(e)
  BY DEF Next, Events, Serves, vars, broker, Subscribe, Publish, Record, CopySubs, PublishReturns,
         SetFn, Call, ReadFn, Answer
<1> QED
  BY <1>1, <1>2, <1>3, <1>4, <1>5, <1>6, <1>7, <1>8

LEMMA FieldsTyped ==
  ASSUME fn \in [Served -> Answers \cup {NoFn}], [Next]_vars
  PROVE  fn' \in [Served -> Answers \cup {NoFn}]
<1>1. UNCHANGED fn \/ \E o \in Served, a \in Answers : fn' = [fn EXCEPT ![o] = a]
  BY DEF Next, Events, Serves, vars, broker, server, Subscribe, Publish, Record, CopySubs, SendNext,
         PublishReturns, Consume, Receive, PutHandled, ConsumeReturns, Cancel, ExpectHandled, Wait,
         SetFn, Call, ReadFn, Answer
<1> QED
  BY <1>1

LEMMA Typings == Spec => [](PublishTypes /\ SubscribeTypes /\ StreamTypes /\ fn \in [Served -> Answers \cup {NoFn}])
<1> DEFINE Typed == /\ PublishTypes /\ SubscribeTypes /\ StreamTypes
                    /\ fn \in [Served -> Answers \cup {NoFn}]
<1>1. Init => Typed
  <2> SUFFICES ASSUME Init PROVE Typed
    OBVIOUS
  <2>1. PublishTypes
    BY Bounds DEF Init, PublishTypes, ToSet
  <2>2. SubscribeTypes
    BY Bounds DEF Init, SubscribeTypes
  <2>3. StreamTypes
    BY Bounds DEF Init, StreamTypes
  <2> QED
    BY <2>1, <2>2, <2>3 DEF Init
<1>2. IInv /\ Typed /\ [Next]_vars => Typed'
  BY PublishTyped, SubscribeTyped, StreamTyped, FieldsTyped
<1> QED
  BY <1>1, <1>2, Invariant, PTL DEF Spec

(* Every published event is complete, every receiver is in the broker      *)
(* once, and no channel holds more than it has room for.                   *)
THEOREM FakesTypeCorrect == Spec => []TypeOK
<1> DEFINE Typed == /\ PublishTypes /\ SubscribeTypes /\ StreamTypes
                    /\ fn \in [Served -> Answers \cup {NoFn}]
<1>1. IInv /\ Typed => TypeOK
  BY DEF IInv, Shape, CallInv, PublishTypes, Filled, SubscribeTypes, StreamTypes, TypeOK
<1> QED
  BY <1>1, Invariant, Typings, PTL

-----------------------------------------------------------------------------
(* Delivery.  An event with a made-up identity is told apart from every    *)
(* other; what it is told of can be said of that event alone.              *)

Fresh(e) == e.id >= NewEventID(0)
NoRepeats(s) == \A i, j \in DOMAIN s : s[i] = s[j] => i = j

(* A fresh event is in s once at most, and only if it is one of topic t.   *)
Once(s, t) ==
  \A i \in DOMAIN s : Fresh(s[i]) => s[i].topic = t /\ \A j \in DOMAIN s : s[j] = s[i] => j = i

(* What has reached a receiver, taken or not.                              *)
Seen(r) == got[r] \o queue[r]

(* Identities that are made up are made up in the order of the record.     *)
Numbered == \A i \in DOMAIN published : Fresh(published[i]) => published[i].id = NewEventID(i - 1)

(* A fresh event has one publisher, who sends it to a channel of its topic *)
(* once, and while it has yet to do so nothing of it is in that channel.   *)
OnePublisher ==
  \A p, q \in Publishing :
    ppc[p] # "idle" /\ ppc[q] # "idle" /\ event[p] = event[q] /\ Fresh(event[p]) => p = q

LeftToSend ==
  \A p \in Publishing :
    /\ NoRepeats(left[p])
    /\ ppc[p] # "sending" => left[p] = <<>>
    /\ \A r \in ToSet(left[p]) : TopicOf[r] = event[p].topic

NotBefore ==
  \A p \in Publishing, r \in Receiver :
    ppc[p] # "idle" /\ Fresh(event[p]) /\ event[p] \in ToSet(Seen(r)) =>
      ppc[p] = "sending" /\ r \notin ToSet(left[p])

(* The broker has those, and only those, who have subscribed to the topic. *)
Subscribed ==
  /\ \A t \in Topic : \A r \in ToSet(byTopic[t]) : TopicOf[r] = t
  /\ \A r \in Receiver : since[r] <= MaxPublish => r \in ToSet(byTopic[TopicOf[r]])

SeenOnce == \A r \in Receiver : Once(Seen(r), TopicOf[r])

OnItsWay(e, r) == \E p \in Publishing : event[p] = e /\ (ppc[p] = "recorded" \/ r \in ToSet(left[p]))

(* What was published after a receiver subscribed is there or on its way.  *)
NothingLost ==
  \A r \in Receiver, i \in DOMAIN published :
    Fresh(published[i]) /\ since[r] < i /\ published[i].topic = TopicOf[r] =>
      published[i] \in ToSet(Seen(r)) \/ OnItsWay(published[i], r)

DeliveryInv == Numbered /\ OnePublisher /\ LeftToSend /\ NotBefore /\ Subscribed /\ SeenOnce /\ NothingLost

LEMMA AppendOnce ==
  ASSUME NEW s \in Seq(Event), NEW e \in Event, NEW t,
         Once(s, t), Fresh(e) => e.topic = t /\ e \notin ToSet(s)
  PROVE  Once(Append(s, e), t)
<1>1. /\ Len(s) \in Nat /\ DOMAIN s = 1 .. Len(s) /\ DOMAIN Append(s, e) = 1 .. (Len(s) + 1)
      /\ Append(s, e)[Len(s) + 1] = e /\ \A i \in 1 .. Len(s) : Append(s, e)[i] = s[i]
  OBVIOUS
<1> SUFFICES ASSUME NEW i \in DOMAIN Append(s, e), Fresh(Append(s, e)[i])
             PROVE  /\ Append(s, e)[i].topic = t
                    /\ \A j \in DOMAIN Append(s, e) : Append(s, e)[j] = Append(s, e)[i] => j = i
  BY DEF Once
<1>2. CASE i = Len(s) + 1
  <2>1. Append(s, e)[i] = e /\ e.topic = t /\ \A j \in 1 .. Len(s) : s[j] # e
    BY <1>1, <1>2 DEF ToSet
  <2> QED
    BY <1>1, <1>2, <2>1
<1>3. CASE i # Len(s) + 1
  <2>1. i \in DOMAIN s /\ Append(s, e)[i] = s[i] /\ Fresh(s[i])
    BY <1>1, <1>3
  <2>2. s[i].topic = t /\ \A j \in DOMAIN s : s[j] = s[i] => j = i
    BY <2>1 DEF Once
  <2>3. s[i] # e
    BY <2>1, <2>2, <1>1 DEF ToSet
  <2> QED
    BY <1>1, <2>1, <2>2, <2>3
<1> QED
  BY <1>2, <1>3

LEMMA TailOnce ==
  ASSUME NEW S, NEW s \in Seq(S), s # <<>>, NoRepeats(s)
  PROVE  NoRepeats(Tail(s)) /\ Head(s) \notin ToSet(Tail(s)) /\ ToSet(Tail(s)) = ToSet(s) \ {Head(s)}
<1>1. Len(s) \in Nat \ {0} /\ DOMAIN s = 1 .. Len(s) /\ Head(s) = s[1]
  OBVIOUS
<1>2. Len(Tail(s)) = Len(s) - 1 /\ DOMAIN Tail(s) = 1 .. (Len(s) - 1)
  BY <1>1
<1>3. \A i \in 1 .. (Len(s) - 1) : Tail(s)[i] = s[i + 1] /\ i + 1 \in 1 .. Len(s)
  BY <1>1
<1>4. NoRepeats(Tail(s))
  BY <1>1, <1>2, <1>3 DEF NoRepeats
<1>5. Head(s) \notin ToSet(Tail(s))
  BY <1>1, <1>2, <1>3 DEF NoRepeats, ToSet
<1>6. \A i \in 2 .. Len(s) : i - 1 \in 1 .. (Len(s) - 1) /\ Tail(s)[i - 1] = s[i]
  BY <1>1, <1>2
<1>7. ToSet(s) \ {Head(s)} \subseteq ToSet(Tail(s))
  <2> SUFFICES ASSUME NEW i \in 1 .. Len(s), s[i] # s[1] PROVE s[i] \in ToSet(Tail(s))
    BY <1>1 DEF ToSet
  <2>1. i \in 2 .. Len(s)
    BY <1>1
  <2> QED
    BY <2>1, <1>2, <1>6 DEF ToSet
<1>8. ToSet(Tail(s)) \subseteq ToSet(s)
  BY TailSet
<1> QED
  BY <1>4, <1>5, <1>7, <1>8

(* Taking an event from a channel changes nothing of what has been seen.   *)
LEMMA TakeSeen ==
  ASSUME NEW g \in Seq(Event), NEW q \in Seq(Event), q # <<>>
  PROVE  Append(g, Head(q)) \o Tail(q) = g \o q
<1>1. Len(g) \in Nat /\ Len(q) \in Nat \ {0} /\ Head(q) = q[1]
  OBVIOUS
<1>2. /\ Append(g, Head(q)) \in Seq(Event) /\ Len(Append(g, Head(q))) = Len(g) + 1
      /\ Tail(q) \in Seq(Event) /\ Len(Tail(q)) = Len(q) - 1
  BY <1>1
<1>3. DOMAIN (g \o q) = 1 .. (Len(g) + Len(q)) /\ g \o q \in Seq(Event)
  BY <1>1
<1>4. /\ Append(g, Head(q)) \o Tail(q) \in Seq(Event)
      /\ Len(Append(g, Head(q)) \o Tail(q)) = Len(g) + Len(q)
  BY <1>1, <1>2
<1>5. ASSUME NEW i \in 1 .. (Len(g) + Len(q))
      PROVE  (Append(g, Head(q)) \o Tail(q))[i] = (g \o q)[i]
  <2>1. CASE i <= Len(g)
    BY <1>1, <1>2, <2>1
  <2>2. CASE i = Len(g) + 1
    BY <1>1, <1>2, <2>2
  <2>3. CASE i > Len(g) + 1
    <3>1. (Append(g, Head(q)) \o Tail(q))[i] = Tail(q)[i - (Len(g) + 1)]
      BY <1>1, <1>2, <2>3
    <3>2. Tail(q)[i - (Len(g) + 1)] = q[i - Len(g)]
      BY <1>1, <1>2, <2>3
    <3>3. (g \o q)[i] = q[i - Len(g)]
      BY <1>1, <2>3
    <3> QED
      BY <3>1, <3>2, <3>3
  <2> QED
    BY <1>1, <2>1, <2>2, <2>3
<1> QED
  BY <1>3, <1>4, <1>5

(* Sending appends to it.                                                  *)
LEMMA SendSeen ==
  ASSUME NEW g \in Seq(Event), NEW q \in Seq(Event), NEW e \in Event
  PROVE  g \o Append(q, e) = Append(g \o q, e)
<1>1. Len(g) \in Nat /\ Len(q) \in Nat
  OBVIOUS
<1>2. Append(q, e) \in Seq(Event) /\ Len(Append(q, e)) = Len(q) + 1
  BY <1>1
<1>3. g \o q \in Seq(Event) /\ Len(g \o q) = Len(g) + Len(q)
  BY <1>1
<1>4. /\ Append(g \o q, e) \in Seq(Event) /\ Len(Append(g \o q, e)) = Len(g) + Len(q) + 1
      /\ g \o Append(q, e) \in Seq(Event) /\ Len(g \o Append(q, e)) = Len(g) + Len(q) + 1
  BY <1>1, <1>2, <1>3
<1>5. ASSUME NEW i \in 1 .. (Len(g) + Len(q) + 1)
      PROVE  (g \o Append(q, e))[i] = Append(g \o q, e)[i]
  <2>1. CASE i <= Len(g)
    BY <1>1, <1>2, <1>3, <2>1
  <2>2. CASE i > Len(g) /\ i <= Len(g) + Len(q)
    BY <1>1, <1>2, <1>3, <2>2
  <2>3. CASE i = Len(g) + Len(q) + 1
    BY <1>1, <1>2, <1>3, <2>3
  <2> QED
    BY <1>1, <2>1, <2>2, <2>3
<1> QED
  BY <1>4, <1>5

LEMMA SeenEvents ==
  ASSUME IInv, NEW r \in Receiver
  PROVE  Seen(r) \in Seq(Event) /\ ToSet(Seen(r)) \subseteq ToSet(published)
<1>1. got[r] \in Seq(Event) /\ queue[r] \in Seq(Event)
  BY DEF IInv, Shape
<1> QED
  BY <1>1, ConcatSet DEF Seen, IInv, RecordInv

LEMMA FillIdentity ==
  ASSUME NEW e \in Given, NEW n \in Nat, NEW f, f = Fill(e, NewEventID(n)), Fresh(f)
  PROVE  f.id = NewEventID(n)
<1> DEFINE id == IF e.id = 0 THEN NewEventID(n) ELSE e.id
           source == IF e.topic = "premium-updated" /\ e.source = "none" THEN "shop" ELSE e.source
<1>1. e \in [topic : STRING, type : STRING, id : Nat, source : STRING] /\ e.id < 100
  BY FakesAssumption
<1>2. PICK typed : typed = [e EXCEPT !.type = e.topic]
  OBVIOUS
<1>3. PICK named : named = [typed EXCEPT !.id = id]
  OBVIOUS
<1>4. f = [named EXCEPT !.source = source]
  BY <1>2, <1>3, Zenon DEF Fill
<1>5. id = NewEventID(n) \/ id = e.id
  OBVIOUS
<1> HIDE DEF id, source
<1>6. typed = [topic |-> e.topic, type |-> e.topic, id |-> e.id, source |-> e.source]
  BY <1>1, <1>2
<1>7. named = [topic |-> e.topic, type |-> e.topic, id |-> id, source |-> e.source]
  BY <1>3, <1>6
<1>8. f.id = id
  BY <1>4, <1>7
<1> QED
  BY <1>1, <1>5, <1>8 DEF Fresh, NewEventID

(* What is newly recorded is new everywhere.                               *)
LEMMA NewIsUnseen ==
  ASSUME IInv, Numbered, NEW f, Fresh(f), f.id = NewEventID(Len(published))
  PROVE  f \notin ToSet(published)
<1>1. Len(published) \in Nat /\ DOMAIN published = 1 .. Len(published)
  BY DEF IInv, Shape
<1> SUFFICES ASSUME NEW i \in 1 .. Len(published), published[i] = f PROVE FALSE
  BY <1>1 DEF ToSet
<1>2. published[i].id = NewEventID(i - 1)
  BY <1>1 DEF Numbered
<1> QED
  BY <1>1, <1>2 DEF NewEventID

LEMMA RecordDelivers ==
  ASSUME IInv, PublishTypes, SubscribeTypes, DeliveryInv, NEW p \in Publishing, Record(p)
  PROVE  DeliveryInv'
<1>1. /\ Len(published) \in Nat /\ DOMAIN published = 1 .. Len(published) /\ published \in Seq(Event)
      /\ \A q \in Publishing : ppc[q] # "idle" => event[q] \in ToSet(published)
  BY DEF IInv, Shape, RecordInv
<1>2. PICK e \in Given : event' = [event EXCEPT ![p] = Fill(e, NewEventID(Len(published)))]
  BY DEF Record
<1>3. PICK f : f = Fill(e, NewEventID(Len(published)))
  OBVIOUS
<1>4. f \in Event /\ (Fresh(f) => f.id = NewEventID(Len(published)) /\ f \notin ToSet(published))
  <2>1. f \in Event
    BY <1>1, <1>3, Filling DEF NewEventID
  <2> QED
    BY <1>1, <1>3, <2>1, FillIdentity, NewIsUnseen DEF DeliveryInv
<1>5. /\ event' = [event EXCEPT ![p] = f] /\ ppc' = [ppc EXCEPT ![p] = "recorded"]
      /\ ppc[p] = "idle" /\ UNCHANGED <<byTopic, queue, since, left, got>>
  BY <1>2, <1>3 DEF Record
<1>6. published' = Append(published, f)
  BY <1>5 DEF Record, IInv, Shape
<1>7. /\ \A q \in Publishing : q # p => event'[q] = event[q] /\ ppc'[q] = ppc[q]
      /\ event'[p] = f /\ ppc'[p] = "recorded" /\ left[p] = <<>>
  BY <1>5 DEF IInv, Shape, DeliveryInv, LeftToSend
<1>8. /\ DOMAIN published' = 1 .. (Len(published) + 1) /\ published'[Len(published) + 1] = f
      /\ \A i \in DOMAIN published : published'[i] = published[i]
  BY <1>1, <1>4, <1>6
<1>9. \A r \in Receiver : Seen(r)' = Seen(r) /\ ToSet(Seen(r)) \subseteq ToSet(published)
  BY <1>5, SeenEvents DEF Seen
<1>10. Numbered'
  <2> SUFFICES ASSUME NEW i \in DOMAIN published', Fresh(published'[i])
               PROVE  published'[i].id = NewEventID(i - 1)
    BY DEF Numbered
  <2>1. CASE i = Len(published) + 1
    <3>1. published'[i].id = NewEventID(Len(published))
      BY <1>4, <1>8, <2>1
    <3>2. i - 1 = Len(published)
      BY <1>1, <2>1
    <3> QED
      BY <3>1, <3>2
  <2>2. CASE i # Len(published) + 1
    <3>1. i \in DOMAIN published
      BY <1>1, <1>8, <2>2
    <3> QED
      BY <1>8, <3>1 DEF DeliveryInv, Numbered
  <2> QED
    BY <2>1, <2>2
<1>11. OnePublisher'
  <2> SUFFICES ASSUME NEW q \in Publishing, NEW u \in Publishing,
                      ppc'[q] # "idle", ppc'[u] # "idle", event'[q] = event'[u], Fresh(event'[q])
               PROVE  q = u
    BY DEF OnePublisher
  <2> QED
    BY <1>1, <1>4, <1>7 DEF DeliveryInv, OnePublisher
<1>12. LeftToSend'
  <2>1. ToSet(left[p]) = {}
    BY <1>7 DEF ToSet
  <2> QED
    BY <1>5, <1>7, <2>1 DEF DeliveryInv, LeftToSend
<1>13. NotBefore'
  <2> SUFFICES ASSUME NEW q \in Publishing, NEW r \in Receiver,
                      ppc'[q] # "idle", Fresh(event'[q]), event'[q] \in ToSet(Seen(r)')
               PROVE  ppc'[q] = "sending" /\ r \notin ToSet(left'[q])
    BY <1>9 DEF NotBefore
  <2>1. event'[q] \in ToSet(Seen(r)) /\ event'[q] \in ToSet(published)
    BY <1>9
  <2>2. q # p
    BY <1>4, <1>7, <2>1
  <2> QED
    BY <1>5, <1>7, <2>1, <2>2 DEF DeliveryInv, NotBefore
<1>14. Subscribed'
  BY <1>5 DEF DeliveryInv, Subscribed
<1>15. SeenOnce'
  BY <1>9 DEF DeliveryInv, SeenOnce
<1>16. NothingLost'
  <2> SUFFICES ASSUME NEW r \in Receiver, NEW i \in DOMAIN published', NEW x, x = published'[i],
                      Fresh(x), since[r] < i, x.topic = TopicOf[r]
               PROVE  x \in ToSet(Seen(r)') \/ OnItsWay(x, r)'
    BY <1>5 DEF NothingLost, OnItsWay
  <2>1. CASE i = Len(published) + 1
    BY <1>7, <1>8, <2>1 DEF OnItsWay
  <2>2. CASE i # Len(published) + 1
    <3>1. i \in DOMAIN published /\ x = published[i]
      BY <1>1, <1>8, <2>2
    <3>2. CASE x \in ToSet(Seen(r))
      BY <1>9, <3>2
    <3>3. ASSUME NEW q \in Publishing, event[q] = x, ppc[q] = "recorded" \/ r \in ToSet(left[q])
          PROVE  OnItsWay(x, r)'
      <4>1. q # p
        BY <1>5, <1>7, <3>3 DEF ToSet
      <4> QED
        BY <1>5, <1>7, <3>3, <4>1 DEF OnItsWay
    <3>4. x \in ToSet(Seen(r)) \/ OnItsWay(x, r)
      BY <3>1 DEF DeliveryInv, NothingLost
    <3> QED
      BY <3>2, <3>3, <3>4 DEF OnItsWay
  <2> QED
    BY <2>1, <2>2
<1> QED
  BY <1>10, <1>11, <1>12, <1>13, <1>14, <1>15, <1>16 DEF DeliveryInv

LEMMA CopyDelivers ==
  ASSUME IInv, PublishTypes, SubscribeTypes, DeliveryInv, NEW p \in Publishing, CopySubs(p)
  PROVE  DeliveryInv'
<1> DEFINE chans == byTopic[event[p].topic]
<1>1. /\ UNCHANGED <<published, queue, got, byTopic, since, event>> /\ ppc[p] = "recorded"
      /\ ppc' = [ppc EXCEPT ![p] = "sending"] /\ left' = [left EXCEPT ![p] = chans]
  BY DEF CopySubs, broker
<1>2. event[p].topic \in Topic
  BY <1>1 DEF IInv, Shape
<1>3. NoRepeats(chans) /\ \A r \in ToSet(chans) : TopicOf[r] = event[p].topic
  BY <1>2 DEF NoRepeats, SubscribeTypes, DeliveryInv, Subscribed
<1> HIDE DEF chans
<1>4. /\ ppc'[p] = "sending" /\ left'[p] = chans
      /\ \A q \in Publishing : q # p => ppc'[q] = ppc[q] /\ left'[q] = left[q]
  BY <1>1 DEF IInv, Shape
<1>5. \A r \in Receiver : Seen(r)' = Seen(r)
  BY <1>1 DEF Seen
<1>6. Numbered' /\ Subscribed' /\ SeenOnce'
  BY <1>1, <1>5 DEF DeliveryInv, Numbered, Subscribed, SeenOnce
<1>7. OnePublisher'
  BY <1>1, <1>4 DEF DeliveryInv, OnePublisher
<1>8. LeftToSend'
  BY <1>1, <1>3, <1>4 DEF DeliveryInv, LeftToSend
<1>9. NotBefore'
  BY <1>1, <1>4, <1>5 DEF DeliveryInv, NotBefore
<1>10. NothingLost'
  <2> SUFFICES ASSUME NEW r \in Receiver, NEW i \in DOMAIN published,
                      Fresh(published[i]), since[r] < i, published[i].topic = TopicOf[r]
               PROVE  published[i] \in ToSet(Seen(r)) \/ OnItsWay(published[i], r)'
    BY <1>1, <1>5 DEF NothingLost
  <2>1. CASE published[i] \in ToSet(Seen(r))
    BY <2>1
  <2>2. ASSUME NEW q \in Publishing, event[q] = published[i], ppc[q] = "recorded" \/ r \in ToSet(left[q])
        PROVE  OnItsWay(published[i], r)'
    <3>1. CASE q = p
      <4>1. i \in 1 .. Len(published) /\ Len(published) <= MaxPublish /\ Len(published) \in Nat
        BY DEF IInv, Shape, PublishTypes
      <4>2. since[r] <= MaxPublish
        BY <4>1, Bounds DEF SubscribeTypes
      <4>3. r \in ToSet(byTopic[TopicOf[r]])
        BY <4>2 DEF DeliveryInv, Subscribed
      <4>4. r \in ToSet(chans)
        BY <2>2, <3>1, <4>3 DEF chans
      <4> QED
        BY <1>1, <1>4, <2>2, <3>1, <4>4 DEF OnItsWay
    <3>2. CASE q # p
      BY <1>1, <1>4, <2>2, <3>2 DEF OnItsWay
    <3> QED
      BY <3>1, <3>2
  <2> QED
    BY <2>1, <2>2 DEF DeliveryInv, NothingLost, OnItsWay
<1> QED
  BY <1>6, <1>7, <1>8, <1>9, <1>10 DEF DeliveryInv

LEMMA SendDelivers ==
  ASSUME IInv, PublishTypes, SubscribeTypes, DeliveryInv, NEW p \in Publishing, SendNext(p)
  PROVE  DeliveryInv'
<1>1. left[p] # <<>> /\ left[p] \in Seq(Receiver) /\ NoRepeats(left[p])
  BY DEF SendNext, IInv, Shape, DeliveryInv, LeftToSend
<1>2. PICK r \in Receiver : r = Head(left[p])
  BY <1>1, TailSet
<1>3. PICK rest \in Seq(Receiver) : rest = Tail(left[p])
  BY <1>1, TailSet
<1>4. /\ NoRepeats(rest) /\ r \notin ToSet(rest) /\ ToSet(rest) = ToSet(left[p]) \ {r} /\ r \in ToSet(left[p])
  BY <1>1, <1>2, <1>3, TailOnce, TailSet
<1>5. PICK e \in Event : e = event[p]
  BY DEF IInv, Shape
<1>6. /\ queue' = [queue EXCEPT ![r] = Append(@, e)] /\ left' = [left EXCEPT ![p] = rest]
      /\ UNCHANGED <<byTopic, since, published, ppc, event, got>> /\ ppc[p] = "sending"
  BY <1>2, <1>3, <1>5 DEF SendNext
<1>7. left'[p] = rest /\ \A q \in Publishing : q # p => left'[q] = left[q]
  BY <1>6 DEF IInv, Shape
<1>8. Seen(r)' = Append(Seen(r), e) /\ \A s \in Receiver : s # r => Seen(s)' = Seen(s)
  BY <1>5, <1>6, SendSeen DEF IInv, Shape, Seen
<1>9. Fresh(e) => e.topic = TopicOf[r] /\ e \notin ToSet(Seen(r))
  BY <1>4, <1>5, <1>6 DEF DeliveryInv, LeftToSend, NotBefore
<1>10. Seen(r) \in Seq(Event)
  BY SeenEvents
<1>11. ToSet(Seen(r)') = ToSet(Seen(r)) \cup {e}
  BY <1>5, <1>8, <1>10, AppendSet
<1>12. Numbered' /\ Subscribed' /\ OnePublisher'
  BY <1>6 DEF DeliveryInv, Numbered, Subscribed, OnePublisher
<1>13. LeftToSend'
  BY <1>4, <1>6, <1>7 DEF DeliveryInv, LeftToSend
<1>14. NotBefore'
  <2> SUFFICES ASSUME NEW q \in Publishing, NEW s \in Receiver,
                      ppc[q] # "idle", Fresh(event[q]), event[q] \in ToSet(Seen(s)')
               PROVE  ppc[q] = "sending" /\ s \notin ToSet(left'[q])
    BY <1>6 DEF NotBefore
  <2>1. CASE event[q] \in ToSet(Seen(s))
    <3>1. ppc[q] = "sending" /\ s \notin ToSet(left[q])
      BY <2>1 DEF DeliveryInv, NotBefore
    <3> QED
      BY <1>4, <1>7, <3>1
  <2>2. CASE event[q] \notin ToSet(Seen(s))
    <3>1. s = r /\ event[q] = e
      BY <1>8, <1>11, <2>2
    <3>2. q = p
      BY <1>5, <1>6, <3>1 DEF DeliveryInv, OnePublisher
    <3> QED
      BY <1>4, <1>6, <1>7, <3>1, <3>2
  <2> QED
    BY <2>1, <2>2
<1>15. SeenOnce'
  <2> SUFFICES ASSUME NEW s \in Receiver PROVE Once(Seen(s)', TopicOf[s])
    BY DEF SeenOnce
  <2>1. Once(Seen(s), TopicOf[s])
    BY DEF DeliveryInv, SeenOnce
  <2>2. CASE s = r
    BY <1>8, <1>9, <1>10, <2>1, <2>2, AppendOnce
  <2>3. CASE s # r
    BY <1>8, <2>1, <2>3
  <2> QED
    BY <2>2, <2>3
<1>16. NothingLost'
  <2> SUFFICES ASSUME NEW s \in Receiver, NEW i \in DOMAIN published,
                      Fresh(published[i]), since[s] < i, published[i].topic = TopicOf[s]
               PROVE  published[i] \in ToSet(Seen(s)') \/ OnItsWay(published[i], s)'
    BY <1>6 DEF NothingLost
  <2>1. CASE published[i] \in ToSet(Seen(s))
    BY <1>8, <1>11, <2>1
  <2>2. ASSUME NEW q \in Publishing, event[q] = published[i], ppc[q] = "recorded" \/ s \in ToSet(left[q])
        PROVE  published[i] \in ToSet(Seen(s)') \/ OnItsWay(published[i], s)'
    <3>1. CASE q = p /\ s = r
      BY <1>5, <1>11, <2>2, <3>1
    <3>2. CASE q # p \/ s # r
      BY <1>4, <1>6, <1>7, <2>2, <3>2 DEF OnItsWay
    <3> QED
      BY <3>1, <3>2
  <2> QED
    BY <2>1, <2>2 DEF DeliveryInv, NothingLost, OnItsWay
<1> QED
  BY <1>12, <1>13, <1>14, <1>15, <1>16 DEF DeliveryInv

LEMMA ReturnDelivers ==
  ASSUME IInv, DeliveryInv, NEW p \in Publishing, PublishReturns(p)
  PROVE  DeliveryInv'
<1>1. /\ UNCHANGED <<published, queue, got, byTopic, since, left>> /\ left[p] = <<>> /\ ppc[p] = "sending"
      /\ ppc' = [ppc EXCEPT ![p] = "idle"] /\ event' = [event EXCEPT ![p] = NoEvent]
  BY DEF PublishReturns, broker
<1>2. /\ ppc'[p] = "idle"
      /\ \A q \in Publishing : q # p => ppc'[q] = ppc[q] /\ event'[q] = event[q]
  BY <1>1 DEF IInv, Shape
<1>3. ToSet(left[p]) = {}
  BY <1>1 DEF ToSet
<1>4. \A r \in Receiver : Seen(r)' = Seen(r)
  BY <1>1 DEF Seen
<1>5. Numbered' /\ Subscribed' /\ SeenOnce'
  BY <1>1, <1>4 DEF DeliveryInv, Numbered, Subscribed, SeenOnce
<1>6. OnePublisher'
  BY <1>2 DEF DeliveryInv, OnePublisher
<1>7. LeftToSend'
  BY <1>1, <1>2, <1>3 DEF DeliveryInv, LeftToSend
<1>8. NotBefore'
  BY <1>1, <1>2, <1>4 DEF DeliveryInv, NotBefore
<1>9. NothingLost'
  <2> SUFFICES ASSUME NEW r \in Receiver, NEW i \in DOMAIN published, NEW x, x = published[i],
                      Fresh(x), since[r] < i, x.topic = TopicOf[r]
               PROVE  x \in ToSet(Seen(r)) \/ OnItsWay(x, r)'
    BY <1>1, <1>4 DEF NothingLost, OnItsWay
  <2>1. ASSUME NEW q \in Publishing, event[q] = x, ppc[q] = "recorded" \/ r \in ToSet(left[q])
        PROVE  OnItsWay(x, r)'
    <3>1. q # p
      BY <1>1, <1>3, <2>1
    <3> QED
      BY <1>1, <1>2, <2>1, <3>1 DEF OnItsWay
  <2> QED
    BY <2>1 DEF DeliveryInv, NothingLost, OnItsWay
<1> QED
  BY <1>5, <1>6, <1>7, <1>8, <1>9 DEF DeliveryInv

LEMMA SubscribeDelivers ==
  ASSUME IInv, PublishTypes, SubscribeTypes, DeliveryInv, NEW r \in Receiver, Subscribe(r)
  PROVE  DeliveryInv'
<1>1. PICK u \in Topic : u = TopicOf[r]
  BY FakesAssumption DEF Receiver, Topic
<1>2. PICK s \in Seq(Receiver) : s = byTopic[u]
  BY DEF IInv, Shape
<1>3. /\ byTopic' = [byTopic EXCEPT ![u] = Append(s, r)] /\ since' = [since EXCEPT ![r] = Len(published)]
      /\ UNCHANGED <<queue, got, published, ppc, event, left>>
  BY <1>1, <1>2 DEF Subscribe, publishers
<1>4. /\ byTopic'[u] = Append(s, r) /\ \A t \in Topic : t # u => byTopic'[t] = byTopic[t]
      /\ since'[r] = Len(published) /\ \A q \in Receiver : q # r => since'[q] = since[q]
  BY <1>3 DEF IInv, Shape, SubscribeTypes
<1>5. ToSet(Append(s, r)) = ToSet(s) \cup {r}
  BY AppendSet
<1>6. \A q \in Receiver : Seen(q)' = Seen(q)
  BY <1>3 DEF Seen
<1>7. Numbered' /\ SeenOnce' /\ OnePublisher' /\ LeftToSend' /\ NotBefore'
  BY <1>3, <1>6 DEF DeliveryInv, Numbered, SeenOnce, OnePublisher, LeftToSend, NotBefore
<1>8. Subscribed'
  <2>1. ASSUME NEW t \in Topic, NEW q \in ToSet(byTopic'[t]) PROVE TopicOf[q] = t
    <3>1. q \in ToSet(byTopic[t]) \/ (t = u /\ q = r)
      BY <1>2, <1>4, <1>5
    <3> QED
      BY <1>1, <3>1 DEF DeliveryInv, Subscribed
  <2>2. ASSUME NEW q \in Receiver, since'[q] <= MaxPublish PROVE q \in ToSet(byTopic'[TopicOf[q]])
    <3>1. TopicOf[q] \in Topic
      BY FakesAssumption DEF Receiver, Topic
    <3>2. CASE q = r
      BY <1>1, <1>4, <1>5, <3>2
    <3>3. CASE q # r
      <4>1. q \in ToSet(byTopic[TopicOf[q]])
        BY <1>4, <2>2, <3>3 DEF DeliveryInv, Subscribed
      <4> QED
        BY <1>2, <1>4, <1>5, <3>1, <4>1
    <3> QED
      BY <3>2, <3>3
  <2> QED
    BY <2>1, <2>2 DEF Subscribed
<1>9. NothingLost'
  <2> SUFFICES ASSUME NEW q \in Receiver, NEW i \in DOMAIN published, NEW x, x = published[i],
                      Fresh(x), since'[q] < i, x.topic = TopicOf[q]
               PROVE  x \in ToSet(Seen(q)) \/ OnItsWay(x, q)
    BY <1>3, <1>6 DEF NothingLost, OnItsWay
  <2>1. i \in 1 .. Len(published) /\ Len(published) \in Nat
    BY DEF IInv, Shape
  <2>2. q # r
    BY <1>4, <2>1
  <2> QED
    BY <1>4, <2>2 DEF DeliveryInv, NothingLost
<1> QED
  BY <1>7, <1>8, <1>9 DEF DeliveryInv

LEMMA TakeDelivers ==
  ASSUME IInv, DeliveryInv, NEW r \in Receiver, Take(r), UNCHANGED <<byTopic, since, published, publishers>>
  PROVE  DeliveryInv'
<1>1. UNCHANGED <<byTopic, since, published, ppc, event, left>>
  BY DEF publishers
<1>2. /\ queue[r] \in Seq(Event) /\ got[r] \in Seq(Event) /\ queue[r] # <<>>
      /\ queue'[r] = Tail(queue[r]) /\ got'[r] = Append(got[r], Head(queue[r]))
      /\ \A q \in Receiver : q # r => queue'[q] = queue[q] /\ got'[q] = got[q]
  BY DEF Take, IInv, Shape
<1>3. ASSUME NEW q \in Receiver PROVE Seen(q)' = Seen(q)
  <2>1. Append(got[r], Head(queue[r])) \o Tail(queue[r]) = got[r] \o queue[r]
    BY <1>2, TakeSeen
  <2>2. got'[r] \o queue'[r] = got[r] \o queue[r]
    BY <1>2, <2>1
  <2> QED
    BY <1>2, <2>2 DEF Seen
<1> QED
  BY <1>1, <1>3
     DEF DeliveryInv, Numbered, OnePublisher, LeftToSend, NotBefore, Subscribed, SeenOnce, NothingLost, OnItsWay

LEMMA DeliveryInductive ==
  ASSUME IInv, PublishTypes, SubscribeTypes, DeliveryInv, [Next]_vars
  PROVE  DeliveryInv'
<1>1. CASE UNCHANGED <<broker, publishers, got>>
  <2>1. \A q \in Receiver : Seen(q)' = Seen(q)
    BY <1>1 DEF Seen, broker
  <2> QED
    BY <1>1, <2>1
       DEF broker, publishers, DeliveryInv, Numbered, OnePublisher, LeftToSend, NotBefore, Subscribed,
           SeenOnce, NothingLost, OnItsWay
<1>2. ASSUME NEW p \in Publishing, Publish(p) PROVE DeliveryInv'
  BY <1>2, RecordDelivers, CopyDelivers, SendDelivers, ReturnDelivers DEF Publish
<1>3. ASSUME NEW s \in Stream, Receive(s) PROVE DeliveryInv'
  BY <1>3, TakeDelivers DEF Receive, Receiver
<1>4. ASSUME NEW e \in Expecter, Wait(e) PROVE DeliveryInv'
  BY <1>4, TakeDelivers DEF Wait, Receiver
<1>5. \/ UNCHANGED <<broker, publishers, got>>
      \/ \E r \in Receiver : Subscribe(r)
      \/ \E p \in Publishing : Publish(p)
      \/ \E s \in Stream : Receive(s)
      \/ \E e \in Expecter : Wait(e)
  BY DEF Next, Events, Serves, vars, Consume, PutHandled, ConsumeReturns, Cancel, ExpectHandled,
         SetFn, Call, ReadFn, Answer
<1> QED
  BY <1>1, <1>2, <1>3, <1>4, <1>5, SubscribeDelivers

Times(s, e) == Cardinality({k \in DOMAIN s : s[k] = e})

LEMMA TimesOnce ==
  ASSUME NEW s, NEW e, NEW t, Once(s, t), Fresh(e)
  PROVE  /\ e \in ToSet(s) => Times(s, e) = 1 /\ e.topic = t
         /\ e \notin ToSet(s) => Times(s, e) = 0
<1>1. CASE e \in ToSet(s)
  <2>1. PICK k \in DOMAIN s : s[k] = e
    BY <1>1 DEF ToSet
  <2>2. e.topic = t /\ \A j \in DOMAIN s : s[j] = e => j = k
    BY <2>1 DEF Once
  <2>3. {j \in DOMAIN s : s[j] = e} = {k}
    BY <2>1, <2>2
  <2>4. Times(s, e) = 1
    BY <2>3, FS_Singleton DEF Times
  <2> QED
    BY <1>1, <2>2, <2>4
<1>2. CASE e \notin ToSet(s)
  <2>1. {j \in DOMAIN s : s[j] = e} = {}
    BY <1>2 DEF ToSet
  <2>2. Times(s, e) = 0
    BY <2>1, FS_EmptySet DEF Times
  <2> QED
    BY <1>2, <2>2
<1> QED
  BY <1>1, <1>2

(* However publishers, subscribers and receivers interleave, a receiver    *)
(* gets every event of its topic published after it subscribed, once, and  *)
(* nothing of another topic.                                               *)
THEOREM EventsAreDelivered == Spec => []Delivery
<1>1. Init => DeliveryInv
  <2> SUFFICES ASSUME Init PROVE DeliveryInv
    OBVIOUS
  <2>1. \A r \in Receiver : Seen(r) = <<>>
    BY DEF Init, Seen
  <2>2. ToSet(<<>>) = {} /\ DOMAIN published = {}
    BY DEF Init, ToSet
  <2>3. Subscribed
    BY <2>2, Bounds DEF Init, Subscribed
  <2>4. LeftToSend
    BY <2>2 DEF Init, LeftToSend, NoRepeats
  <2>5. SeenOnce
    BY <2>1 DEF SeenOnce, Once
  <2> QED
    BY <2>1, <2>2, <2>3, <2>4, <2>5 DEF Init, DeliveryInv, Numbered, OnePublisher, NotBefore, NothingLost
<1>2. IInv /\ PublishTypes /\ SubscribeTypes /\ DeliveryInv /\ [Next]_vars => DeliveryInv'
  BY DeliveryInductive
<1>3. IInv /\ DeliveryInv => Delivery
  <2> SUFFICES ASSUME IInv, DeliveryInv, NEW r \in Receiver, NEW i \in 1 .. Len(published), Fresh(published[i])
               PROVE  /\ Times(got[r] \o queue[r], published[i]) <= IF published[i].topic = TopicOf[r] THEN 1 ELSE 0
                      /\ since[r] < i /\ published[i].topic = TopicOf[r] /\ ~OnItsWay(published[i], r) =>
                           Times(got[r] \o queue[r], published[i]) = 1
    BY DEF Delivery, Fresh, Times, OnItsWay
  <2>1. PICK e, s : e = published[i] /\ s = got[r] \o queue[r]
    OBVIOUS
  <2>2. i \in DOMAIN published
    BY DEF IInv, Shape
  <2>3. Once(s, TopicOf[r])
    BY <2>1 DEF DeliveryInv, SeenOnce, Seen
  <2>4. since[r] < i /\ e.topic = TopicOf[r] /\ ~OnItsWay(e, r) => e \in ToSet(s)
    BY <2>1, <2>2 DEF DeliveryInv, NothingLost, Seen
  <2>5. /\ Times(s, e) <= IF e.topic = TopicOf[r] THEN 1 ELSE 0
        /\ e \in ToSet(s) => Times(s, e) = 1
    BY <2>1, <2>3, TimesOnce
  <2> QED
    BY <2>1, <2>4, <2>5
<1> QED
  BY <1>1, <1>2, <1>3, Invariant, Typings, PTL DEF Spec

=============================================================================
