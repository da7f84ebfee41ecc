------------------------------- MODULE Fakes --------------------------------
(***************************************************************************)
(* The fakes that the services which use the shop are tested against.      *)
(*                                                                         *)
(*   Broker, Publisher, Subscriber, Stream, Expecter                       *)
(*                               packages/api-shop/apishopfake             *)
(*   Server                      packages/api-shop/apishopserverfake       *)
(*                                                                         *)
(* Goroutines of a test publish, consume streams, wait for single events   *)
(* or call the fake server: the two packages share nothing, so a test of   *)
(* the model uses one of them.  A receiver is a Stream or an Expecter,     *)
(* and names the channel it has from the broker.  A data race on one of the*)
(* server's function fields reads the old value or the new one.            *)
(***************************************************************************)
EXTENDS Http, SequencesExt

CONSTANTS
  Publishing,       (* goroutines that publish                             *)
  Stream, Expecter, (* receivers                                           *)
  TopicOf,          (* receiver -> its topic                               *)
  Given,            (* events as a test fills them in                      *)
  Caller,           (* goroutines that call the fake server                *)
  Answers,          (* what a function field may return: [code, body]      *)
  SubscribeBuffer,  (* defaultSubscribeBuffer, 100                         *)
  HandledBuffer,    (* handledBufferSize, 16                               *)
  MaxPublish,       (* bound on events                                     *)
  MaxSet            (* bound on changes of a function field                *)

ASSUME FakesAssumption ==
  /\ {SubscribeBuffer, HandledBuffer} \subseteq Nat \ {0}
  /\ {MaxPublish, MaxSet} \subseteq Nat
  /\ Given \subseteq [topic : STRING, type : STRING, id : Nat, source : STRING]
  /\ \A e \in Given : e.topic \in {"faction-acquired", "card-pack-purchased", "premium-updated"}
  /\ \A e \in Given : e.id < 100   (* never one that newEventID makes up *)
  /\ TopicOf \in [Stream \cup Expecter -> {"faction-acquired", "card-pack-purchased", "premium-updated"}]

Receiver == Stream \cup Expecter
Topic == {"faction-acquired", "card-pack-purchased", "premium-updated"}
Served == {"products", "purchase", "subscribe"}
NoFn == [code |-> 0, body |-> "none"]

VARIABLES
  package,    (* the package the test uses                                 *)
  byTopic,    (* Topic -> channels, in the order of Subscribe              *)
  queue,      (* receiver -> its channel                                   *)
  since,      (* receiver -> how many events had been published then       *)
  published,  (* the record of the Publisher                               *)
  ppc, event, left,          (* Publish: place, event, channels to go      *)
  spc, handled, cancelled,   (* Stream: place, results, its context        *)
  got,        (* receiver -> events it has taken from its channel          *)
  fn,         (* the function fields of the server                         *)
  cpc, op, read, result,     (* a call: place, operation, field, result    *)
  during,     (* answers that were set at some time during the call        *)
  sets

broker == <<byTopic, queue, since, published>>
publishers == <<ppc, event, left>>
streams == <<spc, handled, cancelled>>
server == <<package, fn, cpc, op, read, result, during, sets>>
vars == <<broker, publishers, streams, got, server>>

-----------------------------------------------------------------------------
(* The events of typed.go.                                                 *)

NoEvent == [topic |-> "none", type |-> "none", id |-> 0, source |-> "none"]

(* newEventID: identities that are made up are 100 and on.                 *)
NewEventID(n) == 100 + n

(* Mutant: every event is filled in like a faction's.                      *)
FillWithoutSource(e, fresh) ==
  [e EXCEPT !.type = e.topic, !.id = IF e.id = 0 THEN fresh ELSE e.id]

(* fill...Defaults: the type is always that of the topic, a missing        *)
(* identity is made up, and premium-updated has a source.                  *)
Fill(e, fresh) ==
  [e EXCEPT !.type = e.topic,
            !.id = IF e.id = 0 THEN fresh ELSE e.id,
            !.source = IF e.topic = "premium-updated" /\ e.source = "none" THEN "shop" ELSE e.source]

TypeOK ==
  /\ byTopic \in [Topic -> Seq(Receiver)]
  /\ \A t \in Topic : \A i, j \in DOMAIN byTopic[t] : byTopic[t][i] = byTopic[t][j] => i = j
  /\ \A r \in Receiver : Len(queue[r]) <= SubscribeBuffer
  /\ \A s \in Stream : Len(handled[s]) <= HandledBuffer
  /\ since \in [Receiver -> 0 .. MaxPublish + 1]
  /\ ppc \in [Publishing -> {"idle", "recorded", "sending"}]
  /\ spc \in [Stream -> {"new", "select", "handled", "returned"}]
  /\ cancelled \in [Stream -> BOOLEAN]
  /\ fn \in [Served -> Answers \cup {NoFn}]
  /\ cpc \in [Caller -> {"idle", "read", "answer"}]
  /\ \A e \in ToSet(published) : e.type = e.topic /\ e.id # 0 /\ (e.topic = "premium-updated" => e.source # "none")

Init ==
  /\ package \in {"apishopfake", "apishopserverfake"}
  /\ byTopic = [t \in Topic |-> <<>>]
  /\ queue = [r \in Receiver |-> <<>>]
  /\ since = [r \in Receiver |-> MaxPublish + 1]
  /\ published = <<>>
  /\ ppc = [p \in Publishing |-> "idle"]
  /\ event = [p \in Publishing |-> NoEvent]
  /\ left = [p \in Publishing |-> <<>>]
  /\ spc = [s \in Stream |-> "new"]
  /\ handled = [s \in Stream |-> <<>>]
  /\ cancelled = [s \in Stream |-> FALSE]
  /\ got = [r \in Receiver |-> <<>>]
  /\ fn = [o \in Served |-> NoFn]
  /\ cpc = [c \in Caller |-> "idle"]
  /\ op = [c \in Caller |-> "products"]
  /\ read = [c \in Caller |-> NoFn]
  /\ result = [c \in Caller |-> "none"]
  /\ during = [c \in Caller |-> {}]
  /\ sets = 0

-----------------------------------------------------------------------------
(* Broker and Publisher.                                                   *)

(* NewStream and Expect... subscribe at once.                              *)
Subscribe(r) ==
  /\ since[r] > MaxPublish
  /\ byTopic' = [byTopic EXCEPT ![TopicOf[r]] = Append(@, r)]
  /\ since' = [since EXCEPT ![r] = Len(published)]
  /\ UNCHANGED <<queue, published, publishers, streams, got, server>>

(* Mutant: what is recorded is the event as it was given.                  *)
RecordAsGiven(p) ==
  /\ ppc[p] = "idle" /\ Len(published) < MaxPublish
  /\ \E e \in Given :
       /\ event' = [event EXCEPT ![p] = Fill(e, NewEventID(Len(published)))]
       /\ published' = Append(published, e)
  /\ ppc' = [ppc EXCEPT ![p] = "recorded"]
  /\ UNCHANGED <<byTopic, queue, since, left, streams, got, server>>

(* Publish...: the defaults, and the record.                               *)
Record(p) ==
  /\ ppc[p] = "idle" /\ Len(published) < MaxPublish
  /\ \E e \in Given : event' = [event EXCEPT ![p] = Fill(e, NewEventID(Len(published)))]
  /\ published' = Append(published, event'[p])
  /\ ppc' = [ppc EXCEPT ![p] = "recorded"]
  /\ UNCHANGED <<byTopic, queue, since, left, streams, got, server>>

(* Mutant: the lock is held until the channels have been sent to.          *)
CopySubsAndHold(p) ==
  /\ ppc[p] = "recorded"
  /\ \A q \in Publishing : ppc[q] # "sending"
  /\ left' = [left EXCEPT ![p] = byTopic[event[p].topic]]
  /\ ppc' = [ppc EXCEPT ![p] = "sending"]
  /\ UNCHANGED <<broker, event, streams, got, server>>

(* Broker.Publish: the channels are copied under the lock, ...             *)
CopySubs(p) ==
  /\ ppc[p] = "recorded"
  /\ left' = [left EXCEPT ![p] = byTopic[event[p].topic]]
  /\ ppc' = [ppc EXCEPT ![p] = "sending"]
  /\ UNCHANGED <<broker, event, streams, got, server>>

(* Mutant: a full channel is skipped.                                      *)
SendNextOrSkip(p) ==
  /\ ppc[p] = "sending" /\ left[p] # <<>>
  /\ queue' = IF Len(queue[Head(left[p])]) < SubscribeBuffer
              THEN [queue EXCEPT ![Head(left[p])] = Append(@, event[p])] ELSE queue
  /\ left' = [left EXCEPT ![p] = Tail(@)]
  /\ UNCHANGED <<byTopic, since, published, ppc, event, streams, got, server>>

(* ... and sent to without it, waiting for room in each.                   *)
SendNext(p) ==
  /\ ppc[p] = "sending" /\ left[p] # <<>>
  /\ Len(queue[Head(left[p])]) < SubscribeBuffer
  /\ queue' = [queue EXCEPT ![Head(left[p])] = Append(@, event[p])]
  /\ left' = [left EXCEPT ![p] = Tail(@)]
  /\ UNCHANGED <<byTopic, since, published, ppc, event, streams, got, server>>

PublishReturns(p) ==
  /\ ppc[p] = "sending" /\ left[p] = <<>>
  /\ ppc' = [ppc EXCEPT ![p] = "idle"]
  /\ event' = [event EXCEPT ![p] = NoEvent]
  /\ UNCHANGED <<broker, left, streams, got, server>>

-----------------------------------------------------------------------------
(* Receivers.                                                              *)

Take(r) ==
  /\ queue[r] # <<>>
  /\ queue' = [queue EXCEPT ![r] = Tail(@)]
  /\ got' = [got EXCEPT ![r] = Append(@, Head(queue[r]))]

(* Consume is called, after NewStream.                                     *)
Consume(s) ==
  /\ spc[s] = "new" /\ since[s] <= MaxPublish
  /\ spc' = [spc EXCEPT ![s] = "select"]
  /\ UNCHANGED <<broker, publishers, handled, cancelled, got, server>>

(* The select: a message, which goes to the handler, or the end.           *)
Receive(s) ==
  /\ spc[s] = "select"
  /\ Take(s)
  /\ spc' = [spc EXCEPT ![s] = "handled"]
  /\ UNCHANGED <<byTopic, since, published, publishers, handled, cancelled, server>>

(* Mutant: the context is looked at when a message has come.               *)
ConsumeReturnsOnMessage(s) ==
  /\ spc[s] = "select" /\ cancelled[s] /\ queue[s] # <<>>
  /\ spc' = [spc EXCEPT ![s] = "returned"]
  /\ UNCHANGED <<broker, publishers, handled, cancelled, got, server>>

ConsumeReturns(s) ==
  /\ spc[s] = "select" /\ cancelled[s]
  /\ spc' = [spc EXCEPT ![s] = "returned"]
  /\ UNCHANGED <<broker, publishers, handled, cancelled, got, server>>

(* The handler's result is sent, whether or not the context has ended.     *)
PutHandled(s) ==
  /\ spc[s] = "handled" /\ Len(handled[s]) < HandledBuffer
  /\ handled' = [handled EXCEPT ![s] = Append(@, Last(got[s]).id)]
  /\ spc' = [spc EXCEPT ![s] = "select"]
  /\ UNCHANGED <<broker, publishers, cancelled, got, server>>

Cancel(s) ==
  /\ ~cancelled[s]
  /\ cancelled' = [cancelled EXCEPT ![s] = TRUE]
  /\ UNCHANGED <<broker, publishers, spc, handled, got, server>>

(* ExpectHandled; with nothing to take it ends the test.                   *)
ExpectHandled(s) ==
  /\ handled[s] # <<>>
  /\ handled' = [handled EXCEPT ![s] = Tail(@)]
  /\ UNCHANGED <<broker, publishers, spc, cancelled, got, server>>

(* An Expecter's Wait; after a timeout nothing has changed.                *)
Wait(e) ==
  /\ Take(e)
  /\ UNCHANGED <<byTopic, since, published, publishers, streams, server>>

-----------------------------------------------------------------------------
(* The fake server.                                                        *)

(* The test sets a function field; calls under way may still see it.       *)
SetFn(o, a) ==
  /\ sets < MaxSet /\ sets' = sets + 1
  /\ fn' = [fn EXCEPT ![o] = a]
  /\ during' = [c \in Caller |-> IF cpc[c] # "idle" /\ op[c] = o THEN during[c] \cup {a} ELSE during[c]]
  /\ UNCHANGED <<package, broker, publishers, streams, got, cpc, op, read, result>>

(* A method of the client is called; the server has routes for three.      *)
Call(c, o) ==
  /\ cpc[c] = "idle"
  /\ IF o \in Served
     THEN /\ cpc' = [cpc EXCEPT ![c] = "read"]
          /\ during' = [during EXCEPT ![c] = {fn[o]}]
          /\ UNCHANGED result
     ELSE /\ result' = [result EXCEPT ![c] = ClientResult(o, 404, "none")]
          /\ UNCHANGED <<cpc, during>>
  /\ op' = [op EXCEPT ![c] = o]
  /\ UNCHANGED <<package, broker, publishers, streams, got, fn, read, sets>>

AnswerFor(a) == IF a = NoFn THEN [code |-> 200, body |-> "json"] ELSE a

(* Mutant: the handler of subscribe is a copy of that of purchase.         *)
ReadFnOfPurchase(c) ==
  /\ cpc[c] = "read"
  /\ read' = [read EXCEPT ![c] = fn[IF op[c] = "subscribe" THEN "purchase" ELSE op[c]]]
  /\ cpc' = [cpc EXCEPT ![c] = "answer"]
  /\ UNCHANGED <<package, broker, publishers, streams, got, fn, op, result, during, sets>>

ReadFn(c) ==
  /\ cpc[c] = "read"
  /\ read' = [read EXCEPT ![c] = fn[op[c]]]
  /\ cpc' = [cpc EXCEPT ![c] = "answer"]
  /\ UNCHANGED <<package, broker, publishers, streams, got, fn, op, result, during, sets>>

Answer(c) ==
  /\ cpc[c] = "answer"
  /\ result' = [result EXCEPT ![c] = ClientResult(op[c], AnswerFor(read[c]).code, AnswerFor(read[c]).body)]
  /\ cpc' = [cpc EXCEPT ![c] = "idle"]
  /\ UNCHANGED <<package, broker, publishers, streams, got, fn, op, read, during, sets>>

-----------------------------------------------------------------------------
Publish(p) == Record(p) \/ CopySubs(p) \/ SendNext(p) \/ PublishReturns(p)

Events ==
  \/ \E r \in Receiver : Subscribe(r)
  \/ \E p \in Publishing : Publish(p)
  \/ \E s \in Stream :
       Consume(s) \/ Receive(s) \/ PutHandled(s) \/ ConsumeReturns(s) \/ Cancel(s) \/ ExpectHandled(s)
  \/ \E e \in Expecter : Wait(e)

Serves ==
  \/ \E o \in Served, a \in Answers : SetFn(o, a)
  \/ \E c \in Caller : (\E o \in Ops : Call(c, o)) \/ ReadFn(c) \/ Answer(c)

Next ==
  \/ package = "apishopfake" /\ Events
  \/ package = "apishopserverfake" /\ Serves

(* A goroutine that can go on does so, and a select with two cases ready   *)
(* takes each of them some time.  The test itself may stop anywhere.       *)
Fairness ==
  /\ \A p \in Publishing : WF_vars(CopySubs(p) \/ SendNext(p) \/ PublishReturns(p))
  /\ \A s \in Stream : WF_vars(Receive(s) \/ PutHandled(s)) /\ SF_vars(ConsumeReturns(s))

Spec == Init /\ [][Next]_vars
FairSpec == Spec /\ Fairness

-----------------------------------------------------------------------------
(***************************************************************************)
(* Properties.                                                             *)
(***************************************************************************)

(* A test that has received an event finds it, as it was sent, in          *)
(* Published().                                                            *)
RecordedFirst ==
  \A r \in Receiver : ToSet(got[r] \o queue[r]) \subseteq ToSet(published)

(* Once Publish has returned, everyone who had subscribed to the topic     *)
(* before it was called has the event, and nobody has it twice or from     *)
(* another topic.                                                          *)
Delivery ==
  \A r \in Receiver, i \in 1 .. Len(published) : published[i].id >= NewEventID(0) =>
    LET e == published[i]
        seen == got[r] \o queue[r]
        times == Cardinality({k \in DOMAIN seen : seen[k] = e})
        onItsWay == \E p \in Publishing : event[p] = e /\ (ppc[p] = "recorded" \/ r \in ToSet(left[p]))
    IN /\ times <= IF e.topic = TopicOf[r] THEN 1 ELSE 0
       /\ since[r] < i /\ e.topic = TopicOf[r] /\ ~onItsWay => times = 1

(* Publish returns unless the very channel it is sending to stays full: a  *)
(* slow subscriber does not stop other publishers on the way.              *)
PublishEnds ==
  \A p \in Publishing :
    []<>(ppc[p] = "idle")
    \/ <>[](left[p] # <<>> /\ Len(queue[Head(left[p])]) = SubscribeBuffer)

(* Consume returns after its context has ended, unless the results are not *)
(* taken and their channel stays full (stream.go:36).                      *)
ConsumeEnds ==
  \A s \in Stream :
    <>[](cancelled[s] /\ spc[s] \in {"select", "handled"}) => <>[](Len(handled[s]) = HandledBuffer)

(* What a call returns is an answer that was set for its operation at some *)
(* time while it was under way.                                            *)
AnswerWasSet ==
  \A c \in Caller : cpc[c] = "idle" /\ op[c] \in Served /\ result[c] # "none" =>
    \E a \in during[c] : result[c] = ClientResult(op[c], AnswerFor(a).code, AnswerFor(a).body)
=============================================================================
