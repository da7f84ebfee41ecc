SPECIFICATION FairSpec
CONSTANTS
  Publishing = {p1, p2}
  Stream = {s1}
  Expecter = {e1}
  Caller = {c1}
  TopicOf <- Topics
  Given <- GivenEvents
  Answers <- FnAnswers
  SubscribeBuffer = 1
  HandledBuffer = 1
  MaxPublish = 3
  MaxSet = 2
INVARIANTS
  TypeOK
  RecordedFirst
  Delivery
  AnswerWasSet
PROPERTIES
  PublishEnds
  ConsumeEnds
CHECK_DEADLOCK FALSE
