------------------------------ MODULE MCFakes -------------------------------
(* A stream and an expecter of one topic; events of two.                   *)
EXTENDS Fakes

Topics == [r \in Receiver |-> "premium-updated"]

GivenEvents ==
  {[NoEvent EXCEPT !.topic = "faction-acquired", !.id = 7],
   [NoEvent EXCEPT !.topic = "premium-updated", !.type = "wrong"]}

FnAnswers == {[code |-> 409, body |-> "json"], [code |-> 200, body |-> "none"], [code |-> 200, body |-> "other"]}
=============================================================================
