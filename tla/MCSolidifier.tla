---------------------------- MODULE MCSolidifier ----------------------------
(* Milestones of one partition of two: 2 and 6 are their messages, 4 also   *)
(* references a message a4 (m6 -> m4 -> a4).  Where 2 is not among them, m2 *)
(* stands for a message of a milestone elsewhere that a4 and m4 refer to.   *)
EXTENDS Solidifier
CONSTANTS m2, a4, m4, m6
MCMsgs == {m2, a4, m4} \cup IF 6 \in Mine THEN {m6} ELSE {}
MCRef == [m \in MCMsgs |-> IF m = m2 THEN 2 ELSE IF m = m6 THEN 6 ELSE 4]
Elsewhere == IF 2 \in Mine THEN {} ELSE {m2}
MCParents == [m \in MCMsgs |->
  IF m = m2 THEN {} ELSE IF m = a4 THEN Elsewhere ELSE IF m = m4 THEN {a4} \cup Elsewhere ELSE {m4}]
MCMilestoneOf == [i \in Mine |-> IF i = 2 THEN m2 ELSE IF i = 4 THEN m4 ELSE m6]
=============================================================================
