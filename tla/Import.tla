------------------------------- MODULE Import -------------------------------
(***************************************************************************)
(* What the import of a log file promises, whatever goes on inside: the    *)
(* rows of a milestone are all stored before the database says that the    *)
(* milestone is complete, and an import that says it is done has made      *)
(* complete every milestone it was asked for.                              *)
(***************************************************************************)
VARIABLES wanted,     \* the milestones of the file that the import has to store
          stored,     \* those whose rows are all in the database
          complete,   \* those the database says are complete
          outcome     \* "none", "done" or "failed"

vars == <<wanted, stored, complete, outcome>>

\* Something of the file may be there from an earlier import.
Init == stored \subseteq wanted /\ complete \subseteq stored /\ outcome = "none"

\* Two milestones can share the last row that is missing, a hint.
Store(s) == /\ s # {}
            /\ stored' = stored \cup s
            /\ UNCHANGED <<wanted, complete, outcome>>

Complete(m) == /\ m \in stored \ complete
               /\ complete' = complete \cup {m}
               /\ UNCHANGED <<wanted, stored, outcome>>

Finish(o) == /\ outcome = "none"
             /\ o = "done" => complete = wanted
             /\ outcome' = o
             /\ UNCHANGED <<wanted, stored, complete>>

Next == \/ \E s \in SUBSET (wanted \ stored) : Store(s)
        \/ \E m \in wanted : Complete(m)
        \/ \E o \in {"done", "failed"} : Finish(o)

Spec == Init /\ [][Next]_vars

=============================================================================
