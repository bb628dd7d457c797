--------------------------- MODULE AssessmentPlan ---------------------------
(***************************************************************************)
(* What the engine promises of an assessment, without attempts, executions *)
(* or commands: nodes are activated along edges or by an answer, they are  *)
(* done once what they require is done, and neither is ever taken back.    *)
(***************************************************************************)
EXTENDS AssessmentGraph

CONSTANTS
  Askers,      \* nodes that may ask a human
  ResumeNode   \* the node an answer activates

VARIABLES activated, done
plan == <<activated, done>>

Prepared(n) ==
  IF Join[n] = "any" THEN Requires[n] \cap done # {} ELSE Requires[n] \subseteq done

Init == activated = {} /\ done = {}

\* Nodes that may follow m once it is done.
Follows(m) == Targets(m) \cup (IF m \in Askers THEN {ResumeNode[m]} ELSE {})

Activate(n) ==
  /\ n \notin activated
  /\ n = Entry \/ \E m \in done : n \in Follows(m)
  /\ activated' = activated \cup {n}
  /\ UNCHANGED done

Finish(n) ==
  /\ n \in activated \ done
  /\ Prepared(n)
  /\ done' = done \cup {n}
  /\ UNCHANGED activated

Next == \E n \in Nodes : Activate(n) \/ Finish(n)

Spec == Init /\ [][Next]_plan

=============================================================================
