--------------------------- MODULE CaseLifecycle ----------------------------
(***************************************************************************)
(* What a case promises of its record, without handlers, reads or          *)
(* conflicts: it moves along the table one edge at a time, every move is   *)
(* entered in its history, and a proposed decision becomes final, once and *)
(* for good, in the very step that moves the case from committee to        *)
(* decided.                                                                *)
(***************************************************************************)
EXTENDS CaseWorkflow, Sequences

CONSTANTS
  Decisions,
  Outcomes,
  None,
  StartStatuses

VARIABLES
  status,    \* the case's status
  history,   \* the moves entered, each with the decision it records or None
  result     \* of a decision: None, "proposed" or its final outcome

vars == <<status, history, result>>

Init ==
  /\ status \in StartStatuses
  /\ history = <<>>
  /\ result = [d \in Decisions |-> None]

Enter(action, d) ==
  /\ MayMove(action, status)
  /\ status' = Target(action)
  /\ history' = Append(history, [from |-> status, to |-> Target(action), decision |-> d])

Move(action) == Enter(action, None) /\ UNCHANGED result

Propose(d) ==
  /\ result[d] = None
  /\ result' = [result EXCEPT ![d] = "proposed"]
  /\ UNCHANGED <<status, history>>

Decide(d) ==
  /\ result[d] = "proposed"
  /\ \E o \in Outcomes : result' = [result EXCEPT ![d] = o]
  /\ Enter("record_decision", d)

Next ==
  \/ \E action \in CaseActions : Move(action)
  \/ \E d \in Decisions : Propose(d) \/ Decide(d)

Spec == Init /\ [][Next]_vars
=============================================================================
