---------------------------- MODULE CaseWorkflow ----------------------------
(***************************************************************************)
(* The table of legal case moves: the statuses an action applies from and  *)
(* the status it leads to.  Code: src/src/domains/applications/workflow.ts.*)
(***************************************************************************)
Active == {"draft", "submitted", "intake_review", "awaiting_evidence", "in_review",
           "ready_for_committee", "in_committee"}
CaseStatuses == Active \cup {"decided", "withdrawn", "closed"}

Transitions ==
  [submit              |-> [from |-> {"draft"}, to |-> "submitted"],
   begin_intake        |-> [from |-> {"submitted"}, to |-> "intake_review"],
   request_evidence    |-> [from |-> {"intake_review", "in_review"}, to |-> "awaiting_evidence"],
   provide_evidence    |-> [from |-> {"awaiting_evidence"}, to |-> "in_review"],
   start_review        |-> [from |-> {"intake_review"}, to |-> "in_review"],
   ready_for_committee |-> [from |-> {"in_review"}, to |-> "ready_for_committee"],
   schedule_committee  |-> [from |-> {"ready_for_committee"}, to |-> "in_committee"],
   record_decision     |-> [from |-> {"in_committee"}, to |-> "decided"],
   withdraw            |-> [from |-> Active, to |-> "withdrawn"],
   reopen              |-> [from |-> {"withdrawn", "decided"}, to |-> "intake_review"],
   close               |-> [from |-> {"decided", "withdrawn"}, to |-> "closed"]]

CaseActions == DOMAIN Transitions

MayMove(action, from) == from \in Transitions[action].from
Target(action) == Transitions[action].to
=============================================================================
