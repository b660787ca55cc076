--------------------------- MODULE MCCaseDecision ---------------------------
(* Instances of CaseDecision for TLC.                                      *)
EXTENDS CaseDecision, TLC

Interchangeable ==
  Permutations(Calls) \cup Permutations(Members) \cup Permutations(Decisions)
=============================================================================
