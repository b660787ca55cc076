--------------------------- MODULE AppendOnlyLog ----------------------------
(***************************************************************************)
(* What an audit chain promises its readers: a sequence that only grows at *)
(* its end.  Nothing is inserted, reordered, changed or removed.           *)
(***************************************************************************)
EXTENDS Naturals, Sequences

VARIABLE log

Init == log = <<>>

Grow ==
  /\ Len(log') > Len(log)
  /\ SubSeq(log', 1, Len(log)) = log

Spec == Init /\ [][Grow]_log
=============================================================================
