-------------------------- MODULE EvidenceLifecycle --------------------------
(***************************************************************************)
(* What the evidence pipeline promises of one file, without buckets,       *)
(* queues or workers: a confirmed upload is judged once, only bytes that   *)
(* passed every check are stored for download, and only while the file is  *)
(* being judged.                                                           *)
(***************************************************************************)
CONSTANTS
  Evidence,   \* the files
  Storable,   \* contents that pass the size, type and malware checks
  NoObject

VARIABLES
  state,      \* the file's status
  stored      \* what a download of it would return

vars == <<state, stored>>

Verdicts == {"clean", "infected", "rejected"}

Init ==
  /\ state = [e \in Evidence |-> "absent"]
  /\ stored = [e \in Evidence |-> NoObject]

Move(e, from, to) ==
  /\ state[e] = from
  /\ state' = [state EXCEPT ![e] = to]

Request(e) == Move(e, "absent", "pending") /\ UNCHANGED stored
Confirm(e) == Move(e, "pending", "quarantined") /\ UNCHANGED stored
Abandon(e) == Move(e, "pending", "rejected") /\ UNCHANGED stored

Store(e) ==
  /\ state[e] = "quarantined"
  /\ \E c \in Storable : stored' = [stored EXCEPT ![e] = c]
  /\ UNCHANGED state

Judge(e, verdict) ==
  /\ Move(e, "quarantined", verdict)
  /\ verdict = "clean" => stored[e] \in Storable
  /\ UNCHANGED stored

Next ==
  \E e \in Evidence :
    \/ Request(e) \/ Confirm(e) \/ Abandon(e) \/ Store(e)
    \/ \E verdict \in Verdicts : Judge(e, verdict)

Spec == Init /\ [][Next]_vars
=============================================================================
