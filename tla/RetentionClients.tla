-------------------------- MODULE RetentionClients --------------------------
(***************************************************************************)
(* The client behind the cases a sweep anonymises: with the last of them   *)
(* the client's own details go; while another case is live the case only   *)
(* lets go of the client.  The look for other cases takes no lock, so two  *)
(* anonymisations under way at once do not see each other.                 *)
(* Code: anonymiseApplication and tombstoneApplication of                  *)
(* src/src/domains/retention/sweep.ts.                                     *)
(*                                                                         *)
(* Operators whose names begin with Mut are slips this code could have     *)
(* made in the definition that follows them; no action uses them.          *)
(***************************************************************************)
CONSTANTS Cases, Clients, Jobs, None

VARIABLES
  client,   \* applications.client_id
  erased,   \* cases anonymised
  purged,   \* cases tombstoned
  blank,    \* clients whose details are gone
  job       \* anonymisations under way

vars == <<client, erased, purged, blank, job>>

Idle    == [pc |-> "idle"]
Pending == [pc : {"commit"}, id : Cases, others : BOOLEAN]

TypeOK ==
  /\ client \in [Cases -> Clients \cup {None}]
  /\ erased \subseteq Cases /\ purged \subseteq Cases /\ blank \subseteq Clients
  /\ job \in [Jobs -> {Idle} \cup Pending]

Init ==
  /\ client \in [Cases -> Clients]
  /\ erased = {} /\ purged = {} /\ blank = {}
  /\ job = [j \in Jobs |-> Idle]

Others(a) == {b \in Cases \ (erased \cup purged \cup {a}) : client[b] = client[a]}

LookForOthers(j, a) ==
  /\ job[j] = Idle
  /\ a \notin erased \cup purged
  /\ job' = [job EXCEPT ![j] = [pc |-> "commit", id |-> a, others |-> Others(a) # {}]]
  /\ UNCHANGED <<client, erased, purged, blank>>

MutKeepLink(a, others) == client
Detached(a, others) == IF others THEN [client EXCEPT ![a] = None] ELSE client

(* The rows of the case wait for a job that holds them: it was first.      *)
AnonymiseCommit(j) ==
  /\ job[j].pc = "commit"
  /\ LET a == job[j].id IN
     /\ erased' = erased \cup {a}
     /\ client' = Detached(a, job[j].others)
     /\ blank' = IF job[j].others \/ client[a] = None THEN blank ELSE blank \cup {client[a]}
  /\ job' = [job EXCEPT ![j] = Idle]
  /\ UNCHANGED purged

AnonymiseAborts(j) ==
  /\ job[j] # Idle
  /\ job' = [job EXCEPT ![j] = Idle]
  /\ UNCHANGED <<client, erased, purged, blank>>

(* A purge leaves the client as it is.                                     *)
TombstoneCase(a) ==
  /\ a \notin purged
  /\ \A j \in Jobs : job[j].pc = "commit" => job[j].id # a
  /\ purged' = purged \cup {a}
  /\ UNCHANGED <<client, erased, blank, job>>

Next ==
  \/ \E j \in Jobs, a \in Cases : LookForOthers(j, a)
  \/ \E j \in Jobs : AnonymiseCommit(j) \/ AnonymiseAborts(j)
  \/ \E a \in Cases : TombstoneCase(a)

Spec == Init /\ [][Next]_vars

(* A client's details are gone only when no live case names the client.    *)
BlankHasNoCase ==
  \A a \in Cases \ (erased \cup purged) : client[a] \notin blank

(* An anonymised case leads to no client whose details are still there,    *)
(* unless the case was purged too.                                         *)
ErasedLeadsNowhere ==
  \A a \in erased : client[a] = None \/ client[a] \in blank
=============================================================================
