--------------------------- MODULE CaseAssignment ---------------------------
(***************************************************************************)
(* Who holds a case: its assignment rows and the assignee the case row     *)
(* repeats for listings.  Assigning releases what is active, inserts a row *)
(* and names the assignee on the case, in one READ COMMITTED transaction   *)
(* (assignApplication): the release sees only rows committed when its      *)
(* statement began, waits for rows another transaction has released and    *)
(* looks at them again.  Code: src/src/domains/applications/service.ts.    *)
(*                                                                         *)
(* Operators whose names begin with Mut are slips this code could have     *)
(* made in the definition that follows them; no action uses them.          *)
(***************************************************************************)
EXTENDS Naturals

CONSTANTS
  Calls,      \* concurrent assignApplication requests
  Workers,    \* who may be assigned
  MaxRows,    \* bound on the assignment rows
  None

ASSUME WorkersAssumption == None \notin Workers /\ MaxRows \in Nat

VARIABLES
  rows,      \* committed application_assignments: assignee and status by id
  current,   \* applications.current_assignee_user_id
  call       \* requests: what each has seen and released

vars == <<rows, current, call>>

RowIds == 1 .. MaxRows
NoRow  == [assignee |-> None, status |-> "absent"]
Row    == [assignee : Workers, status : {"active", "released"}]
Idle   == [pc |-> "idle"]
Assigning == [pc : {"release"}, assignee : Workers, seen : SUBSET RowIds]
Inserting == [pc : {"insert"}, assignee : Workers, released : SUBSET RowIds]

TypeOK ==
  /\ rows \in [RowIds -> Row \cup {NoRow}]
  /\ current \in Workers \cup {None}
  /\ call \in [Calls -> {Idle} \cup Assigning \cup Inserting]

Init ==
  /\ rows = [r \in RowIds |-> NoRow]
  /\ current = None
  /\ call = [c \in Calls |-> Idle]

At(c, pc) == call[c].pc = pc
Active == {r \in RowIds : rows[r].status = "active"}

(* The release statement begins: what it will find is fixed.               *)
ReleaseBegin(c, w) ==
  /\ At(c, "idle")
  /\ call' = [call EXCEPT ![c] = [pc |-> "release", assignee |-> w, seen |-> Active]]
  /\ UNCHANGED <<rows, current>>

(* Rows updated by a transaction that has not ended yet.                   *)
LockedRows == UNION {call[c].released : c \in {k \in Calls : At(k, "insert")}}

ReleasedBy(c) == call[c].seen \cap Active

ReleaseRows(c) ==
  /\ At(c, "release")
  /\ call[c].seen \cap LockedRows = {}
  /\ call' = [call EXCEPT ![c] = [pc |-> "insert", assignee |-> call[c].assignee,
                                  released |-> ReleasedBy(c)]]
  /\ UNCHANGED <<rows, current>>

MutKeepCurrent(w) == IF current = None THEN w ELSE current
Named(w) == w

(* The new row, the case's assignee and the released rows appear together. *)
AssignCommit(c, r) ==
  /\ At(c, "insert")
  /\ rows[r] = NoRow /\ \A q \in 1 .. r - 1 : rows[q] # NoRow
  /\ rows' = [q \in RowIds |->
                IF q = r THEN [assignee |-> call[c].assignee, status |-> "active"]
                ELSE IF q \in call[c].released THEN [rows[q] EXCEPT !.status = "released"]
                ELSE rows[q]]
  /\ current' = Named(call[c].assignee)
  /\ call' = [call EXCEPT ![c] = Idle]

Abort(c) ==
  /\ ~At(c, "idle")
  /\ call' = [call EXCEPT ![c] = Idle]
  /\ UNCHANGED <<rows, current>>

Next ==
  \E c \in Calls :
    \/ \E w \in Workers : ReleaseBegin(c, w)
    \/ ReleaseRows(c)
    \/ \E r \in RowIds : AssignCommit(c, r)
    \/ Abort(c)

Spec == Init /\ [][Next]_vars

(* "`currentAssigneeUserId` denormalises the active assignment"            *)
(* (db/schema/applications.ts:35): whoever the case names holds it by an   *)
(* active row, whichever reassignments overlap and whichever fail.         *)
CurrentIsActive ==
  current # None => \E r \in Active : rows[r].assignee = current

(* "assigning someone new releases the prior active assignment"            *)
(* (db/schema/applications.ts:143): one active row at most.                *)
OneActive == \A r, q \in Active : r = q
=============================================================================
