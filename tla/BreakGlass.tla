----------------------------- MODULE BreakGlass -----------------------------
(***************************************************************************)
(* Break-glass: a platform operator requests emergency read access to one  *)
(* organisation, somebody in that organisation approves or denies it, the  *)
(* operator activates it, approvers are notified, and a review is owed.    *)
(*                                                                         *)
(* Every operation is a request handler that reads a row, decides on what  *)
(* it read and writes later; only the single statement or transaction is   *)
(* atomic, at READ COMMITTED.  A handler may die between any two of its    *)
(* steps.  Code: src/src/domains/break-glass.                              *)
(*                                                                         *)
(* Operators whose names begin with Mut are slips this code could have     *)
(* made in the definition that follows them; no action uses them.          *)
(***************************************************************************)
CONSTANTS
  Grants,          \* rows of break_glass_requests, all of one organisation
  Users,           \* members of the organisation who may approve
  Operators,       \* platform operators
  OperatorCalls,   \* concurrent handlers of an operator's requests
  TenantCalls,     \* concurrent handlers of the organisation's requests
  None             \* a null user column

ASSUME UsersAssumption == None \notin Users \cup Operators

VARIABLES
  status,     \* "absent" before the row is inserted
  requester,  \* requested_by_user_id
  approver,   \* approved_by_user_id
  activated,  \* activated_at and review_due_at, set and cleared together
  notified,   \* tenant_notified_at is set
  reviewer,   \* reviewed_by_user_id, set with reviewed_at
  elapsed,    \* expires_at has passed
  overdue,    \* review_due_at has passed
  told,       \* every approver has the notice of the latest activation
  used,       \* a read context was handed out under the grant
  call        \* request handlers

people == <<requester, approver, reviewer>>
clock  == <<elapsed, overdue>>
vars == <<status, people, activated, notified, clock, told, used, call>>

Statuses   == {"requested", "approved", "denied", "active", "expired", "revoked"}
Terminal   == {"denied", "expired", "revoked"}
Reviewable == {"active", "expired", "revoked"}

Calls == OperatorCalls \cup TenantCalls
Idle  == [pc |-> "idle"]
OperatorPcs == {"update", "notify", "stamp", "rollback", "expire"}
TenantPcs   == {"approve", "deny", "revoke", "review"}
Inserting   == [pc : {"insert"}, user : Operators]
Acting == [pc : OperatorPcs, grant : Grants, user : Operators]
          \cup [pc : TenantPcs, grant : Grants, user : Users]

TypeOK ==
  /\ status \in [Grants -> Statuses \cup {"absent"}]
  /\ requester \in [Grants -> Operators \cup {None}]
  /\ approver \in [Grants -> Users \cup {None}]
  /\ reviewer \in [Grants -> Users \cup {None}]
  /\ activated \in [Grants -> BOOLEAN]
  /\ notified \in [Grants -> BOOLEAN]
  /\ elapsed \in [Grants -> BOOLEAN]
  /\ overdue \in [Grants -> BOOLEAN]
  /\ told \in [Grants -> BOOLEAN]
  /\ used \in [Grants -> BOOLEAN]
  /\ call \in [Calls -> {Idle} \cup Inserting \cup Acting]

Init ==
  /\ status = [g \in Grants |-> "absent"]
  /\ requester = [g \in Grants |-> None]
  /\ approver = [g \in Grants |-> None]
  /\ reviewer = [g \in Grants |-> None]
  /\ activated = [g \in Grants |-> FALSE]
  /\ notified = [g \in Grants |-> FALSE]
  /\ elapsed = [g \in Grants |-> FALSE]
  /\ overdue = [g \in Grants |-> FALSE]
  /\ told = [g \in Grants |-> FALSE]
  /\ used = [g \in Grants |-> FALSE]
  /\ call = [c \in Calls |-> Idle]

At(c, pc) == call[c].pc = pc
Start(c, pc, g, u) ==
  /\ call[c] = Idle
  /\ call' = [call EXCEPT ![c] = [pc |-> pc, grant |-> g, user |-> u]]
Goto(c, pc) == call' = [call EXCEPT ![c].pc = pc]
Return(c)   == call' = [call EXCEPT ![c] = Idle]
RowUnchanged == UNCHANGED <<status, people, activated, notified, clock, told, used>>

-----------------------------------------------------------------------------
(* Time.                                                                   *)

Elapse(g) ==
  /\ status[g] # "absent"
  /\ ~elapsed[g]
  /\ elapsed' = [elapsed EXCEPT ![g] = TRUE]
  /\ UNCHANGED <<status, people, activated, notified, overdue, told, used, call>>

\* Access lasts at most eight hours from the request and a review is due five
\* business days after activation: no request handler lives that long.
FallDue(g) ==
  /\ activated[g] /\ elapsed[g] /\ ~overdue[g]
  /\ \A c \in Calls : call[c] \in Acting => call[c].grant # g
  /\ overdue' = [overdue EXCEPT ![g] = TRUE]
  /\ UNCHANGED <<status, people, activated, notified, elapsed, told, used, call>>

-----------------------------------------------------------------------------
(* The operator: requestBreakGlass, activateBreakGlass.                    *)

\* assertNoOverdueReview
ReviewOverdue(g) == overdue[g] /\ reviewer[g] = None /\ status[g] \in Reviewable

RequestCheck(c, u) ==
  /\ call[c] = Idle
  /\ \A g \in Grants : ~ReviewOverdue(g)
  /\ call' = [call EXCEPT ![c] = [pc |-> "insert", user |-> u]]
  /\ RowUnchanged

\* The row stays if the notices that follow it cannot be sent.
RequestInsert(c, g) ==
  /\ At(c, "insert")
  /\ status[g] = "absent"
  /\ status' = [status EXCEPT ![g] = "requested"]
  /\ requester' = [requester EXCEPT ![g] = call[c].user]
  /\ Return(c)
  /\ UNCHANGED <<approver, reviewer, activated, notified, clock, told, used>>

ActivateRead(c, g, u) ==
  /\ status[g] = "approved" /\ requester[g] = u /\ ~elapsed[g]
  /\ Start(c, "update", g, u)
  /\ RowUnchanged

\* One update guarded by status; a loser of the race gets an error.
ActivateUpdate(c) ==
  LET g == call[c].grant IN
  /\ At(c, "update")
  /\ IF status[g] = "approved"
     THEN /\ status' = [status EXCEPT ![g] = "active"]
          /\ activated' = [activated EXCEPT ![g] = TRUE]
          /\ overdue' = [overdue EXCEPT ![g] = FALSE]
          /\ told' = [told EXCEPT ![g] = FALSE]
          /\ Goto(c, "notify")
     ELSE /\ Return(c)
          /\ UNCHANGED <<status, activated, overdue, told>>
  /\ UNCHANGED <<people, notified, elapsed, used>>

\* One notice per approver: all are stored, or the activation is rolled back.
ActivateNotify(c) ==
  /\ At(c, "notify")
  /\ \/ told' = [told EXCEPT ![call[c].grant] = TRUE] /\ Goto(c, "stamp")
     \/ UNCHANGED told /\ Goto(c, "rollback")
  /\ UNCHANGED <<status, people, activated, notified, clock, used>>

\* The rollback touches a row only while it is active and not yet notified.
MutRollbackAlways(g) == ~notified[g]
MayRollBack(g) == status[g] = "active" /\ ~notified[g]

ActivateRollback(c) ==
  LET g == call[c].grant IN
  /\ At(c, "rollback")
  /\ IF MayRollBack(g)
     THEN /\ status' = [status EXCEPT ![g] = "approved"]
          /\ activated' = [activated EXCEPT ![g] = FALSE]
          /\ overdue' = [overdue EXCEPT ![g] = FALSE]
     ELSE UNCHANGED <<status, activated, overdue>>
  /\ Return(c)
  /\ UNCHANGED <<people, notified, elapsed, told, used>>

\* tenant_notified_at and two audit events commit together, by id.
ActivateStamp(c) ==
  /\ At(c, "stamp")
  /\ notified' = [notified EXCEPT ![call[c].grant] = TRUE]
  /\ Return(c)
  /\ UNCHANGED <<status, people, activated, clock, told, used>>

-----------------------------------------------------------------------------
(* The organisation: approve, deny, revoke, review.                        *)

\* assertDifferentActor
MutSameActor(u, g) == TRUE
DifferentActor(u, g) == u # requester[g]

CanApprove(g) == status[g] = "requested"

ApproveRead(c, g, u) ==
  /\ CanApprove(g) /\ DifferentActor(u, g)
  /\ Start(c, "approve", g, u)
  /\ RowUnchanged

\* approve, deny and revoke update by id: what they read is not checked again.
ApproveCommit(c) ==
  LET g == call[c].grant IN
  /\ At(c, "approve")
  /\ status' = [status EXCEPT ![g] = "approved"]
  /\ approver' = [approver EXCEPT ![g] = call[c].user]
  /\ Return(c)
  /\ UNCHANGED <<requester, reviewer, activated, notified, clock, told, used>>

MutDenyApproved(g) == status[g] \in {"requested", "approved"}
CanDeny(g) == status[g] = "requested"

DenyRead(c, g, u) ==
  /\ CanDeny(g)
  /\ Start(c, "deny", g, u)
  /\ RowUnchanged

DenyCommit(c) ==
  /\ At(c, "deny")
  /\ status' = [status EXCEPT ![call[c].grant] = "denied"]
  /\ Return(c)
  /\ UNCHANGED <<people, activated, notified, clock, told, used>>

CanRevoke(g) == status[g] \in {"approved", "active"}

RevokeRead(c, g, u) ==
  /\ CanRevoke(g)
  /\ Start(c, "revoke", g, u)
  /\ RowUnchanged

RevokeCommit(c) ==
  /\ At(c, "revoke")
  /\ status' = [status EXCEPT ![call[c].grant] = "revoked"]
  /\ Return(c)
  /\ UNCHANGED <<people, activated, notified, clock, told, used>>

ReviewRead(c, g, u) ==
  /\ status[g] \in Reviewable /\ reviewer[g] = None /\ activated[g]
  /\ DifferentActor(u, g)
  /\ Start(c, "review", g, u)
  /\ RowUnchanged

\* The update is guarded: the first of two reviewers files the review.
MutAnyReview(g) == TRUE
Unreviewed(g) == reviewer[g] = None

ReviewCommit(c) ==
  LET g == call[c].grant IN
  /\ At(c, "review")
  /\ reviewer' = [reviewer EXCEPT ![g] = IF Unreviewed(g) THEN call[c].user ELSE @]
  /\ Return(c)
  /\ UNCHANGED <<status, requester, approver, activated, notified, clock, told, used>>

\* expireElapsedInTenant, whenever the organisation lists its grants.
ExpireElapsed ==
  /\ \E g \in Grants : status[g] = "active" /\ elapsed[g]
  /\ status' = [g \in Grants |->
                  IF status[g] = "active" /\ elapsed[g] THEN "expired" ELSE status[g]]
  /\ UNCHANGED <<people, activated, notified, clock, told, used, call>>

-----------------------------------------------------------------------------
(* Using the grant: resolveBreakGlassContext.                              *)

Usable(g) == status[g] = "active" /\ notified[g] /\ ~elapsed[g]

ResolveUse(g) ==
  /\ Usable(g)
  /\ used' = [used EXCEPT ![g] = TRUE]
  /\ UNCHANGED <<status, people, activated, notified, clock, told, call>>

\* An active row past its time is denied, and expired if it is still active.
ResolveElapsed(c, g, u) ==
  /\ status[g] = "active" /\ elapsed[g] /\ requester[g] = u
  /\ Start(c, "expire", g, u)
  /\ RowUnchanged

ResolveExpire(c) ==
  LET g == call[c].grant IN
  /\ At(c, "expire")
  /\ status' = [status EXCEPT ![g] = IF @ = "active" THEN "expired" ELSE @]
  /\ Return(c)
  /\ UNCHANGED <<people, activated, notified, clock, told, used>>

-----------------------------------------------------------------------------
\* A handler dies, or its statement is refused.
Abort(c) ==
  /\ call[c] # Idle
  /\ Return(c)
  /\ RowUnchanged

OperatorNext(c) ==
  \/ \E u \in Operators : RequestCheck(c, u)
  \/ \E g \in Grants : RequestInsert(c, g)
  \/ \E g \in Grants, u \in Operators : ActivateRead(c, g, u) \/ ResolveElapsed(c, g, u)
  \/ ActivateUpdate(c) \/ ActivateNotify(c) \/ ActivateRollback(c) \/ ActivateStamp(c)
  \/ ResolveExpire(c)

TenantNext(c) ==
  \/ \E g \in Grants, u \in Users :
       \/ ApproveRead(c, g, u) \/ DenyRead(c, g, u)
       \/ RevokeRead(c, g, u) \/ ReviewRead(c, g, u)
  \/ ApproveCommit(c) \/ DenyCommit(c) \/ RevokeCommit(c) \/ ReviewCommit(c)

Next ==
  \/ \E g \in Grants : Elapse(g) \/ FallDue(g) \/ ResolveUse(g)
  \/ ExpireElapsed
  \/ \E c \in OperatorCalls : OperatorNext(c)
  \/ \E c \in TenantCalls : TenantNext(c)
  \/ \E c \in Calls : Abort(c)

Spec == Init /\ [][Next]_vars

-----------------------------------------------------------------------------
(* Properties.                                                             *)

\* Nobody reads under a grant they approved themselves, and nobody reviews
\* their own access, however approvals and reviews overlap.
SeparationOfDuties ==
  \A g \in Grants :
    /\ used[g] => approver[g] \notin {None, requester[g]}
    /\ reviewer[g] # None => reviewer[g] # requester[g]

\* A filed review is never replaced by that of a second, concurrent reviewer.
OneReview ==
  [][\A g \in Grants : reviewer[g] # None => reviewer'[g] = reviewer[g]]_vars

\* The context is refused until the approvers hold the notice of the very
\* activation it would be used under, through rollbacks and crashes.
UsableIsNoticed ==
  \A g \in Grants : Usable(g) => told[g]

\* "Every activation needs a human review": access that was used and is not
\* reviewed stays in a state a review can be filed in, with a due date.
UsedOwesReview ==
  \A g \in Grants :
    used[g] /\ reviewer[g] = None => activated[g] /\ status[g] \in Reviewable

\* An activation that fails half way never revives a grant the organisation
\* denied or revoked in the meantime.
KeepsRefusals ==
  \A g \in Grants : status[g] \in {"denied", "revoked"} => status'[g] = status[g]
=============================================================================
