--------------------------- MODULE Platform_proofs --------------------------
(***************************************************************************)
(* What platform operators do with an organisation, for any number of      *)
(* handlers, grants, rows, jobs and for any journal of migrations: asking  *)
(* for access to it, setting it up, sealing its old records and migrating  *)
(* the database for a release.  Each part has an inductive invariant of    *)
(* its own.                                                                *)
(***************************************************************************)
EXTENDS MCPlatform, FiniteSetTheorems, WellFoundedInduction, TLAPS

\* A set of numbers that is not empty has a least one.
LEMMA LeastExists ==
  ASSUME NEW S \in SUBSET Nat, S # {}
  PROVE  \E m \in S : \A k \in S : m <= k
<1> DEFINE R == {ss \in Nat \X Nat : ss[1] < ss[2]}
<1>1. IsWellFoundedOn(R, Nat)
  BY NatLessThanWellFounded DEF OpToRel
<1>2. PICK x \in S : \A y \in S : <<y, x>> \notin R
  <2> HIDE DEF R
  <2> QED BY <1>1, WFMin
<1>3. \A y \in S : ~(y < x)
  BY <1>2
<1> QED BY <1>3

-----------------------------------------------------------------------------
(* Who approves and reviews.  The approval a handler is about to write was *)
(* checked against a requester that can no longer change.                  *)

\* Approved by somebody, and not by the requester.
ByAnother(g) == approver[g] # None /\ approver[g] # requester[g]

\* A row that is not there has no requester to be separated from yet.
AbsentIsBlank ==
  \A g \in Grants : status[g] = "absent" => ~used[g] /\ reviewer[g] = None

\* Every grant that can still be used, or was, has an approver of its own.
LiveByAnother ==
  \A g \in Grants : status[g] \in {"approved", "active"} \/ used[g] => ByAnother(g)

ReviewedByAnother ==
  \A g \in Grants : reviewer[g] # None => reviewer[g] # requester[g]

\* A handler works on a row that exists; an approval or a review in flight is
\* by somebody other than the requester.
CallsAreSeparate ==
  \A c \in Calls : call[c] \in Acting =>
    /\ status[call[c].grant] # "absent"
    /\ call[c].pc \in {"approve", "review"} => call[c].user # requester[call[c].grant]

SeparationHolds == TypeOK /\ AbsentIsBlank /\ LiveByAnother /\ ReviewedByAnother /\ CallsAreSeparate

\* What the program counter says about the rest of a handler's record: at an
\* operator's or the organisation's step it names a row, and who is acting.
LEMMA CallShape ==
  ASSUME TypeOK, NEW c \in Calls
  PROVE  /\ At(c, "insert") => call[c] \in Inserting
         /\ call[c].pc \in OperatorPcs => 
              call[c] \in Acting /\ call[c].grant \in Grants /\ call[c].user \in Operators
         /\ call[c].pc \in TenantPcs =>
              call[c] \in Acting /\ call[c].grant \in Grants /\ call[c].user \in Users
<1>1. call[c] \in {Idle} \cup Inserting \cup Acting
  BY DEF TypeOK
<1>2. CASE call[c] = Idle
  BY <1>2 DEF Idle, At, OperatorPcs, TenantPcs
<1>3. CASE call[c] \in Inserting
  BY <1>3 DEF Inserting, At, OperatorPcs, TenantPcs
<1>4. CASE call[c] \in Acting
  BY <1>4 DEF Acting, At, OperatorPcs, TenantPcs
<1> QED BY <1>1, <1>2, <1>3, <1>4

\* Starting, advancing and ending a handler keeps the handlers well typed.
LEMMA CallTypes ==
  ASSUME TypeOK, NEW c \in Calls
  PROVE  /\ Return(c) => call' \in [Calls -> {Idle} \cup Inserting \cup Acting]
         /\ \A g \in Grants, u \in Operators, pc \in OperatorPcs :
              Start(c, pc, g, u) => call' \in [Calls -> {Idle} \cup Inserting \cup Acting]
         /\ \A g \in Grants, u \in Users, pc \in TenantPcs :
              Start(c, pc, g, u) => call' \in [Calls -> {Idle} \cup Inserting \cup Acting]
         /\ \A pc \in OperatorPcs :
              call[c].pc \in OperatorPcs /\ Goto(c, pc)
                => call' \in [Calls -> {Idle} \cup Inserting \cup Acting]
<1> USE DEF TypeOK
<1>1. Return(c) => call' \in [Calls -> {Idle} \cup Inserting \cup Acting]
  BY DEF Return
<1>2. ASSUME NEW g \in Grants, NEW u \in Operators, NEW pc \in OperatorPcs, Start(c, pc, g, u)
      PROVE  call' \in [Calls -> {Idle} \cup Inserting \cup Acting]
  <2>1. [pc |-> pc, grant |-> g, user |-> u] \in Acting
    BY <1>2 DEF Acting
  <2> QED BY <1>2, <2>1 DEF Start
<1>3. ASSUME NEW g \in Grants, NEW u \in Users, NEW pc \in TenantPcs, Start(c, pc, g, u)
      PROVE  call' \in [Calls -> {Idle} \cup Inserting \cup Acting]
  <2>1. [pc |-> pc, grant |-> g, user |-> u] \in Acting
    BY <1>3 DEF Acting
  <2> QED BY <1>3, <2>1 DEF Start
<1>4. ASSUME NEW pc \in OperatorPcs, call[c].pc \in OperatorPcs, Goto(c, pc)
      PROVE  call' \in [Calls -> {Idle} \cup Inserting \cup Acting]
  <2>1. call[c] \in [pc : OperatorPcs, grant : Grants, user : Operators]
    BY <1>4, CallShape DEF Acting, OperatorPcs, TenantPcs
  <2>2. [call[c] EXCEPT !.pc = pc] \in Acting
    BY <2>1 DEF Acting
  <2> QED BY <1>4, <2>2 DEF Goto
<1> QED BY <1>1, <1>2, <1>3, <1>4

\* The rows keep their types in every step; the handlers do by CallTypes.
LEMMA TypeStep == TypeOK /\ [Next]_vars => TypeOK'
<1> SUFFICES ASSUME TypeOK, [Next]_vars PROVE TypeOK'
  OBVIOUS
<1> USE DEF TypeOK
<1>1. CASE UNCHANGED vars
  BY <1>1 DEF vars, people, clock
<1>2. ASSUME NEW g \in Grants, Elapse(g) \/ FallDue(g) \/ ResolveUse(g)
      PROVE  TypeOK'
  BY <1>2 DEF Elapse, FallDue, ResolveUse, people, clock
<1>3. CASE ExpireElapsed
  BY <1>3 DEF ExpireElapsed, people, clock, Statuses
<1>4. ASSUME NEW c \in OperatorCalls, OperatorNext(c)
      PROVE  TypeOK'
  <2> c \in Calls BY DEF Calls
  <2>1. ASSUME NEW u \in Operators, RequestCheck(c, u)
        PROVE  TypeOK'
    <3>1. [pc |-> "insert", user |-> u] \in Inserting
      BY DEF Inserting
    <3> QED BY <2>1, <3>1 DEF RequestCheck, RowUnchanged, people, clock
  <2>2. ASSUME NEW g \in Grants, RequestInsert(c, g)
        PROVE  TypeOK'
    <3>1. call[c].user \in Operators
      BY <2>2, CallShape DEF RequestInsert, Inserting
    <3>2. call' \in [Calls -> {Idle} \cup Inserting \cup Acting]
      BY <2>2, CallTypes DEF RequestInsert
    <3> QED BY <2>2, <3>1, <3>2 DEF RequestInsert, clock, Statuses
  <2>3. ASSUME NEW g \in Grants, NEW u \in Operators,
               ActivateRead(c, g, u) \/ ResolveElapsed(c, g, u)
        PROVE  TypeOK'
    <3>1. call' \in [Calls -> {Idle} \cup Inserting \cup Acting]
      BY <2>3, CallTypes DEF ActivateRead, ResolveElapsed, OperatorPcs
    <3> QED BY <2>3, <3>1 DEF ActivateRead, ResolveElapsed, RowUnchanged, people, clock
  <2>4. CASE ActivateUpdate(c)
    <3>1. call' \in [Calls -> {Idle} \cup Inserting \cup Acting]
      BY <2>4, CallTypes DEF ActivateUpdate, At, OperatorPcs
    <3>2. UNCHANGED <<requester, approver, reviewer, notified, elapsed, used>>
      BY <2>4 DEF ActivateUpdate, people
    <3>3. /\ status' \in [Grants -> Statuses \cup {"absent"}]
          /\ activated' \in [Grants -> BOOLEAN]
          /\ overdue' \in [Grants -> BOOLEAN]
          /\ told' \in [Grants -> BOOLEAN]
      BY <2>4 DEF ActivateUpdate, Statuses
    <3> QED BY <3>1, <3>2, <3>3
  <2>5. CASE ActivateNotify(c)
    <3>1. call' \in [Calls -> {Idle} \cup Inserting \cup Acting]
      BY <2>5, CallTypes DEF ActivateNotify, At, OperatorPcs
    <3> QED BY <2>5, <3>1 DEF ActivateNotify, people, clock
  <2>6. CASE ActivateRollback(c)
    <3>1. call' \in [Calls -> {Idle} \cup Inserting \cup Acting]
      BY <2>6, CallTypes DEF ActivateRollback
    <3>2. UNCHANGED <<requester, approver, reviewer, notified, elapsed, told, used>>
      BY <2>6 DEF ActivateRollback, people
    <3>3. /\ status' \in [Grants -> Statuses \cup {"absent"}]
          /\ activated' \in [Grants -> BOOLEAN]
          /\ overdue' \in [Grants -> BOOLEAN]
      BY <2>6 DEF ActivateRollback, Statuses
    <3> QED BY <3>1, <3>2, <3>3
  <2>7. CASE ActivateStamp(c)
    BY <2>7, CallTypes DEF ActivateStamp, people, clock
  <2>8. CASE ResolveExpire(c)
    <3>1. call' \in [Calls -> {Idle} \cup Inserting \cup Acting]
      BY <2>8, CallTypes DEF ResolveExpire
    <3> QED BY <2>8, <3>1 DEF ResolveExpire, people, clock, Statuses
  <2> QED BY <1>4, <2>1, <2>2, <2>3, <2>4, <2>5, <2>6, <2>7, <2>8 DEF OperatorNext
<1>5. ASSUME NEW c \in TenantCalls, TenantNext(c)
      PROVE  TypeOK'
  <2> c \in Calls BY DEF Calls
  <2>1. ASSUME NEW g \in Grants, NEW u \in Users,
               \/ ApproveRead(c, g, u) \/ DenyRead(c, g, u)
               \/ RevokeRead(c, g, u) \/ ReviewRead(c, g, u)
        PROVE  TypeOK'
    <3>1. call' \in [Calls -> {Idle} \cup Inserting \cup Acting]
      BY <2>1, CallTypes DEF ApproveRead, DenyRead, RevokeRead, ReviewRead, TenantPcs
    <3> QED BY <2>1, <3>1
            DEF ApproveRead, DenyRead, RevokeRead, ReviewRead, RowUnchanged, people, clock
  <2>2. ASSUME ApproveCommit(c) \/ DenyCommit(c) \/ RevokeCommit(c) \/ ReviewCommit(c)
        PROVE  TypeOK'
    <3>1. call' \in [Calls -> {Idle} \cup Inserting \cup Acting]
      BY <2>2, CallTypes DEF ApproveCommit, DenyCommit, RevokeCommit, ReviewCommit
    <3>2. At(c, "approve") \/ At(c, "review") => call[c].user \in Users
      BY CallShape DEF At, TenantPcs
    <3>3. UNCHANGED <<requester, activated, notified, elapsed, overdue, told, used>>
      BY <2>2 DEF ApproveCommit, DenyCommit, RevokeCommit, ReviewCommit, people, clock
    <3>4. status' \in [Grants -> Statuses \cup {"absent"}]
      BY <2>2 DEF ApproveCommit, DenyCommit, RevokeCommit, ReviewCommit, Statuses
    <3>5. approver' \in [Grants -> Users \cup {None}] /\ reviewer' \in [Grants -> Users \cup {None}]
      BY <2>2, <3>2 DEF ApproveCommit, DenyCommit, RevokeCommit, ReviewCommit, people
    <3> QED BY <3>1, <3>3, <3>4, <3>5
  <2> QED BY <1>5, <2>1, <2>2 DEF TenantNext
<1>6. ASSUME NEW c \in Calls, Abort(c)
      PROVE  TypeOK'
  BY <1>6, CallTypes DEF Abort, RowUnchanged, people, clock
<1> QED BY <1>1, <1>2, <1>3, <1>4, <1>5, <1>6 DEF Next

\* Type correctness of break-glass rows and handlers.
THEOREM AccessTypeCorrect == Spec => []TypeOK
<1>1. Init => TypeOK
  BY DEF Init, TypeOK
<1> QED BY <1>1, TypeStep, PTL DEF Spec

-----------------------------------------------------------------------------
\* A row that exists stays, and its requester with it.
RowsKept ==
  \A g \in Grants :
    status[g] # "absent" => status'[g] # "absent" /\ requester'[g] = requester[g]

\* What a step may do with a handler: nothing, end it, start it on an existing
\* row (by another user, for an approval or a review), or advance an operator's.
CallMoves(c) ==
  \/ UNCHANGED call
  \/ Return(c)
  \/ \E u \in Operators :
       call[c] = Idle /\ call' = [call EXCEPT ![c] = [pc |-> "insert", user |-> u]]
  \/ \E g \in Grants, u \in Users \cup Operators, pc \in OperatorPcs \cup TenantPcs :
       /\ Start(c, pc, g, u)
       /\ status[g] # "absent"
       /\ pc \in {"approve", "review"} => u # requester[g]
  \/ \E pc \in OperatorPcs : call[c].pc \in OperatorPcs /\ Goto(c, pc)

\* Such a step keeps every handler separate from the requester of its row.
LEMMA CallsStep ==
  ASSUME TypeOK, CallsAreSeparate, RowsKept, NEW c \in Calls, CallMoves(c)
  PROVE  CallsAreSeparate'
<1> SUFFICES ASSUME NEW d \in Calls, call'[d] \in Acting
             PROVE  /\ status'[call'[d].grant] # "absent"
                    /\ call'[d].pc \in {"approve", "review"}
                         => call'[d].user # requester'[call'[d].grant]
  BY DEF CallsAreSeparate
<1>0. call \in [Calls -> {Idle} \cup Inserting \cup Acting]
  BY DEF TypeOK
<1>1. Idle \notin Acting /\ \A u \in Operators : [pc |-> "insert", user |-> u] \notin Acting
  BY DEF Idle, Acting, OperatorPcs, TenantPcs
<1>2. CASE call'[d] = call[d]
  <2>1. call[d].grant \in Grants
    BY <1>2 DEF Acting
  <2> QED BY <1>2, <2>1 DEF CallsAreSeparate, RowsKept
<1>3. CASE call'[d] # call[d]
  <2>0. d = c
    BY <1>0, <1>3 DEF CallMoves, Return, Start, Goto
  <2>1. CASE Return(c)
    BY <1>0, <1>1, <2>0, <2>1 DEF Return
  <2>2. CASE \E u \in Operators :
               call[c] = Idle /\ call' = [call EXCEPT ![c] = [pc |-> "insert", user |-> u]]
    BY <1>0, <1>1, <2>0, <2>2
  <2>3. ASSUME NEW g \in Grants, NEW u \in Users \cup Operators,
               NEW pc \in OperatorPcs \cup TenantPcs,
               Start(c, pc, g, u), status[g] # "absent",
               pc \in {"approve", "review"} => u # requester[g]
        PROVE  /\ status'[call'[d].grant] # "absent"
               /\ call'[d].pc \in {"approve", "review"}
                    => call'[d].user # requester'[call'[d].grant]
    <3>1. call'[d] = [pc |-> pc, grant |-> g, user |-> u]
      BY <1>0, <2>0, <2>3 DEF Start
    <3> QED BY <2>3, <3>1 DEF RowsKept
  <2>4. ASSUME NEW pc \in OperatorPcs, call[c].pc \in OperatorPcs, Goto(c, pc)
        PROVE  /\ status'[call'[d].grant] # "absent"
               /\ call'[d].pc \in {"approve", "review"}
                    => call'[d].user # requester'[call'[d].grant]
    <3>1. call[c] \in Acting /\ call[c].grant \in Grants
      BY <2>4, CallShape
    <3>2. call'[d].pc = pc /\ call'[d].grant = call[c].grant
      BY <1>0, <2>0, <2>4, <3>1 DEF Goto, Acting
    <3>3. pc \notin {"approve", "review"}
      BY <2>4 DEF OperatorPcs
    <3> QED BY <3>1, <3>2, <3>3 DEF CallsAreSeparate, RowsKept
  <2> QED BY <1>3, <2>1, <2>2, <2>3, <2>4 DEF CallMoves
<1> QED BY <1>2, <1>3

\* The invariant on the rows carries over a step that keeps who requested,
\* approved and reviewed, makes nothing absent, and lets a grant live or be
\* used only where that was so before.
RowsStep ==
  /\ UNCHANGED people
  /\ \A g \in Grants :
       /\ status'[g] = "absent" <=> status[g] = "absent"
       /\ status'[g] \in {"approved", "active"} => status[g] \in {"approved", "active"}
       /\ used'[g] => used[g] \/ status[g] = "active"

\* As RowsStep says.
LEMMA RowsSafe ==
  ASSUME TypeOK, AbsentIsBlank, LiveByAnother, ReviewedByAnother, RowsStep
  PROVE  RowsKept /\ AbsentIsBlank' /\ LiveByAnother' /\ ReviewedByAnother'
BY DEF RowsStep, RowsKept, AbsentIsBlank, LiveByAnother, ReviewedByAnother, ByAnother, people

\* Every action but the three that write a user column is a RowsStep.
LEMMA QuietSteps ==
  ASSUME TypeOK, NEW c \in Calls
  PROVE  /\ ActivateUpdate(c) \/ ActivateRollback(c) => RowsStep /\ CallMoves(c)
         /\ ActivateNotify(c) \/ ActivateStamp(c) \/ ResolveExpire(c) => RowsStep /\ CallMoves(c)
         /\ CallsAreSeparate /\ (DenyCommit(c) \/ RevokeCommit(c)) => RowsStep /\ CallMoves(c)
         /\ Abort(c) => RowsStep /\ CallMoves(c)
<1>1. ASSUME ActivateUpdate(c) \/ ActivateRollback(c)
      PROVE  RowsStep /\ CallMoves(c)
  <2>1. call[c].grant \in Grants /\ (At(c, "update") => call[c].pc \in OperatorPcs)
    BY <1>1, CallShape DEF ActivateUpdate, ActivateRollback, At, OperatorPcs
  <2>2. RowsStep
    BY <1>1, <2>1 DEF ActivateUpdate, ActivateRollback, MayRollBack, RowsStep, TypeOK
  <2>3. CallMoves(c)
    BY <1>1, <2>1 DEF ActivateUpdate, ActivateRollback, CallMoves, OperatorPcs
  <2> QED BY <2>2, <2>3
<1>2. ASSUME ActivateNotify(c) \/ ActivateStamp(c) \/ ResolveExpire(c)
      PROVE  RowsStep /\ CallMoves(c)
  <2>1. call[c].grant \in Grants /\ call[c].pc \in OperatorPcs
    BY <1>2, CallShape DEF ActivateNotify, ActivateStamp, ResolveExpire, At, OperatorPcs
  <2>2. RowsStep
    <3>1. CASE ActivateNotify(c) \/ ActivateStamp(c)
      BY <3>1 DEF ActivateNotify, ActivateStamp, RowsStep
    <3>2. CASE ResolveExpire(c)
      BY <2>1, <3>2 DEF ResolveExpire, RowsStep, TypeOK
    <3> QED BY <1>2, <3>1, <3>2
  <2>3. CallMoves(c)
    BY <1>2, <2>1 DEF ActivateNotify, ActivateStamp, ResolveExpire, CallMoves, OperatorPcs
  <2> QED BY <2>2, <2>3
<1>3. ASSUME DenyCommit(c) \/ RevokeCommit(c), CallsAreSeparate
      PROVE  RowsStep /\ CallMoves(c)
  <2>1. call[c] \in Acting /\ call[c].grant \in Grants
    BY <1>3, CallShape DEF DenyCommit, RevokeCommit, At, TenantPcs
  <2>2. status[call[c].grant] # "absent"
    BY <2>1, <1>3 DEF CallsAreSeparate
  <2>3. RowsStep
    BY <1>3, <2>1, <2>2 DEF DenyCommit, RevokeCommit, RowsStep, TypeOK
  <2> QED BY <1>3, <2>3 DEF DenyCommit, RevokeCommit, CallMoves
<1>4. ASSUME Abort(c)
      PROVE  RowsStep /\ CallMoves(c)
  BY <1>4 DEF Abort, RowUnchanged, RowsStep, CallMoves
<1> QED BY <1>1, <1>2, <1>3, <1>4

\* Handlers only start on rows that exist, and approvals and reviews only by
\* another user; reading changes no row.
LEMMA ReadSteps ==
  ASSUME TypeOK, NEW c \in Calls, NEW g \in Grants, NEW u
  PROVE  /\ u \in Operators /\ RequestCheck(c, u) => RowsStep /\ CallMoves(c)
         /\ u \in Operators /\ (ActivateRead(c, g, u) \/ ResolveElapsed(c, g, u))
              => RowsStep /\ CallMoves(c)
         /\ u \in Users /\ ( \/ ApproveRead(c, g, u) \/ DenyRead(c, g, u)
                            \/ RevokeRead(c, g, u) \/ ReviewRead(c, g, u))
              => RowsStep /\ CallMoves(c)
<1>0. RowUnchanged => RowsStep
  BY DEF RowUnchanged, RowsStep
<1>1. ASSUME u \in Operators, RequestCheck(c, u)
      PROVE  RowsStep /\ CallMoves(c)
  BY <1>0, <1>1 DEF RequestCheck, CallMoves
<1>2. ASSUME u \in Operators, ActivateRead(c, g, u) \/ ResolveElapsed(c, g, u)
      PROVE  RowsStep /\ CallMoves(c)
  <2>1. /\ Start(c, "update", g, u) \/ Start(c, "expire", g, u)
        /\ status[g] # "absent" /\ RowUnchanged
    BY <1>2 DEF ActivateRead, ResolveElapsed
  <2>2. "update" \in OperatorPcs /\ "expire" \in OperatorPcs
    BY DEF OperatorPcs
  <2> QED BY <1>0, <1>2, <2>1, <2>2 DEF CallMoves
<1>3. ASSUME u \in Users, \/ ApproveRead(c, g, u) \/ DenyRead(c, g, u)
                          \/ RevokeRead(c, g, u) \/ ReviewRead(c, g, u)
      PROVE  RowsStep /\ CallMoves(c)
  <2>1. /\ status[g] # "absent" /\ RowUnchanged
        /\ \/ u # requester[g] /\ (Start(c, "approve", g, u) \/ Start(c, "review", g, u))
           \/ Start(c, "deny", g, u) \/ Start(c, "revoke", g, u)
    BY <1>3 DEF ApproveRead, DenyRead, RevokeRead, ReviewRead, CanApprove, CanDeny,
                CanRevoke, Reviewable, DifferentActor
  <2>2. TenantPcs = {"approve", "deny", "revoke", "review"}
    BY DEF TenantPcs
  <2> QED BY <1>0, <1>3, <2>1, <2>2 DEF CallMoves
<1> QED BY <1>1, <1>2, <1>3

\* The invariant is inductive: the three actions that write who requested,
\* approved or reviewed a grant are the ones with a proof of their own.
LEMMA SeparationStep == SeparationHolds /\ [Next]_vars => SeparationHolds'
<1> SUFFICES ASSUME SeparationHolds, [Next]_vars PROVE SeparationHolds'
  OBVIOUS
<1>t. TypeOK /\ TypeOK'
  BY TypeStep DEF SeparationHolds
<1>q. ASSUME NEW c \in Calls, RowsStep, CallMoves(c)
      PROVE  SeparationHolds'
  BY <1>t, <1>q, RowsSafe, CallsStep DEF SeparationHolds
<1>r. ASSUME NEW c \in Calls, Return(c), RowsKept
      PROVE  CallsAreSeparate'
  BY <1>t, <1>r, CallsStep DEF SeparationHolds, CallMoves
<1>1. CASE UNCHANGED vars
  BY <1>1 DEF vars, people, clock, SeparationHolds, TypeOK, AbsentIsBlank, LiveByAnother,
              ReviewedByAnother, CallsAreSeparate, ByAnother
<1>2. CASE \E g \in Grants : Elapse(g) \/ FallDue(g) \/ ResolveUse(g)
  <2>1. RowsStep
    BY <1>2, <1>t DEF Elapse, FallDue, ResolveUse, Usable, RowsStep, TypeOK
  <2>2. UNCHANGED call
    BY <1>2 DEF Elapse, FallDue, ResolveUse
  <2>3. RowsKept
    BY <1>t, <2>1, RowsSafe DEF SeparationHolds
  <2>4. CallsAreSeparate'
    BY <1>t, <2>2, <2>3, CallShape DEF SeparationHolds, CallsAreSeparate, RowsKept, TypeOK, Acting
  <2> QED BY <1>t, <2>1, <2>4, RowsSafe DEF SeparationHolds
<1>3. CASE ExpireElapsed
  <2>1. RowsStep /\ UNCHANGED call
    BY <1>3 DEF ExpireElapsed, RowsStep
  <2>2. RowsKept
    BY <1>t, <2>1, RowsSafe DEF SeparationHolds
  <2>3. CallsAreSeparate'
    BY <1>t, <2>1, <2>2 DEF SeparationHolds, CallsAreSeparate, RowsKept, TypeOK, Acting
  <2> QED BY <1>t, <2>1, <2>3, RowsSafe DEF SeparationHolds
<1>4. ASSUME NEW c \in OperatorCalls, OperatorNext(c)
      PROVE  SeparationHolds'
  <2> c \in Calls BY DEF Calls
  <2>1. ASSUME NEW g \in Grants, RequestInsert(c, g)
        PROVE  SeparationHolds'
    <3>1. /\ status[g] = "absent" /\ Return(c)
          /\ status' = [status EXCEPT ![g] = "requested"]
          /\ requester' = [requester EXCEPT ![g] = call[c].user]
          /\ UNCHANGED <<approver, reviewer, used>>
      BY <2>1 DEF RequestInsert
    <3>2. RowsKept
      BY <1>t, <3>1 DEF RowsKept, TypeOK
    <3>3. ~used[g] /\ reviewer[g] = None
      BY <3>1 DEF SeparationHolds, AbsentIsBlank
    <3>4. AbsentIsBlank' /\ LiveByAnother' /\ ReviewedByAnother'
      BY <1>t, <3>1, <3>3
         DEF SeparationHolds, TypeOK, AbsentIsBlank, LiveByAnother, ReviewedByAnother, ByAnother
    <3> QED BY <1>t, <1>r, <3>1, <3>2, <3>4 DEF SeparationHolds
  <2>2. CASE \E u \in Operators : RequestCheck(c, u)
    <3>1. CASE Grants = {}
      BY <1>t, <3>1 DEF SeparationHolds, AbsentIsBlank, LiveByAnother, ReviewedByAnother,
                        CallsAreSeparate, Acting
    <3>2. CASE Grants # {}
      BY <1>t, <1>q, <2>2, <3>2, ReadSteps
    <3> QED BY <3>1, <3>2
  <2>3. CASE \E g \in Grants, u \in Operators : ActivateRead(c, g, u) \/ ResolveElapsed(c, g, u)
    BY <1>t, <1>q, <2>3, ReadSteps
  <2>4. CASE \/ ActivateUpdate(c) \/ ActivateNotify(c) \/ ActivateRollback(c)
             \/ ActivateStamp(c) \/ ResolveExpire(c)
    BY <1>t, <1>q, <2>4, QuietSteps
  <2> QED BY <1>4, <2>1, <2>2, <2>3, <2>4 DEF OperatorNext
<1>5. ASSUME NEW c \in TenantCalls, TenantNext(c)
      PROVE  SeparationHolds'
  <2> c \in Calls BY DEF Calls
  <2>1. CASE \E g \in Grants, u \in Users :
               \/ ApproveRead(c, g, u) \/ DenyRead(c, g, u)
               \/ RevokeRead(c, g, u) \/ ReviewRead(c, g, u)
    BY <1>t, <1>q, <2>1, ReadSteps
  <2>2. CASE DenyCommit(c) \/ RevokeCommit(c)
    BY <1>t, <1>q, <2>2, QuietSteps DEF SeparationHolds
  <2>3. ASSUME ApproveCommit(c) \/ ReviewCommit(c)
        PROVE  SeparationHolds'
    <3> DEFINE g == call[c].grant
    <3>1. /\ call[c] \in Acting /\ g \in Grants /\ call[c].user \in Users
          /\ call[c].pc \in {"approve", "review"}
      BY <1>t, <2>3, CallShape DEF ApproveCommit, ReviewCommit, At, TenantPcs
    <3>2. status[g] # "absent" /\ call[c].user # requester[g] /\ call[c].user # None
      BY <3>1, UsersAssumption DEF SeparationHolds, CallsAreSeparate
    <3>3. Return(c) /\ UNCHANGED <<requester, used>>
      BY <2>3 DEF ApproveCommit, ReviewCommit
    <3>4. CASE ApproveCommit(c)
      <4>1. /\ status' = [status EXCEPT ![g] = "approved"]
            /\ approver' = [approver EXCEPT ![g] = call[c].user]
            /\ UNCHANGED reviewer
        BY <3>4 DEF ApproveCommit
      <4>2. RowsKept /\ AbsentIsBlank' /\ LiveByAnother' /\ ReviewedByAnother'
        BY <1>t, <3>1, <3>2, <3>3, <4>1 DEF SeparationHolds, TypeOK, RowsKept, AbsentIsBlank,
           LiveByAnother, ReviewedByAnother, ByAnother
      <4> QED BY <1>t, <1>r, <3>3, <4>2 DEF SeparationHolds
    <3>5. CASE ReviewCommit(c)
      <4>1. /\ reviewer' = [reviewer EXCEPT ![g] = IF Unreviewed(g) THEN call[c].user ELSE @]
            /\ UNCHANGED <<status, approver>>
        BY <3>5 DEF ReviewCommit
      <4>2. RowsKept /\ AbsentIsBlank' /\ LiveByAnother' /\ ReviewedByAnother'
        BY <1>t, <3>1, <3>2, <3>3, <4>1 DEF SeparationHolds, TypeOK, RowsKept, AbsentIsBlank,
           LiveByAnother, ReviewedByAnother, ByAnother
      <4> QED BY <1>t, <1>r, <3>3, <4>2 DEF SeparationHolds
    <3> QED BY <2>3, <3>4, <3>5
  <2> QED BY <1>5, <2>1, <2>2, <2>3 DEF TenantNext
<1>6. ASSUME NEW c \in Calls, Abort(c)
      PROVE  SeparationHolds'
  BY <1>t, <1>q, <1>6, QuietSteps
<1> QED BY <1>1, <1>2, <1>3, <1>4, <1>5, <1>6 DEF Next

\* Whatever overlaps and whatever dies, access is approved, and reviewed, by
\* somebody other than the operator who had it.
THEOREM AccessIsSeparated == Spec => []SeparationOfDuties
<1>1. Init => SeparationHolds
  BY DEF Init, SeparationHolds, TypeOK, AbsentIsBlank, LiveByAnother, ReviewedByAnother,
         CallsAreSeparate, Idle, Acting, OperatorPcs, TenantPcs
<1>2. SeparationHolds => SeparationOfDuties
  BY DEF SeparationHolds, LiveByAnother, ReviewedByAnother, ByAnother, SeparationOfDuties
<1> QED BY <1>1, <1>2, SeparationStep, PTL DEF Spec

\* A review once filed stays, whichever handlers race to file another.
THEOREM ReviewsAreFinal == Spec => OneReview
<1> DEFINE Kept == \A g \in Grants : reviewer[g] # None => reviewer'[g] = reviewer[g]
<1>1. TypeOK /\ [Next]_vars => [Kept]_vars
  <2> SUFFICES ASSUME TypeOK, Next PROVE Kept
    OBVIOUS
  <2>1. ASSUME NEW c \in Calls, ReviewCommit(c)
        PROVE  Kept
    BY <2>1 DEF ReviewCommit, Unreviewed, TypeOK
  <2>2. \/ UNCHANGED reviewer
        \/ \E c \in Calls : ReviewCommit(c)
    BY DEF Next, OperatorNext, TenantNext, Calls, Elapse, FallDue, ResolveUse, ExpireElapsed,
           RequestCheck, RequestInsert, ActivateRead, ResolveElapsed, ActivateUpdate,
           ActivateNotify, ActivateRollback, ActivateStamp, ResolveExpire, ApproveRead,
           DenyRead, RevokeRead, ReviewRead, ApproveCommit, DenyCommit, RevokeCommit,
           Abort, RowUnchanged, people
  <2> QED BY <2>1, <2>2
<1> QED BY <1>1, AccessTypeCorrect, PTL DEF Spec, OneReview

-----------------------------------------------------------------------------
(* Setting up.                                                             *)

BeforeProvision == standing = "none" => invitation.state = "none" /\ invitation.token = 0

\* What the operator's command was told of the agreement stays so.
LoadedAgreed == \A c \in Requests : request[c].pc = "key" /\ request[c].seen.agreed => agreed

\* While a handler is alone, what it read of the checklist is still so, and no
\* newer link was made than the one it mails.
Fresh(c) ==
  /\ request[c].pc = "key" => request[c].seen.ready = ready
  /\ request[c].pc = "activate" => ready = Items
  /\ request[c].pc = "mail" => request[c].token = invitation.token

\* The last link was mailed or is about to be.
LinkUnderWay ==
  lost = 0 /\ invitation.state = "pending" =>
    \/ inbox = invitation.token
    \/ \E c \in Requests : request[c].pc = "mail" /\ request[c].token = invitation.token

SetUpHolds ==
  /\ SetUp!TypeOK /\ SetUp!AgreedFirst /\ SetUp!LinksStand /\ BeforeProvision /\ LoadedAgreed
  /\ ~overlapped => ~Overlap /\ LinkUnderWay /\ \A c \in Requests : Fresh(c)

-----------------------------------------------------------------------------
(* Access.                                                                 *)

Announcing == {"notify", "stamp", "rollback"}

\* A handler announces an activation that stands or was ended.
Announces(c) ==
  call[c].pc \in Announcing =>
    LET g == call[c].grant IN
    /\ activated[g] /\ ~notified[g] /\ status[g] \in Reviewable
    /\ call[c].pc = "stamp" => told[g]

\* It is the only one to announce it.
OneAnnouncer ==
  \A c, d \in Calls :
    /\ call[c].pc \in Announcing /\ call[d].pc \in Announcing
    /\ call[c].grant = call[d].grant
    => c = d

\* Once announced, an activation is not rolled back; only then is it used.
Announced(g) ==
  /\ notified[g] => told[g] /\ activated[g] /\ status[g] \in Reviewable
  /\ used[g] => notified[g]

\* What a handler of the organisation's has read rules what it may do.
ReadStands(c) ==
  /\ call[c].pc \in {"approve", "deny"} => status[call[c].grant] = "requested"
  /\ call[c].pc = "revoke" => status[call[c].grant] \in {"approved", "active", "expired"}

Alone == \A c, d \in TenantCalls : c # d => call[c] = Idle \/ call[d] = Idle

AccessParts ==
  /\ \A c \in Calls : Announces(c) /\ ReadStands(c)
  /\ OneAnnouncer
  /\ \A g \in Grants : Announced(g)

AccessHolds ==
  /\ TypeOK
  /\ \A c \in Calls : call[c].pc \in TenantPcs => c \in TenantCalls
  /\ ~overlapped => Alone /\ AccessParts

-----------------------------------------------------------------------------
(* Migrating.                                                              *)

Busy == {"statement", "running", "note", "orphan"}

\* Who migrates holds the lock, and is at the migration after the last.
InTurn ==
  /\ \A j \in Jobs : migrator[j].pc \in Schema!Migrating <=> lock = j
  /\ \E n \in 0 .. Len(Files) :
       /\ applied = 1 .. n
       /\ \A j \in Jobs : migrator[j].pc \in Schema!Migrating => migrator[j].at = n + 1

\* What a Job knows of its migration is what was noted of it.
Known(j) ==
  migrator[j].pc \in Busy =>
    LET r == migrator[j] IN
    /\ r.at <= r.upto
    /\ \A s \in Schema!Statements : s[1] = r.at => (s \in progress <=> s[2] < r.index \/ s \in r.done)
    /\ r.pc # "statement" => Schema!Left(j) # {} /\ Schema!OutsideTransaction(Schema!NextLeft(j))

\* Notes are of the migration under way.  What runs in a transaction is noted
\* in the same.
Done(s) == s \in progress \/ s[1] \in applied
Noted ==
  /\ \A s \in progress : s[1] \notin applied
  /\ \A s \in Schema!Statements :
       ~Schema!OutsideTransaction(s) => (effect[s] = "present" <=> Done(s))
NotedIsDone ==
  /\ \A s \in Schema!Statements : Done(s) => effect[s] = "present"
  /\ \A j \in Jobs : migrator[j].pc = "note" => effect[Schema!NextLeft(j)] = "present"

GuardedFirst ==
  \A j \in Jobs : migrator[j].pc \in {"grant all", "revoke", "grant", "complete"} => triggers

Granted ==
  /\ "change" \in may => \E j \in Jobs : migrator[j].pc = "revoke"
  /\ (rolled > 0 \/ \E j \in Jobs : migrator[j].pc = "complete")
     /\ (\A j \in Jobs : migrator[j].pc \notin {"revoke", "grant"})
       => {"select", "insert"} \subseteq may

SchemaCore ==
  /\ Schema!TypeOK /\ InTurn /\ Schema!SchemaFirst /\ Noted /\ GuardedFirst /\ Schema!Guarded
  /\ \A j \in Jobs : Known(j)

SchemaHolds ==
  /\ SchemaCore
  /\ neglected \in BOOLEAN /\ halted \in BOOLEAN
  /\ ~neglected => NotedIsDone
  /\ ~halted => Granted

-----------------------------------------------------------------------------
(* Setting up: proofs.                                                     *)

\* What the program counter says about the rest of a handler's record.
LEMMA RequestShape ==
  ASSUME SetUp!TypeOK, NEW c \in Requests
  PROVE  /\ request[c].pc = "mail" => request[c].token \in 1 .. MaxLinks
         /\ request[c].pc = "save" => request[c].ready \subseteq Items
         /\ request[c].pc = "key" => request[c].seen \in SetUp!Loaded
         /\ request[c].pc \in {"set key", "set"} => request[c].to \in SetUp!Statuses
<1>1. request[c] \in {SetUp!Idle} \cup SetUp!Handling
  BY DEF SetUp!TypeOK
<1>2. CASE request[c] = SetUp!Idle
  BY <1>2 DEF SetUp!Idle
<1>3. CASE request[c] \in SetUp!Handling
  BY <1>3 DEF SetUp!Handling
<1> QED BY <1>1, <1>2, <1>3

\* A handler's next record is well typed when it is Idle or Handling.
LEMMA RequestTypes ==
  ASSUME SetUp!TypeOK, NEW c \in Requests, NEW r \in {SetUp!Idle} \cup SetUp!Handling,
         SetUp!Becomes(c, r)
  PROVE  /\ request' \in [Requests -> {SetUp!Idle} \cup SetUp!Handling]
         /\ request'[c] = r
         /\ \A d \in Requests \ {c} : request'[d] = request[d]
BY DEF SetUp!TypeOK, SetUp!Becomes

\* The records handlers write.
LEMMA Handlings ==
  /\ \A p \in {"create", "rotate", "own key", "own write", "sign", "activate"} :
       [pc |-> p] \in SetUp!Handling
  /\ \A n \in 1 .. MaxLinks : [pc |-> "mail", token |-> n] \in SetUp!Handling
  /\ \A s \in SUBSET Items : [pc |-> "save", ready |-> s] \in SetUp!Handling
  /\ \A l \in SetUp!Loaded : [pc |-> "key", seen |-> l] \in SetUp!Handling
  /\ \A p \in {"set key", "set"}, s \in SetUp!Statuses : [pc |-> p, to |-> s] \in SetUp!Handling
BY DEF SetUp!Handling

\* Every action of a handler turns its record into one of a known kind, and
\* changes the rest as the kind says.
Turns(c, r) ==
  /\ SetUp!Becomes(c, r) /\ UNCHANGED keyed
  /\ \/ /\ r.pc \notin {"mail", "key", "activate"} /\ request[c].pc # "mail"
        /\ UNCHANGED <<standing, ready, agreed, invitation, inbox, lost>>
     \/ /\ r = SetUp!Idle /\ request[c] # SetUp!Idle
        /\ lost' \in 1 .. MaxLost
        /\ UNCHANGED <<standing, ready, agreed, invitation, inbox>>
     \/ /\ r.pc = "mail" /\ r.token = 1 /\ request[c].pc = "create" /\ standing = "none"
        /\ standing' = "onboarding"
        /\ invitation' = [state |-> "pending", token |-> 1]
        /\ UNCHANGED <<ready, agreed, inbox, lost>>
     \/ /\ invitation.token + 1 \in 1 .. MaxLinks /\ invitation.state = "pending"
        /\ request[c].pc = "rotate"
        /\ r.pc = "mail" /\ r.token = invitation.token + 1
        /\ invitation' = [state |-> "pending", token |-> invitation.token + 1]
        /\ UNCHANGED <<standing, ready, agreed, inbox, lost>>
     \/ /\ r = SetUp!Idle /\ request[c].pc = "mail" /\ inbox' = request[c].token
        /\ UNCHANGED <<standing, ready, agreed, invitation, lost>>
     \/ /\ r = SetUp!Idle /\ request[c].pc = "save" /\ ready' = request[c].ready
        /\ UNCHANGED <<standing, agreed, invitation, inbox, lost>>
     \/ /\ r = SetUp!Idle /\ request[c].pc = "sign" /\ agreed' = TRUE
        /\ UNCHANGED <<standing, ready, invitation, inbox, lost>>
     \/ /\ request[c] = SetUp!Idle /\ r.pc = "key"
        /\ r.seen.ready = ready /\ (r.seen.agreed => agreed)
        /\ UNCHANGED <<standing, ready, agreed, invitation, inbox, lost>>
     \/ /\ r.pc = "activate" /\ request[c].pc = "key" /\ SetUp!Allowed(request[c].seen)
        /\ UNCHANGED <<standing, ready, agreed, invitation, inbox, lost>>
     \/ /\ r = SetUp!Idle /\ request[c].pc \in {"activate", "own write"}
        /\ standing' \in SetUp!Statuses \cup {standing}
        /\ standing \in SetUp!Unavailable => standing' = standing
        /\ UNCHANGED <<ready, agreed, invitation, inbox, lost>>
     \/ /\ r = SetUp!Idle /\ request[c].pc = "set"
        /\ standing' \in SetUp!Statuses
        /\ UNCHANGED <<ready, agreed, invitation, inbox, lost>>

Handles(c) == \E r \in {SetUp!Idle} \cup SetUp!Handling : Turns(c, r)

\* As Handles says.
LEMMA HandlersHandle ==
  ASSUME SetUpHolds, NEW c \in Requests,
         \/ SetUp!Provision(c) \/ SetUp!Create(c) \/ SetUp!ResendInvite(c)
         \/ SetUp!RotateInvitation(c) \/ SetUp!SendInvite(c) \/ SetUp!RequestLost(c)
         \/ SetUp!SaveChecklist(c) \/ SetUp!ReadForAgreement(c) \/ SetUp!SaveAgreement(c)
         \/ SetUp!LoadOrganisation(c) \/ SetUp!EvaluateActivation(c)
         \/ SetUp!SetOnboardingToActive(c) \/ SetUp!AskToActivate(c) \/ SetUp!OwnKey(c)
         \/ SetUp!ActivateOwn(c) \/ SetUp!CheckKey(c) \/ SetUp!SetStatus(c)
         \/ \E item \in Items, complete \in BOOLEAN : SetUp!ReadChecklist(c, item, complete)
         \/ \E to \in Switches : SetUp!AskStatus(c, to)
  PROVE  Handles(c)
<1>t. SetUp!TypeOK
  BY DEF SetUpHolds
<1>i. SetUp!Idle.pc \notin {"mail", "key", "activate"}
  BY DEF SetUp!Idle
<1> USE DEF SetUp!SettingsUnchanged, SetUp!MailUnchanged
<1>1. ASSUME NEW p \in {"create", "rotate", "own key", "sign"},
             request[c] = SetUp!Idle, SetUp!Becomes(c, [pc |-> p]),
             UNCHANGED <<standing, ready, agreed, keyed, invitation, inbox, lost>>
      PROVE  Handles(c)
  <2>1. PICK r : r = [pc |-> p]
    OBVIOUS
  <2>2. r \in SetUp!Handling /\ r.pc \notin {"mail", "key", "activate"}
    BY <2>1, Handlings
  <2>3. SetUp!Becomes(c, r) /\ request[c].pc # "mail"
    BY <1>1, <1>i, <2>1
  <2> QED BY <1>1, <2>2, <2>3 DEF Handles, Turns
<1>2. CASE SetUp!Provision(c) \/ SetUp!ResendInvite(c) \/ SetUp!ReadForAgreement(c) \/ SetUp!AskToActivate(c)
  BY <1>1, <1>2 DEF SetUp!Provision, SetUp!ResendInvite, SetUp!ReadForAgreement, SetUp!AskToActivate
<1>3. CASE SetUp!Create(c)
  <2>1. CASE standing = "none"
    <3>1. [pc |-> "mail", token |-> 1] \in SetUp!Handling
      <4>1. 1 \in 1 .. MaxLinks
        BY PlatformAssumption
      <4> QED BY <4>1, Handlings
    <3>2. /\ SetUp!Becomes(c, [pc |-> "mail", token |-> 1])
          /\ request[c].pc = "create" /\ standing' = "onboarding"
          /\ invitation' = [state |-> "pending", token |-> 1]
          /\ UNCHANGED <<keyed, ready, agreed, inbox, lost>>
      BY <1>3, <2>1 DEF SetUp!Create
    <3> QED BY <2>1, <3>1, <3>2 DEF Handles, Turns
  <2>2. CASE standing # "none"
    <3>1. /\ SetUp!Becomes(c, SetUp!Idle) /\ request[c].pc = "create"
          /\ UNCHANGED <<standing, keyed, ready, agreed, invitation, inbox, lost>>
      BY <1>3, <2>2 DEF SetUp!Create
    <3> QED BY <1>i, <3>1 DEF Handles, Turns
  <2> QED BY <2>1, <2>2
<1>4. CASE SetUp!RotateInvitation(c)
  <2> DEFINE n == invitation.token + 1
  <2>1. CASE SetUp!Rotates
    <3>1. n \in 1 .. MaxLinks
      BY <1>t, <1>4, <2>1, PlatformAssumption DEF SetUp!RotateInvitation, SetUp!TypeOK
    <3>2. [pc |-> "mail", token |-> n] \in SetUp!Handling
      BY <3>1, Handlings
    <3>3. /\ SetUp!Becomes(c, [pc |-> "mail", token |-> n])
          /\ request[c].pc = "rotate" /\ invitation.state = "pending"
          /\ invitation' = [invitation EXCEPT !.token = n]
          /\ UNCHANGED <<standing, keyed, ready, agreed, inbox, lost>>
      BY <1>4, <2>1 DEF SetUp!RotateInvitation, SetUp!Rotates
    <3>4. invitation' = [state |-> "pending", token |-> n]
      BY <1>t, <3>3 DEF SetUp!TypeOK
    <3>5. PICK r : r = [pc |-> "mail", token |-> n]
      OBVIOUS
    <3>6. r.pc = "mail" /\ r.token = n
      BY <3>5
    <3>7. Turns(c, r)
      BY <3>1, <3>3, <3>4, <3>5, <3>6 DEF Turns
    <3> QED BY <3>2, <3>5, <3>7 DEF Handles
  <2>2. CASE ~SetUp!Rotates
    <3>1. /\ SetUp!Becomes(c, SetUp!Idle) /\ request[c].pc = "rotate"
          /\ UNCHANGED <<standing, keyed, ready, agreed, invitation, inbox, lost>>
      BY <1>4, <2>2 DEF SetUp!RotateInvitation
    <3> QED BY <1>i, <3>1 DEF Handles, Turns
  <2> QED BY <2>1, <2>2
<1>5. CASE SetUp!SendInvite(c) \/ SetUp!SaveChecklist(c) \/ SetUp!SaveAgreement(c)
  BY <1>5 DEF SetUp!SendInvite, SetUp!SaveChecklist, SetUp!SaveAgreement, Handles, Turns
<1>6. CASE SetUp!RequestLost(c)
  <2>1. lost' \in 1 .. MaxLost
    BY <1>t, <1>6, PlatformAssumption DEF SetUp!RequestLost, SetUp!Lose, SetUp!TypeOK
  <2>2. /\ SetUp!Becomes(c, SetUp!Idle) /\ request[c] # SetUp!Idle
        /\ UNCHANGED <<standing, keyed, ready, agreed, invitation, inbox>>
    BY <1>6 DEF SetUp!RequestLost
  <2> QED BY <2>1, <2>2 DEF Handles, Turns
<1>7. CASE SetUp!LoadOrganisation(c)
  <2> DEFINE seen == [status |-> standing, ready |-> ready, agreed |-> agreed]
  <2>1. seen \in SetUp!Loaded
    BY <1>t, <1>7 DEF SetUp!LoadOrganisation, SetUp!Loaded, SetUp!TypeOK
  <2>2. PICK r : r = [pc |-> "key", seen |-> seen]
    OBVIOUS
  <2>3. /\ r \in SetUp!Handling /\ r.pc = "key"
        /\ r.seen.ready = ready /\ r.seen.agreed = agreed
    BY <2>1, <2>2, Handlings
  <2>4. /\ SetUp!Becomes(c, r) /\ request[c] = SetUp!Idle
        /\ UNCHANGED <<standing, keyed, ready, agreed, invitation, inbox, lost>>
    BY <1>7, <2>2 DEF SetUp!LoadOrganisation
  <2> QED BY <2>3, <2>4 DEF Handles, Turns
<1>8. CASE SetUp!EvaluateActivation(c)
  <2>1. /\ request[c].pc = "key"
        /\ UNCHANGED <<standing, keyed, ready, agreed, invitation, inbox, lost>>
    BY <1>8 DEF SetUp!EvaluateActivation
  <2>2. CASE SetUp!Allowed(request[c].seen)
    <3>1. SetUp!Becomes(c, [pc |-> "activate"]) /\ [pc |-> "activate"] \in SetUp!Handling
      BY <1>8, <2>2, Handlings DEF SetUp!EvaluateActivation
    <3> QED BY <2>1, <2>2, <3>1 DEF Handles, Turns
  <2>3. CASE ~SetUp!Allowed(request[c].seen)
    <3>1. SetUp!Becomes(c, SetUp!Idle)
      BY <1>8, <2>3 DEF SetUp!EvaluateActivation
    <3> QED BY <1>i, <2>1, <3>1 DEF Handles, Turns
  <2> QED BY <2>2, <2>3
<1>9. CASE SetUp!SetOnboardingToActive(c) \/ SetUp!ActivateOwn(c)
  <2>1. /\ SetUp!Becomes(c, SetUp!Idle) /\ request[c].pc \in {"activate", "own write"}
        /\ standing' \in SetUp!Statuses \cup {standing}
        /\ standing \in SetUp!Unavailable => standing' = standing
        /\ UNCHANGED <<keyed, ready, agreed, invitation, inbox, lost>>
    BY <1>9 DEF SetUp!SetOnboardingToActive, SetUp!ActivateOwn, SetUp!StillOperational,
                SetUp!Statuses, SetUp!Operational, SetUp!Unavailable
  <2> QED BY <2>1 DEF Handles, Turns
<1>10. CASE SetUp!OwnKey(c)
  <2>1. request[c].pc = "own key" /\ UNCHANGED <<standing, keyed, ready, agreed, invitation, inbox, lost>>
    BY <1>10 DEF SetUp!OwnKey
  <2>2. PICK r \in {SetUp!Idle, [pc |-> "own write"]} : SetUp!Becomes(c, r)
    BY <1>10 DEF SetUp!OwnKey
  <2>3. r \in {SetUp!Idle} \cup SetUp!Handling /\ r.pc \notin {"mail", "key", "activate"}
    <3>1. [pc |-> "own write"] \in SetUp!Handling
      BY Handlings
    <3>2. CASE r = SetUp!Idle
      BY <1>i, <3>2
    <3>3. CASE r = [pc |-> "own write"]
      BY <3>1, <3>3
    <3> QED BY <2>2, <3>2, <3>3
  <2> QED BY <2>1, <2>2, <2>3 DEF Handles, Turns
<1>11. CASE SetUp!CheckKey(c)
  <2>1. request[c].pc = "set key" /\ UNCHANGED <<standing, keyed, ready, agreed, invitation, inbox, lost>>
    BY <1>11 DEF SetUp!CheckKey
  <2>2. PICK r \in {SetUp!Idle, [pc |-> "set", to |-> request[c].to]} : SetUp!Becomes(c, r)
    BY <1>11, <1>t, <2>1, RequestShape DEF SetUp!CheckKey
  <2>3. r \in {SetUp!Idle} \cup SetUp!Handling /\ r.pc \notin {"mail", "key", "activate"}
    <3>1. [pc |-> "set", to |-> request[c].to] \in SetUp!Handling
      <4>1. request[c].to \in SetUp!Statuses
        BY <1>t, <2>1, RequestShape
      <4> QED BY <4>1, Handlings
    <3> QED BY <1>i, <2>2, <3>1
  <2> QED BY <2>1, <2>2, <2>3 DEF Handles, Turns
<1>12. CASE SetUp!SetStatus(c)
  BY <1>12, <1>t, RequestShape DEF SetUp!SetStatus, Handles, Turns
<1>13. ASSUME NEW item \in Items, NEW complete \in BOOLEAN, SetUp!ReadChecklist(c, item, complete)
       PROVE  Handles(c)
  <2>1. PICK r : r = [pc |-> "save", ready |-> IF complete THEN ready \cup {item} ELSE ready \ {item}]
    OBVIOUS
  <2>2. (IF complete THEN ready \cup {item} ELSE ready \ {item}) \in SUBSET Items
    BY <1>t DEF SetUp!TypeOK
  <2>3. r \in SetUp!Handling /\ r.pc = "save"
    BY <2>1, <2>2, Handlings
  <2>4. /\ SetUp!Becomes(c, r) /\ request[c] = SetUp!Idle
        /\ UNCHANGED <<standing, keyed, ready, agreed, invitation, inbox, lost>>
    BY <1>13, <2>1 DEF SetUp!ReadChecklist
  <2> QED BY <1>i, <2>3, <2>4 DEF Handles, Turns
<1>14. ASSUME NEW to \in Switches, SetUp!AskStatus(c, to)
       PROVE  Handles(c)
  <2>1. PICK r : r = [pc |-> IF to = "active" THEN "set key" ELSE "set", to |-> to]
    OBVIOUS
  <2>2. r \in SetUp!Handling /\ r.pc \in {"set key", "set"}
    <3>1. to \in SetUp!Statuses
      BY PlatformAssumption
    <3> QED BY <2>1, <3>1, Handlings
  <2>3. /\ SetUp!Becomes(c, r) /\ request[c] = SetUp!Idle
        /\ UNCHANGED <<standing, keyed, ready, agreed, invitation, inbox, lost>>
    BY <1>14, <2>1 DEF SetUp!AskStatus
  <2> QED BY <1>i, <2>2, <2>3 DEF Handles, Turns
<1> QED BY <1>2, <1>3, <1>4, <1>5, <1>6, <1>7, <1>8, <1>9, <1>10, <1>11, <1>12, <1>13, <1>14

\* What a handler does keeps the invariant.
LEMMA HandlesKeeps ==
  ASSUME SetUpHolds, NEW c \in Requests, Handles(c), overlapped' = (overlapped \/ Overlap')
  PROVE  SetUpHolds'
<1>t. SetUp!TypeOK
  BY DEF SetUpHolds
<1>1. PICK r \in {SetUp!Idle} \cup SetUp!Handling : Turns(c, r)
  BY DEF Handles
<1> USE DEF Turns
<1>2. /\ request' \in [Requests -> {SetUp!Idle} \cup SetUp!Handling]
      /\ request'[c] = r
      /\ \A d \in Requests \ {c} : request'[d] = request[d]
  BY <1>t, <1>1, RequestTypes
<1>i. SetUp!Idle.pc = "idle"
  BY DEF SetUp!Idle
<1>m. request[c].pc = "mail" => request[c].token \in 1 .. MaxLinks
  BY <1>t, RequestShape
<1>v. invitation \in [state : {"none", "pending", "accepted"}, token : 0 .. MaxLinks]
  BY <1>t DEF SetUp!TypeOK
<1>3. /\ invitation' \in [state : {"none", "pending", "accepted"}, token : 0 .. MaxLinks]
      /\ invitation'.token \in Nat /\ invitation.token <= invitation'.token
      /\ invitation'.state = "pending" => invitation' = invitation \/ r.pc = "mail"
      /\ r.pc = "mail" => r.token = invitation'.token
  <2>1. CASE UNCHANGED invitation /\ r.pc # "mail"
    BY <1>v, <2>1
  <2>2. CASE /\ r.pc = "mail" /\ r.token = 1 /\ standing = "none"
             /\ invitation' = [state |-> "pending", token |-> 1]
    <3>1. 1 \in 0 .. MaxLinks
      BY PlatformAssumption
    <3>2. invitation.token = 0
      BY <2>2 DEF SetUpHolds, BeforeProvision
    <3>3. /\ invitation'.state = "pending" /\ invitation'.token = 1
          /\ r.pc = "mail" /\ r.token = 1
      BY <2>2
    <3> QED BY <2>2, <3>1, <3>2, <3>3
  <2>3. CASE /\ invitation.token + 1 \in 1 .. MaxLinks
             /\ r.pc = "mail" /\ r.token = invitation.token + 1
             /\ invitation' = [state |-> "pending", token |-> invitation.token + 1]
    <3>1. invitation.token + 1 \in 0 .. MaxLinks
      BY <2>3, PlatformAssumption
    <3>2. invitation'.token = invitation.token + 1
      BY <2>3
    <3> QED BY <1>v, <2>3, <3>1, <3>2
  <2> QED BY <1>1, <1>i, <2>1, <2>2, <2>3
<1>4. SetUp!TypeOK'
  <2>1. standing' \in SetUp!Statuses \cup {"none"}
    BY <1>t, <1>1 DEF SetUp!TypeOK, SetUp!Statuses, SetUp!Operational
  <2>2. ready' \subseteq Items /\ agreed' \in BOOLEAN /\ keyed' \in BOOLEAN
    <3>1. request[c].pc = "save" => request[c].ready \subseteq Items
      BY <1>t, RequestShape
    <3> QED BY <1>t, <1>1, <3>1 DEF SetUp!TypeOK
  <2>3. inbox' \in 0 .. MaxLinks /\ lost' \in 0 .. MaxLost
    <3>1. \/ UNCHANGED inbox
          \/ request[c].pc = "mail" /\ inbox' = request[c].token
      BY <1>1
    <3>2. lost' \in {lost} \cup 1 .. MaxLost
      BY <1>1
    <3> QED BY <1>t, <1>m, <3>1, <3>2, PlatformAssumption DEF SetUp!TypeOK
  <2> QED BY <1>2, <1>3, <2>1, <2>2, <2>3 DEF SetUp!TypeOK
<1>5. SetUp!AgreedFirst' /\ LoadedAgreed'
  <2>1. agreed => agreed'
    BY <1>1
  <2>2. r.pc = "activate" => agreed
    <3>1. r.pc = "activate" => request[c].pc = "key" /\ SetUp!Allowed(request[c].seen)
      BY <1>1, <1>i
    <3> QED BY <3>1 DEF SetUp!Allowed, SetUpHolds, LoadedAgreed
  <2>3. r.pc = "key" /\ r.seen.agreed => agreed
    BY <1>1, <1>i
  <2> QED BY <1>2, <2>1, <2>2, <2>3 DEF SetUpHolds, SetUp!AgreedFirst, LoadedAgreed
<1>6. SetUp!LinksStand' /\ BeforeProvision'
  <2>1. inbox' <= invitation'.token
    <3>1. CASE UNCHANGED inbox
      BY <1>t, <1>3, <3>1 DEF SetUpHolds, SetUp!LinksStand, SetUp!TypeOK
    <3>2. CASE request[c].pc = "mail" /\ inbox' = request[c].token
      BY <1>m, <1>v, <1>3, <3>2 DEF SetUpHolds, SetUp!LinksStand
    <3> QED BY <1>1, <3>1, <3>2
  <2>2. ASSUME NEW d \in Requests, request'[d].pc = "mail"
        PROVE  request'[d].token <= invitation'.token
    <3>1. CASE d = c
      BY <1>2, <1>3, <3>1, <2>2
    <3>2. CASE d # c
      <4>1. request'[d] = request[d]
        BY <1>2, <3>2
      <4>2. request[d].token \in 1 .. MaxLinks /\ request[d].token <= invitation.token
        BY <1>t, <2>2, <4>1, RequestShape DEF SetUpHolds, SetUp!LinksStand
      <4> QED BY <1>v, <1>3, <4>1, <4>2
    <3> QED BY <3>1, <3>2
  <2>3. BeforeProvision'
    BY <1>1 DEF SetUpHolds, BeforeProvision, SetUp!Statuses, SetUp!Operational, SetUp!Unavailable
  <2> QED BY <2>1, <2>2, <2>3 DEF SetUp!LinksStand
<1>7. ASSUME ~overlapped'
      PROVE  ~Overlap' /\ LinkUnderWay' /\ \A d \in Requests : Fresh(d)'
  <2>1. ~Overlap /\ LinkUnderWay /\ (\A d \in Requests : Fresh(d)) /\ ~Overlap'
    BY <1>7 DEF SetUpHolds
  <2>2. ASSUME NEW d \in Requests \ {c}
        PROVE  /\ request'[d] = request[d]
               /\ request[d] = SetUp!Idle \/ (request[c] = SetUp!Idle /\ r = SetUp!Idle)
    <3> HIDE DEF Turns
    <3>1. request'[d] = request[d] /\ request'[c] = r
      BY <1>2
    <3>2. \A x, y \in Requests : x # y => request[x] = SetUp!Idle \/ request[y] = SetUp!Idle
      BY <2>1 DEF Overlap, Idle, SetUp!Idle
    <3>3. \A x, y \in Requests : x # y => request'[x] = SetUp!Idle \/ request'[y] = SetUp!Idle
      BY <2>1 DEF Overlap, Idle, SetUp!Idle
    <3> QED BY <3>1, <3>2, <3>3
  <2>3. LinkUnderWay'
    <3> SUFFICES ASSUME lost' = 0, invitation'.state = "pending"
                 PROVE  \/ inbox' = invitation'.token
                        \/ \E d \in Requests : request'[d].pc = "mail" /\ request'[d].token = invitation'.token
      BY DEF LinkUnderWay
    <3>1. CASE r.pc = "mail"
      BY <1>2, <1>3, <3>1
    <3>2. CASE request[c].pc = "mail"
      <4>1. request[c].token = invitation.token
        BY <2>1, <3>2 DEF Fresh
      <4>2. inbox' = request[c].token /\ UNCHANGED invitation
        BY <1>1, <1>i, <3>2
      <4> QED BY <4>1, <4>2
    <3>3. CASE r.pc # "mail" /\ request[c].pc # "mail"
      <4>1. UNCHANGED <<invitation, inbox>> /\ lost = 0
        <5>1. UNCHANGED <<invitation, inbox>>
          BY <1>1, <1>i, <3>3
        <5>2. lost' = lost \/ lost' \in 1 .. MaxLost
          BY <1>1
        <5> QED BY <5>1, <5>2, PlatformAssumption
      <4>2. \/ inbox = invitation.token
            \/ \E d \in Requests : request[d].pc = "mail" /\ request[d].token = invitation.token
        BY <2>1, <4>1 DEF LinkUnderWay
      <4> QED BY <1>2, <3>3, <4>1, <4>2
    <3> QED BY <3>1, <3>2, <3>3
  <2>4. ASSUME NEW d \in Requests PROVE Fresh(d)'
    <3>1. CASE d = c
      <4>1. r.pc = "key" => r.seen.ready = ready'
        BY <1>1, <1>i
      <4>2. r.pc = "activate" => ready' = Items
        <5>1. r.pc = "activate" => UNCHANGED ready /\ request[c].pc = "key" /\ SetUp!Allowed(request[c].seen)
          BY <1>1, <1>i
        <5> QED BY <2>1, <5>1 DEF SetUp!Allowed, Fresh
      <4> QED BY <1>2, <1>3, <3>1, <4>1, <4>2 DEF Fresh
    <3>2. CASE d # c
      <4>1. CASE request[d] = SetUp!Idle
        BY <1>i, <2>2, <3>2, <4>1 DEF Fresh
      <4>2. CASE request[d] # SetUp!Idle
        <5>1. request[c] = SetUp!Idle /\ r = SetUp!Idle /\ request'[d] = request[d]
          BY <2>2, <3>2, <4>2
        <5>2. UNCHANGED <<ready, invitation>>
          BY <1>1, <1>i, <5>1
        <5> QED BY <2>1, <5>1, <5>2 DEF Fresh
      <4> QED BY <4>1, <4>2
    <3> QED BY <3>1, <3>2
  <2> QED BY <2>1, <2>3, <2>4
<1> QED BY <1>4, <1>5, <1>6, <1>7 DEF SetUpHolds

\* Setting up keeps its invariant, and nothing else touches it.
LEMMA SetUpStep == SetUpHolds /\ [PlatformNext]_everything => SetUpHolds'
<1> SUFFICES ASSUME SetUpHolds, [PlatformNext]_everything PROVE SetUpHolds'
  OBVIOUS
<1>1. CASE UNCHANGED setUpVars /\ (~overlapped' => ~overlapped /\ ~Overlap')
  <2>1. UNCHANGED <<standing, ready, agreed, keyed, invitation, inbox, request, lost>>
    BY <1>1 DEF setUpVars
  <2>2. (SetUp!TypeOK /\ SetUp!AgreedFirst /\ SetUp!LinksStand)'
    BY <2>1 DEF SetUpHolds, SetUp!TypeOK, SetUp!AgreedFirst, SetUp!LinksStand
  <2>3. (BeforeProvision /\ LoadedAgreed)'
    BY <2>1 DEF SetUpHolds, BeforeProvision, LoadedAgreed
  <2>4. ASSUME ~overlapped' PROVE ~Overlap' /\ LinkUnderWay' /\ \A c \in Requests : Fresh(c)'
    BY <1>1, <2>1, <2>4 DEF SetUpHolds, LinkUnderWay, Fresh
  <2> QED BY <2>2, <2>3, <2>4 DEF SetUpHolds
<1>2. CASE SetUp!Next /\ overlapped' = (overlapped \/ Overlap')
  <2>1. CASE SetUp!KeyChanges \/ SetUp!AcceptInvitation
    <3>1. /\ UNCHANGED <<standing, ready, agreed, inbox, request, lost>> /\ keyed' \in BOOLEAN
          /\ \/ UNCHANGED invitation
             \/ /\ invitation' = [state |-> "accepted", token |-> invitation.token]
                /\ standing # "none"
      <4>1. CASE SetUp!KeyChanges
        BY <4>1 DEF SetUp!KeyChanges, SetUpHolds, SetUp!TypeOK
      <4>2. CASE SetUp!AcceptInvitation
        BY <4>2 DEF SetUp!AcceptInvitation, SetUpHolds, SetUp!TypeOK, BeforeProvision
      <4> QED BY <2>1, <4>1, <4>2
    <3>2. /\ invitation'.token = invitation.token
          /\ invitation' \in [state : {"none", "pending", "accepted"}, token : 0 .. MaxLinks]
          /\ invitation'.state = "pending" => invitation' = invitation
      BY <3>1 DEF SetUpHolds, SetUp!TypeOK
    <3>3. (SetUp!TypeOK /\ SetUp!AgreedFirst /\ SetUp!LinksStand)'
      BY <3>1, <3>2 DEF SetUpHolds, SetUp!TypeOK, SetUp!AgreedFirst, SetUp!LinksStand
    <3>4. (BeforeProvision /\ LoadedAgreed)'
      BY <3>1 DEF SetUpHolds, BeforeProvision, LoadedAgreed
    <3>5. ASSUME ~overlapped' PROVE ~Overlap' /\ LinkUnderWay' /\ \A c \in Requests : Fresh(c)'
      <4>1. ~Overlap' /\ LinkUnderWay /\ \A c \in Requests : Fresh(c)
        BY <1>2, <3>5 DEF SetUpHolds
      <4> QED BY <3>1, <3>2, <4>1 DEF LinkUnderWay, Fresh
    <3> QED BY <3>3, <3>4, <3>5 DEF SetUpHolds
  <2>2. CASE \E c \in Requests : Handles(c)
    BY <1>2, <2>2, HandlesKeeps
  <2> QED BY <1>2, <2>1, <2>2, HandlersHandle DEF SetUp!Next
<1>3. CASE UNCHANGED everything
  <2>1. UNCHANGED setUpVars /\ UNCHANGED overlapped /\ UNCHANGED <<call, request>>
    BY <1>3 DEF everything, history, setUpVars, vars
  <2>2. Overlap' = Overlap
    BY <2>1 DEF Overlap
  <2> QED BY <1>1, <2>1, <2>2 DEF SetUpHolds
<1>4. CASE PlatformNext
  <2>1. overlapped' = (overlapped \/ Overlap') /\ (UNCHANGED setUpVars \/ SetUp!Next)
    BY <1>4 DEF PlatformNext
  <2> QED BY <1>1, <1>2, <2>1
<1> QED BY <1>3, <1>4

\* An organisation is suspended until an operator switches it back, and an
\* accepted invitation stays as it was accepted.
LEMMA SetUpStands ==
  SetUpHolds /\ [PlatformNext]_everything
    => [SetUp!SuspensionStands /\ SetUp!AcceptedStands]_setUpVars
<1> SUFFICES ASSUME SetUpHolds, PlatformNext, ~UNCHANGED setUpVars
             PROVE  SetUp!SuspensionStands /\ SetUp!AcceptedStands
  BY DEF everything
<1>1. SetUp!Next
  BY DEF PlatformNext
<1>2. CASE SetUp!KeyChanges \/ SetUp!AcceptInvitation
  BY <1>2 DEF SetUp!KeyChanges, SetUp!AcceptInvitation, SetUp!SuspensionStands, SetUp!AcceptedStands
<1>3. ASSUME NEW c \in Requests, Handles(c)
      PROVE  SetUp!SuspensionStands /\ SetUp!AcceptedStands
  <2>1. PICK r \in {SetUp!Idle} \cup SetUp!Handling : Turns(c, r)
    BY <1>3 DEF Handles
  <2>2. request'[c] = r
    BY <2>1, RequestTypes DEF SetUpHolds, Turns
  <2>3. SetUp!SuspensionStands
    BY <2>1, <2>2 DEF Turns, SetUp!SuspensionStands, SetUp!Acts, SetUp!Unavailable
  <2>4. SetUp!AcceptedStands
    <3>1. standing = "none" => invitation.state = "none"
      BY DEF SetUpHolds, BeforeProvision
    <3> QED BY <2>1, <3>1 DEF Turns, SetUp!AcceptedStands
  <2> QED BY <2>3, <2>4
<1> QED BY <1>1, <1>2, <1>3, HandlersHandle DEF SetUp!Next

\* For any number of operators' and administrators' requests: a suspension is
\* lifted only by an operator's switch, an accepted invitation gets no new
\* link, an organisation is activated only with its agreement, and one request
\* at a time only with its checklist done; then the last link also works.
THEOREM SetUpStandsAlways == PlatformSpec => OnboardingStands
<1>1. PlatformInit => SetUpHolds
  <2> SUFFICES ASSUME PlatformInit PROVE SetUpHolds
    OBVIOUS
  <2>1. /\ standing = "none" /\ ready = {} /\ agreed = FALSE /\ keyed = FALSE
        /\ invitation = [state |-> "none", token |-> 0] /\ inbox = 0 /\ lost = 0
        /\ request = [c \in Requests |-> SetUp!Idle] /\ SetUp!Idle.pc = "idle"
        /\ call = [c \in Calls |-> Idle] /\ overlapped = FALSE
    BY DEF PlatformInit, SetUp!Init, SetUp!Idle, Init
  <2>2. \A c \in Requests : request[c] = SetUp!Idle /\ request[c].pc = "idle"
    BY <2>1
  <2>3. invitation.state = "none" /\ invitation.token = 0
    BY <2>1
  <2>4. SetUp!TypeOK
    <3>1. 0 \in 0 .. MaxLinks /\ 0 \in 0 .. MaxLost
      BY PlatformAssumption
    <3>2. invitation \in [state : {"none", "pending", "accepted"}, token : 0 .. MaxLinks]
      BY <2>1, <3>1
    <3>3. request \in [Requests -> {SetUp!Idle} \cup SetUp!Handling]
      BY <2>1
    <3> QED BY <2>1, <3>1, <3>2, <3>3 DEF SetUp!TypeOK
  <2>5. SetUp!AgreedFirst /\ SetUp!LinksStand /\ BeforeProvision /\ LoadedAgreed
    BY <2>1, <2>2, <2>3 DEF SetUp!AgreedFirst, SetUp!LinksStand, BeforeProvision, LoadedAgreed
  <2>6. LinkUnderWay /\ \A c \in Requests : Fresh(c)
    BY <2>2, <2>3 DEF LinkUnderWay, Fresh
  <2>7. ~Overlap
    BY <2>1, <2>2 DEF Overlap, Calls, Idle, SetUp!Idle
  <2> QED BY <2>4, <2>5, <2>6, <2>7 DEF SetUpHolds
<1>2. SetUpHolds => /\ SetUp!TypeOK /\ SetUp!AgreedFirst /\ SetUp!LinksStand
                    /\ ~overlapped => ReadyFirst /\ LinkWorks
  <2> SUFFICES ASSUME SetUpHolds PROVE ~overlapped => ReadyFirst /\ LinkWorks
    BY DEF SetUpHolds
  <2>1. SetUp!Idle.pc = "idle" /\ Idle.pc = "idle"
    BY DEF SetUp!Idle, Idle
  <2> QED BY <2>1 DEF SetUpHolds, ReadyFirst, LinkWorks, Handled, Fresh, LinkUnderWay
<1> QED BY <1>1, <1>2, SetUpStep, SetUpStands, PTL DEF PlatformSpec, OnboardingStands

-----------------------------------------------------------------------------
(* Access: proofs.                                                         *)

\* A handler that starts, dies, or ends without touching a row keeps what the
\* others rely on: it announces nothing, and what it read is so.
LEMMA OnlyCallMoves ==
  ASSUME TypeOK, AccessParts, RowUnchanged, NEW c \in Calls,
         \A d \in Calls \ {c} : call'[d] = call[d],
         call'[c].pc \notin Announcing, ReadStands(c)'
  PROVE  AccessParts'
<1>1. UNCHANGED <<status, activated, notified, told, used>>
  BY DEF RowUnchanged
<1>2. ASSUME NEW d \in Calls PROVE Announces(d)' /\ ReadStands(d)'
  <2>1. CASE d = c
    BY <2>1 DEF Announces
  <2>2. CASE d # c
    <3>1. call'[d] = call[d] /\ Announces(d) /\ ReadStands(d)
      BY <2>2 DEF AccessParts
    <3> QED BY <1>1, <3>1 DEF Announces, ReadStands
  <2> QED BY <2>1, <2>2
<1>3. OneAnnouncer'
  BY DEF AccessParts, OneAnnouncer
<1>4. \A g \in Grants : Announced(g)'
  BY <1>1 DEF AccessParts, Announced
<1> QED BY <1>2, <1>3, <1>4 DEF AccessParts

\* Where no handler moves, a row may only be used once announced, and expire.
LEMMA OnlyRowsMove ==
  ASSUME TypeOK, AccessParts, UNCHANGED <<call, activated, notified, told>>,
         \A g \in Grants :
           /\ status'[g] = status[g] \/ (status[g] = "active" /\ status'[g] = "expired")
           /\ used'[g] => notified[g]
  PROVE  AccessParts'
<1>1. ASSUME NEW d \in Calls PROVE Announces(d)' /\ ReadStands(d)'
  <2>1. call'[d] = call[d] /\ Announces(d) /\ ReadStands(d)
    BY DEF AccessParts
  <2>2. call[d].pc \in OperatorPcs \cup TenantPcs => call[d].grant \in Grants
    BY CallShape
  <2>3. Announcing \subseteq OperatorPcs /\ {"approve", "deny", "revoke"} \subseteq TenantPcs
    BY DEF Announcing, OperatorPcs, TenantPcs
  <2>4. Announces(d)'
    <3> SUFFICES ASSUME call[d].pc \in Announcing PROVE Announces(d)'
      BY <2>1 DEF Announces
    <3>1. call[d].grant \in Grants
      BY <2>2, <2>3
    <3> QED BY <2>1, <3>1 DEF Announces, Reviewable
  <2>5. ReadStands(d)'
    <3> SUFFICES ASSUME call[d].pc \in {"approve", "deny", "revoke"} PROVE ReadStands(d)'
      BY <2>1 DEF ReadStands
    <3>1. call[d].grant \in Grants
      BY <2>2, <2>3
    <3> QED BY <2>1, <3>1 DEF ReadStands
  <2> QED BY <2>4, <2>5
<1>2. OneAnnouncer'
  BY DEF AccessParts, OneAnnouncer
<1>3. \A g \in Grants : Announced(g)'
  BY DEF AccessParts, Announced, Reviewable
<1> QED BY <1>1, <1>2, <1>3 DEF AccessParts

\* A handler that writes the row of its grant, and no other row, keeps the
\* invariant when it does so for that row: for the handlers at work on it and,
\* if it announces an activation itself, for itself.
LEMMA OneRowMoves ==
  ASSUME TypeOK, AccessParts, NEW c \in Calls, NEW g \in Grants,
         \A d \in Calls \ {c} : call'[d] = call[d],
         \A h \in Grants \ {g} :
           /\ status'[h] = status[h] /\ activated'[h] = activated[h]
           /\ notified'[h] = notified[h] /\ told'[h] = told[h] /\ used'[h] = used[h],
         Announced(g)',
         call'[c].pc \in Announcing => call'[c].grant = g,
         call'[c].pc \notin TenantPcs,
         Announces(c)',
         \A d \in Calls \ {c} : call[d].pc \in OperatorPcs \cup TenantPcs /\ call[d].grant = g =>
           /\ call[d].pc \in Announcing => Announces(d)' /\ call'[c].pc \notin Announcing
           /\ ReadStands(d)'
  PROVE  AccessParts'
<1>0. Announcing \subseteq OperatorPcs /\ {"approve", "deny", "revoke"} \subseteq TenantPcs
  BY DEF Announcing, OperatorPcs, TenantPcs
<1>1. ASSUME NEW d \in Calls PROVE Announces(d)' /\ ReadStands(d)'
  <2>1. CASE d = c
    BY <1>0, <2>1 DEF ReadStands
  <2>2. CASE d # c
    <3>1. call'[d] = call[d] /\ Announces(d) /\ ReadStands(d)
      BY <2>2 DEF AccessParts
    <3>2. call[d].pc \in OperatorPcs \cup TenantPcs => call[d].grant \in Grants
      BY CallShape
    <3>3. Announces(d)'
      <4> SUFFICES ASSUME call[d].pc \in Announcing PROVE Announces(d)'
        BY <3>1 DEF Announces
      <4>1. call[d].grant \in Grants
        BY <1>0, <3>2
      <4>2. CASE call[d].grant = g
        BY <1>0, <2>2, <4>2
      <4>3. CASE call[d].grant # g
        BY <3>1, <4>1, <4>3 DEF Announces
      <4> QED BY <4>2, <4>3
    <3>4. ReadStands(d)'
      <4> SUFFICES ASSUME call[d].pc \in {"approve", "deny", "revoke"} PROVE ReadStands(d)'
        BY <3>1 DEF ReadStands
      <4>1. call[d].grant \in Grants
        BY <1>0, <3>2
      <4>2. CASE call[d].grant = g
        BY <1>0, <2>2, <4>2
      <4>3. CASE call[d].grant # g
        BY <3>1, <4>1, <4>3 DEF ReadStands
      <4> QED BY <4>2, <4>3
    <3> QED BY <3>3, <3>4
  <2> QED BY <2>1, <2>2
<1>2. OneAnnouncer'
  <2> SUFFICES ASSUME NEW d \in Calls, NEW e \in Calls, d # e,
                      call'[d].pc \in Announcing, call'[e].pc \in Announcing,
                      call'[d].grant = call'[e].grant
               PROVE  FALSE
    BY DEF OneAnnouncer
  <2>1. CASE d # c /\ e # c
    BY <2>1 DEF AccessParts, OneAnnouncer
  <2>2. CASE d = c
    BY <1>0, <2>2
  <2>3. CASE e = c
    BY <1>0, <2>3
  <2> QED BY <2>1, <2>2, <2>3
<1>3. ASSUME NEW h \in Grants PROVE Announced(h)'
  BY DEF AccessParts, Announced
<1> QED BY <1>1, <1>2, <1>3 DEF AccessParts

\* A handler's step leaves the other handlers' records alone.
LEMMA OthersWait ==
  ASSUME TypeOK, NEW c \in Calls
  PROVE  /\ Return(c) => call'[c] = Idle /\ call'[c].pc = "idle" /\ \A d \in Calls \ {c} : call'[d] = call[d]
         /\ \A pc \in OperatorPcs : Goto(c, pc) /\ call[c].pc \in OperatorPcs =>
              /\ call'[c].pc = pc /\ call'[c].grant = call[c].grant
              /\ \A d \in Calls \ {c} : call'[d] = call[d]
<1>0. call \in [Calls -> {Idle} \cup Inserting \cup Acting]
  BY DEF TypeOK
<1>1. ASSUME Return(c)
      PROVE  call'[c] = Idle /\ call'[c].pc = "idle" /\ \A d \in Calls \ {c} : call'[d] = call[d]
  BY <1>0, <1>1 DEF Return, Idle
<1>2. ASSUME NEW pc \in OperatorPcs, Goto(c, pc), call[c].pc \in OperatorPcs
      PROVE  /\ call'[c].pc = pc /\ call'[c].grant = call[c].grant
             /\ \A d \in Calls \ {c} : call'[d] = call[d]
  <2>1. call[c] \in Acting
    BY <1>2, CallShape
  <2> QED BY <1>0, <1>2, <2>1 DEF Goto, Acting
<1> QED BY <1>1, <1>2

\* As OthersWait, of a handler that starts.
LEMMA OthersWaitAtStart ==
  ASSUME TypeOK, NEW c \in Calls, NEW pc, NEW g, NEW u, Start(c, pc, g, u)
  PROVE  /\ call'[c].pc = pc /\ call'[c].grant = g
         /\ \A d \in Calls \ {c} : call'[d] = call[d]
<1>1. PICK r : r = [pc |-> pc, grant |-> g, user |-> u]
  OBVIOUS
<1>2. r.pc = pc /\ r.grant = g
  BY <1>1
<1>3. call' = [call EXCEPT ![c] = r]
  BY <1>1 DEF Start
<1>4. call'[c] = r /\ \A d \in Calls \ {c} : call'[d] = call[d]
  BY <1>3 DEF TypeOK
<1> QED BY <1>2, <1>4

\* Reading starts a handler, and what it read is so; dying ends one.
LEMMA ReadsKeepAccess ==
  ASSUME TypeOK, AccessParts, NEW c \in Calls,
         \/ \E u \in Operators : RequestCheck(c, u)
         \/ \E g \in Grants, u \in Operators : ActivateRead(c, g, u) \/ ResolveElapsed(c, g, u)
         \/ \E g \in Grants, u \in Users :
              \/ ApproveRead(c, g, u) \/ DenyRead(c, g, u)
              \/ RevokeRead(c, g, u) \/ ReviewRead(c, g, u)
         \/ Abort(c)
  PROVE  AccessParts'
<1>0. call \in [Calls -> {Idle} \cup Inserting \cup Acting]
  BY DEF TypeOK
<1>1. ASSUME NEW u \in Operators, RequestCheck(c, u)
      PROVE  AccessParts'
  <2>1. PICK r : r = [pc |-> "insert", user |-> u]
    OBVIOUS
  <2>2. r.pc = "insert" /\ RowUnchanged /\ call' = [call EXCEPT ![c] = r]
    BY <1>1, <2>1 DEF RequestCheck
  <2>3. call'[c].pc = "insert" /\ \A d \in Calls \ {c} : call'[d] = call[d]
    BY <1>0, <2>2
  <2>4. call'[c].pc \notin Announcing /\ ReadStands(c)'
    BY <2>3 DEF Announcing, ReadStands
  <2> QED BY <2>2, <2>3, <2>4, OnlyCallMoves
<1>2. ASSUME NEW g \in Grants, NEW u, NEW pc \in {"update", "expire"} \cup TenantPcs,
             Start(c, pc, g, u), RowUnchanged,
             pc \in {"approve", "deny"} => status[g] = "requested",
             pc = "revoke" => status[g] \in {"approved", "active"}
      PROVE  AccessParts'
  <2>1. /\ call'[c].pc = pc /\ call'[c].grant = g
        /\ \A d \in Calls \ {c} : call'[d] = call[d]
    BY <1>2, OthersWaitAtStart
  <2>2. UNCHANGED status
    BY <1>2 DEF RowUnchanged
  <2>3. call'[c].pc \notin Announcing /\ ReadStands(c)'
    BY <1>2, <2>1, <2>2 DEF Announcing, ReadStands, TenantPcs
  <2> QED BY <1>2, <2>1, <2>3, OnlyCallMoves
<1>3. ASSUME NEW g \in Grants, NEW u \in Operators, ActivateRead(c, g, u) \/ ResolveElapsed(c, g, u)
      PROVE  AccessParts'
  BY <1>2, <1>3 DEF ActivateRead, ResolveElapsed, TenantPcs
<1>4. ASSUME NEW g \in Grants, NEW u \in Users,
             \/ ApproveRead(c, g, u) \/ DenyRead(c, g, u)
             \/ RevokeRead(c, g, u) \/ ReviewRead(c, g, u)
      PROVE  AccessParts'
  <2>1. {"approve", "deny", "revoke", "review"} \subseteq {"update", "expire"} \cup TenantPcs
    BY DEF TenantPcs
  <2> QED BY <1>2, <1>4, <2>1
          DEF ApproveRead, DenyRead, RevokeRead, ReviewRead, CanApprove, CanDeny, CanRevoke
<1>5. CASE Abort(c)
  <2>1. call'[c].pc = "idle" /\ RowUnchanged /\ \A d \in Calls \ {c} : call'[d] = call[d]
    BY <1>5, OthersWait DEF Abort
  <2>2. call'[c].pc \notin Announcing /\ ReadStands(c)'
    BY <2>1 DEF Announcing, ReadStands
  <2> QED BY <2>1, <2>2, OnlyCallMoves
<1> QED BY <1>1, <1>3, <1>4, <1>5

\* What an operator's handler writes keeps what the others rely on.
LEMMA OperatorKeepsAccess ==
  ASSUME TypeOK, AccessParts, NEW c \in Calls,
         \/ ActivateUpdate(c) \/ ActivateNotify(c) \/ ActivateRollback(c)
         \/ ActivateStamp(c) \/ ResolveExpire(c)
  PROVE  AccessParts'
<1>0. PICK g \in Grants : g = call[c].grant /\ call[c].pc \in OperatorPcs
  BY CallShape DEF ActivateUpdate, ActivateNotify, ActivateRollback, ActivateStamp, ResolveExpire,
     At, OperatorPcs
<1>1. \A d \in Calls : Announces(d) /\ ReadStands(d)
  BY DEF AccessParts
<1>2. Announced(g)
  BY <1>0 DEF AccessParts
<1>3. \A d \in Calls \ {c} : call[c].pc \in Announcing /\ call[d].grant = g => call[d].pc \notin Announcing
  BY <1>0 DEF AccessParts, OneAnnouncer
<1>4. CASE ActivateUpdate(c)
  <2>1. CASE status[g] = "approved"
    <3>1. /\ status' = [status EXCEPT ![g] = "active"]
          /\ activated' = [activated EXCEPT ![g] = TRUE]
          /\ told' = [told EXCEPT ![g] = FALSE]
          /\ UNCHANGED <<notified, used>> /\ Goto(c, "notify")
      BY <1>0, <1>4, <2>1 DEF ActivateUpdate
    <3>2. /\ call'[c].pc = "notify" /\ call'[c].grant = g
          /\ \A d \in Calls \ {c} : call'[d] = call[d]
      BY <1>0, <3>1, OthersWait DEF OperatorPcs
    <3>3. ~notified[g]
      BY <1>2, <2>1 DEF Announced, Reviewable
    <3>4. status'[g] = "active" /\ activated'[g] /\ ~notified'[g] /\ ~used'[g]
      BY <1>0, <1>2, <3>1, <3>3 DEF TypeOK, Announced
    <3>5. Announced(g)' /\ Announces(c)' /\ call'[c].pc \notin TenantPcs
      BY <3>2, <3>4 DEF Announced, Announces, Reviewable, TenantPcs
    <3>6. ASSUME NEW d \in Calls \ {c}, call[d].grant = g
          PROVE  call[d].pc \notin Announcing /\ ReadStands(d)'
      BY <1>1, <2>1, <3>2, <3>4, <3>6 DEF Announces, Reviewable, ReadStands
    <3>7. \A h \in Grants \ {g} :
            /\ status'[h] = status[h] /\ activated'[h] = activated[h]
            /\ notified'[h] = notified[h] /\ told'[h] = told[h] /\ used'[h] = used[h]
      BY <3>1 DEF TypeOK
    <3> QED BY <1>0, <3>2, <3>5, <3>6, <3>7, OneRowMoves
  <2>2. CASE status[g] # "approved"
    <3>1. Return(c) /\ UNCHANGED <<status, activated, told, notified, used>>
      BY <1>0, <1>4, <2>2 DEF ActivateUpdate
    <3>2. call'[c].pc = "idle" /\ \A d \in Calls \ {c} : call'[d] = call[d]
      BY <3>1, OthersWait
    <3>3. call'[c].pc \notin Announcing \cup TenantPcs
      BY <3>2 DEF Announcing, TenantPcs
    <3>4. Announced(g)' /\ Announces(c)'
      BY <1>2, <3>1, <3>3 DEF Announced, Announces
    <3>5. \A d \in Calls \ {c} : Announces(d)' /\ ReadStands(d)'
      BY <1>1, <3>1, <3>2 DEF Announces, ReadStands
    <3> QED BY <1>0, <3>1, <3>2, <3>3, <3>4, <3>5, OneRowMoves
  <2> QED BY <2>1, <2>2
<1>5. CASE ActivateNotify(c)
  <2>1. /\ UNCHANGED <<status, activated, notified, used>>
        /\ call[c].pc = "notify"
        /\ \/ told' = [told EXCEPT ![g] = TRUE] /\ Goto(c, "stamp")
           \/ UNCHANGED told /\ Goto(c, "rollback")
    BY <1>0, <1>5 DEF ActivateNotify, At
  <2>2. /\ call'[c].pc \in {"stamp", "rollback"} /\ call'[c].grant = g
        /\ \A d \in Calls \ {c} : call'[d] = call[d]
        /\ call'[c].pc = "stamp" => told' = [told EXCEPT ![g] = TRUE]
    BY <1>0, <2>1, OthersWait DEF OperatorPcs
  <2>3. (told[g] => told'[g]) /\ \A h \in Grants \ {g} : told'[h] = told[h]
    BY <1>0, <2>1 DEF TypeOK
  <2>4. Announced(g)' /\ call'[c].pc \notin TenantPcs
    BY <1>2, <2>1, <2>2, <2>3 DEF Announced, TenantPcs
  <2>5. Announces(c)'
    <3>1. activated[g] /\ ~notified[g] /\ status[g] \in Reviewable
      BY <1>0, <1>1, <2>1 DEF Announces, Announcing
    <3>2. call'[c].pc = "stamp" => told'[g]
      BY <1>0, <2>2 DEF TypeOK
    <3> QED BY <2>1, <2>2, <3>1, <3>2 DEF Announces
  <2>6. ASSUME NEW d \in Calls \ {c}, call[d].grant = g
        PROVE  call[d].pc \notin Announcing /\ ReadStands(d)'
    BY <1>1, <1>3, <2>1, <2>2, <2>6 DEF ReadStands, Announcing
  <2> QED BY <1>0, <2>1, <2>2, <2>3, <2>4, <2>5, <2>6, OneRowMoves
<1>6. CASE ActivateRollback(c) \/ ActivateStamp(c) \/ ResolveExpire(c)
  <2>1. Return(c)
    BY <1>6 DEF ActivateRollback, ActivateStamp, ResolveExpire
  <2>2. call'[c].pc = "idle" /\ \A d \in Calls \ {c} : call'[d] = call[d]
    BY <2>1, OthersWait
  <2>3. call'[c].pc \notin Announcing \cup TenantPcs /\ Announces(c)'
    BY <2>2 DEF Announcing, TenantPcs, Announces
  <2>4. CASE ActivateRollback(c)
    <3>1. /\ UNCHANGED <<notified, told, used>> /\ call[c].pc \in Announcing
          /\ \/ /\ status[g] = "active" /\ ~notified[g]
                /\ status' = [status EXCEPT ![g] = "approved"]
                /\ activated' = [activated EXCEPT ![g] = FALSE]
             \/ UNCHANGED <<status, activated>>
      BY <1>0, <2>4 DEF ActivateRollback, MayRollBack, At, Announcing
    <3>2. Announced(g)'
      BY <1>2, <3>1 DEF Announced
    <3>3. ASSUME NEW d \in Calls \ {c}, call[d].grant = g
          PROVE  call[d].pc \notin Announcing /\ ReadStands(d)'
      BY <1>0, <1>1, <1>3, <2>2, <3>1, <3>3 DEF ReadStands, TypeOK
    <3>4. \A h \in Grants \ {g} :
            /\ status'[h] = status[h] /\ activated'[h] = activated[h]
            /\ notified'[h] = notified[h] /\ told'[h] = told[h] /\ used'[h] = used[h]
      BY <3>1 DEF TypeOK
    <3> QED BY <1>0, <2>2, <2>3, <3>2, <3>3, <3>4, OneRowMoves
  <2>5. CASE ActivateStamp(c)
    <3>1. /\ UNCHANGED <<status, activated, told, used>> /\ call[c].pc = "stamp"
          /\ notified' = [notified EXCEPT ![g] = TRUE]
      BY <1>0, <2>5 DEF ActivateStamp, At
    <3>2. told[g] /\ activated[g] /\ status[g] \in Reviewable
      BY <1>0, <1>1, <3>1 DEF Announces, Announcing
    <3>3. Announced(g)'
      BY <1>0, <3>1, <3>2 DEF Announced, TypeOK
    <3>4. ASSUME NEW d \in Calls \ {c}, call[d].grant = g
          PROVE  call[d].pc \notin Announcing /\ ReadStands(d)'
      BY <1>1, <1>3, <2>2, <3>1, <3>4 DEF ReadStands, Announcing
    <3>5. \A h \in Grants \ {g} : notified'[h] = notified[h]
      BY <3>1 DEF TypeOK
    <3> QED BY <1>0, <2>2, <2>3, <3>1, <3>3, <3>4, <3>5, OneRowMoves
  <2>6. CASE ResolveExpire(c)
    <3>1. /\ UNCHANGED <<activated, notified, told, used>>
          /\ status' = [status EXCEPT ![g] = IF status[g] = "active" THEN "expired" ELSE status[g]]
      BY <1>0, <2>6 DEF ResolveExpire
    <3>2. Announced(g)'
      BY <1>0, <1>2, <3>1 DEF Announced, TypeOK, Reviewable
    <3>3. ASSUME NEW d \in Calls \ {c}, call[d].grant = g
          PROVE  Announces(d)' /\ ReadStands(d)'
      <4>1. status'[g] = status[g] \/ (status[g] = "active" /\ status'[g] = "expired")
        BY <1>0, <3>1 DEF TypeOK
      <4> QED BY <1>1, <2>2, <3>1, <3>3, <4>1 DEF Announces, ReadStands, Reviewable
    <3>4. \A h \in Grants \ {g} : status'[h] = status[h]
      BY <3>1 DEF TypeOK
    <3> QED BY <1>0, <2>2, <2>3, <3>1, <3>2, <3>3, <3>4, OneRowMoves
  <2> QED BY <1>6, <2>4, <2>5, <2>6
<1> QED BY <1>4, <1>5, <1>6

\* What the organisation's handler writes, and a new row, keep it too: no other
\* handler of the organisation is at work.
LEMMA TenantKeepsAccess ==
  ASSUME TypeOK, AccessParts, Alone, NEW c \in TenantCalls,
         \A d \in Calls : call[d].pc \in TenantPcs => d \in TenantCalls,
         ApproveCommit(c) \/ DenyCommit(c) \/ RevokeCommit(c) \/ ReviewCommit(c)
  PROVE  AccessParts'
<1>c. c \in Calls
  BY DEF Calls
<1>0. PICK g \in Grants : g = call[c].grant /\ call[c].pc \in TenantPcs
  BY <1>c, CallShape DEF ApproveCommit, DenyCommit, RevokeCommit, ReviewCommit, At, TenantPcs
<1>1. \A d \in Calls : Announces(d) /\ ReadStands(d)
  BY DEF AccessParts
<1>2. Announced(g)
  BY <1>0 DEF AccessParts
<1>3. /\ Return(c) /\ UNCHANGED <<activated, notified, told, used>>
      /\ \/ status' = [status EXCEPT ![g] = "approved"] /\ call[c].pc = "approve"
         \/ status' = [status EXCEPT ![g] = "denied"] /\ call[c].pc = "deny"
         \/ status' = [status EXCEPT ![g] = "revoked"] /\ call[c].pc = "revoke"
         \/ UNCHANGED status
  BY <1>0 DEF ApproveCommit, DenyCommit, RevokeCommit, ReviewCommit, At
<1>4. call'[c].pc = "idle" /\ \A d \in Calls \ {c} : call'[d] = call[d]
  BY <1>c, <1>3, OthersWait
<1>5. call'[c].pc \notin Announcing \cup TenantPcs /\ Announces(c)'
  BY <1>4 DEF Announcing, TenantPcs, Announces
<1>6. \A d \in Calls \ {c} : call[d].pc \notin TenantPcs
  <2>1. Idle.pc \notin TenantPcs
    BY DEF Idle, TenantPcs
  <2> QED BY <1>0, <2>1 DEF Alone
<1>7. \/ UNCHANGED status
      \/ status[g] = "requested" /\ \A h \in Grants \ {g} : status'[h] = status[h]
      \/ /\ status[g] \in {"approved", "active", "expired"} /\ status'[g] = "revoked"
         /\ \A h \in Grants \ {g} : status'[h] = status[h]
  BY <1>c, <1>0, <1>1, <1>3 DEF ReadStands, TypeOK
<1>8. Announced(g)'
  BY <1>2, <1>3, <1>7 DEF Announced, Reviewable
<1>9. ASSUME NEW d \in Calls \ {c}, call[d].grant = g
      PROVE  (call[d].pc \in Announcing => Announces(d)') /\ ReadStands(d)'
  <2>1. ReadStands(d)'
    BY <1>4, <1>6 DEF ReadStands, TenantPcs
  <2>2. call[d].pc \in Announcing => Announces(d)'
    BY <1>1, <1>3, <1>4, <1>7, <1>9 DEF Announces, Reviewable
  <2> QED BY <2>1, <2>2
<1> QED BY <1>c, <1>0, <1>3, <1>4, <1>5, <1>7, <1>8, <1>9, OneRowMoves

\* A row that is inserted has no handler yet.
LEMMA InsertKeepsAccess ==
  ASSUME TypeOK, AccessParts, NEW c \in Calls, NEW g \in Grants, RequestInsert(c, g)
  PROVE  AccessParts'
<1>1. \A d \in Calls : Announces(d) /\ ReadStands(d)
  BY DEF AccessParts
<1>2. /\ Return(c) /\ UNCHANGED <<activated, notified, told, used>> /\ status[g] = "absent"
      /\ \A h \in Grants \ {g} : status'[h] = status[h]
  BY DEF RequestInsert, TypeOK
<1>3. call'[c].pc = "idle" /\ \A d \in Calls \ {c} : call'[d] = call[d]
  BY <1>2, OthersWait
<1>4. call'[c].pc \notin Announcing \cup TenantPcs /\ Announces(c)'
  BY <1>3 DEF Announcing, TenantPcs, Announces
<1>5. Announced(g)'
  BY <1>2 DEF AccessParts, Announced, Reviewable
<1>6. ASSUME NEW d \in Calls \ {c}, call[d].grant = g
      PROVE  call[d].pc \notin Announcing /\ ReadStands(d)'
  BY <1>1, <1>2, <1>3, <1>6 DEF Announces, Reviewable, ReadStands
<1> QED BY <1>2, <1>3, <1>4, <1>5, <1>6, OneRowMoves

\* Approving, denying, revoking and reviewing stay with the organisation.
LEMMA KindsStay ==
  ASSUME TypeOK, \A c \in Calls : call[c].pc \in TenantPcs => c \in TenantCalls, Next
  PROVE  \A c \in Calls : call'[c].pc \in TenantPcs => c \in TenantCalls
<1>0. "idle" \notin TenantPcs /\ "insert" \notin TenantPcs /\ OperatorPcs \cap TenantPcs = {}
  BY DEF TenantPcs, OperatorPcs
<1>1. ASSUME NEW c \in Calls, call'[c].pc \notin TenantPcs \/ c \in TenantCalls,
             \A d \in Calls \ {c} : call'[d] = call[d]
      PROVE  \A d \in Calls : call'[d].pc \in TenantPcs => d \in TenantCalls
  BY <1>1
<1>2. CASE UNCHANGED call
  BY <1>2
<1>3. ASSUME NEW c \in Calls, Return(c)
      PROVE  \A d \in Calls : call'[d].pc \in TenantPcs => d \in TenantCalls
  BY <1>0, <1>1, <1>3, OthersWait
<1>4. ASSUME NEW c \in OperatorCalls, OperatorNext(c)
      PROVE  \A d \in Calls : call'[d].pc \in TenantPcs => d \in TenantCalls
  <2> c \in Calls BY DEF Calls
  <2>1. ASSUME NEW u \in Operators, RequestCheck(c, u)
        PROVE  \A d \in Calls : call'[d].pc \in TenantPcs => d \in TenantCalls
    <3>1. PICK r : r = [pc |-> "insert", user |-> u]
      OBVIOUS
    <3>2. r.pc = "insert" /\ call' = [call EXCEPT ![c] = r]
      BY <2>1, <3>1 DEF RequestCheck
    <3>3. call'[c].pc = "insert" /\ \A d \in Calls \ {c} : call'[d] = call[d]
      BY <3>2 DEF TypeOK
    <3> QED BY <1>0, <1>1, <3>3
  <2>2. ASSUME NEW g \in Grants, NEW u \in Operators, ActivateRead(c, g, u) \/ ResolveElapsed(c, g, u)
        PROVE  \A d \in Calls : call'[d].pc \in TenantPcs => d \in TenantCalls
    <3>1. PICK pc \in OperatorPcs : Start(c, pc, g, u)
      BY <2>2 DEF ActivateRead, ResolveElapsed, OperatorPcs
    <3> QED BY <1>0, <1>1, <3>1, OthersWaitAtStart
  <2>3. CASE \/ \E g \in Grants : RequestInsert(c, g)
             \/ ActivateRollback(c) \/ ActivateStamp(c) \/ ResolveExpire(c)
    BY <1>3, <2>3 DEF RequestInsert, ActivateRollback, ActivateStamp, ResolveExpire
  <2>4. CASE ActivateUpdate(c) \/ ActivateNotify(c)
    <3>1. \/ Return(c)
          \/ \E pc \in OperatorPcs : Goto(c, pc) /\ call[c].pc \in OperatorPcs
      BY <2>4 DEF ActivateUpdate, ActivateNotify, At, OperatorPcs
    <3> QED BY <1>0, <1>1, <1>3, <3>1, OthersWait
  <2> QED BY <1>4, <2>1, <2>2, <2>3, <2>4 DEF OperatorNext
<1>5. ASSUME NEW c \in TenantCalls, TenantNext(c)
      PROVE  \A d \in Calls : call'[d].pc \in TenantPcs => d \in TenantCalls
  <2> c \in Calls BY DEF Calls
  <2>1. ASSUME NEW g, NEW u, NEW pc, Start(c, pc, g, u)
        PROVE  \A d \in Calls : call'[d].pc \in TenantPcs => d \in TenantCalls
    BY <1>1, <2>1, OthersWaitAtStart
  <2> QED BY <1>3, <1>5, <2>1 DEF TenantNext, ApproveRead, DenyRead, RevokeRead, ReviewRead,
        ApproveCommit, DenyCommit, RevokeCommit, ReviewCommit
<1> QED BY <1>2, <1>3, <1>4, <1>5 DEF Next, Elapse, FallDue, ResolveUse, ExpireElapsed, Abort

\* The invariant is inductive.
LEMMA AccessStep == AccessHolds /\ [PlatformNext]_everything => AccessHolds'
<1> SUFFICES ASSUME AccessHolds, [PlatformNext]_everything PROVE AccessHolds'
  OBVIOUS
<1>1. CASE UNCHANGED vars /\ (~overlapped' => ~overlapped)
  <2>1. UNCHANGED <<status, requester, approver, reviewer, activated, notified, elapsed, overdue, told, used, call>>
    BY <1>1 DEF vars, people, clock
  <2>2. TypeOK' /\ (Alone' <=> Alone)
    BY <2>1 DEF AccessHolds, TypeOK, Alone
  <2>3. AccessParts => AccessParts'
    BY <2>1 DEF AccessParts, OneAnnouncer, Announces, ReadStands, Announced
  <2> QED BY <1>1, <2>1, <2>2, <2>3 DEF AccessHolds
<1>2. CASE Next /\ overlapped' = (overlapped \/ Overlap')
  <2>1. TypeOK /\ TypeOK'
    BY <1>2, TypeStep DEF AccessHolds
  <2>2. (\A c \in Calls : call[c].pc \in TenantPcs => c \in TenantCalls)'
    BY <1>2, <2>1, KindsStay DEF AccessHolds
  <2>3. ASSUME ~overlapped' PROVE Alone' /\ AccessParts'
    <3>1. ~overlapped /\ ~Overlap' /\ Alone /\ AccessParts
      BY <1>2, <2>3 DEF AccessHolds
    <3>2. Alone'
      BY <3>1 DEF Overlap, Alone
    <3>3. CASE ExpireElapsed \/ \E g \in Grants : Elapse(g) \/ FallDue(g) \/ ResolveUse(g)
      <4>1. UNCHANGED <<call, activated, notified, told>>
        BY <3>3 DEF ExpireElapsed, Elapse, FallDue, ResolveUse
      <4>2. \A g \in Grants :
              /\ status'[g] = status[g] \/ (status[g] = "active" /\ status'[g] = "expired")
              /\ used'[g] => notified[g]
        <5>1. \A g \in Grants : used[g] => notified[g]
          BY <3>1 DEF AccessParts, Announced
        <5>2. CASE ExpireElapsed
          BY <5>1, <5>2 DEF ExpireElapsed
        <5>3. CASE \E g \in Grants : Elapse(g) \/ FallDue(g) \/ ResolveUse(g)
          BY <2>1, <5>1, <5>3 DEF Elapse, FallDue, ResolveUse, Usable, TypeOK
        <5> QED BY <3>3, <5>2, <5>3
      <4> QED BY <2>1, <3>1, <3>2, <4>1, <4>2, OnlyRowsMove
    <3>4. CASE \E c \in OperatorCalls : OperatorNext(c)
      BY <2>1, <3>1, <3>2, <3>4, ReadsKeepAccess, OperatorKeepsAccess, InsertKeepsAccess DEF OperatorNext, Calls
    <3>5. CASE \E c \in TenantCalls : TenantNext(c)
      BY <2>1, <3>1, <3>2, <3>5, ReadsKeepAccess, TenantKeepsAccess DEF TenantNext, Calls, AccessHolds
    <3>6. CASE \E c \in Calls : Abort(c)
      BY <2>1, <3>1, <3>2, <3>6, ReadsKeepAccess
    <3> QED BY <1>2, <3>2, <3>3, <3>4, <3>5, <3>6 DEF Next
  <2> QED BY <2>1, <2>2, <2>3 DEF AccessHolds
<1>3. CASE UNCHANGED everything
  BY <1>1, <1>3 DEF everything, history
<1>4. CASE PlatformNext
  <2>1. overlapped' = (overlapped \/ Overlap') /\ (UNCHANGED vars \/ Next)
    BY <1>4 DEF PlatformNext
  <2> QED BY <1>1, <1>2, <2>1
<1> QED BY <1>3, <1>4

\* Nothing has been asked for yet.
LEMMA AccessInit == PlatformInit => AccessHolds
<1> SUFFICES ASSUME PlatformInit PROVE AccessHolds
  OBVIOUS
<1>1. Init
  BY DEF PlatformInit
<1>2. TypeOK
  BY <1>1 DEF Init, TypeOK
<1>3. \A c \in Calls : call[c] = Idle /\ call[c].pc = "idle"
  BY <1>1 DEF Init, Idle
<1>4. Alone /\ \A c \in Calls : call[c].pc \notin TenantPcs \cup Announcing
  BY <1>3 DEF Alone, Calls, TenantPcs, Announcing
<1>5. AccessParts
  BY <1>1, <1>3, <1>4 DEF Init, AccessParts, Announces, ReadStands, OneAnnouncer, Announced
<1> QED BY <1>2, <1>4, <1>5 DEF AccessHolds

\* For any number of grants and handlers, as long as the organisation's own
\* requests do not overlap: nobody reads under a grant whose activation the
\* approvers were not told of, and a read always leaves a review to be filed.
THEOREM UseIsWatched == PlatformSpec => []SerialUseIsWatched
<1>1. AccessHolds => SerialUseIsWatched
  <2> SUFFICES ASSUME AccessHolds, ~overlapped PROVE UsableIsNoticed /\ UsedOwesReview
    BY DEF AccessHolds, SerialUseIsWatched
  <2> QED BY DEF AccessHolds, AccessParts, Announced, UsableIsNoticed, Usable, UsedOwesReview
<1> QED BY <1>1, AccessInit, AccessStep, PTL DEF PlatformSpec

\* And a grant the organisation denied or revoked stays so.
THEOREM RefusalsAreFinal == PlatformSpec => SerialRefusalIsFinal
<1>1. AccessHolds /\ [PlatformNext]_everything => [overlapped' \/ KeepsRefusals]_<<vars, overlapped>>
  <2> SUFFICES ASSUME AccessHolds, PlatformNext, ~overlapped' PROVE KeepsRefusals
    BY DEF everything, history
  <2>1. TypeOK /\ AccessParts
    BY DEF PlatformNext, AccessHolds
  <2>2. \A c \in Calls : ReadStands(c)
    BY <2>1 DEF AccessParts
  <2>3. CASE UNCHANGED vars
    BY <2>3 DEF vars, KeepsRefusals
  <2>4. CASE Next
    <3>1. CASE UNCHANGED status
      BY <3>1 DEF KeepsRefusals
    <3>2. CASE ExpireElapsed
      BY <3>2 DEF ExpireElapsed, KeepsRefusals
    <3>3. ASSUME NEW c \in Calls, NEW g \in Grants, RequestInsert(c, g) PROVE KeepsRefusals
      BY <2>1, <3>3 DEF RequestInsert, KeepsRefusals, TypeOK
    <3>4. ASSUME NEW c \in Calls, ActivateUpdate(c) \/ ActivateRollback(c) \/ ResolveExpire(c)
          PROVE  KeepsRefusals
      BY <2>1, <3>4 DEF ActivateUpdate, ActivateRollback, MayRollBack, ResolveExpire, KeepsRefusals, TypeOK
    <3>5. ASSUME NEW c \in Calls, ApproveCommit(c) \/ DenyCommit(c) \/ RevokeCommit(c)
          PROVE  KeepsRefusals
      BY <2>1, <2>2, <3>5
         DEF ApproveCommit, DenyCommit, RevokeCommit, At, ReadStands, KeepsRefusals, TypeOK
    <3>6. \/ UNCHANGED status \/ ExpireElapsed
          \/ \E c \in Calls, g \in Grants : RequestInsert(c, g)
          \/ \E c \in Calls : \/ ActivateUpdate(c) \/ ActivateRollback(c) \/ ResolveExpire(c)
                              \/ ApproveCommit(c) \/ DenyCommit(c) \/ RevokeCommit(c)
      BY <2>4 DEF Next, OperatorNext, TenantNext, Calls, Elapse, FallDue, ResolveUse,
             RequestCheck, ActivateRead, ResolveElapsed, ActivateNotify, ActivateStamp,
             ApproveRead, DenyRead, RevokeRead, ReviewRead, ReviewCommit, Abort, RowUnchanged
    <3> QED BY <3>1, <3>2, <3>3, <3>4, <3>5, <3>6
  <2> QED BY <2>3, <2>4 DEF PlatformNext
<1> QED BY <1>1, AccessInit, AccessStep, PTL DEF PlatformSpec, SerialRefusalIsFinal

-----------------------------------------------------------------------------
(* Migrating: the least and the greatest of sets of numbers.               *)

\* A bounded one has a greatest, and Max is it.
LEMMA MaxIs ==
  ASSUME NEW n \in Nat, NEW S \in SUBSET (0 .. n), S # {}
  PROVE  Schema!Max(S) \in S /\ \A k \in S : k <= Schema!Max(S)
<1> DEFINE T == {n - k : k \in S}
<1>1. T \in SUBSET Nat
  OBVIOUS
<1>0. T # {}
  OBVIOUS
<1>2. PICK t \in T : \A u \in T : t <= u
  <2> HIDE DEF T
  <2> QED BY <1>0, <1>1, LeastExists
<1>3. PICK m \in S : t = n - m
  BY <1>2
<1>4. \A k \in S : k <= m
  <2> SUFFICES ASSUME NEW k \in S PROVE k <= m
    OBVIOUS
  <2>1. n - m <= n - k
    BY <1>2, <1>3
  <2> QED BY <2>1
<1>5. \E x \in S : \A y \in S : x >= y
  BY <1>4
<1> QED BY <1>5 DEF Schema!Max

-----------------------------------------------------------------------------
(* Migrating: statements, and what is left of a migration.                 *)

\* A statement is a migration of the journal and a place in its file.
LEMMA StatementShape ==
  /\ Len(Files) \in Nat \ {0} /\ DOMAIN Files = 1 .. Len(Files)
  /\ \A s \in Schema!Statements :
       /\ s[1] \in DOMAIN Files /\ s[2] \in 1 .. Len(Files[s[1]]) /\ Len(Files[s[1]]) \in Nat
       /\ s = <<s[1], s[2]>>
<1>1. Len(Files) \in Nat \ {0} /\ DOMAIN Files = 1 .. Len(Files)
  BY PlatformAssumption
<1>2. ASSUME NEW s \in Schema!Statements
      PROVE  /\ s[1] \in DOMAIN Files /\ s[2] \in 1 .. Len(Files[s[1]]) /\ Len(Files[s[1]]) \in Nat
             /\ s = <<s[1], s[2]>>
  <2>1. PICK m \in DOMAIN Files : s \in {m} \X DOMAIN Files[m]
    BY DEF Schema!Statements
  <2>2. Files[m] \in Seq({"plain", "index", "validate"})
    BY PlatformAssumption
  <2>3. DOMAIN Files[m] = 1 .. Len(Files[m]) /\ Len(Files[m]) \in Nat
    BY <2>2
  <2> QED BY <2>1, <2>3
<1> QED BY <1>1, <1>2

\* What the program counter says about the rest of a Job's record.
LEMMA JobShape ==
  ASSUME Schema!TypeOK, NEW j \in Jobs
  PROVE  /\ migrator[j].pc \in Schema!Migrating => migrator[j] \in Schema!Applying
         /\ migrator[j].pc \in Schema!Migrating =>
              /\ migrator[j].upto \in DOMAIN Files
              /\ migrator[j].at \in 1 .. Len(Files) + 1
              /\ migrator[j].index \in Nat
              /\ migrator[j].done \subseteq Schema!Statements
         /\ migrator[j].pc \in Schema!Granting \cup {"complete"} =>
              migrator[j] \in Schema!Serving /\ migrator[j].upto \in DOMAIN Files
         /\ migrator[j].pc = "idle" => migrator[j] = Schema!Idle
<1>1. migrator[j] \in {Schema!Idle} \cup Schema!Applying \cup Schema!Serving
  BY DEF Schema!TypeOK
<1>2. CASE migrator[j] = Schema!Idle
  BY <1>2 DEF Schema!Idle, Schema!Migrating, Schema!Granting
<1>3. CASE migrator[j] \in Schema!Applying
  BY <1>3 DEF Schema!Applying, Schema!Migrating, Schema!Granting
<1>4. CASE migrator[j] \in Schema!Serving
  BY <1>4 DEF Schema!Serving, Schema!Migrating, Schema!Granting
<1> QED BY <1>1, <1>2, <1>3, <1>4

\* The next statement is the first that is left.
LEMMA NextLeftIs ==
  ASSUME NEW j \in Jobs, Schema!Left(j) # {}
  PROVE  /\ Schema!NextLeft(j) \in Schema!Left(j)
         /\ \A t \in Schema!Left(j) : Schema!NextLeft(j)[2] <= t[2]
<1> DEFINE S == {s[2] : s \in Schema!Left(j)}
<1>1. S \in SUBSET Nat /\ S # {}
  BY StatementShape DEF Schema!Left
<1>2. PICK m \in S : \A k \in S : m <= k
  <2> HIDE DEF S
  <2> QED BY <1>1, LeastExists
<1>3. \E s \in Schema!Left(j) : \A t \in Schema!Left(j) : s[2] <= t[2]
  BY <1>2
<1> QED BY <1>3 DEF Schema!NextLeft

\* The last index of a batch.
LEMMA BatchEnds ==
  ASSUME NEW j \in Jobs, Schema!Batch(j) # {}, migrator[j].index \in Nat
  PROVE  LET last == Schema!Max({s[2] : s \in Schema!Batch(j)}) IN
         /\ last \in Nat /\ migrator[j].index <= last
         /\ \A s \in Schema!Batch(j) : s[2] <= last
         /\ \A s \in Schema!Left(j) : s[2] <= last => s \in Schema!Batch(j)
<1> DEFINE S == {s[2] : s \in Schema!Batch(j)}
           last == Schema!Max(S)
<1>1. PICK a \in Schema!Batch(j) : TRUE
  OBVIOUS
<1>2. \A s \in Schema!Batch(j) : /\ s \in Schema!Left(j) /\ s \in Schema!Statements /\ s[1] = migrator[j].at
                                 /\ s[2] >= migrator[j].index
  BY DEF Schema!Batch, Schema!Left
<1>3. a[1] = migrator[j].at /\ Len(Files[migrator[j].at]) \in Nat
  BY <1>1, <1>2, StatementShape
<1>4. S \in SUBSET (0 .. Len(Files[migrator[j].at])) /\ S # {}
  <2>1. ASSUME NEW s \in Schema!Batch(j) PROVE s[2] \in 0 .. Len(Files[migrator[j].at])
    BY <1>2, <1>3, <2>1, StatementShape
  <2> QED BY <1>1, <2>1
<1>5. last \in S /\ \A k \in S : k <= last
  <2> HIDE DEF S
  <2> QED BY <1>3, <1>4, MaxIs
<1>6. PICK b \in Schema!Batch(j) : b[2] = last
  BY <1>5
<1>7. \A s \in Schema!Batch(j) : s[2] <= last
  BY <1>5
<1>8. last \in Nat /\ migrator[j].index <= last
  BY <1>2, <1>6, StatementShape
<1>9. ASSUME NEW s \in Schema!Left(j), s[2] <= last PROVE s \in Schema!Batch(j)
  <2>1. \A t \in Schema!Left(j) : t[2] \in Nat
    BY StatementShape DEF Schema!Left
  <2>2. \A t \in Schema!Left(j) : t[2] <= last => ~Schema!OutsideTransaction(t)
    BY <1>6 DEF Schema!Batch
  <2>3. \A t \in Schema!Left(j) : t[2] <= s[2] => ~Schema!OutsideTransaction(t)
    <3> HIDE DEF last
    <3> QED BY <1>8, <1>9, <2>1, <2>2
  <2> QED BY <2>3 DEF Schema!Batch
<1> QED BY <1>7, <1>8, <1>9

-----------------------------------------------------------------------------
(* Migrating: how the steps of a Job move the invariant.                   *)

\* Counting from 0 goes further down than counting from 1.
LEMMA IntervalGrows == \A n \in Nat : \A k \in 1 .. n : k \in 0 .. n
OBVIOUS

\* What is left for a Job is a matter of its place, whatever else moves.
LEMMA SameLeft ==
  ASSUME NEW j \in Jobs, migrator'[j].at = migrator[j].at,
         migrator'[j].index = migrator[j].index, migrator'[j].done = migrator[j].done
  PROVE  Schema!Left(j)' = Schema!Left(j) /\ Schema!NextLeft(j)' = Schema!NextLeft(j)
<1>1. Schema!Left(j)' = Schema!Left(j)
  BY DEF Schema!Left
<1> QED BY <1>1 DEF Schema!NextLeft

\* A Job that goes on at the same place.
LEMMA ContinuesAt ==
  ASSUME Schema!TypeOK, NEW j \in Jobs, NEW pc \in Schema!Migrating,
         migrator[j].pc \in Schema!Migrating, Schema!Continues(j, pc)
  PROVE  /\ migrator'[j] \in Schema!Applying /\ migrator'[j].pc = pc
         /\ migrator'[j].upto = migrator[j].upto /\ migrator'[j].at = migrator[j].at
         /\ migrator'[j].index = migrator[j].index /\ migrator'[j].done = migrator[j].done
         /\ \A k \in Jobs \ {j} : migrator'[k] = migrator[k]
         /\ Schema!Left(j)' = Schema!Left(j) /\ Schema!NextLeft(j)' = Schema!NextLeft(j)
         /\ migrator' = [migrator EXCEPT ![j] = migrator'[j]]
<1>1. migrator[j] \in Schema!Applying
  BY JobShape
<1>2. PICK r : r = [migrator[j] EXCEPT !.pc = pc]
  OBVIOUS
<1>3. /\ r \in Schema!Applying /\ r.pc = pc /\ r.upto = migrator[j].upto /\ r.at = migrator[j].at
      /\ r.index = migrator[j].index /\ r.done = migrator[j].done
  BY <1>1, <1>2 DEF Schema!Applying
<1>4. migrator' = [migrator EXCEPT ![j] = r]
  BY <1>2 DEF Schema!Continues, Schema!Becomes
<1>5. migrator'[j] = r /\ \A k \in Jobs \ {j} : migrator'[k] = migrator[k]
  BY <1>4 DEF Schema!TypeOK
<1> QED BY <1>3, <1>4, <1>5, SameLeft

\* A Job that holds the lock, or takes it, keeps the invariant when it stays at
\* the migration after the last one applied, knows what is noted of it, and the
\* notes stay true.
LEMMA HolderMoves ==
  ASSUME SchemaCore, NEW j \in Jobs, NEW r \in Schema!Applying,
         migrator' = [migrator EXCEPT ![j] = r],
         lock \in {None, j}, lock' = j, Schema!ServingUnchanged,
         effect' \in [Schema!Statements -> {"absent", "present", "invalid"}],
         \A s \in Schema!Statements : effect'[s] = "invalid" => Schema!Kind(s) = "index",
         applied \subseteq applied', progress' \subseteq Schema!Statements,
         \E n \in 0 .. Len(Files) : applied' = 1 .. n /\ r.at = n + 1,
         Noted', Known(j)'
  PROVE  SchemaCore'
<1>t. Schema!TypeOK
  BY DEF SchemaCore
<1>s. UNCHANGED <<released, rolled, triggers, may>>
  BY DEF Schema!ServingUnchanged
<1>1. migrator'[j] = r /\ r.pc \in Schema!Migrating /\ \A k \in Jobs \ {j} : migrator'[k] = migrator[k]
  BY <1>t DEF Schema!TypeOK, Schema!Applying
<1>2. \A k \in Jobs \ {j} : migrator[k].pc \notin Schema!Migrating
  BY PlatformAssumption DEF SchemaCore, InTurn
<1>3. Schema!TypeOK'
  <2>1. migrator' \in [Jobs -> {Schema!Idle} \cup Schema!Applying \cup Schema!Serving]
    BY <1>t DEF Schema!TypeOK
  <2>2. applied' \subseteq DOMAIN Files
    BY StatementShape
  <2> QED BY <1>t, <1>s, <2>1, <2>2 DEF Schema!TypeOK
<1>4. InTurn'
  BY <1>1, <1>2 DEF InTurn
<1>5. Schema!SchemaFirst'
  <2>1. 1 .. rolled \subseteq applied
    BY DEF SchemaCore, Schema!SchemaFirst
  <2>2. ASSUME NEW k \in Jobs, migrator'[k].pc \in Schema!Granting \cup {"complete"}
        PROVE  1 .. migrator'[k].upto \subseteq applied'
    <3>1. k # j
      BY <1>1, <2>2 DEF Schema!Migrating, Schema!Granting
    <3> QED BY <1>1, <2>2, <3>1 DEF SchemaCore, Schema!SchemaFirst
  <2> QED BY <1>s, <2>1, <2>2 DEF Schema!SchemaFirst
<1>6. GuardedFirst' /\ Schema!Guarded'
  BY <1>s, <1>1 DEF SchemaCore, GuardedFirst, Schema!Guarded, Schema!Migrating
<1>7. ASSUME NEW k \in Jobs \ {j} PROVE Known(k)'
  BY <1>1, <1>2 DEF Known, Busy, Schema!Migrating
<1> QED BY <1>3, <1>4, <1>5, <1>6, <1>7 DEF SchemaCore

\* A Job that does not migrate any more, or did not.
LEMMA ServerMoves ==
  ASSUME SchemaCore, NEW j \in Jobs, NEW r \in {Schema!Idle} \cup Schema!Serving,
         migrator' = [migrator EXCEPT ![j] = r],
         lock' = IF lock = j THEN None ELSE lock,
         effect' \in [Schema!Statements -> {"absent", "present", "invalid"}],
         \A s \in Schema!Statements : effect'[s] = "invalid" => Schema!Kind(s) = "index",
         UNCHANGED <<applied, progress, released>>, Noted',
         r \in Schema!Serving => 1 .. r.upto \subseteq applied,
         r.pc \in {"grant all", "revoke", "grant", "complete"} => triggers',
         rolled' = rolled \/ (rolled' \in DOMAIN Files /\ 1 .. rolled' \subseteq applied),
         triggers' \in BOOLEAN /\ (triggers => triggers'),
         may' \subseteq {"select", "insert", "change"} /\ Schema!Guarded'
  PROVE  SchemaCore'
<1>t. Schema!TypeOK
  BY DEF SchemaCore
<1>1. migrator'[j] = r /\ \A k \in Jobs \ {j} : migrator'[k] = migrator[k]
  BY <1>t DEF Schema!TypeOK
<1>i. Schema!Idle.pc = "idle"
  BY DEF Schema!Idle
<1>g. r \in Schema!Serving => r.pc \in Schema!Granting \cup {"complete"}
  BY DEF Schema!Serving
<1>2. r.pc \notin Schema!Migrating
  BY <1>i, <1>g DEF Schema!Migrating, Schema!Granting
<1>3. Schema!TypeOK'
  <2>1. migrator' \in [Jobs -> {Schema!Idle} \cup Schema!Applying \cup Schema!Serving]
    BY <1>t DEF Schema!TypeOK
  <2>2. rolled' \in 0 .. Len(Files)
    <3>1. rolled \in 0 .. Len(Files)
      BY <1>t DEF Schema!TypeOK
    <3>2. DOMAIN Files \subseteq 0 .. Len(Files)
      <4>1. DOMAIN Files = 1 .. Len(Files) /\ Len(Files) \in Nat
        BY StatementShape
      <4>2. \A m \in 1 .. Len(Files) : m \in 0 .. Len(Files)
        BY <4>1, IntervalGrows
      <4> QED BY <4>1, <4>2, Zenon
    <3> QED BY <3>1, <3>2
  <2> QED BY <1>t, <2>1, <2>2 DEF Schema!TypeOK
<1>4. InTurn'
  <2>1. \A k \in Jobs : migrator'[k].pc \in Schema!Migrating => k # j
    BY <1>1, <1>2
  <2>2. \A k \in Jobs : migrator'[k].pc \in Schema!Migrating =>
          migrator[k].pc \in Schema!Migrating /\ migrator'[k] = migrator[k] /\ lock = k /\ k # j
    BY <1>1, <2>1 DEF SchemaCore, InTurn
  <2>3. \A k \in Jobs : migrator'[k].pc \in Schema!Migrating <=> lock' = k
    <3>1. None \notin Jobs /\ \A k \in Jobs \ {j} : migrator[k].pc \in Schema!Migrating <=> lock = k
      BY PlatformAssumption DEF SchemaCore, InTurn
    <3> QED BY <1>1, <2>1, <2>2, <3>1
  <2>4. PICK n \in 0 .. Len(Files) :
          /\ applied = 1 .. n
          /\ \A k \in Jobs : migrator[k].pc \in Schema!Migrating => migrator[k].at = n + 1
    BY DEF SchemaCore, InTurn
  <2>5. \A k \in Jobs : migrator'[k].pc \in Schema!Migrating => migrator'[k].at = n + 1
    BY <2>2, <2>4
  <2> QED BY <2>3, <2>4, <2>5 DEF InTurn
<1>5. Schema!SchemaFirst'
  <2>1. 1 .. rolled' \subseteq applied'
    BY DEF SchemaCore, Schema!SchemaFirst
  <2>2. ASSUME NEW k \in Jobs, migrator'[k].pc \in Schema!Granting \cup {"complete"}
        PROVE  1 .. migrator'[k].upto \subseteq applied'
    <3>1. CASE k = j
      <4>1. r \in Schema!Serving
        BY <1>1, <1>i, <2>2, <3>1 DEF Schema!Granting
      <4> QED BY <1>1, <3>1, <4>1
    <3>2. CASE k # j
      BY <1>1, <2>2, <3>2 DEF SchemaCore, Schema!SchemaFirst
    <3> QED BY <3>1, <3>2
  <2> QED BY <2>1, <2>2 DEF Schema!SchemaFirst
<1>6. GuardedFirst'
  BY <1>1 DEF SchemaCore, GuardedFirst
<1>7. ASSUME NEW k \in Jobs PROVE Known(k)'
  <2>1. CASE k = j
    BY <1>1, <1>2, <2>1 DEF Known, Busy, Schema!Migrating
  <2>2. CASE k # j
    <3>1. migrator'[k] = migrator[k] /\ Known(k)
      BY <1>1, <2>2 DEF SchemaCore
    <3>2. Schema!Left(k)' = Schema!Left(k) /\ Schema!NextLeft(k)' = Schema!NextLeft(k)
      BY <3>1, SameLeft
    <3> QED BY <3>1, <3>2 DEF Known, Schema!OutsideTransaction, Schema!Kind
  <2> QED BY <2>1, <2>2
<1> QED BY <1>3, <1>4, <1>5, <1>6, <1>7 DEF SchemaCore

\* The last migration recorded, when they are the first n.
LEMMA LatestIs ==
  ASSUME NEW n \in Nat, applied = 1 .. n
  PROVE  Schema!Latest = n
<1>1. CASE n = 0
  <2>1. applied = {}
    BY <1>1
  <2> QED BY <1>1, <2>1 DEF Schema!Latest
<1>2. CASE n # 0
  <2>1. applied # {} /\ n \in applied /\ applied \in SUBSET (0 .. n)
    BY <1>2
  <2>2. Schema!Max(applied) \in applied /\ \A k \in applied : k <= Schema!Max(applied)
    BY <2>1, MaxIs
  <2>3. Schema!Max(applied) = n
    BY <2>1, <2>2
  <2> QED BY <2>1, <2>3 DEF Schema!Latest
<1> QED BY <1>1, <1>2

\* A Job starts, or reads what was noted of its migration.
LEMMA ReadsKeepSchema ==
  ASSUME SchemaCore, NEW j \in Jobs, Schema!Start(j) \/ Schema!ReadProgress(j)
  PROVE  SchemaCore' /\ migrator'[j].pc \in {"next", "statement"}
<1>t. Schema!TypeOK
  BY DEF SchemaCore
<1>1. PICK n \in 0 .. Len(Files) :
        /\ applied = 1 .. n
        /\ \A k \in Jobs : migrator[k].pc \in Schema!Migrating => migrator[k].at = n + 1
  BY DEF SchemaCore, InTurn
<1>n. n + 1 \in 1 .. Len(Files) + 1 /\ n \in Nat /\ 1 \in Nat
  BY StatementShape
<1>2. CASE Schema!Start(j)
  <2>1. PICK u \in 1 .. released :
          Schema!Becomes(j, [pc |-> "next", upto |-> u, at |-> Schema!Latest + 1, index |-> 1, done |-> {}])
    BY <1>2 DEF Schema!Start
  <2>2. u \in DOMAIN Files /\ Schema!Latest = n
    BY <1>t, <1>1, <1>n, LatestIs, StatementShape DEF Schema!TypeOK
  <2>3. PICK r : r = [pc |-> "next", upto |-> u, at |-> n + 1, index |-> 1, done |-> {}]
    OBVIOUS
  <2>4. r.pc = "next" /\ r.at = n + 1 /\ r \in Schema!Applying
    BY <1>n, <2>2, <2>3 DEF Schema!Applying, Schema!Migrating
  <2>5. migrator' = [migrator EXCEPT ![j] = r]
    BY <2>1, <2>2, <2>3 DEF Schema!Becomes
  <2>6. migrator'[j] = r
    BY <1>t, <2>5 DEF Schema!TypeOK
  <2>7. /\ lock = None /\ lock' = j /\ UNCHANGED <<effect, applied, progress>>
        /\ Schema!ServingUnchanged
    BY <1>2 DEF Schema!Start, Schema!TryLock
  <2>8. Noted' /\ Known(j)'
    BY <2>4, <2>6, <2>7 DEF SchemaCore, Noted, Done, Known, Busy, Schema!OutsideTransaction, Schema!Kind
  <2>9. /\ effect' \in [Schema!Statements -> {"absent", "present", "invalid"}]
        /\ \A s \in Schema!Statements : effect'[s] = "invalid" => Schema!Kind(s) = "index"
        /\ progress' \subseteq Schema!Statements
    BY <1>t, <2>7 DEF Schema!TypeOK
  <2>10. SchemaCore'
    BY <1>1, <2>4, <2>5, <2>7, <2>8, <2>9, HolderMoves
  <2> QED BY <2>4, <2>6, <2>10
<1>3. CASE Schema!ReadProgress(j)
  <2>0. /\ migrator[j].pc = "next" /\ migrator[j].at <= migrator[j].upto
        /\ UNCHANGED <<effect, applied, progress, lock>> /\ Schema!ServingUnchanged
    BY <1>3 DEF Schema!ReadProgress
  <2>1. /\ migrator[j] \in Schema!Applying /\ migrator[j].pc \in Schema!Migrating
        /\ lock = j /\ migrator[j].at = n + 1
    BY <1>t, <1>1, <2>0, JobShape DEF SchemaCore, InTurn, Schema!Migrating
  <2> DEFINE D == {s \in progress : s[1] = migrator[j].at}
  <2>2. PICK r : r = [migrator[j] EXCEPT !.pc = "statement", !.index = 1, !.done = D]
    OBVIOUS
  <2>d. D \subseteq Schema!Statements
    BY <1>t DEF Schema!TypeOK
  <2>3. /\ r \in Schema!Applying /\ r.pc = "statement" /\ r.at = n + 1 /\ r.index = 1 /\ r.done = D
        /\ r.upto = migrator[j].upto
    <3> HIDE DEF D
    <3> QED BY <1>n, <2>1, <2>2, <2>d DEF Schema!Applying, Schema!Migrating
  <2>4. migrator' = [migrator EXCEPT ![j] = r]
    BY <1>3, <2>2 DEF Schema!ReadProgress, Schema!Becomes
  <2>5. migrator'[j] = r
    BY <1>t, <2>4 DEF Schema!TypeOK
  <2>6. Noted'
    BY <2>0 DEF SchemaCore, Noted, Done, Schema!OutsideTransaction, Schema!Kind
  <2>7. Known(j)'
    <3>1. \A s \in Schema!Statements : s[1] = n + 1 => (s \in progress' <=> s[2] < 1 \/ s \in D)
      BY <2>0, <2>1, StatementShape
    <3> QED BY <2>0, <2>1, <2>3, <2>5, <3>1 DEF Known
  <2>9. /\ effect' \in [Schema!Statements -> {"absent", "present", "invalid"}]
        /\ \A s \in Schema!Statements : effect'[s] = "invalid" => Schema!Kind(s) = "index"
        /\ progress' \subseteq Schema!Statements
    BY <1>t, <2>0 DEF Schema!TypeOK
  <2>10. SchemaCore'
    BY <1>1, <2>0, <2>1, <2>3, <2>4, <2>6, <2>7, <2>9, HolderMoves
  <2> QED BY <2>3, <2>5, <2>10
<1> QED BY <1>2, <1>3

\* A Job at work on a migration holds the lock and is at the one after the last.
LEMMA AtWork ==
  ASSUME SchemaCore, NEW j \in Jobs, migrator[j].pc \in Busy
  PROVE  /\ migrator[j] \in Schema!Applying /\ migrator[j].pc \in Schema!Migrating /\ lock = j
         /\ migrator[j].at \in 1 .. Len(Files) /\ migrator[j].index \in Nat
         /\ migrator[j].upto \in DOMAIN Files
         /\ applied = 1 .. migrator[j].at - 1
         /\ \A s \in Schema!Statements :
              s[1] = migrator[j].at =>
                (s \in progress <=> s[2] < migrator[j].index \/ s \in migrator[j].done)
         /\ \A s \in Schema!Left(j) :
              s \in Schema!Statements /\ s[1] = migrator[j].at /\ s \notin progress /\ ~Done(s)
<1>1. migrator[j].pc \in Schema!Migrating
  BY DEF Busy, Schema!Migrating
<1>2. /\ migrator[j] \in Schema!Applying /\ migrator[j].index \in Nat
      /\ migrator[j].at \in 1 .. Len(Files) + 1 /\ migrator[j].upto \in DOMAIN Files
  BY <1>1, JobShape DEF SchemaCore
<1>3. lock = j
  BY <1>1 DEF SchemaCore, InTurn
<1>4. PICK n \in 0 .. Len(Files) : applied = 1 .. n /\ migrator[j].at = n + 1
  BY <1>1 DEF SchemaCore, InTurn
<1>5. /\ migrator[j].at <= migrator[j].upto
      /\ \A s \in Schema!Statements :
           s[1] = migrator[j].at =>
             (s \in progress <=> s[2] < migrator[j].index \/ s \in migrator[j].done)
  BY DEF SchemaCore, Known
<1>6. migrator[j].at \in 1 .. Len(Files)
  BY <1>2, <1>5, StatementShape
<1>7. n = migrator[j].at - 1
  BY <1>4
<1>8. ASSUME NEW s \in Schema!Left(j)
      PROVE  s \in Schema!Statements /\ s[1] = migrator[j].at /\ s \notin progress /\ ~Done(s)
  <2>1. s \in Schema!Statements /\ s[1] = migrator[j].at /\ s[2] >= migrator[j].index /\ s \notin migrator[j].done
    BY DEF Schema!Left
  <2>2. s \notin progress
    BY <1>2, <1>5, <2>1, StatementShape
  <2>3. s[1] \notin applied
    BY <1>4, <2>1
  <2> QED BY <2>1, <2>2, <2>3 DEF Done
<1> QED BY <1>1, <1>2, <1>3, <1>4, <1>5, <1>6, <1>7, <1>8

\* A batch of statements is run and noted in one transaction.
LEMMA BatchKeepsSchema ==
  ASSUME SchemaCore, NEW j \in Jobs, Schema!RunBatch(j)
  PROVE  /\ SchemaCore' /\ migrator'[j].pc = "statement"
         /\ UNCHANGED applied /\ progress' = progress \cup Schema!Batch(j)
         /\ \A s \in Schema!Statements :
              effect'[s] = IF s \in Schema!Batch(j) THEN "present" ELSE effect[s]
<1>t. Schema!TypeOK
  BY DEF SchemaCore
<1>0. /\ migrator[j].pc = "statement" /\ Schema!Batch(j) # {}
      /\ effect' = [s \in Schema!Statements |-> IF s \in Schema!Batch(j) THEN "present" ELSE effect[s]]
      /\ progress' = progress \cup Schema!Batch(j)
      /\ UNCHANGED <<applied, lock>> /\ Schema!ServingUnchanged
  BY DEF Schema!RunBatch, Schema!Noted
<1>1. /\ migrator[j] \in Schema!Applying /\ lock = j
      /\ migrator[j].at \in 1 .. Len(Files) /\ migrator[j].index \in Nat
      /\ applied = 1 .. migrator[j].at - 1
      /\ \A s \in Schema!Statements :
           s[1] = migrator[j].at =>
             (s \in progress <=> s[2] < migrator[j].index \/ s \in migrator[j].done)
      /\ \A s \in Schema!Left(j) : s \in Schema!Statements /\ s[1] = migrator[j].at /\ ~Done(s)
  BY <1>0, AtWork DEF Busy
<1>2. PICK last : last = Schema!Max({s[2] : s \in Schema!Batch(j)})
  OBVIOUS
<1>3. /\ last \in Nat /\ migrator[j].index <= last
      /\ \A s \in Schema!Batch(j) : s[2] <= last
      /\ \A s \in Schema!Left(j) : s[2] <= last => s \in Schema!Batch(j)
  BY <1>0, <1>1, <1>2, BatchEnds
<1>4. \A s \in Schema!Batch(j) : s \in Schema!Left(j) /\ ~Schema!OutsideTransaction(s)
  <2>1. \A s \in Schema!Left(j) : s[2] \in Nat
    BY StatementShape DEF Schema!Left
  <2> QED BY <2>1 DEF Schema!Batch
<1>5. PICK r : r = [migrator[j] EXCEPT !.index = last + 1]
  OBVIOUS
<1>6. /\ r \in Schema!Applying /\ r.pc = "statement" /\ r.at = migrator[j].at /\ r.index = last + 1
      /\ r.done = migrator[j].done /\ r.upto = migrator[j].upto
  BY <1>0, <1>1, <1>3, <1>5 DEF Schema!Applying
<1>7. migrator' = [migrator EXCEPT ![j] = r]
  BY <1>2, <1>5 DEF Schema!RunBatch, Schema!Becomes
<1>8. migrator'[j] = r
  BY <1>t, <1>7 DEF Schema!TypeOK
<1>9. \A s \in Schema!Statements :
        effect'[s] = IF s \in Schema!Batch(j) THEN "present" ELSE effect[s]
  BY <1>0
<1>10. Noted'
  <2>1. \A s \in progress' : s[1] \notin applied'
    BY <1>0, <1>1, <1>4 DEF SchemaCore, Noted, Done
  <2>2. ASSUME NEW s \in Schema!Statements, ~Schema!OutsideTransaction(s)
        PROVE  effect'[s] = "present" <=> Done(s)'
    <3>1. effect[s] = "present" <=> Done(s)
      BY <2>2 DEF SchemaCore, Noted
    <3>2. Done(s)' <=> Done(s) \/ s \in Schema!Batch(j)
      BY <1>0 DEF Done
    <3> QED BY <1>9, <3>1, <3>2
  <2> QED BY <2>1, <2>2 DEF Noted, Schema!OutsideTransaction, Schema!Kind
<1>11. Known(j)'
  <2>1. ASSUME NEW s \in Schema!Statements, s[1] = migrator[j].at
        PROVE  s \in progress' <=> s[2] < last + 1 \/ s \in migrator[j].done
    <3>1. s[2] \in Nat
      BY StatementShape
    <3>2. CASE s \in Schema!Left(j)
      BY <1>0, <1>1, <1>3, <2>1, <3>1, <3>2 DEF Done, Schema!Left
    <3>3. CASE s \notin Schema!Left(j)
      <4>1. s[2] < migrator[j].index \/ s \in migrator[j].done
        BY <1>1, <2>1, <3>1, <3>3 DEF Schema!Left
      <4> QED BY <1>0, <1>1, <1>3, <2>1, <3>1, <4>1
    <3> QED BY <3>2, <3>3
  <2>2. migrator[j].at <= migrator[j].upto
    BY <1>0 DEF SchemaCore, Known, Busy
  <2> QED BY <1>6, <1>8, <2>1, <2>2 DEF Known
<1>12. /\ effect' \in [Schema!Statements -> {"absent", "present", "invalid"}]
       /\ \A s \in Schema!Statements : effect'[s] = "invalid" => Schema!Kind(s) = "index"
       /\ progress' \subseteq Schema!Statements
  BY <1>t, <1>0, <1>1, <1>4, <1>9 DEF Schema!TypeOK
<1>13. \E n \in 0 .. Len(Files) : applied' = 1 .. n /\ r.at = n + 1
  <2>1. migrator[j].at - 1 \in 0 .. Len(Files) /\ migrator[j].at = (migrator[j].at - 1) + 1
    BY <1>1, StatementShape
  <2> QED BY <1>0, <1>1, <1>6, <2>1
<1>14. SchemaCore'
  BY <1>0, <1>1, <1>6, <1>7, <1>10, <1>11, <1>12, <1>13, HolderMoves
<1> QED BY <1>0, <1>6, <1>8, <1>9, <1>14

\* A statement that runs outside a transaction begins, ends, or outlives its Job.
LEMMA OutsideKeepsSchema ==
  ASSUME SchemaCore, NEW j \in Jobs,
         Schema!RunOutside(j) \/ Schema!OutsideEnds(j) \/ Schema!JobDies(j)
  PROVE  /\ SchemaCore' /\ UNCHANGED <<applied, progress>>
         /\ migrator[j].pc \in Busy /\ migrator'[j].pc \in {"running", "note", "orphan"}
         /\ Schema!NextLeft(j) \in Schema!Left(j)
         /\ Schema!NextLeft(j)' = Schema!NextLeft(j)
         /\ \A s \in Schema!Statements \ {Schema!NextLeft(j)} : effect'[s] = effect[s]
         /\ migrator'[j].pc = "note" =>
              \/ effect'[Schema!NextLeft(j)] = "present"
              \/ /\ migrator[j].pc = "statement" /\ Schema!Left(j) # {}
                 /\ effect[Schema!NextLeft(j)] = "invalid"
<1>t. Schema!TypeOK
  BY DEF SchemaCore
<1>0. /\ migrator[j].pc \in {"statement", "running"} /\ UNCHANGED <<applied, progress, lock>>
      /\ Schema!ServingUnchanged
      /\ \E pc \in {"running", "note", "orphan"} : Schema!Continues(j, pc)
  BY DEF Schema!RunOutside, Schema!OutsideEnds, Schema!JobDies
<1>1. PICK pc \in {"running", "note", "orphan"} : Schema!Continues(j, pc)
  BY <1>0
<1>b. migrator[j].pc \in Busy /\ pc \in Schema!Migrating
  BY <1>0 DEF Busy, Schema!Migrating
<1>2. /\ migrator[j].pc \in Schema!Migrating /\ lock = j
      /\ migrator[j].at \in 1 .. Len(Files)
      /\ applied = 1 .. migrator[j].at - 1
      /\ \A s \in Schema!Left(j) : s \in Schema!Statements /\ s[1] = migrator[j].at /\ ~Done(s)
  BY <1>b, AtWork
<1>3. /\ migrator'[j] \in Schema!Applying /\ migrator'[j].pc = pc
      /\ migrator'[j].upto = migrator[j].upto /\ migrator'[j].at = migrator[j].at
      /\ migrator'[j].index = migrator[j].index /\ migrator'[j].done = migrator[j].done
      /\ Schema!Left(j)' = Schema!Left(j) /\ Schema!NextLeft(j)' = Schema!NextLeft(j)
      /\ migrator' = [migrator EXCEPT ![j] = migrator'[j]]
  BY <1>t, <1>1, <1>b, <1>2, ContinuesAt
<1>4. Schema!Left(j) # {} /\ Schema!OutsideTransaction(Schema!NextLeft(j))
  <2>1. CASE Schema!RunOutside(j)
    BY <2>1 DEF Schema!RunOutside
  <2>2. CASE Schema!OutsideEnds(j) \/ Schema!JobDies(j)
    <3>1. migrator[j].pc = "running"
      BY <2>2 DEF Schema!OutsideEnds, Schema!JobDies
    <3> QED BY <3>1 DEF SchemaCore, Known, Busy
  <2> QED BY <2>1, <2>2
<1>5. PICK s \in Schema!Statements : s = Schema!NextLeft(j) /\ s \in Schema!Left(j)
  BY <1>2, <1>4, NextLeftIs
<1>6. \/ UNCHANGED effect
      \/ effect' = [effect EXCEPT ![s] = "invalid"] /\ Schema!Kind(s) = "index" /\ pc = "running"
      \/ effect' = [effect EXCEPT ![s] = "present"]
  <2>1. migrator'[j].pc = pc
    BY <1>3
  <2>2. CASE Schema!RunOutside(j)
    <3>1. CASE Schema!Kind(s) = "index" /\ effect[s] = "absent"
      <4>1. effect' = [effect EXCEPT ![s] = "invalid"] /\ Schema!Continues(j, "running")
        BY <1>5, <2>2, <3>1 DEF Schema!RunOutside
      <4>2. migrator'[j].pc = "running"
        BY <1>t, <1>2, <4>1, ContinuesAt DEF Schema!Migrating
      <4> QED BY <2>1, <3>1, <4>1, <4>2
    <3>2. CASE ~(Schema!Kind(s) = "index" /\ effect[s] = "absent")
      BY <1>5, <2>2, <3>2 DEF Schema!RunOutside
    <3> QED BY <3>1, <3>2
  <2>3. CASE Schema!OutsideEnds(j)
    BY <1>5, <2>3 DEF Schema!OutsideEnds
  <2>4. CASE Schema!JobDies(j)
    BY <2>4 DEF Schema!JobDies
  <2> QED BY <2>2, <2>3, <2>4
<1>7. \A x \in Schema!Statements \ {s} : effect'[x] = effect[x]
  BY <1>t, <1>6 DEF Schema!TypeOK
<1>8. /\ effect' \in [Schema!Statements -> {"absent", "present", "invalid"}]
      /\ \A x \in Schema!Statements : effect'[x] = "invalid" => Schema!Kind(x) = "index"
      /\ progress' \subseteq Schema!Statements
  BY <1>t, <1>0, <1>6 DEF Schema!TypeOK
<1>9. Noted'
  <2>1. \A x \in Schema!Statements : ~Schema!OutsideTransaction(x) => effect'[x] = effect[x]
    BY <1>4, <1>5, <1>7
  <2> QED BY <1>0, <2>1 DEF SchemaCore, Noted, Done, Schema!OutsideTransaction, Schema!Kind
<1>10. Known(j)'
  <2>1. Known(j)
    BY DEF SchemaCore
  <2>2. Schema!OutsideTransaction(Schema!NextLeft(j))'
    BY <1>3, <1>4 DEF Schema!OutsideTransaction, Schema!Kind
  <2> QED BY <1>0, <1>3, <1>4, <1>b, <2>1, <2>2 DEF Known
<1>11. \E n \in 0 .. Len(Files) : applied' = 1 .. n /\ migrator'[j].at = n + 1
  <2>1. migrator[j].at - 1 \in 0 .. Len(Files) /\ migrator[j].at = (migrator[j].at - 1) + 1
    BY <1>2, StatementShape
  <2> QED BY <1>0, <1>2, <1>3, <2>1
<1>12. SchemaCore'
  <2>1. applied \subseteq applied' /\ lock \in {None, j} /\ lock' = j
    BY <1>0, <1>2
  <2> QED BY <1>0, <1>3, <1>8, <1>9, <1>10, <1>11, <2>1, HolderMoves
<1>13. pc = "note" => effect'[s] = "present" \/ (migrator[j].pc = "statement" /\ effect[s] = "invalid")
  <2> SUFFICES ASSUME pc = "note"
               PROVE  effect'[s] = "present" \/ (migrator[j].pc = "statement" /\ effect[s] = "invalid")
    OBVIOUS
  <2>1. migrator'[j].pc = "note"
    BY <1>3
  <2>2. ASSUME NEW p \in {"running", "orphan"} PROVE ~Schema!Continues(j, p)
    <3>1. p \in Schema!Migrating /\ p # "note"
      BY <2>2 DEF Schema!Migrating
    <3> QED BY <1>t, <1>2, <2>1, <3>1, ContinuesAt
  <2>3. CASE Schema!RunOutside(j)
    <3>1. effect[s] # "absent" /\ UNCHANGED effect /\ migrator[j].pc = "statement"
      BY <1>5, <2>2, <2>3 DEF Schema!RunOutside
    <3>2. effect[s] \in {"present", "invalid"}
      BY <1>t, <3>1 DEF Schema!TypeOK
    <3> QED BY <3>1, <3>2
  <2>4. CASE Schema!OutsideEnds(j)
    BY <1>t, <1>5, <2>4 DEF Schema!OutsideEnds, Schema!TypeOK
  <2>5. CASE Schema!JobDies(j)
    BY <2>2, <2>5 DEF Schema!JobDies
  <2> QED BY <2>3, <2>4, <2>5
<1> QED BY <1>0, <1>3, <1>4, <1>5, <1>7, <1>b, <1>12, <1>13

\* A statement run outside a transaction is noted.
LEMMA NoteKeepsSchema ==
  ASSUME SchemaCore, NEW j \in Jobs, Schema!NoteOutside(j)
  PROVE  /\ SchemaCore' /\ migrator[j].pc = "note" /\ migrator'[j].pc = "statement"
         /\ UNCHANGED <<applied, effect>> /\ progress' = progress \cup {Schema!NextLeft(j)}
<1>t. Schema!TypeOK
  BY DEF SchemaCore
<1>0. /\ migrator[j].pc = "note" /\ progress' = progress \cup {Schema!NextLeft(j)}
      /\ UNCHANGED <<effect, applied, lock>> /\ Schema!ServingUnchanged
  BY DEF Schema!NoteOutside
<1>1. /\ migrator[j] \in Schema!Applying /\ lock = j
      /\ migrator[j].at \in 1 .. Len(Files) /\ migrator[j].index \in Nat
      /\ applied = 1 .. migrator[j].at - 1
      /\ \A s \in Schema!Statements :
           s[1] = migrator[j].at =>
             (s \in progress <=> s[2] < migrator[j].index \/ s \in migrator[j].done)
      /\ \A s \in Schema!Left(j) : s \in Schema!Statements /\ s[1] = migrator[j].at /\ ~Done(s)
  BY <1>0, AtWork DEF Busy
<1>2. Schema!Left(j) # {} /\ Schema!OutsideTransaction(Schema!NextLeft(j))
  BY <1>0 DEF SchemaCore, Known, Busy
<1>3. PICK x \in Schema!Statements :
        /\ x = Schema!NextLeft(j) /\ x \in Schema!Left(j) /\ x[1] = migrator[j].at /\ ~Done(x)
        /\ \A s \in Schema!Left(j) : x[2] <= s[2]
  BY <1>1, <1>2, NextLeftIs
<1>n. x[2] \in Nat /\ migrator[j].index <= x[2]
  BY <1>3, StatementShape DEF Schema!Left
<1>4. PICK r : r = [migrator[j] EXCEPT !.pc = "statement", !.index = x[2] + 1]
  OBVIOUS
<1>5. /\ r \in Schema!Applying /\ r.pc = "statement" /\ r.at = migrator[j].at /\ r.index = x[2] + 1
      /\ r.done = migrator[j].done /\ r.upto = migrator[j].upto
  <2>1. x[2] + 1 \in Nat
    BY <1>n
  <2> QED BY <1>1, <1>4, <2>1 DEF Schema!Applying, Schema!Migrating
<1>6. migrator' = [migrator EXCEPT ![j] = r]
  BY <1>3, <1>4 DEF Schema!NoteOutside, Schema!Becomes
<1>7. migrator'[j] = r
  BY <1>t, <1>6 DEF Schema!TypeOK
<1>8. Noted'
  <2>1. \A s \in progress' : s[1] \notin applied'
    BY <1>0, <1>3 DEF SchemaCore, Noted, Done
  <2>2. ASSUME NEW s \in Schema!Statements, ~Schema!OutsideTransaction(s)
        PROVE  effect'[s] = "present" <=> Done(s)'
    <3>1. effect[s] = "present" <=> Done(s)
      BY <2>2 DEF SchemaCore, Noted
    <3>2. s # x
      BY <1>2, <1>3, <2>2
    <3> QED BY <1>0, <1>3, <3>1, <3>2 DEF Done
  <2> QED BY <2>1, <2>2 DEF Noted, Schema!OutsideTransaction, Schema!Kind
<1>9. Known(j)'
  <2>1. ASSUME NEW s \in Schema!Statements, s[1] = migrator[j].at
        PROVE  s \in progress' <=> s[2] < x[2] + 1 \/ s \in migrator[j].done
    <3>1. s[2] \in Nat
      BY StatementShape
    <3>2. CASE s \in Schema!Left(j)
      <4>1. x[2] <= s[2] /\ s \notin progress /\ s \notin migrator[j].done
        BY <1>1, <1>3, <3>2 DEF Done, Schema!Left
      <4>2. s[2] = x[2] <=> s = x
        BY <1>3, <2>1, StatementShape
      <4> QED BY <1>0, <1>3, <1>n, <3>1, <4>1, <4>2
    <3>3. CASE s \notin Schema!Left(j)
      <4>1. s[2] < migrator[j].index \/ s \in migrator[j].done
        BY <1>1, <2>1, <3>1, <3>3 DEF Schema!Left
      <4> QED BY <1>0, <1>1, <1>n, <2>1, <3>1, <4>1
    <3> QED BY <3>2, <3>3
  <2>2. migrator[j].at <= migrator[j].upto
    BY <1>0 DEF SchemaCore, Known, Busy
  <2> QED BY <1>5, <1>7, <2>1, <2>2 DEF Known
<1>10. /\ effect' \in [Schema!Statements -> {"absent", "present", "invalid"}]
       /\ \A s \in Schema!Statements : effect'[s] = "invalid" => Schema!Kind(s) = "index"
       /\ progress' \subseteq Schema!Statements
  BY <1>t, <1>0, <1>3 DEF Schema!TypeOK
<1>11. \E n \in 0 .. Len(Files) : applied' = 1 .. n /\ r.at = n + 1
  <2>1. migrator[j].at - 1 \in 0 .. Len(Files) /\ migrator[j].at = (migrator[j].at - 1) + 1
    BY <1>1, StatementShape
  <2> QED BY <1>0, <1>1, <1>5, <2>1
<1>12. SchemaCore'
  BY <1>0, <1>1, <1>5, <1>6, <1>8, <1>9, <1>10, <1>11, HolderMoves
<1> QED BY <1>0, <1>5, <1>7, <1>12

\* A migration none of whose statements is left is recorded.
LEMMA RecordKeepsSchema ==
  ASSUME SchemaCore, NEW j \in Jobs, Schema!Record(j)
  PROVE  /\ SchemaCore' /\ migrator'[j].pc = "next" /\ UNCHANGED effect
         /\ \A s \in Schema!Statements : Done(s)' <=> Done(s)
<1>t. Schema!TypeOK
  BY DEF SchemaCore
<1>0. /\ migrator[j].pc = "statement" /\ Schema!Left(j) = {}
      /\ applied' = applied \cup {migrator[j].at}
      /\ progress' = {s \in progress : s[1] # migrator[j].at}
      /\ UNCHANGED <<effect, lock>> /\ Schema!ServingUnchanged
  BY DEF Schema!Record
<1>1. /\ migrator[j] \in Schema!Applying /\ lock = j
      /\ migrator[j].at \in 1 .. Len(Files)
      /\ applied = 1 .. migrator[j].at - 1
      /\ \A s \in Schema!Statements :
           s[1] = migrator[j].at =>
             (s \in progress <=> s[2] < migrator[j].index \/ s \in migrator[j].done)
      /\ migrator[j].index \in Nat
  BY <1>0, AtWork DEF Busy
<1>2. PICK at : at = migrator[j].at
  OBVIOUS
<1>3. at \in 1 .. Len(Files) /\ at + 1 \in 1 .. Len(Files) + 1 /\ at \in 0 .. Len(Files)
  BY <1>1, <1>2, StatementShape
<1>4. PICK r : r = [migrator[j] EXCEPT !.pc = "next", !.at = at + 1, !.index = 1, !.done = {}]
  OBVIOUS
<1>5. r \in Schema!Applying /\ r.pc = "next" /\ r.at = at + 1
  BY <1>1, <1>3, <1>4 DEF Schema!Applying, Schema!Migrating
<1>6. migrator' = [migrator EXCEPT ![j] = r]
  <2>1. [migrator[j] EXCEPT !.pc = "next", !.at = @ + 1, !.index = 1, !.done = {}] = r
    BY <1>1, <1>2, <1>4 DEF Schema!Applying
  <2> QED BY <2>1 DEF Schema!Record, Schema!Becomes
<1>7. migrator'[j] = r
  BY <1>t, <1>6 DEF Schema!TypeOK
<1>8. applied' = 1 .. at
  BY <1>0, <1>1, <1>2, <1>3, StatementShape
<1>9. \A s \in Schema!Statements : Done(s)' <=> Done(s)
  <2> SUFFICES ASSUME NEW s \in Schema!Statements PROVE Done(s)' <=> Done(s)
    OBVIOUS
  <2>1. s[1] = at => s \in progress
    BY <1>0, <1>1, <1>2, StatementShape DEF Schema!Left
  <2> QED BY <1>0, <1>2, <2>1 DEF Done
<1>10. Noted'
  <2>1. \A s \in progress' : s[1] \notin applied'
    BY <1>0 DEF SchemaCore, Noted
  <2> QED BY <1>0, <1>9, <2>1 DEF SchemaCore, Noted, Schema!OutsideTransaction, Schema!Kind
<1>11. Known(j)'
  BY <1>5, <1>7 DEF Known, Busy
<1>12. /\ effect' \in [Schema!Statements -> {"absent", "present", "invalid"}]
       /\ \A s \in Schema!Statements : effect'[s] = "invalid" => Schema!Kind(s) = "index"
       /\ progress' \subseteq Schema!Statements
  BY <1>t, <1>0 DEF Schema!TypeOK
<1>13. applied \subseteq applied' /\ lock \in {None, j} /\ lock' = j
       /\ \E n \in 0 .. Len(Files) : applied' = 1 .. n /\ r.at = n + 1
  BY <1>0, <1>1, <1>3, <1>5, <1>8
<1>14. SchemaCore'
  BY <1>0, <1>5, <1>6, <1>10, <1>11, <1>12, <1>13, HolderMoves
<1> QED BY <1>0, <1>5, <1>7, <1>9, <1>14

\* A Job that goes from one grant to the next.
LEMMA ServesOn ==
  ASSUME Schema!TypeOK, NEW j \in Jobs, NEW p \in Schema!Granting \cup {"complete"},
         migrator[j].pc \in Schema!Granting \cup {"complete"}, Schema!Continues(j, p)
  PROVE  \E r \in Schema!Serving :
           /\ r.pc = p /\ r.upto = migrator[j].upto
           /\ migrator' = [migrator EXCEPT ![j] = r] /\ migrator'[j] = r
<1>1. migrator[j] \in Schema!Serving
  BY JobShape
<1>2. PICK r : r = [migrator[j] EXCEPT !.pc = p]
  OBVIOUS
<1>3. r \in Schema!Serving /\ r.pc = p /\ r.upto = migrator[j].upto
  BY <1>1, <1>2 DEF Schema!Serving
<1>4. migrator' = [migrator EXCEPT ![j] = r]
  BY <1>2 DEF Schema!Continues, Schema!Becomes
<1> QED BY <1>3, <1>4 DEF Schema!TypeOK

\* The lock is released, the guard is installed, and the grants follow.
LEMMA ServingKeepsSchema ==
  ASSUME SchemaCore, NEW j \in Jobs,
         \/ Schema!Unlock(j) \/ Schema!InstallGuard(j) \/ Schema!GrantAllTables(j)
         \/ Schema!RevokeAudit(j) \/ Schema!GrantAudit(j) \/ Schema!Rollout(j)
  PROVE  /\ SchemaCore' /\ UNCHANGED <<effect, applied, progress>>
         /\ migrator'[j].pc \in Schema!Granting \cup {"complete", "idle"}
         /\ \A k \in Jobs \ {j} : migrator'[k] = migrator[k]
<1>t. Schema!TypeOK
  BY DEF SchemaCore
<1>0. UNCHANGED <<effect, applied, progress, released>>
  BY DEF Schema!Unlock, Schema!InstallGuard, Schema!GrantAllTables, Schema!RevokeAudit,
     Schema!GrantAudit, Schema!Rollout, Schema!Commits, Schema!ServingUnchanged
<1>1. Noted'
  BY <1>0 DEF SchemaCore, Noted, Done, Schema!OutsideTransaction, Schema!Kind
<1>2. /\ effect' \in [Schema!Statements -> {"absent", "present", "invalid"}]
      /\ \A s \in Schema!Statements : effect'[s] = "invalid" => Schema!Kind(s) = "index"
  BY <1>t, <1>0 DEF Schema!TypeOK
<1>g. Schema!Granting = {"guard", "grant all", "revoke", "grant"}
  BY DEF Schema!Granting
<1>3. CASE Schema!Unlock(j)
  <2>0. /\ migrator[j].pc = "next" /\ migrator[j].at > migrator[j].upto /\ lock' = None
        /\ Schema!Becomes(j, [pc |-> "guard", upto |-> migrator[j].upto])
        /\ UNCHANGED <<rolled, triggers, may>>
    BY <1>3 DEF Schema!Unlock, Schema!ServingUnchanged
  <2>1. /\ migrator[j].upto \in DOMAIN Files /\ lock = j /\ migrator[j].at \in 1 .. Len(Files) + 1
        /\ \E n \in 0 .. Len(Files) : applied = 1 .. n /\ migrator[j].at = n + 1
    BY <1>t, <2>0, JobShape DEF SchemaCore, InTurn, Schema!Migrating
  <2>2. PICK u \in DOMAIN Files : u = migrator[j].upto
    BY <2>1
  <2>p. PICK r : r = [pc |-> "guard", upto |-> u]
    OBVIOUS
  <2>3. r \in Schema!Serving /\ r.pc = "guard" /\ r.upto = u
    BY <1>g, <2>p DEF Schema!Serving
  <2>4. 1 .. r.upto \subseteq applied
    BY <2>0, <2>1, <2>2, <2>3, StatementShape
  <2>5. migrator' = [migrator EXCEPT ![j] = r] /\ migrator'[j] = r
        /\ \A k \in Jobs \ {j} : migrator'[k] = migrator[k]
    BY <1>t, <2>0, <2>2, <2>p DEF Schema!Becomes, Schema!TypeOK
  <2>6. lock' = IF lock = j THEN None ELSE lock
    BY <2>0, <2>1
  <2>7. /\ triggers' \in BOOLEAN /\ (triggers => triggers') /\ rolled' = rolled
        /\ may' \subseteq {"select", "insert", "change"} /\ Schema!Guarded'
    BY <1>t, <2>0 DEF Schema!TypeOK, SchemaCore, Schema!Guarded
  <2>8. SchemaCore'
    BY <1>0, <1>1, <1>2, <2>3, <2>4, <2>5, <2>6, <2>7, ServerMoves
  <2>9. migrator'[j].pc \in Schema!Granting \cup {"complete", "idle"}
    <3>1. migrator'[j] = r
      BY <2>5
    <3>2. migrator'[j].pc = "guard"
      BY <2>3, <3>1, Zenon
    <3> QED BY <1>g, <3>2, Zenon
  <2> QED BY <1>0, <2>5, <2>8, <2>9
<1>4. CASE \/ Schema!InstallGuard(j) \/ Schema!GrantAllTables(j)
           \/ Schema!RevokeAudit(j) \/ Schema!GrantAudit(j)
  <2>0. PICK from \in Schema!Granting, to \in Schema!Granting \cup {"complete"} :
          /\ migrator[j].pc = from /\ Schema!Continues(j, to)
          /\ to \in {"grant all", "revoke", "grant", "complete"} => triggers'
          /\ triggers' \in BOOLEAN /\ (triggers => triggers')
          /\ may' \subseteq {"select", "insert", "change"} /\ Schema!Guarded'
          /\ UNCHANGED <<lock, rolled>>
    <3>1. /\ triggers \in BOOLEAN /\ may \subseteq {"select", "insert", "change"}
          /\ migrator[j].pc \in {"grant all", "revoke", "grant"} => triggers
          /\ Schema!Guarded
      BY <1>t DEF Schema!TypeOK, SchemaCore, GuardedFirst
    <3>2. CASE Schema!InstallGuard(j)
      BY <1>g, <3>1, <3>2 DEF Schema!InstallGuard, Schema!Guarded
    <3>3. CASE Schema!GrantAllTables(j)
      BY <1>g, <3>1, <3>3 DEF Schema!GrantAllTables, Schema!Commits, Schema!Guarded
    <3>4. CASE Schema!RevokeAudit(j)
      BY <1>g, <3>1, <3>4 DEF Schema!RevokeAudit, Schema!Commits, Schema!Guarded
    <3>5. CASE Schema!GrantAudit(j)
      BY <1>g, <3>1, <3>5 DEF Schema!GrantAudit, Schema!Commits, Schema!Guarded
    <3> QED BY <1>4, <3>2, <3>3, <3>4, <3>5
  <2>1. migrator[j].upto \in DOMAIN Files /\ 1 .. migrator[j].upto \subseteq applied
    BY <1>t, <2>0, JobShape DEF SchemaCore, Schema!SchemaFirst
  <2>2. PICK r \in Schema!Serving :
          /\ r.pc = to /\ r.upto = migrator[j].upto
          /\ migrator' = [migrator EXCEPT ![j] = r] /\ migrator'[j] = r
    <3>1. from \in Schema!Granting \cup {"complete"}
      BY <2>0
    <3> QED BY <1>t, <2>0, <2>1, <3>1, ServesOn
  <2>3. lock' = IF lock = j THEN None ELSE lock
    <3>1. lock # j
      <4>1. migrator[j].pc \notin Schema!Migrating
        BY <1>g, <2>0 DEF Schema!Migrating
      <4> QED BY <4>1 DEF SchemaCore, InTurn
    <3> QED BY <2>0, <3>1
  <2>4. SchemaCore'
    BY <1>0, <1>1, <1>2, <2>0, <2>1, <2>2, <2>3, ServerMoves
  <2>5. \A k \in Jobs \ {j} : migrator'[k] = migrator[k]
    BY <1>t, <2>2 DEF Schema!TypeOK
  <2> QED BY <1>0, <1>g, <2>0, <2>2, <2>4, <2>5
<1>5. CASE Schema!Rollout(j)
  <2>0. /\ migrator[j].pc = "complete" /\ migrator' = [migrator EXCEPT ![j] = Schema!Idle]
        /\ rolled' = migrator[j].upto /\ UNCHANGED <<lock, triggers, may>>
    BY <1>5 DEF Schema!Rollout, Schema!Becomes
  <2>1. migrator[j].upto \in DOMAIN Files /\ 1 .. migrator[j].upto \subseteq applied
    BY <1>t, <2>0, JobShape DEF SchemaCore, Schema!SchemaFirst
  <2>2. Schema!Idle.pc = "idle" /\ Schema!Idle \notin Schema!Serving
    BY <1>g DEF Schema!Idle, Schema!Serving
  <2>3. lock' = IF lock = j THEN None ELSE lock
    <3>1. "complete" \notin Schema!Migrating
      BY DEF Schema!Migrating
    <3> QED BY <2>0, <3>1 DEF SchemaCore, InTurn
  <2>4. /\ triggers' \in BOOLEAN /\ (triggers => triggers')
        /\ may' \subseteq {"select", "insert", "change"} /\ Schema!Guarded'
    BY <1>t, <2>0 DEF Schema!TypeOK, SchemaCore, Schema!Guarded
  <2>5. SchemaCore'
    BY <1>0, <1>1, <1>2, <2>0, <2>1, <2>2, <2>3, <2>4, ServerMoves
  <2>6. migrator'[j].pc = "idle" /\ \A k \in Jobs \ {j} : migrator'[k] = migrator[k]
    BY <1>t, <2>0, <2>2 DEF Schema!TypeOK
  <2> QED BY <1>0, <1>g, <2>5, <2>6
<1> QED BY <1>3, <1>4, <1>5

\* A Job ends: its session is over, and with it the lock.
LEMMA EndingKeepsSchema ==
  ASSUME SchemaCore, NEW j \in Jobs, Schema!JobFails(j) \/ Schema!OrphanEnds(j)
  PROVE  /\ SchemaCore' /\ UNCHANGED <<applied, progress>>
         /\ migrator'[j] = Schema!Idle
         /\ \A k \in Jobs \ {j} : migrator'[k] = migrator[k]
         /\ \/ UNCHANGED effect
            \/ migrator[j].pc = "orphan" /\ effect' = [effect EXCEPT ![Schema!NextLeft(j)] = "present"]
<1>t. Schema!TypeOK
  BY DEF SchemaCore
<1>0. /\ migrator' = [migrator EXCEPT ![j] = Schema!Idle]
      /\ lock' = (IF lock = j THEN None ELSE lock)
      /\ UNCHANGED <<applied, progress, released, rolled, triggers, may>>
      /\ \/ UNCHANGED effect
         \/ migrator[j].pc = "orphan" /\ effect' = [effect EXCEPT ![Schema!NextLeft(j)] = "present"]
  BY DEF Schema!JobFails, Schema!OrphanEnds, Schema!Ends, Schema!Becomes, Schema!ServingUnchanged
<1>1. migrator'[j] = Schema!Idle /\ \A k \in Jobs \ {j} : migrator'[k] = migrator[k]
  BY <1>t, <1>0 DEF Schema!TypeOK
<1>2. /\ effect' \in [Schema!Statements -> {"absent", "present", "invalid"}]
      /\ \A s \in Schema!Statements : effect'[s] = "invalid" => Schema!Kind(s) = "index"
  BY <1>t, <1>0 DEF Schema!TypeOK
<1>3. Noted'
  <2>1. ASSUME NEW s \in Schema!Statements, ~Schema!OutsideTransaction(s)
        PROVE  effect'[s] = effect[s]
    <3>1. CASE UNCHANGED effect
      BY <3>1
    <3>2. CASE /\ migrator[j].pc = "orphan"
               /\ effect' = [effect EXCEPT ![Schema!NextLeft(j)] = "present"]
      <4>1. Schema!OutsideTransaction(Schema!NextLeft(j))
        BY <3>2 DEF SchemaCore, Known, Busy
      <4>2. s # Schema!NextLeft(j)
        BY <2>1, <4>1
      <4> QED BY <1>t, <3>2, <4>2 DEF Schema!TypeOK
    <3> QED BY <1>0, <3>1, <3>2
  <2> QED BY <1>0, <2>1 DEF SchemaCore, Noted, Done, Schema!OutsideTransaction, Schema!Kind
<1>4. /\ Schema!Idle.pc = "idle" /\ Schema!Idle \notin Schema!Serving
  BY DEF Schema!Idle, Schema!Serving, Schema!Granting
<1>5. /\ triggers' \in BOOLEAN /\ (triggers => triggers') /\ rolled' = rolled
      /\ may' \subseteq {"select", "insert", "change"} /\ Schema!Guarded'
  BY <1>t, <1>0 DEF Schema!TypeOK, SchemaCore, Schema!Guarded
<1>6. SchemaCore'
  BY <1>0, <1>2, <1>3, <1>4, <1>5, ServerMoves
<1> QED BY <1>0, <1>1, <1>6

\* An index left invalid is dropped, or a release appears.
LEMMA OutsidersKeepSchema ==
  ASSUME SchemaCore, Schema!NewRelease \/ \E s \in Schema!Statements : Schema!DropInvalid(s)
  PROVE  /\ SchemaCore' /\ UNCHANGED <<applied, progress, migrator, rolled, may>>
         /\ \/ UNCHANGED effect
            \/ lock = None /\ \E s \in Schema!Statements :
                 effect[s] = "invalid" /\ effect' = [effect EXCEPT ![s] = "absent"]
<1>t. Schema!TypeOK
  BY DEF SchemaCore
<1>0. /\ UNCHANGED <<applied, progress, lock, migrator, rolled, triggers, may>>
      /\ released' = released \/ (released < Len(Files) /\ released' = released + 1)
      /\ \/ UNCHANGED effect
         \/ lock = None /\ \E s \in Schema!Statements :
              effect[s] = "invalid" /\ effect' = [effect EXCEPT ![s] = "absent"]
  BY DEF Schema!NewRelease, Schema!DropInvalid, Schema!ServingUnchanged
<1>1. \A s \in Schema!Statements : ~Schema!OutsideTransaction(s) => effect'[s] = effect[s]
  <2>1. \A s \in Schema!Statements : effect[s] = "invalid" => Schema!OutsideTransaction(s)
    BY <1>t DEF Schema!TypeOK, Schema!OutsideTransaction
  <2> QED BY <1>t, <1>0, <2>1 DEF Schema!TypeOK
<1>2. Schema!TypeOK'
  <2>1. released' \in DOMAIN Files
    BY <1>t, <1>0, StatementShape DEF Schema!TypeOK
  <2>2. /\ effect' \in [Schema!Statements -> {"absent", "present", "invalid"}]
        /\ \A s \in Schema!Statements : effect'[s] = "invalid" => Schema!Kind(s) = "index"
    BY <1>t, <1>0 DEF Schema!TypeOK
  <2> QED BY <1>t, <1>0, <2>1, <2>2 DEF Schema!TypeOK
<1>3. Noted'
  BY <1>0, <1>1 DEF SchemaCore, Noted, Done, Schema!OutsideTransaction, Schema!Kind
<1>4. InTurn' /\ Schema!SchemaFirst' /\ GuardedFirst' /\ Schema!Guarded'
  BY <1>0 DEF SchemaCore, InTurn, Schema!SchemaFirst, GuardedFirst, Schema!Guarded
<1>5. ASSUME NEW j \in Jobs PROVE Known(j)'
  <2>1. Known(j) /\ migrator'[j] = migrator[j]
    BY <1>0 DEF SchemaCore
  <2>2. Schema!Left(j)' = Schema!Left(j) /\ Schema!NextLeft(j)' = Schema!NextLeft(j)
    BY <2>1, SameLeft
  <2> QED BY <1>0, <2>1, <2>2 DEF Known, Schema!OutsideTransaction, Schema!Kind
<1> QED BY <1>0, <1>2, <1>3, <1>4, <1>5 DEF SchemaCore

\* Every step of a Job is the step of one Job.
LEMMA OneJobMoves ==
  ASSUME Schema!TypeOK, NEW j \in Jobs,
         \/ Schema!Start(j) \/ Schema!ReadProgress(j) \/ Schema!RunBatch(j) \/ Schema!RunOutside(j)
         \/ Schema!OutsideEnds(j) \/ Schema!JobDies(j) \/ Schema!NoteOutside(j) \/ Schema!Record(j)
         \/ Schema!Unlock(j) \/ Schema!InstallGuard(j) \/ Schema!GrantAllTables(j)
         \/ Schema!RevokeAudit(j) \/ Schema!GrantAudit(j) \/ Schema!Rollout(j)
         \/ Schema!JobFails(j) \/ Schema!OrphanEnds(j)
  PROVE  \A k \in Jobs \ {j} : migrator'[k] = migrator[k]
<1>1. \E r : migrator' = [migrator EXCEPT ![j] = r]
  BY DEF Schema!Start, Schema!ReadProgress, Schema!RunBatch, Schema!RunOutside, Schema!OutsideEnds,
     Schema!JobDies, Schema!NoteOutside, Schema!Record, Schema!Unlock, Schema!InstallGuard,
     Schema!GrantAllTables, Schema!RevokeAudit, Schema!GrantAudit, Schema!Commits, Schema!Rollout,
     Schema!JobFails, Schema!OrphanEnds, Schema!Ends, Schema!Continues, Schema!Becomes
<1> QED BY <1>1 DEF Schema!TypeOK

-----------------------------------------------------------------------------
(* Migrating: what was noted is done.                                      *)

\* A statement that is to be noted stays done when its Job does not move.
LEMMA NoteStays ==
  ASSUME NotedIsDone, NEW j \in Jobs, migrator'[j] = migrator[j], UNCHANGED effect,
         migrator'[j].pc = "note"
  PROVE  effect'[Schema!NextLeft(j)'] = "present"
<1>1. Schema!NextLeft(j)' = Schema!NextLeft(j)
  BY SameLeft
<1> QED BY <1>1 DEF NotedIsDone

\* A Job that begins, reads, serves or ends.
LEMMA ServingKeepsNotes ==
  ASSUME SchemaCore, NotedIsDone, NEW j \in Jobs, migrator'[j].pc # "note",
         \A k \in Jobs \ {j} : migrator'[k] = migrator[k],
         UNCHANGED <<effect, applied, progress>>
  PROVE  NotedIsDone'
<1>1. \A s \in Schema!Statements : Done(s)' => effect'[s] = "present"
  BY DEF NotedIsDone, Done
<1>2. ASSUME NEW k \in Jobs, migrator'[k].pc = "note"
      PROVE  effect'[Schema!NextLeft(k)'] = "present"
  <2>1. migrator'[k] = migrator[k]
    BY <1>2
  <2> QED BY <1>2, <2>1, NoteStays
<1> QED BY <1>1, <1>2 DEF NotedIsDone

\* As long as no Job passes over an index left invalid, what is noted is done.
LEMMA NotedStep ==
  ASSUME SchemaCore, NotedIsDone, Schema!Next, ~Schema!TakesInvalid
  PROVE  NotedIsDone'
<1>t. Schema!TypeOK
  BY DEF SchemaCore
<1>d. \A s \in Schema!Statements : Done(s) => effect[s] = "present"
  BY DEF NotedIsDone
<1>1. CASE Schema!NewRelease \/ \E s \in Schema!Statements : Schema!DropInvalid(s)
  <2>1. /\ UNCHANGED <<applied, progress, migrator>>
        /\ \/ UNCHANGED effect
           \/ lock = None /\ \E s \in Schema!Statements :
                effect[s] = "invalid" /\ effect' = [effect EXCEPT ![s] = "absent"]
    BY <1>1, OutsidersKeepSchema
  <2>2. ASSUME NEW s \in Schema!Statements, Done(s)' PROVE effect'[s] = "present"
    <3>1. Done(s) /\ effect[s] = "present"
      BY <1>d, <2>1, <2>2 DEF Done
    <3> QED BY <1>t, <2>1, <3>1 DEF Schema!TypeOK
  <2>3. ASSUME NEW j \in Jobs, migrator'[j].pc = "note"
        PROVE  effect'[Schema!NextLeft(j)'] = "present"
    <3>1. migrator'[j] = migrator[j]
      BY <2>1
    <3>2. lock # None
      BY <2>3, <3>1, PlatformAssumption DEF SchemaCore, InTurn, Schema!Migrating
    <3> QED BY <2>1, <2>3, <3>1, <3>2, NoteStays
  <2> QED BY <2>2, <2>3 DEF NotedIsDone
<1>2. ASSUME NEW j \in Jobs, Schema!Start(j) \/ Schema!ReadProgress(j) PROVE NotedIsDone'
  <2>1. migrator'[j].pc # "note"
    BY <1>2, ReadsKeepSchema
  <2>2. UNCHANGED <<effect, applied, progress>>
    BY <1>2 DEF Schema!Start, Schema!ReadProgress
  <2>3. \A k \in Jobs \ {j} : migrator'[k] = migrator[k]
    BY <1>t, <1>2, OneJobMoves
  <2> QED BY <2>1, <2>2, <2>3, ServingKeepsNotes
<1>3. ASSUME NEW j \in Jobs, Schema!RunBatch(j) PROVE NotedIsDone'
  <2>1. /\ SchemaCore' /\ migrator'[j].pc = "statement"
        /\ UNCHANGED applied /\ progress' = progress \cup Schema!Batch(j)
        /\ \A s \in Schema!Statements :
             effect'[s] = IF s \in Schema!Batch(j) THEN "present" ELSE effect[s]
    BY <1>3, BatchKeepsSchema
  <2>2. \A s \in Schema!Statements : Done(s)' => effect'[s] = "present"
    BY <1>d, <2>1 DEF Done
  <2>3. \A k \in Jobs : migrator'[k].pc # "note"
    BY <2>1 DEF SchemaCore, InTurn, Schema!Migrating
  <2> QED BY <2>2, <2>3 DEF NotedIsDone
<1>4. ASSUME NEW j \in Jobs, Schema!RunOutside(j) \/ Schema!OutsideEnds(j) \/ Schema!JobDies(j)
      PROVE  NotedIsDone'
  <2>1. /\ SchemaCore' /\ UNCHANGED <<applied, progress>>
        /\ migrator[j].pc \in Busy /\ migrator'[j].pc \in {"running", "note", "orphan"}
        /\ Schema!NextLeft(j) \in Schema!Left(j)
        /\ Schema!NextLeft(j)' = Schema!NextLeft(j)
        /\ \A s \in Schema!Statements \ {Schema!NextLeft(j)} : effect'[s] = effect[s]
        /\ migrator'[j].pc = "note" =>
             \/ effect'[Schema!NextLeft(j)] = "present"
             \/ /\ migrator[j].pc = "statement" /\ Schema!Left(j) # {}
                /\ effect[Schema!NextLeft(j)] = "invalid"
    BY <1>4, OutsideKeepsSchema
  <2>2. ~Done(Schema!NextLeft(j))
    BY <2>1, AtWork
  <2>3. \A s \in Schema!Statements : Done(s)' => effect'[s] = "present"
    BY <1>d, <2>1, <2>2 DEF Done
  <2>4. migrator'[j].pc = "note" => effect'[Schema!NextLeft(j)'] = "present"
    BY <2>1 DEF Schema!TakesInvalid
  <2>5. \A k \in Jobs : migrator'[k].pc = "note" => k = j
    <3>1. \A k \in Jobs : migrator'[k].pc \in {"running", "note", "orphan"} => lock' = k
      BY <2>1 DEF SchemaCore, InTurn, Schema!Migrating
    <3> QED BY <2>1, <3>1
  <2> QED BY <2>3, <2>4, <2>5 DEF NotedIsDone
<1>5. ASSUME NEW j \in Jobs, Schema!NoteOutside(j) PROVE NotedIsDone'
  <2>1. /\ SchemaCore' /\ migrator[j].pc = "note" /\ migrator'[j].pc = "statement"
        /\ UNCHANGED <<applied, effect>> /\ progress' = progress \cup {Schema!NextLeft(j)}
    BY <1>5, NoteKeepsSchema
  <2>2. effect[Schema!NextLeft(j)] = "present"
    BY <2>1 DEF NotedIsDone
  <2>3. \A s \in Schema!Statements : Done(s)' => effect'[s] = "present"
    BY <1>d, <2>1, <2>2 DEF Done
  <2>4. \A k \in Jobs : migrator'[k].pc # "note"
    BY <2>1 DEF SchemaCore, InTurn, Schema!Migrating
  <2> QED BY <2>3, <2>4 DEF NotedIsDone
<1>6. ASSUME NEW j \in Jobs, Schema!Record(j) PROVE NotedIsDone'
  <2>1. /\ SchemaCore' /\ migrator'[j].pc = "next" /\ UNCHANGED effect
        /\ \A s \in Schema!Statements : Done(s)' <=> Done(s)
    BY <1>6, RecordKeepsSchema
  <2>2. \A s \in Schema!Statements : Done(s)' => effect'[s] = "present"
    BY <1>d, <2>1
  <2>3. \A k \in Jobs : migrator'[k].pc # "note"
    BY <2>1 DEF SchemaCore, InTurn, Schema!Migrating
  <2> QED BY <2>2, <2>3 DEF NotedIsDone
<1>7. ASSUME NEW j \in Jobs,
             \/ Schema!Unlock(j) \/ Schema!InstallGuard(j) \/ Schema!GrantAllTables(j)
             \/ Schema!RevokeAudit(j) \/ Schema!GrantAudit(j) \/ Schema!Rollout(j)
      PROVE  NotedIsDone'
  <2>1. /\ UNCHANGED <<effect, applied, progress>>
        /\ migrator'[j].pc \in Schema!Granting \cup {"complete", "idle"}
        /\ \A k \in Jobs \ {j} : migrator'[k] = migrator[k]
    BY <1>7, ServingKeepsSchema
  <2>2. migrator'[j].pc # "note"
    BY <2>1 DEF Schema!Granting
  <2> QED BY <2>1, <2>2, ServingKeepsNotes
<1>8. ASSUME NEW j \in Jobs, Schema!JobFails(j) \/ Schema!OrphanEnds(j) PROVE NotedIsDone'
  <2>1. /\ UNCHANGED <<applied, progress>> /\ migrator'[j].pc = "idle"
        /\ \A k \in Jobs \ {j} : migrator'[k] = migrator[k]
        /\ \/ UNCHANGED effect
           \/ migrator[j].pc = "orphan" /\ effect' = [effect EXCEPT ![Schema!NextLeft(j)] = "present"]
    BY <1>8, EndingKeepsSchema DEF Schema!Idle
  <2>2. CASE UNCHANGED effect
    BY <2>1, <2>2, ServingKeepsNotes
  <2>3. CASE /\ migrator[j].pc = "orphan"
             /\ effect' = [effect EXCEPT ![Schema!NextLeft(j)] = "present"]
    <3>1. \A s \in Schema!Statements : Done(s)' => effect'[s] = "present"
      BY <1>t, <1>d, <2>1, <2>3 DEF Done, Schema!TypeOK
    <3>2. \A k \in Jobs \ {j} : migrator[k].pc # "note"
      BY <2>3 DEF SchemaCore, InTurn, Schema!Migrating
    <3>3. \A k \in Jobs : migrator'[k].pc # "note"
      BY <2>1, <3>2
    <3> QED BY <3>1, <3>3 DEF NotedIsDone
  <2> QED BY <2>1, <2>2, <2>3
<1> QED BY <1>1, <1>2, <1>3, <1>4, <1>5, <1>6, <1>7, <1>8 DEF Schema!Next

-----------------------------------------------------------------------------
(* Migrating: what the application may do.                                 *)

\* A Job that is not between its grants moves without a grant.
LEMMA QuietKeepsGrants ==
  ASSUME Granted, NEW j \in Jobs, UNCHANGED <<rolled, may>>,
         \A k \in Jobs \ {j} : migrator'[k] = migrator[k],
         migrator[j].pc \notin {"revoke", "grant"}, migrator'[j].pc # "complete"
  PROVE  Granted'
<1>1. ("change" \in may)' => \E k \in Jobs : migrator'[k].pc = "revoke"
  BY DEF Granted
<1>2. ASSUME rolled' > 0 \/ \E k \in Jobs : migrator'[k].pc = "complete",
             \A k \in Jobs : migrator'[k].pc \notin {"revoke", "grant"}
      PROVE  {"select", "insert"} \subseteq may'
  <2>1. rolled > 0 \/ \E k \in Jobs : migrator[k].pc = "complete"
    BY <1>2
  <2>2. \A k \in Jobs : migrator[k].pc \notin {"revoke", "grant"}
    BY <1>2
  <2> QED BY <2>1, <2>2 DEF Granted
<1> QED BY <1>1, <1>2 DEF Granted

\* As long as no Job ends between its grants, what a grant takes away the last
\* one gives back.
LEMMA GrantedStep ==
  ASSUME SchemaCore, Granted, Schema!Next, ~Schema!HaltsGranting
  PROVE  Granted'
<1>t. Schema!TypeOK
  BY DEF SchemaCore
<1>1. CASE Schema!NewRelease \/ \E s \in Schema!Statements : Schema!DropInvalid(s)
  <2>1. UNCHANGED <<migrator, rolled, may>>
    BY <1>1, OutsidersKeepSchema
  <2> QED BY <2>1 DEF Granted
<1>2. ASSUME NEW j \in Jobs,
             \/ Schema!Start(j) \/ Schema!ReadProgress(j) \/ Schema!RunBatch(j)
             \/ Schema!RunOutside(j) \/ Schema!OutsideEnds(j) \/ Schema!JobDies(j)
             \/ Schema!NoteOutside(j) \/ Schema!Record(j)
      PROVE  Granted'
  <2>1. \A k \in Jobs \ {j} : migrator'[k] = migrator[k]
    BY <1>t, <1>2, OneJobMoves
  <2>2. migrator[j].pc \notin {"revoke", "grant"} /\ UNCHANGED <<rolled, may>>
    BY <1>2 DEF Schema!Start, Schema!ReadProgress, Schema!RunBatch, Schema!RunOutside,
       Schema!OutsideEnds, Schema!JobDies, Schema!NoteOutside, Schema!Record,
       Schema!ServingUnchanged, Schema!Idle
  <2>3. migrator'[j].pc \in {"next", "statement", "running", "note", "orphan"}
    BY <1>2, ReadsKeepSchema, BatchKeepsSchema, OutsideKeepsSchema, NoteKeepsSchema, RecordKeepsSchema
  <2> QED BY <2>1, <2>2, <2>3, QuietKeepsGrants
<1>3. ASSUME NEW j \in Jobs, Schema!Unlock(j) \/ Schema!InstallGuard(j) PROVE Granted'
  <2>1. \A k \in Jobs \ {j} : migrator'[k] = migrator[k]
    BY <1>t, <1>3, OneJobMoves
  <2>2. migrator[j].pc \in {"next", "guard"} /\ UNCHANGED <<rolled, may>>
    BY <1>3 DEF Schema!Unlock, Schema!InstallGuard, Schema!ServingUnchanged
  <2>3. migrator'[j].pc # "complete"
    <3>1. CASE Schema!Unlock(j)
      BY <1>t, <3>1 DEF Schema!Unlock, Schema!Becomes, Schema!TypeOK
    <3>2. CASE Schema!InstallGuard(j)
      <4>1. /\ migrator[j].pc \in Schema!Granting \cup {"complete"}
            /\ "grant all" \in Schema!Granting \cup {"complete"} /\ Schema!Continues(j, "grant all")
        BY <3>2 DEF Schema!InstallGuard, Schema!Granting
      <4> QED BY <1>t, <4>1, ServesOn
    <3> QED BY <1>3, <3>1, <3>2
  <2> QED BY <2>1, <2>2, <2>3, QuietKeepsGrants
<1>4. ASSUME NEW j \in Jobs,
             Schema!GrantAllTables(j) \/ Schema!RevokeAudit(j) \/ Schema!GrantAudit(j)
      PROVE  Granted'
  <2>1. \A k \in Jobs \ {j} : migrator'[k] = migrator[k]
    BY <1>t, <1>4, OneJobMoves
  <2>2. PICK p \in {"revoke", "grant", "complete"} :
          /\ migrator'[j].pc = p /\ UNCHANGED rolled
          /\ \/ p = "revoke"
             \/ p = "grant" /\ may' = {}
             \/ p = "complete" /\ may' = may \cup {"select", "insert"} /\ migrator[j].pc = "grant"
    <3>1. ASSUME NEW from \in {"grant all", "revoke", "grant"},
                 NEW to \in {"revoke", "grant", "complete"},
                 migrator[j].pc = from, Schema!Continues(j, to)
          PROVE  migrator'[j].pc = to
      <4>1. to \in Schema!Granting \cup {"complete"} /\ from \in Schema!Granting \cup {"complete"}
        BY DEF Schema!Granting
      <4> QED BY <1>t, <3>1, <4>1, ServesOn
    <3>2. CASE Schema!GrantAllTables(j)
      BY <3>1, <3>2 DEF Schema!GrantAllTables, Schema!Commits
    <3>3. CASE Schema!RevokeAudit(j)
      BY <3>1, <3>3 DEF Schema!RevokeAudit, Schema!Commits
    <3>4. CASE Schema!GrantAudit(j)
      BY <3>1, <3>4 DEF Schema!GrantAudit, Schema!Commits
    <3> QED BY <1>4, <3>2, <3>3, <3>4
  <2>3. ("change" \in may)' => \E k \in Jobs : migrator'[k].pc = "revoke"
    <3>1. CASE p = "complete"
      <4>1. "change" \in may' => \E k \in Jobs \ {j} : migrator[k].pc = "revoke"
        BY <2>2, <3>1 DEF Granted
      <4> QED BY <2>1, <4>1
    <3> QED BY <2>2, <3>1
  <2>4. (\A k \in Jobs : migrator'[k].pc \notin {"revoke", "grant"}) =>
          {"select", "insert"} \subseteq may'
    BY <2>2
  <2> QED BY <2>3, <2>4 DEF Granted
<1>5. ASSUME NEW j \in Jobs, Schema!Rollout(j) PROVE Granted'
  <2>1. \A k \in Jobs \ {j} : migrator'[k] = migrator[k]
    BY <1>t, <1>5, OneJobMoves
  <2>2. migrator[j].pc = "complete" /\ UNCHANGED may /\ migrator'[j] = Schema!Idle
    BY <1>t, <1>5 DEF Schema!Rollout, Schema!Becomes, Schema!TypeOK
  <2>3. ("change" \in may)' => \E k \in Jobs : migrator'[k].pc = "revoke"
    BY <2>1, <2>2 DEF Granted
  <2>4. (\A k \in Jobs : migrator'[k].pc \notin {"revoke", "grant"}) =>
          {"select", "insert"} \subseteq may'
    <3>1. (\A k \in Jobs : migrator'[k].pc \notin {"revoke", "grant"}) =>
            \A k \in Jobs : migrator[k].pc \notin {"revoke", "grant"}
      BY <2>1, <2>2
    <3> QED BY <2>2, <3>1 DEF Granted
  <2> QED BY <2>3, <2>4 DEF Granted
<1>6. ASSUME NEW j \in Jobs, Schema!JobFails(j) \/ Schema!OrphanEnds(j) PROVE Granted'
  <2>1. migrator'[j] = Schema!Idle /\ \A k \in Jobs \ {j} : migrator'[k] = migrator[k]
    BY <1>6, EndingKeepsSchema
  <2>2. migrator[j].pc \notin {"revoke", "grant"}
    BY <2>1 DEF Schema!HaltsGranting
  <2>3. UNCHANGED <<rolled, may>>
    BY <1>6 DEF Schema!JobFails, Schema!OrphanEnds, Schema!Ends, Schema!ServingUnchanged
  <2> QED BY <2>1, <2>2, <2>3, QuietKeepsGrants DEF Schema!Idle
<1> QED BY <1>1, <1>2, <1>3, <1>4, <1>5, <1>6 DEF Schema!Next

-----------------------------------------------------------------------------
(* Migrating: the invariant and its theorem.                               *)

\* Every step of the migrations keeps the core of the invariant.
LEMMA SchemaNextKeepsCore == SchemaCore /\ Schema!Next => SchemaCore'
<1> SUFFICES ASSUME SchemaCore, Schema!Next PROVE SchemaCore'
  OBVIOUS
<1>1. CASE Schema!NewRelease \/ \E s \in Schema!Statements : Schema!DropInvalid(s)
  BY <1>1, OutsidersKeepSchema
<1>2. ASSUME NEW j \in Jobs, Schema!Start(j) \/ Schema!ReadProgress(j) PROVE SchemaCore'
  BY <1>2, ReadsKeepSchema
<1>3. ASSUME NEW j \in Jobs, Schema!RunBatch(j) PROVE SchemaCore'
  BY <1>3, BatchKeepsSchema
<1>4. ASSUME NEW j \in Jobs, Schema!RunOutside(j) \/ Schema!OutsideEnds(j) \/ Schema!JobDies(j)
      PROVE  SchemaCore'
  BY <1>4, OutsideKeepsSchema
<1>5. ASSUME NEW j \in Jobs, Schema!NoteOutside(j) PROVE SchemaCore'
  BY <1>5, NoteKeepsSchema
<1>6. ASSUME NEW j \in Jobs, Schema!Record(j) PROVE SchemaCore'
  BY <1>6, RecordKeepsSchema
<1>7. ASSUME NEW j \in Jobs,
             \/ Schema!Unlock(j) \/ Schema!InstallGuard(j) \/ Schema!GrantAllTables(j)
             \/ Schema!RevokeAudit(j) \/ Schema!GrantAudit(j) \/ Schema!Rollout(j)
      PROVE  SchemaCore'
  BY <1>7, ServingKeepsSchema
<1>8. ASSUME NEW j \in Jobs, Schema!JobFails(j) \/ Schema!OrphanEnds(j) PROVE SchemaCore'
  BY <1>8, EndingKeepsSchema
<1> QED BY <1>1, <1>2, <1>3, <1>4, <1>5, <1>6, <1>7, <1>8 DEF Schema!Next

\* A step of another part of the platform leaves the schema as it is.
LEMMA ElsewhereKeepsSchema ==
  ASSUME SchemaHolds, UNCHANGED schemaVars, UNCHANGED <<neglected, halted>>
  PROVE  SchemaHolds'
<1>0. UNCHANGED <<effect, applied, progress, lock, migrator, released, rolled, triggers, may>>
  BY DEF schemaVars
<1>1. Schema!TypeOK' /\ InTurn' /\ Schema!SchemaFirst' /\ GuardedFirst' /\ Schema!Guarded' /\ Noted'
  BY <1>0 DEF SchemaHolds, SchemaCore, Schema!TypeOK, InTurn, Schema!SchemaFirst, GuardedFirst,
     Schema!Guarded, Noted, Done, Schema!OutsideTransaction, Schema!Kind
<1>2. \A j \in Jobs : Schema!Left(j)' = Schema!Left(j) /\ Schema!NextLeft(j)' = Schema!NextLeft(j)
  BY <1>0, SameLeft
<1>3. \A j \in Jobs : Known(j)'
  BY <1>0, <1>2 DEF SchemaHolds, SchemaCore, Known, Schema!OutsideTransaction, Schema!Kind
<1>4. NotedIsDone => NotedIsDone'
  BY <1>0, <1>2 DEF NotedIsDone, Done
<1>5. Granted => Granted'
  BY <1>0 DEF Granted
<1> QED BY <1>1, <1>3, <1>4, <1>5 DEF SchemaHolds, SchemaCore

\* The invariant of the migrations is kept by every step of the platform.
LEMMA SchemaStep == SchemaHolds /\ [PlatformNext]_everything => SchemaHolds'
<1> SUFFICES ASSUME SchemaHolds, [PlatformNext]_everything PROVE SchemaHolds'
  OBVIOUS
<1>1. CASE /\ Schema!Next
           /\ neglected' = (neglected \/ Schema!TakesInvalid)
           /\ halted' = (halted \/ Schema!HaltsGranting)
  <2>1. SchemaCore' /\ neglected' \in BOOLEAN /\ halted' \in BOOLEAN
    BY <1>1, SchemaNextKeepsCore DEF SchemaHolds
  <2>2. ~neglected' => NotedIsDone'
    BY <1>1, NotedStep DEF SchemaHolds
  <2>3. ~halted' => Granted'
    BY <1>1, GrantedStep DEF SchemaHolds
  <2> QED BY <2>1, <2>2, <2>3 DEF SchemaHolds
<1>2. CASE UNCHANGED <<schemaVars, neglected, halted>>
  BY <1>2, ElsewhereKeepsSchema
<1>3. UNCHANGED everything => UNCHANGED <<schemaVars, neglected, halted>>
  BY DEF everything, history
<1> QED BY <1>1, <1>2, <1>3 DEF PlatformNext

\* Nothing has been applied, granted or noted at the start.
LEMMA SchemaInit == PlatformInit => SchemaHolds
<1> SUFFICES ASSUME PlatformInit PROVE SchemaHolds
  OBVIOUS
<1>0. /\ effect = [s \in Schema!Statements |-> "absent"]
      /\ applied = {} /\ progress = {} /\ lock = None
      /\ migrator = [j \in Jobs |-> Schema!Idle]
      /\ released = 1 /\ rolled = 0 /\ triggers = FALSE /\ may = {}
      /\ neglected = FALSE /\ halted = FALSE
  BY DEF PlatformInit, Schema!Init
<1>i. \A j \in Jobs : migrator[j] = Schema!Idle /\ migrator[j].pc = "idle"
  BY <1>0 DEF Schema!Idle
<1>1. Schema!TypeOK
  <2>1. 1 \in DOMAIN Files /\ 0 \in 0 .. Len(Files)
    BY StatementShape
  <2> QED BY <1>0, <2>1 DEF Schema!TypeOK
<1>2. InTurn
  <2>1. applied = 1 .. 0 /\ 0 \in 0 .. Len(Files)
    BY <1>0, StatementShape
  <2>2. \A j \in Jobs : migrator[j].pc \notin Schema!Migrating /\ lock # j
    BY <1>0, <1>i, PlatformAssumption DEF Schema!Migrating
  <2> QED BY <2>1, <2>2 DEF InTurn
<1>3. Schema!SchemaFirst /\ GuardedFirst /\ Schema!Guarded
  <2>1. 1 .. rolled \subseteq applied
    BY <1>0
  <2> QED BY <1>0, <1>i, <2>1 DEF Schema!SchemaFirst, GuardedFirst, Schema!Guarded, Schema!Granting
<1>4. Noted /\ NotedIsDone /\ Granted
  BY <1>0, <1>i DEF Noted, NotedIsDone, Done, Granted
<1>5. \A j \in Jobs : Known(j)
  BY <1>i DEF Known, Busy
<1> QED BY <1>0, <1>1, <1>2, <1>3, <1>4, <1>5 DEF SchemaHolds, SchemaCore

\* What is promised of the migrations follows from the invariant.
LEMMA SchemaStands == SchemaHolds => MigrationsStand
<1> SUFFICES ASSUME SchemaHolds PROVE MigrationsStand
  OBVIOUS
<1>t. Schema!TypeOK /\ SchemaCore
  BY DEF SchemaHolds, SchemaCore
<1>1. Schema!InOrder
  <2>1. PICK n \in 0 .. Len(Files) : applied = 1 .. n
    BY <1>t DEF SchemaCore, InTurn
  <2>2. Len(Files) \in Nat
    BY StatementShape
  <2> QED BY <2>1, <2>2 DEF Schema!InOrder
<1>2. Schema!RunsOnce
  <2>1. ASSUME NEW j \in Jobs, migrator[j].pc = "statement", NEW s \in Schema!Batch(j)
        PROVE  effect[s] = "absent"
    <3>1. s \in Schema!Left(j) /\ ~Schema!OutsideTransaction(s)
      <4>1. \A x \in Schema!Left(j) : x[2] \in Nat
        BY StatementShape DEF Schema!Left
      <4> QED BY <4>1 DEF Schema!Batch
    <3>2. s \in Schema!Statements /\ ~Done(s)
      BY <1>t, <2>1, <3>1, AtWork DEF Busy
    <3>3. effect[s] # "present"
      BY <1>t, <3>1, <3>2 DEF SchemaCore, Noted
    <3>4. effect[s] # "invalid"
      BY <1>t, <3>1, <3>2 DEF Schema!TypeOK, Schema!OutsideTransaction
    <3> QED BY <1>t, <3>2, <3>3, <3>4 DEF Schema!TypeOK
  <2> QED BY <2>1 DEF Schema!RunsOnce
<1>3. ~neglected => \A m \in applied : Schema!Whole(m)
  BY DEF SchemaHolds, NotedIsDone, Done, Schema!Whole
<1>4. ~halted => Schema!MayAudit
  <2> SUFFICES ASSUME ~halted, rolled > 0, \A j \in Jobs : migrator[j].pc \notin {"revoke", "grant"}
               PROVE  may = {"select", "insert"}
    BY DEF Schema!MayAudit
  <2>1. "change" \notin may /\ {"select", "insert"} \subseteq may
    BY DEF SchemaHolds, Granted
  <2>2. may \subseteq {"select", "insert", "change"}
    BY <1>t DEF Schema!TypeOK
  <2> QED BY <2>1, <2>2
<1> QED BY <1>t, <1>1, <1>2, <1>3, <1>4 DEF SchemaCore, MigrationsStand

\* Migrations are applied in order, each statement that cannot be repeated once
\* and, as long as no retry passes over an index left invalid, whole; web and
\* worker are rolled out on the schema they expect; and between the grants of
\* Jobs, none of which ended there, the application may add audit events and no
\* more (migrator.ts, migrate.ts, audit-guard.ts, eks-deploy.sh): of any journal,
\* any number of Jobs and any failures.
THEOREM MigrationsAlwaysStand == PlatformSpec => []MigrationsStand
<1>1. PlatformInit => SchemaHolds
  BY SchemaInit
<1>2. SchemaHolds /\ [PlatformNext]_everything => SchemaHolds'
  BY SchemaStep
<1>3. SchemaHolds => MigrationsStand
  BY SchemaStands
<1> QED BY <1>1, <1>2, <1>3, PTL DEF PlatformSpec

-----------------------------------------------------------------------------
(* Sealing what is old.                                                    *)

\* Every row before a cursor is sealed.
Covered(c) ==
  \A t \in 1 .. Tables : \A r \in Seal!RowsOf(t) :
    t < c[1] \/ (t = c[1] /\ r <= c[2]) => stored[r].sealed

\* What a batch has left to do is what its page has unsealed.
BatchCovers(w) ==
  worker[w] # Seal!Idle =>
    /\ Covered(worker[w].at)
    /\ worker[w].pc # "seal" => worker[w].todo = {}
    /\ worker[w].pc = "seal" =>
         /\ worker[w].next = Seal!After(worker[w].at, Seal!Page(worker[w].at))
         /\ \A r \in Seal!Page(worker[w].at) :
              stored[r].sealed \/ \E x \in worker[w].todo : x.row = r
    /\ worker[w].pc = "next" =>
         worker[w].next \in Seal!Cursors \ {worker[w].at} /\ Covered(worker[w].next)

\* A job that is not over has an attempt left; its lock is one worker's.
Live(c) == job[c].state \in {"queued", "delayed", "active"}
JobsHeld ==
  /\ \A c \in Seal!Cursors : Live(c) => job[c].left > 0
  /\ \A w \in Workers : worker[w] # Seal!Idle /\ worker[w].locked => job[worker[w].at].state = "active"
  /\ \A v, w \in Workers :
       /\ worker[v] # Seal!Idle /\ worker[v].locked /\ worker[w] # Seal!Idle /\ worker[w].locked
       /\ worker[v].at = worker[w].at
       => v = w

\* What a batch has read and not yet written is the last edit.
ReadIsLast ==
  \A w \in Workers : worker[w] # Seal!Idle => \A x \in worker[w].todo : x.text = edits[x.row]

\* One job of the back-fill at a time carries its one run on.
Running(i) == run[i] = "running"
CarriesOn(w) ==
  worker[w] # Seal!Idle =>
    /\ worker[w].pc # "finish" => Live(worker[w].at)
    /\ worker[w].pc \in {"page", "seal", "fail"} => worker[w].run \in Seal!Runs /\ Running(worker[w].run)
    /\ worker[w].pc = "insert" => \A i \in Seal!Runs : ~Running(i)
    /\ worker[w].pc = "finish" /\ (\E i \in Seal!Runs : Running(i)) =>
         \E c \in Seal!Cursors : c # worker[w].at /\ Live(c)
OneChain ==
  /\ \A v, w \in Workers : worker[v] # Seal!Idle /\ worker[w] # Seal!Idle => v = w
  /\ \A i, j \in Seal!Runs : Running(i) /\ Running(j) => i = j
  /\ \A w \in Workers : CarriesOn(w)
  /\ Seal!RunHasAJob

SealCore ==
  /\ Seal!TypeOK /\ Seal!SealedWhenDone /\ JobsHeld
  /\ \A c \in Seal!Cursors : job[c].state # "none" => Covered(c)
  /\ \A w \in Workers : BatchCovers(w)
SealHolds ==
  /\ SealCore /\ stale \in BOOLEAN /\ astray \in BOOLEAN
  /\ ~stale => Seal!LastEditStands /\ ReadIsLast
  /\ ~astray => OneChain

\* Counting is the same inside the back-fill.
LEMMA SealCounts == ASSUME NEW S PROVE Seal!Cardinality(S) = Cardinality(S)
  BY DEF Seal!Cardinality, Cardinality

\* The numbers a page is made from.
LEMMA SealBounds ==
  /\ Tables \in Nat \ {0} /\ RowsEach \in Nat \ {0} /\ BATCH \in Nat \ {0} /\ MaxAttempts \in Nat \ {0}
  /\ MaxRuns \in Nat /\ MaxEdits \in Nat /\ MaxEvents \in Nat
  /\ Tables * RowsEach \in Nat
  /\ Seal!Rows \subseteq Nat \ {0} /\ \A r \in Seal!Rows : r <= Tables * RowsEach
<1>1. /\ Tables \in Nat \ {0} /\ RowsEach \in Nat \ {0} /\ BATCH \in Nat \ {0} /\ MaxAttempts \in Nat \ {0}
      /\ MaxRuns \in Nat /\ MaxEdits \in Nat /\ MaxEvents \in Nat
  BY PlatformAssumption
<1>2. Tables * RowsEach \in Nat
  BY <1>1
<1> QED BY <1>1, <1>2 DEF Seal!Rows

\* A row is of one of the tables.
LEMMA RowsTable ==
  ASSUME NEW r \in Seal!Rows
  PROVE  \E t \in 1 .. Tables : r \in Seal!RowsOf(t)
<1> DEFINE q == (r - 1) \div RowsEach
<1>1. r \in Nat \ {0} /\ RowsEach \in Nat \ {0} /\ Tables \in Nat \ {0} /\ r <= Tables * RowsEach
  BY SealBounds
<1>2. q \in Nat /\ q * RowsEach <= r - 1
  BY <1>1
<1>3. q < Tables
  <2>1. ASSUME q >= Tables PROVE FALSE
    <3> HIDE DEF q
    <3>1. q * RowsEach >= Tables * RowsEach
      BY <1>1, <1>2, <2>1
    <3> QED BY <1>1, <1>2, <3>1
  <2> HIDE DEF q
  <2> QED BY <1>1, <1>2, <2>1
<1>4. q + 1 \in 1 .. Tables
  <2> HIDE DEF q
  <2> QED BY <1>1, <1>2, <1>3
<1> QED BY <1>4 DEF Seal!RowsOf

\* The rows of a table after a cursor, and those of them before a row.
Rest(c) == {r \in Seal!RowsOf(c[1]) : r > c[2]}
Ahead(c, r) == {x \in Rest(c) : x < r}

LEMMA RestShape ==
  ASSUME NEW c \in Seal!Cursors
  PROVE  /\ c[1] \in 1 .. Tables /\ c[2] \in 0 .. (Tables * RowsEach) /\ c = <<c[1], c[2]>>
         /\ Rest(c) \subseteq Seal!Rows /\ IsFiniteSet(Rest(c))
         /\ \A r \in Seal!Rows : Ahead(c, r) \subseteq Rest(c) /\ IsFiniteSet(Ahead(c, r))
                                /\ Cardinality(Ahead(c, r)) \in Nat
<1>1. c[1] \in 1 .. Tables /\ c[2] \in 0 .. (Tables * RowsEach) /\ c = <<c[1], c[2]>>
  BY DEF Seal!Cursors
<1>2. Rest(c) \subseteq Seal!Rows
  BY DEF Rest, Seal!RowsOf
<1>3. IsFiniteSet(Seal!Rows)
  BY SealBounds, FS_Interval DEF Seal!Rows
<1>4. IsFiniteSet(Rest(c))
  BY <1>2, <1>3, FS_Subset
<1>5. ASSUME NEW r \in Seal!Rows
      PROVE  Ahead(c, r) \subseteq Rest(c) /\ IsFiniteSet(Ahead(c, r)) /\ Cardinality(Ahead(c, r)) \in Nat
  <2>1. Ahead(c, r) \subseteq Rest(c)
    BY DEF Ahead
  <2>2. IsFiniteSet(Ahead(c, r))
    BY <1>4, <2>1, FS_Subset
  <2> QED BY <2>1, <2>2, FS_CardinalityType
<1> QED BY <1>1, <1>2, <1>4, <1>5

\* Max is the greatest of some rows.
LEMMA LastRow ==
  ASSUME NEW S \in SUBSET Seal!Rows, S # {}
  PROVE  Seal!Max(S) \in S /\ \A r \in S : r <= Seal!Max(S)
<1> DEFINE n == Tables * RowsEach
           T == {n - k : k \in S}
<1>0. n \in Nat /\ \A r \in S : r \in Nat /\ r <= n
  BY SealBounds
<1> HIDE DEF n
<1>1. T \in SUBSET Nat /\ T # {}
  BY <1>0
<1>2. PICK t \in T : \A u \in T : t <= u
  <2> HIDE DEF T
  <2> QED BY <1>1, LeastExists
<1>3. PICK m \in S : t = n - m
  BY <1>2
<1>4. \A k \in S : m >= k
  <2> SUFFICES ASSUME NEW k \in S PROVE m >= k
    OBVIOUS
  <2>1. n - m <= n - k
    BY <1>2, <1>3
  <2> QED BY <1>0, <2>1
<1>5. \A y \in S : Seal!Max(S) >= y
  BY <1>4 DEF Seal!Max
<1>6. Seal!Max(S) \in S
  BY <1>4 DEF Seal!Max
<1> QED BY <1>0, <1>5, <1>6

\* A page is the first of the rows after its cursor: all of them unless it is full.
LEMMA PageIs ==
  ASSUME NEW c \in Seal!Cursors
  PROVE  LET page == Seal!Page(c) IN
         /\ page \subseteq Rest(c)
         /\ Cardinality(page) = BATCH =>
              Seal!Max(page) \in page /\ \A r \in Rest(c) : r <= Seal!Max(page) => r \in page
         /\ Cardinality(page) # BATCH => page = Rest(c)
<1> DEFINE page == Seal!Page(c)
<1>1. page = {r \in Rest(c) : Cardinality(Ahead(c, r)) < BATCH}
  BY SealCounts DEF Seal!Page, Rest, Ahead
<1> HIDE DEF page
<1>2. page \subseteq Rest(c) /\ page \subseteq Seal!Rows /\ Rest(c) \subseteq Nat
  BY <1>1, RestShape, SealBounds
<1>3. IsFiniteSet(page) /\ Cardinality(page) \in Nat
  BY <1>2, RestShape, FS_Subset, FS_CardinalityType
<1>4. ASSUME NEW m \in page, NEW r \in Rest(c), r <= m PROVE r \in page
  <2>1. r \in Seal!Rows /\ m \in Seal!Rows /\ Ahead(c, r) \subseteq Ahead(c, m)
    BY <1>2, <1>4, RestShape, SealBounds DEF Ahead
  <2>2. Cardinality(Ahead(c, r)) <= Cardinality(Ahead(c, m))
    BY <2>1, RestShape, FS_Subset
  <2> QED BY <1>1, <1>4, <2>1, <2>2, RestShape, SealBounds
<1>5. Cardinality(page) = BATCH => Seal!Max(page) \in page
  <2>1. Cardinality(page) = BATCH => page # {}
    BY SealBounds, FS_EmptySet
  <2> QED BY <1>2, <2>1, LastRow
<1>6. page # {} => Cardinality(page) <= BATCH
  <2> SUFFICES ASSUME page # {} PROVE Cardinality(page) <= BATCH
    OBVIOUS
  <2>1. PICK m \in page : \A r \in page : r <= m
    BY <1>2, LastRow
  <2>2. page \ {m} \subseteq Ahead(c, m)
    BY <1>2, <2>1 DEF Ahead
  <2>3. m \in Seal!Rows /\ Cardinality(Ahead(c, m)) < BATCH
    BY <1>1, <1>2, <2>1
  <2>4. Cardinality(page \ {m}) <= Cardinality(Ahead(c, m))
    BY <2>2, <2>3, RestShape, FS_Subset
  <2>5. Cardinality(page \ {m}) = Cardinality(page) - 1
    BY <1>3, <2>1, FS_RemoveElement
  <2> QED BY <1>3, <2>3, <2>4, <2>5, RestShape, SealBounds
<1>7. Cardinality(page) # BATCH => page = Rest(c)
  <2> SUFFICES ASSUME page # Rest(c) PROVE Cardinality(page) = BATCH
    OBVIOUS
  <2> DEFINE Over == Rest(c) \ page
  <2>1. PICK r \in Over : \A x \in Over : r <= x
    <3>1. Over \in SUBSET Nat /\ Over # {}
      BY <1>2
    <3> HIDE DEF Over
    <3> QED BY <3>1, LeastExists
  <2>2. r \in Rest(c) /\ r \notin page /\ r \in Seal!Rows
    BY <2>1, RestShape
  <2>3. \A x \in page : x < r
    <3> SUFFICES ASSUME NEW x \in page PROVE x < r
      OBVIOUS
    <3>1. ~(r <= x)
      BY <1>4, <2>2
    <3> QED BY <1>2, <2>2, <3>1
  <2>4. Ahead(c, r) = page
    <3>1. \A x \in Rest(c) : x < r => x \in page
      BY <1>2, <2>1, <2>2
    <3> QED BY <1>2, <2>3, <3>1 DEF Ahead
  <2>5. ~(Cardinality(page) < BATCH)
    BY <1>1, <2>2, <2>4
  <2>6. page # {}
    BY <1>3, <2>5, SealBounds, FS_EmptySet
  <2> QED BY <1>3, <1>6, <2>5, <2>6, SealBounds
<1> QED BY <1>2, <1>4, <1>5, <1>7 DEF page

\* When the page at a cursor is sealed too, so is all before the next cursor, and
\* after the last page everything is.
LEMMA AfterCovers ==
  ASSUME NEW c \in Seal!Cursors, Covered(c), \A r \in Seal!Page(c) : stored[r].sealed,
         NEW next, next = Seal!After(c, Seal!Page(c))
  PROVE  /\ next = Seal!Done => \A r \in Seal!Rows : stored[r].sealed
         /\ next # Seal!Done => next \in Seal!Cursors /\ Covered(next)
<1>1. PICK t \in 1 .. Tables, i \in 0 .. (Tables * RowsEach) : c = <<t, i>> /\ c[1] = t /\ c[2] = i
  BY RestShape
<1>2. Tables \in Nat \ {0} /\ t \in Nat /\ i \in Nat /\ Tables * RowsEach \in Nat
  BY <1>1, SealBounds
<1>3. \A s \in 1 .. Tables : Seal!RowsOf(s) \subseteq Seal!Rows
  BY DEF Seal!RowsOf
<1>4. \A r \in Seal!RowsOf(t) : r \in Nat /\ (r > i => r \in Rest(c))
  BY <1>1, <1>3, SealBounds DEF Rest
<1>5. CASE Cardinality(Seal!Page(c)) = BATCH
  <2> DEFINE m == Seal!Max(Seal!Page(c))
  <2>1. next = <<t, m>>
    BY <1>1, <1>5, SealCounts DEF Seal!After
  <2>2. m \in Seal!Page(c) /\ \A r \in Rest(c) : r <= m => r \in Seal!Page(c)
    BY <1>5, PageIs
  <2>3. m \in Seal!Rows
    BY <2>2, PageIs, RestShape
  <2> HIDE DEF m
  <2>4. next \in Seal!Cursors /\ next # Seal!Done
    BY <1>2, <2>1, <2>3, SealBounds DEF Seal!Cursors, Seal!Done
  <2>5. Covered(next)
    <3> SUFFICES ASSUME NEW s \in 1 .. Tables, NEW r \in Seal!RowsOf(s), s < t \/ (s = t /\ r <= m)
                 PROVE  stored[r].sealed
      BY <2>1 DEF Covered
    <3>1. CASE s < t
      BY <1>1, <3>1 DEF Covered
    <3>2. CASE s = t /\ r <= m /\ r <= i
      BY <1>1, <3>2 DEF Covered
    <3>3. CASE s = t /\ r <= m /\ r > i
      BY <1>4, <2>2, <3>3
    <3> QED BY <1>2, <1>4, <3>1, <3>2, <3>3
  <2> QED BY <2>4, <2>5
<1>6. CASE Cardinality(Seal!Page(c)) # BATCH
  <2>1. \A s \in 1 .. Tables : \A r \in Seal!RowsOf(s) : s <= t => stored[r].sealed
    <3> SUFFICES ASSUME NEW s \in 1 .. Tables, NEW r \in Seal!RowsOf(s), s <= t
                 PROVE  stored[r].sealed
      OBVIOUS
    <3>1. CASE s < t
      BY <1>1, <3>1 DEF Covered
    <3>2. CASE s = t /\ r <= i
      BY <1>1, <3>2 DEF Covered
    <3>3. CASE s = t /\ r > i
      BY <1>4, <1>6, <3>3, PageIs
    <3> QED BY <1>2, <1>4, <3>1, <3>2, <3>3
  <2>2. CASE t < Tables
    <3>1. next = <<t + 1, 0>>
      BY <1>1, <1>6, <2>2, SealCounts DEF Seal!After
    <3>2. next \in Seal!Cursors /\ next # Seal!Done
      BY <1>2, <2>2, <3>1 DEF Seal!Cursors, Seal!Done
    <3>3. Covered(next)
      <4> SUFFICES ASSUME NEW s \in 1 .. Tables, NEW r \in Seal!RowsOf(s), s < t + 1 \/ (s = t + 1 /\ r <= 0)
                   PROVE  stored[r].sealed
        BY <3>1 DEF Covered
      <4>1. r \in Nat \ {0}
        BY <1>3, SealBounds
      <4> QED BY <1>2, <2>1, <4>1
    <3> QED BY <3>2, <3>3
  <2>3. CASE ~(t < Tables)
    <3>1. next = Seal!Done
      BY <1>1, <1>6, <2>3, SealCounts DEF Seal!After
    <3>2. ASSUME NEW r \in Seal!Rows PROVE stored[r].sealed
      <4>1. PICK s \in 1 .. Tables : r \in Seal!RowsOf(s)
        BY RowsTable
      <4> QED BY <1>2, <2>1, <2>3, <4>1
    <3> QED BY <3>1, <3>2
  <2> QED BY <2>2, <2>3
<1> QED BY <1>5, <1>6

\* The next cursor is another one.
LEMMA AfterMoves ==
  ASSUME NEW c \in Seal!Cursors
  PROVE  Seal!After(c, Seal!Page(c)) # c
<1>1. c[1] \in 1 .. Tables /\ c[2] \in 0 .. (Tables * RowsEach) /\ c = <<c[1], c[2]>> /\ c # Seal!Done
  BY RestShape DEF Seal!Done, Seal!Cursors
<1>2. ASSUME Cardinality(Seal!Page(c)) = BATCH PROVE Seal!Max(Seal!Page(c)) # c[2]
  <2>1. Seal!Max(Seal!Page(c)) \in Rest(c)
    BY <1>2, PageIs
  <2>2. \A r \in Rest(c) : r \in Nat /\ r > c[2]
    BY RestShape, SealBounds DEF Rest
  <2> QED BY <1>1, <2>1, <2>2, SealBounds
<1>3. c[1] + 1 # c[1]
  BY <1>1, SealBounds
<1> QED BY <1>1, <1>2, <1>3, SealCounts DEF Seal!After

\* A worker is idle or has a batch.
LEMMA WorkerShape ==
  ASSUME Seal!TypeOK, NEW w \in Workers
  PROVE  /\ worker[w] = Seal!Idle \/ worker[w] \in Seal!Working
         /\ worker[w] # Seal!Idle <=> worker[w] \in Seal!Working
         /\ worker[w] # Seal!Idle <=> worker[w].pc # "idle"
<1>1. worker[w] \in {Seal!Idle} \cup Seal!Working
  BY DEF Seal!TypeOK
<1>2. Seal!Idle.pc = "idle" /\ \A x \in Seal!Working : x.pc # "idle"
  BY DEF Seal!Idle, Seal!Working
<1> QED BY <1>1, <1>2

\* What a worker may do next.
Acts(w) ==
  \/ Seal!PassGate(w) \/ Seal!FindRun(w) \/ Seal!InsertRun(w)
  \/ Seal!ReadPage(w) \/ Seal!SealRow(w) \/ Seal!CommitBatch(w) \/ Seal!EnqueueNext(w) \/ Seal!Finish(w)
  \/ Seal!StepFails(w) \/ Seal!MarkFailed(w) \/ Seal!Throw(w) \/ Seal!WorkerDies(w) \/ Seal!LoseLock(w)

\* It is alone in changing what it does.
LEMMA ActsAlone ==
  ASSUME Seal!TypeOK, NEW v \in Workers, Acts(v) \/ \E c \in Seal!Cursors : Seal!TakeJob(v, c)
  PROVE  \E x : worker' = [worker EXCEPT ![v] = x]
<1>1. ASSUME Seal!LoseLock(v) PROVE \E x : worker' = [worker EXCEPT ![v] = x]
  BY <1>1 DEF Seal!LoseLock
<1>2. ASSUME NEW pc, Seal!Goto(v, pc) PROVE \E x : worker' = [worker EXCEPT ![v] = x]
  BY <1>2 DEF Seal!Goto
<1>3. ASSUME NEW x, Seal!Becomes(v, x) PROVE \E y : worker' = [worker EXCEPT ![v] = y]
  BY <1>3 DEF Seal!Becomes
<1>4. CASE Seal!PassGate(v)
  BY <1>2, <1>3, <1>4 DEF Seal!PassGate, Seal!Settle
<1>5. CASE Seal!FindRun(v) \/ Seal!InsertRun(v)
  BY <1>2, <1>3, <1>5 DEF Seal!FindRun, Seal!InsertRun
<1>6. CASE Seal!ReadPage(v) \/ Seal!SealRow(v) \/ Seal!CommitBatch(v) \/ Seal!EnqueueNext(v)
  BY <1>3, <1>6 DEF Seal!ReadPage, Seal!SealRow, Seal!CommitBatch, Seal!EnqueueNext
<1>7. CASE Seal!Finish(v) \/ Seal!StepFails(v) \/ Seal!MarkFailed(v) \/ Seal!Throw(v) \/ Seal!WorkerDies(v)
  BY <1>2, <1>3, <1>7 DEF Seal!Finish, Seal!Settle, Seal!StepFails, Seal!MarkFailed, Seal!Throw, Seal!WorkerDies
<1>8. ASSUME NEW c \in Seal!Cursors, Seal!TakeJob(v, c) PROVE \E x : worker' = [worker EXCEPT ![v] = x]
  BY <1>3, <1>8 DEF Seal!TakeJob
<1> QED BY <1>1, <1>4, <1>5, <1>6, <1>7, <1>8 DEF Acts

\* What a worker does is its own doing.
LEMMA OwnStep ==
  ASSUME Seal!TypeOK, Seal!Next, NEW w \in Workers
  PROVE  worker'[w] = worker[w] \/ Acts(w) \/ \E c \in Seal!Cursors : Seal!TakeJob(w, c)
<1>1. ASSUME NEW v \in Workers, v # w, Acts(v) \/ \E c \in Seal!Cursors : Seal!TakeJob(v, c)
      PROVE  worker'[w] = worker[w]
  <2>1. PICK x : worker' = [worker EXCEPT ![v] = x]
    BY <1>1, ActsAlone
  <2> QED BY <1>1, <2>1 DEF Seal!TypeOK
<1>2. ASSUME UNCHANGED worker PROVE worker'[w] = worker[w]
  BY <1>2
<1>3. Seal!Next => \/ UNCHANGED worker
                   \/ \E v \in Workers : Acts(v) \/ \E c \in Seal!Cursors : Seal!TakeJob(v, c)
  BY DEF Seal!Next, Acts, Seal!EnqueueBackfill, Seal!Edit, Seal!Forget, Seal!Wake, Seal!Stalled
<1> QED BY <1>1, <1>2, <1>3

JobStates == [state : {"none", "queued", "delayed", "active", "finished"}, left : 0 .. MaxAttempts]

\* A worker holds the job at a cursor.
Holds(w, c) == worker[w] # Seal!Idle /\ worker[w].locked /\ worker[w].at = c

\* How a job may change.
JobMoves(c) ==
  \/ job'[c] = job[c]
  \/ job[c].state = "none" /\ job'[c].state = "queued" /\ job'[c].left = MaxAttempts
  \/ /\ job'[c].left = job[c].left
     /\ \/ job[c].state = "finished" /\ job'[c].state = "none"
        \/ job[c].state = "delayed" /\ job'[c].state = "queued"
        \/ /\ job[c].state = "active" /\ job'[c].state \in {"queued", "finished"}
           /\ \A w \in Workers : ~Holds(w, c)
        \/ /\ job[c].state = "queued" /\ job'[c].state = "active"
           /\ \E w \in Workers : Seal!TakeJob(w, c)
  \/ /\ job'[c].state \in {"finished", "delayed"} /\ job'[c].left = job[c].left
     /\ \E w \in Workers : Holds(w, c) /\ worker'[w] = Seal!Idle
  \/ /\ job'[c].state = IF job[c].left - 1 > 0 THEN "queued" ELSE "finished"
     /\ job'[c].left = job[c].left - 1
     /\ \E w \in Workers : Holds(w, c) /\ worker'[w] = Seal!Idle

LEMMA JobIsRecord ==
  ASSUME Seal!TypeOK, NEW c \in Seal!Cursors
  PROVE  job[c] \in JobStates /\ job[c] = [state |-> job[c].state, left |-> job[c].left]
  BY DEF Seal!TypeOK, JobStates

LEMMA JobsMove ==
  ASSUME Seal!TypeOK, Seal!Next, NEW c \in Seal!Cursors
  PROVE  JobMoves(c)
<1>0. job \in [Seal!Cursors -> JobStates] /\ worker \in [Workers -> {Seal!Idle} \cup Seal!Working]
  BY DEF Seal!TypeOK, JobStates
<1>1. ASSUME NEW d \in Seal!Cursors, job' = Seal!Added(d) PROVE JobMoves(c)
  BY <1>0, <1>1 DEF JobMoves, JobStates, Seal!Added
<1>2. ASSUME NEW d \in Seal!Cursors, Seal!Forget(d) \/ Seal!Wake(d) PROVE JobMoves(c)
  BY <1>0, <1>2 DEF JobMoves, JobStates, Seal!Forget, Seal!Wake
<1>3. ASSUME NEW d \in Seal!Cursors, Seal!Stalled(d) PROVE JobMoves(c)
  <2>1. PICK to \in {"queued", "finished"} : job' = [job EXCEPT ![d].state = to]
    BY <1>3 DEF Seal!Stalled
  <2>2. job[d].state = "active" /\ \A w \in Workers : ~Holds(w, d)
    BY <1>3 DEF Seal!Stalled, Holds
  <2> QED BY <1>0, <2>1, <2>2 DEF JobMoves, JobStates
<1>4. ASSUME NEW w \in Workers, NEW d \in Seal!Cursors, Seal!TakeJob(w, d) PROVE JobMoves(c)
  <2>1. job[d].state = "queued" /\ job' = [job EXCEPT ![d].state = "active"]
    BY <1>4 DEF Seal!TakeJob
  <2> QED BY <1>0, <1>4, <2>1 DEF JobMoves, JobStates
<1>5. ASSUME NEW w \in Workers, worker[w] # Seal!Idle, NEW s \in {"finished", "delayed"}, Seal!Settle(w, s)
      PROVE  JobMoves(c)
  <2>1. worker'[w] = Seal!Idle
    BY <1>0, <1>5 DEF Seal!Settle, Seal!Becomes
  <2>2. worker[w].locked \in BOOLEAN /\ worker[w].at \in Seal!Cursors
    BY <1>5, WorkerShape DEF Seal!Working
  <2>3. CASE ~worker[w].locked
    BY <1>5, <2>3 DEF Seal!Settle, JobMoves
  <2>4. CASE worker[w].locked
    <3>1. PICK d \in Seal!Cursors : d = worker[w].at
      BY <2>2
    <3>2. job' = [job EXCEPT ![d].state = s] /\ Holds(w, d)
      BY <1>5, <2>4, <3>1 DEF Seal!Settle, Holds
    <3>3. CASE c = d
      <4>1. job'[c].state = s /\ job'[c].left = job[c].left
        BY <1>0, <3>2, <3>3 DEF JobStates
      <4> QED BY <2>1, <3>2, <3>3, <4>1 DEF JobMoves
    <3>4. CASE c # d
      BY <1>0, <3>2, <3>4 DEF JobMoves
    <3> QED BY <3>3, <3>4
  <2> QED BY <2>2, <2>3, <2>4
<1>6. ASSUME NEW w \in Workers, Seal!PassGate(w) \/ Seal!Finish(w) PROVE JobMoves(c)
  <2>1. worker[w] # Seal!Idle
    BY <1>6, WorkerShape DEF Seal!PassGate, Seal!Finish, Seal!At
  <2>2. UNCHANGED job \/ Seal!Settle(w, "finished") \/ Seal!Settle(w, "delayed")
    BY <1>6 DEF Seal!PassGate, Seal!Finish
  <2> QED BY <1>5, <2>1, <2>2 DEF JobMoves
<1>7. ASSUME NEW w \in Workers, Seal!Throw(w) PROVE JobMoves(c)
  <2>1. worker[w] # Seal!Idle
    BY <1>7, WorkerShape DEF Seal!Throw, Seal!At
  <2>2. worker'[w] = Seal!Idle
    BY <1>0, <1>7 DEF Seal!Throw, Seal!Becomes
  <2>3. worker[w].locked \in BOOLEAN /\ worker[w].at \in Seal!Cursors
    BY <2>1, WorkerShape DEF Seal!Working
  <2>4. CASE ~worker[w].locked
    BY <1>7, <2>4 DEF Seal!Throw, JobMoves
  <2>5. CASE worker[w].locked
    <3>1. PICK d \in Seal!Cursors : d = worker[w].at
      BY <2>3
    <3>2. PICK left : left = job[d].left - 1
      OBVIOUS
    <3>3. job' = [job EXCEPT ![d] = [state |-> IF left > 0 THEN "queued" ELSE "finished", left |-> left]]
      BY <1>7, <2>5, <3>1, <3>2 DEF Seal!Throw
    <3>4. Holds(w, d)
      BY <2>1, <2>5, <3>1 DEF Holds
    <3>5. CASE c = d
      <4>1. job'[c].state = (IF left > 0 THEN "queued" ELSE "finished") /\ job'[c].left = left
        BY <1>0, <3>3, <3>5
      <4> QED BY <2>2, <3>2, <3>4, <3>5, <4>1 DEF JobMoves
    <3>6. CASE c # d
      BY <1>0, <3>3, <3>6 DEF JobMoves
    <3> QED BY <3>5, <3>6
  <2> QED BY <2>3, <2>4, <2>5
<1>8. ASSUME NEW w \in Workers, Seal!EnqueueNext(w) PROVE JobMoves(c)
  <2>1. PICK d : d = worker[w].next
    OBVIOUS
  <2>2. job' = Seal!Added(d)
    BY <1>8, <2>1 DEF Seal!EnqueueNext
  <2>3. CASE c = d
    BY <1>1, <2>2, <2>3
  <2>4. CASE c # d
    <3>1. job'[c] = job[c]
      BY <1>0, <2>2, <2>4 DEF Seal!Added
    <3> QED BY <3>1 DEF JobMoves
  <2> QED BY <2>3, <2>4
<1>9. ASSUME Seal!EnqueueBackfill PROVE JobMoves(c)
  <2>1. Seal!Start \in Seal!Cursors
    BY SealBounds DEF Seal!Start, Seal!Cursors
  <2> QED BY <1>1, <1>9, <2>1 DEF Seal!EnqueueBackfill
<1>10. ASSUME UNCHANGED job PROVE JobMoves(c)
  BY <1>10 DEF JobMoves
<1> QED BY <1>2, <1>3, <1>4, <1>6, <1>7, <1>8, <1>9, <1>10
    DEF Seal!Next, Seal!Edit, Seal!FindRun, Seal!InsertRun, Seal!ReadPage, Seal!SealRow, Seal!CommitBatch,
        Seal!StepFails, Seal!MarkFailed, Seal!WorkerDies, Seal!LoseLock

LEMMA AfterShape ==
  ASSUME NEW c \in Seal!Cursors
  PROVE  Seal!After(c, Seal!Page(c)) \in Seal!Cursors \cup {Seal!Done}
<1>1. c[1] \in 1 .. Tables /\ c[2] \in 0 .. (Tables * RowsEach)
  BY RestShape
<1>2. Cardinality(Seal!Page(c)) = BATCH => Seal!Max(Seal!Page(c)) \in 0 .. (Tables * RowsEach)
  <2> SUFFICES ASSUME Cardinality(Seal!Page(c)) = BATCH
               PROVE  Seal!Max(Seal!Page(c)) \in 0 .. (Tables * RowsEach)
    OBVIOUS
  <2>1. PICK m \in Seal!Rows : m = Seal!Max(Seal!Page(c))
    BY PageIs, RestShape
  <2>2. m \in Nat /\ m <= Tables * RowsEach
    BY SealBounds
  <2> QED BY <2>1, <2>2, SealBounds
<1> QED BY <1>1, <1>2, SealBounds, SealCounts DEF Seal!After, Seal!Cursors

\* The number of a new run is one that is free.
LEMMA FreeRun ==
  ASSUME \E i \in Seal!Runs : run[i] = "none"
  PROVE  Seal!Min({j \in Seal!Runs : run[j] = "none"}) \in Seal!Runs
<1> DEFINE S == {j \in Seal!Runs : run[j] = "none"}
<1>1. S \in SUBSET Nat /\ S # {} /\ S \subseteq Seal!Runs
  BY SealBounds DEF Seal!Runs
<1> HIDE DEF S
<1>2. PICK m \in S : \A k \in S : m <= k
  BY <1>1, LeastExists
<1>3. Seal!Min(S) \in S
  BY <1>2 DEF Seal!Min
<1> QED BY <1>1, <1>3 DEF S

\* What a worker holds after a step of its own.
LEMMA ActsShape ==
  ASSUME Seal!TypeOK, NEW w \in Workers, Acts(w) \/ \E c \in Seal!Cursors : Seal!TakeJob(w, c)
  PROVE  worker'[w] = Seal!Idle \/ worker'[w] \in Seal!Working
<1>0. worker \in [Workers -> {Seal!Idle} \cup Seal!Working]
  BY DEF Seal!TypeOK
<1>s. worker[w] # Seal!Idle => worker[w] \in Seal!Working
  BY WorkerShape
<1>1. ASSUME NEW c \in Seal!Cursors, Seal!TakeJob(w, c) PROVE worker'[w] \in Seal!Working
  <2>1. worker'[w] = [pc |-> "gate", at |-> c, run |-> 0, todo |-> {}, next |-> Seal!Done, locked |-> TRUE]
    BY <1>0, <1>1 DEF Seal!TakeJob, Seal!Becomes
  <2> QED BY <2>1, SealBounds DEF Seal!Working
<1>2. ASSUME NEW pc \in {"find", "insert", "throw"}, worker[w] # Seal!Idle, Seal!Goto(w, pc)
      PROVE  worker'[w] \in Seal!Working
  <2>1. worker'[w] = [worker[w] EXCEPT !.pc = pc]
    BY <1>0, <1>2 DEF Seal!Goto
  <2> QED BY <1>s, <1>2, <2>1 DEF Seal!Working
<1>3. ASSUME Seal!PassGate(w) \/ Seal!Finish(w) PROVE worker'[w] = Seal!Idle \/ worker'[w] \in Seal!Working
  <2>1. worker[w] # Seal!Idle
    BY <1>3, WorkerShape DEF Seal!PassGate, Seal!Finish, Seal!At
  <2> QED BY <1>0, <1>2, <1>3, <2>1 DEF Seal!PassGate, Seal!Finish, Seal!Settle, Seal!Becomes
<1>4. ASSUME NEW i \in Seal!Runs, worker[w] # Seal!Idle,
             Seal!Becomes(w, [worker[w] EXCEPT !.pc = "page", !.run = i])
      PROVE  worker'[w] \in Seal!Working
  <2>1. worker'[w] = [worker[w] EXCEPT !.pc = "page", !.run = i]
    BY <1>0, <1>4 DEF Seal!Becomes
  <2>2. i \in 0 .. MaxRuns
    BY SealBounds DEF Seal!Runs
  <2> QED BY <1>s, <1>4, <2>1, <2>2 DEF Seal!Working
<1>5. ASSUME Seal!FindRun(w) PROVE worker'[w] \in Seal!Working
  <2>1. worker[w] # Seal!Idle
    BY <1>5, WorkerShape DEF Seal!FindRun, Seal!At
  <2> QED BY <1>2, <1>4, <1>5, <2>1 DEF Seal!FindRun
<1>6. ASSUME Seal!InsertRun(w) PROVE worker'[w] \in Seal!Working
  <2>1. worker[w] # Seal!Idle
    BY <1>6, WorkerShape DEF Seal!InsertRun, Seal!At
  <2>2. Seal!Min({j \in Seal!Runs : run[j] = "none"}) \in Seal!Runs
    BY <1>6, FreeRun DEF Seal!InsertRun
  <2> QED BY <1>4, <1>6, <2>1, <2>2 DEF Seal!InsertRun
<1>7. ASSUME Seal!ReadPage(w) PROVE worker'[w] \in Seal!Working
  <2>1. worker[w] # Seal!Idle /\ worker[w] \in Seal!Working
    BY <1>7, WorkerShape DEF Seal!ReadPage, Seal!At
  <2>2. PICK c \in Seal!Cursors : c = worker[w].at
    BY <2>1 DEF Seal!Working
  <2> DEFINE todo == {[row |-> r, text |-> stored[r].text] : r \in {x \in Seal!Page(c) : Seal!Unsealed(x)}}
             next == Seal!After(c, Seal!Page(c))
  <2>3. worker'[w] = [worker[w] EXCEPT !.pc = "seal", !.next = next, !.todo = todo]
    BY <1>0, <1>7, <2>2 DEF Seal!ReadPage, Seal!Becomes
  <2>4. \A r \in Seal!Page(c) : r \in Seal!Rows
    BY PageIs, RestShape
  <2>5. todo \in SUBSET [row : Seal!Rows, text : 0 .. MaxEdits]
    BY <2>4 DEF Seal!TypeOK
  <2>6. next \in Seal!Cursors \cup {Seal!Done}
    BY AfterShape
  <2> HIDE DEF todo, next
  <2> QED BY <2>1, <2>3, <2>5, <2>6 DEF Seal!Working
<1>8. ASSUME Seal!SealRow(w) PROVE worker'[w] \in Seal!Working
  <2>1. worker[w] \in Seal!Working
    BY <1>8, WorkerShape DEF Seal!SealRow, Seal!At
  <2>2. PICK x : worker'[w] = [worker[w] EXCEPT !.todo = worker[w].todo \ {x}]
    BY <1>0, <1>8 DEF Seal!SealRow, Seal!Becomes
  <2> QED BY <2>1, <2>2 DEF Seal!Working
<1>9. ASSUME Seal!CommitBatch(w) PROVE worker'[w] \in Seal!Working
  <2>1. worker[w] \in Seal!Working
    BY <1>9, WorkerShape DEF Seal!CommitBatch, Seal!At
  <2>2. PICK pc : pc = IF worker[w].next = Seal!Done THEN "finish" ELSE "next"
    OBVIOUS
  <2>3. worker'[w] = [worker[w] EXCEPT !.pc = pc, !.run = 0]
    BY <1>0, <1>9, <2>2 DEF Seal!CommitBatch, Seal!Becomes
  <2>4. pc \in {"finish", "next"} /\ 0 \in 0 .. MaxRuns
    BY <2>2, SealBounds
  <2> QED BY <2>1, <2>3, <2>4 DEF Seal!Working
<1>10. ASSUME Seal!EnqueueNext(w) PROVE worker'[w] \in Seal!Working
  <2>1. worker[w] \in Seal!Working
    BY <1>10, WorkerShape DEF Seal!EnqueueNext, Seal!At
  <2>2. worker'[w] = [worker[w] EXCEPT !.pc = "finish", !.next = Seal!Done]
    BY <1>0, <1>10 DEF Seal!EnqueueNext, Seal!Becomes
  <2> QED BY <2>1, <2>2 DEF Seal!Working
<1>11. ASSUME Seal!StepFails(w) PROVE worker'[w] \in Seal!Working
  <2>1. worker[w] \in Seal!Working
    BY <1>11, WorkerShape DEF Seal!StepFails
  <2>2. PICK pc \in {"fail", "throw"} : worker'[w] = [worker[w] EXCEPT !.pc = pc, !.todo = {}, !.next = Seal!Done]
    BY <1>0, <1>11 DEF Seal!StepFails, Seal!Becomes
  <2> QED BY <2>1, <2>2 DEF Seal!Working
<1>12. ASSUME Seal!MarkFailed(w) PROVE worker'[w] \in Seal!Working
  <2>1. worker[w] # Seal!Idle
    BY <1>12, WorkerShape DEF Seal!MarkFailed, Seal!At
  <2> QED BY <1>2, <1>12, <2>1 DEF Seal!MarkFailed
<1>13. ASSUME Seal!Throw(w) \/ Seal!WorkerDies(w) PROVE worker'[w] = Seal!Idle
  BY <1>0, <1>13 DEF Seal!Throw, Seal!WorkerDies, Seal!Becomes
<1>14. ASSUME Seal!LoseLock(w) PROVE worker'[w] \in Seal!Working
  <2>1. worker[w] \in Seal!Working /\ worker'[w] = [worker[w] EXCEPT !.locked = FALSE]
    BY <1>0, <1>s, <1>14 DEF Seal!LoseLock
  <2> QED BY <2>1 DEF Seal!Working
<1> QED BY <1>1, <1>3, <1>5, <1>6, <1>7, <1>8, <1>9, <1>10, <1>11, <1>12, <1>13, <1>14 DEF Acts

\* A job stays a record with a state and attempts.
LEMMA JobRecords ==
  ASSUME Seal!TypeOK, Seal!Next
  PROVE  /\ job' = [c \in Seal!Cursors |-> job'[c]]
         /\ \A c \in Seal!Cursors : job'[c] = job[c] \/ \E s, n : job'[c] = [state |-> s, left |-> n]
<1> DEFINE Good == /\ job' = [c \in Seal!Cursors |-> job'[c]]
                   /\ \A c \in Seal!Cursors : job'[c] = job[c] \/ \E s, n : job'[c] = [state |-> s, left |-> n]
<1>0. job \in [Seal!Cursors -> JobStates]
  BY DEF Seal!TypeOK, JobStates
<1>1. ASSUME NEW d, NEW s, NEW n, job' = [job EXCEPT ![d] = [state |-> s, left |-> n]] PROVE Good
  BY <1>0, <1>1
<1>2. ASSUME NEW d, NEW s, job' = [job EXCEPT ![d].state = s] PROVE Good
  <2>1. \A c \in Seal!Cursors : job[c] = [state |-> job[c].state, left |-> job[c].left]
    BY JobIsRecord
  <2>2. d \in Seal!Cursors => [job[d] EXCEPT !.state = s] = [state |-> s, left |-> job[d].left]
    BY <1>0 DEF JobStates
  <2> QED BY <1>0, <1>2, <2>2
<1>3. ASSUME UNCHANGED job PROVE Good
  BY <1>0, <1>3
<1>4. ASSUME NEW d, job' = Seal!Added(d) PROVE Good
  BY <1>1, <1>3, <1>4 DEF Seal!Added
<1>5. ASSUME NEW w \in Workers, NEW s, Seal!Settle(w, s) PROVE Good
  BY <1>2, <1>3, <1>5 DEF Seal!Settle
<1>6. ASSUME NEW w \in Workers, Seal!Throw(w) PROVE Good
  BY <1>1, <1>3, <1>6 DEF Seal!Throw
<1>7. ASSUME NEW c \in Seal!Cursors,
             Seal!Forget(c) \/ Seal!Wake(c) \/ Seal!Stalled(c) \/ \E w \in Workers : Seal!TakeJob(w, c)
      PROVE  Good
  BY <1>2, <1>7 DEF Seal!Forget, Seal!Wake, Seal!Stalled, Seal!TakeJob
<1>8. ASSUME NEW w \in Workers, Seal!PassGate(w) \/ Seal!Finish(w) \/ Seal!EnqueueNext(w) PROVE Good
  BY <1>3, <1>4, <1>5, <1>8 DEF Seal!PassGate, Seal!Finish, Seal!EnqueueNext
<1> HIDE DEF Good
<1>9. Good
  BY <1>3, <1>4, <1>6, <1>7, <1>8
  DEF Seal!Next, Seal!Edit, Seal!EnqueueBackfill, Seal!FindRun, Seal!InsertRun, Seal!ReadPage, Seal!SealRow,
      Seal!CommitBatch, Seal!StepFails, Seal!MarkFailed, Seal!WorkerDies, Seal!LoseLock
<1> QED BY <1>9 DEF Good

\* A row is sealed from what its batch has read.
LEMMA SealsOne ==
  ASSUME Seal!TypeOK, NEW w \in Workers, Seal!SealRow(w)
  PROVE  \E x \in worker[w].todo :
           /\ x.row \in Seal!Rows /\ x.text \in 0 .. MaxEdits
           /\ stored' = [stored EXCEPT ![x.row] = [sealed |-> TRUE, text |-> x.text]]
           /\ worker'[w] = [worker[w] EXCEPT !.todo = worker[w].todo \ {x}]
           /\ worker[w] # Seal!Idle
<1>1. worker[w] \in Seal!Working /\ worker[w] # Seal!Idle /\ worker[w].todo # {}
  BY WorkerShape DEF Seal!SealRow, Seal!At
<1>2. PICK todo : todo = worker[w].todo
  OBVIOUS
<1>3. \A x \in todo : x.row \in Seal!Rows /\ x.row \in Nat /\ x.text \in 0 .. MaxEdits
  <2>1. todo \in SUBSET [row : Seal!Rows, text : 0 .. MaxEdits]
    BY <1>1, <1>2 DEF Seal!Working
  <2>2. \A x \in todo : x \in [row : Seal!Rows, text : 0 .. MaxEdits]
    BY <2>1
  <2> QED BY <2>2, SealBounds
<1>4. \E x \in todo : \A y \in todo : x.row <= y.row
  <2> DEFINE S == {x.row : x \in todo}
  <2>1. S \in SUBSET Nat /\ S # {}
    BY <1>1, <1>2, <1>3
  <2> HIDE DEF S
  <2>2. PICK m \in S : \A k \in S : m <= k
    BY <2>1, LeastExists
  <2> QED BY <2>2 DEF S
<1>5. PICK x : x = CHOOSE z \in todo : \A y \in todo : z.row <= y.row
  OBVIOUS
<1>6. x \in todo
  BY <1>4, <1>5
<1>7. /\ stored' = [stored EXCEPT ![x.row] = [sealed |-> TRUE, text |-> x.text]]
      /\ worker' = [worker EXCEPT ![w] = [worker[w] EXCEPT !.todo = worker[w].todo \ {x}]]
  BY <1>2, <1>5 DEF Seal!SealRow, Seal!Becomes
<1>8. worker'[w] = [worker[w] EXCEPT !.todo = worker[w].todo \ {x}]
  BY <1>7 DEF Seal!TypeOK
<1> QED BY <1>1, <1>2, <1>3, <1>6, <1>7, <1>8

\* Types are kept, once a job that is not over has attempts left.
LEMMA SealTypes ==
  ASSUME Seal!TypeOK, JobsHeld, Seal!Next
  PROVE  Seal!TypeOK'
<1>0. /\ stored \in [Seal!Rows -> [sealed : BOOLEAN, text : 0 .. MaxEdits]]
      /\ edits \in [Seal!Rows -> 0 .. MaxEdits]
      /\ run \in [Seal!Runs -> {"none", "running", "completed", "failed"}]
      /\ job \in [Seal!Cursors -> JobStates] /\ worker \in [Workers -> {Seal!Idle} \cup Seal!Working]
      /\ events \in 0 .. MaxEvents
  BY DEF Seal!TypeOK, JobStates
<1>1. worker' \in [Workers -> {Seal!Idle} \cup Seal!Working]
  <2>1. \A w \in Workers : worker'[w] \in {Seal!Idle} \cup Seal!Working
    BY <1>0, OwnStep, ActsShape
  <2>2. worker' = [w \in Workers |-> worker'[w]]
    <3>1. ASSUME NEW w \in Workers, Acts(w) \/ \E c \in Seal!Cursors : Seal!TakeJob(w, c)
          PROVE  worker' = [v \in Workers |-> worker'[v]]
      <4>1. PICK x : worker' = [worker EXCEPT ![w] = x]
        BY <3>1, ActsAlone
      <4> QED BY <1>0, <4>1
    <3>2. CASE UNCHANGED worker
      BY <1>0, <3>2
    <3>3. \/ UNCHANGED worker
          \/ \E w \in Workers : Acts(w) \/ \E c \in Seal!Cursors : Seal!TakeJob(w, c)
      BY DEF Seal!Next, Acts, Seal!EnqueueBackfill, Seal!Edit, Seal!Forget, Seal!Wake, Seal!Stalled
    <3> QED BY <3>1, <3>2, <3>3
  <2> QED BY <2>1, <2>2
<1>2. ASSUME NEW c \in Seal!Cursors PROVE job'[c] \in JobStates
  <2>1. JobMoves(c) /\ job[c] \in JobStates /\ (Live(c) => job[c].left > 0)
    BY JobsMove, JobIsRecord DEF JobsHeld
  <2>2. ASSUME NEW w \in Workers, Holds(w, c) PROVE job[c].left > 0
    BY <2>1, <2>2 DEF JobsHeld, Holds, Live
  <2>3. job'[c].left \in 0 .. MaxAttempts /\ job'[c].state \in {"none", "queued", "delayed", "active", "finished"}
    BY <2>1, <2>2, SealBounds DEF JobMoves, JobStates
  <2>4. job'[c] = job[c] \/ \E s, n : job'[c] = [state |-> s, left |-> n]
    BY <1>0, JobRecords DEF JobStates
  <2>5. CASE job'[c] = job[c]
    BY <2>1, <2>5
  <2>6. ASSUME NEW s, NEW n, job'[c] = [state |-> s, left |-> n] PROVE job'[c] \in JobStates
    <3>1. s = job'[c].state /\ n = job'[c].left
      BY <2>6
    <3> QED BY <2>3, <2>6, <3>1 DEF JobStates
  <2> QED BY <2>4, <2>5, <2>6
<1>3. job' \in [Seal!Cursors -> JobStates]
  BY <1>2, JobRecords
<1>4. run' \in [Seal!Runs -> {"none", "running", "completed", "failed"}]
  BY <1>0
  DEF Seal!Next, Seal!Edit, Seal!EnqueueBackfill, Seal!Forget, Seal!Wake, Seal!Stalled, Seal!TakeJob, Seal!PassGate,
      Seal!FindRun, Seal!InsertRun, Seal!ReadPage, Seal!SealRow, Seal!CommitBatch, Seal!EnqueueNext, Seal!Finish,
      Seal!StepFails, Seal!MarkFailed, Seal!Throw, Seal!WorkerDies, Seal!LoseLock
<1>5. events' \in 0 .. MaxEvents
  <2>1. Seal!Happens => events' \in 0 .. MaxEvents
    BY <1>0, SealBounds DEF Seal!Happens
  <2> QED BY <1>0, <2>1
      DEF Seal!Next, Seal!Edit, Seal!EnqueueBackfill, Seal!Forget, Seal!Wake, Seal!Stalled, Seal!TakeJob, Seal!PassGate,
          Seal!FindRun, Seal!InsertRun, Seal!ReadPage, Seal!SealRow, Seal!CommitBatch, Seal!EnqueueNext, Seal!Finish,
          Seal!StepFails, Seal!MarkFailed, Seal!Throw, Seal!WorkerDies, Seal!LoseLock
<1>6. stored' \in [Seal!Rows -> [sealed : BOOLEAN, text : 0 .. MaxEdits]] /\ edits' \in [Seal!Rows -> 0 .. MaxEdits]
  <2>1. ASSUME NEW r \in Seal!Rows, Seal!Edit(r)
        PROVE  /\ stored' \in [Seal!Rows -> [sealed : BOOLEAN, text : 0 .. MaxEdits]]
               /\ edits' \in [Seal!Rows -> 0 .. MaxEdits]
    <3>1. edits[r] + 1 \in 0 .. MaxEdits
      BY <1>0, <2>1, SealBounds DEF Seal!Edit
    <3>2. [sealed |-> TRUE, text |-> edits[r] + 1] \in [sealed : BOOLEAN, text : 0 .. MaxEdits]
      BY <3>1
    <3> QED BY <1>0, <2>1, <3>1, <3>2 DEF Seal!Edit
  <2>2. ASSUME NEW w \in Workers, Seal!SealRow(w)
        PROVE  /\ stored' \in [Seal!Rows -> [sealed : BOOLEAN, text : 0 .. MaxEdits]]
               /\ edits' \in [Seal!Rows -> 0 .. MaxEdits]
    <3>1. PICK x : /\ x.row \in Seal!Rows /\ x.text \in 0 .. MaxEdits
                   /\ stored' = [stored EXCEPT ![x.row] = [sealed |-> TRUE, text |-> x.text]]
      BY <2>2, SealsOne
    <3>2. [sealed |-> TRUE, text |-> x.text] \in [sealed : BOOLEAN, text : 0 .. MaxEdits]
      BY <3>1
    <3>3. UNCHANGED edits
      BY <2>2 DEF Seal!SealRow
    <3> QED BY <1>0, <3>1, <3>2, <3>3
  <2>3. CASE UNCHANGED <<stored, edits>>
    BY <1>0, <2>3
  <2>4. \/ UNCHANGED <<stored, edits>> \/ (\E r \in Seal!Rows : Seal!Edit(r))
        \/ (\E w \in Workers : Seal!SealRow(w))
    BY DEF Seal!Next, Seal!DataUnchanged, Seal!EnqueueBackfill, Seal!Forget, Seal!Wake, Seal!Stalled, Seal!TakeJob,
       Seal!PassGate, Seal!FindRun, Seal!InsertRun, Seal!ReadPage, Seal!CommitBatch, Seal!EnqueueNext, Seal!Finish,
       Seal!StepFails, Seal!MarkFailed, Seal!Throw, Seal!WorkerDies, Seal!LoseLock
  <2> QED BY <2>1, <2>2, <2>3, <2>4
<1> QED BY <1>1, <1>3, <1>4, <1>5, <1>6 DEF Seal!TypeOK, JobStates

\* What is sealed stays so.
LEMMA SealedStays ==
  ASSUME Seal!TypeOK, Seal!Next, NEW r \in Seal!Rows, stored[r].sealed
  PROVE  stored'[r].sealed
<1>0. stored \in [Seal!Rows -> [sealed : BOOLEAN, text : 0 .. MaxEdits]]
  BY DEF Seal!TypeOK
<1>1. ASSUME NEW x \in Seal!Rows, Seal!Edit(x) PROVE stored'[r].sealed
  BY <1>0, <1>1 DEF Seal!Edit
<1>2. ASSUME NEW w \in Workers, Seal!SealRow(w) PROVE stored'[r].sealed
  <2>1. PICK x : stored' = [stored EXCEPT ![x.row] = [sealed |-> TRUE, text |-> x.text]]
    BY <1>2, SealsOne
  <2> QED BY <1>0, <2>1
<1>3. ASSUME UNCHANGED stored PROVE stored'[r].sealed
  BY <1>3
<1> QED BY <1>1, <1>2, <1>3
    DEF Seal!Next, Seal!DataUnchanged, Seal!EnqueueBackfill, Seal!Forget, Seal!Wake, Seal!Stalled, Seal!TakeJob,
        Seal!PassGate, Seal!FindRun, Seal!InsertRun, Seal!ReadPage, Seal!CommitBatch, Seal!EnqueueNext, Seal!Finish,
        Seal!StepFails, Seal!MarkFailed, Seal!Throw, Seal!WorkerDies, Seal!LoseLock

LEMMA CoverStays ==
  ASSUME \A r \in Seal!Rows : stored[r].sealed => stored'[r].sealed, NEW c \in Seal!Cursors, Covered(c)
  PROVE  Covered(c)'
<1>1. \A t \in 1 .. Tables : Seal!RowsOf(t) \subseteq Seal!Rows
  BY DEF Seal!RowsOf
<1> QED BY <1>1 DEF Covered

LEMMA StartCovers == Seal!Start \in Seal!Cursors /\ Covered(Seal!Start) /\ Covered(Seal!Start)'
<1>1. Seal!Start \in Seal!Cursors
  BY SealBounds DEF Seal!Start, Seal!Cursors
<1>2. ASSUME NEW t \in 1 .. Tables, NEW r \in Seal!RowsOf(t), t < 1 \/ (t = 1 /\ r <= 0) PROVE FALSE
  <2>1. r \in Nat \ {0} /\ t \in Nat \ {0}
    BY SealBounds DEF Seal!RowsOf
  <2> QED BY <1>2, <2>1
<1>3. Seal!Start[1] = 1 /\ Seal!Start[2] = 0
  BY DEF Seal!Start
<1> QED BY <1>1, <1>2, <1>3 DEF Covered

\* What a worker still has of its batch after a step.
Resumes(w) ==
  \/ /\ worker[w] # Seal!Idle
     /\ worker'[w].at = worker[w].at /\ worker'[w].pc = worker[w].pc /\ worker'[w].run = worker[w].run
     /\ worker'[w].todo = worker[w].todo /\ worker'[w].next = worker[w].next
     /\ worker'[w].locked => worker[w].locked
  \/ /\ worker'[w].pc \notin {"seal", "next"} /\ worker'[w].todo \subseteq {}
     /\ \/ /\ worker[w] # Seal!Idle /\ worker'[w].at = worker[w].at
           /\ worker'[w].locked => worker[w].locked
        \/ worker[w] = Seal!Idle /\ worker'[w].at \in Seal!Cursors /\ Seal!TakeJob(w, worker'[w].at)
  \/ /\ worker[w] # Seal!Idle /\ worker'[w].at = worker[w].at /\ worker'[w].locked = worker[w].locked
     /\ Seal!ReadPage(w) \/ Seal!SealRow(w) \/ Seal!CommitBatch(w)

LEMMA BatchMoves ==
  ASSUME Seal!TypeOK, Seal!Next, NEW w \in Workers, worker'[w] # Seal!Idle,
         worker[w] # Seal!Idle /\ worker[w].pc # "seal" => worker[w].todo = {}
  PROVE  Resumes(w)
<1>0. worker \in [Workers -> {Seal!Idle} \cup Seal!Working]
  BY DEF Seal!TypeOK
<1>1. CASE worker'[w] = worker[w]
  BY <1>1 DEF Resumes
<1>2. ASSUME NEW c \in Seal!Cursors, Seal!TakeJob(w, c) PROVE Resumes(w)
  <2>1. worker'[w] = [pc |-> "gate", at |-> c, run |-> 0, todo |-> {}, next |-> Seal!Done, locked |-> TRUE]
    BY <1>0, <1>2 DEF Seal!TakeJob, Seal!Becomes
  <2>2. worker[w] = Seal!Idle
    BY <1>2 DEF Seal!TakeJob
  <2> QED BY <1>2, <2>1, <2>2 DEF Resumes
<1>3. ASSUME Acts(w) PROVE Resumes(w)
  <2>0. worker[w] \in Seal!Working /\ worker[w] # Seal!Idle
    BY <1>3, WorkerShape DEF Acts, Seal!PassGate, Seal!FindRun, Seal!InsertRun, Seal!ReadPage, Seal!SealRow,
       Seal!CommitBatch, Seal!EnqueueNext, Seal!Finish, Seal!StepFails, Seal!MarkFailed, Seal!Throw,
       Seal!WorkerDies, Seal!LoseLock, Seal!At
  <2>1. ASSUME NEW pc \in {"find", "insert", "throw"}, worker[w].pc # "seal", Seal!Goto(w, pc) PROVE Resumes(w)
    <3>1. worker'[w] = [worker[w] EXCEPT !.pc = pc]
      BY <1>0, <2>1 DEF Seal!Goto
    <3>2. /\ worker'[w].pc = pc /\ worker'[w].todo = {} /\ worker'[w].at = worker[w].at
          /\ worker'[w].locked = worker[w].locked
      BY <2>0, <2>1, <3>1 DEF Seal!Working
    <3> QED BY <2>0, <3>2 DEF Resumes
  <2>2. CASE Seal!PassGate(w)
    BY <1>0, <2>1, <2>2 DEF Seal!PassGate, Seal!Settle, Seal!Becomes, Seal!At
  <2>3. CASE Seal!MarkFailed(w)
    BY <2>1, <2>3 DEF Seal!MarkFailed, Seal!At
  <2>4. CASE Seal!FindRun(w) \/ Seal!InsertRun(w)
    <3>1. \/ Seal!Goto(w, "insert")
          \/ \E i : worker'[w] = [worker[w] EXCEPT !.pc = "page", !.run = i]
      BY <1>0, <2>4 DEF Seal!FindRun, Seal!InsertRun, Seal!Becomes
    <3>2. ASSUME NEW i, worker'[w] = [worker[w] EXCEPT !.pc = "page", !.run = i] PROVE Resumes(w)
      <4>1. worker[w].todo = {}
        BY <2>0, <2>4 DEF Seal!FindRun, Seal!InsertRun, Seal!At
      <4>2. /\ worker'[w].pc = "page" /\ worker'[w].todo = {} /\ worker'[w].at = worker[w].at
            /\ worker'[w].locked = worker[w].locked
        BY <2>0, <3>2, <4>1 DEF Seal!Working
      <4> QED BY <2>0, <4>2 DEF Resumes
    <3>3. worker[w].pc # "seal"
      BY <2>4 DEF Seal!FindRun, Seal!InsertRun, Seal!At
    <3> QED BY <2>1, <3>1, <3>2, <3>3
  <2>5. CASE Seal!Finish(w) \/ Seal!Throw(w) \/ Seal!WorkerDies(w)
    BY <1>0, <2>5 DEF Seal!Finish, Seal!Throw, Seal!WorkerDies, Seal!Settle, Seal!Becomes
  <2>6. CASE Seal!EnqueueNext(w)
    <3>1. worker'[w] = [worker[w] EXCEPT !.pc = "finish", !.next = Seal!Done]
      BY <1>0, <2>6 DEF Seal!EnqueueNext, Seal!Becomes
    <3>2. worker[w].todo = {}
      BY <2>6 DEF Seal!EnqueueNext, Seal!At, Seal!Idle
    <3>3. /\ worker'[w].pc = "finish" /\ worker'[w].todo = {} /\ worker'[w].at = worker[w].at
          /\ worker'[w].locked = worker[w].locked
      BY <2>0, <3>1, <3>2 DEF Seal!Working
    <3> QED BY <2>0, <3>3 DEF Resumes
  <2>7. CASE Seal!StepFails(w)
    <3>1. PICK pc : pc = IF worker[w].pc \in {"page", "seal"} THEN "fail" ELSE "throw"
      OBVIOUS
    <3>2. worker'[w] = [worker[w] EXCEPT !.pc = pc, !.todo = {}, !.next = Seal!Done]
      BY <1>0, <2>7, <3>1 DEF Seal!StepFails, Seal!Becomes
    <3>3. /\ worker'[w].pc \in {"fail", "throw"} /\ worker'[w].todo = {} /\ worker'[w].at = worker[w].at
          /\ worker'[w].locked = worker[w].locked
      BY <2>0, <3>1, <3>2 DEF Seal!Working
    <3> QED BY <2>0, <3>3 DEF Resumes
  <2>8. CASE Seal!LoseLock(w)
    <3>1. worker'[w] = [worker[w] EXCEPT !.locked = FALSE]
      BY <1>0, <2>8 DEF Seal!LoseLock
    <3>2. /\ worker'[w].at = worker[w].at /\ worker'[w].pc = worker[w].pc /\ worker'[w].run = worker[w].run
          /\ worker'[w].todo = worker[w].todo /\ worker'[w].next = worker[w].next /\ ~worker'[w].locked
      BY <2>0, <3>1 DEF Seal!Working
    <3> QED BY <2>0, <3>2 DEF Resumes
  <2>9. CASE Seal!ReadPage(w) \/ Seal!SealRow(w) \/ Seal!CommitBatch(w)
    <3>1. worker'[w].at = worker[w].at /\ worker'[w].locked = worker[w].locked
      <4>1. CASE Seal!ReadPage(w)
        <5>1. PICK n, todo : worker'[w] = [worker[w] EXCEPT !.pc = "seal", !.next = n, !.todo = todo]
          BY <1>0, <4>1 DEF Seal!ReadPage, Seal!Becomes
        <5> QED BY <2>0, <5>1 DEF Seal!Working
      <4>2. CASE Seal!SealRow(w)
        <5>1. PICK todo : worker'[w] = [worker[w] EXCEPT !.todo = todo]
          BY <4>2, SealsOne
        <5> QED BY <2>0, <5>1 DEF Seal!Working
      <4>3. CASE Seal!CommitBatch(w)
        <5>1. PICK pc : pc = IF worker[w].next = Seal!Done THEN "finish" ELSE "next"
          OBVIOUS
        <5>2. worker'[w] = [worker[w] EXCEPT !.pc = pc, !.run = 0]
          BY <1>0, <4>3, <5>1 DEF Seal!CommitBatch, Seal!Becomes
        <5> QED BY <2>0, <5>2 DEF Seal!Working
      <4> QED BY <2>9, <4>1, <4>2, <4>3
    <3> QED BY <2>0, <2>9, <3>1 DEF Resumes
  <2> QED BY <1>3, <2>2, <2>3, <2>4, <2>5, <2>6, <2>7, <2>8, <2>9 DEF Acts
<1> QED BY <1>1, <1>2, <1>3, OwnStep

\* Only what begins a run or carries it on adds a job.
LEMMA OnlyAdds ==
  ASSUME Seal!TypeOK, Seal!Next, NEW c \in Seal!Cursors, job[c].state = "none",
         ~Seal!EnqueueBackfill, \A w \in Workers : ~Seal!EnqueueNext(w),
         \A w \in Workers : worker[w] # Seal!Idle /\ worker[w].locked => job[worker[w].at].state # "none"
  PROVE  job'[c] = job[c]
<1>0. job \in [Seal!Cursors -> JobStates]
  BY DEF Seal!TypeOK, JobStates
<1>1. ASSUME NEW d \in Seal!Cursors,
             Seal!Forget(d) \/ Seal!Wake(d) \/ Seal!Stalled(d) \/ \E w \in Workers : Seal!TakeJob(w, d)
      PROVE  job'[c] = job[c]
  BY <1>0, <1>1 DEF Seal!Forget, Seal!Wake, Seal!Stalled, Seal!TakeJob
<1>2. ASSUME NEW w \in Workers, NEW s, worker[w] # Seal!Idle, Seal!Settle(w, s) PROVE job'[c] = job[c]
  BY <1>0, <1>2 DEF Seal!Settle
<1>3. ASSUME NEW w \in Workers, Seal!PassGate(w) \/ Seal!Finish(w) PROVE job'[c] = job[c]
  <2>1. worker[w] # Seal!Idle
    BY <1>3, WorkerShape DEF Seal!PassGate, Seal!Finish, Seal!At
  <2> QED BY <1>2, <1>3, <2>1 DEF Seal!PassGate, Seal!Finish
<1>4. ASSUME NEW w \in Workers, Seal!Throw(w) PROVE job'[c] = job[c]
  <2>1. worker[w] # Seal!Idle
    BY <1>4, WorkerShape DEF Seal!Throw, Seal!At
  <2> QED BY <1>0, <1>4, <2>1 DEF Seal!Throw
<1>5. ASSUME UNCHANGED job PROVE job'[c] = job[c]
  BY <1>5
<1> QED BY <1>1, <1>3, <1>4, <1>5
    DEF Seal!Next, Seal!Edit, Seal!FindRun, Seal!InsertRun, Seal!ReadPage, Seal!SealRow, Seal!CommitBatch,
        Seal!StepFails, Seal!MarkFailed, Seal!WorkerDies, Seal!LoseLock

\* The jobs there are stand where everything before them is sealed.
LEMMA JobsCover ==
  ASSUME SealCore, Seal!Next, NEW c \in Seal!Cursors, job'[c].state # "none"
  PROVE  Covered(c)'
<1>0. Seal!TypeOK /\ \A r \in Seal!Rows : stored[r].sealed => stored'[r].sealed
  BY SealedStays DEF SealCore
<1>1. CASE job[c].state # "none"
  BY <1>0, <1>1, CoverStays DEF SealCore
<1>2. CASE job[c].state = "none"
  <2>1. ASSUME NEW d \in Seal!Cursors, job' = Seal!Added(d), Covered(d)' PROVE Covered(c)'
    <3>1. c = d
      BY <1>0, <1>2, <2>1 DEF Seal!Added, Seal!TypeOK
    <3> QED BY <2>1, <3>1
  <2>2. CASE Seal!EnqueueBackfill
    BY <2>1, <2>2, StartCovers DEF Seal!EnqueueBackfill
  <2>3. ASSUME NEW w \in Workers, Seal!EnqueueNext(w) PROVE Covered(c)'
    <3>1. worker[w] # Seal!Idle /\ worker[w].pc = "next"
      BY <1>0, <2>3, WorkerShape DEF Seal!EnqueueNext, Seal!At
    <3>2. PICK d \in Seal!Cursors : d = worker[w].next /\ Covered(d)
      BY <3>1 DEF SealCore, BatchCovers
    <3>3. Covered(d)'
      BY <1>0, <3>2, CoverStays
    <3> QED BY <2>1, <2>3, <3>2, <3>3 DEF Seal!EnqueueNext
  <2>4. \A w \in Workers : worker[w] # Seal!Idle /\ worker[w].locked => job[worker[w].at].state # "none"
    BY DEF SealCore, JobsHeld
  <2>7. ASSUME ~Seal!EnqueueBackfill, \A w \in Workers : ~Seal!EnqueueNext(w) PROVE job'[c] = job[c]
    BY <1>0, <1>2, <2>4, <2>7, OnlyAdds
  <2> QED BY <1>2, <2>2, <2>3, <2>7
<1> QED BY <1>1, <1>2

\* A batch keeps to its page until it is sealed, and goes on to the next.
LEMMA BatchesCover ==
  ASSUME SealCore, Seal!Next, NEW w \in Workers
  PROVE  BatchCovers(w)'
<1>0. Seal!TypeOK /\ \A r \in Seal!Rows : stored[r].sealed => stored'[r].sealed
  BY SealedStays DEF SealCore
<1> SUFFICES ASSUME worker'[w] # Seal!Idle PROVE BatchCovers(w)'
  BY DEF BatchCovers
<1>1. Resumes(w)
  BY <1>0, BatchMoves DEF SealCore, BatchCovers
<1>t. Seal!TypeOK' /\ worker'[w] \in Seal!Working
  <2>1. Seal!TypeOK'
    BY SealTypes DEF SealCore
  <2>2. worker' \in [Workers -> {Seal!Idle} \cup Seal!Working]
    BY <2>1 DEF Seal!TypeOK
  <2> QED BY <2>1, <2>2
<1>2. ASSUME worker[w] # Seal!Idle, worker'[w].at = worker[w].at
      PROVE  Covered(worker[w].at) /\ \E c \in Seal!Cursors : c = worker[w].at /\ c = worker'[w].at /\ Covered(c) /\ Covered(c)'
  <2>1. PICK c \in Seal!Cursors : c = worker[w].at /\ Covered(c)
    BY <1>0, <1>2, WorkerShape DEF SealCore, BatchCovers, Seal!Working
  <2> QED BY <1>0, <1>2, <2>1, CoverStays
<1>3. ASSUME worker[w] # Seal!Idle, worker'[w].at = worker[w].at, worker'[w].pc = worker[w].pc,
             worker'[w].todo = worker[w].todo, worker'[w].next = worker[w].next
      PROVE  BatchCovers(w)'
  <2>1. PICK c \in Seal!Cursors : c = worker[w].at /\ c = worker'[w].at /\ Covered(c)'
    BY <1>2, <1>3
  <2>2. PICK n : n = worker[w].next /\ n = worker'[w].next
    BY <1>3
  <2>3. worker'[w].pc = "next" => n \in Seal!Cursors \ {c} /\ Covered(n)'
    BY <1>0, <1>3, <2>1, <2>2, CoverStays DEF SealCore, BatchCovers
  <2>4. worker'[w].pc = "seal" =>
           /\ n = Seal!After(c, Seal!Page(c))
           /\ \A r \in Seal!Page(c) : stored'[r].sealed \/ \E x \in worker'[w].todo : x.row = r
    <3> SUFFICES ASSUME worker'[w].pc = "seal"
                 PROVE  /\ n = Seal!After(c, Seal!Page(c))
                        /\ \A r \in Seal!Page(c) : stored'[r].sealed \/ \E x \in worker'[w].todo : x.row = r
      OBVIOUS
    <3>1. n = Seal!After(c, Seal!Page(c))
      BY <1>3, <2>1, <2>2 DEF SealCore, BatchCovers
    <3>2. \A r \in Seal!Page(c) : stored[r].sealed \/ \E x \in worker[w].todo : x.row = r
      BY <1>3, <2>1 DEF SealCore, BatchCovers
    <3>3. \A r \in Seal!Page(c) : r \in Seal!Rows
      BY PageIs, RestShape
    <3> QED BY <1>0, <1>3, <3>1, <3>2, <3>3
  <2>5. worker'[w].pc # "seal" => worker'[w].todo = {}
    BY <1>3 DEF SealCore, BatchCovers
  <2> QED BY <2>1, <2>2, <2>3, <2>4, <2>5 DEF BatchCovers
<1>4. ASSUME worker'[w].pc \notin {"seal", "next"}, worker'[w].todo = {},
             NEW c \in Seal!Cursors, c = worker'[w].at, Covered(c)'
      PROVE  BatchCovers(w)'
  BY <1>4 DEF BatchCovers
<1>5. ASSUME worker[w] = Seal!Idle, worker'[w].at \in Seal!Cursors, Seal!TakeJob(w, worker'[w].at)
      PROVE  \E c \in Seal!Cursors : c = worker'[w].at /\ Covered(c)'
  <2>1. PICK c \in Seal!Cursors : c = worker'[w].at
    BY <1>5
  <2>2. Covered(c)
    BY <1>5, <2>1 DEF SealCore, Seal!TakeJob
  <2> QED BY <1>0, <2>1, <2>2, CoverStays
<1>6. ASSUME Seal!ReadPage(w), worker[w] # Seal!Idle, worker'[w].at = worker[w].at PROVE BatchCovers(w)'
  <2>1. PICK c \in Seal!Cursors : c = worker[w].at /\ c = worker'[w].at /\ Covered(c)'
    BY <1>2, <1>6
  <2> DEFINE todo == {[row |-> r, text |-> stored[r].text] : r \in {x \in Seal!Page(c) : Seal!Unsealed(x)}}
             next == Seal!After(c, Seal!Page(c))
  <2>2. worker'[w] = [worker[w] EXCEPT !.pc = "seal", !.next = next, !.todo = todo]
    BY <1>0, <1>6, <2>1 DEF Seal!ReadPage, Seal!Becomes, Seal!TypeOK
  <2>3. worker[w] \in Seal!Working
    BY <1>0, <1>6, WorkerShape
  <2>4. worker'[w].pc = "seal" /\ worker'[w].next = next /\ worker'[w].todo = todo
    BY <2>2, <2>3 DEF Seal!Working
  <2>5. ASSUME NEW r \in Seal!Page(c), ~stored[r].sealed PROVE \E x \in todo : x.row = r
    <3>1. [row |-> r, text |-> stored[r].text] \in todo
      BY <2>5 DEF Seal!Unsealed
    <3>2. [row |-> r, text |-> stored[r].text].row = r
      OBVIOUS
    <3> QED BY <3>1, <3>2
  <2>6. UNCHANGED stored
    BY <1>6 DEF Seal!ReadPage, Seal!DataUnchanged
  <2> QED BY <2>1, <2>4, <2>5, <2>6 DEF BatchCovers
<1>7. ASSUME Seal!SealRow(w), worker[w] # Seal!Idle, worker'[w].at = worker[w].at PROVE BatchCovers(w)'
  <2>1. PICK c \in Seal!Cursors : c = worker[w].at /\ c = worker'[w].at /\ Covered(c)'
    BY <1>2, <1>7
  <2>2. PICK x \in worker[w].todo :
           /\ x.row \in Seal!Rows
           /\ stored' = [stored EXCEPT ![x.row] = [sealed |-> TRUE, text |-> x.text]]
           /\ worker'[w] = [worker[w] EXCEPT !.todo = worker[w].todo \ {x}]
    BY <1>0, <1>7, SealsOne
  <2>3. worker[w] \in Seal!Working /\ worker[w].pc = "seal"
    BY <1>0, <1>7, WorkerShape DEF Seal!SealRow, Seal!At
  <2>4. worker'[w].pc = "seal" /\ worker'[w].next = worker[w].next /\ worker'[w].todo = worker[w].todo \ {x}
    BY <2>2, <2>3 DEF Seal!Working
  <2>5. stored'[x.row].sealed
    BY <1>0, <2>2 DEF Seal!TypeOK
  <2>6. ASSUME NEW r \in Seal!Page(c)
        PROVE  stored'[r].sealed \/ \E y \in worker[w].todo \ {x} : y.row = r
    <3>1. r \in Seal!Rows
      BY PageIs, RestShape
    <3>2. stored[r].sealed \/ \E y \in worker[w].todo : y.row = r
      BY <1>7, <2>1, <2>3 DEF SealCore, BatchCovers
    <3> QED BY <1>0, <2>5, <3>1, <3>2
  <2>7. worker[w].next = Seal!After(c, Seal!Page(c))
    BY <1>7, <2>1, <2>3 DEF SealCore, BatchCovers
  <2> QED BY <2>1, <2>4, <2>6, <2>7 DEF BatchCovers
<1>8. ASSUME Seal!CommitBatch(w), worker[w] # Seal!Idle, worker'[w].at = worker[w].at PROVE BatchCovers(w)'
  <2>1. PICK c \in Seal!Cursors : c = worker[w].at /\ c = worker'[w].at /\ Covered(c) /\ Covered(c)'
    BY <1>2, <1>8
  <2>2. worker[w] \in Seal!Working /\ worker[w].pc = "seal" /\ worker[w].todo = {}
    BY <1>0, <1>8, WorkerShape DEF Seal!CommitBatch, Seal!At
  <2>3. PICK n : n = worker[w].next
    OBVIOUS
  <2>4. n = Seal!After(c, Seal!Page(c)) /\ \A r \in Seal!Page(c) : stored[r].sealed
    BY <1>8, <2>1, <2>2, <2>3 DEF SealCore, BatchCovers
  <2>5. n # Seal!Done => n \in Seal!Cursors /\ Covered(n) /\ n # c
    BY <2>1, <2>4, AfterCovers, AfterMoves
  <2>6. n # Seal!Done => Covered(n)'
    BY <1>0, <2>5, CoverStays
  <2>7. PICK pc : pc = IF n = Seal!Done THEN "finish" ELSE "next"
    OBVIOUS
  <2>8. worker'[w] = [worker[w] EXCEPT !.pc = pc, !.run = 0]
    BY <1>0, <1>8, <2>3, <2>7 DEF Seal!CommitBatch, Seal!Becomes, Seal!TypeOK
  <2>9. worker'[w].pc = pc /\ worker'[w].next = n /\ worker'[w].todo = {}
    BY <2>2, <2>3, <2>8 DEF Seal!Working
  <2> QED BY <2>1, <2>5, <2>6, <2>7, <2>9 DEF BatchCovers
<1> QED BY <1>1, <1>2, <1>3, <1>4, <1>5, <1>6, <1>7, <1>8 DEF Resumes

\* Who holds a job after a step held it before or has just taken it.
LEMMA HoldersMove ==
  ASSUME SealCore, Seal!Next, NEW w \in Workers, worker'[w] # Seal!Idle, worker'[w].locked
  PROVE  \E c \in Seal!Cursors :
           /\ c = worker'[w].at
           /\ Holds(w, c) \/ Seal!TakeJob(w, c)
<1>0. Seal!TypeOK /\ Seal!TypeOK'
  BY SealTypes DEF SealCore
<1>1. Resumes(w)
  BY <1>0, BatchMoves DEF SealCore, BatchCovers
<1>2. worker'[w] \in Seal!Working
  <2>1. worker' \in [Workers -> {Seal!Idle} \cup Seal!Working]
    BY <1>0 DEF Seal!TypeOK
  <2> QED BY <2>1
<1>3. PICK c \in Seal!Cursors : c = worker'[w].at
  BY <1>2 DEF Seal!Working
<1>4. Holds(w, c) \/ Seal!TakeJob(w, c)
  BY <1>1, <1>3 DEF Resumes, Holds
<1> QED BY <1>3, <1>4

LEMMA HeldStays ==
  ASSUME SealCore, Seal!Next
  PROVE  JobsHeld'
<1>0. Seal!TypeOK /\ Seal!TypeOK' /\ JobsHeld
  BY SealTypes DEF SealCore
<1>1. ASSUME NEW c \in Seal!Cursors, Live(c)' PROVE job'[c].left > 0
  <2>1. JobMoves(c) /\ job[c] \in JobStates /\ (Live(c) => job[c].left > 0)
    BY <1>0, JobsMove, JobIsRecord DEF JobsHeld
  <2>2. ASSUME NEW w \in Workers, Holds(w, c) PROVE Live(c)
    BY <1>0, <2>2 DEF JobsHeld, Holds, Live
  <2> QED BY <1>1, <2>1, <2>2, SealBounds DEF JobMoves, JobStates, Live
<1>2. ASSUME NEW w \in Workers, NEW c \in Seal!Cursors, Holds(w, c), worker'[w] # Seal!Idle
      PROVE  job'[c].state = "active"
  <2>1. job[c].state = "active"
    BY <1>0, <1>2 DEF JobsHeld, Holds
  <2>2. ASSUME NEW v \in Workers, Holds(v, c) PROVE worker'[v] # Seal!Idle
    <3>1. v = w
      BY <1>0, <1>2, <2>2 DEF JobsHeld, Holds
    <3> QED BY <1>2, <3>1
  <2>3. JobMoves(c)
    BY <1>0, JobsMove
  <2> QED BY <1>2, <2>1, <2>2, <2>3 DEF JobMoves
<1>3. ASSUME NEW w \in Workers, NEW c \in Seal!Cursors, Seal!TakeJob(w, c) PROVE job'[c].state = "active"
  BY <1>0, <1>3 DEF Seal!TakeJob, Seal!TypeOK
<1>4. ASSUME NEW w \in Workers, worker'[w] # Seal!Idle, worker'[w].locked
      PROVE  job'[worker'[w].at].state = "active"
  BY <1>2, <1>3, <1>4, HoldersMove
<1>5. ASSUME NEW v \in Workers, worker'[v] # Seal!Idle, worker'[v].locked,
             NEW w \in Workers, worker'[w] # Seal!Idle, worker'[w].locked, worker'[v].at = worker'[w].at
      PROVE  v = w
  <2>1. PICK c \in Seal!Cursors : c = worker'[v].at /\ (Holds(v, c) \/ Seal!TakeJob(v, c))
    BY <1>5, HoldersMove
  <2>2. Holds(w, c) \/ Seal!TakeJob(w, c)
    BY <1>5, <2>1, HoldersMove
  <2>3. Holds(v, c) /\ Holds(w, c) => v = w
    BY <1>0 DEF JobsHeld, Holds
  <2>4. \A u \in Workers : Seal!TakeJob(u, c) => job[c].state = "queued" /\ worker[u] = Seal!Idle
    BY DEF Seal!TakeJob
  <2>5. \A u \in Workers : Holds(u, c) => job[c].state = "active"
    BY <1>0 DEF JobsHeld, Holds
  <2>6. ASSUME Seal!TakeJob(v, c), v # w, worker[w] = Seal!Idle PROVE FALSE
    <3>1. PICK x : worker' = [worker EXCEPT ![v] = x]
      BY <2>6 DEF Seal!TakeJob, Seal!Becomes
    <3> QED BY <1>0, <1>5, <2>6, <3>1 DEF Seal!TypeOK
  <2> QED BY <2>1, <2>2, <2>3, <2>4, <2>5, <2>6
<1> QED BY <1>1, <1>4, <1>5 DEF JobsHeld

\* A run is completed when everything is sealed.
LEMMA DoneIsSealed ==
  ASSUME SealCore, Seal!Next
  PROVE  Seal!SealedWhenDone'
<1>0. Seal!TypeOK /\ Seal!SealedWhenDone /\ \A r \in Seal!Rows : stored[r].sealed => stored'[r].sealed
  BY SealedStays DEF SealCore
<1> SUFFICES ASSUME NEW i \in Seal!Runs, run'[i] = "completed"
             PROVE  \A r \in Seal!Rows : stored'[r].sealed
  BY DEF Seal!SealedWhenDone
<1>1. CASE run[i] = "completed"
  BY <1>0, <1>1 DEF Seal!SealedWhenDone
<1>2. ASSUME NEW w \in Workers, Seal!CommitBatch(w), worker[w].next = Seal!Done
      PROVE  \A r \in Seal!Rows : stored'[r].sealed
  <2>1. worker[w] # Seal!Idle /\ worker[w] \in Seal!Working /\ worker[w].pc = "seal" /\ worker[w].todo = {}
    BY <1>0, <1>2, WorkerShape DEF Seal!CommitBatch, Seal!At
  <2>2. PICK c \in Seal!Cursors : c = worker[w].at
    BY <2>1 DEF Seal!Working
  <2>3. Covered(c) /\ Seal!Done = Seal!After(c, Seal!Page(c)) /\ \A r \in Seal!Page(c) : stored[r].sealed
    BY <1>2, <2>1, <2>2 DEF SealCore, BatchCovers
  <2>4. \A r \in Seal!Rows : stored[r].sealed
    BY <2>3, AfterCovers
  <2> QED BY <1>0, <2>4
<1>3. ASSUME NEW w \in Workers, Seal!CommitBatch(w), worker[w].next # Seal!Done PROVE run[i] = "completed"
  <2>1. run' = [run EXCEPT ![worker[w].run] = "running"]
    BY <1>3 DEF Seal!CommitBatch
  <2> QED BY <1>0, <2>1 DEF Seal!TypeOK
<1>4. ASSUME NEW w \in Workers, Seal!InsertRun(w) \/ Seal!MarkFailed(w) PROVE run[i] = "completed"
  <2>1. ASSUME NEW k, NEW s \in {"running", "failed"}, run' = [run EXCEPT ![k] = s] PROVE run[i] = "completed"
    BY <1>0, <2>1 DEF Seal!TypeOK
  <2>2. CASE Seal!InsertRun(w)
    BY <2>1, <2>2 DEF Seal!InsertRun
  <2>3. CASE Seal!MarkFailed(w)
    BY <2>1, <2>3 DEF Seal!MarkFailed
  <2> QED BY <1>4, <2>2, <2>3
<1>5. CASE UNCHANGED run
  BY <1>1, <1>5
<1> QED BY <1>1, <1>2, <1>3, <1>4, <1>5
    DEF Seal!Next, Seal!Edit, Seal!EnqueueBackfill, Seal!Forget, Seal!Wake, Seal!Stalled, Seal!TakeJob, Seal!PassGate,
        Seal!FindRun, Seal!ReadPage, Seal!SealRow, Seal!EnqueueNext, Seal!Finish, Seal!StepFails, Seal!Throw,
        Seal!WorkerDies, Seal!LoseLock

\* Whatever fails, is lost or runs twice.
LEMMA SealCoreStep == SealCore /\ Seal!Next => SealCore'
<1> SUFFICES ASSUME SealCore, Seal!Next PROVE SealCore'
  OBVIOUS
<1>1. Seal!TypeOK'
  BY SealTypes DEF SealCore
<1> QED BY <1>1, DoneIsSealed, HeldStays, JobsCover, BatchesCover DEF SealCore

\* A batch that read nothing which has changed since writes the last edits back.
LEMMA EditsStand ==
  ASSUME SealCore, Seal!LastEditStands, ReadIsLast, Seal!Next, ~EditedUnseen
  PROVE  Seal!LastEditStands' /\ ReadIsLast'
<1>0. Seal!TypeOK /\ stored \in [Seal!Rows -> [sealed : BOOLEAN, text : 0 .. MaxEdits]]
      /\ edits \in [Seal!Rows -> 0 .. MaxEdits] /\ worker \in [Workers -> {Seal!Idle} \cup Seal!Working]
  BY DEF SealCore, Seal!TypeOK
<1>1. Seal!LastEditStands'
  <2>1. ASSUME NEW r \in Seal!Rows, Seal!Edit(r) PROVE Seal!LastEditStands'
    <3>1. /\ edits' = [edits EXCEPT ![r] = edits[r] + 1]
          /\ stored' = [stored EXCEPT ![r] = [sealed |-> TRUE, text |-> edits[r] + 1]]
      BY <2>1 DEF Seal!Edit
    <3> QED BY <1>0, <3>1 DEF Seal!LastEditStands
  <2>2. ASSUME NEW w \in Workers, Seal!SealRow(w) PROVE Seal!LastEditStands'
    <3>1. PICK x \in worker[w].todo :
             /\ x.row \in Seal!Rows
             /\ stored' = [stored EXCEPT ![x.row] = [sealed |-> TRUE, text |-> x.text]]
             /\ worker[w] # Seal!Idle
      BY <1>0, <2>2, SealsOne
    <3>2. x.text = edits[x.row] /\ UNCHANGED edits
      BY <2>2, <3>1 DEF ReadIsLast, Seal!SealRow
    <3> QED BY <1>0, <3>1, <3>2 DEF Seal!LastEditStands
  <2>3. CASE UNCHANGED <<stored, edits>>
    BY <2>3 DEF Seal!LastEditStands
  <2>4. \/ UNCHANGED <<stored, edits>> \/ (\E r \in Seal!Rows : Seal!Edit(r))
        \/ (\E w \in Workers : Seal!SealRow(w))
    BY DEF Seal!Next, Seal!DataUnchanged, Seal!EnqueueBackfill, Seal!Forget, Seal!Wake, Seal!Stalled, Seal!TakeJob,
       Seal!PassGate, Seal!FindRun, Seal!InsertRun, Seal!ReadPage, Seal!CommitBatch, Seal!EnqueueNext, Seal!Finish,
       Seal!StepFails, Seal!MarkFailed, Seal!Throw, Seal!WorkerDies, Seal!LoseLock
  <2> QED BY <2>1, <2>2, <2>3, <2>4
<1>2. ASSUME NEW w \in Workers, worker'[w] # Seal!Idle, NEW x \in worker'[w].todo PROVE x.text = edits'[x.row]
  <2>1. Resumes(w)
    BY <1>0, <1>2, BatchMoves DEF SealCore, BatchCovers
  <2>2. ASSUME worker[w] # Seal!Idle, x \in worker[w].todo PROVE x.text = edits'[x.row]
    <3>1. x.text = edits[x.row]
      BY <2>2 DEF ReadIsLast
    <3>2. ~(edits'[x.row] # edits[x.row])
      BY <2>2 DEF EditedUnseen, Seal!Idle, Idle
    <3> QED BY <3>1, <3>2
  <2>3. ASSUME Seal!ReadPage(w), worker[w] # Seal!Idle PROVE x.text = edits'[x.row]
    <3>1. PICK c \in Seal!Cursors : c = worker[w].at
      BY <1>0, <2>3, WorkerShape DEF Seal!Working
    <3> DEFINE todo == {[row |-> r, text |-> stored[r].text] : r \in {z \in Seal!Page(c) : Seal!Unsealed(z)}}
    <3>2. PICK next : worker'[w] = [worker[w] EXCEPT !.pc = "seal", !.next = next, !.todo = todo]
      BY <1>0, <2>3, <3>1 DEF Seal!ReadPage, Seal!Becomes
    <3>3. worker[w] \in Seal!Working
      BY <1>0, <2>3, WorkerShape
    <3>4. worker'[w].todo = todo
      BY <3>2, <3>3 DEF Seal!Working
    <3>5. PICK r \in Seal!Page(c) : x = [row |-> r, text |-> stored[r].text]
      BY <1>2, <3>4
    <3>6. x.row = r /\ x.text = stored[r].text /\ r \in Seal!Rows
      BY <3>5, PageIs, RestShape
    <3> QED BY <2>3, <3>6 DEF Seal!LastEditStands, Seal!ReadPage, Seal!DataUnchanged
  <2>4. ASSUME Seal!SealRow(w), worker[w] # Seal!Idle PROVE x \in worker[w].todo
    <3>1. PICK z : worker'[w] = [worker[w] EXCEPT !.todo = worker[w].todo \ {z}]
      BY <1>0, <2>4, SealsOne
    <3>2. worker[w] \in Seal!Working
      BY <1>0, <2>4, WorkerShape
    <3>3. worker'[w].todo = worker[w].todo \ {z}
      BY <3>1, <3>2 DEF Seal!Working
    <3> QED BY <1>2, <3>3
  <2>5. ASSUME Seal!CommitBatch(w), worker[w] # Seal!Idle PROVE x \in worker[w].todo
    <3>1. PICK pc : pc = IF worker[w].next = Seal!Done THEN "finish" ELSE "next"
      OBVIOUS
    <3>2. worker'[w] = [worker[w] EXCEPT !.pc = pc, !.run = 0]
      BY <1>0, <2>5, <3>1 DEF Seal!CommitBatch, Seal!Becomes
    <3>3. worker[w] \in Seal!Working
      BY <1>0, <2>5, WorkerShape
    <3>4. worker'[w].todo = worker[w].todo
      BY <3>2, <3>3 DEF Seal!Working
    <3> QED BY <1>2, <3>4
  <2> QED BY <1>2, <2>1, <2>2, <2>3, <2>4, <2>5 DEF Resumes
<1> QED BY <1>1, <1>2 DEF ReadIsLast

\* As long as nothing goes astray, a job that is not over stays so until its
\* batch is finished.
LEMMA LiveStays ==
  ASSUME Seal!TypeOK, Seal!Next, ~GoesAstray, NEW c \in Seal!Cursors, Live(c)
  PROVE  Live(c)' \/ \E w \in Workers : worker[w] # Seal!Idle /\ worker[w].at = c /\ worker[w].pc = "finish"
<1> SUFFICES ASSUME ~Live(c)'
             PROVE  \E w \in Workers : worker[w] # Seal!Idle /\ worker[w].at = c /\ worker[w].pc = "finish"
  OBVIOUS
<1>1. JobMoves(c)
  BY JobsMove
<1>2. job[c].state # "finished" /\ job'[c].state = "finished"
  BY <1>1 DEF JobMoves, Live
<1>3. Seal!Idle = Idle
  BY DEF Seal!Idle, Idle
<1> QED BY <1>2, <1>3 DEF GoesAstray

\* A run is begun by InsertRun, and goes on until its batch commits or fails.
LEMMA RunsMove ==
  ASSUME Seal!TypeOK, Seal!Next, NEW i \in Seal!Runs, run'[i] # run[i]
  PROVE  \E w \in Workers :
           \/ Seal!InsertRun(w) /\ \A j \in Seal!Runs : j # i => run'[j] = run[j]
           \/ (Seal!CommitBatch(w) \/ Seal!MarkFailed(w)) /\ worker[w].run = i
<1>0. run \in [Seal!Runs -> {"none", "running", "completed", "failed"}]
  BY DEF Seal!TypeOK
<1>1. ASSUME NEW k, NEW s, run' = [run EXCEPT ![k] = s]
      PROVE  k = i /\ \A j \in Seal!Runs : j # i => run'[j] = run[j]
  BY <1>0, <1>1
<1>2. ASSUME NEW w \in Workers, Seal!InsertRun(w) PROVE \A j \in Seal!Runs : j # i => run'[j] = run[j]
  BY <1>1, <1>2 DEF Seal!InsertRun
<1>3. ASSUME NEW w \in Workers, Seal!CommitBatch(w) PROVE worker[w].run = i
  BY <1>1, <1>3 DEF Seal!CommitBatch
<1>4. ASSUME NEW w \in Workers, Seal!MarkFailed(w) PROVE worker[w].run = i
  BY <1>1, <1>4 DEF Seal!MarkFailed
<1> QED BY <1>2, <1>3, <1>4
    DEF Seal!Next, Seal!Edit, Seal!EnqueueBackfill, Seal!Forget, Seal!Wake, Seal!Stalled, Seal!TakeJob, Seal!PassGate,
        Seal!FindRun, Seal!ReadPage, Seal!SealRow, Seal!EnqueueNext, Seal!Finish, Seal!StepFails, Seal!Throw,
        Seal!WorkerDies, Seal!LoseLock

\* In one chain a run that is going on went on before, or has just begun.
LEMMA RunsGoOn ==
  ASSUME SealCore, OneChain, Seal!Next, NEW i \in Seal!Runs, Running(i)'
  PROVE  \/ Running(i)
         \/ \E w \in Workers : /\ Seal!InsertRun(w) /\ worker[w] # Seal!Idle /\ worker[w].pc = "insert"
                               /\ \A j \in Seal!Runs : ~Running(j) /\ (j # i => run'[j] = run[j])
<1>0. Seal!TypeOK
  BY DEF SealCore
<1> SUFFICES ASSUME ~Running(i)
             PROVE  \E w \in Workers : /\ Seal!InsertRun(w) /\ worker[w] # Seal!Idle /\ worker[w].pc = "insert"
                                       /\ \A j \in Seal!Runs : ~Running(j) /\ (j # i => run'[j] = run[j])
  OBVIOUS
<1>1. run'[i] # run[i]
  BY DEF Running
<1>2. PICK w \in Workers :
         \/ Seal!InsertRun(w) /\ \A j \in Seal!Runs : j # i => run'[j] = run[j]
         \/ (Seal!CommitBatch(w) \/ Seal!MarkFailed(w)) /\ worker[w].run = i
  BY <1>0, <1>1, RunsMove
<1>3. ASSUME Seal!CommitBatch(w) \/ Seal!MarkFailed(w), worker[w].run = i PROVE FALSE
  <2>1. worker[w] # Seal!Idle /\ worker[w].pc \in {"page", "seal", "fail"}
    BY <1>0, <1>3, WorkerShape DEF Seal!CommitBatch, Seal!MarkFailed, Seal!At
  <2> QED BY <1>3, <2>1 DEF OneChain, CarriesOn
<1>4. ASSUME Seal!InsertRun(w)
      PROVE  worker[w] # Seal!Idle /\ worker[w].pc = "insert" /\ \A j \in Seal!Runs : ~Running(j)
  <2>1. worker[w] # Seal!Idle /\ worker[w].pc = "insert"
    BY <1>0, <1>4, WorkerShape DEF Seal!InsertRun, Seal!At
  <2> QED BY <2>1 DEF OneChain, CarriesOn
<1> QED BY <1>2, <1>3, <1>4

\* In one chain the worker at work is the only one, and nobody else's step
\* changes a run.
LEMMA OneWorks ==
  ASSUME SealCore, OneChain, Seal!Next, ~GoesAstray, NEW w \in Workers, worker[w] # Seal!Idle, worker'[w] # Seal!Idle
  PROVE  /\ \A v \in Workers : worker[v] # Seal!Idle => v = w
         /\ Acts(w) \/ UNCHANGED <<run, worker>>
<1>0. Seal!TypeOK
  BY DEF SealCore
<1>1. \A v \in Workers : worker[v] # Seal!Idle => v = w
  BY DEF OneChain
<1>2. ASSUME NEW v \in Workers, Acts(v) PROVE v = w
  <2>1. worker[v] # Seal!Idle
    BY <1>0, <1>2, WorkerShape DEF Acts, Seal!PassGate, Seal!FindRun, Seal!InsertRun, Seal!ReadPage, Seal!SealRow,
       Seal!CommitBatch, Seal!EnqueueNext, Seal!Finish, Seal!StepFails, Seal!MarkFailed, Seal!Throw,
       Seal!WorkerDies, Seal!LoseLock, Seal!At
  <2> QED BY <1>1, <2>1
<1>3. ASSUME NEW v \in Workers, NEW c \in Seal!Cursors, Seal!TakeJob(v, c) PROVE FALSE
  <2>1. worker[v] = Seal!Idle /\ v # w
    BY <1>3 DEF Seal!TakeJob
  <2>2. worker'[v] = [pc |-> "gate", at |-> c, run |-> 0, todo |-> {}, next |-> Seal!Done, locked |-> TRUE]
    BY <1>0, <1>3 DEF Seal!TakeJob, Seal!Becomes, Seal!TypeOK
  <2>3. worker'[v].pc = "gate" /\ Idle.pc = "idle" /\ Seal!Idle = Idle
    BY <2>2 DEF Seal!Idle, Idle
  <2>4. worker'[v] # Idle /\ worker'[w] # Idle
    BY <2>3
  <2> QED BY <2>1, <2>4 DEF GoesAstray
<1>4. \/ UNCHANGED <<run, worker>> \/ \E v \in Workers : Acts(v) \/ \E c \in Seal!Cursors : Seal!TakeJob(v, c)
  BY DEF Seal!Next, Acts, Seal!EnqueueBackfill, Seal!Edit, Seal!Forget, Seal!Wake, Seal!Stalled
<1> QED BY <1>1, <1>2, <1>3, <1>4

\* A job whose batch is at work, short of its end, stays open, and so do the others.
LEMMA OpenStays ==
  ASSUME SealCore, OneChain, Seal!Next, ~GoesAstray, NEW w \in Workers, worker[w] # Seal!Idle, worker'[w] # Seal!Idle,
         NEW c \in Seal!Cursors, c = worker[w].at
  PROVE  /\ worker[w].pc # "finish" => Live(c)'
         /\ \A d \in Seal!Cursors : Live(d) /\ d # c => Live(d)'
<1>0. Seal!TypeOK
  BY DEF SealCore
<1>1. ASSUME NEW d \in Seal!Cursors, Live(d), d # c \/ worker[w].pc # "finish" PROVE Live(d)'
  <2>1. Live(d)' \/ \E v \in Workers : worker[v] # Seal!Idle /\ worker[v].at = d /\ worker[v].pc = "finish"
    BY <1>0, <1>1, LiveStays
  <2>2. \A v \in Workers : worker[v] # Seal!Idle => v = w
    BY OneWorks
  <2> QED BY <1>1, <2>1, <2>2
<1>2. worker[w].pc # "finish" => Live(c)
  BY DEF OneChain, CarriesOn
<1> QED BY <1>1, <1>2

\* The worker at work carries the one run on.
LEMMA ChainCarriesOn ==
  ASSUME SealCore, OneChain, Seal!Next, ~GoesAstray, NEW w \in Workers
  PROVE  CarriesOn(w)'
<1>0. Seal!TypeOK /\ job \in [Seal!Cursors -> JobStates] /\ worker \in [Workers -> {Seal!Idle} \cup Seal!Working]
      /\ run \in [Seal!Runs -> {"none", "running", "completed", "failed"}]
  BY DEF SealCore, Seal!TypeOK, JobStates
<1> SUFFICES ASSUME worker'[w] # Seal!Idle PROVE CarriesOn(w)'
  BY DEF CarriesOn
<1>1. ASSUME NEW c \in Seal!Cursors, Seal!TakeJob(w, c) PROVE CarriesOn(w)'
  <2>1. worker'[w] = [pc |-> "gate", at |-> c, run |-> 0, todo |-> {}, next |-> Seal!Done, locked |-> TRUE]
    BY <1>0, <1>1 DEF Seal!TakeJob, Seal!Becomes
  <2>2. worker'[w].pc = "gate" /\ worker'[w].at = c
    BY <2>1
  <2>3. Live(c)'
    BY <1>0, <1>1 DEF Seal!TakeJob, Live, JobStates
  <2> QED BY <2>2, <2>3 DEF CarriesOn, Live
<1>2. ASSUME worker[w] # Seal!Idle PROVE CarriesOn(w)'
  <2>1. worker[w] \in Seal!Working
    BY <1>0, <1>2, WorkerShape
  <2>2. PICK c \in Seal!Cursors : c = worker[w].at
    BY <2>1 DEF Seal!Working
  <2>3. PICK k : k = worker[w].run
    OBVIOUS
  <2>4. /\ worker[w].pc # "finish" => Live(c) /\ Live(c)'
        /\ worker[w].pc \in {"page", "seal", "fail"} => k \in Seal!Runs /\ Running(k)
        /\ worker[w].pc = "insert" => \A i \in Seal!Runs : ~Running(i)
        /\ worker[w].pc = "finish" /\ (\E i \in Seal!Runs : Running(i)) => \E d \in Seal!Cursors : d # c /\ Live(d)'
    <3>1. CarriesOn(w)
      BY DEF OneChain
    <3> QED BY <1>2, <2>2, <2>3, <3>1, OpenStays DEF CarriesOn
  <2>5. ASSUME UNCHANGED run, worker'[w].at = c, worker'[w].pc = worker[w].pc, worker'[w].run = k PROVE CarriesOn(w)'
    BY <2>4, <2>5 DEF CarriesOn, Running, Live
  <2>6. ASSUME worker'[w].at = c, worker'[w].pc \in {"gate", "find", "next", "throw"}, worker[w].pc # "finish"
        PROVE  CarriesOn(w)'
    BY <2>4, <2>6 DEF CarriesOn, Live
  <2>7. CASE UNCHANGED <<run, worker>>
    BY <2>2, <2>3, <2>5, <2>7
  <2>8. CASE Seal!PassGate(w)
    <3>1. worker'[w] = [worker[w] EXCEPT !.pc = "find"] /\ worker[w].pc = "gate"
      BY <1>0, <2>8 DEF Seal!PassGate, Seal!Settle, Seal!Becomes, Seal!Goto, Seal!At
    <3>2. worker'[w].at = c /\ worker'[w].pc = "find"
      BY <2>1, <2>2, <3>1 DEF Seal!Working
    <3> QED BY <2>6, <3>1, <3>2
  <2>9. CASE Seal!FindRun(w)
    <3>1. worker[w].pc = "find" /\ UNCHANGED run
      BY <2>9 DEF Seal!FindRun, Seal!At
    <3>2. CASE worker'[w] = [worker[w] EXCEPT !.pc = "insert"] /\ \A i \in Seal!Runs : run[i] # "running"
      <4>1. worker'[w].at = c /\ worker'[w].pc = "insert"
        BY <2>1, <2>2, <3>2 DEF Seal!Working
      <4> QED BY <2>4, <3>1, <3>2, <4>1 DEF CarriesOn, Live, Running
    <3>3. ASSUME NEW i \in Seal!Runs, run[i] = "running", worker'[w] = [worker[w] EXCEPT !.pc = "page", !.run = i]
          PROVE  CarriesOn(w)'
      <4>1. worker'[w].at = c /\ worker'[w].pc = "page" /\ worker'[w].run = i
        BY <2>1, <2>2, <3>3 DEF Seal!Working
      <4> QED BY <2>4, <3>1, <3>3, <4>1 DEF CarriesOn, Live, Running
    <3> QED BY <1>0, <2>9, <3>2, <3>3 DEF Seal!FindRun, Seal!Goto, Seal!Becomes
  <2>10. CASE Seal!InsertRun(w)
    <3>1. PICK i : /\ run' = [run EXCEPT ![i] = "running"]
                   /\ worker' = [worker EXCEPT ![w] = [worker[w] EXCEPT !.pc = "page", !.run = i]]
                   /\ i = Seal!Min({j \in Seal!Runs : run[j] = "none"})
      BY <2>10 DEF Seal!InsertRun, Seal!Becomes
    <3>2. worker'[w] = [worker[w] EXCEPT !.pc = "page", !.run = i]
      BY <1>0, <3>1
    <3>3. worker'[w].at = c /\ worker'[w].pc = "page" /\ worker'[w].run = i
      BY <2>1, <2>2, <3>2 DEF Seal!Working
    <3>4. i \in Seal!Runs
      BY <2>10, <3>1, FreeRun DEF Seal!InsertRun
    <3>5. Running(i)'
      BY <1>0, <3>1, <3>4 DEF Running
    <3>6. worker[w].pc = "insert"
      BY <2>10 DEF Seal!InsertRun, Seal!At
    <3> QED BY <2>4, <3>3, <3>4, <3>5, <3>6 DEF CarriesOn, Live, Running
  <2>11. CASE Seal!ReadPage(w)
    <3>1. PICK n, todo : worker'[w] = [worker[w] EXCEPT !.pc = "seal", !.next = n, !.todo = todo]
      BY <1>0, <2>11 DEF Seal!ReadPage, Seal!Becomes
    <3>2. worker'[w].at = c /\ worker'[w].pc = "seal" /\ worker'[w].run = k
      BY <2>1, <2>2, <2>3, <3>1 DEF Seal!Working
    <3>3. worker[w].pc = "page" /\ UNCHANGED run
      BY <2>11 DEF Seal!ReadPage, Seal!At
    <3> QED BY <2>4, <3>2, <3>3 DEF CarriesOn, Live, Running
  <2>12. CASE Seal!SealRow(w)
    <3>1. PICK todo : worker'[w] = [worker[w] EXCEPT !.todo = todo]
      BY <1>0, <2>12, SealsOne
    <3>2. worker'[w].at = c /\ worker'[w].pc = worker[w].pc /\ worker'[w].run = k
      BY <2>1, <2>2, <2>3, <3>1 DEF Seal!Working
    <3>3. UNCHANGED run
      BY <2>12 DEF Seal!SealRow
    <3> QED BY <2>5, <3>2, <3>3
  <2>13. CASE Seal!CommitBatch(w)
    <3>1. PICK pc : pc = IF worker[w].next = Seal!Done THEN "finish" ELSE "next"
      OBVIOUS
    <3>2. worker'[w] = [worker[w] EXCEPT !.pc = pc, !.run = 0]
      BY <1>0, <2>13, <3>1 DEF Seal!CommitBatch, Seal!Becomes
    <3>3. worker'[w].at = c /\ worker'[w].pc = pc
      BY <2>1, <2>2, <3>2 DEF Seal!Working
    <3>4. worker[w].pc = "seal"
      BY <2>13 DEF Seal!CommitBatch, Seal!At
    <3>5. CASE pc = "next"
      BY <2>6, <3>3, <3>4, <3>5
    <3>6. CASE pc = "finish"
      <4>1. run' = [run EXCEPT ![k] = "completed"]
        BY <2>3, <2>13, <3>1, <3>6 DEF Seal!CommitBatch
      <4>2. \A i \in Seal!Runs : Running(i) => i = k
        BY <2>4, <3>4 DEF OneChain
      <4>3. \A i \in Seal!Runs : ~Running(i)'
        BY <1>0, <4>1, <4>2 DEF Running
      <4> QED BY <3>3, <3>6, <4>3 DEF CarriesOn
    <3> QED BY <3>1, <3>5, <3>6
  <2>14. CASE Seal!EnqueueNext(w)
    <3>1. worker'[w] = [worker[w] EXCEPT !.pc = "finish", !.next = Seal!Done] /\ worker[w].pc = "next"
      BY <1>0, <2>14 DEF Seal!EnqueueNext, Seal!Becomes, Seal!At
    <3>2. worker'[w].at = c /\ worker'[w].pc = "finish"
      BY <2>1, <2>2, <3>1 DEF Seal!Working
    <3>3. PICK d : d = worker[w].next /\ d \in Seal!Cursors /\ d # c
      BY <1>2, <2>2, <3>1 DEF SealCore, BatchCovers
    <3>4. job[d].state # "finished"
      BY <1>2, <3>1, <3>3 DEF GoesAstray, Seal!Idle, Idle
    <3>5. job' = Seal!Added(d)
      BY <2>14, <3>3 DEF Seal!EnqueueNext
    <3>6. Live(d)'
      BY <1>0, <3>3, <3>4, <3>5 DEF Seal!Added, Live, JobStates
    <3> QED BY <3>2, <3>3, <3>6 DEF CarriesOn, Live
  <2>15. CASE Seal!StepFails(w)
    <3>1. PICK pc : pc = IF worker[w].pc \in {"page", "seal"} THEN "fail" ELSE "throw"
      OBVIOUS
    <3>2. worker'[w] = [worker[w] EXCEPT !.pc = pc, !.todo = {}, !.next = Seal!Done]
      BY <1>0, <2>15, <3>1 DEF Seal!StepFails, Seal!Becomes
    <3>3. worker'[w].at = c /\ worker'[w].pc = pc /\ worker'[w].run = k
      BY <2>1, <2>2, <2>3, <3>2 DEF Seal!Working
    <3>4. worker[w].pc # "finish" /\ UNCHANGED run
      BY <2>15 DEF Seal!StepFails
    <3>5. CASE pc = "throw"
      BY <2>6, <3>3, <3>4, <3>5
    <3>6. CASE pc = "fail"
      <4>1. worker[w].pc \in {"page", "seal"}
        BY <3>1, <3>6
      <4> QED BY <2>4, <3>3, <3>4, <3>6, <4>1 DEF CarriesOn, Live, Running
    <3> QED BY <3>1, <3>5, <3>6
  <2>16. CASE Seal!MarkFailed(w)
    <3>1. worker'[w] = [worker[w] EXCEPT !.pc = "throw"] /\ worker[w].pc = "fail"
      BY <1>0, <2>16 DEF Seal!MarkFailed, Seal!Goto, Seal!At
    <3>2. worker'[w].at = c /\ worker'[w].pc = "throw"
      BY <2>1, <2>2, <3>1 DEF Seal!Working
    <3> QED BY <2>6, <3>1, <3>2
  <2>17. CASE Seal!LoseLock(w)
    <3>1. worker'[w] = [worker[w] EXCEPT !.locked = FALSE] /\ UNCHANGED run
      BY <1>0, <2>17 DEF Seal!LoseLock
    <3>2. worker'[w].at = c /\ worker'[w].pc = worker[w].pc /\ worker'[w].run = k
      BY <2>1, <2>2, <2>3, <3>1 DEF Seal!Working
    <3> QED BY <2>5, <3>1, <3>2
  <2>18. CASE Seal!Finish(w) \/ Seal!Throw(w) \/ Seal!WorkerDies(w)
    BY <1>0, <2>18 DEF Seal!Finish, Seal!Settle, Seal!Throw, Seal!WorkerDies, Seal!Becomes
  <2>19. Acts(w) \/ UNCHANGED <<run, worker>>
    BY <1>2, OneWorks
  <2> QED BY <2>7, <2>8, <2>9, <2>10, <2>11, <2>12, <2>13, <2>14, <2>15, <2>16, <2>17, <2>18, <2>19 DEF Acts
<1>3. worker'[w] = worker[w] \/ Acts(w) => worker[w] # Seal!Idle
  <2>1. Acts(w) => worker[w] # Seal!Idle
    BY <1>0, WorkerShape DEF Acts, Seal!PassGate, Seal!FindRun, Seal!InsertRun, Seal!ReadPage, Seal!SealRow,
       Seal!CommitBatch, Seal!EnqueueNext, Seal!Finish, Seal!StepFails, Seal!MarkFailed, Seal!Throw,
       Seal!WorkerDies, Seal!LoseLock, Seal!At
  <2> QED BY <2>1
<1> QED BY <1>0, <1>1, <1>2, <1>3, OwnStep

\* One chain of jobs carries the run on, until something goes astray.
LEMMA ChainStays ==
  ASSUME SealCore, OneChain, Seal!Next, ~GoesAstray
  PROVE  OneChain'
<1>0. Seal!TypeOK /\ Seal!Idle = Idle
  BY DEF SealCore, Seal!Idle, Idle
<1>1. \A v, w \in Workers : worker'[v] # Seal!Idle /\ worker'[w] # Seal!Idle => v = w
  BY <1>0 DEF GoesAstray
<1>2. \A i, j \in Seal!Runs : Running(i)' /\ Running(j)' => i = j
  <2> SUFFICES ASSUME NEW i \in Seal!Runs, NEW j \in Seal!Runs, Running(i)', Running(j)', i # j PROVE FALSE
    OBVIOUS
  <2>1. ASSUME NEW k \in Seal!Runs, \A l \in Seal!Runs : ~Running(l) /\ (l # k => run'[l] = run[l])
        PROVE  FALSE
    BY <2>1 DEF Running
  <2>2. Running(i) /\ Running(j)
    BY <2>1, RunsGoOn
  <2> QED BY <2>2 DEF OneChain
<1>3. Seal!RunHasAJob'
  <2> SUFFICES ASSUME NEW i \in Seal!Runs, Running(i)' PROVE \E c \in Seal!Cursors : Live(c)'
    BY DEF Seal!RunHasAJob, Running, Live
  <2>1. CASE Running(i)
    <3>1. PICK c \in Seal!Cursors : Live(c)
      BY <2>1 DEF OneChain, Seal!RunHasAJob, Running, Live
    <3>2. ASSUME NEW w \in Workers, worker[w] # Seal!Idle, worker[w].at = c, worker[w].pc = "finish"
          PROVE  \E d \in Seal!Cursors : Live(d)'
      <4>1. PICK d \in Seal!Cursors : d # c /\ Live(d)
        BY <2>1, <3>2 DEF OneChain, CarriesOn
      <4>2. Live(d)' \/ \E v \in Workers : worker[v] # Seal!Idle /\ worker[v].at = d /\ worker[v].pc = "finish"
        BY <1>0, <4>1, LiveStays
      <4> QED BY <3>2, <4>1, <4>2 DEF OneChain
    <3> QED BY <1>0, <3>1, <3>2, LiveStays
  <2>2. ASSUME NEW w \in Workers, Seal!InsertRun(w), worker[w] # Seal!Idle, worker[w].pc = "insert"
        PROVE  \E c \in Seal!Cursors : Live(c)'
    <3>1. PICK c \in Seal!Cursors : c = worker[w].at
      BY <1>0, <2>2, WorkerShape DEF Seal!Working
    <3>2. Live(c) /\ UNCHANGED job
      BY <2>2, <3>1 DEF OneChain, CarriesOn, Seal!InsertRun
    <3> QED BY <3>2 DEF Live
  <2> QED BY <2>1, <2>2, RunsGoOn
<1> QED BY <1>1, <1>2, <1>3, ChainCarriesOn DEF OneChain

\* Where it begins.
LEMMA SealBegins == PlatformInit => SealHolds
<1> SUFFICES ASSUME PlatformInit PROVE SealHolds
  OBVIOUS
<1>1. /\ \E s \in [Seal!Rows -> BOOLEAN] : stored = [r \in Seal!Rows |-> [sealed |-> s[r], text |-> 0]]
      /\ edits = [r \in Seal!Rows |-> 0] /\ run = [i \in Seal!Runs |-> "none"]
      /\ job = [c \in Seal!Cursors |-> [state |-> "none", left |-> 0]]
      /\ worker = [w \in Workers |-> Seal!Idle] /\ events = 0 /\ stale = FALSE /\ astray = FALSE
  BY DEF PlatformInit, Seal!Init
<1>2. stored \in [Seal!Rows -> [sealed : BOOLEAN, text : 0 .. MaxEdits]] /\ \A r \in Seal!Rows : stored[r].text = 0
  <2>1. 0 \in 0 .. MaxEdits
    BY SealBounds
  <2> QED BY <1>1, <2>1
<1>3. Seal!TypeOK
  BY <1>1, <1>2, SealBounds DEF Seal!TypeOK
<1>4. \A c \in Seal!Cursors : job[c].state = "none"
  BY <1>1
<1> QED BY <1>1, <1>2, <1>3, <1>4
    DEF SealHolds, SealCore, Seal!SealedWhenDone, Seal!LastEditStands, ReadIsLast, JobsHeld, Live, BatchCovers,
        OneChain, Running, CarriesOn, Seal!RunHasAJob

\* Every step of the platform keeps it.
LEMMA SealStep == SealHolds /\ [PlatformNext]_everything => SealHolds'
<1> SUFFICES ASSUME SealHolds, [PlatformNext]_everything PROVE SealHolds'
  OBVIOUS
<1>1. ASSUME Seal!Next, stale' = (stale \/ EditedUnseen), astray' = (astray \/ GoesAstray) PROVE SealHolds'
  <2>1. SealCore'
    BY <1>1, SealCoreStep DEF SealHolds
  <2>2. stale' \in BOOLEAN /\ astray' \in BOOLEAN
    BY <1>1
  <2>3. ~stale' => ~stale /\ ~EditedUnseen
    BY <1>1
  <2>4. ~astray' => ~astray /\ ~GoesAstray
    BY <1>1
  <2>5. ~stale' => Seal!LastEditStands' /\ ReadIsLast'
    BY <1>1, <2>3, EditsStand DEF SealHolds
  <2>6. ~astray' => OneChain'
    BY <1>1, <2>4, ChainStays DEF SealHolds
  <2> QED BY <2>1, <2>2, <2>5, <2>6 DEF SealHolds
<1>2. ASSUME UNCHANGED <<stored, edits, run, job, worker, events, stale, astray>> PROVE SealHolds'
  BY <1>2
  DEF SealHolds, SealCore, Seal!TypeOK, Seal!SealedWhenDone, JobsHeld, Live, Covered, BatchCovers, Seal!LastEditStands,
      ReadIsLast, OneChain, Running, CarriesOn, Seal!RunHasAJob
<1> QED BY <1>1, <1>2 DEF PlatformNext, everything, history, sealVars

\* "A finished run leaves every count at 0" (privacy-architecture.md), through
\* every crash, retry, lost lock and edit; a run under way has a job to carry it
\* on until one goes astray; and no edit is undone until one is made unseen.
\* (backfill.ts, tenant-job.ts)
THEOREM BackfillAlwaysStands == PlatformSpec => []BackfillStands
<1>1. SealHolds => BackfillStands
  BY DEF SealHolds, SealCore, OneChain, BackfillStands
<1> QED BY <1>1, SealBegins, SealStep, PTL DEF PlatformSpec
=============================================================================
