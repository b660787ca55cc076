---------------------------- MODULE CaseDecision ----------------------------
(***************************************************************************)
(* One case before the committee: staff move it along the workflow,        *)
(* members propose decisions, vote, declare conflicts of interest, and a   *)
(* chair finalises a decision, which moves the case to decided.            *)
(*                                                                         *)
(* Every operation is a request handler that reads rows, decides on what   *)
(* it read and writes later; only a statement or a commit is atomic, at    *)
(* READ COMMITTED, and a handler may die between any two of its steps.     *)
(* A transaction's writes appear at its commit; the lock finalisation      *)
(* takes on the decision row in its first statement is held until then.    *)
(* Code: src/src/domains/{applications,decisions,meetings}/service.ts.     *)
(*                                                                         *)
(* Operators whose names begin with Mut are slips this code could have     *)
(* made in the definition that follows them; no action uses them.          *)
(***************************************************************************)
EXTENDS CaseWorkflow, Naturals, Sequences, FiniteSets

CONSTANTS
  Calls,           \* concurrent request handlers
  Members,         \* people who propose, vote and finalise
  Decisions,       \* rows of decisions, all of this case
  Outcomes,        \* what a chair may record
  None,            \* no call, no decision, no outcome yet
  StartStatuses,   \* the statuses the case is met in
  MaxMoves,        \* bound on the moves of the case
  MaxVotes,        \* bound on the vote rows ever inserted
  MaxDeclared      \* bound on a member's standing conflict declarations

ASSUME CaseAssumption ==
  /\ StartStatuses \subseteq CaseStatuses
  /\ {MaxMoves, MaxVotes, MaxDeclared} \subseteq Nat
  /\ None \notin Calls \cup Decisions
  /\ Outcomes \cap {None, "proposed"} = {}

VARIABLES
  status,     \* applications.status
  version,    \* applications.version, a new value at every transition
  history,    \* application_status_history, in order
  result,     \* None before the row, then "proposed", then final_outcome
  votes,      \* decision_votes
  issued,     \* vote row ids handed out
  declared,   \* per member, conflict rows in status declared
  lock,       \* per decision row, the transaction that updated it
  call        \* request handlers

case == <<status, version, history>>
vars == <<status, version, history, result, votes, issued, declared, lock, call>>

Choices == {"for", "against"}
VoteIds == Nat \ {0}
Votes   == [id : VoteIds, decision : Decisions, member : Members, choice : Choices]
Entry   == [from : CaseStatuses, to : CaseStatuses, decision : Decisions \cup {None}]

Idle       == [pc |-> "idle"]
Moving     == [pc : {"move"}, action : CaseActions, from : CaseStatuses, version : Nat]
Proposing  == [pc : {"conflicts", "insert"}, op : {"propose"}, member : Members,
               decision : Decisions]
Voting     == [pc : {"conflicts", "look"}, op : {"vote"}, member : Members,
               decision : Decisions, choice : Choices]
Writing    == [pc : {"write"}, member : Members, decision : Decisions,
               choice : Choices, row : VoteIds \cup {0}]
Retracting == [pc : {"retract"}, member : Members, decision : Decisions]
Finalising == [pc : {"conflicts", "lock", "case"}, op : {"finalise"}, member : Members,
               decision : Decisions, outcome : Outcomes]
Deciding   == [pc : {"decide"}, decision : Decisions, outcome : Outcomes,
               from : CaseStatuses, version : Nat]

TypeOK ==
  /\ status \in CaseStatuses
  /\ version \in Nat
  /\ history \in Seq(Entry)
  /\ result \in [Decisions -> Outcomes \cup {None, "proposed"}]
  /\ votes \subseteq Votes
  /\ issued \in Nat
  /\ declared \in [Members -> 0 .. MaxDeclared]
  /\ lock \in [Decisions -> Calls \cup {None}]
  /\ call \in [Calls -> {Idle} \cup Moving \cup Proposing \cup Voting \cup Writing
                          \cup Retracting \cup Finalising \cup Deciding]

Init ==
  /\ status \in StartStatuses
  /\ version = 0
  /\ history = <<>>
  /\ result = [d \in Decisions |-> None]
  /\ votes = {}
  /\ issued = 0
  /\ declared = [m \in Members |-> 0]
  /\ lock = [d \in Decisions |-> None]
  /\ call = [c \in Calls |-> Idle]

At(c, pc) == call[c].pc = pc
Become(c, rec) == call' = [call EXCEPT ![c] = rec]
Advance(c, pc) == Become(c, [call[c] EXCEPT !.pc = pc])

(* A row's final status is reached once, so its version need not be kept.  *)
Open(d) == result[d] = "proposed"

(*************************** moving the case *******************************)

(* The conditional update of applications: it matches when the row still   *)
(* has the status and the version read.                                    *)
MutUnguarded(from, seen) == TRUE
CaseUnchanged(from, seen) == status = from /\ version = seen

MoveCase(action, from, d) ==
  /\ status' = Target(action)
  /\ version' = version + 1
  /\ history' = Append(history, [from |-> from, to |-> Target(action), decision |-> d])

ReadCase(c, action) ==
  /\ At(c, "idle")
  /\ Len(history) < MaxMoves
  /\ MayMove(action, status)
  /\ Become(c, [pc |-> "move", action |-> action, from |-> status, version |-> version])
  /\ UNCHANGED <<case, result, votes, issued, declared, lock>>

TransitionCommit(c) ==
  /\ At(c, "move")
  /\ \/ /\ CaseUnchanged(call[c].from, call[c].version)
        /\ MoveCase(call[c].action, call[c].from, None)
     \/ /\ ~CaseUnchanged(call[c].from, call[c].version)
        /\ UNCHANGED case
  /\ Become(c, Idle)
  /\ UNCHANGED <<result, votes, issued, declared, lock>>

(***************************** proposals ***********************************)

ProposeRead(c, m, d) ==
  /\ At(c, "idle")
  /\ result[d] = None
  /\ status \in {"ready_for_committee", "in_committee"}
  /\ Become(c, [pc |-> "conflicts", op |-> "propose", member |-> m, decision |-> d])
  /\ UNCHANGED <<case, result, votes, issued, declared, lock>>

(* The id is fresh: no other proposal inserts the same row.                *)
ProposeInsert(c) ==
  /\ At(c, "insert")
  /\ result' = IF result[call[c].decision] = None
                 THEN [result EXCEPT ![call[c].decision] = "proposed"] ELSE result
  /\ Become(c, Idle)
  /\ UNCHANGED <<case, votes, issued, declared, lock>>

(***************************** conflicts ***********************************)

DeclareConflict(m) ==
  /\ declared[m] < MaxDeclared
  /\ declared' = [declared EXCEPT ![m] = @ + 1]
  /\ UNCHANGED <<case, result, votes, issued, lock, call>>

ClearConflict(m) ==
  /\ declared[m] > 0
  /\ declared' = [declared EXCEPT ![m] = @ - 1]
  /\ UNCHANGED <<case, result, votes, issued, lock, call>>

Conflicted(m) == declared[m] > 0

AfterConflicts == [propose |-> "insert", vote |-> "look", finalise |-> "lock"]

AssertNotConflicted(c) ==
  /\ At(c, "conflicts")
  /\ IF Conflicted(call[c].member) THEN Become(c, Idle)
                                   ELSE Advance(c, AfterConflicts[call[c].op])
  /\ UNCHANGED <<case, result, votes, issued, declared, lock>>

(******************************* votes *************************************)

InFlightVotes == Cardinality({c \in Calls :
  At(c, "write") \/ (call[c].pc \in {"conflicts", "look"} /\ call[c].op = "vote")})

VoteRead(c, m, d, choice) ==
  /\ At(c, "idle")
  /\ issued + InFlightVotes < MaxVotes
  /\ Open(d)
  /\ Become(c, [pc |-> "conflicts", op |-> "vote", member |-> m, decision |-> d,
                choice |-> choice])
  /\ UNCHANGED <<case, result, votes, issued, declared, lock>>

OwnVotes(m, d) == {v \in votes : v.member = m /\ v.decision = d}

VoteLook(c) ==
  /\ At(c, "look")
  /\ LET own == OwnVotes(call[c].member, call[c].decision) IN
       \E row \in IF own = {} THEN {0} ELSE {v.id : v \in own} :
         Become(c, [pc |-> "write", member |-> call[c].member,
                    decision |-> call[c].decision, choice |-> call[c].choice, row |-> row])
  /\ UNCHANGED <<case, result, votes, issued, declared, lock>>

(* decision_votes_decision_voter_unique.                                   *)
VoteSlotFree(m, d) == OwnVotes(m, d) = {}

VoteInsert(c) ==
  /\ At(c, "write") /\ call[c].row = 0
  /\ LET m == call[c].member  d == call[c].decision IN
       IF VoteSlotFree(m, d)
         THEN /\ issued' = issued + 1
              /\ votes' = votes \cup {[id |-> issued + 1, decision |-> d, member |-> m,
                                       choice |-> call[c].choice]}
         ELSE UNCHANGED <<votes, issued>>
  /\ Become(c, Idle)
  /\ UNCHANGED <<case, result, declared, lock>>

(* The row is updated by its id; a row withdrawn meanwhile fails the call. *)
VoteUpdate(c) ==
  /\ At(c, "write") /\ call[c].row # 0
  /\ votes' = {IF v.id = call[c].row THEN [v EXCEPT !.choice = call[c].choice] ELSE v :
                 v \in votes}
  /\ Become(c, Idle)
  /\ UNCHANGED <<case, result, issued, declared, lock>>

WithdrawVoteRead(c, m, d) ==
  /\ At(c, "idle")
  /\ Open(d)
  /\ Become(c, [pc |-> "retract", member |-> m, decision |-> d])
  /\ UNCHANGED <<case, result, votes, issued, declared, lock>>

WithdrawVote(c) ==
  /\ At(c, "retract")
  /\ votes' = votes \ OwnVotes(call[c].member, call[c].decision)
  /\ Become(c, Idle)
  /\ UNCHANGED <<case, result, issued, declared, lock>>

(**************************** finalisation *********************************)

FinaliseRead(c, m, d, o) ==
  /\ At(c, "idle")
  /\ Len(history) < MaxMoves
  /\ Open(d)
  /\ Become(c, [pc |-> "conflicts", op |-> "finalise", member |-> m, decision |-> d,
                outcome |-> o])
  /\ UNCHANGED <<case, result, votes, issued, declared, lock>>

Unlock(c) == lock' = [d \in Decisions |-> IF lock[d] = c THEN None ELSE lock[d]]

(* The conditional update of decisions waits for a transaction that holds  *)
(* the row, then matches only a row still proposed.                        *)
StillProposed(d) == Open(d)

FinaliseUpdate(c) ==
  /\ At(c, "lock")
  /\ lock[call[c].decision] = None
  /\ IF StillProposed(call[c].decision)
       THEN Advance(c, "case") /\ lock' = [lock EXCEPT ![call[c].decision] = c]
       ELSE Become(c, Idle) /\ UNCHANGED lock
  /\ UNCHANGED <<case, result, votes, issued, declared>>

Rollback(c) == Become(c, Idle) /\ Unlock(c)

MutFinaliseAnyStatus(c) ==
  /\ At(c, "case")
  /\ Become(c, [pc |-> "decide", decision |-> call[c].decision,
                outcome |-> call[c].outcome, from |-> status, version |-> version])
  /\ UNCHANGED <<case, result, votes, issued, declared, lock>>

FinaliseReadCase(c) ==
  /\ At(c, "case")
  /\ \/ /\ MayMove("record_decision", status)
        /\ Become(c, [pc |-> "decide", decision |-> call[c].decision,
                      outcome |-> call[c].outcome, from |-> status, version |-> version])
        /\ UNCHANGED lock
     \/ ~MayMove("record_decision", status) /\ Rollback(c)
  /\ UNCHANGED <<case, result, votes, issued, declared>>

RecordOutcome(c) == result' = [result EXCEPT ![call[c].decision] = call[c].outcome]

(* The decision and the case change in one transaction, or neither.        *)
MutDecisionAlone(c) ==
  /\ RecordOutcome(c)
  /\ IF CaseUnchanged(call[c].from, call[c].version)
       THEN MoveCase("record_decision", call[c].from, call[c].decision) ELSE UNCHANGED case

DecideBoth(c) ==
  IF CaseUnchanged(call[c].from, call[c].version)
    THEN RecordOutcome(c) /\ MoveCase("record_decision", call[c].from, call[c].decision)
    ELSE UNCHANGED <<result, case>>

FinaliseCommit(c) ==
  /\ At(c, "decide")
  /\ DecideBoth(c)
  /\ Unlock(c)
  /\ Become(c, Idle)
  /\ UNCHANGED <<votes, issued, declared>>

(* The process dies or the connection drops: an open transaction is undone.*)
Crash(c) ==
  /\ ~At(c, "idle")
  /\ Become(c, Idle)
  /\ Unlock(c)
  /\ UNCHANGED <<case, result, votes, issued, declared>>

Step(c) ==
  \/ TransitionCommit(c) \/ ProposeInsert(c) \/ AssertNotConflicted(c)
  \/ VoteLook(c) \/ VoteInsert(c) \/ VoteUpdate(c) \/ WithdrawVote(c)
  \/ FinaliseUpdate(c) \/ FinaliseReadCase(c) \/ FinaliseCommit(c)

Begin(c) ==
  \/ \E action \in CaseActions : ReadCase(c, action)
  \/ \E m \in Members, d \in Decisions :
       \/ ProposeRead(c, m, d)
       \/ \E choice \in Choices : VoteRead(c, m, d, choice)
       \/ WithdrawVoteRead(c, m, d)
       \/ \E o \in Outcomes : FinaliseRead(c, m, d, o)

Next ==
  \/ \E c \in Calls : Begin(c) \/ Step(c) \/ Crash(c)
  \/ \E m \in Members : DeclareConflict(m) \/ ClearConflict(m)

Spec == Init /\ [][Next]_vars

(***************************************************************************)
(* Properties.                                                             *)
(***************************************************************************)

(* The status history is one path that ends where the case stands: no move *)
(* of two racing handlers is entered twice, lost or entered from a status  *)
(* the case had already left (applyApplicationTransition).                 *)
HistoryIsAPath ==
  /\ \A i \in 1 .. Len(history) - 1 : history[i].to = history[i + 1].from
  /\ history # <<>> => history[Len(history)].to = status

(* A decision is final exactly when the history holds its one move to      *)
(* decided: "finalising the decision and moving the case to `decided`      *)
(* commit in one transaction" (decisions/service.ts:57).                   *)
Recording(d) == {i \in 1 .. Len(history) : history[i].decision = d}
FinalWithTheCase ==
  \A d \in Decisions :
    IF result[d] \in Outcomes
      THEN \E i \in Recording(d) : Recording(d) = {i} /\ history[i].to = "decided"
      ELSE Recording(d) = {}

(* "One vote per member" (db/schema/decisions.ts:68), also when a member   *)
(* casts from two windows or withdraws in between.                         *)
OneVotePerMember ==
  \A m \in Members, d \in Decisions : Cardinality(OwnVotes(m, d)) <= 1

(* The visible record behaves as CaseLifecycle says, whatever handlers     *)
(* overlap, lose their race or die.                                        *)
Lifecycle == INSTANCE CaseLifecycle
ImplementsLifecycle == Lifecycle!Spec

(* Nobody waits for the row of a decision that nobody is finalising: its   *)
(* lock is held only while the transaction that took it is under way, also *)
(* when that loses its race, is refused by the workflow or dies.           *)
LockIsInUse ==
  \A d \in Decisions : lock[d] # None =>
    /\ call[lock[d]].pc \in {"case", "decide"}
    /\ call[lock[d]].decision = d
=============================================================================
