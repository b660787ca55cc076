------------------------ MODULE CaseDecision_proofs -------------------------
(***************************************************************************)
(* Proofs about CaseDecision, for any number of handlers, members and      *)
(* decisions.  The status history and the pairing of final decisions with  *)
(* their moves follow from an invariant about running handlers: what a     *)
(* finalisation holds the row lock of is still proposed, and the move a    *)
(* handler carries is one the table allows from the status it read.        *)
(***************************************************************************)
EXTENDS CaseDecision, TLAPS

MoveInv ==
  \A c \in Calls :
    /\ At(c, "move") => MayMove(call[c].action, call[c].from)
    /\ At(c, "decide") => MayMove("record_decision", call[c].from)

LockInv ==
  \A c \in Calls : call[c].pc \in {"case", "decide"} =>
    lock[call[c].decision] = c /\ Open(call[c].decision)

IInv == TypeOK /\ MoveInv /\ LockInv /\ HistoryIsAPath /\ FinalWithTheCase

CallState == {Idle} \cup Moving \cup Proposing \cup Voting \cup Writing
             \cup Retracting \cup Finalising \cup Deciding

(* The table leads from case statuses to case statuses.                    *)
LEMMA TableTyped ==
  ASSUME NEW a \in CaseActions
  PROVE  Target(a) \in CaseStatuses /\ Transitions[a].from \subseteq CaseStatuses
  BY DEF CaseActions, Transitions, Target, CaseStatuses, Active

LEMMA RecordTyped == "record_decision" \in CaseActions /\ Target("record_decision") = "decided"
  BY DEF CaseActions, Transitions, Target

(* What a call may hold, by the step it is at.                             *)
LEMMA CallShape ==
  ASSUME TypeOK, NEW c \in Calls
  PROVE  /\ At(c, "move") => call[c] \in Moving
         /\ At(c, "insert") => call[c] \in Proposing
         /\ At(c, "conflicts") => call[c] \in Proposing \cup Voting \cup Finalising
         /\ At(c, "look") => call[c] \in Voting
         /\ At(c, "write") => call[c] \in Writing
         /\ At(c, "retract") => call[c] \in Retracting
         /\ (At(c, "lock") \/ At(c, "case")) => call[c] \in Finalising
         /\ At(c, "decide") => call[c] \in Deciding
  BY DEF TypeOK, At, Idle, Moving, Proposing, Voting, Writing, Retracting, Finalising, Deciding

(* A step that leaves the rows alone and moves one call keeps their types. *)
LEMMA CallTyped ==
  ASSUME TypeOK, NEW c \in Calls, NEW rec \in CallState, Become(c, rec),
         UNCHANGED <<status, version, history, result, votes, issued, declared>>,
         lock' \in [Decisions -> Calls \cup {None}]
  PROVE  TypeOK'
  BY DEF TypeOK, Become, CallState

LEMMA UnlockTyped ==
  ASSUME TypeOK, NEW c \in Calls, Unlock(c)
  PROVE  lock' \in [Decisions -> Calls \cup {None}]
  BY DEF TypeOK, Unlock

LEMMA MoveTyped ==
  ASSUME TypeOK, NEW a \in CaseActions, NEW from \in CaseStatuses,
         NEW d \in Decisions \cup {None}, MoveCase(a, from, d)
  PROVE  /\ status' \in CaseStatuses
         /\ version' \in Nat
         /\ history' \in Seq(Entry)
  <1>1. [from |-> from, to |-> Target(a), decision |-> d] \in Entry
    BY TableTyped DEF Entry
  <1> QED
    BY <1>1, TableTyped DEF TypeOK, MoveCase

LEMMA TypeInit == Init => TypeOK
  BY CaseAssumption DEF Init, TypeOK

LEMMA BeginTyped ==
  ASSUME TypeOK, NEW c \in Calls, Begin(c)
  PROVE  TypeOK'
<1>1. CASE \E a \in CaseActions : ReadCase(c, a)
  <2> PICK a \in CaseActions : ReadCase(c, a)
    BY <1>1
  <2>1. [pc |-> "move", action |-> a, from |-> status, version |-> version] \in CallState
    BY DEF CallState, Moving, TypeOK
  <2> QED
    BY <2>1, CallTyped DEF ReadCase, case, TypeOK
<1>2. ASSUME NEW m \in Members, NEW d \in Decisions, ProposeRead(c, m, d)
      PROVE  TypeOK'
  <2>1. [pc |-> "conflicts", op |-> "propose", member |-> m, decision |-> d] \in CallState
    BY DEF CallState, Proposing
  <2> QED
    BY <1>2, <2>1, CallTyped DEF ProposeRead, case, TypeOK
<1>3. ASSUME NEW m \in Members, NEW d \in Decisions, NEW ch \in Choices, VoteRead(c, m, d, ch)
      PROVE  TypeOK'
  <2>1. [pc |-> "conflicts", op |-> "vote", member |-> m, decision |-> d, choice |-> ch]
          \in CallState
    BY DEF CallState, Voting
  <2> QED
    BY <1>3, <2>1, CallTyped DEF VoteRead, case, TypeOK
<1>4. ASSUME NEW m \in Members, NEW d \in Decisions, WithdrawVoteRead(c, m, d)
      PROVE  TypeOK'
  <2>1. [pc |-> "retract", member |-> m, decision |-> d] \in CallState
    BY DEF CallState, Retracting
  <2> QED
    BY <1>4, <2>1, CallTyped DEF WithdrawVoteRead, case, TypeOK
<1>5. ASSUME NEW m \in Members, NEW d \in Decisions, NEW o \in Outcomes, FinaliseRead(c, m, d, o)
      PROVE  TypeOK'
  <2>1. [pc |-> "conflicts", op |-> "finalise", member |-> m, decision |-> d, outcome |-> o]
          \in CallState
    BY DEF CallState, Finalising
  <2> QED
    BY <1>5, <2>1, CallTyped DEF FinaliseRead, case, TypeOK
<1> QED
  BY <1>1, <1>2, <1>3, <1>4, <1>5 DEF Begin

LEMMA StepTyped ==
  ASSUME TypeOK, NEW c \in Calls, Step(c)
  PROVE  TypeOK'
<1> Idle \in CallState
  BY DEF CallState
<1>1. CASE TransitionCommit(c)
  <2>1. call[c] \in Moving
    BY <1>1, CallShape DEF TransitionCommit
  <2>2. status' \in CaseStatuses /\ version' \in Nat /\ history' \in Seq(Entry)
    BY <1>1, <2>1, MoveTyped DEF TransitionCommit, Moving, case, TypeOK
  <2> QED
    BY <1>1, <2>2 DEF TransitionCommit, TypeOK, Become, CallState
<1>2. CASE ProposeInsert(c)
  <2>1. result' \in [Decisions -> Outcomes \cup {None, "proposed"}]
    BY <1>2 DEF ProposeInsert, TypeOK
  <2> QED
    BY <1>2, <2>1 DEF ProposeInsert, TypeOK, Become, CallState, case
<1>3. CASE AssertNotConflicted(c)
  <2>1. call[c] \in Proposing \cup Voting \cup Finalising
    BY <1>3, CallShape DEF AssertNotConflicted
  <2>2. [call[c] EXCEPT !.pc = AfterConflicts[call[c].op]] \in Proposing \cup Voting \cup Finalising
    BY <2>1 DEF AfterConflicts, Proposing, Voting, Finalising
  <2>3. [call[c] EXCEPT !.pc = AfterConflicts[call[c].op]] \in CallState
    BY <2>2 DEF CallState
  <2> QED
    BY <1>3, <2>3, CallTyped DEF AssertNotConflicted, Advance, case, TypeOK
<1>4. CASE VoteLook(c)
  <2> DEFINE own == OwnVotes(call[c].member, call[c].decision)
  <2>1. PICK row \in IF own = {} THEN {0} ELSE {v.id : v \in own} :
          Become(c, [pc |-> "write", member |-> call[c].member,
                     decision |-> call[c].decision, choice |-> call[c].choice, row |-> row])
    BY <1>4 DEF VoteLook
  <2>2. row \in VoteIds \cup {0}
    BY <2>1 DEF OwnVotes, TypeOK, Votes
  <2>3. [pc |-> "write", member |-> call[c].member, decision |-> call[c].decision,
         choice |-> call[c].choice, row |-> row] \in CallState
    BY <1>4, <2>2, CallShape DEF VoteLook, Voting, Writing, CallState
  <2> QED
    BY <1>4, <2>1, <2>3, CallTyped DEF VoteLook, case, TypeOK
<1>5. CASE VoteInsert(c)
  <2>1. call[c] \in Writing
    BY <1>5, CallShape DEF VoteInsert
  <2>2. [id |-> issued + 1, decision |-> call[c].decision, member |-> call[c].member,
         choice |-> call[c].choice] \in Votes
    BY <2>1 DEF Writing, Votes, VoteIds, TypeOK
  <2>3. votes' \subseteq Votes /\ issued' \in Nat
    BY <1>5, <2>2 DEF VoteInsert, TypeOK
  <2> QED
    BY <1>5, <2>3 DEF VoteInsert, TypeOK, Become, CallState, case
<1>6. CASE VoteUpdate(c)
  <2>1. call[c] \in Writing
    BY <1>6, CallShape DEF VoteUpdate
  <2>2. \A v \in votes : [v EXCEPT !.choice = call[c].choice] \in Votes
    BY <2>1 DEF Writing, Votes, TypeOK
  <2>3. votes' \subseteq Votes
    BY <1>6, <2>2 DEF VoteUpdate, TypeOK
  <2> QED
    BY <1>6, <2>3 DEF VoteUpdate, TypeOK, Become, CallState, case
<1>7. CASE WithdrawVote(c)
  <2>1. votes' \subseteq Votes
    BY <1>7 DEF WithdrawVote, TypeOK
  <2> QED
    BY <1>7, <2>1 DEF WithdrawVote, TypeOK, Become, CallState, case
<1>8. CASE FinaliseUpdate(c)
  <2>1. call[c] \in Finalising
    BY <1>8, CallShape DEF FinaliseUpdate
  <2>2. [call[c] EXCEPT !.pc = "case"] \in CallState
    BY <2>1 DEF Finalising, CallState
  <2>3. lock' \in [Decisions -> Calls \cup {None}]
    BY <1>8 DEF FinaliseUpdate, TypeOK
  <2> QED
    BY <1>8, <2>2, <2>3, CallTyped DEF FinaliseUpdate, Advance, case
<1>9. CASE FinaliseReadCase(c)
  <2>1. call[c] \in Finalising
    BY <1>9, CallShape DEF FinaliseReadCase
  <2>2. [pc |-> "decide", decision |-> call[c].decision, outcome |-> call[c].outcome,
         from |-> status, version |-> version] \in CallState
    BY <2>1 DEF Finalising, Deciding, CallState, TypeOK
  <2>3. lock' \in [Decisions -> Calls \cup {None}]
    BY <1>9, UnlockTyped DEF FinaliseReadCase, Rollback, TypeOK
  <2> QED
    BY <1>9, <2>2, <2>3, CallTyped DEF FinaliseReadCase, Rollback, case
<1>10. CASE FinaliseCommit(c)
  <2>1. call[c] \in Deciding
    BY <1>10, CallShape DEF FinaliseCommit
  <2>2. status' \in CaseStatuses /\ version' \in Nat /\ history' \in Seq(Entry)
    BY <1>10, <2>1, MoveTyped, RecordTyped DEF FinaliseCommit, DecideBoth, Deciding, case, TypeOK
  <2>3. result' \in [Decisions -> Outcomes \cup {None, "proposed"}]
    BY <1>10, <2>1 DEF FinaliseCommit, DecideBoth, RecordOutcome, Deciding, TypeOK
  <2>4. lock' \in [Decisions -> Calls \cup {None}]
    BY <1>10, UnlockTyped DEF FinaliseCommit
  <2> QED
    BY <1>10, <2>2, <2>3, <2>4 DEF FinaliseCommit, TypeOK, Become, CallState
<1> QED
  BY <1>1, <1>2, <1>3, <1>4, <1>5, <1>6, <1>7, <1>8, <1>9, <1>10 DEF Step

LEMMA TypeNext == TypeOK /\ [Next]_vars => TypeOK'
<1> SUFFICES ASSUME TypeOK, [Next]_vars PROVE TypeOK'
  OBVIOUS
<1>1. ASSUME NEW c \in Calls, Crash(c) PROVE TypeOK'
  <2>1. Idle \in CallState
    BY DEF CallState
  <2> QED
    BY <1>1, <2>1, CallTyped, UnlockTyped DEF Crash, case
<1>2. ASSUME NEW m \in Members, DeclareConflict(m) \/ ClearConflict(m) PROVE TypeOK'
  <2>1. MaxDeclared \in Nat
    BY CaseAssumption
  <2>2. declared' \in [Members -> 0 .. MaxDeclared]
    <3>1. declared[m] \in 0 .. MaxDeclared
      BY DEF TypeOK
    <3>2. declared'[m] \in 0 .. MaxDeclared
      BY <1>2, <2>1, <3>1 DEF DeclareConflict, ClearConflict, TypeOK
    <3> QED
      BY <1>2, <3>2 DEF DeclareConflict, ClearConflict, TypeOK
  <2> QED
    BY <1>2, <2>2 DEF DeclareConflict, ClearConflict, TypeOK, case
<1>3. CASE UNCHANGED vars
  BY <1>3 DEF vars, TypeOK
<1> QED
  BY <1>1, <1>2, <1>3, BeginTyped, StepTyped DEF Next

(***************************** the invariant *******************************)

(* A step that leaves the visible record alone keeps what is said of it.   *)
LEMMA RecordKept ==
  ASSUME IInv, UNCHANGED <<status, history, result>>
  PROVE  HistoryIsAPath' /\ FinalWithTheCase'
  BY DEF IInv, HistoryIsAPath, FinalWithTheCase, Recording

(* A step of call c keeps the obligations of the others, who hold their own*)
(* locks, if it meets those of the step c goes to.                         *)
LEMMA CallsKept ==
  ASSUME IInv, NEW c \in Calls, NEW rec, Become(c, rec),
         rec.pc = "move" => MayMove(rec.action, rec.from),
         rec.pc = "decide" => MayMove("record_decision", rec.from),
         rec.pc \in {"case", "decide"} => lock'[rec.decision] = c /\ result'[rec.decision] = "proposed",
         \A d \in Decisions : lock[d] \in Calls \ {c} =>
           lock'[d] = lock[d] /\ (Open(d) => Open(d)')
  PROVE  MoveInv' /\ LockInv'
<1>1. call' = [call EXCEPT ![c] = rec] /\ call'[c] = rec
  BY DEF Become, IInv, TypeOK
<1>2. \A k \in Calls : k # c => call'[k] = call[k]
  BY <1>1 DEF IInv, TypeOK
<1>3. MoveInv'
  BY <1>1, <1>2 DEF IInv, MoveInv, At
<1>4. ASSUME NEW k \in Calls, call[k].pc \in {"case", "decide"}
      PROVE  call[k].decision \in Decisions
  BY <1>4, CallShape DEF IInv, At, Finalising, Deciding
<1>5. ASSUME NEW k \in Calls, call'[k].pc \in {"case", "decide"}
      PROVE  lock'[call'[k].decision] = k /\ result'[call'[k].decision] = "proposed"
  <2>1. CASE k = c
    BY <1>1, <1>5, <2>1 DEF Open
  <2>2. CASE k # c
    <3>1. call'[k] = call[k] /\ call[k].pc \in {"case", "decide"}
      BY <1>2, <1>5, <2>2
    <3>2. call[k].decision \in Decisions /\ lock[call[k].decision] = k /\ Open(call[k].decision)
      BY <1>4, <3>1 DEF IInv, LockInv
    <3> QED
      BY <2>2, <3>1, <3>2 DEF Open
  <2> QED
    BY <2>1, <2>2
<1>6. LockInv'
  BY <1>5 DEF LockInv, Open
<1> QED
  BY <1>3, <1>6

(* An entry from where the history ends, to where the case goes, extends it.*)
LEMMA PathExtends ==
  ASSUME TypeOK, HistoryIsAPath, NEW a \in CaseActions, NEW d \in Decisions \cup {None},
         MoveCase(a, status, d)
  PROVE  HistoryIsAPath'
<1> DEFINE e == [from |-> status, to |-> Target(a), decision |-> d]
           n == Len(history)
<1>1. e \in Entry /\ history \in Seq(Entry) /\ history' = Append(history, e)
  BY TableTyped DEF TypeOK, MoveCase, Entry
<1>2. /\ n \in Nat
      /\ Len(history') = n + 1
      /\ history'[n + 1] = e
      /\ \A i \in 1 .. n : history'[i] = history[i]
  BY <1>1
<1>3. status' = Target(a)
  BY DEF MoveCase
<1>4. ASSUME NEW i \in 1 .. n PROVE history'[i].to = history'[i + 1].from
  <2>1. CASE i = n
    BY <1>1, <1>2, <2>1 DEF HistoryIsAPath
  <2>2. CASE i # n
    BY <1>2, <2>2 DEF HistoryIsAPath
  <2> QED
    BY <2>1, <2>2
<1> QED
  BY <1>2, <1>3, <1>4 DEF HistoryIsAPath

(* The new entry records its decision and no other.                        *)
LEMMA RecordingExtends ==
  ASSUME TypeOK, NEW a \in CaseActions, NEW d \in Decisions \cup {None},
         NEW from \in CaseStatuses, MoveCase(a, from, d), NEW q \in Decisions
  PROVE  /\ q # d => Recording(q)' = Recording(q)
         /\ q = d => Recording(q)' = Recording(q) \cup {Len(history) + 1}
         /\ \A i \in Recording(q) : history'[i] = history[i]
         /\ history'[Len(history) + 1].to = Target(a)
<1> DEFINE e == [from |-> from, to |-> Target(a), decision |-> d]
           n == Len(history)
<1>1. e \in Entry /\ history \in Seq(Entry) /\ history' = Append(history, e)
  BY TableTyped DEF TypeOK, MoveCase, Entry
<1>2. /\ n \in Nat
      /\ Len(history') = n + 1
      /\ history'[n + 1] = e
      /\ \A i \in 1 .. n : history'[i] = history[i]
  BY <1>1
<1> QED
  BY <1>2 DEF Recording

LEMMA InitIInv == Init => IInv
<1> SUFFICES ASSUME Init PROVE IInv
  OBVIOUS
<1>1. MoveInv /\ LockInv
  BY DEF Init, MoveInv, LockInv, At, Idle
<1>2. Len(history) = 0 /\ history = <<>>
  BY DEF Init
<1>3. HistoryIsAPath
  BY <1>2 DEF HistoryIsAPath
<1>4. \A d \in Decisions : result[d] = None /\ None \notin Outcomes
  BY CaseAssumption DEF Init
<1>5. FinalWithTheCase
  BY <1>2, <1>4 DEF FinalWithTheCase, Recording
<1> QED
  BY <1>1, <1>3, <1>5, TypeInit DEF IInv

LEMMA UnlockOwn ==
  ASSUME TypeOK, NEW c \in Calls, Unlock(c)
  PROVE  \A d \in Decisions : lock[d] \in Calls \ {c} => lock'[d] = lock[d]
  BY DEF Unlock

(* Steps that only move a call: nothing of the record changes.             *)
LEMMA QuietKept ==
  ASSUME IInv, TypeOK', NEW c \in Calls, NEW rec, Become(c, rec),
         rec.pc \notin {"move", "case", "decide"},
         UNCHANGED <<status, history, result>>, UNCHANGED lock \/ Unlock(c)
  PROVE  IInv'
<1>1. MoveInv' /\ LockInv'
  BY CallsKept, UnlockOwn DEF IInv, Open
<1> QED
  BY <1>1, RecordKept DEF IInv

LEMMA BeginIInv ==
  ASSUME IInv, NEW c \in Calls, Begin(c)
  PROVE  IInv'
<1>1. TypeOK'
  BY BeginTyped DEF IInv
<1>2. ASSUME NEW a \in CaseActions, ReadCase(c, a) PROVE IInv'
  <2>1. MoveInv' /\ LockInv'
    BY <1>2, CallsKept DEF ReadCase, Open
  <2> QED
    BY <1>1, <1>2, <2>1, RecordKept DEF IInv, ReadCase, case
<1>3. ASSUME NEW m \in Members, NEW d \in Decisions, ProposeRead(c, m, d) PROVE IInv'
  BY <1>1, <1>3, QuietKept DEF ProposeRead, case
<1>4. ASSUME NEW m \in Members, NEW d \in Decisions, NEW ch \in Choices, VoteRead(c, m, d, ch)
      PROVE  IInv'
  BY <1>1, <1>4, QuietKept DEF VoteRead, case
<1>5. ASSUME NEW m \in Members, NEW d \in Decisions, WithdrawVoteRead(c, m, d) PROVE IInv'
  BY <1>1, <1>5, QuietKept DEF WithdrawVoteRead, case
<1>6. ASSUME NEW m \in Members, NEW d \in Decisions, NEW o \in Outcomes, FinaliseRead(c, m, d, o)
      PROVE  IInv'
  BY <1>1, <1>6, QuietKept DEF FinaliseRead, case
<1> QED
  BY <1>2, <1>3, <1>4, <1>5, <1>6 DEF Begin

(* The case moves for a transition: the entry records no decision.         *)
LEMMA TransitionKept ==
  ASSUME IInv, NEW c \in Calls, At(c, "move"),
         CaseUnchanged(call[c].from, call[c].version),
         MoveCase(call[c].action, call[c].from, None), UNCHANGED result
  PROVE  HistoryIsAPath' /\ FinalWithTheCase'
<1>1. call[c].action \in CaseActions /\ call[c].from = status
  BY CallShape DEF IInv, Moving, CaseUnchanged
<1>2. HistoryIsAPath'
  BY <1>1, PathExtends DEF IInv
<1>3. ASSUME NEW q \in Decisions
      PROVE  /\ Recording(q)' = Recording(q)
             /\ \A i \in Recording(q) : history'[i] = history[i]
  BY <1>1, RecordingExtends, CaseAssumption DEF IInv, TypeOK
<1>4. FinalWithTheCase'
  BY <1>3 DEF IInv, FinalWithTheCase
<1> QED
  BY <1>2, <1>4

(* The case moves for a finalisation: its decision was open, so nothing    *)
(* recorded it before.                                                     *)
LEMMA DecideKept ==
  ASSUME IInv, NEW c \in Calls, At(c, "decide"),
         CaseUnchanged(call[c].from, call[c].version), RecordOutcome(c),
         MoveCase("record_decision", call[c].from, call[c].decision)
  PROVE  HistoryIsAPath' /\ FinalWithTheCase'
<1> PICK d : d = call[c].decision
  OBVIOUS
<1>1. d \in Decisions /\ call[c].outcome \in Outcomes /\ call[c].from = status
  BY CallShape DEF IInv, Deciding, CaseUnchanged
<1>2. result[d] = "proposed" /\ "proposed" \notin Outcomes
  BY CaseAssumption DEF IInv, LockInv, At, Open
<1>3. HistoryIsAPath'
  BY <1>1, PathExtends, RecordTyped DEF IInv
<1>4. Recording(d) = {}
  BY <1>1, <1>2 DEF IInv, FinalWithTheCase
<1>5. /\ Recording(d)' = {Len(history) + 1}
      /\ history'[Len(history) + 1].to = "decided"
      /\ result'[d] \in Outcomes
  BY <1>1, <1>4, RecordingExtends, RecordTyped DEF IInv, TypeOK, RecordOutcome
<1>6. ASSUME NEW q \in Decisions, q # d
      PROVE  /\ Recording(q)' = Recording(q)
             /\ \A i \in Recording(q) : history'[i] = history[i]
             /\ result'[q] = result[q]
  BY <1>1, <1>6, RecordingExtends, RecordTyped DEF IInv, TypeOK, RecordOutcome
<1>7. ASSUME NEW q \in Decisions
      PROVE  IF result'[q] \in Outcomes
               THEN \E i \in Recording(q)' : Recording(q)' = {i} /\ history'[i].to = "decided"
               ELSE Recording(q)' = {}
  <2>1. CASE q = d
    BY <1>5, <2>1
  <2>2. CASE q # d
    BY <1>6, <2>2 DEF IInv, FinalWithTheCase
  <2> QED
    BY <2>1, <2>2
<1> QED
  BY <1>3, <1>7 DEF FinalWithTheCase

LEMMA StepIInv ==
  ASSUME IInv, NEW c \in Calls, Step(c)
  PROVE  IInv'
<1>0. TypeOK' /\ TypeOK
  BY StepTyped DEF IInv
<1>1. CASE TransitionCommit(c)
  <2>1. MoveInv' /\ LockInv'
    BY <1>1, CallsKept DEF TransitionCommit, Idle, Open
  <2> QED
    BY <1>0, <1>1, <2>1, TransitionKept, RecordKept DEF TransitionCommit, IInv, case
<1>2. CASE ProposeInsert(c)
  <2>1. MoveInv' /\ LockInv'
    BY <1>0, <1>2, CallsKept DEF ProposeInsert, Idle, Open, TypeOK
  <2>2. \A d \in Decisions : result'[d] \in Outcomes <=> result[d] \in Outcomes
    BY <1>0, <1>2, CaseAssumption DEF ProposeInsert, TypeOK
  <2>3. \A d \in Decisions : result'[d] \in Outcomes => result'[d] = result[d]
    BY <1>0, <1>2, CaseAssumption DEF ProposeInsert, TypeOK
  <2>4. HistoryIsAPath' /\ FinalWithTheCase'
    BY <1>2, <2>2, <2>3
    DEF ProposeInsert, case, IInv, HistoryIsAPath, FinalWithTheCase, Recording
  <2> QED
    BY <1>0, <2>1, <2>4 DEF IInv
<1>3. CASE AssertNotConflicted(c)
  <2>1. call[c] \in Proposing \cup Voting \cup Finalising
    BY <1>0, <1>3, CallShape DEF AssertNotConflicted
  <2>2. [call[c] EXCEPT !.pc = AfterConflicts[call[c].op]].pc \in {"insert", "look", "lock"}
    BY <2>1 DEF AfterConflicts, Proposing, Voting, Finalising
  <2> QED
    BY <1>0, <1>3, <2>2, QuietKept DEF AssertNotConflicted, Advance, Idle, case
<1>4. CASE VoteLook(c)
  BY <1>0, <1>4, QuietKept DEF VoteLook, case
<1>5. CASE VoteInsert(c) \/ VoteUpdate(c) \/ WithdrawVote(c)
  BY <1>0, <1>5, QuietKept DEF VoteInsert, VoteUpdate, WithdrawVote, Idle, case
<1>6. CASE FinaliseUpdate(c)
  <2>1. CASE StillProposed(call[c].decision)
    <3> DEFINE rec == [call[c] EXCEPT !.pc = "case"]
    <3>1. call[c] \in Finalising
      BY <1>0, <1>6, CallShape DEF FinaliseUpdate
    <3>2. rec.pc = "case" /\ rec.decision = call[c].decision /\ call[c].decision \in Decisions
      BY <3>1 DEF Finalising
    <3>3. /\ Become(c, rec)
          /\ lock[call[c].decision] = None
          /\ lock' = [lock EXCEPT ![call[c].decision] = c]
          /\ UNCHANGED <<status, history, result>>
      BY <1>6, <2>1 DEF FinaliseUpdate, Advance, case
    <3>4. lock'[rec.decision] = c /\ result'[rec.decision] = "proposed"
      <4>1. result' = result /\ result[call[c].decision] = "proposed"
        BY <2>1, <3>3 DEF StillProposed, Open
      <4>2. lock'[call[c].decision] = c
        BY <1>0, <3>2, <3>3 DEF TypeOK
      <4> QED
        BY <3>2, <4>1, <4>2 DEF Open
    <3>5. None \notin Calls
      BY CaseAssumption
    <3>6. \A d \in Decisions : lock[d] \in Calls \ {c} =>
            lock'[d] = lock[d] /\ (Open(d) => Open(d)')
      BY <1>0, <3>3, <3>5 DEF TypeOK, Open
    <3>7. MoveInv' /\ LockInv'
      BY <3>2, <3>3, <3>4, <3>6, CallsKept DEF Open
    <3> QED
      BY <1>0, <3>3, <3>7, RecordKept DEF IInv
  <2>2. CASE ~StillProposed(call[c].decision)
    BY <1>0, <1>6, <2>2, QuietKept DEF FinaliseUpdate, Idle, case
  <2> QED
    BY <2>1, <2>2
<1>7. CASE FinaliseReadCase(c)
  <2>1. CASE MayMove("record_decision", status)
    <3> DEFINE rec == [pc |-> "decide", decision |-> call[c].decision,
                       outcome |-> call[c].outcome, from |-> status, version |-> version]
    <3>1. Become(c, rec) /\ UNCHANGED <<lock, status, history, result>>
      BY <1>7, <2>1 DEF FinaliseReadCase, case
    <3>2. lock[call[c].decision] = c /\ Open(call[c].decision)
      BY <1>7 DEF FinaliseReadCase, IInv, LockInv, At
    <3>3. MoveInv' /\ LockInv'
      BY <2>1, <3>1, <3>2, CallsKept DEF Open
    <3> QED
      BY <1>0, <3>1, <3>3, RecordKept DEF IInv
  <2>2. CASE ~MayMove("record_decision", status)
    BY <1>0, <1>7, <2>2, QuietKept DEF FinaliseReadCase, Rollback, Idle, case
  <2> QED
    BY <2>1, <2>2
<1>8. CASE FinaliseCommit(c)
  <2>1. call[c].decision \in Decisions /\ lock[call[c].decision] = c
    BY <1>0, <1>8, CallShape DEF FinaliseCommit, IInv, LockInv, At, Deciding
  <2>2. \A d \in Decisions : d # call[c].decision => result'[d] = result[d]
    BY <1>0, <1>8 DEF FinaliseCommit, DecideBoth, RecordOutcome, TypeOK
  <2>3. \A d \in Decisions : lock[d] \in Calls \ {c} =>
          lock'[d] = lock[d] /\ (Open(d) => Open(d)')
    BY <1>0, <1>8, <2>1, <2>2, UnlockOwn DEF FinaliseCommit, Open
  <2>4. MoveInv' /\ LockInv'
    BY <1>8, <2>3, CallsKept DEF FinaliseCommit, Idle
  <2> QED
    BY <1>0, <1>8, <2>4, DecideKept, RecordKept DEF FinaliseCommit, DecideBoth, IInv, case
<1> QED
  BY <1>1, <1>2, <1>3, <1>4, <1>5, <1>6, <1>7, <1>8 DEF Step

LEMMA NextIInv == IInv /\ [Next]_vars => IInv'
<1> SUFFICES ASSUME IInv, [Next]_vars PROVE IInv'
  OBVIOUS
<1>0. TypeOK' /\ TypeOK
  BY TypeNext DEF IInv
<1>1. ASSUME NEW c \in Calls, Crash(c) PROVE IInv'
  BY <1>0, <1>1, QuietKept DEF Crash, Idle, case
<1>2. CASE UNCHANGED <<status, history, result, lock, call>>
  BY <1>0, <1>2, RecordKept DEF IInv, MoveInv, LockInv, At, Open
<1> QED
  BY <1>1, <1>2, BeginIInv, StepIInv DEF Next, DeclareConflict, ClearConflict, case, vars

LEMMA InductiveInv == Spec => []IInv
<1> QED
  BY InitIInv, NextIInv, PTL DEF Spec

(* Every row, vote and handler keeps its type; a decision's result is      *)
(* nothing, "proposed" or an outcome a chair may record.                   *)
THEOREM TypeCorrect == Spec => []TypeOK
<1>1. IInv => TypeOK
  BY DEF IInv
<1> QED
  BY <1>1, InductiveInv, PTL

(* The status history of a case is one path that ends where the case       *)
(* stands, for any number of racing transitions and finalisations.         *)
THEOREM HistoryIsOnePath == Spec => []HistoryIsAPath
<1>1. IInv => HistoryIsAPath
  BY DEF IInv
<1> QED
  BY <1>1, InductiveInv, PTL

(* A decision is final exactly when the history holds its one move to      *)
(* decided: finaliseDecision commits both or neither.                      *)
THEOREM DecidedTogether == Spec => []FinalWithTheCase
<1>1. IInv => FinalWithTheCase
  BY DEF IInv
<1> QED
  BY <1>1, InductiveInv, PTL

(*************************** the row lock **********************************)

(* A step of one call keeps every lock in use that it does not release,    *)
(* when the locks it still holds fit the step it goes to.                  *)
LEMMA LocksKept ==
  ASSUME TypeOK, LockIsInUse, NEW c \in Calls, NEW rec, Become(c, rec),
         \A d \in Decisions : lock'[d] # None =>
           \/ lock'[d] = lock[d] /\ lock[d] # c
           \/ lock'[d] = c /\ rec.pc \in {"case", "decide"} /\ rec.decision = d
  PROVE  LockIsInUse'
<1> SUFFICES ASSUME NEW d \in Decisions, lock'[d] # None
             PROVE  call'[lock'[d]].pc \in {"case", "decide"} /\ call'[lock'[d]].decision = d
  BY DEF LockIsInUse
<1>1. DOMAIN call = Calls /\ call' = [call EXCEPT ![c] = rec]
  BY DEF TypeOK, Become
<1>2. CASE lock'[d] = lock[d] /\ lock[d] # c
  <2>1. call'[lock[d]] = call[lock[d]]
    BY <1>1, <1>2
  <2> QED
    BY <1>2, <2>1 DEF LockIsInUse
<1>3. CASE lock'[d] = c /\ rec.pc \in {"case", "decide"} /\ rec.decision = d
  BY <1>1, <1>3
<1> QED
  BY <1>2, <1>3

(* A call that is not inside a finalisation holds no lock.                 *)
LEMMA OutsideHoldsNone ==
  ASSUME TypeOK, LockIsInUse, NEW c \in Calls, call[c].pc \notin {"case", "decide"}
  PROVE  \A d \in Decisions : lock[d] # c
  BY CaseAssumption DEF LockIsInUse

(* Unlocking leaves no lock of the call's.                                 *)
LEMMA UnlockDrops ==
  ASSUME TypeOK, NEW c \in Calls, NEW rec, Become(c, rec), Unlock(c), LockIsInUse
  PROVE  LockIsInUse'
<1>1. \A d \in Decisions : lock'[d] # None => lock'[d] = lock[d] /\ lock[d] # c
  BY CaseAssumption DEF Unlock
<1> QED
  BY <1>1, LocksKept

LEMMA LockNext == TypeOK /\ LockIsInUse /\ [Next]_vars => LockIsInUse'
<1> SUFFICES ASSUME TypeOK, LockIsInUse, [Next]_vars PROVE LockIsInUse'
  OBVIOUS
<1>1. ASSUME NEW c \in Calls, NEW rec, Become(c, rec), UNCHANGED lock,
             call[c].pc \notin {"case", "decide"}
      PROVE  LockIsInUse'
  BY <1>1, OutsideHoldsNone, LocksKept
<1>2. ASSUME NEW c \in Calls, Begin(c) PROVE LockIsInUse'
  BY <1>1, <1>2 DEF Begin, ReadCase, ProposeRead, VoteRead, WithdrawVoteRead, FinaliseRead, At
<1>3. ASSUME NEW c \in Calls, Step(c) PROVE LockIsInUse'
  <2>1. CASE TransitionCommit(c) \/ ProposeInsert(c) \/ VoteLook(c) \/ VoteInsert(c)
             \/ VoteUpdate(c) \/ WithdrawVote(c)
    BY <1>1, <2>1 DEF TransitionCommit, ProposeInsert, VoteLook, VoteInsert, VoteUpdate,
                      WithdrawVote, At
  <2>2. CASE AssertNotConflicted(c)
    BY <1>1, <2>2 DEF AssertNotConflicted, Advance, At
  <2>3. CASE FinaliseUpdate(c)
    <3>1. CASE StillProposed(call[c].decision)
      <4> PICK d : d = call[c].decision
        OBVIOUS
      <4> PICK rec : rec = [call[c] EXCEPT !.pc = "case"]
        OBVIOUS
      <4>1. call[c] \in Finalising
        BY <2>3, CallShape DEF FinaliseUpdate
      <4>2. rec.pc = "case" /\ rec.decision = d
        BY <4>1 DEF Finalising
      <4>3. Become(c, rec) /\ lock' = [lock EXCEPT ![d] = c]
        BY <2>3, <3>1 DEF FinaliseUpdate, Advance
      <4>4. \A e \in Decisions : lock[e] # c
        BY <2>3, OutsideHoldsNone DEF FinaliseUpdate, At
      <4>5. \A e \in Decisions : lock'[e] = IF e = d THEN c ELSE lock[e]
        BY <4>3 DEF TypeOK
      <4>6. \A e \in Decisions : lock'[e] # None =>
              \/ lock'[e] = lock[e] /\ lock[e] # c
              \/ lock'[e] = c /\ rec.pc \in {"case", "decide"} /\ rec.decision = e
        BY <4>2, <4>4, <4>5
      <4> QED
        BY <4>3, <4>6, LocksKept
    <3>2. CASE ~StillProposed(call[c].decision)
      BY <1>1, <2>3, <3>2 DEF FinaliseUpdate, At
    <3> QED
      BY <3>1, <3>2
  <2>4. CASE FinaliseReadCase(c)
    <3>1. CASE Rollback(c)
      BY <3>1, UnlockDrops DEF Rollback
    <3>2. CASE ~Rollback(c)
      <4> PICK d : d = call[c].decision
        OBVIOUS
      <4> PICK rec : rec = [pc |-> "decide", decision |-> d, outcome |-> call[c].outcome,
                            from |-> status, version |-> version]
        OBVIOUS
      <4>1. Become(c, rec) /\ UNCHANGED lock
        BY <2>4, <3>2 DEF FinaliseReadCase
      <4>2. \A e \in Decisions : lock[e] = c => e = d
        BY CaseAssumption DEF LockIsInUse
      <4> QED
        BY <4>1, <4>2, LocksKept
    <3> QED
      BY <3>1, <3>2
  <2>5. CASE FinaliseCommit(c)
    BY <2>5, UnlockDrops DEF FinaliseCommit
  <2> QED
    BY <1>3, <2>1, <2>2, <2>3, <2>4, <2>5 DEF Step
<1>4. ASSUME NEW c \in Calls, Crash(c) PROVE LockIsInUse'
  BY <1>4, UnlockDrops DEF Crash
<1>5. CASE UNCHANGED <<lock, call>>
  BY <1>5 DEF LockIsInUse
<1> QED
  BY <1>2, <1>3, <1>4, <1>5 DEF Next, DeclareConflict, ClearConflict, vars

(* No row lock is left behind: whoever waits for a decision's row waits    *)
(* for a finalisation that is still under way (finaliseDecision).          *)
THEOREM NoLockLeft == Spec => []LockIsInUse
<1>1. Init => TypeOK /\ LockIsInUse
  BY TypeInit DEF Init, LockIsInUse
<1> QED
  BY <1>1, TypeNext, LockNext, PTL DEF Spec

(**************************** refinement ***********************************)

(* The abstract module reads the same table.                               *)
LEMMA SameTable ==
  ASSUME NEW a, NEW from
  PROVE  /\ Lifecycle!MayMove(a, from) <=> MayMove(a, from)
         /\ Lifecycle!Target(a) = Target(a)
         /\ Lifecycle!CaseActions = CaseActions
  BY DEF MayMove, Target, CaseActions, Transitions, Active,
         Lifecycle!MayMove, Lifecycle!Target, Lifecycle!CaseActions,
         Lifecycle!Transitions, Lifecycle!Active

LEMMA InitLifecycle == Init => Lifecycle!Init
  BY DEF Init, Lifecycle!Init

LEMMA TransitionMoves ==
  ASSUME IInv, NEW c \in Calls, TransitionCommit(c)
  PROVE  [Lifecycle!Next]_(Lifecycle!vars)
<1> PICK a, from : a = call[c].action /\ from = call[c].from
  OBVIOUS
<1>1. a \in CaseActions /\ MayMove(a, from)
  BY CallShape DEF TransitionCommit, IInv, MoveInv, Moving
<1>2. CASE CaseUnchanged(from, call[c].version)
  <2>1. from = status /\ MoveCase(a, from, None) /\ UNCHANGED result
    BY <1>2 DEF TransitionCommit, CaseUnchanged
  <2>2. Lifecycle!Move(a)
    BY <1>1, <2>1, SameTable DEF MoveCase, Lifecycle!Move, Lifecycle!Enter
  <2> QED
    BY <1>1, <2>2, SameTable DEF Lifecycle!Next
<1>3. CASE ~CaseUnchanged(from, call[c].version)
  BY <1>3 DEF TransitionCommit, case, Lifecycle!vars
<1> QED
  BY <1>2, <1>3

LEMMA InsertProposes ==
  ASSUME IInv, NEW c \in Calls, ProposeInsert(c)
  PROVE  [Lifecycle!Next]_(Lifecycle!vars)
<1> PICK d : d = call[c].decision
  OBVIOUS
<1>1. d \in Decisions
  BY CallShape DEF ProposeInsert, IInv, Proposing
<1>2. CASE result[d] = None
  <2>1. Lifecycle!Propose(d)
    BY <1>2 DEF ProposeInsert, case, Lifecycle!Propose
  <2> QED
    BY <1>1, <2>1 DEF Lifecycle!Next
<1>3. CASE result[d] # None
  BY <1>3 DEF ProposeInsert, case, Lifecycle!vars
<1> QED
  BY <1>2, <1>3

LEMMA CommitDecides ==
  ASSUME IInv, NEW c \in Calls, FinaliseCommit(c)
  PROVE  [Lifecycle!Next]_(Lifecycle!vars)
<1> PICK d, o, from : d = call[c].decision /\ o = call[c].outcome /\ from = call[c].from
  OBVIOUS
<1>1. d \in Decisions /\ o \in Outcomes
  BY CallShape DEF FinaliseCommit, IInv, Deciding
<1>2. result[d] = "proposed" /\ MayMove("record_decision", from)
  BY DEF FinaliseCommit, IInv, LockInv, MoveInv, At, Open
<1>3. CASE CaseUnchanged(from, call[c].version)
  <2>1. /\ from = status
        /\ result' = [result EXCEPT ![d] = o]
        /\ MoveCase("record_decision", from, d)
    BY <1>3 DEF FinaliseCommit, DecideBoth, RecordOutcome, CaseUnchanged
  <2>2. Lifecycle!Decide(d)
    BY <1>1, <1>2, <2>1, SameTable DEF MoveCase, Lifecycle!Decide, Lifecycle!Enter
  <2> QED
    BY <1>1, <2>2 DEF Lifecycle!Next
<1>4. CASE ~CaseUnchanged(from, call[c].version)
  BY <1>4 DEF FinaliseCommit, DecideBoth, case, Lifecycle!vars
<1> QED
  BY <1>3, <1>4

LEMMA StepRefines == IInv /\ [Next]_vars => [Lifecycle!Next]_(Lifecycle!vars)
<1> SUFFICES ASSUME IInv, [Next]_vars PROVE [Lifecycle!Next]_(Lifecycle!vars)
  OBVIOUS
<1>1. ASSUME NEW c \in Calls, Begin(c) \/ Crash(c) PROVE UNCHANGED Lifecycle!vars
  BY <1>1 DEF Begin, Crash, ReadCase, ProposeRead, VoteRead, WithdrawVoteRead, FinaliseRead,
              case, Lifecycle!vars
<1>2. ASSUME NEW c \in Calls, Step(c) PROVE [Lifecycle!Next]_(Lifecycle!vars)
  <2>1. CASE TransitionCommit(c) \/ ProposeInsert(c) \/ FinaliseCommit(c)
    BY <2>1, TransitionMoves, InsertProposes, CommitDecides
  <2>2. CASE ~(TransitionCommit(c) \/ ProposeInsert(c) \/ FinaliseCommit(c))
    BY <1>2, <2>2 DEF Step, AssertNotConflicted, VoteLook, VoteInsert, VoteUpdate,
       WithdrawVote, FinaliseUpdate, FinaliseReadCase, case, Lifecycle!vars
  <2> QED
    BY <2>1, <2>2
<1>3. CASE UNCHANGED <<status, history, result>>
  BY <1>3 DEF Lifecycle!vars
<1> QED
  BY <1>1, <1>2, <1>3 DEF Next, DeclareConflict, ClearConflict, case, vars

(* The handlers implement the case lifecycle: whatever overlaps, loses its *)
(* race or dies, the committed record moves one edge of the table at a     *)
(* time, and a decision becomes final once, in the step that moves the     *)
(* case from committee to decided.                                         *)
THEOREM RecordFollowsLifecycle == Spec => ImplementsLifecycle
<1> QED
  BY InitLifecycle, StepRefines, InductiveInv, PTL
  DEF Spec, ImplementsLifecycle, Lifecycle!Spec
=============================================================================
