--------------------------- MODULE People_proofs ----------------------------
(***************************************************************************)
(* Who holds a case, who belongs to an organisation and what people answer *)
(* by a link, for any number of people, requests, rows and invitations.    *)
(* Each part has its own inductive invariant; the three share no state, so *)
(* the invariant of the whole is their conjunction.                        *)
(***************************************************************************)
EXTENDS MCPeople, TLAPS

-----------------------------------------------------------------------------
(* Who holds a case.                                                       *)

(* While one assignment is at work at a time, what it has seen, and then   *)
(* what it has released, is all there is.                                  *)
SeesAll(c) ==
  /\ At(c, "release") => call[c].seen = Active
  /\ At(c, "insert") => call[c].released = Active

(* What it has seen was written, and rows are never removed.               *)
SeesRows(c) ==
  /\ At(c, "release") => \A q \in call[c].seen : rows[q] # NoRow
  /\ At(c, "insert") => \A q \in call[c].released : rows[q] # NoRow

AssignmentHolds ==
  /\ TypeOK /\ CurrentIsActive /\ overlapped \in BOOLEAN
  /\ \A c \in Calls : SeesRows(c)
  /\ ~overlapped => ~SeveralBusy(call) /\ OneActive /\ \A c \in Calls : SeesAll(c)

\* The record of a request.
LEMMA CallShape ==
  ASSUME TypeOK, NEW c \in Calls
  PROVE  /\ At(c, "idle") <=> call[c] = Idle
         /\ At(c, "release") => call[c] \in Assigning
         /\ At(c, "insert") => call[c] \in Inserting
         /\ call[c].pc \in {"idle", "release", "insert"}
<1>1. call[c] = Idle \/ call[c] \in Assigning \/ call[c] \in Inserting
  BY DEF TypeOK
<1>2. CASE call[c] = Idle
  BY <1>2 DEF Idle, At
<1>3. CASE call[c] \in Assigning
  BY <1>3 DEF Assigning, Idle, At
<1>4. CASE call[c] \in Inserting
  BY <1>4 DEF Inserting, Idle, At
<1> QED BY <1>1, <1>2, <1>3, <1>4

\* A request's new record keeps the types.
LEMMA CallTyped ==
  ASSUME TypeOK, NEW c \in Calls, NEW r \in {Idle} \cup Assigning \cup Inserting,
         call' = [call EXCEPT ![c] = r]
  PROVE  /\ call' \in [Calls -> {Idle} \cup Assigning \cup Inserting]
         /\ call'[c] = r /\ \A d \in Calls : d # c => call'[d] = call[d]
         /\ DOMAIN call = Calls /\ DOMAIN call' = Calls
BY DEF TypeOK

\* Steps of a request that write no row.
LEMMA QuietCall ==
  ASSUME AssignmentHolds, NEW c \in Calls, UNCHANGED <<rows, current>>,
         NEW r \in {Idle} \cup Assigning \cup Inserting,
         call' = [call EXCEPT ![c] = r], overlapped' = (overlapped \/ SeveralBusy(call')),
         ~overlapped => SeesAll(c)', SeesRows(c)'
  PROVE  AssignmentHolds'
<1>1. /\ TypeOK /\ CurrentIsActive /\ Active' = Active /\ overlapped' \in BOOLEAN
  BY DEF AssignmentHolds, Active
<1>2. /\ call' \in [Calls -> {Idle} \cup Assigning \cup Inserting]
      /\ \A d \in Calls : d # c => call'[d] = call[d]
  BY <1>1, CallTyped
<1>3. TypeOK' /\ CurrentIsActive'
  BY <1>1, <1>2 DEF TypeOK, CurrentIsActive
<1>4. ASSUME ~overlapped' PROVE ~SeveralBusy(call') /\ OneActive' /\ \A d \in Calls : SeesAll(d)'
  <2>1. OneActive' /\ ~SeveralBusy(call')
    BY <1>1, <1>4 DEF AssignmentHolds, OneActive
  <2>2. ASSUME NEW d \in Calls, d # c PROVE SeesAll(d)'
    BY <1>1, <1>2, <1>4, <2>2 DEF AssignmentHolds, SeesAll, At
  <2> QED BY <1>4, <2>1, <2>2
<1>5. ASSUME NEW d \in Calls, d # c PROVE SeesRows(d)'
  BY <1>2, <1>5 DEF AssignmentHolds, SeesRows, At
<1> QED BY <1>1, <1>3, <1>4, <1>5 DEF AssignmentHolds, SeveralBusy

\* The commit: the rows it released and the row it inserts appear together.
LEMMA CommitHolds ==
  ASSUME AssignmentHolds, NEW c \in Calls, NEW r \in RowIds, AssignCommit(c, r),
         overlapped' = (overlapped \/ SeveralBusy(call'))
  PROVE  AssignmentHolds'
<1> DEFINE w == call[c].assignee
           row == [assignee |-> w, status |-> "active"]
<1>1. /\ TypeOK /\ At(c, "insert") /\ rows[r] = NoRow
      /\ call' = [call EXCEPT ![c] = Idle] /\ current' = w
      /\ rows' = [q \in RowIds |->
                    IF q = r THEN row
                    ELSE IF q \in call[c].released THEN [rows[q] EXCEPT !.status = "released"]
                    ELSE rows[q]]
  BY DEF AssignmentHolds, AssignCommit, Named
<1>2. call[c] \in Inserting /\ w \in Workers /\ call[c].released \subseteq RowIds
  BY <1>1, CallShape DEF Inserting
<1>3. row \in Row /\ row.assignee = w /\ row.status = "active"
  BY <1>2 DEF Row
<1> HIDE DEF row
<1>4. /\ call' \in [Calls -> {Idle} \cup Assigning \cup Inserting]
      /\ call'[c] = Idle /\ \A d \in Calls : d # c => call'[d] = call[d]
      /\ DOMAIN call = Calls /\ DOMAIN call' = Calls
  BY <1>1, CallTyped
<1>5. rows'[r] = row /\ r \in Active'
  BY <1>1, <1>3 DEF Active
<1>6. CurrentIsActive'
  BY <1>1, <1>3, <1>5 DEF CurrentIsActive
<1>7. \A q \in call[c].released : rows[q] \in Row
  BY <1>1, <1>2 DEF TypeOK, AssignmentHolds, SeesRows
<1>8. ASSUME ~overlapped
      PROVE  /\ call[c].released = Active /\ \A d \in Calls : d # c => call[d] = Idle
  <2>1. SeesAll(c) /\ ~SeveralBusy(call)
    BY <1>8 DEF AssignmentHolds
  <2>2. ASSUME NEW d \in Calls, d # c PROVE call[d] = Idle
    <3>1. call[d].pc = "idle"
      BY <1>1, <1>4, <2>1, <2>2 DEF SeveralBusy, At
    <3> QED BY <1>1, <3>1, CallShape DEF At
  <2> QED BY <1>1, <2>1, <2>2 DEF SeesAll
<1>9. ASSUME ~overlapped' PROVE OneActive' /\ \A d \in Calls : SeesAll(d)'
  <2>1. ~overlapped /\ call[c].released = Active
    BY <1>8, <1>9
  <2>2. \A q \in RowIds : q # r => rows'[q].status # "active"
    <3> SUFFICES ASSUME NEW q \in RowIds, q # r PROVE rows'[q].status # "active"
      OBVIOUS
    <3>1. CASE q \in Active
      <4>1. rows[q] \in Row
        BY <1>2, <1>7, <2>1, <3>1 DEF Active
      <4>2. rows'[q] = [rows[q] EXCEPT !.status = "released"]
        BY <1>1, <2>1, <3>1
      <4> QED BY <4>1, <4>2 DEF Row
    <3>2. CASE q \notin Active
      BY <1>1, <2>1, <3>2 DEF Active
    <3> QED BY <3>1, <3>2
  <2>3. OneActive'
    BY <2>2 DEF OneActive, Active
  <2>4. \A d \in Calls : call'[d] = Idle
    BY <1>4, <1>8, <2>1
  <2> QED BY <2>3, <2>4 DEF SeesAll, At, Idle
<1>10. ASSUME NEW q \in RowIds
       PROVE  rows'[q] \in Row \cup {NoRow} /\ (rows[q] # NoRow => rows'[q] # NoRow)
  <2>0. NoRow \notin Row
    BY DEF NoRow, Row
  <2>1. CASE q = r
    BY <1>3, <1>5, <2>0, <2>1
  <2>2. CASE q # r /\ q \in call[c].released
    <3>1. rows[q] \in Row /\ rows'[q] = [rows[q] EXCEPT !.status = "released"]
      BY <1>1, <1>7, <2>2
    <3>2. rows'[q] \in Row
      BY <3>1 DEF Row
    <3> QED BY <2>0, <3>2
  <2>3. CASE q # r /\ q \notin call[c].released
    BY <1>1, <2>3 DEF TypeOK
  <2> QED BY <2>1, <2>2, <2>3
<1>11. rows' \in [RowIds -> Row \cup {NoRow}]
  BY <1>1, <1>10
<1>12. ASSUME NEW d \in Calls PROVE SeesRows(d)'
  <2>1. CASE d = c
    BY <1>4, <2>1 DEF SeesRows, At, Idle
  <2>2. CASE d # c
    <3>1. call'[d] = call[d] /\ SeesRows(d)
      BY <1>4, <2>2 DEF AssignmentHolds
    <3>2. /\ At(d, "release") => call[d].seen \subseteq RowIds
          /\ At(d, "insert") => call[d].released \subseteq RowIds
      BY <1>1, CallShape DEF Assigning, Inserting
    <3> QED BY <1>10, <3>1, <3>2 DEF SeesRows, At
  <2> QED BY <2>1, <2>2
<1>13. TypeOK' /\ overlapped' \in BOOLEAN
  BY <1>1, <1>2, <1>4, <1>11 DEF TypeOK, AssignmentHolds
<1> QED BY <1>6, <1>9, <1>12, <1>13 DEF AssignmentHolds

\* A step of an assignment.
LEMMA AssignmentStep ==
  ASSUME AssignmentHolds, Next, overlapped' = (overlapped \/ SeveralBusy(call'))
  PROVE  AssignmentHolds'
<1> SUFFICES ASSUME NEW c \in Calls,
                    \/ \E w \in Workers : ReleaseBegin(c, w)
                    \/ ReleaseRows(c)
                    \/ \E r \in RowIds : AssignCommit(c, r)
                    \/ Abort(c)
             PROVE  AssignmentHolds'
  BY DEF Next
<1>0. TypeOK /\ Active \subseteq RowIds
  BY DEF AssignmentHolds, Active
<1>1. ASSUME NEW w \in Workers, ReleaseBegin(c, w) PROVE AssignmentHolds'
  <2> DEFINE r == [pc |-> "release", assignee |-> w, seen |-> Active]
  <2>1. r \in Assigning /\ r.seen = Active /\ r.pc = "release"
    BY <1>0 DEF Assigning
  <2>2. call' = [call EXCEPT ![c] = r] /\ UNCHANGED <<rows, current>>
    BY <1>1 DEF ReleaseBegin
  <2> HIDE DEF r
  <2>3. call'[c] = r /\ Active' = Active
    BY <1>0, <2>1, <2>2, CallTyped DEF Active
  <2>4. SeesAll(c)' /\ SeesRows(c)'
    BY <2>1, <2>2, <2>3 DEF SeesAll, SeesRows, At, Active, NoRow
  <2> QED BY <2>1, <2>2, <2>4, QuietCall
<1>2. CASE ReleaseRows(c)
  <2> DEFINE r == [pc |-> "insert", assignee |-> call[c].assignee, released |-> ReleasedBy(c)]
  <2>0. call[c] \in Assigning /\ At(c, "release")
    BY <1>0, <1>2, CallShape DEF ReleaseRows
  <2>1. r \in Inserting /\ r.released = call[c].seen \cap Active /\ r.pc = "insert"
    BY <1>0, <2>0 DEF Assigning, Inserting, ReleasedBy
  <2>2. call' = [call EXCEPT ![c] = r] /\ UNCHANGED <<rows, current>>
    BY <1>2 DEF ReleaseRows
  <2> HIDE DEF r
  <2>3. call'[c] = r /\ Active' = Active
    BY <1>0, <2>1, <2>2, CallTyped DEF Active
  <2>4. SeesRows(c)' /\ (~overlapped => SeesAll(c)')
    BY <2>0, <2>1, <2>2, <2>3 DEF AssignmentHolds, SeesAll, SeesRows, At, Active, NoRow
  <2> QED BY <2>1, <2>2, <2>4, QuietCall
<1>3. CASE Abort(c)
  <2>1. call' = [call EXCEPT ![c] = Idle] /\ UNCHANGED <<rows, current>>
    BY <1>3 DEF Abort
  <2>2. call'[c] = Idle
    BY <1>0, <2>1, CallTyped
  <2>3. SeesAll(c)' /\ SeesRows(c)'
    BY <2>2 DEF SeesAll, SeesRows, At, Idle
  <2> QED BY <2>1, <2>3, QuietCall
<1> QED BY <1>1, <1>2, <1>3, CommitHolds

\* Nothing holds the case and nobody is at work.
LEMMA AssignmentStart == Init /\ overlapped = FALSE => AssignmentHolds
<1> SUFFICES ASSUME Init, overlapped = FALSE PROVE AssignmentHolds
  OBVIOUS
<1>1. TypeOK
  BY DEF Init, TypeOK
<1>2. /\ \A c \in Calls : call[c].pc = "idle"
      /\ DOMAIN call = Calls /\ Active = {} /\ current = None
  BY DEF Init, Idle, Active, NoRow
<1> QED BY <1>1, <1>2 DEF AssignmentHolds, CurrentIsActive, SeveralBusy, OneActive, SeesAll, SeesRows, At

\* Steps of the other parts.
LEMMA AssignmentRests == AssignmentHolds /\ UNCHANGED <<vars, overlapped>> => AssignmentHolds'
<1> SUFFICES ASSUME AssignmentHolds, UNCHANGED <<rows, current, call, overlapped>>
             PROVE  AssignmentHolds'
  BY DEF vars
<1>1. TypeOK' /\ CurrentIsActive' /\ Active' = Active
  BY DEF AssignmentHolds, TypeOK, CurrentIsActive, Active
<1>2. \A c \in Calls : SeesRows(c)' /\ (~overlapped => SeesAll(c)')
  BY <1>1 DEF AssignmentHolds, SeesRows, SeesAll, At
<1> QED BY <1>1, <1>2 DEF AssignmentHolds, SeveralBusy, OneActive

-----------------------------------------------------------------------------
(* Forms answered by a link.                                               *)

(* The case a file or a response is put on is the form's own, or none when *)
(* that was deleted first.                                                 *)
OnFormsCase(on) == on = form.for \/ (on = None /\ form.for \in gone)

(* Until an invitation is answered its file stays where it was uploaded    *)
(* to; a response that names a file has one.                               *)
FileHolds(i) ==
  /\ file[i].state = "none" => file[i].on = None
  /\ answer[i].count = 0 /\ file[i].state # "none" => OnFormsCase(file[i].on)
  /\ answer[i].names => file[i].state # "none"

(* A submission that names a file was checked against it: the case read    *)
(* since is the file's, unless that has been deleted.                      *)
HandlerHolds(r) ==
  LET h == handler[r] IN
  /\ h.pc = "insert file" => OnFormsCase(h.on)
  /\ h.pc \in {"read case", "claim"} => (h.names => file[h.of].state # "none")
  /\ h.pc = "claim" => (h.names /\ answer[h.of].count = 0 /\ file[h.of].on \notin gone
                          => file[h.of].on = h.on)
  /\ h.pc = "link" => answer[h.of].count > 0

FormsHold ==
  /\ Public!TypeOK /\ Public!AnsweredOnce /\ Public!FileFollows
  /\ \A i \in Invitations : FileHolds(i)
  /\ \A r \in Requests : HandlerHolds(r)

\* The record of a handler.
LEMMA HandlerShape ==
  ASSUME Public!TypeOK, NEW r \in Requests, handler[r].pc # "idle"
  PROVE  /\ handler[r] \in Public!Handling /\ handler[r].of \in Invitations
         /\ handler[r].pc \in {"insert file", "claim"} => handler[r].on \in Matters \cup {None}
         /\ handler[r].pc \in {"read case", "claim"} => handler[r].names \in BOOLEAN
         /\ handler[r].pc = "link" => handler[r].on \in Matters
<1>1. handler[r] \in Public!Handling
  BY DEF Public!TypeOK, Public!Idle
<1> QED BY <1>1 DEF Public!Handling, Public!PublicSteps, Public!MaybeMatter

\* A handler's new record.
LEMMA HandlerTyped ==
  ASSUME Public!TypeOK, NEW r \in Requests, NEW next \in {Public!Idle} \cup Public!Handling,
         Public!Goto(r, next)
  PROVE  /\ handler' \in [Requests -> {Public!Idle} \cup Public!Handling]
         /\ handler'[r] = next /\ \A q \in Requests : q # r => handler'[q] = handler[q]
BY DEF Public!TypeOK, Public!Goto

\* The rows of an invitation.
LEMMA RowShape ==
  ASSUME Public!TypeOK, NEW i \in Invitations
  PROVE  /\ link[i].state \in {"none", "pending", "opened", "completed", "revoked"}
         /\ link[i].expired \in BOOLEAN /\ link[i].draft \in BOOLEAN
         /\ file[i].state \in {"none", "pending", "submittable", "deleted"}
         /\ file[i].on \in Matters \cup {None}
         /\ answer[i].count \in Nat /\ answer[i].names \in BOOLEAN
         /\ answer[i].on \in Matters \cup {None}
         /\ gone \subseteq Matters /\ form.for \in Matters \cup {None}
BY DEF Public!TypeOK, Public!MaybeMatter

\* What holds of a handler outlives the steps of others.
LEMMA OtherHandler ==
  ASSUME FormsHold, NEW r \in Requests, handler'[r] = handler[r], form'.for = form.for,
         gone \subseteq gone', 
         \A i \in Invitations :
           /\ answer[i].count > 0 => answer'[i].count > 0
           /\ answer'[i].count = 0 => answer[i].count = 0
           /\ file[i].state # "none" =>
                file'[i].state # "none" /\ (answer'[i].count = 0 => file'[i].on = file[i].on)
  PROVE  HandlerHolds(r)'
<1>1. Public!TypeOK /\ HandlerHolds(r)
  BY DEF FormsHold
<1>2. CASE handler[r].pc = "idle"
  BY <1>2 DEF HandlerHolds
<1>3. CASE handler[r].pc # "idle"
  <2>1. handler[r].of \in Invitations
    BY <1>1, <1>3, HandlerShape
  <2> QED BY <1>1, <2>1 DEF HandlerHolds, OnFormsCase
<1> QED BY <1>2, <1>3

\* Steps that touch invitations and handlers only.
LEMMA FormsQuiet ==
  ASSUME FormsHold, UNCHANGED <<file, answer, gone>>, form'.for = form.for,
         Public!TypeOK', Public!AnsweredOnce',
         \A r \in Requests : handler'[r] # handler[r] => HandlerHolds(r)'
  PROVE  FormsHold'
<1>1. ASSUME NEW r \in Requests PROVE HandlerHolds(r)'
  BY <1>1, OtherHandler
<1>2. Public!FileFollows' /\ \A i \in Invitations : FileHolds(i)'
  BY DEF FormsHold, Public!FileFollows, FileHolds, OnFormsCase
<1> QED BY <1>1, <1>2 DEF FormsHold

\* An invitation that is neither completed before nor after.
LEMMA LinkTyped ==
  ASSUME Public!TypeOK, Public!AnsweredOnce, UNCHANGED answer, NEW i \in Invitations,
         NEW new \in [state : {"pending", "opened", "revoked"}, expired : BOOLEAN, draft : BOOLEAN],
         link[i].state # "completed", link' = [link EXCEPT ![i] = new]
  PROVE  /\ Public!AnsweredOnce'
         /\ link' \in [Invitations -> [state : {"none", "pending", "opened", "completed", "revoked"},
                                       expired : BOOLEAN, draft : BOOLEAN]]
<1>1. /\ link' \in [Invitations -> [state : {"none", "pending", "opened", "completed", "revoked"},
                                    expired : BOOLEAN, draft : BOOLEAN]]
      /\ link'[i] = new /\ new.state # "completed" /\ \A k \in Invitations : k # i => link'[k] = link[k]
  BY DEF Public!TypeOK
<1> QED BY <1>1 DEF Public!AnsweredOnce

\* Staff and time change the status of the form or of an invitation.
LEMMA FormsStaff ==
  ASSUME FormsHold,
         \/ \E status \in {"published", "closed"} : Public!SetFormStatus(status)
         \/ \E i \in Invitations :
              Public!CreateInvitation(i) \/ Public!RevokeInvitation(i) \/ Public!Expire(i)
  PROVE  FormsHold'
<1>0. Public!TypeOK /\ Public!AnsweredOnce
  BY DEF FormsHold
<1>1. ASSUME NEW status \in {"published", "closed"}, Public!SetFormStatus(status)
      PROVE  FormsHold'
  <2>1. /\ form' = [form EXCEPT !.status = status]
        /\ UNCHANGED link /\ UNCHANGED file /\ UNCHANGED answer /\ UNCHANGED gone
        /\ UNCHANGED handler
    BY <1>1 DEF Public!SetFormStatus
  <2>2. form' \in [status : {"draft", "published", "closed"}, for : Matters \cup {None}]
        /\ form'.for = form.for
    BY <1>0, <2>1 DEF Public!TypeOK, Public!MaybeMatter
  <2>3. Public!TypeOK' /\ Public!AnsweredOnce'
    BY <1>0, <2>1, <2>2 DEF Public!TypeOK, Public!AnsweredOnce, Public!MaybeMatter
  <2> QED BY <2>1, <2>2, <2>3, FormsQuiet
<1>2. ASSUME NEW i \in Invitations,
             Public!CreateInvitation(i) \/ Public!RevokeInvitation(i) \/ Public!Expire(i)
      PROVE  FormsHold'
  <2>1. /\ UNCHANGED form /\ UNCHANGED file /\ UNCHANGED answer /\ UNCHANGED gone
        /\ UNCHANGED handler /\ link[i].state # "completed"
    BY <1>2 DEF Public!CreateInvitation, Public!RevokeInvitation, Public!Expire, Public!Live
  <2>2. link[i] \in [state : {"none", "pending", "opened", "completed", "revoked"},
                     expired : BOOLEAN, draft : BOOLEAN]
    BY <1>0 DEF Public!TypeOK
  <2>3. PICK new \in [state : {"pending", "opened", "revoked"}, expired : BOOLEAN, draft : BOOLEAN] :
          link' = [link EXCEPT ![i] = new]
    <3>1. CASE Public!CreateInvitation(i)
      <4>1. [link[i] EXCEPT !.state = "pending"] \in
              [state : {"pending", "opened", "revoked"}, expired : BOOLEAN, draft : BOOLEAN]
        BY <2>2
      <4> QED BY <3>1, <4>1 DEF Public!CreateInvitation
    <3>2. CASE Public!RevokeInvitation(i)
      <4>1. [link[i] EXCEPT !.state = "revoked"] \in
              [state : {"pending", "opened", "revoked"}, expired : BOOLEAN, draft : BOOLEAN]
        BY <2>2
      <4> QED BY <3>2, <4>1 DEF Public!RevokeInvitation
    <3>3. CASE Public!Expire(i)
      <4>1. [link[i] EXCEPT !.expired = TRUE] \in
              [state : {"pending", "opened", "revoked"}, expired : BOOLEAN, draft : BOOLEAN]
        BY <2>2, <3>3 DEF Public!Expire, Public!Live
      <4> QED BY <3>3, <4>1 DEF Public!Expire
    <3> QED BY <1>2, <3>1, <3>2, <3>3
  <2>4. Public!AnsweredOnce'
        /\ link' \in [Invitations -> [state : {"none", "pending", "opened", "completed", "revoked"},
                                       expired : BOOLEAN, draft : BOOLEAN]]
    BY <1>0, <2>1, <2>3, LinkTyped
  <2>5. Public!TypeOK'
    BY <1>0, <2>1, <2>4 DEF Public!TypeOK, Public!MaybeMatter
  <2> QED BY <2>1, <2>4, <2>5, FormsQuiet
<1> QED BY <1>1, <1>2

\* Steps of a handler that read, or write no more than its invitation.
LEMMA FormsRead ==
  ASSUME FormsHold, NEW r \in Requests,
         \/ \E i \in Invitations :
              \/ \E step \in Public!PublicSteps : Public!Resolve(r, i, step)
              \/ \E m \in Matters : Public!LinkCheck(r, i, m)
         \/ Public!UploadReadCase(r) \/ Public!SubmitReadCase(r)
         \/ \E names \in BOOLEAN : Public!SubmitCheck(r, names)
  PROVE  FormsHold'
<1>0. Public!TypeOK /\ Public!AnsweredOnce /\ HandlerHolds(r)
  BY DEF FormsHold
<1>1. /\ UNCHANGED form /\ UNCHANGED link /\ UNCHANGED file /\ UNCHANGED answer /\ UNCHANGED gone
  BY DEF Public!Resolve, Public!LinkCheck, Public!UploadReadCase, Public!SubmitReadCase,
         Public!SubmitCheck
<1>2. ASSUME NEW next \in Public!Handling, Public!Goto(r, next),
             /\ next.pc = "insert file" => OnFormsCase(next.on)
             /\ next.pc \in {"read case", "claim"} => (next.names => file[next.of].state # "none")
             /\ next.pc = "claim" => (next.names /\ answer[next.of].count = 0
                                      /\ file[next.of].on \notin gone
                                        => file[next.of].on = next.on)
             /\ next.pc = "link" => answer[next.of].count > 0
      PROVE  FormsHold'
  <2>1. /\ handler' \in [Requests -> {Public!Idle} \cup Public!Handling]
        /\ handler'[r] = next /\ \A q \in Requests : q # r => handler'[q] = handler[q]
    BY <1>0, <1>2, HandlerTyped
  <2>2. Public!TypeOK' /\ Public!AnsweredOnce'
    BY <1>0, <1>1, <2>1 DEF Public!TypeOK, Public!AnsweredOnce, Public!MaybeMatter
  <2>3. HandlerHolds(r)'
    BY <1>1, <1>2, <2>1 DEF HandlerHolds, OnFormsCase
  <2> QED BY <1>1, <2>1, <2>2, <2>3, FormsQuiet
<1>3. ASSUME NEW i \in Invitations, NEW step \in Public!PublicSteps, Public!Resolve(r, i, step)
      PROVE  FormsHold'
  <2> DEFINE next == [pc |-> step, of |-> i]
  <2>1. next \in Public!Handling /\ next.pc = step
    BY DEF Public!Handling
  <2>2. Public!Goto(r, next) /\ next.pc \notin {"insert file", "read case", "claim", "link"}
    BY <1>3, <2>1 DEF Public!Resolve, Public!PublicSteps
  <2> HIDE DEF next
  <2> QED BY <1>2, <2>1, <2>2
<1>4. ASSUME NEW i \in Invitations, NEW m \in Matters, Public!LinkCheck(r, i, m)
      PROVE  FormsHold'
  <2> DEFINE next == [pc |-> "link", of |-> i, on |-> m]
  <2>1. next \in Public!Handling /\ next.pc = "link" /\ next.of = i
    BY DEF Public!Handling
  <2>2. Public!Goto(r, next) /\ answer[i].count > 0
    BY <1>4 DEF Public!LinkCheck
  <2> HIDE DEF next
  <2> QED BY <1>2, <2>1, <2>2
<1>5. CASE Public!UploadReadCase(r)
  <2> DEFINE next == [pc |-> "insert file", of |-> handler[r].of, on |-> Public!FormCase]
  <2>1. handler[r].of \in Invitations /\ Public!FormCase \in Matters \cup {None}
    BY <1>0, <1>5, HandlerShape DEF Public!UploadReadCase, Public!At, Public!FormCase,
                                    Public!TypeOK, Public!MaybeMatter
  <2>2. next \in Public!Handling /\ next.pc = "insert file" /\ next.on = Public!FormCase
    BY <2>1 DEF Public!Handling, Public!MaybeMatter
  <2>3. Public!Goto(r, next) /\ OnFormsCase(Public!FormCase)
    BY <1>5 DEF Public!UploadReadCase, OnFormsCase, Public!FormCase
  <2> HIDE DEF next
  <2> QED BY <1>2, <2>2, <2>3
<1>6. CASE Public!SubmitReadCase(r)
  <2> DEFINE h == handler[r]
             next == [pc |-> "claim", of |-> h.of, names |-> h.names, on |-> Public!FormCase]
  <2>1. h.pc = "read case" /\ h.of \in Invitations /\ h.names \in BOOLEAN
    BY <1>0, <1>6, HandlerShape DEF Public!SubmitReadCase, Public!At
  <2>2. Public!FormCase \in Matters \cup {None}
    BY <1>0 DEF Public!FormCase, Public!TypeOK, Public!MaybeMatter
  <2>3. /\ next \in Public!Handling /\ next.pc = "claim" /\ next.of = h.of
        /\ next.on = Public!FormCase /\ next.names = h.names
    BY <2>1, <2>2 DEF Public!Handling, Public!MaybeMatter
  <2>4. Public!Goto(r, next)
    BY <1>6 DEF Public!SubmitReadCase
  <2>5. h.names => file[h.of].state # "none"
    BY <1>0, <2>1 DEF HandlerHolds
  <2>6. ASSUME h.names, answer[h.of].count = 0, file[h.of].on \notin gone
        PROVE  file[h.of].on = Public!FormCase
    <3>1. OnFormsCase(file[h.of].on)
      BY <2>1, <2>5, <2>6 DEF FormsHold, FileHolds
    <3> QED BY <2>6, <3>1 DEF OnFormsCase, Public!FormCase
  <2> HIDE DEF next
  <2> QED BY <1>2, <2>3, <2>4, <2>5, <2>6
<1>7. ASSUME NEW names \in BOOLEAN, Public!SubmitCheck(r, names)
      PROVE  FormsHold'
  <2> DEFINE next == [pc |-> "read case", of |-> handler[r].of, names |-> names]
  <2>1. handler[r].of \in Invitations
    BY <1>0, <1>7, HandlerShape DEF Public!SubmitCheck, Public!At
  <2>2. next \in Public!Handling /\ next.pc = "read case" /\ next.of = handler[r].of /\ next.names = names
    BY <2>1 DEF Public!Handling
  <2>3. Public!Goto(r, next) /\ (names => file[handler[r].of].state # "none")
    BY <1>7 DEF Public!SubmitCheck
  <2> HIDE DEF next
  <2> QED BY <1>2, <2>2, <2>3
<1> QED BY <1>3, <1>4, <1>5, <1>6, <1>7

\* A handler that ends.
LEMMA HandlerDone ==
  ASSUME Public!TypeOK, NEW r \in Requests, Public!Goto(r, Public!Idle)
  PROVE  /\ handler' \in [Requests -> {Public!Idle} \cup Public!Handling]
         /\ \A q \in Requests : q # r => handler'[q] = handler[q]
         /\ handler'[r] = Public!Idle /\ HandlerHolds(r)'
<1>1. /\ handler' \in [Requests -> {Public!Idle} \cup Public!Handling]
      /\ handler'[r] = Public!Idle /\ \A q \in Requests : q # r => handler'[q] = handler[q]
  BY HandlerTyped
<1> QED BY <1>1 DEF HandlerHolds, Public!Idle

\* The link is marked opened, or a draft is saved: of a live invitation.
LEMMA FormsLink ==
  ASSUME FormsHold, NEW r \in Requests, Public!MarkOpened(r) \/ Public!SaveDraft(r)
  PROVE  FormsHold'
<1> DEFINE i == handler[r].of
<1>0. Public!TypeOK /\ Public!AnsweredOnce
  BY DEF FormsHold
<1>1. /\ UNCHANGED form /\ UNCHANGED file /\ UNCHANGED answer /\ UNCHANGED gone
      /\ Public!Goto(r, Public!Idle) /\ handler[r].pc # "idle"
  BY DEF Public!MarkOpened, Public!SaveDraft, Public!At
<1>2. /\ handler' \in [Requests -> {Public!Idle} \cup Public!Handling]
      /\ \A q \in Requests : q # r => handler'[q] = handler[q]
      /\ HandlerHolds(r)'
  BY <1>0, <1>1, HandlerDone
<1>3. i \in Invitations
  BY <1>0, <1>1, HandlerShape
<1>4. link[i] \in [state : {"none", "pending", "opened", "completed", "revoked"},
                   expired : BOOLEAN, draft : BOOLEAN]
  BY <1>0, <1>3 DEF Public!TypeOK
<1>5. CASE link' = link
  <2>1. Public!TypeOK' /\ Public!AnsweredOnce'
    BY <1>0, <1>1, <1>2, <1>5 DEF Public!TypeOK, Public!AnsweredOnce, Public!MaybeMatter
  <2> QED BY <1>1, <1>2, <2>1, FormsQuiet
<1>6. CASE link' # link
  <2>1. PICK new \in [state : {"pending", "opened", "revoked"}, expired : BOOLEAN, draft : BOOLEAN] :
          link' = [link EXCEPT ![i] = new] /\ link[i].state # "completed"
    <3>1. CASE Public!MarkOpened(r)
      <4>1. [link[i] EXCEPT !.state = "opened"] \in
              [state : {"pending", "opened", "revoked"}, expired : BOOLEAN, draft : BOOLEAN]
        BY <1>4
      <4> QED BY <1>6, <3>1, <4>1 DEF Public!MarkOpened
    <3>2. CASE Public!SaveDraft(r)
      <4>1. Public!Live(i) /\ link' = [link EXCEPT ![i].draft = TRUE]
        BY <1>6, <3>2 DEF Public!SaveDraft, Public!DraftWrite
      <4>2. [link[i] EXCEPT !.draft = TRUE] \in
              [state : {"pending", "opened", "revoked"}, expired : BOOLEAN, draft : BOOLEAN]
        BY <1>4, <4>1 DEF Public!Live
      <4> QED BY <4>1, <4>2 DEF Public!Live
    <3> QED BY <3>1, <3>2
  <2>2. /\ Public!AnsweredOnce'
        /\ link' \in [Invitations -> [state : {"none", "pending", "opened", "completed", "revoked"},
                                       expired : BOOLEAN, draft : BOOLEAN]]
    BY <1>0, <1>1, <1>3, <2>1, LinkTyped
  <2>3. Public!TypeOK'
    BY <1>0, <1>1, <1>2, <2>2 DEF Public!TypeOK, Public!MaybeMatter
  <2> QED BY <1>1, <1>2, <2>2, <2>3, FormsQuiet
<1> QED BY <1>5, <1>6

\* A case is deleted with the files on it; a file is uploaded or confirmed.
\* The file of an invitation that has not been answered stays where it is.
LEMMA FormsFile ==
  ASSUME FormsHold, UNCHANGED <<form, link, answer>>, gone \subseteq gone', gone' \subseteq Matters,
         handler' \in [Requests -> {Public!Idle} \cup Public!Handling],
         \A r \in Requests : handler'[r] # handler[r] => HandlerHolds(r)',
         DOMAIN file' = Invitations,
         \A i \in Invitations :
           \/ file'[i] = file[i]
           \/ /\ file[i].state # "none"
              /\ \E s \in {"pending", "submittable", "deleted"} :
                   file'[i] = [file[i] EXCEPT !.state = s] /\ (file[i].state = "deleted" => s = "deleted")
           \/ /\ file[i].state = "none"
              /\ \E on \in Matters \cup {None} :
                   file'[i] = [state |-> "pending", on |-> on] /\ OnFormsCase(on),
         file' = [i \in Invitations |-> file'[i]]
  PROVE  FormsHold'
<1>0. Public!TypeOK /\ Public!AnsweredOnce
  BY DEF FormsHold
<1>1. \A i \in Invitations :
        /\ file'[i] \in [state : {"none", "pending", "submittable", "deleted"}, on : Matters \cup {None}]
        /\ file[i].state # "none" => file'[i].state # "none" /\ file'[i].on = file[i].on
        /\ file[i].state = "deleted" => file'[i].state = "deleted"
        /\ file[i].state = "none" /\ file'[i] # file[i]
             => file'[i].state = "pending" /\ OnFormsCase(file'[i].on)
  <2> SUFFICES ASSUME NEW i \in Invitations
               PROVE  /\ file'[i] \in [state : {"none", "pending", "submittable", "deleted"},
                                       on : Matters \cup {None}]
                      /\ file[i].state # "none" => file'[i].state # "none" /\ file'[i].on = file[i].on
                      /\ file[i].state = "deleted" => file'[i].state = "deleted"
                      /\ file[i].state = "none" /\ file'[i] # file[i]
                           => file'[i].state = "pending" /\ OnFormsCase(file'[i].on)
    OBVIOUS
  <2>1. file[i] \in [state : {"none", "pending", "submittable", "deleted"}, on : Matters \cup {None}]
    BY <1>0 DEF Public!TypeOK, Public!MaybeMatter
  <2>2. CASE file'[i] = file[i]
    BY <2>1, <2>2
  <2>3. ASSUME NEW s \in {"pending", "submittable", "deleted"}, file[i].state # "none",
               file'[i] = [file[i] EXCEPT !.state = s], file[i].state = "deleted" => s = "deleted"
        PROVE  /\ file'[i] \in [state : {"none", "pending", "submittable", "deleted"},
                                on : Matters \cup {None}]
               /\ file'[i].state # "none" /\ file'[i].on = file[i].on
               /\ file[i].state = "deleted" => file'[i].state = "deleted"
    BY <2>1, <2>3
  <2>4. ASSUME NEW on \in Matters \cup {None}, file[i].state = "none",
               file'[i] = [state |-> "pending", on |-> on], OnFormsCase(on)
        PROVE  /\ file'[i] \in [state : {"none", "pending", "submittable", "deleted"},
                                on : Matters \cup {None}]
               /\ file'[i].state = "pending" /\ OnFormsCase(file'[i].on)
    BY <2>4
  <2> QED BY <2>2, <2>3, <2>4
<1>2. file' \in [Invitations -> [state : {"none", "pending", "submittable", "deleted"},
                                 on : Matters \cup {None}]]
  BY <1>1
<1>3. Public!TypeOK' /\ Public!AnsweredOnce'
  BY <1>0, <1>2 DEF Public!TypeOK, Public!AnsweredOnce, Public!MaybeMatter
<1>4. ASSUME NEW i \in Invitations PROVE FileHolds(i)'
  <2>1. FileHolds(i)
    BY DEF FormsHold
  <2> QED BY <1>1, <2>1 DEF FileHolds, OnFormsCase
<1>5. Public!FileFollows'
  <2> SUFFICES ASSUME NEW i \in Invitations, answer[i].names, file'[i].on \notin gone',
                      file'[i].state # "deleted"
               PROVE  file'[i].on = answer[i].on
    BY DEF Public!FileFollows
  <2>1. file[i].state # "none"
    BY DEF FormsHold, FileHolds
  <2> QED BY <1>1, <2>1 DEF FormsHold, Public!FileFollows
<1>6. ASSUME NEW r \in Requests PROVE HandlerHolds(r)'
  BY <1>1, OtherHandler
<1> QED BY <1>3, <1>4, <1>5, <1>6 DEF FormsHold

\* The actions on files.
LEMMA FormsFiles ==
  ASSUME FormsHold,
         \/ \E m \in Matters : Public!DeleteCase(m)
         \/ \E i \in Invitations : Public!DisposeFile(i)
         \/ \E r \in Requests : Public!UploadInsert(r) \/ Public!ConfirmUpload(r)
  PROVE  FormsHold'
<1>0. Public!TypeOK /\ file \in [Invitations -> [state : {"none", "pending", "submittable", "deleted"},
                                                 on : Matters \cup {None}]]
  BY DEF FormsHold, Public!TypeOK, Public!MaybeMatter
<1>1. ASSUME NEW m \in Matters, Public!DeleteCase(m) PROVE FormsHold'
  <2>1. /\ UNCHANGED form /\ UNCHANGED link /\ UNCHANGED answer /\ UNCHANGED handler
        /\ gone' = gone \cup {m}
        /\ file' = [i \in Invitations |->
                      IF file[i].on = m THEN [file[i] EXCEPT !.state = "deleted"] ELSE file[i]]
    BY <1>1 DEF Public!DeleteCase
  <2>2. \A i \in Invitations : file[i].on = m => file[i].state # "none"
    BY NoneAssumption DEF FormsHold, FileHolds
  <2>3. /\ handler' \in [Requests -> {Public!Idle} \cup Public!Handling]
        /\ gone \subseteq gone' /\ gone' \subseteq Matters
        /\ DOMAIN file' = Invitations /\ file' = [i \in Invitations |-> file'[i]]
    BY <1>0, <2>1 DEF Public!TypeOK
  <2>4. \A i \in Invitations :
          \/ file'[i] = file[i]
          \/ /\ file[i].state # "none"
             /\ \E s \in {"pending", "submittable", "deleted"} :
                  file'[i] = [file[i] EXCEPT !.state = s] /\ (file[i].state = "deleted" => s = "deleted")
    BY <2>1, <2>2
  <2> QED BY <2>1, <2>3, <2>4, FormsFile
<1>3. ASSUME NEW k \in Invitations, Public!DisposeFile(k) PROVE FormsHold'
  <2>1. /\ UNCHANGED form /\ UNCHANGED link /\ UNCHANGED answer /\ UNCHANGED handler /\ UNCHANGED gone
        /\ file[k].state \notin {"none", "deleted"} /\ file' = [file EXCEPT ![k].state = "deleted"]
    BY <1>3 DEF Public!DisposeFile
  <2>2. /\ handler' \in [Requests -> {Public!Idle} \cup Public!Handling]
        /\ gone \subseteq gone' /\ gone' \subseteq Matters
        /\ DOMAIN file' = Invitations /\ file' = [i \in Invitations |-> file'[i]]
    BY <1>0, <2>1 DEF Public!TypeOK
  <2>3. \A i \in Invitations :
          \/ file'[i] = file[i]
          \/ /\ file[i].state # "none"
             /\ \E s \in {"pending", "submittable", "deleted"} :
                  file'[i] = [file[i] EXCEPT !.state = s] /\ (file[i].state = "deleted" => s = "deleted")
    BY <1>0, <2>1
  <2> QED BY <2>1, <2>2, <2>3, FormsFile
<1>2. ASSUME NEW r \in Requests, Public!UploadInsert(r) \/ Public!ConfirmUpload(r) PROVE FormsHold'
  <2> DEFINE k == handler[r].of
  <2>1. /\ UNCHANGED form /\ UNCHANGED link /\ UNCHANGED answer /\ UNCHANGED gone
        /\ Public!Goto(r, Public!Idle) /\ handler[r].pc # "idle"
    BY <1>2 DEF Public!UploadInsert, Public!ConfirmUpload, Public!At
  <2>2. /\ handler' \in [Requests -> {Public!Idle} \cup Public!Handling]
        /\ \A q \in Requests : q # r => handler'[q] = handler[q]
        /\ HandlerHolds(r)' /\ k \in Invitations
    BY <1>0, <2>1, HandlerDone, HandlerShape
  <2>3. CASE file' = file
    <3>1. DOMAIN file' = Invitations /\ file' = [i \in Invitations |-> file'[i]] /\ gone \subseteq Matters
      BY <1>0, <2>3 DEF Public!TypeOK
    <3>2. \A i \in Invitations : file'[i] = file[i]
      BY <2>3
    <3> QED BY <2>1, <2>2, <3>1, <3>2, FormsFile
  <2>4. CASE Public!ConfirmUpload(r) /\ file' # file
    <3>1. file[k].state = "pending" /\ file' = [file EXCEPT ![k].state = "submittable"]
      BY <2>4 DEF Public!ConfirmUpload
    <3>2. DOMAIN file' = Invitations /\ file' = [i \in Invitations |-> file'[i]] /\ gone \subseteq Matters
      BY <1>0, <3>1 DEF Public!TypeOK
    <3>3. \A i \in Invitations :
            \/ file'[i] = file[i]
            \/ /\ file[i].state # "none"
               /\ \E s \in {"pending", "submittable", "deleted"} :
                    file'[i] = [file[i] EXCEPT !.state = s] /\ (file[i].state = "deleted" => s = "deleted")
      BY <1>0, <3>1
    <3> QED BY <2>1, <2>2, <3>2, <3>3, FormsFile
  <2>5. CASE Public!UploadInsert(r) /\ file' # file
    <3>1. /\ file[k] = Public!NoFile /\ handler[r].pc = "insert file"
          /\ file' = [file EXCEPT ![k] = [state |-> "pending", on |-> handler[r].on]]
      BY <2>5 DEF Public!UploadInsert, Public!At
    <3>2. file[k].state = "none" /\ handler[r].on \in Matters \cup {None} /\ OnFormsCase(handler[r].on)
      <4>1. file[k].state = "none"
        <5>1. file[k] = [state |-> "none", on |-> None]
          BY <3>1 DEF Public!NoFile
        <5> QED BY <5>1
      <4>2. handler[r].on \in Matters \cup {None}
        BY <1>0, <3>1, HandlerShape
      <4>3. HandlerHolds(r)
        BY DEF FormsHold
      <4> QED BY <3>1, <4>1, <4>2, <4>3 DEF HandlerHolds
    <3>3. DOMAIN file' = Invitations /\ file' = [i \in Invitations |-> file'[i]] /\ gone \subseteq Matters
      BY <1>0, <3>1 DEF Public!TypeOK
    <3>4. \A i \in Invitations :
            \/ file'[i] = file[i]
            \/ /\ file[i].state = "none"
               /\ \E on \in Matters \cup {None} :
                    file'[i] = [state |-> "pending", on |-> on] /\ OnFormsCase(on)
      BY <1>0, <3>1, <3>2
    <3> QED BY <2>1, <2>2, <3>3, <3>4, FormsFile
  <2> QED BY <1>2, <2>3, <2>4, <2>5
<1> QED BY <1>1, <1>2, <1>3

\* The token is claimed and the response inserted.
LEMMA FormsSubmitted ==
  ASSUME FormsHold, NEW r \in Requests, Public!SubmitClaim(r)
  PROVE  FormsHold'
<1>0. Public!TypeOK /\ Public!AnsweredOnce
  BY DEF FormsHold
<1>1. /\ UNCHANGED form /\ UNCHANGED file /\ UNCHANGED gone
      /\ Public!Goto(r, Public!Idle) /\ handler[r].pc = "claim"
  BY DEF Public!SubmitClaim, Public!At
<1> DEFINE h == handler[r]
           i == h.of
<1>2. /\ i \in Invitations /\ h.on \in Matters \cup {None} /\ h.names \in BOOLEAN
      /\ handler' \in [Requests -> {Public!Idle} \cup Public!Handling]
      /\ \A q \in Requests : q # r => handler'[q] = handler[q]
      /\ HandlerHolds(r)'
  BY <1>0, <1>1, HandlerDone, HandlerShape
<1>3. CASE UNCHANGED <<link, answer>>
  <2>1. Public!TypeOK' /\ Public!AnsweredOnce'
    BY <1>0, <1>1, <1>2, <1>3 DEF Public!TypeOK, Public!AnsweredOnce, Public!MaybeMatter
  <2> QED BY <1>1, <1>2, <1>3, <2>1, FormsQuiet
<1>4. CASE Public!Live(i)
  <2>1. answer[i].count = 0
    BY <1>0, <1>2, <1>4 DEF Public!AnsweredOnce, Public!Live
  <2>2. PICK row : row = [link[i] EXCEPT !.state = "completed", !.draft = FALSE]
    OBVIOUS
  <2>3. /\ row \in [state : {"none", "pending", "opened", "completed", "revoked"},
                    expired : BOOLEAN, draft : BOOLEAN]
        /\ row.state = "completed" /\ row.draft = FALSE
    <3>1. link[i] \in [state : {"none", "pending", "opened", "completed", "revoked"},
                       expired : BOOLEAN, draft : BOOLEAN]
      BY <1>0, <1>2 DEF Public!TypeOK
    <3>2. PICK a : a = [link[i] EXCEPT !.state = "completed"]
      OBVIOUS
    <3>3. a \in [state : {"none", "pending", "opened", "completed", "revoked"},
                 expired : BOOLEAN, draft : BOOLEAN] /\ a.state = "completed"
      BY <3>1, <3>2
    <3>4. row = [a EXCEPT !.draft = FALSE]
      BY <2>2, <3>1, <3>2
    <3> QED BY <3>3, <3>4
  <2>4. /\ link' = [link EXCEPT ![i] = row]
        /\ answer' = [answer EXCEPT ![i] =
                        [count |-> answer[i].count + 1, on |-> h.on, names |-> h.names]]
    BY <1>4, <2>2 DEF Public!SubmitClaim, Public!Claimable
  <2>5. PICK new : new = [count |-> answer[i].count + 1, on |-> h.on, names |-> h.names]
    OBVIOUS
  <2>6. /\ new \in [count : Nat, on : Matters \cup {None}, names : BOOLEAN]
        /\ new.count = 1 /\ new.on = h.on /\ new.names = h.names
    BY <1>2, <2>1, <2>5
  <2>7. /\ link' \in [Invitations -> [state : {"none", "pending", "opened", "completed", "revoked"},
                                       expired : BOOLEAN, draft : BOOLEAN]]
        /\ answer' \in [Invitations -> [count : Nat, on : Matters \cup {None}, names : BOOLEAN]]
        /\ link'[i] = row /\ answer'[i] = new
        /\ \A k \in Invitations : k # i => link'[k] = link[k] /\ answer'[k] = answer[k]
    BY <1>0, <1>2, <2>3, <2>4, <2>5, <2>6 DEF Public!TypeOK, Public!MaybeMatter
  <2>8. Public!TypeOK'
    BY <1>0, <1>1, <1>2, <2>7 DEF Public!TypeOK, Public!MaybeMatter
  <2>9. Public!AnsweredOnce'
    BY <1>0, <2>3, <2>6, <2>7 DEF Public!AnsweredOnce
  <2>10. /\ h.names => file[i].state # "none"
         /\ h.names /\ file[i].on \notin gone => file[i].on = h.on
    BY <1>1, <2>1 DEF FormsHold, HandlerHolds
  <2>11. Public!FileFollows'
    <3> SUFFICES ASSUME NEW k \in Invitations, answer'[k].names, file[k].on \notin gone,
                        file[k].state # "deleted"
                 PROVE  file[k].on = answer'[k].on
      BY <1>1 DEF Public!FileFollows
    <3>1. CASE k = i
      BY <2>6, <2>7, <2>10, <3>1
    <3>2. CASE k # i
      BY <2>7, <3>2 DEF FormsHold, Public!FileFollows
    <3> QED BY <3>1, <3>2
  <2>12. ASSUME NEW k \in Invitations PROVE FileHolds(k)'
    <3>1. CASE k = i
      BY <1>1, <2>6, <2>7, <2>10, <3>1 DEF FormsHold, FileHolds
    <3>2. CASE k # i
      BY <1>1, <2>7, <3>2 DEF FormsHold, FileHolds, OnFormsCase
    <3> QED BY <3>1, <3>2
  <2>13. ASSUME NEW q \in Requests, q # r PROVE HandlerHolds(q)'
    <3>1. \A k \in Invitations :
            /\ answer[k].count > 0 => answer'[k].count > 0
            /\ answer'[k].count = 0 => answer[k].count = 0
      BY <2>6, <2>7
    <3> QED BY <1>1, <1>2, <2>13, <3>1, OtherHandler
  <2> QED BY <1>2, <2>8, <2>9, <2>11, <2>12, <2>13 DEF FormsHold
<1> QED BY <1>3, <1>4 DEF Public!SubmitClaim, Public!Claimable

\* A response is put on a case, and its file with it.
LEMMA FormsLinked ==
  ASSUME FormsHold, NEW r \in Requests, Public!LinkResponse(r)
  PROVE  FormsHold'
<1>0. Public!TypeOK /\ Public!AnsweredOnce
  BY DEF FormsHold
<1>1. /\ UNCHANGED form /\ UNCHANGED link /\ UNCHANGED gone
      /\ Public!Goto(r, Public!Idle) /\ handler[r].pc = "link"
  BY DEF Public!LinkResponse, Public!At
<1> DEFINE h == handler[r]
           i == h.of
<1>2. /\ i \in Invitations /\ h.on \in Matters
      /\ handler' \in [Requests -> {Public!Idle} \cup Public!Handling]
      /\ \A q \in Requests : q # r => handler'[q] = handler[q]
      /\ HandlerHolds(r)' /\ answer[i].count > 0 /\ FileHolds(i)
  BY <1>0, <1>1, HandlerDone, HandlerShape DEF FormsHold, HandlerHolds
<1>3. CASE UNCHANGED <<answer, file>>
  <2>1. Public!TypeOK' /\ Public!AnsweredOnce'
    BY <1>0, <1>1, <1>2, <1>3 DEF Public!TypeOK, Public!AnsweredOnce, Public!MaybeMatter
  <2> QED BY <1>1, <1>2, <1>3, <2>1, FormsQuiet
<1>4. CASE answer[i].on = None
  <2>1. /\ answer' = [answer EXCEPT ![i].on = h.on]
        /\ file' = IF file[i].state \notin {"none", "deleted"} /\ file[i].on = None
                     THEN [file EXCEPT ![i].on = h.on] ELSE file
    BY <1>4 DEF Public!LinkResponse, Public!Linkable
  <2>2. /\ answer' \in [Invitations -> [count : Nat, on : Matters \cup {None}, names : BOOLEAN]]
        /\ answer'[i].on = h.on
        /\ \A k \in Invitations :
             /\ answer'[k].count = answer[k].count /\ answer'[k].names = answer[k].names
             /\ k # i => answer'[k] = answer[k]
    <3>1. answer \in [Invitations -> [count : Nat, on : Matters \cup {None}, names : BOOLEAN]]
      BY <1>0 DEF Public!TypeOK, Public!MaybeMatter
    <3>2. PICK new : new = [answer[i] EXCEPT !.on = h.on]
      OBVIOUS
    <3>3. /\ new \in [count : Nat, on : Matters \cup {None}, names : BOOLEAN]
          /\ new.on = h.on /\ new.count = answer[i].count /\ new.names = answer[i].names
      BY <1>2, <3>1, <3>2
    <3>4. answer' = [answer EXCEPT ![i] = new]
      BY <2>1, <3>2
    <3> QED BY <1>2, <3>1, <3>3, <3>4
  <2>3. /\ file' \in [Invitations -> [state : {"none", "pending", "submittable", "deleted"},
                                      on : Matters \cup {None}]]
        /\ \A k \in Invitations : file'[k].state = file[k].state /\ (k # i => file'[k] = file[k])
        /\ file[i].state \notin {"none", "deleted"} /\ file[i].on = None => file'[i].on = h.on
        /\ file[i].state \in {"none", "deleted"} \/ file[i].on # None => file'[i].on = file[i].on
    BY <1>0, <1>2, <2>1 DEF Public!TypeOK, Public!MaybeMatter
  <2>4. Public!TypeOK' /\ Public!AnsweredOnce'
    BY <1>0, <1>1, <1>2, <2>2, <2>3 DEF Public!TypeOK, Public!AnsweredOnce, Public!MaybeMatter
  <2>5. Public!FileFollows'
    <3> SUFFICES ASSUME NEW k \in Invitations, answer[k].names, file'[k].on \notin gone,
                        file'[k].state # "deleted"
                 PROVE  file'[k].on = answer'[k].on
      BY <1>1, <2>2 DEF Public!FileFollows
    <3>1. CASE k # i
      BY <2>2, <2>3, <3>1 DEF FormsHold, Public!FileFollows
    <3>2. CASE k = i /\ file[i].on = None
      BY <1>2, <2>2, <2>3, <3>2 DEF FileHolds
    <3>3. CASE k = i /\ file[i].on # None
      BY <1>2, <1>4, <2>2, <2>3, <3>3 DEF FormsHold, Public!FileFollows
    <3> QED BY <3>1, <3>2, <3>3
  <2>6. ASSUME NEW k \in Invitations PROVE FileHolds(k)'
    <3>1. CASE k = i
      BY <1>1, <1>2, <2>2, <2>3, <3>1 DEF FileHolds
    <3>2. CASE k # i
      BY <1>1, <2>2, <2>3, <3>2 DEF FormsHold, FileHolds, OnFormsCase
    <3> QED BY <3>1, <3>2
  <2>7. ASSUME NEW q \in Requests, q # r PROVE HandlerHolds(q)'
    <3>1. \A k \in Invitations :
            file[k].state # "none" =>
              file'[k].state # "none" /\ (answer'[k].count = 0 => file'[k].on = file[k].on)
      BY <1>2, <2>2, <2>3
    <3> QED BY <1>1, <1>2, <2>2, <2>7, <3>1, OtherHandler
  <2> QED BY <1>2, <2>4, <2>5, <2>6, <2>7 DEF FormsHold
<1> QED BY <1>3, <1>4 DEF Public!LinkResponse, Public!Linkable

\* A step of the forms.
LEMMA FormsStep == FormsHold /\ Public!Next => FormsHold'
BY FormsStaff, FormsRead, FormsLink, FormsFiles, FormsSubmitted, FormsLinked DEF Public!Next

\* No invitation has been sent.
LEMMA FormsStart == Public!Init => FormsHold
<1> SUFFICES ASSUME Public!Init PROVE FormsHold
  OBVIOUS
<1>1. Public!TypeOK
  BY DEF Public!Init, Public!TypeOK, Public!NoFile, Public!MaybeMatter
<1>2. \A i \in Invitations :
        /\ link[i].state = "none" /\ answer[i].count = 0 /\ answer[i].names = FALSE
        /\ file[i].state = "none" /\ file[i].on = None
  BY DEF Public!Init, Public!NoFile
<1>3. \A r \in Requests : handler[r].pc = "idle"
  BY DEF Public!Init, Public!Idle
<1> QED BY <1>1, <1>2, <1>3 DEF FormsHold, Public!AnsweredOnce, Public!FileFollows, FileHolds, HandlerHolds

\* Steps of the other parts.
LEMMA FormsRest == FormsHold /\ UNCHANGED formVars => FormsHold'
<1> SUFFICES ASSUME FormsHold, UNCHANGED <<form, link, file, answer, gone, handler>>
             PROVE  FormsHold'
  BY DEF formVars
<1>1. Public!TypeOK' /\ Public!AnsweredOnce'
  BY DEF FormsHold, Public!TypeOK, Public!AnsweredOnce
<1> QED BY <1>1, FormsQuiet

-----------------------------------------------------------------------------
(* Who belongs to the organisation.                                        *)

(* The invitations a transaction has updated and not yet committed.        *)
HeldBy(c) ==
  {i \in Member!InviteIds :
     \/ Member!At(c, "replace") /\ request[c].invite = i
     \/ Member!At(c, "invite") /\ i \in request[c].earlier}

(* They are pending until it commits, and no other transaction's.  A       *)
(* lapsed invitation read is there; a role is changed of who is a member.  *)
RowsHeld(c) ==
  /\ HeldBy(c) \subseteq Member!Pending
  /\ Member!At(c, "expire") => invite[request[c].invite] # Member!Absent
  /\ Member!At(c, "clear") \/ (Member!At(c, "replace") /\ ~request[c].holdsRow)
       => standing[request[c].of] # None
HeldOnce == \A c, d \in Requests : c # d => HeldBy(c) \cap HeldBy(d) = {}

(* What a request alone at work has read is still so when it writes.       *)
StillSo(c) ==
  LET r == request[c] IN
  /\ Member!At(c, "clear") \/ (r.pc \in {"row", "replace"} /\ r.invite = None)
       => (r.role # "admin" => ~Member!LastAdministrator(r.of))
  /\ Member!At(c, "status") => (r.next # "active" => ~Member!LastAdministrator(r.of))
  /\ r.pc \in {"scim count", "scim write"} => standing[r.of] = r.was /\ r.was # "revoked"
  /\ Member!At(c, "scim write") => (r.was = "active" /\ r.next # "active"
                                      => ~Member!LastAdministrator(r.of))

MemberHolds ==
  /\ Member!TypeOK /\ mixed \in BOOLEAN
  /\ \A c \in Requests : RowsHeld(c)
  /\ HeldOnce
  /\ ~mixed => ~SeveralBusy(request) /\ \A c \in Requests : StillSo(c)

\* The record of a request.
LEMMA RequestShape ==
  ASSUME Member!TypeOK, NEW c \in Requests, request[c].pc # "idle"
  PROVE  /\ request[c].of \in Persons
         /\ request[c].pc \in {"row", "clear", "replace", "invite"} => request[c].role \in Member!Roles
         /\ request[c].pc \in {"row", "replace"} => request[c].invite \in Member!InviteIds \cup {None}
         /\ request[c].pc = "replace" => request[c].cleared \subseteq Member!Roles
         /\ request[c].pc = "replace" => request[c].holdsRow \in BOOLEAN
         /\ request[c].pc = "status" => request[c].next \in Member!Standings
         /\ request[c].pc = "invite" => request[c].earlier \subseteq Member!InviteIds
         /\ request[c].pc = "expire" => request[c].invite \in Member!InviteIds
         /\ request[c].pc \in {"scim count", "scim write"} =>
              request[c] \in [pc : {"scim count", "scim write"}, of : Persons,
                              was : Member!Standings \cup {None}, next : Member!Standings,
                              provision : BOOLEAN, groups : SUBSET Member!Roles]
<1>1. request[c] \in Member!Replacing \/ request[c] \in Member!Others
  BY DEF Member!TypeOK, Member!Idle
<1>2. CASE request[c] \in Member!Replacing
  BY <1>2 DEF Member!Replacing, Member!MaybeInvite
<1>3. CASE request[c] \in Member!Others
  BY <1>3 DEF Member!Others
<1> QED BY <1>1, <1>2, <1>3

\* A request's new record.
LEMMA RequestTyped ==
  ASSUME Member!TypeOK, NEW c \in Requests,
         NEW next \in {Member!Idle} \cup Member!Replacing \cup Member!Others,
         Member!Goto(c, next)
  PROVE  /\ request' \in [Requests -> {Member!Idle} \cup Member!Replacing \cup Member!Others]
         /\ request'[c] = next /\ \A d \in Requests : d # c => request'[d] = request[d]
         /\ DOMAIN request = Requests /\ DOMAIN request' = Requests
BY DEF Member!TypeOK, Member!Goto

\* What a step of one request must show: the rest is as the others left it.
LEMMA MemberMoves ==
  ASSUME MemberHolds, NEW c \in Requests,
         NEW next \in {Member!Idle} \cup Member!Replacing \cup Member!Others,
         Member!Goto(c, next), request[c].pc # "idle" \/ next.pc # "idle",
         mixed' = (mixed \/ SeveralBusy(request')),
         standing' \in [Persons -> Member!Standings \cup {None}],
         roles' \in [Persons -> SUBSET Member!Roles],
         \A p \in Persons : standing'[p] = None => standing[p] = None /\ roles'[p] = {},
         invite' \in [Member!InviteIds -> Member!Invite \cup {Member!Absent}],
         \A i \in Member!InviteIds : invite[i] # Member!Absent => invite'[i] # Member!Absent,
         \A d \in Requests \ {c} : HeldBy(d) \subseteq Member!Pending' /\ HeldBy(c)' \cap HeldBy(d) = {},
         RowsHeld(c)', ~mixed' => StillSo(c)'
  PROVE  MemberHolds'
<1>1. Member!TypeOK /\ mixed \in BOOLEAN /\ mixed' \in BOOLEAN
  BY DEF MemberHolds
<1>2. /\ request' \in [Requests -> {Member!Idle} \cup Member!Replacing \cup Member!Others]
      /\ request'[c] = next /\ \A d \in Requests : d # c => request'[d] = request[d]
      /\ DOMAIN request = Requests /\ DOMAIN request' = Requests
  BY <1>1, RequestTyped
<1>3. Member!TypeOK'
  BY <1>2 DEF Member!TypeOK
<1>4. ASSUME NEW d \in Requests, d # c PROVE HeldBy(d)' = HeldBy(d)
  BY <1>2, <1>4 DEF HeldBy, Member!At
<1>5. ASSUME NEW d \in Requests, d # c PROVE RowsHeld(d)'
  <2>1. RowsHeld(d) /\ request'[d] = request[d]
    BY <1>2, <1>5 DEF MemberHolds
  <2>2. HeldBy(d)' \subseteq Member!Pending'
    BY <1>4, <1>5
  <2>3. CASE request[d].pc = "idle"
    BY <2>1, <2>2, <2>3 DEF RowsHeld, Member!At
  <2>4. CASE request[d].pc # "idle"
    <3>1. request[d].of \in Persons /\ (request[d].pc = "expire" => request[d].invite \in Member!InviteIds)
      BY <1>1, <2>4, RequestShape
    <3> QED BY <2>1, <2>2, <3>1 DEF RowsHeld, Member!At
  <2> QED BY <2>3, <2>4
<1>6. HeldOnce'
  <2> SUFFICES ASSUME NEW d \in Requests, NEW e \in Requests, d # e
               PROVE  HeldBy(d)' \cap HeldBy(e)' = {}
    BY DEF HeldOnce
  <2>1. CASE d # c /\ e # c
    BY <1>4, <2>1 DEF MemberHolds, HeldOnce
  <2>2. CASE d = c \/ e = c
    BY <1>4, <2>2
  <2> QED BY <2>1, <2>2
<1>7. ASSUME ~mixed' PROVE ~SeveralBusy(request') /\ \A d \in Requests : StillSo(d)'
  <2>1. ~mixed /\ ~SeveralBusy(request')
    BY <1>1, <1>7
  <2>2. ASSUME NEW d \in Requests, d # c PROVE request'[d].pc = "idle"
    BY <1>2, <2>1, <2>2 DEF MemberHolds, SeveralBusy
  <2>3. ASSUME NEW d \in Requests, d # c PROVE StillSo(d)'
    BY <2>2, <2>3 DEF StillSo, Member!At
  <2> QED BY <1>7, <2>1, <2>3
<1> QED BY <1>1, <1>3, <1>5, <1>6, <1>7 DEF MemberHolds

\* Steps of a request that write nothing.
LEMMA MemberQuiet ==
  ASSUME MemberHolds, NEW c \in Requests,
         NEW next \in {Member!Idle} \cup Member!Replacing \cup Member!Others,
         Member!Goto(c, next), request[c].pc # "idle" \/ next.pc # "idle",
         mixed' = (mixed \/ SeveralBusy(request')), UNCHANGED <<standing, roles, invite>>,
         \A d \in Requests \ {c} : HeldBy(c)' \cap HeldBy(d) = {},
         RowsHeld(c)', ~mixed' => StillSo(c)'
  PROVE  MemberHolds'
<1>1. Member!TypeOK /\ \A d \in Requests : HeldBy(d) \subseteq Member!Pending
  BY DEF MemberHolds, RowsHeld
<1>2. Member!Pending' = Member!Pending
  BY DEF Member!Pending
<1> QED BY <1>1, <1>2, MemberMoves DEF Member!TypeOK

\* A request that ends without writing.
LEMMA MemberEnds ==
  ASSUME MemberHolds, NEW c \in Requests, Member!Goto(c, Member!Idle), request[c].pc # "idle",
         mixed' = (mixed \/ SeveralBusy(request')), UNCHANGED <<standing, roles, invite>>
  PROVE  MemberHolds'
<1>1. request'[c] = Member!Idle /\ Member!Idle.pc = "idle"
  BY DEF MemberHolds, Member!TypeOK, Member!Goto, Member!Idle
<1>2. HeldBy(c)' = {} /\ RowsHeld(c)' /\ StillSo(c)'
  BY <1>1 DEF HeldBy, RowsHeld, StillSo, Member!At
<1> QED BY <1>2, MemberQuiet

\* Invitations age, and are sent again or revoked when no transaction holds them.
LEMMA MemberMail ==
  ASSUME MemberHolds, UNCHANGED <<standing, roles, request>>,
         mixed' = (mixed \/ SeveralBusy(request')),
         NEW i \in Member!InviteIds, NEW s \in {"pending", "lapsed", "revoked"},
         i \in Member!Pending, s = "revoked" => ~Member!Claimed(i),
         invite' = [invite EXCEPT ![i].state = s]
  PROVE  MemberHolds'
<1>1. Member!TypeOK /\ invite[i] \in Member!Invite
  BY DEF MemberHolds, Member!TypeOK, Member!Pending, Member!Absent
<1>2. PICK new : new = [invite[i] EXCEPT !.state = s]
  OBVIOUS
<1>3. new \in Member!Invite /\ new.state = s /\ new # Member!Absent
  BY <1>1, <1>2 DEF Member!Invite, Member!Absent
<1>4. /\ invite' = [invite EXCEPT ![i] = new]
      /\ invite' \in [Member!InviteIds -> Member!Invite \cup {Member!Absent}]
      /\ invite'[i] = new /\ \A j \in Member!InviteIds : j # i => invite'[j] = invite[j]
  BY <1>1, <1>2, <1>3 DEF Member!TypeOK
<1>5. Member!TypeOK'
  BY <1>1, <1>4 DEF Member!TypeOK
<1>6. ASSUME NEW d \in Requests PROVE RowsHeld(d)' /\ HeldBy(d)' = HeldBy(d)
  <2>1. RowsHeld(d) /\ HeldBy(d)' = HeldBy(d)
    BY DEF MemberHolds, HeldBy, Member!At
  <2>2. i \in HeldBy(d) => Member!Claimed(i)
    BY DEF HeldBy, Member!Claimed
  <2>3. HeldBy(d) \subseteq Member!Pending'
    BY <1>3, <1>4, <2>1, <2>2 DEF RowsHeld, Member!Pending
  <2>4. CASE request[d].pc = "idle"
    BY <2>1, <2>3, <2>4 DEF RowsHeld, Member!At
  <2>5. CASE request[d].pc # "idle"
    <3>1. request[d].of \in Persons /\ (request[d].pc = "expire" => request[d].invite \in Member!InviteIds)
      BY <1>1, <2>5, RequestShape
    <3>2. Member!At(d, "expire") => invite'[request[d].invite] # Member!Absent
      BY <1>3, <1>4, <2>1, <3>1 DEF RowsHeld, Member!At
    <3> QED BY <2>1, <2>3, <3>2 DEF RowsHeld, Member!At
  <2> QED BY <2>1, <2>4, <2>5
<1>7. HeldOnce'
  BY <1>6 DEF MemberHolds, HeldOnce
<1>8. ~mixed' => ~SeveralBusy(request') /\ \A d \in Requests : StillSo(d)'
  BY DEF MemberHolds, SeveralBusy, StillSo, Member!At, Member!LastAdministrator, Member!Administrators
<1> QED BY <1>5, <1>6, <1>7, <1>8 DEF MemberHolds

\* What a request reads first: a change of roles or of standing.
LEMMA MemberChecks ==
  ASSUME MemberHolds, mixed' = (mixed \/ SeveralBusy(request')), NEW c \in Requests,
         \E by, p \in Persons :
            \/ \E role \in Member!Roles : 
                 Member!AddCheck(c, by, p, role) \/ Member!ChangeRoleCheck(c, by, p, role)
            \/ \E next \in {"active", "suspended", "revoked"} : Member!ChangeStatusCheck(c, by, p, next)
  PROVE  MemberHolds'
<1>0. Member!TypeOK
  BY DEF MemberHolds
<1>1. ASSUME NEW by \in Persons, NEW p \in Persons, NEW role \in Member!Roles,
             Member!AddCheck(c, by, p, role)
      PROVE  MemberHolds'
  <2>1. PICK next : next = [pc |-> "row", of |-> p, role |-> role, existed |-> standing[p] # None,
                            invite |-> None]
    OBVIOUS
  <2>2. /\ next \in Member!Replacing /\ next.pc = "row" /\ next.role = role /\ next.of = p
    BY <2>1 DEF Member!Replacing, Member!MaybeInvite
  <2>3. Member!Goto(c, next) /\ (role # "admin" => ~Member!LastAdministrator(p))
    BY <1>1, <2>1 DEF Member!AddCheck
  <2>4. UNCHANGED <<standing, roles, invite>>
    BY <1>1 DEF Member!AddCheck
  <2>5. request'[c] = next
    BY <1>0, <2>2, <2>3, RequestTyped
  <2>6. HeldBy(c)' = {} /\ RowsHeld(c)'
    BY <2>2, <2>5 DEF HeldBy, RowsHeld, Member!At
  <2>7. StillSo(c)'
    BY <2>2, <2>3, <2>4, <2>5
    DEF StillSo, Member!At, Member!LastAdministrator, Member!Administrators
  <2> QED BY <2>2, <2>3, <2>4, <2>6, <2>7, MemberQuiet
<1>2. ASSUME NEW by \in Persons, NEW p \in Persons, NEW role \in Member!Roles,
             Member!ChangeRoleCheck(c, by, p, role)
      PROVE  MemberHolds'
  <2>1. PICK next : next = [pc |-> "clear", of |-> p, role |-> role]
    OBVIOUS
  <2>2. /\ next \in Member!Replacing /\ next.pc = "clear" /\ next.role = role /\ next.of = p
    BY <2>1 DEF Member!Replacing
  <2>3. Member!Goto(c, next) /\ (role # "admin" => ~Member!LastAdministrator(p))
    BY <1>2, <2>1 DEF Member!ChangeRoleCheck
  <2>4. UNCHANGED <<standing, roles, invite>> /\ standing[p] # None
    BY <1>2, NoneAssumption DEF Member!ChangeRoleCheck
  <2>5. request'[c] = next
    BY <1>0, <2>2, <2>3, RequestTyped
  <2>6. HeldBy(c)' = {} /\ RowsHeld(c)'
    BY <2>2, <2>4, <2>5 DEF HeldBy, RowsHeld, Member!At
  <2>7. StillSo(c)'
    BY <2>2, <2>3, <2>4, <2>5
    DEF StillSo, Member!At, Member!LastAdministrator, Member!Administrators
  <2> QED BY <2>2, <2>3, <2>4, <2>6, <2>7, MemberQuiet
<1>3. ASSUME NEW by \in Persons, NEW p \in Persons, NEW to \in {"active", "suspended", "revoked"},
             Member!ChangeStatusCheck(c, by, p, to)
      PROVE  MemberHolds'
  <2>1. PICK next : next = [pc |-> "status", of |-> p, next |-> to]
    OBVIOUS
  <2>2. /\ next \in Member!Others /\ next.pc = "status" /\ next.next = to /\ next.of = p
    BY <2>1 DEF Member!Others, Member!Standings
  <2>3. Member!Goto(c, next) /\ (to # "active" => ~Member!LastAdministrator(p))
    BY <1>3, <2>1 DEF Member!ChangeStatusCheck
  <2>4. UNCHANGED <<standing, roles, invite>>
    BY <1>3 DEF Member!ChangeStatusCheck
  <2>5. request'[c] = next
    BY <1>0, <2>2, <2>3, RequestTyped
  <2>6. HeldBy(c)' = {} /\ RowsHeld(c)'
    BY <2>2, <2>4, <2>5 DEF HeldBy, RowsHeld, Member!At
  <2>7. StillSo(c)'
    BY <2>2, <2>3, <2>4, <2>5
    DEF StillSo, Member!At, Member!LastAdministrator, Member!Administrators
  <2> QED BY <2>2, <2>3, <2>4, <2>6, <2>7, MemberQuiet
<1> QED BY <1>1, <1>2, <1>3

\* What a request reads first: an invitation, or SCIM's member.
LEMMA MemberReads ==
  ASSUME MemberHolds, mixed' = (mixed \/ SeveralBusy(request')), NEW c \in Requests,
         \/ \E by, p \in Persons : \E role \in Member!Roles : Member!InviteBegin(c, by, p, role)
         \/ \E i \in Member!InviteIds : Member!AcceptCheck(c, i)
         \/ \E p \in Persons : \E next \in Member!Standings, provision \in BOOLEAN,
               groups \in SUBSET Member!Roles : Member!ScimRead(c, p, next, provision, groups)
  PROVE  MemberHolds'
<1>0. Member!TypeOK
  BY DEF MemberHolds
<1>1. ASSUME NEW by \in Persons, NEW p \in Persons, NEW role \in Member!Roles,
             Member!InviteBegin(c, by, p, role)
      PROVE  MemberHolds'
  <2>1. PICK earlier : earlier = {i \in Member!Pending : invite[i].to = p}
    OBVIOUS
  <2>2. PICK next : next = [pc |-> "invite", of |-> p, role |-> role, earlier |-> earlier]
    OBVIOUS
  <2>3. /\ next \in Member!Others /\ next.pc = "invite" /\ next.earlier = earlier
        /\ earlier \subseteq Member!Pending
    BY <2>1, <2>2 DEF Member!Others, Member!Pending
  <2>4. /\ Member!Goto(c, next) /\ UNCHANGED <<standing, roles, invite>>
        /\ \A i \in earlier : ~Member!Claimed(i)
    BY <1>1, <2>1, <2>2 DEF Member!InviteBegin
  <2>5. request'[c] = next
    BY <1>0, <2>3, <2>4, RequestTyped
  <2>6. HeldBy(c)' \subseteq earlier
    BY <2>3, <2>5 DEF HeldBy, Member!At
  <2>7. \A d \in Requests \ {c} : HeldBy(c)' \cap HeldBy(d) = {}
    BY <2>4, <2>6 DEF HeldBy, Member!Claimed
  <2>8. RowsHeld(c)'
    <3>1. Member!Pending' = Member!Pending
      BY <2>4 DEF Member!Pending
    <3> QED BY <2>3, <2>5, <2>6, <3>1 DEF RowsHeld, Member!At
  <2>9. StillSo(c)'
    BY <2>3, <2>5 DEF StillSo, Member!At
  <2> QED BY <2>3, <2>4, <2>7, <2>8, <2>9, MemberQuiet
<1>2. ASSUME NEW i \in Member!InviteIds, Member!AcceptCheck(c, i) PROVE MemberHolds'
  <2>0. /\ UNCHANGED <<standing, roles, invite>> /\ invite[i] \in Member!Invite
        /\ i # None /\ invite[i] # Member!Absent
    BY <1>0, <1>2, NoneAssumption
    DEF Member!AcceptCheck, Member!TypeOK, Member!Pending, Member!Absent, Member!InviteIds
  <2>1. CASE invite[i].state = "lapsed"
    <3>1. PICK next : next = [pc |-> "expire", of |-> invite[i].to, invite |-> i]
      OBVIOUS
    <3>2. next \in Member!Others /\ next.pc = "expire" /\ next.invite = i /\ Member!Goto(c, next)
      BY <1>2, <2>0, <2>1, <3>1 DEF Member!Others, Member!Invite, Member!AcceptCheck
    <3>3. request'[c] = next
      BY <1>0, <3>2, RequestTyped
    <3>4. HeldBy(c)' = {} /\ RowsHeld(c)' /\ StillSo(c)'
      BY <2>0, <3>2, <3>3 DEF HeldBy, RowsHeld, StillSo, Member!At
    <3> QED BY <2>0, <3>2, <3>4, MemberQuiet
  <2>2. CASE invite[i].state # "lapsed"
    <3>1. PICK next : next = [pc |-> "row", of |-> invite[i].to, role |-> invite[i].role,
                              existed |-> FALSE, invite |-> i]
      OBVIOUS
    <3>2. next \in Member!Replacing /\ next.pc = "row" /\ next.invite = i /\ Member!Goto(c, next)
      BY <1>2, <2>0, <2>2, <3>1 DEF Member!Replacing, Member!MaybeInvite, Member!Invite, Member!AcceptCheck
    <3>3. request'[c] = next
      BY <1>0, <3>2, RequestTyped
    <3>4. HeldBy(c)' = {} /\ RowsHeld(c)' /\ StillSo(c)'
      BY <2>0, <3>2, <3>3 DEF HeldBy, RowsHeld, StillSo, Member!At
    <3> QED BY <2>0, <3>2, <3>4, MemberQuiet
  <2> QED BY <2>1, <2>2
<1>3. ASSUME NEW p \in Persons, NEW to \in Member!Standings, NEW provision \in BOOLEAN,
             NEW groups \in SUBSET Member!Roles, Member!ScimRead(c, p, to, provision, groups)
      PROVE  MemberHolds'
  <2>1. PICK next : next = [pc |-> "scim count", of |-> p, was |-> standing[p], next |-> to,
                            provision |-> provision, groups |-> groups]
    OBVIOUS
  <2>2. next \in Member!Others /\ next.pc = "scim count" /\ next.of = p /\ next.was = standing[p]
    <3>1. standing[p] \in Member!Standings \cup {None}
      BY <1>0 DEF Member!TypeOK
    <3> QED BY <2>1, <3>1 DEF Member!Others
  <2>3. Member!Goto(c, next) /\ UNCHANGED <<standing, roles, invite>> /\ standing[p] # "revoked"
    BY <1>3, <2>1 DEF Member!ScimRead, Member!ScimActs
  <2>4. request'[c] = next
    BY <1>0, <2>2, <2>3, RequestTyped
  <2>5. HeldBy(c)' = {} /\ RowsHeld(c)' /\ StillSo(c)'
    BY <2>2, <2>3, <2>4 DEF HeldBy, RowsHeld, StillSo, Member!At
  <2> QED BY <2>2, <2>3, <2>5, MemberQuiet
<1> QED BY <1>1, <1>2, <1>3

\* Steps on the way to the write.
LEMMA MemberProceeds ==
  ASSUME MemberHolds, mixed' = (mixed \/ SeveralBusy(request')), NEW c \in Requests,
         Member!ClearRoles(c) \/ Member!ClaimRow(c) \/ Member!ScimCount(c) \/ Member!Abort(c)
  PROVE  MemberHolds'
<1>0. /\ Member!TypeOK /\ RowsHeld(c) /\ (~mixed => StillSo(c))
      /\ UNCHANGED <<standing, roles, invite>> /\ request[c].pc # "idle"
  BY DEF MemberHolds, Member!ClearRoles, Member!ClaimRow, Member!ScimCount, Member!Abort, Member!At
<1>1. ~mixed' => StillSo(c)
  BY <1>0 DEF MemberHolds
<1> DEFINE r == request[c]
<1>2. CASE Member!ClearRoles(c)
  <2>1. r.pc = "clear" /\ r.of \in Persons /\ r.role \in Member!Roles
    BY <1>0, <1>2, RequestShape DEF Member!ClearRoles, Member!At
  <2>2. PICK next : next = [pc |-> "replace", of |-> r.of, role |-> r.role, cleared |-> roles[r.of],
                            holdsRow |-> FALSE, invite |-> None]
    OBVIOUS
  <2>3. /\ next \in Member!Replacing /\ next.pc = "replace" /\ next.invite = None
        /\ next.role = r.role /\ next.of = r.of
    <3>1. roles[r.of] \in SUBSET Member!Roles
      BY <1>0, <2>1 DEF Member!TypeOK
    <3> QED BY <2>1, <2>2, <3>1 DEF Member!Replacing, Member!MaybeInvite
  <2>4. Member!Goto(c, next)
    BY <1>2, <2>2 DEF Member!ClearRoles
  <2>5. request'[c] = next
    BY <1>0, <2>3, <2>4, RequestTyped
  <2>6. HeldBy(c)' = {}
    BY <2>3, <2>5, NoneAssumption DEF HeldBy, Member!At, Member!InviteIds
  <2>7. RowsHeld(c)'
    BY <1>0, <2>1, <2>3, <2>5, <2>6 DEF RowsHeld, Member!At
  <2>8. ~mixed' => StillSo(c)'
    BY <1>0, <1>1, <2>1, <2>3, <2>5
    DEF StillSo, Member!At, Member!LastAdministrator, Member!Administrators
  <2> QED BY <1>0, <2>3, <2>4, <2>6, <2>7, <2>8, MemberQuiet
<1>3. CASE Member!ClaimRow(c)
  <2>1. r.pc = "row" /\ r.of \in Persons /\ r.role \in Member!Roles /\ r.invite \in Member!InviteIds \cup {None}
    BY <1>0, <1>3, RequestShape DEF Member!ClaimRow, Member!At
  <2>2. PICK next : next = [pc |-> "replace", of |-> r.of, role |-> r.role, cleared |-> roles[r.of],
                            holdsRow |-> TRUE, invite |-> r.invite]
    OBVIOUS
  <2>3. /\ next \in Member!Replacing /\ next.pc = "replace" /\ next.invite = r.invite
        /\ next.role = r.role /\ next.of = r.of /\ next.holdsRow = TRUE
    <3>1. roles[r.of] \in SUBSET Member!Roles
      BY <1>0, <2>1 DEF Member!TypeOK
    <3> QED BY <2>1, <2>2, <3>1 DEF Member!Replacing, Member!MaybeInvite
  <2>4. CASE Member!Goto(c, Member!Idle)
    BY <1>0, <2>4, MemberEnds
  <2>5. CASE /\ Member!Goto(c, next)
             /\ r.invite # None => ~Member!Claimed(r.invite) /\ r.invite \in Member!Pending
    <3>1. request'[c] = next
      BY <1>0, <2>3, <2>5, RequestTyped
    <3>2. HeldBy(c)' \subseteq {r.invite} \cap Member!InviteIds
      BY <2>3, <3>1 DEF HeldBy, Member!At
    <3>3. \A i \in HeldBy(c)' : i = r.invite /\ ~Member!Claimed(i) /\ i \in Member!Pending
      BY <2>5, <3>2, NoneAssumption DEF Member!InviteIds
    <3>4. \A d \in Requests \ {c} : HeldBy(c)' \cap HeldBy(d) = {}
      BY <3>3 DEF HeldBy, Member!Claimed
    <3>5. RowsHeld(c)'
      <4>1. Member!Pending' = Member!Pending
        BY <1>0 DEF Member!Pending
      <4> QED BY <2>3, <3>1, <3>3, <4>1 DEF RowsHeld, Member!At
    <3>6. ~mixed' => StillSo(c)'
      BY <1>0, <1>1, <2>1, <2>3, <3>1
      DEF StillSo, Member!At, Member!LastAdministrator, Member!Administrators
    <3> QED BY <1>0, <2>3, <2>5, <3>4, <3>5, <3>6, MemberQuiet
  <2> QED BY <1>3, <2>2, <2>4, <2>5 DEF Member!ClaimRow, Member!Claimable
<1>4. CASE Member!ScimCount(c)
  <2>1. CASE Member!Goto(c, Member!Idle)
    BY <1>0, <2>1, MemberEnds
  <2>2. CASE /\ Member!Goto(c, [r EXCEPT !.pc = "scim write"])
             /\ r.was = "active" /\ r.next # "active" => ~Member!LastAdministrator(r.of)
    <3>1. /\ r.pc = "scim count"
          /\ r \in [pc : {"scim count", "scim write"}, of : Persons,
                    was : Member!Standings \cup {None}, next : Member!Standings,
                    provision : BOOLEAN, groups : SUBSET Member!Roles]
      BY <1>0, <1>4, RequestShape DEF Member!ScimCount, Member!At
    <3>2. PICK next : next = [r EXCEPT !.pc = "scim write"]
      OBVIOUS
    <3>3. /\ next \in Member!Others /\ next.pc = "scim write" /\ next.of = r.of
          /\ next.was = r.was /\ next.next = r.next
      BY <3>1, <3>2 DEF Member!Others
    <3>4. request'[c] = next
      BY <1>0, <2>2, <3>2, <3>3, RequestTyped
    <3>5. HeldBy(c)' = {} /\ RowsHeld(c)'
      BY <3>3, <3>4 DEF HeldBy, RowsHeld, Member!At
    <3>6. ~mixed' => StillSo(c)'
      BY <1>0, <1>1, <2>2, <3>1, <3>3, <3>4
      DEF StillSo, Member!At, Member!LastAdministrator, Member!Administrators
    <3> QED BY <1>0, <2>2, <3>2, <3>3, <3>5, <3>6, MemberQuiet
  <2> QED BY <1>4, <2>1, <2>2 DEF Member!ScimCount
<1>5. CASE Member!Abort(c)
  BY <1>0, <1>5, MemberEnds DEF Member!Abort
<1> QED BY <1>2, <1>3, <1>4, <1>5

\* A request that commits, and what it must show of what it writes.
LEMMA MemberCommits ==
  ASSUME MemberHolds, NEW c \in Requests, Member!Goto(c, Member!Idle), request[c].pc # "idle",
         mixed' = (mixed \/ SeveralBusy(request')),
         standing' \in [Persons -> Member!Standings \cup {None}],
         roles' \in [Persons -> SUBSET Member!Roles],
         \A p \in Persons : standing'[p] = None => standing[p] = None /\ roles'[p] = {},
         invite' \in [Member!InviteIds -> Member!Invite \cup {Member!Absent}],
         \A i \in Member!InviteIds : invite[i] # Member!Absent => invite'[i] # Member!Absent,
         \A d \in Requests \ {c} : HeldBy(d) \subseteq Member!Pending'
  PROVE  MemberHolds'
<1>1. request'[c] = Member!Idle /\ Member!Idle.pc = "idle"
  BY DEF MemberHolds, Member!TypeOK, Member!Goto, Member!Idle
<1>2. HeldBy(c)' = {} /\ RowsHeld(c)' /\ StillSo(c)'
  BY <1>1 DEF HeldBy, RowsHeld, StillSo, Member!At
<1> QED BY <1>2, MemberMoves

\* Standings and roles are written.
LEMMA MemberWrites ==
  ASSUME MemberHolds, mixed' = (mixed \/ SeveralBusy(request')), NEW c \in Requests,
         Member!ChangeStatusCommit(c) \/ Member!ReplaceCommit(c) \/ Member!ScimWrite(c)
  PROVE  MemberHolds'
<1> DEFINE r == request[c]
<1>0. /\ Member!TypeOK /\ r.pc # "idle" /\ Member!Goto(c, Member!Idle) /\ r.of \in Persons
      /\ RowsHeld(c) /\ \A d \in Requests : HeldBy(d) \subseteq Member!Pending
      /\ HeldOnce
  <2>1. r.pc # "idle" /\ Member!Goto(c, Member!Idle)
    BY DEF Member!ChangeStatusCommit, Member!ReplaceCommit, Member!ScimWrite, Member!At
  <2>2. Member!TypeOK
    BY DEF MemberHolds
  <2> QED BY <2>1, <2>2, RequestShape DEF MemberHolds, RowsHeld
<1>1. /\ standing \in [Persons -> Member!Standings \cup {None}] /\ roles \in [Persons -> SUBSET Member!Roles]
      /\ \A p \in Persons : standing[p] = None => roles[p] = {}
      /\ invite \in [Member!InviteIds -> Member!Invite \cup {Member!Absent}]
      /\ None \notin Member!Standings
  BY <1>0, NoneAssumption DEF Member!TypeOK, Member!Standings
<1>2. invite' = invite => \A d \in Requests \ {c} : HeldBy(d) \subseteq Member!Pending'
  BY <1>0 DEF Member!Pending
<1>3. CASE Member!ChangeStatusCommit(c)
  <2>1. r.next \in Member!Standings
    BY <1>0, <1>3, RequestShape DEF Member!ChangeStatusCommit, Member!At
  <2>2. /\ standing' = [standing EXCEPT ![r.of] = r.next] /\ roles' = roles /\ invite' = invite
    BY <1>3 DEF Member!ChangeStatusCommit
  <2>3. /\ standing' \in [Persons -> Member!Standings \cup {None}]
        /\ \A p \in Persons : standing'[p] = None => standing[p] = None /\ roles'[p] = {}
    BY <1>0, <1>1, <2>1, <2>2
  <2> QED BY <1>0, <1>1, <1>2, <2>2, <2>3, MemberCommits
<1>4. CASE Member!ReplaceCommit(c)
  <2>1. /\ r.pc = "replace" /\ r.role \in Member!Roles /\ r.cleared \subseteq Member!Roles
        /\ r.holdsRow \in BOOLEAN /\ r.invite \in Member!InviteIds \cup {None}
    BY <1>0, <1>4, RequestShape DEF Member!ReplaceCommit, Member!At
  <2>2. /\ roles' = [roles EXCEPT ![r.of] = (roles[r.of] \ r.cleared) \cup {r.role}]
        /\ standing' = IF r.holdsRow THEN [standing EXCEPT ![r.of] = "active"] ELSE standing
        /\ invite' = IF r.invite = None THEN invite ELSE [invite EXCEPT ![r.invite].state = "accepted"]
    BY <1>0, <1>1, <1>4 DEF Member!ReplaceCommit, Member!StandingAfter
  <2>3. standing[r.of] # None \/ r.holdsRow
    BY <1>0, <2>1 DEF RowsHeld, Member!At
  <2>4. "active" \in Member!Standings
    BY DEF Member!Standings
  <2>5. /\ standing' \in [Persons -> Member!Standings \cup {None}]
        /\ standing'[r.of] # None /\ \A p \in Persons : p # r.of => standing'[p] = standing[p]
    BY <1>0, <1>1, <2>2, <2>3, <2>4
  <2>6. /\ roles' \in [Persons -> SUBSET Member!Roles]
        /\ \A p \in Persons : p # r.of => roles'[p] = roles[p]
    BY <1>0, <1>1, <2>1, <2>2
  <2>7. \A p \in Persons : standing'[p] = None => standing[p] = None /\ roles'[p] = {}
    BY <1>1, <2>5, <2>6
  <2>8. CASE r.invite = None
    BY <1>0, <1>1, <1>2, <2>2, <2>5, <2>6, <2>7, <2>8, MemberCommits
  <2>9. CASE r.invite # None
    <3>1. r.invite \in Member!InviteIds /\ r.invite \in HeldBy(c)
      BY <2>1, <2>9 DEF HeldBy, Member!At
    <3>2. invite[r.invite] \in Member!Invite
      BY <1>0, <1>1, <3>1 DEF Member!Pending, Member!Absent
    <3>3. PICK new : new = [invite[r.invite] EXCEPT !.state = "accepted"]
      OBVIOUS
    <3>4. new \in Member!Invite /\ new # Member!Absent
      BY <3>2, <3>3 DEF Member!Invite, Member!Absent
    <3>5. invite' = [invite EXCEPT ![r.invite] = new]
      BY <2>2, <2>9, <3>3
    <3>6. /\ invite' \in [Member!InviteIds -> Member!Invite \cup {Member!Absent}]
          /\ \A i \in Member!InviteIds : invite[i] # Member!Absent => invite'[i] # Member!Absent
          /\ \A i \in Member!InviteIds : i # r.invite => invite'[i] = invite[i]
      BY <1>1, <3>1, <3>4, <3>5
    <3>7. ASSUME NEW d \in Requests \ {c} PROVE HeldBy(d) \subseteq Member!Pending'
      <4>1. r.invite \notin HeldBy(d)
        BY <1>0, <3>1 DEF HeldOnce
      <4> QED BY <1>0, <3>6, <4>1 DEF Member!Pending
    <3> QED BY <1>0, <2>5, <2>6, <2>7, <3>6, <3>7, MemberCommits
  <2> QED BY <2>8, <2>9
<1>5. CASE Member!ScimWrite(c)
  <2>1. r \in [pc : {"scim count", "scim write"}, of : Persons,
               was : Member!Standings \cup {None}, next : Member!Standings,
               provision : BOOLEAN, groups : SUBSET Member!Roles]
    BY <1>0, <1>5, RequestShape DEF Member!ScimWrite, Member!At
  <2>2. invite' = invite
    BY <1>5 DEF Member!ScimWrite
  <2>3. CASE UNCHANGED <<standing, roles>>
    BY <1>0, <1>1, <1>2, <2>2, <2>3, MemberCommits
  <2>4. CASE ~UNCHANGED <<standing, roles>>
    <3>1. PICK stands : stands = [standing EXCEPT ![r.of] = r.next]
      OBVIOUS
    <3>2. /\ standing' = stands
          /\ roles' = IF r.provision
                      THEN [roles EXCEPT ![r.of] = (roles[r.of] \ Member!Controllable)
                                                     \cup Member!Desired(r, stands)]
                      ELSE roles
      BY <1>0, <1>1, <1>5, <2>4, <3>1 DEF Member!ScimWrite
    <3>3. Member!Desired(r, stands) \subseteq Member!Roles
      BY <2>1 DEF Member!Desired, Member!Roles
    <3>4. /\ standing' \in [Persons -> Member!Standings \cup {None}]
          /\ standing'[r.of] # None /\ \A p \in Persons : p # r.of => standing'[p] = standing[p]
      BY <1>0, <1>1, <2>1, <3>1, <3>2
    <3>5. /\ roles' \in [Persons -> SUBSET Member!Roles]
          /\ \A p \in Persons : p # r.of => roles'[p] = roles[p]
      BY <1>0, <1>1, <3>2, <3>3
    <3>6. \A p \in Persons : standing'[p] = None => standing[p] = None /\ roles'[p] = {}
      BY <1>1, <3>4, <3>5
    <3> QED BY <1>0, <1>1, <1>2, <2>2, <3>4, <3>5, <3>6, MemberCommits
  <2> QED BY <2>3, <2>4
<1> QED BY <1>3, <1>4, <1>5

\* Invitations are written.
LEMMA MemberInvites ==
  ASSUME MemberHolds, mixed' = (mixed \/ SeveralBusy(request')), NEW c \in Requests,
         (\E i \in Member!InviteIds : Member!InviteCommit(c, i)) \/ Member!Expire(c)
  PROVE  MemberHolds'
<1> DEFINE r == request[c]
<1>0. /\ Member!TypeOK /\ r.pc # "idle" /\ Member!Goto(c, Member!Idle) /\ r.of \in Persons
      /\ RowsHeld(c) /\ \A d \in Requests : HeldBy(d) \subseteq Member!Pending
      /\ HeldOnce /\ standing' = standing /\ roles' = roles
  <2>1. r.pc # "idle" /\ Member!Goto(c, Member!Idle) /\ standing' = standing /\ roles' = roles
    BY DEF Member!InviteCommit, Member!Expire, Member!At
  <2>2. Member!TypeOK
    BY DEF MemberHolds
  <2> QED BY <2>1, <2>2, RequestShape DEF MemberHolds, RowsHeld
<1>1. /\ standing \in [Persons -> Member!Standings \cup {None}] /\ roles \in [Persons -> SUBSET Member!Roles]
      /\ \A p \in Persons : standing[p] = None => roles[p] = {}
      /\ invite \in [Member!InviteIds -> Member!Invite \cup {Member!Absent}]
  BY <1>0 DEF Member!TypeOK
<1>2. ASSUME NEW i \in Member!InviteIds, Member!InviteCommit(c, i) PROVE MemberHolds'
  <2>1. /\ r.pc = "invite" /\ r.role \in Member!Roles /\ invite[i] = Member!Absent
    BY <1>0, <1>2, RequestShape DEF Member!InviteCommit, Member!At
  <2>2. PICK new : new = [state |-> "pending", to |-> r.of, role |-> r.role]
    OBVIOUS
  <2>3. new \in Member!Invite /\ new # Member!Absent
    BY <1>0, <2>1, <2>2 DEF Member!Invite, Member!Absent
  <2>4. invite' = [j \in Member!InviteIds |->
                     IF j = i THEN new
                     ELSE IF j \in r.earlier THEN [invite[j] EXCEPT !.state = "revoked"] ELSE invite[j]]
    BY <1>2, <2>2 DEF Member!InviteCommit, Member!AfterInvite
  <2>5. \A j \in r.earlier \cap Member!InviteIds : j \in HeldBy(c) /\ invite[j] \in Member!Invite
    BY <1>0, <1>1, <2>1 DEF HeldBy, Member!At, Member!Pending, Member!Absent
  <2>6. ASSUME NEW j \in Member!InviteIds
        PROVE  /\ invite'[j] \in Member!Invite \cup {Member!Absent}
               /\ invite[j] # Member!Absent => invite'[j] # Member!Absent
    <3>1. CASE j = i
      BY <2>3, <2>4, <3>1
    <3>2. CASE j # i /\ j \in r.earlier
      <4>1. PICK old : old = [invite[j] EXCEPT !.state = "revoked"]
        OBVIOUS
      <4>2. old \in Member!Invite /\ old # Member!Absent
        BY <2>5, <3>2, <4>1 DEF Member!Invite, Member!Absent
      <4> QED BY <2>4, <3>2, <4>1, <4>2
    <3>3. CASE j # i /\ j \notin r.earlier
      BY <1>1, <2>4, <3>3
    <3> QED BY <3>1, <3>2, <3>3
  <2>7. invite' \in [Member!InviteIds -> Member!Invite \cup {Member!Absent}]
    BY <2>4, <2>6
  <2>8. ASSUME NEW d \in Requests \ {c} PROVE HeldBy(d) \subseteq Member!Pending'
    <3> SUFFICES ASSUME NEW j \in HeldBy(d) PROVE j \in Member!Pending'
      OBVIOUS
    <3>1. j \in Member!Pending /\ j \in Member!InviteIds
      BY <1>0 DEF HeldBy
    <3>2. j # i
      BY <2>1, <3>1 DEF Member!Pending, Member!Absent
    <3>3. j \notin r.earlier
      BY <1>0, <2>5, <3>1 DEF HeldOnce
    <3> QED BY <2>4, <3>1, <3>2, <3>3 DEF Member!Pending
  <2> QED BY <1>0, <1>1, <2>6, <2>7, <2>8, MemberCommits
<1>3. CASE Member!Expire(c)
  <2>1. r.pc = "expire" /\ r.invite \in Member!InviteIds /\ invite[r.invite] # Member!Absent
    BY <1>0, <1>3, RequestShape DEF Member!Expire, Member!At, RowsHeld
  <2>2. PICK new : new = [invite[r.invite] EXCEPT !.state = "expired"]
    OBVIOUS
  <2>3. new \in Member!Invite /\ new # Member!Absent
    BY <1>1, <2>1, <2>2 DEF Member!Invite, Member!Absent
  <2>4. /\ invite' = [invite EXCEPT ![r.invite] = new] /\ ~Member!Claimed(r.invite)
    BY <1>3, <2>2 DEF Member!Expire
  <2>5. /\ invite' \in [Member!InviteIds -> Member!Invite \cup {Member!Absent}]
        /\ \A i \in Member!InviteIds : invite[i] # Member!Absent => invite'[i] # Member!Absent
        /\ \A i \in Member!InviteIds : i # r.invite => invite'[i] = invite[i]
    BY <1>1, <2>1, <2>3, <2>4
  <2>6. ASSUME NEW d \in Requests \ {c} PROVE HeldBy(d) \subseteq Member!Pending'
    <3>1. r.invite \notin HeldBy(d)
      BY <2>4 DEF HeldBy, Member!Claimed
    <3> QED BY <1>0, <2>5, <3>1 DEF Member!Pending
  <2> QED BY <1>0, <1>1, <2>5, <2>6, MemberCommits
<1> QED BY <1>2, <1>3

\* A step about memberships.
LEMMA MemberStep ==
  ASSUME MemberHolds, Member!Next, mixed' = (mixed \/ SeveralBusy(request'))
  PROVE  MemberHolds'
<1>1. ASSUME NEW i \in Member!InviteIds, NEW by \in Persons, Member!Resend(i, by) PROVE MemberHolds'
  <2>1. i \in Member!Pending /\ invite' = [invite EXCEPT ![i].state = "pending"]
        /\ UNCHANGED <<standing, roles, request>>
    BY <1>1 DEF Member!Resend, Member!Pending
  <2> QED BY <2>1, MemberMail
<1>2. ASSUME NEW i \in Member!InviteIds, NEW by \in Persons, Member!RevokeInvitation(i, by)
      PROVE MemberHolds'
  <2>1. i \in Member!Pending /\ invite' = [invite EXCEPT ![i].state = "revoked"]
        /\ ~Member!Claimed(i) /\ UNCHANGED <<standing, roles, request>>
    BY <1>2 DEF Member!RevokeInvitation
  <2> QED BY <2>1, MemberMail
<1>3. ASSUME NEW i \in Member!InviteIds, Member!FortnightPasses(i) PROVE MemberHolds'
  <2>1. i \in Member!Pending /\ invite' = [invite EXCEPT ![i].state = "lapsed"]
        /\ UNCHANGED <<standing, roles, request>>
    BY <1>3 DEF Member!FortnightPasses, Member!Pending
  <2> QED BY <2>1, MemberMail
<1>4. ASSUME NEW c \in Requests, NEW p \in Persons,
             \/ \E next \in {"active", "suspended"}, groups \in SUBSET Member!Controllable :
                  Member!ScimRead(c, p, next, TRUE, groups)
             \/ \E next \in {"active", "suspended", "revoked"} : Member!ScimRead(c, p, next, FALSE, {})
      PROVE  \E next \in Member!Standings, provision \in BOOLEAN, groups \in SUBSET Member!Roles :
               Member!ScimRead(c, p, next, provision, groups)
  <2>1. ASSUME NEW next \in {"active", "suspended"}, NEW groups \in SUBSET Member!Controllable,
               Member!ScimRead(c, p, next, TRUE, groups)
        PROVE  \E to \in Member!Standings, provision \in BOOLEAN, gs \in SUBSET Member!Roles :
                 Member!ScimRead(c, p, to, provision, gs)
    <3>1. next \in Member!Standings /\ groups \in SUBSET Member!Roles
      BY DEF Member!Standings, Member!Controllable
    <3> QED BY <2>1, <3>1
  <2>2. ASSUME NEW next \in {"active", "suspended", "revoked"}, Member!ScimRead(c, p, next, FALSE, {})
        PROVE  \E to \in Member!Standings, provision \in BOOLEAN, gs \in SUBSET Member!Roles :
                 Member!ScimRead(c, p, to, provision, gs)
    <3>1. next \in Member!Standings /\ {} \in SUBSET Member!Roles
      BY DEF Member!Standings
    <3> QED BY <2>2, <3>1
  <2> QED BY <1>4, <2>1, <2>2
<1>5. ASSUME NEW c \in Requests,
             \/ \E by, p \in Persons :
                  \/ \E role \in Member!Roles :
                       Member!AddCheck(c, by, p, role) \/ Member!ChangeRoleCheck(c, by, p, role)
                       \/ Member!InviteBegin(c, by, p, role)
                  \/ \E next \in {"active", "suspended", "revoked"} : Member!ChangeStatusCheck(c, by, p, next)
             \/ Member!ChangeStatusCommit(c) \/ Member!ClearRoles(c) \/ Member!ClaimRow(c)
             \/ Member!ReplaceCommit(c)
             \/ \E i \in Member!InviteIds : Member!InviteCommit(c, i) \/ Member!AcceptCheck(c, i)
             \/ Member!Expire(c) \/ Member!ScimCount(c) \/ Member!ScimWrite(c) \/ Member!Abort(c)
      PROVE  MemberHolds'
  BY <1>5, MemberChecks, MemberReads, MemberProceeds, MemberWrites, MemberInvites
<1>6. ASSUME NEW c \in Requests, NEW p \in Persons,
             \E next \in Member!Standings, provision \in BOOLEAN, groups \in SUBSET Member!Roles :
               Member!ScimRead(c, p, next, provision, groups)
      PROVE  MemberHolds'
  BY <1>6, MemberReads
<1> QED BY <1>1, <1>2, <1>3, <1>4, <1>5, <1>6 DEF Member!Next

\* One administrator, and no request at work.
LEMMA MemberStart == Member!Init /\ mixed = FALSE => MemberHolds
<1> SUFFICES ASSUME Member!Init, mixed = FALSE PROVE MemberHolds
  OBVIOUS
<1>1. Member!TypeOK
  BY NoneAssumption DEF Member!Init, Member!TypeOK, Member!Standings, Member!Roles
<1>2. \A c \in Requests : request[c].pc = "idle"
  BY DEF Member!Init, Member!Idle
<1>3. DOMAIN request = Requests
  BY DEF Member!Init
<1> QED BY <1>1, <1>2, <1>3 DEF MemberHolds, RowsHeld, HeldBy, HeldOnce, StillSo, SeveralBusy, Member!At

\* Steps of the other parts.
LEMMA MemberRests == MemberHolds /\ UNCHANGED <<memberVars, mixed>> => MemberHolds'
<1> SUFFICES ASSUME MemberHolds, UNCHANGED <<standing, roles, invite, request, mixed>>
             PROVE  MemberHolds'
  BY DEF memberVars
<1>1. Member!TypeOK' /\ Member!Pending' = Member!Pending
  BY DEF MemberHolds, Member!TypeOK, Member!Pending
<1>2. \A c \in Requests : HeldBy(c)' = HeldBy(c)
  BY DEF HeldBy, Member!At
<1>3. \A c \in Requests : RowsHeld(c)'
  BY <1>1, <1>2 DEF MemberHolds, RowsHeld, Member!At
<1>4. HeldOnce'
  BY <1>2 DEF MemberHolds, HeldOnce
<1>5. ~mixed => ~SeveralBusy(request') /\ \A c \in Requests : StillSo(c)'
  BY DEF MemberHolds, SeveralBusy, StillSo, Member!At, Member!LastAdministrator, Member!Administrators
<1> QED BY <1>1, <1>3, <1>4, <1>5 DEF MemberHolds

\* Standings and roles are written by three steps alone.
LEMMA MemberWriters ==
  Member!Next => \/ UNCHANGED <<standing, roles>>
                 \/ \E c \in Requests :
                      Member!ChangeStatusCommit(c) \/ Member!ReplaceCommit(c) \/ Member!ScimWrite(c)
<1> SUFFICES ASSUME Member!Next
             PROVE  \/ UNCHANGED <<standing, roles>>
                    \/ \E c \in Requests :
                         Member!ChangeStatusCommit(c) \/ Member!ReplaceCommit(c) \/ Member!ScimWrite(c)
  OBVIOUS
<1>1. ASSUME NEW c \in Requests, NEW by \in Persons, NEW p \in Persons, NEW role \in Member!Roles,
             Member!AddCheck(c, by, p, role) \/ Member!ChangeRoleCheck(c, by, p, role)
               \/ Member!InviteBegin(c, by, p, role)
      PROVE  UNCHANGED <<standing, roles>>
  BY <1>1 DEF Member!AddCheck, Member!ChangeRoleCheck, Member!InviteBegin
<1>2. ASSUME NEW c \in Requests, NEW by \in Persons, NEW p \in Persons,
             NEW next \in {"active", "suspended", "revoked"}, Member!ChangeStatusCheck(c, by, p, next)
      PROVE  UNCHANGED <<standing, roles>>
  BY <1>2 DEF Member!ChangeStatusCheck
<1>3. ASSUME NEW c \in Requests, NEW i \in Member!InviteIds,
             Member!InviteCommit(c, i) \/ Member!AcceptCheck(c, i)
      PROVE  UNCHANGED <<standing, roles>>
  BY <1>3 DEF Member!InviteCommit, Member!AcceptCheck
<1>4. ASSUME NEW c \in Requests,
             \/ Member!ClearRoles(c) \/ Member!ClaimRow(c) \/ Member!Expire(c)
             \/ Member!ScimCount(c) \/ Member!Abort(c)
      PROVE  UNCHANGED <<standing, roles>>
  BY <1>4 DEF Member!ClearRoles, Member!ClaimRow, Member!Expire, Member!ScimCount, Member!Abort
<1>5. ASSUME NEW c \in Requests, NEW p \in Persons, NEW next, NEW provision, NEW groups,
             Member!ScimRead(c, p, next, provision, groups)
      PROVE  UNCHANGED <<standing, roles>>
  BY <1>5 DEF Member!ScimRead
<1>6. ASSUME NEW i \in Member!InviteIds, NEW by \in Persons,
             Member!Resend(i, by) \/ Member!RevokeInvitation(i, by) \/ Member!FortnightPasses(i)
      PROVE  UNCHANGED <<standing, roles>>
  BY <1>6 DEF Member!Resend, Member!RevokeInvitation, Member!FortnightPasses
<1>7. ASSUME NEW i \in Member!InviteIds, Member!FortnightPasses(i)
      PROVE  UNCHANGED <<standing, roles>>
  BY <1>7 DEF Member!FortnightPasses
<1> QED BY <1>1, <1>2, <1>3, <1>4, <1>5, <1>6, <1>7 DEF Member!Next

\* An administrator who is not the last one is not alone.
LEMMA AnotherAdministrator ==
  ASSUME NEW p \in Persons, Member!Administrators # {}, ~Member!LastAdministrator(p)
  PROVE  \E q \in Member!Administrators : q # p
<1>1. CASE p \notin Member!Administrators
  <2>1. PICK q : q \in Member!Administrators
    OBVIOUS
  <2> QED BY <1>1, <2>1
<1>2. CASE ~(Member!Administrators \subseteq {p})
  BY <1>2
<1> QED BY <1>1, <1>2 DEF Member!LastAdministrator

\* A request alone at work leaves an administrator, unless it accepts an
\* invitation.
LEMMA AdministratorKept ==
  ASSUME MemberHolds, ~mixed, NEW c \in Requests,
         Member!ChangeStatusCommit(c) \/ Member!ReplaceCommit(c) \/ Member!ScimWrite(c),
         Member!Administrators # {}, ~Accepts(c)
  PROVE  Member!Administrators' # {}
<1> DEFINE r == request[c]
<1>0. /\ Member!TypeOK /\ StillSo(c) /\ r.pc # "idle" /\ r.of \in Persons
      /\ standing \in [Persons -> Member!Standings \cup {None}] /\ roles \in [Persons -> SUBSET Member!Roles]
  <2>1. Member!TypeOK /\ StillSo(c)
    BY DEF MemberHolds
  <2>2. r.pc # "idle"
    BY DEF Member!ChangeStatusCommit, Member!ReplaceCommit, Member!ScimWrite, Member!At
  <2> QED BY <2>1, <2>2, RequestShape DEF Member!TypeOK
<1>1. CASE Member!ChangeStatusCommit(c)
  <2>1. /\ standing' = [standing EXCEPT ![r.of] = r.next] /\ roles' = roles
        /\ (r.next # "active" => ~Member!LastAdministrator(r.of))
    BY <1>0, <1>1 DEF Member!ChangeStatusCommit, StillSo
  <2>2. CASE r.next = "active"
    BY <1>0, <2>1, <2>2 DEF Member!Administrators
  <2>3. CASE r.next # "active"
    <3>1. PICK q \in Member!Administrators : q # r.of
      BY <1>0, <2>1, <2>3, AnotherAdministrator
    <3> QED BY <1>0, <2>1, <3>1 DEF Member!Administrators
  <2> QED BY <2>2, <2>3
<1>2. CASE Member!ReplaceCommit(c)
  <2>1. /\ roles' = [roles EXCEPT ![r.of] = (roles[r.of] \ r.cleared) \cup {r.role}]
        /\ standing' = IF r.holdsRow THEN [standing EXCEPT ![r.of] = "active"] ELSE standing
        /\ r.pc = "replace"
    BY <1>0, <1>2 DEF Member!ReplaceCommit, Member!StandingAfter, Member!At
  <2>2. r.invite = None
    <3>1. request'[c] = Member!Idle
      BY <1>0, <1>2 DEF Member!ReplaceCommit, Member!Goto, Member!TypeOK
    <3> QED BY <2>1, <3>1 DEF Accepts, Ends, Member!Idle
  <2>3. CASE \E q \in Member!Administrators : q # r.of
    <3>1. PICK q \in Member!Administrators : q # r.of
      BY <2>3
    <3>2. q \in Persons /\ standing[q] = "active" /\ "admin" \in roles[q]
      BY <3>1 DEF Member!Administrators
    <3>3. standing'[q] = standing[q] /\ roles'[q] = roles[q]
      BY <1>0, <2>1, <3>1, <3>2
    <3> QED BY <3>2, <3>3 DEF Member!Administrators
  <2>4. CASE Member!LastAdministrator(r.of)
    <3>1. r.role = "admin" /\ standing[r.of] = "active"
      BY <1>0, <2>1, <2>2, <2>4 DEF StillSo, Member!LastAdministrator, Member!Administrators
    <3>2. standing'[r.of] = "active" /\ "admin" \in roles'[r.of]
      BY <1>0, <2>1, <3>1
    <3> QED BY <1>0, <3>2 DEF Member!Administrators
  <2> QED BY <1>0, <2>3, <2>4, AnotherAdministrator
<1>3. CASE Member!ScimWrite(c)
  <2>1. CASE UNCHANGED <<standing, roles>>
    BY <2>1 DEF Member!Administrators
  <2>2. CASE ~UNCHANGED <<standing, roles>>
    <3>1. PICK stands : stands = [standing EXCEPT ![r.of] = r.next]
      OBVIOUS
    <3>2. /\ standing' = stands /\ r.pc = "scim write"
          /\ roles' = IF r.provision
                      THEN [roles EXCEPT ![r.of] = (roles[r.of] \ Member!Controllable)
                                                     \cup Member!Desired(r, stands)]
                      ELSE roles
      BY <1>0, <1>3, <2>2, <3>1 DEF Member!ScimWrite, Member!At
    <3>3. /\ standing[r.of] = r.was
          /\ (r.was = "active" /\ r.next # "active" => ~Member!LastAdministrator(r.of))
      BY <1>0, <3>2 DEF StillSo, Member!At
    <3>4. CASE \E q \in Member!Administrators : q # r.of
      <4>1. PICK q \in Member!Administrators : q # r.of
        BY <3>4
      <4>2. q \in Persons /\ standing[q] = "active" /\ "admin" \in roles[q]
        BY <4>1 DEF Member!Administrators
      <4>3. standing'[q] = standing[q] /\ roles'[q] = roles[q]
        BY <1>0, <3>1, <3>2, <4>1, <4>2
      <4> QED BY <4>2, <4>3 DEF Member!Administrators
    <3>5. CASE Member!LastAdministrator(r.of)
      <4>1. /\ standing[r.of] = "active" /\ "admin" \in roles[r.of] /\ r.next = "active"
            /\ Member!Administrators \subseteq {r.of}
        BY <3>3, <3>5 DEF Member!LastAdministrator, Member!Administrators
      <4>2. stands[r.of] = "active"
        BY <1>0, <3>1, <4>1
      <4>3. "admin" \in Member!Controllable => "admin" \in Member!Desired(r, stands)
        BY <4>1, <4>2 DEF Member!Desired
      <4>4. "admin" \in roles'[r.of]
        BY <1>0, <3>2, <4>1, <4>3
      <4> QED BY <1>0, <3>2, <4>2, <4>4 DEF Member!Administrators
    <3> QED BY <1>0, <3>4, <3>5, AnotherAdministrator
  <2> QED BY <2>1, <2>2
<1> QED BY <1>1, <1>2, <1>3

\* A request alone at work that ends SCIM's write revives nobody.
LEMMA NobodyRevived ==
  ASSUME MemberHolds, ~mixed, Member!Next
  PROVE  ScimRevivesNobody
<1> SUFFICES ASSUME NEW p \in Persons, standing[p] = "revoked", standing'[p] # "revoked",
                    NEW d \in Requests, Ends(d, "scim write")
             PROVE  FALSE
  BY DEF ScimRevivesNobody
<1>0. Member!TypeOK /\ StillSo(d) /\ request[d].pc = "scim write" /\ request'[d].pc = "idle"
  BY DEF MemberHolds, Ends
<1>1. PICK c \in Requests :
        Member!ChangeStatusCommit(c) \/ Member!ReplaceCommit(c) \/ Member!ScimWrite(c)
  BY MemberWriters
<1>2. Member!Goto(c, Member!Idle)
  BY <1>1 DEF Member!ChangeStatusCommit, Member!ReplaceCommit, Member!ScimWrite
<1>3. d = c
  BY <1>0, <1>2 DEF Member!TypeOK, Member!Goto
<1>4. Member!ScimWrite(c)
  BY <1>0, <1>1, <1>3 DEF Member!ChangeStatusCommit, Member!ReplaceCommit, Member!At
<1>5. request[c].of \in Persons /\ standing[request[c].of] # "revoked"
  BY <1>0, <1>3, RequestShape DEF StillSo
<1>6. standing' = standing \/ standing' = [standing EXCEPT ![request[c].of] = request[c].next]
  BY <1>4 DEF Member!ScimWrite
<1> QED BY <1>0, <1>5, <1>6 DEF Member!TypeOK

-----------------------------------------------------------------------------
(* The three together.                                                     *)

PeopleHolds == AssignmentHolds /\ MemberHolds /\ FormsHold

\* The conjunction of the three invariants is inductive.
LEMMA PeopleInvariant == PeopleSpec => []PeopleHolds
<1>1. PeopleInit => PeopleHolds
  BY AssignmentStart, MemberStart, FormsStart DEF PeopleInit, PeopleHolds
<1>2. PeopleHolds /\ [PeopleNext]_everything => PeopleHolds'
  <2> SUFFICES ASSUME PeopleHolds, [PeopleNext]_everything PROVE PeopleHolds'
    OBVIOUS
  <2>1. CASE UNCHANGED everything
    BY <2>1, AssignmentRests, MemberRests, FormsRest DEF everything, PeopleHolds
  <2>2. CASE /\ Next /\ overlapped' = (overlapped \/ SeveralBusy(call'))
             /\ UNCHANGED <<memberVars, formVars, mixed>>
    BY <2>2, AssignmentStep, MemberRests, FormsRest DEF PeopleHolds
  <2>3. CASE /\ Member!Next /\ mixed' = (mixed \/ SeveralBusy(request'))
             /\ UNCHANGED <<vars, formVars, overlapped>>
    BY <2>3, AssignmentRests, MemberStep, FormsRest DEF PeopleHolds
  <2>4. CASE Public!Next /\ UNCHANGED <<vars, memberVars, overlapped, mixed>>
    BY <2>4, AssignmentRests, MemberRests, FormsStep DEF PeopleHolds
  <2> QED BY <2>1, <2>2, <2>3, <2>4 DEF PeopleNext
<1> QED BY <1>1, <1>2, PTL DEF PeopleSpec

\* The assignee the case names is one of the active, and the only one as
\* long as assignments were made one after another (assignApplication).
THEOREM AssigneeIsOne == PeopleSpec => []OneAssignee
<1>1. PeopleHolds => OneAssignee
  BY DEF PeopleHolds, AssignmentHolds, MemberHolds, OneAssignee, SerialOneActive
<1> QED BY <1>1, PeopleInvariant, PTL

\* However many submit at once and whoever revokes, deletes or links
\* meanwhile: an invitation to a form has one response exactly when it is
\* completed, and the response's file goes where the response goes
\* (submitPublicResponse, linkResponseToCase).
THEOREM FormsAlwaysAnsweredOnce == PeopleSpec => []FormsAnsweredOnce
<1>1. PeopleHolds => FormsAnsweredOnce
  BY DEF PeopleHolds, FormsHold, FormsAnsweredOnce
<1> QED BY <1>1, PeopleInvariant, PTL

\* The commit that admits by an invitation finds it pending, since the
\* transaction has held it from the statement that claimed it
\* (acceptInvitation).
THEOREM AdmittedOnce == PeopleSpec => InvitationAdmitsOnce
<1>1. PeopleHolds => \A c \in Requests : Accepts(c) /\ invite' # invite
                       => invite[request[c].invite].state \in {"pending", "lapsed"}
  <2> SUFFICES ASSUME PeopleHolds, NEW c \in Requests, Accepts(c)
               PROVE  invite[request[c].invite].state \in {"pending", "lapsed"}
    OBVIOUS
  <2>1. Member!TypeOK /\ RowsHeld(c) /\ request[c].pc = "replace" /\ request[c].invite # None
    BY DEF PeopleHolds, MemberHolds, Accepts, Ends
  <2>2. request[c].invite \in HeldBy(c)
    BY <2>1, RequestShape DEF HeldBy, Member!At
  <2> QED BY <2>1, <2>2 DEF RowsHeld, Member!Pending
<1> QED BY <1>1, PeopleInvariant, PTL DEF InvitationAdmitsOnce

\* While requests come one after another an organisation keeps an active
\* administrator, and the provider revives nobody who was revoked
\* (activeAdministratorCount, soleActiveAdministrator, scim/service.ts).
THEOREM MembersKept == PeopleSpec => SerialMembersKept
<1>1. ASSUME PeopleHolds, [PeopleNext]_everything, ~mixed
      PROVE  KeepsAdministrator /\ ScimRevivesNobody
  <2>1. CASE UNCHANGED memberVars
    BY <2>1 DEF memberVars, KeepsAdministrator, ScimRevivesNobody, Member!Administrators
  <2>2. CASE Member!Next
    <3>1. ScimRevivesNobody
      BY <1>1, <2>2, NobodyRevived DEF PeopleHolds
    <3>2. KeepsAdministrator
      <4> SUFFICES ASSUME Member!Administrators # {}, Member!Administrators' = {}
                   PROVE  \E c \in Requests : Accepts(c)
        BY DEF KeepsAdministrator
      <4>1. ~UNCHANGED <<standing, roles>>
        BY DEF Member!Administrators
      <4>2. PICK c \in Requests :
              Member!ChangeStatusCommit(c) \/ Member!ReplaceCommit(c) \/ Member!ScimWrite(c)
        BY <2>2, <4>1, MemberWriters
      <4> QED BY <1>1, <4>2, AdministratorKept DEF PeopleHolds
    <3> QED BY <3>1, <3>2
  <2> QED BY <1>1, <2>1, <2>2 DEF PeopleNext, everything
<1> QED BY <1>1, PeopleInvariant, PTL DEF PeopleSpec, SerialMembersKept
=============================================================================
