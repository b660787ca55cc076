------------------------------ MODULE Sittings ------------------------------
(* Committee meetings as one case meets them: it is listed for sittings,   *)
(* which moves it into the committee stage; a decision about it is tied to *)
(* a sitting that listed it, when it is proposed or when it is finalised;  *)
(* and members are recorded as present.  What a request has read may have  *)
(* changed by the time it writes.                                          *)
(* Code: src/src/domains/meetings/service.ts, decisions/meeting-link.ts,   *)
(* decisions/service.ts.  Votes, conflicts and the case's own workflow are *)
(* in CaseDecision; here the case has only the stage they leave it in.     *)
(*                                                                         *)
(* Operators whose names begin with Mut are slips this code could have     *)
(* made in the definition that follows them; no action uses them.          *)
CONSTANTS
  Meetings, Proposals, Members, Requests,
  None

VARIABLES
  meeting,     \* absent, scheduled or cancelled
  agenda,      \* the meetings whose agenda has a row for the case
  stage,       \* of the case
  proposal,    \* decisions: status and the meeting each is tied to
  attendance,  \* of each meeting and member: the row, and the id its note is sealed under
  request
vars == <<meeting, agenda, stage, proposal, attendance, request>>

Idle == [pc |-> "idle"]
Links == Meetings \cup {None}

TypeOK ==
  /\ meeting \in [Meetings -> {"absent", "scheduled", "cancelled"}]
  /\ agenda \subseteq Meetings
  /\ stage \in {"early", "ready", "committee", "decided"}
  /\ proposal \in [Proposals -> [status : {"none", "proposed", "finalised"}, meeting : Links]]
  /\ attendance \in [Meetings \X Members -> {None} \cup [id : Requests, sealed : Requests]]
  /\ request \in [Requests -> {Idle}
       \cup [pc : {"list", "schedule"}, m : Meetings]
       \cup [pc : {"propose", "finalise"}, d : Proposals, link : Links]
       \cup [pc : {"attend"}, m : Meetings, u : Members]]

Init ==
  /\ meeting = [m \in Meetings |-> "absent"] /\ agenda = {} /\ stage = "early"
  /\ proposal = [d \in Proposals |-> [status |-> "none", meeting |-> None]]
  /\ attendance = [x \in Meetings \X Members |-> None]
  /\ request = [c \in Requests |-> Idle]

Asks(c, r) == request[c] = Idle /\ request' = [request EXCEPT ![c] = r]
Ends(c) == request' = [request EXCEPT ![c] = Idle]

-----------------------------------------------------------------------------
(* The sittings.                                                           *)

\* createMeeting, importMeetingsFromIcs.
CreateMeeting(m) ==
  /\ meeting[m] = "absent" /\ meeting' = [meeting EXCEPT ![m] = "scheduled"]
  /\ UNCHANGED <<agenda, stage, proposal, attendance, request>>
CancelMeeting(m) ==
  /\ meeting[m] # "absent" /\ meeting' = [meeting EXCEPT ![m] = "cancelled"]
  /\ UNCHANGED <<agenda, stage, proposal, attendance, request>>

\* addAgendaItem; the meeting need only exist.
FindItem(c, m) ==
  /\ meeting[m] # "absent" /\ m \notin agenda
  /\ Asks(c, [pc |-> "list", m |-> m])
  /\ UNCHANGED <<meeting, agenda, stage, proposal, attendance>>
\* One row to a meeting and a case: the later of two inserts is refused.
InsertItem(c) ==
  /\ request[c].pc = "list"
  /\ IF request[c].m \in agenda THEN UNCHANGED agenda /\ Ends(c)
     ELSE /\ agenda' = agenda \cup {request[c].m}
          /\ request' = [request EXCEPT ![c].pc = "schedule"]
  /\ UNCHANGED <<meeting, stage, proposal, attendance>>
\* A transition the case is not ready for is passed over.
ScheduleCommittee(c) ==
  /\ request[c].pc = "schedule" /\ Ends(c)
  /\ stage' = (IF stage = "ready" THEN "committee" ELSE stage)
  /\ UNCHANGED <<meeting, agenda, proposal, attendance>>

RemoveItem(m) ==
  /\ agenda' = agenda \ {m} /\ m \in agenda
  /\ UNCHANGED <<meeting, stage, proposal, attendance, request>>

-----------------------------------------------------------------------------
(* linkedMeetingId, resolveMeetingLink.                                    *)

Open == {m \in agenda : meeting[m] # "cancelled"}

\* The meeting a decision comes to be tied to; none of them if it is refused.
MutLinked(requested, existing) ==
  LET l == IF requested # None THEN requested ELSE existing IN
  {x \in {l} : IF x = None THEN Open = {} ELSE x \in Open \cup {existing}}
Linked(requested, existing) ==
  LET l == IF requested # None THEN requested ELSE existing IN
  {x \in {l} : /\ existing \in {None, l}
               /\ IF x = None THEN Open = {} ELSE x \in Open \cup {existing}}

ProposeCheck(c, d, requested) ==
  /\ stage \in {"ready", "committee"} /\ proposal[d].status = "none"
  /\ \E l \in Linked(requested, None) : Asks(c, [pc |-> "propose", d |-> d, link |-> l])
  /\ UNCHANGED <<meeting, agenda, stage, proposal, attendance>>
Propose(c) ==
  /\ request[c].pc = "propose" /\ proposal[request[c].d].status = "none" /\ Ends(c)
  /\ proposal' = [proposal EXCEPT ![request[c].d] =
                    [status |-> "proposed", meeting |-> request[c].link]]
  /\ UNCHANGED <<meeting, agenda, stage, attendance>>

FinaliseCheck(c, d, requested) ==
  /\ proposal[d].status = "proposed"
  /\ \E l \in Linked(requested, proposal[d].meeting) :
       Asks(c, [pc |-> "finalise", d |-> d, link |-> l])
  /\ UNCHANGED <<meeting, agenda, stage, proposal, attendance>>
\* One transaction: a decision somebody has finalised meanwhile, or a case that
\* is not in committee, leaves nothing written.
FinaliseCommit(c) ==
  /\ request[c].pc = "finalise" /\ Ends(c)
  /\ IF proposal[request[c].d].status = "proposed" /\ stage = "committee"
     THEN /\ proposal' = [proposal EXCEPT ![request[c].d] =
                            [status |-> "finalised", meeting |-> request[c].link]]
          /\ stage' = "decided"
     ELSE UNCHANGED <<proposal, stage>>
  /\ UNCHANGED <<meeting, agenda, attendance>>

-----------------------------------------------------------------------------
(* recordAttendance: the note is sealed under the id the row would have,   *)
(* and again under the one it has if somebody recorded the member before.  *)

AttendCheck(c, m, u) ==
  /\ meeting[m] # "absent" /\ Asks(c, [pc |-> "attend", m |-> m, u |-> u])
  /\ UNCHANGED <<meeting, agenda, stage, proposal, attendance>>

Saved(old, candidate) == IF old = None THEN [id |-> candidate, sealed |-> candidate]
                         ELSE [old EXCEPT !.sealed = old.id]
SaveAttendance(c) ==
  /\ request[c].pc = "attend" /\ Ends(c)
  /\ attendance' = [attendance EXCEPT ![<<request[c].m, request[c].u>>] = Saved(@, c)]
  /\ UNCHANGED <<meeting, agenda, stage, proposal>>

-----------------------------------------------------------------------------
\* The rest of the workflow, and a process that dies or is refused the database.
CaseMoves(to) ==
  /\ <<stage, to>> \in {<<"early", "ready">>, <<"ready", "early">>, <<"ready", "committee">>,
                        <<"committee", "early">>, <<"committee", "decided">>, <<"decided", "early">>}
  /\ stage' = to
  /\ UNCHANGED <<meeting, agenda, proposal, attendance, request>>
RequestLost(c) ==
  /\ request[c] # Idle /\ Ends(c)
  /\ UNCHANGED <<meeting, agenda, stage, proposal, attendance>>

Next ==
  \/ \E m \in Meetings : CreateMeeting(m) \/ CancelMeeting(m) \/ RemoveItem(m)
  \/ \E to \in {"early", "ready", "committee", "decided"} : CaseMoves(to)
  \/ \E c \in Requests :
       \/ InsertItem(c) \/ ScheduleCommittee(c) \/ Propose(c) \/ FinaliseCommit(c)
       \/ SaveAttendance(c) \/ RequestLost(c)
       \/ \E m \in Meetings : FindItem(c, m) \/ \E u \in Members : AttendCheck(c, m, u)
       \/ \E d \in Proposals, l \in Links : ProposeCheck(c, d, l) \/ FinaliseCheck(c, d, l)
Spec == Init /\ [][Next]_vars

-----------------------------------------------------------------------------
(* What MCOffice states of it.                                             *)

NoteOpens == \A x \in DOMAIN attendance : attendance[x] # None => attendance[x].sealed = attendance[x].id
\* "A meeting already stored on the decision stays."
LinkKept == \A d \in Proposals : proposal[d].meeting # None => proposal'[d].meeting = proposal[d].meeting
Finalises(d) == proposal[d].status # "finalised" /\ proposal'[d].status = "finalised"
\* A decision is not finalised "in silence when the case is already on an agenda".
NotInSilence ==
  \A d \in Proposals : Finalises(d) /\ proposal'[d].meeting = None => Open = {}
=============================================================================
