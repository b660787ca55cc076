------------------------------- MODULE Forms -------------------------------
(* Forms sent to people by a link: staff publish a form and invite; the     *)
(* holder of the link saves drafts, uploads a file and submits once; staff  *)
(* put the response, and its file, on a case.  The public handlers read     *)
(* the invitation and the form when they begin (resolveUsableInvitation)    *)
(* and write later.  Whether the organisation is operational and what the   *)
(* fields of the form are is left out: a refusal changes nothing.           *)
(* Code: src/src/domains/forms/service.ts, evidence/service.ts.             *)
(*                                                                          *)
(* Operators whose names begin with Mut are slips this code could have      *)
(* made in the definition that follows them; no action uses them.           *)
EXTENDS Naturals

CONSTANTS
  Invitations,
  Matters,     \* the cases a response may be put on, the form's own among them
  Requests,    \* concurrent requests, of the public and of staff
  None

VARIABLES
  form,     \* its status and the case it was made for, if any
  link,     \* form_invitations: status, whether expired, whether a draft is kept
  file,     \* the evidence row uploaded under an invitation, one at most
  answer,   \* form_responses of an invitation: how many, on which case, whether with the file
  gone,     \* cases retention has deleted
  handler
vars == <<form, link, file, answer, gone, handler>>

Idle == [pc |-> "idle"]
NoFile == [state |-> "none", on |-> None]
MaybeMatter == Matters \cup {None}
PublicSteps == {"open", "draft", "upload", "confirm", "submit"}
Handling ==
  [pc : PublicSteps, of : Invitations]
    \cup [pc : {"insert file"}, of : Invitations, on : MaybeMatter]
    \cup [pc : {"read case"}, of : Invitations, names : BOOLEAN]
    \cup [pc : {"claim"}, of : Invitations, names : BOOLEAN, on : MaybeMatter]
    \cup [pc : {"link"}, of : Invitations, on : Matters]

TypeOK ==
  /\ form \in [status : {"draft", "published", "closed"}, for : MaybeMatter]
  /\ link \in [Invitations -> [state : {"none", "pending", "opened", "completed", "revoked"},
                               expired : BOOLEAN, draft : BOOLEAN]]
  /\ file \in [Invitations -> [state : {"none", "pending", "submittable", "deleted"}, on : MaybeMatter]]
  /\ answer \in [Invitations -> [count : Nat, on : MaybeMatter, names : BOOLEAN]]
  /\ gone \subseteq Matters
  /\ handler \in [Requests -> {Idle} \cup Handling]

Init ==
  /\ form \in [status : {"draft"}, for : MaybeMatter]
  /\ link = [i \in Invitations |-> [state |-> "none", expired |-> FALSE, draft |-> FALSE]]
  /\ file = [i \in Invitations |-> NoFile]
  /\ answer = [i \in Invitations |-> [count |-> 0, on |-> None, names |-> FALSE]]
  /\ gone = {}
  /\ handler = [r \in Requests |-> Idle]

At(r, pc) == handler[r].pc = pc
Goto(r, next) == handler' = [handler EXCEPT ![r] = next]
Live(i) == link[i].state \in {"pending", "opened"}

-----------------------------------------------------------------------------
(* Staff.                                                                  *)

\* publishForm, closeForm: from whatever status was read, if it still is so.
SetFormStatus(next) ==
  /\ form' = [form EXCEPT !.status = next]
  /\ UNCHANGED <<link, file, answer, gone, handler>>

CreateInvitation(i) ==
  /\ link[i].state = "none"
  /\ link' = [link EXCEPT ![i].state = "pending"]
  /\ UNCHANGED <<form, file, answer, gone, handler>>

\* One conditional update: what was read before it only refuses.
RevokeInvitation(i) ==
  /\ Live(i)
  /\ link' = [link EXCEPT ![i].state = "revoked"]
  /\ UNCHANGED <<form, file, answer, gone, handler>>

Expire(i) ==
  /\ Live(i) /\ ~link[i].expired
  /\ link' = [link EXCEPT ![i].expired = TRUE]
  /\ UNCHANGED <<form, file, answer, gone, handler>>

\* Retention deletes a case and the files on it; its responses stay until
\* their own time comes.
DeleteCase(m) ==
  /\ m \notin gone /\ gone' = gone \cup {m}
  /\ file' = [i \in Invitations |-> 
                IF file[i].on = m THEN [file[i] EXCEPT !.state = "deleted"] ELSE file[i]]
  /\ UNCHANGED <<form, link, answer, handler>>

\* A policy for evidence takes a file by itself, on a case or on none.
DisposeFile(i) ==
  /\ file[i].state \notin {"none", "deleted"}
  /\ file' = [file EXCEPT ![i].state = "deleted"]
  /\ UNCHANGED <<form, link, answer, gone, handler>>

-----------------------------------------------------------------------------
(* The holder of the link.                                                 *)

Usable(i) == Live(i) /\ ~link[i].expired /\ form.status = "published"

\* resolveUsableInvitation, at the head of every public handler.
Resolve(r, i, step) ==
  /\ At(r, "idle") /\ Usable(i)
  /\ step = "open" => link[i].state = "pending"
  /\ step = "confirm" => file[i].state = "pending"
  /\ step = "upload" => file[i].state = "none"
  /\ Goto(r, [pc |-> step, of |-> i])
  /\ UNCHANGED <<form, link, file, answer, gone>>

\* getPublicForm.
MarkOpened(r) ==
  LET i == handler[r].of IN
  /\ At(r, "open")
  /\ link' = IF link[i].state = "pending" THEN [link EXCEPT ![i].state = "opened"] ELSE link
  /\ Goto(r, Idle)
  /\ UNCHANGED <<form, file, answer, gone>>

DraftWrite(i) == Live(i)

\* savePublicDraft, sealed between the check and the write.
SaveDraft(r) ==
  LET i == handler[r].of IN
  /\ At(r, "draft")
  /\ link' = IF DraftWrite(i) THEN [link EXCEPT ![i].draft = TRUE] ELSE link
  /\ Goto(r, Idle)
  /\ UNCHANGED <<form, file, answer, gone>>

\* The form's case, unless it has been deleted (applicationInOrg).
FormCase == IF form.for \in gone THEN None ELSE form.for

\* requestPublicFileUpload: the case is read before the row is inserted.
UploadReadCase(r) ==
  /\ At(r, "upload")
  /\ Goto(r, [pc |-> "insert file", of |-> handler[r].of, on |-> FormCase])
  /\ UNCHANGED <<form, link, file, answer, gone>>

UploadInsert(r) ==
  LET i == handler[r].of IN
  /\ At(r, "insert file")
  /\ file' = IF file[i] = NoFile
               THEN [file EXCEPT ![i] = [state |-> "pending", on |-> handler[r].on]] ELSE file
  /\ Goto(r, Idle)
  /\ UNCHANGED <<form, link, answer, gone>>

\* completePublicFileUpload; the scan that follows is EvidenceScan's.
ConfirmUpload(r) ==
  LET i == handler[r].of IN
  /\ At(r, "confirm")
  /\ file' = IF file[i].state = "pending" THEN [file EXCEPT ![i].state = "submittable"] ELSE file
  /\ Goto(r, Idle)
  /\ UNCHANGED <<form, link, answer, gone>>

\* assertFileAnswers, then applicationInOrg.
SubmitCheck(r, names) ==
  LET i == handler[r].of IN
  /\ At(r, "submit")
  /\ names => file[i].state = "submittable"
  /\ Goto(r, [pc |-> "read case", of |-> i, names |-> names])
  /\ UNCHANGED <<form, link, file, answer, gone>>

SubmitReadCase(r) ==
  LET h == handler[r] IN
  /\ At(r, "read case")
  /\ Goto(r, [pc |-> "claim", of |-> h.of, names |-> h.names, on |-> FormCase])
  /\ UNCHANGED <<form, link, file, answer, gone>>

MutClaimable(i) == link[i].state # "revoked"
Claimable(i) == Live(i)

\* The token is claimed and the response inserted in one transaction.
SubmitClaim(r) ==
  LET h == handler[r] IN
  /\ At(r, "claim")
  /\ IF Claimable(h.of)
       THEN /\ link' = [link EXCEPT ![h.of] = [link[h.of] EXCEPT !.state = "completed", !.draft = FALSE]]
            /\ answer' = [answer EXCEPT ![h.of] =
                            [count |-> @.count + 1, on |-> h.on, names |-> h.names]]
       ELSE UNCHANGED <<link, answer>>
  /\ Goto(r, Idle)
  /\ UNCHANGED <<form, file, gone>>

-----------------------------------------------------------------------------
(* Staff put a response on a case: attachResponseToCase for one that is    *)
(* there, createCaseFromResponse for one opened for it.                    *)

Linkable(i) == answer[i].on = None

LinkCheck(r, i, m) ==
  /\ At(r, "idle")
  /\ answer[i].count > 0 /\ Linkable(i) /\ m \notin gone
  /\ Goto(r, [pc |-> "link", of |-> i, on |-> m])
  /\ UNCHANGED <<form, link, file, answer, gone>>

\* The case is not read again.  The file moves with the response unless it
\* is on a case already or deleted (attachFormEvidenceToApplication).
LinkResponse(r) ==
  LET h == handler[r] IN
  /\ At(r, "link")
  /\ IF Linkable(h.of)
       THEN /\ answer' = [answer EXCEPT ![h.of].on = h.on]
            /\ file' = IF file[h.of].state \notin {"none", "deleted"} /\ file[h.of].on = None
                         THEN [file EXCEPT ![h.of].on = h.on] ELSE file
       ELSE UNCHANGED <<answer, file>>
  /\ Goto(r, Idle)
  /\ UNCHANGED <<form, link, gone>>

-----------------------------------------------------------------------------
Next ==
  \/ \E status \in {"published", "closed"} : SetFormStatus(status)
  \/ \E i \in Invitations :
       CreateInvitation(i) \/ RevokeInvitation(i) \/ Expire(i) \/ DisposeFile(i)
  \/ \E m \in Matters : DeleteCase(m)
  \/ \E r \in Requests :
       \/ \E i \in Invitations :
            \/ \E step \in PublicSteps : Resolve(r, i, step)
            \/ \E m \in Matters : LinkCheck(r, i, m)
       \/ MarkOpened(r) \/ SaveDraft(r) \/ UploadReadCase(r) \/ UploadInsert(r)
       \/ ConfirmUpload(r) \/ SubmitReadCase(r) \/ SubmitClaim(r) \/ LinkResponse(r)
       \/ \E names \in BOOLEAN : SubmitCheck(r, names)

Spec == Init /\ [][Next]_vars

(* "single use" (submitPublicResponse), however many submit at once and    *)
(* whoever revokes meanwhile: an invitation has one response exactly when  *)
(* it is completed, and no draft of the answers outlives the submission.   *)
AnsweredOnce ==
  \A i \in Invitations :
    /\ answer[i].count = (IF link[i].state = "completed" THEN 1 ELSE 0)
    /\ link[i].state = "completed" => ~link[i].draft

(* The file a response names is on the response's case for as long as the  *)
(* file is kept, unless the case it was uploaded to has been deleted.      *)
FileFollows ==
  \A i \in Invitations :
    answer[i].names /\ file[i].state # "deleted" /\ file[i].on \notin gone
      => file[i].on = answer[i].on
=============================================================================
