------------------------------ MODULE MCPeople ------------------------------
(* Instances for TLC of who holds a case (CaseAssignment), of who belongs  *)
(* to the organisation (Memberships) and of what people are sent a link to *)
(* (Forms), with history variables that tell the behaviours in which       *)
(* requests came one after another.  The three share no state, so a        *)
(* behaviour moves one of them, inPlay, and leaves the others where they   *)
(* began.                                                                  *)
EXTENDS CaseAssignment, FiniteSets, TLC

CONSTANTS Persons, MaxInvites, MayAdmin, Requests, Invitations, Matters

ASSUME NoneAssumption ==
  /\ MaxInvites \in Nat
  /\ None \notin Persons \cup Matters /\ None \notin 1 .. MaxInvites
  /\ None \notin {"active", "suspended", "revoked"}

VARIABLES standing, roles, invite, request
memberVars == <<standing, roles, invite, request>>
Member == INSTANCE Memberships
VARIABLES form, link, file, answer, gone, handler
formVars == <<form, link, file, answer, gone, handler>>
Public == INSTANCE Forms

VARIABLES
  overlapped,  \* two assignments have overlapped
  mixed,       \* two requests about memberships have overlapped
  inPlay
everything == <<vars, memberVars, formVars, overlapped, mixed, inPlay>>

Interchangeable == Permutations(Requests) \cup Permutations(Workers)

SeveralBusy(procs) == \E c, d \in DOMAIN procs : c # d /\ procs[c].pc # "idle" /\ procs[d].pc # "idle"

(* A request that may still change an invitation there is.                 *)
Concerns(r) ==
  \/ r.pc \in {"row", "replace", "expire"} /\ r.invite # None
  \/ r.pc = "invite" /\ r.earlier # {}

(* What is said of requests that overlap is about invitations: after two   *)
(* overlapped no more begin but those that accept one or replace it, and   *)
(* they are followed for as long as one of them is at work.                *)
InvitationsAfterOverlap ==
  mixed => \A c \in Requests : request[c].pc = "idle" => request'[c].pc = "idle" \/ Concerns(request'[c])
WithinBounds == mixed => \E c \in Requests : Concerns(request[c])

(* An invitation that is over is read for its state alone: states that     *)
(* differ in whom such an invitation was to, or in which role, are taken   *)
(* for one.                                                                *)
InviteSeen(i) == IF i \in Member!Pending THEN invite[i] ELSE [state |-> invite[i].state]
Seen == <<rows, current, call, standing, roles, [i \in 1 .. MaxInvites |-> InviteSeen(i)], request,
          formVars, overlapped, mixed, inPlay>>

PeopleInit ==
  /\ Init /\ Member!Init /\ Public!Init
  /\ overlapped = FALSE /\ mixed = FALSE
  /\ inPlay \in {"assignment", "membership", "forms"}
  /\ inPlay # "forms" => form.for = None
PeopleNext ==
  /\ \/ /\ inPlay = "assignment" /\ Next
        /\ overlapped' = (overlapped \/ SeveralBusy(call'))
        /\ UNCHANGED <<memberVars, formVars, mixed>>
     \/ /\ inPlay = "membership" /\ Member!Next
        /\ mixed' = (mixed \/ SeveralBusy(request'))
        /\ UNCHANGED <<vars, formVars, overlapped>>
     \/ /\ inPlay = "forms" /\ Public!Next
        /\ UNCHANGED <<vars, memberVars, overlapped, mixed>>
  /\ UNCHANGED inPlay
PeopleSpec == PeopleInit /\ [][PeopleNext]_everything

(* "assigning someone new releases the prior active assignment"            *)
(* (db/schema/applications.ts:143): it does as long as assignments are     *)
(* made one after another, some of them failing half way.                  *)
SerialOneActive == ~overlapped => OneActive

(* The same, and the assignee the case names is one of the active.         *)
OneAssignee == TypeOK /\ Member!TypeOK /\ CurrentIsActive /\ SerialOneActive

Ends(c, pc) == request[c].pc = pc /\ request'[c].pc = "idle"
Accepts(c) == Ends(c, "replace") /\ request[c].invite # None

KeepsAdministrator ==
  Member!Administrators # {} /\ Member!Administrators' = {} => \E c \in Requests : Accepts(c)
ScimRevivesNobody ==
  \A p \in Persons : standing[p] = "revoked" /\ standing'[p] # "revoked"
                       => ~\E c \in Requests : Ends(c, "scim write")

(* While requests come one at a time: an organisation does not lose its    *)
(* last active administrator to a change of role or standing, to an        *)
(* addition or to SCIM (activeAdministratorCount, soleActiveAdministrator), *)
(* only to one who accepts an invitation to another role; and "revoked     *)
(* memberships are not reactivated" (scim/service.ts) by the provider.     *)
SerialMembersKept == [][~mixed => KeepsAdministrator /\ ScimRevivesNobody]_everything

(* An invitation admits once, and not after it was revoked or replaced by  *)
(* another, however many people follow its link at once.                   *)
InvitationAdmitsOnce ==
  [][\A c \in Requests : Accepts(c) /\ invite' # invite
       => invite[request[c].invite].state \in {"pending", "lapsed"}]_everything

(* An invitation to a form is answered once, leaves no draft behind, and   *)
(* the file it named goes where the response goes (Forms).                 *)
FormsAnsweredOnce ==
  inPlay = "forms" => Public!TypeOK /\ Public!AnsweredOnce /\ Public!FileFollows
=============================================================================
