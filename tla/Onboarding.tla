----------------------------- MODULE Onboarding -----------------------------
(* The life of an organisation: an operator provisions it and invites its  *)
(* first administrator, both record what is ready, and it is activated by  *)
(* the operator's command, by its own administrator, or by the switch with *)
(* which operators also suspend and close it.  Only the reads and writes   *)
(* of one statement or transaction are atomic.                             *)
(* Code: src/src/domains/onboarding, src/src/domains/organisations,        *)
(* src/src/domains/organisation-keys/activation.ts.                        *)
(*                                                                         *)
(* Operators whose names begin with Mut are slips this code could have     *)
(* made in the definition that follows them; no action uses them.          *)
EXTENDS Naturals

CONSTANTS
  Items,      \* READINESS_ITEMS
  Requests,   \* handlers that may run at once
  Switches,   \* bound: the statuses an operator switches to
  MaxLinks,   \* bound: invitation tokens
  MaxLost     \* bound: crashes and mails refused

VARIABLES
  status,     \* organisations.status, or "none" before the row exists
  ready,      \* the items of readinessChecklist marked complete
  agreed,     \* agreementReference and agreementSignedAt are there
  keyed,      \* the tenant key is active and validated (OrganisationKeys)
  invitation, \* of the first administrator: pending, accepted, and its token
  inbox,      \* the token of the last invitation mailed, or 0
  request,    \* what each handler is doing
  lost
vars == <<status, ready, agreed, keyed, invitation, inbox, request, lost>>

Idle == [pc |-> "idle"]
Unavailable == {"suspended", "closed"}
Operational == {"draft", "onboarding", "active"}
Statuses == Operational \cup Unavailable

\* What loadOrganisation returns, of the columns used.
Loaded == [status : Statuses, ready : SUBSET Items, agreed : BOOLEAN]

Handling ==
  [pc : {"create", "rotate", "own key", "own write", "sign", "activate"}]
    \cup [pc : {"mail"}, token : 1 .. MaxLinks]
    \cup [pc : {"save"}, ready : SUBSET Items]
    \cup [pc : {"key"}, seen : Loaded]
    \cup [pc : {"set key", "set"}, to : Statuses]

TypeOK ==
  /\ status \in Statuses \cup {"none"}
  /\ ready \subseteq Items /\ agreed \in BOOLEAN /\ keyed \in BOOLEAN
  /\ invitation \in [state : {"none", "pending", "accepted"}, token : 0 .. MaxLinks]
  /\ inbox \in 0 .. MaxLinks
  /\ request \in [Requests -> {Idle} \cup Handling]
  /\ lost \in 0 .. MaxLost

Init ==
  /\ status = "none" /\ ready = {} /\ agreed = FALSE /\ keyed = FALSE
  /\ invitation = [state |-> "none", token |-> 0] /\ inbox = 0
  /\ request = [c \in Requests |-> Idle]
  /\ lost = 0

Becomes(c, r) == request' = [request EXCEPT ![c] = r]
Lose == lost < MaxLost /\ lost' = lost + 1
SettingsUnchanged == UNCHANGED <<ready, agreed>>
MailUnchanged == UNCHANGED <<invitation, inbox>>

\* The handshake passes, or the key is disabled, scheduled for deletion or lost.
KeyChanges ==
  /\ status # "none" /\ keyed' = ~keyed
  /\ UNCHANGED <<status, ready, agreed, invitation, inbox, request, lost>>

-----------------------------------------------------------------------------
(* executeProvision and executeResendInvite.                               *)

\* The slug is taken, and nothing is written or sent; or it is free.
Provision(c) ==
  /\ request[c] = Idle /\ status = "none"
  /\ Becomes(c, [pc |-> "create"])
  /\ UNCHANGED <<status, keyed, lost>> /\ SettingsUnchanged /\ MailUnchanged

\* One transaction; a slug taken meanwhile violates its unique index.
Create(c) ==
  /\ request[c].pc = "create"
  /\ IF status # "none"
     THEN Becomes(c, Idle) /\ UNCHANGED <<status, invitation>>
     ELSE /\ status' = "onboarding"
          /\ invitation' = [state |-> "pending", token |-> 1]
          /\ Becomes(c, [pc |-> "mail", token |-> 1])
  /\ UNCHANGED <<inbox, keyed, lost>> /\ SettingsUnchanged

ResendInvite(c) ==
  /\ request[c] = Idle /\ status # "none" /\ invitation.state = "pending"
  /\ Becomes(c, [pc |-> "rotate"])
  /\ UNCHANGED <<status, keyed, lost>> /\ SettingsUnchanged /\ MailUnchanged

Rotates == invitation.state = "pending"

RotateInvitation(c) ==
  /\ request[c].pc = "rotate"
  /\ IF Rotates
     THEN LET token == invitation.token + 1 IN
          /\ token <= MaxLinks
          /\ invitation' = [invitation EXCEPT !.token = token]
          /\ Becomes(c, [pc |-> "mail", token |-> token])
     ELSE Becomes(c, Idle) /\ UNCHANGED invitation
  /\ UNCHANGED <<status, inbox, keyed, lost>> /\ SettingsUnchanged

SendInvite(c) ==
  /\ request[c].pc = "mail"
  /\ inbox' = request[c].token /\ Becomes(c, Idle)
  /\ UNCHANGED <<status, keyed, invitation, lost>> /\ SettingsUnchanged

\* The relay refuses, or the process dies at any point.
RequestLost(c) ==
  /\ request[c] # Idle /\ Lose /\ Becomes(c, Idle)
  /\ UNCHANGED <<status, keyed>> /\ SettingsUnchanged /\ MailUnchanged

\* The administrator follows the link that arrived last (memberships).
AcceptInvitation ==
  /\ invitation.state = "pending" /\ inbox = invitation.token
  /\ invitation' = [invitation EXCEPT !.state = "accepted"]
  /\ UNCHANGED <<status, ready, agreed, keyed, inbox, request, lost>>

-----------------------------------------------------------------------------
(* executeRecordChecklist, of the operator and of the administrator, and   *)
(* executeRecordAgreement (recording it again changes only its reference). *)

\* The whole checklist is read, one item changed, and the whole written.
ReadChecklist(c, item, complete) ==
  /\ request[c] = Idle /\ status # "none"
  /\ Becomes(c, [pc |-> "save", ready |-> IF complete THEN ready \cup {item} ELSE ready \ {item}])
  /\ UNCHANGED <<status, keyed, lost>> /\ SettingsUnchanged /\ MailUnchanged

SaveChecklist(c) ==
  /\ request[c].pc = "save"
  /\ ready' = request[c].ready /\ Becomes(c, Idle)
  /\ UNCHANGED <<status, agreed, keyed, lost>> /\ MailUnchanged

ReadForAgreement(c) ==
  /\ request[c] = Idle /\ status # "none" /\ ~agreed
  /\ Becomes(c, [pc |-> "sign"])
  /\ UNCHANGED <<status, keyed, lost>> /\ SettingsUnchanged /\ MailUnchanged

SaveAgreement(c) ==
  /\ request[c].pc = "sign"
  /\ agreed' = TRUE /\ Becomes(c, Idle)
  /\ UNCHANGED <<status, ready, keyed, lost>> /\ MailUnchanged

-----------------------------------------------------------------------------
(* executeActivate: the row and its settings are read, then the key.       *)

LoadOrganisation(c) ==
  /\ request[c] = Idle /\ status \notin {"none", "active"}
  /\ Becomes(c, [pc |-> "key", seen |-> [status |-> status, ready |-> ready, agreed |-> agreed]])
  /\ UNCHANGED <<status, keyed, lost>> /\ SettingsUnchanged /\ MailUnchanged

\* evaluateActivation: any blocker refuses.
Allowed(seen) ==
  /\ seen.status = "onboarding" /\ keyed
  /\ seen.ready = Items /\ seen.agreed

EvaluateActivation(c) ==
  /\ request[c].pc = "key"
  /\ Becomes(c, IF Allowed(request[c].seen) THEN [pc |-> "activate"] ELSE Idle)
  /\ UNCHANGED <<status, keyed, lost>> /\ SettingsUnchanged /\ MailUnchanged

SetOnboardingToActive(c) ==
  /\ request[c].pc = "activate"
  /\ status' = IF status = "onboarding" THEN "active" ELSE status
  /\ Becomes(c, Idle)
  /\ UNCHANGED <<keyed, lost>> /\ SettingsUnchanged /\ MailUnchanged

-----------------------------------------------------------------------------
(* activateOrganisation of an administrator, whose request is let in while *)
(* the organisation is operational.                                        *)

AskToActivate(c) ==
  /\ request[c] = Idle /\ status \in Operational
  /\ Becomes(c, [pc |-> "own key"])
  /\ UNCHANGED <<status, keyed, lost>> /\ SettingsUnchanged /\ MailUnchanged

OwnKey(c) ==
  /\ request[c].pc = "own key"
  /\ Becomes(c, IF keyed THEN [pc |-> "own write"] ELSE Idle)
  /\ UNCHANGED <<status, keyed, lost>> /\ SettingsUnchanged /\ MailUnchanged

MutStillOperational == TRUE
StillOperational == status \in Operational

ActivateOwn(c) ==
  /\ request[c].pc = "own write"
  /\ status' = IF StillOperational THEN "active" ELSE status
  /\ Becomes(c, Idle)
  /\ UNCHANGED <<keyed, lost>> /\ SettingsUnchanged /\ MailUnchanged

-----------------------------------------------------------------------------
(* setOrganisationStatus of an operator: any status, written by id.        *)

AskStatus(c, to) ==
  /\ request[c] = Idle /\ status \notin {"none", to}
  /\ Becomes(c, [pc |-> IF to = "active" THEN "set key" ELSE "set", to |-> to])
  /\ UNCHANGED <<status, keyed, lost>> /\ SettingsUnchanged /\ MailUnchanged

CheckKey(c) ==
  /\ request[c].pc = "set key"
  /\ Becomes(c, IF keyed THEN [pc |-> "set", to |-> request[c].to] ELSE Idle)
  /\ UNCHANGED <<status, keyed, lost>> /\ SettingsUnchanged /\ MailUnchanged

SetStatus(c) ==
  /\ request[c].pc = "set"
  /\ status' = request[c].to /\ Becomes(c, Idle)
  /\ UNCHANGED <<keyed, lost>> /\ SettingsUnchanged /\ MailUnchanged

-----------------------------------------------------------------------------
Next ==
  \/ KeyChanges \/ AcceptInvitation
  \/ \E c \in Requests :
       \/ Provision(c) \/ Create(c) \/ ResendInvite(c) \/ RotateInvitation(c) \/ SendInvite(c)
       \/ RequestLost(c) \/ SaveChecklist(c) \/ ReadForAgreement(c) \/ SaveAgreement(c)
       \/ LoadOrganisation(c) \/ EvaluateActivation(c) \/ SetOnboardingToActive(c)
       \/ AskToActivate(c) \/ OwnKey(c) \/ ActivateOwn(c) \/ CheckKey(c) \/ SetStatus(c)
       \/ \E item \in Items, complete \in BOOLEAN : ReadChecklist(c, item, complete)
       \/ \E to \in Switches : AskStatus(c, to)

Spec == Init /\ [][Next]_vars

-----------------------------------------------------------------------------
\* What a step does in the name of c.
Acts(c, pc) == request[c].pc = pc /\ request'[c] = Idle

(* A suspended or closed organisation is brought back by an operator's     *)
(* switch only: an activation begun before the suspension does not undo it *)
(* ("a suspended or closed organisation is never re-activated here").      *)
SuspensionStands ==
  status \in Unavailable /\ status' \notin Unavailable => \E c \in Requests : Acts(c, "set")

(* The operator's command activates no organisation without its agreement, *)
(* whatever is recorded meanwhile, for an agreement is never taken back.   *)
AgreedFirst == \A c \in Requests : request[c].pc = "activate" => agreed

(* A token never comes back: no mail carries one that was never given out, *)
(* and once the invitation was accepted none is given out again.           *)
LinksStand ==
  /\ inbox <= invitation.token
  /\ \A c \in Requests : request[c].pc = "mail" => request[c].token <= invitation.token
AcceptedStands == invitation.state = "accepted" => invitation' = invitation
=============================================================================
