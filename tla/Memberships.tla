---------------------------- MODULE Memberships ----------------------------
(***************************************************************************)
(* Who belongs to an organisation and with which roles: administrators add *)
(* people, change their roles and standing and invite them; people accept  *)
(* invitations; the identity provider provisions, suspends and deletes     *)
(* them over SCIM.  Each handler reads the membership and counts the       *)
(* administrators, and writes later, by id alone.                          *)
(*                                                                         *)
(* Roles are replaced at READ COMMITTED by a deletion, which finds the     *)
(* rows there are when it begins, and an insertion.  Adding a member and   *)
(* accepting update the membership row first and so wait for one another;  *)
(* changing a role does not.                                               *)
(* Code: src/src/domains/memberships/service.ts, scim/service.ts.          *)
(*                                                                         *)
(* Operators whose names begin with Mut are slips this code could have     *)
(* made in the definition that follows them; no action uses them.          *)
(***************************************************************************)
EXTENDS Naturals, FiniteSets

CONSTANTS
  Persons,
  MaxInvites,   \* bound on the invitations
  MayAdmin,     \* allow_organisation_admin of the SCIM credential
  Requests,     \* concurrent requests
  None

VARIABLES
  standing,   \* memberships.status by person, None without one
  roles,      \* membership_roles by person
  invite,     \* membership_invitations by id
  request

vars == <<standing, roles, invite, request>>

Roles     == {"admin", "officer"}
InviteIds == 1 .. MaxInvites
Absent == [state |-> "absent"]
Idle   == [pc |-> "idle"]
(* A lapsed invitation is one whose row still says pending.                *)
Invite == [state : {"pending", "lapsed", "accepted", "revoked", "expired"}, to : Persons, role : Roles]

Standings == {"active", "suspended", "revoked"}
MaybeInvite == InviteIds \cup {None}
Replacing ==
  [pc : {"row"}, of : Persons, role : Roles, existed : BOOLEAN, invite : MaybeInvite]
    \cup [pc : {"clear"}, of : Persons, role : Roles]
    \cup [pc : {"replace"}, of : Persons, role : Roles, cleared : SUBSET Roles, holdsRow : BOOLEAN,
          invite : MaybeInvite]
Others ==
  [pc : {"status"}, of : Persons, next : Standings]
    \cup [pc : {"invite"}, of : Persons, role : Roles, earlier : SUBSET InviteIds]
    \cup [pc : {"expire"}, of : Persons, invite : InviteIds]
    \cup [pc : {"scim count", "scim write"}, of : Persons, was : Standings \cup {None},
          next : Standings, provision : BOOLEAN, groups : SUBSET Roles]

TypeOK ==
  /\ standing \in [Persons -> Standings \cup {None}]
  /\ roles \in [Persons -> SUBSET Roles]
  /\ \A p \in Persons : standing[p] = None => roles[p] = {}
  /\ invite \in [InviteIds -> Invite \cup {Absent}]
  /\ request \in [Requests -> {Idle} \cup Replacing \cup Others]

Init ==
  /\ \E founder \in Persons :
       /\ standing = [p \in Persons |-> IF p = founder THEN "active" ELSE None]
       /\ roles = [p \in Persons |-> IF p = founder THEN {"admin"} ELSE {}]
  /\ invite = [i \in InviteIds |-> Absent]
  /\ request = [c \in Requests |-> Idle]

Goto(c, next) == request' = [request EXCEPT ![c] = next]
At(c, pc) == request[c].pc = pc

Administrators == {p \in Persons : standing[p] = "active" /\ "admin" \in roles[p]}
Pending == {i \in InviteIds : invite[i].state \in {"pending", "lapsed"}}
(* "membership:manage" is the administrators'; nobody changes themselves.  *)
MayManage(by, p) == by \in Administrators /\ by # p

LastAdministrator(p) == Administrators \subseteq {p} /\ p \in Administrators

---------------------------------------------------------------------------
(* Administrators.                                                         *)

(* What each request has read rules it; existed is what became of it.      *)
AddCheck(c, by, p, role) ==
  /\ At(c, "idle") /\ by \in Administrators
  /\ standing[p] # None => by # p
  /\ role # "admin" => ~LastAdministrator(p)
  /\ Goto(c, [pc |-> "row", of |-> p, role |-> role, existed |-> standing[p] # None, invite |-> None])
  /\ UNCHANGED <<standing, roles, invite>>

ChangeRoleCheck(c, by, p, role) ==
  /\ At(c, "idle") /\ MayManage(by, p)
  /\ standing[p] \in {"active", "suspended"}
  /\ role # "admin" => ~LastAdministrator(p)
  /\ Goto(c, [pc |-> "clear", of |-> p, role |-> role])
  /\ UNCHANGED <<standing, roles, invite>>

ChangeStatusCheck(c, by, p, next) ==
  /\ At(c, "idle") /\ MayManage(by, p) /\ standing[p] # None
  /\ next # "active" => ~LastAdministrator(p)
  /\ Goto(c, [pc |-> "status", of |-> p, next |-> next])
  /\ UNCHANGED <<standing, roles, invite>>

(* The membership row is some transaction's that has not ended.            *)
Locked(p) == \E c \in Requests : At(c, "replace") /\ request[c].of = p /\ request[c].holdsRow

ChangeStatusCommit(c) ==
  /\ At(c, "status") /\ ~Locked(request[c].of)
  /\ standing' = [standing EXCEPT ![request[c].of] = request[c].next]
  /\ Goto(c, Idle)
  /\ UNCHANGED <<roles, invite>>

(* The deletion of changeMemberRole, without the row's lock.               *)
ClearRoles(c) ==
  /\ At(c, "clear")
  /\ LET r == request[c] IN
     Goto(c, [pc |-> "replace", of |-> r.of, role |-> r.role, cleared |-> roles[r.of],
              holdsRow |-> FALSE, invite |-> None])
  /\ UNCHANGED <<standing, roles, invite>>

(* An invitation some transaction has updated and still holds.             *)
Claimed(i) ==
  \E d \in Requests : \/ At(d, "replace") /\ request[d].invite = i
                      \/ At(d, "invite") /\ i \in request[d].earlier

(* The invitation is claimed and the row written before the deletion, both *)
(* held until the commit.  A row that was not there when it was looked for *)
(* is inserted, and must not be there now.                                 *)
MutAnyInvite(i) == TRUE
Claimable(i) == i \in Pending

ClaimRow(c) ==
  /\ At(c, "row") /\ ~Locked(request[c].of)
  /\ request[c].invite # None => ~Claimed(request[c].invite)
  /\ LET r == request[c]
         there == standing[r.of] # None
     IN IF IF r.invite = None THEN r.existed = there ELSE Claimable(r.invite)
        THEN Goto(c, [pc |-> "replace", of |-> r.of, role |-> r.role, cleared |-> roles[r.of],
                      holdsRow |-> TRUE, invite |-> r.invite])
        ELSE Goto(c, Idle)
  /\ UNCHANGED <<standing, roles, invite>>

StandingAfter(r) == IF r.holdsRow THEN [standing EXCEPT ![r.of] = "active"] ELSE standing

ReplaceCommit(c) ==
  /\ At(c, "replace")
  /\ LET r == request[c] IN
     /\ roles' = [roles EXCEPT ![r.of] = (@ \ r.cleared) \cup {r.role}]
     /\ standing' = StandingAfter(r)
     /\ invite' = IF r.invite = None THEN invite
                  ELSE [invite EXCEPT ![r.invite].state = "accepted"]
  /\ Goto(c, Idle)

---------------------------------------------------------------------------
(* Invitations.                                                            *)

(* The check and the statement that revokes the invitations pending when   *)
(* it begins; it waits for those another transaction holds.                *)
InviteBegin(c, by, p, role) ==
  /\ At(c, "idle") /\ by \in Administrators
  /\ standing[p] \in {None, "revoked"}
  /\ LET earlier == {i \in Pending : invite[i].to = p} IN
     /\ ~\E i \in earlier : Claimed(i)
     /\ Goto(c, [pc |-> "invite", of |-> p, role |-> role, earlier |-> earlier])
  /\ UNCHANGED <<standing, roles, invite>>

AfterInvite(r, i) ==
  IF i \in r.earlier THEN [invite[i] EXCEPT !.state = "revoked"] ELSE invite[i]

InviteCommit(c, i) ==
  /\ At(c, "invite") /\ invite[i] = Absent /\ \A j \in 1 .. i - 1 : invite[j] # Absent
  /\ LET r == request[c] IN
     invite' = [j \in InviteIds |->
                  IF j = i THEN [state |-> "pending", to |-> r.of, role |-> r.role]
                  ELSE AfterInvite(r, j)]
  /\ Goto(c, Idle)
  /\ UNCHANGED <<standing, roles>>

(* A new fortnight, and a new token, which is not modelled: the link is    *)
(* the invitation.                                                         *)
Resend(i, by) ==
  /\ by \in Administrators /\ invite[i].state = "lapsed" /\ ~Claimed(i)
  /\ invite' = [invite EXCEPT ![i].state = "pending"]
  /\ UNCHANGED <<standing, roles, request>>

RevokeInvitation(i, by) ==
  /\ by \in Administrators /\ i \in Pending /\ ~Claimed(i)
  /\ invite' = [invite EXCEPT ![i].state = "revoked"]
  /\ UNCHANGED <<standing, roles, request>>

FortnightPasses(i) ==
  /\ invite[i].state = "pending"
  /\ invite' = [invite EXCEPT ![i].state = "lapsed"]
  /\ UNCHANGED <<standing, roles, request>>

(* resolvePendingInvitation.                                               *)
AcceptCheck(c, i) ==
  /\ At(c, "idle") /\ i \in Pending
  /\ Goto(c, IF invite[i].state = "lapsed" THEN [pc |-> "expire", of |-> invite[i].to, invite |-> i]
             ELSE [pc |-> "row", of |-> invite[i].to, role |-> invite[i].role, existed |-> FALSE,
                   invite |-> i])
  /\ UNCHANGED <<standing, roles, invite>>

(* By id alone, whatever has become of it.                                 *)
Expire(c) ==
  /\ At(c, "expire") /\ ~Claimed(request[c].invite)
  /\ invite' = [invite EXCEPT ![request[c].invite].state = "expired"]
  /\ Goto(c, Idle)
  /\ UNCHANGED <<standing, roles>>

---------------------------------------------------------------------------
(* SCIM: the membership is read, then the administrators are counted, then *)
(* all is written by the membership's id.                                  *)

(* Of a revoked membership nothing is written, and activating who is       *)
(* active writes nothing either.                                           *)
MutScimTakesAll(p, next, provision) == ~provision => standing[p] # None
ScimActs(p, next, provision) ==
  /\ standing[p] # "revoked"
  /\ ~provision => standing[p] # None /\ ~(next = "active" /\ standing[p] = "active")

ScimRead(c, p, next, provision, groups) ==
  /\ At(c, "idle")
  /\ ScimActs(p, next, provision)
  /\ Goto(c, [pc |-> "scim count", of |-> p, was |-> standing[p], next |-> next,
              provision |-> provision, groups |-> groups])
  /\ UNCHANGED <<standing, roles, invite>>

ScimCount(c) ==
  /\ At(c, "scim count")
  /\ LET r == request[c] IN
     IF r.was = "active" /\ r.next # "active" /\ LastAdministrator(r.of) THEN Goto(c, Idle)
     ELSE Goto(c, [r EXCEPT !.pc = "scim write"])
  /\ UNCHANGED <<standing, roles, invite>>

(* Roles the provider may assign; the last administrator keeps theirs.     *)
Controllable == IF MayAdmin THEN Roles ELSE Roles \ {"admin"}
Desired(r, stands) ==
  r.groups \cup {q \in {"admin"} \cap roles[r.of] :
                   stands[r.of] = "active" /\ Administrators \subseteq {r.of}
                   /\ "admin" \in Controllable}

ScimWrite(c) ==
  /\ At(c, "scim write") /\ ~Locked(request[c].of)
  /\ LET r == request[c]
         stands == [standing EXCEPT ![r.of] = r.next]
     IN IF r.was = None /\ standing[r.of] # None THEN UNCHANGED <<standing, roles>>
        ELSE /\ standing' = stands
             /\ roles' = IF r.provision
                         THEN [roles EXCEPT ![r.of] = (@ \ Controllable) \cup Desired(r, stands)]
                         ELSE roles
  /\ Goto(c, Idle)
  /\ UNCHANGED invite

Abort(c) ==
  /\ ~At(c, "idle")
  /\ Goto(c, Idle)
  /\ UNCHANGED <<standing, roles, invite>>

Next ==
  \/ \E c \in Requests :
       \/ \E by, p \in Persons :
            \/ \E role \in Roles : AddCheck(c, by, p, role) \/ ChangeRoleCheck(c, by, p, role)
                                   \/ InviteBegin(c, by, p, role)
            \/ \E next \in {"active", "suspended", "revoked"} : ChangeStatusCheck(c, by, p, next)
       \/ ChangeStatusCommit(c) \/ ClearRoles(c) \/ ClaimRow(c) \/ ReplaceCommit(c)
       \/ \E i \in InviteIds : InviteCommit(c, i) \/ AcceptCheck(c, i)
       \/ Expire(c)
       \/ \E p \in Persons :
            \/ \E next \in {"active", "suspended"}, groups \in SUBSET Controllable :
                 ScimRead(c, p, next, TRUE, groups)
            \/ \E next \in {"active", "suspended", "revoked"} : ScimRead(c, p, next, FALSE, {})
       \/ ScimCount(c) \/ ScimWrite(c) \/ Abort(c)
  \/ \E i \in InviteIds :
       (\E by \in Persons : Resend(i, by) \/ RevokeInvitation(i, by)) \/ FortnightPasses(i)

Spec == Init /\ [][Next]_vars
=============================================================================
