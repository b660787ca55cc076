------------------------- MODULE DisposalAuthority -------------------------
(***************************************************************************)
(* Who may have records disposed of: retention policies, drafted by one    *)
(* person and activated by another, and the records manager's sign-offs of *)
(* the disposal authority of their class, each of which supersedes the one *)
(* before.  A sweep loads the policies, then the sign-offs, and works out  *)
(* for each policy whether it may act.  One jurisdiction and class: others *)
(* share nothing with it.                                                  *)
(* Code: src/src/domains/retention/service.ts, approval.ts and the gate of *)
(* sweep.ts.                                                               *)
(*                                                                         *)
(* Operators whose names begin with Mut are slips this code could have     *)
(* made in the definition that follows them; no action uses them.          *)
(***************************************************************************)
EXTENDS Naturals, FiniteSets

CONSTANTS
  PolicyIds, People,
  References,  \* disposal authorities a policy may name
  Days,        \* retention periods
  Terms,       \* what a sign-off says: reference, permanent, least period or 0
  MaxSignoffs, \* bound on the sign-offs made
  Signings, Activations, Gatings,  \* concurrent requests, and sweeps at their gate
  None

VARIABLES
  policy,    \* retention_policies by id
  signoff,   \* committed disposal_authority_signoffs by id
  signing,   \* signDisposalAuthority requests
  activation,
  gating     \* sweeps: the policies loaded, then the policies let through

vars == <<policy, signoff, signing, activation, gating>>

SignoffIds == 1 .. MaxSignoffs
Absent  == [state |-> "absent"]
Idle    == [pc |-> "idle"]
Policy  == [state : {"kept", "deleted"}, action : {"purge", "anonymise"}, days : Days,
            ref : References \cup {None}, creator : People,
            active : BOOLEAN, approver : People \cup {None}]
Signoff == [state : {"current", "superseded"}, terms : Terms]
Gate    == [policy : PolicyIds, action : {"purge", "anonymise"}, authority : BOOLEAN]

TypeOK ==
  /\ policy \in [PolicyIds -> Policy \cup {Absent}]
  /\ signoff \in [SignoffIds -> Signoff \cup {Absent}]
  /\ signing \in [Signings -> {Idle} \cup [pc : {"supersede"}, terms : Terms, seen : SUBSET SignoffIds]
                     \cup [pc : {"insert"}, terms : Terms, superseded : SUBSET SignoffIds]]
  /\ activation \in [Activations -> {Idle} \cup [pc : {"commit"}, id : PolicyIds, by : People]]
  /\ gating \in [Gatings -> {Idle} \cup [pc : {"loaded"}, rows : [PolicyIds -> Policy \cup {Absent}]]
                     \cup [pc : {"gated"}, gates : SUBSET Gate]]

Init ==
  /\ policy = [p \in PolicyIds |-> Absent]
  /\ signoff = [d \in SignoffIds |-> Absent]
  /\ signing = [c \in Signings |-> Idle]
  /\ activation = [c \in Activations |-> Idle]
  /\ gating = [s \in Gatings |-> Idle]

Current == {d \in SignoffIds : signoff[d].state = "current"}

---------------------------------------------------------------------------
(* The gate.                                                               *)

MutMatchesReferenceOnly(p, t) == t.ref = p.ref
Matches(p, t) == ~t.permanent /\ t.ref = p.ref /\ p.days >= t.minimum

(* Which of several current rows is found is the database's choice.        *)
AuthorityOf(p, found) == p.ref # None /\ found # {} /\ \A d \in found : Matches(p, signoff[d].terms)

Approved(p) == p.state # "absent" /\ p.active /\ p.approver \notin {None, p.creator}

GateOf(id, p, found) == [policy |-> id, action |-> p.action, authority |-> AuthorityOf(p, found)]
Gates(rows, found) ==
  {GateOf(id, rows[id], found) : id \in {q \in PolicyIds :
     /\ Approved(rows[q])
     /\ rows[q].action = "purge" => AuthorityOf(rows[q], found)}}

InForce(p) == policy[p].state = "kept" /\ policy[p].active

LoadPolicies(s) ==
  /\ gating[s] = Idle
  /\ gating' = [gating EXCEPT ![s] = 
                 [pc |-> "loaded", rows |-> [p \in PolicyIds |-> IF InForce(p) THEN policy[p] ELSE Absent]]]
  /\ UNCHANGED <<policy, signoff, signing, activation>>

Effective == Current

LoadSignoffs(s) ==
  /\ gating[s].pc = "loaded"
  /\ \E found \in {{d} : d \in Effective} \cup (IF Effective = {} THEN {{}} ELSE {}) :
       gating' = [gating EXCEPT ![s] = [pc |-> "gated", gates |-> Gates(@.rows, found)]]
  /\ UNCHANGED <<policy, signoff, signing, activation>>

SweepEnds(s) ==
  /\ gating[s].pc = "gated"
  /\ gating' = [gating EXCEPT ![s] = Idle]
  /\ UNCHANGED <<policy, signoff, signing, activation>>

---------------------------------------------------------------------------
(* Policies.                                                               *)

(* currentSignoff and assertPurgeAllowed: the first current row it finds.  *)
PurgeAllowed(p) == \E d \in Current : Matches(p, signoff[d].terms)

CreatePolicy(id, by, action, days, ref) ==
  /\ policy[id] = Absent
  /\ LET p == [state |-> "kept", action |-> action, days |-> days, ref |-> ref,
               creator |-> by, active |-> FALSE, approver |-> None]
     IN /\ action = "purge" => ref # None /\ PurgeAllowed(p)
        /\ policy' = [policy EXCEPT ![id] = p]
  /\ UNCHANGED <<signoff, signing, activation, gating>>

SecondPerson(p, by) == p.creator # by

(* The checks, outside the transaction.                                    *)
ActivateCheck(c, id, by) ==
  /\ activation[c] = Idle
  /\ policy[id].state = "kept" /\ ~policy[id].active
  /\ SecondPerson(policy[id], by)
  /\ policy[id].action = "purge" => PurgeAllowed(policy[id])
  /\ activation' = [activation EXCEPT ![c] = [pc |-> "commit", id |-> id, by |-> by]]
  /\ UNCHANGED <<policy, signoff, signing, gating>>

(* Guarded by active = false alone: a row deleted meanwhile is activated,  *)
(* and filtered out by every load.                                         *)
ActivateCommit(c) ==
  /\ activation[c].pc = "commit"
  /\ LET id == activation[c].id IN
     policy' = IF policy[id].active THEN policy
               ELSE [policy EXCEPT ![id] = [@ EXCEPT !.active = TRUE,
                                                     !.approver = activation[c].by]]
  /\ activation' = [activation EXCEPT ![c] = Idle]
  /\ UNCHANGED <<signoff, signing, gating>>

DeletePolicy(id) ==
  /\ policy[id].state = "kept"
  /\ policy' = [policy EXCEPT ![id] = [@ EXCEPT !.state = "deleted", !.active = FALSE]]
  /\ UNCHANGED <<signoff, signing, activation, gating>>

---------------------------------------------------------------------------
(* Sign-offs, at READ COMMITTED: the update finds the rows that were       *)
(* current when it began and waits for those another transaction holds.    *)

SignBegin(c, t) ==
  /\ signing[c] = Idle
  /\ signing' = [signing EXCEPT ![c] = [pc |-> "supersede", terms |-> t, seen |-> Current]]
  /\ UNCHANGED <<policy, signoff, activation, gating>>

LockedRows == UNION {signing[c].superseded : c \in {k \in Signings : signing[k].pc = "insert"}}

SupersededBy(c) == signing[c].seen \cap Current

Supersede(c) ==
  /\ signing[c].pc = "supersede"
  /\ signing[c].seen \cap LockedRows = {}
  /\ signing' = [signing EXCEPT ![c] = [pc |-> "insert", terms |-> @.terms,
                                        superseded |-> SupersededBy(c)]]
  /\ UNCHANGED <<policy, signoff, activation, gating>>

SignCommit(c, d) ==
  /\ signing[c].pc = "insert"
  /\ signoff[d] = Absent /\ \A q \in 1 .. d - 1 : signoff[q] # Absent
  /\ signoff' = [q \in SignoffIds |->
       IF q = d THEN [state |-> "current", terms |-> signing[c].terms]
       ELSE IF q \in signing[c].superseded THEN [signoff[q] EXCEPT !.state = "superseded"]
       ELSE signoff[q]]
  /\ signing' = [signing EXCEPT ![c] = Idle]
  /\ UNCHANGED <<policy, activation, gating>>

SignAbort(c) ==
  /\ signing[c] # Idle
  /\ signing' = [signing EXCEPT ![c] = Idle]
  /\ UNCHANGED <<policy, signoff, activation, gating>>

Next ==
  \/ \E s \in Gatings : LoadPolicies(s) \/ LoadSignoffs(s) \/ SweepEnds(s)
  \/ \E id \in PolicyIds :
       \/ \E by \in People, action \in {"purge", "anonymise"}, days \in Days,
             ref \in References \cup {None} : CreatePolicy(id, by, action, days, ref)
       \/ \E c \in Activations, by \in People : ActivateCheck(c, id, by)
       \/ DeletePolicy(id)
  \/ \E c \in Activations : ActivateCommit(c)
  \/ \E c \in Signings :
       \/ \E t \in Terms : SignBegin(c, t)
       \/ Supersede(c) \/ SignAbort(c)
       \/ \E d \in SignoffIds : SignCommit(c, d)

Spec == Init /\ [][Next]_vars

---------------------------------------------------------------------------
(* "A later sign-off supersedes the earlier one" (db/schema/retention.ts): *)
(* one sign-off of the class is current.                                   *)
OneCurrent == Cardinality(Current) <= 1

Latest == CHOOSE d \in SignoffIds :
            signoff[d] # Absent /\ \A q \in SignoffIds : signoff[q] # Absent => q <= d
Signed == \E d \in SignoffIds : signoff[d] # Absent

(* A policy passes the gate as a purge, or with authority over official    *)
(* records, only if two people made it effective and the sign-off made     *)
(* last, at that moment, names its authority, does not keep the class for  *)
(* ever and asks for no longer a period (approval.ts).                     *)
Backed(g, p) ==
  /\ p.active /\ p.approver # None /\ p.approver # p.creator
  /\ g.authority \/ g.action = "purge" =>
       /\ Signed
       /\ LET t == signoff[Latest].terms
          IN ~t.permanent /\ t.ref = p.ref /\ p.days >= t.minimum
=============================================================================
