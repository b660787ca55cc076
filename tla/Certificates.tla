---------------------------- MODULE Certificates ----------------------------
(***************************************************************************)
(* Certificates of one case: drafted from a confirmed decision, sealed     *)
(* with the deployment's signing key, revoked, or re-issued, which revokes *)
(* one certificate and drafts its replacement in one transaction.  Every   *)
(* request reads the certificate, works outside any transaction (renders   *)
(* the PDF, asks the key service for the seal), and then writes under      *)
(* conditions; it tells integrators after its commit.  Around them, rounds *)
(* of the case are decided, the signing key is replaced, and retention     *)
(* purges the case.                                                        *)
(* Code: src/src/domains/certificates/service.ts, signing-keys.ts and      *)
(* status.ts.                                                              *)
(*                                                                         *)
(* Operators whose names begin with Mut are slips this code could have     *)
(* made in the definition that follows them; no action uses them.          *)
(***************************************************************************)
EXTENDS Naturals, FiniteSets

CONSTANTS
  Decisions,   \* rounds of the case
  Keys,        \* signing keys by their resolved ARN
  MaxCerts,    \* bound on the certificates
  Calls,       \* concurrent requests
  None

VARIABLES
  cert,        \* certificates by id
  final,       \* decisions.final_outcome, None until finalised
  decided,     \* the case is at the stage "decided"
  purged,      \* the case and what hangs on it are tombstoned
  key,         \* the key the configured alias names
  known,       \* signing_keys
  call

vars == <<cert, final, decided, purged, key, known, call>>

CertIds == 1 .. MaxCerts
Absent  == [state |-> "absent"]
Idle    == [pc |-> "idle"]
(* createHolderBinding hashes the holder's name with a random salt, which  *)
(* tells one binding from another: here, who made it.                      *)
Binding == CertIds \cup Calls
Seal    == [outcome : {"confirmed", "declined"}, binding : Binding, key : Keys]
Cert    == [state : {"draft", "signed", "revoked"}, deleted : BOOLEAN, version : Nat,
            decision : Decisions, binding : Binding \cup {None}, seal : Seal \cup {None},
            supersedes : CertIds \cup {None}, supersededBy : CertIds \cup {None}]
Event   == {"signed", "revoked"} \X CertIds

ASSUME ConstantsAssumption ==
  /\ MaxCerts \in Nat
  /\ None \notin Binding \cup Seal \cup {"confirmed", "declined"}

Inserting == [pc : {"insert"}, decision : Decisions]
Sealing   == [pc : {"seal"}, id : CertIds, version : Nat, outcome : {"confirmed", "declined"},
              binding : Binding]
Signing   == [pc : {"record", "sign"}, id : CertIds, version : Nat, seal : Seal]
Revoking  == [pc : {"replace", "revoke"}, id : CertIds, version : Nat]
Telling   == [pc : {"tell"}, event : Event]
CallStates == {Idle} \cup Inserting \cup Sealing \cup Signing \cup Revoking \cup Telling

TypeOK ==
  /\ cert \in [CertIds -> Cert \cup {Absent}]
  /\ final \in [Decisions -> {None, "confirmed", "declined"}]
  /\ decided \in BOOLEAN /\ purged \in BOOLEAN
  /\ key \in Keys /\ known \in SUBSET Keys
  /\ call \in [Calls -> CallStates]

Stored(i) == cert[i] # Absent
(* loadCertificateClaim *)
Found(i)  == Stored(i) /\ ~cert[i].deleted
Live(d)   == {i \in CertIds : Found(i) /\ cert[i].decision = d /\ cert[i].state # "revoked"}
(* A new id is a UUID: no earlier row has it.                              *)
Fresh(i)  == ~Stored(i) /\ \A j \in 1 .. i - 1 : Stored(j)

Draft(d, binding, supersedes) ==
  [state |-> "draft", deleted |-> FALSE, version |-> 0, decision |-> d, binding |-> binding,
   seal |-> None, supersedes |-> supersedes, supersededBy |-> None]

(* Drafts made before certificates.holder_name_hash existed have none.     *)
Init ==
  /\ decided \in BOOLEAN
  /\ final = [d \in Decisions |-> None] \/ \E d \in Decisions : final = [e \in Decisions |-> IF e = d THEN "confirmed" ELSE None]
  /\ \/ cert = [i \in CertIds |-> Absent]
     \/ \E d \in Decisions :
          /\ final[d] = "confirmed"
          /\ cert = [i \in CertIds |-> IF i = 1 THEN Draft(d, None, None) ELSE Absent]
  /\ purged = FALSE /\ key \in Keys /\ known = {}
  /\ call = [c \in Calls |-> Idle]

world == <<final, decided, purged, key>>
Goto(c, next) == call' = [call EXCEPT ![c] = next]
Tell(c, event) == Goto(c, [pc |-> "tell", event |-> event])

Eligible(d) == ~purged /\ final[d] = "confirmed"

---------------------------------------------------------------------------
(* Drafting.  Reads of the decision, the case and the live certificate,    *)
(* then the PDF, then the row, under the index that keeps one live         *)
(* certificate per decision.                                               *)

GenerateCheck(c, d) ==
  /\ call[c] = Idle
  /\ Eligible(d) /\ decided
  /\ Live(d) = {}
  /\ Goto(c, [pc |-> "insert", decision |-> d])
  /\ UNCHANGED <<cert, known, world>>

GenerateInsert(c, i) ==
  /\ call[c].pc = "insert"
  /\ Fresh(i)
  /\ cert' = IF Live(call[c].decision) # {} THEN cert
             ELSE [cert EXCEPT ![i] = Draft(call[c].decision, i, None)]
  /\ Goto(c, Idle)
  /\ UNCHANGED <<known, world>>

---------------------------------------------------------------------------
(* Signing.                                                                *)

BindingForSign(c, i) == IF cert[i].binding # None THEN cert[i].binding ELSE c

SignRead(c, i) ==
  /\ call[c] = Idle
  /\ Found(i) /\ cert[i].state = "draft"
  /\ cert[i].binding = None => ~purged
  /\ Goto(c, [pc |-> "seal", id |-> i, version |-> cert[i].version,
              outcome |-> final[cert[i].decision], binding |-> BindingForSign(c, i)])
  /\ UNCHANGED <<cert, known, world>>

SealWithKey(c) ==
  /\ call[c].pc = "seal"
  /\ LET k == call[c] IN
     Goto(c, [pc |-> "record", id |-> k.id, version |-> k.version,
              seal |-> [outcome |-> k.outcome, binding |-> k.binding, key |-> key]])
  /\ UNCHANGED <<cert, known, world>>

MutRecordCurrent(c) == known \cup {key}
RecordedWith(c) == known \cup {call[c].seal.key}

RecordKey(c) ==
  /\ call[c].pc = "record"
  /\ known' = RecordedWith(c)
  /\ Goto(c, [call[c] EXCEPT !.pc = "sign"])
  /\ UNCHANGED <<cert, world>>

(* The conditions of the three conditional updates.                        *)
Unchanged(c) == cert[call[c].id].version = call[c].version
StillDraft(c)  == cert[call[c].id].state = "draft" /\ Unchanged(c)
StillSigned(c) == cert[call[c].id].state = "signed" /\ Unchanged(c)

Signed(old, seal) ==
  [old EXCEPT !.state = "signed", !.seal = seal, !.binding = seal.binding, !.version = @ + 1]

SignCommit(c) ==
  /\ call[c].pc = "sign" /\ StillDraft(c)
  /\ cert' = [cert EXCEPT ![call[c].id] = Signed(@, call[c].seal)]
  /\ Tell(c, <<"signed", call[c].id>>)
  /\ UNCHANGED <<known, world>>

SignConflict(c) ==
  /\ call[c].pc = "sign" /\ ~StillDraft(c)
  /\ Goto(c, Idle)
  /\ UNCHANGED <<cert, known, world>>

---------------------------------------------------------------------------
(* Re-issue and revocation.                                                *)

ReissueRead(c, i) ==
  /\ call[c] = Idle
  /\ Found(i) /\ cert[i].state = "signed"
  /\ Eligible(cert[i].decision)
  /\ Goto(c, [pc |-> "replace", id |-> i, version |-> cert[i].version])
  /\ UNCHANGED <<cert, known, world>>

Revoked(old, by) == [old EXCEPT !.state = "revoked", !.supersededBy = by, !.version = @ + 1]

MutRevokeWithoutDraft(c, i) ==
  [cert EXCEPT ![call[c].id] = Revoked(@, None)]
Replaced(c, i) ==
  [cert EXCEPT ![call[c].id] = Revoked(@, i),
               ![i] = Draft(cert[call[c].id].decision, i, call[c].id)]

ReissueCommit(c, i) ==
  /\ call[c].pc = "replace" /\ Fresh(i)
  /\ IF Found(call[c].id) /\ StillSigned(c)
     THEN /\ cert' = Replaced(c, i)
          /\ Tell(c, <<"revoked", call[c].id>>)
     ELSE cert' = cert /\ Goto(c, Idle)
  /\ UNCHANGED <<known, world>>

RevokeRead(c, i) ==
  /\ call[c] = Idle
  /\ Found(i) /\ cert[i].state = "signed"
  /\ Goto(c, [pc |-> "revoke", id |-> i, version |-> cert[i].version])
  /\ UNCHANGED <<cert, known, world>>

MutTellAnyway(c) == [pc |-> "tell", event |-> <<"revoked", call[c].id>>]
AfterConflict(c) == Idle

RevokeCommit(c) ==
  /\ call[c].pc = "revoke"
  /\ IF StillSigned(c)
     THEN /\ cert' = [cert EXCEPT ![call[c].id] = Revoked(@, None)]
          /\ Tell(c, <<"revoked", call[c].id>>)
     ELSE cert' = cert /\ Goto(c, AfterConflict(c))
  /\ UNCHANGED <<known, world>>

(* emitWebhookEventSafe: what fails there is only logged.                  *)
Announce(c) ==
  /\ call[c].pc = "tell"
  /\ Goto(c, Idle)
  /\ UNCHANGED <<cert, known, world>>

(* The key service or the store refuses, a transaction fails, or the       *)
(* process is lost.                                                        *)
Abort(c) ==
  /\ call[c] # Idle
  /\ Goto(c, Idle)
  /\ UNCHANGED <<cert, known, world>>

---------------------------------------------------------------------------
(* What happens around them.                                               *)

FinaliseDecision(d, outcome) ==
  /\ final[d] = None /\ ~decided /\ ~purged
  /\ final' = [final EXCEPT ![d] = outcome]
  /\ decided' = TRUE
  /\ UNCHANGED <<cert, purged, key, known, call>>

Reopen ==
  /\ decided /\ ~purged
  /\ decided' = FALSE
  /\ UNCHANGED <<cert, final, purged, key, known, call>>

ReplaceKey(k) ==
  /\ k # key
  /\ key' = k
  /\ UNCHANGED <<cert, final, decided, purged, known, call>>

Tombstoned(i) == [cert[i] EXCEPT !.deleted = TRUE, !.version = @ + 1]

PurgeCase ==
  /\ ~purged
  /\ purged' = TRUE
  /\ cert' = [i \in CertIds |-> IF Stored(i) THEN Tombstoned(i) ELSE Absent]
  /\ UNCHANGED <<final, decided, key, known, call>>

Next ==
  \/ \E c \in Calls :
       \/ \E d \in Decisions : GenerateCheck(c, d)
       \/ \E i \in CertIds : GenerateInsert(c, i) \/ SignRead(c, i) \/ ReissueRead(c, i)
                             \/ ReissueCommit(c, i) \/ RevokeRead(c, i)
       \/ SealWithKey(c) \/ RecordKey(c) \/ SignCommit(c) \/ SignConflict(c)
       \/ RevokeCommit(c) \/ Announce(c) \/ Abort(c)
  \/ \E d \in Decisions, outcome \in {"confirmed", "declined"} : FinaliseDecision(d, outcome)
  \/ Reopen \/ PurgeCase
  \/ \E k \in Keys : ReplaceKey(k)

Spec == Init /\ [][Next]_vars

---------------------------------------------------------------------------
(* Whatever was signed, and revoked since, passes the public check of its  *)
(* seal (checkSeal): it seals what the row and its decision still say, by  *)
(* a key whose public half is kept, although seals are made outside any    *)
(* transaction and the key may have been replaced meanwhile.               *)
SealsVerify ==
  \A i \in CertIds : Stored(i) /\ cert[i].state # "draft" =>
    LET s == cert[i].seal
    IN /\ s # None /\ s.outcome = final[cert[i].decision]
       /\ s.binding = cert[i].binding
       /\ s.key \in known

(* "each row storing the other's id" (reissueCertificate): the links of    *)
(* replaced and replacing certificates are mutual, whoever else revoked or *)
(* re-issued at the time, and join certificates of one decision.           *)
LinksAreMutual ==
  \A i, j \in CertIds : Stored(i) /\ Stored(j) =>
    /\ cert[i].supersededBy = j <=> cert[j].supersedes = i
    /\ cert[i].supersededBy = j => cert[i].decision = cert[j].decision
                                   /\ cert[i].state = "revoked"

(* Integrators are told only of what was committed, whoever lost a race.   *)
TellsTheTruth ==
  \A c \in Calls : call[c].pc = "tell" =>
    LET k == cert[call[c].event[2]]
    IN k.seal # None /\ (call[c].event[1] = "revoked" => k.state = "revoked")

(* What the rows say of each other and what integrators are told agree.    *)
CertificatesAgree == TypeOK /\ LinksAreMutual /\ TellsTheTruth

(* A certificate once revoked stays as it was revoked, replaced or not, and *)
(* one that went with its case is never signed or revoked afterwards: of    *)
(* several requests that read it, only one takes effect.                    *)
RevokedStays ==
  [][\A i \in CertIds : Stored(i) /\ (cert[i].state = "revoked" \/ cert[i].deleted)
       => /\ cert'[i].state = cert[i].state
          /\ cert'[i].supersededBy = cert[i].supersededBy
          /\ cert'[i].deleted \/ ~cert[i].deleted]_vars

(* "exactly one live certificate per decision exists at every commit"      *)
(* (reissueCertificate): a decision loses its certificate only to a        *)
(* revocation or a purge, and never has two.                               *)
CertificateKept ==
  [][\A d \in Decisions :
       /\ Cardinality(Live(d)') <= 1
       /\ Live(d) # {} /\ Live(d)' = {} =>
            purged' # purged \/ \E c \in Calls : call[c].pc = "revoke" /\ call'[c].pc = "tell"]_vars

(* No race gives a decision a second certificate or revives an old one.    *)
OneCertificate == RevokedStays /\ CertificateKept
=============================================================================
