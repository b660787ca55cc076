--------------------------- MODULE OrganisationKeys -------------------------
(***************************************************************************)
(* The row that names an organisation's master key at the KMS and says     *)
(* whether it may be used: administrators submit a key, operators switch   *)
(* it, and the health sweep, the health job, the settings page and every   *)
(* use of it write down what the KMS answered.  All of them read the row,  *)
(* ask the KMS, and later write by the organisation's id alone.            *)
(* Code: src/src/domains/organisation-keys/service.ts, health.ts,          *)
(* custody.ts, onboarding.ts, src/src/lib/encryption/key-health.ts.        *)
(*                                                                         *)
(* Operators whose names begin with Mut are slips this code could have     *)
(* made in the definition that follows them; no action uses them.          *)
(***************************************************************************)
EXTENDS Naturals

CONSTANTS
  Arns,       \* master keys
  Requests,   \* concurrent requests and jobs
  None

VARIABLES
  key,        \* the row of organisation_keys, None before there is one
  granted,    \* the master keys the KMS lets this organisation use
  request

keyVars == <<key, granted, request>>

Idle == [pc |-> "idle"]
Human == {"disabled", "pending_deletion"}
Status == {"active", "unavailable", "pending_validation"} \cup Human

KeyRows == [arn : Arns, previous : Arns \cup {None}, status : Status,
            validation : {"pending", "passed", "failed"}]

ASSUME NoneAssumption == None \notin Arns /\ None \notin KeyRows

KeyTypeOK ==
  /\ key = None \/ key \in KeyRows
  /\ granted \subseteq Arns
  /\ key = None => \A c \in Requests : request[c].pc \in {"idle", "submit"}

KeyInit ==
  /\ key = None
  /\ granted = Arns
  /\ request = [c \in Requests |-> Idle]

Goto(c, next) == request' = [request EXCEPT ![c] = next]
At(c, pc) == request[c].pc = pc
(* A step in which a request only moves on.                                *)
Moves(c, next) == Goto(c, next) /\ UNCHANGED <<key, granted>>
Writes(c, row) == key' = row /\ Goto(c, Idle) /\ UNCHANGED granted

---------------------------------------------------------------------------
(* submitOrganisationKey: register or point elsewhere, shake hands, and    *)
(* write down the outcome.                                                 *)

Submit(c, arn) ==
  /\ At(c, "idle")
  /\ Moves(c, [pc |-> "submit", arn |-> arn, first |-> key = None])

(* One row for each organisation.  A key already there gives way, and is   *)
(* not kept as the previous one.                                           *)
Submitted(arn) ==
  [arn |-> arn, previous |-> IF key = None THEN None ELSE key.previous,
   status |-> "pending_validation", validation |-> "pending"]

SubmitCommit(c) ==
  /\ At(c, "submit")
  /\ LET r == request[c] IN
     IF r.first /\ key # None THEN Moves(c, Idle)
     ELSE /\ key' = Submitted(r.arn)
          /\ Goto(c, [pc |-> "handshake", arn |-> r.arn])
          /\ UNCHANGED granted

(* Both the round trip and the refusal of a wrong context.                 *)
Handshake(c, passed) ==
  /\ At(c, "handshake")
  /\ passed => request[c].arn \in granted
  /\ Moves(c, [pc |-> "validate", passed |-> passed])

Validated(passed) ==
  [key EXCEPT !.status = IF passed THEN "active" ELSE "pending_validation",
              !.validation = IF passed THEN "passed" ELSE "failed"]

ValidateCommit(c) == At(c, "validate") /\ Writes(c, Validated(request[c].passed))

---------------------------------------------------------------------------
(* An operator's decision, in one transaction.                             *)
SetStatus(next) ==
  /\ key # None
  /\ key' = [key EXCEPT !.status = next]
  /\ UNCHANGED <<granted, request>>

(* The operator of the KMS, who is not ours.                               *)
KmsChanges(arns) == granted' = arns /\ UNCHANGED <<key, request>>

---------------------------------------------------------------------------
(* The sweep of the worker.  It leaves alone what people decided.          *)
MutProbed == {"active", "unavailable", "disabled"}
Probed == {"active", "unavailable"}

SweepRead(c) ==
  /\ At(c, "idle") /\ key # None /\ key.status \in Probed
  /\ Moves(c, [pc |-> "probe", arn |-> key.arn, was |-> key.status])

Probe(c) ==
  /\ At(c, "probe")
  /\ LET r == request[c] IN
     Moves(c, IF r.arn \in granted THEN IF r.was = "active" THEN Idle ELSE [pc |-> "restore"]
              ELSE IF r.was = "unavailable" THEN Idle ELSE [pc |-> "mark"])

(* Only the KMS's refusal is remembered: whoever had switched the key off  *)
(* is forgotten.                                                           *)
MarkUnavailable(c) == At(c, "mark") /\ Writes(c, [key EXCEPT !.status = "unavailable"])

Restore(c) == At(c, "restore") /\ Writes(c, [key EXCEPT !.status = "active"])

---------------------------------------------------------------------------
(* The health check of the settings page, which may also restore.          *)
CheckRead(c, restore) ==
  /\ At(c, "idle") /\ key # None
  /\ Moves(c, [pc |-> "check", arn |-> key.arn, restore |-> restore])

CheckKms(c) ==
  /\ At(c, "check")
  /\ LET r == request[c] IN
     Moves(c, IF r.arn \notin granted THEN [pc |-> "mark"]
              ELSE IF r.restore THEN [pc |-> "reread"] ELSE Idle)

CheckReread(c) ==
  /\ At(c, "reread")
  /\ Moves(c, IF key.status = "unavailable" THEN [pc |-> "restore"] ELSE Idle)

---------------------------------------------------------------------------
(* The health job: the gate of the worker, the row, the KMS, the outcome.  *)
ObserveGate(c) == At(c, "idle") /\ key # None /\ key.status = "active" /\ Moves(c, [pc |-> "load"])

ObserveLoad(c) ==
  /\ At(c, "load")
  /\ Moves(c, IF key.validation = "passed" THEN [pc |-> "describe", arn |-> key.arn] ELSE Idle)

(* What DescribeKey and the canary can say of a key that does not answer.  *)
Describe(c, seen) ==
  /\ At(c, "describe")
  /\ IF request[c].arn \in granted THEN seen = "active" ELSE seen \in Human \cup {"unavailable"}
  /\ Moves(c, [pc |-> "observe", seen |-> seen])

ObserveSave(c) == At(c, "observe") /\ Writes(c, [key EXCEPT !.status = request[c].seen])

---------------------------------------------------------------------------
(* Use of the key: a scope opens while the key is active and asks the KMS. *)
OpenScope(c) ==
  /\ At(c, "idle") /\ key # None /\ key.status = "active"
  /\ Moves(c, [pc |-> "use", arn |-> key.arn])

Refused(c) ==
  /\ At(c, "use") /\ request[c].arn \notin granted
  /\ Moves(c, [pc |-> "mark"])

---------------------------------------------------------------------------
(* rotateOrganisationKey: the checks come before the transaction.          *)
MayRotate(arn) == key.status = "active" /\ arn # key.arn /\ key.previous = None

RotateCheck(c, arn) ==
  /\ At(c, "idle") /\ key # None /\ MayRotate(arn)
  /\ Moves(c, [pc |-> "rotate", arn |-> arn, from |-> key.arn])

Rotated(r) == [arn |-> r.arn, previous |-> r.from, status |-> "active", validation |-> "pending"]

RotateCommit(c) ==
  /\ At(c, "rotate")
  /\ key' = Rotated(request[c])
  /\ UNCHANGED granted

Abort(c) == ~At(c, "idle") /\ Moves(c, Idle)

(* What happens to the row's standing.                                     *)
StandingNext ==
  \/ \E c \in Requests :
       \/ \E arn \in Arns : Submit(c, arn) \/ RotateCheck(c, arn)
       \/ SubmitCommit(c) \/ ValidateCommit(c)
       \/ SweepRead(c) \/ Probe(c) \/ MarkUnavailable(c) \/ Restore(c)
       \/ \E flag \in BOOLEAN : Handshake(c, flag) \/ CheckRead(c, flag)
       \/ CheckKms(c) \/ CheckReread(c)
       \/ ObserveGate(c) \/ ObserveLoad(c) \/ ObserveSave(c)
       \/ \E seen \in Human \cup {"active", "unavailable"} : Describe(c, seen)
       \/ OpenScope(c) \/ Refused(c) \/ Abort(c)
       \/ RotateCommit(c) /\ Goto(c, Idle)
  \/ \E next \in Human \cup {"active"} : SetStatus(next)
  \/ \E arns \in SUBSET Arns : KmsChanges(arns)
=============================================================================
