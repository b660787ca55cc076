------------------------------ MODULE KeyRewrap -----------------------------
(***************************************************************************)
(* The replacement of an organisation's master key: the row names the new  *)
(* key and the previous one, a job copies the stored objects under the new *)
(* key, item by item in the order of their ids with a checkpoint after     *)
(* each, and then forgets the previous key.  Meanwhile values are sealed   *)
(* and evidence is uploaded, promoted, rejected and disposed of.           *)
(* Code: src/src/domains/organisation-keys/rewrap-job.ts, rewrap-stores.ts,*)
(* src/src/lib/encryption/rewrap.ts, scope.ts, src/src/lib/storage/s3.ts.  *)
(* Operators whose names begin with Mut are slips this code could have     *)
(* made in the definition that follows them; no action uses them.          *)
(*                                                                         *)
(* The job's first phase re-wraps the rows of tenant_encrypted_fields, in  *)
(* which nothing in the code writes: it finds none.  The sealed values are *)
(* columns of other tables, which the job does not visit.                  *)
(***************************************************************************)
EXTENDS OrganisationKeys, FiniteSetsExt

CONSTANTS
  MaxReplacements,  \* bound on replacements
  MaxFiles,         \* bound on rows of evidence, which are numbered by id
  Values,           \* sealed columns
  MaxTries          \* BullMQ attempts of a job

ASSUME RewrapBounds ==
  MaxReplacements \in Nat /\ MaxFiles \in Nat /\ MaxTries \in Nat \ {0}

VARIABLES
  rewrap,     \* organisation_key_rewraps by id
  worker,     \* what works on each
  file,       \* evidence rows and their two objects
  value       \* the key each sealed column is wrapped by

rewrapVars == <<rewrap, worker, file, value>>
vars == <<keyVars, rewrapVars>>

RewrapIds == 1 .. MaxReplacements
Files == 1 .. MaxFiles
Items == 1 .. 2 * MaxFiles
Absent == [status |-> "absent"]
NoFile == [row |-> "none", q |-> None, e |-> None]
Stored == Arns \cup {None}

RewrapTypeOK ==
  /\ KeyTypeOK
  /\ rewrap \in [RewrapIds -> {Absent} \cup
       [status : {"running", "completed"}, from : Arns, to : Arns, done : BOOLEAN,
        cursor : {0} \cup Items, job : {"none", "queued"}, attempts : 0 .. MaxTries]]
  /\ file \in [Files -> [row : {"none", "pending", "clean", "rejected", "disposed"},
                         q : Stored, e : Stored]]
  /\ \A f \in Files : file[f].row = "disposed" => file[f].e = None
  /\ value \in [Values -> Stored]
  /\ \A i \in RewrapIds : worker[i].pc \in {"copy", "save"} => worker[i].page \in (SUBSET Items) \ {{}}

RewrapsInit ==
  /\ rewrap = [i \in RewrapIds |-> Absent]
  /\ worker = [i \in RewrapIds |-> Idle]
  /\ file = [f \in Files |-> NoFile]
  /\ value = [v \in Values |-> None]

(* A key is registered and has passed its handshake.                       *)
RewrapInit ==
  /\ \E arn \in Arns :
       key = [arn |-> arn, previous |-> None, status |-> "active", validation |-> "passed"]
  /\ granted = Arns
  /\ request = [c \in Requests |-> Idle]
  /\ RewrapsInit

---------------------------------------------------------------------------
(* replaceOrganisationKey: row and job's row in one transaction, then the  *)
(* queue.                                                                  *)
Replace(c, i) ==
  /\ RotateCommit(c)
  /\ rewrap[i] = Absent /\ \A j \in 1 .. i - 1 : rewrap[j] # Absent
  /\ rewrap' = [rewrap EXCEPT ![i] =
       [status |-> "running", from |-> request[c].from, to |-> request[c].arn, done |-> FALSE,
        cursor |-> 0, job |-> "none", attempts |-> 0]]
  /\ Goto(c, [pc |-> "enqueue", id |-> i])
  /\ UNCHANGED <<worker, file, value>>

Enqueue(c) ==
  /\ At(c, "enqueue")
  /\ rewrap' = [rewrap EXCEPT ![request[c].id].job = "queued"]
  /\ Goto(c, Idle)
  /\ UNCHANGED <<key, granted, worker, file, value>>

---------------------------------------------------------------------------
(* Sealing and storing a value, and the life of a file.                    *)
Store(c, v) ==
  /\ At(c, "use") /\ request[c].arn \in granted
  /\ value' = [value EXCEPT ![v] = request[c].arn]
  /\ Goto(c, Idle)
  /\ UNCHANGED <<key, granted, rewrap, worker, file>>

FileStep(c, f, now, next) ==
  /\ file' = [file EXCEPT ![f] = now]
  /\ Goto(c, next)
  /\ UNCHANGED <<key, granted, rewrap, worker, value>>

(* The row is inserted, and a PUT under the key of the moment is signed.   *)
RequestUpload(c, f) ==
  /\ At(c, "idle") /\ file[f].row = "none" /\ key.status = "active"
  /\ FileStep(c, f, [file[f] EXCEPT !.row = "pending"], [pc |-> "put", of |-> f, arn |-> key.arn])

Put(c) ==
  /\ At(c, "put")
  /\ LET r == request[c] IN FileStep(c, r.of, [file[r.of] EXCEPT !.q = r.arn], Idle)

PromoteRead(c, f) ==
  /\ At(c, "idle") /\ file[f].row = "pending" /\ file[f].q # None /\ key.status = "active"
  /\ FileStep(c, f, file[f], [pc |-> "promote", of |-> f, arn |-> key.arn])

(* Copied, deleted from quarantine, and only then written down.  The row   *)
(* goes on naming the object in quarantine.                                *)
PromoteCopy(c) ==
  /\ At(c, "promote")
  /\ LET r == request[c] IN
     IF file[r.of].q = None THEN FileStep(c, r.of, file[r.of], Idle)
     ELSE FileStep(c, r.of, [file[r.of] EXCEPT !.q = None, !.e = r.arn], [pc |-> "settle", of |-> r.of])

PromoteSettle(c) ==
  /\ At(c, "settle")
  /\ LET f == request[c].of IN FileStep(c, f, [file[f] EXCEPT !.row = "clean"], Idle)

(* Rejected by the scan or expired, in quarantine.                         *)
Reject(f) ==
  /\ file[f].row = "pending" /\ file[f].e = None
  /\ \A c \in Requests : request[c].pc \in {"promote", "settle"} => request[c].of # f
  /\ file' = [file EXCEPT ![f] = [file[f] EXCEPT !.row = "rejected", !.q = None]]
  /\ UNCHANGED <<keyVars, rewrap, worker, value>>

Dispose(f) ==
  /\ file[f].row \in {"clean", "rejected"}
  /\ file' = [file EXCEPT ![f] = [row |-> "disposed", q |-> None, e |-> None]]
  /\ UNCHANGED <<keyVars, rewrap, worker, value>>

---------------------------------------------------------------------------
(* The job.                                                                *)

(* Of one row, the object in evidence comes before the one in quarantine.  *)
Evidence(f) == 2 * f - 1
Quarantine(f) == 2 * f
FileOf(item) == (item + 1) \div 2
Slot(item) == IF item = Evidence(FileOf(item)) THEN "e" ELSE "q"

(* What the rows name, whatever their status, and whether it exists or not. *)
Listed == {Quarantine(f) : f \in {g \in Files : file[g].row \notin {"none", "disposed"}}}
            \cup {Evidence(f) : f \in {g \in Files : file[g].row = "clean"}}

WorkerStep(i, next) == worker' = [worker EXCEPT ![i] = next] /\ UNCHANGED <<granted, request, value>>

Pickup(i) ==
  /\ rewrap[i] # Absent /\ rewrap[i].job = "queued" /\ worker[i].pc = "idle" /\ key.status = "active"
  /\ IF rewrap[i].status = "completed"
     THEN rewrap' = [rewrap EXCEPT ![i].job = "none"] /\ WorkerStep(i, Idle)
     ELSE /\ WorkerStep(i, IF rewrap[i].done THEN [pc |-> "clear"]
                           ELSE [pc |-> "list", cursor |-> rewrap[i].cursor])
          /\ UNCHANGED rewrap
  /\ UNCHANGED <<key, file>>

After(cursor) == {item \in Listed : item > cursor}

List(i) ==
  /\ worker[i].pc = "list"
  /\ LET page == After(worker[i].cursor) IN
     IF page = {} THEN rewrap' = [rewrap EXCEPT ![i].done = TRUE] /\ WorkerStep(i, [pc |-> "clear"])
     ELSE UNCHANGED rewrap /\ WorkerStep(i, [pc |-> "copy", page |-> page])
  /\ UNCHANGED <<key, file>>

Copy(i) ==
  /\ worker[i].pc = "copy"
  /\ LET item == Min(worker[i].page)
         f == FileOf(item)
     IN /\ file[f][Slot(item)] # None
        /\ file' = [file EXCEPT ![f] = [file[f] EXCEPT ![Slot(item)] = rewrap[i].to]]
  /\ WorkerStep(i, [worker[i] EXCEPT !.pc = "save"])
  /\ UNCHANGED <<key, rewrap>>

(* The checkpoint after each item.                                         *)
MutCheckpoint(i) == [rewrap EXCEPT ![i].cursor = Max(worker[i].page)]
Checkpoint(i) == [rewrap EXCEPT ![i].cursor = Min(worker[i].page)]

Save(i) ==
  /\ worker[i].pc = "save"
  /\ rewrap' = Checkpoint(i)
  /\ LET item == Min(worker[i].page)
         rest == worker[i].page \ {item}
     IN WorkerStep(i, IF rest = {} THEN [pc |-> "list", cursor |-> item]
                      ELSE [pc |-> "copy", page |-> rest])
  /\ UNCHANGED <<key, file>>

(* By the organisation's id alone, whichever replacement is under way.     *)
Clear(i) ==
  /\ worker[i].pc = "clear"
  /\ key' = [key EXCEPT !.previous = None]
  /\ WorkerStep(i, [pc |-> "complete"])
  /\ UNCHANGED <<rewrap, file>>

Complete(i) ==
  /\ worker[i].pc = "complete"
  /\ rewrap' = [rewrap EXCEPT ![i].status = "completed"]
  /\ WorkerStep(i, [pc |-> "audit"])
  /\ UNCHANGED <<key, file>>

Audited(i) ==
  /\ worker[i].pc = "audit"
  /\ rewrap' = [rewrap EXCEPT ![i].job = "none"]
  /\ WorkerStep(i, Idle)
  /\ UNCHANGED <<key, file>>

TriesLeft(tries) == tries < MaxTries

(* A call that fails puts the status back to running, and the job in line  *)
(* for another attempt while there are any.  So does a copy of an object   *)
(* that is not there.                                                      *)
Fails(i) ==
  /\ worker[i].pc # "idle"
  /\ LET tries == rewrap[i].attempts + 1 IN
     rewrap' = [rewrap EXCEPT ![i] =
       [rewrap[i] EXCEPT !.status = "running", !.attempts = tries,
                         !.job = IF TriesLeft(tries) THEN "queued" ELSE "none"]]
  /\ WorkerStep(i, Idle)
  /\ UNCHANGED <<key, file>>

(* The worker dies, and the job, which has stalled, is delivered again.    *)
Killed(i) ==
  /\ worker[i].pc # "idle"
  /\ WorkerStep(i, Idle)
  /\ UNCHANGED <<key, rewrap, file>>

Works(i) ==
  \/ Pickup(i) \/ List(i) \/ Copy(i) \/ Save(i) \/ Clear(i) \/ Complete(i) \/ Audited(i)
  \/ Fails(i)

RewrapNext ==
  \/ \E c \in Requests :
       \/ \E arn \in Arns : RotateCheck(c, arn) /\ UNCHANGED rewrapVars
       \/ \E i \in RewrapIds : Replace(c, i)
       \/ Enqueue(c)
       \/ OpenScope(c) /\ UNCHANGED rewrapVars
       \/ \E v \in Values : Store(c, v)
       \/ \E f \in Files : RequestUpload(c, f) \/ PromoteRead(c, f)
       \/ Put(c) \/ PromoteCopy(c) \/ PromoteSettle(c)
       \/ Abort(c) /\ UNCHANGED rewrapVars
  \/ \E f \in Files : Reject(f) \/ Dispose(f)
  \/ \E i \in RewrapIds : Works(i) \/ Killed(i)

RewrapSpec == RewrapInit /\ [][RewrapNext]_vars
=============================================================================
