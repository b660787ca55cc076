---------------------------- MODULE EvidenceScan ----------------------------
(***************************************************************************)
(* The evidence pipeline of BlakPath: an upload is presigned into the      *)
(* quarantine bucket, confirmed by a request handler, scanned by a BullMQ  *)
(* worker and promoted to the evidence bucket, while a sweeper redrives    *)
(* lost scans and expires abandoned uploads.                               *)
(*                                                                         *)
(* Postgres, the two buckets and the queue are shared and only single      *)
(* statements on them are atomic; request handlers, workers and the        *)
(* sweeper keep what they read in records of their own and act on it       *)
(* later.  Code: src/src/domains/evidence, src/src/lib/queues,             *)
(* src/src/lib/storage/s3.ts, src/worker.                                  *)
(*                                                                         *)
(* Operators whose names begin with Mut are slips this code could have     *)
(* made in the definition that follows them; no action uses them.          *)
(***************************************************************************)
EXTENDS Integers, FiniteSets

CONSTANTS
  Evidence,    \* evidence rows (and, one to one, their object keys)
  FormFiles,   \* those uploaded through a public form invitation
  Requests,    \* concurrent "complete upload" request handlers
  Workers,     \* concurrent scan processors
  Contents,    \* byte strings a client may PUT; equal bytes have equal ETags
  RightSize,   \* contents whose length is the declared one and within limits
  RightType,   \* contents whose magic bytes match the declared type
  Harmless,    \* contents ClamAV reports clean
  NoObject,    \* the key is absent from a bucket
  MaxJobs,     \* bound: waiting scan jobs per row
  MaxLetters,  \* bound: dead letters per row
  MaxFaults,   \* bound: crashes, stalls and storage errors in a behaviour
  LocksExpire  \* may a scan outlive its BullMQ job lock?

ASSUME EvidenceAssumption ==
  /\ FormFiles \subseteq Evidence
  /\ RightSize \subseteq Contents
  /\ RightType \subseteq Contents
  /\ Harmless \subseteq Contents
  /\ NoObject \notin Contents
  /\ MaxJobs \in Nat /\ MaxLetters \in Nat /\ MaxFaults \in Nat
  /\ LocksExpire \in BOOLEAN

VARIABLES
  status,      \* evidence.status, "absent" before the row is inserted
  digest,      \* evidence.sha256, set together with evidence.evidence_key
  age,         \* time since created_at: 0 upload URL live, 1 expired, 2 old
  waited,      \* updated_at is older than the requeue threshold
  quarantine,  \* object in the quarantine bucket
  bucket,      \* object in the evidence bucket
  jobs,        \* scan jobs BullMQ still has to run (waiting or delayed)
  keyed,       \* a job whose id is the evidence id is retained
  letters,     \* jobs on the dead-letter queue
  req,         \* request handlers
  scan,        \* scan processors
  sweep,       \* the sweeper
  faults       \* faults so far

rowVars    == <<status, digest, age, waited>>
objectVars == <<quarantine, bucket>>
queueVars  == <<jobs, keyed, letters>>
vars == <<rowVars, objectVars, queueVars, req, scan, sweep, faults>>

Statuses == {"absent", "pending", "quarantined", "clean", "infected", "rejected"}
Terminal == {"clean", "infected", "rejected"}

Objects  == Contents \cup {NoObject}

\* What a promotable object must be: sized, typed and scanned.
Verified == RightSize \cap RightType \cap Harmless

ReqIdle   == [pc |-> "idle"]
ScanIdle  == [pc |-> "idle"]
SweepIdle == [pc |-> "idle"]

ReqRun    == [pc : {"head", "commit", "enqueue"}, ev : Evidence]
ReqStates == {ReqIdle} \cup ReqRun

ScanPcs == {"read", "head", "missing", "type", "scan", "copy", "delete", "drop",
            "settle"}
Outcomes == {"none", "clean", "infected", "rejected"}
ScanRun ==
  [pc : ScanPcs, ev : Evidence, etag : Objects, outcome : Outcomes, lost : BOOLEAN]
ScanStates == {ScanIdle} \cup ScanRun

SweepRun ==
  [pc : {"letters", "redrive", "remove", "due", "requeue", "stale", "expire"},
   waited : SUBSET Evidence, old : SUBSET Evidence, inFlight : SUBSET Evidence,
   letters : [Evidence -> Nat], todo : SUBSET Evidence, deleted : SUBSET Evidence]
SweepStates == {SweepIdle} \cup SweepRun

Scanning(w, pc)   == scan[w].pc = pc
Requesting(r, pc) == req[r].pc = pc
Sweeping(pc)      == sweep.pc = pc

TypeOK ==
  /\ status \in [Evidence -> Statuses]
  /\ digest \in [Evidence -> Objects]
  /\ age \in [Evidence -> 0..2]
  /\ waited \in [Evidence -> BOOLEAN]
  /\ quarantine \in [Evidence -> Objects]
  /\ bucket \in [Evidence -> Objects]
  /\ jobs \in [Evidence -> Nat]
  /\ keyed \in [Evidence -> BOOLEAN]
  /\ letters \in [Evidence -> Nat]
  /\ req \in [Requests -> ReqStates]
  /\ scan \in [Workers -> ScanStates]
  /\ sweep \in SweepStates
  /\ faults \in Nat

Init ==
  /\ status = [e \in Evidence |-> "absent"]
  /\ digest = [e \in Evidence |-> NoObject]
  /\ age = [e \in Evidence |-> 0]
  /\ waited = [e \in Evidence |-> FALSE]
  /\ quarantine = [e \in Evidence |-> NoObject]
  /\ bucket = [e \in Evidence |-> NoObject]
  /\ jobs = [e \in Evidence |-> 0]
  /\ keyed = [e \in Evidence |-> FALSE]
  /\ letters = [e \in Evidence |-> 0]
  /\ req = [r \in Requests |-> ReqIdle]
  /\ scan = [w \in Workers |-> ScanIdle]
  /\ sweep = SweepIdle
  /\ faults = 0

-----------------------------------------------------------------------------
(* The client and time.                                                    *)

\* The row is inserted pending and a PUT into quarantine is presigned.
RequestUpload(e) ==
  /\ status[e] = "absent"
  /\ status' = [status EXCEPT ![e] = "pending"]
  /\ UNCHANGED <<digest, age, waited, objectVars, queueVars, req, scan, sweep, faults>>

\* The client PUTs, or PUTs again, for as long as the presigned URL lives.
Put(e, c) ==
  /\ status[e] # "absent"
  /\ age[e] = 0
  /\ quarantine' = [quarantine EXCEPT ![e] = c]
  /\ UNCHANGED <<rowVars, bucket, queueVars, req, scan, sweep, faults>>

\* The upload URL expires after minutes, the pending row after a day.
GrowOld(e) ==
  /\ status[e] # "absent"
  /\ age[e] < 2
  /\ age' = [age EXCEPT ![e] = @ + 1]
  /\ UNCHANGED <<status, digest, waited, objectVars, queueVars, req, scan, sweep, faults>>

InRequest(e) == \E r \in Requests : req[r] # ReqIdle /\ req[r].ev = e

\* A quarantined row passes the requeue threshold.  A request handler lives
\* for seconds and the threshold is at least a minute, so none is still at
\* work on the row when it does.
WaitTooLong(e) ==
  /\ status[e] = "quarantined"
  /\ ~waited[e]
  /\ ~InRequest(e)
  /\ waited' = [waited EXCEPT ![e] = TRUE]
  /\ UNCHANGED <<status, digest, age, objectVars, queueVars, req, scan, sweep, faults>>

-----------------------------------------------------------------------------
(* Confirming an upload: completeUpload and completeFormFileUpload.        *)

ReqUnchanged == UNCHANGED <<digest, age, objectVars, scan, sweep>>

\* Read the row; anything but pending is returned as it is.
CompleteRead(r, e) ==
  /\ req[r] = ReqIdle
  /\ status[e] = "pending"
  /\ req' = [req EXCEPT ![r] = [pc |-> "head", ev |-> e]]
  /\ UNCHANGED <<status, waited, queueVars, faults>> /\ ReqUnchanged

\* State the quarantine object; missing or wrongly sized bytes are refused.
CompleteHead(r) ==
  /\ Requesting(r, "head")
  /\ req' = [req EXCEPT ![r] = IF quarantine[req[r].ev] \in RightSize
                               THEN [@ EXCEPT !.pc = "commit"]
                               ELSE ReqIdle]
  /\ UNCHANGED <<status, waited, queueVars, faults>> /\ ReqUnchanged

\* completeUpload updates by id alone; completeFormFileUpload only a row that
\* is still pending, and returns when a concurrent complete moved it on.
MutUnguardedForm(e) == TRUE
MayQuarantine(e) == e \in FormFiles => status[e] = "pending"

CompleteCommit(r) ==
  LET e == req[r].ev IN
  /\ Requesting(r, "commit")
  /\ IF MayQuarantine(e)
     THEN /\ status' = [status EXCEPT ![e] = "quarantined"]
          /\ waited' = [waited EXCEPT ![e] = FALSE]
          /\ req' = [req EXCEPT ![r].pc = "enqueue"]
     ELSE /\ req' = [req EXCEPT ![r] = ReqIdle]
          /\ UNCHANGED <<status, waited>>
  /\ UNCHANGED <<queueVars, faults>> /\ ReqUnchanged

\* The first job of a row is keyed by the evidence id: BullMQ ignores an add
\* whose id it still retains.
EnqueueKeyed(e) ==
  IF keyed[e]
  THEN UNCHANGED <<jobs, keyed>>
  ELSE /\ jobs' = [jobs EXCEPT ![e] = @ + 1]
       /\ keyed' = [keyed EXCEPT ![e] = TRUE]

CompleteEnqueue(r) ==
  /\ Requesting(r, "enqueue")
  /\ EnqueueKeyed(req[r].ev)
  /\ req' = [req EXCEPT ![r] = ReqIdle]
  /\ UNCHANGED <<status, waited, letters, faults>> /\ ReqUnchanged

\* The handler dies, or Redis refuses the job, after any of its steps.
RequestFails(r) ==
  /\ req[r] # ReqIdle
  /\ faults < MaxFaults
  /\ faults' = faults + 1
  /\ req' = [req EXCEPT ![r] = ReqIdle]
  /\ UNCHANGED <<status, waited, queueVars>> /\ ReqUnchanged

-----------------------------------------------------------------------------
(* The scan processor: processEvidenceScan, one action per effect.         *)

ScanUnchanged == UNCHANGED <<age, keyed, req, sweep>>

Goto(w, pc) == scan' = [scan EXCEPT ![w].pc = pc]
Decide(w, pc, outcome) ==
  scan' = [scan EXCEPT ![w].pc = pc, ![w].outcome = outcome]

\* A worker takes a waiting job.
TakeJob(w, e) ==
  /\ scan[w] = ScanIdle
  /\ jobs[e] > 0
  /\ jobs' = [jobs EXCEPT ![e] = @ - 1]
  /\ scan' = [scan EXCEPT ![w] = [pc |-> "read", ev |-> e, etag |-> NoObject,
                                  outcome |-> "none", lost |-> FALSE]]
  /\ UNCHANGED <<status, digest, waited, objectVars, letters, faults>> /\ ScanUnchanged

\* Skip a row that is not quarantined; the job completes.
ScanRead(w) ==
  /\ Scanning(w, "read")
  /\ IF status[scan[w].ev] = "quarantined"
     THEN Goto(w, "head")
     ELSE scan' = [scan EXCEPT ![w] = ScanIdle]
  /\ UNCHANGED <<status, digest, waited, objectVars, jobs, letters, faults>>
  /\ ScanUnchanged

\* HeadObject on quarantine pins the ETag of every later read.
ScanHead(w) ==
  LET object == quarantine[scan[w].ev] IN
  /\ Scanning(w, "head")
  /\ IF object = NoObject THEN Goto(w, "missing")
     ELSE IF object \notin RightSize THEN Decide(w, "drop", "rejected")
     ELSE scan' = [scan EXCEPT ![w].pc = "type", ![w].etag = object]
  /\ UNCHANGED <<status, digest, waited, objectVars, jobs, letters, faults>>
  /\ ScanUnchanged

MutMissingIsClean(w) ==
  /\ Scanning(w, "missing")
  /\ \E c \in RightSize :
       scan' = [scan EXCEPT ![w].pc = "settle", ![w].outcome = "clean", ![w].etag = c]
  /\ UNCHANGED <<status, digest, waited, objectVars, jobs, letters, faults>>
  /\ ScanUnchanged

\* A missing quarantine object: an object already promoted settles the row
\* clean with the digest of the promoted bytes, otherwise it is rejected.
ScanMissing(w) ==
  LET promoted == bucket[scan[w].ev] IN
  /\ Scanning(w, "missing")
  /\ IF promoted \in RightSize
     THEN scan' = [scan EXCEPT ![w].pc = "settle", ![w].outcome = "clean",
                               ![w].etag = promoted]
     ELSE Decide(w, "settle", "rejected")
  /\ UNCHANGED <<status, digest, waited, objectVars, jobs, letters, faults>>
  /\ ScanUnchanged

\* Bytes read under If-Match are the ones the ETag names.
Pinned(w) == quarantine[scan[w].ev] = scan[w].etag

DetectType(w) ==
  /\ Scanning(w, "type")
  /\ Pinned(w)
  /\ IF scan[w].etag \in RightType THEN Goto(w, "scan") ELSE Decide(w, "drop", "rejected")
  /\ UNCHANGED <<status, digest, waited, objectVars, jobs, letters, faults>>
  /\ ScanUnchanged

Verdict(w) ==
  /\ Scanning(w, "scan")
  /\ Pinned(w)
  /\ IF scan[w].etag \in Harmless
     THEN Decide(w, "copy", "clean")
     ELSE Decide(w, "drop", "infected")
  /\ UNCHANGED <<status, digest, waited, objectVars, jobs, letters, faults>>
  /\ ScanUnchanged

\* Refused bytes leave quarantine before the row is settled.
Drop(w) ==
  /\ Scanning(w, "drop")
  /\ quarantine' = [quarantine EXCEPT ![scan[w].ev] = NoObject]
  /\ Goto(w, "settle")
  /\ UNCHANGED <<status, digest, waited, bucket, jobs, letters, faults>>
  /\ ScanUnchanged

MutPromoteUnpinned(w) ==
  /\ Scanning(w, "copy")
  /\ quarantine[scan[w].ev] # NoObject
  /\ bucket' = [bucket EXCEPT ![scan[w].ev] = quarantine[scan[w].ev]]
  /\ Goto(w, "delete")
  /\ UNCHANGED <<status, digest, waited, quarantine, jobs, letters, faults>>
  /\ ScanUnchanged

\* moveQuarantineToEvidence: a copy pinned to the ETag, then a delete.
Promote(w) ==
  /\ Scanning(w, "copy")
  /\ Pinned(w)
  /\ bucket' = [bucket EXCEPT ![scan[w].ev] = quarantine[scan[w].ev]]
  /\ Goto(w, "delete")
  /\ UNCHANGED <<status, digest, waited, quarantine, jobs, letters, faults>>
  /\ ScanUnchanged

DeletePromoted(w) ==
  /\ Scanning(w, "delete")
  /\ quarantine' = [quarantine EXCEPT ![scan[w].ev] = NoObject]
  /\ Goto(w, "settle")
  /\ UNCHANGED <<status, digest, waited, bucket, jobs, letters, faults>>
  /\ ScanUnchanged


\* The status and its audit commit together, by id, whatever the row holds.
Settle(w) ==
  LET e == scan[w].ev IN
  /\ Scanning(w, "settle")
  /\ status' = [status EXCEPT ![e] = scan[w].outcome]
  /\ digest' = [digest EXCEPT ![e] = IF scan[w].outcome = "clean" THEN scan[w].etag ELSE @]
  /\ waited' = [waited EXCEPT ![e] = FALSE]
  /\ scan' = [scan EXCEPT ![w] = ScanIdle]
  /\ UNCHANGED <<objectVars, jobs, letters, faults>>
  /\ ScanUnchanged

\* What becomes of the job of a run that threw: retried with backoff, or dead
\* lettered once its attempts are spent, or lost when that add fails as well.
JobThrown(w) ==
  LET e == scan[w].ev IN
  IF scan[w].lost THEN UNCHANGED <<jobs, letters>>
  ELSE \/ jobs[e] < MaxJobs /\ jobs' = [jobs EXCEPT ![e] = @ + 1] /\ UNCHANGED letters
       \/ letters[e] < MaxLetters /\ letters' = [letters EXCEPT ![e] = @ + 1]
          /\ UNCHANGED jobs
       \/ UNCHANGED <<jobs, letters>>

Throw(w) ==
  /\ JobThrown(w)
  /\ scan' = [scan EXCEPT ![w] = ScanIdle]
  /\ UNCHANGED <<status, digest, waited, objectVars>> /\ ScanUnchanged

\* If-Match fails: the object was replaced or removed since HeadObject.
PinFails(w) ==
  /\ scan[w].pc \in {"type", "scan", "copy"}
  /\ ~Pinned(w)
  /\ Throw(w)
  /\ UNCHANGED faults

\* ClamAV is unavailable: the run throws and the row stays quarantined.
ScannerDown(w) ==
  /\ Scanning(w, "scan")
  /\ Throw(w)
  /\ UNCHANGED faults

\* The worker dies, or storage or the database refuses its next step.
ScanFails(w) ==
  /\ scan[w] # ScanIdle
  /\ faults < MaxFaults
  /\ faults' = faults + 1
  /\ Throw(w)

\* The run outlives its job lock: BullMQ hands the job to another worker
\* while this one carries on.
Stall(w) ==
  /\ LocksExpire
  /\ scan[w] # ScanIdle
  /\ ~scan[w].lost
  /\ faults < MaxFaults
  /\ jobs[scan[w].ev] < MaxJobs
  /\ faults' = faults + 1
  /\ scan' = [scan EXCEPT ![w].lost = TRUE]
  /\ jobs' = [jobs EXCEPT ![scan[w].ev] = @ + 1]
  /\ UNCHANGED <<status, digest, waited, objectVars, letters>> /\ ScanUnchanged

-----------------------------------------------------------------------------
(* The sweeper: sweepEvidenceScans.                                        *)

SweepUnchanged == UNCHANGED <<digest, age, bucket, keyed, req, scan>>

MutInFlightWaiting == {e \in Evidence : jobs[e] > 0}

InFlight ==
  {e \in Evidence : \/ jobs[e] > 0
                    \/ \E w \in Workers : /\ scan[w] # ScanIdle
                                          /\ scan[w].ev = e /\ ~scan[w].lost}

\* The clock and the set of scans still to run are read once and used to the
\* end: a row is due, or expired, by the time at which the sweep began.
SweepStart ==
  /\ sweep = SweepIdle
  /\ sweep' = [pc |-> "letters",
               waited |-> {e \in Evidence : waited[e]},
               old |-> {e \in Evidence : age[e] = 2},
               inFlight |-> InFlight,
               letters |-> [e \in Evidence |-> 0], todo |-> {}, deleted |-> {}]
  /\ UNCHANGED <<status, waited, quarantine, jobs, letters, faults>> /\ SweepUnchanged

SweepReadLetters ==
  /\ Sweeping("letters")
  /\ sweep' = [sweep EXCEPT !.pc = "redrive", !.letters = letters,
                            !.todo = {e \in Evidence : letters[e] > 0}]
  /\ UNCHANGED <<status, waited, quarantine, jobs, letters, faults>> /\ SweepUnchanged

\* planDlqRedrive: one fresh job for each lettered row with none in flight.
MutEnqueueSameId(e) ==
  IF keyed[e] THEN UNCHANGED jobs ELSE jobs' = [jobs EXCEPT ![e] = @ + 1]
EnqueueFresh(e) == jobs' = [jobs EXCEPT ![e] = @ + 1]

SweepEnqueue(e, pc) ==
  /\ Sweeping(pc)
  /\ e \in sweep.todo
  /\ IF e \in sweep.inFlight THEN UNCHANGED jobs ELSE EnqueueFresh(e)
  /\ sweep' = [sweep EXCEPT !.todo = @ \ {e}, !.inFlight = @ \cup {e}]
  /\ UNCHANGED <<status, waited, quarantine, letters, faults>> /\ SweepUnchanged

SweepRedrive(e) == SweepEnqueue(e, "redrive")
SweepRequeue(e) == SweepEnqueue(e, "requeue")

\* The letters read are removed only once every redrive has been enqueued.
SweepRemoveLetters ==
  /\ Sweeping("redrive")
  /\ sweep.todo = {}
  /\ letters' = [e \in Evidence |-> letters[e] - sweep.letters[e]]
  /\ sweep' = [sweep EXCEPT !.pc = "due"]
  /\ UNCHANGED <<status, waited, quarantine, jobs, faults>> /\ SweepUnchanged

SweepReadDue ==
  /\ Sweeping("due")
  /\ sweep' = [sweep EXCEPT !.pc = "requeue",
                 !.todo = {e \in sweep.waited : status[e] = "quarantined" /\ waited[e]}]
  /\ UNCHANGED <<status, waited, quarantine, jobs, letters, faults>> /\ SweepUnchanged

SweepReadStale ==
  /\ Sweeping("requeue")
  /\ sweep.todo = {}
  /\ sweep' = [sweep EXCEPT !.pc = "expire",
                 !.todo = {e \in sweep.old : status[e] = "pending"}]
  /\ UNCHANGED <<status, waited, quarantine, jobs, letters, faults>> /\ SweepUnchanged

\* Expiry deletes the bytes first, best effort, ...
SweepDelete(e) ==
  /\ Sweeping("expire")
  /\ sweep.deleted = {}
  /\ e \in sweep.todo
  /\ \/ quarantine' = [quarantine EXCEPT ![e] = NoObject]
     \/ UNCHANGED quarantine
  /\ sweep' = [sweep EXCEPT !.todo = @ \ {e}, !.deleted = @ \cup {e}]
  /\ UNCHANGED <<status, waited, jobs, letters, faults>> /\ SweepUnchanged


\* ... and then rejects the row, if it is still pending.
SweepReject(e) ==
  /\ Sweeping("expire")
  /\ e \in sweep.deleted
  /\ status' = [status EXCEPT ![e] = IF @ = "pending" THEN "rejected" ELSE @]
  /\ sweep' = [sweep EXCEPT !.deleted = @ \ {e}]
  /\ UNCHANGED <<waited, quarantine, jobs, letters, faults>> /\ SweepUnchanged

SweepDone ==
  /\ Sweeping("expire")
  /\ sweep.todo = {} /\ sweep.deleted = {}
  /\ sweep' = SweepIdle
  /\ UNCHANGED <<status, waited, quarantine, jobs, letters, faults>> /\ SweepUnchanged

SweepFails ==
  /\ sweep # SweepIdle
  /\ faults < MaxFaults
  /\ faults' = faults + 1
  /\ sweep' = SweepIdle
  /\ UNCHANGED <<status, waited, quarantine, jobs, letters>> /\ SweepUnchanged

-----------------------------------------------------------------------------
CompleteStep(r) ==
  \/ CompleteHead(r) \/ CompleteCommit(r) \/ CompleteEnqueue(r) \/ RequestFails(r)

ScanStep(w) ==
  \/ ScanRead(w) \/ ScanHead(w) \/ ScanMissing(w) \/ DetectType(w) \/ Verdict(w)
  \/ Drop(w) \/ Promote(w) \/ DeletePromoted(w) \/ Settle(w)
  \/ PinFails(w) \/ ScannerDown(w)

SweepStep ==
  \/ SweepReadLetters \/ SweepRemoveLetters \/ SweepReadDue \/ SweepReadStale
  \/ SweepDone
  \/ \E e \in Evidence :
       SweepRedrive(e) \/ SweepRequeue(e) \/ SweepDelete(e) \/ SweepReject(e)

Next ==
  \/ \E e \in Evidence : RequestUpload(e) \/ GrowOld(e) \/ WaitTooLong(e)
  \/ \E e \in Evidence, c \in Contents : Put(e, c)
  \/ \E r \in Requests, e \in Evidence : CompleteRead(r, e)
  \/ \E r \in Requests : CompleteStep(r)
  \/ \E w \in Workers, e \in Evidence : TakeJob(w, e)
  \/ \E w \in Workers : ScanStep(w) \/ ScanFails(w) \/ Stall(w)
  \/ SweepStart \/ SweepStep \/ SweepFails

Spec == Init /\ [][Next]_vars

\* Request handlers and sweeps run to an end, workers are polled by BullMQ, the
\* sweep is on a schedule, time passes, and the scanner is not down for ever.
Fairness ==
  /\ \A r \in Requests : WF_vars(CompleteStep(r))
  /\ \A w \in Workers : /\ WF_vars(ScanStep(w) \/ \E e \in Evidence : TakeJob(w, e))
                        /\ SF_vars(Verdict(w))
  /\ WF_vars(SweepStart \/ SweepStep)
  /\ \A e \in Evidence : WF_vars(WaitTooLong(e)) /\ WF_vars(GrowOld(e))

FairSpec == Spec /\ Fairness

-----------------------------------------------------------------------------
(* Properties.                                                             *)

\* getDownloadUrl signs a GET only for a clean row that has an evidence key.
CanDownload(e) == status[e] = "clean" /\ digest[e] # NoObject

\* Whatever the interleaving of uploads, scans, stalls and crashes, only bytes
\* that one run sized, typed and scanned clean ever reach the evidence bucket.
PromotedIsVerified ==
  \A e \in Evidence : bucket[e] # NoObject => bucket[e] \in Verified

\* A row is never downloadable without a promoted object behind it, also when
\* a run settled it from a quarantine object that was already gone.
DownloadHasObject ==
  \A e \in Evidence : CanDownload(e) => bucket[e] # NoObject

\* The digest recorded for a downloadable row is that of the object served.
DigestIsOfServedObject ==
  \A e \in Evidence : CanDownload(e) => digest[e] = bucket[e]

\* A row has at most one runnable scan: a waiting job or a run.
AtMostOneScan ==
  \A e \in Evidence :
    jobs[e] + Cardinality({w \in Workers : scan[w] # ScanIdle /\ scan[w].ev = e}) <= 1

\* Form files, whose completion is guarded, follow the abstract lifecycle: one
\* verdict, stored bytes only while it is pending, nothing after it.
Lifecycle == INSTANCE EvidenceLifecycle
               WITH state <- status, stored <- bucket, Storable <- Verified
ImplementsLifecycle == Lifecycle!Spec

\* A confirmed upload is not stuck: a lost enqueue, a dead letter, a crash or
\* a stalled run, alone or together, end in a settled row.
QuarantineResolves ==
  \A e \in Evidence : status[e] = "quarantined" ~> status[e] \in Terminal

\* An upload that is never confirmed is rejected, not left pending for ever.
PendingResolves ==
  \A e \in Evidence : status[e] = "pending" ~> status[e] # "pending"

\* No upload is left where it is for ever, confirmed or not.
UploadsResolve == QuarantineResolves /\ PendingResolves
=============================================================================
