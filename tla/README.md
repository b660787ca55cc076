# BlakPath: a verification development

BlakPath manages applications for Confirmation of Aboriginality: people apply,
upload evidence, staff review, a committee decides, a certificate is issued, and
everything anyone does is written to a tamper-evident audit chain. It is one
Next.js application and one BullMQ worker over Postgres (drizzle, READ
COMMITTED), Redis, two S3 buckets, ClamAV and a KMS.

Nearly every operation is an `async` function that reads rows, decides on what
it read, awaits something else (S3, ClamAV, another query) and then writes. Only
one SQL statement, one transaction, one S3 call or one queue call is atomic. That
is the premise of every module here: a handler is a small record with a program
counter, which keeps what it read and acts on it later, and which may die between
any two steps. The question each module asks is whether what the code promises
survives every interleaving of such handlers.

Paths below are relative to the repository root; `domains/` is `src/domains/`,
`lib/` is `src/lib/`.

## 1. Inventory

| Component | State | Operations | Correct when | Here |
|---|---|---|---|---|
| Evidence pipeline (`domains/evidence`, `lib/storage`, `lib/queues`, scan processor in `worker/`) | evidence row, quarantine and evidence objects, scan queue, dead letters | request upload, complete (case and form), scan and promote, sweep: redrive, requeue, expire; sign a download | only scanned bytes are promoted and served; a confirmed upload is settled | `EvidenceScan`, `EvidenceLifecycle` |
| Retention and disposal (`domains/retention`) | policies, sign-offs, legal holds, tombstones, register | draft, activate, sign off; sweep: walk, delete objects, anonymise, purge, hard delete; hold, release | nothing held or official is destroyed without authority; what is due goes, whole and registered once | `RetentionSweep`, `DisposalAuthority`, `RetentionClients` |
| Certificates (`domains/certificates`) | certificates, signing keys | generate, sign, revoke, re-issue, verify, purge | a seal verifies for ever; one live certificate per decision | `Certificates` |
| Correspondence, e-mail, notifications | letters, PDFs, sealed messages, notices, their jobs | draft, send, deliver, suppress, erase; record a notice and e-mail its copy | sent once and printed; the link opens the letter; nothing left after disposal | `Letters`, `Notices` |
| Meetings (`domains/meetings`, `decisions/meeting-link.ts`) | meetings, agenda items, attendance | schedule, import, cancel, list a case, propose and finalise under a meeting, record attendance | a decision keeps its meeting; a note can be opened | `Sittings` |
| Break-glass (`domains/break-glass`) | grant row, review and notice columns | request, approve, deny, activate (with roll-back), use, expire, revoke, review | two people for every access; notice before use; each use owes one review | `BreakGlass` |
| Onboarding (`domains/onboarding`, `domains/organisations`, `organisation-keys/activation.ts`) | organisation status, checklist, agreement, first invitation | provision, re-invite, record, activate in three ways, switch | no activation undoes a suspension or does without the agreement; the last link works | `Onboarding` |
| Encryption back-fill (`lib/encryption/backfill.ts`, worker gate) | sealed columns, runs, chained jobs | start, batch, continue, retry, give up | a completed run leaves nothing unsealed; no edit is undone | `Backfill` |
| Migrations and rollout (`db/migrator.ts`, `migrate.ts`, `audit-guard.ts`, `scripts/eks-deploy.sh`) | migration records and progress, advisory lock, grants | apply, note, record, install guards, grant, roll out; fail, die, retry | applied in order and whole; schema before release; audit rows append-only | `Migrations` |
| Organisation keys (`domains/organisation-keys`) and envelope encryption (`lib/encryption`) | key row, wrapped values, objects, re-wrap job | submit, validate, switch, probe, replace, re-wrap | a key people switched off stays off; what is sealed opens until its re-wrap is done | `OrganisationKeys`, `KeyRewrap` |
| Audit append (`domains/audit/service.ts`) and chain walk (`verify.ts`) | hash-chained events, advisory lock per chain | `recordAudit` in a caller's transaction; paged verification | the chain is one append-only log in the verifier's order; no honest chain is called broken | `AuditAppend`, `AppendOnlyLog` |
| Audit verification job (`worker/audit-verify.ts`, `domains/audit/anchor.ts`, `checkpoint.ts`) | checkpoints in Postgres, signed daily anchors in S3 | walk, assess anchors, put the day's anchor, checkpoint; restore from backup | lost events are never signed over; an intact chain raises no alarm | `AuditVerify` |
| Cases and decisions (`domains/applications`, `domains/decisions`) and conflicts of interest | case row, history, decisions, votes, declarations | every workflow transition; propose, vote, withdraw, finalise; declare and clear | history is one path through the transition table; decision and case become final together | `CaseWorkflow`, `CaseDecision`, `CaseLifecycle` |
| Assignment (`domains/applications`) | assignment rows, assignee on the case | assign | one active assignee, the one the case names | `CaseAssignment` |
| Memberships, SCIM (`domains/memberships`, `domains/scim`) | memberships, roles, invitations | invite, accept, add, change role, suspend, provision, delete | an invitation admits once; an active administrator remains | `Memberships` |
| Forms (`domains/forms`) | forms, invitations, responses, their file | publish, invite, open, draft, upload, submit, link to a case, revoke, delete | answered once; the file goes where the response goes | `Forms` |
| Webhooks (`domains/webhooks`) | deliveries and jobs | emit, deliver, retry, redeliver, re-queue, sweep | each delivery settles; no copy nobody asked for | `Webhooks` |
| Reporting exports (`domains/reporting`) | export rows, objects, jobs | request, claim, upload, settle, expire, recover | only the newest claim settles; every export settles | `ReportExports` |
| Reviews | review rows and comments | finalise, reopen, comment | | not modelled |
| Worker and queues (`worker/`) | queues, ledger of paused jobs | claim, pause, resume, shut down | | the queues are in the modules of their components, the gate in `Backfill` |
| Calendar, tasks, teams; consent, representatives, family links | single rows | | | not modelled: single-statement edits, races listed in section 6 |
| Tenancy, permissions, authentication | sessions, roles | | | a guard left to the caller: every modelled action is taken as permitted to its actor |
| Portal, dashboards, imports, MCP, API keys, UI, infrastructure, scripts | none of their own | | | not modelled |

How they meet. Case status, decisions and history are written in one transaction
(`decisions/service.ts` moves the case). Every write calls `recordAudit` inside
its transaction, so the chain lock is held until it commits; the
verification job reads that chain and writes anchors that outlive the database.
Evidence joins four stores: the row, two buckets and the queue. Retention reads
cases, decisions, certificates and evidence and deletes from all of them. Keys
gate the worker, the back-fill and every sealed field. Certificates and letters
rest on a final decision, decisions on the meeting that listed the case.

The behaviours that are hard are listed with their lines under `hazards` in
`PROJECT.json`: 40, each with the properties that would catch it.

## 2. Modules

| Module | What it is |
|---|---|
| `EvidenceScan` | the evidence pipeline, one action per effect |
| `EvidenceLifecycle` | its abstract promise: one verdict, verified bytes only, nothing after |
| `RetentionSweep`, `DisposalAuthority`, `RetentionClients` | the walk of due rows and their disposal; who may have it done; the client behind the cases |
| `Certificates`, `Letters`, `Notices`, `Sittings` | an office's papers, letters, notices and meetings |
| `BreakGlass`, `Onboarding`, `Backfill`, `Migrations` | what platform operators do |
| `OrganisationKeys`, `KeyRewrap` | the organisation's master key, and its replacement (extends the first) |
| `AuditAppend`, `AppendOnlyLog` | appending under the advisory lock and walking in keyset pages; its abstract promise: a sequence that only grows at its end |
| `AuditVerify` | the verification job over that log, anchors, checkpoints and restores |
| `CaseWorkflow`, `CaseDecision`, `CaseLifecycle` | the transition table; case, proposals, conflicts, votes and finalisation; their abstract promise |
| `CaseAssignment`, `Memberships`, `Forms` | who holds a case, who belongs, who was sent a form |
| `Webhooks`, `ReportExports` | work done from the queues |
| `MC*` | instances for TLC: symmetry sets, history variables, the properties stated of several modules |
| `*_proofs` | the theorems (section 5) |

Four conventions.

- An operator named `Mut…` is a slip the code could have made in the definition
  after it (a dropped guard, an unpinned copy). No action uses one; `PROJECT.json`
  pairs each with the property that catches it.
- An `MC` module may add *history variables* (`overlapped`, `outlived`, `late`,
  `neglected`, …) that record whether something has happened so far; they have no
  effect on any step. A property named `Serial…` or `…WhileLocked` is claimed only of
  behaviours in which it has not happened, because the code does not keep it
  otherwise; what then goes wrong is in section 6.
- `MCRetention`, `MCOffice`, `MCPlatform`, `MCAudit`, `MCPeople` and `MCQueues` hold several
  modules that share no state. A behaviour moves one of them (`inPlay`, in `MCQueues`
  `moving`) and leaves the others where they began: one run checks what would otherwise be the product of
  independent systems. Where parts do share state (`OrganisationKeys` with `KeyRewrap`;
  case, decisions and votes; row, buckets and queue) they move together.
- Counters are capped by constants named `Max…` in the guards.

### Evidence

`status`, `digest` and `waited` are columns of one `evidence` row, `age` is the
time since `created_at` (upload URL live, expired, pending for a day); object keys
are one to one with rows, so `quarantine` and `bucket` are functions of the row.
`jobs`, `keyed` and `letters` are the scan queue: how many jobs can run, whether
BullMQ still holds a job with the evidence id (it ignores a second add), dead
letters. Contents with equal bytes have equal ETags. `Complete*` is
`completeUpload` and `completeFormFileUpload` (they differ in one guard,
`MayQuarantine`); `TakeJob` to `Settle` is `processEvidenceScan`, where every
`If-Match` read needs `Pinned`; `Sweep*` is `sweepEvidenceScans`, which reads its
clock and the jobs in flight once. Faults (`RequestFails`, `ScanFails`, `Stall`,
`SweepFails`) share the budget `MaxFaults`. A stalled run keeps going while its
job is run again. `ScannerDown` needs no budget.

### Retention

`RetentionSweep` walks the rows one policy makes due. A row's disposal is four steps
of the code: read the parent case and the object keys, check that nothing official is in
the way, delete the objects outside any transaction, and commit after checking again. A
sweep may die between any two, another may be at work on the same row, and cases are
decided, holds placed, responses attached and files promoted in between. `FormApp` and
`link` are the two columns a response's case can be in; the sweep reads only the first,
which is the finding of section 6. `DisposalAuthority` is who may have what disposed of:
the activation by a second person, the sign-offs and the gate a sweep works out after
loading policies and sign-offs one after the other. `RetentionClients` is the client's
own details, which go with the client's last case.

### Office

`Certificates` has one action per read, per outside step (rendering, sealing) and per
write of `generate`, `sign`, `revoke` and `reissue`; a certificate's content is a version
number, the seal a key and the version it was made for. `Letters` models a send as one
call with its own token, PDF and message, the worker that delivers it, and the disposal
of its case in two steps. `Notices` is the dedupe key and the e-mail copy. `Sittings`
reduces a case to the stage the workflow leaves it in.

### Platform

`BreakGlass`: one action per read and per write of each service function. Reads of
`approve`, `deny` and `revoke` check the status, their writes name only the id, as
in the code; `ActivateUpdate`, `ReviewCommit` and `ExpireElapsed` carry the guard the code puts in the
`WHERE`. `told` is the notices held by the approvers, `used` that a read context
was handed out. Time is two flags per grant: access elapsed, review overdue.
`FallDue` waits for handlers on the row to end: access lasts hours and a review is
due after days, against handlers that live for seconds.

`Onboarding`: an invitation is its state and the number of its token, `inbox` the number
last mailed. `Backfill`: a job is its cursor, since its id is made of it, and BullMQ
ignores an id it still knows. `Migrations`: a statement is its file and index, with the
three kinds that matter, an index build may leave an *invalid* index behind, and
notes and records are the two bookkeeping tables. `may` is what the application's role
may do to the audit tables, which the grants of one Job change three times.

### Keys

`OrganisationKeys` is the row and the requests that read it, ask the KMS and write by
the organisation's id; `granted` is what the KMS would answer. `KeyRewrap` adds
the previous ARN, the job with its checkpoint and the two objects of each file. `MCKeys`
remembers what people last said of the key (`word`: an operator's switch, a submission, the
end of a handshake), which requests they overtook (`older`) and whether the row has said
something else since (`overruled`).

### Audit

`AuditAppend` takes ids in any order, several events per transaction, and a clock
that repeats or steps back; `Stamp` is the code's "just after the tip" rule.
An event's hash covers its id and its predecessor's hash, so ids stand for hashes. `Visible`
is what READ COMMITTED shows a transaction with the lock: committed rows and its
own. `AuditVerify` starts where that module ends: the chain is a
sequence, an event is identified by its position and the restore it was written
after, and the job's reads of Postgres and S3 are separate steps.

### Cases and people

`CaseDecision` keeps `version` although statuses would do most of the time: the
update checks both, and a case can return to a status. A transaction's writes
appear at its commit; what is visible earlier is the row lock that the first
statement of finalisation takes. `AfterConflicts` is where each operation goes on
after `assertNotConflicted`. `CaseAssignment` models the release statement in two
steps, because at READ COMMITTED it fixes the rows it can see when it begins, then
waits for those another transaction has changed and looks at them again. `Memberships`
does the same for replacing roles, a deletion and an insertion. In `Forms` an
invitation has at most one file, which goes with its case or by a policy of its own, and a
public handler reads invitation and form when it begins.

### Queues

BullMQ is modelled in each module as far as the code relies on it: a job id is held
until the job is forgotten, a stalled job is run again while its first run may go on, a
failed one is retried until its attempts are spent. `Webhooks` has one action per write
of a delivery and one per answer of the receiver; `ReportExports` counts claims, which
stand for `startedAt` and for the ids of recovery jobs.

## 3. Runs

Every run asks one question of one part of the system; together the passing ones take
every disjunct of every `Next`.

| Run | Question | Instance | Result |
|---|---|---|---|
| `evidence_scan` | Are only verified bytes promoted and served, with the right digest, and one scan at a time? | 1 row, 2 handlers, 2 workers, 2 good contents and a virus, 2 faults, locks may expire | holds |
| `evidence_live` | Does every upload resolve, and do form files follow the abstract lifecycle? | 1 form file, 2 handlers, 1 worker, 1 fault, fairness | holds |
| `disposal` | Is what is protected kept, what is due disposed of whole, and every disposal backed by authority? | 1 case, 1 file, 2 responses, 2 sweeps, 2 walks, all policies; 1 policy, 2 people, 2 sign-offs; 3 cases of 2 clients, 2 jobs | holds |
| `disposal_attached` | Are responses attached to a decided case kept? | the same, 3 walks | violated: a finding |
| `office` | Do seals verify, are letters sent once, do decisions keep their meeting? | 1 decision, 2 keys, 3 certificates, 2 calls; 1 letter, 2 workers, 1 loss; 2 meetings, 1 proposal | holds |
| `platform` | Break-glass, onboarding, back-fill, migrations | 1 grant, 2 members and 2 operators of whom one is both, 2 + 2 handlers; 2 checklist items, 2 requests, 2 links, 1 loss; 2 tables of 2 rows, pages of 1, 2 workers, 2 attempts, 2 runs, 1 edit; 2 migrations, 2 Jobs | holds |
| `keys` | Does anything but people turn a key on that people switched off; does what is sealed open until its re-wrap is done, and is no object under the old key then? | 2 ARNs, 2 requests, 2 replacements, 2 files, 1 value, 2 attempts | holds, as far as the row still says what people said |
| `keys_human` | Does a key that people switched off stay off when the KMS is asked? | the same, 1 request | violated: a finding |
| `audit` | Is the chain one append-only log under any clock; is an honest walk ever called broken; is anyone starved? Is a loss ever signed over; do checkpoints and anchors stand; is an alarm ever false? | 3 transactions, 4 events, 2 clock readings, pages of 2, fairness; 2 jobs, 2 events, 3 days, 1 restore | holds |
| `case` | One path of history, decision and case final together; implements `CaseLifecycle` | 2 handlers, 1 member, 2 decisions, 5 moves, 2 votes, 1 declaration | holds |
| `people` | One assignee, one admission, one answer, an administrator left | 3 assignments, 2 workers, 4 rows; 2 persons, 2 invitations, 2 requests; 1 form invitation, 2 cases | holds |
| `queues` | No copy nobody asked for; does every delivery and export settle? | 1 delivery, 1 call, 2 workers, 2 attempts, 1 fault; 1 export, 2 claims, 1 mishap, fairness | holds |

Tens of thousands to two million distinct states each.

Why the bounds are enough. The races here are between two handlers, so two of
each kind are there wherever a property concerns a race of that kind
(three transactions for starvation; three assignments, so that a third meets what two
left; three certificates, so that one is re-issued and its replacement signed while another
is drafted). Rows do not interact in any modelled operation except through the sets a
sweep reads, so one row of evidence, one grant, one delivery and one export are checked, and
two where a sweep must tell a row from another: decisions, invitations, files, tables.
Contents need two good ones (a replacement with other bytes) and one bad. Five moves carry a case from
committee to decided, through `reopen` and back to a state where a decision read
before is stale. The journal's first migration has a batch, an index build and a batch,
the second a validation. `MaxVotes`, `MaxDeclared`, `MaxJobs`, `MaxLetters` and `MaxRows`
bound counters at what two racing handlers can produce.

Bounds that cut behaviours, beside the counters:

- `MCRetention!WithinBounds`: one hold at a time and not while a case is decided; a sweep is
  disturbed by an event or by another sweep, not by both; nothing after two sign-offs overlapped.
- `MCOffice!WithinBounds`: attendance is recorded while the case is not listed.
- `MCKeys!WithinBounds`: nothing is followed after a replacement was committed under a request
  or a job that had read the row before (`mixed`): what such an overlap does is in section 6.
  `NobodyOvertaken`, of `keys_human` only, leaves out switches made under a request, so that
  the counterexample needs no race.
- `MCPeople!WithinBounds` and `InvitationsAfterOverlap`: once two requests have overlapped, only
  what concerns an invitation is followed (accepting, inviting, replacing, revoking,
  expiring), to the end of both: a second acceptance that waited for the first goes on
  after it has committed, failed or been revoked. Its `VIEW` identifies states that differ
  only in whom a finished invitation was to. The theorems are of the module without either.
- `MCQueues`: an endpoint is deleted or something fails, not both; `MaxAsked` copies. The
  proofs use neither.
- `MCPlatform`: the first row is sealed already, edits are of one row, and `Switches` leaves out
  `closed`, which every handler treats as it does `suspended`, and `draft`, which differs from
  `onboarding` only in that the operator's activation is refused.

Deadlock is checked in `case`. The others disable it because
their bounds really stop them (all ids used, last day, faults spent with every row
settled) and a system without requests is at rest.

Symmetry is used in runs without liveness properties, and in `audit` for the jobs: no
fairness and no liveness property names one, and while transactions move all jobs are idle.
There the verification has two events; its three properties are proved for any number. `case` checks a
refinement with it: the abstract variables do not name calls, and members and
decisions are permuted in both specifications alike.

## 4. Fairness

`EvidenceScan!Fairness`: handlers and sweeps that began run on (a Node process does
not stop between two awaits, other than by the faults modelled); a worker with a job or a step goes on
(BullMQ polls); the sweep is scheduled (`worker/scheduler.ts`); time passes. Only
`Verdict` has strong fairness: ClamAV may be down again and again, but not at every attempt
for ever. Fault actions, `Put` and `CompleteRead` are never owed.

`AuditAppend!FairSpec`: the holder of the chain lock goes on or is ended by the
database when its connection goes (weak fairness of `HolderStep`), and `Lock` is
strongly fair, since Postgres queues lock waiters. Nothing obliges a transaction to
record.

`Webhooks!Fairness` and `ReportExports!Fairness`: a row left alone becomes stale, the sweep is
on the worker's schedule, a queued job is taken and a stalled one found (BullMQ), a finished
job is forgotten in the end (`removeOnComplete`, `removeOnFail`), and what a worker began goes
on. Nothing is owed by callers: a request may stop between its row and its job, which is
what the sweeps are for.

## 5. Proofs

TLAPS proves every safety property that a passing run checks, for every value of the
constants that meets the named assumptions: subset and type conditions, that numeric
bounds are numbers, that a page is not empty, that a job may be tried once, that the
sweep's caller is no request and that `None` is no user, call, key, row or job
(`EvidenceAssumption`, `UsersAssumption`, `CaseAssumption`, `ConstantsAssumption`,
`OfficeAssumption`, `BoundsAssumption`, `VerifyBounds`, `WorkersAssumption`, `NoneAssumption`,
`PlatformAssumption`, `RecordsAssumption`, `RetentionAssumption`, `RewrapBounds`,
`WebhookBounds`, `QueueBounds`). Every invariant was given to TLC on the run's instance first.

A handler acts on what it read some awaits ago, so the properties are never
inductive by themselves. Each inductive invariant says what a handler may still rely
on at each of its steps.

**`EvidenceScan_proofs`.** `TypeCorrect`; `OnlyVerifiedPromoted`: what is in the
evidence bucket was sized, typed and scanned; `DownloadsHaveObjects`. Promotion is
not provable from its own guard: the copy compares an ETag with the object, so
the invariant says that a run past each check holds an ETag that passed it, and that
a run about to settle clean has put an object in the evidence bucket or found one
there, where nothing removes it. `ScansAlwaysWhileLocked` needs `ScansHold`: a row
has one job or run (`OneScan`); any scan, dead letter or long wait means the row is
confirmed, that is, its first job still holds the row's id in the queue, or no request is at
work on it and it is past pending (`Confirmed`); a row the sweep is about to enqueue, and did not see in flight, has
no scan now (`SweepHolds`); a run past its read finds the row quarantined, and the
ETag it is about to settle clean is the promoted object's (`RunHolds`).
`FormFilesFollowLifecycle` is the refinement of `EvidenceLifecycle`, with the
hypotheses of the run that checks it: all files are of forms, whose completion is guarded,
and no run outlives its job lock. Without either the code does not implement it (section 6).

**`Office_proofs`.** Certificates: `TypeCorrect`, `SealsAlwaysVerify`,
`RowsAndEventsAgree`, `OneCertificateAlways`. The invariant has a part on rows (what is signed
is confirmed, links are stored and mutual, seals verify, one live certificate of a decision at
most) and one on calls: a call holds a version of its certificate, and as
long as the row still has that version what the call read of it is still true; the
commits compare the version. `SittingsAlwaysStand`: a decision and the item that ties
it to its meeting agree, and as long as requests come one at a time nothing is listed
between a request's search and its write. `LettersAlwaysStand`: only one send
goes beyond its commit and its link is the letter's (`MailHolds`), while nothing fails a
job is one worker's until it is posted (`PostHolds`), no send is under way once erasing
began and what a finished send left is what its letter names (`TidyHolds`);
for notices, the copies sent, the late runs and the copies still owed count up to one more
than the faults (`BellHolds`).

**`Retention_proofs`.** `DisposalAlwaysLawful`, `ProtectedAlwaysKept`,
`DisposalAlwaysComplete`, `SignoffsAlwaysStand` and `ClientsAlwaysFollow`, all from
`RetentionHolds`, which has a part for each of the three modules. A sweep reads a row
once and acts on it twice, so `SweepHolds` says what it may rely on until the end: it
knows the row's case, unless the row had none or is gone (`KnowsCase`); what it removes has stood
its thirty days (`StoodGrace`); until a hold, a decision or an attachment disturbs it,
what it is to dispose of is not held and its objects are of no official case
(`SparesHeld`, `SparesOfficial`); it knows of all objects of the files it reaches and they
are gone before the rows (`ReachesAll`, which needs that the row of a file in quarantine
names it, `NamedWhereStored`); and a sweep that runs alone registers only what is
not yet disposed of (`OneSweep`). `AuthorityHolds`: ids of sign-offs have no gap, so of sign-offs
made one at a time the current one is the last, and the request under way knows it
(`SignsAlone`). `ClientHolds`: an anonymisation that runs alone and saw no other case is
still right when it commits (`AnonymisesAlone`).

**`Platform_proofs`.** `AccessTypeCorrect`; `AccessIsSeparated`: a
grant that was used has an approver other than its requester and no one reviews their
own access; `ReviewsAreFinal`. Rows that do not exist were never used (so an insert
cannot give a used grant a requester), every approved or active grant already has its
second person, and an approval or review in flight is by someone else
(`SeparationHolds`). The last one is why the unguarded writes are harmless here: the
requester of a row never changes, so a check made at the read holds at the write.
`UseIsWatched` and `RefusalsAreFinal` are of behaviours in which the organisation's
requests did not overlap: at most one of them is past its read, and what it read of the
row still stands (`AccessHolds`). `SetUpStandsAlways`: what each request of the set-up
read (agreement, checklist, status, token) and may still rely on (`SetUpHolds`).
`MigrationsAlwaysStand` is for any journal: the Job that holds the advisory lock has
applied what it noted, one statement further at most (`SchemaCore`); until an invalid
index was passed over, noted means done; until a Job ended between its grants, a running
release may write its audit events. `BackfillAlwaysStands` is for any number and size of
tables and any batch size: every row before the cursor of a job that is known is sealed,
and a batch that is sealing has left of its page only what it still has to do
(`SealCore`; the lemmas `PageIs` and `AfterCovers` say that pages leave no row out), so
whatever runs twice or starts in the middle completes nothing too early. Until one batch
overlaps another or a job ends without its batch, the worker at work carries the one run
on and hands it to a job that is still open (`OneChain`); until a row is edited between
a batch's read and its write, what was read is the last edit (`ReadIsLast`).

**`Audit_proofs`.** `ChainAlwaysStands`: the rows
are chained, the events of an uncommitted transaction extend the tip it saw under the
lock, and a walk has verified a prefix and stands at its last event (`Chained`,
`TxHolds`, `WalkHolds`). `LogOnlyGrows` refines `AppendOnlyLog`.
`CheckpointsAlwaysStand`, `LossStaysUnsigned` and `SerialRunsAlwaysAgree` are about the
job: an event carries the restore it was written after, so an anchor of the lost part differs
from what stands there now for good (`JobsHold`), and a run that overlaps no other has
read the anchors there are (`SerialHolds`).

**`CaseDecision_proofs`.** `TypeCorrect`, `HistoryIsOnePath`, `DecidedTogether`,
`NoLockLeft` and `RecordFollowsLifecycle`, the refinement: every step of every handler
is a step of `CaseLifecycle` or a stutter. `IInv` adds `MoveInv` (a handler about to
move the case holds a status its action is legal from) and `LockInv` (one about to
record an outcome holds the lock of a decision that is still open); without the second,
two chairs could both record.

**`People_proofs`.** `AssigneeIsOne` (`AssignmentHolds`: what the release statement
has fixed and not yet released), `FormsAlwaysAnsweredOnce` (`FormsHold`: a submission holds the
invitation from its claim to its commit), `AdmittedOnce` and `MembersKept`
(`MemberHolds`: while requests come one after another what a request read of a membership stands).

**`Jobs_proofs`.** Keys: `AlwaysStandsDown`, an action property, needs no proviso about
overlap: as long as the row is as people left it when they switched the key off, the row says
so, and every request they did not overtake is somewhere before asking whether the key is
active or may be restored (`Still`), which it will find is not so (`StandingHolds`). It ends
where another status is written over theirs; `HumanStatesStand` says what then happens.
`RewrapAlwaysHolds`: whatever overlaps, a file has one upload, and of promotions
that overlap only one has an object to move (`FilesHold`), and a row and its job agree
(`JobHolds`); then, while no replacement was committed under
somebody, no object that a row names is under the old key up to the checkpoint and, in the
page at hand, outside the items still to copy (`Progress`, with `FreshTo` and `Fresh`). A file
may be promoted meanwhile, to a place before the cursor: the copy of a promotion is under the
key in use (`InUseHolds`), which is why nothing old appears behind it. The replacements before
the last are over (`OverHolds`), a running one goes from the row's previous key to its key
(`LastHolds`), and a sealed value is under one of these two or under the key of a re-wrap that
is done (`ValueOpens`). Of the last kind the theorem does not say that they open: nothing
re-wraps columns (section 6).

Webhooks: `CopiesAlwaysAsAsked`. Whatever fails, a run that is to settle an accepted copy
has sent one, and a job has one worker that holds its lock (`RunHolds`). `Faultless` is for
as long as nothing failed: a run past its row works on a delivery that is pending still
(`RunFaultless`; a redelivery resets only what is settled), and a pending delivery that
nobody is about to settle as accepted was asked for once more than it was taken
(`CopiesFaultless`); without the second a redelivery beside a run that has posted and not
yet settled could send a copy too many. The lemmas about steps (`RunGoesOn`, `CallerMoves`,
`CallsAndJobs`) say what a run, a caller or the queue may do without disturbing it.

Exports: `ExportsAlwaysHold`. `ExportHolds` needs no proviso: a claim never passes the attempts
of its row, so a worker whose claim equals them holds the newest one; what it is to settle
for a row that waits is stored; and the sweep purges and marks only what is ready and past.
`Undisturbed` is for an export no worker has outlived: one worker at a time is past its
claim, the row is neither stale nor settled, and before settling the object is its own.

Lemmas that are about operators and not about steps are stated for themselves: the least
and greatest element of a set of numbers (`LeastExists`, `MaxExists`, by well-founded
minima), cardinality of sets with one element more or less, the last element of a
sequence after an append.

Only model-checked is liveness (`UploadsResolve`, `WaitEnds`, `WorkSettles`), which is out of
the prover's reach, as are fairness and `ENABLED`. `AttachedResponsesKept` and
`HumanStatesStand` are violated (section 6).

## 6. What the checks found

Two statements of the repository are refuted by runs (`findings` in `PROJECT.json`).

- `loadParentApplication` (`domains/retention/sweep.ts:1963`) looks for the parent case of a
  form response by `applicationId` only, so a response attached to an official case is
  disposed of with its policy, against `docs/records-disposal.md:48`.
- `markOrganisationKeyUnavailable` (`domains/organisation-keys/service.ts:343`) writes
  "unavailable" over "disabled" and "pending_deletion", and the health check of the settings
  page calls it whatever the row says (`health.ts:391`). Once the KMS grants the key again the
  next probe makes it active, against `docs/key-lifecycle.md:33`: "`disabled` and
  `pending_deletion` are human states. A successful KMS probe does not turn them back on."
  No two requests need overlap. The same path activates a key whose handshake has not passed.
  What does hold is `StandsDown`: nothing less than such an overwriting turns the key on.

Further disagreements and limits met while modelling. The models contain the behaviour
except where it is said that they do not; no run states it, and the properties that hold
are worded so as not to claim it.

**Evidence.**
- Expiry deletes the quarantine object and only then updates the row if it is still
  pending (`domains/evidence/sweep.ts:227`), so a completion that commits in between loses
  its bytes (against `domains/evidence/recovery.ts:9`).
- `completeUpload` (`domains/evidence/service.ts:197`) updates without a status guard: a
  late completion moves a settled row back to quarantined, against
  `domains/evidence/status.ts:29`. `ImplementsLifecycle` is therefore checked of form files.
- When a run is stalled past its job lock, the digest on a row can be that of the
  other run's object.

**Retention.** Files attached, or promoted by a scan, between the deletion of a case's
objects and its disposal keep an object no row names; a case decided between the first
check and the commit loses its objects although it is kept; a hold placed after a page
was selected is not looked at again for rows without a case (`db/schema/retention.ts:22`);
overlapping sweeps register one disposal twice; two overlapping sign-offs both stay
current; two overlapping anonymisations of one client's last cases leave the details,
and a purge never touches the client; a purged case leaves responses that are only
attached to it.

**Certificates.** The signed and the revoked webhook may go out in the other order, or be
lost in a crash; a failed insert leaves a PDF; a draft in the making during a purge is
inserted for a purged case; an earlier round's confirmed decision can be certified after a
later round declined; drafts older than the holder binding get the name at signature.

**Letters and notices.** A letter can be marked sent while its message was never queued
(`domains/correspondence/service.ts:902`), and nothing tries again; a crash between
queueing and pointing leaves a sealed message that disposal does not find
(`domains/retention/sweep.ts:601`), one between upload and commit a PDF; a send under
way while the case is disposed of leaves what it sends; a certificate may be revoked
between the send's read and its commit; suppression is checked before the send. A notice
is sent once more for each fault between sending and marking; without a dedupe key a crash
before `addJob` loses the e-mail; a suppressed address is marked as e-mailed.

**Meetings.** `addAgendaItem` accepts a cancelled meeting, and of two at once one fails on
the unique index; when moving the case fails the item stays (`domains/meetings/service.ts:323`),
and a case listed before it is ready stays on the agenda unmoved; a decision may be
finalised without meeting while its case is being listed.

**Break-glass.** `denyBreakGlass` (`domains/break-glass/service.ts:492`) writes by id what
it checked earlier, so a grant that was used can end denied, where no review can be filed
(against `docs/audit-monthly-review.md:21`); approve and revoke move an expired or denied
grant again (`status.ts:46`); two overlapping handlers of the organisation make a grant
usable while the notice of its second activation is not sent; the roll-back clears
`activatedAt` and not `reviewedAt` (`service.ts:357`), so a review filed in that instant
stands for the next use.

**Onboarding.** Two checklist items recorded at once lose one; an item unticked or a key
disabled between the operator's check and the write does not stop the activation;
`setOrganisationStatus` writes by id what it decided on an earlier status, so it can
override another operator's suspension, and audits the stale `before`; of two invitations
sent again at once the older link may arrive last; a refused mail after the rotation
leaves a dead link only. `worker/index.ts` lets jobs of an onboarding organisation pass,
`tenant-job.ts` drops them.

**Back-fill.** "Version-2 envelopes are left alone" (`lib/encryption/backfill.ts:29`) fails
for a row edited between the read and the write of its batch. Job ids are made of the
cursor and finished jobs are kept for a day, so a second run's start or continuation may
be ignored and the run stay running, as it does when the gate drops a job;
`ensureRun` may insert two running rows; a late commit turns a completed run back to running.

**Migrations.** An index left invalid is skipped by `IF NOT EXISTS` when the Job is tried
again unless an operator drops it first (`db/migrator.ts:193` against
`docs/database-migrations.md:50`). The grants are given all, taken and given again, after
the advisory lock is released: for moments the application may change audit rows, with
only the triggers in the way, or may not insert them, and a Job that dies there leaves it
so. A migration merged later with an earlier `when` is silently skipped. A failed Job of a
release must be deleted by hand before `eks-deploy` is tried again. Not modelled: a
session lock under a client that reconnects.

**Keys.** A request that an operator's switch overtook writes what the KMS said earlier over
it. A `DescribeKey` that says Disabled writes the status people set. Nothing writes
`tenant_encrypted_fields` (`db/schema/organisation-keys.ts:144`), so a completed
replacement leaves sealed columns unreadable, and the data key of the blind index is
decrypted under the new ARN only. `expandEvidenceObjects` (`rewrap-stores.ts:41`) lists
the quarantine keys of files whose object is gone, so the copy fails at every attempt and
the previous key is never cleared (`docs/key-lifecycle.md:68`); a crash between replacing and enqueueing leaves no
job; a worker killed between clearing and completing may clear a later replacement's
previous key; the code clears before it audits, the document says after. An upload URL
signed before a replacement stores under the old key behind the cursor. A read in flight
puts an evicted data key back into the cache.

**Audit.** `assessAnchoredChain` (`domains/audit/anchor.ts:262`) compares the anchors there are
now with the tip walked before, so a run overlapped by another reports an intact chain
truncated (`worker/audit-verify.ts:66`); a job that crosses midnight can put the earlier day's
anchor after the later one's (`anchor.ts:402`).

**Cases and decisions.** `castVote` and `withdrawVote` (`domains/decisions/service.ts:248`)
write after a check that may be stale: votes land on a final decision
(`domains/decisions/tally.ts:30`). Conflicts are read before the transaction (232), and
`proposeDecision` inserts after checking the case (156), so a proposal survives a reopening.
Two assignments at once both stay active (`domains/applications/service.ts:616` against
`db/schema/applications.ts:143`).

**Memberships.** The last administrator can step down by accepting an invitation to
another role (`member-management.tsx:206`), and two demotions at once leave none;
`changeMemberRole` (`domains/memberships/service.ts:970`) may leave both roles; an expiry
written by id (807) can overwrite an invitation sent again or accepted; a suspended member
with an invitation pending can admit themself; two invitations of one address at once both
stay pending; SCIM decides on an earlier read (`domains/scim/service.ts:295`, 346).

**Forms.** Opening a response and linking it do not look at `deletedAt`; two cases created
from one response leave an orphan draft; a file whose upload read the case before the
deletion stays with it; `updateForm` may change the fields of a published form.

**Webhooks and exports.** An accepted copy whose settling the database refuses is sent again
(`domains/webhooks/deliver.ts:161`); a redelivery just after a settling waits for the sweep;
the oldest 200 rows of a sweep may all be in flight. All attempts of an export share one
object key, so a superseded worker does overwrite the file (`domains/reporting/generate.ts:51`
says it cannot); a late upload after expiry leaves an object; a recovery job is ignored while
a failed one of the same claim is kept.

**Elsewhere, read but not modelled.** Resource conflicts of the calendar compare the first
occurrence only and at most fifty rows, and two bookings at once both pass
(`domains/calendar/service.ts:131`); moving an event does not arm a sent reminder again; review
comments may land after the review is final; decisions on family links and representatives
write by id; a withdrawn consent leaves a representative's authorisation, which nothing reads.
The ledger of paused jobs is one process's.

## 7. Not modelled

Within the modelled components: permissions and tenancy (guards of the caller), the
wording of notices and audit details, the cryptography (hashes, seals and signatures are taken as
injective), page sizes of listings, rate limits, and read-only queries. In `EvidenceScan` deletion by
retention is left out (`RetentionSweep` has it) and a Postgres or Redis outage is a fault of the
step that meets it. `CaseDecision` leaves out notifications and webhooks sent after commit, which fail
without effect on the case. Whole components are listed with their reason in `PROJECT.json`.

Most of the repository's lines are user interface, API wrappers, schema, authentication and
seeds, which keep no state of their own: the definitions stand for about an eighth of the lines.

## 8. Plan

Every safety property of the runs is proved. Of the models, reviews and the ledger of paused
jobs are the parts with logic of their own that are still missing.
