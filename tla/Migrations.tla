----------------------------- MODULE Migrations -----------------------------
(* The migrate Job of a release: under an advisory lock it applies the     *)
(* migrations its image holds, one after another, statement by statement   *)
(* with a note of each, then installs the guards of the audit tables and   *)
(* grants the application its privileges; when it is complete, web and     *)
(* worker are rolled out.  A Job may fail or die anywhere and be run again, *)
(* another may be started beside it, and an older release keeps running.   *)
(* Code: src/src/db/migrator.ts, migrate.ts, audit-guard.ts,               *)
(* src/scripts/eks-deploy.sh; Postgres is modelled as it is used.          *)
(*                                                                         *)
(* Operators whose names begin with Mut are slips this code could have     *)
(* made in the definition that follows them; no action uses them.          *)
EXTENDS Naturals, Sequences, FiniteSets, FiniteSetsExt

CONSTANTS
  Files,   \* the journal: of each migration the kinds of its statements
  Jobs,
  None

VARIABLES
  effect,    \* of each statement: absent, present, or an index left invalid
  applied,   \* __drizzle_migrations
  progress,  \* __drizzle_migration_progress: statements by file and index
  lock,      \* the session that holds the advisory lock
  job,
  released,  \* how many migrations the newest image holds
  rolled,    \* how many the running release expects
  triggers,  \* the append-only guards are installed
  may        \* what the application's role may do to the audit tables
vars == <<effect, applied, progress, lock, job, released, rolled, triggers, may>>

Idle == [pc |-> "idle"]
Migrating == {"next", "statement", "running", "note", "orphan"}
Granting == {"guard", "grant all", "revoke", "grant"}
Statements == UNION {{m} \X DOMAIN Files[m] : m \in DOMAIN Files}
Kind(s) == Files[s[1]][s[2]]

\* statementRunsOutsideTransaction.
OutsideTransaction(s) == Kind(s) \in {"index", "validate"}

Applying ==
  [pc : Migrating, upto : DOMAIN Files, at : 1 .. Len(Files) + 1, index : Nat,
   done : SUBSET Statements]
Serving == [pc : Granting \cup {"complete"}, upto : DOMAIN Files]

TypeOK ==
  /\ effect \in [Statements -> {"absent", "present", "invalid"}]
  /\ \A s \in Statements : effect[s] = "invalid" => Kind(s) = "index"
  /\ applied \subseteq DOMAIN Files /\ progress \subseteq Statements
  /\ lock \in Jobs \cup {None}
  /\ job \in [Jobs -> {Idle} \cup Applying \cup Serving]
  /\ released \in DOMAIN Files /\ rolled \in 0 .. Len(Files)
  /\ triggers \in BOOLEAN /\ may \subseteq {"select", "insert", "change"}

Init ==
  /\ effect = [s \in Statements |-> "absent"]
  /\ applied = {} /\ progress = {} /\ lock = None
  /\ job = [j \in Jobs |-> Idle]
  /\ released = 1 /\ rolled = 0
  /\ triggers = FALSE /\ may = {}

Becomes(j, r) == job' = [job EXCEPT ![j] = r]
Continues(j, pc) == Becomes(j, [job[j] EXCEPT !.pc = pc])
ServingUnchanged == UNCHANGED <<released, rolled, triggers, may>>

NewRelease ==
  /\ released < Len(Files) /\ released' = released + 1
  /\ UNCHANGED <<effect, applied, progress, lock, job, rolled, triggers, may>>

-----------------------------------------------------------------------------
(* runMigrations.                                                          *)

TryLock == lock = None

Latest == IF applied = {} THEN 0 ELSE Max(applied)

\* Migrations up to the latest one recorded are passed over.  The Job that does
\* not get the lock ends.
Start(j) ==
  /\ job[j] = Idle /\ TryLock
  /\ lock' = j
  /\ \E n \in 1 .. released :
       Becomes(j, [pc |-> "next", upto |-> n, at |-> Latest + 1, index |-> 1, done |-> {}])
  /\ UNCHANGED <<effect, applied, progress>> /\ ServingUnchanged

\* applyMigration first reads which statements of the file are done.
ReadProgress(j) ==
  /\ job[j].pc = "next" /\ job[j].at <= job[j].upto
  /\ Becomes(j, [job[j] EXCEPT !.pc = "statement", !.index = 1,
                               !.done = {s \in progress : s[1] = job[j].at}])
  /\ UNCHANGED <<effect, applied, progress, lock>> /\ ServingUnchanged

\* The statements of the file that are left, and the next of them.
Left(j) == {s \in Statements : s[1] = job[j].at /\ s[2] >= job[j].index /\ s \notin job[j].done}
NextLeft(j) == CHOOSE s \in Left(j) : \A t \in Left(j) : s[2] <= t[2]

\* Ordinary statements that follow one another are run together.
Batch(j) == {s \in Left(j) : \A t \in Left(j) : t[2] <= s[2] => ~OutsideTransaction(t)}

MutNoted(j) == progress
Noted(j) == progress \cup Batch(j)

\* One transaction; a statement whose effect is there already would fail it.
RunBatch(j) ==
  /\ job[j].pc = "statement" /\ Left(j) # {} /\ Batch(j) # {}
  /\ \A s \in Batch(j) : effect[s] = "absent"
  /\ effect' = [s \in Statements |-> IF s \in Batch(j) THEN "present" ELSE effect[s]]
  /\ progress' = Noted(j)
  /\ Becomes(j, [job[j] EXCEPT !.index = Max({s[2] : s \in Batch(j)}) + 1])
  /\ UNCHANGED <<applied, lock>> /\ ServingUnchanged

\* A concurrent build enters its index as invalid first; IF NOT EXISTS finds
\* whatever index has the name, and there is nothing to do.
RunOutside(j) ==
  /\ job[j].pc = "statement" /\ Left(j) # {} /\ OutsideTransaction(NextLeft(j))
  /\ LET s == NextLeft(j) IN
     IF Kind(s) = "index"
     THEN IF effect[s] = "absent"
          THEN effect' = [effect EXCEPT ![s] = "invalid"] /\ Continues(j, "running")
          ELSE UNCHANGED effect /\ Continues(j, "note")
     ELSE UNCHANGED effect /\ Continues(j, "running")
  /\ UNCHANGED <<applied, progress, lock>> /\ ServingUnchanged
OutsideEnds(j) ==
  /\ job[j].pc = "running"
  /\ effect' = [effect EXCEPT ![NextLeft(j)] = "present"] /\ Continues(j, "note")
  /\ UNCHANGED <<applied, progress, lock>> /\ ServingUnchanged

\* In a transaction of its own, after the statement.
NoteOutside(j) ==
  /\ job[j].pc = "note"
  /\ progress' = progress \cup {NextLeft(j)}
  /\ Becomes(j, [job[j] EXCEPT !.pc = "statement", !.index = NextLeft(j)[2] + 1])
  /\ UNCHANGED <<effect, applied, lock>> /\ ServingUnchanged

Record(j) ==
  /\ job[j].pc = "statement" /\ Left(j) = {}
  /\ applied' = applied \cup {job[j].at}
  /\ progress' = {s \in progress : s[1] # job[j].at}
  /\ Becomes(j, [job[j] EXCEPT !.pc = "next", !.at = @ + 1, !.index = 1, !.done = {}])
  /\ UNCHANGED <<effect, lock>> /\ ServingUnchanged

\* The lock is released before the guards and the grants.
Unlock(j) ==
  /\ job[j].pc = "next" /\ job[j].at > job[j].upto
  /\ lock' = None /\ Becomes(j, [pc |-> "guard", upto |-> job[j].upto])
  /\ UNCHANGED <<effect, applied, progress>> /\ ServingUnchanged

-----------------------------------------------------------------------------
(* applyAuditAppendOnlyGuard and applyAuditAppPrivileges: each statement   *)
(* commits on its own.                                                     *)

Commits(j, from, to, privileges) ==
  /\ job[j].pc = from /\ Continues(j, to)
  /\ may' = privileges
  /\ UNCHANGED <<effect, applied, progress, lock, released, rolled, triggers>>

InstallGuard(j) ==
  /\ job[j].pc = "guard" /\ Continues(j, "grant all")
  /\ triggers' = TRUE
  /\ UNCHANGED <<effect, applied, progress, lock, released, rolled, may>>
GrantAllTables(j) == Commits(j, "grant all", "revoke", may \cup {"select", "insert", "change"})
RevokeAudit(j) == Commits(j, "revoke", "grant", {})
GrantAudit(j) == Commits(j, "grant", "complete", may \cup {"select", "insert"})

\* eks-deploy waits for the Job of its own release.
Rollout(j) ==
  /\ job[j].pc = "complete" /\ Becomes(j, Idle)
  /\ rolled' = job[j].upto
  /\ UNCHANGED <<effect, applied, progress, lock, released, triggers, may>>

-----------------------------------------------------------------------------
(* A statement times out or is refused, the process dies, or the rollout   *)
(* stopped waiting: the session ends, and with it the lock.  Of a process  *)
(* that dies during a statement the session lives on until it has ended.   *)

Ends(j) ==
  /\ Becomes(j, Idle) /\ lock' = (IF lock = j THEN None ELSE lock)
  /\ UNCHANGED <<applied, progress>> /\ ServingUnchanged
JobFails(j) == job[j].pc \notin {"idle", "orphan"} /\ Ends(j) /\ UNCHANGED effect
JobDies(j) ==
  /\ job[j].pc = "running" /\ Continues(j, "orphan")
  /\ UNCHANGED <<effect, applied, progress, lock>> /\ ServingUnchanged
OrphanEnds(j) ==
  /\ job[j].pc = "orphan" /\ Ends(j)
  /\ effect' \in {effect, [effect EXCEPT ![NextLeft(j)] = "present"]}

\* "drop that index concurrently, then retry" (docs/database-migrations.md).
DropInvalid(s) ==
  /\ effect[s] = "invalid" /\ lock = None
  /\ effect' = [effect EXCEPT ![s] = "absent"]
  /\ UNCHANGED <<applied, progress, lock, job>> /\ ServingUnchanged

Next ==
  \/ NewRelease \/ \E s \in Statements : DropInvalid(s)
  \/ \E j \in Jobs :
       Start(j) \/ ReadProgress(j) \/ RunBatch(j) \/ RunOutside(j) \/ OutsideEnds(j)
       \/ NoteOutside(j) \/ Record(j) \/ Unlock(j) \/ InstallGuard(j) \/ GrantAllTables(j)
       \/ RevokeAudit(j) \/ GrantAudit(j) \/ Rollout(j) \/ JobFails(j) \/ JobDies(j) \/ OrphanEnds(j)
Spec == Init /\ [][Next]_vars

-----------------------------------------------------------------------------
(* What MCPlatform states of it.                                           *)

\* A retry leaves an index alone that an earlier build left invalid.
TakesInvalid ==
  \E j \in Jobs : /\ job[j].pc = "statement" /\ Left(j) # {} /\ effect[NextLeft(j)] = "invalid"
                  /\ job'[j].pc = "note"
\* A Job ended between the first of its grants and the last.
HaltsGranting == \E j \in Jobs : job[j].pc \in {"revoke", "grant"} /\ job'[j] = Idle

Whole(m) == \A s \in Statements : s[1] = m => effect[s] = "present"
InOrder == \A m \in applied : 1 .. m \subseteq applied

\* A statement that cannot be repeated is not run again.
RunsOnce ==
  \A j \in Jobs : job[j].pc = "statement" => \A s \in Batch(j) : effect[s] = "absent"

\* Web and worker never run on a schema that lacks what they expect.
SchemaFirst ==
  /\ 1 .. rolled \subseteq applied
  /\ \A j \in Jobs : job[j].pc \in Granting \cup {"complete"} => 1 .. job[j].upto \subseteq applied

Guarded == "change" \in may => triggers
\* Web and worker write audit events, and may only add.
MayAudit ==
  rolled > 0 /\ (\A j \in Jobs : job[j].pc \notin {"revoke", "grant"}) => may = {"select", "insert"}
=============================================================================
