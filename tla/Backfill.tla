------------------------------ MODULE Backfill ------------------------------
(* The encryption back-fill of one organisation: a chain of jobs, each     *)
(* sealing one page of a table under the tenant key and adding the job of  *)
(* the next page, through the worker's gate, which drops the jobs of an    *)
(* organisation that is not active and puts off those whose key is not.    *)
(* People go on editing the rows, and what they write is sealed.  The      *)
(* status and the key change at any time (Onboarding, OrganisationKeys):   *)
(* the gate may find either value of them.                                 *)
(* Code: src/src/lib/encryption/backfill.ts, src/worker/index.ts,          *)
(* tenant-job.ts and tenant-key-gate.ts; BullMQ is modelled as it is used. *)
(*                                                                         *)
(* A job is identified by the cursor it carries, which its id is made of:  *)
(* a table and the last row done, <<1, 0>> for the job that starts a run.  *)
(*                                                                         *)
(* Operators whose names begin with Mut are slips this code could have     *)
(* made in the definition that follows them; no action uses them.          *)
EXTENDS Naturals, FiniteSets, FiniteSetsExt

CONSTANTS
  Tables,       \* number of tables (ORDER)
  RowsEach,     \* number of rows of each
  BATCH,
  Workers,
  MaxAttempts,  \* attempts of a job
  MaxRuns,      \* bound: rows of encryption_backfill_runs
  MaxEdits,     \* bound: edits, all of one row
  MaxEvents     \* bound: back-fills asked for, crashes, lost locks and refusals

VARIABLES
  stored,   \* each row: whether it is sealed and which text it holds
  edits,    \* edits of each row so far
  run,      \* status of each back-fill run recorded
  job,      \* state of each job and the attempts it has left
  worker,   \* what each worker is doing
  events
vars == <<stored, edits, run, job, worker, events>>

Idle == [pc |-> "idle"]
Done == <<>>  \* no next cursor

Rows == 1 .. (Tables * RowsEach)
RowsOf(t) == {r \in Rows : (r - 1) \div RowsEach + 1 = t}
Cursors == (1 .. Tables) \X (0 .. Tables * RowsEach)
Start == <<1, 0>>
Runs == 1 .. MaxRuns

\* A worker with a job: the batch it is at, and what it has read of it.
Working ==
  [pc : {"gate", "find", "insert", "page", "seal", "next", "finish", "fail", "throw"},
   at : Cursors, run : 0 .. MaxRuns, todo : SUBSET [row : Rows, text : 0 .. MaxEdits],
   next : Cursors \cup {Done}, locked : BOOLEAN]

TypeOK ==
  /\ stored \in [Rows -> [sealed : BOOLEAN, text : 0 .. MaxEdits]]
  /\ edits \in [Rows -> 0 .. MaxEdits]
  /\ run \in [Runs -> {"none", "running", "completed", "failed"}]
  /\ job \in [Cursors -> [state : {"none", "queued", "delayed", "active", "finished"},
                          left : 0 .. MaxAttempts]]
  /\ worker \in [Workers -> {Idle} \cup Working]
  /\ events \in 0 .. MaxEvents

Init ==
  /\ \E s \in [Rows -> BOOLEAN] : stored = [r \in Rows |-> [sealed |-> s[r], text |-> 0]]
  /\ edits = [r \in Rows |-> 0]
  /\ run = [i \in Runs |-> "none"]
  /\ job = [c \in Cursors |-> [state |-> "none", left |-> 0]]
  /\ worker = [w \in Workers |-> Idle]
  /\ events = 0

Happens == events < MaxEvents /\ events' = events + 1
DataUnchanged == UNCHANGED <<stored, edits>>

-----------------------------------------------------------------------------
\* A row is written anew, sealed.
Edit(r) ==
  /\ edits[r] < MaxEdits /\ \A x \in Rows \ {r} : edits[x] = 0
  /\ edits' = [edits EXCEPT ![r] = @ + 1]
  /\ stored' = [stored EXCEPT ![r] = [sealed |-> TRUE, text |-> edits[r] + 1]]
  /\ UNCHANGED <<run, job, worker, events>>

-----------------------------------------------------------------------------
(* The queue.                                                              *)

\* An id the queue still knows is not added again.
Added(c) ==
  IF job[c].state = "none" THEN [job EXCEPT ![c] = [state |-> "queued", left |-> MaxAttempts]] ELSE job

\* An operator starts a back-fill.
EnqueueBackfill ==
  /\ Happens /\ job' = Added(Start)
  /\ UNCHANGED <<run, worker>> /\ DataUnchanged

\* Finished jobs are forgotten after a day, failed ones after a week, the oldest
\* first; batches take seconds, and only a delayed job may wait for so long.
Before(b, c) == b[1] < c[1] \/ (b[1] = c[1] /\ b[2] < c[2])
Forget(c) ==
  /\ job[c].state = "finished"
  /\ \A b \in Cursors : job[b].state \in {"none", "delayed", "finished"}
  /\ ~\E b \in Cursors : Before(b, c) /\ job[b].state = "finished"
  /\ job' = [job EXCEPT ![c].state = "none"]
  /\ UNCHANGED <<run, worker, events>> /\ DataUnchanged

\* The delay of a paused job ends, or the health job finds the key active again
\* and promotes it.
Wake(c) ==
  /\ job[c].state = "delayed" /\ job' = [job EXCEPT ![c].state = "queued"]
  /\ UNCHANGED <<run, worker, events>> /\ DataUnchanged

\* A job whose lock ran out runs again, unless it did so too often.
Stalled(c) ==
  /\ job[c].state = "active" /\ ~\E w \in Workers : worker[w] # Idle /\ worker[w].at = c /\ worker[w].locked
  /\ \E to \in {"queued", "finished"} : job' = [job EXCEPT ![c].state = to]
  /\ UNCHANGED <<run, worker, events>> /\ DataUnchanged

-----------------------------------------------------------------------------
(* The worker: its gate, then one batch.                                   *)

Becomes(w, x) == worker' = [worker EXCEPT ![w] = x]
Goto(w, pc) == worker' = [worker EXCEPT ![w].pc = pc]
At(w, pc) == worker[w].pc = pc

\* The worker is done with its job, which goes to state s if it is still its own.
Settle(w, s) ==
  /\ Becomes(w, Idle)
  /\ job' = IF worker[w].locked THEN [job EXCEPT ![worker[w].at].state = s] ELSE job

TakeJob(w, c) ==
  /\ worker[w] = Idle /\ job[c].state = "queued"
  /\ job' = [job EXCEPT ![c].state = "active"]
  /\ Becomes(w, [pc |-> "gate", at |-> c, run |-> 0, todo |-> {}, next |-> Done, locked |-> TRUE])
  /\ UNCHANGED <<run, events>> /\ DataUnchanged

\* The gate: the job of an organisation that is suspended, closed or not yet
\* active is dropped, which counts as done; that of one whose key is not active
\* is put off and loses no attempt.
PassGate(w) ==
  /\ At(w, "gate")
  /\ \/ Settle(w, "finished")
     \/ Settle(w, "delayed")
     \/ Goto(w, "find") /\ UNCHANGED job
  /\ UNCHANGED <<run, events>> /\ DataUnchanged

\* ensureRun: two statements, and no index that refuses a second running row.
FindRun(w) ==
  LET running == {i \in Runs : run[i] = "running"} IN
  /\ At(w, "find")
  /\ IF running = {} THEN Goto(w, "insert")
     ELSE \E i \in running : Becomes(w, [worker[w] EXCEPT !.pc = "page", !.run = i])
  /\ UNCHANGED <<run, job, events>> /\ DataUnchanged

InsertRun(w) ==
  /\ At(w, "insert") /\ \E i \in Runs : run[i] = "none"
  /\ LET i == Min({j \in Runs : run[j] = "none"}) IN
     /\ run' = [run EXCEPT ![i] = "running"]
     /\ Becomes(w, [worker[w] EXCEPT !.pc = "page", !.run = i])
  /\ UNCHANGED <<job, events>> /\ DataUnchanged

\* The rows of a page: the next BATCH of the table by id.
Page(c) ==
  LET rest == {r \in RowsOf(c[1]) : r > c[2]} IN
  {r \in rest : Cardinality({x \in rest : x < r}) < BATCH}
Unsealed(r) == ~stored[r].sealed

\* advance: a full page may have more after it, a shorter one ends its table.
MutAfter(c, page) ==
  IF Cardinality({r \in page : Unsealed(r)}) = BATCH THEN <<c[1], Max(page)>>
  ELSE IF c[1] < Tables THEN <<c[1] + 1, 0>> ELSE Done
After(c, page) ==
  IF Cardinality(page) = BATCH THEN <<c[1], Max(page)>>
  ELSE IF c[1] < Tables THEN <<c[1] + 1, 0>> ELSE Done

\* The page is read, unless scopeFor finds the key not active (StepFails).
ReadPage(w) ==
  LET page == Page(worker[w].at) IN
  /\ At(w, "page")
  /\ Becomes(w, [worker[w] EXCEPT !.pc = "seal", !.next = After(worker[w].at, page),
                   !.todo = {[row |-> r, text |-> stored[r].text] : r \in {x \in page : Unsealed(x)}}])
  /\ UNCHANGED <<run, job, events>> /\ DataUnchanged

\* Row by row, what was read is sealed and written back by id.
SealRow(w) ==
  /\ At(w, "seal") /\ worker[w].todo # {}
  /\ LET x == CHOOSE x \in worker[w].todo : \A y \in worker[w].todo : x.row <= y.row IN
     /\ stored' = [stored EXCEPT ![x.row] = [sealed |-> TRUE, text |-> x.text]]
     /\ Becomes(w, [worker[w] EXCEPT !.todo = @ \ {x}])
  /\ UNCHANGED <<edits, run, job, events>>

\* Progress is written by the id of the run.
CommitBatch(w) ==
  /\ At(w, "seal") /\ worker[w].todo = {}
  /\ run' = [run EXCEPT ![worker[w].run] = IF worker[w].next = Done THEN "completed" ELSE "running"]
  /\ Becomes(w, [worker[w] EXCEPT !.pc = IF worker[w].next = Done THEN "finish" ELSE "next", !.run = 0])
  /\ UNCHANGED <<job, events>> /\ DataUnchanged

EnqueueNext(w) ==
  /\ At(w, "next")
  /\ job' = Added(worker[w].next)
  /\ Becomes(w, [worker[w] EXCEPT !.pc = "finish", !.next = Done])
  /\ UNCHANGED <<run, events>> /\ DataUnchanged

Finish(w) ==
  /\ At(w, "finish") /\ Settle(w, "finished")
  /\ UNCHANGED <<run, events>> /\ DataUnchanged

\* A statement, the KMS or the queue refuses, or the key is not active.
StepFails(w) ==
  /\ worker[w].pc \in {"find", "insert", "page", "seal", "next"} /\ Happens
  /\ Becomes(w, [worker[w] EXCEPT !.pc = IF @ \in {"page", "seal"} THEN "fail" ELSE "throw",
                                  !.todo = {}, !.next = Done])
  /\ UNCHANGED <<run, job>> /\ DataUnchanged

MarkFailed(w) ==
  /\ At(w, "fail")
  /\ run' = [run EXCEPT ![worker[w].run] = "failed"] /\ Goto(w, "throw")
  /\ UNCHANGED <<job, events>> /\ DataUnchanged

\* The failed job is tried again while it has attempts left.
Throw(w) ==
  LET c == worker[w].at
      left == job[c].left - 1 IN
  /\ At(w, "throw") /\ Becomes(w, Idle)
  /\ job' = IF ~worker[w].locked THEN job
            ELSE [job EXCEPT ![c] = [state |-> IF left > 0 THEN "queued" ELSE "finished", left |-> left]]
  /\ UNCHANGED <<run, events>> /\ DataUnchanged

WorkerDies(w) ==
  /\ worker[w] # Idle /\ Happens /\ Becomes(w, Idle)
  /\ UNCHANGED <<run, job>> /\ DataUnchanged

LoseLock(w) ==
  /\ worker[w] # Idle /\ worker[w].locked /\ Happens
  /\ worker' = [worker EXCEPT ![w].locked = FALSE]
  /\ UNCHANGED <<run, job>> /\ DataUnchanged

-----------------------------------------------------------------------------
Next ==
  \/ EnqueueBackfill
  \/ \E r \in Rows : Edit(r)
  \/ \E c \in Cursors : Forget(c) \/ Wake(c) \/ Stalled(c) \/ \E w \in Workers : TakeJob(w, c)
  \/ \E w \in Workers :
       \/ PassGate(w) \/ FindRun(w) \/ InsertRun(w)
       \/ ReadPage(w) \/ SealRow(w) \/ CommitBatch(w) \/ EnqueueNext(w) \/ Finish(w)
       \/ StepFails(w) \/ MarkFailed(w) \/ Throw(w) \/ WorkerDies(w) \/ LoseLock(w)

Spec == Init /\ [][Next]_vars

-----------------------------------------------------------------------------
\* "A finished run leaves every count at 0": no value of any table is left
\* unsealed, whatever ran twice, failed, was put off or written meanwhile.
SealedWhenDone ==
  (\E i \in Runs : run[i] = "completed") => \A r \in Rows : stored[r].sealed

\* A run that is going on has a job that will carry it on.
RunHasAJob ==
  (\E i \in Runs : run[i] = "running") =>
    \E c \in Cursors : job[c].state \in {"queued", "delayed", "active"}

\* What is stored is what was written last.
LastEditStands == \A r \in Rows : stored[r].text = edits[r]
=============================================================================
