------------------------------ MODULE Webhooks ------------------------------
(* Webhook deliveries: src/domains/webhooks.  An event is recorded as a    *)
(* row and given a job whose id is the row's; the worker POSTs it until it *)
(* is accepted, refused for good or out of attempts; a sweep re-queues the *)
(* rows whose job was lost; an administrator may ask for another copy.     *)
(* BullMQ and the receiver are outside src/ and modelled as the code uses  *)
(* them.  All deliveries are to one endpoint.                              *)
(*                                                                         *)
(* Operators whose names begin with Mut are slips this code could have     *)
(* made in the definition that follows them; no action uses them.          *)
EXTENDS Naturals

CONSTANTS
  Deliveries,   \* rows of webhook_deliveries, one to an event
  Calls,        \* requests in the web process: emissions and redeliveries
  Sweep,        \* the sweep job, which re-queues in the same way
  Workers,      \* workers of the webhook queue
  MaxAttempts,  \* WEBHOOK_MAX_ATTEMPTS
  MaxFaults     \* bound: crashes, lost locks, lost answers, refused writes

ASSUME WebhookBounds ==
  /\ MaxAttempts \in Nat \ {0} /\ MaxFaults \in Nat
  /\ Sweep \notin Calls

VARIABLES
  open,     \* the endpoint is active and not deleted
  row,      \* the status and attempts of each delivery
  stale,    \* pending deliveries untouched for WEBHOOK_STALE_PENDING_MS
  job,      \* the job of each delivery: where it is and its failed tries
  call,     \* what each request, and the sweep, is about to do
  todo,     \* the batch the sweep has still to look at
  run,      \* what each worker is doing
  copies,   \* POSTs of each delivery that the receiver took
  faults
rowVars == <<row, stale>>
webhookVars == <<open, row, stale, job, call, todo, run, copies, faults>>

Callers == Calls \cup {Sweep}
Free == [pc |-> "idle"]
NoRow == [status |-> "none", attempts |-> 0]
NoJob == [at |-> "none", tries |-> 0]
NewJob == [at |-> "queued", tries |-> 0]

Outcomes == {"accepted", "refused", "rejected", "network", "barred"}

TypeOK ==
  /\ open \in BOOLEAN
  /\ row \in [Deliveries -> [status : {"none", "pending", "delivered", "failed"},
                             attempts : 0 .. MaxAttempts]]
  /\ stale \subseteq {d \in Deliveries : row[d].status = "pending"}
  /\ job \in [Deliveries -> [at : {"none", "queued", "active", "finished"},
                             tries : 0 .. MaxAttempts]]
  /\ call \in [Callers -> {Free} \cup
       [pc : {"insert", "reset", "look", "remove", "add"}, d : Deliveries]]
  /\ todo \subseteq Deliveries
  /\ run \in [Workers -> {Free} \cup
       [pc : {"row", "endpoint", "post", "settle", "finish", "throw"}, d : Deliveries,
        attempts : 0 .. MaxAttempts, outcome : Outcomes, lost : BOOLEAN]]
  /\ copies \in [Deliveries -> Nat]
  /\ faults \in 0 .. MaxFaults

Init ==
  /\ open = TRUE
  /\ row = [d \in Deliveries |-> NoRow]
  /\ stale = {}
  /\ job = [d \in Deliveries |-> NoJob]
  /\ call = [c \in Callers |-> Free] /\ todo = {}
  /\ run = [w \in Workers |-> Free]
  /\ copies = [d \in Deliveries |-> 0]
  /\ faults = 0

Pending(d) == row[d].status = "pending"
Fault == faults < MaxFaults /\ faults' = faults + 1

\* Every update of a row sets its updated_at ($onUpdate).
Write(d, status, attempts) ==
  /\ row' = [row EXCEPT ![d] = [status |-> status, attempts |-> attempts]]
  /\ stale' = stale \ {d}

-----------------------------------------------------------------------------
(* The endpoint and the clock.                                             *)

\* deleteEndpoint.  Deliveries already recorded stay.
DeleteEndpoint ==
  /\ open /\ open' = FALSE
  /\ UNCHANGED <<rowVars, job, call, todo, run, copies, faults>>

\* An hour passes.
TimePasses ==
  /\ \E d \in Deliveries : Pending(d) /\ d \notin stale
  /\ stale' = {d \in Deliveries : Pending(d)}
  /\ UNCHANGED <<open, row, job, call, todo, run, copies, faults>>

-----------------------------------------------------------------------------
(* Requests: emitWebhookEvent and redeliverDelivery.                       *)

CallUnchanged == UNCHANGED <<open, run, copies>>
To(c, pc) == call' = [call EXCEPT ![c].pc = pc]
CallAt(c, pc) == call[c].pc = pc

\* The endpoints are read, and the row inserted by a later statement.
Emit(c, d) ==
  /\ CallAt(c, "idle") /\ open
  /\ row[d] = NoRow /\ \A b \in Calls : CallAt(b, "insert") => call[b].d # d
  /\ call' = [call EXCEPT ![c] = [pc |-> "insert", d |-> d]]
  /\ UNCHANGED <<rowVars, job, todo, faults>> /\ CallUnchanged

EmitInsert(c) ==
  /\ CallAt(c, "insert")
  /\ Write(call[c].d, "pending", 0)
  /\ To(c, "add")
  /\ UNCHANGED <<job, todo, faults>> /\ CallUnchanged

\* The endpoint must be active; it is read before the row is.
Redeliver(c, d) ==
  /\ CallAt(c, "idle") /\ open /\ row[d] # NoRow
  /\ call' = [call EXCEPT ![c] = [pc |-> "reset", d |-> d]]
  /\ UNCHANGED <<rowVars, job, todo, faults>> /\ CallUnchanged

MayReset(d) == ~Pending(d)

RedeliverReset(c) ==
  LET d == call[c].d IN
  /\ CallAt(c, "reset")
  /\ IF MayReset(d)
       THEN Write(d, "pending", 0) /\ To(c, "look")
       ELSE call' = [call EXCEPT ![c] = Free] /\ UNCHANGED rowVars
  /\ UNCHANGED <<job, todo, faults>> /\ CallUnchanged

-----------------------------------------------------------------------------
(* requeueDelivery, for a request and for the sweep.                       *)

Locked(d) == \E w \in Workers : run[w] # Free /\ run[w].d = d /\ ~run[w].lost

MutLiveFinished(d) == job[d].at \in {"queued", "active", "finished"}
\* LIVE_STATES: the job will still run without intervention.
Live(d) == job[d].at \in {"queued", "active"}

RequeueLook(c) ==
  LET d == call[c].d IN
  /\ CallAt(c, "look")
  /\ IF Live(d) THEN call' = [call EXCEPT ![c] = Free]
     ELSE To(c, IF job[d] = NoJob THEN "add" ELSE "remove")
  /\ UNCHANGED <<rowVars, job, todo, faults>> /\ CallUnchanged

\* What is removed may no longer be what was looked at.  BullMQ throws when
\* a worker holds the job, which ends the request, or the sweep.
RequeueRemove(c) ==
  LET d == call[c].d IN
  /\ CallAt(c, "remove")
  /\ IF Locked(d)
       THEN /\ call' = [call EXCEPT ![c] = Free]
            /\ todo' = IF c = Sweep THEN {} ELSE todo
            /\ UNCHANGED job
       ELSE To(c, "add") /\ job' = [job EXCEPT ![d] = NoJob] /\ UNCHANGED todo
  /\ UNCHANGED <<rowVars, faults>> /\ CallUnchanged

\* addJob: an id that is still known is not added again.
AddJob(c) ==
  LET d == call[c].d IN
  /\ CallAt(c, "add")
  /\ job' = IF job[d] = NoJob THEN [job EXCEPT ![d] = NewJob] ELSE job
  /\ call' = [call EXCEPT ![c] = Free]
  /\ UNCHANGED <<rowVars, todo, faults>> /\ CallUnchanged

\* Redis refuses, or the process dies: the row is left for the sweep.
AddFails(c) ==
  /\ CallAt(c, "add") /\ Fault
  /\ call' = [call EXCEPT ![c] = Free]
  /\ todo' = IF c = Sweep THEN {} ELSE todo
  /\ UNCHANGED <<rowVars, job>> /\ CallUnchanged

-----------------------------------------------------------------------------
(* sweepStaleWebhookDeliveries.                                            *)

SweepSelect ==
  /\ CallAt(Sweep, "idle") /\ todo = {}
  /\ stale # {} /\ todo' = stale
  /\ UNCHANGED <<rowVars, job, call, faults>> /\ CallUnchanged

SweepNext(d) ==
  /\ CallAt(Sweep, "idle") /\ d \in todo
  /\ todo' = todo \ {d}
  /\ call' = [call EXCEPT ![Sweep] = [pc |-> "look", d |-> d]]
  /\ UNCHANGED <<rowVars, job, faults>> /\ CallUnchanged

-----------------------------------------------------------------------------
(* BullMQ.                                                                 *)

\* A worker takes a job and its lock.
Take(w, d) ==
  /\ run[w] = Free /\ job[d].at = "queued"
  /\ job' = [job EXCEPT ![d].at = "active"]
  /\ run' = [run EXCEPT ![w] = [pc |-> "row", d |-> d, attempts |-> 0,
                                outcome |-> "network", lost |-> FALSE]]
  /\ UNCHANGED <<open, rowVars, call, todo, copies, faults>>

\* A job whose lock has expired is put back, or given up as stalled.
StallCheck(d) ==
  /\ job[d].at = "active" /\ ~Locked(d)
  /\ \E at \in {"queued", "finished"} : job' = [job EXCEPT ![d].at = at]
  /\ UNCHANGED <<open, rowVars, call, todo, run, copies, faults>>

\* Finished jobs are forgotten after a time (removeOnComplete, removeOnFail).
Forget(d) ==
  /\ job[d].at = "finished"
  /\ job' = [job EXCEPT ![d] = NoJob]
  /\ UNCHANGED <<open, rowVars, call, todo, run, copies, faults>>

\* The end of a run settles its job unless the lock is lost.
JobEnds(w, at, tries) ==
  /\ run' = [run EXCEPT ![w] = Free]
  /\ job' = IF run[w].lost THEN job
            ELSE [job EXCEPT ![run[w].d] = [at |-> at, tries |-> tries]]

Finish(w) ==
  /\ run[w].pc = "finish"
  /\ JobEnds(w, "finished", job[run[w].d].tries)
  /\ UNCHANGED <<open, rowVars, call, todo, copies, faults>>

Retried(d) == job[d].tries + 1 < MaxAttempts

Throw(w) ==
  LET d == run[w].d IN
  /\ run[w].pc = "throw"
  /\ JobEnds(w, IF Retried(d) THEN "queued" ELSE "finished", job[d].tries + 1)
  /\ UNCHANGED <<open, rowVars, call, todo, copies, faults>>

\* The worker dies: its job stays active until it is found stalled.
Die(w) ==
  /\ run[w] # Free /\ Fault
  /\ run' = [run EXCEPT ![w] = Free]
  /\ UNCHANGED <<open, rowVars, job, call, todo, copies>>

\* The worker is stopped for longer than its lock lasts, and goes on.
LoseLock(w) ==
  /\ run[w] # Free /\ ~run[w].lost /\ Fault
  /\ run' = [run EXCEPT ![w].lost = TRUE]
  /\ UNCHANGED <<open, rowVars, job, call, todo, copies>>

-----------------------------------------------------------------------------
(* processWebhookDelivery.                                                 *)

WorkUnchanged == UNCHANGED <<open, job, call, todo>>
Step(w, pc) == run' = [run EXCEPT ![w].pc = pc]
Over(w, pc) ==
  run' = [run EXCEPT ![w] = [run[w] EXCEPT !.pc = pc, !.attempts = 0, !.outcome = "network"]]

MutDeliverAgain(d) == row[d] # NoRow
Deliverable(d) == Pending(d)

ReadRow(w) ==
  LET d == run[w].d IN
  /\ run[w].pc = "row"
  /\ IF Deliverable(d)
       THEN run' = [run EXCEPT ![w] =
              [run[w] EXCEPT !.pc = "endpoint", !.attempts = row[d].attempts + 1]]
       ELSE Step(w, "finish")
  /\ UNCHANGED <<rowVars, copies, faults>> /\ WorkUnchanged

Answered(w, outcome) ==
  run' = [run EXCEPT ![w] = [run[w] EXCEPT !.pc = "settle", !.outcome = outcome]]

ReadEndpoint(w) ==
  /\ run[w].pc = "endpoint"
  /\ IF open THEN Step(w, "post") ELSE Answered(w, "barred")
  /\ UNCHANGED <<rowVars, copies, faults>> /\ WorkUnchanged

\* The receiver takes the copy, refuses it, redirects (which is rejected, as
\* is a secret that cannot be opened) or is not reached; or the destination
\* is barred and nothing is sent.
Post(w) ==
  /\ run[w].pc = "post"
  /\ \E outcome \in Outcomes :
       /\ Answered(w, outcome)
       /\ copies' = IF outcome = "accepted" THEN [copies EXCEPT ![run[w].d] = @ + 1] ELSE copies
  /\ UNCHANGED <<rowVars, faults>> /\ WorkUnchanged

\* The receiver takes the copy but its answer is late or lost.
AnswerLost(w) ==
  /\ run[w].pc = "post" /\ Fault
  /\ Answered(w, "network")
  /\ copies' = [copies EXCEPT ![run[w].d] = @ + 1]
  /\ UNCHANGED rowVars /\ WorkUnchanged

Spent(w) == run[w].attempts >= MaxAttempts

\* What the row becomes: refusals and errors are retried until the cap.
StatusFor(w) ==
  CASE run[w].outcome = "accepted" -> "delivered"
    [] run[w].outcome \in {"refused", "network"} /\ ~Spent(w) -> "pending"
    [] OTHER -> "failed"

\* By id, whatever the row holds by now.
Settle(w) ==
  /\ run[w].pc = "settle"
  /\ Write(run[w].d, StatusFor(w), run[w].attempts)
  /\ Over(w, IF StatusFor(w) = "pending" THEN "throw" ELSE "finish")
  /\ UNCHANGED <<copies, faults>> /\ WorkUnchanged

\* The database refuses the write.  Inside the try block that is taken for a
\* network error, even after a copy was accepted; elsewhere the run throws.
SettleFails(w) ==
  /\ run[w].pc = "settle" /\ Fault
  /\ IF run[w].outcome \in {"accepted", "refused", "rejected"}
       THEN Answered(w, "network") ELSE Over(w, "throw")
  /\ UNCHANGED <<rowVars, copies>> /\ WorkUnchanged

-----------------------------------------------------------------------------
RequeueStep(c) == RequeueLook(c) \/ RequeueRemove(c) \/ AddJob(c)
CallStep(c) == EmitInsert(c) \/ RedeliverReset(c) \/ RequeueStep(c)
SweepStep == SweepSelect \/ (\E d \in Deliveries : SweepNext(d)) \/ RequeueStep(Sweep)
RunStep(w) ==
  ReadRow(w) \/ ReadEndpoint(w) \/ Post(w) \/ Settle(w) \/ Finish(w) \/ Throw(w)

Next ==
  \/ DeleteEndpoint \/ TimePasses \/ SweepStep
  \/ \E c \in Calls : CallStep(c) \/ \E d \in Deliveries : Emit(c, d) \/ Redeliver(c, d)
  \/ \E c \in Callers : AddFails(c)
  \/ \E d \in Deliveries : StallCheck(d) \/ Forget(d) \/ \E w \in Workers : Take(w, d)
  \/ \E w \in Workers : RunStep(w) \/ Die(w) \/ LoseLock(w) \/ AnswerLost(w) \/ SettleFails(w)

Spec == Init /\ [][Next]_webhookVars

(* The sweep is a repeatable job and BullMQ its own clock: an hour passes, *)
(* a queued job is taken, a stalled one found, and what has begun goes on. *)
(* Nothing is assumed of the requests: a caller may stop anywhere.         *)
Fairness ==
  /\ WF_webhookVars(TimePasses) /\ WF_webhookVars(SweepStep)
  /\ \A d \in Deliveries : WF_webhookVars(StallCheck(d))
  /\ \A d \in Deliveries : WF_webhookVars(\E w \in Workers : Take(w, d))
  /\ \A w \in Workers : WF_webhookVars(RunStep(w))
FairSpec == Spec /\ Fairness
=============================================================================
