--------------------------- MODULE ReportExports ---------------------------
(* Report exports: a request is recorded and given a job; a worker claims  *)
(* the row, uploads the report and settles the row if the claim is still   *)
(* its own; a maintenance sweep expires old exports and re-queues, or      *)
(* gives up, those whose worker or job was lost.  Every attempt uploads to *)
(* the same object key.                                                    *)
(* Code: src/src/domains/reporting; BullMQ is modelled as it is used.      *)
(*                                                                         *)
(* Each claim counts one attempt and sets startedAt, so the number of      *)
(* attempts stands for the claim, for startedAt and for the ids of jobs    *)
(* made from it.                                                           *)
(*                                                                         *)
(* Operators whose names begin with Mut are slips this code could have     *)
(* made in the definition that follows them; no action uses them.          *)
EXTENDS Naturals

CONSTANTS
  Exports,
  Workers,
  MaxClaims,   \* MAX_EXPORT_ATTEMPTS
  MaxMishaps   \* bound: crashes, lost jobs, refusals of the stores

VARIABLES
  export,   \* the rows of export_requests
  stored,   \* which attempt uploaded the object of each export, or 0
  unqueued, \* exports whose request has yet to add the job
  queue,    \* the jobs of each export: its own and those of recoveries
  maker,    \* what each worker is doing
  sweeper,  \* what the maintenance sweep is doing
  mishaps
vars == <<export, stored, unqueued, queue, maker, sweeper, mishaps>>

Idle == [pc |-> "idle"]
NoExport == [status |-> "none", attempts |-> 0, file |-> 0, stale |-> FALSE, past |-> FALSE]

\* The request's own job, and one recovery job to a claim (or to none yet).
Own == MaxClaims
JobIds == 0 .. Own

TypeOK ==
  /\ export \in [Exports -> [status : {"none", "pending", "processing", "ready", "failed", "expired"},
                             attempts : 0 .. MaxClaims, file : 0 .. MaxClaims,
                             stale : BOOLEAN, past : BOOLEAN]]
  /\ stored \in [Exports -> 0 .. MaxClaims]
  /\ unqueued \subseteq Exports
  /\ queue \in [Exports -> [JobIds -> {"none", "queued", "active", "finished"}]]
  /\ maker \in [Workers -> {Idle} \cup
       [pc : {"claim", "upload", "settle", "fail", "end", "throw"}, e : Exports,
        job : JobIds, claim : 0 .. MaxClaims]]
  /\ sweeper \in {Idle} \cup [pc : {"expire"}, todo : SUBSET Exports]
                 \cup [pc : {"mark"}, todo : SUBSET Exports, e : Exports]
                 \cup [pc : {"recover"}, todo : SUBSET [e : Exports, attempts : 0 .. MaxClaims]]
  /\ mishaps \in 0 .. MaxMishaps

Init ==
  /\ export = [e \in Exports |-> NoExport]
  /\ stored = [e \in Exports |-> 0]
  /\ unqueued = {}
  /\ queue = [e \in Exports |-> [j \in JobIds |-> "none"]]
  /\ maker = [w \in Workers |-> Idle]
  /\ sweeper = Idle
  /\ mishaps = 0

Mishap == mishaps < MaxMishaps /\ mishaps' = mishaps + 1

JobBecomes(e, j, at) == [queue EXCEPT ![e] = [queue[e] EXCEPT ![j] = at]]

\* addJob: an id that is still known is not added again.
Added(e, j) ==
  IF queue[e][j] = "none" THEN JobBecomes(e, j, "queued") ELSE queue

-----------------------------------------------------------------------------
(* The request and the clock.                                              *)

RequestExport(e) ==
  /\ export[e] = NoExport
  /\ export' = [export EXCEPT ![e].status = "pending"]
  /\ unqueued' = unqueued \cup {e}
  /\ UNCHANGED <<stored, queue, maker, sweeper, mishaps>>

RequestAdds(e) ==
  /\ e \in unqueued /\ unqueued' = unqueued \ {e}
  /\ queue' = Added(e, Own)
  /\ UNCHANGED <<export, stored, maker, sweeper, mishaps>>

\* The process dies, or Redis refuses: the user sees an error, the row stays.
RequestLost(e) ==
  /\ e \in unqueued /\ unqueued' = unqueued \ {e}
  /\ Mishap
  /\ UNCHANGED <<export, stored, queue, maker, sweeper>>

Waiting(e) == export[e].status \in {"pending", "processing"}

\* EXPORT_STALE_MS since the row was made or claimed.
GoesStale(e) ==
  /\ Waiting(e) /\ ~export[e].stale
  /\ export' = [export EXCEPT ![e].stale = TRUE]
  /\ UNCHANGED <<stored, unqueued, queue, maker, sweeper, mishaps>>

\* expiresAt passes; downloads are refused from then on.
RunsOut(e) ==
  /\ export[e].status = "ready" /\ ~export[e].past
  /\ export' = [export EXCEPT ![e].past = TRUE]
  /\ UNCHANGED <<stored, unqueued, queue, maker, sweeper, mishaps>>

-----------------------------------------------------------------------------
(* BullMQ.                                                                 *)

Take(w, e, j) ==
  /\ maker[w] = Idle /\ queue[e][j] = "queued"
  /\ queue' = JobBecomes(e, j, "active")
  /\ maker' = [maker EXCEPT ![w] = [pc |-> "claim", e |-> e, job |-> j, claim |-> 0]]
  /\ UNCHANGED <<export, stored, unqueued, sweeper, mishaps>>

\* A worker is gone: its job is run again, or given up.
Stalled(e, j) ==
  /\ queue[e][j] = "active"
  /\ ~\E w \in Workers : maker[w] # Idle /\ maker[w].e = e /\ maker[w].job = j
  /\ \E at \in {"queued", "finished"} : queue' = JobBecomes(e, j, at)
  /\ UNCHANGED <<export, stored, unqueued, maker, sweeper, mishaps>>

Forget(e, j) ==
  /\ queue[e][j] = "finished"
  /\ queue' = JobBecomes(e, j, "none")
  /\ UNCHANGED <<export, stored, unqueued, maker, sweeper, mishaps>>

Ends(w) ==
  /\ maker[w].pc = "end"
  /\ maker' = [maker EXCEPT ![w] = Idle]
  /\ queue' = JobBecomes(maker[w].e, maker[w].job, "finished")
  /\ UNCHANGED <<export, stored, unqueued, sweeper, mishaps>>

\* Retried, or out of retries.
Throws(w) ==
  /\ maker[w].pc = "throw"
  /\ maker' = [maker EXCEPT ![w] = Idle]
  /\ \E at \in {"queued", "finished"} :
       queue' = JobBecomes(maker[w].e, maker[w].job, at)
  /\ UNCHANGED <<export, stored, unqueued, sweeper, mishaps>>

WorkerDies(w) ==
  /\ maker[w] # Idle /\ Mishap
  /\ maker' = [maker EXCEPT ![w] = Idle]
  /\ UNCHANGED <<export, stored, unqueued, queue, sweeper>>

-----------------------------------------------------------------------------
(* processExport.                                                          *)

WorkUnchanged == UNCHANGED <<unqueued, queue, sweeper>>
Goto(w, pc) == maker' = [maker EXCEPT ![w].pc = pc]

Claimable(e) ==
  /\ export[e].status = "pending" \/ (export[e].status = "processing" /\ export[e].stale)
  /\ export[e].attempts < MaxClaims

Claim(w) ==
  LET e == maker[w].e
      next == export[e].attempts + 1 IN
  /\ maker[w].pc = "claim"
  /\ IF Claimable(e)
       THEN /\ export' = [export EXCEPT ![e] = [export[e] EXCEPT
                 !.status = "processing", !.attempts = next, !.stale = FALSE]]
            /\ maker' = [maker EXCEPT ![w] = [maker[w] EXCEPT !.pc = "upload", !.claim = next]]
       ELSE Goto(w, "end") /\ UNCHANGED export
  /\ UNCHANGED <<stored, mishaps>> /\ WorkUnchanged

\* The object appears when the upload is complete.
Upload(w) ==
  /\ maker[w].pc = "upload"
  /\ stored' = [stored EXCEPT ![maker[w].e] = maker[w].claim]
  /\ Goto(w, "settle")
  /\ UNCHANGED <<export, mishaps>> /\ WorkUnchanged

MutHolds(w) == export[maker[w].e].status = "processing"
\* "Settle only while this attempt still holds the claim."
Holds(w) ==
  /\ export[maker[w].e].status = "processing"
  /\ export[maker[w].e].attempts = maker[w].claim

SettleReady(w) ==
  LET e == maker[w].e IN
  /\ maker[w].pc = "settle"
  /\ export' = IF Holds(w)
                 THEN [export EXCEPT ![e] = [export[e] EXCEPT !.status = "ready",
                                             !.file = maker[w].claim, !.stale = FALSE]]
                 ELSE export
  /\ Goto(w, "end")
  /\ UNCHANGED <<stored, mishaps>> /\ WorkUnchanged

SettleFailed(w) ==
  LET e == maker[w].e IN
  /\ maker[w].pc = "fail"
  /\ export' = IF Holds(w)
                 THEN [export EXCEPT ![e] = [export[e] EXCEPT !.status = "failed", !.stale = FALSE]]
                 ELSE export
  /\ Goto(w, "end")
  /\ UNCHANGED <<stored, mishaps>> /\ WorkUnchanged

\* A store refuses: inside the try block the export fails, elsewhere the job.
StoreRefuses(w) ==
  /\ maker[w].pc \in {"claim", "upload", "settle", "fail"} /\ Mishap
  /\ Goto(w, IF maker[w].pc \in {"upload", "settle"} THEN "fail" ELSE "throw")
  /\ UNCHANGED <<export, stored>> /\ WorkUnchanged

-----------------------------------------------------------------------------
(* processExportMaintenance.  A sweep with nothing to do is left out.      *)

SweepUnchanged == UNCHANGED <<unqueued, maker>>
Due == {e \in Exports : export[e].status = "ready" /\ export[e].past}

Stranded(e) == Waiting(e) /\ export[e].stale

SweepBegins ==
  /\ sweeper = Idle
  /\ Due # {} \/ \E e \in Exports : Stranded(e)
  /\ sweeper' = [pc |-> "expire", todo |-> Due]
  /\ UNCHANGED <<export, stored, queue, mishaps>> /\ SweepUnchanged

\* Every version of the object is deleted before the row is marked.
Purge(e) ==
  /\ sweeper.pc = "expire" /\ e \in sweeper.todo
  /\ stored' = [stored EXCEPT ![e] = 0]
  /\ sweeper' = [pc |-> "mark", todo |-> sweeper.todo \ {e}, e |-> e]
  /\ UNCHANGED <<export, queue, mishaps>> /\ SweepUnchanged

PurgeFails(e) ==
  /\ sweeper.pc = "expire" /\ e \in sweeper.todo /\ Mishap
  /\ sweeper' = [sweeper EXCEPT !.todo = @ \ {e}]
  /\ UNCHANGED <<export, stored, queue>> /\ SweepUnchanged

MarkExpired ==
  /\ sweeper.pc = "mark"
  /\ export' = IF export[sweeper.e].status = "ready"
                 THEN LET e == sweeper.e IN
                   [export EXCEPT ![e] = [export[e] EXCEPT !.status = "expired", !.file = 0]]
                 ELSE export
  /\ sweeper' = [pc |-> "expire", todo |-> sweeper.todo]
  /\ UNCHANGED <<stored, queue, mishaps>> /\ SweepUnchanged

SelectStranded ==
  /\ sweeper.pc = "expire" /\ sweeper.todo = {}
  /\ LET found == {[e |-> e, attempts |-> export[e].attempts] : e \in {x \in Exports : Stranded(x)}} IN
       sweeper' = IF found = {} THEN Idle ELSE [pc |-> "recover", todo |-> found]
  /\ UNCHANGED <<export, stored, queue, mishaps>> /\ SweepUnchanged

\* The rows are settled one by one, as they were when they were selected.
RecoverNext(seen) ==
  /\ sweeper.pc = "recover" /\ seen \in sweeper.todo
  /\ sweeper' = IF sweeper.todo = {seen} THEN Idle ELSE [sweeper EXCEPT !.todo = @ \ {seen}]
  /\ UNCHANGED <<stored, mishaps>> /\ SweepUnchanged

\* An export that has used its attempts is given up, if it still is stale.
Abandon(seen) ==
  /\ RecoverNext(seen)
  /\ seen.attempts >= MaxClaims
  /\ export' = IF Stranded(seen.e)
                 THEN [export EXCEPT ![seen.e] = [export[seen.e] EXCEPT !.status = "failed", !.stale = FALSE]]
                 ELSE export
  /\ UNCHANGED queue

\* One recovery job to a claim, however often the row is found stranded.
Requeue(seen) ==
  /\ RecoverNext(seen)
  /\ seen.attempts < MaxClaims
  /\ queue' = Added(seen.e, seen.attempts)
  /\ UNCHANGED export

\* The process dies, or a store refuses what only the sweep's end would catch.
SweepDies ==
  /\ sweeper # Idle /\ Mishap
  /\ sweeper' = Idle
  /\ UNCHANGED <<export, stored, queue>> /\ SweepUnchanged

-----------------------------------------------------------------------------
SweepStep ==
  \/ SweepBegins \/ MarkExpired \/ SelectStranded
  \/ \E e \in Exports : Purge(e)
  \/ \E e \in Exports, n \in 0 .. MaxClaims :
       LET seen == [e |-> e, attempts |-> n] IN Abandon(seen) \/ Requeue(seen)
RunStep(w) ==
  Claim(w) \/ Upload(w) \/ SettleReady(w) \/ SettleFailed(w) \/ Ends(w) \/ Throws(w)

Next ==
  \/ SweepStep \/ SweepDies
  \/ \E e \in Exports :
       \/ RequestExport(e) \/ RequestAdds(e) \/ RequestLost(e)
       \/ GoesStale(e) \/ RunsOut(e) \/ PurgeFails(e)
       \/ \E j \in JobIds : Stalled(e, j) \/ Forget(e, j) \/ \E w \in Workers : Take(w, e, j)
  \/ \E w \in Workers : RunStep(w) \/ WorkerDies(w) \/ StoreRefuses(w)

Spec == Init /\ [][Next]_vars

(* Time passes, the sweep is a repeatable job and BullMQ its own clock: a  *)
(* queued job is taken, a stalled one found, a finished one forgotten in   *)
(* the end.  Nothing is assumed of the request, which may stop anywhere.   *)
Fairness ==
  /\ WF_vars(SweepStep) /\ WF_vars(\E e \in Exports : GoesStale(e))
  /\ WF_vars(\E e \in Exports, j \in JobIds : Stalled(e, j))
  /\ WF_vars(\E e \in Exports, j \in JobIds : Forget(e, j))
  /\ WF_vars(\E e \in Exports, j \in JobIds, w \in Workers : Take(w, e, j))
  /\ \A w \in Workers : WF_vars(RunStep(w))

-----------------------------------------------------------------------------
\* A settled export is that of the newest claim.
NewestClaimSettles ==
  \A e \in Exports :
    export[e].status = "ready" =>
      /\ export[e].file = export[e].attempts
      /\ stored[e] # 0 \/ export[e].past
\* The object is the one the row was settled for, and gone when it expired.
ObjectIsTheRows(e) ==
  /\ export[e].status = "ready" => stored[e] = export[e].file \/ export[e].past
  /\ export[e].status = "expired" => stored[e] = 0
=============================================================================
