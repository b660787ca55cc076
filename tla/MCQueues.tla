----------------------------- MODULE MCQueues -------------------------------
(* Instances for TLC of what the worker does from its queues under a claim *)
(* or a row of its own: webhook deliveries (Webhooks), with a history of   *)
(* how many copies of each were asked for, and report exports              *)
(* (ReportExports).  The two share no state, so a behaviour moves one of   *)
(* them and leaves the other where it began: moving says which.            *)
EXTENDS Webhooks

CONSTANTS Exports, MaxClaims, MaxMishaps
VARIABLES export, stored, unqueued, queue, maker, sweeper, mishaps
exportVars == <<export, stored, unqueued, queue, maker, sweeper, mishaps>>
Report == INSTANCE ReportExports

CONSTANT MaxAsked  \* bound: copies asked for of one delivery

ASSUME QueueBounds == MaxClaims \in Nat /\ MaxMishaps \in Nat /\ MaxAsked \in Nat

VARIABLES
  asked,     \* the emission and the accepted redeliveries of each
  outlived,  \* exports a worker was still at work on when its claim went stale
  moving     \* which of the two a behaviour is about
allQueues == <<webhookVars, exportVars, asked, outlived, moving>>

Asks(d) == ~Pending(d) /\ row'[d] = [status |-> "pending", attempts |-> 0]

\* Past the claim, and not yet told that it is settled.
AtWork(e) == \E w \in Workers : maker[w].pc \in {"upload", "settle", "fail"} /\ maker[w].e = e
Outlives(e) == AtWork(e) /\ ~export[e].stale /\ export'[e].stale

QueuesInit ==
  /\ Init /\ Report!Init
  /\ asked = [d \in Deliveries |-> 0] /\ outlived = {}
  /\ moving \in {"webhooks", "exports"}
QueuesNext ==
  /\ \/ /\ moving = "webhooks" /\ Next
        /\ asked' = [d \in Deliveries |-> asked[d] + IF Asks(d) THEN 1 ELSE 0]
        /\ \A d \in Deliveries : asked'[d] <= MaxAsked
        /\ open' \/ faults' = 0  \* bound: an endpoint is deleted, or something fails
        /\ UNCHANGED <<exportVars, outlived>>
     \/ /\ moving = "exports" /\ Report!Next
        /\ outlived' = outlived \cup {e \in Exports : Outlives(e)}
        /\ UNCHANGED <<webhookVars, asked>>
  /\ UNCHANGED moving
QueuesSpec == QueuesInit /\ [][QueuesNext]_allQueues /\ Fairness /\ Report!Fairness

(* "a double click cannot send two copies" (webhooks/service.ts), nor can  *)
(* a sweep beside a redelivery: while nothing fails the receiver takes at  *)
(* most one copy for each time one was asked for.  Whatever fails, a       *)
(* delivery "never succeeds without a 2xx" (webhooks/deliver.ts).          *)
CopiesAsAsked ==
  /\ TypeOK
  /\ \A d \in Deliveries : faults = 0 => copies[d] <= asked[d]
  /\ \A d \in Deliveries : row[d].status = "delivered" => copies[d] > 0

(* "Only the attempt that holds the current claim may settle the row"      *)
(* (reporting/generate.ts): a ready export is that of the newest claim and *)
(* has its object.  As all attempts upload to one key, the object is the   *)
(* very one the row was settled for, and gone once the row is expired,     *)
(* only as long as no worker outlives its claim.                           *)
ExportsHold ==
  /\ Report!TypeOK /\ Report!NewestClaimSettles
  /\ \A e \in Exports \ outlived : Report!ObjectIsTheRows(e)

(* A delivery is "never silently dropped" (webhooks/deliver.ts): one that  *)
(* is pending comes to be delivered or failed, although its job was never  *)
(* queued, was lost or was taken for live by the redelivery that reset it. *)
(* So does an export that waits, whose job was lost or whose worker died   *)
(* or outlived its claim ("so a poison export cannot loop forever",        *)
(* reporting/maintenance.ts).  In a behaviour one of the two is at rest.   *)
Unsettled(d, e) == Pending(d) \/ Report!Waiting(e)
WorkSettles ==
  \A d \in Deliveries, e \in Exports : Unsettled(d, e) ~> ~Unsettled(d, e)
=============================================================================
