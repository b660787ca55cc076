------------------------------ MODULE Notices ------------------------------
(* Notifications: a producer records one under its dedupe key, or finds it *)
(* recorded by an earlier or a concurrent run, and offers the job of its   *)
(* e-mail copy; the worker sends the copy and marks the row.               *)
(* Code: src/src/domains/notifications, src/worker/processors.ts; BullMQ   *)
(* and the relay are modelled as they are used.                            *)
EXTENDS Naturals

CONSTANTS
  Keys,       \* dedupe keys, one to a notification
  Producers,
  Couriers,   \* workers of the notification queue
  MaxLosses   \* bound: crashes, lost locks and refusals

VARIABLES
  notice,     \* the rows: none, unsent or emailed
  wants,      \* the member is active and asked for e-mail copies
  producer,
  offer,      \* the job of each notification, whose id is the row's
  courier,
  copies,     \* copies of each that the relay took or suppression skipped
  losses
vars == <<notice, wants, producer, offer, courier, copies, losses>>

Idle == [pc |-> "idle"]

TypeOK ==
  /\ notice \in [Keys -> {"none", "unsent", "emailed"}] /\ wants \in BOOLEAN
  /\ producer \in [Producers -> {Idle} \cup [pc : {"wanted", "add"}, k : Keys]]
  /\ offer \in [Keys -> {"none", "queued", "active", "finished"}]
  /\ courier \in [Couriers -> {Idle} \cup
       [pc : {"row", "member", "post", "mark", "finish", "throw"}, k : Keys, lost : BOOLEAN]]
  /\ copies \in [Keys -> Nat]
  /\ losses \in 0 .. MaxLosses

Init ==
  /\ notice = [k \in Keys |-> "none"] /\ wants \in BOOLEAN
  /\ producer = [p \in Producers |-> Idle]
  /\ offer = [k \in Keys |-> "none"] /\ courier = [w \in Couriers |-> Idle]
  /\ copies = [k \in Keys |-> 0]
  /\ losses = 0

Lose == losses < MaxLosses /\ losses' = losses + 1

\* The member changes the preference, is suspended or comes back.
MemberChanges ==
  /\ wants' = ~wants
  /\ UNCHANGED <<notice, producer, offer, courier, copies, losses>>

-----------------------------------------------------------------------------
(* createNotification.                                                     *)

ProducerUnchanged == UNCHANGED <<wants, courier, copies>>

\* Inserted, or found: what is seen of it is whether it was e-mailed.
Record(p, k) ==
  /\ producer[p] = Idle
  /\ notice' = IF notice[k] = "none" THEN [notice EXCEPT ![k] = "unsent"] ELSE notice
  /\ IF notice[k] = "emailed" THEN UNCHANGED producer
     ELSE producer' = [producer EXCEPT ![p] = [pc |-> "wanted", k |-> k]]
  /\ UNCHANGED <<offer, losses>> /\ ProducerUnchanged

AskPreference(p) ==
  /\ producer[p].pc = "wanted"
  /\ producer' = [producer EXCEPT ![p] = IF wants THEN [@ EXCEPT !.pc = "add"] ELSE Idle]
  /\ UNCHANGED <<notice, offer, losses>> /\ ProducerUnchanged

\* An id that is still known is not added again.
OfferJob(p) ==
  LET k == producer[p].k IN
  /\ producer[p].pc = "add"
  /\ offer' = IF offer[k] = "none" THEN [offer EXCEPT ![k] = "queued"] ELSE offer
  /\ producer' = [producer EXCEPT ![p] = Idle]
  /\ UNCHANGED <<notice, losses>> /\ ProducerUnchanged

ProducerDies(p) ==
  /\ producer[p] # Idle /\ Lose
  /\ producer' = [producer EXCEPT ![p] = Idle]
  /\ UNCHANGED <<notice, offer>> /\ ProducerUnchanged

-----------------------------------------------------------------------------
(* notificationProcessor.                                                  *)

CourierUnchanged == UNCHANGED <<wants, producer>>
Of(w) == courier[w].k
Goto(w, pc) == courier' = [courier EXCEPT ![w].pc = pc]
Locked(k) == \E w \in Couriers : courier[w] # Idle /\ Of(w) = k /\ ~courier[w].lost

TakeOffer(w, k) ==
  /\ courier[w] = Idle /\ offer[k] = "queued"
  /\ offer' = [offer EXCEPT ![k] = "active"]
  /\ courier' = [courier EXCEPT ![w] = [pc |-> "row", k |-> k, lost |-> FALSE]]
  /\ UNCHANGED <<notice, copies, losses>> /\ CourierUnchanged

ReadNotice(w) ==
  /\ courier[w].pc = "row"
  /\ Goto(w, IF notice[Of(w)] = "emailed" THEN "finish" ELSE "member")
  /\ UNCHANGED <<notice, offer, copies, losses>> /\ CourierUnchanged

ReadMember(w) ==
  /\ courier[w].pc = "member"
  /\ Goto(w, IF wants THEN "post" ELSE "finish")
  /\ UNCHANGED <<notice, offer, copies, losses>> /\ CourierUnchanged

PostCopy(w) ==
  /\ courier[w].pc = "post"
  /\ copies' = [copies EXCEPT ![Of(w)] = @ + 1]
  /\ Goto(w, "mark")
  /\ UNCHANGED <<notice, offer, losses>> /\ CourierUnchanged

MarkEmailed(w) ==
  /\ courier[w].pc = "mark"
  /\ notice' = [notice EXCEPT ![Of(w)] = "emailed"]
  /\ Goto(w, "finish")
  /\ UNCHANGED <<offer, copies, losses>> /\ CourierUnchanged

StepFails(w) ==
  /\ courier[w].pc \in {"row", "member", "post", "mark"} /\ Lose
  /\ Goto(w, "throw")
  /\ UNCHANGED <<notice, offer, copies>> /\ CourierUnchanged

\* A run settles its job unless the lock is lost.
CourierDone(w) ==
  /\ courier[w].pc \in {"finish", "throw"}
  /\ courier' = [courier EXCEPT ![w] = Idle]
  /\ \E at \in IF courier[w].pc = "finish" THEN {"finished"} ELSE {"queued", "finished"} :
       offer' = IF courier[w].lost THEN offer ELSE [offer EXCEPT ![Of(w)] = at]
  /\ UNCHANGED <<notice, copies, losses>> /\ CourierUnchanged

CourierDies(w) ==
  /\ courier[w] # Idle /\ Lose
  /\ courier' = [courier EXCEPT ![w] = Idle]
  /\ UNCHANGED <<notice, offer, copies>> /\ CourierUnchanged

LoseLock(w) ==
  /\ courier[w] # Idle /\ ~courier[w].lost /\ Lose
  /\ courier' = [courier EXCEPT ![w].lost = TRUE]
  /\ UNCHANGED <<notice, offer, copies>> /\ CourierUnchanged

OfferStalled(k) ==
  /\ offer[k] = "active" /\ ~Locked(k)
  /\ \E at \in {"queued", "finished"} : offer' = [offer EXCEPT ![k] = at]
  /\ UNCHANGED <<notice, courier, copies, losses>> /\ CourierUnchanged

\* Finished jobs are forgotten after a time (removeOnComplete, removeOnFail).
ForgetOffer(k) ==
  /\ offer[k] = "finished" /\ offer' = [offer EXCEPT ![k] = "none"]
  /\ UNCHANGED <<notice, courier, copies, losses>> /\ CourierUnchanged

-----------------------------------------------------------------------------
Next ==
  \/ MemberChanges
  \/ \E p \in Producers :
       \/ AskPreference(p) \/ OfferJob(p) \/ ProducerDies(p) \/ \E k \in Keys : Record(p, k)
  \/ \E k \in Keys : OfferStalled(k) \/ ForgetOffer(k) \/ \E w \in Couriers : TakeOffer(w, k)
  \/ \E w \in Couriers :
       \/ ReadNotice(w) \/ ReadMember(w) \/ PostCopy(w) \/ MarkEmailed(w)
       \/ StepFails(w) \/ CourierDone(w) \/ CourierDies(w) \/ LoseLock(w)

Spec == Init /\ [][Next]_vars

-----------------------------------------------------------------------------
(* A row is marked only when its copy went out, and goes out again only    *)
(* after a fault between the two: one more copy for each.                  *)
CopiesBounded ==
  \A k \in Keys :
    /\ notice[k] = "emailed" => copies[k] > 0
    /\ copies[k] <= 1 + losses
=============================================================================
