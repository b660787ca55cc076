---------------------------- MODULE AuditVerify -----------------------------
(***************************************************************************)
(* The scheduled verification of one audit chain: a job walks the chain    *)
(* from the latest checkpoint, compares it with every signed anchor in the *)
(* anchor bucket, writes the day's anchor when there is none and, last,    *)
(* the next checkpoint.                                                    *)
(*                                                                         *)
(* The chain is the log AuditAppend implements.  It only grows, except     *)
(* that an operator may restore the database, chain and checkpoints, from  *)
(* a backup; the anchors are objects in S3 and stay.  An event is known by *)
(* its position and the restore it was written after: two chains that hold *)
(* the same event at a position agree up to it, as their hashes do.        *)
(* Code: src/worker/audit-verify.ts, src/src/domains/audit.                *)
(*                                                                         *)
(* Operators whose names begin with Mut are slips this code could have     *)
(* made in the definition that follows them; no action uses them.          *)
(***************************************************************************)
EXTENDS Integers, Sequences, FiniteSets

CONSTANTS
  Jobs,        \* concurrent runs of the verification job on this chain
  MaxEvents,   \* bound: length of the chain
  MaxDay,      \* bound: days
  MaxRestores  \* bound: restores from backup

ASSUME VerifyBounds ==
  MaxEvents \in Nat /\ MaxDay \in Nat \ {0} /\ MaxRestores \in Nat

VARIABLES
  chain,        \* the events, each as the number of restores before it
  checkpoints,  \* audit_integrity_checkpoints: positions and heads
  anchors,      \* anchor objects by day
  day,          \* today
  restores,     \* restores so far
  job,          \* runs of the job
  alarm         \* an integrity failure was signalled since the last restore

verifyVars == <<chain, checkpoints, anchors, day, restores, job, alarm>>

Days   == 1..MaxDay
Epochs == 0..MaxRestores
Heads  == [count : 1..MaxEvents, head : Epochs]

\* A signed anchor: its length and head, and the day of the one it links to.
Anchors  == [count : 1..MaxEvents, head : Epochs, prev : 0..MaxDay]
NoAnchor == [count |-> 0]

IdleJob == [pc |-> "idle"]
JobStates ==
  [pc : {"probe", "assess", "day", "put", "checkpoint"}, from : 0..MaxEvents,
   tip : 0..MaxEvents, day : 0..MaxDay, loaded : SUBSET Days, prev : 0..MaxDay]

VerifyTypeOK ==
  /\ chain \in Seq(Epochs) /\ Len(chain) <= MaxEvents
  /\ checkpoints \subseteq Heads
  /\ anchors \in [Days -> Anchors \cup {NoAnchor}]
  /\ day \in Days
  /\ restores \in Epochs
  /\ job \in [Jobs -> {IdleJob} \cup JobStates]
  /\ alarm \in BOOLEAN

VerifyInit ==
  /\ chain = <<>>
  /\ checkpoints = {}
  /\ anchors = [d \in Days |-> NoAnchor]
  /\ day = 1
  /\ restores = 0
  /\ job = [j \in Jobs |-> IdleJob]
  /\ alarm = FALSE

Anchored(d) == anchors[d] # NoAnchor

-----------------------------------------------------------------------------
(* The chain, the calendar and the operator.                               *)

RecordEvent ==
  /\ Len(chain) < MaxEvents
  /\ chain' = chain \o <<restores>>
  /\ UNCHANGED <<checkpoints, anchors, day, restores, job, alarm>>

Midnight ==
  /\ day < MaxDay
  /\ day' = day + 1
  /\ UNCHANGED <<chain, checkpoints, anchors, restores, job, alarm>>

\* Restoring stops the workers and takes chain and checkpoints back together.
Restore(n) ==
  /\ restores < MaxRestores
  /\ n < Len(chain)
  /\ chain' = SubSeq(chain, 1, n)
  /\ checkpoints' = {c \in checkpoints : c.count <= n}
  /\ restores' = restores + 1
  /\ job' = [j \in Jobs |-> IdleJob]
  /\ alarm' = FALSE
  /\ UNCHANGED <<anchors, day>>

-----------------------------------------------------------------------------
(* processAuditVerifyJob.                                                  *)

JobAt(j, pc) == job[j].pc = pc
Return(j) == job' = [job EXCEPT ![j] = IdleJob]
Stores    == <<checkpoints, anchors>>
World     == <<chain, day, restores>>

\* Walk from the latest checkpoint, whose tip must still be there, to the end.
LatestCheckpoint ==
  IF checkpoints = {} THEN 0
  ELSE CHOOSE n \in {c.count : c \in checkpoints} : \A c \in checkpoints : c.count <= n

Stands(c) == c.count <= Len(chain) /\ chain[c.count] = c.head

Walk(j) ==
  /\ job[j] = IdleJob
  /\ IF \A c \in checkpoints : c.count = LatestCheckpoint => Stands(c)
     THEN /\ job' = [job EXCEPT ![j] = [pc |-> "probe", from |-> LatestCheckpoint,
                       tip |-> Len(chain), day |-> 0, loaded |-> {}, prev |-> 0]]
          /\ UNCHANGED alarm
     ELSE alarm' = TRUE /\ UNCHANGED job
  /\ UNCHANGED Stores /\ UNCHANGED World

\* The day is read once, then the anchors; an empty chain is not compared.
ReadAnchors(j) ==
  /\ JobAt(j, "probe")
  /\ IF job[j].tip = 0
     THEN Return(j)
     ELSE job' = [job EXCEPT ![j].pc = "assess", ![j].day = day,
                             ![j].loaded = {d \in Days : Anchored(d)}]
  /\ UNCHANGED alarm /\ UNCHANGED Stores /\ UNCHANGED World

\* assessAnchoredChain: in order of their days, each anchor links to the one
\* before it, none is shorter, and each head is where the anchor says it is.
LastBefore(d, D) ==
  IF \A e \in D : e >= d THEN 0 ELSE CHOOSE e \in D : e < d /\ \A f \in D : f < d => f <= e


LinksBack(D) ==
  \A d \in D :
    LET e == LastBefore(d, D) IN
    /\ anchors[d].prev = e
    /\ e # 0 => /\ anchors[d].count >= anchors[e].count
                /\ anchors[d].count = anchors[e].count => anchors[d].head = anchors[e].head

MutHoldsLength(d, tip) == anchors[d].count <= tip
Holds(d, tip) == anchors[d].count <= tip /\ chain[anchors[d].count] = anchors[d].head

Assess(j) ==
  LET D == job[j].loaded IN
  /\ JobAt(j, "assess")
  /\ IF LinksBack(D) /\ (\A d \in D : Holds(d, job[j].tip) /\ d <= job[j].day)
     THEN job' = [job EXCEPT ![j].pc = "day", ![j].prev = LastBefore(MaxDay + 1, D)]
          /\ UNCHANGED alarm
     ELSE alarm' = TRUE /\ Return(j)
  /\ UNCHANGED Stores /\ UNCHANGED World

\* The day's own anchor is read again.  Only the heads of the anchors listed
\* before, and the tip, were fetched to compare it with.
KnownHead(j, n) == n = job[j].tip \/ \E d \in job[j].loaded : anchors[d].count = n

ReadToday(j) ==
  LET d == job[j].day IN
  /\ JobAt(j, "day")
  /\ IF ~Anchored(d)
     THEN job' = [job EXCEPT ![j].pc = "put"] /\ UNCHANGED alarm
     ELSE IF Holds(d, job[j].tip) /\ KnownHead(j, anchors[d].count)
     THEN job' = [job EXCEPT ![j].pc = "checkpoint"] /\ UNCHANGED alarm
     ELSE alarm' = TRUE /\ Return(j)
  /\ UNCHANGED Stores /\ UNCHANGED World

MutPutYesterday(j) ==
  LET d == job[j].day IN
  /\ JobAt(j, "put")
  /\ IF Anchored(d)
     THEN Return(j) /\ UNCHANGED anchors
     ELSE /\ anchors' = [anchors EXCEPT ![d] =
                [count |-> job[j].tip, head |-> chain[job[j].tip], prev |-> d - 1]]
          /\ job' = [job EXCEPT ![j].pc = "checkpoint"]
  /\ UNCHANGED <<checkpoints, alarm>> /\ UNCHANGED World

\* A conditional put: the first object of a day wins, the loser's job throws.
PutAnchor(j) ==
  LET d == job[j].day IN
  /\ JobAt(j, "put")
  /\ IF Anchored(d)
     THEN Return(j) /\ UNCHANGED anchors
     ELSE /\ anchors' = [anchors EXCEPT ![d] =
                [count |-> job[j].tip, head |-> chain[job[j].tip], prev |-> job[j].prev]]
          /\ job' = [job EXCEPT ![j].pc = "checkpoint"]
  /\ UNCHANGED <<checkpoints, alarm>> /\ UNCHANGED World


MutCheckpointNow(j) ==
  LET n == job[j].tip IN
  /\ JobAt(j, "checkpoint")
  /\ checkpoints' = checkpoints \cup {[count |-> Len(chain), head |-> chain[n]]}
  /\ Return(j)
  /\ UNCHANGED <<anchors, alarm>> /\ UNCHANGED World

\* Nothing is written for a walk that read no event.
WriteCheckpoint(j) ==
  LET n == job[j].tip IN
  /\ JobAt(j, "checkpoint")
  /\ checkpoints' = IF n > job[j].from
                    THEN checkpoints \cup {[count |-> n, head |-> chain[n]]}
                    ELSE checkpoints
  /\ Return(j)
  /\ UNCHANGED <<anchors, alarm>> /\ UNCHANGED World

\* The worker dies, or S3 or Postgres refuses; BullMQ runs the job again.
JobFails(j) ==
  /\ job[j] # IdleJob
  /\ Return(j)
  /\ UNCHANGED alarm /\ UNCHANGED Stores /\ UNCHANGED World

JobStep(j) ==
  \/ ReadAnchors(j) \/ Assess(j) \/ ReadToday(j) \/ PutAnchor(j) \/ WriteCheckpoint(j)

VerifyNext ==
  \/ RecordEvent \/ Midnight
  \/ \E n \in 0..MaxEvents : Restore(n)
  \/ \E j \in Jobs : Walk(j) \/ JobStep(j) \/ JobFails(j)

VerifySpec == VerifyInit /\ [][VerifyNext]_verifyVars

-----------------------------------------------------------------------------
(* Properties.                                                             *)

\* The chain is not the one an anchor was taken of: events it signed are gone.
Mismatch ==
  \E d \in Days : /\ Anchored(d)
                  /\ Len(chain) < anchors[d].count \/ chain[anchors[d].count] # anchors[d].head

\* "A clean chain is a normal result": there is no alarm, through failed and
\* repeated runs, appends, days skipped and restores, unless events are gone.
NoFalseAlarm == alarm => Mismatch

\* After events an anchor covers were lost, however many are appended since
\* and whatever the checkpoints say, no run signs or checkpoints the chain.
LossIsNeverSigned ==
  [][Mismatch => UNCHANGED <<anchors>> /\ checkpoints' \subseteq checkpoints]_verifyVars

\* "Later anchors must stay monotonic and must link to the previous day's."
AnchorsLink ==
  LET D == {d \in Days : Anchored(d)} IN
  \A d \in D : /\ anchors[d].prev = LastBefore(d, D)
              /\ \A e \in D : e <= d => anchors[e].count <= anchors[d].count

\* A checkpoint vouches for the chain there is, so the next walk can start
\* from it, across crashes, overlapping runs and restores.
CheckpointsStand == VerifyTypeOK /\ \A c \in checkpoints : Stands(c)
=============================================================================
