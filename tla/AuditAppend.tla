---------------------------- MODULE AuditAppend -----------------------------
(***************************************************************************)
(* One audit chain of BlakPath (an organisation's, or the platform's):     *)
(* concurrent transactions append events under an advisory lock that is    *)
(* held to the end of the transaction, and a verifier walks the committed  *)
(* events in keyset pages while they do.                                   *)
(*                                                                         *)
(* An event is its id, the timestamp it is ordered by and the id of the    *)
(* event whose hash it was chained to: computeEventHash covers the id and  *)
(* the previous hash, so equal ids stand for equal hashes.                 *)
(* Code: src/src/domains/audit/service.ts and verify.ts.                   *)
(*                                                                         *)
(* Operators whose names begin with Mut are slips this code could have     *)
(* made in the definition that follows them; no action uses them.          *)
(***************************************************************************)
EXTENDS Integers, FiniteSets, Sequences

CONSTANTS
  Txs,       \* concurrent transactions that record audit events
  MaxId,     \* bound: events; ids of different processes come in any order
  MaxClock,  \* bound: readings of the database clock, in milliseconds
  PageSize   \* rows per page of the verifier

Ids   == 1..MaxId
Clock == 0..MaxClock
None  == 0    \* a null hash: before the first event
NoTx  == "none"

ASSUME BoundsAssumption ==
  /\ MaxId \in Nat /\ MaxClock \in Nat
  /\ PageSize \in Nat \ {0}
  /\ NoTx \notin Txs

VARIABLES
  rows,    \* committed rows of audit_events
  tx,      \* transactions, each with the rows it has written
  lock,    \* holder of the chain's advisory lock
  walk,    \* the verifier's walk
  resume   \* the latest checkpoint

vars == <<rows, tx, lock, walk, resume>>

Events   == [id : Ids, ts : Nat, prev : Ids \cup {None}]
Cursors  == [ts : Nat \cup {-1}, id : Ids \cup {None}]
Genesis  == [ts |-> -1, id |-> None]
IdleTx   == [pc |-> "idle", mine |-> {}]
IdleWalk == [pc |-> "idle"]
Pending  == [pc : {"insert"}, mine : SUBSET Events, next : Events]
Quiet    == [pc : {"wait", "read", "open"}, mine : SUBSET Events]

TypeOK ==
  /\ rows \subseteq Events
  /\ tx \in [Txs -> {IdleTx} \cup Quiet \cup Pending]
  /\ lock \in Txs \cup {NoTx}
  /\ \A t \in Txs : tx[t].pc \in {"read", "insert", "open"} => lock = t
  /\ walk = IdleWalk \/ walk \in [pc : {"page"}, at : Cursors, diverged : BOOLEAN]
  /\ resume \in Cursors

Init ==
  /\ rows = {}
  /\ tx = [t \in Txs |-> IdleTx]
  /\ lock = NoTx
  /\ walk = IdleWalk
  /\ resume = Genesis

-----------------------------------------------------------------------------
(* The order of the chain.                                                 *)

\* ORDER BY timestamp, id
Before(r, s) == r.ts < s.ts \/ (r.ts = s.ts /\ r.id < s.id)

Last(S)  == CHOOSE r \in S : \A s \in S \ {r} : Before(s, r)
First(S) == CHOOSE r \in S : \A s \in S \ {r} : Before(r, s)

\* currentTip, inside the transaction: committed rows and its own
Visible(t) == rows \cup tx[t].mine

Taken == {r.id : r \in rows} \cup (UNION {{r.id : r \in tx[t].mine} : t \in Txs})
         \cup {tx[t].next.id : t \in {u \in Txs : tx[u].pc = "insert"}}

-----------------------------------------------------------------------------
(* recordAudit inside a caller's transaction.                              *)

At(t, pc) == tx[t].pc = pc
Walker == <<walk, resume>>

\* A transaction records its first event, or one more.
Record(t) ==
  /\ At(t, "idle") \/ At(t, "open")
  /\ tx' = [tx EXCEPT ![t] = [pc |-> "wait", mine |-> @.mine]]
  /\ UNCHANGED <<rows, lock>> /\ UNCHANGED Walker

\* pg_advisory_xact_lock waits for other holders and is re-entrant.
Lock(t) ==
  /\ At(t, "wait")
  /\ lock \in {NoTx, t}
  /\ lock' = t
  /\ tx' = [tx EXCEPT ![t].pc = "read"]
  /\ UNCHANGED rows /\ UNCHANGED Walker

\* The ordering key: the clock, or just after the tip when the clock has not
\* passed it.
MutStampTie(tip, now) == IF now < tip.ts THEN tip.ts + 1 ELSE now
Stamp(tip, now) == IF now <= tip.ts THEN tip.ts + 1 ELSE now

\* With the lock held, read the clock and then the tip, and hash the event.
ReadTip(t) ==
  /\ At(t, "read")
  /\ \E now \in Clock, id \in Ids \ Taken :
       LET tip == IF Visible(t) = {} THEN Genesis ELSE Last(Visible(t)) IN
       tx' = [tx EXCEPT ![t] =
                [pc |-> "insert", mine |-> @.mine,
                 next |-> [id |-> id, ts |-> Stamp(tip, now), prev |-> tip.id]]]
  /\ UNCHANGED <<rows, lock>> /\ UNCHANGED Walker

\* The unique index on (organisation_id, prev_hash), nulls not distinct
Fits(e, S) == \A r \in S : r.prev # e.prev


Insert(t) ==
  /\ At(t, "insert")
  /\ Fits(tx[t].next, Visible(t))
  /\ tx' = [tx EXCEPT ![t] = [pc |-> "open", mine |-> @.mine \cup {@.next}]]
  /\ UNCHANGED <<rows, lock>> /\ UNCHANGED Walker

MutKeepLock(t) == UNCHANGED lock
Release(t) == lock' = IF lock = t THEN NoTx ELSE lock

Commit(t) ==
  /\ At(t, "open")
  /\ rows' = rows \cup tx[t].mine
  /\ tx' = [tx EXCEPT ![t] = IdleTx]
  /\ Release(t)
  /\ UNCHANGED Walker

\* The business write fails, the insert is refused or the process dies: the
\* events and the business rows vanish together.
Rollback(t) ==
  /\ tx[t] # IdleTx
  /\ tx' = [tx EXCEPT ![t] = IdleTx]
  /\ Release(t)
  /\ UNCHANGED rows /\ UNCHANGED Walker

-----------------------------------------------------------------------------
(* verifyFromCheckpoint and checkpointVerifiedSuffix.                      *)

Walking == walk.pc = "page"

WalkStart ==
  /\ walk = IdleWalk
  /\ walk' = [pc |-> "page", at |-> resume, diverged |-> FALSE]
  /\ UNCHANGED <<rows, tx, lock, resume>>

MutAfterDirty(c) == {r \in rows \cup UNION {tx[t].mine : t \in Txs} : Before(c, r)}

\* The next page: the first PageSize rows strictly after the cursor.
After(c) == {r \in rows : Before(c, r)}
Page(c)  ==
  {r \in After(c) : Cardinality({s \in After(c) : Before(s, r)}) < PageSize}

\* foldAuditPage: each row links to the one before it in the page order.
Predecessor(r, c, P) ==
  LET B == {s \in P : Before(s, r)} IN IF B = {} THEN c.id ELSE Last(B).id
Linked(c, P) == \A r \in P : r.prev = Predecessor(r, c, P)

\* A broken link or a short page ends the walk; a clean, non-empty walk is
\* checkpointed where it ended.
WalkPage ==
  LET P   == Page(walk.at)
      end == IF P = {} THEN walk.at ELSE [ts |-> Last(P).ts, id |-> Last(P).id]
  IN
  /\ Walking /\ ~walk.diverged
  /\ IF ~Linked(walk.at, P)
     THEN walk' = [walk EXCEPT !.diverged = TRUE] /\ UNCHANGED resume
     ELSE IF Cardinality(P) < PageSize
     THEN walk' = IdleWalk /\ resume' = end
     ELSE walk' = [walk EXCEPT !.at = end] /\ UNCHANGED resume
  /\ UNCHANGED <<rows, tx, lock>>

\* The job dies; the next one resumes at the last checkpoint.
WalkDies ==
  /\ Walking
  /\ walk' = IdleWalk
  /\ UNCHANGED <<rows, tx, lock, resume>>

-----------------------------------------------------------------------------
TxStep(t) == Record(t) \/ Lock(t) \/ ReadTip(t) \/ Insert(t) \/ Commit(t) \/ Rollback(t)

Next ==
  \/ \E t \in Txs : TxStep(t)
  \/ WalkStart \/ WalkPage \/ WalkDies

Spec == Init /\ [][Next]_vars

\* The holder of the lock is driven on by its handler or ended by the database
\* when its connection goes; a lock freed over and over is granted in the end.
HolderStep(t) ==
  \/ ReadTip(t) \/ Insert(t) \/ Commit(t)
  \/ lock = t /\ Rollback(t)

FairSpec ==
  Spec /\ \A t \in Txs : WF_vars(HolderStep(t)) /\ SF_vars(Lock(t))

-----------------------------------------------------------------------------
(* Properties.                                                             *)

\* "The recomputed chain matches insertion order": in the verifier's order the
\* committed events form a log that only grows at its end, although
\* clocks repeat, step back and differ between processes.
Order(S) == [i \in 1..Cardinality(S) |->
               (CHOOSE r \in S : Cardinality({s \in S : Before(s, r)}) = i - 1).id]
Log == INSTANCE AppendOnlyLog WITH log <- Order(rows)
ImplementsLog == Log!Spec

\* The chain never forks: the lock keeps every insert clear of the unique
\* index, whatever else is committed or about to be.
InsertSucceeds ==
  \A t \in Txs : At(t, "insert") =>
    Fits(tx[t].next, rows \cup UNION {tx[u].mine : u \in Txs})

\* "A clean chain is a normal result": walking pages between the commits of
\* others, and resuming from checkpoints, no honest chain is reported broken.
NeverDiverges == Walking => ~walk.diverged

\* The latest checkpoint always names an event that is still in the chain.
ResumeStands ==
  resume = Genesis \/ \E r \in rows : r.ts = resume.ts /\ r.id = resume.id

\* The one chain both build on: every insert finds its place in it, and every
\* walk, or the next from its checkpoint, finds it whole.
ChainStands == TypeOK /\ InsertSucceeds /\ NeverDiverges /\ ResumeStands

\* A request that waits for the chain is not starved by other appenders.
WaitEnds == \A t \in Txs : At(t, "wait") ~> ~At(t, "wait")
=============================================================================
